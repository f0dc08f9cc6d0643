--------------------------- MODULE Arduino_proofs ---------------------------
(***************************************************************************)
(* Theorems about the Arduino client.                                      *)
(*                                                                         *)
(* SasToken, for keys, names and addresses of any length and for any       *)
(* rounds of hashBlock that make eight words.  After any number of calls   *)
(* the hash object has taken in what was written since init(): its state   *)
(* is that after the full blocks, its buffer is the rest.  So result() is  *)
(* the hash of the standard and resultHmac() its HMAC, base64_encode is    *)
(* the Base64 of the standard, what urlEncode wrote decodes to what it was *)
(* given, and the fields of a connection string are those of the device.   *)
(*                                                                         *)
(* Base64, for strings of any length: the sizes the callers allocate are   *)
(* those of what is written but for its final '\0', and decoding undoes    *)
(* encoding.                                                               *)
(*                                                                         *)
(* AzureClient, for any times, limits and numbers of pairs.  The argument  *)
(* counts time: what is left of a round of loop() fits into OnlineTime     *)
(* together with the time already spent without a connection; and while    *)
(* nothing has wrapped, since and offline can be read off the clock and    *)
(* LastWifiTime.                                                           *)
(***************************************************************************)
EXTENDS AzureClient, SasToken, NaturalsInduction, WellFoundedInduction,
        FiniteSetTheorems, TLAPS

-----------------------------------------------------------------------------
(* Induction and recursion, with sets in place of operators.               *)

USE DEF Nul

\* A set of natural numbers has a least element.
LEMMA LeastElement == ASSUME NEW T \in SUBSET Nat, T # {} PROVE \E n \in T : \A m \in T : n <= m
<1> DEFINE R == {ss \in Nat \X Nat : ss[1] < ss[2]}
<1>1. IsWellFoundedOn(R, Nat)
  BY NatLessThanWellFounded DEF OpToRel
<1>2. PICK x \in T : \A y \in T : ~ (<<y, x>> \in R)
  <2> HIDE DEF R
  <2>q. QED
    BY <1>1, WFMin
<1>3. ASSUME NEW y \in T, y < x PROVE FALSE
  <2>1. <<y, x>> \in Nat \X Nat /\ <<y, x>>[1] < <<y, x>>[2]
    BY <1>3
  <2>2. <<y, x>> \in R
    BY <2>1
  <2>q. QED
    BY <1>2, <2>2
<1> HIDE DEF R
<1>q. QED
  BY <1>3

\* A set that holds a number, and with each the next up to another, holds
\* all from the one to the other.
LEMMA Induct ==
    ASSUME NEW S, NEW a \in Nat, NEW b \in Nat,
           a \in S, \A n \in a .. b - 1 : n \in S => n + 1 \in S
    PROVE  a .. b \subseteq S
<1> SUFFICES ASSUME ~ (a .. b \subseteq S) PROVE FALSE
  OBVIOUS
<1> DEFINE T == (a .. b) \ S
<1>1. PICK n \in T : \A m \in T : n <= m
  <2>1. T \in SUBSET Nat /\ T # {}
    OBVIOUS
  <2> HIDE DEF T
  <2>q. QED
    BY <2>1, LeastElement
<1>2. n \in a .. b /\ n \notin S /\ n # a
  OBVIOUS
<1>3. n - 1 \in a .. b - 1 /\ n - 1 \notin T
  BY <1>1, <1>2
<1>4. n - 1 \in S /\ (n - 1) + 1 = n
  BY <1>2, <1>3
<1>q. QED
  BY <1>2, <1>3, <1>4

\* f[n] is what F[n] makes of f[n - 1], from v on.
IsRecursion(f, V, v, N, F) ==
    /\ f \in [0 .. N -> V]
    /\ f[0] = v
    /\ \A n \in 1 .. N : f[n] = F[n][f[n - 1]]

\* There is such a function.
LEMMA Recursion ==
    ASSUME NEW V, NEW v \in V, NEW N \in Nat, NEW F \in [1 .. N -> [V -> V]]
    PROVE  \E f : IsRecursion(f, V, v, N, F)
<1> DEFINE P(m, f) == f[0] = v /\ \A n \in 1 .. m : f[n] = F[n][f[n - 1]]
           S == {m \in 0 .. N : \E f \in [0 .. m -> V] : P(m, f)}
<1>1. 0 \in S
  <2>1. [k \in 0 .. 0 |-> v] \in [0 .. 0 -> V] /\ P(0, [k \in 0 .. 0 |-> v])
    OBVIOUS
  <2>2. 0 \in 0 .. N
    OBVIOUS
  <2> HIDE DEF P
  <2>q. QED
    BY <2>1, <2>2
<1>2. ASSUME NEW m \in 0 .. N - 1, m \in S PROVE m + 1 \in S
  <2>1. PICK f \in [0 .. m -> V] : P(m, f)
    BY <1>2
  <2> DEFINE g == [k \in 0 .. m + 1 |-> IF k <= m THEN f[k] ELSE F[m + 1][f[m]]]
  <2>2. m \in 0 .. m /\ m + 1 \in 1 .. N
    BY <1>2
  <2>3. f[m] \in V /\ F[m + 1][f[m]] \in V
    BY <2>2
  <2>4. g \in [0 .. m + 1 -> V]
    BY <2>3
  <2>5. g[0] = v
    BY <2>1
  <2>6. ASSUME NEW n \in 1 .. m + 1 PROVE g[n] = F[n][g[n - 1]]
    <3>1. CASE n <= m
      <4>1. n \in 1 .. m /\ n - 1 \in 0 .. m + 1 /\ n - 1 <= m /\ n \in 0 .. m + 1
        BY <3>1
      <4>2. g[n] = f[n] /\ g[n - 1] = f[n - 1]
        BY <4>1
      <4> HIDE DEF g
      <4>q. QED
        BY <2>1, <4>1, <4>2
    <3>2. CASE n = m + 1
      <4>1. n - 1 = m /\ m \in 0 .. m + 1 /\ n \in 0 .. m + 1 /\ ~ (n <= m)
        BY <3>2
      <4>2. g[n] = F[m + 1][f[m]] /\ g[n - 1] = f[m]
        BY <4>1
      <4> HIDE DEF g
      <4>q. QED
        BY <3>2, <4>1, <4>2
    <3>q. QED
      BY <3>1, <3>2
  <2>7. P(m + 1, g)
    <3> HIDE DEF g
    <3>q. QED
      BY <2>5, <2>6
  <2> HIDE DEF g, P
  <2>q. QED
    BY <2>4, <2>7
<1>3. 0 .. N \subseteq S
  <2> HIDE DEF S
  <2>q. QED
    BY <1>1, <1>2, Induct
<1>4. N \in S
  <2> HIDE DEF S
  <2>q. QED
    BY <1>3
<1>q. QED
  BY <1>4 DEF IsRecursion

-----------------------------------------------------------------------------
(* SHA-256: strings, blocks and states.                                    *)

\* Strings with the same characters are equal.
LEMMA SameBytes ==
    ASSUME NEW s \in Seq(Byte), NEW t \in Seq(Byte), Len(s) = Len(t),
           \A i \in 1 .. Len(s) : s[i] = t[i]
    PROVE  s = t
OBVIOUS

\* A string after another.
LEMMA Concatenation ==
    ASSUME NEW s \in Seq(Byte), NEW t \in Seq(Byte)
    PROVE  /\ s \o t \in Seq(Byte)
           /\ Len(s) \in Nat /\ Len(t) \in Nat
           /\ Len(s \o t) = Len(s) + Len(t)
           /\ \A i \in 1 .. Len(s) : (s \o t)[i] = s[i]
           /\ \A i \in 1 .. Len(t) : (s \o t)[Len(s) + i] = t[i]
<1>1. s \o t \in Seq(Byte) /\ Len(s) \in Nat /\ Len(t) \in Nat /\ Len(s \o t) = Len(s) + Len(t)
  OBVIOUS
<1>2. ASSUME NEW i \in 1 .. Len(s) PROVE (s \o t)[i] = s[i]
  OBVIOUS
<1>3. ASSUME NEW i \in 1 .. Len(t) PROVE (s \o t)[Len(s) + i] = t[i]
  OBVIOUS
<1>q. QED
  BY <1>1, <1>2, <1>3

\* The characters after the first a, up to b.
LEMMA Substring ==
    ASSUME NEW s \in Seq(Byte), NEW a \in Nat, NEW b \in Nat, a <= b, b <= Len(s)
    PROVE  /\ SubSeq(s, a + 1, b) \in Seq(Byte)
           /\ Len(SubSeq(s, a + 1, b)) = b - a
           /\ \A i \in 1 .. b - a : SubSeq(s, a + 1, b)[i] = s[a + i]
<1>1. SubSeq(s, a + 1, b) \in Seq(Byte) /\ Len(SubSeq(s, a + 1, b)) = b - a
  OBVIOUS
<1>2. ASSUME NEW i \in 1 .. b - a PROVE SubSeq(s, a + 1, b)[i] = s[a + i]
  OBVIOUS
<1>q. QED
  BY <1>1, <1>2

\* Blocks of 64, and what is left.
LEMMA Divided64 ==
    ASSUME NEW n \in Nat
    PROVE  n \div 64 \in Nat /\ n % 64 \in 0 .. 63 /\ n = 64 * (n \div 64) + (n % 64)
OBVIOUS

\* There is only one way to divide by 64.
LEMMA Quotient64 ==
    ASSUME NEW n \in Nat, NEW q \in Nat, NEW r \in 0 .. 63, n = 64 * q + r
    PROVE  n \div 64 = q /\ n % 64 = r
OBVIOUS

\* Where b characters after m others fall in the blocks, when the r of them
\* beyond the last full block are put in front of the b.
LEMMA Appended64 ==
    ASSUME NEW m \in Nat, NEW b \in Nat
    PROVE  LET k == m \div 64
               r == m % 64
               N == (r + b) \div 64
           IN  /\ k \in Nat /\ r \in 0 .. 63 /\ m = 64 * k + r
               /\ N \in Nat /\ 64 * N <= r + b /\ (r + b) - 64 * N = (m + b) % 64
               /\ (m + b) \div 64 = k + N
               /\ m + b = 64 * k + (r + b)
               /\ (m + b) - 64 * (k + N) = (r + b) - 64 * N
<1> DEFINE k == m \div 64
           r == m % 64
           N == (r + b) \div 64
           z == (r + b) % 64
<1>1. k \in Nat /\ r \in 0 .. 63 /\ m = 64 * k + r
  BY Divided64
<1>2. r + b \in Nat
  BY <1>1
<1>3. N \in Nat /\ z \in 0 .. 63 /\ r + b = 64 * N + z
  BY <1>2, Divided64
<1> HIDE DEF k, r, N, z
<1>4. m + b \in Nat /\ k + N \in Nat /\ m + b = 64 * (k + N) + z
  BY <1>1, <1>3
<1>5. (m + b) \div 64 = k + N /\ (m + b) % 64 = z
  BY <1>3, <1>4, Quotient64
<1>q. QED
  BY <1>1, <1>3, <1>4, <1>5 DEF k, r, N

\* Strings of bytes of one length.
Bytes(n) == {s \in Seq(Byte) : Len(s) = n}

\* The rounds of SHA-256 make eight words of eight words and a block.
CompressMakesWords ==
    \A state \in Bytes(32), block \in Bytes(64) : Compress(state, block) \in Bytes(32)

\* Turning the words round leaves as many bytes.
LEMMA SwappedBytes ==
    ASSUME NEW n \in Nat, n % 4 = 0, NEW s \in Bytes(n)
    PROVE  Swapped(s) \in Bytes(n)
<1>1. s \in Seq(Byte) /\ Len(s) = n
  BY DEF Bytes
<1>2. ASSUME NEW i \in 1 .. n PROVE s[4 * ((i - 1) \div 4) + 4 - ((i - 1) % 4)] \in Byte
  <2>1. 4 * ((i - 1) \div 4) + 4 - ((i - 1) % 4) \in 1 .. n
    BY SMTT(30)
  <2>q. QED
    BY <1>1, <2>1
<1>3. Swapped(s) \in [1 .. n -> Byte]
  BY <1>1, <1>2 DEF Swapped
<1>q. QED
  BY <1>3 DEF Bytes

\* Block n begins after n - 1 blocks.
LEMMA BlockOf ==
    ASSUME NEW s \in Seq(Byte), NEW n \in 1 .. Len(s) \div 64
    PROVE  /\ Block(s, n) \in Bytes(64)
           /\ \A i \in 1 .. 64 : Block(s, n)[i] = s[64 * (n - 1) + i]
<1>1. 64 * (n - 1) + 1 \in 1 .. Len(s) + 1 /\ 64 * n \in 0 .. Len(s) /\ n \in Nat
  OBVIOUS
<1> DEFINE a == 64 * (n - 1) + 1
           b == 64 * n
<1>2. a \in 1 .. Len(s) + 1 /\ b \in a - 1 .. Len(s) /\ b - a + 1 = 64
  BY <1>1
<1>3. Block(s, n) = SubSeq(s, a, b)
  BY DEF Block, BUFFER_SIZE
<1>4. \A i \in 1 .. 64 : a + i - 1 = 64 * (n - 1) + i
  BY <1>1
<1> HIDE DEF a, b
<1>5. SubSeq(s, a, b) \in Seq(Byte) /\ Len(SubSeq(s, a, b)) = 64
  BY <1>2
<1>6. ASSUME NEW i \in 1 .. 64 PROVE SubSeq(s, a, b)[i] = s[a + i - 1]
  BY <1>2
<1>q. QED
  BY <1>3, <1>4, <1>5, <1>6, ZenonT(60) DEF Bytes

\* f are the states after each of the blocks of m.
IsStates(f, state, m) ==
    /\ f \in [0 .. Len(m) \div 64 -> Bytes(32)]
    /\ f[0] = state
    /\ \A n \in 1 .. Len(m) \div 64 : f[n] = Compress(f[n - 1], Swapped(Block(m, n)))

\* StatesFrom is such a function.
LEMMA StatesExist ==
    ASSUME CompressMakesWords, NEW state \in Bytes(32), NEW m \in Seq(Byte)
    PROVE  IsStates(StatesFrom(state, m), state, m)
<1> DEFINE N == Len(m) \div 64
           V == Bytes(32)
           F == [n \in 1 .. N |-> [w \in V |-> Compress(w, Swapped(Block(m, n)))]]
           G(f) == [n \in 0 .. N |-> IF n = 0 THEN state
                                     ELSE Compress(f[n - 1], Swapped(Block(m, n)))]
<1>1. N \in Nat
  OBVIOUS
<1>2. F \in [1 .. N -> [V -> V]]
  <2>1. ASSUME NEW n \in 1 .. N, NEW w \in V PROVE Compress(w, Swapped(Block(m, n))) \in V
    <3>1. Swapped(Block(m, n)) \in Bytes(64)
      BY BlockOf, SwappedBytes
    <3>q. QED
      BY <3>1 DEF CompressMakesWords
  <2>q. QED
    BY <2>1
<1>3. PICK f : IsRecursion(f, V, state, N, F)
  <2> HIDE DEF N, V, F
  <2>1. state \in V
    BY DEF V
  <2>q. QED
    BY <1>1, <1>2, <2>1, Recursion, Zenon
<1>4. f = G(f)
  BY <1>3, SMTT(60) DEF IsRecursion
<1>5. StatesFrom(state, m) = CHOOSE g : g = G(g)
  BY DEF StatesFrom, BUFFER_SIZE
<1>6. StatesFrom(state, m) = G(StatesFrom(state, m))
  <2> HIDE DEF G
  <2>q. QED
    BY <1>4, <1>5
<1> DEFINE g == StatesFrom(state, m)
           S == {n \in 0 .. N : g[n] = f[n]}
<1>7. 0 \in S
  BY <1>3, <1>6 DEF IsRecursion
<1>8. ASSUME NEW n \in 0 .. N - 1, n \in S PROVE n + 1 \in S
  <2>1. n + 1 \in 1 .. N /\ n + 1 \in 0 .. N /\ (n + 1) - 1 = n /\ n + 1 # 0
    OBVIOUS
  <2>2. g[n + 1] = Compress(g[n], Swapped(Block(m, n + 1)))
    BY <1>6, <2>1
  <2>3. f[n + 1] = Compress(f[n], Swapped(Block(m, n + 1)))
    BY <1>4, <2>1
  <2>q. QED
    BY <1>8, <2>1, <2>2, <2>3
<1>9. 0 .. N \subseteq S
  <2> HIDE DEF S, N
  <2>q. QED
    BY <1>1, <1>7, <1>8, Induct
<1>10. g = f
  BY <1>4, <1>6, <1>9
<1>11. f \in [0 .. N -> V] /\ f[0] = state
  BY <1>3 DEF IsRecursion
<1>12. \A n \in 1 .. N : g[n] = Compress(g[n - 1], Swapped(Block(m, n)))
  BY <1>6
<1>q. QED
  BY <1>10, <1>11, <1>12 DEF IsStates

\* Blocks are equal if their bytes are.
LEMMA SameBlock ==
    ASSUME NEW s \in Seq(Byte), NEW i \in 1 .. Len(s) \div 64,
           NEW t \in Seq(Byte), NEW j \in 1 .. Len(t) \div 64,
           \A e \in 1 .. 64 : s[64 * (i - 1) + e] = t[64 * (j - 1) + e]
    PROVE  Block(s, i) = Block(t, j)
<1> DEFINE x == Block(s, i)
           y == Block(t, j)
<1>1. x \in Seq(Byte) /\ Len(x) = 64 /\ y \in Seq(Byte) /\ Len(y) = 64
  BY BlockOf DEF Bytes
<1>2. \A e \in 1 .. 64 : x[e] = y[e]
  <2>1. /\ \A e \in 1 .. 64 : x[e] = s[64 * (i - 1) + e]
        /\ \A e \in 1 .. 64 : y[e] = t[64 * (j - 1) + e]
    BY BlockOf, ZenonT(60)
  <2> HIDE DEF x, y
  <2>q. QED
    BY <2>1, ZenonT(60)
<1> HIDE DEF x, y
<1>3. Len(x) = Len(y) /\ \A e \in 1 .. Len(x) : x[e] = y[e]
  BY <1>1, <1>2
<1>4. x = y
  BY <1>1, <1>3, SameBytes, Zenon
<1>q. QED
  BY <1>4 DEF x, y

\* Where the blocks agree from some place on, and the states there, the states
\* after them agree.
LEMMA SameStates ==
    ASSUME NEW s, NEW t, NEW v, NEW w, NEW f, NEW g,
           IsStates(f, v, s), IsStates(g, w, t),
           NEW a \in Nat, NEW c \in Nat, NEW d \in Nat,
           Len(s) \div 64 = c, Len(t) \div 64 = d, a + c <= d,
           g[a] = f[0],
           \A n \in 1 .. c : Block(t, a + n) = Block(s, n)
    PROVE  g[a + c] = f[c]
<1> DEFINE S == {n \in 0 .. c : g[a + n] = f[n]}
<1>1. 0 \in S
  OBVIOUS
<1>2. ASSUME NEW n \in 0 .. c - 1, n \in S PROVE n + 1 \in S
  <2>1. /\ n + 1 \in 1 .. c /\ n + 1 \in 1 .. Len(s) \div 64
        /\ a + (n + 1) \in 1 .. Len(t) \div 64
        /\ (n + 1) - 1 = n /\ (a + (n + 1)) - 1 = a + n /\ n + 1 \in 0 .. c
    OBVIOUS
  <2>2. f[n + 1] = Compress(f[n], Swapped(Block(s, n + 1)))
    BY <2>1 DEF IsStates
  <2>3. g[a + (n + 1)] = Compress(g[a + n], Swapped(Block(t, a + (n + 1))))
    BY <2>1 DEF IsStates
  <2>q. QED
    BY <1>2, <2>1, <2>2, <2>3
<1>3. 0 .. c \subseteq S
  <2> HIDE DEF S
  <2>q. QED
    BY <1>1, <1>2, Induct
<1>q. QED
  BY <1>3

\* From the same beginning on.
LEMMA SameStart ==
    ASSUME NEW s, NEW t, NEW v, NEW f, NEW g, IsStates(f, v, s), IsStates(g, v, t),
           NEW c \in Nat, NEW d \in Nat,
           Len(s) \div 64 = c, Len(t) \div 64 = d, c <= d,
           \A n \in 1 .. c : Block(t, n) = Block(s, n)
    PROVE  g[c] = f[c]
<1>1. g[0] = f[0]
  BY DEF IsStates
<1>2. 0 + c <= d /\ 0 + c = c /\ 0 \in Nat
  OBVIOUS
<1>3. ASSUME NEW n \in 1 .. c PROVE Block(t, 0 + n) = Block(s, n)
  <2>1. 0 + n = n
    OBVIOUS
  <2>q. QED
    BY <2>1
<1>4. g[0 + c] = f[c]
  BY <1>1, <1>2, <1>3, SameStates
<1>q. QED
  BY <1>2, <1>4

-----------------------------------------------------------------------------
\* h has taken in the bytes m: the full blocks are in its state, the rest is
\* in its buffer.
Absorbed(h, m) ==
    /\ h.state = StatesFrom(Initial, m)[Len(m) \div 64]
    /\ h.buffer = SubSeq(m, 64 * (Len(m) \div 64) + 1, Len(m))

\* The objects Sha256.
Sha == [state : Bytes(32), buffer : Seq(Byte), byteCount : Nat, keyBuffer : Bytes(64)]

\* What addUncounted puts together and what it stands for, character by
\* character and block by block.
LEMMA SameTail ==
    ASSUME NEW m \in Seq(Byte), NEW b \in Seq(Byte)
    PROVE  LET k      == Len(m) \div 64
               r      == Len(m) % 64
               N      == (r + Len(b)) \div 64
               buffer == SubSeq(m, 64 * k + 1, Len(m))
               all    == buffer \o b
           IN  /\ buffer \in Seq(Byte) /\ Len(buffer) = r
               /\ all \in Seq(Byte) /\ Len(all) = r + Len(b)
               /\ \A i \in 1 .. r + Len(b) : (m \o b)[64 * k + i] = all[i]
<1> DEFINE k   == Len(m) \div 64
           r   == Len(m) % 64
           buffer == SubSeq(m, 64 * k + 1, Len(m))
           all == buffer \o b
           M   == m \o b
<1>0. Len(m) \in Nat /\ Len(b) \in Nat
  OBVIOUS
<1>1. k \in Nat /\ r \in 0 .. 63 /\ Len(m) = 64 * k + r
  BY <1>0, Divided64, Zenon
<1>2. 64 * k \in Nat /\ 64 * k <= Len(m) /\ Len(m) - 64 * k = r
  <2> HIDE DEF k, r
  <2>q. QED
    BY <1>0, <1>1
<1>3. /\ buffer \in Seq(Byte) /\ Len(buffer) = r
      /\ \A i \in 1 .. r : buffer[i] = m[64 * k + i]
  <2> HIDE DEF k, r
  <2>q. QED
    BY <1>0, <1>1, <1>2, Substring
<1>4. /\ all \in Seq(Byte) /\ Len(all) = r + Len(b)
      /\ \A i \in 1 .. r : all[i] = buffer[i]
      /\ \A i \in 1 .. Len(b) : all[r + i] = b[i]
  <2> HIDE DEF buffer
  <2>1. /\ all \in Seq(Byte) /\ Len(all) = Len(buffer) + Len(b)
        /\ \A i \in 1 .. Len(buffer) : all[i] = buffer[i]
        /\ \A i \in 1 .. Len(b) : all[Len(buffer) + i] = b[i]
    BY <1>3, Concatenation, Zenon
  <2> HIDE DEF r, all
  <2>q. QED
    BY <1>3, <2>1
<1>5. /\ \A i \in 1 .. Len(m) : M[i] = m[i]
      /\ \A i \in 1 .. Len(b) : M[Len(m) + i] = b[i]
  BY Concatenation
<1> HIDE DEF k, r, buffer, all, M
<1>6. ASSUME NEW i \in 1 .. r + Len(b) PROVE M[64 * k + i] = all[i]
  <2>1. CASE i <= r
    <3>1. 64 * k + i \in 1 .. Len(m) /\ i \in 1 .. r
      BY <1>0, <1>1, <2>1
    <3>q. QED
      BY <1>3, <1>4, <1>5, <3>1
  <2>2. CASE ~ (i <= r)
    <3> DEFINE j == i - r
    <3>1. j \in 1 .. Len(b) /\ 64 * k + i = Len(m) + j /\ i = r + j
      BY <1>0, <1>1, <2>2
    <3> HIDE DEF j
    <3>q. QED
      BY <1>4, <1>5, <3>1
  <2>q. QED
    BY <2>1, <2>2
<1>q. QED
  BY <1>3, <1>4, <1>6 DEF k, r, buffer, all, M

\* The blocks, too, are the same, and so the states after them.
LEMMA SameHash ==
    ASSUME CompressMakesWords, Initial \in Bytes(32)
    PROVE  \A m, b \in Seq(Byte) :
           LET k == Len(m) \div 64
               N == ((Len(m) % 64) + Len(b)) \div 64
               state == StatesFrom(Initial, m)[k]
               all == SubSeq(m, 64 * k + 1, Len(m)) \o b
           IN  /\ state \in Bytes(32)
               /\ StatesFrom(state, all)[N] \in Bytes(32)
               /\ StatesFrom(Initial, m \o b)[k + N] = StatesFrom(state, all)[N]
<1>0. SUFFICES ASSUME NEW m, NEW b, m \in Seq(Byte), b \in Seq(Byte)
               PROVE  LET k == Len(m) \div 64
                          N == ((Len(m) % 64) + Len(b)) \div 64
                          state == StatesFrom(Initial, m)[k]
                          all == SubSeq(m, 64 * k + 1, Len(m)) \o b
                      IN  /\ state \in Bytes(32)
                          /\ StatesFrom(state, all)[N] \in Bytes(32)
                          /\ StatesFrom(Initial, m \o b)[k + N] = StatesFrom(state, all)[N]
  OBVIOUS
<1> DEFINE k   == Len(m) \div 64
           r   == Len(m) % 64
           l   == r + Len(b)
           N   == l \div 64
           M   == m \o b
           all == SubSeq(m, 64 * k + 1, Len(m)) \o b
           p   == StatesFrom(Initial, m)
           state == p[k]
           f   == StatesFrom(state, all)
           g   == StatesFrom(Initial, M)
<1>1. Len(m) \in Nat /\ Len(b) \in Nat
  BY <1>0
<1>2. /\ k \in Nat /\ r \in 0 .. 63 /\ Len(m) = 64 * k + r
      /\ N \in Nat /\ 64 * N <= l
  BY <1>1, Appended64, ZenonT(60)
<1>2a. (Len(m) + Len(b)) \div 64 = k + N
  BY <1>1, Appended64, ZenonT(60)
<1>2b. l \in Nat
  <2> HIDE DEF r
  <2>q. QED
    BY <1>1, <1>2
<1>3. /\ M \in Seq(Byte) /\ Len(M) = Len(m) + Len(b)
      /\ \A i \in 1 .. Len(m) : M[i] = m[i]
  BY <1>0, Concatenation
<1>4. /\ all \in Seq(Byte) /\ Len(all) = l
      /\ \A i \in 1 .. l : M[64 * k + i] = all[i]
  BY <1>0, SameTail, ZenonT(60)
<1>5. Len(M) \div 64 = k + N /\ Len(all) \div 64 = N
  <2> HIDE DEF k, r, M, all, l
  <2>q. QED
    BY <1>2a, <1>3, <1>4 DEF N
<1>6. IsStates(p, Initial, m) /\ p[k] \in Bytes(32)
  <2>1. IsStates(p, Initial, m)
    BY <1>0, StatesExist
  <2>2. k \in 0 .. Len(m) \div 64
    BY <1>2
  <2>q. QED
    BY <2>1, <2>2 DEF IsStates
<1>7. IsStates(g, Initial, M)
  <2> HIDE DEF M
  <2>q. QED
    BY <1>3, StatesExist
<1>8. IsStates(f, state, all) /\ f[N] \in Bytes(32)
  <2> HIDE DEF all, state
  <2>1. IsStates(f, state, all)
    BY <1>4, <1>6, StatesExist DEF state
  <2>2. N \in 0 .. Len(all) \div 64
    BY <1>2, <1>5
  <2>q. QED
    BY <2>1, <2>2 DEF IsStates
<1>9. \A n \in 1 .. k : Block(M, n) = Block(m, n)
  <2>1. ASSUME NEW n \in 1 .. k PROVE Block(M, n) = Block(m, n)
    <3> HIDE DEF M, N, k
    <3>1. n \in 1 .. Len(M) \div 64 /\ n \in 1 .. k
      BY <1>2, <1>5
    <3>2. ASSUME NEW e \in 1 .. 64 PROVE M[64 * (n - 1) + e] = m[64 * (n - 1) + e]
      <4>1. 64 * (n - 1) + e \in 1 .. Len(m)
        BY <1>2
      <4>q. QED
        BY <1>3, <4>1
    <3>q. QED
      BY <1>0, <1>3, <3>1, <3>2, SameBlock DEF k
  <2>q. QED
    BY <2>1
<1>10. \A n \in 1 .. N : Block(M, k + n) = Block(all, n)
  <2>1. ASSUME NEW n \in 1 .. N PROVE Block(M, k + n) = Block(all, n)
    <3> HIDE DEF M, N, k, all, l
    <3>1. k + n \in 1 .. Len(M) \div 64 /\ n \in 1 .. Len(all) \div 64
      BY <1>2, <1>5
    <3>2. ASSUME NEW e \in 1 .. 64 PROVE M[64 * ((k + n) - 1) + e] = all[64 * (n - 1) + e]
      <4> DEFINE i == 64 * (n - 1) + e
      <4>1. i \in 1 .. l /\ 64 * ((k + n) - 1) + e = 64 * k + i
        BY <1>2, <1>2b
      <4> HIDE DEF i
      <4>q. QED
        BY <1>4, <4>1 DEF i
    <3>q. QED
      BY <1>3, <1>4, <3>1, <3>2, SameBlock
  <2>q. QED
    BY <2>1
<1>11. Len(m) \div 64 = k
  OBVIOUS
<1> HIDE DEF k, r, l, N, M, all, p, state, f, g
<1>12. k + N <= k + N /\ k + N \in Nat
  BY <1>2
<1>13. g[0] = p[0]
  BY <1>6, <1>7 DEF IsStates
<1>14. g[k] = p[k]
  <2>1. k <= k + N
    BY <1>2
  <2>q. QED
    BY <1>2, <1>5, <1>6, <1>7, <1>9, <1>11, <1>12, <2>1, SameStart
<1>15. g[k] = f[0]
  BY <1>8, <1>14 DEF IsStates, state
<1>16. g[k + N] = f[N]
  BY <1>2, <1>5, <1>7, <1>8, <1>10, <1>12, <1>15, SameStates
<1>q. QED
  BY <1>6, <1>8, <1>16 DEF k, r, l, N, M, all, p, state, f, g

\* What stays in the buffer is the rest of the whole.
LEMMA SameRest ==
    \A m, b \in Seq(Byte) :
        LET k   == Len(m) \div 64
            l   == (Len(m) % 64) + Len(b)
            N   == l \div 64
            M   == m \o b
            all == SubSeq(m, 64 * k + 1, Len(m)) \o b
        IN  /\ SubSeq(all, 64 * N + 1, Len(all)) = SubSeq(M, 64 * (k + N) + 1, Len(M))
            /\ SubSeq(all, 64 * N + 1, Len(all)) \in Seq(Byte)
            /\ Len(SubSeq(all, 64 * N + 1, Len(all))) = (Len(m) + Len(b)) % 64
<1>0. SUFFICES
        ASSUME NEW m, NEW b, m \in Seq(Byte), b \in Seq(Byte)
        PROVE  LET k   == Len(m) \div 64
                   l   == (Len(m) % 64) + Len(b)
                   N   == l \div 64
                   M   == m \o b
                   all == SubSeq(m, 64 * k + 1, Len(m)) \o b
               IN  /\ SubSeq(all, 64 * N + 1, Len(all)) = SubSeq(M, 64 * (k + N) + 1, Len(M))
                   /\ SubSeq(all, 64 * N + 1, Len(all)) \in Seq(Byte)
                   /\ Len(SubSeq(all, 64 * N + 1, Len(all))) = (Len(m) + Len(b)) % 64
  BY ZenonT(60)
<1> DEFINE k   == Len(m) \div 64
           r   == Len(m) % 64
           l   == r + Len(b)
           N   == l \div 64
           M   == m \o b
           all == SubSeq(m, 64 * k + 1, Len(m)) \o b
           x   == SubSeq(all, 64 * N + 1, Len(all))
           y   == SubSeq(M, 64 * (k + N) + 1, Len(M))
           z   == (Len(m) + Len(b)) % 64
<1>1. Len(m) \in Nat /\ Len(b) \in Nat
  BY <1>0
<1>2. /\ k \in Nat /\ r \in 0 .. 63 /\ N \in Nat /\ 64 * N <= l /\ l - 64 * N = z
      /\ Len(m) + Len(b) = 64 * k + l
  <2>1. k \in Nat /\ r \in 0 .. 63 /\ N \in Nat /\ 64 * N <= l
    BY <1>1, Appended64, ZenonT(60)
  <2>2. l - 64 * N = z
    BY <1>1, Appended64, ZenonT(60)
  <2>3. Len(m) + Len(b) = 64 * k + l
    BY <1>1, Appended64, ZenonT(60)
  <2>q. QED
    BY <2>1, <2>2, <2>3
<1>3. /\ M \in Seq(Byte) /\ Len(M) = Len(m) + Len(b)
  BY <1>0, Concatenation
<1>4. /\ all \in Seq(Byte) /\ Len(all) = l
      /\ \A i \in 1 .. l : M[64 * k + i] = all[i]
  BY <1>0, SameTail, ZenonT(60)
<1>5. l \in Nat
  <2> HIDE DEF r
  <2>q. QED
    BY <1>1, <1>2
<1> HIDE DEF k, r, l, N, M, all, z
<1>6. /\ 64 * N \in Nat /\ 64 * (k + N) \in Nat /\ 64 * (k + N) <= 64 * k + l
      /\ (64 * k + l) - 64 * (k + N) = z /\ 64 * k + l \in Nat
  BY <1>2, <1>5
<1>7. x \in Seq(Byte) /\ Len(x) = z /\ \A i \in 1 .. z : x[i] = all[64 * N + i]
  BY <1>2, <1>4, <1>5, <1>6, Substring
<1>8. y \in Seq(Byte) /\ Len(y) = z /\ \A i \in 1 .. z : y[i] = M[64 * (k + N) + i]
  BY <1>1, <1>2, <1>3, <1>6, Substring
<1>9. ASSUME NEW i \in 1 .. z PROVE x[i] = y[i]
  <2> DEFINE j == 64 * N + i
  <2>1. j \in 1 .. l /\ 64 * (k + N) + i = 64 * k + j
    BY <1>2, <1>5
  <2> HIDE DEF j
  <2>2. M[64 * k + j] = all[j]
    BY <1>4, <2>1
  <2> HIDE DEF x, y
  <2>q. QED
    BY <1>7, <1>8, <2>1, <2>2 DEF j
<1> HIDE DEF x, y
<1>10. Len(x) = Len(y) /\ \A i \in 1 .. Len(x) : x[i] = y[i]
  BY <1>7, <1>8, <1>9
<1>11. x = y
  BY <1>7, <1>8, <1>10, SameBytes, Zenon
<1>q. QED
  BY <1>7, <1>11 DEF k, r, l, N, M, all, x, y, z

\* addUncounted takes in what it is given, whatever the buffer holds.
LEMMA AddAbsorbs ==
    ASSUME CompressMakesWords, Initial \in Bytes(32)
    PROVE  \A h \in Sha : \A m, b \in Seq(Byte) :
              Absorbed(h, m) =>
                LET a == addUncounted(h, b)
                IN  /\ a \in Sha /\ Absorbed(a, m \o b)
                    /\ a.byteCount = h.byteCount /\ a.keyBuffer = h.keyBuffer
                    /\ Len(a.buffer) = (Len(m) + Len(b)) % 64
<1>0. SUFFICES ASSUME NEW h, NEW m, NEW b, h \in Sha, m \in Seq(Byte), b \in Seq(Byte),
                      Absorbed(h, m)
               PROVE  LET a == addUncounted(h, b)
                      IN  /\ a \in Sha /\ Absorbed(a, m \o b)
                          /\ a.byteCount = h.byteCount /\ a.keyBuffer = h.keyBuffer
                          /\ Len(a.buffer) = (Len(m) + Len(b)) % 64
  OBVIOUS
<1> DEFINE k   == Len(m) \div 64
           l   == (Len(m) % 64) + Len(b)
           N   == l \div 64
           M   == m \o b
           all == SubSeq(m, 64 * k + 1, Len(m)) \o b
           state == StatesFrom(Initial, m)[k]
           x   == SubSeq(all, 64 * N + 1, Len(all))
           a   == addUncounted(h, b)
<1>1. Len(m) \in Nat /\ Len(b) \in Nat
  BY <1>0
<1>2. h.state = state /\ h.buffer \o b = all
  BY <1>0 DEF Absorbed
<1>3. Len(all) = l /\ Len(M) = Len(m) + Len(b)
  <2>1. Len(M) = Len(m) + Len(b)
    BY <1>0, Concatenation
  <2>q. QED
    BY <1>0, <2>1, SameTail
<1>4. (Len(m) + Len(b)) \div 64 = k + N
  BY <1>1, Appended64, ZenonT(60)
<1>5. /\ StatesFrom(state, all)[N] \in Bytes(32)
      /\ StatesFrom(Initial, M)[k + N] = StatesFrom(state, all)[N]
  BY <1>0, SameHash
<1>6. /\ x = SubSeq(M, 64 * (k + N) + 1, Len(M))
      /\ x \in Seq(Byte) /\ Len(x) = (Len(m) + Len(b)) % 64
  BY <1>0, SameRest, ZenonT(60)
<1>7. a = [h EXCEPT !.state = StatesFrom(state, all)[N], !.buffer = x]
  <2> HIDE DEF all, state, l
  <2>q. QED
    BY <1>2, <1>3 DEF addUncounted, BUFFER_SIZE
<1> HIDE DEF k, l, N, M, all, state, x
<1>8. /\ a \in Sha /\ a.byteCount = h.byteCount /\ a.keyBuffer = h.keyBuffer
      /\ a.state = StatesFrom(state, all)[N] /\ a.buffer = x
  <2> HIDE DEF a
  <2>q. QED
    BY <1>0, <1>5, <1>6, <1>7 DEF Sha
<1> HIDE DEF a
<1>9. Absorbed(a, M)
  BY <1>3, <1>4, <1>5, <1>6, <1>8 DEF Absorbed
<1>q. QED
  BY <1>6, <1>8, <1>9 DEF a, M

\* init() leaves nothing of what went before but the key buffer.
LEMMA InitAbsorbsNothing ==
    ASSUME CompressMakesWords, Initial \in Bytes(32)
    PROVE  \A h \in Sha :
              /\ init(h) \in Sha /\ Absorbed(init(h), <<>>)
              /\ init(h).byteCount = 0 /\ init(h).keyBuffer = h.keyBuffer
<1>0. SUFFICES ASSUME NEW h, h \in Sha
               PROVE  /\ init(h) \in Sha /\ Absorbed(init(h), <<>>)
                      /\ init(h).byteCount = 0 /\ init(h).keyBuffer = h.keyBuffer
  OBVIOUS
<1>1. init(h) = [h EXCEPT !.state = Initial, !.byteCount = 0, !.buffer = <<>>]
  BY DEF init
<1>3. <<>> \in Seq(Byte) /\ Len(<<>>) = 0
  OBVIOUS
<1>2. /\ init(h) \in Sha /\ init(h).byteCount = 0 /\ init(h).keyBuffer = h.keyBuffer
      /\ init(h).state = Initial /\ init(h).buffer = <<>>
  <2> DEFINE e == <<>>
  <2>1. e \in Seq(Byte) /\ init(h) = [h EXCEPT !.state = Initial, !.byteCount = 0, !.buffer = e]
    BY <1>1, <1>3
  <2> HIDE DEF e
  <2>3. Initial \in Bytes(32) /\ 0 \in Nat /\ h.keyBuffer \in Bytes(64)
    BY <1>0 DEF Sha
  <2>4. init(h) = [state |-> Initial, buffer |-> e, byteCount |-> 0, keyBuffer |-> h.keyBuffer]
    BY <1>0, <2>1, Zenon DEF Sha
  <2>2. /\ init(h) \in Sha /\ init(h).byteCount = 0 /\ init(h).keyBuffer = h.keyBuffer
        /\ init(h).state = Initial /\ init(h).buffer = e
    BY <2>1, <2>3, <2>4 DEF Sha
  <2>q. QED
    BY <2>2 DEF e
<1>4. IsStates(StatesFrom(Initial, <<>>), Initial, <<>>)
  BY <1>3, StatesExist
<1>5. Initial = StatesFrom(Initial, <<>>)[Len(<<>>) \div 64]
  BY <1>3, <1>4 DEF IsStates
<1>6. <<>> = SubSeq(<<>>, 64 * (Len(<<>>) \div 64) + 1, Len(<<>>))
  BY <1>3
<1>q. QED
  BY <1>2, <1>5, <1>6 DEF Absorbed

\* write() counts what it adds.
LEMMA WriteAbsorbs ==
    ASSUME CompressMakesWords, Initial \in Bytes(32)
    PROVE  \A h \in Sha : \A m, b \in Seq(Byte) :
              Absorbed(h, m) =>
                LET w == write(h, b)
                IN  /\ w \in Sha /\ Absorbed(w, m \o b)
                    /\ w.byteCount = h.byteCount + Len(b) /\ w.keyBuffer = h.keyBuffer
<1>0. SUFFICES ASSUME NEW h, NEW m, NEW b, h \in Sha, m \in Seq(Byte), b \in Seq(Byte),
                      Absorbed(h, m)
               PROVE  LET w == write(h, b)
                      IN  /\ w \in Sha /\ Absorbed(w, m \o b)
                          /\ w.byteCount = h.byteCount + Len(b) /\ w.keyBuffer = h.keyBuffer
  OBVIOUS
<1> DEFINE c == [h EXCEPT !.byteCount = @ + Len(b)]
<1>1. Len(b) \in Nat
  BY <1>0
<1>2. /\ c \in Sha /\ c.state = h.state /\ c.buffer = h.buffer
      /\ c.byteCount = h.byteCount + Len(b) /\ c.keyBuffer = h.keyBuffer
  BY <1>0, <1>1, SMTT(60) DEF Sha
<1>3. write(h, b) = addUncounted(c, b)
  BY DEF write
<1> HIDE DEF c
<1>4. Absorbed(c, m)
  BY <1>0, <1>2 DEF Absorbed
<1>q. QED
  BY <1>0, <1>2, <1>3, <1>4, AddAbsorbs

-----------------------------------------------------------------------------
\* Messages whose length in bits has at most 32 bits.
MaxLength == 536870912
Message == {m \in Seq(Byte) : Len(m) < MaxLength}

\* Zeros are bytes.
LEMMA ZerosAreBytes == \A n \in Nat : Zeros(n) \in Seq(Byte) /\ Len(Zeros(n)) = n
<1>1. ASSUME NEW n \in Nat PROVE Zeros(n) \in [1 .. n -> Byte]
  BY DEF Zeros, Byte
<1>q. QED
  BY <1>1

\* The zeros that pad() writes are those of the standard.
LEMMA PaddingFound ==
    ASSUME NEW n \in Nat
    PROVE  LET z == PaddingZeros((n + 1) % 64)
           IN  /\ z \in 0 .. 63 /\ (n + 1 + z + 8) % 64 = 0
               /\ z = CHOOSE i \in 0 .. 63 : (n + 1 + i + 8) % 64 = 0
<1> DEFINE z == PaddingZeros((n + 1) % 64)
<1>1. z \in 0 .. 63 /\ (n + 1 + z + 8) % 64 = 0
  BY SMTT(30) DEF PaddingZeros, BUFFER_SIZE
<1> HIDE DEF z
<1>2. ASSUME NEW i \in 0 .. 63, (n + 1 + i + 8) % 64 = 0 PROVE i = z
  BY <1>1, <1>2, SMTT(30)
<1>q. QED
  BY <1>1, <1>2 DEF z

\* pad() writes the length in bits in the bytes of the standard.
LEMMA LengthOfMessage ==
    \A n \in Nat : n < MaxLength =>
        /\ LengthBytes(n) \in Seq(Byte) /\ Len(LengthBytes(n)) = 8
        /\ LengthBytes(n) = BigEndian64(8 * n)
<1> SUFFICES ASSUME NEW n \in Nat, n < MaxLength
             PROVE  /\ LengthBytes(n) \in Seq(Byte) /\ Len(LengthBytes(n)) = 8
                    /\ LengthBytes(n) = BigEndian64(8 * n)
  OBVIOUS
<1>1. /\ (n \div 536870912) % 256 = 0
      /\ (n \div 2097152) % 256 = ((8 * n) \div 16777216) % 256
      /\ (n \div 8192) % 256 = ((8 * n) \div 65536) % 256
      /\ (n \div 32) % 256 = ((8 * n) \div 256) % 256
      /\ (n * 8) % 256 = (8 * n) % 256
  BY SMTT(30) DEF MaxLength
<1>2. \A i \in Int : i % 256 \in Byte
  BY DEF Byte
<1>3. n \div 2097152 \in Int /\ n \div 8192 \in Int /\ n \div 32 \in Int /\ n * 8 \in Int
  OBVIOUS
<1> DEFINE a == (n \div 2097152) % 256
           b == (n \div 8192) % 256
           c == (n \div 32) % 256
           d == (n * 8) % 256
<1>4. a \in Byte /\ b \in Byte /\ c \in Byte /\ d \in Byte /\ 0 \in Byte
  BY <1>2, <1>3 DEF Byte
<1>5. LengthBytes(n) = <<0, 0, 0, 0, a, b, c, d>>
  BY <1>1, SMT DEF LengthBytes
<1>6. BigEndian64(8 * n) = <<0, 0, 0, 0, a, b, c, d>>
  BY <1>1, SMT DEF BigEndian64
<1> HIDE DEF a, b, c, d
<1>7. <<0, 0, 0, 0, a, b, c, d>> \in Seq(Byte) /\ Len(<<0, 0, 0, 0, a, b, c, d>>) = 8
  BY <1>4
<1>q. QED
  BY <1>5, <1>6, <1>7

\* pad() makes what was taken in the padded message of the standard.
LEMMA PadCompletes ==
    ASSUME CompressMakesWords, Initial \in Bytes(32)
    PROVE  \A h \in Sha : \A m \in Message :
              Absorbed(h, m) /\ h.byteCount = Len(m) =>
                /\ pad(h) \in Sha /\ Absorbed(pad(h), Padded(m))
                /\ pad(h).byteCount = h.byteCount /\ pad(h).keyBuffer = h.keyBuffer
                /\ pad(h).buffer = <<>>
                /\ Padded(m) \in Seq(Byte)
<1>0. SUFFICES ASSUME NEW h, NEW m, h \in Sha, m \in Message,
                      Absorbed(h, m), h.byteCount = Len(m)
               PROVE  /\ pad(h) \in Sha /\ Absorbed(pad(h), Padded(m))
                      /\ pad(h).byteCount = h.byteCount /\ pad(h).keyBuffer = h.keyBuffer
                      /\ pad(h).buffer = <<>>
                      /\ Padded(m) \in Seq(Byte)
  OBVIOUS
<1> DEFINE n      == Len(m)
           marked == addUncounted(h, <<128>>)
           z      == PaddingZeros(Len(marked.buffer))
           filled == addUncounted(marked, Zeros(z))
           m1     == m \o <<128>>
           m2     == m1 \o Zeros(z)
           m3     == m2 \o LengthBytes(n)
<1>1. m \in Seq(Byte) /\ n \in Nat /\ n < MaxLength
  BY <1>0 DEF Message
<1>2. <<128>> \in Seq(Byte) /\ Len(<<128>>) = 1
  BY DEF Byte
<1>3. m1 \in Seq(Byte) /\ Len(m1) = n + 1
  BY <1>1, <1>2, Concatenation
<1>4. /\ marked \in Sha /\ Absorbed(marked, m1)
      /\ marked.byteCount = h.byteCount /\ marked.keyBuffer = h.keyBuffer
      /\ Len(marked.buffer) = (n + 1) % 64
  <2> HIDE DEF m1
  <2>q. QED
    BY <1>0, <1>1, <1>2, AddAbsorbs, ZenonT(60) DEF m1
<1>5. /\ z \in 0 .. 63 /\ (n + 1 + z + 8) % 64 = 0
      /\ z = CHOOSE i \in 0 .. 63 : (n + 1 + i + 8) % 64 = 0
  <2> HIDE DEF n, marked
  <2>q. QED
    BY <1>1, <1>4, PaddingFound
<1>5a. z \in Nat
  <2>1. z \in 0 .. 63
    BY <1>5
  <2> HIDE DEF z
  <2>q. QED
    BY <2>1
<1>6. Zeros(z) \in Seq(Byte) /\ Len(Zeros(z)) = z
  <2> HIDE DEF z
  <2>q. QED
    BY <1>5a, ZerosAreBytes
<1>7. m2 \in Seq(Byte) /\ Len(m2) = n + 1 + z
  <2> HIDE DEF m1, z, n
  <2>1. m2 \in Seq(Byte) /\ Len(m2) = Len(m1) + Len(Zeros(z))
    BY <1>3, <1>6, Concatenation
  <2> HIDE DEF m2
  <2>q. QED
    BY <1>3, <1>6, <2>1
<1>8. /\ filled \in Sha /\ Absorbed(filled, m2)
      /\ filled.byteCount = h.byteCount /\ filled.keyBuffer = h.keyBuffer
  <2> HIDE DEF m1, z, marked
  <2>q. QED
    BY <1>3, <1>4, <1>6, AddAbsorbs
<1>9. /\ LengthBytes(n) \in Seq(Byte) /\ Len(LengthBytes(n)) = 8
      /\ LengthBytes(n) = BigEndian64(8 * n)
  <2> HIDE DEF n
  <2>q. QED
    BY <1>1, LengthOfMessage
<1>10. m3 \in Seq(Byte) /\ Len(m3) = n + 1 + z + 8
  <2> HIDE DEF m2, z, n
  <2>1. m3 \in Seq(Byte) /\ Len(m3) = Len(m2) + Len(LengthBytes(n))
    BY <1>7, <1>9, Concatenation
  <2> HIDE DEF m3
  <2>q. QED
    BY <1>7, <1>9, <2>1
<1>11. m3 = Padded(m)
  <2>1. Padded(m) = m1 \o Zeros(z) \o BigEndian64(8 * n)
    <3> HIDE DEF z
    <3>q. QED
      BY <1>5 DEF Padded
  <2>q. QED
    BY <1>9, <2>1
<1>12. pad(h) = addUncounted(filled, LengthBytes(n))
  <2>1. pad(h) = addUncounted(filled, LengthBytes(h.byteCount))
    BY DEF pad
  <2> HIDE DEF filled, n
  <2>q. QED
    BY <1>0, <2>1 DEF n
<1>13. /\ pad(h) \in Sha /\ Absorbed(pad(h), m3)
       /\ pad(h).byteCount = h.byteCount /\ pad(h).keyBuffer = h.keyBuffer
       /\ Len(pad(h).buffer) = (Len(m2) + 8) % 64
  <2> DEFINE b == LengthBytes(n)
  <2>1. b \in Seq(Byte) /\ Len(b) = 8 /\ pad(h) = addUncounted(filled, b) /\ m3 = m2 \o b
    BY <1>9, <1>12
  <2> HIDE DEF filled, m2, m3, n, b
  <2>2. LET a == addUncounted(filled, b)
        IN  /\ a \in Sha /\ Absorbed(a, m2 \o b)
            /\ a.byteCount = filled.byteCount /\ a.keyBuffer = filled.keyBuffer
            /\ Len(a.buffer) = (Len(m2) + Len(b)) % 64
    BY <1>7, <1>8, <2>1, AddAbsorbs
  <2>q. QED
    BY <1>8, <2>1, <2>2
<1>14. Len(pad(h).buffer) = 0 /\ pad(h).buffer \in Seq(Byte)
  <2> HIDE DEF m2, n, z
  <2>1. Len(m2) + 8 = n + 1 + z + 8
    BY <1>7
  <2>q. QED
    BY <1>5, <1>13, <2>1 DEF Sha
<1>15. pad(h).buffer = <<>>
  BY <1>14
<1> HIDE DEF m3
<1>q. QED
  BY <1>10, <1>11, <1>13, <1>15

-----------------------------------------------------------------------------
\* For whole words the code's order of bytes is that of the standard, and its
\* own inverse.
LEMMA HighFirstWords ==
    \A s \in Bytes(32) \union Bytes(64) :
        /\ HighFirst(s) = Swapped(s)
        /\ HighFirst(HighFirst(s)) = s
        /\ HighFirst(s) \in Bytes(Len(s))
<1>0. SUFFICES ASSUME NEW s, s \in Bytes(32) \union Bytes(64)
               PROVE  /\ HighFirst(s) = Swapped(s)
                      /\ HighFirst(HighFirst(s)) = s
                      /\ HighFirst(s) \in Bytes(Len(s))
  OBVIOUS
<1> DEFINE n == Len(s)
           p(i) == i + 3 - 2 * ((i - 1) % 4)
<1>1. s \in Seq(Byte) /\ n \in {32, 64}
  BY <1>0 DEF Bytes
<1>2. \A i \in 1 .. n : /\ p(i) \in 1 .. n /\ p(p(i)) = i
                        /\ p(i) = 4 * ((i - 1) \div 4) + 4 - ((i - 1) % 4)
  <2> HIDE DEF n
  <2>q. QED
    BY <1>1, SMTT(30)
<1>3. HighFirst(s) = [i \in 1 .. n |-> s[p(i)]]
  BY DEF HighFirst
<1> HIDE DEF p
<1>4. HighFirst(s) \in [1 .. n -> Byte]
  BY <1>1, <1>2, <1>3
<1>5. HighFirst(s) \in Seq(Byte) /\ Len(HighFirst(s)) = n
  BY <1>1, <1>4
<1>6. Swapped(s) = HighFirst(s)
  <2>1. Swapped(s) = [i \in 1 .. n |-> s[4 * ((i - 1) \div 4) + 4 - ((i - 1) % 4)]]
    BY DEF Swapped
  <2> HIDE DEF n
  <2>q. QED
    BY <1>2, <1>3, <2>1
<1>7. HighFirst(HighFirst(s)) = [i \in 1 .. n |-> HighFirst(s)[p(i)]]
  <2>1. HighFirst(HighFirst(s)) = [i \in 1 .. Len(HighFirst(s)) |-> HighFirst(s)[p(i)]]
    BY DEF HighFirst, p
  <2>q. QED
    BY <1>5, <2>1
<1>8. [i \in 1 .. n |-> HighFirst(s)[p(i)]] = [i \in 1 .. n |-> s[i]]
  <2>1. ASSUME NEW i \in 1 .. n PROVE HighFirst(s)[p(i)] = s[i]
    <3> HIDE DEF n
    <3>q. QED
      BY <1>2, <1>3
  <2> HIDE DEF n
  <2>q. QED
    BY <2>1
<1>9. s = [i \in 1 .. n |-> s[i]]
  BY <1>1
<1>q. QED
  BY <1>5, <1>6, <1>7, <1>8, <1>9 DEF Bytes

\* Each hash value of the standard is the code's state, high bytes first.
LEMMA HashesAreStates ==
    ASSUME CompressMakesWords, Initial \in Bytes(32)
    PROVE  \A p \in Seq(Byte) : \A n \in 0 .. Len(p) \div 64 :
              Hashes(p)[n] = HighFirst(StatesFrom(Initial, p)[n])
<1>0. SUFFICES ASSUME NEW p, p \in Seq(Byte)
               PROVE  \A n \in 0 .. Len(p) \div 64 :
                         Hashes(p)[n] = HighFirst(StatesFrom(Initial, p)[n])
  OBVIOUS
<1> DEFINE N == Len(p) \div 64
           f == StatesFrom(Initial, p)
           G(h) == [n \in 0 .. N |->
                       IF n = 0 THEN HighFirst(Initial)
                       ELSE HashBlock(h[n - 1], SubSeq(p, 64 * n - 63, 64 * n))]
           w == [n \in 0 .. N |-> HighFirst(f[n])]
           H == Hashes(p)
<1>1. Len(p) \in Nat /\ N \in Nat
  <2>1. Len(p) \in Nat
    BY <1>0
  <2>q. QED
    BY <2>1, Divided64
<1>2. /\ f \in [0 .. N -> Bytes(32)] /\ f[0] = Initial
      /\ \A n \in 1 .. N : f[n] = Compress(f[n - 1], Swapped(Block(p, n)))
  BY <1>0, StatesExist DEF IsStates
<1>3. ASSUME NEW n \in 1 .. N
      PROVE  HighFirst(f[n]) = HashBlock(HighFirst(f[n - 1]), SubSeq(p, 64 * n - 63, 64 * n))
  <2> HIDE DEF N, f
  <2>1. n - 1 \in 0 .. N /\ n \in Nat /\ 64 * (n - 1) + 1 = 64 * n - 63
    BY <1>1
  <2>2. f[n - 1] \in Bytes(32)
    BY <1>2, <2>1
  <2>3. HighFirst(HighFirst(f[n - 1])) = f[n - 1]
    BY <2>2, HighFirstWords
  <2>4. SubSeq(p, 64 * n - 63, 64 * n) = Block(p, n)
    BY <2>1 DEF Block, BUFFER_SIZE
  <2>5. Block(p, n) \in Bytes(64)
    BY <1>0, BlockOf DEF N
  <2>6. HighFirst(Block(p, n)) = Swapped(Block(p, n))
    BY <2>5, HighFirstWords
  <2>q. QED
    BY <1>2, <2>3, <2>4, <2>6 DEF HashBlock
<1>4. w = G(w)
  <2>1. ASSUME NEW n \in 0 .. N
        PROVE  HighFirst(f[n]) = IF n = 0 THEN HighFirst(Initial)
                                 ELSE HashBlock(w[n - 1], SubSeq(p, 64 * n - 63, 64 * n))
    <3> HIDE DEF N, f
    <3>1. CASE n = 0
      BY <1>2, <3>1
    <3>2. CASE n # 0
      <4>1. n \in 1 .. N /\ n - 1 \in 0 .. N
        BY <1>1, <3>2
      <4>2. w[n - 1] = HighFirst(f[n - 1])
        BY <4>1
      <4> HIDE DEF w
      <4>q. QED
        BY <1>3, <3>2, <4>1, <4>2
    <3>q. QED
      BY <3>1, <3>2
  <2> HIDE DEF f, N
  <2>q. QED
    BY <2>1
<1>5. H = CHOOSE h : h = G(h)
  BY DEF Hashes
<1>6. H = G(H)
  <2> HIDE DEF G, w, H
  <2>q. QED
    BY <1>4, <1>5
<1> DEFINE S == {n \in 0 .. N : H[n] = HighFirst(f[n])}
<1>7. 0 \in S
  <2> HIDE DEF N, f, H
  <2>q. QED
    BY <1>1, <1>2, <1>6
<1>8. ASSUME NEW n \in 0 .. N - 1, n \in S PROVE n + 1 \in S
  <2> HIDE DEF N, f, H
  <2>1. n + 1 \in 1 .. N /\ n + 1 \in 0 .. N /\ (n + 1) - 1 = n /\ n + 1 # 0
    BY <1>1
  <2>2. H[n + 1] = HashBlock(H[n], SubSeq(p, 64 * (n + 1) - 63, 64 * (n + 1)))
    <3>1. H[n + 1] = HashBlock(H[(n + 1) - 1], SubSeq(p, 64 * (n + 1) - 63, 64 * (n + 1)))
      BY <1>6, <2>1
    <3>q. QED
      BY <2>1, <3>1
  <2>3. HighFirst(f[n + 1]) = HashBlock(HighFirst(f[(n + 1) - 1]), SubSeq(p, 64 * (n + 1) - 63, 64 * (n + 1)))
    <3> HIDE DEF G
    <3>q. QED
      BY <1>3, <2>1
  <2>q. QED
    BY <1>8, <2>1, <2>2, <2>3
<1>9. 0 .. N \subseteq S
  <2> HIDE DEF S, N
  <2>q. QED
    BY <1>1, <1>7, <1>8, Induct
<1>q. QED
  BY <1>9

\* result() leaves the hash of what was taken in.
LEMMA ResultIsHash ==
    ASSUME CompressMakesWords, Initial \in Bytes(32)
    PROVE  \A h \in Sha : \A m \in Message :
              Absorbed(h, m) /\ h.byteCount = Len(m) =>
                /\ result(h) \in Sha /\ result(h).state = Sha256Of(m)
                /\ result(h).keyBuffer = h.keyBuffer /\ result(h).buffer = <<>>
<1>0. SUFFICES ASSUME NEW h, NEW m, h \in Sha, m \in Message,
                      Absorbed(h, m), h.byteCount = Len(m)
               PROVE  /\ result(h) \in Sha /\ result(h).state = Sha256Of(m)
                      /\ result(h).keyBuffer = h.keyBuffer /\ result(h).buffer = <<>>
  OBVIOUS
<1> DEFINE p == Padded(m)
           N == Len(p) \div 64
           s == StatesFrom(Initial, p)[N]
           q == pad(h)
<1>1. /\ q \in Sha /\ Absorbed(q, p) /\ q.keyBuffer = h.keyBuffer /\ q.buffer = <<>>
      /\ p \in Seq(Byte)
  BY <1>0, PadCompletes
<1>2. q.state = s
  BY <1>1 DEF Absorbed
<1>3. result(h) = [q EXCEPT !.state = Swapped(@)]
  BY DEF result
<1>4. Sha256Of(m) = Hashes(p)[N]
  BY DEF Sha256Of
<1> HIDE DEF p, q
<1>5. N \in 0 .. N
  <2>1. Len(p) \in Nat
    BY <1>1
  <2>2. N \in Nat
    BY <2>1, Divided64
  <2> HIDE DEF N
  <2>q. QED
    BY <2>2
<1>6. Hashes(p)[N] = HighFirst(s)
  BY <1>1, <1>5, HashesAreStates
<1>7. s \in Bytes(32)
  BY <1>1, <1>2 DEF Sha
<1>8. HighFirst(s) = Swapped(s) /\ HighFirst(s) \in Bytes(32)
  <2>1. Len(s) = 32
    BY <1>7 DEF Bytes
  <2> HIDE DEF s
  <2>q. QED
    BY <1>7, <2>1, HighFirstWords
<1> HIDE DEF s, N
<1>9. /\ result(h) \in Sha /\ result(h).state = Swapped(q.state)
      /\ result(h).keyBuffer = q.keyBuffer /\ result(h).buffer = q.buffer
  <2>1. Swapped(q.state) \in Bytes(32)
    BY <1>2, <1>8
  <2>q. QED
    BY <1>1, <1>3, <2>1 DEF Sha
<1>q. QED
  BY <1>1, <1>2, <1>4, <1>6, <1>8, <1>9

-----------------------------------------------------------------------------
(* HMAC.                                                                   *)

\* Exclusive or makes bytes of bytes.
LEMMA XorOfBytes == \A a, b \in Byte : Xor(a, b) \in Byte
<1> SUFFICES ASSUME NEW a \in Byte, NEW b \in Byte PROVE Xor(a, b) \in Byte
  OBVIOUS
<1>1. \A p \in {1, 2, 4, 8, 16, 32, 64, 128} :
         XorBit(a, b, p) \in Int /\ 0 <= XorBit(a, b, p) /\ XorBit(a, b, p) <= p
  <2>1. \A n \in Int : n % 2 \in {0, 1}
    OBVIOUS
  <2>2. ASSUME NEW p \in {1, 2, 4, 8, 16, 32, 64, 128}
        PROVE  ((a \div p) + (b \div p)) % 2 \in {0, 1}
    <3>1. a \div p \in Int /\ b \div p \in Int
      BY DEF Byte
    <3>2. (a \div p) + (b \div p) \in Int
      BY <3>1
    <3>q. QED
      BY <2>1, <3>2
  <2>3. \A p \in {1, 2, 4, 8, 16, 32, 64, 128} : \A r \in {0, 1} :
           p * r \in Int /\ 0 <= p * r /\ p * r <= p
    OBVIOUS
  <2>q. QED
    BY <2>2, <2>3, ZenonT(60) DEF XorBit
<1> DEFINE x1 == XorBit(a, b, 1)
           x2 == XorBit(a, b, 2)
           x3 == XorBit(a, b, 4)
           x4 == XorBit(a, b, 8)
           x5 == XorBit(a, b, 16)
           x6 == XorBit(a, b, 32)
           x7 == XorBit(a, b, 64)
           x8 == XorBit(a, b, 128)
<1>2. /\ x1 \in Int /\ 0 <= x1 /\ x1 <= 1
      /\ x2 \in Int /\ 0 <= x2 /\ x2 <= 2
      /\ x3 \in Int /\ 0 <= x3 /\ x3 <= 4
      /\ x4 \in Int /\ 0 <= x4 /\ x4 <= 8
      /\ x5 \in Int /\ 0 <= x5 /\ x5 <= 16
      /\ x6 \in Int /\ 0 <= x6 /\ x6 <= 32
      /\ x7 \in Int /\ 0 <= x7 /\ x7 <= 64
      /\ x8 \in Int /\ 0 <= x8 /\ x8 <= 128
  BY <1>1
<1>3. Xor(a, b) = x8 + x7 + x6 + x5 + x4 + x3 + x2 + x1
  BY DEF Xor
<1> HIDE DEF x1, x2, x3, x4, x5, x6, x7, x8
<1>4. x8 + x7 + x6 + x5 + x4 + x3 + x2 + x1 \in 0 .. 255
  BY <1>2
<1>q. QED
  BY <1>3, <1>4, Zenon DEF Byte

\* Functions from 1 on are strings.
LEMMA FunctionIsString ==
    \A n \in Nat : \A z \in [1 .. n -> Byte] : z \in Seq(Byte) /\ Len(z) = n
OBVIOUS

\* The characters of a string of bytes are bytes.
LEMMA BytesOfString == \A s \in Seq(Byte) : \A i \in 1 .. Len(s) : s[i] \in Byte
OBVIOUS

\* A masked block is a block.
LEMMA MaskedBlock ==
    \A s \in Bytes(64) : \A x \in Byte : Masked(s, x) = Xored(s, x) /\ Xored(s, x) \in Bytes(64)
<1>1. ASSUME NEW s \in Bytes(64), NEW x \in Byte PROVE Xored(s, x) \in Bytes(64)
  <2>1. s \in Seq(Byte) /\ Len(s) = 64
    BY DEF Bytes
  <2>4. ASSUME NEW i \in 1 .. 64 PROVE s[i] \in Byte
    <3>1. i \in 1 .. Len(s)
      BY <2>1
    <3>q. QED
      BY <2>1, <3>1, BytesOfString, Zenon
  <2>2. \A i \in 1 .. 64 : Xor(s[i], x) \in Byte
    BY <2>4, XorOfBytes, Zenon
  <2>3. Xored(s, x) \in [1 .. 64 -> Byte]
    BY <2>1, <2>2 DEF Xored
  <2> DEFINE z == Xored(s, x)
  <2> HIDE DEF z
  <2>5. z \in Seq(Byte) /\ Len(z) = 64
    BY <2>3, FunctionIsString DEF z
  <2>q. QED
    BY <2>5 DEF Bytes, z
<1>q. QED
  BY <1>1 DEF Masked, Xored

\* The key of HMAC, hashed if it is long, filled up to a block.
KeyBlock(k) ==
    LET short == IF Len(k) > 64 THEN Sha256Of(k) ELSE k
    IN  short \o Zeros(64 - Len(short))

\* Nothing comes before a string.
LEMMA NothingBefore == \A s \in Seq(Byte) : <<>> \o s = s
OBVIOUS

\* Two blocks are short.
LEMMA ShortMessages == \A s \in Seq(Byte) : Len(s) <= 128 => s \in Message
BY SMT DEF Message, MaxLength

\* From init() on, any object makes the same hash.
LEMMA HashFromInit ==
    ASSUME CompressMakesWords, Initial \in Bytes(32)
    PROVE  \A h \in Sha : \A m \in Message :
              LET r == result(write(init(h), m))
              IN  /\ r \in Sha /\ r.state = Sha256Of(m)
                  /\ r.keyBuffer = h.keyBuffer /\ r.buffer = <<>>
<1>0. SUFFICES ASSUME NEW h, NEW m, h \in Sha, m \in Message
               PROVE  LET r == result(write(init(h), m))
                      IN  /\ r \in Sha /\ r.state = Sha256Of(m)
                          /\ r.keyBuffer = h.keyBuffer /\ r.buffer = <<>>
  OBVIOUS
<1> DEFINE i == init(h)
           w == write(i, m)
<1>1. i \in Sha /\ Absorbed(i, <<>>) /\ i.byteCount = 0 /\ i.keyBuffer = h.keyBuffer
  BY <1>0, InitAbsorbsNothing
<1>2. m \in Seq(Byte) /\ <<>> \in Seq(Byte)
  BY <1>0 DEF Message
<1> HIDE DEF i
<1>3. /\ w \in Sha /\ Absorbed(w, <<>> \o m)
      /\ w.byteCount = i.byteCount + Len(m) /\ w.keyBuffer = i.keyBuffer
  BY <1>1, <1>2, WriteAbsorbs
<1> HIDE DEF w
<1>4. Absorbed(w, m)
  BY <1>2, <1>3, NothingBefore, Zenon
<1>5. w.byteCount = Len(m)
  <2>1. Len(m) \in Nat
    BY <1>2
  <2>q. QED
    BY <1>1, <1>3, <2>1
<1>6. /\ result(w) \in Sha /\ result(w).state = Sha256Of(m)
      /\ result(w).keyBuffer = w.keyBuffer /\ result(w).buffer = <<>>
  BY <1>0, <1>3, <1>4, <1>5, ResultIsHash
<1>7. result(w).keyBuffer = h.keyBuffer
  BY <1>1, <1>3, <1>6, Zenon
<1>q. QED
  BY <1>6, <1>7 DEF w, i

\* initHmac() fills the key buffer and begins the inner message.
LEMMA InitHmacAbsorbs ==
    ASSUME CompressMakesWords, Initial \in Bytes(32)
    PROVE  \A h \in Sha : \A k \in Message :
              LET a == initHmac(h, k)
              IN  /\ KeyBlock(k) \in Bytes(64)
                  /\ a \in Sha /\ Absorbed(a, Xored(KeyBlock(k), 54))
                  /\ a.byteCount = 64 /\ a.keyBuffer = KeyBlock(k)
<1>0. SUFFICES ASSUME NEW h, NEW k, h \in Sha, k \in Message
               PROVE  LET a == initHmac(h, k)
                      IN  /\ KeyBlock(k) \in Bytes(64)
                          /\ a \in Sha /\ Absorbed(a, Xored(KeyBlock(k), 54))
                          /\ a.byteCount = 64 /\ a.keyBuffer = KeyBlock(k)
  OBVIOUS
<1> DEFINE hashed == IF IsLong(k) THEN result(write(init(h), k)) ELSE h
           k0     == IF IsLong(k) THEN hashed.state ELSE k
           short  == IF Len(k) > 64 THEN Sha256Of(k) ELSE k
           K      == k0 \o Zeros(64 - Len(k0))
           keyed  == [hashed EXCEPT !.keyBuffer = K]
           i      == init(keyed)
           x      == Masked(keyed.keyBuffer, 54)
<1>1. initHmac(h, k) = write(i, x)
  BY DEF initHmac, BLOCK_LENGTH
<1>2. k \in Seq(Byte) /\ Len(k) \in Nat
  <2>1. k \in Seq(Byte)
    BY <1>0 DEF Message
  <2>q. QED
    BY <2>1
<1>3. hashed \in Sha /\ k0 = short /\ k0 \in Seq(Byte) /\ Len(k0) \in Nat /\ Len(k0) <= 64
  <2>1. CASE IsLong(k)
    <3>1. /\ result(write(init(h), k)) \in Sha
          /\ result(write(init(h), k)).state = Sha256Of(k)
      BY <1>0, HashFromInit
    <3>2. Len(k) > 64
      BY <2>1 DEF IsLong, BLOCK_LENGTH
    <3>3. hashed \in Sha /\ k0 = Sha256Of(k) /\ short = Sha256Of(k) /\ k0 = hashed.state
      BY <2>1, <3>1, <3>2, Zenon
    <3> HIDE DEF hashed, k0, short
    <3>4. k0 \in Bytes(32)
      BY <3>3 DEF Sha
    <3>5. k0 \in Seq(Byte) /\ Len(k0) = 32
      BY <3>4 DEF Bytes
    <3>6. Len(k0) \in Nat /\ Len(k0) <= 64
      BY <3>5
    <3>q. QED
      BY <3>3, <3>5, <3>6, Zenon
  <2>2. CASE ~ IsLong(k)
    <3>1. ~ (Len(k) > 64)
      BY <2>2 DEF IsLong, BLOCK_LENGTH
    <3>2. hashed \in Sha /\ k0 = k /\ short = k
      BY <1>0, <2>2, <3>1, Zenon
    <3> HIDE DEF hashed, k0, short
    <3>q. QED
      BY <1>2, <3>1, <3>2
  <2>q. QED
    BY <2>1, <2>2
<1>4. K = KeyBlock(k)
  BY <1>3, Zenon DEF KeyBlock
<1> HIDE DEF hashed, k0, short
<1>5. K \in Bytes(64)
  <2> DEFINE n == 64 - Len(k0)
             z == Zeros(n)
  <2>1. n \in Nat
    BY <1>3
  <2>2. z \in Seq(Byte) /\ Len(z) = n
    BY <2>1, ZerosAreBytes
  <2> HIDE DEF z
  <2>3. k0 \o z \in Seq(Byte) /\ Len(k0 \o z) = Len(k0) + Len(z)
    BY <1>3, <2>2, Concatenation
  <2>4. Len(k0) + Len(z) = 64
    BY <1>3, <2>2
  <2>q. QED
    BY <2>3, <2>4 DEF Bytes, z
<1> HIDE DEF K
<1>6. keyed \in Sha /\ keyed.keyBuffer = K
  BY <1>3, <1>5 DEF Sha
<1> HIDE DEF keyed
<1>7. i \in Sha /\ Absorbed(i, <<>>) /\ i.byteCount = 0 /\ i.keyBuffer = K
  BY <1>6, InitAbsorbsNothing
<1>8. 54 \in Byte
  BY DEF Byte
<1>9. x = Xored(K, 54) /\ x \in Bytes(64)
  BY <1>5, <1>6, <1>8, MaskedBlock
<1>10. x \in Seq(Byte) /\ Len(x) = 64 /\ <<>> \in Seq(Byte)
  <2> HIDE DEF x
  <2>q. QED
    BY <1>9 DEF Bytes
<1> HIDE DEF i, x
<1>11. /\ write(i, x) \in Sha /\ Absorbed(write(i, x), <<>> \o x)
       /\ write(i, x).byteCount = i.byteCount + Len(x) /\ write(i, x).keyBuffer = i.keyBuffer
  BY <1>7, <1>10, WriteAbsorbs
<1>12. Absorbed(write(i, x), x)
  BY <1>10, <1>11, NothingBefore, Zenon
<1>13. write(i, x).byteCount = 64
  BY <1>7, <1>10, <1>11
<1>q. QED
  BY <1>1, <1>4, <1>5, <1>7, <1>9, <1>11, <1>12, <1>13, Zenon

\* resultHmac() makes the HMAC of what was written since initHmac().
LEMMA ResultHmacIs ==
    ASSUME CompressMakesWords, Initial \in Bytes(32)
    PROVE  \A h \in Sha : \A k \in Message : \A m \in Seq(Byte) :
              /\ KeyBlock(k) \in Bytes(64) /\ h.keyBuffer = KeyBlock(k)
              /\ Absorbed(h, Xored(KeyBlock(k), 54) \o m)
              /\ Xored(KeyBlock(k), 54) \o m \in Message
              /\ h.byteCount = 64 + Len(m)
              => /\ resultHmac(h) \in Sha /\ resultHmac(h).buffer = <<>>
                 /\ resultHmac(h).state = HmacOf(k, m)
<1>0. SUFFICES ASSUME NEW h, NEW k, NEW m, h \in Sha, k \in Message, m \in Seq(Byte),
                      KeyBlock(k) \in Bytes(64), h.keyBuffer = KeyBlock(k),
                      Absorbed(h, Xored(KeyBlock(k), 54) \o m),
                      Xored(KeyBlock(k), 54) \o m \in Message,
                      h.byteCount = 64 + Len(m)
               PROVE  /\ resultHmac(h) \in Sha /\ resultHmac(h).buffer = <<>>
                      /\ resultHmac(h).state = HmacOf(k, m)
  OBVIOUS
<1> DEFINE K == KeyBlock(k)
           X == Xored(K, 54)
           Y == Xored(K, 92)
           inner == result(h)
           i == init(inner)
           M == Masked(h.keyBuffer, 92)
           outer == write(i, M)
           last == write(outer, inner.state)
<1>1. resultHmac(h) = result(last)
  BY DEF resultHmac
<1>2. HmacOf(k, m) = Sha256Of(Y \o Sha256Of(X \o m))
  BY Zenon DEF HmacOf, KeyBlock
<1>3. 54 \in Byte /\ 92 \in Byte
  BY DEF Byte
<1>4. X \in Bytes(64) /\ M = Y /\ Y \in Bytes(64)
  BY <1>0, <1>3, MaskedBlock
<1> HIDE DEF K, M, X, Y
<1>5. /\ X \in Seq(Byte) /\ Y \in Seq(Byte) /\ Len(X) = 64 /\ Len(Y) = 64
      /\ <<>> \in Seq(Byte) /\ Len(m) \in Nat
  BY <1>0, <1>4 DEF Bytes
<1>6. h.byteCount = Len(X \o m)
  <2>1. Len(X \o m) = Len(X) + Len(m)
    BY <1>0, <1>5, Concatenation
  <2> DEFINE c == X \o m
  <2> HIDE DEF c
  <2>q. QED
    BY <1>0, <1>5, <2>1
<1>7. /\ inner \in Sha /\ inner.state = Sha256Of(X \o m)
      /\ inner.keyBuffer = h.keyBuffer
  BY <1>0, <1>6, ResultIsHash DEF X, K
<1> HIDE DEF inner
<1>8. i \in Sha /\ Absorbed(i, <<>>) /\ i.byteCount = 0
  BY <1>7, InitAbsorbsNothing
<1> HIDE DEF i
<1>9. outer \in Sha /\ Absorbed(outer, <<>> \o Y) /\ outer.byteCount = i.byteCount + Len(Y)
  BY <1>4, <1>5, <1>8, WriteAbsorbs
<1>10. Absorbed(outer, Y)
  BY <1>5, <1>9, NothingBefore, Zenon
<1>11. outer.byteCount = 64
  BY <1>5, <1>8, <1>9
<1> HIDE DEF outer
<1>12. inner.state \in Seq(Byte) /\ Len(inner.state) = 32
  BY <1>7 DEF Sha, Bytes
<1> DEFINE S == inner.state
<1>13. S \in Seq(Byte) /\ Len(S) = 32 /\ S = Sha256Of(X \o m) /\ last = write(outer, S)
  BY <1>7, <1>12, Zenon
<1> HIDE DEF S, last
<1>14. /\ last \in Sha /\ Absorbed(last, Y \o S)
       /\ last.byteCount = outer.byteCount + Len(S)
  BY <1>5, <1>9, <1>10, <1>13, WriteAbsorbs
<1>15. Y \o S \in Seq(Byte) /\ Len(Y \o S) = Len(Y) + Len(S)
  <2>1. Y \in Seq(Byte) /\ S \in Seq(Byte)
    BY <1>5, <1>13, Zenon
  <2>q. QED
    BY <2>1, Concatenation
<1>16. last.byteCount = 96 /\ Len(Y \o S) = 96
  <2>1. Len(Y) + Len(S) = 96
    BY <1>5, <1>13
  <2>2. last.byteCount = 96
    <3>1. last.byteCount = 64 + 32
      BY <1>11, <1>13, <1>14, Zenon
    <3>q. QED
      BY <3>1
  <2>q. QED
    BY <1>15, <2>1, <2>2, Zenon
<1>17. Y \o S \in Message
  <2> DEFINE c == Y \o S
  <2>1. Len(c) <= 128
    <3> HIDE DEF c
    <3>q. QED
      BY <1>16 DEF c
  <2> HIDE DEF c
  <2>q. QED
    BY <1>15, <2>1, ShortMessages DEF c
<1>18. last.byteCount = Len(Y \o S)
  BY <1>16, Zenon
<1>19. /\ result(last) \in Sha /\ result(last).buffer = <<>>
       /\ result(last).state = Sha256Of(Y \o S)
  BY <1>14, <1>17, <1>18, ResultIsHash
<1>q. QED
  BY <1>1, <1>2, <1>13, <1>19, Zenon

-----------------------------------------------------------------------------
(* Base64.                                                                 *)

\* The alphabet gives each digit a character of its own, none of them '=',
\* and the lookup finds the digit again.
LEMMA LookupOfAlphabet ==
    \A d \in Digit : /\ b64_lookup(b64_alphabet(d)) = d
                     /\ b64_alphabet(d) \in Byte \ {Equals}
<1> SUFFICES ASSUME NEW d \in Digit
             PROVE  /\ b64_lookup(b64_alphabet(d)) = d
                    /\ b64_alphabet(d) \in Byte \ {Equals}
  OBVIOUS
<1> USE DEF Digit, Byte, Equals
<1>1. CASE d < 26
  BY <1>1 DEF b64_lookup, b64_alphabet
<1>2. CASE d \in 26 .. 51
  BY <1>2 DEF b64_lookup, b64_alphabet
<1>3. CASE d \in 52 .. 61
  BY <1>3 DEF b64_lookup, b64_alphabet
<1>4. CASE d = 62
  BY <1>4 DEF b64_lookup, b64_alphabet
<1>5. CASE d = 63
  BY <1>5 DEF b64_lookup, b64_alphabet
<1>q. QED
  BY <1>1, <1>2, <1>3, <1>4, <1>5

\* Four digits hold three bytes.
LEMMA BlockDigits ==
    ASSUME NEW a, a[1] \in Byte, a[2] \in Byte, a[3] \in Byte
    PROVE  \A j \in 1 .. 4 : a3_to_a4(a)[j] \in Digit
BY SMTT(30) DEF a3_to_a4, Byte, Digit

\* The three bytes come back, each from the two digits that hold it.
LEMMA FirstByte ==
    ASSUME NEW x \in Byte, NEW y \in Byte
    PROVE  ((x \div 4) * 4 + ((((x % 4) * 16 + y \div 16) \div 16) % 4)) % 256 = x
BY SMTT(60) DEF Byte

LEMMA SecondByte ==
    ASSUME NEW x \in Byte, NEW y \in Byte, NEW z \in Byte
    PROVE  (((x % 4) * 16 + y \div 16) % 16) * 16
             + ((((y % 16) * 4 + z \div 64) \div 4) % 16) = y
BY SMTT(60) DEF Byte

LEMMA ThirdByte ==
    ASSUME NEW y \in Byte, NEW z \in Byte
    PROVE  ((((y % 16) * 4 + z \div 64) % 4) * 64 + (z % 64)) % 256 = z
BY SMTT(60) DEF Byte

-----------------------------------------------------------------------------
\* How many of the characters base64_encode writes are digits.
Digits(n) == 4 * (n \div 3) + (IF n % 3 = 0 THEN 0 ELSE (n % 3) + 1)

\* A character is a digit while the byte it begins with, or the one before,
\* is there; the '=' follow the digits.
LEMMA DigitPositions ==
    \A n \in Nat : \A k \in 1 .. EncodedLen(n) :
        LET b == (k - 1) \div 4
            j == (k - 1) % 4
        IN  /\ b \in Nat /\ j \in 0 .. 3 /\ k = 4 * b + j + 1
            /\ 3 * b + j <= n <=> k <= Digits(n)
BY SMTT(60) DEF EncodedLen, Digits

\* Byte j of a block lies in the digits j + 1 and j + 2.
LEMMA DigitsReach ==
    \A n \in Nat, b \in Nat, j \in 0 .. 2 :
        3 * b + j + 1 <= n => 4 * b + j + 2 <= Digits(n)
BY SMTT(60) DEF Digits

\* The sizes of the two directions, and of the callers, fit together.
LEMMA Sizes ==
    \A n \in Nat : /\ EncodedLen(n) \in Nat
                   /\ Digits(n) \in 0 .. EncodedLen(n)
                   /\ DecodedLen(Digits(n)) = n
                   /\ base64_enc_len(n) = EncodedLen(n)
                   /\ (6 * EncodedLen(n)) \div 8 - (EncodedLen(n) - Digits(n)) = n
<1> SUFFICES ASSUME NEW n \in Nat
             PROVE  /\ EncodedLen(n) \in Nat
                    /\ Digits(n) \in 0 .. EncodedLen(n)
                    /\ DecodedLen(Digits(n)) = n
                    /\ base64_enc_len(n) = EncodedLen(n)
                    /\ (6 * EncodedLen(n)) \div 8 - (EncodedLen(n) - Digits(n)) = n
  OBVIOUS
<1> DEFINE q == n \div 3
<1>1. q \in Nat /\ n % 3 \in 0 .. 2 /\ n = 3 * q + (n % 3)
  BY SMTT(30)
<1>2. CASE n % 3 = 0
  BY <1>1, <1>2, SMTT(30) DEF EncodedLen, Digits, DecodedLen, base64_enc_len
<1>3. CASE n % 3 = 1
  BY <1>1, <1>3, SMTT(30) DEF EncodedLen, Digits, DecodedLen, base64_enc_len
<1>4. CASE n % 3 = 2
  BY <1>1, <1>4, SMTT(30) DEF EncodedLen, Digits, DecodedLen, base64_enc_len
<1>q. QED
  BY <1>1, <1>2, <1>3, <1>4

\* The bytes of a block, filled up with '\0', are bytes; its digits are
\* digits.
LEMMA BlockTypes ==
    ASSUME NEW s \in Seq(Byte), NEW b \in Nat
    PROVE  /\ \A j \in 1 .. 3 : CharOrNul(s, 3 * b + j) \in Byte
           /\ \A j \in 1 .. 4 : EncodedBlock(s, b)[j] \in Digit
<1>1. ASSUME NEW j \in 1 .. 3 PROVE CharOrNul(s, 3 * b + j) \in Byte
  <2> DEFINE i == 3 * b + j
  <2>1. i \in Nat /\ i >= 1
    OBVIOUS
  <2> HIDE DEF i
  <2>2. i <= Len(s) => s[i] \in Byte
    BY <2>1
  <2>q. QED
    BY <2>2 DEF CharOrNul, Byte, i
<1> DEFINE a == [j \in 1 .. 3 |-> CharOrNul(s, 3 * b + j)]
<1>2. a[1] \in Byte /\ a[2] \in Byte /\ a[3] \in Byte
  BY <1>1
<1>3. \A j \in 1 .. 4 : a3_to_a4(a)[j] \in Digit
  <2> HIDE DEF a
  <2>q. QED
    BY <1>2, BlockDigits
<1>q. QED
  BY <1>1, <1>3 DEF EncodedBlock

\* What base64_encode writes: first the digits of the blocks, then '='.
LEMMA EncodedString ==
    ASSUME NEW s \in Seq(Byte)
    PROVE  LET e == EncodedText(s)
           IN  /\ e \in Seq(Byte)
               /\ Len(e) = EncodedLen(Len(s))
               /\ \A k \in 1 .. Len(e) : e[k] = Equals <=> k > Digits(Len(s))
               /\ \A b \in Nat : \A i \in 1 .. 4 :
                    4 * b + i <= Digits(Len(s))
                    => b64_lookup(e[4 * b + i]) = EncodedBlock(s, b)[i]
<1> DEFINE n == Len(s)
           e == EncodedText(s)
           C(k) == LET b == (k - 1) \div 4
                       j == (k - 1) % 4
                   IN  IF 3 * b + j <= n
                       THEN b64_alphabet(EncodedBlock(s, b)[j + 1])
                       ELSE Equals
<1>1. n \in Nat /\ EncodedLen(n) \in Nat /\ Digits(n) \in 0 .. EncodedLen(n)
  BY Sizes
<1>2. e = [k \in 1 .. EncodedLen(n) |-> C(k)]
  BY DEF EncodedText
<1>3. ASSUME NEW k \in 1 .. EncodedLen(n)
      PROVE  /\ C(k) \in Byte
             /\ C(k) = Equals <=> k > Digits(n)
  <2> DEFINE b == (k - 1) \div 4
             j == (k - 1) % 4
  <2>1. /\ b \in Nat /\ j \in 0 .. 3 /\ k = 4 * b + j + 1
        /\ 3 * b + j <= n <=> k <= Digits(n)
    BY <1>1, DigitPositions
  <2>2. EncodedBlock(s, b)[j + 1] \in Digit
    <3>1. j + 1 \in 1 .. 4
      BY <2>1
    <3> HIDE DEF b, j
    <3>q. QED
      BY <2>1, <3>1, BlockTypes
  <2>3. /\ b64_alphabet(EncodedBlock(s, b)[j + 1]) \in Byte
        /\ b64_alphabet(EncodedBlock(s, b)[j + 1]) # Equals
    <3> HIDE DEF b, j
    <3>q. QED
      BY <2>2, LookupOfAlphabet
  <2>4. Equals \in Byte
    BY DEF Equals, Byte
  <2>5. C(k) = IF 3 * b + j <= n THEN b64_alphabet(EncodedBlock(s, b)[j + 1])
                                 ELSE Equals
    OBVIOUS
  <2>6. k \in Nat /\ Digits(n) \in Nat
    BY <1>1
  <2> HIDE DEF b, j, C, n
  <2>q. QED
    BY <2>1, <2>3, <2>4, <2>5, <2>6
<1>4. e \in [1 .. EncodedLen(n) -> Byte]
  <2> HIDE DEF C, n, e
  <2>q. QED
    BY <1>2, <1>3
<1>5. e \in Seq(Byte) /\ Len(e) = EncodedLen(n)
  <2> HIDE DEF n, e
  <2>q. QED
    BY <1>1, <1>4
<1>6. \A k \in 1 .. Len(e) : e[k] = Equals <=> k > Digits(n)
  <2> HIDE DEF C, n, e
  <2>q. QED
    BY <1>2, <1>3, <1>5
<1>7. ASSUME NEW b \in Nat, NEW i \in 1 .. 4, 4 * b + i <= Digits(n)
      PROVE  b64_lookup(e[4 * b + i]) = EncodedBlock(s, b)[i]
  <2> DEFINE k == 4 * b + i
  <2>1. k \in 1 .. EncodedLen(n) /\ (k - 1) \div 4 = b /\ (k - 1) % 4 = i - 1
    BY <1>1, <1>7, SMTT(30)
  <2>2. 3 * b + (i - 1) <= n
    BY <1>1, <1>7, <2>1, DigitPositions
  <2>3. C(k) = b64_alphabet(EncodedBlock(s, b)[i])
    <3>1. (i - 1) + 1 = i
      OBVIOUS
    <3> HIDE DEF k, n
    <3>q. QED
      BY <2>1, <2>2, <3>1
  <2>4. e[k] = C(k)
    <3> HIDE DEF C, k, n, e
    <3>q. QED
      BY <1>2, <2>1
  <2>5. EncodedBlock(s, b)[i] \in Digit
    BY BlockTypes
  <2> HIDE DEF C, n, e
  <2>q. QED
    BY <2>3, <2>4, <2>5, LookupOfAlphabet
<1>q. QED
  BY <1>5, <1>6, <1>7
\* The digits that base64_decode and base64_dec_len find in such a string.
LEMMA FoundDigits ==
    ASSUME NEW s \in Seq(Byte)
    PROVE  /\ DigitsOf(EncodedText(s)) = Digits(Len(s))
           /\ numEq(EncodedText(s)) = EncodedLen(Len(s)) - Digits(Len(s))
<1> DEFINE e == EncodedText(s)
           d == Digits(Len(s))
<1>1. /\ e \in Seq(Byte) /\ Len(e) \in Nat /\ d \in 0 .. Len(e)
      /\ \A k \in 1 .. Len(e) : e[k] = Equals <=> k > d
      /\ Len(e) = EncodedLen(Len(s))
  <2>1. Len(s) \in Nat
    OBVIOUS
  <2>2. EncodedLen(Len(s)) \in Nat /\ d \in 0 .. EncodedLen(Len(s))
    BY <2>1, Sizes
  <2>q. QED
    BY <2>2, EncodedString
<1> HIDE DEF e, d
<1>2. \A m \in 0 .. Len(e) :
         (/\ \A i \in 1 .. m : e[i] # Equals
          /\ m < Len(e) => e[m + 1] = Equals) <=> m = d
  <2> SUFFICES ASSUME NEW m \in 0 .. Len(e)
               PROVE  (/\ \A i \in 1 .. m : e[i] # Equals
                       /\ m < Len(e) => e[m + 1] = Equals) <=> m = d
    OBVIOUS
  <2>1. CASE m < d
    <3>1. m + 1 \in 1 .. Len(e) /\ ~ (m + 1 > d)
      BY <1>1, <2>1
    <3>q. QED
      BY <1>1, <2>1, <3>1
  <2>2. CASE m > d
    <3>1. d + 1 \in 1 .. m /\ d + 1 \in 1 .. Len(e) /\ d + 1 > d
      BY <1>1, <2>2
    <3>q. QED
      BY <1>1, <2>2, <3>1
  <2>3. CASE m = d
    BY <1>1, <2>3
  <2>q. QED
    BY <1>1, <2>1, <2>2, <2>3
<1>3. \A m \in 0 .. Len(e) :
         (/\ \A i \in Len(e) - m + 1 .. Len(e) : e[i] = Equals
          /\ m < Len(e) => e[Len(e) - m] # Equals) <=> m = Len(e) - d
  <2> SUFFICES ASSUME NEW m \in 0 .. Len(e)
               PROVE  (/\ \A i \in Len(e) - m + 1 .. Len(e) : e[i] = Equals
                       /\ m < Len(e) => e[Len(e) - m] # Equals) <=> m = Len(e) - d
    OBVIOUS
  <2>1. CASE m < Len(e) - d
    <3>1. Len(e) - m \in 1 .. Len(e) /\ Len(e) - m > d
      BY <1>1, <2>1
    <3>q. QED
      BY <1>1, <2>1, <3>1
  <2>2. CASE m > Len(e) - d
    <3>1. d \in Len(e) - m + 1 .. Len(e) /\ d \in 1 .. Len(e) /\ ~ (d > d)
      BY <1>1, <2>2
    <3>q. QED
      BY <1>1, <2>2, <3>1
  <2>3. CASE m = Len(e) - d
    <3>1. ASSUME NEW i \in Len(e) - m + 1 .. Len(e) PROVE e[i] = Equals
      <4>1. i \in 1 .. Len(e) /\ i > d
        BY <1>1, <2>3
      <4>q. QED
        BY <1>1, <4>1
    <3>2. ASSUME m < Len(e) PROVE e[Len(e) - m] # Equals
      <4>1. Len(e) - m = d /\ d \in 1 .. Len(e) /\ ~ (d > d)
        BY <1>1, <2>3, <3>2
      <4>q. QED
        BY <1>1, <4>1
    <3>q. QED
      BY <2>3, <3>1, <3>2
  <2>q. QED
    BY <1>1, <2>1, <2>2, <2>3
<1>4. DigitsOf(e) = d
  BY <1>1, <1>2 DEF DigitsOf
<1>5. Len(e) - d \in 0 .. Len(e)
  BY <1>1
<1>6. numEq(e) = Len(e) - d
  BY <1>3, <1>5 DEF numEq
<1>q. QED
  BY <1>1, <1>4, <1>6 DEF e, d
-----------------------------------------------------------------------------
\* base64_enc_len and base64_dec_len count the characters of an encoded string
\* and the bytes that were encoded.
LEMMA EncodedSizes ==
    \A s \in Seq(Byte) :
        /\ Len(EncodedText(s)) = base64_enc_len(Len(s))
        /\ base64_dec_len(EncodedText(s)) = Len(s)
<1> SUFFICES ASSUME NEW s \in Seq(Byte)
             PROVE  /\ Len(EncodedText(s)) = base64_enc_len(Len(s))
                    /\ base64_dec_len(EncodedText(s)) = Len(s)
  OBVIOUS
<1>1. Len(s) \in Nat
  OBVIOUS
<1>2. Len(EncodedText(s)) = EncodedLen(Len(s))
  BY EncodedString
<1>3. base64_enc_len(Len(s)) = EncodedLen(Len(s))
  BY <1>1, Sizes
<1>4. base64_dec_len(EncodedText(s))
        = (6 * EncodedLen(Len(s))) \div 8 - (EncodedLen(Len(s)) - Digits(Len(s)))
  BY <1>2, FoundDigits DEF base64_dec_len
<1>q. QED
  BY <1>1, <1>2, <1>3, <1>4, Sizes

\* Decoding what was encoded gives it back, for every string of bytes: the
\* key that the signature is made with is the one the hub has.
THEOREM DecodeEncode ==
    \A s \in Seq(Byte) : DecodedBytes(EncodedText(s)) = s
<1> SUFFICES ASSUME NEW s \in Seq(Byte)
             PROVE  DecodedBytes(EncodedText(s)) = s
  OBVIOUS
<1> DEFINE n == Len(s)
           e == EncodedText(s)
           d == Digits(n)
           D(k) == DecodedBlock(e, d, (k - 1) \div 3)[((k - 1) % 3) + 1]
<1>1. n \in Nat /\ d \in Nat /\ DecodedLen(d) = n
  <2>1. n \in Nat
    OBVIOUS
  <2> HIDE DEF n
  <2>2. d \in 0 .. EncodedLen(n) /\ EncodedLen(n) \in Nat /\ DecodedLen(d) = n
    BY <2>1, Sizes
  <2>q. QED
    BY <2>1, <2>2
<1>2. DecodedBytes(e) = [k \in 1 .. n |-> D(k)]
  <2>1. DigitsOf(e) = d
    BY FoundDigits
  <2>2. DecodedBytes(e) = [k \in 1 .. DecodedLen(d) |-> D(k)]
    <3> HIDE DEF d, e
    <3>q. QED
      BY <2>1 DEF DecodedBytes
  <2> HIDE DEF D, n, e, d
  <2>q. QED
    BY <1>1, <2>2
<1>3. ASSUME NEW k \in 1 .. Len(s) PROVE D(k) = s[k]
  <2> DEFINE b == (k - 1) \div 3
             j == (k - 1) % 3
             x == CharOrNul(s, 3 * b + 1)
             y == CharOrNul(s, 3 * b + 2)
             z == CharOrNul(s, 3 * b + 3)
             a == [i \in 1 .. 4 |-> b64_lookup(IF 4 * b + i <= d THEN e[4 * b + i] ELSE 0)]
  <2>1. b \in Nat /\ j \in 0 .. 2 /\ k = 3 * b + j + 1
    BY <1>1, SMTT(30)
  <2>2. 4 * b + j + 2 <= d
    <3> HIDE DEF n, b, j
    <3>1. k \in 1 .. n
      BY DEF n
    <3>2. 3 * b + j + 1 <= n
      BY <1>1, <2>1, <3>1
    <3>q. QED
      BY <1>1, <2>1, <3>2, DigitsReach
  <2>3. x \in Byte /\ y \in Byte /\ z \in Byte
    <3>1. \A i \in 1 .. 3 : CharOrNul(s, 3 * b + i) \in Byte
      <4> HIDE DEF b
      <4>q. QED
        BY <2>1, BlockTypes
    <3>2. 1 \in 1 .. 3 /\ 2 \in 1 .. 3 /\ 3 \in 1 .. 3
      OBVIOUS
    <3> HIDE DEF b
    <3>q. QED
      BY <3>1, <3>2, Zenon
  <2>4. \A i \in 1 .. 4 : 4 * b + i <= d => a[i] = EncodedBlock(s, b)[i]
    <3>1. \A i \in 1 .. 4 : 4 * b + i <= d
                            => b64_lookup(e[4 * b + i]) = EncodedBlock(s, b)[i]
      <4> HIDE DEF b
      <4>q. QED
        BY <2>1, EncodedString
    <3> HIDE DEF b, d, e
    <3>q. QED
      BY <3>1
  <2>5. EncodedBlock(s, b) = <<x \div 4, (x % 4) * 16 + y \div 16,
                               (y % 16) * 4 + z \div 64, z % 64>>
    <3> HIDE DEF b
    <3>q. QED
      BY DEF EncodedBlock, a3_to_a4
  <2>6. D(k) = a4_to_a3(a)[j + 1]
    <3> HIDE DEF b, j, d, e
    <3>q. QED
      BY DEF DecodedBlock, b, j
  <2>7. s[k] = CharOrNul(s, 3 * b + j + 1)
    BY <1>1, <2>1 DEF CharOrNul
  <2> HIDE DEF a, D, e, b, j
  <2>8. CASE j = 0
    <3>1. a[1] = x \div 4 /\ a[2] = (x % 4) * 16 + y \div 16
      BY <1>1, <2>1, <2>2, <2>4, <2>5, <2>8
    <3>2. D(k) = (a[1] * 4 + ((a[2] \div 16) % 4)) % 256
      BY <2>6, <2>8 DEF a4_to_a3
    <3>3. s[k] = x
      BY <2>1, <2>7, <2>8
    <3> HIDE DEF x, y
    <3>q. QED
      BY <2>3, <3>1, <3>2, <3>3, FirstByte
  <2>9. CASE j = 1
    <3>1. a[2] = (x % 4) * 16 + y \div 16 /\ a[3] = (y % 16) * 4 + z \div 64
      BY <1>1, <2>1, <2>2, <2>4, <2>5, <2>9
    <3>2. D(k) = (a[2] % 16) * 16 + ((a[3] \div 4) % 16)
      BY <2>6, <2>9 DEF a4_to_a3
    <3>3. s[k] = y
      BY <2>1, <2>7, <2>9
    <3> HIDE DEF x, y, z
    <3>q. QED
      BY <2>3, <3>1, <3>2, <3>3, SecondByte
  <2>10. CASE j = 2
    <3>1. a[3] = (y % 16) * 4 + z \div 64 /\ a[4] = z % 64
      BY <1>1, <2>1, <2>2, <2>4, <2>5, <2>10
    <3>2. D(k) = ((a[3] % 4) * 64 + a[4]) % 256
      BY <2>6, <2>10 DEF a4_to_a3
    <3>3. s[k] = z
      BY <2>1, <2>7, <2>10
    <3> HIDE DEF y, z
    <3>q. QED
      BY <2>3, <3>1, <3>2, <3>3, ThirdByte
  <2>q. QED
    BY <2>1, <2>8, <2>9, <2>10
<1>4. s = [k \in 1 .. n |-> s[k]]
  OBVIOUS
<1> HIDE DEF D, e, d
<1>q. QED
  BY <1>2, <1>3, <1>4 DEF e

-----------------------------------------------------------------------------
(* The encoder is that of the standard.                                    *)

\* The alphabet of the code is that of the standard.
LEMMA AlphabetOfDigits == \A d \in Digit : Alphabet[d + 1] = b64_alphabet(d)
<1> DEFINE u == [i \in 1 .. 26 |-> 64 + i]
           l == [i \in 1 .. 26 |-> 96 + i]
           n == [i \in 1 .. 10 |-> 47 + i]
           r == <<43, 47>>
<1>1. /\ u \in Seq(Byte) /\ Len(u) = 26 /\ \A i \in 1 .. 26 : u[i] = 64 + i
  <2>1. u \in [1 .. 26 -> Byte]
    BY DEF Byte
  <2>q. QED
    BY <2>1, FunctionIsString
<1>2. /\ l \in Seq(Byte) /\ Len(l) = 26 /\ \A i \in 1 .. 26 : l[i] = 96 + i
  <2>1. l \in [1 .. 26 -> Byte]
    BY DEF Byte
  <2>q. QED
    BY <2>1, FunctionIsString
<1>3. /\ n \in Seq(Byte) /\ Len(n) = 10 /\ \A i \in 1 .. 10 : n[i] = 47 + i
  <2>1. n \in [1 .. 10 -> Byte]
    BY DEF Byte
  <2>q. QED
    BY <2>1, FunctionIsString
<1>4. r \in Seq(Byte) /\ Len(r) = 2 /\ r[1] = 43 /\ r[2] = 47
  BY DEF Byte
<1> HIDE DEF u, l, n, r
<1> DEFINE v == u \o l
           w == v \o n
           x == w \o r
<1>5. /\ v \in Seq(Byte) /\ Len(v) = 52
      /\ \A i \in 1 .. 26 : v[i] = u[i]
      /\ \A i \in 1 .. 26 : v[26 + i] = l[i]
  <2>1. /\ v \in Seq(Byte) /\ Len(v) = Len(u) + Len(l)
        /\ \A i \in 1 .. Len(u) : v[i] = u[i]
        /\ \A i \in 1 .. Len(l) : v[Len(u) + i] = l[i]
    BY <1>1, <1>2, Concatenation
  <2> HIDE DEF v
  <2>q. QED
    BY <1>1, <1>2, <2>1
<1> HIDE DEF v
<1>6. /\ w \in Seq(Byte) /\ Len(w) = 62
      /\ \A i \in 1 .. 52 : w[i] = v[i]
      /\ \A i \in 1 .. 10 : w[52 + i] = n[i]
  <2>1. /\ w \in Seq(Byte) /\ Len(w) = Len(v) + Len(n)
        /\ \A i \in 1 .. Len(v) : w[i] = v[i]
        /\ \A i \in 1 .. Len(n) : w[Len(v) + i] = n[i]
    <3>1. v \in Seq(Byte) /\ n \in Seq(Byte)
      BY <1>3, <1>5
    <3>q. QED
      BY <3>1, Concatenation
  <2> HIDE DEF w
  <2>q. QED
    BY <1>3, <1>5, <2>1
<1> HIDE DEF w
<1>7. /\ \A i \in 1 .. 62 : x[i] = w[i]
      /\ \A i \in 1 .. 2 : x[62 + i] = r[i]
  <2>1. /\ \A i \in 1 .. Len(w) : x[i] = w[i]
        /\ \A i \in 1 .. Len(r) : x[Len(w) + i] = r[i]
    BY <1>4, <1>6, Concatenation, ZenonT(60)
  <2> HIDE DEF x
  <2>q. QED
    BY <1>4, <1>6, <2>1
<1>8. Alphabet = x
  BY DEF Alphabet, x, w, v, u, l, n, r
<1> HIDE DEF x
<1> SUFFICES ASSUME NEW d \in Digit PROVE x[d + 1] = b64_alphabet(d)
  BY <1>8
<1> USE DEF Digit
<1>a. CASE d < 26
  <2>1. d + 1 \in 1 .. 26 /\ d + 1 \in 1 .. 52 /\ d + 1 \in 1 .. 62
    BY <1>a
  <2>2. x[d + 1] = 64 + (d + 1)
    <3>1. x[d + 1] = w[d + 1] /\ w[d + 1] = v[d + 1]
      BY <1>6, <1>7, <2>1, Zenon
    <3>2. v[d + 1] = u[d + 1] /\ u[d + 1] = 64 + (d + 1)
      BY <1>1, <1>5, <2>1, Zenon
    <3>q. QED
      BY <3>1, <3>2, Zenon
  <2>q. QED
    BY <1>a, <2>2 DEF b64_alphabet
<1>b. CASE d \in 26 .. 51
  <2> DEFINE j == d - 25
  <2>1. j \in 1 .. 26 /\ d + 1 = 26 + j /\ d + 1 \in 1 .. 52 /\ d + 1 \in 1 .. 62
    BY <1>b
  <2>2. x[d + 1] = 96 + j
    <3>1. x[d + 1] = w[d + 1] /\ w[d + 1] = v[d + 1]
      BY <1>6, <1>7, <2>1, Zenon
    <3>2. v[26 + j] = l[j] /\ l[j] = 96 + j
      BY <1>2, <1>5, <2>1, Zenon
    <3>q. QED
      BY <2>1, <3>1, <3>2, Zenon
  <2>q. QED
    BY <1>b, <2>2 DEF b64_alphabet
<1>c. CASE d \in 52 .. 61
  <2> DEFINE j == d - 51
  <2>1. j \in 1 .. 10 /\ d + 1 = 52 + j /\ d + 1 \in 1 .. 62
    BY <1>c
  <2>2. x[d + 1] = 47 + j
    <3>1. x[d + 1] = w[d + 1]
      BY <1>7, <2>1, Zenon
    <3>2. w[52 + j] = n[j] /\ n[j] = 47 + j
      BY <1>3, <1>6, <2>1, Zenon
    <3>q. QED
      BY <2>1, <3>1, <3>2, Zenon
  <2>q. QED
    BY <1>c, <2>2 DEF b64_alphabet
<1>d. CASE d = 62
  <2>1. x[62 + 1] = r[1]
    BY <1>7
  <2>2. x[d + 1] = 43
    BY <1>4, <1>d, <2>1
  <2>q. QED
    BY <1>d, <2>2 DEF b64_alphabet
<1>e. CASE d = 63
  <2>1. x[62 + 2] = r[2]
    BY <1>7
  <2>2. x[d + 1] = 47
    BY <1>4, <1>e, <2>1
  <2>q. QED
    BY <1>e, <2>2 DEF b64_alphabet
<1>q. QED
  BY <1>a, <1>b, <1>c, <1>d, <1>e

\* Bit r of byte q, counted from 0.
BitOfByte(c, r) == (c \div BitValue[r + 1]) % 2

\* Bit r of byte q, which is 0 beyond the end.
LEMMA BitOfString ==
    \A s \in Seq(Byte) : \A q \in Nat, r \in 0 .. 7 :
        Bit(s, 8 * q + r) = BitOfByte(CharOrNul(s, q + 1), r)
<1>0. SUFFICES ASSUME NEW s, s \in Seq(Byte), NEW q \in Nat, NEW r \in 0 .. 7
               PROVE  Bit(s, 8 * q + r) = BitOfByte(CharOrNul(s, q + 1), r)
  OBVIOUS
<1> DEFINE i == 8 * q + r
           n == Len(s)
<1>1. n \in Nat
  BY <1>0
<1> HIDE DEF n
<1>2. i \div 8 = q /\ i % 8 = r /\ (i < 8 * n <=> q + 1 <= n)
  BY <1>1
<1>3. Bit(s, i) = IF i < 8 * n THEN (s[(i \div 8) + 1] \div BitValue[(i % 8) + 1]) % 2 ELSE 0
  BY DEF Bit, n
<1>4. CharOrNul(s, q + 1) = IF q + 1 <= n THEN s[q + 1] ELSE 0
  BY DEF CharOrNul, n
<1>5. (0 \div BitValue[r + 1]) % 2 = 0
  <2>1. BitValue[r + 1] \in {1, 2, 4, 8, 16, 32, 64, 128}
    BY DEF BitValue
  <2>2. \A v \in {1, 2, 4, 8, 16, 32, 64, 128} : (0 \div v) % 2 = 0
    OBVIOUS
  <2>q. QED
    BY <2>1, <2>2, Zenon
<1> HIDE DEF i
<1>q. QED
  BY <1>2, <1>3, <1>4, <1>5, Zenon DEF BitOfByte, i

\* The eight bits of a byte.
LEMMA BitsOfByte ==
    \A c : /\ BitOfByte(c, 0) = (c \div 128) % 2
           /\ BitOfByte(c, 1) = (c \div 64) % 2
           /\ BitOfByte(c, 2) = (c \div 32) % 2
           /\ BitOfByte(c, 3) = (c \div 16) % 2
           /\ BitOfByte(c, 4) = (c \div 8) % 2
           /\ BitOfByte(c, 5) = (c \div 4) % 2
           /\ BitOfByte(c, 6) = (c \div 2) % 2
           /\ BitOfByte(c, 7) = (c \div 1) % 2
<1>1. /\ BitValue[0 + 1] = 128 /\ BitValue[1 + 1] = 64 /\ BitValue[2 + 1] = 32
      /\ BitValue[3 + 1] = 16 /\ BitValue[4 + 1] = 8 /\ BitValue[5 + 1] = 4
      /\ BitValue[6 + 1] = 2 /\ BitValue[7 + 1] = 1
  BY DEF BitValue
<1>q. QED
  BY <1>1, Zenon DEF BitOfByte

\* Six bits of one byte or of two.
LEMMA SixOfBytes ==
    \A x, y, z \in Byte :
        /\ 32 * ((x \div 128) % 2) + 16 * ((x \div 64) % 2) + 8 * ((x \div 32) % 2)
           + 4 * ((x \div 16) % 2) + 2 * ((x \div 8) % 2) + ((x \div 4) % 2) = x \div 4
        /\ 32 * ((x \div 2) % 2) + 16 * ((x \div 1) % 2) + 8 * ((y \div 128) % 2)
           + 4 * ((y \div 64) % 2) + 2 * ((y \div 32) % 2) + ((y \div 16) % 2)
             = (x % 4) * 16 + y \div 16
        /\ 32 * ((y \div 8) % 2) + 16 * ((y \div 4) % 2) + 8 * ((y \div 2) % 2)
           + 4 * ((y \div 1) % 2) + 2 * ((z \div 128) % 2) + ((z \div 64) % 2)
             = (y % 16) * 4 + z \div 64
        /\ 32 * ((z \div 32) % 2) + 16 * ((z \div 16) % 2) + 8 * ((z \div 8) % 2)
           + 4 * ((z \div 4) % 2) + 2 * ((z \div 2) % 2) + ((z \div 1) % 2) = z % 64
<1> SUFFICES ASSUME NEW x \in Byte, NEW y \in Byte, NEW z \in Byte
    PROVE
        /\ 32 * ((x \div 128) % 2) + 16 * ((x \div 64) % 2) + 8 * ((x \div 32) % 2)
           + 4 * ((x \div 16) % 2) + 2 * ((x \div 8) % 2) + ((x \div 4) % 2) = x \div 4
        /\ 32 * ((x \div 2) % 2) + 16 * ((x \div 1) % 2) + 8 * ((y \div 128) % 2)
           + 4 * ((y \div 64) % 2) + 2 * ((y \div 32) % 2) + ((y \div 16) % 2)
             = (x % 4) * 16 + y \div 16
        /\ 32 * ((y \div 8) % 2) + 16 * ((y \div 4) % 2) + 8 * ((y \div 2) % 2)
           + 4 * ((y \div 1) % 2) + 2 * ((z \div 128) % 2) + ((z \div 64) % 2)
             = (y % 16) * 4 + z \div 64
        /\ 32 * ((z \div 32) % 2) + 16 * ((z \div 16) % 2) + 8 * ((z \div 8) % 2)
           + 4 * ((z \div 4) % 2) + 2 * ((z \div 2) % 2) + ((z \div 1) % 2) = z % 64
  OBVIOUS
<1>1. 32 * ((x \div 128) % 2) + 16 * ((x \div 64) % 2) + 8 * ((x \div 32) % 2)
      + 4 * ((x \div 16) % 2) + 2 * ((x \div 8) % 2) + ((x \div 4) % 2) = x \div 4
  BY SMTT(60) DEF Byte
<1>2. 32 * ((x \div 2) % 2) + 16 * ((x \div 1) % 2) + 8 * ((y \div 128) % 2)
      + 4 * ((y \div 64) % 2) + 2 * ((y \div 32) % 2) + ((y \div 16) % 2)
        = (x % 4) * 16 + y \div 16
  BY SMTT(60) DEF Byte
<1>3. 32 * ((y \div 8) % 2) + 16 * ((y \div 4) % 2) + 8 * ((y \div 2) % 2)
      + 4 * ((y \div 1) % 2) + 2 * ((z \div 128) % 2) + ((z \div 64) % 2)
        = (y % 16) * 4 + z \div 64
  BY SMTT(60) DEF Byte
<1>4. 32 * ((z \div 32) % 2) + 16 * ((z \div 16) % 2) + 8 * ((z \div 8) % 2)
      + 4 * ((z \div 4) % 2) + 2 * ((z \div 2) % 2) + ((z \div 1) % 2) = z % 64
  BY SMTT(60) DEF Byte
<1>q. QED
  BY <1>1, <1>2, <1>3, <1>4, Zenon

\* The digits of the code are six bits of the standard each.
LEMMA SixBitsOfString ==
    \A s \in Seq(Byte) : \A b \in Nat, j \in 0 .. 3 :
        SixBits(s, 4 * b + j) = EncodedBlock(s, b)[j + 1]
<1>0. SUFFICES ASSUME NEW s, s \in Seq(Byte), NEW b \in Nat, NEW j \in 0 .. 3
               PROVE  SixBits(s, 4 * b + j) = EncodedBlock(s, b)[j + 1]
  OBVIOUS
<1> DEFINE x == CharOrNul(s, 3 * b + 1)
           y == CharOrNul(s, 3 * b + 2)
           z == CharOrNul(s, 3 * b + 3)
           g == 4 * b + j
<1>1. x \in Byte /\ y \in Byte /\ z \in Byte
  <2>1. \A i \in 1 .. 3 : CharOrNul(s, 3 * b + i) \in Byte
    BY <1>0, BlockTypes
  <2>q. QED
    BY <2>1
<1>2. EncodedBlock(s, b) = <<x \div 4, (x % 4) * 16 + y \div 16, (y % 16) * 4 + z \div 64, z % 64>>
  <2> DEFINE a == [i \in 1 .. 3 |-> CharOrNul(s, 3 * b + i)]
  <2>1. a[1] = x /\ a[2] = y /\ a[3] = z
    OBVIOUS
  <2>2. EncodedBlock(s, b) = a3_to_a4(a)
    BY DEF EncodedBlock
  <2> HIDE DEF a, x, y, z
  <2>q. QED
    BY <2>1, <2>2, Zenon DEF a3_to_a4
<1>3. /\ \A r \in 0 .. 7 : Bit(s, 8 * (3 * b) + r) = BitOfByte(x, r)
      /\ \A r \in 0 .. 7 : Bit(s, 8 * (3 * b + 1) + r) = BitOfByte(y, r)
      /\ \A r \in 0 .. 7 : Bit(s, 8 * (3 * b + 2) + r) = BitOfByte(z, r)
  <2>1. /\ 3 * b \in Nat /\ 3 * b + 1 \in Nat /\ 3 * b + 2 \in Nat
        /\ (3 * b + 1) + 1 = 3 * b + 2 /\ (3 * b + 2) + 1 = 3 * b + 3
    OBVIOUS
  <2>2. \A r \in 0 .. 7 : Bit(s, 8 * (3 * b) + r) = BitOfByte(CharOrNul(s, (3 * b) + 1), r)
    BY <1>0, <2>1, BitOfString, Zenon
  <2>3. \A r \in 0 .. 7 : Bit(s, 8 * (3 * b + 1) + r) = BitOfByte(CharOrNul(s, (3 * b + 1) + 1), r)
    BY <1>0, <2>1, BitOfString, Zenon
  <2>4. \A r \in 0 .. 7 : Bit(s, 8 * (3 * b + 2) + r) = BitOfByte(CharOrNul(s, (3 * b + 2) + 1), r)
    BY <1>0, <2>1, BitOfString, Zenon
  <2>q. QED
    BY <2>1, <2>2, <2>3, <2>4, Zenon
<1>4. SixBits(s, g) = 32 * Bit(s, 6 * g) + 16 * Bit(s, 6 * g + 1) + 8 * Bit(s, 6 * g + 2)
                      + 4 * Bit(s, 6 * g + 3) + 2 * Bit(s, 6 * g + 4) + Bit(s, 6 * g + 5)
  BY DEF SixBits
<1>5. \A r \in {0, 1, 2, 3, 4, 5, 6, 7} : r \in 0 .. 7
  OBVIOUS
<1>a. CASE j = 0
  <2>1. /\ 6 * g = 8 * (3 * b) + 0 /\ 6 * g + 1 = 8 * (3 * b) + 1 /\ 6 * g + 2 = 8 * (3 * b) + 2
        /\ 6 * g + 3 = 8 * (3 * b) + 3 /\ 6 * g + 4 = 8 * (3 * b) + 4 /\ 6 * g + 5 = 8 * (3 * b) + 5
    BY <1>a
  <2>2. /\ Bit(s, 8 * (3 * b) + 0) = BitOfByte(x, 0) /\ Bit(s, 8 * (3 * b) + 1) = BitOfByte(x, 1)
        /\ Bit(s, 8 * (3 * b) + 2) = BitOfByte(x, 2) /\ Bit(s, 8 * (3 * b) + 3) = BitOfByte(x, 3)
        /\ Bit(s, 8 * (3 * b) + 4) = BitOfByte(x, 4) /\ Bit(s, 8 * (3 * b) + 5) = BitOfByte(x, 5)
    BY <1>3, <1>5
  <2> HIDE DEF x, y, z, g
  <2>3. SixBits(s, g) = 32 * ((x \div 128) % 2) + 16 * ((x \div 64) % 2) + 8 * ((x \div 32) % 2)
                        + 4 * ((x \div 16) % 2) + 2 * ((x \div 8) % 2) + ((x \div 4) % 2)
    <3>1. SixBits(s, g) = 32 * BitOfByte(x, 0) + 16 * BitOfByte(x, 1) + 8 * BitOfByte(x, 2)
                          + 4 * BitOfByte(x, 3) + 2 * BitOfByte(x, 4) + BitOfByte(x, 5)
      BY <1>4, <2>1, <2>2
    <3>q. QED
      BY <3>1, BitsOfByte
  <2>4. SixBits(s, g) = x \div 4
    BY <1>1, <2>3, SixOfBytes, Zenon
  <2>5. EncodedBlock(s, b)[0 + 1] = x \div 4
    BY <1>2
  <2>q. QED
    BY <1>a, <2>4, <2>5, Zenon DEF g
<1>b. CASE j = 1
  <2>1. /\ 6 * g = 8 * (3 * b) + 6 /\ 6 * g + 1 = 8 * (3 * b) + 7 /\ 6 * g + 2 = 8 * (3 * b + 1) + 0
        /\ 6 * g + 3 = 8 * (3 * b + 1) + 1 /\ 6 * g + 4 = 8 * (3 * b + 1) + 2
        /\ 6 * g + 5 = 8 * (3 * b + 1) + 3
    BY <1>b
  <2>2. /\ Bit(s, 8 * (3 * b) + 6) = BitOfByte(x, 6) /\ Bit(s, 8 * (3 * b) + 7) = BitOfByte(x, 7)
        /\ Bit(s, 8 * (3 * b + 1) + 0) = BitOfByte(y, 0) /\ Bit(s, 8 * (3 * b + 1) + 1) = BitOfByte(y, 1)
        /\ Bit(s, 8 * (3 * b + 1) + 2) = BitOfByte(y, 2) /\ Bit(s, 8 * (3 * b + 1) + 3) = BitOfByte(y, 3)
    BY <1>3, <1>5
  <2> HIDE DEF x, y, z, g
  <2>3. SixBits(s, g) = 32 * ((x \div 2) % 2) + 16 * ((x \div 1) % 2) + 8 * ((y \div 128) % 2)
                        + 4 * ((y \div 64) % 2) + 2 * ((y \div 32) % 2) + ((y \div 16) % 2)
    <3>1. SixBits(s, g) = 32 * BitOfByte(x, 6) + 16 * BitOfByte(x, 7) + 8 * BitOfByte(y, 0)
                          + 4 * BitOfByte(y, 1) + 2 * BitOfByte(y, 2) + BitOfByte(y, 3)
      BY <1>4, <2>1, <2>2
    <3>q. QED
      BY <3>1, BitsOfByte
  <2>4. SixBits(s, g) = (x % 4) * 16 + y \div 16
    BY <1>1, <2>3, SixOfBytes, ZenonT(60)
  <2>5. EncodedBlock(s, b)[1 + 1] = (x % 4) * 16 + y \div 16
    BY <1>2
  <2>q. QED
    BY <1>b, <2>4, <2>5, Zenon DEF g
<1>c. CASE j = 2
  <2>1. /\ 6 * g = 8 * (3 * b + 1) + 4 /\ 6 * g + 1 = 8 * (3 * b + 1) + 5
        /\ 6 * g + 2 = 8 * (3 * b + 1) + 6 /\ 6 * g + 3 = 8 * (3 * b + 1) + 7
        /\ 6 * g + 4 = 8 * (3 * b + 2) + 0 /\ 6 * g + 5 = 8 * (3 * b + 2) + 1
    BY <1>c
  <2>2. /\ Bit(s, 8 * (3 * b + 1) + 4) = BitOfByte(y, 4) /\ Bit(s, 8 * (3 * b + 1) + 5) = BitOfByte(y, 5)
        /\ Bit(s, 8 * (3 * b + 1) + 6) = BitOfByte(y, 6) /\ Bit(s, 8 * (3 * b + 1) + 7) = BitOfByte(y, 7)
        /\ Bit(s, 8 * (3 * b + 2) + 0) = BitOfByte(z, 0) /\ Bit(s, 8 * (3 * b + 2) + 1) = BitOfByte(z, 1)
    BY <1>3, <1>5
  <2> HIDE DEF x, y, z, g
  <2>3. SixBits(s, g) = 32 * ((y \div 8) % 2) + 16 * ((y \div 4) % 2) + 8 * ((y \div 2) % 2)
                        + 4 * ((y \div 1) % 2) + 2 * ((z \div 128) % 2) + ((z \div 64) % 2)
    <3>1. SixBits(s, g) = 32 * BitOfByte(y, 4) + 16 * BitOfByte(y, 5) + 8 * BitOfByte(y, 6)
                          + 4 * BitOfByte(y, 7) + 2 * BitOfByte(z, 0) + BitOfByte(z, 1)
      BY <1>4, <2>1, <2>2
    <3>q. QED
      BY <3>1, BitsOfByte
  <2>4. SixBits(s, g) = (y % 16) * 4 + z \div 64
    BY <1>1, <2>3, SixOfBytes, ZenonT(60)
  <2>5. EncodedBlock(s, b)[2 + 1] = (y % 16) * 4 + z \div 64
    BY <1>2
  <2>q. QED
    BY <1>c, <2>4, <2>5, Zenon DEF g
<1>d. CASE j = 3
  <2>1. /\ 6 * g = 8 * (3 * b + 2) + 2 /\ 6 * g + 1 = 8 * (3 * b + 2) + 3
        /\ 6 * g + 2 = 8 * (3 * b + 2) + 4 /\ 6 * g + 3 = 8 * (3 * b + 2) + 5
        /\ 6 * g + 4 = 8 * (3 * b + 2) + 6 /\ 6 * g + 5 = 8 * (3 * b + 2) + 7
    BY <1>d
  <2>2. /\ Bit(s, 8 * (3 * b + 2) + 2) = BitOfByte(z, 2) /\ Bit(s, 8 * (3 * b + 2) + 3) = BitOfByte(z, 3)
        /\ Bit(s, 8 * (3 * b + 2) + 4) = BitOfByte(z, 4) /\ Bit(s, 8 * (3 * b + 2) + 5) = BitOfByte(z, 5)
        /\ Bit(s, 8 * (3 * b + 2) + 6) = BitOfByte(z, 6) /\ Bit(s, 8 * (3 * b + 2) + 7) = BitOfByte(z, 7)
    BY <1>3, <1>5
  <2> HIDE DEF x, y, z, g
  <2>3. SixBits(s, g) = 32 * ((z \div 32) % 2) + 16 * ((z \div 16) % 2) + 8 * ((z \div 8) % 2)
                        + 4 * ((z \div 4) % 2) + 2 * ((z \div 2) % 2) + ((z \div 1) % 2)
    <3>1. SixBits(s, g) = 32 * BitOfByte(z, 2) + 16 * BitOfByte(z, 3) + 8 * BitOfByte(z, 4)
                          + 4 * BitOfByte(z, 5) + 2 * BitOfByte(z, 6) + BitOfByte(z, 7)
      BY <1>4, <2>1, <2>2
    <3>q. QED
      BY <3>1, BitsOfByte
  <2>4. SixBits(s, g) = z % 64
    BY <1>1, <2>3, SixOfBytes, Zenon
  <2>5. EncodedBlock(s, b)[3 + 1] = z % 64
    BY <1>2
  <2>q. QED
    BY <1>d, <2>4, <2>5, Zenon DEF g
<1>q. QED
  BY <1>a, <1>b, <1>c, <1>d

\* How many digits and '=' the standard writes.
LEMMA GroupsAre ==
    \A n \in Nat : /\ (8 * n + 5) \div 6 = Digits(n)
                   /\ Digits(n) + ((4 - (Digits(n) % 4)) % 4) = EncodedLen(n)
                   /\ (4 - (Digits(n) % 4)) % 4 \in Nat
<1> SUFFICES ASSUME NEW n \in Nat
             PROVE /\ (8 * n + 5) \div 6 = Digits(n)
                   /\ Digits(n) + ((4 - (Digits(n) % 4)) % 4) = EncodedLen(n)
                   /\ (4 - (Digits(n) % 4)) % 4 \in Nat
  OBVIOUS
<1> DEFINE q == n \div 3
<1>1. q \in Nat /\ n % 3 \in 0 .. 2 /\ n = 3 * q + (n % 3)
  BY SMTT(30)
<1>2. CASE n % 3 = 0
  BY <1>1, <1>2, SMTT(30) DEF EncodedLen, Digits
<1>3. CASE n % 3 = 1
  BY <1>1, <1>3, SMTT(30) DEF EncodedLen, Digits
<1>4. CASE n % 3 = 2
  BY <1>1, <1>4, SMTT(30) DEF EncodedLen, Digits
<1>q. QED
  BY <1>1, <1>2, <1>3, <1>4

\* What base64_encode writes is the Base64 of the standard.
THEOREM EncodesBase64 == \A s \in Seq(Byte) : EncodedText(s) = Base64Of(s)
<1>0. SUFFICES ASSUME NEW s, s \in Seq(Byte) PROVE EncodedText(s) = Base64Of(s)
  OBVIOUS
<1> DEFINE n == Len(s)
           d == Digits(n)
           p == (4 - (d % 4)) % 4
           e == EncodedText(s)
           A == [g \in 1 .. d |-> Alphabet[SixBits(s, g - 1) + 1]]
           P == [i \in 1 .. p |-> 61]
<1>1. n \in Nat
  BY <1>0
<1>2. /\ d \in Nat /\ p \in Nat /\ EncodedLen(n) = d + p /\ (8 * n + 5) \div 6 = d
      /\ EncodedLen(n) \in Nat
  <2>1. d \in Nat /\ EncodedLen(n) \in Nat
    BY <1>1, Sizes
  <2> HIDE DEF n
  <2>q. QED
    BY <1>1, <2>1, GroupsAre
<1>3. Base64Of(s) = A \o P
  BY <1>2 DEF Base64Of
<1>4. ASSUME NEW k \in 1 .. EncodedLen(n)
      PROVE  LET b == (k - 1) \div 4
                 j == (k - 1) % 4
             IN  /\ b \in Nat /\ j \in 0 .. 3 /\ k = 4 * b + j + 1
                 /\ EncodedBlock(s, b)[j + 1] \in Digit
                 /\ e[k] = IF k <= d THEN b64_alphabet(EncodedBlock(s, b)[j + 1]) ELSE 61
  <2> DEFINE b == (k - 1) \div 4
             j == (k - 1) % 4
  <2>1. /\ b \in Nat /\ j \in 0 .. 3 /\ k = 4 * b + j + 1
        /\ 3 * b + j <= n <=> k <= d
    BY <1>1, DigitPositions
  <2>2. e[k] = IF 3 * b + j <= n THEN b64_alphabet(EncodedBlock(s, b)[j + 1]) ELSE 61
    <3> HIDE DEF n
    <3>q. QED
      BY DEF EncodedText, Equals, n
  <2>3. EncodedBlock(s, b)[j + 1] \in Digit
    <3>1. j + 1 \in 1 .. 4
      BY <2>1
    <3> HIDE DEF b, j
    <3>q. QED
      BY <1>0, <2>1, <3>1, BlockTypes
  <2> HIDE DEF b, j, e, d, n
  <2>q. QED
    BY <2>1, <2>2, <2>3, Zenon DEF b, j
<1>5. ASSUME NEW k \in 1 .. d PROVE A[k] = e[k] /\ A[k] \in Byte
  <2> DEFINE b == (k - 1) \div 4
             j == (k - 1) % 4
             g == EncodedBlock(s, b)[j + 1]
  <2>1. k \in 1 .. EncodedLen(n) /\ k <= d /\ k \in Nat
    <3> HIDE DEF d, p, n
    <3>q. QED
      BY <1>2
  <2>2. /\ b \in Nat /\ j \in 0 .. 3 /\ k = 4 * b + j + 1 /\ g \in Digit
        /\ e[k] = b64_alphabet(g)
    <3> HIDE DEF d, n, e
    <3>q. QED
      BY <1>4, <2>1, Zenon
  <2>3. SixBits(s, k - 1) = g
    <3>1. k - 1 = 4 * b + j
      <4> HIDE DEF b, j
      <4>q. QED
        BY <2>1, <2>2
    <3> HIDE DEF b, j
    <3>q. QED
      BY <1>0, <2>2, <3>1, SixBitsOfString, Zenon
  <2>4. A[k] = Alphabet[SixBits(s, k - 1) + 1]
    <3> HIDE DEF d
    <3>q. QED
      OBVIOUS
  <2> HIDE DEF g, A, e
  <2>5. A[k] = b64_alphabet(g)
    BY <2>2, <2>3, <2>4, AlphabetOfDigits, Zenon
  <2>q. QED
    BY <2>2, <2>5, LookupOfAlphabet, Zenon
<1>6. A \in Seq(Byte) /\ Len(A) = d
  <2>1. A \in [1 .. d -> Byte]
    <3> HIDE DEF d, e
    <3>q. QED
      BY <1>5
  <2> HIDE DEF A, d
  <2>q. QED
    BY <1>2, <2>1, FunctionIsString
<1>7. P \in Seq(Byte) /\ Len(P) = p /\ \A i \in 1 .. p : P[i] = 61
  <2>1. P \in [1 .. p -> Byte]
    BY DEF Byte
  <2>2. \A i \in 1 .. p : P[i] = 61
    OBVIOUS
  <2> HIDE DEF P, p
  <2>q. QED
    BY <1>2, <2>1, <2>2, FunctionIsString
<1>8. e \in Seq(Byte) /\ Len(e) = d + p
  <2>1. e \in Seq(Byte) /\ Len(e) = EncodedLen(n)
    BY <1>0, EncodedString
  <2>q. QED
    BY <1>2, <2>1, Zenon
<1> HIDE DEF A, P, e, p, d
<1>9. /\ A \o P \in Seq(Byte) /\ Len(A \o P) = d + p
      /\ \A i \in 1 .. d : (A \o P)[i] = A[i]
      /\ \A i \in 1 .. p : (A \o P)[d + i] = P[i]
  <2>1. /\ A \o P \in Seq(Byte) /\ Len(A \o P) = Len(A) + Len(P)
        /\ \A i \in 1 .. Len(A) : (A \o P)[i] = A[i]
        /\ \A i \in 1 .. Len(P) : (A \o P)[Len(A) + i] = P[i]
    <3>1. A \in Seq(Byte) /\ P \in Seq(Byte)
      BY <1>6, <1>7
    <3>q. QED
      BY <3>1, Concatenation
  <2>q. QED
    BY <1>6, <1>7, <2>1, Zenon
<1> DEFINE B == A \o P
<1>10. ASSUME NEW k \in 1 .. d + p PROVE B[k] = e[k]
  <2>1. CASE k <= d
    <3>1. k \in 1 .. d
      BY <1>2, <2>1
    <3>q. QED
      BY <1>5, <1>9, <3>1, Zenon
  <2>2. CASE ~ (k <= d)
    <3> DEFINE i == k - d
    <3>1. i \in 1 .. p /\ k = d + i
      BY <1>2, <2>2
    <3> HIDE DEF i
    <3>2. B[k] = 61
      BY <1>7, <1>9, <3>1
    <3>3. e[k] = 61
      BY <1>2, <1>4, <2>2, Zenon
    <3>q. QED
      BY <3>2, <3>3
  <2>q. QED
    BY <2>1, <2>2
<1>11. B \in Seq(Byte) /\ Len(B) = d + p
  BY <1>9
<1> HIDE DEF B
<1>12. e = B
  <2>1. Len(e) = Len(B) /\ \A k \in 1 .. Len(e) : e[k] = B[k]
    BY <1>8, <1>10, <1>11
  <2>q. QED
    BY <1>8, <1>11, <2>1, SameBytes
<1>q. QED
  BY <1>3, <1>12 DEF B, e

-----------------------------------------------------------------------------
(* Percent signs.                                                          *)

\* What decoding may have come to.
Decodings == [text : Seq(Int), missing : 0 .. 2, value : Int]

\* Digits have a value.
LEMMA HexValueIsInt == \A c \in Byte : HexValue(c) \in Int
BY DEF HexValue, Byte

\* Each character leads from one such to another.
LEMMA DecodedTypes == \A d \in Decodings : \A c \in Byte : Decoded(d, c) \in Decodings
<1>0. SUFFICES ASSUME NEW d, d \in Decodings, NEW c, c \in Byte PROVE Decoded(d, c) \in Decodings
  OBVIOUS
<1> DEFINE v == 16 * d.value + HexValue(c)
<1>1. /\ d = [text |-> d.text, missing |-> d.missing, value |-> d.value]
      /\ d.text \in Seq(Int) /\ d.missing \in 0 .. 2 /\ d.value \in Int
  BY <1>0 DEF Decodings
<1>2. v \in Int /\ c \in Int
  <2>1. HexValue(c) \in Int
    BY <1>0, HexValueIsInt
  <2>2. \A x, y \in Int : 16 * x + y \in Int
    OBVIOUS
  <2>3. v \in Int
    BY <1>1, <2>1, <2>2, Zenon
  <2>4. c \in Int
    BY <1>0 DEF Byte
  <2>q. QED
    BY <2>3, <2>4, Zenon
<1> HIDE DEF v
<1>3. d.text \o <<v>> \in Seq(Int) /\ d.text \o <<c>> \in Seq(Int)
  BY <1>1, <1>2
<1>4. Decoded(d, c) = CASE d.missing = 2 -> [text |-> d.text, missing |-> 1, value |-> v]
                        [] d.missing = 1 -> [text |-> d.text \o <<v>>, missing |-> 0, value |-> 0]
                        [] d.missing = 0 /\ c = 37 -> [text |-> d.text, missing |-> 2, value |-> 0]
                        [] OTHER -> [text |-> d.text \o <<c>>, missing |-> 0, value |-> 0]
  BY DEF Decoded, v
<1>5. /\ [text |-> d.text, missing |-> 1, value |-> v] \in Decodings
      /\ [text |-> d.text \o <<v>>, missing |-> 0, value |-> 0] \in Decodings
      /\ [text |-> d.text, missing |-> 2, value |-> 0] \in Decodings
      /\ [text |-> d.text \o <<c>>, missing |-> 0, value |-> 0] \in Decodings
  <2>1. \A x \in Seq(Int) : \A m \in 0 .. 2 : \A y \in Int :
           [text |-> x, missing |-> m, value |-> y] \in Decodings
    BY DEF Decodings
  <2>2. 0 \in 0 .. 2 /\ 1 \in 0 .. 2 /\ 2 \in 0 .. 2 /\ 0 \in Int
    OBVIOUS
  <2>q. QED
    BY <1>1, <1>2, <1>3, <2>1, <2>2, Zenon
<1>6. CASE d.missing = 2
  BY <1>4, <1>5, <1>6
<1>7. CASE d.missing = 1
  BY <1>4, <1>5, <1>7
<1>8. CASE d.missing = 0 /\ c = 37
  BY <1>4, <1>5, <1>8
<1>9. CASE d.missing = 0 /\ c # 37
  BY <1>4, <1>5, <1>9
<1>q. QED
  BY <1>1, <1>6, <1>7, <1>8, <1>9

\* So it is at the beginning.
LEMMA UndecodedType == Undecoded \in Decodings
BY DEF Undecoded, Decodings

\* f is what decoding s comes to, character by character.
IsDecoding(f, s) ==
    /\ f \in [0 .. Len(s) -> Decodings]
    /\ f[0] = Undecoded
    /\ \A n \in 1 .. Len(s) : f[n] = Decoded(f[n - 1], s[n])

\* Decoding is such a function.
LEMMA DecodingExists == \A s \in Seq(Byte) : IsDecoding(Decoding(s), s)
<1>0. SUFFICES ASSUME NEW s, s \in Seq(Byte) PROVE IsDecoding(Decoding(s), s)
  OBVIOUS
<1> DEFINE N == Len(s)
           V == Decodings
           F == [n \in 1 .. N |-> [w \in V |-> Decoded(w, s[n])]]
           G(f) == [n \in 0 .. N |-> IF n = 0 THEN Undecoded ELSE Decoded(f[n - 1], s[n])]
<1>1. N \in Nat
  BY <1>0
<1>2. F \in [1 .. N -> [V -> V]]
  <2>1. ASSUME NEW n \in 1 .. N, NEW w \in V PROVE Decoded(w, s[n]) \in V
    <3>1. s[n] \in Byte
      BY <1>0
    <3>q. QED
      BY <3>1, DecodedTypes
  <2> HIDE DEF N
  <2>q. QED
    BY <2>1
<1>3. PICK f : IsRecursion(f, V, Undecoded, N, F)
  <2>1. Undecoded \in V
    BY UndecodedType
  <2> HIDE DEF N, V, F
  <2>q. QED
    BY <1>1, <1>2, <2>1, Recursion, Zenon
<1>a. /\ f \in [0 .. N -> V] /\ f[0] = Undecoded
      /\ \A n \in 1 .. N : f[n] = Decoded(f[n - 1], s[n])
  <2>1. /\ f \in [0 .. N -> V] /\ f[0] = Undecoded
        /\ \A n \in 1 .. N : f[n] = F[n][f[n - 1]]
    <3> HIDE DEF N, V, F
    <3>q. QED
      BY <1>3 DEF IsRecursion
  <2>2. ASSUME NEW n \in 1 .. N PROVE f[n - 1] \in V /\ F[n][f[n - 1]] = Decoded(f[n - 1], s[n])
    <3>1. n - 1 \in 0 .. N
      <4> HIDE DEF N
      <4>q. QED
        BY <1>1
    <3>2. f[n - 1] \in V
      BY <2>1, <3>1
    <3> HIDE DEF V, N
    <3>q. QED
      BY <3>2
  <2> HIDE DEF N, V, F
  <2>q. QED
    BY <2>1, <2>2
<1>4. f = G(f)
  <2> HIDE DEF N, V
  <2>1. ASSUME NEW n \in 0 .. N
        PROVE  f[n] = IF n = 0 THEN Undecoded ELSE Decoded(f[n - 1], s[n])
    <3>1. n # 0 => n \in 1 .. N
      BY <1>1
    <3>q. QED
      BY <1>a, <3>1, Zenon
  <2>2. f = [n \in 0 .. N |-> f[n]]
    BY <1>a
  <2>q. QED
    BY <2>1, <2>2
<1>5. Decoding(s) = CHOOSE g : g = G(g)
  BY DEF Decoding
<1>6. Decoding(s) = G(Decoding(s))
  <2> HIDE DEF G
  <2>q. QED
    BY <1>4, <1>5
<1> DEFINE g == Decoding(s)
           S == {n \in 0 .. N : g[n] = f[n]}
<1>b. /\ g[0] = Undecoded
      /\ \A n \in 1 .. N : g[n] = Decoded(g[n - 1], s[n])
      /\ g = [n \in 0 .. N |-> g[n]]
  <2> HIDE DEF N, g
  <2>q. QED
    BY <1>1, <1>6 DEF g
<1> HIDE DEF G, F, g, V
<1>7. 0 \in S
  <2> HIDE DEF N
  <2>q. QED
    BY <1>1, <1>a, <1>b
<1>8. ASSUME NEW n \in 0 .. N - 1, n \in S PROVE n + 1 \in S
  <2> HIDE DEF N
  <2>1. n + 1 \in 1 .. N /\ n + 1 \in 0 .. N /\ (n + 1) - 1 = n /\ g[n] = f[n]
    BY <1>1, <1>8
  <2>2. g[n + 1] = Decoded(g[n], s[n + 1])
    BY <1>b, <2>1
  <2>3. f[n + 1] = Decoded(f[n], s[n + 1])
    BY <1>a, <2>1
  <2>q. QED
    BY <2>1, <2>2, <2>3
<1>9. \A n \in 0 .. N : g[n] = f[n]
  <2>1. 0 .. N \subseteq S
    <3> HIDE DEF S, N
    <3>q. QED
      BY <1>1, <1>7, <1>8, Induct
  <2> HIDE DEF N
  <2>q. QED
    BY <2>1
<1>10. g \in [0 .. N -> V]
  <2> HIDE DEF N
  <2>q. QED
    BY <1>9, <1>a, <1>b
<1>q. QED
  BY <1>b, <1>10 DEF IsDecoding, g, V

\* What is decoded of a whole string.
DecodedOf(s) == Decoding(s)[Len(s)]

\* Of an empty string nothing is decoded.
LEMMA NothingDecoded == DecodedOf(<<>>) = Undecoded
<1>1. <<>> \in Seq(Byte) /\ Len(<<>>) = 0
  OBVIOUS
<1>q. QED
  BY <1>1, DecodingExists DEF IsDecoding, DecodedOf

\* One more character is decoded after the others.
LEMMA OneMore ==
    \A s \in Seq(Byte) : \A c \in Byte : DecodedOf(s \o <<c>>) = Decoded(DecodedOf(s), c)
<1>0. SUFFICES ASSUME NEW s, s \in Seq(Byte), NEW c, c \in Byte
               PROVE  DecodedOf(s \o <<c>>) = Decoded(DecodedOf(s), c)
  OBVIOUS
<1> DEFINE N == Len(s)
           e == <<c>>
           t == s \o e
           f == Decoding(s)
           g == Decoding(t)
           S == {n \in 0 .. N : g[n] = f[n]}
<1>1. N \in Nat /\ e \in Seq(Byte) /\ Len(e) = 1 /\ e[1] = c
  BY <1>0
<1> HIDE DEF e
<1>2. /\ t \in Seq(Byte) /\ Len(t) = N + 1
      /\ \A i \in 1 .. N : t[i] = s[i]
      /\ t[N + 1] = c
  <2>1. /\ t \in Seq(Byte) /\ Len(t) = Len(s) + Len(e)
        /\ \A i \in 1 .. Len(s) : t[i] = s[i]
        /\ \A i \in 1 .. Len(e) : t[Len(s) + i] = e[i]
    BY <1>0, <1>1, Concatenation
  <2> HIDE DEF t
  <2>2. t[Len(s) + 1] = e[1]
    BY <1>1, <2>1
  <2>q. QED
    BY <1>1, <2>1, <2>2
<1> HIDE DEF t
<1>3. /\ f[0] = Undecoded
      /\ \A n \in 1 .. N : f[n] = Decoded(f[n - 1], s[n])
      /\ g[0] = Undecoded
      /\ \A n \in 1 .. N + 1 : g[n] = Decoded(g[n - 1], t[n])
  <2>1. IsDecoding(f, s) /\ IsDecoding(g, t)
    BY <1>0, <1>2, DecodingExists
  <2> HIDE DEF f, g
  <2>q. QED
    BY <1>2, <2>1 DEF IsDecoding
<1> HIDE DEF f, g, N
<1>4. 0 \in S
  BY <1>1, <1>3
<1>5. ASSUME NEW n \in 0 .. N - 1, n \in S PROVE n + 1 \in S
  <2>1. n + 1 \in 1 .. N /\ n + 1 \in 1 .. N + 1 /\ n + 1 \in 0 .. N /\ (n + 1) - 1 = n /\ g[n] = f[n]
    BY <1>1, <1>5
  <2>2. g[n + 1] = Decoded(g[n], t[n + 1]) /\ t[n + 1] = s[n + 1]
    BY <1>2, <1>3, <2>1
  <2>3. f[n + 1] = Decoded(f[n], s[n + 1])
    BY <1>3, <2>1
  <2>q. QED
    BY <2>1, <2>2, <2>3
<1>6. g[N] = f[N]
  <2>1. 0 .. N \subseteq S
    <3> HIDE DEF S
    <3>q. QED
      BY <1>1, <1>4, <1>5, Induct
  <2>q. QED
    BY <1>1, <2>1
<1>7. g[N + 1] = Decoded(g[N], c)
  <2>1. N + 1 \in 1 .. N + 1 /\ (N + 1) - 1 = N
    BY <1>1
  <2>q. QED
    BY <1>2, <1>3, <2>1
<1>q. QED
  BY <1>2, <1>6, <1>7, Zenon DEF DecodedOf, t, e, f, g, N

\* Concatenation is associative.
LEMMA Associative ==
    ASSUME NEW r, NEW s, NEW t, r \in Seq(Byte), s \in Seq(Byte), t \in Seq(Byte)
    PROVE  (r \o s) \o t = r \o (s \o t)
<1>0. r \in Seq(Byte) /\ s \in Seq(Byte) /\ t \in Seq(Byte)
  OBVIOUS
<1> DEFINE rs == r \o s
           st == s \o t
           x == rs \o t
           y == r \o st
           a == Len(r)
           b == Len(s)
           c == Len(t)
<1>1. a \in Nat /\ b \in Nat /\ c \in Nat
  BY <1>0
<1>2. /\ rs \in Seq(Byte) /\ Len(rs) = a + b
      /\ \A i \in 1 .. a : rs[i] = r[i]
      /\ \A i \in 1 .. b : rs[a + i] = s[i]
  BY <1>0, Concatenation
<1>3. /\ st \in Seq(Byte) /\ Len(st) = b + c
      /\ \A i \in 1 .. b : st[i] = s[i]
      /\ \A i \in 1 .. c : st[b + i] = t[i]
  BY <1>0, Concatenation
<1> HIDE DEF rs, st
<1>4. /\ x \in Seq(Byte) /\ Len(x) = Len(rs) + c
      /\ \A i \in 1 .. Len(rs) : x[i] = rs[i]
      /\ \A i \in 1 .. c : x[Len(rs) + i] = t[i]
  BY <1>0, <1>2, Concatenation
<1>5. /\ y \in Seq(Byte) /\ Len(y) = a + Len(st)
      /\ \A i \in 1 .. a : y[i] = r[i]
      /\ \A i \in 1 .. Len(st) : y[a + i] = st[i]
  BY <1>0, <1>3, Concatenation
<1> HIDE DEF x, y, a, b, c
<1>6. Len(x) = a + b + c /\ Len(y) = a + b + c
  BY <1>1, <1>2, <1>3, <1>4, <1>5
<1>7. ASSUME NEW i \in 1 .. a + b + c PROVE x[i] = y[i]
  <2>1. CASE i <= a
    <3>1. i \in 1 .. a /\ i \in 1 .. a + b
      BY <1>1, <2>1
    <3>q. QED
      BY <1>2, <1>4, <1>5, <3>1
  <2>2. CASE i > a /\ i <= a + b
    <3> DEFINE j == i - a
    <3>1. j \in 1 .. b /\ j \in 1 .. b + c /\ i = a + j /\ i \in 1 .. a + b
      BY <1>1, <2>2
    <3> HIDE DEF j
    <3>2. x[i] = rs[i] /\ rs[a + j] = s[j] /\ y[a + j] = st[j] /\ st[j] = s[j]
      BY <1>2, <1>3, <1>4, <1>5, <3>1
    <3>q. QED
      BY <3>1, <3>2
  <2>3. CASE i > a + b
    <3> DEFINE j == i - (a + b)
               k == b + j
    <3>1. j \in 1 .. c /\ k \in 1 .. b + c /\ i = (a + b) + j /\ i = a + k
      BY <1>1, <2>3
    <3>2. st[k] = t[j]
      BY <1>3, <3>1
    <3> HIDE DEF j, k
    <3>3. x[(a + b) + j] = t[j]
      BY <1>2, <1>4, <3>1
    <3>4. y[a + k] = st[k]
      BY <1>3, <1>5, <3>1
    <3>q. QED
      BY <3>1, <3>2, <3>3, <3>4
  <2>q. QED
    BY <1>1, <2>1, <2>2, <2>3
<1>8. Len(x) = Len(y) /\ \A i \in 1 .. Len(x) : x[i] = y[i]
  BY <1>6, <1>7
<1>9. x = y
  BY <1>4, <1>5, <1>8, SameBytes
<1>q. QED
  BY <1>9 DEF x, y, rs, st

\* Short strings, put together.
LEMMA Tuples ==
    \A x, y, z \in Byte : /\ <<x>> \o <<y>> = <<x, y>>
                         /\ <<x>> \o <<y, z>> = <<x, y, z>>
<1> SUFFICES ASSUME NEW x \in Byte, NEW y \in Byte, NEW z \in Byte
             PROVE  /\ <<x>> \o <<y>> = <<x, y>>
                    /\ <<x>> \o <<y, z>> = <<x, y, z>>
  OBVIOUS
<1> DEFINE a == <<x>>
           b == <<y>>
           c == <<y, z>>
           d == <<x, y>>
           e == <<x, y, z>>
<1>1. /\ a \in Seq(Byte) /\ b \in Seq(Byte) /\ c \in Seq(Byte)
      /\ d \in Seq(Byte) /\ e \in Seq(Byte)
      /\ Len(a) = 1 /\ Len(b) = 1 /\ Len(c) = 2 /\ Len(d) = 2 /\ Len(e) = 3
      /\ a[1] = x /\ b[1] = y /\ c[1] = y /\ c[2] = z
      /\ d[1] = x /\ d[2] = y /\ e[1] = x /\ e[2] = y /\ e[3] = z
  OBVIOUS
<1> HIDE DEF a, b, c, d, e
<1>2. a \o b = d
  <2> DEFINE r == a \o b
  <2>1. /\ r \in Seq(Byte) /\ Len(r) = Len(a) + Len(b)
        /\ \A i \in 1 .. Len(a) : r[i] = a[i]
        /\ \A i \in 1 .. Len(b) : r[Len(a) + i] = b[i]
    BY <1>1, Concatenation, Zenon
  <2> HIDE DEF r
  <2>2. Len(r) = 2 /\ r[1] = x /\ r[1 + 1] = y
    BY <1>1, <2>1
  <2>3. Len(r) = Len(d) /\ \A i \in 1 .. Len(r) : r[i] = d[i]
    BY <1>1, <2>2
  <2>q. QED
    BY <1>1, <2>1, <2>3, SameBytes, Zenon DEF r
<1>3. a \o c = e
  <2> DEFINE r == a \o c
  <2>1. /\ r \in Seq(Byte) /\ Len(r) = Len(a) + Len(c)
        /\ \A i \in 1 .. Len(a) : r[i] = a[i]
        /\ \A i \in 1 .. Len(c) : r[Len(a) + i] = c[i]
    BY <1>1, Concatenation, Zenon
  <2> HIDE DEF r
  <2>2. Len(r) = 3 /\ r[1] = x /\ r[1 + 1] = y /\ r[1 + 2] = z
    BY <1>1, <2>1
  <2>3. Len(r) = Len(e) /\ \A i \in 1 .. Len(r) : r[i] = e[i]
    BY <1>1, <2>2
  <2>q. QED
    BY <1>1, <2>1, <2>3, SameBytes, Zenon DEF r
<1>q. QED
  BY <1>2, <1>3 DEF a, b, c, d, e

\* A beginning and the next character.
LEMMA OneLonger ==
    \A t \in Seq(Byte) : \A i \in Nat : i < Len(t) =>
        /\ SubSeq(t, 1, i) \in Seq(Byte) /\ t[i + 1] \in Byte
        /\ SubSeq(t, 1, i + 1) = SubSeq(t, 1, i) \o <<t[i + 1]>>
<1>0. SUFFICES ASSUME NEW t, t \in Seq(Byte), NEW i, i \in Nat, i < Len(t)
               PROVE  /\ SubSeq(t, 1, i) \in Seq(Byte) /\ t[i + 1] \in Byte
                      /\ SubSeq(t, 1, i + 1) = SubSeq(t, 1, i) \o <<t[i + 1]>>
  OBVIOUS
<1> DEFINE p == SubSeq(t, 1, i)
           q == SubSeq(t, 1, i + 1)
           e == <<t[i + 1]>>
           r == p \o e
<1>1. t[i + 1] \in Byte
  BY <1>0
<1>2. e \in Seq(Byte) /\ Len(e) = 1 /\ e[1] = t[i + 1]
  BY <1>1
<1>3. /\ p \in Seq(Byte) /\ Len(p) = i
      /\ \A j \in 1 .. i : p[j] = t[j]
  <2>1. \A a, b \in Nat : a <= b /\ b <= Len(t) =>
           /\ SubSeq(t, a + 1, b) \in Seq(Byte)
           /\ Len(SubSeq(t, a + 1, b)) = b - a
           /\ \A j \in 1 .. b - a : SubSeq(t, a + 1, b)[j] = t[a + j]
    BY <1>0, Substring
  <2>2. 0 \in Nat /\ 0 + 1 = 1 /\ 0 <= i /\ i <= Len(t) /\ i - 0 = i /\ \A j \in 1 .. i : 0 + j = j
    BY <1>0
  <2>q. QED
    BY <1>0, <2>1, <2>2
<1>4. /\ q \in Seq(Byte) /\ Len(q) = i + 1
      /\ \A j \in 1 .. i + 1 : q[j] = t[j]
  <2>1. \A a, b \in Nat : a <= b /\ b <= Len(t) =>
           /\ SubSeq(t, a + 1, b) \in Seq(Byte)
           /\ Len(SubSeq(t, a + 1, b)) = b - a
           /\ \A j \in 1 .. b - a : SubSeq(t, a + 1, b)[j] = t[a + j]
    BY <1>0, Substring
  <2>2. /\ 0 \in Nat /\ 0 + 1 = 1 /\ i + 1 \in Nat /\ 0 <= i + 1 /\ i + 1 <= Len(t)
        /\ (i + 1) - 0 = i + 1 /\ \A j \in 1 .. i + 1 : 0 + j = j
    BY <1>0
  <2>q. QED
    BY <1>0, <2>1, <2>2
<1> HIDE DEF p, q, e
<1>5. /\ r \in Seq(Byte) /\ Len(r) = Len(p) + Len(e)
      /\ \A j \in 1 .. Len(p) : r[j] = p[j]
      /\ \A j \in 1 .. Len(e) : r[Len(p) + j] = e[j]
  BY <1>2, <1>3, Concatenation
<1> HIDE DEF r
<1>6. Len(r) = i + 1 /\ r[i + 1] = t[i + 1] /\ \A j \in 1 .. i : r[j] = t[j]
  BY <1>0, <1>2, <1>3, <1>5
<1>7. ASSUME NEW j \in 1 .. i + 1 PROVE q[j] = r[j]
  <2>1. j \in 1 .. i \/ j = i + 1
    BY <1>0
  <2>q. QED
    BY <1>4, <1>6, <2>1
<1>8. q = r
  BY <1>4, <1>5, <1>6, <1>7, SameBytes
<1>q. QED
  BY <1>1, <1>3, <1>8 DEF p, q, r, e

\* All of t is decoded and no digit is missing.
Whole(t) == [text |-> t, missing |-> 0, value |-> 0]

\* The code of one character, and what is decoded from it.
LEMMA CodeIs ==
    \A c \in Byte :
        /\ Code(c) \in Seq(Byte) /\ Len(Code(c)) <= 3
        /\ \/ c # 37 /\ Code(c) = <<c>>
           \/ /\ Code(c) = <<37, HexDigit(c \div 16), HexDigit(c % 16)>>
              /\ HexDigit(c \div 16) \in Byte /\ HexDigit(c % 16) \in Byte
              /\ 16 * HexValue(HexDigit(c \div 16)) + HexValue(HexDigit(c % 16)) = c
              /\ HexValue(HexDigit(c \div 16)) \in Int
<1>1. SUFFICES ASSUME NEW c \in Byte
      PROVE
        /\ Code(c) \in Seq(Byte) /\ Len(Code(c)) <= 3
        /\ \/ c # 37 /\ Code(c) = <<c>>
           \/ /\ Code(c) = <<37, HexDigit(c \div 16), HexDigit(c % 16)>>
              /\ HexDigit(c \div 16) \in Byte /\ HexDigit(c % 16) \in Byte
              /\ 16 * HexValue(HexDigit(c \div 16)) + HexValue(HexDigit(c % 16)) = c
              /\ HexValue(HexDigit(c \div 16)) \in Int
  OBVIOUS
<1>2. \A n \in 0 .. 15 : HexDigit(n) \in Byte /\ HexValue(HexDigit(n)) = n
  BY DEF HexDigit, HexValue, Byte
<1> DEFINE a == c \div 16
           b == c % 16
<1>3. a \in 0 .. 15 /\ b \in 0 .. 15 /\ 16 * a + b = c /\ a \in Int
  BY DEF Byte
<1> HIDE DEF a, b
<1>4. /\ HexDigit(a) \in Byte /\ HexDigit(b) \in Byte
      /\ 16 * HexValue(HexDigit(a)) + HexValue(HexDigit(b)) = c
      /\ HexValue(HexDigit(a)) \in Int
  BY <1>2, <1>3
<1>5. CASE Plain(c)
  <2>1. c # 37
    BY <1>5 DEF Plain
  <2>2. Code(c) = <<c>>
    BY <1>5 DEF Code
  <2>3. <<c>> \in Seq(Byte) /\ Len(<<c>>) <= 3
    OBVIOUS
  <2>q. QED
    BY <2>1, <2>2, <2>3
<1>6. CASE ~ Plain(c)
  <2> DEFINE x == HexDigit(a)
             y == HexDigit(b)
  <2>1. Code(c) = <<37, x, y>>
    BY <1>6 DEF Code, a, b
  <2>2. 37 \in Byte /\ x \in Byte /\ y \in Byte
    BY <1>4 DEF Byte
  <2> HIDE DEF x, y
  <2>3. <<37, x, y>> \in Seq(Byte) /\ Len(<<37, x, y>>) <= 3
    BY <2>2
  <2>4. Code(c) \in Seq(Byte) /\ Len(Code(c)) <= 3
    BY <2>1, <2>3, Zenon
  <2>q. QED
    BY <1>4, <2>1, <2>4, Zenon DEF a, b, x, y
<1>q. QED
  BY <1>5, <1>6

\* After whole codes, the code of a character decodes to it.
LEMMA CodeDecoded ==
    \A s, t \in Seq(Byte) : DecodedOf(s) = Whole(t) =>
        \A c \in Byte : DecodedOf(s \o Code(c)) = Whole(t \o <<c>>)
<1>0. SUFFICES ASSUME NEW s, NEW t, s \in Seq(Byte), t \in Seq(Byte), DecodedOf(s) = Whole(t),
                      NEW c, c \in Byte
               PROVE  DecodedOf(s \o Code(c)) = Whole(t \o <<c>>)
  OBVIOUS
<1>1. CASE c # 37 /\ Code(c) = <<c>>
  <2>1. DecodedOf(s \o <<c>>) = Decoded(Whole(t), c)
    BY <1>0, OneMore
  <2>2. Decoded(Whole(t), c) = Whole(t \o <<c>>)
    BY <1>1 DEF Decoded, Whole
  <2>q. QED
    BY <1>1, <2>1, <2>2
<1>2. ASSUME NEW x, NEW y, x \in Byte, y \in Byte, 37 \in Byte,
             16 * HexValue(x) + HexValue(y) = c, HexValue(x) \in Int
      PROVE  DecodedOf(s \o <<37, x, y>>) = Whole(t \o <<c>>)
  <2> DEFINE s1 == s \o <<37>>
             s2 == s1 \o <<x>>
             s3 == s2 \o <<y>>
             d1 == [text |-> t, missing |-> 2, value |-> 0]
             d2 == [text |-> t, missing |-> 1, value |-> HexValue(x)]
  <2>1. s1 \in Seq(Byte) /\ s2 \in Seq(Byte)
    <3>1. <<37>> \in Seq(Byte) /\ <<x>> \in Seq(Byte)
      BY <1>2
    <3>q. QED
      BY <1>0, <3>1
  <2>2. s3 = s \o <<37, x, y>>
    <3>1. <<37>> \in Seq(Byte) /\ <<x>> \in Seq(Byte) /\ <<y>> \in Seq(Byte) /\ <<x, y>> \in Seq(Byte)
      BY <1>2
    <3>2. s3 = s1 \o (<<x>> \o <<y>>)
      <4> DEFINE a == <<x>>
                 b == <<y>>
      <4>1. s3 = (s1 \o a) \o b /\ a \in Seq(Byte) /\ b \in Seq(Byte)
        BY <3>1
      <4> HIDE DEF a, b, s1, s2, s3
      <4>2. (s1 \o a) \o b = s1 \o (a \o b)
        BY <2>1, <4>1, Associative
      <4>q. QED
        BY <4>1, <4>2, Zenon DEF a, b
    <3>3. <<x>> \o <<y>> = <<x, y>>
      BY <1>2, Tuples, Zenon
    <3>4. s1 \o <<x, y>> = s \o (<<37>> \o <<x, y>>)
      <4> DEFINE a == <<37>>
                 b == <<x, y>>
      <4>1. s1 = s \o a /\ a \in Seq(Byte) /\ b \in Seq(Byte)
        BY <3>1
      <4> HIDE DEF a, b, s1, s2, s3
      <4>2. (s \o a) \o b = s \o (a \o b)
        BY <1>0, <4>1, Associative
      <4>q. QED
        BY <4>1, <4>2, Zenon DEF a, b
    <3>5. <<37>> \o <<x, y>> = <<37, x, y>>
      BY <1>2, Tuples, Zenon
    <3>q. QED
      BY <3>2, <3>3, <3>4, <3>5, Zenon
  <2> HIDE DEF s3
  <2>3. DecodedOf(s1) = d1
    <3>1. DecodedOf(s1) = Decoded(Whole(t), 37)
      BY <1>0, <1>2, OneMore, Zenon
    <3>2. Decoded(Whole(t), 37) = d1
      BY DEF Decoded, Whole
    <3>q. QED
      BY <3>1, <3>2
  <2> HIDE DEF s1
  <2>4. DecodedOf(s2) = d2
    <3>1. DecodedOf(s2) = Decoded(d1, x)
      BY <1>2, <2>1, <2>3, OneMore, Zenon
    <3>2. Decoded(d1, x) = [text |-> t, missing |-> 1, value |-> 16 * 0 + HexValue(x)]
      BY DEF Decoded
    <3>3. 16 * 0 + HexValue(x) = HexValue(x)
      BY <1>2
    <3>q. QED
      BY <3>1, <3>2, <3>3
  <2> HIDE DEF s2
  <2>5. DecodedOf(s3) = Whole(t \o <<c>>)
    <3>1. DecodedOf(s3) = Decoded(d2, y)
      BY <1>2, <2>1, <2>4, OneMore, Zenon DEF s3
    <3>2. Decoded(d2, y) = [text |-> t \o <<16 * HexValue(x) + HexValue(y)>>, missing |-> 0, value |-> 0]
      BY DEF Decoded
    <3>q. QED
      BY <1>2, <3>1, <3>2 DEF Whole
  <2>q. QED
    BY <2>2, <2>5
<1>3. 37 \in Byte
  BY DEF Byte
<1>4. CASE ~ (c # 37 /\ Code(c) = <<c>>)
  <2> DEFINE x == HexDigit(c \div 16)
             y == HexDigit(c % 16)
  <2>1. /\ Code(c) = <<37, x, y>> /\ x \in Byte /\ y \in Byte
        /\ 16 * HexValue(x) + HexValue(y) = c /\ HexValue(x) \in Int
    BY <1>0, <1>4, CodeIs, Zenon
  <2> HIDE DEF x, y
  <2>2. DecodedOf(s \o <<37, x, y>>) = Whole(t \o <<c>>)
    BY <1>2, <1>3, <2>1, Zenon
  <2>q. QED
    BY <2>1, <2>2, Zenon
<1>q. QED
  BY <1>1, <1>4, Zenon

\* urlEncode puts the codes of the characters one after the other.
IsFlattening(h, t) ==
    /\ h[1] = Code(t[1])
    /\ \A i \in 1 .. Len(t) : i # 1 => h[i] = h[i - 1] \o Code(t[i])

\* Its codes are put together one by one.
LEMMA CodesInOrder ==
    \A t \in Seq(Byte) : Len(t) # 0 => \E h : IsFlattening(h, t) /\ urlEncode(t) = h[Len(t)]
<1>0. SUFFICES ASSUME NEW t, t \in Seq(Byte), Len(t) # 0
               PROVE  \E h : IsFlattening(h, t) /\ urlEncode(t) = h[Len(t)]
  OBVIOUS
<1> DEFINE N == Len(t)
           V == Seq(Byte)
           codes == [i \in 1 .. N |-> Code(t[i])]
           F == [i \in 1 .. N |-> [w \in V |-> w \o codes[i]]]
           G(f) == [i \in 1 .. N |-> IF i = 1 THEN codes[i] ELSE f[i - 1] \o codes[i]]
           H == CHOOSE f : f = G(f)
<1>1. N \in Nat /\ N # 0
  BY <1>0
<1>2. \A i \in 1 .. N : codes[i] = Code(t[i]) /\ codes[i] \in Seq(Byte)
  <2>1. \A i \in 1 .. N : t[i] \in Byte
    BY <1>0
  <2> HIDE DEF N
  <2>q. QED
    BY <2>1, CodeIs
<1>3. Len(codes) = N
  <2> HIDE DEF N
  <2>1. codes \in [1 .. N -> Seq(Byte)]
    BY <1>2
  <2>q. QED
    BY <1>1, <2>1
<1>4. urlEncode(t) = H[N]
  <2>1. urlEncode(t) = FlattenSeq(codes)
    BY DEF urlEncode
  <2>2. FlattenSeq(codes) = IF Len(codes) = 0 THEN codes
                            ELSE (CHOOSE f : f = [i \in 1 .. Len(codes) |->
                                    IF i = 1 THEN codes[i] ELSE f[i - 1] \o codes[i]])[Len(codes)]
    <3> HIDE DEF codes
    <3>q. QED
      BY DEF FlattenSeq
  <2> HIDE DEF codes, N
  <2>q. QED
    BY <1>1, <1>3, <2>1, <2>2
<1>5. F \in [1 .. N -> [V -> V]]
  <2>1. ASSUME NEW i \in 1 .. N, NEW w \in V PROVE w \o codes[i] \in V
    <3> HIDE DEF codes, N
    <3>1. codes[i] \in Seq(Byte) /\ w \in Seq(Byte)
      BY <1>2
    <3>q. QED
      BY <3>1
  <2> HIDE DEF N, codes, V
  <2>q. QED
    BY <2>1
<1>6. PICK f : IsRecursion(f, V, <<>>, N, F)
  <2> HIDE DEF N, F
  <2>1. <<>> \in V
    OBVIOUS
  <2> HIDE DEF V
  <2>q. QED
    BY <1>1, <1>5, <2>1, Recursion, Zenon
<1>7. /\ f \in [0 .. N -> V] /\ f[0] = <<>>
      /\ \A i \in 1 .. N : f[i] = f[i - 1] \o codes[i]
  <2>1. /\ f \in [0 .. N -> V] /\ f[0] = <<>>
        /\ \A i \in 1 .. N : f[i] = F[i][f[i - 1]]
    <3> HIDE DEF N, V, F
    <3>q. QED
      BY <1>6 DEF IsRecursion
  <2>2. ASSUME NEW i \in 1 .. N PROVE F[i][f[i - 1]] = f[i - 1] \o codes[i]
    <3>1. i - 1 \in 0 .. N
      <4> HIDE DEF N
      <4>q. QED
        BY <1>1
    <3>2. f[i - 1] \in V
      BY <2>1, <3>1
    <3> HIDE DEF V, N, codes
    <3>q. QED
      BY <3>2
  <2> HIDE DEF N, V, F, codes
  <2>q. QED
    BY <2>1, <2>2
<1> DEFINE w == [i \in 1 .. N |-> f[i]]
<1>8. w = G(w)
  <2> HIDE DEF N, codes
  <2>1. ASSUME NEW i \in 1 .. N
        PROVE  f[i] = IF i = 1 THEN codes[i] ELSE w[i - 1] \o codes[i]
    <3>1. CASE i = 1
      <4>1. f[i] = <<>> \o codes[i] /\ codes[i] \in Seq(Byte)
        <5>1. i - 1 = 0
          BY <3>1
        <5>q. QED
          BY <1>2, <1>7, <5>1
      <4>2. f[i] = codes[i]
        BY <4>1, NothingBefore, Zenon
      <4>q. QED
        BY <3>1, <4>2
    <3>2. CASE i # 1
      <4>1. i - 1 \in 1 .. N
        BY <1>1, <3>2
      <4>2. w[i - 1] = f[i - 1]
        BY <4>1
      <4> HIDE DEF w
      <4>q. QED
        BY <1>7, <3>2, <4>2
    <3>q. QED
      BY <3>1, <3>2
  <2>q. QED
    BY <2>1
<1>9. H = G(H)
  <2> HIDE DEF G, w
  <2>q. QED
    BY <1>8
<1> HIDE DEF H
<1>10. IsFlattening(H, t)
  <2> HIDE DEF codes
  <2>1. \A i \in 1 .. N : H[i] = IF i = 1 THEN codes[i] ELSE H[i - 1] \o codes[i]
    <3> HIDE DEF N
    <3>q. QED
      BY <1>9
  <2>2. 1 \in 1 .. N
    <3> HIDE DEF N
    <3>q. QED
      BY <1>1
  <2>3. \A i \in 1 .. N : codes[i] = Code(t[i])
    BY <1>2
  <2>4. H[1] = Code(t[1])
    BY <2>1, <2>2, <2>3
  <2>5. \A i \in 1 .. N : i # 1 => H[i] = H[i - 1] \o Code(t[i])
    BY <2>1, <2>3
  <2>q. QED
    BY <2>4, <2>5 DEF IsFlattening
<1>q. QED
  BY <1>4, <1>10

\* Nothing comes after a string.
LEMMA NothingAfter == \A s \in Seq(Byte) : s \o <<>> = s
OBVIOUS

\* All characters of a string, and none.
LEMMA WholeString == \A s \in Seq(Byte) : SubSeq(s, 1, Len(s)) = s /\ SubSeq(s, 1, 0) = <<>>
OBVIOUS

\* A string without characters is empty.
LEMMA NoCharacters == \A s \in Seq(Byte) : Len(s) = 0 => s = <<>>
OBVIOUS

\* After whole codes, what urlEncode wrote decodes to what it was given.
LEMMA UrlDecoded ==
    \A s, t, u \in Seq(Byte) : DecodedOf(s) = Whole(t) =>
        /\ urlEncode(u) \in Seq(Byte) /\ Len(urlEncode(u)) <= 3 * Len(u)
        /\ DecodedOf(s \o urlEncode(u)) = Whole(t \o u)
<1>0. SUFFICES ASSUME NEW s, NEW t, NEW u, s \in Seq(Byte), t \in Seq(Byte), u \in Seq(Byte),
                      DecodedOf(s) = Whole(t)
               PROVE  /\ urlEncode(u) \in Seq(Byte) /\ Len(urlEncode(u)) <= 3 * Len(u)
                      /\ DecodedOf(s \o urlEncode(u)) = Whole(t \o u)
  OBVIOUS
<1>1. CASE Len(u) = 0
  <2>1. u = <<>>
    BY <1>0, <1>1, NoCharacters, Zenon
  <2>2. urlEncode(u) = <<>>
    <3> DEFINE codes == [i \in 1 .. Len(u) |-> Code(u[i])]
    <3>1. codes = <<>>
      BY <1>1
    <3>2. Len(codes) = 0
      BY <3>1
    <3> HIDE DEF codes
    <3>q. QED
      BY <3>1, <3>2 DEF urlEncode, FlattenSeq, codes
  <2>3. s \o <<>> = s /\ t \o <<>> = t
    BY <1>0, NothingAfter
  <2>4. urlEncode(u) \in Seq(Byte) /\ Len(urlEncode(u)) <= 3 * Len(u)
    BY <1>1, <2>2
  <2>q. QED
    BY <1>0, <2>1, <2>2, <2>3, <2>4, Zenon
<1>2. CASE Len(u) # 0
  <2> DEFINE N == Len(u)
  <2>1. N \in Nat /\ N # 0
    BY <1>0, <1>2
  <2>2. PICK h : IsFlattening(h, u) /\ urlEncode(u) = h[N]
    BY <1>0, <1>2, CodesInOrder
  <2>3. /\ h[1] = Code(u[1])
        /\ \A i \in 1 .. N : i # 1 => h[i] = h[i - 1] \o Code(u[i])
    BY <2>2 DEF IsFlattening
  <2>4. \A i \in 1 .. N : u[i] \in Byte
    BY <1>0
  <2> DEFINE S == {i \in 1 .. N : /\ h[i] \in Seq(Byte) /\ Len(h[i]) <= 3 * i
                                  /\ DecodedOf(s \o h[i]) = Whole(t \o SubSeq(u, 1, i))}
  <2>5. 1 \in S
    <3> HIDE DEF N
    <3>1. 1 \in 1 .. N /\ u[1] \in Byte
      BY <2>1, <2>4
    <3>2. h[1] \in Seq(Byte) /\ Len(h[1]) <= 3 * 1
      BY <2>3, <3>1, CodeIs
    <3>3. SubSeq(u, 1, 1) = <<u[1]>>
      <4>1. 0 < Len(u) /\ 0 \in Nat /\ 0 + 1 = 1
        BY <2>1 DEF N
      <4>2. SubSeq(u, 1, 0 + 1) = SubSeq(u, 1, 0) \o <<u[0 + 1]>>
        BY <1>0, <4>1, OneLonger, Zenon
      <4>3. <<u[1]>> \in Seq(Byte)
        BY <3>1
      <4>q. QED
        BY <1>0, <4>1, <4>2, <4>3, WholeString, NothingBefore, Zenon
    <3>4. DecodedOf(s \o h[1]) = Whole(t \o <<u[1]>>)
      BY <1>0, <2>3, <3>1, CodeDecoded, ZenonT(60)
    <3>q. QED
      BY <3>1, <3>2, <3>3, <3>4
  <2>6. ASSUME NEW i \in 1 .. N - 1, i \in S PROVE i + 1 \in S
    <3> HIDE DEF N
    <3>1. /\ i + 1 \in 1 .. N /\ i + 1 # 1 /\ (i + 1) - 1 = i /\ i \in Nat /\ i < Len(u)
          /\ i \in 1 .. N
      BY <2>1 DEF N
    <3> DEFINE c == u[i + 1]
               p == SubSeq(u, 1, i)
               C == Code(c)
               a == h[i]
               b == h[i + 1]
    <3>2. /\ a \in Seq(Byte) /\ Len(a) <= 3 * i
          /\ DecodedOf(s \o a) = Whole(t \o p)
      BY <2>6
    <3>3. b = a \o C
      BY <2>3, <3>1
    <3>4. c \in Byte /\ p \in Seq(Byte) /\ SubSeq(u, 1, i + 1) = p \o <<c>>
      BY <1>0, <3>1, OneLonger, Zenon
    <3> HIDE DEF c, p
    <3>5. C \in Seq(Byte) /\ Len(C) <= 3 /\ <<c>> \in Seq(Byte)
      BY <3>4, CodeIs
    <3>6. s \o a \in Seq(Byte) /\ t \o p \in Seq(Byte)
      BY <1>0, <3>2, <3>4, Concatenation, Zenon
    <3>7. DecodedOf((s \o a) \o C) = Whole((t \o p) \o <<c>>)
      BY <3>2, <3>4, <3>6, CodeDecoded, Zenon
    <3> DEFINE e == <<c>>
    <3> HIDE DEF a, b, C, e
    <3>8. (s \o a) \o C = s \o (a \o C) /\ (t \o p) \o e = t \o (p \o e)
      <4>1. e \in Seq(Byte)
        BY <3>5 DEF e
      <4>2. (s \o a) \o C = s \o (a \o C)
        BY <1>0, <3>2, <3>5, Associative, SMTT(60)
      <4>3. (t \o p) \o e = t \o (p \o e)
        <5>1. t \in Seq(Byte) /\ p \in Seq(Byte)
          BY <1>0, <3>4
        <5>q. QED
          BY <4>1, <5>1, Associative, SMTT(60)
      <4>q. QED
        BY <4>2, <4>3, Zenon
    <3>9. DecodedOf(s \o b) = Whole(t \o SubSeq(u, 1, i + 1))
      BY <3>3, <3>4, <3>7, <3>8, Zenon DEF e
    <3>10. b \in Seq(Byte) /\ Len(b) <= 3 * (i + 1)
      <4>1. a \o C \in Seq(Byte) /\ Len(a \o C) = Len(a) + Len(C) /\ Len(a) \in Nat /\ Len(C) \in Nat
        BY <3>2, <3>5, Concatenation, Zenon
      <4>2. b \in Seq(Byte) /\ Len(b) = Len(a) + Len(C)
        BY <3>3, <4>1, Zenon
      <4>q. QED
        BY <3>1, <3>2, <3>5, <4>1, <4>2
    <3>q. QED
      BY <3>1, <3>9, <3>10 DEF b
  <2>7. N \in S
    <3>1. 1 .. N \subseteq S
      <4> HIDE DEF S, N
      <4>q. QED
        BY <2>1, <2>5, <2>6, Induct
    <3> HIDE DEF S
    <3>2. N \in 1 .. N
      <4> HIDE DEF N
      <4>q. QED
        BY <2>1
    <3>q. QED
      BY <3>1, <3>2
  <2>8. SubSeq(u, 1, N) = u
    BY <1>0, WholeString
  <2>q. QED
    BY <2>2, <2>7, <2>8
<1>q. QED
  BY <1>1, <1>2

\* Characters without a percent sign are decoded to themselves.
LEMMA PlainDecoded ==
    \A s, t, u \in Seq(Byte) :
        DecodedOf(s) = Whole(t) /\ (\A i \in 1 .. Len(u) : u[i] # 37) => DecodedOf(s \o u) = Whole(t \o u)
<1>0. SUFFICES ASSUME NEW s, NEW t, NEW u, s \in Seq(Byte), t \in Seq(Byte), u \in Seq(Byte),
                      DecodedOf(s) = Whole(t), \A i \in 1 .. Len(u) : u[i] # 37
               PROVE  DecodedOf(s \o u) = Whole(t \o u)
  OBVIOUS
<1> DEFINE N == Len(u)
           S == {i \in 0 .. N : DecodedOf(s \o SubSeq(u, 1, i)) = Whole(t \o SubSeq(u, 1, i))}
<1>1. N \in Nat
  BY <1>0
<1>2. 0 \in S
  <2>1. SubSeq(u, 1, 0) = <<>> /\ s \o <<>> = s /\ t \o <<>> = t
    BY <1>0, WholeString, NothingAfter, Zenon
  <2>2. 0 \in 0 .. N
    <3> HIDE DEF N
    <3>q. QED
      BY <1>1
  <2> HIDE DEF N
  <2>q. QED
    BY <1>0, <2>1, <2>2
<1>3. ASSUME NEW i \in 0 .. N - 1, i \in S PROVE i + 1 \in S
  <2>1. i + 1 \in 1 .. N /\ i + 1 \in 0 .. N /\ i \in Nat /\ i < Len(u)
    <3> HIDE DEF N
    <3>q. QED
      BY <1>1 DEF N
  <2> DEFINE c == u[i + 1]
             p == SubSeq(u, 1, i)
             e == <<c>>
  <2>2. DecodedOf(s \o p) = Whole(t \o p)
    BY <1>3
  <2>3. c \in Byte /\ p \in Seq(Byte) /\ SubSeq(u, 1, i + 1) = p \o e
    BY <1>0, <2>1, OneLonger, Zenon
  <2>4. c # 37
    BY <1>0, <2>1
  <2> HIDE DEF c, p
  <2>5. s \o p \in Seq(Byte) /\ t \o p \in Seq(Byte)
    BY <1>0, <2>3, Concatenation, Zenon
  <2>6. DecodedOf((s \o p) \o e) = Whole((t \o p) \o e)
    <3>1. DecodedOf((s \o p) \o e) = Decoded(Whole(t \o p), c)
      BY <2>2, <2>3, <2>5, OneMore, Zenon
    <3> DEFINE T == t \o p
    <3> HIDE DEF T
    <3>2. Decoded(Whole(T), c) = Whole(T \o <<c>>)
      BY <2>4 DEF Decoded, Whole
    <3>q. QED
      BY <3>1, <3>2 DEF T
  <2>7. e \in Seq(Byte)
    BY <2>3
  <2> HIDE DEF e
  <2>8. (s \o p) \o e = s \o (p \o e) /\ (t \o p) \o e = t \o (p \o e)
    <3>1. (s \o p) \o e = s \o (p \o e)
      <4>1. s \in Seq(Byte) /\ p \in Seq(Byte)
        BY <1>0, <2>3
      <4>q. QED
        BY <2>7, <4>1, Associative
    <3>2. (t \o p) \o e = t \o (p \o e)
      <4>1. t \in Seq(Byte) /\ p \in Seq(Byte)
        BY <1>0, <2>3
      <4>q. QED
        BY <2>7, <4>1, Associative
    <3>q. QED
      BY <3>1, <3>2, Zenon
  <2>9. DecodedOf(s \o SubSeq(u, 1, i + 1)) = Whole(t \o SubSeq(u, 1, i + 1))
    BY <2>3, <2>6, <2>8, Zenon
  <2> HIDE DEF N
  <2>q. QED
    BY <2>1, <2>9
<1>4. N \in S
  <2>1. 0 .. N \subseteq S
    <3> HIDE DEF S, N
    <3>q. QED
      BY <1>1, <1>2, <1>3, Induct
  <2>2. N \in 0 .. N
    <3> HIDE DEF N
    <3>q. QED
      BY <1>1
  <2> HIDE DEF S, N
  <2>q. QED
    BY <2>1, <2>2
<1>5. SubSeq(u, 1, N) = u
  BY <1>0, WholeString
<1>q. QED
  BY <1>4, <1>5

-----------------------------------------------------------------------------
(* The fields of a string.                                                 *)

\* One, two and three numbers.
LEMMA SmallSets ==
    \A a, b, c \in Nat : a < b /\ b < c =>
        Cardinality({a}) = 1 /\ Cardinality({a, b}) = 2 /\ Cardinality({a, b, c}) = 3
<1> SUFFICES ASSUME NEW a \in Nat, NEW b \in Nat, NEW c \in Nat, a < b, b < c
             PROVE  Cardinality({a}) = 1 /\ Cardinality({a, b}) = 2 /\ Cardinality({a, b, c}) = 3
  OBVIOUS
<1>1. IsFiniteSet({a}) /\ Cardinality({a}) = 1
  BY FS_Singleton, Zenon
<1>2. {a, b} = {a} \union {b} /\ b \notin {a}
  OBVIOUS
<1>3. IsFiniteSet({a, b}) /\ Cardinality({a, b}) = 1 + 1
  BY <1>1, <1>2, FS_AddElement, Zenon
<1>4. {a, b, c} = {a, b} \union {c} /\ c \notin {a, b}
  OBVIOUS
<1>5. Cardinality({a, b, c}) = (1 + 1) + 1
  BY <1>3, <1>4, FS_AddElement, ZenonT(60)
<1>q. QED
  BY <1>1, <1>3, <1>5

\* Where the ends of a string with two fields are.
LEMMA TwoEnds ==
    \A s, sep : \A a, b \in Nat : a < b /\ FieldEnds(s, sep) = {a, b} =>
        /\ Cardinality(FieldEnds(s, sep)) = 2
        /\ NthEnd(s, sep, 1) = a /\ NthEnd(s, sep, 2) = b
<1>0. SUFFICES ASSUME NEW s, NEW sep, NEW a \in Nat, NEW b \in Nat,
                      a < b, FieldEnds(s, sep) = {a, b}
               PROVE  /\ Cardinality(FieldEnds(s, sep)) = 2
                      /\ NthEnd(s, sep, 1) = a /\ NthEnd(s, sep, 2) = b
  OBVIOUS
<1> DEFINE E == FieldEnds(s, sep)
           B(i) == {j \in E : j <= i}
<1>1. B(a) = {a} /\ B(b) = {a, b}
  BY <1>0
<1>2. Cardinality({a}) = 1 /\ Cardinality({a, b}) = 2
  <2>1. b + 1 \in Nat /\ b < b + 1
    OBVIOUS
  <2>q. QED
    BY <1>0, <2>1, SmallSets
<1>3. \A n : NthEnd(s, sep, n) = CHOOSE i \in E : Cardinality(B(i)) = n
  BY DEF NthEnd
<1>4. E = {a, b}
  BY <1>0
<1> HIDE DEF E, B
<1>5. (CHOOSE i \in E : Cardinality(B(i)) = 1) = a
  BY <1>1, <1>2, <1>4
<1>6. (CHOOSE i \in E : Cardinality(B(i)) = 2) = b
  BY <1>1, <1>2, <1>4
<1>q. QED
  BY <1>2, <1>3, <1>4, <1>5, <1>6 DEF E

\* Where the ends of a string with three fields are.
LEMMA ThreeEnds ==
    \A s, sep : \A a, b, c \in Nat : a < b /\ b < c /\ FieldEnds(s, sep) = {a, b, c} =>
        /\ Cardinality(FieldEnds(s, sep)) = 3
        /\ NthEnd(s, sep, 1) = a /\ NthEnd(s, sep, 2) = b /\ NthEnd(s, sep, 3) = c
<1>0. SUFFICES ASSUME NEW s, NEW sep, NEW a \in Nat, NEW b \in Nat, NEW c \in Nat,
                      a < b, b < c, FieldEnds(s, sep) = {a, b, c}
               PROVE  /\ Cardinality(FieldEnds(s, sep)) = 3
                      /\ NthEnd(s, sep, 1) = a /\ NthEnd(s, sep, 2) = b /\ NthEnd(s, sep, 3) = c
  OBVIOUS
<1> DEFINE E == FieldEnds(s, sep)
           B(i) == {j \in E : j <= i}
<1>1. B(a) = {a} /\ B(b) = {a, b} /\ B(c) = {a, b, c}
  BY <1>0
<1>2. Cardinality({a}) = 1 /\ Cardinality({a, b}) = 2 /\ Cardinality({a, b, c}) = 3
  BY <1>0, SmallSets
<1>3. \A n : NthEnd(s, sep, n) = CHOOSE i \in E : Cardinality(B(i)) = n
  BY DEF NthEnd
<1>4. E = {a, b, c}
  BY <1>0
<1> HIDE DEF E, B
<1>5. (CHOOSE i \in E : Cardinality(B(i)) = 1) = a
  BY <1>1, <1>2, <1>4
<1>6. (CHOOSE i \in E : Cardinality(B(i)) = 2) = b
  BY <1>1, <1>2, <1>4
<1>7. (CHOOSE i \in E : Cardinality(B(i)) = 3) = c
  BY <1>1, <1>2, <1>4
<1>q. QED
  BY <1>2, <1>3, <1>4, <1>5, <1>6, <1>7 DEF E

\* Two strings with a separator between them.
LEMMA Joined ==
    \A u, v \in Seq(Byte) : \A c \in Byte :
        LET s == u \o <<c>> \o v
        IN  /\ s \in Seq(Byte) /\ Len(s) = Len(u) + 1 + Len(v)
            /\ Len(u) \in Nat /\ Len(v) \in Nat
            /\ \A i \in 1 .. Len(u) : s[i] = u[i]
            /\ s[Len(u) + 1] = c
            /\ \A i \in 1 .. Len(v) : s[Len(u) + 1 + i] = v[i]
<1>0. SUFFICES ASSUME NEW u, NEW v, u \in Seq(Byte), v \in Seq(Byte), NEW c, c \in Byte
      PROVE
        LET s == u \o <<c>> \o v
        IN  /\ s \in Seq(Byte) /\ Len(s) = Len(u) + 1 + Len(v)
            /\ Len(u) \in Nat /\ Len(v) \in Nat
            /\ \A i \in 1 .. Len(u) : s[i] = u[i]
            /\ s[Len(u) + 1] = c
            /\ \A i \in 1 .. Len(v) : s[Len(u) + 1 + i] = v[i]
  OBVIOUS
<1> DEFINE e == <<c>>
           r == u \o e
           s == r \o v
<1>1. e \in Seq(Byte) /\ Len(e) = 1 /\ e[1] = c
  BY <1>0
<1> HIDE DEF e
<1>2. /\ r \in Seq(Byte) /\ Len(r) = Len(u) + Len(e) /\ Len(u) \in Nat
      /\ \A i \in 1 .. Len(u) : r[i] = u[i]
      /\ \A i \in 1 .. Len(e) : r[Len(u) + i] = e[i]
  BY <1>0, <1>1, Concatenation
<1> HIDE DEF r
<1>3. /\ s \in Seq(Byte) /\ Len(s) = Len(r) + Len(v) /\ Len(v) \in Nat
      /\ \A i \in 1 .. Len(r) : s[i] = r[i]
      /\ \A i \in 1 .. Len(v) : s[Len(r) + i] = v[i]
  BY <1>0, <1>2, Concatenation
<1> HIDE DEF s
<1>4. Len(r) = Len(u) + 1
  BY <1>1, <1>2
<1>5. r[Len(u) + 1] = c
  <2>1. 1 \in 1 .. Len(e)
    BY <1>1
  <2>q. QED
    BY <1>1, <1>2, <2>1
<1>6. \A i \in 1 .. Len(u) : s[i] = u[i]
  <2>1. \A i \in 1 .. Len(u) : i \in 1 .. Len(r)
    BY <1>2, <1>4
  <2>q. QED
    BY <1>2, <1>3, <2>1
<1>7. s[Len(u) + 1] = c
  <2>1. Len(u) + 1 \in 1 .. Len(r)
    BY <1>2, <1>4
  <2>q. QED
    BY <1>3, <1>5, <2>1
<1>8. Len(s) = Len(u) + 1 + Len(v) /\ \A i \in 1 .. Len(v) : s[Len(u) + 1 + i] = v[i]
  BY <1>3, <1>4
<1>q. QED
  BY <1>2, <1>3, <1>6, <1>7, <1>8 DEF s, r, e

\* A substring is known by its characters.
LEMMA SubstringIs ==
    \A s, v \in Seq(Byte) : \A a, b \in Nat :
        /\ a <= b /\ b <= Len(s) /\ Len(v) = b - a
        /\ \A i \in 1 .. Len(v) : s[a + i] = v[i]
        => SubSeq(s, a + 1, b) = v
<1>0. SUFFICES ASSUME NEW s, NEW v, s \in Seq(Byte), v \in Seq(Byte), NEW a \in Nat, NEW b \in Nat,
                      a <= b, b <= Len(s), Len(v) = b - a,
                      \A i \in 1 .. Len(v) : s[a + i] = v[i]
               PROVE  SubSeq(s, a + 1, b) = v
  OBVIOUS
<1> DEFINE t == SubSeq(s, a + 1, b)
<1>1. /\ t \in Seq(Byte) /\ Len(t) = b - a
      /\ \A i \in 1 .. b - a : t[i] = s[a + i]
  BY <1>0, Substring
<1> HIDE DEF t
<1>2. Len(t) = Len(v) /\ \A i \in 1 .. Len(t) : t[i] = v[i]
  BY <1>0, <1>1
<1>3. t = v
  BY <1>0, <1>1, <1>2, SameBytes
<1>q. QED
  BY <1>3 DEF t

\* The value after the first separator: a last separator belongs to it, two
\* are lost.
LEMMA ValueOf ==
    \A u, v \in Seq(Byte) : \A c \in Byte :
        /\ Len(v) > 0
        /\ \A i \in 1 .. Len(u) : u[i] # c
        /\ \A i \in 1 .. Len(v) - 1 : v[i] # c
        => splitStringByIndex(u \o <<c>> \o v, c, 1) = v
<1>0. SUFFICES ASSUME NEW u, NEW v, u \in Seq(Byte), v \in Seq(Byte), NEW c, c \in Byte,
                      Len(v) > 0, \A i \in 1 .. Len(u) : u[i] # c,
                      \A i \in 1 .. Len(v) - 1 : v[i] # c
               PROVE  splitStringByIndex(u \o <<c>> \o v, c, 1) = v
  OBVIOUS
<1> DEFINE s == u \o <<c>> \o v
           a == Len(u) + 1
           b == Len(s)
<1>1. /\ s \in Seq(Byte) /\ Len(s) = Len(u) + 1 + Len(v)
      /\ Len(u) \in Nat /\ Len(v) \in Nat
      /\ \A i \in 1 .. Len(u) : s[i] = u[i]
      /\ s[Len(u) + 1] = c
      /\ \A i \in 1 .. Len(v) : s[Len(u) + 1 + i] = v[i]
  BY <1>0, Joined
<1> HIDE DEF s
<1>n. Len(s) = Len(u) + 1 + Len(v) /\ Len(u) \in Nat /\ Len(v) \in Nat
  BY <1>1
<1>2. a \in Nat /\ b \in Nat /\ a < b
  BY <1>0, <1>1
<1>3. FieldEnds(s, c) = {a, b}
  <2>1. a \in FieldEnds(s, c) /\ b \in FieldEnds(s, c)
    <3>1. a \in 1 .. Len(s) /\ b \in 1 .. Len(s)
      BY <1>1, <1>2
    <3>q. QED
      BY <1>1, <3>1 DEF FieldEnds
  <2>2. ASSUME NEW i \in 1 .. Len(s), s[i] = c, i # a, i # b PROVE FALSE
    <3>1. CASE i <= Len(u)
      <4>1. i \in 1 .. Len(u)
        BY <1>1, <3>1
      <4>q. QED
        BY <1>0, <1>1, <2>2, <4>1
    <3>2. CASE i > Len(u)
      <4> DEFINE j == i - (Len(u) + 1)
      <4>1. j \in 1 .. Len(v) - 1 /\ j \in 1 .. Len(v) /\ i = Len(u) + 1 + j
        BY <1>n, <2>2, <3>2
      <4> HIDE DEF j
      <4>2. s[i] = v[j]
        BY <1>1, <4>1
      <4>3. v[j] # c
        BY <1>0, <4>1
      <4>q. QED
        BY <2>2, <4>2, <4>3
    <3>q. QED
      BY <1>n, <3>1, <3>2
  <2>q. QED
    BY <2>1, <2>2 DEF FieldEnds
<1>4. /\ Cardinality(FieldEnds(s, c)) = 2
      /\ NthEnd(s, c, 1) = a /\ NthEnd(s, c, 2) = b
  <2> HIDE DEF a, b
  <2>q. QED
    BY <1>2, <1>3, TwoEnds
<1>5. splitStringByIndex(s, c, 1) = SubSeq(s, a + 1, b)
  BY <1>4 DEF splitStringByIndex
<1>6. SubSeq(s, a + 1, b) = v
  BY <1>0, <1>1, <1>2, SubstringIs
<1>q. QED
  BY <1>5, <1>6 DEF s

\* The separator before a last one ends the value, and both are lost.
LEMMA ValueLosesTwo ==
    \A u, v \in Seq(Byte) : \A c \in Byte :
        /\ Len(v) > 1
        /\ \A i \in 1 .. Len(u) : u[i] # c
        /\ \A i \in 1 .. Len(v) - 2 : v[i] # c
        /\ v[Len(v) - 1] = c
        => splitStringByIndex(u \o <<c>> \o v, c, 1) = SubSeq(v, 1, Len(v) - 2)
<1>0. SUFFICES ASSUME NEW u, NEW v, u \in Seq(Byte), v \in Seq(Byte), NEW c, c \in Byte,
                      Len(v) > 1, \A i \in 1 .. Len(u) : u[i] # c,
                      \A i \in 1 .. Len(v) - 2 : v[i] # c, v[Len(v) - 1] = c
               PROVE  splitStringByIndex(u \o <<c>> \o v, c, 1) = SubSeq(v, 1, Len(v) - 2)
  OBVIOUS
<1> DEFINE s == u \o <<c>> \o v
           a == Len(u) + 1
           b == Len(s) - 1
           l == Len(s)
           w == SubSeq(v, 1, Len(v) - 2)
<1>1. /\ s \in Seq(Byte) /\ Len(s) = Len(u) + 1 + Len(v)
      /\ Len(u) \in Nat /\ Len(v) \in Nat
      /\ \A i \in 1 .. Len(u) : s[i] = u[i]
      /\ s[Len(u) + 1] = c
      /\ \A i \in 1 .. Len(v) : s[Len(u) + 1 + i] = v[i]
  BY <1>0, Joined
<1> HIDE DEF s
<1>n. Len(s) = Len(u) + 1 + Len(v) /\ Len(u) \in Nat /\ Len(v) \in Nat
  BY <1>1
<1>2. a \in Nat /\ b \in Nat /\ l \in Nat /\ a < b /\ b < l
  BY <1>0, <1>1
<1>3. FieldEnds(s, c) = {a, b, l}
  <2>1. a \in FieldEnds(s, c) /\ b \in FieldEnds(s, c) /\ l \in FieldEnds(s, c)
    <3>1. a \in 1 .. Len(s) /\ b \in 1 .. Len(s) /\ l \in 1 .. Len(s)
      BY <1>1, <1>2
    <3>2. s[b] = c
      <4>1. Len(v) - 1 \in 1 .. Len(v) /\ b = Len(u) + 1 + (Len(v) - 1)
        BY <1>0, <1>1
      <4>q. QED
        BY <1>0, <1>1, <4>1
    <3>q. QED
      BY <1>1, <3>1, <3>2 DEF FieldEnds
  <2>2. ASSUME NEW i \in 1 .. Len(s), s[i] = c, i # a, i # b, i # l PROVE FALSE
    <3>1. CASE i <= Len(u)
      <4>1. i \in 1 .. Len(u)
        BY <1>1, <3>1
      <4>q. QED
        BY <1>0, <1>1, <2>2, <4>1
    <3>2. CASE i > Len(u)
      <4> DEFINE j == i - (Len(u) + 1)
      <4>1. j \in 1 .. Len(v) - 2 /\ j \in 1 .. Len(v) /\ i = Len(u) + 1 + j
        BY <1>n, <2>2, <3>2
      <4> HIDE DEF j
      <4>2. s[i] = v[j]
        BY <1>1, <4>1
      <4>3. v[j] # c
        BY <1>0, <4>1
      <4>q. QED
        BY <2>2, <4>2, <4>3
    <3>q. QED
      BY <1>n, <3>1, <3>2
  <2>q. QED
    BY <2>1, <2>2 DEF FieldEnds
<1>4. /\ Cardinality(FieldEnds(s, c)) = 3
      /\ NthEnd(s, c, 1) = a /\ NthEnd(s, c, 2) = b
  <2> HIDE DEF a, b, l
  <2>q. QED
    BY <1>2, <1>3, ThreeEnds
<1>5. splitStringByIndex(s, c, 1) = SubSeq(s, a + 1, b - 1)
  BY <1>2, <1>4 DEF splitStringByIndex
<1>6. w \in Seq(Byte) /\ Len(w) = Len(v) - 2 /\ \A i \in 1 .. Len(w) : w[i] = v[i]
  <2>1. \A p, q \in Nat : p <= q /\ q <= Len(v) =>
           /\ SubSeq(v, p + 1, q) \in Seq(Byte)
           /\ Len(SubSeq(v, p + 1, q)) = q - p
           /\ \A j \in 1 .. q - p : SubSeq(v, p + 1, q)[j] = v[p + j]
    BY <1>0, Substring
  <2> DEFINE q == Len(v) - 2
  <2>2. /\ 0 \in Nat /\ 0 + 1 = 1 /\ q \in Nat /\ 0 <= q /\ q <= Len(v) /\ q - 0 = q
        /\ \A j \in 1 .. q : 0 + j = j
    BY <1>0, <1>1
  <2> HIDE DEF q
  <2>3. /\ SubSeq(v, 1, q) \in Seq(Byte)
        /\ Len(SubSeq(v, 1, q)) = q
        /\ \A j \in 1 .. q : SubSeq(v, 1, q)[j] = v[j]
    BY <2>1, <2>2
  <2>q. QED
    BY <2>3 DEF q
<1> HIDE DEF w
<1>7. SubSeq(s, a + 1, b - 1) = w
  <2>1. b - 1 \in Nat /\ a <= b - 1 /\ b - 1 <= Len(s) /\ Len(w) = (b - 1) - a
    BY <1>1, <1>2, <1>6
  <2>2. \A i \in 1 .. Len(w) : s[a + i] = w[i]
    <3>1. \A i \in 1 .. Len(w) : i \in 1 .. Len(v)
      BY <1>0, <1>1, <1>6
    <3>q. QED
      BY <1>1, <1>6, <3>1
  <2> HIDE DEF a, b
  <2>q. QED
    BY <1>1, <1>2, <1>6, <2>1, <2>2, SubstringIs
<1>q. QED
  BY <1>5, <1>7 DEF s, w

\* splitStringByIndex finds each of three fields.
LEMMA ThreeFields ==
    ASSUME NEW u, NEW v, NEW w, u \in Seq(Byte), v \in Seq(Byte), w \in Seq(Byte),
           NEW c, c \in Byte, Len(w) > 0,
           \A i \in 1 .. Len(u) : u[i] # c,
           \A i \in 1 .. Len(v) : v[i] # c,
           \A i \in 1 .. Len(w) : w[i] # c
    PROVE  LET s == u \o <<c>> \o v \o <<c>> \o w
           IN  /\ splitStringByIndex(s, c, 0) = u
               /\ splitStringByIndex(s, c, 1) = v
               /\ splitStringByIndex(s, c, 2) = w
<1>0. /\ u \in Seq(Byte) /\ v \in Seq(Byte) /\ w \in Seq(Byte) /\ c \in Byte /\ Len(w) > 0
      /\ \A i \in 1 .. Len(u) : u[i] # c
      /\ \A i \in 1 .. Len(v) : v[i] # c
      /\ \A i \in 1 .. Len(w) : w[i] # c
  OBVIOUS
<1> DEFINE r == u \o <<c>> \o v
           s == r \o <<c>> \o w
           x == Len(u)
           y == Len(v)
           z == Len(w)
           a == x + 1
           b == x + y + 2
           l == x + y + z + 2
<1>1. /\ r \in Seq(Byte) /\ Len(r) = x + 1 + y
      /\ x \in Nat /\ y \in Nat
      /\ \A i \in 1 .. x : r[i] = u[i]
      /\ r[x + 1] = c
      /\ \A i \in 1 .. y : r[x + 1 + i] = v[i]
  BY <1>0, Joined
<1> HIDE DEF r
<1>2. /\ s \in Seq(Byte) /\ Len(s) = Len(r) + 1 + z /\ z \in Nat
      /\ \A i \in 1 .. Len(r) : s[i] = r[i]
      /\ s[Len(r) + 1] = c
      /\ \A i \in 1 .. z : s[Len(r) + 1 + i] = w[i]
  <2>1. r \in Seq(Byte) /\ w \in Seq(Byte) /\ c \in Byte
    BY <1>0, <1>1
  <2>q. QED
    BY <2>1, Joined
<1> HIDE DEF s
<1>z. z > 0
  BY <1>0
<1>n. x \in Nat /\ y \in Nat /\ z \in Nat
  BY <1>1, <1>2
<1> HIDE DEF x, y, z
<1>3. /\ \A i \in 1 .. x : s[i] = u[i]
      /\ s[a] = c
      /\ \A i \in 1 .. y : s[a + i] = v[i]
      /\ s[b] = c
      /\ \A i \in 1 .. z : s[b + i] = w[i]
      /\ Len(s) = l
  <2>1. ASSUME NEW i \in 1 .. x PROVE s[i] = u[i]
    <3>1. i \in 1 .. Len(r)
      BY <1>1
    <3>q. QED
      BY <1>1, <1>2, <3>1
  <2>2. s[a] = c
    <3>1. x + 1 \in 1 .. Len(r)
      BY <1>1
    <3>q. QED
      BY <1>1, <1>2, <3>1
  <2>3. ASSUME NEW i \in 1 .. y PROVE s[a + i] = v[i]
    <3>1. x + 1 + i \in 1 .. Len(r)
      BY <1>1
    <3>q. QED
      BY <1>1, <1>2, <3>1
  <2>4. Len(r) + 1 = b /\ Len(r) + 1 + z = l
    BY <1>1, <1>2
  <2>q. QED
    BY <1>2, <2>1, <2>2, <2>3, <2>4
<1>4. /\ a \in Nat /\ b \in Nat /\ l \in Nat /\ a < b /\ b < l
      /\ 0 \in Nat /\ 0 + 1 = 1 /\ a - 1 = x /\ b - 1 \in Nat /\ b - 1 = a + y /\ l = b + z
  BY <1>1, <1>2, <1>z
<1>5. FieldEnds(s, c) = {a, b, l}
  <2>1. a \in FieldEnds(s, c) /\ b \in FieldEnds(s, c) /\ l \in FieldEnds(s, c)
    <3>1. a \in 1 .. Len(s) /\ b \in 1 .. Len(s) /\ l \in 1 .. Len(s)
      BY <1>1, <1>2, <1>3, <1>4
    <3>q. QED
      BY <1>3, <3>1 DEF FieldEnds
  <2>2. ASSUME NEW i \in 1 .. Len(s), s[i] = c, i # a, i # b, i # l PROVE FALSE
    <3>n. i \in Nat /\ i >= 1 /\ i <= l
      BY <1>3
    <3>1. CASE i <= x
      <4>1. i \in 1 .. x
        BY <1>1, <3>1
      <4>q. QED
        BY <1>0, <1>3, <2>2, <4>1 DEF x
    <3>2. CASE i > a /\ i < b
      <4> DEFINE j == i - a
      <4>1. j \in 1 .. y /\ i = a + j
        BY <1>n, <3>n, <3>2
      <4> HIDE DEF j, a
      <4>2. s[i] = v[j]
        BY <1>3, <4>1
      <4>3. v[j] # c
        BY <1>0, <4>1 DEF y
      <4>q. QED
        BY <2>2, <4>2, <4>3
    <3>3. CASE i > b
      <4> DEFINE j == i - b
      <4>1. j \in 1 .. z /\ i = b + j
        BY <1>n, <3>n, <3>3
      <4> HIDE DEF j, b
      <4>2. s[i] = w[j]
        BY <1>3, <4>1
      <4>3. w[j] # c
        BY <1>0, <4>1 DEF z
      <4>q. QED
        BY <2>2, <4>2, <4>3
    <3>q. QED
      BY <1>n, <2>2, <3>n, <3>1, <3>2, <3>3
  <2>q. QED
    BY <1>3, <2>1, <2>2 DEF FieldEnds
<1>6. /\ Cardinality(FieldEnds(s, c)) = 3
      /\ NthEnd(s, c, 1) = a /\ NthEnd(s, c, 2) = b /\ NthEnd(s, c, 3) = l
  <2>1. a \in Nat /\ b \in Nat /\ l \in Nat /\ a < b /\ b < l
    BY <1>4
  <2> HIDE DEF a, b, l
  <2>q. QED
    BY <1>5, <2>1, ThreeEnds, Zenon
<1>7. splitStringByIndex(s, c, 0) = u
  <2>1. splitStringByIndex(s, c, 0) = SubSeq(s, 1, a - 1)
    <3>1. splitStringByIndex(s, c, 0)
            = IF 0 < Cardinality(FieldEnds(s, c))
              THEN SubSeq(s, 1, IF NthEnd(s, c, 0 + 1) = Len(s) THEN NthEnd(s, c, 0 + 1)
                                ELSE NthEnd(s, c, 0 + 1) - 1)
              ELSE <<>>
      BY DEF splitStringByIndex
    <3>2. a # Len(s)
      BY <1>3, <1>4
    <3> HIDE DEF a
    <3>q. QED
      BY <1>4, <1>6, <3>1, <3>2
  <2>2. SubSeq(s, 0 + 1, x) = u
    <3>1. x \in Nat /\ 0 <= x /\ x <= Len(s) /\ Len(u) = x - 0
      BY <1>1, <1>2, <1>3 DEF x
    <3>2. \A i \in 1 .. Len(u) : s[0 + i] = u[i]
      <4>1. \A i \in 1 .. Len(u) : 0 + i = i
        OBVIOUS
      <4>q. QED
        BY <1>3, <4>1 DEF x
    <3>q. QED
      BY <1>0, <1>2, <1>4, <3>1, <3>2, SubstringIs
  <2> HIDE DEF a
  <2>q. QED
    BY <1>4, <2>1, <2>2
<1>8. splitStringByIndex(s, c, 1) = v
  <2>1. splitStringByIndex(s, c, 1) = SubSeq(s, a + 1, b - 1)
    <3>2. b # Len(s)
      BY <1>3, <1>4
    <3>1. splitStringByIndex(s, c, 1)
            = IF 1 < Cardinality(FieldEnds(s, c))
              THEN SubSeq(s, NthEnd(s, c, 1) + 1,
                          IF NthEnd(s, c, 1 + 1) = Len(s) THEN NthEnd(s, c, 1 + 1)
                          ELSE NthEnd(s, c, 1 + 1) - 1)
              ELSE <<>>
      BY DEF splitStringByIndex
    <3>3. 1 + 1 = 2 /\ 1 < 3
      OBVIOUS
    <3> HIDE DEF a, b
    <3>q. QED
      BY <1>6, <3>1, <3>2, <3>3
  <2>2. SubSeq(s, a + 1, b - 1) = v
    <3>1. a <= b - 1 /\ b - 1 <= Len(s) /\ Len(v) = (b - 1) - a
      BY <1>1, <1>2, <1>3 DEF y
    <3>2. \A i \in 1 .. Len(v) : s[a + i] = v[i]
      BY <1>3 DEF y
    <3> HIDE DEF a, b
    <3>q. QED
      BY <1>0, <1>2, <1>4, <3>1, <3>2, SubstringIs
  <2>q. QED
    BY <2>1, <2>2
<1>9. splitStringByIndex(s, c, 2) = w
  <2>1. splitStringByIndex(s, c, 2) = SubSeq(s, b + 1, l)
    <3>1. splitStringByIndex(s, c, 2)
            = IF 2 < Cardinality(FieldEnds(s, c))
              THEN SubSeq(s, NthEnd(s, c, 2) + 1,
                          IF NthEnd(s, c, 2 + 1) = Len(s) THEN NthEnd(s, c, 2 + 1)
                          ELSE NthEnd(s, c, 2 + 1) - 1)
              ELSE <<>>
      BY DEF splitStringByIndex
    <3>3. 2 + 1 = 3 /\ 2 < 3
      OBVIOUS
    <3>4. Len(s) = l
      BY <1>3
    <3> HIDE DEF a, b, l
    <3>q. QED
      BY <1>6, <3>1, <3>3, <3>4
  <2>2. SubSeq(s, b + 1, l) = w
    <3>1. b <= l /\ l <= Len(s) /\ Len(w) = l - b
      BY <1>1, <1>2, <1>3 DEF z
    <3>2. \A i \in 1 .. Len(w) : s[b + i] = w[i]
      BY <1>3 DEF z
    <3> HIDE DEF b, l
    <3>q. QED
      BY <1>0, <1>2, <1>4, <3>1, <3>2, SubstringIs
  <2>q. QED
    BY <2>1, <2>2
<1>q. QED
  BY <1>7, <1>8, <1>9 DEF s, r

-----------------------------------------------------------------------------
\* The key as the configuration gives it, whole or without its two '=', is
\* decoded to the same bytes and to as many as expected.
LEMMA DecodesWithoutEquals ==
    \A s, f \in Seq(Byte) :
        f = SubSeq(EncodedText(s), 1, Digits(Len(s))) /\ EncodedLen(Len(s)) = Digits(Len(s)) + 2
        => DecodedBytes(f) = s /\ base64_dec_len(f) = Len(s)
<1>0. SUFFICES ASSUME NEW s, NEW f, s \in Seq(Byte), f \in Seq(Byte),
                      f = SubSeq(EncodedText(s), 1, Digits(Len(s))),
                      EncodedLen(Len(s)) = Digits(Len(s)) + 2
               PROVE  DecodedBytes(f) = s /\ base64_dec_len(f) = Len(s)
  OBVIOUS
<1> DEFINE e == EncodedText(s)
           n == Len(s)
           d == Digits(n)
<1>1. /\ e \in Seq(Byte) /\ Len(e) = EncodedLen(n)
      /\ \A k \in 1 .. Len(e) : e[k] = Equals <=> k > d
  BY <1>0, EncodedString
<1>2. n \in Nat /\ d \in Nat /\ d <= Len(e) /\ EncodedLen(n) \in Nat
  <2>1. n \in Nat
    BY <1>0
  <2>2. EncodedLen(n) \in Nat /\ Digits(n) \in 0 .. EncodedLen(n)
    BY <2>1, Sizes
  <2> HIDE DEF n, e
  <2>q. QED
    BY <1>1, <2>1, <2>2
<1>3. Len(f) = d /\ \A i \in 1 .. d : f[i] = e[i]
  <2> DEFINE g == e
  <2> HIDE DEF d, n, e
  <2>1. \A p, q \in Nat : p <= q /\ q <= Len(e) =>
           /\ SubSeq(e, p + 1, q) \in Seq(Byte)
           /\ Len(SubSeq(e, p + 1, q)) = q - p
           /\ \A j \in 1 .. q - p : SubSeq(e, p + 1, q)[j] = e[p + j]
    BY <1>1, Substring
  <2>2. /\ 0 \in Nat /\ 0 + 1 = 1 /\ 0 <= d /\ d - 0 = d
        /\ \A j \in 1 .. d : 0 + j = j
    BY <1>2
  <2>3. /\ Len(SubSeq(e, 1, d)) = d
        /\ \A j \in 1 .. d : SubSeq(e, 1, d)[j] = e[j]
    BY <1>2, <2>1, <2>2
  <2>q. QED
    BY <1>0, <2>3 DEF e, d, n
<1>4. \A i \in 1 .. d : f[i] # Equals
  <2> HIDE DEF d, e, n
  <2>q. QED
    BY <1>1, <1>2, <1>3
<1>5. DigitsOf(f) = d
  <2> HIDE DEF d, e, n
  <2>1. \A m \in 0 .. d : (\A i \in 1 .. m : f[i] # Equals) /\ (m < d => f[m + 1] = Equals) <=> m = d
    <3>1. ASSUME NEW m \in 0 .. d, m < d PROVE f[m + 1] # Equals
      <4>1. m + 1 \in 1 .. d
        BY <1>2, <3>1
      <4>q. QED
        BY <1>4, <4>1
    <3>q. QED
      BY <1>2, <1>4, <3>1
  <2>2. d \in 0 .. d
    BY <1>2
  <2>q. QED
    BY <1>3, <2>1, <2>2 DEF DigitsOf
<1>6. numEq(f) = 0
  <2> HIDE DEF d, e, n
  <2>1. \A m \in 0 .. d : (\A i \in d - m + 1 .. d : f[i] = Equals) /\ (m < d => f[d - m] # Equals) <=> m = 0
    <3>1. ASSUME NEW m \in 0 .. d, m # 0, \A i \in d - m + 1 .. d : f[i] = Equals PROVE FALSE
      <4>1. d \in d - m + 1 .. d /\ d \in 1 .. d
        BY <1>2, <3>1
      <4>q. QED
        BY <1>4, <3>1, <4>1
    <3>2. \A i \in d - 0 + 1 .. d : f[i] = Equals
      BY <1>2
    <3>3. 0 < d => f[d - 0] # Equals
      <4>1. 0 < d => d - 0 \in 1 .. d
        BY <1>2
      <4>q. QED
        BY <1>4, <4>1
    <3>q. QED
      BY <3>1, <3>2, <3>3
  <2>2. 0 \in 0 .. d
    BY <1>2
  <2>q. QED
    BY <1>3, <2>1, <2>2 DEF numEq
<1>7. base64_dec_len(f) = n
  <2>1. n \in Nat
    BY <1>2
  <2> HIDE DEF e, n
  <2>2. EncodedLen(n) = Digits(n) + 2 => (6 * Digits(n)) \div 8 = n
    <3> DEFINE q == n \div 3
    <3>1. q \in Nat /\ n % 3 \in 0 .. 2 /\ n = 3 * q + (n % 3)
      BY <2>1, SMTT(30)
    <3>2. CASE n % 3 = 0
      BY <3>1, <3>2, SMTT(30) DEF EncodedLen, Digits
    <3>3. CASE n % 3 = 1
      BY <3>1, <3>3, SMTT(30) DEF EncodedLen, Digits
    <3>4. CASE n % 3 = 2
      BY <3>1, <3>4, SMTT(30) DEF EncodedLen, Digits
    <3>q. QED
      BY <3>1, <3>2, <3>3, <3>4
  <2>3. base64_dec_len(f) = (6 * d) \div 8 - 0
    BY <1>3, <1>6 DEF base64_dec_len
  <2>4. (6 * d) \div 8 = n
    BY <1>0, <2>2 DEF n
  <2>q. QED
    BY <2>1, <2>3, <2>4
<1>8. DecodedBytes(f) = DecodedBytes(e)
  <2>1. DigitsOf(e) = d
    BY <1>0, FoundDigits
  <2>2. \A b \in Nat : DecodedBlock(f, d, b) = DecodedBlock(e, d, b)
    <3> HIDE DEF d, e, n
    <3>1. ASSUME NEW b \in Nat
          PROVE  [j \in 1 .. 4 |-> b64_lookup(IF 4 * b + j <= d THEN f[4 * b + j] ELSE 0)]
               = [j \in 1 .. 4 |-> b64_lookup(IF 4 * b + j <= d THEN e[4 * b + j] ELSE 0)]
      <4>1. ASSUME NEW j \in 1 .. 4
            PROVE  (IF 4 * b + j <= d THEN f[4 * b + j] ELSE 0)
                 = (IF 4 * b + j <= d THEN e[4 * b + j] ELSE 0)
        <5>1. 4 * b + j <= d => 4 * b + j \in 1 .. d
          BY <1>2
        <5>q. QED
          BY <1>3, <5>1
      <4>q. QED
        BY <4>1
    <3>q. QED
      BY <3>1 DEF DecodedBlock
  <2>3. \A t : DigitsOf(t) = d => DecodedBytes(t)
           = [k \in 1 .. DecodedLen(d) |-> DecodedBlock(t, d, (k - 1) \div 3)[((k - 1) % 3) + 1]]
    <3> HIDE DEF d, e, n
    <3>q. QED
      BY DEF DecodedBytes
  <2>4. \A k \in 1 .. DecodedLen(d) : (k - 1) \div 3 \in Nat
    <3> HIDE DEF d
    <3>1. DecodedLen(d) \in Nat
      BY <1>2, SMTT(30) DEF DecodedLen
    <3>q. QED
      BY <3>1
  <2> HIDE DEF d, e, n
  <2>q. QED
    BY <1>5, <2>1, <2>2, <2>3, <2>4
<1>9. DecodedBytes(e) = s
  BY <1>0, DecodeEncode
<1>q. QED
  BY <1>7, <1>8, <1>9

\* The value of the third field is the key in Base64, without its two '=' if it
\* ends with two, and it is decoded to the key either way.
LEMMA KeyField ==
    ASSUME NEW u, NEW s, u \in Seq(Byte), s \in Seq(Byte), Len(s) > 0,
           \A i \in 1 .. Len(u) : u[i] # Equals
    PROVE  LET e == EncodedText(s)
               f == splitStringByIndex(u \o <<Equals>> \o e, Equals, 1)
           IN  /\ f \in Seq(Byte)
               /\ DecodedBytes(f) = s /\ base64_dec_len(f) = Len(s)
               /\ EncodedLen(Len(s)) # Digits(Len(s)) + 2 => f = e
<1>0. /\ u \in Seq(Byte) /\ s \in Seq(Byte) /\ Len(s) > 0
      /\ \A i \in 1 .. Len(u) : u[i] # Equals
  OBVIOUS
<1> DEFINE e == EncodedText(s)
           n == Len(s)
           d == Digits(n)
           f == splitStringByIndex(u \o <<Equals>> \o e, Equals, 1)
<1>1. /\ e \in Seq(Byte) /\ Len(e) = EncodedLen(n)
      /\ \A k \in 1 .. Len(e) : e[k] = Equals <=> k > d
  BY <1>0, EncodedString
<1>2. n \in Nat /\ n > 0
  BY <1>0
<1>e. Equals \in Byte
  BY DEF Equals, Byte
<1>3. /\ d \in Nat /\ Len(e) \in Nat /\ Len(e) > 1
      /\ Len(e) = d \/ Len(e) = d + 1 \/ Len(e) = d + 2
  <2> HIDE DEF e, n
  <2>1. EncodedLen(n) \in Nat /\ Digits(n) \in Nat
    <3>1. EncodedLen(n) \in Nat /\ Digits(n) \in 0 .. EncodedLen(n)
      BY <1>2, Sizes
    <3>q. QED
      BY <3>1
  <2>2. /\ EncodedLen(n) > 1
        /\ EncodedLen(n) = d \/ EncodedLen(n) = d + 1 \/ EncodedLen(n) = d + 2
    <3> DEFINE q == n \div 3
    <3>1. q \in Nat /\ n % 3 \in 0 .. 2 /\ n = 3 * q + (n % 3)
      BY <1>2, SMTT(30)
    <3>2. CASE n % 3 = 0
      BY <1>2, <3>1, <3>2, SMTT(30) DEF EncodedLen, Digits
    <3>3. CASE n % 3 = 1
      BY <1>2, <3>1, <3>3, SMTT(30) DEF EncodedLen, Digits
    <3>4. CASE n % 3 = 2
      BY <1>2, <3>1, <3>4, SMTT(30) DEF EncodedLen, Digits
    <3>q. QED
      BY <3>1, <3>2, <3>3, <3>4
  <2> HIDE DEF d
  <2>q. QED
    BY <1>1, <2>1, <2>2 DEF d
<1> HIDE DEF d, n
<1>4. CASE Len(e) # d + 2
  <2>1. \A i \in 1 .. Len(e) - 1 : e[i] # Equals
    <3> HIDE DEF e
    <3>q. QED
      BY <1>1, <1>3, <1>4
  <2>2. f = e
    <3>1. Len(e) > 0
      BY <1>3
    <3> HIDE DEF e
    <3>q. QED
      BY <1>0, <1>1, <1>e, <2>1, <3>1, ValueOf DEF f
  <2>3. DecodedBytes(e) = s /\ base64_dec_len(e) = Len(s)
    BY <1>0, DecodeEncode, EncodedSizes
  <2> HIDE DEF f, e
  <2>q. QED
    BY <1>1, <2>2, <2>3, Zenon DEF f, e
<1>5. CASE Len(e) = d + 2
  <2>1. /\ \A i \in 1 .. Len(e) - 2 : e[i] # Equals
        /\ e[Len(e) - 1] = Equals
    <3> HIDE DEF e
    <3>1. Len(e) - 1 \in 1 .. Len(e) /\ Len(e) - 1 > d
      BY <1>3, <1>5
    <3>q. QED
      BY <1>1, <1>3, <1>5, <3>1
  <2>2. f = SubSeq(e, 1, Len(e) - 2)
    <3> HIDE DEF e
    <3>q. QED
      BY <1>0, <1>1, <1>3, <1>e, <2>1, ValueLosesTwo DEF f
  <2>3. Len(e) - 2 = d
    BY <1>3, <1>5
  <2>4. f = SubSeq(e, 1, d)
    BY <2>2, <2>3, Zenon
  <2>5. f \in Seq(Byte)
    <3>1. \A p, q \in Nat : p <= q /\ q <= Len(e) => SubSeq(e, p + 1, q) \in Seq(Byte)
      <4> HIDE DEF e
      <4>q. QED
        BY <1>1, Substring
    <3>2. 0 \in Nat /\ 0 + 1 = 1 /\ 0 <= d /\ d <= Len(e)
      <4> HIDE DEF e
      <4>q. QED
        BY <1>3, <1>5
    <3> HIDE DEF e, f
    <3>q. QED
      BY <1>3, <2>4, <3>1, <3>2
  <2>6. EncodedLen(n) = d + 2
    BY <1>1, <1>5, Zenon
  <2> HIDE DEF f
  <2>7. DecodedBytes(f) = s /\ base64_dec_len(f) = Len(s)
    BY <1>0, <2>4, <2>5, <2>6, DecodesWithoutEquals DEF d, n
  <2>8. EncodedLen(Len(s)) = Digits(Len(s)) + 2
    BY <2>6 DEF d, n
  <2>q. QED
    BY <2>5, <2>7, <2>8, Zenon DEF f
<1>q. QED
  BY <1>4, <1>5

-----------------------------------------------------------------------------
(* The connection string.                                                  *)

\* Characters are bytes.
LEMMA TextIsBytes == \A s \in Seq(Text) : s \in Seq(Byte) /\ Len(s) \in Nat
<1>0. SUFFICES ASSUME NEW s, s \in Seq(Text) PROVE s \in Seq(Byte) /\ Len(s) \in Nat
  OBVIOUS
<1>1. Len(s) \in Nat /\ s \in [1 .. Len(s) -> Text]
  BY <1>0
<1>2. Text \subseteq Byte
  BY DEF Text, Byte
<1>3. s \in [1 .. Len(s) -> Byte]
  BY <1>1, <1>2
<1>4. s \in Seq(Byte) /\ Len(s) = Len(s)
  BY <1>1, <1>3, FunctionIsString
<1>q. QED
  BY <1>1, <1>4

\* The strings of the sketch.
LEMMA SketchStrings ==
    \A s \in {TARGET_URL, EVENT_HUB_END_POINT, Scheme, sasExpiryDate, HostName, DeviceId, SharedAccessKey} :
        s \in Seq(Byte) /\ Len(s) \in Nat /\ Len(s) < MaxString
BY StringsAssumption, TextIsBytes, Zenon

\* The strings of a device.
LEMMA DeviceStrings ==
    \A d \in Devices :
        /\ d.host \in Seq(Byte) /\ Len(d.host) \in Nat /\ Len(d.host) > 0 /\ Len(d.host) < MaxString
        /\ d.id \in Seq(Byte) /\ Len(d.id) \in Nat /\ Len(d.id) > 0 /\ Len(d.id) < MaxString
        /\ d.key \in Seq(Byte) /\ Len(d.key) \in Nat /\ Len(d.key) > 0 /\ Len(d.key) < MaxString
<1>0. SUFFICES ASSUME NEW d, d \in Devices
      PROVE
        /\ d.host \in Seq(Byte) /\ Len(d.host) \in Nat /\ Len(d.host) > 0 /\ Len(d.host) < MaxString
        /\ d.id \in Seq(Byte) /\ Len(d.id) \in Nat /\ Len(d.id) > 0 /\ Len(d.id) < MaxString
        /\ d.key \in Seq(Byte) /\ Len(d.key) \in Nat /\ Len(d.key) > 0 /\ Len(d.key) < MaxString
  OBVIOUS
<1>1. /\ d.host \in Seq(Text) /\ Len(d.host) \in 1 .. MaxString - 1
      /\ d.id \in Seq(Text) /\ Len(d.id) \in 1 .. MaxString - 1
      /\ d.key \in Seq(Byte) /\ Len(d.key) \in 1 .. MaxString - 1
  BY <1>0, DevicesAssumption, Zenon
<1>2. \A n \in 1 .. MaxString - 1 : n \in Nat /\ n > 0 /\ n < MaxString
  <2>1. MaxString \in Nat
    BY SMT DEF MaxString
  <2>q. QED
    BY <2>1
<1>q. QED
  BY <1>1, <1>2, TextIsBytes, Zenon

\* No separator is in a name, a host or an identity.
LEMMA NoSeparators ==
    /\ \A s \in {HostName, DeviceId, SharedAccessKey} :
          \A i \in 1 .. Len(s) : s[i] # Equals /\ s[i] # Semicolon
    /\ \A d \in Devices : /\ \A i \in 1 .. Len(d.host) : d.host[i] # Equals /\ d.host[i] # Semicolon
                          /\ \A i \in 1 .. Len(d.id) : d.id[i] # Equals /\ d.id[i] # Semicolon
<1> DEFINE All == {HostName, DeviceId, SharedAccessKey}
                    \union {d.host : d \in Devices} \union {d.id : d \in Devices}
<1>1. \A s \in All : \A i \in 1 .. Len(s) : s[i] \notin {Equals, Semicolon}
  BY SeparatorsAssumption, Zenon
<1>2. \A s \in All : \A i \in 1 .. Len(s) : s[i] # Equals /\ s[i] # Semicolon
  BY <1>1, Zenon
<1>3. \A d \in Devices : d.host \in All /\ d.id \in All
  OBVIOUS
<1>4. \A s \in {HostName, DeviceId, SharedAccessKey} : s \in All
  OBVIOUS
<1> HIDE DEF All
<1>q. QED
  BY <1>2, <1>3, <1>4, Zenon

\* createIotHubSas sizes its arrays with base64_enc_len and base64_dec_len; what
\* is written to them, with its final '\0', is one longer than that.
THEOREM BuffersSized ==
    \A s \in Seq(Byte) :
        /\ Len(base64_encode(s)) = base64_enc_len(Len(s)) + 1
        /\ Len(base64_decode(EncodedText(s))) = base64_dec_len(EncodedText(s)) + 1
<1>1. \A a \in Seq(Byte) : Len(Append(a, Nul)) = Len(a) + 1
  OBVIOUS
<1>2. ASSUME NEW s, s \in Seq(Byte)
      PROVE  /\ Len(base64_encode(s)) = base64_enc_len(Len(s)) + 1
             /\ Len(base64_decode(EncodedText(s))) = base64_dec_len(EncodedText(s)) + 1
  <2>1. /\ EncodedText(s) \in Seq(Byte) /\ DecodedBytes(EncodedText(s)) = s
        /\ Len(EncodedText(s)) = base64_enc_len(Len(s)) /\ base64_dec_len(EncodedText(s)) = Len(s)
    BY <1>2, EncodedString, DecodeEncode, EncodedSizes
  <2>q. QED
    BY <1>1, <1>2, <2>1 DEF base64_encode, base64_decode
<1>q. QED
  BY <1>2

\* Base64 has no semicolon and no '\0'.
LEMMA EncodedCharacters ==
    \A s \in Seq(Byte) : \A k \in 1 .. Len(EncodedText(s)) :
        EncodedText(s)[k] # Semicolon /\ EncodedText(s)[k] # Nul
<1>0. SUFFICES ASSUME NEW s, s \in Seq(Byte)
               PROVE  \A k \in 1 .. Len(EncodedText(s)) :
                          EncodedText(s)[k] # Semicolon /\ EncodedText(s)[k] # Nul
  OBVIOUS
<1> DEFINE n == Len(s)
           e == EncodedText(s)
<1>1. \A d \in Digit : b64_alphabet(d) # 59 /\ b64_alphabet(d) # 0
  BY DEF b64_alphabet, Digit
<1>2. n \in Nat /\ EncodedLen(n) \in Nat
  <2>1. Len(s) \in Nat
    BY <1>0
  <2>q. QED
    BY <2>1, Sizes
<1>3. Len(e) = EncodedLen(n)
  BY <1>0, EncodedString
<1>4. ASSUME NEW k, k \in 1 .. EncodedLen(n) PROVE e[k] # 59 /\ e[k] # 0
  <2> DEFINE b == (k - 1) \div 4
             j == (k - 1) % 4
  <2>1. e[k] = IF 3 * b + j <= n THEN b64_alphabet(EncodedBlock(s, b)[j + 1]) ELSE Equals
    BY <1>4 DEF EncodedText
  <2>2. b \in Nat /\ j \in 0 .. 3
    BY <1>2, <1>4, DigitPositions
  <2>3. EncodedBlock(s, b)[j + 1] \in Digit
    <3>1. j + 1 \in 1 .. 4
      BY <2>2
    <3> HIDE DEF b, j
    <3>q. QED
      BY <1>0, <2>2, <3>1, BlockTypes
  <2>4. Equals # 59 /\ Equals # 0
    BY DEF Equals
  <2> HIDE DEF b, j, e
  <2>q. QED
    BY <1>1, <2>1, <2>3, <2>4
<1> HIDE DEF e
<1>q. QED
  BY <1>3, <1>4 DEF Semicolon, e

\* A name, '=' and a value without semicolons have none together.
LEMMA NamedValue ==
    ASSUME NEW u, NEW v, u \in Seq(Byte), v \in Seq(Byte),
           \A i \in 1 .. Len(u) : u[i] # Semicolon,
           \A i \in 1 .. Len(v) : v[i] # Semicolon
    PROVE  LET s == u \o <<Equals>> \o v
           IN  /\ s \in Seq(Byte) /\ Len(s) \in Nat /\ Len(s) > 0
               /\ \A i \in 1 .. Len(s) : s[i] # Semicolon
<1>0. /\ u \in Seq(Byte) /\ v \in Seq(Byte)
      /\ \A i \in 1 .. Len(u) : u[i] # Semicolon
      /\ \A i \in 1 .. Len(v) : v[i] # Semicolon
  OBVIOUS
<1> DEFINE s == u \o <<Equals>> \o v
<1>1. Equals \in Byte /\ Equals # Semicolon
  BY DEF Equals, Semicolon, Byte
<1>2. /\ s \in Seq(Byte) /\ Len(s) = Len(u) + 1 + Len(v)
      /\ Len(u) \in Nat /\ Len(v) \in Nat
      /\ \A i \in 1 .. Len(u) : s[i] = u[i]
      /\ s[Len(u) + 1] = Equals
      /\ \A i \in 1 .. Len(v) : s[Len(u) + 1 + i] = v[i]
  BY <1>0, <1>1, Joined
<1> HIDE DEF s
<1>3. ASSUME NEW i, i \in 1 .. Len(s) PROVE s[i] # Semicolon
  <2>1. CASE i <= Len(u)
    <3>1. i \in 1 .. Len(u)
      BY <1>2, <1>3, <2>1
    <3>q. QED
      BY <1>0, <1>2, <3>1
  <2>2. CASE i = Len(u) + 1
    BY <1>1, <1>2, <2>2
  <2>3. CASE i > Len(u) + 1
    <3> DEFINE j == i - (Len(u) + 1)
    <3>1. j \in 1 .. Len(v) /\ i = Len(u) + 1 + j
      BY <1>2, <1>3, <2>3
    <3> HIDE DEF j
    <3>q. QED
      BY <1>0, <1>2, <3>1
  <2>q. QED
    BY <1>2, <1>3, <2>1, <2>2, <2>3
<1>4. Len(s) \in Nat /\ Len(s) > 0
  BY <1>2
<1>q. QED
  BY <1>2, <1>3, <1>4 DEF s

\* The three fields of a connection string have the host, the identity and the
\* key of the device, but for two '=' of the key.
LEMMA FieldsFound ==
    ASSUME device \in Devices
    PROVE  /\ Field(0) = device.host
           /\ Field(1) = device.id
           /\ Field(2) \in Seq(Byte)
           /\ DecodedBytes(Field(2)) = device.key
           /\ base64_dec_len(Field(2)) = Len(device.key)
           /\ device.mode = "EventHub" => Field(2) = EncodedText(device.key)
<1>0. device \in Devices
  OBVIOUS
<1> DEFINE x == device.host
           y == device.id
           k == device.key
           z == EncodedText(k)
           u == HostName \o <<Equals>> \o x
           v == DeviceId \o <<Equals>> \o y
           w == SharedAccessKey \o <<Equals>> \o z
<1>1. x \in Seq(Byte) /\ Len(x) > 0 /\ y \in Seq(Byte) /\ Len(y) > 0 /\ k \in Seq(Byte) /\ Len(k) > 0
  BY <1>0, DeviceStrings, Zenon
<1>2. HostName \in Seq(Byte) /\ DeviceId \in Seq(Byte) /\ SharedAccessKey \in Seq(Byte)
  <2>1. \A s \in {HostName, DeviceId, SharedAccessKey} :
           s \in {TARGET_URL, EVENT_HUB_END_POINT, Scheme, sasExpiryDate, HostName, DeviceId, SharedAccessKey}
    OBVIOUS
  <2>q. QED
    BY <2>1, SketchStrings
<1>3. /\ \A i \in 1 .. Len(HostName) : HostName[i] # Equals /\ HostName[i] # Semicolon
      /\ \A i \in 1 .. Len(DeviceId) : DeviceId[i] # Equals /\ DeviceId[i] # Semicolon
      /\ \A i \in 1 .. Len(SharedAccessKey) : SharedAccessKey[i] # Equals /\ SharedAccessKey[i] # Semicolon
      /\ \A i \in 1 .. Len(x) : x[i] # Equals /\ x[i] # Semicolon
      /\ \A i \in 1 .. Len(y) : y[i] # Equals /\ y[i] # Semicolon
  BY <1>0, NoSeparators
<1>4. z \in Seq(Byte) /\ \A i \in 1 .. Len(z) : z[i] # Semicolon
  BY <1>1, EncodedString, EncodedCharacters
<1>e. Equals \in Byte /\ Semicolon \in Byte
  BY DEF Equals, Semicolon, Byte
<1>5. ConnectionString = u \o <<Semicolon>> \o v \o <<Semicolon>> \o w
  BY <1>1, EncodesBase64 DEF ConnectionString
<1>m. device.mode = "EventHub" => Len(k) = 32
  BY <1>0, DevicesAssumption, Zenon
<1> HIDE DEF x, y, k, z
<1>6. u \in Seq(Byte) /\ \A i \in 1 .. Len(u) : u[i] # Semicolon
  BY <1>1, <1>2, <1>3, NamedValue
<1>7. v \in Seq(Byte) /\ \A i \in 1 .. Len(v) : v[i] # Semicolon
  BY <1>1, <1>2, <1>3, NamedValue
<1>8. w \in Seq(Byte) /\ Len(w) > 0 /\ \A i \in 1 .. Len(w) : w[i] # Semicolon
  BY <1>2, <1>3, <1>4, NamedValue
<1>9. /\ splitStringByIndex(ConnectionString, Semicolon, 0) = u
      /\ splitStringByIndex(ConnectionString, Semicolon, 1) = v
      /\ splitStringByIndex(ConnectionString, Semicolon, 2) = w
  <2> HIDE DEF u, v, w
  <2>1. LET s == u \o <<Semicolon>> \o v \o <<Semicolon>> \o w
        IN  /\ splitStringByIndex(s, Semicolon, 0) = u
            /\ splitStringByIndex(s, Semicolon, 1) = v
            /\ splitStringByIndex(s, Semicolon, 2) = w
    <3>1. /\ u \in Seq(Byte) /\ v \in Seq(Byte) /\ w \in Seq(Byte) /\ Semicolon \in Byte /\ Len(w) > 0
          /\ \A i \in 1 .. Len(u) : u[i] # Semicolon
          /\ \A i \in 1 .. Len(v) : v[i] # Semicolon
          /\ \A i \in 1 .. Len(w) : w[i] # Semicolon
      BY <1>6, <1>7, <1>8, <1>e, Zenon
    <3>2. ASSUME NEW c, c \in Byte, \A i \in 1 .. Len(u) : u[i] # c,
                 \A i \in 1 .. Len(v) : v[i] # c, \A i \in 1 .. Len(w) : w[i] # c
          PROVE  LET s == u \o <<c>> \o v \o <<c>> \o w
                 IN  /\ splitStringByIndex(s, c, 0) = u
                     /\ splitStringByIndex(s, c, 1) = v
                     /\ splitStringByIndex(s, c, 2) = w
      BY <3>1, <3>2, ThreeFields
    <3>q. QED
      BY <3>1, <3>2
  <2>q. QED
    BY <1>5, <2>1, Zenon
<1>10. splitStringByIndex(u, Equals, 1) = x
  <2>1. \A i \in 1 .. Len(x) - 1 : i \in 1 .. Len(x)
    BY <1>1
  <2>2. \A i \in 1 .. Len(x) - 1 : x[i] # Equals
    BY <1>3, <2>1
  <2>q. QED
    BY <1>1, <1>2, <1>3, <1>e, <2>2, ValueOf
<1>11. splitStringByIndex(v, Equals, 1) = y
  <2>1. \A i \in 1 .. Len(y) - 1 : i \in 1 .. Len(y)
    BY <1>1
  <2>2. \A i \in 1 .. Len(y) - 1 : y[i] # Equals
    BY <1>3, <2>1
  <2>q. QED
    BY <1>1, <1>2, <1>3, <1>e, <2>2, ValueOf
<1> DEFINE f == splitStringByIndex(w, Equals, 1)
<1>12. /\ f \in Seq(Byte)
       /\ DecodedBytes(f) = k /\ base64_dec_len(f) = Len(k)
       /\ EncodedLen(Len(k)) # Digits(Len(k)) + 2 => f = z
  <2>1. \A i \in 1 .. Len(SharedAccessKey) : SharedAccessKey[i] # Equals
    BY <1>3
  <2>q. QED
    BY <1>1, <1>2, <2>1, KeyField DEF z
<1>13. EncodedLen(32) # Digits(32) + 2
  BY DEF EncodedLen, Digits
<1>14. device.mode = "EventHub" => f = z
  BY <1>12, <1>13, <1>m, Zenon
<1> HIDE DEF u, v, w
<1>15. Field(0) = x /\ Field(1) = y /\ Field(2) = f
  BY <1>9, <1>10, <1>11 DEF Field
<1> HIDE DEF f
<1>q. QED
  BY <1>12, <1>14, <1>15, Zenon DEF x, y, k, z

-----------------------------------------------------------------------------
(* The token.                                                              *)

\* What is signed.
Signed == url \o <<NewLine>> \o sasExpiryDate

\* What initHmac writes for the key that the hub has.
InnerKey == Xored(KeyBlock(HubsKey), 54)

\* The configuration is that of the device, but for two '=' of the key.
ConfigurationIsDevices ==
    IF phase = "setup" THEN host = <<>> /\ id = <<>> /\ key = <<>>
    ELSE /\ host = device.host /\ id = device.id /\ key \in Seq(Byte)
         /\ DecodedBytes(key) = device.key
         /\ base64_dec_len(key) = Len(device.key)
         /\ device.mode = "EventHub" => key = EncodedText(device.key)

\* The hash object has taken in what HMAC begins with, what is signed, or
\* nothing, and it has what HMAC needs at the end.
HashIsHmac ==
    /\ sha \in Sha /\ Len(sha.buffer) < 64
    /\ phase = "keyed" => /\ Absorbed(sha, InnerKey)
                          /\ sha.byteCount = 64 /\ sha.keyBuffer = KeyBlock(HubsKey)
    /\ phase = "printed" => /\ Absorbed(sha, InnerKey \o Signed)
                            /\ sha.byteCount = 64 + Len(Signed)
                            /\ sha.keyBuffer = KeyBlock(HubsKey)
    /\ phase \in {"signed", "done"} => sha.state = HmacOf(HubsKey, Signed)

\* The token is what createIotHubSas or createEventHubSas put together.
TokenIsOfHash ==
    IF phase = "done"
    THEN /\ sas.sr = url /\ sas.sig = urlEncode(EncodedText(sha.state))
         /\ sas.se = sasExpiryDate
    ELSE sas.sr = <<>> /\ sas.sig = <<>> /\ sas.se = <<>>

\* The inductive invariant.
TokenInv ==
    /\ phase \in {"setup", "configured", "keyed", "printed", "signed", "done"}
    /\ device \in Devices
    /\ ConfigurationIsDevices
    /\ HashIsHmac
    /\ TokenIsOfHash

\* The hub's key can be hashed, and is hashed by the code.
LEMMA KeyIsMessage ==
    ASSUME device \in Devices
    PROVE  HubsKey \in Message
<1>0. device \in Devices
  OBVIOUS
<1> DEFINE k == device.key
           e == EncodedText(k)
<1>1. /\ k \in Seq(Byte) /\ Len(k) \in Nat /\ Len(k) < MaxString
      /\ device.mode = "IoTHub" \/ device.mode = "EventHub"
      /\ device.mode = "EventHub" => Len(k) = 32
  <2>1. device.mode \in {"IoTHub", "EventHub"} /\ (device.mode = "EventHub" => Len(k) = 32)
    BY <1>0, DevicesAssumption, Zenon
  <2>q. QED
    BY <1>0, <2>1, DeviceStrings, Zenon
<1>2. e = Base64Of(k) /\ e \in Seq(Byte) /\ Len(e) = EncodedLen(Len(k))
  BY <1>1, EncodesBase64, EncodedString
<1>3. HubsKey = IF device.mode = "IoTHub" THEN k ELSE e
  BY <1>2, Zenon DEF HubsKey
<1> HIDE DEF k, e
<1>4. k \in Message
  BY <1>1, SMT DEF Message, MaxLength, MaxString
<1>5. CASE device.mode = "EventHub"
  <2>1. EncodedLen(32) = 44
    BY DEF EncodedLen
  <2>2. Len(e) = 44
    BY <1>1, <1>2, <1>5, <2>1
  <2>3. 44 < MaxLength
    BY SMT DEF MaxLength
  <2>4. e \in Message
    BY <1>2, <2>2, <2>3, Zenon DEF Message
  <2>q. QED
    BY <1>3, <1>5, <2>4
<1>q. QED
  BY <1>1, <1>3, <1>4, <1>5

\* A string whose characters are none is read as it was written, up to its '\0'.
LEMMA Terminated ==
    \A a \in Seq(Byte) :
        /\ SubSeq(Append(a, Nul), 1, Len(a)) = a
        /\ (\A i \in 1 .. Len(a) : a[i] # Nul) => CString(Append(a, Nul)) = a
<1>0. SUFFICES ASSUME NEW a, a \in Seq(Byte)
      PROVE  /\ SubSeq(Append(a, Nul), 1, Len(a)) = a
             /\ (\A i \in 1 .. Len(a) : a[i] # Nul) => CString(Append(a, Nul)) = a
  OBVIOUS
<1> DEFINE t == Append(a, 0)
           l == Len(a)
<1>1. /\ l \in Nat /\ Len(t) = l + 1 /\ t[l + 1] = 0
      /\ \A i \in 1 .. l : t[i] = a[i]
  BY <1>0
<1>2. SubSeq(t, 1, l) = a
  BY <1>0
<1> HIDE DEF t, l
<1>3. ASSUME \A i \in 1 .. l : a[i] # 0 PROVE CString(t) = a
  <2>1. \A n \in 0 .. Len(t) :
           (/\ \A i \in 1 .. n : t[i] # 0
            /\ n < Len(t) => t[n + 1] = 0) <=> n = l
    <3>1. SUFFICES ASSUME NEW n, n \in 0 .. Len(t)
                   PROVE  (/\ \A i \in 1 .. n : t[i] # 0
                           /\ n < Len(t) => t[n + 1] = 0) <=> n = l
      OBVIOUS
    <3>2. CASE n < l
      <4>1. n + 1 \in 1 .. l /\ n < Len(t)
        BY <1>1, <3>1, <3>2
      <4>q. QED
        BY <1>1, <1>3, <3>2, <4>1
    <3>3. CASE n = l
      BY <1>1, <1>3, <3>3
    <3>4. CASE n > l
      <4>1. l + 1 \in 1 .. n
        BY <1>1, <3>1, <3>4
      <4>q. QED
        BY <1>1, <3>4, <4>1
    <3>q. QED
      BY <1>1, <3>1, <3>2, <3>3, <3>4
  <2>2. l \in 0 .. Len(t)
    BY <1>1
  <2>3. strlen(t) = l
    BY <2>1, <2>2 DEF strlen
  <2>q. QED
    BY <1>2, <2>3, Zenon DEF CString
<1>q. QED
  BY <1>2, <1>3 DEF t, l

\* What initHmac is given is that key.
LEMMA SigningKeyIsHubs ==
    ASSUME device \in Devices, phase # "setup", ConfigurationIsDevices
    PROVE  SigningKey = HubsKey
<1> DEFINE k == device.key
           e == EncodedText(k)
<1>1. /\ k \in Seq(Byte)
      /\ device.mode = "EventHub" => Len(k) = 32
      /\ device.mode = "IoTHub" \/ device.mode = "EventHub"
  <2>1. device.mode \in {"IoTHub", "EventHub"} /\ (device.mode = "EventHub" => Len(k) = 32)
    BY DevicesAssumption, Zenon
  <2>q. QED
    BY <2>1, DeviceStrings, Zenon
<1>2. /\ DecodedBytes(key) = k /\ base64_dec_len(key) = Len(k)
      /\ device.mode = "EventHub" => key = e
  BY DEF ConfigurationIsDevices
<1>3. e = Base64Of(k) /\ e \in Seq(Byte) /\ Len(e) = EncodedLen(Len(k))
  BY <1>1, EncodesBase64, EncodedString
<1> HIDE DEF e, k
<1>4. CASE device.mode = "IoTHub"
  <2>1. SigningKey = SubSeq(Append(k, Nul), 1, Len(k))
    BY <1>2, <1>4, SMT DEF SigningKey, base64_decode
  <2>2. HubsKey = k
    BY <1>4 DEF HubsKey, k
  <2>q. QED
    BY <1>1, <2>1, <2>2, Terminated
<1>5. CASE device.mode = "EventHub"
  <2>1. EncodedLen(32) = 44
    BY DEF EncodedLen
  <2>2. Len(e) = 44
    BY <1>1, <1>3, <1>5, <2>1
  <2>3. SigningKey = SubSeq(e, 1, Len(e)) /\ HubsKey = e
    BY <1>2, <1>3, <1>5, <2>2 DEF SigningKey, HubsKey, k
  <2>q. QED
    BY <1>3, <2>3, WholeString
<1>q. QED
  BY <1>1, <1>4, <1>5

\* The address that is signed and sent decodes to the resource.
LEMMA AddressDecoded ==
    ASSUME device \in Devices, host = device.host, id = device.id
    PROVE  /\ url \in Seq(Byte) /\ Len(url) \in Nat /\ Len(url) <= 9 * MaxString
           /\ PercentDecoded(url) = Resource
<1>0. device \in Devices /\ host = device.host /\ id = device.id
  OBVIOUS
<1>1. /\ host \in Seq(Byte) /\ Len(host) \in Nat /\ Len(host) < MaxString
      /\ id \in Seq(Byte) /\ Len(id) \in Nat /\ Len(id) < MaxString
      /\ \A i \in 1 .. Len(id) : id[i] # 37
  <2>1. \A i \in 1 .. Len(device.id) : device.id[i] # 37
    BY <1>0, DevicesAssumption, Zenon
  <2>q. QED
    BY <1>0, <2>1, DeviceStrings, Zenon
<1>2. \A s \in {TARGET_URL, EVENT_HUB_END_POINT, Scheme} :
         s \in Seq(Byte) /\ Len(s) \in Nat /\ Len(s) < MaxString
  <2>1. \A s \in {TARGET_URL, EVENT_HUB_END_POINT, Scheme} :
           s \in {TARGET_URL, EVENT_HUB_END_POINT, Scheme, sasExpiryDate, HostName, DeviceId, SharedAccessKey}
    OBVIOUS
  <2>q. QED
    BY <2>1, SketchStrings
<1>3. <<>> \in Seq(Byte) /\ DecodedOf(<<>>) = Whole(<<>>)
  BY NothingDecoded DEF Undecoded, Whole
<1>m. MaxString \in Nat
  BY SMT DEF MaxString
<1>4. \A u, v \in Seq(Byte) : Len(u) < MaxString /\ Len(v) < MaxString =>
         LET x == urlEncode(u) \o urlEncode(v)
         IN  /\ urlEncode(u) \in Seq(Byte) /\ Len(urlEncode(u)) <= 3 * MaxString
             /\ DecodedOf(urlEncode(u)) = Whole(u)
             /\ x \in Seq(Byte) /\ Len(x) \in Nat /\ Len(x) <= 6 * MaxString
             /\ DecodedOf(x) = Whole(u \o v)
  <2>0. SUFFICES ASSUME NEW u, NEW v, u \in Seq(Byte), v \in Seq(Byte),
                        Len(u) < MaxString, Len(v) < MaxString
        PROVE
         LET x == urlEncode(u) \o urlEncode(v)
         IN  /\ urlEncode(u) \in Seq(Byte) /\ Len(urlEncode(u)) <= 3 * MaxString
             /\ DecodedOf(urlEncode(u)) = Whole(u)
             /\ x \in Seq(Byte) /\ Len(x) \in Nat /\ Len(x) <= 6 * MaxString
             /\ DecodedOf(x) = Whole(u \o v)
    OBVIOUS
  <2> DEFINE a == urlEncode(u)
             b == urlEncode(v)
             x == a \o b
  <2>1. /\ a \in Seq(Byte) /\ Len(a) <= 3 * Len(u)
        /\ DecodedOf(<<>> \o a) = Whole(<<>> \o u)
    BY <1>3, <2>0, UrlDecoded
  <2>2. DecodedOf(a) = Whole(u)
    BY <2>0, <2>1, NothingBefore, Zenon
  <2>3. /\ b \in Seq(Byte) /\ Len(b) <= 3 * Len(v)
        /\ DecodedOf(a \o b) = Whole(u \o v)
    BY <2>0, <2>1, <2>2, UrlDecoded
  <2> HIDE DEF a, b
  <2>4. /\ x \in Seq(Byte) /\ Len(x) = Len(a) + Len(b) /\ Len(a) \in Nat /\ Len(b) \in Nat
    BY <2>1, <2>3, Concatenation
  <2>5. Len(u) \in Nat /\ Len(v) \in Nat
    BY <2>0
  <2> HIDE DEF x
  <2>6. Len(x) \in Nat /\ Len(x) <= 6 * MaxString /\ Len(a) <= 3 * MaxString
    BY <1>m, <2>0, <2>1, <2>3, <2>4, <2>5
  <2>7. DecodedOf(x) = Whole(u \o v)
    BY <2>3 DEF x
  <2>q. QED
    BY <2>1, <2>2, <2>4, <2>6, <2>7 DEF x, a, b
<1>5. CASE device.mode = "IoTHub"
  <2> DEFINE x == urlEncode(host) \o urlEncode(TARGET_URL)
             r == host \o TARGET_URL
  <2>1. TARGET_URL \in Seq(Byte) /\ Len(TARGET_URL) < MaxString
    BY <1>2
  <2>2. /\ x \in Seq(Byte) /\ Len(x) \in Nat /\ Len(x) <= 6 * MaxString
        /\ DecodedOf(x) = Whole(r)
    BY <1>1, <1>4, <2>1
  <2>3. url = x \o id /\ Resource = r \o id
    BY <1>0, <1>5 DEF url, Resource
  <2>4. r \in Seq(Byte)
    BY <1>1, <2>1, Concatenation
  <2> HIDE DEF x, r
  <2>5. DecodedOf(x \o id) = Whole(r \o id)
    BY <1>1, <2>2, <2>4, PlainDecoded
  <2>6. x \o id \in Seq(Byte) /\ Len(x \o id) = Len(x) + Len(id)
    BY <1>1, <2>2, Concatenation
  <2>7. Len(x) + Len(id) \in Nat /\ Len(x) + Len(id) <= 9 * MaxString
    BY <1>1, <1>m, <2>2
  <2>8. PercentDecoded(url) = Resource
    BY <2>3, <2>5 DEF PercentDecoded, DecodedOf, Whole
  <2>q. QED
    BY <2>3, <2>6, <2>7, <2>8, Zenon
<1>6. CASE device.mode # "IoTHub"
  <2> DEFINE x == urlEncode(Scheme) \o urlEncode(host)
             r == Scheme \o host
             y == urlEncode(EVENT_HUB_END_POINT)
  <2>1. /\ Scheme \in Seq(Byte) /\ Len(Scheme) < MaxString
        /\ EVENT_HUB_END_POINT \in Seq(Byte) /\ Len(EVENT_HUB_END_POINT) < MaxString
    BY <1>2
  <2>2. /\ x \in Seq(Byte) /\ Len(x) \in Nat /\ Len(x) <= 6 * MaxString
        /\ DecodedOf(x) = Whole(r)
    BY <1>1, <1>4, <2>1
  <2>3. url = x \o y /\ Resource = r \o EVENT_HUB_END_POINT
    BY <1>0, <1>6 DEF url, Resource
  <2>4. r \in Seq(Byte)
    BY <1>1, <2>1, Concatenation
  <2>5. y \in Seq(Byte) /\ Len(y) <= 3 * MaxString
    BY <1>4, <2>1
  <2> HIDE DEF x, r
  <2>6. DecodedOf(x \o y) = Whole(r \o EVENT_HUB_END_POINT)
    BY <2>1, <2>2, <2>4, UrlDecoded
  <2> HIDE DEF y
  <2>7. x \o y \in Seq(Byte) /\ Len(x \o y) = Len(x) + Len(y) /\ Len(y) \in Nat
    BY <2>2, <2>5, Concatenation
  <2>8. Len(x) + Len(y) \in Nat /\ Len(x) + Len(y) <= 9 * MaxString
    BY <1>m, <2>2, <2>5, <2>7
  <2>9. PercentDecoded(url) = Resource
    BY <2>3, <2>6 DEF PercentDecoded, DecodedOf, Whole
  <2>q. QED
    BY <2>3, <2>7, <2>8, <2>9, Zenon
<1>q. QED
  BY <1>5, <1>6

\* What is signed can be hashed after the key.
LEMMA SignedIsMessage ==
    ASSUME device \in Devices, host = device.host, id = device.id, KeyBlock(HubsKey) \in Bytes(64)
    PROVE  /\ Signed \in Seq(Byte) /\ InnerKey \in Seq(Byte) /\ Len(InnerKey) = 64
           /\ InnerKey \o Signed \in Message
<1>1. url \in Seq(Byte) /\ Len(url) \in Nat /\ Len(url) <= 9 * MaxString
  BY AddressDecoded
<1>2. sasExpiryDate \in Seq(Byte) /\ Len(sasExpiryDate) \in Nat /\ Len(sasExpiryDate) < MaxString
  BY SketchStrings
<1>3. NewLine \in Byte /\ 54 \in Byte
  BY DEF NewLine, Byte
<1>4. /\ Signed \in Seq(Byte) /\ Len(Signed) = Len(url) + 1 + Len(sasExpiryDate)
  BY <1>1, <1>2, <1>3, Joined DEF Signed
<1>5. InnerKey \in Bytes(64)
  BY <1>3, MaskedBlock DEF InnerKey
<1>6. InnerKey \in Seq(Byte) /\ Len(InnerKey) = 64
  BY <1>5 DEF Bytes
<1>7. InnerKey \o Signed \in Seq(Byte) /\ Len(InnerKey \o Signed) = Len(InnerKey) + Len(Signed)
  BY <1>4, <1>6, Concatenation
<1>8. Len(InnerKey) + Len(Signed) < MaxLength
  BY <1>1, <1>2, <1>4, <1>6, SMT DEF MaxString, MaxLength
<1>9. InnerKey \o Signed \in Message
  BY <1>7, <1>8, Zenon DEF Message
<1>q. QED
  BY <1>4, <1>6, <1>9

\* The initial hash value has 32 bytes.
LEMMA HashSize == Initial \in Bytes(32)
BY HashAssumption DEF Bytes, HASH_LENGTH

\* The object as it is before its first use.
LEMMA UnwrittenIsSha == Unwritten \in Sha /\ Len(Unwritten.buffer) < 64
<1> DEFINE x == Zeros(HASH_LENGTH)
           y == Zeros(BLOCK_LENGTH)
<1>1. x \in Bytes(32) /\ y \in Bytes(64)
  BY ZerosAreBytes DEF Bytes, HASH_LENGTH, BLOCK_LENGTH
<1>2. Unwritten = [state |-> x, buffer |-> <<>>, byteCount |-> 0, keyBuffer |-> y]
  BY DEF Unwritten
<1> HIDE DEF x, y
<1>3. <<>> \in Seq(Byte) /\ Len(<<>>) = 0 /\ 0 \in Nat
  OBVIOUS
<1>q. QED
  BY <1>1, <1>2, <1>3 DEF Sha

\* Where the buffer of an object ends that has taken in whole bytes.
LEMMA BufferOfAbsorbed ==
    \A h \in Sha : \A m \in Seq(Byte) : Absorbed(h, m) => Len(h.buffer) < 64
<1>0. SUFFICES ASSUME NEW h, NEW m, h \in Sha, m \in Seq(Byte), Absorbed(h, m)
               PROVE  Len(h.buffer) < 64
  OBVIOUS
<1> DEFINE n == Len(m)
           q == n \div 64
           a == 64 * q
           b == SubSeq(m, a + 1, n)
<1>1. h.buffer = b
  BY <1>0 DEF Absorbed
<1>2. n \in Nat
  BY <1>0
<1>3. q \in Nat /\ n % 64 \in 0 .. 63 /\ n = 64 * q + (n % 64)
  BY <1>2, Divided64
<1> HIDE DEF q
<1>4. a \in Nat /\ a <= n /\ n - a < 64
  BY <1>2, <1>3
<1> HIDE DEF a
<1>5. Len(b) = n - a
  BY <1>0, <1>2, <1>4, Substring
<1>q. QED
  BY <1>1, <1>4, <1>5

\* The invariant holds at the start.
LEMMA TokenInitInv == TokenInit => TokenInv
<1> SUFFICES ASSUME TokenInit PROVE TokenInv
  OBVIOUS
<1>1. phase = "setup" /\ device \in Devices
  BY DEF TokenInit
<1>2. ConfigurationIsDevices
  BY DEF TokenInit, ConfigurationIsDevices
<1>3. sha \in Sha /\ Len(sha.buffer) < 64
  BY UnwrittenIsSha, Zenon DEF TokenInit
<1>4. HashIsHmac
  BY <1>1, <1>3 DEF HashIsHmac
<1>5. TokenIsOfHash
  BY DEF TokenInit, TokenIsOfHash
<1>q. QED
  BY <1>1, <1>2, <1>4, <1>5 DEF TokenInv

\* What the primed definitions are made of.
LEMMA SameDevice ==
    ASSUME device' = device
    PROVE  HubsKey' = HubsKey /\ InnerKey' = InnerKey /\ KeyBlock(HubsKey)' = KeyBlock(HubsKey)
BY DEF HubsKey, InnerKey, KeyBlock

\* While the configuration stays the same, so does what is made of it.
LEMMA SameConfiguration ==
    ASSUME UNCHANGED <<device, host, id, key>>
    PROVE  /\ url' = url /\ Signed' = Signed
           /\ phase # "setup" /\ phase' # "setup" /\ ConfigurationIsDevices => ConfigurationIsDevices'
<1>1. device' = device /\ host' = host /\ id' = id /\ key' = key
  OBVIOUS
<1>2. url' = url
  BY <1>1 DEF url
<1>3. Signed' = Signed
  BY <1>2 DEF Signed
<1>4. phase # "setup" /\ phase' # "setup" /\ ConfigurationIsDevices => ConfigurationIsDevices'
  BY <1>1 DEF ConfigurationIsDevices
<1>q. QED
  BY <1>2, <1>3, <1>4

\* Both ways to configure the sketch lead to the device.
LEMMA ConfigureInv ==
    TokenInv /\ (ConfigureInline \/ ConfigureFromEEPROM) => TokenInv'
<1> SUFFICES ASSUME TokenInv, ConfigureInline \/ ConfigureFromEEPROM PROVE TokenInv'
  OBVIOUS
<1>1. /\ device \in Devices /\ phase = "setup" /\ phase' = "configured"
      /\ device' = device /\ sha' = sha /\ sas' = sas
      /\ HashIsHmac /\ TokenIsOfHash
  BY DEF TokenInv, ConfigureInline, ConfigureFromEEPROM
<1>2. /\ host' = device.host /\ id' = device.id /\ key' \in Seq(Byte)
      /\ DecodedBytes(key') = device.key
      /\ base64_dec_len(key') = Len(device.key)
      /\ device.mode = "EventHub" => key' = EncodedText(device.key)
  <2>1. CASE ConfigureInline
    <3>1. host' = Field(0) /\ id' = Field(1) /\ key' = Field(2)
      BY <2>1 DEF ConfigureInline
    <3>q. QED
      BY <1>1, <3>1, FieldsFound
  <2>2. CASE ConfigureFromEEPROM
    <3> DEFINE k == device.key
    <3>1. k \in Seq(Byte)
      BY <1>1, DeviceStrings, Zenon
    <3>2. host' = device.host /\ id' = device.id /\ key' = Base64Of(k)
      BY <2>2 DEF ConfigureFromEEPROM
    <3>3. key' = EncodedText(k)
      BY <3>1, <3>2, EncodesBase64
    <3>4. /\ EncodedText(k) \in Seq(Byte) /\ DecodedBytes(EncodedText(k)) = k
          /\ base64_dec_len(EncodedText(k)) = Len(k)
      BY <3>1, EncodedString, DecodeEncode, EncodedSizes
    <3>q. QED
      BY <3>2, <3>3, <3>4
  <2>q. QED
    BY <2>1, <2>2
<1>3. ConfigurationIsDevices'
  BY <1>1, <1>2 DEF ConfigurationIsDevices
<1>4. HashIsHmac'
  BY <1>1 DEF HashIsHmac
<1>5. TokenIsOfHash'
  BY <1>1 DEF TokenIsOfHash
<1>q. QED
  BY <1>1, <1>3, <1>4, <1>5 DEF TokenInv

\* initHmac begins with the hub's key.
LEMMA InitHmacInv ==
    ASSUME CompressMakesWords
    PROVE  TokenInv /\ InitHmac => TokenInv'
<1> SUFFICES ASSUME TokenInv, InitHmac PROVE TokenInv'
  OBVIOUS
<1>1. /\ device \in Devices /\ phase = "configured" /\ phase' = "keyed"
      /\ sha' = initHmac(sha, SigningKey)
      /\ UNCHANGED <<device, host, id, key>> /\ sas' = sas
      /\ ConfigurationIsDevices /\ HashIsHmac /\ TokenIsOfHash
  BY DEF TokenInv, InitHmac
<1>2. SigningKey = HubsKey /\ HubsKey \in Message
  BY <1>1, SigningKeyIsHubs, KeyIsMessage
<1>3. sha \in Sha
  BY <1>1 DEF HashIsHmac
<1>4. /\ KeyBlock(HubsKey) \in Bytes(64)
      /\ initHmac(sha, HubsKey) \in Sha /\ Absorbed(initHmac(sha, HubsKey), Xored(KeyBlock(HubsKey), 54))
      /\ initHmac(sha, HubsKey).byteCount = 64 /\ initHmac(sha, HubsKey).keyBuffer = KeyBlock(HubsKey)
  BY <1>2, <1>3, HashSize, InitHmacAbsorbs
<1>5. /\ sha' \in Sha /\ Absorbed(sha', InnerKey)
      /\ sha'.byteCount = 64 /\ sha'.keyBuffer = KeyBlock(HubsKey)
  BY <1>1, <1>2, <1>4, Zenon DEF InnerKey
<1>6. Len(sha'.buffer) < 64
  <2>1. 54 \in Byte
    BY DEF Byte
  <2>2. InnerKey \in Seq(Byte)
    BY <1>4, <2>1, MaskedBlock DEF InnerKey, Bytes
  <2>q. QED
    BY <1>5, <2>2, BufferOfAbsorbed
<1>7. ConfigurationIsDevices'
  BY <1>1, SameConfiguration
<1>8. HashIsHmac'
  BY <1>1, <1>5, <1>6, SameDevice DEF HashIsHmac, Absorbed
<1>9. TokenIsOfHash'
  BY <1>1 DEF TokenIsOfHash
<1>q. QED
  BY <1>1, <1>7, <1>8, <1>9 DEF TokenInv

\* What the invariant says of a configured sketch.
LEMMA Configured ==
    ASSUME TokenInv, phase # "setup"
    PROVE  /\ device \in Devices /\ host = device.host /\ id = device.id
           /\ HubsKey \in Message
BY KeyIsMessage DEF TokenInv, ConfigurationIsDevices

\* The address and the date follow.
LEMMA SignStringInv ==
    ASSUME CompressMakesWords
    PROVE  TokenInv /\ SignString => TokenInv'
<1> SUFFICES ASSUME TokenInv, SignString PROVE TokenInv'
  OBVIOUS
<1>1. /\ device \in Devices /\ phase = "keyed" /\ phase' = "printed"
      /\ sha' = write(sha, Signed)
      /\ UNCHANGED <<device, host, id, key>> /\ sas' = sas
      /\ ConfigurationIsDevices /\ HashIsHmac /\ TokenIsOfHash
  BY DEF TokenInv, SignString, Signed
<1>2. device \in Devices /\ host = device.host /\ id = device.id
  BY <1>1, Configured
<1>3. /\ sha \in Sha /\ Absorbed(sha, InnerKey)
      /\ sha.byteCount = 64 /\ sha.keyBuffer = KeyBlock(HubsKey)
  BY <1>1 DEF HashIsHmac
<1>4. KeyBlock(HubsKey) \in Bytes(64)
  BY <1>3 DEF Sha
<1>5. InnerKey \in Seq(Byte) /\ Signed \in Seq(Byte) /\ InnerKey \o Signed \in Message
  BY <1>2, <1>4, SignedIsMessage
<1>6. /\ write(sha, Signed) \in Sha /\ Absorbed(write(sha, Signed), InnerKey \o Signed)
      /\ write(sha, Signed).byteCount = sha.byteCount + Len(Signed)
      /\ write(sha, Signed).keyBuffer = sha.keyBuffer
  BY <1>3, <1>5, HashSize, WriteAbsorbs
<1>7. /\ sha' \in Sha /\ Absorbed(sha', InnerKey \o Signed)
      /\ sha'.byteCount = 64 + Len(Signed) /\ sha'.keyBuffer = KeyBlock(HubsKey)
  BY <1>1, <1>3, <1>6, Zenon
<1>8. Len(sha'.buffer) < 64
  <2>1. InnerKey \o Signed \in Seq(Byte)
    BY <1>5 DEF Message
  <2>q. QED
    BY <1>7, <2>1, BufferOfAbsorbed
<1>9. ConfigurationIsDevices' /\ Signed' = Signed
  BY <1>1, SameConfiguration
<1>10. HashIsHmac'
  BY <1>1, <1>7, <1>8, <1>9, SameDevice DEF HashIsHmac, Absorbed
<1>11. TokenIsOfHash'
  BY <1>1 DEF TokenIsOfHash
<1>q. QED
  BY <1>1, <1>9, <1>10, <1>11 DEF TokenInv

\* resultHmac makes the signature that the hub makes.
LEMMA ResultHmacInv ==
    ASSUME CompressMakesWords
    PROVE  TokenInv /\ ResultHmac => TokenInv'
<1> SUFFICES ASSUME TokenInv, ResultHmac PROVE TokenInv'
  OBVIOUS
<1>1. /\ device \in Devices /\ phase = "printed" /\ phase' = "signed"
      /\ sha' = resultHmac(sha)
      /\ UNCHANGED <<device, host, id, key>> /\ sas' = sas
      /\ ConfigurationIsDevices /\ HashIsHmac /\ TokenIsOfHash
  BY DEF TokenInv, ResultHmac
<1>2. device \in Devices /\ host = device.host /\ id = device.id /\ HubsKey \in Message
  BY <1>1, Configured
<1>3. /\ sha \in Sha /\ Absorbed(sha, InnerKey \o Signed)
      /\ sha.byteCount = 64 + Len(Signed) /\ sha.keyBuffer = KeyBlock(HubsKey)
  BY <1>1 DEF HashIsHmac
<1>4. KeyBlock(HubsKey) \in Bytes(64)
  BY <1>3 DEF Sha
<1>5. Signed \in Seq(Byte) /\ InnerKey \o Signed \in Message
  BY <1>2, <1>4, SignedIsMessage
<1>6. /\ resultHmac(sha) \in Sha /\ resultHmac(sha).buffer = <<>>
      /\ resultHmac(sha).state = HmacOf(HubsKey, Signed)
  BY <1>2, <1>3, <1>4, <1>5, HashSize, ResultHmacIs DEF InnerKey
<1>7. /\ sha' \in Sha /\ sha'.buffer = <<>> /\ sha'.state = HmacOf(HubsKey, Signed)
  BY <1>1, <1>6, Zenon
<1>8. Len(sha'.buffer) < 64
  BY <1>7
<1>9. ConfigurationIsDevices' /\ Signed' = Signed
  BY <1>1, SameConfiguration
<1>10. HashIsHmac'
  BY <1>1, <1>7, <1>8, <1>9, SameDevice DEF HashIsHmac
<1>11. TokenIsOfHash'
  BY <1>1 DEF TokenIsOfHash
<1>q. QED
  BY <1>1, <1>9, <1>10, <1>11 DEF TokenInv

\* createIotHubSas and createEventHubSas put the token together.
LEMMA CreateSasInv == TokenInv /\ CreateSas => TokenInv'
<1> SUFFICES ASSUME TokenInv, CreateSas PROVE TokenInv'
  OBVIOUS
<1>1. /\ device \in Devices /\ phase = "signed" /\ phase' = "done"
      /\ sas' = [sr |-> url, sig |-> urlEncode(CString(base64_encode(sha.state))), se |-> sasExpiryDate]
      /\ UNCHANGED <<device, host, id, key>> /\ sha' = sha
      /\ ConfigurationIsDevices /\ HashIsHmac
  BY DEF TokenInv, CreateSas
<1>2. ConfigurationIsDevices' /\ Signed' = Signed /\ url' = url
  BY <1>1, SameConfiguration
<1>3. HashIsHmac'
  BY <1>1, <1>2, SameDevice DEF HashIsHmac
<1>4. CString(base64_encode(sha.state)) = EncodedText(sha.state)
  <2>1. sha.state \in Seq(Byte)
    BY <1>1 DEF HashIsHmac, Sha, Bytes
  <2>2. /\ EncodedText(sha.state) \in Seq(Byte)
        /\ \A i \in 1 .. Len(EncodedText(sha.state)) : EncodedText(sha.state)[i] # Nul
    BY <2>1, EncodedString, EncodedCharacters, Zenon
  <2>q. QED
    BY <2>2, Terminated, Zenon DEF base64_encode
<1>5. TokenIsOfHash'
  BY <1>1, <1>2, <1>4 DEF TokenIsOfHash
<1>q. QED
  BY <1>1, <1>2, <1>3, <1>5 DEF TokenInv

\* The invariant holds: whichever way the sketch is configured, whatever the
\* hash object has in it from before, each step of createIotHubSas and of
\* createEventHubSas leaves the standard's intermediate value.
THEOREM TokenInvariant == ASSUME CompressMakesWords PROVE TokenSpec => []TokenInv
<1>1. TokenInit => TokenInv
  BY TokenInitInv
<1>2. TokenInv /\ [TokenNext]_tokenVars => TokenInv'
  <2> SUFFICES ASSUME TokenInv, [TokenNext]_tokenVars PROVE TokenInv'
    OBVIOUS
  <2>1. CASE ConfigureInline \/ ConfigureFromEEPROM
    BY <2>1, ConfigureInv
  <2>2. CASE InitHmac
    BY <2>2, InitHmacInv
  <2>3. CASE SignString
    BY <2>3, SignStringInv
  <2>4. CASE ResultHmac
    BY <2>4, ResultHmacInv
  <2>5. CASE CreateSas
    BY <2>5, CreateSasInv
  <2>6. CASE UNCHANGED tokenVars
    <3>1. /\ phase' = phase /\ device' = device /\ host' = host /\ id' = id /\ key' = key
          /\ sha' = sha /\ sas' = sas
      BY <2>6 DEF tokenVars
    <3>2. Signed' = Signed /\ url' = url
      BY <3>1, SameConfiguration
    <3>3. ConfigurationIsDevices'
      BY <3>1 DEF TokenInv, ConfigurationIsDevices
    <3>4. HashIsHmac'
      BY <3>1, <3>2, SameDevice DEF TokenInv, HashIsHmac, Absorbed
    <3>5. TokenIsOfHash'
      BY <3>1, <3>2 DEF TokenInv, TokenIsOfHash
    <3>q. QED
      BY <3>1, <3>3, <3>4, <3>5 DEF TokenInv
  <2>q. QED
    BY <2>1, <2>2, <2>3, <2>4, <2>5, <2>6 DEF TokenNext
<1>q. QED
  BY <1>1, <1>2, PTL DEF TokenSpec

\* The signature is sent in Base64 and with percent signs.
LEMMA SignatureDecoded ==
    \A s \in Bytes(32) :
        /\ EncodedText(s) \in Seq(Byte) /\ urlEncode(EncodedText(s)) \in Seq(Byte)
        /\ PercentDecoded(urlEncode(EncodedText(s))) = Base64Of(s)
        /\ Len(EncodedText(s)) = base64_enc_len(32)
<1>0. SUFFICES ASSUME NEW s, s \in Bytes(32)
      PROVE
        /\ EncodedText(s) \in Seq(Byte) /\ urlEncode(EncodedText(s)) \in Seq(Byte)
        /\ PercentDecoded(urlEncode(EncodedText(s))) = Base64Of(s)
        /\ Len(EncodedText(s)) = base64_enc_len(32)
  OBVIOUS
<1> DEFINE e == EncodedText(s)
           a == urlEncode(e)
<1>1. s \in Seq(Byte) /\ Len(s) = 32
  BY <1>0 DEF Bytes
<1>2. e \in Seq(Byte) /\ e = Base64Of(s) /\ Len(e) = base64_enc_len(32)
  BY <1>1, EncodedString, EncodesBase64, EncodedSizes
<1>3. <<>> \in Seq(Byte) /\ DecodedOf(<<>>) = Whole(<<>>)
  BY NothingDecoded DEF Undecoded, Whole
<1> HIDE DEF e
<1>4. a \in Seq(Byte) /\ DecodedOf(<<>> \o a) = Whole(<<>> \o e)
  BY <1>2, <1>3, UrlDecoded
<1>5. DecodedOf(a) = Whole(e)
  BY <1>2, <1>4, NothingBefore, Zenon
<1>6. PercentDecoded(a) = e
  BY <1>5 DEF PercentDecoded, DecodedOf, Whole
<1>q. QED
  BY <1>2, <1>4, <1>6 DEF e

\* Strings are strings of characters, and Sha256 never has a full block in its
\* buffer between two calls.
THEOREM StringsAndBuffers == ASSUME CompressMakesWords PROVE TokenSpec => []TokenTypeOK
<1>1. TokenInv => TokenTypeOK
  <2> SUFFICES ASSUME TokenInv PROVE TokenTypeOK
    OBVIOUS
  <2>1. /\ phase \in {"setup", "configured", "keyed", "printed", "signed", "done"}
        /\ device \in Devices /\ ConfigurationIsDevices /\ TokenIsOfHash
        /\ sha \in Sha /\ Len(sha.buffer) < 64
    BY DEF TokenInv, HashIsHmac
  <2>2. /\ sha.state \in Bytes(32) /\ sha.keyBuffer \in Bytes(64)
        /\ sha.buffer \in Seq(Byte) /\ sha.byteCount \in Nat
    BY <2>1 DEF Sha
  <2>3. /\ sha.state \in Seq(Byte) /\ Len(sha.state) = 32
        /\ sha.keyBuffer \in Seq(Byte) /\ Len(sha.keyBuffer) = 64
    BY <2>2 DEF Bytes
  <2>4. <<>> \in Seq(Byte)
    OBVIOUS
  <2>5. host \in Seq(Byte) /\ id \in Seq(Byte) /\ key \in Seq(Byte)
    BY <2>1, <2>4, DeviceStrings, Zenon DEF ConfigurationIsDevices
  <2>6. sas.sr \in Seq(Byte) /\ sas.sig \in Seq(Byte) /\ sas.se \in Seq(Byte)
    <3>1. CASE phase = "done"
      <4>1. phase # "setup"
        BY <3>1
      <4>2. host = device.host /\ id = device.id
        BY <2>1, <4>1 DEF ConfigurationIsDevices
      <4>3. url \in Seq(Byte)
        BY <2>1, <4>2, AddressDecoded
      <4>4. sasExpiryDate \in Seq(Byte)
        BY SketchStrings
      <4>5. urlEncode(EncodedText(sha.state)) \in Seq(Byte)
        BY <2>2, SignatureDecoded
      <4>q. QED
        BY <2>1, <3>1, <4>3, <4>4, <4>5, Zenon DEF TokenIsOfHash
    <3>2. CASE phase # "done"
      BY <2>1, <2>4, <3>2, Zenon DEF TokenIsOfHash
    <3>q. QED
      BY <3>1, <3>2
  <2>7. \A s \in Seq(Byte) : \A i \in DOMAIN s : s[i] \in Byte
    OBVIOUS
  <2>8. \A s \in {host, id, key, sas.sr, sas.sig, sas.se, sha.state, sha.buffer, sha.keyBuffer} :
           \A i \in DOMAIN s : s[i] \in Byte
    <3>1. \A s \in {host, id, key, sas.sr, sas.sig, sas.se, sha.state, sha.buffer, sha.keyBuffer} :
             s \in Seq(Byte)
      BY <2>2, <2>3, <2>5, <2>6, ZenonT(60)
    <3>q. QED
      BY <2>7, <3>1, Zenon
  <2>q. QED
    BY <2>1, <2>2, <2>3, <2>8 DEF TokenTypeOK, HASH_LENGTH, BLOCK_LENGTH, BUFFER_SIZE
<1>q. QED
  BY <1>1, TokenInvariant, PTL

\* Of what createIotHubSas writes to its arrays for the key and for the
\* signature exactly the final '\0' lies outside, also when the key lost two '='.
THEOREM BuffersHold == ASSUME CompressMakesWords PROVE TokenSpec => []OnlyTerminatorOutside
<1>1. TokenInv => OnlyTerminatorOutside
  <2> SUFFICES ASSUME TokenInv PROVE OnlyTerminatorOutside
    OBVIOUS
  <2>1. ASSUME phase = "configured" PROVE Len(base64_decode(key)) = base64_dec_len(key) + 1
    <3>1. device \in Devices /\ DecodedBytes(key) = device.key /\ base64_dec_len(key) = Len(device.key)
      BY <2>1 DEF TokenInv, ConfigurationIsDevices
    <3>2. device.key \in Seq(Byte)
      BY <3>1, DeviceStrings, Zenon
    <3>3. \A a \in Seq(Byte) : Len(Append(a, Nul)) = Len(a) + 1
      OBVIOUS
    <3>q. QED
      BY <3>1, <3>2, <3>3, SMT DEF base64_decode
  <2>2. Len(base64_encode(sha.state)) = base64_enc_len(HASH_LENGTH) + 1
    <3>1. sha.state \in Seq(Byte) /\ Len(sha.state) = HASH_LENGTH
      BY DEF TokenInv, HashIsHmac, Sha, Bytes, HASH_LENGTH
    <3>q. QED
      BY <3>1, BuffersSized, Zenon
  <2>q. QED
    BY <2>1, <2>2 DEF OnlyTerminatorOutside
<1>q. QED
  BY <1>1, TokenInvariant, PTL

\* The hub accepts every token: streaming SHA-256 with one object for the key,
\* the inner and the outer hash is HMAC-SHA-256, the key is the hub's, and the
\* Base64 and percent signs decode to what was signed.
THEOREM TokensAreAccepted == ASSUME CompressMakesWords PROVE TokenSpec => []HubAcceptsToken
<1>1. TokenInv => HubAcceptsToken
  <2> SUFFICES ASSUME TokenInv, phase = "done"
               PROVE  /\ PercentDecoded(sas.sr) = Resource
                      /\ PercentDecoded(sas.sig)
                           = Base64Of(HmacOf(HubsKey, sas.sr \o <<NewLine>> \o sas.se))
    BY DEF HubAcceptsToken
  <2>1. device \in Devices /\ host = device.host /\ id = device.id
    BY Configured
  <2>2. /\ sas.sr = url /\ sas.sig = urlEncode(EncodedText(sha.state))
        /\ sas.se = sasExpiryDate
    BY DEF TokenInv, TokenIsOfHash
  <2>3. sha.state \in Bytes(32) /\ sha.state = HmacOf(HubsKey, Signed)
    BY DEF TokenInv, HashIsHmac, Sha
  <2>4. PercentDecoded(sas.sr) = Resource
    BY <2>1, <2>2, AddressDecoded
  <2>5. Signed = sas.sr \o <<NewLine>> \o sas.se
    BY <2>2 DEF Signed
  <2>6. PercentDecoded(sas.sig) = Base64Of(sha.state)
    BY <2>2, <2>3, SignatureDecoded
  <2>q. QED
    BY <2>3, <2>4, <2>5, <2>6, Zenon
<1>q. QED
  BY <1>1, TokenInvariant, PTL

-----------------------------------------------------------------------------
(* AzureClient.                                                            *)

\* The assumptions on the constants, one by one.
LEMMA TimesAndLimits ==
    /\ wifiPairs \in Nat /\ wifiPairs > 0
    /\ Timeout \in Nat /\ Timeout > 0
    /\ BlockDelay \in Nat /\ BlockDelay > 0
    /\ LoopDelay \in Nat /\ LoopDelay > 0
    /\ OnlineTime \in Nat
    /\ Wrap \in Nat /\ Wrap > Timeout /\ MaxDrops \in Nat
    /\ NtpWait \in Nat /\ NtpWait > 0 /\ NtpWait < Wrap
    /\ NtpRetries \in Nat /\ NtpRetries > 1
    /\ ConnectDelay \in Nat /\ ConnectDelay > 0 /\ ConnectTime \in Nat
    /\ FailureDelay \in Nat /\ FailureDelay > 0
    /\ ReadTimeout \in Nat /\ ReadTimeout > 0
    /\ ResponseLimit \in Nat /\ ResponseLimit > 1
  BY PairsAssumption, TimesAssumption, PublishAssumption

USE TimesAndLimits

-----------------------------------------------------------------------------
\* Until the loop begins no time passes, nothing is tried and nothing joined.
Booting ==
    pc # "loop" =>
        /\ pc = "boot" => pairs = 0
        /\ millis = 0 /\ until = 0 /\ index = 0
        /\ target = None /\ left = 0 /\ since = Timeout
        /\ offline = 0 /\ ~ online /\ ~ wrapped
        /\ stage = "idle" /\ ~ tls

\* The loop is reached only with a configuration.
Looping == pc = "loop" => pairs > 0

\* Time without connection is counted from the loss of the connection.
OnlineCounts == online => offline = 0

\* When the last attempt was made, as LastWifiTime tells as long as nothing has
\* wrapped.
Attempt == until - Timeout

AttemptKnown ==
    pc = "loop" /\ ~ wrapped =>
        /\ Attempt \in 0 .. millis
        /\ since = Least(millis - Attempt, Patience)
        /\ offline <= millis - Attempt

\* The difference of the two clock readings is the time waited, across a wrap.
WaitCounted ==
    stage = "ntp" => millis = begin + waited \/ millis + Wrap = begin + waited

\* Without the time, every request made so far was waited for in full.
RequestsCounted ==
    /\ stage = "idle" => retries = 0 /\ unanswered = 0
    /\ stage = "time" => unanswered <= retries /\ (~ timeSet => unanswered = retries)
    /\ stage = "ntp"  => ~ timeSet /\ unanswered = retries - 1
    /\ stage \notin {"idle", "time", "ntp"} =>
          /\ retries = 0
          /\ unanswered <= NtpRetries - 1
          /\ ~ timeSet => unanswered = NtpRetries - 1

\* A delay is under way only where the round has one.
Delays ==
    /\ stage \in {"time", "ntp"} => left = 0
    /\ stage \in {"connecting", "calling"} => ~ tls
    /\ stage = "connected" /\ tls => left = 0
    /\ stage = "reading" => limit \in 1 .. ResponseLimit - 1

\* The longest that n requests, n lines, a connection or its failure, and the
\* whole of publishToAzure take.
Requests(n) == n * NtpWait
Lines(n)    == n * ReadTimeout
Answer      == IF FailureDelay > Lines(ResponseLimit - 1)
               THEN FailureDelay ELSE Lines(ResponseLimit - 1)
WholeOfIt   == ConnectDelay + ConnectTime + Answer + PublishDelay

\* The longest that the round still takes, apart from the delay under way.
RestOfRound ==
    CASE stage = "time"       -> Requests(NtpRetries - 1 - retries)
                                 + WholeOfIt
      [] stage = "ntp"        -> Requests(NtpRetries - retries) - waited + WholeOfIt
      [] stage = "publish"    -> WholeOfIt
      [] stage = "connecting" -> ConnectTime + Answer + PublishDelay
      [] stage = "calling"    -> Answer + PublishDelay
      [] stage = "connected"  -> (IF tls THEN Answer ELSE 0) + PublishDelay
      [] stage = "reading"    -> Lines(ResponseLimit - limit) + PublishDelay
      [] OTHER                -> PublishDelay

\* A round ends within OnlineTime of the loss of the connection; between rounds
\* the next look at the clock comes within Patience, unless something wrapped.
RoundInTime ==
    IF stage = "idle" THEN wrapped \/ offline + left <= Patience
                      ELSE offline + left + RestOfRound <= OnlineTime

IInv == /\ TypeOK /\ Booting /\ Looping /\ OnlineCounts /\ AttemptKnown
        /\ WaitCounted /\ RequestsCounted /\ Delays /\ RoundInTime

-----------------------------------------------------------------------------
\* Remainders of what is at most one turn of the clock beyond.
LEMMA ModFits ==
    ASSUME NEW n \in Nat, NEW w \in Nat, n < w
    PROVE  n % w = n
  OBVIOUS

LEMMA ModTurns ==
    ASSUME NEW n \in Nat, NEW w \in Nat, n < w
    PROVE  (n + w) % w = n
  OBVIOUS

LEMMA ModRange ==
    ASSUME NEW n \in Nat, NEW w \in Nat \ {0}
    PROVE  n % w \in 0 .. w - 1
  OBVIOUS

\* Requests and lines, one more at a time.
LEMMA OneRequest ==
    ASSUME NEW n \in Nat
    PROVE  Requests(n) \in Nat /\ Requests(n + 1) = Requests(n) + NtpWait /\ Requests(0) = 0
  BY DEF Requests

LEMMA OneLine ==
    ASSUME NEW n \in Nat
    PROVE  Lines(n) \in Nat /\ Lines(n + 1) = Lines(n) + ReadTimeout /\ Lines(0) = 0
  BY DEF Lines

\* OnlineTime is the longest round.
LEMMA RoundLength ==
    /\ PublishDelay \in Nat /\ PublishDelay > 0
    /\ Answer \in Nat /\ FailureDelay <= Answer /\ Lines(ResponseLimit - 1) <= Answer
    /\ Requests(NtpRetries - 1) \in Nat /\ NtpWait <= Requests(NtpRetries - 1)
    /\ WholeOfIt = ConnectDelay + ConnectTime + Answer + PublishDelay
    /\ OnlineTime = Requests(NtpRetries - 1) + WholeOfIt
<1>1. NtpRetries - 1 \in Nat /\ NtpRetries - 2 \in Nat /\ ResponseLimit - 1 \in Nat
  OBVIOUS
<1>2. Requests(NtpRetries - 1) \in Nat /\ Lines(ResponseLimit - 1) \in Nat
  BY <1>1, OneRequest, OneLine
<1>3. /\ PublishDelay \in Nat /\ PublishDelay > 0
      /\ OnlineTime = Requests(NtpRetries - 1) + ConnectDelay + ConnectTime + Answer
                      + PublishDelay
  BY OnlineAssumption DEF Answer, Requests, Lines
<1>4. NtpWait <= Requests(NtpRetries - 1)
  <2>1. /\ Requests(NtpRetries - 2) \in Nat
        /\ Requests(NtpRetries - 2 + 1) = Requests(NtpRetries - 2) + NtpWait
    BY <1>1, OneRequest
  <2>2. NtpRetries - 2 + 1 = NtpRetries - 1
    OBVIOUS
  <2>q. QED
    BY <2>1, <2>2
<1>q. QED
  BY <1>2, <1>3, <1>4 DEF Answer, WholeOfIt

\* Patience covers a round, and a timeout with a pause.
LEMMA PatienceLasts ==
    /\ Pause \in Nat /\ Pause > 0 /\ Pause = BlockDelay + LoopDelay
    /\ Patience \in Nat /\ Patience >= OnlineTime /\ Patience >= Timeout + Pause
  BY DEF Patience, Pause

\* The end of the timeout, which wraps or lies ahead.
LEMMA DueIs ==
    ASSUME NEW t \in Nat
    PROVE  Due(t) \in 0 .. Wrap - 1 /\ (t + Timeout < Wrap => Due(t) = t + Timeout)
<1>1. t + Timeout \in Nat /\ Wrap \in Nat \ {0}
  OBVIOUS
<1>2. (t + Timeout) % Wrap \in 0 .. Wrap - 1
  BY <1>1, ModRange
<1>3. t + Timeout < Wrap => (t + Timeout) % Wrap = t + Timeout
  BY <1>1, ModFits
<1>q. QED
  BY <1>2, <1>3 DEF Due

\* The clock goes on by one, or starts again.
LEMMA Tick ==
    ASSUME NEW t \in 0 .. Wrap - 1
    PROVE  IF t + 1 = Wrap THEN (t + 1) % Wrap = 0 ELSE (t + 1) % Wrap = t + 1
<1>1. CASE t + 1 = Wrap
  BY <1>1, ModTurns
<1>2. CASE t + 1 # Wrap
  BY <1>2, ModFits
<1>q. QED
  BY <1>1, <1>2

\* beginWait decides by the time waited, wherever the clock wraps.
LEMMA WaitingIs ==
    ASSUME TypeOK, WaitCounted, stage = "ntp"
    PROVE  StillWaiting <=> waited < NtpWait
<1>0. waited \in Nat /\ waited < Wrap /\ millis \in Nat /\ begin \in Nat /\ Wrap \in Nat
  BY DEF TypeOK, PublishingTypeOK, WifiTypeOK
<1>1. CASE millis = begin + waited
  <2>1. millis + Wrap - begin = waited + Wrap
    BY <1>0, <1>1
  <2>2. (millis + Wrap - begin) % Wrap = waited
    BY <1>0, <2>1, ModTurns
  <2>q. QED
    BY <2>2 DEF StillWaiting
<1>2. CASE millis + Wrap = begin + waited
  <2>1. millis + Wrap - begin = waited
    BY <1>0, <1>2
  <2>2. (millis + Wrap - begin) % Wrap = waited
    BY <1>0, <2>1, ModFits
  <2>q. QED
    BY <2>2 DEF StillWaiting
<1>q. QED
  BY <1>1, <1>2 DEF WaitCounted

-----------------------------------------------------------------------------
\* The board starts in the invariant.
LEMMA InitIInv == Init => IInv
<1> SUFFICES ASSUME Init PROVE IInv
  OBVIOUS
<1> USE PatienceLasts
<1> USE DEF Init, WifiInit, PublishingInit
<1>1. TypeOK
<2>1. {online, wrapped} \subseteq BOOLEAN /\ {timeSet, tls, chunk} \subseteq BOOLEAN
    OBVIOUS
  <2>2. WifiTypeOK
    BY <2>1 DEF WifiTypeOK, None
  <2>3. PublishingTypeOK
    BY <2>1 DEF PublishingTypeOK, Stages
  <2>q. QED
    BY <2>2, <2>3 DEF TypeOK
<1>2. Booting /\ Looping /\ OnlineCounts /\ AttemptKnown /\ WaitCounted
  BY DEF Booting, Looping, OnlineCounts, AttemptKnown, WaitCounted
<1>3. RequestsCounted /\ Delays /\ RoundInTime
  BY DEF RequestsCounted, Delays, RoundInTime
<1>q. QED
  BY <1>1, <1>2, <1>3 DEF IInv

\* It does so again after an exception or a deep sleep.
LEMMA RestartStep ==
    ASSUME IInv, Restart PROVE IInv'
<1> USE PatienceLasts
<1> USE DEF Restart, Restarted, PublishingRestarted
<1>1. TypeOK'
  <2>1. {online', wrapped'} \subseteq BOOLEAN /\ {timeSet', tls', chunk'} \subseteq BOOLEAN
    OBVIOUS
  <2>2. WifiTypeOK'
    BY <2>1 DEF IInv, TypeOK, WifiTypeOK, None
  <2>3. PublishingTypeOK'
    BY <2>1 DEF IInv, TypeOK, PublishingTypeOK, Stages
  <2>q. QED
    BY <2>2, <2>3 DEF IInv, TypeOK
<1>2. (Booting /\ Looping /\ OnlineCounts /\ AttemptKnown /\ WaitCounted)'
  BY DEF Booting, Looping, OnlineCounts, AttemptKnown, WaitCounted
<1>3. (RequestsCounted /\ Delays /\ RoundInTime)'
  BY DEF RequestsCounted, Delays, RoundInTime
<1>q. QED
  BY <1>1, <1>2, <1>3 DEF IInv

\* initWifi, from setup and from loop: the next attempt, or a pause that ends
\* before Patience is over.
LEMMA InitWifiStep ==
    ASSUME IInv, NEW pause \in 0 .. LoopDelay,
           pairs > 0, stage = "idle", left = 0, pc' = "loop",
           pc = "setup" => pause = 0, pc # "boot",
           InitWifi(pause), UNCHANGED <<publishing, deepSleep, configured>>
    PROVE  IInv'
<1> USE PatienceLasts
<1> USE DEF InitWifi, Blocked, publishing
<1> millis \in 0 .. Wrap - 1 /\ {online, wrapped} \subseteq BOOLEAN
  BY DEF IInv, TypeOK, WifiTypeOK
<1>1. TypeOK'
  <2>1. {online', wrapped'} \subseteq BOOLEAN
    OBVIOUS
  <2>2. WifiTypeOK'
    BY <2>1, DueIs DEF IInv, TypeOK, WifiTypeOK, None, NextIndex, ResetIndex
  <2>q. QED
    BY <2>2 DEF IInv, TypeOK, PublishingTypeOK
<1>2. (Booting /\ Looping /\ OnlineCounts /\ WaitCounted)'
  BY DEF IInv, TypeOK, WifiTypeOK, Booting, Looping, OnlineCounts, WaitCounted
<1>3. AttemptKnown'
  <2>1. CASE online \/ until > millis
    BY <2>1 DEF IInv, TypeOK, WifiTypeOK, Booting, AttemptKnown, Attempt
  <2>2. CASE ~ online /\ ~ until > millis
    <3>1. wrapped' \/ until' = millis + Timeout
      <4>1. until' = Due(millis) /\ (millis + Timeout >= Wrap => wrapped')
        BY <2>2
      <4>2. millis + Timeout < Wrap => Due(millis) = millis + Timeout
        BY DueIs
      <4>3. millis + Timeout < Wrap \/ millis + Timeout >= Wrap
        OBVIOUS
      <4>q. QED
        BY <4>1, <4>2, <4>3, Zenon
    <3>q. QED
      BY <2>2, <3>1 DEF IInv, TypeOK, WifiTypeOK, AttemptKnown, Attempt, Least
  <2>q. QED
    BY <2>1, <2>2
<1>4. (RequestsCounted /\ Delays)'
  BY DEF IInv, RequestsCounted, Delays
<1>5. RoundInTime'
  BY RoundLength
     DEF IInv, TypeOK, WifiTypeOK, RoundInTime, AttemptKnown, Attempt, Booting, OnlineCounts
<1>q. QED
  BY <1>1, <1>2, <1>3, <1>4, <1>5 DEF IInv

\* A unit of time keeps since and offline in step with the clock.
LEMMA ElapseStep ==
    ASSUME IInv, Elapse, left' \in 0 .. left,
           pc' = pc, pc = "loop", configured' = configured, deepSleep' = deepSleep
    PROVE  /\ WifiTypeOK'
           /\ Looping' /\ OnlineCounts' /\ AttemptKnown'
           /\ offline' <= offline + 1
           /\ wrapped => wrapped'
           /\ millis' = millis + 1 \/ millis' + Wrap = millis + 1
<1> USE PatienceLasts
<1> USE DEF Elapse
<1> DEFINE tick == (millis + 1) % Wrap
<1>0. IF millis + 1 = Wrap THEN tick = 0 ELSE tick = millis + 1
  BY Tick DEF IInv, TypeOK, WifiTypeOK
<1> millis' = tick
  OBVIOUS
<1> HIDE DEF tick
<1>1. WifiTypeOK'
  <2>1. {online', wrapped'} \subseteq BOOLEAN
    BY DEF IInv, TypeOK, WifiTypeOK
  <2>q. QED
    BY <1>0, <2>1 DEF IInv, TypeOK, WifiTypeOK, Least
<1>2. (Looping /\ OnlineCounts)'
  BY DEF IInv, Looping, OnlineCounts
<1>3. AttemptKnown'
  <2>1. CASE wrapped'
    BY <2>1 DEF AttemptKnown
  <2>2. CASE ~ wrapped'
    <3>1. ~ wrapped /\ millis' = millis + 1
      BY <2>2, <1>0
    <3>q. QED
      BY <3>1 DEF IInv, TypeOK, WifiTypeOK, AttemptKnown, Attempt, Least
  <2>q. QED
    BY <2>1, <2>2
<1>4. offline' <= offline + 1
  BY DEF IInv, TypeOK, WifiTypeOK, Least
<1>5. wrapped => wrapped'
  OBVIOUS
<1>6. millis' = millis + 1 \/ millis' + Wrap = millis + 1
  BY <1>0
<1>q. QED
  BY <1>1, <1>2, <1>3, <1>4, <1>5, <1>6

\* What is left of a round is a time.
LEMMA RestNat ==
    ASSUME IInv, stage # "idle" PROVE RestOfRound \in Nat
<1>0. retries \in 0 .. NtpRetries - 1 /\ waited \in 0 .. NtpWait /\ tls \in BOOLEAN
  BY DEF IInv, TypeOK, PublishingTypeOK
<1> DEFINE n == NtpRetries - 1 - retries
<1>1. n \in Nat /\ NtpRetries - retries = n + 1
  BY <1>0
<1>2. Requests(n) \in Nat /\ Requests(n + 1) - waited \in Nat
  <2>1. Requests(n) \in Nat /\ Requests(n + 1) = Requests(n) + NtpWait
    BY <1>1, OneRequest
  <2>q. QED
    BY <1>0, <2>1
<1>3. stage = "reading" => Lines(ResponseLimit - limit) \in Nat
  BY OneLine DEF IInv, Delays
<1>q. QED
  BY <1>0, <1>1, <1>2, <1>3, RoundLength DEF RestOfRound

\* A delay goes on: offline grows by no more than left shrinks.
LEMMA DelayStep ==
    ASSUME IInv, DelayGoesOn PROVE IInv'
<1>0. /\ pc = "loop" /\ left' \in 0 .. left /\ left' < left /\ left > 0
      /\ UNCHANGED <<publishing, pc, deepSleep, configured>>
      /\ Elapse
  BY DEF IInv, TypeOK, WifiTypeOK, Booting, DelayGoesOn, Delay
<1>1. /\ WifiTypeOK' /\ Looping' /\ OnlineCounts' /\ AttemptKnown'
      /\ offline' <= offline + 1
      /\ wrapped => wrapped'
  BY <1>0, ElapseStep
<1>2. TypeOK'
  BY <1>1, <1>0 DEF IInv, TypeOK, PublishingTypeOK, publishing
<1>3. (Booting /\ WaitCounted /\ RequestsCounted /\ Delays)'
  BY <1>0
     DEF IInv, TypeOK, WifiTypeOK, Booting, WaitCounted, RequestsCounted, Delays, publishing
<1>4. RoundInTime'
  <2>1. offline \in Nat /\ left \in Nat
    BY DEF IInv, TypeOK, WifiTypeOK
  <2>2. PICK o \in Nat, l \in Nat : offline' = o /\ left' = l
    BY <1>0, <1>1, <2>1 DEF WifiTypeOK
  <2>3. o + l <= offline + left
    BY <2>1, <2>2, <1>0, <1>1
  <2>4. RestOfRound' = RestOfRound /\ (stage # "idle" => RestOfRound \in Nat)
    <3>1. RestOfRound' = RestOfRound
      BY <1>0 DEF RestOfRound, publishing
    <3>q. QED
      BY <3>1, RestNat
  <2>5. CASE stage = "idle"
    <3>1. wrapped \/ offline + left <= Patience
      BY <2>5 DEF IInv, RoundInTime
    <3>2. wrapped' \/ o + l <= Patience
      BY <1>1, <2>1, <2>3, <3>1, PatienceLasts
    <3>q. QED
      BY <1>0, <2>2, <2>5, <3>2 DEF RoundInTime, publishing
  <2>6. CASE stage # "idle"
    <3>1. offline + left + RestOfRound <= OnlineTime
      BY <2>6 DEF IInv, RoundInTime
    <3>2. o + l + RestOfRound <= OnlineTime
      BY <2>1, <2>3, <2>4, <2>6, <3>1
    <3>q. QED
      BY <1>0, <2>2, <2>4, <2>6, <3>2 DEF RoundInTime, publishing
  <2>q. QED
    BY <2>5, <2>6
<1>q. QED
  BY <1>1, <1>2, <1>3, <1>4 DEF IInv

-----------------------------------------------------------------------------
(* The steps of a round: they leave the WiFi alone, except for a delay.    *)

\* Then what is known of the WiFi stays known.
LEMMA SameWifi ==
    ASSUME IInv, pc = "loop", left' \in 0 .. OnlineTime + Pause, PublishingTypeOK',
           UNCHANGED <<pairs, millis, until, index, online, target, since, offline, wrapped,
                       drops, pc, deepSleep, configured>>
    PROVE  (TypeOK /\ Booting /\ Looping /\ OnlineCounts /\ AttemptKnown)'
<1> USE PatienceLasts DEF IInv
<1>1. TypeOK'
  BY DEF TypeOK, WifiTypeOK
<1>2. (Booting /\ Looping /\ OnlineCounts /\ AttemptKnown)'
  BY DEF Booting, Looping, OnlineCounts, AttemptKnown, Attempt
<1>q. QED
  BY <1>1, <1>2

\* TypeOK, one variable at a time.
LEMMA LocalsTyped ==
    ASSUME TypeOK
    PROVE  /\ stage \in Stages /\ timeSet \in BOOLEAN /\ tls \in BOOLEAN /\ chunk \in BOOLEAN
           /\ retries \in 0 .. NtpRetries - 1 /\ unanswered \in 0 .. retries + NtpRetries
           /\ begin \in 0 .. Wrap - 1 /\ waited \in 0 .. NtpWait
           /\ limit \in 0 .. ResponseLimit
           /\ millis \in 0 .. Wrap - 1
           /\ left \in Nat /\ offline \in Nat
           /\ stage # "idle" => pc = "loop"
  BY PatienceLasts DEF TypeOK, PublishingTypeOK, WifiTypeOK

\* What is left to show of a step of a round.
LEMMA RoundStep ==
    ASSUME IInv, pc = "loop", left' \in 0 .. OnlineTime + Pause, PublishingTypeOK',
           UNCHANGED <<pairs, millis, until, index, online, target, since, offline, wrapped,
                       drops, pc, deepSleep, configured>>,
           (WaitCounted /\ RequestsCounted /\ Delays)', RoundInTime'
    PROVE  IInv'
  BY SameWifi, Zenon DEF IInv

\* A round begins: the whole of OnlineTime is ahead.
LEMMA LoopOnlineStep ==
    ASSUME IInv, LoopOnline PROVE IInv'
<1>0. TypeOK
  BY DEF IInv
<1> USE <1>0, LocalsTyped
        DEF IInv, LoopOnline, Looking, StartRound, publishing, local, wifi, StartDelay
<1>1. PublishingTypeOK' /\ left' \in 0 .. OnlineTime
  <2>1. {timeSet', tls', chunk'} \subseteq BOOLEAN
    OBVIOUS
  <2>q. QED
    BY <2>1, RoundLength DEF PublishingTypeOK, Stages, RequestsCounted, Delays
<1>2. (WaitCounted /\ RequestsCounted /\ Delays)'
  BY DEF WaitCounted, RequestsCounted, Delays
<1>3. RoundInTime'
  BY RoundLength, PatienceLasts
     DEF RoundInTime, RestOfRound, Delays, RequestsCounted, OnlineCounts
<1>q. QED
  BY <1>1, <1>2, <1>3, RoundStep, PatienceLasts

\* A round ends with the delay that was kept for it.
LEMMA LoopWaitsStep ==
    ASSUME IInv, LoopWaits PROVE IInv'
<1>0. TypeOK
  BY DEF IInv
<1> USE <1>0, LocalsTyped
        DEF IInv, LoopWaits, EndRound, publishing, local, wifi, StartDelay
<1>1. PublishingTypeOK' /\ left' \in 0 .. OnlineTime
  <2>1. {timeSet', tls', chunk'} \subseteq BOOLEAN
    OBVIOUS
  <2>q. QED
    BY <2>1, RoundLength DEF PublishingTypeOK, Stages, RequestsCounted, Delays
<1>2. (WaitCounted /\ RequestsCounted /\ Delays)'
  BY DEF WaitCounted, RequestsCounted, Delays
<1>3. RoundInTime'
  BY RoundLength, PatienceLasts
     DEF RoundInTime, RestOfRound, Delays, RequestsCounted, OnlineCounts
<1>q. QED
  BY <1>1, <1>2, <1>3, RoundStep, PatienceLasts

\* The next request takes the place of one of those ahead.
LEMMA RequestTimeStep ==
    ASSUME IInv, RequestTime, UNCHANGED <<pc, deepSleep, configured>> PROVE IInv'
<1>0. TypeOK
  BY DEF IInv
<1> USE <1>0, LocalsTyped DEF IInv, RequestTime, publishing, local, wifi, StartDelay
<1> DEFINE n == NtpRetries - 1 - retries
<1>a. n \in Nat /\ NtpRetries - retries = n + 1
  OBVIOUS
<1>b. Requests(n) \in Nat /\ Requests(n + 1) = Requests(n) + NtpWait
  BY <1>a, OneRequest
<1>1. PublishingTypeOK' /\ left' \in 0 .. OnlineTime
  <2>1. {timeSet', tls', chunk'} \subseteq BOOLEAN
    OBVIOUS
  <2>q. QED
    BY <2>1, RoundLength DEF PublishingTypeOK, Stages, RequestsCounted, Delays
<1>2. (WaitCounted /\ RequestsCounted /\ Delays)'
  BY DEF WaitCounted, RequestsCounted, Delays
<1>3. RoundInTime'
  <2>1. NtpRetries - (retries + 1) = n
    OBVIOUS
  <2>q. QED
    BY <2>1, <1>b, RoundLength DEF RoundInTime, RestOfRound, Delays
<1>q. QED
  BY <1>1, <1>2, <1>3, RoundStep, PatienceLasts

\* Without the time, all the requests have been made.
LEMMA TimeIsOverStep ==
    ASSUME IInv, TimeIsOver, UNCHANGED <<pc, deepSleep, configured>> PROVE IInv'
<1>0. TypeOK
  BY DEF IInv
<1> USE <1>0, LocalsTyped DEF IInv, TimeIsOver, publishing, local, wifi, StartDelay
<1> DEFINE n == NtpRetries - 1 - retries
<1>a. n \in Nat /\ NtpRetries - retries = n + 1
  OBVIOUS
<1>b. Requests(n) \in Nat /\ Requests(n + 1) = Requests(n) + NtpWait
  BY <1>a, OneRequest
<1>1. PublishingTypeOK' /\ left' \in 0 .. OnlineTime
  <2>1. {timeSet', tls', chunk'} \subseteq BOOLEAN
    OBVIOUS
  <2>q. QED
    BY <2>1, RoundLength DEF PublishingTypeOK, Stages, RequestsCounted, Delays
<1>2. (WaitCounted /\ RequestsCounted /\ Delays)'
  BY DEF WaitCounted, RequestsCounted, Delays
<1>3. RoundInTime'
  BY <1>a, <1>b, RoundLength DEF RoundInTime, RestOfRound, Delays
<1>q. QED
  BY <1>1, <1>2, <1>3, RoundStep, PatienceLasts

\* An answer saves the rest of the wait.
LEMMA NtpResponseStep ==
    ASSUME IInv, NtpResponse, UNCHANGED <<pc, deepSleep, configured>> PROVE IInv'
<1>0. TypeOK
  BY DEF IInv
<1> USE <1>0, LocalsTyped DEF IInv, NtpResponse, publishing, local, wifi, StartDelay
<1> DEFINE n == NtpRetries - 1 - retries
<1>a. n \in Nat /\ NtpRetries - retries = n + 1
  OBVIOUS
<1>b. Requests(n) \in Nat /\ Requests(n + 1) = Requests(n) + NtpWait
  BY <1>a, OneRequest
<1>1. PublishingTypeOK' /\ left' \in 0 .. OnlineTime
  <2>1. {timeSet', tls', chunk'} \subseteq BOOLEAN
    OBVIOUS
  <2>q. QED
    BY <2>1, RoundLength DEF PublishingTypeOK, Stages, RequestsCounted, Delays
<1>2. (WaitCounted /\ RequestsCounted /\ Delays)'
  BY DEF WaitCounted, RequestsCounted, Delays
<1>3. RoundInTime'
  BY <1>a, <1>b, RoundLength DEF RoundInTime, RestOfRound, Delays
<1>q. QED
  BY <1>1, <1>2, <1>3, RoundStep, PatienceLasts

\* No answer: the request was waited for in full.
LEMMA NoNtpResponseStep ==
    ASSUME IInv, NoNtpResponse, UNCHANGED <<pc, deepSleep, configured>> PROVE IInv'
<1>0. TypeOK
  BY DEF IInv
<1> USE <1>0, LocalsTyped
        DEF IInv, NoNtpResponse, publishing, local, wifi, StartDelay
<1> DEFINE n == NtpRetries - 1 - retries
<1>a. n \in Nat /\ NtpRetries - retries = n + 1
  OBVIOUS
<1>b. Requests(n) \in Nat /\ Requests(n + 1) = Requests(n) + NtpWait
  BY <1>a, OneRequest
<1>c. waited = NtpWait
  BY WaitingIs
<1>1. PublishingTypeOK' /\ left' \in 0 .. OnlineTime
  <2>1. {timeSet', tls', chunk'} \subseteq BOOLEAN
    OBVIOUS
  <2>q. QED
    BY <2>1, RoundLength DEF PublishingTypeOK, Stages, RequestsCounted, Delays
<1>2. (WaitCounted /\ RequestsCounted /\ Delays)'
  BY <1>c DEF WaitCounted, RequestsCounted, Delays
<1>3. RoundInTime'
  BY <1>a, <1>b, RoundLength DEF RoundInTime, RestOfRound, Delays
<1>q. QED
  BY <1>1, <1>2, <1>3, RoundStep, PatienceLasts

\* A set clock that asks again takes the time kept for the first request.
LEMMA SynchronizeAgainStep ==
    ASSUME IInv, SynchronizeAgain, UNCHANGED <<pc, deepSleep, configured>> PROVE IInv'
<1>0. TypeOK
  BY DEF IInv
<1> USE <1>0, LocalsTyped
        DEF IInv, SynchronizeAgain, publishing, local, wifi, StartDelay
<1>1. PublishingTypeOK' /\ left' \in 0 .. OnlineTime
  <2>1. {timeSet', tls', chunk'} \subseteq BOOLEAN
    OBVIOUS
  <2>q. QED
    BY <2>1, RoundLength DEF PublishingTypeOK, Stages, RequestsCounted, Delays
<1>2. (WaitCounted /\ RequestsCounted /\ Delays)'
  BY DEF WaitCounted, RequestsCounted, Delays
<1>3. RoundInTime'
  <2>1. NtpRetries - 1 - retries = NtpRetries - 1
    OBVIOUS
  <2>q. QED
    BY <2>1, RoundLength, PatienceLasts DEF RoundInTime, RestOfRound, Delays
<1>q. QED
  BY <1>1, <1>2, <1>3, RoundStep, PatienceLasts

\* The delay before the connection was kept for it.
LEMMA ConnectToAzureStep ==
    ASSUME IInv, ConnectToAzure, UNCHANGED <<pc, deepSleep, configured>> PROVE IInv'
<1>0. TypeOK
  BY DEF IInv
<1> USE <1>0, LocalsTyped
        DEF IInv, ConnectToAzure, publishing, local, wifi, StartDelay
<1>1. PublishingTypeOK' /\ left' \in 0 .. OnlineTime
  <2>1. {timeSet', tls', chunk'} \subseteq BOOLEAN
    OBVIOUS
  <2>q. QED
    BY <2>1, RoundLength DEF PublishingTypeOK, Stages, RequestsCounted, Delays
<1>2. (WaitCounted /\ RequestsCounted /\ Delays)'
  BY DEF WaitCounted, RequestsCounted, Delays
<1>3. RoundInTime'
  BY RoundLength, PatienceLasts
     DEF RoundInTime, RestOfRound, Delays, RequestsCounted, OnlineCounts
<1>q. QED
  BY <1>1, <1>2, <1>3, RoundStep, PatienceLasts

\* So was the time of the call.
LEMMA CallHostStep ==
    ASSUME IInv, CallHost, UNCHANGED <<pc, deepSleep, configured>> PROVE IInv'
<1>0. TypeOK
  BY DEF IInv
<1> USE <1>0, LocalsTyped
        DEF IInv, CallHost, publishing, local, wifi, StartDelay
<1>1. PublishingTypeOK' /\ left' \in 0 .. OnlineTime
  <2>1. {timeSet', tls', chunk'} \subseteq BOOLEAN
    OBVIOUS
  <2>q. QED
    BY <2>1, RoundLength DEF PublishingTypeOK, Stages, RequestsCounted, Delays
<1>2. (WaitCounted /\ RequestsCounted /\ Delays)'
  BY DEF WaitCounted, RequestsCounted, Delays
<1>3. RoundInTime'
  BY RoundLength, PatienceLasts
     DEF RoundInTime, RestOfRound, Delays, RequestsCounted, OnlineCounts
<1>q. QED
  BY <1>1, <1>2, <1>3, RoundStep, PatienceLasts

\* Without a network there is no call.
LEMMA NoNetworkStep ==
    ASSUME IInv, NoNetwork, UNCHANGED <<pc, deepSleep, configured>> PROVE IInv'
<1>0. TypeOK
  BY DEF IInv
<1> USE <1>0, LocalsTyped
        DEF IInv, NoNetwork, publishing, local, wifi
<1>1. PublishingTypeOK' /\ left' \in 0 .. OnlineTime
  <2>1. {timeSet', tls', chunk'} \subseteq BOOLEAN
    OBVIOUS
  <2>q. QED
    BY <2>1, RoundLength DEF PublishingTypeOK, Stages, RequestsCounted, Delays
<1>2. (WaitCounted /\ RequestsCounted /\ Delays)'
  BY DEF WaitCounted, RequestsCounted, Delays
<1>3. RoundInTime'
  BY RoundLength, PatienceLasts
     DEF RoundInTime, RestOfRound, Delays, RequestsCounted, OnlineCounts
<1>q. QED
  BY <1>1, <1>2, <1>3, RoundStep, PatienceLasts

\* A connection leaves the time of the answer.
LEMMA HostConnectedStep ==
    ASSUME IInv, HostConnected, UNCHANGED <<pc, deepSleep, configured>> PROVE IInv'
<1>0. TypeOK
  BY DEF IInv
<1> USE <1>0, LocalsTyped
        DEF IInv, HostConnected, publishing, local, wifi, StartDelay
<1>1. PublishingTypeOK' /\ left' \in 0 .. OnlineTime
  <2>1. {timeSet', tls', chunk'} \subseteq BOOLEAN
    OBVIOUS
  <2>q. QED
    BY <2>1, RoundLength DEF PublishingTypeOK, Stages, RequestsCounted, Delays
<1>2. (WaitCounted /\ RequestsCounted /\ Delays)'
  BY DEF WaitCounted, RequestsCounted, Delays
<1>3. RoundInTime'
  BY RoundLength, PatienceLasts
     DEF RoundInTime, RestOfRound, Delays, RequestsCounted, OnlineCounts
<1>q. QED
  BY <1>1, <1>2, <1>3, RoundStep, PatienceLasts

\* A failure takes no longer than an answer.
LEMMA HostConnectionFailsStep ==
    ASSUME IInv, HostConnectionFails, UNCHANGED <<pc, deepSleep, configured>> PROVE IInv'
<1>0. TypeOK
  BY DEF IInv
<1> USE <1>0, LocalsTyped
        DEF IInv, HostConnectionFails, publishing, local, wifi, StartDelay
<1>1. PublishingTypeOK' /\ left' \in 0 .. OnlineTime
  <2>1. {timeSet', tls', chunk'} \subseteq BOOLEAN
    OBVIOUS
  <2>q. QED
    BY <2>1, RoundLength DEF PublishingTypeOK, Stages, RequestsCounted, Delays
<1>2. (WaitCounted /\ RequestsCounted /\ Delays)'
  BY DEF WaitCounted, RequestsCounted, Delays
<1>3. RoundInTime'
  BY RoundLength, PatienceLasts
     DEF RoundInTime, RestOfRound, Delays, RequestsCounted, OnlineCounts
<1>q. QED
  BY <1>1, <1>2, <1>3, RoundStep, PatienceLasts

\* Without a connection the round is over.
LEMMA NotConnectedStep ==
    ASSUME IInv, NotConnected, UNCHANGED <<pc, deepSleep, configured>> PROVE IInv'
<1>0. TypeOK
  BY DEF IInv
<1> USE <1>0, LocalsTyped
        DEF IInv, NotConnected, publishing, local, wifi, StartDelay
<1>1. PublishingTypeOK' /\ left' \in 0 .. OnlineTime
  <2>1. {timeSet', tls', chunk'} \subseteq BOOLEAN
    OBVIOUS
  <2>q. QED
    BY <2>1, RoundLength DEF PublishingTypeOK, Stages, RequestsCounted, Delays
<1>2. (WaitCounted /\ RequestsCounted /\ Delays)'
  BY DEF WaitCounted, RequestsCounted, Delays
<1>3. RoundInTime'
  BY RoundLength, PatienceLasts
     DEF RoundInTime, RestOfRound, Delays, RequestsCounted, OnlineCounts
<1>q. QED
  BY <1>1, <1>2, <1>3, RoundStep, PatienceLasts

\* The message is sent: the answer is ahead.
LEMMA SendMessageStep ==
    ASSUME IInv, SendMessage, UNCHANGED <<pc, deepSleep, configured>> PROVE IInv'
<1>0. TypeOK
  BY DEF IInv
<1> USE <1>0, LocalsTyped DEF IInv, SendMessage, publishing, local, wifi, StartDelay
<1>1. PublishingTypeOK' /\ left' \in 0 .. OnlineTime
  <2>1. {timeSet', tls', chunk'} \subseteq BOOLEAN
    OBVIOUS
  <2>q. QED
    BY <2>1, RoundLength DEF PublishingTypeOK, Stages, RequestsCounted, Delays
<1>2. (WaitCounted /\ RequestsCounted /\ Delays)'
  BY DEF WaitCounted, RequestsCounted, Delays
<1>3. RoundInTime'
  <2>1. ResponseLimit - 1 \in Nat /\ Lines(ResponseLimit - 1) \in Nat
    BY OneLine
  <2>q. QED
    BY <2>1, RoundLength DEF RoundInTime, RestOfRound, Delays
<1>q. QED
  BY <1>1, <1>2, <1>3, RoundStep, PatienceLasts

\* Each line takes at most the time kept for one.
LEMMA ReadChunkStep ==
    ASSUME IInv, ReadChunk, UNCHANGED <<pc, deepSleep, configured>> PROVE IInv'
<1>0. TypeOK
  BY DEF IInv
<1> USE <1>0, LocalsTyped DEF IInv, ReadChunk, publishing, local, wifi, StartDelay
<1> DEFINE n == ResponseLimit - 1 - limit
<1>a. limit \in Nat /\ n \in Nat /\ ResponseLimit - limit = n + 1
  BY DEF Delays
<1>b. Lines(n) \in Nat /\ Lines(n + 1) = Lines(n) + ReadTimeout
  BY <1>a, OneLine
<1>c. Lines(n + 1) <= OnlineTime
  BY <1>a, <1>b, RoundLength DEF RoundInTime, RestOfRound
<1>1. PublishingTypeOK' /\ left' \in 0 .. OnlineTime
  <2>1. timeSet' \in BOOLEAN /\ tls' \in BOOLEAN /\ chunk' \in BOOLEAN
    OBVIOUS
  <2>2. limit' \in 0 .. ResponseLimit
    BY <1>a DEF Least
  <2>3. left' \in 0 .. OnlineTime
    BY <1>b, <1>c
  <2>4. stage' \in Stages
    BY DEF Stages
  <2>q. QED
    BY <2>1, <2>2, <2>3, <2>4 DEF PublishingTypeOK
<1>2. (WaitCounted /\ RequestsCounted /\ Delays)'
  BY <1>a DEF WaitCounted, RequestsCounted, Delays, GoesOnReading, Least
<1>3. RoundInTime'
  <2>1. left' = 0 \/ left' = ReadTimeout
    OBVIOUS
  <2>2. CASE GoesOnReading
    <3>1. stage' = "reading" /\ limit' = limit + 1 /\ ResponseLimit - limit' = n
      BY <2>2, <1>a DEF GoesOnReading, Least
    <3>q. QED
      BY <2>1, <3>1, <1>a, <1>b, RoundLength DEF RoundInTime, RestOfRound
  <2>3. CASE ~ GoesOnReading
    BY <2>1, <2>3, <1>a, <1>b, RoundLength DEF RoundInTime, RestOfRound
  <2>q. QED
    BY <2>2, <2>3
<1>q. QED
  BY <1>1, <1>2, <1>3, RoundStep, PatienceLasts

\* A connection that breaks shortens the round.
LEMMA TlsBreaksStep ==
    ASSUME IInv, TlsBreaks, UNCHANGED <<pc, deepSleep, configured>> PROVE IInv'
<1>0. TypeOK
  BY DEF IInv
<1> USE <1>0, LocalsTyped DEF IInv, TlsBreaks, publishing, local, wifi
<1>1. PublishingTypeOK' /\ left' \in 0 .. OnlineTime + Pause /\ pc = "loop"
  <2>1. {timeSet', tls', chunk'} \subseteq BOOLEAN
    OBVIOUS
  <2>q. QED
    BY <2>1 DEF TypeOK, WifiTypeOK, PublishingTypeOK, Booting
<1>2. (WaitCounted /\ RequestsCounted /\ Delays)'
  BY DEF WaitCounted, RequestsCounted, Delays
<1>3. RoundInTime'
  BY RoundLength, PatienceLasts DEF RoundInTime, RestOfRound, Delays
<1>q. QED
  BY <1>1, <1>2, <1>3, RoundStep

-----------------------------------------------------------------------------
(* The other steps.                                                        *)

\* A unit of busy waiting is one of those kept for the request.
LEMMA NtpPollStep ==
    ASSUME IInv, NtpPoll, UNCHANGED <<pc, deepSleep, configured>> PROVE IInv'
<1>0. /\ TypeOK /\ stage = "ntp" /\ waited < NtpWait /\ waited' = waited + 1 /\ Elapse
      /\ left = 0
      /\ UNCHANGED <<left, stage, timeSet, retries, begin, unanswered, tls, chunk, limit,
                     pc, deepSleep, configured>>
  BY WaitingIs DEF IInv, NtpPoll, Delays
<1>1. /\ pc = "loop"
      /\ WifiTypeOK' /\ Looping' /\ OnlineCounts' /\ AttemptKnown'
      /\ offline' <= offline + 1
      /\ millis' = millis + 1 \/ millis' + Wrap = millis + 1
  BY <1>0, LocalsTyped, ElapseStep
<1>2. TypeOK'
  BY <1>0, <1>1, LocalsTyped DEF IInv, TypeOK, PublishingTypeOK
<1>3. WaitCounted'
  <2>1. PICK m \in 0 .. Wrap - 1 : millis' = m
    BY <1>1 DEF WifiTypeOK
  <2>2. m = begin + waited + 1 \/ m + Wrap = begin + waited + 1
    BY <1>0, <1>1, <2>1, LocalsTyped DEF IInv, WaitCounted
  <2>q. QED
    BY <1>0, <2>1, <2>2, LocalsTyped DEF WaitCounted
<1>4. (Booting /\ RequestsCounted /\ Delays)'
  BY <1>0, <1>1, LocalsTyped DEF IInv, Booting, RequestsCounted, Delays
<1>5. RoundInTime'
  <2>1. PICK o \in Nat : offline' = o
    BY <1>1, PatienceLasts DEF WifiTypeOK
  <2>2. NtpRetries - retries \in Nat /\ Requests(NtpRetries - retries) \in Nat
    BY <1>0, LocalsTyped, OneRequest
  <2>q. QED
    BY <1>0, <1>1, <2>1, <2>2, LocalsTyped, RoundLength
       DEF IInv, RoundInTime, RestOfRound
<1>q. QED
  BY <1>1, <1>2, <1>3, <1>4, <1>5 DEF IInv

\* setup and loop look at the connection.
LEMMA LooksStep ==
    ASSUME IInv, Setup \/ LoopOffline PROVE IInv'
<1>1. stage = "idle" /\ left = 0 /\ pairs > 0 /\ pc # "boot"
  BY DEF IInv, Booting, Looping, Setup, LoopOffline, Looking
<1>2. PICK pause \in 0 .. LoopDelay :
          /\ InitWifi(pause)
          /\ pc = "setup" => pause = 0
          /\ pc' = "loop" /\ UNCHANGED <<publishing, deepSleep, configured>>
  <2>1. CASE Setup
    BY <2>1 DEF Setup
  <2>2. CASE LoopOffline
    BY <2>2 DEF LoopOffline, Looking
  <2>q. QED
    BY <2>1, <2>2
<1>q. QED
  BY <1>1, <1>2, InitWifiStep

\* The connection comes: time without it is over.
LEMMA JoinStep ==
    ASSUME IInv, pc = "loop", ~ online, target \in Working,
           online' = TRUE, offline' = 0,
           left' = left \/ (stage = "idle" /\ left' = LoopDelay),
           UNCHANGED <<pairs, millis, until, index, target, since, wrapped, drops,
                       publishing, pc, deepSleep, configured>>
    PROVE  IInv'
<1>0. TypeOK
  BY DEF IInv
<1> USE <1>0, LocalsTyped, PatienceLasts DEF IInv, publishing
<1>1. TypeOK'
  BY DEF TypeOK, WifiTypeOK, PublishingTypeOK
<1>2. (Booting /\ Looping /\ OnlineCounts /\ AttemptKnown /\ WaitCounted)'
  BY
     DEF Booting, Looping, OnlineCounts, AttemptKnown, Attempt, WaitCounted, TypeOK, WifiTypeOK
<1>3. (RequestsCounted /\ Delays)'
  BY DEF RequestsCounted, Delays
<1>4. RoundInTime'
  <2>1. RestOfRound' = RestOfRound
    BY DEF RestOfRound
  <2>2. CASE stage = "idle"
    BY <2>2 DEF RoundInTime
  <2>3. CASE stage # "idle"
    BY <2>1, <2>3, RestNat DEF RoundInTime
  <2>q. QED
    BY <2>2, <2>3
<1>q. QED
  BY <1>1, <1>2, <1>3, <1>4

\* The radio joins, or loses, its network.
LEMMA RadioStep ==
    ASSUME IInv, LoopJustJoined \/ Radio PROVE IInv'
<1>1. target \in Working => pc = "loop"
  BY PairsAssumption DEF IInv, Booting, None
<1>2. CASE LoopJustJoined
  <2>1. left' = left \/ (stage = "idle" /\ left' = LoopDelay)
    BY <1>2 DEF LoopJustJoined, InitWifiJustJoined, Looking
  <2>q. QED
    BY <1>1, <1>2, <2>1, JoinStep DEF LoopJustJoined, InitWifiJustJoined, Looking
<1>3. CASE Radio /\ Join
  <2>1. UNCHANGED <<publishing, pc, deepSleep, configured>>
    BY <1>3 DEF Radio
  <2>2. /\ ~ online /\ target \in Working /\ online' = TRUE /\ offline' = 0
        /\ left' = left \/ (stage = "idle" /\ left' = LoopDelay)
        /\ UNCHANGED <<pairs, millis, until, index, target, since, wrapped, drops>>
    BY <1>3 DEF Join
  <2>q. QED
    BY <1>1, <2>1, <2>2, JoinStep
<1>4. CASE Radio /\ Drop
  <2>0. TypeOK
    BY DEF IInv
  <2> USE <1>4, <2>0, LocalsTyped, PatienceLasts DEF IInv, publishing, Radio, Drop
  <2>1. TypeOK'
    <3>1. {online', wrapped'} \subseteq BOOLEAN
      BY DEF TypeOK, WifiTypeOK
    <3>2. drops' \in 0 .. MaxDrops
      BY DEF TypeOK, WifiTypeOK
    <3>q. QED
      BY <3>1, <3>2 DEF TypeOK, WifiTypeOK, PublishingTypeOK
  <2>2. (Booting /\ Looping /\ OnlineCounts /\ AttemptKnown /\ WaitCounted)'
    BY DEF Booting, Looping, OnlineCounts, AttemptKnown, Attempt, WaitCounted
  <2>3. (RequestsCounted /\ Delays /\ RoundInTime)'
    BY DEF RequestsCounted, Delays, RoundInTime, RestOfRound
  <2>q. QED
    BY <2>1, <2>2, <2>3
<1>q. QED
  BY <1>2, <1>3, <1>4 DEF Radio

\* A configuration is read, or none.
LEMMA ConfigStep ==
    ASSUME IInv, InitCloudConfig PROVE IInv'
<1>0. TypeOK
  BY DEF IInv
<1> USE <1>0, LocalsTyped DEF IInv, InitCloudConfig, publishing
<1>1. TypeOK'
  BY DEF TypeOK, WifiTypeOK, PublishingTypeOK, Booting, None
<1>2. (Booting /\ Looping /\ OnlineCounts /\ AttemptKnown /\ WaitCounted)'
  BY DEF Booting, Looping, OnlineCounts, AttemptKnown, WaitCounted
<1>3. (RequestsCounted /\ Delays /\ RoundInTime)'
  BY DEF RequestsCounted, Delays, RoundInTime, RestOfRound
<1>q. QED
  BY <1>1, <1>2, <1>3

\* Nothing changes.
LEMMA StutterStep ==
    ASSUME IInv, UNCHANGED vars PROVE IInv'
<1> USE DEF IInv, vars, wifi, publishing
<1>1. TypeOK'
  BY DEF TypeOK, WifiTypeOK, PublishingTypeOK
<1>2. (Booting /\ Looping /\ OnlineCounts /\ AttemptKnown /\ WaitCounted)'
  BY DEF Booting, Looping, OnlineCounts, AttemptKnown, Attempt, WaitCounted
<1>3. (RequestsCounted /\ Delays /\ RoundInTime)'
  BY DEF RequestsCounted, Delays, RoundInTime, RestOfRound
<1>q. QED
  BY <1>1, <1>2, <1>3

\* Every step keeps the invariant.
LEMMA InvariantStep == IInv /\ [Next]_vars => IInv'
<1> SUFFICES ASSUME IInv, [Next]_vars PROVE IInv'
  OBVIOUS
<1>1. CASE InitCloudConfig
  BY <1>1, ConfigStep
<1>2. CASE Setup \/ LoopOffline
  BY <1>2, LooksStep
<1>3. CASE SetupFails \/ LoopSleeps
  BY <1>3, RestartStep DEF SetupFails, LoopSleeps
<1>4. CASE LoopOnline
  BY <1>4, LoopOnlineStep
<1>5. CASE LoopWaits
  BY <1>5, LoopWaitsStep
<1>6. CASE DelayGoesOn
  BY <1>6, DelayStep
<1>7. CASE Round
  <2> USE <1>7 DEF Round
  <2>1. CASE RequestTime
    BY <2>1, RequestTimeStep
  <2>2. CASE TimeIsOver
    BY <2>2, TimeIsOverStep
  <2>3. CASE NtpPoll
    BY <2>3, NtpPollStep
  <2>4. CASE NoNtpResponse
    BY <2>4, NoNtpResponseStep
  <2>5. CASE ConnectToAzure
    BY <2>5, ConnectToAzureStep
  <2>6. CASE HostConnectionFails
    BY <2>6, HostConnectionFailsStep
  <2>7. CASE NotConnected
    BY <2>7, NotConnectedStep
  <2>8. CASE SendMessage
    BY <2>8, SendMessageStep
  <2>9. CASE ReadChunk
    BY <2>9, ReadChunkStep
  <2>10. CASE SynchronizeAgain
    BY <2>10, SynchronizeAgainStep
  <2>11. CASE CallHost
    BY <2>11, CallHostStep
  <2>12. CASE NoNetwork
    BY <2>12, NoNetworkStep
  <2>q. QED
    BY <2>1, <2>2, <2>3, <2>4, <2>5, <2>6, <2>7, <2>8, <2>9, <2>10, <2>11, <2>12
<1>8. CASE LoopJustJoined \/ Radio
  BY <1>8, RadioStep
<1>9. CASE Network
  BY <1>9, NtpResponseStep, HostConnectedStep, TlsBreaksStep DEF Network
<1>10. CASE UNCHANGED vars
  BY <1>10, StutterStep
<1>q. QED
  BY <1>1, <1>2, <1>3, <1>4, <1>5, <1>6, <1>7, <1>8, <1>9, <1>10 DEF Next, Program

-----------------------------------------------------------------------------
\* Typing, the counts of requests and of time hold in every state.
THEOREM InvariantHolds == Spec => []IInv
  BY InitIInv, InvariantStep, PTL DEF Spec

\* Every variable keeps its type: the pair that is tried is one of those
\* configured, and no delay, counter or clock reading leaves its range.
THEOREM TypeCorrect == Spec => []TypeOK
<1>1. IInv => TypeOK
  BY DEF IInv
<1>q. QED
  BY <1>1, InvariantHolds, PTL

\* The bounds on a round and on a pause are within Patience.
LEMMA InvRetries == IInv => RetriedInTime
<1> SUFFICES ASSUME IInv PROVE RetriedInTime
  OBVIOUS
<1>0. TypeOK
  BY DEF IInv
<1>1. CASE stage = "idle"
  BY <1>0, <1>1, LocalsTyped, PatienceLasts DEF IInv, RoundInTime, RetriedInTime
<1>2. CASE stage # "idle"
  <2>1. RestOfRound \in Nat
    BY <1>2, RestNat
  <2>2. offline <= OnlineTime
    BY <1>0, <1>2, <2>1, LocalsTyped DEF IInv, RoundInTime
  <2>q. QED
    BY <1>0, <2>2, LocalsTyped, PatienceLasts DEF RetriedInTime
<1>q. QED
  BY <1>1, <1>2

\* A board without a connection tries again within Patience, in the middle of
\* whatever it lost the connection, unless the clock has wrapped.
THEOREM RetriesInTime == Spec => []RetriedInTime
  BY InvRetries, InvariantHolds, PTL

\* Every attempt has its whole timeout, unless the clock has wrapped.
THEOREM AttemptsAreSpaced == Spec => AttemptsSpaced
<1>1. IInv /\ [Next]_vars =>
          [since' = 0 /\ since # 0 => since >= Timeout \/ wrapped]_wifi
  <2> SUFFICES ASSUME IInv, Next, since' = 0, since # 0, ~ wrapped
               PROVE  since >= Timeout
    BY DEF vars, wifi
  <2>0. TypeOK
    BY DEF IInv
  <2>1. since = Timeout \/ pc = "loop"
    BY DEF IInv, Booting
  <2>2. PICK pause : InitWifi(pause)
    <3>1. ~ UNCHANGED since /\ ~ Elapse /\ ~ Restart
      BY <2>0, LocalsTyped, PatienceLasts
         DEF Elapse, Restart, Restarted, Least, TypeOK, WifiTypeOK
    <3>2. ~ InitCloudConfig /\ ~ SetupFails /\ ~ LoopSleeps /\ ~ LoopOnline /\ ~ LoopWaits
      BY <3>1
         DEF InitCloudConfig, SetupFails, LoopSleeps, LoopOnline, LoopWaits, StartDelay, wifi
    <3>3. ~ DelayGoesOn /\ ~ Radio /\ ~ LoopJustJoined /\ ~ Network
      BY <3>1
         DEF DelayGoesOn, Delay, Radio, Join, Drop, LoopJustJoined, InitWifiJustJoined,
                  Network, NtpResponse, HostConnected, TlsBreaks, wifi
    <3>4. ~ Round
      BY <3>1
         DEF Round, RequestTime, TimeIsOver, SynchronizeAgain, NtpPoll, NoNtpResponse,
                  ConnectToAzure, CallHost, NoNetwork, HostConnectionFails, NotConnected, SendMessage, ReadChunk, StartDelay, wifi
    <3>q. QED
      BY <3>2, <3>3, <3>4 DEF Next, Program, Setup, LoopOffline
  <2>3. ~ Blocked
    BY <2>2 DEF InitWifi
  <2>q. QED
    BY <2>0, <2>1, <2>3, PatienceLasts
       DEF IInv, TypeOK, WifiTypeOK, AttemptKnown, Attempt, Blocked, Least
<1>q. QED
  BY <1>1, InvariantHolds, PTL DEF Spec, AttemptsSpaced

\* No message goes out without the time unless every request of the round was
\* waited for in full, also across a wrap of the clock.
THEOREM TimelessIsUnanswered == Spec => TimelessOnlyUnanswered
<1>1. IInv /\ [Next]_vars =>
          [Sends /\ ~ timeSet => unanswered = NtpRetries - 1]_vars
  BY DEF Sends, SendMessage, IInv, RequestsCounted
<1>q. QED
  BY <1>1, InvariantHolds, PTL DEF Spec, TimelessOnlyUnanswered
=============================================================================
