------------------------------- MODULE Base64 -------------------------------
(***************************************************************************)
(* Base64.cpp of the Arduino client: the encoder of the signature and the  *)
(* decoder of the device key, with the two functions that size their       *)
(* buffers.  Characters and bytes are numbers.  Encoder and decoder return *)
(* the number of characters or bytes without the final '\0', which they    *)
(* write all the same: base64_encode(s) and base64_decode(s) are all that  *)
(* they write to output.                                                   *)
(***************************************************************************)
EXTENDS Naturals, Sequences

Byte   == 0 .. 255
Digit  == 0 .. 63
Equals == 61 \* '='
Nul    == 0  \* '\0'

b64_alphabet(d) == CASE d < 26 -> d + 65
                     [] d \in 26 .. 51 -> d + 71
                     [] d \in 52 .. 61 -> d - 4
                     [] d = 62 -> 43
                     [] OTHER  -> 47

\* What is no digit, the '\0' of a short block too, is (unsigned char) -1.
b64_lookup(c) == CASE c \in 65 .. 90  -> c - 65
                   [] c \in 97 .. 122 -> c - 71
                   [] c \in 48 .. 57  -> c + 4
                   [] c = 43 -> 62
                   [] c = 47 -> 63
                   [] OTHER  -> 255

a3_to_a4(a) == <<a[1] \div 4,
                 (a[1] % 4) * 16 + a[2] \div 16,
                 (a[2] % 16) * 4 + a[3] \div 64,
                 a[3] % 64>>

a4_to_a3(a) == <<(a[1] * 4 + ((a[2] \div 16) % 4)) % 256,
                 (a[2] % 16) * 16 + ((a[3] \div 4) % 16),
                 ((a[3] % 4) * 64 + a[4]) % 256>>

-----------------------------------------------------------------------------
\* Character i of s, or '\0' where the last block is filled up.
CharOrNul(s, i) == IF i <= Len(s) THEN s[i] ELSE Nul

\* Blocks of three bytes make four characters; a last block of one or two
\* bytes makes two or three, and '=' for the rest.
EncodedLen(n) == 4 * (n \div 3) + (IF n % 3 = 0 THEN 0 ELSE 4)

EncodedBlock(s, b) == a3_to_a4([j \in 1 .. 3 |-> CharOrNul(s, 3 * b + j)])

EncodedText(s) ==
    [k \in 1 .. EncodedLen(Len(s)) |->
        LET b == (k - 1) \div 4
            j == (k - 1) % 4
        IN  IF 3 * b + j <= Len(s)
            THEN b64_alphabet(EncodedBlock(s, b)[j + 1])
            ELSE Equals]

base64_encode(s) == Append(EncodedText(s), Nul)

\* Decoding stops at the first '='.
DigitsOf(s) ==
    CHOOSE n \in 0 .. Len(s) : /\ \A i \in 1 .. n : s[i] # Equals
                               /\ n < Len(s) => s[n + 1] = Equals

\* A last block of i digits gives i - 1 bytes.
DecodedLen(n) == 3 * (n \div 4) + (IF n % 4 = 0 THEN 0 ELSE (n % 4) - 1)

DecodedBlock(s, n, b) ==
    a4_to_a3([j \in 1 .. 4 |-> b64_lookup(IF 4 * b + j <= n THEN s[4 * b + j] ELSE Nul)])

DecodedBytes(s) ==
    LET n == DigitsOf(s)
    IN  [k \in 1 .. DecodedLen(n) |->
            DecodedBlock(s, n, (k - 1) \div 3)[((k - 1) % 3) + 1]]

base64_decode(s) == Append(DecodedBytes(s), Nul)

base64_enc_len(n) == ((n + 2 - ((n + 2) % 3)) \div 3) * 4

\* Slip: the '=' are not subtracted.
NoEquals(s) == 0

\* The '=' at the end, which base64_dec_len counts.
numEq(s) ==
    CHOOSE n \in 0 .. Len(s) : /\ \A i \in Len(s) - n + 1 .. Len(s) : s[i] = Equals
                               /\ n < Len(s) => s[Len(s) - n] # Equals

base64_dec_len(s) == (6 * Len(s)) \div 8 - numEq(s)
=============================================================================
