---------------------------- MODULE SasReference ----------------------------
(***************************************************************************)
(* What a shared access signature is, by the standards the hub follows and *)
(* without the code's buffers: SHA-256 padding (FIPS 180), HMAC (FIPS 198),*)
(* Base64 (RFC 4648) bit by bit, and the decoding of percent signs.  The   *)
(* compression function of SHA-256 is a parameter.  Lengths are those of   *)
(* strings in the memory of the device: 8 * Len has 32 bits.               *)
(***************************************************************************)
EXTENDS Integers, Sequences

CONSTANTS Compress(_, _), \* eight words and sixteen words, as 32 and 64 bytes
                          \* with the low byte of each word first, to eight
          Initial         \* the initial hash value, low bytes first

\* The standards have the high byte first.
HighFirst(words) == [i \in 1 .. Len(words) |-> words[i + 3 - 2 * ((i - 1) % 4)]]

HashBlock(hash, block) == HighFirst(Compress(HighFirst(hash), HighFirst(block)))

Zeros(n) == [i \in 1 .. n |-> 0]

BigEndian64(n) ==
    <<0, 0, 0, 0, (n \div 16777216) % 256, (n \div 65536) % 256, (n \div 256) % 256, n % 256>>

\* One bit, zeros, and the length, up to the end of a block.
Padded(m) ==
    LET k == CHOOSE z \in 0 .. 63 : (Len(m) + 1 + z + 8) % 64 = 0
    IN  m \o <<128>> \o Zeros(k) \o BigEndian64(8 * Len(m))

\* The hash value after each block of a padded message.
Hashes(p) ==
    LET hash[n \in 0 .. Len(p) \div 64] ==
            IF n = 0 THEN HighFirst(Initial)
            ELSE HashBlock(hash[n - 1], SubSeq(p, 64 * n - 63, 64 * n))
    IN  hash

Sha256Of(m) == Hashes(Padded(m))[Len(Padded(m)) \div 64]

\* Exclusive or of two bytes, bit by bit.
XorBit(a, b, p) == p * (((a \div p) + (b \div p)) % 2)

Xor(a, b) == XorBit(a, b, 128) + XorBit(a, b, 64) + XorBit(a, b, 32) + XorBit(a, b, 16)
             + XorBit(a, b, 8) + XorBit(a, b, 4) + XorBit(a, b, 2) + XorBit(a, b, 1)

Xored(s, pattern) == [i \in 1 .. Len(s) |-> Xor(s[i], pattern)]

HmacOf(key, m) ==
    LET short == IF Len(key) > 64 THEN Sha256Of(key) ELSE key
        K0    == short \o Zeros(64 - Len(short))
    IN  Sha256Of(Xored(K0, 92) \o Sha256Of(Xored(K0, 54) \o m))

-----------------------------------------------------------------------------
\* "A" .. "Z", "a" .. "z", "0" .. "9", "+", "/".
Alphabet == [i \in 1 .. 26 |-> 64 + i] \o [i \in 1 .. 26 |-> 96 + i]
            \o [i \in 1 .. 10 |-> 47 + i] \o <<43, 47>>

BitValue == <<128, 64, 32, 16, 8, 4, 2, 1>>

\* Bit i of a string of bytes, counted from 0, and 0 beyond its end.
Bit(s, i) == IF i < 8 * Len(s) THEN (s[i \div 8 + 1] \div BitValue[(i % 8) + 1]) % 2 ELSE 0

SixBits(s, g) == 32 * Bit(s, 6 * g) + 16 * Bit(s, 6 * g + 1) + 8 * Bit(s, 6 * g + 2)
                 + 4 * Bit(s, 6 * g + 3) + 2 * Bit(s, 6 * g + 4) + Bit(s, 6 * g + 5)

Base64Of(s) ==
    LET groups == (8 * Len(s) + 5) \div 6
    IN  [g \in 1 .. groups |-> Alphabet[SixBits(s, g - 1) + 1]]
        \o [i \in 1 .. (4 - (groups % 4)) % 4 |-> 61]

\* A percent sign and two hexadecimal digits stand for a character.
HexValue(c) == IF c < 58 THEN c - 48 ELSE c - 87

\* What is decoded so far, the digits still missing and what they amount to.
Undecoded == [text |-> <<>>, missing |-> 0, value |-> 0]

Decoded(d, c) ==
    LET v == 16 * d.value + HexValue(c)
    IN  CASE d.missing = 2 -> [text |-> d.text, missing |-> 1, value |-> v]
          [] d.missing = 1 -> [text |-> d.text \o <<v>>, missing |-> 0, value |-> 0]
          [] d.missing = 0 /\ c = 37 -> [text |-> d.text, missing |-> 2, value |-> 0]
          [] OTHER -> [text |-> d.text \o <<c>>, missing |-> 0, value |-> 0]

Decoding(s) ==
    LET after[n \in 0 .. Len(s)] ==
            IF n = 0 THEN Undecoded ELSE Decoded(after[n - 1], s[n])
    IN  after

PercentDecoded(s) == Decoding(s)[Len(s)].text
=============================================================================
