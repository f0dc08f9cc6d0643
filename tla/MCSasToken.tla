----------------------------- MODULE MCSasToken -----------------------------
(* SasToken with devices whose keys and addresses have lengths on both     *)
(* sides of the block sizes of Base64 and SHA-256.                         *)
EXTENDS SasToken

\* In place of the rounds of SHA-256: every byte of the state and of the block
\* counts, and so does its place.
MCCompress(state, block) ==
    [i \in 1 .. 32 |->
        (3 * state[i] + 5 * state[(i % 32) + 1] * (block[i] + 1)
           + (2 * i + 1) * block[i + 32] + i) % 256]

MCInitial == [i \in 1 .. 32 |-> (91 * i + 17) % 256]

MCKey(n)  == [i \in 1 .. n |-> (37 * i + 200 + n) % 256]

\* A host name with a dot, and an identity with characters that are not encoded.
MCHost(n) == [i \in 1 .. n |-> IF i = 3 THEN 46 ELSE 97 + (i % 26)]
MCId      == <<68, 49>>

MCDevices ==
    [mode : {"IoTHub"}, host : {MCHost(n) : n \in {4, 32, 33, 34, 40, 41, 42}}, id : {MCId},
     key : {MCKey(n) : n \in {1, 2, 3, 31, 32, 33, 63, 64, 65, 66}}]
    \union [mode : {"EventHub"}, host : {MCHost(n) : n \in {4, 26, 27, 28, 34, 35, 36}}, id : {MCId},
            key : {MCKey(32)}]

MCTarget   == <<47, 100, 47>>       \* "/d/"
MCEndPoint == <<47, 101, 104>>      \* "/eh"
MCScheme   == <<104, 58, 47, 47>>   \* "h://"
MCExpiry   == [i \in 1 .. 10 |-> 48 + (i % 10)]
MCHostName == <<72, 78>>
MCDeviceId == <<68, 73>>
MCKeyName  == <<83, 65, 75>>
=============================================================================
