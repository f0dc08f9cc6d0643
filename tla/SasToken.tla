------------------------------ MODULE SasToken ------------------------------
(***************************************************************************)
(* How the Arduino client makes the token it sends with every message:     *)
(* initCloudConfig takes the device key out of a connection string or out  *)
(* of the EEPROM, createIotHubSas and createEventHubSas (Publish.ino) sign *)
(* the address of the hub with the one Sha256 object, which is initialised *)
(* up to three times and keeps its buffer, its count and its key buffer    *)
(* from call to call.                                                      *)
(*                                                                         *)
(* The rounds of hashBlock are the parameter Compress.                     *)
(***************************************************************************)
EXTENDS Base64, SasReference, FiniteSets, SequencesExt

CONSTANTS Devices,     \* the devices that may be configured: [mode, host, id, key]
          TARGET_URL, EVENT_HUB_END_POINT, Scheme, \* strings of the sketch
          sasExpiryDate,                           \* as a string
          HostName, DeviceId, SharedAccessKey      \* names in the string

BUFFER_SIZE  == 64
BLOCK_LENGTH == 64
HASH_LENGTH  == 32
NewLine == 10
Semicolon == 59

\* Characters of the sketch's strings, '\0' excepted, and a bound on the
\* lengths of strings: they are in the memory of the board.
Text == 1 .. 127
MaxString == 65536

ASSUME HashAssumption == Initial \in Seq(Byte) /\ Len(Initial) = HASH_LENGTH

\* What the fields of a connection string are found by is not in them; an
\* identity is not encoded in the address, so it has no '%' either.  The key of
\* an event hub has 32 bytes: the sketch signs with all its 44 characters.
ASSUME StringsAssumption ==
    \A s \in {TARGET_URL, EVENT_HUB_END_POINT, Scheme, sasExpiryDate,
              HostName, DeviceId, SharedAccessKey} : s \in Seq(Text) /\ Len(s) < MaxString
ASSUME SeparatorsAssumption ==
    \A s \in {HostName, DeviceId, SharedAccessKey}
               \union {d.host : d \in Devices} \union {d.id : d \in Devices} :
        \A i \in 1 .. Len(s) : s[i] \notin {Equals, Semicolon}
ASSUME DevicesAssumption ==
    \A d \in Devices :
        /\ d.mode \in {"IoTHub", "EventHub"}
        /\ d.host \in Seq(Text) /\ Len(d.host) \in 1 .. MaxString - 1
        /\ d.id \in Seq(Text) /\ Len(d.id) \in 1 .. MaxString - 1
        /\ \A i \in 1 .. Len(d.id) : d.id[i] # 37
        /\ d.key \in Seq(Byte) /\ Len(d.key) \in 1 .. MaxString - 1
        /\ d.mode = "EventHub" => Len(d.key) = 32

VARIABLES
    phase,
    device,     \* the device as the hub knows it
    host, id, key, \* cloud.host, cloud.id, cloud.key
    sha,        \* the object Sha256: state, buffer, byteCount, keyBuffer
    sas         \* the fields sr, sig and se of cloud.fullSas

tokenVars == <<phase, device, host, id, key, sha, sas>>
-----------------------------------------------------------------------------
(* sha256.cpp.                                                             *)

\* Slips: the padding does not go through a second block; keys are hashed
\* from two blocks on only.
PaddingInBlock(offset) == IF offset > 56 THEN 0 ELSE 56 - offset
LongFromTwoBlocks(k)   == Len(k) > 2 * BLOCK_LENGTH

\* The processor has the low byte of a word first: the bytes go to
\* bufferOffset ^ 3, and result() turns the words of the state round.
Swapped(bytes) ==
    [i \in 1 .. Len(bytes) |-> bytes[4 * ((i - 1) \div 4) + 4 - ((i - 1) % 4)]]

init(h) == [h EXCEPT !.state = Initial, !.byteCount = 0, !.buffer = <<>>]

Block(bytes, n) == SubSeq(bytes, BUFFER_SIZE * (n - 1) + 1, BUFFER_SIZE * n)

\* hashBlock for each full block.
StatesFrom(state, bytes) ==
    LET after[n \in 0 .. Len(bytes) \div BUFFER_SIZE] ==
            IF n = 0 THEN state
            ELSE Compress(after[n - 1], Swapped(Block(bytes, n)))
    IN  after

\* Byte for byte into the buffer, which is hashed whenever it is full.
addUncounted(h, bytes) ==
    LET all  == h.buffer \o bytes
        full == Len(all) \div BUFFER_SIZE
    IN  [h EXCEPT !.state = StatesFrom(h.state, all)[full],
                  !.buffer = SubSeq(all, BUFFER_SIZE * full + 1, Len(all))]

\* byteCount has 32 bits, far more than is ever written.
write(h, bytes) == addUncounted([h EXCEPT !.byteCount = @ + Len(bytes)], bytes)

\* How many zeros bring the offset to 56: through the next block if it is
\* beyond.
PaddingZeros(offset) == (56 + BUFFER_SIZE - offset) % BUFFER_SIZE

LengthBytes(count) ==
    <<0, 0, 0, (count \div 536870912) % 256, (count \div 2097152) % 256,
      (count \div 8192) % 256, (count \div 32) % 256, (count * 8) % 256>>

pad(h) ==
    LET marked == addUncounted(h, <<128>>)
        filled == addUncounted(marked, Zeros(PaddingZeros(Len(marked.buffer))))
    IN  addUncounted(filled, LengthBytes(h.byteCount))

\* Its state is the hash, for whoever calls init() before the next write.
result(h) == LET p == pad(h) IN [p EXCEPT !.state = Swapped(@)]

IsLong(k) == Len(k) > BLOCK_LENGTH

Masked(bytes, mask) == [i \in 1 .. Len(bytes) |-> Xor(bytes[i], mask)]

initHmac(h, k) ==
    LET hashed == IF IsLong(k) THEN result(write(init(h), k)) ELSE h
        k0     == IF IsLong(k) THEN hashed.state ELSE k
        keyed  == [hashed EXCEPT !.keyBuffer = k0 \o Zeros(BLOCK_LENGTH - Len(k0))]
    IN  write(init(keyed), Masked(keyed.keyBuffer, 54))

resultHmac(h) ==
    LET inner == result(h)
        outer == write(init(inner), Masked(h.keyBuffer, 92))
    IN  result(write(outer, inner.state))

-----------------------------------------------------------------------------
(* Helpers.ino.                                                            *)

\* Where fields end: at a separator, and at the last character whatever it is,
\* which then belongs to the field.
FieldEnds(s, sep) == {i \in 1 .. Len(s) : s[i] = sep \/ i = Len(s)}

\* The end that n - 1 others come before.
NthEnd(s, sep, n) ==
    CHOOSE i \in FieldEnds(s, sep) : Cardinality({j \in FieldEnds(s, sep) : j <= i}) = n

splitStringByIndex(s, sep, index) ==
    LET first == IF index = 0 THEN 1 ELSE NthEnd(s, sep, index) + 1
        end   == NthEnd(s, sep, index + 1)
    IN  IF index < Cardinality(FieldEnds(s, sep))
        THEN SubSeq(s, first, IF end = Len(s) THEN end ELSE end - 1)
        ELSE <<>>

Plain(c) == c \in (48 .. 57) \union (65 .. 90) \union (97 .. 122)
HexDigit(n) == IF n < 10 THEN 48 + n ELSE 87 + n

Code(c) == IF Plain(c) THEN <<c>> ELSE <<37, HexDigit(c \div 16), HexDigit(c % 16)>>

urlEncode(s) == FlattenSeq([i \in 1 .. Len(s) |-> Code(s[i])])

-----------------------------------------------------------------------------
Unwritten == [state |-> Zeros(HASH_LENGTH), buffer |-> <<>>, byteCount |-> 0,
              keyBuffer |-> Zeros(BLOCK_LENGTH)]

TokenInit ==
    /\ phase = "setup"
    /\ device \in Devices
    /\ host = <<>> /\ id = <<>> /\ key = <<>>
    /\ sha = Unwritten
    /\ sas = [sr |-> <<>>, sig |-> <<>>, se |-> <<>>]

\* The string that the hub gives out for a device.
ConnectionString ==
    (HostName \o <<Equals>> \o device.host) \o <<Semicolon>> \o
    (DeviceId \o <<Equals>> \o device.id) \o <<Semicolon>> \o
    (SharedAccessKey \o <<Equals>> \o Base64Of(device.key))

Field(n) == splitStringByIndex(splitStringByIndex(ConnectionString, Semicolon, n), Equals, 1)

\* initCloudConfig with a connection string.
ConfigureInline ==
    /\ phase = "setup"
    /\ host' = Field(0) /\ id' = Field(1) /\ key' = Field(2)
    /\ phase' = "configured"
    /\ UNCHANGED <<device, sha, sas>>

\* initCloudConfig without parameters: the values of the JSON in the EEPROM.
ConfigureFromEEPROM ==
    /\ phase = "setup"
    /\ host' = device.host /\ id' = device.id /\ key' = Base64Of(device.key)
    /\ phase' = "configured"
    /\ UNCHANGED <<device, sha, sas>>

url == IF device.mode = "IoTHub"
       THEN urlEncode(host) \o urlEncode(TARGET_URL) \o id
       ELSE urlEncode(Scheme) \o urlEncode(host) \o urlEncode(EVENT_HUB_END_POINT)

\* The bytes that initHmac reads.  decodedKey holds them, but the '\0' that
\* base64_decode writes behind them lies outside of it.
SigningKey == IF device.mode = "IoTHub"
              THEN SubSeq(base64_decode(key), 1, base64_dec_len(key))
              ELSE SubSeq(key, 1, 44)

InitHmac ==
    /\ phase = "configured"
    /\ sha' = initHmac(sha, SigningKey)
    /\ phase' = "keyed"
    /\ UNCHANGED <<device, host, id, key, sas>>

SignString ==
    /\ phase = "keyed"
    /\ sha' = write(sha, url \o <<NewLine>> \o sasExpiryDate)
    /\ phase' = "printed"
    /\ UNCHANGED <<device, host, id, key, sas>>

ResultHmac ==
    /\ phase = "printed"
    /\ sha' = resultHmac(sha)
    /\ phase' = "signed"
    /\ UNCHANGED <<device, host, id, key, sas>>

\* A string that is passed on ends at its first '\0'.
strlen(a) ==
    CHOOSE n \in 0 .. Len(a) : /\ \A i \in 1 .. n : a[i] # Nul
                               /\ n < Len(a) => a[n + 1] = Nul

CString(a) == SubSeq(a, 1, strlen(a))

\* The '\0' that ends encodedSign is outside of it, too.  What else the build
\* keeps at the two places is not modelled: the byte is read as it was written.
CreateSas ==
    /\ phase = "signed"
    /\ sas' = [sr |-> url, sig |-> urlEncode(CString(base64_encode(sha.state))), se |-> sasExpiryDate]
    /\ phase' = "done"
    /\ UNCHANGED <<device, host, id, key, sha>>

TokenNext == ConfigureInline \/ ConfigureFromEEPROM \/ InitHmac \/ SignString \/ ResultHmac \/ CreateSas

TokenSpec == TokenInit /\ [][TokenNext]_tokenVars
-----------------------------------------------------------------------------
\* Strings are strings of characters, and Sha256 stays within its buffers.
TokenTypeOK ==
    /\ phase \in {"setup", "configured", "keyed", "printed", "signed", "done"}
    /\ device \in Devices
    /\ \A s \in {host, id, key, sas.sr, sas.sig, sas.se, sha.state, sha.buffer, sha.keyBuffer} :
          \A i \in DOMAIN s : s[i] \in Byte
    /\ Len(sha.state) = HASH_LENGTH /\ Len(sha.keyBuffer) = BLOCK_LENGTH
    /\ Len(sha.buffer) < BUFFER_SIZE /\ sha.byteCount \in Nat

\* What the hub does with a token: it takes the resource and the signature
\* out of their percent signs and signs what was signed with its own copy of
\* the key.  (An event hub signs with the key's text.)
Resource == IF device.mode = "IoTHub"
            THEN device.host \o TARGET_URL \o device.id
            ELSE Scheme \o device.host \o EVENT_HUB_END_POINT

HubsKey == IF device.mode = "IoTHub" THEN device.key ELSE Base64Of(device.key)

\* The hub accepts the token, whatever the lengths of the key and of the
\* address, with or without '=' at the end of the key, and whichever way it
\* was configured.
HubAcceptsToken ==
    phase = "done" =>
        /\ PercentDecoded(sas.sr) = Resource
        /\ PercentDecoded(sas.sig)
             = Base64Of(HmacOf(HubsKey, sas.sr \o <<NewLine>> \o sas.se))

\* The arrays decodedKey and encodedSign hold all that is written to them but
\* the final '\0', which comes one byte behind their ends, neither more nor less,
\* whatever the length of the key and also when its '=' were lost.
OnlyTerminatorOutside ==
    /\ phase = "configured" /\ device.mode = "IoTHub" =>
          Len(base64_decode(key)) = base64_dec_len(key) + 1
    /\ phase = "signed" =>
          Len(base64_encode(sha.state)) = base64_enc_len(HASH_LENGTH) + 1
=============================================================================
