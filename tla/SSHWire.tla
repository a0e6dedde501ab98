------------------------------ MODULE SSHWire ------------------------------
(***************************************************************************)
(* The wire format of SSH: messages as structures of typed fields          *)
(* (xssh/messages.go: Marshal, Unmarshal, decode) and packets as the       *)
(* ciphers frame them (xssh/cipher.go).                                    *)
(*                                                                         *)
(* For messages a byte has ByteBits bits and a uint32 takes WordBytes      *)
(* bytes.  For packets only lengths, the sequence number or nonce, and     *)
(* whether something was altered on the way matter; the ciphers and the    *)
(* authentication code are external and ideal: what was altered fails the  *)
(* check.  A behaviour is one call on one input.                           *)
(***************************************************************************)
EXTENDS Integers, Sequences, FiniteSets, SequencesExt

CONSTANTS
  ByteBits,     \* bits of a byte (8)
  WordBytes,    \* bytes of a uint32 (4)
  Comma,        \* the byte that separates names
  Messages,     \* type byte -> [tags, fields, bare]: the structures decode knows
  WireInputs,   \* the calls
  maxPacket     \* the longest packet (256 * 1024)

ASSUME WireAssumption == ByteBits \in Nat \ {0} /\ WordBytes \in Nat \ {0} /\ maxPacket \in Nat

VARIABLES wireCall, wireResult

wireVars == <<wireCall, wireResult>>

ByteValues == 2 ^ ByteBits
SignBit == 2 ^ (ByteBits - 1)
After(b, n) == SubSeq(b, n + 1, Len(b))

\* What a parser returns: out, rest, ok.
Parsed(v, rest) == [out |-> v, rest |-> rest, ok |-> TRUE]
ShortRead == [out |-> <<>>, rest |-> <<>>, ok |-> FALSE]

-----------------------------------------------------------------------------
(* Integers *)

\* big.Int.SetBytes, Bytes and BitLen (external)
SetBytes(b) == FoldLeft(LAMBDA a, d : a * ByteValues + d, 0, b)
BitLen(n) == CHOOSE k \in 0..(n + 1) : n < 2 ^ k /\ \A j \in 0..(k - 1) : n >= 2 ^ j
Digits(n, k) == [i \in 1..k |-> (n \div ByteValues ^ (k - i)) % ByteValues]
BigBytes(n) == Digits(n, (BitLen(n) + ByteBits - 1) \div ByteBits)
Inverted(b) == [i \in 1..Len(b) |-> ByteValues - 1 - b[i]]

intLength(n) ==
  LET bitLen == BitLen(IF n < 0 THEN -n - 1 ELSE n) IN
  WordBytes + (IF n = 0 THEN 0 ELSE (IF bitLen % ByteBits = 0 THEN 1 ELSE 0)
                 + (bitLen + ByteBits - 1) \div ByteBits)

\* marshalInt: the sign is the first bit, a byte is put in front when it would be wrong.
marshalInt(n) ==
  LET minus == Inverted(BigBytes(-n - 1))
      plus == BigBytes(n)
      body == IF n < 0
              THEN (IF minus = <<>> \/ minus[1] < SignBit THEN <<ByteValues - 1>> ELSE <<>>) \o minus
              ELSE IF n = 0 THEN <<>>
              ELSE (IF plus[1] >= SignBit THEN <<0>> ELSE <<>>) \o plus IN
  Digits(Len(body), WordBytes) \o body

-----------------------------------------------------------------------------
(* Parsers *)

parseUint32(in) == IF Len(in) < WordBytes THEN ShortRead ELSE Parsed(SetBytes(SubSeq(in, 1, WordBytes)), After(in, WordBytes))
parseUint64(in) ==
  IF Len(in) < 2 * WordBytes THEN ShortRead ELSE Parsed(SetBytes(SubSeq(in, 1, 2 * WordBytes)), After(in, 2 * WordBytes))

parseString(in) ==
  LET n == parseUint32(in) IN
  IF ~n.ok \/ Len(n.rest) < n.out THEN ShortRead ELSE Parsed(SubSeq(n.rest, 1, n.out), After(n.rest, n.out))

\* bytes.Split at commas; an empty string is no name at all, not one empty name.
Split(b) ==
  FoldLeft(LAMBDA names, c : IF c = Comma THEN Append(names, <<>>) ELSE [names EXCEPT ![Len(names)] = Append(@, c)],
           <<<<>>>>, b)
parseNameList(in) ==
  LET s == parseString(in) IN
  IF ~s.ok THEN s ELSE Parsed(IF s.out = <<>> THEN <<>> ELSE Split(s.out), s.rest)

parseInt(in) ==
  LET s == parseString(in) IN
  IF ~s.ok THEN s
  ELSE Parsed(IF s.out # <<>> /\ s.out[1] >= SignBit THEN -(SetBytes(Inverted(s.out)) + 1) ELSE SetBytes(s.out), s.rest)

-----------------------------------------------------------------------------
(* Structures *)

\* One field of Unmarshal: from the data that is left.
ParseField(kind, data) ==
  CASE kind = "bool" -> IF data = <<>> THEN ShortRead ELSE Parsed(data[1] # 0, Tail(data))
    [] kind = "uint8" -> IF data = <<>> THEN ShortRead ELSE Parsed(data[1], Tail(data))
    [] kind = "array" -> IF Len(data) < 2 THEN ShortRead ELSE Parsed(SubSeq(data, 1, 2), After(data, 2))
    [] kind = "uint32" -> parseUint32(data)
    [] kind = "uint64" -> parseUint64(data)
    [] kind = "string" -> parseString(data)
    [] kind = "rest" -> Parsed(data, <<>>)
    [] kind = "names" -> parseNameList(data)
    [] kind = "mpint" -> parseInt(data)

AppendField(kind, v) ==
  CASE kind = "bool" -> <<IF v THEN 1 ELSE 0>>
    [] kind = "uint8" -> <<v>>
    [] kind = "array" -> v
    [] kind = "uint32" -> Digits(v, WordBytes)
    [] kind = "uint64" -> Digits(v, 2 * WordBytes)
    [] kind = "string" -> Digits(Len(v), WordBytes) \o v
    [] kind = "rest" -> v
    [] kind = "names" ->
         LET all == FoldLeft(LAMBDA b, i : b \o (IF i > 1 THEN <<Comma>> ELSE <<>>) \o v[i], <<>>, [i \in 1..Len(v) |-> i]) IN
         Digits(Len(all), WordBytes) \o all
    [] kind = "mpint" -> marshalInt(v)

Fields(fields, data) ==
  FoldLeft(LAMBDA acc, kind :
             LET f == ParseField(kind, acc.rest) IN
             IF ~acc.ok THEN acc ELSE IF ~f.ok THEN ShortRead ELSE Parsed(Append(acc.out, f.out), f.rest),
           Parsed(<<>>, data), fields)

\* An empty packet, a type that is not expected, a field that does not parse, and data
\* left over are errors.
Unmarshal(struct, data) ==
  IF data = <<>> \/ (struct.tags # <<>> /\ data[1] \notin Range(struct.tags) \ {0}) THEN ShortRead
  ELSE LET all == Fields(struct.fields, IF struct.tags = <<>> THEN data ELSE Tail(data)) IN
       IF all.rest # <<>> THEN ShortRead ELSE all

Marshal(struct, values) ==
  FoldLeft(LAMBDA out, i : out \o AppendField(struct.fields[i], values[i]),
           IF struct.tags = <<>> THEN <<>> ELSE <<struct.tags[1]>>, [i \in 1..Len(values) |-> i])

\* decode; what follows the type of userAuthSuccess is not looked at.
decode(packet) ==
  IF packet[1] \notin DOMAIN Messages THEN ShortRead
  ELSE IF Messages[packet[1]].bare THEN Parsed(<<>>, <<>>)
  ELSE Unmarshal(Messages[packet[1]], packet)

-----------------------------------------------------------------------------
(* Packets *)

packetSizeMultiple == 16
prefixLen == 5
cbcMinPacketSize == 16
cbcMinPaddingSize == 4
Larger(a, b) == IF a > b THEN a ELSE b
BlockSize(cipher) == IF cipher = "3des-cbc" THEN 8 ELSE 16
macSize(cipher) == CASE cipher = "plain" -> 0 [] cipher = "gcm" -> 16 [] OTHER -> 20

\* The bytes of a packet on the wire: its length field, its padding, its payload, and
\* all of them with the code.
Frame(length, padding, payload, bytes) == [length |-> length, padding |-> padding, payload |-> payload, bytes |-> bytes]

\* Padding of the stream cipher and of GCM: to the next multiple, at least four bytes.
PaddingAfter(n) ==
  LET p == packetSizeMultiple - (n % packetSizeMultiple) IN IF p < 4 THEN p + packetSizeMultiple ELSE p

\* writePacket of each kind of cipher, for a payload of n bytes; no bytes is an error.
writeStream(cipher, n) ==
  LET padding == PaddingAfter(prefixLen + n) IN
  IF n > maxPacket THEN Frame(0, 0, 0, 0)
  ELSE Frame(n + 1 + padding, padding, n, prefixLen + n + padding + macSize(cipher))
writeGCM(n) ==
  LET padding == PaddingAfter(1 + n) IN
  Frame(n + padding + 1, padding, n, 4 + n + padding + 1 + macSize("gcm"))
MutWriteCBC(cipher, n) ==
  LET encLength == ((prefixLen + n + BlockSize(cipher) - 1) \div BlockSize(cipher)) * BlockSize(cipher) IN
  Frame(encLength - 4, encLength - 4 - (1 + n), n, encLength + macSize(cipher))
writeCBC(cipher, n) ==
  LET block == Larger(8, BlockSize(cipher))
      least == Larger(prefixLen + n + cbcMinPaddingSize, cbcMinPaddingSize)
      encLength == ((least + block - 1) \div block) * block IN
  Frame(encLength - 4, encLength - 4 - (1 + n), n, encLength + macSize(cipher))

writePacket(cipher, n) ==
  CASE cipher \in {"plain", "stream"} -> writeStream(cipher, n)
    [] cipher = "gcm" -> writeGCM(n)
    [] cipher \in {"aes128-cbc", "3des-cbc"} -> writeCBC(cipher, n)

Read(payload, err, used) == [payload |-> payload, err |-> err, used |-> used]

\* readPacket, of a frame on a stream that goes on after it.  altered: something in it is
\* not what the writer wrote under the number that the reader expects.
readStream(cipher, f, altered) ==
  IF f.length <= f.padding + 1 THEN Read(0, "tooSmall", prefixLen)
  ELSE IF f.length > maxPacket THEN Read(0, "tooLarge", prefixLen)
  ELSE LET used == prefixLen + f.length - 1 + macSize(cipher) IN
       IF cipher = "stream" /\ altered THEN Read(0, "mac", used) ELSE Read(f.length - f.padding - 1, "nil", used)

\* An authentic packet of length 0 makes plain[0] panic.
readGCM(f, altered) ==
  IF f.length > maxPacket THEN Read(0, "tooLarge", 4)
  ELSE LET used == 4 + f.length + macSize("gcm") IN
       IF altered THEN Read(0, "mac", used)
       ELSE IF f.length = 0 THEN Read(0, "panic", used)
       ELSE IF f.padding < 4 \/ f.padding >= 20 THEN Read(0, "illegalPadding", used)
       ELSE IF f.padding + 1 >= f.length THEN Read(0, "paddingTooLarge", used)
       ELSE Read(f.length - f.padding - 1, "nil", used)

\* readPacketLeaky, and the discarding of readPacket: oracleCamouflage is what is left of
\* the longest packet.
firstBlockLength(cipher) == ((prefixLen + BlockSize(cipher) - 1) \div BlockSize(cipher)) * BlockSize(cipher)
oracleCamouflage(cipher, n) == maxPacket + 4 + macSize(cipher) - firstBlockLength(cipher) - n
readCBC(cipher, f, altered) ==
  LET first == firstBlockLength(cipher)
      early(e) == Read(0, e, first + oracleCamouflage(cipher, 0))
      entire == 4 + f.length + macSize(cipher) IN
  CASE f.length > maxPacket -> early("tooLarge")
    [] f.length <= maxPacket /\ f.length + 4 < Larger(cbcMinPacketSize, BlockSize(cipher)) -> early("tooSmall")
    [] OTHER ->
         IF (f.length + 4) % Larger(8, BlockSize(cipher)) # 0 THEN early("multiple")
         ELSE IF f.padding < cbcMinPaddingSize \/ f.length <= f.padding + 1 THEN early("invalid")
         ELSE IF altered THEN Read(0, "mac", entire + oracleCamouflage(cipher, entire - first))
         ELSE Read(4 + f.length - f.padding - prefixLen, "nil", entire)

readPacket(cipher, f, altered) ==
  CASE cipher \in {"plain", "stream"} -> readStream(cipher, f, altered)
    [] cipher = "gcm" -> readGCM(f, altered)
    [] cipher \in {"aes128-cbc", "3des-cbc"} -> readCBC(cipher, f, altered)

\* incIV: a counter of bytes, from the last one up.
incIV(iv) ==
  [i \in 1..Len(iv) |-> IF \A j \in (i + 1)..Len(iv) : iv[j] = ByteValues - 1 THEN (iv[i] + 1) % ByteValues ELSE iv[i]]

-----------------------------------------------------------------------------
ComputeWire(c) ==
  CASE c.op = "marshal" -> Parsed(Marshal(Messages[c.msg], c.values), <<>>)
    [] c.op = "decode" -> decode(c.packet)
    [] c.op = "write" -> Parsed(writePacket(c.cipher, c.n), <<>>)
    [] c.op = "read" -> Parsed(readPacket(c.cipher, c.frame, TRUE), <<>>)
    [] c.op = "incIV" -> Parsed(incIV(c.iv), <<>>)

NotYet == [out |-> <<>>, rest |-> <<0>>, ok |-> FALSE]
WireInit == wireCall \in WireInputs /\ wireResult = NotYet
WireNext == wireResult = NotYet /\ wireResult' = ComputeWire(wireCall) /\ UNCHANGED wireCall

Did(op) == wireResult.ok /\ wireCall.op = op

-----------------------------------------------------------------------------
(* Properties *)

\* A message that is marshalled is unmarshalled as itself, negative and zero integers and
\* empty lists included; only the list of one empty name, and names with a comma in them,
\* have no form of their own (parseNameList).
MessageRoundTrip ==
  Did("marshal") => Unmarshal(Messages[wireCall.msg], wireResult.out) = Parsed(wireCall.values, <<>>)

\* The space that is reserved for an integer is what it takes (marshalInt writes past the
\* end, or leaves a byte, otherwise), and no shorter form says the same.
IntegersFit ==
  Did("marshal") =>
    \A i \in DOMAIN wireCall.values :
      Messages[wireCall.msg].fields[i] = "mpint" =>
        LET n == wireCall.values[i] IN
        /\ Len(marshalInt(n)) = intLength(n)
        /\ \A k \in 0..(intLength(n) - WordBytes - 1) : \A b \in [1..k -> 0..(ByteValues - 1)] :
             parseInt(Digits(k, WordBytes) \o b).out # n

\* A packet that is decoded is used up: marshalled again it has the same bytes, but for a
\* truth value other than 1 and an integer with bytes it does not need.
DecodedExactly ==
  Did("decode") =>
    LET struct == Messages[wireCall.packet[1]]
        odd == {i \in DOMAIN wireResult.out : struct.fields[i] \in {"bool", "mpint"}} IN
    ~struct.bare =>
      LET again == Marshal(struct, wireResult.out) IN
      /\ Len(again) <= Len(wireCall.packet)
      /\ odd = {} => again = <<struct.tags[1]>> \o Tail(wireCall.packet)
      /\ Unmarshal(struct, again) = wireResult

\* A packet that fits is read as it was written, by a reader that takes its bytes and no
\* more, so that the next packet is found; it is padded to the block with at least four
\* bytes.  (writePacket accepts payloads that readPacket then finds too large, and the
\* empty one.)
PacketRoundTrip ==
  Did("write") =>
    LET f == wireResult.out
        c == wireCall.cipher
        fits == f.bytes > 0 /\ f.length <= maxPacket /\ wireCall.n > 0 IN
    /\ fits => readPacket(c, f, FALSE) = Read(wireCall.n, "nil", f.bytes)
    /\ f.bytes > 0 => f.padding \in 4..255
    /\ f.bytes > 0 => (f.bytes - macSize(c) - (IF c = "gcm" THEN 4 ELSE 0)) % BlockSize(c) = 0

\* A block cipher takes the same number of bytes before it reports an altered packet,
\* whichever check it fails (oracleCamouflage).
FailuresLookAlike ==
  Did("read") /\ wireCall.cipher \in {"aes128-cbc", "3des-cbc"} =>
    wireResult.out.used = maxPacket + 4 + macSize(wireCall.cipher)

\* A nonce is the next one: no other counter is followed by it.
NonceAdvances ==
  Did("incIV") => SetBytes(wireResult.out) = (SetBytes(wireCall.iv) + 1) % ByteValues ^ Len(wireCall.iv)

\* What is written is read as it was, message by message and packet by packet, and what was
\* altered is refused without telling why.
WireSound == /\ MessageRoundTrip /\ IntegersFit /\ DecodedExactly
             /\ PacketRoundTrip /\ FailuresLookAlike /\ NonceAdvances
=============================================================================
