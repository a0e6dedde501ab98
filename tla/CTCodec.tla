------------------------------ MODULE CTCodec ------------------------------
(***************************************************************************)
(* The wire formats of Certificate Transparency (zct/serialization.go):    *)
(* leaves and chains as the log sends them, signed timestamps, and the     *)
(* bytes that a log signs.  A byte is a digit of base ByteBase; timestamps,*)
(* hashes, versions and types take one byte, and lengths take LengthBytes. *)
(* A behaviour is one call on one input.                                   *)
(***************************************************************************)
EXTENDS Integers, Sequences, FiniteSets, SequencesExt

CONSTANTS
  ByteBase,      \* values of a byte (256)
  LengthBytes,   \* bytes of a length (2 or 3)
  CTInputs       \* the calls: a function and its arguments

ASSUME CTCodecAssumption == ByteBase \in Nat \ {0, 1} /\ LengthBytes \in Nat \ {0}

VARIABLES ctCall, ctResult

codecVars == <<ctCall, ctResult>>

MaxLength == ByteBase ^ LengthBytes - 1
V1 == 0
X509Entry == 0
PrecertEntry == 1

\* What a read returns: a value, the rest of the reader, and an error.
Got(v, rest) == [val |-> v, rest |-> rest, err |-> "nil"]
Err(e) == [val |-> <<>>, rest |-> <<>>, err |-> e]
Drop(b, n) == SubSeq(b, n + 1, Len(b))

-----------------------------------------------------------------------------
(* Primitives *)

\* Big-endian; a value that does not fit is an error.
writeUint(value, n) ==
  [i \in 1..n |-> (value \div ByteBase ^ (n - i)) % ByteBase]
writeVarBytes(value) == writeUint(Len(value), LengthBytes) \o value

\* Each byte is a read of its own: a number that is cut short ends with io.EOF.
readUint(b, n) ==
  IF Len(b) < n THEN Err("EOF")
  ELSE LET value[i \in 0..n] == IF i = 0 THEN 0 ELSE value[i - 1] * ByteBase + b[i] IN Got(value[n], Drop(b, n))

readVarBytes(b) ==
  LET l == readUint(b, LengthBytes) IN
  IF l.err # "nil" THEN l
  ELSE IF Len(l.rest) < l.val THEN Err("shortRead")
  ELSE Got(SubSeq(l.rest, 1, l.val), Drop(l.rest, l.val))

\* readASN1CertList: until the reader of the list says io.EOF.
CertList(b) ==
  LET step(acc, i) ==
        IF acc.err # "nil" THEN acc
        ELSE LET e == readVarBytes(acc.rest) IN
             IF e.err = "nil" THEN Got(Append(acc.val, e.val), e.rest) ELSE [acc EXCEPT !.err = e.err]
      all == FoldLeft(step, Got(<<>>, b), [i \in 1..(Len(b) + 1) |-> i]) IN
  IF all.err = "EOF" THEN Got(all.val, all.rest) ELSE Err(all.err)
readASN1CertList(b) ==
  LET l == readVarBytes(b) IN
  IF l.err # "nil" THEN l
  ELSE LET c == CertList(l.val) IN IF c.err # "nil" THEN c ELSE Got(c.val, l.rest)

-----------------------------------------------------------------------------
(* What GetEntries decodes *)

\* ReadTimestampedEntryInto; an error in the extensions is not reported.
ReadTimestampedEntryInto(b) ==
  LET head == readUint(b, 1)
      type == readUint(head.rest, 1)
      hash == IF type.val = PrecertEntry THEN readUint(type.rest, 1) ELSE Got(0, type.rest)
      cert == readVarBytes(hash.rest)
      ext == readVarBytes(cert.rest) IN
  CASE head.err # "nil" -> head
    [] head.err = "nil" /\ type.err # "nil" -> type
    [] head.err = "nil" /\ type.err = "nil" /\ type.val \notin {X509Entry, PrecertEntry} -> Err("unknownType")
    [] OTHER -> IF hash.err # "nil" THEN hash ELSE IF cert.err # "nil" THEN cert
                ELSE Got([timestamp |-> head.val, type |-> type.val, hash |-> hash.val, cert |-> cert.val,
                          ext |-> ext.val], ext.rest)

ReadMerkleTreeLeaf(b) ==
  LET version == readUint(b, 1)
      leafType == readUint(version.rest, 1) IN
  IF version.err # "nil" THEN version
  ELSE IF version.val # V1 THEN Err("unknownVersion")
  ELSE IF leafType.err # "nil" THEN leafType
  ELSE IF leafType.val # 0 THEN Err("unknownLeaf")
  ELSE ReadTimestampedEntryInto(leafType.rest)

UnmarshalX509ChainArray(b) == readASN1CertList(b)
UnmarshalPrecertChainArray(b) ==
  LET p == readVarBytes(b)
      l == readASN1CertList(p.rest) IN
  IF p.err # "nil" THEN p ELSE IF l.err # "nil" THEN l ELSE Got(<<p.val>> \o l.val, l.rest)

-----------------------------------------------------------------------------
(* Signed timestamps *)

UnmarshalDigitallySigned(b) ==
  LET h == readUint(b, 1)
      s == readUint(h.rest, 1)
      sig == readVarBytes(s.rest) IN
  IF h.err # "nil" THEN h ELSE IF s.err # "nil" THEN s ELSE IF sig.err # "nil" THEN sig
  ELSE Got([hash |-> h.val, alg |-> s.val, sig |-> sig.val], sig.rest)

\* The length of the signature is cut to its field (uint16).
marshalDigitallySigned(ds) ==
  <<ds.hash, ds.alg>> \o writeUint(Len(ds.sig) % (MaxLength + 1), LengthBytes) \o ds.sig

SerializedLength(sct) == 3 + LengthBytes + Len(sct.ext) + 2 + LengthBytes + Len(sct.signature.sig)

\* SerializeSCT, into a buffer of SerializedLength bytes.
SerializeSCT(sct) ==
  LET b == <<V1, sct.id, sct.timestamp>> \o writeVarBytes(sct.ext) \o marshalDigitallySigned(sct.signature) IN
  IF sct.version # V1 THEN Err("unknownVersion")
  ELSE IF Len(sct.ext) > MaxLength THEN Err("tooLarge")
  ELSE IF SerializedLength(sct) < Len(b) THEN Err("notEnoughBuffer") ELSE Got(b, <<>>)

DeserializeSCT(b) ==
  LET version == readUint(b, 1)
      id == readUint(version.rest, 1)
      time == readUint(id.rest, 1)
      ext == readVarBytes(time.rest)
      ds == UnmarshalDigitallySigned(ext.rest) IN
  IF version.err # "nil" THEN version
  ELSE IF version.val # V1 THEN Err("unknownVersion")
  ELSE IF id.err # "nil" THEN id ELSE IF time.err # "nil" THEN time
  ELSE IF ext.err # "nil" THEN ext ELSE IF ds.err # "nil" THEN ds
  ELSE Got([version |-> V1, id |-> id.val, timestamp |-> time.val, ext |-> ext.val, signature |-> ds.val], ds.rest)

-----------------------------------------------------------------------------
(* What is signed *)

checkCertificateFormat(c) == Len(c) > 0 /\ Len(c) <= MaxLength
checkExtensionsFormat(e) == Len(e) <= MaxLength

\* serializeV1CertSCTSignatureInput and serializeV1PrecertSCTSignatureInput, chosen by
\* serializeV1SCTSignatureInput.
SignatureInput(e) ==
  IF e.version # V1 THEN Err("unknownVersion")
  ELSE IF e.leafType # 0 THEN Err("unknownLeaf")
  ELSE IF e.type \notin {X509Entry, PrecertEntry} THEN Err("unknownType")
  ELSE IF ~checkCertificateFormat(e.cert) \/ ~checkExtensionsFormat(e.ext) THEN Err("badFormat")
  ELSE Got(<<V1, 0, e.timestamp, e.type>> \o (IF e.type = PrecertEntry THEN <<e.hash>> ELSE <<>>)
             \o writeVarBytes(e.cert) \o writeVarBytes(e.ext), <<>>)

\* serializeV1STHSignatureInput
TreeHeadInput(h) ==
  IF h.version # V1 THEN Err("invalidVersion") ELSE Got(<<V1, 1, h.timestamp, h.size, h.root>>, <<>>)

-----------------------------------------------------------------------------
Compute(c) ==
  CASE c.op = "leaf" -> ReadMerkleTreeLeaf(c.bytes)
    [] c.op = "chain" -> UnmarshalX509ChainArray(c.bytes)
    [] c.op = "precertChain" -> UnmarshalPrecertChainArray(c.bytes)
    [] c.op = "sct" -> SerializeSCT(c.sct)
    [] c.op = "sign" -> SignatureInput(c.entry)
    [] c.op = "signHead" -> TreeHeadInput(c.head)

CodecInit == ctCall \in CTInputs /\ ctResult = Err("notYet")
CodecNext == ctResult.err = "notYet" /\ ctResult' = Compute(ctCall) /\ UNCHANGED ctCall

SignedInputs == {d \in CTInputs : d.op \in {"sign", "signHead"}}
Accepted == ctResult.err = "nil"

-----------------------------------------------------------------------------
(* Properties *)

\* A chain that is accepted is what the bytes say: written again, its certificates are
\* the bytes of the list, but for an incomplete length at its end, which is dropped
\* silently because it ends with io.EOF (readASN1CertList).
ChainAsSent ==
  Accepted /\ ctCall.op \in {"chain", "precertChain"} =>
    LET certs == ctResult.val
        pre == IF ctCall.op = "chain" THEN <<>> ELSE writeVarBytes(Head(certs))
        rest == IF ctCall.op = "chain" THEN certs ELSE Tail(certs)
        list == FoldLeft(LAMBDA b, c : b \o writeVarBytes(c), <<>>, rest)
        sent == Drop(ctCall.bytes, Len(pre) + LengthBytes) IN
    /\ IsPrefix(pre, ctCall.bytes)
    /\ IsPrefix(list, sent)
    /\ Len(sent) - Len(ctResult.rest) - Len(list) \in 0..(LengthBytes - 1)

\* A leaf that is accepted has every mandatory part, from the bytes that were sent; only
\* extensions that are cut short read as none (ReadTimestampedEntryInto).
LeafAsSent ==
  Accepted /\ ctCall.op = "leaf" =>
    LET e == ctResult.val
        must == <<V1, 0, e.timestamp, e.type>> \o (IF e.type = PrecertEntry THEN <<e.hash>> ELSE <<>>)
                \o writeVarBytes(e.cert) IN
    /\ IsPrefix(must, ctCall.bytes)
    /\ e.ext # <<>> => IsPrefix(must \o writeVarBytes(e.ext), ctCall.bytes)

\* A signed timestamp survives the way through bytes, and fills its buffer exactly, as
\* long as its parts fit their lengths; a signature that is too long is written with the
\* length of a shorter one (marshalDigitallySignedHere does not check it).
SCTRoundTrip ==
  ctResult.err # "notYet" /\ ctCall.op = "sct" /\ ctCall.sct.version = V1
    /\ Len(ctCall.sct.ext) <= MaxLength /\ Len(ctCall.sct.signature.sig) <= MaxLength =>
    /\ Accepted
    /\ DeserializeSCT(ctResult.val).err = "nil" /\ DeserializeSCT(ctResult.val).val = ctCall.sct
    /\ DeserializeSCT(ctResult.val).rest = <<>>
    /\ Len(ctResult.val) = SerializedLength(ctCall.sct)

\* Two different things are never signed as the same bytes: neither two entries, nor an
\* entry and a tree head (the lengths and the type are part of what is signed); an entry of
\* a kind that has no format is not signed at all.
SignedOnce ==
  Accepted /\ ctCall.op = "sign" =>
    \A d \in SignedInputs :
      /\ d.op = "sign" /\ SignatureInput(d.entry) = ctResult => d.entry = ctCall.entry
      /\ d.op = "signHead" => TreeHeadInput(d.head) # ctResult
=============================================================================
