-------------------------------- MODULE ASN1 --------------------------------
(***************************************************************************)
(* zct/asn1: values of Go types to DER and back, driven by the types and   *)
(* the parameters of structure fields (asn1.go, marshal.go, common.go).    *)
(*                                                                         *)
(* A type is its kind and its fields (the element, of a slice); a value of *)
(* a structure or slice is the sequence of its parts.  Reflection is left  *)
(* out, and so is RawContent.  The digits of a time are its year (two of   *)
(* them in a UTCTime) and its zone in minutes.  "panic" stands for an      *)
(* index out of range.  A behaviour is one call on one input.              *)
(***************************************************************************)
EXTENDS Integers, Sequences, FiniteSets, SequencesExt

CONSTANTS
  IntBytes,     \* the bytes of an int64
  Int32Bytes,   \* the bytes of an int32
  DERInputs     \* a sequence of [type, values to marshal, encodings to parse]

ASSUME ASN1Assumption == Int32Bytes \in Nat \ {0} /\ IntBytes \in Nat /\ Int32Bytes <= IntBytes

VARIABLES
  derCall,   \* the call
  derResult  \* what it returned, once it has

derVars == <<derCall, derResult>>

Parsed(v, off) == [err |-> "nil", val |-> v, off |-> off]
Refused(e) == [err |-> e, val |-> 0, off |-> 0]
SliceOf(b, off, n) == SubSeq(b, off + 1, off + n)
NoTag509 == -1
NoDefault == -99
Numeral(b, base, start) ==
  LET value[i \in 0..Len(b)] == IF i = 0 THEN start ELSE value[i - 1] * base + b[i] IN value[Len(b)]
Half(bytes) == 256^bytes \div 2

-----------------------------------------------------------------------------
(* Primitive types *)

parseBool(b) == IF b = <<0>> THEN Parsed(FALSE, 0) ELSE IF b = <<255>> THEN Parsed(TRUE, 0) ELSE Refused("invalidBool")
SignedValue(b) == Numeral(b, 256, IF b # <<>> /\ b[1] >= 128 THEN -1 ELSE 0)
parseInt64(b) == IF Len(b) > IntBytes THEN Refused("tooLarge") ELSE Parsed(SignedValue(b), 0)
parseInt32(b) ==
  LET r == parseInt64(b) IN
  IF r.err = "nil" /\ r.val \notin -Half(Int32Bytes)..(Half(Int32Bytes) - 1) THEN Refused("tooLarge") ELSE r
\* Inverted, plus one, negated: the same two's complement without a limit.
parseBigInt(b) ==
  Parsed(IF b # <<>> /\ b[1] >= 128 THEN -(Numeral([i \in 1..Len(b) |-> 255 - b[i]], 256, 0) + 1) ELSE Numeral(b, 256, 0), 0)

parseBitString(b) ==
  IF b = <<>> THEN Refused("zeroLength")
  ELSE IF b[1] > 7 \/ (Len(b) = 1 /\ b[1] > 0) \/ b[Len(b)] % 2^b[1] # 0 THEN Refused("padding")
  ELSE Parsed([bytes |-> Tail(b), n |-> (Len(b) - 1) * 8 - b[1]], 0)

\* At most five groups of seven bits.
parseBase128Int(b, off) ==
  LET ends == {i \in off..(Len(b) - 1) : b[i + 1] < 128}
      last == IF ends = {} THEN Len(b) ELSE Min(ends) IN
  IF last - off > 4 /\ Len(b) - off > 5 THEN Refused("tooLarge")
  ELSE IF ends = {} THEN Refused("truncated")
  ELSE Parsed(Numeral([i \in 1..(last - off + 1) |-> b[off + i] % 128], 128, 0), last + 1)

parseObjectIdentifier(b) ==
  LET first == parseBase128Int(b, 0)
      two == IF first.val < 80 THEN <<first.val \div 40, first.val % 40>> ELSE <<2, first.val - 80>>
      step(acc, i) ==
        IF acc.err # "nil" \/ acc.off >= Len(b) THEN acc
        ELSE LET v == parseBase128Int(b, acc.off) IN IF v.err # "nil" THEN v ELSE Parsed(Append(acc.val, v.val), v.off) IN
  IF b = <<>> THEN Refused("zeroLength")
  ELSE IF first.err # "nil" THEN first
  ELSE FoldLeft(step, Parsed(two, first.off), b)

\* Years from 69 on are of the last century, and those after 2049 are taken back by one.
parseUTCTime(b) ==
  IF Len(b) # 2 \/ b[1] >= 100 THEN Refused("badTime")
  ELSE Parsed([year |-> (IF b[1] >= 50 THEN 1900 ELSE 2000) + b[1], zone |-> b[2]], 0)
parseGeneralizedTime(b) ==
  IF Len(b) # 3 \/ b[1] >= 100 \/ b[2] >= 100 THEN Refused("badTime") ELSE Parsed([year |-> b[1] * 100 + b[2], zone |-> b[3]], 0)

isPrintable(c) == c \in 97..122 \cup 65..90 \cup 48..57 \cup 39..41 \cup 43..47 \cup {32, 58, 61, 63, 42}
parseString509(b, tag) ==
  IF tag = 19 /\ \E i \in 1..Len(b) : ~isPrintable(b[i]) THEN Refused("notPrintable")
  ELSE IF tag = 22 /\ \E i \in 1..Len(b) : b[i] >= 128 THEN Refused("notIA5")
  ELSE Parsed(b, 0)

\* The guesses at what a PrintableString with other characters was meant to be.
couldBeISO8859_1(b) == \A i \in 1..Len(b) : b[i] \in 32..126 \cup 160..255
couldBeT61(b) ==
  \A i \in 1..Len(b) : b[i] \notin {0, 35, 36, 92, 94, 96, 123, 125, 126, 165, 166, 172, 173, 174, 175, 185, 186, 192, 201}
                                 \cup 208..220 \cup {222, 223, 229, 255}
iso8859_1ToUTF8(b) ==
  FoldLeft(LAMBDA s, c : s \o (IF c < 128 THEN <<c>> ELSE <<192 + (c \div 64), 128 + (c % 64)>>), <<>>, b)
GuessString(b) ==
  IF \A i \in 1..Len(b) : isPrintable(b[i]) THEN Parsed(b, 0)
  ELSE IF couldBeISO8859_1(b) THEN Parsed(iso8859_1ToUTF8(b), 0)
  ELSE IF couldBeT61(b) THEN Parsed(b, 0) ELSE Refused("unknownString")

parseTagAndLength(b, off) ==
  LET lead == b[off + 1]
      tag == IF lead % 32 = 31 THEN parseBase128Int(b, off + 1) ELSE Parsed(lead % 32, off + 1)
      l == b[tag.off + 1]
      head(n, o) == Parsed([class |-> lead \div 64, compound |-> (lead \div 32) % 2 = 1, tag |-> tag.val, length |-> n], o)
      step(acc, i) ==
        IF acc.err # "nil" THEN acc
        ELSE IF acc.off >= Len(b) THEN Refused("truncated")
        ELSE IF acc.val >= 2^23 THEN Refused("tooLarge")
        ELSE LET n == acc.val * 256 + b[acc.off + 1] IN IF n = 0 THEN Refused("leadingZeros") ELSE Parsed(n, acc.off + 1)
      long == FoldLeft(step, Parsed(0, tag.off + 1), SubSeq(b, 1, Min({l % 128, Len(b)}))) IN
  IF off >= Len(b) THEN Refused("panic")
  ELSE IF tag.err # "nil" THEN tag
  ELSE IF tag.off >= Len(b) THEN Refused("truncated")
  ELSE IF l < 128 THEN head(l, tag.off + 1)
  ELSE IF l = 128 THEN Refused("indefinite")
  ELSE IF long.err # "nil" THEN long ELSE head(long.val, long.off)

-----------------------------------------------------------------------------
(* Types *)

universalTag(ty) ==
  CASE ty.kind \in {"int64", "int32", "big"} -> 2 [] ty.kind \in {"bool", "flag"} -> 1 [] ty.kind = "bytes" -> 4
    [] ty.kind = "bits" -> 3 [] ty.kind = "oid" -> 6 [] ty.kind = "enum" -> 10 [] ty.kind = "string" -> 19
    [] ty.kind = "time" -> 23 [] ty.kind = "struct" -> 16 [] ty.kind = "slice" -> IF ty.set THEN 17 ELSE 16
compoundType(ty) == ty.kind \in {"struct", "slice"}
RECURSIVE ZeroOf(_)
ZeroOf(ty) ==
  CASE ty.kind \in {"int64", "int32", "big", "enum"} -> 0 [] ty.kind \in {"bool", "flag"} -> FALSE
    [] ty.kind = "bits" -> [bytes |-> <<>>, n |-> 0]
    [] ty.kind = "raw" -> [class |-> 0, compound |-> FALSE, tag |-> 0, bytes |-> <<>>]
    [] ty.kind = "struct" -> [i \in 1..Len(ty.fields) |-> ZeroOf(ty.fields[i].type)]
    [] ty.kind = "any" -> [kind |-> "nil", val |-> <<>>]
    [] OTHER -> <<>>

\* What a field is when it is absent, if it may be.
setDefaultValue(ty, p, off) ==
  IF ~p.optional THEN Refused("mismatch")
  ELSE Parsed(IF p.default # NoDefault /\ ty.kind \in {"int64", "int32", "enum"} THEN p.default ELSE ZeroOf(ty), off)

invalidLength(off, length, total) == length > total - off

-----------------------------------------------------------------------------
(* Unmarshal *)

TopLevel == [optional |-> FALSE, explicit |-> FALSE, application |-> FALSE, default |-> NoDefault, tag |-> NoTag509,
             stringType |-> 0, set |-> FALSE, omitEmpty |-> FALSE]

RECURSIVE parseField(_, _, _, _)

\* One element more, if its header h is that of the element's type.
CountElement(b, elem, h, n) ==
  IF h.err # "nil" THEN h
  ELSE IF h.val.class # 0 \/ h.val.compound # compoundType(elem)
          \/ (IF h.val.tag = 27 THEN 19 ELSE h.val.tag) # universalTag(elem) THEN Refused("mismatch")
  ELSE IF invalidLength(h.off, h.val.length, Len(b)) THEN Refused("truncated")
  ELSE Parsed(n + 1, h.off + h.val.length)

\* One part more behind those of acc.
AppendPart(acc, r) == IF r.err # "nil" THEN r ELSE Parsed(Append(acc.val, r.val), r.off)

\* The elements are counted before any is parsed.
parseSequenceOf(b, elem) ==
  LET count[i \in 0..Len(b)] ==
        IF i = 0 THEN Parsed(0, 0)
        ELSE LET acc == count[i - 1] IN
             IF acc.err # "nil" \/ acc.off >= Len(b) THEN acc
             ELSE CountElement(b, elem, parseTagAndLength(b, acc.off), acc.val)
      element[i \in 0..Len(b)] ==
        IF i = 0 THEN Parsed(<<>>, 0)
        ELSE LET acc == element[i - 1] IN
             IF acc.err # "nil" THEN acc ELSE AppendPart(acc, parseField(elem, b, acc.off, TopLevel))
      n == count[Len(b)] IN
  IF n.err # "nil" THEN n ELSE element[n.val]

\* The fields of a structure; bytes after the last one are ignored.
parseStruct(b, fields) ==
  LET upTo[i \in 0..Len(fields)] ==
        IF i = 0 THEN Parsed(<<>>, 0)
        ELSE LET acc == upTo[i - 1] IN
             IF acc.err # "nil" THEN acc
             ELSE AppendPart(acc, parseField(fields[i].type, b, acc.off, fields[i].params)) IN
  upTo[Len(fields)]

parseContents(ty, tag, b) ==
  CASE ty.kind = "bool" -> parseBool(b) [] ty.kind = "int64" -> parseInt64(b)
    [] ty.kind \in {"int32", "enum"} -> parseInt32(b) [] ty.kind = "big" -> parseBigInt(b)
    [] ty.kind = "bytes" -> Parsed(b, 0) [] ty.kind = "bits" -> parseBitString(b) [] ty.kind = "oid" -> parseObjectIdentifier(b)
    [] ty.kind = "time" -> (IF tag = 23 THEN parseUTCTime(b) ELSE parseGeneralizedTime(b))
    [] ty.kind = "flag" -> Parsed(TRUE, 0) [] ty.kind = "string" -> parseString509(b, tag)
    [] ty.kind = "struct" -> parseStruct(b, ty.fields) [] ty.kind = "slice" -> parseSequenceOf(b, ty.fields[1].type)

\* The contents after a header; out of range where nothing has checked the length.
InnerBytes(ty, tag, b, h) ==
  IF h.off + h.val.length > Len(b) THEN Refused("panic")
  ELSE LET r == parseContents(ty, tag, SliceOf(b, h.off, h.val.length)) IN
       IF r.err # "nil" THEN r ELSE Parsed(r.val, h.off + h.val.length)

\* parseField from the header of the value itself, an explicit tag being unwrapped.
parseTagged(ty, b, off, h, p) ==
  LET other == CASE ty.kind = "string" -> {12, 20, 22, 27} [] ty.kind = "time" -> {24} [] OTHER -> {}
      tag == IF h.val.tag \in other THEN h.val.tag ELSE universalTag(ty)
      implicit == ~p.explicit /\ p.tag # NoTag509
      class == IF ~implicit THEN 0 ELSE IF p.application THEN 1 ELSE 2 IN
  IF h.err # "nil" THEN h
  ELSE IF h.val.class # class \/ h.val.tag # (IF implicit THEN p.tag ELSE tag) \/ h.val.compound # compoundType(ty)
  THEN setDefaultValue(ty, p, off)
  ELSE IF invalidLength(h.off, h.val.length, Len(b)) THEN Refused("truncated")
  ELSE InnerBytes(ty, tag, b, h)

parseRaw(b, h) ==
  IF h.err # "nil" THEN h
  ELSE IF invalidLength(h.off, h.val.length, Len(b)) THEN Refused("truncated")
  ELSE IF h.off + h.val.length > Len(b) THEN Refused("panic")
  ELSE Parsed([class |-> h.val.class, compound |-> h.val.compound, tag |-> h.val.tag,
               bytes |-> SliceOf(b, h.off, h.val.length)], h.off + h.val.length)

\* An interface{}: a value of the type its tag says, none for what is not known.
parseAny(b, h) ==
  LET raw == parseRaw(b, h)
      in == raw.val.bytes
      tag == h.val.tag
      kind == CASE tag \in {12, 19, 20, 22} -> "string" [] tag = 2 -> "int64" [] tag = 3 -> "bits" [] tag = 4 -> "bytes"
                [] tag = 6 -> "oid" [] tag = 23 -> "time" [] OTHER -> "nil"
      r == IF tag = 19 THEN GuessString(in) ELSE parseContents([kind |-> kind], tag, in) IN
  IF raw.err # "nil" THEN raw
  ELSE IF h.val.compound \/ h.val.class # 0 \/ kind = "nil" THEN Parsed([kind |-> "nil", val |-> <<>>], raw.off)
  ELSE IF r.err # "nil" THEN r ELSE Parsed([kind |-> kind, val |-> r.val], raw.off)

\* parseField from the outermost header h.
parseHeaded(ty, b, off, h, p) ==
  IF ty.kind = "raw" THEN parseRaw(b, h)
  ELSE IF ty.kind = "any" THEN parseAny(b, h)
  ELSE IF h.err # "nil" THEN h
  ELSE IF ~p.explicit THEN parseTagged(ty, b, off, h, p)
  ELSE IF \/ h.val.class # (IF p.application THEN 1 ELSE 2) \/ h.val.tag # p.tag
          \/ h.val.length # 0 /\ ~h.val.compound
       THEN setDefaultValue(ty, p, off)
  ELSE IF h.val.length > 0 THEN parseTagged(ty, b, off, parseTagAndLength(b, h.off), p)
  ELSE IF ty.kind = "flag" THEN Parsed(TRUE, h.off) ELSE Refused("notFlag")
parseField(ty, b, off, p) ==
  IF off = Len(b) THEN setDefaultValue(ty, p, off)
  ELSE parseHeaded(ty, b, off, parseTagAndLength(b, off), p)

Unmarshal509(ty, b) == parseField(ty, b, 0, TopLevel)

-----------------------------------------------------------------------------
(* Marshal *)

Bytes256(v, n) == [i \in 1..n |-> (v \div 256^(n - i)) % 256]
marshalBase128Int(n) ==
  LET l == IF n = 0 THEN 1 ELSE CHOOSE k \in 1..5 : 128^(k - 1) <= n /\ (k = 5 \/ n < 128^k) IN
  [i \in 1..l |-> ((n \div 128^(l - i)) % 128) + (IF i < l THEN 128 ELSE 0)]
int64Length(v) == Min({n \in 1..IntBytes : v \in -Half(n)..(Half(n) - 1)})
marshalInt64(v) == Bytes256(v, int64Length(v))
\* Zero takes one byte; a byte is put in front where the sign would be read wrong.
marshalBigInt(v) ==
  LET a == IF v < 0 THEN -v - 1 ELSE v
      n == CHOOSE k \in 0..3 : a < 256^k /\ (k = 0 \/ a >= 256^(k - 1))
      b == [i \in 1..n |-> IF v < 0 THEN 255 - Bytes256(a, n)[i] ELSE Bytes256(a, n)[i]] IN
  IF v < 0 THEN (IF b = <<>> \/ b[1] < 128 THEN <<255>> ELSE <<>>) \o b
  ELSE IF v = 0 THEN <<0>> ELSE (IF b[1] >= 128 THEN <<0>> ELSE <<>>) \o b

lengthLength(n) == CHOOSE k \in 1..3 : n < 256^k /\ (k = 1 \/ n >= 256^(k - 1))
marshalTagAndLength(class, compound, tag, length) ==
  LET lead == class * 64 + (IF compound THEN 32 ELSE 0)
      k == lengthLength(length) IN
  (IF tag >= 31 THEN <<lead + 31>> \o marshalBase128Int(tag) ELSE <<lead + tag>>)
  \o (IF length >= 128 THEN <<128 + k>> \o Bytes256(length, k) ELSE <<length>>)

marshalObjectIdentifier(oid) ==
  IF Len(oid) < 2 \/ oid[1] > 2 \/ (oid[1] < 2 /\ oid[2] >= 40) THEN Refused("invalidOID")
  ELSE Parsed(FoldLeft(LAMBDA b, n : b \o marshalBase128Int(n), <<>>, <<oid[1] * 40 + oid[2]>> \o SubSeq(oid, 3, Len(oid))), 0)

marshalUTCTime(t) ==
  IF t.year \in 1950..2049 THEN Parsed(<<t.year % 100, t.zone>>, 0) ELSE Refused("notUTCTime")
marshalString(s, stringType) ==
  IF \E i \in 1..Len(s) : (stringType = 22 /\ s[i] > 127) \/ (stringType = 19 /\ ~isPrintable(s[i]))
  THEN Refused("badString") ELSE Parsed(s, 0)
\* Of the strings with characters of one and two bytes.
ValidString(s) ==
  FoldLeft(LAMBDA left, c : IF c < 128 /\ left = 0 THEN 0 ELSE IF c \in 194..223 /\ left = 0 THEN 1
                            ELSE IF c \in 128..191 /\ left = 1 THEN 0 ELSE 2, 0, s) = 0

RECURSIVE marshalField(_, _, _)

Joined(parts) ==
  FoldLeft(LAMBDA acc, r : IF acc.err # "nil" THEN acc ELSE IF r.err # "nil" THEN r ELSE Parsed(acc.val \o r.val, 0),
           Parsed(<<>>, 0), parts)
marshalBody(ty, v, p) ==
  CASE ty.kind = "bool" \/ ty.kind = "flag" -> Parsed(<<IF v THEN 255 ELSE 0>>, 0)
    [] ty.kind \in {"int64", "int32", "enum"} -> Parsed(marshalInt64(v), 0)
    [] ty.kind = "big" -> Parsed(marshalBigInt(v), 0) [] ty.kind = "bytes" -> Parsed(v, 0)
    [] ty.kind = "string" -> marshalString(v, p.stringType) [] ty.kind = "time" -> marshalUTCTime(v)
    [] ty.kind = "bits" -> Parsed(<<(8 - (v.n % 8)) % 8>> \o v.bytes, 0) [] ty.kind = "oid" -> marshalObjectIdentifier(v)
    [] ty.kind = "struct" -> Joined([i \in 1..Len(v) |-> marshalField(ty.fields[i].type, v[i], ty.fields[i].params)])
    [] ty.kind = "slice" -> Joined([i \in 1..Len(v) |-> marshalField(ty.fields[1].type, v[i], TopLevel)])

\* An APPLICATION tag is written as a context-specific one.
marshalField(ty, v, p) ==
  LET odd == ty.kind = "string" /\ \E i \in 1..Len(v) : ~isPrintable(v[i])
      u == IF p.stringType # 0 THEN p.stringType ELSE IF odd THEN 12 ELSE universalTag(ty)
      tag == IF p.set THEN 17 ELSE u
      body == marshalBody(ty, v, p)
      implicit == ~p.explicit /\ p.tag # NoTag509
      inner == marshalTagAndLength(IF implicit THEN 2 ELSE 0, compoundType(ty), IF implicit THEN p.tag ELSE tag, Len(body.val))
               \o body.val IN
  IF ty.kind = "any" THEN (IF v.kind = "nil" THEN Refused("panic") ELSE marshalField([kind |-> v.kind], v.val, p))
  ELSE IF (ty.kind \in {"slice", "bytes", "oid"} /\ v = <<>> /\ p.omitEmpty) \/ (p.optional /\ v = ZeroOf(ty))
  THEN Parsed(<<>>, 0)
  ELSE IF ty.kind = "raw" THEN Parsed(marshalTagAndLength(v.class, v.compound, v.tag, Len(v.bytes)) \o v.bytes, 0)
  ELSE IF p.stringType # 0 /\ ty.kind # "string" THEN Refused("notString")
  ELSE IF odd /\ p.stringType = 0 /\ ~ValidString(v) THEN Refused("notUTF8")
  ELSE IF p.set /\ u # 16 THEN Refused("notSequence")
  ELSE IF body.err # "nil" THEN body
  ELSE Parsed(IF p.explicit THEN marshalTagAndLength(2, TRUE, p.tag, Len(inner)) \o inner ELSE inner, 0)

-----------------------------------------------------------------------------
CallOn(d) ==
  \/ \E v \in d.values : derCall = [op |-> "marshal", type |-> d.type, value |-> v]
  \/ \E b \in d.encodings : derCall = [op |-> "unmarshal", type |-> d.type, bytes |-> b]
DERInit == derResult = <<>> /\ \E i \in 1..Len(DERInputs) : CallOn(DERInputs[i])
DERNext ==
  /\ derResult = <<>> /\ UNCHANGED derCall
  /\ derResult' = <<IF derCall.op = "marshal" THEN marshalField(derCall.type, derCall.value, TopLevel)
                    ELSE Unmarshal509(derCall.type, derCall.bytes)>>

-----------------------------------------------------------------------------
(* Properties *)

DERAnswer == derResult[1]
Marshalled == derResult # <<>> /\ derCall.op = "marshal"
Unmarshalled == derResult # <<>> /\ derCall.op = "unmarshal"

\* What comes back as something else: a zero where the default is not zero, a set that is
\* not a type of its own, an APPLICATION tag, a string that is not printable under an
\* implicit tag, an untold flag.
Lossy(f, v) ==
  \/ f.params.default # NoDefault /\ v = 0
  \/ f.params.set /\ ~f.type.set
  \/ f.params.application
  \/ f.type.kind = "string" /\ f.params.tag # NoTag509 /\ ~f.params.explicit /\ \E i \in 1..Len(v) : ~isPrintable(v[i])
  \/ f.type.kind = "flag" /\ ~v /\ ~f.params.optional
LossyStruct(ty, v) == ty.kind = "struct" /\ \E i \in 1..Len(v) : Lossy(ty.fields[i], v[i])

\* A value that is marshalled comes back whole, with nothing left over, also when optional
\* fields are left out between others.
DERRoundTrip ==
  Marshalled /\ DERAnswer.err = "nil" /\ ~LossyStruct(derCall.type, derCall.value) =>
    Unmarshal509(derCall.type, DERAnswer.val) = Parsed(derCall.value, Len(DERAnswer.val))

\* Unmarshal of any bytes returns a value within them or an error, but for one kind of
\* damage on which it panics: a structure that has an explicit field and whose last two
\* bytes are an explicit tag and a length above zero.  parseField then reads the header of
\* the value inside, and parseTagAndLength indexes its first byte, which is not there.
CutExplicit(ty, b) ==
  LET h == parseTagAndLength(b, 0)
      end == h.off + h.val.length IN
  /\ ty.kind = "struct" /\ \E i \in 1..Len(ty.fields) : ty.fields[i].params.explicit
  /\ end \in 2..Len(b) /\ b[end - 1] \in 160..190 /\ b[end] > 0
UnmarshalTotal ==
  Unmarshalled =>
    /\ DERAnswer.err = "panic" => CutExplicit(derCall.type, derCall.bytes)
    /\ DERAnswer.err = "nil" => DERAnswer.off <= Len(derCall.bytes)

\* What an interface{} is given for a PrintableString never holds a zero byte, whatever it
\* was guessed to be.
GuessedText ==
  Unmarshalled /\ derCall.type.kind = "any" /\ DERAnswer.err = "nil" /\ derCall.bytes[1] = 19 =>
    \A i \in 1..Len(DERAnswer.val.val) : DERAnswer.val.val[i] # 0

\* What was parsed is a value: marshalled and parsed again it is the same, however it was
\* written (long forms, unneeded bytes, trailing fields).
ParsedValue ==
  Unmarshalled /\ DERAnswer.err = "nil" /\ ~LossyStruct(derCall.type, DERAnswer.val) =>
    LET again == marshalField(derCall.type, DERAnswer.val, TopLevel) IN
    again.err = "nil" => Unmarshal509(derCall.type, again.val) = Parsed(DERAnswer.val, Len(again.val))
=============================================================================
