---------------------------- MODULE Deserializer -----------------------------
(***************************************************************************)
(* serde/sourceBuffer.go and serde/deserializer.go: the fields of a struct *)
(* are read from bytes, in order, nested structs included.                 *)
(*                                                                         *)
(* A byte has Base values, so that the widths of 1, 2, 4 and 8 bytes stay  *)
(* what they are in the code and the numbers stay small.  A struct is the  *)
(* sequence of its fields' kinds; a nested one is <<"struct", fields>> or  *)
(* <<"ptr", fields>>.  The result has the values set so far: on an error   *)
(* the fields before it keep theirs.                                       *)
(***************************************************************************)
EXTENDS Integers, SequencesExt

CONSTANTS Base, ByteValues, MaxLength, Shapes

ASSUME BytesHaveBase == ByteValues \subseteq 0..(Base - 1)

VARIABLES shape, buff, decoded

decoderVars == <<shape, buff, decoded>>

-----------------------------------------------------------------------------
(* SourceBuffer: the bytes and the offset; a read gives a value, whether   *)
(* the end was met, and the buffer after it                                *)

NewSourceBuffer(b) == [s |-> b, off |-> 0]
OffBytes(sb) == SubSeq(sb.s, sb.off + 1, Len(sb.s))

Skip(sb, n) == [sb EXCEPT !.off = IF sb.off + n > Len(sb.s) THEN Len(sb.s) ELSE sb.off + n]

Read(value, eof, sb) == [value |-> value, eof |-> eof, sb |-> sb]

NextBytes(sb, n) ==
    LET after == Skip(sb, n)
    IN  Read(SubSeq(sb.s, sb.off + 1, after.off), sb.off + n > Len(sb.s), after)

NextByte(sb) ==
    IF sb.off >= Len(sb.s) THEN Read(0, TRUE, sb)
    ELSE Read(sb.s[sb.off + 1], FALSE, Skip(sb, 1))

NextBool(sb) ==
    LET r == NextByte(sb) IN Read(r.value = 1, r.eof \/ r.value \notin {0, 1}, r.sb)

BigEndian(bytes) == FoldLeft(LAMBDA n, b : Base * n + b, 0, bytes)

NextUint(sb, width) ==
    LET r == NextBytes(sb, width) IN [r EXCEPT !.value = IF r.eof THEN 0 ELSE BigEndian(r.value)]

\* the conversion of an unsigned number to the signed type of its width
Signed(n, width) == IF 2 * n >= Base^width THEN n - Base^width ELSE n

NextVarBytes(sb) ==
    LET count == NextUint(sb, 4)
    IN  IF count.eof THEN Read(<<>>, TRUE, count.sb) ELSE NextBytes(count.sb, count.value)

-----------------------------------------------------------------------------

Convert(r, Op(_)) == [r EXCEPT !.value = Op(r.value)]
AsNumber(n) == [number |-> n]
AsText(bytes) == [text |-> bytes]

\* kinds of other sizes differ in the width only; a slice is the default case
getNextValueFromBuffer(sb, kind) ==
    CASE kind[1] = "uint" -> Convert(NextUint(sb, kind[2]), AsNumber)
      [] kind[1] = "int" -> Convert(NextUint(sb, kind[2]), LAMBDA n : AsNumber(Signed(n, kind[2])))
      [] kind[1] = "bool" -> Convert(NextBool(sb), LAMBDA b : AsNumber(IF b THEN 1 ELSE 0))
      [] kind[1] = "string" -> Convert(NextVarBytes(sb), AsText)
      [] kind[1] = "bigInt" -> Convert(NextVarBytes(sb), LAMBDA bytes : AsNumber(BigEndian(bytes)))
      [] kind[1] = "unexported" -> Convert(NextUint(sb, 1), AsNumber)
      [] OTHER -> Read(AsText(<<>>), TRUE, sb)

Nested(kind) == kind[1] \in {"struct", "ptr", "nilPtr"}
Result(err, used, values) == [err |-> err, used |-> used, values |-> values]

RECURSIVE setFields(_, _, _)
RECURSIVE CreateStruct(_, _)

\* mutant: the bytes of a nested struct are read again
NoSkip(sb, n) == sb

AfterNested(sb, n) == Skip(sb, n)

\* a nil pointer has no element that can be set
CanSet(kind) == kind[1] # "nilPtr"

CreateStruct(kind, bytes) ==
    IF ~CanSet(kind) THEN Result("invalid type", 0, <<>>)
    ELSE setFields(kind[2], NewSourceBuffer(bytes), <<>>)

\* an error of a nested struct comes with the nested offset
setFields(kinds, sb, values) ==
    IF kinds = <<>> THEN Result("none", sb.off, values)
    ELSE IF Nested(Head(kinds)) THEN
        LET inner == CreateStruct(Head(kinds), OffBytes(sb))
            set == Append(values, [fields |-> inner.values])
        IN  IF inner.err # "none" THEN Result(inner.err, inner.used, set)
            ELSE setFields(Tail(kinds), AfterNested(sb, inner.used), set)
    ELSE
        LET r == getNextValueFromBuffer(sb, Head(kinds))
        IN  IF r.eof THEN Result("empty buffer", r.sb.off, values)
            ELSE IF Head(kinds)[1] = "unexported" THEN Result("can't set value for field", r.sb.off, values)
            ELSE setFields(Tail(kinds), r.sb, Append(values, r.value))

PutUint(n, width) == [i \in 1..width |-> (n \div Base^(width - i)) % Base]

\* a string or a big.Int is the whole slice: its length is put before it
CreatePrimitiveDataType(kind, bytes) ==
    LET whole == IF kind[1] \in {"string", "bigInt"} THEN PutUint(Len(bytes), 4) \o bytes ELSE bytes
        r == getNextValueFromBuffer(NewSourceBuffer(whole), kind)
    IN  IF r.eof THEN Result("empty buffer", 0, <<>>) ELSE Result("none", r.sb.off, <<r.value>>)

-----------------------------------------------------------------------------

NotDecoded == Result("not yet", 0, <<>>)

DecoderInit ==
    /\ shape \in Shapes
    /\ buff \in UNION {[1..n -> ByteValues] : n \in 0..MaxLength}
    /\ decoded = NotDecoded

Decode ==
    /\ decoded = NotDecoded
    /\ decoded' = IF Nested(shape) THEN CreateStruct(shape, buff) ELSE CreatePrimitiveDataType(shape, buff)
    /\ UNCHANGED <<shape, buff>>

-----------------------------------------------------------------------------

RECURSIVE Encodings(_, _)

\* all encodings of a value, a big.Int having one for every number of zeros
\* put before it
EncodingsOf(kind, v) ==
    CASE Nested(kind) -> Encodings(kind[2], v.fields)
      [] kind[1] \in {"uint", "int"} -> {PutUint((v.number + Base^kind[2]) % Base^kind[2], kind[2])}
      [] kind[1] = "bool" -> {<<v.number>>}
      [] kind[1] = "string" -> {PutUint(Len(v.text), 4) \o v.text}
      [] kind[1] = "bigInt" -> {PutUint(k, 4) \o PutUint(v.number, k) :
                                    k \in {k \in 0..MaxLength : v.number < Base^k}}

Encodings(kinds, values) ==
    IF kinds = <<>> THEN {<<>>}
    ELSE {e \o rest : e \in EncodingsOf(Head(kinds), Head(values)),
                      rest \in Encodings(Tail(kinds), Tail(values))}

(* When CreateStruct succeeds, the bytes it says it used are an encoding   *)
(* of the values it set, nested structs included: no byte is skipped, read *)
(* twice or taken from behind the end.  CreatePrimitiveDataType makes a    *)
(* string or a big.Int of the whole slice and a number of its first bytes. *)
DecodedIsEncoded ==
    decoded.err = "none" =>
        IF Nested(shape) THEN SubSeq(buff, 1, decoded.used) \in Encodings(shape[2], decoded.values)
        ELSE LET read == IF shape[1] \in {"string", "bigInt"} THEN PutUint(Len(buff), 4) \o buff
                         ELSE SubSeq(buff, 1, decoded.used)
             IN  read \in EncodingsOf(shape, decoded.values[1])
=============================================================================
