---------------------------- MODULE CallBuilders -----------------------------
(***************************************************************************)
(* builders/baseBuilder.go, txDataBuilder.go and vmQueryBuilder.go: the    *)
(* arguments of a contract call, collected call by call.  The setters are  *)
(* chained and return no error: the builder keeps it for the final call.   *)
(*                                                                         *)
(* A character is a number: a hex digit is 0..15, the separator, a letter  *)
(* of a function name and one that is no hex digit come after those.       *)
(***************************************************************************)
EXTENDS SeparatedText

CONSTANTS
    Integer,    \* the numbers passed as arguments
    ByteLists,  \* the byte slices
    MaxCalls    \* bound on the length of a chain

VARIABLES
    builder,    \* "txData" or "vmQuery"
    args, err,  \* baseBuilder
    function, address, callerAddr,
    given       \* what the caller asked for, refused or not

builderVars == <<builder, args, err, function, address, callerAddr, given>>

Separator == 16
Letter == 17
NotHex == 18
NilValue == "nil"

FunctionNames == {<<>>, <<Letter>>}
HexStrings == {<<>>, <<0, 1>>, <<1>>, <<NotHex, 0>>}
AddressBytes == <<7, 255>>                  \* of the valid address
AddressArgs == {"nil", "invalid", "valid"}

EncodeToString(bytes) ==
    FoldLeft(LAMBDA text, b : text \o <<b \div 16, b % 16>>, <<>>, bytes)

\* hex.DecodeString gives no error
IsHex(text) == Len(text) % 2 = 0 /\ \A i \in DOMAIN text : text[i] \in 0..15

DecodeString(text) ==
    [i \in 1..(Len(text) \div 2) |-> 16 * text[2 * i - 1] + text[2 * i]]

\* big.Int.Bytes: big endian, no leading zero, without the sign
Bytes(n) ==
    LET m == IF n < 0 THEN -n ELSE n
    IN  CASE m = 0 -> <<>>
          [] m \in 1..255 -> <<m>>
          [] OTHER -> <<m \div 256, m % 256>>

Number(bytes) == FoldLeft(LAMBDA n, b : 256 * n + b, 0, bytes)

BuilderInit ==
    /\ builder \in {"txData", "vmQuery"}
    /\ args = <<>> /\ err = "none"
    /\ function = <<>> /\ address = "" /\ callerAddr = ""
    /\ given = <<>>

-----------------------------------------------------------------------------

Ask(kind, value) ==
    /\ Len(given) < MaxCalls
    /\ given' = Append(given, [kind |-> kind, value |-> value])

WithBytes(bytes) == Append(args, EncodeToString(IF bytes = <<>> THEN <<0>> ELSE bytes))
addBytes(bytes) == args' = WithBytes(bytes)

setterVars == <<builder, function, address, callerAddr>>

addArgHexString(text) ==
    /\ Ask("hex", text)
    /\ IF err # "none" THEN UNCHANGED <<args, err>>
       ELSE IF ~IsHex(text) THEN err' = "hex" /\ UNCHANGED args
       ELSE args' = Append(args, text) /\ UNCHANGED err
    /\ UNCHANGED setterVars

addArgAddress(a) ==
    /\ Ask("address", a)
    /\ IF err # "none" THEN UNCHANGED <<args, err>>
       ELSE IF a # "valid" THEN err' = a /\ UNCHANGED args
       ELSE addBytes(AddressBytes) /\ UNCHANGED err
    /\ UNCHANGED setterVars

\* addArgInt64 does the same to a number that is never nil
addArgBigInt(n) ==
    /\ Ask("int", n)
    /\ IF err # "none" THEN UNCHANGED <<args, err>>
       ELSE addBytes(Bytes(n)) /\ UNCHANGED err
    /\ UNCHANGED setterVars

addArgNilBigInt ==
    /\ Ask("nilInt", NilValue)
    /\ err' = IF err # "none" THEN err ELSE "nilValue"
    /\ UNCHANGED <<args, setterVars>>

\* an empty slice is an error and is appended all the same
addArgBytes(bytes) ==
    /\ Ask("bytes", bytes)
    /\ IF err # "none" THEN UNCHANGED <<args, err>>
       ELSE addBytes(bytes) /\ err' = IF bytes = <<>> THEN "empty" ELSE err
    /\ UNCHANGED setterVars

Function(f) ==
    /\ function' = f
    /\ UNCHANGED <<builder, args, err, address, callerAddr, given>>

\* these two look at no earlier error and may replace it
Address(a) ==
    /\ builder = "vmQuery"
    /\ Ask("to", a)
    /\ IF a = "valid" THEN address' = a /\ UNCHANGED err ELSE err' = a /\ UNCHANGED address
    /\ UNCHANGED <<builder, args, function, callerAddr>>

CallerAddress(a) ==
    /\ builder = "vmQuery"
    /\ Ask("from", a)
    /\ IF a = "valid" THEN callerAddr' = a /\ UNCHANGED err ELSE err' = a /\ UNCHANGED callerAddr
    /\ UNCHANGED <<builder, args, function, address>>

Data == Join((IF function = <<>> THEN <<>> ELSE <<function>>) \o args, Separator)

\* mutant: the error of an earlier call is forgotten
ToDataStringOfWhatThereIs == [err |-> "none", text |-> Data]

ToDataString ==
    IF err # "none" THEN [err |-> err, text |-> <<>>] ELSE [err |-> "none", text |-> Data]

ToVmValueRequest ==
    [err |-> err, Address |-> address, FuncName |-> function, CallerAddr |-> callerAddr,
     Args |-> IF err # "none" THEN <<>> ELSE args]

\* the Arg setters of both builders; ArgBytesList is one ArgBytes after another
Arg ==
    \/ \E text \in HexStrings : addArgHexString(text)
    \/ \E a \in AddressArgs : addArgAddress(a)
    \/ \E n \in Integer : addArgBigInt(n)
    \/ addArgNilBigInt
    \/ \E bytes \in ByteLists : addArgBytes(bytes)

BuilderNext ==
    \/ Arg
    \/ \E a \in AddressArgs : Address(a) \/ CallerAddress(a)
    \/ \E f \in FunctionNames : Function(f)

-----------------------------------------------------------------------------

Represents(text, g) ==
    CASE g.kind = "hex" -> text = g.value
      [] g.kind = "address" -> g.value = "valid" /\ DecodeString(text) = AddressBytes
      [] g.kind = "int" -> g.value >= 0 => Number(DecodeString(text)) = g.value
      [] g.kind = "bytes" -> DecodeString(text) = g.value
      [] OTHER -> FALSE

Asked(kinds) == SelectSeq(given, LAMBDA g : g.kind \in kinds)
Arguments == Asked({"hex", "address", "int", "nilInt", "bytes"})

RepresentAll(texts) ==
    /\ Len(texts) = Len(Arguments)
    /\ \A i \in DOMAIN texts : Represents(texts[i], Arguments[i])

(* When ToDataString gives no error, its text taken apart at the           *)
(* separators is the function, if there is one, and then exactly the       *)
(* arguments asked for, in their order and each with its value; the same   *)
(* holds of the arguments of ToVmValueRequest, whose addresses are those   *)
(* asked for.  No call of the chain is dropped silently.  Of a negative    *)
(* number only its place is claimed: see NumbersKeepTheirSign.             *)
BuiltIsGiven ==
    /\ builder = "txData" /\ ToDataString.err = "none" =>
        LET parts == Split(ToDataString.text, Separator)
        IN  CASE function # <<>> -> parts[1] = function /\ RepresentAll(Tail(parts))
              [] function = <<>> /\ Arguments = <<>> -> ToDataString.text = <<>>
              [] OTHER -> RepresentAll(parts)
    /\ builder = "vmQuery" /\ ToVmValueRequest.err = "none" =>
        /\ RepresentAll(ToVmValueRequest.Args)
        /\ \A g \in ToSet(Asked({"to"})) : ToVmValueRequest.Address = g.value
        /\ \A g \in ToSet(Asked({"from"})) : ToVmValueRequest.CallerAddr = g.value

(* ArgBigInt and ArgInt64 "adds the provided value to the arguments list". *)
(* Not so for a negative one: big.Int.Bytes drops the sign, the call gives *)
(* no error and the argument is the absolute value.                        *)
NumbersKeepTheirSign ==
    ToVmValueRequest.err = "none" =>
        \A i \in DOMAIN args : Arguments[i].kind = "int" => Number(DecodeString(args[i])) = Arguments[i].value
=============================================================================
