---------------------------- MODULE SeparatedText ----------------------------
(***************************************************************************)
(* External: strings.Join and strings.Split of the Go library, for texts   *)
(* that are sequences of characters and a separator of one character.      *)
(***************************************************************************)
EXTENDS Integers, SequencesExt

Join(parts, sep) ==
    IF parts = <<>> THEN <<>>
    ELSE FoldLeft(LAMBDA text, part : text \o <<sep>> \o part, Head(parts), Tail(parts))

Split(text, sep) ==
    FoldLeft(LAMBDA parts, c : IF c = sep THEN Append(parts, <<>>)
                               ELSE [parts EXCEPT ![Len(parts)] = Append(@, c)],
             << <<>> >>, text)
==============================================================================
