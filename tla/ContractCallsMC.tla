--------------------------- MODULE ContractCallsMC ---------------------------
(* Small instances of ContractCalls: numbers around 0 and around a byte,    *)
(* structs with every kind of field, nested at the start, in the middle and *)
(* twice, two accounts and two address indexes, and numbers of up to three  *)
(* bytes where two are what fits.                                           *)
EXTENDS ContractCalls

MCByteLists == {<<>>, <<0, 1>>, <<255>>}
MCIntegers == {-1, 0, 1, 255, 256}

u8 == <<"uint", 1>>
MCShapes == {
    <<"struct", <<u8, <<"int", 2>>, <<"bool">>, <<"uint", 2>>>>>>,
    <<"struct", <<<<"string">>, u8>>>>,
    <<"struct", <<<<"bigInt">>, u8>>>>,
    <<"struct", <<u8, <<"struct", <<u8, <<"bool">>>>>>, <<"int", 1>>>>>>,
    <<"struct", <<<<"ptr", <<u8, <<"struct", <<u8>>>>>>>>, <<"string">>>>>>,
    <<"ptr", <<u8, <<"nilPtr", <<u8>>>>>>>>,
    <<"struct", <<u8, <<"unexported">>>>>>,
    <<"struct", <<u8, <<"slice">>>>>>,
    <<"string">>, <<"bigInt">>, <<"bool">>, <<"int", 2>>, <<"uint", 4>>}

MCCommandLines ==
    [sender : {"", "bob", "erd1", "typo"}, receiver : {"", "erd1", "typo"},
     guardian : {"", "eve", "erd1", "typo"}, guardedTxBy : {"", "bob", "eve", "erd1"},
     dataField : {"", "data"}, value : {"", "1", "no number"}, gasLimit : {0, 5},
     withFunding : BOOLEAN, send : BOOLEAN, guardianSigned : BOOLEAN]

MCInitialNonces == [a \in Named \cup {"funding"} |-> IF a = "alice" THEN 1 ELSE 3]

MCWallets == {<<0, 0>>, <<0, 1>>, <<1, 0>>}

MCItems == UNION {[1..n -> {0, 1, 3}] : n \in 0..3}
MCOutputs ==
    {[ReturnCode |-> c, ReturnData |-> d] :
        c \in {"ok", "user error"},
        d \in {<<>>} \cup {<<i>> : i \in MCItems} \cup {<<i, <<1>>>> : i \in MCItems}}
==============================================================================
