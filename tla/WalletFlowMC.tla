---------------------------- MODULE WalletFlowMC ----------------------------
(* Two tracked addresses and a third one; hyper blocks with deposits, a    *)
(* transfer below the minimum, one to an untracked address and one whose   *)
(* value cannot be parsed.                                                 *)
EXTENDS WalletFlow

Pay(a, v) == [receiver |-> a, value |-> v]

TwoBlocks ==
    << <<Pay("other", 3), Pay("alice", 2)>>,
       <<Pay("bob", Unparsable), Pay("bob", 1), Pay("bob", 2), Pay("alice", 2)>> >>
=============================================================================
