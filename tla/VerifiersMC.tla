----------------------------- MODULE VerifiersMC -----------------------------
(***************************************************************************)
(* Small instances of the two components that verify what others have      *)
(* signed, and that share what they have learned between concurrent calls: *)
(* the server of native authentication with its client, and the header     *)
(* check.  They have no state in common, so a behaviour is one of either,  *)
(* the other resting.                                                      *)
(***************************************************************************)
EXTENDS NativeAuth, HeaderCheck

VARIABLE part

vars == <<part, authVars, headerVars>>

Init == part \in {"authentication", "headers"} /\ AuthInit /\ HeadersInit

Authenticate == part = "authentication" /\ AuthNext /\ UNCHANGED <<part, headerVars>>
CheckHeaders == part = "headers" /\ HeadersNext /\ UNCHANGED <<part, authVars>>

Next == Authenticate \/ CheckHeaders

Spec == Init /\ [][Next]_vars

(* headers of the genesis epoch and of two later ones, in two shards, with *)
(* signatures of their own and of another epoch                            *)
MCHeaders ==
    {[shard |-> "meta", epoch |-> 0, signed |-> 0], [shard |-> "meta", epoch |-> 1, signed |-> 1],
     [shard |-> "0", epoch |-> 1, signed |-> 0], [shard |-> "0", epoch |-> 2, signed |-> 2],
     [shard |-> "0", epoch |-> 2, signed |-> 1]}

(* the concurrent calls are interchangeable *)
CallSymmetry == Permutations(Requests) \cup Permutations(Verifications)
==============================================================================
