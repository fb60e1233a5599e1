---------------------------- MODULE MCCloudTally ----------------------------
(***************************************************************************)
(* Bounded instances of CloudTally.                                        *)
(***************************************************************************)
EXTENDS CloudTally, TLC

\* A caller names the second batch of the first week.
SecondBatch == {<<1, 1>>}

Symmetric == Permutations(Requests)
=============================================================================
