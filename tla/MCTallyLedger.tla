---------------------------- MODULE MCTallyLedger ----------------------------
(***************************************************************************)
(* Bounded instances of TallyLedger.                                       *)
(***************************************************************************)
EXTENDS TallyLedger, TLC

CONSTANTS merchant, rival, ana, eva

\* One campaign of one merchant, closing after the first ledger.
OneOwner == 1 :> merchant
OneDeadline == 1 :> 0

\* Two campaigns of two merchants; only the first one ever expires.
TwoOwners == 1 :> merchant @@ 2 :> rival
TwoDeadlines == 1 :> 0 @@ 2 :> MaxTime
=============================================================================
