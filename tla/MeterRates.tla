----------------------------- MODULE MeterRates -----------------------------
(***************************************************************************)
(* What an organization is granted and charged (cloud/api/meter.go), and   *)
(* for how long it is watched.                                             *)
(***************************************************************************)
EXTENDS Naturals

CONSTANTS
    Grant,      \* monthlyGrantMcr
    Costs,      \* what operations charge
    LastMonth   \* bound: months that pass

ASSUME CreditsAssumption == Grant \in Nat /\ Costs \subseteq Nat \ {0} /\ LastMonth \in Nat \ {0}
=============================================================================
