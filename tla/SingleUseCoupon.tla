--------------------------- MODULE SingleUseCoupon ---------------------------
(***************************************************************************)
(* What the Burn profile promises to merchants and customers, without the  *)
(* contract's storage: under every campaign a code is absent, then         *)
(* available, then redeemed, never backwards and never past the issuance   *)
(* cap.  docs/SPEC.md section 3: "total issuance cap and exactly-once      *)
(* redemption".                                                            *)
(***************************************************************************)
EXTENDS Integers, FiniteSets

CONSTANTS CampaignIds, Codes, MaxSupply

VARIABLES
    cap,        \* issuance cap of a campaign; 0 before it is created
    status      \* life of each code under each campaign

Issued(c) == {k \in Codes : status[<<c, k>>] # "absent"}

Init ==
    /\ cap = [c \in CampaignIds |-> 0]
    /\ status = [ck \in CampaignIds \X Codes |-> "absent"]

Open(c, n) ==
    /\ cap[c] = 0
    /\ cap' = [cap EXCEPT ![c] = n]
    /\ UNCHANGED status

\* A whole batch of distinct new codes becomes available at once, or none.
Issue(c, batch) ==
    /\ batch # {}
    /\ batch \cap Issued(c) = {}
    /\ Cardinality(Issued(c)) + Cardinality(batch) <= cap[c]
    /\ status' = [ck \in DOMAIN status |->
                    IF ck \in {c} \X batch THEN "available" ELSE status[ck]]
    /\ UNCHANGED cap

Redeem(c, k) ==
    /\ status[<<c, k>>] = "available"
    /\ status' = [status EXCEPT ![<<c, k>>] = "redeemed"]
    /\ UNCHANGED cap

Next ==
    \E c \in CampaignIds :
        \/ \E n \in 1..MaxSupply : Open(c, n)
        \/ \E batch \in SUBSET Codes : Issue(c, batch)
        \/ \E k \in Codes : Redeem(c, k)

Spec == Init /\ [][Next]_<<cap, status>>
=============================================================================
