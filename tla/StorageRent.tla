----------------------------- MODULE StorageRent -----------------------------
(***************************************************************************)
(* The rent of the contract's storage (extend_ttl in                       *)
(* contracts/coupon-ledger/src/lib.rs): every entry lives until a ledger,  *)
(* calls prolong the entries they write, and the public bump_* calls       *)
(* prolong what keepers name.  SPEC.md section 8: integrations inventory   *)
(* campaigns, codes, delegates and tally periods and bump them in time.    *)
(*                                                                         *)
(* What the entries hold is left to CouponLedger and TallyLedger: but for  *)
(* the presence and the life of entries their guards are dropped here, so  *)
(* that every sequence of calls is covered.  Campaign ids, coupons (one    *)
(* token per campaign and code) and owner slots are named by what they     *)
(* belong to.                                                              *)
(***************************************************************************)
EXTENDS Integers

CONSTANTS
    Campaigns, Codes, Delegates, Periods,
    OwnerOf,        \* campaign -> owner
    Threshold,      \* LEDGER_BUMP
    ExtendTo,       \* EXTEND_TO
    NewLife,        \* life of a new entry before it is extended (network)
    Gap             \* ledgers within which keepers bump each thing again

RentAssumption ==
    /\ Threshold \in Nat /\ ExtendTo \in Nat /\ NewLife \in Nat /\ Gap \in Nat
    /\ Gap <= Threshold /\ Threshold <= ExtendTo

VARIABLES
    ttl,            \* entry -> ledgers it has left; negative: archived
    due,            \* thing keepers look after -> ledgers until its next bump
    burned          \* coupons redeemed

vars == <<ttl, due, burned>>

-----------------------------------------------------------------------------
Instance == <<"Instance">>
CampaignKey(c) == <<"Campaign", c>>
OwnerCount(c) == <<"OwnerCount", OwnerOf[c]>>
IndexKeys(c) == {<<"OwnerCampaign", c>>, <<"CampaignOwnerSlot", c>>}
CodeIndex(c, k) == <<"CodeIndex", c, k>>
Token(c, k) == <<"Token", c, k>>
Delegate(c, d) == <<"Delegate", c, d>>
Shared(c, k) == <<"Shared", c, k>>
Tally(c, k, p) == <<"Tally", c, k, p>>
Settled(c, k, p) == <<"Settled", c, k, p>>

\* What create_campaign writes, and what each thing of the inventory means.
CampaignEntries(c) == {Instance, CampaignKey(c), OwnerCount(c)} \cup IndexKeys(c)

BumpedEntries(c) == {Instance, CampaignKey(c), OwnerCount(c)} \cup IndexKeys(c)

\* Mutant: the coupons are taken to live as long as their codes.
IndexOnly(c, k) == {CodeIndex(c, k)}
CodeEntries(c, k) == {CodeIndex(c, k), Token(c, k)}

\* Mutant: paid periods are not looked at again.
OpenEntries(c, k) == {Shared(c, k)} \cup {Tally(c, k, p) : p \in Periods}
TallyEntries(c, k) ==
    {Shared(c, k)} \cup {Tally(c, k, p) : p \in Periods}
                   \cup {Settled(c, k, p) : p \in Periods}

Present(k) == k \in DOMAIN ttl

\* A call that reads an archived entry fails.
Live(keys) == \A k \in keys : Present(k) /\ ttl[k] >= 0
NotArchived(keys) == \A k \in keys : Present(k) => ttl[k] >= 0

\* extend_ttl(key, LEDGER_BUMP, EXTEND_TO): only a short life is prolonged.
Extended(life) == IF life <= Threshold THEN ExtendTo ELSE life

Life(k) == IF Present(k) THEN ttl[k] ELSE NewLife

\* set (where the entry is new) and extend_ttl.
Renew(keys) ==
    ttl' = [k \in DOMAIN ttl \cup keys |->
              IF k \in keys THEN Extended(Life(k)) ELSE ttl[k]]

\* The keepers take one more thing into their inventory.
Inventory(thing) ==
    due' = [x \in DOMAIN due \cup {thing} |->
              IF x \in DOMAIN due THEN due[x] ELSE Gap]

-----------------------------------------------------------------------------
Init ==
    /\ ttl = [k \in {} |-> 0]
    /\ due = [x \in {} |-> 0]
    /\ burned = {}

\* The next ledger.  Keepers bump everything in time.
NextLedger ==
    /\ \A x \in DOMAIN due : due[x] > 0
    /\ ttl' = [k \in DOMAIN ttl |-> ttl[k] - 1]
    /\ due' = [x \in DOMAIN due |-> due[x] - 1]
    /\ UNCHANGED burned

CreateCampaign(c) ==
    /\ ~Present(CampaignKey(c))
    /\ NotArchived({Instance, OwnerCount(c)})
    /\ Renew(CampaignEntries(c))
    /\ Inventory(CampaignEntries(c))
    /\ UNCHANGED burned

IssueUnique(c, k) ==
    /\ Live({Instance, CampaignKey(c)})
    /\ ~Present(CodeIndex(c, k))
    /\ Renew({Instance, CampaignKey(c), CodeIndex(c, k), Token(c, k)})
    /\ Inventory({CodeIndex(c, k), Token(c, k)})
    /\ UNCHANGED burned

\* The code's index entry is read and not prolonged, nor is a delegate's.
RedeemUnique(c, k) ==
    /\ Live({Instance, CampaignKey(c), CodeIndex(c, k), Token(c, k)})
    /\ <<c, k>> \notin burned
    /\ burned' = burned \cup {<<c, k>>}
    /\ Renew({Instance, CampaignKey(c), Token(c, k)})
    /\ UNCHANGED due

AddDelegate(c, d) ==
    /\ Live({Instance, CampaignKey(c)})
    /\ NotArchived({Delegate(c, d)})
    /\ Renew({Delegate(c, d)})
    /\ Inventory({Delegate(c, d)})
    /\ UNCHANGED burned

RemoveDelegate(c, d) ==
    /\ Live({Instance, CampaignKey(c)})
    /\ ttl' = [k \in DOMAIN ttl \ {Delegate(c, d)} |-> ttl[k]]
    /\ due' = [x \in DOMAIN due \ {{Delegate(c, d)}} |-> due[x]]
    /\ UNCHANGED burned

RegisterShared(c, k) ==
    /\ Live({Instance, CampaignKey(c)})
    /\ ~Present(Shared(c, k))
    /\ Renew({Shared(c, k)})
    /\ Inventory(TallyEntries(c, k))
    /\ UNCHANGED burned

CommitTally(c, k, p) ==
    /\ Live({Instance, CampaignKey(c), Shared(c, k)})
    /\ ~Present(Tally(c, k, p))
    /\ Renew({Tally(c, k, p)})
    /\ UNCHANGED <<due, burned>>

Settle(c, k, p) ==
    /\ Live({Instance, CampaignKey(c), Shared(c, k), Tally(c, k, p)})
    /\ ~Present(Settled(c, k, p))
    /\ Renew({Settled(c, k, p)})
    /\ UNCHANGED <<due, burned>>

\* One bump call: it prolongs what is there of what it was named, and asks
\* for those entries it cannot do without.
Bump(required, named, thing) ==
    /\ Live({Instance} \cup required)
    /\ NotArchived(named)
    /\ Renew({k \in named : Present(k)})
    /\ due' = [x \in DOMAIN due |-> IF x = thing THEN Gap ELSE due[x]]
    /\ UNCHANGED burned

BumpCampaign(c) ==
    Bump({CampaignKey(c)}, BumpedEntries(c), CampaignEntries(c))
BumpCodes(c, k) == Bump({}, CodeEntries(c, k), {CodeIndex(c, k), Token(c, k)})
BumpDelegates(c, d) ==
    Bump({CampaignKey(c)}, {Delegate(c, d)}, {Delegate(c, d)})
BumpTally(c, k) ==
    Bump({Shared(c, k)}, TallyEntries(c, k), TallyEntries(c, k))

Next ==
    \/ NextLedger
    \/ \E c \in Campaigns :
          \/ CreateCampaign(c) \/ BumpCampaign(c)
          \/ \E k \in Codes :
                \/ IssueUnique(c, k) \/ RedeemUnique(c, k) \/ BumpCodes(c, k)
                \/ RegisterShared(c, k) \/ BumpTally(c, k)
                \/ \E p \in Periods : CommitTally(c, k, p) \/ Settle(c, k, p)
          \/ \E d \in Delegates :
                \/ AddDelegate(c, d) \/ RemoveDelegate(c, d)
                \/ BumpDelegates(c, d)

Spec == Init /\ [][Next]_vars

-----------------------------------------------------------------------------
\* Lives are counted in ledgers and never exceed what the network and the
\* contract give, and no thing waits longer than the gap.
TypeOK ==
    /\ \A k \in DOMAIN ttl :
          ttl[k] \in Int /\ (ttl[k] <= ExtendTo \/ ttl[k] <= NewLife)
    /\ \A x \in DOMAIN due : due[x] \in 0..Gap
    /\ burned \subseteq Campaigns \X Codes

\* Who bumps every campaign, coupon, delegate and tally of the inventory
\* within LEDGER_BUMP ledgers keeps every entry of the contract alive: the
\* public calls reach them all, and none of them comes too late (SPEC.md
\* section 8; bump_campaign, bump_codes, bump_delegates, bump_tally).
NothingExpires == \A k \in DOMAIN ttl : ttl[k] >= 0

\* Why: each entry belongs to a thing of the inventory and outlives the
\* ledgers left until the next bump of it.
Inventoried ==
    \A k \in DOMAIN ttl : \E x \in DOMAIN due : k \in x /\ ttl[k] >= due[x]
=============================================================================
