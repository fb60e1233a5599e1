---------------------------- MODULE MCStorageRent ----------------------------
(***************************************************************************)
(* The rent of the contract's storage (StorageRent) for the campaigns of   *)
(* the keepers.  Its constants and variables have names of their own, so   *)
(* that what is proved of it stands beside the proofs about the tally.     *)
(***************************************************************************)
EXTENDS Integers

CONSTANTS
    KeptCampaigns, KeptCodes, KeptDelegates, KeptPeriods, KeptOwnerOf,
    Threshold, ExtendTo, NewLife, Gap

VARIABLES ttl, nextBump, burned

Rent == INSTANCE StorageRent WITH
            Campaigns <- KeptCampaigns, Codes <- KeptCodes,
            Delegates <- KeptDelegates, Periods <- KeptPeriods,
            OwnerOf <- KeptOwnerOf, due <- nextBump

ASSUME KeptAssumption == Rent!RentAssumption

RentSpec == Rent!Spec

\* All campaigns of one owner, who shares their count.
OneOwner == [c \in KeptCampaigns |-> "owner"]

\* Who bumps every thing of the inventory within LEDGER_BUMP ledgers keeps
\* every entry alive (bump_campaign, bump_codes, bump_delegates, bump_tally).
NothingExpires == Rent!NothingExpires

\* Each entry belongs to a thing of the inventory and outlives the ledgers
\* left until its next bump (extend_ttl of the calls and of the bump_* calls).
Inventoried == Rent!Inventoried
=============================================================================
