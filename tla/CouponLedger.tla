---------------------------- MODULE CouponLedger ----------------------------
(***************************************************************************)
(* The Burn profile of the Soroban contract                                *)
(* contracts/coupon-ledger/src/lib.rs: campaigns, delegates, and unique    *)
(* single-use coupons.  One action is one successful contract invocation.  *)
(* An invocation that returns Err is rolled back as a whole by the host,   *)
(* so it is a stuttering step; the conjuncts of each guard stand in the    *)
(* order of the code's checks and carry the error each one returns.        *)
(*                                                                         *)
(* Persistent storage is a map from typed keys to values: a function whose *)
(* domain is the set of keys present.  Names, discount labels and values,  *)
(* minted_at, ledger sequence numbers and events are left out: no check    *)
(* after creation reads them.  Rent (extend_ttl) is left out of this module.     *)
(***************************************************************************)
EXTENDS Integers, FiniteSets

CONSTANTS
    Addresses,      \* accounts that may call the contract
    Codes,          \* codes of 1..MAX_CODE_LEN bytes
    BadCodes,       \* empty or over-long codes
    Refs,           \* redeemer commitments (32-byte hashes)
    ZeroRef,        \* the all-zero commitment of an unredeemed coupon
    MaxBatch,       \* MAX_BATCH
    MaxSupply,      \* largest total_supply a caller asks for (u32)
    MaxCampaigns,   \* bound: campaigns created
    MaxTime         \* bound: ledger timestamps

ASSUME BoundsAssumption ==
    /\ MaxBatch \in Nat \ {0}
    /\ MaxSupply \in Nat
    /\ MaxCampaigns \in Nat
    /\ MaxTime \in Nat

ASSUME CodesAssumption ==
    /\ Codes \cap BadCodes = {}
    /\ ZeroRef \notin Refs

VARIABLES
    now,                \* env.ledger().timestamp()
    campCtr,            \* CAMP_CTR
    tokenCtr,           \* TOKEN_CTR
    campaigns,          \* Campaign(id)
    tokens,             \* Token(id)
    codeIndex,          \* CodeIndex(campaign, code) -> token id
    delegates,          \* the Delegate(campaign, address) keys present
    ownerCount,         \* OwnerCount(owner); 0 while the key is absent
    ownerCampaign,      \* OwnerCampaign(owner, slot) -> campaign id
    ownerSlot           \* CampaignOwnerSlot(id) -> slot

burnVars  == <<tokenCtr, tokens, codeIndex>>
indexVars == <<ownerCount, ownerCampaign, ownerSlot>>
vars == <<now, campCtr, campaigns, delegates, burnVars, indexVars>>

Campaign == [owner : Addresses, totalSupply : 1..MaxSupply, minted : Nat,
             burned : Nat, validUntil : Nat]

CouponToken == [campaign : Nat, code : Codes, isBurned : BOOLEAN,
                redeemerRef : Refs \cup {ZeroRef}, burnedAt : Nat]

\* A batch of codes as a caller may pass it: any length, any codes.  One
\* longer than MAX_BATCH is enough to reach the length check.
Batches == UNION {[1..n -> Codes \cup BadCodes] : n \in 0..(MaxBatch + 1)}

\* storage().persistent().set(key, value)
Put(store, key, value) ==
    [k \in DOMAIN store \cup {key} |-> IF k = key THEN value ELSE store[k]]

TokensOf(c) == {t \in DOMAIN tokens : tokens[t].campaign = c}
BurnedOf(c) == {t \in TokensOf(c) : tokens[t].isBurned}

-----------------------------------------------------------------------------
Init ==
    /\ now = 0
    /\ campCtr = 0 /\ tokenCtr = 0
    /\ campaigns = [c \in {} |-> {}]
    /\ tokens = [t \in {} |-> {}]
    /\ codeIndex = [k \in {} |-> 0]
    /\ delegates = {}
    /\ ownerCount = [a \in Addresses |-> 0]
    /\ ownerCampaign = [k \in {} |-> 0]
    /\ ownerSlot = [c \in {} |-> 0]

\* A later ledger closes with a later timestamp.
Tick ==
    /\ now < MaxTime
    /\ now' = now + 1
    /\ UNCHANGED <<campCtr, campaigns, delegates, burnVars, indexVars>>

\* Mutant: one slot sequence for all owners.
GlobalSlot(owner) == campCtr

\* The slot of the owner's index that the next campaign takes.
NextSlot(owner) == ownerCount[owner]

\* Permissionless: any address opens a campaign and becomes its owner.
CreateCampaign(owner, totalSupply, validUntil) ==
    LET id == campCtr + 1
        slot == NextSlot(owner)
    IN  /\ campCtr < MaxCampaigns
        /\ totalSupply # 0                               \* InvalidTerms
        /\ validUntil > now                              \* InvalidTerms
        /\ campCtr' = id
        /\ campaigns' = Put(campaigns, id,
                            [owner |-> owner, totalSupply |-> totalSupply,
                             minted |-> 0, burned |-> 0,
                             validUntil |-> validUntil])
        /\ ownerCampaign' = Put(ownerCampaign, <<owner, slot>>, id)
        /\ ownerSlot' = Put(ownerSlot, id, slot)
        /\ ownerCount' = [ownerCount EXCEPT ![owner] = slot + 1]
        /\ UNCHANGED <<now, delegates, burnVars>>

\* require_owner: CampaignNotFound, then Unauthorized.
RequireOwner(c, caller) ==
    /\ c \in DOMAIN campaigns
    /\ campaigns[c].owner = caller

AddDelegate(owner, c, delegate) ==
    /\ RequireOwner(c, owner)
    /\ delegates' = delegates \cup {<<c, delegate>>}
    /\ UNCHANGED <<now, campCtr, campaigns, burnVars, indexVars>>

RemoveDelegate(owner, c, delegate) ==
    /\ RequireOwner(c, owner)
    /\ delegates' = delegates \ {<<c, delegate>>}
    /\ UNCHANGED <<now, campCtr, campaigns, burnVars, indexVars>>

\* Mutant: the last valid ledger already counts as expired.
ExpiredAtDeadline(c) == now >= campaigns[c].validUntil

Expired(c) == now > campaigns[c].validUntil

\* Mutant: the batch is validated before any of it is written.
FreshInStore(c, batch) ==
    \A i \in DOMAIN batch :
        batch[i] \in Codes /\ <<c, batch[i]>> \notin DOMAIN codeIndex

\* Mutant: only the batch itself is searched for duplicates.
FreshInBatch(c, batch) ==
    \A i \in DOMAIN batch :
        /\ batch[i] \in Codes
        /\ \A j \in DOMAIN batch : batch[j] = batch[i] => j = i

\* Mutant: no code is validated.
FreshUnvalidated(c, batch) ==
    \A i \in DOMAIN batch :
        /\ <<c, batch[i]>> \notin DOMAIN codeIndex
        /\ \A j \in DOMAIN batch : batch[j] = batch[i] => j = i

\* The loop of issue_unique writes each code's index before it looks at the
\* next code, so a code repeated inside the batch is a DuplicateCode too.
FreshInCampaign(c, batch) ==
    \A i \in DOMAIN batch :
        /\ batch[i] \in Codes                   \* InvalidCode, CodeTooLong
        /\ <<c, batch[i]>> \notin DOMAIN codeIndex       \* DuplicateCode
        /\ \A j \in DOMAIN batch : batch[j] = batch[i] => j = i

\* Mutant: the cap is tested before the batch is added.
BelowSupply(c, count) == campaigns[c].minted < campaigns[c].totalSupply

WithinSupply(c, count) ==
    campaigns[c].minted + count <= campaigns[c].totalSupply

NewToken(c, code) ==
    [campaign |-> c, code |-> code, isBurned |-> FALSE,
     redeemerRef |-> ZeroRef, burnedAt |-> 0]

\* batch[i] becomes token tokenCtr + i.
IssueUnique(owner, c, batch) ==
    LET count == Cardinality(DOMAIN batch)
        newIds == (tokenCtr + 1)..(tokenCtr + count)
        newKeys == {<<c, batch[i]>> : i \in DOMAIN batch}
    IN  /\ RequireOwner(c, owner)
        /\ ~Expired(c)                                   \* CampaignExpired
        /\ count # 0                                     \* InvalidCode
        /\ count <= MaxBatch                             \* BatchTooLarge
        /\ WithinSupply(c, count)                        \* SupplyExhausted
        /\ FreshInCampaign(c, batch)
        /\ tokenCtr' = tokenCtr + count
        /\ tokens' = [t \in DOMAIN tokens \cup newIds |->
                        IF t \in newIds THEN NewToken(c, batch[t - tokenCtr])
                                        ELSE tokens[t]]
        /\ codeIndex' = [k \in DOMAIN codeIndex \cup newKeys |->
                           IF k \in newKeys
                           THEN tokenCtr + (CHOOSE i \in DOMAIN batch :
                                              batch[i] = k[2])
                           ELSE codeIndex[k]]
        /\ campaigns' = [campaigns EXCEPT ![c].minted = @ + count]
        /\ UNCHANGED <<now, campCtr, delegates, indexVars>>

Authorized(home, authorizer) ==
    \/ campaigns[home].owner = authorizer
    \/ <<home, authorizer>> \in delegates

\* Mutant: the burn flag is not looked at.
RedeemableAgain(t, authorizer) ==
    LET home == tokens[t].campaign
    IN  home \in DOMAIN campaigns /\ Authorized(home, authorizer) /\ ~Expired(home)

\* Mutant: a coupon outlives its campaign.
RedeemableLate(t, authorizer) ==
    LET home == tokens[t].campaign
    IN  ~tokens[t].isBurned /\ home \in DOMAIN campaigns /\ Authorized(home, authorizer)

\* The code reads the campaign through token.campaign_id.
Redeemable(t, authorizer) ==
    LET home == tokens[t].campaign
    IN  /\ ~tokens[t].isBurned                           \* AlreadyRedeemed
        /\ home \in DOMAIN campaigns                     \* CampaignNotFound
        /\ Authorized(home, authorizer)                  \* Unauthorized
        /\ ~Expired(home)                                \* CampaignExpired

RedeemUnique(authorizer, c, code, ref) ==
    LET t == codeIndex[<<c, code>>]
        home == tokens[t].campaign
    IN  /\ <<c, code>> \in DOMAIN codeIndex              \* CouponNotFound
        /\ t \in DOMAIN tokens                           \* CouponNotFound
        /\ Redeemable(t, authorizer)
        /\ tokens' = [tokens EXCEPT ![t].isBurned = TRUE,
                                    ![t].redeemerRef = ref,
                                    ![t].burnedAt = now]
        /\ campaigns' = [campaigns EXCEPT ![home].burned = @ + 1]
        /\ UNCHANGED <<now, campCtr, delegates, tokenCtr, codeIndex, indexVars>>

Next ==
    \/ Tick
    \/ \E a \in Addresses, s \in 0..MaxSupply, e \in 0..MaxTime :
          CreateCampaign(a, s, e)
    \/ \E a, d \in Addresses, c \in DOMAIN campaigns : AddDelegate(a, c, d)
    \/ \E a, d \in Addresses, c \in DOMAIN campaigns : RemoveDelegate(a, c, d)
    \/ \E a \in Addresses, c \in DOMAIN campaigns, b \in Batches :
          IssueUnique(a, c, b)
    \/ \E a \in Addresses, k \in DOMAIN codeIndex, r \in Refs :
          RedeemUnique(a, k[1], k[2], r)

Spec == Init /\ [][Next]_vars

-----------------------------------------------------------------------------
CampaignsOK ==
    /\ campCtr \in Nat
    /\ campaigns \in [1..campCtr -> Campaign]
    /\ delegates \subseteq (1..campCtr) \X Addresses

TokensOK ==
    /\ tokenCtr \in Nat
    /\ tokens \in [1..tokenCtr -> CouponToken]

CodeIndexOK ==
    /\ DOMAIN codeIndex \subseteq (1..campCtr) \X Codes
    /\ \A k \in DOMAIN codeIndex : codeIndex[k] \in 1..tokenCtr

OwnerIndexOK ==
    /\ ownerCount \in [Addresses -> Nat]
    /\ DOMAIN ownerCampaign \subseteq Addresses \X Nat
    /\ \A k \in DOMAIN ownerCampaign : ownerCampaign[k] \in 1..campCtr
    /\ ownerSlot \in [1..campCtr -> Nat]

\* Every stored value has its Rust type and every key refers to a declared
\* campaign id, token id, code or address (storage keys, lib.rs DataKey).
TypeOK ==
    /\ now \in Nat
    /\ CampaignsOK
    /\ TokensOK
    /\ CodeIndexOK
    /\ OwnerIndexOK

\* The counters a campaign keeps are the numbers of coupons that exist and
\* of coupons that are burned, and issuance never passes total_supply
\* (issue_unique, redeem_unique; "supply integrity" of the module header).
SupplyIntegrity ==
    \A c \in DOMAIN campaigns :
        /\ campaigns[c].minted = Cardinality(TokensOf(c))
        /\ campaigns[c].burned = Cardinality(BurnedOf(c))
        /\ campaigns[c].burned <= campaigns[c].minted
        /\ campaigns[c].minted <= campaigns[c].totalSupply

\* Looking a code up in its campaign finds exactly the coupon issued for it:
\* the index and the coupons are inverse to each other, so no code of a
\* campaign has two coupons and no coupon is out of reach (ADR-009).
CodeIndexExact ==
    /\ \A k \in DOMAIN codeIndex :
          /\ codeIndex[k] \in DOMAIN tokens
          /\ tokens[codeIndex[k]].campaign = k[1]
          /\ tokens[codeIndex[k]].code = k[2]
    /\ \A t \in DOMAIN tokens :
          /\ <<tokens[t].campaign, tokens[t].code>> \in DOMAIN codeIndex
          /\ codeIndex[<<tokens[t].campaign, tokens[t].code>>] = t

\* The owner index lists each campaign of an owner once, in creation order,
\* in slots 0..OwnerCount-1, and CampaignOwnerSlot is its inverse
\* (create_campaign; campaigns_of and campaigns_page walk it).
OwnerIndexExact ==
    /\ DOMAIN ownerCampaign =
          UNION {{a} \X (0..(ownerCount[a] - 1)) : a \in Addresses}
    /\ \A c \in DOMAIN campaigns :
          ownerCampaign[<<campaigns[c].owner, ownerSlot[c]>>] = c
    /\ \A a \in Addresses, i, j \in 0..campCtr :
          i < j /\ <<a, j>> \in DOMAIN ownerCampaign =>
             ownerCampaign[<<a, i>>] < ownerCampaign[<<a, j>>]

\* A coupon stays what it was issued as, and from the moment it is burned
\* nothing about it changes again: neither its redeemer commitment nor its
\* time.  Burning it a second time would have to change one of them or the
\* campaign's burned counter (redeem_unique, AlreadyRedeemed).
BurnIsFinal ==
    [][\A t \in DOMAIN tokens :
          /\ t \in DOMAIN tokens'
          /\ tokens'[t].campaign = tokens[t].campaign
          /\ tokens'[t].code = tokens[t].code
          /\ tokens[t].isBurned => tokens'[t] = tokens[t]]_vars

\* Once a campaign's valid_until has passed, its coupons are frozen: none is
\* issued, none is burned, and its terms were never renegotiated.
ExpiredCampaignFrozen ==
    [][\A c \in DOMAIN campaigns :
          /\ c \in DOMAIN campaigns'
          /\ campaigns'[c].owner = campaigns[c].owner
          /\ campaigns'[c].validUntil = campaigns[c].validUntil
          /\ campaigns'[c].totalSupply = campaigns[c].totalSupply
          /\ Expired(c) => /\ TokensOf(c)' = TokensOf(c)
                           /\ BurnedOf(c)' = BurnedOf(c)]_vars
=============================================================================
