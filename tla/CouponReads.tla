----------------------------- MODULE CouponReads -----------------------------
(***************************************************************************)
(* The public read-only entry points of the Burn profile (verify,          *)
(* is_valid, campaign_stats, campaigns_of, campaigns_page), what they must *)
(* say about the state the CouponLedger actions build, and the refinement  *)
(* of the abstract SingleUseCoupon.                                        *)
(***************************************************************************)
EXTENDS CouponLedger, Ordering, Sequences, SequencesExt

\* verify: Err(CouponNotFound) is the empty set, Ok(token) a singleton.
Verify(c, code) ==
    {t \in DOMAIN tokens :
        <<c, code>> \in DOMAIN codeIndex /\ codeIndex[<<c, code>>] = t}

IsValid(c, code) ==
    \E t \in Verify(c, code) :
        LET home == tokens[t].campaign
        IN  /\ ~tokens[t].isBurned
            /\ home \in DOMAIN campaigns
            /\ now <= campaigns[home].validUntil

\* Mutant: what is left of the supply instead of what was issued.
StatsOfSupply(c) ==
    [available |-> campaigns[c].totalSupply - campaigns[c].burned,
     isExpired |-> now > campaigns[c].validUntil]

\* campaign_stats; available is saturating_sub(minted, burned).
CampaignStats(c) ==
    LET rest == campaigns[c].minted - campaigns[c].burned
    IN  [available |-> IF rest < 0 THEN 0 ELSE rest,
         isExpired |-> now > campaigns[c].validUntil]

\* The ids read from the slots first..last that are present, in slot order.
ReadSlots(owner, first, last) ==
    LET present == {s \in first..last : <<owner, s>> \in DOMAIN ownerCampaign}
    IN  [i \in 1..Cardinality(present) |-> ownerCampaign[<<owner, Ascending(present)[i]>>]]

CampaignsOf(owner) == ReadSlots(owner, 0, ownerCount[owner] - 1)

\* Mutant: the end slot is read too.
PagePastEnd(owner, cursor, limit) == ReadSlots(owner, cursor, cursor + limit)

\* Ok page for limit in 1..MAX_BATCH (else BatchTooLarge); cursor + limit
\* saturates at u64::MAX, far above any count, so it cannot wrap.
CampaignsPage(owner, cursor, limit) ==
    LET requestedEnd == cursor + limit
        end == IF requestedEnd < ownerCount[owner] THEN requestedEnd
                                                   ELSE ownerCount[owner]
    IN  ReadSlots(owner, cursor, end - 1)

-----------------------------------------------------------------------------
\* is_valid tells the truth: it answers true exactly when the campaign's
\* owner could redeem the coupon in this very ledger (is_valid, lib.rs
\* 803-831, against the checks of redeem_unique).
ValidIffRedeemable ==
    \A c \in DOMAIN campaigns, code \in Codes :
        IsValid(c, code) <=>
            ENABLED (\E r \in Refs :
                        RedeemUnique(campaigns[c].owner, c, code, r))

\* The dashboard number "available" is the number of codes is_valid accepts
\* until the campaign expires, and from then on is_valid accepts none
\* (campaign_stats keeps no list, only two counters).
StatsMatchCodes ==
    \A c \in DOMAIN campaigns :
        Cardinality({code \in Codes : IsValid(c, code)}) =
            IF CampaignStats(c).isExpired THEN 0 ELSE CampaignStats(c).available

\* A client that reads page after page with a fixed limit sees every
\* campaign of the owner exactly once, in creation order, and its last
\* cursor's page is empty (campaigns_page against campaigns_of).
PagesCoverOwner ==
    \A a \in Addresses, limit \in 1..MaxBatch :
        LET pages == ownerCount[a] \div limit + 1
            page(i) == CampaignsPage(a, (i - 1) * limit, limit)
            mine == {c \in DOMAIN campaigns : campaigns[c].owner = a}
        IN  /\ FlattenSeq([i \in 1..(pages + 1) |-> page(i)]) =
                  Ascending(mine)
            /\ CampaignsOf(a) = Ascending(mine)
            /\ page(pages + 1) = <<>>

\* Refinement mapping: the abstract status of a code is read off its coupon.
StatusOf(c, code) ==
    IF <<c, code>> \notin DOMAIN codeIndex THEN "absent"
    ELSE IF tokens[codeIndex[<<c, code>>]].isBurned THEN "redeemed"
    ELSE "available"

Promise == INSTANCE SingleUseCoupon WITH
    CampaignIds <- 1..MaxCampaigns,
    cap <- [c \in 1..MaxCampaigns |->
              IF c \in DOMAIN campaigns THEN campaigns[c].totalSupply ELSE 0],
    status <- [ck \in (1..MaxCampaigns) \X Codes |-> StatusOf(ck[1], ck[2])]

\* The contract implements the abstract single-use coupon: every invocation
\* is one abstract step or leaves all codes as they are.
ImplementsSingleUse == Promise!Spec
=============================================================================
