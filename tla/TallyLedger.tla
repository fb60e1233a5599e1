----------------------------- MODULE TallyLedger -----------------------------
(***************************************************************************)
(* The Tally profile of the Soroban contract                               *)
(* contracts/coupon-ledger/src/lib.rs: shared codes, per-period            *)
(* commitments of off-chain redemptions, and their settlement in a token   *)
(* (a Stellar Asset Contract) from an allowance the campaign owner grants  *)
(* to the contract.  As in CouponLedger, an action is one successful       *)
(* invocation and a failed one is rolled back and stutters.                *)
(*                                                                         *)
(* Campaigns are constants here: their owner and valid_until never change  *)
(* (CouponLedger!ExpiredCampaignFrozen), and nothing else of a campaign is *)
(* read by the Tally entry points.  The Merkle root and registered_at are  *)
(* opaque to the contract and left out.                                    *)
(***************************************************************************)
EXTENDS Integers, FiniteSetsExt

CONSTANTS
    CampaignIds,    \* campaigns that exist
    OwnerOf,        \* [CampaignIds -> Addresses]
    ValidUntil,     \* [CampaignIds -> Nat]
    Addresses,      \* accounts: owners, creators, keepers
    Codes, BadCodes,
    Periods,
    Tokens,         \* payout token contracts
    None,           \* Option::None
    Rates,          \* payout_rate arguments; also zero and negative ones
    MaxCount,       \* bound: largest count of a tally (u32)
    I128Max,        \* largest payout the checked arithmetic can hold
    MaxFunds,       \* bound: tokens an owner's account holds
    MaxTime         \* bound: ledger closes

ASSUME TallyAssumption ==
    /\ OwnerOf \in [CampaignIds -> Addresses]
    /\ ValidUntil \in [CampaignIds -> Nat]
    /\ Codes \cap BadCodes = {}
    /\ None \notin Addresses /\ None \notin Tokens
    /\ Rates \subseteq Int
    /\ MaxCount \in Nat /\ I128Max \in Nat /\ MaxFunds \in Nat
    /\ MaxTime \in Nat

VARIABLES
    now,        \* ledger clock: timestamps, and the ledgers approvals expire at
    shared,     \* Shared(campaign, code)
    tallies,    \* Tally(campaign, code, period)
    settled,    \* the Settled(campaign, code, period) keys present
    balance,    \* token balances, by <<token, account>>
    allowance   \* approvals to the contract, by <<token, owner>>

tallyVars == <<shared, tallies, settled>>
tokenVars == <<balance, allowance>>
vars == <<now, tallyVars, tokenVars>>

SharedCode == [attributedTo : Addresses \cup {None},
               payoutToken : Tokens \cup {None}, payoutRate : Int]

\* Map<Address, u32>: a caller may pass any addresses with any counts.
Attributions == UNION {[S -> 0..MaxCount] : S \in SUBSET Addresses}
Commitment == [count : 0..MaxCount, perAttribution : Attributions]
Approval == [amount : Nat, liveUntil : Nat]

Put(store, key, value) ==
    [k \in DOMAIN store \cup {key} |-> IF k = key THEN value ELSE store[k]]

-----------------------------------------------------------------------------
(* The payout token, as settle uses it.                                    *)

\* allowance(owner, contract): an approval past its ledger counts as zero.
Allowance(tok, owner) ==
    LET a == allowance[<<tok, owner>>]
    IN  IF now > a.liveUntil THEN 0 ELSE a.amount

\* transfer_from(contract, from, to, amount) consumes the allowance.
TransferFrom(tok, from, to, amount) ==
    LET debited == [balance EXCEPT ![<<tok, from>>] = @ - amount]
    IN  /\ balance' = [debited EXCEPT ![<<tok, to>>] = @ + amount]
        /\ allowance' = [allowance EXCEPT ![<<tok, from>>].amount = @ - amount]

\* approve(owner, contract, amount, live_until) replaces the approval.
Approve(tok, owner, amount, liveUntil) ==
    /\ allowance' = [allowance EXCEPT ![<<tok, owner>>] =
                       [amount |-> amount, liveUntil |-> liveUntil]]
    /\ UNCHANGED <<now, tallyVars, balance>>

\* An owner's account also receives and spends tokens elsewhere.
OtherTransfer(tok, owner, funds) ==
    /\ balance' = [balance EXCEPT ![<<tok, owner>>] = funds]
    /\ UNCHANGED <<now, tallyVars, allowance>>

-----------------------------------------------------------------------------
Owners == {OwnerOf[c] : c \in CampaignIds}

Init ==
    /\ now = 0
    /\ shared = [k \in {} |-> {}]
    /\ tallies = [k \in {} |-> {}]
    /\ settled = {}
    /\ balance = [ta \in Tokens \X Addresses |-> 0]
    /\ allowance = [to \in Tokens \X Addresses |-> [amount |-> 0, liveUntil |-> 0]]

Tick ==
    /\ now < MaxTime
    /\ now' = now + 1
    /\ UNCHANGED <<tallyVars, tokenVars>>

\* Mutant: whoever owns any campaign may act for this one.
RequireSomeOwner(c, caller) == c \in CampaignIds /\ caller \in Owners

RequireOwner(c, caller) ==
    /\ c \in CampaignIds                                 \* CampaignNotFound
    /\ OwnerOf[c] = caller                               \* Unauthorized

\* The settlement configuration is fixed here for good: a payout token
\* exactly when the rate is positive, and no payout without a target.
RegisterShared(owner, c, code, target, tok, rate) ==
    /\ RequireOwner(c, owner)
    /\ now <= ValidUntil[c]                              \* CampaignExpired
    /\ code \in Codes                                    \* InvalidCode
    /\ target = None => tok = None                       \* InvalidSettlement
    /\ tok # None => rate > 0                            \* InvalidSettlement
    /\ tok = None => rate = 0                            \* InvalidSettlement
    /\ <<c, code>> \notin DOMAIN shared                  \* AlreadyRegistered
    /\ shared' = Put(shared, <<c, code>>,
                     [attributedTo |-> target, payoutToken |-> tok,
                      payoutRate |-> rate])
    /\ UNCHANGED <<now, tallies, settled, tokenVars>>

\* The running total of the loops over an attribution map.  commit_tally
\* rejects any key but the one target before it compares the total, so an
\* accepted or a stored map has at most one entry to add.
EntryTotal(f) ==
    IF DOMAIN f = {} THEN 0 ELSE f[CHOOSE a \in DOMAIN f : TRUE]

\* Mutant: an owner may credit fewer conversions than committed.
AttributionBounded(target, count, perAttribution) ==
    /\ DOMAIN perAttribution \subseteq {target} \ {None}
    /\ target # None => EntryTotal(perAttribution) <= count

AttributionAllowed(target, count, perAttribution) ==
    /\ DOMAIN perAttribution \subseteq {target} \ {None} \* AttributionMismatch
    /\ target # None => EntryTotal(perAttribution) = count     \* InvalidTally

\* Mutant: a commitment may be corrected until it is paid.
FreshUnlessPaid(k) == k \notin settled

FreshPeriod(k) == k \notin DOMAIN tallies

\* Allowed after the campaign's expiry: an epoch may close later.
CommitTally(owner, c, code, period, count, perAttribution) ==
    /\ RequireOwner(c, owner)
    /\ <<c, code>> \in DOMAIN shared                     \* SharedNotFound
    /\ FreshPeriod(<<c, code, period>>)                  \* PeriodCommitted
    /\ AttributionAllowed(shared[<<c, code>>].attributedTo, count, perAttribution)
    /\ tallies' = Put(tallies, <<c, code, period>>,
                      [count |-> count, perAttribution |-> perAttribution])
    /\ UNCHANGED <<now, shared, settled, tokenVars>>

\* compute_payouts: one amount per attribution entry, zero amounts included.
\* Err(InvalidSettlement) when one does not fit the arithmetic.
Amount(k, a) ==
    tallies[k].perAttribution[a] * shared[<<k[1], k[2]>>].payoutRate
ComputePayouts(k) ==
    [a \in DOMAIN tallies[k].perAttribution |-> Amount(k, a)]

Fits(payouts) == \A a \in DOMAIN payouts : payouts[a] <= I128Max

\* Mutant: the paid mark is not looked at.
PayableAgain(k) ==
    LET code == <<k[1], k[2]>>
    IN  /\ code \in DOMAIN shared /\ shared[code].payoutToken # None
        /\ shared[code].payoutRate > 0 /\ k \in DOMAIN tallies

Payable(k) ==
    LET code == <<k[1], k[2]>>
    IN  /\ code \in DOMAIN shared                        \* SharedNotFound
        /\ shared[code].payoutToken # None               \* InvalidSettlement
        /\ shared[code].payoutRate > 0                   \* InvalidSettlement
        /\ k \in DOMAIN tallies                          \* TallyNotFound
        /\ k \notin settled                              \* AlreadySettled

\* Mutants: one of the two questions to the token is not asked.
FundedByAllowance(tok, owner, total) == Allowance(tok, owner) >= total
FundedByBalance(tok, owner, total) == balance[<<tok, owner>>] >= total

Funded(tok, owner, total) ==                             \* InvalidSettlement
    /\ Allowance(tok, owner) >= total
    /\ balance[<<tok, owner>>] >= total

\* Anyone may call: there is no authorization by the owner, only allowance.
\* The Settled key is written before the token is asked anything, and the
\* whole invocation is rolled back if the token cannot pay.
Settle(owner, k) ==
    LET tok == shared[<<k[1], k[2]>>].payoutToken
        payouts == ComputePayouts(k)
        total == EntryTotal(payouts)
    IN  /\ RequireOwner(k[1], owner)
        /\ Payable(k)
        /\ Fits(payouts)                                 \* InvalidSettlement
        /\ settled' = settled \cup {k}
        /\ Funded(tok, owner, total)
        /\ IF total > 0
           THEN \E to \in DOMAIN payouts : TransferFrom(tok, owner, to, total)
           ELSE UNCHANGED tokenVars
        /\ UNCHANGED <<now, shared, tallies>>

Keys == CampaignIds \X Codes \X Periods

Next ==
    \/ Tick
    \/ \E tok \in Tokens, o \in Owners, n \in 0..MaxFunds, t \in now..MaxTime :
          Approve(tok, o, n, t)
    \/ \E tok \in Tokens, o \in Owners, n \in 0..MaxFunds : OtherTransfer(tok, o, n)
    \/ \E o \in Addresses, c \in CampaignIds, code \in Codes \cup BadCodes,
          target \in Addresses \cup {None}, tok \in Tokens \cup {None}, r \in Rates :
          RegisterShared(o, c, code, target, tok, r)
    \/ \E o \in Addresses, k \in Keys, n \in 0..MaxCount, f \in Attributions :
          CommitTally(o, k[1], k[2], k[3], n, f)
    \/ \E o \in Addresses, k \in Keys : Settle(o, k)

Spec == Init /\ [][Next]_vars

-----------------------------------------------------------------------------
\* Storage holds values of the contract's types, and no account is overdrawn.
TypeOK ==
    /\ now \in Nat
    /\ DOMAIN shared \subseteq CampaignIds \X Codes
    /\ \A k \in DOMAIN shared : shared[k] \in SharedCode
    /\ DOMAIN tallies \subseteq Keys
    /\ \A k \in DOMAIN tallies : tallies[k] \in Commitment
    /\ settled \subseteq Keys
    /\ balance \in [Tokens \X Addresses -> Nat]
    /\ allowance \in [Tokens \X Addresses -> Approval]

CreditsExactly(sc, tally) ==
    LET f == tally.perAttribution
    IN  /\ sc.attributedTo = None => DOMAIN f = {} /\ sc.payoutToken = None
        /\ sc.attributedTo # None =>
              IF DOMAIN f = {} THEN tally.count = 0
              ELSE DOMAIN f = {sc.attributedTo} /\ f[sc.attributedTo] = tally.count

\* Every commitment credits the code's registered target with exactly the
\* committed count, and credits and pays nobody when the code has no target
\* (commit_tally: "allowing a smaller number would let an owner commit
\* conversions while underpaying").
AttributionExact ==
    \A k \in DOMAIN tallies :
        /\ <<k[1], k[2]>> \in DOMAIN shared
        /\ CreditsExactly(shared[<<k[1], k[2]>>], tallies[k])

\* What a creator has received in a token is exactly what the periods marked
\* paid owed it, summed over its codes: no payment without a mark, no mark
\* without the payment, nobody else's money (settle; a creator that is no
\* owner receives from settlements only).
Due(k) == tallies[k].count * shared[<<k[1], k[2]>>].payoutRate

PaidTo(tok, a) ==
    {k \in settled : /\ shared[<<k[1], k[2]>>].payoutToken = tok
                     /\ shared[<<k[1], k[2]>>].attributedTo = a}

CreatorsPaidExactly ==
    \A tok \in Tokens, a \in Addresses \ Owners :
        balance[<<tok, a>>] = SumFunctionOnSet([k \in settled |-> Due(k)], PaidTo(tok, a))

\* What is on the ledger stays on it: registrations, commitments and paid
\* marks are never rewritten or withdrawn ("append-only so history is
\* auditable", commit_tally).
LedgerAppendOnly ==
    [][/\ DOMAIN shared \subseteq DOMAIN shared'
       /\ \A k \in DOMAIN shared : shared'[k] = shared[k]
       /\ DOMAIN tallies \subseteq DOMAIN tallies'
       /\ \A k \in DOMAIN tallies : tallies'[k] = tallies[k]
       /\ settled \subseteq settled']_vars

\* How the balance of an account changes in a step.
Moved(tok, a) == balance'[<<tok, a>>] - balance[<<tok, a>>]

\* The step pays period k and nothing else.
PaysOnePeriod(k) ==
    LET code == <<k[1], k[2]>>
        tok == shared[code].payoutToken
        target == shared[code].attributedTo
        owner == OwnerOf[k[1]]
        due == Due(k)
    IN  /\ k \notin settled /\ settled' = settled \cup {k}
        /\ due <= Allowance(tok, owner) /\ due <= balance[<<tok, owner>>]
        /\ allowance'[<<tok, owner>>].amount = allowance[<<tok, owner>>].amount - due
        /\ \A t \in Tokens, a \in Addresses :
              Moved(t, a) = (IF t = tok /\ a = target THEN due ELSE 0)
                          - (IF t = tok /\ a = owner THEN due ELSE 0)

\* Money leaves an owner for a creator only in a step that marks one more
\* period paid, by exactly the count times the registered rate that
\* compute_payouts previews, out of a live allowance that shrinks by it.
PayoutPerPeriod ==
    [][\/ \E k \in DOMAIN tallies : PaysOnePeriod(k)
       \/ /\ settled' = settled
          /\ \A t \in Tokens, a \in Addresses \ Owners : Moved(t, a) = 0]_vars
=============================================================================
