------------------------- MODULE TallyLedgerProofs -------------------------
(***************************************************************************)
(* Proofs about TallyLedger for every value of its constants: types and    *)
(* exact attribution, the append-only ledger, what a payment may do, and   *)
(* that all payments together are what the paid periods owed; and about    *)
(* the rent of the contract's storage (StorageRent as MCStorageRent has    *)
(* it), for any inventory and any lives the network grants.                *)
(***************************************************************************)
EXTENDS TallyLedger, MCStorageRent, SetLemmas, TLAPS

\* What register_shared leaves: only a code with a target pays, and the rate
\* is positive exactly when it pays.
Configured(sc) ==
    /\ sc.attributedTo = None => sc.payoutToken = None
    /\ sc.payoutToken # None => sc.payoutRate > 0

SettlementConfigured == \A k \in DOMAIN shared : Configured(shared[k])

\* The invariant all the proofs carry.  Exact attribution is not inductive
\* alone: that a code without a target pays nobody was decided when it was
\* registered.
IInv == TypeOK /\ SettlementConfigured /\ AttributionExact

\* A map with one key adds up to the value there.
LEMMA OneEntry ==
    ASSUME NEW f, NEW t, DOMAIN f \subseteq {t}
    PROVE  EntryTotal(f) = IF DOMAIN f = {} THEN 0 ELSE f[t]
<1>1. CASE DOMAIN f = {}
  BY <1>1 DEF EntryTotal
<1>2. CASE DOMAIN f # {}
  <2>1. DOMAIN f = {t}
    BY <1>2
  <2>2. (CHOOSE a \in {t} : TRUE) = t
    OBVIOUS
  <2>. QED
    BY <2>1, <2>2 DEF EntryTotal
<1>. QED
  BY <1>1, <1>2

-----------------------------------------------------------------------------
LEMMA InitHolds == Init => IInv
  BY TallyAssumption DEF Init, IInv, TypeOK, SettlementConfigured, AttributionExact, Approval

LEMMA RegisterHolds ==
    ASSUME IInv, NEW o \in Addresses, NEW c \in CampaignIds,
           NEW code \in Codes \cup BadCodes, NEW target \in Addresses \cup {None},
           NEW tok \in Tokens \cup {None}, NEW r \in Rates,
           RegisterShared(o, c, code, target, tok, r)
    PROVE  IInv'
<1>. DEFINE sc == [attributedTo |-> target, payoutToken |-> tok, payoutRate |-> r]
            key == <<c, code>>
<1>1. /\ key \in (CampaignIds \X Codes) \ DOMAIN shared
      /\ shared' = Put(shared, key, sc)
      /\ UNCHANGED <<now, tallies, settled, balance, allowance>>
  BY DEF RegisterShared, tokenVars
<1>2. sc \in SharedCode /\ Configured(sc)
  BY TallyAssumption DEF SharedCode, Configured, RegisterShared
<1>3. /\ DOMAIN shared' = DOMAIN shared \cup {key}
      /\ \A k \in DOMAIN shared : shared'[k] = shared[k]
      /\ shared'[key] = sc
  BY <1>1, \A k \in DOMAIN shared : k # key DEF Put
<1>4. TypeOK'
  BY <1>1, <1>2, <1>3 DEF IInv, TypeOK
<1>5. SettlementConfigured'
  BY <1>2, <1>3 DEF IInv, SettlementConfigured
<1>6. AttributionExact'
  BY <1>1, <1>3 DEF IInv, AttributionExact
<1>. QED
  BY <1>4, <1>5, <1>6 DEF IInv

LEMMA CommitHolds ==
    ASSUME IInv, NEW o \in Addresses, NEW c \in CampaignIds, NEW code \in Codes,
           NEW p \in Periods, NEW n \in 0..MaxCount, NEW f \in Attributions,
           CommitTally(o, c, code, p, n, f)
    PROVE  IInv'
<1>. DEFINE com == [count |-> n, perAttribution |-> f]
            key == <<c, code, p>>
            sc == shared[<<c, code>>]
<1>1. /\ <<c, code>> \in DOMAIN shared
      /\ key \notin DOMAIN tallies
      /\ AttributionAllowed(sc.attributedTo, n, f)
      /\ tallies' = Put(tallies, key, com)
      /\ UNCHANGED <<now, shared, settled, balance, allowance>>
  BY DEF CommitTally, FreshPeriod, tokenVars
<1>2. com \in Commitment
  BY DEF Commitment
<1>3. /\ DOMAIN tallies' = DOMAIN tallies \cup {key}
      /\ \A k \in DOMAIN tallies : tallies'[k] = tallies[k]
      /\ tallies'[key] = com
  BY <1>1, \A k \in DOMAIN tallies : k # key DEF Put
<1>4. key \in Keys /\ key[1] = c /\ key[2] = code
  BY DEF Keys
<1>5. TypeOK'
  BY <1>1, <1>2, <1>3, <1>4 DEF IInv, TypeOK
<1>6. CreditsExactly(sc, com)
  <2>1. /\ DOMAIN f \subseteq {sc.attributedTo} \ {None}
        /\ sc.attributedTo # None => EntryTotal(f) = n
    BY <1>1 DEF AttributionAllowed
  <2>2. EntryTotal(f) = IF DOMAIN f = {} THEN 0 ELSE f[sc.attributedTo]
    BY <2>1, OneEntry
  <2>3. sc.attributedTo = None => sc.payoutToken = None
    BY <1>1 DEF IInv, SettlementConfigured, Configured
  <2>4. CASE DOMAIN f = {}
    BY <2>1, <2>2, <2>3, <2>4 DEF CreditsExactly
  <2>5. CASE DOMAIN f # {}
    <3>1. DOMAIN f = {sc.attributedTo} /\ sc.attributedTo # None
      BY <2>1, <2>5
    <3>. QED
      BY <2>1, <2>2, <2>5, <3>1 DEF CreditsExactly
  <2>. QED
    BY <2>4, <2>5
<1>7. AttributionExact'
  <2>. SUFFICES ASSUME NEW k \in DOMAIN tallies'
                PROVE  /\ <<k[1], k[2]>> \in DOMAIN shared
                       /\ CreditsExactly(shared[<<k[1], k[2]>>], tallies'[k])
    BY <1>1 DEF AttributionExact, CreditsExactly
  <2>1. CASE k = key
    BY <1>1, <1>3, <1>4, <1>6, <2>1
  <2>2. CASE k # key
    BY <1>3, <2>2 DEF IInv, AttributionExact
  <2>. QED
    BY <2>1, <2>2
<1>8. SettlementConfigured'
  BY <1>1 DEF IInv, SettlementConfigured
<1>. QED
  BY <1>5, <1>7, <1>8 DEF IInv

-----------------------------------------------------------------------------
\* What settle computes for a payable period: the count times the rate, owed
\* to the registered target alone.
LEMMA Owed ==
    ASSUME IInv, NEW k \in Keys, Payable(k)
    PROVE  LET sc == shared[<<k[1], k[2]>>]
               payouts == ComputePayouts(k)
           IN  /\ EntryTotal(payouts) = Due(k)
               /\ Due(k) \in Nat
               /\ sc.payoutToken \in Tokens
               /\ sc.attributedTo \in Addresses
               /\ Due(k) > 0 => DOMAIN payouts = {sc.attributedTo}
<1>. DEFINE sc == shared[<<k[1], k[2]>>]
            f == tallies[k].perAttribution
            n == tallies[k].count
            payouts == ComputePayouts(k)
<1>1. /\ <<k[1], k[2]>> \in DOMAIN shared /\ k \in DOMAIN tallies
      /\ sc.payoutToken # None /\ sc.payoutRate > 0
  BY DEF Payable
<1>2. /\ sc \in SharedCode /\ tallies[k] \in Commitment
      /\ CreditsExactly(sc, tallies[k])
  BY <1>1 DEF IInv, TypeOK, AttributionExact
<1>3. sc.attributedTo # None /\ sc.attributedTo \in Addresses
  BY <1>1, <1>2 DEF IInv, SettlementConfigured, Configured, SharedCode
<1>4. sc.payoutToken \in Tokens /\ sc.payoutRate \in Nat /\ n \in Nat
  BY <1>1, <1>2, TallyAssumption DEF SharedCode, Commitment
<1>5. Due(k) = n * sc.payoutRate /\ Due(k) \in Nat
  BY <1>4 DEF Due
<1>6. DOMAIN payouts = DOMAIN f
  BY DEF ComputePayouts
<1>7. CASE DOMAIN f = {}
  <2>1. n = 0
    BY <1>2, <1>3, <1>7 DEF CreditsExactly
  <2>2. EntryTotal(payouts) = 0
    BY <1>6, <1>7 DEF EntryTotal
  <2>3. Due(k) = 0
    BY <1>4, <1>5, <2>1
  <2>. QED
    BY <1>3, <1>4, <2>2, <2>3
<1>8. CASE DOMAIN f # {}
  <2>1. DOMAIN f = {sc.attributedTo} /\ f[sc.attributedTo] = n
    BY <1>2, <1>3, <1>8 DEF CreditsExactly
  <2>2. payouts[sc.attributedTo] = n * sc.payoutRate
    BY <2>1 DEF ComputePayouts, Amount
  <2>3. EntryTotal(payouts) = payouts[sc.attributedTo]
    BY <1>6, <2>1, OneEntry
  <2>. QED
    BY <1>3, <1>4, <1>5, <1>6, <2>1, <2>2, <2>3
<1>. QED
  BY <1>7, <1>8

\* A settlement pays the one period it marks.
LEMMA SettlePays ==
    ASSUME IInv, NEW o \in Addresses, NEW k \in Keys, Settle(o, k)
    PROVE  /\ k \in DOMAIN tallies /\ PaysOnePeriod(k)
           /\ balance' \in [Tokens \X Addresses -> Nat]
           /\ allowance' \in [Tokens \X Addresses -> Approval]
<1>. DEFINE sc == shared[<<k[1], k[2]>>]
            tok == sc.payoutToken
            target == sc.attributedTo
            due == Due(k)
<1>1. /\ o = OwnerOf[k[1]] /\ Payable(k)
      /\ k \in DOMAIN tallies /\ k \notin settled
      /\ settled' = settled \cup {k}
  BY DEF Settle, RequireOwner, Payable
<1>2. /\ EntryTotal(ComputePayouts(k)) = due /\ due \in Nat
      /\ tok \in Tokens /\ target \in Addresses
      /\ due > 0 => DOMAIN ComputePayouts(k) = {target}
  BY <1>1, Owed
<1>3. due <= Allowance(tok, o) /\ due <= balance[<<tok, o>>]
  BY <1>2 DEF Settle, Funded
<1>4. /\ balance \in [Tokens \X Addresses -> Nat]
      /\ allowance \in [Tokens \X Addresses -> Approval]
  BY DEF IInv, TypeOK
<1>5. /\ balance[<<tok, o>>] \in Nat /\ allowance[<<tok, o>>] \in Approval
  BY <1>2, <1>4
<1>6. CASE due = 0
  <2>1. UNCHANGED <<balance, allowance>>
    BY <1>2, <1>6 DEF Settle, tokenVars
  <2>2. \A t \in Tokens, a \in Addresses : Moved(t, a) = 0
    BY <1>4, <2>1 DEF Moved
  <2>. QED
    BY <1>1, <1>2, <1>3, <1>4, <1>5, <1>6, <2>1, <2>2 DEF PaysOnePeriod, Approval
<1>7. CASE due > 0
  <2>1. TransferFrom(tok, o, target, due)
    BY <1>2, <1>7 DEF Settle
  <2>2. due <= allowance[<<tok, o>>].amount
    BY <1>2, <1>3, <1>5, <1>7 DEF Allowance, Approval
  <2>. DEFINE debited == [balance EXCEPT ![<<tok, o>>] = @ - due]
  <2>3. /\ balance' = [debited EXCEPT ![<<tok, target>>] = @ + due]
        /\ allowance' = [allowance EXCEPT ![<<tok, o>>].amount = @ - due]
    BY <2>1 DEF TransferFrom
  <2>4. debited \in [Tokens \X Addresses -> Nat]
    BY <1>2, <1>3, <1>4, <1>5
  <2>5. balance' \in [Tokens \X Addresses -> Nat]
    BY <1>2, <2>3, <2>4
  <2>6. allowance' \in [Tokens \X Addresses -> Approval]
    <3>1. [allowance[<<tok, o>>] EXCEPT !.amount = @ - due] \in Approval
      BY <1>2, <1>5, <2>2 DEF Approval
    <3>. QED
      BY <1>4, <2>3, <3>1
  <2>7. allowance'[<<tok, o>>].amount = allowance[<<tok, o>>].amount - due
    BY <1>2, <1>4, <1>5, <2>3 DEF Approval
  <2>8. ASSUME NEW t \in Tokens, NEW a \in Addresses
        PROVE  Moved(t, a) = (IF t = tok /\ a = target THEN due ELSE 0)
                           - (IF t = tok /\ a = o THEN due ELSE 0)
    <3>1. balance[<<t, a>>] \in Nat /\ <<t, a>> \in Tokens \X Addresses
      BY <1>4
    <3>2. debited[<<t, a>>] =
            IF t = tok /\ a = o THEN balance[<<t, a>>] - due ELSE balance[<<t, a>>]
      BY <1>4, <3>1
    <3>3. balance'[<<t, a>>] =
            IF t = tok /\ a = target THEN debited[<<t, a>>] + due ELSE debited[<<t, a>>]
      BY <2>3, <2>4, <3>1
    <3>. QED
      BY <1>2, <3>1, <3>2, <3>3 DEF Moved
  <2>. QED
    BY <1>1, <1>3, <2>5, <2>6, <2>7, <2>8 DEF PaysOnePeriod
<1>. QED
  BY <1>2, <1>6, <1>7

LEMMA SettleHolds ==
    ASSUME IInv, NEW o \in Addresses, NEW k \in Keys, Settle(o, k)
    PROVE  IInv'
<1>1. UNCHANGED <<now, shared, tallies>> /\ settled' = settled \cup {k}
  BY DEF Settle
<1>2. TypeOK'
  BY <1>1, SettlePays DEF IInv, TypeOK
<1>3. SettlementConfigured' /\ AttributionExact'
  BY <1>1 DEF IInv, SettlementConfigured, AttributionExact
<1>. QED
  BY <1>2, <1>3 DEF IInv

-----------------------------------------------------------------------------
LEMMA EnvironmentHolds ==
    ASSUME IInv,
           \/ Tick
           \/ \E tok \in Tokens, o \in Owners, n \in 0..MaxFunds, t \in now..MaxTime :
                 Approve(tok, o, n, t)
           \/ \E tok \in Tokens, o \in Owners, n \in 0..MaxFunds :
                 OtherTransfer(tok, o, n)
    PROVE  /\ IInv'
           /\ UNCHANGED tallyVars
           /\ \A t \in Tokens, a \in Addresses \ Owners : Moved(t, a) = 0
<1>1. UNCHANGED tallyVars
  BY DEF Tick, Approve, OtherTransfer
<1>2. SettlementConfigured' /\ AttributionExact'
  BY <1>1 DEF IInv, SettlementConfigured, AttributionExact, tallyVars
<1>3. balance \in [Tokens \X Addresses -> Nat]
  BY DEF IInv, TypeOK
<1>4. CASE Tick
  <2>1. now' \in Nat /\ UNCHANGED <<tallyVars, balance, allowance>>
    BY <1>4 DEF Tick, tokenVars, IInv, TypeOK
  <2>. QED
    BY <1>1, <1>2, <1>3, <2>1 DEF IInv, TypeOK, tallyVars, Moved
<1>5. ASSUME NEW tok \in Tokens, NEW o \in Owners, NEW n \in 0..MaxFunds,
             NEW t \in now..MaxTime, Approve(tok, o, n, t)
      PROVE  /\ TypeOK'
             /\ \A s \in Tokens, a \in Addresses \ Owners : Moved(s, a) = 0
  <2>1. [amount |-> n, liveUntil |-> t] \in Approval
    BY TallyAssumption DEF Approval, IInv, TypeOK
  <2>2. allowance' \in [Tokens \X Addresses -> Approval]
    BY <1>5, <2>1 DEF Approve, IInv, TypeOK
  <2>. QED
    BY <1>3, <1>5, <2>2 DEF Approve, IInv, TypeOK, tallyVars, Moved
<1>6. ASSUME NEW tok \in Tokens, NEW o \in Owners, NEW n \in 0..MaxFunds,
             OtherTransfer(tok, o, n)
      PROVE  /\ TypeOK'
             /\ \A s \in Tokens, a \in Addresses \ Owners : Moved(s, a) = 0
  <2>1. balance' = [balance EXCEPT ![<<tok, o>>] = n] /\ n \in Nat
    BY <1>6, TallyAssumption DEF OtherTransfer
  <2>2. balance' \in [Tokens \X Addresses -> Nat]
    BY <1>3, <2>1
  <2>3. \A s \in Tokens, a \in Addresses \ Owners : Moved(s, a) = 0
    BY <1>3, <2>1 DEF Moved
  <2>. QED
    BY <1>6, <2>2, <2>3 DEF OtherTransfer, IInv, TypeOK, tallyVars
<1>. QED
  BY <1>1, <1>2, <1>4, <1>5, <1>6 DEF IInv

LEMMA StepHolds == IInv /\ [Next]_vars => IInv'
<1>. SUFFICES ASSUME IInv, [Next]_vars PROVE IInv'
  OBVIOUS
<1>1. CASE UNCHANGED vars
  BY <1>1 DEF IInv, TypeOK, SettlementConfigured, AttributionExact,
              vars, tallyVars, tokenVars
<1>2. ASSUME NEW o \in Addresses, NEW c \in CampaignIds,
             NEW code \in Codes \cup BadCodes, NEW target \in Addresses \cup {None},
             NEW tok \in Tokens \cup {None}, NEW r \in Rates,
             RegisterShared(o, c, code, target, tok, r)
      PROVE  IInv'
  BY <1>2, RegisterHolds
<1>3. ASSUME NEW o \in Addresses, NEW k \in Keys, NEW n \in 0..MaxCount,
             NEW f \in Attributions, CommitTally(o, k[1], k[2], k[3], n, f)
      PROVE  IInv'
  BY <1>3, CommitHolds DEF Keys
<1>4. ASSUME NEW o \in Addresses, NEW k \in Keys, Settle(o, k)
      PROVE  IInv'
  BY <1>4, SettleHolds
<1>. QED
  BY <1>1, <1>2, <1>3, <1>4, EnvironmentHolds DEF Next

LEMMA Inductive == Spec => []IInv
  BY InitHolds, StepHolds, PTL DEF Spec

-----------------------------------------------------------------------------
\* Every stored value keeps its type and no balance or allowance goes below
\* zero, whoever calls register_shared, commit_tally and settle.
THEOREM TypeCorrect == Spec => []TypeOK
<1>1. IInv => TypeOK
  BY DEF IInv
<1>. QED
  BY Inductive, <1>1, PTL

\* Every commitment credits exactly what it counts (commit_tally).
THEOREM AttributionSafe == Spec => []AttributionExact
<1>1. IInv => AttributionExact
  BY DEF IInv
<1>. QED
  BY Inductive, <1>1, PTL

\* Registrations, commitments and paid marks stay as they are (the contract's
\* "append-only so history is auditable").
THEOREM LedgerKept == Spec => LedgerAppendOnly
<1>. DEFINE Kept == /\ DOMAIN shared \subseteq DOMAIN shared'
                    /\ \A k \in DOMAIN shared : shared'[k] = shared[k]
                    /\ DOMAIN tallies \subseteq DOMAIN tallies'
                    /\ \A k \in DOMAIN tallies : tallies'[k] = tallies[k]
                    /\ settled \subseteq settled'
<1>1. ASSUME IInv, [Next]_vars PROVE [Kept]_vars
  <2>1. CASE UNCHANGED tallyVars
    BY <2>1 DEF tallyVars
  <2>2. ASSUME NEW o \in Addresses, NEW c \in CampaignIds,
               NEW code \in Codes \cup BadCodes, NEW target \in Addresses \cup {None},
               NEW tok \in Tokens \cup {None}, NEW r \in Rates,
               RegisterShared(o, c, code, target, tok, r)
        PROVE  Kept
    BY <2>2 DEF RegisterShared, Put
  <2>3. ASSUME NEW o \in Addresses, NEW k \in Keys, NEW n \in 0..MaxCount,
               NEW f \in Attributions, CommitTally(o, k[1], k[2], k[3], n, f)
        PROVE  Kept
    BY <2>3 DEF CommitTally, FreshPeriod, Put
  <2>4. ASSUME NEW o \in Addresses, NEW k \in Keys, Settle(o, k)
        PROVE  Kept
    BY <2>4 DEF Settle
  <2>5. CASE UNCHANGED vars
    BY <2>5
  <2>. QED
    BY <1>1, <2>1, <2>2, <2>3, <2>4, <2>5, EnvironmentHolds DEF Next
<1>. QED
  BY Inductive, <1>1, PTL DEF Spec, LedgerAppendOnly

\* Money reaches a creator only in a settlement that marks one more period
\* paid, by exactly what that period owes, out of a live allowance (settle).
THEOREM PayoutSafe == Spec => PayoutPerPeriod
<1>. DEFINE Quiet == /\ settled' = settled
                     /\ \A t \in Tokens, a \in Addresses \ Owners : Moved(t, a) = 0
            Payment == \E k \in DOMAIN tallies : PaysOnePeriod(k)
<1>1. ASSUME IInv, [Next]_vars PROVE [Payment \/ Quiet]_vars
  <2>1. ASSUME UNCHANGED <<settled, balance>> PROVE Quiet
    BY <1>1, <2>1 DEF Moved, IInv, TypeOK
  <2>2. ASSUME NEW o \in Addresses, NEW c \in CampaignIds,
               NEW code \in Codes \cup BadCodes, NEW target \in Addresses \cup {None},
               NEW tok \in Tokens \cup {None}, NEW r \in Rates,
               RegisterShared(o, c, code, target, tok, r)
        PROVE  Quiet
    BY <2>1, <2>2 DEF RegisterShared, tokenVars
  <2>3. ASSUME NEW o \in Addresses, NEW k \in Keys, NEW n \in 0..MaxCount,
               NEW f \in Attributions, CommitTally(o, k[1], k[2], k[3], n, f)
        PROVE  Quiet
    BY <2>1, <2>3 DEF CommitTally, tokenVars
  <2>4. ASSUME NEW o \in Addresses, NEW k \in Keys, Settle(o, k)
        PROVE  Payment
    BY <1>1, <2>4, SettlePays
  <2>5. CASE UNCHANGED vars
    BY <2>5
  <2>. QED
    BY <1>1, <2>2, <2>3, <2>4, <2>5, EnvironmentHolds DEF Next, tallyVars
<1>. QED
  BY Inductive, <1>1, PTL DEF Spec, PayoutPerPeriod

-----------------------------------------------------------------------------
\* What the sums need besides: the paid periods are finitely many, and each was
\* committed for a code that is registered.
PaidInv ==
    /\ IsFiniteSet(settled)
    /\ settled \subseteq DOMAIN tallies
    /\ CreatorsPaidExactly

Dues == [k \in settled |-> Due(k)]

\* What a committed period of a registered code owes is a number, and stays it.
LEMMA DueNumber ==
    ASSUME IInv, NEW k \in DOMAIN tallies
    PROVE  /\ <<k[1], k[2]>> \in DOMAIN shared
           /\ Due(k) \in Int
<1>1. /\ <<k[1], k[2]>> \in DOMAIN shared
      /\ tallies[k] \in Commitment
  BY DEF IInv, TypeOK, AttributionExact
<1>2. tallies[k].count \in Int /\ shared[<<k[1], k[2]>>].payoutRate \in Int
  BY <1>1 DEF IInv, TypeOK, Commitment, SharedCode
<1>. QED
  BY <1>1, <1>2 DEF Due

\* A step that marks no period paid and pays no creator keeps the sums: the
\* ledger is append-only.
LEMMA QuietPaid ==
    ASSUME IInv, PaidInv, settled' = settled,
           \A k \in DOMAIN shared : k \in DOMAIN shared' /\ shared'[k] = shared[k],
           \A k \in DOMAIN tallies : k \in DOMAIN tallies' /\ tallies'[k] = tallies[k],
           balance' \in [Tokens \X Addresses -> Nat],
           \A t \in Tokens, a \in Addresses \ Owners : Moved(t, a) = 0
    PROVE  PaidInv'
<1>1. \A k \in settled : /\ shared'[<<k[1], k[2]>>] = shared[<<k[1], k[2]>>]
                         /\ tallies'[k] = tallies[k]
  BY DueNumber DEF PaidInv
<1>2. Dues' = Dues
  BY <1>1 DEF Dues, Due
<1>3. ASSUME NEW t \in Tokens, NEW a \in Addresses \ Owners
      PROVE  balance'[<<t, a>>] = SumFunctionOnSet(Dues', PaidTo(t, a)')
  <2>1. PaidTo(t, a)' = PaidTo(t, a)
    BY <1>1 DEF PaidTo
  <2>2. balance[<<t, a>>] \in Nat /\ balance'[<<t, a>>] \in Nat
    BY DEF IInv, TypeOK
  <2>3. balance'[<<t, a>>] = balance[<<t, a>>]
    BY <2>2 DEF Moved
  <2>. QED
    BY <1>2, <2>1, <2>3 DEF PaidInv, CreatorsPaidExactly, Dues
<1>. QED
  BY <1>3 DEF PaidInv, CreatorsPaidExactly, Dues

\* A settlement adds its period to one creator's sum, and its amount to that
\* creator's balance.
LEMMA SettlePaid ==
    ASSUME IInv, PaidInv, NEW o \in Addresses, NEW k \in Keys, Settle(o, k)
    PROVE  PaidInv'
<1>. DEFINE tok == shared[<<k[1], k[2]>>].payoutToken
            target == shared[<<k[1], k[2]>>].attributedTo
            due == Due(k)
<1>1. /\ UNCHANGED <<shared, tallies>> /\ settled' = settled \cup {k}
      /\ k \in DOMAIN tallies /\ k \notin settled
      /\ OwnerOf[k[1]] \in Owners /\ PaysOnePeriod(k)
      /\ balance' \in [Tokens \X Addresses -> Nat]
  BY SettlePays DEF Settle, Payable, RequireOwner, Owners
<1>2. due \in Int /\ \A j \in settled : Due(j) \in Int
  BY <1>1, DueNumber DEF PaidInv
<1>3. IsFiniteSet(settled') /\ settled' \subseteq DOMAIN tallies'
  BY <1>1, FS_AddElement DEF PaidInv
<1>4. /\ \A j \in settled' : Dues'[j] \in Int
      /\ Dues'[k] = due
      /\ \A j \in settled : Dues'[j] = Dues[j]
  BY <1>1, <1>2 DEF Dues, Due
<1>5. ASSUME NEW t \in Tokens, NEW a \in Addresses \ Owners
      PROVE  balance'[<<t, a>>] = SumFunctionOnSet(Dues', PaidTo(t, a)')
  <2>. DEFINE S == PaidTo(t, a)
  <2>1. S \subseteq settled /\ IsFiniteSet(S) /\ k \notin S
    BY <1>1, FS_Subset DEF PaidTo, PaidInv
  <2>2. PaidTo(t, a)' = IF t = tok /\ a = target THEN S \cup {k} ELSE S
    BY <1>1 DEF PaidTo
  <2>3. balance[<<t, a>>] \in Nat /\ balance'[<<t, a>>] \in Nat
    BY <1>1 DEF IInv, TypeOK
  <2>4. Moved(t, a) = IF t = tok /\ a = target THEN due ELSE 0
    <3>1. a # OwnerOf[k[1]]
      BY <1>1
    <3>2. Moved(t, a) = (IF t = tok /\ a = target THEN due ELSE 0) - 0
      BY <1>1, <3>1 DEF PaysOnePeriod
    <3>. QED
      BY <1>2, <3>2
  <2>5. balance'[<<t, a>>] = balance[<<t, a>>] + IF t = tok /\ a = target THEN due ELSE 0
    BY <1>2, <2>3, <2>4 DEF Moved
  <2>6. balance[<<t, a>>] = SumFunctionOnSet(Dues, S)
    BY DEF PaidInv, CreatorsPaidExactly, Dues
  <2>. HIDE DEF S, tok, target, due
  <2>7. SumFunctionOnSet(Dues', S) = SumFunctionOnSet(Dues, S)
    BY <1>4, <2>1, SumSame
  <2>8. CASE t = tok /\ a = target
    <3>1. \A j \in S \cup {k} : Dues'[j] \in Int
      BY <1>1, <1>4, <2>1
    <3>2. SumFunctionOnSet(Dues', S \cup {k}) = SumFunctionOnSet(Dues', S) + Dues'[k]
      BY <2>1, <3>1, SumAdd
    <3>. QED
      BY <1>4, <2>2, <2>5, <2>6, <2>7, <2>8, <3>2
  <2>9. CASE ~(t = tok /\ a = target)
    BY <2>2, <2>3, <2>5, <2>6, <2>7, <2>9
  <2>. QED
    BY <2>8, <2>9
<1>. QED
  BY <1>3, <1>5 DEF PaidInv, CreatorsPaidExactly, Dues

LEMMA StepPaid == IInv /\ PaidInv /\ [Next]_vars => PaidInv'
<1>. SUFFICES ASSUME IInv, PaidInv, [Next]_vars PROVE PaidInv'
  OBVIOUS
<1>1. balance \in [Tokens \X Addresses -> Nat] /\ IInv'
  BY StepHolds DEF IInv, TypeOK
<1>2. balance' \in [Tokens \X Addresses -> Nat]
  BY <1>1 DEF IInv, TypeOK
<1>3. ASSUME UNCHANGED balance
      PROVE  \A t \in Tokens, a \in Addresses \ Owners : Moved(t, a) = 0
  BY <1>1, <1>3 DEF Moved
<1>4. CASE UNCHANGED vars
  BY <1>2, <1>3, <1>4, QuietPaid DEF vars, tallyVars, tokenVars
<1>5. ASSUME NEW o \in Addresses, NEW c \in CampaignIds,
             NEW code \in Codes \cup BadCodes, NEW target \in Addresses \cup {None},
             NEW tok \in Tokens \cup {None}, NEW r \in Rates,
             RegisterShared(o, c, code, target, tok, r)
      PROVE  PaidInv'
  <2>1. /\ \A k \in DOMAIN shared : k \in DOMAIN shared' /\ shared'[k] = shared[k]
        /\ UNCHANGED <<tallies, settled, balance>>
    BY <1>5 DEF RegisterShared, Put, tokenVars
  <2>. QED
    BY <1>2, <1>3, <2>1, QuietPaid
<1>6. ASSUME NEW o \in Addresses, NEW k \in Keys, NEW n \in 0..MaxCount,
             NEW f \in Attributions, CommitTally(o, k[1], k[2], k[3], n, f)
      PROVE  PaidInv'
  <2>1. /\ \A j \in DOMAIN tallies : j \in DOMAIN tallies' /\ tallies'[j] = tallies[j]
        /\ UNCHANGED <<shared, settled, balance>>
    BY <1>6 DEF CommitTally, FreshPeriod, Put, tokenVars
  <2>. QED
    BY <1>2, <1>3, <2>1, QuietPaid
<1>7. ASSUME NEW o \in Addresses, NEW k \in Keys, Settle(o, k)
      PROVE  PaidInv'
  BY <1>7, SettlePaid
<1>8. ASSUME UNCHANGED tallyVars,
             \A t \in Tokens, a \in Addresses \ Owners : Moved(t, a) = 0
      PROVE  PaidInv'
  BY <1>2, <1>8, QuietPaid DEF tallyVars
<1>. QED
  BY <1>4, <1>5, <1>6, <1>7, <1>8, EnvironmentHolds DEF Next

\* A creator's balance is what the periods marked paid owed it, over all its
\* codes and all the settlements anyone asked for.
THEOREM CreatorsPaid == Spec => []CreatorsPaidExactly
<1>1. Init => IInv /\ PaidInv
  <2>1. ASSUME Init PROVE PaidInv
    <3>1. IsFiniteSet(settled) /\ settled = {}
      BY <2>1, FS_EmptySet DEF Init
    <3>2. \A t \in Tokens, a \in Addresses \ Owners : PaidTo(t, a) = {}
      BY <3>1 DEF PaidTo
    <3>. QED
      BY <2>1, <3>1, <3>2, SumEmpty DEF Init, PaidInv, CreatorsPaidExactly
  <2>. QED
    BY <2>1, InitHolds
<1>2. IInv /\ PaidInv /\ [Next]_vars => (IInv /\ PaidInv)'
  BY StepHolds, StepPaid
<1>3. PaidInv => CreatorsPaidExactly
  BY DEF PaidInv
<1>. QED
  BY <1>1, <1>2, <1>3, PTL DEF Spec

-----------------------------------------------------------------------------
\* The rent of the contract's storage.

RentInv == Rent!RentAssumption /\ Rent!TypeOK /\ Rent!Inventoried

\* A renewed entry has more than any keeper's gap to live, and no less than
\* before.
LEMMA ExtendedLives ==
    ASSUME Rent!RentAssumption, NEW life \in Int
    PROVE  /\ Rent!Extended(life) \in Int /\ Rent!Extended(life) >= life
           /\ Rent!Extended(life) >= Gap
           /\ Rent!Extended(life) <= ExtendTo \/ Rent!Extended(life) = life
BY DEF Rent!RentAssumption, Rent!Extended

\* A call that renews some entries: new ones are of things the keepers know.
LEMMA RenewKeeps ==
    ASSUME RentInv, NEW keys, Rent!Renew(keys),
           \A x \in DOMAIN nextBump : x \in DOMAIN nextBump' /\ nextBump'[x] = nextBump[x],
           \A x \in DOMAIN nextBump' : nextBump'[x] \in 0..Gap,
           \A k \in keys : Rent!Present(k) \/ \E x \in DOMAIN nextBump' : k \in x,
           burned' \subseteq KeptCampaigns \X KeptCodes
    PROVE  RentInv'
<1>. USE DEF RentInv
<1>1. /\ DOMAIN ttl' = DOMAIN ttl \cup keys
      /\ \A k \in keys : ttl'[k] = Rent!Extended(Rent!Life(k))
      /\ \A k \in DOMAIN ttl : k \notin keys => ttl'[k] = ttl[k]
  BY DEF Rent!Renew
<1>2. ASSUME NEW k \in keys
      PROVE  /\ Rent!Life(k) \in Int
             /\ Rent!Life(k) <= ExtendTo \/ Rent!Life(k) <= NewLife
             /\ Rent!Present(k) => Rent!Life(k) = ttl[k]
  BY DEF Rent!RentAssumption, Rent!Life, Rent!Present, Rent!TypeOK
<1>3. Rent!TypeOK'
  <2>1. ASSUME NEW k \in DOMAIN ttl'
        PROVE  ttl'[k] \in Int /\ (ttl'[k] <= ExtendTo \/ ttl'[k] <= NewLife)
    <3>1. CASE k \in keys
      BY <1>1, <1>2, <3>1, ExtendedLives
    <3>2. CASE k \notin keys
      BY <1>1, <3>2 DEF Rent!TypeOK
    <3>. QED
      BY <3>1, <3>2
  <2>. QED
    BY <2>1 DEF Rent!TypeOK
<1>4. Rent!Inventoried'
  <2>. SUFFICES ASSUME NEW k \in DOMAIN ttl'
                PROVE  \E x \in DOMAIN nextBump' : k \in x /\ ttl'[k] >= nextBump'[x]
    BY DEF Rent!Inventoried
  <2>1. CASE k \in keys
    <3>1. PICK x \in DOMAIN nextBump' : k \in x
      <4>1. CASE Rent!Present(k)
        BY <4>1 DEF Rent!Inventoried, Rent!Present
      <4>. QED
        BY <2>1, <4>1
    <3>2. ttl'[k] \in Int /\ ttl'[k] >= Gap
      BY <1>1, <1>2, <2>1, ExtendedLives
    <3>3. nextBump'[x] \in 0..Gap
      OBVIOUS
    <3>. QED
      BY <3>1, <3>2, <3>3 DEF Rent!RentAssumption
  <2>2. CASE k \notin keys
    <3>1. k \in DOMAIN ttl /\ ttl'[k] = ttl[k]
      BY <1>1, <2>2
    <3>. QED
      BY <3>1 DEF Rent!Inventoried
  <2>. QED
    BY <2>1, <2>2
<1>. QED
  BY <1>3, <1>4

\* A new thing of the inventory is nextBump after a whole gap.
LEMMA InventoryKeeps ==
    ASSUME RentInv, NEW thing, Rent!Inventory(thing)
    PROVE  /\ \A x \in DOMAIN nextBump : x \in DOMAIN nextBump' /\ nextBump'[x] = nextBump[x]
           /\ \A x \in DOMAIN nextBump' : nextBump'[x] \in 0..Gap
           /\ thing \in DOMAIN nextBump'
<1>1. Gap \in 0..Gap
  BY DEF Rent!RentAssumption, RentInv
<1>2. \A x \in DOMAIN nextBump : nextBump[x] \in 0..Gap
  BY DEF RentInv, Rent!TypeOK
<1>. QED
  BY <1>1, <1>2 DEF Rent!Inventory

\* Nothing changes about the inventory.
LEMMA SameInventory ==
    ASSUME RentInv, nextBump' = nextBump
    PROVE  /\ \A x \in DOMAIN nextBump : x \in DOMAIN nextBump' /\ nextBump'[x] = nextBump[x]
           /\ \A x \in DOMAIN nextBump' : nextBump'[x] \in 0..Gap
BY DEF RentInv, Rent!TypeOK

\* A bump renews all of the thing that is there, so it may wait a gap again.
LEMMA BumpKeeps ==
    ASSUME RentInv, NEW required, NEW named, NEW thing, Rent!Bump(required, named, thing),
           thing \subseteq named
    PROVE  RentInv'
<1>. USE DEF RentInv
<1>. DEFINE keys == {k \in named : Rent!Present(k)}
<1>1. /\ DOMAIN ttl' = DOMAIN ttl
      /\ \A k \in keys : ttl'[k] = Rent!Extended(ttl[k])
      /\ \A k \in DOMAIN ttl : k \notin keys => ttl'[k] = ttl[k]
      /\ DOMAIN nextBump' = DOMAIN nextBump /\ burned' = burned
      /\ \A x \in DOMAIN nextBump : nextBump'[x] = IF x = thing THEN Gap ELSE nextBump[x]
  BY DEF Rent!Bump, Rent!Renew, Rent!Life, Rent!Present
<1>2. ASSUME NEW k \in DOMAIN ttl
      PROVE  /\ ttl[k] \in Int /\ ttl'[k] \in Int /\ ttl'[k] >= ttl[k]
             /\ k \in named => ttl'[k] >= Gap
             /\ ttl'[k] <= ExtendTo \/ ttl'[k] <= NewLife
  <2>1. ttl[k] \in Int /\ (ttl[k] <= ExtendTo \/ ttl[k] <= NewLife)
    BY DEF Rent!TypeOK
  <2>2. CASE k \in named
    BY <1>1, <2>1, <2>2, ExtendedLives DEF Rent!Present
  <2>3. CASE k \notin named
    BY <1>1, <2>1, <2>3
  <2>. QED
    BY <2>1, <2>2, <2>3
<1>3. \A x \in DOMAIN nextBump' : nextBump'[x] \in 0..Gap
  BY <1>1 DEF Rent!RentAssumption, Rent!TypeOK
<1>4. Rent!TypeOK'
  BY <1>1, <1>2, <1>3 DEF Rent!TypeOK
<1>5. Rent!Inventoried'
  <2>. SUFFICES ASSUME NEW k \in DOMAIN ttl
                PROVE  \E x \in DOMAIN nextBump' : k \in x /\ ttl'[k] >= nextBump'[x]
    BY <1>1 DEF Rent!Inventoried
  <2>1. PICK x \in DOMAIN nextBump : k \in x /\ ttl[k] >= nextBump[x]
    BY DEF Rent!Inventoried
  <2>2. nextBump[x] \in 0..Gap
    BY DEF Rent!TypeOK
  <2>3. CASE x = thing
    BY <1>1, <1>2, <2>1, <2>3
  <2>4. CASE x # thing
    <3>1. nextBump'[x] = nextBump[x]
      BY <1>1, <2>4
    <3>. QED
      BY <1>1, <1>2, <2>1, <2>2, <3>1
  <2>. QED
    BY <2>3, <2>4
<1>. QED
  BY <1>4, <1>5

\* The keepers never let a thing wait past its ledger.
LEMMA LedgerKeeps == RentInv /\ Rent!NextLedger => RentInv'
<1>. SUFFICES ASSUME RentInv, Rent!NextLedger PROVE RentInv'
  OBVIOUS
<1>. USE DEF RentInv
<1>1. /\ DOMAIN ttl' = DOMAIN ttl /\ \A k \in DOMAIN ttl : ttl'[k] = ttl[k] - 1
      /\ DOMAIN nextBump' = DOMAIN nextBump /\ \A x \in DOMAIN nextBump : nextBump'[x] = nextBump[x] - 1
      /\ \A x \in DOMAIN nextBump : nextBump[x] > 0
      /\ burned' = burned
  BY DEF Rent!NextLedger
<1>2. Rent!TypeOK'
  BY <1>1 DEF Rent!RentAssumption, Rent!TypeOK
<1>3. Rent!Inventoried'
  <2>. SUFFICES ASSUME NEW k \in DOMAIN ttl
                PROVE  \E x \in DOMAIN nextBump' : k \in x /\ ttl'[k] >= nextBump'[x]
    BY <1>1 DEF Rent!Inventoried
  <2>1. PICK x \in DOMAIN nextBump : k \in x /\ ttl[k] >= nextBump[x]
    BY DEF Rent!Inventoried
  <2>2. ttl[k] \in Int /\ nextBump[x] \in 0..Gap
    BY DEF Rent!TypeOK
  <2>. QED
    BY <1>1, <2>1, <2>2 DEF Rent!RentAssumption
<1>. QED
  BY <1>2, <1>3

\* The removed delegate was the only entry of its thing.
LEMMA RemoveKeeps ==
    ASSUME RentInv, NEW c \in KeptCampaigns, NEW d \in KeptDelegates, Rent!RemoveDelegate(c, d)
    PROVE  RentInv'
<1>. USE DEF RentInv
<1>. DEFINE gone == Rent!Delegate(c, d)
<1>1. /\ DOMAIN ttl' = DOMAIN ttl \ {gone} /\ DOMAIN nextBump' = DOMAIN nextBump \ {{gone}}
      /\ \A k \in DOMAIN ttl' : ttl'[k] = ttl[k]
      /\ \A x \in DOMAIN nextBump' : nextBump'[x] = nextBump[x]
      /\ burned' = burned
  BY DEF Rent!RemoveDelegate
<1>. HIDE DEF gone
<1>2. Rent!TypeOK'
  BY <1>1 DEF Rent!TypeOK
<1>3. Rent!Inventoried'
  BY <1>1 DEF Rent!Inventoried
<1>. QED
  BY <1>2, <1>3

\* The tally of a registered code is in the inventory, its periods with it.
SharedKnown ==
    \A c \in KeptCampaigns, k \in KeptCodes :
        Rent!Present(Rent!Shared(c, k)) => Rent!TallyEntries(c, k) \in DOMAIN nextBump

\* Only register_shared writes a shared code, and no name is another's.
LEMMA SharedApart ==
    ASSUME NEW c, NEW k
    PROVE  /\ Rent!Shared(c, k) # Rent!Instance
           /\ \A b : Rent!Shared(c, k) \notin Rent!CampaignEntries(b)
           /\ \A b, e : /\ Rent!Shared(c, k) # Rent!CodeIndex(b, e)
                        /\ Rent!Shared(c, k) # Rent!Token(b, e)
                        /\ Rent!Shared(c, k) # Rent!Delegate(b, e)
           /\ \A b, e, p : /\ Rent!Shared(c, k) # Rent!Tally(b, e, p)
                           /\ Rent!Shared(c, k) # Rent!Settled(b, e, p)
           /\ \A b : Rent!Shared(c, k) # Rent!CampaignKey(b)
           /\ \A b, e : Rent!Shared(c, k) = Rent!Shared(b, e) => b = c /\ e = k
BY DEF Rent!Shared, Rent!Instance, Rent!CampaignEntries, Rent!CampaignKey, Rent!OwnerCount, Rent!IndexKeys,
       Rent!CodeIndex, Rent!Token, Rent!Delegate, Rent!Tally, Rent!Settled

\* A call that writes no shared code and drops nothing of the inventory.
LEMMA SharedStays ==
    ASSUME SharedKnown, NEW keys,
           DOMAIN ttl' \subseteq DOMAIN ttl \cup keys,
           DOMAIN nextBump \subseteq DOMAIN nextBump',
           \A c \in KeptCampaigns, k \in KeptCodes : Rent!Shared(c, k) \notin keys
    PROVE  SharedKnown'
<1>1. ASSUME NEW c \in KeptCampaigns, NEW k \in KeptCodes, Rent!Shared(c, k) \in DOMAIN ttl'
      PROVE  Rent!TallyEntries(c, k) \in DOMAIN nextBump'
  BY <1>1 DEF SharedKnown, Rent!Present
<1>2. \A c, k : Rent!Shared(c, k)' = Rent!Shared(c, k) /\ Rent!TallyEntries(c, k)' = Rent!TallyEntries(c, k)
  BY DEF Rent!Shared, Rent!TallyEntries, Rent!Tally, Rent!Settled
<1>. QED
  BY <1>1, <1>2 DEF SharedKnown, Rent!Present

\* A step that leaves both inventories' names alone.
LEMMA SharedSame ==
    ASSUME SharedKnown, DOMAIN ttl' = DOMAIN ttl, DOMAIN nextBump' = DOMAIN nextBump
    PROVE  SharedKnown'
BY DEF SharedKnown, Rent!Present, Rent!Shared, Rent!TallyEntries, Rent!Tally, Rent!Settled

LEMMA RenewDomain ==
    ASSUME NEW keys, Rent!Renew(keys) PROVE DOMAIN ttl' = DOMAIN ttl \cup keys
BY DEF Rent!Renew

LEMMA InventoryDomain ==
    ASSUME NEW thing, Rent!Inventory(thing) PROVE DOMAIN nextBump' = DOMAIN nextBump \cup {thing}
BY DEF Rent!Inventory

LEMMA BumpDomain ==
    ASSUME NEW required, NEW named, NEW thing, Rent!Bump(required, named, thing)
    PROVE  DOMAIN ttl' = DOMAIN ttl /\ DOMAIN nextBump' = DOMAIN nextBump
BY DEF Rent!Bump, Rent!Renew, Rent!Present

LEMMA NextShared == SharedKnown /\ [Rent!Next]_(Rent!vars) => SharedKnown'
<1>. SUFFICES ASSUME SharedKnown, [Rent!Next]_(Rent!vars) PROVE SharedKnown'
  OBVIOUS
<1>1. CASE Rent!NextLedger
  <2>1. DOMAIN ttl' = DOMAIN ttl /\ DOMAIN nextBump' = DOMAIN nextBump
    BY <1>1 DEF Rent!NextLedger
  <2>. QED
    BY <2>1, SharedSame
<1>2. ASSUME NEW c \in KeptCampaigns, Rent!CreateCampaign(c) PROVE SharedKnown'
  <2>. DEFINE keys == Rent!CampaignEntries(c)
  <2>1. DOMAIN ttl' = DOMAIN ttl \cup keys /\ DOMAIN nextBump \subseteq DOMAIN nextBump'
    BY <1>2, RenewDomain, InventoryDomain DEF Rent!CreateCampaign
  <2>2. \A b \in KeptCampaigns, e \in KeptCodes : Rent!Shared(b, e) \notin keys
    BY SharedApart
  <2>. HIDE DEF keys
  <2>. QED
    BY <2>1, <2>2, SharedStays
<1>3. ASSUME NEW c \in KeptCampaigns, NEW k \in KeptCodes, Rent!IssueUnique(c, k) PROVE SharedKnown'
  <2>. DEFINE keys == {Rent!Instance, Rent!CampaignKey(c), Rent!CodeIndex(c, k), Rent!Token(c, k)}
  <2>1. DOMAIN ttl' = DOMAIN ttl \cup keys /\ DOMAIN nextBump \subseteq DOMAIN nextBump'
    BY <1>3, RenewDomain, InventoryDomain DEF Rent!IssueUnique
  <2>2. \A b \in KeptCampaigns, e \in KeptCodes : Rent!Shared(b, e) \notin keys
    BY SharedApart
  <2>. HIDE DEF keys
  <2>. QED
    BY <2>1, <2>2, SharedStays
<1>4. ASSUME NEW c \in KeptCampaigns, NEW k \in KeptCodes, Rent!RedeemUnique(c, k) PROVE SharedKnown'
  <2>. DEFINE keys == {Rent!Instance, Rent!CampaignKey(c), Rent!Token(c, k)}
  <2>1. DOMAIN ttl' = DOMAIN ttl \cup keys /\ DOMAIN nextBump \subseteq DOMAIN nextBump'
    BY <1>4, RenewDomain DEF Rent!RedeemUnique
  <2>2. \A b \in KeptCampaigns, e \in KeptCodes : Rent!Shared(b, e) \notin keys
    BY SharedApart
  <2>. HIDE DEF keys
  <2>. QED
    BY <2>1, <2>2, SharedStays
<1>5. ASSUME NEW c \in KeptCampaigns, NEW d \in KeptDelegates, Rent!AddDelegate(c, d)
      PROVE  SharedKnown'
  <2>. DEFINE keys == {Rent!Delegate(c, d)}
  <2>1. DOMAIN ttl' = DOMAIN ttl \cup keys /\ DOMAIN nextBump \subseteq DOMAIN nextBump'
    BY <1>5, RenewDomain, InventoryDomain DEF Rent!AddDelegate
  <2>2. \A b \in KeptCampaigns, e \in KeptCodes : Rent!Shared(b, e) \notin keys
    BY SharedApart
  <2>. HIDE DEF keys
  <2>. QED
    BY <2>1, <2>2, SharedStays
<1>6. ASSUME NEW c \in KeptCampaigns, NEW d \in KeptDelegates, Rent!RemoveDelegate(c, d)
      PROVE  SharedKnown'
  <2>1. /\ DOMAIN ttl' \subseteq DOMAIN ttl
        /\ DOMAIN nextBump' = DOMAIN nextBump \ {{Rent!Delegate(c, d)}}
    BY <1>6 DEF Rent!RemoveDelegate
  <2>2. SUFFICES ASSUME NEW b \in KeptCampaigns, NEW k \in KeptCodes,
                        Rent!Shared(b, k) \in DOMAIN ttl'
                 PROVE  Rent!TallyEntries(b, k) \in DOMAIN nextBump'
    BY DEF SharedKnown, Rent!Present, Rent!Shared, Rent!TallyEntries, Rent!Tally, Rent!Settled
  <2>3. Rent!TallyEntries(b, k) \in DOMAIN nextBump
    BY <2>1, <2>2 DEF SharedKnown, Rent!Present
  <2>4. Rent!Shared(b, k) \in Rent!TallyEntries(b, k) /\ Rent!Shared(b, k) # Rent!Delegate(c, d)
    BY SharedApart DEF Rent!TallyEntries
  <2>. QED
    BY <2>1, <2>3, <2>4
<1>7. ASSUME NEW c \in KeptCampaigns, NEW k \in KeptCodes, Rent!RegisterShared(c, k)
      PROVE  SharedKnown'
  <2>1. /\ DOMAIN ttl' = DOMAIN ttl \cup {Rent!Shared(c, k)}
        /\ DOMAIN nextBump' = DOMAIN nextBump \cup {Rent!TallyEntries(c, k)}
    BY <1>7, RenewDomain, InventoryDomain DEF Rent!RegisterShared
  <2>2. SUFFICES ASSUME NEW b \in KeptCampaigns, NEW e \in KeptCodes,
                        Rent!Shared(b, e) \in DOMAIN ttl'
                 PROVE  Rent!TallyEntries(b, e) \in DOMAIN nextBump'
    BY DEF SharedKnown, Rent!Present, Rent!Shared, Rent!TallyEntries, Rent!Tally, Rent!Settled
  <2>3. CASE Rent!Shared(b, e) = Rent!Shared(c, k)
    BY <2>1, <2>3, SharedApart
  <2>4. CASE Rent!Shared(b, e) \in DOMAIN ttl
    BY <2>1, <2>4 DEF SharedKnown, Rent!Present
  <2>. QED
    BY <2>1, <2>2, <2>3, <2>4
<1>8. ASSUME NEW c \in KeptCampaigns, NEW k \in KeptCodes, NEW p \in KeptPeriods,
             Rent!CommitTally(c, k, p)
      PROVE  SharedKnown'
  <2>1. DOMAIN ttl' = DOMAIN ttl \cup {Rent!Tally(c, k, p)} /\ nextBump' = nextBump
    BY <1>8, RenewDomain DEF Rent!CommitTally
  <2>2. \A b \in KeptCampaigns, e \in KeptCodes : Rent!Shared(b, e) \notin {Rent!Tally(c, k, p)}
    BY SharedApart
  <2>. QED
    BY <2>1, <2>2, SharedStays
<1>9. ASSUME NEW c \in KeptCampaigns, NEW k \in KeptCodes, NEW p \in KeptPeriods,
             Rent!Settle(c, k, p)
      PROVE  SharedKnown'
  <2>1. DOMAIN ttl' = DOMAIN ttl \cup {Rent!Settled(c, k, p)} /\ nextBump' = nextBump
    BY <1>9, RenewDomain DEF Rent!Settle
  <2>2. \A b \in KeptCampaigns, e \in KeptCodes : Rent!Shared(b, e) \notin {Rent!Settled(c, k, p)}
    BY SharedApart
  <2>. QED
    BY <2>1, <2>2, SharedStays
<1>10. ASSUME NEW c \in KeptCampaigns, Rent!BumpCampaign(c) PROVE SharedKnown'
  BY <1>10, BumpDomain, SharedSame DEF Rent!BumpCampaign
<1>11. ASSUME NEW c \in KeptCampaigns, NEW k \in KeptCodes, Rent!BumpCodes(c, k) PROVE SharedKnown'
  BY <1>11, BumpDomain, SharedSame DEF Rent!BumpCodes
<1>12. ASSUME NEW c \in KeptCampaigns, NEW k \in KeptCodes, Rent!BumpTally(c, k) PROVE SharedKnown'
  BY <1>12, BumpDomain, SharedSame DEF Rent!BumpTally
<1>13. ASSUME NEW c \in KeptCampaigns, NEW d \in KeptDelegates, Rent!BumpDelegates(c, d) PROVE SharedKnown'
  BY <1>13, BumpDomain, SharedSame DEF Rent!BumpDelegates
<1>14. CASE UNCHANGED Rent!vars
  BY <1>14, SharedSame DEF Rent!vars
<1>. QED
  BY <1>1, <1>2, <1>3, <1>4, <1>5, <1>6, <1>7, <1>8, <1>9, <1>10, <1>11, <1>12,
     <1>13, <1>14 DEF Rent!Next

LEMMA RentBegins == Rent!RentAssumption /\ Rent!Init => RentInv /\ SharedKnown
BY DEF Rent!Init, RentInv, Rent!TypeOK, Rent!Inventoried, SharedKnown, Rent!Present

LEMMA RentKept == RentInv /\ SharedKnown /\ [Rent!Next]_(Rent!vars) => RentInv'
<1>. SUFFICES ASSUME RentInv, SharedKnown, [Rent!Next]_(Rent!vars) PROVE RentInv'
  OBVIOUS
<1>1. burned \subseteq KeptCampaigns \X KeptCodes
  BY DEF RentInv, Rent!TypeOK
<1>2. ASSUME NEW c \in KeptCampaigns, Rent!CreateCampaign(c) PROVE RentInv'
  <2>1. Rent!Renew(Rent!CampaignEntries(c)) /\ Rent!Inventory(Rent!CampaignEntries(c)) /\ burned' = burned
    BY <1>2 DEF Rent!CreateCampaign
  <2>2. /\ \A x \in DOMAIN nextBump : x \in DOMAIN nextBump' /\ nextBump'[x] = nextBump[x]
        /\ \A x \in DOMAIN nextBump' : nextBump'[x] \in 0..Gap
        /\ Rent!CampaignEntries(c) \in DOMAIN nextBump'
    BY <2>1, InventoryKeeps
  <2>. QED
    BY <1>1, <2>1, <2>2, RenewKeeps
<1>3. ASSUME NEW c \in KeptCampaigns, NEW k \in KeptCodes, Rent!IssueUnique(c, k) PROVE RentInv'
  <2>. DEFINE coupon == {Rent!CodeIndex(c, k), Rent!Token(c, k)}
              keys == {Rent!Instance, Rent!CampaignKey(c), Rent!CodeIndex(c, k), Rent!Token(c, k)}
  <2>1. Rent!Renew(keys) /\ Rent!Inventory(coupon) /\ burned' = burned
        /\ Rent!Present(Rent!Instance) /\ Rent!Present(Rent!CampaignKey(c))
    BY <1>3 DEF Rent!IssueUnique, Rent!Live
  <2>2. /\ \A x \in DOMAIN nextBump : x \in DOMAIN nextBump' /\ nextBump'[x] = nextBump[x]
        /\ \A x \in DOMAIN nextBump' : nextBump'[x] \in 0..Gap
        /\ coupon \in DOMAIN nextBump'
    BY <2>1, InventoryKeeps
  <2>3. \A y \in keys : Rent!Present(y) \/ y \in coupon
    BY <2>1
  <2>. QED
    BY <1>1, <2>1, <2>2, <2>3, RenewKeeps
<1>4. ASSUME NEW c \in KeptCampaigns, NEW k \in KeptCodes, Rent!RedeemUnique(c, k) PROVE RentInv'
  <2>. DEFINE keys == {Rent!Instance, Rent!CampaignKey(c), Rent!Token(c, k)}
  <2>1. Rent!Renew(keys) /\ nextBump' = nextBump /\ burned' \subseteq KeptCampaigns \X KeptCodes
        /\ \A y \in keys : Rent!Present(y)
    BY <1>1, <1>4 DEF Rent!RedeemUnique, Rent!Live
  <2>. QED
    BY <2>1, SameInventory, RenewKeeps
<1>5. ASSUME NEW c \in KeptCampaigns, NEW d \in KeptDelegates, Rent!AddDelegate(c, d) PROVE RentInv'
  <2>1. Rent!Renew({Rent!Delegate(c, d)}) /\ Rent!Inventory({Rent!Delegate(c, d)}) /\ burned' = burned
    BY <1>5 DEF Rent!AddDelegate
  <2>2. /\ \A x \in DOMAIN nextBump : x \in DOMAIN nextBump' /\ nextBump'[x] = nextBump[x]
        /\ \A x \in DOMAIN nextBump' : nextBump'[x] \in 0..Gap
        /\ {Rent!Delegate(c, d)} \in DOMAIN nextBump'
    BY <2>1, InventoryKeeps
  <2>. QED
    BY <1>1, <2>1, <2>2, RenewKeeps
<1>6. ASSUME NEW c \in KeptCampaigns, NEW k \in KeptCodes, Rent!RegisterShared(c, k) PROVE RentInv'
  <2>1. Rent!Renew({Rent!Shared(c, k)}) /\ Rent!Inventory(Rent!TallyEntries(c, k)) /\ burned' = burned
    BY <1>6 DEF Rent!RegisterShared
  <2>2. /\ \A x \in DOMAIN nextBump : x \in DOMAIN nextBump' /\ nextBump'[x] = nextBump[x]
        /\ \A x \in DOMAIN nextBump' : nextBump'[x] \in 0..Gap
        /\ Rent!TallyEntries(c, k) \in DOMAIN nextBump'
    BY <2>1, InventoryKeeps
  <2>3. Rent!Shared(c, k) \in Rent!TallyEntries(c, k)
    BY DEF Rent!TallyEntries
  <2>. QED
    BY <1>1, <2>1, <2>2, <2>3, RenewKeeps
<1>7. ASSUME NEW c \in KeptCampaigns, NEW k \in KeptCodes, Rent!BumpTally(c, k) PROVE RentInv'
  BY <1>7, BumpKeeps DEF Rent!BumpTally
<1>8. ASSUME NEW c \in KeptCampaigns, NEW k \in KeptCodes, Rent!BumpCodes(c, k) PROVE RentInv'
  BY <1>8, BumpKeeps DEF Rent!BumpCodes, Rent!CodeEntries
<1>9. ASSUME NEW c \in KeptCampaigns, NEW d \in KeptDelegates, Rent!BumpDelegates(c, d) PROVE RentInv'
  BY <1>9, BumpKeeps DEF Rent!BumpDelegates
<1>10. ASSUME NEW c \in KeptCampaigns, Rent!BumpCampaign(c) PROVE RentInv'
  BY <1>10, BumpKeeps DEF Rent!BumpCampaign, Rent!CampaignEntries, Rent!BumpedEntries
<1>11. CASE UNCHANGED Rent!vars
  BY <1>11 DEF Rent!vars, RentInv, Rent!TypeOK, Rent!Inventoried
<1>12. ASSUME NEW c \in KeptCampaigns, NEW k \in KeptCodes, NEW p \in KeptPeriods,
              Rent!CommitTally(c, k, p)
       PROVE  RentInv'
  <2>1. Rent!Renew({Rent!Tally(c, k, p)}) /\ nextBump' = nextBump /\ burned' = burned
        /\ Rent!TallyEntries(c, k) \in DOMAIN nextBump
    BY <1>12 DEF Rent!CommitTally, Rent!Live, SharedKnown
  <2>2. Rent!Tally(c, k, p) \in Rent!TallyEntries(c, k)
    BY DEF Rent!TallyEntries
  <2>. QED
    BY <1>1, <2>1, <2>2, SameInventory, RenewKeeps
<1>13. ASSUME NEW c \in KeptCampaigns, NEW k \in KeptCodes, NEW p \in KeptPeriods,
              Rent!Settle(c, k, p)
       PROVE  RentInv'
  <2>1. Rent!Renew({Rent!Settled(c, k, p)}) /\ nextBump' = nextBump /\ burned' = burned
        /\ Rent!TallyEntries(c, k) \in DOMAIN nextBump
    BY <1>13 DEF Rent!Settle, Rent!Live, SharedKnown
  <2>2. Rent!Settled(c, k, p) \in Rent!TallyEntries(c, k)
    BY DEF Rent!TallyEntries
  <2>. QED
    BY <1>1, <2>1, <2>2, SameInventory, RenewKeeps
<1>. QED
  BY <1>2, <1>3, <1>4, <1>5, <1>6, <1>7, <1>8, <1>9, <1>10, <1>11, <1>12, <1>13,
     LedgerKeeps, RemoveKeeps DEF Rent!Next

LEMMA RentInductive == RentSpec => [](RentInv /\ SharedKnown)
<1>1. RentInv /\ SharedKnown /\ [Rent!Next]_(Rent!vars) => (RentInv /\ SharedKnown)'
  BY RentKept, NextShared
<1>. QED
  BY <1>1, RentBegins, KeptAssumption, PTL DEF RentSpec, Rent!Spec

\* Lives are what the contract and the network give, and the keepers' clocks
\* stay within the gap (extend_ttl, and the keepers of SPEC.md section 8).
THEOREM RentTypeCorrect == RentSpec => []Rent!TypeOK
<1>1. RentInv => Rent!TypeOK
  BY DEF RentInv
<1>. QED
  BY <1>1, RentInductive, PTL

\* Every entry of the contract is of a thing that the keepers bump again
\* before it expires (what each call writes against what bump_* renew).
THEOREM AllInventoried == RentSpec => []Inventoried
<1>1. RentInv => Inventoried
  BY DEF RentInv, Inventoried
<1>. QED
  BY <1>1, RentInductive, PTL

\* Nothing of the contract is archived, for any inventory and any LEDGER_BUMP
\* and EXTEND_TO, if the keepers' gap is at most LEDGER_BUMP.
THEOREM RentSafe == RentSpec => []NothingExpires
<1>1. Rent!TypeOK /\ Inventoried => NothingExpires
  <2>. SUFFICES ASSUME Rent!TypeOK, Inventoried, NEW k \in DOMAIN ttl PROVE ttl[k] >= 0
    BY DEF NothingExpires, Rent!NothingExpires
  <2>1. PICK x \in DOMAIN nextBump : ttl[k] >= nextBump[x]
    BY DEF Inventoried, Rent!Inventoried
  <2>2. nextBump[x] \in 0..Gap /\ ttl[k] \in Int
    BY DEF Rent!TypeOK
  <2>. QED
    BY <2>1, <2>2
<1>. QED
  BY <1>1, RentTypeCorrect, AllInventoried, PTL
=============================================================================
