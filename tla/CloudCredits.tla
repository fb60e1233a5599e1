---------------------------- MODULE CloudCredits ----------------------------
(***************************************************************************)
(* Metering of one organization (cloud/api/meter.go): the monthly grant,   *)
(* a charge before each operation, a refund of what it did not use.  Each  *)
(* database transaction is a step; requests, months and stops interleave.  *)
(***************************************************************************)
EXTENDS MeterRates, Integers, Sequences, FiniteSetsExt

CONSTANT Requests

VARIABLES
    month,      \* the calendar
    balance, granted,   \* the row of credits; no row yet when granted is 0
    ledger,     \* credit_ledger: delta and balance of each row, and the month of a grant
    req         \* requests: how far, the reservation, the part used

vars == <<month, balance, granted, ledger, req>>

Stages == {"new", "granted", "reserved", "worked", "done", "unrefunded", "stopped", "refused"}
Entry == [month : 0..LastMonth, delta : Int, balance : Nat]
Req == [at : Stages, cost : Costs, used : Nat]

Init ==
    /\ month = 1 /\ balance = 0 /\ granted = 0 /\ ledger = <<>>
    /\ req \in [Requests -> [at : {"new"}, cost : Costs, used : {0}]]

\* insertLedgerTx: m is the month of a grant, 0 for any other row.
Post(m, delta) ==
    /\ balance' = balance + delta
    /\ ledger' = Append(ledger, [month |-> m, delta |-> delta, balance |-> balance + delta])

\* The grant_month after ensureMonthlyGrant.
GrantedMonth == month

\* ensureMonthlyGrant: once a month the balance is raised to the grant, unless
\* it is there already.
Ensure ==
    IF granted = month THEN UNCHANGED <<balance, granted, ledger>>
    ELSE /\ granted' = GrantedMonth
         /\ IF granted = 0 \/ balance < Grant THEN Post(month, Grant - balance) ELSE UNCHANGED <<balance, ledger>>

\* The credits page.
Look == Ensure /\ UNCHANGED <<month, req>>

EnsureFor(r) ==
    /\ req[r].at = "new" /\ Ensure
    /\ req' = [req EXCEPT ![r].at = "granted"]
    /\ UNCHANGED month

\* balance_mcr >= ?
Covers(r) == balance >= req[r].cost

\* The conditional update of charge, and its row in the ledger; no credits, or
\* an error of the transaction, refuse the operation.
Charge(r) ==
    /\ req[r].at = "granted"
    /\ \/ Covers(r) /\ Post(0, - req[r].cost) /\ req' = [req EXCEPT ![r].at = "reserved"]
       \/ req' = [req EXCEPT ![r].at = "refused"] /\ UNCHANGED <<balance, ledger>>
    /\ UNCHANGED <<month, granted>>

\* The operation: all, some or none of what was reserved is used.
Work(r, used) ==
    /\ req[r].at = "reserved" /\ used \in 0..req[r].cost
    /\ req' = [req EXCEPT ![r].at = "worked", ![r].used = used]
    /\ UNCHANGED <<month, balance, granted, ledger>>

\* mcr - usedMcr
Unused(q) == q.cost - q.used

\* Mutant: the refund is not written to the ledger.
RefundSilent(r) == balance' = balance + Unused(req[r]) /\ UNCHANGED ledger

\* refundCharge
Refund(r) == Post(0, Unused(req[r]))

\* Commit, CommitUsed and Refund; a refund that fails is only logged.
Settle(r) ==
    /\ req[r].at = "worked"
    /\ \/ /\ req' = [req EXCEPT ![r].at = "done"]
          /\ IF Unused(req[r]) > 0 THEN Refund(r) ELSE UNCHANGED <<balance, ledger>>
       \/ /\ Unused(req[r]) > 0 /\ req' = [req EXCEPT ![r].at = "unrefunded"]
          /\ UNCHANGED <<balance, ledger>>
    /\ UNCHANGED <<month, granted>>

\* The process stops: reservations of requests under way are never settled.
Stop ==
    /\ \E r \in Requests : req[r].at \in {"reserved", "worked"}
    /\ req' = [r \in Requests |-> IF req[r].at \in {"reserved", "worked"} THEN [req[r] EXCEPT !.at = "stopped"] ELSE req[r]]
    /\ UNCHANGED <<month, balance, granted, ledger>>

NewMonth == month < LastMonth /\ month' = month + 1 /\ UNCHANGED <<balance, granted, ledger, req>>

Next ==
    \/ Look \/ Stop \/ NewMonth
    \/ \E r \in Requests : EnsureFor(r) \/ Charge(r) \/ Settle(r) \/ \E used \in 0..req[r].cost : Work(r, used)

Spec == Init /\ [][Next]_vars

-----------------------------------------------------------------------------
\* Types; "a conditional SQL update prevents concurrent overdrafts".
TypeOK ==
    /\ month \in 1..LastMonth /\ granted \in 0..month
    /\ balance \in Nat /\ ledger \in Seq(Entry)
    /\ req \in [Requests -> Req] /\ \A r \in Requests : req[r].used <= req[r].cost

\* The ledger accounts for the balance: its first row starts from nothing,
\* every row continues the one before, the last one is the balance.
LedgerAdds ==
    /\ \A i \in 1..Len(ledger) : ledger[i].balance = (IF i = 1 THEN 0 ELSE ledger[i - 1].balance) + ledger[i].delta
    /\ balance = IF ledger = <<>> THEN 0 ELSE ledger[Len(ledger)].balance

\* No month is granted twice, and none after a later one.
GrantsOnce ==
    \A i, j \in 1..Len(ledger) : i < j /\ ledger[i].month > 0 /\ ledger[j].month > 0 => ledger[i].month < ledger[j].month

\* What a request holds of the grants: its reservation until it is settled, for
\* good if it never is; what it used, afterwards.
Held(q) ==
    IF q.at \in {"reserved", "worked", "unrefunded", "stopped"} THEN q.cost
    ELSE IF q.at = "done" THEN q.used ELSE 0

GrantRows == {i \in 1..Len(ledger) : ledger[i].month > 0}

\* No credit appears or vanishes: what was granted is in the balance or held,
\* whatever months, stops and failed refunds come between charge and refund.
Conserved ==
    SumFunctionOnSet([i \in 1..Len(ledger) |-> ledger[i].delta], GrantRows)
        = balance + SumFunctionOnSet([r \in Requests |-> Held(req[r])], Requests)
=============================================================================
