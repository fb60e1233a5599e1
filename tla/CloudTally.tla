----------------------------- MODULE CloudTally -----------------------------
(***************************************************************************)
(* Cloud's handlers for one shared code (cloud/api/handlers_tally.go):     *)
(* events are recorded in the database, anchored on the contract in        *)
(* batches, and their payouts settled, by concurrent HTTP requests that    *)
(* share the account's mutex (chain.go, lockFor) and its sequence number.  *)
(* The chain, keepers that settle on their own, and lost answers are the   *)
(* environment.  A local transaction is one step: the database has one     *)
(* connection.  The code has a creator and a positive rate of one token    *)
(* unit, and an event counts one conversion, so a period's payout is the   *)
(* size of its batch.  Credits, receipts' bytes and archiving are left out.*)
(***************************************************************************)
EXTENDS Integers, Sequences, FiniteSets

CONSTANTS
    Requests,       \* handlers running at a time
    Orders, NoRef,  \* order_ref values, and none given
    NoPeriod,       \* committed_period IS NULL
    Nobody,         \* mutex not held; transaction nobody waits for
    Explicit,       \* periods a caller may name; others ask for the next one
    Limit,          \* maxReceiptsPerTally
    MaxBatch,       \* last batch suffix of a week (99)
    LastWeek,       \* week valid_until falls in
    MaxWeek,        \* bound: ISO weeks
    MaxEvents       \* bound: events recorded

Periods == (1..MaxWeek) \X (0..MaxBatch)     \* YYYYWW and YYYYWWnn

ASSUME CloudAssumption ==
    /\ Limit \in Nat \ {0} /\ MaxBatch \in Nat \ {0}
    /\ MaxWeek \in Nat \ {0} /\ LastWeek \in Nat /\ MaxEvents \in Nat
    /\ Explicit \subseteq Periods /\ NoPeriod \notin Periods
    /\ Nobody \notin Requests /\ NoRef \notin Orders

VARIABLES
    week,       \* the server's clock
    events,     \* shared_events: order_ref and committed_period, by id
    tallies,    \* rows of tallies: period -> settled
    commits,    \* chain: Tally(campaign, code, period) -> event ids in the root
    paid,       \* chain: Settled keys
    allowance,  \* chain: live approval of the account to the contract
    inflight,   \* sent transactions that carry the account's next sequence
    lock,       \* holder of the account's mutex
    req         \* the handlers

dbVars == <<events, tallies>>
chainVars == <<commits, paid, allowance>>
vars == <<week, dbVars, chainVars, inflight, lock, req>>

Idle == [pc |-> "idle", period |-> NoPeriod, batch |-> {}]

\* A handler and the transaction it waits for: commit_tally, approve, settle.
Waiting == [commit |-> "committing", approve |-> "approving", settle |-> "settling"]
Sending == {"commit", "approve", "settle"}
Holding == Sending \cup {Waiting[op] : op \in Sending}
           \cup {"select", "index", "check", "mark", "raced", "failed"}
Labels == Holding \cup {"idle", "lockCommit", "lockSettle"}

Goto(r, label) == req' = [req EXCEPT ![r].pc = label]

\* The handler returns; deferred, the mutex is released, and nobody waits
\* any more for what it sent.
Forget(t, r) == IF t.by = r THEN [t EXCEPT !.by = Nobody] ELSE t
Abandoned(r) == {Forget(t, r) : t \in inflight}

\* Mutant: the mutex stays locked.
ReturnLocked(r) ==
    /\ req' = [req EXCEPT ![r] = Idle]
    /\ inflight' = Abandoned(r)
    /\ lock' = lock

Return(r) ==
    /\ req' = [req EXCEPT ![r] = Idle]
    /\ inflight' = Abandoned(r)
    /\ lock' = IF lock = r THEN Nobody ELSE lock

Init ==
    /\ week = 1
    /\ events = <<>>
    /\ tallies = [p \in {} |-> FALSE]
    /\ commits = [p \in {} |-> {}]
    /\ paid = {} /\ allowance = 0 /\ inflight = {}
    /\ lock = Nobody
    /\ req = [r \in Requests |-> Idle]

NextWeek ==
    /\ week < MaxWeek
    /\ week' = week + 1
    /\ UNCHANGED <<dbVars, chainVars, inflight, lock, req>>

-----------------------------------------------------------------------------
(* handleRecordEvents: one transaction claims the order and stores the     *)
(* event with its signed receipt.                                          *)

\* Mutant: no deduplication.
AnyOrder(order) == order \in Orders \cup {NoRef}

FreshOrder(order) ==
    order = NoRef \/ \A i \in DOMAIN events : events[i].order # order

Record(order) ==
    /\ week <= LastWeek
    /\ FreshOrder(order)
    /\ Len(events) < MaxEvents
    /\ events' = Append(events, [order |-> order, period |-> NoPeriod])
    /\ UNCHANGED <<week, tallies, chainVars, inflight, lock, req>>

-----------------------------------------------------------------------------
(* The chain, as seen by the account.                                      *)

Due(p) == Cardinality(commits[p])

\* An account short of funds or fees is a transaction that is never applied.
Accepts(t) ==
    CASE t.op = "commit" -> t.period \notin DOMAIN commits
      [] t.op = "approve" -> TRUE
      [] t.op = "settle" -> /\ t.period \in DOMAIN commits \ paid
                            /\ allowance >= Due(t.period)

Effect(t) ==
    CASE t.op = "commit" ->
           /\ commits' = [p \in DOMAIN commits \cup {t.period} |->
                            IF p = t.period THEN t.batch ELSE commits[p]]
           /\ UNCHANGED <<paid, allowance>>
      [] t.op = "approve" ->
           /\ allowance' = t.amount
           /\ UNCHANGED <<commits, paid>>
      [] t.op = "settle" ->
           /\ paid' = paid \cup {t.period}
           /\ allowance' = allowance - Due(t.period)
           /\ UNCHANGED commits

\* The contract's error as the handler sees it: AlreadySettled is told apart.
\* Mutants: a period found committed is taken for one's own commitment, and
\* every refusal of settle for a keeper's settlement.
RefusedAsOwn(t) ==
    IF t.op = "commit" THEN "index"
    ELSE IF t.op = "settle" /\ t.period \in paid THEN "raced" ELSE "failed"
RefusedAsRaced(t) == IF t.op = "settle" THEN "raced" ELSE "failed"
Refused(t) == IF t.op = "settle" /\ t.period \in paid THEN "raced" ELSE "failed"

Answered == [commit |-> "index", approve |-> "settle", settle |-> "mark"]

\* Mutant: approve once for whatever may come.
ApproveAhead(p) == Due(p) + 1
Approval(p) == Due(p)

Transaction(r) ==
    LET op == req[r].pc
        p == req[r].period
    IN  [op |-> op, by |-> r, period |-> p, batch |-> req[r].batch,
         amount |-> IF op = "approve" THEN Approval(p) ELSE 0]

\* invokeAt: simulate first, sign with the sequence loaded, send.
Send(r) ==
    /\ req[r].pc \in Sending
    /\ IF Accepts(Transaction(r))
       THEN /\ inflight' = inflight \cup {Transaction(r)}
            /\ Goto(r, Waiting[req[r].pc])
       ELSE /\ Goto(r, Refused(Transaction(r)))
            /\ UNCHANGED inflight
    /\ UNCHANGED <<week, dbVars, chainVars, lock>>

\* A ledger includes one transaction; the others lose its sequence number.
Apply(t) ==
    /\ inflight' = {}
    /\ IF Accepts(t) THEN Effect(t) ELSE UNCHANGED chainVars
    /\ IF t.by = Nobody THEN UNCHANGED req
       ELSE Goto(t.by, IF Accepts(t) THEN Answered[t.op] ELSE Refused(t))
    /\ UNCHANGED <<week, dbVars, lock>>

\* Its time bounds (300 s) pass.
Drop(t) ==
    /\ inflight' = inflight \ {t}
    /\ UNCHANGED <<week, dbVars, chainVars, lock, req>>

Keeper(p) ==
    LET t == [op |-> "settle", period |-> p]
    IN  /\ Accepts(t) /\ Effect(t)
        /\ UNCHANGED <<week, dbVars, inflight, lock, req>>

\* latest + 720 ledgers have passed since the approval.
AllowanceExpires ==
    /\ allowance' = 0
    /\ UNCHANGED <<week, dbVars, commits, paid, inflight, lock, req>>

-----------------------------------------------------------------------------
(* handleCommitTally                                                       *)

Batches(w) == {p[2] : p \in {q \in DOMAIN tallies : q[1] = w /\ q[2] > 0}}

Highest(S) == CHOOSE n \in S : \A m \in S : m <= n

\* nextCommitPeriod reads the local rows.
NextPeriod ==
    IF Batches(week) # {} THEN <<week, Highest(Batches(week)) + 1>>
    ELSE IF <<week, 0>> \notin DOMAIN tallies THEN <<week, 0>>
    ELSE <<week, 1>>

\* The period is settled before the mutex is waited for.
AskCommit(r, period) ==
    /\ req[r].pc = "idle"
    /\ period \in Periods                    \* 100 batches, or not a period
    /\ req' = [req EXCEPT ![r] = [pc |-> "lockCommit", period |-> period, batch |-> {}]]
    /\ UNCHANGED <<week, dbVars, chainVars, inflight, lock>>

\* Mutant: no mutex.
NoMutex == TRUE
MutexFree == lock = Nobody

\* clientFor
Acquire(r) ==
    /\ req[r].pc \in {"lockCommit", "lockSettle"}
    /\ MutexFree
    /\ lock' = r
    /\ Goto(r, IF req[r].pc = "lockCommit" THEN "select" ELSE "check")
    /\ UNCHANGED <<week, dbVars, chainVars, inflight>>

Uncommitted == {i \in DOMAIN events : events[i].period = NoPeriod}

Oldest == {i \in Uncommitted : Cardinality({j \in Uncommitted : j < i}) < Limit}

SelectBatch(r) ==
    /\ req[r].pc = "select" /\ Oldest # {}   \* no uncommitted events
    /\ req' = [req EXCEPT ![r].pc = "commit", ![r].batch = Oldest]
    /\ UNCHANGED <<week, dbVars, chainVars, inflight, lock>>

Touched(r) == {i \in Uncommitted : i <= Highest(req[r].batch)}
UpdatedExactly(r) == Cardinality(Touched(r)) = Cardinality(req[r].batch)

\* INSERT INTO tallies and UPDATE shared_events, in one transaction.
Index(r) ==
    LET p == req[r].period
    IN  /\ req[r].pc = "index"
        /\ p \notin DOMAIN tallies           \* UNIQUE (shared_code_id, period)
        /\ UpdatedExactly(r)
        /\ tallies' = [q \in DOMAIN tallies \cup {p} |-> q \in DOMAIN tallies /\ tallies[q]]
        /\ events' = [i \in DOMAIN events |->
                        IF i \in Touched(r) THEN [events[i] EXCEPT !.period = p]
                        ELSE events[i]]
        /\ Return(r)
        /\ UNCHANGED <<week, chainVars>>

-----------------------------------------------------------------------------
(* handleSettle                                                            *)

AskSettle(r, period) ==
    /\ req[r].pc = "idle"
    /\ req' = [req EXCEPT ![r] = [pc |-> "lockSettle", period |-> period, batch |-> {}]]
    /\ UNCHANGED <<week, dbVars, chainVars, inflight, lock>>

\* is_settled, whose error is ignored, then the preview (TallyNotFound).
Check(r) ==
    LET p == req[r].period
    IN  /\ req[r].pc = "check"
        /\ \/ p \in paid /\ Goto(r, "raced")
           \/ Goto(r, IF p \in DOMAIN commits THEN "approve" ELSE "failed")
        /\ UNCHANGED <<week, dbVars, chainVars, inflight, lock>>

\* The UPDATE of both endings: the chain paid Cloud's call, or a keeper's
\* (reconcileExternalSettlement).
Mark(r) ==
    LET p == req[r].period
    IN  /\ req[r].pc \in {"mark", "raced"}
        /\ tallies' = [q \in DOMAIN tallies |-> tallies[q] \/ q = p]
        /\ Return(r)
        /\ UNCHANGED <<week, events, chainVars>>

\* A handler may end at any of its steps: a refused charge, an unfunded
\* account, an RPC or database error, a poll without answer, a client that
\* hangs up.  A crash of the server ends all of them.
Fail(r) ==
    /\ req[r].pc # "idle"
    /\ Return(r)
    /\ UNCHANGED <<week, dbVars, chainVars>>

\* What a handler does when no error strikes; a poll is bounded in time.
Handle(r) ==
    \/ SelectBatch(r) \/ Send(r) \/ Index(r) \/ Check(r) \/ Mark(r)
    \/ /\ \/ req[r].pc \in {"failed", "committing", "approving", "settling"}
          \/ req[r].pc = "select" /\ Oldest = {}
          \/ req[r].pc = "index"
       /\ Fail(r)

Next ==
    \/ NextWeek
    \/ \E order \in Orders \cup {NoRef} : Record(order)
    \/ \E r \in Requests, p \in Explicit \cup {NextPeriod} : AskCommit(r, p)
    \/ \E r \in Requests, p \in Periods : AskSettle(r, p)
    \/ \E r \in Requests : Acquire(r) \/ Handle(r) \/ Fail(r)
    \/ \E t \in inflight : Apply(t) \/ Drop(t)
    \/ \E p \in Periods : Keeper(p)
    \/ AllowanceExpires

Spec == Init /\ [][Next]_vars

\* Goroutines run, polls end, and Go's mutex does not starve a waiter.
FairSpec ==
    Spec /\ \A r \in Requests : WF_vars(Handle(r)) /\ SF_vars(Acquire(r))

-----------------------------------------------------------------------------
TransactionType ==
    [op : Sending, by : Requests \cup {Nobody}, period : Periods,
     batch : SUBSET (1..MaxEvents), amount : 0..MaxEvents + 1]

\* Types; and only the holder of the mutex is inside the critical section.
TypeOK ==
    /\ week \in 1..MaxWeek
    /\ events \in Seq([order : Orders \cup {NoRef}, period : Periods \cup {NoPeriod}])
    /\ DOMAIN tallies \subseteq Periods /\ tallies \in [DOMAIN tallies -> BOOLEAN]
    /\ DOMAIN commits \subseteq Periods
    /\ commits \in [DOMAIN commits -> (SUBSET DOMAIN events) \ {{}}]
    /\ paid \subseteq DOMAIN commits /\ allowance \in Nat
    /\ inflight \subseteq TransactionType
    /\ req \in [Requests -> [pc : Labels, period : Periods \cup {NoPeriod}, batch : SUBSET DOMAIN events]]
    /\ \A r \in Requests : req[r].pc \in Holding <=> lock = r

\* The database says of every tally it lists exactly what the chain says: the
\* events it marks with a period are those under that period's root, whatever
\* was recorded, lost or abandoned meanwhile (handleCommitTally).
MirrorExact ==
    /\ DOMAIN tallies \subseteq DOMAIN commits
    /\ \A p \in DOMAIN tallies : commits[p] = {i \in DOMAIN events : events[i].period = p}
    /\ \A i \in DOMAIN events : events[i].period \in DOMAIN tallies \cup {NoPeriod}

\* A commitment Cloud knows of: listed, or about to be.
Tracked(p) ==
    \/ p \in DOMAIN tallies
    \/ \E r \in Requests : req[r].pc = "index" /\ req[r].period = p

\* No event is under two commitments, unless Cloud lost the answer to one of
\* them ("otherwise concurrent commits for different periods can anchor the
\* same uncommitted rows twice", handleCommitTally).
AnchoredOnce ==
    \A p, q \in DOMAIN commits :
        p # q /\ Tracked(p) /\ Tracked(q) => commits[p] \cap commits[q] = {}

\* A row is marked settled only when the chain has paid it, by Cloud's call
\* or a keeper's (reconcileExternalSettlement).
SettledIsPaid == \A p \in DOMAIN tallies : tallies[p] => p \in paid

\* A settlement of Cloud's that was answered leaves no allowance: it was
\* approved for exactly this payout, and no late transaction of an earlier
\* request slips in ("leaves no standing spend authority behind", docs/CLOUD.md).
NoStandingAuthority == \A r \in Requests : req[r].pc = "mark" => allowance = 0

\* The period a request commits under is free on the chain.
PeriodStillFree ==
    \A r \in Requests : req[r].pc = "commit" => req[r].period \notin DOMAIN commits

\* Every request returns, so the account is never blocked for the next one.
RequestsEnd == \A r \in Requests : req[r].pc # "idle" ~> req[r].pc = "idle"

\* The database alone is a ReceiptBook.
Book == INSTANCE ReceiptBook WITH
    Open <- NoPeriod,
    book <- [i \in DOMAIN events |-> events[i].order],
    batch <- [i \in DOMAIN events |-> events[i].period],
    noted <- {p \in DOMAIN tallies : tallies[p]}

\* A reader of the database sees whole batches of the oldest open events
\* closed under new periods, orders counted once, and payments noted once,
\* whatever handlers, keepers and failures do (handlers_tally.go).
ImplementsReceiptBook == Book!Spec
=============================================================================
