-------------------------- MODULE CloudTallyProofs --------------------------
(***************************************************************************)
(* Proofs about CloudTally for any number of requests, events, periods and *)
(* batches: what the database says of the chain is true, no event is       *)
(* anchored twice in what it lists, and nothing stays approved.            *)
(***************************************************************************)
EXTENDS CloudTally, FiniteSetTheorems, SequenceTheorems, WellFoundedInduction, TLAPS

\* B may be closed: open events, up to the limit, with every open one older.
Ready(B) ==
    /\ B # {} /\ B \subseteq Uncommitted /\ Cardinality(B) <= Limit
    /\ \A i \in B, j \in Uncommitted : j < i => j \in B

\* The batch of a request is such from the selection to the index.
Batched == \A r \in Requests : req[r].pc \in {"commit", "committing", "index"} => Ready(req[r].batch)

\* What a request learnt from the chain at the label it reached is still so.
Learnt ==
    \A r \in Requests :
        /\ req[r].pc # "idle" => req[r].period \in Periods
        /\ req[r].pc = "index" => req[r].period \in DOMAIN commits /\ commits[req[r].period] = req[r].batch
        /\ req[r].pc \in {"approve", "approving", "settle", "settling"} => req[r].period \in DOMAIN commits
        /\ req[r].pc \in {"mark", "raced"} => req[r].period \in paid

\* A transaction under way does what its request waits for, if one does.
Awaited ==
    \A t \in inflight :
        /\ t.op = "commit" => t.batch # {} /\ t.batch \subseteq DOMAIN events
        /\ t.op # "commit" => t.period \in DOMAIN commits
        /\ t.op = "approve" => t.amount = Due(t.period)
        /\ t.by # Nobody =>
              /\ req[t.by].pc = Waiting[t.op] /\ req[t.by].period = t.period
              /\ t.op = "commit" => req[t.by].batch = t.batch

\* From the approval on, nothing else of the account is under way, and no more
\* is approved than the settlement will take.
Approved ==
    \A r \in Requests :
        /\ req[r].pc \in {"settle", "mark"} => inflight = {}
        /\ req[r].pc = "settling" => \A t \in inflight : t.by = r
        /\ req[r].pc \in {"settle", "settling"} => allowance <= Due(req[r].period)
        /\ req[r].pc = "mark" => allowance = 0

Bounded == Len(events) <= MaxEvents

\* None of the five invariants is inductive: each relates the database to the
\* chain, and it is the labels of the requests and the transactions under way
\* that say what is about to change in either.
IInv ==
    /\ TypeOK /\ Bounded /\ Batched /\ Learnt /\ Awaited /\ Approved
    /\ MirrorExact /\ SettledIsPaid

-----------------------------------------------------------------------------
\* A set of naturals with a bound has a highest member.
LEMMA HighestExists ==
    ASSUME NEW N \in Nat, NEW S \in SUBSET (1..N), S # {}
    PROVE  Highest(S) \in S /\ \A i \in S : i <= Highest(S)
<1>. DEFINE T == {n \in Nat : N - n \in S}
            R == OpToRel(<, Nat)
<1>1. IsWellFoundedOn(R, Nat)
  BY NatLessThanWellFounded
<1>2. T \subseteq Nat /\ T # {}
  <2>1. PICK i \in S : TRUE
    OBVIOUS
  <2>2. N - i \in Nat /\ N - (N - i) = i
    BY <2>1
  <2>. QED
    BY <2>1, <2>2
<1>. HIDE DEF T, R
<1>3. PICK x \in T : \A y \in T : ~(<<y, x>> \in R)
  BY <1>1, <1>2, WFMin
<1>4. \A y \in T : ~(y < x)
  BY <1>2, <1>3 DEF OpToRel, R
<1>5. N - x \in S /\ x \in Nat
  BY DEF T
<1>6. \A i \in S : i <= N - x
  <2>. SUFFICES ASSUME NEW i \in S, i > N - x PROVE FALSE
    BY <1>5
  <2>1. N - i \in Nat /\ N - (N - i) = i
    OBVIOUS
  <2>2. N - i \in T
    BY <2>1 DEF T
  <2>. QED
    BY <1>4, <1>5, <2>1, <2>2
<1>. QED
  BY <1>5, <1>6 DEF Highest

\* Sets of events are finite, no larger than the bound, and only {} has size 0.
LEMMA EventSets ==
    ASSUME TypeOK, Bounded, NEW S \in SUBSET DOMAIN events
    PROVE  /\ S \subseteq 1..MaxEvents /\ IsFiniteSet(S)
           /\ Cardinality(S) \in 0..MaxEvents /\ (S # {} => Cardinality(S) > 0)
<1>1. Len(events) \in Nat /\ DOMAIN events = 1..Len(events) /\ MaxEvents \in Nat
  BY CloudAssumption DEF TypeOK
<1>2. IsFiniteSet(1..MaxEvents) /\ Cardinality(1..MaxEvents) = MaxEvents
  BY <1>1, FS_Interval, SMTT(30)
<1>3. S \subseteq 1..MaxEvents
  BY <1>1 DEF Bounded
<1>4. IsFiniteSet(S) /\ Cardinality(S) <= MaxEvents
  BY <1>2, <1>3, FS_Subset
<1>. QED
  BY <1>1, <1>3, <1>4, FS_CardinalityType, FS_EmptySet

\* A period's payout is positive and bounded.
LEMMA DueType ==
    ASSUME TypeOK, Bounded, NEW p \in DOMAIN commits
    PROVE  Due(p) \in 1..MaxEvents
<1>1. commits[p] \in SUBSET DOMAIN events /\ commits[p] # {}
  BY DEF TypeOK
<1>. QED
  BY <1>1, EventSets DEF Due

\* Only the holder of the mutex is inside the critical section.
LEMMA OneHolder ==
    ASSUME TypeOK, NEW r \in Requests, NEW s \in Requests,
           req[r].pc \in Holding, req[s].pc \in Holding
    PROVE  r = s
BY DEF TypeOK

LEMMA InitHolds == Init => IInv
<1>. SUFFICES ASSUME Init PROVE IInv
  OBVIOUS
<1>1. \A r \in Requests : req[r] = Idle
  BY DEF Init
<1>2. TypeOK
  BY <1>1, CloudAssumption DEF Init, TypeOK, Labels, Idle, Holding, Sending, Waiting
<1>. QED
  BY <1>1, <1>2, CloudAssumption DEF Init, IInv, Bounded, Batched, Ready, Learnt, Awaited, Approved, MirrorExact, SettledIsPaid, Idle

-----------------------------------------------------------------------------
\* A handler returns, having changed in the database at most which listed
\* tallies are marked as settled.
LEMMA ReturnKeeps ==
    ASSUME IInv, NEW r \in Requests, Return(r), UNCHANGED <<week, events, chainVars>>,
           tallies' \in [DOMAIN tallies -> BOOLEAN], SettledIsPaid'
    PROVE  IInv'
<1>. DEFINE Reqs == [pc : Labels, period : Periods \cup {NoPeriod}, batch : SUBSET DOMAIN events]
<1>1. /\ req \in [Requests -> Reqs] /\ inflight \subseteq TransactionType
      /\ \A s \in Requests : req[s].pc \in Holding <=> lock = s
  BY DEF IInv, TypeOK
<1>2. /\ req'[r] = Idle /\ \A s \in Requests \ {r} : req'[s] = req[s]
      /\ Idle \in Reqs /\ Idle.pc = "idle" /\ req' \in [Requests -> Reqs]
  BY <1>1 DEF Return, Idle, Labels
<1>3. ASSUME NEW u \in inflight'
      PROVE  \E t \in inflight :
                /\ u \in TransactionType /\ u.op = t.op /\ u.period = t.period
                /\ u.batch = t.batch /\ u.amount = t.amount
                /\ u.by = (IF t.by = r THEN Nobody ELSE t.by)
  <2>1. PICK t \in inflight : u = Forget(t, r)
    BY <1>3 DEF Return, Abandoned
  <2>2. t \in TransactionType
    BY <1>1
  <2>. QED
    BY <2>1, <2>2 DEF Forget, TransactionType
<1>4. inflight = {} => inflight' = {}
  BY <1>3
<1>5. \A s \in Requests : req'[s].pc \in Holding <=> lock' = s
  BY <1>1, <1>2, CloudAssumption DEF Return, Holding, Sending, Waiting
<1>6. TypeOK'
  <2>1. inflight' \subseteq TransactionType
    BY <1>3
  <2>. QED
    BY <1>2, <1>5, <2>1 DEF IInv, TypeOK, chainVars
<1>7. Bounded' /\ Batched' /\ MirrorExact'
  <2>1. Bounded' /\ Batched'
    BY <1>2 DEF IInv, Bounded, Batched, Ready, Uncommitted
  <2>2. DOMAIN tallies' = DOMAIN tallies
    OBVIOUS
  <2>3. MirrorExact'
    BY <2>2 DEF IInv, MirrorExact, chainVars
  <2>. QED
    BY <2>1, <2>3
<1>8. Learnt'
  BY <1>2 DEF IInv, Learnt, chainVars
<1>9. Awaited'
  <2>. SUFFICES ASSUME NEW u \in inflight'
                PROVE  /\ u.op = "commit" => u.batch # {} /\ u.batch \subseteq DOMAIN events
                       /\ u.op # "commit" => u.period \in DOMAIN commits
                       /\ u.op = "approve" => u.amount = Due(u.period)
                       /\ u.by # Nobody =>
                             /\ req'[u.by].pc = Waiting[u.op] /\ req'[u.by].period = u.period
                             /\ u.op = "commit" => req'[u.by].batch = u.batch
    BY DEF Awaited, Due, chainVars
  <2>1. PICK t \in inflight : /\ u.op = t.op /\ u.period = t.period
                              /\ u.batch = t.batch /\ u.amount = t.amount
                              /\ u.by = (IF t.by = r THEN Nobody ELSE t.by)
    BY <1>3
  <2>2. u.by # Nobody => u.by = t.by /\ t.by \in Requests \ {r}
    BY <1>1, <2>1 DEF TransactionType
  <2>. QED
    BY <1>2, <2>1, <2>2 DEF IInv, Awaited
<1>10. Approved'
  <2>. SUFFICES ASSUME NEW s \in Requests \ {r}
                PROVE  /\ req[s].pc \in {"settle", "mark"} => inflight' = {}
                       /\ req[s].pc = "settling" => \A u \in inflight' : u.by = s
                       /\ req[s].pc \in {"settle", "settling"} => allowance <= Due(req[s].period)
                       /\ req[s].pc = "mark" => allowance = 0
    BY <1>2 DEF Approved, Due, chainVars
  <2>. QED
    BY <1>3, <1>4 DEF IInv, Approved
<1>. QED
  BY <1>6, <1>7, <1>8, <1>9, <1>10 DEF IInv

LEMMA MarkHolds ==
    ASSUME IInv, NEW r \in Requests, Mark(r)
    PROVE  IInv'
<1>1. tallies' \in [DOMAIN tallies -> BOOLEAN]
  BY DEF Mark, IInv, TypeOK
<1>2. SettledIsPaid'
  BY DEF Mark, IInv, SettledIsPaid, Learnt, chainVars
<1>. QED
  BY <1>1, <1>2, ReturnKeeps DEF Mark

LEMMA FailHolds ==
    ASSUME IInv, NEW r \in Requests, Fail(r)
    PROVE  IInv'
<1>1. tallies' \in [DOMAIN tallies -> BOOLEAN] /\ SettledIsPaid'
  BY DEF Fail, IInv, TypeOK, SettledIsPaid, dbVars, chainVars
<1>. QED
  BY <1>1, ReturnKeeps DEF Fail, dbVars

-----------------------------------------------------------------------------
\* A step of one request that sends nothing and changes neither the database
\* nor the chain, made from a label where it waits for no transaction.
LEMMA Moves ==
    ASSUME IInv, NEW r \in Requests, UNCHANGED <<week, dbVars, chainVars, inflight>>,
           NEW v \in [pc : Labels, period : Periods \cup {NoPeriod}, batch : SUBSET DOMAIN events],
           req' = [req EXCEPT ![r] = v],
           \A s \in Requests : req'[s].pc \in Holding <=> lock' = s,
           req[r].pc \notin {"committing", "approving", "settling"},
           v.pc \in {"idle", "lockCommit", "lockSettle", "select", "check", "commit", "approve", "raced", "failed"},
           v.pc # "idle" => v.period \in Periods,
           v.pc = "commit" => Ready(v.batch),
           v.pc = "approve" => v.period \in DOMAIN commits,
           v.pc = "raced" => v.period \in paid
    PROVE  IInv'
<1>1. /\ req'[r] = v /\ \A s \in Requests \ {r} : req'[s] = req[s]
      /\ req' \in [Requests -> [pc : Labels, period : Periods \cup {NoPeriod}, batch : SUBSET DOMAIN events]]
  BY DEF IInv, TypeOK
<1>2. TypeOK' /\ Bounded'
  BY <1>1 DEF IInv, TypeOK, Bounded, dbVars, chainVars
<1>3. Batched' /\ MirrorExact' /\ SettledIsPaid'
  BY <1>1 DEF IInv, Batched, Ready, MirrorExact, SettledIsPaid, Uncommitted, dbVars, chainVars
<1>4. Learnt'
  BY <1>1 DEF IInv, Learnt, chainVars
<1>5. \A t \in inflight : t.by # Nobody => t.by \in Requests \ {r}
  BY DEF IInv, TypeOK, TransactionType, Awaited, Waiting, Sending
<1>6. Awaited'
  BY <1>1, <1>5 DEF IInv, Awaited, Due, dbVars, chainVars
<1>7. Approved'
  BY <1>1 DEF IInv, Approved, Due, chainVars
<1>. QED
  BY <1>2, <1>3, <1>4, <1>6, <1>7 DEF IInv

\* req[r] at another label, and its type.
LEMMA Relabelled ==
    ASSUME TypeOK, NEW r \in Requests, NEW l \in Labels
    PROVE  LET v == [req[r] EXCEPT !.pc = l]
           IN  /\ v \in [pc : Labels, period : Periods \cup {NoPeriod}, batch : SUBSET DOMAIN events]
               /\ v.pc = l /\ v.period = req[r].period /\ v.batch = req[r].batch
               /\ [req EXCEPT ![r].pc = l] = [req EXCEPT ![r] = v]
BY DEF TypeOK

\* A request starts waiting for the mutex.
LEMMA AskHolds ==
    ASSUME IInv, NEW r \in Requests, NEW p \in Periods, AskCommit(r, p) \/ AskSettle(r, p)
    PROVE  IInv'
<1>1. PICK l \in {"lockCommit", "lockSettle"} :
        /\ req[r].pc = "idle" /\ req' = [req EXCEPT ![r] = [pc |-> l, period |-> p, batch |-> {}]]
        /\ UNCHANGED <<week, dbVars, chainVars, inflight, lock>>
  BY DEF AskCommit, AskSettle
<1>. DEFINE v == [pc |-> l, period |-> p, batch |-> {}]
<1>2. v \in [pc : Labels, period : Periods \cup {NoPeriod}, batch : SUBSET DOMAIN events]
  BY DEF Labels
<1>3. \A s \in Requests : req'[s].pc \in Holding <=> lock' = s
  BY <1>1 DEF IInv, TypeOK, Holding, Sending, Waiting
<1>. QED
  BY <1>1, <1>2, <1>3, Moves

LEMMA AcquireHolds ==
    ASSUME IInv, NEW r \in Requests, Acquire(r)
    PROVE  IInv'
<1>1. PICK l \in {"select", "check"} :
        /\ req[r].pc \in {"lockCommit", "lockSettle"} /\ lock = Nobody /\ lock' = r
        /\ req' = [req EXCEPT ![r].pc = l]
        /\ UNCHANGED <<week, dbVars, chainVars, inflight>>
  BY DEF Acquire, MutexFree, Goto
<1>. DEFINE v == [req[r] EXCEPT !.pc = l]
<1>2. l \in Labels /\ l \in Holding
  BY DEF Labels, Holding
<1>3. /\ v \in [pc : Labels, period : Periods \cup {NoPeriod}, batch : SUBSET DOMAIN events]
      /\ v.pc = l /\ v.period = req[r].period /\ req' = [req EXCEPT ![r] = v]
  BY <1>1, <1>2, Relabelled DEF IInv
<1>4. \A s \in Requests : req'[s].pc \in Holding <=> lock' = s
  BY <1>1, <1>2, CloudAssumption DEF IInv, TypeOK
<1>5. req[r].period \in Periods
  BY <1>1 DEF IInv, Learnt
<1>. HIDE DEF v
<1>. QED
  BY <1>1, <1>3, <1>4, <1>5, Moves

\* The limit cuts the open events after the oldest.
LEMMA OldestReady == IInv /\ Oldest # {} => Ready(Oldest)
<1>. SUFFICES ASSUME IInv, Oldest # {} PROVE Ready(Oldest)
  OBVIOUS
<1>. DEFINE Older(i) == {j \in Uncommitted : j < i}
            h == Highest(Oldest)
<1>1. /\ Oldest \subseteq Uncommitted /\ Uncommitted \subseteq DOMAIN events
      /\ Limit \in Nat /\ Limit > 0 /\ MaxEvents \in Nat
  BY CloudAssumption DEF Oldest, Uncommitted
<1>2. \A S \in SUBSET Uncommitted : S \subseteq 1..MaxEvents /\ IsFiniteSet(S) /\ Cardinality(S) \in 0..MaxEvents
  BY <1>1, EventSets DEF IInv
<1>3. \A i \in Oldest, j \in Uncommitted : j < i => j \in Oldest
  <2>. SUFFICES ASSUME NEW i \in Oldest, NEW j \in Uncommitted, j < i PROVE j \in Oldest
    OBVIOUS
  <2>1. i \in 1..MaxEvents /\ Uncommitted \subseteq 1..MaxEvents /\ Cardinality(Older(i)) < Limit
    BY <1>1, <1>2 DEF Oldest
  <2>2. Older(j) \in SUBSET Older(i)
    <3>1. \A x \in Uncommitted : x < j => x < i
      BY <1>1, <2>1
    <3>. QED
      BY <3>1
  <2>3. Cardinality(Older(j)) <= Cardinality(Older(i))
    BY <1>2, <2>2, FS_Subset
  <2>. QED
    BY <1>1, <1>2, <2>1, <2>3 DEF Oldest
<1>4. Cardinality(Oldest) <= Limit
  <2>1. h \in Oldest /\ \A i \in Oldest : i <= h
    BY <1>1, <1>2, HighestExists
  <2>. HIDE DEF h
  <2>2. Cardinality(Older(h)) < Limit /\ IsFiniteSet(Older(h)) /\ Cardinality(Older(h)) \in Nat
    <3>1. Older(h) \in SUBSET Uncommitted
      OBVIOUS
    <3>2. Cardinality(Older(h)) < Limit
      BY <2>1 DEF Oldest
    <3>. QED
      BY <1>1, <1>2, <3>1, <3>2
  <2>3. Oldest \in SUBSET (Older(h) \cup {h})
    BY <1>1, <1>2, <2>1
  <2>4. IsFiniteSet(Older(h) \cup {h}) /\ Cardinality(Older(h) \cup {h}) <= Limit
    <3>1. /\ IsFiniteSet(Older(h) \cup {h})
          /\ Cardinality(Older(h) \cup {h}) \in {Cardinality(Older(h)), Cardinality(Older(h)) + 1}
      BY <2>2, FS_AddElement
    <3>. QED
      BY <1>1, <2>2, <3>1
  <2>5. Cardinality(Oldest) <= Cardinality(Older(h) \cup {h})
    BY <2>3, <2>4, FS_Subset
  <2>. QED
    BY <1>1, <1>2, <2>2, <2>4, <2>5, FS_AddElement
<1>. QED
  BY <1>1, <1>3, <1>4 DEF Ready

LEMMA SelectHolds ==
    ASSUME IInv, NEW r \in Requests, SelectBatch(r)
    PROVE  IInv'
<1>. DEFINE v == [req[r] EXCEPT !.pc = "commit", !.batch = Oldest]
<1>1. /\ req[r].pc = "select" /\ Ready(Oldest) /\ Oldest \subseteq Uncommitted
      /\ UNCHANGED <<week, dbVars, chainVars, inflight, lock>>
  BY OldestReady DEF SelectBatch, Oldest
<1>2. /\ v \in [pc : Labels, period : Periods \cup {NoPeriod}, batch : SUBSET DOMAIN events]
      /\ v.pc = "commit" /\ v.period = req[r].period /\ v.batch = Oldest
      /\ req' = [req EXCEPT ![r] = v]
  BY <1>1 DEF SelectBatch, IInv, TypeOK, Labels, Holding, Sending, Uncommitted
<1>3. \A s \in Requests : req'[s].pc \in Holding <=> lock' = s
  BY <1>1, <1>2 DEF IInv, TypeOK, Holding, Sending
<1>4. req[r].period \in Periods
  BY <1>1 DEF IInv, Learnt
<1>. HIDE DEF v
<1>. QED
  BY <1>1, <1>2, <1>3, <1>4, Moves

\* Within the critical section, to another label of it.
LEMMA StepsInside ==
    ASSUME IInv, NEW r \in Requests, NEW l \in {"approve", "raced", "failed"},
           req[r].pc \in {"check", "commit", "approve", "settle"},
           UNCHANGED <<week, dbVars, chainVars, inflight, lock>>,
           req' = [req EXCEPT ![r].pc = l],
           l = "approve" => req[r].period \in DOMAIN commits,
           l = "raced" => req[r].period \in paid
    PROVE  IInv'
<1>. DEFINE v == [req[r] EXCEPT !.pc = l]
<1>1. l \in Labels /\ l \in Holding /\ req[r].pc \in Holding
  BY DEF Labels, Holding, Sending
<1>2. /\ v \in [pc : Labels, period : Periods \cup {NoPeriod}, batch : SUBSET DOMAIN events]
      /\ v.pc = l /\ v.period = req[r].period /\ req' = [req EXCEPT ![r] = v]
  BY <1>1, Relabelled DEF IInv
<1>3. \A s \in Requests : req'[s].pc \in Holding <=> lock' = s
  BY <1>1 DEF IInv, TypeOK
<1>4. req[r].period \in Periods
  BY DEF IInv, Learnt
<1>. HIDE DEF v
<1>. QED
  BY <1>2, <1>3, <1>4, Moves

LEMMA CheckHolds ==
    ASSUME IInv, NEW r \in Requests, Check(r)
    PROVE  IInv'
<1>. DEFINE l == IF req[r].period \in DOMAIN commits THEN "approve" ELSE "failed"
<1>1. req[r].pc = "check" /\ UNCHANGED <<week, dbVars, chainVars, inflight, lock>>
  BY DEF Check
<1>2. CASE req[r].period \in paid /\ Goto(r, "raced")
  BY <1>1, <1>2, StepsInside DEF Goto
<1>3. CASE Goto(r, l)
  <2>1. l \in {"approve", "failed"} /\ (l = "approve" => req[r].period \in DOMAIN commits)
    OBVIOUS
  <2>2. req' = [req EXCEPT ![r].pc = l]
    BY <1>3 DEF Goto
  <2>. HIDE DEF l
  <2>. QED
    BY <1>1, <2>1, <2>2, StepsInside
<1>. QED
  BY <1>2, <1>3 DEF Check

-----------------------------------------------------------------------------
\* The transaction of a request, accepted by the simulation, is sent.
LEMMA SendHolds ==
    ASSUME IInv, NEW r \in Requests, Send(r)
    PROVE  IInv'
<1>. DEFINE t == Transaction(r)
            l == Waiting[req[r].pc]
            v == [req[r] EXCEPT !.pc = l]
<1>1. /\ req[r].pc \in Sending /\ req[r].period \in Periods
      /\ UNCHANGED <<week, dbVars, chainVars, lock>>
      /\ req[r].batch \subseteq DOMAIN events
  BY DEF Send, IInv, TypeOK, Learnt, Sending
<1>2. /\ t.op = req[r].pc /\ t.by = r /\ t.period = req[r].period /\ t.batch = req[r].batch
      /\ t.amount = IF req[r].pc = "approve" THEN Due(req[r].period) ELSE 0
  BY DEF Transaction, Approval
<1>3. CASE ~Accepts(t)
  <2>1. /\ req' = [req EXCEPT ![r].pc = Refused(t)] /\ UNCHANGED inflight
        /\ Refused(t) \in {"raced", "failed"}
        /\ Refused(t) = "raced" => req[r].period \in paid
    BY <1>2, <1>3 DEF Send, Goto, Refused
  <2>. QED
    BY <1>1, <2>1, StepsInside DEF Sending
<1>4. CASE Accepts(t)
  <2>1. inflight' = inflight \cup {t} /\ req' = [req EXCEPT ![r].pc = l]
    BY <1>4 DEF Send, Goto
  <2>2. /\ l \in {"committing", "approving", "settling"} /\ l \in Labels /\ l \in Holding
        /\ req[r].pc \in Holding
        /\ (l = "committing" <=> req[r].pc = "commit") /\ (l = "approving" <=> req[r].pc = "approve")
        /\ (l = "settling" <=> req[r].pc = "settle")
    BY <1>1 DEF Waiting, Sending, Labels, Holding
  <2>3. /\ v \in [pc : Labels, period : Periods \cup {NoPeriod}, batch : SUBSET DOMAIN events]
        /\ v.pc = l /\ v.period = req[r].period /\ v.batch = req[r].batch
        /\ req' = [req EXCEPT ![r] = v]
    BY <2>1, <2>2, Relabelled DEF IInv
  <2>. HIDE DEF v, l, t
  <2>4. /\ req'[r] = v /\ \A s \in Requests \ {r} : req'[s] = req[s]
        /\ req' \in [Requests -> [pc : Labels, period : Periods \cup {NoPeriod}, batch : SUBSET DOMAIN events]]
    BY <2>3 DEF IInv, TypeOK
  <2>5. \A s \in Requests \ {r} : req[s].pc \notin Holding
    BY <2>2, OneHolder DEF IInv
  <2>6. \A u \in inflight : u.by # Nobody => u.by \in Requests \ {r}
    BY <1>1 DEF IInv, TypeOK, TransactionType, Awaited, Waiting, Sending
  <2>7. t \in TransactionType
    <3>1. t.amount \in 0..MaxEvents + 1
      <4>1. CASE req[r].pc = "approve"
        <5>1. Due(req[r].period) \in 1..MaxEvents
          BY <4>1, DueType DEF IInv, Learnt
        <5>. QED
          BY <1>2, <4>1, <5>1, CloudAssumption
      <4>2. CASE req[r].pc # "approve"
        BY <1>2, <4>2, CloudAssumption
      <4>. QED
        BY <4>1, <4>2
    <3>2. t.batch \in SUBSET (1..MaxEvents)
      BY <1>1, <1>2, EventSets DEF IInv
    <3>. QED
      BY <1>1, <1>2, <3>1, <3>2 DEF t, Transaction, TransactionType
  <2>8. TypeOK' /\ Bounded'
    <3>1. \A s \in Requests : req'[s].pc \in Holding <=> lock' = s
      BY <1>1, <2>2, <2>3, <2>4 DEF IInv, TypeOK
    <3>. QED
      BY <1>1, <2>1, <2>4, <2>7, <3>1 DEF IInv, TypeOK, Bounded, dbVars, chainVars
  <2>9. Batched' /\ MirrorExact' /\ SettledIsPaid'
    BY <1>1, <2>2, <2>3, <2>4 DEF IInv, Batched, Ready, MirrorExact, SettledIsPaid, Uncommitted, dbVars, chainVars
  <2>10. Learnt'
    BY <1>1, <2>2, <2>3, <2>4 DEF IInv, Learnt, chainVars
  <2>11. Awaited'
    <3>1. /\ t.op = "commit" => t.batch # {} /\ t.batch \subseteq DOMAIN events
          /\ t.op # "commit" => t.period \in DOMAIN commits
          /\ t.op = "approve" => t.amount = Due(t.period)
          /\ v.pc = Waiting[t.op] /\ v.period = t.period /\ v.batch = t.batch
      BY <1>1, <1>2, <2>3 DEF IInv, Batched, Ready, Learnt, Sending, l
    <3>. QED
      BY <1>1, <1>2, <2>1, <2>4, <2>6, <3>1 DEF IInv, Awaited, Due, dbVars, chainVars
  <2>12. Approved'
    <3>1. \A s \in Requests \ {r} : req'[s].pc \notin {"settle", "mark", "settling"}
      BY <2>4, <2>5 DEF Holding, Sending, Waiting
    <3>2. l = "settling" => inflight = {} /\ allowance <= Due(req[r].period)
      BY <2>2 DEF IInv, Approved
    <3>. QED
      BY <1>1, <1>2, <2>1, <2>2, <2>3, <2>4, <3>1, <3>2 DEF Approved, Due, chainVars
  <2>. QED
    BY <2>8, <2>9, <2>10, <2>11, <2>12 DEF IInv
<1>. QED
  BY <1>3, <1>4

\* What a transaction does to the chain: commitments and payments stay, and
\* only an approval adds to what may be spent.
LEMMA EffectKeeps ==
    ASSUME IInv, NEW t, t.op \in Sending, t.period \in Periods, Accepts(t), Effect(t),
           t.op = "commit" => t.batch # {} /\ t.batch \subseteq DOMAIN events,
           t.op = "approve" => t.amount \in Nat
    PROVE  /\ DOMAIN commits' = DOMAIN commits \cup (IF t.op = "commit" THEN {t.period} ELSE {})
           /\ commits' \in [DOMAIN commits' -> (SUBSET DOMAIN events) \ {{}}]
           /\ \A p \in DOMAIN commits : commits'[p] = commits[p]
           /\ t.op = "commit" => t.period \notin DOMAIN commits /\ commits'[t.period] = t.batch
           /\ t.op # "settle" => paid' = paid
           /\ t.op = "settle" =>
                 /\ t.period \in DOMAIN commits \ paid /\ paid' = paid \cup {t.period}
                 /\ allowance >= Due(t.period) /\ allowance' = allowance - Due(t.period)
           /\ t.op = "approve" => allowance' = t.amount
           /\ t.op = "commit" => allowance' = allowance
           /\ allowance' \in Nat
<1>1. commits \in [DOMAIN commits -> (SUBSET DOMAIN events) \ {{}}] /\ allowance \in Nat
  BY DEF IInv, TypeOK
<1>2. CASE t.op = "commit"
  <2>1. /\ t.period \notin DOMAIN commits
        /\ commits' = [p \in DOMAIN commits \cup {t.period} |-> IF p = t.period THEN t.batch ELSE commits[p]]
        /\ UNCHANGED <<paid, allowance>>
    BY <1>2 DEF Accepts, Effect
  <2>. QED
    BY <1>1, <1>2, <2>1
<1>3. CASE t.op = "approve"
  <2>1. allowance' = t.amount /\ UNCHANGED <<commits, paid>>
    BY <1>3 DEF Effect
  <2>. QED
    BY <1>1, <1>3, <2>1
<1>4. CASE t.op = "settle"
  <2>1. /\ t.period \in DOMAIN commits \ paid /\ allowance >= Due(t.period)
        /\ paid' = paid \cup {t.period} /\ allowance' = allowance - Due(t.period)
        /\ commits' = commits
    BY <1>4 DEF Accepts, Effect
  <2>2. Due(t.period) \in Nat
    BY <2>1, DueType DEF IInv
  <2>. QED
    BY <1>1, <1>4, <2>1, <2>2
<1>. QED
  BY <1>2, <1>3, <1>4 DEF Sending

\* What the database and the requests say of the chain outlives its step.
LEMMA ChainStep ==
    ASSUME IInv, NEW t, t.op \in Sending, t.period \in Periods, Accepts(t), Effect(t),
           t.op = "commit" => t.batch # {} /\ t.batch \subseteq DOMAIN events,
           t.op = "approve" => t.amount \in Nat,
           UNCHANGED <<week, dbVars>>
    PROVE  /\ DOMAIN commits \subseteq DOMAIN commits' /\ paid \subseteq paid'
           /\ \A p \in DOMAIN commits : commits'[p] = commits[p] /\ Due(p)' = Due(p)
           /\ DOMAIN commits' \subseteq Periods /\ paid' \subseteq DOMAIN commits' /\ allowance' \in Nat
           /\ commits' \in [DOMAIN commits' -> (SUBSET DOMAIN events) \ {{}}]
           /\ Bounded' /\ MirrorExact' /\ SettledIsPaid'
<1>1. /\ DOMAIN commits' = DOMAIN commits \cup (IF t.op = "commit" THEN {t.period} ELSE {})
      /\ commits' \in [DOMAIN commits' -> (SUBSET DOMAIN events) \ {{}}]
      /\ \A p \in DOMAIN commits : commits'[p] = commits[p]
      /\ t.op # "settle" => paid' = paid
      /\ t.op = "settle" => t.period \in DOMAIN commits \ paid /\ paid' = paid \cup {t.period}
      /\ allowance' \in Nat
  BY EffectKeeps
<1>2. DOMAIN commits \subseteq DOMAIN commits' /\ paid \subseteq paid'
  BY <1>1
<1>3. \A p \in DOMAIN commits : Due(p)' = Due(p)
  BY <1>1 DEF Due
<1>4. DOMAIN commits' \subseteq Periods /\ paid' \subseteq DOMAIN commits'
  BY <1>1 DEF IInv, TypeOK
<1>5. Bounded'
  BY DEF IInv, Bounded, dbVars
<1>6. MirrorExact' /\ SettledIsPaid'
  BY <1>1, <1>2 DEF IInv, MirrorExact, SettledIsPaid, dbVars
<1>. QED
  BY <1>1, <1>2, <1>3, <1>4, <1>5, <1>6

LEMMA KeeperHolds ==
    ASSUME IInv, NEW p \in Periods, Keeper(p)
    PROVE  IInv'
<1>. DEFINE t == [op |-> "settle", period |-> p]
<1>1. /\ t.op = "settle" /\ t.period = p /\ Accepts(t) /\ Effect(t)
      /\ UNCHANGED <<week, dbVars, inflight, lock, req>> /\ t.op \in Sending
  BY DEF Keeper, Sending
<1>. HIDE DEF t
<1>2. /\ DOMAIN commits \subseteq DOMAIN commits' /\ paid \subseteq paid'
      /\ \A q \in DOMAIN commits : commits'[q] = commits[q] /\ Due(q)' = Due(q)
      /\ DOMAIN commits' \subseteq Periods /\ paid' \subseteq DOMAIN commits' /\ allowance' \in Nat
      /\ commits' \in [DOMAIN commits' -> (SUBSET DOMAIN events) \ {{}}]
      /\ Bounded' /\ MirrorExact' /\ SettledIsPaid'
  BY <1>1, ChainStep
<1>3. p \in DOMAIN commits /\ allowance' = allowance - Due(p) /\ allowance >= Due(p)
  BY <1>1, EffectKeeps
<1>4. Due(p) \in 1..MaxEvents /\ allowance \in Nat
  BY <1>3, DueType DEF IInv, TypeOK
<1>5. TypeOK'
  BY <1>1, <1>2 DEF IInv, TypeOK, dbVars
<1>6. Batched' /\ Learnt' /\ Awaited'
  BY <1>1, <1>2 DEF IInv, Batched, Ready, Learnt, Awaited, Uncommitted, dbVars
<1>7. Approved'
  <2>. SUFFICES ASSUME NEW r \in Requests
                PROVE  /\ req[r].pc \in {"settle", "mark"} => inflight = {}
                       /\ req[r].pc = "settling" => \A u \in inflight : u.by = r
                       /\ req[r].pc \in {"settle", "settling"} => allowance' <= Due(req[r].period)'
                       /\ req[r].pc = "mark" => allowance' = 0
    BY <1>1 DEF Approved
  <2>1. req[r].pc \in {"settle", "settling"} => allowance' <= Due(req[r].period)'
    <3>. SUFFICES ASSUME req[r].pc \in {"settle", "settling"} PROVE allowance' <= Due(req[r].period)'
      OBVIOUS
    <3>1. req[r].period \in DOMAIN commits /\ allowance <= Due(req[r].period)
      BY DEF IInv, Learnt, Approved
    <3>2. Due(req[r].period)' = Due(req[r].period) /\ Due(req[r].period) \in 1..MaxEvents
      BY <1>1, <1>2, <3>1, DueType DEF IInv, Due
    <3>. QED
      BY <1>3, <1>4, <3>1, <3>2
  <2>2. req[r].pc # "mark"
    BY <1>3, <1>4 DEF IInv, Approved
  <2>. QED
    BY <2>1, <2>2 DEF IInv, Approved
<1>. QED
  BY <1>2, <1>5, <1>6, <1>7 DEF IInv

LEMMA ApplyHolds ==
    ASSUME IInv, NEW t \in inflight, Apply(t)
    PROVE  IInv'
<1>1. /\ t \in TransactionType /\ t.op \in Sending /\ t.by \in Requests \cup {Nobody}
      /\ t.period \in Periods /\ t.amount \in Nat /\ Nobody \notin Requests
      /\ t.op = "commit" => t.batch # {} /\ t.batch \subseteq DOMAIN events
      /\ t.op # "commit" => t.period \in DOMAIN commits
      /\ t.op = "approve" => t.amount = Due(t.period)
  BY CloudAssumption DEF IInv, TypeOK, TransactionType, Awaited
<1>2. inflight' = {} /\ UNCHANGED <<week, dbVars, lock>>
  BY DEF Apply
<1>3. Awaited'
  BY <1>2 DEF Awaited
\* Someone who waits is answered; his label is the only one that changes.
<1>4. ASSUME t.by # Nobody
      PROVE  /\ t.by \in Requests /\ req[t.by].pc = Waiting[t.op] /\ req[t.by].period = t.period
             /\ t.op = "commit" => req[t.by].batch = t.batch
             /\ req[t.by].pc \in Holding
  BY <1>1, <1>4 DEF IInv, Awaited, Holding
<1>5. CASE ~Accepts(t) /\ t.by = Nobody
  <2>1. UNCHANGED <<chainVars, req>>
    BY <1>5 DEF Apply
  <2>. QED
    BY <1>2, <1>3, <2>1 DEF IInv, TypeOK, Bounded, Batched, Ready, Learnt, Approved, MirrorExact, SettledIsPaid, Uncommitted, Due, dbVars, chainVars
<1>6. CASE ~Accepts(t) /\ t.by # Nobody
  <2>. DEFINE r == t.by
              l == Refused(t)
  <2>1. /\ UNCHANGED chainVars /\ req' = [req EXCEPT ![r].pc = l]
        /\ l \in {"raced", "failed"}
        /\ l = "raced" => t.period \in paid
    BY <1>6 DEF Apply, Goto, Refused
  <2>. HIDE DEF l
  <2>2. l \in Labels /\ l \in Holding
    BY <2>1 DEF Labels, Holding
  <2>3. /\ r \in Requests /\ req'[r].pc = l /\ req'[r].period = t.period
        /\ \A s \in Requests \ {r} : req'[s] = req[s]
        /\ req' \in [Requests -> [pc : Labels, period : Periods \cup {NoPeriod}, batch : SUBSET DOMAIN events]]
    BY <1>4, <1>6, <2>1, <2>2, Relabelled DEF IInv, TypeOK
  <2>4. TypeOK' /\ Bounded'
    BY <1>2, <1>4, <1>6, <2>1, <2>2, <2>3 DEF IInv, TypeOK, Bounded, dbVars, chainVars
  <2>5. Batched' /\ MirrorExact' /\ SettledIsPaid'
    BY <1>2, <2>1, <2>3 DEF IInv, Batched, Ready, MirrorExact, SettledIsPaid, Uncommitted, dbVars, chainVars
  <2>6. Learnt'
    BY <1>1, <2>1, <2>3 DEF IInv, Learnt, chainVars
  <2>7. Approved'
    BY <1>2, <2>1, <2>3 DEF IInv, Approved, Due, chainVars
  <2>. QED
    BY <1>3, <2>4, <2>5, <2>6, <2>7 DEF IInv
<1>7. CASE Accepts(t)
  <2>1. Effect(t)
    BY <1>7 DEF Apply
  <2>2. /\ DOMAIN commits \subseteq DOMAIN commits' /\ paid \subseteq paid'
        /\ \A q \in DOMAIN commits : commits'[q] = commits[q] /\ Due(q)' = Due(q)
        /\ DOMAIN commits' \subseteq Periods /\ paid' \subseteq DOMAIN commits' /\ allowance' \in Nat
        /\ commits' \in [DOMAIN commits' -> (SUBSET DOMAIN events) \ {{}}]
        /\ Bounded' /\ MirrorExact' /\ SettledIsPaid'
    BY <1>1, <1>2, <1>7, <2>1, ChainStep
  <2>3. /\ t.op = "commit" => t.period \in DOMAIN commits' /\ commits'[t.period] = t.batch
        /\ t.op = "settle" =>
              /\ t.period \in paid' /\ t.period \in DOMAIN commits
              /\ allowance >= Due(t.period) /\ allowance' = allowance - Due(t.period)
        /\ t.op = "approve" => allowance' = t.amount
        /\ t.op = "commit" => allowance' = allowance
    BY <1>1, <1>7, <2>1, EffectKeeps
  \* Nobody else has been approved what this transaction changes.
  <2>4. \A s \in Requests : req[s].pc \in {"settle", "settling", "mark"} => t.by = s
    BY DEF IInv, Approved
  <2>5. CASE t.by = Nobody
    <3>1. req' = req
      BY <1>7, <2>5 DEF Apply
    <3>2. TypeOK' /\ Batched'
      BY <1>2, <2>2, <3>1 DEF IInv, TypeOK, Batched, Ready, Uncommitted, dbVars
    <3>3. Learnt'
      BY <2>2, <3>1 DEF IInv, Learnt
    <3>4. Approved'
      BY <1>1, <2>4, <2>5, <3>1 DEF Approved
    <3>. QED
      BY <1>3, <2>2, <3>2, <3>3, <3>4 DEF IInv
  <2>6. CASE t.by # Nobody
    <3>. DEFINE r == t.by
                l == Answered[t.op]
    <3>1. req' = [req EXCEPT ![r].pc = l]
      BY <1>7, <2>6 DEF Apply, Goto
    <3>2. /\ l \in {"index", "settle", "mark"} /\ l \in Labels /\ l \in Holding
          /\ (l = "index" <=> t.op = "commit") /\ (l = "settle" <=> t.op = "approve")
          /\ (l = "mark" <=> t.op = "settle")
      BY <1>1 DEF Answered, Sending, Labels, Holding
    <3>. HIDE DEF l
    <3>3. /\ r \in Requests /\ req'[r].pc = l /\ req'[r].period = t.period /\ req'[r].batch = req[r].batch
          /\ \A s \in Requests \ {r} : req'[s] = req[s]
          /\ req' \in [Requests -> [pc : Labels, period : Periods \cup {NoPeriod}, batch : SUBSET DOMAIN events]]
      BY <1>4, <2>6, <3>1, <3>2, Relabelled DEF IInv, TypeOK
    <3>4. TypeOK'
      BY <1>2, <1>4, <2>2, <2>6, <3>2, <3>3 DEF IInv, TypeOK, dbVars
    <3>5. Batched'
      <4>1. l = "index" => req[r].pc = "committing"
        BY <1>4, <2>6, <3>2 DEF Waiting
      <4>. QED
        BY <1>2, <3>2, <3>3, <4>1 DEF IInv, Batched, Ready, Uncommitted, dbVars
    <3>6. Learnt'
      <4>1. ASSUME NEW s \in Requests \ {r}
            PROVE  /\ req[s].pc # "idle" => req[s].period \in Periods
                   /\ req[s].pc = "index" => req[s].period \in DOMAIN commits' /\ commits'[req[s].period] = req[s].batch
                   /\ req[s].pc \in {"approve", "approving", "settle", "settling"} => req[s].period \in DOMAIN commits'
                   /\ req[s].pc \in {"mark", "raced"} => req[s].period \in paid'
        BY <2>2 DEF IInv, Learnt
      <4>2. /\ l = "index" => t.period \in DOMAIN commits' /\ commits'[t.period] = req[r].batch
            /\ l = "settle" => t.period \in DOMAIN commits'
            /\ l = "mark" => t.period \in paid'
        BY <1>1, <1>4, <2>2, <2>3, <2>6, <3>2
      <4>. QED
        BY <1>1, <3>2, <3>3, <4>1, <4>2 DEF Learnt
    <3>7. Approved'
      <4>1. \A s \in Requests \ {r} : req'[s].pc \notin {"settle", "settling", "mark"}
        BY <2>4, <3>3
      <4>2. l = "settle" => allowance' <= Due(t.period)'
        <5>. SUFFICES ASSUME l = "settle" PROVE allowance' <= Due(t.period)'
          OBVIOUS
        <5>1. allowance' = Due(t.period) /\ t.period \in DOMAIN commits
          BY <1>1, <2>3, <3>2
        <5>2. Due(t.period)' = Due(t.period) /\ Due(t.period) \in 1..MaxEvents
          BY <1>2, <2>2, <5>1, DueType DEF IInv, Due
        <5>. QED
          BY <5>1, <5>2
      <4>3. l = "mark" => allowance' = 0
        <5>. SUFFICES ASSUME l = "mark" PROVE allowance' = 0
          OBVIOUS
        <5>1. /\ allowance' = allowance - Due(t.period) /\ allowance >= Due(t.period)
              /\ t.period \in DOMAIN commits
          BY <2>3, <3>2
        <5>2. allowance <= Due(t.period)
          BY <1>4, <2>6, <3>2 DEF IInv, Approved, Waiting
        <5>3. Due(t.period) \in 1..MaxEvents /\ allowance \in Nat
          BY <5>1, DueType DEF IInv, TypeOK
        <5>. QED
          BY <5>1, <5>2, <5>3
      <4>. QED
        BY <1>2, <3>2, <3>3, <4>1, <4>2, <4>3 DEF Approved, Due
    <3>. QED
      BY <1>3, <2>2, <3>4, <3>5, <3>6, <3>7 DEF IInv
  <2>. QED
    BY <2>5, <2>6
<1>. QED
  BY <1>5, <1>6, <1>7

LEMMA DropHolds ==
    ASSUME IInv, NEW t \in inflight, Drop(t)
    PROVE  IInv'
<1>1. inflight' = inflight \ {t} /\ UNCHANGED <<week, dbVars, chainVars, lock, req>>
  BY DEF Drop
<1>2. TypeOK' /\ Bounded' /\ Batched' /\ Learnt' /\ MirrorExact' /\ SettledIsPaid'
  BY <1>1 DEF IInv, TypeOK, Bounded, Batched, Ready, Learnt, MirrorExact, SettledIsPaid, Uncommitted, dbVars, chainVars
<1>3. Awaited' /\ Approved'
  BY <1>1 DEF IInv, Awaited, Approved, Due, dbVars, chainVars
<1>. QED
  BY <1>2, <1>3 DEF IInv

LEMMA ExpiryHolds ==
    ASSUME IInv, AllowanceExpires
    PROVE  IInv'
<1>1. allowance' = 0 /\ UNCHANGED <<week, dbVars, commits, paid, inflight, lock, req>>
  BY DEF AllowanceExpires
<1>2. TypeOK' /\ Bounded' /\ Batched' /\ Learnt' /\ MirrorExact' /\ SettledIsPaid' /\ Awaited'
  BY <1>1 DEF IInv, TypeOK, Bounded, Batched, Ready, Learnt, MirrorExact, SettledIsPaid, Awaited, Due, Uncommitted, dbVars
<1>3. Approved'
  <2>1. \A r \in Requests : req[r].pc \in {"settle", "settling"} => 0 <= Due(req[r].period)'
    <3>. SUFFICES ASSUME NEW r \in Requests, req[r].pc \in {"settle", "settling"}
                  PROVE  0 <= Due(req[r].period)'
      OBVIOUS
    <3>1. Due(req[r].period) \in 1..MaxEvents
      BY DueType DEF IInv, Learnt
    <3>. QED
      BY <1>1, <3>1 DEF Due
  <2>. QED
    BY <1>1, <2>1 DEF IInv, Approved
<1>. QED
  BY <1>2, <1>3 DEF IInv

LEMMA WeekHolds ==
    ASSUME IInv, NextWeek
    PROVE  IInv'
<1>1. week' \in 1..MaxWeek
  BY CloudAssumption DEF NextWeek, IInv, TypeOK
<1>. QED
  BY <1>1 DEF NextWeek, IInv, TypeOK, Bounded, Batched, Ready, Learnt, Awaited, Approved, MirrorExact, SettledIsPaid, Uncommitted, Due, dbVars, chainVars

\* An event recorded meanwhile is in no batch and under no period.
LEMMA RecordHolds ==
    ASSUME IInv, NEW order \in Orders \cup {NoRef}, Record(order)
    PROVE  IInv'
<1>. DEFINE e == [order |-> order, period |-> NoPeriod]
            n == Len(events)
<1>1. /\ events \in Seq([order : Orders \cup {NoRef}, period : Periods \cup {NoPeriod}])
      /\ n \in Nat /\ n < MaxEvents /\ events' = Append(events, e)
      /\ UNCHANGED <<week, tallies, chainVars, inflight, lock, req>>
  BY DEF Record, IInv, TypeOK
<1>2. /\ events' \in Seq([order : Orders \cup {NoRef}, period : Periods \cup {NoPeriod}])
      /\ Len(events') = n + 1 /\ events'[n + 1] = e
      /\ DOMAIN events = 1..n /\ DOMAIN events' = 1..n + 1
      /\ \A i \in 1..n : events'[i] = events[i]
  BY <1>1
<1>3. DOMAIN events \subseteq DOMAIN events'
  BY <1>1, <1>2
<1>4. TypeOK'
  <2>1. commits' \in [DOMAIN commits' -> (SUBSET DOMAIN events') \ {{}}]
    BY <1>1, <1>3 DEF IInv, TypeOK, chainVars
  <2>2. req' \in [Requests -> [pc : Labels, period : Periods \cup {NoPeriod}, batch : SUBSET DOMAIN events']]
    BY <1>1, <1>3 DEF IInv, TypeOK
  <2>. QED
    BY <1>1, <1>2, <2>1, <2>2 DEF IInv, TypeOK, chainVars
<1>5. Bounded'
  BY <1>1, <1>2, CloudAssumption DEF Bounded
<1>6. Uncommitted \subseteq Uncommitted'
  BY <1>2, <1>3 DEF Uncommitted
<1>7. Batched'
  <2>1. \A i \in DOMAIN events, j \in Uncommitted' : j < i => j \in Uncommitted
    BY <1>2 DEF Uncommitted
  <2>2. Uncommitted \subseteq DOMAIN events
    BY DEF Uncommitted
  <2>. QED
    BY <1>1, <1>6, <2>1, <2>2 DEF IInv, Batched, Ready
<1>8. Learnt' /\ Approved' /\ SettledIsPaid'
  BY <1>1 DEF IInv, Learnt, Approved, SettledIsPaid, Due, chainVars
<1>9. Awaited'
  BY <1>1, <1>3 DEF IInv, Awaited, Due, chainVars
<1>10. MirrorExact'
  <2>1. ASSUME NEW p \in DOMAIN tallies
        PROVE  commits[p] = {i \in DOMAIN events' : events'[i].period = p}
    <3>1. p # NoPeriod
      BY CloudAssumption DEF IInv, TypeOK
    <3>2. commits[p] = {i \in DOMAIN events : events[i].period = p}
      BY DEF IInv, MirrorExact
    <3>. QED
      BY <1>1, <1>2, <3>1, <3>2
  <2>2. \A i \in DOMAIN events' : events'[i].period \in DOMAIN tallies \cup {NoPeriod}
    BY <1>1, <1>2 DEF IInv, MirrorExact
  <2>. QED
    BY <1>1, <2>1, <2>2 DEF IInv, MirrorExact, chainVars
<1>. QED
  BY <1>4, <1>5, <1>7, <1>8, <1>9, <1>10 DEF IInv

\* The rows the UPDATE touches are the batch that was anchored: all of it is
\* open and below its highest id, and the count leaves no room for another.
LEMMA TouchedIsBatch ==
    ASSUME IInv, NEW r \in Requests, req[r].pc = "index", UpdatedExactly(r)
    PROVE  Touched(r) = req[r].batch
<1>. DEFINE B == req[r].batch
<1>1. B # {} /\ B \subseteq Uncommitted /\ Uncommitted \in SUBSET DOMAIN events
  BY DEF IInv, Batched, Ready, Uncommitted
<1>2. B \subseteq 1..MaxEvents /\ MaxEvents \in Nat
  BY <1>1, EventSets, CloudAssumption DEF IInv
<1>3. \A i \in B : i <= Highest(B)
  BY <1>1, <1>2, HighestExists
<1>4. B \in SUBSET Touched(r) /\ Touched(r) \in SUBSET DOMAIN events
  BY <1>1, <1>3 DEF Touched
<1>5. IsFiniteSet(Touched(r))
  BY <1>4, EventSets DEF IInv
<1>. QED
  BY <1>4, <1>5, FS_Subset DEF UpdatedExactly

LEMMA IndexHolds ==
    ASSUME IInv, NEW r \in Requests, Index(r)
    PROVE  IInv'
<1>. DEFINE p == req[r].period
            B == req[r].batch
            Reqs == [pc : Labels, period : Periods \cup {NoPeriod}, batch : SUBSET DOMAIN events]
<1>1. /\ req[r].pc = "index" /\ p \notin DOMAIN tallies /\ Touched(r) = B
      /\ tallies' = [q \in DOMAIN tallies \cup {p} |-> q \in DOMAIN tallies /\ tallies[q]]
      /\ events' = [i \in DOMAIN events |-> IF i \in B THEN [events[i] EXCEPT !.period = p] ELSE events[i]]
      /\ UNCHANGED <<week, chainVars>> /\ Return(r)
  BY TouchedIsBatch DEF Index
<1>2. /\ p \in Periods /\ p \in DOMAIN commits /\ commits[p] = B
      /\ B # {} /\ B \subseteq Uncommitted /\ p # NoPeriod
  BY <1>1, CloudAssumption DEF IInv, Learnt, Batched, Ready
<1>3. /\ events \in Seq([order : Orders \cup {NoRef}, period : Periods \cup {NoPeriod}])
      /\ DOMAIN events = 1..Len(events) /\ Len(events) \in Nat
  BY DEF IInv, TypeOK
<1>4. /\ events' \in Seq([order : Orders \cup {NoRef}, period : Periods \cup {NoPeriod}])
      /\ DOMAIN events' = DOMAIN events /\ Len(events') = Len(events)
      /\ \A i \in DOMAIN events : events'[i].period = IF i \in B THEN p ELSE events[i].period
  <2>1. ASSUME NEW i \in DOMAIN events
        PROVE  events[i] \in [order : Orders \cup {NoRef}, period : Periods \cup {NoPeriod}]
    <3>. DEFINE E == [order : Orders \cup {NoRef}, period : Periods \cup {NoPeriod}]
    <3>1. events \in Seq(E)
      BY <1>3
    <3>. HIDE DEF E
    <3>2. events[i] \in E
      BY <1>3, <3>1
    <3>. QED
      BY <3>2 DEF E
  <2>2. \A i \in DOMAIN events :
           /\ events'[i] \in [order : Orders \cup {NoRef}, period : Periods \cup {NoPeriod}]
           /\ events'[i].period = IF i \in B THEN p ELSE events[i].period
    BY <1>1, <1>2, <2>1
  <2>3. DOMAIN events' = 1..Len(events)
    BY <1>1, <1>3
  <2>4. events' \in [1..Len(events) -> [order : Orders \cup {NoRef}, period : Periods \cup {NoPeriod}]]
    BY <1>1, <1>3, <2>2
  <2>. QED
    BY <1>3, <2>2, <2>3, <2>4
\* The database before and after the return; the return itself is as elsewhere.
<1>5. MirrorExact'
  <2>1. /\ DOMAIN tallies \subseteq DOMAIN commits
        /\ \A q \in DOMAIN tallies : commits[q] = {i \in DOMAIN events : events[i].period = q}
        /\ \A i \in DOMAIN events : events[i].period \in DOMAIN tallies \cup {NoPeriod}
        /\ DOMAIN tallies \subseteq Periods
    BY DEF IInv, MirrorExact, TypeOK
  <2>2. DOMAIN tallies' = DOMAIN tallies \cup {p} /\ commits' = commits
    BY <1>1 DEF chainVars
  <2>3. \A i \in B : i \in DOMAIN events /\ events[i].period = NoPeriod
    BY <1>2 DEF Uncommitted
  <2>4. B = {i \in DOMAIN events : events'[i].period = p}
    BY <1>1, <1>2, <1>4, <2>1, <2>3
  <2>5. ASSUME NEW q \in DOMAIN tallies
        PROVE  commits[q] = {i \in DOMAIN events : events'[i].period = q}
    <3>1. q # p /\ q # NoPeriod
      BY <1>1, <2>1, CloudAssumption
    <3>. QED
      BY <1>4, <2>1, <2>3, <3>1
  <2>6. \A i \in DOMAIN events : events'[i].period \in DOMAIN tallies' \cup {NoPeriod}
    BY <1>4, <2>1, <2>2
  <2>. QED
    BY <1>2, <1>4, <2>1, <2>2, <2>4, <2>5, <2>6 DEF MirrorExact
<1>6. SettledIsPaid'
  BY <1>1 DEF IInv, SettledIsPaid, chainVars
<1>7. /\ req'[r] = Idle /\ \A s \in Requests \ {r} : req'[s] = req[s]
      /\ Idle.pc = "idle" /\ req' \in [Requests -> Reqs]
  BY <1>1 DEF IInv, TypeOK, Return, Idle, Labels
<1>8. \A s \in Requests \ {r} : req[s].pc \notin Holding
  BY <1>1, OneHolder DEF IInv, Holding
\* Nothing under way is waited for by r, and no other request holds the mutex.
<1>9. inflight' = inflight /\ \A t \in inflight : t.by # r
  <2>1. \A t \in inflight : t.by # r
    <3>. SUFFICES ASSUME NEW t \in inflight, t.by = r PROVE FALSE
      OBVIOUS
    <3>1. t.op \in Sending
      BY DEF IInv, TypeOK, TransactionType, Sending
    <3>2. Waiting[t.op] # "index"
      BY <3>1 DEF Waiting, Sending
    <3>3. req[r].pc = Waiting[t.op]
      BY CloudAssumption DEF IInv, Awaited
    <3>. QED
      BY <1>1, <3>2, <3>3
  <2>. QED
    BY <1>1, <2>1 DEF Return, Abandoned, Forget
<1>10. TypeOK'
  <2>1. \A s \in Requests : req'[s].pc \in Holding <=> lock' = s
    BY <1>1, <1>7, <1>8, CloudAssumption DEF Return, IInv, TypeOK, Holding, Sending, Waiting
  <2>2. DOMAIN tallies' \subseteq Periods /\ tallies' \in [DOMAIN tallies' -> BOOLEAN]
    BY <1>1, <1>2 DEF IInv, TypeOK
  <2>. QED
    BY <1>1, <1>4, <1>7, <1>9, <2>1, <2>2 DEF IInv, TypeOK, chainVars
<1>11. Bounded' /\ Batched'
  BY <1>4, <1>7, <1>8 DEF IInv, Bounded, Batched, Ready, Holding, Sending, Waiting
<1>12. Learnt'
  BY <1>1, <1>7 DEF IInv, Learnt, chainVars
<1>13. Awaited'
  <2>1. \A t \in inflight : t.by # Nobody => t.by \in Requests \ {r}
    BY <1>9 DEF IInv, TypeOK, TransactionType
  <2>. QED
    BY <1>1, <1>4, <1>7, <1>9, <2>1 DEF IInv, Awaited, Due, chainVars
<1>14. Approved'
  BY <1>1, <1>7, <1>9 DEF IInv, Approved, Due, chainVars
<1>. QED
  BY <1>5, <1>6, <1>10, <1>11, <1>12, <1>13, <1>14 DEF IInv

LEMMA HandleHolds ==
    ASSUME IInv, NEW r \in Requests, Handle(r)
    PROVE  IInv'
BY SelectHolds, SendHolds, IndexHolds, CheckHolds, MarkHolds, FailHolds DEF Handle

LEMMA StepHolds == IInv /\ [Next]_vars => IInv'
<1>. SUFFICES ASSUME IInv, [Next]_vars PROVE IInv'
  OBVIOUS
<1>1. CASE NextWeek
  BY <1>1, WeekHolds
<1>2. ASSUME NEW order \in Orders \cup {NoRef}, Record(order) PROVE IInv'
  BY <1>2, RecordHolds
<1>3. ASSUME NEW r \in Requests, NEW p \in Explicit \cup {NextPeriod}, AskCommit(r, p) PROVE IInv'
  BY <1>3, AskHolds DEF AskCommit
<1>4. ASSUME NEW r \in Requests, NEW p \in Periods, AskSettle(r, p) PROVE IInv'
  BY <1>4, AskHolds
<1>5. ASSUME NEW r \in Requests, Acquire(r) \/ Handle(r) \/ Fail(r) PROVE IInv'
  BY <1>5, AcquireHolds, HandleHolds, FailHolds
<1>6. ASSUME NEW t \in inflight, Apply(t) \/ Drop(t) PROVE IInv'
  BY <1>6, ApplyHolds, DropHolds
<1>7. ASSUME NEW p \in Periods, Keeper(p) PROVE IInv'
  BY <1>7, KeeperHolds
<1>8. CASE AllowanceExpires
  BY <1>8, ExpiryHolds
<1>9. CASE UNCHANGED vars
  BY <1>9 DEF vars, IInv, TypeOK, Bounded, Batched, Ready, Learnt, Awaited, Approved, MirrorExact, SettledIsPaid, Uncommitted, Due, dbVars, chainVars
<1>. QED
  BY <1>1, <1>2, <1>3, <1>4, <1>5, <1>6, <1>7, <1>8, <1>9 DEF Next

\* Two listed batches are apart since an event has one period; a batch about to
\* be listed is still open; and only one can be, since its request holds the
\* mutex.
LEMMA IInvAnchors == IInv => AnchoredOnce
<1>. SUFFICES ASSUME IInv, NEW p \in DOMAIN commits, NEW q \in DOMAIN commits,
                     p # q, Tracked(p), Tracked(q)
              PROVE  commits[p] \cap commits[q] = {}
  BY DEF AnchoredOnce
<1>1. ASSUME NEW a \in DOMAIN tallies
      PROVE  commits[a] = {i \in DOMAIN events : events[i].period = a} /\ a # NoPeriod
  BY CloudAssumption DEF IInv, MirrorExact, TypeOK
<1>2. ASSUME NEW r \in Requests, req[r].pc = "index"
      PROVE  commits[req[r].period] \subseteq Uncommitted
  BY <1>2 DEF IInv, Learnt, Batched, Ready
<1>3. CASE p \in DOMAIN tallies /\ q \in DOMAIN tallies
  BY <1>1, <1>3
<1>4. CASE p \in DOMAIN tallies /\ q \notin DOMAIN tallies
  BY <1>1, <1>2, <1>4 DEF Tracked, Uncommitted
<1>5. CASE p \notin DOMAIN tallies /\ q \in DOMAIN tallies
  BY <1>1, <1>2, <1>5 DEF Tracked, Uncommitted
<1>6. CASE p \notin DOMAIN tallies /\ q \notin DOMAIN tallies
  <2>1. PICK r \in Requests : req[r].pc = "index" /\ req[r].period = p
    BY <1>6 DEF Tracked
  <2>2. PICK s \in Requests : req[s].pc = "index" /\ req[s].period = q
    BY <1>6 DEF Tracked
  <2>3. r = s
    BY <2>1, <2>2, OneHolder DEF IInv, Holding
  <2>. QED
    BY <2>1, <2>2, <2>3
<1>. QED
  BY <1>3, <1>4, <1>5, <1>6

-----------------------------------------------------------------------------
\* Rows, commitments, transactions and requests keep their types, and whatever
\* fails, is lost or arrives late, one request is in the critical section.
THEOREM TypeCorrect == Spec => []TypeOK
<1>1. IInv => TypeOK
  BY DEF IInv
<1>. QED
  BY InitHolds, StepHolds, <1>1, PTL DEF Spec

\* For any number of requests, events, batches and weeks, every tally listed by
\* the database holds exactly the events under its root on the chain.
THEOREM MirrorSafe == Spec => []MirrorExact
<1>1. IInv => MirrorExact
  BY DEF IInv
<1>. QED
  BY InitHolds, StepHolds, <1>1, PTL DEF Spec

\* The mutex, taken before the batch is selected, keeps concurrent commits for
\* different periods from anchoring the same rows twice.
THEOREM AnchoredSafe == Spec => []AnchoredOnce
<1>. QED
  BY InitHolds, StepHolds, IInvAnchors, PTL DEF Spec

\* A row is marked as settled only after the chain has paid its period.
THEOREM SettledSafe == Spec => []SettledIsPaid
<1>1. IInv => SettledIsPaid
  BY DEF IInv
<1>. QED
  BY InitHolds, StepHolds, <1>1, PTL DEF Spec

\* No answered settlement leaves an approval behind: late transactions of
\* requests that gave up, keepers and expiries included.
THEOREM AuthoritySpent == Spec => []NoStandingAuthority
<1>1. IInv => NoStandingAuthority
  BY DEF IInv, Approved, NoStandingAuthority
<1>. QED
  BY InitHolds, StepHolds, <1>1, PTL DEF Spec

-----------------------------------------------------------------------------
\* The database as a book of receipts: orders, the period each is closed in, and
\* the periods noted as paid.
Orderings == [i \in DOMAIN events |-> events[i].order]
Closings == [i \in DOMAIN events |-> events[i].period]
Noted == {p \in DOMAIN tallies : tallies[p]}

LEMMA BookUnchanged == UNCHANGED dbVars => UNCHANGED Book!vars
BY DEF dbVars, Book!vars

LEMMA BookStarts == Init => Book!Init
<1>. SUFFICES ASSUME Init PROVE Book!Init
  OBVIOUS
<1>1. DOMAIN events = {} /\ DOMAIN tallies = {}
  BY DEF Init
<1>2. Orderings = <<>> /\ Closings = <<>>
  BY <1>1 DEF Orderings, Closings
<1>. QED
  BY <1>1, <1>2 DEF Book!Init, Orderings, Closings

\* A sequence with one more element, as a function.
LEMMA Longer ==
    ASSUME NEW S, NEW s \in Seq(S), NEW x \in S
    PROVE  Append(s, x) = [i \in 1..Len(s) + 1 |-> IF i = Len(s) + 1 THEN x ELSE s[i]]
<1>1. /\ Append(s, x) \in Seq(S) /\ Len(Append(s, x)) = Len(s) + 1 /\ Len(s) \in Nat
      /\ \A i \in 1..Len(s) : Append(s, x)[i] = s[i]
      /\ Append(s, x)[Len(s) + 1] = x
  OBVIOUS
<1>2. Append(s, x) = [i \in 1..Len(s) + 1 |-> Append(s, x)[i]]
  <2>1. Append(s, x) \in [1..Len(s) + 1 -> S]
    BY <1>1, LenProperties
  <2>. QED
    BY <2>1
<1>3. \A i \in 1..Len(s) + 1 : Append(s, x)[i] = IF i = Len(s) + 1 THEN x ELSE s[i]
  BY <1>1
<1>. QED
  BY <1>2, <1>3

LEMMA BookRecords ==
    ASSUME IInv, NEW order \in Orders \cup {NoRef}, Record(order)
    PROVE  Book!Record(order)
<1>. DEFINE e == [order |-> order, period |-> NoPeriod]
            n == Len(events)
<1>1. /\ events \in Seq([order : Orders \cup {NoRef}, period : Periods \cup {NoPeriod}])
      /\ n \in Nat /\ events' = Append(events, e) /\ tallies' = tallies
  BY DEF Record, IInv, TypeOK
<1>2. /\ events'[n + 1] = e /\ DOMAIN events = 1..n /\ DOMAIN events' = 1..n + 1
      /\ \A i \in 1..n : events'[i] = events[i]
  BY <1>1
<1>3. /\ Orderings \in Seq(Orders \cup {NoRef}) /\ Len(Orderings) = n
      /\ Closings \in Seq(Periods \cup {NoPeriod}) /\ Len(Closings) = n
  <2>1. ASSUME NEW i \in 1..n
        PROVE  events[i].order \in Orders \cup {NoRef} /\ events[i].period \in Periods \cup {NoPeriod}
    <3>1. events[i] \in [order : Orders \cup {NoRef}, period : Periods \cup {NoPeriod}]
      BY <1>1, <1>2, ElementOfSeq
    <3>. QED
      BY <3>1
  <2>2. /\ Orderings \in [1..n -> Orders \cup {NoRef}]
        /\ Closings \in [1..n -> Periods \cup {NoPeriod}]
    BY <1>2, <2>1 DEF Orderings, Closings
  <2>. QED
    BY <1>1, <2>2, SMTT(30)
<1>4. Orderings' = Append(Orderings, order)
  <2>1. Orderings' = [i \in 1..n + 1 |-> events'[i].order]
    BY <1>2 DEF Orderings
  <2>2. Append(Orderings, order) = [i \in 1..n + 1 |-> IF i = n + 1 THEN order ELSE Orderings[i]]
    BY <1>3, Longer
  <2>3. \A i \in 1..n + 1 : events'[i].order = IF i = n + 1 THEN order ELSE Orderings[i]
    BY <1>1, <1>2 DEF Orderings
  <2>. QED
    BY <2>1, <2>2, <2>3
<1>5. Closings' = Append(Closings, NoPeriod)
  <2>1. Closings' = [i \in 1..n + 1 |-> events'[i].period]
    BY <1>2 DEF Closings
  <2>2. Append(Closings, NoPeriod) = [i \in 1..n + 1 |-> IF i = n + 1 THEN NoPeriod ELSE Closings[i]]
    BY <1>3, Longer
  <2>3. \A i \in 1..n + 1 : events'[i].period = IF i = n + 1 THEN NoPeriod ELSE Closings[i]
    BY <1>1, <1>2 DEF Closings
  <2>. QED
    BY <2>1, <2>2, <2>3
<1>6. order = NoRef \/ \A i \in DOMAIN Orderings : Orderings[i] # order
  BY DEF Record, FreshOrder, Orderings
<1>. QED
  BY <1>1, <1>4, <1>5, <1>6 DEF Book!Record, Orderings, Closings

\* The indexed batch is what closing as many of the oldest open entries closes.
\* The book counts as its reader does.
LEMMA SameSize == \A S : Book!Cardinality(S) = Cardinality(S)
BY Zenon DEF Book!Cardinality, Cardinality

LEMMA BookCloses ==
    ASSUME IInv, NEW r \in Requests, Index(r)
    PROVE  \E period \in Periods, size \in 1..Limit : Book!Close(period, size)
<1>. DEFINE B == req[r].batch
<1>. PICK p, size : p = req[r].period /\ size = Cardinality(B)
  OBVIOUS
<1>. DEFINE Older(i) == Book!Older(i)
            closing == {i \in DOMAIN Closings : Closings[i] = NoPeriod /\ Cardinality(Older(i)) < size}
<1>1. /\ req[r].pc = "index" /\ p \notin DOMAIN tallies /\ Touched(r) = B
      /\ tallies' = [q \in DOMAIN tallies \cup {p} |-> q \in DOMAIN tallies /\ tallies[q]]
      /\ events' = [i \in DOMAIN events |-> IF i \in B THEN [events[i] EXCEPT !.period = p] ELSE events[i]]
  BY TouchedIsBatch DEF Index
<1>2. p \in Periods /\ Ready(B) /\ B \subseteq Uncommitted /\ p # NoPeriod
  BY <1>1, CloudAssumption DEF IInv, Learnt, Batched, Ready
<1>3. Uncommitted = {i \in DOMAIN Closings : Closings[i] = NoPeriod} /\ Uncommitted \in SUBSET DOMAIN events
  BY DEF Uncommitted, Closings
<1>4. \A S \in SUBSET Uncommitted :
         S \subseteq 1..MaxEvents /\ IsFiniteSet(S) /\ Cardinality(S) \in 0..MaxEvents /\ (S # {} => Cardinality(S) > 0)
  BY <1>3, EventSets DEF IInv
<1>5. size \in 1..Limit
  BY <1>2, <1>4, CloudAssumption DEF Ready
<1>6. \A i : Older(i) = {j \in Uncommitted : j < i} /\ Older(i) \in SUBSET Uncommitted
  BY <1>3 DEF Book!Older, Closings
<1>. HIDE DEF Older
<1>7. ASSUME NEW i \in B PROVE Cardinality(Older(i)) < size
  <2>1. Older(i) \in SUBSET B /\ i \notin Older(i)
    <3>1. \A j \in Uncommitted : j < i => j \in B
      BY <1>2 DEF Ready
    <3>2. i \in 1..MaxEvents
      BY <1>2, <1>4
    <3>. QED
      BY <1>6, <3>1, <3>2
  <2>2. Older(i) # B
    BY <2>1
  <2>3. Cardinality(Older(i)) <= size /\ Cardinality(Older(i)) # size
    BY <1>2, <1>4, <2>1, <2>2, FS_Subset
  <2>4. Cardinality(Older(i)) \in Nat /\ size \in Nat
    BY <1>2, <1>4, <1>6, <2>1
  <2>. QED
    BY <2>3, <2>4
<1>8. ASSUME NEW i \in Uncommitted \ B PROVE ~(Cardinality(Older(i)) < size)
  <2>1. B \in SUBSET Older(i)
    <3>1. \A j \in B : ~(i < j)
      BY <1>2 DEF Ready
    <3>2. Uncommitted \subseteq 1..MaxEvents
      BY <1>4
    <3>3. ASSUME NEW j \in B PROVE j < i
      <4>1. i \in 1..MaxEvents /\ j \in 1..MaxEvents /\ i # j
        BY <1>2, <3>2
      <4>. QED
        BY <3>1, <4>1
    <3>. QED
      BY <1>2, <1>6, <3>3
  <2>2. IsFiniteSet(Older(i)) /\ Cardinality(Older(i)) \in Nat
    BY <1>4, <1>6
  <2>3. size <= Cardinality(Older(i))
    BY <2>1, <2>2, FS_Subset
  <2>. QED
    BY <1>5, <2>2, <2>3
<1>9. closing = B
  BY <1>2, <1>3, <1>7, <1>8
<1>. HIDE DEF closing
<1>10. DOMAIN events' = DOMAIN events
  BY <1>1
<1>11. ASSUME NEW i \in DOMAIN events
       PROVE  /\ events'[i].order = events[i].order
              /\ events'[i].period = IF i \in B THEN p ELSE events[i].period
  <2>. DEFINE E == [order : Orders \cup {NoRef}, period : Periods \cup {NoPeriod}]
  <2>1. events \in Seq(E)
    BY DEF IInv, TypeOK
  <2>. HIDE DEF E
  <2>2. events[i] \in E
    BY <2>1
  <2>. QED
    BY <1>1, <2>2 DEF E
<1>12. Orderings' = Orderings
  BY <1>10, <1>11 DEF Orderings
<1>13. Closings' = [i \in DOMAIN Closings |-> IF i \in closing THEN p ELSE Closings[i]]
  BY <1>9, <1>10, <1>11 DEF Closings
<1>14. Noted' = Noted
  BY <1>1 DEF Noted
<1>15. p \notin {Closings[i] : i \in DOMAIN Closings} \ {NoPeriod}
  BY <1>1, <1>2 DEF IInv, MirrorExact, Closings
<1>16. Book!Close(p, size)
  <2>1. closing = {i \in DOMAIN Closings : Closings[i] = NoPeriod /\ Cardinality(Book!Older(i)) < size}
    BY DEF closing, Older
  <2>2. Cardinality(closing) = size
    BY <1>9
  <2>3. Book!Closed = {Closings[i] : i \in DOMAIN Closings} \ {NoPeriod}
    BY DEF Book!Closed, Closings
  <2>. QED
    BY <1>12, <1>13, <1>14, <1>15, <2>1, <2>2, <2>3, SameSize DEF Book!Close, Orderings, Closings, Noted
<1>. QED
  BY <1>2, <1>5, <1>16

\* A mark notes a listed period as paid, or changes nothing.
LEMMA BookNotes ==
    ASSUME IInv, NEW r \in Requests, Mark(r)
    PROVE  UNCHANGED Book!vars \/ \E period \in Periods : Book!NotePaid(period)
<1>. PICK p : p = req[r].period
  OBVIOUS
<1>1. /\ events' = events /\ tallies' = [q \in DOMAIN tallies |-> tallies[q] \/ q = p]
      /\ tallies \in [DOMAIN tallies -> BOOLEAN]
  BY DEF Mark, IInv, TypeOK
<1>2. CASE p \in DOMAIN tallies /\ ~tallies[p]
  <2>1. p \in Periods /\ p # NoPeriod
    BY <1>2, CloudAssumption DEF IInv, TypeOK
  <2>2. PICK i \in DOMAIN events : events[i].period = p
    <3>1. commits[p] = {i \in DOMAIN events : events[i].period = p} /\ commits[p] # {}
      BY <1>2 DEF IInv, TypeOK, MirrorExact
    <3>. QED
      BY <3>1
  <2>3. p \in {Closings[j] : j \in DOMAIN Closings} \ {NoPeriod}
    BY <2>1, <2>2 DEF Closings
  <2>4. p \notin Noted /\ Noted' = Noted \cup {p}
    BY <1>1, <1>2 DEF Noted
  <2>5. Book!NotePaid(p)
    BY <1>1, <2>3, <2>4 DEF Book!NotePaid, Book!Closed, Closings, Noted
  <2>6. \E period \in Periods : Book!NotePaid(period)
    BY <2>1, <2>5
  <2>. QED
    BY <2>6
<1>3. CASE ~(p \in DOMAIN tallies /\ ~tallies[p])
  <2>1. tallies' = tallies
    BY <1>1, <1>3
  <2>. QED
    BY <1>1, <2>1, BookUnchanged DEF dbVars
<1>. QED
  BY <1>2, <1>3

LEMMA BookStep == IInv /\ [Next]_vars => [Book!Next]_Book!vars
<1>. SUFFICES ASSUME IInv, [Next]_vars PROVE [Book!Next]_Book!vars
  OBVIOUS
<1>1. ASSUME NEW order \in Orders \cup {NoRef}, Record(order) PROVE Book!Next
  BY <1>1, BookRecords DEF Book!Next
<1>2. ASSUME NEW r \in Requests, Index(r) PROVE Book!Next
  BY <1>2, BookCloses DEF Book!Next
<1>3. ASSUME NEW r \in Requests, Mark(r) PROVE [Book!Next]_Book!vars
  BY <1>3, BookNotes DEF Book!Next
<1>4. ASSUME NEW r \in Requests, SelectBatch(r) \/ Send(r) \/ Check(r) \/ Fail(r) \/ Acquire(r)
      PROVE  UNCHANGED dbVars
  BY <1>4 DEF SelectBatch, Send, Check, Fail, Acquire
<1>5. ASSUME NEW r \in Requests, Handle(r) PROVE [Book!Next]_Book!vars
  BY <1>2, <1>3, <1>4, <1>5, BookUnchanged DEF Handle
<1>6. ASSUME NEW r \in Requests, NEW p \in Explicit \cup {NextPeriod} \cup Periods, AskCommit(r, p) \/ AskSettle(r, p)
      PROVE  UNCHANGED dbVars
  BY <1>6 DEF AskCommit, AskSettle
<1>7. ASSUME NEW t \in inflight, Apply(t) \/ Drop(t) PROVE UNCHANGED dbVars
  BY <1>7 DEF Apply, Drop
<1>8. ASSUME NEW p \in Periods, Keeper(p) PROVE UNCHANGED dbVars
  BY <1>8 DEF Keeper
<1>9. NextWeek \/ AllowanceExpires \/ UNCHANGED vars => UNCHANGED dbVars
  BY DEF NextWeek, AllowanceExpires, vars, dbVars
<1>. QED
  BY <1>1, <1>4, <1>5, <1>6, <1>7, <1>8, <1>9, BookUnchanged DEF Next

\* What a reader of the database sees is a book of receipts: whole batches of
\* the oldest open events are closed under new periods, orders counted once, and
\* payments noted once, whatever handlers, keepers and failures do.
THEOREM Refines == Spec => ImplementsReceiptBook
<1>. QED
  BY InitHolds, StepHolds, BookStarts, BookStep, PTL DEF Spec, ImplementsReceiptBook, Book!Spec
=============================================================================
