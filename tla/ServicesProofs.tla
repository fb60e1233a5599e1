--------------------------- MODULE ServicesProofs ---------------------------
(***************************************************************************)
(* Proofs about idempotency keys, metering, the deliveries of webhooks, the *)
(* locks and what MCServices says of all the parts, for any bounds: a      *)
(* key's request runs once between sweeps, no credit is lost, an attempt   *)
(* is counted once, what ended stays, and no requests wait for one another. *)
(***************************************************************************)
EXTENDS MCServices, SetLemmas, SequenceTheorems, TLAPS

-----------------------------------------------------------------------------
\* Idempotency keys.

Types ==
    /\ row \in [Keys -> Row] /\ req \in [Requests -> Req]
    /\ applied \subseteq Requests /\ gen \in [Keys -> Nat]

Filled == \A k \in Keys : row[k].at = "done" <=> row[k].answer # NoOne

\* The request reserved its key.
Began(q) == q.at \notin {"new", "refused", "replayed"}

\* A reservation belongs to a past sweep, or its row is still there.
Anchored ==
    \A r \in Requests : Began(req[r]) =>
        /\ req[r].gen <= gen[req[r].key]
        /\ req[r].gen = gen[req[r].key] => row[req[r].key].at # "none"

\* Between two sweeps of a key one request reserves it.
Alone ==
    \A r, s \in Requests :
        Began(req[r]) /\ Began(req[s]) /\ req[r].key = req[s].key /\ req[r].gen = req[s].gen => r = s

Ran == \A r \in applied : Began(req[r])

\* A request whose handler ended.
Ended(q) == q.at \notin {"new", "running", "refused", "replayed"}

\* A request goes on: it is past what it was past, and carries what it carried.
Onward(q, p) ==
    /\ Began(p) <=> Began(q)
    /\ Ended(q) => Ended(p)
    /\ p.key = q.key /\ p.body = q.body /\ p.gen = q.gen

\* The answer of a row is that of a request with its key and body.
RowsMatch ==
    \A k \in Keys : row[k].answer # NoOne =>
        LET s == row[k].answer
        IN req[s].key = k /\ req[s].body = row[k].body /\ Ended(req[s])

\* OncePerKey alone is not inductive: it needs that a free key has no request
\* of the present sweep.
IInv == Types /\ Filled /\ Anchored /\ Alone /\ Ran /\ RowsMatch /\ AnswersMatch

-----------------------------------------------------------------------------
LEMMA InitHolds == Init => IInv
<1>. SUFFICES ASSUME Init PROVE IInv
  OBVIOUS
<1>1. \A r \in Requests : req[r].at = "new" /\ req[r].answer = NoOne /\ req[r] \in Req
  BY DEF Init, Req, Stages
<1>2. Types /\ Filled /\ RowsMatch
  BY <1>1 DEF Init, Types, Filled, RowsMatch, Row, NoRow
<1>3. Anchored /\ Alone /\ Ran /\ AnswersMatch
  BY <1>1 DEF Init, Anchored, Alone, Ran, AnswersMatch, Began
<1>. QED
  BY <1>2, <1>3 DEF IInv

LEMMA ReserveHolds ==
    ASSUME IInv, NEW r \in Requests, Reserve(r)
    PROVE  IInv'
<1>. DEFINE k == req[r].key
<1>1. /\ k \in Keys /\ row[k].at = "none" /\ row[k].answer = NoOne
      /\ req[r] \in Req /\ req[r].at = "new" /\ gen[k] \in Nat
  BY DEF IInv, Types, Filled, Reserve, Free, Req, Row
<1>2. /\ req' = [req EXCEPT ![r] = [req[r] EXCEPT !.at = "running", !.gen = gen[k]]]
      /\ row' = [row EXCEPT ![k] = Reserved(req[r])]
      /\ applied' = applied /\ gen' = gen
  BY <1>1 DEF IInv, Types, Reserve, Req
<1>3. /\ req'[r].at = "running" /\ req'[r].gen = gen[k] /\ req'[r].key = k
      /\ req'[r].body = req[r].body /\ req'[r].answer = req[r].answer
      /\ \A s \in Requests \ {r} : req'[s] = req[s]
  BY <1>1, <1>2 DEF IInv, Types, Req
<1>4. Types' /\ Filled'
  BY <1>1, <1>2, <1>3, IdempotencyAssumption DEF IInv, Types, Filled, Req, Row, Reserved, Stages
<1>5. \A s \in Requests : Began(req[s]) /\ req[s].key = k => req[s].gen < gen[k]
  BY <1>1, SMTT(30) DEF IInv, Types, Anchored, Req
<1>6. Anchored'
  BY <1>1, <1>2, <1>3 DEF IInv, Types, Anchored, Began, Reserved, Req, Row
<1>7. Alone'
  BY <1>1, <1>2, <1>3, <1>5 DEF IInv, Types, Alone, Began, Req
<1>8. Ran'
  BY <1>1, <1>2, <1>3 DEF IInv, Types, Ran, Began
<1>9. RowsMatch'
  <2>. SUFFICES ASSUME NEW j \in Keys, row'[j].answer # NoOne
                PROVE  /\ req'[row'[j].answer].key = j /\ req'[row'[j].answer].body = row'[j].body
                       /\ Ended(req'[row'[j].answer])
    BY DEF RowsMatch, Ended
  <2>1. j # k /\ row'[j] = row[j]
    BY <1>1, <1>2 DEF Reserved, IInv, Types
  <2>2. row[j].answer \in Requests /\ row[j].answer # r
    BY <1>1, <2>1 DEF IInv, Types, RowsMatch, Ended, Row
  <2>. QED
    BY <2>1, <2>2, <1>3 DEF IInv, RowsMatch, Ended
<1>10. AnswersMatch'
  <2>. SUFFICES ASSUME NEW s \in Requests, req'[s].answer # NoOne
                PROVE  LET t == req'[s].answer
                       IN /\ req'[t].key = req'[s].key /\ req'[t].body = req'[s].body
                          /\ req'[t].at \notin {"new", "running", "refused", "replayed"}
    BY DEF AnswersMatch
  <2>1. req'[s].answer = req[s].answer /\ req'[s].key = req[s].key /\ req'[s].body = req[s].body
    BY <1>3
  <2>2. req[s].answer \in Requests /\ req[s].answer # r
    BY <1>1, <2>1 DEF IInv, Types, AnswersMatch, Req
  <2>. QED
    BY <2>1, <2>2, <1>3 DEF IInv, AnswersMatch
<1>. QED
  BY <1>4, <1>6, <1>7, <1>8, <1>9, <1>10 DEF IInv

\* A step that ends a request nobody's answer is from, and leaves the rest.
LEMMA TurnedAway ==
    ASSUME IInv, NEW r \in Requests, NEW a \in {"refused", "replayed"}, NEW s \in Requests \cup {NoOne},
           req[r].at = "new", UNCHANGED <<row, applied, gen>>,
           req' = [req EXCEPT ![r].at = a, ![r].answer = s],
           s # NoOne => req[s].key = req[r].key /\ req[s].body = req[r].body /\ Ended(req[s])
    PROVE  IInv'
<1>1. /\ req'[r].at = a /\ req'[r].gen = req[r].gen /\ req'[r].key = req[r].key
      /\ req'[r].body = req[r].body /\ req'[r].answer = s
      /\ \A t \in Requests \ {r} : req'[t] = req[t]
  BY DEF IInv, Types, Req
<1>2. Types' /\ Filled'
  BY ZenonT(60) DEF IInv, Types, Filled, Req, Stages
<1>3. Anchored' /\ Alone' /\ Ran'
  BY <1>1 DEF IInv, Types, Anchored, Alone, Ran, Began
<1>4. \A t \in Requests : Ended(req[t]) => t # r /\ Ended(req'[t])
  BY <1>1 DEF Ended
<1>5. RowsMatch'
  BY <1>1, <1>4 DEF IInv, Types, RowsMatch, Row
<1>6. AnswersMatch'
  <2>. SUFFICES ASSUME NEW t \in Requests, req'[t].answer # NoOne
                PROVE  LET u == req'[t].answer
                       IN /\ req'[u].key = req'[t].key /\ req'[u].body = req'[t].body
                          /\ req'[u].at \notin {"new", "running", "refused", "replayed"}
    BY DEF AnswersMatch
  <2>1. CASE t = r
    BY <1>1, <1>4, <2>1, ZenonT(30) DEF Ended
  <2>2. CASE t # r
    BY <1>1, <1>4, <2>2 DEF IInv, Types, AnswersMatch, Req, Ended
  <2>. QED
    BY <2>1, <2>2
<1>. QED
  BY <1>2, <1>3, <1>5, <1>6 DEF IInv

LEMMA RefuseHolds ==
    ASSUME IInv, NEW r \in Requests, Refuse(r)
    PROVE  IInv'
<1>2. req[r].answer \in Requests \cup {NoOne}
  BY DEF IInv, Types, Req
<1>3. req' = [req EXCEPT ![r].at = "refused", ![r].answer = req[r].answer]
  BY DEF Refuse, IInv, Types, Req
<1>4. req[r].answer # NoOne =>
          LET s == req[r].answer IN req[s].key = req[r].key /\ req[s].body = req[r].body /\ Ended(req[s])
  BY DEF IInv, AnswersMatch, Ended
<1>. QED
  BY <1>2, <1>3, <1>4, TurnedAway DEF Refuse

LEMMA ReplayHolds ==
    ASSUME IInv, NEW r \in Requests, Replay(r)
    PROVE  IInv'
<1>. DEFINE s == row[req[r].key].answer
<1>1. req[r].key \in Keys /\ s \in Requests \cup {NoOne} /\ s # NoOne
  BY DEF Replay, IInv, Types, Filled, Req, Row
<1>2. req[s].key = req[r].key /\ req[s].body = req[r].body /\ Ended(req[s])
  BY <1>1 DEF IInv, RowsMatch, Replay, Other
<1>. QED
  BY <1>1, <1>2, TurnedAway DEF Replay

\* A step that moves one request on, after its reservation, keeping its answer.
LEMMA MovedOn ==
    ASSUME IInv, NEW r \in Requests, NEW a \in {"handled", "stored", "acked", "failed"},
           Began(req[r]), UNCHANGED <<row, gen>>,
           req' = [req EXCEPT ![r].at = a],
           applied' \in {applied, applied \cup {r}}
    PROVE  IInv'
<1>1. /\ req'[r].at = a /\ req'[r].gen = req[r].gen /\ req'[r].key = req[r].key
      /\ req'[r].body = req[r].body /\ req'[r].answer = req[r].answer
      /\ \A t \in Requests \ {r} : req'[t] = req[t]
  BY DEF IInv, Types, Req
<1>2. Types' /\ Filled'
  BY DEF IInv, Types, Filled, Req, Stages
<1>3. \A t \in Requests : Onward(req[t], req'[t]) /\ req'[t].answer = req[t].answer
  BY <1>1 DEF Onward, Began, Ended
<1>4. Anchored' /\ Alone' /\ Ran'
  BY <1>3 DEF Onward, IInv, Types, Anchored, Alone, Ran
<1>5. RowsMatch'
  BY <1>3 DEF Onward, IInv, Types, RowsMatch, Row
<1>6. AnswersMatch'
  BY <1>3 DEF Onward, IInv, Types, AnswersMatch, Req, Ended
<1>. QED
  BY <1>2, <1>4, <1>5, <1>6 DEF IInv

LEMMA StoreHolds ==
    ASSUME IInv, NEW r \in Requests, Store(r)
    PROVE  IInv'
<1>. DEFINE k == req[r].key
<1>1. /\ k \in Keys /\ req[r].at = "handled" /\ Began(req[r])
      /\ UNCHANGED <<applied, gen>>
  BY DEF Store, IInv, Types, Req, Began
<1>2. CASE row[k].at # "none" /\ row[k].body = req[r].body
  <2>1. /\ row' = [row EXCEPT ![k].at = "done", ![k].answer = r]
        /\ req' = [req EXCEPT ![r].at = "stored", ![r].answer = r]
    BY <1>2 DEF Store, Done
  <2>2. /\ \A t \in Requests \ {r} : req'[t] = req[t]
        /\ req'[r].at = "stored" /\ req'[r].key = k /\ req'[r].body = req[r].body
        /\ req'[r].gen = req[r].gen /\ req'[r].answer = r
    BY <2>1 DEF IInv, Types, Req
  <2>3. /\ \A j \in Keys \ {k} : row'[j] = row[j]
        /\ row'[k].at = "done" /\ row'[k].answer = r /\ row'[k].body = row[k].body
    BY <1>1, <2>1 DEF IInv, Types, Row
  <2>4. Types'
    <3>1. row' \in [Keys -> Row]
      BY <1>1, <2>1 DEF IInv, Types, Row
    <3>2. req' \in [Requests -> Req]
      BY <2>1, ZenonT(30) DEF IInv, Types, Req, Stages
    <3>. QED
      BY <1>1, <3>1, <3>2 DEF IInv, Types
  <2>4a. Filled'
    BY <2>3, IdempotencyAssumption DEF IInv, Filled
  <2>5. \A t \in Requests : Onward(req[t], req'[t])
    BY <1>1, <2>2 DEF Onward, Began, Ended
  <2>6. Anchored' /\ Alone' /\ Ran'
    BY <1>1, <2>3, <2>5 DEF Onward, IInv, Types, Anchored, Alone, Ran, Req
  <2>7. RowsMatch'
    <3>. SUFFICES ASSUME NEW j \in Keys, row'[j].answer # NoOne
                  PROVE  /\ req'[row'[j].answer].key = j /\ req'[row'[j].answer].body = row'[j].body
                         /\ Ended(req'[row'[j].answer])
      BY DEF Onward, RowsMatch
    <3>1. CASE j = k
      BY <1>2, <2>2, <2>3, <3>1 DEF Ended
    <3>2. CASE j # k
      BY <2>3, <2>5, <3>2 DEF Onward, IInv, Types, RowsMatch, Row
    <3>. QED
      BY <3>1, <3>2
  <2>8. AnswersMatch'
    <3>. SUFFICES ASSUME NEW t \in Requests, req'[t].answer # NoOne
                  PROVE  LET u == req'[t].answer
                         IN /\ req'[u].key = req'[t].key /\ req'[u].body = req'[t].body
                            /\ req'[u].at \notin {"new", "running", "refused", "replayed"}
      BY DEF Onward, AnswersMatch
    <3>1. CASE t = r
      BY <2>2, <3>1
    <3>2. CASE t # r
      BY <2>2, <2>5, <3>2 DEF Onward, IInv, Types, AnswersMatch, Req, Ended
    <3>. QED
      BY <3>1, <3>2
  <2>. QED
    BY <2>4, <2>6, <2>7, <2>8, <2>4a DEF IInv
<1>3. CASE ~(row[k].at # "none" /\ row[k].body = req[r].body)
  BY <1>1, <1>3, MovedOn DEF Store
<1>. QED
  BY <1>2, <1>3

LEMMA AcknowledgeHolds ==
    ASSUME IInv, NEW r \in Requests, Acknowledge(r)
    PROVE  IInv'
<1>1. /\ \A t \in Requests \ {r} : req'[t] = req[t]
      /\ req'[r].at = "acked" /\ req[r].at = "stored" /\ req'[r].key = req[r].key /\ req'[r].body = req[r].body
      /\ req'[r].gen = req[r].gen /\ req'[r].answer = req[r].answer
  BY DEF Acknowledge, IInv, Types, Req
<1>2. \A t \in Requests : Onward(req[t], req'[t]) /\ req'[t].answer = req[t].answer
  BY <1>1 DEF Onward, Began, Ended
<1>3. \A k \in Keys :
        \/ row[k].old /\ row'[k] = NoRow /\ gen'[k] = gen[k] + 1
        \/ ~ row[k].old /\ row'[k] = row[k] /\ gen'[k] = gen[k]
  BY DEF Acknowledge, Swept
<1>4. req' \in [Requests -> Req] /\ applied' \subseteq Requests
  BY DEF Acknowledge, IInv, Types, Req, Stages
<1>5. row' \in [Keys -> Row] /\ gen' \in [Keys -> Nat]
  <2>1. NoRow \in Row
    BY DEF NoRow, Row
  <2>2. \A k \in Keys : row[k] \in Row /\ gen[k] \in Nat
    BY DEF IInv, Types
  <2>3. \A k \in Keys : row'[k] \in Row /\ gen'[k] \in Nat
    BY <1>3, <2>1, <2>2
  <2>. QED
    BY <2>3 DEF Acknowledge
<1>6. Filled'
  BY <1>3 DEF IInv, Filled, NoRow
<1>7. Anchored'
  BY <1>2, <1>3 DEF Onward, IInv, Types, Anchored, Req
<1>8. Alone' /\ Ran'
  BY <1>2 DEF Onward, Acknowledge, IInv, Types, Alone, Ran
<1>9. RowsMatch'
  BY <1>2, <1>3 DEF Onward, IInv, Types, RowsMatch, Row, NoRow
<1>10. AnswersMatch'
  BY <1>2 DEF Onward, IInv, Types, AnswersMatch, Req, Ended
<1>. QED
  BY <1>4, <1>5, <1>6, <1>7, <1>8, <1>9, <1>10 DEF IInv, Types

LEMMA AgeHolds ==
    ASSUME IInv, NEW k \in Keys, Age(k)
    PROVE  IInv'
<1>1. /\ \A j \in Keys : row'[j].at = row[j].at /\ row'[j].body = row[j].body /\ row'[j].answer = row[j].answer
      /\ UNCHANGED <<req, applied, gen>>
  BY DEF Age, IInv, Types, Row
<1>2. Types'
  BY DEF Age, IInv, Types, Row
<1>3. Filled' /\ Alone' /\ Ran' /\ RowsMatch' /\ AnswersMatch'
  BY <1>1 DEF IInv, Filled, Alone, Ran, RowsMatch, AnswersMatch
<1>4. Anchored'
  BY <1>1 DEF IInv, Types, Anchored, Req
<1>. QED
  BY <1>2, <1>3, <1>4 DEF IInv

LEMMA StopHolds ==
    ASSUME IInv, Stop
    PROVE  IInv'
<1>1. \A t \in Requests :
        Onward(req[t], req'[t]) /\ req'[t].answer = req[t].answer /\ req'[t] \in Req
  BY DEF Stop, IInv, Types, Req, Stages, Began, Ended, Onward
<1>2. Types' /\ Filled'
  BY <1>1 DEF Stop, IInv, Types, Filled
<1>3. Anchored' /\ Alone' /\ Ran'
  BY <1>1 DEF Onward, Stop, IInv, Types, Anchored, Alone, Ran
<1>4. RowsMatch'
  BY <1>1 DEF Onward, Stop, IInv, Types, RowsMatch, Row
<1>5. AnswersMatch'
  BY <1>1 DEF Onward, Stop, IInv, Types, AnswersMatch, Req, Ended
<1>. QED
  BY <1>2, <1>3, <1>4, <1>5 DEF IInv

LEMMA StepHolds == IInv /\ [Next]_vars => IInv'
<1>. SUFFICES ASSUME IInv, [Next]_vars PROVE IInv'
  OBVIOUS
<1>1. ASSUME NEW r \in Requests, Reserve(r) PROVE IInv'
  BY <1>1, ReserveHolds
<1>2. ASSUME NEW r \in Requests, Refuse(r) PROVE IInv'
  BY <1>2, RefuseHolds
<1>3. ASSUME NEW r \in Requests, Replay(r) PROVE IInv'
  BY <1>3, ReplayHolds
<1>4. ASSUME NEW r \in Requests, Handle(r) PROVE IInv'
  BY <1>4, MovedOn DEF Handle, Began
<1>5. ASSUME NEW r \in Requests, Store(r) PROVE IInv'
  BY <1>5, StoreHolds
<1>6. ASSUME NEW r \in Requests, StoreFails(r) PROVE IInv'
  BY <1>6, MovedOn DEF StoreFails, Began
<1>7. ASSUME NEW r \in Requests, Acknowledge(r) PROVE IInv'
  BY <1>7, AcknowledgeHolds
<1>8. ASSUME NEW k \in Keys, Age(k) PROVE IInv'
  BY <1>8, AgeHolds
<1>9. CASE Stop
  BY <1>9, StopHolds
<1>10. CASE UNCHANGED vars
  BY <1>10 DEF vars, IInv, Types, Filled, Anchored, Alone, Ran, RowsMatch, AnswersMatch
<1>. QED
  BY <1>1, <1>2, <1>3, <1>4, <1>5, <1>6, <1>7, <1>8, <1>9, <1>10 DEF Next

\* The invariant gives the three properties.
LEMMA IInvImplies == IInv => TypeOK /\ OncePerKey /\ AnswersMatch
<1>1. IInv => TypeOK
  BY DEF IInv, Types, Filled, TypeOK
<1>2. IInv => OncePerKey
  BY DEF IInv, Types, Ran, Alone, OncePerKey
<1>. QED
  BY <1>1, <1>2 DEF IInv

-----------------------------------------------------------------------------
\* Rows, requests and counts of sweeps keep their types, and a row has an
\* answer exactly when its status says so.
THEOREM TypeCorrect == Spec => []TypeOK
<1>1. IInv => TypeOK
  BY IInvImplies
<1>. QED
  BY InitHolds, StepHolds, <1>1, PTL DEF Spec

\* "a network retry can never double-issue or double-redeem": of any number of
\* requests with one key, stopped and failing anywhere, one runs between sweeps.
THEOREM OnceSafe == Spec => []OncePerKey
<1>1. IInv => OncePerKey
  BY IInvImplies
<1>. QED
  BY InitHolds, StepHolds, <1>1, PTL DEF Spec

\* What is answered under a key is the answer of a request with that key and
\* the same parameters.
THEOREM AnswersSafe == Spec => []AnswersMatch
<1>1. IInv => AnswersMatch
  BY IInvImplies
<1>. QED
  BY InitHolds, StepHolds, <1>1, PTL DEF Spec

\* No key of less than a day is freed, and no stored answer of one withdrawn.
THEOREM RowsStay == Spec => YoungRowsStay
<1>. DEFINE Kept == \A k \in Keys : row[k].at # "none" /\ ~ row[k].old =>
                      /\ row'[k].at # "none"
                      /\ row[k].at = "done" => row'[k].at = "done"
<1>1. ASSUME IInv, [Next]_vars PROVE [Kept]_vars
  <2>. SUFFICES ASSUME Next PROVE Kept
    BY <1>1
  <2>1. ASSUME NEW r \in Requests, Reserve(r) PROVE Kept
    BY <1>1, <2>1 DEF IInv, Types, Reserve, Free, Reserved, Req
  <2>2. ASSUME NEW r \in Requests, Store(r) PROVE Kept
    BY <1>1, <2>2 DEF IInv, Types, Store, Done, Req, Row
  <2>3. ASSUME NEW r \in Requests, Acknowledge(r) PROVE Kept
    BY <1>1, <2>3 DEF Acknowledge, Swept
  <2>4. ASSUME NEW k \in Keys, Age(k) PROVE Kept
    BY <1>1, <2>4 DEF IInv, Types, Age, Row
  <2>5. ASSUME NEW r \in Requests, Refuse(r) \/ Replay(r) \/ Handle(r) \/ StoreFails(r) PROVE Kept
    BY <2>5 DEF Refuse, Replay, Handle, StoreFails
  <2>6. CASE Stop
    BY <2>6 DEF Stop
  <2>. QED
    BY <1>1, <2>1, <2>2, <2>3, <2>4, <2>5, <2>6 DEF Next
<1>. QED
  BY InitHolds, StepHolds, <1>1, PTL DEF Spec, YoungRowsStay

-----------------------------------------------------------------------------
\* Deliveries of webhooks.

Attempt == [id : Nat, n : Nat]
PassState == [on : BOOLEAN, left : Seq(Attempt), answer : {"none", "ok", "bad"}]

HookTypes ==
    /\ Hooks!TypeOK
    /\ pass \in [Hooks!Passes -> PassState]
    /\ silent \subseteq Endpoints /\ faults \in Nat
    /\ tries \in Seq(Nat) /\ Len(tries) = Len(rows)
    /\ lost \in Seq(Nat) /\ Len(lost) = Len(rows)

\* webhookMu: the pass that is on holds it, and has an answer to store only
\* for a row it has left.
OnePass ==
    \A p \in Hooks!Passes :
        /\ pass[p].on <=> mu = p
        /\ ~ pass[p].on => pass[p] = Hooks!Off
        /\ pass[p].answer # "none" => pass[p].left # <<>>

\* Nobody attempted or changed the rows a pass has left since it read them,
\* each is left once, and none goes to an endpoint disabled before.
Untouched(left) ==
    \A i \in 1..Len(left) :
        /\ left[i].id \in 1..Len(rows) /\ rows[left[i].id].at \notin Hooks!Ended /\ rows[left[i].id].ripe = TRUE
        /\ rows[left[i].id].n = left[i].n /\ rows[left[i].id].hook \notin silent
        /\ \A j \in 1..Len(left) : j # i => left[j].id # left[i].id

ReadsStand == \A p \in Hooks!Passes : Untouched(pass[p].left)

AttemptsLeft == \A d \in 1..Len(rows) : rows[d].at \notin Hooks!Ended => rows[d].n < MaxAttempts

\* A row that ended waits for no time to come.
EndedRipe == \A d \in 1..Len(rows) : rows[d].at \in Hooks!Ended => rows[d].ripe = TRUE

\* The attempt at row d that has an answer not yet stored.
Open(d) ==
    IF mu \in Hooks!Passes /\ pass[mu].answer # "none" /\ Head(pass[mu].left).id = d THEN 1 ELSE 0

Counted == \A d \in 1..Len(rows) : tries[d] = rows[d].n + lost[d] + Open(d)

\* AttemptsAreCounted alone is not inductive: the row must be as the pass read
\* it, which it is only because one pass at a time holds the lock.
HInv == HookTypes /\ OnePass /\ ReadsStand /\ AttemptsLeft /\ EndedRipe /\ Counted

LEMMA SameCardinality == \A S : Hooks!Cardinality(S) = Cardinality(S)
BY DEF Hooks!Cardinality, Cardinality, Hooks!IsFiniteSet, IsFiniteSet

\* Of the two passes, the one with the lock alone can have an answer.
LEMMA OneWaits ==
    OnePass => \A d : Hooks!Cardinality({p \in Hooks!Passes : pass[p].answer # "none" /\ Head(pass[p].left).id = d}) = Open(d)
<1>. SUFFICES ASSUME OnePass, NEW d
              PROVE  Cardinality({p \in Hooks!Passes : pass[p].answer # "none" /\ Head(pass[p].left).id = d}) = Open(d)
  BY SameCardinality
<1>. DEFINE S == {p \in Hooks!Passes : pass[p].answer # "none" /\ Head(pass[p].left).id = d}
<1>1. \A p \in Hooks!Passes : pass[p].answer # "none" => p = mu
  BY DEF OnePass, Hooks!Off
<1>2. S = IF Open(d) = 1 THEN {mu} ELSE {}
  BY <1>1 DEF Open
<1>. HIDE DEF S
<1>3. Open(d) \in {0, 1}
  BY DEF Open
<1>. QED
  BY <1>2, <1>3, FS_Singleton, FS_EmptySet DEF S

LEMMA CountedIs == HookTypes /\ OnePass => (Hooks!AttemptsAreCounted <=> Counted)
<1>. SUFFICES ASSUME HookTypes, OnePass PROVE Hooks!AttemptsAreCounted <=> Counted
  OBVIOUS
<1>1. DOMAIN rows = 1..Len(rows)
  BY LenProperties DEF HookTypes, Hooks!TypeOK
<1>2. Hooks!AttemptsAreCounted <=> \A d \in DOMAIN rows : tries[d] = rows[d].n + lost[d] + Open(d)
  BY OneWaits DEF Hooks!AttemptsAreCounted
<1>. QED
  BY <1>1, <1>2 DEF Counted

LEMMA HooksBegin == Hooks!Init => HInv
<1>. SUFFICES ASSUME Hooks!Init PROVE HInv
  OBVIOUS
<1>1. /\ <<>> \in Seq(Nat) /\ <<>> \in Seq(Attempt) /\ <<>> \in Seq(Hooks!Row) /\ <<>> \in Seq(Endpoints)
      /\ Len(<<>>) = 0
  BY EmptySeq
<1>2. HookTypes
  BY <1>1, ServicesAssumption DEF HookTypes, Hooks!Init, Hooks!TypeOK, Hooks!Off, PassState, Hooks!WebhooksAssumption
<1>3. OnePass /\ ReadsStand /\ AttemptsLeft /\ EndedRipe /\ Counted
  BY <1>1 DEF Hooks!Init, OnePass, ReadsStand, Untouched, AttemptsLeft, EndedRipe, Counted, Hooks!Off, Hooks!Passes
<1>. QED
  BY <1>2, <1>3 DEF HInv

\* A step that leaves the passes, the rows and their counts alone.
LEMMA Elsewhere ==
    ASSUME HInv, UNCHANGED <<rows, mu, pass, silent, tries, lost, faults>>, Hooks!TypeOK'
    PROVE  HInv'
<1>1. HookTypes' /\ OnePass'
  BY DEF HInv, HookTypes, OnePass
<1>2. ReadsStand' /\ AttemptsLeft' /\ EndedRipe' /\ Counted'
  BY DEF HInv, ReadsStand, Untouched, AttemptsLeft, EndedRipe, Counted, Open
<1>. QED
  BY <1>1, <1>2 DEF HInv

\* Endpoints come and go.
LEMMA EndpointMoves ==
    ASSUME HInv, NEW w \in Endpoints, Hooks!Count(w) \/ Hooks!Insert(w) \/ Hooks!Disable(w)
    PROVE  HInv'
<1>1. UNCHANGED <<queueing, rows, mu, pass, silent, tries, lost, faults>>
  BY DEF Hooks!Count, Hooks!Insert, Hooks!Disable, Hooks!aux
<1>2. hook' \in [Endpoints -> {"none", "counted", "active", "disabled"}]
  BY DEF HInv, HookTypes, Hooks!TypeOK, Hooks!Count, Hooks!Insert, Hooks!Disable
<1>3. Hooks!TypeOK'
  BY <1>1, <1>2 DEF HInv, HookTypes, Hooks!TypeOK
<1>. QED
  BY <1>1, <1>3, Elsewhere

\* A finite set has a listing.
LEMMA Listed ==
    ASSUME NEW S, IsFiniteSet(S)
    PROVE  Hooks!SetToSeq(S) \in Seq(S) /\ Len(Hooks!SetToSeq(S)) = Cardinality(S) /\ Cardinality(S) \in Nat
<1>1. Cardinality(S) \in Nat /\ ExistsBijection(1..Cardinality(S), S)
  BY FS_CardinalityType
<1>2. PICK f \in [1..Cardinality(S) -> S] : Hooks!IsInjective(f)
  BY <1>1 DEF ExistsBijection, Bijection, Injection, IsInjective, Hooks!IsInjective
<1>3. Hooks!SetToSeq(S) = CHOOSE g \in [1..Cardinality(S) -> S] : Hooks!IsInjective(g)
  BY SameCardinality DEF Hooks!SetToSeq
<1>4. Hooks!SetToSeq(S) \in [1..Cardinality(S) -> S]
  BY <1>2, <1>3
<1>. QED
  BY <1>1, <1>4

LEMMA EmitHolds ==
    ASSUME HInv, NEW S \in SUBSET Endpoints, Hooks!Emit(S)
    PROVE  HInv'
<1>1. IsFiniteSet(S)
  <2>1. IsFiniteSet(Endpoints)
    BY ServicesAssumption, Zenon DEF Hooks!WebhooksAssumption, Hooks!IsFiniteSet, IsFiniteSet
  <2>. QED
    BY <2>1, FS_Subset, Zenon
<1>2. UNCHANGED <<hook, rows, mu, pass, silent, tries, lost, faults>>
  BY DEF Hooks!Emit, Hooks!aux
<1>. DEFINE q == Hooks!SetToSeq(S)
<1>3. q \in Seq(Endpoints) /\ Len(q) = Cardinality(S) /\ Cardinality(S) \in Nat
  BY <1>1, Listed, SeqMonotonic
<1>4. queueing \in Seq(Endpoints) /\ queueing' = queueing \o q
  BY DEF HInv, HookTypes, Hooks!TypeOK, Hooks!Emit
<1>5. Len(rows) + Len(queueing) + Cardinality(S) <= MaxRows
  BY SameCardinality DEF Hooks!Emit
<1>. HIDE DEF q
<1>6. queueing' \in Seq(Endpoints) /\ Len(queueing') = Len(queueing) + Cardinality(S)
  BY <1>3, <1>4, ConcatProperties
<1>7. Len(rows) \in Nat /\ Len(queueing) \in Nat /\ MaxRows \in Nat
  BY <1>4, ServicesAssumption DEF HInv, HookTypes, Hooks!TypeOK, Hooks!WebhooksAssumption
<1>8. Len(rows') + Len(queueing') <= MaxRows
  BY <1>2, <1>3, <1>5, <1>6, <1>7
<1>9. Hooks!TypeOK'
  BY <1>2, <1>6, <1>8 DEF HInv, HookTypes, Hooks!TypeOK
<1>. QED
  BY <1>2, <1>9, Elsewhere

LEMMA Numbers ==
    HookTypes => /\ Len(rows) \in Nat /\ DOMAIN rows = 1..Len(rows)
                 /\ Len(queueing) \in Nat /\ DOMAIN queueing = 1..Len(queueing)
                 /\ MaxRows \in Nat /\ MaxAttempts \in Nat /\ MaxAttempts > 0 /\ Batch \in Nat /\ Batch > 0
                 /\ \A d \in 1..Len(rows) : rows[d] \in Hooks!Row /\ rows[d].n \in Nat /\ tries[d] \in Nat /\ lost[d] \in Nat
<1>. SUFFICES ASSUME HookTypes
              PROVE  /\ Len(rows) \in Nat /\ DOMAIN rows = 1..Len(rows)
                     /\ Len(queueing) \in Nat /\ DOMAIN queueing = 1..Len(queueing)
                     /\ MaxRows \in Nat /\ MaxAttempts \in Nat /\ MaxAttempts > 0 /\ Batch \in Nat /\ Batch > 0
                     /\ \A d \in 1..Len(rows) : rows[d] \in Hooks!Row /\ rows[d].n \in Nat /\ tries[d] \in Nat /\ lost[d] \in Nat
  OBVIOUS
<1>1. MaxRows \in Nat /\ MaxAttempts \in Nat /\ MaxAttempts > 0 /\ Batch \in Nat /\ Batch > 0
  BY ServicesAssumption DEF Hooks!WebhooksAssumption
<1>2. rows \in Seq(Hooks!Row) /\ queueing \in Seq(Endpoints) /\ tries \in Seq(Nat) /\ lost \in Seq(Nat)
  BY DEF HookTypes, Hooks!TypeOK
<1>3. \A d \in 1..Len(rows) : rows[d] \in Hooks!Row /\ tries[d] \in Nat /\ lost[d] \in Nat
  BY <1>2, ElementOfSeq DEF HookTypes
<1>. QED
  BY <1>1, <1>2, <1>3, LenProperties DEF Hooks!Row

\* One more row, at the end.
LEMMA QueueHolds ==
    ASSUME HInv, NEW i \in DOMAIN queueing, Hooks!Queue(i)
    PROVE  HInv'
<1>. DEFINE new == [hook |-> queueing[i], at |-> "pending", n |-> 0, ripe |-> TRUE]
            N == Len(rows)
<1>1. /\ N \in Nat /\ i \in 1..Len(queueing) /\ Len(queueing) \in Nat
      /\ queueing \in Seq(Endpoints) /\ rows \in Seq(Hooks!Row) /\ MaxRows \in Nat /\ MaxAttempts > 0 /\ MaxAttempts \in Nat
      /\ N + Len(queueing) <= MaxRows
      /\ tries \in Seq(Nat) /\ lost \in Seq(Nat) /\ Len(tries) = N /\ Len(lost) = N
  BY Numbers DEF HInv, HookTypes, Hooks!TypeOK
<1>2. /\ queueing' = SubSeq(queueing, 1, i - 1) \o SubSeq(queueing, i + 1, Len(queueing))
      /\ rows' = Append(rows, new) /\ tries' = Append(tries, 0) /\ lost' = Append(lost, 0)
      /\ UNCHANGED <<hook, mu, pass, silent, faults>>
  BY DEF Hooks!Queue, Hooks!RemoveAt
<1>3. new \in Hooks!Row
  BY <1>1, ElementOfSeq DEF Hooks!Row
<1>. HIDE DEF new, N
<1>4. /\ rows' \in Seq(Hooks!Row) /\ Len(rows') = N + 1 /\ rows'[N + 1] = new
      /\ \A d \in 1..N : rows'[d] = rows[d]
  BY <1>1, <1>2, <1>3, AppendProperties DEF N
<1>5. /\ tries' \in Seq(Nat) /\ Len(tries') = N + 1 /\ tries'[N + 1] = 0
      /\ \A d \in 1..N : tries'[d] = tries[d]
  <2>1. tries \in Seq(Nat) /\ 0 \in Nat
    BY <1>1
  <2>2. /\ Append(tries, 0) \in Seq(Nat) /\ Len(Append(tries, 0)) = Len(tries) + 1
        /\ \A d \in 1..Len(tries) : Append(tries, 0)[d] = tries[d]
        /\ Append(tries, 0)[Len(tries) + 1] = 0
    BY <2>1, AppendProperties
  <2>3. tries' = Append(tries, 0) /\ Len(tries) = N
    BY <1>1, <1>2
  <2>. QED
    BY <2>2, <2>3
<1>6. /\ lost' \in Seq(Nat) /\ Len(lost') = N + 1 /\ lost'[N + 1] = 0
      /\ \A d \in 1..N : lost'[d] = lost[d]
  <2>1. lost \in Seq(Nat) /\ 0 \in Nat
    BY <1>1
  <2>2. /\ Append(lost, 0) \in Seq(Nat) /\ Len(Append(lost, 0)) = Len(lost) + 1
        /\ \A d \in 1..Len(lost) : Append(lost, 0)[d] = lost[d]
        /\ Append(lost, 0)[Len(lost) + 1] = 0
    BY <2>1, AppendProperties
  <2>3. lost' = Append(lost, 0) /\ Len(lost) = N
    BY <1>1, <1>2
  <2>. QED
    BY <2>2, <2>3
<1>7. queueing' \in Seq(Endpoints) /\ Len(queueing') = Len(queueing) - 1
  <2>. DEFINE s == SubSeq(queueing, 1, i - 1)
              t == SubSeq(queueing, i + 1, Len(queueing))
              m == Len(queueing)
  <2>1. i \in Int /\ m \in Int /\ 1 \in Int /\ i - 1 \in Int /\ i + 1 \in Int
        /\ (\A j \in 1..(i - 1) : j \in 1..m) /\ (\A j \in (i + 1)..m : j \in 1..m)
    BY <1>1
  <2>2. (\A j \in 1..(i - 1) : queueing[j] \in Endpoints) /\ (\A j \in (i + 1)..m : queueing[j] \in Endpoints)
    BY <1>1, <2>1, ElementOfSeq
  <2>3. s \in Seq(Endpoints) /\ Len(s) = IF 1 <= i - 1 THEN (i - 1) - 1 + 1 ELSE 0
    BY <2>1, <2>2, SubSeqProperties
  <2>4. t \in Seq(Endpoints) /\ Len(t) = IF i + 1 <= m THEN m - (i + 1) + 1 ELSE 0
    BY <2>1, <2>2, SubSeqProperties
  <2>5. queueing' = s \o t
    BY <1>2
  <2>6. Len(s) = i - 1 /\ Len(t) = m - i
    BY <1>1, <2>3, <2>4
  <2>. HIDE DEF s, t
  <2>7. queueing' \in Seq(Endpoints) /\ Len(queueing') = Len(s) + Len(t)
    BY <2>3, <2>4, <2>5, ConcatProperties
  <2>. QED
    BY <1>1, <2>6, <2>7
<1>8. HookTypes'
  <2>1. Len(rows') + Len(queueing') <= MaxRows
    BY <1>1, <1>4, <1>7
  <2>2. DOMAIN rows' = 1..(N + 1)
    BY <1>4
  <2>3. \A d \in 1..(N + 1) : d \in 1..N \/ d = N + 1
    BY <1>1
  <2>4. \A d \in DOMAIN rows' : rows'[d].at = "failed" => rows'[d].n = MaxAttempts
    <3>1. \A d \in 1..N : rows[d].at = "failed" => rows[d].n = MaxAttempts
      BY Numbers DEF HInv, HookTypes, Hooks!TypeOK, N
    <3>. QED
      BY <1>4, <2>2, <2>3, <3>1 DEF new
  <2>5. Hooks!TypeOK'
    BY <1>2, <1>4, <1>7, <2>1, <2>4 DEF HInv, HookTypes, Hooks!TypeOK
  <2>. QED
    BY <1>2, <1>4, <1>5, <1>6, <2>5 DEF HInv, HookTypes
<1>9. OnePass'
  BY <1>2 DEF HInv, OnePass
<1>10. ReadsStand'
  <2>1. \A d \in 1..N : d \in 1..Len(rows')
    BY <1>1, <1>4
  <2>. SUFFICES ASSUME NEW p \in Hooks!Passes, NEW j \in 1..Len(pass'[p].left)
                PROVE  LET e == pass'[p].left[j] IN
                       /\ e.id \in 1..Len(rows') /\ rows'[e.id].at \notin Hooks!Ended /\ rows'[e.id].ripe = TRUE
                       /\ rows'[e.id].n = e.n /\ rows'[e.id].hook \notin silent'
                       /\ \A k \in 1..Len(pass'[p].left) : k # j => pass'[p].left[k].id # e.id
    BY DEF ReadsStand, Untouched
  <2>. DEFINE left == pass[p].left
  <2>2. /\ left[j].id \in 1..N /\ rows[left[j].id].at \notin Hooks!Ended /\ rows[left[j].id].ripe = TRUE
        /\ rows[left[j].id].n = left[j].n /\ rows[left[j].id].hook \notin silent
        /\ \A k \in 1..Len(left) : k # j => left[k].id # left[j].id
    BY <1>2 DEF HInv, ReadsStand, Untouched, N
  <2>. QED
    BY <1>2, <1>4, <2>1, <2>2
<1>11. \A d \in 1..Len(rows') : d \in 1..N \/ (d = N + 1 /\ d \notin 1..N)
  BY <1>1, <1>4
<1>12. AttemptsLeft'
  <2>1. \A d \in 1..N : rows[d].at \notin Hooks!Ended => rows[d].n < MaxAttempts
    BY DEF HInv, AttemptsLeft, N
  <2>2. rows'[N + 1].n = 0 /\ 0 < MaxAttempts
    BY <1>1, <1>4 DEF new
  <2>3. \A d \in 1..Len(rows') : rows'[d].at \notin Hooks!Ended => rows'[d].n < MaxAttempts
    BY <1>4, <1>11, <2>1, <2>2
  <2>. QED
    BY <2>3 DEF AttemptsLeft
<1>12a. EndedRipe'
  <2>1. new.at \notin Hooks!Ended
    BY DEF new, Hooks!Ended
  <2>. QED
    BY <1>4, <1>11, <2>1 DEF HInv, EndedRipe, N
<1>13. Open(N + 1) = 0
  <2>1. ASSUME mu \in Hooks!Passes, pass[mu].answer # "none" PROVE Head(pass[mu].left).id \in 1..N
    <3>1. pass[mu].left \in Seq(Attempt) /\ pass[mu].left # <<>>
      BY <2>1 DEF HInv, HookTypes, PassState, OnePass
    <3>2. Head(pass[mu].left) = pass[mu].left[1] /\ 1 \in 1..Len(pass[mu].left)
      BY <3>1
    <3>. QED
      BY <2>1, <3>2 DEF HInv, ReadsStand, Untouched, N
  <2>. QED
    BY <1>1, <2>1 DEF Open
<1>14. Counted'
  <2>1. \A d : Open(d)' = Open(d)
    BY <1>2 DEF Open
  <2>2. \A d \in 1..N : tries'[d] = rows'[d].n + lost'[d] + Open(d)
    BY <1>4, <1>5, <1>6 DEF HInv, Counted, N
  <2>3. tries'[N + 1] = rows'[N + 1].n + lost'[N + 1] + Open(N + 1)
    BY <1>4, <1>5, <1>6, <1>13 DEF new
  <2>. QED
    BY <1>11, <2>1, <2>2, <2>3 DEF Counted
<1>. QED
  BY <1>8, <1>9, <1>10, <1>12, <1>12a, <1>14 DEF HInv

\* A row whose time has come.
LEMMA RipenHolds ==
    ASSUME HInv, NEW d \in 1..MaxRows, Hooks!Ripen(d)
    PROVE  HInv'
<1>1. rows \in Seq(Hooks!Row) /\ d \in 1..Len(rows) /\ rows[d] \in Hooks!Row
  BY Numbers DEF HInv, HookTypes, Hooks!TypeOK, Hooks!Ripen
<1>. DEFINE new == [rows[d] EXCEPT !.ripe = TRUE]
<1>2. rows' = [rows EXCEPT ![d] = new] /\ UNCHANGED <<hook, queueing, mu, pass, silent, tries, lost, faults>>
  BY DEF Hooks!Ripen, Hooks!aux
<1>3. new \in Hooks!Row /\ new.hook = rows[d].hook /\ new.at = rows[d].at /\ new.n = rows[d].n /\ new.ripe = TRUE
  BY <1>1 DEF Hooks!Row
<1>. HIDE DEF new
<1>4. rows' \in Seq(Hooks!Row) /\ Len(rows') = Len(rows)
  BY <1>1, <1>2, <1>3, ExceptSeq
<1>5. \A e \in 1..Len(rows) : rows'[e].hook = rows[e].hook /\ rows'[e].at = rows[e].at /\ rows'[e].n = rows[e].n
  BY <1>1, <1>2, <1>3, ExceptSeq
<1>5a. \A e \in 1..Len(rows) : rows[e].ripe = TRUE => rows'[e].ripe = TRUE
  BY <1>1, <1>2, <1>3, ExceptSeq
<1>6. HookTypes'
  <2>1. DOMAIN rows' = 1..Len(rows) /\ DOMAIN rows = 1..Len(rows)
    BY <1>1, <1>4, LenProperties
  <2>2. Hooks!TypeOK'
    BY <1>2, <1>4, <1>5, <2>1 DEF HInv, HookTypes, Hooks!TypeOK
  <2>. QED
    BY <1>2, <1>4, <2>2 DEF HInv, HookTypes
<1>7. OnePass'
  BY <1>2, SMTT(30) DEF HInv, OnePass
<1>8. ReadsStand'
  BY <1>2, <1>4, <1>5, <1>5a, SMTT(60) DEF HInv, ReadsStand, Untouched
<1>9. AttemptsLeft'
  BY <1>2, <1>4, <1>5 DEF HInv, AttemptsLeft
<1>9a. EndedRipe'
  BY <1>2, <1>4, <1>5, <1>5a DEF HInv, EndedRipe
<1>10. Counted'
  BY <1>2, <1>4, <1>5 DEF HInv, Counted, Open
<1>. QED
  BY <1>6, <1>7, <1>8, <1>9, <1>9a, <1>10 DEF HInv

LEMMA SameAscending == \A S : Hooks!Ascending(S) = Ascending(S)
BY SameCardinality, SMTT(30) DEF Hooks!Ascending, Ascending, Hooks!Below, Below

\* What a pass reads: rows that are due, each once.
LEMMA WhatIsRead ==
    ASSUME HookTypes
    PROVE  LET due == Hooks!Ascending({d \in DOMAIN rows : Hooks!Due(d)})
               read == SubSeq(due, 1, IF Len(due) < Batch THEN Len(due) ELSE Batch)
           IN  /\ read \in Seq(1..Len(rows)) /\ Len(read) \in Nat
               /\ \A i \in 1..Len(read) : read[i] \in 1..Len(rows) /\ Hooks!Due(read[i])
               /\ \A i, j \in 1..Len(read) : i # j => read[i] # read[j]
<1>. DEFINE N == Len(rows)
            D == {d \in DOMAIN rows : Hooks!Due(d)}
            c == Cardinality(D)
            due == Hooks!Ascending(D)
            m == IF Len(due) < Batch THEN Len(due) ELSE Batch
            read == SubSeq(due, 1, m)
<1>1. N \in Nat /\ DOMAIN rows = 1..N /\ Batch \in Nat
  BY Numbers
<1>2. IsFiniteSet(D) /\ D \in SUBSET Int /\ D \subseteq 1..N /\ \A d \in D : Hooks!Due(d)
  <2>1. D \subseteq 1..N /\ 1..N \subseteq Int /\ \A d \in D : Hooks!Due(d)
    BY <1>1
  <2>2. IsFiniteSet(1..N)
    BY <1>1, FS_Interval
  <2>. HIDE DEF D, N
  <2>. QED
    BY <2>1, <2>2, FS_Subset
<1>. HIDE DEF D
<1>3. /\ c \in Nat /\ due \in [1..c -> D]
      /\ \A i, j \in 1..c : i < j => due[i] < due[j]
  BY <1>2, AscendingIs, SameAscending
<1>. HIDE DEF c, due
<1>4. Len(due) = c /\ due \in Seq(D)
  BY <1>3
<1>5. m \in Nat /\ m <= c
  BY <1>1, <1>3, <1>4
<1>. HIDE DEF m, N
<1>6. /\ read \in Seq(1..N) /\ Len(read) = m /\ \A i \in 1..m : read[i] = due[i]
  <2>1. \A i \in 1..m : due[i] \in 1..N
    <3>1. \A i \in 1..m : i \in 1..c
      BY <1>3, <1>5
    <3>. QED
      BY <1>2, <1>3, <3>1
  <2>2. 1 \in Int /\ m \in Int
    BY <1>5
  <2>3. /\ read \in Seq(1..N) /\ Len(read) = IF 1 <= m THEN m - 1 + 1 ELSE 0
        /\ \A i \in 1..(m - 1 + 1) : read[i] = due[1 + i - 1]
    BY <2>1, <2>2, SubSeqProperties
  <2>4. (IF 1 <= m THEN m - 1 + 1 ELSE 0) = m /\ m - 1 + 1 = m /\ \A i \in 1..m : 1 + i - 1 = i
    BY <1>5
  <2>. QED
    BY <2>3, <2>4
<1>. HIDE DEF read
<1>7. \A i \in 1..m : i \in 1..c /\ due[i] \in D
  BY <1>3, <1>5
<1>8. \A i, j \in 1..m : i # j => read[i] # read[j]
  <2>. SUFFICES ASSUME NEW i \in 1..m, NEW j \in 1..m, i # j PROVE due[i] # due[j]
    BY <1>6
  <2>1. i \in 1..c /\ j \in 1..c /\ due[i] \in Int /\ due[j] \in Int /\ i \in Nat /\ j \in Nat
    <3>1. i \in 1..c /\ j \in 1..c /\ due[i] \in D /\ due[j] \in D /\ i \in Nat /\ j \in Nat
      BY <1>7
    <3>. QED
      BY <1>2, <3>1
  <2>2. i < j \/ j < i
    BY <2>1
  <2>3. due[i] < due[j] \/ due[j] < due[i]
    BY <1>3, <2>1, <2>2
  <2>. QED
    BY <2>1, <2>3
<1>9. \A i \in 1..m : read[i] \in 1..N /\ Hooks!Due(read[i])
  BY <1>2, <1>6, <1>7
<1>. QED
  BY <1>5, <1>6, <1>8, <1>9 DEF read, m, due, D, N

\* A pass begins: the lock was free, so no other is on.
LEMMA StartHolds ==
    ASSUME HInv, NEW p \in Hooks!Passes, Hooks!Start(p)
    PROVE  HInv'
<1>. DEFINE due == Hooks!Ascending({d \in DOMAIN rows : Hooks!Due(d)})
            read == SubSeq(due, 1, IF Len(due) < Batch THEN Len(due) ELSE Batch)
            left == [i \in DOMAIN read |-> [id |-> read[i], n |-> rows[read[i]].n]]
<1>1. /\ mu = "free" /\ mu' = p
      /\ pass' = [pass EXCEPT ![p] = [on |-> TRUE, answer |-> "none", left |-> left]]
      /\ UNCHANGED <<hook, queueing, rows, tries, lost, faults>>
  BY DEF Hooks!Start, Hooks!TryLock, Hooks!store
<1>2. /\ read \in Seq(1..Len(rows)) /\ Len(read) \in Nat
      /\ \A i \in 1..Len(read) : read[i] \in 1..Len(rows) /\ Hooks!Due(read[i])
      /\ \A i, j \in 1..Len(read) : i # j => read[i] # read[j]
  BY WhatIsRead DEF HInv
<1>3. \A q \in Hooks!Passes : q # "free" /\ ~ pass[q].on /\ pass[q] = Hooks!Off
  BY <1>1 DEF HInv, OnePass, Hooks!Passes
<1>4. silent' = {w \in Endpoints : hook[w] = "disabled"}
  BY <1>3 DEF Hooks!Start
<1>. HIDE DEF read
<1>5. DOMAIN read = 1..Len(read)
  BY <1>2, LenProperties
<1>6. /\ left \in Seq(Attempt) /\ Len(left) = Len(read)
      /\ \A i \in 1..Len(read) : left[i].id = read[i] /\ left[i].n = rows[read[i]].n
  <2>1. \A i \in 1..Len(read) : read[i] \in Nat /\ rows[read[i]].n \in Nat
    BY <1>2, Numbers DEF HInv
  <2>. QED
    BY <1>2, <1>5, <2>1 DEF Attempt
<1>. HIDE DEF left
<1>7. HookTypes'
  <2>1. [on |-> TRUE, answer |-> "none", left |-> left] \in PassState
    BY <1>6 DEF PassState
  <2>2. pass' \in [Hooks!Passes -> PassState]
    BY <1>1, <2>1 DEF HInv, HookTypes
  <2>3. Hooks!TypeOK'
    BY <1>1 DEF HInv, HookTypes, Hooks!TypeOK
  <2>. QED
    BY <1>1, <1>4, <2>2, <2>3 DEF HInv, HookTypes
<1>8. /\ pass'[p] = [on |-> TRUE, answer |-> "none", left |-> left]
      /\ \A q \in Hooks!Passes \ {p} : pass'[q] = Hooks!Off
  BY <1>1, <1>3 DEF HInv, HookTypes
<1>9. OnePass'
  BY <1>1, <1>8 DEF OnePass, Hooks!Off, Hooks!Passes
<1>10. ReadsStand'
  <2>1. \A i \in 1..Len(left) :
           /\ left[i].id \in 1..Len(rows) /\ rows[left[i].id].at \notin Hooks!Ended /\ rows[left[i].id].ripe = TRUE
           /\ rows[left[i].id].n = left[i].n /\ hook[rows[left[i].id].hook] = "active"
           /\ \A j \in 1..Len(left) : j # i => left[j].id # left[i].id
    BY <1>2, <1>6 DEF Hooks!Due
  <2>2. \A w : hook[w] = "active" => w \notin silent'
    BY <1>4
  <2>. SUFFICES ASSUME NEW q \in Hooks!Passes, NEW i \in 1..Len(pass'[q].left)
                PROVE  LET e == pass'[q].left[i] IN
                       /\ e.id \in 1..Len(rows') /\ rows'[e.id].at \notin Hooks!Ended /\ rows'[e.id].ripe = TRUE
                       /\ rows'[e.id].n = e.n /\ rows'[e.id].hook \notin silent'
                       /\ \A k \in 1..Len(pass'[q].left) : k # i => pass'[q].left[k].id # e.id
    BY DEF ReadsStand, Untouched
  <2>3. q = p
    <3>1. 1..Len(<<>>) = {}
      BY EmptySeq
    <3>. QED
      BY <1>8, <3>1 DEF Hooks!Off
  <2>4. pass'[q].left = left
    BY <1>8, <2>3
  <2>. QED
    BY <1>1, <2>1, <2>2, <2>4
<1>11. AttemptsLeft' /\ EndedRipe'
  BY <1>1 DEF HInv, AttemptsLeft, EndedRipe
<1>12. Counted'
  <2>1. \A d : Open(d) = 0 /\ Open(d)' = 0
    BY <1>1, <1>8 DEF Open, Hooks!Passes
  <2>. QED
    BY <1>1, <2>1 DEF HInv, Counted
<1>. QED
  BY <1>7, <1>9, <1>10, <1>11, <1>12 DEF HInv

\* The row a pass attempts next.
LEMMA NextToAttempt ==
    ASSUME HInv, NEW p \in Hooks!Passes, pass[p].left # <<>>
    PROVE  LET d == Head(pass[p].left) IN
           /\ d = pass[p].left[1] /\ d \in Attempt /\ 1 \in 1..Len(pass[p].left) /\ mu = p
           /\ d.id \in 1..Len(rows) /\ rows[d.id].at \notin Hooks!Ended /\ rows[d.id].ripe = TRUE
           /\ rows[d.id].n = d.n /\ rows[d.id].hook \notin silent
           /\ d.n \in Nat /\ d.n < MaxAttempts
           /\ pass[p].left \in Seq(Attempt) /\ pass[p] \in PassState
<1>. DEFINE left == pass[p].left
<1>1. pass[p] \in PassState /\ left \in Seq(Attempt)
  BY DEF HInv, HookTypes, PassState
<1>2. Head(left) = left[1] /\ 1 \in 1..Len(left) /\ Head(left) \in Attempt
  BY <1>1
<1>3. mu = p
  BY DEF HInv, OnePass, Hooks!Off
<1>4. /\ left[1].id \in 1..Len(rows) /\ rows[left[1].id].at \notin Hooks!Ended /\ rows[left[1].id].ripe = TRUE
      /\ rows[left[1].id].n = left[1].n /\ rows[left[1].id].hook \notin silent
  BY <1>2 DEF HInv, ReadsStand, Untouched
<1>5. rows[left[1].id].n < MaxAttempts
  BY <1>4 DEF HInv, AttemptsLeft
<1>. QED
  BY <1>1, <1>2, <1>3, <1>4, <1>5 DEF Attempt

LEMMA SendHolds ==
    ASSUME HInv, NEW p \in Hooks!Passes, NEW answer \in {"ok", "bad"}, Hooks!Send(p, answer)
    PROVE  HInv'
<1>. DEFINE d == Head(pass[p].left)
            new == [pass[p] EXCEPT !.answer = answer]
<1>1. /\ pass[p].left # <<>> /\ pass[p].answer = "none"
      /\ pass' = [pass EXCEPT ![p] = new] /\ tries' = [tries EXCEPT ![d.id] = tries[d.id] + 1]
      /\ UNCHANGED <<hook, queueing, rows, mu, silent, lost, faults>>
  BY DEF Hooks!Send, Hooks!store
<1>2. /\ mu = p /\ d.id \in 1..Len(rows) /\ pass[p] \in PassState
  BY <1>1, NextToAttempt
<1>3. new \in PassState /\ new.on = pass[p].on /\ new.left = pass[p].left /\ new.answer # "none"
  BY <1>2 DEF PassState
<1>. HIDE DEF new
<1>4. pass'[p] = new /\ \A q \in Hooks!Passes \ {p} : pass'[q] = pass[q]
  BY <1>1 DEF HInv, HookTypes
<1>5. tries \in Seq(Nat) /\ Len(tries) = Len(rows) /\ tries[d.id] + 1 \in Nat
  BY <1>2, Numbers, SMTT(30) DEF HInv, HookTypes
<1>6. /\ tries' \in Seq(Nat) /\ Len(tries') = Len(rows)
      /\ \A e \in 1..Len(rows) : tries'[e] = IF e = d.id THEN tries[d.id] + 1 ELSE tries[e]
  <2>. DEFINE more == tries[d.id] + 1
  <2>1. tries \in Seq(Nat) /\ d.id \in 1..Len(tries) /\ more \in Nat /\ tries' = [tries EXCEPT ![d.id] = more]
    BY <1>1, <1>2, <1>5
  <2>. HIDE DEF more, d
  <2>2. /\ tries' \in Seq(Nat) /\ Len(tries') = Len(tries)
        /\ \A e \in 1..Len(tries) : tries'[e] = IF e = d.id THEN more ELSE tries[e]
    BY <2>1, ExceptSeq
  <2>. QED
    BY <1>5, <2>2 DEF more
<1>. HIDE DEF d
<1>7. HookTypes'
  <2>1. pass' \in [Hooks!Passes -> PassState]
    BY <1>1, <1>3 DEF HInv, HookTypes
  <2>2. Hooks!TypeOK'
    BY <1>1 DEF HInv, HookTypes, Hooks!TypeOK
  <2>. QED
    BY <1>1, <1>6, <2>1, <2>2 DEF HInv, HookTypes
<1>8. OnePass'
  <2>1. new.on /\ new.left # <<>>
    BY <1>1, <1>2, <1>3 DEF HInv, OnePass
  <2>. QED
    BY <1>1, <1>2, <1>4, <2>1 DEF HInv, OnePass
<1>9. ReadsStand'
  <2>1. \A q \in Hooks!Passes : pass'[q].left = pass[q].left
    BY <1>3, <1>4
  <2>. QED
    BY <1>1, <2>1 DEF HInv, ReadsStand, Untouched
<1>10. AttemptsLeft' /\ EndedRipe'
  BY <1>1 DEF HInv, AttemptsLeft, EndedRipe
<1>11. Counted'
  <2>1. \A e : Open(e) = 0 /\ Open(e)' = IF e = d.id THEN 1 ELSE 0
    BY <1>1, <1>2, <1>3, <1>4 DEF Open, d
  <2>. SUFFICES ASSUME NEW e \in 1..Len(rows)
                PROVE  tries'[e] = rows[e].n + lost[e] + (IF e = d.id THEN 1 ELSE 0)
    BY <1>1, <2>1 DEF Counted
  <2>2. tries[e] = rows[e].n + lost[e] + 0 /\ rows[e].n \in Nat /\ lost[e] \in Nat /\ tries[e] \in Nat
    BY <2>1, Numbers DEF HInv, Counted
  <2>. QED
    BY <1>6, <2>2
<1>. QED
  BY <1>7, <1>8, <1>9, <1>10, <1>11 DEF HInv

\* The row after its attempt: one attempt more, and it ended when there are no more.
LEMMA AttemptedIs ==
    ASSUME HookTypes, NEW row_ \in Hooks!Row, NEW answer, NEW n \in Nat, n < MaxAttempts
    PROVE  LET new == Hooks!Attempted(row_, n + 1, answer) IN
           /\ new \in Hooks!Row /\ new.n = n + 1 /\ new.hook = row_.hook
           /\ new.at \in Hooks!Ended => new.ripe = row_.ripe
           /\ new.at = "failed" => new.n = MaxAttempts
           /\ new.at \notin Hooks!Ended => new.n < MaxAttempts
<1>. DEFINE new == Hooks!Attempted(row_, n + 1, answer)
<1>1. n + 1 \in 0..MaxAttempts /\ (n + 1 < MaxAttempts \/ n + 1 = MaxAttempts) /\ MaxAttempts \in Nat
  <2>1. MaxAttempts \in Nat
    BY Numbers, Zenon
  <2>. QED
    BY <2>1
<1>2. n + 1 >= MaxAttempts <=> n + 1 = MaxAttempts
  BY <1>1
<1>. DEFINE k == n + 1
<1>. HIDE DEF k
<1>3. new = Hooks!Attempted(row_, k, answer)
  BY DEF k
<1>4. k \in 0..MaxAttempts /\ (k < MaxAttempts \/ k = MaxAttempts) /\ (k >= MaxAttempts <=> k = MaxAttempts)
  BY <1>1, <1>2 DEF k
<1>5. CASE answer = "ok"
  <2>1. new = [row_ EXCEPT !.at = "delivered", !.n = k]
    BY <1>3, <1>5 DEF Hooks!Attempted
  <2>. QED
    BY <1>4, <2>1 DEF Hooks!Row, Hooks!Ended, k
<1>6. CASE answer # "ok" /\ k = MaxAttempts
  <2>1. new = [row_ EXCEPT !.at = "failed", !.n = k]
    BY <1>3, <1>4, <1>6 DEF Hooks!Attempted, Hooks!OutOf
  <2>. QED
    BY <1>4, <1>6, <2>1 DEF Hooks!Row, Hooks!Ended, k
<1>7. CASE answer # "ok" /\ k # MaxAttempts
  <2>1. new = [row_ EXCEPT !.at = "retrying", !.n = k, !.ripe = FALSE]
    BY <1>3, <1>4, <1>7 DEF Hooks!Attempted, Hooks!OutOf
  <2>. QED
    BY <1>4, <1>7, <2>1 DEF Hooks!Row, Hooks!Ended, k
<1>. QED
  BY <1>5, <1>6, <1>7

\* A pass stores the answer in its row, or the update fails and nothing is
\* stored; either way the row is not in what it has left.
LEMMA RecordHolds ==
    ASSUME HInv, NEW p \in Hooks!Passes, Hooks!Record(p)
    PROVE  HInv'
<1>. DEFINE left == pass[p].left
            d == Head(left)
            next == [pass[p] EXCEPT !.left = Tail(left), !.answer = "none"]
            new == Hooks!Attempted(rows[d.id], d.n + 1, pass[p].answer)
            N == Len(rows)
<1>1. /\ pass[p].answer # "none" /\ pass' = [pass EXCEPT ![p] = next]
      /\ UNCHANGED <<hook, queueing, mu, silent, tries>>
      /\ \/ rows' = [rows EXCEPT ![d.id] = new] /\ UNCHANGED <<lost, faults>>
         \/ faults' = faults + 1 /\ lost' = [lost EXCEPT ![d.id] = lost[d.id] + 1] /\ UNCHANGED rows
  BY DEF Hooks!Record
<1>2. left # <<>>
  BY <1>1 DEF HInv, OnePass
<1>3. /\ d = left[1] /\ d \in Attempt /\ 1 \in 1..Len(left) /\ mu = p
      /\ d.id \in 1..N /\ rows[d.id].n = d.n /\ d.n \in Nat /\ d.n < MaxAttempts
      /\ left \in Seq(Attempt) /\ pass[p] \in PassState /\ rows[d.id].ripe = TRUE
  BY <1>2, NextToAttempt
<1>4. /\ rows[d.id] \in Hooks!Row
      /\ new \in Hooks!Row /\ new.n = d.n + 1 /\ new.hook = rows[d.id].hook
      /\ new.at \in Hooks!Ended => new.ripe = TRUE
      /\ new.at = "failed" => new.n = MaxAttempts
      /\ new.at \notin Hooks!Ended => new.n < MaxAttempts
  <2>1. HookTypes /\ rows[d.id] \in Hooks!Row
    BY <1>3, Numbers DEF HInv
  <2>. QED
    BY <1>3, <2>1, AttemptedIs, ZenonT(60)
<1>5. /\ Tail(left) \in Seq(Attempt) /\ Len(Tail(left)) = Len(left) - 1 /\ Len(left) \in Nat
      /\ \A i \in 1..Len(Tail(left)) : Tail(left)[i] = left[i + 1]
  BY <1>2, <1>3, HeadTailProperties
<1>6. next \in PassState /\ next.on = pass[p].on /\ next.left = Tail(left) /\ next.answer = "none"
  BY <1>3, <1>5 DEF PassState
<1>7. pass'[p] = next /\ \A q \in Hooks!Passes \ {p} : pass'[q] = pass[q] /\ q # mu
  BY <1>1, <1>3 DEF HInv, HookTypes
<1>8. /\ rows \in Seq(Hooks!Row) /\ lost \in Seq(Nat) /\ Len(lost) = N /\ N \in Nat /\ faults \in Nat
      /\ lost[d.id] + 1 \in Nat
  <2>1. rows \in Seq(Hooks!Row) /\ lost \in Seq(Nat) /\ Len(lost) = N /\ faults \in Nat
    BY DEF HInv, HookTypes, Hooks!TypeOK
  <2>2. N \in Nat /\ lost[d.id] \in Nat
    BY <1>3, Numbers DEF HInv
  <2>. QED
    BY <2>1, <2>2
<1>. HIDE DEF next, new, d, left, N
\* Only the attempted row changes: what it counts grows by the attempt.
<1>9. /\ rows' \in Seq(Hooks!Row) /\ Len(rows') = N /\ lost' \in Seq(Nat) /\ Len(lost') = N /\ faults' \in Nat
      /\ \A e \in 1..N : e # d.id => rows'[e] = rows[e] /\ lost'[e] = lost[e]
      /\ rows'[d.id].hook = rows[d.id].hook
      /\ \/ rows'[d.id] = new /\ lost'[d.id] = lost[d.id]
         \/ rows'[d.id] = rows[d.id] /\ lost'[d.id] = lost[d.id] + 1
  <2>1. CASE rows' = [rows EXCEPT ![d.id] = new] /\ UNCHANGED <<lost, faults>>
    <3>1. rows \in Seq(Hooks!Row) /\ d.id \in 1..Len(rows) /\ new \in Hooks!Row
      BY <1>3, <1>4, <1>8 DEF N
    <3>2. /\ rows' \in Seq(Hooks!Row) /\ Len(rows') = Len(rows)
          /\ \A e \in 1..Len(rows) : rows'[e] = IF e = d.id THEN new ELSE rows[e]
      BY <2>1, <3>1, ExceptSeq
    <3>. QED
      BY <1>3, <1>4, <1>8, <2>1, <3>2 DEF N
  <2>2. CASE faults' = faults + 1 /\ lost' = [lost EXCEPT ![d.id] = lost[d.id] + 1] /\ UNCHANGED rows
    <3>. DEFINE more == lost[d.id] + 1
    <3>1. lost \in Seq(Nat) /\ d.id \in 1..Len(lost) /\ more \in Nat /\ lost' = [lost EXCEPT ![d.id] = more]
      BY <1>3, <1>8, <2>2
    <3>. HIDE DEF more
    <3>2. /\ lost' \in Seq(Nat) /\ Len(lost') = Len(lost)
          /\ \A e \in 1..Len(lost) : lost'[e] = IF e = d.id THEN more ELSE lost[e]
      BY <3>1, ExceptSeq
    <3>. QED
      BY <1>3, <1>8, <2>2, <3>2 DEF more, N
  <2>. QED
    BY <1>1, <2>1, <2>2
<1>10. HookTypes'
  <2>1. pass' \in [Hooks!Passes -> PassState]
    BY <1>1, <1>6 DEF HInv, HookTypes
  <2>2. DOMAIN rows' = 1..N /\ DOMAIN rows = 1..N
    BY <1>8, <1>9, LenProperties DEF N
  <2>3. \A e \in DOMAIN rows' : rows'[e].at = "failed" => rows'[e].n = MaxAttempts
    <3>1. \A e \in 1..N : rows[e].at = "failed" => rows[e].n = MaxAttempts
      BY <2>2 DEF HInv, HookTypes, Hooks!TypeOK
    <3>. QED
      BY <1>4, <1>9, <2>2, <3>1
  <2>4. Hooks!TypeOK'
    BY <1>1, <1>9, <2>3 DEF HInv, HookTypes, Hooks!TypeOK, N
  <2>. QED
    BY <1>1, <1>9, <2>1, <2>4 DEF HInv, HookTypes, N
<1>11. OnePass'
  <2>1. pass[p].on
    BY <1>3 DEF HInv, OnePass
  <2>. QED
    BY <1>1, <1>3, <1>6, <1>7, <2>1 DEF HInv, OnePass
<1>12. ReadsStand'
  <2>. SUFFICES ASSUME NEW q \in Hooks!Passes, NEW i \in 1..Len(pass'[q].left)
                PROVE  LET e == pass'[q].left[i] IN
                       /\ e.id \in 1..Len(rows') /\ rows'[e.id].at \notin Hooks!Ended /\ rows'[e.id].ripe = TRUE
                       /\ rows'[e.id].n = e.n /\ rows'[e.id].hook \notin silent'
                       /\ \A k \in 1..Len(pass'[q].left) : k # i => pass'[q].left[k].id # e.id
    BY DEF ReadsStand, Untouched
  <2>1. q = p
    <3>1. ASSUME q # p PROVE pass'[q].left = <<>>
      BY <1>7, <3>1 DEF HInv, OnePass, Hooks!Off
    <3>2. 1..Len(<<>>) = {}
      BY EmptySeq
    <3>. QED
      BY <3>1, <3>2
  <2>2. pass'[q].left = Tail(left)
    BY <1>6, <1>7, <2>1
  <2>3. /\ i + 1 \in 1..Len(left) /\ i + 1 # 1 /\ Tail(left)[i] = left[i + 1]
        /\ \A k \in 1..Len(Tail(left)) : k + 1 \in 1..Len(left) /\ (k # i => k + 1 # i + 1)
    BY <1>5, <2>2
  <2>. DEFINE e == left[i + 1]
  <2>4. /\ e.id \in 1..N /\ rows[e.id].at \notin Hooks!Ended /\ rows[e.id].ripe = TRUE
        /\ rows[e.id].n = e.n /\ rows[e.id].hook \notin silent
        /\ \A k \in 1..Len(left) : k # i + 1 => left[k].id # e.id
    BY <2>3 DEF HInv, ReadsStand, Untouched, left, N
  <2>5. e.id # d.id
    BY <1>3, <2>3, <2>4
  <2>6. \A k \in 1..Len(Tail(left)) : k # i => Tail(left)[k].id # e.id
    BY <1>5, <2>3, <2>4
  <2>7. rows'[e.id] = rows[e.id] /\ Len(rows') = N /\ silent' = silent
    BY <1>1, <1>9, <2>4, <2>5
  <2>8. pass'[q].left[i] = e
    BY <2>2, <2>3
  <2>. HIDE DEF e
  <2>. QED
    BY <2>2, <2>4, <2>6, <2>7, <2>8
<1>13. AttemptsLeft'
  <2>1. \A e \in 1..N : rows[e].at \notin Hooks!Ended => rows[e].n < MaxAttempts
    BY DEF HInv, AttemptsLeft, N
  <2>. QED
    BY <1>4, <1>9, <2>1 DEF AttemptsLeft
<1>13a. EndedRipe'
  <2>1. \A e \in 1..N : rows[e].at \in Hooks!Ended => rows[e].ripe = TRUE
    BY DEF HInv, EndedRipe, N
  <2>2. \A e \in 1..N : rows'[e] = rows[e] \/ rows'[e] = new
    BY <1>9
  <2>. QED
    BY <1>4, <1>9, <2>1, <2>2 DEF EndedRipe
<1>14. Counted'
  <2>1. \A e : Open(e) = (IF e = d.id THEN 1 ELSE 0) /\ Open(e)' = 0
    BY <1>1, <1>3, <1>6, <1>7 DEF Open, d, left
  <2>2. \A e \in 1..N : /\ tries[e] = rows[e].n + lost[e] + Open(e)
                        /\ rows[e].n \in Nat /\ lost[e] \in Nat /\ tries[e] \in Nat
    BY Numbers DEF HInv, Counted, N
  <2>. SUFFICES ASSUME NEW e \in 1..N
                PROVE  tries[e] = rows'[e].n + lost'[e] + 0
    BY <1>1, <1>9, <2>1 DEF Counted
  <2>3. CASE e = d.id
    <3>1. tries[e] = d.n + lost[e] + 1 /\ d.n \in Nat /\ lost[e] \in Nat
      BY <1>3, <2>1, <2>2, <2>3
    <3>2. \/ rows'[e].n = d.n + 1 /\ lost'[e] = lost[e]
          \/ rows'[e].n = d.n /\ lost'[e] = lost[e] + 1
      BY <1>3, <1>4, <1>9, <2>3
    <3>. QED
      BY <3>1, <3>2
  <2>4. CASE e # d.id
    BY <1>9, <2>1, <2>2, <2>4
  <2>. QED
    BY <2>3, <2>4
<1>. QED
  BY <1>10, <1>11, <1>12, <1>13, <1>13a, <1>14 DEF HInv

\* A pass that has gone through its rows gives the lock back.
LEMMA FinishHolds ==
    ASSUME HInv, NEW p \in Hooks!Passes, Hooks!Finish(p)
    PROVE  HInv'
<1>1. /\ pass[p].on /\ pass' = [pass EXCEPT ![p] = Hooks!Off] /\ mu' = "free"
      /\ UNCHANGED <<hook, queueing, rows, silent, tries, lost, faults>>
  BY DEF Hooks!Finish, Hooks!Release, Hooks!store, Hooks!aux
<1>2. mu = p /\ pass[p].left = <<>> /\ pass[p].answer = "none"
  BY <1>1 DEF HInv, OnePass, Hooks!Finish
<1>3. /\ pass'[p] = Hooks!Off /\ \A q \in Hooks!Passes \ {p} : pass'[q] = pass[q] /\ pass[q] = Hooks!Off
      /\ Hooks!Off \in PassState /\ \A q \in Hooks!Passes : q # "free"
  <2>1. <<>> \in Seq(Attempt)
    BY EmptySeq
  <2>2. \A q \in Hooks!Passes \ {p} : pass[q] = Hooks!Off
    BY <1>2 DEF HInv, OnePass
  <2>. QED
    BY <1>1, <2>1, <2>2 DEF HInv, HookTypes, Hooks!Off, PassState, Hooks!Passes
<1>4. HookTypes'
  <2>1. pass' \in [Hooks!Passes -> PassState]
    BY <1>1, <1>3 DEF HInv, HookTypes
  <2>2. Hooks!TypeOK'
    BY <1>1 DEF HInv, HookTypes, Hooks!TypeOK
  <2>. QED
    BY <1>1, <2>1, <2>2 DEF HInv, HookTypes
<1>5. OnePass'
  BY <1>1, <1>3 DEF OnePass, Hooks!Off
<1>6. \A q \in Hooks!Passes : pass'[q].left = pass[q].left
  BY <1>2, <1>3 DEF Hooks!Off
<1>7. ReadsStand' /\ AttemptsLeft' /\ EndedRipe'
  BY <1>1, <1>6, SMTT(60) DEF HInv, ReadsStand, Untouched, AttemptsLeft, EndedRipe
<1>8. Counted'
  <2>1. \A e : Open(e) = 0 /\ Open(e)' = 0
    BY <1>1, <1>2, <1>3 DEF Open
  <2>. QED
    BY <1>1, <2>1 DEF HInv, Counted
<1>. QED
  BY <1>4, <1>5, <1>7, <1>8 DEF HInv

\* The service stops: an attempt without its answer stored is lost.
LEMMA StopsHold ==
    ASSUME HInv, Hooks!Stop
    PROVE  HInv'
<1>. DEFINE N == Len(rows)
<1>1. /\ queueing' = <<>> /\ mu' = "free" /\ pass' = [p \in Hooks!Passes |-> Hooks!Off] /\ faults' = faults + 1
      /\ hook' = [w \in Endpoints |-> IF hook[w] = "counted" THEN "none" ELSE hook[w]]
      /\ UNCHANGED <<rows, silent, tries>>
  BY DEF Hooks!Stop
<1>2. lost' = [e \in 1..N |-> lost[e] + Open(e)]
  <2>1. DOMAIN rows = 1..N
    BY Numbers DEF HInv
  <2>2. lost' = [e \in DOMAIN rows |-> lost[e] + Open(e)]
    BY OneWaits DEF HInv, Hooks!Stop
  <2>. QED
    BY <2>1, <2>2
<1>3. \A e \in 1..N : lost[e] \in Nat /\ lost[e] + Open(e) \in Nat
  <2>1. \A e : Open(e) = 0 \/ Open(e) = 1
    BY DEF Open
  <2>2. \A e \in 1..N : lost[e] \in Nat
    BY Numbers DEF HInv
  <2>. QED
    BY <2>1, <2>2
<1>4. N \in Nat /\ <<>> \in Seq(Attempt) /\ <<>> \in Seq(Endpoints) /\ Len(<<>>) = 0
  BY EmptySeq, Numbers DEF HInv
<1>5. HookTypes'
  <2>1. lost' \in Seq(Nat) /\ Len(lost') = N
    <3>. HIDE DEF N
    <3>. QED
      BY <1>2, <1>3, <1>4
  <2>2. pass' \in [Hooks!Passes -> PassState]
    BY <1>1, <1>4 DEF Hooks!Off, PassState
  <2>3. hook' \in [Endpoints -> {"none", "counted", "active", "disabled"}]
    BY <1>1 DEF HInv, HookTypes, Hooks!TypeOK
  <2>4. Len(rows') + Len(queueing') <= MaxRows
    <3>1. N + Len(queueing) <= MaxRows /\ Len(queueing) \in Nat /\ MaxRows \in Nat
      BY Numbers DEF HInv, HookTypes, Hooks!TypeOK
    <3>. QED
      BY <1>1, <1>4, <3>1
  <2>5. Hooks!TypeOK'
    BY <1>1, <1>4, <2>3, <2>4 DEF HInv, HookTypes, Hooks!TypeOK
  <2>. QED
    BY <1>1, <2>1, <2>2, <2>5 DEF HInv, HookTypes
<1>6. OnePass'
  BY <1>1 DEF OnePass, Hooks!Off, Hooks!Passes
<1>7. ReadsStand' /\ AttemptsLeft' /\ EndedRipe'
  <2>1. 1..Len(<<>>) = {}
    BY <1>4
  <2>2. \A q \in Hooks!Passes : pass'[q].left = <<>>
    BY <1>1 DEF Hooks!Off
  <2>. QED
    BY <1>1, <2>1, <2>2 DEF HInv, ReadsStand, Untouched, AttemptsLeft, EndedRipe
<1>8. Counted'
  <2>1. \A e : Open(e)' = 0 /\ Open(e) \in {0, 1}
    BY <1>1 DEF Open, Hooks!Passes
  <2>2. \A e \in 1..N : /\ tries[e] = rows[e].n + lost[e] + Open(e)
                        /\ rows[e].n \in Nat /\ lost[e] \in Nat /\ tries[e] \in Nat
    BY Numbers DEF HInv, Counted
  <2>. SUFFICES ASSUME NEW e \in 1..N
                PROVE  tries[e] = rows[e].n + lost'[e] + 0
    BY <1>1, <2>1 DEF Counted
  <2>3. lost'[e] = lost[e] + Open(e)
    BY <1>2
  <2>. QED
    BY <2>1, <2>2, <2>3
<1>. QED
  BY <1>5, <1>6, <1>7, <1>8 DEF HInv

LEMMA HooksStepHolds == HInv /\ (Hooks!Next \/ UNCHANGED hooksVars) => HInv'
<1>. SUFFICES ASSUME HInv, Hooks!Next \/ UNCHANGED hooksVars PROVE HInv'
  OBVIOUS
<1>1. CASE UNCHANGED hooksVars
  <2>1. Hooks!TypeOK'
    BY <1>1 DEF hooksVars, HInv, HookTypes, Hooks!TypeOK
  <2>. QED
    BY <1>1, <2>1, Elsewhere DEF hooksVars
<1>2. CASE Hooks!Stop
  BY <1>2, StopsHold
<1>3. ASSUME NEW w \in Endpoints, Hooks!Count(w) \/ Hooks!Insert(w) \/ Hooks!Disable(w) PROVE HInv'
  BY <1>3, EndpointMoves
<1>4. ASSUME NEW S \in SUBSET Endpoints, Hooks!Emit(S) PROVE HInv'
  BY <1>4, EmitHolds
<1>5. ASSUME NEW i \in DOMAIN queueing, Hooks!Queue(i) PROVE HInv'
  BY <1>5, QueueHolds
<1>6. ASSUME NEW d \in 1..MaxRows, Hooks!Ripen(d) PROVE HInv'
  BY <1>6, RipenHolds
<1>7. ASSUME NEW p \in Hooks!Passes, Hooks!Start(p) PROVE HInv'
  BY <1>7, StartHolds
<1>8. ASSUME NEW p \in Hooks!Passes, Hooks!Record(p) PROVE HInv'
  BY <1>8, RecordHolds
<1>9. ASSUME NEW p \in Hooks!Passes, Hooks!Finish(p) PROVE HInv'
  BY <1>9, FinishHolds
<1>10. ASSUME NEW p \in Hooks!Passes, NEW answer \in {"ok", "bad"}, Hooks!Send(p, answer) PROVE HInv'
  BY <1>10, SendHolds
<1>. QED
  BY <1>1, <1>2, <1>3, <1>4, <1>5, <1>6, <1>7, <1>8, <1>9, <1>10 DEF Hooks!Next

\* What a step may do to a row: one that ended is left alone, and one of an
\* endpoint that was disabled before the pass is not attempted.
LEMMA RowsKept ==
    ASSUME HInv, Hooks!Next \/ UNCHANGED hooksVars, NEW d \in DOMAIN rows
    PROVE  /\ rows[d].at \in Hooks!Ended => rows'[d] = rows[d] /\ tries'[d] = tries[d]
           /\ rows[d].hook \in silent => tries'[d] = tries[d]
<1>. DEFINE Kept == /\ rows[d].at \in Hooks!Ended => rows'[d] = rows[d] /\ tries'[d] = tries[d]
                    /\ rows[d].hook \in silent => tries'[d] = tries[d]
<1>1. /\ d \in 1..Len(rows) /\ rows \in Seq(Hooks!Row)
      /\ tries \in Seq(Nat) /\ Len(tries) = Len(rows)
  BY Numbers DEF HInv, HookTypes, Hooks!TypeOK
<1>2. CASE UNCHANGED <<rows, tries>>
  BY <1>2
<1>3. ASSUME NEW i \in DOMAIN queueing, Hooks!Queue(i) PROVE Kept
  <2>. DEFINE new == [hook |-> queueing[i], at |-> "pending", n |-> 0, ripe |-> TRUE]
  <2>1. rows' = Append(rows, new) /\ tries' = Append(tries, 0)
    BY <1>3 DEF Hooks!Queue
  <2>. HIDE DEF new
  <2>2. rows'[d] = rows[d] /\ tries'[d] = tries[d]
    BY <1>1, <2>1
  <2>. QED
    BY <2>2
<1>4. ASSUME NEW e \in 1..MaxRows, Hooks!Ripen(e) PROVE Kept
  <2>1. ~ rows[e].ripe /\ rows' = [rows EXCEPT ![e].ripe = TRUE] /\ tries' = tries
    BY <1>4 DEF Hooks!Ripen, Hooks!aux
  <2>2. rows[d].at \in Hooks!Ended => d # e
    BY <1>1, <2>1 DEF HInv, EndedRipe
  <2>. QED
    BY <1>1, <2>1, <2>2
<1>5. ASSUME NEW p \in Hooks!Passes, NEW answer \in {"ok", "bad"}, Hooks!Send(p, answer) PROVE Kept
  <2>1. /\ rows' = rows /\ pass[p].left # <<>>
        /\ tries' = [tries EXCEPT ![Head(pass[p].left).id] = @ + 1]
    BY <1>5 DEF Hooks!Send, Hooks!store
  <2>2. rows[Head(pass[p].left).id].at \notin Hooks!Ended /\ rows[Head(pass[p].left).id].hook \notin silent
    BY <2>1, NextToAttempt
  <2>. QED
    BY <1>1, <2>1, <2>2
<1>6. ASSUME NEW p \in Hooks!Passes, Hooks!Record(p) PROVE Kept
  <2>. DEFINE id == Head(pass[p].left).id
  <2>1. pass[p].left # <<>> /\ tries' = tries
    BY <1>6 DEF HInv, OnePass, Hooks!Record
  <2>2. PICK new : rows' = [rows EXCEPT ![id] = new] \/ rows' = rows
    BY <1>6 DEF Hooks!Record
  <2>3. rows[id].at \notin Hooks!Ended
    BY <2>1, NextToAttempt
  <2>. QED
    BY <1>1, <2>1, <2>2, <2>3
<1>7. Hooks!Next =>
        \/ \E i \in DOMAIN queueing : Hooks!Queue(i)
        \/ \E e \in 1..MaxRows : Hooks!Ripen(e)
        \/ \E p \in Hooks!Passes : Hooks!Record(p) \/ \E answer \in {"ok", "bad"} : Hooks!Send(p, answer)
        \/ UNCHANGED <<rows, tries>>
  <2>. SUFFICES ASSUME \/ Hooks!Stop
                       \/ \E w \in Endpoints : Hooks!Count(w) \/ Hooks!Insert(w) \/ Hooks!Disable(w)
                       \/ \E S \in SUBSET Endpoints : Hooks!Emit(S)
                       \/ \E p \in Hooks!Passes : Hooks!Start(p) \/ Hooks!Finish(p)
                PROVE  UNCHANGED <<rows, tries>>
    BY DEF Hooks!Next
  <2>. QED
    BY DEF Hooks!Stop, Hooks!Count, Hooks!Insert, Hooks!Disable, Hooks!Emit, Hooks!Start, Hooks!Finish,
           Hooks!store, Hooks!aux
<1>. QED
  BY <1>2, <1>3, <1>4, <1>5, <1>6, <1>7 DEF hooksVars

-----------------------------------------------------------------------------
\* The locks: what a handler may do from here on.

LockKinds == {"use", "lock", "give", "reserve", "keep", "remote", "return"}
LockSteps == LockKinds \X (Locks!Resources \cup {"none"})

\* Whoever waits holds resources of lower ranks only.
Rank(m) == IF m = "program" THEN 1 ELSE IF m = "conn" THEN 3 ELSE 2

\* What a request holds, and the resource whose release it deferred last, if
\* that is known.
Tops == Locks!Resources \cup {"none"}
Places == [held : SUBSET Locks!Resources, top : Tops]
At(S, x) == [held |-> S, top |-> x]

\* A step that keeps to the order of ranks, and does not wait for the network,
\* reserve or keep with the connection in hand.
InOrder(step, s) ==
    /\ Locks!Need(step) # "none" => \A m \in s.held : Rank(m) < Rank(Locks!Need(step))
    /\ step[1] \in {"remote", "reserve", "keep"} => "conn" \notin s.held
    /\ step[1] \in {"lock", "give"} => step[2] \in Locks!Resources
    /\ step[1] = "return" => s.top # "none"

After(step, s) ==
    IF step[1] = "lock" THEN At(s.held \cup {step[2]}, step[2])
    ELSE IF step[1] = "give" THEN At(s.held \ {step[2]}, s.top)
    ELSE IF step[1] = "return" THEN At(s.held \ {s.top}, "none")
    ELSE IF step[1] \in {"reserve", "keep"} THEN At(s.held, "none")
    ELSE s

\* From s on, every step of t keeps to the order: t is in a set of which each
\* member does so and goes on within the set.
OrderedIn(G) ==
    \A p \in G : /\ p[1] \in Seq(LockSteps) /\ p[2] \in Places
                 /\ p[1] # <<>> => /\ InOrder(Head(p[1]), p[2])
                                   /\ <<Tail(p[1]), After(Head(p[1]), p[2])>> \in G
Ordered(t, s) == \E G : OrderedIn(G) /\ <<t, s>> \in G

LEMMA AfterIs == ASSUME NEW step \in LockSteps, NEW s \in Places, InOrder(step, s)
                 PROVE  After(step, s) \in Places
BY DEF After, At, Places, Tops, LockSteps, InOrder

LEMMA OrderedEnds == ASSUME NEW s \in Places PROVE Ordered(<<>>, s)
<1>1. <<>> \in Seq(LockSteps)
  OBVIOUS
<1>2. OrderedIn({<<<<>>, s>>})
  <2>1. ASSUME NEW p \in {<<<<>>, s>>} PROVE p[1] = <<>> /\ p[2] = s
    BY <2>1
  <2>. QED
    BY <1>1, <2>1, Zenon DEF OrderedIn
<1>. QED
  BY <1>2 DEF Ordered

LEMMA OrderedIs ==
    ASSUME NEW t, NEW s, Ordered(t, s)
    PROVE  t \in Seq(LockSteps) /\ s \in Places
BY Zenon DEF Ordered, OrderedIn

LEMMA OrderedGoes ==
    ASSUME NEW t, NEW s, Ordered(t, s), t # <<>>
    PROVE  InOrder(Head(t), s) /\ Ordered(Tail(t), After(Head(t), s))
<1>1. PICK G : OrderedIn(G) /\ <<t, s>> \in G
  BY Zenon DEF Ordered
<1>2. PICK p : p = <<t, s>>
  OBVIOUS
<1>3. p \in G /\ p[1] = t /\ p[2] = s
  BY <1>1, <1>2
<1>4. InOrder(Head(t), s) /\ <<Tail(t), After(Head(t), s)>> \in G
  BY <1>1, <1>3, Zenon DEF OrderedIn
<1>. QED
  BY <1>1, <1>4, Zenon DEF Ordered

LEMMA OrderedBegins ==
    ASSUME NEW step \in LockSteps, NEW s \in Places, InOrder(step, s), NEW t, Ordered(t, After(step, s))
    PROVE  Ordered(<<step>> \o t, s)
<1>1. PICK G : OrderedIn(G) /\ <<t, After(step, s)>> \in G
  BY Zenon DEF Ordered
<1>2. t \in Seq(LockSteps)
  BY OrderedIs, Zenon
<1>3. PICK q : q = <<step>> \o t
  OBVIOUS
<1>4. q \in Seq(LockSteps) /\ Head(q) = step /\ Tail(q) = t
  BY <1>2, <1>3
<1>5. OrderedIn(G \cup {<<q, s>>})
  <2>1. ASSUME NEW p \in G \cup {<<q, s>>}
        PROVE  /\ p[1] \in Seq(LockSteps) /\ p[2] \in Places
               /\ p[1] # <<>> => /\ InOrder(Head(p[1]), p[2])
                                 /\ <<Tail(p[1]), After(Head(p[1]), p[2])>> \in G \cup {<<q, s>>}
    <3>1. CASE p \in G
      BY <1>1, <3>1, Zenon DEF OrderedIn
    <3>2. CASE p = <<q, s>>
      <4>1. p[1] = q /\ p[2] = s
        BY <3>2
      <4>. QED
        BY <1>1, <1>4, <4>1, Zenon
    <3>. QED
      BY <2>1, <3>1, <3>2, Zenon
  <2>. QED
    BY <2>1, Zenon DEF OrderedIn
<1>6. <<q, s>> \in G \cup {<<q, s>>}
  OBVIOUS
<1>. QED
  BY <1>3, <1>5, <1>6, Zenon DEF Ordered

\* From s on, b keeps to the order and leads to e.
Leads(b, s, e) == b \in Seq(LockSteps) /\ \A t : Ordered(t, e) => Ordered(b \o t, s)

LEMMA LeadsOne ==
    ASSUME NEW step \in LockSteps, NEW s \in Places, InOrder(step, s)
    PROVE  Leads(<<step>>, s, After(step, s))
<1>1. <<step>> \in Seq(LockSteps)
  OBVIOUS
<1>. QED
  BY <1>1, OrderedBegins, Zenon DEF Leads

LEMMA LeadsOn ==
    ASSUME NEW a, NEW b, NEW s, NEW m, NEW e, Leads(a, s, m), Leads(b, m, e)
    PROVE  Leads(a \o b, s, e)
<1>1. a \in Seq(LockSteps) /\ b \in Seq(LockSteps)
  BY Zenon DEF Leads
<1>2. a \o b \in Seq(LockSteps)
  BY <1>1, ConcatProperties
<1>3. ASSUME NEW t, Ordered(t, e) PROVE Ordered((a \o b) \o t, s)
  <2>1. t \in Seq(LockSteps)
    BY <1>3, OrderedIs, Zenon
  <2>2. (a \o b) \o t = a \o (b \o t)
    BY <1>1, <2>1, ConcatAssociative
  <2>3. Ordered(a \o (b \o t), s)
    BY <1>3, Zenon DEF Leads
  <2>. QED
    BY <2>2, <2>3, Zenon
<1>. QED
  BY <1>2, <1>3, Zenon DEF Leads

\* b can be run by who holds S, whatever was deferred last, and leaves E held.
Runs(b, S, E) == \A x \in Tops : \E y \in Tops : Leads(b, At(S, x), At(E, y))

LEMMA RunsOn ==
    ASSUME NEW a, NEW b, NEW S, NEW M, NEW E, Runs(a, S, M), Runs(b, M, E)
    PROVE  Runs(a \o b, S, E)
<1>. SUFFICES ASSUME NEW x \in Tops PROVE \E y \in Tops : Leads(a \o b, At(S, x), At(E, y))
  BY Zenon DEF Runs
<1>1. PICK z \in Tops : Leads(a, At(S, x), At(M, z))
  BY Zenon DEF Runs
<1>2. PICK y \in Tops : Leads(b, At(M, z), At(E, y))
  BY Zenon DEF Runs
<1>. QED
  BY <1>1, <1>2, LeadsOn, Zenon

LEMMA RunsOrdered ==
    ASSUME NEW b, NEW E \in SUBSET Locks!Resources, Runs(b, {}, E)
    PROVE  Ordered(b, At({}, "none"))
<1>1. PICK y \in Tops : Leads(b, At({}, "none"), At(E, y))
  BY Zenon DEF Runs, Tops
<1>2. At(E, y) \in Places
  BY DEF At, Places
<1>3. Ordered(<<>>, At(E, y)) /\ b \in Seq(LockSteps)
  BY <1>1, <1>2, OrderedEnds, Zenon DEF Leads
<1>4. Ordered(b \o <<>>, At({}, "none"))
  BY <1>1, <1>3, Zenon DEF Leads
<1>5. b \o <<>> = b
  BY <1>3, ConcatEmptySeq, Zenon
<1>. QED
  BY <1>4, <1>5, Zenon

-----------------------------------------------------------------------------
\* The locks: the handlers.

LEMMA StepsOfLocks ==
    /\ Locks!Query \in LockSteps /\ Locks!Remote \in LockSteps /\ Locks!Reserve \in LockSteps
    /\ Locks!Keep \in LockSteps /\ Locks!Return \in LockSteps
    /\ \A m \in Locks!Resources : Locks!Lock(m) \in LockSteps /\ Locks!Release(m) \in LockSteps
BY DEF LockSteps, LockKinds, Locks!Resources, Locks!Query, Locks!Remote, Locks!Reserve, Locks!Keep, Locks!Return,
       Locks!Lock, Locks!Release

LEMMA OneRun ==
    ASSUME NEW step \in LockSteps, NEW S \in SUBSET Locks!Resources, NEW E \in SUBSET Locks!Resources,
           \A x \in Tops : InOrder(step, At(S, x)) /\ \E y \in Tops : After(step, At(S, x)) = At(E, y)
    PROVE  Runs(<<step>>, S, E)
<1>. SUFFICES ASSUME NEW x \in Tops PROVE \E y \in Tops : Leads(<<step>>, At(S, x), At(E, y))
  BY Zenon DEF Runs
<1>1. At(S, x) \in Places
  BY DEF At, Places
<1>2. PICK y \in Tops : After(step, At(S, x)) = At(E, y)
  OBVIOUS
<1>3. Leads(<<step>>, At(S, x), After(step, At(S, x)))
  BY <1>1, LeadsOne, Zenon
<1>. QED
  BY <1>2, <1>3, Zenon

\* Steps that do not take anything, with the connection not in hand.
LEMMA QuietRuns ==
    ASSUME NEW S \in SUBSET Locks!Resources, "conn" \notin S
    PROVE  /\ Runs(<<Locks!Query>>, S, S) /\ Runs(<<Locks!Remote>>, S, S)
           /\ Runs(<<Locks!Reserve>>, S, S) /\ Runs(<<Locks!Keep>>, S, S)
<1>1. \A m \in S : Rank(m) < Rank("conn")
  BY DEF Rank
<1>2. \A x : At(S, x).held = S /\ At(S, x).top = x
  BY DEF At
<1>3. "none" \in Tops
  BY DEF Tops
<1>4. Runs(<<Locks!Query>>, S, S)
  <2>1. ASSUME NEW x \in Tops
        PROVE  InOrder(Locks!Query, At(S, x)) /\ After(Locks!Query, At(S, x)) = At(S, x)
    BY <1>1, <1>2 DEF InOrder, After, Locks!Query, Locks!Need
  <2>. QED
    BY <2>1, OneRun, StepsOfLocks, Zenon
<1>5. Runs(<<Locks!Remote>>, S, S)
  <2>1. ASSUME NEW x \in Tops
        PROVE  InOrder(Locks!Remote, At(S, x)) /\ After(Locks!Remote, At(S, x)) = At(S, x)
    BY <1>1, <1>2 DEF InOrder, After, Locks!Remote, Locks!Need
  <2>. QED
    BY <2>1, OneRun, StepsOfLocks, Zenon
<1>6. Runs(<<Locks!Reserve>>, S, S)
  <2>1. ASSUME NEW x \in Tops
        PROVE  InOrder(Locks!Reserve, At(S, x)) /\ After(Locks!Reserve, At(S, x)) = At(S, "none")
    BY <1>1, <1>2 DEF InOrder, After, Locks!Reserve, Locks!Need
  <2>. QED
    BY <1>3, <2>1, OneRun, StepsOfLocks, Zenon
<1>7. Runs(<<Locks!Keep>>, S, S)
  <2>1. ASSUME NEW x \in Tops
        PROVE  InOrder(Locks!Keep, At(S, x)) /\ After(Locks!Keep, At(S, x)) = At(S, "none")
    BY <1>1, <1>2 DEF InOrder, After, Locks!Keep, Locks!Need
  <2>. QED
    BY <1>3, <2>1, OneRun, StepsOfLocks, Zenon
<1>. QED
  BY <1>4, <1>5, <1>6, <1>7

\* A function that locks m does so in its order, and leaves what it found.
LEMMA LockLeads ==
    ASSUME NEW S \in SUBSET Locks!Resources, NEW m \in Locks!Resources, m \notin S,
           \A k \in S : Rank(k) < Rank(m), NEW x \in Tops
    PROVE  /\ Leads(<<Locks!Lock(m)>>, At(S, x), At(S \cup {m}, m))
           /\ Leads(<<Locks!Return>>, At(S \cup {m}, m), At(S, "none"))
           /\ Leads(<<Locks!Release(m)>>, At(S \cup {m}, m), At(S, m))
           /\ Leads(<<Locks!Return>>, At(S, m), At(S, "none"))
           /\ m # "conn" => Leads(<<Locks!Query>>, At(S \cup {m}, m), At(S \cup {m}, m))
<1>1. At(S, x) \in Places /\ At(S \cup {m}, m) \in Places /\ At(S, m) \in Places
  BY DEF At, Places, Tops
<1>2. \A T, y : At(T, y).held = T /\ At(T, y).top = y
  BY DEF At
<1>3. m # "none"
  BY DEF Locks!Resources
<1>0. (S \cup {m}) \ {m} = S /\ S \ {m} = S
  OBVIOUS
<1>4. InOrder(Locks!Lock(m), At(S, x)) /\ After(Locks!Lock(m), At(S, x)) = At(S \cup {m}, m)
  BY <1>2, <1>3 DEF InOrder, After, Locks!Lock, Locks!Need
<1>5. InOrder(Locks!Return, At(S \cup {m}, m)) /\ After(Locks!Return, At(S \cup {m}, m)) = At(S, "none")
  BY <1>0, <1>2, <1>3, ZenonT(30) DEF InOrder, After, Locks!Return, Locks!Need
<1>6. InOrder(Locks!Release(m), At(S \cup {m}, m)) /\ After(Locks!Release(m), At(S \cup {m}, m)) = At(S, m)
  BY <1>0, <1>2, <1>3 DEF InOrder, After, Locks!Release, Locks!Need
<1>7. InOrder(Locks!Return, At(S, m)) /\ After(Locks!Return, At(S, m)) = At(S, "none")
  BY <1>0, <1>2, <1>3 DEF InOrder, After, Locks!Return, Locks!Need
<1>8. ASSUME m # "conn"
      PROVE  /\ InOrder(Locks!Query, At(S \cup {m}, m))
             /\ After(Locks!Query, At(S \cup {m}, m)) = At(S \cup {m}, m)
  <2>1. Rank(m) < Rank("conn") /\ \A k \in S : k # "conn"
    BY <1>8 DEF Rank
  <2>2. \A k \in S \cup {m} : Rank(k) < Rank("conn")
    BY <2>1 DEF Rank
  <2>. QED
    BY <1>2, <2>2 DEF InOrder, After, Locks!Query, Locks!Need
<1>. QED
  BY <1>1, <1>4, <1>5, <1>6, <1>7, <1>8, LeadsOne, StepsOfLocks, Zenon

\* Tuples of steps are run step by step.
LEMMA TuplesJoin ==
    ASSUME NEW a \in LockSteps, NEW b \in LockSteps, NEW c \in LockSteps
    PROVE  /\ <<a, b>> = <<a>> \o <<b>> /\ <<a, b, c>> = <<a>> \o <<b, c>>
<1>1. <<a, b>> = <<a>> \o <<b>>
  <2>1. <<a>> \in Seq(LockSteps) /\ <<b>> \in Seq(LockSteps) /\ <<a, b>> \in Seq(LockSteps)
    OBVIOUS
  <2>2. Len(<<a>> \o <<b>>) = 2 /\ <<a>> \o <<b>> \in Seq(LockSteps)
    BY <2>1
  <2>3. \A i \in 1..2 : (<<a>> \o <<b>>)[i] = <<a, b>>[i]
    BY <2>1
  <2>. QED
    BY <2>1, <2>2, <2>3, SeqEqual
<1>2. <<a, b, c>> = <<a>> \o <<b, c>>
  <2>1. <<a>> \in Seq(LockSteps) /\ <<b, c>> \in Seq(LockSteps) /\ <<a, b, c>> \in Seq(LockSteps)
    OBVIOUS
  <2>2. Len(<<a>> \o <<b, c>>) = 3 /\ <<a>> \o <<b, c>> \in Seq(LockSteps)
    BY <2>1
  <2>3. \A i \in 1..3 : (<<a>> \o <<b, c>>)[i] = <<a, b, c>>[i]
    BY <2>1
  <2>. QED
    BY <2>1, <2>2, <2>3, SeqEqual
<1>. QED
  BY <1>1, <1>2

LEMMA TwoLead ==
    ASSUME NEW a \in LockSteps, NEW b \in LockSteps, NEW s, NEW m, NEW e,
           Leads(<<a>>, s, m), Leads(<<b>>, m, e)
    PROVE  Leads(<<a, b>>, s, e)
<1>1. <<a, b>> = <<a>> \o <<b>>
  BY TuplesJoin, Zenon
<1>. QED
  BY <1>1, LeadsOn, Zenon

LEMMA FourJoin ==
    ASSUME NEW a \in LockSteps, NEW b \in LockSteps, NEW c \in LockSteps, NEW d \in LockSteps
    PROVE  <<a, b, c, d>> = <<a, b, c>> \o <<d>> /\ <<a, b, c, d>> = <<a>> \o <<b, c>> \o <<d>>
<1>1. <<a, b, c, d>> = <<a, b, c>> \o <<d>>
  <2>1. <<a, b, c>> \in Seq(LockSteps) /\ <<d>> \in Seq(LockSteps) /\ <<a, b, c, d>> \in Seq(LockSteps)
    OBVIOUS
  <2>2. Len(<<a, b, c>> \o <<d>>) = 4 /\ <<a, b, c>> \o <<d>> \in Seq(LockSteps)
    BY <2>1
  <2>3. \A i \in 1..4 : (<<a, b, c>> \o <<d>>)[i] = <<a, b, c, d>>[i]
    BY <2>1
  <2>. QED
    BY <2>1, <2>2, <2>3, SeqEqual
<1>2. <<a, b, c>> = <<a>> \o <<b, c>>
  BY TuplesJoin, Zenon
<1>. QED
  BY <1>1, <1>2, Zenon

LEMMA ThreeLead ==
    ASSUME NEW a \in LockSteps, NEW b \in LockSteps, NEW c \in LockSteps, NEW s, NEW k, NEW m, NEW e,
           Leads(<<a>>, s, k), Leads(<<b>>, k, m), Leads(<<c>>, m, e)
    PROVE  Leads(<<a, b, c>>, s, e)
<1>1. Leads(<<b, c>>, k, e)
  BY TwoLead, Zenon
<1>2. <<a, b, c>> = <<a>> \o <<b, c>>
  BY TuplesJoin, Zenon
<1>. QED
  BY <1>1, <1>2, LeadsOn, Zenon

LEMMA TwoRun ==
    ASSUME NEW a \in LockSteps, NEW b \in LockSteps, NEW S, NEW M, NEW E,
           Runs(<<a>>, S, M), Runs(<<b>>, M, E)
    PROVE  Runs(<<a, b>>, S, E)
<1>1. <<a, b>> = <<a>> \o <<b>>
  BY TuplesJoin, Zenon
<1>. QED
  BY <1>1, RunsOn, Zenon

\* What the functions of the handlers take they give back, and they can be
\* called with any mutex in hand.
LEMMA FunctionsRun ==
    ASSUME NEW S \in SUBSET Locks!Resources, "conn" \notin S
    PROVE  /\ Runs(Locks!Cursor, S, S) /\ Runs(Locks!Transaction, S, S) /\ Runs(Locks!Charge, S, S)
           /\ Runs(Locks!Kept, S, S) /\ Runs(Locks!LogActivity, S, S)
<1>1. "conn" \in Locks!Resources /\ "none" \in Tops /\ \A k \in S : Rank(k) < Rank("conn")
  BY DEF Locks!Resources, Tops, Rank
<1>2. Runs(Locks!Cursor, S, S)
  <2>1. ASSUME NEW x \in Tops PROVE Leads(Locks!Cursor, At(S, x), At(S, "none"))
    BY <1>1, StepsOfLocks, LockLeads, TwoLead, Zenon DEF Locks!Cursor
  <2>. QED
    BY <1>1, <2>1, Zenon DEF Runs
<1>3. Runs(Locks!Transaction, S, S)
  <2>1. ASSUME NEW x \in Tops PROVE Leads(Locks!Transaction, At(S, x), At(S, "none"))
    BY <1>1, StepsOfLocks, LockLeads, ThreeLead, ZenonT(60) DEF Locks!Transaction
  <2>. QED
    BY <1>1, <2>1, Zenon DEF Runs
<1>4. Runs(Locks!Charge, S, S)
  BY <1>3, QuietRuns, RunsOn, Zenon DEF Locks!Charge
<1>5. Runs(Locks!Kept, S, S)
  BY StepsOfLocks, QuietRuns, TwoRun, Zenon DEF Locks!Kept
<1>6. Runs(Locks!LogActivity, S, S)
  BY <1>2, QuietRuns, RunsOn, Zenon DEF Locks!LogActivity
<1>. QED
  BY <1>2, <1>3, <1>4, <1>5, <1>6

\* A receipt is signed, a scan token made, and the account taken for the rest
\* of a handler, by who holds a program at most.
LEMMA MutexesRun ==
    ASSUME NEW S \in SUBSET {"program"}
    PROVE  /\ Runs(Locks!SignReceipt, S, S) /\ Runs(Locks!ScanToken, S, S)
           /\ Runs(Locks!ClientFor, S, S \cup {"account"})
<1>1. /\ S \in SUBSET Locks!Resources /\ "conn" \notin S /\ "none" \in Tops
      /\ S \cup {"account"} \in SUBSET Locks!Resources
  BY DEF Locks!Resources, Tops
<1>2. \A m \in {"receipt", "scan", "account"} :
         m \in Locks!Resources /\ m \in Tops /\ m \notin S /\ m # "conn" /\ \A k \in S : Rank(k) < Rank(m)
  BY DEF Locks!Resources, Tops, Rank
<1>3. \A m \in {"receipt", "scan"}, x \in Tops :
         Leads(<<Locks!Lock(m), Locks!Query, Locks!Return>>, At(S, x), At(S, "none"))
  <2>. SUFFICES ASSUME NEW m \in {"receipt", "scan"}, NEW x \in Tops
                PROVE  Leads(<<Locks!Lock(m), Locks!Query, Locks!Return>>, At(S, x), At(S, "none"))
    BY Zenon
  <2>1. /\ m \in Locks!Resources /\ m \in Tops /\ m \notin S /\ m # "conn"
        /\ \A k \in S : Rank(k) < Rank(m)
    BY <1>2
  <2>2. /\ Leads(<<Locks!Lock(m)>>, At(S, x), At(S \cup {m}, m))
        /\ Leads(<<Locks!Query>>, At(S \cup {m}, m), At(S \cup {m}, m))
        /\ Leads(<<Locks!Return>>, At(S \cup {m}, m), At(S, "none"))
    BY <1>1, <2>1, LockLeads, Zenon
  <2>. QED
    BY <2>1, <2>2, StepsOfLocks, ThreeLead, Zenon
<1>4. Runs(Locks!ScanToken, S, S)
  BY <1>1, <1>3, Zenon DEF Runs, Locks!ScanToken
<1>5. Runs(Locks!SignReceipt, S, S)
  <2>1. Runs(<<Locks!Lock("receipt"), Locks!Query, Locks!Return>>, S, S)
    BY <1>1, <1>3, Zenon DEF Runs
  <2>2. Locks!SignReceipt = <<Locks!Lock("receipt"), Locks!Query, Locks!Return>> \o <<Locks!Query>>
    <3>1. Locks!Lock("receipt") \in LockSteps /\ Locks!Query \in LockSteps /\ Locks!Return \in LockSteps
      BY <1>2, StepsOfLocks
    <3>. QED
      BY ONLY <3>1, FourJoin, Zenon DEF Locks!SignReceipt
  <2>. QED
    BY <1>1, <2>1, <2>2, QuietRuns, RunsOn, Zenon
<1>6. Runs(<<Locks!Lock("account")>>, S, S \cup {"account"})
  BY <1>1, <1>2, LockLeads, Zenon DEF Runs
<1>7. Runs(Locks!ClientFor, S, S \cup {"account"})
  BY <1>1, <1>2, <1>6, StepsOfLocks, QuietRuns, TwoRun, Zenon DEF Locks!ClientFor
<1>. QED
  BY <1>4, <1>5, <1>7

\* Every handler keeps to the order, but for the page of scans.
LEMMA HandlersOrdered ==
    ASSUME NEW h \in Locks!HandlerNames, h # "scans page"
    PROVE  Ordered(Locks!Program(h), At({}, "none"))
<1>. DEFINE A == {"account"}
            P == {"program"}
            PA == {"program"} \cup {"account"}
<1>0. /\ {} \in SUBSET Locks!Resources /\ A \in SUBSET Locks!Resources /\ P \in SUBSET Locks!Resources
      /\ PA \in SUBSET Locks!Resources /\ {} \in SUBSET {"program"} /\ P \in SUBSET {"program"}
      /\ {} \cup {"account"} = A /\ P \cup {"account"} = PA
  BY DEF Locks!Resources
<1>1. "conn" \notin {} /\ "conn" \notin A /\ "conn" \notin P /\ "conn" \notin PA
  OBVIOUS
<1>. HIDE DEF A, P, PA
<1>2. \A S \in {{}, A, P, PA} :
         /\ Runs(<<Locks!Query>>, S, S) /\ Runs(<<Locks!Remote>>, S, S) /\ Runs(<<Locks!Remote, Locks!Query>>, S, S)
         /\ Runs(Locks!Cursor, S, S) /\ Runs(Locks!Transaction, S, S) /\ Runs(Locks!Charge, S, S)
         /\ Runs(Locks!Kept, S, S) /\ Runs(Locks!LogActivity, S, S)
  <2>1. ASSUME NEW S \in SUBSET Locks!Resources, "conn" \notin S
        PROVE  /\ Runs(<<Locks!Query>>, S, S) /\ Runs(<<Locks!Remote>>, S, S)
               /\ Runs(<<Locks!Remote, Locks!Query>>, S, S)
    BY <2>1, StepsOfLocks, QuietRuns, TwoRun, Zenon
  <2>. QED
    BY <1>0, <1>1, <2>1, FunctionsRun, Zenon
<1>3. /\ \A S \in {{}, P} : Runs(Locks!SignReceipt, S, S) /\ Runs(Locks!ScanToken, S, S)
      /\ Runs(Locks!ClientFor, {}, A) /\ Runs(Locks!ClientFor, P, PA)
  BY <1>0, MutexesRun, Zenon
<1>4. Runs(<<Locks!Query, Locks!Lock("program")>>, {}, P)
  <2>1. /\ "program" \in Locks!Resources /\ "program" \notin {} /\ "program" \in Tops
        /\ \A k \in {} : Rank(k) < Rank("program")
    BY DEF Locks!Resources, Tops
  <2>2. {} \cup {"program"} = P
    BY DEF P
  <2>3. Runs(<<Locks!Lock("program")>>, {}, P)
    BY <1>0, <2>1, <2>2, LockLeads, Zenon DEF Runs
  <2>. QED
    BY <1>2, <2>1, <2>3, StepsOfLocks, TwoRun, Zenon
<1>5. \E E \in SUBSET Locks!Resources : Runs(Locks!Program(h), {}, E)
  <2>1. Runs(Locks!ListPrograms, {}, {})
    BY <1>2, RunsOn, Zenon DEF Locks!ListPrograms
  <2>2. Runs(Locks!DeliverWebhooks, {}, {})
    BY <1>2, RunsOn, Zenon DEF Locks!DeliverWebhooks
  <2>3. Runs(<<Locks!Query>> \o Locks!ScanToken, {}, {})
    BY <1>2, <1>3, RunsOn, Zenon
  <2>4. Runs(Locks!CreateCampaign, {}, A)
    <3>1. Runs(Locks!Charge \o Locks!ClientFor, {}, A)
      BY <1>2, <1>3, RunsOn, Zenon
    <3>2. Runs(Locks!Charge \o Locks!ClientFor \o <<Locks!Remote, Locks!Query>> \o Locks!LogActivity, {}, A)
      BY <1>2, <3>1, RunsOn, Zenon
    <3>3. Runs(Locks!Charge \o Locks!ClientFor \o <<Locks!Remote, Locks!Query>> \o Locks!LogActivity
                  \o <<Locks!Remote, Locks!Query>> \o Locks!LogActivity, {}, A)
      BY <1>2, <3>2, RunsOn, Zenon
    <3>. QED
      BY <1>2, <3>3, RunsOn, Zenon DEF Locks!CreateCampaign
  <2>5. Runs(Locks!IssueCodes, {}, A)
    <3>1. Runs(<<Locks!Query>> \o Locks!Charge \o Locks!ClientFor, {}, A)
      BY <1>2, <1>3, RunsOn, Zenon
    <3>. QED
      BY <1>2, <3>1, RunsOn, Zenon DEF Locks!IssueCodes
  <2>6. Runs(Locks!Settle, {}, A)
    <3>1. Runs(<<Locks!Query>> \o Locks!Charge \o Locks!ClientFor, {}, A)
      BY <1>2, <1>3, RunsOn, Zenon
    <3>2. Runs(<<Locks!Query>> \o Locks!Charge \o Locks!ClientFor \o <<Locks!Remote>> \o Locks!Kept, {}, A)
      BY <1>2, <3>1, RunsOn, Zenon
    <3>. QED
      BY <1>2, <3>2, RunsOn, Zenon DEF Locks!Settle
  <2>7. Runs(Locks!CommitTally, {}, A)
    <3>1. Runs(<<Locks!Query>> \o Locks!ClientFor \o Locks!Cursor \o Locks!Charge, {}, A)
      BY <1>2, <1>3, RunsOn, Zenon
    <3>2. Runs(<<Locks!Query>> \o Locks!ClientFor \o Locks!Cursor \o Locks!Charge \o <<Locks!Remote>>
                  \o Locks!Kept, {}, A)
      BY <1>2, <3>1, RunsOn, Zenon
    <3>. QED
      BY <1>2, <3>2, RunsOn, Zenon DEF Locks!CommitTally
  <2>8. Runs(Locks!RecordEvents, {}, {})
    <3>1. Runs(<<Locks!Query>> \o Locks!SignReceipt \o Locks!Charge \o Locks!Transaction, {}, {})
      BY <1>2, <1>3, RunsOn, Zenon
    <3>. QED
      BY <1>2, <3>1, RunsOn, Zenon DEF Locks!RecordEvents
  <2>9. Runs(Locks!CreateProgram, {}, A)
    <3>1. Runs(Locks!Charge \o Locks!ClientFor, {}, A)
      BY <1>2, <1>3, RunsOn, Zenon
    <3>. QED
      BY <1>2, <3>1, RunsOn, Zenon DEF Locks!CreateProgram
  <2>10. Runs(Locks!Punch, {}, PA)
    <3>1. Runs(<<Locks!Query, Locks!Lock("program")>> \o Locks!Transaction \o <<Locks!Query>>
                  \o Locks!SignReceipt, {}, P)
      BY <1>2, <1>3, <1>4, RunsOn, Zenon
    <3>2. Runs(<<Locks!Query, Locks!Lock("program")>> \o Locks!Transaction \o <<Locks!Query>>
                  \o Locks!SignReceipt \o Locks!Charge \o Locks!ClientFor, {}, PA)
      BY <1>2, <1>3, <3>1, RunsOn, Zenon
    <3>. QED
      BY <1>2, <3>2, RunsOn, Zenon DEF Locks!Punch
  <2>11. Runs(Locks!ListScans, {}, {})
    <3>1. /\ "conn" \in Locks!Resources /\ "conn" \notin {} /\ "conn" \in Tops
          /\ \A k \in {} : Rank(k) < Rank("conn")
      BY DEF Locks!Resources, Tops
    <3>2. Runs(<<Locks!Lock("conn"), Locks!Release("conn")>>, {}, {})
      <4>1. ASSUME NEW x \in Tops
            PROVE  Leads(<<Locks!Lock("conn"), Locks!Release("conn")>>, At({}, x), At({}, "conn"))
        BY <1>0, <3>1, StepsOfLocks, LockLeads, TwoLead, Zenon
      <4>. QED
        BY <3>1, <4>1, Zenon DEF Runs
    <3>3. Runs(<<Locks!Query>> \o <<Locks!Lock("conn"), Locks!Release("conn")>> \o <<Locks!Query>>, {}, {})
      BY <1>2, <3>2, RunsOn, Zenon
    <3>4. Locks!Lock("conn") \in LockSteps /\ Locks!Release("conn") \in LockSteps /\ Locks!Query \in LockSteps
      BY <3>1, StepsOfLocks, Zenon
    <3>5. Locks!ListScans = <<Locks!Query>> \o <<Locks!Lock("conn"), Locks!Release("conn")>> \o <<Locks!Query>>
      BY ONLY <3>4, FourJoin, Zenon DEF Locks!ListScans
    <3>. QED
      BY <3>3, <3>5, Zenon
  <2>12. Runs(Locks!RegisterShared, {}, A)
    <3>1. Runs(<<Locks!Query>> \o Locks!Charge \o Locks!ClientFor, {}, A)
      BY <1>2, <1>3, RunsOn, Zenon
    <3>2. Runs(<<Locks!Query>> \o Locks!Charge \o Locks!ClientFor \o <<Locks!Remote>> \o Locks!Kept, {}, A)
      BY <1>2, <3>1, RunsOn, Zenon
    <3>. QED
      BY <1>2, <3>2, RunsOn, Zenon DEF Locks!RegisterShared
  <2>13. Runs(Locks!Verify, {}, A)
    <3>1. Runs(<<Locks!Query>> \o Locks!ClientFor, {}, A)
      BY <1>2, <1>3, RunsOn, Zenon
    <3>. QED
      BY <1>2, <3>1, RunsOn, Zenon DEF Locks!Verify
  <2>14. Runs(Locks!Redeem, {}, A)
    <3>1. Runs(<<Locks!Query>> \o Locks!Charge \o Locks!ClientFor, {}, A)
      BY <1>2, <1>3, RunsOn, Zenon
    <3>2. Runs(<<Locks!Query>> \o Locks!Charge \o Locks!ClientFor \o <<Locks!Remote>> \o Locks!Kept, {}, A)
      BY <1>2, <3>1, RunsOn, Zenon
    <3>3. Runs(<<Locks!Query>> \o Locks!Charge \o Locks!ClientFor \o <<Locks!Remote>> \o Locks!Kept
                  \o <<Locks!Query>> \o Locks!LogActivity, {}, A)
      BY <1>2, <3>2, RunsOn, Zenon
    <3>. QED
      BY <1>2, <3>3, RunsOn, Zenon DEF Locks!Redeem
  <2>15. Runs(Locks!RejectRedemption, {}, A)
    <3>1. Runs(<<Locks!Query>> \o Locks!Charge \o Locks!ClientFor, {}, A)
      BY <1>2, <1>3, RunsOn, Zenon
    <3>. QED
      BY <1>2, <3>1, RunsOn, Zenon DEF Locks!RejectRedemption
  <2>. QED
    BY <1>0, <2>1, <2>2, <2>3, <2>4, <2>5, <2>6, <2>7, <2>8, <2>9, <2>10, <2>11, <2>12, <2>13, <2>14, <2>15
       DEF Locks!HandlerNames, Locks!Program
<1>. QED
  BY <1>5, RunsOrdered, Zenon

-----------------------------------------------------------------------------
\* The locks: one request.

LockDeferrals == {Locks!Release(m) : m \in Locks!Resources} \cup {Locks!Refund}

\* What is left keeps to the order.
Keeps(S, t, d) ==
    \E x \in Tops : /\ Ordered(t, At(S, x))
                    /\ x # "none" => d # <<>> /\ Head(d) = Locks!Release(x)

\* A page of scans before its rows are open, and with them open: stalled.
Paging(S, t, d) ==
    S = {} /\ d = <<>> /\ t \in {Locks!ScansPage, <<Locks!Lock("conn"), Locks!Query>>}
Stuck(S, t, d) == S = {"conn"} /\ d = <<Locks!Release("conn")>> /\ t = <<Locks!Query>>

\* What a request that holds S has left and has deferred: the release of
\* everything it holds, that of the connection first, and the rest of a handler
\* that keeps to the order, or of a page of scans.  The locks are free of rings
\* because of the rest: OnlyPagesStall alone is not inductive.
Fits(S, t, d) ==
    /\ S \in SUBSET Locks!Resources /\ t \in Seq(LockSteps) /\ d \in Seq(LockDeferrals)
    /\ \A m \in S : \E i \in DOMAIN d : d[i] = Locks!Release(m)
    /\ "conn" \in S => d # <<>> /\ Head(d) = Locks!Release("conn")
    /\ t # <<>> => Keeps(S, t, d) \/ Paging(S, t, d) \/ Stuck(S, t, d)

LEMMA DeferralsAre ==
    /\ \A m \in Locks!Resources : /\ Locks!Release(m) \in LockDeferrals
                                  /\ Locks!Release(m)[1] = "give" /\ Locks!Release(m)[2] = m
                                  /\ Locks!Release(m) # Locks!Refund
    /\ Locks!Refund \in LockDeferrals /\ Locks!Refund[1] = "refund" /\ Locks!Refund[2] = "conn"
    /\ "none" \notin Locks!Resources /\ "conn" \in Locks!Resources
<1>1. /\ \A m : Locks!Release(m)[1] = "give" /\ Locks!Release(m)[2] = m
      /\ Locks!Refund[1] = "refund" /\ Locks!Refund[2] = "conn"
  BY DEF Locks!Release, Locks!Refund
<1>2. "none" \notin Locks!Resources /\ "conn" \in Locks!Resources
  BY DEF Locks!Resources
<1>3. \A m : Locks!Release(m) # Locks!Refund
  <2>1. "give" # "refund"
    OBVIOUS
  <2>. QED
    BY <1>1, <2>1, Zenon
<1>. QED
  BY <1>1, <1>2, <1>3 DEF LockDeferrals

\* The steps of a page of scans.
LEMMA PagesAre ==
    /\ Locks!ScansPage \in Seq(LockSteps) /\ Head(Locks!ScansPage) = Locks!Query
    /\ Tail(Locks!ScansPage) = <<Locks!Lock("conn"), Locks!Query>>
    /\ \A a, b \in LockSteps : /\ <<a, b>> \in Seq(LockSteps) /\ Head(<<a, b>>) = a /\ Tail(<<a, b>>) = <<b>>
                              /\ <<b>> \in Seq(LockSteps) /\ Head(<<b>>) = b /\ Tail(<<b>>) = <<>>
    /\ Locks!Query \in LockSteps /\ Locks!Lock("conn") \in LockSteps
    /\ Locks!Query[1] = "use" /\ Locks!Query # Locks!Remote
    /\ Locks!Lock("conn")[1] = "lock" /\ Locks!Lock("conn")[2] = "conn" /\ Locks!Lock("conn") # Locks!Remote
<1>1. "conn" \in Locks!Resources
  BY DEF Locks!Resources
<1>2. Locks!Query \in LockSteps /\ Locks!Lock("conn") \in LockSteps
  BY <1>1, StepsOfLocks
<1>3. \A a, b, c \in LockSteps : /\ <<a, b, c>> \in Seq(LockSteps) /\ Head(<<a, b, c>>) = a
                                /\ Tail(<<a, b, c>>) = <<b, c>>
  OBVIOUS
<1>4. \A a, b \in LockSteps : /\ <<a, b>> \in Seq(LockSteps) /\ Head(<<a, b>>) = a /\ Tail(<<a, b>>) = <<b>>
                             /\ <<b>> \in Seq(LockSteps) /\ Head(<<b>>) = b /\ Tail(<<b>>) = <<>>
  OBVIOUS
<1>5. /\ Locks!ScansPage \in Seq(LockSteps) /\ Head(Locks!ScansPage) = Locks!Query
      /\ Tail(Locks!ScansPage) = <<Locks!Lock("conn"), Locks!Query>>
  BY <1>2, <1>3, Zenon DEF Locks!ScansPage
<1>6. /\ Locks!Query[1] = "use" /\ Locks!Lock("conn")[1] = "lock" /\ Locks!Lock("conn")[2] = "conn"
      /\ Locks!Query # Locks!Remote /\ Locks!Lock("conn") # Locks!Remote
  BY DEF Locks!Query, Locks!Lock, Locks!Remote
<1>. QED
  BY <1>2, <1>4, <1>5, <1>6, Zenon

LEMMA HandlerFits ==
    ASSUME NEW h \in Locks!HandlerNames
    PROVE  Fits({}, Locks!Program(h), <<>>)
<1>1. CASE h # "scans page"
  <2>1. Ordered(Locks!Program(h), At({}, "none")) /\ "none" \in Tops
    BY <1>1, HandlersOrdered DEF Tops
  <2>2. Locks!Program(h) \in Seq(LockSteps)
    BY <2>1, OrderedIs, Zenon
  <2>3. <<>> \in Seq(LockDeferrals)
    OBVIOUS
  <2>. QED
    BY <2>1, <2>2, <2>3, Zenon DEF Fits, Keeps
<1>2. CASE h = "scans page"
  <2>1. Locks!Program(h) = Locks!ScansPage
    BY <1>2 DEF Locks!Program
  <2>2. <<>> \in Seq(LockDeferrals)
    OBVIOUS
  <2>. QED
    BY <2>1, <2>2, PagesAre, Zenon DEF Fits, Paging
<1>. QED
  BY <1>1, <1>2

\* The newest deferral comes first, and the others are found behind it.
LEMMA Deferring ==
    ASSUME NEW d \in Seq(LockDeferrals), NEW step \in LockDeferrals
    PROVE  /\ <<step>> \o d \in Seq(LockDeferrals) /\ <<step>> \o d # <<>> /\ Head(<<step>> \o d) = step
           /\ \E i \in DOMAIN (<<step>> \o d) : (<<step>> \o d)[i] = step
           /\ \A j \in DOMAIN d : \E i \in DOMAIN (<<step>> \o d) : (<<step>> \o d)[i] = d[j]
<1>. DEFINE e == <<step>> \o d
<1>1. /\ e \in Seq(LockDeferrals) /\ Len(e) = Len(d) + 1 /\ Len(d) \in Nat
      /\ DOMAIN d = 1..Len(d) /\ DOMAIN e = 1..(Len(d) + 1)
      /\ \A i \in 1..(Len(d) + 1) : e[i] = IF i <= 1 THEN step ELSE d[i - 1]
  <2>1. <<step>> \in Seq(LockDeferrals) /\ Len(<<step>>) = 1 /\ <<step>>[1] = step
    OBVIOUS
  <2>. QED
    BY <2>1, ConcatProperties, LenProperties
<1>2. e # <<>> /\ Head(e) = step
  BY <1>1
<1>. HIDE DEF e
<1>3. e[1] = step /\ 1 \in DOMAIN e
  BY <1>1
<1>4. \A j \in DOMAIN d : e[j + 1] = d[j] /\ j + 1 \in DOMAIN e
  BY <1>1
<1>5. (\E i \in DOMAIN e : e[i] = step) /\ \A j \in DOMAIN d : \E i \in DOMAIN e : e[i] = d[j]
  BY <1>3, <1>4, Zenon
<1>. QED
  BY <1>1, <1>2, <1>5 DEF e

LEMMA Undeferring ==
    ASSUME NEW d \in Seq(LockDeferrals), d # <<>>
    PROVE  /\ Head(d) \in LockDeferrals /\ Tail(d) \in Seq(LockDeferrals)
           /\ \A j \in DOMAIN d : d[j] # Head(d) => \E i \in DOMAIN Tail(d) : Tail(d)[i] = d[j]
<1>1. /\ Head(d) \in LockDeferrals /\ Tail(d) \in Seq(LockDeferrals)
      /\ Len(Tail(d)) = Len(d) - 1 /\ \A i \in 1..Len(Tail(d)) : Tail(d)[i] = d[i + 1]
      /\ Len(d) \in Nat /\ DOMAIN d = 1..Len(d) /\ DOMAIN Tail(d) = 1..Len(Tail(d)) /\ Head(d) = d[1]
  BY HeadTailProperties, LenProperties
<1>2. ASSUME NEW j \in DOMAIN d, d[j] # Head(d)
      PROVE  \E i \in DOMAIN Tail(d) : Tail(d)[i] = d[j]
  <2>1. j # 1 /\ j - 1 \in 1..Len(Tail(d)) /\ (j - 1) + 1 = j
    BY <1>1, <1>2
  <2>2. Tail(d)[j - 1] = d[j]
    BY <1>1, <2>1
  <2>. QED
    BY <1>1, <2>1, <2>2, Zenon
<1>. QED
  BY <1>1, <1>2

LEMMA LocksTake == \A s, S : Locks!Taken(s, S) = Taken(s, S)
BY DEF Locks!Taken, Taken, Locks!Ascending, Ascending, Locks!Below, Below, Locks!Cardinality, Cardinality

\* What is deferred once a reservation is committed.
LocksKept(d) == Locks!Taken(d, {i \in DOMAIN d : d[i] # Locks!Refund})

\* What a handler's next step leaves fits again, whatever kind of step it is, and
\* so does a return in its place.
StepKeeps(S, t, d, step) ==
    /\ step[1] \in LockKinds /\ Tail(t) \in Seq(LockSteps)
    /\ Fits(S, <<>>, d)
    /\ step[1] \in {"use", "remote"} => Fits(S, Tail(t), d)
    /\ step[1] = "lock" => /\ step[2] \in Locks!Resources
                           /\ Fits(S \cup {step[2]}, Tail(t), <<Locks!Release(step[2])>> \o d)
    /\ step[1] = "give" => step[2] \in Locks!Resources /\ Fits(S \ {step[2]}, Tail(t), d)
    /\ step[1] = "reserve" => Fits(S, Tail(t), <<Locks!Refund>> \o d)
    /\ step[1] = "keep" => Fits(S, Tail(t), LocksKept(d))
    /\ step[1] = "return" =>
          \E m \in Locks!Resources : d # <<>> /\ Head(d) = Locks!Release(m) /\ Fits(S \ {m}, Tail(t), Tail(d))

\* Every step of an ordered handler leaves what fits.
LEMMA KeptFits ==
    ASSUME NEW S, NEW t, NEW d, Fits(S, t, d), Keeps(S, t, d), t # <<>>, NEW step, step = Head(t)
    PROVE  StepKeeps(S, t, d, step)
<1>1. /\ S \in SUBSET Locks!Resources /\ t \in Seq(LockSteps) /\ d \in Seq(LockDeferrals)
      /\ \A m \in S : \E i \in DOMAIN d : d[i] = Locks!Release(m)
      /\ "conn" \in S => d # <<>> /\ Head(d) = Locks!Release("conn")
  BY Zenon DEF Fits
<1>2. PICK x \in Tops : Ordered(t, At(S, x)) /\ (x # "none" => d # <<>> /\ Head(d) = Locks!Release(x))
  BY Zenon DEF Keeps
<1>3. InOrder(step, At(S, x)) /\ Ordered(Tail(t), After(step, At(S, x)))
  BY <1>2, OrderedGoes, Zenon
<1>4. step \in LockSteps /\ Tail(t) \in Seq(LockSteps)
  BY <1>1, HeadTailProperties, Zenon
<1>5. step[1] \in LockKinds
  BY <1>4 DEF LockSteps
<1>6. /\ \A T, y : At(T, y).held = T /\ At(T, y).top = y
      /\ At(S, x).held = S /\ At(S, x).top = x
  BY DEF At
<1>7. "none" \in Tops /\ \A m \in Locks!Resources : m \in Tops
  BY DEF Tops
<1>8. Fits(S, <<>>, d)
  <2>1. <<>> \in Seq(LockSteps)
    OBVIOUS
  <2>. QED
    BY <1>1, <2>1, Zenon DEF Fits, Keeps
<1>9. ASSUME step[1] \in {"use", "remote"} PROVE Fits(S, Tail(t), d)
  <2>1. After(step, At(S, x)) = At(S, x)
    BY <1>9 DEF After
  <2>. QED
    BY <1>1, <1>2, <1>3, <1>4, <2>1, Zenon DEF Fits, Keeps
<1>10. ASSUME step[1] = "lock"
       PROVE  /\ step[2] \in Locks!Resources
              /\ Fits(S \cup {step[2]}, Tail(t), <<Locks!Release(step[2])>> \o d)
  <2>. DEFINE m == step[2]
              e == <<Locks!Release(m)>> \o d
  <2>1. m \in Locks!Resources /\ After(step, At(S, x)) = At(S \cup {m}, m)
    BY <1>3, <1>6, <1>10 DEF InOrder, After
  <2>2. "conn" \notin S
    <3>1. Locks!Need(step) = m /\ m # "none"
      BY <1>10, <2>1, DeferralsAre DEF Locks!Need
    <3>2. \A k \in S : Rank(k) < Rank(m)
      BY <1>3, <1>6, <3>1 DEF InOrder
    <3>3. Rank("conn") = 3 /\ Rank(m) \in 1..3
      BY DEF Rank
    <3>. QED
      BY <3>2, <3>3
  <2>3. Locks!Release(m) \in LockDeferrals /\ S \cup {m} \in SUBSET Locks!Resources /\ m \in Tops
    BY <1>1, <1>7, <2>1, DeferralsAre
  <2>4. /\ e \in Seq(LockDeferrals) /\ e # <<>> /\ Head(e) = Locks!Release(m)
        /\ \E i \in DOMAIN e : e[i] = Locks!Release(m)
        /\ \A j \in DOMAIN d : \E i \in DOMAIN e : e[i] = d[j]
    BY <1>1, <2>3, Deferring, Zenon
  <2>. HIDE DEF m, e
  <2>5. \A k \in S \cup {m} : \E i \in DOMAIN e : e[i] = Locks!Release(k)
    <3>. SUFFICES ASSUME NEW k \in S \cup {m} PROVE \E i \in DOMAIN e : e[i] = Locks!Release(k)
      OBVIOUS
    <3>1. CASE k = m
      BY <2>4, <3>1, Zenon
    <3>2. CASE k \in S
      BY <1>1, <2>4, <3>2, Zenon
    <3>. QED
      BY <3>1, <3>2, Zenon
  <2>6. "conn" \in S \cup {m} => m = "conn"
    BY <2>2
  <2>7. Fits(S \cup {m}, Tail(t), e)
    BY <1>3, <1>4, <2>1, <2>3, <2>4, <2>5, <2>6, Zenon DEF Fits, Keeps
  <2>. QED
    BY <2>1, <2>7 DEF m, e
<1>11. ASSUME step[1] = "give" PROVE step[2] \in Locks!Resources /\ Fits(S \ {step[2]}, Tail(t), d)
  <2>1. step[2] \in Locks!Resources /\ After(step, At(S, x)) = At(S \ {step[2]}, x)
    BY <1>3, <1>6, <1>11 DEF InOrder, After
  <2>2. S \ {step[2]} \in SUBSET Locks!Resources /\ \A k \in S \ {step[2]} : k \in S
    BY <1>1
  <2>. QED
    BY <1>1, <1>2, <1>3, <1>4, <2>1, <2>2, Zenon DEF Fits, Keeps
<1>12. ASSUME step[1] = "reserve" PROVE Fits(S, Tail(t), <<Locks!Refund>> \o d)
  <2>. DEFINE e == <<Locks!Refund>> \o d
  <2>1. "conn" \notin S /\ After(step, At(S, x)) = At(S, "none")
    BY <1>3, <1>6, <1>12 DEF InOrder, After
  <2>2. e \in Seq(LockDeferrals) /\ \A j \in DOMAIN d : \E i \in DOMAIN e : e[i] = d[j]
    BY <1>1, DeferralsAre, Deferring, Zenon
  <2>. HIDE DEF e
  <2>3. \A k \in S : \E i \in DOMAIN e : e[i] = Locks!Release(k)
    BY <1>1, <2>2, Zenon
  <2>4. Fits(S, Tail(t), e)
    BY <1>1, <1>3, <1>4, <1>7, <2>1, <2>2, <2>3, Zenon DEF Fits, Keeps
  <2>. QED
    BY <2>4 DEF e
<1>13. ASSUME step[1] = "keep"
       PROVE  Fits(S, Tail(t), LocksKept(d))
  <2>. DEFINE J == {i \in DOMAIN d : d[i] # Locks!Refund}
              e == Taken(d, J)
  <2>1. "conn" \notin S /\ After(step, At(S, x)) = At(S, "none")
    BY <1>3, <1>6, <1>13 DEF InOrder, After
  <2>2. J \in SUBSET DOMAIN d
    OBVIOUS
  <2>3. e \in Seq(LockDeferrals) /\ \A j \in J : \E i \in DOMAIN e : e[i] = d[j]
    <3>. HIDE DEF J
    <3>. QED
      BY <1>1, <2>2, TakenIs, Zenon
  <2>4. \A k \in S : \E j \in J : d[j] = Locks!Release(k)
    BY <1>1, DeferralsAre
  <2>5. Locks!Taken(d, J) = e
    BY LocksTake, Zenon
  <2>. HIDE DEF J, e
  <2>6. \A k \in S : \E i \in DOMAIN e : e[i] = Locks!Release(k)
    BY <2>3, <2>4, Zenon
  <2>7. Fits(S, Tail(t), e)
    BY <1>1, <1>3, <1>4, <1>7, <2>1, <2>3, <2>6, Zenon DEF Fits, Keeps
  <2>. QED
    BY <2>5, <2>7 DEF J, LocksKept
<1>14. ASSUME step[1] = "return"
       PROVE  \E m \in Locks!Resources :
                 d # <<>> /\ Head(d) = Locks!Release(m) /\ Fits(S \ {m}, Tail(t), Tail(d))
  <2>1. x # "none" /\ x \in Locks!Resources /\ After(step, At(S, x)) = At(S \ {x}, "none")
    BY <1>3, <1>6, <1>14 DEF InOrder, After, Tops
  <2>2. d # <<>> /\ Head(d) = Locks!Release(x)
    BY <1>2, <2>1, Zenon
  <2>3. /\ Tail(d) \in Seq(LockDeferrals)
        /\ \A j \in DOMAIN d : d[j] # Head(d) => \E i \in DOMAIN Tail(d) : Tail(d)[i] = d[j]
    BY <1>1, <2>2, Undeferring, Zenon
  <2>4. \A k \in S \ {x} : k \in S /\ Locks!Release(k) # Head(d)
    BY <1>1, <2>1, <2>2, DeferralsAre
  <2>5. \A k \in S \ {x} : \E i \in DOMAIN Tail(d) : Tail(d)[i] = Locks!Release(k)
    BY <1>1, <2>3, <2>4, Zenon
  <2>6. "conn" \notin S \ {x} /\ S \ {x} \in SUBSET Locks!Resources
    BY <1>1, <2>4
  <2>7. Fits(S \ {x}, Tail(t), Tail(d))
    BY <1>3, <1>4, <1>7, <2>1, <2>3, <2>5, <2>6, Zenon DEF Fits, Keeps
  <2>. QED
    BY <2>1, <2>2, <2>7, Zenon
<1>. QED
  BY <1>4, <1>5, <1>8, <1>9, <1>10, <1>11, <1>12, <1>13, <1>14, Zenon DEF StepKeeps

\* So does every step of a page of scans, as far as it goes.
LEMMA PageFits ==
    ASSUME NEW S, NEW t, NEW d, Fits(S, t, d), Paging(S, t, d) \/ Stuck(S, t, d), t # <<>>,
           NEW step, step = Head(t)
    PROVE  StepKeeps(S, t, d, step)
<1>1. /\ S \in SUBSET Locks!Resources /\ t \in Seq(LockSteps) /\ d \in Seq(LockDeferrals)
      /\ \A m \in S : \E i \in DOMAIN d : d[i] = Locks!Release(m)
      /\ "conn" \in S => d # <<>> /\ Head(d) = Locks!Release("conn")
  BY Zenon DEF Fits
<1>2. <<>> \in Seq(LockSteps) /\ "conn" \in Locks!Resources
  BY DEF Locks!Resources
<1>3. Fits(S, <<>>, d)
  BY <1>1, <1>2, Zenon DEF Fits
<1>4. "use" \in LockKinds /\ "lock" \in LockKinds
  BY DEF LockKinds
<1>5. CASE S = {} /\ d = <<>> /\ t = Locks!ScansPage
  <2>1. step[1] = "use" /\ Tail(t) = <<Locks!Lock("conn"), Locks!Query>> /\ Tail(t) \in Seq(LockSteps)
    BY <1>5, PagesAre, Zenon
  <2>2. Fits(S, Tail(t), d)
    BY <1>1, <1>5, <2>1, Zenon DEF Fits, Paging
  <2>. QED
    BY <1>3, <1>4, <2>1, <2>2 DEF StepKeeps
<1>6. CASE S = {} /\ d = <<>> /\ t = <<Locks!Lock("conn"), Locks!Query>>
  <2>1. /\ step = Locks!Lock("conn") /\ step[1] = "lock" /\ step[2] = "conn"
        /\ Tail(t) = <<Locks!Query>> /\ Tail(t) \in Seq(LockSteps)
    BY <1>6, PagesAre, Zenon
  <2>2. /\ S \cup {"conn"} = {"conn"} /\ <<Locks!Release("conn")>> \o d = <<Locks!Release("conn")>>
        /\ <<Locks!Release("conn")>> \in Seq(LockDeferrals)
    BY <1>2, <1>6, DeferralsAre
  <2>3. LET e == <<Locks!Release("conn")>>
        IN  e # <<>> /\ Head(e) = Locks!Release("conn") /\ \E i \in DOMAIN e : e[i] = Locks!Release("conn")
    OBVIOUS
  <2>4. Fits(S \cup {step[2]}, Tail(t), <<Locks!Release(step[2])>> \o d)
    <3>1. {"conn"} \in SUBSET Locks!Resources /\ \A m \in {"conn"} : m = "conn"
      BY <1>2
    <3>2. Fits({"conn"}, <<Locks!Query>>, <<Locks!Release("conn")>>)
      BY <2>1, <2>2, <2>3, <3>1, Zenon DEF Fits, Stuck
    <3>. QED
      BY <2>1, <2>2, <3>2, Zenon
  <2>. QED
    BY <1>2, <1>3, <1>4, <2>1, <2>4 DEF StepKeeps
<1>7. CASE Stuck(S, t, d)
  <2>1. step[1] = "use" /\ Tail(t) = <<>> /\ Tail(t) \in Seq(LockSteps)
    BY <1>2, <1>7, PagesAre, Zenon DEF Stuck
  <2>2. Fits(S, Tail(t), d)
    BY <1>3, <2>1, Zenon
  <2>. QED
    BY <1>3, <1>4, <2>1, <2>2 DEF StepKeeps
<1>. QED
  BY <1>5, <1>6, <1>7, Zenon DEF Paging

LEMMA StepFits ==
    ASSUME NEW S, NEW t, NEW d, Fits(S, t, d), t # <<>>, NEW step, step = Head(t)
    PROVE  StepKeeps(S, t, d, step)
<1>1. Keeps(S, t, d) \/ Paging(S, t, d) \/ Stuck(S, t, d)
  BY Zenon DEF Fits
<1>2. CASE Keeps(S, t, d)
  BY <1>2, KeptFits, Zenon
<1>3. CASE Paging(S, t, d) \/ Stuck(S, t, d)
  BY <1>3, PageFits, Zenon
<1>. QED
  BY <1>1, <1>2, <1>3

\* A handler that has returned runs what it has deferred, and a refund only
\* without the connection in hand.
LEMMA UnwindFits ==
    ASSUME NEW S, NEW d, Fits(S, <<>>, d), d # <<>>
    PROVE  \/ Head(d) = Locks!Refund /\ "conn" \notin S /\ Fits(S, <<>>, Tail(d))
           \/ \E m \in Locks!Resources : Head(d) = Locks!Release(m) /\ Fits(S \ {m}, <<>>, Tail(d))
<1>1. /\ S \in SUBSET Locks!Resources /\ <<>> \in Seq(LockSteps) /\ d \in Seq(LockDeferrals)
      /\ \A m \in S : \E i \in DOMAIN d : d[i] = Locks!Release(m)
      /\ "conn" \in S => Head(d) = Locks!Release("conn")
  BY Zenon DEF Fits
<1>2. /\ Head(d) \in LockDeferrals /\ Tail(d) \in Seq(LockDeferrals)
      /\ \A j \in DOMAIN d : d[j] # Head(d) => \E i \in DOMAIN Tail(d) : Tail(d)[i] = d[j]
  BY <1>1, Undeferring, Zenon
<1>3. CASE Head(d) = Locks!Refund
  <2>1. "conn" \notin S /\ \A k \in S : Locks!Release(k) # Head(d)
    BY <1>1, <1>3, DeferralsAre
  <2>2. \A k \in S : \E i \in DOMAIN Tail(d) : Tail(d)[i] = Locks!Release(k)
    BY <1>1, <1>2, <2>1, Zenon
  <2>3. Fits(S, <<>>, Tail(d))
    BY <1>1, <1>2, <2>1, <2>2, Zenon DEF Fits
  <2>. QED
    BY <1>3, <2>1, <2>3, Zenon
<1>4. ASSUME NEW m \in Locks!Resources, Head(d) = Locks!Release(m)
      PROVE  Fits(S \ {m}, <<>>, Tail(d))
  <2>1. \A k \in S \ {m} : k \in S /\ Locks!Release(k) # Head(d)
    BY <1>1, <1>4, DeferralsAre
  <2>2. \A k \in S \ {m} : \E i \in DOMAIN Tail(d) : Tail(d)[i] = Locks!Release(k)
    BY <1>1, <1>2, <2>1, Zenon
  <2>3. "conn" \notin S \ {m} /\ S \ {m} \in SUBSET Locks!Resources
    BY <1>1, <2>1
  <2>. QED
    BY <1>1, <1>2, <2>2, <2>3, Zenon DEF Fits
<1>. QED
  BY <1>2, <1>3, <1>4, Zenon DEF LockDeferrals

-----------------------------------------------------------------------------
\* The locks: all requests.

HeldBy(h, r) == {m \in Locks!Resources : h[m] = r}

\* The tables of the locks, as the requests of R leave them.
AllFit(R, h, t, d) ==
    /\ h \in [Locks!Resources -> R \cup {NoOne}]
    /\ t \in [R -> Seq(LockSteps)] /\ d \in [R -> Seq(LockDeferrals)]
    /\ \A r \in R : Fits(HeldBy(h, r), t[r], d[r])

\* One request moves.
LEMMA OneMoves ==
    ASSUME NEW R, NEW h, NEW t, NEW d, AllFit(R, h, t, d), NEW r \in R, NEW g, NEW a, NEW b,
           g \in [Locks!Resources -> R \cup {NoOne}], Fits(HeldBy(g, r), a, b),
           \A q \in R \ {r} : HeldBy(g, q) = HeldBy(h, q)
    PROVE  AllFit(R, g, [t EXCEPT ![r] = a], [d EXCEPT ![r] = b])
<1>. DEFINE t2 == [t EXCEPT ![r] = a]
            d2 == [d EXCEPT ![r] = b]
<1>1. t \in [R -> Seq(LockSteps)] /\ d \in [R -> Seq(LockDeferrals)]
  BY Zenon DEF AllFit
<1>2. a \in Seq(LockSteps) /\ b \in Seq(LockDeferrals)
  BY Zenon DEF Fits
<1>3. t2 \in [R -> Seq(LockSteps)] /\ d2 \in [R -> Seq(LockDeferrals)]
  BY <1>1, <1>2
<1>4. t2[r] = a /\ d2[r] = b /\ \A q \in R \ {r} : t2[q] = t[q] /\ d2[q] = d[q]
  BY <1>1
<1>. HIDE DEF t2, d2
<1>5. ASSUME NEW q \in R PROVE Fits(HeldBy(g, q), t2[q], d2[q])
  <2>1. CASE q = r
    BY <1>4, <2>1, Zenon
  <2>2. CASE q \in R \ {r}
    BY <1>4, <2>2, Zenon DEF AllFit
  <2>. QED
    BY <2>1, <2>2
<1>6. AllFit(R, g, t2, d2)
  BY <1>3, <1>5, Zenon DEF AllFit
<1>. QED
  BY <1>6 DEF t2, d2

\* A move of one request keeps the tables when it leaves what fits: it takes
\* what is free, gives what it may hold, or touches no lock.
LEMMA MoveFits ==
    ASSUME NEW R, NoOne \notin R, NEW h, NEW t, NEW d, AllFit(R, h, t, d), NEW r \in R, NEW g, NEW a, NEW b,
           \/ g = h /\ Fits(HeldBy(h, r), a, b)
           \/ \E m \in Locks!Resources : /\ h[m] = NoOne /\ g = [h EXCEPT ![m] = r]
                                         /\ Fits(HeldBy(h, r) \cup {m}, a, b)
           \/ \E m \in Locks!Resources : /\ g = IF h[m] = r THEN [h EXCEPT ![m] = NoOne] ELSE h
                                         /\ Fits(HeldBy(h, r) \ {m}, a, b)
    PROVE  AllFit(R, g, [t EXCEPT ![r] = a], [d EXCEPT ![r] = b])
<1>1. h \in [Locks!Resources -> R \cup {NoOne}]
  BY Zenon DEF AllFit
<1>2. CASE g = h /\ Fits(HeldBy(h, r), a, b)
  BY <1>1, <1>2, OneMoves, Zenon
<1>3. ASSUME NEW m \in Locks!Resources, h[m] = NoOne, g = [h EXCEPT ![m] = r],
             Fits(HeldBy(h, r) \cup {m}, a, b)
      PROVE  AllFit(R, g, [t EXCEPT ![r] = a], [d EXCEPT ![r] = b])
  <2>1. /\ g \in [Locks!Resources -> R \cup {NoOne}] /\ HeldBy(g, r) = HeldBy(h, r) \cup {m}
        /\ \A q \in R \ {r} : HeldBy(g, q) = HeldBy(h, q)
    <3>1. g[m] = r /\ \A k \in Locks!Resources \ {m} : g[k] = h[k]
      BY <1>1, <1>3
    <3>. QED
      BY <1>1, <1>3, <3>1 DEF HeldBy
  <2>2. Fits(HeldBy(g, r), a, b)
    BY <1>3, <2>1
  <2>. QED
    BY <2>1, <2>2, OneMoves, Zenon
<1>4. ASSUME NEW m \in Locks!Resources, g = IF h[m] = r THEN [h EXCEPT ![m] = NoOne] ELSE h,
             Fits(HeldBy(h, r) \ {m}, a, b)
      PROVE  AllFit(R, g, [t EXCEPT ![r] = a], [d EXCEPT ![r] = b])
  <2>1. /\ g \in [Locks!Resources -> R \cup {NoOne}] /\ HeldBy(g, r) = HeldBy(h, r) \ {m}
        /\ \A q \in R \ {r} : HeldBy(g, q) = HeldBy(h, q)
    <3>1. CASE h[m] = r
      <4>1. g[m] = NoOne /\ \A k \in Locks!Resources \ {m} : g[k] = h[k]
        BY <1>1, <1>4, <3>1
      <4>. QED
        BY <1>1, <1>4, <3>1, <4>1 DEF HeldBy
    <3>2. CASE h[m] # r
      BY <1>1, <1>4, <3>2 DEF HeldBy
    <3>. QED
      BY <3>1, <3>2
  <2>2. Fits(HeldBy(g, r), a, b)
    BY <1>4, <2>1
  <2>. QED
    BY <2>1, <2>2, OneMoves, Zenon
<1>. QED
  BY <1>2, <1>3, <1>4, Zenon

\* Nothing is waited for but by who holds lower ranks, except by a stalled page.
LEMMA WaitsAbove ==
    ASSUME NEW S, NEW t, NEW d, Fits(S, t, d), ~Stuck(S, t, d), t # <<>> \/ d # <<>>,
           NEW step, step = IF t # <<>> THEN Head(t) ELSE Head(d), Locks!Need(step) # "none"
    PROVE  \A m \in S : Rank(m) < Rank(Locks!Need(step))
<1>1. CASE t # <<>> /\ Keeps(S, t, d)
  <2>1. PICK x \in Tops : Ordered(t, At(S, x))
    BY <1>1, Zenon DEF Keeps
  <2>2. InOrder(step, At(S, x)) /\ At(S, x).held = S
    BY <1>1, <2>1, OrderedGoes DEF At
  <2>. QED
    BY <2>2 DEF InOrder
<1>3. CASE t # <<>> /\ Paging(S, t, d)
  BY <1>3 DEF Paging
<1>2. CASE t = <<>>
  <2>1. Fits(S, <<>>, d) /\ d # <<>> /\ step = Head(d)
    BY <1>2
  <2>2. ASSUME NEW m \in Locks!Resources PROVE step # Locks!Release(m)
    BY DeferralsAre DEF Locks!Need
  <2>3. step = Locks!Refund /\ "conn" \notin S
    BY <2>1, <2>2, UnwindFits, Zenon
  <2>4. Locks!Need(step) = "conn"
    BY <2>3, DeferralsAre DEF Locks!Need
  <2>. QED
    BY <2>3, <2>4 DEF Rank
<1>. QED
  BY <1>1, <1>2, <1>3, Zenon DEF Fits

LEMMA WaitsFor ==
    ASSUME NEW S, NEW t, NEW d, Fits(S, t, d), t # <<>> \/ d # <<>>,
           NEW step, step = IF t # <<>> THEN Head(t) ELSE Head(d), Locks!Need(step) # "none"
    PROVE  Locks!Need(step) \in Locks!Resources
<1>1. t \in Seq(LockSteps) /\ d \in Seq(LockDeferrals)
  BY Zenon DEF Fits
<1>2. CASE t # <<>>
  <2>1. step \in LockSteps
    BY <1>1, <1>2, HeadTailProperties
  <2>. QED
    BY <2>1 DEF LockSteps, Locks!Need
<1>3. CASE t = <<>>
  <2>1. step \in LockDeferrals
    BY <1>1, <1>3, HeadTailProperties
  <2>. QED
    BY <2>1, DeferralsAre DEF LockDeferrals, Locks!Need
<1>. QED
  BY <1>2, <1>3

\* So nobody waits in a ring: what is waited for would rise along it.
LEMMA NoRing ==
    ASSUME NEW h, NEW S, NEW need,
           \A r \in S : /\ h[need[r]] \in S /\ need[r] \in Locks!Resources
                        /\ \A m \in HeldBy(h, r) : Rank(m) < Rank(need[r])
    PROVE  S = {}
<1>1. \A r \in S : h[need[r]] \in S /\ need[r] \in HeldBy(h, h[need[r]])
  BY DEF HeldBy
<1>2. \A r \in S : Rank(need[r]) < Rank(need[h[need[r]]])
  BY <1>1
<1>3. \A m : Rank(m) \in 1..3
  BY DEF Rank
<1>4. \A r \in S : Rank(need[r]) < 3
  BY <1>2, <1>3
<1>5. \A r \in S : Rank(need[r]) < 2
  BY <1>1, <1>2, <1>3, <1>4
<1>6. \A r \in S : Rank(need[r]) < 1
  BY <1>1, <1>2, <1>3, <1>5
<1>. QED
  BY <1>3, <1>6

\* The newest deferred call of r runs.
Popped(r, h, d, g, e) ==
    LET step == Head(d[r])
    IN  /\ d[r] # <<>> /\ e = [d EXCEPT ![r] = Tail(d[r])]
        /\ IF step[1] = "give"
              THEN g = IF h[step[2]] = r THEN [h EXCEPT ![step[2]] = NoOne] ELSE h
              ELSE g = h

\* A step of r in the handler, with what it does to the tables.
Stepped(r, step, h, d, g, e) ==
    \/ step[1] \in {"use", "remote"} /\ g = h /\ e = d
    \/ /\ step[1] = "lock" /\ (step[2] \in Locks!Resources => h[step[2]] = NoOne)
       /\ g = [h EXCEPT ![step[2]] = r] /\ e = [d EXCEPT ![r] = <<Locks!Release(step[2])>> \o d[r]]
    \/ step[1] = "grab"
    \/ /\ step[1] = "give" /\ e = d
       /\ g = IF h[step[2]] = r THEN [h EXCEPT ![step[2]] = NoOne] ELSE h
    \/ step[1] = "reserve" /\ g = h /\ e = [d EXCEPT ![r] = <<Locks!Refund>> \o d[r]]
    \/ step[1] = "keep" /\ g = h /\ e = [d EXCEPT ![r] = LocksKept(d[r])]
    \/ step[1] = "return" /\ Popped(r, h, d, g, e)

\* What the steps of LockOrder do, to whichever tables: those of Locks, and
\* those of Ring.
Turn(r, h, t, d, g, u, e) ==
    \/ /\ t[r] = <<>> /\ d[r] = <<>> /\ g = h /\ e = d
       /\ \E name \in Locks!HandlerNames : u = [t EXCEPT ![r] = Locks!Program(name)]
    \/ /\ t[r] # <<>> /\ u = [t EXCEPT ![r] = Tail(t[r])]
       /\ Stepped(r, Head(t[r]), h, d, g, e)
    \/ t[r] # <<>> /\ u = [t EXCEPT ![r] = <<>>] /\ g = h /\ e = d
    \/ t[r] = <<>> /\ u = t /\ Popped(r, h, d, g, e)

LEMMA TurnHolds ==
    ASSUME NEW R, NoOne \notin R, NEW h, NEW t, NEW d, AllFit(R, h, t, d), NEW r \in R,
           NEW g, NEW u, NEW e, Turn(r, h, t, d, g, u, e)
    PROVE  AllFit(R, g, u, e)
<1>1. /\ h \in [Locks!Resources -> R \cup {NoOne}]
      /\ t \in [R -> Seq(LockSteps)] /\ d \in [R -> Seq(LockDeferrals)]
  BY Zenon DEF AllFit
<1>. DEFINE S == HeldBy(h, r)
            Moves(a, b) ==
                /\ u = [t EXCEPT ![r] = a] /\ e = [d EXCEPT ![r] = b]
                /\ \/ g = h /\ Fits(S, a, b)
                   \/ \E m \in Locks!Resources : /\ h[m] = NoOne /\ g = [h EXCEPT ![m] = r]
                                                 /\ Fits(S \cup {m}, a, b)
                   \/ \E m \in Locks!Resources : /\ g = IF h[m] = r THEN [h EXCEPT ![m] = NoOne] ELSE h
                                                 /\ Fits(S \ {m}, a, b)
<1>2. Fits(S, t[r], d[r]) /\ t = [t EXCEPT ![r] = t[r]] /\ d = [d EXCEPT ![r] = d[r]]
  BY <1>1, Zenon DEF AllFit
<1>3. ASSUME NEW name \in Locks!HandlerNames, t[r] = <<>>, d[r] = <<>>, g = h, e = d,
             u = [t EXCEPT ![r] = Locks!Program(name)]
      PROVE  Moves(Locks!Program(name), d[r])
  <2>1. S = {}
    BY <1>2, <1>3 DEF Fits
  <2>2. Fits(S, Locks!Program(name), d[r])
    BY <1>3, <2>1, HandlerFits, Zenon
  <2>. QED
    BY <1>2, <1>3, <2>2, Zenon
<1>4. ASSUME t[r] # <<>>, u = [t EXCEPT ![r] = <<>>], g = h, e = d PROVE Moves(<<>>, d[r])
  <2>1. Fits(S, <<>>, d[r])
    BY <1>2, <1>4, StepFits, Zenon DEF StepKeeps
  <2>. QED
    BY <1>2, <1>4, <2>1, Zenon
<1>5. ASSUME Popped(r, h, d, g, e)
      PROVE  /\ d[r] # <<>> /\ e = [d EXCEPT ![r] = Tail(d[r])]
             /\ Head(d[r]) = Locks!Refund => g = h
             /\ \A m \in Locks!Resources : Head(d[r]) = Locks!Release(m) =>
                   g = IF h[m] = r THEN [h EXCEPT ![m] = NoOne] ELSE h
  BY <1>5, DeferralsAre DEF Popped
<1>6. ASSUME t[r] = <<>>, u = t, Popped(r, h, d, g, e) PROVE Moves(<<>>, Tail(d[r]))
  <2>1. u = [t EXCEPT ![r] = <<>>]
    BY <1>2, <1>6
  <2>. QED
    BY <1>2, <1>5, <1>6, <2>1, UnwindFits, Zenon
<1>7. ASSUME t[r] # <<>>, u = [t EXCEPT ![r] = Tail(t[r])], Stepped(r, Head(t[r]), h, d, g, e)
      PROVE  \E b : Moves(Tail(t[r]), b)
  <2>1. PICK step : step = Head(t[r])
    OBVIOUS
  <2>2. Stepped(r, step, h, d, g, e)
    BY <1>7, <2>1
  <2>3. step[1] \in LockKinds
    BY <1>2, <1>7, <2>1, StepFits, Zenon DEF StepKeeps
  <2>4. CASE step[1] \in {"use", "remote"}
    <3>1. g = h /\ e = d
      BY <2>2, <2>4 DEF Stepped
    <3>2. Fits(S, Tail(t[r]), d[r])
      BY <1>2, <1>7, <2>1, <2>4, StepFits, Zenon DEF StepKeeps
    <3>. QED
      BY <1>2, <1>7, <3>1, <3>2, Zenon
  <2>5. CASE step[1] = "lock"
    <3>. DEFINE m == step[2]
                b == <<Locks!Release(m)>> \o d[r]
    <3>1. m \in Locks!Resources /\ Fits(S \cup {m}, Tail(t[r]), b)
      BY <1>2, <1>7, <2>1, <2>5, StepFits, Zenon DEF StepKeeps
    <3>2. g = [h EXCEPT ![m] = r] /\ e = [d EXCEPT ![r] = b] /\ h[m] = NoOne
      BY <2>2, <2>5, <3>1 DEF Stepped
    <3>. QED
      BY <1>7, <3>1, <3>2, Zenon
  <2>6. CASE step[1] = "give"
    <3>. DEFINE m == step[2]
    <3>1. m \in Locks!Resources /\ Fits(S \ {m}, Tail(t[r]), d[r])
      BY <1>2, <1>7, <2>1, <2>6, StepFits, Zenon DEF StepKeeps
    <3>2. e = d /\ g = IF h[m] = r THEN [h EXCEPT ![m] = NoOne] ELSE h
      BY <2>2, <2>6 DEF Stepped
    <3>. QED
      BY <1>2, <1>7, <3>1, <3>2, Zenon
  <2>7. CASE step[1] = "reserve"
    <3>1. Fits(S, Tail(t[r]), <<Locks!Refund>> \o d[r])
      BY <1>2, <1>7, <2>1, <2>7, StepFits, Zenon DEF StepKeeps
    <3>2. g = h /\ e = [d EXCEPT ![r] = <<Locks!Refund>> \o d[r]]
      BY <2>2, <2>7 DEF Stepped
    <3>. QED
      BY <1>7, <3>1, <3>2, Zenon
  <2>8. CASE step[1] = "keep"
    <3>1. Fits(S, Tail(t[r]), LocksKept(d[r]))
      BY <1>2, <1>7, <2>1, <2>8, StepFits, Zenon DEF StepKeeps
    <3>2. g = h /\ e = [d EXCEPT ![r] = LocksKept(d[r])]
      BY <2>2, <2>8 DEF Stepped
    <3>. QED
      BY <1>7, <3>1, <3>2, Zenon
  <2>9. CASE step[1] = "return"
    <3>1. PICK m \in Locks!Resources :
             Head(d[r]) = Locks!Release(m) /\ Fits(S \ {m}, Tail(t[r]), Tail(d[r]))
      BY <1>2, <1>7, <2>1, <2>9, StepFits, Zenon DEF StepKeeps
    <3>2. Popped(r, h, d, g, e)
      BY <2>2, <2>9 DEF Stepped
    <3>3. /\ e = [d EXCEPT ![r] = Tail(d[r])]
          /\ g = IF h[m] = r THEN [h EXCEPT ![m] = NoOne] ELSE h
      BY <1>5, <3>1, <3>2, Zenon
    <3>. QED
      BY <1>7, <3>1, <3>3, Zenon
  <2>. QED
    BY <2>3, <2>4, <2>5, <2>6, <2>7, <2>8, <2>9, Zenon DEF LockKinds
<1>8. \E a, b : Moves(a, b)
  <2>1. CASE t[r] = <<>> /\ d[r] = <<>> /\ g = h /\ e = d
             /\ \E name \in Locks!HandlerNames : u = [t EXCEPT ![r] = Locks!Program(name)]
    BY <1>3, <2>1, Zenon
  <2>2. CASE /\ t[r] # <<>> /\ u = [t EXCEPT ![r] = Tail(t[r])]
             /\ Stepped(r, Head(t[r]), h, d, g, e)
    BY <1>7, <2>2, Zenon
  <2>3. CASE t[r] # <<>> /\ u = [t EXCEPT ![r] = <<>>] /\ g = h /\ e = d
    BY <1>4, <2>3, Zenon
  <2>4. CASE t[r] = <<>> /\ u = t /\ Popped(r, h, d, g, e)
    BY <1>6, <2>4, Zenon
  <2>. QED
    BY <2>1, <2>2, <2>3, <2>4, Zenon DEF Turn
<1>9. PICK a, b : Moves(a, b)
  BY <1>8, Zenon
<1>10. AllFit(R, g, [t EXCEPT ![r] = a], [d EXCEPT ![r] = b])
  BY <1>9, MoveFits, Zenon
<1>. QED
  BY <1>9, <1>10, Zenon

\* What the request of these tables does next, and what it waits for.
NextOf(t, d) == IF t # <<>> THEN Head(t) ELSE Head(d)

Waiting(S, h, t, d) ==
    \A r \in S : /\ t[r] # <<>> \/ d[r] # <<>>
                 /\ Locks!Need(NextOf(t[r], d[r])) # "none"
                 /\ h[Locks!Need(NextOf(t[r], d[r]))] \in S

OneStalls(S, h, t, d) ==
    \E r \in S : t[r] = <<Locks!Query>> /\ d[r] = <<Locks!Release("conn")>> /\ h["conn"] = r

LEMMA FitIsSafe ==
    ASSUME NEW R, NEW h, NEW t, NEW d, AllFit(R, h, t, d)
    PROVE  /\ \A r \in R : /\ \A i \in DOMAIN d[r] : d[r][i] \in LockDeferrals
                          /\ \A m \in Locks!Resources : h[m] = r =>
                                \E i \in DOMAIN d[r] : d[r][i] = Locks!Release(m)
           /\ \A S \in SUBSET R : Waiting(S, h, t, d) /\ S # {} =>
                 OneStalls(S, h, t, d)
           /\ \A r \in R : t[r] # <<>> /\ Head(t[r]) = Locks!Remote => h["conn"] # r
<1>1. \A r \in R : Fits(HeldBy(h, r), t[r], d[r])
  BY Zenon DEF AllFit
<1>2. ASSUME NEW r \in R
      PROVE  /\ \A i \in DOMAIN d[r] : d[r][i] \in LockDeferrals
             /\ \A m \in Locks!Resources : h[m] = r =>
                   \E i \in DOMAIN d[r] : d[r][i] = Locks!Release(m)
  <2>1. Fits(HeldBy(h, r), t[r], d[r])
    BY <1>1
  <2>2. d[r] \in Seq(LockDeferrals)
    BY <2>1, Zenon DEF Fits
  <2>3. \A m \in Locks!Resources : h[m] = r => \E i \in DOMAIN d[r] : d[r][i] = Locks!Release(m)
    BY <2>1 DEF Fits, HeldBy
  <2>. QED
    BY <2>2, <2>3, ElementOfSeq, LenProperties
<1>3. ASSUME NEW S \in SUBSET R, Waiting(S, h, t, d), \A r \in S : ~Stuck(HeldBy(h, r), t[r], d[r])
      PROVE  S = {}
  <2>. DEFINE need == [r \in S |-> Locks!Need(NextOf(t[r], d[r]))]
  <2>1. ASSUME NEW r \in S
        PROVE  /\ h[need[r]] \in S /\ need[r] \in Locks!Resources
               /\ \A m \in HeldBy(h, r) : Rank(m) < Rank(need[r])
    <3>1. /\ need[r] = Locks!Need(NextOf(t[r], d[r])) /\ need[r] # "none" /\ h[need[r]] \in S
          /\ t[r] # <<>> \/ d[r] # <<>>
      BY <1>3 DEF Waiting
    <3>. HIDE DEF need
    <3>2. Fits(HeldBy(h, r), t[r], d[r]) /\ ~Stuck(HeldBy(h, r), t[r], d[r])
      BY <1>1, <1>3
    <3>3. \A m \in HeldBy(h, r) : Rank(m) < Rank(need[r])
      BY <3>1, <3>2, WaitsAbove, Zenon DEF NextOf
    <3>4. need[r] \in Locks!Resources
      BY <3>1, <3>2, WaitsFor, Zenon DEF NextOf
    <3>. QED
      BY <3>1, <3>3, <3>4
  <2>. HIDE DEF need
  <2>. QED
    BY <2>1, NoRing, Zenon
<1>5. ASSUME NEW r \in R, Stuck(HeldBy(h, r), t[r], d[r])
      PROVE  t[r] = <<Locks!Query>> /\ d[r] = <<Locks!Release("conn")>> /\ h["conn"] = r
  BY <1>5 DEF Stuck, HeldBy
<1>4. ASSUME NEW r \in R, t[r] # <<>>, Head(t[r]) = Locks!Remote PROVE h["conn"] # r
  <2>0. Keeps(HeldBy(h, r), t[r], d[r])
    BY <1>1, <1>4, PagesAre, Zenon DEF Fits, Paging, Stuck
  <2>1. PICK x \in Tops : Ordered(t[r], At(HeldBy(h, r), x))
    BY <2>0, Zenon DEF Keeps
  <2>2. InOrder(Locks!Remote, At(HeldBy(h, r), x))
    BY <1>4, <2>1, OrderedGoes, Zenon
  <2>3. "conn" \notin HeldBy(h, r)
    BY <2>2 DEF InOrder, At, Locks!Remote
  <2>. QED
    BY <2>3, DeferralsAre DEF HeldBy
<1>. QED
  BY <1>2, <1>3, <1>4, <1>5, Zenon DEF OneStalls

\* Of requests that wait for one another one is a page of scans.
LEMMA FitsStall ==
    ASSUME NEW R, NEW h, NEW t, NEW d, AllFit(R, h, t, d),
           NEW S \in SUBSET R, Waiting(S, h, t, d), S # {}
    PROVE  OneStalls(S, h, t, d)
BY FitIsSafe, Zenon

LEMMA NoneFit ==
    ASSUME NEW R, NoOne \notin R, NEW h, NEW t, NEW d,
           h = [m \in Locks!Resources |-> NoOne], t = [r \in R |-> <<>>], d = [r \in R |-> <<>>]
    PROVE  AllFit(R, h, t, d)
<1>1. <<>> \in Seq(LockSteps) /\ <<>> \in Seq(LockDeferrals)
  OBVIOUS
<1>2. /\ h \in [Locks!Resources -> R \cup {NoOne}]
      /\ t \in [R -> Seq(LockSteps)] /\ d \in [R -> Seq(LockDeferrals)]
      /\ \A r \in R : HeldBy(h, r) = {} /\ t[r] = <<>> /\ d[r] = <<>>
  BY <1>1 DEF HeldBy
<1>3. Fits({}, <<>>, <<>>)
  BY <1>1, Zenon DEF Fits
<1>. QED
  BY <1>2, <1>3, Zenon DEF AllFit

-----------------------------------------------------------------------------
\* The locks: two requests at every handler, and a ring of more.

LEMMA LocksTurn ==
    ASSUME Locks!Next
    PROVE  \E r \in LockRequests : Turn(r, holder, todo, deferred, holder', todo', deferred')
<1>0. LockHandlers \subseteq Locks!HandlerNames
  BY ServicesAssumption DEF Locks!LockAssumption
<1>1. PICK r \in LockRequests : \/ \E name \in LockHandlers : Locks!Start(r, name)
                                \/ Locks!Step(r) \/ Locks!Fail(r) \/ Locks!Unwind(r)
  BY Zenon DEF Locks!Next
<1>2. Locks!RunDeferred(r) => Popped(r, holder, deferred, holder', deferred')
  BY DEF Locks!RunDeferred, Locks!Give, Popped
<1>3. ASSUME NEW name \in LockHandlers, Locks!Start(r, name) PROVE Turn(r, holder, todo, deferred, holder', todo', deferred')
  BY <1>0, <1>3 DEF Locks!Start, Locks!Idle, Turn
<1>4. ASSUME Locks!Step(r) PROVE Turn(r, holder, todo, deferred, holder', todo', deferred')
  <2>1. PICK step : step = Head(todo[r])
    OBVIOUS
  <2>2. /\ todo[r] # <<>> /\ todo' = [todo EXCEPT ![r] = Tail(todo[r])]
        /\ Locks!Free(Locks!Need(step)) /\ Locks!Take(r, step)
    BY <1>4, <2>1 DEF Locks!Step
  <2>3. step[1] = "lock" => (step[2] \in Locks!Resources => holder[step[2]] = NoOne)
    BY <2>2 DEF Locks!Free, Locks!Need
  <2>4. Stepped(r, step, holder, deferred, holder', deferred')
    BY <1>2, <2>2, <2>3 DEF Locks!Take, Locks!Give, Locks!Defer, Stepped, LocksKept
  <2>. QED
    BY <2>1, <2>2, <2>4, Zenon DEF Turn
<1>5. ASSUME Locks!Fail(r) PROVE Turn(r, holder, todo, deferred, holder', todo', deferred')
  BY <1>5 DEF Locks!Fail, Turn
<1>6. ASSUME Locks!Unwind(r) PROVE Turn(r, holder, todo, deferred, holder', todo', deferred')
  BY <1>2, <1>6 DEF Locks!Unwind, Turn
<1>. QED
  BY <1>1, <1>3, <1>4, <1>5, <1>6, Zenon

LEMMA LocksHold ==
    /\ Locks!Init => AllFit(LockRequests, holder, todo, deferred)
    /\ AllFit(LockRequests, holder, todo, deferred) /\ (Locks!Next \/ UNCHANGED <<holder, todo, deferred>>)
          => AllFit(LockRequests, holder, todo, deferred)'
    /\ AllFit(LockRequests, holder, todo, deferred) =>
          Locks!TypeOK /\ Locks!OnlyPagesStall /\ Locks!RemoteHoldsNoConn
<1>0. NoOne \notin LockRequests
  BY ServicesAssumption DEF Locks!LockAssumption
<1>1. Locks!Init => AllFit(LockRequests, holder, todo, deferred)
  BY <1>0, NoneFit, Zenon DEF Locks!Init
<1>2. ASSUME AllFit(LockRequests, holder, todo, deferred), Locks!Next \/ UNCHANGED <<holder, todo, deferred>>
      PROVE  AllFit(LockRequests, holder', todo', deferred')
  <2>1. CASE Locks!Next
    BY <1>0, <1>2, <2>1, LocksTurn, TurnHolds, Zenon
  <2>2. CASE UNCHANGED <<holder, todo, deferred>>
    BY <1>2, <2>2
  <2>. QED
    BY <1>2, <2>1, <2>2, Zenon
<1>3. ASSUME AllFit(LockRequests, holder, todo, deferred)
      PROVE  Locks!TypeOK /\ Locks!OnlyPagesStall /\ Locks!RemoteHoldsNoConn
  <2>1. Locks!TypeOK
    <3>1. holder \in [Locks!Resources -> LockRequests \cup {NoOne}]
      BY <1>3, Zenon DEF AllFit
    <3>2. \A r \in LockRequests : /\ \A i \in DOMAIN deferred[r] : deferred[r][i] \in LockDeferrals
                                /\ \A m \in Locks!Resources : holder[m] = r =>
                                      \E i \in DOMAIN deferred[r] : deferred[r][i] = Locks!Release(m)
      BY <1>3, FitIsSafe
    <3>3. LockDeferrals = {Locks!Release(m) : m \in Locks!Resources} \cup {Locks!Refund}
      BY Zenon DEF LockDeferrals
    <3>. QED
      BY <3>1, <3>2, <3>3 DEF Locks!TypeOK
  <2>2. \A S : Locks!WaitsWithin(S) => Waiting(S, holder, todo, deferred)
    BY Zenon DEF Locks!WaitsWithin, Locks!Idle, Locks!NextStep, Waiting, NextOf
  <2>3. ASSUME NEW S \in SUBSET LockRequests, Waiting(S, holder, todo, deferred), S # {}
        PROVE  OneStalls(S, holder, todo, deferred)
    BY <1>3, <2>3, FitsStall, Zenon
  <2>4. Locks!OnlyPagesStall
    BY <2>2, <2>3, Zenon DEF OneStalls, Locks!OnlyPagesStall, Locks!Stalled
  <2>5. Locks!RemoteHoldsNoConn
    BY <1>3, FitIsSafe DEF Locks!RemoteHoldsNoConn
  <2>. QED
    BY <2>1, <2>4, <2>5
<1>4. AllFit(LockRequests, holder, todo, deferred)' <=> AllFit(LockRequests, holder', todo', deferred')
  BY DEF AllFit
<1>. QED
  BY <1>1, <1>2, <1>3, <1>4, Zenon

\* The ring's steps, handlers and filter are those of Locks.
LEMMA SameLocks ==
    /\ Ring!Resources = Locks!Resources /\ Ring!HandlerNames = Locks!HandlerNames
    /\ Ring!Refund = Locks!Refund /\ Ring!Remote = Locks!Remote /\ Ring!Query = Locks!Query
    /\ \A m : Ring!Release(m) = Locks!Release(m)
    /\ \A step : Ring!Need(step) = Locks!Need(step)
    /\ \A s, S : Ring!Taken(s, S) = Locks!Taken(s, S)
    /\ \A name : Ring!Program(name) = Locks!Program(name)
<1>1. /\ Ring!Resources = Locks!Resources /\ Ring!HandlerNames = Locks!HandlerNames
      /\ Ring!Query = Locks!Query /\ Ring!Refund = Locks!Refund /\ Ring!Remote = Locks!Remote
      /\ Ring!Reserve = Locks!Reserve /\ Ring!Keep = Locks!Keep /\ Ring!Return = Locks!Return
      /\ \A m : Ring!Release(m) = Locks!Release(m) /\ Ring!Lock(m) = Locks!Lock(m)
      /\ \A step : Ring!Need(step) = Locks!Need(step)
  BY DEF Ring!Resources, Locks!Resources, Ring!HandlerNames, Locks!HandlerNames, Ring!Query, Locks!Query,
         Ring!Refund, Locks!Refund, Ring!Remote, Locks!Remote, Ring!Reserve, Locks!Reserve, Ring!Keep, Locks!Keep,
         Ring!Return, Locks!Return, Ring!Release, Locks!Release, Ring!Lock, Locks!Lock, Ring!Need, Locks!Need
<1>2. \A s, S : Ring!Taken(s, S) = Locks!Taken(s, S)
  BY DEF Ring!Taken, Locks!Taken, Ring!Ascending, Locks!Ascending, Ring!Below, Locks!Below,
         Ring!Cardinality, Locks!Cardinality
<1>3. /\ Ring!Transaction = Locks!Transaction /\ Ring!Cursor = Locks!Cursor /\ Ring!Kept = Locks!Kept
      /\ Ring!SignReceipt = Locks!SignReceipt /\ Ring!ClientFor = Locks!ClientFor
      /\ Ring!ScanToken = Locks!ScanToken
  BY <1>1, Zenon DEF Ring!Transaction, Locks!Transaction, Ring!Cursor, Locks!Cursor, Ring!Kept, Locks!Kept,
         Ring!SignReceipt, Locks!SignReceipt, Ring!ClientFor, Locks!ClientFor, Ring!ScanToken, Locks!ScanToken
<1>4. Ring!Charge = Locks!Charge /\ Ring!LogActivity = Locks!LogActivity
  BY <1>1, <1>3, Zenon DEF Ring!Charge, Locks!Charge, Ring!LogActivity, Locks!LogActivity
<1>5. /\ Ring!ListPrograms = Locks!ListPrograms /\ Ring!DeliverWebhooks = Locks!DeliverWebhooks
      /\ Ring!CreateCampaign = Locks!CreateCampaign /\ Ring!IssueCodes = Locks!IssueCodes
      /\ Ring!Settle = Locks!Settle /\ Ring!CommitTally = Locks!CommitTally
      /\ Ring!RecordEvents = Locks!RecordEvents /\ Ring!CreateProgram = Locks!CreateProgram
      /\ Ring!Punch = Locks!Punch /\ Ring!ListScans = Locks!ListScans /\ Ring!ScansPage = Locks!ScansPage
      /\ Ring!RegisterShared = Locks!RegisterShared /\ Ring!Verify = Locks!Verify
      /\ Ring!Redeem = Locks!Redeem /\ Ring!RejectRedemption = Locks!RejectRedemption
  BY <1>1, <1>3, <1>4, Zenon
     DEF Ring!ListPrograms, Locks!ListPrograms, Ring!DeliverWebhooks, Locks!DeliverWebhooks,
         Ring!CreateCampaign, Locks!CreateCampaign, Ring!IssueCodes, Locks!IssueCodes, Ring!Settle, Locks!Settle,
         Ring!CommitTally, Locks!CommitTally, Ring!RecordEvents, Locks!RecordEvents,
         Ring!CreateProgram, Locks!CreateProgram, Ring!Punch, Locks!Punch, Ring!ListScans, Locks!ListScans,
         Ring!ScansPage, Locks!ScansPage, Ring!RegisterShared, Locks!RegisterShared, Ring!Verify, Locks!Verify,
         Ring!Redeem, Locks!Redeem, Ring!RejectRedemption, Locks!RejectRedemption
<1>6. \A name : Ring!Program(name) = Locks!Program(name)
  BY <1>1, <1>3, <1>5 DEF Ring!Program, Locks!Program
<1>. QED
  BY <1>1, <1>2, <1>6

LEMMA RingTurn ==
    ASSUME Ring!Next
    PROVE  \E r \in RingRequests : Turn(r, ringHolder, ringTodo, ringDeferred, ringHolder', ringTodo', ringDeferred')
<1>0. RingHandlers \subseteq Locks!HandlerNames
  BY ServicesAssumption, SameLocks DEF Ring!LockAssumption
<1>1. PICK r \in RingRequests : \/ \E name \in RingHandlers : Ring!Start(r, name)
                                \/ Ring!Step(r) \/ Ring!Fail(r) \/ Ring!Unwind(r)
  BY Zenon DEF Ring!Next
<1>2. Ring!RunDeferred(r) => Popped(r, ringHolder, ringDeferred, ringHolder', ringDeferred')
  BY DEF Ring!RunDeferred, Ring!Give, Popped
<1>3. ASSUME NEW name \in RingHandlers, Ring!Start(r, name) PROVE Turn(r, ringHolder, ringTodo, ringDeferred, ringHolder', ringTodo', ringDeferred')
  BY <1>0, <1>3, SameLocks DEF Ring!Start, Ring!Idle, Turn
<1>4. ASSUME Ring!Step(r) PROVE Turn(r, ringHolder, ringTodo, ringDeferred, ringHolder', ringTodo', ringDeferred')
  <2>1. PICK step : step = Head(ringTodo[r])
    OBVIOUS
  <2>2. /\ ringTodo[r] # <<>> /\ ringTodo' = [ringTodo EXCEPT ![r] = Tail(ringTodo[r])]
        /\ Ring!Free(Ring!Need(step)) /\ Ring!Take(r, step)
    BY <1>4, <2>1 DEF Ring!Step
  <2>3. step[1] = "lock" => (step[2] \in Locks!Resources => ringHolder[step[2]] = NoOne)
    BY <2>2, SameLocks DEF Ring!Free, Ring!Need
  <2>4. Stepped(r, step, ringHolder, ringDeferred, ringHolder', ringDeferred')
    BY <1>2, <2>2, <2>3, SameLocks DEF Ring!Take, Ring!Give, Ring!Defer, Stepped, LocksKept
  <2>. QED
    BY <2>1, <2>2, <2>4, Zenon DEF Turn
<1>5. ASSUME Ring!Fail(r) PROVE Turn(r, ringHolder, ringTodo, ringDeferred, ringHolder', ringTodo', ringDeferred')
  BY <1>5 DEF Ring!Fail, Turn
<1>6. ASSUME Ring!Unwind(r) PROVE Turn(r, ringHolder, ringTodo, ringDeferred, ringHolder', ringTodo', ringDeferred')
  BY <1>2, <1>6 DEF Ring!Unwind, Turn
<1>. QED
  BY <1>1, <1>3, <1>4, <1>5, <1>6, Zenon

LEMMA RingHold ==
    /\ Ring!Init => AllFit(RingRequests, ringHolder, ringTodo, ringDeferred)
    /\ AllFit(RingRequests, ringHolder, ringTodo, ringDeferred) /\ (Ring!Next \/ UNCHANGED <<ringHolder, ringTodo, ringDeferred>>)
          => AllFit(RingRequests, ringHolder, ringTodo, ringDeferred)'
    /\ AllFit(RingRequests, ringHolder, ringTodo, ringDeferred) =>
          Ring!TypeOK /\ Ring!OnlyPagesStall /\ Ring!RemoteHoldsNoConn
<1>0. NoOne \notin RingRequests
  BY ServicesAssumption DEF Ring!LockAssumption
<1>1. Ring!Init => AllFit(RingRequests, ringHolder, ringTodo, ringDeferred)
  BY <1>0, NoneFit, SameLocks, Zenon DEF Ring!Init
<1>2. ASSUME AllFit(RingRequests, ringHolder, ringTodo, ringDeferred), Ring!Next \/ UNCHANGED <<ringHolder, ringTodo, ringDeferred>>
      PROVE  AllFit(RingRequests, ringHolder', ringTodo', ringDeferred')
  <2>1. CASE Ring!Next
    BY <1>0, <1>2, <2>1, RingTurn, TurnHolds, Zenon
  <2>2. CASE UNCHANGED <<ringHolder, ringTodo, ringDeferred>>
    BY <1>2, <2>2
  <2>. QED
    BY <1>2, <2>1, <2>2, Zenon
<1>3. ASSUME AllFit(RingRequests, ringHolder, ringTodo, ringDeferred)
      PROVE  Ring!TypeOK /\ Ring!OnlyPagesStall /\ Ring!RemoteHoldsNoConn
  <2>1. Ring!TypeOK
    <3>1. ringHolder \in [Locks!Resources -> RingRequests \cup {NoOne}]
      BY <1>3, Zenon DEF AllFit
    <3>2. \A r \in RingRequests : /\ \A i \in DOMAIN ringDeferred[r] : ringDeferred[r][i] \in LockDeferrals
                                /\ \A m \in Locks!Resources : ringHolder[m] = r =>
                                      \E i \in DOMAIN ringDeferred[r] : ringDeferred[r][i] = Locks!Release(m)
      BY <1>3, FitIsSafe
    <3>3. LockDeferrals = {Ring!Release(m) : m \in Ring!Resources} \cup {Ring!Refund}
      BY SameLocks, Zenon DEF LockDeferrals
    <3>. QED
      BY <3>1, <3>2, <3>3, SameLocks DEF Ring!TypeOK
  <2>2. \A S : Ring!WaitsWithin(S) => Waiting(S, ringHolder, ringTodo, ringDeferred)
    BY SameLocks, Zenon DEF Ring!WaitsWithin, Ring!Idle, Ring!NextStep, Waiting, NextOf
  <2>3. ASSUME NEW S \in SUBSET RingRequests, Waiting(S, ringHolder, ringTodo, ringDeferred), S # {}
        PROVE  OneStalls(S, ringHolder, ringTodo, ringDeferred)
    BY <1>3, <2>3, FitsStall, Zenon
  <2>4. Ring!OnlyPagesStall
    BY <2>2, <2>3, SameLocks, Zenon DEF OneStalls, Ring!OnlyPagesStall, Ring!Stalled
  <2>5. Ring!RemoteHoldsNoConn
    BY <1>3, FitIsSafe, SameLocks DEF Ring!RemoteHoldsNoConn
  <2>. QED
    BY <2>1, <2>4, <2>5
<1>4. AllFit(RingRequests, ringHolder, ringTodo, ringDeferred)' <=> AllFit(RingRequests, ringHolder', ringTodo', ringDeferred')
  BY DEF AllFit
<1>. QED
  BY <1>1, <1>2, <1>3, <1>4, Zenon

-----------------------------------------------------------------------------
\* All parts.

LEMMA OnePartSteps ==
    ASSUME [ServicesNext]_servicesVars
    PROVE  /\ [Next]_vars
           /\ Credits!Next \/ UNCHANGED creditsVars
           /\ Hooks!Next \/ UNCHANGED hooksVars
           /\ Locks!Next \/ UNCHANGED locksVars
           /\ Ring!Next \/ UNCHANGED ringVars
BY DEF ServicesNext, servicesVars, KeysStep, CreditsStep, HooksStep, LocksStep, RingStep, OfHooks, OfLocks,
       keysVars

-----------------------------------------------------------------------------
\* Metering.

\* No grant is of a month after the last one granted.
GrantsBefore == \A i \in 1..Len(ledger) : ledger[i].month <= granted

\* GrantsOnce alone is not inductive: the month of a new row must be later than
\* every row's, and only the row of credits says which months were granted.
CreditsInv == Credits!TypeOK /\ Credits!LedgerAdds /\ Credits!GrantsOnce /\ GrantsBefore

-----------------------------------------------------------------------------
LEMMA CreditsBegin == Credits!Init => CreditsInv
<1>. SUFFICES ASSUME Credits!Init PROVE CreditsInv
  OBVIOUS
<1>1. creditsReq \in [CreditRequests -> Credits!Req] /\ \A r \in CreditRequests : creditsReq[r].used <= creditsReq[r].cost
  <2>1. \A r \in CreditRequests : creditsReq[r] \in [at : {"new"}, cost : Costs, used : {0}]
    BY DEF Credits!Init
  <2>2. \A r \in CreditRequests : creditsReq[r] \in Credits!Req /\ creditsReq[r].used <= creditsReq[r].cost
    <3>. SUFFICES ASSUME NEW r \in CreditRequests PROVE creditsReq[r] \in Credits!Req /\ creditsReq[r].used <= creditsReq[r].cost
      OBVIOUS
    <3>1. creditsReq[r].at = "new" /\ creditsReq[r].cost \in Costs /\ creditsReq[r].used = 0
      BY <2>1
    <3>2. creditsReq[r] = [at |-> "new", cost |-> creditsReq[r].cost, used |-> 0]
      BY <2>1
    <3>3. creditsReq[r].cost \in Nat
      BY <3>1, CreditsAssumption
    <3>. QED
      BY <3>1, <3>2, <3>3 DEF Credits!Req, Credits!Stages
  <2>. QED
    BY <2>2 DEF Credits!Init
<1>2. Credits!TypeOK
  BY <1>1, CreditsAssumption DEF Credits!Init, Credits!TypeOK
<1>3. Credits!LedgerAdds /\ Credits!GrantsOnce /\ GrantsBefore
  BY DEF Credits!Init, Credits!LedgerAdds, Credits!GrantsOnce, GrantsBefore
<1>. QED
  BY <1>2, <1>3 DEF CreditsInv

\* A row that is written continues the ledger, whatever its delta; a row of a
\* grant must be of a month granted now and not before.
LEMMA PostHolds ==
    ASSUME CreditsInv, NEW m \in 0..LastMonth, NEW delta \in Int,
           balance + delta >= 0, Credits!Post(m, delta),
           granted' >= granted, granted' \in 0..LastMonth, m <= granted', m > 0 => granted < m
    PROVE  /\ balance' \in Nat /\ ledger' \in Seq(Credits!Entry)
           /\ Credits!LedgerAdds' /\ Credits!GrantsOnce' /\ GrantsBefore'
<1>. DEFINE e == [month |-> m, delta |-> delta, balance |-> balance + delta]
            n == Len(ledger)
<1>1. /\ ledger \in Seq(Credits!Entry) /\ balance \in Nat /\ granted \in Nat /\ n \in Nat
      /\ balance' = balance + delta /\ ledger' = Append(ledger, e)
  BY DEF CreditsInv, Credits!TypeOK, Credits!Post
<1>2. e \in Credits!Entry
  BY <1>1 DEF Credits!Entry
<1>3. /\ ledger' \in Seq(Credits!Entry) /\ Len(ledger') = n + 1 /\ ledger'[n + 1] = e
      /\ \A i \in 1..n : ledger'[i] = ledger[i]
  BY <1>1, <1>2
<1>4. /\ e.month = m /\ e.delta = delta /\ e.balance = balance + delta
      /\ \A i \in 1..n : ledger[i] \in Credits!Entry
  BY <1>1
<1>5. Credits!LedgerAdds'
  <2>. SUFFICES ASSUME NEW i \in 1..n + 1
                PROVE  ledger'[i].balance = (IF i = 1 THEN 0 ELSE ledger'[i - 1].balance) + ledger'[i].delta
    BY <1>1, <1>3, <1>4 DEF Credits!LedgerAdds
  <2>1. CASE i = n + 1
    <3>1. balance = IF n = 0 THEN 0 ELSE ledger[n].balance
      BY <1>1 DEF CreditsInv, Credits!LedgerAdds
    <3>. QED
      BY <1>1, <1>3, <1>4, <2>1, <3>1
  <2>2. CASE i \in 1..n
    BY <1>1, <1>3, <2>2 DEF CreditsInv, Credits!LedgerAdds
  <2>. QED
    BY <1>1, <2>1, <2>2
<1>6. GrantsBefore'
  <2>. SUFFICES ASSUME NEW i \in 1..n + 1 PROVE ledger'[i].month <= granted'
    BY <1>1, <1>3 DEF GrantsBefore
  <2>1. CASE i = n + 1
    BY <1>3, <1>4, <2>1
  <2>2. CASE i \in 1..n
    BY <1>1, <1>3, <1>4, <2>2, SMTT(30) DEF CreditsInv, GrantsBefore, Credits!Entry
  <2>. QED
    BY <1>1, <2>1, <2>2
<1>7. Credits!GrantsOnce'
  <2>. SUFFICES ASSUME NEW i \in 1..n + 1, NEW j \in 1..n + 1,
                       i < j, ledger'[i].month > 0, ledger'[j].month > 0
                PROVE  ledger'[i].month < ledger'[j].month
    BY <1>1, <1>3 DEF Credits!GrantsOnce
  <2>1. CASE j = n + 1
    <3>1. i \in 1..n /\ ledger'[i] = ledger[i] /\ ledger'[j].month = m
      BY <1>1, <1>3, <1>4, <2>1
    <3>2. ledger[i].month \in Nat /\ ledger[i].month <= granted
      BY <1>4, <3>1, CreditsAssumption DEF CreditsInv, GrantsBefore, Credits!Entry
    <3>. QED
      BY <1>1, <3>1, <3>2
  <2>2. CASE j \in 1..n
    BY <1>1, <1>3, <2>2 DEF CreditsInv, Credits!GrantsOnce
  <2>. QED
    BY <1>1, <2>1, <2>2, SMTT(30)
<1>. QED
  BY <1>1, <1>3, <1>5, <1>6, <1>7

LEMMA EnsureHolds ==
    ASSUME CreditsInv, Credits!Ensure, UNCHANGED month
    PROVE  /\ balance' \in Nat /\ ledger' \in Seq(Credits!Entry) /\ granted' \in 0..month'
           /\ Credits!LedgerAdds' /\ Credits!GrantsOnce' /\ GrantsBefore'
<1>. USE CreditsAssumption
<1>1. month \in 1..LastMonth /\ granted \in 0..month /\ balance \in Nat /\ ledger \in Seq(Credits!Entry)
  BY DEF CreditsInv, Credits!TypeOK
<1>2. CASE granted = month
  BY <1>1, <1>2 DEF Credits!Ensure, CreditsInv, Credits!LedgerAdds, Credits!GrantsOnce, GrantsBefore
<1>3. CASE granted # month /\ (granted = 0 \/ balance < Grant)
  <2>1. granted' = month /\ Credits!Post(month, Grant - balance)
    BY <1>3 DEF Credits!Ensure, Credits!GrantedMonth
  <2>. QED
    BY <1>1, <1>3, <2>1, PostHolds
<1>4. CASE granted # month /\ ~(granted = 0 \/ balance < Grant)
  <2>1. granted' = month /\ UNCHANGED <<balance, ledger>>
    BY <1>4 DEF Credits!Ensure, Credits!GrantedMonth
  <2>2. GrantsBefore'
    <3>1. ASSUME NEW i \in 1..Len(ledger) PROVE ledger[i].month \in Nat
      <4>1. ledger[i] \in Credits!Entry
        BY <1>1
      <4>. QED
        BY <4>1 DEF Credits!Entry
    <3>. QED
      BY <1>1, <2>1, <3>1 DEF CreditsInv, GrantsBefore
  <2>. QED
    BY <1>1, <2>1, <2>2 DEF CreditsInv, Credits!LedgerAdds, Credits!GrantsOnce
<1>. QED
  BY <1>2, <1>3, <1>4

\* A step of a request that writes no row.
LEMMA CreditsMoved ==
    ASSUME CreditsInv, UNCHANGED <<month, balance, granted, ledger>>,
           creditsReq' \in [CreditRequests -> Credits!Req], \A r \in CreditRequests : creditsReq'[r].used <= creditsReq'[r].cost
    PROVE  CreditsInv'
BY DEF CreditsInv, Credits!TypeOK, Credits!LedgerAdds, Credits!GrantsOnce, GrantsBefore

\* A request moves on to another stage, with what it reserved and used.
LEMMA StageTypes ==
    ASSUME CreditsInv, NEW r \in CreditRequests, NEW a \in Credits!Stages, creditsReq' = [creditsReq EXCEPT ![r].at = a]
    PROVE  creditsReq' \in [CreditRequests -> Credits!Req] /\ \A s \in CreditRequests : creditsReq'[s].used <= creditsReq'[s].cost
BY DEF CreditsInv, Credits!TypeOK, Credits!Req

LEMMA CreditsStepHolds == CreditsInv /\ (Credits!Next \/ UNCHANGED creditsVars) => CreditsInv'
<1>. SUFFICES ASSUME CreditsInv, Credits!Next \/ UNCHANGED creditsVars PROVE CreditsInv'
  OBVIOUS
<1>. USE CreditsAssumption
<1>1. CASE Credits!Look
  BY <1>1, EnsureHolds DEF Credits!Look, CreditsInv, Credits!TypeOK
<1>2. CASE Credits!Stop
  <2>1. \A r \in CreditRequests : creditsReq'[r] \in Credits!Req /\ creditsReq'[r].used <= creditsReq'[r].cost
    BY <1>2 DEF Credits!Stop, CreditsInv, Credits!TypeOK, Credits!Req, Credits!Stages
  <2>2. creditsReq' \in [CreditRequests -> Credits!Req]
    BY <1>2, <2>1 DEF Credits!Stop
  <2>. QED
    BY <1>2, <2>1, <2>2, CreditsMoved DEF Credits!Stop
<1>3. CASE Credits!NewMonth
  BY <1>3 DEF Credits!NewMonth, CreditsInv, Credits!TypeOK, Credits!LedgerAdds, Credits!GrantsOnce, GrantsBefore
<1>4. ASSUME NEW r \in CreditRequests, Credits!EnsureFor(r) PROVE CreditsInv'
  BY <1>4, EnsureHolds, StageTypes DEF Credits!EnsureFor, CreditsInv, Credits!TypeOK, Credits!Stages
<1>5. ASSUME NEW r \in CreditRequests, Credits!Charge(r) PROVE CreditsInv'
  <2>1. creditsReq' \in [CreditRequests -> Credits!Req] /\ \A s \in CreditRequests : creditsReq'[s].used <= creditsReq'[s].cost
    BY <1>5, StageTypes DEF Credits!Charge, Credits!Stages
  <2>2. CASE UNCHANGED <<balance, ledger>>
    BY <1>5, <2>1, <2>2, CreditsMoved DEF Credits!Charge
  <2>3. CASE Credits!Covers(r) /\ Credits!Post(0, - creditsReq[r].cost)
    <3>1. /\ creditsReq[r].cost \in Nat /\ balance \in Nat /\ balance >= creditsReq[r].cost
          /\ month' = month /\ granted' = granted
      BY <1>5, <2>3 DEF Credits!Charge, Credits!Covers, CreditsInv, Credits!TypeOK, Credits!Req
    <3>2. granted \in 0..LastMonth /\ granted \in 0..month
      BY DEF CreditsInv, Credits!TypeOK
    <3>3. /\ balance' \in Nat /\ ledger' \in Seq(Credits!Entry)
          /\ Credits!LedgerAdds' /\ Credits!GrantsOnce' /\ GrantsBefore'
      BY <2>3, <3>1, <3>2, PostHolds
    <3>. QED
      BY <2>1, <3>1, <3>2, <3>3 DEF CreditsInv, Credits!TypeOK
  <2>. QED
    BY <1>5, <2>2, <2>3 DEF Credits!Charge
<1>6. ASSUME NEW r \in CreditRequests, Credits!Settle(r) PROVE CreditsInv'
  <2>1. creditsReq' \in [CreditRequests -> Credits!Req] /\ \A s \in CreditRequests : creditsReq'[s].used <= creditsReq'[s].cost
    BY <1>6, StageTypes DEF Credits!Settle, Credits!Stages
  <2>2. CASE UNCHANGED <<balance, ledger>>
    BY <1>6, <2>1, <2>2, CreditsMoved DEF Credits!Settle
  <2>3. CASE Credits!Refund(r)
    <3>1. /\ Credits!Unused(creditsReq[r]) \in Nat /\ balance \in Nat
          /\ month' = month /\ granted' = granted
      BY <1>6 DEF Credits!Settle, Credits!Unused, CreditsInv, Credits!TypeOK, Credits!Req
    <3>2. granted \in 0..LastMonth /\ granted \in 0..month
      BY DEF CreditsInv, Credits!TypeOK
    <3>3. /\ balance' \in Nat /\ ledger' \in Seq(Credits!Entry)
          /\ Credits!LedgerAdds' /\ Credits!GrantsOnce' /\ GrantsBefore'
      BY <2>3, <3>1, <3>2, PostHolds DEF Credits!Refund
    <3>. QED
      BY <2>1, <3>1, <3>2, <3>3 DEF CreditsInv, Credits!TypeOK
  <2>. QED
    BY <1>6, <2>2, <2>3 DEF Credits!Settle
<1>7. ASSUME NEW r \in CreditRequests, NEW used \in 0..creditsReq[r].cost, Credits!Work(r, used) PROVE CreditsInv'
  <2>1. creditsReq' = [creditsReq EXCEPT ![r].at = "worked", ![r].used = used] /\ used \in Nat
    BY <1>7 DEF Credits!Work, CreditsInv, Credits!TypeOK, Credits!Req
  <2>2. creditsReq' \in [CreditRequests -> Credits!Req] /\ \A s \in CreditRequests : creditsReq'[s].used <= creditsReq'[s].cost
    <3>1. \A s \in CreditRequests : creditsReq[s] \in Credits!Req /\ creditsReq[s].used <= creditsReq[s].cost
      BY DEF CreditsInv, Credits!TypeOK
    <3>2. \A s \in CreditRequests \ {r} : creditsReq'[s] = creditsReq[s]
      BY <2>1 DEF CreditsInv, Credits!TypeOK
    <3>4. creditsReq'[r] \in Credits!Req /\ creditsReq'[r].used = used /\ creditsReq'[r].cost = creditsReq[r].cost
      BY <2>1, <3>1 DEF CreditsInv, Credits!TypeOK, Credits!Req, Credits!Stages
    <3>5. used <= creditsReq[r].cost
      BY <1>7
    <3>6. \A s \in CreditRequests : creditsReq'[s] \in Credits!Req /\ creditsReq'[s].used <= creditsReq'[s].cost
      BY <3>1, <3>2, <3>4, <3>5
    <3>. QED
      BY <2>1, <3>6 DEF CreditsInv, Credits!TypeOK
  <2>. QED
    BY <1>7, <2>2, CreditsMoved DEF Credits!Work
<1>8. CASE UNCHANGED creditsVars
  BY <1>8 DEF creditsVars, CreditsInv, Credits!TypeOK, Credits!LedgerAdds, Credits!GrantsOnce, GrantsBefore
<1>. QED
  BY <1>1, <1>2, <1>3, <1>4, <1>5, <1>6, <1>7, <1>8 DEF Credits!Next

-----------------------------------------------------------------------------
\* Metering is a part of the service: the others leave it alone.
LEMMA CreditsHold == Services => []CreditsInv
<1>1. ServicesInit => CreditsInv
  BY CreditsBegin DEF ServicesInit
<1>2. CreditsInv /\ [ServicesNext]_servicesVars => CreditsInv'
  BY CreditsStepHolds, OnePartSteps
<1>. QED
  BY <1>1, <1>2, PTL DEF Services

\* "a conditional SQL update prevents concurrent overdrafts": whatever requests
\* charge, use and give back in any months, the balance is never below zero.
THEOREM CreditsTypeCorrect == Services => []Credits!TypeOK
<1>1. CreditsInv => Credits!TypeOK
  BY DEF CreditsInv
<1>. QED
  BY CreditsHold, <1>1, PTL

\* Every row continues the one before it and the last one is the balance, after
\* any number of grants, charges and refunds.
THEOREM LedgerSafe == Services => []Credits!LedgerAdds
<1>1. CreditsInv => Credits!LedgerAdds
  BY DEF CreditsInv
<1>. QED
  BY CreditsHold, <1>1, PTL

\* Requests that race for the first charge of a month grant it once.
THEOREM GrantsSafe == Services => []Credits!GrantsOnce
<1>1. CreditsInv => Credits!GrantsOnce
  BY DEF CreditsInv
<1>. QED
  BY CreditsHold, <1>1, PTL

-----------------------------------------------------------------------------
\* What the granted rows add, and what the requests hold.
Deltas == [i \in 1..Len(ledger) |-> ledger[i].delta]
Holdings == [r \in CreditRequests |-> Credits!Held(creditsReq[r])]

GrantedSum == SumFunctionOnSet(Deltas, Credits!GrantRows)
HeldSum == SumFunctionOnSet(Holdings, CreditRequests)

CreditNumbers == GrantedSum \in Int /\ HeldSum \in Int /\ balance \in Int

LEMMA SameSum == \A f, S : Credits!SumFunctionOnSet(f, S) = SumFunctionOnSet(f, S)
BY DEF Credits!SumFunctionOnSet, SumFunctionOnSet, Credits!FoldFunctionOnSet, FoldFunctionOnSet,
       Credits!MapThenFoldSet, MapThenFoldSet

LEMMA Balanced == Credits!Conserved <=> GrantedSum = balance + HeldSum
BY SameSum DEF Credits!Conserved, GrantedSum, HeldSum, Deltas, Holdings

LEMMA HeldNumber == ASSUME NEW q \in Credits!Req PROVE Credits!Held(q) \in Int
<1>1. q.cost \in Costs /\ q.used \in Nat
  BY DEF Credits!Req
<1>2. q.cost \in Nat
  BY <1>1, CreditsAssumption
<1>. QED
  BY <1>1, <1>2 DEF Credits!Held

\* Everything that is summed is a number, and there is finitely much of it.
LEMMA Summable ==
    ASSUME CreditsInv, IsFiniteSet(CreditRequests)
    PROVE  /\ IsFiniteSet(Credits!GrantRows) /\ \A i \in 1..Len(ledger) : Deltas[i] \in Int
           /\ \A r \in CreditRequests : Holdings[r] \in Int
           /\ GrantedSum \in Int /\ HeldSum \in Int
<1>1. ledger \in Seq(Credits!Entry) /\ creditsReq \in [CreditRequests -> Credits!Req] /\ Len(ledger) \in Nat
  BY DEF CreditsInv, Credits!TypeOK
<1>2. IsFiniteSet(Credits!GrantRows)
  <2>1. IsFiniteSet(1..Len(ledger)) /\ Credits!GrantRows \in SUBSET (1..Len(ledger))
    BY <1>1, FS_Interval DEF Credits!GrantRows
  <2>. QED
    BY <2>1, FS_Subset
<1>3. \A i \in 1..Len(ledger) : Deltas[i] \in Int
  <2>. SUFFICES ASSUME NEW i \in 1..Len(ledger) PROVE Deltas[i] \in Int
    OBVIOUS
  <2>1. ledger[i] \in Credits!Entry
    BY <1>1
  <2>. QED
    BY <2>1 DEF Credits!Entry, Deltas
<1>4. \A r \in CreditRequests : Holdings[r] \in Int
  BY <1>1, HeldNumber DEF Holdings
<1>5. GrantedSum \in Int /\ HeldSum \in Int
  BY <1>2, <1>3, <1>4, SumInt DEF GrantedSum, HeldSum, Credits!GrantRows
<1>. QED
  BY <1>2, <1>3, <1>4, <1>5

\* A row changes the sum of the granted rows by its delta if it is a grant's.
LEMMA PostSum ==
    ASSUME CreditsInv, CreditsInv', IsFiniteSet(CreditRequests), NEW m \in 0..LastMonth, NEW delta \in Int, Credits!Post(m, delta)
    PROVE  /\ balance' = balance + delta
           /\ GrantedSum' = IF m > 0 THEN GrantedSum + delta ELSE GrantedSum
<1>. DEFINE n == Len(ledger)
            new == Len(ledger) + 1
            e == [month |-> m, delta |-> delta, balance |-> balance + delta]
<1>1. ledger \in Seq(Credits!Entry) /\ n \in Nat /\ new = n + 1 /\ ledger' = Append(ledger, e) /\ balance' = balance + delta
  BY DEF Credits!Post, CreditsInv, Credits!TypeOK
<1>2. /\ Len(ledger') = new /\ ledger'[new] = e
      /\ \A i \in 1..n : ledger'[i] = ledger[i]
  BY <1>1
<1>3. e.month = m /\ e.delta = delta
  OBVIOUS
<1>. HIDE DEF e
<1>4. 1..new = 1..n \cup {new} /\ new \notin 1..n
  BY <1>1
<1>5. Credits!GrantRows' = IF m > 0 THEN Credits!GrantRows \cup {new} ELSE Credits!GrantRows
  BY <1>2, <1>3, <1>4 DEF Credits!GrantRows
<1>6. \A i \in 1..n : Deltas'[i] = Deltas[i]
  BY <1>2, <1>4 DEF Deltas
<1>7. Deltas'[new] = delta
  BY <1>2, <1>3, <1>4 DEF Deltas
<1>8. IsFiniteSet(Credits!GrantRows) /\ Credits!GrantRows \subseteq 1..n /\ \A i \in 1..n : Deltas[i] \in Int
  BY Summable DEF Credits!GrantRows
<1>. HIDE DEF n, new
<1>9. SumFunctionOnSet(Deltas', Credits!GrantRows) = GrantedSum
  BY <1>6, <1>8, SumSame DEF GrantedSum
<1>10. SumFunctionOnSet(Deltas', Credits!GrantRows \cup {new}) = SumFunctionOnSet(Deltas', Credits!GrantRows) + Deltas'[new]
  <2>1. new \notin Credits!GrantRows
    BY <1>4, <1>8
  <2>2. \A i \in Credits!GrantRows \cup {new} : Deltas'[i] \in Int
    BY <1>6, <1>7, <1>8
  <2>. QED
    BY <1>8, <2>1, <2>2, SumAdd
<1>11. GrantedSum' = SumFunctionOnSet(Deltas', Credits!GrantRows')
  BY DEF GrantedSum
<1>. QED
  BY <1>1, <1>5, <1>7, <1>9, <1>10, <1>11

LEMMA EnsureSum ==
    ASSUME CreditsInv, CreditsInv', IsFiniteSet(CreditRequests), Credits!Ensure
    PROVE  GrantedSum' - balance' = GrantedSum - balance
<1>1. /\ month \in 1..LastMonth /\ Grant \in Int /\ balance \in Int
      /\ GrantedSum \in Int
  BY Summable, CreditsAssumption DEF CreditsInv, Credits!TypeOK
<1>2. CASE UNCHANGED <<balance, ledger>>
  BY <1>2 DEF GrantedSum, Deltas, Credits!GrantRows
<1>3. CASE Credits!Post(month, Grant - balance)
  <2>1. /\ month \in 0..LastMonth /\ month > 0 /\ Grant - balance \in Int
    BY <1>1, CreditsAssumption
  <2>2. balance' = balance + (Grant - balance) /\ GrantedSum' = GrantedSum + (Grant - balance)
    BY <1>3, <2>1, PostSum
  <2>. QED
    BY <1>1, <2>2
<1>. QED
  BY <1>2, <1>3 DEF Credits!Ensure

\* What one request holds changes, and nothing else of what is held.
LEMMA HeldChange ==
    ASSUME CreditsInv, CreditsInv', IsFiniteSet(CreditRequests), NEW r \in CreditRequests,
           \A s \in CreditRequests \ {r} : creditsReq'[s] = creditsReq[s]
    PROVE  HeldSum' = HeldSum - Credits!Held(creditsReq[r]) + Credits!Held(creditsReq'[r])
<1>1. /\ \A s \in CreditRequests : Holdings[s] \in Int
      /\ Holdings' = [s \in CreditRequests |-> Credits!Held(creditsReq'[s])]
      /\ \A s \in CreditRequests : Holdings'[s] \in Int
  <2>1. \A s \in CreditRequests : Holdings[s] \in Int
    BY Summable
  <2>2. Holdings' = [s \in CreditRequests |-> Credits!Held(creditsReq'[s])]
    BY DEF Holdings, Credits!Held
  <2>3. creditsReq' \in [CreditRequests -> Credits!Req]
    BY DEF CreditsInv, Credits!TypeOK
  <2>. QED
    BY <2>1, <2>2, <2>3, HeldNumber
<1>2. \A s \in CreditRequests \ {r} : Holdings'[s] = Holdings[s]
  BY <1>1 DEF Holdings
<1>3. HeldSum' = SumFunctionOnSet(Holdings', CreditRequests)
  BY DEF HeldSum
<1>4. HeldSum' = HeldSum - Holdings[r] + Holdings'[r]
  BY <1>1, <1>2, <1>3, SumChange DEF HeldSum
<1>. QED
  BY <1>1, <1>4 DEF Holdings

\* Each step moves credits between the grants, the balance and the requests.
LEMMA StepSum ==
    ASSUME CreditsInv, CreditsInv', IsFiniteSet(CreditRequests), Credits!Next \/ UNCHANGED creditsVars
    PROVE  GrantedSum' - balance' - HeldSum' = GrantedSum - balance - HeldSum
<1>. USE CreditsAssumption
<1>0. \A r \in CreditRequests : creditsReq[r].cost \in Nat /\ creditsReq[r].used \in Nat /\ creditsReq[r].used <= creditsReq[r].cost
  <2>. SUFFICES ASSUME NEW r \in CreditRequests
                PROVE  creditsReq[r].cost \in Nat /\ creditsReq[r].used \in Nat /\ creditsReq[r].used <= creditsReq[r].cost
    OBVIOUS
  <2>1. creditsReq[r].cost \in Costs /\ creditsReq[r].used \in Nat /\ creditsReq[r].used <= creditsReq[r].cost
    BY DEF CreditsInv, Credits!TypeOK, Credits!Req
  <2>. QED
    BY <2>1
<1>1. /\ GrantedSum \in Int /\ HeldSum \in Int /\ balance \in Int /\ balance' \in Int
      /\ \A r \in CreditRequests : Credits!Held(creditsReq[r]) \in Int /\ creditsReq[r] \in Credits!Req
      /\ creditsReq \in [CreditRequests -> Credits!Req]
  BY Summable, HeldNumber DEF CreditsInv, Credits!TypeOK
<1>2. ASSUME UNCHANGED <<balance, ledger>>
      PROVE  GrantedSum' = GrantedSum /\ balance' = balance
  BY <1>2 DEF GrantedSum, Deltas, Credits!GrantRows
<1>3. ASSUME \A r \in CreditRequests : Credits!Held(creditsReq'[r]) = Credits!Held(creditsReq[r])
      PROVE  HeldSum' = HeldSum
  <2>1. Holdings' = Holdings
    <3>1. Holdings' = [r \in CreditRequests |-> Credits!Held(creditsReq'[r])]
      BY DEF Holdings, Credits!Held
    <3>. QED
      BY <1>3, <3>1 DEF Holdings
  <2>. QED
    BY <2>1 DEF HeldSum
<1>4. CASE Credits!Look
  <2>1. Credits!Ensure /\ creditsReq' = creditsReq
    BY <1>4 DEF Credits!Look
  <2>2. HeldSum' = HeldSum
    BY <1>3, <2>1
  <2>3. GrantedSum' - balance' = GrantedSum - balance
    BY <2>1, EnsureSum
  <2>. QED
    BY <2>2, <2>3
<1>5. CASE Credits!Stop
  <2>1. \A r \in CreditRequests : Credits!Held(creditsReq'[r]) = Credits!Held(creditsReq[r])
    BY <1>1, <1>5 DEF Credits!Stop, Credits!Held, Credits!Req
  <2>. QED
    BY <1>2, <1>3, <1>5, <2>1 DEF Credits!Stop
<1>6. CASE Credits!NewMonth \/ UNCHANGED creditsVars
  BY <1>2, <1>3, <1>6 DEF Credits!NewMonth, creditsVars
<1>7. ASSUME NEW r \in CreditRequests, Credits!EnsureFor(r)
      PROVE  GrantedSum' - balance' - HeldSum' = GrantedSum - balance - HeldSum
  <2>1. Credits!Ensure /\ creditsReq[r].at = "new" /\ creditsReq' = [creditsReq EXCEPT ![r].at = "granted"]
    BY <1>7 DEF Credits!EnsureFor
  <2>2. HeldSum' = HeldSum
    <3>1. \A s \in CreditRequests : Credits!Held(creditsReq'[s]) = Credits!Held(creditsReq[s])
      BY <1>1, <2>1 DEF Credits!Held, Credits!Req
    <3>. QED
      BY <1>3, <3>1
  <2>3. GrantedSum' - balance' = GrantedSum - balance
    BY <2>1, EnsureSum
  <2>. QED
    BY <2>2, <2>3
<1>8. ASSUME NEW r \in CreditRequests, Credits!Charge(r)
      PROVE  GrantedSum' - balance' - HeldSum' = GrantedSum - balance - HeldSum
  <2>1. CASE creditsReq' = [creditsReq EXCEPT ![r].at = "refused"] /\ UNCHANGED <<balance, ledger>>
    <3>1. creditsReq[r].at = "granted"
      BY <1>8 DEF Credits!Charge
    <3>2. \A s \in CreditRequests : Credits!Held(creditsReq'[s]) = Credits!Held(creditsReq[s])
      BY <1>1, <2>1, <3>1 DEF Credits!Held, Credits!Req
    <3>. QED
      BY <1>2, <1>3, <2>1, <3>2
  <2>2. CASE Credits!Covers(r) /\ Credits!Post(0, - creditsReq[r].cost) /\ creditsReq' = [creditsReq EXCEPT ![r].at = "reserved"]
    <3>. DEFINE c == creditsReq[r].cost
    <3>1. c \in Int
      BY <1>0
    <3>2. /\ \A s \in CreditRequests \ {r} : creditsReq'[s] = creditsReq[s]
          /\ Credits!Held(creditsReq[r]) = 0 /\ Credits!Held(creditsReq'[r]) = c
      BY <1>1, <1>8, <2>2 DEF Credits!Charge, Credits!Held, Credits!Req
    <3>3. HeldSum' = HeldSum - 0 + c
      BY <3>2, HeldChange
    <3>4. - c \in Int
      BY <3>1
    <3>5. balance' = balance + (- c) /\ GrantedSum' = GrantedSum
      <4>1. 0 \in 0..LastMonth
        OBVIOUS
      <4>. QED
        BY <2>2, <3>4, <4>1, PostSum
    <3>. HIDE DEF c
    <3>. QED
      BY <1>1, <3>1, <3>3, <3>5
  <2>. QED
    BY <1>8, <2>1, <2>2 DEF Credits!Charge
<1>9. ASSUME NEW r \in CreditRequests, Credits!Settle(r)
      PROVE  GrantedSum' - balance' - HeldSum' = GrantedSum - balance - HeldSum
  <2>. DEFINE c == creditsReq[r].cost
              u == creditsReq[r].used
  <2>1. c \in Int /\ u \in Int /\ u <= c
    BY <1>0
  <2>2. creditsReq[r].at = "worked" /\ Credits!Held(creditsReq[r]) = c
    BY <1>9 DEF Credits!Settle, Credits!Held
  <2>3. CASE /\ creditsReq' = [creditsReq EXCEPT ![r].at = "done"]
             /\ IF Credits!Unused(creditsReq[r]) > 0 THEN Credits!Refund(r) ELSE UNCHANGED <<balance, ledger>>
    <3>1. /\ \A s \in CreditRequests \ {r} : creditsReq'[s] = creditsReq[s]
          /\ Credits!Held(creditsReq'[r]) = u
      BY <1>1, <2>3 DEF Credits!Held, Credits!Req
    <3>2. HeldSum' = HeldSum - c + u
      BY <2>2, <3>1, HeldChange
    <3>3. CASE c - u > 0
      <4>1. Credits!Post(0, c - u) /\ c - u \in Int /\ 0 \in 0..LastMonth
        BY <2>1, <2>3, <3>3 DEF Credits!Unused, Credits!Refund
      <4>2. balance' = balance + (c - u) /\ GrantedSum' = GrantedSum
        BY <4>1, PostSum
      <4>. HIDE DEF c, u
      <4>. QED
        BY <1>1, <2>1, <3>2, <4>2
    <3>4. CASE ~ (c - u > 0)
      <4>1. c = u /\ UNCHANGED <<balance, ledger>>
        BY <2>1, <2>3, <3>4 DEF Credits!Unused
      <4>2. GrantedSum' = GrantedSum /\ balance' = balance
        BY <1>2, <4>1
      <4>. HIDE DEF c, u
      <4>. QED
        BY <1>1, <2>1, <3>2, <4>1, <4>2
    <3>. QED
      BY <3>3, <3>4
  <2>4. CASE creditsReq' = [creditsReq EXCEPT ![r].at = "unrefunded"] /\ UNCHANGED <<balance, ledger>>
    <3>1. \A s \in CreditRequests : Credits!Held(creditsReq'[s]) = Credits!Held(creditsReq[s])
      BY <1>1, <2>2, <2>4 DEF Credits!Held, Credits!Req
    <3>. QED
      BY <1>2, <1>3, <2>4, <3>1
  <2>. QED
    BY <1>9, <2>3, <2>4 DEF Credits!Settle
<1>10. ASSUME NEW r \in CreditRequests, NEW used \in 0..creditsReq[r].cost, Credits!Work(r, used)
       PROVE  GrantedSum' - balance' - HeldSum' = GrantedSum - balance - HeldSum
  <2>1. \A s \in CreditRequests : Credits!Held(creditsReq'[s]) = Credits!Held(creditsReq[s])
    BY <1>1, <1>10 DEF Credits!Work, Credits!Held, Credits!Req
  <2>. QED
    BY <1>2, <1>3, <1>10, <2>1 DEF Credits!Work
<1>. QED
  BY <1>4, <1>5, <1>6, <1>7, <1>8, <1>9, <1>10 DEF Credits!Next

LEMMA StepConserves ==
    ASSUME CreditsInv, CreditsInv', IsFiniteSet(CreditRequests), Credits!Next \/ UNCHANGED creditsVars, CreditNumbers, CreditNumbers', Credits!Conserved
    PROVE  Credits!Conserved'
<1>1. GrantedSum' - balance' - HeldSum' = GrantedSum - balance - HeldSum
  BY StepSum
<1>2. GrantedSum = balance + HeldSum
  BY Balanced
<1>3. PICK g, b, h : g = GrantedSum' /\ b = balance' /\ h = HeldSum'
  OBVIOUS
<1>4. g \in Int /\ b \in Int /\ h \in Int /\ g - b - h = GrantedSum - balance - HeldSum
  BY <1>1, <1>3 DEF CreditNumbers
<1>5. g = b + h
  BY <1>2, <1>4 DEF CreditNumbers
<1>6. GrantedSum' = balance' + HeldSum'
  BY <1>3, <1>5
<1>. QED
  BY <1>6, SameSum DEF Credits!Conserved, GrantedSum, HeldSum, Deltas, Holdings

\* No credit appears or vanishes between the grants, the balance and what the
\* requests hold or have used, however charges, refunds that fail, stops and
\* months interleave.
THEOREM ConservedSafe == Services => []Credits!Conserved
<1>. USE ServicesAssumption
<1>1. Credits!Init => Credits!Conserved
  <2>. SUFFICES ASSUME Credits!Init PROVE Credits!Conserved
    OBVIOUS
  <2>1. CreditsInv /\ ledger = <<>> /\ balance = 0
    BY CreditsBegin DEF Credits!Init
  <2>2. GrantedSum = 0
    <3>1. Credits!GrantRows = {}
      BY <2>1 DEF Credits!GrantRows
    <3>. QED
      BY <3>1, SumEmpty DEF GrantedSum
  <2>3. HeldSum = 0
    <3>1. \A r \in CreditRequests : Holdings[r] = 0
      BY DEF Credits!Init, Holdings, Credits!Held
    <3>. QED
      BY <3>1, SumZero DEF HeldSum
  <2>. QED
    BY <2>1, <2>2, <2>3, Balanced
<1>2. CreditsInv => CreditNumbers
  BY Summable DEF CreditNumbers, CreditsInv, Credits!TypeOK
<1>3. CreditsInv /\ CreditNumbers /\ Credits!Conserved /\ [ServicesNext]_servicesVars /\ CreditsInv' /\ CreditNumbers'
         => Credits!Conserved'
  BY StepConserves, OnePartSteps
<1>4. ServicesInit => Credits!Conserved
  BY <1>1 DEF ServicesInit
<1>. QED
  BY <1>2, <1>3, <1>4, CreditsHold, PTL DEF Services

-----------------------------------------------------------------------------
\* All parts together.

\* Nothing is counted twice or lost in any part, for any bounds: keys keep their
\* types, credits granted are in the balance or held, deliveries count their attempts.
THEOREM CountsSafe == Services => []CountsAddUp
<1>1. Services => []TypeOK
  <2>1. ServicesInit => IInv
    BY InitHolds DEF ServicesInit
  <2>2. IInv /\ [ServicesNext]_servicesVars => IInv'
    BY StepHolds, OnePartSteps
  <2>3. IInv => TypeOK
    BY IInvImplies
  <2>. QED
    BY <2>1, <2>2, <2>3, PTL DEF Services
<1>3. Services => []HInv
  <2>1. ServicesInit => HInv
    BY HooksBegin DEF ServicesInit
  <2>2. HInv /\ [ServicesNext]_servicesVars => HInv'
    BY HooksStepHolds, OnePartSteps
  <2>. QED
    BY <2>1, <2>2, PTL DEF Services
<1>4. HInv => Hooks!TypeOK /\ Hooks!AttemptsAreCounted
  BY CountedIs DEF HInv, HookTypes
<1>5. TypeOK /\ Credits!TypeOK /\ Credits!LedgerAdds /\ Credits!GrantsOnce /\ Credits!Conserved /\ HInv => CountsAddUp
  BY <1>4 DEF CountsAddUp
<1>. QED
  BY <1>1, <1>3, <1>5, CreditsTypeCorrect, LedgerSafe, GrantsSafe, ConservedSafe, PTL

\* What was stored is not undone, whatever the other requests, passes and stops
\* do: rows of keys, deliveries that ended, and silence to disabled endpoints.
THEOREM StoredSafe == Services => StoredStays
<1>. DEFINE Ends == \A d \in DOMAIN rows : rows[d].at \in Hooks!Ended => rows'[d] = rows[d] /\ tries'[d] = tries[d]
            Quiet == \A d \in DOMAIN rows : rows[d].hook \in silent => tries'[d] = tries[d]
<1>1. Services => YoungRowsStay
  <2>1. ServicesInit => Init
    BY DEF ServicesInit
  <2>2. [ServicesNext]_servicesVars => [Next]_vars
    BY OnePartSteps
  <2>. QED
    BY <2>1, <2>2, RowsStay, PTL DEF Services, Spec
<1>2. ServicesInit => HInv
  BY HooksBegin DEF ServicesInit
<1>3. HInv /\ [ServicesNext]_servicesVars => HInv'
  BY HooksStepHolds, OnePartSteps
<1>4. HInv /\ [ServicesNext]_servicesVars => [Ends]_(Hooks!vars) /\ [Quiet]_(Hooks!vars)
  BY RowsKept, OnePartSteps
<1>. QED
  BY <1>1, <1>2, <1>3, <1>4, PTL DEF Services, StoredStays, Hooks!EndedIsEnded, Hooks!SilentAfterDisable

\* No request waits for itself or in a ring for the mutexes and the single
\* connection, nor for the network with the connection in hand, however many
\* requests run the handlers, unless a page of scans is among them that reads on
\* with its rows open: every other handler takes them in the order of their ranks.
THEOREM NobodyWaitsSafe == Services => []NobodyWaitsForever
<1>. DEFINE LocksFit == AllFit(LockRequests, holder, todo, deferred)
            RingFit == AllFit(RingRequests, ringHolder, ringTodo, ringDeferred)
<1>1. ServicesInit => LocksFit /\ RingFit
  BY LocksHold, RingHold DEF ServicesInit
<1>2. (LocksFit /\ RingFit) /\ [ServicesNext]_servicesVars => (LocksFit /\ RingFit)'
  <2>. SUFFICES ASSUME LocksFit, RingFit, [ServicesNext]_servicesVars PROVE LocksFit' /\ RingFit'
    OBVIOUS
  <2>1. Locks!Next \/ UNCHANGED <<holder, todo, deferred>>
    BY OnePartSteps DEF locksVars
  <2>2. Ring!Next \/ UNCHANGED <<ringHolder, ringTodo, ringDeferred>>
    BY OnePartSteps DEF ringVars
  <2>. HIDE DEF LocksFit, RingFit
  <2>3. LocksFit'
    BY <2>1, LocksHold DEF LocksFit
  <2>4. RingFit'
    BY <2>2, RingHold DEF RingFit
  <2>. QED
    BY <2>3, <2>4
<1>3. LocksFit /\ RingFit => NobodyWaitsForever
  BY LocksHold, RingHold DEF NobodyWaitsForever
<1>. HIDE DEF LocksFit, RingFit
<1>. QED
  BY <1>1, <1>2, <1>3, PTL DEF Services
=============================================================================
