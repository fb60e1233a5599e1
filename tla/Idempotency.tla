---------------------------- MODULE Idempotency ----------------------------
(***************************************************************************)
(* The Idempotency-Key of the Cloud API (cloud/api/idempotency.go): a key  *)
(* is reserved before its request runs, the answer is stored before it is  *)
(* given, and keys of more than a day are swept.  One organization,        *)
(* environment and endpoint.                                               *)
(***************************************************************************)
EXTENDS Integers

CONSTANTS
    Keys, Bodies, Requests,     \* a body stands for method, path and body
    NoBody, NoOne

ASSUME IdempotencyAssumption == NoBody \notin Bodies /\ NoOne \notin Requests

VARIABLES
    row,        \* the table: what each key holds
    req,        \* requests: their key and body, how far they got, their answer
    applied,    \* history: the requests whose handler changed something
    gen         \* history: how often a key has been swept

vars == <<row, req, applied, gen>>

Stages == {"new", "running", "handled", "stored", "acked", "refused", "replayed", "failed"}
Row == [at : {"none", "open", "done"}, body : Bodies \cup {NoBody}, answer : Requests \cup {NoOne}, old : BOOLEAN]
Req == [at : Stages, key : Keys, body : Bodies, gen : Nat, answer : Requests \cup {NoOne}]

NoRow == [at |-> "none", body |-> NoBody, answer |-> NoOne, old |-> FALSE]

\* Requests are told apart by what they carry, not by when they come.
Init ==
    /\ row = [k \in Keys |-> NoRow]
    /\ req \in [Requests -> [at : {"new"}, key : Keys, body : Bodies, gen : {0}, answer : {NoOne}]]
    /\ applied = {} /\ gen = [k \in Keys |-> 0]

-----------------------------------------------------------------------------
\* Mutant: an unfinished request is taken for one that never was.
FreeUnlessDone(k) == row[k].at # "done"

\* INSERT OR IGNORE inserts.
Free(k) == row[k].at = "none"

Reserved(q) == [at |-> "open", body |-> q.body, answer |-> NoOne, old |-> FALSE]

\* The key is reserved: the request runs.
Reserve(r) ==
    /\ req[r].at = "new" /\ Free(req[r].key)
    /\ row' = [row EXCEPT ![req[r].key] = Reserved(req[r])]
    /\ req' = [req EXCEPT ![r].at = "running", ![r].gen = gen[req[r].key]]
    /\ UNCHANGED <<applied, gen>>

\* Mutant: the request is not compared.
OtherNever(q) == FALSE

\* The key stands for another request.
Other(q) == row[q.key].body # q.body

\* 409: used with different parameters, or in progress.
Refuse(r) ==
    /\ req[r].at = "new" /\ row[req[r].key].at # "none"
    /\ Other(req[r]) \/ row[req[r].key].at = "open"
    /\ req' = [req EXCEPT ![r].at = "refused"]
    /\ UNCHANGED <<row, applied, gen>>

\* The stored answer is given again.
Replay(r) ==
    /\ req[r].at = "new" /\ row[req[r].key].at = "done" /\ ~ Other(req[r])
    /\ req' = [req EXCEPT ![r].at = "replayed", ![r].answer = row[req[r].key].answer]
    /\ UNCHANGED <<row, applied, gen>>

\* The handler: it changes something, or refuses.
Handle(r) ==
    /\ req[r].at = "running"
    /\ applied' \in {applied, applied \cup {r}}
    /\ req' = [req EXCEPT ![r].at = "handled"]
    /\ UNCHANGED <<row, gen>>

\* The row after the update.
Done(k, r) == [row EXCEPT ![k].at = "done", ![k].answer = r]

\* UPDATE ... WHERE key and request_hash: no row, no answer.
Store(r) ==
    /\ req[r].at = "handled"
    /\ LET k == req[r].key
       IN IF row[k].at # "none" /\ row[k].body = req[r].body
          THEN /\ row' = Done(k, r)
               /\ req' = [req EXCEPT ![r].at = "stored", ![r].answer = r]
          ELSE req' = [req EXCEPT ![r].at = "failed"] /\ UNCHANGED row
    /\ UNCHANGED <<applied, gen>>

\* The update fails: the key stays reserved, and refuses.
StoreFails(r) ==
    /\ req[r].at = "handled"
    /\ req' = [req EXCEPT ![r].at = "failed"]
    /\ UNCHANGED <<row, applied, gen>>

\* Keys of more than a day, unfinished ones included.
Swept(k) == row[k].old

\* The answer goes out; then the sweep.
Acknowledge(r) ==
    /\ req[r].at = "stored"
    /\ req' = [req EXCEPT ![r].at = "acked"]
    /\ row' = [k \in Keys |-> IF Swept(k) THEN NoRow ELSE row[k]]
    /\ gen' = [k \in Keys |-> IF Swept(k) THEN gen[k] + 1 ELSE gen[k]]
    /\ UNCHANGED applied

\* A row becomes more than a day old.
Age(k) ==
    /\ row[k].at # "none" /\ ~ row[k].old
    /\ row' = [row EXCEPT ![k].old = TRUE]
    /\ UNCHANGED <<req, applied, gen>>

\* The process stops: requests under way end without an answer, rows remain.
Stop ==
    /\ \E r \in Requests : req[r].at \in {"running", "handled", "stored"}
    /\ req' = [r \in Requests |-> IF req[r].at \in {"running", "handled", "stored"} THEN [req[r] EXCEPT !.at = "failed"] ELSE req[r]]
    /\ UNCHANGED <<row, applied, gen>>

Next ==
    \/ \E r \in Requests :
        \/ Reserve(r) \/ Refuse(r) \/ Replay(r) \/ Handle(r) \/ Store(r) \/ StoreFails(r) \/ Acknowledge(r)
    \/ \E k \in Keys : Age(k)
    \/ Stop

Spec == Init /\ [][Next]_vars

-----------------------------------------------------------------------------
\* Types; and a row has an answer when it says so.
TypeOK ==
    /\ row \in [Keys -> Row] /\ req \in [Requests -> Req]
    /\ applied \subseteq Requests /\ gen \in [Keys -> Nat]
    /\ \A k \in Keys : row[k].at = "done" <=> row[k].answer # NoOne

\* "a network retry can never double-issue": of all requests with one key, the
\* handler of one at most ran between two sweeps of it, whatever stopped.
OncePerKey ==
    \A r, s \in applied : req[r].key = req[s].key /\ req[r].gen = req[s].gen => r = s

\* An answer, replayed or not, is that of a request with the same key, the same
\* parameters, and whose handler ended.
AnswersMatch ==
    \A r \in Requests : req[r].answer # NoOne =>
        LET s == req[r].answer
        IN /\ req[s].key = req[r].key /\ req[s].body = req[r].body
           /\ req[s].at \notin {"new", "running", "refused", "replayed"}

\* "retained for 24 hours": no step frees a younger key, or makes an answer that
\* was stored unavailable.
YoungRowsStay ==
    [][\A k \in Keys : row[k].at # "none" /\ ~ row[k].old =>
        /\ row'[k].at # "none"
        /\ row[k].at = "done" => row'[k].at = "done"]_vars
=============================================================================
