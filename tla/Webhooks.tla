------------------------------ MODULE Webhooks ------------------------------
(***************************************************************************)
(* Webhook deliveries (cloud/api/webhooks.go): activity is queued in       *)
(* webhook_deliveries for every subscribed endpoint; the loop and the      *)
(* kicks after a queueing run passes over the rows that are due, one pass  *)
(* at a time.  The service may stop between any two steps.                 *)
(***************************************************************************)
EXTENDS Ordering, Sequences, SequencesExt

CONSTANTS
    Hooks,          \* ids of endpoints
    MaxActive,      \* active endpoints per environment: 20
    MaxAttempts,    \* webhookMaxAttempts: 8
    Batch,          \* rows of one pass: 20
    MaxRows,        \* bound: rows queued or about to be
    MaxFaults       \* bound: stops and updates that fail

WebhooksAssumption ==
    /\ {MaxActive, MaxAttempts, Batch, MaxRows, MaxFaults} \subseteq Nat /\ Batch > 0 /\ MaxAttempts > 0
    /\ IsFiniteSet(Hooks)

Passes == {"loop", "kick"}

VARIABLES
    hook,       \* state of each endpoint; "counted": its creation passed the limit
    queueing,   \* endpoints whose rows are still to be inserted, one per event and endpoint
    rows,       \* webhook_deliveries in the order of their ids
    mu,         \* webhookMu: the pass that holds it, or "free"
    pass,       \* of each pass: what is left of the rows it read, the answer it waits to store
    \* auxiliary
    silent,     \* endpoints disabled before the last pass read its rows
    tries, lost,    \* of each row: attempts made, attempts that left no trace in it
    faults

store == <<hook, queueing, rows>>
aux == <<silent, tries, lost, faults>>
vars == <<store, mu, pass, aux>>

Ended == {"delivered", "failed"}
Row == [hook : Hooks, at : {"pending", "retrying"} \cup Ended, n : 0..MaxAttempts, ripe : BOOLEAN]
Off == [on |-> FALSE, left |-> <<>>, answer |-> "none"]
Active == {w \in Hooks : hook[w] = "active"}

Init ==
    /\ hook = [w \in Hooks |-> "none"] /\ queueing = <<>> /\ rows = <<>>
    /\ mu = "free" /\ pass = [p \in Passes |-> Off]
    /\ silent = {} /\ tries = <<>> /\ lost = <<>> /\ faults = 0

-----------------------------------------------------------------------------
\* handleCreateWebhook: the count, then checks that ask the network, then the insert.
Count(w) ==
    /\ hook[w] = "none" /\ Cardinality(Active) < MaxActive
    /\ hook' = [hook EXCEPT ![w] = "counted"] /\ UNCHANGED <<queueing, rows, mu, pass, aux>>

Insert(w) ==
    /\ hook[w] = "counted"
    /\ hook' = [hook EXCEPT ![w] = "active"] /\ UNCHANGED <<queueing, rows, mu, pass, aux>>

Disable(w) ==
    /\ hook[w] = "active"
    /\ hook' = [hook EXCEPT ![w] = "disabled"] /\ UNCHANGED <<queueing, rows, mu, pass, aux>>

\* enqueueActivityWebhook and handleTestWebhook read who is to be told: the
\* active endpoints that subscribe to the event, or the one under test.
Emit(subscribed) ==
    /\ subscribed # {} /\ subscribed \subseteq Active
    /\ Len(rows) + Len(queueing) + Cardinality(subscribed) <= MaxRows
    /\ queueing' = queueing \o SetToSeq(subscribed) /\ UNCHANGED <<hook, rows, mu, pass, aux>>

\* queueWebhookAt: one row; several handlers may be at it.
Queue(i) ==
    /\ queueing' = RemoveAt(queueing, i)
    /\ rows' = Append(rows, [hook |-> queueing[i], at |-> "pending", n |-> 0, ripe |-> TRUE])
    /\ tries' = Append(tries, 0) /\ lost' = Append(lost, 0)
    /\ UNCHANGED <<hook, mu, pass, silent, faults>>

\* next_attempt_at of a row comes.
Ripen(d) ==
    /\ d \in DOMAIN rows /\ ~rows[d].ripe
    /\ rows' = [rows EXCEPT ![d].ripe = TRUE] /\ UNCHANGED <<hook, queueing, mu, pass, aux>>

-----------------------------------------------------------------------------
\* Mutant: rows are read whatever their endpoint.
DueOfAll(d) == rows[d].at \notin Ended /\ rows[d].ripe

\* The WHERE of the query.
Due(d) == rows[d].at \notin Ended /\ rows[d].ripe /\ hook[rows[d].hook] = "active"

TryLock == mu = "free"

\* deliverDueWebhooks reads the rows it will go through, with their attempts.
Start(p) ==
    /\ ~pass[p].on /\ TryLock /\ mu' = p
    /\ LET due == Ascending({d \in DOMAIN rows : Due(d)})
           read == SubSeq(due, 1, IF Len(due) < Batch THEN Len(due) ELSE Batch)
       IN  pass' = [pass EXCEPT ![p] = [on |-> TRUE, answer |-> "none", left |-> [i \in DOMAIN read |-> [id |-> read[i], n |-> rows[read[i]].n]]]]
    /\ silent' = IF \E q \in Passes : pass[q].on THEN silent ELSE {w \in Hooks : hook[w] = "disabled"}
    /\ UNCHANGED <<store, tries, lost, faults>>

\* sendWebhook, or a secret that does not open: a 2xx is "ok", whatever else "bad".
Send(p, answer) ==
    /\ pass[p].left # <<>> /\ pass[p].answer = "none"
    /\ pass' = [pass EXCEPT ![p].answer = answer]
    /\ tries' = [tries EXCEPT ![Head(pass[p].left).id] = @ + 1]
    /\ UNCHANGED <<store, mu, silent, lost, faults>>

\* attempts >= webhookMaxAttempts
OutOf(n) == n >= MaxAttempts

\* The three updates after an attempt.
Attempted(row, n, answer) ==
    IF answer = "ok" THEN [row EXCEPT !.at = "delivered", !.n = n]
    ELSE IF OutOf(n) THEN [row EXCEPT !.at = "failed", !.n = n]
    ELSE [row EXCEPT !.at = "retrying", !.n = n, !.ripe = FALSE]

\* The row after its attempt; an update that fails is ignored.
Record(p) ==
    /\ pass[p].answer # "none"
    /\ pass' = [pass EXCEPT ![p].left = Tail(@), ![p].answer = "none"]
    /\ LET d == Head(pass[p].left) IN
       \/ rows' = [rows EXCEPT ![d.id] = Attempted(@, d.n + 1, pass[p].answer)] /\ UNCHANGED <<lost, faults>>
       \/ faults < MaxFaults /\ faults' = faults + 1 /\ lost' = [lost EXCEPT ![d.id] = @ + 1] /\ UNCHANGED rows
    /\ UNCHANGED <<hook, queueing, mu, silent, tries>>

\* defer webhookMu.Unlock()
Release(p) == mu' = "free"

Finish(p) ==
    /\ pass[p].on /\ pass[p].left = <<>>
    /\ pass' = [pass EXCEPT ![p] = Off] /\ Release(p) /\ UNCHANGED <<store, aux>>

\* The service stops and starts: rows remain, those not inserted yet do not.
Stop ==
    /\ faults < MaxFaults /\ faults' = faults + 1
    /\ queueing' = <<>> /\ mu' = "free" /\ pass' = [p \in Passes |-> Off]
    /\ hook' = [w \in Hooks |-> IF hook[w] = "counted" THEN "none" ELSE hook[w]]
    /\ lost' = [d \in DOMAIN rows |-> lost[d] + Cardinality({p \in Passes : pass[p].answer # "none" /\ Head(pass[p].left).id = d})]
    /\ UNCHANGED <<rows, silent, tries>>

Next ==
    \/ Stop
    \/ \E w \in Hooks : Count(w) \/ Insert(w) \/ Disable(w)
    \/ \E S \in SUBSET Hooks : Emit(S)
    \/ \E i \in DOMAIN queueing : Queue(i)
    \/ \E d \in 1..MaxRows : Ripen(d)
    \/ \E p \in Passes : Start(p) \/ Record(p) \/ Finish(p) \/ \E answer \in {"ok", "bad"} : Send(p, answer)

Spec == Init /\ [][Next]_vars

\* The ticker ticks, a pass goes on (every attempt has its timeout) and time
\* passes; handlers, endpoints and kicks owe nothing.
Fair ==
    /\ WF_vars(Start("loop"))
    /\ \A p \in Passes : WF_vars(Record(p)) /\ WF_vars(Finish(p)) /\ WF_vars(\E answer \in {"ok", "bad"} : Send(p, answer))
    /\ \A d \in 1..MaxRows : WF_vars(Ripen(d))

FairSpec == Spec /\ Fair

-----------------------------------------------------------------------------
\* Types; "retry with backoff up to eight attempts".
TypeOK ==
    /\ hook \in [Hooks -> {"none", "counted", "active", "disabled"}]
    /\ rows \in Seq(Row) /\ queueing \in Seq(Hooks) /\ Len(rows) + Len(queueing) <= MaxRows
    /\ mu \in Passes \cup {"free"}
    /\ \A d \in DOMAIN rows : rows[d].at = "failed" => rows[d].n = MaxAttempts

\* Every attempt is counted in its row once it is over, unless the service
\* stopped or the update failed right after it: no two passes attempt one row
\* at a time, so a receiver sees a delivery again only for such a fault.
AttemptsAreCounted ==
    \A d \in DOMAIN rows :
        tries[d] = rows[d].n + lost[d] + Cardinality({p \in Passes : pass[p].answer # "none" /\ Head(pass[p].left).id = d})

\* Once a delivery is delivered or failed, it is neither sent nor changed.
EndedIsEnded ==
    [][\A d \in DOMAIN rows : rows[d].at \in Ended => rows'[d] = rows[d] /\ tries'[d] = tries[d]]_vars

\* An endpoint hears nothing from passes that begin after it was disabled,
\* though rows were queued for it, or are inserted only now.
SilentAfterDisable ==
    [][\A d \in DOMAIN rows : rows[d].hook \in silent => tries'[d] = tries[d]]_vars

\* Every queued delivery ends, unless its endpoint is disabled: rows queued
\* during a pass, behind a full batch, or before a stop are reached by a tick.
EveryDeliveryEnds ==
    \A d \in 1..MaxRows :
        d \in DOMAIN rows ~> (d \in DOMAIN rows /\ (rows[d].at \in Ended \/ hook[rows[d].hook] = "disabled"))
=============================================================================
