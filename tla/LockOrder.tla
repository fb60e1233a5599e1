------------------------------ MODULE LockOrder ------------------------------
(***************************************************************************)
(* What the requests of the Cloud service wait for: the one database       *)
(* connection (store.go), and the mutexes of a custodial account, of a     *)
(* receipt key, of a loyalty program and of the scan tokens.  A handler is *)
(* the sequence of the steps it takes on them.  What it defers (rolling a  *)
(* transaction back, closing a cursor, releasing a mutex, refunding a      *)
(* reservation) runs newest first when the handler or the function returns *)
(* and after any step that fails.                                          *)
(*                                                                         *)
(* One organization in one environment: accounts of others share only the  *)
(* connection.  Steps of several queries in a row stand as one.  webhookMu *)
(* is only tried, never waited for (Webhooks.tla), and locksMu is released *)
(* before anything else is asked for.                                      *)
(***************************************************************************)
EXTENDS Sequences, Ordering

CONSTANTS
    Requests,       \* goroutines that serve one request at a time
    Handlers,       \* names of the handlers under way
    Nobody          \* holder of what is free

VARIABLES
    holder,         \* resource -> the request that holds it
    todo,           \* request -> steps the handler has left
    deferred        \* request -> what it has deferred, newest first

vars == <<holder, todo, deferred>>

Resources == {"conn", "account", "receipt", "program", "scan"}

-----------------------------------------------------------------------------
\* The kinds of step.
Query == <<"use", "conn">>          \* one statement on the connection
Lock(m) == <<"lock", m>>            \* mutex, cursor or transaction, with its
                                    \* release deferred
Release(m) == <<"give", m>>         \* Unlock, rows.Close, Commit, Rollback
Reserve == <<"reserve", "conn">>    \* from here on a refund is deferred
Refund == <<"refund", "conn">>      \* refundCharge, or the low-credit query
Keep == <<"keep", "conn">>          \* reservation.Commit: nothing to refund
Remote == <<"remote", "none">>      \* the chain, or a webhook receiver
Return == <<"return", "none">>      \* a function ends: its deferred call runs

\* The resource a step cannot be taken without.
Need(step) == IF step[1] \in {"use", "refund", "lock"} THEN step[2] ELSE "none"

\* Mutant: no rollback is deferred.
LooseTransaction == <<<<"grab", "conn">>, Release("conn")>>

Transaction == <<Lock("conn"), Release("conn"), Return>>
Cursor == <<Lock("conn"), Return>>

\* reserveCharge: the monthly grant, then the charge.
Charge == Transaction \o Transaction \o <<Reserve>>
Kept == <<Keep, Query>>
LogActivity == <<Query>> \o Cursor \o <<Query>>
SignReceipt == <<Lock("receipt"), Query, Return, Query>>
ClientFor == <<Query, Lock("account")>>
ScanToken == <<Lock("scan"), Query, Return>>

\* Mutant: the programs are counted while their rows are read.
ListInLoop == <<Lock("conn"), Query, Return>>
ListPrograms == Cursor \o <<Query>>

\* The scans of a campaign: the last page is read to its end, which closes the
\* rows; a page that more rows follow leaves them open when it breaks off, and
\* then asks for the summary (handlers_scans.go:96, :143).
ListScans == <<Query, Lock("conn"), Release("conn"), Query>>
ScansPage == <<Query, Lock("conn"), Query>>

DeliverWebhooks == Cursor \o <<Remote, Query>>

\* The campaign, then the shared code of those kinds that have one; what was
\* used is committed when the handler returns.
CreateCampaign == Charge \o ClientFor \o <<Remote, Query>> \o LogActivity
                         \o <<Remote, Query>> \o LogActivity \o <<Query>>
RegisterShared == <<Query>> \o Charge \o ClientFor \o <<Remote>> \o Kept
                            \o <<Query>> \o LogActivity
Verify == <<Query>> \o ClientFor \o <<Remote>>
Redeem == <<Query>> \o Charge \o ClientFor \o <<Remote>> \o Kept
                    \o <<Query>> \o LogActivity \o <<Query>>
RejectRedemption == <<Query>> \o Charge \o ClientFor \o <<Remote, Query>>
                              \o LogActivity
IssueCodes == <<Query>> \o Charge \o ClientFor \o <<Remote, Query>> \o Kept
                        \o LogActivity
Settle == <<Query>> \o Charge \o ClientFor \o <<Remote>> \o Kept
                    \o <<Query>> \o LogActivity
CommitTally == <<Query>> \o ClientFor \o Cursor \o Charge \o <<Remote>>
                         \o Kept \o Transaction \o LogActivity \o <<Query>>
RecordEvents == <<Query>> \o SignReceipt \o Charge \o Transaction \o Kept
                          \o LogActivity \o <<Query>>
CreateProgram == Charge \o ClientFor \o <<Remote>> \o Transaction
                        \o LogActivity
Punch == <<Query, Lock("program")>> \o Transaction \o <<Query>> \o SignReceipt
            \o Charge \o ClientFor \o <<Remote>> \o Transaction \o LogActivity

\* The loop that delivers webhooks, and the handlers that take a mutex, a
\* transaction or a cursor.  Those that list anything else wait as "list" does,
\* the rest run statements one at a time, as others do before their first lock.
HandlerNames ==
    {"list", "deliver", "scans", "scans page", "scan", "create", "register",
     "issue", "verify", "redeem", "reject", "settle", "commit", "event",
     "program", "punch"}

Program(h) ==
    CASE h = "list" -> ListPrograms
      [] h = "deliver" -> DeliverWebhooks
      [] h = "scans" -> ListScans
      [] h = "scans page" -> ScansPage
      [] h = "scan" -> <<Query>> \o ScanToken
      [] h = "create" -> CreateCampaign
      [] h = "register" -> RegisterShared
      [] h = "issue" -> IssueCodes
      [] h = "verify" -> Verify
      [] h = "redeem" -> Redeem
      [] h = "reject" -> RejectRedemption
      [] h = "settle" -> Settle
      [] h = "commit" -> CommitTally
      [] h = "event" -> RecordEvents
      [] h = "program" -> CreateProgram
      [] h = "punch" -> Punch

\* Requests run these handlers, and no request is nobody.
LockAssumption == Handlers \subseteq HandlerNames /\ Nobody \notin Requests

-----------------------------------------------------------------------------
Init ==
    /\ holder = [m \in Resources |-> Nobody]
    /\ todo = [r \in Requests |-> <<>>]
    /\ deferred = [r \in Requests |-> <<>>]

Idle(r) == todo[r] = <<>> /\ deferred[r] = <<>>

Free(m) == m \in Resources => holder[m] = Nobody

\* What the request does next, if it is doing anything.
NextStep(r) == IF todo[r] # <<>> THEN Head(todo[r]) ELSE Head(deferred[r])

Defer(r, step) == deferred' = [deferred EXCEPT ![r] = <<step>> \o @]

\* A release is of what the request still holds: Rollback after Commit and
\* Close after Close do nothing.
Give(r, m) ==
    holder' = IF holder[m] = r THEN [holder EXCEPT ![m] = Nobody] ELSE holder

Start(r, h) ==
    /\ Idle(r)
    /\ todo' = [todo EXCEPT ![r] = Program(h)]
    /\ UNCHANGED <<holder, deferred>>

\* The newest deferred call: a release, or a refund over the connection.
RunDeferred(r) ==
    LET step == Head(deferred[r])
    IN  /\ deferred[r] # <<>>
        /\ Free(Need(step))
        /\ IF step[1] = "give" THEN Give(r, step[2]) ELSE UNCHANGED holder
        /\ deferred' = [deferred EXCEPT ![r] = Tail(@)]

Take(r, step) ==
    \/ /\ step[1] \in {"use", "remote"}
       /\ UNCHANGED <<holder, deferred>>
    \/ /\ step[1] \in {"lock", "grab"}
       /\ holder' = [holder EXCEPT ![step[2]] = r]
       /\ IF step[1] = "lock" THEN Defer(r, Release(step[2]))
                              ELSE UNCHANGED deferred
    \/ step[1] = "give" /\ Give(r, step[2]) /\ UNCHANGED deferred
    \/ step[1] = "reserve" /\ Defer(r, Refund) /\ UNCHANGED holder
    \/ /\ step[1] = "keep"
       /\ deferred' = [deferred EXCEPT ![r] = Taken(@, {i \in DOMAIN @ : @[i] # Refund})]
       /\ UNCHANGED holder
    \/ step[1] = "return" /\ RunDeferred(r)

Step(r) ==
    /\ todo[r] # <<>>
    /\ Free(Need(Head(todo[r])))
    /\ todo' = [todo EXCEPT ![r] = Tail(@)]
    /\ Take(r, Head(todo[r]))

\* Statements, transactions and remote calls fail; the handler answers the
\* error and returns.  So does a request that has all its answers early, or
\* a campaign without a shared code.
Fail(r) ==
    /\ todo[r] # <<>>
    /\ Head(todo[r])[1] \in {"use", "remote", "give"}
    /\ Free(Need(Head(todo[r])))
    /\ todo' = [todo EXCEPT ![r] = <<>>]
    /\ UNCHANGED <<holder, deferred>>

\* The handler has returned.
Unwind(r) == todo[r] = <<>> /\ RunDeferred(r) /\ UNCHANGED todo

Next ==
    \E r \in Requests :
        \/ \E h \in Handlers : Start(r, h)
        \/ Step(r) \/ Fail(r) \/ Unwind(r)

Spec == Init /\ [][Next]_vars

\* database/sql hands a free connection to who has waited longest, and a
\* sync.Mutex that was waited for too long goes to the first in line, so no
\* request is passed over forever.
FairSpec == Spec /\ \A r \in Requests : SF_vars(Step(r) \/ Unwind(r))

-----------------------------------------------------------------------------
TypeOK ==
    /\ holder \in [Resources -> Requests \cup {Nobody}]
    /\ \A r \in Requests :
          /\ \A i \in DOMAIN deferred[r] :
                deferred[r][i] \in {Release(m) : m \in Resources} \cup {Refund}
          /\ \A m \in Resources : holder[m] = r => Release(m) \in
                {deferred[r][i] : i \in DOMAIN deferred[r]}

\* The requests of S wait for one another.
WaitsWithin(S) ==
    \A r \in S : /\ ~Idle(r)
                 /\ Need(NextStep(r)) # "none"
                 /\ holder[Need(NextStep(r))] \in S

\* No set of requests waits for itself, so none waits for itself either ("with
\* a single SQLite connection, issuing queries while iterating rows deadlocks
\* (rows holds the only conn)", handlers_loyalty.go:144).  The code breaks it
\* where a page of scans is not the last one: run scans_page shows how.
NobodyStuck == \A S \in SUBSET Requests : S # {} => ~WaitsWithin(S)

\* The request is a page of scans that asks for the summary of its campaign
\* while it keeps the rows of the page open.
Stalled(r) ==
    /\ todo[r] = <<Query>>
    /\ deferred[r] = <<Release("conn")>>
    /\ holder["conn"] = r

\* That is the only way to wait for one another: without a stalled page of scans
\* among them no requests do, in whatever order handlers take the mutexes and
\* the connection, in their own steps and in what they defer.
OnlyPagesStall ==
    \A S \in SUBSET Requests : S # {} /\ WaitsWithin(S) => \E r \in S : Stalled(r)

\* No chain call and no webhook is waited for with the connection in hand:
\* a slow network would stop the whole service.
RemoteHoldsNoConn ==
    \A r \in Requests :
        todo[r] # <<>> /\ Head(todo[r]) = Remote => holder["conn"] # r

\* Every request ends, with everything it took given back, unless a page of
\* scans stalls the service.
RequestsReturn ==
    \A r \in Requests :
        todo[r] # <<>> ~> \/ Idle(r) /\ \A m \in Resources : holder[m] # r
                         \/ \E s \in Requests : Stalled(s)
=============================================================================
