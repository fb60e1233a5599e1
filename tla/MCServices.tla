----------------------------- MODULE MCServices -----------------------------
(***************************************************************************)
(* A bounded instance of what the handlers of Soroticket Cloud rely on:    *)
(* idempotency keys, metering, the delivery of webhooks, the locks.        *)
(*                                                                         *)
(* The parts keep different tables and share no state, so a behaviour here *)
(* is one of the part that `part` names, the others staying as they began. *)
(***************************************************************************)
EXTENDS Idempotency, MeterRates, FiniteSets

CONSTANTS
    CreditRequests,             \* requests that are charged
    Endpoints, MaxActive, MaxAttempts, Batch, MaxRows, MaxFaults,   \* of Webhooks
    LockRequests, LockHandlers, \* requests that take locks, and what they run
    RingRequests, RingHandlers  \* more requests, for rings of more than two

VARIABLES
    part,           \* the part that runs
    month, balance, granted, ledger, creditsReq,
    hook, queueing, rows, mu, pass, silent, tries, lost, faults,
    holder, todo, deferred,
    ringHolder, ringTodo, ringDeferred

keysVars == vars
creditsVars == <<month, balance, granted, ledger, creditsReq>>
hooksVars == <<hook, queueing, rows, mu, pass, silent, tries, lost, faults>>
locksVars == <<holder, todo, deferred>>
ringVars == <<ringHolder, ringTodo, ringDeferred>>

Credits == INSTANCE CloudCredits WITH
    req <- creditsReq, Requests <- CreditRequests

Hooks == INSTANCE Webhooks WITH
    Hooks <- Endpoints

Locks == INSTANCE LockOrder WITH
    Requests <- LockRequests, Handlers <- LockHandlers, Nobody <- NoOne

Ring == INSTANCE LockOrder WITH
    holder <- ringHolder, todo <- ringTodo, deferred <- ringDeferred,
    Requests <- RingRequests, Handlers <- RingHandlers, Nobody <- NoOne

\* The bounds are in their ranges, charged requests finitely many and none of
\* those that take locks is nobody.
ASSUME ServicesAssumption ==
    /\ Hooks!WebhooksAssumption /\ IsFiniteSet(CreditRequests)
    /\ Locks!LockAssumption /\ Ring!LockAssumption

-----------------------------------------------------------------------------
Parts == {"keys", "credits", "hooks", "locks", "ring"}

\* Where a part can begin in several ways, it begins in one when it is idle.
Idle ==
    /\ part # "keys" => \A r, s \in Requests : req[r] = req[s] /\ req[r].key = "k1" /\ req[r].body = "b1"
    /\ part # "credits" => \A r \in DOMAIN creditsReq : creditsReq[r].cost = 1

ServicesInit ==
    /\ part \in Parts
    /\ Init /\ Credits!Init /\ Hooks!Init /\ Locks!Init /\ Ring!Init
    /\ Idle

KeysStep ==
    /\ part = "keys" /\ Next
    /\ UNCHANGED <<part, creditsVars, hooksVars, locksVars, ringVars>>

CreditsStep ==
    /\ part = "credits" /\ Credits!Next
    /\ UNCHANGED <<part, keysVars, hooksVars, locksVars, ringVars>>

\* A step of the deliveries, or of the locks of two requests.
OfHooks(A) == part = "hooks" /\ A /\ UNCHANGED <<part, keysVars, creditsVars, locksVars, ringVars>>
OfLocks(A) == part = "locks" /\ A /\ UNCHANGED <<part, keysVars, creditsVars, hooksVars, ringVars>>

HooksStep == OfHooks(Hooks!Next)
LocksStep == OfLocks(Locks!Next)

RingStep ==
    /\ part = "ring" /\ Ring!Next
    /\ UNCHANGED <<part, keysVars, creditsVars, hooksVars, locksVars>>

ServicesNext == KeysStep \/ CreditsStep \/ HooksStep \/ LocksStep \/ RingStep

servicesVars == <<part, keysVars, creditsVars, hooksVars, locksVars, ringVars>>

\* The fairness of Webhooks and of LockOrder.
Fair ==
    /\ WF_servicesVars(OfHooks(Hooks!Start("loop")))
    /\ \A p \in {"loop", "kick"} :
          /\ WF_servicesVars(OfHooks(Hooks!Record(p))) /\ WF_servicesVars(OfHooks(Hooks!Finish(p)))
          /\ WF_servicesVars(OfHooks(\E answer \in {"ok", "bad"} : Hooks!Send(p, answer)))
    /\ \A d \in 1..MaxRows : WF_servicesVars(OfHooks(Hooks!Ripen(d)))
    /\ \A r \in LockRequests : SF_servicesVars(OfLocks(Locks!Step(r) \/ Locks!Unwind(r)))

Services == ServicesInit /\ [][ServicesNext]_servicesVars /\ Fair

-----------------------------------------------------------------------------
\* Nothing is counted twice or lost, whatever stops, months and failed writes
\* come in between: credits granted are in the balance or held by a request,
\* the ledger adds up to the balance, a delivery counts its attempts.  (With
\* the types of the tables.)
CountsAddUp ==
    /\ TypeOK /\ Credits!TypeOK /\ Hooks!TypeOK
    /\ Credits!LedgerAdds /\ Credits!GrantsOnce /\ Credits!Conserved
    /\ Hooks!AttemptsAreCounted

\* What was stored is not undone: a young key keeps its row and its answer, a
\* delivery that ended is neither sent nor changed, an endpoint that was
\* disabled hears nothing from the passes that begin after.
StoredStays == YoungRowsStay /\ Hooks!EndedIsEnded /\ Hooks!SilentAfterDisable

\* But for a page of scans that more rows follow, which stalls the service (run
\* scans_page), no request waits for itself, or in a ring, for the mutexes and
\* the single connection.  None keeps the connection while it waits for the
\* network, and who holds a mutex has deferred its release.
NobodyWaitsForever ==
    /\ Locks!TypeOK /\ Ring!TypeOK
    /\ Locks!OnlyPagesStall /\ Locks!RemoteHoldsNoConn
    /\ Ring!OnlyPagesStall /\ Ring!RemoteHoldsNoConn

\* Every queued delivery ends unless its endpoint is disabled, and every request
\* ends with everything it took given back, both as long as no page of scans
\* stalls the service: RequestsReturn says so, the deliveries here are of a
\* service that is not stalled.
EverythingEnds == Hooks!EveryDeliveryEnds /\ Locks!RequestsReturn
=============================================================================
