--------------------------- MODULE ConsoleLoyalty ---------------------------
(***************************************************************************)
(* Loyalty of the console (pages/Loyalty.jsx): the list of programs, the   *)
(* page of one, the form that records punches, and the API's handler that  *)
(* turns punches into vouchers (cloud/api/handlers_loyalty.go).  One       *)
(* program.  The vouchers are issued by the contract before the database   *)
(* stores the punch, and either may fail.                                  *)
(***************************************************************************)
EXTENDS Integers, FiniteSetsExt, Functions

CONSTANTS
    Customers, Events, NoEvent,     \* customer and event references; none given
    Counts,         \* what is typed as the number of punches
    Most,           \* punches one request may record (1000 in the code)
    Threshold,      \* punches to a reward
    MaxBatch,       \* rewards one request may issue (100 in the code)
    MaxPunches, MaxLoads, MaxOpens  \* bounds: requests of each kind, forms opened

LoyaltyAssumption ==
    /\ {Most, Threshold, MaxBatch} \subseteq Nat \ {0} /\ NoEvent \notin Events /\ IsFiniteSet(Customers)
    /\ Counts \subseteq Int /\ {MaxPunches, MaxLoads, MaxOpens} \subseteq Nat

VARIABLES
    punches,        \* the API: rows of punches, with their event reference
    rewards,        \* the API: rows of rewards, counted by customer
    chain,          \* the contract: vouchers issued, by customer
    closed,         \* the program's campaign is archived or expired
    page, mount,    \* the page on screen; which mount of it
    data,           \* what the page has loaded
    punch, form,    \* the form is open; which opening of it
    busy, err,      \* of the form
    calls, loads, clicks,   \* requests under way; requests so far
    told,           \* history: the answers announced
    crossed         \* history: a load was asked for while another was under way

api == <<punches, rewards, chain, closed>>
modal == <<punch, form, busy, err>>
history == <<told, crossed>>
vars == <<api, page, mount, data, modal, calls, loads, clicks, history>>

NotLoaded == [at |-> "nothing"]
Sent == [at |-> "sent"]
Refused == [at |-> "refused"]

\* Rows from before references were keyed are old; they bear no event, and what
\* they had earned was issued.
OldRow(c) == [n |-> 0, who |-> c, count |-> 1, event |-> NoEvent, old |-> TRUE]

Init ==
    /\ punches \in SUBSET {OldRow(c) : c \in Customers}
    /\ rewards = [c \in Customers |-> IF OldRow(c) \in punches THEN OldRow(c).count \div Threshold ELSE 0]
    /\ chain = rewards
    /\ closed = FALSE
    /\ page = "list" /\ mount = 0 /\ data = NotLoaded
    /\ punch = FALSE /\ form = 0 /\ busy = FALSE /\ err = FALSE
    /\ calls = {[kind |-> "list", n |-> 0, mount |-> 0, heard |-> TRUE, answer |-> Sent]}
    /\ loads = 0 /\ clicks = 0 /\ told = {} /\ crossed = FALSE

-----------------------------------------------------------------------------
\* load() of the page shown next.
Load(kind, m) ==
    /\ loads < MaxLoads /\ loads' = loads + 1
    /\ calls' = calls \cup {[kind |-> kind, n |-> loads + 1, mount |-> m, heard |-> TRUE, answer |-> Sent]}
    /\ crossed' = (crossed \/ \E q \in calls : q.kind = kind /\ q.mount = m)

\* Another page is mounted: it asks, and starts with no form.
Mount(p) ==
    /\ page' = p /\ mount' = mount + 1 /\ data' = NotLoaded
    /\ punch' = FALSE /\ busy' = FALSE /\ err' = FALSE /\ UNCHANGED form
    /\ Load(p, mount + 1)

\* A row of the list, and the way back to it.
Goto(p) ==
    /\ p # page /\ Mount(p)
    /\ page = "list" => data # NotLoaded
    /\ UNCHANGED <<api, clicks, told>>

\* "Record punches".
OpenForm ==
    /\ page = "program" /\ data # NotLoaded /\ ~ punch /\ form < MaxOpens
    /\ punch' = TRUE /\ form' = form + 1 /\ busy' = FALSE /\ err' = FALSE
    /\ UNCHANGED <<api, page, mount, data, calls, loads, clicks, history>>

\* Cancel, or a click beside the form: also while a request is under way.
CloseForm ==
    /\ punch /\ data # NotLoaded /\ punch' = FALSE
    /\ UNCHANGED <<api, page, mount, data, form, busy, err, calls, loads, clicks, history>>

\* "Record": the count is checked before anything is sent, and each click has a
\* key of its own, so no request is taken for a retry of another.
Record(c, ev, count) ==
    /\ punch /\ data # NotLoaded /\ ~ busy
    /\ IF count \in 1..Most
       THEN /\ clicks < MaxPunches /\ clicks' = clicks + 1
            /\ busy' = TRUE /\ err' = FALSE
            /\ calls' = calls \cup {[kind |-> "punch", n |-> clicks + 1, mount |-> mount, heard |-> TRUE,
                                     form |-> form, who |-> c, event |-> ev, count |-> count, answer |-> Sent]}
       ELSE err' = TRUE /\ UNCHANGED <<busy, calls, clicks>>
    /\ UNCHANGED <<api, page, mount, data, punch, form, loads, history>>

-----------------------------------------------------------------------------
RowsOf(c) == {r \in punches : r.who = c /\ ~ r.old}
Total(S) == SumFunctionOnSet([r \in S |-> r.count], S)
Balance(c) == Total(RowsOf(c))

Answer(q, a) == calls' = (calls \ {q}) \cup {[q EXCEPT !.answer = a]}

\* The program, its customers and its rewards.
ServeLoad(q) ==
    /\ q.kind # "punch" /\ q.answer = Sent
    /\ Answer(q, [at |-> "ok", punches |-> [c \in Customers |-> Balance(c)], rewards |-> rewards])
    /\ UNCHANGED <<api, loads, clicks, page, mount, data, modal, history>>

\* The checks before the program's lock.
Admit(q) ==
    /\ q.kind = "punch" /\ q.answer = Sent
    /\ Answer(q, IF closed THEN Refused ELSE [at |-> "waiting"])
    /\ UNCHANGED <<api, loads, clicks, page, mount, data, modal, history>>

\* A punch of the program holds its lock.
Locked == \E q \in calls : q.answer.at \in {"issuing", "storing"}

\* migrateLegacyLoyaltyCustomer, a transaction of its own.
Migrated(c) == {[r EXCEPT !.old = r.old /\ r.who # c] : r \in punches}

Claimed(ev) == ev # NoEvent /\ \E r \in punches : r.event = ev

\* Rewards owed for a balance.
Owed(after, had) == LET due == after \div Threshold - had IN IF due < 0 THEN 0 ELSE due

\* Under the lock: the event is looked up, the rewards are counted.
Begin(q) ==
    /\ q.answer.at = "waiting" /\ ~ Locked
    /\ punches' = Migrated(q.who)
    /\ LET after == Total({r \in Migrated(q.who) : r.who = q.who}) + q.count
           new == Owed(after, rewards[q.who])
       IN Answer(q, IF Claimed(q.event) \/ new > MaxBatch THEN Refused
                    ELSE [at |-> "issuing", after |-> after, new |-> new])
    /\ UNCHANGED <<rewards, chain, closed, loads, clicks, page, mount, data, modal, history>>

\* Credits are short, or the database fails, before anything is issued.
BeginFails(q) ==
    /\ q.answer.at \in {"waiting", "issuing"} /\ Answer(q, Refused)
    /\ UNCHANGED <<api, loads, clicks, page, mount, data, modal, history>>

\* Mutant: an issue that failed is taken for one that did not.
IssueRewardsUnchecked(q) ==
    /\ q.answer.at = "issuing"
    /\ chain' \in {chain, [chain EXCEPT ![q.who] = @ + q.answer.new]}
    /\ Answer(q, [q.answer EXCEPT !.at = "storing"])
    /\ UNCHANGED <<punches, rewards, closed, loads, clicks, page, mount, data, modal, history>>

\* The contract issues the vouchers, if any are owed; the answer may be lost or
\* not be decoded although it did.
IssueRewards(q) ==
    /\ q.answer.at = "issuing"
    /\ chain' = [chain EXCEPT ![q.who] = @ + q.answer.new]
    /\ \/ Answer(q, [q.answer EXCEPT !.at = "storing"])
       \/ q.answer.new > 0 /\ Answer(q, Refused)
    /\ UNCHANGED <<punches, rewards, closed, loads, clicks, page, mount, data, modal, history>>

\* The rows of the transaction.
Stored(q) ==
    /\ punches' = punches \cup {[n |-> q.n, who |-> q.who, count |-> q.count, event |-> q.event, old |-> FALSE]}
    /\ rewards' = [rewards EXCEPT ![q.who] = @ + q.answer.new]

\* The transaction looks for the event again, and stores all or nothing.
Store(q) ==
    /\ q.answer.at = "storing"
    /\ \/ ~ Claimed(q.event) /\ Stored(q) /\ Answer(q, [q.answer EXCEPT !.at = "ok"])
       \/ Answer(q, Refused) /\ UNCHANGED <<punches, rewards>>
    /\ UNCHANGED <<chain, closed, loads, clicks, page, mount, data, modal, history>>

\* The API stops and starts: handlers under way end where they are.
Restart ==
    /\ \E q \in calls : q.answer.at \in {"waiting", "issuing", "storing"}
    /\ calls' = {IF q.answer.at \in {"waiting", "issuing", "storing"} THEN [q EXCEPT !.answer = Refused] ELSE q : q \in calls}
    /\ UNCHANGED <<api, loads, clicks, page, mount, data, modal, history>>

\* The campaign is archived elsewhere, or expires.
CloseProgram ==
    /\ ~ closed /\ closed' = TRUE
    /\ UNCHANGED <<punches, rewards, chain, loads, clicks, page, mount, data, modal, calls, history>>

-----------------------------------------------------------------------------
Rest(q) == calls \ {q}

\* setData, by the mount that asked; a list that fails stays as it is.
Loaded(q) ==
    /\ q.heard /\ q.kind # "punch" /\ q.answer.at = "ok"
    /\ calls' = Rest(q)
    /\ data' = IF q.mount = mount THEN q.answer ELSE data
    /\ UNCHANGED <<api, page, mount, modal, loads, clicks, history>>

\* A failing load of a program shows the list, from wherever the user is.
LoadFails(q) ==
    /\ q.heard /\ q.kind # "punch"
    /\ IF q.kind = "program" /\ page = "program"
       THEN /\ page' = "list" /\ mount' = mount + 1 /\ data' = NotLoaded
            /\ punch' = FALSE /\ busy' = FALSE /\ err' = FALSE
            /\ loads < MaxLoads /\ loads' = loads + 1
            /\ calls' = Rest(q) \cup {[kind |-> "list", n |-> loads + 1, mount |-> mount + 1, heard |-> TRUE, answer |-> Sent]}
       ELSE calls' = Rest(q) /\ UNCHANGED <<page, mount, data, punch, busy, err, loads>>
    /\ UNCHANGED <<api, form, clicks, history>>

\* onClose(true): the program is asked for again, by the page that opened the form.
Reload(q) ==
    /\ loads < MaxLoads /\ loads' = loads + 1
    /\ calls' = Rest(q) \cup {[kind |-> "program", n |-> loads + 1, mount |-> q.mount, heard |-> TRUE, answer |-> Sent]}
    /\ crossed' = (crossed \/ \E d \in calls : d.kind = "program" /\ d.mount = q.mount)

\* The punch is announced, and whatever form the page has open is closed.
Recorded(q) ==
    /\ q.heard /\ q.kind = "punch" /\ q.answer.at = "ok"
    /\ told' = told \cup {[mount |-> q.mount, who |-> q.who, after |-> q.answer.after, new |-> q.answer.new]}
    /\ punch' = (punch /\ q.mount # mount)
    /\ Reload(q)
    /\ UNCHANGED <<api, page, mount, data, form, busy, err, clicks>>

\* The error is shown by the form that sent, if it still stands.
RecordFails(q) ==
    /\ q.kind = "punch" /\ q.heard /\ q.answer = Refused /\ calls' = Rest(q)
    /\ IF q.form = form THEN busy' = FALSE /\ err' = TRUE ELSE UNCHANGED <<busy, err>>
    /\ UNCHANGED <<api, page, mount, data, punch, form, loads, clicks, history>>

\* The connection breaks: the page is told so, the handler goes on unheard.
Lose(q) ==
    /\ q.heard /\ q.kind = "punch"
    /\ calls' = Rest(q) \cup {[q EXCEPT !.heard = FALSE]}
    /\ IF q.form = form THEN busy' = FALSE /\ err' = TRUE ELSE UNCHANGED <<busy, err>>
    /\ UNCHANGED <<api, page, mount, data, punch, form, loads, clicks, history>>

Next ==
    \/ \E p \in {"list", "program"} : Goto(p)
    \/ OpenForm \/ CloseForm \/ Restart \/ CloseProgram
    \/ \E c \in Customers, ev \in Events \cup {NoEvent}, count \in Counts : Record(c, ev, count)
    \/ \E q \in calls :
        \/ ServeLoad(q) \/ Admit(q) \/ Begin(q) \/ BeginFails(q) \/ IssueRewards(q) \/ Store(q)
        \/ Loaded(q) \/ LoadFails(q) \/ Recorded(q) \/ RecordFails(q) \/ Lose(q)

Spec == Init /\ [][Next]_vars

-----------------------------------------------------------------------------
\* Types; and an open form that is busy waits for a request of its own.
TypeOK ==
    /\ \A r \in punches : r.who \in Customers /\ r.event \in Events \cup {NoEvent} /\ r.count \in 1..Most
    /\ rewards \in [Customers -> Nat] /\ chain \in [Customers -> Nat]
    /\ punch => page = "program"
    /\ busy /\ punch => \E q \in calls : q.kind = "punch" /\ q.heard /\ q.form = form

\* With requests at once, restarts and failures anywhere, a customer who was
\* punched has a stored reward for each full card, punches of before included.
RewardsMatchPunches == \A c \in Customers : RowsOf(c) # {} => rewards[c] = Balance(c) \div Threshold

\* A sale recorded under its reference counts once, whatever was lost and sent
\* again, by whichever customer.
EventCountsOnce == \A r, s \in punches : r.event = s.event /\ r.event # NoEvent => r = s

\* Vouchers that were announced are stored, and stored ones are on the contract.
ToldAreIssued ==
    \A c \in Customers :
        LET heard == {t \in told : t.who = c}
        IN  SumFunctionOnSet([t \in heard |-> t.new], heard) <= rewards[c] /\ rewards[c] <= chain[c]

\* A program page at rest shows at least the balances it announced, unless its
\* own loads crossed.
ToldIsShown ==
    page = "program" /\ data # NotLoaded /\ ~ crossed /\ (\A q \in calls : q.kind = "punch") =>
        \A t \in told : t.mount = mount => data.punches[t.who] >= t.after
=============================================================================
