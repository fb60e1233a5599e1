------------------------- MODULE ConsoleSettlements -------------------------
(***************************************************************************)
(* The settlements page of the console (pages/Settlements.jsx): creator    *)
(* codes and their committed periods, a button that commits the current    *)
(* period, a form that settles one.  The API's handlers are single steps   *)
(* here; CloudTally takes them apart.  Keepers settle on-chain without     *)
(* telling anyone.  Every payout rate is 1.                                *)
(***************************************************************************)
EXTENDS Naturals, FiniteSetsExt, Sequences

CONSTANTS
    TestCodes, LiveCodes,   \* creator codes of each environment, by campaign id
    MaxPeriods,             \* bound: periods of a code
    MaxWrites, MaxLoads     \* bounds: clicks that write (and forms opened), loads

SettlementsAssumption ==
    /\ TestCodes \cup LiveCodes \subseteq Nat \ {0} /\ TestCodes \cap LiveCodes = {}
    /\ {MaxPeriods, MaxWrites, MaxLoads} \subseteq Nat

Codes == TestCodes \cup LiveCodes
Envs == {"test", "live"}
CodesOf(e) == IF e = "test" THEN TestCodes ELSE LiveCodes

VARIABLES
    pending,        \* the API: events of each code not yet committed
    tallies,        \* the API: periods of each code, with what the chain says of them
    env, data, campaigns, sel,      \* the page
    confirm, opened, busy,  \* row the form is open for; how often; its state
    commitBusy,
    calls, loads, writes,   \* requests under way; requests so far
    \* auxiliary
    clicked, told,  \* rows whose settlement was confirmed; rows announced as settled
    astray          \* loads that failed or may overtake each other

api == <<pending, tallies>>
form == <<confirm, opened, busy>>
page == <<env, data, campaigns, sel, commitBusy>>
vars == <<api, page, form, calls, loads, writes, clicked, told, astray>>

Sent == [at |-> "sent"]
Refused == [at |-> "refused"]
None == [code |-> 0]
NotLoaded == [at |-> "nothing"]

\* load(): two lists, in the environment of the page.  The campaigns do not
\* change meanwhile: their answer is known as soon as it is asked for.
Lists(e, n) ==
    {[kind |-> "settlements", n |-> n, env |-> e, answer |-> Sent],
     [kind |-> "campaigns", n |-> n, env |-> e, answer |-> [at |-> "ok", codes |-> CodesOf(e)]]}

Unpaid(n) == [count |-> n, paid |-> 0, settled |-> FALSE, amount |-> 0]

\* Nothing was committed before the page is opened, or two periods.
Init ==
    /\ pending \in [Codes -> 0..1]
    /\ tallies \in [Codes -> {<<>>, <<Unpaid(2), Unpaid(1)>>}]
    /\ env = "test" /\ data = NotLoaded /\ campaigns = {} /\ sel = 0 /\ commitBusy = FALSE
    /\ confirm = None /\ opened = 0 /\ busy = FALSE
    /\ calls = Lists("test", 0) /\ loads = 0 /\ writes = 0
    /\ clicked = {} /\ told = {} /\ astray = FALSE

\* A keeper settles a period.
Keeper(c, p) ==
    /\ p \in DOMAIN tallies[c] /\ tallies[c][p].paid = 0
    /\ tallies' = [tallies EXCEPT ![c][p].paid = tallies[c][p].count]
    /\ UNCHANGED <<pending, page, form, calls, loads, writes, clicked, told, astray>>

-----------------------------------------------------------------------------
Load(e, others) ==
    /\ loads < MaxLoads /\ loads' = loads + 1 /\ calls' = others \cup Lists(e, loads + 1)
    /\ astray' = (astray \/ \E q \in others : q.kind \in {"settlements", "campaigns"})

\* The effect forgets the periods and the selection; the campaigns stay.
SetEnv(e) ==
    /\ e # env /\ confirm = None
    /\ env' = e /\ data' = NotLoaded /\ sel' = 0 /\ Load(e, calls)
    /\ UNCHANGED <<api, campaigns, form, commitBusy, writes, clicked, told>>

Select(c) ==
    /\ c \in campaigns /\ c # sel /\ sel' = c
    /\ UNCHANGED <<api, env, data, campaigns, commitBusy, form, calls, loads, writes, clicked, told, astray>>

\* The code selected, or the first of the list: the newest.
Current == IF sel \in campaigns THEN sel ELSE IF campaigns # {} THEN Max(campaigns) ELSE 0

Rows == IF data = NotLoaded THEN {} ELSE {s \in data.rows : Current = 0 \/ s.code = Current}

Post(kind, s) ==
    /\ writes < MaxWrites /\ writes' = writes + 1
    /\ calls' = calls \cup {[kind |-> kind, n |-> writes + 1, env |-> env, row |-> s, form |-> opened, answer |-> Sent]}

\* commitNow, by either button.
CommitNow ==
    /\ Current # 0 /\ ~commitBusy /\ commitBusy' = TRUE
    /\ Post("commit", [code |-> Current])
    /\ UNCHANGED <<api, env, data, campaigns, sel, form, loads, clicked, told, astray>>

\* "Settle" of a payable row.
OpenConfirm(s) ==
    /\ confirm = None /\ opened < MaxWrites /\ s \in Rows /\ ~s.settled /\ s.count > 0
    /\ confirm' = s /\ opened' = opened + 1 /\ busy' = FALSE
    /\ UNCHANGED <<api, page, calls, loads, writes, clicked, told, astray>>

\* What the form sends: the row it was opened for.
Settled == confirm

Settle ==
    /\ confirm # None /\ ~busy /\ busy' = TRUE
    /\ Post("settle", Settled) /\ clicked' = clicked \cup {confirm}
    /\ UNCHANGED <<api, page, confirm, opened, loads, told, astray>>

\* Cancel, the cross, a click beside the form: also while it is busy.
CloseConfirm ==
    /\ confirm # None /\ confirm' = None
    /\ UNCHANGED <<api, page, opened, busy, calls, loads, writes, clicked, told, astray>>

-----------------------------------------------------------------------------
Answer(q, a) == calls' = (calls \ {q}) \cup {[q EXCEPT !.answer = a]}

\* handleListSettlements: what Cloud's rows say, with the payout to expect.
RowsOf(e) ==
    UNION {{[code |-> c, period |-> p, count |-> tallies[c][p].count, settled |-> tallies[c][p].settled,
             amount |-> tallies[c][p].amount] : p \in DOMAIN tallies[c]} : c \in CodesOf(e)}

ServeList(q) ==
    /\ q.kind = "settlements" /\ q.answer = Sent
    /\ Answer(q, [at |-> "ok", rows |-> RowsOf(q.env)])
    /\ UNCHANGED <<api, page, form, loads, writes, clicked, told, astray>>

\* handleCommitTally: the pending events make a period; or it refuses.
ServeCommit(q) ==
    /\ q.kind = "commit" /\ q.answer = Sent
    /\ LET c == q.row.code IN
       \/ /\ c \in CodesOf(q.env) /\ pending[c] > 0 /\ Len(tallies[c]) < MaxPeriods
          /\ tallies' = [tallies EXCEPT ![c] = Append(@, Unpaid(pending[c]))]
          /\ pending' = [pending EXCEPT ![c] = 0] /\ Answer(q, [at |-> "ok"])
       \/ Answer(q, Refused) /\ UNCHANGED api
    /\ UNCHANGED <<page, form, loads, writes, clicked, told, astray>>

\* reconcileExternalSettlement
Reconciled(t) == [t EXCEPT !.settled = TRUE]

\* handleSettle: paid by a keeper, the row is reconciled and the request refused.
ServeSettle(q) ==
    /\ q.kind = "settle" /\ q.answer = Sent
    /\ LET c == q.row.code
           p == q.row.period
           n == tallies[c][p].count
       IN
       \/ /\ c \in CodesOf(q.env) /\ tallies[c][p].paid = 0
          /\ tallies' = [tallies EXCEPT ![c][p] = [count |-> n, paid |-> n, settled |-> TRUE, amount |-> n]]
          /\ Answer(q, [at |-> "ok", total |-> n])
       \/ /\ c \in CodesOf(q.env) /\ tallies[c][p].paid > 0
          /\ tallies' = [tallies EXCEPT ![c][p] = Reconciled(@)] /\ Answer(q, Refused)
       \/ Answer(q, Refused) /\ UNCHANGED tallies
    /\ UNCHANGED <<pending, page, form, loads, writes, clicked, told, astray>>

-----------------------------------------------------------------------------
Listed(q) ==
    /\ q.kind \in {"settlements", "campaigns"} /\ q.answer.at = "ok" /\ calls' = calls \ {q}
    /\ IF q.kind = "settlements" THEN data' = q.answer /\ UNCHANGED campaigns
       ELSE campaigns' = q.answer.codes /\ UNCHANGED data
    /\ UNCHANGED <<api, env, sel, commitBusy, form, loads, writes, clicked, told, astray>>

Committed(q) ==
    /\ q.kind = "commit" /\ q.answer.at = "ok"
    /\ commitBusy' = FALSE /\ Load(env, calls \ {q})
    /\ UNCHANGED <<api, env, data, campaigns, sel, form, writes, clicked, told>>

\* onClose(true) of the form that asked: whatever form is open by now goes with it.
Done(q) == confirm' = None /\ Load(env, calls \ {q})

Paid(q) ==
    /\ q.kind = "settle" /\ q.answer.at = "ok"
    /\ told' = told \cup {q.row} /\ Done(q)
    /\ UNCHANGED <<api, page, opened, busy, writes, clicked>>

\* Errors, and requests or answers that are lost.  Only the form that asked
\* hears of a settlement's.
Fails(q) ==
    /\ calls' = calls \ {q}
    /\ commitBusy' = (commitBusy /\ q.kind # "commit")
    /\ IF q.kind = "settle" /\ q.form = opened THEN busy' = FALSE ELSE UNCHANGED busy
    /\ astray' = (astray \/ q.kind \in {"settlements", "campaigns"})
    /\ UNCHANGED <<api, env, data, campaigns, sel, confirm, opened, loads, writes, clicked, told>>

Next ==
    \/ \E c \in Codes : Select(c) \/ \E p \in 1..MaxPeriods : Keeper(c, p)
    \/ \E e \in Envs : SetEnv(e)
    \/ \E s \in Rows : OpenConfirm(s)
    \/ CommitNow \/ Settle \/ CloseConfirm
    \/ \E q \in calls :
        ServeList(q) \/ ServeCommit(q) \/ ServeSettle(q) \/ Listed(q) \/ Committed(q) \/ Paid(q) \/ Fails(q)

Spec == Init /\ [][Next]_vars

-----------------------------------------------------------------------------
\* Types; a commit under way keeps both of its buttons shut.
TypeOK ==
    /\ env \in Envs /\ campaigns \subseteq Codes /\ sel \in Codes \cup {0}
    /\ \A c \in Codes : \A p \in DOMAIN tallies[c] : tallies[c][p].paid \in {0, tallies[c][p].count}
    /\ Cardinality({q \in calls : q.kind = "commit"}) <= 1

\* What Cloud pays is a period that was confirmed in the form, at the amount
\* the form said, whatever periods were committed or listed meanwhile.
PaidAsConfirmed ==
    \A c \in Codes : \A p \in DOMAIN tallies[c] :
        tallies[c][p].amount > 0 =>
            \E s \in clicked : s.code = c /\ s.period = p /\ s.count = tallies[c][p].amount

\* What was announced as settled is listed as settled once nothing is under
\* way, so it is not offered again.
ListCatchesUp ==
    ~astray /\ calls = {} /\ data # NotLoaded =>
        \A s \in told : s.code \in CodesOf(env) => \E r \in data.rows : r.code = s.code /\ r.period = s.period /\ r.settled
=============================================================================
