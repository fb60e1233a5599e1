--------------------------- MODULE ConsoleSecrets ---------------------------
(***************************************************************************)
(* The API keys and the webhooks page of the console                       *)
(* (pages/Platform.jsx): a list, a form that creates a key or an endpoint  *)
(* and shows its secret once, and buttons that end or test what is listed. *)
(* Keys of both environments are listed together, endpoints by             *)
(* environment (cloud/api/auth.go, cloud/api/webhooks.go).                 *)
(***************************************************************************)
EXTENDS Naturals, FiniteSets, Sequences

CONSTANTS
    MaxItems,       \* bound: keys or endpoints there are in the end
    MaxWrites,      \* bound: clicks that write; forms opened
    MaxLoads        \* bound: lists asked for

SecretsAssumption == {MaxItems, MaxWrites, MaxLoads} \subseteq Nat

Envs == {"test", "live"}

VARIABLES
    page,           \* "keys" or "hooks"
    items,          \* the API: what was created, by id
    env, data,      \* the page: environment, list loaded
    create, form,   \* the form is open; which opening of it
    selected,       \* the form of endpoints: some event is checked
    created, busy, err,     \* the form: id whose secret it shows (0: none yet)
    timers,         \* reloads the page has yet to start
    calls, loads, writes,   \* requests under way; requests so far
    \* auxiliary
    seen, told,     \* ids whose secret was shown; ids said to have ended
    twice,          \* forms sent again while they were busy
    astray          \* something went by the page: see Miss

modal == <<create, form, selected, created, busy, err>>
vars == <<page, items, env, data, modal, timers, calls, loads, writes, seen, told, twice, astray>>

NotLoaded == [at |-> "nothing"]
Sent == [at |-> "sent"]
Refused == [at |-> "refused"]

List(n) == [kind |-> "list", n |-> n, env |-> env, answer |-> Sent]

Init ==
    /\ page \in {"keys", "hooks"} /\ items = <<>> /\ env = "test" /\ data = NotLoaded
    /\ create = FALSE /\ form = 0 /\ selected = FALSE /\ created = 0 /\ busy = FALSE /\ err = FALSE
    /\ timers = 0 /\ calls = {List(0)} /\ loads = 0 /\ writes = 0
    /\ seen = {} /\ told = {} /\ twice = {} /\ astray = FALSE

\* What the page does not know of: an answer that was lost, a form closed under
\* its request, lists whose answers may overtake each other.
Miss(p) == astray' = (astray \/ p)

\* load(), in the environment it is called in, beside what else is sent.
Load(e, others) ==
    /\ loads < MaxLoads /\ loads' = loads + 1
    /\ calls' = others \cup {[List(loads + 1) EXCEPT !.env = e]}

Lists == {q \in calls : q.kind = "list"}

\* The toggle is out of reach while a form is open.
SetEnv(e) ==
    /\ e # env /\ ~create /\ env' = e /\ data' = NotLoaded
    /\ Load(e, calls) /\ Miss(Lists # {})
    /\ UNCHANGED <<page, items, modal, timers, writes, seen, told, twice>>

\* "Create key", "Add endpoint": every event known by then is checked.
Open ==
    /\ ~create /\ form < MaxWrites /\ create' = TRUE /\ form' = form + 1
    /\ selected' = (page = "hooks" /\ data # NotLoaded) /\ created' = 0 /\ busy' = FALSE /\ err' = FALSE
    /\ UNCHANGED <<page, items, env, data, timers, calls, loads, writes, seen, told, twice, astray>>

\* A box of the list of events, once it is loaded.
Check ==
    /\ create /\ page = "hooks" /\ data # NotLoaded /\ created = 0
    /\ selected' = ~selected
    /\ UNCHANGED <<page, items, env, data, create, form, created, busy, err, timers, calls, loads, writes, seen, told, twice, astray>>

Write(kind, id) ==
    /\ writes < MaxWrites /\ writes' = writes + 1
    /\ calls' = calls \cup {[kind |-> kind, n |-> writes + 1, env |-> env, id |-> id, form |-> form, checked |-> selected, answer |-> Sent]}

\* The button waits for the answer; Enter in the label of a key does not.
MaySend(enter) == IF enter THEN page = "keys" ELSE ~busy

Submit(enter) ==
    /\ create /\ created = 0 /\ MaySend(enter)
    /\ Write("create", 0)
    /\ twice' = IF enter /\ busy THEN twice \cup {form} ELSE twice
    /\ busy' = TRUE /\ err' = FALSE
    /\ UNCHANGED <<page, items, env, data, create, form, selected, created, timers, loads, seen, told, astray>>

\* onClose: the list is asked for again if the form shows what it created.
Reload ==
    /\ IF created # 0 THEN Load(env, calls) ELSE UNCHANGED <<calls, loads>>
    /\ Miss(\/ created # 0 /\ Lists # {}
            \/ \E q \in calls : q.kind = "create" /\ q.form = form)

\* Cancel, Done, the cross and a click beside the form.
Close ==
    /\ create /\ create' = FALSE /\ Reload
    /\ UNCHANGED <<page, items, env, data, form, selected, created, busy, err, timers, writes, seen, told, twice>>

\* Revoke, Disable, Test: shown for what the list says is live.
Act(kind, id) ==
    /\ ~create /\ data # NotLoaded /\ id \in data.live
    /\ kind = "test" => page = "hooks"
    /\ Write(kind, id)
    /\ UNCHANGED <<page, items, env, data, modal, timers, loads, seen, told, twice, astray>>

-----------------------------------------------------------------------------
Reachable(e) == {i \in DOMAIN items : page = "keys" \/ items[i].env = e}
Live(e) == {i \in Reachable(e) : items[i].live}
View(e) == [at |-> "ok", all |-> Reachable(e), live |-> Live(e)]

Answered(q, a) == calls' = (calls \ {q}) \cup {[q EXCEPT !.answer = a]}

\* handleListKeys, handleListWebhooks; handleCreateKey, handleCreateWebhook (an
\* endpoint needs an event); handleRevokeKey, handleDisableWebhook,
\* handleTestWebhook find what is live: endpoints in their environment only.
Serve(q) ==
    /\ q.answer = Sent
    /\ \/ q.kind = "list" /\ Answered(q, View(q.env)) /\ UNCHANGED items
       \/ /\ q.kind = "create" /\ (page = "hooks" => q.checked)
          /\ Len(items) < MaxItems /\ items' = Append(items, [env |-> q.env, form |-> q.form, live |-> TRUE])
          /\ Answered(q, [at |-> "ok", id |-> Len(items) + 1])
       \/ q.kind = "end" /\ q.id \in Live(q.env) /\ items' = [items EXCEPT ![q.id].live = FALSE] /\ Answered(q, [at |-> "ok"])
       \/ q.kind = "test" /\ q.id \in Live(q.env) /\ Answered(q, [at |-> "ok"]) /\ UNCHANGED items
       \/ q.kind # "list" /\ Answered(q, Refused) /\ UNCHANGED items
    /\ UNCHANGED <<page, env, data, modal, timers, loads, writes, seen, told, twice, astray>>

\* Any answer to a list is what the page shows.
Listed(q) ==
    /\ q.kind = "list" /\ q.answer.at = "ok"
    /\ data' = q.answer /\ calls' = calls \ {q}
    /\ UNCHANGED <<page, items, env, modal, timers, loads, writes, seen, told, twice, astray>>

\* setCreated
ShownSecret(id) == id

\* The answer to a form, if it is still open.
Created(q) ==
    /\ q.kind = "create" /\ q.answer.at = "ok" /\ calls' = calls \ {q}
    /\ IF create /\ q.form = form
       THEN created' = ShownSecret(q.answer.id) /\ seen' = seen \cup {created'} /\ busy' = FALSE
       ELSE UNCHANGED <<created, seen, busy>>
    /\ UNCHANGED <<page, items, env, data, create, form, selected, err, timers, loads, writes, told, twice, astray>>

\* A key is listed anew at once, an endpoint by a timer.
Acted(q) ==
    /\ q.kind \in {"end", "test"} /\ q.answer.at = "ok"
    /\ told' = IF q.kind = "end" THEN told \cup {q.id} ELSE told
    /\ IF page = "keys" THEN Load(env, calls \ {q}) /\ Miss(Lists # {}) /\ UNCHANGED timers
       ELSE timers' = timers + 1 /\ calls' = calls \ {q} /\ UNCHANGED <<loads, astray>>
    /\ UNCHANGED <<page, items, env, data, modal, writes, seen, twice>>

Timer ==
    /\ timers > 0 /\ timers' = timers - 1
    /\ Load(env, calls) /\ Miss(Lists # {})
    /\ UNCHANGED <<page, items, env, data, modal, writes, seen, told, twice>>

\* Errors end in a toast or, of a list of keys, nowhere.
ToldFailed(q) == UNCHANGED told

\* An error, or an answer or request that was lost.
Fails(q) ==
    /\ calls' = calls \ {q} /\ ToldFailed(q)
    /\ IF q.kind = "create" /\ create /\ q.form = form THEN err' = TRUE /\ busy' = FALSE ELSE UNCHANGED <<err, busy>>
    /\ Miss(q.kind = "list" \/ q.answer.at = "ok")
    /\ UNCHANGED <<page, items, env, data, create, form, selected, created, timers, loads, writes, seen, twice>>

Next ==
    \/ \E e \in Envs : SetEnv(e)
    \/ Open \/ Check \/ Close \/ Timer
    \/ \E enter \in BOOLEAN : Submit(enter)
    \/ \E kind \in {"end", "test"}, id \in DOMAIN items : Act(kind, id)
    \/ \E q \in calls : Serve(q) \/ Listed(q) \/ Created(q) \/ Acted(q) \/ Fails(q)

Spec == Init /\ [][Next]_vars

-----------------------------------------------------------------------------
\* Types; a form that shows a secret shows one of its own.
TypeOK ==
    /\ page \in {"keys", "hooks"} /\ env \in Envs /\ Len(items) <= MaxItems
    /\ data # NotLoaded => data.live \subseteq data.all /\ data.all \subseteq DOMAIN items
    /\ created # 0 => items[created].form = form

\* Once nothing is under way the list is what the API has, in the environment
\* on screen: creations and ends both reach it, unless they went by the page.
ListCatchesUp ==
    ~astray /\ calls = {} /\ timers = 0 /\ ~create => data = View(env)

\* A secret is shown before it is lost for good: only a form closed under its
\* request, or a lost answer, leaves a key that works and that nobody has.
SecretsAreSeen ==
    \A i \in DOMAIN items :
        i \in seen \/ astray \/ \E q \in calls : q.kind = "create" /\ q.answer.at = "ok" /\ q.answer.id = i

\* A form makes one key or endpoint, unless it was sent by Enter while busy or
\* sent again after an answer was lost.
OnePerForm ==
    ~astray => \A i, j \in DOMAIN items : items[i].form = items[j].form /\ i # j => items[i].form \in twice

\* What was announced as revoked or disabled is so, and stays so.
ToldAreEnded == \A i \in told : ~items[i].live
=============================================================================
