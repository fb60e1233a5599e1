---------------------------- MODULE ConsoleDetail ----------------------------
(***************************************************************************)
(* The campaign page of the merchant console (cloud/console:               *)
(* pages/CampaignDetail.jsx): loads, archiving, and the modals that issue  *)
(* codes and record events, against the API's handlers.  The page stays    *)
(* mounted when the route goes from one campaign to another, its loads are *)
(* not cancelled, and a modal can be closed while its call is under way.   *)
(***************************************************************************)
EXTENDS Integers, FiniteSets

CONSTANTS
    Campaigns,
    Supply,         \* total_supply of each campaign
    MaxMoves,       \* bound: routes taken, environments chosen and modals opened
    MaxWrites       \* bound: archive clicks and submissions

DetailAssumption == {Supply, MaxMoves, MaxWrites} \subseteq Nat /\ IsFiniteSet(Campaigns)

Envs == {"test", "live"}

VARIABLES
    home, shared,       \* the API: environment and kind of a campaign (fixed)
    archived, minted, codes, refs,   \* the API: flag, counter, codes issued, order_refs seen
    did,                \* by write: codes issued or events counted
    env, route, mount,  \* the page: where it is, and which mount of it
    shown,              \* the campaign on screen
    open, inst, busy,   \* the modal, which mount of it, whether it waits
    calls,              \* requests under way
    writes, moves,      \* all writes sent; moves made
    overtaken           \* a load was ever sent while another was under way, or
                        \* for a campaign the page had left

api == <<home, shared, archived, minted, codes, refs, did>>
page == <<env, route, mount, shown, open, inst, busy>>
vars == <<api, page, calls, writes, moves, overtaken>>

List == "campaigns"         \* any other page of the console
NotLoaded == [id |-> List]
Sent == [at |-> "sent"]
NotFound == [at |-> "error"]
NoRef == "no reference"

Load(id, e, m) == [n |-> 0, kind |-> "load", id |-> id, env |-> e, mount |-> m, answer |-> Sent]

Init ==
    /\ home \in [Campaigns -> Envs] /\ shared \in [Campaigns -> BOOLEAN]
    /\ archived = [c \in Campaigns |-> FALSE] /\ minted = [c \in Campaigns |-> 0]
    /\ codes = [c \in Campaigns |-> 0] /\ refs = [c \in Campaigns |-> {}] /\ did = <<>>
    /\ env = "test" /\ route = List /\ mount = 0 /\ shown = NotLoaded
    /\ open = "none" /\ inst = 0 /\ busy = FALSE
    /\ calls = {} /\ writes = {} /\ moves = 0 /\ overtaken = FALSE

-----------------------------------------------------------------------------
(*************************** the page moves ********************************)
\* The effect forgets the campaign on screen before it asks again.
Cleared == NotLoaded

\* Mutant: the modal in place keeps spinning when it is mounted again.
RemountBusy(s, o) == shown' = s /\ open' = o /\ busy' = busy
                     /\ inst' = IF s # NotLoaded /\ o # "none" /\ (shown = NotLoaded \/ open # o) THEN inst + 1 ELSE inst

\* An open modal is mounted again with the next campaign: issue and events
\* are states of the page and no move resets them.
Remount(s, o) ==
    /\ shown' = s /\ open' = o
    /\ IF s # NotLoaded /\ o # "none" /\ (shown = NotLoaded \/ open # o)
       THEN inst' = inst + 1 /\ busy' = FALSE
       ELSE inst' = inst /\ busy' = (busy /\ s # NotLoaded /\ o # "none")

Sends(c) == calls' = calls \cup {c} /\ overtaken' = (overtaken \/ \E d \in calls : d.kind = "load" /\ c.kind = "load")

Leave ==
    /\ route' = List /\ mount' = mount + 1
    /\ shown' = NotLoaded /\ open' = "none" /\ inst' = inst /\ busy' = FALSE

\* The hash names another campaign, or another page.
Goto(r) ==
    /\ moves < MaxMoves /\ moves' = moves + 1
    /\ r # route
    /\ IF r = List THEN Leave /\ UNCHANGED <<calls, overtaken>>
       ELSE /\ route' = r /\ mount' = IF route = List THEN mount + 1 ELSE mount
            /\ Remount(Cleared, open)
            /\ Sends(Load(r, env, mount'))
    /\ UNCHANGED <<api, env, writes>>

\* The TEST / METERED switch.
SetEnv(e) ==
    /\ moves < MaxMoves /\ moves' = moves + 1
    /\ e # env /\ env' = e
    /\ IF route = List THEN UNCHANGED <<calls, overtaken, shown, open, inst, busy>>
       ELSE Remount(Cleared, open) /\ Sends(Load(route, e, mount))
    /\ UNCHANGED <<api, route, mount, writes>>

-----------------------------------------------------------------------------
(*************************** buttons and modals ****************************)
Open(k) ==
    /\ moves < MaxMoves /\ moves' = moves + 1
    /\ shown # NotLoaded /\ open = "none"
    /\ shared[shown.id] = (k = "events")
    /\ Remount(shown, k)
    /\ UNCHANGED <<api, env, route, mount, calls, writes, overtaken>>

\* Cancel, the cross and the overlay do not wait for the call.
Close ==
    /\ open # "none"
    /\ Remount(shown, "none")
    /\ UNCHANGED <<api, env, route, mount, calls, writes, moves, overtaken>>

\* Each submission draws a key of its own (idemKey) and closes over the page.
Write(kind, id, qty, ref) ==
    LET w == [n |-> Cardinality(writes) + 1, kind |-> kind, id |-> id, env |-> env, mount |-> mount, answer |-> Sent,
              from |-> route, inst |-> inst, qty |-> qty, ref |-> ref, left |-> qty] IN
    /\ Cardinality(writes) < MaxWrites
    /\ Sends(w) /\ writes' = writes \cup {[n |-> w.n, kind |-> kind, id |-> id, seen |-> shown.id, inst |-> inst, ref |-> ref,
                                          late |-> overtaken, told |-> Sent,
                                          after |-> \E a \in writes : a.kind = "archive" /\ a.id = id /\ a.told # Sent]}
    /\ did' = [m \in 1..w.n |-> IF m = w.n THEN 0 ELSE did[m]]
    /\ UNCHANGED <<home, shared, archived, minted, codes, refs, env, route, mount, shown, open, inst, moves>>

\* Archive names the campaign of the route, whatever is on screen.
Archive == shown # NotLoaded /\ ~ shown.archived /\ Write("archive", route, 0, NoRef) /\ busy' = busy

\* IssueModal's button: at least one code and no more than remain.
Issue(n) ==
    /\ shown # NotLoaded /\ open = "issue" /\ ~ busy
    /\ n <= Supply - shown.minted
    /\ Write("issue", shown.id, n, NoRef) /\ busy' = TRUE

\* EventsModal's button, with an order reference or without.
Record(ref) ==
    /\ shown # NotLoaded /\ open = "events" /\ ~ busy
    /\ Write("events", shown.id, 1, ref) /\ busy' = TRUE

-----------------------------------------------------------------------------
(******************************** the API **********************************)
Answered(c, a) == calls' = (calls \ {c}) \cup {[c EXCEPT !.answer = a]}
Found(c) == home[c.id] = c.env

ServeLoad(c) ==
    /\ c.kind = "load" /\ c.answer = Sent
    /\ Answered(c, IF Found(c) THEN [at |-> "ok", id |-> c.id, minted |-> minted[c.id], archived |-> archived[c.id]] ELSE NotFound)
    /\ UNCHANGED <<archived, minted, codes, refs, did>>

ServeArchive(c) ==
    /\ c.kind = "archive" /\ c.answer = Sent
    /\ IF Found(c) THEN archived' = [archived EXCEPT ![c.id] = TRUE] /\ Answered(c, [at |-> "ok", of |-> 0])
       ELSE archived' = archived /\ Answered(c, NotFound)
    /\ UNCHANGED <<minted, codes, refs, did>>

\* What both handlers check first.
Admitted(c) == Found(c) /\ shared[c.id] = (c.kind = "events") /\ ~ archived[c.id]

\* Mutant: the order_ref is not claimed.
ClaimedNever(c) == refs[c.id]

Claimed(c) == refs[c.id] \cup ({c.ref} \ {NoRef})

\* handleRecordEvents: the reference is claimed and the event stored in one transaction.
ServeEvents(c) ==
    /\ c.kind = "events" /\ c.answer = Sent
    /\ IF Admitted(c) /\ c.ref \notin refs[c.id]
       THEN /\ refs' = [refs EXCEPT ![c.id] = Claimed(c)]
            /\ did' = [did EXCEPT ![c.n] = 1] /\ Answered(c, [at |-> "ok", of |-> 1])
       ELSE Answered(c, NotFound) /\ UNCHANGED <<refs, did>>
    /\ UNCHANGED <<archived, minted, codes>>

StartIssue(c) ==
    /\ c.kind = "issue" /\ c.answer = Sent
    /\ Answered(c, IF Admitted(c) THEN [at |-> "issuing"] ELSE NotFound)
    /\ UNCHANGED <<archived, minted, codes, refs, did>>

\* One chunk (a single code here) is issued on-chain and indexed.
IssueChunk(c) ==
    /\ c.answer.at = "issuing" /\ c.left > 0 /\ codes[c.id] < Supply
    /\ codes' = [codes EXCEPT ![c.id] = @ + 1] /\ did' = [did EXCEPT ![c.n] = @ + 1]
    /\ calls' = (calls \ {c}) \cup {[c EXCEPT !.left = @ - 1]}
    /\ UNCHANGED <<archived, minted, refs>>

\* A chunk fails: 207 with the codes of the chunks before it, or an error.
ChunkFails(c) ==
    /\ c.answer.at = "issuing" /\ c.left > 0
    /\ Answered(c, IF c.left < c.qty THEN [at |-> "part", of |-> c.qty - c.left] ELSE NotFound)
    /\ UNCHANGED <<archived, minted, codes, refs, did>>

\* The counter is raised after the last chunk.
FinishIssue(c) ==
    /\ c.answer.at = "issuing" /\ c.left = 0
    /\ minted' = [minted EXCEPT ![c.id] = @ + c.qty]
    /\ Answered(c, [at |-> "ok", of |-> c.qty])
    /\ UNCHANGED <<archived, codes, refs, did>>

Serve(c) ==
    /\ ServeLoad(c) \/ ServeArchive(c) \/ ServeEvents(c) \/ StartIssue(c) \/ IssueChunk(c) \/ ChunkFails(c) \/ FinishIssue(c)
    /\ UNCHANGED <<home, shared, page, writes, moves, overtaken>>

-----------------------------------------------------------------------------
(******************************** answers **********************************)
\* load: stored by the mount that asked.
Loaded(c) ==
    /\ c.kind = "load" /\ c.answer.at = "ok"
    /\ IF c.mount = mount /\ route # List THEN Remount(c.answer, open) ELSE UNCHANGED <<shown, open, inst, busy>>
    /\ calls' = calls \ {c}
    /\ UNCHANGED <<env, route, mount, writes, overtaken>>

\* A load that fails leads to the list, from wherever the user is by then.
LoadFails(c) ==
    /\ c.kind = "load"
    /\ IF route = List THEN UNCHANGED <<route, mount, shown, open, inst, busy>> ELSE Leave
    /\ calls' = calls \ {c}
    /\ UNCHANGED <<env, writes, overtaken>>

\* The toast: what the answer lists, and whether that was all.
Told(c) == c.answer

Tells(c) == writes' = {IF w.n = c.n THEN [w EXCEPT !.told = Told(c)] ELSE w : w \in writes}

\* An archive, or a modal that is done and closes whichever is open: load again,
\* for the campaign the page was at when the write was sent.
WriteReturns(c) ==
    /\ c.kind # "load" /\ c.answer.at \in {"ok", "part"}
    /\ Tells(c)
    /\ IF c.kind = "archive" \/ c.mount # mount \/ route = List THEN UNCHANGED <<shown, open, inst, busy>>
       ELSE Remount(shown, IF open = c.kind THEN "none" ELSE open)
    /\ calls' = (calls \ {c}) \cup {Load(c.from, env, c.mount)}
    /\ overtaken' = (overtaken \/ c.from # route \/ \E d \in calls : d.kind = "load")
    /\ UNCHANGED <<env, route, mount>>

\* The modal that asked shows the error and can be submitted again.
WriteFails(c) ==
    /\ c.kind # "load"
    /\ busy' = IF c.kind # "archive" /\ c.inst = inst THEN FALSE ELSE busy
    /\ calls' = calls \ {c}
    /\ UNCHANGED <<env, route, mount, shown, open, inst, writes, overtaken>>

Return(c) ==
    /\ \/ Loaded(c) \/ WriteReturns(c)
       \/ c.answer = NotFound /\ (LoadFails(c) \/ WriteFails(c))
    /\ UNCHANGED <<api, moves>>

\* The request or its answer is lost; an issuance under way goes on unseen and
\* is left out here.
Lose(c) ==
    /\ c.answer.at # "issuing"
    /\ LoadFails(c) \/ WriteFails(c)
    /\ UNCHANGED <<api, moves>>

Next ==
    \/ \E r \in Campaigns \cup {List} : Goto(r)
    \/ \E e \in Envs : SetEnv(e)
    \/ Open("issue") \/ Open("events") \/ Close \/ Archive
    \/ \E n \in 1..2 : Issue(n)
    \/ \E ref \in {NoRef, "r1"} : Record(ref)
    \/ \E c \in calls : Serve(c) \/ Return(c) \/ Lose(c)

Spec == Init /\ [][Next]_vars

-----------------------------------------------------------------------------
\* Types; and a modal spins only while its own call is under way.
TypeOK ==
    /\ home \in [Campaigns -> Envs] /\ shared \in [Campaigns -> BOOLEAN]
    /\ archived \in [Campaigns -> BOOLEAN] /\ refs \in [Campaigns -> SUBSET {"r1"}]
    /\ \A c \in Campaigns : minted[c] \in 0..Supply /\ codes[c] \in 0..Supply
    /\ env \in Envs /\ route \in Campaigns \cup {List}
    /\ open \in {"none", "issue", "events"}
    /\ shown.id \in Campaigns \cup {List}
    /\ busy => \E c \in calls : c.kind \in {"issue", "events"} /\ c.inst = inst

\* Unless loads overlap, the campaign on screen is the one of the route and of
\* the environment: what Archive names, what is issued and what is seen agree.
ShownIsRoute ==
    /\ ~ overtaken /\ shown # NotLoaded => shown.id = route /\ home[shown.id] = env
    /\ \A w \in writes : w.late \/ w.id = w.seen

\* The page announces as issued what this call issued, in part or in whole.
IssuedAsTold == \A w \in writes : w.kind = "issue" /\ w.told # Sent => w.told.of = did[w.n]

\* However often a form is sent, lost and sent again, an order_ref counts once.
RefsCountOnce ==
    \A v, w \in writes :
        v.n # w.n /\ v.ref = w.ref /\ v.ref # NoRef /\ v.id = w.id => did[v.n] = 0 \/ did[w.n] = 0

\* "New Cloud issues, redemptions and events are blocked": a write sent after
\* the page said so has no effect, whatever else was under way.
ArchiveBlocksNew == \A w \in writes : w.kind # "archive" /\ w.after => did[w.n] = 0
=============================================================================
