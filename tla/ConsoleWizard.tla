---------------------------- MODULE ConsoleWizard ----------------------------
(***************************************************************************)
(* The campaigns page of the merchant console and its wizard               *)
(* (cloud/console: pages/Campaigns.jsx) against the handlers that create   *)
(* campaigns and loyalty programs.  Fields keep their contents when the    *)
(* kind changes, creating takes two contract calls for most kinds, and the *)
(* wizard can be closed while it waits.                                    *)
(***************************************************************************)
EXTENDS Integers, FiniteSets

CONSTANTS
    Kinds,          \* kinds offered, of AllKinds
    Edits,          \* fields the user fills in, of the form's
    MaxCreates,     \* bound: clicks on Create campaign
    MaxTrips        \* bound: pages left or environments chosen

AllKinds == {"coupon", "creator", "gift", "voucher", "ticket", "loyalty"}
SharedKinds == {"coupon", "creator", "gift"}
Envs == {"test", "live"}

\* A field's contents, as far as they matter: "odd" does not parse (for supply:
\* is refused), "none" is empty, and for supply not a number or zero, too.
Contents ==
    [name |-> {"none", "given"}, code |-> {"none", "given"}, addr |-> {"none", "given", "odd"},
     rate |-> {"none", "zero", "given", "odd"}, supply |-> {"none", "given", "odd"}, threshold |-> {"given", "odd"}]

WizardAssumption ==
    Kinds \subseteq AllKinds /\ Edits \subseteq DOMAIN Contents /\ MaxCreates \in Nat /\ MaxTrips \in Nat

VARIABLES
    camps,          \* the API: campaigns and programs
    env, here, mount,       \* the page: environment, whether it is open, which mount
    list,           \* what it lists
    wizard,         \* the wizard: "closed" or its step
    inst,           \* which mount of the wizard
    kind, f,        \* its kind and fields
    busy, failed,
    calls, creates, trips,
    announced,      \* campaigns the page has said are created
    crossed         \* a load ever crossed another, or an answer was lost, or a
                    \* creation stopped half-way

page == <<env, here, mount, list>>
form == <<wizard, inst, kind, f, busy, failed>>
vars == <<camps, page, form, calls, creates, trips, announced, crossed>>

NotLoaded == [of |-> "none"]
Sent == [at |-> "sent"]
Blank == [name |-> "none", code |-> "none", addr |-> "none", rate |-> "given", supply |-> "given", threshold |-> "given"]

Load(e, m) == [n |-> 0, kind |-> "list", env |-> e, mount |-> m, answer |-> Sent]

Init ==
    /\ camps = {} /\ env = "test" /\ here = TRUE /\ mount = 0 /\ list = NotLoaded
    /\ wizard = "closed" /\ inst = 0 /\ kind = "creator" /\ f = Blank /\ busy = FALSE /\ failed = FALSE
    /\ calls = {Load("test", 0)} /\ creates = 0 /\ trips = 0 /\ announced = {} /\ crossed = FALSE

\* A list is asked for; a page that has loaded before may be crossed by it.
Asks(e, m, rest) ==
    /\ calls' = rest \cup {Load(e, m)}
    /\ crossed' = (crossed \/ \E d \in rest : d.kind = "list" /\ d.mount = m)

-----------------------------------------------------------------------------
(****************************** the page ***********************************)
\* The switch, which the wizard covers: the effect clears and loads.
SetEnv(e) ==
    /\ here /\ wizard = "closed" /\ trips < MaxTrips /\ trips' = trips + 1
    /\ e # env /\ env' = e /\ list' = NotLoaded
    /\ Asks(e, mount, calls)
    /\ UNCHANGED <<camps, here, mount, form, creates, announced>>

Leave == here' = FALSE /\ list' = NotLoaded /\ wizard' = "closed" /\ busy' = FALSE

\* To another page and back: the page is mounted anew and loads.
Away ==
    /\ here /\ wizard = "closed" /\ trips < MaxTrips /\ trips' = trips + 1
    /\ Leave
    /\ UNCHANGED <<camps, env, mount, inst, kind, f, failed, calls, creates, announced, crossed>>

Back ==
    /\ ~ here /\ here' = TRUE /\ mount' = mount + 1
    /\ Asks(env, mount + 1, calls)
    /\ UNCHANGED <<camps, env, list, form, creates, trips, announced>>

\* New campaign: the wizard starts blank.
OpenWizard ==
    /\ here /\ wizard = "closed" /\ inst < MaxCreates
    /\ wizard' = "type" /\ inst' = inst + 1
    /\ kind' = "creator" /\ f' = Blank /\ busy' = FALSE /\ failed' = FALSE
    /\ UNCHANGED <<camps, page, calls, creates, trips, announced, crossed>>

\* The wizard's cross does not wait for a creation; onDone loads.
Close ==
    /\ wizard # "closed"
    /\ wizard' = "closed" /\ busy' = FALSE
    /\ Asks(env, mount, calls)
    /\ UNCHANGED <<camps, page, inst, kind, f, failed, creates, trips, announced>>

\* Step 1: a face; the fields keep what was typed for another.
Choose(k) ==
    /\ wizard = "type" /\ kind' = k
    /\ UNCHANGED <<camps, page, wizard, inst, f, busy, failed, calls, creates, trips, announced, crossed>>

Shared == kind \in SharedKinds

\* The fields step 2 shows for a kind.
Fields(k) ==
    {"name"} \cup (IF k \in SharedKinds THEN {"code"} ELSE {})
    \cup (IF k = "creator" THEN {"addr", "rate"} ELSE {})
    \cup (IF k = "gift" THEN {"addr"} \cup (IF f.addr = "none" THEN {} ELSE {"rate"}) ELSE {})
    \cup (IF k \in {"voucher", "ticket"} THEN {"supply"} ELSE {})
    \cup (IF k = "loyalty" THEN {"threshold"} ELSE {})

Fill(x, v) ==
    /\ wizard = "configure" /\ x \in Fields(kind) \cap Edits
    /\ f' = [f EXCEPT ![x] = v]
    /\ UNCHANGED <<camps, page, wizard, inst, kind, busy, failed, calls, creates, trips, announced, crossed>>

\* Continue asks for a name or a code; Back works while a creation runs.
Turn ==
    /\ \/ wizard = "type" /\ wizard' = "configure"
       \/ wizard = "configure" /\ wizard' = "type"
       \/ /\ wizard = "configure" /\ wizard' = "review"
          /\ f.name = "given" \/ (Shared /\ f.code = "given")
       \/ wizard = "review" /\ wizard' = "configure"
    /\ UNCHANGED <<camps, page, inst, kind, f, busy, failed, calls, creates, trips, announced, crossed>>

-----------------------------------------------------------------------------
(*************************** review and create *****************************)
\* What the last step shows before "Create campaign".
Review ==
    [to |-> IF kind = "creator" \/ kind = "gift" THEN f.addr ELSE "none",
     pays |-> IF kind = "creator" \/ (kind = "gift" /\ f.addr # "none") THEN f.rate = "given" ELSE FALSE,
     supply |-> IF Shared \/ kind = "loyalty" THEN "none" ELSE f.supply,
     months |-> 12]

\* Mutant: only a creator is paid.
AttributesCreator == kind = "creator"

\* Whether the code is attributed, and so may be paid.
Attributes == kind = "creator" \/ (kind = "gift" /\ f.addr # "none")

\* create stops at an amount or a threshold that does not parse.
Throws ==
    \/ kind = "loyalty" /\ f.threshold = "odd"
    \/ kind # "loyalty" /\ Attributes /\ f.rate = "odd"

\* The body that is posted: an empty supply, like a zero, becomes 100.
Body ==
    [n |-> creates + 1, kind |-> kind, env |-> env, mount |-> mount, inst |-> inst, answer |-> Sent, reviewed |-> Review,
     code |-> f.code, to |-> IF Attributes THEN f.addr ELSE "none",
     pays |-> Attributes /\ f.rate = "given",
     supply |-> IF Shared THEN "default" ELSE IF f.supply = "none" THEN "default" ELSE f.supply]

\* The button: what does not parse is an error, the rest is posted.
Create ==
    /\ wizard = "review" /\ ~ busy /\ creates < MaxCreates
    /\ creates' = creates + 1
    /\ IF Throws THEN failed' = TRUE /\ busy' = FALSE /\ calls' = calls
       ELSE failed' = FALSE /\ busy' = TRUE /\ calls' = calls \cup {Body}
    /\ UNCHANGED <<camps, page, wizard, inst, kind, f, trips, announced, crossed>>

-----------------------------------------------------------------------------
(******************************** the API **********************************)
Answered(c, a) == calls' = (calls \ {c}) \cup {[c EXCEPT !.answer = a]}
Refused == [at |-> "error"]

ServeList(c) ==
    /\ c.kind = "list" /\ c.answer = Sent
    /\ Answered(c, [at |-> "ok", of |-> c.env, ids |-> {k.n : k \in {d \in camps : d.env = c.env}}])
    /\ UNCHANGED <<camps, crossed>>

\* What handleCreateCampaign refuses before it calls the contract.
Legal(c) ==
    /\ c.kind \in SharedKinds => c.code = "given"
    /\ c.kind = "creator" => c.to = "given"
    /\ c.kind = "gift" => c.to # "odd" /\ (c.pays => c.to = "given")
    /\ c.supply # "odd"

\* A shared code and a loyalty program take a second call; the campaign is
\* indexed between the two, the program after both.
CreateCampaign(c) ==
    /\ c.kind # "list" /\ c.answer = Sent
    /\ \/ /\ Legal(c)
          /\ camps' = IF c.kind = "loyalty" THEN camps
                      ELSE camps \cup {[n |-> c.n, env |-> c.env, kind |-> c.kind, coded |-> FALSE, reviewed |-> c.reviewed,
                                        to |-> "none", pays |-> FALSE, supply |-> c.supply, months |-> 12]}
          /\ Answered(c, IF c.kind \in {"voucher", "ticket"} THEN [at |-> "ok"] ELSE [at |-> "half"])
       \/ Answered(c, Refused) /\ camps' = camps
    /\ crossed' = crossed

\* The second call fails: the answer is an error, the campaign stays.
RegisterFails(c) ==
    /\ c.answer.at = "half"
    /\ Answered(c, Refused)
    /\ crossed' = TRUE /\ camps' = camps

\* RegisterShared: a coupon's code is never attributed; a program is valid for
\* two years.
RegisterShared(c) ==
    LET k == [n |-> c.n, env |-> c.env, kind |-> c.kind, coded |-> TRUE, reviewed |-> c.reviewed,
              to |-> IF c.kind \in {"creator", "gift"} THEN c.to ELSE "none",
              pays |-> c.kind \in {"creator", "gift"} /\ c.to # "none" /\ c.pays,
              supply |-> c.supply, months |-> IF c.kind = "loyalty" THEN 24 ELSE 12] IN
    /\ c.answer.at = "half"
    /\ camps' = {d \in camps : d.n # c.n} \cup {k}
    /\ Answered(c, [at |-> "ok"])
    /\ crossed' = crossed

Serve(c) ==
    /\ ServeList(c) \/ CreateCampaign(c) \/ RegisterShared(c) \/ RegisterFails(c)
    /\ UNCHANGED <<page, form, creates, trips, announced>>

-----------------------------------------------------------------------------
(******************************** answers **********************************)
Listed(c) ==
    /\ c.kind = "list" /\ c.answer.at = "ok"
    /\ list' = IF here /\ c.mount = mount THEN [of |-> c.answer.of, ids |-> c.answer.ids] ELSE list
    /\ calls' = calls \ {c}
    /\ UNCHANGED <<env, here, mount, form, announced, crossed>>

\* onDone: the wizard closes, whichever is open by then, and the page gives
\* way to the campaign's or to the loyalty page.
Created(c) ==
    /\ c.kind # "list" /\ c.answer.at = "ok"
    /\ announced' = announced \cup {c.n}
    /\ Leave
    /\ Asks(env, c.mount, calls \ {c})
    /\ UNCHANGED <<env, mount, inst, kind, f, failed>>

\* A list that fails is left out; a creation that fails shows its error.
Fails(c) ==
    /\ calls' = calls \ {c}
    /\ IF c.kind # "list" /\ c.inst = inst /\ wizard # "closed" THEN busy' = FALSE /\ failed' = TRUE ELSE UNCHANGED <<busy, failed>>
    /\ UNCHANGED <<page, wizard, inst, kind, f, announced>>

Return(c) ==
    /\ \/ Listed(c) \/ Created(c)
       \/ c.answer = Refused /\ Fails(c) /\ crossed' = crossed
    /\ UNCHANGED <<camps, creates, trips>>

Lose(c) ==
    /\ c.answer.at # "half"
    /\ Fails(c) /\ crossed' = TRUE
    /\ UNCHANGED <<camps, creates, trips>>

Next ==
    \/ \E e \in Envs : SetEnv(e)
    \/ Away \/ Back \/ OpenWizard \/ Close \/ Turn \/ Create
    \/ \E k \in Kinds : Choose(k)
    \/ \E x \in Edits : \E v \in Contents[x] : Fill(x, v)
    \/ \E c \in calls : Serve(c) \/ Return(c) \/ Lose(c)

Spec == Init /\ [][Next]_vars

-----------------------------------------------------------------------------
\* Types; and a wizard spins only while its own creation is under way.
TypeOK ==
    /\ env \in Envs /\ here \in BOOLEAN /\ kind \in AllKinds
    /\ wizard \in {"closed", "type", "configure", "review"}
    /\ \A x \in DOMAIN Contents : f[x] \in Contents[x]
    /\ busy => \E c \in calls : c.kind # "list" /\ c.inst = inst

\* Whatever was typed for other kinds before, a code is attributed and paid
\* as the last step said, and it is never changed afterwards.
TermsAsReviewed == \A k \in camps : k.coded => k.to = k.reviewed.to /\ k.pays = k.reviewed.pays

\* A campaign that is announced as created is there, with its code.
AnnouncedIsWhole ==
    \A n \in announced : \E k \in camps : k.n = n /\ (k.coded \/ k.kind \in {"voucher", "ticket"})

\* When loads did not cross and nothing was lost or left half-way, the page at
\* rest lists the campaigns of its environment, all of them and no others.
ListCatchesUp ==
    here /\ calls = {} /\ ~ crossed /\ list # NotLoaded => list = [of |-> env, ids |-> {k.n : k \in {d \in camps : d.env = env}}]
=============================================================================
