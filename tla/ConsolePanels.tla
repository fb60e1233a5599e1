---------------------------- MODULE ConsolePanels ----------------------------
(***************************************************************************)
(* The scans and QR panels of the campaign page (cloud/console:            *)
(* pages/CampaignDetail.jsx) and the API they ask                          *)
(* (cloud/api/handlers_scans.go).  A panel asks when its campaign changes  *)
(* and does not cancel what it asked before.                               *)
(*                                                                         *)
(* A campaign with more scans than fit a page stops the API: the handler   *)
(* keeps the rows of the page open and waits for the one connection they   *)
(* hold (LockOrder.ScansPage).  So no answer ever names a next page, and   *)
(* "Cargar más", which needs one, is never on screen: it is left out.      *)
(***************************************************************************)
EXTENDS Integers, Sequences, FiniteSets

CONSTANTS
    Campaigns,
    Page,           \* rows to a page (100 in the code)
    MaxScans,       \* bound: scans there are in the end
    MaxAsks         \* bound: changes of the campaign the panels are given

NoQr == "no qr"

PanelsAssumption == {Page, MaxScans, MaxAsks} \subseteq Nat /\ Page > 0 /\ NoQr \notin Campaigns

VARIABLES
    scans,          \* the API: the campaign of each scan, by its id
    jammed,         \* the API: a page of scans waits for itself
    c, mount,       \* the campaign the panels are given; which mount of them
    loaded, pages, scansErr,    \* ScansPanel: data is there, with these rows
    qr, qrErr,                  \* QRPanel
    calls, asked,   \* requests under way; changes so far
    crossed         \* the campaign changed in place with a request under way

api == <<scans, jammed>>
panels == <<loaded, pages, scansErr, qr, qrErr>>
vars == <<api, c, mount, panels, calls, asked, crossed>>

Sent == [at |-> "sent"]

\* What the panels ask for, once a mount or campaign.
Asked(n, id, m) == {[n |-> n, kind |-> k, id |-> id, mount |-> m, answer |-> Sent] : k \in {"scans", "qr"}}

\* Both panels ask as soon as they are mounted.
Init ==
    /\ scans = <<>> /\ jammed = FALSE /\ c \in Campaigns /\ mount = 0
    /\ loaded = FALSE /\ pages = {} /\ scansErr = FALSE /\ qr = NoQr /\ qrErr = FALSE
    /\ calls = Asked(0, c, 0) /\ asked = 0 /\ crossed = FALSE

\* Customers scan while the panels are open, if the API records it.
Scan(id) ==
    /\ Len(scans) < MaxScans /\ ~ jammed
    /\ scans' = Append(scans, id)
    /\ UNCHANGED <<jammed, c, mount, panels, calls, asked, crossed>>

\* What the effects forget first.
Reset == loaded' = FALSE /\ pages' = {} /\ scansErr' = FALSE /\ qr' = NoQr /\ qrErr' = FALSE

\* The page gives the panels another campaign: in place, or mounted anew.
Change(id, anew) ==
    /\ asked < MaxAsks /\ asked' = asked + 1
    /\ id # c \/ anew
    /\ c' = id /\ mount' = IF anew THEN mount + 1 ELSE mount
    /\ Reset
    /\ calls' = calls \cup Asked(asked', id, mount')
    /\ crossed' = (crossed \/ (~ anew /\ calls # {}))
    /\ UNCHANGED api

-----------------------------------------------------------------------------
Rows(id) == {k \in DOMAIN scans : scans[k] = id}

Answered(q, a) == calls' = (calls \ {q}) \cup {[q EXCEPT !.answer = a]}

\* Mutant: the rows are closed, and the page answered as if it were the last.
ServeShort(q) ==
    /\ q.answer = Sent /\ ~ jammed /\ UNCHANGED jammed
    /\ Answered(q, IF q.kind = "qr" THEN [at |-> "ok", id |-> q.id]
                   ELSE [at |-> "ok", rows |-> {k \in Rows(q.id) : Cardinality({j \in Rows(q.id) : j > k}) < Page}])
    /\ UNCHANGED <<scans, c, mount, panels, asked, crossed>>

\* handleCampaignQR and handleListScans, which answers the last page only.
Serve(q) ==
    /\ q.answer = Sent /\ ~ jammed
    /\ \/ /\ q.kind = "qr"
          /\ Answered(q, [at |-> "ok", id |-> q.id]) /\ UNCHANGED jammed
       \/ /\ q.kind = "scans" /\ Cardinality(Rows(q.id)) <= Page
          /\ Answered(q, [at |-> "ok", rows |-> Rows(q.id)]) /\ UNCHANGED jammed
       \/ /\ q.kind = "scans" /\ Cardinality(Rows(q.id)) > Page
          /\ jammed' = TRUE /\ UNCHANGED calls
    /\ UNCHANGED <<scans, c, mount, panels, asked, crossed>>

\* The API is started again; what it had not answered has failed.
Restart ==
    /\ jammed /\ \A q \in calls : q.answer # Sent
    /\ jammed' = FALSE
    /\ UNCHANGED <<scans, c, mount, panels, calls, asked, crossed>>

\* An answer is stored by the mount that asked, for whatever campaign it has now.
Arrives(q) ==
    /\ q.answer # Sent
    /\ calls' = calls \ {q}
    /\ \/ q.mount # mount /\ UNCHANGED panels
       \/ /\ q.mount = mount /\ q.kind = "qr"
          /\ qr' = q.answer.id /\ UNCHANGED <<loaded, pages, scansErr, qrErr>>
       \/ /\ q.mount = mount /\ q.kind = "scans"
          /\ loaded' = TRUE /\ pages' = q.answer.rows /\ UNCHANGED <<scansErr, qr, qrErr>>
    /\ UNCHANGED <<api, c, mount, asked, crossed>>

\* An error stays until the campaign changes; it hides what was loaded.
Fails(q) ==
    /\ calls' = calls \ {q}
    /\ scansErr' = (scansErr \/ (q.mount = mount /\ q.kind = "scans"))
    /\ qrErr' = (qrErr \/ (q.mount = mount /\ q.kind = "qr"))
    /\ UNCHANGED <<api, c, mount, loaded, pages, qr, asked, crossed>>

Next ==
    \/ \E id \in Campaigns : Scan(id) \/ \E anew \in BOOLEAN : Change(id, anew)
    \/ \E q \in calls : Serve(q) \/ Arrives(q) \/ Fails(q)
    \/ Restart

Spec == Init /\ [][Next]_vars

-----------------------------------------------------------------------------
\* Types; and a panel that is neither loaded nor failed has asked.
TypeOK ==
    /\ scans \in Seq(Campaigns) /\ c \in Campaigns /\ asked \in 0..MaxAsks
    /\ pages \subseteq DOMAIN scans
    /\ qr \in Campaigns \cup {NoQr}
    /\ qr = NoQr /\ ~ qrErr => \E q \in calls : q.kind = "qr" /\ q.mount = mount
    /\ ~ loaded /\ ~ scansErr => \E q \in calls : q.kind = "scans" /\ q.mount = mount

\* The list on screen is all that one campaign had at one moment, no scan left
\* out and none of another campaign, whatever is scanned and whichever answers
\* come late; and the campaign is the one on screen, unless it was changed in
\* place with a request under way: the panels do not cancel what they asked,
\* so what comes last is shown (CampaignDetail.jsx:23).
ListIsWhole ==
    \E id \in Campaigns, newest \in 0..Len(scans) :
        /\ pages = {k \in Rows(id) : k <= newest}
        /\ ~ crossed => id = c

\* The QR on offer for print is the one of the campaign on screen, with the same
\* exception.
QrIsShown == ~ crossed /\ qr # NoQr => qr = c
=============================================================================
