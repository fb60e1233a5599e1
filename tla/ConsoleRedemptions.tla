------------------------- MODULE ConsoleRedemptions -------------------------
(***************************************************************************)
(* The redemptions page of the console (pages/Redemptions.jsx): a list     *)
(* and a form that redeems a code, against handleRedeem                    *)
(* (cloud/api/handlers_campaigns.go).  Campaigns may share a code.  The    *)
(* filters of the list change nothing but what is drawn: left out.         *)
(***************************************************************************)
EXTENDS Naturals, FiniteSetsExt, Sequences

CONSTANTS
    TestCampaigns, LiveCampaigns,   \* ids of the campaigns with unique codes
    Codes,
    MaxClicks, MaxLoads     \* bounds: codes sent (and forms opened), loads

RedemptionsAssumption ==
    /\ TestCampaigns \cup LiveCampaigns \subseteq Nat \ {0} /\ TestCampaigns \cap LiveCampaigns = {}
    /\ IsFiniteSet(TestCampaigns \cup LiveCampaigns) /\ {MaxClicks, MaxLoads} \subseteq Nat

AllCampaigns == TestCampaigns \cup LiveCampaigns
Envs == {"test", "live"}
CampaignsOf(e) == IF e = "test" THEN TestCampaigns ELSE LiveCampaigns

VARIABLES
    burned,         \* the contract: burned codes, each with the click that did it
    redemptions,    \* the API: rows, of redemptions and of rejections
    archived,       \* the API: archived campaigns
    env, data, campaigns,       \* the page
    redeem, opened, campID, busy,           \* the form: is it open, how often was it
    calls, loads, clicks,   \* requests under way; requests so far
    \* auxiliary
    shown, told,    \* campaign on screen when each code was sent; clicks announced
    astray          \* loads that failed or may overtake each other

api == <<burned, redemptions, archived>>
page == <<env, data, campaigns>>
form == <<redeem, opened, campID, busy>>
vars == <<api, page, form, calls, loads, clicks, shown, told, astray>>

Sent == [at |-> "sent"]
Refused == [at |-> "refused"]
NotLoaded == [at |-> "nothing"]

\* load(): two lists; archived campaigns are listed and not offered to the form.
Lists(e, n) == {[kind |-> k, n |-> n, env |-> e, answer |-> Sent] : k \in {"redemptions", "campaigns"}}
NoCampaigns == [all |-> {}, usable |-> {}]

\* "?redeem=1" of a link opens the form with the page.
Init ==
    /\ burned = {} /\ redemptions = <<>> /\ archived = {}
    /\ env = "test" /\ data = NotLoaded /\ campaigns = NoCampaigns
    /\ redeem \in BOOLEAN /\ opened = (IF redeem THEN 1 ELSE 0) /\ campID = 0 /\ busy = FALSE
    /\ calls = Lists("test", 0) /\ loads = 0 /\ clicks = 0
    /\ shown = <<>> /\ told = {} /\ astray = FALSE

\* Someone archives a campaign elsewhere.
Archive(c) ==
    /\ c \notin archived /\ archived' = archived \cup {c}
    /\ UNCHANGED <<burned, redemptions, page, form, calls, loads, clicks, shown, told, astray>>

-----------------------------------------------------------------------------
Load(e, others) ==
    /\ loads < MaxLoads /\ loads' = loads + 1 /\ calls' = others \cup Lists(e, loads + 1)
    /\ astray' = (astray \/ \E q \in others : q.kind # "redeem")

\* The effect forgets the list; campaigns and filter stay.
SetEnv(e) ==
    /\ e # env /\ ~redeem /\ env' = e /\ data' = NotLoaded /\ Load(e, calls)
    /\ UNCHANGED <<api, campaigns, form, clicks, shown, told>>

\* A select whose value is none of its options shows the first one.
First == IF campaigns.usable = {} THEN 0 ELSE Max(campaigns.usable)
Shown == IF campID \in campaigns.usable THEN campID ELSE First

\* The form takes the first campaign loaded by now.
OpenRedeem ==
    /\ ~redeem /\ opened < MaxClicks /\ redeem' = TRUE /\ opened' = opened + 1 /\ campID' = First /\ busy' = FALSE
    /\ UNCHANGED <<api, page, calls, loads, clicks, shown, told, astray>>

\* Another option than the one on screen.
Choose(c) ==
    /\ redeem /\ c \in campaigns.usable /\ c # Shown /\ campID' = c
    /\ UNCHANGED <<api, page, redeem, opened, busy, calls, loads, clicks, shown, told, astray>>

\* "Redeem", off while the form waits or has no campaign.
Redeem(code) ==
    /\ redeem /\ ~busy /\ campID # 0 /\ busy' = TRUE
    /\ clicks < MaxClicks /\ clicks' = clicks + 1 /\ shown' = Append(shown, Shown)
    /\ calls' = calls \cup {[kind |-> "redeem", n |-> clicks + 1, env |-> env, campaign |-> campID, code |-> code, form |-> opened, answer |-> Sent]}
    /\ UNCHANGED <<api, page, redeem, opened, campID, loads, told, astray>>

\* The cross, a click beside the form: also while it is busy.
CloseRedeem ==
    /\ redeem /\ redeem' = FALSE
    /\ UNCHANGED <<api, page, opened, campID, busy, calls, loads, clicks, shown, told, astray>>

-----------------------------------------------------------------------------
Answer(q, a) == calls' = (calls \ {q}) \cup {[q EXCEPT !.answer = a]}

ServeLoad(q) ==
    /\ q.kind # "redeem" /\ q.answer = Sent
    /\ Answer(q, IF q.kind = "campaigns" THEN [at |-> "ok", all |-> CampaignsOf(q.env), usable |-> CampaignsOf(q.env) \ archived]
                 ELSE [at |-> "ok", rows |-> {i \in DOMAIN redemptions : redemptions[i].campaign \in CampaignsOf(q.env)}])
    /\ UNCHANGED <<api, page, form, loads, clicks, shown, told, astray>>

\* campaignByID and c.Archived
Admitted(q) == q.campaign \in CampaignsOf(q.env) \ archived

Row(q, ok) == [campaign |-> q.campaign, code |-> q.code, ok |-> ok, by |-> q.n]
BurnedBefore(q) == \E b \in burned : b.campaign = q.campaign /\ b.code = q.code
Burn(q) == burned' = burned \cup {[campaign |-> q.campaign, code |-> q.code, by |-> q.n]}

\* handleRedeem: refused before the chain is asked; rejected, by the contract or
\* by an error on the way to it; redeemed; applied with its answer lost, which
\* makes a rejection, too; or applied in a process that stops.
ServeRedeem(q) ==
    /\ q.kind = "redeem" /\ q.answer = Sent
    /\ \/ ~Admitted(q) /\ Answer(q, Refused) /\ UNCHANGED <<burned, redemptions>>
       \/ /\ Admitted(q) /\ Answer(q, Refused)
          /\ redemptions' = Append(redemptions, Row(q, FALSE)) /\ UNCHANGED burned
       \/ /\ Admitted(q) /\ ~BurnedBefore(q) /\ Burn(q)
          /\ \/ Answer(q, [at |-> "ok"]) /\ redemptions' = Append(redemptions, Row(q, TRUE))
             \/ Answer(q, Refused) /\ redemptions' = Append(redemptions, Row(q, FALSE))
             \/ Answer(q, Refused) /\ UNCHANGED redemptions
    /\ UNCHANGED <<archived, page, form, loads, clicks, shown, told, astray>>

-----------------------------------------------------------------------------
Listed(q) ==
    /\ q.kind # "redeem" /\ q.answer.at = "ok" /\ calls' = calls \ {q}
    /\ IF q.kind = "campaigns" THEN campaigns' = [all |-> q.answer.all, usable |-> q.answer.usable] /\ UNCHANGED data
       ELSE data' = q.answer /\ UNCHANGED campaigns
    /\ UNCHANGED <<api, env, form, loads, clicks, shown, told, astray>>

\* onClose(true) of the form that asked, whichever is open by now.
Done(q) == redeem' = FALSE /\ Load(env, calls \ {q})

Redeemed(q) ==
    /\ q.kind = "redeem" /\ q.answer.at = "ok"
    /\ told' = told \cup {[n |-> q.n, env |-> q.env]} /\ Done(q)
    /\ UNCHANGED <<api, page, opened, campID, busy, clicks, shown>>

\* Errors, and requests or answers that are lost.
Fails(q) ==
    /\ calls' = calls \ {q}
    /\ busy' = (busy /\ ~(q.kind = "redeem" /\ q.form = opened))
    /\ astray' = (astray \/ q.kind # "redeem")
    /\ UNCHANGED <<api, page, redeem, opened, campID, loads, clicks, shown, told>>

Next ==
    \/ \E c \in AllCampaigns : Archive(c) \/ Choose(c)
    \/ \E e \in Envs : SetEnv(e)
    \/ \E code \in Codes : Redeem(code)
    \/ OpenRedeem \/ CloseRedeem
    \/ \E q \in calls : ServeLoad(q) \/ ServeRedeem(q) \/ Listed(q) \/ Redeemed(q) \/ Fails(q)

Spec == Init /\ [][Next]_vars

-----------------------------------------------------------------------------
\* Types; a form waits for one request at most.
TypeOK ==
    /\ env \in Envs /\ campaigns.usable \subseteq campaigns.all /\ campaigns.all \subseteq AllCampaigns
    /\ campID \in AllCampaigns \cup {0} /\ Len(shown) = clicks
    /\ Cardinality({q \in calls : q.kind = "redeem" /\ q.form = opened}) <= 1

\* The coupon that a click burned is of the campaign the form showed, though the
\* lists change under the form, the environment changes and codes are shared; but
\* not if the answers to two loads overtake each other.
BurnsWhatWasShown == ~astray => \A b \in burned : b.campaign = shown[b.by]

\* A redemption that was announced is listed once nothing is under way.
ListCatchesUp ==
    ~astray /\ calls = {} /\ data # NotLoaded =>
        \A t \in told : t.env = env => \E i \in data.rows : redemptions[i].by = t.n /\ redemptions[i].ok
=============================================================================
