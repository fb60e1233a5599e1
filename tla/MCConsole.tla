------------------------------ MODULE MCConsole ------------------------------
(***************************************************************************)
(* A bounded instance of every page of the console.                        *)
(*                                                                         *)
(* main.jsx mounts one page at a time, and the pages share no state in the *)
(* browser; each module keeps the part of the API its page calls.  So a    *)
(* behaviour here is one of the page that `page` names: pages that are not *)
(* on screen stay as they began, and the run explores the sum of the pages *)
(* and not their product.                                                  *)
(*                                                                         *)
(* Not every module calls its page what its file is called: Panels are the *)
(* scan and QR panels of a campaign, Secrets the pages of keys and         *)
(* webhook endpoints, Session what AppProvider and the sign-in page keep.  *)
(***************************************************************************)
EXTENDS Integers

CONSTANTS
    Users, MaxSubmits,                              \* of Session
    Campaigns,                                      \* of Detail and of Panels
    Supply, MaxMoves, MaxDetailWrites,              \* of Detail
    PageRows, MaxScans, MaxAsks,                    \* of Panels
    Kinds, Edits, MaxCreates, MaxTrips,             \* of Wizard
    Customers, Events, NoEvent, Counts, Most, Threshold,
    MaxBatch, MaxPunches, MaxPunchLoads, MaxOpens,  \* of Loyalty
    MaxItems, MaxSecretWrites, MaxSecretLoads,      \* of Secrets
    TestCodes, LiveCodes,
    MaxPeriods, MaxSettlementWrites, MaxSettlementLoads,    \* of Settlements
    TestCampaigns, LiveCampaigns, RedeemCodes,
    MaxClicks, MaxRedeemLoads                       \* of Redemptions

VARIABLES
    page,           \* the page on screen
    accounts, sessions, orgs, cookie, sessionCalls, made, disturbed, raced, booting, user,
    org, sessionMount, mode, email, sessionBusy, sessionFailed, named,
    home, shared, detailArchived, minted, codes, refs, did, detailEnv, route, detailMount,
    detailShown, open, detailInst, detailBusy, detailCalls, detailWrites, moves, overtaken,
    scans, jammed, c, panelsMount, loaded, pages, scansErr, qr, qrErr, panelsCalls, asked,
    panelsCrossed,
    camps, wizardEnv, here, wizardMount, list, wizard, wizardInst, kind, f, wizardBusy,
    wizardFailed, wizardCalls, creates, trips, announced, wizardCrossed,
    punches, rewards, chain, closed, loyaltyPage, loyaltyMount, loyaltyData, punch,
    loyaltyForm, loyaltyBusy, loyaltyErr, loyaltyCalls, loyaltyLoads, loyaltyClicks,
    loyaltyTold, loyaltyCrossed,
    secretsPage, items, secretsEnv, secretsData, create, secretsForm, selected, created,
    secretsBusy, secretsErr, timers, secretsCalls, secretsLoads, secretsWrites, seen,
    secretsTold, twice, secretsAstray,
    pending, tallies, settlementsEnv, settlementsData, settlementsCampaigns, sel, confirm,
    settlementsOpened, settlementsBusy, commitBusy, settlementsCalls, settlementsLoads,
    settlementsWrites, clicked, settlementsTold, settlementsAstray,
    burned, redemptions, redemptionsArchived, redemptionsEnv, redemptionsData,
    redemptionsCampaigns, redeem, redemptionsOpened, campID, redemptionsBusy,
    redemptionsCalls, redemptionsLoads, redemptionsClicks, redemptionsShown,
    redemptionsTold, redemptionsAstray

sessionVars ==
    <<accounts, sessions, orgs, cookie, sessionCalls, made, disturbed, raced, booting, user,
      org, sessionMount, mode, email, sessionBusy, sessionFailed, named>>
detailVars ==
    <<home, shared, detailArchived, minted, codes, refs, did, detailEnv, route, detailMount,
      detailShown, open, detailInst, detailBusy, detailCalls, detailWrites, moves, overtaken>>
panelsVars ==
    <<scans, jammed, c, panelsMount, loaded, pages, scansErr, qr, qrErr, panelsCalls, asked,
      panelsCrossed>>
wizardVars ==
    <<camps, wizardEnv, here, wizardMount, list, wizard, wizardInst, kind, f, wizardBusy,
      wizardFailed, wizardCalls, creates, trips, announced, wizardCrossed>>
loyaltyVars ==
    <<punches, rewards, chain, closed, loyaltyPage, loyaltyMount, loyaltyData, punch,
      loyaltyForm, loyaltyBusy, loyaltyErr, loyaltyCalls, loyaltyLoads, loyaltyClicks,
      loyaltyTold, loyaltyCrossed>>
secretsVars ==
    <<secretsPage, items, secretsEnv, secretsData, create, secretsForm, selected, created,
      secretsBusy, secretsErr, timers, secretsCalls, secretsLoads, secretsWrites, seen,
      secretsTold, twice, secretsAstray>>
settlementsVars ==
    <<pending, tallies, settlementsEnv, settlementsData, settlementsCampaigns, sel, confirm,
      settlementsOpened, settlementsBusy, commitBusy, settlementsCalls, settlementsLoads,
      settlementsWrites, clicked, settlementsTold, settlementsAstray>>
redemptionsVars ==
    <<burned, redemptions, redemptionsArchived, redemptionsEnv, redemptionsData,
      redemptionsCampaigns, redeem, redemptionsOpened, campID, redemptionsBusy,
      redemptionsCalls, redemptionsLoads, redemptionsClicks, redemptionsShown,
      redemptionsTold, redemptionsAstray>>

Session == INSTANCE ConsoleSession WITH
    calls <- sessionCalls, mount <- sessionMount, busy <- sessionBusy,
    failed <- sessionFailed, MaxCalls <- MaxSubmits

Detail == INSTANCE ConsoleDetail WITH
    archived <- detailArchived, env <- detailEnv, mount <- detailMount,
    shown <- detailShown, inst <- detailInst, busy <- detailBusy, calls <- detailCalls,
    writes <- detailWrites, MaxWrites <- MaxDetailWrites

Panels == INSTANCE ConsolePanels WITH
    mount <- panelsMount, calls <- panelsCalls, crossed <- panelsCrossed,
    Page <- PageRows

Wizard == INSTANCE ConsoleWizard WITH
    env <- wizardEnv, mount <- wizardMount, inst <- wizardInst, busy <- wizardBusy,
    failed <- wizardFailed, calls <- wizardCalls, crossed <- wizardCrossed

Loyalty == INSTANCE ConsoleLoyalty WITH
    page <- loyaltyPage, mount <- loyaltyMount, data <- loyaltyData, form <- loyaltyForm,
    busy <- loyaltyBusy, err <- loyaltyErr, calls <- loyaltyCalls, loads <- loyaltyLoads,
    clicks <- loyaltyClicks, told <- loyaltyTold, crossed <- loyaltyCrossed,
    MaxLoads <- MaxPunchLoads

Secrets == INSTANCE ConsoleSecrets WITH
    page <- secretsPage, env <- secretsEnv, data <- secretsData, form <- secretsForm,
    busy <- secretsBusy, err <- secretsErr, calls <- secretsCalls, loads <- secretsLoads,
    writes <- secretsWrites, told <- secretsTold, astray <- secretsAstray,
    MaxWrites <- MaxSecretWrites, MaxLoads <- MaxSecretLoads

Settlements == INSTANCE ConsoleSettlements WITH
    env <- settlementsEnv, data <- settlementsData, campaigns <- settlementsCampaigns,
    opened <- settlementsOpened, busy <- settlementsBusy, calls <- settlementsCalls,
    loads <- settlementsLoads, writes <- settlementsWrites, told <- settlementsTold,
    astray <- settlementsAstray,
    MaxWrites <- MaxSettlementWrites, MaxLoads <- MaxSettlementLoads

Redemptions == INSTANCE ConsoleRedemptions WITH
    archived <- redemptionsArchived, env <- redemptionsEnv, data <- redemptionsData,
    campaigns <- redemptionsCampaigns, opened <- redemptionsOpened,
    busy <- redemptionsBusy, calls <- redemptionsCalls, loads <- redemptionsLoads,
    clicks <- redemptionsClicks, shown <- redemptionsShown, told <- redemptionsTold,
    astray <- redemptionsAstray,
    Codes <- RedeemCodes, MaxLoads <- MaxRedeemLoads

\* The bounds of every page are in their ranges.
ASSUME ConsoleAssumption ==
    /\ Session!SessionAssumption /\ Detail!DetailAssumption /\ Panels!PanelsAssumption
    /\ Wizard!WizardAssumption /\ Loyalty!LoyaltyAssumption /\ Secrets!SecretsAssumption
    /\ Settlements!SettlementsAssumption /\ Redemptions!RedemptionsAssumption

-----------------------------------------------------------------------------
\* Where a page can begin in several ways, it begins in one when it is idle.
Idle ==
    /\ page # "session" => email = CHOOSE u \in Users : TRUE
    /\ page # "detail" => home = [x \in Campaigns |-> "test"] /\ shared = [x \in Campaigns |-> FALSE]
    /\ page # "panels" => c = CHOOSE x \in Campaigns : TRUE
    /\ page # "loyalty" => punches = {}
    /\ page # "secrets" => secretsPage = "keys"
    /\ page # "settlements" =>
          /\ pending = [x \in TestCodes \cup LiveCodes |-> 0]
          /\ tallies = [x \in TestCodes \cup LiveCodes |-> <<>>]
    /\ page # "redemptions" => ~ redeem

Init ==
    /\ page \in {"session", "detail", "panels", "wizard",
                "loyalty", "secrets", "settlements", "redemptions"}
    /\ Session!Init /\ Detail!Init /\ Panels!Init /\ Wizard!Init
    /\ Loyalty!Init /\ Secrets!Init /\ Settlements!Init /\ Redemptions!Init
    /\ Idle

SessionStep ==
    /\ page = "session" /\ Session!Next
    /\ UNCHANGED <<page,
                   detailVars, panelsVars, wizardVars, loyaltyVars, secretsVars,
                   settlementsVars, redemptionsVars>>

DetailStep ==
    /\ page = "detail" /\ Detail!Next
    /\ UNCHANGED <<page,
                   sessionVars, panelsVars, wizardVars, loyaltyVars, secretsVars,
                   settlementsVars, redemptionsVars>>

PanelsStep ==
    /\ page = "panels" /\ Panels!Next
    /\ UNCHANGED <<page,
                   sessionVars, detailVars, wizardVars, loyaltyVars, secretsVars,
                   settlementsVars, redemptionsVars>>

WizardStep ==
    /\ page = "wizard" /\ Wizard!Next
    /\ UNCHANGED <<page,
                   sessionVars, detailVars, panelsVars, loyaltyVars, secretsVars,
                   settlementsVars, redemptionsVars>>

LoyaltyStep ==
    /\ page = "loyalty" /\ Loyalty!Next
    /\ UNCHANGED <<page,
                   sessionVars, detailVars, panelsVars, wizardVars, secretsVars,
                   settlementsVars, redemptionsVars>>

SecretsStep ==
    /\ page = "secrets" /\ Secrets!Next
    /\ UNCHANGED <<page,
                   sessionVars, detailVars, panelsVars, wizardVars, loyaltyVars,
                   settlementsVars, redemptionsVars>>

SettlementsStep ==
    /\ page = "settlements" /\ Settlements!Next
    /\ UNCHANGED <<page,
                   sessionVars, detailVars, panelsVars, wizardVars, loyaltyVars,
                   secretsVars, redemptionsVars>>

RedemptionsStep ==
    /\ page = "redemptions" /\ Redemptions!Next
    /\ UNCHANGED <<page,
                   sessionVars, detailVars, panelsVars, wizardVars, loyaltyVars,
                   secretsVars, settlementsVars>>

Next ==
    \/ SessionStep \/ DetailStep \/ PanelsStep \/ WizardStep
    \/ LoyaltyStep \/ SecretsStep \/ SettlementsStep \/ RedemptionsStep

consoleVars ==
    <<page, sessionVars, detailVars, panelsVars, wizardVars,
      loyaltyVars, secretsVars, settlementsVars, redemptionsVars>>

Spec == Init /\ [][Next]_consoleVars

-----------------------------------------------------------------------------
\* The types of every page; and whatever spins waits for a request of its own.
ConsoleTypeOK ==
    /\ Session!TypeOK /\ Detail!TypeOK /\ Panels!TypeOK /\ Wizard!TypeOK
    /\ Loyalty!TypeOK /\ Secrets!TypeOK /\ Settlements!TypeOK /\ Redemptions!TypeOK

\* What is on screen belongs together: the organization to the user, whoever
\* signs in; the session of the browser to the page, once calls made one at a
\* time have ended; the campaign to the route and the environment, unless loads
\* overlapped; and every page of scans and the QR code to one campaign, the one
\* on screen unless it was changed in place with a request under way (the code
\* shows what comes last, CampaignDetail.jsx:23).
PagesShowOneThing ==
    /\ Session!OrgIsUsers /\ Session!AloneMeansAgreed
    /\ Detail!ShownIsRoute
    /\ Panels!QrIsShown /\ Panels!ListIsWhole

\* What a form showed when it was confirmed is what happened: terms as reviewed
\* in the wizard, codes as counted, the period and amount that were confirmed,
\* a burn in the campaign on screen.
DoneAsConfirmed ==
    /\ Wizard!TermsAsReviewed
    /\ Settlements!PaidAsConfirmed
    /\ Redemptions!BurnsWhatWasShown

\* Sent twice, lost, or failed half-way: a sale counts once under its reference,
\* full cards have one reward each, an archived campaign takes nothing more; and
\* a form makes one secret, except one sent again while busy or after a lost
\* answer, and one closed under its request, which the code sends again
\* (Platform.jsx:117-126).
EffectsHappenOnce ==
    /\ Detail!RefsCountOnce /\ Detail!ArchiveBlocksNew
    /\ Loyalty!EventCountsOnce /\ Loyalty!RewardsMatchPunches
    /\ Secrets!OnePerForm

\* What a page announced has happened, and shows: codes issued, campaigns with
\* their code, vouchers stored and on the contract, secrets revoked; no secret
\* is lost unseen, except with an answer or under a closed form.  Once nothing
\* is under way, lists hold what was announced.
AnnouncedIsThere ==
    /\ Detail!IssuedAsTold /\ Wizard!AnnouncedIsWhole
    /\ Loyalty!ToldAreIssued /\ Loyalty!ToldIsShown
    /\ Secrets!ToldAreEnded /\ Secrets!SecretsAreSeen
    /\ Wizard!ListCatchesUp /\ Secrets!ListCatchesUp
    /\ Settlements!ListCatchesUp /\ Redemptions!ListCatchesUp
=============================================================================
