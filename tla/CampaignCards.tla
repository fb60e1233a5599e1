--------------------------- MODULE CampaignCards ---------------------------
(***************************************************************************)
(* The playground's cards that act on a campaign of the connected wallet:  *)
(* Create Campaign and Issue Codes (web/src/cards-a.jsx) and Delegates     *)
(* (web/src/cards-c.jsx).  Wallets come and go, loads and calls of other   *)
(* cards add campaigns to the mirror and move the highlight, and effects   *)
(* run some time after the render that changed what they depend on.        *)
(***************************************************************************)
EXTENDS Ordering, Sequences, FiniteSetsExt

CONSTANTS
    Wallets, NoWallet,
    MaxId,          \* bound: campaigns
    Codes,          \* codes typed
    MaxCodes        \* bound: codes on the card

CardsAssumption == NoWallet \notin Wallets /\ MaxId \in Nat /\ MaxCodes \in Nat

VARIABLES
    wallet,
    owner,      \* state.campaigns: id -> owner
    highlight,  \* campaign last created, issued or redeemed; 0: none
    cid,        \* the selection of each card; 0: ""
    deps,       \* what each card's effect last ran for
    codes,      \* the chips
    issuing,    \* the issue call under way: <<>> or <<[id, by, codes]>>
    result,     \* the issue card's result: <<>> or token ids with their codes
    running,    \* calls of the delegates card under way: bag of kinds
    busy        \* what the delegates card thinks is under way

pick == <<cid, deps>>
store == <<wallet, owner, highlight>>
issue == <<codes, issuing, result>>
delegates == <<running, busy>>
vars == <<store, pick, issue, delegates>>

Cards == {"issue", "delegates"}
Ids == 1..MaxId
Kinds == {"add", "remove", "check"}

Init ==
    /\ wallet = NoWallet /\ owner = <<>> /\ highlight = 0
    /\ cid = [c \in Cards |-> 0] /\ deps = [c \in Cards |-> <<>>]
    /\ codes = <<>> /\ issuing = <<>> /\ result = <<>>
    /\ running = [k \in Kinds |-> 0] /\ busy = ""

\* Only campaigns the connected wallet owns.
OwnedIds == {id \in DOMAIN owner : wallet # NoWallet /\ owner[id] = wallet}

Deps == <<wallet, highlight, OwnedIds>>

\* React runs the effects of one render before it starts the next.
Flushed == \A c \in Cards : deps[c] = Deps

-----------------------------------------------------------------------------
(* The store                                                               *)

Switch(w) ==
    /\ Flushed
    /\ wallet # w /\ wallet' = w
    /\ UNCHANGED <<owner, highlight, pick, issue, delegates>>

\* loadOwnedCampaigns and verify add campaigns, of anyone.
Learn(id, w) ==
    /\ Flushed /\ id \notin DOMAIN owner
    /\ owner' = [i \in DOMAIN owner \cup {id} |-> IF i = id THEN w ELSE owner[i]]
    /\ UNCHANGED <<wallet, highlight, pick, issue, delegates>>

\* The Create card's call, answered for the wallet that made it.
Created(id, w) ==
    /\ Flushed /\ id \notin DOMAIN owner
    /\ owner' = [i \in DOMAIN owner \cup {id} |-> IF i = id THEN w ELSE owner[i]]
    /\ highlight' = id
    /\ UNCHANGED <<wallet, pick, issue, delegates>>

\* A redemption, maybe as a delegate, of any campaign.
Highlight(id) == Flushed /\ highlight' = id /\ UNCHANGED <<wallet, owner, pick, issue, delegates>>

-----------------------------------------------------------------------------
(* Selection                                                               *)

\* A valid selection stays; else the highlight, if owned; else the latest.
Valid(id) ==
    IF id \in OwnedIds THEN id
    ELSE IF highlight \in OwnedIds THEN highlight
    ELSE Max(OwnedIds \cup {0})

Effect(c) ==
    /\ deps[c] # Deps
    /\ deps' = [deps EXCEPT ![c] = Deps]
    /\ cid' = [cid EXCEPT ![c] = Valid(@)]
    /\ UNCHANGED <<store, issue, delegates>>

Select(c, id) ==
    /\ Flushed /\ id \in OwnedIds
    /\ cid' = [cid EXCEPT ![c] = id]
    /\ UNCHANGED <<store, deps, issue, delegates>>

-----------------------------------------------------------------------------
(* Issue Codes                                                             *)

\* ChipInput: what is typed or pasted, without the codes already there.
Commit(parts) ==
    /\ Len(codes) + Len(parts) <= MaxCodes
    /\ codes' = codes \o Taken(parts, {j \in DOMAIN parts : \A i \in DOMAIN codes : codes[i] # parts[j]})
    /\ UNCHANGED <<store, pick, issuing, result, delegates>>

Remove(code) ==
    /\ codes' = Taken(codes, {i \in DOMAIN codes : codes[i] # code})
    /\ UNCHANGED <<store, pick, issuing, result, delegates>>

CanIssue == wallet # NoWallet /\ issuing = <<>> /\ codes # <<>> /\ cid["issue"] # 0

Issue ==
    /\ CanIssue
    /\ issuing' = <<[id |-> cid["issue"], by |-> wallet, codes |-> codes]>>
    /\ result' = <<>>
    /\ UNCHANGED <<store, pick, codes, delegates>>

\* Token ids, in the order of the codes sent, next to those codes.
Pair(sent) == [ids |-> sent.codes, codes |-> sent.codes]

Issued ==
    /\ issuing # <<>>
    /\ result' = <<Pair(issuing[1])>>
    /\ issuing' = <<>>
    /\ Flushed /\ highlight' = issuing[1].id
    /\ UNCHANGED <<wallet, owner, pick, codes, delegates>>

IssueFails == issuing # <<>> /\ issuing' = <<>> /\ UNCHANGED <<store, pick, codes, result, delegates>>

-----------------------------------------------------------------------------
(* Delegates                                                               *)

\* Add is only blocked by itself, the others by anything under way.
CanRun(kind) ==
    /\ wallet # NoWallet
    /\ IF kind = "add" THEN busy # "add" ELSE busy = ""
    /\ running[kind] < 2

Run(kind) ==
    /\ CanRun(kind)
    /\ busy' = kind
    /\ running' = [running EXCEPT ![kind] = @ + 1]
    /\ UNCHANGED <<store, pick, issue>>

\* finally: whichever call ends clears the flag of all.
RunEnds(kind) ==
    /\ running[kind] > 0
    /\ running' = [running EXCEPT ![kind] = @ - 1]
    /\ busy' = ""
    /\ UNCHANGED <<store, pick, issue>>

Next ==
    \/ \E w \in Wallets \cup {NoWallet} : Switch(w)
    \/ \E id \in Ids, w \in Wallets : Learn(id, w) \/ Created(id, w)
    \/ \E id \in Ids : Highlight(id)
    \/ \E c \in Cards : Effect(c)
    \/ \E c \in Cards, id \in Ids : Select(c, id)
    \/ \E p \in Codes : Commit(<<p>>) \/ Remove(p)
    \/ \E p, q \in Codes : Commit(<<p, q>>)
    \/ Issue \/ Issued \/ IssueFails
    \/ \E kind \in Kinds : Run(kind) \/ RunEnds(kind)

Spec == Init /\ [][Next]_vars

-----------------------------------------------------------------------------
\* Types; and the delegates card is busy with a call that is under way.
TypeOK ==
    /\ wallet \in Wallets \cup {NoWallet} /\ highlight \in 0..MaxId
    /\ DOMAIN owner \subseteq Ids /\ \A id \in DOMAIN owner : owner[id] \in Wallets
    /\ cid \in [Cards -> 0..MaxId]
    /\ codes \in Seq(Codes) /\ Len(codes) <= MaxCodes
    /\ busy # "" => running[busy] > 0

\* Once its effect has run, a card offers a campaign of the connected wallet,
\* or none when it has none, whatever wallets, loads and highlights came in
\* between ("keep the selection valid").
SelectionOwned ==
    \A c \in Cards : deps[c] = Deps =>
        cid[c] \in OwnedIds \/ (cid[c] = 0 /\ OwnedIds = {})

\* A result lists the tokens of one call, each next to its own code, though
\* the chips change while the call is under way (IssueCodes submit).
ResultPairsCodes == \A i \in DOMAIN result : result[i].ids = result[i].codes
=============================================================================
