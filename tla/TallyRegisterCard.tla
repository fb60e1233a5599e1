------------------------- MODULE TallyRegisterCard -------------------------
(***************************************************************************)
(* The playground's Register shared code card (web/src/cards-tally.jsx):   *)
(* a form, the call it makes, the snippet it shows, and what the contract  *)
(* answers.  Amounts are small, and there is one code and one period.      *)
(*                                                                         *)
(* The form sends whatever campaign and name were typed: of them the model *)
(* knows what the contract makes of them, which it chooses when a call is  *)
(* answered.                                                               *)
(***************************************************************************)
EXTENDS Integers, FiniteSets

CONSTANTS
    Blank,          \* an amount left empty
    MaxCount,       \* bound: amounts typed
    MaxCalls        \* bound: calls under way

RegisterAssumption == MaxCount \in Nat /\ MaxCalls \in Nat /\ Blank \notin Nat

VARIABLES
    wallet,     \* BOOLEAN: connected, the card is unlocked
    form,       \* the inputs
    asked,      \* calls under way
    busy,       \* what the card takes to be under way
    code,       \* the contract: the registered code
    committed,  \* whether its period is committed,
    expired     \* and whether its campaign is past its validity

vars == <<wallet, form, asked, busy, code, committed, expired>>
contract == <<code, committed, expired>>

Amounts == 0..MaxCount
Recipients == {"nobody", "wallet", "other"}
Forms == [attr : Recipients, token : BOOLEAN, rate : Amounts \cup {Blank},
          merkle : BOOLEAN, count : Amounts, attrCount : Amounts]
Registers == [kind : {"register"}, attr : Recipients, token : BOOLEAN, rate : Amounts \cup {Blank}]
Commits == [kind : {"commit"}, attr : Recipients, count : Amounts, per : Amounts]
NoCall == [kind |-> "none"]

Init ==
    /\ wallet = FALSE
    /\ form = [attr |-> "nobody", token |-> FALSE, rate |-> MaxCount, merkle |-> FALSE,
               count |-> MaxCount, attrCount |-> MaxCount]
    /\ asked = {} /\ busy = ""
    /\ code = NoCall /\ committed = FALSE /\ expired = FALSE

\* A wallet that connects fills in an empty recipient.
Connect ==
    /\ wallet' = ~ wallet
    /\ form' = IF wallet' /\ form.attr = "nobody" THEN [form EXCEPT !.attr = "wallet"] ELSE form
    /\ UNCHANGED <<asked, busy, contract>>

\* A field at a time.
Fill(f) ==
    /\ \E field \in DOMAIN form : f = [form EXCEPT ![field] = f[field]]
    /\ form' = f
    /\ UNCHANGED <<wallet, asked, busy, contract>>

-----------------------------------------------------------------------------
\* attributedArg, tokenArg, effectiveRate: the call of the Code tab.
Snippet(f) ==
    LET token == f.attr # "nobody" /\ f.token
    IN  [kind |-> "register", attr |-> f.attr, token |-> token,
         rate |-> IF token /\ f.rate # Blank THEN f.rate ELSE 0]

\* The call of the Run tab: no payout without a recipient, no rate without a
\* token.
RegisterArgs(f) ==
    LET tok == f.attr # "nobody" /\ f.token
    IN  [kind |-> "register", attr |-> f.attr, token |-> tok, rate |-> IF tok THEN f.rate ELSE 0]

\* Button and run alike: a Merkle root; with a recipient, a full count.
CanCommit(f) == f.merkle /\ (f.attr # "nobody" => f.attrCount = f.count)

CommitArgs(f) ==
    [kind |-> "commit", attr |-> f.attr, count |-> f.count,
     per |-> IF f.attr # "nobody" THEN f.attrCount ELSE 0]

\* A button is blocked by its own call only, and only while the card has
\* started or ended nothing else.
Ready(kind) == wallet /\ busy # kind /\ Cardinality(asked) < MaxCalls

Run(kind) ==
    /\ Ready(kind) /\ busy' = kind
    /\ \/ kind = "register" /\ asked' = asked \cup {RegisterArgs(form)}
       \/ kind = "commit" /\ CanCommit(form) /\ asked' = asked \cup {CommitArgs(form)}
    /\ UNCHANGED <<wallet, form, contract>>

-----------------------------------------------------------------------------
Campaigns == {"own", "foreign", "absent"}   \* of the wallet, of another, not there
Names == {"fits", "empty", "long"}

\* No recipient no token; a token at a rate above 0, none at rate 0.
SettlementFits(c) ==
    /\ c.token => c.attr # "nobody" /\ c.rate \notin {0, Blank}
    /\ ~ c.token => c.rate = 0

\* The errors that register_shared has for a call, of which it answers one.
RegisterErrors(c, camp, name) ==
    (IF camp = "absent" THEN {"CampaignNotFound"} ELSE {})
    \cup (IF camp = "foreign" THEN {"Unauthorized"} ELSE {})
    \cup (IF expired THEN {"CampaignExpired"} ELSE {})
    \cup (IF name = "empty" THEN {"InvalidCode"} ELSE {})
    \cup (IF name = "long" THEN {"CodeTooLong"} ELSE {})
    \cup (IF SettlementFits(c) THEN {} ELSE {"InvalidSettlement"})
    \cup (IF code = NoCall THEN {} ELSE {"AlreadyRegistered"})

\* The same of commit_tally.  Who credits nobody credits nothing: of an
\* attributed code such a commitment is legal if it counts nothing.
CommitErrors(c, camp, name) ==
    (IF camp = "absent" THEN {"CampaignNotFound"} ELSE {})
    \cup (IF camp = "foreign" THEN {"Unauthorized"} ELSE {})
    \cup (IF code = NoCall \/ name # "fits" THEN {"SharedNotFound"} ELSE {})
    \cup (IF committed THEN {"PeriodCommitted"} ELSE {})
    \cup (IF code # NoCall /\ c.attr \notin {"nobody", code.attr} THEN {"AttributionMismatch"} ELSE {})
    \cup (IF code # NoCall /\ code.attr # "nobody" /\ c.per # c.count THEN {"InvalidTally"} ELSE {})

Errors(c, camp, name) ==
    IF c.kind = "register" THEN RegisterErrors(c, camp, name) ELSE CommitErrors(c, camp, name)

Accepted(c) ==
    /\ \E camp \in Campaigns, name \in Names : Errors(c, camp, name) = {}
    /\ code' = IF c.kind = "register" THEN c ELSE code
    /\ committed' = (committed \/ c.kind = "commit")
    /\ asked' = asked \ {c} /\ busy' = ""
    /\ UNCHANGED <<wallet, form, expired>>

\* Refused, unsigned, or without an answer.
Refused(c) ==
    /\ asked' = asked \ {c} /\ busy' = ""
    /\ UNCHANGED <<wallet, form, contract>>

\* Another page, or a call of this one whose answer was lost, registers and
\* commits; and the campaign expires.
Meanwhile ==
    /\ \/ /\ code = NoCall /\ \E c \in Registers : SettlementFits(c) /\ code' = c
          /\ UNCHANGED <<committed, expired>>
       \/ code # NoCall /\ committed' = TRUE /\ UNCHANGED <<code, expired>>
       \/ expired' = TRUE /\ UNCHANGED <<code, committed>>
    /\ UNCHANGED <<wallet, form, asked, busy>>

Next ==
    \/ Connect \/ Meanwhile
    \/ \E f \in Forms : Fill(f)
    \/ \E kind \in {"register", "commit"} : Run(kind)
    \/ \E c \in asked : Accepted(c) \/ Refused(c)

Spec == Init /\ [][Next]_vars

-----------------------------------------------------------------------------
\* Types; whatever is marked as under way is; and a period is only committed of
\* a code that is registered.
TypeOK ==
    /\ wallet \in BOOLEAN /\ form \in Forms
    /\ asked \subseteq Registers \cup Commits
    /\ busy # "" => asked # {}
    /\ code \in Registers \cup {NoCall}
    /\ committed \in BOOLEAN /\ expired \in BOOLEAN
    /\ committed => code # NoCall

\* The Code tab shows the call the Run tab makes, though each computes it for
\* itself, for every form whose rate is filled in.
SnippetIsCall == form.rate # Blank => Snippet(form) = RegisterArgs(form)

\* What the form enforces of the contract's rules ("enforce the contract's
\* invariants client-side"), for the calls on their way and whatever is
\* registered meanwhile: of the refusals that are about what a call says of
\* money, InvalidSettlement is only of a token at no rate, and AttributionMismatch
\* and InvalidTally only of a recipient that is not the one registered.  All
\* others are about what the form does not look at: the campaign, its owner and
\* its validity, the name, and what is there already.
RefusalsAreForeign ==
    \A c \in asked, camp \in Campaigns, name \in Names :
        /\ "InvalidSettlement" \in Errors(c, camp, name) => c.token /\ c.rate \in {0, Blank}
        /\ Errors(c, camp, name) \cap {"AttributionMismatch", "InvalidTally"} # {}
               => c.attr # code.attr
=============================================================================
