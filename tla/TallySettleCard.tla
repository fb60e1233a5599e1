-------------------------- MODULE TallySettleCard --------------------------
(***************************************************************************)
(* The playground's Audit & settle card (web/src/cards-tally.jsx).  A      *)
(* campaign, code and period are one key; what the contract keeps under a  *)
(* key never changes once it is there, so an answer is the key it was read *)
(* for.  Only a button's own call blocks it: views, settlements and bumps  *)
(* overlap, and the inputs change under them.                              *)
(***************************************************************************)
EXTENDS Integers, FiniteSets

CONSTANTS
    Keys, None,     \* campaign, code and period; nothing shown
    MaxCalls        \* bound: calls under way

SettleAssumption == None \notin Keys /\ MaxCalls \in Nat

VARIABLES
    wallet,     \* BOOLEAN: connected
    key,        \* the inputs
    views,      \* views under way: key, and reads answered
    writes,     \* settlements and bumps under way
    busy,       \* what the card takes to be under way
    shown       \* shared, tally and payouts of the panel: the key of each

vars == <<wallet, key, views, writes, busy, shown>>

Nothing == [shared |-> None, tally |-> None, payouts |-> None]
UnderWay == Cardinality(views) + Cardinality(writes)

Init ==
    /\ wallet = FALSE /\ key \in Keys
    /\ views = {} /\ writes = {} /\ busy = "" /\ shown = Nothing

Connect == wallet' = ~ wallet /\ UNCHANGED <<key, views, writes, busy, shown>>

Edit(k) == key' = k /\ UNCHANGED <<wallet, views, writes, busy, shown>>

CanStart(kind) == busy # kind /\ UnderWay < MaxCalls

\* view: shared code, tally and payouts, one read after the other, for the
\* inputs of the click.
View ==
    /\ CanStart("view")
    /\ busy' = "view" /\ shown' = Nothing
    /\ views' = views \cup {[key |-> key, read |-> 0]}
    /\ UNCHANGED <<wallet, key, writes>>

Read(v) ==
    /\ v.read < 3
    /\ views' = (views \ {v}) \cup {[v EXCEPT !.read = @ + 1]}
    /\ UNCHANGED <<wallet, key, writes, busy, shown>>

\* setShared, setTally and setPayouts together, after the last read.
AllOf(v) == [shared |-> v.key, tally |-> v.key, payouts |-> v.key]

Viewed(v) ==
    /\ v.read = 3
    /\ views' = views \ {v} /\ busy' = ""
    /\ shown' = AllOf(v)
    /\ UNCHANGED <<wallet, key, writes>>

\* finally, of an operation that was refused, unsigned or lost.
Fails ==
    /\ \/ \E v \in views : views' = views \ {v} /\ writes' = writes
       \/ \E x \in writes : writes' = writes \ {x} /\ views' = views
    /\ busy' = ""
    /\ UNCHANGED <<wallet, key, shown>>

Write(kind) ==
    /\ wallet /\ CanStart(kind)
    /\ busy' = kind
    /\ writes' = writes \cup {[kind |-> kind, key |-> key]}
    /\ UNCHANGED <<wallet, key, views, shown>>

\* The payouts sent replace those previewed; a bump shows nothing.
Written(x) ==
    /\ writes' = writes \ {x} /\ busy' = ""
    /\ shown' = IF x.kind = "settle" THEN [shown EXCEPT !.payouts = x.key] ELSE shown
    /\ UNCHANGED <<wallet, key, views>>

Close == shown # Nothing /\ shown' = Nothing /\ UNCHANGED <<wallet, key, views, writes, busy>>

Next ==
    \/ Connect \/ View \/ Fails \/ Close
    \/ \E k \in Keys : Edit(k)
    \/ \E v \in views : Read(v) \/ Viewed(v)
    \/ \E kind \in {"settle", "bump"} : Write(kind)
    \/ \E x \in writes : Written(x)

Spec == Init /\ [][Next]_vars

-----------------------------------------------------------------------------
\* Types; and whatever is marked as under way is.
TypeOK ==
    /\ key \in Keys
    /\ views \subseteq [key : Keys, read : 0..3]
    /\ writes \subseteq [kind : {"settle", "bump"}, key : Keys]
    /\ shown \in [shared : Keys \cup {None}, tally : Keys \cup {None}, payouts : Keys \cup {None}]
    /\ busy # "" => views \cup writes # {}

\* The terms in the panel are those of the code whose tally it shows, though
\* views overlap and finish in any order (view sets all at once).
TermsMatchTally == shown.shared = shown.tally
=============================================================================
