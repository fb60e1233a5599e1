----------------------------- MODULE VerifyCard -----------------------------
(***************************************************************************)
(* The playground's Verify card (web/src/cards-b.jsx): anyone looks a code *)
(* up, and the card shows its status.  The button waits for the lookup     *)
(* under way, the Enter key does not, so lookups overlap and finish in any *)
(* order while codes are issued, burned and expire.                        *)
(*                                                                         *)
(* store.jsx reads the coupon, then its campaign, and takes the status     *)
(* from what the coupon was then and from the browser's clock by now.  The *)
(* clock is not the ledger's: a code is late when this clock has passed    *)
(* its campaign's valid_until, which never changes.                        *)
(***************************************************************************)
EXTENDS Integers

CONSTANTS
    Codes,
    MaxLookups      \* bound: lookups made

VerifyAssumption == MaxLookups \in Nat

VARIABLES
    fate,       \* the contract: what has become of each code
    late,       \* the browser's clock: the codes whose validity it has passed
    made,       \* lookups made so far
    pending,    \* lookups under way: [n, code, spent, token]
    overlapped, \* whether two lookups were ever under way at once
    busy, data, error

card == <<busy, data, error>>
vars == <<fate, late, made, pending, overlapped, card>>

Unasked == "unasked"        \* the first read has not reached the contract
Fates == {"unknown", "live", "burned"}
Statuses == {"valid", "burned", "expired"}
NoData == [n |-> 0]

Init ==
    /\ fate = [c \in Codes |-> "unknown"] /\ late = {}
    /\ made = 0 /\ pending = {} /\ overlapped = FALSE
    /\ busy = FALSE /\ data = NoData /\ error = 0

\* Issued, burned, past its validity; a burned code stays burned (lib.rs), and
\* the clock of the browser is not set back.
Change(c) ==
    /\ \/ fate[c] = "unknown" /\ fate' = [fate EXCEPT ![c] = "live"] /\ UNCHANGED late
       \/ fate[c] = "live" /\ fate' = [fate EXCEPT ![c] = "burned"] /\ UNCHANGED late
       \/ c \notin late /\ late' = late \cup {c} /\ UNCHANGED fate
    /\ UNCHANGED <<made, pending, overlapped, card>>

\* lookup, from the button or with Enter: earlier results are cleared.
Lookup(c) ==
    /\ made < MaxLookups
    /\ made' = made + 1
    /\ pending' = pending \cup {[n |-> made + 1, code |-> c, spent |-> fate[c] = "burned",
                                 token |-> Unasked]}
    /\ overlapped' = (overlapped \/ pending # {})
    /\ busy' = TRUE /\ error' = 0 /\ data' = NoData
    /\ UNCHANGED <<fate, late>>

Button(c) == ~ busy /\ Lookup(c)
Enter(c) == Lookup(c)

\* The first await: the coupon as it is by now, or CouponNotFound.
ReadToken(l) ==
    /\ l.token = Unasked
    /\ pending' = (pending \ {l}) \cup {[l EXCEPT !.token = fate[l.code]]}
    /\ UNCHANGED <<fate, late, made, overlapped, card>>

\* Mutant: the validity is asked first, and hides what the coupon was.
StatusByClock(token, expired) == IF expired THEN "expired" ELSE IF token = "burned" THEN "burned" ELSE "valid"

\* Burned before expired before valid.
Status(token, expired) == IF token = "burned" THEN "burned" ELSE IF expired THEN "expired" ELSE "valid"

\* The second await: the campaign, or null if its read failed, which nobody
\* sees; then the clock.
Show(l) ==
    /\ l.token \in {"live", "burned"}
    /\ \E campaign \in BOOLEAN :
          data' = [n |-> l.n, code |-> l.code, spent |-> l.spent,
                   status |-> Status(l.token, campaign /\ l.code \in late)]
    /\ pending' = pending \ {l} /\ busy' = FALSE
    /\ UNCHANGED <<fate, late, made, overlapped, error>>

\* No coupon, or no answer.
Fails(l) ==
    /\ l.token \in {Unasked, "unknown"}
    /\ pending' = pending \ {l} /\ busy' = FALSE /\ error' = l.n
    /\ UNCHANGED <<fate, late, made, overlapped, data>>

\* The crosses of the panels.
Dismiss ==
    /\ \/ data' = NoData /\ error' = error
       \/ error' = 0 /\ data' = data
    /\ UNCHANGED <<fate, late, made, pending, overlapped, busy>>

Next ==
    \/ \E c \in Codes : Change(c) \/ Button(c) \/ Enter(c)
    \/ \E l \in pending : ReadToken(l) \/ Show(l) \/ Fails(l)
    \/ Dismiss

Spec == Init /\ [][Next]_vars

-----------------------------------------------------------------------------
\* Types; and the card spins only while a lookup is under way.
TypeOK ==
    /\ fate \in [Codes -> Fates] /\ late \subseteq Codes /\ made \in 0..MaxLookups
    /\ pending \subseteq [n : 1..made, code : Codes, spent : BOOLEAN, token : Fates \cup {Unasked}]
    /\ data \in [n : 1..made, code : Codes, spent : BOOLEAN, status : Statuses] \cup {NoData}
    /\ error \in 0..made
    /\ busy => pending # {}

\* Bad news is true and stays so, in whatever order lookups finish: a coupon
\* shown as burned is burned, one shown as expired was issued and is late by
\* the clock of the browser.  That it is not burned as well is not promised: the
\* coupon was read before the campaign, and may have been burned in between.
BadNewsIsFinal ==
    data # NoData =>
        /\ data.status = "burned" => fate[data.code] = "burned"
        /\ data.status = "expired" => fate[data.code] # "unknown" /\ data.code \in late

\* Good news is no older than the lookup: a coupon that was burned before the
\* lookup began is shown as burned, though the clock has passed its validity,
\* and though the campaign could not be read.  A late one is shown as valid then.
BurnsAreSeen == data # NoData /\ data.spent => data.status = "burned"

\* Lookups that do not overlap show the answer to the last one or nothing,
\* and never an answer next to an error.
ShownIsLast ==
    ~ overlapped =>
        /\ data # NoData => data.n = made
        /\ data # NoData => error = 0
=============================================================================
