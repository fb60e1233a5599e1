---------------------------- MODULE ReceiptBook ----------------------------
(***************************************************************************)
(* What Cloud's database promises the merchant of one shared code: a book  *)
(* of recorded events in which an order counts once, closed in batches of  *)
(* its oldest open entries, each batch under a new period, each period     *)
(* noted as paid at most once.                                             *)
(***************************************************************************)
EXTENDS Integers, Sequences, FiniteSets

CONSTANTS Orders, NoRef, Periods, Open, Limit

VARIABLES
    book,   \* the order of every event, in the order of recording
    batch,  \* the period each event was closed in, or Open
    noted   \* periods noted as paid

vars == <<book, batch, noted>>

Closed == {batch[i] : i \in DOMAIN batch} \ {Open}

Init == book = <<>> /\ batch = <<>> /\ noted = {}

Record(order) ==
    /\ order = NoRef \/ \A i \in DOMAIN book : book[i] # order
    /\ book' = Append(book, order)
    /\ batch' = Append(batch, Open)
    /\ UNCHANGED noted

Older(i) == {j \in DOMAIN batch : batch[j] = Open /\ j < i}

Close(period, size) ==
    LET closing == {i \in DOMAIN batch : batch[i] = Open
                                       /\ Cardinality(Older(i)) < size}
    IN  /\ period \notin Closed /\ Cardinality(closing) = size
        /\ batch' = [i \in DOMAIN batch |->
                       IF i \in closing THEN period ELSE batch[i]]
        /\ UNCHANGED <<book, noted>>

NotePaid(period) ==
    /\ period \in Closed \ noted
    /\ noted' = noted \cup {period}
    /\ UNCHANGED <<book, batch>>

Next ==
    \/ \E order \in Orders \cup {NoRef} : Record(order)
    \/ \E period \in Periods, size \in 1..Limit : Close(period, size)
    \/ \E period \in Periods : NotePaid(period)

Spec == Init /\ [][Next]_vars
=============================================================================
