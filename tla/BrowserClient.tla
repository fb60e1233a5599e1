--------------------------- MODULE BrowserClient ---------------------------
(***************************************************************************)
(* Writes sent from the browser SDK (sdk/ts/src/browser.ts, writeAt) and   *)
(* from the server helper (sdk/ts/src/helpers.ts, approveSettlement):      *)
(* read the account, build, simulate, sign, send once, poll.  Calls of     *)
(* several tabs and users interleave at every await.  The RPC node, the    *)
(* wallet's user and the ledger are the environment: answers are lost,     *)
(* the node lags behind the ledger, transactions wait, expire or lose a    *)
(* race for the same coupon.  An envelope is its hash.                     *)
(***************************************************************************)
EXTENDS Integers, FiniteSets

CONSTANTS
    Calls,          \* invocations of a write
    Accounts,       \* source accounts
    Ops,            \* contract calls, arguments included
    OnceOps,        \* those the contract refuses a second time (a redemption)
    NoTx,           \* nothing built yet
    NoCode,         \* error without .contractCode
    Timeout,        \* setTimeout(60), in clock ticks
    MaxPolls,       \* retries of a poll (20, or 30 in the helper)
    MaxTime         \* bound: the clock

ClientAssumption ==
    /\ OnceOps \subseteq Ops /\ NoCode \notin Ops
    /\ Timeout \in Nat /\ MaxPolls \in Nat \ {0} /\ MaxTime \in Nat

VARIABLES
    now,        \* wall clock
    seq,        \* ledger: sequence number of each account
    included,   \* ledger: envelope -> [ok, ledger], the transactions applied
    posted,     \* envelopes the node accepted and the ledger has not applied
    call        \* the invocations

vars == <<now, seq, included, posted, call>>

Envelopes == [from : Accounts, seq : Nat, op : Ops, until : Nat]

Routes == {"freighter", "keypair"}      \* writeAt, approveSettlement
Steps == {"account", "simulate", "sign", "send", "poll"}
\* How a call ends: with its result; refused in simulation; unsigned; ERROR
\* from the node; "failed on-chain"; not confirmed in time; an RPC error.
Answers == {"ok", "refused", "cancelled", "rejected", "failed", "unconfirmed", "lost"}

Idle == [pc |-> "idle", via |-> "freighter", from |-> "", op |-> "", tx |-> NoTx,
         tries |-> 0, code |-> NoCode, ledger |-> 0]

Init ==
    /\ now = 0
    /\ seq = [a \in Accounts |-> 0]
    /\ included = [e \in {} |-> TRUE]
    /\ posted = {}
    /\ call = [c \in Calls |-> Idle]

Ledger == Cardinality(DOMAIN included)

Applied(op) == {e \in DOMAIN included : included[e].ok /\ e.op = op}

\* The contract's own verdict, in simulation and on the ledger.
Refuses(op) == op \in OnceOps /\ Applied(op) # {}

\* contractErrorCode: the number in a host error; a transaction result, which
\* is base64 XDR, has none.
ContractErr(c, how, code) == call' = [call EXCEPT ![c].pc = how, ![c].code = code]

Goto(c, step) == call' = [call EXCEPT ![c].pc = step]

-----------------------------------------------------------------------------
(* The ledger and the node                                                 *)

Tick == now < MaxTime /\ now' = now + 1 /\ UNCHANGED <<seq, included, posted, call>>

Valid(e) == e.seq = seq[e.from] + 1 /\ now <= e.until

Include(e) ==
    /\ Valid(e)
    /\ included' = [x \in DOMAIN included \cup {e} |->
                      IF x = e THEN [ok |-> ~ Refuses(e.op), ledger |-> Ledger + 1]
                      ELSE included[x]]
    /\ seq' = [seq EXCEPT ![e.from] = @ + 1]
    /\ posted' = posted \ {e}
    /\ UNCHANGED <<now, call>>

Drop(e) == posted' = posted \ {e} /\ UNCHANGED <<now, seq, included, call>>

\* sendTransaction: DUPLICATE, ERROR, TRY_AGAIN_LATER (one transaction per
\* account waits at a time), PENDING.
Status(e) ==
    IF e \in posted THEN "DUPLICATE"
    ELSE IF ~ Valid(e) THEN "ERROR"
    ELSE IF \E x \in posted : x.from = e.from THEN "TRY_AGAIN_LATER"
    ELSE "PENDING"

-----------------------------------------------------------------------------
(* A write                                                                 *)

Begin(c, via, a, op) ==
    /\ call[c].pc = "idle"
    /\ call' = [call EXCEPT ![c] =
                  [Idle EXCEPT !.pc = "account", !.via = via, !.from = a, !.op = op]]
    /\ UNCHANGED <<now, seq, included, posted>>

\* getAccount, and the build, which fixes sequence and time bound.  The helper
\* reads the latest ledger first: it changes nothing, and its failure is that
\* of getAccount (RpcFails).
GetAccount(c) ==
    /\ call[c].pc = "account"
    /\ call' = [call EXCEPT ![c].pc = "simulate",
                            ![c].tx = [from |-> call[c].from, seq |-> seq[call[c].from] + 1,
                                       op |-> call[c].op, until |-> now + Timeout]]
    /\ UNCHANGED <<now, seq, included, posted>>

\* Simulation error: writeAt reads the contract's code out of the message; the
\* helper's prepareTransaction throws the message and no code.
Verdict(c) == IF call[c].via = "freighter" THEN call[c].op ELSE NoCode

Simulate(c) ==
    /\ call[c].pc = "simulate"
    /\ IF Refuses(call[c].op) THEN ContractErr(c, "refused", Verdict(c))
       ELSE Goto(c, "sign")
    /\ UNCHANGED <<now, seq, included, posted>>

\* The user answers the wallet's prompt; the helper holds the key itself.
Sign(c) ==
    /\ call[c].pc = "sign"
    /\ \/ Goto(c, "send")
       \/ call[c].via = "freighter" /\ Goto(c, "cancelled")
    /\ UNCHANGED <<now, seq, included, posted>>

\* Mutant: an answer that was lost counts as a refusal by the node.
SendLostAsRejected(c) ==
    LET status == Status(call[c].tx)
    IN  /\ call[c].pc = "send"
        /\ posted' = IF status = "PENDING" THEN posted \cup {call[c].tx} ELSE posted
        /\ Goto(c, "rejected") \/ Goto(c, "poll")
        /\ UNCHANGED <<now, seq, included>>

\* Only ERROR ends the call; the other statuses are polled for.  The answer
\* may be lost after the node took the envelope, or the request before.
Send(c) ==
    LET status == Status(call[c].tx)
    IN  /\ call[c].pc = "send"
        /\ \/ /\ posted' = IF status = "PENDING" THEN posted \cup {call[c].tx} ELSE posted
              /\ \/ Goto(c, IF status = "ERROR" THEN "rejected" ELSE "poll")
                 \/ Goto(c, "lost")
           \/ Goto(c, "lost") /\ posted' = posted
        /\ UNCHANGED <<now, seq, included>>

\* waitForTx reads once more than it retries; the helper's loop does not.
LastTry(c) == call[c].tries = IF call[c].via = "freighter" THEN MaxPolls ELSE MaxPolls - 1

\* The node does not know the transaction, or not yet.
NotFound(c) ==
    IF LastTry(c)
    THEN IF call[c].via = "freighter" THEN ContractErr(c, "failed", NoCode)
         ELSE Goto(c, "unconfirmed")
    ELSE call' = [call EXCEPT ![c].tries = @ + 1]

Found(c) ==
    /\ call[c].tx \in DOMAIN included
    /\ IF included[call[c].tx].ok
       THEN call' = [call EXCEPT ![c].pc = "ok", ![c].ledger = included[call[c].tx].ledger]
       ELSE ContractErr(c, "failed", NoCode)

Poll(c) ==
    /\ call[c].pc = "poll"
    /\ NotFound(c) \/ Found(c)
    /\ UNCHANGED <<now, seq, included, posted>>

\* An RPC request that throws ends the call.
RpcFails(c) ==
    /\ call[c].pc \in {"account", "simulate", "poll"}
    /\ Goto(c, "lost")
    /\ UNCHANGED <<now, seq, included, posted>>

Next ==
    \/ Tick
    \/ \E e \in posted : Include(e) \/ Drop(e)
    \/ \E c \in Calls :
          \/ \E via \in Routes, a \in Accounts, op \in Ops : Begin(c, via, a, op)
          \/ GetAccount(c) \/ Simulate(c) \/ Sign(c) \/ Send(c) \/ Poll(c) \/ RpcFails(c)

Spec == Init /\ [][Next]_vars

-----------------------------------------------------------------------------
\* Types.
TypeOK ==
    /\ now \in Nat /\ seq \in [Accounts -> Nat]
    /\ posted \subseteq Envelopes /\ DOMAIN included \subseteq Envelopes
    /\ \A e \in DOMAIN included : included[e] \in [ok : BOOLEAN, ledger : Nat]
    /\ call \in [Calls -> [pc : Steps \cup Answers \cup {"idle"}, via : Routes,
                           from : Accounts \cup {""}, op : Ops \cup {""},
                           tx : Envelopes \cup {NoTx}, tries : 0..MaxPolls,
                           code : Ops \cup {NoCode}, ledger : Nat]]

\* The success a caller sees is the ledger's: its envelope was applied, with
\* its operation, in the ledger the answer names (writeAt's return).
SuccessIsApplied ==
    \A c \in Calls : call[c].pc = "ok" =>
        /\ call[c].tx \in DOMAIN included
        /\ included[call[c].tx] = [ok |-> TRUE, ledger |-> call[c].ledger]
        /\ call[c].tx.op = call[c].op /\ call[c].tx.from = call[c].from

MayHaveSent == {"poll", "ok", "failed", "unconfirmed", "lost"}

\* Whatever reaches the node or the ledger is a call's that was signed and
\* did not end refused, unsigned or rejected: those errors promise that
\* nothing was written, however the calls race (writeAt's early throws).
EffectsAreOwned ==
    \A e \in posted \cup DOMAIN included :
        \E c \in Calls : call[c].tx = e /\ call[c].pc \in MayHaveSent
=============================================================================
