-------------------------- MODULE PlaygroundProofs --------------------------
(***************************************************************************)
(* Proofs about the playground, for any accounts, codes, references and    *)
(* bounds: what is answered is the ledger's, what is shown was true of the *)
(* contract, and a card sends what it shows.                               *)
(*                                                                         *)
(* Each part has an inductive invariant over its own variables; OneRuns    *)
(* says that a step of the whole is a step of one part, the variables of   *)
(* the others standing still.                                              *)
(***************************************************************************)
EXTENDS MCPlayground, SetLemmas, SequenceTheorems

-----------------------------------------------------------------------------
(* One part at a time                                                      *)

RunsAlone == part = "alone" /\ Alone!Next
RunsStore == part # "alone" /\ Store!Next

\* A step of the whole is one of the client, or leaves the client as it is;
\* and so for every part.
LEMMA OneRuns ==
    [Next]_vars =>
        /\ part' = part
        /\ Client!Next \/ UNCHANGED clientVars
        /\ RunsStore \/ RunsAlone \/ UNCHANGED storeVars
        /\ Redeem!Next \/ UNCHANGED redeemVars
        /\ Cards!Next \/ UNCHANGED cardsVars
        /\ Register!Next \/ UNCHANGED registerVars
        /\ Settle!Next \/ UNCHANGED settleVars
        /\ Verify!Next \/ UNCHANGED verifyVars
<1> SUFFICES ASSUME [Next]_vars
             PROVE  /\ part' = part
                    /\ Client!Next \/ UNCHANGED clientVars
                    /\ RunsStore \/ RunsAlone \/ UNCHANGED storeVars
                    /\ Redeem!Next \/ UNCHANGED redeemVars
                    /\ Cards!Next \/ UNCHANGED cardsVars
                    /\ Register!Next \/ UNCHANGED registerVars
                    /\ Settle!Next \/ UNCHANGED settleVars
                    /\ Verify!Next \/ UNCHANGED verifyVars
  OBVIOUS
<1>1. CASE ClientStep
  BY <1>1, Zenon DEF ClientStep
<1>2. CASE StoreStep
  <2>1. part # "alone"
    BY <1>2 DEF StoreStep
  <2>. QED
    BY <1>2, <2>1, Zenon DEF StoreStep, RunsStore
<1>3. CASE AloneStep
  BY <1>3, Zenon DEF AloneStep, RunsAlone
<1>4. CASE RedeemStep
  BY <1>4, Zenon DEF RedeemStep
<1>5. CASE CardsStep
  BY <1>5, Zenon DEF CardsStep
<1>6. CASE RegisterStep
  BY <1>6, Zenon DEF RegisterStep
<1>7. CASE SettleStep
  BY <1>7, Zenon DEF SettleStep
<1>8. CASE VerifyStep
  BY <1>8, Zenon DEF VerifyStep
<1>9. CASE UNCHANGED vars
  BY <1>9, Zenon DEF vars
<1>. QED
  BY <1>1, <1>2, <1>3, <1>4, <1>5, <1>6, <1>7, <1>8, <1>9, Zenon DEF Next

-----------------------------------------------------------------------------
(* The client of the SDK                                                   *)

\* What a call has put together so far.
ClientCalls ==
    \A c \in Calls :
        /\ clientCall[c].pc = "account" => clientCall[c].from \in Accounts /\ clientCall[c].op \in Ops
        /\ clientCall[c].pc \in {"simulate", "sign", "send", "poll", "ok"} =>
              /\ clientCall[c].tx \in Client!Envelopes
              /\ clientCall[c].tx.op = clientCall[c].op /\ clientCall[c].tx.from = clientCall[c].from
        /\ clientCall[c].via = "keypair" => clientCall[c].tries < MaxPolls

\* Sequence numbers are used up: no envelope can be applied a second time.
ClientUsed == IsFiniteSet(DOMAIN included) /\ \A e \in DOMAIN included : e.seq <= seq[e.from]

ClientInv ==
    /\ Client!TypeOK /\ ClientCalls /\ ClientUsed
    /\ Client!SuccessIsApplied /\ Client!EffectsAreOwned

LEMMA ClientBounds ==
    OnceOps \subseteq Ops /\ NoCode \notin Ops /\ Timeout \in Nat /\ MaxPolls \in Nat /\ MaxPolls > 0
BY PlaygroundAssumption DEF Client!ClientAssumption

LEMMA ClientCounts == \A S : Client!Cardinality(S) = Cardinality(S)
BY DEF Client!Cardinality, Cardinality

LEMMA ClientIdles ==
    Client!Idle \in [pc : Client!Steps \cup Client!Answers \cup {"idle"}, via : Client!Routes,
                    from : Accounts \cup {""}, op : Ops \cup {""},
                    tx : Client!Envelopes \cup {NoTx}, tries : 0..MaxPolls,
                    code : Ops \cup {NoCode}, ledger : Nat]
<1>1. 0 \in 0..MaxPolls
  BY ClientBounds
<1>. QED
  BY <1>1 DEF Client!Idle, Client!Routes

LEMMA ClientBegins == Client!Init => ClientInv
<1> SUFFICES ASSUME Client!Init PROVE ClientInv
  OBVIOUS
<1>1. DOMAIN included = {} /\ posted = {}
  BY DEF Client!Init
<1>2. Client!TypeOK
  BY <1>1, ClientIdles DEF Client!Init, Client!TypeOK
<1>3. ClientCalls
  <2>1. \A c \in Calls : clientCall[c].pc = "idle" /\ clientCall[c].via = "freighter"
    BY DEF Client!Init, Client!Idle
  <2>. QED
    BY <2>1 DEF ClientCalls
<1>4. ClientUsed
  BY <1>1, FS_EmptySet DEF ClientUsed
<1>5. Client!SuccessIsApplied /\ Client!EffectsAreOwned
  <2>1. \A c \in Calls : clientCall[c].pc # "ok"
    BY DEF Client!Init, Client!Idle
  <2>. QED
    BY <1>1, <2>1 DEF Client!SuccessIsApplied, Client!EffectsAreOwned
<1>. QED
  BY <1>2, <1>3, <1>4, <1>5 DEF ClientInv

\* What happens to the ledger and the node leaves every call as it is.
LEMMA LedgerSteps ==
    ASSUME ClientInv, Client!Tick \/ \E e \in posted : Client!Include(e) \/ Client!Drop(e)
    PROVE  ClientInv'
<1>1. CASE Client!Tick
  <2>1. now' \in Nat
    <3>1. now \in Nat /\ now' = now + 1
      BY <1>1, Zenon DEF Client!Tick, ClientInv, Client!TypeOK
    <3>. QED
      BY <3>1
  <2>. QED
    BY <1>1, <2>1, Zenon DEF Client!Tick, ClientInv, Client!TypeOK, ClientCalls, ClientUsed,
              Client!SuccessIsApplied, Client!EffectsAreOwned
<1>2. ASSUME NEW e \in posted, Client!Drop(e) PROVE ClientInv'
  BY <1>2 DEF Client!Drop, ClientInv, Client!TypeOK, ClientCalls, ClientUsed,
              Client!SuccessIsApplied, Client!EffectsAreOwned
<1>3. ASSUME NEW e \in posted, Client!Include(e) PROVE ClientInv'
  <2>1. /\ clientCall' = clientCall /\ now' = now /\ posted' = posted \ {e}
        /\ seq' = [seq EXCEPT ![e.from] = @ + 1] /\ e.seq = seq[e.from] + 1
    BY <1>3 DEF Client!Include, Client!Valid
  <2>2. e \in Client!Envelopes /\ e.from \in Accounts /\ e.seq \in Nat /\ seq \in [Accounts -> Nat]
    BY DEF ClientInv, Client!TypeOK, Client!Envelopes
  <2>3. \A x \in DOMAIN included : x.from \in Accounts /\ x.seq \in Nat /\ x.seq <= seq[x.from]
    BY DEF ClientInv, Client!TypeOK, Client!Envelopes, ClientUsed
  <2>4. e \notin DOMAIN included
    BY <2>1, <2>2, <2>3
  <2>5. /\ DOMAIN included' = DOMAIN included \cup {e}
        /\ \A x \in DOMAIN included : included'[x] = included[x]
        /\ included'[e] = [ok |-> ~ Client!Refuses(e.op), ledger |-> Client!Ledger + 1]
    BY <1>3, <2>4 DEF Client!Include
  <2>6. Client!Ledger \in Nat
    BY FS_CardinalityType, ClientCounts DEF ClientInv, ClientUsed, Client!Ledger
  <2>7. Client!TypeOK'
    <3>1. seq' \in [Accounts -> Nat]
      BY <2>1, <2>2
    <3>2. included'[e] \in [ok : BOOLEAN, ledger : Nat]
      BY <2>5, <2>6
    <3>. QED
      BY <2>1, <2>2, <2>5, <3>1, <3>2 DEF ClientInv, Client!TypeOK
  <2>8. ClientCalls'
    BY <2>1 DEF ClientInv, ClientCalls
  <2>9. ClientUsed'
    <3>1. IsFiniteSet(DOMAIN included')
      BY <2>5, FS_AddElement DEF ClientInv, ClientUsed
    <3>2. \A x \in DOMAIN included' : x.seq <= seq'[x.from]
      BY <2>1, <2>2, <2>3, <2>5
    <3>. QED
      BY <3>1, <3>2 DEF ClientUsed
  <2>10. Client!SuccessIsApplied'
    BY <2>1, <2>5 DEF ClientInv, Client!SuccessIsApplied
  <2>11. Client!EffectsAreOwned'
    BY <2>1, <2>5 DEF ClientInv, Client!EffectsAreOwned
  <2>. QED
    BY <2>7, <2>8, <2>9, <2>10, <2>11 DEF ClientInv
<1>. QED
  BY <1>1, <1>2, <1>3

CallRecord ==
    [pc : Client!Steps \cup Client!Answers \cup {"idle"}, via : Client!Routes,
     from : Accounts \cup {""}, op : Ops \cup {""}, tx : Client!Envelopes \cup {NoTx},
     tries : 0..MaxPolls, code : Ops \cup {NoCode}, ledger : Nat]

\* What the invariant says of one call.
CallFits(k) ==
    /\ k \in CallRecord
    /\ k.pc = "account" => k.from \in Accounts /\ k.op \in Ops
    /\ k.pc \in {"simulate", "sign", "send", "poll", "ok"} =>
          k.tx \in Client!Envelopes /\ k.tx.op = k.op /\ k.tx.from = k.from
    /\ k.via = "keypair" => k.tries < MaxPolls
    /\ k.pc = "ok" => /\ k.tx \in DOMAIN included
                      /\ included[k.tx] = [ok |-> TRUE, ledger |-> k.ledger]

LEMMA CallsFit == ASSUME ClientInv, NEW c \in Calls PROVE CallFits(clientCall[c])
<1>1. clientCall[c] \in CallRecord
  BY Zenon DEF ClientInv, Client!TypeOK, CallRecord
<1>. QED
  BY <1>1 DEF ClientInv, ClientCalls, Client!SuccessIsApplied, CallFits

\* A call that may have sent something keeps its envelope, and what it sends is
\* its own.
LEMMA OneCallMoves ==
    ASSUME ClientInv, NEW c \in Calls, NEW k, CallFits(k),
           clientCall' = [clientCall EXCEPT ![c] = k], UNCHANGED <<now, seq, included>>,
           clientCall[c].pc \in Client!MayHaveSent =>
               k.tx = clientCall[c].tx /\ k.pc \in Client!MayHaveSent,
           \/ posted' = posted
           \/ /\ posted' = posted \cup {k.tx}
              /\ k.tx \in Client!Envelopes /\ k.pc \in Client!MayHaveSent
    PROVE  ClientInv'
<1>1. clientCall \in [Calls -> CallRecord]
  BY Zenon DEF ClientInv, Client!TypeOK, CallRecord
<1>2. \A d \in Calls : clientCall'[d] = IF d = c THEN k ELSE clientCall[d]
  BY <1>1
<1>3. clientCall' \in [Calls -> CallRecord]
  BY <1>1 DEF CallFits
<1>4. posted' \subseteq Client!Envelopes
  BY Zenon DEF ClientInv, Client!TypeOK
<1>5. Client!TypeOK'
  BY <1>3, <1>4, Zenon DEF ClientInv, Client!TypeOK, CallRecord
<1>6. ClientCalls'
  BY <1>2 DEF ClientInv, ClientCalls, CallFits
<1>7. ClientUsed'
  BY Zenon DEF ClientInv, ClientUsed
<1>8. Client!SuccessIsApplied'
  <2> DEFINE Applied(x) == /\ x.tx \in DOMAIN included /\ included[x.tx] = [ok |-> TRUE, ledger |-> x.ledger]
                           /\ x.tx.op = x.op /\ x.tx.from = x.from
  <2>1. \A d \in Calls : clientCall[d].pc = "ok" => Applied(clientCall[d])
    BY Zenon DEF ClientInv, Client!SuccessIsApplied
  <2>2. k.pc = "ok" => Applied(k)
    BY DEF CallFits
  <2> HIDE DEF Applied
  <2>3. \A d \in Calls : clientCall'[d].pc = "ok" => Applied(clientCall'[d])
    BY <1>2, <2>1, <2>2
  <2>4. included' = included
    OBVIOUS
  <2>. QED
    BY <2>3, <2>4, Zenon DEF Client!SuccessIsApplied, Applied
<1>9. Client!EffectsAreOwned'
  <2>1. \A e \in posted \cup DOMAIN included :
            \E d \in Calls : clientCall'[d].tx = e /\ clientCall'[d].pc \in Client!MayHaveSent
    BY <1>2 DEF ClientInv, Client!EffectsAreOwned
  <2>2. posted' # posted => clientCall'[c].tx = k.tx /\ clientCall'[c].pc \in Client!MayHaveSent
    BY <1>2
  <2>. QED
    BY <2>1, <2>2 DEF Client!EffectsAreOwned
<1>. QED
  BY <1>5, <1>6, <1>7, <1>8, <1>9 DEF ClientInv

\* A step that only moves the call on.
LEMMA CallGoes ==
    ASSUME ClientInv, NEW c \in Calls, NEW step \in Client!Steps \cup Client!Answers,
           step # "account", step # "ok",
           step \in {"simulate", "sign", "send", "poll"} =>
               clientCall[c].pc \in {"simulate", "sign", "send", "poll"},
           clientCall[c].pc \in Client!MayHaveSent => step \in Client!MayHaveSent,
           NEW code \in Ops \cup {NoCode}
    PROVE  /\ CallFits([clientCall[c] EXCEPT !.pc = step])
           /\ CallFits([clientCall[c] EXCEPT !.pc = step, !.code = code])
<1>1. CallFits(clientCall[c])
  BY CallsFit
<1>2. /\ [clientCall[c] EXCEPT !.pc = step] \in CallRecord
      /\ [clientCall[c] EXCEPT !.pc = step, !.code = code] \in CallRecord
  BY <1>1 DEF CallFits, CallRecord
<1>. QED
  BY <1>1, <1>2 DEF CallFits, CallRecord

\* Refusals, errors and waits: the call goes on or ends without a result.
LEMMA CallTurns ==
    ASSUME ClientInv, NEW c \in Calls, NEW step \in Client!Steps \cup Client!Answers,
           step # "account", step # "ok",
           step \in {"simulate", "sign", "send", "poll"} =>
               clientCall[c].pc \in {"simulate", "sign", "send", "poll"},
           clientCall[c].pc \in Client!MayHaveSent => step \in Client!MayHaveSent,
           NEW code \in Ops \cup {NoCode},
           Client!Goto(c, step) \/ Client!ContractErr(c, step, code),
           UNCHANGED <<now, seq, included>>,
           \/ posted' = posted
           \/ /\ posted' = posted \cup {clientCall[c].tx}
              /\ clientCall[c].tx \in Client!Envelopes /\ step \in Client!MayHaveSent
    PROVE  ClientInv'
<1> DEFINE k == [clientCall[c] EXCEPT !.pc = step]
           l == [clientCall[c] EXCEPT !.pc = step, !.code = code]
<1>1. CallFits(k) /\ CallFits(l)
  BY CallGoes
<1>2. clientCall[c] \in CallRecord
  BY CallsFit DEF CallFits
<1>3. k.pc = step /\ k.tx = clientCall[c].tx /\ l.pc = step /\ l.tx = clientCall[c].tx
  BY <1>2 DEF CallRecord
<1>4. CASE Client!Goto(c, step)
  <2>1. clientCall' = [clientCall EXCEPT ![c] = k]
    BY <1>4 DEF Client!Goto
  <2> HIDE DEF k
  <2>. QED
    BY <1>1, <1>3, <2>1, OneCallMoves
<1>5. CASE Client!ContractErr(c, step, code)
  <2>1. clientCall' = [clientCall EXCEPT ![c] = l]
    BY <1>5 DEF Client!ContractErr
  <2> HIDE DEF l
  <2>. QED
    BY <1>1, <1>3, <2>1, OneCallMoves
<1>. QED
  BY <1>4, <1>5

LEMMA CallBegins ==
    ASSUME ClientInv, NEW c \in Calls,
           \/ \E via \in Client!Routes, a \in Accounts, op \in Ops : Client!Begin(c, via, a, op)
           \/ Client!GetAccount(c)
    PROVE  ClientInv'
<1>0. clientCall[c] \in CallRecord /\ CallFits(clientCall[c])
  BY CallsFit DEF CallFits
<1>1. ASSUME NEW via \in Client!Routes, NEW a \in Accounts, NEW op \in Ops,
             Client!Begin(c, via, a, op)
      PROVE  ClientInv'
  <2> DEFINE k == [Client!Idle EXCEPT !.pc = "account", !.via = via, !.from = a, !.op = op]
  <2>1. k \in CallRecord
    BY ClientIdles DEF CallRecord, Client!Steps
  <2>2. k.pc = "account" /\ k.from = a /\ k.op = op /\ k.tries = 0
    BY DEF Client!Idle
  <2>3. CallFits(k)
    BY <2>1, <2>2, ClientBounds DEF CallFits
  <2>4. clientCall[c].pc = "idle" /\ clientCall' = [clientCall EXCEPT ![c] = k]
        /\ UNCHANGED <<now, seq, included, posted>>
    BY <1>1 DEF Client!Begin
  <2> HIDE DEF k
  <2>. QED
    BY <2>3, <2>4, OneCallMoves DEF Client!MayHaveSent
<1>2. CASE Client!GetAccount(c)
  <2> DEFINE tx == [from |-> clientCall[c].from, seq |-> seq[clientCall[c].from] + 1,
                    op |-> clientCall[c].op, until |-> now + Timeout]
             k == [clientCall[c] EXCEPT !.pc = "simulate", !.tx = tx]
  <2>1. clientCall[c].pc = "account" /\ clientCall[c].from \in Accounts /\ clientCall[c].op \in Ops
    BY <1>0, <1>2 DEF CallFits, Client!GetAccount
  <2>2. seq[clientCall[c].from] + 1 \in Nat /\ now + Timeout \in Nat
    <3>1. seq[clientCall[c].from] \in Nat /\ now \in Nat
      BY <2>1 DEF ClientInv, Client!TypeOK
    <3>. QED
      BY <3>1, ClientBounds
  <2>3. tx \in Client!Envelopes /\ tx.op = clientCall[c].op /\ tx.from = clientCall[c].from
    BY <2>1, <2>2 DEF Client!Envelopes
  <2> HIDE DEF tx
  <2>4. k \in CallRecord
    BY <1>0, <2>3 DEF CallRecord, Client!Steps
  <2>5. /\ k.pc = "simulate" /\ k.tx = tx /\ k.op = clientCall[c].op /\ k.from = clientCall[c].from
        /\ k.via = clientCall[c].via /\ k.tries = clientCall[c].tries
    BY <1>0 DEF CallRecord
  <2>6. CallFits(k)
    BY <1>0, <2>3, <2>4, <2>5 DEF CallFits
  <2>7. clientCall' = [clientCall EXCEPT ![c] = k] /\ UNCHANGED <<now, seq, included, posted>>
    BY <1>2 DEF Client!GetAccount, tx
  <2> HIDE DEF k
  <2>. QED
    BY <2>1, <2>6, <2>7, OneCallMoves DEF Client!MayHaveSent
<1>. QED
  BY <1>1, <1>2

LEMMA CallSends ==
    ASSUME ClientInv, NEW c \in Calls,
           Client!Simulate(c) \/ Client!Sign(c) \/ Client!Send(c) \/ Client!RpcFails(c)
    PROVE  ClientInv'
<1>0. clientCall[c] \in CallRecord /\ CallFits(clientCall[c])
  BY CallsFit DEF CallFits
<1> USE DEF Client!Steps, Client!Answers, Client!MayHaveSent
<1>1. CASE Client!Simulate(c)
  <2>1. clientCall[c].pc = "simulate" /\ UNCHANGED <<now, seq, included, posted>>
    BY <1>1 DEF Client!Simulate
  <2>2. CASE Client!Refuses(clientCall[c].op)
    <3>1. Client!Verdict(c) \in Ops \cup {NoCode}
      BY <2>2, ClientBounds DEF Client!Refuses, Client!Verdict
    <3>2. Client!ContractErr(c, "refused", Client!Verdict(c))
      BY <1>1, <2>2 DEF Client!Simulate
    <3>. QED
      BY <2>1, <3>1, <3>2, CallTurns
  <2>3. CASE ~ Client!Refuses(clientCall[c].op)
    <3>1. Client!Goto(c, "sign")
      BY <1>1, <2>3 DEF Client!Simulate
    <3>. QED
      BY <2>1, <3>1, CallTurns
  <2>. QED
    BY <2>2, <2>3
<1>2. CASE Client!Sign(c)
  <2>1. clientCall[c].pc = "sign" /\ UNCHANGED <<now, seq, included, posted>>
        /\ (Client!Goto(c, "send") \/ Client!Goto(c, "cancelled"))
    BY <1>2 DEF Client!Sign
  <2>. QED
    BY <2>1, CallTurns
<1>3. CASE Client!Send(c)
  <2>1. clientCall[c].pc = "send" /\ UNCHANGED <<now, seq, included>>
    BY <1>3 DEF Client!Send
  <2>2. clientCall[c].tx \in Client!Envelopes
    BY <1>0, <2>1 DEF CallFits
  <2>3. \/ posted' = posted /\ Client!Goto(c, "rejected")
        \/ /\ posted' = posted \/ posted' = posted \cup {clientCall[c].tx}
           /\ Client!Goto(c, "poll") \/ Client!Goto(c, "lost")
    <3>1. Client!Status(clientCall[c].tx) = "ERROR" => Client!Status(clientCall[c].tx) # "PENDING"
      OBVIOUS
    <3> HIDE DEF Client!Steps, Client!Answers, Client!MayHaveSent
    <3>. QED
      BY <1>3, <3>1 DEF Client!Send
  <2>4. CASE posted' = posted /\ Client!Goto(c, "rejected")
    BY <2>1, <2>4, CallTurns
  <2>5. CASE /\ posted' = posted \/ posted' = posted \cup {clientCall[c].tx}
             /\ Client!Goto(c, "poll")
    BY <2>1, <2>2, <2>5, CallTurns
  <2>6. CASE /\ posted' = posted \/ posted' = posted \cup {clientCall[c].tx}
             /\ Client!Goto(c, "lost")
    BY <2>1, <2>2, <2>6, CallTurns
  <2>. QED
    BY <2>3, <2>4, <2>5, <2>6
<1>4. CASE Client!RpcFails(c)
  <2>1. /\ clientCall[c].pc \in {"account", "simulate", "poll"} /\ UNCHANGED <<now, seq, included, posted>>
        /\ Client!Goto(c, "lost")
    BY <1>4 DEF Client!RpcFails
  <2>. QED
    BY <2>1, CallTurns
<1>. QED
  BY <1>1, <1>2, <1>3, <1>4

LEMMA CallPolls ==
    ASSUME ClientInv, NEW c \in Calls, Client!Poll(c)
    PROVE  ClientInv'
<1>0. clientCall[c] \in CallRecord /\ CallFits(clientCall[c])
  BY CallsFit DEF CallFits
<1>1. clientCall[c].pc = "poll" /\ UNCHANGED <<now, seq, included, posted>>
  BY DEF Client!Poll
<1> USE DEF Client!Steps, Client!Answers, Client!MayHaveSent
<1>2. CASE Client!ContractErr(c, "failed", NoCode) \/ Client!Goto(c, "unconfirmed")
  BY <1>1, <1>2, CallTurns
<1>3. CASE /\ ~ Client!LastTry(c)
           /\ clientCall' = [clientCall EXCEPT ![c].tries = @ + 1]
  <2> DEFINE k == [clientCall[c] EXCEPT !.tries = @ + 1]
  <2>1. /\ clientCall[c].via \in {"freighter", "keypair"} /\ clientCall[c].tries \in 0..MaxPolls
        /\ clientCall[c].via = "keypair" => clientCall[c].tries < MaxPolls
    BY <1>0 DEF CallFits, CallRecord, Client!Routes
  <2>2. clientCall[c].tries # (IF clientCall[c].via = "freighter" THEN MaxPolls ELSE MaxPolls - 1)
    BY <1>3 DEF Client!LastTry
  <2>3. /\ clientCall[c].tries + 1 \in 0..MaxPolls
        /\ clientCall[c].via = "keypair" => clientCall[c].tries + 1 < MaxPolls
    BY <2>1, <2>2, ClientBounds
  <2>4. k \in CallRecord
    BY <1>0, <2>3 DEF CallRecord
  <2>5. /\ k.pc = "poll" /\ k.tx = clientCall[c].tx /\ k.op = clientCall[c].op
        /\ k.from = clientCall[c].from /\ k.via = clientCall[c].via
        /\ k.tries = clientCall[c].tries + 1
    BY <1>0, <1>1 DEF CallRecord
  <2>6. CallFits(k)
    BY <1>0, <1>1, <2>3, <2>4, <2>5 DEF CallFits
  <2>7. clientCall' = [clientCall EXCEPT ![c] = k]
    BY <1>3
  <2> HIDE DEF k
  <2>. QED
    BY <1>1, <2>5, <2>6, <2>7, OneCallMoves
<1>4. CASE /\ clientCall[c].tx \in DOMAIN included /\ included[clientCall[c].tx].ok
           /\ clientCall' = [clientCall EXCEPT ![c].pc = "ok",
                                               ![c].ledger = included[clientCall[c].tx].ledger]
  <2> DEFINE k == [clientCall[c] EXCEPT !.pc = "ok", !.ledger = included[clientCall[c].tx].ledger]
  <2>1. included[clientCall[c].tx] \in [ok : BOOLEAN, ledger : Nat]
    BY <1>4 DEF ClientInv, Client!TypeOK
  <2>2. k \in CallRecord
    BY <1>0, <2>1 DEF CallRecord
  <2>3. /\ k.pc = "ok" /\ k.tx = clientCall[c].tx /\ k.op = clientCall[c].op
        /\ k.from = clientCall[c].from /\ k.via = clientCall[c].via
        /\ k.tries = clientCall[c].tries /\ k.ledger = included[clientCall[c].tx].ledger
    BY <1>0 DEF CallRecord
  <2>4. included[k.tx] = [ok |-> TRUE, ledger |-> k.ledger]
    BY <1>4, <2>1, <2>3
  <2>5. CallFits(k)
    BY <1>0, <1>1, <1>4, <2>2, <2>3, <2>4 DEF CallFits
  <2>6. clientCall' = [clientCall EXCEPT ![c] = k]
    BY <1>4
  <2> HIDE DEF k
  <2>. QED
    BY <1>1, <2>3, <2>5, <2>6, OneCallMoves
<1>. QED
  BY <1>2, <1>3, <1>4, Zenon DEF Client!Poll, Client!NotFound, Client!Found

LEMMA ClientKeeps == ClientInv /\ (Client!Next \/ UNCHANGED clientVars) => ClientInv'
<1>1. ASSUME ClientInv, Client!Next PROVE ClientInv'
  BY <1>1, LedgerSteps, CallBegins, CallSends, CallPolls, Zenon DEF Client!Next
<1>2. ASSUME ClientInv, UNCHANGED clientVars PROVE ClientInv'
  BY <1>2, Zenon DEF clientVars, ClientInv, Client!TypeOK, ClientCalls, ClientUsed,
                     Client!SuccessIsApplied, Client!EffectsAreOwned
<1>. QED
  BY <1>1, <1>2

-----------------------------------------------------------------------------
(* The Audit & settle card                                                 *)

SettleInv == Settle!TypeOK /\ Settle!TermsMatchTally

LEMMA SettleBegins == Settle!Init => SettleInv
<1> SUFFICES ASSUME Settle!Init PROVE SettleInv
  OBVIOUS
<1>1. shown = Settle!Nothing /\ views = {} /\ writes = {} /\ settleBusy = "" /\ key \in TallyKeys
  BY DEF Settle!Init
<1>. QED
  BY <1>1 DEF SettleInv, Settle!TypeOK, Settle!TermsMatchTally, Settle!Nothing

Reading == [key : TallyKeys, read : 0..3]

\* A view reads three things, one after the other.
LEMMA ReadingStarts == ASSUME NEW k \in TallyKeys PROVE [key |-> k, read |-> 0] \in Reading
BY DEF Reading

LEMMA ReadingGoesOn ==
    ASSUME NEW v \in Reading, v.read < 3 PROVE [v EXCEPT !.read = @ + 1] \in Reading
<1>1. v.read \in 0..3
  BY DEF Reading
<1>2. v.read + 1 \in 0..3
  BY <1>1
<1>. QED
  BY <1>2 DEF Reading

LEMMA SettleSteps == ASSUME SettleInv, Settle!Next PROVE SettleInv'
<1>0. key \in TallyKeys /\ \A v \in views : v \in Reading
  BY DEF SettleInv, Settle!TypeOK, Reading
<1>a. \A v \in views : v.read < 3 => [v EXCEPT !.read = @ + 1] \in Reading
  BY <1>0, ReadingGoesOn
<1> USE DEF SettleInv, Settle!TypeOK, Settle!TermsMatchTally
<1>1. CASE Settle!Connect
  BY <1>1, Zenon DEF Settle!Connect
<1>2. ASSUME NEW k \in TallyKeys, Settle!Edit(k) PROVE SettleInv'
  BY <1>2, Zenon DEF Settle!Edit
<1>3. CASE Settle!View
  <2>1. [key |-> key, read |-> 0] \in [key : TallyKeys, read : 0..3]
    BY <1>0, ReadingStarts, Zenon DEF Reading
  <2>2. key' = key /\ writes' = writes /\ shown' = Settle!Nothing
        /\ views' = views \cup {[key |-> key, read |-> 0]}
    BY <1>3 DEF Settle!View
  <2>. QED
    BY <2>1, <2>2 DEF Settle!Nothing
<1>4. ASSUME NEW v \in views, Settle!Read(v) PROVE SettleInv'
  <2>1. [v EXCEPT !.read = @ + 1] \in [key : TallyKeys, read : 0..3]
    BY <1>4, <1>a, Zenon DEF Settle!Read, Reading
  <2>2. /\ key' = key /\ writes' = writes /\ shown' = shown /\ settleBusy' = settleBusy
        /\ views' = (views \ {v}) \cup {[v EXCEPT !.read = @ + 1]}
    BY <1>4 DEF Settle!Read
  <2>. QED
    BY <2>1, <2>2
<1>5. ASSUME NEW v \in views, Settle!Viewed(v) PROVE SettleInv'
  BY <1>5 DEF Settle!Viewed, Settle!AllOf
<1>6. CASE Settle!Fails
  BY <1>6 DEF Settle!Fails
<1>7. ASSUME NEW kind \in {"settle", "bump"}, Settle!Write(kind) PROVE SettleInv'
  <2>1. [kind |-> kind, key |-> key] \in [kind : {"settle", "bump"}, key : TallyKeys]
    OBVIOUS
  <2>2. /\ key' = key /\ views' = views /\ shown' = shown
        /\ writes' = writes \cup {[kind |-> kind, key |-> key]}
    BY <1>7 DEF Settle!Write
  <2>. QED
    BY <2>1, <2>2
<1>8. ASSUME NEW x \in writes, Settle!Written(x) PROVE SettleInv'
  BY <1>8 DEF Settle!Written
<1>9. CASE Settle!Close
  BY <1>9 DEF Settle!Close, Settle!Nothing
<1>. QED
  BY <1>1, <1>2, <1>3, <1>4, <1>5, <1>6, <1>7, <1>8, <1>9, Zenon DEF Settle!Next

LEMMA SettleKeeps == SettleInv /\ (Settle!Next \/ UNCHANGED settleVars) => SettleInv'
<1>1. ASSUME SettleInv, UNCHANGED settleVars PROVE SettleInv'
  BY <1>1, Zenon DEF settleVars, SettleInv, Settle!TypeOK, Settle!TermsMatchTally
<1>. QED
  BY <1>1, SettleSteps

-----------------------------------------------------------------------------
(* The Register shared code card                                           *)

\* A call under way is one the form can make.
RegisterAsks ==
    \A c \in asked :
        /\ c.kind = "register" => (c.token => c.attr # "nobody") /\ (~ c.token => c.rate = 0)
        /\ c.kind = "commit" => (c.attr # "nobody" => c.per = c.count)

RegisterInv == Register!TypeOK /\ RegisterAsks

LEMMA RegisterBounds == MaxCount \in Nat /\ Blank \notin Nat
BY PlaygroundAssumption DEF Register!RegisterAssumption

LEMMA RegisterBegins == Register!Init => RegisterInv
<1> SUFFICES ASSUME Register!Init PROVE RegisterInv
  OBVIOUS
<1>0. MaxCount \in Register!Amounts
  BY RegisterBounds DEF Register!Amounts
<1>1. form \in Register!Forms
  BY <1>0 DEF Register!Init, Register!Forms, Register!Recipients
<1>. QED
  BY <1>1 DEF Register!Init, RegisterInv, Register!TypeOK, RegisterAsks, Register!NoCall

\* What the form sends is well-formed.
LEMMA FormSends ==
    ASSUME form \in Register!Forms
    PROVE  LET r == Register!RegisterArgs(form)
               c == Register!CommitArgs(form)
           IN  /\ r \in Register!Registers /\ r.kind = "register"
               /\ (r.token => r.attr # "nobody") /\ (~ r.token => r.rate = 0)
               /\ c \in Register!Commits /\ c.kind = "commit"
               /\ Register!CanCommit(form) => (c.attr # "nobody" => c.per = c.count)
<1>1. form.attr \in Register!Recipients /\ form.token \in BOOLEAN
      /\ form.rate \in Register!Amounts \cup {Blank}
      /\ form.count \in Register!Amounts /\ form.attrCount \in Register!Amounts
  BY DEF Register!Forms
<1>2. 0 \in Register!Amounts
  BY RegisterBounds DEF Register!Amounts
<1>3. Register!RegisterArgs(form) \in Register!Registers
  BY <1>1, <1>2 DEF Register!RegisterArgs, Register!Registers
<1>4. Register!CommitArgs(form) \in Register!Commits
  BY <1>1, <1>2 DEF Register!CommitArgs, Register!Commits
<1>. QED
  BY <1>1, <1>3, <1>4 DEF Register!RegisterArgs, Register!CommitArgs, Register!CanCommit

LEMMA RegisterSteps == ASSUME RegisterInv, Register!Next PROVE RegisterInv'
<1> USE DEF RegisterInv, Register!TypeOK
<1>1. CASE Register!Connect
  <2>1. form' \in Register!Forms /\ registerWallet' \in BOOLEAN
    BY <1>1 DEF Register!Connect, Register!Forms, Register!Recipients
  <2>. QED
    BY <1>1, <2>1, Zenon DEF Register!Connect, Register!contract, RegisterAsks
<1>2. ASSUME NEW f \in Register!Forms, Register!Fill(f) PROVE RegisterInv'
  BY <1>2, Zenon DEF Register!Fill, Register!contract, RegisterAsks
<1>3. ASSUME NEW kind \in {"register", "commit"}, Register!Run(kind) PROVE RegisterInv'
  <2>1. /\ UNCHANGED <<registerWallet, form, registerCode, committed, expired>>
        /\ \/ asked' = asked \cup {Register!RegisterArgs(form)}
           \/ asked' = asked \cup {Register!CommitArgs(form)} /\ Register!CanCommit(form)
    BY <1>3, Zenon DEF Register!Run, Register!contract
  <2> DEFINE r == Register!RegisterArgs(form)
             c == Register!CommitArgs(form)
  <2>2. /\ r \in Register!Registers /\ r.kind = "register"
        /\ (r.token => r.attr # "nobody") /\ (~ r.token => r.rate = 0)
        /\ c \in Register!Commits /\ c.kind = "commit"
        /\ Register!CanCommit(form) => (c.attr # "nobody" => c.per = c.count)
    BY FormSends
  <2> HIDE DEF r, c
  <2>3. asked' = asked \cup {r} \/ (asked' = asked \cup {c} /\ Register!CanCommit(form))
    BY <2>1 DEF r, c
  <2>4. Register!TypeOK'
    BY <2>1, <2>2, <2>3
  <2>5. RegisterAsks'
    <3>1. \A x \in asked' : x \in asked \/ x = r \/ (x = c /\ Register!CanCommit(form))
      BY <2>3
    <3>. QED
      BY <2>2, <3>1 DEF RegisterAsks
  <2>. QED
    BY <2>4, <2>5
<1>4. ASSUME NEW c \in asked, Register!Accepted(c) PROVE RegisterInv'
  <2>1. c \in Register!Registers \cup Register!Commits
    OBVIOUS
  <2>2. /\ UNCHANGED <<registerWallet, form, expired>> /\ asked' = asked \ {c} /\ registerBusy' = ""
        /\ registerCode' = (IF c.kind = "register" THEN c ELSE registerCode)
        /\ committed' = (committed \/ c.kind = "commit")
    BY <1>4 DEF Register!Accepted
  <2>3. c.kind = "register" => c \in Register!Registers /\ c # Register!NoCall
    BY <2>1 DEF Register!Registers, Register!Commits, Register!NoCall
  <2>4. c.kind # "register" => registerCode # Register!NoCall
    BY <1>4 DEF Register!Accepted, Register!Errors, Register!CommitErrors
  <2>5. committed' \in BOOLEAN /\ (committed' => committed \/ c.kind = "commit")
    BY <2>2, Zenon
  <2>6. c.kind = "commit" => c.kind # "register"
    OBVIOUS
  <2>7. registerCode' \in Register!Registers \cup {Register!NoCall}
        /\ (committed' => registerCode' # Register!NoCall)
    BY <2>2, <2>3, <2>4, <2>5, <2>6, Zenon
  <2>8. Register!TypeOK'
    BY <2>2, <2>5, <2>7, Zenon
  <2>. QED
    BY <2>2, <2>8 DEF RegisterAsks
<1>5. ASSUME NEW c \in asked, Register!Refused(c) PROVE RegisterInv'
  BY <1>5, Zenon DEF Register!Refused, Register!contract, RegisterAsks
<1>6. CASE Register!Meanwhile
  <2>1. /\ UNCHANGED <<registerWallet, form, asked, registerBusy>>
        /\ registerCode' \in Register!Registers \cup {Register!NoCall}
        /\ committed' \in BOOLEAN /\ expired' \in BOOLEAN
        /\ committed' => registerCode' # Register!NoCall
    <3>1. \A c \in Register!Registers : c # Register!NoCall
      <4>1. \A c \in Register!Registers : c.kind = "register"
        BY DEF Register!Registers
      <4>2. Register!NoCall.kind = "none"
        BY DEF Register!NoCall
      <4>. QED
        BY <4>1, <4>2
    <3>5. UNCHANGED <<registerWallet, form, asked, registerBusy>>
      BY <1>6, Zenon DEF Register!Meanwhile
    <3>2. CASE registerCode = Register!NoCall /\ (\E c \in Register!Registers : registerCode' = c)
               /\ UNCHANGED <<committed, expired>>
      BY <3>1, <3>2, <3>5
    <3>3. CASE registerCode # Register!NoCall /\ committed' = TRUE /\ UNCHANGED <<registerCode, expired>>
      BY <3>3, <3>5
    <3>4. CASE expired' = TRUE /\ UNCHANGED <<registerCode, committed>>
      BY <3>4, <3>5
    <3>6. \/ registerCode = Register!NoCall /\ (\E c \in Register!Registers : registerCode' = c)
             /\ UNCHANGED <<committed, expired>>
          \/ registerCode # Register!NoCall /\ committed' = TRUE /\ UNCHANGED <<registerCode, expired>>
          \/ expired' = TRUE /\ UNCHANGED <<registerCode, committed>>
      BY <1>6, Zenon DEF Register!Meanwhile
    <3>. QED
      BY <3>2, <3>3, <3>4, <3>5, <3>6, Zenon
  <2>. QED
    BY <2>1, Zenon DEF RegisterAsks
<1>. QED
  BY <1>1, <1>2, <1>3, <1>4, <1>5, <1>6, Zenon DEF Register!Next

LEMMA RegisterKeeps == RegisterInv /\ (Register!Next \/ UNCHANGED registerVars) => RegisterInv'
<1>1. ASSUME RegisterInv, UNCHANGED registerVars PROVE RegisterInv'
  BY <1>1, Zenon DEF registerVars, RegisterInv, Register!TypeOK, RegisterAsks
<1>. QED
  BY <1>1, RegisterSteps

\* What the Code tab and the Run tab compute is the same.
LEMMA SnippetsAreCalls == RegisterInv => Register!SnippetIsCall
BY DEF RegisterInv, Register!TypeOK, Register!Forms, Register!SnippetIsCall, Register!Snippet,
       Register!RegisterArgs

\* A call of the form keeps the rules that it enforces.
LEMMA FormsEnforce == RegisterInv => Register!RefusalsAreForeign
<1> SUFFICES ASSUME RegisterInv, NEW c \in asked, NEW camp \in Register!Campaigns,
                    NEW name \in Register!Names
             PROVE  /\ "InvalidSettlement" \in Register!Errors(c, camp, name)
                           => c.token /\ c.rate \in {0, Blank}
                    /\ Register!Errors(c, camp, name) \cap {"AttributionMismatch", "InvalidTally"} # {}
                           => c.attr # registerCode.attr
  BY Zenon DEF Register!RefusalsAreForeign
<1>1. c \in Register!Registers \cup Register!Commits
  BY DEF RegisterInv, Register!TypeOK
<1>2. CASE c \in Register!Registers
  <2>1. c.kind = "register" /\ c.token \in BOOLEAN
    BY <1>2 DEF Register!Registers
  <2>2. (c.token => c.attr # "nobody") /\ (~ c.token => c.rate = 0)
    BY <2>1 DEF RegisterInv, RegisterAsks
  <2>3. ~ Register!SettlementFits(c) => c.token /\ c.rate \in {0, Blank}
    BY <2>1, <2>2, Zenon DEF Register!SettlementFits
  <2>4. "InvalidSettlement" \in Register!RegisterErrors(c, camp, name) => ~ Register!SettlementFits(c)
    BY DEF Register!RegisterErrors
  <2>5. Register!RegisterErrors(c, camp, name) \cap {"AttributionMismatch", "InvalidTally"} = {}
    BY DEF Register!RegisterErrors
  <2>6. Register!Errors(c, camp, name) = Register!RegisterErrors(c, camp, name)
    BY <2>1, Zenon DEF Register!Errors
  <2>. QED
    BY <2>3, <2>4, <2>5, <2>6, Zenon
<1>3. CASE c \in Register!Commits
  <2>1. c.kind = "commit" /\ c.kind # "register"
    BY <1>3 DEF Register!Commits
  <2>2. c.attr # "nobody" => c.per = c.count
    BY <2>1 DEF RegisterInv, RegisterAsks
  <2>3. "InvalidSettlement" \notin Register!CommitErrors(c, camp, name)
    BY DEF Register!CommitErrors
  <2>4. Register!CommitErrors(c, camp, name) \cap {"AttributionMismatch", "InvalidTally"} # {}
            => \/ c.attr \notin {"nobody", registerCode.attr}
               \/ registerCode.attr # "nobody" /\ c.per # c.count
    BY DEF Register!CommitErrors
  <2>5. Register!Errors(c, camp, name) = Register!CommitErrors(c, camp, name)
    BY <2>1, Zenon DEF Register!Errors
  <2>. QED
    BY <2>2, <2>3, <2>4, <2>5
<1>. QED
  BY <1>1, <1>2, <1>3

-----------------------------------------------------------------------------
(* The Verify card                                                         *)

\* What a lookup has read of a coupon was so, and if it was burned before the
\* lookup began, the lookup reads that.
VerifyReads ==
    \A l \in pending :
        /\ l.token = "burned" => fate[l.code] = "burned"
        /\ l.token = "live" => fate[l.code] # "unknown"
        /\ l.spent => fate[l.code] = "burned" /\ l.token \in {Verify!Unasked, "burned"}

\* Lookups that do not overlap: one at most is under way, with nothing shown.
VerifyAlone ==
    ~ overlapped =>
        /\ \A l, m \in pending : l = m
        /\ \A l \in pending : l.n = made
        /\ pending # {} => data = Verify!NoData /\ error = 0

VerifyInv ==
    /\ Verify!TypeOK /\ VerifyReads /\ VerifyAlone
    /\ Verify!BadNewsIsFinal /\ Verify!BurnsAreSeen /\ Verify!ShownIsLast

Lookups(m) ==
    [n : 1..m, code : Codes, spent : BOOLEAN, token : Verify!Fates \cup {Verify!Unasked}]
Answers(m) == [n : 1..m, code : Codes, spent : BOOLEAN, status : Verify!Statuses]

LEMMA LookupBounds == MaxLookups \in Nat
BY PlaygroundAssumption DEF Verify!VerifyAssumption

LEMMA MoreLookups ==
    ASSUME NEW m \in 0..MaxLookups
    PROVE  /\ m < MaxLookups => /\ m + 1 \in 0..MaxLookups /\ m + 1 \in 1..(m + 1)
                                /\ 1..m \subseteq 1..(m + 1)
           /\ 1..m \subseteq 0..m /\ 0 \in 0..m /\ 0 \in 0..(m + 1)
BY LookupBounds

LEMMA VerifyBegins == Verify!Init => VerifyInv
<1> SUFFICES ASSUME Verify!Init PROVE VerifyInv
  OBVIOUS
<1>1. 0 \in 0..MaxLookups /\ 0 \in 0..0
  BY LookupBounds
<1>2. fate \in [Codes -> Verify!Fates] /\ late \subseteq Codes
  BY DEF Verify!Init, Verify!Fates
<1>3. made = 0 /\ pending = {} /\ overlapped = FALSE /\ verifyBusy = FALSE
      /\ data = Verify!NoData /\ error = 0
  BY DEF Verify!Init
<1>. QED
  BY <1>1, <1>2, <1>3, Zenon DEF VerifyInv, Verify!TypeOK, VerifyReads, VerifyAlone,
     Verify!BadNewsIsFinal, Verify!BurnsAreSeen, Verify!ShownIsLast

LEMMA CouponsChange ==
    ASSUME VerifyInv, NEW c \in Codes, Verify!Change(c) PROVE VerifyInv'
<1>1. UNCHANGED <<made, pending, overlapped, verifyBusy, data, error>>
  BY DEF Verify!Change, Verify!card
<1>2. fate \in [Codes -> Verify!Fates] /\ late \subseteq Codes
  BY DEF VerifyInv, Verify!TypeOK
<1>3. fate' \in [Codes -> Verify!Fates] /\ late' \subseteq Codes /\ late \subseteq late'
  BY <1>2 DEF Verify!Change, Verify!Fates
<1>4. \A x \in Codes : /\ fate[x] = "burned" => fate'[x] = "burned"
                       /\ fate[x] # "unknown" => fate'[x] # "unknown"
  BY <1>2 DEF Verify!Change
<1>5. Verify!TypeOK'
  BY <1>1, <1>3, Zenon DEF VerifyInv, Verify!TypeOK
<1>6. VerifyReads'
  <2>1. \A l \in pending : l.code \in Codes
    BY DEF VerifyInv, Verify!TypeOK
  <2>. QED
    BY <1>1, <1>4, <2>1, Zenon DEF VerifyInv, VerifyReads
<1>7. VerifyAlone' /\ Verify!BurnsAreSeen' /\ Verify!ShownIsLast'
  BY <1>1, Zenon DEF VerifyInv, VerifyAlone, Verify!BurnsAreSeen, Verify!ShownIsLast
<1>8. Verify!BadNewsIsFinal'
  <2>1. data # Verify!NoData => data.code \in Codes
    BY DEF VerifyInv, Verify!TypeOK
  <2>. QED
    BY <1>1, <1>3, <1>4, <2>1, Zenon DEF VerifyInv, Verify!BadNewsIsFinal
<1>. QED
  BY <1>5, <1>6, <1>7, <1>8 DEF VerifyInv

LEMMA LookupStarts ==
    ASSUME VerifyInv, NEW c \in Codes, Verify!Lookup(c) PROVE VerifyInv'
<1> DEFINE l == [n |-> made + 1, code |-> c, spent |-> fate[c] = "burned", token |-> Verify!Unasked]
<1>0. made \in 0..MaxLookups
  BY DEF VerifyInv, Verify!TypeOK
<1>1. /\ made < MaxLookups /\ made' = made + 1 /\ pending' = pending \cup {l}
      /\ overlapped' = (overlapped \/ pending # {}) /\ verifyBusy' = TRUE /\ error' = 0
      /\ data' = Verify!NoData /\ fate' = fate /\ late' = late
  BY DEF Verify!Lookup
<1>2. /\ made' \in 0..MaxLookups /\ made + 1 \in 1..made' /\ 0 \in 0..made'
      /\ 1..made \subseteq 1..made'
  BY <1>0, <1>1, MoreLookups
<1>3. /\ l \in Lookups(made') /\ l.n = made' /\ l.token = Verify!Unasked
      /\ l.spent => fate[l.code] = "burned"
  BY <1>1, <1>2 DEF Lookups
<1> HIDE DEF l
<1>4. pending' \subseteq Lookups(made')
  BY <1>1, <1>2, <1>3 DEF Lookups, VerifyInv, Verify!TypeOK
<1>5. Verify!TypeOK'
  BY <1>1, <1>2, <1>3, <1>4, Zenon DEF VerifyInv, Verify!TypeOK, Lookups
<1>6. VerifyReads'
  <2>1. l.token \notin {"burned", "live"}
    BY <1>3 DEF Verify!Unasked
  <2>. QED
    BY <1>1, <1>3, <2>1 DEF VerifyInv, VerifyReads
<1>7. VerifyAlone'
  <2>1. ~ overlapped' => pending' = {l}
    BY <1>1
  <2>. QED
    BY <1>1, <1>3, <2>1 DEF VerifyAlone
<1>8. Verify!BadNewsIsFinal' /\ Verify!BurnsAreSeen' /\ Verify!ShownIsLast'
  BY <1>1 DEF Verify!BadNewsIsFinal, Verify!BurnsAreSeen, Verify!ShownIsLast
<1>. QED
  BY <1>5, <1>6, <1>7, <1>8 DEF VerifyInv

LEMMA LookupReads ==
    ASSUME VerifyInv, NEW l \in pending, Verify!ReadToken(l) PROVE VerifyInv'
<1> DEFINE m == [l EXCEPT !.token = fate[l.code]]
<1>1. /\ l.token = Verify!Unasked /\ pending' = (pending \ {l}) \cup {m}
      /\ UNCHANGED <<fate, late, made, overlapped, verifyBusy, data, error>>
  BY DEF Verify!ReadToken, Verify!card
<1>2. l \in Lookups(made) /\ fate \in [Codes -> Verify!Fates]
  BY Zenon DEF Lookups, VerifyInv, Verify!TypeOK
<1>3. /\ m \in Lookups(made) /\ m.n = l.n /\ m.code = l.code /\ m.spent = l.spent
      /\ m.token = fate[l.code]
  BY <1>2 DEF Lookups
<1> HIDE DEF m
<1>4. Verify!TypeOK'
  <2>1. pending' \subseteq Lookups(made) /\ pending' # {}
    BY <1>1, <1>3, Zenon DEF VerifyInv, Verify!TypeOK, Lookups
  <2>. QED
    BY <1>1, <2>1, Zenon DEF VerifyInv, Verify!TypeOK, Lookups
<1>5. VerifyReads'
  BY <1>1, <1>3 DEF VerifyInv, VerifyReads
<1>6. VerifyAlone'
  BY <1>1, <1>3 DEF VerifyInv, VerifyAlone
<1>7. Verify!BadNewsIsFinal' /\ Verify!BurnsAreSeen' /\ Verify!ShownIsLast'
  BY <1>1, Zenon DEF VerifyInv, Verify!BadNewsIsFinal, Verify!BurnsAreSeen, Verify!ShownIsLast
<1>. QED
  BY <1>4, <1>5, <1>6, <1>7 DEF VerifyInv

\* What a lookup shows of what it has read.
LEMMA StatusIs ==
    ASSUME NEW e \in BOOLEAN, NEW t \in {"live", "burned"}
    PROVE  /\ Verify!Status(t, e) \in Verify!Statuses
           /\ Verify!Status(t, e) = "burned" <=> t = "burned"
           /\ Verify!Status(t, e) = "expired" => t = "live" /\ e
BY DEF Verify!Status, Verify!Statuses

LEMMA LookupEnds ==
    ASSUME VerifyInv, NEW l \in pending, Verify!Show(l) \/ Verify!Fails(l) PROVE VerifyInv'
<1>0. made \in 0..MaxLookups /\ error \in 0..made
  BY DEF VerifyInv, Verify!TypeOK
<1>1. l \in Lookups(made)
  BY Zenon DEF Lookups, VerifyInv, Verify!TypeOK
<1>2. /\ pending' = pending \ {l} /\ verifyBusy' = FALSE
      /\ UNCHANGED <<fate, late, made, overlapped>>
  BY DEF Verify!Show, Verify!Fails
<1>3. ~ overlapped => /\ pending' = {} /\ l.n = made /\ data = Verify!NoData /\ error = 0
  BY <1>2 DEF VerifyInv, VerifyAlone
<1>4. VerifyReads' /\ VerifyAlone'
  <2>1. VerifyReads'
    BY <1>2, Zenon DEF VerifyInv, VerifyReads
  <2>2. VerifyAlone'
    BY <1>2, <1>3 DEF VerifyAlone
  <2>. QED
    BY <2>1, <2>2
<1>5. CASE Verify!Fails(l)
  <2>1. error' = l.n /\ data' = data
    BY <1>5 DEF Verify!Fails
  <2>2. l.n \in 0..made
    BY <1>0, <1>1, MoreLookups DEF Lookups
  <2>3. Verify!TypeOK'
    BY <1>2, <2>1, <2>2, Zenon DEF VerifyInv, Verify!TypeOK
  <2>4. Verify!BadNewsIsFinal' /\ Verify!BurnsAreSeen'
    BY <1>2, <2>1, Zenon DEF VerifyInv, Verify!BadNewsIsFinal, Verify!BurnsAreSeen
  <2>5. Verify!ShownIsLast'
    BY <1>2, <1>3, <2>1 DEF Verify!ShownIsLast
  <2>. QED
    BY <1>4, <2>3, <2>4, <2>5 DEF VerifyInv
<1>6. CASE Verify!Show(l)
  <2>1. l.token \in {"live", "burned"} /\ error' = error
    BY <1>6 DEF Verify!Show
  <2>2. PICK campaign \in BOOLEAN :
            data' = [n |-> l.n, code |-> l.code, spent |-> l.spent,
                     status |-> Verify!Status(l.token, campaign /\ l.code \in late)]
    BY <1>6, Zenon DEF Verify!Show
  <2> DEFINE e == campaign /\ l.code \in late
  <2>3. e \in BOOLEAN
    BY Zenon
  <2> DEFINE status == Verify!Status(l.token, e)
  <2>4. /\ status \in Verify!Statuses
        /\ status = "burned" <=> l.token = "burned"
        /\ status = "expired" => l.token = "live" /\ l.code \in late
    BY <2>1, <2>3, StatusIs, Zenon
  <2>5. data' = [n |-> l.n, code |-> l.code, spent |-> l.spent, status |-> status]
    BY <2>2, Zenon
  <2> HIDE DEF status, e
  <2>6. /\ data' \in Answers(made) /\ data'.n = l.n /\ data'.code = l.code
        /\ data'.spent = l.spent /\ data'.status = status
    BY <1>1, <2>4, <2>5 DEF Answers, Lookups
  <2>7. Verify!TypeOK'
    BY <1>2, <2>1, <2>6, Zenon DEF VerifyInv, Verify!TypeOK, Answers
  <2>8. Verify!BadNewsIsFinal'
    BY <1>2, <2>4, <2>6, Zenon DEF VerifyInv, VerifyReads, Verify!BadNewsIsFinal
  <2>9. Verify!BurnsAreSeen'
    <3>1. l.spent => l.token \in {Verify!Unasked, "burned"}
      BY Zenon DEF VerifyInv, VerifyReads
    <3>2. l.token # Verify!Unasked
      BY <2>1 DEF Verify!Unasked
    <3>. QED
      BY <2>4, <2>6, <3>1, <3>2, Zenon DEF Verify!BurnsAreSeen
  <2>10. Verify!ShownIsLast'
    BY <1>2, <1>3, <2>1, <2>6 DEF Verify!ShownIsLast
  <2>. QED
    BY <1>4, <2>7, <2>8, <2>9, <2>10 DEF VerifyInv
<1>. QED
  BY <1>5, <1>6

LEMMA VerifyKeeps == VerifyInv /\ (Verify!Next \/ UNCHANGED verifyVars) => VerifyInv'
<1>1. ASSUME VerifyInv, Verify!Dismiss PROVE VerifyInv'
  <2>1. /\ UNCHANGED <<fate, late, made, pending, overlapped, verifyBusy>>
        /\ data' \in {data, Verify!NoData} /\ error' \in {error, 0}
    BY <1>1 DEF Verify!Dismiss
  <2>2. error' \in 0..made
    <3>1. made \in 0..MaxLookups /\ error \in 0..made
      BY <1>1 DEF VerifyInv, Verify!TypeOK
    <3>. QED
      BY <2>1, <3>1, MoreLookups
  <2>3. Verify!TypeOK'
    BY <1>1, <2>1, <2>2, Zenon DEF VerifyInv, Verify!TypeOK
  <2>4. VerifyReads' /\ Verify!BadNewsIsFinal' /\ Verify!BurnsAreSeen'
    BY <1>1, <2>1, Zenon DEF VerifyInv, VerifyReads, Verify!BadNewsIsFinal, Verify!BurnsAreSeen
  <2>5. VerifyAlone' /\ Verify!ShownIsLast'
    BY <1>1, <2>1 DEF VerifyInv, VerifyAlone, Verify!ShownIsLast
  <2>. QED
    BY <2>3, <2>4, <2>5 DEF VerifyInv
<1>2. ASSUME VerifyInv, UNCHANGED verifyVars PROVE VerifyInv'
  BY <1>2, Zenon DEF verifyVars, VerifyInv, Verify!TypeOK, VerifyReads, VerifyAlone,
     Verify!BadNewsIsFinal, Verify!BurnsAreSeen, Verify!ShownIsLast
<1>3. ASSUME VerifyInv, Verify!Next PROVE VerifyInv'
  BY <1>1, <1>3, CouponsChange, LookupStarts, LookupReads, LookupEnds, Zenon
     DEF Verify!Next, Verify!Button, Verify!Enter
<1>. QED
  BY <1>2, <1>3

-----------------------------------------------------------------------------
(* The Redeem card                                                         *)

\* No commitment is to a nonce that was not drawn.
RedeemTypes ==
    /\ Redeem!TypeOK /\ failed \in BOOLEAN
    /\ hash # Redeem!Zero32 => hash[2] <= drawn
    /\ \A d \in digests : d.nonce <= drawn
    /\ sent # <<>> => sent[1].hash \in Redeem!Commitments /\ sent[1].hash[2] <= drawn
    /\ burned \in Seq([code : Codes, hash : Redeem!Commitments, answered : BOOLEAN])
    /\ \A i \in DOMAIN burned : burned[i].hash[2] <= drawn
    /\ sent # <<>> => sent[1].code \in Codes

\* A digest that counts is one of the form as it is.
RedeemLive ==
    \A d \in digests : d.live => d.ref = ref /\ d.nonce = nonce /\ ~ failed

\* The nonce of a receipt is never the one of the form again.
RedeemRetired ==
    \A i \in DOMAIN burned : burned[i].answered => nonce = 0 \/ burned[i].hash[2] < nonce

RedeemInv == RedeemTypes /\ RedeemLive /\ RedeemRetired /\ Redeem!HashMatchesInputs

LEMMA RedeemBounds == MaxNonce \in Nat /\ MaxNonce > 0 /\ Blank \in Refs
BY PlaygroundAssumption DEF Redeem!CardAssumption

Digests == [ref : Refs \ {Blank}, nonce : 1..MaxNonce, live : BOOLEAN]

\* A commitment is to a reference that is not blank, and a nonce.
LEMMA CommitmentsAre ==
    ASSUME NEW r \in Refs \ {Blank}, NEW n \in 1..MaxNonce
    PROVE  LET h == Redeem!Commitment(r, n)
           IN  h \in Redeem!Commitments /\ h # Redeem!Zero32 /\ h[1] = r /\ h[2] = n
BY DEF Redeem!Commitment, Redeem!Commitments, Redeem!Zero32

LEMMA CommitmentParts ==
    ASSUME NEW h \in Redeem!Commitments
    PROVE  h[1] \in Refs \ {Blank} /\ h[2] \in 1..MaxNonce /\ h # Redeem!Zero32
           /\ h = Redeem!Commitment(h[1], h[2])
BY DEF Redeem!Commitment, Redeem!Commitments, Redeem!Zero32

LEMMA RedeemBegins == Redeem!Init => RedeemInv
<1> SUFFICES ASSUME Redeem!Init PROVE RedeemInv
  OBVIOUS
<1>1. 0 \in 0..0 /\ 1 \in 0..1 /\ 1 \in 1..MaxNonce /\ 0 \in 0..MaxNonce /\ 1 \in 0..MaxNonce /\ 1 <= 1
  BY RedeemBounds
<1>2. /\ redeemCode \in Codes /\ ref \in Refs \ {Blank} /\ nonce \in {0, 1} /\ drawn = nonce
      /\ hash = Redeem!Zero32 /\ failed = FALSE /\ sent = <<>> /\ panel = "none" /\ burned = <<>>
      /\ digests = {[ref |-> ref, nonce |-> n, live |-> TRUE] : n \in {nonce} \ {0}}
  BY DEF Redeem!Init
<1>3. /\ digests \subseteq Digests
      /\ \A d \in digests : d.live /\ d.ref = ref /\ d.nonce = nonce /\ d.nonce <= drawn
      /\ nonce # 0 => \E d \in digests : d.live
  <2>1. CASE nonce = 0
    <3>1. digests = {}
      BY <1>2, <2>1
    <3>. QED
      BY <2>1, <3>1
  <2>2. CASE nonce = 1
    <3> DEFINE d == [ref |-> ref, nonce |-> 1, live |-> TRUE]
    <3>1. digests = {d}
      BY <1>2, <2>2
    <3>2. d \in Digests /\ d.live /\ d.ref = ref /\ d.nonce = nonce /\ d.nonce <= drawn
      BY <1>1, <1>2, <2>2 DEF Digests
    <3> HIDE DEF d
    <3>. QED
      BY <3>1, <3>2
  <2>. QED
    BY <1>2, <2>1, <2>2
<1>4. DOMAIN burned = {} /\ burned \in Seq([code : Codes, hash : Redeem!Commitments, answered : BOOLEAN])
  BY <1>2
<1>5. Redeem!TypeOK
  <2>1. nonce \in 0..drawn /\ drawn \in 0..MaxNonce
    BY <1>1, <1>2
  <2>. QED
    BY <1>2, <1>3, <1>4, <2>1, Zenon DEF Redeem!TypeOK, Digests
<1>6. RedeemTypes
  BY <1>2, <1>3, <1>4, <1>5 DEF RedeemTypes
<1>7. RedeemLive /\ RedeemRetired
  BY <1>2, <1>3, <1>4 DEF RedeemLive, RedeemRetired
<1>8. Redeem!HashMatchesInputs
  BY <1>2, <1>3 DEF Redeem!HashMatchesInputs, Redeem!Settled
<1>. QED
  BY <1>6, <1>7, <1>8 DEF RedeemInv

\* After the effect, every digest that counts is one of the new inputs, and if
\* none counts there is nothing to hash and nothing shown.
LEMMA Rehashes ==
    ASSUME digests \subseteq Digests, NEW r \in Refs, NEW n \in 0..MaxNonce, Redeem!Rehash(r, n)
    PROVE  /\ failed' = FALSE /\ hash' \in {hash, Redeem!Zero32}
           /\ digests' \subseteq Digests
           /\ \A d \in digests' : d.live => d.ref = r /\ d.nonce = n
           /\ \A d \in digests' : d.nonce = n \/ \E e \in digests : d.nonce = e.nonce
           /\ (\A d \in digests' : ~ d.live) => (r = Blank \/ n = 0) /\ hash' = Redeem!Zero32
<1> DEFINE stale == {[d EXCEPT !.live = FALSE] : d \in digests}
           fresh == [ref |-> r, nonce |-> n, live |-> TRUE]
<1>1. stale \subseteq Digests /\ \A d \in stale : ~ d.live /\ \E e \in digests : d.nonce = e.nonce
  BY DEF Digests
<1>2. r # Blank /\ n # 0 => fresh \in Digests
  <2>1. n # 0 => n \in 1..MaxNonce
    BY RedeemBounds
  <2>. QED
    BY <2>1 DEF Digests
<1>3. fresh.live /\ fresh.ref = r /\ fresh.nonce = n
  OBVIOUS
<1>4. /\ failed' = FALSE
      /\ IF r = Blank \/ n = 0 THEN hash' = Redeem!Zero32 /\ digests' = stale
         ELSE hash' = hash /\ digests' = stale \cup {fresh}
  BY DEF Redeem!Rehash
<1> HIDE DEF stale, fresh
<1>5. CASE r = Blank \/ n = 0
  BY <1>1, <1>4, <1>5
<1>6. CASE ~ (r = Blank \/ n = 0)
  BY <1>1, <1>2, <1>3, <1>4, <1>6
<1>. QED
  BY <1>5, <1>6

\* The digest that counts is the only one that does.
LEMMA OneLive ==
    ASSUME RedeemInv, NEW d \in digests, NEW e \in digests, d.live, e.live
    PROVE  e = d
<1>1. d \in Digests /\ e \in Digests
  BY Zenon DEF RedeemInv, RedeemTypes, Redeem!TypeOK, Digests
<1>2. d.ref = e.ref /\ d.nonce = e.nonce
  BY DEF RedeemInv, RedeemLive
<1>3. d.live = TRUE /\ e.live = TRUE
  BY <1>1 DEF Digests
<1>. QED
  BY <1>1, <1>2, <1>3 DEF Digests

\* What does not touch the inputs, the commitment and the contract.
LEMMA RedeemAside ==
    ASSUME RedeemInv, UNCHANGED <<ref, nonce, drawn, hash, failed, digests, burned>>,
           redeemCode' \in Codes, panel' \in {"none", "result", "error"},
           sent' # <<>> => /\ sent'[1].hash \in Redeem!Commitments /\ sent'[1].hash[2] <= drawn
                           /\ sent'[1].code \in Codes
    PROVE  RedeemInv'
<1>1. Redeem!TypeOK'
  BY Zenon DEF RedeemInv, RedeemTypes, Redeem!TypeOK, Redeem!Commitments, Redeem!Zero32
<1>2. RedeemTypes'
  BY <1>1, Zenon DEF RedeemInv, RedeemTypes, Redeem!Commitments, Redeem!Zero32
<1>3. RedeemLive' /\ RedeemRetired' /\ Redeem!HashMatchesInputs'
  BY Zenon DEF RedeemInv, RedeemLive, RedeemRetired, Redeem!HashMatchesInputs, Redeem!Settled
<1>. QED
  BY <1>2, <1>3 DEF RedeemInv

LEMMA FormSteps ==
    ASSUME RedeemInv,
           \/ Redeem!Lock \/ Redeem!Submit \/ Redeem!Error \/ Redeem!Dismiss
           \/ \E c \in Codes : Redeem!TypeCode(c)
    PROVE  RedeemInv'
<1>0. /\ redeemCode \in Codes /\ panel \in {"none", "result", "error"}
      /\ hash \in Redeem!Commitments \cup {Redeem!Zero32}
      /\ hash # Redeem!Zero32 => hash[2] <= drawn
      /\ sent # <<>> => sent[1].hash \in Redeem!Commitments /\ sent[1].hash[2] <= drawn
      /\ sent # <<>> => sent[1].code \in Codes
  BY Zenon DEF RedeemInv, RedeemTypes, Redeem!TypeOK
<1>1. CASE Redeem!Lock
  BY <1>0, <1>1, RedeemAside, Zenon DEF Redeem!Lock, Redeem!inputs
<1>2. CASE Redeem!Submit
  <2>1. /\ hash # Redeem!Zero32 /\ sent' = <<[code |-> redeemCode, hash |-> hash]>>
        /\ panel' = "none" /\ redeemCode' = redeemCode
        /\ UNCHANGED <<ref, nonce, drawn, hash, failed, digests, burned>>
    BY <1>2 DEF Redeem!Submit, Redeem!CanRedeem, Redeem!inputs
  <2>2. sent'[1].hash = hash /\ sent'[1].code = redeemCode
    BY <2>1
  <2>. QED
    BY <1>0, <2>1, <2>2, RedeemAside
<1>3. CASE Redeem!Error
  <2>1. /\ sent' = <<>> /\ panel' = "error" /\ redeemCode' = redeemCode
        /\ UNCHANGED <<ref, nonce, drawn, hash, failed, digests, burned>>
    BY <1>3 DEF Redeem!Error, Redeem!inputs
  <2>. QED
    BY <1>0, <2>1, RedeemAside
<1>4. CASE Redeem!Dismiss
  <2>1. /\ sent' = sent /\ panel' = "none" /\ redeemCode' = redeemCode
        /\ UNCHANGED <<ref, nonce, drawn, hash, failed, digests, burned>>
    BY <1>4 DEF Redeem!Dismiss, Redeem!inputs
  <2>. QED
    BY <1>0, <2>1, RedeemAside
<1>5. ASSUME NEW c \in Codes, Redeem!TypeCode(c) PROVE RedeemInv'
  BY <1>0, <1>5, RedeemAside DEF Redeem!TypeCode
<1>. QED
  BY <1>1, <1>2, <1>3, <1>4, <1>5

LEMMA DigestSteps ==
    ASSUME RedeemInv, NEW d \in digests, Redeem!Digest(d) \/ Redeem!DigestFails(d)
    PROVE  RedeemInv'
<1>1. /\ UNCHANGED <<redeemCode, ref, nonce, drawn, sent, panel, burned>>
      /\ digests' = digests \ {d}
      /\ \/ hash' = (IF d.live THEN Redeem!Commitment(d.ref, d.nonce) ELSE hash) /\ failed' = failed
         \/ /\ hash' = (IF d.live THEN Redeem!Zero32 ELSE hash)
            /\ failed' = (failed \/ d.live)
  BY DEF Redeem!Digest, Redeem!DigestFails
<1>2. d \in Digests /\ d.nonce <= drawn
  BY Zenon DEF RedeemInv, RedeemTypes, Redeem!TypeOK, Digests
<1>3. LET h == Redeem!Commitment(d.ref, d.nonce)
      IN  h \in Redeem!Commitments /\ h # Redeem!Zero32 /\ h[2] = d.nonce
  BY <1>2, CommitmentsAre DEF Digests
<1>4. hash' \in Redeem!Commitments \cup {Redeem!Zero32}
  BY <1>1, <1>3 DEF RedeemInv, RedeemTypes, Redeem!TypeOK
<1>5. hash' # Redeem!Zero32 => hash'[2] <= drawn
  <2>1. hash' = hash \/ hash' = Redeem!Zero32 \/ hash' = Redeem!Commitment(d.ref, d.nonce)
    BY <1>1
  <2>2. hash # Redeem!Zero32 => hash[2] <= drawn
    BY DEF RedeemInv, RedeemTypes
  <2>3. Redeem!Commitment(d.ref, d.nonce)[2] <= drawn
    BY <1>2, <1>3
  <2>. QED
    BY <2>1, <2>2, <2>3
<1>6. RedeemTypes'
  <2>1. Redeem!TypeOK'
    BY <1>1, <1>4, Zenon DEF RedeemInv, RedeemTypes, Redeem!TypeOK, Redeem!Commitments, Redeem!Zero32
  <2>. QED
    <3>1. failed' \in BOOLEAN
      BY <1>1, <1>2 DEF RedeemInv, RedeemTypes, Digests
    <3>. QED
      BY <1>1, <1>5, <2>1, <3>1, Zenon DEF RedeemInv, RedeemTypes, Redeem!Commitments, Redeem!Zero32
<1>7. d.live => \A e \in digests' : ~ e.live
  BY <1>1, OneLive
<1>8. RedeemLive'
  BY <1>1, <1>7 DEF RedeemInv, RedeemLive
<1>9. RedeemRetired'
  BY <1>1, Zenon DEF RedeemInv, RedeemRetired
<1>10. Redeem!HashMatchesInputs'
  <2>1. CASE d.live
    <3>1. d.ref = ref /\ d.nonce = nonce /\ ~ failed
      BY <2>1 DEF RedeemInv, RedeemLive
    <3>2. d.ref # Blank /\ d.nonce # 0
      BY <1>2, RedeemBounds DEF Digests
    <3>3. \/ hash' = Redeem!Commitment(ref, nonce) /\ failed' = failed
          \/ hash' = Redeem!Zero32 /\ failed' = TRUE
      BY <1>1, <2>1, <3>1
    <3>. QED
      BY <1>1, <3>1, <3>2, <3>3
         DEF Redeem!HashMatchesInputs, Redeem!Commitment, Redeem!Zero32
  <2>2. CASE ~ d.live
    <3>0. hash' = hash /\ failed' = failed
      BY <1>1, <2>2, Zenon DEF RedeemInv, RedeemTypes
    <3>1. hash' = hash /\ failed' = failed /\ (Redeem!Settled' => Redeem!Settled)
      BY <1>1, <2>2, <3>0 DEF Redeem!Settled
    <3>. QED
      BY <1>1, <3>1 DEF RedeemInv, Redeem!HashMatchesInputs, Redeem!Commitment, Redeem!Zero32
  <2>. QED
    BY <2>1, <2>2
<1>. QED
  BY <1>6, <1>8, <1>9, <1>10 DEF RedeemInv

\* The effect of a new reference or nonce, m nonces drawn by then.
LEMMA EffectRuns ==
    ASSUME RedeemInv, Redeem!Rehash(ref', nonce'), ref' \in Refs, nonce' \in 0..drawn',
           drawn' \in 0..MaxNonce, drawn <= drawn', redeemCode' = redeemCode,
           panel' \in {"none", "result", "error"}, sent' = sent \/ sent' = <<>>,
           burned' \in Seq([code : Codes, hash : Redeem!Commitments, answered : BOOLEAN]),
           DOMAIN burned' = DOMAIN burned, \A i \in DOMAIN burned : burned'[i].hash = burned[i].hash,
           RedeemRetired'
    PROVE  RedeemInv'
<1>0. /\ redeemCode \in Codes /\ drawn \in 0..MaxNonce /\ digests \subseteq Digests
      /\ hash \in Redeem!Commitments \cup {Redeem!Zero32}
  BY Zenon DEF RedeemInv, RedeemTypes, Redeem!TypeOK, Digests
<1>1. nonce' \in 0..MaxNonce /\ drawn \in Nat /\ drawn' \in Nat
  BY <1>0, RedeemBounds
<1>2. /\ failed' = FALSE /\ hash' \in {hash, Redeem!Zero32}
      /\ digests' \subseteq Digests
      /\ \A d \in digests' : d.live => d.ref = ref' /\ d.nonce = nonce'
      /\ \A d \in digests' : d.nonce = nonce' \/ \E e \in digests : d.nonce = e.nonce
      /\ (\A d \in digests' : ~ d.live) => (ref' = Blank \/ nonce' = 0) /\ hash' = Redeem!Zero32
  BY <1>0, <1>1, Rehashes
<1>3. Redeem!TypeOK'
  <2>1. hash' \in Redeem!Commitments \cup {Redeem!Zero32}
    BY <1>0, <1>2, Zenon
  <2>2. \A i \in DOMAIN burned' : burned'[i].hash \in Redeem!Commitments
    BY Zenon DEF RedeemInv, RedeemTypes, Redeem!TypeOK
  <2>. QED
    BY <1>0, <1>2, <2>1, <2>2, Zenon DEF Redeem!TypeOK, Redeem!Commitments, Redeem!Zero32, Digests
<1>4. hash' # Redeem!Zero32 => hash'[2] <= drawn'
  <2>1. hash' # Redeem!Zero32 => hash' = hash /\ hash[2] <= drawn /\ hash \in Redeem!Commitments
    BY <1>0, <1>2 DEF RedeemInv, RedeemTypes
  <2>2. ASSUME hash \in Redeem!Commitments PROVE hash[2] \in Nat
    <3>1. hash[2] \in 1..MaxNonce
      BY <2>2, CommitmentParts
    <3>. QED
      BY <3>1
  <2>3. hash \in Redeem!Commitments /\ hash[2] <= drawn => hash[2] <= drawn'
    BY <1>1, <2>2
  <2>. QED
    BY <2>1, <2>3, Zenon
<1>5. \A d \in digests' : d.nonce <= drawn'
  <2>1. \A d \in digests : d.nonce <= drawn /\ d.nonce \in Nat
    BY <1>0 DEF RedeemInv, RedeemTypes, Digests
  <2>2. nonce' <= drawn'
    OBVIOUS
  <2>3. \A d \in digests : d.nonce <= drawn'
    BY <1>1, <2>1
  <2>. QED
    BY <1>2, <2>2, <2>3
<1>6. sent' # <<>> => /\ sent'[1].hash \in Redeem!Commitments /\ sent'[1].hash[2] <= drawn'
                      /\ sent'[1].code \in Codes
  <2>1. sent' # <<>> => /\ sent' = sent /\ sent[1].hash \in Redeem!Commitments
                        /\ sent[1].hash[2] <= drawn /\ sent[1].code \in Codes
    BY DEF RedeemInv, RedeemTypes
  <2>2. ASSUME NEW h \in Redeem!Commitments, h[2] <= drawn PROVE h[2] <= drawn'
    <3>1. h[2] \in 1..MaxNonce
      BY CommitmentParts
    <3>. QED
      BY <1>1, <2>2, <3>1
  <2>. QED
    BY <2>1, <2>2
<1>7. \A i \in DOMAIN burned' : burned'[i].hash[2] <= drawn'
  <2>1. ASSUME NEW h \in Redeem!Commitments, h[2] <= drawn PROVE h[2] <= drawn'
    <3>1. h[2] \in 1..MaxNonce
      BY CommitmentParts
    <3>. QED
      BY <1>1, <2>1, <3>1
  <2>2. \A i \in DOMAIN burned : burned[i].hash \in Redeem!Commitments /\ burned[i].hash[2] <= drawn
    BY Zenon DEF RedeemInv, RedeemTypes, Redeem!TypeOK
  <2>. QED
    BY <2>1, <2>2
<1>8. RedeemTypes'
  BY <1>2, <1>3, <1>4, <1>5, <1>6, <1>7 DEF RedeemTypes, Redeem!Zero32
<1>9. RedeemLive'
  BY <1>2 DEF RedeemLive
<1>10. Redeem!HashMatchesInputs'
  BY <1>2 DEF Redeem!HashMatchesInputs, Redeem!Settled, Redeem!Zero32
<1>. QED
  BY <1>8, <1>9, <1>10 DEF RedeemInv

LEMMA RefTyped ==
    ASSUME RedeemInv, NEW r \in Refs, Redeem!TypeRef(r) PROVE RedeemInv'
<1>1. /\ ref' = r /\ Redeem!Rehash(r, nonce)
      /\ UNCHANGED <<redeemCode, nonce, drawn, sent, panel, burned>>
  BY DEF Redeem!TypeRef
<1>2. /\ nonce \in 0..drawn /\ drawn \in 0..MaxNonce /\ panel \in {"none", "result", "error"}
      /\ burned \in Seq([code : Codes, hash : Redeem!Commitments, answered : BOOLEAN])
  BY Zenon DEF RedeemInv, RedeemTypes, Redeem!TypeOK
<1>3. Redeem!Rehash(ref', nonce') /\ drawn <= drawn'
  BY <1>1, <1>2
<1>4. RedeemRetired'
  BY <1>1, Zenon DEF RedeemInv, RedeemRetired
<1>. QED
  BY <1>1, <1>2, <1>3, <1>4, EffectRuns

LEMMA CouponBurns ==
    ASSUME RedeemInv, Redeem!Burn PROVE RedeemInv'
<1> DEFINE b == [code |-> sent[1].code, hash |-> sent[1].hash, answered |-> FALSE]
           B == [code : Codes, hash : Redeem!Commitments, answered : BOOLEAN]
<1>1. /\ sent # <<>> /\ burned' = Append(burned, b)
      /\ UNCHANGED <<redeemCode, ref, nonce, drawn, hash, failed, digests, sent, panel>>
  BY DEF Redeem!Burn, Redeem!Busy, Redeem!inputs
<1>2. b \in B /\ b.hash[2] <= drawn /\ b.answered = FALSE /\ burned \in Seq(B)
      /\ b.hash \in Redeem!Commitments
  BY <1>1 DEF RedeemInv, RedeemTypes
<1> HIDE DEF b, B
<1>3. /\ burned' \in Seq(B) /\ Len(burned') = Len(burned) + 1
      /\ \A i \in DOMAIN burned' : burned'[i] = (IF i \in DOMAIN burned THEN burned[i] ELSE b)
  <2>1. \A i \in 1..(Len(burned) + 1) : i \in 1..Len(burned) \/ i = Len(burned) + 1
    BY <1>2, LenProperties
  <2>. QED
    BY <1>1, <1>2, <2>1, AppendProperties, LenProperties
<1>4. Redeem!TypeOK'
  <2>1. \A i \in DOMAIN burned' : burned'[i].hash \in Redeem!Commitments
    BY <1>2, <1>3 DEF RedeemInv, RedeemTypes, Redeem!TypeOK
  <2>. QED
    BY <1>1, <2>1, Zenon DEF RedeemInv, RedeemTypes, Redeem!TypeOK, Redeem!Commitments, Redeem!Zero32
<1>5. RedeemTypes'
  <2>1. \A i \in DOMAIN burned' : burned'[i].hash[2] <= drawn
    BY <1>2, <1>3 DEF RedeemInv, RedeemTypes
  <2>. QED
    BY <1>1, <1>3, <1>4, <2>1, Zenon DEF RedeemInv, RedeemTypes, Redeem!Commitments, Redeem!Zero32, B
<1>6. RedeemRetired'
  BY <1>1, <1>2, <1>3 DEF RedeemInv, RedeemRetired
<1>7. RedeemLive' /\ Redeem!HashMatchesInputs'
  BY <1>1, Zenon DEF RedeemInv, RedeemLive, Redeem!HashMatchesInputs, Redeem!Settled
<1>. QED
  BY <1>5, <1>6, <1>7 DEF RedeemInv

LEMMA ReceiptComes ==
    ASSUME RedeemInv, Redeem!Receipt PROVE RedeemInv'
<1> DEFINE B == [code : Codes, hash : Redeem!Commitments, answered : BOOLEAN]
           n == Len(burned)
<1>1. /\ n > 0 /\ burned' = [burned EXCEPT ![n].answered = TRUE]
      /\ drawn < MaxNonce /\ Redeem!Rehash(ref, nonce')
      /\ (nonce' = drawn + 1 /\ drawn' = drawn + 1) \/ (nonce' = 0 /\ drawn' = drawn)
      /\ sent' = <<>> /\ panel' = "result" /\ redeemCode' = redeemCode /\ ref' = ref
  BY DEF Redeem!Receipt, Redeem!Mine, Redeem!FreshNonce
<1>2. /\ nonce \in 0..drawn /\ drawn \in 0..MaxNonce /\ ref \in Refs /\ burned \in Seq(B)
  BY Zenon DEF RedeemInv, RedeemTypes, Redeem!TypeOK
<1>3. nonce' \in 0..drawn' /\ drawn' \in 0..MaxNonce /\ drawn <= drawn' /\ MaxNonce \in Nat
  BY <1>1, <1>2, RedeemBounds
<1>4. /\ burned' \in Seq(B) /\ DOMAIN burned' = DOMAIN burned
      /\ \A i \in DOMAIN burned : burned'[i].hash = burned[i].hash
  <2>1. n \in DOMAIN burned /\ DOMAIN burned = 1..n
    BY <1>1, <1>2, LenProperties
  <2>2. [burned[n] EXCEPT !.answered = TRUE] \in B
           /\ [burned[n] EXCEPT !.answered = TRUE].hash = burned[n].hash
    <3>1. burned[n] \in B
      BY <1>2, <2>1, ElementOfSeq, LenProperties
    <3>. QED
      BY <3>1
  <2>3. burned' = [burned EXCEPT ![n] = [burned[n] EXCEPT !.answered = TRUE]]
    BY <1>1
  <2> HIDE DEF B
  <2>4. burned' \in Seq(B)
    BY <1>2, <2>1, <2>2, <2>3, ExceptSeq
  <2>. QED
    BY <1>2, <2>2, <2>3, <2>4
<1>5. \A i \in DOMAIN burned : burned[i].hash[2] <= drawn /\ burned[i].hash[2] \in Nat
  <2>1. \A i \in DOMAIN burned : burned[i].hash \in Redeem!Commitments /\ burned[i].hash[2] <= drawn
    BY Zenon DEF RedeemInv, RedeemTypes, Redeem!TypeOK
  <2>2. \A h \in Redeem!Commitments : h[2] \in 1..MaxNonce
    BY CommitmentParts
  <2>3. \A h \in Redeem!Commitments : h[2] \in Nat
    BY <2>2
  <2>. QED
    BY <2>1, <2>3, Zenon
<1>6. RedeemRetired'
  <2>1. CASE nonce' = 0
    BY <2>1 DEF RedeemRetired
  <2>2. CASE nonce' = drawn + 1
    <3>1. \A i \in DOMAIN burned : burned[i].hash[2] < drawn + 1
      BY <1>2, <1>5
    <3>. QED
      BY <1>4, <2>2, <3>1 DEF RedeemRetired
  <2>. QED
    BY <1>1, <2>1, <2>2
<1>7. Redeem!Rehash(ref', nonce')
  BY <1>1
<1>8. burned' \in Seq([code : Codes, hash : Redeem!Commitments, answered : BOOLEAN])
  BY <1>4
<1> HIDE DEF B, n
<1>. QED
  BY <1>1, <1>2, <1>3, <1>4, <1>6, <1>7, <1>8, EffectRuns

LEMMA RedeemKeeps == RedeemInv /\ (Redeem!Next \/ UNCHANGED redeemVars) => RedeemInv'
<1>1. ASSUME RedeemInv, Redeem!Next PROVE RedeemInv'
  BY <1>1, FormSteps, DigestSteps, RefTyped, CouponBurns, ReceiptComes, Zenon DEF Redeem!Next
<1>2. ASSUME RedeemInv, UNCHANGED redeemVars PROVE RedeemInv'
  BY <1>2, Zenon DEF redeemVars, RedeemInv, RedeemTypes, RedeemLive, RedeemRetired, Redeem!TypeOK,
     Redeem!HashMatchesInputs, Redeem!Settled, Redeem!Commitments, Redeem!Zero32
<1>. QED
  BY <1>1, <1>2

\* A receipt's commitment is not the one on offer.
LEMMA RedeemRetires == RedeemInv => Redeem!ReceiptRetiresNonce
<1> SUFFICES ASSUME RedeemInv, Redeem!Settled, NEW i \in DOMAIN burned, burned[i].answered
             PROVE  burned[i].hash # hash
  BY DEF Redeem!ReceiptRetiresNonce
<1>1. burned[i].hash \in Redeem!Commitments /\ (nonce = 0 \/ burned[i].hash[2] < nonce)
  BY Zenon DEF RedeemInv, RedeemTypes, Redeem!TypeOK, RedeemRetired
<1>2. hash = Redeem!Zero32 \/ (hash = Redeem!Commitment(ref, nonce) /\ nonce # 0)
  BY DEF RedeemInv, Redeem!HashMatchesInputs
<1>3. burned[i].hash # Redeem!Zero32 /\ burned[i].hash[2] \in 1..MaxNonce
  BY <1>1, CommitmentParts
<1>4. hash = Redeem!Commitment(ref, nonce) => hash[2] = nonce
  BY DEF Redeem!Commitment
<1>5. burned[i].hash[2] < nonce => burned[i].hash[2] # nonce
  <2>1. nonce \in 0..drawn /\ drawn \in 0..MaxNonce
    BY Zenon DEF RedeemInv, RedeemTypes, Redeem!TypeOK
  <2>. QED
    BY <1>3, <2>1
<1>. QED
  BY <1>1, <1>2, <1>3, <1>4, <1>5, Zenon

-----------------------------------------------------------------------------
(* The cards of a campaign                                                 *)

CardsInv ==
    /\ Cards!TypeOK /\ Cards!SelectionOwned /\ Cards!ResultPairsCodes
    /\ issuing # <<>> => issuing[1].id \in 0..MaxId
    /\ DOMAIN deps = Cards!Cards /\ running \in [Cards!Kinds -> Nat]

LEMMA CardsBounds == NoWallet \notin Wallets /\ MaxId \in Nat /\ MaxCodes \in Nat
BY PlaygroundAssumption DEF Cards!CardsAssumption

\* Bounds on natural numbers, by themselves.
LEMMA StaysWithin ==
    /\ \A a, b, c, m \in Nat : a + b <= m /\ c <= b => a + c <= m
    /\ \A a, b, m \in Nat : a <= b /\ b <= m => a <= m
    /\ \A n \in Nat : n > 0 => n - 1 \in Nat
OBVIOUS

LEMMA CardsTake == \A s, S : Cards!Taken(s, S) = Taken(s, S)
BY DEF Cards!Taken, Taken, Cards!Ascending, Ascending, Cards!Below, Below, Cards!Cardinality, Cardinality

LEMMA CardsBegin == Cards!Init => CardsInv
<1> SUFFICES ASSUME Cards!Init PROVE CardsInv
  OBVIOUS
<1>1. 0 \in 0..MaxId /\ 0 <= MaxCodes /\ 0 \in Nat
  BY CardsBounds
<1>2. /\ cardsWallet = NoWallet /\ owner = <<>> /\ highlight = 0 /\ codes = <<>> /\ result = <<>> /\ issuing = <<>>
      /\ cid = [c \in Cards!Cards |-> 0] /\ deps = [c \in Cards!Cards |-> <<>>]
      /\ running = [k \in Cards!Kinds |-> 0] /\ cardsBusy = ""
  BY DEF Cards!Init
<1>3. DOMAIN owner = {} /\ DOMAIN result = {} /\ codes \in Seq(ChipCodes) /\ Len(codes) = 0
  <2>1. <<>> \in Seq(ChipCodes) /\ Len(<<>>) = 0
    BY EmptySeq
  <2>2. DOMAIN <<>> = {}
    OBVIOUS
  <2>. QED
    BY <1>2, <2>1, <2>2, Zenon
<1>4. Cards!TypeOK
  <2>1. cid \in [Cards!Cards -> 0..MaxId]
    BY <1>1, <1>2
  <2>2. DOMAIN owner \subseteq Cards!Ids /\ \A id \in DOMAIN owner : owner[id] \in Wallets
    BY <1>3
  <2>3. Len(codes) <= MaxCodes
    BY <1>1, <1>3
  <2>. QED
    BY <1>1, <1>2, <1>3, <2>1, <2>2, <2>3, Zenon DEF Cards!TypeOK
<1>5. \A c \in Cards!Cards : deps[c] # Cards!Deps
  BY <1>2 DEF Cards!Deps
<1>. QED
  BY <1>1, <1>2, <1>3, <1>4, <1>5 DEF CardsInv, Cards!SelectionOwned, Cards!ResultPairsCodes

\* A valid selection is a campaign of the wallet, or none if it has none.
LEMMA ValidIs ==
    ASSUME Cards!TypeOK, NEW id \in 0..MaxId
    PROVE  LET v == Cards!Valid(id)
           IN  v \in 0..MaxId /\ (v \in Cards!OwnedIds \/ (v = 0 /\ Cards!OwnedIds = {}))
<1> DEFINE O == Cards!OwnedIds
           S == O \cup {0}
<1>1. O \subseteq 1..MaxId
  BY Zenon DEF Cards!TypeOK, Cards!OwnedIds, Cards!Ids
<1> HIDE DEF O
<1>2. IsFiniteSet(1..MaxId) /\ (\A x \in 1..MaxId : x \in Int /\ x > 0 /\ x \in 0..MaxId) /\ 0 \in 0..MaxId
  BY CardsBounds, FS_Interval
<1>3. IsFiniteSet(O)
  BY <1>1, <1>2, FS_Subset
<1>4. S \in SUBSET Int /\ IsFiniteSet(S) /\ S # {}
  BY <1>1, <1>2, <1>3, FS_AddElement
<1>5. \E x \in S : \A y \in S : x >= y
  BY <1>4, LargestIs
<1>6. Cards!Max(S) \in S /\ \A y \in S : Cards!Max(S) >= y
  BY <1>5 DEF Cards!Max
<1>7. Cards!Max(S) \in O \/ (Cards!Max(S) = 0 /\ O = {})
  <2>1. CASE O = {}
    BY <1>6, <2>1
  <2>2. ASSUME NEW y \in O, Cards!Max(S) = 0 PROVE FALSE
    <3>1. 0 >= y /\ y \in Int /\ y > 0
      BY <1>1, <1>2, <1>6, <2>2
    <3>. QED
      BY <3>1
  <2>. QED
    BY <1>6, <2>1, <2>2
<1>8. Cards!Valid(id) = IF id \in O THEN id ELSE IF highlight \in O THEN highlight ELSE Cards!Max(S)
  BY DEF Cards!Valid, O
<1> HIDE DEF S
<1>9. Cards!Valid(id) \in O \/ (Cards!Valid(id) = 0 /\ O = {})
  BY <1>7, <1>8
<1>. QED
  BY <1>1, <1>2, <1>9 DEF O

\* While nothing the effects depend on changes, a selection stays owned; and it
\* only changes when every effect has run.
LEMMA StoreMoves ==
    ASSUME CardsInv, Cards!Flushed, UNCHANGED <<cid, deps, codes, running, cardsBusy>>,
           \/ UNCHANGED <<result, issuing>>
           \/ Cards!ResultPairsCodes' /\ issuing' = <<>>,
           cardsWallet' \in Wallets \cup {NoWallet}, highlight' \in 0..MaxId,
           DOMAIN owner' \subseteq Cards!Ids, \A id \in DOMAIN owner' : owner'[id] \in Wallets
    PROVE  CardsInv'
<1>1. Cards!TypeOK'
  BY Zenon DEF CardsInv, Cards!TypeOK, Cards!Ids
<1>2. Cards!SelectionOwned'
  <2> SUFFICES ASSUME NEW c \in Cards!Cards, deps'[c] = Cards!Deps'
               PROVE  cid'[c] \in Cards!OwnedIds' \/ (cid'[c] = 0 /\ Cards!OwnedIds' = {})
    BY Zenon DEF Cards!SelectionOwned, Cards!Cards
  <2>1. Cards!Deps = Cards!Deps'
    BY Zenon DEF Cards!Flushed
  <2>2. Cards!OwnedIds = Cards!OwnedIds'
    <3>1. Cards!Deps[3] = Cards!OwnedIds /\ Cards!Deps'[3] = Cards!OwnedIds'
      BY DEF Cards!Deps
    <3>. QED
      BY <2>1, <3>1, Zenon
  <2>3. cid[c] \in Cards!OwnedIds \/ (cid[c] = 0 /\ Cards!OwnedIds = {})
    BY <2>1, Zenon DEF CardsInv, Cards!SelectionOwned, Cards!Flushed
  <2>. QED
    BY <2>2, <2>3, Zenon
<1>3. Cards!ResultPairsCodes'
  BY Zenon DEF CardsInv, Cards!ResultPairsCodes
<1>. QED
  BY <1>1, <1>2, <1>3, Zenon DEF CardsInv, Cards!Cards, Cards!Kinds

LEMMA StoreActs ==
    ASSUME CardsInv,
           \/ \E w \in Wallets \cup {NoWallet} : Cards!Switch(w)
           \/ \E id \in Cards!Ids, w \in Wallets : Cards!Learn(id, w) \/ Cards!Created(id, w)
           \/ \E id \in Cards!Ids : Cards!Highlight(id)
    PROVE  CardsInv'
<1>0. /\ cardsWallet \in Wallets \cup {NoWallet} /\ highlight \in 0..MaxId
      /\ DOMAIN owner \subseteq Cards!Ids /\ \A id \in DOMAIN owner : owner[id] \in Wallets
  BY Zenon DEF CardsInv, Cards!TypeOK
<1>1. \A id \in Cards!Ids : id \in 0..MaxId
  BY CardsBounds DEF Cards!Ids
<1> USE DEF Cards!pick, Cards!issue, Cards!delegates
<1>2. ASSUME NEW w \in Wallets \cup {NoWallet}, Cards!Switch(w) PROVE CardsInv'
  BY <1>0, <1>2, StoreMoves, Zenon DEF Cards!Switch
<1>3. ASSUME NEW id \in Cards!Ids, NEW w \in Wallets, Cards!Learn(id, w) \/ Cards!Created(id, w)
      PROVE  CardsInv'
  <2>1. /\ Cards!Flushed /\ cardsWallet' = cardsWallet
        /\ UNCHANGED <<cid, deps, codes, result, issuing, running, cardsBusy>>
        /\ highlight' = highlight \/ highlight' = id
        /\ owner' = [i \in DOMAIN owner \cup {id} |-> IF i = id THEN w ELSE owner[i]]
    BY <1>3 DEF Cards!Learn, Cards!Created
  <2>2. DOMAIN owner' \subseteq Cards!Ids /\ \A i \in DOMAIN owner' : owner'[i] \in Wallets
    BY <1>0, <2>1
  <2>. QED
    BY <1>0, <1>1, <2>1, <2>2, StoreMoves
<1>4. ASSUME NEW id \in Cards!Ids, Cards!Highlight(id) PROVE CardsInv'
  BY <1>0, <1>1, <1>4, StoreMoves DEF Cards!Highlight
<1>. QED
  BY <1>2, <1>3, <1>4

LEMMA SelectionMoves ==
    ASSUME CardsInv, NEW c \in Cards!Cards,
           Cards!Effect(c) \/ \E id \in Cards!Ids : Cards!Select(c, id)
    PROVE  CardsInv'
<1>1. /\ UNCHANGED <<cardsWallet, owner, highlight, codes, issuing, result, running, cardsBusy>>
      /\ deps' = [deps EXCEPT ![c] = Cards!Deps] \/ deps' = deps
      /\ \E id \in 0..MaxId : /\ cid' = [cid EXCEPT ![c] = id]
                              /\ id \in Cards!OwnedIds \/ (id = 0 /\ Cards!OwnedIds = {})
  <2>1. CASE Cards!Effect(c)
    <3>1. cid[c] \in 0..MaxId
      BY DEF CardsInv, Cards!TypeOK
    <3>2. /\ Cards!Valid(cid[c]) \in 0..MaxId
          /\ Cards!Valid(cid[c]) \in Cards!OwnedIds
                \/ (Cards!Valid(cid[c]) = 0 /\ Cards!OwnedIds = {})
      BY <3>1, ValidIs DEF CardsInv
    <3>. QED
      BY <2>1, <3>2, Zenon DEF Cards!Effect, Cards!store, Cards!issue, Cards!delegates
  <2>2. ASSUME NEW id \in Cards!Ids, Cards!Select(c, id)
        PROVE  /\ id \in Cards!OwnedIds /\ id \in 0..MaxId /\ cid' = [cid EXCEPT ![c] = id]
               /\ deps' = deps
               /\ UNCHANGED <<cardsWallet, owner, highlight, codes, issuing, result, running, cardsBusy>>
    <3>1. id \in 0..MaxId
      BY CardsBounds DEF Cards!Ids
    <3>. QED
      BY <2>2, <3>1, Zenon DEF Cards!Select, Cards!store, Cards!issue, Cards!delegates
  <2>. QED
    BY <2>1, <2>2
<1>2. PICK id \in 0..MaxId : /\ cid' = [cid EXCEPT ![c] = id]
                             /\ id \in Cards!OwnedIds \/ (id = 0 /\ Cards!OwnedIds = {})
  BY <1>1, Zenon
<1>3. /\ cid \in [Cards!Cards -> 0..MaxId] /\ cid' \in [Cards!Cards -> 0..MaxId]
      /\ DOMAIN deps = Cards!Cards /\ DOMAIN deps' = Cards!Cards
  <2>1. cid \in [Cards!Cards -> 0..MaxId] /\ DOMAIN deps = Cards!Cards
    BY Zenon DEF CardsInv, Cards!TypeOK
  <2>. QED
    BY <1>1, <1>2, <2>1
<1>4. Cards!TypeOK'
  BY <1>1, <1>3, Zenon DEF CardsInv, Cards!TypeOK, Cards!Ids, Cards!Cards
<1>5. Cards!Deps' = Cards!Deps /\ Cards!OwnedIds' = Cards!OwnedIds
  BY <1>1 DEF Cards!Deps, Cards!OwnedIds
<1>6. Cards!SelectionOwned'
  <2> SUFFICES ASSUME NEW d \in Cards!Cards, deps'[d] = Cards!Deps
               PROVE  cid'[d] \in Cards!OwnedIds \/ (cid'[d] = 0 /\ Cards!OwnedIds = {})
    BY <1>5, Zenon DEF Cards!SelectionOwned, Cards!Cards
  <2>1. CASE d = c
    BY <1>2, <1>3, <2>1
  <2>2. CASE d # c
    <3>1. cid'[d] = cid[d] /\ deps'[d] = deps[d]
      BY <1>1, <1>2, <1>3, <2>2
    <3>. QED
      BY <3>1, Zenon DEF CardsInv, Cards!SelectionOwned
  <2>. QED
    BY <2>1, <2>2
<1>7. Cards!ResultPairsCodes'
  BY <1>1, Zenon DEF CardsInv, Cards!ResultPairsCodes
<1>. QED
  BY <1>1, <1>3, <1>4, <1>6, <1>7, Zenon DEF CardsInv, Cards!Cards, Cards!Kinds

\* What leaves the selection and what it depends on as they are.
LEMMA CardsAside ==
    ASSUME CardsInv, UNCHANGED <<cardsWallet, owner, highlight, cid, deps>>,
           codes' \in Seq(ChipCodes), Len(codes') <= MaxCodes, Cards!ResultPairsCodes',
           issuing' # <<>> => issuing'[1].id \in 0..MaxId, running' \in [Cards!Kinds -> Nat],
           cardsBusy' # "" => running'[cardsBusy'] > 0
    PROVE  CardsInv'
<1>1. Cards!TypeOK'
  BY Zenon DEF CardsInv, Cards!TypeOK, Cards!Ids, Cards!Cards
<1>2. Cards!SelectionOwned'
  BY Zenon DEF CardsInv, Cards!SelectionOwned, Cards!Deps, Cards!OwnedIds, Cards!Cards
<1>. QED
  BY <1>1, <1>2, Zenon DEF CardsInv, Cards!Cards, Cards!Kinds

LEMMA ChipsChange ==
    ASSUME CardsInv,
           \/ \E p \in ChipCodes : Cards!Commit(<<p>>) \/ Cards!Remove(p)
           \/ \E p, q \in ChipCodes : Cards!Commit(<<p, q>>)
    PROVE  CardsInv'
<1>0. codes \in Seq(ChipCodes) /\ Len(codes) <= MaxCodes /\ running \in [Cards!Kinds -> Nat]
      /\ (cardsBusy # "" => running[cardsBusy] > 0) /\ Len(codes) \in Nat
  BY LenProperties DEF CardsInv, Cards!TypeOK
<1>1. ASSUME NEW parts \in Seq(ChipCodes), Cards!Commit(parts) PROVE CardsInv'
  <2> DEFINE S == {j \in DOMAIN parts : \A i \in DOMAIN codes : codes[i] # parts[j]}
             t == Taken(parts, S)
  <2>1. t \in Seq(ChipCodes) /\ Len(t) <= Len(parts) /\ Len(t) \in Nat /\ Len(parts) \in Nat
    BY TakenIs, LenProperties
  <2>2. /\ Len(codes) + Len(parts) <= MaxCodes /\ codes' = codes \o Cards!Taken(parts, S)
        /\ UNCHANGED <<cardsWallet, owner, highlight, cid, deps, issuing, result, running, cardsBusy>>
    BY <1>1, Zenon DEF Cards!Commit, Cards!store, Cards!pick, Cards!delegates
  <2>6. codes' = codes \o t
    BY <2>2, CardsTake, Zenon
  <2> HIDE DEF t
  <2>3. codes' \in Seq(ChipCodes) /\ Len(codes') = Len(codes) + Len(t)
    BY <1>0, <2>1, <2>6, ConcatProperties
  <2>4. Len(codes') <= MaxCodes
    <3>1. Len(codes) + Len(t) <= MaxCodes
      BY <1>0, <2>1, <2>2, CardsBounds, StaysWithin, Zenon
    <3>. QED
      BY <2>3, <3>1, Zenon
  <2>5. Cards!ResultPairsCodes' /\ (issuing' # <<>> => issuing'[1].id \in 0..MaxId)
    BY <2>2, Zenon DEF CardsInv, Cards!ResultPairsCodes
  <2>. QED
    BY <1>0, <2>2, <2>3, <2>4, <2>5, CardsAside, Zenon
<1>2. ASSUME NEW p \in ChipCodes, Cards!Remove(p) PROVE CardsInv'
  <2> DEFINE S == {i \in DOMAIN codes : codes[i] # p}
             t == Taken(codes, S)
  <2>1. t \in Seq(ChipCodes) /\ Len(t) <= Len(codes) /\ Len(t) \in Nat
    BY <1>0, TakenIs, LenProperties
  <2>2. /\ codes' = Cards!Taken(codes, S)
        /\ UNCHANGED <<cardsWallet, owner, highlight, cid, deps, issuing, result, running, cardsBusy>>
    BY <1>2, Zenon DEF Cards!Remove, Cards!store, Cards!pick, Cards!delegates
  <2>5. codes' = t
    BY <2>2, CardsTake, Zenon
  <2> HIDE DEF t
  <2>3. Len(codes') <= MaxCodes /\ codes' \in Seq(ChipCodes)
    BY <1>0, <2>1, <2>5, CardsBounds, StaysWithin, Zenon
  <2>4. Cards!ResultPairsCodes' /\ (issuing' # <<>> => issuing'[1].id \in 0..MaxId)
    BY <2>2, Zenon DEF CardsInv, Cards!ResultPairsCodes
  <2>. QED
    BY <1>0, <2>2, <2>3, <2>4, CardsAside, Zenon
<1>3. \A p, q \in ChipCodes : <<p>> \in Seq(ChipCodes) /\ <<p, q>> \in Seq(ChipCodes)
  OBVIOUS
<1>. QED
  BY <1>1, <1>2, <1>3, Zenon

LEMMA IssueActs ==
    ASSUME CardsInv, Cards!Issue \/ Cards!Issued \/ Cards!IssueFails PROVE CardsInv'
<1>0. /\ codes \in Seq(ChipCodes) /\ Len(codes) <= MaxCodes /\ running \in [Cards!Kinds -> Nat]
      /\ (cardsBusy # "" => running[cardsBusy] > 0)
      /\ (issuing # <<>> => issuing[1].id \in 0..MaxId) /\ Cards!ResultPairsCodes
  BY Zenon DEF CardsInv, Cards!TypeOK
<1>1. CASE Cards!Issue
  <2>1. /\ UNCHANGED <<cardsWallet, owner, highlight, cid, deps, codes, running, cardsBusy>>
        /\ issuing' = <<[id |-> cid["issue"], by |-> cardsWallet, codes |-> codes]>> /\ result' = <<>>
    BY <1>1 DEF Cards!Issue, Cards!store, Cards!pick, Cards!delegates
  <2>2. issuing'[1].id \in 0..MaxId
    BY <2>1 DEF CardsInv, Cards!TypeOK, Cards!Cards
  <2>3. DOMAIN result' = {}
    BY <2>1
  <2>4. Cards!ResultPairsCodes'
    BY <2>3 DEF Cards!ResultPairsCodes
  <2>. QED
    BY <1>0, <2>1, <2>2, <2>4, CardsAside, Zenon
<1>2. CASE Cards!Issued
  <2>1. /\ UNCHANGED <<cardsWallet, owner, cid, deps, codes, running, cardsBusy>> /\ issuing # <<>>
        /\ issuing' = <<>> /\ result' = <<Cards!Pair(issuing[1])>> /\ Cards!Flushed
        /\ highlight' = issuing[1].id
    BY <1>2 DEF Cards!Issued, Cards!pick, Cards!delegates
  <2>2. Cards!ResultPairsCodes'
    BY <2>1 DEF Cards!ResultPairsCodes, Cards!Pair
  <2>3. /\ cardsWallet \in Wallets \cup {NoWallet} /\ DOMAIN owner \subseteq Cards!Ids
        /\ \A id \in DOMAIN owner : owner[id] \in Wallets
    BY Zenon DEF CardsInv, Cards!TypeOK
  <2>. QED
    BY <1>0, <2>1, <2>2, <2>3, StoreMoves, Zenon
<1>3. CASE Cards!IssueFails
  <2>1. /\ UNCHANGED <<cardsWallet, owner, highlight, cid, deps, codes, result, running, cardsBusy>>
        /\ issuing' = <<>>
    BY <1>3 DEF Cards!IssueFails, Cards!store, Cards!pick, Cards!delegates
  <2>2. Cards!ResultPairsCodes'
    BY <1>0, <2>1, Zenon DEF Cards!ResultPairsCodes
  <2>. QED
    BY <1>0, <2>1, <2>2, CardsAside, Zenon
<1>. QED
  BY <1>1, <1>2, <1>3

LEMMA DelegatesAct ==
    ASSUME CardsInv, NEW kind \in Cards!Kinds, Cards!Run(kind) \/ Cards!RunEnds(kind) PROVE CardsInv'
<1>0. /\ codes \in Seq(ChipCodes) /\ Len(codes) <= MaxCodes /\ running \in [Cards!Kinds -> Nat]
      /\ (issuing # <<>> => issuing[1].id \in 0..MaxId) /\ Cards!ResultPairsCodes
  BY Zenon DEF CardsInv, Cards!TypeOK
<1>1. UNCHANGED <<cardsWallet, owner, highlight, cid, deps, codes, issuing, result>>
  BY DEF Cards!Run, Cards!RunEnds, Cards!store, Cards!pick, Cards!issue
<1>2. Cards!ResultPairsCodes'
  BY <1>0, <1>1, Zenon DEF Cards!ResultPairsCodes
<1>3. running' \in [Cards!Kinds -> Nat] /\ (cardsBusy' # "" => running'[cardsBusy'] > 0)
  <2>1. running[kind] \in Nat
    BY <1>0
  <2>2. CASE Cards!Run(kind)
    <3>1. cardsBusy' = kind /\ running' = [running EXCEPT ![kind] = running[kind] + 1]
      BY <2>2 DEF Cards!Run
    <3>2. running[kind] + 1 \in Nat /\ running[kind] + 1 > 0
      BY <2>1
    <3>. QED
      BY <1>0, <3>1, <3>2
  <2>3. CASE Cards!RunEnds(kind)
    <3>1. running[kind] > 0 /\ cardsBusy' = "" /\ running' = [running EXCEPT ![kind] = running[kind] - 1]
      BY <2>3 DEF Cards!RunEnds
    <3>2. running[kind] - 1 \in Nat
      BY <2>1, <3>1, StaysWithin, Zenon
    <3>. QED
      BY <1>0, <3>1, <3>2
  <2>. QED
    BY <2>2, <2>3
<1>. QED
  BY <1>0, <1>1, <1>2, <1>3, CardsAside, Zenon

LEMMA CardsKeep == CardsInv /\ (Cards!Next \/ UNCHANGED cardsVars) => CardsInv'
<1>1. ASSUME CardsInv, Cards!Next PROVE CardsInv'
  BY <1>1, StoreActs, SelectionMoves, ChipsChange, IssueActs, DelegatesAct, Zenon DEF Cards!Next
<1>2. ASSUME CardsInv, UNCHANGED cardsVars PROVE CardsInv'
  BY <1>2, Zenon DEF cardsVars, CardsInv, Cards!TypeOK, Cards!SelectionOwned, Cards!ResultPairsCodes,
     Cards!Deps, Cards!OwnedIds, Cards!Ids, Cards!Cards, Cards!Kinds
<1>. QED
  BY <1>1, <1>2

-----------------------------------------------------------------------------
(* The store: what it knows                                                *)

\* Both pages take steps of a store with room for the calls of either.
Wide == INSTANCE PlaygroundStore WITH
    wallet <- storeWallet, call <- storeCall, Codes <- StoreCodes,
    MaxCalls <- StoreCalls + AloneCalls, MaxOpen <- StoreOpen + 1

\* The functions from part of D to R.
Partial(D, R) == UNION {[E -> R] : E \in SUBSET D}

Campaign ==
    {r \in [owner : Wallets, minted : SUBSET StoreCodes, burned : SUBSET StoreCodes,
            delegates : SUBSET Wallets, ever : SUBSET Wallets] :
        IsFiniteSet(r.minted) /\ IsFiniteSet(r.burned)}

Mirrored == [owner : Wallets \cup {NoWallet}, minted : Nat, burned : Nat]

MirrorState ==
    [campaigns : Partial(Wide!Ids, Mirrored), tokens : Partial(Wide!Keys, BOOLEAN),
     delegates : SUBSET (Wide!Ids \X Wallets)]

Methods == Wide!Writes \cup Wide!Reads \cup {"load"}
Stages == {"sent", "campaign", "answer", "returned", "ok", "err"}

StoreRecord ==
    [method : Methods, who : Wallets \cup {NoWallet}, id : Wide!Ids, code : StoreCodes,
     stage : Stages, burned : BOOLEAN, got : Partial(Wide!Ids, Mirrored)]

LEMMA StoreBounds ==
    /\ NoWallet \notin Wallets /\ MaxCamps \in Nat /\ MaxCamps > 0 /\ StoreCalls \in Nat /\ AloneCalls \in Nat
    /\ StoreOpen \in Nat /\ LogLimit \in Nat /\ LogLimit > 0 /\ StoreCodes # {}
    /\ \A w \in Wallets : \E x \in Wallets : x # w
BY PlaygroundAssumption DEF Store!StoreAssumption, Alone!StoreAssumption

LEMMA WideCounts ==
    /\ \A S : Wide!Cardinality(S) = Cardinality(S)
    /\ \A S : Store!Cardinality(S) = Cardinality(S)
    /\ \A S : Alone!Cardinality(S) = Cardinality(S)
BY DEF Wide!Cardinality, Store!Cardinality, Alone!Cardinality, Cardinality

LEMMA PartialIs ==
    ASSUME NEW D, NEW R, NEW f
    PROVE  /\ f \in Partial(D, R) => /\ DOMAIN f \subseteq D /\ f = [x \in DOMAIN f |-> f[x]]
                                     /\ \A x \in DOMAIN f : f[x] \in R
           /\ (/\ DOMAIN f \subseteq D /\ f = [x \in DOMAIN f |-> f[x]]
               /\ \A x \in DOMAIN f : f[x] \in R) => f \in Partial(D, R)
<1>1. ASSUME f \in Partial(D, R)
      PROVE  DOMAIN f \subseteq D /\ f = [x \in DOMAIN f |-> f[x]] /\ \A x \in DOMAIN f : f[x] \in R
  <2>1. PICK E \in SUBSET D : f \in [E -> R]
    BY <1>1 DEF Partial
  <2>. QED
    BY <2>1
<1>2. ASSUME DOMAIN f \subseteq D, f = [x \in DOMAIN f |-> f[x]], \A x \in DOMAIN f : f[x] \in R
      PROVE  f \in Partial(D, R)
  <2>1. f \in [DOMAIN f -> R]
    BY <1>2
  <2>. QED
    BY <1>2, <2>1 DEF Partial
<1>. QED
  BY <1>1, <1>2

\* What an entry put over a function leaves, and what it adds.
LEMMA EntryIs ==
    ASSUME NEW D, NEW R, NEW f \in Partial(D, R), NEW k \in D, NEW v \in R,
           NEW g, g = Wide!Spread(f, Wide!Entry(k, v))
    PROVE  /\ g \in Partial(D, R) /\ DOMAIN g = DOMAIN f \cup {k} /\ g[k] = v
           /\ \A x \in DOMAIN f : x # k => g[x] = f[x]
<1>1. g = [x \in DOMAIN f \cup {k} |-> IF x = k THEN v ELSE f[x]]
  BY DEF Wide!Spread, Wide!Entry
<1>2. DOMAIN f \subseteq D /\ \A x \in DOMAIN f : f[x] \in R
  BY PartialIs, Zenon
<1>3. DOMAIN g = DOMAIN f \cup {k} /\ g[k] = v /\ (\A x \in DOMAIN f : x # k => g[x] = f[x])
      /\ g = [x \in DOMAIN g |-> g[x]]
  BY <1>1
<1>4. DOMAIN g \subseteq D /\ \A x \in DOMAIN g : g[x] \in R
  BY <1>2, <1>3
<1>5. g \in Partial(D, R)
  BY <1>3, <1>4, PartialIs
<1>. QED
  BY <1>3, <1>5

\* What one function put over another knows.
LEMMA SpreadIs ==
    ASSUME NEW D, NEW R, NEW f \in Partial(D, R), NEW h \in Partial(D, R), NEW g, g = Wide!Spread(f, h)
    PROVE  /\ g \in Partial(D, R) /\ DOMAIN g = DOMAIN f \cup DOMAIN h
           /\ \A x \in DOMAIN g : (x \in DOMAIN h /\ g[x] = h[x]) \/ (x \in DOMAIN f /\ g[x] = f[x])
<1>1. g = [x \in DOMAIN f \cup DOMAIN h |-> IF x \in DOMAIN h THEN h[x] ELSE f[x]]
  BY DEF Wide!Spread
<1>2. /\ DOMAIN f \subseteq D /\ \A x \in DOMAIN f : f[x] \in R
      /\ DOMAIN h \subseteq D /\ \A x \in DOMAIN h : h[x] \in R
  BY PartialIs, Zenon
<1>3. DOMAIN g = DOMAIN f \cup DOMAIN h /\ g = [x \in DOMAIN g |-> g[x]]
      /\ \A x \in DOMAIN g : (x \in DOMAIN h /\ g[x] = h[x]) \/ (x \in DOMAIN f /\ g[x] = f[x])
  BY <1>1
<1>4. DOMAIN g \subseteq D /\ \A x \in DOMAIN g : g[x] \in R
  BY <1>2, <1>3
<1>5. g \in Partial(D, R)
  BY <1>3, <1>4, PartialIs
<1>. QED
  BY <1>3, <1>5

\* The mirror shows terms of the contract, and coupons and delegates it had.
TermsTrue(ch, f) == \A id \in DOMAIN f : id \in DOMAIN ch /\ f[id].owner = ch[id].owner
CouponsTrue(ch, f) ==
    \A k \in DOMAIN f :
        /\ k[1] \in DOMAIN ch /\ k[2] \in ch[k[1]].minted
        /\ f[k] = TRUE => k[2] \in ch[k[1]].burned
DelegatesTrue(ch, D) == \A d \in D : d[1] \in DOMAIN ch /\ d[2] \in ch[d[1]].ever
Truthful(ch, st) ==
    /\ st \in MirrorState
    /\ TermsTrue(ch, st.campaigns) /\ CouponsTrue(ch, st.tokens) /\ DelegatesTrue(ch, st.delegates)

\* Counters that the contract has reached.
Reached(ch, g) ==
    \A id \in DOMAIN g : g[id].minted <= Cardinality(ch[id].minted)
                         /\ g[id].burned <= Cardinality(ch[id].burned)

\* What a call has done or read is in the contract.
Backed(ch, k) ==
    /\ k \in StoreRecord
    /\ k.stage = "campaign" => k.method = "verify"
    /\ TermsTrue(ch, k.got)
    /\ Reached(ch, k.got)
    /\ k.stage = "answer" /\ k.method = "create" => k.id \in DOMAIN ch /\ ch[k.id].owner = k.who
    /\ k.stage = "answer" /\ k.method = "issue" => k.id \in DOMAIN ch /\ k.code \in ch[k.id].minted
    /\ k.stage = "answer" /\ k.method = "redeem" => k.id \in DOMAIN ch /\ k.code \in ch[k.id].burned
    /\ k.stage = "answer" /\ k.method = "addDelegate" =>
          k.id \in DOMAIN ch /\ Wide!Delegate(k) \in ch[k.id].ever
    /\ k.stage \in {"campaign", "answer"} /\ k.method = "verify" =>
          /\ k.id \in DOMAIN ch /\ k.code \in ch[k.id].minted
          /\ k.burned = TRUE => k.code \in ch[k.id].burned

Ledger(ch) == ch \in Seq(Campaign) /\ Len(ch) <= MaxCamps

\* The contract forgets nothing: terms stay, coupons and burns are added.
Grown(ch, next) ==
    /\ Ledger(next)
    /\ \A id \in DOMAIN ch :
          /\ id \in DOMAIN next /\ next[id].owner = ch[id].owner
          /\ ch[id].minted \subseteq next[id].minted /\ ch[id].burned \subseteq next[id].burned
          /\ ch[id].ever \subseteq next[id].ever

LEMMA CampaignsAre ==
    ASSUME NEW ch, Ledger(ch), NEW id \in DOMAIN ch
    PROVE  /\ id \in Wide!Ids /\ ch[id] \in Campaign /\ ch[id].owner \in Wallets
           /\ ch[id].minted \subseteq StoreCodes /\ ch[id].burned \subseteq StoreCodes /\ ch[id].ever \subseteq Wallets
           /\ IsFiniteSet(ch[id].minted) /\ IsFiniteSet(ch[id].burned)
           /\ Cardinality(ch[id].minted) \in Nat /\ Cardinality(ch[id].burned) \in Nat
<1>1. Len(ch) \in Nat /\ DOMAIN ch = 1..Len(ch) /\ ch[id] \in Campaign /\ Len(ch) <= MaxCamps
  BY LenProperties, ElementOfSeq DEF Ledger
<1>2. id \in Wide!Ids
  <2>1. \A m, n \in Nat : m <= n => 1..m \subseteq 1..n
    OBVIOUS
  <2>. QED
    BY <1>1, <2>1, StoreBounds DEF Wide!Ids
<1>3. /\ ch[id].owner \in Wallets
      /\ ch[id].minted \subseteq StoreCodes /\ ch[id].burned \subseteq StoreCodes /\ ch[id].ever \subseteq Wallets
      /\ IsFiniteSet(ch[id].minted) /\ IsFiniteSet(ch[id].burned)
  BY <1>1 DEF Campaign
<1>. QED
  BY <1>1, <1>2, <1>3, FS_CardinalityType, Zenon

LEMMA TruthLasts ==
    ASSUME NEW ch, NEW next, NEW st, Grown(ch, next), Truthful(ch, st) PROVE Truthful(next, st)
BY Zenon DEF Grown, Truthful, TermsTrue, CouponsTrue, DelegatesTrue

LEMMA ReachedLasts ==
    ASSUME NEW ch, NEW next, NEW g, Grown(ch, next), Ledger(ch), Reached(ch, g), DOMAIN g \subseteq DOMAIN ch,
           \A id \in DOMAIN g : g[id].minted \in Nat /\ g[id].burned \in Nat
    PROVE  Reached(next, g)
<1>1. SUFFICES ASSUME NEW id \in DOMAIN g
               PROVE  g[id].minted <= Cardinality(next[id].minted) /\ g[id].burned <= Cardinality(next[id].burned)
  BY DEF Reached
<1>2. id \in DOMAIN ch /\ id \in DOMAIN next /\ Ledger(next)
      /\ ch[id].minted \subseteq next[id].minted /\ ch[id].burned \subseteq next[id].burned
  BY Zenon DEF Grown
<1>3. /\ Cardinality(ch[id].minted) \in Nat /\ Cardinality(ch[id].burned) \in Nat
      /\ Cardinality(next[id].minted) \in Nat /\ Cardinality(next[id].burned) \in Nat
      /\ IsFiniteSet(next[id].minted) /\ IsFiniteSet(next[id].burned)
  BY <1>2, CampaignsAre, Zenon
<1>4. Cardinality(ch[id].minted) <= Cardinality(next[id].minted)
      /\ Cardinality(ch[id].burned) <= Cardinality(next[id].burned)
  BY <1>2, <1>3, FS_Subset
<1>5. g[id].minted <= Cardinality(ch[id].minted) /\ g[id].burned <= Cardinality(ch[id].burned)
  BY Zenon DEF Reached
<1>6. \A a, b, c \in Nat : a <= b /\ b <= c => a <= c
  OBVIOUS
<1>. QED
  BY <1>3, <1>4, <1>5, <1>6, Zenon

LEMMA MirroredIs ==
    ASSUME NEW g \in Partial(Wide!Ids, Mirrored)
    PROVE  /\ DOMAIN g \subseteq Wide!Ids
           /\ \A id \in DOMAIN g : g[id] \in Mirrored /\ g[id].minted \in Nat /\ g[id].burned \in Nat
<1>1. DOMAIN g \subseteq Wide!Ids /\ \A id \in DOMAIN g : g[id] \in Mirrored
  BY PartialIs, Zenon
<1>. QED
  BY <1>1 DEF Mirrored

LEMMA BackingLasts ==
    ASSUME NEW ch, NEW next, NEW k, Grown(ch, next), Ledger(ch), Backed(ch, k) PROVE Backed(next, k)
<1>1. k.got \in Partial(Wide!Ids, Mirrored)
  BY DEF Backed, StoreRecord
<1>2. DOMAIN k.got \subseteq DOMAIN ch /\ Reached(ch, k.got)
  BY Zenon DEF Backed, TermsTrue
<1>3. Reached(next, k.got)
  BY <1>1, <1>2, MirroredIs, ReachedLasts, Zenon
<1>. QED
  BY <1>3, Zenon DEF Backed, Grown, TermsTrue

-----------------------------------------------------------------------------
(* The store: the contract                                                 *)

LEMMA OneCampaignGrows ==
    ASSUME NEW ch, Ledger(ch), NEW id \in DOMAIN ch, NEW r \in Campaign, r.owner = ch[id].owner,
           ch[id].minted \subseteq r.minted, ch[id].burned \subseteq r.burned, ch[id].ever \subseteq r.ever,
           NEW next, next = [ch EXCEPT ![id] = r]
    PROVE  Grown(ch, next) /\ DOMAIN next = DOMAIN ch /\ next[id] = r
           /\ \A i \in DOMAIN ch : i # id => next[i] = ch[i]
<1>1. ch \in Seq(Campaign) /\ Len(ch) <= MaxCamps /\ DOMAIN ch = 1..Len(ch)
  BY LenProperties DEF Ledger
<1>2. next \in Seq(Campaign) /\ Len(next) = Len(ch)
  BY <1>1, ExceptSeq
<1>3. DOMAIN next = DOMAIN ch /\ next[id] = r /\ \A i \in DOMAIN ch : i # id => next[i] = ch[i]
  OBVIOUS
<1>4. Ledger(next)
  BY <1>1, <1>2, Zenon DEF Ledger
<1>5. Grown(ch, next)
  <2>1. ASSUME NEW i \in DOMAIN ch
        PROVE  /\ i \in DOMAIN next /\ next[i].owner = ch[i].owner
               /\ ch[i].minted \subseteq next[i].minted /\ ch[i].burned \subseteq next[i].burned
               /\ ch[i].ever \subseteq next[i].ever
    <3>1. CASE i = id
      BY <1>3, <3>1, Zenon
    <3>2. CASE i # id
      BY <1>3, <3>2, Zenon
    <3>. QED
      BY <3>1, <3>2
  <2>. QED
    BY <1>4, <2>1, Zenon DEF Grown
<1>. QED
  BY <1>3, <1>5, Zenon

LEMMA CampaignOpens ==
    ASSUME NEW ch, Ledger(ch), Len(ch) < MaxCamps, NEW w \in Wallets
    PROVE  LET r == [owner |-> w, minted |-> {}, burned |-> {}, delegates |-> {}, ever |-> {}]
               next == Append(ch, r)
           IN  Grown(ch, next) /\ Len(ch) + 1 \in DOMAIN next /\ next[Len(ch) + 1].owner = w
<1> DEFINE r == [owner |-> w, minted |-> {}, burned |-> {}, delegates |-> {}, ever |-> {}]
           next == Append(ch, r)
<1>1. ch \in Seq(Campaign) /\ Len(ch) \in Nat /\ DOMAIN ch = 1..Len(ch)
  BY LenProperties DEF Ledger
<1>2. r \in Campaign /\ r.owner = w
  BY FS_EmptySet DEF Campaign
<1> HIDE DEF r
<1>3. /\ next \in Seq(Campaign) /\ Len(next) = Len(ch) + 1 /\ next[Len(ch) + 1] = r
      /\ \A i \in 1..Len(ch) : next[i] = ch[i]
  BY <1>1, <1>2, AppendProperties
<1>4. DOMAIN next = 1..Len(next)
  BY <1>3, LenProperties
<1> HIDE DEF next
<1>5. \A n, m \in Nat : n < m => n + 1 <= m /\ n + 1 \in 1..(n + 1) /\ 1..n \subseteq 1..(n + 1)
  OBVIOUS
<1>6. Ledger(next)
  BY <1>1, <1>3, <1>5, StoreBounds, Zenon DEF Ledger
<1>7. DOMAIN ch \subseteq DOMAIN next /\ Len(ch) + 1 \in DOMAIN next
  BY <1>1, <1>3, <1>4, <1>5, StoreBounds, Zenon
<1>8. \A i \in DOMAIN ch : next[i] = ch[i]
  BY <1>1, <1>3, Zenon
<1>9. Grown(ch, next)
  <2>1. ASSUME NEW i \in DOMAIN ch
        PROVE  /\ i \in DOMAIN next /\ next[i].owner = ch[i].owner
               /\ ch[i].minted \subseteq next[i].minted /\ ch[i].burned \subseteq next[i].burned
               /\ ch[i].ever \subseteq next[i].ever
    BY <1>7, <1>8, Zenon
  <2>. QED
    BY <1>6, <2>1, Zenon DEF Grown
<1>. QED
  BY <1>2, <1>3, <1>7, <1>9, Zenon DEF next, r

\* What a campaign is after a coupon, a burn or a delegate was added to it.
LEMMA CampaignTurns ==
    ASSUME NEW r \in Campaign, NEW code \in StoreCodes, NEW w \in Wallets
    PROVE  /\ [r EXCEPT !.minted = r.minted \cup {code}] \in Campaign
           /\ [r EXCEPT !.burned = r.burned \cup {code}] \in Campaign
           /\ [r EXCEPT !.delegates = r.delegates \cup {w}, !.ever = r.ever \cup {w}] \in Campaign
           /\ [r EXCEPT !.delegates = r.delegates \ {w}] \in Campaign
<1>1. /\ r \in [owner : Wallets, minted : SUBSET StoreCodes, burned : SUBSET StoreCodes,
               delegates : SUBSET Wallets, ever : SUBSET Wallets]
      /\ IsFiniteSet(r.minted) /\ IsFiniteSet(r.burned)
  BY DEF Campaign
<1>2. IsFiniteSet(r.minted \cup {code}) /\ IsFiniteSet(r.burned \cup {code})
  BY <1>1, FS_AddElement
<1>. QED
  BY <1>1, <1>2 DEF Campaign

LEMMA DelegatesAre ==
    ASSUME NEW k, k.who \in Wallets PROVE Wide!Delegate(k) \in Wallets
BY StoreBounds DEF Wide!Delegate

\* What a call is once its transaction was applied.
Applied(k) ==
    [k EXCEPT !.stage = "answer", !.id = IF k.method = "create" THEN Len(chain) + 1 ELSE k.id]

LEMMA AppliedIs ==
    ASSUME NEW k \in StoreRecord, NEW n \in Wide!Ids
    PROVE  LET a == [k EXCEPT !.stage = "answer", !.id = n]
           IN  a \in StoreRecord /\ a.stage = "answer" /\ a.id = n /\ a.method = k.method /\ a.who = k.who
               /\ a.code = k.code /\ a.got = k.got /\ a.burned = k.burned
BY DEF StoreRecord, Stages

LEMMA StoreRecordIs ==
    ASSUME NEW k \in StoreRecord
    PROVE  /\ k.method \in Methods /\ k.who \in Wallets \cup {NoWallet} /\ k.id \in Wide!Ids
           /\ k.code \in StoreCodes /\ k.stage \in Stages /\ k.burned \in BOOLEAN
           /\ k.got \in Partial(Wide!Ids, Mirrored)
BY DEF StoreRecord

\* What a method needs to be answered.
AnswerBacked(ch, a) ==
    /\ a.method = "create" => a.id \in DOMAIN ch /\ ch[a.id].owner = a.who
    /\ a.method = "issue" => a.id \in DOMAIN ch /\ a.code \in ch[a.id].minted
    /\ a.method = "redeem" => a.id \in DOMAIN ch /\ a.code \in ch[a.id].burned
    /\ a.method = "addDelegate" => a.id \in DOMAIN ch /\ Wide!Delegate(a) \in ch[a.id].ever

LEMMA WriteLands ==
    ASSUME Ledger(chain), NEW k, Backed(chain, k), k.method \in Wide!Writes, k.who \in Wallets,
           Wide!Permits(k)
    PROVE  Grown(chain, Wide!Effect(k)) /\ Backed(Wide!Effect(k), Applied(k))
<1> DEFINE next == Wide!Effect(k)
           a == Applied(k)
<1>1. k \in StoreRecord /\ k.id \in Wide!Ids /\ k.code \in StoreCodes
  BY StoreRecordIs, Zenon DEF Backed
<1>2. Len(chain) \in Nat /\ Len(chain) <= MaxCamps
  BY LenProperties DEF Ledger
<1>3. Wide!Delegate(k) \in Wallets
  BY DelegatesAre
<1>4. CASE k.method = "create"
  <2>1. Len(chain) < MaxCamps
        /\ next = Append(chain, [owner |-> k.who, minted |-> {}, burned |-> {}, delegates |-> {}, ever |-> {}])
    BY <1>4 DEF Wide!Permits, Wide!Effect
  <2>2. Grown(chain, next) /\ Len(chain) + 1 \in DOMAIN next /\ next[Len(chain) + 1].owner = k.who
    BY <2>1, CampaignOpens, Zenon
  <2>3. Len(chain) + 1 \in Wide!Ids
    BY <2>2, CampaignsAre, Zenon DEF Grown
  <2>4. a = [k EXCEPT !.stage = "answer", !.id = Len(chain) + 1]
    BY <1>4, Zenon DEF Applied
  <2> HIDE DEF next, a
  <2>5. /\ a \in StoreRecord /\ a.stage = "answer" /\ a.id = Len(chain) + 1 /\ a.method = k.method
        /\ a.who = k.who /\ a.got = k.got
    BY <1>1, <2>3, <2>4, AppliedIs, Zenon
  <2>6. Backed(next, k)
    BY <2>2, BackingLasts, Zenon
  <2>7. Backed(next, a)
    BY <1>4, <2>2, <2>5, <2>6 DEF Backed
  <2>. QED
    BY <2>2, <2>7 DEF next, a
<1>5. CASE k.method # "create"
  <2>1. a = [k EXCEPT !.stage = "answer", !.id = k.id]
    BY <1>5, Zenon DEF Applied
  <2> HIDE DEF a
  <2>2. /\ a \in StoreRecord /\ a.stage = "answer" /\ a.id = k.id /\ a.method = k.method
        /\ a.who = k.who /\ a.got = k.got /\ a.code = k.code
    BY <1>1, <2>1, AppliedIs, Zenon
  <2>3. Wide!Delegate(a) = Wide!Delegate(k)
    BY <2>2, Zenon DEF Wide!Delegate
  <2>4. Grown(chain, next) /\ AnswerBacked(next, a)
    <3>1. CASE k.method = "issue"
      <4> DEFINE r == [chain[k.id] EXCEPT !.minted = chain[k.id].minted \cup {k.code}]
      <4>1. k.id \in DOMAIN chain /\ next = [chain EXCEPT ![k.id] = r]
        BY <3>1 DEF Wide!Permits, Wide!Effect, Wide!Known
      <4>2. chain[k.id] \in Campaign
        BY <4>1, CampaignsAre, Zenon
      <4>3. r \in Campaign
        BY <1>1, <1>3, <4>2, CampaignTurns, Zenon
      <4>4. /\ r.owner = chain[k.id].owner /\ r.minted = chain[k.id].minted \cup {k.code}
            /\ r.burned = chain[k.id].burned /\ r.ever = chain[k.id].ever
        BY <4>2 DEF Campaign
      <4> HIDE DEF r, next
      <4>5. Grown(chain, next) /\ DOMAIN next = DOMAIN chain /\ next[k.id] = r
        BY <4>1, <4>3, <4>4, OneCampaignGrows, Zenon
      <4>. QED
        BY <2>2, <3>1, <4>1, <4>4, <4>5 DEF AnswerBacked
    <3>2. CASE k.method = "redeem"
      <4> DEFINE r == [chain[k.id] EXCEPT !.burned = chain[k.id].burned \cup {k.code}]
      <4>1. k.id \in DOMAIN chain /\ next = [chain EXCEPT ![k.id] = r]
        BY <3>2 DEF Wide!Permits, Wide!Effect, Wide!Known
      <4>2. chain[k.id] \in Campaign
        BY <4>1, CampaignsAre, Zenon
      <4>3. r \in Campaign
        BY <1>1, <1>3, <4>2, CampaignTurns, Zenon
      <4>4. /\ r.owner = chain[k.id].owner /\ r.burned = chain[k.id].burned \cup {k.code}
            /\ r.minted = chain[k.id].minted /\ r.ever = chain[k.id].ever
        BY <4>2 DEF Campaign
      <4> HIDE DEF r, next
      <4>5. Grown(chain, next) /\ DOMAIN next = DOMAIN chain /\ next[k.id] = r
        BY <4>1, <4>3, <4>4, OneCampaignGrows, Zenon
      <4>. QED
        BY <2>2, <3>2, <4>1, <4>4, <4>5 DEF AnswerBacked
    <3>3. CASE k.method = "addDelegate"
      <4> DEFINE w == Wide!Delegate(k)
                 r == [chain[k.id] EXCEPT !.delegates = chain[k.id].delegates \cup {w},
                                          !.ever = chain[k.id].ever \cup {w}]
      <4>1. k.id \in DOMAIN chain /\ next = [chain EXCEPT ![k.id] = r]
        <5>1. k.id \in DOMAIN chain /\ next = [chain EXCEPT ![k.id].delegates = @ \cup {w}, ![k.id].ever = @ \cup {w}]
          BY <3>3 DEF Wide!Permits, Wide!Effect, Wide!Known
        <5>. QED
          BY <5>1
      <4>2. chain[k.id] \in Campaign
        BY <4>1, CampaignsAre, Zenon
      <4>3. r \in Campaign
        BY <1>1, <1>3, <4>2, CampaignTurns, Zenon
      <4> HIDE DEF w
      <4>4. /\ r.owner = chain[k.id].owner /\ r.burned = chain[k.id].burned
            /\ r.minted = chain[k.id].minted /\ r.ever = chain[k.id].ever \cup {w}
        BY <4>2 DEF Campaign
      <4> HIDE DEF r, next
      <4>5. Grown(chain, next) /\ DOMAIN next = DOMAIN chain /\ next[k.id] = r
        BY <4>1, <4>3, <4>4, OneCampaignGrows, Zenon
      <4>. QED
        BY <2>2, <2>3, <3>3, <4>1, <4>4, <4>5 DEF AnswerBacked, w
    <3>4. CASE k.method = "removeDelegate"
      <4> DEFINE w == Wide!Delegate(k)
                 r == [chain[k.id] EXCEPT !.delegates = chain[k.id].delegates \ {w}]
      <4>1. k.id \in DOMAIN chain /\ next = [chain EXCEPT ![k.id] = r]
        BY <3>4 DEF Wide!Permits, Wide!Effect, Wide!Known
      <4>2. chain[k.id] \in Campaign
        BY <4>1, CampaignsAre, Zenon
      <4>3. r \in Campaign
        BY <1>1, <1>3, <4>2, CampaignTurns, Zenon
      <4>4. /\ r.owner = chain[k.id].owner /\ r.burned = chain[k.id].burned
            /\ r.minted = chain[k.id].minted /\ r.ever = chain[k.id].ever
        BY <4>2 DEF Campaign
      <4> HIDE DEF r, next
      <4>5. Grown(chain, next)
        BY <4>1, <4>3, <4>4, OneCampaignGrows, Zenon
      <4>. QED
        BY <2>2, <3>4, <4>5 DEF AnswerBacked
    <3>5. CASE k.method = "tallyWrite"
      <4>1. next = chain
        BY <3>5 DEF Wide!Effect
      <4>. QED
        BY <2>2, <3>5, <4>1 DEF AnswerBacked, Grown
    <3>. QED
      BY <1>5, <3>1, <3>2, <3>3, <3>4, <3>5 DEF Wide!Writes
  <2> HIDE DEF next
  <2>5. Backed(next, k)
    BY <2>4, BackingLasts, Zenon
  <2>6. a.method # "verify"
    BY <2>2 DEF Wide!Writes
  <2>7. Backed(next, a)
    BY <2>2, <2>4, <2>5, <2>6 DEF Backed, AnswerBacked
  <2>. QED
    BY <2>4, <2>7 DEF next, a
<1>. QED
  BY <1>4, <1>5

-----------------------------------------------------------------------------
(* The store: the mirror                                                   *)

LEMMA MirrorTurns ==
    ASSUME NEW st \in MirrorState
    PROVE  /\ st.campaigns \in Partial(Wide!Ids, Mirrored) /\ st.tokens \in Partial(Wide!Keys, BOOLEAN)
           /\ st.delegates \subseteq Wide!Ids \X Wallets
           /\ \A f \in Partial(Wide!Ids, Mirrored) : \A r : r = [st EXCEPT !.campaigns = f] =>
                 r \in MirrorState /\ r.campaigns = f /\ r.tokens = st.tokens /\ r.delegates = st.delegates
           /\ \A f \in Partial(Wide!Keys, BOOLEAN) : \A r : r = [st EXCEPT !.tokens = f] =>
                 r \in MirrorState /\ r.tokens = f /\ r.campaigns = st.campaigns /\ r.delegates = st.delegates
           /\ \A d \in SUBSET (Wide!Ids \X Wallets) : \A r : r = [st EXCEPT !.delegates = d] =>
                 r \in MirrorState /\ r.delegates = d /\ r.campaigns = st.campaigns /\ r.tokens = st.tokens
BY DEF MirrorState

\* A counter goes up; nothing else changes.
LEMMA BumpIs ==
    ASSUME NEW st \in MirrorState, NEW id, NEW field \in {"minted", "burned"},
           NEW r, r = Wide!Bump(st, id, field)
    PROVE  /\ r \in MirrorState /\ r.tokens = st.tokens /\ r.delegates = st.delegates
           /\ DOMAIN r.campaigns = DOMAIN st.campaigns
           /\ \A i \in DOMAIN r.campaigns : i # id => r.campaigns[i] = st.campaigns[i]
           /\ id \in DOMAIN r.campaigns =>
                 /\ r.campaigns[id].owner = st.campaigns[id].owner
                 /\ r.campaigns[id][field] = st.campaigns[id][field] + 1
                 /\ \A other \in {"minted", "burned"} :
                       other # field => r.campaigns[id][other] = st.campaigns[id][other]
<1> DEFINE f == st.campaigns
<1>1. f \in Partial(Wide!Ids, Mirrored)
  BY MirrorTurns
<1>2. CASE id \notin DOMAIN f
  <2>1. r = st
    BY <1>2 DEF Wide!Bump
  <2>. QED
    BY <1>2, <2>1, Zenon
<1>3. CASE id \in DOMAIN f
  <2> DEFINE v == [f[id] EXCEPT ![field] = f[id][field] + 1]
             g == [f EXCEPT ![id] = v]
  <2>1. r = [st EXCEPT !.campaigns = g]
    BY <1>3 DEF Wide!Bump
  <2>2. f[id] \in Mirrored
    BY <1>1, <1>3, PartialIs, Zenon
  <2>3. /\ v \in Mirrored /\ v.owner = f[id].owner /\ v[field] = f[id][field] + 1
        /\ \A other \in {"minted", "burned"} : other # field => v[other] = f[id][other]
    BY <2>2 DEF Mirrored
  <2>4. id \in Wide!Ids
    BY <1>1, <1>3, PartialIs, Zenon
  <2> HIDE DEF v, f
  <2>5. /\ DOMAIN g = DOMAIN f /\ g[id] = v /\ \A i \in DOMAIN f : i # id => g[i] = f[i]
        /\ g = [x \in DOMAIN g |-> g[x]]
    BY <1>3
  <2>6. DOMAIN g \subseteq Wide!Ids /\ \A x \in DOMAIN g : g[x] \in Mirrored
    BY <1>1, <1>3, <2>3, <2>5, PartialIs, Zenon
  <2> HIDE DEF g
  <2>7. g \in Partial(Wide!Ids, Mirrored)
    BY <2>5, <2>6, PartialIs, Zenon
  <2>8. r \in MirrorState /\ r.campaigns = g /\ r.tokens = st.tokens /\ r.delegates = st.delegates
    BY <2>1, <2>7, MirrorTurns
  <2>. QED
    BY <2>3, <2>5, <2>8, Zenon DEF f
<1>. QED
  BY <1>2, <1>3

LEMMA BumpTrue ==
    ASSUME Ledger(chain), NEW st, Truthful(chain, st), NEW id, NEW field \in {"minted", "burned"},
           NEW r, r = Wide!Bump(st, id, field)
    PROVE  Truthful(chain, r)
<1>1. st \in MirrorState
  BY Zenon DEF Truthful
<1>2. /\ r \in MirrorState /\ r.tokens = st.tokens /\ r.delegates = st.delegates
      /\ DOMAIN r.campaigns = DOMAIN st.campaigns
      /\ \A i \in DOMAIN r.campaigns : r.campaigns[i].owner = st.campaigns[i].owner
  BY <1>1, BumpIs, SMTT(30)
<1>3. TermsTrue(chain, r.campaigns)
  BY <1>2, Zenon DEF Truthful, TermsTrue
<1>. QED
  BY <1>2, <1>3, Zenon DEF Truthful

LEMMA EntryFits ==
    ASSUME NEW D, NEW R, NEW f \in Partial(D, R), NEW k \in D, NEW v \in R
    PROVE  Wide!Spread(f, Wide!Entry(k, v)) \in Partial(D, R)
BY EntryIs, Zenon

\* A coupon that is in the contract is put into the mirror.
LEMMA CouponShown ==
    ASSUME Ledger(chain), NEW st, Truthful(chain, st), NEW id \in DOMAIN chain, NEW code \in StoreCodes,
           code \in chain[id].minted, NEW b \in BOOLEAN, b = TRUE => code \in chain[id].burned
    PROVE  LET r == [st EXCEPT !.tokens = Wide!Spread(st.tokens, Wide!Entry(<<id, code>>, b))]
           IN  Truthful(chain, r) /\ r.campaigns = st.campaigns
<1>0. PICK r : r = [st EXCEPT !.tokens = Wide!Spread(st.tokens, Wide!Entry(<<id, code>>, b))]
  OBVIOUS
<1>1. st \in MirrorState
  BY Zenon DEF Truthful
<1>2. st.tokens \in Partial(Wide!Keys, BOOLEAN) /\ <<id, code>> \in Wide!Keys
  BY <1>1, CampaignsAre, MirrorTurns DEF Wide!Keys
<1>3. PICK g : g = Wide!Spread(st.tokens, Wide!Entry(<<id, code>>, b))
  OBVIOUS
<1>4. g \in Partial(Wide!Keys, BOOLEAN)
  <2>1. Wide!Spread(st.tokens, Wide!Entry(<<id, code>>, b)) \in Partial(Wide!Keys, BOOLEAN)
    <3>1. PICK spot, f : spot = <<id, code>> /\ f = st.tokens
      OBVIOUS
    <3>2. spot \in Wide!Keys /\ f \in Partial(Wide!Keys, BOOLEAN)
      BY <1>2, <3>1, Zenon
    <3>3. Wide!Spread(f, Wide!Entry(spot, b)) \in Partial(Wide!Keys, BOOLEAN)
      BY <3>2, EntryFits, Zenon
    <3>. QED
      BY <3>1, <3>3, Zenon
  <2>. QED
    BY <1>3, <2>1, Zenon
<1>5. /\ DOMAIN g = DOMAIN st.tokens \cup {<<id, code>>} /\ g[<<id, code>>] = b
      /\ \A x \in DOMAIN st.tokens : x # <<id, code>> => g[x] = st.tokens[x]
  BY <1>3 DEF Wide!Spread, Wide!Entry
<1>6. r \in MirrorState /\ r.tokens = g /\ r.campaigns = st.campaigns /\ r.delegates = st.delegates
  BY <1>0, <1>1, <1>3, <1>4, MirrorTurns
<1>7. CouponsTrue(chain, g)
  <2>1. ASSUME NEW x \in DOMAIN g
        PROVE  /\ x[1] \in DOMAIN chain /\ x[2] \in chain[x[1]].minted
               /\ g[x] = TRUE => x[2] \in chain[x[1]].burned
    <3>1. CASE x = <<id, code>>
      <4>1. x[1] = id /\ x[2] = code
        BY <3>1
      <4>. QED
        BY <1>5, <3>1, <4>1, Zenon
    <3>2. CASE x # <<id, code>>
      BY <1>5, <3>2, Zenon DEF Truthful, CouponsTrue
    <3>. QED
      BY <3>1, <3>2
  <2>. QED
    BY <2>1, Zenon DEF CouponsTrue
<1>8. Truthful(chain, r)
  BY <1>6, <1>7, Zenon DEF Truthful
<1>. QED
  BY <1>0, <1>6, <1>8, Zenon

\* Campaigns that the contract has are put into the mirror.
LEMMA CampaignsShown ==
    ASSUME Ledger(chain), NEW st, Truthful(chain, st), NEW h \in Partial(Wide!Ids, Mirrored),
           TermsTrue(chain, h)
    PROVE  LET r == [st EXCEPT !.campaigns = Wide!Spread(st.campaigns, h)]
           IN  /\ Truthful(chain, r) /\ r.tokens = st.tokens
               /\ \A x \in DOMAIN r.campaigns :
                     \/ x \in DOMAIN h /\ r.campaigns[x] = h[x]
                     \/ x \in DOMAIN st.campaigns /\ r.campaigns[x] = st.campaigns[x]
<1>0. PICK r : r = [st EXCEPT !.campaigns = Wide!Spread(st.campaigns, h)]
  OBVIOUS
<1>1. st \in MirrorState
  BY Zenon DEF Truthful
<1>2. st.campaigns \in Partial(Wide!Ids, Mirrored)
  BY <1>1, MirrorTurns
<1>3. PICK g : g = Wide!Spread(st.campaigns, h)
  OBVIOUS
<1>4. g \in Partial(Wide!Ids, Mirrored)
  BY <1>2, <1>3, SpreadIs, Zenon
<1>5. \A x \in DOMAIN g : \/ x \in DOMAIN h /\ g[x] = h[x]
                          \/ x \in DOMAIN st.campaigns /\ g[x] = st.campaigns[x]
  BY <1>3 DEF Wide!Spread
<1>6. r \in MirrorState /\ r.campaigns = g /\ r.tokens = st.tokens /\ r.delegates = st.delegates
  BY <1>0, <1>1, <1>3, <1>4, MirrorTurns
<1>7. TermsTrue(chain, g)
  BY <1>5, Zenon DEF Truthful, TermsTrue
<1>8. Truthful(chain, r)
  BY <1>6, <1>7, Zenon DEF Truthful
<1>9. \A x \in DOMAIN r.campaigns : \/ x \in DOMAIN h /\ r.campaigns[x] = h[x]
                                    \/ x \in DOMAIN st.campaigns /\ r.campaigns[x] = st.campaigns[x]
  BY <1>5, <1>6, Zenon
<1>. QED
  BY <1>0, <1>6, <1>8, <1>9, Zenon

\* A campaign that was created is put into the mirror.
LEMMA CreatedShown ==
    ASSUME Ledger(chain), NEW st, Truthful(chain, st), NEW id \in DOMAIN chain, NEW w, chain[id].owner = w
    PROVE  LET r == [st EXCEPT !.campaigns = Wide!Spread(st.campaigns,
                                   Wide!Entry(id, [owner |-> w, minted |-> 0, burned |-> 0]))]
           IN /\ Truthful(chain, r)
              /\ \A x \in DOMAIN r.campaigns :
                    \/ r.campaigns[x].minted = 0 /\ r.campaigns[x].burned = 0
                    \/ x \in DOMAIN st.campaigns /\ r.campaigns[x] = st.campaigns[x]
<1>1. PICK h, v : v = [owner |-> w, minted |-> 0, burned |-> 0] /\ h = Wide!Entry(id, v)
  OBVIOUS
<1>2. v.owner = w /\ v.minted = 0 /\ v.burned = 0 /\ v \in Mirrored
  BY <1>1, CampaignsAre DEF Mirrored
<1>3. DOMAIN h = {id} /\ h[id] = v /\ h = [x \in DOMAIN h |-> h[x]]
  BY <1>1 DEF Wide!Entry
<1>4. id \in Wide!Ids
  BY CampaignsAre, Zenon
<1>5. h \in Partial(Wide!Ids, Mirrored)
  <2>1. DOMAIN h \subseteq Wide!Ids /\ \A x \in DOMAIN h : h[x] \in Mirrored
    BY <1>2, <1>3, <1>4
  <2>. QED
    BY <1>3, <2>1, PartialIs
<1>6. TermsTrue(chain, h)
  BY <1>2, <1>3 DEF TermsTrue
<1>7. PICK q : q = [st EXCEPT !.campaigns = Wide!Spread(st.campaigns, h)]
  OBVIOUS
<1>8. /\ Truthful(chain, q)
      /\ \A x \in DOMAIN q.campaigns : \/ x \in DOMAIN h /\ q.campaigns[x] = h[x]
                                       \/ x \in DOMAIN st.campaigns /\ q.campaigns[x] = st.campaigns[x]
  <2>1. /\ Truthful(chain, [st EXCEPT !.campaigns = Wide!Spread(st.campaigns, h)])
        /\ \A x \in DOMAIN [st EXCEPT !.campaigns = Wide!Spread(st.campaigns, h)].campaigns :
              LET r == [st EXCEPT !.campaigns = Wide!Spread(st.campaigns, h)]
              IN  \/ x \in DOMAIN h /\ r.campaigns[x] = h[x]
                  \/ x \in DOMAIN st.campaigns /\ r.campaigns[x] = st.campaigns[x]
    BY <1>5, <1>6, CampaignsShown, Zenon
  <2>. QED
    BY <1>7, <2>1, Zenon
<1>9. \A x \in DOMAIN q.campaigns : \/ q.campaigns[x].minted = 0 /\ q.campaigns[x].burned = 0
                                    \/ x \in DOMAIN st.campaigns /\ q.campaigns[x] = st.campaigns[x]
  BY <1>2, <1>3, <1>8
<1>. QED
  BY <1>1, <1>7, <1>8, <1>9, Zenon

\* A burn is shown for a coupon that the mirror has.
LEMMA BurnShown ==
    ASSUME Ledger(chain), NEW st, Truthful(chain, st), NEW id \in DOMAIN chain, NEW code \in StoreCodes,
           code \in chain[id].burned
    PROVE  LET r == IF <<id, code>> \in DOMAIN st.tokens THEN [st EXCEPT !.tokens[<<id, code>>] = TRUE]
                    ELSE st
           IN Truthful(chain, r) /\ r.campaigns = st.campaigns
<1>1. CASE <<id, code>> \in DOMAIN st.tokens
  <2>1. PICK f, spot : f = st.tokens /\ spot = <<id, code>>
    OBVIOUS
  <2>2. spot[1] = id /\ spot[2] = code
    BY <2>1
  <2>3. spot \in DOMAIN f /\ f \in Partial(Wide!Keys, BOOLEAN)
    <3>1. st \in MirrorState
      BY Zenon DEF Truthful
    <3>. QED
      BY <1>1, <2>1, <3>1, MirrorTurns
  <2>4. DOMAIN f \subseteq Wide!Keys /\ \A x \in DOMAIN f : f[x] \in BOOLEAN
    BY <2>3, PartialIs
  <2>5. PICK g : g = [f EXCEPT ![spot] = TRUE]
    OBVIOUS
  <2>6. /\ DOMAIN g = DOMAIN f /\ g[spot] = TRUE /\ (\A x \in DOMAIN g : x # spot => g[x] = f[x])
        /\ g = [x \in DOMAIN g |-> g[x]]
    BY <2>3, <2>5
  <2>7. g \in Partial(Wide!Keys, BOOLEAN)
    <3>1. DOMAIN g \subseteq Wide!Keys /\ \A x \in DOMAIN g : g[x] \in BOOLEAN
      BY <2>4, <2>6
    <3>. QED
      BY <2>6, <3>1, PartialIs
  <2>8. PICK r : r = [st EXCEPT !.tokens = g]
    OBVIOUS
  <2>9. r \in MirrorState /\ r.tokens = g /\ r.campaigns = st.campaigns /\ r.delegates = st.delegates
    <3>1. st \in MirrorState
      BY Zenon DEF Truthful
    <3>. QED
      BY <2>7, <2>8, <3>1, MirrorTurns
  <2>10. CouponsTrue(chain, g)
    <3>1. CouponsTrue(chain, f)
      BY <2>1, Zenon DEF Truthful
    <3>2. ASSUME NEW x \in DOMAIN g
          PROVE  /\ x[1] \in DOMAIN chain /\ x[2] \in chain[x[1]].minted
                 /\ g[x] = TRUE => x[2] \in chain[x[1]].burned
      BY <2>2, <2>6, <3>1, Zenon DEF CouponsTrue
    <3>. QED
      BY <3>2, Zenon DEF CouponsTrue
  <2>11. Truthful(chain, r)
    BY <2>9, <2>10, Zenon DEF Truthful
  <2>12. r = [st EXCEPT !.tokens[<<id, code>>] = TRUE]
    BY <2>1, <2>5, <2>8
  <2>. QED
    BY <1>1, <2>9, <2>11, <2>12, Zenon
<1>2. CASE <<id, code>> \notin DOMAIN st.tokens
  BY <1>2, Zenon
<1>. QED
  BY <1>1, <1>2

LEMMA MergeTrue ==
    ASSUME Ledger(chain), NEW st, Truthful(chain, st), NEW k, Backed(chain, k)
    PROVE  /\ Truthful(chain, Wide!Merge(st, k))
           /\ Reached(chain, st.campaigns) => Reached(chain, Wide!Merge(st, k).campaigns)
<1>1. k.got \in Partial(Wide!Ids, Mirrored) /\ TermsTrue(chain, k.got) /\ Reached(chain, k.got)
  BY StoreRecordIs, Zenon DEF Backed
<1>2. PICK r : r = [st EXCEPT !.campaigns = Wide!Spread(st.campaigns, k.got)]
  OBVIOUS
<1>3. /\ Truthful(chain, r)
      /\ \A x \in DOMAIN r.campaigns : \/ x \in DOMAIN k.got /\ r.campaigns[x] = k.got[x]
                                       \/ x \in DOMAIN st.campaigns /\ r.campaigns[x] = st.campaigns[x]
  <2>1. LET q == [st EXCEPT !.campaigns = Wide!Spread(st.campaigns, k.got)]
        IN  /\ Truthful(chain, q) /\ q.tokens = st.tokens
            /\ \A x \in DOMAIN q.campaigns : \/ x \in DOMAIN k.got /\ q.campaigns[x] = k.got[x]
                                             \/ x \in DOMAIN st.campaigns /\ q.campaigns[x] = st.campaigns[x]
    BY <1>1, CampaignsShown, Zenon
  <2>. QED
    BY <1>2, <2>1, Zenon
<1>4. Reached(chain, st.campaigns) => Reached(chain, r.campaigns)
  BY <1>1, <1>3, Zenon DEF Reached
<1>. QED
  BY <1>2, <1>3, <1>4, Zenon DEF Wide!Merge

\* An update keeps the mirror true, and counters reached unless it counts an
\* issue or a burn that was counted before.
CountsRoom(ch, st, k) ==
    /\ k.method = "issue" /\ k.id \in DOMAIN st.campaigns =>
          st.campaigns[k.id].minted + 1 <= Cardinality(ch[k.id].minted)
    /\ k.method = "redeem" /\ k.id \in DOMAIN st.campaigns =>
          st.campaigns[k.id].burned + 1 <= Cardinality(ch[k.id].burned)

LEMMA BumpReached ==
    ASSUME NEW st \in MirrorState, Reached(chain, st.campaigns), NEW id,
           NEW field \in {"minted", "burned"},
           id \in DOMAIN st.campaigns => st.campaigns[id][field] + 1 <= Cardinality(chain[id][field])
    PROVE  Reached(chain, Wide!Bump(st, id, field).campaigns)
<1>1. PICK r : r = Wide!Bump(st, id, field)
  OBVIOUS
<1>2. /\ DOMAIN r.campaigns = DOMAIN st.campaigns
      /\ \A i \in DOMAIN r.campaigns : i # id => r.campaigns[i] = st.campaigns[i]
      /\ id \in DOMAIN r.campaigns =>
            /\ r.campaigns[id].owner = st.campaigns[id].owner
            /\ r.campaigns[id][field] = st.campaigns[id][field] + 1
            /\ \A other \in {"minted", "burned"} :
                  other # field => r.campaigns[id][other] = st.campaigns[id][other]
  BY <1>1, BumpIs
<1>3. ASSUME NEW i \in DOMAIN r.campaigns
      PROVE  /\ r.campaigns[i].minted <= Cardinality(chain[i].minted)
             /\ r.campaigns[i].burned <= Cardinality(chain[i].burned)
  <2>1. CASE i # id
    BY <1>2, <2>1, Zenon DEF Reached
  <2>2. CASE i = id
    <3>1. st.campaigns[id].minted <= Cardinality(chain[id].minted)
          /\ st.campaigns[id].burned <= Cardinality(chain[id].burned)
      BY <1>2, <2>2, Zenon DEF Reached
    <3>2. CASE field = "minted"
      <4>1. r.campaigns[id].minted = st.campaigns[id].minted + 1 /\ r.campaigns[id].burned = st.campaigns[id].burned
        BY <1>2, <2>2, <3>2
      <4>2. st.campaigns[id].minted + 1 <= Cardinality(chain[id].minted)
        BY <1>2, <2>2, <3>2
      <4>. QED
        BY <2>2, <3>1, <4>1, <4>2, Zenon
    <3>3. CASE field = "burned"
      <4>1. r.campaigns[id].burned = st.campaigns[id].burned + 1 /\ r.campaigns[id].minted = st.campaigns[id].minted
        BY <1>2, <2>2, <3>3
      <4>2. st.campaigns[id].burned + 1 <= Cardinality(chain[id].burned)
        BY <1>2, <2>2, <3>3
      <4>. QED
        BY <2>2, <3>1, <4>1, <4>2, Zenon
    <3>. QED
      BY <3>2, <3>3
  <2>. QED
    BY <2>1, <2>2
<1>4. Reached(chain, r.campaigns)
  BY <1>3, Zenon DEF Reached
<1>. QED
  BY <1>1, <1>4, Zenon

LEMMA UpdateTrue ==
    ASSUME Ledger(chain), NEW st, Truthful(chain, st), NEW k, Backed(chain, k), k.stage = "answer"
    PROVE  LET r == Wide!Updated(st, k)
           IN  /\ Truthful(chain, r)
               /\ Reached(chain, st.campaigns) /\ CountsRoom(chain, st, k) => Reached(chain, r.campaigns)
<1>1. k \in StoreRecord /\ k.id \in Wide!Ids /\ k.code \in StoreCodes /\ k.burned \in BOOLEAN
      /\ k.got \in Partial(Wide!Ids, Mirrored)
  BY StoreRecordIs, Zenon DEF Backed
<1>2. st \in MirrorState
  BY Zenon DEF Truthful
<1>3. PICK r : r = Wide!Updated(st, k)
  OBVIOUS
<1>4. Truthful(chain, r) /\ (Reached(chain, st.campaigns) /\ CountsRoom(chain, st, k) => Reached(chain, r.campaigns))
  <2>1. CASE k.method = "create"
    <3>1. r = [st EXCEPT !.campaigns = Wide!Spread(st.campaigns,
                            Wide!Entry(k.id, [owner |-> k.who, minted |-> 0, burned |-> 0]))]
      BY <1>3, <2>1 DEF Wide!Updated, Wide!Created
    <3>2. k.id \in DOMAIN chain /\ chain[k.id].owner = k.who
      BY <2>1, Zenon DEF Backed
    <3>3. /\ Truthful(chain, r)
          /\ \A x \in DOMAIN r.campaigns :
                \/ r.campaigns[x].minted = 0 /\ r.campaigns[x].burned = 0
                \/ x \in DOMAIN st.campaigns /\ r.campaigns[x] = st.campaigns[x]
      <4>1. LET q == [st EXCEPT !.campaigns = Wide!Spread(st.campaigns,
                           Wide!Entry(k.id, [owner |-> k.who, minted |-> 0, burned |-> 0]))]
            IN  /\ Truthful(chain, q)
                /\ \A x \in DOMAIN q.campaigns :
                      \/ q.campaigns[x].minted = 0 /\ q.campaigns[x].burned = 0
                      \/ x \in DOMAIN st.campaigns /\ q.campaigns[x] = st.campaigns[x]
        BY <3>2, CreatedShown, ZenonT(60)
      <4>. QED
        BY <3>1, <4>1, Zenon
    <3>4. ASSUME Reached(chain, st.campaigns), NEW x \in DOMAIN r.campaigns
          PROVE  /\ r.campaigns[x].minted <= Cardinality(chain[x].minted)
                 /\ r.campaigns[x].burned <= Cardinality(chain[x].burned)
      <4>1. CASE r.campaigns[x].minted = 0 /\ r.campaigns[x].burned = 0
        <5>1. x \in DOMAIN chain
          BY <3>3, Zenon DEF Truthful, TermsTrue
        <5>2. Cardinality(chain[x].minted) \in Nat /\ Cardinality(chain[x].burned) \in Nat
          BY <5>1, CampaignsAre, Zenon
        <5>3. \A n \in Nat : 0 <= n
          OBVIOUS
        <5>. QED
          BY <4>1, <5>2, <5>3, Zenon
      <4>. QED
        BY <3>3, <3>4, <4>1, Zenon DEF Reached
    <3>. QED
      BY <3>3, <3>4, Zenon DEF Reached
  <2>2. CASE k.method = "issue"
    <3>1. PICK q : q = [st EXCEPT !.tokens = Wide!Spread(st.tokens, Wide!Entry(<<k.id, k.code>>, FALSE))]
      OBVIOUS
    <3>2. r = Wide!Bump(q, k.id, "minted")
      BY <1>3, <2>2, <3>1 DEF Wide!Updated, Wide!Issued
    <3>3. k.id \in DOMAIN chain /\ k.code \in chain[k.id].minted
      BY <2>2, Zenon DEF Backed
    <3>4. Truthful(chain, q) /\ q.campaigns = st.campaigns
      BY <1>1, <3>1, <3>3, CouponShown, Zenon
    <3>5. Truthful(chain, r)
      BY <3>2, <3>4, BumpTrue
    <3>6. q \in MirrorState
      BY <3>4, Zenon DEF Truthful
    <3>7. ASSUME Reached(chain, st.campaigns), CountsRoom(chain, st, k) PROVE Reached(chain, r.campaigns)
      <4>1. k.id \in DOMAIN q.campaigns => q.campaigns[k.id]["minted"] + 1 <= Cardinality(chain[k.id]["minted"])
        BY <2>2, <3>4, <3>7, Zenon DEF CountsRoom
      <4>2. Reached(chain, q.campaigns)
        BY <3>4, <3>7, Zenon
      <4>3. "minted" \in {"minted", "burned"}
        OBVIOUS
      <4>. QED
        BY <3>2, <3>6, <4>1, <4>2, <4>3, BumpReached, Zenon
    <3>. QED
      BY <3>5, <3>7
  <2>3. CASE k.method = "redeem"
    <3>1. PICK q : q = IF <<k.id, k.code>> \in DOMAIN st.tokens
                       THEN [st EXCEPT !.tokens[<<k.id, k.code>>] = TRUE] ELSE st
      OBVIOUS
    <3>2. r = Wide!Bump(q, k.id, "burned")
      BY <1>3, <2>3, <3>1 DEF Wide!Updated, Wide!Redeemed
    <3>3. k.id \in DOMAIN chain /\ k.code \in chain[k.id].burned
      BY <2>3, Zenon DEF Backed
    <3>4. Truthful(chain, q) /\ q.campaigns = st.campaigns
      BY <1>1, <3>1, <3>3, BurnShown, Zenon
    <3>5. Truthful(chain, r)
      BY <3>2, <3>4, BumpTrue
    <3>6. q \in MirrorState
      BY <3>4, Zenon DEF Truthful
    <3>7. ASSUME Reached(chain, st.campaigns), CountsRoom(chain, st, k) PROVE Reached(chain, r.campaigns)
      <4>1. k.id \in DOMAIN q.campaigns => q.campaigns[k.id]["burned"] + 1 <= Cardinality(chain[k.id]["burned"])
        BY <2>3, <3>4, <3>7, Zenon DEF CountsRoom
      <4>2. Reached(chain, q.campaigns)
        BY <3>4, <3>7, Zenon
      <4>3. "burned" \in {"minted", "burned"}
        OBVIOUS
      <4>. QED
        BY <3>2, <3>6, <4>1, <4>2, <4>3, BumpReached, Zenon
    <3>. QED
      BY <3>5, <3>7
  <2>4. CASE k.method = "verify"
    <3>1. PICK q : q = Wide!Merge(st, k)
      OBVIOUS
    <3>2. r = [q EXCEPT !.tokens = Wide!Spread(q.tokens, Wide!Entry(<<k.id, k.code>>, k.burned))]
      BY <1>3, <2>4, <3>1 DEF Wide!Updated, Wide!Verified
    <3>3. Truthful(chain, q) /\ (Reached(chain, st.campaigns) => Reached(chain, q.campaigns))
      BY <3>1, MergeTrue, Zenon
    <3>4. k.id \in DOMAIN chain /\ k.code \in chain[k.id].minted
          /\ (k.burned = TRUE => k.code \in chain[k.id].burned)
      BY <2>4 DEF Backed
    <3>5. Truthful(chain, r) /\ r.campaigns = q.campaigns
      BY <1>1, <3>2, <3>3, <3>4, CouponShown, ZenonT(40)
    <3>. QED
      BY <3>3, <3>5, Zenon
  <2>5. CASE k.method = "load"
    <3>1. r = Wide!Merge(st, k)
      BY <1>3, <2>5 DEF Wide!Updated
    <3>. QED
      BY <3>1, MergeTrue, Zenon
  <2>6. CASE k.method = "addDelegate"
    <3>1. PICK d, w : w = Wide!Delegate(k) /\ d = st.delegates \cup {<<k.id, w>>}
      OBVIOUS
    <3>2. k.id \in DOMAIN chain /\ w \in chain[k.id].ever
      BY <2>6, <3>1, Zenon DEF Backed
    <3>3. w \in Wallets
      BY <3>2, CampaignsAre, Zenon
    <3>4. d \in SUBSET (Wide!Ids \X Wallets)
      BY <1>1, <1>2, <3>1, <3>3, MirrorTurns
    <3>5. r = [st EXCEPT !.delegates = d]
      BY <1>3, <2>6, <3>1 DEF Wide!Updated, Wide!DelegateAdded
    <3>6. r \in MirrorState /\ r.delegates = d /\ r.campaigns = st.campaigns /\ r.tokens = st.tokens
      BY <1>2, <3>4, <3>5, MirrorTurns
    <3>7. DelegatesTrue(chain, d)
      BY <3>1, <3>2 DEF Truthful, DelegatesTrue
    <3>. QED
      BY <3>6, <3>7, Zenon DEF Truthful
  <2>7. CASE k.method = "removeDelegate"
    <3>1. PICK d : d = st.delegates \ {<<k.id, Wide!Delegate(k)>>}
      OBVIOUS
    <3>2. d \in SUBSET (Wide!Ids \X Wallets)
      BY <1>2, <3>1, MirrorTurns
    <3>3. r = [st EXCEPT !.delegates = d]
      BY <1>3, <2>7, <3>1 DEF Wide!Updated, Wide!DelegateRemoved
    <3>4. r \in MirrorState /\ r.delegates = d /\ r.campaigns = st.campaigns /\ r.tokens = st.tokens
      BY <1>2, <3>2, <3>3, MirrorTurns
    <3>5. DelegatesTrue(chain, d)
      BY <3>1 DEF Truthful, DelegatesTrue
    <3>. QED
      BY <3>4, <3>5, Zenon DEF Truthful
  <2>8. CASE k.method \notin {"create", "issue", "redeem", "verify", "load", "addDelegate", "removeDelegate"}
    <3>1. r = st
      BY <1>3, <2>8 DEF Wide!Updated
    <3>. QED
      BY <3>1, Zenon
  <2>. QED
    BY <2>1, <2>2, <2>3, <2>4, <2>5, <2>6, <2>7, <2>8
<1>. QED
  BY <1>3, <1>4, Zenon

-----------------------------------------------------------------------------
(* The store: its invariant                                                *)

LogEntry == [id : Nat, status : {"pending", "ok", "err"}]

\* An entry of the log tells what became of its call.
Tells(calls, e) ==
    /\ e.id \in DOMAIN calls
    /\ e.status = "err" <=> calls[e.id].stage = "err"
    /\ e.status = "ok" <=> calls[e.id].stage \in {"returned", "ok"}

LogTrue(entries, calls) ==
    entries \in Seq(LogEntry) /\ Len(entries) <= LogLimit /\ \A i \in DOMAIN entries : Tells(calls, entries[i])

CallsBacked(ch, calls) ==
    calls \in Seq(StoreRecord) /\ \A c \in DOMAIN calls : Backed(ch, calls[c])

StoreInv ==
    /\ storeWallet \in Wallets \cup {NoWallet} /\ dirty \in BOOLEAN
    /\ Ledger(chain) /\ Truthful(chain, mirror) /\ Truthful(chain, seen)
    /\ dirty = TRUE \/ seen = mirror
    /\ CallsBacked(chain, storeCall) /\ LogTrue(log, storeCall)

LEMMA LedgerStays == Ledger(chain) => Grown(chain, chain)
BY Zenon DEF Grown

LEMMA OneStoreCallMoves ==
    ASSUME NEW calls \in Seq(StoreRecord), NEW c \in DOMAIN calls, NEW k \in StoreRecord,
           NEW next, next = [calls EXCEPT ![c] = k]
    PROVE  /\ next \in Seq(StoreRecord) /\ DOMAIN next = DOMAIN calls /\ next[c] = k
           /\ \A d \in DOMAIN calls : d # c => next[d] = calls[d]
<1>1. DOMAIN calls = 1..Len(calls)
  BY LenProperties
<1>. QED
  BY <1>1, ExceptSeq

\* Calls go on where the ledger grows, the log still telling their fate.
LEMMA CallGoesOn ==
    ASSUME StoreInv, NEW c \in DOMAIN storeCall, NEW k, Grown(chain, chain'), Backed(chain', k),
           storeCall' = [storeCall EXCEPT ![c] = k], UNCHANGED <<storeWallet, mirror, seen, dirty, log>>,
           k.stage = "err" <=> storeCall[c].stage = "err",
           k.stage \in {"returned", "ok"} <=> storeCall[c].stage \in {"returned", "ok"}
    PROVE  StoreInv'
<1>1. k \in StoreRecord /\ storeCall \in Seq(StoreRecord) /\ Ledger(chain)
  BY Zenon DEF Backed, StoreInv, CallsBacked
<1>2. /\ storeCall' \in Seq(StoreRecord) /\ DOMAIN storeCall' = DOMAIN storeCall /\ storeCall'[c] = k
      /\ \A d \in DOMAIN storeCall : d # c => storeCall'[d] = storeCall[d]
  BY <1>1, OneStoreCallMoves
<1>3. ASSUME NEW d \in DOMAIN storeCall' PROVE Backed(chain', storeCall'[d])
  <2>1. CASE d = c
    BY <1>2, <2>1, Zenon
  <2>2. CASE d # c
    <3>1. storeCall'[d] = storeCall[d] /\ Backed(chain, storeCall[d])
      BY <1>2, <2>2, Zenon DEF StoreInv, CallsBacked
    <3>2. Backed(chain', storeCall[d])
      BY <1>1, <3>1, BackingLasts, Zenon
    <3>. QED
      BY <3>1, <3>2, Zenon
  <2>. QED
    BY <2>1, <2>2
<1>4. ASSUME NEW e, Tells(storeCall, e) PROVE Tells(storeCall', e)
  <2>1. CASE e.id = c
    BY <1>2, <1>4, <2>1, Zenon DEF Tells
  <2>2. CASE e.id # c
    BY <1>2, <1>4, <2>2, Zenon DEF Tells
  <2>. QED
    BY <2>1, <2>2
<1>5. LogTrue(log', storeCall')
  BY <1>4, Zenon DEF StoreInv, LogTrue
<1>6. CallsBacked(chain', storeCall')
  BY <1>2, <1>3, Zenon DEF CallsBacked
<1>7. Truthful(chain', mirror) /\ Truthful(chain', seen) /\ Ledger(chain')
  BY <1>1, TruthLasts, Zenon DEF StoreInv, Grown
<1>. QED
  BY <1>5, <1>6, <1>7, Zenon DEF StoreInv

\* Every entry of a call that ends says how.
LEMMA LogResolves ==
    ASSUME NEW calls \in Seq(StoreRecord), LogTrue(log, calls), NEW c \in DOMAIN calls, NEW k \in StoreRecord,
           NEW end \in {"ok", "err"}, end = "err" <=> k.stage = "err",
           end = "ok" <=> k.stage \in {"returned", "ok"}, NEW next, next = [calls EXCEPT ![c] = k],
           Wide!Resolve(c, end)
    PROVE  LogTrue(log', next)
<1>1. log \in Seq(LogEntry) /\ Len(log) <= LogLimit /\ Len(log) \in Nat /\ DOMAIN log = 1..Len(log)
  BY LenProperties DEF LogTrue
<1>2. log' = [i \in 1..Len(log) |-> IF log[i].id = c THEN [log[i] EXCEPT !.status = end] ELSE log[i]]
  BY <1>1 DEF Wide!Resolve
<1>3. ASSUME NEW i \in 1..Len(log)
      PROVE  /\ log[i] \in LogEntry /\ log'[i] \in LogEntry /\ log'[i].id = log[i].id
             /\ log'[i].status = IF log[i].id = c THEN end ELSE log[i].status
  <2>1. log[i] \in LogEntry
    BY <1>1, <1>3, ElementOfSeq
  <2>2. log'[i] = IF log[i].id = c THEN [log[i] EXCEPT !.status = end] ELSE log[i]
    BY <1>2, <1>3
  <2>. QED
    BY <2>1, <2>2 DEF LogEntry
<1>4. log' \in Seq(LogEntry) /\ DOMAIN log' = 1..Len(log)
  <2>1. log' \in [1..Len(log) -> LogEntry]
    BY <1>2, <1>3
  <2>. QED
    BY <1>1, <2>1, SeqDef
<1>5. Len(log') = Len(log)
  <2>1. Len(log') \in Nat /\ DOMAIN log' = 1..Len(log')
    BY <1>4, LenProperties
  <2>2. \A m, n \in Nat : 1..m = 1..n => m = n
    <3> SUFFICES ASSUME NEW m \in Nat, NEW n \in Nat, 1..m = 1..n PROVE m = n
      OBVIOUS
    <3>1. m > 0 => m \in 1..n
      OBVIOUS
    <3>2. n > 0 => n \in 1..m
      OBVIOUS
    <3>. QED
      BY <3>1, <3>2
  <2>. QED
    BY <1>1, <1>4, <2>1, <2>2, Zenon
<1>6. /\ DOMAIN next = DOMAIN calls /\ next[c] = k
      /\ \A d \in DOMAIN calls : d # c => next[d] = calls[d]
  BY OneStoreCallMoves
<1>7. ASSUME NEW i \in DOMAIN log' PROVE Tells(next, log'[i])
  <2>1. Tells(calls, log[i])
    BY <1>1, <1>4, <1>7, Zenon DEF LogTrue
  <2>2. i \in 1..Len(log)
    BY <1>4
  <2>3. CASE log[i].id = c
    BY <1>3, <1>6, <2>1, <2>2, <2>3, Zenon DEF Tells
  <2>4. CASE log[i].id # c
    BY <1>3, <1>6, <2>1, <2>2, <2>4, Zenon DEF Tells
  <2>. QED
    BY <2>3, <2>4
<1>. QED
  BY <1>1, <1>4, <1>5, <1>7, Zenon DEF LogTrue

-----------------------------------------------------------------------------
(* The store: its steps                                                    *)

LEMMA CallsAre ==
    ASSUME StoreInv, NEW c \in DOMAIN storeCall
    PROVE  /\ storeCall \in Seq(StoreRecord) /\ Ledger(chain) /\ Backed(chain, storeCall[c])
           /\ storeCall[c] \in StoreRecord /\ Grown(chain, chain)
BY LedgerStays, Zenon DEF StoreInv, CallsBacked, Backed

LEMMA WriteSteps ==
    ASSUME StoreInv, NEW c \in DOMAIN storeCall, Wide!Apply(c)
    PROVE  StoreInv' /\ Grown(chain, chain')
<1>1. PICK k : k = storeCall[c]
  OBVIOUS
<1>2. /\ k.stage = "sent" /\ k.method \in Wide!Writes /\ k.who # NoWallet /\ Wide!Permits(k)
      /\ chain' = Wide!Effect(k) /\ UNCHANGED <<storeWallet, mirror, seen, dirty, log>>
  BY <1>1 DEF Wide!Apply, Wide!RequireWallet
<1>3. storeCall' = [storeCall EXCEPT ![c] = Applied(k)]
  BY <1>1 DEF Wide!Apply, Applied
<1>4. Ledger(chain) /\ Backed(chain, k) /\ k \in StoreRecord
  BY <1>1, CallsAre, Zenon
<1>5. k.who \in Wallets
  BY <1>2, <1>4, StoreRecordIs
<1>6. Grown(chain, chain') /\ Backed(chain', Applied(k))
  BY <1>2, <1>4, <1>5, WriteLands, Zenon
<1>7. Applied(k).stage = "answer"
  BY <1>4 DEF Applied, StoreRecord
<1>8. Applied(k).stage = "err" <=> storeCall[c].stage = "err"
  BY <1>1, <1>2, <1>7
<1>9. Applied(k).stage \in {"returned", "ok"} <=> storeCall[c].stage \in {"returned", "ok"}
  BY <1>1, <1>2, <1>7
<1>. QED
  BY <1>2, <1>3, <1>6, <1>8, <1>9, CallGoesOn, Zenon

LEMMA TokenReads ==
    ASSUME StoreInv, NEW c \in DOMAIN storeCall, Wide!ReadToken(c)
    PROVE  StoreInv' /\ chain' = chain
<1>1. PICK k : k = storeCall[c]
  OBVIOUS
<1>2. k.stage = "sent" /\ UNCHANGED <<chain, storeWallet, mirror, seen, dirty, log>>
  BY <1>1 DEF Wide!ReadToken
<1>3. Ledger(chain) /\ Backed(chain, k) /\ k \in StoreRecord /\ Grown(chain, chain')
  BY <1>1, <1>2, CallsAre, Zenon
<1>4. CASE k.method = "verify"
  <2>1. PICK b \in BOOLEAN : b = (k.code \in chain[k.id].burned)
    <3>1. (k.code \in chain[k.id].burned) \in BOOLEAN
      OBVIOUS
    <3>. QED
      BY <3>1, Zenon
  <2>2. b = TRUE => k.code \in chain[k.id].burned
    BY <2>1
  <2>3. k.id \in DOMAIN chain /\ k.code \in chain[k.id].minted
        /\ storeCall' = [storeCall EXCEPT ![c] = [k EXCEPT !.stage = "campaign", !.burned = b]]
    BY <1>1, <1>4, <2>1 DEF Wide!ReadToken, Wide!Known
  <2>4. PICK r : r = [k EXCEPT !.stage = "campaign", !.burned = b]
    OBVIOUS
  <2>5. "campaign" \in Stages
    BY DEF Stages
  <2>6. r \in StoreRecord /\ r.stage = "campaign" /\ r.method = k.method /\ r.who = k.who /\ r.id = k.id
        /\ r.code = k.code /\ r.burned = b /\ r.got = k.got
    BY <1>3, <2>2, <2>4, <2>5 DEF StoreRecord
  <2>7. Backed(chain, r)
    BY <1>3, <1>4, <2>2, <2>3, <2>6 DEF Backed
  <2>8. Backed(chain', r)
    BY <1>2, <2>7, Zenon
  <2>9. r.stage = "err" <=> storeCall[c].stage = "err"
    BY <1>1, <1>2, <2>6
  <2>10. r.stage \in {"returned", "ok"} <=> storeCall[c].stage \in {"returned", "ok"}
    BY <1>1, <1>2, <2>6
  <2>11. storeCall' = [storeCall EXCEPT ![c] = r]
    BY <2>3, <2>4, Zenon
  <2>. QED
    BY <1>2, <1>3, <2>8, <2>9, <2>10, <2>11, CallGoesOn, Zenon
<1>5. CASE k.method # "verify"
  <2>1. k.method = "read" /\ storeCall' = [storeCall EXCEPT ![c] = [k EXCEPT !.stage = "answer"]]
    BY <1>1, <1>5 DEF Wide!ReadToken, Wide!Stage
  <2>2. PICK r : r = [k EXCEPT !.stage = "answer"]
    OBVIOUS
  <2>3. r \in StoreRecord /\ r.stage = "answer" /\ r.method = k.method /\ r.who = k.who /\ r.id = k.id
        /\ r.code = k.code /\ r.burned = k.burned /\ r.got = k.got
    BY <1>3, <2>2 DEF StoreRecord, Stages
  <2>4. Backed(chain, r)
    BY <1>3, <2>1, <2>3 DEF Backed
  <2>5. Backed(chain', r)
    BY <1>2, <2>4, Zenon
  <2>6. r.stage = "err" <=> storeCall[c].stage = "err"
    BY <1>1, <1>2, <2>3
  <2>7. r.stage \in {"returned", "ok"} <=> storeCall[c].stage \in {"returned", "ok"}
    BY <1>1, <1>2, <2>3
  <2>8. storeCall' = [storeCall EXCEPT ![c] = r]
    BY <2>1, <2>2, Zenon
  <2>. QED
    BY <1>2, <1>3, <2>5, <2>6, <2>7, <2>8, CallGoesOn, Zenon
<1>. QED
  BY <1>2, <1>4, <1>5

\* A snapshot is what the contract says of a campaign.
LEMMA SnapshotIs ==
    ASSUME Ledger(chain), NEW id \in DOMAIN chain
    PROVE  LET v == Wide!Snapshot(id)
           IN  /\ v \in Mirrored /\ v.owner = chain[id].owner
               /\ v.minted = Cardinality(chain[id].minted) /\ v.burned = Cardinality(chain[id].burned)
<1>1. Cardinality(chain[id].minted) \in Nat /\ Cardinality(chain[id].burned) \in Nat /\ chain[id].owner \in Wallets
  BY CampaignsAre, Zenon
<1>2. Wide!Snapshot(id) = [owner |-> chain[id].owner, minted |-> Cardinality(chain[id].minted),
                           burned |-> Cardinality(chain[id].burned)]
  BY WideCounts, Zenon DEF Wide!Snapshot
<1>. QED
  BY <1>1, <1>2 DEF Mirrored

LEMMA SnapshotRead ==
    ASSUME Ledger(chain), NEW id \in DOMAIN chain, NEW f \in Partial(Wide!Ids, Mirrored),
           TermsTrue(chain, f), Reached(chain, f)
    PROVE  LET g == Wide!Spread(f, Wide!Entry(id, Wide!Snapshot(id)))
           IN  g \in Partial(Wide!Ids, Mirrored) /\ TermsTrue(chain, g) /\ Reached(chain, g)
<1>1. PICK v : v = Wide!Snapshot(id)
  OBVIOUS
<1>2. /\ v \in Mirrored /\ v.owner = chain[id].owner
      /\ v.minted = Cardinality(chain[id].minted) /\ v.burned = Cardinality(chain[id].burned)
  BY <1>1, SnapshotIs, Zenon
<1>3. id \in Wide!Ids /\ Cardinality(chain[id].minted) \in Nat /\ Cardinality(chain[id].burned) \in Nat
  BY CampaignsAre, Zenon
<1>4. PICK g : g = Wide!Spread(f, Wide!Entry(id, v))
  OBVIOUS
<1>5. g \in Partial(Wide!Ids, Mirrored)
  BY <1>2, <1>3, <1>4, EntryFits, Zenon
<1>6. DOMAIN g = DOMAIN f \cup {id} /\ g[id] = v /\ \A x \in DOMAIN f : x # id => g[x] = f[x]
  BY <1>4 DEF Wide!Spread, Wide!Entry
<1>7. TermsTrue(chain, g)
  BY <1>2, <1>6 DEF TermsTrue
<1>8. Reached(chain, g)
  <2>1. \A n \in Nat : n <= n
    OBVIOUS
  <2>2. ASSUME NEW x \in DOMAIN g
        PROVE  g[x].minted <= Cardinality(chain[x].minted) /\ g[x].burned <= Cardinality(chain[x].burned)
    <3>1. CASE x = id
      BY <1>2, <1>3, <1>6, <2>1, <3>1, Zenon
    <3>2. CASE x # id
      BY <1>6, <3>2, Zenon DEF Reached
    <3>. QED
      BY <3>1, <3>2
  <2>. QED
    BY <2>2, Zenon DEF Reached
<1>. QED
  BY <1>1, <1>4, <1>5, <1>7, <1>8, Zenon

LEMMA CampaignReads ==
    ASSUME StoreInv, NEW c \in DOMAIN storeCall, NEW id \in Wide!Ids, Wide!ReadCampaign(c, id)
    PROVE  StoreInv' /\ chain' = chain
<1>1. PICK k : k = storeCall[c]
  OBVIOUS
<1>2. /\ \/ k.stage = "campaign" /\ id = k.id
         \/ k.method = "load" /\ k.stage = "sent" /\ id \in Wide!Missing(k)
      /\ UNCHANGED <<chain, storeWallet, mirror, seen, dirty, log>>
  BY <1>1 DEF Wide!ReadCampaign
<1>3. Ledger(chain) /\ Backed(chain, k) /\ k \in StoreRecord /\ Grown(chain, chain')
  BY <1>1, <1>2, CallsAre, Zenon
<1>4. id \in DOMAIN chain
  BY <1>2, <1>3 DEF Backed, Wide!Missing
<1>5. k.got \in Partial(Wide!Ids, Mirrored) /\ TermsTrue(chain, k.got) /\ Reached(chain, k.got)
  BY <1>3, StoreRecordIs, Zenon DEF Backed
<1>6. PICK g : g = Wide!Spread(k.got, Wide!Entry(id, Wide!Snapshot(id)))
  OBVIOUS
<1>7. g \in Partial(Wide!Ids, Mirrored) /\ TermsTrue(chain, g) /\ Reached(chain, g)
  BY <1>3, <1>4, <1>5, <1>6, SnapshotRead, Zenon
<1>8. PICK s : s = IF k.method = "verify" THEN "answer" ELSE k.stage
  OBVIOUS
<1>9. storeCall' = [storeCall EXCEPT ![c] = [k EXCEPT !.stage = s, !.got = g]]
  BY <1>1, <1>3, <1>6, <1>8 DEF Wide!ReadCampaign, StoreRecord
<1>10. PICK r : r = [k EXCEPT !.stage = s, !.got = g]
  OBVIOUS
<1>11. s \in Stages /\ s \notin {"err", "returned", "ok"} /\ k.stage \notin {"err", "returned", "ok"}
  BY <1>2, <1>8 DEF Stages
<1>12. r \in StoreRecord /\ r.stage = s /\ r.method = k.method /\ r.who = k.who /\ r.id = k.id
       /\ r.code = k.code /\ r.burned = k.burned /\ r.got = g
  BY <1>3, <1>7, <1>10, <1>11 DEF StoreRecord
<1>13. k.stage = "campaign" => k.method = "verify"
  BY <1>3 DEF Backed
<1>14. Backed(chain, r)
  BY <1>2, <1>3, <1>7, <1>8, <1>12, <1>13 DEF Backed
<1>15. Backed(chain', r)
  BY <1>2, <1>14, Zenon
<1>16. r.stage = "err" <=> storeCall[c].stage = "err"
  BY <1>1, <1>11, <1>12
<1>17. r.stage \in {"returned", "ok"} <=> storeCall[c].stage \in {"returned", "ok"}
  BY <1>1, <1>11, <1>12
<1>18. storeCall' = [storeCall EXCEPT ![c] = r]
  BY <1>9, <1>10, Zenon
<1>. QED
  BY <1>2, <1>3, <1>15, <1>16, <1>17, <1>18, CallGoesOn, Zenon

\* A call that goes on without a read, and one that returns to its card.
LEMMA StageMoves ==
    ASSUME StoreInv, NEW c \in DOMAIN storeCall, NEW s \in Stages,
           s \notin {"campaign", "err"}, storeCall[c].stage # "err",
           s \in {"returned", "ok"} <=> storeCall[c].stage \in {"returned", "ok"},
           s = "answer" => storeCall[c].stage = "campaign" \/ storeCall[c].method = "load",
           storeCall' = Wide!Stage(c, s), UNCHANGED <<chain, storeWallet, mirror, seen, dirty, log>>
    PROVE  StoreInv'
<1>1. PICK k : k = storeCall[c]
  OBVIOUS
<1>2. Ledger(chain) /\ Backed(chain, k) /\ k \in StoreRecord /\ Grown(chain, chain')
  BY <1>1, CallsAre, Zenon
<1>3. storeCall' = [storeCall EXCEPT ![c] = [k EXCEPT !.stage = s]]
  BY <1>1 DEF Wide!Stage
<1>4. PICK r : r = [k EXCEPT !.stage = s]
  OBVIOUS
<1>5. r \in StoreRecord /\ r.stage = s /\ r.method = k.method /\ r.who = k.who /\ r.id = k.id
      /\ r.code = k.code /\ r.burned = k.burned /\ r.got = k.got
  BY <1>2, <1>4 DEF StoreRecord
<1>6. Backed(chain, r)
  <2>1. CASE s = "answer"
    BY <1>1, <1>2, <1>5, <2>1 DEF Backed
  <2>2. CASE s # "answer"
    BY <1>1, <1>2, <1>5, <2>2 DEF Backed
  <2>. QED
    BY <2>1, <2>2
<1>7. Backed(chain', r)
  BY <1>6, Zenon
<1>8. storeCall' = [storeCall EXCEPT ![c] = r]
  BY <1>3, <1>4, Zenon
<1>9. r.stage = "err" <=> storeCall[c].stage = "err"
  BY <1>5
<1>10. r.stage \in {"returned", "ok"} <=> storeCall[c].stage \in {"returned", "ok"}
  BY <1>5
<1>. QED
  BY <1>2, <1>7, <1>8, <1>9, <1>10, CallGoesOn, Zenon

LEMMA CallsTurn ==
    ASSUME StoreInv, NEW c \in DOMAIN storeCall, Wide!ReadFails(c) \/ Wide!Return(c)
    PROVE  StoreInv' /\ chain' = chain
<1>1. CASE Wide!ReadFails(c)
  <2>1. /\ storeCall[c].stage = "campaign" \/ (storeCall[c].method = "load" /\ storeCall[c].stage = "sent")
        /\ storeCall' = Wide!Stage(c, "answer") /\ UNCHANGED <<chain, storeWallet, mirror, seen, dirty, log>>
    BY <1>1 DEF Wide!ReadFails
  <2>2. /\ "answer" \in Stages /\ "answer" \notin {"campaign", "err"} /\ storeCall[c].stage # "err"
        /\ ("answer" \in {"returned", "ok"} <=> storeCall[c].stage \in {"returned", "ok"})
    BY <2>1 DEF Stages
  <2>. QED
    BY <2>1, <2>2, StageMoves, Zenon
<1>2. CASE Wide!Return(c)
  <2>1. /\ storeCall[c].stage = "returned" /\ storeCall' = Wide!Stage(c, "ok")
        /\ UNCHANGED <<chain, storeWallet, mirror, seen, dirty, log>>
    BY <1>2 DEF Wide!Return
  <2>2. /\ "ok" \in Stages /\ "ok" \notin {"campaign", "err"} /\ storeCall[c].stage # "err" /\ "ok" # "answer"
        /\ ("ok" \in {"returned", "ok"} <=> storeCall[c].stage \in {"returned", "ok"})
    BY <2>1 DEF Stages
  <2>. QED
    BY <2>1, <2>2, StageMoves, Zenon
<1>. QED
  BY <1>1, <1>2

\* A call ends, and its entries say how.
LEMMA CallEnds ==
    ASSUME StoreInv, NEW c \in DOMAIN storeCall, NEW s \in {"returned", "err"}, NEW end \in {"ok", "err"},
           end = "err" <=> s = "err", storeCall' = Wide!Stage(c, s), Wide!Resolve(c, end),
           UNCHANGED <<chain, storeWallet>>, Truthful(chain, mirror'), Truthful(chain, seen'), dirty' = TRUE
    PROVE  StoreInv'
<1>1. PICK k : k = storeCall[c]
  OBVIOUS
<1>2. Ledger(chain) /\ Backed(chain, k) /\ k \in StoreRecord /\ storeCall \in Seq(StoreRecord)
  BY <1>1, CallsAre, Zenon
<1>3. storeCall' = [storeCall EXCEPT ![c] = [k EXCEPT !.stage = s]]
  BY <1>1 DEF Wide!Stage
<1>4. PICK r : r = [k EXCEPT !.stage = s]
  OBVIOUS
<1>5. r \in StoreRecord /\ r.stage = s /\ r.method = k.method /\ r.who = k.who /\ r.id = k.id
      /\ r.code = k.code /\ r.burned = k.burned /\ r.got = k.got
  BY <1>2, <1>4 DEF StoreRecord, Stages
<1>6. Backed(chain, r)
  BY <1>2, <1>5 DEF Backed
<1>7. storeCall' = [storeCall EXCEPT ![c] = r]
  BY <1>3, <1>4, Zenon
<1>8. /\ storeCall' \in Seq(StoreRecord) /\ DOMAIN storeCall' = DOMAIN storeCall /\ storeCall'[c] = r
      /\ \A d \in DOMAIN storeCall : d # c => storeCall'[d] = storeCall[d]
  BY <1>2, <1>5, <1>7, OneStoreCallMoves
<1>9. CallsBacked(chain', storeCall')
  BY <1>6, <1>8, Zenon DEF StoreInv, CallsBacked
<1>10. (end = "err" <=> r.stage = "err") /\ (end = "ok" <=> r.stage \in {"returned", "ok"})
  BY <1>5
<1>11. LogTrue(log, storeCall)
  BY Zenon DEF StoreInv
<1>12. LogTrue(log', storeCall')
  BY <1>2, <1>5, <1>7, <1>10, <1>11, LogResolves, ZenonT(60)
<1>. QED
  BY <1>9, <1>12, Zenon DEF StoreInv

LEMMA AnswerComes ==
    ASSUME StoreInv, NEW c \in DOMAIN storeCall, Wide!Answer(c)
    PROVE  StoreInv' /\ chain' = chain
<1>1. PICK k : k = storeCall[c]
  OBVIOUS
<1>2. PICK next : next = Wide!Updated(mirror, k)
  OBVIOUS
<1>3. /\ k.stage = "answer" /\ mirror' = next /\ seen' = (IF dirty THEN seen ELSE next) /\ dirty' = TRUE
      /\ Wide!Resolve(c, "ok") /\ storeCall' = Wide!Stage(c, "returned") /\ UNCHANGED <<chain, storeWallet>>
  BY <1>1, <1>2, Zenon DEF Wide!Answer, Wide!ApplyState
<1>4. Ledger(chain) /\ Backed(chain, k) /\ Truthful(chain, mirror) /\ Truthful(chain, seen)
  BY <1>1, CallsAre, Zenon DEF StoreInv
<1>5. Truthful(chain, next)
  BY <1>2, <1>3, <1>4, UpdateTrue, Zenon
<1>6. Truthful(chain, mirror') /\ Truthful(chain, seen')
  BY <1>3, <1>4, <1>5
<1>7. "returned" \in {"returned", "err"} /\ "ok" \in {"ok", "err"} /\ ("ok" = "err" <=> "returned" = "err")
  OBVIOUS
<1>. QED
  BY <1>3, <1>6, <1>7, CallEnds, Zenon

LEMMA CallFails ==
    ASSUME StoreInv, NEW c \in DOMAIN storeCall, Wide!Fail(c)
    PROVE  StoreInv' /\ chain' = chain
<1>1. /\ Wide!Resolve(c, "err") /\ dirty' = TRUE /\ storeCall' = Wide!Stage(c, "err")
      /\ UNCHANGED <<chain, storeWallet, mirror, seen>>
  BY Zenon DEF Wide!Fail
<1>2. Truthful(chain, mirror') /\ Truthful(chain, seen')
  BY <1>1, Zenon DEF StoreInv
<1>3. "err" \in {"returned", "err"} /\ "err" \in {"ok", "err"}
  OBVIOUS
<1>. QED
  BY <1>1, <1>2, <1>3, CallEnds, Zenon

LEMMA BurnElsewhere ==
    ASSUME StoreInv, NEW id, NEW code \in StoreCodes, Wide!Elsewhere(id, code)
    PROVE  StoreInv' /\ Grown(chain, chain')
<1>1. /\ id \in DOMAIN chain /\ UNCHANGED <<storeWallet, mirror, seen, dirty, log, storeCall>>
      /\ chain' = [chain EXCEPT ![id] = [chain[id] EXCEPT !.burned = chain[id].burned \cup {code}]]
  BY DEF Wide!Elsewhere, Wide!Known
<1>2. PICK r : r = [chain[id] EXCEPT !.burned = chain[id].burned \cup {code}]
  OBVIOUS
<1>3. Ledger(chain) /\ chain[id] \in Campaign
  BY <1>1, CampaignsAre, Zenon DEF StoreInv
<1>4. r.owner = chain[id].owner /\ r.minted = chain[id].minted /\ r.ever = chain[id].ever
      /\ r.burned = chain[id].burned \cup {code}
  BY <1>2, <1>3 DEF Campaign
<1>5. r \in Campaign
  <2>1. /\ chain[id] \in [owner : Wallets, minted : SUBSET StoreCodes, burned : SUBSET StoreCodes,
                        delegates : SUBSET Wallets, ever : SUBSET Wallets]
        /\ IsFiniteSet(chain[id].minted) /\ IsFiniteSet(chain[id].burned)
    BY <1>3 DEF Campaign
  <2>2. IsFiniteSet(chain[id].burned \cup {code})
    BY <2>1, FS_AddElement
  <2>. QED
    BY <1>2, <2>1, <2>2 DEF Campaign
<1>6. chain' = [chain EXCEPT ![id] = r]
  BY <1>1, <1>2, Zenon
<1>7. chain[id].minted \subseteq r.minted /\ chain[id].burned \subseteq r.burned /\ chain[id].ever \subseteq r.ever
  BY <1>4
<1>8. Grown(chain, chain')
  BY <1>1, <1>3, <1>4, <1>5, <1>6, <1>7, OneCampaignGrows, Zenon
<1>9. Truthful(chain', mirror') /\ Truthful(chain', seen') /\ Ledger(chain')
  BY <1>1, <1>8, TruthLasts, Zenon DEF StoreInv, Grown
<1>10. CallsBacked(chain', storeCall')
  BY <1>1, <1>3, <1>8, BackingLasts, Zenon DEF StoreInv, CallsBacked
<1>. QED
  BY <1>1, <1>8, <1>9, <1>10, Zenon DEF StoreInv

LEMMA FirstOnes ==
    ASSUME NEW S, NEW s, NEW n \in Nat, n >= 1, \A i \in 1..n : s[i] \in S
    PROVE  LET q == SubSeq(s, 1, n)
           IN  q \in Seq(S) /\ Len(q) = n /\ DOMAIN q = 1..n /\ \A i \in 1..n : q[i] = s[i]
<1>1. PICK q : q = SubSeq(s, 1, n)
  OBVIOUS
<1>2. q \in Seq(S) /\ Len(q) = (IF 1 <= n THEN n - 1 + 1 ELSE 0) /\ \A i \in 1..(n - 1 + 1) : q[i] = s[1 + i - 1]
  BY <1>1, SubSeqProperties
<1>3. Len(q) = n /\ 1..(n - 1 + 1) = 1..n /\ \A i \in 1..n : 1 + i - 1 = i
  BY <1>2
<1>4. DOMAIN q = 1..n
  BY <1>2, <1>3, LenProperties
<1>5. \A i \in 1..n : q[i] = s[i]
  BY <1>2, <1>3
<1>. QED
  BY <1>1, <1>2, <1>3, <1>4, <1>5, Zenon

\* What is put at the front of the log, cut to its length.
LEMMA LogGrows ==
    ASSUME NEW old \in Seq(LogEntry), Len(old) <= LogLimit, NEW e \in LogEntry
    PROVE  LET next == SubSeq(<<e>> \o old, 1, IF Len(old) < LogLimit THEN Len(old) + 1 ELSE LogLimit)
           IN  /\ next \in Seq(LogEntry) /\ Len(next) <= LogLimit
               /\ \A i \in DOMAIN next : next[i] = e \/ \E j \in DOMAIN old : next[i] = old[j]
<1>1. Len(old) \in Nat /\ DOMAIN old = 1..Len(old)
  BY LenProperties
<1>2. PICK s : s = <<e>> \o old
  OBVIOUS
<1>3. <<e>> \in Seq(LogEntry) /\ Len(<<e>>) = 1 /\ <<e>>[1] = e
  OBVIOUS
<1>4. s \in Seq(LogEntry) /\ Len(s) = Len(old) + 1
      /\ \A i \in 1..Len(old) + 1 : s[i] = IF i <= 1 THEN <<e>>[i] ELSE old[i - 1]
  BY <1>1, <1>2, <1>3, ConcatProperties
<1>5. PICK n : n = IF Len(old) < LogLimit THEN Len(old) + 1 ELSE LogLimit
  OBVIOUS
<1>6. n \in Nat /\ n >= 1 /\ n <= LogLimit /\ n <= Len(old) + 1
  BY <1>1, <1>5, StoreBounds
<1>7. ASSUME NEW i \in 1..n PROVE s[i] \in LogEntry /\ (s[i] = e \/ \E j \in DOMAIN old : s[i] = old[j])
  <2>1. i \in 1..Len(old) + 1 /\ i \in 1..Len(s)
    BY <1>1, <1>4, <1>6
  <2>2. s[i] \in LogEntry
    BY <1>4, <2>1, ElementOfSeq
  <2>3. CASE i <= 1
    BY <1>3, <1>4, <2>1, <2>2, <2>3
  <2>4. CASE ~ (i <= 1)
    <3>1. s[i] = old[i - 1]
      BY <1>4, <2>1, <2>4
    <3>2. i - 1 \in 1..Len(old)
      BY <1>1, <2>1, <2>4
    <3>. QED
      BY <1>1, <2>2, <3>1, <3>2
  <2>. QED
    BY <2>3, <2>4
<1>8. PICK next : next = SubSeq(s, 1, n)
  OBVIOUS
<1>9. next \in Seq(LogEntry) /\ Len(next) = n /\ DOMAIN next = 1..n /\ \A i \in 1..n : next[i] = s[i]
  <2>1. \A i \in 1..n : s[i] \in LogEntry
    BY <1>7
  <2>2. LET q == SubSeq(s, 1, n)
        IN  q \in Seq(LogEntry) /\ Len(q) = n /\ DOMAIN q = 1..n /\ \A i \in 1..n : q[i] = s[i]
    BY <1>6, <2>1, FirstOnes
  <2>. QED
    BY <1>8, <2>2, Zenon
<1>10. Len(next) <= LogLimit
  BY <1>6, <1>9, Zenon
<1>11. \A i \in DOMAIN next : next[i] = e \/ \E j \in DOMAIN old : next[i] = old[j]
  BY <1>7, <1>9, Zenon
<1>. QED
  BY <1>2, <1>5, <1>8, <1>9, <1>10, <1>11, Zenon

LEMMA CallStarts ==
    ASSUME StoreInv, NEW method \in Methods, NEW who \in Wallets \cup {NoWallet}, NEW id \in Wide!Ids,
           NEW code \in StoreCodes, Wide!Start(method, who, id, code),
           storeWallet' \in Wallets \cup {NoWallet}, UNCHANGED <<chain, mirror, seen>>
    PROVE  StoreInv'
<1>1. PICK k : k = [method |-> method, who |-> who, id |-> id, code |-> code,
                    stage |-> "sent", burned |-> FALSE, got |-> <<>>]
  OBVIOUS
<1>2. k.stage = "sent" /\ DOMAIN k.got = {}
  BY <1>1
<1>3. k \in StoreRecord
  <2>1. <<>> \in Partial(Wide!Ids, Mirrored)
    <3>1. DOMAIN <<>> = {} /\ <<>> = [x \in {} |-> x]
      OBVIOUS
    <3>2. <<>> \in [{} -> Mirrored]
      BY <3>1
    <3>. QED
      BY <3>2 DEF Partial
  <2>. QED
    BY <1>1, <2>1 DEF StoreRecord, Stages
<1>4. Backed(chain, k)
  BY <1>2, <1>3 DEF Backed, TermsTrue, Reached
<1>5. /\ storeCall' = Append(storeCall, k) /\ dirty' = TRUE
      /\ log' = IF method = "load" THEN log
                ELSE SubSeq(<<[id |-> Len(storeCall) + 1, status |-> "pending"]>> \o log,
                            1, IF Len(log) < LogLimit THEN Len(log) + 1 ELSE LogLimit)
  BY <1>1 DEF Wide!Start
<1>6. storeCall \in Seq(StoreRecord) /\ Len(storeCall) \in Nat /\ DOMAIN storeCall = 1..Len(storeCall)
  BY LenProperties DEF StoreInv, CallsBacked
<1>7. /\ storeCall' \in Seq(StoreRecord) /\ Len(storeCall') = Len(storeCall) + 1
      /\ storeCall'[Len(storeCall) + 1] = k /\ \A c \in 1..Len(storeCall) : storeCall'[c] = storeCall[c]
  BY <1>3, <1>5, <1>6, AppendProperties
<1>8. DOMAIN storeCall' = DOMAIN storeCall \cup {Len(storeCall) + 1} /\ Len(storeCall) + 1 \notin DOMAIN storeCall
  <2>1. DOMAIN storeCall' = 1..Len(storeCall')
    BY <1>7, LenProperties
  <2>2. \A n \in Nat : 1..(n + 1) = 1..n \cup {n + 1} /\ n + 1 \notin 1..n
    OBVIOUS
  <2>. QED
    BY <1>6, <1>7, <2>1, <2>2, Zenon
<1>9. CallsBacked(chain', storeCall')
  <2>1. ASSUME NEW c \in DOMAIN storeCall' PROVE Backed(chain', storeCall'[c])
    <3>1. CASE c \in DOMAIN storeCall
      BY <1>6, <1>7, <3>1, Zenon DEF StoreInv, CallsBacked
    <3>2. CASE c = Len(storeCall) + 1
      BY <1>4, <1>7, <3>2, Zenon
    <3>. QED
      BY <1>8, <2>1, <3>1, <3>2
  <2>. QED
    BY <1>7, <2>1, Zenon DEF CallsBacked
<1>10. log \in Seq(LogEntry) /\ Len(log) <= LogLimit /\ \A i \in DOMAIN log : Tells(storeCall, log[i])
  BY Zenon DEF StoreInv, LogTrue
<1>11. ASSUME NEW e, Tells(storeCall, e) PROVE Tells(storeCall', e)
  BY <1>6, <1>7, <1>8, <1>11, Zenon DEF Tells
<1>12. LogTrue(log', storeCall')
  <2>1. CASE method = "load"
    BY <1>5, <1>10, <1>11, <2>1, Zenon DEF LogTrue
  <2>2. CASE method # "load"
    <3>1. PICK e : e = [id |-> Len(storeCall) + 1, status |-> "pending"]
      OBVIOUS
    <3>2. e \in LogEntry /\ e.id = Len(storeCall) + 1 /\ e.status = "pending"
      BY <1>6, <3>1 DEF LogEntry
    <3>3. log' = SubSeq(<<e>> \o log, 1, IF Len(log) < LogLimit THEN Len(log) + 1 ELSE LogLimit)
      BY <1>5, <2>2, <3>1, Zenon
    <3>4. /\ log' \in Seq(LogEntry) /\ Len(log') <= LogLimit
          /\ \A i \in DOMAIN log' : log'[i] = e \/ \E j \in DOMAIN log : log'[i] = log[j]
      <4>1. LET next == SubSeq(<<e>> \o log, 1, IF Len(log) < LogLimit THEN Len(log) + 1 ELSE LogLimit)
            IN  /\ next \in Seq(LogEntry) /\ Len(next) <= LogLimit
                /\ \A i \in DOMAIN next : next[i] = e \/ \E j \in DOMAIN log : next[i] = log[j]
        BY <1>10, <3>2, LogGrows, Zenon
      <4>. QED
        BY <3>3, <4>1, Zenon
    <3>5. Tells(storeCall', e)
      BY <1>2, <1>7, <1>8, <3>2 DEF Tells
    <3>. QED
      BY <1>10, <1>11, <3>4, <3>5, Zenon DEF LogTrue
  <2>. QED
    BY <2>1, <2>2
<1>. QED
  BY <1>5, <1>9, <1>12, Zenon DEF StoreInv

LEMMA StoreBegins == Store!Init => StoreInv
<1> SUFFICES ASSUME Store!Init PROVE StoreInv
  OBVIOUS
<1>1. /\ chain = <<>> /\ storeWallet = NoWallet /\ dirty = FALSE /\ log = <<>> /\ storeCall = <<>>
      /\ mirror = [campaigns |-> <<>>, tokens |-> <<>>, delegates |-> {}] /\ seen = mirror
  BY DEF Store!Init, Store!Empty
<1>2. DOMAIN <<>> = {} /\ \A S : <<>> \in Seq(S) /\ Len(<<>>) = 0
  BY EmptySeq
<1>3. \A D, R : <<>> \in Partial(D, R)
  <2> SUFFICES ASSUME NEW D, NEW R PROVE <<>> \in Partial(D, R)
    OBVIOUS
  <2>1. <<>> = [x \in {} |-> x]
    OBVIOUS
  <2>2. <<>> \in [{} -> R]
    BY <2>1
  <2>. QED
    BY <2>2 DEF Partial
<1>4. mirror.campaigns = <<>> /\ mirror.tokens = <<>> /\ mirror.delegates = {}
  BY <1>1
<1>5. mirror \in MirrorState
  <2>1. {} \in SUBSET (Wide!Ids \X Wallets)
    OBVIOUS
  <2>. QED
    BY <1>1, <1>3, <2>1 DEF MirrorState
<1>6. Truthful(chain, mirror)
  BY <1>2, <1>4, <1>5 DEF Truthful, TermsTrue, CouponsTrue, DelegatesTrue
<1>7. Ledger(chain)
  BY <1>1, <1>2, StoreBounds DEF Ledger
<1>8. CallsBacked(chain, storeCall)
  BY <1>1, <1>2 DEF CallsBacked
<1>9. LogTrue(log, storeCall)
  BY <1>1, <1>2, StoreBounds DEF LogTrue
<1>. QED
  BY <1>1, <1>6, <1>7, <1>8, <1>9 DEF StoreInv

LEMMA StoreSteps ==
    ASSUME StoreInv, Wide!Next PROVE StoreInv' /\ Grown(chain, chain')
<1>1. (CHOOSE x \in StoreCodes : TRUE) \in StoreCodes
  BY StoreBounds
<1>2. 1 \in Wide!Ids
  BY StoreBounds DEF Wide!Ids
<1>3. storeWallet \in Wallets \cup {NoWallet} /\ Grown(chain, chain)
  BY LedgerStays, Zenon DEF StoreInv
<1>4. ASSUME NEW method \in Methods, NEW id \in Wide!Ids, NEW code \in StoreCodes,
             Wide!Invoke(method, id, code)
      PROVE  StoreInv' /\ Grown(chain, chain')
  <2>1. /\ Wide!Start(method, storeWallet, id, code) /\ chain' = chain
        /\ UNCHANGED <<chain, mirror, seen>> /\ storeWallet' \in Wallets \cup {NoWallet}
    BY <1>3, <1>4, Zenon DEF Wide!Invoke
  <2>2. StoreInv'
    BY <1>3, <2>1, CallStarts, Zenon
  <2>. QED
    BY <1>3, <2>1, <2>2, Zenon
<1>5. CASE \E w \in Wallets : Wide!Connect(w)
  <2>1. PICK w \in Wallets : Wide!Connect(w)
    BY <1>5
  <2>2. /\ Wide!Start("load", w, 1, CHOOSE x \in StoreCodes : TRUE) /\ chain' = chain
        /\ UNCHANGED <<chain, mirror, seen>> /\ storeWallet' \in Wallets \cup {NoWallet}
        /\ w \in Wallets \cup {NoWallet}
    BY <2>1, Zenon DEF Wide!Connect
  <2>3. "load" \in Methods
    BY DEF Methods
  <2>4. StoreInv'
    BY <1>1, <1>2, <2>2, <2>3, CallStarts, Zenon
  <2>. QED
    BY <1>3, <2>2, <2>4, Zenon
<1>6. CASE Wide!Disconnect
  <2>1. storeWallet' = NoWallet /\ dirty' = TRUE /\ UNCHANGED <<chain, mirror, seen, log, storeCall>>
    BY <1>6, Zenon DEF Wide!Disconnect
  <2>. QED
    BY <1>3, <2>1, Zenon DEF StoreInv
<1>7. CASE Wide!Render
  <2>1. dirty' = FALSE /\ seen' = mirror /\ UNCHANGED <<chain, storeWallet, mirror, log, storeCall>>
    BY <1>7, Zenon DEF Wide!Render
  <2>. QED
    BY <1>3, <2>1, Zenon DEF StoreInv
<1>8. {"create", "issue", "redeem", "verify", "addDelegate", "removeDelegate", "read", "tallyWrite"} \subseteq Methods
  BY DEF Methods, Wide!Writes, Wide!Reads
<1>9. CASE Wide!CreateCampaign
  BY <1>1, <1>2, <1>4, <1>8, <1>9 DEF Wide!CreateCampaign
<1>10. ASSUME NEW id \in Wide!Ids, NEW code \in StoreCodes,
              \/ Wide!IssueCodes(id, code) \/ Wide!Redeem(id, code) \/ Wide!Verify(id, code)
              \/ Wide!AddDelegate(id, code) \/ Wide!RemoveDelegate(id, code) \/ Wide!IsDelegate(id, code)
              \/ Wide!WriteTally(id, code) \/ Wide!Elsewhere(id, code)
       PROVE  StoreInv' /\ Grown(chain, chain')
  <2>1. CASE Wide!Elsewhere(id, code)
    BY <2>1, BurnElsewhere, Zenon
  <2>2. CASE ~ Wide!Elsewhere(id, code)
    <3>1. \E method \in Methods : Wide!Invoke(method, id, code)
      BY <1>8, <1>10, <2>2 DEF Wide!IssueCodes, Wide!Redeem, Wide!Verify, Wide!AddDelegate, Wide!RemoveDelegate,
         Wide!IsDelegate, Wide!WriteTally
    <3>. QED
      BY <1>4, <3>1, Zenon
  <2>. QED
    BY <2>1, <2>2
<1>11. ASSUME NEW c \in DOMAIN storeCall, Wide!Step(c) PROVE StoreInv' /\ Grown(chain, chain')
  <2>1. CASE Wide!Apply(c)
    BY <2>1, WriteSteps, Zenon
  <2>2. CASE Wide!ReadToken(c)
    BY <1>3, <2>2, TokenReads, Zenon
  <2>3. CASE Wide!ReadFails(c) \/ Wide!Return(c)
    BY <1>3, <2>3, CallsTurn, Zenon
  <2>4. CASE Wide!Answer(c)
    BY <1>3, <2>4, AnswerComes, Zenon
  <2>5. CASE Wide!Fail(c)
    BY <1>3, <2>5, CallFails, Zenon
  <2>6. CASE \E id \in Wide!Ids : Wide!ReadCampaign(c, id)
    BY <1>3, <2>6, CampaignReads, Zenon
  <2>. QED
    BY <1>11, <2>1, <2>2, <2>3, <2>4, <2>5, <2>6, Zenon DEF Wide!Step
<1>. QED
  BY <1>5, <1>6, <1>7, <1>9, <1>10, <1>11, Zenon DEF Wide!Next

-----------------------------------------------------------------------------
(* The store: both pages                                                   *)

LEMMA OpenCalls ==
    ASSUME StoreInv
    PROVE  Len(storeCall) \in Nat /\ IsFiniteSet(Wide!Open) /\ Cardinality(Wide!Open) \in Nat
<1>1. Len(storeCall) \in Nat /\ DOMAIN storeCall = 1..Len(storeCall)
  BY LenProperties DEF StoreInv, CallsBacked
<1>2. IsFiniteSet(1..Len(storeCall))
  BY <1>1, FS_Interval
<1>3. Wide!Open \subseteq 1..Len(storeCall)
  BY <1>1, Zenon DEF Wide!Open
<1>. QED
  BY <1>1, <1>2, <1>3, FS_Subset, FS_CardinalityType

\* A step of either page is one of the wide store.
LEMMA StoreSame ==
    /\ Store!Ids = Wide!Ids
    /\ \A c : Store!Step(c) => Wide!Step(c)
    /\ \A id, code : Store!Elsewhere(id, code) => Wide!Elsewhere(id, code)
    /\ Store!Render => Wide!Render
    /\ Store!Disconnect => Wide!Disconnect
<1>1. Store!Ids = Wide!Ids
  BY Zenon DEF Store!Ids, Wide!Ids
<1>2. \A c : Store!Step(c) => Wide!Step(c)
  <2>1. \A c : Store!Apply(c) => Wide!Apply(c)
    BY Zenon DEF
       Store!Apply, Wide!Apply, Store!RequireWallet, Wide!RequireWallet, Store!Writes, Wide!Writes,
       Store!Permits, Wide!Permits, Store!Known, Wide!Known, Store!Effect, Wide!Effect, Store!Delegate,
       Wide!Delegate
  <2>2. \A c : Store!ReadToken(c) => Wide!ReadToken(c)
    BY Zenon DEF
       Store!ReadToken, Wide!ReadToken, Store!Reads, Wide!Reads, Store!Known, Wide!Known, Store!Stage,
       Wide!Stage
  <2>3. \A c : Store!ReadFails(c) => Wide!ReadFails(c)
    BY Zenon DEF
       Store!ReadFails, Wide!ReadFails, Store!Stage, Wide!Stage
  <2>4. \A c : Store!Answer(c) => Wide!Answer(c)
    <3>1. /\ \A f, g : Store!Spread(f, g) = Wide!Spread(f, g)
          /\ \A k, v : Store!Entry(k, v) = Wide!Entry(k, v)
          /\ \A k : Store!Delegate(k) = Wide!Delegate(k)
      BY Zenon DEF Store!Spread, Wide!Spread, Store!Entry, Wide!Entry, Store!Delegate, Wide!Delegate
    <3>2. \A st, id, field : Store!Bump(st, id, field) = Wide!Bump(st, id, field)
      BY Zenon DEF Store!Bump, Wide!Bump
    <3>3. \A st, k : Store!Created(st, k) = Wide!Created(st, k) /\ Store!Merge(st, k) = Wide!Merge(st, k)
      BY <3>1, Zenon DEF Store!Created, Wide!Created, Store!Merge, Wide!Merge
    <3>4. \A st, k : Store!Issued(st, k) = Wide!Issued(st, k)
      BY <3>1, <3>2, Zenon DEF Store!Issued, Wide!Issued
    <3>5. \A st, k : Store!Redeemed(st, k) = Wide!Redeemed(st, k)
      BY <3>2, Zenon DEF Store!Redeemed, Wide!Redeemed
    <3>6. \A st, k : Store!Verified(st, k) = Wide!Verified(st, k)
      BY <3>1, <3>3, Zenon DEF Store!Verified, Wide!Verified
    <3>7. \A st, k : /\ Store!DelegateAdded(st, k) = Wide!DelegateAdded(st, k)
                     /\ Store!DelegateRemoved(st, k) = Wide!DelegateRemoved(st, k)
      BY <3>1, Zenon DEF Store!DelegateAdded, Wide!DelegateAdded, Store!DelegateRemoved, Wide!DelegateRemoved
    <3>8. \A st, k : Store!Updated(st, k) = Wide!Updated(st, k)
      BY <3>3, <3>4, <3>5, <3>6, <3>7, Zenon DEF Store!Updated, Wide!Updated
    <3>. QED
      BY <3>8, Zenon DEF Store!Answer, Wide!Answer, Store!ApplyState, Wide!ApplyState, Store!Resolve, Wide!Resolve,
         Store!Stage, Wide!Stage
  <2>5. \A c : Store!Return(c) => Wide!Return(c)
    BY Zenon DEF
       Store!Return, Wide!Return, Store!Stage, Wide!Stage
  <2>6. \A c : Store!Fail(c) => Wide!Fail(c)
    BY Zenon DEF
       Store!Fail, Wide!Fail, Store!Resolve, Wide!Resolve, Store!Stage, Wide!Stage, Store!Closed,
       Wide!Closed
  <2>7. \A c, id : Store!ReadCampaign(c, id) => Wide!ReadCampaign(c, id)
    <3>1. \A id : Store!Snapshot(id) = Wide!Snapshot(id)
      BY WideCounts, Zenon DEF Store!Snapshot, Wide!Snapshot
    <3>2. \A k : Store!Missing(k) = Wide!Missing(k)
      BY Zenon DEF Store!Missing, Wide!Missing
    <3>3. \A f, g : Store!Spread(f, g) = Wide!Spread(f, g)
      BY Zenon DEF Store!Spread, Wide!Spread
    <3>4. \A x, y : Store!Entry(x, y) = Wide!Entry(x, y)
      BY Zenon DEF Store!Entry, Wide!Entry
    <3>5. \A f, id : Store!Spread(f, Store!Entry(id, Store!Snapshot(id))) = Wide!Spread(f, Wide!Entry(id, Wide!Snapshot(id)))
      BY <3>1, <3>3, <3>4, Zenon
    <3> SUFFICES ASSUME NEW c, NEW id, Store!ReadCampaign(c, id) PROVE Wide!ReadCampaign(c, id)
      OBVIOUS
    <3>6. PICK g : g = Store!Spread(storeCall[c].got, Store!Entry(id, Store!Snapshot(id)))
      OBVIOUS
    <3>7. g = Wide!Spread(storeCall[c].got, Wide!Entry(id, Wide!Snapshot(id)))
      BY <3>5, <3>6, Zenon
    <3>8. /\ \/ storeCall[c].stage = "campaign" /\ id = storeCall[c].id
             \/ storeCall[c].method = "load" /\ storeCall[c].stage = "sent" /\ id \in Wide!Missing(storeCall[c])
          /\ UNCHANGED <<chain, storeWallet, mirror, seen, dirty, log>>
      BY <3>2, Zenon DEF Store!ReadCampaign
    <3>9. storeCall' = [storeCall EXCEPT ![c].got = g,
                            ![c].stage = IF storeCall[c].method = "verify" THEN "answer" ELSE @]
      BY <3>6, Zenon DEF Store!ReadCampaign
    <3>. QED
      BY <3>7, <3>8, <3>9, Zenon DEF Wide!ReadCampaign
  <2>. QED
    BY <1>1, <2>1, <2>2, <2>3, <2>4, <2>5, <2>6, <2>7, Zenon DEF Store!Step, Wide!Step
<1>3. \A id, code : Store!Elsewhere(id, code) => Wide!Elsewhere(id, code)
  BY Zenon DEF Store!Elsewhere, Wide!Elsewhere, Store!Known, Wide!Known
<1>4. Store!Render => Wide!Render
  BY Zenon DEF Store!Render, Wide!Render
<1>5. Store!Disconnect => Wide!Disconnect
  BY Zenon DEF Store!Disconnect, Wide!Disconnect
<1>. QED
  BY <1>1, <1>2, <1>3, <1>4, <1>5

LEMMA StoreStarts ==
    ASSUME StoreInv, NEW method, NEW who, NEW id, NEW code, Store!Start(method, who, id, code)
    PROVE  Wide!Start(method, who, id, code)
<1>1. Len(storeCall) < StoreCalls /\ Cardinality(Wide!Open) < StoreOpen
  BY WideCounts, Zenon DEF Store!Start, Store!Open, Wide!Open, Store!Closed, Wide!Closed
<1>2. Len(storeCall) < StoreCalls + AloneCalls
  BY <1>1, StoreBounds, OpenCalls
<1>3. Cardinality(Wide!Open) < StoreOpen + 1
  BY <1>1, StoreBounds, OpenCalls
<1>4. Wide!Cardinality(Wide!Open) < StoreOpen + 1
  BY <1>3, WideCounts, Zenon
<1>. QED
  BY <1>2, <1>4, Zenon DEF Store!Start, Wide!Start

LEMMA StoreWidens == ASSUME StoreInv, Store!Next PROVE Wide!Next
<1>1. CASE \E w \in Wallets : Store!Connect(w)
  BY <1>1, StoreStarts, Zenon DEF Store!Connect, Wide!Connect, Wide!Next
<1>2. CASE Store!CreateCampaign
  BY <1>2, StoreStarts, Zenon DEF Store!CreateCampaign, Store!Invoke, Wide!CreateCampaign, Wide!Invoke, Wide!Next
<1>3. CASE \E id \in Store!Ids, code \in StoreCodes :
               \/ Store!IssueCodes(id, code) \/ Store!Redeem(id, code) \/ Store!Verify(id, code)
               \/ Store!AddDelegate(id, code) \/ Store!RemoveDelegate(id, code) \/ Store!IsDelegate(id, code)
               \/ Store!WriteTally(id, code) \/ Store!Elsewhere(id, code)
  <2>1. PICK id \in Wide!Ids, code \in StoreCodes :
               \/ Store!IssueCodes(id, code) \/ Store!Redeem(id, code) \/ Store!Verify(id, code)
               \/ Store!AddDelegate(id, code) \/ Store!RemoveDelegate(id, code) \/ Store!IsDelegate(id, code)
               \/ Store!WriteTally(id, code) \/ Store!Elsewhere(id, code)
    BY <1>3, StoreSame, Zenon
  <2>2. \A method : Store!Invoke(method, id, code) => Wide!Invoke(method, id, code)
    BY StoreStarts, Zenon DEF Store!Invoke, Wide!Invoke
  <2>3. \/ Wide!IssueCodes(id, code) \/ Wide!Redeem(id, code) \/ Wide!Verify(id, code)
        \/ Wide!AddDelegate(id, code) \/ Wide!RemoveDelegate(id, code) \/ Wide!IsDelegate(id, code)
        \/ Wide!WriteTally(id, code) \/ Wide!Elsewhere(id, code)
    BY <2>1, <2>2, StoreSame, Zenon DEF
       Store!IssueCodes, Wide!IssueCodes, Store!Redeem, Wide!Redeem, Store!Verify, Wide!Verify,
       Store!AddDelegate, Wide!AddDelegate, Store!RemoveDelegate, Wide!RemoveDelegate, Store!IsDelegate,
       Wide!IsDelegate, Store!WriteTally, Wide!WriteTally
  <2>. QED
    BY <2>3, Zenon DEF Wide!Next
<1>4. CASE Store!Disconnect \/ Store!Render \/ \E c \in DOMAIN storeCall : Store!Step(c)
  BY <1>4, StoreSame, ZenonT(40) DEF Wide!Next
<1>. QED
  BY <1>1, <1>2, <1>3, <1>4, Zenon DEF Store!Next

LEMMA AloneSame ==
    /\ Alone!Ids = Wide!Ids
    /\ \A c : Alone!Step(c) => Wide!Step(c)
    /\ \A id, code : Alone!Elsewhere(id, code) => Wide!Elsewhere(id, code)
    /\ Alone!Render => Wide!Render
    /\ Alone!Disconnect => Wide!Disconnect
<1>1. Alone!Ids = Wide!Ids
  BY Zenon DEF Alone!Ids, Wide!Ids
<1>2. \A c : Alone!Step(c) => Wide!Step(c)
  <2>1. \A c : Alone!Apply(c) => Wide!Apply(c)
    BY Zenon DEF
       Alone!Apply, Wide!Apply, Alone!RequireWallet, Wide!RequireWallet, Alone!Writes, Wide!Writes,
       Alone!Permits, Wide!Permits, Alone!Known, Wide!Known, Alone!Effect, Wide!Effect, Alone!Delegate,
       Wide!Delegate
  <2>2. \A c : Alone!ReadToken(c) => Wide!ReadToken(c)
    BY Zenon DEF
       Alone!ReadToken, Wide!ReadToken, Alone!Reads, Wide!Reads, Alone!Known, Wide!Known, Alone!Stage,
       Wide!Stage
  <2>3. \A c : Alone!ReadFails(c) => Wide!ReadFails(c)
    BY Zenon DEF
       Alone!ReadFails, Wide!ReadFails, Alone!Stage, Wide!Stage
  <2>4. \A c : Alone!Answer(c) => Wide!Answer(c)
    <3>1. /\ \A f, g : Alone!Spread(f, g) = Wide!Spread(f, g)
          /\ \A k, v : Alone!Entry(k, v) = Wide!Entry(k, v)
          /\ \A k : Alone!Delegate(k) = Wide!Delegate(k)
      BY Zenon DEF Alone!Spread, Wide!Spread, Alone!Entry, Wide!Entry, Alone!Delegate, Wide!Delegate
    <3>2. \A st, id, field : Alone!Bump(st, id, field) = Wide!Bump(st, id, field)
      BY Zenon DEF Alone!Bump, Wide!Bump
    <3>3. \A st, k : Alone!Created(st, k) = Wide!Created(st, k) /\ Alone!Merge(st, k) = Wide!Merge(st, k)
      BY <3>1, Zenon DEF Alone!Created, Wide!Created, Alone!Merge, Wide!Merge
    <3>4. \A st, k : Alone!Issued(st, k) = Wide!Issued(st, k)
      BY <3>1, <3>2, Zenon DEF Alone!Issued, Wide!Issued
    <3>5. \A st, k : Alone!Redeemed(st, k) = Wide!Redeemed(st, k)
      BY <3>2, Zenon DEF Alone!Redeemed, Wide!Redeemed
    <3>6. \A st, k : Alone!Verified(st, k) = Wide!Verified(st, k)
      BY <3>1, <3>3, Zenon DEF Alone!Verified, Wide!Verified
    <3>7. \A st, k : /\ Alone!DelegateAdded(st, k) = Wide!DelegateAdded(st, k)
                     /\ Alone!DelegateRemoved(st, k) = Wide!DelegateRemoved(st, k)
      BY <3>1, Zenon DEF Alone!DelegateAdded, Wide!DelegateAdded, Alone!DelegateRemoved, Wide!DelegateRemoved
    <3>8. \A st, k : Alone!Updated(st, k) = Wide!Updated(st, k)
      BY <3>3, <3>4, <3>5, <3>6, <3>7, Zenon DEF Alone!Updated, Wide!Updated
    <3>. QED
      BY <3>8, Zenon DEF Alone!Answer, Wide!Answer, Alone!ApplyState, Wide!ApplyState, Alone!Resolve, Wide!Resolve,
         Alone!Stage, Wide!Stage
  <2>5. \A c : Alone!Return(c) => Wide!Return(c)
    BY Zenon DEF
       Alone!Return, Wide!Return, Alone!Stage, Wide!Stage
  <2>6. \A c : Alone!Fail(c) => Wide!Fail(c)
    BY Zenon DEF
       Alone!Fail, Wide!Fail, Alone!Resolve, Wide!Resolve, Alone!Stage, Wide!Stage, Alone!Closed,
       Wide!Closed
  <2>7. \A c, id : Alone!ReadCampaign(c, id) => Wide!ReadCampaign(c, id)
    <3>1. \A id : Alone!Snapshot(id) = Wide!Snapshot(id)
      BY WideCounts, Zenon DEF Alone!Snapshot, Wide!Snapshot
    <3>2. \A k : Alone!Missing(k) = Wide!Missing(k)
      BY Zenon DEF Alone!Missing, Wide!Missing
    <3>3. \A f, g : Alone!Spread(f, g) = Wide!Spread(f, g)
      BY Zenon DEF Alone!Spread, Wide!Spread
    <3>4. \A x, y : Alone!Entry(x, y) = Wide!Entry(x, y)
      BY Zenon DEF Alone!Entry, Wide!Entry
    <3>5. \A f, id : Alone!Spread(f, Alone!Entry(id, Alone!Snapshot(id))) = Wide!Spread(f, Wide!Entry(id, Wide!Snapshot(id)))
      BY <3>1, <3>3, <3>4, Zenon
    <3> SUFFICES ASSUME NEW c, NEW id, Alone!ReadCampaign(c, id) PROVE Wide!ReadCampaign(c, id)
      OBVIOUS
    <3>6. PICK g : g = Alone!Spread(storeCall[c].got, Alone!Entry(id, Alone!Snapshot(id)))
      OBVIOUS
    <3>7. g = Wide!Spread(storeCall[c].got, Wide!Entry(id, Wide!Snapshot(id)))
      BY <3>5, <3>6, Zenon
    <3>8. /\ \/ storeCall[c].stage = "campaign" /\ id = storeCall[c].id
             \/ storeCall[c].method = "load" /\ storeCall[c].stage = "sent" /\ id \in Wide!Missing(storeCall[c])
          /\ UNCHANGED <<chain, storeWallet, mirror, seen, dirty, log>>
      BY <3>2, Zenon DEF Alone!ReadCampaign
    <3>9. storeCall' = [storeCall EXCEPT ![c].got = g,
                            ![c].stage = IF storeCall[c].method = "verify" THEN "answer" ELSE @]
      BY <3>6, Zenon DEF Alone!ReadCampaign
    <3>. QED
      BY <3>7, <3>8, <3>9, Zenon DEF Wide!ReadCampaign
  <2>. QED
    BY <1>1, <2>1, <2>2, <2>3, <2>4, <2>5, <2>6, <2>7, Zenon DEF Alone!Step, Wide!Step
<1>3. \A id, code : Alone!Elsewhere(id, code) => Wide!Elsewhere(id, code)
  BY Zenon DEF Alone!Elsewhere, Wide!Elsewhere, Alone!Known, Wide!Known
<1>4. Alone!Render => Wide!Render
  BY Zenon DEF Alone!Render, Wide!Render
<1>5. Alone!Disconnect => Wide!Disconnect
  BY Zenon DEF Alone!Disconnect, Wide!Disconnect
<1>. QED
  BY <1>1, <1>2, <1>3, <1>4, <1>5

LEMMA AloneStarts ==
    ASSUME StoreInv, NEW method, NEW who, NEW id, NEW code, Alone!Start(method, who, id, code)
    PROVE  Wide!Start(method, who, id, code)
<1>1. Len(storeCall) < AloneCalls /\ Cardinality(Wide!Open) < 1
  BY WideCounts, Zenon DEF Alone!Start, Alone!Open, Wide!Open, Alone!Closed, Wide!Closed
<1>2. Len(storeCall) < StoreCalls + AloneCalls
  BY <1>1, StoreBounds, OpenCalls
<1>3. Cardinality(Wide!Open) < StoreOpen + 1
  BY <1>1, StoreBounds, OpenCalls
<1>4. Wide!Cardinality(Wide!Open) < StoreOpen + 1
  BY <1>3, WideCounts, Zenon
<1>. QED
  BY <1>2, <1>4, Zenon DEF Alone!Start, Wide!Start

LEMMA AloneWidens == ASSUME StoreInv, Alone!Next PROVE Wide!Next
<1>1. CASE \E w \in Wallets : Alone!Connect(w)
  BY <1>1, AloneStarts, Zenon DEF Alone!Connect, Wide!Connect, Wide!Next
<1>2. CASE Alone!CreateCampaign
  BY <1>2, AloneStarts, Zenon DEF Alone!CreateCampaign, Alone!Invoke, Wide!CreateCampaign, Wide!Invoke, Wide!Next
<1>3. CASE \E id \in Alone!Ids, code \in StoreCodes :
               \/ Alone!IssueCodes(id, code) \/ Alone!Redeem(id, code) \/ Alone!Verify(id, code)
               \/ Alone!AddDelegate(id, code) \/ Alone!RemoveDelegate(id, code) \/ Alone!IsDelegate(id, code)
               \/ Alone!WriteTally(id, code) \/ Alone!Elsewhere(id, code)
  <2>1. PICK id \in Wide!Ids, code \in StoreCodes :
               \/ Alone!IssueCodes(id, code) \/ Alone!Redeem(id, code) \/ Alone!Verify(id, code)
               \/ Alone!AddDelegate(id, code) \/ Alone!RemoveDelegate(id, code) \/ Alone!IsDelegate(id, code)
               \/ Alone!WriteTally(id, code) \/ Alone!Elsewhere(id, code)
    BY <1>3, AloneSame, Zenon
  <2>2. \A method : Alone!Invoke(method, id, code) => Wide!Invoke(method, id, code)
    BY AloneStarts, Zenon DEF Alone!Invoke, Wide!Invoke
  <2>3. \/ Wide!IssueCodes(id, code) \/ Wide!Redeem(id, code) \/ Wide!Verify(id, code)
        \/ Wide!AddDelegate(id, code) \/ Wide!RemoveDelegate(id, code) \/ Wide!IsDelegate(id, code)
        \/ Wide!WriteTally(id, code) \/ Wide!Elsewhere(id, code)
    BY <2>1, <2>2, AloneSame, Zenon DEF
       Alone!IssueCodes, Wide!IssueCodes, Alone!Redeem, Wide!Redeem, Alone!Verify, Wide!Verify,
       Alone!AddDelegate, Wide!AddDelegate, Alone!RemoveDelegate, Wide!RemoveDelegate, Alone!IsDelegate,
       Wide!IsDelegate, Alone!WriteTally, Wide!WriteTally
  <2>. QED
    BY <2>3, Zenon DEF Wide!Next
<1>4. CASE Alone!Disconnect \/ Alone!Render \/ \E c \in DOMAIN storeCall : Alone!Step(c)
  BY <1>4, AloneSame, ZenonT(30) DEF Wide!Next
<1>. QED
  BY <1>1, <1>2, <1>3, <1>4, Zenon DEF Alone!Next

LEMMA StorePartSteps ==
    ASSUME StoreInv, RunsStore \/ RunsAlone \/ UNCHANGED storeVars PROVE StoreInv'
<1>1. CASE RunsStore \/ RunsAlone
  BY <1>1, StoreWidens, AloneWidens, StoreSteps, Zenon DEF RunsStore, RunsAlone
<1>2. CASE UNCHANGED storeVars
  BY <1>2, Zenon DEF storeVars, StoreInv
<1>. QED
  BY <1>1, <1>2

-----------------------------------------------------------------------------
(* The store of a page that makes one call at a time                       *)

\* Counters are reached, and there is room for the one that an issue or a
\* burn, done but not answered, will count.
OneIsOpen ==
    \A c, d \in DOMAIN storeCall :
        storeCall[c].stage \notin {"ok", "err"} /\ storeCall[d].stage \notin {"ok", "err"} => c = d

AloneInv ==
    /\ OneIsOpen
    /\ Reached(chain, mirror.campaigns)
    /\ \A c \in DOMAIN storeCall :
          storeCall[c].stage = "answer" => CountsRoom(chain, mirror, storeCall[c])

LEMMA AloneActs ==
    ASSUME StoreInv, Alone!Next
    PROVE  \/ /\ Wide!Open = {} /\ UNCHANGED <<chain, mirror>>
              /\ \E method, who, id, code : Wide!Start(method, who, id, code)
           \/ UNCHANGED <<chain, mirror, storeCall>>
           \/ \E id \in Wide!Ids, code \in StoreCodes : Wide!Elsewhere(id, code)
           \/ \E c \in DOMAIN storeCall : Wide!Step(c)
<1>1. ASSUME NEW method, NEW who, NEW id, NEW code, Alone!Start(method, who, id, code)
      PROVE  Wide!Open = {} /\ Wide!Start(method, who, id, code)
  <2>1. Cardinality(Wide!Open) < 1
    BY <1>1, WideCounts, Zenon DEF Alone!Start, Alone!Open, Wide!Open, Alone!Closed, Wide!Closed
  <2>2. Cardinality(Wide!Open) = 0
    BY <2>1, OpenCalls
  <2>. QED
    BY <1>1, <2>2, OpenCalls, FS_EmptySet, AloneStarts, Zenon
<1>2. ASSUME NEW method, NEW id, NEW code, Alone!Invoke(method, id, code)
      PROVE  /\ Wide!Open = {} /\ UNCHANGED <<chain, mirror>>
             /\ \E m, who, i, x : Wide!Start(m, who, i, x)
  BY <1>1, <1>2, Zenon DEF Alone!Invoke
<1>3. CASE \E w \in Wallets : Alone!Connect(w)
  BY <1>1, <1>3, Zenon DEF Alone!Connect
<1>4. CASE Alone!CreateCampaign
  BY <1>2, <1>4, Zenon DEF Alone!CreateCampaign
<1>5. CASE \E id \in Alone!Ids, code \in StoreCodes :
               \/ Alone!IssueCodes(id, code) \/ Alone!Redeem(id, code) \/ Alone!Verify(id, code)
               \/ Alone!AddDelegate(id, code) \/ Alone!RemoveDelegate(id, code) \/ Alone!IsDelegate(id, code)
               \/ Alone!WriteTally(id, code) \/ Alone!Elsewhere(id, code)
  BY <1>2, <1>5, AloneSame, Zenon DEF Alone!IssueCodes, Alone!Redeem, Alone!Verify, Alone!AddDelegate,
     Alone!RemoveDelegate, Alone!IsDelegate, Alone!WriteTally
<1>6. CASE Alone!Disconnect \/ Alone!Render
  BY <1>6, Zenon DEF Alone!Disconnect, Alone!Render
<1>7. CASE \E c \in DOMAIN storeCall : Alone!Step(c)
  BY <1>7, AloneSame, Zenon
<1>. QED
  BY <1>3, <1>4, <1>5, <1>6, <1>7, Zenon DEF Alone!Next

LEMMA CountsGrow ==
    ASSUME NEW ch, NEW next, Grown(ch, next), Ledger(ch), NEW id \in DOMAIN ch
    PROVE  /\ Cardinality(ch[id].minted) \in Nat /\ Cardinality(next[id].minted) \in Nat
           /\ Cardinality(ch[id].minted) <= Cardinality(next[id].minted)
           /\ Cardinality(ch[id].burned) \in Nat /\ Cardinality(next[id].burned) \in Nat
           /\ Cardinality(ch[id].burned) <= Cardinality(next[id].burned)
<1>1. /\ id \in DOMAIN next /\ Ledger(next)
      /\ ch[id].minted \subseteq next[id].minted /\ ch[id].burned \subseteq next[id].burned
  BY Zenon DEF Grown
<1>2. /\ Cardinality(ch[id].minted) \in Nat /\ Cardinality(ch[id].burned) \in Nat
      /\ Cardinality(next[id].minted) \in Nat /\ Cardinality(next[id].burned) \in Nat
      /\ IsFiniteSet(next[id].minted) /\ IsFiniteSet(next[id].burned)
  BY <1>1, CampaignsAre, Zenon
<1>. QED
  BY <1>1, <1>2, FS_Subset

LEMMA MirrorCounts ==
    ASSUME NEW ch, NEW st, Truthful(ch, st)
    PROVE  /\ DOMAIN st.campaigns \subseteq DOMAIN ch
           /\ \A id \in DOMAIN st.campaigns : st.campaigns[id].minted \in Nat /\ st.campaigns[id].burned \in Nat
<1>1. st \in MirrorState /\ DOMAIN st.campaigns \subseteq DOMAIN ch
  BY Zenon DEF Truthful, TermsTrue
<1>2. st.campaigns \in Partial(Wide!Ids, Mirrored)
  BY <1>1, MirrorTurns
<1>. QED
  BY <1>1, <1>2, MirroredIs, Zenon

LEMMA RoomLasts ==
    ASSUME NEW ch, NEW next, Grown(ch, next), Ledger(ch), NEW st, Truthful(ch, st), NEW k,
           CountsRoom(ch, st, k)
    PROVE  CountsRoom(next, st, k)
<1>1. \A a, b, c \in Nat : a + 1 <= b /\ b <= c => a + 1 <= c
  OBVIOUS
<1>2. ASSUME k.id \in DOMAIN st.campaigns
      PROVE  /\ st.campaigns[k.id].minted \in Nat /\ st.campaigns[k.id].burned \in Nat
             /\ Cardinality(ch[k.id].minted) \in Nat /\ Cardinality(next[k.id].minted) \in Nat
             /\ Cardinality(ch[k.id].minted) <= Cardinality(next[k.id].minted)
             /\ Cardinality(ch[k.id].burned) \in Nat /\ Cardinality(next[k.id].burned) \in Nat
             /\ Cardinality(ch[k.id].burned) <= Cardinality(next[k.id].burned)
  <2>1. k.id \in DOMAIN ch
    BY <1>2, MirrorCounts, Zenon
  <2>. QED
    BY <1>2, <2>1, CountsGrow, MirrorCounts, Zenon
<1>. QED
  BY <1>1, <1>2, Zenon DEF CountsRoom

LEMMA MirrorReached ==
    ASSUME NEW ch, NEW next, Grown(ch, next), Ledger(ch), NEW st, Truthful(ch, st), Reached(ch, st.campaigns)
    PROVE  Reached(next, st.campaigns)
BY MirrorCounts, ReachedLasts, Zenon

\* The one open call goes on; what is at its stage "answer" has room.
LEMMA OpenCallMoves ==
    ASSUME StoreInv, AloneInv, NEW c \in DOMAIN storeCall, storeCall[c].stage \notin {"ok", "err"},
           NEW r, DOMAIN storeCall' = DOMAIN storeCall, storeCall'[c] = r,
           \A d \in DOMAIN storeCall : d # c => storeCall'[d] = storeCall[d],
           Reached(chain', mirror'.campaigns), r.stage = "answer" => CountsRoom(chain', mirror', r)
    PROVE  AloneInv'
<1>1. ASSUME NEW d \in DOMAIN storeCall, d # c
      PROVE  storeCall'[d] = storeCall[d] /\ storeCall[d].stage \in {"ok", "err"}
  BY <1>1 DEF AloneInv, OneIsOpen
<1>2. OneIsOpen'
  BY <1>1 DEF OneIsOpen
<1>3. ASSUME NEW d \in DOMAIN storeCall', storeCall'[d].stage = "answer"
      PROVE  CountsRoom(chain', mirror', storeCall'[d])
  <2>1. d = c
    BY <1>1, <1>3
  <2>. QED
    BY <1>3, <2>1, Zenon
<1>. QED
  BY <1>2, <1>3, Zenon DEF AloneInv

LEMMA AloneBegins == Store!Init => AloneInv
<1> SUFFICES ASSUME Store!Init PROVE AloneInv
  OBVIOUS
<1>1. DOMAIN storeCall = {} /\ DOMAIN mirror.campaigns = {}
  BY DEF Store!Init, Store!Empty
<1>. QED
  BY <1>1 DEF AloneInv, OneIsOpen, Reached

\* An issue or a burn makes the room that its answer will take.
LEMMA WriteMakesRoom ==
    ASSUME StoreInv, AloneInv, NEW c \in DOMAIN storeCall, Wide!Apply(c)
    PROVE  CountsRoom(chain', mirror, Applied(storeCall[c]))
<1>1. PICK k : k = storeCall[c]
  OBVIOUS
<1>2. Wide!Permits(k) /\ chain' = Wide!Effect(k)
  BY <1>1 DEF Wide!Apply
<1>3. k \in StoreRecord /\ Ledger(chain) /\ Truthful(chain, mirror) /\ Reached(chain, mirror.campaigns)
  BY <1>1, CallsAre, Zenon DEF StoreInv, AloneInv
<1>4. \A m, n \in Nat : m <= n => m + 1 <= n + 1
  OBVIOUS
<1>5. CASE k.method = "issue"
  <2>1. PICK a : a = Applied(k)
    OBVIOUS
  <2>2. a.method = "issue" /\ a.id = k.id
    BY <1>3, <1>5, <2>1 DEF Applied, StoreRecord
  <2>3. k.id \in DOMAIN chain /\ k.code \notin chain[k.id].minted
        /\ chain' = [chain EXCEPT ![k.id].minted = @ \cup {k.code}]
    BY <1>2, <1>5 DEF Wide!Permits, Wide!Effect, Wide!Known
  <2>4. chain[k.id] \in Campaign /\ IsFiniteSet(chain[k.id].minted) /\ Cardinality(chain[k.id].minted) \in Nat
    BY <1>3, <2>3, CampaignsAre, Zenon
  <2>5. chain'[k.id].minted = chain[k.id].minted \cup {k.code}
    BY <2>3, <2>4 DEF Campaign
  <2>6. Cardinality(chain'[k.id].minted) = Cardinality(chain[k.id].minted) + 1
    <3>1. Cardinality(chain[k.id].minted \cup {k.code}) = Cardinality(chain[k.id].minted) + 1
      BY <2>3, <2>4, FS_AddElement
    <3>. QED
      BY <2>5, <3>1, Zenon
  <2>7. ASSUME k.id \in DOMAIN mirror.campaigns
        PROVE  mirror.campaigns[k.id].minted + 1 <= Cardinality(chain'[k.id].minted)
    <3>1. mirror.campaigns[k.id].minted \in Nat
          /\ mirror.campaigns[k.id].minted <= Cardinality(chain[k.id].minted)
      BY <1>3, <2>7, MirrorCounts, Zenon DEF Reached
    <3>. QED
      BY <1>4, <2>4, <2>6, <3>1, Zenon
  <2>8. CountsRoom(chain', mirror, a)
    BY <2>2, <2>7 DEF CountsRoom
  <2>. QED
    BY <1>1, <2>1, <2>8, Zenon
<1>6. CASE k.method = "redeem"
  <2>1. PICK a : a = Applied(k)
    OBVIOUS
  <2>2. a.method = "redeem" /\ a.id = k.id
    BY <1>3, <1>6, <2>1 DEF Applied, StoreRecord
  <2>3. k.id \in DOMAIN chain /\ k.code \notin chain[k.id].burned
        /\ chain' = [chain EXCEPT ![k.id].burned = @ \cup {k.code}]
    BY <1>2, <1>6 DEF Wide!Permits, Wide!Effect, Wide!Known
  <2>4. chain[k.id] \in Campaign /\ IsFiniteSet(chain[k.id].burned) /\ Cardinality(chain[k.id].burned) \in Nat
    BY <1>3, <2>3, CampaignsAre, Zenon
  <2>5. chain'[k.id].burned = chain[k.id].burned \cup {k.code}
    BY <2>3, <2>4 DEF Campaign
  <2>6. Cardinality(chain'[k.id].burned) = Cardinality(chain[k.id].burned) + 1
    <3>1. Cardinality(chain[k.id].burned \cup {k.code}) = Cardinality(chain[k.id].burned) + 1
      BY <2>3, <2>4, FS_AddElement
    <3>. QED
      BY <2>5, <3>1, Zenon
  <2>7. ASSUME k.id \in DOMAIN mirror.campaigns
        PROVE  mirror.campaigns[k.id].burned + 1 <= Cardinality(chain'[k.id].burned)
    <3>1. mirror.campaigns[k.id].burned \in Nat
          /\ mirror.campaigns[k.id].burned <= Cardinality(chain[k.id].burned)
      BY <1>3, <2>7, MirrorCounts, Zenon DEF Reached
    <3>. QED
      BY <1>4, <2>4, <2>6, <3>1, Zenon
  <2>8. CountsRoom(chain', mirror, a)
    BY <2>2, <2>7 DEF CountsRoom
  <2>. QED
    BY <1>1, <2>1, <2>8, Zenon
<1>7. CASE k.method \notin {"issue", "redeem"}
  <2>1. PICK a : a = Applied(k)
    OBVIOUS
  <2>2. a.method = k.method
    BY <1>3, <2>1 DEF Applied, StoreRecord
  <2>3. CountsRoom(chain', mirror, a)
    BY <1>7, <2>2 DEF CountsRoom
  <2>. QED
    BY <1>1, <2>1, <2>3, Zenon
<1>. QED
  BY <1>5, <1>6, <1>7

LEMMA AloneCallSteps ==
    ASSUME StoreInv, AloneInv, NEW c \in DOMAIN storeCall, Wide!Step(c) PROVE AloneInv'
<1>1. PICK k : k = storeCall[c]
  OBVIOUS
<1>2. k \in StoreRecord /\ Ledger(chain) /\ Backed(chain, k) /\ Truthful(chain, mirror)
  BY <1>1, CallsAre, Zenon DEF StoreInv
<1>3. Reached(chain, mirror.campaigns)
  BY Zenon DEF AloneInv
<1>4. CASE Wide!Apply(c)
  <2>1. Grown(chain, chain')
    BY <1>4, WriteSteps, Zenon
  <2>2. k.stage = "sent" /\ mirror' = mirror /\ storeCall' = [storeCall EXCEPT ![c] = Applied(k)]
    BY <1>1, <1>4 DEF Wide!Apply, Applied
  <2>3. PICK r : r = Applied(k)
    OBVIOUS
  <2>4. /\ DOMAIN storeCall' = DOMAIN storeCall /\ storeCall'[c] = r
        /\ \A d \in DOMAIN storeCall : d # c => storeCall'[d] = storeCall[d]
    BY <2>2, <2>3
  <2>5. storeCall[c].stage \notin {"ok", "err"}
    BY <1>1, <2>2
  <2>6. Reached(chain', mirror'.campaigns)
    <3>1. Reached(chain', mirror.campaigns)
      BY <1>2, <1>3, <2>1, MirrorReached, Zenon
    <3>. QED
      BY <2>2, <3>1, Zenon
  <2>7. CountsRoom(chain', mirror', r)
    <3>1. CountsRoom(chain', mirror, r)
      BY <1>1, <1>4, <2>3, WriteMakesRoom, Zenon
    <3>. QED
      BY <2>2, <3>1, Zenon
  <2>. QED
    BY <2>4, <2>5, <2>6, <2>7, OpenCallMoves, Zenon
<1>5. ASSUME NEW r, UNCHANGED <<chain, mirror>>, storeCall' = [storeCall EXCEPT ![c] = r],
             k.stage \notin {"ok", "err"}, r.stage = "answer" => r.method \notin {"issue", "redeem"}
      PROVE  AloneInv'
  <2>1. /\ DOMAIN storeCall' = DOMAIN storeCall /\ storeCall'[c] = r
        /\ \A d \in DOMAIN storeCall : d # c => storeCall'[d] = storeCall[d]
    BY <1>5
  <2>2. storeCall[c].stage \notin {"ok", "err"}
    BY <1>1, <1>5, Zenon
  <2>3. Reached(chain', mirror'.campaigns)
    BY <1>3, <1>5, Zenon
  <2>4. r.stage = "answer" => CountsRoom(chain', mirror', r)
    BY <1>5 DEF CountsRoom
  <2>. QED
    BY <2>1, <2>2, <2>3, <2>4, OpenCallMoves, Zenon
<1>6. k.stage = "campaign" => k.method = "verify"
  BY <1>2, Zenon DEF Backed
<1>7. CASE Wide!ReadToken(c)
  <2>1. k.stage = "sent" /\ k.method \in Wide!Reads /\ UNCHANGED <<chain, mirror>>
    BY <1>1, <1>7 DEF Wide!ReadToken
  <2>2. PICK b, s : storeCall' = [storeCall EXCEPT ![c] = [k EXCEPT !.stage = s, !.burned = b]]
    <3>1. CASE storeCall' = Wide!Stage(c, "answer")
      <4>1. storeCall' = [storeCall EXCEPT ![c] = [k EXCEPT !.stage = "answer", !.burned = k.burned]]
        BY <1>1, <1>2, <3>1 DEF Wide!Stage, StoreRecord
      <4>. QED
        BY <4>1, Zenon
    <3>2. CASE storeCall' # Wide!Stage(c, "answer")
      BY <1>1, <1>7, <3>2, ZenonT(30) DEF Wide!ReadToken
    <3>. QED
      BY <3>1, <3>2
  <2>3. PICK r : r = [k EXCEPT !.stage = s, !.burned = b]
    OBVIOUS
  <2>4. r.method \notin {"issue", "redeem"}
    BY <1>2, <2>1, <2>3 DEF StoreRecord, Wide!Reads
  <2>5. storeCall' = [storeCall EXCEPT ![c] = r] /\ k.stage \notin {"ok", "err"}
    BY <2>1, <2>2, <2>3
  <2>. QED
    BY <1>5, <2>1, <2>4, <2>5, Zenon
<1>8. CASE \E id \in Wide!Ids : Wide!ReadCampaign(c, id)
  <2>1. PICK id \in Wide!Ids : Wide!ReadCampaign(c, id)
    BY <1>8
  <2>2. /\ k.stage = "campaign" \/ (k.method = "load" /\ k.stage = "sent")
        /\ UNCHANGED <<chain, mirror>>
    BY <1>1, <2>1 DEF Wide!ReadCampaign
  <2>3. PICK g, s : storeCall' = [storeCall EXCEPT ![c].got = g, ![c].stage = s]
    BY <2>1, Zenon DEF Wide!ReadCampaign
  <2>4. PICK r : r = [k EXCEPT !.got = g, !.stage = s]
    OBVIOUS
  <2>5. storeCall' = [storeCall EXCEPT ![c] = r] /\ k.stage \notin {"ok", "err"}
    BY <1>1, <2>2, <2>3, <2>4
  <2>6. r.method = k.method
    BY <1>2, <2>4 DEF StoreRecord
  <2>7. r.method \notin {"issue", "redeem"}
    BY <1>6, <2>2, <2>6
  <2>. QED
    BY <1>5, <2>2, <2>5, <2>7, Zenon
<1>9. ASSUME NEW s, UNCHANGED <<chain, mirror>>, storeCall' = Wide!Stage(c, s),
             k.stage \notin {"ok", "err"}, s = "answer" => k.method \notin {"issue", "redeem"}
      PROVE  AloneInv'
  <2>1. PICK r : r = [k EXCEPT !.stage = s]
    OBVIOUS
  <2>2. r.stage = s /\ r.method = k.method
    BY <1>2, <2>1 DEF StoreRecord
  <2>3. storeCall' = [storeCall EXCEPT ![c] = r]
    BY <1>1, <1>9, <2>1 DEF Wide!Stage
  <2>. QED
    BY <1>5, <1>9, <2>2, <2>3, Zenon
<1>10. CASE Wide!ReadFails(c)
  <2>1. /\ k.stage = "campaign" \/ (k.method = "load" /\ k.stage = "sent")
        /\ UNCHANGED <<chain, mirror>> /\ storeCall' = Wide!Stage(c, "answer")
    BY <1>1, <1>10, Zenon DEF Wide!ReadFails
  <2>2. k.stage \notin {"ok", "err"} /\ k.method \notin {"issue", "redeem"}
    BY <1>6, <2>1
  <2>. QED
    BY <1>9, <2>1, <2>2, Zenon
<1>11. CASE Wide!Return(c)
  <2>1. k.stage = "returned" /\ UNCHANGED <<chain, mirror>> /\ storeCall' = Wide!Stage(c, "ok")
    BY <1>1, <1>11, Zenon DEF Wide!Return
  <2>2. k.stage \notin {"ok", "err"} /\ "ok" # "answer"
    BY <2>1
  <2>. QED
    BY <1>9, <2>1, <2>2, Zenon
<1>12. CASE Wide!Fail(c)
  <2>1. /\ k.stage \notin Wide!Closed \cup {"returned"} /\ UNCHANGED <<chain, mirror>>
        /\ storeCall' = Wide!Stage(c, "err")
    BY <1>1, <1>12, Zenon DEF Wide!Fail
  <2>2. k.stage \notin {"ok", "err"} /\ "err" # "answer"
    BY <2>1 DEF Wide!Closed
  <2>. QED
    BY <1>9, <2>1, <2>2, Zenon
<1>13. CASE Wide!Answer(c)
  <2>1. PICK next : next = Wide!Updated(mirror, k)
    OBVIOUS
  <2>2. k.stage = "answer" /\ mirror' = next /\ storeCall' = Wide!Stage(c, "returned") /\ chain' = chain
    BY <1>1, <1>13, <2>1, Zenon DEF Wide!Answer, Wide!ApplyState
  <2>3. CountsRoom(chain, mirror, k)
    BY <1>1, <2>2, Zenon DEF AloneInv
  <2>4. Reached(chain, next.campaigns)
    BY <1>2, <1>3, <2>1, <2>2, <2>3, UpdateTrue, Zenon
  <2>5. PICK r : r = [k EXCEPT !.stage = "returned"]
    OBVIOUS
  <2>6. r.stage = "returned" /\ r.stage # "answer"
    BY <1>2, <2>5 DEF StoreRecord
  <2>7. storeCall' = [storeCall EXCEPT ![c] = r]
    BY <1>1, <2>2, <2>5 DEF Wide!Stage
  <2>8. /\ DOMAIN storeCall' = DOMAIN storeCall /\ storeCall'[c] = r
        /\ \A d \in DOMAIN storeCall : d # c => storeCall'[d] = storeCall[d]
    BY <2>7
  <2>9. storeCall[c].stage \notin {"ok", "err"}
    BY <1>1, <2>2
  <2>10. Reached(chain', mirror'.campaigns)
    BY <2>2, <2>4, Zenon
  <2>. QED
    BY <2>6, <2>8, <2>9, <2>10, OpenCallMoves, Zenon
<1>. QED
  BY <1>4, <1>7, <1>8, <1>10, <1>11, <1>12, <1>13, Zenon DEF Wide!Step

LEMMA AloneSteps ==
    ASSUME StoreInv, AloneInv, Alone!Next PROVE AloneInv'
<1>1. Ledger(chain) /\ Truthful(chain, mirror) /\ Reached(chain, mirror.campaigns)
  BY Zenon DEF StoreInv, AloneInv
<1>2. CASE Wide!Open = {} /\ UNCHANGED <<chain, mirror>>
           /\ \E method, who, id, code : Wide!Start(method, who, id, code)
  <2>1. PICK k : storeCall' = Append(storeCall, k) /\ k.stage = "sent"
    <3>1. PICK method, who, id, code : Wide!Start(method, who, id, code)
      BY <1>2
    <3>2. PICK k : k = [method |-> method, who |-> who, id |-> id, code |-> code,
                        stage |-> "sent", burned |-> FALSE, got |-> <<>>]
      OBVIOUS
    <3>3. k.stage = "sent"
      BY <3>2
    <3>4. storeCall' = Append(storeCall, k)
      BY <3>1, <3>2, Zenon DEF Wide!Start
    <3>. QED
      BY <3>3, <3>4, Zenon
  <2>2. storeCall \in Seq(StoreRecord)
    BY Zenon DEF StoreInv, CallsBacked
  <2>3. \A c \in DOMAIN storeCall : storeCall[c].stage \in {"ok", "err"}
    BY <1>2 DEF Wide!Open, Wide!Closed
  <2>4. \A c \in DOMAIN storeCall' : \/ c \in DOMAIN storeCall /\ storeCall'[c] = storeCall[c]
                                     \/ c = Len(storeCall) + 1 /\ storeCall'[c] = k
    BY <2>1, <2>2
  <2>5. OneIsOpen'
    BY <2>3, <2>4 DEF OneIsOpen
  <2>6. \A c \in DOMAIN storeCall' : storeCall'[c].stage # "answer"
    BY <2>1, <2>3, <2>4
  <2>. QED
    BY <1>1, <1>2, <2>5, <2>6, Zenon DEF AloneInv
<1>3. CASE UNCHANGED <<chain, mirror, storeCall>>
  BY <1>3, Zenon DEF AloneInv, OneIsOpen
<1>4. CASE \E id \in Wide!Ids, code \in StoreCodes : Wide!Elsewhere(id, code)
  <2>1. Grown(chain, chain')
    BY <1>4, BurnElsewhere, Zenon
  <2>2. mirror' = mirror /\ storeCall' = storeCall
    BY <1>4, Zenon DEF Wide!Elsewhere
  <2>3. Reached(chain', mirror.campaigns)
    BY <1>1, <2>1, MirrorReached, Zenon
  <2>4. \A c \in DOMAIN storeCall : storeCall[c].stage = "answer" => CountsRoom(chain', mirror, storeCall[c])
    BY <1>1, <2>1, RoomLasts, Zenon DEF AloneInv
  <2>. QED
    BY <2>2, <2>3, <2>4, Zenon DEF AloneInv, OneIsOpen
<1>5. CASE \E c \in DOMAIN storeCall : Wide!Step(c)
  BY <1>5, AloneCallSteps, Zenon
<1>. QED
  BY <1>2, <1>3, <1>4, <1>5, AloneActs, Zenon

-----------------------------------------------------------------------------
(* What the store's invariant says of the mirror and of the log            *)

LEMMA MirrorTyped ==
    ASSUME NEW st \in MirrorState
    PROVE  Store!Mirrors(st)
<1>1. /\ st.campaigns \in Partial(Wide!Ids, Mirrored) /\ st.tokens \in Partial(Wide!Keys, BOOLEAN)
      /\ st.delegates \subseteq Wide!Ids \X Wallets
  BY MirrorTurns
<1>2. DOMAIN st.campaigns \subseteq Wide!Ids /\ \A id \in DOMAIN st.campaigns : st.campaigns[id] \in Mirrored
  BY <1>1, PartialIs, Zenon
<1>3. DOMAIN st.tokens \subseteq Wide!Keys /\ \A k \in DOMAIN st.tokens : st.tokens[k] \in BOOLEAN
  BY <1>1, PartialIs
<1>4. Wide!Ids = Store!Ids /\ Wide!Keys = Store!Keys
  BY DEF Wide!Ids, Wide!Keys, Store!Ids, Store!Keys
<1>5. DOMAIN st.campaigns \subseteq Store!Ids /\ DOMAIN st.tokens \subseteq Store!Keys
  BY <1>2, <1>3, <1>4
<1>6. st.delegates \subseteq Store!Ids \X Wallets
  BY <1>1, <1>4
<1>. QED
  BY <1>2, <1>3, <1>5, <1>6 DEF Store!Mirrors, Mirrored

LEMMA StoreTyped == StoreInv => Store!TypeOK
<1> SUFFICES ASSUME StoreInv PROVE Store!TypeOK
  OBVIOUS
<1>1. /\ storeWallet \in Wallets \cup {NoWallet} /\ mirror \in MirrorState /\ seen \in MirrorState
      /\ dirty = TRUE \/ seen = mirror
      /\ LogTrue(log, storeCall)
  BY Zenon DEF StoreInv, Truthful
<1>2. Store!Mirrors(mirror) /\ Store!Mirrors(seen)
  BY <1>1, MirrorTyped, Zenon
<1>3. \A i \in DOMAIN log :
         log[i] \in [id : DOMAIN storeCall, status : {"pending", "ok", "err"}]
  <2>1. ASSUME NEW i \in DOMAIN log
        PROVE  log[i] \in LogEntry /\ log[i].id \in DOMAIN storeCall
    BY <1>1, <2>1 DEF LogTrue, Tells
  <2>. QED
    BY <2>1 DEF LogEntry
<1>4. Len(log) <= LogLimit
  BY <1>1, Zenon DEF LogTrue
<1>. QED
  BY <1>1, <1>2, <1>3, <1>4, Zenon DEF Store!TypeOK

LEMMA StoreTruths == StoreInv => Store!TermsExact /\ Store!MirrorWasTrue /\ Store!LogIsTrue
<1> SUFFICES ASSUME StoreInv PROVE Store!TermsExact /\ Store!MirrorWasTrue /\ Store!LogIsTrue
  OBVIOUS
<1>1. /\ TermsTrue(chain, mirror.campaigns) /\ CouponsTrue(chain, mirror.tokens)
      /\ DelegatesTrue(chain, mirror.delegates) /\ LogTrue(log, storeCall)
  BY Zenon DEF StoreInv, Truthful
<1>2. Store!TermsExact
  BY <1>1, Zenon DEF TermsTrue, Store!TermsExact, Store!Known
<1>3. Store!MirrorWasTrue
  <2>1. \A k \in DOMAIN mirror.tokens :
           k[2] \in chain[k[1]].minted /\ (mirror.tokens[k] => k[2] \in chain[k[1]].burned)
    BY <1>1 DEF CouponsTrue
  <2>. QED
    BY <1>1, <2>1, Zenon DEF DelegatesTrue, Store!MirrorWasTrue
<1>4. Store!LogIsTrue
  BY <1>1, Zenon DEF LogTrue, Tells, Store!LogIsTrue
<1>. QED
  BY <1>2, <1>3, <1>4

LEMMA CountsTrue == AloneInv => Store!CountsWereTrue
BY WideCounts, Zenon DEF AloneInv, Reached, Store!CountsWereTrue

-----------------------------------------------------------------------------
(* The theorems                                                            *)

\* Every part's, the room a page leaves for what it counts while it runs.
IInv ==
    /\ ClientInv /\ StoreInv /\ RedeemInv /\ CardsInv /\ RegisterInv /\ SettleInv /\ VerifyInv
    /\ part = "alone" => AloneInv

LEMMA InitHolds == Init => IInv
<1> SUFFICES ASSUME Init PROVE IInv
  OBVIOUS
<1>1. Client!Init /\ Store!Init /\ Redeem!Init /\ Cards!Init /\ Register!Init /\ Settle!Init /\ Verify!Init
  BY Zenon DEF Init
<1>. QED
  BY <1>1, ClientBegins, StoreBegins, AloneBegins, RedeemBegins, CardsBegin, RegisterBegins, SettleBegins,
     VerifyBegins, Zenon DEF IInv

LEMMA StepHolds == IInv /\ [Next]_vars => IInv'
<1> SUFFICES ASSUME IInv, [Next]_vars PROVE IInv'
  OBVIOUS
<1>1. StoreInv'
  BY OneRuns, StorePartSteps, Zenon DEF IInv
<1>2. ASSUME part = "alone" PROVE AloneInv'
  <2>1. CASE RunsStore
    BY <1>2, <2>1, Zenon DEF RunsStore
  <2>2. CASE RunsAlone
    BY <1>2, <2>2, AloneSteps, Zenon DEF IInv, RunsAlone
  <2>3. CASE UNCHANGED storeVars
    <3>1. UNCHANGED <<chain, mirror, storeCall>>
      BY <2>3, Zenon DEF storeVars
    <3>. QED
      BY <1>2, <3>1, Zenon DEF IInv, AloneInv, OneIsOpen
  <2>. QED
    BY OneRuns, <2>1, <2>2, <2>3, Zenon
<1>3. ClientInv' /\ RedeemInv' /\ CardsInv'
  BY OneRuns, ClientKeeps, RedeemKeeps, CardsKeep, Zenon DEF IInv
<1>4. RegisterInv' /\ SettleInv' /\ VerifyInv'
  BY OneRuns, RegisterKeeps, SettleKeeps, VerifyKeeps, Zenon DEF IInv
<1>5. (part = "alone" => AloneInv)'
  BY OneRuns, <1>2, Zenon
<1>. QED
  BY <1>1, <1>3, <1>4, <1>5, Zenon DEF IInv

\* Every part keeps its types, whatever the others may do to it; and a card
\* takes a call to be under way only while one is.
THEOREM TypeCorrect == Spec => []PlaygroundTypeOK
<1>1. IInv => PlaygroundTypeOK
  BY StoreTyped, Zenon
  DEF IInv, PlaygroundTypeOK, ClientInv, RedeemInv, RedeemTypes, CardsInv, RegisterInv, SettleInv, VerifyInv
<1>. QED
  BY InitHolds, StepHolds, <1>1, PTL DEF Spec

\* A success that the client answers was applied with the envelope of its call,
\* and no effect is behind an error that says there is none, however requests
\* are lost, time out or race for a sequence number.
THEOREM AnswersSafe == Spec => []AnswersAreTheLedgers
<1>1. IInv => AnswersAreTheLedgers
  BY Zenon DEF IInv, ClientInv, AnswersAreTheLedgers
<1>. QED
  BY InitHolds, StepHolds, <1>1, PTL DEF Spec

\* What the store shows has been true of the contract, in whatever order calls
\* are answered and wallets change; counters, where the page makes one call at a
\* time.  The verifier's two reads and the browser's clock agree on one moment
\* only where they must: "redeemed" is true of the coupon, "expired" of the
\* clock, and a coupon burned before its lookup began is shown as nothing else.
THEOREM ShownSafe == Spec => []ShownWasTrue
<1>1. IInv => ShownWasTrue
  BY StoreTruths, CountsTrue, Zenon DEF IInv, VerifyInv, ShownWasTrue
<1>. QED
  BY InitHolds, StepHolds, <1>1, PTL DEF Spec

\* What a card shows is what it sends, though digests, wallets, chips, views and
\* inputs change under a call: a commitment is to the inputs on show, and of no
\* receipt's nonce, once its digest is in; and registrations and tallies keep the
\* contract's rules of attribution and settlement, a token at no rate apart.
THEOREM CardsSafe == Spec => []CardsSendWhatTheyShow
<1>1. IInv => CardsSendWhatTheyShow
  BY RedeemRetires, SnippetsAreCalls, FormsEnforce, Zenon
  DEF IInv, RedeemInv, CardsInv, RegisterInv, SettleInv, CardsSendWhatTheyShow
<1>. QED
  BY InitHolds, StepHolds, <1>1, PTL DEF Spec

=============================================================================
