-------------------------- MODULE PlaygroundStore --------------------------
(***************************************************************************)
(* The playground's app store (web/src/store.jsx): every card calls the    *)
(* contract through invoke, which logs the call, and folds the answer into *)
(* a mirror of the campaigns, tokens and delegates it has seen.  Calls     *)
(* overlap, and their answers arrive in any order or not at all; React     *)
(* runs queued updaters at the next render, or eagerly.  Contract, wallet  *)
(* and other users of the contract are the environment; a campaign's terms *)
(* are its owner, the rest of them being copied with it.                   *)
(***************************************************************************)
EXTENDS Integers, Sequences, FiniteSets

CONSTANTS
    Wallets,        \* accounts of Freighter, and delegates
    NoWallet,       \* wallet === null
    Codes,          \* coupon codes
    MaxCamps,       \* bound: campaigns
    MaxCalls,       \* bound: calls of the store
    MaxOpen,        \* calls under way at a time
    LogLimit        \* slice(0, 60)

StoreAssumption ==
    /\ NoWallet \notin Wallets /\ MaxCamps \in Nat \ {0} /\ MaxCalls \in Nat
    /\ MaxOpen \in Nat \ {0} /\ LogLimit \in Nat \ {0} /\ Codes # {}
    /\ \A w \in Wallets : \E x \in Wallets : x # w      \* whom to delegate to

VARIABLES
    chain,      \* the contract: sequence of [owner, minted, burned, delegates, ever]
    wallet,     \* the connected account
    mirror,     \* React state: campaigns, tokens, delegates, all updaters run
    seen,       \* stateRef.current
    dirty,      \* an update of the provider waits for the next render
    log,        \* activity log, newest first: [id, status]
    call        \* the calls, in the order they were made

vars == <<chain, wallet, mirror, seen, dirty, log, call>>

Ids == 1..MaxCamps
Keys == Ids \X Codes
Writes == {"create", "issue", "redeem", "addDelegate", "removeDelegate", "tallyWrite"}
Reads == {"verify", "read"}         \* read: is_delegate and the tally views

Snapshot(id) == [owner |-> chain[id].owner, minted |-> Cardinality(chain[id].minted),
                 burned |-> Cardinality(chain[id].burned)]

\* { ...old, ...new }, and { [key]: value }
Spread(old, new) ==
    [x \in DOMAIN old \cup DOMAIN new |-> IF x \in DOMAIN new THEN new[x] ELSE old[x]]
Entry(key, value) == [x \in {key} |-> value]

Closed == {"ok", "err"}
Open == {c \in DOMAIN call : call[c].stage \notin Closed}

\* SD.initialState: nothing is seeded.
Empty == [campaigns |-> <<>>, tokens |-> <<>>, delegates |-> {}]

Init ==
    /\ chain = <<>>
    /\ wallet = NoWallet
    /\ mirror = Empty /\ seen = Empty /\ dirty = FALSE
    /\ log = <<>> /\ call = <<>>

Stage(c, s) == [call EXCEPT ![c].stage = s]

-----------------------------------------------------------------------------
(* React                                                                   *)

\* Mutant: the update is not rendered.
ApplyStateUnseen(next) == mirror' = next /\ seen' = seen /\ dirty' = dirty

\* applyState: the updater assigns stateRef; React runs it at once when no
\* other update of the component waits, else when it renders.
ApplyState(next) ==
    /\ mirror' = next
    /\ seen' = IF dirty THEN seen ELSE next
    /\ dirty' = TRUE

Render ==
    /\ dirty /\ dirty' = FALSE
    /\ seen' = mirror
    /\ UNCHANGED <<chain, wallet, mirror, log, call>>

-----------------------------------------------------------------------------
(* Wallet                                                                  *)

\* A call starts: invoke logs it as pending before anything else happens; the
\* load that follows a connection is not logged.
Start(method, who, id, code) ==
    /\ Len(call) < MaxCalls /\ Cardinality(Open) < MaxOpen
    /\ call' = Append(call, [method |-> method, who |-> who, id |-> id, code |-> code,
                             stage |-> "sent", burned |-> FALSE, got |-> <<>>])
    /\ log' = IF method = "load" THEN log
              ELSE SubSeq(<<[id |-> Len(call) + 1, status |-> "pending"]>> \o log,
                          1, IF Len(log) < LogLimit THEN Len(log) + 1 ELSE LogLimit)
    /\ dirty' = TRUE

Connect(w) ==
    /\ wallet = NoWallet
    /\ wallet' = w
    /\ Start("load", w, 1, CHOOSE code \in Codes : TRUE)
    /\ UNCHANGED <<chain, mirror, seen>>

Disconnect ==
    /\ wallet # NoWallet /\ wallet' = NoWallet /\ dirty' = TRUE
    /\ UNCHANGED <<chain, mirror, seen, log, call>>

-----------------------------------------------------------------------------
(* Calls                                                                   *)

\* Every method captures the wallet of the render it was called from.
Invoke(method, id, code) ==
    /\ Start(method, wallet, id, code)
    /\ UNCHANGED <<chain, wallet, mirror, seen>>

CreateCampaign == Invoke("create", 1, CHOOSE code \in Codes : TRUE)
IssueCodes(id, code) == Invoke("issue", id, code)
Redeem(id, code) == Invoke("redeem", id, code)
Verify(id, code) == Invoke("verify", id, code)
AddDelegate(id, code) == Invoke("addDelegate", id, code)
RemoveDelegate(id, code) == Invoke("removeDelegate", id, code)
IsDelegate(id, code) == Invoke("read", id, code)
\* registerShared, commitTally, settle, bumpTally; their views read as IsDelegate.
WriteTally(id, code) == Invoke("tallyWrite", id, code)

RequireWallet(k) == k.who # NoWallet

Known(id) == id \in DOMAIN chain

\* What the contract does with a write: refuses it, or changes its state.
Permits(k) ==
    CASE k.method = "create" -> Len(chain) < MaxCamps
      [] k.method = "issue" -> Known(k.id) /\ chain[k.id].owner = k.who
                               /\ k.code \notin chain[k.id].minted
      [] k.method = "redeem" -> Known(k.id) /\ k.code \in chain[k.id].minted \ chain[k.id].burned
                                /\ k.who \in chain[k.id].delegates \cup {chain[k.id].owner}
      [] k.method \in {"addDelegate", "removeDelegate"} ->
            Known(k.id) /\ chain[k.id].owner = k.who
      [] OTHER -> TRUE

\* The delegate named is the other account.
Delegate(k) == CHOOSE w \in Wallets : w # k.who

Effect(k) ==
    CASE k.method = "create" ->
            Append(chain, [owner |-> k.who, minted |-> {}, burned |-> {}, delegates |-> {},
                           ever |-> {}])
      [] k.method = "issue" -> [chain EXCEPT ![k.id].minted = @ \cup {k.code}]
      [] k.method = "redeem" -> [chain EXCEPT ![k.id].burned = @ \cup {k.code}]
      [] k.method = "addDelegate" ->
            [chain EXCEPT ![k.id].delegates = @ \cup {Delegate(k)},
                          ![k.id].ever = @ \cup {Delegate(k)}]
      [] k.method = "removeDelegate" -> [chain EXCEPT ![k.id].delegates = @ \ {Delegate(k)}]
      [] OTHER -> chain

\* The transaction of a write is applied; requireWallet throws before.
Apply(c) ==
    LET k == call[c]
    IN  /\ k.stage = "sent" /\ k.method \in Writes
        /\ RequireWallet(k) /\ Permits(k)
        /\ chain' = Effect(k)
        /\ call' = [call EXCEPT ![c].stage = "answer",
                                ![c].id = IF k.method = "create" THEN Len(chain) + 1 ELSE @]
        /\ UNCHANGED <<wallet, mirror, seen, dirty, log>>

\* Another user of the contract burns a coupon.
Elsewhere(id, code) ==
    /\ Known(id) /\ code \in chain[id].minted \ chain[id].burned
    /\ chain' = [chain EXCEPT ![id].burned = @ \cup {code}]
    /\ UNCHANGED <<wallet, mirror, seen, dirty, log, call>>

\* The first read of verify, and any other view.
ReadToken(c) ==
    LET k == call[c]
    IN  /\ k.stage = "sent" /\ k.method \in Reads
        /\ \/ /\ k.method = "verify" /\ Known(k.id) /\ k.code \in chain[k.id].minted
              /\ call' = [call EXCEPT ![c].stage = "campaign",
                                      ![c].burned = k.code \in chain[k.id].burned]
           \/ k.method = "read" /\ call' = Stage(c, "answer")
        /\ UNCHANGED <<chain, wallet, mirror, seen, dirty, log>>

\* campaigns_of, then one read of each campaign; of a failed one, null.
Missing(k) == {id \in DOMAIN chain : chain[id].owner = k.who} \ DOMAIN k.got

ReadCampaign(c, id) ==
    LET k == call[c]
    IN  /\ \/ k.stage = "campaign" /\ id = k.id
           \/ k.method = "load" /\ k.stage = "sent" /\ id \in Missing(k)
        /\ call' = [call EXCEPT ![c].got = Spread(@, Entry(id, Snapshot(id))),
                                ![c].stage = IF k.method = "verify" THEN "answer" ELSE @]
        /\ UNCHANGED <<chain, wallet, mirror, seen, dirty, log>>

\* verify goes on without the campaign, load with what it has.
ReadFails(c) ==
    /\ \/ call[c].stage = "campaign"
       \/ call[c].method = "load" /\ call[c].stage = "sent"
    /\ call' = Stage(c, "answer")
    /\ UNCHANGED <<chain, wallet, mirror, seen, dirty, log>>

-----------------------------------------------------------------------------
(* Answers                                                                 *)

Bump(st, id, field) ==
    IF id \in DOMAIN st.campaigns
    THEN [st EXCEPT !.campaigns[id][field] = @ + 1] ELSE st

\* Mutant: the new campaign belongs to the wallet connected by now.
CreatedForWallet(st, k) ==
    [st EXCEPT !.campaigns = Spread(@, Entry(k.id, [owner |-> wallet, minted |-> 0, burned |-> 0]))]

Created(st, k) ==
    [st EXCEPT !.campaigns = Spread(@, Entry(k.id, [owner |-> k.who, minted |-> 0, burned |-> 0]))]

Issued(st, k) == Bump([st EXCEPT !.tokens = Spread(@, Entry(<<k.id, k.code>>, FALSE))], k.id, "minted")

Redeemed(st, k) ==
    LET key == <<k.id, k.code>>
    IN  Bump(IF key \in DOMAIN st.tokens THEN [st EXCEPT !.tokens[key] = TRUE] ELSE st,
             k.id, "burned")

Merge(st, k) == [st EXCEPT !.campaigns = Spread(@, k.got)]

Verified(st, k) == [Merge(st, k) EXCEPT !.tokens = Spread(@, Entry(<<k.id, k.code>>, k.burned))]

DelegateAdded(st, k) == [st EXCEPT !.delegates = @ \cup {<<k.id, Delegate(k)>>}]
DelegateRemoved(st, k) == [st EXCEPT !.delegates = @ \ {<<k.id, Delegate(k)>>}]

\* The updater each method passes to applyState.
Updated(st, k) ==
    CASE k.method = "create" -> Created(st, k)
      [] k.method = "issue" -> Issued(st, k)
      [] k.method = "redeem" -> Redeemed(st, k)
      [] k.method = "verify" -> Verified(st, k)
      [] k.method = "load" -> Merge(st, k)
      [] k.method = "addDelegate" -> DelegateAdded(st, k)
      [] k.method = "removeDelegate" -> DelegateRemoved(st, k)
      [] OTHER -> st

\* The entry, if it is still in the log.
Resolve(c, status) ==
    log' = [i \in DOMAIN log |-> IF log[i].id = c THEN [log[i] EXCEPT !.status = status] ELSE log[i]]

\* The answer arrives; the card that awaits it goes on before React renders.
Answer(c) ==
    /\ call[c].stage = "answer"
    /\ ApplyState(Updated(mirror, call[c]))
    /\ Resolve(c, "ok")
    /\ call' = Stage(c, "returned")
    /\ UNCHANGED <<chain, wallet>>

Return(c) ==
    /\ call[c].stage = "returned"
    /\ call' = Stage(c, "ok")
    /\ UNCHANGED <<chain, wallet, mirror, seen, dirty, log>>

\* No wallet, no signature, refused, no answer: invoke logs it and rethrows.
Fail(c) ==
    /\ call[c].stage \notin Closed \cup {"returned"}
    /\ Resolve(c, "err") /\ dirty' = TRUE
    /\ call' = Stage(c, "err")
    /\ UNCHANGED <<chain, wallet, mirror, seen>>

Step(c) ==
    \/ Apply(c) \/ ReadToken(c) \/ ReadFails(c) \/ Answer(c) \/ Return(c) \/ Fail(c)
    \/ \E id \in Ids : ReadCampaign(c, id)

Next ==
    \/ \E w \in Wallets : Connect(w)
    \/ Disconnect
    \/ CreateCampaign
    \/ \E id \in Ids, code \in Codes :
          \/ IssueCodes(id, code) \/ Redeem(id, code) \/ Verify(id, code)
          \/ AddDelegate(id, code) \/ RemoveDelegate(id, code) \/ IsDelegate(id, code)
          \/ WriteTally(id, code) \/ Elsewhere(id, code)
    \/ Render
    \/ \E c \in DOMAIN call : Step(c)

Spec == Init /\ [][Next]_vars

-----------------------------------------------------------------------------
\* Types; and after a render the reference is the state.
Mirrors(st) ==
    /\ DOMAIN st.campaigns \subseteq Ids
    /\ \A id \in DOMAIN st.campaigns :
          st.campaigns[id] \in [owner : Wallets \cup {NoWallet}, minted : Nat, burned : Nat]
    /\ DOMAIN st.tokens \subseteq Keys /\ \A k \in DOMAIN st.tokens : st.tokens[k] \in BOOLEAN
    /\ st.delegates \subseteq Ids \X Wallets

TypeOK ==
    /\ wallet \in Wallets \cup {NoWallet}
    /\ Mirrors(mirror) /\ Mirrors(seen) /\ (dirty \/ seen = mirror)
    /\ Len(log) <= LogLimit
    /\ \A i \in DOMAIN log : log[i] \in [id : DOMAIN call, status : {"pending", "ok", "err"}]

\* The mirror's terms are the contract's, whoever is connected when a call
\* made by another account is answered (createCampaign, loadOwnedCampaigns).
TermsExact ==
    \A id \in DOMAIN mirror.campaigns :
        Known(id) /\ mirror.campaigns[id].owner = chain[id].owner

\* A token shown as burned, and a delegate shown, has been one on the chain,
\* in whatever order writes and older reads are answered.
MirrorWasTrue ==
    /\ \A k \in DOMAIN mirror.tokens :
          /\ k[2] \in chain[k[1]].minted
          /\ mirror.tokens[k] => k[2] \in chain[k[1]].burned
    /\ \A d \in mirror.delegates : d[2] \in chain[d[1]].ever

\* A log entry tells what became of its own call.
LogIsTrue ==
    \A i \in DOMAIN log :
        LET stage == call[log[i].id].stage
        IN  /\ log[i].status = "err" <=> stage = "err"
            /\ log[i].status = "ok" <=> stage \in {"returned", "ok"}

\* Counters are values the contract has had ("UI mirrors only values actually
\* read from or written to the contract"); they only grow there.
CountsWereTrue ==
    \A id \in DOMAIN mirror.campaigns :
        /\ mirror.campaigns[id].minted <= Cardinality(chain[id].minted)
        /\ mirror.campaigns[id].burned <= Cardinality(chain[id].burned)
=============================================================================
