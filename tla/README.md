# SoroTicket: specifications, model checking and proofs

SoroTicket anchors coupons and shared promotion codes in a Soroban contract and
runs a hosted API ("Cloud") on top of it.  This directory keeps TLA+ models of
that program, the TLC configurations that check them, and theorems checked by
the TLA+ proof system.  Every definition is translated from the code; paths
below are relative to the repository.

## 1. The system

| Part | Code | State it keeps | Operations | What makes it correct |
|---|---|---|---|---|
| Contract, Burn profile | `contracts/coupon-ledger/src/lib.rs` | campaigns, coupons, per-campaign code index, delegates, owner index, two counters | `create_campaign`, `add_delegate`, `remove_delegate`, `issue_unique`, `redeem_unique`, reads | a coupon is burned once, by the owner or a delegate, before expiry; supply is never passed; index and counters agree with the coupons |
| Contract, Tally profile | same | shared codes, commitments per period, paid marks | `register_shared`, `commit_tally`, `compute_payouts`, `settle` | commitments are append-only and credit exactly; each period is paid once, for what it owes, by its own campaign's owner |
| Contract, storage rent | same, `bump_*` and `extend_ttl` | time to live of every entry | `bump_campaign`, `bump_codes`, `bump_delegates`, `bump_tally` | what a living campaign needs stays readable |
| Go SDK | `sdk/go` | last transaction hash | simulate, sign, submit, poll | a re-sent envelope is applied at most once; the answer matches the ledger |
| TypeScript SDK | `sdk/ts` | none | same, in the browser | same |
| Cloud chain access | `cloud/api/chain.go` | one mutex per account, funding flag, receipt key | `clientFor`, `fundAccount`, `ensureReceiptSigner` | transactions of one account do not overlap; one receipt key per organization |
| Cloud credits | `cloud/api/meter.go` | balance, credit ledger, month of the last grant | `charge`, `reserveCharge`, `Commit`, `CommitUsed`, `Refund` | the balance is never negative and is the sum of its ledger; what did not happen is refunded |
| Cloud idempotency | `cloud/api/idempotency.go` | key, request hash, stored answer | reserve, replay, sweep | one execution per key |
| Cloud tally | `cloud/api/handlers_tally.go` | events, receipts, tallies | record, commit, settle, reconcile | every event is anchored once; local rows follow the chain |
| Cloud campaigns | `cloud/api/handlers_campaigns.go` | local mirror of campaigns, codes, redemptions | create, archive, issue, verify, redeem | the mirror agrees with the chain |
| Cloud loyalty | `cloud/api/handlers_loyalty.go` | punches, rewards | create program, punch | rewards issued = punches / threshold |
| Cloud webhooks | `cloud/api/webhooks.go` | endpoints, deliveries | create, disable, test, deliver | every delivery ends delivered or failed after 8 attempts |
| Cloud accounts | `cloud/api/auth.go` | users, sessions, organizations, keys, rate windows | signup, login, create organization, keys | limits hold; one organization per user |
| Cloud audit | `cloud/api/merkle.go`, `handlers_audit.go` | none (pure) | leaf, root, proof, public audit | a proof verifies exactly for the leaf at its index |
| Scan tokens, resolve, scans, platform views, store | rest of `cloud/api` | signed tokens, schema | mostly reads | |
| Merchant console | `cloud/console` | in the browser: user and organization, environment, route, what each page has loaded, its forms | loads, forms, dialogs, timers, against the API | what is shown belongs together; what was confirmed is what happened; a form takes effect once; what is announced is there |
| Playground | `web` | wallet, mirror of campaigns, tokens and delegates, log, the cards' forms | every contract call, through the browser SDK | what is shown was true of the contract; what is sent is what is shown |
| Scanner, tests, donor code | `cloud/scanner`, `tests`, `reference` | none that is authoritative | | |

How the parts interact.  Owners, delegates and keepers call the contract
directly or through an SDK; an invocation is atomic and a failed one is rolled
back as a whole.  `settle` is the only entry point that calls another contract
(the payout token: `allowance`, `balance`, `transfer_from`).  Cloud holds one
custodial account per organization and environment and is the campaign owner
on-chain; a handler reserves credits, takes the account mutex, submits and polls
through the Go SDK, then writes its SQLite mirror (one connection) and enqueues
webhooks.  Nothing ties the on-chain effect and the local transaction together
(the missing outbox of `docs/DECISIONS.md`, ADR-017).

Hard behaviours: interleavings of invocations by owner, delegates and keepers;
batches against a cap; the same code under several campaigns; expiry at the
exact deadline; allowances that expire or are consumed by another settlement;
in Cloud, crashes and timeouts between chain and database, keepers racing the
server, retries, sweeps, and one database connection under several mutexes; in
the browser, answers that arrive in any order, under another route, wallet or
environment than they were asked for, forms that close or are sent again while
their request is under way.
`PROJECT.json` lists each hazard at its line with the properties that cover it.

## 2. Modules

### Contract and tally pipeline

Each action of the contract's modules is one successful entry-point invocation.
A guard's conjuncts stand in the order of the code's checks and name the error
returned; an invocation that fails is rolled back by the host and is a
stuttering step.

**CouponLedger** (Burn profile).  Persistent storage is a function whose domain
is the set of keys present: `campaigns`, `tokens`, `codeIndex`, `delegates`,
`ownerCount`, `ownerCampaign`, `ownerSlot` are the seven Burn variants of
`DataKey`, `campCtr` and `tokenCtr` the instance counters, `now` the ledger
timestamp.  Actions: `Tick`, `CreateCampaign`, `AddDelegate`, `RemoveDelegate`,
`IssueUnique`, `RedeemUnique`.  A code is an opaque value, `BadCodes` stands for
the empty and the over-long ones.  `FreshInCampaign` states what the loop of
`issue_unique` accepts: it writes the index before it looks at the next code, so
repetitions inside the batch count.  Left out because no check reads them:
names, reward metadata, `minted_at`, ledger sequence, events, and rent (which is
StorageRent).

**SingleUseCoupon** is the abstract promise: under a campaign a code is absent,
then available, then redeemed, within the issuance cap.

**CouponReads** adds the public reads (`verify`, `is_valid`, `campaign_stats`,
`campaigns_of`, `campaigns_page`) as operators, relates them to the actions, and
states the refinement of SingleUseCoupon (`ImplementsSingleUse`; the status of a
code is read off its coupon).

**TallyLedger** (Tally profile and payout token).  `shared`, `tallies`,
`settled` are the three Tally variants of `DataKey`; `balance` and `allowance`
belong to the token contract, which is external and modelled as `settle` uses
it.  Campaigns are constants, since their owner and deadline never change
(`ExpiredCampaignFrozen`).  Actions: `RegisterShared`, `CommitTally`, `Settle`,
and the environment: `Approve`, `OtherTransfer`, `Tick`.  Attribution maps are
arbitrary functions, so the rules of `commit_tally` are tested on all of them.

**CloudTally** (`handlers_tally.go` for one shared code).  `events` and
`tallies` are the database tables, `commits`, `paid`, `allowance` what the chain
holds of this code, `lock` the account's mutex (`lockFor`), `req` the handlers
with their program point, chosen period and selected batch.  Each handler is cut
where it gives way: at the mutex, at every chain call, between the answer and the
local transaction; a local transaction is one step because the database has one
connection.  `inflight` holds the signed transactions that carry the account's
next sequence number: `Send` simulates and submits (`sdk/go` `invokeAt`), `Apply`
lets the ledger include one of them, which invalidates the others, `Drop` is the
300 s time bound.  `Fail` ends a handler at any step (a refused charge, an RPC or
database error, a poll that gives up, a client that hangs up) while its
transaction may still apply; a crash of the server is `Fail` for every request.
A code with a creator and a rate of one unit is modelled, and an event counts
one conversion, so a period owes the size of its batch.

**ReceiptBook** is what the database alone promises: orders counted once, whole
batches of the oldest open events closed under new periods, payments noted once.

**StorageRent** is the contract seen as entries that expire.  `ttl` is the life
every entry has left, `due` when keepers bump each thing of their inventory
again.  Every entry point writes and renews the entries it does in the code; its
other guards are dropped, so that more sequences of calls are covered than the
contract admits.  `bump_campaign`, `bump_codes`, `bump_delegates` and
`bump_tally` renew what the code lists for them.  The assumption is that of
SPEC.md section 8: integrations keep an inventory and bump it in time (`Gap`).

### Services of the Cloud API

**Idempotency** (`idempotency.go`) takes the middleware apart at its database
statements: reservation (`INSERT OR IGNORE`), refusal, replay, the handler, the
stored answer, the sweep of old keys; the process may stop in between.

**CloudCredits** (`meter.go`, its constants in **MeterRates**) is the monthly
grant, the charge before an operation and the refund of what it did not use,
each a database transaction, with months and stops in between.

**Webhooks** (`webhooks.go`) has endpoints (count, insert, disable), the outbox,
and passes over the due rows that only one runner at a time may make.  The loop
and the kicks after a queueing are the two runners.

**LockOrder** writes sixteen handlers as sequences of what they take, wait for
and give back: the one database connection (a statement, a transaction, an open
cursor) and the four kinds of mutex.  `deferred` is Go's `defer`, newest first;
any step that can fail unwinds it.  The scans of a campaign are two of them:
`ListScans`, whose last row closes the cursor, and `ScansPage`, which breaks off
with the cursor open and then asks for the summary.

### Browser

**BrowserClient** (`browser.ts` `writeAt`, `helpers.ts` `approveSettlement`)
builds, simulates, signs, sends once and polls a bounded number of times, over a
ledger and a node that lag, drop, expire and lose answers.

**PlaygroundStore** (`web/src/store.jsx`) is `invoke`, the updaters and the log;
React's queued updaters run at the next render or at once.  **RedeemCard**,
**CampaignCards**, **VerifyCard**, **TallyRegisterCard** and **TallySettleCard**
are the cards: their fields, effects and buttons, over as much of the contract as
a card sees.  A lookup of VerifyCard is two reads and then the browser's clock,
each a step; TallyRegisterCard knows which errors `register_shared` and
`commit_tally` have for a call (`RegisterErrors`, `CommitErrors`), for whatever
campaign and name were typed.

The console's modules each model a page together with the handlers it calls, so
that a lost answer, a second click or a change of environment meets what the API
really does: **ConsoleSession** (sign-in, organizations, sign-out: `store.jsx`,
`shell.jsx`, `Auth.jsx`, `auth.go`), **ConsoleDetail** and **ConsolePanels**
(`CampaignDetail.jsx` with archiving, chunked issuance, recording, scans and
QR; a campaign with more scans than a page jams the API, so that a next page is
never on offer), **ConsoleWizard** (`Campaigns.jsx` and the two contract calls of a
creation), **ConsoleLoyalty** (`Loyalty.jsx` and `handlePunch` with its lock, the
contract and the transaction apart), **ConsoleSecrets** (`Platform.jsx`: keys and
endpoints), **ConsoleSettlements** and **ConsoleRedemptions**.  Requests and
answers are records in `calls`; a request is served, answered or lost in steps of
its own, so that anything can happen in between.

### Instances and proofs

**MCCouponLedger**, **MCTallyLedger**, **MCCloudTally** and **MCStorageRent**
give TLC instances of one module; the last gives StorageRent's constants and
variables names of their own, so that its proofs can stand beside the tally's.
**MCContract** (the owner index and the rent), **MCConsole**, **MCPlayground** and
**MCServices** hold one instance of each of several modules that share no state:
a behaviour picks one of them at the start and the others stay idle.  The
reachable states are the sum of the parts' and not their product, and since no
part reads another's state, an invariant of a part that holds here holds in any
interleaving with the others.  Their properties are conjunctions of the parts'
named properties.  Two parts appear twice with other bounds: PlaygroundStore
with a single call at a time (`Alone`, where the counters are exact), LockOrder
with three requests and five of the sixteen handlers (`Ring`).  The bounds of
MCConsole, MCPlayground and MCServices are CONSTANTS with named assumptions, so that
the theorems about them hold for every size of every part.

**Ordering** has the numbers of a finite set in ascending order (`Ascending`: the
slots of an owner, the due deliveries of a pass) and the elements a filter keeps
(`Taken`).  **CouponLedgerProofs**, **TallyLedgerProofs**, **CloudTallyProofs**,
**ServicesProofs**, **PlaygroundProofs**, **ConsoleProofs** and
**ConsoleTruthProofs** (which extends it) hold the theorems, **SetLemmas** what they share about sums
and orders of finite sets.

Definitions marked "Mutant" restate one definition with a plausible slip;
exchanging it for the original must break a property, which shows that the
property looks at the code.  `PROJECT.json` pairs every property of a run with
one of them.

## 3. Runs

| Run | Instance | Checks | What it shows |
|---|---|---|---|
| `CouponLifecycle.cfg` | 2 accounts, 1 campaign, 3 codes and a bad one, batches up to 2 (3 reach the length check), supply up to 3, 3 timestamps | `TypeOK`, `SupplyIntegrity`, `ValidIffRedeemable`, `StatsMatchCodes`, `BurnIsFinal`, `ImplementsSingleUse` | counters, reads and the single-use promise through the whole life of a campaign |
| `CouponIsolation.cfg` | 2 accounts, 2 campaigns, 2 shared code strings, 3 timestamps | `CodeIndexExact`, `ExpiredCampaignFrozen` | campaigns that use the same codes never mix, and an expired one is frozen while the other goes on |
| `TallyPeriods.cfg` | 1 campaign, 1 code, 2 periods, counts to 2, rates 0..2, i128 cut at 3, funds to 4, 2 ledgers | `TypeOK`, `AttributionExact`, `CreatorsPaidExactly`, `LedgerAppendOnly`, `PayoutPerPeriod` | exact credit, append-only history, each period paid once out of a live allowance |
| `TallyOwners.cfg` | 2 merchants sharing a token and a creator | `PayoutPerPeriod` | a settlement takes money only from its own campaign's owner |
| `CloudAnchoring.cfg` | 2 requests, 3 events, batches of at most 2, two periods one of which a caller may name | `TypeOK`, `MirrorExact`, `AnchoredOnce`, `SettledIsPaid`, `NoStandingAuthority`, `ImplementsReceiptBook` | with every failure and keeper, the local rows say what the chain says, and no answered settlement leaves an allowance |
| `CloudProgress.cfg` | 2 requests, 1 event, 2 weeks | `RequestsEnd` | no failure leaves the account's mutex held |
| `CloudPeriods.cfg` | 2 requests, 2 events, all asking for the next period | `PeriodStillFree`, violated | see Findings |
| `Contract.cfg` | 2 owners, 4 campaigns, page sizes 1 and 2; and 1 campaign with a coupon, a delegate and 2 tally periods, whose entries begin with 1 ledger, are extended to 3 below 2, and are bumped within 2 | `OwnerIndexExact`, `PagesCoverOwner`, `NothingExpires`, `Inventoried` | paging sees each campaign once, whatever the order of creation; nothing the contract keeps is archived, whatever calls are made in between |
| `Services.cfg` | 1 key, 2 bodies, 3 requests; grants of 3 and charges of 1 or 2 over 2 months; 2 endpoints, 2 deliveries of 2 attempts, one stop; 2 requests under 16 handlers and 3 under 5 | `OncePerKey`, `AnswersMatch`, `CountsAddUp`, `NobodyWaitsForever`, `StoredStays`, `EverythingEnds` | nothing runs or counts twice; every delivery ends; no ring of waits and an end to every request, unless a page of scans stalls |
| `ScansPage.cfg` | 2 requests under 5 handlers | `NobodyStuck`, violated | see Findings |
| `Playground.cfg` | 2 calls of 2 accounts by 2 routes; 2 wallets, 3 calls of the store of which 2 overlap (4 one by one); 2 codes in the cards, 3 lookups | `PlaygroundTypeOK`, `AnswersAreTheLedgers`, `ShownWasTrue`, `CardsSendWhatTheyShow` | a success is the ledger's, what is shown has been true, a card sends what it shows once its digest is in |
| `Console.cfg` | 2 users, 2 campaigns, 2 environments; per page 1 to 3 requests of the forms and as many loads, at least two of them overlapping; pages of 2 scans and 3 scans in all; a program page that is opened and loads again after a punch | `ConsoleTypeOK`, `PagesShowOneThing`, `DoneAsConfirmed`, `EffectsHappenOnce`, `AnnouncedIsThere` | screens stay coherent, confirmed terms are the terms, one form has one effect, announcements are true and lists catch up |

Bounds.  Each configuration reaches the boundary it is about: the cap both
fills exactly and would be passed by a batch, a deadline is met and passed,
an approval expires between approval and settlement, an amount of 4 does not fit
the cut-off i128, a second period finds the allowance of the first.  Larger
numbers repeat these cases.  In the browser's runs two requests under way
at once, one of them lost or overtaken, and one change of route, wallet or
environment between request and answer are what the code can get wrong; each
page's bound admits that, and with two loads the program page hears of a punch
it made (`Recorded`), so that `ToldAreIssued` and `ToldIsShown` are about vouchers
it announced.  In LockOrder the sixteen handlers run against each
other in pairs, which shows every ring of two and every wait of a request for
itself; `Ring` adds rings of three among five of the handlers, as many as the
time of a run admits.  That no larger number waits in a ring without a page of
scans in it is proved (`NobodyWaitsSafe`).  Accounts, codes and commitments are only compared,
which is why the Burn runs may use symmetry.  Deadlock is not checked
(`CHECK_DEADLOCK FALSE`): the bounded counters let every instance come to rest,
and the contract itself has no obligation to move.

Fairness.  The contract is passive: nobody is obliged to call it, so its
specifications are pure safety (`Init /\ [][Next]_vars`) and no liveness is
claimed.  In `CloudTally`, `FairSpec` assumes that a handler that can move does
(`WF(Handle)`: goroutines are scheduled, and a poll that gets no answer ends, so
giving up is part of `Handle`; other errors are not) and that a request waiting
for the mutex gets it if it is free again and again (`SF(Acquire)`: Go's
`sync.Mutex` hands itself to a waiter that has starved).  Nothing is assumed of
the ledger, of keepers or of clients.  In `MCServices` the webhook loop ticks, a
pass goes on, a receiver answers or times out and a back-off elapses (`WF`: a
ticker, bounded sends), while the kicks, stops of the process and the users owe
nothing; and a request of LockOrder goes on if it can again and again (`SF`:
`database/sql` and `sync.Mutex` hand over in the order of waiting or to starved
waiters).  `RequestsEnd` and the end of deliveries are of an API that no page of
scans has stalled: CloudTally and Webhooks take the connection as free when it is
asked for, and `RequestsReturn` of LockOrder names the exception.  The pages and the cards are checked for safety only: what a lost
answer leaves open is closed by the user or not at all.

### Findings

`PeriodStillFree` says that the period a request commits under is free on the
chain, as `docs/CLOUD.md` promises of batch periods ("so they can be committed
immediately without colliding with the append-only period key").  TLC refutes
it: `nextCommitPeriod` reads the local rows before the request waits for the
mutex, so two requests choose one period; and a commitment whose answer or local
row was lost is chosen again, and refused, until the ISO week changes or a
caller names another period.  Nothing is anchored wrongly (`AnchoredOnce`,
`MirrorExact`); the request is refused with `PeriodCommitted`.

`NobodyStuck` says that no request waits for itself or in a ring, which is what
`handlers_loyalty.go:144` warns of ("with a single SQLite connection, issuing
queries while iterating rows deadlocks").  TLC refutes it with one request.
`handleListScans` leaves `rows.Next()` on the row after the page
(`handlers_scans.go:97`) with the rows open until it returns (`:90`), and asks for
the summary (`:143`) over the connection the rows hold (`store.go:18` allows
one).  It waits for itself, and everything that needs the database waits for it
until the process is started again: a campaign with more than `limit` scans (100
from the console) is enough.  `OnlyPagesStall` is what holds of all the other
handlers, and of this one on its last page.

That an event can be anchored twice when an answer is lost is documented
(`docs/DECISIONS.md`, ADR-017).  `AnchoredOnce` states what remains: of two
overlapping commitments, Cloud lost track of at least one.

Many properties of the pages hold under a condition they name: that loads did not
overtake each other (`astray`, `crossed`, `overtaken`, `raced`), or that a page
makes one call at a time (`MCPlayground`'s `Alone`).  The conditions are what the code
needs, and mark where it keeps less than its texts say.  Departures of this
kind, seen while modelling, which no run states as a claim:

- `browser.ts:196`: a bounded poll that ends on NOT_FOUND is reported as "failed
  on-chain" although the transaction may still apply; `helpers.ts:126` keeps the
  two apart.  A refusal on the ledger, after a simulation that passed, carries
  no `contractCode` (`browser.ts:68`).
- `web/src/store.jsx:213`, `:174`: counters of the mirror are added to when an answer arrives, and
  count twice what a verify has read meanwhile (`data.js:74`).
- `cards-b.jsx:46`: a redemption applied with its answer lost is followed by one
  with the same nonce.  `:26-39`, `:84`: until the digest of new inputs is in, the
  commitment on offer is the one before, after a receipt that of the receipt, and
  the button sends it; `HashMatchesInputs` and `ReceiptRetiresNonce` hold once no
  digest is under way.  `cards-tally.jsx:199`: payouts of one period appear
  under the tally of another after an edit.
- `store.jsx:227`, `:235`: a lookup reads the coupon, then its campaign, then the
  clock of the browser, so that a coupon burned in between is shown as expired or
  valid, and as valid when the campaign could not be read.
- `Platform.jsx:117`, `:126`: a form sent by Enter while busy, or closed under its
  request and filled in again, makes a second key, and one is told to nobody.
- `CampaignDetail.jsx:23`, `:116`: scans and QR of a campaign left in place are
  shown under the next one when they come last.
- `auth.go:465`: two quick submissions make two organizations for one user.
- `handlers_campaigns.go:459`: a batch that fails after some chunks leaves
  `campaigns.minted` behind the codes; `:186`: a failed registration leaves a
  shared campaign without its code; `:582`: a redemption applied with its answer
  lost is listed as rejected.
- `handlers_loyalty.go:461`: vouchers issued on-chain whose punch is not stored
  are issued again; `docs/CLOUD.md:213` says exactly those owed.
- `handlers_tally.go:696`: a period paid by a keeper is listed as settled for
  nothing.
- `meter.go:212`: a refund after the next month's top-up lifts the balance above
  the grant that "never stacks".
- `webhooks.go:203`: creations under way together all pass the limit of 20.
- `CampaignDetail.jsx:390`: each click draws a new idempotency key, so a retry
  issues again.  `Campaigns.jsx:154`, `:401`: supply and validity are not always
  the reviewed ones.  `Redemptions.jsx:140`: the form opened by a link holds no
  campaign; `:19`: the filter outlives its environment.

## 4. Proofs

`CouponLedgerProofs` proves, for any sets of accounts and codes and any bounds,
from `BoundsAssumption` (bounds are naturals, a batch holds at least one code)
and `CodesAssumption` (bad codes are not codes, the zero commitment is nobody's):

- `TypeCorrect`: `Spec => []TypeOK`.  One lemma per action that writes.
- `CodeIndexSafe`: `Spec => []CodeIndexExact`.  Inductive together with `TypeOK`.
  The step is `IssueEffectHolds`, which turns the function definitions of
  `issue_unique` into the facts "n coupons take the next n ids, each under its
  own new key, and everything older keeps its place".
- `SupplySafe`: `Spec => []SupplyIntegrity`.  `SupplyIntegrity` is not inductive
  alone: a new campaign's counters start at 0, which is right only because no
  coupon can already name its id, and that needs the index.  The invariant
  carried is `TypeOK`, `CodeIndexExact` and, for each campaign, `Counted`; the
  cardinality facts come from `FiniteSetTheorems`.
- `BurnFinal`: `Spec => BurnIsFinal`, and `ExpiryFrozen`: `Spec =>
  ExpiredCampaignFrozen`, action properties from `TypeOK` and the index.
- `OwnerIndexSafe`: `Spec => []OwnerIndexExact`, by `OwnerInv`: slots are dense,
  are each other's inverse and are ordered as campaigns are created.
- `StatsSafe`: `Spec => []StatsMatchCodes`.  `campaign_stats` subtracts two
  counters; `CountInv` counts the coupons behind them, and because a campaign's
  codes are distinct (`CodesDistinct`) as many codes as coupons are valid.
- `PagesSafe`: `Spec => []PagesCoverOwner`, for every page size.  The slots of an
  owner in order are the owner's campaigns in order (`CampaignsInOrder`), page i
  takes the next `limit` of them (`PageIs`), and the last page is not full
  (`LastPage`).
- `SingleUseImplemented`: `Spec => ImplementsSingleUse`.  Each entry point maps to
  its action of SingleUseCoupon or to a stutter; that the refined cap and count
  agree needs `CountInv`.

`TallyLedgerProofs` proves, from `TallyAssumption` alone (so for any rates,
counts, deadlines and numbers of accounts, tokens, codes and periods):

- `TypeCorrect`: `Spec => []TypeOK`; in particular nobody is overdrawn.
- `AttributionSafe`: `Spec => []AttributionExact`.  Not inductive alone: that a
  code without a target pays nobody was decided by `register_shared`, so the
  invariant carried is `TypeOK`, `SettlementConfigured` and `AttributionExact`.
- `LedgerKept`: `Spec => LedgerAppendOnly`.
- `PayoutSafe`: `Spec => PayoutPerPeriod`.  Its heart is `Owed`: because the
  attribution of a payable period is exact, what `settle` adds up is the count
  times the rate, owed to one address; `SettlePays` follows the transfer.
- `CreatorsPaid`: `Spec => []CreatorsPaidExactly`, the sum over all settled
  periods.  `SettlePaid` adds one summand; `PaidInv` carries that the sum is over
  a finite set of numbers.

`CloudTallyProofs` proves, from `CloudAssumption`, for any number of requests,
events and periods and any batch size, `TypeCorrect`, `MirrorSafe`,
`AnchoredSafe`, `SettledSafe`, `AuthoritySpent` and, with them, `Refines`: `Spec
=> ImplementsReceiptBook`.  What the database says of the chain is only inductive
together with what each handler under way knows: `IInv` carries that the batch
selected under the mutex stays the oldest open events (`Batched`), that a
handler past a chain call knows of that call's effect (`Learnt`), that a
transaction in flight does what its request waits for, if one does (`Awaited`), and
that from the approval on nothing else of the account is in flight and no more
is approved than the settlement takes (`Approved`).  Both exclusion by the mutex and
the single sequence number are used: the first for the database, the second for
transactions that outlive their request.  The refinement maps each action to the
action of the book it stands for, or to a stutter.

`ServicesProofs` proves, for any keys, bodies and requests, `TypeCorrect`,
`OnceSafe`, `AnswersSafe` and `RowsStay` of Idempotency.  `OncePerKey` needs that
a reservation of the present sweep still has its row (`Anchored`), that between
two sweeps of a key one request reserves it (`Alone`) and that what took effect
had reserved (`Ran`); `AnswersMatch` needs that a row holds an answer to its own
key and body (`RowsMatch`, `Filled`).  Of all the services it proves `CountsSafe`
(credits are conserved, the ledger adds up, every attempt at a delivery is counted
once or lost to a fault) and `StoredSafe` (`StoredStays`).  For Webhooks the
invariant `HInv` says that one pass at most holds the lock (`OnePass`), that the
rows a pass has read and not yet attempted are as it read them (`ReadsStand`),
which is what makes its later UPDATE safe, and that an attempt begun is counted,
lost, or waits for its record (`Counted`).

`NobodyWaitsSafe` is `NobodyWaitsForever` for any number of requests under any of
the sixteen handlers: where requests wait for one another, one of them is a page
of scans that holds the connection it asks for.  The argument is an order of the resources: a loyalty program
ranks below the other mutexes and these below the connection (`Rank`), and a
request waits only for what ranks above everything it holds (`WaitsAbove`), so
along a ring of waits the ranks would rise for ever (`NoRing`).  A page of scans
is the one exception, and holds nothing but the connection (`Paging`, `Stuck`).  That a handler
keeps to the order is shown from its text, part by part: `Runs(b, S, E)` says
that steps `b` can be run by who holds `S` and leave `E` held, which composes
along `\o` (`RunsOn`, `HandlersOrdered`).  The invariant `Fits` adds what an early
return needs: the release of all that is held is deferred, that of the
connection newest, so that a refund finds the connection free.

Of metering it proves `CreditsTypeCorrect`, `LedgerSafe`, `GrantsSafe` and
`ConservedSafe` for any grant, charges, months and requests, from
`CreditsAssumption`.  `GrantsOnce` needs `GrantsBefore`: no row of the ledger is
of a later month than the row of credits.  `Conserved` is a sum over the requests,
which `ServicesAssumption` says are finitely many.

`PlaygroundProofs` proves, from `PlaygroundAssumption`, every property of
`Playground.cfg` for any accounts, wallets, codes, references and bounds:
`TypeCorrect`, `AnswersSafe`, `ShownSafe` and `CardsSafe`.  Only one part runs
(`OneRuns`), so each part's invariant is carried over its own variables:

- The client (`ClientInv`): an envelope a call holds is of its own account and
  operation (`ClientCalls`), and the sequence number of an applied envelope is
  used up (`ClientUsed`), so that none is applied twice.
- The store (`StoreInv`): what a call has done or read, and has not yet put into
  the mirror, is in the contract (`Backed`), and stays there because the contract
  only grows in what is shown (`Grown`, `BackingLasts`); the mirror, and what React
  has rendered, are then truthful after any updater (`UpdateTrue`).  Both pages
  are steps of a store with room for the calls of either (`Wide`).
- Counters (`AloneInv`): a page that makes one call at a time leaves room for the
  one coupon that a call has issued or burned and not yet counted (`CountsRoom`).
  With two calls under way it fails (`web/src/store.jsx:213` under Findings).
- The cards: a digest in progress is stale or of the present inputs (`RedeemLive`),
  the nonce of a receipt is behind the present one (`RedeemRetired`); the result on
  the Issue card has the length of the codes that were sent; a call of the
  Register card has no token without a recipient, no rate without a token and, with
  a recipient, a full count (`RegisterAsks`), from which `FormsEnforce` shows what
  the contract cannot refuse it for; what a look-up has read of a coupon was so,
  and is "burned" if the coupon was before it began (`VerifyReads`).

`ConsoleProofs` proves, from `ConsoleAssumption`, `ShownSafe`, `ConfirmedSafe` and
`EffectsSafe`, and `ConsoleTruthProofs` then `AnnouncedSafe`: `PagesShowOneThing`, `DoneAsConfirmed`,
`EffectsHappenOnce` and `AnnouncedIsThere` for any users, campaigns, customers, codes and numbers of requests (campaigns and customers
are finitely many, the threshold and the punches of a request are any positive
numbers).  One
page is mounted (`OnePageRuns`); the invariant of each says what its requests
under way will bring:

- `SessionInv`: the organization an answer names is the user's (`OrgTold`).  While
  nothing was lost, expired or sent at the same time, the one request under way
  asks with the cookie or answers for it (`AloneTells`), so that cookie and user
  agree when none asks who is signed in (`InAgreement`).
- `ScreenInv`: a load brings its campaign from its environment (`LoadIsTrue`), and
  one of the present mount is for the route and environment of the page unless a
  load was overtaken (`LoadIsForHere`).
- `PanelsInv`: an answer with scans has all that its campaign had at one moment,
  which later scans do not change (`UpToStays`), and unless a change crossed a
  request every request of the present mount is for the campaign it has.
- `WizardInv`: what a creation asks for is what its review showed.
- `SettlementsInv`: every row that is on screen, in a dialog or in an answer has the
  count of its period (`RowTrue`), and counts of a committed period never change.
- `RedemptionsInv`: unless loads failed or overtook each other, the choice of an open
  form is among the options or is archived or of no environment (`Offers`); so a
  code the handler may admit was sent from the campaign on screen (`WasShown`).
- `EffectsInv`, of the campaign page: requests and records of writes have numbers of
  their own (`WritesNumbered`, `OnePost`), a request asks for what its record says
  (`IsRecorded`), an event that counted has claimed its reference, and an archive that
  was announced has archived (`WriteDid`); so nothing sent after it is admitted, and an
  issuance that still goes on was sent before (`EffectCall`).
- `LoyaltyInv`: one request at most is between the look-up and the transaction, and
  what it counted is still so (`LockedAs`); an old row is the only one of its customer
  and is moved before anything is counted (`MovedKeeps`); every customer has the rewards
  that all their rows earn (`RewardsAre`), which is `RewardsMatchPunches` strengthened to
  the old rows.  That the reward of a sum follows when a count is added is `OwedIs`.
- `SecretsInv`: unless something went by the page (an answer that was lost, a form
  closed under its request), every request that creates is of the form that is open
  (`OfOpenForm`); a form sent once has one such request, and only it has made what
  bears the form's number (`SentOnce`).

`AnnouncedIsThere` needs more, since a page announces what an earlier answer said and
shows what a later one brings:

- `IssuedInv`: an issuance under way has issued what it no longer has to
  (`IssueCall`), and what was told is what was issued, as no request with that number
  is left.
- `AnnouncedWhole`, `ListInv`: an answer that says a campaign was created is only sent
  once it has its code (`SaysWhole`); the list on screen, or the one under way to the
  present mount, is that of the environment unless a creation is still to be heard of,
  which loads again (`FreshIds`).
- `PaidInv`: the vouchers a customer was told of, and those in answers under way, are
  together no more than the customer's rewards (`Promised`), which the contract has.
  Either half alone is not inductive: to hear an answer moves its vouchers from one
  to the other.
- `BalancesInv`: a program page shows the balance it announced, or a load that brings
  it is under way: the answer that announces also starts one (`WillShow`).
- `SecretsKnown`, `SecretsCaught`, `SettlementsCaught`, `RedemptionsCaught`: what an
  answer says was ended, settled or redeemed is so when it is sent and stays so; a
  list shows it, or a load or timer that will is under way.

`TallyLedgerProofs` also proves `RentTypeCorrect`, `AllInventoried` and `RentSafe`
of StorageRent as MCStorageRent instantiates it (`Rent`), for any campaigns, codes,
delegates and periods, from `KeptAssumption` (keepers come round within LEDGER_BUMP
ledgers, and an extension reaches at least as far).
`NothingExpires` is a consequence of `Inventoried`: every entry present belongs
to a thing that is bumped before the entry ends.  The hard case is an entry that
a call uses and does not renew, as `redeem_unique` leaves the code index; for the
tally, `SharedKnown` is carried: a period's shared code is in the inventory.

Sums, orders and filters are recursive at heart, and induction over data is not
available as a rule.  `SetLemmas` goes round it: a claim about all subsets of a
finite set fails, if it does, at a smallest one (`SmallestBad`, from the
well-foundedness of strict inclusion); a fold is described as the only function
that satisfies its recursion, shown to exist and to be unique (`SumsExist`,
`SumsUnique`); the place of a number is how many are below it (`RankGrows`,
`AscendingIs`).  So `SumAdd`, `SumChange` and `TakenIs` hold for every finite set.

Only model-checked: `ConsoleTypeOK` of the console.  Out of the prover's reach: `ValidIffRedeemable` (it uses ENABLED),
and liveness (`RequestsEnd`, `EverythingEnds`).

## 5. Plan

Done: the contract's two profiles with reads and rent, `CloudTally` over
`ReceiptBook`, idempotency, credits, webhooks, the order of locks, the browser
client, the playground and the console, and the proofs above.

Open, in the order of their worth: the re-send of one envelope by the Go client and its at-most-once argument; the
limits on sign-in attempts.

## 6. Not modelled

- Generated and drawn code: `sdk/ts/src/contract.ts` (bindings), styles, the
  playground's hero, frame and tweaks panel, the console's Overview, Usage and
  Settings pages and the filters of its lists, which only draw what was read.
- Pure conversions: the Go value codec, Merkle leaves and proofs
  (`cloud/api/merkle.go`), token signatures; a model would compare a function
  with itself.  A root is the set of the events it covers, a digest the pair
  it hashes.
- The re-entry of a payout token into `settle`: the paid mark is written before
  the first call to the token, and the host refuses a call back into a contract
  that is running.
- The limits on sign-in attempts, roles, custodial account funding and sealing,
  schema migrations, the audit's paged read, the scanner (a stateless proxy).
- Cryptography, host fees and resource limits.  Restoring an archived entry,
  which StorageRent shows is never needed while keepers do their part.
- Tests, the donor code, build scripts and recorded deployments.
