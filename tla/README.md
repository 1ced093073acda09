# core-service: a TLA+ verification project

core-service is the trading back office of the Hushine platform: one Go process
with an account service (users, accounts, venues, strategies, sessions, wallets,
notifications, reconciliation) and an order service (attempts, executions,
recovery) over two TimescaleDB databases, the Binance API, Kafka and Telegram.
This directory models the parts of it that carry its own logic, checks them with
TLC and proves the central results with TLAPS.

| module | models | runs | proofs |
|---|---|---|---|
| `OrderAttempts` | `PlaceOrder`, `ResolveOrderAttempt`, executor outcomes, order tables | `attempts_safe` | `OrderProofs` |
| `OrderLedger` | what the order system promises, with no actors at all | (refined by `OrderRecovery`) | `OrderProofs` |
| `OrderRecovery` | `OrderAttempts` composed with recovery scanner and user-data ingestor | `recovery`, `fill_dup`, `unknown_unscanned`, `overdue_unread` | `OrderProofs` |
| `OrderRules` | contract, risk gate, adapter registry, simulated and live execution, reading of answers | `rules_safe` | `OrderRulesProofs` |
| `Streams` | user-data stream manager, listeners, filing of reports | `streams_safe` | `StreamsProofs` |
| `VenueSessions` | accounts, venues, venue wallets' rows, strategy sessions | `venues_safe` | `VenueSessionsProofs` |
| `Wallets` | wallet pushes, account state, snapshots, exchange reads, reconciliation | `wallets_safe` | `WalletsProofs` |
| `Strategies` | users, strategies, mounts, preflight | `strategies_safe` | `StrategiesProofs` |
| `Notifications` | Kafka delivery, Telegram binding, preferences, rate limit | `notify_safe` | `NotificationsProofs` |
| `SymbolCatalog` | the cached symbol lists | (part of `Listings`) | `ListingsProofs` |
| `Listings` | paged lists, lifecycle event cursor, symbols | `listings_safe` | `ListingsProofs` |

`MC*.tla` give the constants their values for TLC. `PROJECT.json` lists the
components, runs, mutants, the source lines of every definition, findings,
hazards and theorems. A definition whose comment begins with "Slip" or "A
faulty" is a plausible mistake in the definition after it; with it, the property
that `PROJECT.json` names beside it fails.

## 1. Inventory

### Order service (`internal/order`, `internal/exchange`)

**State.** `order_intents`, `order_attempts`, `orders` (at most one row per
attempt), `order_fills`, `order_lifecycle_events`; at the exchange, the order
under the attempt's client order id; in memory, the locals of handlers, of the
scanner and of stream listeners, and the registry of streams.

**Operations.** `PlaceOrder` normalises the contract, stores intent and attempt,
asks the risk gate (capabilities, symbol rules, balance, reduce_only, pending
route), sends the order through the adapter of the venue's route, stores the
outcome in one transaction, then writes lifecycle events and publishes a
notification. `ResolveOrderAttempt` answers settled attempts from the database
and otherwise marks the attempt RECOVERING, reads order and trades by client
order id and stores what it hears. The recovery scanner walks the open `orders`
rows every tick, writes missing fills, closes finished orders and force-closes
those past their deadline. The stream manager keeps one websocket per venue with
open orders; the ingestor files what it delivers.

**What is hard.** Four kinds of actor write the same rows without a common lock,
each from answers of the exchange that are several steps old. A request can time
out and still land. A transaction can commit although the call fails. The
process can die between any two statements. Trades are listed late, answers are
garbled. Venues are rebound under running streams. Three layers judge the same
order contract.

**What makes it correct.** Nothing reaches the exchange unrecorded; nothing is
sent twice; no trade is booked that did not happen; a settled attempt has its
row and fills; an attempt called failed has no order; recovery lets go of an
order only when it is over, and does so in the end; a report is filed under its
order; reduce_only orders reduce; incomplete fills do not pass for an execution.

### Account service (`internal/service`, `internal/repository`, `internal/reconciliation`)

**State.** Users; accounts with an environment; venues (an exchange login for
one market) with status, account and environment; `strategy_sessions` and the
venues captured for each; strategies and `account_strategies`;
`venue_wallet_states`, the state columns of `accounts`, `account_snapshots`,
`reconciliation_runs`.

**Operations.** Create account (gRPC and HTTP), create, bind, release, archive
venue; save, update and end a session, mark a runtime's sessions recoverable;
create, archive, mount, unmount, activate a strategy; preflight a session; push
a wallet, refresh a portfolio, archive a snapshot, compare with the exchange;
page through every table.

**What is hard.** Every RPC is a goroutine; rules such as "no venue change under
an active session" are a count in one statement and a write in another, and only
some are backed by a row lock or a unique index. A wallet push is some ten
statements and requests without a transaction. COUNT and page are separate
statements.

**What makes it correct.** A route of an account leads to one venue of the
account's environment; an account has one active session and one active
strategy; a session that is over stays over; what a strategy pushed can be read
back; what is stored for an exchange account came from the exchange; a walk
through a list misses nothing that stayed.

### Notifications (`internal/notification`) and catalog (`internal/catalog`)

**State.** `notification_settings`, `notification_channels`; the rate limiter's
map, the poller's offset and the consumer's position in memory; offsets in
Kafka; unread updates at Telegram. One symbol list per market with its age.

**Operations.** Preferences, bind codes, unbind, test message; the poller that
binds a chat by its code; the consumer that delivers events; `ListSymbols`.

**What is hard.** Delivery has an external effect and a commit of its own; a
binding is a lookup and a write; memory dies with the process; many readers find
one list expired.

**What makes it correct.** Messages go only to a chat that proved the user's
code; codes are neither lost nor used twice; a restart does not replay a burst;
the exchange is asked once per expiry and an old list is flagged.

### Interactions

The order service reads accounts and venues through `accountmeta`, and the risk
gate reads the wallets the account service stores. Handlers, scanner and
ingestor share the order tables; scanner, ingestor and stream manager share the
list of open orders. Order and strategy events go to the Kafka topic the
notification consumer reads, keyed by user. Notification RPCs share their tables
with the poller and the consumer.

## 2. Modules and code

### OrderAttempts

A handler (`hs[h]`) is one RPC: a program counter, its attempt, the result of
the executor and whether its context is cancelled. Each database statement or
transaction, each exchange call and each reply is one action. A failing call may
fail without effect or take effect with its answer lost; a cancelled context fails
all later calls of its handler; `Crash` clears all handlers. Together these are
bounded by `MaxFaults`.

The exchange is external: an undecided request is `inflight`; it is then
accepted, refused or lost; accepted orders trade in unit trades and may be
cancelled. Three ways the environment can misbehave are switched on by
`Hazards`, so that a run says exactly which of them it needs or excludes:
`late_landing` (a resolve is told "not found" while the request is still
undecided), `overlapping_resolve` (a client resolves by intent id while
`PlaceOrder` still runs) and `error_after_accept` (an error reply for an order
that stands). `Unreadable` are the attempts whose order no reader ever answers for: those
of a backtest route, whose reader is `simulatedOrderStateReader`, those the exchange
has purged, and those of a venue without credentials.

Abstractions: the orders row stands for the order id, because `attempt_id` is
UNIQUE; `exchange_order_id` is left out, since a resolve asks by client order id;
FEE_MISSING is left out, since no production executor reports a missing fee; the
rules of the gate are a free rejection (they are `OrderRules`); events of a
placement do not backfill fills (their place-order source is excluded by
`shouldBackfillOrderFill`); fills are counted to 2, enough to tell a duplicate. A
Kafka message lost on the way only removes notes, so it needs no step.

### OrderLedger and OrderRecovery

`OrderLedger` is what somebody who knows nothing of handlers may expect: orders
are recorded before they are submitted and submitted once, books follow the
market and never run ahead of it, nothing booked is lost, books are closed only
when trading is over.

`OrderRecovery` extends `OrderAttempts` by `scan` (the scanner's locals), `ws`
(the message the ingestor works on) and `terms` (terminal events). The websocket
may deliver anything that has happened, at any time, any number of times or
never. The orders belong to one venue, so that a back-off ends the scan. A read
of an `Unreadable` order fails every time, at no cost in faults: `listOpenOrders` lists
such an order like any other. `SaveFillEvent` takes
the UPDATE and the INSERT that backfill a fill for one step. Where
an event row and another row are written by two statements of one call, the
outcome `event_only` is the failure between them. It implements `OrderLedger`
under this mapping: recorded attempts are those with a row in `order_attempts`;
the market is the exchange's state, with a lost request counted as refused; the
books of an order are open while the scanner lists its row; a trade is booked
when a fill or an event of it is stored.

### OrderRules

One venue serves one call at a time; requests, wallets, routes and answers vary.
The call goes through the service's contract (`normalizeOrderContract`), the
adapter registry, the gate, the executor's contract, then is executed by the
simulator or sent. The answer may carry late, short, excessive or unreadable
fills; futures trades are looked up a bounded number of times; what is left open
is recovered by a state read and a trade read, between which the order goes on.
`SaveWallet` lets the stored wallet lag behind the venue. Quantities and prices
are integers, so the float tolerances are left out; a number a venue sends as
text is that number or `Unreadable`; a credential opens, is sealed with another
key, or lacks a part.

### Streams

`SyncOnce` takes one order per step; a listener dials, reads, and hands a report
to `Ingest`. A stream is registered under the venue an order was sent through and
opened with the login bound to the route now. A message nobody is connected for
is lost. Exchange order ids are unique per venue only.

### VenueSessions

READ COMMITTED: a statement reads what is committed when it runs, `FOR UPDATE`
locks last to the commit and a transaction's writes appear at its commit. A
session row that is inserted and not committed makes rivals wait, as the unique
index does. Counts that the service makes before a transaction which counts
again can only refuse, so they are no steps; `CreateVenue`'s count, which nothing
repeats, is one. `Abort` is any failure, cancellation or crash with its rollback.
`live` also stands for demo, `disabled` for revoked, `ended` for the session
statuses that play no role here. `venue_events` is left out: nothing reads it.

### Wallets

One account; a call is a sequence of steps, one per statement or request
(`ListBacktestWrites` ... `SaveSnapshot`), so calls, venue changes, moves at the
exchange and failures interleave. The conversions between protobuf, domain and
stored wallets are operators that keep their defaults: a zero is taken for a
missing figure and filled from another one. A comparison is a task that runs any
time later. It takes step and tick sizes from the exchange's risk metadata and, where
that is missing, from the metadata the request carried (`indexRiskMetadata`). Amounts are
integers; fields the exchange reports twice are one; the
USD totals that are only displayed are left out.

### Strategies

Users, strategies, mounts and the preflight. An `UPDATE` fixes the rows it saw,
waits for their locks and changes those that still exist; the partial unique
index on active mounts refuses a second one. Venues and sessions change around
the preflight (`Elsewhere`; their own rules are `VenueSessions`).

### Notifications

A delivery (`ds[d]`) is one claim of the consumer or one test message, with
separate steps for settings, channel, limiter, Telegram call, status and commit.
Telegram keeps an update until a call asks for a later one. `Restart` clears
limiter, poller and deliveries, and claims start again at the committed offset,
or at the end if there is none. Plans are constants, bind codes are never drawn
twice, a missing row reads like the default row. A user's events are in one
partition because publishers key them by user; that is also why reading the
limiter's clock outside its mutex makes no difference.

### SymbolCatalog and Listings

`Listings` holds each list with what its SQL says of order, ties, COUNT and
has_more; a behaviour is about one list, walked once while rows arrive and
leave. The client is external: it follows `next_offset` while `has_more`, or
`offset` up to `total`. Lifecycle events get an id from a sequence before their
row commits and are upserted by identity. The catalog is a cache per market with
a refresh mutex; a fetch lasts at most `Timeout`.

## 3. Runs

| run | shows | states |
|---|---|---|
| `attempts_safe` | the order of writes and sends, and the ledger, with all hazards and two faults | 454 k |
| `recovery` | all writers together implement `OrderLedger`; what closing an order guarantees; failed attempts have no order; orders that can be read leave the list once finished and are force closed once overdue | 158 k |
| `rules_safe` | layers agree, reduce_only reduces, fills explain executions | 668 k |
| `streams_safe` | one stream per key, reports filed under their order, listeners come back | 184 k |
| `venues_safe` | routes, sessions, captured venues under two concurrent RPCs | 1.8 M |
| `wallets_safe` | what is pushed, stored, archived and compared by overlapping calls | 825 k |
| `strategies_safe` | one active strategy, honest preflights | 1.2 M |
| `notify_safe` | binding, replay and rate limit with one fault or restart | 1.8 M |
| `listings_safe` | complete walks, events once, fresh symbols, one fetch per expiry | 1.6 M |
| `fill_dup` | finding: a trade booked twice | |
| `unknown_unscanned` | finding: an UNKNOWN attempt nothing looks at | |
| `overdue_unread` | finding: an unreadable order outlives its deadline | |

**Bounds.**

- *Orders.* Two handlers let every pair of RPCs overlap; `Qty = 2` is the least
  with a partial fill; two faults allow one in a placement and one in its
  recovery. One attempt, since handlers meet through an attempt; with two
  attempts of one intent and one route, where the pending-route check bites,
  `attempts_safe` was explored once with two trades and no fault (6.7 M states)
  and with one trade and one fault (7.7 M), without error, and the theorems hold
  for any number. `recovery` has one handler beside scanner and ingestor, one fault and
  no hazard; the refinement and what closing guarantees were also explored with two faults and all hazards
  (531 k states), and with two handlers (2.7 M), without error, and are proved for all.
- *Rules.* Quantities -1..2 with steps and minima of 1 and 2, wallets from short
  to long, with locked quantity, without leverage and with funds of their own:
  every comparison of the gate has both outcomes. Three lookups.
- *Streams.* Two orders of one live route that two logins serve, with the same
  exchange id, one backtest order, one rebind and one fault; a batch holds all.
- *Venues.* Two accounts, venues, sessions and routes let venues move, sessions
  compete and captures mix routes; six requests create both accounts and venues
  and run a bind against a save.
- *Wallets.* Two overlapping calls, one change or fault, a spot and a perpetual
  venue; a wallet that agrees with the exchange, without metadata, and one that it
  never had, with a wider step than the exchange's.
- *Strategies.* Six calls of two callers: two strategies created and mounted,
  and two activations that overlap.
- *Notifications.* Four inputs: code, code sent, second chat or second code, and
  an event; or two events after a bind. A burst of one makes the limiter bite on
  the second event. With one user's plan leaving a category out (3.4 M states),
  and with one user and five inputs (2.0 M), it was also explored once, without error.
- *Listings.* Four rows, one another user's, two sort times, pages of at most
  two; four saves of two writers; three symbols of two markets over four ticks
  with a TTL and a timeout of one.

**Deadlock** checking is off in all runs: once the bounded inputs are used up,
every handler idle and every order closed, the system rightly stops.

**Fairness.**

- *Handlers* (WF): every call has a timeout, so a handler that runs takes its
  next step. *Exchange decides* (WF): a request does not stay undecided for ever.
  Both in `unknown_unscanned` only; the liveness of the scanner does not need them.
- *Scanner*, *SyncOnce* (WF): they run on tickers; *listeners* (WF): goroutines
  with read deadlines.
- *ScanReadsOrder*, *ScanReadsTrades*, *ForceReadsTrades*, *ForceCancel* (SF):
  REST calls about a readable order, repeated on every tick, succeed at some time,
  and the exchange does not withhold a trade for ever; without this no recovery
  could end.

The websocket, rebinding and new requests get no fairness; in particular no client
is assumed to call `ResolveOrderAttempt`, which no code of the service schedules.
The SF of the scanner's reads gives an answer only where one is possible: the reads of an
`Unreadable` order are never enabled, and `DeadOrderCloses` and `OverdueCloses` are
about the others. `unknown_unscanned` adds the fairness of handlers and exchange, so
its counterexample is not a service that merely stopped.

## 4. Proofs

The theorems hold for any number of handlers, attempts, trades, accounts, venues,
sessions, users, rows, symbols, faults and requests. They rest on the named
assumptions of the modules that declare the constants (`ConstantsAssumption`,
`VenueConstants`, `NotificationConstants`, `ListingsAssumption` and so on), which fix the types of
the constants and say that `None` is not a value of the set it stands beside;
TLC evaluates them in every run. `WalletAssumption` also says of the exchange that its
margin balance is wallet plus unrealized profit, which is how the code itself
computes it in multi-assets mode, and that it lists a position once. Two theorems have a hypothesis: `FailedNeverLive`
is promised, checked and proved for an empty `Hazards` only, so it says nothing of
requests that land late or of replies taken for a refusal. `OrderProofs` holds for any
`Unreadable`.

None of the properties is inductive by itself. Each proof module states what has
to be added, proves that all of it together holds initially and is preserved by
every action, and reads the properties off. Every inductive invariant was put to
TLC on the bounds of the module's run before it was proved. `FailInv` with `RInv`
was stopped after 8.8 million states without an error; the others ran to the end.

**OrderProofs: handlers alone.** `Inductive` proves `IInv`, in three layers, each
preserved given the ones before it:

- *TypeOK.*
- *ControlInv*: where handlers are, given what is stored and sent. An attempt id
  belongs to the one `PlaceOrder` that drew it (`OnlyIssued`, `SoleSender`); before its send
  nothing is at the exchange (`NotYetSent`) and at its send the attempt is
  stored (`StoredFirst`), whence `WriteAhead`; a rejected attempt or intent has
  no handler about to send (`RejectedStops`, `RejectedIntentStops`), whence `RejectedNeverSent`.
- *LedgerInv*: a result a handler holds is backed by the exchange, which only
  ever adds trades (`ResultBacked`), so rows written from however old a result
  are backed too (`LedgerBacked`); a handler in its tail has committed
  (`EmitAfterCommit`, `EmitHasResult`), whence `NoticeAfterCommit`; finalizing writes row, fills
  and status together, whence `SettledIsComplete`.

`NeverResent`, an action property, follows from `IInv`: only a handler at `send`
sends, and then nothing was sent before.

**OrderProofs: with scanner and ingestor.** `RecoveryInductive` proves `RInv` for
the composed specification. The layers above come back without
`SettledIsComplete`: the scanner closes an order cancelled after a partial fill
without its trades. Added are *RTypeOK*; *ScanInv*, that what a scan has read is
a possible past of the exchange and what it has written is still in the tables
when it closes the row (`Onward` lists what no step of anybody undoes, and is what
every action of every actor is shown to respect); and *MessageInv*, that the
message at hand is about trades that happened. From it follow
`ClosedFilledIsComplete`, `CloseIsAnnounced` and the refinement:
`ImplementsLedgerHolds` maps every step to a step of `OrderLedger` or to a
stutter. The refinement needs the invariant because a step of the ledger books
only trades the exchange made, and the code books what an old answer said.

**OrderProofs: FailedNeverLive.** `FailInv` says that an attempt that is FAILED
in the tables, announced as failed or in the hands of a handler about to say so
has nothing at the exchange and no handler that could still send it, and that
one handler at most is on its way to send an attempt. With a hazard it does not
hold: a request that timed out may land after the books gave it up, and a reply
other than 200 is taken for a refusal whatever the exchange did. The theorem is
proved for handlers alone and again for the composed specification.

**OrderRulesProofs.** `RulesInv` follows one call through the layers: what the
service's contract has let through (`AcceptedInv`), what the gate has let through
and on which position (`JudgedInv`), what the venue was sent and may still
execute (`SentInv`), and what the first read of a recovery is worth at the second
(`ReadInv`). `ContractsAgree` is then an implication between contracts;
`ReduceOnlyShrinks` compares the gate's position with the executed quantity;
`FillsExplainExecution` also needs lemmas about the fold that adds fills up.

**VenueSessionsProofs.** `VInductive` proves `VInv`: types; `VenueInv` (a
handler's copy of a venue may be out of date in status and account, never in
environment and route, `CopyOK`); `SessionInv` (an uncommitted session row keeps
its rivals waiting, so a commit cannot make a second active session,
`PendingOK` and no `Rivals`); `CaptureInv` (what an uncommitted save has listed
is sound, `CaptureOK`, and a session that does not exist has captured nothing).
`SessionIsFinal` and `WalletSameEnvironment` follow.

**StreamsProofs.** An order goes out through a venue of its own route, and its
exchange id is its own at that venue (`SentProperly`); a listener files under the
venue whose login it uses and holds only reports of orders sent through it
(`ListensAsFiled`), however its route was rebound since. With `RegistryExact`, which is
inductive beside the types, this gives `FiledUnderItsOrder`.

**StrategiesProofs.** Per call, what it has found out so far: the strategy it is
about to mount is the account owner's (`OwnMounting`), rows it has locked stay until
it commits (`HoldsRows`), and a preflight without an issue has seen what it would
need, unless the account was disturbed (`Surveyed`, `CanStart`). The locks are why
two activations cannot both leave an active strategy.

**NotificationsProofs.** `BindInv`: a code in a row, and the code the poller is
about to bind with, is that row's user's and unused, whatever happened to the row
since the poller looked. `BatchInv`: updates below the one at hand are handled.
`ReplayInv`: the consumer is at most the failed commits ahead of the committed
offset, and what went out at most one further. `RateInv`: the limiter's list is the
end of what it ever admitted, what it forgot is out of the window, and any
`Limit + 1` admissions in a row are a window apart; counting the admissions
of a window is a lemma about cardinalities of intervals.

**ListingsProofs.** `CatalogInv`: the call that fetches holds its market's mutex and
found the list missing or too old, and lists carry the time they were true at.
`FeedInv`: an event id is drawn once, rows have distinct identities, and what the
client got lies behind its cursor. `WalkInv`: a row a page-by-page client is owed
has come or is still ahead of the offset (`Rank` counts the rows before it in the
list's order): a row that arrives can only push it back, never before the offset.

**WalletsProofs.** `IInv`: the state a call is about to archive is its own write
or a later one (`Archives`); on an account of an exchange no call takes the steps of a
backtest, and every futures balance it holds, will store or has matched is one
the exchange reported (`Reads`). Four invariants rest on it:

- *CarryInv, TasksInv*: what a push on an exchange carries to its comparison, and
  what a launched comparison carries, are the request's wallets, one per venue,
  and at most one answer, put together from the accounts the push has read; if it
  read one account throughout, the answer has that account's figures.
  What is left of `VerdictSound` is about `CompareVenues` alone, for any wallets and any
  metadata on either side: the tolerance a hard pass vouches for is the step size of the
  exchange's metadata, or the strategy's own when the exchange's could not be read
  (`Allowed`).
- *AloneInv*: while a push on a backtest account is alone, all others are idle and
  the venue of its one wallet holds what the push wrote. `PushReadBack` follows from
  lemmas about the conversions: the defaults leave a wallet whose figures are there
  as it is, on the way in and on the way out (`ReadBack`).
- *TypedInv*: on a backtest account, what is stored or about to be are integers.
- *TrackInv*: a portfolio read that is alone has added up the first `k` venues
  of the list and has the others still to read (`ReadUpTo`, `Remaining`), whence
  `AccountTracksVenues`.

The last two need sums and folds of lists of any length. The library's induction
theorems take a predicate, which the provers cannot instantiate; `SetInduction`
states induction for a *set* of numbers, from the well-foundedness of `<`, and on
it rest that a sum exists (`SumExists`), that every order of adding gives it
(`SumIsUnique`), and that `SumFunction` and `FoldLeft`, which are defined by
CHOOSE, are such functions (`SumFunctionIsSum`, `AggregateType`).

Proving showed that `VerdictSound`, as it had been checked, holds within the
bounds of the run only: an exchange that moves away and back between two reads
was taken for one that stayed, and a request taken for two venues fails at the
one the exchange did not answer for. The property now speaks of every read (`reads`)
and of requests for one venue.

**Only model-checked**

- Liveness (`DeadOrderCloses`, `OverdueCloses`, `StreamReturns`): outside what
  the prover handles.
- `NoDuplicateFills`, `UnknownIsRecovered` and `DeadlineEndsRecovery`, which the code
  violates (findings 1 to 3).

## 5. Findings

Each is a run that must fail; `PROJECT.json` quotes the line it contradicts.

1. `fill_dup`: finalizing an attempt inserts fills without looking at the trade id.
2. `unknown_unscanned`: the design document lists UNKNOWN among the objects of the REST
   recovery; the scanner lists `orders` rows, and an UNKNOWN attempt has none. Only a
   client that calls `ResolveOrderAttempt` brings its order back.
3. `overdue_unread`: the same document ends every recovery after 14 days;
   `forceClose` needs a successful read, so an order no reader answers for is retried
   on every scan for ever. `listOpenOrders` has no filter on the environment, so resting
   backtest orders are among them, and fifty of them fill every batch of the scanner.

Weaknesses of the code that the models contain and the properties are stated
around, so that what is checked is what holds:

- A backtest route accepts LIMIT with IOC or FOK in the capability review and in the
  executor's contract and matches it as GTC (`exchange/binance/order_executor.go:117`):
  one that the mark price does not reach rests as NEW. The design document (:83)
  asks for a refusal in place of a silent downgrade; the step is in `OrderRules`.
- Two `PlaceOrder`s on one route both pass the pending-route check (`risk/pending.go:132`).
- A non-200 reply counts as a refusal, also one whose execution status is
  unknown (`executor/binance.go:121`): `FailedNeverLive` is checked without it.
- An order cancelled after a partial fill is closed without its trades being
  read (`lifecycle/scanner.go:348`): `ClosedFilledIsComplete` speaks of FILLED.
- A status outside `isTerminalOrderState`'s list, such as EXPIRED_IN_MATCH with a quantity
  left, never closes an order (`lifecycle/scanner.go:235`), by deadline neither, since
  the cancel of such an order is refused. The order tables cannot hold the status
  and it is not in the models; `isTerminal` names the list.
- `ReleaseVenue` counts sessions without a lock that `SaveSession` takes (`repository/timescale.go:567`).
- `MarkRuntimeSessionsRecoverable` misses a session its runtime is just saving
  (`repository/timescale.go:1426`); a late wallet upsert recreates the row of a
  venue that has left (`:887`).
- A stored attempt can be overwritten by RECOVERING, and on a query error by
  RECOVERY_FAILED, by a resolve that read it before another settled it
  (`order/service/grpc.go:665`); every finalize renews the recovery deadline
  (`:992`), and `OverdueCloses` counts that as progress.
- The layers of the order contract differ in `good_till_date`
  (`exchange/binance/order_executor.go:193`): `ContractsAgree` excepts it.
- If recovery's state read finds nothing executed and the order trades before its
  trade read, fills are returned beside an executed quantity of zero; the row
  stays open, and the next look corrects it.
- A zero balance in a pushed wallet is taken for a missing figure
  (`ensureBacktestVenueOnlineInfoDefaults`): `PushReadBack` and `VerdictSound` except it. `VerdictSound` also
  excepts a request taken for two venues, one of which the exchange does not answer
  for, and speaks of an exchange that showed one account at every read.
  Reconciliation never compares spot wallets. Without the exchange's metadata the
  strategy's own step size judges its positions (`reconciliation/diff.go:396`).
- Lists without a unique column in their ORDER BY (fills, orders, attempts,
  accounts, venues, sessions, snapshots) may place rows of one time differently
  on each page; lists that end at their COUNT lose a row that arrives between
  COUNT and page: `WalkComplete` excepts both.
- An event id is drawn before its row commits (`order/repository/timescale.go:1272`
  reads past the highest id seen), so a slower writer's event can be skipped:
  `FeedAtMostOnce` promises no more than its name.
- A bind that found its code overwrites a code created or an unbind made in
  between; a preference update without the master switch writes back the switch
  it read (`service/grpc.go:447`); a group without a committed offset starts at the
  newest event (`notification/consumer.go:25`).
- The unmount check and the delete are two statements (`service/grpc.go:2778`), and
  so are the archived check and the mount (`:2754`).
- `CreateAccount` can fail after the account is stored and before its default
  venue is (`service/grpc.go:662`); `POST /accounts` never makes one.
- After a failed symbol fetch every waiting caller fetches in turn.

Not in the models: the crash between the finalize commit and
`emitLifecycleEvents` loses events no line promises (the step is there, no
property speaks of it); batches of the scanner (`lifecycle/scanner.go:340`) and of
the stream manager, where orders that cannot be closed starve those behind them (an
order whose reads fail stays the oldest, and its back-off skips the later orders of
its venue in every scan); an account with two venues whose wallets are pushed
together, futures and spot or futures twice, where the merge keeps of some figures the
last wallet's only (`service/grpc.go:2249`; `Wallets` has the merge, `PushReadBack`
speaks of a push to one venue); exchange order ids that are unique per symbol only
(`ResolveOpenOrderByExchangeRef`, `order/repository/timescale.go:828`, does not look at the
symbol); a bind code drawn twice (some 30 bits, `notification/service.go:286`), on whose
absence `TargetProved` rests.

## 6. Not modelled

Over 14,000 of the 36,000 lines of Go are generated protobuf code. Beside it:
configuration, logging and process start (read once; a crash at any point is in
the models); the database tools; the mock Binance server, a test double; the
legacy mock executor, `CancelOpenOrders` and the metadata cache, which no
production code builds or calls; AES-GCM; request signing and layout; display
totals; the wording of messages; validation of single request fields that leads
to an error before anything is read or written. `PROJECT.json` gives the reason
per component.

## 7. Plan

Done: the order core with its recovery, ledger refinement, rules and streams;
venues, sessions, wallets, strategies, lists, notifications, catalog; proofs of
every safety and action property of the passing runs.

Next:

- A scheduling module for batches and venues of the scanner (starvation).
- `ReleaseVenue` against `SaveSession`, if the code gets the lock it lacks.
