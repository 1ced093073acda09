------------------------------- MODULE Wallets -------------------------------
(* The wallets of one account: the current wallet of each venue (table         *)
(* venue_wallet_states), the state of the account built from them (columns of  *)
(* accounts), the archive of that state (account_snapshots), and the detached  *)
(* comparison of what a strategy computed with what the exchange reports       *)
(* (reconciliation_runs).                                                      *)
(*                                                                             *)
(* A push of a strategy reads and writes these tables in some ten separate     *)
(* statements and requests, without a transaction; every one of them is a step *)
(* of its own here, so that calls on the account interleave.                   *)
(*                                                                             *)
(* An amount is a small integer. A venue is named by its market, of which an   *)
(* account binds one venue each. A futures wallet holds positions of one       *)
(* symbol; fields the exchange reports twice (margin and total margin balance, *)
(* unrealized and total unrealized profit) are one field.                      *)
EXTENDS Integers, Sequences, FiniteSets, SequencesExt

CONSTANTS
  Callers,       \* concurrent gRPC calls
  Venues,        \* the markets the account may have a venue for
  FutPayloads,   \* futures wallets a request may carry
  SpotPayloads,  \* spot wallets a request may carry
  Truths,        \* accounts at the exchange: futures and spot wallet, and margin mode
  Reasons,       \* snapshot reasons: "none", "event" (an event to compare at) or another
  StepTolerance, \* step size at the exchange times the configured multiple
  PriceTolerance,\* tick size at the exchange times the configured multiple
  SoftTolerance, \* tolerance of the soft fields
  MaxCalls,      \* bound on the calls of a behaviour
  MaxEvents,     \* bound on changes of the venues and at the exchange, and faults:
                 \* failed statements, failed requests and crashes
  None

Markets == <<"spot", "perp", "delivery">>

\* The elements of a list at the given places, in their order.
Select(list, places) ==
  [k \in 1..Cardinality(places) |->
     list[CHOOSE i \in places : Cardinality({j \in places : j <= i}) = k]]

\* Step and tick size of the symbol, times the configured multiples.
RiskMetadata == [step : Nat, tick : Nat]

\* held stands for the margins held for positions and orders, risk for the figures of a
\* position that come from its margins; meta is None in a wallet without metadata.
FuturesWallets ==
  [wallet : Int, available : Int, margin : Int, pnl : Int, held : Int, initial : Int,
   meta : RiskMetadata \cup {None},
   positions : Seq([qty : Int, entry : Int, risk : Int, initial : Int])]
SpotWallets ==
  [free : Int, locked : Int, assets : Seq([qty : Int, price : Int, average : Int])]
OnlineInfos ==
  [total : Int, wallet : Int, available : Int, futures : FuturesWallets, spot : SpotWallets]

\* The exchange lists a position once, and what it calls the margin balance is the sum
\* that the code computes itself in multi-assets mode (mergeFuturesBalanceSummary).
ASSUME WalletAssumption ==
  /\ Venues \subseteq Range(Markets)
  /\ StepTolerance \in Nat /\ PriceTolerance \in Nat /\ SoftTolerance \in Nat
  /\ MaxCalls \in Nat /\ MaxEvents \in Nat
  /\ FutPayloads \subseteq FuturesWallets /\ SpotPayloads \subseteq SpotWallets
  /\ None \notin FuturesWallets \cup SpotWallets \cup OnlineInfos \cup RiskMetadata
  /\ \A t \in Truths : /\ t.futures \in FuturesWallets /\ t.futures.meta = None
                       /\ t.futures.margin = t.futures.wallet + t.futures.pnl
                       /\ Len(t.futures.positions) <= 1

VARIABLES
  env,    \* "backtest" or "exchange" (demo and live)
  bound,  \* the markets whose venue is bound and active
  truth,  \* the account at the exchange
  rows,   \* venue_wallet_states
  acct,   \* the account's state and the number of its last write
  snap,   \* the newest of account_snapshots: the write it copied, the call's own write
  tasks,  \* comparisons that are launched and not finished
  run,    \* the verdict of the newest of reconciliation_runs
  calls,  \* the calls in progress
  used    \* calls and events so far

vars == <<env, bound, truth, rows, acct, snap, tasks, run, calls, used>>

-----------------------------------------------------------------------------
(* Wallets and the conversions between them.                                  *)

NoFutures == [wallet |-> 0, available |-> 0, margin |-> 0, pnl |-> 0, held |-> 0, initial |-> 0,
              meta |-> None, positions |-> <<>>]
NoSpot == [free |-> 0, locked |-> 0, assets |-> <<>>]
NoInfo == [total |-> 0, wallet |-> 0, available |-> 0, futures |-> NoFutures, spot |-> NoSpot]

\* The value in use: the second stands in for a first that is zero.
Or(x, y) == IF x # 0 THEN x ELSE y
Abs(x) == IF x < 0 THEN -x ELSE x
IsFutures(v) == v # "spot"

fromProtoFuturesWallet(f) == [f EXCEPT !.margin = Or(f.margin, f.wallet + f.pnl)]

futuresWalletBootstrapValue(f) ==
  LET initial == [k \in DOMAIN f.positions |-> f.positions[k].initial]
  IN  Or(f.margin, Or(f.wallet, Or(f.initial, SumFunction(initial))))

\* An asset without a price (0) is valued at its average entry price here ...
spotWalletBootstrapValue(s) ==
  LET value == [k \in DOMAIN s.assets |-> s.assets[k].qty * Or(s.assets[k].price, s.assets[k].average)]
  IN  s.free + s.locked + SumFunction(value)

\* ... and at nothing in what an account is shown.
SpotEstimatedExchangeAligned(s) ==
  LET value == [k \in DOMAIN s.assets |-> s.assets[k].qty * s.assets[k].price]
  IN  s.free + s.locked + SumFunction(value)

futuresOnlyBacktestVenueInfo(i) ==
  LET value == futuresWalletBootstrapValue(i.futures)
  IN  [i EXCEPT !.total = value, !.wallet = Or(i.futures.wallet, value),
                !.available = Or(i.futures.available, value)]

spotOnlyBacktestVenueInfo(i) ==
  LET value == spotWalletBootstrapValue(i.spot)
  IN  [i EXCEPT !.total = value, !.wallet = value, !.available = i.spot.free]

\* A faulty ensureBacktestVenueOnlineInfoDefaults: all of the wallet is available.
DefaultsUseWallet(i, v) ==
  IF IsFutures(v) THEN [i EXCEPT !.futures.available = i.futures.wallet] ELSE i

\* Every zero is taken for a missing figure and filled from another one.
ensureBacktestVenueOnlineInfoDefaults(i, v) ==
  LET f == [i.futures EXCEPT !.wallet = Or(@, i.wallet), !.available = Or(@, i.available)]
      g == [f EXCEPT !.margin = Or(@, f.wallet + f.pnl)]
      cash == i.spot.free + i.spot.locked
  IN  IF IsFutures(v)
      THEN [i EXCEPT !.futures = g, !.wallet = Or(@, g.wallet),
                     !.available = Or(@, g.available), !.total = Or(@, g.margin)]
      ELSE [i EXCEPT !.wallet = Or(@, cash), !.available = Or(@, i.spot.free), !.total = Or(@, cash)]

\* The part of a request's wallets that is venue v's.
localVenueInfo(pay, v) ==
  ensureBacktestVenueOnlineInfoDefaults(
    IF IsFutures(v)
    THEN futuresOnlyBacktestVenueInfo([NoInfo EXCEPT !.futures = fromProtoFuturesWallet(pay.futures)])
    ELSE spotOnlyBacktestVenueInfo([NoInfo EXCEPT !.spot = pay.spot]), v)

\* A faulty mergePortfolioOnlineInfo: the available balance is replaced, not added.
MergeForgetsAvailable(current, next) ==
  IF current = None THEN next
  ELSE [next EXCEPT !.total = @ + current.total, !.wallet = @ + current.wallet]

\* The figures of the next venue replace those of the current; only the totals
\* add up and the lists are joined.
mergePortfolioOnlineInfo(current, next) ==
  IF current = None THEN next
  ELSE [next EXCEPT !.total = @ + current.total, !.wallet = @ + current.wallet,
                    !.available = @ + current.available,
                    !.futures.positions = current.futures.positions \o @,
                    !.spot.assets = current.spot.assets \o @]

aggregateVenueWalletSnapshots(local) ==
  IF local = <<>> THEN NoInfo
  ELSE FoldLeft(LAMBDA m, s : mergePortfolioOnlineInfo(m, s.info), None, local)

\* What updateBacktestVenueWalletStates writes for venue v of the merged wallets.
backtestVenueInfo(merged, v) ==
  ensureBacktestVenueOnlineInfoDefaults(
    IF IsFutures(v) THEN futuresOnlyBacktestVenueInfo([merged EXCEPT !.spot = NoSpot])
    ELSE spotOnlyBacktestVenueInfo([merged EXCEPT !.futures = NoFutures]), v)

\* What a stored wallet shows as venue v's part of the portfolio.
portfolioSnapshotFromOnlineInfoForVenue(row, v) ==
  LET i == ensureBacktestVenueOnlineInfoDefaults(row, v)
      margin == Or(i.futures.margin, i.futures.wallet + i.futures.pnl)
  IN  IF IsFutures(v)
      THEN [NoInfo EXCEPT !.futures = i.futures, !.total = Or(margin, i.futures.wallet),
                          !.wallet = i.futures.wallet, !.available = i.futures.available]
      ELSE [NoInfo EXCEPT !.spot = i.spot, !.total = SpotEstimatedExchangeAligned(i.spot),
                          !.wallet = i.spot.free + i.spot.locked, !.available = i.spot.free]

-----------------------------------------------------------------------------
(* The comparison of a strategy's wallet with the exchange's.                 *)

\* A field passes within the tolerance. The relative tolerances of the configuration
\* are below one unit of the amounts used here and decide nothing.
Close(exchange, local, tolerance) == Abs(exchange - local) <= tolerance

\* Positions are indexed by symbol and side, so the last one listed counts.
indexPositions(positions) == IF positions = <<>> THEN None ELSE Last(positions)
positionQty(p) == IF p = None THEN 0 ELSE p.qty

\* A faulty indexRiskMetadata: the strategy's metadata comes first.
LocalMetadataFirst(exchangeMeta, localMeta) ==
  IF localMeta # None THEN localMeta
  ELSE IF exchangeMeta # None THEN exchangeMeta ELSE [step |-> 0, tick |-> 0]

\* The metadata the tolerances come from: the exchange's, in its absence what the
\* strategy sent; with neither, quantities and entry prices must be equal.
indexRiskMetadata(exchangeMeta, localMeta) ==
  CASE exchangeMeta # None -> exchangeMeta
    [] exchangeMeta = None /\ localMeta # None -> localMeta
    [] OTHER -> [step |-> 0, tick |-> 0]

\* Compare, for two wallets both sides know.
Compare(local, exchange) ==
  LET l == local.futures
      e == exchange.futures
      lp == indexPositions(l.positions)
      ep == indexPositions(e.positions)
      md == indexRiskMetadata(e.meta, l.meta)
      flat == positionQty(lp) = 0 /\ positionQty(ep) = 0
      both == lp # None /\ ep # None
  IN  [hard |-> \/ flat
                \/ both /\ Close(ep.qty, lp.qty, md.step) /\ Close(ep.entry, lp.entry, md.tick),
       soft |-> /\ Close(e.wallet, l.wallet, SoftTolerance)
                /\ Close(e.available, l.available, SoftTolerance)
                /\ Close(e.margin, l.margin, SoftTolerance)
                /\ Close(e.pnl, l.pnl, SoftTolerance)
                /\ Close(e.held, l.held, SoftTolerance)
                /\ both /\ ~flat => Close(ep.risk, lp.risk, SoftTolerance)]

\* The snapshots of a list whose venue is one of vs, in their order.
Of(list, vs) == Select(list, {k \in DOMAIN list : list[k].v \in vs})

\* CompareVenues: a venue only one side knows fails both ways.
CompareVenues(local, exchange) ==
  LET Verdict(v) ==
        IF Of(local, {v}) = <<>> \/ Of(exchange, {v}) = <<>> THEN [hard |-> FALSE, soft |-> FALSE]
        ELSE Compare(Last(Of(local, {v})).info, Last(Of(exchange, {v})).info)
      keys == {s.v : s \in Range(local \o exchange)}
  IN  [hard |-> \A v \in keys : Verdict(v).hard, soft |-> \A v \in keys : Verdict(v).soft]

-----------------------------------------------------------------------------
(* The calls.                                                                 *)

\* A call in progress: the request pay, the venue v it is about, the wallets it
\* pushes (local), the venues it has still to read or write (todo), the portfolio
\* it has put together so far (info), the wallets it got from the exchange (exch),
\* its write of the account's state (own) and the one it archives (copied).
\* multi is the margin mode it read at the exchange;
\* reads has the futures account at the exchange at each of its reads, seen when its
\* positions were read; alone says of a call on a backtest account that
\* no other call has overlapped it.
Idle == [pc |-> "idle", op |-> "", alone |-> TRUE, pay |-> None, v |-> None,
         local |-> <<>>, todo |-> <<>>, info |-> None, exch |-> <<>>,
         multi |-> FALSE, own |-> 0, copied |-> 0, reads |-> {}, seen |-> None]

InProgress == {c \in Callers : calls[c].pc # "idle"}
Disturbed(d) == [calls[d] EXCEPT !.alone = @ /\ calls[d].pc = "idle"]
ListActiveAccountVenues == Select(Markets, {k \in DOMAIN Markets : Markets[k] \in bound})

Begin(c, call) ==
  /\ calls[c].pc = "idle" /\ used.calls < MaxCalls
  /\ calls' = [d \in Callers |->
       IF d = c THEN [call EXCEPT !.alone = env = "backtest" /\ InProgress = {}]
       ELSE Disturbed(d)]
  /\ used' = [used EXCEPT !.calls = @ + 1]

Go(c, call) == calls' = [calls EXCEPT ![c] = call]
Return(c) == Go(c, Idle)
Tables == <<rows, acct, snap>>
Others == <<env, bound, truth>>

\* The venues of the list that one of the request's wallets is for.
Receiving(pay, list) ==
  Select(list, {k \in DOMAIN list : IF IsFutures(list[k]) THEN pay.futures # None ELSE pay.spot # None})

localVenueWalletSnapshotsFromWalletStateRequest(pay) ==
  LET to == Receiving(pay, ListActiveAccountVenues)
  IN  [k \in DOMAIN to |-> [v |-> to[k], info |-> localVenueInfo(pay, to[k])]]

\* A push begins with the list of its venues; a request that has no wallet for any of
\* them is refused. (A request that names a session is refused unless the session is
\* active; one that names none is not.)
UpdateAccountWalletState(c, pay) ==
  LET local == localVenueWalletSnapshotsFromWalletStateRequest(pay)
  IN  /\ local # <<>>
      /\ Begin(c, [Idle EXCEPT !.op = "push", !.pay = pay, !.local = local,
                     !.pc = IF env = "backtest" THEN "write_list" ELSE "list"])
      /\ UNCHANGED <<Others, Tables, tasks, run>>

\* The markets whose factory has an AccountSnapshotReader.
HasReader == {"perp"}

\* readPortfolioSnapshot starts with the list of the venues, listed once more in a push.
\* An account without one has an empty portfolio. On an exchange a spot or a delivery
\* venue, which has no reader, fails the whole read.
PortfolioOf(call) ==
  LET list == ListActiveAccountVenues
  IN  CASE list = <<>> -> [call EXCEPT !.info = NoInfo, !.pc = "state"]
        [] env = "backtest" /\ list # <<>> -> [call EXCEPT !.todo = list, !.pc = "read"]
        [] env = "exchange" /\ Range(list) = HasReader -> [call EXCEPT !.pc = "fetch_account"]
        [] OTHER -> Idle

UpdatePortfolioSnapshot(c, reason) ==
  LET call == PortfolioOf([Idle EXCEPT !.op = "refresh",
                             !.pay = [futures |-> None, spot |-> None, reason |-> reason]])
  IN  /\ call # Idle
      /\ Begin(c, call)
      /\ UNCHANGED <<Others, Tables, tasks, run>>

\* updateBacktestVenueWalletStates lists the venues again ...
ListBacktestWrites(c) ==
  LET to == Receiving(calls[c].pay, ListActiveAccountVenues)
  IN  /\ calls[c].pc = "write_list"
      /\ IF to = <<>> THEN Return(c)
         ELSE Go(c, [calls[c] EXCEPT !.todo = to, !.pc = "write"])
      /\ UNCHANGED <<Others, Tables, tasks, run, used>>

\* ... and gives each its part of the merged wallets.
updateBacktestVenueWalletStates(c) ==
  LET v == Head(calls[c].todo)
      rest == Tail(calls[c].todo)
  IN  /\ calls[c].pc = "write"
      /\ rows' = [rows EXCEPT ![v] = backtestVenueInfo(aggregateVenueWalletSnapshots(calls[c].local), v)]
      /\ Go(c, [calls[c] EXCEPT !.todo = rest, !.pc = IF rest = <<>> THEN "list" ELSE @])
      /\ UNCHANGED <<Others, acct, snap, tasks, run, used>>

ListPortfolio(c) ==
  /\ calls[c].pc = "list"
  /\ Go(c, PortfolioOf(calls[c]))
  /\ UNCHANGED <<Others, Tables, tasks, run, used>>

\* A backtest account is read venue by venue; a venue without a wallet is an error.
readPortfolioSnapshot(c) ==
  LET v == Head(calls[c].todo)
      rest == Tail(calls[c].todo)
  IN  /\ calls[c].pc = "read"
      /\ IF rows[v] = None THEN Return(c)
         ELSE Go(c, [calls[c] EXCEPT !.todo = rest, !.pc = IF rest = <<>> THEN "state" ELSE @,
                !.info = mergePortfolioOnlineInfo(@, portfolioSnapshotFromOnlineInfoForVenue(rows[v], v))])
      /\ UNCHANGED <<Others, Tables, tasks, run, used>>

-----------------------------------------------------------------------------
(* FetchOnlineAccountInfo: the balances, their summary and the positions come *)
(* from requests of their own, between which the account moves.               *)

fetchFuturesAccount(c) ==
  /\ calls[c].pc = "fetch_account"
  /\ Go(c, [calls[c] EXCEPT !.pc = "fetch_mode", !.reads = {truth.futures},
            !.info = [NoInfo EXCEPT !.futures = [truth.futures EXCEPT !.positions = <<>>]]])
  /\ UNCHANGED <<Others, Tables, tasks, run, used>>

fetchMultiAssetsMode(c) ==
  /\ calls[c].pc = "fetch_mode"
  /\ Go(c, [calls[c] EXCEPT !.pc = "fetch_balance", !.multi = truth.multi])
  /\ UNCHANGED <<Others, Tables, tasks, run, used>>

\* In multi-assets mode the summary of the margin asset replaces the balances; otherwise
\* it fills the ones that are zero.
mergeFuturesBalanceSummary(f, now, multi) ==
  IF multi
  THEN [f EXCEPT !.wallet = now.wallet, !.available = now.available, !.pnl = now.pnl,
                 !.margin = now.wallet + now.pnl]
  ELSE [f EXCEPT !.wallet = Or(@, now.wallet), !.available = Or(@, now.available)]

fetchFuturesBalance(c) ==
  /\ calls[c].pc = "fetch_balance"
  /\ Go(c, [calls[c] EXCEPT !.pc = "fetch_positions", !.multi = FALSE, !.reads = @ \cup {truth.futures},
            !.info.futures = mergeFuturesBalanceSummary(@, truth.futures, calls[c].multi)])
  /\ UNCHANGED <<Others, Tables, tasks, run, used>>

\* Metadata is read for the symbols of the open positions, here one symbol at most. It
\* comes from three requests and a failed one loses all of it, and not the read of the
\* account.
symbolsFromPositions(open) == {"symbol" : p \in Range(open)}
fetchPhaseAMetadata(symbols) == {symbols, {}}
metadataToDomainRiskMetadata(known) ==
  IF known = {} THEN None ELSE [step |-> StepTolerance, tick |-> PriceTolerance]

\* A failed request leaves the spot wallet empty; a failed ticker, an asset without price.
enrichSpotAssetPrices(spot, priced) ==
  [spot EXCEPT !.assets = [k \in DOMAIN @ |-> [@[k] EXCEPT !.price = IF k \in priced THEN @ ELSE 0]]]
fetchSpotAccount ==
  {NoSpot} \cup {enrichSpotAssetPrices(truth.spot, priced) : priced \in SUBSET DOMAIN truth.spot.assets}

\* FetchOnlineAccountInfo puts the parts together.
OnlineAccountInfo(f, spot) ==
  [futures |-> f, spot |-> spot, wallet |-> f.wallet, available |-> f.available,
   total |-> Or(f.margin, f.wallet) + SpotEstimatedExchangeAligned(spot)]

\* The reader's answer for its venue.
ReadPortfolioSnapshot(info) == [v |-> "perp", info |-> info]

\* Positions that are flat are left out.
fetchFuturesPositionRisk(c) ==
  LET listed == truth.futures.positions
      open == Select(listed, {k \in DOMAIN listed : listed[k].qty # 0})
      f(known) == [calls[c].info.futures EXCEPT !.positions = open,
                                                !.meta = metadataToDomainRiskMetadata(known)]
  IN  /\ calls[c].pc = "fetch_positions"
      /\ \E known \in fetchPhaseAMetadata(symbolsFromPositions(open)), spot \in fetchSpotAccount :
           Go(c, [calls[c] EXCEPT !.info = OnlineAccountInfo(f(known), spot),
                  !.reads = @ \cup {truth.futures}, !.seen = truth.futures,
                  !.exch = <<ReadPortfolioSnapshot(OnlineAccountInfo(f(known), spot))>>,
                  !.pc = IF calls[c].op = "push" THEN "match" ELSE "state"])
      /\ UNCHANGED <<Others, Tables, tasks, run, used>>

\* Of the exchange's wallets the ones the request is about are compared, and stored
\* if their venue is still bound.
matchVenueWalletSnapshots(c) ==
  LET exch == Of(calls[c].exch, {s.v : s \in Range(calls[c].local)})
      todo == Of(exch, bound)
  IN  /\ calls[c].pc = "match"
      /\ Go(c, [calls[c] EXCEPT !.exch = exch, !.todo = todo,
                !.pc = IF todo = <<>> THEN "state" ELSE "store"])
      /\ UNCHANGED <<Others, Tables, tasks, run, used>>

\* A faulty updateVenueWalletStatesFromSnapshots: the strategy's wallets are stored.
StoreLocalSnapshots(c) ==
  /\ calls[c].pc = "store"
  /\ rows' = [rows EXCEPT ![Head(calls[c].todo).v] = Head(calls[c].local).info]
  /\ Go(c, [calls[c] EXCEPT !.todo = Tail(@), !.pc = "state"])
  /\ UNCHANGED <<Others, acct, snap, tasks, run, used>>

updateVenueWalletStatesFromSnapshots(c) ==
  LET s == Head(calls[c].todo)
      rest == Tail(calls[c].todo)
  IN  /\ calls[c].pc = "store"
      /\ rows' = [rows EXCEPT ![s.v] = ensureBacktestVenueOnlineInfoDefaults(s.info, s.v)]
      /\ Go(c, [calls[c] EXCEPT !.todo = rest, !.pc = IF rest = <<>> THEN "state" ELSE @])
      /\ UNCHANGED <<Others, acct, snap, tasks, run, used>>

-----------------------------------------------------------------------------
(* The account's state, its archive and the comparison.                       *)

UpdateAccountState(c) ==
  /\ calls[c].pc = "state"
  /\ acct' = [info |-> calls[c].info, version |-> acct.version + 1]
  /\ IF calls[c].pay.reason = "none" THEN Return(c)
     ELSE Go(c, [calls[c] EXCEPT !.own = acct.version + 1, !.pc = "archive"])
  /\ UNCHANGED <<Others, rows, snap, tasks, run, used>>

RunTypeFromReason(reason) == IF reason = "event" THEN "event" ELSE ""

\* A faulty SaveSnapshot: the state was read before the call wrote its own.
SnapshotReadsEarly(c) ==
  /\ calls[c].pc = "archive"
  /\ Go(c, [calls[c] EXCEPT !.pc = "insert", !.copied = calls[c].own - 1])
  /\ UNCHANGED <<Others, Tables, tasks, run, used>>

\* SaveSnapshot reads the state back from the table ...
SnapshotReadsState(c) ==
  /\ calls[c].pc = "archive"
  /\ Go(c, [calls[c] EXCEPT !.pc = "insert", !.copied = acct.version])
  /\ UNCHANGED <<Others, Tables, tasks, run, used>>

\* ... and stores the copy. A push on an exchange then launches its comparison, and
\* returns without waiting for it.
Task(call) == [pay |-> call.pay, local |-> call.local, exch |-> call.exch,
               reads |-> call.reads, seen |-> call.seen]

SaveSnapshot(c) ==
  /\ calls[c].pc = "insert"
  /\ snap' = [copied |-> calls[c].copied, own |-> calls[c].own]
  /\ tasks' = IF calls[c].op = "push" /\ env # "backtest" /\ RunTypeFromReason(calls[c].pay.reason) # ""
              THEN tasks \cup {Task(calls[c])} ELSE tasks
  /\ Return(c)
  /\ UNCHANGED <<Others, rows, acct, run, used>>

\* runIsolated compares what the task carries and stores the verdict, pass or fail.
runIsolated(t) ==
  /\ run' = CompareVenues(t.local, t.exch)
  /\ tasks' = tasks \ {t}
  /\ UNCHANGED <<Others, Tables, calls, used>>

-----------------------------------------------------------------------------
(* Venues and their first wallets. While a session runs the venues stay as they *)
(* are; here none does (VenueSessions has the sessions).                        *)

Attach(c, v, call) ==
  /\ v \in Venues \ bound
  /\ bound' = bound \cup {v}
  /\ IF env = "backtest" THEN Begin(c, call)
     ELSE /\ used.events < MaxEvents
          /\ used' = [used EXCEPT !.events = @ + 1]
          /\ calls' = [d \in Callers |-> Disturbed(d)]
  /\ UNCHANGED <<env, truth, acct, snap, tasks, run>>

\* CreateVenue: a backtest venue gets the wallet of the request, or an empty one, once
\* it is stored.
CreateVenue(c, v, wallet) ==
  LET boot == CASE wallet = None -> NoInfo
                [] wallet # None /\ IsFutures(v) -> [NoInfo EXCEPT !.futures = fromProtoFuturesWallet(wallet)]
                [] OTHER -> [NoInfo EXCEPT !.spot = wallet]
  IN  /\ Attach(c, v, [Idle EXCEPT !.pc = "put", !.op = "create", !.v = v,
                         !.info = ensureBacktestVenueOnlineInfoDefaults(boot, v)])
      /\ rows' = [rows EXCEPT ![v] = None]

\* BindVenue: a backtest venue keeps the wallet it has.
BindVenue(c, v) ==
  /\ Attach(c, v, [Idle EXCEPT !.pc = "attach", !.op = "bind", !.v = v])
  /\ UNCHANGED rows

attachBacktestVenueWalletState(c) ==
  LET v == calls[c].v
      row == IF rows[v] = None THEN NoInfo ELSE rows[v]
  IN  /\ calls[c].pc = "attach"
      /\ Go(c, [calls[c] EXCEPT !.pc = "put", !.info = ensureBacktestVenueOnlineInfoDefaults(row, v)])
      /\ UNCHANGED <<Others, Tables, tasks, run, used>>

\* GetVenueOnlineInfo of a backtest venue that has no wallet stores an empty one.
GetVenueOnlineInfo(c, v) ==
  /\ env = "backtest" /\ v \in bound /\ rows[v] = None
  /\ Begin(c, [Idle EXCEPT !.pc = "put", !.op = "online", !.v = v,
                 !.info = ensureBacktestVenueOnlineInfoDefaults(NoInfo, v)])
  /\ UNCHANGED <<Others, Tables, tasks, run>>

UpsertVenueWalletState(c) ==
  /\ calls[c].pc = "put"
  /\ rows' = [rows EXCEPT ![calls[c].v] = calls[c].info]
  /\ Return(c)
  /\ UNCHANGED <<Others, acct, snap, tasks, run, used>>

\* ReleaseVenue leaves the wallet behind; ArchiveVenue deletes it.
Detach(v) ==
  /\ v \in bound /\ used.events < MaxEvents
  /\ bound' = bound \ {v}
  /\ used' = [used EXCEPT !.events = @ + 1]
  /\ rows' \in {rows, [rows EXCEPT ![v] = None]}
  /\ calls' = [d \in Callers |-> Disturbed(d)]
  /\ UNCHANGED <<env, truth, acct, snap, tasks, run>>

-----------------------------------------------------------------------------
(* The exchange and faults.                                                   *)

Move ==
  /\ env = "exchange" /\ used.events < MaxEvents
  /\ truth' \in Truths \ {truth}
  /\ used' = [used EXCEPT !.events = @ + 1]
  /\ UNCHANGED <<env, bound, Tables, tasks, run, calls>>

Fault ==
  /\ used.events < MaxEvents
  /\ used' = [used EXCEPT !.events = @ + 1]
  /\ UNCHANGED <<Others, Tables, run>>

\* A statement or a request fails, which ends the call. A comparison whose run cannot
\* be stored, or that panics, is given up.
Fail == Fault /\ \E c \in InProgress : Return(c) /\ UNCHANGED tasks
FailRun == Fault /\ \E t \in tasks : tasks' = tasks \ {t} /\ UNCHANGED calls
Crash == Fault /\ calls' = [c \in Callers |-> Idle] /\ tasks' = {}

Requests == [futures : FutPayloads \cup {None}, spot : SpotPayloads \cup {None}, reason : Reasons]

\* An account starts with some venues, whose wallets are empty, and with no call.
Init ==
  /\ env \in {"backtest", "exchange"}
  /\ bound \in SUBSET Venues
  /\ truth \in IF env = "exchange" THEN Truths ELSE {None}
  /\ rows = [v \in Venues |-> IF env = "backtest" /\ v \in bound THEN NoInfo ELSE None]
  /\ acct = [info |-> NoInfo, version |-> 0]
  /\ snap = None /\ tasks = {} /\ run = None
  /\ calls = [c \in Callers |-> Idle]
  /\ used = [calls |-> 0, events |-> 0]

Step(c) ==
  \/ ListBacktestWrites(c) \/ updateBacktestVenueWalletStates(c)
  \/ ListPortfolio(c) \/ readPortfolioSnapshot(c)
  \/ fetchFuturesAccount(c) \/ fetchMultiAssetsMode(c) \/ fetchFuturesBalance(c) \/ fetchFuturesPositionRisk(c)
  \/ matchVenueWalletSnapshots(c) \/ updateVenueWalletStatesFromSnapshots(c)
  \/ UpdateAccountState(c) \/ SnapshotReadsState(c) \/ SaveSnapshot(c)
  \/ attachBacktestVenueWalletState(c) \/ UpsertVenueWalletState(c)

Next ==
  \/ \E c \in Callers :
       \/ Step(c)
       \/ \E pay \in Requests : UpdateAccountWalletState(c, pay)
       \/ \E reason \in Reasons : UpdatePortfolioSnapshot(c, reason)
       \/ \E v \in Venues : \E w \in (IF IsFutures(v) THEN FutPayloads ELSE SpotPayloads) \cup {None} :
            CreateVenue(c, v, w)
       \/ \E v \in Venues : BindVenue(c, v) \/ GetVenueOnlineInfo(c, v)
  \/ \E t \in tasks : runIsolated(t)
  \/ \E v \in Venues : Detach(v)
  \/ Move \/ Fail \/ FailRun \/ Crash

Spec == Init /\ [][Next]_vars

-----------------------------------------------------------------------------
(* Properties.                                                                *)

\* A push that nothing overlaps on a backtest account persists what the strategy
\* computed: read back through every conversion, the venue shows the pushed wallet.
\* The request is one whose wallet has one venue to go to and whose futures figures
\* are not zero (UpdateAccountWalletState, through localVenueWalletSnapshots...,
\* updateBacktestVenueWalletStates and readPortfolioSnapshot).
Shows(pay, v) ==
  LET shown == portfolioSnapshotFromOnlineInfoForVenue(rows[v], v)
  IN  IF IsFutures(v) THEN shown.futures = fromProtoFuturesWallet(pay.futures) ELSE shown.spot = pay.spot

Settles(c) == UpdateAccountState(c) /\ calls[c].alone

PushReadBack ==
  [][\A c \in Callers :
       /\ Settles(c) /\ calls[c].op = "push" /\ Len(calls[c].local) = 1
       /\ calls[c].pay.futures = None \/ (calls[c].pay.futures.wallet # 0 /\ calls[c].pay.futures.available # 0)
       => Shows(calls[c].pay, calls[c].local[1].v)]_vars

\* A push or a refresh that nothing overlaps leaves the state of a backtest account
\* equal to the sum of its venues' wallets (UpdateAccountState after
\* readPortfolioSnapshot), also when an earlier call failed half-way.
AccountTracksVenues ==
  [][\A c \in Callers : Settles(c) =>
       LET list == ListActiveAccountVenues
           Shown(k) == portfolioSnapshotFromOnlineInfoForVenue(rows[list[k]], list[k])
       IN  /\ acct'.info.total = SumFunction([k \in DOMAIN list |-> Shown(k).total])
           /\ acct'.info.wallet = SumFunction([k \in DOMAIN list |-> Shown(k).wallet])
           /\ acct'.info.available = SumFunction([k \in DOMAIN list |-> Shown(k).available])]_vars

\* What a call archives is never older than what it wrote itself, although the archive
\* copies whatever is in the table by then (SaveSnapshot).
SnapshotCoversCall == snap # None => snap.copied >= snap.own

\* On an exchange account the strategy's figures are only compared: the futures wallet
\* balance that is stored, for a venue or for the account, is one the exchange reported.
ExchangeIsAuthoritative ==
  env = "exchange" =>
    \A i \in ({rows[v] : v \in Venues} \ {None}) \cup {acct.info} :
      i.futures.wallet \in {t.futures.wallet : t \in Truths} \cup {0}

\* The verdict of a comparison, which runs long after the wallets it is about were
\* read: a run that passes was about a position the exchange had too, up to the step size
\* of the exchange or, when its metadata was not to be had, of the strategy itself; and a
\* strategy whose wallet was the exchange's at each of its reads is not reported
\* (CompareVenues, Compare, indexRiskMetadata). The exceptions are figures of zero, which
\* the defaults replace on one side, and a request that has been taken for two venues.
Quantity(f) == positionQty(indexPositions(f.positions))
Figures(f) == [f EXCEPT !.meta = None]
Allowed(exchange, f) ==
  CASE exchange.meta # None -> StepTolerance
    [] exchange.meta = None /\ f.meta # None -> f.meta.step
    [] OTHER -> 0

VerdictSound ==
  \A t \in tasks :
    LET verdict == CompareVenues(t.local, t.exch)
        f == fromProtoFuturesWallet(t.pay.futures)
    IN  t.pay.futures # None /\ t.local[1].v = "perp" =>
          /\ verdict.hard => Abs(Quantity(t.seen) - Quantity(f)) <= Allowed(t.exch[1].info.futures, f)
          /\ t.reads = {Figures(f)} /\ Len(t.local) = 1 /\ f.wallet # 0 /\ f.available # 0
               => verdict.hard /\ verdict.soft

=============================================================================
