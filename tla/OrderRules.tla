------------------------------ MODULE OrderRules ------------------------------
(***************************************************************************)
(* What one PlaceOrder call decides on its way to a venue: the service's   *)
(* contract, the risk gate, the executor's own contract, the order as it   *)
(* is sent, and the reading of the venue's answer. OrderAttempts models    *)
(* how calls interleave and what they store; here one venue serves one     *)
(* call at a time and the requests, wallets and answers are what varies.   *)
(*                                                                         *)
(* Quantities and prices are integers; the tolerances of the float         *)
(* comparisons are left out. A text a venue sends as a number is that      *)
(* number, or Unreadable when it does not parse.                           *)
(***************************************************************************)
EXTENDS Integers, Sequences, SequencesExt

CONSTANTS
  Qtys,         \* order quantities, zero and negative ones included
  Prices,       \* limit prices, zero included
  MarkPrices,   \* mark prices, zero included
  Wallets,      \* what venue_wallet_states may hold
  VenueRules,   \* what exchangeInfo may say of the symbol
  MaxHeld,      \* bound on the position the venue holds
  MaxLookups    \* defaultTradeLookupAttempts

ASSUME RulesConstants ==
  /\ Qtys \subseteq Int /\ Prices \subseteq Nat /\ MarkPrices \subseteq Nat
  /\ MaxHeld \in Nat /\ MaxLookups \in Nat \ {0}
  /\ Wallets \subseteq [available : Nat, futures : Nat, quote : Nat, qty : Int, locked : Nat,
                        leverage : Nat, step : Nat, tick : Nat]
  /\ VenueRules \subseteq [step : Nat, tick : Nat, minQty : Nat, minNotional : Nat]

VARIABLES
  pc,      \* where the call is: idle, review, execute, answer, trades, open, state, done
  route,   \* the market, environment and position mode of the venue
  wallet,  \* the stored wallet of the venue
  held,    \* external: base quantity (spot) or position (futures) at the venue
  call,    \* the request, with its contract normalised
  seen,    \* the position in the snapshot the gate judged the call by
  sent,    \* the order as the venue received it, and what it executed
  lookups, \* trade lookups made for this answer
  out      \* what the last finished call came to

vars == <<pc, route, wallet, held, call, seen, sent, lookups, out>>

Abs(n) == IF n < 0 THEN -n ELSE n
Unreadable == -1
NoPrice == -1

\* A venue's credential may be sealed with another encryption key, or lack its secret, or
\* its key both in the api_key column and in the document. "live" stands for demo too.
Routes ==
  [exchange : {"binance", "okx"}, market : {"spot", "perpetual", "delivery"},
   env : {"backtest", "live"}, mode : {"one_way", "hedge"}, cred : {"good", "sealed", "no_key", "no_secret"}]

\* The routes with a factory in the adapter registry.
registerExchangeFactories ==
  {rt \in Routes :
     \/ rt.exchange = "binance" /\ rt.market \in {"spot", "perpetual"}
     \/ rt.exchange = "okx" /\ rt.market = "perpetual" /\ rt.env # "backtest"}

\* What the factory of a Binance route offers for orders; the OKX factory is a stub.
BinanceFactory(rt) ==
  {"credential_validator", "order_executor", "order_capability_provider", "order_state_reader"}
    \cup (IF rt.market = "perpetual" THEN {"symbol_rules_reader"} ELSE {})
OkxFactory == {}

\* Registry: a route that is not registered has no capability at all.
Capabilities ==
  IF route \notin registerExchangeFactories THEN {}
  ELSE IF route.exchange = "okx" THEN OkxFactory ELSE BinanceFactory(route)

OrderTypes == {"", "MARKET", "LIMIT", "STOP"}
TimesInForce == {"", "GTC", "IOC", "FOK", "GTD", "DAY"}

\* "soon" is a good_till_date less than binanceGTDMinLead away.
TillDates == {"none", "soon", "late"}

\* A request is what its contract is judged by, and the terms of the trade.
Contracts ==
  [type : OrderTypes, price : Prices \cup {NoPrice}, tif : TimesInForce, post : BOOLEAN,
   till : TillDates, pside : {"BOTH", "LONG"}]
Terms == [reduce : BOOLEAN, side : {"BUY", "SELL"}, qty : Qtys, mark : MarkPrices]

NoCall == [type |-> "", price |-> NoPrice, tif |-> "", post |-> FALSE, till |-> "none",
           reduce |-> FALSE, side |-> "BUY", pside |-> "BOTH", qty |-> 0, mark |-> 0]
NotSent == [type |-> "none", tif |-> "", price |-> NoPrice, reduce |-> FALSE, qty |-> 0, done |-> 0]

\* kind is what the caller and the ledger learn: refused (an error, no row), recorded (a
\* FAILED attempt for a contract error), rejected (by the gate), failed, unknown, unresolved,
\* result; "state" is an answer of recovery's first read.
Outcome(kind, code, status, executed, fills, pending) ==
  [kind |-> kind, code |-> code, status |-> status, executed |-> executed,
   fills |-> fills, pending |-> pending]
NoOutcome == Outcome("none", "", "", 0, <<>>, FALSE)

-----------------------------------------------------------------------------
(* The service's contract. *)

orderTypeOf(r) ==
  IF r.type # "" THEN r.type ELSE IF r.price # NoPrice THEN "LIMIT" ELSE "MARKET"

timeInForceOf(r) == IF orderTypeOf(r) = "LIMIT" /\ r.tif = "" THEN "GTC" ELSE r.tif

\* What every layer asks of a market order.
MarketOnly(r) == r.price = NoPrice /\ ~r.post /\ r.tif = "" /\ r.till = "none"

\* The error of normalizeOrderContract: "invalid" is InvalidArgument, "auditable"
\* FailedPrecondition, which leaves a FAILED attempt behind.
normalizeOrderContract(r) ==
  CASE orderTypeOf(r) = "MARKET" -> IF MarketOnly(r) THEN "ok" ELSE "invalid"
    [] orderTypeOf(r) = "LIMIT" ->
         IF r.price <= 0 THEN "invalid"
         ELSE IF r.tif = "GTD" /\ r.till = "none" THEN "invalid"
         ELSE IF timeInForceOf(r) \notin {"GTC", "IOC", "FOK", "GTD"} THEN "auditable"
         ELSE "ok"
    [] OTHER -> "auditable"

validatePositionSide(r) == r.pside = "BOTH" /\ (route.market # "spot" => route.mode # "hedge")

Decrypt == route.cred # "sealed"
apiSecretFromCredentialJSON == route.cred # "no_secret"

\* accountmeta: a venue that needs a credential yields no route without its secret.
MetaFound == route.env # "backtest" => Decrypt /\ apiSecretFromCredentialJSON

\* The request as it goes on: type and time in force are the normalised ones.
Normalised(c, t) ==
  [type |-> orderTypeOf(c), tif |-> timeInForceOf(c), price |-> c.price, post |-> c.post,
   till |-> c.till, pside |-> c.pside,
   reduce |-> t.reduce, side |-> t.side, qty |-> t.qty, mark |-> t.mark]

-----------------------------------------------------------------------------
(* The risk gate. *)

SupportsGTD == route.market = "perpetual" /\ route.env # "backtest"

OrderCapability ==
  [types |-> {"MARKET", "LIMIT"},
   tifs |-> {"GTC", "IOC", "FOK"} \cup (IF SupportsGTD THEN {"GTD"} ELSE {}),
   gtd |-> SupportsGTD]

\* Slip: leaves the clash of post_only and a time in force to the executor.
LaxCapability(r) ==
  /\ r.type \in OrderCapability.types
  /\ r.type = "MARKET" => MarketOnly(r)
  /\ r.tif # "" => r.tif \in OrderCapability.tifs
  /\ (r.tif = "GTD" \/ r.till # "none") => OrderCapability.gtd

validateCapability(r) ==
  /\ r.type \in OrderCapability.types
  /\ r.type = "MARKET" => MarketOnly(r)
  /\ r.tif # "" => r.tif \in OrderCapability.tifs
  /\ ~(r.post /\ r.tif \in {"IOC", "FOK", "GTD"})
  /\ (r.tif = "GTD" \/ r.till # "none") => OrderCapability.gtd

orderNotional(r) ==
  LET price == IF r.price > 0 THEN r.price ELSE r.mark
  IN IF price <= 0 THEN 0 ELSE Abs(r.qty) * price

\* A rule of the venue replaces the stored one when it is set.
mergeRiskMetadata(rules) ==
  [step |-> IF rules.step > 0 THEN rules.step ELSE wallet.step,
   tick |-> IF rules.tick > 0 THEN rules.tick ELSE wallet.tick,
   minQty |-> rules.minQty, minNotional |-> rules.minNotional]

alignsToIncrement(value, increment) == increment = 0 \/ value % increment = 0

validateSymbolRules(r, rules) ==
  LET m == mergeRiskMetadata(rules) IN
  /\ Abs(r.qty) >= m.minQty
  /\ alignsToIncrement(Abs(r.qty), m.step)
  /\ r.type = "LIMIT" => alignsToIncrement(r.price, m.tick)
  /\ m.minNotional > 0 => orderNotional(r) >= m.minNotional

\* Spot: the assets a wallet lists by name, one entry each; one it lacks counts as 0.
availableBalance(asset) == IF asset = "base" THEN wallet.qty - wallet.locked ELSE wallet.quote

validateSpotBalance(r) ==
  /\ ~(r.reduce /\ r.side = "BUY")
  /\ r.side = "SELL" => availableBalance("base") >= Abs(r.qty)
  /\ r.side = "BUY" => orderNotional(r) > 0 /\ availableBalance("quote") >= orderNotional(r)

\* Slip: forgets to compare the quantity with the position.
UnboundedReduceOnly(r) == IF r.side = "SELL" THEN wallet.qty > 0 ELSE wallet.qty < 0

validateFuturesReduceOnly(r) ==
  /\ IF r.side = "SELL" THEN wallet.qty > 0 ELSE wallet.qty < 0
  /\ Abs(r.qty) <= Abs(wallet.qty)

\* The account's available balance, or the futures wallet's when that is zero.
AvailableBalance == IF wallet.available # 0 THEN wallet.available ELSE wallet.futures

validateFuturesBalance(r, rules) ==
  /\ wallet.leverage > 0
  /\ validateSymbolRules(r, rules)
  /\ IF r.reduce THEN validateFuturesReduceOnly(r)
     ELSE orderNotional(r) > 0 /\ AvailableBalance * wallet.leverage >= orderNotional(r)

\* The pending-route check is OrderAttempts' subject; here no other order is open.
Review(r, rules) ==
  /\ validateCapability(r)
  /\ IF route.market = "spot" THEN validateSpotBalance(r) ELSE validateFuturesBalance(r, rules)

-----------------------------------------------------------------------------
(* The executor's contract and the order as it is sent. *)

\* Spot sends the absolute quantity; the futures executor sends it as it came.
BinanceContract(r) ==
  [type |-> IF r.post /\ route.market = "spot" THEN "LIMIT_MAKER" ELSE r.type,
   tif |-> IF ~r.post THEN r.tif ELSE IF route.market = "spot" THEN "" ELSE "GTX",
   price |-> IF r.type = "LIMIT" THEN r.price ELSE NoPrice,
   reduce |-> route.market = "perpetual" /\ r.reduce,
   qty |-> IF route.market = "spot" THEN Abs(r.qty) ELSE r.qty, done |-> 0]

\* Whether normalizeBinanceOrderContract refuses the order.
normalizeBinanceOrderContract(r, gtd) ==
  \/ route.market = "spot" /\ r.reduce /\ r.side = "BUY"
  \/ r.type = "MARKET" /\ ~MarketOnly(r)
  \/ r.type = "LIMIT" /\ r.price <= 0
  \/ r.type = "LIMIT" /\ r.post /\ (r.tif \in {"IOC", "FOK", "GTD"} \/ r.till # "none")
  \/ r.type = "LIMIT" /\ ~r.post /\ r.till # "none" /\ r.tif # "GTD"
  \/ r.type = "LIMIT" /\ ~r.post /\ r.tif = "GTD" /\ (~gtd \/ r.till # "late")
  \/ r.type \notin {"MARKET", "LIMIT"} \/ r.tif \notin {"", "GTC", "IOC", "FOK", "GTD"}

\* The futures executor checks once more, on its own.
normalizeBinanceFuturesOrderContract(r) ==
  CASE r.type = "MARKET" -> ~MarketOnly(r)
    [] r.type = "LIMIT" ->
         \/ r.price <= 0
         \/ IF r.post THEN r.tif \in {"IOC", "FOK", "GTD"} \/ r.till # "none"
            ELSE \/ r.till # "none" /\ r.tif # "GTD"
                 \/ r.tif = "GTD" /\ r.till # "late"
                 \/ r.tif \notin {"", "GTC", "IOC", "FOK", "GTD"}
    [] OTHER -> TRUE

\* One-way mode only: a hedge order would lack its open or close intent.
normalizeBinanceOrderSide == route.mode = "hedge"

ExecutorRefuses(r) ==
  \/ normalizeBinanceOrderContract(r, SupportsGTD)
  \/ /\ route.market = "perpetual" /\ route.env # "backtest"
     /\ normalizeBinanceOrderSide \/ normalizeBinanceFuturesOrderContract(r)

\* The adapter router needs key and secret to place an order at a real venue.
credentialPayload == route.cred # "no_key" /\ apiSecretFromCredentialJSON

parseCredential ==
  route.env = "backtest" \/ (credentialPayload /\ "credential_validator" \in Capabilities)

FailedOrder(code) == Outcome("failed", code, "FAILED", 0, <<>>, FALSE)
UnknownOrder == Outcome("unknown", "", "", 0, <<>>, FALSE)

\* The simulated book has one price, the mark.
limitTouched(r) == IF r.side = "BUY" THEN r.mark <= r.price ELSE r.mark >= r.price

MatchBacktestLimitGTC(r) ==
  IF limitTouched(r)
  THEN Outcome("result", "", "FILLED", Abs(r.qty), <<Abs(r.qty)>>, FALSE)
  ELSE Outcome("result", "", "NEW", 0, <<>>, FALSE)

\* Whatever the time in force, and post_only or not, a limit order is matched as GTC.
placeSimulatedLimitOrder(r) == IF r.price <= 0 THEN UnknownOrder ELSE MatchBacktestLimitGTC(r)

\* A market order fills at the mark price moved by the slippage; without one it is an
\* error, and the attempt is left UNKNOWN.
SimulatedOrder(r) ==
  IF r.type = "LIMIT" THEN placeSimulatedLimitOrder(r)
  ELSE IF r.mark <= 0 THEN UnknownOrder
  ELSE Outcome("result", "", "FILLED", Abs(r.qty), <<Abs(r.qty)>>, FALSE)

-----------------------------------------------------------------------------
(* Reading the venue's answer. A fill is its quantity. *)

totalFillQty(fills) == FoldSeq(LAMBDA f, sum : f + sum, 0, fills)

\* A spot fill needs a trade id, a positive quantity and price, and a commission; one that
\* lacks any of them is Unreadable.
spotFills(fills) == \A i \in DOMAIN fills : fills[i] > 0

\* Slip: trusts whatever fills the answer lists.
TrustFills(raw, executed) ==
  IF executed = 0 \/ spotFills(raw.fills)
  THEN [fills |-> IF executed = 0 THEN <<>> ELSE raw.fills, pending |-> FALSE]
  ELSE [fills |-> <<>>, pending |-> TRUE]

\* Fills come back only when every one is readable and together they are the execution.
spotFillResult(raw, executed) ==
  IF executed = 0 THEN [fills |-> <<>>, pending |-> FALSE]
  ELSE IF spotFills(raw.fills) /\ totalFillQty(raw.fills) = executed
  THEN [fills |-> raw.fills, pending |-> FALSE]
  ELSE [fills |-> <<>>, pending |-> TRUE]

spotOrderLooksExecuted(raw) == raw.status \in {"FILLED", "PARTIALLY_FILLED"} \/ raw.fills # <<>>

spotOrderResult(raw) ==
  LET executed == IF raw.executed = Unreadable THEN 0 ELSE raw.executed
      read == spotFillResult(raw, executed)
      lost == raw.executed = Unreadable /\ spotOrderLooksExecuted(raw)
  IN Outcome("result", "", raw.status, executed,
             IF lost THEN <<>> ELSE read.fills, lost \/ read.pending)

\* What Resolve makes of an order's state and of the trades it read after it: fills that
\* do not add up to the executed quantity are dropped. None executed needs no fills.
recoveredFillPending(executed, trades) ==
  executed > 0 /\ (trades = <<>> \/ totalFillQty(trades) # executed)

fromAdapterOrderState(state, readable, trades) ==
  IF readable /\ ~recoveredFillPending(state.executed, trades)
  THEN [state EXCEPT !.kind = "result", !.fills = trades]
  ELSE [state EXCEPT !.kind = "result", !.pending = TRUE]

-----------------------------------------------------------------------------
Init ==
  /\ pc = "idle"
  /\ route \in {rt \in Routes :
                 /\ rt.market = "spot" => rt.mode = "one_way"
                 /\ rt.env = "backtest" => rt.cred = "good"}
  /\ wallet \in {w \in Wallets : route.market = "spot" => w.qty >= 0}
  /\ held = wallet.qty
  /\ call = NoCall /\ seen = 0 /\ sent = NotSent /\ lookups = 0 /\ out = NoOutcome

Finish(o) ==
  pc' = "done" /\ out' = o /\ call' = NoCall /\ seen' = 0 /\ sent' = NotSent /\ lookups' = 0

\* The attempt is left UNKNOWN, or RECOVERING for its fills; ResolveOrderAttempt goes on.
LeaveOpen(o) == pc' = "open" /\ out' = o /\ lookups' = 0 /\ UNCHANGED <<call, seen, sent>>

Conclude(o) == IF o.pending \/ o.kind = "unknown" THEN LeaveOpen(o) ELSE Finish(o)

\* PlaceOrder up to the attempt row; a request is refused, recorded or taken.
RefuseRequest(c, qty) ==
  /\ qty = 0 \/ normalizeOrderContract(c) = "invalid"
       \/ ~MetaFound \/ ~validatePositionSide(c)
  /\ Finish(Outcome("refused", "", "", 0, <<>>, FALSE))
  /\ UNCHANGED <<route, wallet, held>>

recordOrderContractFailure(c, qty) ==
  /\ qty # 0 /\ normalizeOrderContract(c) = "auditable"
  /\ MetaFound /\ validatePositionSide(c)
  /\ Finish(Outcome("recorded", "ORDER_CONTRACT_INVALID", "FAILED", 0, <<>>, FALSE))
  /\ UNCHANGED <<route, wallet, held>>

TakeRequest(c) ==
  /\ normalizeOrderContract(c) = "ok" /\ MetaFound /\ validatePositionSide(c)
  /\ pc' = "review" /\ \E t \in Terms : t.qty # 0 /\ call' = Normalised(c, t)
  /\ UNCHANGED <<route, wallet, held, seen, sent, lookups, out>>

\* ValidateActiveSession: the session is unknown, another account's, or not active.
RefuseSession(c) ==
  /\ normalizeOrderContract(c) # "invalid" /\ MetaFound /\ validatePositionSide(c)
  /\ Finish(Outcome("refused", "SESSION", "", 0, <<>>, FALSE))
  /\ UNCHANGED <<route, wallet, held>>

PlaceOrder ==
  /\ pc = "idle"
  /\ \E c \in Contracts :
       \/ RefuseSession(c)
       \/ \E qty \in Qtys : RefuseRequest(c, qty) \/ recordOrderContractFailure(c, qty)
       \/ TakeRequest(c)

\* The call returns to its caller.
Return ==
  /\ pc \in {"done", "open"}
  /\ pc' = "idle" /\ out' = NoOutcome
  /\ call' = NoCall /\ seen' = 0 /\ sent' = NotSent /\ lookups' = 0
  /\ UNCHANGED <<route, wallet, held>>

\* A filter exchangeInfo lacks, or whose value is unreadable, is 0: no rule. Spot and
\* backtest venues have no rules but the stored ones.
NoRules == [step |-> 0, tick |-> 0, minQty |-> 0, minNotional |-> 0]
ReadSymbolRules ==
  IF route.env = "backtest" \/ "symbol_rules_reader" \notin Capabilities THEN {NoRules} ELSE VenueRules

ReviewRisk ==
  /\ pc = "review" /\ "order_capability_provider" \in Capabilities
  /\ \E rules \in ReadSymbolRules :
       IF Review(call, rules)
       THEN pc' = "execute" /\ seen' = wallet.qty /\ UNCHANGED <<call, sent, lookups, out>>
       ELSE Finish(Outcome("rejected", "RISK", "", 0, <<>>, FALSE))
  /\ UNCHANGED <<route, wallet, held>>

\* A reader of the gate fails (wallet, capability, exchangeInfo): the order is rejected.
ReviewFails ==
  /\ pc = "review"
  /\ Finish(Outcome("rejected", "RISK_REVIEW_ERROR", "", 0, <<>>, FALSE))
  /\ UNCHANGED <<route, wallet, held>>

Signed(n) == IF call.side = "BUY" THEN n ELSE -n

\* The router finds no credential to use, or the executor refuses the contract.
RefuseOrder ==
  /\ pc = "execute"
  /\ \/ ~parseCredential /\ Finish(FailedOrder("CREDENTIAL"))
     \/ parseCredential /\ ExecutorRefuses(call) /\ Finish(FailedOrder("CONTRACT"))
  /\ UNCHANGED <<route, wallet, held>>

ExecuteSimulated ==
  /\ pc = "execute" /\ route.env = "backtest" /\ ~ExecutorRefuses(call)
  /\ LET o == SimulatedOrder(call) IN
       /\ Abs(held + Signed(o.executed)) <= MaxHeld
       /\ Conclude(o) /\ held' = held + Signed(o.executed)
  /\ UNCHANGED <<route, wallet>>

ReachesVenue == pc = "execute" /\ route.env # "backtest" /\ parseCredential /\ ~ExecutorRefuses(call)

\* external: how much the venue may execute of an order. It takes no negative quantity,
\* a reduce-only order only closes, and spot sells no more than there is.
Executable(c) ==
  {n \in 0..c.qty :
     /\ Abs(held + Signed(n)) <= MaxHeld
     /\ c.reduce => Abs(held + Signed(n)) = Abs(held) - n
     /\ route.market = "spot" => held + Signed(n) >= 0}

SendOrder ==
  /\ ReachesVenue
  /\ \E n \in Executable(BinanceContract(call)) :
       /\ sent' = [BinanceContract(call) EXCEPT !.done = n]
       /\ held' = held + Signed(n)
  /\ pc' = "answer"
  /\ UNCHANGED <<route, wallet, call, seen, lookups, out>>

\* The venue refuses the order, or no answer arrives.
RefusedByVenue ==
  /\ ReachesVenue
  /\ \E o \in {FailedOrder("VENUE"), UnknownOrder} : Conclude(o)
  /\ UNCHANGED <<route, wallet, held>>

AnswerLost ==
  /\ pc = "answer"
  /\ LeaveOpen(UnknownOrder)
  /\ UNCHANGED <<route, wallet, held>>

\* external: the status and the fills of an answer; the fills may be late or garbled.
StatusOf(c) == IF c.done = 0 THEN "NEW" ELSE IF c.done = c.qty THEN "FILLED" ELSE "PARTIALLY_FILLED"
FillLists == {<<>>} \cup {<<a>> : a \in Unreadable..2} \cup {<<a, b>> : a \in Unreadable..2, b \in 1..1}

AnswerSpot ==
  /\ pc = "answer" /\ route.market = "spot"
  /\ \E executed \in {Unreadable, sent.done}, fills \in IF sent.done = 0 THEN {<<>>} ELSE FillLists :
       Conclude(spotOrderResult([status |-> StatusOf(sent), executed |-> executed, fills |-> fills]))
  /\ UNCHANGED <<route, wallet, held>>

\* The futures answer carries no fills: they are looked up, a few times.
AnswerFutures ==
  /\ pc = "answer" /\ route.market = "perpetual"
  /\ \/ Finish(FailedOrder("EXECUTED_QTY"))
     \/ sent.done = 0 /\ Finish(Outcome("result", "", StatusOf(sent), 0, <<>>, FALSE))
     \/ sent.done > 0 /\ pc' = "trades" /\ lookups' = 0 /\ UNCHANGED <<call, seen, sent, out>>
  /\ UNCHANGED <<route, wallet, held>>

Pending == Outcome("result", "", StatusOf(sent), sent.done, <<>>, TRUE)

queryTrades(trades) == \A i \in DOMAIN trades : trades[i] >= 0

\* One round of the lookup; an unreadable trade is an error of the round.
queryTradesUntilComplete ==
  /\ pc = "trades"
  /\ \E trades \in FillLists :
       IF queryTrades(trades) /\ totalFillQty(trades) >= sent.done
       THEN Finish(Outcome("result", "", StatusOf(sent), sent.done, trades, FALSE))
       ELSE IF lookups + 1 < MaxLookups
       THEN lookups' = lookups + 1 /\ UNCHANGED <<pc, call, seen, sent, out>>
       ELSE LeaveOpen(Pending)
  /\ UNCHANGED <<route, wallet, held>>

\* The caller's context ends between two rounds.
LookupCancelled ==
  /\ pc = "trades" /\ lookups > 0
  /\ LeaveOpen(Pending) /\ UNCHANGED <<route, wallet, held>>

\* external: the venue goes on with an order that rests or is partly executed.
VenueExecutes ==
  /\ pc \in {"open", "state"} /\ sent # NotSent
  /\ \E n \in Executable([sent EXCEPT !.qty = @ - sent.done]) \ {0} :
       sent' = [sent EXCEPT !.done = @ + n] /\ held' = held + Signed(n)
  /\ UNCHANGED <<pc, route, wallet, call, seen, lookups, out>>

\* Resolve, first read: the order's state. A venue that never got the order says so.
QueryOrder ==
  /\ pc = "open" /\ route.env # "backtest"
  /\ \/ sent = NotSent /\ Finish(FailedOrder("ABSENT"))
     \/ /\ sent # NotSent
        /\ pc' = "state" /\ out' = Outcome("state", "", StatusOf(sent), sent.done, <<>>, FALSE)
        /\ UNCHANGED <<call, seen, sent, lookups>>
  /\ UNCHANGED <<route, wallet, held>>

\* The read fails, its quantities are unreadable, or the route is simulated and keeps no
\* order state: the attempt becomes RECOVERY_FAILED.
ResolveFails ==
  /\ pc = "open"
  /\ Finish(Outcome("unresolved", "", "", 0, <<>>, FALSE))
  /\ UNCHANGED <<route, wallet, held>>

\* Second read: the trades. The futures reader asks for the state again, and returns trades
\* only when they cover what is executed by then; spot takes the list as it is.
QueryTrades ==
  /\ pc = "state"
  /\ \E trades \in IF sent.done = 0 THEN {<<>>} ELSE FillLists :
       LET readable == IF route.market = "spot" THEN spotFills(trades)
                       ELSE queryTrades(trades) /\ totalFillQty(trades) >= sent.done
       IN Finish(fromAdapterOrderState(out, readable, trades))
  /\ UNCHANGED <<route, wallet, held>>

\* UpsertVenueWalletState by the strategy runtime, from what the venue holds.
SaveWallet ==
  /\ \E w \in Wallets : w.qty = held /\ wallet' = w
  /\ UNCHANGED <<pc, route, held, call, seen, sent, lookups, out>>

Next ==
  \/ PlaceOrder \/ Return
  \/ ReviewRisk \/ ReviewFails \/ RefuseOrder \/ ExecuteSimulated
  \/ SendOrder \/ RefusedByVenue \/ AnswerLost \/ AnswerSpot \/ AnswerFutures
  \/ queryTradesUntilComplete \/ LookupCancelled
  \/ QueryOrder \/ ResolveFails \/ QueryTrades \/ VenueExecutes \/ SaveWallet

Spec == Init /\ [][Next]_vars

-----------------------------------------------------------------------------
(* Properties. *)

\* The three layers that judge an order (service contract, capability review, executor
\* contract) agree: an order that passed the first two is refused by the third only for
\* its good_till_date, which neither the service nor the gate compares with the time in
\* force, post_only or the clock.
ContractsAgree ==
  pc = "execute" /\ ExecutorRefuses(call) => call.till # "none"

\* A reduce_only order never opens, enlarges or turns a position around. Live futures are
\* safe even when the stored wallet is stale, because the venue gets the flag; spot,
\* because the gate lets a reduce_only order only sell. The simulated executor knows no
\* reduce_only: there it is the gate alone, and only as good as the wallet it read.
ReduceOnlyShrinks ==
  [][call.reduce /\ (route.env = "backtest" => seen = held)
       => \/ held' = held
          \/ held > 0 /\ held' \in 0..held - 1
          \/ held < 0 /\ held' \in held + 1..0]_vars

\* What a call reports of an execution is what the venue executed, and the fills it hands
\* to the ledger account for all of it; otherwise the result is marked FillPending and
\* recovery fetches them. Garbled, missing, short or excessive fills of a spot answer, late
\* futures trades and an order that goes on between recovery's two reads never pass for a
\* complete execution.
FillsExplainExecution ==
  [][LET total == totalFillQty(out'.fills)
         done == IF pc = "execute" THEN Abs(held' - held) ELSE sent.done
     IN pc \in {"execute", "answer", "trades", "state"} /\ out'.kind = "result" /\ ~out'.pending
          => IF pc = "state"
             THEN out'.executed <= done /\ (out'.executed > 0 => total = out'.executed)
             ELSE /\ out'.executed = done /\ total >= done
                  /\ (pc # "trades" => total = done)]_vars

=============================================================================
