--------------------------- MODULE OrderRulesProofs ---------------------------
(***************************************************************************)
(* Proofs about what one PlaceOrder call decides, for any quantities,      *)
(* prices, wallets and venue rules. The invariant says what each layer may *)
(* rely on from the layers before it:                                      *)
(*                                                                         *)
(*   StageOK      where the call is, and what is known of it by then;      *)
(*   AcceptedInv  what the service's contract has let through;             *)
(*   JudgedInv    what the gate has let through, and on which position;    *)
(*   SentInv      what the venue was sent, and what it may still execute;  *)
(*   ReadInv      what recovery's first read is worth at its second.       *)
(***************************************************************************)
EXTENDS OrderRules, TLAPS

Stages == {"idle", "review", "execute", "answer", "trades", "open", "state", "done"}

\* What the venue may have been sent.
SentOrders ==
  [type : {"none", "MARKET", "LIMIT", "LIMIT_MAKER"}, tif : TimesInForce \cup {"GTX"},
   price : Int, reduce : BOOLEAN, qty : Int, done : Nat]

\* Nothing is told before the call has an outcome, nothing is at the venue before it is sent.
StageOK ==
  /\ pc \in Stages /\ route \in Routes /\ wallet \in Wallets /\ held \in Int /\ sent \in SentOrders
  /\ pc \in {"idle", "review", "execute", "answer", "trades"} => out = NoOutcome
  /\ pc \in {"idle", "review", "execute", "done"} => sent = NotSent

\* The fields of a request that was taken.
CallFields(r) ==
  /\ r.price \in Int /\ r.qty \in Int /\ r.mark \in Nat
  /\ r.reduce \in BOOLEAN /\ r.post \in BOOLEAN
  /\ r.side \in {"BUY", "SELL"} /\ r.till \in TillDates
  /\ r.type \in {"MARKET", "LIMIT"} /\ r.tif \in TimesInForce

\* What normalizeOrderContract and validatePositionSide let through.
Accepted(r) ==
  /\ CallFields(r)
  /\ r.type = "MARKET" => MarketOnly(r)
  /\ r.type = "LIMIT" => r.price > 0 /\ r.tif \in {"GTC", "IOC", "FOK", "GTD"}
  /\ r.tif = "GTD" => r.till # "none"
  /\ route.market # "spot" => route.mode # "hedge"
AcceptedInv == pc \in {"review", "execute"} => Accepted(call)

\* The position the gate saw covers a reduce_only order.
Covered(r) ==
  /\ Abs(r.qty) <= Abs(seen)
  /\ r.side = "SELL" => seen >= 0
  /\ r.side = "BUY" => seen <= 0
JudgedInv ==
  pc = "execute" =>
    /\ validateCapability(call)
    /\ seen \in Int
    /\ call.reduce => Covered(call)

\* Past the gate a spot order does not buy to reduce, and what is sent keeps the flag.
SentInv ==
  pc \in {"execute", "answer", "trades", "open", "state"} =>
    /\ CallFields(call)
    /\ route.market \in {"spot", "perpetual"}
    /\ route.market = "spot" => ~(call.reduce /\ call.side = "BUY")
    /\ sent # NotSent => sent.reduce = (route.market = "perpetual" /\ call.reduce)

\* An order only executes further between recovery's two reads.
VenueStatuses == {"NEW", "PARTIALLY_FILLED", "FILLED"}
ReadInv ==
  pc = "state" => /\ sent # NotSent
                  /\ \E st \in VenueStatuses, n \in 0..sent.done :
                       out = Outcome("state", "", st, n, <<>>, FALSE)

RulesInv == StageOK /\ AcceptedInv /\ JudgedInv /\ SentInv /\ ReadInv

-----------------------------------------------------------------------------
(* Lemmas about the operators. *)

\* No fills add up to nothing.
LEMMA TotalNone == totalFillQty(<<>>) = 0
<1> DEFINE Sums(f) == f = [s \in SUBSET {} |-> IF s = {} THEN 0
                             ELSE LET x == CHOOSE x \in s : TRUE IN (<<>>[x]) + f[s \ {x}]]
<1>1. Sums([s \in SUBSET {} |-> 0]) BY Zenon
<1>2. \A f : Sums(f) => f[{}] = 0 OBVIOUS
<1>3. DOMAIN <<>> = {} OBVIOUS
<1>4. totalFillQty(<<>>) = (CHOOSE f : Sums(f))[{}]
  BY <1>3, Zenon DEF totalFillQty, FoldSeq, FoldFunction, FoldFunctionOnSet, MapThenFoldSet
<1> QED BY <1>1, <1>2, <1>4

\* One fill adds up to itself.
LEMMA TotalOne ==
  ASSUME NEW n \in Int
  PROVE  totalFillQty(<<n>>) = n
<1> DEFINE Sums(f) == f = [s \in SUBSET {1} |-> IF s = {} THEN 0
                             ELSE LET x == CHOOSE x \in s : TRUE IN (<<n>>[x]) + f[s \ {x}]]
           sum == [s \in SUBSET {1} |-> IF s = {} THEN 0 ELSE n]
<1>1. \A s \in SUBSET {1} : s # {} =>
        s = {1} /\ (CHOOSE x \in s : TRUE) = 1 /\ s \ {CHOOSE x \in s : TRUE} = {}
  OBVIOUS
<1>2. Sums(sum)
  <2>1. \A s \in SUBSET {1} : sum[s] = IF s = {} THEN 0
                                       ELSE LET x == CHOOSE x \in s : TRUE IN (<<n>>[x]) + sum[s \ {x}]
    BY <1>1
  <2> QED BY <2>1
<1>3. \A f : Sums(f) => f[{1}] = n BY <1>1
<1>4. DOMAIN <<n>> = {1} OBVIOUS
<1>5. totalFillQty(<<n>>) = (CHOOSE f : Sums(f))[{1}]
  BY <1>4, Zenon DEF totalFillQty, FoldSeq, FoldFunction, FoldFunctionOnSet, MapThenFoldSet
<1> QED BY <1>2, <1>3, <1>5

\* Absolute values.
LEMMA AbsType ==
  ASSUME NEW n \in Int
  PROVE  Abs(n) \in Nat /\ (Abs(n) = n \/ Abs(n) = -n)
  BY DEF Abs

\* The placeholder is typed like an order that was sent.
LEMMA NotSentType == NotSent \in SentOrders
<1>1. NoPrice \in Int BY DEF NoPrice
<1> QED BY <1>1 DEF NotSent, SentOrders, TimesInForce

\* So is the order as it is sent, and it keeps the reduce_only flag on futures.
LEMMA ContractType ==
  ASSUME NEW r, CallFields(r)
  PROVE  /\ BinanceContract(r) \in SentOrders
         /\ BinanceContract(r).qty \in Int
         /\ BinanceContract(r).reduce = (route.market = "perpetual" /\ r.reduce)
<1>1. r.qty \in Int /\ Abs(r.qty) \in Int /\ r.price \in Int /\ NoPrice \in Int
  BY AbsType DEF CallFields, NoPrice
<1>2. (IF route.market = "spot" THEN Abs(r.qty) ELSE r.qty) \in Int BY <1>1
<1>3. (IF r.type = "LIMIT" THEN r.price ELSE NoPrice) \in Int BY <1>1
<1>4. (route.market = "perpetual" /\ r.reduce) \in BOOLEAN OBVIOUS
<1>5. (IF r.post /\ route.market = "spot" THEN "LIMIT_MAKER" ELSE r.type) \in {"none", "MARKET", "LIMIT", "LIMIT_MAKER"}
  BY DEF CallFields
<1>6. (IF ~r.post THEN r.tif ELSE IF route.market = "spot" THEN "" ELSE "GTX") \in TimesInForce \cup {"GTX"}
  BY DEF CallFields, TimesInForce
<1>7. BinanceContract(r).qty \in Int BY <1>2 DEF BinanceContract
<1>8. BinanceContract(r).reduce = (route.market = "perpetual" /\ r.reduce) BY DEF BinanceContract
<1>9. BinanceContract(r) \in SentOrders
  BY <1>2, <1>3, <1>4, <1>5, <1>6 DEF BinanceContract, SentOrders
<1> QED BY <1>7, <1>8, <1>9

\* A wallet's figures.
LEMMA WalletType ==
  ASSUME StageOK
  PROVE  wallet.qty \in Int /\ wallet.locked \in Nat /\ wallet.quote \in Nat
  BY RulesConstants DEF StageOK

\* Only routes of Binance's two markets have a capability provider.
LEMMA ProviderMarket ==
  ASSUME route \in Routes, "order_capability_provider" \in Capabilities
  PROVE  route.market \in {"spot", "perpetual"}
<1>1. route \in registerExchangeFactories /\ route.exchange # "okx"
  BY DEF Capabilities, OkxFactory
<1> QED BY <1>1 DEF registerExchangeFactories

\* What the service's contract lets through is well-formed.
LEMMA NormalisedAccepted ==
  ASSUME NEW c \in Contracts, NEW t \in Terms,
         normalizeOrderContract(c) = "ok", validatePositionSide(c)
  PROVE  Accepted(Normalised(c, t))
<1> DEFINE r == Normalised(c, t)
<1>1. /\ c.price \in Int /\ c.till \in TillDates /\ c.post \in BOOLEAN
      /\ t.qty \in Int /\ t.mark \in Nat /\ t.reduce \in BOOLEAN /\ t.side \in {"BUY", "SELL"}
  <2>1. c.price \in Prices \cup {NoPrice} /\ c.till \in TillDates /\ c.post \in BOOLEAN
    BY DEF Contracts
  <2>2. t.qty \in Qtys /\ t.mark \in MarkPrices /\ t.reduce \in BOOLEAN /\ t.side \in {"BUY", "SELL"}
    BY DEF Terms
  <2>3. NoPrice \in Int BY DEF NoPrice
  <2>4. Prices \subseteq Int /\ Qtys \subseteq Int /\ MarkPrices \subseteq Nat BY RulesConstants
  <2>5. c.price \in Int /\ t.qty \in Int /\ t.mark \in Nat
    BY <2>1, <2>2, <2>3, <2>4, Zenon
  <2> QED BY <2>1, <2>2, <2>5, Zenon
<1>2. CallFields(r)
  <2>1. c.tif \in TimesInForce BY DEF Contracts
  <2>2. timeInForceOf(c) \in TimesInForce BY <2>1 DEF timeInForceOf, TimesInForce
  <2>3. orderTypeOf(c) \in {"MARKET", "LIMIT"} BY DEF normalizeOrderContract
  <2> QED BY <1>1, <2>2, <2>3 DEF CallFields, Normalised
<1>3. orderTypeOf(c) \in {"MARKET", "LIMIT"} BY DEF normalizeOrderContract
<1>4. CASE orderTypeOf(c) = "MARKET"
  BY <1>2, <1>4
  DEF normalizeOrderContract, MarketOnly, timeInForceOf, Accepted, Normalised, validatePositionSide
<1>5. CASE orderTypeOf(c) = "LIMIT"
  <2>1. /\ ~(c.price <= 0)
        /\ ~(c.tif = "GTD" /\ c.till = "none")
        /\ timeInForceOf(c) \in {"GTC", "IOC", "FOK", "GTD"}
    BY <1>5 DEF normalizeOrderContract
  <2>2. timeInForceOf(c) = "GTD" => c.tif = "GTD" BY DEF timeInForceOf
  <2>3. /\ r.type = "LIMIT" /\ r.tif = timeInForceOf(c) /\ r.price = c.price /\ r.till = c.till
    BY <1>5 DEF Normalised
  <2>4. c.price > 0 BY <1>1, <2>1
  <2> QED BY <1>2, <2>1, <2>2, <2>3, <2>4 DEF Accepted, validatePositionSide
<1> QED BY <1>3, <1>4, <1>5

\* What the gate lets through is covered by the position it saw.
LEMMA ReviewCovers ==
  ASSUME StageOK, NEW rules, Accepted(call), Review(call, rules),
         route.market \in {"spot", "perpetual"}, seen' = wallet.qty, call' = call
  PROVE  /\ validateCapability(call)
         /\ call.reduce => Covered(call)'
         /\ route.market = "spot" => ~(call.reduce /\ call.side = "BUY")
<1>1. wallet.qty \in Int /\ wallet.locked \in Nat BY WalletType
<1>2. call.qty \in Int /\ call.side \in {"BUY", "SELL"} BY DEF Accepted, CallFields
<1>3. validateCapability(call) BY DEF Review
<1>4. CASE route.market = "spot"
  <2>1. ~(call.reduce /\ call.side = "BUY") /\ (call.side = "SELL" => wallet.qty - wallet.locked >= Abs(call.qty))
    BY <1>4 DEF Review, validateSpotBalance, availableBalance
  <2> QED BY <1>1, <1>2, <1>3, <2>1 DEF Covered, Abs
<1>5. CASE route.market # "spot"
  <2>1. call.reduce => validateFuturesReduceOnly(call)
    BY <1>5 DEF Review, validateFuturesBalance
  <2> QED BY <1>1, <1>2, <1>3, <1>5, <2>1 DEF Covered, Abs, validateFuturesReduceOnly
<1> QED BY <1>4, <1>5

-----------------------------------------------------------------------------
(* Every step keeps the invariant. *)

\* A call that is over leaves nothing behind but its outcome.
LEMMA FinishKeeps ==
  ASSUME RulesInv, NEW o, Finish(o), route' = route, wallet' \in Wallets, held' \in Int
  PROVE  RulesInv'
  BY NotSentType DEF RulesInv, StageOK, AcceptedInv, JudgedInv, SentInv, ReadInv, Finish, Stages

\* A call that is left open keeps what is known of its order.
LEMMA LeaveOpenKeeps ==
  ASSUME RulesInv, pc \in {"execute", "answer", "trades"}, NEW o, LeaveOpen(o),
         route' = route, wallet' \in Wallets, held' \in Int
  PROVE  RulesInv'
  BY DEF RulesInv, StageOK, AcceptedInv, JudgedInv, SentInv, ReadInv, LeaveOpen, Stages, CallFields

\* So does a call that is concluded either way.
LEMMA ConcludeKeeps ==
  ASSUME RulesInv, pc \in {"execute", "answer", "trades"}, NEW o, Conclude(o),
         route' = route, wallet' \in Wallets, held' \in Int
  PROVE  RulesInv'
  BY FinishKeeps, LeaveOpenKeeps DEF Conclude

\* A request that is taken is well-formed.
LEMMA PlaceOrderKeeps ==
  ASSUME RulesInv, PlaceOrder
  PROVE  RulesInv'
<1>1. PICK c \in Contracts :
        \/ RefuseSession(c)
        \/ \E qty \in Qtys : RefuseRequest(c, qty) \/ recordOrderContractFailure(c, qty)
        \/ TakeRequest(c)
  BY DEF PlaceOrder
<1>2. route \in Routes /\ wallet \in Wallets /\ held \in Int /\ pc = "idle"
  BY DEF RulesInv, StageOK, PlaceOrder
<1>3. CASE \/ RefuseSession(c)
           \/ \E qty \in Qtys : RefuseRequest(c, qty) \/ recordOrderContractFailure(c, qty)
  BY <1>2, <1>3, FinishKeeps DEF RefuseSession, RefuseRequest, recordOrderContractFailure
<1>4. CASE TakeRequest(c)
  <2>1. PICK t \in Terms : call' = Normalised(c, t) BY <1>4 DEF TakeRequest
  <2>2. Accepted(Normalised(c, t)) BY <1>4, NormalisedAccepted DEF TakeRequest
  <2>3. /\ pc' = "review" /\ UNCHANGED <<route, wallet, held, sent, out>>
    BY <1>4 DEF TakeRequest
  <2>4. StageOK' BY <1>2, <2>3 DEF RulesInv, StageOK, Stages
  <2>5. Accepted(call)' BY <2>1, <2>2, <2>3 DEF Accepted, CallFields, MarketOnly
  <2> QED BY <2>3, <2>4, <2>5 DEF RulesInv, AcceptedInv, JudgedInv, SentInv, ReadInv
<1> QED BY <1>1, <1>3, <1>4

\* An order the gate lets through has been judged.
LEMMA ReviewKeeps ==
  ASSUME RulesInv, ReviewRisk
  PROVE  RulesInv'
<1> USE DEF RulesInv
<1>1. PICK rules \in ReadSymbolRules :
        IF Review(call, rules)
        THEN pc' = "execute" /\ seen' = wallet.qty /\ UNCHANGED <<call, sent, lookups, out>>
        ELSE Finish(Outcome("rejected", "RISK", "", 0, <<>>, FALSE))
  BY DEF ReviewRisk
<1>2. /\ pc = "review" /\ UNCHANGED <<route, wallet, held>>
      /\ route.market \in {"spot", "perpetual"}
      /\ Accepted(call)
  BY ProviderMarket DEF ReviewRisk, StageOK, AcceptedInv
<1>3. CASE Review(call, rules)
  <2>1. pc' = "execute" /\ seen' = wallet.qty /\ UNCHANGED <<call, sent, out>> BY <1>1, <1>3
  <2>2. /\ validateCapability(call)
        /\ call.reduce => Covered(call)'
        /\ route.market = "spot" => ~(call.reduce /\ call.side = "BUY")
    BY <1>2, <1>3, <2>1, ReviewCovers
  <2>3. StageOK' BY <1>2, <2>1 DEF StageOK, Stages
  <2>4. Accepted(call)' BY <1>2, <2>1 DEF Accepted, CallFields, MarketOnly
  <2>5. JudgedInv'
    BY <1>2, <2>1, <2>2, WalletType DEF JudgedInv, validateCapability, OrderCapability, SupportsGTD, MarketOnly
  <2>6. SentInv'
    <3>1. sent' = NotSent BY <1>2, <2>1 DEF StageOK
    <3> QED BY <1>2, <2>1, <2>2, <2>4, <3>1 DEF SentInv, Accepted
  <2> QED BY <2>1, <2>3, <2>4, <2>5, <2>6 DEF AcceptedInv, ReadInv
<1>4. CASE ~Review(call, rules)
  BY <1>1, <1>2, <1>4, FinishKeeps DEF StageOK
<1> QED BY <1>3, <1>4

\* What the venue gets is the order as judged.
LEMMA SendKeeps ==
  ASSUME RulesInv, SendOrder
  PROVE  RulesInv'
<1> USE DEF RulesInv
<1>1. /\ pc = "execute" /\ pc' = "answer"
      /\ UNCHANGED <<route, wallet, call, seen, out>>
      /\ CallFields(call)
  BY DEF SendOrder, ReachesVenue, SentInv
<1>2. PICK n \in Executable(BinanceContract(call)) :
        /\ sent' = [BinanceContract(call) EXCEPT !.done = n]
        /\ held' = held + Signed(n)
  BY DEF SendOrder
<1>3. n \in Nat
  <2>1. n \in 0..BinanceContract(call).qty BY <1>2 DEF Executable
  <2> QED BY <1>1, <2>1, ContractType
<1>4. held' \in Int BY <1>2, <1>3 DEF Signed, StageOK
<1>5. sent' \in SentOrders /\ sent'.reduce = (route.market = "perpetual" /\ call.reduce)
  BY <1>1, <1>2, <1>3, ContractType DEF SentOrders
<1>6. StageOK' BY <1>1, <1>4, <1>5 DEF StageOK, Stages
<1>7. SentInv' BY <1>1, <1>5 DEF SentInv, CallFields
<1> QED BY <1>1, <1>6, <1>7 DEF AcceptedInv, JudgedInv, ReadInv

\* An order that goes on at the venue only grows in what it executed.
LEMMA VenueKeeps ==
  ASSUME RulesInv, VenueExecutes
  PROVE  RulesInv'
<1> USE DEF RulesInv
<1>1. /\ pc \in {"open", "state"} /\ sent # NotSent
      /\ UNCHANGED <<pc, route, wallet, call, seen, out>>
      /\ sent \in SentOrders
  BY DEF VenueExecutes, StageOK
<1>2. PICK n \in Executable([sent EXCEPT !.qty = @ - sent.done]) \ {0} :
        sent' = [sent EXCEPT !.done = @ + n] /\ held' = held + Signed(n)
  BY DEF VenueExecutes
<1>3. n \in Nat /\ n > 0
  <2>1. [sent EXCEPT !.qty = @ - sent.done].qty \in Int BY <1>1 DEF SentOrders
  <2> QED BY <1>2, <2>1 DEF Executable
<1>4. held' \in Int BY <1>2, <1>3 DEF Signed, StageOK
<1>5. /\ sent' \in SentOrders /\ sent'.reduce = sent.reduce /\ sent'.done = sent.done + n
      /\ sent.done \in Nat
  <2>1. sent.done \in Nat /\ sent.done + n \in Nat BY <1>1, <1>3 DEF SentOrders
  <2> QED BY <1>1, <1>2, <2>1 DEF SentOrders
<1>6. sent' # NotSent
  <2>1. sent'.done # 0 BY <1>3, <1>5
  <2>2. NotSent.done = 0 BY DEF NotSent
  <2> QED BY <2>1, <2>2
<1>7. StageOK' BY <1>1, <1>4, <1>5 DEF StageOK
<1>8. SentInv' BY <1>1, <1>5 DEF SentInv, CallFields
<1>9. ReadInv'
  <2>1. \A m \in 0..sent.done : m \in 0..sent'.done BY <1>3, <1>5
  <2> QED BY <1>1, <1>6, <2>1 DEF ReadInv
<1> QED BY <1>1, <1>7, <1>8, <1>9 DEF AcceptedInv, JudgedInv

\* Every step keeps the invariant.
LEMMA RulesStep == RulesInv /\ [Next]_vars => RulesInv'
<1> SUFFICES ASSUME RulesInv, [Next]_vars PROVE RulesInv'
  OBVIOUS
<1>1. route \in Routes /\ wallet \in Wallets /\ held \in Int /\ sent \in SentOrders
  BY DEF RulesInv, StageOK
<1>2. CASE PlaceOrder BY <1>2, PlaceOrderKeeps
<1>3. CASE ReviewRisk BY <1>3, ReviewKeeps
<1>4. CASE SendOrder BY <1>4, SendKeeps
<1>5. CASE VenueExecutes BY <1>5, VenueKeeps
<1>6. CASE Return
  BY <1>6, NotSentType DEF Return, RulesInv, StageOK, AcceptedInv, JudgedInv, SentInv, ReadInv, Stages
<1>7. CASE ReviewFails \/ RefuseOrder \/ ResolveFails
  BY <1>1, <1>7, FinishKeeps DEF ReviewFails, RefuseOrder, ResolveFails
<1>8. CASE ExecuteSimulated
  <2>1. SimulatedOrder(call).executed \in Int
    <3>1. CallFields(call) BY <1>8 DEF ExecuteSimulated, RulesInv, SentInv
    <3> QED BY <3>1
        DEF CallFields, SimulatedOrder, placeSimulatedLimitOrder, MatchBacktestLimitGTC, UnknownOrder, Outcome, Abs
  <2>2. held' = held + Signed(SimulatedOrder(call).executed) /\ Conclude(SimulatedOrder(call))
    BY <1>8 DEF ExecuteSimulated
  <2>3. held' \in Int BY <1>1, <2>1, <2>2 DEF Signed
  <2> QED BY <1>1, <1>8, <2>2, <2>3, ConcludeKeeps DEF ExecuteSimulated
<1>9. CASE RefusedByVenue \/ AnswerLost \/ AnswerSpot
  BY <1>1, <1>9, ConcludeKeeps, LeaveOpenKeeps DEF RefusedByVenue, ReachesVenue, AnswerLost, AnswerSpot
<1>10. CASE AnswerFutures
  <2>1. CASE pc' = "trades" /\ UNCHANGED <<call, seen, sent, out>>
    BY <1>10, <2>1
    DEF AnswerFutures, RulesInv, StageOK, AcceptedInv, JudgedInv, SentInv, ReadInv, Stages, CallFields
  <2>2. CASE \E o : Finish(o)
    BY <1>1, <1>10, <2>2, FinishKeeps DEF AnswerFutures
  <2> QED BY <1>10, <2>1, <2>2 DEF AnswerFutures
<1>11. CASE queryTradesUntilComplete
  <2>1. CASE UNCHANGED <<pc, call, seen, sent, out>>
    BY <1>11, <2>1
    DEF queryTradesUntilComplete, RulesInv, StageOK, AcceptedInv, JudgedInv, SentInv, ReadInv, Stages, CallFields
  <2>2. CASE \E o : Finish(o) \/ LeaveOpen(o)
    BY <1>1, <1>11, <2>2, FinishKeeps, LeaveOpenKeeps DEF queryTradesUntilComplete
  <2> QED BY <1>11, <2>1, <2>2 DEF queryTradesUntilComplete
<1>12. CASE LookupCancelled
  BY <1>1, <1>12, LeaveOpenKeeps DEF LookupCancelled
<1>13. CASE QueryOrder
  <2>1. CASE pc' = "state" /\ sent # NotSent /\ UNCHANGED <<call, seen, sent>>
                /\ out' = Outcome("state", "", StatusOf(sent), sent.done, <<>>, FALSE)
    <3>1. sent.done \in 0..sent.done /\ StatusOf(sent) \in VenueStatuses
      BY <1>1 DEF SentOrders, StatusOf, VenueStatuses
    <3> QED BY <1>13, <2>1, <3>1
        DEF QueryOrder, RulesInv, StageOK, AcceptedInv, JudgedInv, SentInv, ReadInv, Stages, CallFields
  <2>2. CASE Finish(FailedOrder("ABSENT"))
    BY <1>1, <1>13, <2>2, FinishKeeps DEF QueryOrder
  <2> QED BY <1>13, <2>1, <2>2 DEF QueryOrder
<1>14. CASE QueryTrades
  BY <1>1, <1>14, FinishKeeps DEF QueryTrades
<1>15. CASE SaveWallet \/ UNCHANGED vars
  <2>1. wallet' \in Wallets /\ UNCHANGED <<pc, route, held, call, seen, sent, out>>
    BY <1>1, <1>15 DEF SaveWallet, vars
  <2> QED BY <2>1
      DEF RulesInv, StageOK, AcceptedInv, JudgedInv, SentInv, ReadInv, Accepted, CallFields, MarketOnly,
          Covered, validateCapability, OrderCapability, SupportsGTD
<1> QED BY <1>2, <1>3, <1>4, <1>5, <1>6, <1>7, <1>8, <1>9, <1>10, <1>11, <1>12, <1>13, <1>14, <1>15 DEF Next

\* Before the first call nothing is known and nothing is sent.
LEMMA RulesInit == Init => RulesInv
<1> SUFFICES ASSUME Init PROVE RulesInv
  OBVIOUS
<1>1. wallet \in Wallets /\ held = wallet.qty /\ route \in Routes BY DEF Init
<1>2. held \in Int BY <1>1, RulesConstants
<1> QED BY <1>1, <1>2, NotSentType
    DEF Init, RulesInv, StageOK, AcceptedInv, JudgedInv, SentInv, ReadInv, Stages

\* The invariant holds in every reachable state of a call.
THEOREM RulesInductive == Spec => []RulesInv
<1>1. Init => RulesInv BY RulesInit
<1>2. RulesInv /\ [Next]_vars => RulesInv' BY RulesStep
<1> QED BY <1>1, <1>2, PTL DEF Spec

-----------------------------------------------------------------------------
(* What the invariant gives. *)

\* What passed contract and gate is refused by the executor for its good_till_date alone.
LEMMA LayersAgree ==
  ASSUME NEW r, Accepted(r), validateCapability(r), r.till = "none",
         route.market \in {"spot", "perpetual"},
         route.market = "spot" => ~(r.reduce /\ r.side = "BUY")
  PROVE  ~ExecutorRefuses(r)
<1>1. /\ r.type \in {"MARKET", "LIMIT"} /\ r.tif # "GTD" /\ r.price \in Int
      /\ r.type = "MARKET" => MarketOnly(r)
      /\ r.type = "LIMIT" => r.price > 0 /\ r.tif \in {"GTC", "IOC", "FOK"}
      /\ ~(r.post /\ r.tif \in {"IOC", "FOK", "GTD"})
  BY DEF Accepted, CallFields, validateCapability
<1>2. r.type = "MARKET" => r.tif = "" BY <1>1 DEF MarketOnly
<1>3. ~(r.type = "LIMIT" /\ r.price <= 0) BY <1>1
<1>4. ~normalizeBinanceOrderContract(r, SupportsGTD)
  BY <1>1, <1>2, <1>3 DEF normalizeBinanceOrderContract
<1>5. ~normalizeBinanceFuturesOrderContract(r)
  BY <1>1, <1>3 DEF normalizeBinanceFuturesOrderContract
<1>6. route.market = "perpetual" => ~normalizeBinanceOrderSide
  BY DEF Accepted, normalizeBinanceOrderSide
<1> QED BY <1>4, <1>5, <1>6 DEF ExecutorRefuses

\* The three layers that judge an order agree, but for its good_till_date.
THEOREM ContractsAgreeHolds == Spec => []ContractsAgree
<1>1. RulesInv => ContractsAgree
  <2> SUFFICES ASSUME RulesInv, pc = "execute", call.till = "none" PROVE ~ExecutorRefuses(call)
    BY DEF ContractsAgree
  <2> QED BY LayersAgree DEF RulesInv, AcceptedInv, JudgedInv, SentInv
<1> QED BY <1>1, RulesInductive, PTL

\* What shrinking a position means.
Shrinks == \/ held' = held
           \/ held > 0 /\ held' \in 0..held - 1
           \/ held < 0 /\ held' \in held + 1..0

\* Selling no more than is held, or buying back no more than is owed, shrinks.
LEMMA CoveredShrinks ==
  ASSUME held \in Int, call.side \in {"BUY", "SELL"}, NEW n \in Nat,
         held' = held + Signed(n), n <= Abs(held),
         call.side = "SELL" => held >= 0,
         call.side = "BUY" => held <= 0
  PROVE  Shrinks
  BY DEF Shrinks, Signed, Abs

\* So does what the venue executes of a reduce_only order, flagged or a spot sale.
LEMMA VenueShrinks ==
  ASSUME RulesInv, pc \in {"execute", "open", "state"}, call.reduce,
         NEW n \in Nat, held' = held + Signed(n),
         route.market = "perpetual" => Abs(held + Signed(n)) = Abs(held) - n,
         route.market = "spot" => held + Signed(n) >= 0
  PROVE  Shrinks
<1>1. /\ held \in Int /\ call.side \in {"BUY", "SELL"}
      /\ route.market \in {"spot", "perpetual"}
      /\ route.market = "spot" => call.side = "SELL"
  BY DEF RulesInv, StageOK, SentInv, CallFields
<1>2. CASE route.market = "spot"
  <2>1. held' = held - n /\ held - n >= 0 BY <1>1, <1>2 DEF Signed
  <2> QED BY <1>1, <2>1 DEF Shrinks
<1>3. CASE route.market = "perpetual"
  <2>1. held' = held + n \/ held' = held - n BY DEF Signed
  <2>2. Abs(held') = Abs(held) - n BY <1>3
  <2> QED BY <1>1, <2>1, <2>2 DEF Shrinks, Abs
<1> QED BY <1>1, <1>2, <1>3

\* A reduce_only order shrinks the position or leaves it, at the simulator if the gate saw
\* the position as it is.
THEOREM ReduceOnlyShrinksHolds == Spec => ReduceOnlyShrinks
<1> DEFINE Reduces == call.reduce /\ (route.env = "backtest" => seen = held) => Shrinks
<1>1. RulesInv /\ [Next]_vars => [Reduces]_vars
  <2> SUFFICES ASSUME RulesInv, Next, call.reduce, route.env = "backtest" => seen = held PROVE Shrinks
    OBVIOUS
  <2>1. CASE held' = held BY <2>1 DEF Shrinks
  <2>2. CASE ExecuteSimulated
    <3>1. /\ pc = "execute" /\ seen = held
          /\ held' = held + Signed(SimulatedOrder(call).executed)
      BY <2>2 DEF ExecuteSimulated
    <3>2. CallFields(call) /\ Covered(call) /\ held \in Int
      BY <3>1 DEF RulesInv, JudgedInv, SentInv, StageOK
    <3>3. /\ call.qty \in Int /\ call.side \in {"BUY", "SELL"}
          /\ Abs(call.qty) \in Nat /\ Abs(call.qty) <= Abs(held)
          /\ call.side = "SELL" => held >= 0
          /\ call.side = "BUY" => held <= 0
      BY <3>1, <3>2, AbsType DEF CallFields, Covered
    <3>4. SimulatedOrder(call).executed \in {0, Abs(call.qty)}
      BY DEF SimulatedOrder, placeSimulatedLimitOrder, MatchBacktestLimitGTC, UnknownOrder, Outcome
    <3>5. 0 <= Abs(held) BY <3>2, AbsType
    <3> QED BY <3>1, <3>2, <3>3, <3>4, <3>5, CoveredShrinks
  <2>3. CASE SendOrder
    <3>1. PICK n \in Executable(BinanceContract(call)) : held' = held + Signed(n)
      BY <2>3 DEF SendOrder
    <3>2. pc = "execute" /\ CallFields(call) BY <2>3 DEF SendOrder, ReachesVenue, RulesInv, SentInv
    <3>3. n \in 0..BinanceContract(call).qty BY <3>1 DEF Executable
    <3>4. n \in Nat BY <3>2, <3>3, ContractType
    <3>5. route.market = "perpetual" => Abs(held + Signed(n)) = Abs(held) - n
      BY <3>1, <3>2, ContractType DEF Executable
    <3>6. route.market = "spot" => held + Signed(n) >= 0 BY <3>1 DEF Executable
    <3> QED BY <3>1, <3>2, <3>4, <3>5, <3>6, VenueShrinks
  <2>4. CASE VenueExecutes
    <3> DEFINE rest == [sent EXCEPT !.qty = @ - sent.done]
    <3>1. PICK n \in Executable(rest) \ {0} : held' = held + Signed(n)
      BY <2>4 DEF VenueExecutes
    <3>2. pc \in {"open", "state"} /\ sent # NotSent /\ sent \in SentOrders
      BY <2>4 DEF VenueExecutes, RulesInv, StageOK
    <3>3. rest.reduce = (route.market = "perpetual" /\ call.reduce) /\ rest.qty \in Int
      BY <3>2 DEF RulesInv, SentInv, SentOrders
    <3>4. n \in 0..rest.qty BY <3>1 DEF Executable
    <3>5. n \in Nat BY <3>3, <3>4
    <3>6. route.market = "perpetual" => Abs(held + Signed(n)) = Abs(held) - n
      BY <3>1, <3>3 DEF Executable
    <3>7. route.market = "spot" => held + Signed(n) >= 0 BY <3>1 DEF Executable
    <3> QED BY <3>1, <3>2, <3>5, <3>6, <3>7, VenueShrinks
  <2>5. held' = held \/ ExecuteSimulated \/ SendOrder \/ VenueExecutes
    BY ZenonT(30)
    DEF Next, PlaceOrder, RefuseSession, RefuseRequest, recordOrderContractFailure, TakeRequest, Return,
        ReviewRisk, ReviewFails, RefuseOrder, RefusedByVenue, AnswerLost, AnswerSpot, AnswerFutures,
        queryTradesUntilComplete, LookupCancelled, QueryOrder, ResolveFails, QueryTrades, SaveWallet
  <2> QED BY <2>1, <2>2, <2>3, <2>4, <2>5
<1> QED BY <1>1, RulesInductive, PTL DEF ReduceOnlyShrinks, Spec, Shrinks

\* What the step is to show: a complete result is explained by its fills.
Complete(o) == o.kind = "result" /\ ~o.pending
Explained ==
  LET total == totalFillQty(out'.fills)
      done == IF pc = "execute" THEN Abs(held' - held) ELSE sent.done
  IN IF pc = "state"
     THEN out'.executed <= done /\ (out'.executed > 0 => total = out'.executed)
     ELSE /\ out'.executed = done /\ total >= done
          /\ (pc # "trades" => total = done)

\* What a call ends with, either way, is what it was concluded with.
LEMMA ConcludeTells ==
  ASSUME NEW o, Conclude(o)
  PROVE  out' = o
  BY DEF Conclude, Finish, LeaveOpen

\* The simulator reports what it executed, in one fill or none.
LEMMA SimulatedExplained ==
  ASSUME RulesInv, ExecuteSimulated, Complete(out')
  PROVE  Explained
<1> DEFINE o == SimulatedOrder(call)
<1>1. /\ pc = "execute" /\ out' = o /\ held' = held + Signed(o.executed)
      /\ held \in Int /\ call.qty \in Int
  BY ConcludeTells DEF ExecuteSimulated, RulesInv, StageOK, SentInv, CallFields
<1>2. \/ o.executed = 0 /\ o.fills = <<>>
      \/ o.executed = Abs(call.qty) /\ o.fills = <<Abs(call.qty)>>
  <2>1. o.kind = "result" BY <1>1 DEF Complete
  <2> QED BY <2>1 DEF SimulatedOrder, placeSimulatedLimitOrder, MatchBacktestLimitGTC, UnknownOrder, Outcome
<1>3. o.executed \in Nat /\ totalFillQty(o.fills) = o.executed
  <2>1. Abs(call.qty) \in Nat BY <1>1, AbsType
  <2>2. Abs(call.qty) \in Int BY <2>1
  <2>3. CASE o.executed = 0 /\ o.fills = <<>> BY <2>3, TotalNone
  <2>4. CASE o.executed = Abs(call.qty) /\ o.fills = <<Abs(call.qty)>>
    BY <2>1, <2>2, <2>4, TotalOne
  <2> QED BY <1>2, <2>3, <2>4
<1>4. Abs(held' - held) = o.executed
  <2> DEFINE n == o.executed
  <2>1. n \in Nat /\ (held' = held + n \/ held' = held - n) BY <1>1, <1>3 DEF Signed
  <2> HIDE DEF n
  <2>2. Abs(held' - held) = n BY <1>1, <2>1 DEF Abs
  <2> QED BY <2>2 DEF n
<1>5. pc # "state" /\ pc # "trades" BY <1>1
<1> DEFINE k == o.executed
           f == o.fills
<1>6. k \in Nat /\ totalFillQty(out'.fills) = k /\ out'.executed = k /\ Abs(held' - held) = k
  BY <1>1, <1>3, <1>4
<1> HIDE DEF k, o, f
<1> QED BY <1>1, <1>5, <1>6 DEF Explained

\* A spot answer passes for complete only when its fills are the execution.
LEMMA SpotExplained ==
  ASSUME RulesInv, AnswerSpot, Complete(out')
  PROVE  Explained
<1>1. PICK executed \in {Unreadable, sent.done}, fills \in IF sent.done = 0 THEN {<<>>} ELSE FillLists :
        Conclude(spotOrderResult([status |-> StatusOf(sent), executed |-> executed, fills |-> fills]))
  BY DEF AnswerSpot
<1> DEFINE raw == [status |-> StatusOf(sent), executed |-> executed, fills |-> fills]
           e == IF raw.executed = Unreadable THEN 0 ELSE raw.executed
           read == spotFillResult(raw, e)
           lost == raw.executed = Unreadable /\ spotOrderLooksExecuted(raw)
<1>2. out' = spotOrderResult(raw) BY <1>1, ConcludeTells
<1>3. ~(lost \/ read.pending)
  BY <1>2 DEF Complete, spotOrderResult, Outcome
<1>4. out'.executed = e /\ out'.fills = read.fills
  BY <1>2, <1>3 DEF spotOrderResult, Outcome
<1>5. pc = "answer" /\ sent.done \in Nat
  BY DEF AnswerSpot, RulesInv, StageOK, SentOrders
<1>6. e = sent.done
  <2>1. CASE executed = Unreadable
    <3>1. StatusOf(sent) \notin {"FILLED", "PARTIALLY_FILLED"}
      BY <1>3, <2>1 DEF spotOrderLooksExecuted
    <3>2. sent.done = 0 BY <3>1 DEF StatusOf
    <3> QED BY <2>1, <3>2
  <2>2. CASE executed # Unreadable BY <1>1, <2>2
  <2> QED BY <2>1, <2>2
<1>7. totalFillQty(read.fills) = e
  <2>1. CASE e = 0
    <3>1. read.fills = <<>> BY <2>1 DEF spotFillResult
    <3> QED BY <2>1, <3>1, TotalNone
  <2>2. CASE e # 0
    <3>1. read.fills = raw.fills /\ totalFillQty(raw.fills) = e
      BY <1>3, <2>2 DEF spotFillResult
    <3> QED BY <3>1
  <2> QED BY <2>1, <2>2
<1>8. totalFillQty(out'.fills) = sent.done /\ out'.executed = sent.done BY <1>4, <1>6, <1>7
<1> QED BY <1>5, <1>8 DEF Explained

\* Looked-up trades cover what the answer says, and recovery's are all of it or none.
LEMMA TradesExplained ==
  ASSUME RulesInv, queryTradesUntilComplete \/ QueryTrades \/ AnswerFutures, Complete(out')
  PROVE  Explained
<1>1. sent.done \in Nat BY DEF RulesInv, StageOK, SentOrders
<1>2. NoOutcome.kind # "result" BY DEF NoOutcome, Outcome
<1>3. CASE queryTradesUntilComplete
  <2>1. PICK trades \in FillLists :
          IF queryTrades(trades) /\ totalFillQty(trades) >= sent.done
          THEN Finish(Outcome("result", "", StatusOf(sent), sent.done, trades, FALSE))
          ELSE IF lookups + 1 < MaxLookups
          THEN lookups' = lookups + 1 /\ UNCHANGED <<pc, call, seen, sent, out>>
          ELSE LeaveOpen(Pending)
    BY <1>3 DEF queryTradesUntilComplete
  <2>2. pc = "trades" /\ out = NoOutcome
    BY <1>3 DEF queryTradesUntilComplete, RulesInv, StageOK
  <2>3. CASE queryTrades(trades) /\ totalFillQty(trades) >= sent.done
    <3>1. out' = Outcome("result", "", StatusOf(sent), sent.done, trades, FALSE)
      BY <2>1, <2>3 DEF Finish
    <3>2. out'.executed = sent.done /\ out'.fills = trades BY <3>1 DEF Outcome
    <3>3. totalFillQty(trades) >= sent.done BY <2>3
    <3>4. totalFillQty(out'.fills) >= sent.done BY <3>2, <3>3
    <3> QED BY <2>2, <3>2, <3>4 DEF Explained
  <2>4. CASE ~(queryTrades(trades) /\ totalFillQty(trades) >= sent.done)
    <3>1. out' = out \/ out' = Pending BY <2>1, <2>4 DEF LeaveOpen
    <3>2. ~Complete(NoOutcome) /\ ~Complete(Pending)
      BY <1>2 DEF Pending, Outcome, Complete
    <3> QED BY <2>2, <3>1, <3>2
  <2> QED BY <2>3, <2>4
<1>4. CASE QueryTrades
  <2>1. PICK trades, readable : Finish(fromAdapterOrderState(out, readable, trades))
    BY <1>4 DEF QueryTrades
  <2>2. PICK st \in VenueStatuses, n \in 0..sent.done : out = Outcome("state", "", st, n, <<>>, FALSE)
    BY <1>4 DEF QueryTrades, RulesInv, ReadInv
  <2>3. out' = fromAdapterOrderState(out, readable, trades) BY <2>1 DEF Finish
  <2>4. /\ ~recoveredFillPending(out.executed, trades)
        /\ out'.executed = n /\ out'.fills = trades /\ out.executed = n
    BY <2>2, <2>3 DEF fromAdapterOrderState, Outcome, Complete
  <2>5. pc = "state" BY <1>4 DEF QueryTrades
  <2>6. n > 0 => totalFillQty(trades) = n BY <2>4 DEF recoveredFillPending
  <2>7. n \in 0..sent.done BY <2>2
  <2>8. n <= sent.done BY <1>1, <2>7
  <2>9. out'.executed = n /\ (n > 0 => totalFillQty(out'.fills) = n) BY <2>4, <2>6
  <2> QED BY <2>5, <2>8, <2>9 DEF Explained
<1>5. CASE AnswerFutures
  <2>1. pc = "answer" /\ out = NoOutcome BY <1>5 DEF AnswerFutures, RulesInv, StageOK
  <2>2. sent.done = 0 /\ Finish(Outcome("result", "", StatusOf(sent), 0, <<>>, FALSE))
    <3>1. ~Complete(NoOutcome) /\ ~Complete(FailedOrder("EXECUTED_QTY"))
      BY <1>2 DEF FailedOrder, Outcome, Complete
    <3>2. ~Finish(FailedOrder("EXECUTED_QTY")) BY <3>1 DEF Finish
    <3>3. out' # out BY <2>1, <3>1
    <3> QED BY <1>5, <3>2, <3>3 DEF AnswerFutures
  <2>3. sent.done = 0 /\ out'.executed = 0 /\ out'.fills = <<>> BY <2>2 DEF Finish, Outcome
  <2>4. totalFillQty(out'.fills) = 0 BY <2>3, TotalNone
  <2> QED BY <2>1, <2>3, <2>4 DEF Explained
<1> QED BY <1>3, <1>4, <1>5

\* Every other step of a call in progress tells no complete result.
LEMMA OthersTellNothing ==
  ASSUME RulesInv, Next, pc \in {"execute", "answer", "trades", "state"},
         ~(ExecuteSimulated \/ AnswerSpot \/ AnswerFutures \/ queryTradesUntilComplete \/ QueryTrades)
  PROVE  ~Complete(out')
<1>1. CASE out' = out
  <2>1. out.kind # "result"
    <3>1. CASE pc = "state"
      <4>1. PICK st, n : out = Outcome("state", "", st, n, <<>>, FALSE)
        BY <3>1 DEF RulesInv, ReadInv
      <4> QED BY <4>1 DEF Outcome
    <3>2. CASE pc # "state"
      <4>1. out = NoOutcome BY <3>2 DEF RulesInv, StageOK
      <4> QED BY <4>1 DEF NoOutcome, Outcome
    <3> QED BY <3>1, <3>2
  <2> QED BY <1>1, <2>1 DEF Complete
<1>2. CASE \E code : out' = FailedOrder(code) BY <1>2 DEF FailedOrder, Outcome, Complete
<1>3. CASE out' = UnknownOrder BY <1>3 DEF UnknownOrder, Outcome, Complete
<1>4. CASE out' = Pending BY <1>4 DEF Pending, Outcome, Complete
<1>5. SendOrder \/ VenueExecutes \/ SaveWallet => out' = out
  BY DEF SendOrder, VenueExecutes, SaveWallet
<1>6. RefuseOrder \/ RefusedByVenue \/ AnswerLost \/ LookupCancelled
        => (\E code : out' = FailedOrder(code)) \/ out' = UnknownOrder \/ out' = Pending
  BY ConcludeTells DEF RefuseOrder, RefusedByVenue, AnswerLost, LookupCancelled, Finish, LeaveOpen
<1>7. SendOrder \/ VenueExecutes \/ SaveWallet \/ RefuseOrder \/ RefusedByVenue \/ AnswerLost \/ LookupCancelled
  BY DEF Next, PlaceOrder, Return, ReviewRisk, ReviewFails, QueryOrder, ResolveFails
<1> QED BY <1>1, <1>2, <1>3, <1>4, <1>5, <1>6, <1>7

\* What a call reports of an execution is what the venue executed, and its fills explain it.
THEOREM FillsExplainExecutionHolds == Spec => FillsExplainExecution
<1> DEFINE Tells == pc \in {"execute", "answer", "trades", "state"} /\ out'.kind = "result" /\ ~out'.pending
                      => Explained
<1>1. RulesInv /\ [Next]_vars => [Tells]_vars
  <2> SUFFICES ASSUME RulesInv, Next, pc \in {"execute", "answer", "trades", "state"}, Complete(out')
               PROVE  Explained
    BY DEF Complete
  <2> QED BY SimulatedExplained, SpotExplained, TradesExplained, OthersTellNothing
<1> QED BY <1>1, RulesInductive, PTL DEF FillsExplainExecution, Spec, Explained

=============================================================================
