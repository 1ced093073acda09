---------------------------- MODULE WalletsProofs ----------------------------
(***************************************************************************)
(* Proofs about Wallets, for any callers, venues, wallets and tolerances   *)
(* and any bound on calls and events. What the invariant says of a call    *)
(* depends on the account's version and environment only:                  *)
(*                                                                         *)
(*   Archives   the state a call archives is its own write or a later one; *)
(*   Reads      on an exchange no call takes the steps of a backtest, and  *)
(*              what a call has put together, will store or has matched is *)
(*              a figure of the exchange's.                                *)
(*                                                                         *)
(* Two more invariants rest on it ...                                      *)
(*                                                                         *)
(*   CarryInv   what a push on an exchange carries to its comparison is    *)
(*              its request's wallets and at most one answer, read from    *)
(*              the exchange (TasksInv: so does a comparison);             *)
(*   AloneInv   a push that nothing has overlapped has written its wallet  *)
(*              to the one venue it is for.                                *)
(*                                                                         *)
(* ... and two of a backtest account, for its sums:                        *)
(*                                                                         *)
(*   TypedInv   the wallets it has stored, or a call carries to be stored, *)
(*              consist of integers;                                       *)
(*   TrackInv   a read that nothing has overlapped has added up the venues *)
(*              it has been at, and has the others still to read.          *)
(***************************************************************************)
EXTENDS Wallets, FiniteSetTheorems, TLAPS

\* The futures balances the exchange may report, and zero of an empty wallet.
Balances == {t.futures.wallet : t \in Truths} \cup {0}

\* A wallet whose futures balance is the exchange's, whatever its other figures.
Reported(info) ==
  /\ DOMAIN info = DOMAIN NoInfo
  /\ DOMAIN info.futures = DOMAIN NoFutures
  /\ info.futures.wallet \in Balances

\* A reader's answer: the summary shows the same balance.
Answered(s) == s.v = "perp" /\ Reported(s.info) /\ s.info.wallet = s.info.futures.wallet

\* There is one reader, so one answer at most.
Answers(list) == list = <<>> \/ \E s : list = <<s>> /\ Answered(s)

Archives(call, version) ==
  /\ call.pc = "archive" => call.own \in Nat /\ call.own <= version
  /\ call.pc = "insert" => call.own \in Nat /\ call.copied \in Nat /\ call.own <= call.copied

Reads(call) ==
  /\ call.pc \notin {"write_list", "write", "read", "attach", "put"}
  /\ call.pc \in {"fetch_mode", "fetch_balance", "fetch_positions", "match", "store", "state"} => Reported(call.info)
  /\ call.pc = "match" => Answers(call.exch)
  /\ call.pc = "store" => \E s : call.todo = <<s>> /\ Answered(s)

Sound(call, version, e) ==
  /\ DOMAIN call = DOMAIN Idle
  /\ Archives(call, version)
  /\ e = "exchange" => Reads(call)

\* The tables.
Stored ==
  /\ acct.version \in Nat
  /\ SnapshotCoversCall
  /\ env = "exchange" =>
       /\ truth \in Truths
       /\ Reported(acct.info)
       /\ \A v \in Venues : rows[v] = None \/ Reported(rows[v])

CallsInv == DOMAIN calls = Callers /\ \A c \in Callers : Sound(calls[c], acct.version, env)
TablesInv == DOMAIN rows = Venues /\ Stored

\* The invariant the theorems rest on.
IInv == CallsInv /\ TablesInv

-----------------------------------------------------------------------------
(* Calls. *)

LEMMA FieldsOfCall ==
  DOMAIN Idle = {"pc", "op", "alone", "pay", "v", "local", "todo", "info", "exch",
                 "multi", "own", "copied", "reads", "seen"}
BY DEF Idle

LEMMA EmptyWallet ==
  /\ Reported(NoInfo)
  /\ DOMAIN NoInfo = {"total", "wallet", "available", "futures", "spot"}
  /\ DOMAIN NoFutures = {"wallet", "available", "margin", "pnl", "held", "initial", "meta", "positions"}
BY DEF Reported, NoInfo, NoFutures, Balances

LEMMA IdleIsSound ==
  ASSUME NEW version, NEW e
  PROVE  Sound(Idle, version, e)
BY DEF Sound, Archives, Reads, Idle

\* Whether a call runs alone does not matter.
LEMMA OverlappedIsSound ==
  ASSUME NEW call, NEW version, NEW e, Sound(call, version, e), NEW b
  PROVE  Sound([call EXCEPT !.alone = b], version, e)
<1> DEFINE new == [call EXCEPT !.alone = b]
<1>1. /\ DOMAIN new = DOMAIN call /\ new.pc = call.pc /\ new.own = call.own /\ new.copied = call.copied
      /\ new.info = call.info /\ new.exch = call.exch /\ new.todo = call.todo
  BY FieldsOfCall DEF Sound
<1> HIDE DEF new
<1>2. Sound(new, version, e) BY <1>1 DEF Sound, Archives, Reads
<1> QED BY <1>2 DEF new

\* Nor does a later write of the account.
LEMMA LaterIsSound ==
  ASSUME NEW call, NEW version \in Nat, NEW later \in Nat, version <= later, NEW e, Sound(call, version, e)
  PROVE  Sound(call, later, e)
BY DEF Sound, Archives

LEMMA CallGoesOn ==
  ASSUME CallsInv, NEW c \in Callers, NEW call, Go(c, call), Sound(call, acct.version, env), UNCHANGED <<env, acct>>
  PROVE  CallsInv'
BY DEF CallsInv, Go

LEMMA CallReturns ==
  ASSUME CallsInv, NEW c \in Callers, Return(c), UNCHANGED <<env, acct>>
  PROVE  CallsInv'
BY CallGoesOn, IdleIsSound DEF Return

LEMMA CallsDisturbed ==
  ASSUME CallsInv, NEW d \in Callers
  PROVE  Sound(Disturbed(d), acct.version, env)
<1>1. PICK b : b = (calls[d].alone /\ calls[d].pc = "idle") OBVIOUS
<1>2. Disturbed(d) = [calls[d] EXCEPT !.alone = b]
  BY <1>1, FieldsOfCall DEF Disturbed, CallsInv, Sound
<1> QED BY <1>2, OverlappedIsSound DEF CallsInv

LEMMA CallBegins ==
  ASSUME CallsInv, NEW c \in Callers, NEW call, Begin(c, call), Sound(call, acct.version, env), UNCHANGED <<env, acct>>
  PROVE  CallsInv'
<1>1. PICK b : b = (env = "backtest" /\ InProgress = {}) OBVIOUS
<1>2. calls' = [d \in Callers |-> IF d = c THEN [call EXCEPT !.alone = b] ELSE Disturbed(d)]
  BY <1>1 DEF Begin
<1>3. DOMAIN calls' = Callers BY <1>2
<1>4. ASSUME NEW d \in Callers PROVE Sound(calls'[d], acct.version, env)
  <2>1. CASE d = c BY <1>2, <2>1, OverlappedIsSound
  <2>2. CASE d # c BY <1>2, <2>2, CallsDisturbed
  <2> QED BY <2>1, <2>2
<1> QED BY <1>3, <1>4 DEF CallsInv

LEMMA CallsRest ==
  ASSUME CallsInv, UNCHANGED <<env, acct>>,
         calls' = calls \/ calls' = [d \in Callers |-> Disturbed(d)] \/ calls' = [d \in Callers |-> Idle]
  PROVE  CallsInv'
BY CallsDisturbed, IdleIsSound DEF CallsInv

LEMMA TablesRest ==
  ASSUME TablesInv, UNCHANGED <<env, truth, rows, acct, snap>>
  PROVE  TablesInv'
BY DEF TablesInv, Stored, SnapshotCoversCall

LEMMA InitInv == Init => CallsInv /\ TablesInv
<1> SUFFICES ASSUME Init PROVE CallsInv /\ TablesInv OBVIOUS
<1>1. CallsInv BY IdleIsSound DEF Init, CallsInv
<1>2. rows = [v \in Venues |-> IF env = "backtest" /\ v \in bound THEN NoInfo ELSE None] BY DEF Init
<1>3. acct = [info |-> NoInfo, version |-> 0] /\ snap = None BY DEF Init
<1>4. env = "exchange" => truth \in Truths BY DEF Init
<1>5. TablesInv BY <1>2, <1>3, <1>4, EmptyWallet DEF TablesInv, Stored, SnapshotCoversCall
<1> QED BY <1>1, <1>5

-----------------------------------------------------------------------------
(* The steps that read or write for a backtest account. *)

\* A call on its way that is neither archiving nor on an exchange.
LEMMA BacktestIsSound ==
  ASSUME NEW call, NEW version, NEW e, DOMAIN call = DOMAIN Idle, e # "exchange",
         call.pc \notin {"archive", "insert"}
  PROVE  Sound(call, version, e)
BY DEF Sound, Archives

LEMMA OnlyBacktest ==
  ASSUME CallsInv, NEW c \in Callers, calls[c].pc \in {"write_list", "write", "read", "attach", "put"}
  PROVE  env # "exchange"
BY DEF CallsInv, Sound, Reads

LEMMA ListWritesKeeps ==
  ASSUME CallsInv, TablesInv, NEW c \in Callers, ListBacktestWrites(c)
  PROVE  CallsInv' /\ TablesInv'
<1> USE DEF ListBacktestWrites, Others, Tables
<1>1. env # "exchange" BY OnlyBacktest
<1>2. TablesInv' BY TablesRest
<1>3. CASE Return(c) BY <1>2, <1>3, CallReturns
<1>4. CASE ~Return(c)
  <2> DEFINE to == Receiving(calls[c].pay, ListActiveAccountVenues)
  <2>1. Go(c, [calls[c] EXCEPT !.todo = to, !.pc = "write"]) BY <1>4
  <2> HIDE DEF to
  <2> DEFINE new == [calls[c] EXCEPT !.todo = to, !.pc = "write"]
  <2>2. DOMAIN new = DOMAIN Idle /\ new.pc = "write" BY FieldsOfCall DEF CallsInv, Sound
  <2> HIDE DEF new
  <2>3. Sound(new, acct.version, env) BY <1>1, <2>2, BacktestIsSound
  <2>4. Go(c, new) BY <2>1 DEF new
  <2> QED BY <1>2, <2>3, <2>4, CallGoesOn
<1> QED BY <1>2, <1>3, <1>4

LEMMA WriteKeeps ==
  ASSUME CallsInv, TablesInv, NEW c \in Callers, updateBacktestVenueWalletStates(c)
  PROVE  CallsInv' /\ TablesInv'
<1> USE DEF updateBacktestVenueWalletStates, Others
<1> DEFINE rest == Tail(calls[c].todo)
           new == [calls[c] EXCEPT !.todo = rest, !.pc = IF rest = <<>> THEN "list" ELSE @]
<1>1. env # "exchange" BY OnlyBacktest
<1>2. Go(c, new) OBVIOUS
<1>3. DOMAIN new = DOMAIN Idle /\ new.pc \in {"write", "list"} BY FieldsOfCall DEF CallsInv, Sound
<1> HIDE DEF new
<1>4. CallsInv' BY <1>1, <1>2, <1>3, BacktestIsSound, CallGoesOn
<1>5. TablesInv' BY <1>1 DEF TablesInv, Stored, SnapshotCoversCall
<1> QED BY <1>4, <1>5

LEMMA ReadKeeps ==
  ASSUME CallsInv, TablesInv, NEW c \in Callers, readPortfolioSnapshot(c)
  PROVE  CallsInv' /\ TablesInv'
<1> USE DEF readPortfolioSnapshot, Others, Tables
<1>1. env # "exchange" BY OnlyBacktest
<1>2. TablesInv' BY TablesRest
<1>3. CASE Return(c) BY <1>2, <1>3, CallReturns
<1>4. CASE ~Return(c)
  <2> DEFINE v == Head(calls[c].todo)
             rest == Tail(calls[c].todo)
             merged == mergePortfolioOnlineInfo(calls[c].info, portfolioSnapshotFromOnlineInfoForVenue(rows[v], v))
             new == [calls[c] EXCEPT !.todo = rest, !.pc = IF rest = <<>> THEN "state" ELSE @, !.info = merged]
  <2>1. DOMAIN calls[c] = DOMAIN Idle BY DEF CallsInv, Sound
  <2>2. Go(c, new) BY <1>4, <2>1, FieldsOfCall
  <2>3. DOMAIN new = DOMAIN Idle /\ new.pc \in {"read", "state"} BY <2>1, FieldsOfCall
  <2> HIDE DEF new
  <2> QED BY <1>1, <1>2, <2>2, <2>3, BacktestIsSound, CallGoesOn
<1> QED BY <1>3, <1>4

LEMMA AttachKeeps ==
  ASSUME CallsInv, TablesInv, NEW c \in Callers, attachBacktestVenueWalletState(c)
  PROVE  CallsInv' /\ TablesInv'
<1> USE DEF attachBacktestVenueWalletState, Others, Tables
<1>1. env # "exchange" BY OnlyBacktest
<1>2. TablesInv' BY TablesRest
<1>3. PICK info : Go(c, [calls[c] EXCEPT !.pc = "put", !.info = info]) OBVIOUS
<1> DEFINE new == [calls[c] EXCEPT !.pc = "put", !.info = info]
<1>4. DOMAIN new = DOMAIN Idle /\ new.pc = "put" BY FieldsOfCall DEF CallsInv, Sound
<1>5. Go(c, new) BY <1>3
<1> HIDE DEF new
<1> QED BY <1>1, <1>2, <1>4, <1>5, BacktestIsSound, CallGoesOn

LEMMA UpsertKeeps ==
  ASSUME CallsInv, TablesInv, NEW c \in Callers, UpsertVenueWalletState(c)
  PROVE  CallsInv' /\ TablesInv'
<1> USE DEF UpsertVenueWalletState, Others
<1>1. env # "exchange" BY OnlyBacktest
<1>2. CallsInv' BY CallReturns
<1>3. TablesInv' BY <1>1 DEF TablesInv, Stored, SnapshotCoversCall
<1> QED BY <1>2, <1>3

-----------------------------------------------------------------------------
(* The portfolio, read from the exchange. *)

LEMMA PortfolioIsSound ==
  ASSUME NEW call, DOMAIN call = DOMAIN Idle
  PROVE  Sound(PortfolioOf(call), acct.version, env)
<1> DEFINE new == PortfolioOf(call)
<1> SUFFICES Sound(new, acct.version, env) OBVIOUS
<1>1. CASE new = Idle BY <1>1, IdleIsSound
<1>2. CASE new # Idle
  <2> DEFINE empty == [call EXCEPT !.info = NoInfo, !.pc = "state"]
             stored == [call EXCEPT !.todo = ListActiveAccountVenues, !.pc = "read"]
             fetched == [call EXCEPT !.pc = "fetch_account"]
  <2>1. \/ new = empty
        \/ env = "backtest" /\ new = stored
        \/ new = fetched
    BY <1>2 DEF PortfolioOf
  <2>2. DOMAIN empty = DOMAIN Idle /\ empty.pc = "state" /\ empty.info = NoInfo BY FieldsOfCall
  <2>3. DOMAIN stored = DOMAIN Idle /\ stored.pc = "read" BY FieldsOfCall
  <2>4. DOMAIN fetched = DOMAIN Idle /\ fetched.pc = "fetch_account" BY FieldsOfCall
  <2> HIDE DEF new, empty, stored, fetched
  <2>5. CASE new = empty BY <2>2, <2>5, EmptyWallet DEF Sound, Archives, Reads
  <2>6. CASE env = "backtest" /\ new = stored BY <2>3, <2>6, BacktestIsSound
  <2>7. CASE new = fetched BY <2>4, <2>7 DEF Sound, Archives, Reads
  <2> QED BY <2>1, <2>5, <2>6, <2>7
<1> QED BY <1>1, <1>2

LEMMA ListPortfolioKeeps ==
  ASSUME CallsInv, TablesInv, NEW c \in Callers, ListPortfolio(c)
  PROVE  CallsInv' /\ TablesInv'
<1> USE DEF ListPortfolio, Others, Tables
<1>1. TablesInv' BY TablesRest
<1>2. Sound(PortfolioOf(calls[c]), acct.version, env) BY PortfolioIsSound DEF CallsInv, Sound
<1> QED BY <1>1, <1>2, CallGoesOn

LEMMA RefreshKeeps ==
  ASSUME CallsInv, TablesInv, NEW c \in Callers, NEW reason \in Reasons, UpdatePortfolioSnapshot(c, reason)
  PROVE  CallsInv' /\ TablesInv'
<1> DEFINE asked == [Idle EXCEPT !.op = "refresh", !.pay = [futures |-> None, spot |-> None, reason |-> reason]]
<1> USE DEF UpdatePortfolioSnapshot, Others, Tables
<1>1. TablesInv' BY TablesRest
<1>2. DOMAIN asked = DOMAIN Idle BY DEF Idle
<1>3. Begin(c, PortfolioOf(asked)) OBVIOUS
<1> HIDE DEF asked
<1>4. Sound(PortfolioOf(asked), acct.version, env) BY <1>2, PortfolioIsSound
<1> QED BY <1>1, <1>3, <1>4, CallBegins

LEMMA PushKeeps ==
  ASSUME CallsInv, TablesInv, NEW c \in Callers, NEW pay \in Requests, UpdateAccountWalletState(c, pay)
  PROVE  CallsInv' /\ TablesInv'
<1> USE DEF UpdateAccountWalletState, Others, Tables
<1> DEFINE local == localVenueWalletSnapshotsFromWalletStateRequest(pay)
           new == [Idle EXCEPT !.op = "push", !.pay = pay, !.local = local,
                     !.pc = IF env = "backtest" THEN "write_list" ELSE "list"]
<1>1. TablesInv' BY TablesRest
<1>2. Begin(c, new) OBVIOUS
<1> HIDE DEF local
<1>3. DOMAIN new = DOMAIN Idle BY DEF Idle
<1>4. new.pc = IF env = "backtest" THEN "write_list" ELSE "list" BY DEF Idle
<1> HIDE DEF new
<1>5. Sound(new, acct.version, env) BY <1>3, <1>4 DEF Sound, Archives, Reads
<1> QED BY <1>1, <1>2, <1>5, CallBegins

-----------------------------------------------------------------------------
(* The exchange's answers. *)

\* What a step of FetchOnlineAccountInfo finds.
LEMMA AtExchange ==
  ASSUME CallsInv, TablesInv, env = "exchange"
  PROVE  /\ DOMAIN truth.futures = DOMAIN NoFutures
         /\ truth.futures.wallet \in Balances
<1>1. truth \in Truths /\ truth.futures \in FuturesWallets BY WalletAssumption DEF TablesInv, Stored
<1>2. DOMAIN truth.futures = DOMAIN NoFutures BY <1>1, EmptyWallet DEF FuturesWallets
<1> QED BY <1>1, <1>2 DEF Balances

LEMMA FetchAccountKeeps ==
  ASSUME CallsInv, TablesInv, NEW c \in Callers, fetchFuturesAccount(c)
  PROVE  CallsInv' /\ TablesInv'
<1> USE DEF fetchFuturesAccount, Others, Tables
<1> DEFINE futures == [truth.futures EXCEPT !.positions = <<>>]
           info == [NoInfo EXCEPT !.futures = futures]
           new == [calls[c] EXCEPT !.pc = "fetch_mode", !.reads = {truth.futures}, !.info = info]
<1>1. TablesInv' BY TablesRest
<1>2. Go(c, new) OBVIOUS
<1>3. env = "exchange" => Reported(info)
  <2> SUFFICES ASSUME env = "exchange" PROVE Reported(info) OBVIOUS
  <2>1. DOMAIN futures = DOMAIN NoFutures /\ futures.wallet = truth.futures.wallet
    BY AtExchange, EmptyWallet
  <2> HIDE DEF futures
  <2>2. DOMAIN info = DOMAIN NoInfo /\ info.futures = futures BY EmptyWallet DEF NoInfo
  <2> QED BY <2>1, <2>2, AtExchange DEF Reported
<1> HIDE DEF info
<1>4. DOMAIN new = DOMAIN Idle /\ new.pc = "fetch_mode" /\ new.info = info
  BY FieldsOfCall DEF CallsInv, Sound
<1> HIDE DEF new
<1>5. Sound(new, acct.version, env) BY <1>3, <1>4 DEF Sound, Archives, Reads
<1> QED BY <1>1, <1>2, <1>5, CallGoesOn

LEMMA FetchModeKeeps ==
  ASSUME CallsInv, TablesInv, NEW c \in Callers, fetchMultiAssetsMode(c)
  PROVE  CallsInv' /\ TablesInv'
<1> USE DEF fetchMultiAssetsMode, Others, Tables
<1>0. PICK multi : multi = truth.multi OBVIOUS
<1> DEFINE new == [calls[c] EXCEPT !.pc = "fetch_balance", !.multi = multi]
<1>1. TablesInv' BY TablesRest
<1>2. Go(c, new) BY <1>0
<1>3. DOMAIN new = DOMAIN Idle /\ new.pc = "fetch_balance" /\ new.info = calls[c].info
  BY FieldsOfCall DEF CallsInv, Sound
<1> HIDE DEF new
<1>4. calls[c].pc = "fetch_mode" OBVIOUS
<1>5. env = "exchange" => Reported(calls[c].info) BY <1>4 DEF CallsInv, Sound, Reads
<1>6. Sound(new, acct.version, env) BY <1>3, <1>5 DEF Sound, Archives, Reads
<1> QED BY <1>1, <1>2, <1>6, CallGoesOn

\* Either way the balance is one the exchange has, or had when the balances were read.
LEMMA MergeIsReported ==
  ASSUME NEW f, NEW now, NEW multi,
         DOMAIN f = DOMAIN NoFutures, f.wallet \in Balances, now.wallet \in Balances
  PROVE  LET g == mergeFuturesBalanceSummary(f, now, multi)
         IN  DOMAIN g = DOMAIN NoFutures /\ g.wallet \in Balances
<1>1. CASE multi BY <1>1, EmptyWallet DEF mergeFuturesBalanceSummary
<1>2. CASE ~multi BY <1>2, EmptyWallet DEF mergeFuturesBalanceSummary, Or
<1> QED BY <1>1, <1>2

LEMMA FetchBalanceKeeps ==
  ASSUME CallsInv, TablesInv, NEW c \in Callers, fetchFuturesBalance(c)
  PROVE  CallsInv' /\ TablesInv'
<1> USE DEF fetchFuturesBalance, Others, Tables
<1> DEFINE old == calls[c].info
           merged == mergeFuturesBalanceSummary(old.futures, truth.futures, calls[c].multi)
           info == [old EXCEPT !.futures = merged]
           reads == calls[c].reads \cup {truth.futures}
           new == [calls[c] EXCEPT !.pc = "fetch_positions", !.multi = FALSE, !.reads = reads, !.info = info]
<1>1. TablesInv' BY TablesRest
<1>2. DOMAIN calls[c] = DOMAIN Idle /\ calls[c].pc = "fetch_balance" BY DEF CallsInv, Sound
<1>3. env = "exchange" => Reported(old) BY <1>2 DEF CallsInv, Sound, Reads
<1>4. env = "exchange" => DOMAIN merged = DOMAIN NoFutures /\ merged.wallet \in Balances
  BY <1>3, AtExchange, MergeIsReported DEF Reported
<1>5. Go(c, [calls[c] EXCEPT !.pc = "fetch_positions", !.multi = FALSE, !.reads = reads, !.info.futures = merged])
  BY <1>2, FieldsOfCall
<1>6. Go(c, new) BY <1>2, <1>5, FieldsOfCall
<1> HIDE DEF merged
<1>7. env = "exchange" => Reported(info) BY <1>3, <1>4, EmptyWallet DEF Reported
<1> HIDE DEF info
<1>8. DOMAIN new = DOMAIN Idle /\ new.pc = "fetch_positions" /\ new.info = info BY <1>2, FieldsOfCall
<1> HIDE DEF new
<1>9. Sound(new, acct.version, env) BY <1>7, <1>8 DEF Sound, Archives, Reads
<1> QED BY <1>1, <1>6, <1>9, CallGoesOn

LEMMA FetchPositionsKeeps ==
  ASSUME CallsInv, TablesInv, NEW c \in Callers, fetchFuturesPositionRisk(c)
  PROVE  CallsInv' /\ TablesInv'
<1> USE DEF fetchFuturesPositionRisk, Others, Tables
<1> DEFINE old == calls[c].info.futures
           listed == truth.futures.positions
           open == Select(listed, {k \in DOMAIN listed : listed[k].qty # 0})
           reads == calls[c].reads \cup {truth.futures}
           f(known) == [old EXCEPT !.positions = open, !.meta = metadataToDomainRiskMetadata(known)]
           info(known, spot) == OnlineAccountInfo(f(known), spot)
           s(known, spot) == ReadPortfolioSnapshot(info(known, spot))
           new(known, spot) ==
             [calls[c] EXCEPT !.info = info(known, spot),
                              !.reads = reads, !.seen = truth.futures, !.exch = <<s(known, spot)>>,
                              !.pc = IF calls[c].op = "push" THEN "match" ELSE "state"]
<1>1. TablesInv' BY TablesRest
<1>2. DOMAIN calls[c] = DOMAIN Idle /\ calls[c].pc = "fetch_positions" BY DEF CallsInv, Sound
<1>3. PICK known \in fetchPhaseAMetadata(symbolsFromPositions(open)), spot \in fetchSpotAccount : Go(c, new(known, spot))
  OBVIOUS
<1>4. env = "exchange" => DOMAIN old = DOMAIN NoFutures /\ old.wallet \in Balances
  BY <1>2 DEF CallsInv, Sound, Reads, Reported
<1> HIDE DEF open
<1>5. env = "exchange" => DOMAIN f(known) = DOMAIN NoFutures /\ f(known).wallet \in Balances
  BY <1>4, EmptyWallet
<1> HIDE DEF f
<1>6. /\ DOMAIN info(known, spot) = DOMAIN NoInfo /\ info(known, spot).futures = f(known) /\ info(known, spot).wallet = f(known).wallet
  BY EmptyWallet DEF OnlineAccountInfo
<1> HIDE DEF info
<1>7. s(known, spot).v = "perp" /\ s(known, spot).info = info(known, spot) BY DEF ReadPortfolioSnapshot
<1> HIDE DEF s
<1>8. /\ DOMAIN new(known, spot) = DOMAIN Idle /\ new(known, spot).pc \in {"match", "state"}
      /\ new(known, spot).info = info(known, spot) /\ new(known, spot).exch = <<s(known, spot)>>
  BY <1>2, FieldsOfCall
<1> HIDE DEF new
<1>9. env = "exchange" => Reported(info(known, spot)) /\ Answered(s(known, spot))
  BY <1>5, <1>6, <1>7 DEF Reported, Answered
<1>10. Sound(new(known, spot), acct.version, env) BY <1>8, <1>9 DEF Sound, Archives, Reads, Answers
<1> QED BY <1>1, <1>3, <1>10, CallGoesOn

LEMMA OneAnswer ==
  ASSUME NEW s
  PROVE  Head(<<s>>) = s /\ Tail(<<s>>) = <<>>
<1>1. <<s>> \in Seq({s}) /\ Len(<<s>>) = 1 OBVIOUS
<1>2. Tail(<<s>>) \in Seq({s}) /\ Len(Tail(<<s>>)) = 0 BY <1>1
<1> QED BY <1>1, <1>2

\* Of one answer a selection takes it or nothing.
LEMMA OfAnswers ==
  ASSUME NEW list, Answers(list), NEW vs
  PROVE  Answers(Of(list, vs))
<1> DEFINE at == {k \in DOMAIN list : list[k].v \in vs}
           of == [k \in 1..Cardinality(at) |-> list[CHOOSE i \in at : Cardinality({j \in at : j <= i}) = k]]
<1>0. Of(list, vs) = of BY DEF Of, Select
<1>1. CASE at = {}
  <2>1. Cardinality(at) = 0 BY <1>1, FS_EmptySet
  <2>2. 1..Cardinality(at) = {} BY <2>1
  <2> HIDE DEF at
  <2>3. of \in Seq({}) BY <2>1, <2>2
  <2>4. Len(of) = 0 BY <2>1
  <2> HIDE DEF of
  <2>5. of = <<>> BY <2>3, <2>4
  <2> QED BY <1>0, <2>5 DEF Answers
<1>2. CASE at # {}
  <2>1. PICK s : list = <<s>> /\ Answered(s) BY <1>2 DEF Answers
  <2>2. at = {1} /\ list[1] = s BY <1>2, <2>1
  <2>3. Cardinality(at) = 1 BY <2>2, FS_Singleton
  <2>4. (CHOOSE i \in at : Cardinality({j \in at : j <= i}) = 1) = 1
    <3>1. {j \in at : j <= 1} = {1} BY <2>2
    <3>2. Cardinality({j \in at : j <= 1}) = 1 BY <3>1, FS_Singleton
    <3> QED BY <2>2, <3>2
  <2> HIDE DEF at
  <2>5. of = <<s>> BY <2>2, <2>3, <2>4
  <2> QED BY <1>0, <2>1, <2>5 DEF Answers
<1> QED BY <1>1, <1>2

LEMMA MatchKeeps ==
  ASSUME CallsInv, TablesInv, NEW c \in Callers, matchVenueWalletSnapshots(c)
  PROVE  CallsInv' /\ TablesInv'
<1> USE DEF matchVenueWalletSnapshots, Others, Tables
<1> DEFINE wanted == {s.v : s \in Range(calls[c].local)}
           exch == Of(calls[c].exch, wanted)
           todo == Of(exch, bound)
           new == [calls[c] EXCEPT !.exch = exch, !.todo = todo, !.pc = IF todo = <<>> THEN "state" ELSE "store"]
<1>1. TablesInv' BY TablesRest
<1>2. DOMAIN calls[c] = DOMAIN Idle /\ calls[c].pc = "match" BY DEF CallsInv, Sound
<1>3. Go(c, new) OBVIOUS
<1>4. env = "exchange" => Answers(calls[c].exch) /\ Reported(calls[c].info)
  BY <1>2 DEF CallsInv, Sound, Reads
<1> HIDE DEF wanted
<1>5. env = "exchange" => Answers(exch) BY <1>4, OfAnswers
<1> HIDE DEF exch
<1>6. env = "exchange" => Answers(todo) BY <1>5, OfAnswers
<1> HIDE DEF todo
<1>7. /\ DOMAIN new = DOMAIN Idle /\ new.pc = IF todo = <<>> THEN "state" ELSE "store"
      /\ new.todo = todo /\ new.info = calls[c].info
  BY <1>2, FieldsOfCall
<1> HIDE DEF new
<1>8. Sound(new, acct.version, env) BY <1>4, <1>6, <1>7 DEF Sound, Archives, Reads, Answers
<1> QED BY <1>1, <1>3, <1>8, CallGoesOn

\* The defaults fill zeros from the summary, which shows the same balance.
LEMMA DefaultsKeepBalance ==
  ASSUME NEW s, Answered(s)
  PROVE  Reported(ensureBacktestVenueOnlineInfoDefaults(s.info, s.v))
<1> DEFINE i == s.info
           f == [i.futures EXCEPT !.wallet = Or(@, i.wallet), !.available = Or(@, i.available)]
           g == [f EXCEPT !.margin = Or(@, f.wallet + f.pnl)]
           r == [i EXCEPT !.futures = g, !.wallet = Or(@, g.wallet),
                          !.available = Or(@, g.available), !.total = Or(@, g.margin)]
<1>1. s.v = "perp" /\ Reported(i) /\ i.wallet = i.futures.wallet BY DEF Answered
<1>2. ensureBacktestVenueOnlineInfoDefaults(i, s.v) = r
  BY <1>1 DEF ensureBacktestVenueOnlineInfoDefaults, IsFutures
<1>3. DOMAIN f = DOMAIN NoFutures /\ f.wallet = i.futures.wallet
  BY <1>1, EmptyWallet DEF Reported, Or
<1> HIDE DEF f
<1>4. DOMAIN g = DOMAIN NoFutures /\ g.wallet = i.futures.wallet BY <1>3, EmptyWallet
<1> HIDE DEF g
<1>5. DOMAIN r = DOMAIN NoInfo /\ r.futures = g BY <1>1, EmptyWallet DEF Reported
<1> HIDE DEF r
<1> QED BY <1>1, <1>2, <1>4, <1>5 DEF Reported

LEMMA StoreKeeps ==
  ASSUME CallsInv, TablesInv, NEW c \in Callers, updateVenueWalletStatesFromSnapshots(c)
  PROVE  CallsInv' /\ TablesInv'
<1> USE DEF updateVenueWalletStatesFromSnapshots, Others
<1> DEFINE s == Head(calls[c].todo)
           rest == Tail(calls[c].todo)
           row == ensureBacktestVenueOnlineInfoDefaults(s.info, s.v)
           new == [calls[c] EXCEPT !.todo = rest, !.pc = IF rest = <<>> THEN "state" ELSE @]
<1>1. /\ DOMAIN calls[c] = DOMAIN Idle /\ calls[c].pc = "store"
      /\ env = "exchange" => Reported(calls[c].info) /\ \E t : calls[c].todo = <<t>> /\ Answered(t)
  BY DEF CallsInv, Sound, Reads
<1>2. Go(c, new) /\ rows' = [rows EXCEPT ![s.v] = row] OBVIOUS
<1>3. env = "exchange" => rest = <<>> /\ Answered(s) BY <1>1, OneAnswer
<1> HIDE DEF s, rest
<1>4. /\ DOMAIN new = DOMAIN Idle /\ new.info = calls[c].info
      /\ new.pc = IF rest = <<>> THEN "state" ELSE "store"
  BY <1>1, FieldsOfCall
<1> HIDE DEF new
<1>5. Sound(new, acct.version, env) BY <1>1, <1>3, <1>4 DEF Sound, Archives, Reads
<1>6. CallsInv' BY <1>2, <1>5, CallGoesOn
<1>7. env = "exchange" => Reported(row) BY <1>3, DefaultsKeepBalance
<1> HIDE DEF row
<1>8. env = "exchange" => \A v \in Venues : rows'[v] = None \/ Reported(rows'[v])
  BY <1>2, <1>7 DEF TablesInv, Stored
<1>9. TablesInv' BY <1>2, <1>8 DEF TablesInv, Stored, SnapshotCoversCall
<1> QED BY <1>6, <1>9

-----------------------------------------------------------------------------
(* The account's state and its archive. *)

LEMMA UpdateStateKeeps ==
  ASSUME CallsInv, TablesInv, NEW c \in Callers, UpdateAccountState(c)
  PROVE  CallsInv' /\ TablesInv'
<1> USE DEF UpdateAccountState, Others
<1>0. acct.version \in Nat /\ acct.version + 1 \in Nat /\ acct.version <= acct.version + 1
  BY DEF TablesInv, Stored
<1>1. acct' = [info |-> calls[c].info, version |-> acct.version + 1] OBVIOUS
<1>2. acct'.version = acct.version + 1 /\ acct'.info = calls[c].info BY <1>1
<1>3. DOMAIN calls[c] = DOMAIN Idle /\ (env = "exchange" => Reported(calls[c].info))
  BY DEF CallsInv, Sound, Reads
<1>4. PICK new : Go(c, new) /\ Sound(new, acct.version + 1, env)
  <2>1. CASE Return(c) BY <2>1, IdleIsSound DEF Return
  <2>2. CASE ~Return(c)
    <3> DEFINE written == [calls[c] EXCEPT !.own = acct.version + 1, !.pc = "archive"]
    <3>1. Go(c, written) BY <2>2
    <3>2. DOMAIN written = DOMAIN Idle /\ written.pc = "archive" /\ written.own = acct.version + 1
      BY <1>3, FieldsOfCall
    <3> HIDE DEF written
    <3>3. Sound(written, acct.version + 1, env) BY <1>0, <3>2 DEF Sound, Archives, Reads
    <3> QED BY <3>1, <3>3
  <2> QED BY <2>1, <2>2
<1>5. CallsInv'
  <2>1. \A d \in Callers : Sound(calls[d], acct.version + 1, env) BY <1>0, LaterIsSound DEF CallsInv
  <2>2. \A d \in Callers : Sound(calls'[d], acct.version + 1, env) BY <1>4, <2>1 DEF Go, CallsInv
  <2> QED BY <1>2, <1>4, <2>2 DEF Go, CallsInv
<1>6. TablesInv' BY <1>0, <1>2, <1>3 DEF TablesInv, Stored, SnapshotCoversCall
<1> QED BY <1>5, <1>6

LEMMA ReadStateKeeps ==
  ASSUME CallsInv, TablesInv, NEW c \in Callers, SnapshotReadsState(c)
  PROVE  CallsInv' /\ TablesInv'
<1> USE DEF SnapshotReadsState, Others, Tables
<1> DEFINE new == [calls[c] EXCEPT !.pc = "insert", !.copied = acct.version]
<1>1. TablesInv' BY TablesRest
<1>2. DOMAIN calls[c] = DOMAIN Idle /\ calls[c].own \in Nat /\ calls[c].own <= acct.version
  BY DEF CallsInv, Sound, Archives
<1>3. Go(c, new) OBVIOUS
<1>4. DOMAIN new = DOMAIN Idle /\ new.pc = "insert" /\ new.copied = acct.version /\ new.own = calls[c].own
  BY <1>2, FieldsOfCall
<1> HIDE DEF new
<1>5. acct.version \in Nat BY DEF TablesInv, Stored
<1>6. Sound(new, acct.version, env) BY <1>2, <1>4, <1>5 DEF Sound, Archives, Reads
<1> QED BY <1>1, <1>3, <1>6, CallGoesOn

LEMMA SaveSnapshotKeeps ==
  ASSUME CallsInv, TablesInv, NEW c \in Callers, SaveSnapshot(c)
  PROVE  CallsInv' /\ TablesInv'
<1> USE DEF SaveSnapshot, Others
<1>1. CallsInv' BY CallReturns
<1>2. calls[c].own \in Nat /\ calls[c].copied \in Nat /\ calls[c].own <= calls[c].copied
  BY DEF CallsInv, Sound, Archives
<1>3. UNCHANGED <<env, truth, acct, rows>> OBVIOUS
<1>4. PICK copied, own : /\ copied = calls[c].copied /\ own = calls[c].own
                         /\ snap' = [copied |-> copied, own |-> own]
  OBVIOUS
<1> HIDE DEF SaveSnapshot
<1>5. snap'.copied >= snap'.own BY <1>2, <1>4
<1>6. TablesInv' BY <1>3, <1>5 DEF TablesInv, Stored, SnapshotCoversCall
<1> QED BY <1>1, <1>6

-----------------------------------------------------------------------------
(* Venues, the exchange and faults. *)

LEMMA AttachedKeeps ==
  ASSUME CallsInv, TablesInv, NEW c \in Callers, NEW v \in Venues, NEW call, Attach(c, v, call),
         DOMAIN call = DOMAIN Idle, call.pc \in {"put", "attach"},
         rows' = rows \/ rows' = [rows EXCEPT ![v] = None]
  PROVE  CallsInv' /\ TablesInv'
<1> USE DEF Attach
<1>1. TablesInv'
  <2>1. \A u \in Venues : rows'[u] = None \/ rows'[u] = rows[u] BY DEF TablesInv
  <2>2. DOMAIN rows' = Venues BY DEF TablesInv
  <2> QED BY <2>1, <2>2 DEF TablesInv, Stored, SnapshotCoversCall
<1>2. CASE env = "backtest"
  <2>1. Sound(call, acct.version, env) BY <1>2, BacktestIsSound
  <2>2. Begin(c, call) BY <1>2
  <2> QED BY <1>1, <2>1, <2>2, CallBegins
<1>3. CASE env # "backtest"
  <2>1. calls' = [d \in Callers |-> Disturbed(d)] BY <1>3
  <2> QED BY <1>1, <2>1, CallsRest
<1> QED BY <1>2, <1>3

LEMMA CreateKeeps ==
  ASSUME CallsInv, TablesInv, NEW c \in Callers, NEW v \in Venues, NEW wallet, CreateVenue(c, v, wallet)
  PROVE  CallsInv' /\ TablesInv'
<1>1. PICK info : /\ Attach(c, v, [Idle EXCEPT !.pc = "put", !.op = "create", !.v = v, !.info = info])
                  /\ rows' = [rows EXCEPT ![v] = None]
  BY DEF CreateVenue
<1> DEFINE call == [Idle EXCEPT !.pc = "put", !.op = "create", !.v = v, !.info = info]
<1>2. DOMAIN call = DOMAIN Idle /\ call.pc = "put" BY FieldsOfCall
<1> HIDE DEF call
<1> QED BY <1>1, <1>2, AttachedKeeps DEF call

LEMMA BindKeeps ==
  ASSUME CallsInv, TablesInv, NEW c \in Callers, NEW v \in Venues, BindVenue(c, v)
  PROVE  CallsInv' /\ TablesInv'
<1> DEFINE call == [Idle EXCEPT !.pc = "attach", !.op = "bind", !.v = v]
<1>1. Attach(c, v, call) /\ rows' = rows BY DEF BindVenue
<1>2. DOMAIN call = DOMAIN Idle /\ call.pc = "attach" BY FieldsOfCall
<1> HIDE DEF call
<1> QED BY <1>1, <1>2, AttachedKeeps

LEMMA OnlineInfoKeeps ==
  ASSUME CallsInv, TablesInv, NEW c \in Callers, NEW v \in Venues, GetVenueOnlineInfo(c, v)
  PROVE  CallsInv' /\ TablesInv'
<1> USE DEF Others, Tables
<1>1. TablesInv' BY TablesRest DEF GetVenueOnlineInfo
<1>2. PICK info : Begin(c, [Idle EXCEPT !.pc = "put", !.op = "online", !.v = v, !.info = info])
  BY DEF GetVenueOnlineInfo
<1> DEFINE call == [Idle EXCEPT !.pc = "put", !.op = "online", !.v = v, !.info = info]
<1>3. DOMAIN call = DOMAIN Idle /\ call.pc = "put" BY FieldsOfCall
<1>4. Begin(c, call) BY <1>2
<1> HIDE DEF call
<1>5. env # "exchange" /\ UNCHANGED <<env, acct>> BY DEF GetVenueOnlineInfo
<1> QED BY <1>1, <1>3, <1>4, <1>5, BacktestIsSound, CallBegins

LEMMA DetachKeeps ==
  ASSUME CallsInv, TablesInv, NEW v \in Venues, Detach(v)
  PROVE  CallsInv' /\ TablesInv'
<1> USE DEF Detach
<1>1. CallsInv' BY CallsRest
<1>2. \A u \in Venues : rows'[u] = None \/ rows'[u] = rows[u] BY DEF TablesInv
<1>3. DOMAIN rows' = Venues BY DEF TablesInv
<1>4. TablesInv' BY <1>2, <1>3 DEF TablesInv, Stored, SnapshotCoversCall
<1> QED BY <1>1, <1>4

LEMMA RestKeeps ==
  ASSUME CallsInv, TablesInv,
         \/ \E t \in tasks : runIsolated(t)
         \/ Fail \/ FailRun \/ Crash
         \/ UNCHANGED vars
  PROVE  CallsInv' /\ TablesInv'
<1> USE DEF Others, Tables
<1>1. TablesInv' BY TablesRest DEF runIsolated, Fail, FailRun, Crash, Fault, vars
<1>2. CASE Fail BY <1>1, <1>2, CallReturns DEF Fail, Fault, InProgress
<1>3. CASE ~Fail BY <1>1, <1>3, CallsRest DEF runIsolated, FailRun, Crash, Fault, vars
<1> QED BY <1>2, <1>3

LEMMA MoveKeeps ==
  ASSUME CallsInv, TablesInv, Move
  PROVE  CallsInv' /\ TablesInv'
<1> USE DEF Move, Tables
<1>1. CallsInv' BY CallsRest
<1>2. TablesInv' BY DEF TablesInv, Stored, SnapshotCoversCall
<1> QED BY <1>1, <1>2

LEMMA NextKeeps == CallsInv /\ TablesInv /\ [Next]_vars => CallsInv' /\ TablesInv'
<1> SUFFICES ASSUME CallsInv, TablesInv, [Next]_vars PROVE CallsInv' /\ TablesInv' OBVIOUS
<1>1. ASSUME NEW c \in Callers, Step(c) PROVE CallsInv' /\ TablesInv'
  BY <1>1, ListWritesKeeps, WriteKeeps, ListPortfolioKeeps, ReadKeeps, FetchAccountKeeps, FetchModeKeeps,
     FetchBalanceKeeps, FetchPositionsKeeps, MatchKeeps, StoreKeeps, UpdateStateKeeps, ReadStateKeeps,
     SaveSnapshotKeeps, AttachKeeps, UpsertKeeps
  DEF Step
<1>2. ASSUME NEW c \in Callers, NEW pay \in Requests, UpdateAccountWalletState(c, pay)
      PROVE  CallsInv' /\ TablesInv'
  BY <1>2, PushKeeps
<1>3. ASSUME NEW c \in Callers, NEW reason \in Reasons, UpdatePortfolioSnapshot(c, reason)
      PROVE  CallsInv' /\ TablesInv'
  BY <1>3, RefreshKeeps
<1>4. ASSUME NEW c \in Callers, NEW v \in Venues, NEW w, CreateVenue(c, v, w) PROVE CallsInv' /\ TablesInv'
  BY <1>4, CreateKeeps
<1>5. ASSUME NEW c \in Callers, NEW v \in Venues, BindVenue(c, v) \/ GetVenueOnlineInfo(c, v)
      PROVE  CallsInv' /\ TablesInv'
  BY <1>5, BindKeeps, OnlineInfoKeeps
<1>6. ASSUME NEW v \in Venues, Detach(v) PROVE CallsInv' /\ TablesInv' BY <1>6, DetachKeeps
<1>7. CASE Move BY <1>7, MoveKeeps
<1>8. CASE (\E t \in tasks : runIsolated(t)) \/ Fail \/ FailRun \/ Crash \/ UNCHANGED vars
  BY <1>8, RestKeeps
<1> QED BY <1>1, <1>2, <1>3, <1>4, <1>5, <1>6, <1>7, <1>8 DEF Next

-----------------------------------------------------------------------------
(* The theorems. *)

\* What calls carry and what the tables hold is as the invariant says, in every
\* reachable state of the account.
THEOREM Inductive == Spec => []IInv
<1>1. Init => IInv BY InitInv DEF IInv
<1>2. IInv /\ [Next]_vars => IInv' BY NextKeeps DEF IInv
<1> QED BY <1>1, <1>2, PTL DEF Spec

\* What a call archives is never older than what it wrote itself, however many calls
\* write in between (SaveSnapshot reads the state back).
THEOREM SnapshotCoversCallHolds == Spec => []SnapshotCoversCall
<1>1. IInv => SnapshotCoversCall BY DEF IInv, TablesInv, Stored
<1> QED BY <1>1, Inductive, PTL

\* What an exchange account stores is what the exchange reported, whatever the
\* strategy pushes (matchVenueWalletSnapshots, updateVenueWalletStatesFromSnapshots,
\* UpdateAccountState).
THEOREM ExchangeIsAuthoritativeHolds == Spec => []ExchangeIsAuthoritative
<1>1. IInv => ExchangeIsAuthoritative
  BY DEF IInv, TablesInv, Stored, Reported, Balances, ExchangeIsAuthoritative
<1> QED BY <1>1, Inductive, PTL

-----------------------------------------------------------------------------
(* Selections, defaults and conversions. *)

\* A selection has one element per place, each of them from one of the places.
LEMMA SelectType ==
  ASSUME NEW list, NEW n \in Nat, NEW at \in SUBSET (1..n), NEW S, \A i \in at : list[i] \in S
  PROVE  /\ Cardinality(at) \in Nat
         /\ Select(list, at) \in Seq(S)
         /\ Len(Select(list, at)) = Cardinality(at)
         /\ at = {} <=> Select(list, at) = <<>>
<1> DEFINE Upto(i) == {j \in at : j <= i}
           m == Cardinality(at)
           rank == [i \in at |-> Cardinality(Upto(i))]
<1>1. IsFiniteSet(at) /\ m \in Nat
  <2>1. IsFiniteSet(1..n) BY FS_Interval
  <2> QED BY <2>1, FS_Subset, FS_CardinalityType
<1>2. \A i \in at : /\ IsFiniteSet(Upto(i)) /\ i \in Upto(i)
                    /\ Cardinality(Upto(i)) \in 1..m
  <2> SUFFICES ASSUME NEW i \in at
               PROVE  IsFiniteSet(Upto(i)) /\ i \in Upto(i) /\ Cardinality(Upto(i)) \in 1..m
    OBVIOUS
  <2>1. Upto(i) \in SUBSET at /\ i \in Upto(i) OBVIOUS
  <2>2. IsFiniteSet(Upto(i)) /\ Cardinality(Upto(i)) <= m BY <1>1, <2>1, FS_Subset
  <2>3. Cardinality(Upto(i)) \in Nat /\ Cardinality(Upto(i)) # 0
    BY <2>1, <2>2, FS_CardinalityType, FS_EmptySet
  <2> QED BY <1>1, <2>1, <2>2, <2>3
<1>3. rank \in Injection(at, 1..m)
  <2>1. ASSUME NEW i \in at, NEW j \in at, i < j PROVE rank[i] # rank[j]
    <3>0. i \in Nat /\ j \in Nat /\ \A k \in at : k \in Nat OBVIOUS
    <3>1. Upto(i) \in SUBSET Upto(j)
      <4>1. \A k \in at : k <= i => k <= j BY <2>1, <3>0
      <4> QED BY <4>1
    <3>3. j \in Upto(j) /\ j \notin Upto(i) BY <2>1, <3>0
    <3>2. Cardinality(Upto(i)) # Cardinality(Upto(j)) BY <1>2, <3>1, <3>3, FS_Subset
    <3> QED BY <3>2
  <2>2. \A i, j \in at : rank[i] = rank[j] => i = j
    <3> SUFFICES ASSUME NEW i \in at, NEW j \in at, i # j PROVE rank[i] # rank[j] OBVIOUS
    <3>1. i < j \/ j < i OBVIOUS
    <3> HIDE DEF rank
    <3> QED BY <2>1, <3>1
  <2>3. rank \in [at -> 1..m] BY <1>2
  <2> HIDE DEF rank, m
  <2> QED BY <2>2, <2>3 DEF Injection, IsInjective
<1>4. \A k \in 1..m : \E i \in at : Cardinality(Upto(i)) = k
  <2>1. IsFiniteSet(1..m) /\ Cardinality(1..m) = m BY <1>1, FS_Interval
  <2>2. rank \in Surjection(at, 1..m) BY <1>1, <1>3, <2>1, FS_Injection
  <2>3. \A k \in 1..m : \E i \in at : rank[i] = k BY <2>2 DEF Surjection
  <2> QED BY <2>3
<1> DEFINE place(k) == CHOOSE i \in at : Cardinality(Upto(i)) = k
           sel == [k \in 1..m |-> list[place(k)]]
<1>5. Select(list, at) = sel BY DEF Select
<1>6. \A k \in 1..m : place(k) \in at BY <1>4
<1>7. \A k \in 1..m : list[place(k)] \in S BY <1>6
<1> HIDE DEF place, m
<1>8. sel \in Seq(S) /\ Len(sel) = m BY <1>1, <1>7
<1>9. at = {} <=> m = 0 BY <1>1, FS_EmptySet DEF m
<1>10. sel = <<>> <=> Len(sel) = 0
  <2>1. \A s \in Seq(S) : s = <<>> <=> Len(s) = 0 OBVIOUS
  <2> HIDE DEF sel
  <2> QED BY <1>8, <2>1
<1> HIDE DEF sel
<1> QED BY <1>1, <1>5, <1>8, <1>9, <1>10 DEF m

\* Of one element a selection takes it or nothing.
LEMMA SelectOne ==
  ASSUME NEW s
  PROVE  Select(<<s>>, {1}) = <<s>>
<1>1. PICK list : list = <<s>> OBVIOUS
<1>2. list[1] = s BY <1>1
<1>3. PICK at, n : at = {1} /\ n = 1 OBVIOUS
<1> DEFINE sel == Select(list, at)
<1>4. at \in SUBSET (1..n) /\ n \in Nat BY <1>3, 1 \in 1..1
<1>5. Cardinality(at) = 1 BY <1>3, FS_Singleton
<1>6. \A i \in at : list[i] \in {s} BY <1>2, <1>3
<1>7. sel \in Seq({s}) /\ Len(sel) = Cardinality(at) BY <1>4, <1>6, SelectType
<1> HIDE DEF sel
<1>8. sel = <<sel[1]>> BY <1>5, <1>7
<1>9. sel[1] = s BY <1>5, <1>7
<1> QED BY <1>1, <1>3, <1>8, <1>9 DEF sel

LEMMA SelectNone ==
  ASSUME NEW list
  PROVE  Select(list, {}) = <<>>
<1>1. {} \in SUBSET (1..0) /\ 0 \in Nat OBVIOUS
<1> QED BY <1>1, SelectType

\* The defaults leave the positions and the spot wallet of a wallet as they are.
LEMMA DefaultsKeep ==
  ASSUME NEW i, NEW v, DOMAIN i = DOMAIN NoInfo
  PROVE  LET d == ensureBacktestVenueOnlineInfoDefaults(i, v)
         IN  /\ DOMAIN d = DOMAIN NoInfo
             /\ ~IsFutures(v) => d.spot = i.spot
<1> DEFINE f == [i.futures EXCEPT !.wallet = Or(@, i.wallet), !.available = Or(@, i.available)]
           g == [f EXCEPT !.margin = Or(@, f.wallet + f.pnl)]
           r == [i EXCEPT !.futures = g, !.wallet = Or(@, g.wallet),
                          !.available = Or(@, g.available), !.total = Or(@, g.margin)]
           cash == i.spot.free + i.spot.locked
           q == [i EXCEPT !.wallet = Or(@, cash), !.available = Or(@, i.spot.free), !.total = Or(@, cash)]
<1>1. ensureBacktestVenueOnlineInfoDefaults(i, v) = IF IsFutures(v) THEN r ELSE q
  BY DEF ensureBacktestVenueOnlineInfoDefaults
<1> HIDE DEF f, g, cash
<1>2. DOMAIN r = DOMAIN i /\ DOMAIN q = DOMAIN i OBVIOUS
<1>3. DOMAIN i = {"total", "wallet", "available", "futures", "spot"} BY DEF NoInfo
<1>4. q.spot = i.spot BY <1>3
<1> QED BY <1>1, <1>2, <1>4

\* A futures wallet that shows a balance and needs no margin filled in.
Settled(f) ==
  /\ f \in FuturesWallets /\ f.wallet # 0 /\ f.available # 0
  /\ f.margin = Or(f.margin, f.wallet + f.pnl)

\* What the defaults do to a futures wallet, and what they leave of it.
LEMMA DefaultsOfFutures ==
  ASSUME NEW i, NEW v, DOMAIN i = DOMAIN NoInfo, IsFutures(v), i.futures \in FuturesWallets
  PROVE  LET d == ensureBacktestVenueOnlineInfoDefaults(i, v)
         IN  /\ d.futures.positions = i.futures.positions /\ d.futures.meta = i.futures.meta
             /\ Settled(i.futures) => d.futures = i.futures
<1> DEFINE w == i.futures
           f == [w EXCEPT !.wallet = Or(@, i.wallet), !.available = Or(@, i.available)]
           g == [f EXCEPT !.margin = Or(@, f.wallet + f.pnl)]
           r == [i EXCEPT !.futures = g, !.wallet = Or(@, g.wallet),
                          !.available = Or(@, g.available), !.total = Or(@, g.margin)]
<1>1. ensureBacktestVenueOnlineInfoDefaults(i, v) = r
  BY DEF ensureBacktestVenueOnlineInfoDefaults
<1>2. DOMAIN w = {"wallet", "available", "margin", "pnl", "held", "initial", "meta", "positions"} BY DEF FuturesWallets
<1>3. DOMAIN i = {"total", "wallet", "available", "futures", "spot"} BY DEF NoInfo
<1>4. g.positions = w.positions /\ g.meta = w.meta BY <1>2
<1>5. Settled(w) => g = w
  <2> SUFFICES ASSUME Settled(w) PROVE g = w OBVIOUS
  <2>1. Or(w.wallet, i.wallet) = w.wallet /\ Or(w.available, i.available) = w.available
    BY DEF Settled, Or
  <2>2. w = [w EXCEPT !.wallet = w.wallet, !.available = w.available] BY <1>2 DEF FuturesWallets
  <2>3. f = w BY <2>1, <2>2
  <2>4. Or(f.margin, f.wallet + f.pnl) = w.margin BY <2>3 DEF Settled
  <2>5. w = [w EXCEPT !.margin = w.margin] BY DEF FuturesWallets
  <2> HIDE DEF f
  <2>6. g = [w EXCEPT !.margin = Or(f.margin, f.wallet + f.pnl)] BY <2>3
  <2> QED BY <2>4, <2>5, <2>6
<1> HIDE DEF g
<1>6. r.futures = g BY <1>3
<1> HIDE DEF w
<1> QED BY <1>1, <1>4, <1>5, <1>6 DEF w

\* The wallet of a request, once its margin is filled in, is settled if it shows balances.
LEMMA FromProto ==
  ASSUME NEW p \in FuturesWallets
  PROVE  LET f == fromProtoFuturesWallet(p)
         IN  /\ f \in FuturesWallets
             /\ f.positions = p.positions /\ f.wallet = p.wallet /\ f.available = p.available
             /\ f.wallet # 0 /\ f.available # 0 => Settled(f)
<1> DEFINE m == Or(p.margin, p.wallet + p.pnl)
           f == [p EXCEPT !.margin = m]
<1>1. m \in Int /\ m = Or(m, p.wallet + p.pnl) BY DEF FuturesWallets, Or
<1>2. fromProtoFuturesWallet(p) = f BY DEF fromProtoFuturesWallet
<1> HIDE DEF m
<1>3. /\ f \in FuturesWallets /\ f.margin = m
      /\ f.positions = p.positions /\ f.wallet = p.wallet /\ f.available = p.available /\ f.pnl = p.pnl
  BY <1>1 DEF FuturesWallets
<1> QED BY <1>1, <1>2, <1>3 DEF Settled

\* The venue's part of a request has the request's futures wallet.
LEMMA LocalFutures ==
  ASSUME NEW pay, NEW v, pay.futures \in FuturesWallets, IsFutures(v)
  PROVE  LET l == localVenueInfo(pay, v)
             f == fromProtoFuturesWallet(pay.futures)
         IN  /\ DOMAIN l = DOMAIN NoInfo
             /\ l.futures.positions = f.positions /\ l.futures.meta = f.meta
             /\ f.wallet # 0 /\ f.available # 0 => l.futures = f
<1> DEFINE f == fromProtoFuturesWallet(pay.futures)
           boot == futuresOnlyBacktestVenueInfo([NoInfo EXCEPT !.futures = f])
<1>1. localVenueInfo(pay, v) = ensureBacktestVenueOnlineInfoDefaults(boot, v) BY DEF localVenueInfo
<1> HIDE DEF f
<1>2. DOMAIN boot = DOMAIN NoInfo /\ boot.futures = f
  BY DEF futuresOnlyBacktestVenueInfo, NoInfo
<1> HIDE DEF boot
<1>3. f \in FuturesWallets /\ (f.wallet # 0 /\ f.available # 0 => Settled(f)) BY FromProto DEF f
<1> QED BY <1>1, <1>2, <1>3, DefaultsKeep, DefaultsOfFutures DEF f

\* The last of a selection is one of the places.
LEMMA LastSelected ==
  ASSUME NEW list, NEW n \in Nat, NEW at \in SUBSET (1..n), at # {}
  PROVE  Select(list, at) # <<>> /\ \E i \in at : Last(Select(list, at)) = list[i]
<1> DEFINE S == {list[i] : i \in at}
           sel == Select(list, at)
<1>1. \A i \in at : list[i] \in S OBVIOUS
<1> HIDE DEF S
<1>2. /\ Cardinality(at) \in Nat /\ sel \in Seq(S) /\ Len(sel) = Cardinality(at)
      /\ at = {} <=> sel = <<>>
  BY <1>1, SelectType
<1> HIDE DEF sel
<1>3. sel # <<>> /\ Len(sel) \in 1..Len(sel)
  <2>1. sel # <<>> BY <1>2
  <2>2. Len(sel) # 0 BY <1>2, <2>1
  <2> QED BY <1>2, <2>1, <2>2
<1>4. Last(sel) \in S BY <1>2, <1>3 DEF Last
<1>5. \E i \in at : Last(sel) = list[i] BY <1>4 DEF S
<1> QED BY <1>3, <1>5 DEF sel

-----------------------------------------------------------------------------
(* What a push carries to its comparison. *)

SameFigures(w, f) ==
  /\ w.wallet = f.wallet /\ w.available = f.available /\ w.margin = f.margin /\ w.pnl = f.pnl
  /\ w.held = f.held

\* If the exchange showed one futures account throughout, w has its figures.
AsRead(w, reads) ==
  \A f \in reads : reads = {f} /\ f.wallet # 0 /\ f.available # 0 => SameFigures(w, f)

\* The wallets that a push carries are its request's, each for its own venue.
Pushed(call) ==
  /\ call.pay \in Requests
  /\ call.local \in Seq(Range(call.local)) /\ call.local # <<>>
  /\ \A k \in 1..Len(call.local) : call.local[k].info = localVenueInfo(call.pay, call.local[k].v)

OpenPositions(w) == Select(w.positions, {k \in DOMAIN w.positions : w.positions[k].qty # 0})

KnownMetadata(meta) == meta = None \/ meta = [step |-> StepTolerance, tick |-> PriceTolerance]

\* The reader's answer: the positions of its last read, and the figures of the others.
Witnessed(s, call) ==
  /\ s.v = "perp"
  /\ call.seen \in call.reads /\ \E t \in Truths : call.seen = t.futures
  /\ s.info.futures.positions = OpenPositions(call.seen)
  /\ AsRead(s.info.futures, call.reads)
  /\ KnownMetadata(s.info.futures.meta)

Unread(call) == call.exch = <<>> /\ call.reads = {}
OneAnswered(call) == \E s \in Range(call.exch) : call.exch = <<s>> /\ Witnessed(s, call)

\* What is compared for a push whose first wallet is the perpetual account's.
Comparable(call) == call.local[1].v = "perp" => Unread(call) \/ OneAnswered(call)

Gathering == {"fetch_mode", "fetch_balance", "fetch_positions"}

Carries(call) ==
  /\ Pushed(call)
  /\ call.pc \in {"list", "fetch_account"} => Unread(call)
  /\ call.pc \in Gathering => call.exch = <<>> /\ call.reads # {} /\ AsRead(call.info.futures, call.reads)
  /\ call.pc = "match" => OneAnswered(call)
  /\ call.pc \in {"store", "state", "archive", "insert"} => Comparable(call)

CarriedBy(call) == call.op = "push" => Carries(call)
CarryInv == env = "exchange" => \A c \in Callers : CarriedBy(calls[c])
TasksInv == \A t \in tasks : Pushed(t) /\ Comparable(t)

VerdictInv == env \in {"backtest", "exchange"} /\ CarryInv /\ TasksInv

-----------------------------------------------------------------------------
(* The verdict of a comparison. *)

\* The open ones of at most one position.
LEMMA OpenOfOne ==
  ASSUME NEW w \in FuturesWallets, Len(w.positions) <= 1
  PROVE  \/ OpenPositions(w) = <<>> /\ positionQty(indexPositions(w.positions)) = 0
         \/ OpenPositions(w) = w.positions /\ \E p : w.positions = <<p>> /\ p.qty \in Int /\ p.entry \in Int /\ p.risk \in Int
<1> DEFINE P == [qty : Int, entry : Int, risk : Int, initial : Int]
           ps == w.positions
           open == {k \in DOMAIN ps : ps[k].qty # 0}
<1>1. ps \in Seq(P) /\ Len(ps) \in {0, 1}
  <2>1. ps \in Seq(P) BY DEF FuturesWallets
  <2>2. \A s \in Seq(P) : Len(s) \in Nat OBVIOUS
  <2>3. Len(ps) <= 1 OBVIOUS
  <2> HIDE DEF P, ps
  <2>4. Len(ps) \in {0, 1} BY <2>1, <2>2, <2>3
  <2> QED BY <2>1, <2>4
<1>2. CASE Len(ps) = 0
  <2>1. ps = <<>>
    <3>1. \A s \in Seq(P) : Len(s) = 0 => s = <<>> OBVIOUS
    <3> HIDE DEF P
    <3> QED BY <1>1, <1>2, <3>1
  <2>2. open = {}
    <3>1. DOMAIN <<>> = {} OBVIOUS
    <3> QED BY <2>1, <3>1
  <2>3. OpenPositions(w) = <<>> BY <2>2, SelectNone DEF OpenPositions
  <2> QED BY <2>1, <2>3 DEF indexPositions, positionQty
<1>3. CASE Len(ps) = 1
  <2>1. PICK p \in P : ps = <<p>>
    <3> HIDE DEF P
    <3>1. ps[1] \in P BY <1>1, <1>3
    <3>2. \A s \in Seq(P) : Len(s) = 1 => s = <<s[1]>> OBVIOUS
    <3> QED BY <1>1, <1>3, <3>1, <3>2
  <2>2. DOMAIN ps = {1} /\ ps[1] = p BY <2>1
  <2>3. CASE p.qty = 0
    <3>1. open = {} BY <2>2, <2>3
    <3>2. OpenPositions(w) = <<>> BY <3>1, SelectNone DEF OpenPositions
    <3>3. Last(ps) = p /\ ps # <<>> BY <2>1, <1>3 DEF Last
    <3> QED BY <2>3, <3>2, <3>3 DEF indexPositions, positionQty
  <2>4. CASE p.qty # 0
    <3>1. open = {1} BY <2>2, <2>4
    <3>2. OpenPositions(w) = ps BY <2>1, <3>1, SelectOne DEF OpenPositions
    <3> QED BY <2>1, <3>2
  <2> QED BY <2>3, <2>4
<1> QED BY <1>1, <1>2, <1>3

\* Of a list of one element a selection by venue takes it or nothing.
LEMMA OfOne ==
  ASSUME NEW s, NEW vs
  PROVE  /\ s.v \in vs => Of(<<s>>, vs) = <<s>>
         /\ s.v \notin vs => Of(<<s>>, vs) = <<>>
<1>1. PICK list : list = <<s>> OBVIOUS
<1>2. DOMAIN list = {1} /\ list[1] = s BY <1>1
<1> DEFINE at == {k \in DOMAIN list : list[k].v \in vs}
<1>3. s.v \in vs => at = {1} BY <1>2
<1>4. s.v \notin vs => at = {} BY <1>2
<1> HIDE DEF at
<1>5. Of(list, vs) = Select(list, at) BY DEF Of, at
<1> QED BY <1>1, <1>3, <1>4, <1>5, SelectOne, SelectNone

LEMMA OfNone ==
  ASSUME NEW vs
  PROVE  Of(<<>>, vs) = <<>>
<1>1. {k \in DOMAIN <<>> : <<>>[k].v \in vs} = {} OBVIOUS
<1> QED BY <1>1, SelectNone DEF Of

\* The wallet that a push compares for the perpetual account.
LEMMA LocalOfPerp ==
  ASSUME NEW call, Pushed(call), call.local[1].v = "perp"
  PROVE  /\ Of(call.local, {"perp"}) # <<>>
         /\ Last(Of(call.local, {"perp"})).info = localVenueInfo(call.pay, "perp")
<1> DEFINE list == call.local
           n == Len(list)
           at == {k \in DOMAIN list : list[k].v \in {"perp"}}
<1>1. list \in Seq(Range(list)) /\ list # <<>> BY DEF Pushed
<1>2. n \in Nat /\ DOMAIN list = 1..n /\ n # 0 BY <1>1
<1>3. at \in SUBSET (1..n) /\ 1 \in at BY <1>2
<1>4. \A k \in at : k \in 1..n /\ list[k].v = "perp" BY <1>2
<1>5. Of(list, {"perp"}) = Select(list, at) BY DEF Of
<1> HIDE DEF at
<1>6. PICK i \in at : Select(list, at) # <<>> /\ Last(Select(list, at)) = list[i]
  BY <1>2, <1>3, LastSelected
<1>7. list[i].info = localVenueInfo(call.pay, "perp") BY <1>4, <1>6 DEF Pushed
<1> QED BY <1>5, <1>6, <1>7

\* A verdict that passes has compared the perpetual account's wallets.
LEMMA VerdictCompares ==
  ASSUME NEW local, NEW exch, NEW X, local \in Seq(X), exch \in Seq(X),
         local # <<>>, local[1].v = "perp", CompareVenues(local, exch).hard,
         Of(local, {"perp"}) # <<>>
  PROVE  /\ Of(exch, {"perp"}) # <<>>
         /\ Compare(Last(Of(local, {"perp"})).info, Last(Of(exch, {"perp"})).info).hard
<1> DEFINE Verdict(v) ==
             IF Of(local, {v}) = <<>> \/ Of(exch, {v}) = <<>> THEN [hard |-> FALSE, soft |-> FALSE]
             ELSE Compare(Last(Of(local, {v})).info, Last(Of(exch, {v})).info)
           both == local \o exch
           keys == {s.v : s \in Range(both)}
<1>1. "perp" \in keys
  <2>1. Len(local) \in Nat /\ Len(local) # 0 BY \A s \in Seq(X) : Len(s) = 0 => s = <<>>
  <2>2. both \in Seq(X) /\ 1 \in DOMAIN both /\ both[1] = local[1] BY <2>1
  <2> HIDE DEF both
  <2>3. local[1] \in Range(both) BY <2>2 DEF Range
  <2> QED BY <2>3
<1>2. CompareVenues(local, exch) = [hard |-> \A v \in keys : Verdict(v).hard, soft |-> \A v \in keys : Verdict(v).soft]
  BY DEF CompareVenues
<1> HIDE DEF keys, Verdict
<1>3. Verdict("perp").hard BY <1>1, <1>2
<1> QED BY <1>3 DEF Verdict

\* Two lists of one wallet of one venue are compared as the wallets are.
LEMMA VerdictOfOne ==
  ASSUME NEW l, NEW s, l.v = "perp", s.v = "perp"
  PROVE  LET c == Compare(l.info, s.info)
         IN  c.hard /\ c.soft => CompareVenues(<<l>>, <<s>>).hard /\ CompareVenues(<<l>>, <<s>>).soft
<1> DEFINE Verdict(v) ==
             IF Of(<<l>>, {v}) = <<>> \/ Of(<<s>>, {v}) = <<>> THEN [hard |-> FALSE, soft |-> FALSE]
             ELSE Compare(Last(Of(<<l>>, {v})).info, Last(Of(<<s>>, {v})).info)
           both == <<l>> \o <<s>>
           keys == {x.v : x \in Range(both)}
<1>1. keys \subseteq {"perp"}
  <2>1. Len(<<l>>) = 1 /\ Len(<<s>>) = 1 /\ <<l>>[1] = l /\ <<s>>[1] = s
        /\ <<l>> \in Seq({l, s}) /\ <<s>> \in Seq({l, s})
    OBVIOUS
  <2>2. DOMAIN both = 1..2 /\ both[1] = l /\ both[2] = s BY <2>1
  <2> HIDE DEF both
  <2>3. \A x \in Range(both) : x = l \/ x = s BY <2>2 DEF Range
  <2> QED BY <2>3
<1>2. Verdict("perp") = Compare(l.info, s.info)
  <2>1. Of(<<l>>, {"perp"}) = <<l>> /\ Of(<<s>>, {"perp"}) = <<s>> BY OfOne
  <2>2. Last(<<l>>) = l /\ Last(<<s>>) = s BY DEF Last
  <2>3. <<l>> # <<>> /\ <<s>> # <<>> OBVIOUS
  <2> QED BY <2>1, <2>2, <2>3
<1>3. CompareVenues(<<l>>, <<s>>) = [hard |-> \A v \in keys : Verdict(v).hard, soft |-> \A v \in keys : Verdict(v).soft]
  BY DEF CompareVenues
<1> HIDE DEF keys, Verdict
<1> QED BY <1>1, <1>2, <1>3

\* The metadata in use is known, and its step size is the one allowed.
LEMMA StepAllowed ==
  ASSUME NEW e, NEW f \in FuturesWallets, KnownMetadata(e.meta)
  PROVE  LET md == indexRiskMetadata(e.meta, f.meta)
         IN  md.step \in Nat /\ md.tick \in Nat /\ md.step = Allowed(e, f)
<1>1. StepTolerance \in Nat /\ PriceTolerance \in Nat /\ None \notin RiskMetadata BY WalletAssumption
<1>2. [step |-> StepTolerance, tick |-> PriceTolerance] # None BY <1>1 DEF RiskMetadata
<1>3. f.meta = None \/ f.meta \in RiskMetadata BY DEF FuturesWallets
<1>4. CASE e.meta # None
  BY <1>1, <1>4 DEF KnownMetadata, indexRiskMetadata, Allowed
<1>5. CASE e.meta = None /\ f.meta # None
  BY <1>3, <1>5 DEF indexRiskMetadata, Allowed, RiskMetadata
<1>6. CASE e.meta = None /\ f.meta = None
  BY <1>6 DEF indexRiskMetadata, Allowed
<1> QED BY <1>4, <1>5, <1>6

\* A quantity that passes differs by the step at most.
LEMMA HardIsClose ==
  ASSUME NEW l, NEW e, NEW w \in FuturesWallets, Len(w.positions) <= 1, NEW q,
         e.futures.positions = OpenPositions(w),
         q = positionQty(indexPositions(l.futures.positions)), q \in Int,
         NEW step \in Nat, step = indexRiskMetadata(e.futures.meta, l.futures.meta).step, Compare(l, e).hard
  PROVE  Abs(positionQty(indexPositions(w.positions)) - q) <= step
<1> DEFINE lp == indexPositions(l.futures.positions)
           ep == indexPositions(e.futures.positions)
           held == positionQty(indexPositions(w.positions))
<1>1. \/ OpenPositions(w) = <<>> /\ held = 0 /\ ep = None /\ positionQty(ep) = 0
      \/ ep = indexPositions(w.positions) /\ \E p : w.positions = <<p>> /\ ep = p /\ p.qty \in Int
  <2>1. indexPositions(<<>>) = None /\ positionQty(None) = 0 BY DEF indexPositions, positionQty
  <2>2. ASSUME NEW p PROVE indexPositions(<<p>>) = p
    <3>1. Last(<<p>>) = p /\ <<p>> # <<>> BY DEF Last
    <3> QED BY <3>1 DEF indexPositions
  <2>3. ep = indexPositions(OpenPositions(w)) OBVIOUS
  <2> HIDE DEF ep
  <2>4. CASE OpenPositions(w) = <<>> /\ held = 0
    <3>1. indexPositions(OpenPositions(w)) = indexPositions(<<>>) BY <2>4
    <3>2. ep = None BY <2>1, <2>3, <3>1
    <3>3. positionQty(ep) = 0 BY <2>1, <3>2
    <3> QED BY <2>4, <3>2, <3>3
  <2>5. CASE OpenPositions(w) = w.positions /\ \E p : w.positions = <<p>> /\ p.qty \in Int
    BY <2>2, <2>3, <2>5
  <2> QED BY <2>4, <2>5, OpenOfOne
<1>2. \/ q = 0 /\ positionQty(ep) = 0
      \/ lp # None /\ ep # None /\ Close(ep.qty, lp.qty, step)
  BY DEF Compare
<1> HIDE DEF lp, ep
<1>3. CASE q = 0 /\ positionQty(ep) = 0
  <2>1. held = 0 BY <1>1, <1>3
  <2> QED BY <1>3, <2>1 DEF Abs
<1>4. CASE lp # None /\ ep # None /\ Close(ep.qty, lp.qty, step)
  <2>1. held = ep.qty /\ ep.qty \in Int BY <1>1, <1>4 DEF positionQty
  <2>2. q = lp.qty BY <1>4 DEF positionQty, lp
  <2> QED BY <1>4, <2>1, <2>2 DEF Close, Abs
<1> QED BY <1>2, <1>3, <1>4

LEMMA RequestWallet ==
  ASSUME NEW pay \in Requests, pay.futures # None
  PROVE  pay.futures \in FuturesWallets
BY WalletAssumption DEF Requests

\* The quantity that a wallet shows.
LEMMA QuantityType ==
  ASSUME NEW w \in FuturesWallets
  PROVE  positionQty(indexPositions(w.positions)) \in Int
<1> DEFINE P == [qty : Int, entry : Int, risk : Int, initial : Int]
           ps == w.positions
<1>1. ps \in Seq(P) BY DEF FuturesWallets
<1>2. ps # <<>> => Last(ps) \in P
  <2>1. \A s \in Seq(P) : Len(s) = 0 => s = <<>> OBVIOUS
  <2>2. \A s \in Seq(P) : Len(s) \in Nat /\ \A k \in 1..Len(s) : s[k] \in P
    <3> HIDE DEF P
    <3> QED OBVIOUS
  <2> HIDE DEF ps, P
  <2>3. ps # <<>> => Len(ps) \in 1..Len(ps)
    <3>1. ps # <<>> => Len(ps) # 0 BY <1>1, <2>1
    <3>2. Len(ps) \in Nat BY <1>1, <2>2
    <3> QED BY <3>1, <3>2
  <2> QED BY <1>1, <2>2, <2>3 DEF Last
<1> HIDE DEF ps
<1>3. indexPositions(ps) = None \/ indexPositions(ps) \in P BY <1>2 DEF indexPositions
<1>4. positionQty(indexPositions(ps)) \in Int
  <2>1. CASE indexPositions(ps) = None BY <2>1 DEF positionQty
  <2>2. CASE indexPositions(ps) # None
    <3>1. indexPositions(ps).qty \in Int BY <1>3, <2>2
    <3> QED BY <2>2, <3>1 DEF positionQty
  <2> QED BY <2>1, <2>2
<1> QED BY <1>4 DEF ps

LEMMA NoDifference ==
  ASSUME NEW x \in Int, NEW n \in Nat
  PROVE  Close(x, x, n)
BY DEF Close, Abs

\* A wallet is close to one with its figures and its open positions.
LEMMA SameIsClose ==
  ASSUME NEW l, NEW e, NEW f \in FuturesWallets, Len(f.positions) <= 1, l.futures = f,
         SameFigures(e.futures, f), e.futures.positions = OpenPositions(f),
         indexRiskMetadata(e.futures.meta, f.meta).step \in Nat, indexRiskMetadata(e.futures.meta, f.meta).tick \in Nat
  PROVE  Compare(l, e).hard /\ Compare(l, e).soft
<1> DEFINE lp == indexPositions(f.positions)
           ep == indexPositions(OpenPositions(f))
           md == indexRiskMetadata(e.futures.meta, f.meta)
<1>1. md.step \in Nat /\ md.tick \in Nat /\ SoftTolerance \in Nat BY WalletAssumption
<1> HIDE DEF md
<1>2. f.wallet \in Int /\ f.available \in Int /\ f.margin \in Int /\ f.pnl \in Int /\ f.held \in Int
  BY DEF FuturesWallets
<1>3. \/ positionQty(lp) = 0 /\ positionQty(ep) = 0
      \/ lp # None /\ ep = lp /\ lp.qty \in Int /\ lp.entry \in Int /\ lp.risk \in Int
  <2>1. indexPositions(<<>>) = None /\ positionQty(None) = 0 BY DEF indexPositions, positionQty
  <2>2. ASSUME NEW p PROVE indexPositions(<<p>>) = p
    <3>1. Last(<<p>>) = p /\ <<p>> # <<>> BY DEF Last
    <3> QED BY <3>1 DEF indexPositions
  <2>3. CASE OpenPositions(f) = <<>> /\ positionQty(lp) = 0
    <3>1. ep = indexPositions(<<>>) BY <2>3
    <3> QED BY <2>1, <2>3, <3>1
  <2>4. CASE OpenPositions(f) = f.positions /\ \E p : f.positions = <<p>> /\ p.qty \in Int /\ p.entry \in Int /\ p.risk \in Int
    <3>1. PICK p : f.positions = <<p>> /\ p.qty \in Int /\ p.entry \in Int /\ p.risk \in Int BY <2>4
    <3>2. lp = p BY <2>2, <3>1
    <3>3. ep = p BY <2>2, <2>4, <3>1
    <3> HIDE DEF lp, ep
    <3>4. CASE p = None BY <2>1, <3>2, <3>3, <3>4
    <3>5. CASE p # None BY <3>1, <3>2, <3>3, <3>5
    <3> QED BY <3>4, <3>5
  <2> QED BY <2>3, <2>4, OpenOfOne
<1>4. /\ e.futures.wallet = f.wallet /\ e.futures.available = f.available
      /\ e.futures.margin = f.margin /\ e.futures.pnl = f.pnl /\ e.futures.held = f.held
  BY DEF SameFigures
<1>5. /\ Close(f.wallet, f.wallet, SoftTolerance) /\ Close(f.available, f.available, SoftTolerance)
      /\ Close(f.margin, f.margin, SoftTolerance) /\ Close(f.pnl, f.pnl, SoftTolerance)
      /\ Close(f.held, f.held, SoftTolerance)
  BY <1>1, <1>2, NoDifference
<1> HIDE DEF lp, ep
<1>6. \/ positionQty(lp) = 0 /\ positionQty(ep) = 0
      \/ /\ lp # None /\ ep # None /\ Close(ep.risk, lp.risk, SoftTolerance)
         /\ Close(ep.qty, lp.qty, md.step) /\ Close(ep.entry, lp.entry, md.tick)
  <2>1. CASE lp # None /\ ep = lp /\ lp.qty \in Int /\ lp.entry \in Int /\ lp.risk \in Int
    <3>1. Close(lp.qty, lp.qty, md.step) BY <1>1, <2>1, NoDifference
    <3>2. Close(lp.entry, lp.entry, md.tick) BY <1>1, <2>1, NoDifference
    <3>3. Close(lp.risk, lp.risk, SoftTolerance) BY <1>1, <2>1, NoDifference
    <3> QED BY <2>1, <3>1, <3>2, <3>3
  <2> QED BY <1>3, <2>1
<1>7. Compare(l, e).soft BY <1>4, <1>5, <1>6 DEF Compare, lp, ep
<1>8. Compare(l, e).hard BY <1>6 DEF Compare, lp, ep, md
<1> QED BY <1>7, <1>8

LEMMA OnlyOne ==
  ASSUME NEW X, NEW list \in Seq(X), Len(list) = 1
  PROVE  list = <<list[1]>>
OBVIOUS

\* The verdict on what a push carries is sound.
LEMMA VerdictOfPush ==
  ASSUME NEW t, Pushed(t), Comparable(t), t.pay.futures # None, t.local[1].v = "perp"
  PROVE  LET verdict == CompareVenues(t.local, t.exch)
             f == fromProtoFuturesWallet(t.pay.futures)
         IN  /\ verdict.hard => Abs(Quantity(t.seen) - Quantity(f)) <= Allowed(t.exch[1].info.futures, f)
             /\ t.reads = {Figures(f)} /\ Len(t.local) = 1 /\ f.wallet # 0 /\ f.available # 0
                  => verdict.hard /\ verdict.soft
<1> DEFINE verdict == CompareVenues(t.local, t.exch)
           f == fromProtoFuturesWallet(t.pay.futures)
           l == localVenueInfo(t.pay, "perp")
           R == Range(t.local)
<1>1. t.pay.futures \in FuturesWallets BY RequestWallet DEF Pushed
<1>2. f \in FuturesWallets BY <1>1, FromProto
<1>3. /\ l.futures.positions = f.positions /\ l.futures.meta = f.meta
      /\ f.wallet # 0 /\ f.available # 0 => l.futures = f
  BY <1>1, LocalFutures DEF IsFutures
<1>4. t.local \in Seq(R) /\ t.local # <<>> BY DEF Pushed
<1>5. Of(t.local, {"perp"}) # <<>> /\ Last(Of(t.local, {"perp"})).info = l BY LocalOfPerp
<1> HIDE DEF f, l
<1>6. CASE Unread(t)
  <2>1. t.exch = <<>> /\ t.reads = {} BY <1>6 DEF Unread
  <2>2. t.exch \in Seq(R) BY <2>1
  <2> HIDE DEF R
  <2>3. ~verdict.hard BY <1>4, <1>5, <2>1, <2>2, OfNone, VerdictCompares
  <2> QED BY <2>1, <2>3 DEF f
<1>7. CASE OneAnswered(t)
  <2>1. PICK s : t.exch = <<s>> /\ Witnessed(s, t) BY <1>7 DEF OneAnswered
  <2>2. /\ s.v = "perp" /\ t.seen \in t.reads /\ KnownMetadata(s.info.futures.meta)
        /\ s.info.futures.positions = OpenPositions(t.seen) /\ AsRead(s.info.futures, t.reads)
    BY <2>1 DEF Witnessed
  <2>3. t.seen \in FuturesWallets /\ Len(t.seen.positions) <= 1 BY <2>1, WalletAssumption DEF Witnessed
  <2> DEFINE md == indexRiskMetadata(s.info.futures.meta, f.meta)
  <2>4. md.step \in Nat /\ md.tick \in Nat /\ md.step = Allowed(t.exch[1].info.futures, f)
    <3>1. t.exch[1] = s BY <2>1
    <3>2. PICK e : e = s.info.futures OBVIOUS
    <3> QED BY <1>2, <2>2, <3>1, <3>2, StepAllowed
  <2>5. ASSUME verdict.hard PROVE Abs(Quantity(t.seen) - Quantity(f)) <= md.step
    <3> DEFINE X == R \cup {s}
    <3>1. t.local \in Seq(X)
      <4>1. \A q \in Seq(R) : q \in Seq(X) OBVIOUS
      <4> HIDE DEF X, R
      <4> QED BY <1>4, <4>1
    <3>2. t.exch \in Seq(X) BY <2>1
    <3> HIDE DEF X
    <3>3. Compare(Last(Of(t.local, {"perp"})).info, Last(Of(t.exch, {"perp"})).info).hard
      BY <1>4, <1>5, <2>5, <3>1, <3>2, VerdictCompares
    <3>4. Of(t.exch, {"perp"}) = <<s>> BY <2>1, <2>2, OfOne
    <3>5. Last(<<s>>) = s BY DEF Last
    <3>6. Compare(l, s.info).hard BY <1>5, <3>3, <3>4, <3>5
    <3>7. Quantity(f) \in Int BY <1>2, QuantityType DEF Quantity
    <3>8. Quantity(f) = positionQty(indexPositions(l.futures.positions)) BY <1>3 DEF Quantity
    <3>9. PICK step \in Nat : step = md.step BY <2>4
    <3>10. step = indexRiskMetadata(s.info.futures.meta, l.futures.meta).step BY <1>3, <3>9
    <3> HIDE DEF md
    <3>11. Abs(positionQty(indexPositions(t.seen.positions)) - Quantity(f)) <= step
      BY <2>2, <2>3, <3>6, <3>7, <3>8, <3>10, HardIsClose
    <3> QED BY <3>9, <3>11 DEF Quantity
  <2>6. ASSUME t.reads = {Figures(f)}, Len(t.local) = 1, f.wallet # 0, f.available # 0
        PROVE  verdict.hard /\ verdict.soft
    <3>1. t.seen = Figures(f) BY <2>2, <2>6
    <3>2. SameFigures(Figures(f), f) /\ Figures(f).positions = f.positions
      BY <1>2 DEF Figures, SameFigures, FuturesWallets
    <3>3. Figures(f).wallet # 0 /\ Figures(f).available # 0 BY <2>6, <3>2 DEF SameFigures
    <3>4. SameFigures(s.info.futures, Figures(f)) BY <2>2, <2>6, <3>3 DEF AsRead
    <3>5. SameFigures(s.info.futures, f) BY <3>2, <3>4 DEF SameFigures
    <3>6. s.info.futures.positions = OpenPositions(f) /\ Len(f.positions) <= 1
      BY <2>2, <2>3, <3>1, <3>2 DEF OpenPositions
    <3>7. Compare(l, s.info).hard /\ Compare(l, s.info).soft
      BY <1>2, <1>3, <2>4, <2>6, <3>5, <3>6, SameIsClose
    <3>8. PICK m : t.local = <<m>> /\ m.v = "perp" /\ m.info = l
      <4>1. t.local = <<t.local[1]>> BY <1>4, <2>6, OnlyOne
      <4>2. t.local[1].info = l BY <2>6, 1 \in 1..1 DEF Pushed, l
      <4> QED BY <4>1, <4>2
    <3> QED BY <2>1, <2>2, <3>7, <3>8, VerdictOfOne
  <2> QED BY <2>4, <2>5, <2>6 DEF f
<1> QED BY <1>6, <1>7 DEF Comparable, f

LEMMA VerdictFollows ==
  ASSUME VerdictInv
  PROVE  VerdictSound
BY VerdictOfPush DEF VerdictInv, TasksInv, VerdictSound

-----------------------------------------------------------------------------
(* What a push carries, step by step. *)

Comparing == {"store", "state", "archive", "insert"}

\* A push goes on with what it has.
LEMMA CarryOn ==
  ASSUME NEW call, NEW new, CarriedBy(call), new.op = call.op, new.pay = call.pay, new.local = call.local,
         new.exch = call.exch, new.reads = call.reads, new.seen = call.seen,
         \/ new.pc = call.pc /\ new.info = call.info
         \/ call.pc \in Comparing /\ new.pc \in Comparing
  PROVE  CarriedBy(new)
<1> SUFFICES ASSUME new.op = "push" PROVE Carries(new) BY DEF CarriedBy
<1>1. Carries(call) BY DEF CarriedBy
<1>2. Pushed(new) BY <1>1 DEF Carries, Pushed
<1>3. /\ Unread(call) => Unread(new)
      /\ OneAnswered(call) => OneAnswered(new)
      /\ Comparable(call) => Comparable(new)
  BY DEF Unread, OneAnswered, Witnessed, Comparable
<1>4. CASE new.pc = call.pc /\ new.info = call.info
  BY <1>1, <1>2, <1>3, <1>4 DEF Carries
<1>5. CASE call.pc \in Comparing /\ new.pc \in Comparing
  BY <1>1, <1>2, <1>3, <1>5 DEF Carries, Comparing, Gathering
<1> QED BY <1>4, <1>5

LEMMA IdleCarries == CarriedBy(Idle)
BY DEF CarriedBy, Idle

\* Whether it runs alone does not matter here.
LEMMA OverlappedCarries ==
  ASSUME NEW call, DOMAIN call = DOMAIN Idle, CarriedBy(call), NEW b
  PROVE  CarriedBy([call EXCEPT !.alone = b])
<1> DEFINE new == [call EXCEPT !.alone = b]
<1>1. /\ new.op = call.op /\ new.pay = call.pay /\ new.local = call.local /\ new.exch = call.exch
      /\ new.reads = call.reads /\ new.seen = call.seen
      /\ new.pc = call.pc /\ new.info = call.info
  BY FieldsOfCall
<1> HIDE DEF new
<1>2. CarriedBy(new) BY <1>1, CarryOn
<1> QED BY <1>2 DEF new

LEMMA DisturbedCarries ==
  ASSUME CallsInv, NEW d \in Callers, CarriedBy(calls[d])
  PROVE  CarriedBy(Disturbed(d))
<1>1. PICK b : b = (calls[d].alone /\ calls[d].pc = "idle") OBVIOUS
<1>2. DOMAIN calls[d] = DOMAIN Idle BY DEF CallsInv, Sound
<1>3. Disturbed(d) = [calls[d] EXCEPT !.alone = b] BY <1>1, <1>2, FieldsOfCall DEF Disturbed
<1> QED BY <1>2, <1>3, OverlappedCarries

LEMMA CarryGoesOn ==
  ASSUME CallsInv, CarryInv, NEW c \in Callers, NEW call, Go(c, call),
         env = "exchange" => CarriedBy(call), UNCHANGED env
  PROVE  CarryInv'
BY DEF CallsInv, CarryInv, Go

LEMMA CarryBegins ==
  ASSUME CallsInv, CarryInv, NEW c \in Callers, NEW call, Begin(c, call), DOMAIN call = DOMAIN Idle,
         env = "exchange" => CarriedBy(call), UNCHANGED env
  PROVE  CarryInv'
<1>1. PICK b : b = (env = "backtest" /\ InProgress = {}) OBVIOUS
<1>2. calls' = [d \in Callers |-> IF d = c THEN [call EXCEPT !.alone = b] ELSE Disturbed(d)]
  BY <1>1 DEF Begin
<1> SUFFICES ASSUME env = "exchange", NEW d \in Callers PROVE CarriedBy(calls'[d]) BY DEF CarryInv
<1>3. CASE d = c BY <1>2, <1>3, OverlappedCarries
<1>4. CASE d # c BY <1>2, <1>4, DisturbedCarries DEF CarryInv
<1> QED BY <1>3, <1>4

LEMMA CarryRests ==
  ASSUME CallsInv, CarryInv, UNCHANGED env,
         calls' = calls \/ calls' = [d \in Callers |-> Disturbed(d)] \/ calls' = [d \in Callers |-> Idle]
  PROVE  CarryInv'
BY DisturbedCarries, IdleCarries DEF CarryInv

LEMMA CarryReturns ==
  ASSUME CallsInv, CarryInv, NEW c \in Callers, Return(c), UNCHANGED env
  PROVE  CarryInv'
BY CarryGoesOn, IdleCarries DEF Return

\* A venue that a wallet of the request is for.
Wanted(pay, v) == IF IsFutures(v) THEN pay.futures # None ELSE pay.spot # None

LEMMA ListType == ListActiveAccountVenues \in Seq(bound)
<1> DEFINE at == {k \in DOMAIN Markets : Markets[k] \in bound}
<1>1. DOMAIN Markets = 1..3 BY DEF Markets
<1>2. at \in SUBSET (1..3) /\ 3 \in Nat /\ \A k \in at : Markets[k] \in bound BY <1>1
<1>3. ListActiveAccountVenues = Select(Markets, at) BY DEF ListActiveAccountVenues
<1> HIDE DEF at
<1> QED BY <1>2, <1>3, SelectType

LEMMA ReceivingType ==
  ASSUME NEW pay, NEW S, NEW list \in Seq(S)
  PROVE  Receiving(pay, list) \in Seq({v \in S : Wanted(pay, v)})
<1> DEFINE n == Len(list)
           at == {k \in DOMAIN list : Wanted(pay, list[k])}
           T == {v \in S : Wanted(pay, v)}
<1>1. n \in Nat /\ DOMAIN list = 1..n /\ \A k \in 1..n : list[k] \in S OBVIOUS
<1>2. at \in SUBSET (1..n) /\ \A k \in at : list[k] \in T BY <1>1
<1>3. Receiving(pay, list) = Select(list, at) BY DEF Receiving, Wanted
<1> HIDE DEF at, T
<1>4. Select(list, at) \in Seq(T) BY <1>1, <1>2, SelectType
<1> QED BY <1>3, <1>4 DEF T

\* A push begins with a wallet for each of its venues.
LEMMA PushCarries ==
  ASSUME CallsInv, CarryInv, NEW c \in Callers, NEW pay \in Requests, UpdateAccountWalletState(c, pay)
  PROVE  CarryInv'
<1> USE DEF UpdateAccountWalletState, Others, Tables
<1> DEFINE to == Receiving(pay, ListActiveAccountVenues)
           local == localVenueWalletSnapshotsFromWalletStateRequest(pay)
           new == [Idle EXCEPT !.op = "push", !.pay = pay, !.local = local,
                     !.pc = IF env = "backtest" THEN "write_list" ELSE "list"]
<1>1. Begin(c, new) /\ local # <<>> /\ UNCHANGED env OBVIOUS
<1>2. local = [k \in DOMAIN to |-> [v |-> to[k], info |-> localVenueInfo(pay, to[k])]]
  BY DEF localVenueWalletSnapshotsFromWalletStateRequest
<1>3. PICK n \in Nat : DOMAIN to = 1..n
  <2>1. to \in Seq({v \in bound : Wanted(pay, v)}) BY ListType, ReceivingType
  <2> QED BY <2>1
<1> HIDE DEF to, local
<1>4. \A k \in 1..n : local[k].info = localVenueInfo(pay, local[k].v) BY <1>2, <1>3
<1>5. local \in Seq(Range(local)) /\ Len(local) = n
  <2>1. DOMAIN local = 1..n /\ local = [k \in 1..n |-> local[k]] BY <1>2, <1>3
  <2>2. \A k \in 1..n : local[k] \in Range(local) BY <2>1 DEF Range
  <2> QED BY <1>3, <2>1, <2>2
<1>6. /\ DOMAIN new = DOMAIN Idle /\ new.pay = pay /\ new.local = local /\ new.exch = <<>> /\ new.reads = {}
      /\ new.pc = IF env = "backtest" THEN "write_list" ELSE "list"
  BY DEF Idle
<1> HIDE DEF new
<1>7. Pushed(new) BY <1>1, <1>4, <1>5, <1>6 DEF Pushed
<1>8. env = "exchange" => Carries(new) BY <1>6, <1>7 DEF Carries, Unread, Gathering
<1> QED BY <1>1, <1>6, <1>8, CarryBegins DEF CarriedBy

\* Where the read of a portfolio begins.
LEMMA PortfolioBegins ==
  ASSUME NEW call
  PROVE  \/ PortfolioOf(call) = Idle
         \/ PortfolioOf(call) = [call EXCEPT !.info = NoInfo, !.pc = "state"]
         \/ /\ env = "backtest" /\ ListActiveAccountVenues # <<>>
            /\ PortfolioOf(call) = [call EXCEPT !.todo = ListActiveAccountVenues, !.pc = "read"]
         \/ env = "exchange" /\ PortfolioOf(call) = [call EXCEPT !.pc = "fetch_account"]
<1>1. CASE PortfolioOf(call) = Idle BY <1>1
<1>2. CASE PortfolioOf(call) # Idle BY <1>2 DEF PortfolioOf
<1> QED BY <1>1, <1>2

LEMMA ListPortfolioCarries ==
  ASSUME CallsInv, CarryInv, NEW c \in Callers, ListPortfolio(c)
  PROVE  CarryInv'
<1> USE DEF ListPortfolio, Others, Tables
<1> DEFINE call == calls[c]
           new == PortfolioOf(call)
           empty == [call EXCEPT !.info = NoInfo, !.pc = "state"]
           stored == [call EXCEPT !.todo = ListActiveAccountVenues, !.pc = "read"]
           fetched == [call EXCEPT !.pc = "fetch_account"]
<1>1. Go(c, new) /\ UNCHANGED env /\ call.pc = "list" OBVIOUS
<1>2. new = Idle \/ new = empty \/ (env = "backtest" /\ new = stored) \/ new = fetched
  BY PortfolioBegins
<1>3. DOMAIN call = DOMAIN Idle BY DEF CallsInv, Sound
<1>4. /\ empty.op = call.op /\ empty.pay = call.pay /\ empty.local = call.local /\ empty.exch = call.exch
      /\ empty.reads = call.reads /\ empty.pc = "state"
  BY <1>3, FieldsOfCall
<1>5. /\ fetched.op = call.op /\ fetched.pay = call.pay /\ fetched.local = call.local
      /\ fetched.exch = call.exch /\ fetched.reads = call.reads /\ fetched.pc = "fetch_account"
  BY <1>3, FieldsOfCall
<1> HIDE DEF new, empty, stored, fetched
<1> SUFFICES ASSUME env = "exchange" PROVE CarriedBy(new) BY <1>1, CarryGoesOn
<1>6. CarriedBy(call) BY DEF CarryInv
<1>7. call.op = "push" => Pushed(call) /\ Unread(call) BY <1>1, <1>6 DEF CarriedBy, Carries
<1>8. CASE new = Idle BY <1>8, IdleCarries
<1>9. CASE new = empty
  BY <1>4, <1>7, <1>9 DEF CarriedBy, Carries, Pushed, Unread, Comparable, Gathering
<1>10. CASE new = fetched
  BY <1>5, <1>7, <1>10 DEF CarriedBy, Carries, Pushed, Unread, Gathering
<1> QED BY <1>2, <1>8, <1>9, <1>10

LEMMA FetchAccountCarries ==
  ASSUME CallsInv, CarryInv, NEW c \in Callers, fetchFuturesAccount(c), env = "exchange" => truth.futures \in FuturesWallets
  PROVE  CarryInv'
<1> USE DEF fetchFuturesAccount, Others, Tables
<1> DEFINE call == calls[c]
           futures == [truth.futures EXCEPT !.positions = <<>>]
           info == [NoInfo EXCEPT !.futures = futures]
           new == [call EXCEPT !.pc = "fetch_mode", !.reads = {truth.futures}, !.info = info]
<1>1. Go(c, new) /\ UNCHANGED env /\ call.pc = "fetch_account" OBVIOUS
<1>2. DOMAIN call = DOMAIN Idle BY DEF CallsInv, Sound
<1>3. env = "exchange" => SameFigures(futures, truth.futures)
  BY DEF FuturesWallets, SameFigures
<1>4. info.futures = futures BY DEF NoInfo
<1> HIDE DEF futures, info
<1>5. /\ new.op = call.op /\ new.pay = call.pay /\ new.local = call.local /\ new.exch = call.exch
      /\ new.reads = {truth.futures} /\ new.pc = "fetch_mode" /\ new.info = info
  BY <1>2, FieldsOfCall
<1> HIDE DEF new
<1> SUFFICES ASSUME env = "exchange" PROVE CarriedBy(new) BY <1>1, CarryGoesOn
<1>6. CarriedBy(call) BY DEF CarryInv
<1>7. call.op = "push" => Pushed(call) /\ Unread(call) BY <1>1, <1>6 DEF CarriedBy, Carries
<1>8. AsRead(new.info.futures, new.reads) BY <1>3, <1>4, <1>5 DEF AsRead
<1> QED BY <1>5, <1>7, <1>8 DEF CarriedBy, Carries, Pushed, Unread, Gathering

LEMMA FetchModeCarries ==
  ASSUME CallsInv, CarryInv, NEW c \in Callers, fetchMultiAssetsMode(c)
  PROVE  CarryInv'
<1> USE DEF fetchMultiAssetsMode, Others, Tables
<1>0. PICK multi : multi = truth.multi OBVIOUS
<1> DEFINE call == calls[c]
           new == [call EXCEPT !.pc = "fetch_balance", !.multi = multi]
<1>1. Go(c, new) /\ UNCHANGED env /\ call.pc = "fetch_mode" BY <1>0
<1>2. DOMAIN call = DOMAIN Idle BY DEF CallsInv, Sound
<1>3. /\ new.op = call.op /\ new.pay = call.pay /\ new.local = call.local /\ new.exch = call.exch
      /\ new.reads = call.reads /\ new.pc = "fetch_balance" /\ new.info = call.info
  BY <1>2, FieldsOfCall
<1> HIDE DEF new
<1> SUFFICES ASSUME env = "exchange" PROVE CarriedBy(new) BY <1>1, CarryGoesOn
<1>4. CarriedBy(call) BY DEF CarryInv
<1>5. call.op = "push" => Pushed(call) /\ call.exch = <<>> /\ call.reads # {} /\ AsRead(call.info.futures, call.reads)
  BY <1>1, <1>4 DEF CarriedBy, Carries, Gathering
<1> QED BY <1>3, <1>5 DEF CarriedBy, Carries, Pushed, Gathering

\* The summary's figures are those of the balances, if they are of one account.
LEMMA MergeKeepsFigures ==
  ASSUME NEW w, DOMAIN w = DOMAIN NoFutures, NEW now \in FuturesWallets, now.margin = now.wallet + now.pnl,
         NEW multi, NEW reads, reads # {}, AsRead(w, reads)
  PROVE  AsRead(mergeFuturesBalanceSummary(w, now, multi), reads \cup {now})
<1> DEFINE m == mergeFuturesBalanceSummary(w, now, multi)
<1> SUFFICES ASSUME NEW f, reads \cup {now} = {f}, f.wallet # 0, f.available # 0
             PROVE  SameFigures(m, f)
  BY DEF AsRead
<1>1. now = f /\ reads = {f} OBVIOUS
<1>2. SameFigures(w, f) BY <1>1 DEF AsRead
<1>3. CASE multi
  <2> DEFINE r == [w EXCEPT !.wallet = now.wallet, !.available = now.available, !.pnl = now.pnl,
                            !.margin = now.wallet + now.pnl]
  <2>1. m = r BY <1>3 DEF mergeFuturesBalanceSummary
  <2>2. r.wallet = now.wallet /\ r.available = now.available /\ r.pnl = now.pnl /\ r.margin = now.margin
        /\ r.held = w.held
    BY EmptyWallet
  <2> HIDE DEF r, m
  <2> QED BY <1>1, <1>2, <2>1, <2>2 DEF SameFigures
<1>4. CASE ~multi
  <2> DEFINE r == [w EXCEPT !.wallet = Or(@, now.wallet), !.available = Or(@, now.available)]
  <2>1. m = r BY <1>4 DEF mergeFuturesBalanceSummary
  <2>2. /\ r.wallet = Or(w.wallet, now.wallet) /\ r.available = Or(w.available, now.available)
        /\ r.pnl = w.pnl /\ r.margin = w.margin /\ r.held = w.held
    BY EmptyWallet
  <2> HIDE DEF r, m
  <2> QED BY <1>1, <1>2, <2>1, <2>2 DEF SameFigures, Or
<1> QED BY <1>3, <1>4

LEMMA FetchBalanceCarries ==
  ASSUME CallsInv, TablesInv, CarryInv, NEW c \in Callers, fetchFuturesBalance(c)
  PROVE  CarryInv'
<1> USE DEF fetchFuturesBalance, Others, Tables
<1> DEFINE call == calls[c]
           merged == mergeFuturesBalanceSummary(call.info.futures, truth.futures, call.multi)
           info == [call.info EXCEPT !.futures = merged]
           reads == call.reads \cup {truth.futures}
           new == [call EXCEPT !.pc = "fetch_positions", !.multi = FALSE, !.reads = reads, !.info = info]
<1>1. DOMAIN call = DOMAIN Idle BY DEF CallsInv, Sound
<1>2. Go(c, new) /\ UNCHANGED env /\ call.pc = "fetch_balance" BY <1>1, FieldsOfCall
<1> HIDE DEF merged, reads
<1>3. env = "exchange" => Reported(call.info) BY <1>2 DEF CallsInv, Sound, Reads
<1>4. env = "exchange" => info.futures = merged BY <1>3, EmptyWallet DEF Reported
<1> HIDE DEF info
<1>5. /\ new.op = call.op /\ new.pay = call.pay /\ new.local = call.local /\ new.exch = call.exch
      /\ new.reads = reads /\ new.pc = "fetch_positions" /\ new.info = info
  BY <1>1, FieldsOfCall
<1> HIDE DEF new
<1> SUFFICES ASSUME env = "exchange" PROVE CarriedBy(new) BY <1>2, CarryGoesOn
<1>6. CarriedBy(call) BY DEF CarryInv
<1>7. call.op = "push" => Pushed(call) /\ call.exch = <<>> /\ call.reads # {} /\ AsRead(call.info.futures, call.reads)
  BY <1>2, <1>6 DEF CarriedBy, Carries, Gathering
<1>8. truth.futures \in FuturesWallets /\ truth.futures.margin = truth.futures.wallet + truth.futures.pnl
  BY WalletAssumption DEF TablesInv, Stored
<1>9. call.op = "push" => AsRead(merged, reads)
  BY <1>3, <1>7, <1>8, MergeKeepsFigures DEF Reported, merged, reads
<1>10. reads # {} BY DEF reads
<1> QED BY <1>4, <1>5, <1>7, <1>9, <1>10 DEF CarriedBy, Carries, Pushed, Gathering

LEMMA FetchPositionsCarries ==
  ASSUME CallsInv, TablesInv, CarryInv, NEW c \in Callers, fetchFuturesPositionRisk(c)
  PROVE  CarryInv'
<1> USE DEF fetchFuturesPositionRisk, Others, Tables
<1> DEFINE call == calls[c]
           old == call.info.futures
           listed == truth.futures.positions
           open == Select(listed, {k \in DOMAIN listed : listed[k].qty # 0})
           reads == call.reads \cup {truth.futures}
           meta(known) == metadataToDomainRiskMetadata(known)
           f(known) == [old EXCEPT !.positions = open, !.meta = meta(known)]
           info(known, spot) == OnlineAccountInfo(f(known), spot)
           s(known, spot) == ReadPortfolioSnapshot(info(known, spot))
           new(known, spot) ==
             [call EXCEPT !.info = info(known, spot),
                          !.reads = reads, !.seen = truth.futures, !.exch = <<s(known, spot)>>,
                          !.pc = IF call.op = "push" THEN "match" ELSE "state"]
<1>1. DOMAIN call = DOMAIN Idle BY DEF CallsInv, Sound
<1>2. PICK known, spot : Go(c, new(known, spot)) OBVIOUS
<1>3. UNCHANGED env /\ call.pc = "fetch_positions" OBVIOUS
<1>4. open = OpenPositions(truth.futures) BY DEF OpenPositions
<1> HIDE DEF open, reads
<1>5. env = "exchange" => DOMAIN old = DOMAIN NoFutures BY <1>3 DEF CallsInv, Sound, Reads, Reported
<1>6. env = "exchange" => f(known).positions = open /\ f(known).meta = meta(known) /\ SameFigures(f(known), old)
  BY <1>5, EmptyWallet DEF SameFigures
<1> HIDE DEF f
<1>7. info(known, spot).futures = f(known) BY DEF OnlineAccountInfo
<1> HIDE DEF info
<1>8. s(known, spot).v = "perp" /\ s(known, spot).info = info(known, spot) BY DEF ReadPortfolioSnapshot
<1>9. KnownMetadata(meta(known)) BY DEF metadataToDomainRiskMetadata, KnownMetadata
<1> HIDE DEF s, meta
<1>10. /\ new(known, spot).op = call.op /\ new(known, spot).pay = call.pay
       /\ new(known, spot).local = call.local /\ new(known, spot).exch = <<s(known, spot)>>
       /\ new(known, spot).reads = reads
       /\ new(known, spot).seen = truth.futures
       /\ new(known, spot).pc = IF call.op = "push" THEN "match" ELSE "state"
  BY <1>1, FieldsOfCall
<1>11. PICK next : next = new(known, spot) OBVIOUS
<1> HIDE DEF new
<1> SUFFICES ASSUME env = "exchange", call.op = "push" PROVE Carries(next)
  BY <1>2, <1>3, <1>10, <1>11, CarryGoesOn DEF CarriedBy
<1>12. Pushed(call) /\ AsRead(old, call.reads) /\ call.reads # {}
  BY <1>3 DEF CarryInv, CarriedBy, Carries, Gathering
<1>13. AsRead(f(known), reads)
  <2> SUFFICES ASSUME NEW a, reads = {a}, a.wallet # 0, a.available # 0 PROVE SameFigures(f(known), a)
    BY DEF AsRead
  <2>1. call.reads = {a} BY <1>12 DEF reads
  <2>2. SameFigures(old, a) BY <1>12, <2>1 DEF AsRead
  <2> QED BY <1>6, <2>2 DEF SameFigures
<1>14. \E t \in Truths : truth.futures = t.futures BY DEF TablesInv, Stored
<1>15. truth.futures \in reads BY DEF reads
<1>16. Witnessed(s(known, spot), next)
  BY <1>4, <1>6, <1>7, <1>8, <1>9, <1>10, <1>11, <1>13, <1>14, <1>15 DEF Witnessed
<1>17. s(known, spot) \in Range(next.exch)
  <2>1. DOMAIN <<s(known, spot)>> = {1} /\ <<s(known, spot)>>[1] = s(known, spot) OBVIOUS
  <2> QED BY <1>10, <1>11, <2>1 DEF Range
<1>18. OneAnswered(next) BY <1>10, <1>11, <1>16, <1>17 DEF OneAnswered
<1>19. Pushed(next) BY <1>10, <1>11, <1>12 DEF Pushed
<1> QED BY <1>10, <1>11, <1>18, <1>19 DEF Carries, Gathering

\* The answer is compared if the push has a wallet for the perpetual account.
LEMMA MatchCarries ==
  ASSUME CallsInv, CarryInv, NEW c \in Callers, matchVenueWalletSnapshots(c)
  PROVE  CarryInv'
<1> USE DEF matchVenueWalletSnapshots, Others, Tables
<1> DEFINE call == calls[c]
           wanted == {s.v : s \in Range(call.local)}
           exch == Of(call.exch, wanted)
           todo == Of(exch, bound)
           new == [call EXCEPT !.exch = exch, !.todo = todo, !.pc = IF todo = <<>> THEN "state" ELSE "store"]
<1>1. DOMAIN call = DOMAIN Idle BY DEF CallsInv, Sound
<1>2. Go(c, new) /\ UNCHANGED env /\ call.pc = "match" OBVIOUS
<1> HIDE DEF wanted, exch, todo
<1>3. /\ new.op = call.op /\ new.pay = call.pay /\ new.local = call.local /\ new.exch = exch
      /\ new.reads = call.reads /\ new.seen = call.seen
      /\ new.pc \in {"state", "store"}
  BY <1>1, FieldsOfCall
<1> HIDE DEF new
<1> SUFFICES ASSUME env = "exchange", call.op = "push" PROVE Carries(new)
  BY <1>2, <1>3, CarryGoesOn DEF CarriedBy
<1>4. Pushed(call) /\ OneAnswered(call) BY <1>2 DEF CarryInv, CarriedBy, Carries
<1>5. Pushed(new) BY <1>3, <1>4 DEF Pushed
<1>6. ASSUME call.local[1].v = "perp" PROVE OneAnswered(new)
  <2>1. PICK s \in Range(call.exch) : call.exch = <<s>> /\ Witnessed(s, call) BY <1>4 DEF OneAnswered
  <2>2. "perp" \in wanted
    <3>1. call.local \in Seq(Range(call.local)) /\ call.local # <<>> BY <1>4 DEF Pushed
    <3>2. 1 \in DOMAIN call.local BY <3>1
    <3>3. call.local[1] \in Range(call.local) BY <3>2 DEF Range
    <3> QED BY <1>6, <3>3 DEF wanted
  <2>3. exch = call.exch BY <2>1, <2>2, OfOne DEF Witnessed, exch
  <2> QED BY <1>3, <2>1, <2>3 DEF OneAnswered, Witnessed
<1>7. Comparable(new) BY <1>3, <1>6 DEF Comparable
<1> QED BY <1>3, <1>5, <1>7 DEF Carries, Gathering

\* From then on nothing it carries changes.
LEMMA CompareOn ==
  ASSUME CallsInv, CarryInv, NEW c \in Callers, NEW new, Go(c, new), UNCHANGED env,
         new.op = calls[c].op, new.pay = calls[c].pay, new.local = calls[c].local,
         new.exch = calls[c].exch, new.reads = calls[c].reads,
         new.seen = calls[c].seen, calls[c].pc \in Comparing, new.pc \in Comparing
  PROVE  CarryInv'
<1> SUFFICES ASSUME env = "exchange" PROVE CarriedBy(new) BY CarryGoesOn
<1>1. CarriedBy(calls[c]) BY DEF CarryInv
<1> QED BY <1>1, CarryOn

LEMMA StoreCarries ==
  ASSUME CallsInv, CarryInv, NEW c \in Callers, updateVenueWalletStatesFromSnapshots(c)
  PROVE  CarryInv'
<1> USE DEF updateVenueWalletStatesFromSnapshots, Others
<1> DEFINE rest == Tail(calls[c].todo)
           new == [calls[c] EXCEPT !.todo = rest, !.pc = IF rest = <<>> THEN "state" ELSE @]
<1>1. DOMAIN calls[c] = DOMAIN Idle /\ calls[c].pc = "store" BY DEF CallsInv, Sound
<1>2. Go(c, new) /\ UNCHANGED env OBVIOUS
<1> HIDE DEF rest
<1>3. /\ new.op = calls[c].op /\ new.pay = calls[c].pay /\ new.local = calls[c].local
      /\ new.exch = calls[c].exch /\ new.reads = calls[c].reads
      /\ new.seen = calls[c].seen /\ new.pc \in {"state", "store"}
  BY <1>1, FieldsOfCall
<1> HIDE DEF new
<1> QED BY <1>1, <1>2, <1>3, CompareOn DEF Comparing

LEMMA UpdateStateCarries ==
  ASSUME CallsInv, CarryInv, NEW c \in Callers, UpdateAccountState(c)
  PROVE  CarryInv'
<1> USE DEF UpdateAccountState, Others
<1>1. CASE Return(c) BY <1>1, CarryReturns
<1>2. CASE ~Return(c)
  <2> DEFINE n == acct.version + 1
             new == [calls[c] EXCEPT !.own = n, !.pc = "archive"]
  <2>1. DOMAIN calls[c] = DOMAIN Idle /\ calls[c].pc = "state" BY DEF CallsInv, Sound
  <2>2. Go(c, new) /\ UNCHANGED env BY <1>2
  <2> HIDE DEF n
  <2>3. /\ new.op = calls[c].op /\ new.pay = calls[c].pay /\ new.local = calls[c].local
        /\ new.exch = calls[c].exch /\ new.reads = calls[c].reads
        /\ new.seen = calls[c].seen /\ new.pc = "archive"
    BY <2>1, FieldsOfCall
  <2> HIDE DEF new
  <2> QED BY <2>1, <2>2, <2>3, CompareOn DEF Comparing
<1> QED BY <1>1, <1>2

LEMMA ReadStateCarries ==
  ASSUME CallsInv, CarryInv, NEW c \in Callers, SnapshotReadsState(c)
  PROVE  CarryInv'
<1> USE DEF SnapshotReadsState, Others, Tables
<1> DEFINE n == acct.version
           new == [calls[c] EXCEPT !.pc = "insert", !.copied = n]
<1>1. DOMAIN calls[c] = DOMAIN Idle /\ calls[c].pc = "archive" BY DEF CallsInv, Sound
<1>2. Go(c, new) /\ UNCHANGED env OBVIOUS
<1> HIDE DEF n
<1>3. /\ new.op = calls[c].op /\ new.pay = calls[c].pay /\ new.local = calls[c].local
      /\ new.exch = calls[c].exch /\ new.reads = calls[c].reads
      /\ new.seen = calls[c].seen /\ new.pc = "insert"
  BY <1>1, FieldsOfCall
<1> HIDE DEF new
<1> QED BY <1>1, <1>2, <1>3, CompareOn DEF Comparing

\* The comparison is launched with what the push carries.
LEMMA LaunchKeepsTasks ==
  ASSUME CarryInv, TasksInv, env \in {"backtest", "exchange"}, NEW c \in Callers, SaveSnapshot(c)
  PROVE  TasksInv'
<1> DEFINE call == calls[c]
           t == Task(call)
<1>1. call.pc = "insert" BY DEF SaveSnapshot
<1>2. tasks' = tasks \/ (tasks' = tasks \cup {t} /\ call.op = "push" /\ env = "exchange") BY DEF SaveSnapshot
<1>3. /\ t.pay = call.pay /\ t.local = call.local /\ t.exch = call.exch
      /\ t.reads = call.reads /\ t.seen = call.seen
  BY DEF Task
<1> HIDE DEF t
<1>4. CASE tasks' = tasks BY <1>4 DEF TasksInv
<1>5. CASE tasks' = tasks \cup {t} /\ call.op = "push" /\ env = "exchange"
  <2>1. Pushed(call) /\ Comparable(call) BY <1>1, <1>5 DEF CarryInv, CarriedBy, Carries
  <2>2. Pushed(t) BY <1>3, <2>1 DEF Pushed
  <2>3. Comparable(t)
    <3>1. Unread(call) => Unread(t) BY <1>3 DEF Unread
    <3>2. OneAnswered(call) => OneAnswered(t) BY <1>3 DEF OneAnswered, Witnessed
    <3> QED BY <1>3, <2>1, <3>1, <3>2 DEF Comparable
  <2> QED BY <1>5, <2>2, <2>3 DEF TasksInv
<1> QED BY <1>2, <1>4, <1>5

LEMMA AttachCarries ==
  ASSUME CallsInv, CarryInv, NEW c \in Callers, NEW v \in Venues,
         BindVenue(c, v) \/ GetVenueOnlineInfo(c, v) \/ \E w : CreateVenue(c, v, w)
  PROVE  CarryInv'
<1>1. UNCHANGED env
  <2>1. (\E call : Attach(c, v, call)) \/ GetVenueOnlineInfo(c, v) BY DEF BindVenue, CreateVenue
  <2> QED BY <2>1 DEF GetVenueOnlineInfo, Attach, Others
<1>2. CASE env = "exchange"
  <2>1. CASE BindVenue(c, v) BY <1>1, <1>2, <2>1, CarryRests DEF BindVenue, Attach
  <2>2. CASE GetVenueOnlineInfo(c, v) BY <1>2, <2>2 DEF GetVenueOnlineInfo
  <2>3. CASE \E w : CreateVenue(c, v, w)
    <3>1. PICK call : Attach(c, v, call) BY <2>3 DEF CreateVenue
    <3>2. calls' = [d \in Callers |-> Disturbed(d)] BY <1>2, <3>1 DEF Attach
    <3> QED BY <1>1, <3>2, CarryRests
  <2> QED BY <2>1, <2>2, <2>3
<1>3. CASE env # "exchange" BY <1>1, <1>3 DEF CarryInv
<1> QED BY <1>2, <1>3

LEMMA RefreshBegins ==
  ASSUME NEW c \in Callers, NEW reason, UpdatePortfolioSnapshot(c, reason)
  PROVE  \E call : Begin(c, call) /\ call.op # "push" /\ DOMAIN call = DOMAIN Idle
<1> DEFINE pay == [futures |-> None, spot |-> None, reason |-> reason]
           asked == [Idle EXCEPT !.op = "refresh", !.pay = pay]
           new == PortfolioOf(asked)
<1>1. Begin(c, new) BY DEF UpdatePortfolioSnapshot
<1> HIDE DEF pay
<1>2. DOMAIN asked = DOMAIN Idle /\ asked.op = "refresh" BY FieldsOfCall
<1> HIDE DEF asked
<1> DEFINE empty == [asked EXCEPT !.info = NoInfo, !.pc = "state"]
           stored == [asked EXCEPT !.todo = ListActiveAccountVenues, !.pc = "read"]
           fetched == [asked EXCEPT !.pc = "fetch_account"]
<1>3. new = Idle \/ new = empty \/ new = stored \/ new = fetched BY PortfolioBegins
<1>4. empty.op = "refresh" /\ DOMAIN empty = DOMAIN Idle BY <1>2, FieldsOfCall
<1>5. stored.op = "refresh" /\ DOMAIN stored = DOMAIN Idle BY <1>2, FieldsOfCall
<1>6. fetched.op = "refresh" /\ DOMAIN fetched = DOMAIN Idle BY <1>2, FieldsOfCall
<1>7. Idle.op = "" BY DEF Idle
<1> HIDE DEF new, empty, stored, fetched
<1> QED BY <1>1, <1>3, <1>4, <1>5, <1>6, <1>7

LEMMA RefreshCarries ==
  ASSUME CallsInv, CarryInv, NEW c \in Callers, NEW reason, UpdatePortfolioSnapshot(c, reason)
  PROVE  CarryInv'
<1>1. PICK call : Begin(c, call) /\ call.op # "push" /\ DOMAIN call = DOMAIN Idle BY RefreshBegins
<1>2. UNCHANGED env BY DEF UpdatePortfolioSnapshot, Others
<1> QED BY <1>1, <1>2, CarryBegins DEF CarriedBy

LEMMA BacktestCarries ==
  ASSUME CallsInv, CarryInv, NEW c \in Callers,
         \/ ListBacktestWrites(c) \/ updateBacktestVenueWalletStates(c) \/ readPortfolioSnapshot(c)
         \/ attachBacktestVenueWalletState(c) \/ UpsertVenueWalletState(c)
  PROVE  CarryInv'
<1> USE DEF ListBacktestWrites, updateBacktestVenueWalletStates, readPortfolioSnapshot,
            attachBacktestVenueWalletState, UpsertVenueWalletState
<1>1. calls[c].pc \in {"write_list", "write", "read", "attach", "put"} OBVIOUS
<1>2. env # "exchange" BY <1>1, OnlyBacktest
<1>3. UNCHANGED env BY DEF Others
<1> QED BY <1>2, <1>3 DEF CarryInv

LEMMA StepCarries ==
  ASSUME IInv, CarryInv, NEW c \in Callers, Step(c)
  PROVE  CarryInv'
<1> USE DEF IInv
<1>1. env = "exchange" => truth.futures \in FuturesWallets BY WalletAssumption DEF TablesInv, Stored
<1>2. SaveSnapshot(c) => CarryInv' BY CarryReturns DEF SaveSnapshot, Others
<1>3. fetchFuturesAccount(c) => CarryInv' BY <1>1, FetchAccountCarries
<1> QED BY <1>2, <1>3, BacktestCarries, ListPortfolioCarries, FetchModeCarries, FetchBalanceCarries,
           FetchPositionsCarries, MatchCarries, StoreCarries, UpdateStateCarries, ReadStateCarries
        DEF Step

LEMMA NextCarries ==
  ASSUME IInv, CarryInv, [Next]_vars
  PROVE  CarryInv'
<1> USE DEF IInv
<1>1. ASSUME NEW c \in Callers, Step(c) PROVE CarryInv' BY <1>1, StepCarries
<1>2. ASSUME NEW c \in Callers, NEW pay \in Requests, UpdateAccountWalletState(c, pay) PROVE CarryInv'
  BY <1>2, PushCarries
<1>3. ASSUME NEW c \in Callers, NEW reason \in Reasons, UpdatePortfolioSnapshot(c, reason) PROVE CarryInv'
  BY <1>3, RefreshCarries
<1>4. ASSUME NEW c \in Callers, NEW v \in Venues, NEW w, CreateVenue(c, v, w) PROVE CarryInv'
  BY <1>4, AttachCarries
<1>5. ASSUME NEW c \in Callers, NEW v \in Venues, BindVenue(c, v) \/ GetVenueOnlineInfo(c, v) PROVE CarryInv'
  BY <1>5, AttachCarries
<1>6. ASSUME NEW v \in Venues, Detach(v) PROVE CarryInv' BY <1>6, CarryRests DEF Detach
<1>7. CASE Move BY <1>7, CarryRests DEF Move
<1>8. CASE Fail
  <2>1. PICK c \in InProgress : Return(c) BY <1>8 DEF Fail
  <2>2. c \in Callers /\ UNCHANGED env BY <1>8 DEF InProgress, Fail, Fault, Others
  <2> QED BY <2>1, <2>2, CarryReturns
<1>9. CASE (\E t \in tasks : runIsolated(t)) \/ FailRun \/ Crash \/ UNCHANGED vars
  BY <1>9, CarryRests DEF runIsolated, FailRun, Crash, Fault, Others, vars
<1> QED BY <1>1, <1>2, <1>3, <1>4, <1>5, <1>6, <1>7, <1>8, <1>9 DEF Next

LEMMA NextKeepsTasks ==
  ASSUME VerdictInv, [Next]_vars
  PROVE  TasksInv'
<1> USE DEF VerdictInv
<1>1. tasks' \subseteq tasks \/ \E c \in Callers : SaveSnapshot(c)
  <2> USE DEF Tables, Others
  <2>1. ASSUME NEW c \in Callers, Step(c), ~SaveSnapshot(c) PROVE tasks' = tasks
    BY <2>1 DEF Step, ListBacktestWrites, updateBacktestVenueWalletStates, ListPortfolio,
       readPortfolioSnapshot, fetchFuturesAccount, fetchMultiAssetsMode, fetchFuturesBalance,
       fetchFuturesPositionRisk, matchVenueWalletSnapshots, updateVenueWalletStatesFromSnapshots,
       UpdateAccountState, SnapshotReadsState, attachBacktestVenueWalletState, UpsertVenueWalletState
  <2>2. ASSUME NEW c \in Callers, NEW v \in Venues,
               BindVenue(c, v) \/ GetVenueOnlineInfo(c, v) \/ \E w : CreateVenue(c, v, w)
        PROVE  tasks' = tasks
    BY <2>2 DEF BindVenue, GetVenueOnlineInfo, CreateVenue, Attach
  <2>3. ASSUME NEW c \in Callers, \/ \E pay \in Requests : UpdateAccountWalletState(c, pay)
                                  \/ \E reason \in Reasons : UpdatePortfolioSnapshot(c, reason)
        PROVE  tasks' = tasks
    BY <2>3 DEF UpdateAccountWalletState, UpdatePortfolioSnapshot
  <2>4. ASSUME \/ \E t \in tasks : runIsolated(t)
               \/ \E v \in Venues : Detach(v)
               \/ Move \/ Fail \/ FailRun \/ Crash \/ UNCHANGED vars
        PROVE  tasks' \subseteq tasks
    BY <2>4 DEF runIsolated, Detach, Move, Fail, FailRun, Crash, Fault, vars
  <2> QED BY <2>1, <2>2, <2>3, <2>4 DEF Next
<1>2. tasks' \subseteq tasks => TasksInv' BY DEF TasksInv
<1> QED BY <1>1, <1>2, LaunchKeepsTasks

LEMMA EnvStays == Next => UNCHANGED env
<1> USE DEF Others
<1>1. ASSUME NEW c \in Callers, Step(c) PROVE env' = env
  BY <1>1 DEF Step, ListBacktestWrites, updateBacktestVenueWalletStates, ListPortfolio,
     readPortfolioSnapshot, fetchFuturesAccount, fetchMultiAssetsMode, fetchFuturesBalance,
     fetchFuturesPositionRisk, matchVenueWalletSnapshots, updateVenueWalletStatesFromSnapshots,
     UpdateAccountState, SnapshotReadsState, SaveSnapshot, attachBacktestVenueWalletState,
     UpsertVenueWalletState
<1>2. ASSUME NEW c \in Callers, NEW v \in Venues,
             BindVenue(c, v) \/ GetVenueOnlineInfo(c, v) \/ \E w : CreateVenue(c, v, w)
      PROVE  env' = env
  BY <1>2 DEF BindVenue, GetVenueOnlineInfo, CreateVenue, Attach
<1>3. ASSUME NEW c \in Callers, \/ \E pay \in Requests : UpdateAccountWalletState(c, pay)
                                \/ \E reason \in Reasons : UpdatePortfolioSnapshot(c, reason)
      PROVE  env' = env
  BY <1>3 DEF UpdateAccountWalletState, UpdatePortfolioSnapshot
<1>4. ASSUME \/ \E t \in tasks : runIsolated(t)
             \/ \E v \in Venues : Detach(v)
             \/ Move \/ Fail \/ FailRun \/ Crash
      PROVE  env' = env
  BY <1>4 DEF runIsolated, Detach, Move, Fail, FailRun, Crash, Fault
<1> QED BY <1>1, <1>2, <1>3, <1>4 DEF Next

\* Whatever a comparison is launched with, its verdict is sound: a run that passes was
\* about a position the exchange had, up to the step size of the exchange or, without its
\* metadata, of the strategy; and the exchange's own wallet is not reported
\* (CompareVenues, Compare, indexRiskMetadata; fetchFuturesAccount to
\* matchVenueWalletSnapshots).
THEOREM VerdictSoundHolds == Spec => []VerdictSound
<1>1. Init => VerdictInv
  <2> SUFFICES ASSUME Init PROVE VerdictInv OBVIOUS
  <2>1. env \in {"backtest", "exchange"} /\ tasks = {} BY DEF Init
  <2>2. \A c \in Callers : calls[c] = Idle BY DEF Init
  <2> QED BY <2>1, <2>2, IdleCarries DEF VerdictInv, CarryInv, TasksInv
<1>2. IInv /\ VerdictInv /\ [Next]_vars => VerdictInv'
  <2> SUFFICES ASSUME IInv, VerdictInv, [Next]_vars PROVE VerdictInv' OBVIOUS
  <2>1. UNCHANGED env BY EnvStays DEF vars
  <2> QED BY <2>1, NextCarries, NextKeepsTasks DEF VerdictInv
<1>3. VerdictInv => VerdictSound BY VerdictFollows
<1> QED BY <1>1, <1>2, <1>3, Inductive, PTL DEF Spec

-----------------------------------------------------------------------------
(* What a push that nothing overlaps has written. *)

LocalOf(pay, list) ==
  LET to == Receiving(pay, list)
  IN  [k \in DOMAIN to |-> [v |-> to[k], info |-> localVenueInfo(pay, to[k])]]

\* The venue of the one wallet that a push carries shows it.
Written(call, table, list) ==
  Len(call.local) = 1 =>
    LET v == call.local[1].v
    IN  /\ call.pc = "write" => call.todo = Receiving(call.pay, list)
        /\ call.pc \in {"list", "read", "state"} =>
             table[v] = backtestVenueInfo(aggregateVenueWalletSnapshots(call.local), v)

\* A push on a backtest account whose venues are the list.
AlonePush(call, table, list) ==
  /\ call.pay \in Requests
  /\ call.pc \in {"write_list", "write", "list", "read", "state", "archive", "insert"}
  /\ call.local = LocalOf(call.pay, list)
  /\ Written(call, table, list)

Alone(c) ==
  calls[c].alone /\ calls[c].pc # "idle" =>
    /\ env = "backtest"
    /\ \A d \in Callers \ {c} : calls[d].pc = "idle"
    /\ calls[c].op = "push" => AlonePush(calls[c], rows, ListActiveAccountVenues)

AloneInv == bound \subseteq Venues /\ \A c \in Callers : Alone(c)

-----------------------------------------------------------------------------
(* What is read back. *)

LEMMA AggregateOne ==
  ASSUME NEW s
  PROVE  aggregateVenueWalletSnapshots(<<s>>) = s.info
<1> DEFINE Op(m, x) == mergePortfolioOnlineInfo(m, x.info)
           Folds(g) == g = [at \in SUBSET {1} |-> IF at = {} THEN None
                              ELSE LET x == Max(at) IN Op(g[at \ {x}], <<s>>[x])]
           fold == [at \in SUBSET {1} |-> IF at = {} THEN None ELSE s.info]
<1>1. \A at \in SUBSET {1} : at # {} => at = {1} /\ Max(at) = 1 /\ at \ {Max(at)} = {}
  <2>1. Max({1}) = 1 BY DEF Max
  <2> QED BY <2>1
<1>2. \A x : mergePortfolioOnlineInfo(None, x) = x BY DEF mergePortfolioOnlineInfo
<1>3. Folds(fold)
  <2>1. \A at \in SUBSET {1} : fold[at] = IF at = {} THEN None
                                          ELSE LET x == Max(at) IN Op(fold[at \ {x}], <<s>>[x])
    BY <1>1, <1>2
  <2> QED BY <2>1
<1>4. \A g : Folds(g) => g[{1}] = s.info
  <2> SUFFICES ASSUME NEW g, Folds(g) PROVE g[{1}] = s.info OBVIOUS
  <2>1. {} \in SUBSET {1} /\ {1} \in SUBSET {1} /\ {1} # {} OBVIOUS
  <2>2. g[{}] = None BY <2>1
  <2>3. g[{1}] = Op(g[{1} \ {Max({1})}], <<s>>[Max({1})]) BY <2>1
  <2>4. Max({1}) = 1 /\ {1} \ {Max({1})} = {} /\ <<s>>[1] = s BY <1>1, <2>1
  <2>5. g[{1}] = Op(None, s) BY <2>2, <2>3, <2>4
  <2> QED BY <1>2, <2>5
<1>5. DOMAIN <<s>> = {1} /\ <<s>> # <<>> OBVIOUS
<1>6. aggregateVenueWalletSnapshots(<<s>>) = (CHOOSE g : Folds(g))[{1}]
  BY <1>5, Zenon DEF aggregateVenueWalletSnapshots, FoldLeft, MapThenFoldSet
<1> QED BY <1>3, <1>4, <1>6

\* What a push stores for a venue and reads back is the request's wallet.
LEMMA ReadBack ==
  ASSUME NEW pay \in Requests, NEW v, Wanted(pay, v),
         pay.futures = None \/ (pay.futures.wallet # 0 /\ pay.futures.available # 0)
  PROVE  LET row == backtestVenueInfo(localVenueInfo(pay, v), v)
             shown == portfolioSnapshotFromOnlineInfoForVenue(row, v)
         IN  IF IsFutures(v) THEN shown.futures = fromProtoFuturesWallet(pay.futures)
             ELSE shown.spot = pay.spot
<1> DEFINE l == localVenueInfo(pay, v)
           row == backtestVenueInfo(l, v)
           i == ensureBacktestVenueOnlineInfoDefaults(row, v)
           shown == portfolioSnapshotFromOnlineInfoForVenue(row, v)
<1>1. CASE IsFutures(v)
  <2> DEFINE f == fromProtoFuturesWallet(pay.futures)
             part == [l EXCEPT !.spot = NoSpot]
             boot == futuresOnlyBacktestVenueInfo(part)
  <2>1. pay.futures \in FuturesWallets /\ pay.futures.wallet # 0 /\ pay.futures.available # 0
    BY <1>1, RequestWallet DEF Wanted
  <2>2. Settled(f) /\ f \in FuturesWallets /\ f.wallet # 0 /\ f.available # 0 BY <2>1, FromProto
  <2>3. DOMAIN l = DOMAIN NoInfo /\ l.futures = f BY <1>1, <2>1, <2>2, LocalFutures
  <2> HIDE DEF l, f
  <2>4. DOMAIN boot = DOMAIN NoInfo /\ boot.futures = f
    <3>1. DOMAIN part = DOMAIN NoInfo /\ part.futures = f BY <2>3, EmptyWallet
    <3> HIDE DEF part
    <3> QED BY <3>1, EmptyWallet DEF futuresOnlyBacktestVenueInfo
  <2>5. row = ensureBacktestVenueOnlineInfoDefaults(boot, v) BY <1>1 DEF backtestVenueInfo
  <2> HIDE DEF boot
  <2>6. DOMAIN row = DOMAIN NoInfo /\ row.futures = f
    BY <1>1, <2>2, <2>4, <2>5, DefaultsKeep, DefaultsOfFutures
  <2> HIDE DEF row
  <2>7. i.futures = f BY <1>1, <2>2, <2>6, DefaultsOfFutures
  <2>8. shown.futures = i.futures
    BY <1>1, EmptyWallet DEF portfolioSnapshotFromOnlineInfoForVenue
  <2> QED BY <1>1, <2>7, <2>8 DEF f, l, row
<1>2. CASE ~IsFutures(v)
  <2> DEFINE first == spotOnlyBacktestVenueInfo([NoInfo EXCEPT !.spot = pay.spot])
             part == [l EXCEPT !.futures = NoFutures]
             boot == spotOnlyBacktestVenueInfo(part)
  <2>1. l = ensureBacktestVenueOnlineInfoDefaults(first, v) BY <1>2 DEF localVenueInfo
  <2>2. DOMAIN first = DOMAIN NoInfo /\ first.spot = pay.spot
    BY EmptyWallet DEF spotOnlyBacktestVenueInfo
  <2> HIDE DEF first
  <2>3. DOMAIN l = DOMAIN NoInfo /\ l.spot = pay.spot BY <1>2, <2>1, <2>2, DefaultsKeep
  <2> HIDE DEF l
  <2>4. DOMAIN boot = DOMAIN NoInfo /\ boot.spot = pay.spot
    <3>1. DOMAIN part = DOMAIN NoInfo /\ part.spot = pay.spot BY <2>3, EmptyWallet
    <3> HIDE DEF part
    <3> QED BY <3>1, EmptyWallet DEF spotOnlyBacktestVenueInfo
  <2>5. row = ensureBacktestVenueOnlineInfoDefaults(boot, v) BY <1>2 DEF backtestVenueInfo
  <2> HIDE DEF boot
  <2>6. DOMAIN row = DOMAIN NoInfo /\ row.spot = pay.spot BY <1>2, <2>4, <2>5, DefaultsKeep
  <2> HIDE DEF row
  <2>7. i.spot = pay.spot BY <1>2, <2>6, DefaultsKeep
  <2>8. shown.spot = i.spot BY <1>2, EmptyWallet DEF portfolioSnapshotFromOnlineInfoForVenue
  <2> QED BY <1>2, <2>7, <2>8 DEF l, row
<1> QED BY <1>1, <1>2

\* A push with one wallet has one venue to write.
LEMMA LocalOfOne ==
  ASSUME NEW pay, NEW S, NEW list \in Seq(S), Len(LocalOf(pay, list)) = 1
  PROVE  LET local == LocalOf(pay, list)
             v == local[1].v
         IN  /\ Receiving(pay, list) = <<v>> /\ v \in S /\ Wanted(pay, v)
             /\ aggregateVenueWalletSnapshots(local) = localVenueInfo(pay, v)
<1> DEFINE to == Receiving(pay, list)
           T == {v \in S : Wanted(pay, v)}
           local == LocalOf(pay, list)
<1>1. to \in Seq(T) BY ReceivingType
<1>2. local = [k \in DOMAIN to |-> [v |-> to[k], info |-> localVenueInfo(pay, to[k])]] BY DEF LocalOf
<1> HIDE DEF to, local
<1>3. Len(to) \in Nat /\ DOMAIN to = 1..Len(to) BY <1>1
<1>4. Len(local) = Len(to) BY <1>2, <1>3
<1>5. Len(to) = 1 BY <1>4 DEF local
<1> HIDE DEF T
<1>6. to = <<to[1]>> BY <1>1, <1>5
<1>7. to[1] \in T BY <1>1, <1>5
<1> DEFINE s == [v |-> to[1], info |-> localVenueInfo(pay, to[1])]
<1>8. local = <<s>>
  <2>1. local[1] = s /\ DOMAIN local = 1..1 BY <1>2, <1>3, <1>5
  <2>2. local \in Seq({s}) /\ Len(local) = 1
    <3>1. local = [k \in 1..1 |-> s] BY <1>2, <1>3, <1>5
    <3> HIDE DEF s
    <3> QED BY <3>1
  <2> HIDE DEF s
  <2> QED BY <2>1, <2>2
<1>9. s.v = to[1] /\ s.info = localVenueInfo(pay, to[1]) OBVIOUS
<1> HIDE DEF s
<1>10. local[1] = s BY <1>8
<1>11. aggregateVenueWalletSnapshots(local) = s.info BY <1>8, AggregateOne
<1> QED BY <1>6, <1>7, <1>9, <1>10, <1>11 DEF local, to, T

OnItsWay == {"write_list", "write", "list", "read", "state", "archive", "insert"}

LEMMA ListStays == UNCHANGED bound => UNCHANGED ListActiveAccountVenues
BY DEF ListActiveAccountVenues

\* A call that another one has overlapped is not alone.
LEMMA OverlappedIsNotAlone ==
  ASSUME CallsInv, NEW d \in Callers, Disturbed(d).alone
  PROVE  Disturbed(d).pc = "idle"
<1>1. PICK b : b = (calls[d].alone /\ calls[d].pc = "idle") OBVIOUS
<1>2. DOMAIN calls[d] = DOMAIN Idle BY DEF CallsInv, Sound
<1>3. Disturbed(d) = [calls[d] EXCEPT !.alone = b] BY <1>1, <1>2, FieldsOfCall DEF Disturbed
<1>4. Disturbed(d).alone = b /\ Disturbed(d).pc = calls[d].pc BY <1>2, <1>3, FieldsOfCall
<1>5. b BY <1>4
<1>6. calls[d].pc = "idle" BY <1>1, <1>5
<1> QED BY <1>4, <1>6

LEMMA AloneRests ==
  ASSUME CallsInv, AloneInv,
         \/ UNCHANGED <<env, bound, rows, calls>>
         \/ bound' \subseteq Venues /\ calls' = [d \in Callers |-> Disturbed(d)]
         \/ bound' \subseteq Venues /\ calls' = [d \in Callers |-> Idle]
  PROVE  AloneInv'
<1>1. CASE UNCHANGED <<env, bound, rows, calls>> BY <1>1, ListStays DEF AloneInv, Alone
<1>2. CASE bound' \subseteq Venues /\ calls' = [d \in Callers |-> Disturbed(d)]
  <2>1. \A d \in Callers : calls'[d] = Disturbed(d) BY <1>2
  <2> QED BY <1>2, <2>1, OverlappedIsNotAlone DEF AloneInv, Alone
<1>3. CASE bound' \subseteq Venues /\ calls' = [d \in Callers |-> Idle]
  BY <1>3 DEF AloneInv, Alone, Idle
<1> QED BY <1>1, <1>2, <1>3

\* A call that goes on is alone as before, and no other one is.
LEMMA AloneGoesOn ==
  ASSUME CallsInv, AloneInv, NEW c \in Callers, calls[c].pc # "idle", NEW new, Go(c, new),
         UNCHANGED <<env, bound>>, new.alone = calls[c].alone, new.op = calls[c].op,
         calls[c].op = "push" /\ AlonePush(calls[c], rows, ListActiveAccountVenues)
           => AlonePush(new, rows', ListActiveAccountVenues)
  PROVE  AloneInv'
<1>1. DOMAIN calls = Callers /\ calls' = [calls EXCEPT ![c] = new] BY DEF CallsInv, Go
<1>2. ListActiveAccountVenues' = ListActiveAccountVenues BY ListStays
<1>3. bound' \subseteq Venues BY DEF AloneInv
<1> SUFFICES ASSUME NEW d \in Callers, calls'[d].alone, calls'[d].pc # "idle"
             PROVE  /\ env' = "backtest"
                    /\ \A e \in Callers \ {d} : calls'[e].pc = "idle"
                    /\ calls'[d].op = "push" => AlonePush(calls'[d], rows', ListActiveAccountVenues')
  BY <1>3 DEF AloneInv, Alone
<1>4. CASE d = c
  <2>1. calls'[d] = new BY <1>1, <1>4
  <2>2. /\ env = "backtest"
        /\ \A e \in Callers \ {c} : calls[e].pc = "idle"
        /\ calls[c].op = "push" => AlonePush(calls[c], rows, ListActiveAccountVenues)
    <3>1. calls[c].alone BY <2>1
    <3> QED BY <3>1 DEF AloneInv, Alone
  <2>3. \A e \in Callers \ {d} : calls'[e].pc = "idle" BY <1>1, <1>4, <2>2
  <2>4. calls'[d].op = "push" => AlonePush(calls'[d], rows', ListActiveAccountVenues')
    BY <1>2, <2>1, <2>2
  <2> QED BY <2>2, <2>3, <2>4
<1>5. CASE d # c
  <2>1. calls'[d] = calls[d] BY <1>1, <1>5
  <2>2. calls[c].pc = "idle" BY <1>5, <2>1 DEF AloneInv, Alone
  <2> QED BY <2>2
<1> QED BY <1>4, <1>5

LEMMA AloneReturns ==
  ASSUME CallsInv, AloneInv, NEW c \in Callers, calls[c].pc # "idle", Return(c), UNCHANGED <<env, bound>>
  PROVE  AloneInv'
<1>1. DOMAIN calls = Callers /\ calls' = [calls EXCEPT ![c] = Idle] BY DEF CallsInv, Return, Go
<1>2. bound' \subseteq Venues BY DEF AloneInv
<1>3. \A d \in Callers : ~(calls'[d].alone /\ calls'[d].pc # "idle")
  <2> SUFFICES ASSUME NEW d \in Callers, calls'[d].alone, calls'[d].pc # "idle" PROVE FALSE OBVIOUS
  <2>1. d # c BY <1>1 DEF Idle
  <2>2. calls'[d] = calls[d] BY <1>1, <2>1
  <2> QED BY <2>1, <2>2 DEF AloneInv, Alone
<1> QED BY <1>2, <1>3 DEF AloneInv, Alone

\* A step that no push on a backtest account takes.
LEMMA OffPush ==
  ASSUME CallsInv, AloneInv, NEW c \in Callers, calls[c].pc # "idle", calls[c].pc \notin OnItsWay,
         NEW new, Go(c, new), UNCHANGED <<env, bound>>, new.alone = calls[c].alone, new.op = calls[c].op
  PROVE  AloneInv'
<1>1. ~AlonePush(calls[c], rows, ListActiveAccountVenues) BY DEF AlonePush, OnItsWay
<1> QED BY <1>1, AloneGoesOn

LEMMA AloneBegins ==
  ASSUME CallsInv, AloneInv, NEW c \in Callers, NEW call, Begin(c, call), DOMAIN call = DOMAIN Idle,
         UNCHANGED env, bound' \subseteq Venues,
         call.op = "push" /\ env = "backtest" => AlonePush(call, rows', ListActiveAccountVenues')
  PROVE  AloneInv'
<1>1. PICK b : b = (env = "backtest" /\ InProgress = {}) OBVIOUS
<1>2. calls' = [d \in Callers |-> IF d = c THEN [call EXCEPT !.alone = b] ELSE Disturbed(d)]
  BY <1>1 DEF Begin
<1> DEFINE new == [call EXCEPT !.alone = b]
<1>3. /\ new.alone = b /\ new.op = call.op /\ new.pay = call.pay /\ new.pc = call.pc /\ new.local = call.local
      /\ new.todo = call.todo
  BY FieldsOfCall
<1> HIDE DEF new
<1>4. calls'[c] = new /\ \A d \in Callers \ {c} : calls'[d] = Disturbed(d) BY <1>2 DEF new
<1> SUFFICES ASSUME NEW d \in Callers, calls'[d].alone, calls'[d].pc # "idle"
             PROVE  /\ env' = "backtest"
                    /\ \A e \in Callers \ {d} : calls'[e].pc = "idle"
                    /\ calls'[d].op = "push" => AlonePush(calls'[d], rows', ListActiveAccountVenues')
  BY DEF AloneInv, Alone
<1>5. CASE d = c
  <2>1. b BY <1>3, <1>4, <1>5
  <2>2. env = "backtest" /\ InProgress = {} BY <1>1, <2>1
  <2>3. \A e \in Callers \ {c} : calls'[e].pc = "idle"
    <3> SUFFICES ASSUME NEW e \in Callers \ {c} PROVE Disturbed(e).pc = "idle" BY <1>4
    <3>1. calls[e].pc = "idle" BY <2>2 DEF InProgress
    <3>2. Disturbed(e).pc = calls[e].pc
      <4>1. DOMAIN calls[e] = DOMAIN Idle BY DEF CallsInv, Sound
      <4>2. PICK a : a = (calls[e].alone /\ calls[e].pc = "idle") OBVIOUS
      <4>3. Disturbed(e) = [calls[e] EXCEPT !.alone = a] BY <4>1, <4>2, FieldsOfCall DEF Disturbed
      <4> QED BY <4>1, <4>3, FieldsOfCall
    <3> QED BY <3>1, <3>2
  <2>4. new.op = "push" => AlonePush(new, rows', ListActiveAccountVenues')
    <3> SUFFICES ASSUME new.op = "push" PROVE AlonePush(new, rows', ListActiveAccountVenues') OBVIOUS
    <3>1. AlonePush(call, rows', ListActiveAccountVenues') BY <1>3, <2>2
    <3> QED BY <1>3, <3>1 DEF AlonePush, Written
  <2> QED BY <1>4, <1>5, <2>2, <2>3, <2>4
<1>6. CASE d # c
  <2>1. calls'[d] = Disturbed(d) BY <1>4, <1>6
  <2> QED BY <2>1, OverlappedIsNotAlone
<1> QED BY <1>5, <1>6

LEMMA PushBeginsAlone ==
  ASSUME CallsInv, AloneInv, NEW c \in Callers, NEW pay \in Requests, UpdateAccountWalletState(c, pay)
  PROVE  AloneInv'
<1> USE DEF UpdateAccountWalletState, Others, Tables
<1> DEFINE local == localVenueWalletSnapshotsFromWalletStateRequest(pay)
           new == [Idle EXCEPT !.op = "push", !.pay = pay, !.local = local,
                     !.pc = IF env = "backtest" THEN "write_list" ELSE "list"]
<1>1. Begin(c, new) /\ UNCHANGED <<env, bound, rows>> OBVIOUS
<1>2. local = LocalOf(pay, ListActiveAccountVenues)
  BY DEF localVenueWalletSnapshotsFromWalletStateRequest, LocalOf
<1>3. ListActiveAccountVenues' = ListActiveAccountVenues /\ bound' \subseteq Venues
  BY <1>1, ListStays DEF AloneInv
<1> HIDE DEF local
<1>4. /\ DOMAIN new = DOMAIN Idle /\ new.pay = pay /\ new.local = local
      /\ new.pc = IF env = "backtest" THEN "write_list" ELSE "list"
  BY DEF Idle
<1> HIDE DEF new
<1>5. env = "backtest" => AlonePush(new, rows', ListActiveAccountVenues')
  BY <1>2, <1>3, <1>4 DEF AlonePush, Written
<1> QED BY <1>1, <1>3, <1>4, <1>5, AloneBegins

LEMMA ListWritesAlone ==
  ASSUME CallsInv, AloneInv, NEW c \in Callers, ListBacktestWrites(c)
  PROVE  AloneInv'
<1> USE DEF ListBacktestWrites, Others, Tables
<1> DEFINE call == calls[c]
           to == Receiving(call.pay, ListActiveAccountVenues)
           new == [call EXCEPT !.todo = to, !.pc = "write"]
<1>1. call.pc = "write_list" /\ UNCHANGED <<env, bound, rows>> OBVIOUS
<1>2. CASE Return(c) BY <1>1, <1>2, AloneReturns
<1>3. CASE ~Return(c)
  <2>1. Go(c, new) BY <1>3
  <2>2. DOMAIN call = DOMAIN Idle BY DEF CallsInv, Sound
  <2>3. to = Receiving(call.pay, ListActiveAccountVenues) OBVIOUS
  <2> HIDE DEF to
  <2>4. /\ new.op = call.op /\ new.alone = call.alone /\ new.pay = call.pay /\ new.local = call.local
        /\ new.todo = to /\ new.pc = "write"
    BY <2>2, FieldsOfCall
  <2> HIDE DEF new
  <2>5. AlonePush(call, rows, ListActiveAccountVenues) => AlonePush(new, rows', ListActiveAccountVenues)
    BY <1>1, <2>3, <2>4 DEF AlonePush, Written
  <2> QED BY <1>1, <2>1, <2>4, <2>5, AloneGoesOn
<1> QED BY <1>2, <1>3

\* The one venue of a push with one wallet is written in one step.
LEMMA WriteAlone ==
  ASSUME CallsInv, TablesInv, AloneInv, NEW c \in Callers, updateBacktestVenueWalletStates(c)
  PROVE  AloneInv'
<1> USE DEF updateBacktestVenueWalletStates, Others
<1> DEFINE call == calls[c]
           v == Head(call.todo)
           rest == Tail(call.todo)
           row == backtestVenueInfo(aggregateVenueWalletSnapshots(call.local), v)
           new == [call EXCEPT !.todo = rest, !.pc = IF rest = <<>> THEN "list" ELSE @]
<1>1. /\ call.pc = "write" /\ UNCHANGED <<env, bound>> /\ Go(c, new)
      /\ rows' = [rows EXCEPT ![v] = row]
  OBVIOUS
<1>2. DOMAIN call = DOMAIN Idle BY DEF CallsInv, Sound
<1>3. row = backtestVenueInfo(aggregateVenueWalletSnapshots(call.local), v) OBVIOUS
<1> HIDE DEF row, rest
<1>4. /\ new.op = call.op /\ new.alone = call.alone /\ new.pay = call.pay /\ new.local = call.local
      /\ new.todo = rest /\ new.pc = IF rest = <<>> THEN "list" ELSE "write"
  BY <1>1, <1>2, FieldsOfCall
<1> HIDE DEF new
<1>5. ASSUME AlonePush(call, rows, ListActiveAccountVenues)
      PROVE  AlonePush(new, rows', ListActiveAccountVenues)
  <2>1. ASSUME Len(call.local) = 1
        PROVE  new.pc = "list" /\ rows'[call.local[1].v] = backtestVenueInfo(aggregateVenueWalletSnapshots(call.local), call.local[1].v)
    <3>1. call.todo = Receiving(call.pay, ListActiveAccountVenues) /\ call.local = LocalOf(call.pay, ListActiveAccountVenues)
      BY <1>1, <1>5, <2>1 DEF AlonePush, Written
    <3>2. call.todo = <<call.local[1].v>> /\ call.local[1].v \in bound
      BY <2>1, <3>1, ListType, LocalOfOne
    <3>3. v = call.local[1].v /\ rest = <<>> BY <3>2, OneAnswer DEF rest
    <3>4. v \in DOMAIN rows BY <3>2, <3>3 DEF AloneInv, TablesInv
    <3>5. rows'[v] = row BY <1>1, <3>4
    <3> QED BY <1>3, <1>4, <3>3, <3>5
  <2> QED BY <1>4, <1>5, <2>1 DEF AlonePush, Written
<1> QED BY <1>1, <1>4, <1>5, AloneGoesOn

\* Until the account's state is written the rows stay.
LEMMA ReadsAlone ==
  ASSUME CallsInv, AloneInv, NEW c \in Callers, NEW new, Go(c, new), UNCHANGED <<env, bound, rows>>,
         new.op = calls[c].op, new.alone = calls[c].alone, new.pay = calls[c].pay, new.local = calls[c].local,
         \/ calls[c].pc \in {"list", "read"} /\ new.pc \in {"read", "state"}
         \/ calls[c].pc \in {"state", "archive"} /\ new.pc \in {"archive", "insert"}
  PROVE  AloneInv'
<1>1. AlonePush(calls[c], rows, ListActiveAccountVenues) => AlonePush(new, rows', ListActiveAccountVenues)
  BY DEF AlonePush, Written
<1> QED BY <1>1, AloneGoesOn

LEMMA ListPortfolioAlone ==
  ASSUME CallsInv, AloneInv, NEW c \in Callers, ListPortfolio(c)
  PROVE  AloneInv'
<1> USE DEF ListPortfolio, Others, Tables
<1> DEFINE call == calls[c]
           new == PortfolioOf(call)
           empty == [call EXCEPT !.info = NoInfo, !.pc = "state"]
           stored == [call EXCEPT !.todo = ListActiveAccountVenues, !.pc = "read"]
           fetched == [call EXCEPT !.pc = "fetch_account"]
<1>1. Go(c, new) /\ UNCHANGED <<env, bound, rows>> /\ call.pc = "list" OBVIOUS
<1>2. new = Idle \/ new = empty \/ new = stored \/ (env = "exchange" /\ new = fetched)
  BY PortfolioBegins
<1>3. DOMAIN call = DOMAIN Idle BY DEF CallsInv, Sound
<1>4. /\ empty.op = call.op /\ empty.alone = call.alone /\ empty.pay = call.pay /\ empty.local = call.local
      /\ empty.pc = "state"
  BY <1>3, FieldsOfCall
<1>5. /\ stored.op = call.op /\ stored.alone = call.alone /\ stored.pay = call.pay /\ stored.local = call.local
      /\ stored.pc = "read"
  BY <1>3, FieldsOfCall
<1>6. fetched.op = call.op /\ fetched.alone = call.alone BY <1>3, FieldsOfCall
<1>7. CASE new = Idle BY <1>1, <1>7, AloneReturns DEF Return
<1> HIDE DEF new, empty, stored, fetched
<1>8. CASE new = empty BY <1>1, <1>4, <1>8, ReadsAlone
<1>9. CASE new = stored BY <1>1, <1>5, <1>9, ReadsAlone
<1>10. CASE env = "exchange" /\ new = fetched
  <2>1. \A d \in Callers : calls'[d].alone => calls'[d].pc = "idle"
    <3>1. DOMAIN calls = Callers /\ calls' = [calls EXCEPT ![c] = new] BY <1>1 DEF CallsInv, Go
    <3>2. \A d \in Callers : calls[d].alone => calls[d].pc = "idle" BY <1>10 DEF AloneInv, Alone
    <3>3. calls'[c].alone = call.alone BY <1>6, <1>10, <3>1
    <3>4. ~call.alone BY <1>1, <3>2
    <3> QED BY <3>1, <3>2, <3>3, <3>4
  <2> QED BY <1>1, <2>1 DEF AloneInv, Alone
<1> QED BY <1>2, <1>7, <1>8, <1>9, <1>10

LEMMA ReadPortfolioAlone ==
  ASSUME CallsInv, AloneInv, NEW c \in Callers, readPortfolioSnapshot(c)
  PROVE  AloneInv'
<1> USE DEF readPortfolioSnapshot, Others, Tables
<1>1. calls[c].pc = "read" /\ UNCHANGED <<env, bound, rows>> OBVIOUS
<1>2. CASE Return(c) BY <1>1, <1>2, AloneReturns
<1>3. CASE ~Return(c)
  <2> DEFINE v == Head(calls[c].todo)
             rest == Tail(calls[c].todo)
             merged == mergePortfolioOnlineInfo(calls[c].info, portfolioSnapshotFromOnlineInfoForVenue(rows[v], v))
             new == [calls[c] EXCEPT !.todo = rest, !.pc = IF rest = <<>> THEN "state" ELSE @, !.info = merged]
  <2>1. DOMAIN calls[c] = DOMAIN Idle BY DEF CallsInv, Sound
  <2>2. Go(c, new) BY <1>3, <2>1, FieldsOfCall
  <2> HIDE DEF rest, merged
  <2>3. /\ new.op = calls[c].op /\ new.alone = calls[c].alone /\ new.pay = calls[c].pay
        /\ new.local = calls[c].local /\ new.pc \in {"read", "state"}
    BY <1>1, <2>1, FieldsOfCall
  <2> HIDE DEF new
  <2> QED BY <1>1, <2>2, <2>3, ReadsAlone
<1> QED BY <1>2, <1>3

LEMMA StateAlone ==
  ASSUME CallsInv, AloneInv, NEW c \in Callers, UpdateAccountState(c) \/ SnapshotReadsState(c) \/ SaveSnapshot(c)
  PROVE  AloneInv'
<1> USE DEF Others, Tables
<1>1. DOMAIN calls[c] = DOMAIN Idle BY DEF CallsInv, Sound
<1>2. calls[c].pc \in {"state", "archive", "insert"} /\ UNCHANGED <<env, bound, rows>>
  BY DEF UpdateAccountState, SnapshotReadsState, SaveSnapshot
<1>3. CASE Return(c) BY <1>2, <1>3, AloneReturns
<1>4. CASE UpdateAccountState(c) /\ ~Return(c)
  <2> DEFINE n == acct.version + 1
             new == [calls[c] EXCEPT !.own = n, !.pc = "archive"]
  <2>1. Go(c, new) /\ calls[c].pc = "state" BY <1>4 DEF UpdateAccountState
  <2> HIDE DEF n
  <2>2. /\ new.op = calls[c].op /\ new.alone = calls[c].alone /\ new.pay = calls[c].pay
        /\ new.local = calls[c].local /\ new.pc = "archive"
    BY <1>1, FieldsOfCall
  <2> HIDE DEF new
  <2> QED BY <1>2, <2>1, <2>2, ReadsAlone
<1>5. CASE SnapshotReadsState(c)
  <2> DEFINE n == acct.version
             new == [calls[c] EXCEPT !.pc = "insert", !.copied = n]
  <2>1. Go(c, new) /\ calls[c].pc = "archive" BY <1>5 DEF SnapshotReadsState
  <2> HIDE DEF n
  <2>2. /\ new.op = calls[c].op /\ new.alone = calls[c].alone /\ new.pay = calls[c].pay
        /\ new.local = calls[c].local /\ new.pc = "insert"
    BY <1>1, FieldsOfCall
  <2> HIDE DEF new
  <2> QED BY <1>2, <2>1, <2>2, ReadsAlone
<1>6. SaveSnapshot(c) => Return(c) BY DEF SaveSnapshot
<1> QED BY <1>3, <1>4, <1>5, <1>6

\* The steps of other calls, and of a call on an exchange.
LEMMA OthersAlone ==
  ASSUME CallsInv, AloneInv, NEW c \in Callers,
         \/ fetchFuturesAccount(c) \/ fetchMultiAssetsMode(c) \/ fetchFuturesBalance(c) \/ fetchFuturesPositionRisk(c)
         \/ matchVenueWalletSnapshots(c) \/ updateVenueWalletStatesFromSnapshots(c)
         \/ attachBacktestVenueWalletState(c)
  PROVE  AloneInv'
<1> DEFINE call == calls[c]
<1>1. DOMAIN call = DOMAIN Idle BY DEF CallsInv, Sound
<1>2. call.pc \in {"fetch_account", "fetch_mode", "fetch_balance", "fetch_positions", "match", "store", "attach"}
  BY DEF fetchFuturesAccount, fetchMultiAssetsMode, fetchFuturesBalance, fetchFuturesPositionRisk,
         matchVenueWalletSnapshots, updateVenueWalletStatesFromSnapshots, attachBacktestVenueWalletState
<1>3. UNCHANGED <<env, bound>>
  BY DEF fetchFuturesAccount, fetchMultiAssetsMode, fetchFuturesBalance, fetchFuturesPositionRisk,
         matchVenueWalletSnapshots, updateVenueWalletStatesFromSnapshots, attachBacktestVenueWalletState, Others
<1>4. \E new : Go(c, new) /\ new.alone = call.alone /\ new.op = call.op
  <2>1. CASE fetchFuturesAccount(c)
    <3>1. PICK reads, info : Go(c, [call EXCEPT !.pc = "fetch_mode", !.reads = reads, !.info = info])
      BY <2>1 DEF fetchFuturesAccount
    <3> DEFINE new == [call EXCEPT !.pc = "fetch_mode", !.reads = reads, !.info = info]
    <3>2. new.alone = call.alone /\ new.op = call.op BY <1>1, FieldsOfCall
    <3>3. Go(c, new) BY <3>1
    <3> HIDE DEF new
    <3> QED BY <3>2, <3>3
  <2>2. CASE fetchMultiAssetsMode(c)
    <3>1. PICK multi : Go(c, [call EXCEPT !.pc = "fetch_balance", !.multi = multi])
      BY <2>2 DEF fetchMultiAssetsMode
    <3> DEFINE new == [call EXCEPT !.pc = "fetch_balance", !.multi = multi]
    <3>2. new.alone = call.alone /\ new.op = call.op BY <1>1, FieldsOfCall
    <3>3. Go(c, new) BY <3>1
    <3> HIDE DEF new
    <3> QED BY <3>2, <3>3
  <2>3. CASE fetchFuturesBalance(c)
    <3> DEFINE reads == call.reads \cup {truth.futures}
               info == [call.info EXCEPT !.futures = mergeFuturesBalanceSummary(@, truth.futures, call.multi)]
               new == [call EXCEPT !.pc = "fetch_positions", !.multi = FALSE, !.reads = reads, !.info = info]
    <3>1. Go(c, new) BY <1>1, <2>3, FieldsOfCall DEF fetchFuturesBalance
    <3> HIDE DEF reads, info
    <3>2. new.alone = call.alone /\ new.op = call.op BY <1>1, FieldsOfCall
    <3> HIDE DEF new
    <3> QED BY <3>1, <3>2
  <2>4. CASE fetchFuturesPositionRisk(c)
    <3>1. PICK info, reads, seen, exch, at :
            Go(c, [call EXCEPT !.info = info, !.reads = reads, !.seen = seen, !.exch = exch, !.pc = at])
      BY <1>1, <2>4, FieldsOfCall DEF fetchFuturesPositionRisk
    <3> DEFINE new == [call EXCEPT !.info = info, !.reads = reads, !.seen = seen, !.exch = exch, !.pc = at]
    <3>2. new.alone = call.alone /\ new.op = call.op BY <1>1, FieldsOfCall
    <3>3. Go(c, new) BY <3>1
    <3> HIDE DEF new
    <3> QED BY <3>2, <3>3
  <2>5. CASE matchVenueWalletSnapshots(c)
    <3>1. PICK exch, todo, at : Go(c, [call EXCEPT !.exch = exch, !.todo = todo, !.pc = at])
      BY <2>5 DEF matchVenueWalletSnapshots
    <3> DEFINE new == [call EXCEPT !.exch = exch, !.todo = todo, !.pc = at]
    <3>2. new.alone = call.alone /\ new.op = call.op BY <1>1, FieldsOfCall
    <3>3. Go(c, new) BY <3>1
    <3> HIDE DEF new
    <3> QED BY <3>2, <3>3
  <2>6. CASE updateVenueWalletStatesFromSnapshots(c)
    <3> DEFINE rest == Tail(call.todo)
               new == [call EXCEPT !.todo = rest, !.pc = IF rest = <<>> THEN "state" ELSE @]
    <3>1. Go(c, new) BY <2>6 DEF updateVenueWalletStatesFromSnapshots
    <3> HIDE DEF rest
    <3>2. new.alone = call.alone /\ new.op = call.op BY <1>1, FieldsOfCall
    <3> HIDE DEF new
    <3> QED BY <3>1, <3>2
  <2>7. CASE attachBacktestVenueWalletState(c)
    <3>1. PICK info : Go(c, [call EXCEPT !.pc = "put", !.info = info])
      BY <2>7 DEF attachBacktestVenueWalletState
    <3> DEFINE new == [call EXCEPT !.pc = "put", !.info = info]
    <3>2. new.alone = call.alone /\ new.op = call.op BY <1>1, FieldsOfCall
    <3>3. Go(c, new) BY <3>1
    <3> HIDE DEF new
    <3> QED BY <3>2, <3>3
  <2> QED BY <2>1, <2>2, <2>3, <2>4, <2>5, <2>6, <2>7
<1> QED BY <1>2, <1>3, <1>4, OffPush DEF OnItsWay

LEMMA StepAlone ==
  ASSUME IInv, AloneInv, NEW c \in Callers, Step(c)
  PROVE  AloneInv'
<1> USE DEF IInv
<1>1. UpsertVenueWalletState(c) => AloneInv'
  <2> SUFFICES ASSUME UpsertVenueWalletState(c) PROVE AloneInv' OBVIOUS
  <2>1. calls[c].pc # "idle" /\ Return(c) /\ UNCHANGED <<env, bound>> BY DEF UpsertVenueWalletState, Others
  <2> QED BY <2>1, AloneReturns
<1> QED BY <1>1, ListWritesAlone, WriteAlone, ListPortfolioAlone, ReadPortfolioAlone, StateAlone, OthersAlone
        DEF Step

LEMMA AttachAlone ==
  ASSUME CallsInv, AloneInv, NEW c \in Callers, NEW v \in Venues, NEW call, Attach(c, v, call),
         DOMAIN call = DOMAIN Idle, call.op # "push"
  PROVE  AloneInv'
<1>1. bound' \subseteq Venues /\ UNCHANGED env BY DEF Attach, AloneInv
<1>2. CASE Begin(c, call) BY <1>1, <1>2, AloneBegins
<1>3. CASE calls' = [d \in Callers |-> Disturbed(d)] BY <1>1, <1>3, AloneRests
<1> QED BY <1>2, <1>3 DEF Attach

LEMMA VenuesAlone ==
  ASSUME CallsInv, AloneInv, NEW c \in Callers, NEW v \in Venues,
         BindVenue(c, v) \/ GetVenueOnlineInfo(c, v) \/ \E w : CreateVenue(c, v, w)
  PROVE  AloneInv'
<1>1. CASE BindVenue(c, v)
  <2> DEFINE call == [Idle EXCEPT !.pc = "attach", !.op = "bind", !.v = v]
  <2>1. Attach(c, v, call) BY <1>1 DEF BindVenue
  <2>2. DOMAIN call = DOMAIN Idle /\ call.op = "bind" BY FieldsOfCall
  <2> HIDE DEF call
  <2> QED BY <2>1, <2>2, AttachAlone
<1>2. CASE GetVenueOnlineInfo(c, v)
  <2>1. PICK info : Begin(c, [Idle EXCEPT !.pc = "put", !.op = "online", !.v = v, !.info = info])
    BY <1>2 DEF GetVenueOnlineInfo
  <2> DEFINE call == [Idle EXCEPT !.pc = "put", !.op = "online", !.v = v, !.info = info]
  <2>2. Begin(c, call) BY <2>1
  <2>3. DOMAIN call = DOMAIN Idle /\ call.op = "online" BY FieldsOfCall
  <2>4. UNCHANGED env /\ bound' \subseteq Venues BY <1>2 DEF GetVenueOnlineInfo, Others, AloneInv
  <2> HIDE DEF call
  <2> QED BY <2>2, <2>3, <2>4, AloneBegins
<1>3. CASE \E w : CreateVenue(c, v, w)
  <2>1. PICK info : Attach(c, v, [Idle EXCEPT !.pc = "put", !.op = "create", !.v = v, !.info = info])
    BY <1>3 DEF CreateVenue
  <2> DEFINE call == [Idle EXCEPT !.pc = "put", !.op = "create", !.v = v, !.info = info]
  <2>2. Attach(c, v, call) BY <2>1
  <2>3. DOMAIN call = DOMAIN Idle /\ call.op = "create" BY FieldsOfCall
  <2> HIDE DEF call
  <2> QED BY <2>2, <2>3, AttachAlone
<1> QED BY <1>1, <1>2, <1>3

LEMMA RefreshAlone ==
  ASSUME CallsInv, AloneInv, NEW c \in Callers, NEW reason, UpdatePortfolioSnapshot(c, reason)
  PROVE  AloneInv'
<1>1. PICK call : Begin(c, call) /\ call.op # "push" /\ DOMAIN call = DOMAIN Idle BY RefreshBegins
<1>2. UNCHANGED env /\ bound' \subseteq Venues BY DEF UpdatePortfolioSnapshot, Others, AloneInv
<1> QED BY <1>1, <1>2, AloneBegins

LEMMA NextAlone ==
  ASSUME IInv, AloneInv, [Next]_vars
  PROVE  AloneInv'
<1> USE DEF IInv
<1>1. ASSUME NEW c \in Callers, Step(c) PROVE AloneInv' BY <1>1, StepAlone
<1>2. ASSUME NEW c \in Callers, NEW pay \in Requests, UpdateAccountWalletState(c, pay) PROVE AloneInv'
  BY <1>2, PushBeginsAlone
<1>3. ASSUME NEW c \in Callers, NEW reason \in Reasons, UpdatePortfolioSnapshot(c, reason) PROVE AloneInv'
  BY <1>3, RefreshAlone
<1>4. ASSUME NEW c \in Callers, NEW v \in Venues, NEW w, CreateVenue(c, v, w) PROVE AloneInv'
  BY <1>4, VenuesAlone
<1>5. ASSUME NEW c \in Callers, NEW v \in Venues, BindVenue(c, v) \/ GetVenueOnlineInfo(c, v) PROVE AloneInv'
  BY <1>5, VenuesAlone
<1>6. ASSUME NEW v \in Venues, Detach(v) PROVE AloneInv'
  <2>1. bound' \subseteq Venues BY <1>6 DEF Detach, AloneInv
  <2> QED BY <1>6, <2>1, AloneRests DEF Detach
<1>7. CASE Fail
  <2>1. PICK c \in InProgress : Return(c) BY <1>7 DEF Fail
  <2>2. c \in Callers /\ calls[c].pc # "idle" /\ UNCHANGED <<env, bound>>
    BY <1>7 DEF InProgress, Fail, Fault, Others
  <2> QED BY <2>1, <2>2, AloneReturns
<1>8. CASE Crash
  <2>1. bound' \subseteq Venues BY <1>8 DEF Crash, Fault, Others, AloneInv
  <2> QED BY <1>8, <2>1, AloneRests DEF Crash
<1>9. CASE (\E t \in tasks : runIsolated(t)) \/ Move \/ FailRun \/ UNCHANGED vars
  <2>1. UNCHANGED <<env, bound, rows, calls>>
    BY <1>9 DEF runIsolated, Move, FailRun, Fault, Others, Tables, vars
  <2> QED BY <2>1, AloneRests
<1> QED BY <1>1, <1>2, <1>3, <1>4, <1>5, <1>6, <1>7, <1>8, <1>9 DEF Next

LEMMA InitAlone == Init => AloneInv
<1> SUFFICES ASSUME Init PROVE AloneInv OBVIOUS
<1>1. bound \subseteq Venues BY DEF Init
<1>2. \A c \in Callers : calls[c].pc = "idle" BY DEF Init, Idle
<1> QED BY <1>1, <1>2 DEF AloneInv, Alone

\* A push that nothing overlaps on a backtest account persists the wallet of its request,
\* whatever that wallet holds (UpdateAccountWalletState, updateBacktestVenueWalletStates,
\* readPortfolioSnapshot and the conversions between them).
THEOREM PushReadBackHolds == Spec => PushReadBack
<1> DEFINE ReadsBack(c) ==
             /\ Settles(c) /\ calls[c].op = "push" /\ Len(calls[c].local) = 1
             /\ calls[c].pay.futures = None \/ (calls[c].pay.futures.wallet # 0 /\ calls[c].pay.futures.available # 0)
             => Shows(calls[c].pay, calls[c].local[1].v)
<1>1. Init => AloneInv BY InitAlone
<1>2. IInv /\ AloneInv /\ [Next]_vars => AloneInv' BY NextAlone
<1>3. AloneInv /\ [Next]_vars => [\A c \in Callers : ReadsBack(c)]_vars
  <2> SUFFICES ASSUME AloneInv, NEW c \in Callers, Settles(c), calls[c].op = "push", Len(calls[c].local) = 1,
                      \/ calls[c].pay.futures = None
                      \/ calls[c].pay.futures.wallet # 0 /\ calls[c].pay.futures.available # 0
               PROVE  Shows(calls[c].pay, calls[c].local[1].v)
    OBVIOUS
  <2> DEFINE call == calls[c]
             v == call.local[1].v
  <2>1. call.pc = "state" /\ call.alone BY DEF Settles, UpdateAccountState
  <2>2. AlonePush(call, rows, ListActiveAccountVenues) BY <2>1 DEF AloneInv, Alone
  <2>3. /\ call.pay \in Requests /\ call.local = LocalOf(call.pay, ListActiveAccountVenues)
        /\ rows[v] = backtestVenueInfo(aggregateVenueWalletSnapshots(call.local), v)
    BY <2>1, <2>2 DEF AlonePush, Written
  <2>4. Wanted(call.pay, v) /\ aggregateVenueWalletSnapshots(call.local) = localVenueInfo(call.pay, v)
    BY <2>3, ListType, LocalOfOne
  <2>5. rows[v] = backtestVenueInfo(localVenueInfo(call.pay, v), v) BY <2>3, <2>4
  <2> HIDE DEF v
  <2> QED BY <2>3, <2>4, <2>5, ReadBack DEF Shows, v
<1> QED BY <1>1, <1>2, <1>3, Inductive, PTL DEF Spec, PushReadBack

-----------------------------------------------------------------------------
(* Sums and folds over lists of any length. *)

\* Induction over the natural numbers, for the set of those of which a fact holds.
LEMMA SetInduction ==
  ASSUME NEW S, 0 \in S, \A n \in Nat : n \in S => n + 1 \in S
  PROVE  \A n \in Nat : n \in S
<1> SUFFICES ASSUME Nat \ S # {} PROVE FALSE OBVIOUS
<1> DEFINE T == Nat \ S
<1>1. IsWellFoundedOn(OpToRel(<, Nat), Nat) BY NatLessThanWellFounded, Zenon
<1>2. \E x \in T : \A y \in T : ~(<<y, x>> \in OpToRel(<, Nat)) BY <1>1, WFMin, Zenon
<1>3. PICK x \in T : \A y \in T : ~(y < x) BY <1>2 DEF OpToRel
<1>4. x \in Nat /\ x # 0 /\ x \notin S OBVIOUS
<1>5. x - 1 \in Nat /\ x - 1 < x /\ (x - 1) + 1 = x BY <1>4
<1>6. x - 1 \in S BY <1>3, <1>5
<1> QED BY <1>4, <1>5, <1>6

\* g is the sum of the amounts over each set of places in E.
IsSum(g, E, amount) ==
  /\ g \in [SUBSET E -> Int] /\ g[{}] = 0
  /\ \A s \in SUBSET E : \A x \in s : g[s] = g[s \ {x}] + amount[x]

\* One more place.
LEMMA SumExtends ==
  ASSUME NEW D, NEW F, NEW e, e \notin D, \A x \in D \cup {e} : F[x] \in Int, NEW g, IsSum(g, D, F)
  PROVE  \E h : IsSum(h, D \cup {e}, F)
<1> DEFINE E == D \cup {e}
           h == [s \in SUBSET E |-> IF e \in s THEN g[s \ {e}] + F[e] ELSE g[s]]
<1>0. /\ g \in [SUBSET D -> Int] /\ g[{}] = 0
      /\ \A s \in SUBSET D : \A x \in s : g[s] = g[s \ {x}] + F[x]
  BY DEF IsSum
<1>1. \A s \in SUBSET E : s \ {e} \in SUBSET D /\ (e \notin s => s \in SUBSET D) OBVIOUS
<1>2. h \in [SUBSET E -> Int] BY <1>0, <1>1
<1>3. h[{}] = 0 BY <1>0
<1>4. ASSUME NEW s \in SUBSET E, NEW x \in s PROVE h[s] = h[s \ {x}] + F[x]
  <2>1. s \ {x} \in SUBSET E OBVIOUS
  <2>2. CASE x = e
    <3>1. h[s] = g[s \ {e}] + F[e] BY <2>2
    <3>2. h[s \ {x}] = g[s \ {e}] BY <2>1, <2>2
    <3> QED BY <2>2, <3>1, <3>2
  <2>3. CASE x # e /\ e \in s
    <3> DEFINE u == s \ {e}
    <3>1. u \in SUBSET D /\ x \in u /\ u \ {x} = (s \ {x}) \ {e} BY <2>3
    <3>2. h[s] = g[u] + F[e] BY <2>3
    <3>3. h[s \ {x}] = g[u \ {x}] + F[e] BY <2>1, <2>3, <3>1
    <3>4. u \ {x} \in SUBSET D BY <3>1
    <3> HIDE DEF u, h
    <3>5. g[u] = g[u \ {x}] + F[x] /\ F[x] \in Int /\ F[e] \in Int /\ g[u \ {x}] \in Int
      BY <1>0, <3>1, <3>4
    <3> QED BY <3>2, <3>3, <3>5
  <2>4. CASE e \notin s
    <3>1. s \in SUBSET D /\ s \ {x} \in SUBSET D /\ e \notin s \ {x} BY <2>4
    <3>2. h[s] = g[s] /\ h[s \ {x}] = g[s \ {x}] BY <2>1, <2>4, <3>1
    <3> QED BY <1>0, <3>1, <3>2
  <2> QED BY <2>2, <2>3, <2>4
<1> HIDE DEF h
<1>5. IsSum(h, E, F) BY <1>2, <1>3, <1>4 DEF IsSum
<1> QED BY <1>5

LEMMA SumExists ==
  ASSUME NEW D, IsFiniteSet(D), NEW F \in [D -> Int]
  PROVE  \E g : IsSum(g, D, F)
<1> DEFINE Has(n) == \A E \in SUBSET D : IsFiniteSet(E) /\ Cardinality(E) = n => \E g : IsSum(g, E, F)
           S == {n \in Nat : Has(n)}
<1>1. Has(0)
  <2> SUFFICES ASSUME NEW E \in SUBSET D, IsFiniteSet(E), Cardinality(E) = 0
               PROVE  \E g : IsSum(g, E, F)
    OBVIOUS
  <2>1. E = {} BY FS_EmptySet
  <2> DEFINE g == [s \in SUBSET E |-> 0]
  <2>2. g \in [SUBSET E -> Int] /\ g[{}] = 0 OBVIOUS
  <2>3. \A s \in SUBSET E : \A x \in s : FALSE BY <2>1
  <2> HIDE DEF g
  <2> QED BY <2>2, <2>3 DEF IsSum
<1>2. ASSUME NEW n \in Nat, Has(n) PROVE Has(n + 1)
  <2> SUFFICES ASSUME NEW E \in SUBSET D, IsFiniteSet(E), Cardinality(E) = n + 1
               PROVE  \E g : IsSum(g, E, F)
    OBVIOUS
  <2>1. E # {} BY FS_EmptySet
  <2>2. PICK e : e \in E BY <2>1
  <2>3. PICK B : B = E \ {e} OBVIOUS
  <2>4. IsFiniteSet(B) /\ Cardinality(B) = Cardinality(E) - 1
    BY <2>2, <2>3, FS_RemoveElement
  <2>5. B \in SUBSET D BY <2>3
  <2>6. PICK g : IsSum(g, B, F) BY <1>2, <2>4, <2>5, Cardinality(B) = n
  <2>7. e \notin B /\ E = B \cup {e} /\ \A x \in B \cup {e} : F[x] \in Int BY <2>2, <2>3
  <2>8. \E h : IsSum(h, B \cup {e}, F) BY <2>6, <2>7, SumExtends
  <2> QED BY <2>7, <2>8
<1> HIDE DEF Has
<1>3. \A n \in Nat : n \in S
  <2>1. 0 \in S BY <1>1
  <2>2. \A n \in Nat : n \in S => n + 1 \in S BY <1>2
  <2> HIDE DEF S
  <2> QED BY <2>1, <2>2, SetInduction
<1>4. Cardinality(D) \in Nat /\ D \in SUBSET D BY FS_CardinalityType
<1>5. Has(Cardinality(D)) BY <1>3, <1>4
<1> QED BY <1>4, <1>5 DEF Has

\* A function on the sets of places that takes off one place after another, in some order,
\* is the sum.
AddsUp(h, D, amount) ==
  h[{}] = 0 /\ \A s \in SUBSET D : s # {} => \E x \in s : h[s] = amount[x] + h[s \ {x}]

LEMMA SumIsUnique ==
  ASSUME NEW D, IsFiniteSet(D), NEW F \in [D -> Int], NEW g, IsSum(g, D, F), NEW h, AddsUp(h, D, F)
  PROVE  \A s \in SUBSET D : h[s] = g[s]
<1> USE DEF AddsUp
<1> DEFINE Same(n) == \A s \in SUBSET D : Cardinality(s) = n => h[s] = g[s]
           S == {n \in Nat : Same(n)}
<1>1. /\ g \in [SUBSET D -> Int] /\ g[{}] = 0
      /\ \A s \in SUBSET D : \A x \in s : g[s] = g[s \ {x}] + F[x]
  BY DEF IsSum
<1>2. \A s \in SUBSET D : IsFiniteSet(s) /\ Cardinality(s) \in Nat BY FS_Subset, FS_CardinalityType
<1>3. Same(0)
  <2> SUFFICES ASSUME NEW s \in SUBSET D, Cardinality(s) = 0 PROVE h[s] = g[s] OBVIOUS
  <2>1. s = {} BY <1>2, FS_EmptySet
  <2>2. g[s] = 0 /\ h[s] = 0 BY <1>1, <2>1
  <2> QED BY <2>2
<1>4. ASSUME NEW n \in Nat, Same(n) PROVE Same(n + 1)
  <2> SUFFICES ASSUME NEW s \in SUBSET D, Cardinality(s) = n + 1 PROVE h[s] = g[s] OBVIOUS
  <2>1. s # {} BY <1>2, FS_EmptySet
  <2>2. PICK x \in s : h[s] = F[x] + h[s \ {x}] BY <2>1
  <2>3. PICK u : u = s \ {x} OBVIOUS
  <2>4. u \in SUBSET D /\ IsFiniteSet(s) BY <1>2, <2>3
  <2>5. Cardinality(u) = Cardinality(s) - 1 BY <2>2, <2>3, <2>4, FS_RemoveElement
  <2>6. h[u] = g[u] BY <1>4, <2>4, <2>5
  <2>7. F[x] \in Int /\ g[u] \in Int /\ g[s] = g[u] + F[x] BY <1>1, <2>2, <2>3, <2>4
  <2>8. h[s] = F[x] + (g[u]) BY <2>2, <2>3, <2>6
  <2> QED BY <2>7, <2>8
<1> HIDE DEF Same
<1>5. \A n \in Nat : n \in S
  <2>1. 0 \in S BY <1>3
  <2>2. \A n \in Nat : n \in S => n + 1 \in S BY <1>4
  <2> HIDE DEF S
  <2> QED BY <2>1, <2>2, SetInduction
<1>6. \A n \in Nat : Same(n) BY <1>5
<1> QED BY <1>2, <1>6 DEF Same

\* SumFunction adds the amounts up, whatever the order it takes them in.
LEMMA SumFunctionIsSum ==
  ASSUME NEW D, IsFiniteSet(D), NEW F \in [D -> Int], NEW g, IsSum(g, D, F)
  PROVE  SumFunction(F) = g[D]
<1> DEFINE Recursion(f) == f = [s \in SUBSET D |-> IF s = {} THEN 0
                                  ELSE LET x == CHOOSE x \in s : TRUE IN F[x] + f[s \ {x}]]
<1>0. /\ g \in [SUBSET D -> Int] /\ g[{}] = 0
      /\ \A s \in SUBSET D : \A x \in s : g[s] = g[s \ {x}] + F[x]
  BY DEF IsSum
<1>1. Recursion(g)
  <2>1. ASSUME NEW s \in SUBSET D, s # {}
        PROVE  g[s] = F[CHOOSE x \in s : TRUE] + g[s \ {CHOOSE x \in s : TRUE}]
    <3>1. PICK x : x = CHOOSE y \in s : TRUE OBVIOUS
    <3>2. x \in s BY <2>1, <3>1
    <3>3. F[x] \in Int /\ g[s \ {x}] \in Int /\ g[s] = g[s \ {x}] + F[x] BY <1>0, <3>2
    <3>4. g[s] = F[x] + g[s \ {x}] BY <3>3
    <3> QED BY <3>1, <3>4
  <2> QED BY <1>0, <2>1
<1>2. ASSUME NEW h, Recursion(h) PROVE h[D] = g[D]
  <2>1. h[{}] = 0 BY <1>2
  <2>2. ASSUME NEW s \in SUBSET D, s # {} PROVE \E x \in s : h[s] = F[x] + h[s \ {x}]
    <3>1. PICK x : x = CHOOSE y \in s : TRUE OBVIOUS
    <3>2. x \in s BY <2>2, <3>1
    <3>3. h[s] = F[x] + h[s \ {x}] BY <1>2, <2>2, <3>1
    <3> QED BY <3>2, <3>3
  <2> HIDE DEF Recursion
  <2>3. AddsUp(h, D, F) BY <2>1, <2>2 DEF AddsUp
  <2> QED BY <2>3, SumIsUnique
<1>3. DOMAIN F = D OBVIOUS
<1>4. SumFunction(F) = (CHOOSE f : Recursion(f))[D]
  BY <1>3, Zenon DEF SumFunction, SumFunctionOnSet, FoldFunctionOnSet, MapThenFoldSet
<1> HIDE DEF Recursion
<1>5. Recursion(CHOOSE f : Recursion(f)) BY <1>1
<1> QED BY <1>2, <1>4, <1>5

\* The sum over a list of integers is one, zero without elements, and grows by the
\* last element.
LEMMA SumOfList ==
  ASSUME NEW n \in Nat, NEW F \in [1..n -> Int]
  PROVE  /\ SumFunction(F) \in Int
         /\ n = 0 => SumFunction(F) = 0
         /\ n # 0 => SumFunction(F) = SumFunction([k \in 1..(n - 1) |-> F[k]]) + F[n]
<1>1. IsFiniteSet(1..n) BY FS_Interval
<1>2. PICK g : IsSum(g, 1..n, F) BY <1>1, SumExists
<1>3. /\ g \in [SUBSET (1..n) -> Int] /\ g[{}] = 0
      /\ \A s \in SUBSET (1..n) : \A x \in s : g[s] = g[s \ {x}] + F[x]
  BY <1>2 DEF IsSum
<1>4. SumFunction(F) = g[1..n] BY <1>1, <1>2, SumFunctionIsSum
<1>5. SumFunction(F) \in Int BY <1>3, <1>4
<1>6. ASSUME n = 0 PROVE SumFunction(F) = 0
  <2>1. 1..n = {} BY <1>6
  <2> QED BY <1>3, <1>4, <2>1
<1>7. ASSUME n # 0 PROVE SumFunction(F) = SumFunction([k \in 1..(n - 1) |-> F[k]]) + F[n]
  <2> DEFINE m == n - 1
             G == [k \in 1..m |-> F[k]]
             h == [s \in SUBSET (1..m) |-> g[s]]
  <2>1. m \in Nat /\ 1..m \in SUBSET (1..n) /\ 1..m = (1..n) \ {n} /\ n \in 1..n BY <1>7
  <2>2. IsFiniteSet(1..m) BY <2>1, FS_Interval
  <2> HIDE DEF m
  <2>3. G \in [1..m -> Int] BY <2>1
  <2>4. IsSum(h, 1..m, G)
    <3>1. h \in [SUBSET (1..m) -> Int] /\ h[{}] = 0 BY <1>3, <2>1
    <3>2. ASSUME NEW s \in SUBSET (1..m), NEW x \in s PROVE h[s] = h[s \ {x}] + G[x]
      <4>1. s \in SUBSET (1..n) /\ s \ {x} \in SUBSET (1..m) BY <2>1
      <4>2. g[s] = g[s \ {x}] + F[x] BY <1>3, <4>1
      <4> QED BY <4>1, <4>2
    <3> HIDE DEF h, G
    <3> QED BY <3>1, <3>2 DEF IsSum
  <2>5. h[1..m] = g[1..m] OBVIOUS
  <2> HIDE DEF h
  <2>6. SumFunction(G) = g[1..m]
    <3> HIDE DEF G
    <3> QED BY <2>2, <2>3, <2>4, <2>5, SumFunctionIsSum
  <2>7. g[1..n] = g[1..m] + F[n]
    <3>1. PICK s : s = 1..n OBVIOUS
    <3>2. s \in SUBSET (1..n) /\ n \in s BY <2>1, <3>1
    <3>3. g[s] = g[s \ {n}] + F[n] BY <1>3, <3>2
    <3> QED BY <2>1, <3>1, <3>3
  <2> QED BY <1>4, <2>6, <2>7 DEF m
<1> QED BY <1>5, <1>6, <1>7

-----------------------------------------------------------------------------
(* Types: what a backtest account stores and adds up are integers. *)

LEMMA OrType ==
  ASSUME NEW x \in Int, NEW y \in Int
  PROVE  Or(x, y) \in Int
BY DEF Or

LEMMA NothingIsNoWallet ==
  /\ NoFutures \in FuturesWallets /\ NoSpot \in SpotWallets /\ NoInfo \in OnlineInfos
  /\ None \notin OnlineInfos
<1>1. NoFutures \in FuturesWallets BY DEF NoFutures, FuturesWallets
<1>2. NoSpot \in SpotWallets BY DEF NoSpot, SpotWallets
<1>3. NoInfo \in OnlineInfos BY <1>1, <1>2 DEF NoInfo, OnlineInfos
<1> QED BY <1>1, <1>2, <1>3, WalletAssumption

\* The sums over positions and assets.
LEMMA ValuesAreIntegers ==
  /\ \A f \in FuturesWallets : futuresWalletBootstrapValue(f) \in Int
  /\ \A s \in SpotWallets : spotWalletBootstrapValue(s) \in Int /\ SpotEstimatedExchangeAligned(s) \in Int
<1>1. ASSUME NEW f \in FuturesWallets PROVE futuresWalletBootstrapValue(f) \in Int
  <2> DEFINE n == Len(f.positions)
             initial == [k \in DOMAIN f.positions |-> f.positions[k].initial]
  <2>1. /\ f.margin \in Int /\ f.wallet \in Int /\ f.initial \in Int
        /\ f.positions \in Seq([qty : Int, entry : Int, risk : Int, initial : Int])
    BY DEF FuturesWallets
  <2> DEFINE P == [qty : Int, entry : Int, risk : Int, initial : Int]
  <2>2. \A p \in P : p.initial \in Int OBVIOUS
  <2> HIDE DEF P
  <2>3. f.positions \in Seq(P) BY <2>1 DEF P
  <2>4. PICK list : list = f.positions OBVIOUS
  <2>5. n \in Nat /\ DOMAIN f.positions = 1..n /\ \A k \in 1..n : f.positions[k] \in P
    <3>1. list \in Seq(P) BY <2>3, <2>4
    <3>2. Len(list) \in Nat /\ DOMAIN list = 1..Len(list) /\ \A k \in 1..Len(list) : list[k] \in P BY <3>1
    <3> QED BY <2>4, <3>2
  <2>6. n \in Nat /\ DOMAIN f.positions = 1..n /\ \A k \in 1..n : f.positions[k].initial \in Int
    BY <2>2, <2>5
  <2> HIDE DEF n
  <2>7. initial \in [1..n -> Int] BY <2>6
  <2>8. SumFunction(initial) \in Int
    <3> HIDE DEF initial
    <3> QED BY <2>6, <2>7, SumOfList
  <2> QED BY <2>1, <2>8, OrType DEF futuresWalletBootstrapValue
<1>2. ASSUME NEW s \in SpotWallets
      PROVE  spotWalletBootstrapValue(s) \in Int /\ SpotEstimatedExchangeAligned(s) \in Int
  <2> DEFINE n == Len(s.assets)
             value == [k \in DOMAIN s.assets |-> s.assets[k].qty * Or(s.assets[k].price, s.assets[k].average)]
             shown == [k \in DOMAIN s.assets |-> s.assets[k].qty * s.assets[k].price]
  <2>1. s.free + s.locked \in Int /\ s.assets \in Seq([qty : Int, price : Int, average : Int])
    BY DEF SpotWallets
  <2>2. n \in Nat /\ DOMAIN s.assets = 1..n BY <2>1
  <2> DEFINE A == [qty : Int, price : Int, average : Int]
  <2>3. \A a \in A : a.qty * Or(a.price, a.average) \in Int /\ a.qty * a.price \in Int
    <3> SUFFICES ASSUME NEW a \in A PROVE a.qty * Or(a.price, a.average) \in Int /\ a.qty * a.price \in Int
      OBVIOUS
    <3>1. PICK q, x, y : q = a.qty /\ x = a.price /\ y = Or(a.price, a.average) OBVIOUS
    <3>2. q \in Int /\ x \in Int /\ y \in Int BY <3>1, OrType
    <3>3. q * x \in Int /\ q * y \in Int BY <3>2
    <3> QED BY <3>1, <3>3
  <2> HIDE DEF A
  <2>4. \A k \in 1..n : s.assets[k] \in A
    <3>1. PICK list : list = s.assets OBVIOUS
    <3>2. list \in Seq(A) BY <2>1, <3>1 DEF A
    <3>3. \A k \in 1..Len(list) : list[k] \in A BY <3>2
    <3> QED BY <3>1, <3>3
  <2> HIDE DEF n
  <2>5. \A k \in 1..n : /\ s.assets[k].qty * Or(s.assets[k].price, s.assets[k].average) \in Int
                       /\ s.assets[k].qty * s.assets[k].price \in Int
    BY <2>3, <2>4
  <2>6. value \in [1..n -> Int] /\ shown \in [1..n -> Int] BY <2>2, <2>5
  <2>7. SumFunction(value) \in Int /\ SumFunction(shown) \in Int
    <3> HIDE DEF value, shown
    <3> QED BY <2>2, <2>6, SumOfList
  <2> QED BY <2>1, <2>7 DEF spotWalletBootstrapValue, SpotEstimatedExchangeAligned
<1> QED BY <1>1, <1>2

\* The two ways a wallet of one market is filled in.
LEMMA BootstrapType ==
  ASSUME NEW i \in OnlineInfos
  PROVE  futuresOnlyBacktestVenueInfo(i) \in OnlineInfos /\ spotOnlyBacktestVenueInfo(i) \in OnlineInfos
<1>1. /\ i.futures \in FuturesWallets /\ i.futures.wallet \in Int /\ i.futures.available \in Int
      /\ i.spot \in SpotWallets /\ i.spot.free \in Int
  BY DEF OnlineInfos, FuturesWallets, SpotWallets
<1>2. futuresOnlyBacktestVenueInfo(i) \in OnlineInfos
  <2> DEFINE value == futuresWalletBootstrapValue(i.futures)
             wallet == Or(i.futures.wallet, value)
             available == Or(i.futures.available, value)
  <2>1. value \in Int /\ wallet \in Int /\ available \in Int BY <1>1, ValuesAreIntegers, OrType
  <2>2. futuresOnlyBacktestVenueInfo(i) = [i EXCEPT !.total = value, !.wallet = wallet, !.available = available]
    BY DEF futuresOnlyBacktestVenueInfo
  <2> HIDE DEF value, wallet, available
  <2> QED BY <1>1, <2>1, <2>2 DEF OnlineInfos
<1>3. spotOnlyBacktestVenueInfo(i) \in OnlineInfos
  <2> DEFINE value == spotWalletBootstrapValue(i.spot)
             free == i.spot.free
  <2>1. value \in Int /\ free \in Int BY <1>1, ValuesAreIntegers
  <2>2. spotOnlyBacktestVenueInfo(i) = [i EXCEPT !.total = value, !.wallet = value, !.available = free]
    BY DEF spotOnlyBacktestVenueInfo
  <2> HIDE DEF value, free
  <2> QED BY <1>1, <2>1, <2>2 DEF OnlineInfos
<1> QED BY <1>2, <1>3

\* What stands in for a figure of zero is an integer too.
LEMMA DefaultsType ==
  ASSUME NEW i \in OnlineInfos, NEW v
  PROVE  ensureBacktestVenueOnlineInfoDefaults(i, v) \in OnlineInfos
<1> DEFINE w == i.futures
           wallet == Or(w.wallet, i.wallet)
           available == Or(w.available, i.available)
           f == [w EXCEPT !.wallet = wallet, !.available = available]
           margin == Or(f.margin, f.wallet + f.pnl)
           g == [f EXCEPT !.margin = margin]
           cash == i.spot.free + i.spot.locked
           free == i.spot.free
           a1 == Or(i.wallet, g.wallet)
           a2 == Or(i.available, g.available)
           a3 == Or(i.total, g.margin)
           b1 == Or(i.wallet, cash)
           b2 == Or(i.available, free)
           b3 == Or(i.total, cash)
           r == [i EXCEPT !.futures = g, !.wallet = a1, !.available = a2, !.total = a3]
           q == [i EXCEPT !.wallet = b1, !.available = b2, !.total = b3]
<1>1. /\ w \in FuturesWallets /\ i.spot \in SpotWallets
      /\ i.wallet \in Int /\ i.available \in Int /\ i.total \in Int
  BY DEF OnlineInfos
<1>2. cash \in Int /\ free \in Int BY <1>1 DEF SpotWallets
<1>3. ensureBacktestVenueOnlineInfoDefaults(i, v) = IF IsFutures(v) THEN r ELSE q
  <2> HIDE DEF g
  <2>1. ensureBacktestVenueOnlineInfoDefaults(i, v) =
          IF IsFutures(v)
          THEN [i EXCEPT !.futures = g, !.wallet = Or(@, g.wallet),
                         !.available = Or(@, g.available), !.total = Or(@, g.margin)]
          ELSE [i EXCEPT !.wallet = Or(@, cash), !.available = Or(@, i.spot.free), !.total = Or(@, cash)]
    BY DEF ensureBacktestVenueOnlineInfoDefaults, g
  <2> HIDE DEF cash
  <2> QED BY <2>1 DEF OnlineInfos
<1> HIDE DEF w, cash, free
<1>4. wallet \in Int /\ available \in Int BY <1>1, OrType DEF FuturesWallets
<1> HIDE DEF wallet, available
<1>5. f \in FuturesWallets BY <1>1, <1>4 DEF FuturesWallets
<1> HIDE DEF f
<1>6. margin \in Int BY <1>5, OrType DEF FuturesWallets
<1> HIDE DEF margin
<1>7. g \in FuturesWallets BY <1>5, <1>6 DEF FuturesWallets
<1> HIDE DEF g
<1>8. g.wallet \in Int /\ g.available \in Int /\ g.margin \in Int BY <1>7 DEF FuturesWallets
<1>9. /\ a1 \in Int /\ a2 \in Int /\ a3 \in Int /\ b1 \in Int /\ b2 \in Int /\ b3 \in Int
  BY <1>1, <1>2, <1>8, OrType
<1> HIDE DEF a1, a2, a3, b1, b2, b3
<1>10. q \in OnlineInfos /\ r \in OnlineInfos BY <1>7, <1>9 DEF OnlineInfos
<1> QED BY <1>3, <1>10

\* A function on the sets of places that puts one element after another on what the rest
\* came to.
Folds(f, D, pick, base, put) ==
  f = [s \in SUBSET D |-> IF s = {} THEN base ELSE put[<<pick[s], f[s \ {pick[s]}]>>]]

LEMMA FoldExists ==
  ASSUME NEW D, IsFiniteSet(D), NEW T, NEW base \in T, NEW put \in [D \X T -> T],
         NEW pick, \A s \in SUBSET D : s # {} => pick[s] \in s
  PROVE  \E f : f \in [SUBSET D -> T] /\ Folds(f, D, pick, base, put)
<1> DEFINE Small(n) == {s \in SUBSET D : Cardinality(s) <= n}
           Body(f, s) == IF s = {} THEN base ELSE put[<<pick[s], f[s \ {pick[s]}]>>]
           Has(n) == \E f \in [Small(n) -> T] : \A s \in Small(n) : f[s] = Body(f, s)
           S == {n \in Nat : Has(n)}
<1>1. \A s \in SUBSET D : IsFiniteSet(s) /\ Cardinality(s) \in Nat BY FS_Subset, FS_CardinalityType
<1>2. \A s \in SUBSET D : s # {} =>
         s \ {pick[s]} \in SUBSET D /\ Cardinality(s \ {pick[s]}) = Cardinality(s) - 1
  <2> SUFFICES ASSUME NEW s \in SUBSET D, s # {}
               PROVE  Cardinality(s \ {pick[s]}) = Cardinality(s) - 1
    OBVIOUS
  <2>1. PICK x : x = pick[s] OBVIOUS
  <2>2. x \in s /\ IsFiniteSet(s) BY <1>1, <2>1
  <2>3. Cardinality(s \ {x}) = Cardinality(s) - 1 BY <2>2, FS_RemoveElement
  <2> QED BY <2>1, <2>3
<1>3. Has(0)
  <2> DEFINE f == [s \in Small(0) |-> base]
  <2>1. \A s \in Small(0) : s = {} BY <1>1, FS_EmptySet
  <2>2. f \in [Small(0) -> T] /\ \A s \in Small(0) : f[s] = Body(f, s) BY <2>1
  <2> HIDE DEF f
  <2> QED BY <2>2
<1>4. ASSUME NEW n \in Nat, Has(n) PROVE Has(n + 1)
  <2>1. PICK f \in [Small(n) -> T] : \A s \in Small(n) : f[s] = Body(f, s) BY <1>4
  <2> DEFINE h == [s \in Small(n + 1) |-> Body(f, s)]
  <2>2. \A s \in Small(n + 1) : s # {} => s \ {pick[s]} \in Small(n) /\ pick[s] \in D
    <3> SUFFICES ASSUME NEW s \in SUBSET D, Cardinality(s) <= n + 1, s # {}
                 PROVE  s \ {pick[s]} \in Small(n) /\ pick[s] \in D
      OBVIOUS
    <3>1. Cardinality(s \ {pick[s]}) <= n BY <1>1, <1>2
    <3> QED BY <1>2, <3>1
  <2>3. \A s \in Small(n) : s \in Small(n + 1) BY <1>1
  <2>4. \A s \in Small(n) : h[s] = f[s] BY <2>1, <2>3
  <2>5. h \in [Small(n + 1) -> T]
    <3> SUFFICES ASSUME NEW s \in Small(n + 1), s # {} PROVE put[<<pick[s], f[s \ {pick[s]}]>>] \in T OBVIOUS
    <3>1. f[s \ {pick[s]}] \in T /\ pick[s] \in D BY <2>1, <2>2
    <3> QED BY <3>1
  <2>6. \A s \in Small(n + 1) : h[s] = Body(h, s)
    <3> SUFFICES ASSUME NEW s \in Small(n + 1), s # {} PROVE h[s] = Body(h, s) OBVIOUS
    <3>1. h[s \ {pick[s]}] = f[s \ {pick[s]}] BY <2>2, <2>4
    <3> QED BY <3>1
  <2> HIDE DEF h, Small, Body
  <2> QED BY <2>5, <2>6
<1> HIDE DEF Has
<1>5. \A n \in Nat : n \in S
  <2>1. 0 \in S BY <1>3
  <2>2. \A n \in Nat : n \in S => n + 1 \in S BY <1>4
  <2> HIDE DEF S
  <2> QED BY <2>1, <2>2, SetInduction
<1> DEFINE m == Cardinality(D)
<1>6. m \in Nat /\ Small(m) = SUBSET D
  <2>1. \A s \in SUBSET D : Cardinality(s) <= m BY FS_Subset
  <2>2. m \in Nat BY FS_CardinalityType
  <2> QED BY <2>1, <2>2
<1> HIDE DEF m
<1>7. Has(m) BY <1>5, <1>6
<1>8. PICK f \in [SUBSET D -> T] : \A s \in SUBSET D : f[s] = Body(f, s) BY <1>6, <1>7 DEF Has
<1>9. f = [s \in SUBSET D |-> Body(f, s)] BY <1>8
<1> QED BY <1>9 DEF Folds

\* What such a function has put together has a type that every step keeps.
LEMMA FoldType ==
  ASSUME NEW D, IsFiniteSet(D), NEW T, NEW pick, \A s \in SUBSET D : s # {} => pick[s] \in s,
         NEW f, f[{}] \in T, \A s \in SUBSET D : s # {} /\ f[s \ {pick[s]}] \in T => f[s] \in T
  PROVE  \A s \in SUBSET D : f[s] \in T
<1> DEFINE Typed(n) == \A s \in SUBSET D : Cardinality(s) = n => f[s] \in T
           S == {n \in Nat : Typed(n)}
<1>1. \A s \in SUBSET D : IsFiniteSet(s) /\ Cardinality(s) \in Nat BY FS_Subset, FS_CardinalityType
<1>2. Typed(0)
  <2>1. \A s \in SUBSET D : Cardinality(s) = 0 => s = {} BY <1>1, FS_EmptySet
  <2> QED BY <2>1
<1>3. ASSUME NEW n \in Nat, Typed(n) PROVE Typed(n + 1)
  <2> SUFFICES ASSUME NEW s \in SUBSET D, Cardinality(s) = n + 1 PROVE f[s] \in T OBVIOUS
  <2>1. s # {} BY <1>1, FS_EmptySet
  <2>2. PICK x : x = pick[s] OBVIOUS
  <2>3. x \in s /\ IsFiniteSet(s) BY <1>1, <2>1, <2>2
  <2>4. Cardinality(s \ {x}) = Cardinality(s) - 1 BY <2>3, FS_RemoveElement
  <2>5. s \ {x} \in SUBSET D /\ Cardinality(s \ {x}) = n BY <2>4
  <2>6. f[s \ {x}] \in T BY <1>3, <2>5
  <2> QED BY <2>1, <2>2, <2>6
<1> HIDE DEF Typed
<1>4. \A n \in Nat : n \in S
  <2>1. 0 \in S BY <1>2
  <2>2. \A n \in Nat : n \in S => n + 1 \in S BY <1>3
  <2> HIDE DEF S
  <2> QED BY <2>1, <2>2, SetInduction
<1> QED BY <1>1, <1>4 DEF Typed

LEMMA MaxExists ==
  ASSUME NEW n \in Nat, NEW s \in SUBSET (1..n), s # {}
  PROVE  Max(s) \in s
<1> DEFINE Has(k) == \A u \in SUBSET (1..k) : u # {} => \E x \in u : \A y \in u : x >= y
           S == {k \in Nat : Has(k)}
<1>1. Has(0)
  <2>1. 1..0 = {} OBVIOUS
  <2> QED BY <2>1
<1>2. ASSUME NEW k \in Nat, Has(k) PROVE Has(k + 1)
  <2> SUFFICES ASSUME NEW u \in SUBSET (1..(k + 1)), u # {} PROVE \E x \in u : \A y \in u : x >= y OBVIOUS
  <2>1. CASE k + 1 \in u BY <2>1
  <2>2. CASE k + 1 \notin u
    <3>1. u \in SUBSET (1..k) BY <2>2
    <3> QED BY <1>2, <3>1
  <2> QED BY <2>1, <2>2
<1> HIDE DEF Has
<1>3. \A k \in Nat : k \in S
  <2>1. 0 \in S BY <1>1
  <2>2. \A k \in Nat : k \in S => k + 1 \in S BY <1>2
  <2> HIDE DEF S
  <2> QED BY <2>1, <2>2, SetInduction
<1>4. \E x \in s : \A y \in s : x >= y BY <1>3 DEF Has
<1> QED BY <1>4 DEF Max

LEMMA JoinType ==
  ASSUME NEW S, NEW s \in Seq(S), NEW t \in Seq(S)
  PROVE  s \o t \in Seq(S)
OBVIOUS

\* The next venue: its figures are added to what there is.
LEMMA MergeType ==
  ASSUME NEW m \in OnlineInfos \cup {None}, NEW i \in OnlineInfos
  PROVE  LET r == mergePortfolioOnlineInfo(m, i)
         IN  /\ r \in OnlineInfos
             /\ m = None => r = i
             /\ m # None => /\ r.total = i.total + m.total
                            /\ r.wallet = i.wallet + m.wallet
                            /\ r.available = i.available + m.available
<1>1. CASE m = None BY <1>1 DEF mergePortfolioOnlineInfo
<1>2. CASE m # None
  <2> DEFINE t == i.total + m.total
             w == i.wallet + m.wallet
             a == i.available + m.available
             p == m.futures.positions \o i.futures.positions
             q == m.spot.assets \o i.spot.assets
             f == [i.futures EXCEPT !.positions = p]
             s == [i.spot EXCEPT !.assets = q]
             r == [i EXCEPT !.total = t, !.wallet = w, !.available = a, !.futures = f, !.spot = s]
  <2>0. m \in OnlineInfos BY <1>2
  <2>1. t \in Int /\ w \in Int /\ a \in Int BY <2>0 DEF OnlineInfos
  <2>2. p \in Seq([qty : Int, entry : Int, risk : Int, initial : Int])
    <3>1. /\ m.futures.positions \in Seq([qty : Int, entry : Int, risk : Int, initial : Int])
          /\ i.futures.positions \in Seq([qty : Int, entry : Int, risk : Int, initial : Int])
      BY <2>0 DEF OnlineInfos, FuturesWallets
    <3> QED BY <3>1, JoinType
  <2>3. q \in Seq([qty : Int, price : Int, average : Int])
    <3>1. /\ m.spot.assets \in Seq([qty : Int, price : Int, average : Int])
          /\ i.spot.assets \in Seq([qty : Int, price : Int, average : Int])
      BY <2>0 DEF OnlineInfos, SpotWallets
    <3> QED BY <3>1, JoinType
  <2>4. mergePortfolioOnlineInfo(m, i) = r
    BY <1>2 DEF mergePortfolioOnlineInfo, OnlineInfos
  <2> HIDE DEF t, w, a, p, q
  <2>5. f \in FuturesWallets BY <2>2 DEF OnlineInfos, FuturesWallets
  <2>6. s \in SpotWallets BY <2>3 DEF OnlineInfos, SpotWallets
  <2> HIDE DEF f, s
  <2>7. r \in OnlineInfos /\ r.total = t /\ r.wallet = w /\ r.available = a
    BY <2>1, <2>5, <2>6 DEF OnlineInfos
  <2> QED BY <1>2, <2>4, <2>7 DEF t, w, a
<1> QED BY <1>1, <1>2

\* The wallets of a push, put together.
LEMMA AggregateType ==
  ASSUME NEW n \in Nat, NEW local, DOMAIN local = 1..n, \A k \in 1..n : local[k].info \in OnlineInfos
  PROVE  aggregateVenueWalletSnapshots(local) \in OnlineInfos
<1> DEFINE T == OnlineInfos \cup {None}
           D == 1..n
           Op(m, x) == mergePortfolioOnlineInfo(m, x.info)
           Fold(g) == g = [at \in SUBSET D |-> IF at = {} THEN None
                             ELSE LET x == Max(at) IN Op(g[at \ {x}], local[x])]
           put == [z \in D \X T |-> Op(z[2], local[z[1]])]
           pick == [s \in SUBSET D |-> Max(s)]
<1>1. CASE local = <<>> BY <1>1, NothingIsNoWallet DEF aggregateVenueWalletSnapshots
<1>2. CASE local # <<>>
  <2>1. IsFiniteSet(D) BY FS_Interval
  <2>2. put \in [D \X T -> T]
    <3> SUFFICES ASSUME NEW k \in D, NEW m \in T PROVE Op(m, local[k]) \in T OBVIOUS
    <3> QED BY MergeType
  <2>3. \A s \in SUBSET D : s # {} => pick[s] \in s BY MaxExists
  <2>4. PICK f : f \in [SUBSET D -> T] /\ Folds(f, D, pick, None, put)
    <3> HIDE DEF put, pick, T
    <3>1. None \in T BY DEF T
    <3> QED BY <2>1, <2>2, <2>3, <3>1, FoldExists
  <2>5. Fold(f)
    <3>1. f = [s \in SUBSET D |-> IF s = {} THEN None ELSE put[<<pick[s], f[s \ {pick[s]}]>>]]
      BY <2>4 DEF Folds
    <3>2. ASSUME NEW s \in SUBSET D, s # {}
          PROVE  f[s] = Op(f[s \ {Max(s)}], local[Max(s)])
      <4>1. PICK x : x = Max(s) OBVIOUS
      <4>2. x = pick[s] /\ x \in D BY <2>3, <3>2, <4>1
      <4>3. f[s \ {x}] \in T BY <2>4
      <4>4. f[s] = put[<<x, f[s \ {x}]>>] BY <3>1, <3>2, <4>2
      <4>5. put[<<x, f[s \ {x}]>>] = Op(f[s \ {x}], local[x]) BY <4>2, <4>3
      <4> QED BY <4>1, <4>4, <4>5
    <3>3. f[{}] = None BY <3>1
    <3> HIDE DEF put, pick
    <3> QED BY <2>4, <3>2, <3>3
  <2>6. ASSUME NEW h, Fold(h) PROVE h[D] \in OnlineInfos
    <3>1. h[{}] = None BY <2>6
    <3>2. ASSUME NEW s \in SUBSET D, s # {}, h[s \ {pick[s]}] \in T PROVE h[s] \in OnlineInfos
      <4>1. PICK x : x = pick[s] OBVIOUS
      <4>2. x \in D /\ local[x].info \in OnlineInfos BY <2>3, <3>2, <4>1
      <4>3. h[s] = Op(h[s \ {x}], local[x]) BY <2>6, <3>2, <4>1
      <4>4. h[s \ {x}] \in T BY <3>2, <4>1
      <4> QED BY <4>2, <4>3, <4>4, MergeType
    <3>3. \A s \in SUBSET D : h[s] \in T
      <4>1. \A s \in SUBSET D : s # {} /\ h[s \ {pick[s]}] \in T => h[s] \in T BY <3>2
      <4>2. h[{}] \in T BY <3>1
      <4> HIDE DEF T, pick, Fold
      <4> QED BY <2>1, <2>3, <4>1, <4>2, FoldType
    <3>4. D # {} BY <1>2
    <3>5. D \in SUBSET D /\ h[D \ {pick[D]}] \in T BY <3>3
    <3> QED BY <3>2, <3>4, <3>5
  <2>7. aggregateVenueWalletSnapshots(local) = (CHOOSE g : Fold(g))[D]
    BY <1>2, Zenon DEF aggregateVenueWalletSnapshots, FoldLeft, MapThenFoldSet
  <2> HIDE DEF Fold
  <2> QED BY <2>5, <2>6, <2>7
<1> QED BY <1>1, <1>2

\* Every wallet that is written or shown on a backtest account has a type.
LEMMA LocalType ==
  ASSUME NEW pay \in Requests, NEW v, Wanted(pay, v)
  PROVE  localVenueInfo(pay, v) \in OnlineInfos
<1>1. CASE IsFutures(v)
  <2> DEFINE f == fromProtoFuturesWallet(pay.futures)
             i == [NoInfo EXCEPT !.futures = f]
  <2>1. f \in FuturesWallets BY <1>1, RequestWallet, FromProto DEF Wanted
  <2>2. localVenueInfo(pay, v) = ensureBacktestVenueOnlineInfoDefaults(futuresOnlyBacktestVenueInfo(i), v)
    BY <1>1 DEF localVenueInfo
  <2> HIDE DEF f
  <2>3. i \in OnlineInfos BY <2>1, NothingIsNoWallet DEF OnlineInfos
  <2> HIDE DEF i
  <2> QED BY <2>2, <2>3, BootstrapType, DefaultsType
<1>2. CASE ~IsFutures(v)
  <2> DEFINE i == [NoInfo EXCEPT !.spot = pay.spot]
  <2>1. pay.spot \in SpotWallets BY <1>2, WalletAssumption DEF Wanted, Requests
  <2>2. localVenueInfo(pay, v) = ensureBacktestVenueOnlineInfoDefaults(spotOnlyBacktestVenueInfo(i), v)
    BY <1>2 DEF localVenueInfo
  <2>3. i \in OnlineInfos BY <2>1, NothingIsNoWallet DEF OnlineInfos
  <2> HIDE DEF i
  <2> QED BY <2>2, <2>3, BootstrapType, DefaultsType
<1> QED BY <1>1, <1>2

LEMMA StoredType ==
  ASSUME NEW i \in OnlineInfos, NEW v
  PROVE  backtestVenueInfo(i, v) \in OnlineInfos
<1> DEFINE f == [i EXCEPT !.spot = NoSpot]
           s == [i EXCEPT !.futures = NoFutures]
<1>1. f \in OnlineInfos /\ s \in OnlineInfos BY NothingIsNoWallet DEF OnlineInfos
<1>2. \/ backtestVenueInfo(i, v) = ensureBacktestVenueOnlineInfoDefaults(futuresOnlyBacktestVenueInfo(f), v)
      \/ backtestVenueInfo(i, v) = ensureBacktestVenueOnlineInfoDefaults(spotOnlyBacktestVenueInfo(s), v)
  BY DEF backtestVenueInfo
<1> HIDE DEF f, s
<1> QED BY <1>1, <1>2, BootstrapType, DefaultsType

LEMMA ShownType ==
  ASSUME NEW row \in OnlineInfos, NEW v
  PROVE  portfolioSnapshotFromOnlineInfoForVenue(row, v) \in OnlineInfos
<1> DEFINE i == ensureBacktestVenueOnlineInfoDefaults(row, v)
           w == i.futures
           s == i.spot
           margin == Or(w.margin, w.wallet + w.pnl)
           t == Or(margin, w.wallet)
           ww == w.wallet
           wa == w.available
           st == SpotEstimatedExchangeAligned(s)
           sw == s.free + s.locked
           sa == s.free
           f == [NoInfo EXCEPT !.futures = w, !.total = t, !.wallet = ww, !.available = wa]
           p == [NoInfo EXCEPT !.spot = s, !.total = st, !.wallet = sw, !.available = sa]
<1>1. w \in FuturesWallets /\ s \in SpotWallets BY DefaultsType DEF OnlineInfos
<1>2. portfolioSnapshotFromOnlineInfoForVenue(row, v) = IF IsFutures(v) THEN f ELSE p
  BY DEF portfolioSnapshotFromOnlineInfoForVenue
<1> HIDE DEF w, s
<1>3. margin \in Int /\ ww \in Int /\ wa \in Int BY <1>1, OrType DEF FuturesWallets
<1> HIDE DEF margin
<1>4. t \in Int BY <1>3, OrType
<1>5. st \in Int /\ sw \in Int /\ sa \in Int BY <1>1, ValuesAreIntegers DEF SpotWallets
<1> HIDE DEF t, ww, wa, st, sw, sa
<1>6. f \in OnlineInfos /\ p \in OnlineInfos BY <1>1, <1>3, <1>4, <1>5, NothingIsNoWallet DEF OnlineInfos
<1> QED BY <1>2, <1>6

-----------------------------------------------------------------------------
(* The wallets of a backtest account have a type: TypedInv. *)

\* A call on a backtest account, whose steps are those of a backtest.
Typed(call) ==
  /\ call.pc \in {"idle", "write_list", "write", "list", "read", "state", "archive", "insert", "attach", "put"}
  /\ call.pc \in {"write_list", "write"} =>
       \E n \in Nat : DOMAIN call.local = 1..n /\ \A k \in 1..n : call.local[k].info \in OnlineInfos
  /\ call.pc = "attach" => call.v \in Venues
  /\ call.pc = "put" => call.info \in OnlineInfos

RowsTyped == \A v \in Venues : rows[v] \in OnlineInfos \cup {None}
TypedInv == env = "backtest" => RowsTyped /\ \A c \in Callers : Typed(calls[c])

LEMMA RowTyped ==
  ASSUME TablesInv, RowsTyped, NEW v, NEW x \in OnlineInfos \cup {None}, rows' = [rows EXCEPT ![v] = x]
  PROVE  RowsTyped'
BY DEF TablesInv, RowsTyped

LEMMA TypedGoesOn ==
  ASSUME CallsInv, TypedInv, env = "backtest", NEW c \in Callers, NEW new, Go(c, new), Typed(new), RowsTyped'
  PROVE  TypedInv'
BY DEF TypedInv, CallsInv, Go

LEMMA IdleIsTyped == Typed(Idle)
BY DEF Typed, Idle

LEMMA TypedReturns ==
  ASSUME CallsInv, TypedInv, env = "backtest", NEW c \in Callers, Return(c), RowsTyped'
  PROVE  TypedInv'
BY TypedGoesOn, IdleIsTyped DEF Return

LEMMA OverlappedIsTyped ==
  ASSUME NEW call, DOMAIN call = DOMAIN Idle, Typed(call), NEW b
  PROVE  Typed([call EXCEPT !.alone = b])
<1> DEFINE new == [call EXCEPT !.alone = b]
<1>1. new.pc = call.pc /\ new.local = call.local /\ new.v = call.v /\ new.info = call.info
  BY FieldsOfCall
<1> HIDE DEF new
<1>2. Typed(new) BY <1>1 DEF Typed
<1> QED BY <1>2 DEF new

LEMMA DisturbedIsTyped ==
  ASSUME CallsInv, NEW d \in Callers, Typed(calls[d])
  PROVE  Typed(Disturbed(d))
<1>1. PICK b : b = (calls[d].alone /\ calls[d].pc = "idle") OBVIOUS
<1>2. DOMAIN calls[d] = DOMAIN Idle BY DEF CallsInv, Sound
<1>3. Disturbed(d) = [calls[d] EXCEPT !.alone = b] BY <1>1, <1>2, FieldsOfCall DEF Disturbed
<1> QED BY <1>2, <1>3, OverlappedIsTyped

LEMMA TypedBegins ==
  ASSUME CallsInv, TypedInv, env = "backtest", NEW c \in Callers, NEW call, Begin(c, call),
         DOMAIN call = DOMAIN Idle, Typed(call), RowsTyped'
  PROVE  TypedInv'
<1>1. PICK b : b = (env = "backtest" /\ InProgress = {}) OBVIOUS
<1>2. calls' = [d \in Callers |-> IF d = c THEN [call EXCEPT !.alone = b] ELSE Disturbed(d)]
  BY <1>1 DEF Begin
<1> SUFFICES ASSUME NEW d \in Callers PROVE Typed(calls'[d]) BY DEF TypedInv
<1>3. CASE d = c BY <1>2, <1>3, OverlappedIsTyped
<1>4. CASE d # c BY <1>2, <1>4, DisturbedIsTyped DEF TypedInv
<1> QED BY <1>3, <1>4

LEMMA TypedRests ==
  ASSUME CallsInv, TypedInv, env = "backtest", RowsTyped',
         calls' = calls \/ calls' = [d \in Callers |-> Disturbed(d)] \/ calls' = [d \in Callers |-> Idle]
  PROVE  TypedInv'
BY DisturbedIsTyped, IdleIsTyped DEF TypedInv

\* Where a step leaves the tables alone and the call goes on without a wallet to write.
LEMMA TypedOn ==
  ASSUME CallsInv, TypedInv, env = "backtest", NEW c \in Callers, NEW new, Go(c, new), UNCHANGED rows,
         \/ new.pc \in {"idle", "list", "read", "state", "archive", "insert"}
         \/ new.pc = "write" /\ calls[c].pc = "write_list" /\ new.local = calls[c].local
         \/ new.pc = "put" /\ new.info \in OnlineInfos
  PROVE  TypedInv'
<1>1. RowsTyped' BY DEF TypedInv, RowsTyped
<1>2. Typed(new) BY DEF TypedInv, Typed
<1> QED BY <1>1, <1>2, TypedGoesOn

LEMMA WriteTyped ==
  ASSUME CallsInv, TablesInv, TypedInv, env = "backtest", NEW c \in Callers, updateBacktestVenueWalletStates(c)
  PROVE  TypedInv'
<1> USE DEF updateBacktestVenueWalletStates, Others
<1> DEFINE call == calls[c]
           v == Head(call.todo)
           rest == Tail(call.todo)
           row == backtestVenueInfo(aggregateVenueWalletSnapshots(call.local), v)
           new == [call EXCEPT !.todo = rest, !.pc = IF rest = <<>> THEN "list" ELSE @]
<1>1. /\ call.pc = "write" /\ Go(c, new) /\ rows' = [rows EXCEPT ![v] = row]
  OBVIOUS
<1>2. PICK n \in Nat : DOMAIN call.local = 1..n /\ \A k \in 1..n : call.local[k].info \in OnlineInfos
  BY <1>1 DEF TypedInv, Typed
<1>3. aggregateVenueWalletSnapshots(call.local) \in OnlineInfos BY <1>2, AggregateType
<1>4. row \in OnlineInfos BY <1>3, StoredType
<1> HIDE DEF v, row, rest
<1>5. RowsTyped' BY <1>1, <1>4, RowTyped DEF TypedInv
<1>6. new.pc \in {"write", "list"} /\ new.local = call.local
  <2>1. DOMAIN call = DOMAIN Idle BY DEF CallsInv, Sound
  <2> QED BY <1>1, <2>1, FieldsOfCall
<1> HIDE DEF new
<1>7. Typed(new) BY <1>1, <1>2, <1>6 DEF Typed
<1> QED BY <1>1, <1>5, <1>7, TypedGoesOn

LEMMA ListsTyped ==
  ASSUME CallsInv, TypedInv, env = "backtest", NEW c \in Callers,
         ListBacktestWrites(c) \/ ListPortfolio(c) \/ readPortfolioSnapshot(c)
  PROVE  TypedInv'
<1> DEFINE call == calls[c]
<1>0. DOMAIN call = DOMAIN Idle /\ Idle.pc = "idle" BY DEF CallsInv, Sound, Idle
<1>1. CASE ListBacktestWrites(c)
  <2>1. PICK to : Return(c) \/ Go(c, [call EXCEPT !.todo = to, !.pc = "write"])
    BY <1>1 DEF ListBacktestWrites
  <2> DEFINE new == [call EXCEPT !.todo = to, !.pc = "write"]
  <2>2. new.pc = "write" /\ new.local = call.local BY <1>0, FieldsOfCall
  <2>3. call.pc = "write_list" /\ UNCHANGED rows BY <1>1 DEF ListBacktestWrites, Tables
  <2>4. Return(c) \/ Go(c, new) BY <2>1
  <2> HIDE DEF new
  <2> QED BY <1>0, <2>2, <2>3, <2>4, TypedOn DEF Return
<1>2. CASE ListPortfolio(c)
  <2> DEFINE new == PortfolioOf(call)
  <2>1. Go(c, new) /\ UNCHANGED rows BY <1>2 DEF ListPortfolio, Tables
  <2>2. new.pc \in {"idle", "state", "read"} BY <1>0, FieldsOfCall, PortfolioBegins
  <2> HIDE DEF new
  <2> QED BY <2>1, <2>2, TypedOn
<1>3. CASE readPortfolioSnapshot(c)
  <2>1. PICK rest, merged : \/ Return(c)
                            \/ Go(c, [call EXCEPT !.todo = rest, !.pc = IF rest = <<>> THEN "state" ELSE @,
                                        !.info = merged])
    BY <1>0, <1>3, FieldsOfCall DEF readPortfolioSnapshot
  <2> DEFINE new == [call EXCEPT !.todo = rest, !.pc = IF rest = <<>> THEN "state" ELSE @, !.info = merged]
  <2>2. call.pc = "read" /\ UNCHANGED rows BY <1>3 DEF readPortfolioSnapshot, Tables
  <2>3. new.pc \in {"read", "state"} BY <1>0, <2>2, FieldsOfCall
  <2>4. Return(c) \/ Go(c, new) BY <2>1
  <2> HIDE DEF new
  <2> QED BY <1>0, <2>2, <2>3, <2>4, TypedOn DEF Return
<1> QED BY <1>1, <1>2, <1>3

\* The steps that leave the wallets as they are.
LEMMA StateTyped ==
  ASSUME CallsInv, TypedInv, env = "backtest", NEW c \in Callers,
         UpdateAccountState(c) \/ SnapshotReadsState(c) \/ SaveSnapshot(c)
  PROVE  TypedInv'
<1> DEFINE call == calls[c]
<1>0. DOMAIN call = DOMAIN Idle /\ Idle.pc = "idle" BY DEF CallsInv, Sound, Idle
<1>1. UNCHANGED rows BY DEF UpdateAccountState, SnapshotReadsState, SaveSnapshot, Tables
<1>2. CASE Return(c) BY <1>0, <1>1, <1>2, TypedOn DEF Return
<1>3. CASE UpdateAccountState(c) /\ ~Return(c)
  <2>1. PICK n : Go(c, [call EXCEPT !.own = n, !.pc = "archive"]) BY <1>3 DEF UpdateAccountState
  <2> DEFINE new == [call EXCEPT !.own = n, !.pc = "archive"]
  <2>2. new.pc = "archive" BY <1>0, FieldsOfCall
  <2>3. Go(c, new) BY <2>1
  <2> HIDE DEF new
  <2> QED BY <1>1, <2>2, <2>3, TypedOn
<1>4. CASE SnapshotReadsState(c)
  <2>1. PICK n : Go(c, [call EXCEPT !.pc = "insert", !.copied = n]) BY <1>4 DEF SnapshotReadsState
  <2> DEFINE new == [call EXCEPT !.pc = "insert", !.copied = n]
  <2>2. new.pc = "insert" BY <1>0, FieldsOfCall
  <2>3. Go(c, new) BY <2>1
  <2> HIDE DEF new
  <2> QED BY <1>1, <2>2, <2>3, TypedOn
<1>5. SaveSnapshot(c) => Return(c) BY DEF SaveSnapshot
<1> QED BY <1>2, <1>3, <1>4, <1>5

\* A venue that is bound or created gets a wallet of its own.
LEMMA PutTyped ==
  ASSUME CallsInv, TablesInv, TypedInv, env = "backtest", NEW c \in Callers,
         attachBacktestVenueWalletState(c) \/ UpsertVenueWalletState(c)
  PROVE  TypedInv'
<1> DEFINE call == calls[c]
<1>0. DOMAIN call = DOMAIN Idle /\ Typed(call) BY DEF CallsInv, Sound, TypedInv
<1>1. CASE attachBacktestVenueWalletState(c)
  <2> DEFINE row == IF rows[call.v] = None THEN NoInfo ELSE rows[call.v]
             info == ensureBacktestVenueOnlineInfoDefaults(row, call.v)
             new == [call EXCEPT !.pc = "put", !.info = info]
  <2>1. call.pc = "attach" /\ Go(c, new) /\ UNCHANGED rows BY <1>1 DEF attachBacktestVenueWalletState, Tables
  <2>2. call.v \in Venues BY <1>0, <2>1 DEF Typed
  <2>3. row \in OnlineInfos BY <2>2, NothingIsNoWallet DEF TypedInv, RowsTyped
  <2> HIDE DEF row
  <2>4. info \in OnlineInfos BY <2>3, DefaultsType
  <2> HIDE DEF info
  <2>5. new.pc = "put" /\ new.info = info BY <1>0, FieldsOfCall
  <2> HIDE DEF new
  <2> QED BY <2>1, <2>4, <2>5, TypedOn
<1>2. CASE UpsertVenueWalletState(c)
  <2>1. call.pc = "put" /\ Return(c) /\ rows' = [rows EXCEPT ![call.v] = call.info]
    BY <1>2 DEF UpsertVenueWalletState
  <2>2. call.info \in OnlineInfos BY <1>0, <2>1 DEF Typed
  <2>3. RowsTyped' BY <2>1, <2>2, RowTyped DEF TypedInv
  <2> QED BY <2>1, <2>3, TypedReturns
<1> QED BY <1>1, <1>2

LEMMA StepTyped ==
  ASSUME CallsInv, TablesInv, TypedInv, env = "backtest", NEW c \in Callers, Step(c)
  PROVE  TypedInv'
<1>1. calls[c].pc \notin {"fetch_account", "fetch_mode", "fetch_balance", "fetch_positions", "match", "store"}
  BY DEF TypedInv, Typed
<1>2. /\ ~fetchFuturesAccount(c) /\ ~fetchMultiAssetsMode(c) /\ ~fetchFuturesBalance(c)
      /\ ~fetchFuturesPositionRisk(c) /\ ~matchVenueWalletSnapshots(c) /\ ~updateVenueWalletStatesFromSnapshots(c)
  BY <1>1 DEF fetchFuturesAccount, fetchMultiAssetsMode, fetchFuturesBalance, fetchFuturesPositionRisk,
              matchVenueWalletSnapshots, updateVenueWalletStatesFromSnapshots
<1> QED BY <1>2, WriteTyped, ListsTyped, StateTyped, PutTyped DEF Step

\* The calls that begin.
LEMMA PushTyped ==
  ASSUME CallsInv, TypedInv, env = "backtest", NEW c \in Callers, NEW pay \in Requests,
         UpdateAccountWalletState(c, pay)
  PROVE  TypedInv'
<1> USE DEF UpdateAccountWalletState, Others, Tables
<1> DEFINE to == Receiving(pay, ListActiveAccountVenues)
           T == {v \in bound : Wanted(pay, v)}
           local == localVenueWalletSnapshotsFromWalletStateRequest(pay)
           new == [Idle EXCEPT !.op = "push", !.pay = pay, !.local = local,
                     !.pc = IF env = "backtest" THEN "write_list" ELSE "list"]
<1>1. Begin(c, new) /\ UNCHANGED rows OBVIOUS
<1>2. local = [k \in DOMAIN to |-> [v |-> to[k], info |-> localVenueInfo(pay, to[k])]]
  BY DEF localVenueWalletSnapshotsFromWalletStateRequest
<1>3. to \in Seq(T) BY ListType, ReceivingType
<1> HIDE DEF to, local
<1>4. PICK n \in Nat : DOMAIN to = 1..n /\ \A k \in 1..n : to[k] \in T
  <2> HIDE DEF T
  <2>1. Len(to) \in Nat /\ DOMAIN to = 1..Len(to) /\ \A k \in 1..Len(to) : to[k] \in T BY <1>3
  <2> QED BY <2>1
<1>5. DOMAIN local = 1..n /\ \A k \in 1..n : local[k].info \in OnlineInfos
  <2>1. ASSUME NEW k \in 1..n PROVE local[k].info = localVenueInfo(pay, to[k]) BY <1>2, <1>4
  <2>2. ASSUME NEW k \in 1..n PROVE localVenueInfo(pay, to[k]) \in OnlineInfos BY <1>4, LocalType
  <2> QED BY <1>2, <1>4, <2>1, <2>2
<1>6. DOMAIN new = DOMAIN Idle /\ new.local = local /\ new.pc = IF env = "backtest" THEN "write_list" ELSE "list"
  BY DEF Idle
<1> HIDE DEF new
<1>7. Typed(new) BY <1>5, <1>6 DEF Typed
<1>8. RowsTyped' BY <1>1 DEF TypedInv, RowsTyped
<1> QED BY <1>1, <1>6, <1>7, <1>8, TypedBegins

LEMMA RefreshTyped ==
  ASSUME CallsInv, TypedInv, env = "backtest", NEW c \in Callers, NEW reason, UpdatePortfolioSnapshot(c, reason)
  PROVE  TypedInv'
<1> DEFINE asked == [Idle EXCEPT !.op = "refresh", !.pay = [futures |-> None, spot |-> None, reason |-> reason]]
           new == PortfolioOf(asked)
<1>1. Begin(c, new) /\ UNCHANGED rows BY DEF UpdatePortfolioSnapshot, Tables
<1>2. DOMAIN asked = DOMAIN Idle BY FieldsOfCall
<1> HIDE DEF asked
<1>3. DOMAIN new = DOMAIN Idle /\ new.pc \in {"idle", "state", "read"}
  <2>1. Idle.pc = "idle" BY DEF Idle
  <2> QED BY <1>2, <2>1, FieldsOfCall, PortfolioBegins
<1> HIDE DEF new
<1>4. Typed(new) /\ RowsTyped' BY <1>1, <1>3 DEF Typed, TypedInv, RowsTyped
<1> QED BY <1>1, <1>3, <1>4, TypedBegins

LEMMA VenuesTyped ==
  ASSUME CallsInv, TablesInv, TypedInv, env = "backtest", NEW c \in Callers, NEW v \in Venues,
         \/ BindVenue(c, v) \/ GetVenueOnlineInfo(c, v)
         \/ \E w \in (IF IsFutures(v) THEN FutPayloads ELSE SpotPayloads) \cup {None} : CreateVenue(c, v, w)
  PROVE  TypedInv'
<1>1. CASE BindVenue(c, v)
  <2> DEFINE call == [Idle EXCEPT !.pc = "attach", !.op = "bind", !.v = v]
  <2>1. Begin(c, call) /\ UNCHANGED rows BY <1>1 DEF BindVenue, Attach
  <2>2. DOMAIN call = DOMAIN Idle /\ call.pc = "attach" /\ call.v = v BY FieldsOfCall
  <2> HIDE DEF call
  <2>3. Typed(call) /\ RowsTyped' BY <2>1, <2>2 DEF Typed, TypedInv, RowsTyped
  <2> QED BY <2>1, <2>2, <2>3, TypedBegins
<1>2. CASE GetVenueOnlineInfo(c, v)
  <2> DEFINE info == ensureBacktestVenueOnlineInfoDefaults(NoInfo, v)
             call == [Idle EXCEPT !.pc = "put", !.op = "online", !.v = v, !.info = info]
  <2>1. Begin(c, call) /\ UNCHANGED rows BY <1>2 DEF GetVenueOnlineInfo, Tables
  <2>2. info \in OnlineInfos BY NothingIsNoWallet, DefaultsType
  <2> HIDE DEF info
  <2>3. DOMAIN call = DOMAIN Idle /\ call.pc = "put" /\ call.info = info BY FieldsOfCall
  <2> HIDE DEF call
  <2>4. Typed(call) /\ RowsTyped' BY <2>1, <2>2, <2>3 DEF Typed, TypedInv, RowsTyped
  <2> QED BY <2>1, <2>3, <2>4, TypedBegins
<1>3. ASSUME NEW w \in (IF IsFutures(v) THEN FutPayloads ELSE SpotPayloads) \cup {None}, CreateVenue(c, v, w)
      PROVE  TypedInv'
  <2> DEFINE boot == CASE w = None -> NoInfo
                       [] w # None /\ IsFutures(v) -> [NoInfo EXCEPT !.futures = fromProtoFuturesWallet(w)]
                       [] OTHER -> [NoInfo EXCEPT !.spot = w]
             info == ensureBacktestVenueOnlineInfoDefaults(boot, v)
             call == [Idle EXCEPT !.pc = "put", !.op = "create", !.v = v, !.info = info]
  <2>1. Begin(c, call) /\ rows' = [rows EXCEPT ![v] = None] BY <1>3 DEF CreateVenue, Attach
  <2>2. boot \in OnlineInfos
    <3>1. CASE w = None BY <3>1, NothingIsNoWallet
    <3>2. CASE w # None /\ IsFutures(v)
      <4>1. PICK f : f = fromProtoFuturesWallet(w) OBVIOUS
      <4>2. f \in FuturesWallets BY <3>2, <4>1, FromProto, WalletAssumption
      <4>3. boot = [NoInfo EXCEPT !.futures = f] BY <3>2, <4>1
      <4>4. [NoInfo EXCEPT !.futures = f] \in OnlineInfos BY <4>2, NothingIsNoWallet DEF OnlineInfos
      <4> QED BY <4>3, <4>4
    <3>3. CASE w # None /\ ~IsFutures(v)
      <4>1. boot = [NoInfo EXCEPT !.spot = w] /\ w \in SpotWallets BY <3>3, WalletAssumption
      <4>2. [NoInfo EXCEPT !.spot = w] \in OnlineInfos BY <4>1, NothingIsNoWallet DEF OnlineInfos
      <4> QED BY <4>1, <4>2
    <3> QED BY <3>1, <3>2, <3>3
  <2> HIDE DEF boot
  <2>3. info \in OnlineInfos BY <2>2, DefaultsType
  <2> HIDE DEF info
  <2>4. DOMAIN call = DOMAIN Idle /\ call.pc = "put" /\ call.info = info BY FieldsOfCall
  <2> HIDE DEF call
  <2>5. RowsTyped' BY <2>1, RowTyped DEF TypedInv
  <2>6. Typed(call) BY <2>3, <2>4 DEF Typed
  <2> QED BY <2>1, <2>4, <2>5, <2>6, TypedBegins
<1> QED BY <1>1, <1>2, <1>3

LEMMA NextTyped ==
  ASSUME IInv, TypedInv, [Next]_vars
  PROVE  TypedInv'
<1> USE DEF IInv
<1>0. UNCHANGED env BY EnvStays DEF vars
<1> SUFFICES ASSUME env = "backtest" PROVE TypedInv' BY <1>0 DEF TypedInv
<1>1. ASSUME NEW c \in Callers, Step(c) PROVE TypedInv' BY <1>1, StepTyped
<1>2. ASSUME NEW c \in Callers, NEW pay \in Requests, UpdateAccountWalletState(c, pay) PROVE TypedInv'
  BY <1>2, PushTyped
<1>3. ASSUME NEW c \in Callers, NEW reason \in Reasons, UpdatePortfolioSnapshot(c, reason) PROVE TypedInv'
  BY <1>3, RefreshTyped
<1>4. ASSUME NEW c \in Callers, NEW v \in Venues,
             \/ BindVenue(c, v) \/ GetVenueOnlineInfo(c, v)
             \/ \E w \in (IF IsFutures(v) THEN FutPayloads ELSE SpotPayloads) \cup {None} : CreateVenue(c, v, w)
      PROVE  TypedInv'
  BY <1>4, VenuesTyped
<1>5. ASSUME NEW v \in Venues, Detach(v) PROVE TypedInv'
  <2>1. RowsTyped'
    <3>1. CASE rows' = rows BY <3>1 DEF TypedInv, RowsTyped
    <3>2. CASE rows' = [rows EXCEPT ![v] = None] BY <3>2, RowTyped DEF TypedInv
    <3> QED BY <1>5, <3>1, <3>2 DEF Detach
  <2> QED BY <1>5, <2>1, TypedRests DEF Detach
<1>6. CASE Fail
  <2>1. PICK c \in InProgress : Return(c) BY <1>6 DEF Fail
  <2>2. c \in Callers /\ RowsTyped' BY <1>6 DEF InProgress, Fail, Fault, Tables, TypedInv, RowsTyped
  <2> QED BY <2>1, <2>2, TypedReturns
<1>7. CASE Crash
  <2>1. RowsTyped' BY <1>7 DEF Crash, Fault, Tables, TypedInv, RowsTyped
  <2> QED BY <1>7, <2>1, TypedRests DEF Crash
<1>8. CASE (\E t \in tasks : runIsolated(t)) \/ Move \/ FailRun \/ UNCHANGED vars
  <2>1. UNCHANGED <<rows, calls>>
    BY <1>8 DEF runIsolated, Move, FailRun, Fault, Others, Tables, vars
  <2>2. RowsTyped' BY <2>1 DEF TypedInv, RowsTyped
  <2> QED BY <2>1, <2>2, TypedRests
<1> QED BY <1>1, <1>2, <1>3, <1>4, <1>5, <1>6, <1>7, <1>8 DEF Next

LEMMA InitTyped == Init => TypedInv
<1> SUFFICES ASSUME Init, env = "backtest" PROVE RowsTyped /\ \A c \in Callers : Typed(calls[c])
  BY DEF TypedInv
<1>1. RowsTyped BY NothingIsNoWallet DEF Init, RowsTyped
<1>2. \A c \in Callers : Typed(calls[c]) BY IdleIsTyped DEF Init
<1> QED BY <1>1, <1>2

-----------------------------------------------------------------------------
(* What a read that nothing overlaps has added up. *)

ShownAt(table, list, k) == portfolioSnapshotFromOnlineInfoForVenue(table[list[k]], list[k])

\* The figures of the first k venues of the list.
AddedUp(info, table, list, k) ==
  /\ info.total = SumFunction([j \in 1..k |-> ShownAt(table, list, j).total])
  /\ info.wallet = SumFunction([j \in 1..k |-> ShownAt(table, list, j).wallet])
  /\ info.available = SumFunction([j \in 1..k |-> ShownAt(table, list, j).available])

\* What the read of the first k venues has come to.
ReadUpTo(info, table, list, k) ==
  /\ \A j \in 1..k : table[list[j]] \in OnlineInfos
  /\ k = 0 => info = None
  /\ k # 0 => info \in OnlineInfos /\ AddedUp(info, table, list, k)

Remaining(todo, list, k) ==
  /\ todo \in Seq(Range(list)) /\ Len(todo) = Len(list) - k
  /\ \A j \in 1..Len(todo) : todo[j] = list[k + j]

\* A push or a refresh on a backtest account whose venues are the list.
Tracks(call, table, list) ==
  /\ call.pc \in {"write_list", "write", "list"} => call.info = None
  /\ call.pc = "read" => \E k \in Nat : /\ k < Len(list) /\ Remaining(call.todo, list, k)
                                        /\ ReadUpTo(call.info, table, list, k)
  /\ call.pc = "state" => IF list = <<>> THEN call.info = NoInfo
                          ELSE ReadUpTo(call.info, table, list, Len(list))

TrackInv == \A c \in Callers : calls[c].alone => Tracks(calls[c], rows, ListActiveAccountVenues)

LEMMA SumGrows ==
  ASSUME NEW k \in Nat, NEW F \in [1..(k + 1) -> Int], NEW G, G = [j \in 1..k |-> F[j]]
  PROVE  /\ SumFunction(F) = F[k + 1] + SumFunction(G)
         /\ k = 0 => SumFunction(F) = F[k + 1]
<1> DEFINE n == k + 1
<1>1. n \in Nat /\ n # 0 /\ n - 1 = k OBVIOUS
<1>2. SumFunction(F) = SumFunction(G) + F[n]
  <2>1. SumFunction(F) = SumFunction([j \in 1..(n - 1) |-> F[j]]) + F[n]
    <3> HIDE DEF n
    <3>1. F \in [1..n -> Int] BY DEF n
    <3> QED BY <1>1, <3>1, SumOfList
  <2>2. G = [j \in 1..(n - 1) |-> F[j]] BY <1>1
  <2> QED BY <2>1, <2>2
<1>3. G \in [1..k -> Int] OBVIOUS
<1>4. SumFunction(G) \in Int /\ (k = 0 => SumFunction(G) = 0) BY <1>3, SumOfList
<1>5. F[k + 1] \in Int OBVIOUS
<1> QED BY <1>2, <1>4, <1>5

LEMMA ReadOn ==
  ASSUME NEW list, NEW table, NEW k \in Nat, NEW info, ReadUpTo(info, table, list, k),
         table[list[k + 1]] \in OnlineInfos
  PROVE  ReadUpTo(mergePortfolioOnlineInfo(info, ShownAt(table, list, k + 1)), table, list, k + 1)
<1> DEFINE shown == ShownAt(table, list, k + 1)
           new == mergePortfolioOnlineInfo(info, shown)
           T(j) == ShownAt(table, list, j).total
           W(j) == ShownAt(table, list, j).wallet
           A(j) == ShownAt(table, list, j).available
           F1 == [j \in 1..(k + 1) |-> T(j)]
           F2 == [j \in 1..(k + 1) |-> W(j)]
           F3 == [j \in 1..(k + 1) |-> A(j)]
           G1 == [j \in 1..k |-> T(j)]
           G2 == [j \in 1..k |-> W(j)]
           G3 == [j \in 1..k |-> A(j)]
<1>1. \A j \in 1..(k + 1) : table[list[j]] \in OnlineInfos BY DEF ReadUpTo
<1>2. \A j \in 1..(k + 1) : ShownAt(table, list, j) \in OnlineInfos BY <1>1, ShownType DEF ShownAt
<1>3. \A j \in 1..(k + 1) : T(j) \in Int /\ W(j) \in Int /\ A(j) \in Int BY <1>2 DEF OnlineInfos
<1>4. shown \in OnlineInfos /\ T(k + 1) = shown.total /\ W(k + 1) = shown.wallet /\ A(k + 1) = shown.available
  BY <1>2
<1>5. info \in OnlineInfos \cup {None} /\ (k # 0 => info # None)
  BY NothingIsNoWallet DEF ReadUpTo
<1> HIDE DEF shown
<1>6. /\ new \in OnlineInfos
      /\ info = None => new = shown
      /\ info # None => /\ new.total = shown.total + info.total
                        /\ new.wallet = shown.wallet + info.wallet
                        /\ new.available = shown.available + info.available
  BY <1>4, <1>5, MergeType
<1> HIDE DEF T, W, A, new
<1>7. /\ F1 \in [1..(k + 1) -> Int] /\ F2 \in [1..(k + 1) -> Int] /\ F3 \in [1..(k + 1) -> Int]
      /\ F1[k + 1] = T(k + 1) /\ F2[k + 1] = W(k + 1) /\ F3[k + 1] = A(k + 1)
      /\ G1 = [j \in 1..k |-> F1[j]] /\ G2 = [j \in 1..k |-> F2[j]] /\ G3 = [j \in 1..k |-> F3[j]]
  BY <1>3
<1> HIDE DEF F1, F2, F3, G1, G2, G3
<1>8. /\ SumFunction(F1) = T(k + 1) + SumFunction(G1) /\ (k = 0 => SumFunction(F1) = T(k + 1))
      /\ SumFunction(F2) = W(k + 1) + SumFunction(G2) /\ (k = 0 => SumFunction(F2) = W(k + 1))
      /\ SumFunction(F3) = A(k + 1) + SumFunction(G3) /\ (k = 0 => SumFunction(F3) = A(k + 1))
  <2>1. SumFunction(F1) = F1[k + 1] + SumFunction(G1) /\ (k = 0 => SumFunction(F1) = F1[k + 1])
    BY <1>7, SumGrows
  <2>2. SumFunction(F2) = F2[k + 1] + SumFunction(G2) /\ (k = 0 => SumFunction(F2) = F2[k + 1])
    BY <1>7, SumGrows
  <2>3. SumFunction(F3) = F3[k + 1] + SumFunction(G3) /\ (k = 0 => SumFunction(F3) = F3[k + 1])
    BY <1>7, SumGrows
  <2> QED BY <1>7, <2>1, <2>2, <2>3
<1>9. new.total = SumFunction(F1) /\ new.wallet = SumFunction(F2) /\ new.available = SumFunction(F3)
  <2>1. CASE k = 0 BY <1>4, <1>6, <1>8, <2>1 DEF ReadUpTo
  <2>2. CASE k # 0
    <3>1. info.total = SumFunction(G1) /\ info.wallet = SumFunction(G2) /\ info.available = SumFunction(G3)
      BY <2>2 DEF ReadUpTo, AddedUp, G1, G2, G3, T, W, A
    <3> QED BY <1>4, <1>5, <1>6, <1>8, <2>2, <3>1
  <2> QED BY <2>1, <2>2
<1>10. AddedUp(new, table, list, k + 1) BY <1>9 DEF AddedUp, F1, F2, F3, T, W, A
<1>11. k + 1 # 0 OBVIOUS
<1> QED BY <1>1, <1>6, <1>10, <1>11 DEF ReadUpTo, new, shown

-----------------------------------------------------------------------------
(* A read goes from the whole list of venues to none: TrackInv. *)

LEMMA ListIsRange ==
  ASSUME NEW S, NEW list \in Seq(S)
  PROVE  list \in Seq(Range(list)) /\ \A k \in 1..Len(list) : list[k] \in S
<1>1. DOMAIN list = 1..Len(list) /\ Len(list) \in Nat BY DEF Range
<1>2. \A k \in 1..Len(list) : list[k] \in S /\ list[k] \in Range(list) BY <1>1 DEF Range
<1>3. list = [k \in 1..Len(list) |-> list[k]] OBVIOUS
<1> QED BY <1>1, <1>2, <1>3

LEMMA EmptyList ==
  ASSUME NEW S, NEW list \in Seq(S)
  PROVE  list = <<>> <=> Len(list) = 0
OBVIOUS

\* A read begins with the whole list, and with an account that has none it is over.
LEMMA ReadBegins ==
  ASSUME env = "backtest", NEW call, DOMAIN call = DOMAIN Idle, call.info = None, NEW table
  PROVE  Tracks(PortfolioOf(call), table, ListActiveAccountVenues)
<1> DEFINE list == ListActiveAccountVenues
           empty == [call EXCEPT !.info = NoInfo, !.pc = "state"]
           stored == [call EXCEPT !.todo = list, !.pc = "read"]
<1>1. list \in Seq(bound) BY ListType
<1> HIDE DEF list
<1>2. CASE list = <<>>
  <2>1. PortfolioOf(call) = empty BY <1>2 DEF PortfolioOf, list
  <2>2. empty.pc = "state" /\ empty.info = NoInfo BY FieldsOfCall
  <2> HIDE DEF empty
  <2> QED BY <1>2, <2>1, <2>2 DEF Tracks, list
<1>3. CASE list # <<>>
  <2>1. PortfolioOf(call) = stored BY <1>3 DEF PortfolioOf, list
  <2>2. stored.pc = "read" /\ stored.info = None /\ stored.todo = list BY FieldsOfCall
  <2> HIDE DEF stored
  <2>3. 0 < Len(list) /\ Remaining(list, list, 0)
    <3>1. list \in Seq(Range(list)) BY <1>1, ListIsRange
    <3>2. Len(list) \in Nat /\ Len(list) # 0 BY <1>1, <1>3
    <3>3. \A j \in 1..Len(list) : list[j] = list[0 + j] OBVIOUS
    <3> QED BY <3>1, <3>2, <3>3 DEF Remaining
  <2>4. ReadUpTo(None, table, list, 0) BY DEF ReadUpTo
  <2>5. Tracks(stored, table, list) BY <2>2, <2>3, <2>4 DEF Tracks
  <2> QED BY <2>1, <2>5 DEF list
<1> QED BY <1>2, <1>3

\* The read of the next venue.
LEMMA ReadGoesOn ==
  ASSUME NEW list, NEW S, list \in Seq(S), NEW table, NEW call, DOMAIN call = DOMAIN Idle,
         call.pc = "read", Tracks(call, table, list),
         NEW v, v = Head(call.todo), table[v] \in OnlineInfos,
         NEW rest, rest = Tail(call.todo), NEW new, DOMAIN new = DOMAIN Idle,
         new.info = mergePortfolioOnlineInfo(call.info, portfolioSnapshotFromOnlineInfoForVenue(table[v], v)),
         new.todo = rest, new.pc = IF rest = <<>> THEN "state" ELSE "read"
  PROVE  Tracks(new, table, list)
<1>1. PICK k \in Nat : /\ k < Len(list) /\ Remaining(call.todo, list, k)
                       /\ ReadUpTo(call.info, table, list, k)
  BY DEF Tracks
<1> DEFINE todo == call.todo
           R == Range(list)
<1>2. todo \in Seq(R) /\ Len(todo) = Len(list) - k /\ \A j \in 1..Len(todo) : todo[j] = list[k + j]
  BY <1>1 DEF Remaining
<1>3. Len(list) \in Nat OBVIOUS
<1> HIDE DEF todo, R
<1>4. todo # <<>> /\ 1 \in 1..Len(todo) BY <1>1, <1>2, <1>3
<1>5. /\ rest \in Seq(R) /\ Len(rest) = Len(todo) - 1 /\ v = todo[1]
      /\ \A j \in 1..Len(rest) : rest[j] = todo[j + 1]
  BY <1>2, <1>4 DEF todo
<1>6. v = list[k + 1] BY <1>2, <1>4, <1>5
<1>7. ReadUpTo(new.info, table, list, k + 1) BY <1>1, <1>6, ReadOn DEF ShownAt
<1>8. k + 1 \in Nat /\ Len(rest) = Len(list) - (k + 1) /\ Len(rest) \in Nat BY <1>1, <1>2, <1>3, <1>5
<1>9. \A j \in 1..Len(rest) : rest[j] = list[(k + 1) + j]
  <2> SUFFICES ASSUME NEW j \in 1..Len(rest) PROVE rest[j] = list[(k + 1) + j] OBVIOUS
  <2>1. j + 1 \in 1..Len(todo) /\ k + (j + 1) = (k + 1) + j BY <1>2, <1>5, <1>8
  <2> QED BY <1>2, <1>5, <2>1
<1>12. (rest = <<>>) <=> (Len(rest) = 0)
  <2>1. PICK r : r = rest OBVIOUS
  <2>2. r \in Seq(R) BY <1>5, <2>1
  <2>3. (r = <<>>) <=> (Len(r) = 0) BY <2>2, EmptyList
  <2> QED BY <2>1, <2>3
<1>13. (Len(rest) = 0 => k + 1 = Len(list)) /\ (Len(rest) # 0 => k + 1 < Len(list))
  <2>1. ASSUME NEW n \in Nat, NEW m \in Nat, NEW j \in Nat, m = n - (j + 1)
        PROVE  (m = 0 => j + 1 = n) /\ (m # 0 => j + 1 < n)
    BY <2>1
  <2>2. PICK m : m = Len(rest) OBVIOUS
  <2>3. PICK n : n = Len(list) OBVIOUS
  <2>4. m \in Nat /\ n \in Nat /\ m = n - (k + 1) BY <1>3, <1>8, <2>2, <2>3
  <2>5. (m = 0 => k + 1 = n) /\ (m # 0 => k + 1 < n) BY <2>1, <2>4
  <2> QED BY <2>2, <2>3, <2>5
<1>10. CASE rest = <<>>
  <2>1. Len(rest) = 0 BY <1>10, <1>12
  <2>2. k + 1 = Len(list) BY <1>13, <2>1
  <2>3. list # <<>> BY <1>3, <2>2, EmptyList
  <2> QED BY <1>7, <1>10, <2>2, <2>3 DEF Tracks
<1>11. CASE rest # <<>>
  <2>1. Len(rest) # 0 BY <1>11, <1>12
  <2>2. k + 1 < Len(list) BY <1>13, <2>1
  <2>3. Remaining(rest, list, k + 1) BY <1>5, <1>8, <1>9 DEF Remaining, R
  <2> QED BY <1>7, <1>8, <1>11, <2>2, <2>3 DEF Tracks
<1> QED BY <1>10, <1>11

\* A call that is not about the portfolio.
LEMMA NotYetReading ==
  ASSUME NEW call, NEW table, NEW list,
         call.pc \notin {"write_list", "write", "list", "read", "state"}
  PROVE  Tracks(call, table, list)
BY DEF Tracks

\* The steps of a call that runs alone.
LEMMA StepTracks ==
  ASSUME IInv, AloneInv, TypedInv, TrackInv, env = "backtest", NEW c \in Callers, Step(c), calls'[c].alone
  PROVE  Tracks(calls'[c], rows', ListActiveAccountVenues')
<1> USE DEF IInv
<1> DEFINE call == calls[c]
           list == ListActiveAccountVenues
           Goal == Tracks(calls'[c], rows', ListActiveAccountVenues')
<1>0. DOMAIN call = DOMAIN Idle /\ DOMAIN calls = Callers /\ Idle.pc = "idle"
  BY DEF CallsInv, Sound, Idle
<1>1. \A new : Go(c, new) => calls'[c] = new BY <1>0 DEF Go
<1>2. Return(c) => Goal BY <1>0, <1>1, NotYetReading DEF Return
<1>3. CASE ListBacktestWrites(c)
  <2>1. PICK to : Return(c) \/ Go(c, [call EXCEPT !.todo = to, !.pc = "write"])
    BY <1>3 DEF ListBacktestWrites
  <2> DEFINE new == [call EXCEPT !.todo = to, !.pc = "write"]
  <2>2. new.pc = "write" /\ new.info = call.info /\ new.alone = call.alone BY <1>0, FieldsOfCall
  <2>3. call.pc = "write_list" BY <1>3 DEF ListBacktestWrites
  <2>4. Return(c) \/ calls'[c] = new BY <1>1, <2>1
  <2> HIDE DEF new
  <2>5. CASE calls'[c] = new
    <3>1. call.info = None BY <2>2, <2>3, <2>5 DEF TrackInv, Tracks
    <3> QED BY <2>2, <2>5, <3>1 DEF Tracks
  <2> QED BY <1>2, <2>4, <2>5
<1>4. CASE updateBacktestVenueWalletStates(c)
  <2> DEFINE rest == Tail(call.todo)
             new == [call EXCEPT !.todo = rest, !.pc = IF rest = <<>> THEN "list" ELSE @]
  <2>1. call.pc = "write" /\ Go(c, new) BY <1>4 DEF updateBacktestVenueWalletStates
  <2> HIDE DEF rest
  <2>2. new.pc \in {"write", "list"} /\ new.info = call.info /\ new.alone = call.alone
    BY <1>0, <2>1, FieldsOfCall
  <2> HIDE DEF new
  <2>3. calls'[c] = new BY <1>1, <2>1
  <2>4. call.info = None BY <2>1, <2>2, <2>3 DEF TrackInv, Tracks
  <2> QED BY <2>2, <2>3, <2>4 DEF Tracks
<1>5. CASE ListPortfolio(c)
  <2>1. call.pc = "list" /\ Go(c, PortfolioOf(call)) /\ UNCHANGED bound BY <1>5 DEF ListPortfolio, Others
  <2>2. calls'[c] = PortfolioOf(call) /\ ListActiveAccountVenues' = list BY <1>1, <2>1, ListStays
  <2>3. call.alone \/ PortfolioOf(call) = Idle
    <3>1. PortfolioOf(call) # Idle => PortfolioOf(call).alone = call.alone
      BY <1>0, FieldsOfCall, PortfolioBegins
    <3> QED BY <2>2, <3>1
  <2>4. CASE PortfolioOf(call) = Idle BY <1>0, <2>2, <2>4, NotYetReading
  <2>5. CASE call.alone
    <3>1. call.info = None BY <2>1, <2>5 DEF TrackInv, Tracks
    <3> QED BY <1>0, <2>2, <3>1, ReadBegins
  <2> QED BY <2>3, <2>4, <2>5
<1>6. CASE readPortfolioSnapshot(c)
  <2> DEFINE v == Head(call.todo)
             rest == Tail(call.todo)
             merged == mergePortfolioOnlineInfo(call.info, portfolioSnapshotFromOnlineInfoForVenue(rows[v], v))
             new == [call EXCEPT !.todo = rest, !.pc = IF rest = <<>> THEN "state" ELSE @, !.info = merged]
  <2>1. /\ call.pc = "read" /\ UNCHANGED <<rows, bound>>
        /\ \/ Return(c)
           \/ rows[v] # None /\ Go(c, new)
    BY <1>0, <1>6, FieldsOfCall DEF readPortfolioSnapshot, Others, Tables
  <2>2. CASE rows[v] # None /\ Go(c, new)
    <3> HIDE DEF rest, merged
    <3>1. /\ DOMAIN new = DOMAIN Idle /\ new.todo = rest /\ new.info = merged /\ new.alone = call.alone
          /\ new.pc = IF rest = <<>> THEN "state" ELSE "read"
      BY <1>0, <2>1, FieldsOfCall
    <3> HIDE DEF new
    <3>2. calls'[c] = new /\ rows' = rows /\ ListActiveAccountVenues' = list BY <1>1, <2>1, <2>2, ListStays
    <3>3. Tracks(call, rows, list) BY <3>1, <3>2 DEF TrackInv
    <3>4. v \in Venues
      <4>1. PICK k \in Nat : k < Len(list) /\ Remaining(call.todo, list, k) BY <2>1, <3>3 DEF Tracks
      <4>2. list \in Seq(bound) BY ListType
      <4>3. Len(call.todo) = Len(list) - k /\ call.todo \in Seq(Range(list)) /\ call.todo[1] = list[k + 1]
        <5>1. Len(list) \in Nat BY <4>2
        <5>2. 1 \in 1..Len(call.todo) BY <4>1, <5>1 DEF Remaining
        <5> QED BY <4>1, <5>2 DEF Remaining
      <4>4. v = call.todo[1]
        <5>1. PICK todo : todo = call.todo OBVIOUS
        <5>2. todo \in Seq(Range(list)) /\ Len(todo) # 0 BY <4>1, <4>2, <4>3, <5>1
        <5> QED BY <5>1, <5>2
      <4>5. k + 1 \in 1..Len(list) BY <4>1, <4>2
      <4>6. list[k + 1] \in bound BY <4>2, <4>5, ListIsRange
      <4> QED BY <4>3, <4>4, <4>6 DEF AloneInv
    <3>5. rows[v] \in OnlineInfos BY <2>2, <3>4 DEF TypedInv, RowsTyped
    <3>6. list \in Seq(bound) BY ListType
    <3> HIDE DEF v, list
    <3>7. Tracks(new, rows, list)
      BY <1>0, <2>1, <3>1, <3>3, <3>5, <3>6, ReadGoesOn DEF merged, rest, v
    <3> QED BY <3>2, <3>7
  <2> QED BY <1>2, <2>1, <2>2
<1>7. CASE UpdateAccountState(c) \/ SnapshotReadsState(c) \/ SaveSnapshot(c) \/ UpsertVenueWalletState(c)
             \/ attachBacktestVenueWalletState(c)
  <2>1. PICK n, info : \/ Return(c)
                       \/ Go(c, [call EXCEPT !.own = n, !.pc = "archive"])
                       \/ Go(c, [call EXCEPT !.pc = "insert", !.copied = n])
                       \/ Go(c, [call EXCEPT !.pc = "put", !.info = info])
    BY <1>7 DEF UpdateAccountState, SnapshotReadsState, SaveSnapshot, UpsertVenueWalletState,
                attachBacktestVenueWalletState
  <2>2. /\ [call EXCEPT !.own = n, !.pc = "archive"].pc = "archive"
        /\ [call EXCEPT !.pc = "insert", !.copied = n].pc = "insert"
        /\ [call EXCEPT !.pc = "put", !.info = info].pc = "put"
    BY <1>0, FieldsOfCall
  <2>3. Return(c) \/ calls'[c].pc \in {"archive", "insert", "put"} BY <1>1, <2>1, <2>2
  <2> QED BY <1>2, <2>3, NotYetReading
<1>8. /\ ~fetchFuturesAccount(c) /\ ~fetchMultiAssetsMode(c) /\ ~fetchFuturesBalance(c)
      /\ ~fetchFuturesPositionRisk(c) /\ ~matchVenueWalletSnapshots(c) /\ ~updateVenueWalletStatesFromSnapshots(c)
  <2>1. calls[c].pc \notin {"fetch_account", "fetch_mode", "fetch_balance", "fetch_positions", "match", "store"}
    BY DEF TypedInv, Typed
  <2> QED BY <2>1 DEF fetchFuturesAccount, fetchMultiAssetsMode, fetchFuturesBalance, fetchFuturesPositionRisk,
                      matchVenueWalletSnapshots, updateVenueWalletStatesFromSnapshots
<1> QED BY <1>3, <1>4, <1>5, <1>6, <1>7, <1>8 DEF Step

\* A step of a call is one of a call in progress, and of its own record.
LEMMA StepOfCall ==
  ASSUME NEW c, Step(c)
  PROVE  calls[c].pc # "idle" /\ \E new : Go(c, new)
<1>1. Return(c) => \E new : Go(c, new) BY DEF Return
<1>2. CASE ListBacktestWrites(c) BY <1>1, <1>2 DEF ListBacktestWrites
<1>3. CASE updateBacktestVenueWalletStates(c) BY <1>3 DEF updateBacktestVenueWalletStates
<1>4. CASE ListPortfolio(c) BY <1>4 DEF ListPortfolio
<1>5. CASE readPortfolioSnapshot(c) BY <1>1, <1>5 DEF readPortfolioSnapshot
<1>6. CASE fetchFuturesAccount(c) \/ fetchMultiAssetsMode(c) \/ fetchFuturesBalance(c) \/ fetchFuturesPositionRisk(c)
  BY <1>6 DEF fetchFuturesAccount, fetchMultiAssetsMode, fetchFuturesBalance, fetchFuturesPositionRisk
<1>7. CASE matchVenueWalletSnapshots(c) \/ updateVenueWalletStatesFromSnapshots(c)
  BY <1>7 DEF matchVenueWalletSnapshots, updateVenueWalletStatesFromSnapshots
<1>8. CASE UpdateAccountState(c) \/ SnapshotReadsState(c) \/ SaveSnapshot(c)
  BY <1>1, <1>8 DEF UpdateAccountState, SnapshotReadsState, SaveSnapshot
<1>9. CASE attachBacktestVenueWalletState(c) \/ UpsertVenueWalletState(c)
  BY <1>1, <1>9 DEF attachBacktestVenueWalletState, UpsertVenueWalletState
<1> QED BY <1>2, <1>3, <1>4, <1>5, <1>6, <1>7, <1>8, <1>9 DEF Step

LEMMA DisturbedTracks ==
  ASSUME CallsInv, NEW d \in Callers, Disturbed(d).alone, NEW table, NEW list
  PROVE  Tracks(Disturbed(d), table, list)
BY OverlappedIsNotAlone, NotYetReading

\* A call that begins alone tracks what its first record tracks.
LEMMA BeginTracks ==
  ASSUME CallsInv, NEW c \in Callers, NEW call, Begin(c, call), DOMAIN call = DOMAIN Idle,
         NEW table, NEW list, env = "backtest" => Tracks(call, table, list),
         NEW d \in Callers, calls'[d].alone
  PROVE  Tracks(calls'[d], table, list)
<1>1. PICK b : b = (env = "backtest" /\ InProgress = {}) OBVIOUS
<1> DEFINE new == [call EXCEPT !.alone = b]
<1>2. calls'[d] = IF d = c THEN new ELSE Disturbed(d) BY <1>1 DEF Begin
<1>3. new.alone = b /\ new.pc = call.pc /\ new.info = call.info /\ new.todo = call.todo BY FieldsOfCall
<1> HIDE DEF new
<1>4. CASE d = c
  <2>1. calls'[d] = new BY <1>2, <1>4
  <2>2. env = "backtest" BY <1>1, <1>3, <2>1
  <2> QED BY <1>3, <2>1, <2>2 DEF Tracks
<1>5. CASE d # c BY <1>2, <1>5, DisturbedTracks
<1> QED BY <1>4, <1>5

LEMMA PushBeginsTracks ==
  ASSUME CallsInv, NEW c \in Callers, NEW pay, UpdateAccountWalletState(c, pay), NEW d \in Callers, calls'[d].alone,
         NEW table, NEW list
  PROVE  Tracks(calls'[d], table, list)
<1> DEFINE local == localVenueWalletSnapshotsFromWalletStateRequest(pay)
           new == [Idle EXCEPT !.op = "push", !.pay = pay, !.local = local,
                     !.pc = IF env = "backtest" THEN "write_list" ELSE "list"]
<1>1. Begin(c, new) BY DEF UpdateAccountWalletState
<1> HIDE DEF local
<1>2. DOMAIN new = DOMAIN Idle /\ new.info = None /\ (env = "backtest" => new.pc = "write_list") BY DEF Idle
<1> HIDE DEF new
<1>3. env = "backtest" => Tracks(new, table, list) BY <1>2 DEF Tracks
<1> QED BY <1>1, <1>2, <1>3, BeginTracks

LEMMA RefreshBeginsTracks ==
  ASSUME CallsInv, NEW c \in Callers, NEW reason, UpdatePortfolioSnapshot(c, reason), NEW d \in Callers,
         calls'[d].alone
  PROVE  Tracks(calls'[d], rows', ListActiveAccountVenues')
<1> DEFINE asked == [Idle EXCEPT !.op = "refresh", !.pay = [futures |-> None, spot |-> None, reason |-> reason]]
           new == PortfolioOf(asked)
           list == ListActiveAccountVenues
<1>1. Begin(c, new) /\ UNCHANGED bound BY DEF UpdatePortfolioSnapshot, Others
<1>2. ListActiveAccountVenues' = list BY <1>1, ListStays
<1>3. DOMAIN asked = DOMAIN Idle /\ asked.info = None BY DEF Idle
<1> HIDE DEF asked
<1>4. DOMAIN new = DOMAIN Idle
  <2>1. Idle.pc = "idle" BY DEF Idle
  <2> QED BY <1>3, <2>1, FieldsOfCall, PortfolioBegins
<1>5. env = "backtest" => Tracks(new, rows', list) BY <1>3, ReadBegins
<1> HIDE DEF new, list
<1> QED BY <1>1, <1>2, <1>4, <1>5, BeginTracks

LEMMA VenueBeginsTracks ==
  ASSUME CallsInv, NEW c \in Callers, NEW v, NEW d \in Callers, calls'[d].alone, NEW table, NEW list,
         BindVenue(c, v) \/ GetVenueOnlineInfo(c, v) \/ \E w : CreateVenue(c, v, w)
  PROVE  Tracks(calls'[d], table, list)
<1>1. \A call : Attach(c, v, call) => Begin(c, call) \/ calls' = [e \in Callers |-> Disturbed(e)] BY DEF Attach
<1>2. CASE calls' = [e \in Callers |-> Disturbed(e)] BY <1>2, DisturbedTracks
<1>3. ASSUME NEW call, Begin(c, call), DOMAIN call = DOMAIN Idle, call.pc \in {"put", "attach"}
      PROVE  Tracks(calls'[d], table, list)
  BY <1>3, NotYetReading, BeginTracks
<1>4. CASE BindVenue(c, v)
  <2> DEFINE call == [Idle EXCEPT !.pc = "attach", !.op = "bind", !.v = v]
  <2>1. Attach(c, v, call) BY <1>4 DEF BindVenue
  <2>2. DOMAIN call = DOMAIN Idle /\ call.pc = "attach" BY FieldsOfCall
  <2> HIDE DEF call
  <2> QED BY <1>1, <1>2, <1>3, <2>1, <2>2
<1>5. CASE GetVenueOnlineInfo(c, v)
  <2>1. PICK info : Begin(c, [Idle EXCEPT !.pc = "put", !.op = "online", !.v = v, !.info = info])
    BY <1>5 DEF GetVenueOnlineInfo
  <2> DEFINE call == [Idle EXCEPT !.pc = "put", !.op = "online", !.v = v, !.info = info]
  <2>2. Begin(c, call) BY <2>1
  <2>3. DOMAIN call = DOMAIN Idle /\ call.pc = "put" BY FieldsOfCall
  <2> HIDE DEF call
  <2> QED BY <1>3, <2>2, <2>3
<1>6. CASE \E w : CreateVenue(c, v, w)
  <2>1. PICK info : Attach(c, v, [Idle EXCEPT !.pc = "put", !.op = "create", !.v = v, !.info = info])
    BY <1>6 DEF CreateVenue
  <2> DEFINE call == [Idle EXCEPT !.pc = "put", !.op = "create", !.v = v, !.info = info]
  <2>2. Attach(c, v, call) BY <2>1
  <2>3. DOMAIN call = DOMAIN Idle /\ call.pc = "put" BY FieldsOfCall
  <2> HIDE DEF call
  <2> QED BY <1>1, <1>2, <1>3, <2>2, <2>3
<1> QED BY <1>4, <1>5, <1>6

\* Where the tables and the venues stay, a call that does too tracks what it tracked.
LEMMA TrackRests ==
  ASSUME TrackInv, UNCHANGED <<rows, bound>>, NEW d \in Callers, calls'[d] = calls[d], calls'[d].alone
  PROVE  Tracks(calls'[d], rows', ListActiveAccountVenues')
<1>1. ListActiveAccountVenues' = ListActiveAccountVenues BY ListStays
<1> QED BY <1>1 DEF TrackInv

LEMMA NextTracks ==
  ASSUME IInv, AloneInv, TypedInv, TrackInv, [Next]_vars
  PROVE  TrackInv'
<1> USE DEF IInv
<1> SUFFICES ASSUME NEW d \in Callers, calls'[d].alone
             PROVE  Tracks(calls'[d], rows', ListActiveAccountVenues')
  BY DEF TrackInv
<1> DEFINE Goal == Tracks(calls'[d], rows', ListActiveAccountVenues')
<1>0. DOMAIN calls = Callers /\ Idle.pc = "idle" BY DEF CallsInv, Idle
<1>1. ASSUME calls'[d].pc = "idle" PROVE Goal BY <1>1, NotYetReading
<1>2. ASSUME NEW c \in Callers, Step(c) PROVE Goal
  <2>1. calls[c].pc # "idle" /\ \E new : Go(c, new) BY <1>2, StepOfCall
  <2>2. CASE d # c
    <3>1. calls'[d] = calls[d] BY <1>0, <2>1, <2>2 DEF Go
    <3>2. calls[d].pc = "idle" BY <2>1, <2>2, <3>1 DEF AloneInv, Alone
    <3> QED BY <1>1, <3>1, <3>2
  <2>3. CASE d = c
    <3>1. AloneInv' BY NextAlone
    <3>2. calls'[d].pc = "idle" \/ env' = "backtest" BY <3>1 DEF AloneInv, Alone
    <3>3. env' = env BY EnvStays DEF vars
    <3>4. CASE env = "backtest"
      <4>1. calls'[c].alone BY <2>3
      <4> QED BY <1>2, <2>3, <3>4, <4>1, StepTracks
    <3> QED BY <1>1, <3>2, <3>3, <3>4
  <2> QED BY <2>2, <2>3
<1>3. ASSUME NEW c \in Callers, NEW pay \in Requests, UpdateAccountWalletState(c, pay) PROVE Goal
  BY <1>3, PushBeginsTracks
<1>4. ASSUME NEW c \in Callers, NEW reason \in Reasons, UpdatePortfolioSnapshot(c, reason) PROVE Goal
  BY <1>4, RefreshBeginsTracks
<1>5. ASSUME NEW c \in Callers, NEW v \in Venues,
             BindVenue(c, v) \/ GetVenueOnlineInfo(c, v) \/ \E w : CreateVenue(c, v, w)
      PROVE  Goal
  BY <1>5, VenueBeginsTracks
<1>6. ASSUME NEW v \in Venues, Detach(v) PROVE Goal
  <2>1. calls'[d] = Disturbed(d) BY <1>6 DEF Detach
  <2> QED BY <2>1, DisturbedTracks
<1>7. CASE Fail
  <2>1. PICK c \in InProgress : Return(c) BY <1>7 DEF Fail
  <2>2. calls'[d] = IF d = c THEN Idle ELSE calls[d] BY <1>0, <2>1 DEF Return, Go
  <2>3. UNCHANGED <<rows, bound>> BY <1>7 DEF Fail, Fault, Others, Tables
  <2>4. CASE d = c BY <1>0, <1>1, <2>2, <2>4
  <2>5. CASE d # c BY <2>2, <2>3, <2>5, TrackRests
  <2> QED BY <2>4, <2>5
<1>8. CASE Crash
  <2>1. calls'[d] = Idle BY <1>8 DEF Crash
  <2> QED BY <1>0, <1>1, <2>1
<1>9. CASE (\E t \in tasks : runIsolated(t)) \/ Move \/ FailRun \/ UNCHANGED vars
  <2>1. UNCHANGED <<rows, bound, calls>>
    BY <1>9 DEF runIsolated, Move, FailRun, Fault, Others, Tables, vars
  <2> QED BY <2>1, TrackRests
<1> QED BY <1>2, <1>3, <1>4, <1>5, <1>6, <1>7, <1>8, <1>9 DEF Next

LEMMA InitTracks == Init => TrackInv
<1> SUFFICES ASSUME Init, NEW c \in Callers PROVE Tracks(calls[c], rows, ListActiveAccountVenues)
  BY DEF TrackInv
<1>1. calls[c].pc = "idle" BY DEF Init, Idle
<1> QED BY <1>1, NotYetReading

\* The figures of the venues of the list added up.
SumsUp(info, table, list) ==
  /\ info.total = SumFunction([k \in DOMAIN list |-> ShownAt(table, list, k).total])
  /\ info.wallet = SumFunction([k \in DOMAIN list |-> ShownAt(table, list, k).wallet])
  /\ info.available = SumFunction([k \in DOMAIN list |-> ShownAt(table, list, k).available])

LEMMA ReadAddsUp ==
  ASSUME NEW S, NEW list \in Seq(S), NEW table, NEW call, call.pc = "state", Tracks(call, table, list)
  PROVE  SumsUp(call.info, table, list)
<1>1. DOMAIN list = 1..Len(list) /\ Len(list) \in Nat OBVIOUS
<1>2. CASE list = <<>>
  <2> DEFINE T == [k \in DOMAIN list |-> ShownAt(table, list, k).total]
             W == [k \in DOMAIN list |-> ShownAt(table, list, k).wallet]
             A == [k \in DOMAIN list |-> ShownAt(table, list, k).available]
  <2>1. DOMAIN list = 1..0 BY <1>2
  <2>2. T \in [1..0 -> Int] /\ W \in [1..0 -> Int] /\ A \in [1..0 -> Int] BY <2>1
  <2> HIDE DEF T, W, A
  <2>3. SumFunction(T) = 0 /\ SumFunction(W) = 0 /\ SumFunction(A) = 0 BY <2>2, SumOfList
  <2>4. call.info.total = 0 /\ call.info.wallet = 0 /\ call.info.available = 0 BY <1>2 DEF Tracks, NoInfo
  <2> QED BY <2>3, <2>4 DEF SumsUp, T, W, A
<1>3. CASE list # <<>>
  <2>1. Len(list) # 0 BY <1>3, EmptyList
  <2>2. AddedUp(call.info, table, list, Len(list)) BY <1>3, <2>1 DEF Tracks, ReadUpTo
  <2> QED BY <1>1, <2>2 DEF AddedUp, SumsUp
<1> QED BY <1>2, <1>3

\* A push or a refresh that nothing overlaps leaves the state of a backtest account equal
\* to the sum of its venues' wallets, for any wallets (UpdateAccountState after
\* readPortfolioSnapshot and mergePortfolioOnlineInfo).
THEOREM AccountTracksVenuesHolds == Spec => AccountTracksVenues
<1> DEFINE Sums(c) ==
             Settles(c) =>
               LET list == ListActiveAccountVenues
                   Shown(k) == portfolioSnapshotFromOnlineInfoForVenue(rows[list[k]], list[k])
               IN  /\ acct'.info.total = SumFunction([k \in DOMAIN list |-> Shown(k).total])
                   /\ acct'.info.wallet = SumFunction([k \in DOMAIN list |-> Shown(k).wallet])
                   /\ acct'.info.available = SumFunction([k \in DOMAIN list |-> Shown(k).available])
<1>1. Init => AloneInv BY InitAlone
<1>2. IInv /\ AloneInv /\ [Next]_vars => AloneInv' BY NextAlone
<1>3. Init => TypedInv BY InitTyped
<1>4. IInv /\ TypedInv /\ [Next]_vars => TypedInv' BY NextTyped
<1>5. Init => TrackInv BY InitTracks
<1>6. IInv /\ AloneInv /\ TypedInv /\ TrackInv /\ [Next]_vars => TrackInv' BY NextTracks
<1>7. TrackInv /\ [Next]_vars => [\A c \in Callers : Sums(c)]_vars
  <2> SUFFICES ASSUME TrackInv, NEW c \in Callers, Settles(c) PROVE Sums(c) OBVIOUS
  <2>1. calls[c].pc = "state" /\ calls[c].alone /\ acct'.info = calls[c].info BY DEF Settles, UpdateAccountState
  <2>2. Tracks(calls[c], rows, ListActiveAccountVenues) BY <2>1 DEF TrackInv
  <2>3. SumsUp(calls[c].info, rows, ListActiveAccountVenues) BY <2>1, <2>2, ListType, ReadAddsUp
  <2> QED BY <2>1, <2>3 DEF SumsUp, ShownAt
<1> QED BY <1>1, <1>2, <1>3, <1>4, <1>5, <1>6, <1>7, Inductive, PTL DEF Spec, AccountTracksVenues

=============================================================================
