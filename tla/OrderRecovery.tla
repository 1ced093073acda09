---------------------------- MODULE OrderRecovery ----------------------------
(***************************************************************************)
(* The order system: the RPC handlers of OrderAttempts together with the   *)
(* two background actors that write the same tables, the REST recovery     *)
(* scanner (one goroutine, runOrderRecoveryScanner) and the user-data      *)
(* ingestor fed by the exchange's websocket.                               *)
(*                                                                         *)
(* The websocket may lose, repeat, delay and reorder messages: anything    *)
(* that has happened at the exchange may be delivered at any time, any     *)
(* number of times, or never. All orders belong to one venue, so a venue   *)
(* back-off ends the scan it happens in.                                   *)
(***************************************************************************)
EXTENDS OrderAttempts, Integers

VARIABLES
  scan,   \* the scanner's local state
  ws,     \* the message the ingestor is working on: <<attempt, trade or 0>>
  terms   \* attempts with a terminal row in order_lifecycle_events

rvars == <<vars, scan, ws, terms>>

ScanPCs == {"idle", "loop", "trades", "write", "close",
            "force_query", "force_trades", "force_write", "force_close"}

\* todo: orders listed and not yet visited; late: those past their deadline when
\* listed; a, st, n: the order being visited as the exchange showed it; m: trades to
\* write, t: the next of them; err: the cancel of a force close failed.
ScanStates == [pc : ScanPCs, todo : SUBSET Attempts, late : SUBSET Attempts,
               a : Attempts \cup {NoAttempt}, st : OrderStatuses,
               n : 0..Qty, m : 0..Qty, t : 0..Qty, err : BOOLEAN]
IdleScan == [pc |-> "idle", todo |-> {}, late |-> {}, a |-> NoAttempt, st |-> "NEW",
             n |-> 0, m |-> 0, t |-> 0, err |-> FALSE]

NoMessage == <<NoAttempt, 0>>

\* Slip: only a fill ends an order.
IsTerminalFilledOnly(st) == st = "FILLED"

\* The code lists the statuses that end an order; any other is taken for open. (EXPIRED
\* and REJECTED are CANCELED here.)
isTerminal(st) == st \in {"FILLED", "CANCELED"}

\* Only these statuses make the scanner read trades.
hasFillDelta(st, n) == st \in {"FILLED", "PARTIALLY_FILLED"} /\ n > 0

-----------------------------------------------------------------------------
(* SaveLifecycleEvent: the event row is upserted, then, in a statement of    *)
(* its own, a fill that order_fills lacks is inserted. The background calls  *)
(* can fail before, between and after the two.                               *)

SaveOutcomes == {"ok"} \cup (IF faults < MaxFaults THEN {"fail", "event_only", "lost"} ELSE {})

ChargeSave(o) == faults' = IF o = "ok" THEN faults ELSE faults + 1

SaveFillEvent(a, t, o) ==
  /\ events' = IF o = "fail" THEN events ELSE events \cup {<<a, t>>}
  /\ fills' = IF o \in {"ok", "lost"} /\ fills[<<a, t>>] = 0
              THEN [fills EXCEPT ![<<a, t>>] = 1] ELSE fills

SaveTerminalEvent(a, o) == terms' = IF o = "fail" THEN terms ELSE terms \cup {a}

-----------------------------------------------------------------------------
(* ScanOnce. *)

\* ListDueOpenOrders. An empty batch is no step.
ListDueOpenOrders ==
  /\ scan.pc = "idle"
  /\ \E a \in Attempts : Tracked(a)
  /\ scan' = [IdleScan EXCEPT !.pc = "loop",
                              !.todo = {a \in Attempts : Tracked(a)},
                              !.late = {a \in Attempts : Tracked(a) /\ orders[a].overdue}]
  /\ UNCHANGED <<vars, ws, terms>>

\* The scan goes on with its next order, or is over.
NextOrder(a) ==
  IF scan.todo \subseteq {a} THEN IdleScan
  ELSE [IdleScan EXCEPT !.pc = "loop", !.todo = scan.todo \ {a}, !.late = scan.late \ {a}]

\* What the recovery client answers. Each call resolves the order's venue, credentials and
\* reader anew, and every error, there or at the exchange, makes the venue back off. The
\* calls about an unreadable order fail every time.
CallFails(a) ==
  /\ IF Readable(a) THEN faults < MaxFaults /\ faults' = faults + 1 ELSE faults' = faults
  /\ scan' = IdleScan

\* The order as it stands when the exchange is asked.
spotQueryOrder(a) == [st |-> ex[a].st, n |-> ex[a].n]
QueryOrder(a) == spotQueryOrder(a)

\* How many of its trades are listed, which the order may have got since it was read.
\* Spot lists those it has so far; futures reads the order again, and answers only when
\* the trades add up to it.
Pending == -1
spotQueryTrades(a) == 0..ex[a].n
futuresQueryTrades(a) == {Pending, ex[a].n}

QueryTrades(a) == spotQueryTrades(a) \cup futuresQueryTrades(a)

Visit(label, a, x) == [scan EXCEPT !.pc = label, !.a = a, !.st = x.st, !.n = x.n]
Write(label, m) == [scan EXCEPT !.pc = label, !.m = m, !.t = IF m = 0 THEN 0 ELSE 1]

\* QueryOrder: the order's status decides whether its trades are read, it is closed, or
\* it is left for the next scan.
ScanReadsOrder(a) ==
  /\ scan.pc = "loop"
  /\ a \in scan.todo \ scan.late
  /\ Readable(a)
  /\ LET x == QueryOrder(a) IN
       scan' = IF hasFillDelta(x.st, x.n) THEN Visit("trades", a, x)
               ELSE IF isTerminal(x.st) THEN Visit("close", a, x) ELSE NextOrder(a)
  /\ UNCHANGED <<vars, ws, terms>>

ScanQueryFails(a) ==
  /\ scan.pc \in {"loop", "trades"}
  /\ IF scan.pc = "loop" THEN a \in scan.todo \ scan.late ELSE a = scan.a
  /\ CallFails(a)
  /\ UNCHANGED <<tables, notes, ex, issued, hs, ws, terms>>

\* Slip: the trades listed are taken for complete.
AnyFillDetails(m) == m > 0

\* The trades listed cover the executed quantity the order was read with.
hasCompleteFillDetails(m) == m >= scan.n

\* QueryTrades: complete trades are written.
ScanReadsTrades ==
  /\ scan.pc = "trades"
  /\ \E m \in QueryTrades(scan.a) : hasCompleteFillDetails(m) /\ scan' = Write("write", m)
  /\ UNCHANGED <<vars, ws, terms>>

\* Trades that are not complete leave the order as it is: spot goes on with the next
\* order, futures reports an error.
ScanLacksTrades ==
  /\ scan.pc = "trades"
  /\ \E m \in QueryTrades(scan.a) :
       /\ ~hasCompleteFillDetails(m)
       /\ scan' = IF m = Pending THEN IdleScan ELSE NextOrder(scan.a)
  /\ UNCHANGED <<vars, ws, terms>>

\* writeFillEvents, one trade; an error ends the scan.
ScanWritesFill ==
  /\ scan.pc \in {"write", "force_write"}
  /\ \E o \in SaveOutcomes :
       /\ ChargeSave(o)
       /\ SaveFillEvent(scan.a, scan.t, o)
       /\ scan' = IF o # "ok" THEN IdleScan
                  ELSE IF scan.t < scan.m THEN [scan EXCEPT !.t = @ + 1]
                  ELSE IF scan.pc = "force_write" THEN [scan EXCEPT !.pc = "force_close"]
                  ELSE IF isTerminal(scan.st) THEN [scan EXCEPT !.pc = "close"]
                  ELSE NextOrder(scan.a)
  /\ UNCHANGED <<intents, status, orders, notes, ex, issued, hs, ws, terms>>

\* The terminal event, then the row: its status and quantities, and the terminal
\* recovery status that takes it off the list.
MarkRecoveryResolved(a) ==
  orders' = [orders EXCEPT ![a] = [@ EXCEPT !.st = scan.st, !.n = scan.n, !.rec = scan.st]]

\* Slip: the row is closed first, then the event is written.
ScanClosesRowFirst ==
  /\ scan.pc = "close"
  /\ \E o \in SaveOutcomes :
       /\ ChargeSave(o)
       /\ IF o = "fail" THEN orders' = orders ELSE MarkRecoveryResolved(scan.a)
       /\ terms' = IF o \in {"ok", "lost"} THEN terms \cup {scan.a} ELSE terms
       /\ scan' = IF o = "ok" THEN NextOrder(scan.a) ELSE IdleScan
  /\ UNCHANGED <<intents, status, fills, events, notes, ex, issued, hs, ws>>

ScanCloses ==
  /\ scan.pc = "close"
  /\ \E o \in SaveOutcomes :
       /\ ChargeSave(o)
       /\ SaveTerminalEvent(scan.a, o)
       /\ IF o \in {"ok", "lost"} THEN MarkRecoveryResolved(scan.a) ELSE orders' = orders
       /\ scan' = IF o = "ok" THEN NextOrder(scan.a) ELSE IdleScan
  /\ UNCHANGED <<intents, status, fills, events, notes, ex, issued, hs, ws>>

-----------------------------------------------------------------------------
(* forceClose: an order past its deadline is cancelled at the exchange, read *)
(* a last time, and taken off the list whatever its trades.                  *)

\* The exchange cancels an open order, and refuses to cancel a finished one. The answer
\* to a cancel that took effect may be lost.
Answer(after, err, fault) == [ex |-> after, err |-> err, fault |-> fault]
cancelRemote(a) ==
  LET cancelled == [ex EXCEPT ![a].st = "CANCELED"]
  IN IF ex[a].st \in OpenStatuses THEN {Answer(cancelled, FALSE, 0), Answer(cancelled, TRUE, 1)}
     ELSE {Answer(ex, TRUE, 0)}

\* The request may not get that far. For an unreadable order nothing is cancelled: the
\* simulated canceller confirms all the same, and without credentials there is no call.
CancelOrder(a) == IF Readable(a) THEN cancelRemote(a) \cup {Answer(ex, TRUE, 1)}
                  ELSE {Answer(ex, FALSE, 0), Answer(ex, TRUE, 0)}

\* forceClose goes on whatever the cancel answers.
ForceCancel(a) ==
  /\ scan.pc = "loop"
  /\ a \in scan.todo \cap scan.late
  /\ \E r \in CancelOrder(a) :
       /\ faults + r.fault <= MaxFaults
       /\ faults' = faults + r.fault
       /\ ex' = r.ex
       /\ scan' = [scan EXCEPT !.pc = "force_query", !.a = a, !.err = r.err]
  /\ UNCHANGED <<tables, notes, issued, hs, ws, terms>>

\* Slips: an order that could not be cancelled is closed anyway; a failed cancel is
\* given up on although the order is finished.
ForceQueryTrustsCancel ==
  /\ scan.pc = "force_query"
  /\ Readable(scan.a)
  /\ scan' = Visit("force_trades", scan.a, QueryOrder(scan.a))
  /\ UNCHANGED <<vars, ws, terms>>

ForceQueryGivesUp ==
  /\ scan.pc = "force_query"
  /\ Readable(scan.a)
  /\ scan' = IF scan.err THEN IdleScan ELSE Visit("force_trades", scan.a, QueryOrder(scan.a))
  /\ UNCHANGED <<vars, ws, terms>>

\* The last read. A failed cancel of an order that is still open gives up for now.
ForceQuery ==
  /\ scan.pc = "force_query"
  /\ Readable(scan.a)
  /\ LET x == QueryOrder(scan.a) IN
       scan' = IF scan.err /\ ~isTerminal(x.st) THEN IdleScan ELSE Visit("force_trades", scan.a, x)
  /\ UNCHANGED <<vars, ws, terms>>

ForceQueryFails ==
  /\ scan.pc \in {"force_query", "force_trades"}
  /\ CallFails(scan.a)
  /\ UNCHANGED <<tables, notes, ex, issued, hs, ws, terms>>

\* The trades are written as they are listed, complete or not.
ForceReadsTrades ==
  /\ scan.pc = "force_trades"
  /\ \E m \in QueryTrades(scan.a) :
       scan' = IF m = Pending THEN IdleScan ELSE Write(IF m = 0 THEN "force_close" ELSE "force_write", m)
  /\ UNCHANGED <<vars, ws, terms>>

\* The row keeps its status and quantities; only the recovery status changes.
MarkRecoveryExpired(a) == orders' = [orders EXCEPT ![a].rec = "RECOVERY_EXPIRED"]

ForceCloses ==
  /\ scan.pc = "force_close"
  /\ \E o \in SaveOutcomes :
       /\ ChargeSave(o)
       /\ SaveTerminalEvent(scan.a, o)
       /\ IF o \in {"ok", "lost"} THEN MarkRecoveryExpired(scan.a) ELSE orders' = orders
       /\ scan' = IF o = "ok" THEN NextOrder(scan.a) ELSE IdleScan
  /\ UNCHANGED <<intents, status, fills, events, notes, ex, issued, hs, ws>>

\* recovery_deadline_at (14 days) of a tracked order passes.
DeadlinePasses(a) ==
  /\ Tracked(a)
  /\ ~orders[a].overdue
  /\ orders' = [orders EXCEPT ![a].overdue = TRUE]
  /\ UNCHANGED <<intents, status, fills, events, notes, ex, issued, hs, faults, scan, ws, terms>>

-----------------------------------------------------------------------------
(* UserDataIngestor.Ingest. A message for an order that is not tracked, or   *)
(* that is neither a trade nor terminal, is dropped and is no step.          *)

IngestMessage(a, t) ==
  /\ ws = NoMessage
  /\ Known(a)
  /\ IF t = 0 THEN ex[a].st = "CANCELED" ELSE t <= ex[a].n
  /\ Tracked(a)
  /\ ws' = <<a, t>>
  /\ UNCHANGED <<vars, scan, terms>>

IngestSaves ==
  /\ ws # NoMessage
  /\ \E o \in SaveOutcomes :
       /\ ChargeSave(o)
       /\ IF ws[2] = 0
          THEN SaveTerminalEvent(ws[1], o) /\ UNCHANGED <<events, fills>>
          ELSE SaveFillEvent(ws[1], ws[2], o) /\ terms' = terms
  /\ ws' = NoMessage
  /\ UNCHANGED <<intents, status, orders, notes, ex, issued, hs, scan>>

-----------------------------------------------------------------------------
\* The process dies, with its handlers, its scanner and its ingestor.
ProcessCrash ==
  /\ faults < MaxFaults
  /\ faults' = faults + 1
  /\ (\E h \in Handlers : hs[h] # Idle) \/ scan # IdleScan \/ ws # NoMessage
  /\ hs' = [h \in Handlers |-> Idle]
  /\ scan' = IdleScan
  /\ ws' = NoMessage
  /\ UNCHANGED <<tables, notes, ex, issued, terms>>

RInit == Init /\ scan = IdleScan /\ ws = NoMessage /\ terms = {}

\* The steps of OrderAttempts, which leave the background actors alone.
ServiceNext ==
  /\ \/ \E h \in Handlers, a \in Attempts : BeginPlace(h, a) \/ BeginResolve(h, a)
     \/ \E h \in Handlers : HandlerStep(h) \/ CancelContext(h)
     \/ \E a \in Attempts : ExchangeStep(a)
  /\ UNCHANGED <<scan, ws, terms>>

ScannerNext ==
  \/ ListDueOpenOrders \/ ScanReadsTrades \/ ScanLacksTrades \/ ScanWritesFill \/ ScanCloses
  \/ ForceQuery \/ ForceQueryFails \/ ForceReadsTrades \/ ForceCloses
  \/ \E a \in Attempts : ScanQueryFails(a) \/ ScanReadsOrder(a) \/ ForceCancel(a)

IngestorNext == IngestSaves \/ \E a \in Attempts, t \in 0..Qty : IngestMessage(a, t)

RNext ==
  \/ ServiceNext
  \/ ScannerNext
  \/ IngestorNext
  \/ \E a \in Attempts : DeadlinePasses(a)
  \/ ProcessCrash

RSpec == RInit /\ [][RNext]_rvars

-----------------------------------------------------------------------------
(* Properties. *)

\* The market as the ledger sees it; a request that never arrives was refused.
Market(a) ==
  LET st == ex[a].st IN
    [n |-> ex[a].n,
     st |-> CASE st = "none" -> "none"
              [] st = "inflight" -> "submitted"
              [] st \in {"refused", "lost"} -> "refused"
              [] st \in OpenStatuses -> "open"
              [] OTHER -> "over"]

\* The books of an order: its row, open as long as the scanner lists it.
Books(a) == IF ~HasRow(a) THEN "none" ELSE IF Tracked(a) THEN "open" ELSE "closed"

Ledger == INSTANCE OrderLedger WITH
  recorded <- {a \in Attempts : status[a] # "absent"},
  market <- [a \in Attempts |-> Market(a)],
  books <- [a \in Attempts |-> Books(a)],
  booked <- {k \in Trades : fills[k] > 0 \/ k \in events}

\* Handlers, scanner and ingestor together keep the ledger's promise: every order is
\* recorded before it is sent and sent once, every row, fill and event follows a trade
\* that happened and stays, and recovery lets go of no order that is still live at the
\* exchange, whatever handler, scan or force close wrote last.
ImplementsLedger == Ledger!LSpec

\* An order that the scanner or a handler closed as FILLED has all its fills, across
\* failed saves, crashes and overlapping resolves (incomplete trades keep it open).
ClosedFilledIsComplete ==
  \A a \in Attempts :
    HasRow(a) /\ ~Tracked(a) /\ orders[a].st = "FILLED" /\ orders[a].rec # "RECOVERY_EXPIRED"
      => \A t \in 1..Qty : fills[<<a, t>>] > 0

\* Every order row the scanner closes has its terminal event in the log.
CloseIsAnnounced ==
  \A a \in Attempts : orders[a].rec \in {"FILLED", "CANCELED", "RECOVERY_EXPIRED"} => a \in terms

\* order_fills holds a trade once, however many actors report it.
NoDuplicateFills == \A k \in Trades : fills[k] <= 1

\* A finished order does not stay on the list, if the exchange can be asked about it.
DeadOrderCloses ==
  \A a \in Attempts \ Unreadable :
    Tracked(a) /\ ex[a].st \in {"FILLED", "CANCELED"} ~> ~Tracked(a)

\* In recovery for longer than recovery allows.
Overdue(a) == Tracked(a) /\ orders[a].overdue

\* An order past its deadline is closed, or its deadline has been renewed, if the exchange
\* can be asked about it: forceClose needs its last read.
OverdueCloses == \A a \in Attempts \ Unreadable : Overdue(a) ~> ~Overdue(a)

\* The same of every order, as the design document has it: after 14 days the platform must
\* end the recovery and may not go on querying. The code retries an order it cannot read
\* on every scan.
DeadlineEndsRecovery == \A a \in Attempts : Overdue(a) ~> ~Overdue(a)

\* The design document counts UNKNOWN among the objects of the REST recovery: an accepted
\* order whose attempt is UNKNOWN gets its row, or the attempt gets another status. The
\* scanner lists orders rows, and such an attempt has none.
UnknownIsRecovered ==
  \A a \in Attempts : Known(a) /\ status[a] = "UNKNOWN" ~> HasRow(a) \/ status[a] # "UNKNOWN"

\* The scanner's ticker keeps firing, its goroutine runs, and the exchange does not
\* withhold the trades of an order it answers for.
RFairness ==
  /\ WF_rvars(ScannerNext)
  /\ \A a \in Attempts : SF_rvars(ScanReadsOrder(a))
  /\ SF_rvars(ScanReadsTrades)
  /\ SF_rvars(ForceReadsTrades /\ scan' # IdleScan)
  /\ \A a \in Attempts : SF_rvars(ForceCancel(a))

RFairSpec == RSpec /\ RFairness

\* Handlers run (every call times out) and the exchange decides what it was sent. Nothing
\* in the service calls ResolveOrderAttempt, so no client is assumed to.
ServiceFairness ==
  /\ \A h \in Handlers : WF_rvars(HandlerStep(h) /\ UNCHANGED <<scan, ws, terms>>)
  /\ \A a \in Attempts : WF_rvars(ExchangeDecides(a) /\ UNCHANGED <<scan, ws, terms>>)

ServiceFairSpec == RFairSpec /\ ServiceFairness

=============================================================================
