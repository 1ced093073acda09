---------------------------- MODULE OrderAttempts ----------------------------
(***************************************************************************)
(* The order service: how PlaceOrder and ResolveOrderAttempt move one      *)
(* order attempt between three parties that fail independently: the gRPC   *)
(* handler, the order database and the exchange.                           *)
(*                                                                         *)
(* A handler is one goroutine serving one RPC; every database statement or *)
(* transaction, every exchange call and every reply is a step of its own,  *)
(* so handlers interleave, the process may crash between any two steps,    *)
(* and a request the exchange has not decided yet is "inflight".           *)
(*                                                                         *)
(* An order of Qty unit trades stands for the traded quantity: trade t of  *)
(* attempt a is the pair <<a, t>>.                                         *)
(***************************************************************************)
EXTENDS Naturals, FiniteSets

CONSTANTS
  Handlers,    \* goroutines that serve RPCs
  Attempts,    \* attempt ids (uuid.New), each used by at most one PlaceOrder
  Intents,     \* intent ids, chosen by the client and possibly reused
  IntentOf,    \* the intent an attempt is made for
  Routes,      \* (account, venue, exchange, market, symbol, position side)
  RouteOf,     \* the route an attempt trades on
  Qty,         \* quantity of every order, in unit trades
  MaxFaults,   \* bound on failed calls, cancelled contexts and crashes
  NoAttempt,   \* stands for the attempt of an idle handler
  Unreadable,  \* attempts whose order no reader answers for (see below)
  Hazards      \* what the environment may do, a subset of HazardNames

(* late_landing: the service may ask the exchange about a request that is   *)
(*   still undecided there, and hear that the order does not exist.         *)
(* overlapping_resolve: a client may call ResolveOrderAttempt (by intent    *)
(*   id) while the PlaceOrder of that attempt is still running.             *)
(* error_after_accept: a non-200 reply, or one whose executed quantity does *)
(*   not parse, for an order the exchange accepts.                          *)
(* Unreadable orders are those of a backtest route, whose reader            *)
(*   (simulatedOrderStateReader) answers every call with an error, those    *)
(*   the exchange has purged, and those of a venue whose credentials are    *)
(*   gone for good.                                                         *)
HazardNames == {"late_landing", "overlapping_resolve", "error_after_accept"}

ASSUME ConstantsAssumption ==
  /\ IntentOf \in [Attempts -> Intents]
  /\ RouteOf \in [Attempts -> Routes]
  /\ NoAttempt \notin Attempts
  /\ Unreadable \subseteq Attempts
  /\ Qty \in Nat \ {0}
  /\ MaxFaults \in Nat
  /\ Hazards \subseteq HazardNames

VARIABLES
  intents,    \* order_intents.status
  status,     \* order_attempts.status
  orders,     \* the orders row of an attempt (attempt_id is UNIQUE)
  fills,      \* rows of order_fills for a trade, counted up to 2
  events,     \* trades with a row in order_lifecycle_events
  notes,      \* notifications published, by class
  ex,         \* what the exchange knows of the attempt's client order id
  issued,     \* attempt ids already handed out
  hs,         \* the local state of every handler
  faults      \* faults injected so far

tables == <<intents, status, orders, fills, events>>
vars == <<tables, notes, ex, issued, hs, faults>>

-----------------------------------------------------------------------------
(* Rows and results. *)

AttemptStatuses == {"absent", "PENDING", "FAILED", "ACCEPTED", "UNKNOWN",
                    "RECOVERING", "RECOVERED", "RECOVERY_FAILED", "RISK_REJECTED"}

\* The statuses ResolveOrderAttempt answers from the database.
FinalStatuses == {"FAILED", "ACCEPTED", "RECOVERED", "RISK_REJECTED"}

OrderStatuses == {"NEW", "PARTIALLY_FILLED", "FILLED", "CANCELED"}
OpenStatuses == {"NEW", "PARTIALLY_FILLED"}

RecoveryStatuses == {"", "OPEN", "PARTIALLY_FILLED", "FILL_PENDING",
                     "FILLED", "CANCELED", "RECOVERY_EXPIRED"}

Trades == Attempts \X (1..Qty)

OrderRow == [st : OrderStatuses, n : 0..Qty, rec : RecoveryStatuses, overdue : BOOLEAN]
NoRow == [st |-> "absent", n |-> 0, rec |-> "", overdue |-> FALSE]

ExchangeStates == [st : {"none", "inflight", "refused", "lost"} \cup OrderStatuses, n : 0..Qty]

\* What the executor returns: "failed" has no exchange order id, "pending" is
\* FillPending (the fills are dropped), "order" has the trades 1..m.
Results == [kind : {"none", "failed", "absent", "error", "order", "pending"},
            st : OrderStatuses, n : 0..Qty, m : 0..Qty]
Plain(kind) == [kind |-> kind, st |-> "NEW", n |-> 0, m |-> 0]

\* Where a handler can be: in PlaceOrder, in resolveAttempt, or in its tail.
PlacePCs == {"intent", "create", "contract_intent", "contract_create", "risk",
             "reject", "send", "await", "finalize", "unknown"}
ResolvePCs == {"mark", "query", "settle"}
EmitPCs == {"emit_accepted", "emit_recovered"}

\* A handler's locals: its attempt, whether its copy of the attempt carries an order
\* id, the executor's result, and whether its context is cancelled.
BusyHandler == [pc : PlacePCs \cup ResolvePCs \cup EmitPCs, a : Attempts,
                oid : BOOLEAN, res : Results, dead : BOOLEAN]
Idle == [pc |-> "idle", a |-> NoAttempt, oid |-> FALSE,
         res |-> Plain("none"), dead |-> FALSE]

NoteClasses == {"accepted", "recovered", "failed", "recovery_failed"}

\* The exchange has an order for a's client order id.
Known(a) == ex[a].st \in OrderStatuses

HasRow(a) == orders[a] # NoRow

\* A query for the order of a may be answered.
Readable(a) == a \notin Unreadable

StatusAt(n) == IF n = 0 THEN "NEW" ELSE IF n = Qty THEN "FILLED" ELSE "PARTIALLY_FILLED"

\* Slip: an open order gets its exchange status as its recovery status.
RecoveryStatusRaw(r) == IF r.kind = "pending" THEN "FILL_PENDING" ELSE r.st

recoveryStatusForExecution(r) ==
  CASE r.kind = "pending" -> "FILL_PENDING"
    [] r.kind # "pending" /\ r.st = "PARTIALLY_FILLED" -> "PARTIALLY_FILLED"
    [] r.kind # "pending" /\ r.st = "NEW" -> "OPEN"
    [] OTHER -> ""

\* The row always starts a fresh deadline, whatever it replaces.
buildPersistedExecution(r) ==
  [st |-> r.st, n |-> r.n, rec |-> recoveryStatusForExecution(r), overdue |-> FALSE]

\* COALESCE(NULLIF(recovery_status, ''), ... status ...) of the open-order queries.
effectiveRecovery(row) ==
  CASE row.rec # "" -> row.rec
    [] row.rec = "" /\ row.st = "NEW" -> "OPEN"
    [] row.rec = "" /\ row.st = "PARTIALLY_FILLED" -> "PARTIALLY_FILLED"
    [] OTHER -> ""

Tracked(a) == HasRow(a) /\ effectiveRecovery(orders[a]) \in {"OPEN", "PARTIALLY_FILLED", "FILL_PENDING"}

\* The risk gate's pending-route check: a tracked order row on the same route.
HasPendingRoute(a) == \E b \in Attempts : RouteOf[b] = RouteOf[a] /\ Tracked(b)

-----------------------------------------------------------------------------
(* Calls that can fail. A cancelled context fails every later call of its   *)
(* handler; otherwise a fault makes a call fail without effect ("fail") or  *)
(* take effect with its answer lost ("lost").                               *)

Outcomes(h) == IF hs[h].dead THEN {"fail"}
               ELSE IF faults < MaxFaults THEN {"ok", "fail", "lost"} ELSE {"ok"}

Charge(h, o) == faults' = IF o = "ok" \/ hs[h].dead THEN faults ELSE faults + 1

\* The exchange could not be reached, or its answer could not be read.
CallError(h) == \/ hs[h].dead /\ faults' = faults
                \/ ~hs[h].dead /\ faults < MaxFaults /\ faults' = faults + 1

\* The handler goes on, or returns and is free for another request.
Goto(h, label) ==
  hs' = [hs EXCEPT ![h] = IF label = "idle" THEN Idle ELSE [@ EXCEPT !.pc = label]]

GotoWith(h, label, r) == hs' = [hs EXCEPT ![h] = [@ EXCEPT !.pc = label, !.res = r]]

Start(h, label, a, o) ==
  hs' = [hs EXCEPT ![h] = [pc |-> label, a |-> a, oid |-> o,
                           res |-> Plain("none"), dead |-> FALSE]]

\* A published notification; one that Kafka refuses is only logged.
Notify(h, class) ==
  notes' = IF hs[h].dead THEN notes ELSE notes \cup {<<hs[h].a, class>>}

AddFills(a, m) ==
  [k \in Trades |-> IF k[1] = a /\ k[2] <= m /\ fills[k] < 2 THEN fills[k] + 1 ELSE fills[k]]

\* FinalizeOrderAttempt: one transaction that overwrites the attempt row and,
\* given an order, upserts its row and inserts its fills.
FinalizeAttempt(a, st) ==
  /\ status' = [status EXCEPT ![a] = st]
  /\ UNCHANGED <<intents, orders, fills, events>>

\* Slip: fills for the ordered quantity instead of the executed one.
FinalizeFillsOrdered(a, st, r) ==
  /\ status' = [status EXCEPT ![a] = st]
  /\ orders' = [orders EXCEPT ![a] = buildPersistedExecution(r)]
  /\ fills' = AddFills(a, Qty)
  /\ UNCHANGED <<intents, events>>

FinalizeWithOrder(a, st, r) ==
  /\ status' = [status EXCEPT ![a] = st]
  /\ orders' = [orders EXCEPT ![a] = buildPersistedExecution(r)]
  /\ fills' = AddFills(a, r.m)
  /\ UNCHANGED <<intents, events>>

\* Without an order id in its copy the handler inserts under a fresh one, and
\* UNIQUE(attempt_id) aborts the transaction if the attempt has a row.
UniqueAborts(h) == ~hs[h].oid /\ HasRow(hs[h].a)

-----------------------------------------------------------------------------
(* PlaceOrder. Requests that fail validation before anything is written     *)
(* leave no trace and are not steps.                                        *)

\* PlaceOrder arrives: a fresh attempt id, and either a valid order contract or
\* one whose violation is recorded (recordOrderContractFailure).
BeginPlace(h, a) ==
  /\ hs[h].pc = "idle"
  /\ a \notin issued
  /\ issued' = issued \cup {a}
  /\ \E label \in {"intent", "contract_intent"} : Start(h, label, a, FALSE)
  /\ UNCHANGED <<tables, notes, ex, faults>>

UpsertOrderIntent(h) ==
  /\ hs[h].pc \in {"intent", "contract_intent"}
  /\ \E o \in Outcomes(h) :
       /\ Charge(h, o)
       /\ intents' = IF o = "fail" THEN intents
                     ELSE [intents EXCEPT ![IntentOf[hs[h].a]] =
                             IF hs[h].pc = "intent" THEN "REQUESTED" ELSE "REJECTED"]
       /\ Goto(h, IF o # "ok" THEN "idle"
                  ELSE IF hs[h].pc = "intent" THEN "create" ELSE "contract_create")
  /\ UNCHANGED <<status, orders, fills, events, notes, ex, issued>>

\* Slip: an attempt that could not be stored is executed all the same.
CreateBestEffort(h) ==
  /\ hs[h].pc \in {"create", "contract_create"}
  /\ \E o \in Outcomes(h) :
       /\ Charge(h, o)
       /\ status' = IF o = "fail" THEN status
                    ELSE [status EXCEPT ![hs[h].a] = IF hs[h].pc = "create" THEN "PENDING" ELSE "FAILED"]
       /\ Goto(h, IF hs[h].pc = "create" THEN "risk" ELSE "idle")
  /\ UNCHANGED <<intents, orders, fills, events, notes, ex, issued>>

CreateOrderAttempt(h) ==
  /\ hs[h].pc \in {"create", "contract_create"}
  /\ \E o \in Outcomes(h) :
       /\ Charge(h, o)
       /\ status' = IF o = "fail" THEN status
                    ELSE [status EXCEPT ![hs[h].a] = IF hs[h].pc = "create" THEN "PENDING" ELSE "FAILED"]
       /\ IF o = "ok" /\ hs[h].pc = "contract_create" THEN Notify(h, "failed") ELSE notes' = notes
       /\ Goto(h, IF o = "ok" /\ hs[h].pc = "create" THEN "risk" ELSE "idle")
  /\ UNCHANGED <<intents, orders, fills, events, ex, issued>>

\* reviewRisk: a pending route, a failed check or an error of the review rejects;
\* the checks on balances and symbol rules may go either way.
ReviewRisk(h) ==
  /\ hs[h].pc = "risk"
  /\ \/ ~HasPendingRoute(hs[h].a) /\ ~hs[h].dead /\ Goto(h, "send")
     \/ Goto(h, "reject")
  /\ UNCHANGED <<tables, notes, ex, issued, faults>>

\* FinalizeRiskRejectedAttempt: intent and attempt in one transaction.
FinalizeRiskRejectedAttempt(h) ==
  /\ hs[h].pc = "reject"
  /\ \E o \in Outcomes(h) :
       /\ Charge(h, o)
       /\ intents' = IF o = "fail" THEN intents ELSE [intents EXCEPT ![IntentOf[hs[h].a]] = "REJECTED"]
       /\ status' = IF o = "fail" THEN status ELSE [status EXCEPT ![hs[h].a] = "RISK_REJECTED"]
       /\ IF o = "ok" THEN Notify(h, "failed") ELSE notes' = notes
  /\ Goto(h, "idle")
  /\ UNCHANGED <<orders, fills, events, ex, issued>>

\* Execute: the signed request leaves for the exchange.
SendOrder(h) ==
  /\ hs[h].pc = "send"
  /\ ~hs[h].dead
  /\ ex' = [ex EXCEPT ![hs[h].a] = [st |-> "inflight", n |-> 0]]
  /\ Goto(h, "await")
  /\ UNCHANGED <<tables, notes, issued, faults>>

\* Execute stops before the request: no executor or no credential for the route,
\* or an order the contract check of the executor refuses, is a FAILED result; a
\* cancelled context is an error.
ExecuteLocally(h) ==
  /\ hs[h].pc = "send"
  /\ IF hs[h].dead THEN Goto(h, "unknown") ELSE GotoWith(h, "finalize", Plain("failed"))
  /\ UNCHANGED <<tables, notes, ex, issued, faults>>

\* The reply shows the order as it was when the exchange wrote the reply, and the
\* trades as they are when the executor reads them.
ReplyOrder(h) ==
  /\ hs[h].pc = "await"
  /\ ~hs[h].dead
  /\ Known(hs[h].a)
  /\ \E n \in 0..ex[hs[h].a].n :
       \E st \in {StatusAt(n)} \cup (IF n = ex[hs[h].a].n THEN {ex[hs[h].a].st} ELSE {}) :
         \/ \E m \in n..ex[hs[h].a].n :
              /\ n = 0 => m = 0
              /\ GotoWith(h, "finalize", [kind |-> "order", st |-> st, n |-> n, m |-> m])
         \/ /\ n > 0
            /\ GotoWith(h, "finalize", [kind |-> "pending", st |-> st, n |-> n, m |-> 0])
  /\ UNCHANGED <<tables, notes, ex, issued, faults>>

\* A reply without an order: a refusal, or (error_after_accept) an error reply for
\* a request the exchange accepts all the same.
ReplyFailure(h) ==
  /\ hs[h].pc = "await"
  /\ ~hs[h].dead
  /\ \/ ex[hs[h].a].st = "refused"
     \/ "error_after_accept" \in Hazards /\ (Known(hs[h].a) \/ ex[hs[h].a].st = "inflight")
  /\ GotoWith(h, "finalize", Plain("failed"))
  /\ UNCHANGED <<tables, notes, ex, issued, faults>>

\* Slip: no reply is taken for a refusal.
ReplyLostIsFailure(h) ==
  /\ hs[h].pc = "await"
  /\ CallError(h) \/ (ex[hs[h].a].st = "lost" /\ faults' = faults)
  /\ GotoWith(h, "finalize", Plain("failed"))
  /\ UNCHANGED <<tables, notes, ex, issued>>

\* No reply: a transport error, a body that does not parse, or a cancelled context.
ReplyLost(h) ==
  /\ hs[h].pc = "await"
  /\ CallError(h) \/ (ex[hs[h].a].st = "lost" /\ faults' = faults)
  /\ Goto(h, "unknown")
  /\ UNCHANGED <<tables, notes, ex, issued>>

\* Slip: an uncertain request is sent again.
RecordUnknownResends(h) ==
  /\ hs[h].pc = "unknown"
  /\ Goto(h, "send")
  /\ UNCHANGED <<tables, notes, ex, issued, faults>>

\* The attempt is recorded as UNKNOWN; a failure to do so is only logged.
RecordUnknown(h) ==
  /\ hs[h].pc = "unknown"
  /\ \E o \in Outcomes(h) :
       /\ Charge(h, o)
       /\ IF o = "fail" THEN UNCHANGED tables ELSE FinalizeAttempt(hs[h].a, "UNKNOWN")
  /\ Goto(h, "mark")
  /\ UNCHANGED <<notes, ex, issued>>

\* The executor's FAILED result is stored; an error leaves the attempt as it was.
FinalizeFailed(h) ==
  /\ hs[h].pc = "finalize"
  /\ hs[h].res.kind = "failed"
  /\ \E o \in Outcomes(h) :
       /\ Charge(h, o)
       /\ IF o = "fail" THEN UNCHANGED tables ELSE FinalizeAttempt(hs[h].a, "FAILED")
       /\ IF o = "ok" THEN Notify(h, "failed") ELSE notes' = notes
  /\ Goto(h, "idle")
  /\ UNCHANGED <<ex, issued>>

\* Slips: missing fills are no reason to recover; a failed store is announced.
FinalizePendingAsAccepted(h) ==
  /\ hs[h].pc = "finalize"
  /\ hs[h].res.kind \in {"order", "pending"}
  /\ ~UniqueAborts(h)
  /\ FinalizeWithOrder(hs[h].a, "ACCEPTED", hs[h].res)
  /\ Goto(h, "emit_accepted")
  /\ UNCHANGED <<notes, ex, issued, faults>>

FinalizeUnchecked(h) ==
  /\ hs[h].pc = "finalize"
  /\ hs[h].res.kind \in {"order", "pending"}
  /\ \E o \in Outcomes(h) :
       /\ Charge(h, o)
       /\ IF o = "fail" \/ UniqueAborts(h) THEN UNCHANGED tables
          ELSE FinalizeWithOrder(hs[h].a, IF hs[h].res.kind = "pending" THEN "RECOVERING" ELSE "ACCEPTED", hs[h].res)
  /\ Goto(h, "emit_accepted")
  /\ UNCHANGED <<notes, ex, issued>>

\* The exchange's order is stored with its fills. If that fails the handler forgets
\* the order ids and recovers the attempt from the exchange.
FinalizeExecution(h) ==
  /\ hs[h].pc = "finalize"
  /\ hs[h].res.kind \in {"order", "pending"}
  /\ \/ /\ UniqueAborts(h)
        /\ Goto(h, "unknown")
        /\ UNCHANGED <<tables, faults>>
     \/ /\ ~UniqueAborts(h)
        /\ \E o \in Outcomes(h) :
             /\ Charge(h, o)
             /\ IF o = "fail" THEN UNCHANGED tables
                ELSE FinalizeWithOrder(hs[h].a, IF hs[h].res.kind = "pending" THEN "RECOVERING" ELSE "ACCEPTED", hs[h].res)
             /\ Goto(h, IF o = "ok" THEN "emit_accepted" ELSE "unknown")
  /\ UNCHANGED <<notes, ex, issued>>

\* emitLifecycleEvents then publishOrderNotification: an event that cannot be saved
\* is logged and skipped. The class of the notification is the attempt's status.
EmitLifecycleEvents(h) ==
  /\ hs[h].pc \in {"emit_accepted", "emit_recovered"}
  /\ \E skipped \in SUBSET (1..hs[h].res.m) :
       /\ CASE hs[h].dead -> skipped = 1..hs[h].res.m /\ faults' = faults
            [] ~hs[h].dead /\ skipped = {} -> faults' = faults
            [] OTHER -> faults < MaxFaults /\ faults' = faults + 1
       /\ events' = events \cup {<<hs[h].a, t>> : t \in (1..hs[h].res.m) \ skipped}
  /\ IF hs[h].res.kind = "pending" THEN notes' = notes
     ELSE Notify(h, IF hs[h].pc = "emit_recovered" THEN "recovered" ELSE "accepted")
  /\ Goto(h, "idle")
  /\ UNCHANGED <<intents, status, orders, fills, ex, issued>>

-----------------------------------------------------------------------------
(* ResolveOrderAttempt, and the tail of a PlaceOrder that lost track.       *)

\* PlaceOrder of attempt a is still running.
Placing(a) == \E h \in Handlers : hs[h].a = a /\ hs[h].pc \in PlacePCs

\* ResolveOrderAttempt: the row is read, with the order id of its orders row; the
\* final statuses are answered from the database and are not steps.
BeginResolve(h, a) ==
  /\ hs[h].pc = "idle"
  /\ status[a] \notin FinalStatuses \cup {"absent"}
  /\ "overlapping_resolve" \in Hazards \/ ~Placing(a)
  /\ Start(h, "mark", a, HasRow(a))
  /\ UNCHANGED <<tables, notes, ex, issued, faults>>

\* The attempt is marked RECOVERING; a failure to do so is only logged.
MarkRecovering(h) ==
  /\ hs[h].pc = "mark"
  /\ \E o \in Outcomes(h) :
       /\ Charge(h, o)
       /\ IF o = "fail" THEN UNCHANGED tables ELSE FinalizeAttempt(hs[h].a, "RECOVERING")
  /\ Goto(h, "query")
  /\ UNCHANGED <<notes, ex, issued>>

\* Resolve found the order; its trades may be missing, late or inconsistent.
ResolveFound(h) ==
  /\ hs[h].pc = "query"
  /\ ~hs[h].dead
  /\ Readable(hs[h].a)
  /\ Known(hs[h].a)
  /\ LET x == ex[hs[h].a] IN
       \/ GotoWith(h, "settle", [kind |-> "order", st |-> x.st, n |-> x.n, m |-> x.n])
       \/ GotoWith(h, "settle", [kind |-> "pending", st |-> x.st, n |-> x.n, m |-> 0])
  /\ UNCHANGED <<tables, notes, ex, issued, faults>>

\* The exchange answers that it has no such order (code -2013).
ResolveAbsent(h) ==
  /\ hs[h].pc = "query"
  /\ ~hs[h].dead
  /\ Readable(hs[h].a)
  /\ ~Known(hs[h].a)
  /\ "late_landing" \in Hazards \/ ex[hs[h].a].st # "inflight"
  /\ GotoWith(h, "settle", Plain("absent"))
  /\ UNCHANGED <<tables, notes, ex, issued, faults>>

\* The query failed: no reader or credential for the route, HTTP or transport error.
ResolveError(h) ==
  /\ hs[h].pc = "query"
  /\ CallError(h) \/ (~Readable(hs[h].a) /\ faults' = faults)
  /\ GotoWith(h, "settle", Plain("error"))
  /\ UNCHANGED <<tables, notes, ex, issued>>

\* Confirmed absent: FAILED, and the user is told once that is stored.
SettleAbsent(h) ==
  /\ hs[h].pc = "settle"
  /\ hs[h].res.kind = "absent"
  /\ \E o \in Outcomes(h) :
       /\ Charge(h, o)
       /\ IF o = "fail" THEN UNCHANGED tables ELSE FinalizeAttempt(hs[h].a, "FAILED")
       /\ IF o = "ok" THEN Notify(h, "failed") ELSE notes' = notes
  /\ Goto(h, "idle")
  /\ UNCHANGED <<ex, issued>>

\* The query failed: RECOVERY_FAILED, announced even when it could not be stored.
SettleError(h) ==
  /\ hs[h].pc = "settle"
  /\ hs[h].res.kind = "error"
  /\ \E o \in Outcomes(h) :
       /\ Charge(h, o)
       /\ IF o = "fail" THEN UNCHANGED tables ELSE FinalizeAttempt(hs[h].a, "RECOVERY_FAILED")
  /\ Notify(h, "recovery_failed")
  /\ Goto(h, "idle")
  /\ UNCHANGED <<ex, issued>>

\* Found: the order and its fills are stored, under the order id of the copy. If
\* that fails the client is told so and the database keeps what it had.
SettleFound(h) ==
  /\ hs[h].pc = "settle"
  /\ hs[h].res.kind \in {"order", "pending"}
  /\ \/ /\ UniqueAborts(h)
        /\ Goto(h, "idle")
        /\ UNCHANGED <<tables, faults>>
     \/ /\ ~UniqueAborts(h)
        /\ \E o \in Outcomes(h) :
             /\ Charge(h, o)
             /\ IF o = "fail" THEN UNCHANGED tables
                ELSE FinalizeWithOrder(hs[h].a, IF hs[h].res.kind = "pending" THEN "RECOVERING" ELSE "RECOVERED", hs[h].res)
             /\ Goto(h, IF o = "ok" THEN "emit_recovered" ELSE "idle")
  /\ UNCHANGED <<notes, ex, issued>>

-----------------------------------------------------------------------------
(* The exchange, the clients and the process. *)

\* The exchange decides a request, or the network never delivers it.
ExchangeDecides(a) ==
  /\ ex[a].st = "inflight"
  /\ \E st \in {"NEW", "refused", "lost"} : ex' = [ex EXCEPT ![a].st = st]
  /\ UNCHANGED <<tables, notes, issued, hs, faults>>

\* One unit trades.
ExchangeTrades(a) ==
  /\ ex[a].st \in OpenStatuses
  /\ ex[a].n < Qty
  /\ ex' = [ex EXCEPT ![a] = [st |-> StatusAt(ex[a].n + 1), n |-> ex[a].n + 1]]
  /\ UNCHANGED <<tables, notes, issued, hs, faults>>

\* The remainder is cancelled or expires.
ExchangeCancels(a) ==
  /\ ex[a].st \in OpenStatuses
  /\ ex' = [ex EXCEPT ![a].st = "CANCELED"]
  /\ UNCHANGED <<tables, notes, issued, hs, faults>>

\* The client gives up on a call, or its deadline passes.
CancelContext(h) ==
  /\ hs[h].pc # "idle"
  /\ ~hs[h].dead
  /\ faults < MaxFaults
  /\ faults' = faults + 1
  /\ hs' = [hs EXCEPT ![h].dead = TRUE]
  /\ UNCHANGED <<tables, notes, ex, issued>>

\* The process dies; every handler is gone, the database and the exchange stay.
Crash ==
  /\ faults < MaxFaults
  /\ faults' = faults + 1
  /\ \E h \in Handlers : hs[h].pc # "idle"
  /\ hs' = [h \in Handlers |-> Idle]
  /\ UNCHANGED <<tables, notes, ex, issued>>

-----------------------------------------------------------------------------
Init ==
  /\ intents = [i \in Intents |-> "absent"]
  /\ status = [a \in Attempts |-> "absent"]
  /\ orders = [a \in Attempts |-> NoRow]
  /\ fills = [k \in Trades |-> 0]
  /\ events = {}
  /\ notes = {}
  /\ ex = [a \in Attempts |-> [st |-> "none", n |-> 0]]
  /\ issued = {}
  /\ hs = [h \in Handlers |-> Idle]
  /\ faults = 0

\* The steps a handler takes once it serves a request.
HandlerStep(h) ==
  \/ UpsertOrderIntent(h) \/ CreateOrderAttempt(h)
  \/ ReviewRisk(h) \/ FinalizeRiskRejectedAttempt(h)
  \/ SendOrder(h) \/ ExecuteLocally(h)
  \/ ReplyOrder(h) \/ ReplyFailure(h) \/ ReplyLost(h)
  \/ RecordUnknown(h) \/ FinalizeFailed(h) \/ FinalizeExecution(h)
  \/ MarkRecovering(h) \/ ResolveFound(h) \/ ResolveAbsent(h) \/ ResolveError(h)
  \/ SettleAbsent(h) \/ SettleError(h) \/ SettleFound(h)
  \/ EmitLifecycleEvents(h)

ExchangeStep(a) == ExchangeDecides(a) \/ ExchangeTrades(a) \/ ExchangeCancels(a)

Next ==
  \/ \E h \in Handlers, a \in Attempts : BeginPlace(h, a) \/ BeginResolve(h, a)
  \/ \E h \in Handlers : HandlerStep(h) \/ CancelContext(h)
  \/ \E a \in Attempts : ExchangeStep(a)
  \/ Crash

Spec == Init /\ [][Next]_vars

-----------------------------------------------------------------------------
(* Properties. *)

\* Every variable keeps its type.
TypeOK ==
  /\ intents \in [Intents -> {"absent", "REQUESTED", "REJECTED"}]
  /\ status \in [Attempts -> AttemptStatuses]
  /\ orders \in [Attempts -> OrderRow \cup {NoRow}]
  /\ fills \in [Trades -> 0..2]
  /\ events \subseteq Trades
  /\ notes \subseteq Attempts \X NoteClasses
  /\ ex \in [Attempts -> ExchangeStates]
  /\ issued \subseteq Attempts
  /\ hs \in [Handlers -> BusyHandler \cup {Idle}]
  /\ faults \in 0..MaxFaults

\* The exchange never hears of an attempt that the database does not know, whatever
\* fails and whoever resolves what (PlaceOrder persists before Execute).
WriteAhead == \A a \in Attempts : ex[a].st # "none" => status[a] # "absent"

\* The ledger is never ahead of the exchange: an orders row belongs to an order the
\* exchange has, and rows, fills and events only count trades that happened there,
\* although every handler writes from a result it read some steps ago.
LedgerBacked ==
  /\ \A a \in Attempts : HasRow(a) => Known(a) /\ orders[a].n <= ex[a].n
  /\ \A k \in Trades : fills[k] > 0 \/ k \in events => k[2] <= ex[k[1]].n

\* A settled attempt is complete: ACCEPTED and RECOVERED attempts have their orders
\* row and a fill for every unit the row counts; concurrent resolves included.
SettledIsComplete ==
  \A a \in Attempts : status[a] \in {"ACCEPTED", "RECOVERED"} =>
    /\ HasRow(a)
    /\ \A t \in 1..orders[a].n : fills[<<a, t>>] > 0

\* The user is told of an accepted or recovered order only once its row is stored.
NoticeAfterCommit ==
  \A a \in Attempts : <<a, "accepted">> \in notes \/ <<a, "recovered">> \in notes => HasRow(a)

\* A risk-rejected attempt was not and will not be sent, and neither was the only
\* attempt of a rejected intent (the gate stands before Execute).
RejectedNeverSent ==
  \A a \in Attempts :
    (\/ status[a] = "RISK_REJECTED"
     \/ intents[IntentOf[a]] = "REJECTED" /\ \A b \in Attempts : IntentOf[b] = IntentOf[a] => b = a)
    => /\ ex[a].st = "none"
       /\ \A h \in Handlers : hs[h].a = a => hs[h].pc \notin {"send", "await"}

\* When the environment is kind (no hazard), an attempt stored or announced as failed
\* has no order at the exchange, now or later: no live order is written off.
FailedNeverLive ==
  \A a \in Attempts :
    status[a] \in {"FAILED", "RISK_REJECTED"} \/ <<a, "failed">> \in notes =>
      ex[a].st \in {"none", "refused", "lost"}

\* A client order id is submitted at most once, across retries, crashes and resolves.
NeverResent ==
  [][\A a \in Attempts : ex'[a].st = "inflight" => ex[a].st \in {"none", "inflight"}]_vars

=============================================================================
