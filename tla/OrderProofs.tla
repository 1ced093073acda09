----------------------------- MODULE OrderProofs -----------------------------
(***************************************************************************)
(* Proofs about the order system, for any number of handlers, attempts,    *)
(* intents and routes, any order quantity, any bound on faults and any set *)
(* of hazards. First the service alone (OrderAttempts), in three layers,   *)
(* each inductive given the ones before it:                                *)
(*                                                                         *)
(*   TypeOK      every variable keeps its type;                            *)
(*   ControlInv  who may still send an attempt, and what is stored by then;*)
(*   LedgerInv   every order, fill, event and notice has its origin in     *)
(*               something the exchange showed and a transaction stored.   *)
(*                                                                         *)
(* Then with the scanner and the ingestor (OrderRecovery), which together  *)
(* keep the promise of OrderLedger. The layers come back, all but          *)
(* SettledIsComplete, which the scanner does not keep (it closes an order  *)
(* cancelled after a partial fill without its trades), and above them      *)
(*                                                                         *)
(*   RTypeOK     scanner, message and event log keep their types;          *)
(*   ScanInv     what the scanner has read, and what it has written so far,*)
(*               is still true of the order when it acts on it;            *)
(*   MessageInv  the message being ingested is about trades that happened. *)
(*                                                                         *)
(* FailInv is the layer that needs a world without hazards: an attempt the *)
(* books call FAILED was written off before anything could be sent for it. *)
(***************************************************************************)
EXTENDS OrderRecovery, TLAPS

PCs == PlacePCs \cup ResolvePCs \cup EmitPCs

\* A handler that serves a request has an attempt and a well-formed local state.
LEMMA BusyType ==
  ASSUME TypeOK, NEW h \in Handlers, hs[h].pc # "idle"
  PROVE  /\ hs[h] \in BusyHandler
         /\ hs[h].a \in Attempts
         /\ hs[h].res \in Results
         /\ hs[h].dead \in BOOLEAN
         /\ hs[h].oid \in BOOLEAN
         /\ hs[h].pc \in PCs
  BY DEF TypeOK, BusyHandler, Idle, PCs

\* A result that carries no order is well-formed.
LEMMA PlainType ==
  ASSUME NEW kind \in {"none", "failed", "absent", "error"}
  PROVE  Plain(kind) \in Results
  BY ConstantsAssumption DEF Plain, Results, OrderStatuses

\* Each way a handler moves on keeps the handlers well-formed.
LEMMA GotoType ==
  ASSUME TypeOK, NEW h \in Handlers, hs[h].pc # "idle",
         NEW label \in PCs \cup {"idle"}, Goto(h, label)
  PROVE  hs' \in [Handlers -> BusyHandler \cup {Idle}]
  <1>1. hs[h] \in BusyHandler BY BusyType
  <1>2. (IF label = "idle" THEN Idle ELSE [hs[h] EXCEPT !.pc = label]) \in BusyHandler \cup {Idle}
    BY <1>1 DEF BusyHandler, PCs
  <1> QED BY <1>2 DEF Goto, TypeOK

\* The same, when the handler also keeps the answer of the exchange.
LEMMA GotoWithType ==
  ASSUME TypeOK, NEW h \in Handlers, hs[h].pc # "idle",
         NEW label \in PCs, NEW r \in Results, GotoWith(h, label, r)
  PROVE  hs' \in [Handlers -> BusyHandler \cup {Idle}]
  <1>1. hs[h] \in BusyHandler BY BusyType
  <1>2. [hs[h] EXCEPT !.pc = label, !.res = r] \in BusyHandler
    BY <1>1 DEF BusyHandler, PCs
  <1> QED BY <1>2 DEF GotoWith, TypeOK

\* The same, when the handler takes up a request.
LEMMA StartType ==
  ASSUME TypeOK, NEW h \in Handlers, NEW label \in PCs, NEW a \in Attempts,
         NEW o \in BOOLEAN, Start(h, label, a, o)
  PROVE  hs' \in [Handlers -> BusyHandler \cup {Idle}]
  <1>1. Plain("none") \in Results BY PlainType
  <1>2. [pc |-> label, a |-> a, oid |-> o, res |-> Plain("none"), dead |-> FALSE] \in BusyHandler
    BY <1>1 DEF BusyHandler, PCs
  <1> QED BY <1>2 DEF Start, TypeOK

\* Only a handler that serves a request takes steps.
LEMMA StepIsBusy ==
  ASSUME TypeOK, NEW h \in Handlers, HandlerStep(h)
  PROVE  hs[h].pc # "idle" /\ hs[h].a \in Attempts
<1>1. CASE UpsertOrderIntent(h) \/ CreateOrderAttempt(h) \/ ReviewRisk(h) \/ FinalizeRiskRejectedAttempt(h)
  BY <1>1, BusyType DEF UpsertOrderIntent, CreateOrderAttempt, ReviewRisk, FinalizeRiskRejectedAttempt
<1>2. CASE SendOrder(h) \/ ExecuteLocally(h) \/ ReplyOrder(h) \/ ReplyFailure(h) \/ ReplyLost(h)
  BY <1>2, BusyType DEF SendOrder, ExecuteLocally, ReplyOrder, ReplyFailure, ReplyLost
<1>3. CASE RecordUnknown(h) \/ FinalizeFailed(h) \/ FinalizeExecution(h) \/ MarkRecovering(h)
  BY <1>3, BusyType DEF RecordUnknown, FinalizeFailed, FinalizeExecution, MarkRecovering
<1>4. CASE ResolveFound(h) \/ ResolveAbsent(h) \/ ResolveError(h)
  BY <1>4, BusyType DEF ResolveFound, ResolveAbsent, ResolveError
<1>5. CASE SettleAbsent(h) \/ SettleError(h) \/ SettleFound(h) \/ EmitLifecycleEvents(h)
  BY <1>5, BusyType DEF SettleAbsent, SettleError, SettleFound, EmitLifecycleEvents
<1> QED BY <1>1, <1>2, <1>3, <1>4, <1>5 DEF HandlerStep

\* Faults stay within their bound.
LEMMA ChargeType ==
  ASSUME TypeOK, NEW h \in Handlers, NEW o \in Outcomes(h), Charge(h, o)
  PROVE  faults' \in 0..MaxFaults
  BY ConstantsAssumption DEF TypeOK, Outcomes, Charge

\* A notice names an attempt and a class.
LEMMA NotifyType ==
  ASSUME TypeOK, NEW h \in Handlers, hs[h].pc # "idle",
         NEW class \in NoteClasses, Notify(h, class)
  PROVE  notes' \subseteq Attempts \X NoteClasses
  BY BusyType DEF TypeOK, Notify

\* The tables stay well-formed under both forms of FinalizeOrderAttempt.
TablesOK ==
  /\ intents \in [Intents -> {"absent", "REQUESTED", "REJECTED"}]
  /\ status \in [Attempts -> AttemptStatuses]
  /\ orders \in [Attempts -> OrderRow \cup {NoRow}]
  /\ fills \in [Trades -> 0..2]
  /\ events \subseteq Trades

\* FinalizeOrderAttempt without an order touches the attempt row only.
LEMMA FinalizeAttemptType ==
  ASSUME TypeOK, NEW a \in Attempts, NEW st \in AttemptStatuses, FinalizeAttempt(a, st)
  PROVE  TablesOK'
  BY DEF TypeOK, TablesOK, FinalizeAttempt

\* FinalizeOrderAttempt with an order: its row and fills are well-formed.
LEMMA FinalizeWithOrderType ==
  ASSUME TypeOK, NEW a \in Attempts, NEW st \in AttemptStatuses, NEW r \in Results,
         FinalizeWithOrder(a, st, r)
  PROVE  TablesOK'
  <1>1. buildPersistedExecution(r) \in OrderRow
    BY DEF buildPersistedExecution, recoveryStatusForExecution, OrderRow, Results, RecoveryStatuses
  <1>2. AddFills(a, r.m) \in [Trades -> 0..2]
    BY DEF TypeOK, AddFills
  <1> QED BY <1>1, <1>2 DEF TypeOK, TablesOK, FinalizeWithOrder

\* A handler that waits for the exchange reads results that are well-formed.
LEMMA OrderResultType ==
  ASSUME NEW st \in OrderStatuses, NEW n \in 0..Qty, NEW m \in 0..Qty,
         NEW kind \in {"order", "pending"}
  PROVE  [kind |-> kind, st |-> st, n |-> n, m |-> m] \in Results
  BY DEF Results

\* The status of an order that has traded n units is one of the four statuses.
LEMMA StatusAtType ==
  ASSUME NEW n \in 0..Qty
  PROVE  StatusAt(n) \in OrderStatuses
  BY DEF StatusAt, OrderStatuses

\* A failed exchange call is charged within the bound on faults.
LEMMA CallErrorType ==
  ASSUME TypeOK, NEW h \in Handlers, CallError(h)
  PROVE  faults' \in 0..MaxFaults
  BY ConstantsAssumption DEF TypeOK, CallError

\* A reply carries an order the exchange has, and no more trades than happened there.
LEMMA ReplyResult ==
  ASSUME TypeOK, NEW h \in Handlers, ReplyOrder(h)
  PROVE  \E r \in Results : /\ GotoWith(h, "finalize", r)
                            /\ r.kind \in {"order", "pending"}
                            /\ r.n <= ex[hs[h].a].n
                            /\ r.m <= ex[hs[h].a].n
                            /\ r.kind = "order" => r.n <= r.m
                            /\ \/ r.st \in OpenStatuses
                               \/ r.st = "FILLED" /\ r.n = Qty
                               \/ r.st = ex[hs[h].a].st /\ r.n = ex[hs[h].a].n
  <1>1. ex[hs[h].a].n \in 0..Qty /\ ex[hs[h].a].st \in OrderStatuses /\ Qty \in Nat
    BY BusyType, ConstantsAssumption DEF ReplyOrder, TypeOK, ExchangeStates, Known
  <1>2. PICK n \in 0..ex[hs[h].a].n :
          \E st \in {StatusAt(n)} \cup (IF n = ex[hs[h].a].n THEN {ex[hs[h].a].st} ELSE {}) :
            \/ \E m \in n..ex[hs[h].a].n :
                 /\ n = 0 => m = 0
                 /\ GotoWith(h, "finalize", [kind |-> "order", st |-> st, n |-> n, m |-> m])
            \/ /\ n > 0
               /\ GotoWith(h, "finalize", [kind |-> "pending", st |-> st, n |-> n, m |-> 0])
    BY DEF ReplyOrder
  <1>3. n \in 0..Qty BY <1>1
  <1>4. StatusAt(n) \in OrderStatuses BY <1>3, StatusAtType
  <1>5. PICK st \in OrderStatuses, m \in 0..ex[hs[h].a].n, kind \in {"order", "pending"} :
          /\ GotoWith(h, "finalize", [kind |-> kind, st |-> st, n |-> n, m |-> m])
          /\ kind = "order" => n <= m
          /\ st = StatusAt(n) \/ (st = ex[hs[h].a].st /\ n = ex[hs[h].a].n)
    <2>1. PICK st \in {StatusAt(n)} \cup (IF n = ex[hs[h].a].n THEN {ex[hs[h].a].st} ELSE {}) :
            \/ \E m \in n..ex[hs[h].a].n :
                 GotoWith(h, "finalize", [kind |-> "order", st |-> st, n |-> n, m |-> m])
            \/ GotoWith(h, "finalize", [kind |-> "pending", st |-> st, n |-> n, m |-> 0])
      BY <1>2
    <2>2. /\ st \in OrderStatuses
          /\ st = StatusAt(n) \/ (st = ex[hs[h].a].st /\ n = ex[hs[h].a].n)
      BY <1>1, <1>4
    <2>3. CASE \E m \in n..ex[hs[h].a].n :
                 GotoWith(h, "finalize", [kind |-> "order", st |-> st, n |-> n, m |-> m])
      BY <1>1, <2>2, <2>3
    <2>4. CASE GotoWith(h, "finalize", [kind |-> "pending", st |-> st, n |-> n, m |-> 0])
      <3>1. 0 \in 0..ex[hs[h].a].n BY <1>1
      <3> QED BY <2>2, <2>4, <3>1
    <2> QED BY <2>1, <2>3, <2>4
  <1>6. m \in 0..Qty BY <1>1
  <1>7. [kind |-> kind, st |-> st, n |-> n, m |-> m] \in Results
    BY <1>3, <1>6, OrderResultType
  <1>8. StatusAt(n) \in OpenStatuses \/ (StatusAt(n) = "FILLED" /\ n = Qty)
    BY DEF StatusAt, OpenStatuses
  <1> QED BY <1>1, <1>5, <1>7, <1>8

\* Every step keeps the types: one case per action.
LEMMA TypeStep == TypeOK /\ [Next]_vars => TypeOK'
<1> SUFFICES ASSUME TypeOK, [Next]_vars PROVE TypeOK'
  OBVIOUS
<1> USE DEF tables
<1>1. ASSUME NEW h \in Handlers, NEW a \in Attempts, BeginPlace(h, a) PROVE TypeOK'
  <2>1. hs' \in [Handlers -> BusyHandler \cup {Idle}]
    BY <1>1, StartType DEF BeginPlace, PCs, PlacePCs
  <2> QED BY <1>1, <2>1 DEF TypeOK, BeginPlace
<1>2. ASSUME NEW h \in Handlers, NEW a \in Attempts, BeginResolve(h, a) PROVE TypeOK'
  <2>1. hs' \in [Handlers -> BusyHandler \cup {Idle}]
    BY <1>2, StartType DEF BeginResolve, PCs, ResolvePCs, HasRow
  <2> QED BY <1>2, <2>1 DEF TypeOK, BeginResolve
<1>3. ASSUME NEW h \in Handlers, UpsertOrderIntent(h) PROVE TypeOK'
  <2>1. PICK o \in Outcomes(h) :
          /\ Charge(h, o)
          /\ intents' = IF o = "fail" THEN intents
                        ELSE [intents EXCEPT ![IntentOf[hs[h].a]] =
                                IF hs[h].pc = "intent" THEN "REQUESTED" ELSE "REJECTED"]
          /\ Goto(h, IF o # "ok" THEN "idle"
                     ELSE IF hs[h].pc = "intent" THEN "create" ELSE "contract_create")
    BY <1>3 DEF UpsertOrderIntent
  <2>2. hs' \in [Handlers -> BusyHandler \cup {Idle}]
    BY <1>3, <2>1, GotoType DEF UpsertOrderIntent, PCs, PlacePCs
  <2>3. faults' \in 0..MaxFaults BY <2>1, ChargeType
  <2>4. intents' \in [Intents -> {"absent", "REQUESTED", "REJECTED"}]
    BY <1>3, <2>1, BusyType, ConstantsAssumption DEF TypeOK, UpsertOrderIntent
  <2> QED BY <1>3, <2>2, <2>3, <2>4 DEF TypeOK, UpsertOrderIntent
<1>4. ASSUME NEW h \in Handlers, CreateOrderAttempt(h) PROVE TypeOK'
  <2>1. PICK o \in Outcomes(h) :
          /\ Charge(h, o)
          /\ status' = IF o = "fail" THEN status
                       ELSE [status EXCEPT ![hs[h].a] = IF hs[h].pc = "create" THEN "PENDING" ELSE "FAILED"]
          /\ IF o = "ok" /\ hs[h].pc = "contract_create" THEN Notify(h, "failed") ELSE notes' = notes
          /\ Goto(h, IF o = "ok" /\ hs[h].pc = "create" THEN "risk" ELSE "idle")
    BY <1>4 DEF CreateOrderAttempt
  <2>2. hs' \in [Handlers -> BusyHandler \cup {Idle}]
    BY <1>4, <2>1, GotoType DEF CreateOrderAttempt, PCs, PlacePCs
  <2>3. faults' \in 0..MaxFaults BY <2>1, ChargeType
  <2>4. notes' \subseteq Attempts \X NoteClasses
    <3>1. hs[h].pc # "idle" /\ "failed" \in NoteClasses
      BY <1>4 DEF CreateOrderAttempt, NoteClasses
    <3> QED BY <2>1, <3>1, NotifyType DEF TypeOK
  <2>5. status' \in [Attempts -> AttemptStatuses]
    BY <2>1 DEF TypeOK, AttemptStatuses
  <2> QED BY <1>4, <2>2, <2>3, <2>4, <2>5 DEF TypeOK, CreateOrderAttempt
<1>5. ASSUME NEW h \in Handlers, ReviewRisk(h) PROVE TypeOK'
  <2>1. hs' \in [Handlers -> BusyHandler \cup {Idle}]
    BY <1>5, GotoType DEF ReviewRisk, PCs, PlacePCs
  <2> QED BY <1>5, <2>1 DEF TypeOK, ReviewRisk
<1>6. ASSUME NEW h \in Handlers, FinalizeRiskRejectedAttempt(h) PROVE TypeOK'
  <2>1. PICK o \in Outcomes(h) :
          /\ Charge(h, o)
          /\ intents' = IF o = "fail" THEN intents ELSE [intents EXCEPT ![IntentOf[hs[h].a]] = "REJECTED"]
          /\ status' = IF o = "fail" THEN status ELSE [status EXCEPT ![hs[h].a] = "RISK_REJECTED"]
          /\ IF o = "ok" THEN Notify(h, "failed") ELSE notes' = notes
    BY <1>6 DEF FinalizeRiskRejectedAttempt
  <2>2. hs' \in [Handlers -> BusyHandler \cup {Idle}]
    BY <1>6, GotoType DEF FinalizeRiskRejectedAttempt, PCs
  <2>3. faults' \in 0..MaxFaults BY <2>1, ChargeType
  <2>4. notes' \subseteq Attempts \X NoteClasses
    <3>1. hs[h].pc # "idle" /\ "failed" \in NoteClasses
      BY <1>6 DEF FinalizeRiskRejectedAttempt, NoteClasses
    <3> QED BY <2>1, <3>1, NotifyType DEF TypeOK
  <2>5. status' \in [Attempts -> AttemptStatuses]
    BY <2>1 DEF TypeOK, AttemptStatuses
  <2>6. intents' \in [Intents -> {"absent", "REQUESTED", "REJECTED"}]
    BY <2>1 DEF TypeOK
  <2> QED BY <1>6, <2>2, <2>3, <2>4, <2>5, <2>6 DEF TypeOK, FinalizeRiskRejectedAttempt
<1>7. ASSUME NEW h \in Handlers, SendOrder(h) PROVE TypeOK'
  <2>1. hs' \in [Handlers -> BusyHandler \cup {Idle}]
    BY <1>7, GotoType DEF SendOrder, PCs, PlacePCs
  <2>2. ex' \in [Attempts -> ExchangeStates]
    <3>1. [st |-> "inflight", n |-> 0] \in ExchangeStates
      BY ConstantsAssumption DEF ExchangeStates
    <3> QED BY <1>7, <3>1 DEF SendOrder, TypeOK
  <2> QED BY <1>7, <2>1, <2>2 DEF TypeOK, SendOrder
<1>8. ASSUME NEW h \in Handlers, ExecuteLocally(h) PROVE TypeOK'
  <2>1. hs' \in [Handlers -> BusyHandler \cup {Idle}]
    BY <1>8, GotoType, GotoWithType, PlainType DEF ExecuteLocally, PCs, PlacePCs
  <2> QED BY <1>8, <2>1 DEF TypeOK, ExecuteLocally
<1>9. ASSUME NEW h \in Handlers, ReplyOrder(h) PROVE TypeOK'
  <2>1. PICK r \in Results : GotoWith(h, "finalize", r)
    BY <1>9, ReplyResult
  <2>2. hs' \in [Handlers -> BusyHandler \cup {Idle}]
    BY <1>9, <2>1, GotoWithType DEF ReplyOrder, PCs, PlacePCs
  <2> QED BY <1>9, <2>2 DEF TypeOK, ReplyOrder
<1>10. ASSUME NEW h \in Handlers, ReplyFailure(h) PROVE TypeOK'
  <2>1. hs' \in [Handlers -> BusyHandler \cup {Idle}]
    BY <1>10, GotoWithType, PlainType DEF ReplyFailure, PCs, PlacePCs
  <2> QED BY <1>10, <2>1 DEF TypeOK, ReplyFailure
<1>11. ASSUME NEW h \in Handlers, ReplyLost(h) PROVE TypeOK'
  <2>1. hs' \in [Handlers -> BusyHandler \cup {Idle}]
    BY <1>11, GotoType DEF ReplyLost, PCs, PlacePCs
  <2>2. faults' \in 0..MaxFaults
    BY <1>11, CallErrorType DEF ReplyLost, TypeOK
  <2> QED BY <1>11, <2>1, <2>2 DEF TypeOK, ReplyLost
<1>12. ASSUME NEW h \in Handlers, RecordUnknown(h) PROVE TypeOK'
  <2>1. hs' \in [Handlers -> BusyHandler \cup {Idle}]
    BY <1>12, GotoType DEF RecordUnknown, PCs, ResolvePCs
  <2>2. faults' \in 0..MaxFaults
    BY <1>12, ChargeType DEF RecordUnknown
  <2>3. TablesOK'
    <3>1. hs[h].a \in Attempts /\ "UNKNOWN" \in AttemptStatuses
      BY <1>12, BusyType DEF RecordUnknown, AttemptStatuses
    <3> QED BY <1>12, <3>1, FinalizeAttemptType DEF RecordUnknown, TypeOK, TablesOK
  <2> QED BY <1>12, <2>1, <2>2, <2>3 DEF TypeOK, RecordUnknown, TablesOK
<1>13. ASSUME NEW h \in Handlers, FinalizeFailed(h) PROVE TypeOK'
  <2>1. hs' \in [Handlers -> BusyHandler \cup {Idle}]
    BY <1>13, GotoType DEF FinalizeFailed, PCs, PlacePCs
  <2>2. faults' \in 0..MaxFaults
    BY <1>13, ChargeType DEF FinalizeFailed
  <2>3. TablesOK'
    <3>1. hs[h].a \in Attempts /\ "FAILED" \in AttemptStatuses
      BY <1>13, BusyType DEF FinalizeFailed, AttemptStatuses
    <3> QED BY <1>13, <3>1, FinalizeAttemptType DEF FinalizeFailed, TypeOK, TablesOK
  <2>4. notes' \subseteq Attempts \X NoteClasses
    <3>1. hs[h].pc # "idle" /\ "failed" \in NoteClasses
      BY <1>13 DEF FinalizeFailed, NoteClasses
    <3> QED BY <1>13, <3>1, NotifyType DEF FinalizeFailed, TypeOK
  <2> QED BY <1>13, <2>1, <2>2, <2>3, <2>4 DEF TypeOK, FinalizeFailed, TablesOK
<1>14. ASSUME NEW h \in Handlers, FinalizeExecution(h) PROVE TypeOK'
  <2>1. hs' \in [Handlers -> BusyHandler \cup {Idle}]
    BY <1>14, GotoType DEF FinalizeExecution, PCs, PlacePCs, EmitPCs
  <2>2. faults' \in 0..MaxFaults
    BY <1>14, ChargeType DEF FinalizeExecution, TypeOK
  <2>3. TablesOK'
    <3>1. hs[h].a \in Attempts /\ hs[h].res \in Results
      BY <1>14, BusyType DEF FinalizeExecution
    <3>2. \A st \in AttemptStatuses : FinalizeWithOrder(hs[h].a, st, hs[h].res) => TablesOK'
      BY <3>1, FinalizeWithOrderType
    <3>3. {"RECOVERING", "ACCEPTED"} \subseteq AttemptStatuses BY DEF AttemptStatuses
    <3> QED BY <1>14, <3>2, <3>3 DEF FinalizeExecution, TypeOK, TablesOK
  <2> QED BY <1>14, <2>1, <2>2, <2>3 DEF TypeOK, FinalizeExecution, TablesOK
<1>15. ASSUME NEW h \in Handlers, EmitLifecycleEvents(h) PROVE TypeOK'
  <2>1. hs' \in [Handlers -> BusyHandler \cup {Idle}]
    BY <1>15, GotoType DEF EmitLifecycleEvents, PCs
  <2>2. hs[h].pc # "idle" /\ hs[h].a \in Attempts /\ hs[h].res.m \in 0..Qty
    BY <1>15, BusyType DEF EmitLifecycleEvents, Results
  <2>3. PICK skipped \in SUBSET (1..hs[h].res.m) :
          /\ CASE hs[h].dead -> skipped = 1..hs[h].res.m /\ faults' = faults
               [] ~hs[h].dead /\ skipped = {} -> faults' = faults
               [] OTHER -> faults < MaxFaults /\ faults' = faults + 1
          /\ events' = events \cup {<<hs[h].a, t>> : t \in (1..hs[h].res.m) \ skipped}
    BY <1>15 DEF EmitLifecycleEvents
  <2>4. faults' \in 0..MaxFaults
    BY <2>3, ConstantsAssumption DEF TypeOK
  <2>5. events' \subseteq Trades
    BY <2>2, <2>3, ConstantsAssumption DEF TypeOK, Trades
  <2>6. notes' \subseteq Attempts \X NoteClasses
    <3>1. "accepted" \in NoteClasses /\ "recovered" \in NoteClasses BY DEF NoteClasses
    <3> QED BY <1>15, <2>2, <3>1, NotifyType DEF EmitLifecycleEvents, TypeOK
  <2> QED BY <1>15, <2>1, <2>4, <2>5, <2>6 DEF TypeOK, EmitLifecycleEvents
<1>16. ASSUME NEW h \in Handlers, MarkRecovering(h) PROVE TypeOK'
  <2>1. hs' \in [Handlers -> BusyHandler \cup {Idle}]
    BY <1>16, GotoType DEF MarkRecovering, PCs, ResolvePCs
  <2>2. faults' \in 0..MaxFaults
    BY <1>16, ChargeType DEF MarkRecovering
  <2>3. TablesOK'
    <3>1. hs[h].a \in Attempts /\ "RECOVERING" \in AttemptStatuses
      BY <1>16, BusyType DEF MarkRecovering, AttemptStatuses
    <3> QED BY <1>16, <3>1, FinalizeAttemptType DEF MarkRecovering, TypeOK, TablesOK
  <2> QED BY <1>16, <2>1, <2>2, <2>3 DEF TypeOK, MarkRecovering, TablesOK
<1>17. ASSUME NEW h \in Handlers, ResolveFound(h) PROVE TypeOK'
  <2>1. hs[h].a \in Attempts /\ hs[h].pc # "idle"
    BY <1>17, BusyType DEF ResolveFound
  <2>2. ex[hs[h].a].n \in 0..Qty /\ ex[hs[h].a].st \in OrderStatuses /\ 0 \in 0..Qty
    BY <1>17, <2>1, ConstantsAssumption DEF ResolveFound, TypeOK, ExchangeStates, Known
  <2>3. hs' \in [Handlers -> BusyHandler \cup {Idle}]
    BY <1>17, <2>1, <2>2, GotoWithType, OrderResultType DEF ResolveFound, PCs, ResolvePCs
  <2> QED BY <1>17, <2>3 DEF TypeOK, ResolveFound
<1>18. ASSUME NEW h \in Handlers, ResolveAbsent(h) PROVE TypeOK'
  <2>1. hs' \in [Handlers -> BusyHandler \cup {Idle}]
    BY <1>18, GotoWithType, PlainType DEF ResolveAbsent, PCs, ResolvePCs
  <2> QED BY <1>18, <2>1 DEF TypeOK, ResolveAbsent
<1>19. ASSUME NEW h \in Handlers, ResolveError(h) PROVE TypeOK'
  <2>1. hs' \in [Handlers -> BusyHandler \cup {Idle}]
    BY <1>19, GotoWithType, PlainType DEF ResolveError, PCs, ResolvePCs
  <2>2. faults' \in 0..MaxFaults
    BY <1>19, CallErrorType DEF ResolveError, TypeOK
  <2> QED BY <1>19, <2>1, <2>2 DEF TypeOK, ResolveError
<1>20. ASSUME NEW h \in Handlers, SettleAbsent(h) PROVE TypeOK'
  <2>1. hs' \in [Handlers -> BusyHandler \cup {Idle}]
    BY <1>20, GotoType DEF SettleAbsent, PCs, PlacePCs
  <2>2. faults' \in 0..MaxFaults
    BY <1>20, ChargeType DEF SettleAbsent
  <2>3. TablesOK'
    <3>1. hs[h].a \in Attempts /\ "FAILED" \in AttemptStatuses
      BY <1>20, BusyType DEF SettleAbsent, AttemptStatuses
    <3> QED BY <1>20, <3>1, FinalizeAttemptType DEF SettleAbsent, TypeOK, TablesOK
  <2>4. notes' \subseteq Attempts \X NoteClasses
    <3>1. hs[h].pc # "idle" /\ "failed" \in NoteClasses
      BY <1>20 DEF SettleAbsent, NoteClasses
    <3> QED BY <1>20, <3>1, NotifyType DEF SettleAbsent, TypeOK
  <2> QED BY <1>20, <2>1, <2>2, <2>3, <2>4 DEF TypeOK, SettleAbsent, TablesOK
<1>21. ASSUME NEW h \in Handlers, SettleError(h) PROVE TypeOK'
  <2>1. hs' \in [Handlers -> BusyHandler \cup {Idle}]
    BY <1>21, GotoType DEF SettleError, PCs, PlacePCs
  <2>2. faults' \in 0..MaxFaults
    BY <1>21, ChargeType DEF SettleError
  <2>3. TablesOK'
    <3>1. hs[h].a \in Attempts /\ "RECOVERY_FAILED" \in AttemptStatuses
      BY <1>21, BusyType DEF SettleError, AttemptStatuses
    <3> QED BY <1>21, <3>1, FinalizeAttemptType DEF SettleError, TypeOK, TablesOK
  <2>4. notes' \subseteq Attempts \X NoteClasses
    <3>1. hs[h].pc # "idle" /\ "recovery_failed" \in NoteClasses
      BY <1>21 DEF SettleError, NoteClasses
    <3> QED BY <1>21, <3>1, NotifyType DEF SettleError, TypeOK
  <2> QED BY <1>21, <2>1, <2>2, <2>3, <2>4 DEF TypeOK, SettleError, TablesOK
<1>22. ASSUME NEW h \in Handlers, SettleFound(h) PROVE TypeOK'
  <2>1. hs' \in [Handlers -> BusyHandler \cup {Idle}]
    BY <1>22, GotoType DEF SettleFound, PCs, PlacePCs, EmitPCs
  <2>2. faults' \in 0..MaxFaults
    BY <1>22, ChargeType DEF SettleFound, TypeOK
  <2>3. TablesOK'
    <3>1. hs[h].a \in Attempts /\ hs[h].res \in Results
      BY <1>22, BusyType DEF SettleFound
    <3>2. \A st \in AttemptStatuses : FinalizeWithOrder(hs[h].a, st, hs[h].res) => TablesOK'
      BY <3>1, FinalizeWithOrderType
    <3>3. {"RECOVERING", "RECOVERED"} \subseteq AttemptStatuses BY DEF AttemptStatuses
    <3> QED BY <1>22, <3>2, <3>3 DEF SettleFound, TypeOK, TablesOK
  <2> QED BY <1>22, <2>1, <2>2, <2>3 DEF TypeOK, SettleFound, TablesOK
<1>23. ASSUME NEW a \in Attempts, ExchangeStep(a) PROVE TypeOK'
  <2>1. ex' \in [Attempts -> ExchangeStates]
    <3>1. CASE ExchangeDecides(a)
      BY <3>1 DEF ExchangeDecides, TypeOK, ExchangeStates, OrderStatuses
    <3>2. CASE ExchangeTrades(a)
      <4>1. ex[a].n + 1 \in 0..Qty
        BY <3>2, ConstantsAssumption DEF ExchangeTrades, TypeOK, ExchangeStates
      <4>2. StatusAt(ex[a].n + 1) \in OrderStatuses BY <4>1, StatusAtType
      <4> QED BY <3>2, <4>1, <4>2 DEF ExchangeTrades, TypeOK, ExchangeStates
    <3>3. CASE ExchangeCancels(a)
      BY <3>3 DEF ExchangeCancels, TypeOK, ExchangeStates, OrderStatuses
    <3> QED BY <1>23, <3>1, <3>2, <3>3 DEF ExchangeStep
  <2> QED BY <1>23, <2>1 DEF TypeOK, ExchangeStep, ExchangeDecides, ExchangeTrades, ExchangeCancels
<1>24. ASSUME NEW h \in Handlers, CancelContext(h) PROVE TypeOK'
  <2>1. [hs[h] EXCEPT !.dead = TRUE] \in BusyHandler
    BY <1>24, BusyType DEF CancelContext, BusyHandler
  <2> QED BY <1>24, <2>1, ConstantsAssumption DEF TypeOK, CancelContext
<1>25. CASE Crash
  BY <1>25, ConstantsAssumption DEF TypeOK, Crash
<1>26. CASE UNCHANGED vars
  BY <1>26 DEF TypeOK, vars
<1> QED
  BY <1>1, <1>2, <1>3, <1>4, <1>5, <1>6, <1>7, <1>8, <1>9, <1>10, <1>11, <1>12, <1>13,
     <1>14, <1>15, <1>16, <1>17, <1>18, <1>19, <1>20, <1>21, <1>22, <1>23, <1>24, <1>25, <1>26
  DEF Next, HandlerStep

\* The empty database and the idle service are well-formed.
LEMMA TypeInit == Init => TypeOK
  BY ConstantsAssumption, PlainType DEF Init, TypeOK, AttemptStatuses, ExchangeStates, Idle, Trades

\* The tables, the exchange and the handlers of the order service keep their types,
\* and the faults their bound.
THEOREM TypeCorrect == Spec => []TypeOK
<1>1. Init => TypeOK BY TypeInit
<1>2. TypeOK /\ [Next]_vars => TypeOK' BY TypeStep
<1> QED BY <1>1, <1>2, PTL DEF Spec

-----------------------------------------------------------------------------
(* The inductive invariant, in two layers. ControlInv says who may still send *)
(* which attempt; LedgerInv says where every number in the ledger came from.  *)

\* Where PlaceOrder is before its request leaves.
BeforeSend == {"intent", "create", "contract_intent", "contract_create", "risk", "reject", "send"}

\* Work, rows and orders exist only for attempt ids that were handed out.
OnlyIssued ==
  /\ \A h \in Handlers : hs[h].pc # "idle" => hs[h].a \in issued
  /\ \A a \in Attempts : status[a] # "absent" \/ ex[a].st # "none" => a \in issued

\* Before the request leaves, the exchange has not heard of the attempt, and one
\* handler at most is about to send it.
NotYetSent == \A h \in Handlers : hs[h].pc \in BeforeSend => ex[hs[h].a].st = "none"
SoleSender ==
  \A g, h \in Handlers :
    hs[g].pc \in BeforeSend /\ hs[h].pc \in BeforeSend /\ hs[g].a = hs[h].a => g = h

\* From the risk review on, the attempt has its row.
StoredFirst == \A h \in Handlers : hs[h].pc \in {"risk", "reject", "send"} => status[hs[h].a] # "absent"

\* Who waits for an answer has sent; what the exchange does not hold has no trades.
AwaitSent == \A h \in Handlers : hs[h].pc = "await" => ex[hs[h].a].st # "none"
NoOrderNoTrades == \A a \in Attempts : ~Known(a) => ex[a].n = 0

\* An order is FILLED when, and only when, all of it has traded.
FilledIsWhole == \A a \in Attempts : ex[a].st = "FILLED" <=> ex[a].n = Qty

\* A rejected attempt, or the only attempt of a rejected intent, is out of reach of
\* the handlers that could send it.
Sole(a) == \A b \in Attempts : IntentOf[b] = IntentOf[a] => b = a
RejectedStops ==
  \A a \in Attempts : status[a] = "RISK_REJECTED" =>
    ex[a].st = "none" /\ \A h \in Handlers : hs[h].a = a => hs[h].pc \notin BeforeSend
RejectedIntentStops ==
  \A a \in Attempts : intents[IntentOf[a]] = "REJECTED" /\ Sole(a) =>
    ex[a].st = "none" /\ \A h \in Handlers : hs[h].a = a => hs[h].pc \notin {"create", "risk", "send"}

ControlInv ==
  /\ OnlyIssued /\ NotYetSent /\ SoleSender /\ StoredFirst /\ WriteAhead
  /\ AwaitSent /\ NoOrderNoTrades /\ FilledIsWhole /\ RejectedStops /\ RejectedIntentStops

\* What a handler holds of an order is no more than the exchange shows by now, a
\* result with fills has them all, and one that says the order is over is the last word.
Backed(a, r) ==
  /\ Known(a)
  /\ r.n <= ex[a].n
  /\ r.m <= ex[a].n
  /\ r.kind = "order" => r.n <= r.m
  /\ r.st \notin OpenStatuses => ex[a].st = r.st /\ ex[a].n = r.n
ResultBacked ==
  \A h \in Handlers : hs[h].res.kind \in {"order", "pending"} => Backed(hs[h].a, hs[h].res)

\* Events and the notice follow the commit, and a handler that emits has a result.
EmitAfterCommit == \A h \in Handlers : hs[h].pc \in EmitPCs => HasRow(hs[h].a)
EmitHasResult == \A h \in Handlers : hs[h].pc \in EmitPCs => hs[h].res.kind \in {"order", "pending"}

LedgerInv ==
  /\ ResultBacked /\ EmitAfterCommit /\ EmitHasResult
  /\ LedgerBacked /\ NoticeAfterCommit

\* What a move of a handler leaves alone.
Moves(h, label) ==
  /\ \A g \in Handlers : g # h => hs'[g] = hs[g]
  /\ hs'[h].pc = label
  /\ IF label = "idle" THEN hs'[h] = Idle ELSE hs'[h].a = hs[h].a

\* Goto moves one handler and keeps its result.
LEMMA GotoMoves ==
  ASSUME TypeOK, NEW h \in Handlers, hs[h].pc # "idle",
         NEW label \in PCs \cup {"idle"}, Goto(h, label)
  PROVE  Moves(h, label) /\ (label # "idle" => hs'[h].res = hs[h].res)
  <1>1. hs[h] \in BusyHandler BY BusyType
  <1>2. label # "idle" =>
          LET x == [hs[h] EXCEPT !.pc = label] IN x.pc = label /\ x.a = hs[h].a /\ x.res = hs[h].res
    BY <1>1 DEF BusyHandler
  <1> QED BY <1>2 DEF Goto, Moves, TypeOK, Idle

\* GotoWith moves one handler and replaces its result.
LEMMA GotoWithMoves ==
  ASSUME TypeOK, NEW h \in Handlers, hs[h].pc # "idle",
         NEW label \in PCs, NEW r \in Results, GotoWith(h, label, r)
  PROVE  Moves(h, label) /\ hs'[h].res = r
  <1>1. hs[h] \in BusyHandler BY BusyType
  <1>2. LET x == [hs[h] EXCEPT !.pc = label, !.res = r] IN x.pc = label /\ x.a = hs[h].a /\ x.res = r
    BY <1>1 DEF BusyHandler
  <1>3. label # "idle" BY DEF PCs, PlacePCs, ResolvePCs, EmitPCs
  <1> QED BY <1>2, <1>3 DEF GotoWith, Moves, TypeOK

\* The status of attempt a stays, or becomes one that neither rejects nor erases it.
StatusMoves(a) ==
  \/ status' = status
  \/ \E st \in AttemptStatuses \ {"absent", "RISK_REJECTED"} : status' = [status EXCEPT ![a] = st]

\* Once the request has left, whatever a handler does keeps ControlInv.
LEMMA ControlCalm ==
  ASSUME TypeOK, ControlInv, NEW h \in Handlers, hs[h].pc # "idle",
         NEW label, label \notin BeforeSend \cup {"await"}, Moves(h, label),
         StatusMoves(hs[h].a), UNCHANGED <<intents, ex, issued>>
  PROVE  ControlInv'
  <1> USE DEF ControlInv
  <1>1. hs[h].a \in Attempts BY BusyType
  <1>2. \A a \in Attempts : /\ status[a] # "absent" => status'[a] # "absent"
                            /\ status'[a] = "RISK_REJECTED" => status[a] = "RISK_REJECTED"
                            /\ status'[a] # "absent" => status[a] # "absent" \/ a = hs[h].a
    BY <1>1 DEF StatusMoves, TypeOK
  <1>3. \A g \in Handlers : hs'[g].pc \in BeforeSend \cup {"await"} => g # h /\ hs'[g] = hs[g]
    BY DEF Moves
  <1>4. OnlyIssued'
    BY <1>1, <1>2 DEF OnlyIssued, Moves
  <1>5. NotYetSent' /\ SoleSender' /\ AwaitSent'
    BY <1>3 DEF NotYetSent, SoleSender, AwaitSent
  <1>6. StoredFirst'
    <2> SUFFICES ASSUME NEW g \in Handlers, hs'[g].pc \in {"risk", "reject", "send"}
                 PROVE  status'[hs'[g].a] # "absent"
      BY DEF StoredFirst
    <2>1. hs'[g] = hs[g] BY <1>3 DEF BeforeSend
    <2>2. hs[g].a \in Attempts BY <2>1, BusyType
    <2> QED BY <1>2, <2>1, <2>2 DEF StoredFirst
  <1>7. WriteAhead' BY <1>2 DEF WriteAhead
  <1>8. NoOrderNoTrades' /\ FilledIsWhole' BY DEF NoOrderNoTrades, FilledIsWhole, Known
  <1>9. RejectedStops'
    BY <1>2, <1>3 DEF RejectedStops
  <1>10. RejectedIntentStops'
    <2>1. {"create", "risk", "send"} \subseteq BeforeSend BY DEF BeforeSend
    <2> QED BY <1>3, <2>1 DEF RejectedIntentStops, Sole
  <1> QED BY <1>4, <1>5, <1>6, <1>7, <1>8, <1>9, <1>10

\* Start gives one handler a fresh local state.
LEMMA StartMoves ==
  ASSUME TypeOK, NEW h \in Handlers, NEW label \in PCs, NEW a \in Attempts,
         NEW o \in BOOLEAN, Start(h, label, a, o)
  PROVE  /\ \A g \in Handlers : g # h => hs'[g] = hs[g]
         /\ hs'[h].pc = label
         /\ hs'[h].a = a
         /\ hs'[h].res.kind = "none"
  BY DEF Start, TypeOK, Plain

\* A new request: PlaceOrder has a fresh attempt id, ResolveOrderAttempt a stored one.
LEMMA ControlBegin ==
  ASSUME TypeOK, ControlInv, NEW h \in Handlers, NEW a \in Attempts,
         BeginPlace(h, a) \/ BeginResolve(h, a)
  PROVE  ControlInv'
<1> USE DEF ControlInv, tables
<1>1. CASE BeginPlace(h, a)
  <2>1. PICK label \in {"intent", "contract_intent"} : Start(h, label, a, FALSE)
    BY <1>1 DEF BeginPlace
  <2>2. /\ \A g \in Handlers : g # h => hs'[g] = hs[g]
        /\ hs'[h].pc = label
        /\ hs'[h].a = a
    BY <2>1, StartMoves DEF PCs, PlacePCs
  <2>3. /\ hs[h].pc = "idle"
        /\ a \notin issued
        /\ issued' = issued \cup {a}
        /\ UNCHANGED <<intents, status, ex>>
    BY <1>1 DEF BeginPlace
  <2>4. /\ status[a] = "absent"
        /\ ex[a].st = "none"
        /\ \A g \in Handlers : hs[g].pc # "idle" => hs[g].a # a
    BY <2>3 DEF OnlyIssued
  <2>5. \A g \in Handlers : hs[g].pc \in BeforeSend => hs[g].pc # "idle" BY DEF BeforeSend
  <2>6. OnlyIssued' BY <2>2, <2>3 DEF OnlyIssued
  <2>7. NotYetSent' BY <2>2, <2>3, <2>4 DEF NotYetSent
  <2>8. SoleSender' BY <2>2, <2>4, <2>5 DEF SoleSender
  <2>9. StoredFirst' BY <2>2, <2>3 DEF StoredFirst
  <2>10. WriteAhead' /\ NoOrderNoTrades' /\ FilledIsWhole'
    BY <2>3 DEF WriteAhead, NoOrderNoTrades, FilledIsWhole, Known
  <2>11. AwaitSent' BY <2>2, <2>3 DEF AwaitSent
  <2>12. RejectedStops' BY <2>2, <2>3, <2>4 DEF RejectedStops
  <2>13. RejectedIntentStops' BY <2>2, <2>3, <2>4 DEF RejectedIntentStops, Sole
  <2> QED BY <2>6, <2>7, <2>8, <2>9, <2>10, <2>11, <2>12, <2>13
<1>2. CASE BeginResolve(h, a)
  <2>1. /\ \A g \in Handlers : g # h => hs'[g] = hs[g]
        /\ hs'[h].pc = "mark"
        /\ hs'[h].a = a
    BY <1>2, StartMoves DEF BeginResolve, PCs, ResolvePCs, HasRow
  <2>2. status[a] # "absent" /\ UNCHANGED <<intents, status, ex, issued>>
    BY <1>2 DEF BeginResolve
  <2>3. OnlyIssued' BY <2>1, <2>2 DEF OnlyIssued
  <2>4. NotYetSent' /\ SoleSender' /\ AwaitSent' /\ StoredFirst'
    BY <2>1, <2>2 DEF NotYetSent, SoleSender, AwaitSent, StoredFirst, BeforeSend
  <2>5. WriteAhead' /\ NoOrderNoTrades' /\ FilledIsWhole'
    BY <2>2 DEF WriteAhead, NoOrderNoTrades, FilledIsWhole, Known
  <2>6. RejectedStops' BY <2>1, <2>2 DEF RejectedStops, BeforeSend
  <2>7. RejectedIntentStops' BY <2>1, <2>2 DEF RejectedIntentStops, Sole
  <2> QED BY <2>3, <2>4, <2>5, <2>6, <2>7
<1> QED BY <1>1, <1>2

\* The steps of PlaceOrder before Execute: the handler that takes them is the only one
\* that could send the attempt, and the exchange has not heard of it.
LEMMA ControlPlace ==
  ASSUME TypeOK, ControlInv, NEW h \in Handlers,
         \/ UpsertOrderIntent(h) \/ CreateOrderAttempt(h) \/ ReviewRisk(h)
         \/ FinalizeRiskRejectedAttempt(h)
  PROVE  ControlInv'
<1> USE DEF ControlInv, tables
<1> DEFINE a == hs[h].a
<1>1. /\ hs[h].pc \in BeforeSend
      /\ hs[h].pc # "idle"
      /\ a \in Attempts
      /\ a \in issued
      /\ UNCHANGED <<ex, issued>>
  <2>1. hs[h].pc \in BeforeSend /\ hs[h].pc # "idle"
    BY DEF UpsertOrderIntent, CreateOrderAttempt, ReviewRisk, FinalizeRiskRejectedAttempt, BeforeSend
  <2>2. UNCHANGED <<ex, issued>>
    BY DEF UpsertOrderIntent, CreateOrderAttempt, ReviewRisk, FinalizeRiskRejectedAttempt
  <2> QED BY <2>1, <2>2, BusyType DEF OnlyIssued
<1>2. ex[a].st = "none" /\ \A g \in Handlers : g # h /\ hs[g].a = a => hs[g].pc \notin BeforeSend
  BY <1>1 DEF NotYetSent, SoleSender
\* Where it goes, and what that asks of the rows.
<1>3. PICK label \in {"create", "contract_create", "risk", "send", "reject", "idle"} :
        /\ Moves(h, label)
        /\ label = "create" => hs[h].pc = "intent" /\ intents' = [intents EXCEPT ![IntentOf[a]] = "REQUESTED"]
        /\ label = "risk" => hs[h].pc = "create" /\ status' = [status EXCEPT ![a] = "PENDING"]
        /\ label \in {"send", "reject"} => hs[h].pc = "risk"
  <2>1. {"create", "contract_create", "risk", "send", "reject"} \subseteq PCs
    BY DEF PCs, PlacePCs
  <2>2. CASE UpsertOrderIntent(h)
    BY <1>1, <2>1, <2>2, GotoMoves DEF UpsertOrderIntent
  <2>3. CASE CreateOrderAttempt(h)
    BY <1>1, <2>1, <2>3, GotoMoves DEF CreateOrderAttempt
  <2>4. CASE ReviewRisk(h)
    BY <1>1, <2>1, <2>4, GotoMoves DEF ReviewRisk
  <2>5. CASE FinalizeRiskRejectedAttempt(h)
    BY <1>1, <2>1, <2>5, GotoMoves DEF FinalizeRiskRejectedAttempt
  <2> QED BY <2>2, <2>3, <2>4, <2>5
<1>4. status' = status \/ \E st \in AttemptStatuses \ {"absent"} :
          /\ status' = [status EXCEPT ![a] = st]
          /\ st = "RISK_REJECTED" => label = "idle"
  <2>1. {"PENDING", "FAILED", "RISK_REJECTED"} \subseteq AttemptStatuses \ {"absent"}
    BY DEF AttemptStatuses
  <2>2. CASE UpsertOrderIntent(h) BY <2>2 DEF UpsertOrderIntent
  <2>3. CASE CreateOrderAttempt(h) BY <2>1, <2>3 DEF CreateOrderAttempt
  <2>4. CASE ReviewRisk(h) BY <2>4 DEF ReviewRisk
  <2>5. CASE FinalizeRiskRejectedAttempt(h)
    <3>1. label = "idle"
      BY <1>1, <1>3, <2>5, GotoMoves DEF FinalizeRiskRejectedAttempt, Moves
    <3> QED BY <2>1, <2>5, <3>1 DEF FinalizeRiskRejectedAttempt
  <2> QED BY <2>2, <2>3, <2>4, <2>5
<1>5. \/ intents' = intents
      \/ intents' = [intents EXCEPT ![IntentOf[a]] = "REQUESTED"]
      \/ intents' = [intents EXCEPT ![IntentOf[a]] = "REJECTED"] /\ label \in {"contract_create", "idle"}
  <2>2. CASE UpsertOrderIntent(h)
    BY <1>3, <2>2 DEF UpsertOrderIntent
  <2>3. CASE CreateOrderAttempt(h) BY <2>3 DEF CreateOrderAttempt
  <2>4. CASE ReviewRisk(h) BY <2>4 DEF ReviewRisk
  <2>5. CASE FinalizeRiskRejectedAttempt(h)
    <3>1. label = "idle"
      BY <1>1, <1>3, <2>5, GotoMoves DEF FinalizeRiskRejectedAttempt, Moves
    <3> QED BY <2>5, <3>1 DEF FinalizeRiskRejectedAttempt
  <2> QED BY <2>2, <2>3, <2>4, <2>5
\* Each conjunct in turn.
<1>6. \A b \in Attempts : /\ status[b] # "absent" => status'[b] # "absent"
                          /\ b # a => status'[b] = status[b]
                          /\ b = a /\ status'[b] = "RISK_REJECTED" => status[b] = "RISK_REJECTED" \/ label = "idle"
  BY <1>1, <1>4 DEF TypeOK
<1>7. /\ \A g \in Handlers : g # h => hs'[g] = hs[g]
      /\ hs'[h].pc = label
      /\ label # "idle" => hs'[h].a = a
      /\ label = "idle" => hs'[h].a = NoAttempt
  BY <1>3 DEF Moves, Idle
<1>8. OnlyIssued' BY <1>1, <1>6, <1>7 DEF OnlyIssued
<1>9. NotYetSent' BY <1>1, <1>2, <1>7 DEF NotYetSent, BeforeSend
<1>10. SoleSender' BY <1>1, <1>7 DEF SoleSender, BeforeSend
<1>11. StoredFirst'
  <2> SUFFICES ASSUME NEW g \in Handlers, hs'[g].pc \in {"risk", "reject", "send"}
               PROVE  status'[hs'[g].a] # "absent"
    BY DEF StoredFirst
  <2>1. CASE g # h
    BY <1>6, <1>7, <2>1, BusyType DEF StoredFirst
  <2>2. CASE g = h /\ label = "risk"
    BY <1>1, <1>3, <1>7, <2>2 DEF TypeOK
  <2>3. CASE g = h /\ label # "risk"
    BY <1>1, <1>3, <1>6, <1>7, <2>3 DEF StoredFirst
  <2> QED BY <2>1, <2>2, <2>3
<1>12. WriteAhead' /\ NoOrderNoTrades' /\ FilledIsWhole'
  BY <1>1, <1>6 DEF WriteAhead, NoOrderNoTrades, FilledIsWhole, Known
<1>13. AwaitSent' BY <1>1, <1>7 DEF AwaitSent
<1>14. RejectedStops'
  <2> SUFFICES ASSUME NEW b \in Attempts, status'[b] = "RISK_REJECTED"
               PROVE  /\ ex'[b].st = "none"
                      /\ \A g \in Handlers : hs'[g].a = b => hs'[g].pc \notin BeforeSend
    BY DEF RejectedStops
  <2>1. CASE b = a
    <3>1. status[a] # "RISK_REJECTED" BY <1>1 DEF RejectedStops
    <3>2. label = "idle" BY <1>6, <2>1, <3>1
    <3> QED BY <1>1, <1>2, <1>7, <2>1, <3>2 DEF BeforeSend
  <2>2. CASE b # a
    BY <1>1, <1>6, <1>7, <2>2, ConstantsAssumption DEF RejectedStops
  <2> QED BY <2>1, <2>2
<1>15. RejectedIntentStops'
  <2> SUFFICES ASSUME NEW b \in Attempts, intents'[IntentOf[b]] = "REJECTED", Sole(b)
               PROVE  /\ ex'[b].st = "none"
                      /\ \A g \in Handlers : hs'[g].a = b => hs'[g].pc \notin {"create", "risk", "send"}
    BY DEF RejectedIntentStops, Sole
  <2>1. CASE b = a
    <3>1. \A g \in Handlers : g # h /\ hs'[g].a = b => hs'[g].pc \notin {"create", "risk", "send"}
      BY <1>2, <1>7, <2>1 DEF BeforeSend
    <3>2. IntentOf[a] \in Intents BY <1>1, ConstantsAssumption
    <3>3. label \notin {"create", "risk", "send"}
      <4>1. CASE intents' = intents
        BY <1>1, <1>3, <2>1, <3>2, <4>1 DEF RejectedIntentStops, TypeOK
      <4>2. CASE intents' # intents
        BY <1>5, <2>1, <3>2, <4>2 DEF TypeOK
      <4> QED BY <4>1, <4>2
    <3> QED BY <1>1, <1>2, <1>7, <2>1, <3>1, <3>3
  <2>2. CASE b # a
    <3>1. IntentOf[b] # IntentOf[a] BY <1>1, <2>2 DEF Sole
    <3>2. intents[IntentOf[b]] = "REJECTED"
      BY <1>1, <1>5, <3>1, ConstantsAssumption DEF TypeOK
    <3> QED BY <1>1, <1>7, <2>2, <3>2, ConstantsAssumption DEF RejectedIntentStops
  <2> QED BY <2>1, <2>2
<1> QED BY <1>8, <1>9, <1>10, <1>11, <1>12, <1>13, <1>14, <1>15

\* The request leaves: from then on nobody is left who could send it again.
LEMMA ControlSend ==
  ASSUME TypeOK, ControlInv, NEW h \in Handlers, SendOrder(h)
  PROVE  ControlInv'
<1> USE DEF ControlInv, tables
<1> DEFINE a == hs[h].a
<1>1. /\ hs[h].pc = "send"
      /\ a \in Attempts
      /\ a \in issued
      /\ status[a] # "absent"
      /\ UNCHANGED <<intents, status, issued>>
  BY BusyType DEF SendOrder, OnlyIssued, StoredFirst
<1>2. Moves(h, "await")
  BY GotoMoves DEF SendOrder, PCs, PlacePCs
<1>3. /\ ex'[a] = [st |-> "inflight", n |-> 0]
      /\ \A b \in Attempts : b # a => ex'[b] = ex[b]
  BY <1>1 DEF SendOrder, TypeOK
<1>4. \A g \in Handlers : g # h /\ hs[g].a = a => hs[g].pc \notin BeforeSend
  BY <1>1 DEF SoleSender, BeforeSend
<1>5. /\ \A g \in Handlers : g # h => hs'[g] = hs[g]
      /\ hs'[h].pc = "await"
      /\ hs'[h].a = a
  BY <1>2 DEF Moves
<1>6. OnlyIssued' BY <1>1, <1>3, <1>5 DEF OnlyIssued
<1>7. NotYetSent'
  <2> SUFFICES ASSUME NEW g \in Handlers, hs'[g].pc \in BeforeSend PROVE ex'[hs'[g].a].st = "none"
    BY DEF NotYetSent
  <2>1. g # h /\ hs'[g] = hs[g] BY <1>5 DEF BeforeSend
  <2>2. hs[g].a # a /\ hs[g].a \in Attempts BY <1>4, <2>1, BusyType DEF BeforeSend
  <2> QED BY <1>3, <2>1, <2>2 DEF NotYetSent
<1>8. SoleSender' BY <1>5 DEF SoleSender, BeforeSend
<1>9. StoredFirst' BY <1>1, <1>5 DEF StoredFirst
<1>10. WriteAhead' BY <1>1, <1>3 DEF WriteAhead
<1>11. AwaitSent'
  <2> SUFFICES ASSUME NEW g \in Handlers, hs'[g].pc = "await" PROVE ex'[hs'[g].a].st # "none"
    BY DEF AwaitSent
  <2>1. CASE hs'[g].a = a BY <1>3, <2>1
  <2>2. CASE hs'[g].a # a BY <1>3, <1>5, <2>2, BusyType DEF AwaitSent
  <2> QED BY <2>1, <2>2
<1>12. NoOrderNoTrades' /\ FilledIsWhole'
  BY <1>1, <1>3, ConstantsAssumption DEF NoOrderNoTrades, FilledIsWhole, Known
<1>13. RejectedStops'
  <2>1. status[a] # "RISK_REJECTED" BY <1>1 DEF RejectedStops, BeforeSend
  <2> QED BY <1>1, <1>3, <1>5, <2>1 DEF RejectedStops, BeforeSend
<1>14. RejectedIntentStops'
  <2>1. ~(intents[IntentOf[a]] = "REJECTED" /\ Sole(a)) BY <1>1 DEF RejectedIntentStops
  <2> QED BY <1>1, <1>3, <1>5, <2>1 DEF RejectedIntentStops, Sole
<1> QED BY <1>6, <1>7, <1>8, <1>9, <1>10, <1>11, <1>12, <1>13, <1>14

\* What may become of an order once it is sent: it is not unsent, not sent again, loses
\* no trade, and does not change once it is over.
Later(b) ==
  /\ ex'[b].st = "none" <=> ex[b].st = "none"
  /\ ex'[b].st = "inflight" => ex[b].st = "inflight"
  /\ Known(b) => Known(b)'
  /\ ex[b].n <= ex'[b].n
  /\ Known(b) /\ ex[b].st \notin OpenStatuses => ex'[b] = ex[b]

\* A cancel, whoever asks for it, only moves an open order on.
LEMMA CancelMonotone ==
  ASSUME TypeOK, NEW a \in Attempts, ex[a].st \in OpenStatuses,
         ex' = [ex EXCEPT ![a].st = "CANCELED"]
  PROVE  /\ \A b \in Attempts : Later(b)
         /\ NoOrderNoTrades => NoOrderNoTrades'
         /\ FilledIsWhole => FilledIsWhole'
  BY ConstantsAssumption
  DEF TypeOK, ExchangeStates, Later, Known, OrderStatuses, OpenStatuses, NoOrderNoTrades, FilledIsWhole

\* What the exchange decides later never unsends a request, and never revives an order.
LEMMA ExchangeMonotone ==
  ASSUME TypeOK, NEW a \in Attempts, ExchangeStep(a)
  PROVE  /\ \A b \in Attempts : Later(b)
         /\ NoOrderNoTrades => NoOrderNoTrades'
         /\ NoOrderNoTrades /\ FilledIsWhole => FilledIsWhole'
  <1>1. \A b \in Attempts : ex[b].n \in 0..Qty /\ ex[b] \in ExchangeStates
    BY DEF TypeOK, ExchangeStates
  <1>2. \A b \in Attempts : b # a => ex'[b] = ex[b]
    BY DEF ExchangeStep, ExchangeDecides, ExchangeTrades, ExchangeCancels, TypeOK
  <1>3. CASE ExchangeDecides(a)
    BY <1>1, <1>2, <1>3, ConstantsAssumption
    DEF ExchangeDecides, TypeOK, ExchangeStates, Later, Known, OrderStatuses, OpenStatuses,
        NoOrderNoTrades, FilledIsWhole
  <1>4. CASE ExchangeTrades(a)
    <2>1. ex[a].n + 1 \in Nat /\ StatusAt(ex[a].n + 1) \in OrderStatuses \ {"CANCELED"}
      BY <1>1, ConstantsAssumption DEF StatusAt, OrderStatuses
    <2>2. ex'[a] = [st |-> StatusAt(ex[a].n + 1), n |-> ex[a].n + 1]
      BY <1>4 DEF ExchangeTrades, TypeOK
    <2>3. StatusAt(ex[a].n + 1) = "FILLED" <=> ex[a].n + 1 = Qty
      BY <1>1, <2>1, ConstantsAssumption DEF StatusAt
    <2> QED BY <1>1, <1>2, <1>4, <2>1, <2>2, <2>3, ConstantsAssumption
        DEF ExchangeTrades, Later, Known, OrderStatuses, OpenStatuses, NoOrderNoTrades, FilledIsWhole
  <1>5. CASE ExchangeCancels(a)
    BY <1>5, CancelMonotone DEF ExchangeCancels
  <1> QED BY <1>3, <1>4, <1>5 DEF ExchangeStep

\* The exchange's own steps keep ControlInv.
LEMMA ControlExchange ==
  ASSUME TypeOK, ControlInv, \A b \in Attempts : Later(b), NoOrderNoTrades', FilledIsWhole',
         UNCHANGED <<intents, status, issued, hs>>
  PROVE  ControlInv'
  <1>1. \A b \in Attempts : ex'[b].st = "none" <=> ex[b].st = "none" BY DEF Later
  <1>2. \A h \in Handlers : hs[h].pc # "idle" => hs[h].a \in Attempts BY BusyType
  <1>3. (NotYetSent /\ AwaitSent)' BY <1>1, <1>2 DEF ControlInv, NotYetSent, AwaitSent, BeforeSend
  <1> QED BY <1>1, <1>3
      DEF ControlInv, OnlyIssued, SoleSender, StoredFirst, WriteAhead,
          RejectedStops, RejectedIntentStops, Sole

\* Every step keeps ControlInv.
LEMMA ControlStep ==
  ASSUME TypeOK, ControlInv, [Next]_vars
  PROVE  ControlInv'
<1> USE DEF tables
<1>1. ASSUME NEW h \in Handlers, NEW a \in Attempts, BeginPlace(h, a) \/ BeginResolve(h, a)
      PROVE  ControlInv'
  BY <1>1, ControlBegin
<1>2. ASSUME NEW h \in Handlers,
             \/ UpsertOrderIntent(h) \/ CreateOrderAttempt(h) \/ ReviewRisk(h)
             \/ FinalizeRiskRejectedAttempt(h)
      PROVE  ControlInv'
  BY <1>2, ControlPlace
<1>3. ASSUME NEW h \in Handlers, SendOrder(h) PROVE ControlInv'
  BY <1>3, ControlSend
<1>4. ASSUME NEW h \in Handlers,
             \/ ExecuteLocally(h) \/ ReplyOrder(h) \/ ReplyFailure(h) \/ ReplyLost(h)
             \/ RecordUnknown(h) \/ FinalizeFailed(h) \/ FinalizeExecution(h)
             \/ MarkRecovering(h) \/ ResolveFound(h) \/ ResolveAbsent(h) \/ ResolveError(h)
             \/ SettleAbsent(h) \/ SettleError(h) \/ SettleFound(h) \/ EmitLifecycleEvents(h)
      PROVE  ControlInv'
  <2>1. hs[h].pc # "idle" /\ hs[h].a \in Attempts
    BY <1>4, StepIsBusy DEF HandlerStep
  <2>2. UNCHANGED <<intents, ex, issued>> /\ StatusMoves(hs[h].a)
    BY <1>4, ZenonT(60)
    DEF ExecuteLocally, ReplyOrder, ReplyFailure, ReplyLost, RecordUnknown, FinalizeFailed,
        FinalizeExecution, MarkRecovering, ResolveFound, ResolveAbsent, ResolveError,
        SettleAbsent, SettleError, SettleFound, EmitLifecycleEvents,
        FinalizeAttempt, FinalizeWithOrder, StatusMoves, AttemptStatuses
  <2>3. \E label : label \notin BeforeSend \cup {"await"} /\ Moves(h, label)
    <3> DEFINE Labels == {"unknown", "finalize", "mark", "query", "settle", "emit_accepted", "emit_recovered"}
    <3>1. Labels \subseteq PCs /\ Labels \cap (BeforeSend \cup {"await", "idle"}) = {}
      BY DEF PCs, PlacePCs, ResolvePCs, EmitPCs, BeforeSend
    <3>2. "idle" \notin BeforeSend \cup {"await"} BY DEF BeforeSend
    <3>3. \A label \in Labels \cup {"idle"} : Goto(h, label) => Moves(h, label)
      BY <2>1, <3>1, GotoMoves
    <3>4. \A label \in Labels, r \in Results : GotoWith(h, label, r) => Moves(h, label)
      BY <2>1, <3>1, GotoWithMoves
    <3>5. ReplyOrder(h) => Moves(h, "finalize")
      BY <3>4, ReplyResult
    <3>6. ResolveFound(h) => Moves(h, "settle")
      <4>1. SUFFICES ASSUME ResolveFound(h) PROVE Moves(h, "settle") OBVIOUS
      <4>2. ex[hs[h].a].n \in 0..Qty /\ ex[hs[h].a].st \in OrderStatuses /\ 0 \in 0..Qty
        BY <2>1, <4>1, ConstantsAssumption DEF ResolveFound, TypeOK, ExchangeStates, Known
      <4> QED BY <3>4, <4>1, <4>2, OrderResultType DEF ResolveFound
    <3>7. \/ \E label \in Labels \cup {"idle"} : Goto(h, label)
          \/ \E label \in Labels, r \in Results : GotoWith(h, label, r)
          \/ ReplyOrder(h) \/ ResolveFound(h)
      <4>1. CASE ExecuteLocally(h) \/ ReplyFailure(h) \/ ReplyLost(h) \/ RecordUnknown(h)
        BY <4>1, PlainType DEF ExecuteLocally, ReplyFailure, ReplyLost, RecordUnknown
      <4>2. CASE FinalizeFailed(h) \/ FinalizeExecution(h) \/ MarkRecovering(h)
        BY <4>2 DEF FinalizeFailed, FinalizeExecution, MarkRecovering
      <4>3. CASE ResolveAbsent(h) \/ ResolveError(h)
        BY <4>3, PlainType DEF ResolveAbsent, ResolveError
      <4>4. CASE SettleAbsent(h) \/ SettleError(h) \/ SettleFound(h) \/ EmitLifecycleEvents(h)
        BY <4>4 DEF SettleAbsent, SettleError, SettleFound, EmitLifecycleEvents
      <4> QED BY <1>4, <4>1, <4>2, <4>3, <4>4
    <3> QED BY <3>1, <3>2, <3>3, <3>4, <3>5, <3>6, <3>7
  <2> QED BY <2>1, <2>2, <2>3, ControlCalm
<1>5. ASSUME NEW a \in Attempts, ExchangeStep(a) PROVE ControlInv'
  <2>1. UNCHANGED <<intents, status, issued, hs>>
    BY <1>5 DEF ExchangeStep, ExchangeDecides, ExchangeTrades, ExchangeCancels
  <2>2. \A b \in Attempts : Later(b) BY <1>5, ExchangeMonotone
  <2>3. NoOrderNoTrades' /\ FilledIsWhole' BY <1>5, ExchangeMonotone DEF ControlInv
  <2> QED BY <2>1, <2>2, <2>3, ControlExchange
<1>6. ASSUME NEW h \in Handlers, CancelContext(h) PROVE ControlInv'
  <2>1. \A g \in Handlers : hs'[g].pc = hs[g].pc /\ hs'[g].a = hs[g].a
    BY <1>6, BusyType DEF CancelContext, TypeOK, BusyHandler
  <2>2. UNCHANGED <<intents, status, issued, ex>> BY <1>6 DEF CancelContext
  <2> QED BY <2>1, <2>2
      DEF ControlInv, OnlyIssued, NotYetSent, SoleSender, StoredFirst, WriteAhead, AwaitSent,
          NoOrderNoTrades, FilledIsWhole, Known, RejectedStops, RejectedIntentStops, Sole
<1>7. CASE Crash
  <2>1. \A g \in Handlers : hs'[g].pc = "idle"
    BY <1>7 DEF Crash, Idle
  <2>2. UNCHANGED <<intents, status, issued, ex>> BY <1>7 DEF Crash
  <2>3. "idle" \notin BeforeSend BY DEF BeforeSend
  <2> QED BY <2>1, <2>2, <2>3
      DEF ControlInv, OnlyIssued, NotYetSent, SoleSender, StoredFirst, WriteAhead, AwaitSent,
          NoOrderNoTrades, FilledIsWhole, Known, RejectedStops, RejectedIntentStops, Sole
<1>8. CASE UNCHANGED vars
  BY <1>8
  DEF vars, ControlInv, OnlyIssued, NotYetSent, SoleSender, StoredFirst, WriteAhead, AwaitSent,
      NoOrderNoTrades, FilledIsWhole, Known, RejectedStops, RejectedIntentStops, Sole
<1> QED
  BY <1>1, <1>2, <1>3, <1>4, <1>5, <1>6, <1>7, <1>8 DEF Next, HandlerStep

\* Initially nothing is issued, stored or sent.
LEMMA ControlInit == Init => ControlInv
  BY ConstantsAssumption
  DEF Init, Idle, ControlInv, OnlyIssued, NotYetSent, SoleSender, StoredFirst, WriteAhead, AwaitSent,
      NoOrderNoTrades, FilledIsWhole, Known, RejectedStops, RejectedIntentStops, BeforeSend, OrderStatuses

-----------------------------------------------------------------------------
(* The ledger layer. *)

\* The status of attempt a stays, or becomes one that does not settle it.
Unsettled(a) ==
  \/ status' = status
  \/ \E st \in AttemptStatuses \ {"ACCEPTED", "RECOVERED"} : status' = [status EXCEPT ![a] = st]

\* A step that writes neither orders nor fills nor events, and gives a handler only
\* results that are backed, keeps LedgerInv.
LEMMA LedgerCalm ==
  ASSUME TypeOK, LedgerInv, NEW b \in Attempts \cup {NoAttempt}, Unsettled(b),
         UNCHANGED <<orders, fills, events, ex>>,
         \A a \in Attempts : (<<a, "accepted">> \in notes' \/ <<a, "recovered">> \in notes') =>
                             (<<a, "accepted">> \in notes \/ <<a, "recovered">> \in notes),
         \A g \in Handlers :
           \/ hs'[g] = hs[g]
           \/ /\ hs'[g].pc \notin EmitPCs
              /\ hs'[g].res.kind \in {"order", "pending"} => Backed(hs'[g].a, hs'[g].res)
  PROVE  LedgerInv' /\ (SettledIsComplete => SettledIsComplete')
  <1> USE DEF LedgerInv
  <1>1. ResultBacked' BY DEF ResultBacked, Backed, Known
  <1>2. EmitAfterCommit' /\ EmitHasResult' BY DEF EmitAfterCommit, EmitHasResult, HasRow
  <1>3. LedgerBacked' BY DEF LedgerBacked, HasRow, Known
  <1>4. NoticeAfterCommit' BY DEF NoticeAfterCommit, HasRow
  <1>5. \A a \in Attempts : status'[a] \in {"ACCEPTED", "RECOVERED"} => status[a] \in {"ACCEPTED", "RECOVERED"}
    BY DEF Unsettled, TypeOK
  <1>6. SettledIsComplete => SettledIsComplete' BY <1>5 DEF SettledIsComplete, HasRow
  <1> QED BY <1>1, <1>2, <1>3, <1>4, <1>6

\* The executor's order goes to the tables: the row and the fills it writes were
\* backed when read, and the exchange never takes a trade back.
LEMMA LedgerFinalize ==
  ASSUME TypeOK, LedgerInv, NEW h \in Handlers,
         hs[h].pc # "idle", hs[h].res.kind \in {"order", "pending"},
         NEW st \in AttemptStatuses,
         st \in {"ACCEPTED", "RECOVERED"} => hs[h].res.kind = "order",
         FinalizeWithOrder(hs[h].a, st, hs[h].res),
         NEW label \in EmitPCs \cup {"unknown", "idle"}, Goto(h, label),
         UNCHANGED <<notes, ex>>
  PROVE  LedgerInv' /\ (SettledIsComplete => SettledIsComplete')
  <1> USE DEF LedgerInv
  <1> DEFINE a == hs[h].a
             r == hs[h].res
  <1>1. a \in Attempts /\ r \in Results BY BusyType
  <1>2. Backed(a, r) BY DEF ResultBacked
  <1>3. /\ Moves(h, label)
        /\ label # "idle" => hs'[h].res = r
    BY GotoMoves DEF PCs, PlacePCs
  <1>4. /\ buildPersistedExecution(r).n = r.n
        /\ buildPersistedExecution(r) # NoRow
    BY <1>1 DEF buildPersistedExecution, NoRow, Results, OrderStatuses
  <1>5. /\ orders'[a] = buildPersistedExecution(r)
        /\ status'[a] = st
        /\ \A b \in Attempts : b # a => orders'[b] = orders[b] /\ status'[b] = status[b]
    BY <1>1 DEF FinalizeWithOrder, TypeOK
  <1>6. \A b \in Attempts : HasRow(b) => HasRow(b)'
    BY <1>4, <1>5 DEF HasRow
  <1>7. orders'[a] # NoRow BY <1>4, <1>5
  <1>8. /\ \A k \in Trades : fills[k] > 0 => fills'[k] > 0
        /\ \A k \in Trades : k[1] = a /\ k[2] <= r.m => fills'[k] > 0
        /\ \A k \in Trades : fills'[k] > 0 => fills[k] > 0 \/ (k[1] = a /\ k[2] <= r.m)
    BY <1>1 DEF FinalizeWithOrder, AddFills, TypeOK, Results
  <1>9. ResultBacked'
    BY <1>2, <1>3 DEF ResultBacked, Backed, Moves, Known, Idle, Plain
  <1>10. EmitAfterCommit'
    <2> SUFFICES ASSUME NEW g \in Handlers, hs'[g].pc \in EmitPCs PROVE orders'[hs'[g].a] # NoRow
      BY DEF EmitAfterCommit, HasRow
    <2>1. CASE g = h
      BY <1>3, <1>7, <2>1 DEF Moves, Idle, EmitPCs, HasRow
    <2>2. CASE g # h
      <3>1. hs'[g] = hs[g] BY <1>3, <2>2 DEF Moves
      <3>2. hs[g].a \in Attempts BY <3>1, BusyType DEF EmitPCs
      <3>3. HasRow(hs[g].a) BY <3>1 DEF EmitAfterCommit
      <3> QED BY <1>6, <3>1, <3>2, <3>3 DEF HasRow
    <2> QED BY <2>1, <2>2
  <1>11. EmitHasResult'
    BY <1>3 DEF EmitHasResult, Moves, Idle, EmitPCs
  <1>12. LedgerBacked'
    <2>1. \A b \in Attempts : HasRow(b)' => Known(b)' /\ orders'[b].n <= ex'[b].n
      BY <1>2, <1>4, <1>5 DEF LedgerBacked, HasRow, Known, Backed
    <2>2. ASSUME NEW k \in Trades, fills'[k] > 0 \/ k \in events' PROVE k[2] <= ex'[k[1]].n
      <3>1. CASE fills[k] > 0 \/ k \in events BY <3>1 DEF LedgerBacked
      <3>2. CASE k[1] = a /\ k[2] <= r.m
        <4>1. k[2] \in Nat /\ r.m \in Nat /\ ex[a].n \in Nat
          BY <1>1, ConstantsAssumption DEF Trades, Results, TypeOK, ExchangeStates
        <4> QED BY <1>2, <3>2, <4>1 DEF Backed
      <3> QED BY <1>8, <2>2, <3>1, <3>2 DEF FinalizeWithOrder
    <2> QED BY <2>1, <2>2 DEF LedgerBacked
  <1>13. NoticeAfterCommit' BY <1>6 DEF NoticeAfterCommit
  <1>14. SettledIsComplete => SettledIsComplete'
    <2> SUFFICES ASSUME SettledIsComplete, NEW b \in Attempts, status'[b] \in {"ACCEPTED", "RECOVERED"}
                 PROVE  HasRow(b)' /\ \A t \in 1..orders'[b].n : fills'[<<b, t>>] > 0
      BY DEF SettledIsComplete
    <2>1. CASE b = a
      <3>1. orders'[a].n = r.n /\ r.n <= r.m BY <1>2, <1>4, <1>5, <2>1 DEF Backed
      <3>2. r.n \in 0..Qty /\ r.m \in 0..Qty BY <1>1 DEF Results
      <3>3. \A t \in 1..r.n : <<a, t>> \in Trades /\ t <= r.m
        BY <1>1, <3>1, <3>2, ConstantsAssumption DEF Trades
      <3> QED BY <1>7, <1>8, <2>1, <3>1, <3>3 DEF HasRow
    <2>2. CASE b # a
      <3>1. orders'[b] = orders[b] /\ status'[b] = status[b] BY <1>5, <2>2
      <3>2. HasRow(b) /\ \A t \in 1..orders[b].n : fills[<<b, t>>] > 0
        BY <3>1 DEF SettledIsComplete
      <3>3. orders[b].n \in 0..Qty
        BY <3>2, ConstantsAssumption DEF TypeOK, OrderRow, HasRow, NoRow
      <3>4. \A t \in 1..orders[b].n : <<b, t>> \in Trades
        BY <3>3, ConstantsAssumption DEF Trades
      <3> QED BY <1>6, <1>8, <3>1, <3>2, <3>4
    <2> QED BY <2>1, <2>2
  <1> QED BY <1>9, <1>10, <1>11, <1>12, <1>13, <1>14

\* Sending, deciding and trading only ever raise what the exchange shows.
LEMMA LedgerExchange ==
  ASSUME TypeOK, LedgerInv,
         \A b \in Attempts : /\ Known(b) => Known(b)'
                             /\ ex[b].n <= ex'[b].n
                             /\ Known(b) /\ ex[b].st \notin OpenStatuses => ex'[b] = ex[b],
         \A h \in Handlers : /\ hs'[h].a = hs[h].a
                             /\ hs'[h].res = hs[h].res
                             /\ hs'[h].pc \in EmitPCs => hs[h].pc \in EmitPCs,
         UNCHANGED <<tables, notes>>, TypeOK'
  PROVE  LedgerInv' /\ (SettledIsComplete => SettledIsComplete')
  <1> USE DEF LedgerInv, tables
  <1>1. \A b \in Attempts : ex[b].n \in Nat /\ ex'[b].n \in Nat
    BY ConstantsAssumption DEF TypeOK, ExchangeStates
  <1>2. ResultBacked'
    <2> SUFFICES ASSUME NEW h \in Handlers, hs'[h].res.kind \in {"order", "pending"}
                 PROVE  Backed(hs[h].a, hs[h].res)'
      BY DEF ResultBacked, Backed, Known
    <2>1. hs'[h].res = hs[h].res /\ hs'[h].a = hs[h].a OBVIOUS
    <2>2. Backed(hs[h].a, hs[h].res) BY <2>1 DEF ResultBacked
    <2>3. hs[h].pc # "idle" BY <2>1 DEF TypeOK, BusyHandler, Idle, Plain, PlacePCs, ResolvePCs, EmitPCs
    <2>4. hs[h].a \in Attempts /\ hs[h].res.n \in Nat /\ hs[h].res.m \in Nat
      BY <2>3, BusyType, ConstantsAssumption DEF Results
    <2>5. /\ ex'[hs[h].a].st \in OrderStatuses
          /\ hs[h].res.st \notin OpenStatuses => ex'[hs[h].a] = ex[hs[h].a]
      BY <2>2, <2>4 DEF Backed, Known
    <2> QED BY <1>1, <2>1, <2>2, <2>4, <2>5 DEF Backed, Known
  <1>3. EmitAfterCommit' /\ EmitHasResult' BY DEF EmitAfterCommit, EmitHasResult, HasRow
  <1>4. LedgerBacked'
    <2>1. \A b \in Attempts : HasRow(b)' => Known(b)' /\ orders'[b].n <= ex'[b].n
      <3> SUFFICES ASSUME NEW b \in Attempts, HasRow(b) PROVE Known(b)' /\ orders[b].n <= ex'[b].n
        BY DEF HasRow
      <3>1. orders[b].n \in Nat BY ConstantsAssumption DEF TypeOK, OrderRow, HasRow
      <3>2. Known(b) /\ orders[b].n <= ex[b].n BY DEF LedgerBacked
      <3> QED BY <1>1, <3>1, <3>2
    <2>2. ASSUME NEW k \in Trades, fills[k] > 0 \/ k \in events PROVE k[2] <= ex'[k[1]].n
      <3>1. k[1] \in Attempts /\ k[2] \in Nat BY ConstantsAssumption DEF Trades
      <3>2. k[2] <= ex[k[1]].n BY <2>2 DEF LedgerBacked
      <3> QED BY <1>1, <3>1, <3>2
    <2> QED BY <2>1, <2>2 DEF LedgerBacked
  <1>5. NoticeAfterCommit' /\ (SettledIsComplete => SettledIsComplete')
    BY DEF NoticeAfterCommit, SettledIsComplete, HasRow
  <1> QED BY <1>2, <1>3, <1>4, <1>5

\* emitLifecycleEvents records trades of a stored result and announces its row.
LEMMA LedgerEmit ==
  ASSUME TypeOK, LedgerInv, NEW h \in Handlers, EmitLifecycleEvents(h)
  PROVE  LedgerInv' /\ (SettledIsComplete => SettledIsComplete')
  <1> USE DEF LedgerInv
  <1> DEFINE a == hs[h].a
             r == hs[h].res
  <1>1. hs[h].pc \in EmitPCs /\ hs[h].pc # "idle" BY DEF EmitLifecycleEvents, EmitPCs
  <1>2. a \in Attempts /\ r \in Results /\ HasRow(a) /\ Backed(a, r)
    BY <1>1, BusyType DEF EmitAfterCommit, EmitHasResult, ResultBacked
  <1>3. Moves(h, "idle") BY <1>1, GotoMoves DEF EmitLifecycleEvents
  <1>4. UNCHANGED <<status, orders, fills, ex>> BY DEF EmitLifecycleEvents
  <1>5. \A k \in Trades : k \in events' => k \in events \/ (k[1] = a /\ k[2] <= r.m)
    BY <1>2 DEF EmitLifecycleEvents, Results
  <1>6. notes' \subseteq notes \cup {<<a, "accepted">>, <<a, "recovered">>}
    BY DEF EmitLifecycleEvents, Notify
  <1>7. ResultBacked' BY <1>3, <1>4 DEF ResultBacked, Backed, Known, Moves, Idle, Plain
  <1>8. EmitAfterCommit' /\ EmitHasResult'
    BY <1>3, <1>4 DEF EmitAfterCommit, EmitHasResult, HasRow, Moves, EmitPCs
  <1>9. LedgerBacked'
    <2>1. \A b \in Attempts : HasRow(b)' => Known(b)' /\ orders'[b].n <= ex'[b].n
      BY <1>4 DEF LedgerBacked, HasRow, Known
    <2>2. ASSUME NEW k \in Trades, fills'[k] > 0 \/ k \in events' PROVE k[2] <= ex'[k[1]].n
      <3>1. CASE fills[k] > 0 \/ k \in events BY <1>4, <3>1 DEF LedgerBacked
      <3>2. CASE k[1] = a /\ k[2] <= r.m
        <4>1. k[2] \in Nat /\ r.m \in Nat /\ ex[a].n \in Nat
          BY <1>2, ConstantsAssumption DEF Trades, Results, TypeOK, ExchangeStates
        <4> QED BY <1>2, <1>4, <3>2, <4>1 DEF Backed
      <3> QED BY <1>4, <1>5, <2>2, <3>1, <3>2
    <2> QED BY <2>1, <2>2 DEF LedgerBacked
  <1>10. NoticeAfterCommit'
    <2> SUFFICES ASSUME NEW b \in Attempts, <<b, "accepted">> \in notes' \/ <<b, "recovered">> \in notes'
                 PROVE  HasRow(b)'
      BY DEF NoticeAfterCommit
    <2>1. CASE b = a BY <1>2, <1>4, <2>1 DEF HasRow
    <2>2. CASE b # a BY <1>4, <1>6, <2>2 DEF NoticeAfterCommit, HasRow
    <2> QED BY <2>1, <2>2
  <1>11. SettledIsComplete => SettledIsComplete' BY <1>4 DEF SettledIsComplete, HasRow
  <1> QED BY <1>7, <1>8, <1>9, <1>10, <1>11

\* FinalizeExecution and SettleFound: stored, or not and then nothing is emitted.
LEMMA LedgerStore ==
  ASSUME TypeOK, LedgerInv, NEW h \in Handlers, FinalizeExecution(h) \/ SettleFound(h)
  PROVE  LedgerInv' /\ (SettledIsComplete => SettledIsComplete')
<1> USE DEF tables
<1> DEFINE Kept == LedgerInv' /\ (SettledIsComplete => SettledIsComplete')
<1>1. /\ hs[h].pc # "idle"
      /\ hs[h].a \in Attempts
      /\ hs[h].res.kind \in {"order", "pending"}
      /\ UNCHANGED <<notes, ex>>
  BY BusyType DEF FinalizeExecution, SettleFound
<1>2. ASSUME UNCHANGED tables, NEW label \in {"unknown", "idle"}, Goto(h, label)
      PROVE  Kept
  <2>1. Moves(h, label) /\ (label # "idle" => hs'[h].res = hs[h].res)
    BY <1>1, <1>2, GotoMoves DEF PCs, PlacePCs
  <2>2. Backed(hs[h].a, hs[h].res) BY <1>1 DEF LedgerInv, ResultBacked
  <2>3. \A g \in Handlers :
           \/ hs'[g] = hs[g]
           \/ /\ hs'[g].pc \notin EmitPCs
              /\ hs'[g].res.kind \in {"order", "pending"} => Backed(hs'[g].a, hs'[g].res)
    BY <2>1, <2>2 DEF Moves, EmitPCs, Idle, Plain
  <2> QED BY <1>1, <1>2, <2>3, LedgerCalm DEF Unsettled
<1>3. ASSUME NEW st \in {"ACCEPTED", "RECOVERED", "RECOVERING"},
             st # "RECOVERING" => hs[h].res.kind = "order",
             FinalizeWithOrder(hs[h].a, st, hs[h].res),
             NEW label \in EmitPCs \cup {"unknown", "idle"}, Goto(h, label)
      PROVE  Kept
  <2>1. st \in AttemptStatuses BY DEF AttemptStatuses
  <2> QED BY <1>1, <1>3, <2>1, LedgerFinalize
<1>4. CASE FinalizeExecution(h)
  BY <1>1, <1>2, <1>3, <1>4 DEF FinalizeExecution, EmitPCs
<1>5. CASE SettleFound(h)
  BY <1>1, <1>2, <1>3, <1>5 DEF SettleFound, EmitPCs
<1> QED BY <1>4, <1>5

\* Every step keeps LedgerInv, and what is settled complete.
LEMMA LedgerStep ==
  ASSUME TypeOK, TypeOK', ControlInv, LedgerInv, [Next]_vars
  PROVE  LedgerInv' /\ (SettledIsComplete => SettledIsComplete')
<1> USE DEF tables
<1> DEFINE Kept == LedgerInv' /\ (SettledIsComplete => SettledIsComplete')
<1>1. ASSUME NEW h \in Handlers, NEW a \in Attempts, BeginPlace(h, a) \/ BeginResolve(h, a)
      PROVE  Kept
  <2>1. /\ \A g \in Handlers : g # h => hs'[g] = hs[g]
        /\ hs'[h].pc \notin EmitPCs
        /\ hs'[h].res.kind = "none"
    BY <1>1, StartMoves DEF BeginPlace, BeginResolve, PCs, PlacePCs, ResolvePCs, EmitPCs, HasRow
  <2>2. UNCHANGED <<tables, notes, ex>> BY <1>1 DEF BeginPlace, BeginResolve
  <2> QED BY <2>1, <2>2, LedgerCalm DEF Unsettled
<1>2. ASSUME NEW h \in Handlers,
             \/ UpsertOrderIntent(h) \/ CreateOrderAttempt(h) \/ ReviewRisk(h)
             \/ FinalizeRiskRejectedAttempt(h)
             \/ ExecuteLocally(h) \/ ReplyOrder(h) \/ ReplyFailure(h) \/ ReplyLost(h)
             \/ RecordUnknown(h) \/ FinalizeFailed(h)
             \/ MarkRecovering(h) \/ ResolveFound(h) \/ ResolveAbsent(h) \/ ResolveError(h)
             \/ SettleAbsent(h) \/ SettleError(h)
      PROVE  Kept
  <2>1. hs[h].pc # "idle" /\ hs[h].a \in Attempts
    BY <1>2, StepIsBusy DEF HandlerStep
  <2>2. UNCHANGED <<orders, fills, events, ex>> /\ Unsettled(hs[h].a)
    BY <1>2, ZenonT(60)
    DEF UpsertOrderIntent, CreateOrderAttempt, ReviewRisk, FinalizeRiskRejectedAttempt,
        ExecuteLocally, ReplyOrder, ReplyFailure, ReplyLost, RecordUnknown, FinalizeFailed,
        MarkRecovering, ResolveFound, ResolveAbsent, ResolveError, SettleAbsent, SettleError,
        FinalizeAttempt, Unsettled, AttemptStatuses
  <2>3. \A a \in Attempts : (<<a, "accepted">> \in notes' \/ <<a, "recovered">> \in notes') =>
                             (<<a, "accepted">> \in notes \/ <<a, "recovered">> \in notes)
    <3>1. notes' = notes \/ Notify(h, "failed") \/ Notify(h, "recovery_failed")
      <4>1. CASE UpsertOrderIntent(h) \/ CreateOrderAttempt(h) \/ ReviewRisk(h) \/ FinalizeRiskRejectedAttempt(h)
        BY <4>1 DEF UpsertOrderIntent, CreateOrderAttempt, ReviewRisk, FinalizeRiskRejectedAttempt
      <4>2. CASE ExecuteLocally(h) \/ ReplyOrder(h) \/ ReplyFailure(h) \/ ReplyLost(h)
        BY <4>2 DEF ExecuteLocally, ReplyOrder, ReplyFailure, ReplyLost
      <4>3. CASE RecordUnknown(h) \/ FinalizeFailed(h) \/ MarkRecovering(h) \/ ResolveFound(h)
        BY <4>3 DEF RecordUnknown, FinalizeFailed, MarkRecovering, ResolveFound
      <4>4. CASE ResolveAbsent(h) \/ ResolveError(h) \/ SettleAbsent(h) \/ SettleError(h)
        BY <4>4 DEF ResolveAbsent, ResolveError, SettleAbsent, SettleError
      <4> QED BY <1>2, <4>1, <4>2, <4>3, <4>4
    <3> QED BY <3>1 DEF Notify
  <2>4. \E label : /\ label \notin EmitPCs
                   /\ Moves(h, label)
                   /\ \/ label = "idle"
                      \/ hs'[h].res = hs[h].res
                      \/ hs'[h].res.kind \notin {"order", "pending"}
                      \/ Backed(hs[h].a, hs'[h].res)
    <3> DEFINE Labels == PlacePCs \cup ResolvePCs
    <3>1. Labels \subseteq PCs /\ "idle" \notin EmitPCs /\ \A l \in Labels : l \notin EmitPCs
      BY DEF PCs, PlacePCs, ResolvePCs, EmitPCs
    <3>2. \A label \in Labels \cup {"idle"} :
            Goto(h, label) => Moves(h, label) /\ (label # "idle" => hs'[h].res = hs[h].res)
      BY <2>1, <3>1, GotoMoves
    <3>3. \A label \in Labels, r \in Results : GotoWith(h, label, r) => Moves(h, label) /\ hs'[h].res = r
      BY <2>1, <3>1, GotoWithMoves
    <3>4. CASE ReplyOrder(h)
      <4>1. PICK r \in Results : /\ GotoWith(h, "finalize", r)
                                 /\ r.kind \in {"order", "pending"}
                                 /\ r.n <= ex[hs[h].a].n
                                 /\ r.m <= ex[hs[h].a].n
                                 /\ r.kind = "order" => r.n <= r.m
                                 /\ \/ r.st \in OpenStatuses
                                    \/ r.st = "FILLED" /\ r.n = Qty
                                    \/ r.st = ex[hs[h].a].st /\ r.n = ex[hs[h].a].n
        BY <3>4, ReplyResult
      <4>2. Backed(hs[h].a, r)
        <5>1. ex[hs[h].a].n \in 0..Qty /\ r.n \in 0..Qty /\ Qty \in Nat
          BY <2>1, ConstantsAssumption DEF TypeOK, ExchangeStates, Results
        <5>2. r.n = Qty => ex[hs[h].a].n = Qty /\ ex[hs[h].a].st = "FILLED"
          BY <2>1, <4>1, <5>1 DEF ControlInv, FilledIsWhole
        <5> QED BY <3>4, <4>1, <5>2 DEF Backed, ReplyOrder
      <4>3. "finalize" \in Labels BY DEF PlacePCs
      <4> QED BY <3>1, <3>3, <4>1, <4>2, <4>3
    <3>5. CASE ResolveFound(h)
      <4>1. ex[hs[h].a].n \in 0..Qty /\ ex[hs[h].a].st \in OrderStatuses /\ 0 \in 0..Qty
        BY <2>1, <3>5, ConstantsAssumption DEF ResolveFound, TypeOK, ExchangeStates, Known
      <4>2. PICK m \in 0..Qty, kind \in {"order", "pending"} :
              /\ GotoWith(h, "settle", [kind |-> kind, st |-> ex[hs[h].a].st, n |-> ex[hs[h].a].n, m |-> m])
              /\ m <= ex[hs[h].a].n
              /\ kind = "order" => m = ex[hs[h].a].n
        BY <3>5, <4>1, ConstantsAssumption DEF ResolveFound
      <4> DEFINE r == [kind |-> kind, st |-> ex[hs[h].a].st, n |-> ex[hs[h].a].n, m |-> m]
      <4>3. r \in Results BY <4>1, OrderResultType
      <4>4. Backed(hs[h].a, r) BY <3>5, <4>1, <4>2, ConstantsAssumption DEF Backed, ResolveFound
      <4>5. "settle" \in Labels BY DEF ResolvePCs
      <4> QED BY <3>1, <3>3, <4>2, <4>3, <4>4, <4>5
    <3>6. CASE ~ReplyOrder(h) /\ ~ResolveFound(h)
      <4>1. \/ \E label \in Labels \cup {"idle"} : Goto(h, label)
            \/ \E label \in Labels, r \in Results : GotoWith(h, label, r) /\ r.kind \notin {"order", "pending"}
        <5>1. {"create", "contract_create", "risk", "send", "reject", "unknown", "finalize",
               "mark", "query", "settle"} \subseteq Labels
          BY DEF PlacePCs, ResolvePCs
        <5>2. \A kind \in {"failed", "absent", "error"} :
                Plain(kind) \in Results /\ Plain(kind).kind \notin {"order", "pending"}
          BY PlainType DEF Plain
        <5> HIDE DEF Labels
        <5>3. CASE UpsertOrderIntent(h) \/ CreateOrderAttempt(h) \/ ReviewRisk(h) \/ FinalizeRiskRejectedAttempt(h)
          BY <5>1, <5>3 DEF UpsertOrderIntent, CreateOrderAttempt, ReviewRisk, FinalizeRiskRejectedAttempt
        <5>4. CASE ExecuteLocally(h) \/ ReplyFailure(h) \/ ReplyLost(h) \/ RecordUnknown(h)
          BY <5>1, <5>2, <5>4 DEF ExecuteLocally, ReplyFailure, ReplyLost, RecordUnknown
        <5>5. CASE FinalizeFailed(h) \/ MarkRecovering(h) \/ SettleAbsent(h) \/ SettleError(h)
          BY <5>1, <5>5 DEF FinalizeFailed, MarkRecovering, SettleAbsent, SettleError
        <5>6. CASE ResolveAbsent(h) \/ ResolveError(h)
          BY <5>1, <5>2, <5>6 DEF ResolveAbsent, ResolveError
        <5> QED BY <1>2, <3>6, <5>3, <5>4, <5>5, <5>6
      <4> QED BY <3>1, <3>2, <3>3, <4>1
    <3> QED BY <3>4, <3>5, <3>6
  <2>5. \A g \in Handlers :
           \/ hs'[g] = hs[g]
           \/ /\ hs'[g].pc \notin EmitPCs
              /\ hs'[g].res.kind \in {"order", "pending"} => Backed(hs'[g].a, hs'[g].res)
    BY <2>4 DEF Moves, Idle, Plain, LedgerInv, ResultBacked
  <2> QED BY <2>1, <2>2, <2>3, <2>5, LedgerCalm
<1>3. ASSUME NEW h \in Handlers, SendOrder(h) PROVE Kept
  <2>1. hs[h].pc = "send" /\ hs[h].a \in Attempts /\ UNCHANGED <<tables, notes>>
    BY <1>3, BusyType DEF SendOrder
  <2>2. Moves(h, "await") /\ hs'[h].res = hs[h].res
    BY <1>3, GotoMoves DEF SendOrder, PCs, PlacePCs
  <2>3. ex[hs[h].a].st = "none" /\ ex[hs[h].a].n = 0
    BY <2>1 DEF ControlInv, NotYetSent, NoOrderNoTrades, BeforeSend, Known, OrderStatuses
  <2>4. \A b \in Attempts : /\ Known(b) => Known(b)'
                            /\ ex[b].n <= ex'[b].n
                            /\ Known(b) /\ ex[b].st \notin OpenStatuses => ex'[b] = ex[b]
    <3>1. \A b \in Attempts : ex[b].n \in Nat BY ConstantsAssumption DEF TypeOK, ExchangeStates
    <3>2. /\ ex'[hs[h].a] = [st |-> "inflight", n |-> 0]
          /\ \A b \in Attempts : b # hs[h].a => ex'[b] = ex[b]
      BY <1>3, <2>1 DEF SendOrder, TypeOK
    <3> QED BY <2>3, <3>1, <3>2 DEF Known, OrderStatuses
  <2>5. \A g \in Handlers : /\ hs'[g].a = hs[g].a
                            /\ hs'[g].res = hs[g].res
                            /\ hs'[g].pc \in EmitPCs => hs[g].pc \in EmitPCs
    BY <2>2 DEF Moves, EmitPCs
  <2> QED BY <2>1, <2>4, <2>5, LedgerExchange
<1>4. ASSUME NEW h \in Handlers, FinalizeExecution(h) \/ SettleFound(h) PROVE Kept
  BY <1>4, LedgerStore
<1>5. ASSUME NEW h \in Handlers, EmitLifecycleEvents(h) PROVE Kept
  BY <1>5, LedgerEmit
<1>6. ASSUME NEW a \in Attempts, ExchangeStep(a) PROVE Kept
  <2>1. UNCHANGED <<tables, notes, hs>>
    BY <1>6 DEF ExchangeStep, ExchangeDecides, ExchangeTrades, ExchangeCancels
  <2>2. \A b \in Attempts : Later(b) BY <1>6, ExchangeMonotone
  <2> QED BY <2>1, <2>2, LedgerExchange DEF Later
<1>7. ASSUME NEW h \in Handlers, CancelContext(h) PROVE Kept
  <2>1. \A g \in Handlers : hs'[g].pc = hs[g].pc /\ hs'[g].a = hs[g].a /\ hs'[g].res = hs[g].res
    BY <1>7, BusyType DEF CancelContext, TypeOK, BusyHandler
  <2>2. UNCHANGED <<tables, notes, ex>> BY <1>7 DEF CancelContext
  <2>3. \A b \in Attempts : /\ Known(b) => Known(b)'
                            /\ ex[b].n <= ex'[b].n
                            /\ Known(b) /\ ex[b].st \notin OpenStatuses => ex'[b] = ex[b]
    BY <2>2, ConstantsAssumption DEF Known, TypeOK, ExchangeStates
  <2> QED BY <2>1, <2>2, <2>3, LedgerExchange
<1>8. CASE Crash
  <2>1. \A g \in Handlers : hs'[g].pc \notin EmitPCs /\ hs'[g].res.kind = "none"
    BY <1>8 DEF Crash, Idle, Plain, EmitPCs
  <2>2. UNCHANGED <<tables, notes, ex>> BY <1>8 DEF Crash
  <2> QED BY <2>1, <2>2, LedgerCalm DEF Unsettled
<1>9. CASE UNCHANGED vars
  <2>1. UNCHANGED <<tables, notes, ex, hs>> BY <1>9 DEF vars
  <2> QED BY <2>1, LedgerCalm DEF Unsettled
<1> QED
  BY <1>1, <1>2, <1>3, <1>4, <1>5, <1>6, <1>7, <1>8, <1>9 DEF Next, HandlerStep

\* The ledger starts empty.
LEMMA LedgerInit == Init => LedgerInv
  BY ConstantsAssumption
  DEF Init, Idle, Plain, LedgerInv, ResultBacked, EmitAfterCommit, EmitHasResult, LedgerBacked,
      NoticeAfterCommit, SettledIsComplete, HasRow, EmitPCs, Trades

\* The inductive invariant of the order service.
IInv == TypeOK /\ ControlInv /\ LedgerInv /\ SettledIsComplete

\* The three layers hold in every reachable state of the order service.
THEOREM Inductive == Spec => []IInv
<1>1. Init => IInv BY TypeInit, ControlInit, LedgerInit DEF IInv, Init, SettledIsComplete
<1>2. IInv /\ [Next]_vars => IInv' BY TypeStep, ControlStep, LedgerStep DEF IInv
<1> QED BY <1>1, <1>2, PTL DEF Spec

-----------------------------------------------------------------------------
(* What the invariant gives. *)

\* The exchange never hears of an attempt that PlaceOrder has not stored.
THEOREM WriteAheadHolds == Spec => []WriteAhead
<1>1. IInv => WriteAhead BY DEF IInv, ControlInv
<1> QED BY <1>1, Inductive, PTL

\* The database never claims an order, a fill or an event that the exchange does not show.
THEOREM LedgerBackedHolds == Spec => []LedgerBacked
<1>1. IInv => LedgerBacked BY DEF IInv, LedgerInv
<1> QED BY <1>1, Inductive, PTL

\* ACCEPTED and RECOVERED attempts have their orders row and all its fills.
THEOREM SettledIsCompleteHolds == Spec => []SettledIsComplete
<1>1. IInv => SettledIsComplete BY DEF IInv
<1> QED BY <1>1, Inductive, PTL

\* Notices of accepted and recovered orders follow the commit of their row.
THEOREM NoticeAfterCommitHolds == Spec => []NoticeAfterCommit
<1>1. IInv => NoticeAfterCommit BY DEF IInv, LedgerInv
<1> QED BY <1>1, Inductive, PTL

\* What the risk gate or the contract check rejected is not at the exchange.
THEOREM RejectedNeverSentHolds == Spec => []RejectedNeverSent
<1>1. IInv => RejectedNeverSent
  <2>1. SUFFICES ASSUME IInv, NEW a \in Attempts,
                        status[a] = "RISK_REJECTED" \/ (intents[IntentOf[a]] = "REJECTED" /\ Sole(a))
                 PROVE  /\ ex[a].st = "none"
                        /\ \A h \in Handlers : hs[h].a = a => hs[h].pc \notin {"send", "await"}
    BY DEF RejectedNeverSent, Sole
  <2>2. ex[a].st = "none" BY <2>1 DEF IInv, ControlInv, RejectedStops, RejectedIntentStops
  <2>3. \A h \in Handlers : hs[h].a = a => hs[h].pc # "send"
    BY <2>1 DEF IInv, ControlInv, RejectedStops, RejectedIntentStops, BeforeSend
  <2>4. \A h \in Handlers : hs[h].a = a => hs[h].pc # "await"
    BY <2>1, <2>2 DEF IInv, ControlInv, AwaitSent
  <2> QED BY <2>2, <2>3, <2>4
<1> QED BY <1>1, Inductive, PTL

\* No client order id is ever submitted twice.
THEOREM NeverResentHolds == Spec => NeverResent
<1> DEFINE Once == \A a \in Attempts : ex'[a].st = "inflight" => ex[a].st \in {"none", "inflight"}
<1>1. IInv /\ [Next]_vars => [Once]_vars
  <2> SUFFICES ASSUME IInv, Next PROVE Once
    OBVIOUS
  <2>1. ASSUME NEW h \in Handlers, SendOrder(h) PROVE Once
    <3>1. ex[hs[h].a].st = "none" /\ hs[h].a \in Attempts
      BY <2>1, BusyType DEF SendOrder, IInv, ControlInv, NotYetSent, BeforeSend
    <3> QED BY <2>1, <3>1 DEF SendOrder, IInv, TypeOK
  <2>2. ASSUME NEW a \in Attempts, ExchangeStep(a) PROVE Once
    BY <2>2, ExchangeMonotone DEF IInv, Later
  <2>3. CASE ex' = ex BY <2>3
  <2>4. \/ \E h \in Handlers : SendOrder(h)
        \/ \E a \in Attempts : ExchangeStep(a)
        \/ ex' = ex
    BY ZenonT(60) DEF Next, HandlerStep, BeginPlace, BeginResolve, UpsertOrderIntent, CreateOrderAttempt,
           ReviewRisk, FinalizeRiskRejectedAttempt, ExecuteLocally, ReplyOrder, ReplyFailure,
           ReplyLost, RecordUnknown, FinalizeFailed, FinalizeExecution, MarkRecovering,
           ResolveFound, ResolveAbsent, ResolveError, SettleAbsent, SettleError, SettleFound,
           EmitLifecycleEvents, CancelContext, Crash
  <2> QED BY <2>1, <2>2, <2>3, <2>4
<1> QED BY <1>1, Inductive, PTL DEF NeverResent, Spec

-----------------------------------------------------------------------------
(* What is called failed. When the environment has no hazard, an attempt is  *)
(* written off only once nobody can bring it to life: it is not at the        *)
(* exchange, undecided or standing, and no handler is left that could send it.*)

Nowhere == {"none", "refused", "lost"}
NobodySends(a) == \A g \in Handlers : hs[g].a = a => hs[g].pc \notin BeforeSend
WrittenOff(a) == a \in issued /\ ex[a].st \in Nowhere /\ NobodySends(a)

\* A handler that is about to store a failure.
Failing(h) ==
  \/ hs[h].pc = "finalize" /\ hs[h].res.kind = "failed"
  \/ hs[h].pc = "settle" /\ hs[h].res.kind = "absent"

\* What is stored, announced or about to be stored as failed is written off, and while a
\* PlaceOrder may still send, nobody else works on its attempt.
FailedIsOff == \A a \in Attempts : status[a] \in {"FAILED", "RISK_REJECTED"} => WrittenOff(a)
AnnouncedIsOff == \A a \in Attempts : <<a, "failed">> \in notes => WrittenOff(a)
FailingIsOff == \A h \in Handlers : Failing(h) => WrittenOff(hs[h].a)
SenderAlone ==
  \A g, h \in Handlers :
    hs[g].pc \in BeforeSend /\ hs[h].pc # "idle" /\ hs[g].a = hs[h].a => g = h
FailInv == FailedIsOff /\ AnnouncedIsOff /\ FailingIsOff /\ SenderAlone

\* An attempt without a sender and without an order stays so, if nobody new may send it.
LEMMA OffStays ==
  ASSUME TypeOK, NEW a \in Attempts, WrittenOff(a), issued \subseteq issued',
         ex'[a].st = ex[a].st,
         \A g \in Handlers : hs'[g].pc \in BeforeSend /\ hs'[g].a = a => hs[g].pc \in BeforeSend /\ hs[g].a = a
  PROVE  WrittenOff(a)'
  BY DEF WrittenOff, NobodySends

\* The attempt of h is nowhere, and only h could still send it.
Forsaken(h) ==
  /\ ex[hs[h].a].st \in Nowhere
  /\ \A g \in Handlers : g # h /\ hs[g].a = hs[h].a => hs[g].pc \notin BeforeSend

\* A handler that does not go on to send writes off at most a forsaken attempt.
LEMMA FailCalm ==
  ASSUME TypeOK, ControlInv, FailInv, NEW h \in Handlers, hs[h].pc # "idle",
         NEW label, label \notin BeforeSend, Moves(h, label), UNCHANGED <<ex, issued>>,
         \/ status' = status
         \/ \E st \in AttemptStatuses :
              status' = [status EXCEPT ![hs[h].a] = st] /\ (st \in {"FAILED", "RISK_REJECTED"} => Forsaken(h)),
         \/ notes' = notes
         \/ \E class \in NoteClasses :
              notes' = notes \cup {<<hs[h].a, class>>} /\ (class = "failed" => Forsaken(h)),
         Failing(h)' => Forsaken(h)
  PROVE  FailInv'
<1> DEFINE a == hs[h].a
<1>1. a \in Attempts /\ a \in issued BY BusyType DEF ControlInv, OnlyIssued
<1>2. /\ \A g \in Handlers : g # h => hs'[g] = hs[g]
      /\ hs'[h].pc \notin BeforeSend
      /\ hs'[h].pc = "idle" \/ hs'[h].a = a
  BY DEF Moves, Idle
<1>3. \A b \in Attempts : WrittenOff(b) => WrittenOff(b)'
  BY <1>2, OffStays
<1>4. \A b \in Attempts : b = a /\ Forsaken(h) => WrittenOff(b)'
  BY <1>1, <1>2 DEF Forsaken, WrittenOff, NobodySends
<1>5. FailedIsOff'
  <2> SUFFICES ASSUME NEW b \in Attempts, status'[b] \in {"FAILED", "RISK_REJECTED"} PROVE WrittenOff(b)'
    BY DEF FailedIsOff
  <2>1. CASE status[b] \in {"FAILED", "RISK_REJECTED"}
    BY <1>3, <2>1 DEF FailInv, FailedIsOff
  <2>2. CASE status[b] \notin {"FAILED", "RISK_REJECTED"}
    BY <1>1, <1>4, <2>2 DEF TypeOK
  <2> QED BY <2>1, <2>2
<1>6. AnnouncedIsOff'
  BY <1>3, <1>4 DEF AnnouncedIsOff, FailInv
<1>7. FailingIsOff'
  <2> SUFFICES ASSUME NEW g \in Handlers, Failing(g)' PROVE WrittenOff(hs[g].a)'
    BY DEF FailingIsOff
  <2>1. CASE g = h
    <3>1. Forsaken(h) /\ hs'[h].a = a BY <1>2, <2>1 DEF Failing
    <3> QED BY <1>1, <1>4, <2>1, <3>1
  <2>2. CASE g # h
    <3>1. hs'[g] = hs[g] /\ Failing(g) BY <1>2, <2>2 DEF Failing
    <3>2. hs[g].a \in Attempts BY <3>1, BusyType DEF Failing
    <3> QED BY <1>3, <3>1, <3>2 DEF FailInv, FailingIsOff
  <2> QED BY <2>1, <2>2
<1>8. SenderAlone' BY <1>2 DEF SenderAlone, FailInv
<1> QED BY <1>5, <1>6, <1>7, <1>8 DEF FailInv

\* A step that nothing fails in: other work begins or goes on, no attempt leaves Nowhere
\* and none that is written off gets a sender.
LEMMA FailQuiet ==
  ASSUME TypeOK, FailInv, issued \subseteq issued', notes' = notes,
         \A b \in Attempts : status'[b] \in {"FAILED", "RISK_REJECTED"} => status[b] \in {"FAILED", "RISK_REJECTED"},
         \A b \in Attempts : WrittenOff(b) => ex'[b].st = ex[b].st,
         \A g \in Handlers : Failing(g)' => Failing(g) /\ hs'[g].a = hs[g].a,
         \A g \in Handlers : \A b \in Attempts :
           WrittenOff(b) /\ hs'[g].pc \in BeforeSend /\ hs'[g].a = b => hs[g].pc \in BeforeSend /\ hs[g].a = b,
         SenderAlone'
  PROVE  FailInv'
<1>1. \A b \in Attempts : WrittenOff(b) => WrittenOff(b)' BY OffStays
<1>2. FailedIsOff' /\ AnnouncedIsOff' BY <1>1 DEF FailInv, FailedIsOff, AnnouncedIsOff
<1>3. FailingIsOff'
  <2> SUFFICES ASSUME NEW g \in Handlers, Failing(g)' PROVE WrittenOff(hs[g].a)'
    BY DEF FailingIsOff
  <2>1. Failing(g) /\ hs'[g].a = hs[g].a OBVIOUS
  <2>2. hs[g].a \in Attempts BY <2>1, BusyType DEF Failing
  <2> QED BY <1>1, <2>1, <2>2 DEF FailInv, FailingIsOff
<1> QED BY <1>2, <1>3 DEF FailInv

\* PlaceOrder draws an attempt nobody else has; ResolveOrderAttempt waits for PlaceOrder.
LEMMA FailBegin ==
  ASSUME TypeOK, ControlInv, FailInv, Hazards = {}, NEW h \in Handlers, NEW a \in Attempts,
         BeginPlace(h, a) \/ BeginResolve(h, a)
  PROVE  FailInv'
<1> USE DEF tables
<1>1. CASE BeginPlace(h, a)
  <2>1. PICK label \in {"intent", "contract_intent"} : Start(h, label, a, FALSE)
    BY <1>1 DEF BeginPlace
  <2>2. /\ \A g \in Handlers : g # h => hs'[g] = hs[g]
        /\ hs'[h].pc = label
        /\ hs'[h].a = a
    BY <2>1, StartMoves DEF PCs, PlacePCs
  <2>3. a \notin issued /\ issued \subseteq issued' /\ UNCHANGED <<status, ex, notes>>
    BY <1>1 DEF BeginPlace
  <2>4. \A g \in Handlers : g # h /\ hs'[g].pc # "idle" => hs'[g].a # a
    BY <2>2, <2>3 DEF ControlInv, OnlyIssued
  <2>5. SenderAlone'
    BY <2>2, <2>4 DEF SenderAlone, FailInv, BeforeSend
  <2>6. \A g \in Handlers : Failing(g)' => Failing(g) /\ hs'[g].a = hs[g].a
    BY <2>2 DEF Failing
  <2>7. \A g \in Handlers : \A b \in Attempts :
          WrittenOff(b) /\ hs'[g].pc \in BeforeSend /\ hs'[g].a = b => hs[g].pc \in BeforeSend /\ hs[g].a = b
    BY <2>2, <2>3 DEF WrittenOff
  <2> QED BY <2>3, <2>5, <2>6, <2>7, FailQuiet
<1>2. CASE BeginResolve(h, a)
  <2>1. /\ \A g \in Handlers : g # h => hs'[g] = hs[g]
        /\ hs'[h].pc = "mark"
        /\ hs'[h].a = a
    BY <1>2, StartMoves DEF BeginResolve, PCs, ResolvePCs, HasRow
  <2>2. UNCHANGED <<status, ex, issued, notes>> BY <1>2 DEF BeginResolve
  <2>3. \A g \in Handlers : hs[g].a = a => hs[g].pc \notin BeforeSend
    <3>1. BeforeSend \subseteq PlacePCs BY DEF BeforeSend, PlacePCs
    <3> QED BY <1>2, <3>1 DEF BeginResolve, Placing
  <2>4. SenderAlone'
    BY <2>1, <2>3 DEF SenderAlone, FailInv, BeforeSend
  <2>5. \A g \in Handlers : Failing(g)' => Failing(g) /\ hs'[g].a = hs[g].a
    BY <2>1 DEF Failing
  <2>6. \A g \in Handlers : hs'[g].pc \in BeforeSend => g # h /\ hs'[g] = hs[g]
    BY <2>1 DEF BeforeSend
  <2> QED BY <2>2, <2>4, <2>5, <2>6, FailQuiet
<1> QED BY <1>1, <1>2

\* A handler before its send is the only one with its attempt, which is nowhere.
LEMMA SenderForsakes ==
  ASSUME ControlInv, NEW h \in Handlers, hs[h].pc \in BeforeSend
  PROVE  Forsaken(h)
  BY DEF ControlInv, NotYetSent, SoleSender, Forsaken, Nowhere

\* Up to the send PlaceOrder either goes on, or gives up an attempt that is its alone.
LEMMA FailPlace ==
  ASSUME TypeOK, ControlInv, FailInv, NEW h \in Handlers,
         \/ UpsertOrderIntent(h) \/ CreateOrderAttempt(h) \/ ReviewRisk(h)
         \/ FinalizeRiskRejectedAttempt(h)
  PROVE  FailInv'
<1> USE DEF tables
<1> DEFINE a == hs[h].a
<1>1. /\ hs[h].pc \in BeforeSend
      /\ hs[h].pc # "idle"
      /\ a \in Attempts
      /\ UNCHANGED <<ex, issued>>
  <2>1. hs[h].pc \in BeforeSend /\ hs[h].pc # "idle"
    BY DEF UpsertOrderIntent, CreateOrderAttempt, ReviewRisk, FinalizeRiskRejectedAttempt, BeforeSend
  <2>2. UNCHANGED <<ex, issued>>
    BY DEF UpsertOrderIntent, CreateOrderAttempt, ReviewRisk, FinalizeRiskRejectedAttempt
  <2> QED BY <2>1, <2>2, BusyType
<1>2. Forsaken(h) BY <1>1, SenderForsakes
<1>3. /\ {"create", "contract_create", "risk", "send", "reject"} \subseteq PCs
      /\ {"PENDING", "FAILED", "RISK_REJECTED"} \subseteq AttemptStatuses
      /\ "failed" \in NoteClasses
  BY DEF PCs, PlacePCs, AttemptStatuses, NoteClasses
\* The handler gives up: what it stores and tells is of a forsaken attempt.
<1>4. ASSUME Goto(h, "idle"),
             status' = status \/ \E st \in AttemptStatuses : status' = [status EXCEPT ![a] = st],
             notes' = notes \/ Notify(h, "failed")
      PROVE  FailInv'
  <2>1. Moves(h, "idle") BY <1>1, <1>4, GotoMoves
  <2>2. ~Failing(h)' BY <2>1 DEF Moves, Idle, Failing
  <2>3. notes' = notes \/ notes' = notes \cup {<<a, "failed">>} BY <1>4 DEF Notify
  <2>4. "idle" \notin BeforeSend BY DEF BeforeSend
  <2> QED BY <1>1, <1>2, <1>3, <1>4, <2>1, <2>2, <2>3, <2>4, FailCalm
\* The handler goes on towards its send.
<1>5. ASSUME NEW label \in {"create", "contract_create", "risk", "send", "reject"}, Goto(h, label),
             status' = status \/ status' = [status EXCEPT ![a] = "PENDING"],
             notes' = notes
      PROVE  FailInv'
  <2>1. Moves(h, label) BY <1>1, <1>3, <1>5, GotoMoves
  <2>2. /\ \A g \in Handlers : g # h => hs'[g] = hs[g]
        /\ hs'[h].pc = label
        /\ hs'[h].a = a
    BY <2>1 DEF Moves
  <2>3. SenderAlone'
    BY <1>1, <2>2 DEF SenderAlone, FailInv
  <2>4. \A g \in Handlers : Failing(g)' => Failing(g) /\ hs'[g].a = hs[g].a
    BY <2>2 DEF Failing
  <2>5. \A g \in Handlers : hs'[g].pc \in BeforeSend => hs[g].pc \in BeforeSend /\ hs'[g].a = hs[g].a
    BY <1>1, <2>2
  <2>6. \A b \in Attempts : status'[b] \in {"FAILED", "RISK_REJECTED"} => status[b] \in {"FAILED", "RISK_REJECTED"}
    BY <1>1, <1>5 DEF TypeOK
  <2> QED BY <1>1, <1>5, <2>3, <2>4, <2>5, <2>6, FailQuiet
<1>6. CASE UpsertOrderIntent(h)
  <2>1. status' = status /\ notes' = notes BY <1>6 DEF UpsertOrderIntent
  <2>2. Goto(h, "idle") \/ Goto(h, "create") \/ Goto(h, "contract_create") BY <1>6 DEF UpsertOrderIntent
  <2> QED BY <1>4, <1>5, <2>1, <2>2
<1>7. CASE CreateOrderAttempt(h)
  <2>1. PICK o \in Outcomes(h) :
          /\ status' = IF o = "fail" THEN status
                       ELSE [status EXCEPT ![a] = IF hs[h].pc = "create" THEN "PENDING" ELSE "FAILED"]
          /\ IF o = "ok" /\ hs[h].pc = "contract_create" THEN Notify(h, "failed") ELSE notes' = notes
          /\ Goto(h, IF o = "ok" /\ hs[h].pc = "create" THEN "risk" ELSE "idle")
    BY <1>7 DEF CreateOrderAttempt
  <2>2. CASE o = "ok" /\ hs[h].pc = "create"
    BY <1>5, <2>1, <2>2
  <2>3. CASE ~(o = "ok" /\ hs[h].pc = "create")
    BY <1>3, <1>4, <2>1, <2>3
  <2> QED BY <2>2, <2>3
<1>8. CASE ReviewRisk(h)
  <2>1. Goto(h, "send") \/ Goto(h, "reject") BY <1>8 DEF ReviewRisk
  <2> QED BY <1>5, <1>8, <2>1 DEF ReviewRisk
<1>9. CASE FinalizeRiskRejectedAttempt(h)
  <2>1. /\ status' = status \/ status' = [status EXCEPT ![a] = "RISK_REJECTED"]
        /\ notes' = notes \/ Notify(h, "failed")
        /\ Goto(h, "idle")
    BY <1>9 DEF FinalizeRiskRejectedAttempt
  <2> QED BY <1>3, <1>4, <2>1
<1> QED BY <1>6, <1>7, <1>8, <1>9

\* A request that leaves belongs to an attempt that was not written off.
LEMMA FailSend ==
  ASSUME TypeOK, ControlInv, FailInv, NEW h \in Handlers, SendOrder(h)
  PROVE  FailInv'
<1> USE DEF tables
<1>1. /\ hs[h].pc = "send"
      /\ hs[h].a \in Attempts
      /\ UNCHANGED <<status, notes, issued>>
      /\ \A b \in Attempts : b # hs[h].a => ex'[b] = ex[b]
  BY BusyType DEF SendOrder, TypeOK
<1>2. Moves(h, "await") BY GotoMoves DEF SendOrder, PCs, PlacePCs
<1>3. /\ \A g \in Handlers : g # h => hs'[g] = hs[g]
      /\ hs'[h].pc = "await"
      /\ hs'[h].a = hs[h].a
  BY <1>2 DEF Moves
<1>4. ~WrittenOff(hs[h].a) BY <1>1 DEF WrittenOff, NobodySends, BeforeSend
<1>5. \A b \in Attempts : WrittenOff(b) => ex'[b].st = ex[b].st BY <1>1, <1>4
<1>6. \A g \in Handlers : hs'[g].pc \in BeforeSend => hs'[g] = hs[g] BY <1>3 DEF BeforeSend
<1>7. \A g \in Handlers : Failing(g)' => Failing(g) /\ hs'[g].a = hs[g].a BY <1>3 DEF Failing
<1>8. SenderAlone' BY <1>1, <1>3 DEF SenderAlone, FailInv, BeforeSend
<1> QED BY <1>1, <1>5, <1>6, <1>7, <1>8, FailQuiet

\* From the send on a handler stores a failure only of an attempt that is forsaken.
LEMMA FailAnswer ==
  ASSUME TypeOK, ControlInv, FailInv, Hazards = {}, NEW h \in Handlers,
         \/ ExecuteLocally(h) \/ ReplyFailure(h) \/ ResolveAbsent(h)
         \/ FinalizeFailed(h) \/ SettleAbsent(h)
  PROVE  FailInv'
<1> USE DEF tables
<1>1. /\ hs[h].pc # "idle"
      /\ hs[h].a \in Attempts
      /\ UNCHANGED <<ex, issued>>
  BY BusyType DEF ExecuteLocally, ReplyFailure, ResolveAbsent, FinalizeFailed, SettleAbsent
<1>2. /\ {"unknown", "finalize", "settle"} \subseteq PCs
      /\ BeforeSend \cap {"unknown", "finalize", "settle", "idle"} = {}
      /\ "FAILED" \in AttemptStatuses
      /\ "failed" \in NoteClasses
  BY DEF PCs, PlacePCs, ResolvePCs, BeforeSend, AttemptStatuses, NoteClasses
\* Who is alone with an attempt that is nowhere, may fail it.
<1>3. ASSUME hs[h].pc \notin BeforeSend, ex[hs[h].a].st \in Nowhere
      PROVE  Forsaken(h)
  BY <1>1, <1>3 DEF FailInv, SenderAlone, Forsaken
<1>4. CASE ExecuteLocally(h)
  <2>1. status' = status /\ notes' = notes BY <1>4 DEF ExecuteLocally
  <2>2. Forsaken(h) BY <1>4, SenderForsakes DEF ExecuteLocally, BeforeSend
  <2>3. Moves(h, "unknown") \/ Moves(h, "finalize")
    BY <1>1, <1>2, <1>4, PlainType, GotoMoves, GotoWithMoves DEF ExecuteLocally
  <2> QED BY <1>1, <1>2, <2>1, <2>2, <2>3, FailCalm
<1>5. CASE ReplyFailure(h)
  <2>1. status' = status /\ notes' = notes BY <1>5 DEF ReplyFailure
  <2>2. hs[h].pc \notin BeforeSend /\ ex[hs[h].a].st = "refused" BY <1>5 DEF ReplyFailure, BeforeSend
  <2>3. Forsaken(h) BY <1>3, <2>2 DEF Nowhere
  <2>4. Moves(h, "finalize")
    BY <1>1, <1>2, <1>5, PlainType, GotoWithMoves DEF ReplyFailure
  <2> QED BY <1>1, <1>2, <2>1, <2>3, <2>4, FailCalm
<1>6. CASE ResolveAbsent(h)
  <2>1. status' = status /\ notes' = notes BY <1>6 DEF ResolveAbsent
  <2>2. hs[h].pc \notin BeforeSend BY <1>6 DEF ResolveAbsent, BeforeSend
  <2>3. ex[hs[h].a].st \in Nowhere
    BY <1>1, <1>6 DEF ResolveAbsent, Known, TypeOK, ExchangeStates, Nowhere
  <2>4. Forsaken(h) BY <1>3, <2>2, <2>3
  <2>5. Moves(h, "settle")
    BY <1>1, <1>2, <1>6, PlainType, GotoWithMoves DEF ResolveAbsent
  <2> QED BY <1>1, <1>2, <2>1, <2>4, <2>5, FailCalm
<1>7. CASE FinalizeFailed(h) \/ SettleAbsent(h)
  <2>1. Failing(h) BY <1>7 DEF FinalizeFailed, SettleAbsent, Failing
  <2>2. WrittenOff(hs[h].a) BY <2>1 DEF FailInv, FailingIsOff
  <2>3. Forsaken(h) BY <2>2 DEF WrittenOff, NobodySends, Forsaken
  <2>4. Goto(h, "idle") BY <1>7 DEF FinalizeFailed, SettleAbsent
  <2>5. Moves(h, "idle") BY <1>1, <2>4, GotoMoves
  <2>6. status' = status \/ status' = [status EXCEPT ![hs[h].a] = "FAILED"]
    BY <1>7 DEF FinalizeFailed, SettleAbsent, FinalizeAttempt
  <2>7. notes' = notes \/ notes' = notes \cup {<<hs[h].a, "failed">>}
    BY <1>7 DEF FinalizeFailed, SettleAbsent, Notify
  <2> QED BY <1>1, <1>2, <2>3, <2>5, <2>6, <2>7, FailCalm
<1> QED BY <1>4, <1>5, <1>6, <1>7

\* All other work on an answer stores and tells no failure.
LEMMA FailProgress ==
  ASSUME TypeOK, ControlInv, FailInv, NEW h \in Handlers,
         \/ ReplyOrder(h) \/ ReplyLost(h) \/ RecordUnknown(h) \/ FinalizeExecution(h)
         \/ MarkRecovering(h) \/ ResolveFound(h) \/ ResolveError(h)
         \/ SettleError(h) \/ SettleFound(h) \/ EmitLifecycleEvents(h)
  PROVE  FailInv'
<1> USE DEF tables
<1> DEFINE Labels == {"unknown", "mark", "query", "emit_accepted", "emit_recovered", "idle"}
<1>1. hs[h].pc # "idle" /\ hs[h].a \in Attempts
  BY BusyType
  DEF ReplyOrder, ReplyLost, RecordUnknown, FinalizeExecution, MarkRecovering, ResolveFound,
      ResolveError, SettleError, SettleFound, EmitLifecycleEvents
<1>2. /\ Labels \subseteq PCs \cup {"idle"}
      /\ {"finalize", "settle"} \subseteq PCs
      /\ BeforeSend \cap (Labels \cup {"finalize", "settle"}) = {}
  BY DEF PCs, PlacePCs, ResolvePCs, EmitPCs, BeforeSend
<1>3. UNCHANGED <<ex, issued>>
  BY ZenonT(30)
  DEF ReplyOrder, ReplyLost, RecordUnknown, FinalizeExecution, MarkRecovering, ResolveFound,
      ResolveError, SettleError, SettleFound, EmitLifecycleEvents
<1>4. \/ status' = status
      \/ \E st \in AttemptStatuses \ {"FAILED", "RISK_REJECTED"} : status' = [status EXCEPT ![hs[h].a] = st]
  BY ZenonT(60)
  DEF ReplyOrder, ReplyLost, RecordUnknown, FinalizeExecution, MarkRecovering, ResolveFound,
      ResolveError, SettleError, SettleFound, EmitLifecycleEvents, FinalizeAttempt,
      FinalizeWithOrder, AttemptStatuses
<1>5. \/ notes' = notes
      \/ \E class \in NoteClasses \ {"failed"} : notes' = notes \cup {<<hs[h].a, class>>}
  BY ZenonT(60)
  DEF ReplyOrder, ReplyLost, RecordUnknown, FinalizeExecution, MarkRecovering, ResolveFound,
      ResolveError, SettleError, SettleFound, EmitLifecycleEvents, Notify, NoteClasses
<1>6. \E label : label \notin BeforeSend /\ Moves(h, label) /\ ~Failing(h)'
  <2>1. ASSUME NEW label \in Labels, Goto(h, label) PROVE Moves(h, label) /\ ~Failing(h)'
    <3>1. Moves(h, label) BY <1>1, <1>2, <2>1, GotoMoves
    <3> QED BY <3>1 DEF Moves, Failing
  <2>2. ASSUME NEW label \in {"finalize", "settle"}, NEW r \in Results,
               r.kind \notin {"failed", "absent"}, GotoWith(h, label, r)
        PROVE  Moves(h, label) /\ ~Failing(h)'
    <3>1. Moves(h, label) /\ hs'[h].res = r BY <1>1, <1>2, <2>2, GotoWithMoves
    <3> QED BY <2>2, <3>1 DEF Failing
  <2>3. CASE ReplyOrder(h)
    BY <1>2, <2>2, <2>3, ReplyResult
  <2>4. CASE ResolveFound(h)
    <3>1. ex[hs[h].a].n \in 0..Qty /\ ex[hs[h].a].st \in OrderStatuses /\ 0 \in 0..Qty
      BY <1>1, <2>4, ConstantsAssumption DEF ResolveFound, TypeOK, ExchangeStates, Known
    <3>2. PICK r \in Results : r.kind \in {"order", "pending"} /\ GotoWith(h, "settle", r)
      BY <2>4, <3>1, OrderResultType DEF ResolveFound
    <3> QED BY <1>2, <2>2, <3>2
  <2>5. CASE ResolveError(h)
    <3>1. GotoWith(h, "settle", Plain("error")) /\ Plain("error").kind = "error"
      BY <2>5 DEF ResolveError, Plain
    <3> QED BY <1>2, <2>2, <3>1, PlainType
  <2>6. CASE \/ ReplyLost(h) \/ RecordUnknown(h) \/ FinalizeExecution(h) \/ MarkRecovering(h)
             \/ SettleError(h) \/ SettleFound(h) \/ EmitLifecycleEvents(h)
    <3>1. \E label \in Labels : Goto(h, label)
      <4>1. CASE ReplyLost(h) \/ RecordUnknown(h) \/ MarkRecovering(h)
        BY <4>1 DEF ReplyLost, RecordUnknown, MarkRecovering
      <4>2. CASE FinalizeExecution(h) \/ SettleError(h)
        BY <4>2 DEF FinalizeExecution, SettleError
      <4>3. CASE SettleFound(h) \/ EmitLifecycleEvents(h)
        BY <4>3 DEF SettleFound, EmitLifecycleEvents
      <4> QED BY <2>6, <4>1, <4>2, <4>3
    <3> QED BY <1>2, <2>1, <3>1
  <2> QED BY <2>3, <2>4, <2>5, <2>6
<1> QED BY <1>1, <1>3, <1>4, <1>5, <1>6, FailCalm

\* What happens at the exchange, and in the background, brings nothing back that is nowhere.
LEMMA FailUndisturbed ==
  ASSUME TypeOK, FailInv, UNCHANGED <<status, notes, issued>>,
         \A b \in Attempts : ex[b].st \in Nowhere => ex'[b].st = ex[b].st,
         \A g \in Handlers : hs'[g].pc = "idle" \/ (/\ hs'[g].pc = hs[g].pc
                                                     /\ hs'[g].a = hs[g].a
                                                     /\ hs'[g].res = hs[g].res)
  PROVE  FailInv'
<1>1. \A b \in Attempts : WrittenOff(b) => WrittenOff(b)'
  BY DEF WrittenOff, NobodySends, BeforeSend
<1>2. FailedIsOff' /\ AnnouncedIsOff' BY <1>1 DEF FailInv, FailedIsOff, AnnouncedIsOff
<1>3. FailingIsOff'
  <2> SUFFICES ASSUME NEW g \in Handlers, Failing(g)' PROVE WrittenOff(hs[g].a)'
    BY DEF FailingIsOff
  <2>1. Failing(g) /\ hs'[g].a = hs[g].a BY DEF Failing
  <2>2. hs[g].a \in Attempts BY <2>1, BusyType DEF Failing
  <2> QED BY <1>1, <2>1, <2>2 DEF FailInv, FailingIsOff
<1>4. SenderAlone'
  <2> SUFFICES ASSUME NEW g \in Handlers, NEW h \in Handlers,
                      hs'[g].pc \in BeforeSend, hs'[h].pc # "idle", hs'[g].a = hs'[h].a
               PROVE  g = h
    BY DEF SenderAlone
  <2>1. hs'[g].pc # "idle" BY DEF BeforeSend
  <2>2. hs[g].pc \in BeforeSend /\ hs[h].pc # "idle" /\ hs[g].a = hs[h].a BY <2>1
  <2> QED BY <2>2 DEF FailInv, SenderAlone
<1> QED BY <1>2, <1>3, <1>4 DEF FailInv

\* Without hazards every step keeps FailInv.
LEMMA FailStep ==
  ASSUME TypeOK, ControlInv, FailInv, Hazards = {}, [Next]_vars
  PROVE  FailInv'
<1>1. ASSUME NEW h \in Handlers, NEW a \in Attempts, BeginPlace(h, a) \/ BeginResolve(h, a)
      PROVE  FailInv'
  BY <1>1, FailBegin
<1>2. ASSUME NEW h \in Handlers, HandlerStep(h) PROVE FailInv'
  BY <1>2, FailPlace, FailSend, FailAnswer, FailProgress DEF HandlerStep
<1>3. ASSUME NEW a \in Attempts, ExchangeStep(a) PROVE FailInv'
  <2>1. UNCHANGED <<status, notes, issued, hs>>
    BY <1>3 DEF ExchangeStep, ExchangeDecides, ExchangeTrades, ExchangeCancels, tables
  <2>2. \A b \in Attempts : ex[b].st \in Nowhere => ex'[b].st = ex[b].st
    BY <1>3 DEF ExchangeStep, ExchangeDecides, ExchangeTrades, ExchangeCancels, OpenStatuses, Nowhere, TypeOK
  <2> QED BY <2>1, <2>2, FailUndisturbed
<1>4. ASSUME NEW h \in Handlers, CancelContext(h) PROVE FailInv'
  <2>1. \A g \in Handlers : hs'[g].pc = hs[g].pc /\ hs'[g].a = hs[g].a /\ hs'[g].res = hs[g].res
    BY <1>4, BusyType DEF CancelContext, TypeOK, BusyHandler
  <2> QED BY <1>4, <2>1, FailUndisturbed DEF CancelContext, tables
<1>5. CASE Crash
  <2>1. \A g \in Handlers : hs'[g].pc = "idle" BY <1>5 DEF Crash, Idle
  <2> QED BY <1>5, <2>1, FailUndisturbed DEF Crash, tables
<1>6. CASE UNCHANGED vars
  BY <1>6, FailUndisturbed DEF vars, tables
<1> QED BY <1>1, <1>2, <1>3, <1>4, <1>5, <1>6 DEF Next

\* Initially nothing has failed.
LEMMA FailInit == Init => FailInv
  BY DEF Init, Idle, FailInv, FailedIsOff, AnnouncedIsOff, FailingIsOff, SenderAlone, Failing, BeforeSend

\* Without hazards no attempt that is stored or announced as failed has an order at the
\* exchange, or one that may still arrive there.
THEOREM FailedNeverLiveHolds == Hazards = {} => (Spec => []FailedNeverLive)
<1> SUFFICES ASSUME Hazards = {} PROVE Spec => []FailedNeverLive
  OBVIOUS
<1> DEFINE FInv == TypeOK /\ ControlInv /\ FailInv
<1>1. Init => FInv BY TypeInit, ControlInit, FailInit
<1>2. FInv /\ [Next]_vars => FInv' BY TypeStep, ControlStep, FailStep
<1>3. FInv => FailedNeverLive
  BY DEF FailInv, FailedIsOff, AnnouncedIsOff, WrittenOff, Nowhere, FailedNeverLive
<1> QED BY <1>1, <1>2, <1>3, PTL DEF Spec

-----------------------------------------------------------------------------
(* The service with the recovery scanner and the ingestor.                 *)

\* The background actors keep their types.
RTypeOK ==
  /\ scan \in ScanStates
  /\ ws \in (Attempts \X (0..Qty)) \cup {NoMessage}
  /\ terms \subseteq Attempts

Over(a) == Known(a) /\ isTerminal(ex[a].st)

\* What was read of an order: no more than the exchange shows by now, and the last word
\* if it says the order is over.
Shown(a, st, n) ==
  /\ n <= ex[a].n
  /\ isTerminal(st) => ex[a].st = st /\ ex[a].n = n

\* The orders listed have rows, and a scan past the listing is at one of them.
ScanListed ==
  /\ \A a \in scan.todo : HasRow(a)
  /\ scan.pc \notin {"idle", "loop"} => scan.a \in Attempts /\ HasRow(scan.a)

\* A visit goes by what the exchange showed, and one that reads trades expects some.
ScanShown ==
  /\ scan.pc \in {"trades", "write", "close"} => Shown(scan.a, scan.st, scan.n)
  /\ scan.pc \in {"trades", "write"} => scan.n > 0
  /\ scan.pc = "close" => isTerminal(scan.st)

\* The next trade to write is one that happened; the visit goes on to all the order was
\* read with.
ScanWriting ==
  /\ scan.pc \in {"write", "force_write"} => 1 <= scan.t /\ scan.t <= scan.m /\ scan.m <= ex[scan.a].n
  /\ scan.pc = "write" => scan.n <= scan.m

\* The fills before the next trade are stored, all of them when a filled order is closed.
ScanStored ==
  /\ scan.pc = "write" => \A t \in 1..Qty : t < scan.t => fills[<<scan.a, t>>] > 0
  /\ scan.pc = "close" /\ scan.st = "FILLED" => \A t \in 1..Qty : fills[<<scan.a, t>>] > 0

\* A force close that was not given up is about an order that is over, unless the cancel
\* was confirmed for an order nobody can read (whose force close ends there).
ScanForced ==
    \/ scan.pc \in {"force_trades", "force_write", "force_close"}
    \/ scan.pc = "force_query" /\ ~scan.err /\ Readable(scan.a)
  => isTerminal(ex[scan.a].st)

ScanInv == ScanListed /\ ScanShown /\ ScanWriting /\ ScanStored /\ ScanForced

MessageInv == ws # NoMessage => Known(ws[1]) /\ ws[2] <= ex[ws[1]].n

\* What handlers, scanner and ingestor keep between them.
BaseInv == TypeOK /\ ControlInv /\ LedgerInv
RInv == BaseInv /\ RTypeOK /\ ScanInv /\ MessageInv /\ ClosedFilledIsComplete /\ CloseIsAnnounced

-----------------------------------------------------------------------------
(* How the actors of the order system can act on each other's state. *)

\* What no step of anybody undoes: rows stay, fills stay, the exchange takes no trade
\* back and revives no order.
Onward ==
  /\ \A b \in Attempts : HasRow(b) => HasRow(b)'
  /\ \A k \in Trades : fills[k] > 0 => fills'[k] > 0
  /\ \A b \in Attempts : /\ Known(b) => Known(b)'
                         /\ ex[b].n <= ex'[b].n
                         /\ Known(b) /\ ex[b].st \notin OpenStatuses => ex'[b] = ex[b]

\* A row stays, or is written from a result that is backed, together with its fills.
StoresBacked(a) ==
  \/ orders'[a] = orders[a]
  \/ \E r \in Results : /\ Backed(a, r)
                        /\ r.kind \in {"order", "pending"}
                        /\ orders'[a] = buildPersistedExecution(r)
                        /\ \A t \in 1..Qty : t <= r.m => fills'[<<a, t>>] > 0

\* A handler writes nothing but, perhaps, the status of its attempt.
Quiet(a) ==
  /\ UNCHANGED <<orders, fills, events, ex>>
  /\ \/ status' = status
     \/ \E st \in AttemptStatuses \ {"absent"} : status' = [status EXCEPT ![a] = st]

\* A handler stores the order it read.
Stores(h) ==
  /\ hs[h].pc # "idle"
  /\ hs[h].res.kind \in {"order", "pending"}
  /\ \E st \in AttemptStatuses \ {"absent"} : FinalizeWithOrder(hs[h].a, st, hs[h].res)
  /\ ex' = ex

\* The five ways a step of the order service can touch what the others read.
LEMMA ServiceCases ==
  ASSUME TypeOK, ServiceNext
  PROVE  \/ \E a \in Attempts : Quiet(a)
         \/ \E h \in Handlers : SendOrder(h)
         \/ \E a \in Attempts : ExchangeStep(a)
         \/ \E h \in Handlers : Stores(h)
         \/ \E h \in Handlers : EmitLifecycleEvents(h)
<1> USE DEF tables
<1>1. ASSUME NEW h \in Handlers, NEW a \in Attempts, BeginPlace(h, a) \/ BeginResolve(h, a)
      PROVE  Quiet(a)
  BY <1>1 DEF BeginPlace, BeginResolve, Quiet
<1>2. ASSUME NEW h \in Handlers,
             \/ UpsertOrderIntent(h) \/ CreateOrderAttempt(h) \/ ReviewRisk(h)
             \/ FinalizeRiskRejectedAttempt(h)
             \/ ExecuteLocally(h) \/ ReplyOrder(h) \/ ReplyFailure(h) \/ ReplyLost(h)
             \/ RecordUnknown(h) \/ FinalizeFailed(h)
             \/ MarkRecovering(h) \/ ResolveFound(h) \/ ResolveAbsent(h) \/ ResolveError(h)
             \/ SettleAbsent(h) \/ SettleError(h) \/ CancelContext(h)
      PROVE  hs[h].a \in Attempts /\ Quiet(hs[h].a)
  <2>1. hs[h].a \in Attempts
    <3>1. CASE CancelContext(h) BY <3>1, BusyType DEF CancelContext
    <3>2. CASE ~CancelContext(h) BY <1>2, <3>2, StepIsBusy DEF HandlerStep
    <3> QED BY <3>1, <3>2
  <2>2. Quiet(hs[h].a)
    BY <1>2, ZenonT(60)
    DEF UpsertOrderIntent, CreateOrderAttempt, ReviewRisk, FinalizeRiskRejectedAttempt,
        ExecuteLocally, ReplyOrder, ReplyFailure, ReplyLost, RecordUnknown, FinalizeFailed,
        MarkRecovering, ResolveFound, ResolveAbsent, ResolveError, SettleAbsent, SettleError,
        CancelContext, FinalizeAttempt, Quiet, AttemptStatuses
  <2> QED BY <2>1, <2>2
<1>3. ASSUME NEW h \in Handlers, FinalizeExecution(h) \/ SettleFound(h)
      PROVE  Stores(h) \/ (hs[h].a \in Attempts /\ Quiet(hs[h].a))
  <2>1. hs[h].pc # "idle" /\ hs[h].a \in Attempts
    BY <1>3, BusyType DEF FinalizeExecution, SettleFound
  <2>2. {"RECOVERING", "ACCEPTED", "RECOVERED"} \subseteq AttemptStatuses \ {"absent"}
    BY DEF AttemptStatuses
  <2> QED BY <1>3, <2>1, <2>2, ZenonT(30) DEF FinalizeExecution, SettleFound, Stores, Quiet
<1> QED BY <1>1, <1>2, <1>3 DEF ServiceNext, HandlerStep

\* Storing a backed result writes its row and its fills.
LEMMA StoresOnward ==
  ASSUME TypeOK, LedgerInv, NEW h \in Handlers, Stores(h)
  PROVE  /\ Onward
         /\ \A b \in Attempts : StoresBacked(b)
         /\ hs[h].a \in Attempts
         /\ Backed(hs[h].a, hs[h].res)
         /\ hs[h].res \in Results
         /\ \A b \in Attempts : b # hs[h].a => orders'[b] = orders[b]
         /\ orders'[hs[h].a] = buildPersistedExecution(hs[h].res)
         /\ \A k \in Trades : fills'[k] > 0 <=> fills[k] > 0 \/ (k[1] = hs[h].a /\ k[2] <= hs[h].res.m)
  <1> DEFINE a == hs[h].a
             r == hs[h].res
  <1>1. a \in Attempts /\ r \in Results BY BusyType DEF Stores
  <1>2. Backed(a, r) BY DEF LedgerInv, ResultBacked, Stores
  <1>3. PICK st \in AttemptStatuses : FinalizeWithOrder(a, st, r) BY DEF Stores
  <1>4. /\ orders'[a] = buildPersistedExecution(r)
        /\ \A b \in Attempts : b # a => orders'[b] = orders[b]
    BY <1>1, <1>3 DEF FinalizeWithOrder, TypeOK
  <1>5. buildPersistedExecution(r) # NoRow
    BY <1>1 DEF buildPersistedExecution, NoRow, Results, OrderStatuses
  <1>6. \A k \in Trades : fills'[k] > 0 <=> fills[k] > 0 \/ (k[1] = a /\ k[2] <= r.m)
    BY <1>3 DEF FinalizeWithOrder, AddFills, TypeOK
  <1>7. \A b \in Attempts : ex[b].n <= ex'[b].n
    BY ConstantsAssumption DEF Stores, TypeOK, ExchangeStates
  <1>8. Onward BY <1>4, <1>5, <1>6, <1>7 DEF Onward, HasRow, Known, Stores
  <1>9. \A t \in 1..Qty : t <= r.m => fills'[<<a, t>>] > 0
    BY <1>1, <1>6 DEF Trades
  <1>10. \A b \in Attempts : StoresBacked(b)
    BY <1>1, <1>2, <1>4, <1>9 DEF StoresBacked, Stores
  <1> QED BY <1>1, <1>2, <1>4, <1>6, <1>8, <1>10

\* Every step of the order service leaves the background actors what they have read.
LEMMA ServiceOnward ==
  ASSUME BaseInv, ServiceNext
  PROVE  Onward /\ \A b \in Attempts : StoresBacked(b)
<1> USE DEF BaseInv, tables
<1>1. \A b \in Attempts : ex[b].n \in Nat BY ConstantsAssumption DEF TypeOK, ExchangeStates
<1>2. ASSUME NEW a \in Attempts, Quiet(a) PROVE Onward /\ \A b \in Attempts : StoresBacked(b)
  BY <1>1, <1>2 DEF Quiet, Onward, HasRow, Known, StoresBacked
<1>3. ASSUME NEW h \in Handlers, SendOrder(h) PROVE Onward /\ \A b \in Attempts : StoresBacked(b)
  <2>1. hs[h].a \in Attempts /\ ex[hs[h].a].st = "none" /\ ex[hs[h].a].n = 0
    BY <1>3, BusyType
    DEF SendOrder, ControlInv, NotYetSent, NoOrderNoTrades, BeforeSend, Known, OrderStatuses
  <2>2. /\ ex'[hs[h].a].n = 0
        /\ \A b \in Attempts : b # hs[h].a => ex'[b] = ex[b]
        /\ UNCHANGED <<orders, fills>>
    BY <1>3, <2>1 DEF SendOrder, TypeOK
  <2>3. ~Known(hs[h].a) BY <2>1 DEF Known, OrderStatuses
  <2>4. \A b \in Attempts : ex[b].n <= ex'[b].n BY <1>1, <2>1, <2>2
  <2>5. \A b \in Attempts : Known(b) => ex'[b] = ex[b] BY <2>2, <2>3
  <2> QED BY <2>2, <2>4, <2>5 DEF Onward, HasRow, Known, StoresBacked
<1>4. ASSUME NEW a \in Attempts, ExchangeStep(a) PROVE Onward /\ \A b \in Attempts : StoresBacked(b)
  <2>1. UNCHANGED <<orders, fills>>
    BY <1>4 DEF ExchangeStep, ExchangeDecides, ExchangeTrades, ExchangeCancels
  <2>2. \A b \in Attempts : Later(b) BY <1>4, ExchangeMonotone
  <2> QED BY <2>1, <2>2 DEF Onward, Later, HasRow, StoresBacked
<1>5. ASSUME NEW h \in Handlers, Stores(h) PROVE Onward /\ \A b \in Attempts : StoresBacked(b)
  BY <1>5, StoresOnward
<1>6. ASSUME NEW h \in Handlers, EmitLifecycleEvents(h) PROVE Onward /\ \A b \in Attempts : StoresBacked(b)
  BY <1>1, <1>6 DEF EmitLifecycleEvents, Onward, HasRow, Known, StoresBacked
<1> QED BY <1>2, <1>3, <1>4, <1>5, <1>6, ServiceCases

\* What the scanner has read and written stays true, whatever the others do.
LEMMA ScanKept ==
  ASSUME BaseInv, TypeOK', RTypeOK, ScanInv, Onward, scan' = scan
  PROVE  ScanInv'
<1> USE DEF ScanInv
<1>1. /\ scan.todo \subseteq Attempts
      /\ scan.n \in 0..Qty /\ scan.m \in 0..Qty /\ scan.t \in 0..Qty /\ Qty \in Nat
  BY ConstantsAssumption DEF RTypeOK, ScanStates
<1>2. ScanListed' BY <1>1 DEF ScanListed, Onward
<1>3. ASSUME scan.pc \notin {"idle", "loop"}
      PROVE  /\ scan.a \in Attempts
             /\ ex[scan.a].n \in Nat /\ ex'[scan.a].n \in Nat
             /\ ex[scan.a].n <= ex'[scan.a].n
             /\ isTerminal(ex[scan.a].st) => ex'[scan.a] = ex[scan.a]
  <2>1. scan.a \in Attempts /\ HasRow(scan.a) BY <1>3 DEF ScanListed
  <2>2. Known(scan.a) BY <2>1 DEF BaseInv, LedgerInv, LedgerBacked
  <2> QED BY <2>1, <2>2, ConstantsAssumption DEF Onward, isTerminal, OpenStatuses, BaseInv, TypeOK, ExchangeStates
<1>4. ScanShown'
  <2>1. ASSUME scan.pc \in {"trades", "write", "close"} PROVE Shown(scan.a, scan.st, scan.n)'
    BY <1>1, <1>3, <2>1 DEF ScanShown, Shown
  <2> QED BY <2>1 DEF ScanShown
<1>5. ScanWriting'
  <2>1. ASSUME scan.pc \in {"write", "force_write"} PROVE scan.m <= ex'[scan.a].n
    BY <1>1, <1>3, <2>1 DEF ScanWriting
  <2> QED BY <2>1 DEF ScanWriting
<1>6. ScanStored'
  <2>1. scan.pc \in {"write", "close"} => \A t \in 1..Qty : <<scan.a, t>> \in Trades
    BY <1>3 DEF Trades
  <2> QED BY <2>1 DEF ScanStored, Onward
<1>7. ScanForced' BY <1>3 DEF ScanForced
<1> QED BY <1>2, <1>4, <1>5, <1>6, <1>7

\* The message at hand stays true as well.
LEMMA MessageKept ==
  ASSUME BaseInv, TypeOK', RTypeOK, MessageInv, Onward, ws' = ws
  PROVE  MessageInv'
<1> SUFFICES ASSUME ws # NoMessage PROVE Known(ws[1])' /\ ws[2] <= ex'[ws[1]].n
  BY DEF MessageInv
<1>1. ws[1] \in Attempts /\ ws[2] \in Nat BY ConstantsAssumption DEF RTypeOK
<1>2. ex[ws[1]].n \in Nat /\ ex'[ws[1]].n \in Nat
  BY <1>1, ConstantsAssumption DEF BaseInv, TypeOK, ExchangeStates
<1> QED BY <1>1, <1>2 DEF MessageInv, Onward

\* A row a handler writes is on the list, or is complete.
LEMMA RowsKept ==
  ASSUME BaseInv, TypeOK', ClosedFilledIsComplete, CloseIsAnnounced, Onward,
         \A b \in Attempts : StoresBacked(b), terms' = terms
  PROVE  ClosedFilledIsComplete' /\ CloseIsAnnounced'
<1> SUFFICES ASSUME NEW a \in Attempts
             PROVE  /\ HasRow(a)' /\ ~Tracked(a)' /\ orders'[a].st = "FILLED"
                         /\ orders'[a].rec # "RECOVERY_EXPIRED"
                       => \A t \in 1..Qty : fills'[<<a, t>>] > 0
                    /\ orders'[a].rec \in {"FILLED", "CANCELED", "RECOVERY_EXPIRED"} => a \in terms
  BY DEF ClosedFilledIsComplete, CloseIsAnnounced
<1>1. CASE orders'[a] = orders[a]
  <2>1. \A t \in 1..Qty : fills[<<a, t>>] > 0 => fills'[<<a, t>>] > 0 BY DEF Onward, Trades
  <2> QED BY <1>1, <2>1 DEF ClosedFilledIsComplete, CloseIsAnnounced, HasRow, Tracked
<1>2. CASE orders'[a] # orders[a]
  <2>1. PICK r \in Results : /\ Backed(a, r)
                             /\ r.kind \in {"order", "pending"}
                             /\ orders'[a] = buildPersistedExecution(r)
                             /\ \A t \in 1..Qty : t <= r.m => fills'[<<a, t>>] > 0
    BY <1>2 DEF StoresBacked
  <2>2. /\ orders'[a].st = r.st
        /\ orders'[a].rec = recoveryStatusForExecution(r)
    BY <2>1 DEF buildPersistedExecution
  <2>3. orders'[a].rec \notin {"FILLED", "CANCELED", "RECOVERY_EXPIRED"}
    BY <2>2 DEF recoveryStatusForExecution
  <2>4. ASSUME HasRow(a)', ~Tracked(a)', orders'[a].st = "FILLED" PROVE r.m = Qty
    <3>1. r.kind = "order"
      BY <2>1, <2>2, <2>4 DEF recoveryStatusForExecution, Tracked, effectiveRecovery
    <3>2. ex[a].st = "FILLED" /\ ex[a].n = r.n
      BY <2>1, <2>2, <2>4 DEF Backed, OpenStatuses
    <3>3. r.n = Qty BY <3>2 DEF BaseInv, ControlInv, FilledIsWhole
    <3>4. r.n <= r.m /\ r.m \in 0..Qty /\ Qty \in Nat
      BY <2>1, <3>1, ConstantsAssumption DEF Backed, Results
    <3> QED BY <3>3, <3>4
  <2>5. \A t \in 1..Qty : t <= Qty BY ConstantsAssumption
  <2> QED BY <2>1, <2>3, <2>4, <2>5
<1> QED BY <1>1, <1>2

\* The handlers and the exchange keep everything.
LEMMA ServiceStep ==
  ASSUME RInv, ServiceNext
  PROVE  RInv'
<1> USE DEF RInv
<1>1. Next BY DEF ServiceNext, Next
<1>2. BaseInv' BY <1>1, TypeStep, ControlStep, LedgerStep DEF BaseInv
<1>3. Onward /\ \A b \in Attempts : StoresBacked(b) BY ServiceOnward
<1>4. UNCHANGED <<scan, ws, terms>> BY DEF ServiceNext
<1>5. RTypeOK' BY <1>4 DEF RTypeOK
<1>6. ScanInv' /\ MessageInv' BY <1>2, <1>3, <1>4, ScanKept, MessageKept DEF BaseInv
<1>7. ClosedFilledIsComplete' /\ CloseIsAnnounced' BY <1>2, <1>3, <1>4, RowsKept DEF BaseInv
<1> QED BY <1>2, <1>5, <1>6, <1>7

-----------------------------------------------------------------------------
(* The scanner and the ingestor. *)

\* Rows and fills written in the background, within what the exchange shows, keep the
\* invariant of the order service.
LEMMA BaseWrite ==
  ASSUME BaseInv, UNCHANGED <<intents, status, notes, ex, issued, hs>>,
         orders' \in [Attempts -> OrderRow \cup {NoRow}],
         fills' \in [Trades -> 0..2],
         events' \subseteq Trades,
         faults' \in 0..MaxFaults,
         \A b \in Attempts : HasRow(b) => HasRow(b)',
         \A b \in Attempts : HasRow(b)' => HasRow(b) /\ orders'[b].n <= ex[b].n,
         \A k \in Trades : fills'[k] > 0 \/ k \in events' => k[2] <= ex[k[1]].n
  PROVE  BaseInv'
<1> USE DEF BaseInv
<1>1. TypeOK' BY DEF TypeOK
<1>2. ControlInv'
  BY DEF ControlInv, OnlyIssued, NotYetSent, SoleSender, StoredFirst, WriteAhead, AwaitSent,
         NoOrderNoTrades, FilledIsWhole, Known, RejectedStops, RejectedIntentStops, Sole
<1>3. ResultBacked' /\ EmitHasResult'
  BY DEF LedgerInv, ResultBacked, Backed, Known, EmitHasResult
<1>4. EmitAfterCommit'
  <2> SUFFICES ASSUME NEW h \in Handlers, hs[h].pc \in EmitPCs PROVE HasRow(hs[h].a)'
    BY DEF EmitAfterCommit, HasRow
  <2>1. hs[h].a \in Attempts /\ HasRow(hs[h].a) BY BusyType DEF LedgerInv, EmitAfterCommit, EmitPCs
  <2> QED BY <2>1
<1>5. LedgerBacked' BY DEF LedgerInv, LedgerBacked, Known
<1>6. NoticeAfterCommit' BY DEF LedgerInv, NoticeAfterCommit
<1> QED BY <1>1, <1>2, <1>3, <1>4, <1>5, <1>6 DEF LedgerInv

\* A step of the background that only reads, or fails, keeps the base and moves nothing.
LEMMA BaseStill ==
  ASSUME BaseInv, UNCHANGED <<tables, notes, ex, issued, hs>>, faults' \in 0..MaxFaults
  PROVE  BaseInv' /\ Onward
<1> USE DEF tables
<1>1. /\ \A b \in Attempts : HasRow(b)' <=> HasRow(b)
      /\ \A b \in Attempts : HasRow(b) => orders[b].n <= ex[b].n
      /\ \A k \in Trades : fills[k] > 0 \/ k \in events => k[2] <= ex[k[1]].n
  BY DEF HasRow, BaseInv, LedgerInv, LedgerBacked
<1>2. BaseInv' BY <1>1, BaseWrite DEF BaseInv, TypeOK
<1>3. \A b \in Attempts : ex[b].n <= ex'[b].n BY ConstantsAssumption DEF BaseInv, TypeOK, ExchangeStates
<1>4. Onward BY <1>1, <1>3 DEF Onward, Known
<1> QED BY <1>2, <1>4

\* A failing save is charged within the bound on faults.
LEMMA ChargeSaveType ==
  ASSUME TypeOK, NEW o \in SaveOutcomes, ChargeSave(o)
  PROVE  faults' \in 0..MaxFaults
  BY ConstantsAssumption DEF TypeOK, SaveOutcomes, ChargeSave

\* SaveLifecycleEvent of a trade that happened keeps the base, whatever part of it fails.
LEMMA SaveFill ==
  ASSUME BaseInv, NEW a \in Attempts, NEW t \in 1..Qty, t <= ex[a].n,
         NEW o \in SaveOutcomes, ChargeSave(o), SaveFillEvent(a, t, o),
         UNCHANGED <<intents, status, orders, notes, ex, issued, hs>>
  PROVE  /\ BaseInv'
         /\ Onward
         /\ o = "ok" => fills'[<<a, t>>] > 0
         /\ \A k \in Trades : fills'[k] > 0 => fills[k] > 0 \/ k = <<a, t>>
         /\ events' \subseteq events \cup {<<a, t>>}
         /\ events \subseteq events'
<1>1. <<a, t>> \in Trades BY DEF Trades
<1>2. /\ fills' \in [Trades -> 0..2]
      /\ events' \subseteq Trades
      /\ events \subseteq events' /\ events' \subseteq events \cup {<<a, t>>}
      /\ \A k \in Trades : fills[k] > 0 => fills'[k] > 0
      /\ \A k \in Trades : fills'[k] > 0 => fills[k] > 0 \/ k = <<a, t>>
      /\ o = "ok" => fills'[<<a, t>>] > 0
  BY <1>1 DEF BaseInv, TypeOK, SaveFillEvent
<1>3. faults' \in 0..MaxFaults BY ChargeSaveType DEF BaseInv
<1>4. \A k \in Trades : fills'[k] > 0 \/ k \in events' => k[2] <= ex[k[1]].n
  BY <1>2 DEF BaseInv, LedgerInv, LedgerBacked
<1>5. /\ \A b \in Attempts : HasRow(b)' <=> HasRow(b)
      /\ \A b \in Attempts : HasRow(b) => orders[b].n <= ex[b].n
  BY DEF HasRow, BaseInv, LedgerInv, LedgerBacked
<1>6. BaseInv' BY <1>2, <1>3, <1>4, <1>5, BaseWrite DEF BaseInv, TypeOK
<1>7. \A b \in Attempts : ex[b].n <= ex'[b].n BY ConstantsAssumption DEF BaseInv, TypeOK, ExchangeStates
<1>8. Onward BY <1>2, <1>5, <1>7 DEF Onward, Known
<1> QED BY <1>2, <1>6, <1>8

\* A background update of a row keeps the base if the row counts no more than happened.
LEMMA RowWrite ==
  ASSUME BaseInv, NEW a \in Attempts, HasRow(a), NEW row \in OrderRow, row.n <= ex[a].n,
         orders' = [orders EXCEPT ![a] = row], faults' \in 0..MaxFaults,
         UNCHANGED <<intents, status, fills, events, notes, ex, issued, hs>>
  PROVE  BaseInv' /\ Onward
<1>1. row # NoRow
  <2>1. row.st # "absent" BY DEF OrderRow, OrderStatuses
  <2>2. NoRow.st = "absent" BY DEF NoRow
  <2> QED BY <2>1, <2>2
<1>2. /\ orders'[a] = row
      /\ \A b \in Attempts : b # a => orders'[b] = orders[b]
      /\ orders' \in [Attempts -> OrderRow \cup {NoRow}]
  BY DEF BaseInv, TypeOK
<1>3. /\ \A b \in Attempts : HasRow(b)' <=> HasRow(b)
      /\ \A b \in Attempts : HasRow(b) => orders'[b].n <= ex[b].n
  BY <1>1, <1>2 DEF HasRow, BaseInv, LedgerInv, LedgerBacked
<1>4. \A k \in Trades : fills[k] > 0 \/ k \in events => k[2] <= ex[k[1]].n
  BY DEF BaseInv, LedgerInv, LedgerBacked
<1>5. BaseInv' BY <1>2, <1>3, <1>4, BaseWrite DEF BaseInv, TypeOK
<1>6. \A b \in Attempts : ex[b].n <= ex'[b].n BY ConstantsAssumption DEF BaseInv, TypeOK, ExchangeStates
<1>7. Onward BY <1>3, <1>6 DEF Onward, Known
<1> QED BY <1>5, <1>7

\* A scan that is over, or goes on with its next order, holds nothing that could go stale.
LEMMA ScanRests ==
  ASSUME RTypeOK, ScanListed, \A b \in Attempts : HasRow(b) => HasRow(b)',
         scan' = IdleScan \/ (\E a : scan' = NextOrder(a))
  PROVE  scan' \in ScanStates /\ ScanInv'
<1>1. IdleScan \in ScanStates /\ IdleScan.pc = "idle" /\ IdleScan.todo = {}
  BY ConstantsAssumption DEF IdleScan, ScanStates, ScanPCs, OrderStatuses
<1>2. scan.todo \subseteq Attempts /\ scan.late \subseteq Attempts BY DEF RTypeOK, ScanStates
<1>3. /\ scan' \in ScanStates
      /\ scan'.pc \in {"idle", "loop"}
      /\ scan'.todo \subseteq scan.todo
  <2>1. CASE scan' = IdleScan BY <1>1, <2>1
  <2>2. ASSUME NEW a, scan' = [IdleScan EXCEPT !.pc = "loop", !.todo = scan.todo \ {a}, !.late = scan.late \ {a}]
        PROVE  scan' \in ScanStates /\ scan'.pc = "loop" /\ scan'.todo = scan.todo \ {a}
    BY <1>1, <1>2, <2>2 DEF ScanStates, ScanPCs
  <2> QED BY <2>1, <2>2 DEF NextOrder
<1>4. \A b \in scan'.todo : HasRow(b)' BY <1>2, <1>3 DEF ScanListed
<1> QED BY <1>3, <1>4 DEF ScanInv, ScanListed, ScanShown, ScanWriting, ScanStored, ScanForced

\* When the scanner only reads, only its own state is at stake.
LEMMA ScannerReads ==
  ASSUME RInv, UNCHANGED <<tables, notes, ex, issued, hs, ws, terms>>, faults' \in 0..MaxFaults,
         scan' \in ScanStates, ScanInv'
  PROVE  RInv'
<1> USE DEF RInv
<1>1. BaseInv' /\ Onward BY BaseStill
<1>2. RTypeOK' BY DEF RTypeOK
<1>3. MessageInv' BY <1>1, MessageKept DEF BaseInv
<1>4. \A b \in Attempts : StoresBacked(b) BY DEF StoresBacked, tables
<1>5. ClosedFilledIsComplete' /\ CloseIsAnnounced' BY <1>1, <1>4, RowsKept DEF BaseInv
<1> QED BY <1>1, <1>2, <1>3, <1>5

\* ListDueOpenOrders lists rows.
LEMMA ListStep ==
  ASSUME RInv, ListDueOpenOrders
  PROVE  RInv'
<1> DEFINE new == [IdleScan EXCEPT !.pc = "loop",
                                   !.todo = {a \in Attempts : Tracked(a)},
                                   !.late = {a \in Attempts : Tracked(a) /\ orders[a].overdue}]
<1>1. scan' = new /\ UNCHANGED <<vars, ws, terms>> BY DEF ListDueOpenOrders
<1>2. IdleScan \in ScanStates
  BY ConstantsAssumption DEF IdleScan, ScanStates, ScanPCs, OrderStatuses
<1>3. new \in ScanStates /\ new.pc = "loop" /\ new.todo = {a \in Attempts : Tracked(a)}
  BY <1>2 DEF ScanStates, ScanPCs
<1>4. \A a \in new.todo : HasRow(a)' BY <1>1, <1>3 DEF Tracked, HasRow, vars, tables
<1>5. ScanInv'
  BY <1>1, <1>3, <1>4 DEF ScanInv, ScanListed, ScanShown, ScanWriting, ScanStored, ScanForced
<1> HIDE DEF new
<1>6. scan' \in ScanStates BY <1>1, <1>3
<1> QED BY <1>1, <1>5, <1>6, ScannerReads DEF RInv, BaseInv, TypeOK, vars

\* A call that fails ends the scan.
LEMMA FailedCallStep ==
  ASSUME RInv, NEW a, CallFails(a), UNCHANGED <<tables, notes, ex, issued, hs, ws, terms>>
  PROVE  RInv'
<1>1. faults' \in 0..MaxFaults BY ConstantsAssumption DEF RInv, BaseInv, TypeOK, CallFails
<1>2. \A b \in Attempts : HasRow(b) => HasRow(b)' BY DEF HasRow, tables
<1>3. scan' \in ScanStates /\ ScanInv' BY <1>2, ScanRests DEF RInv, ScanInv, CallFails
<1> QED BY <1>1, <1>3, ScannerReads

\* A visit keeps the list and takes what it read of the order.
LEMMA VisitType ==
  ASSUME RTypeOK, NEW label \in ScanPCs, NEW a \in Attempts,
         NEW st \in OrderStatuses, NEW n \in 0..Qty,
         scan' = Visit(label, a, [st |-> st, n |-> n])
  PROVE  /\ scan' \in ScanStates
         /\ scan'.pc = label /\ scan'.a = a /\ scan'.st = st /\ scan'.n = n
         /\ scan'.todo = scan.todo
  BY DEF RTypeOK, Visit, ScanStates

\* An order that has its row can be read at the exchange.
LEMMA QueryType ==
  ASSUME BaseInv, NEW a \in Attempts, HasRow(a)
  PROVE  /\ QueryOrder(a) = [st |-> ex[a].st, n |-> ex[a].n]
         /\ ex[a].st \in OrderStatuses
         /\ ex[a].n \in 0..Qty
  BY DEF BaseInv, LedgerInv, LedgerBacked, Known, TypeOK, ExchangeStates, QueryOrder, spotQueryOrder

\* QueryOrder: the order is visited as it stands, or left for the next scan.
LEMMA ReadsOrderStep ==
  ASSUME RInv, NEW a \in Attempts, ScanReadsOrder(a)
  PROVE  RInv'
<1> DEFINE x == QueryOrder(a)
<1>1. HasRow(a) BY DEF RInv, ScanInv, ScanListed, ScanReadsOrder
<1>2. /\ x = [st |-> ex[a].st, n |-> ex[a].n]
      /\ ex[a].st \in OrderStatuses
      /\ ex[a].n \in 0..Qty
  BY <1>1, QueryType DEF RInv
<1>3. UNCHANGED <<vars, ws, terms>> /\ UNCHANGED <<orders, fills, ex>>
  BY DEF ScanReadsOrder, vars, tables
<1>4. \A b \in scan.todo : HasRow(b)' BY <1>3 DEF RInv, ScanInv, ScanListed, HasRow
<1>5. ASSUME NEW label \in {"trades", "close"}, scan' = Visit(label, a, x),
             label = "trades" => ex[a].n > 0,
             label = "close" => isTerminal(ex[a].st) /\ ex[a].st # "FILLED"
      PROVE  scan' \in ScanStates /\ ScanInv'
  <2>1. /\ scan' \in ScanStates
        /\ scan'.pc = label /\ scan'.a = a /\ scan'.st = ex[a].st /\ scan'.n = ex[a].n
        /\ scan'.todo = scan.todo
    BY <1>2, <1>5, VisitType DEF RInv, ScanPCs
  <2>2. HasRow(a)' /\ ex'[a] = ex[a] BY <1>1, <1>3 DEF HasRow
  <2>3. Shown(scan.a, scan.st, scan.n)' BY <1>2, <2>1, <2>2, ConstantsAssumption DEF Shown
  <2>4. ScanListed' BY <1>4, <2>1, <2>2 DEF ScanListed
  <2>5. ScanShown' BY <1>5, <2>1, <2>3 DEF ScanShown, Shown
  <2>6. ScanWriting' /\ ScanStored' /\ ScanForced'
    BY <1>5, <2>1 DEF ScanWriting, ScanStored, ScanForced
  <2> QED BY <2>1, <2>4, <2>5, <2>6 DEF ScanInv
<1>6. ASSUME scan' = NextOrder(a) PROVE scan' \in ScanStates /\ ScanInv'
  <2>1. \A b \in Attempts : HasRow(b) => HasRow(b)' BY <1>3 DEF HasRow
  <2> QED BY <1>6, <2>1, ScanRests DEF RInv, ScanInv
<1>7. scan' \in ScanStates /\ ScanInv'
  <2>1. x.st = ex[a].st /\ x.n = ex[a].n BY <1>2
  <2>2. CASE hasFillDelta(ex[a].st, ex[a].n)
    <3>1. ex[a].n > 0 BY <2>2 DEF hasFillDelta
    <3>2. scan' = Visit("trades", a, x) BY <2>1, <2>2 DEF ScanReadsOrder
    <3> QED BY <1>5, <3>1, <3>2
  <2>3. CASE ~hasFillDelta(ex[a].st, ex[a].n) /\ isTerminal(ex[a].st)
    <3>1. ex[a].st # "FILLED"
      <4>1. ex[a].st = "FILLED" => ex[a].n = Qty BY DEF RInv, BaseInv, ControlInv, FilledIsWhole
      <4> QED BY <2>3, <4>1, ConstantsAssumption DEF hasFillDelta
    <3>2. scan' = Visit("close", a, x) BY <2>1, <2>3 DEF ScanReadsOrder
    <3> QED BY <1>5, <2>3, <3>1, <3>2
  <2>4. CASE ~hasFillDelta(ex[a].st, ex[a].n) /\ ~isTerminal(ex[a].st)
    <3>1. scan' = NextOrder(a) BY <2>1, <2>4 DEF ScanReadsOrder
    <3> QED BY <1>6, <3>1
  <2> QED BY <2>2, <2>3, <2>4
<1> QED BY <1>3, <1>7, ScannerReads DEF RInv, BaseInv, TypeOK, vars

\* QueryTrades lists no more than happened.
LEMMA TradesType ==
  ASSUME BaseInv, NEW a \in Attempts, NEW m \in QueryTrades(a), m # Pending
  PROVE  m \in 0..Qty /\ m <= ex[a].n
  BY ConstantsAssumption
  DEF BaseInv, TypeOK, ExchangeStates, QueryTrades, spotQueryTrades, futuresQueryTrades, Pending

\* The trades to write are taken over; the first of them, if any, comes next.
LEMMA WriteType ==
  ASSUME RTypeOK, NEW label \in ScanPCs, NEW m \in 0..Qty, scan' = Write(label, m)
  PROVE  /\ scan' \in ScanStates
         /\ scan'.pc = label /\ scan'.m = m /\ scan'.t = (IF m = 0 THEN 0 ELSE 1)
         /\ scan'.a = scan.a /\ scan'.st = scan.st /\ scan'.n = scan.n /\ scan'.todo = scan.todo
  <1>1. (IF m = 0 THEN 0 ELSE 1) \in 0..Qty BY ConstantsAssumption
  <1> QED BY <1>1 DEF RTypeOK, Write, ScanStates

\* QueryTrades: trades that cover the order are written.
LEMMA ReadsTradesStep ==
  ASSUME RInv, ScanReadsTrades \/ ScanLacksTrades
  PROVE  RInv'
<1>1. scan.pc = "trades" /\ scan.a \in Attempts /\ HasRow(scan.a)
  BY DEF RInv, ScanInv, ScanListed, ScanReadsTrades, ScanLacksTrades
<1>2. UNCHANGED <<vars, ws, terms>> /\ UNCHANGED <<orders, fills, ex>>
  BY DEF ScanReadsTrades, ScanLacksTrades, vars, tables
<1>3. \A b \in Attempts : HasRow(b) => HasRow(b)' BY <1>2 DEF HasRow
<1>4. CASE ScanReadsTrades
  <2>1. PICK m \in QueryTrades(scan.a) : hasCompleteFillDetails(m) /\ scan' = Write("write", m)
    BY <1>4 DEF ScanReadsTrades
  <2>2. scan.n \in 0..Qty /\ scan.n > 0 /\ scan.n <= m /\ Qty \in Nat
    BY <1>1, <2>1, ConstantsAssumption
    DEF RInv, RTypeOK, ScanStates, ScanInv, ScanShown, hasCompleteFillDetails
  <2>3. m \in 0..Qty /\ m <= ex[scan.a].n /\ m # 0
    BY <1>1, <2>2, TradesType DEF RInv, Pending
  <2>4. /\ scan' \in ScanStates
        /\ scan'.pc = "write" /\ scan'.m = m /\ scan'.t = 1
        /\ scan'.a = scan.a /\ scan'.st = scan.st /\ scan'.n = scan.n /\ scan'.todo = scan.todo
    BY <2>1, <2>3, WriteType DEF RInv, ScanPCs
  <2>5. ScanListed' BY <1>1, <1>3, <2>4 DEF RInv, RTypeOK, ScanStates, ScanInv, ScanListed
  <2>6. ScanShown' BY <1>1, <1>2, <2>2, <2>4 DEF RInv, ScanInv, ScanShown, Shown
  <2>7. ScanWriting' BY <1>2, <2>2, <2>3, <2>4 DEF ScanWriting
  <2>8. ScanStored' BY <2>4, ConstantsAssumption DEF ScanStored
  <2>9. ScanForced' BY <2>4 DEF ScanForced
  <2>10. ScanInv' BY <2>5, <2>6, <2>7, <2>8, <2>9 DEF ScanInv
  <2> QED BY <1>2, <2>4, <2>10, ScannerReads DEF RInv, BaseInv, TypeOK, vars
<1>5. CASE ScanLacksTrades
  <2>1. scan' \in ScanStates /\ ScanInv' BY <1>3, <1>5, ScanRests DEF RInv, ScanInv, ScanLacksTrades
  <2> QED BY <1>2, <2>1, ScannerReads DEF RInv, BaseInv, TypeOK, vars
<1> QED BY <1>4, <1>5

\* writeFillEvents: the fills up to the one just saved are stored.
LEMMA WritesFillStep ==
  ASSUME RInv, ScanWritesFill
  PROVE  RInv'
<1> USE DEF RInv
<1>1. /\ scan.pc \in {"write", "force_write"}
      /\ UNCHANGED <<intents, status, orders, notes, ex, issued, hs, ws, terms>>
  BY DEF ScanWritesFill
<1>2. PICK o \in SaveOutcomes :
        /\ ChargeSave(o)
        /\ SaveFillEvent(scan.a, scan.t, o)
        /\ scan' = IF o # "ok" THEN IdleScan
                   ELSE IF scan.t < scan.m THEN [scan EXCEPT !.t = @ + 1]
                   ELSE IF scan.pc = "force_write" THEN [scan EXCEPT !.pc = "force_close"]
                   ELSE IF isTerminal(scan.st) THEN [scan EXCEPT !.pc = "close"]
                   ELSE NextOrder(scan.a)
  BY DEF ScanWritesFill
<1>3. /\ scan \in ScanStates /\ Qty \in Nat
      /\ scan.n \in 0..Qty /\ scan.m \in 0..Qty /\ scan.t \in 0..Qty
      /\ scan.a \in Attempts /\ HasRow(scan.a)
      /\ 1 <= scan.t /\ scan.t <= scan.m /\ scan.m <= ex[scan.a].n
      /\ ex[scan.a].n \in 0..Qty
  BY <1>1, ConstantsAssumption
  DEF RTypeOK, ScanStates, ScanInv, ScanListed, ScanWriting, BaseInv, TypeOK, ExchangeStates
<1>4. scan.t \in 1..Qty /\ scan.t <= ex[scan.a].n BY <1>3
<1>5. BaseInv' /\ Onward /\ (o = "ok" => fills'[<<scan.a, scan.t>>] > 0)
  BY <1>1, <1>2, <1>3, <1>4, SaveFill
<1>6. /\ \A b \in Attempts : HasRow(b) => HasRow(b)'
      /\ \A t \in 1..Qty : fills[<<scan.a, t>>] > 0 => fills'[<<scan.a, t>>] > 0
  BY <1>3, <1>5 DEF Onward, Trades
<1>7. \A b \in scan.todo : HasRow(b)' BY <1>3, <1>6 DEF ScanStates, ScanInv, ScanListed
<1>8. scan' \in ScanStates /\ ScanInv'
  <2>1. CASE scan' = IdleScan \/ scan' = NextOrder(scan.a)
    BY <1>6, <2>1, ScanRests DEF ScanInv
  <2>2. CASE o = "ok" /\ scan.t < scan.m
    <3>1. scan.t + 1 \in 0..Qty BY <1>3, <2>2
    <3>2. scan' = [scan EXCEPT !.t = @ + 1] BY <1>2, <2>2
    <3>3. /\ scan' \in ScanStates
          /\ scan'.t = scan.t + 1
          /\ scan'.pc = scan.pc /\ scan'.a = scan.a /\ scan'.st = scan.st /\ scan'.n = scan.n
          /\ scan'.m = scan.m /\ scan'.todo = scan.todo /\ scan'.err = scan.err
      BY <1>3, <3>1, <3>2 DEF ScanStates
    <3>4. ScanListed' BY <1>3, <1>6, <1>7, <3>3 DEF ScanListed
    <3>5. ScanShown' BY <1>1, <3>3 DEF ScanInv, ScanShown, Shown
    <3>6. ScanWriting' BY <1>1, <1>3, <2>2, <3>3 DEF ScanInv, ScanWriting
    <3>7. ScanStored'
      <4>1. \A t \in 1..Qty : t < scan.t + 1 => t < scan.t \/ t = scan.t BY <1>3
      <4>2. scan.pc = "write" => \A t \in 1..Qty : t < scan.t + 1 => fills'[<<scan.a, t>>] > 0
        BY <1>5, <1>6, <2>2, <4>1 DEF ScanInv, ScanStored
      <4> QED BY <1>1, <3>3, <4>2 DEF ScanStored
    <3>8. ScanForced' BY <1>1, <3>3 DEF ScanInv, ScanForced
    <3> QED BY <3>3, <3>4, <3>5, <3>6, <3>7, <3>8 DEF ScanInv
  <2>3. ASSUME o = "ok", scan.t = scan.m, NEW label \in {"force_close", "close"},
               scan' = [scan EXCEPT !.pc = label],
               label = "force_close" <=> scan.pc = "force_write",
               label = "close" => isTerminal(scan.st)
        PROVE  scan' \in ScanStates /\ ScanInv'
    <3>1. /\ scan' \in ScanStates
          /\ scan'.pc = label /\ scan'.a = scan.a /\ scan'.st = scan.st /\ scan'.n = scan.n
          /\ scan'.todo = scan.todo
      BY <1>3, <2>3 DEF ScanStates, ScanPCs
    <3>2. ScanListed' BY <1>3, <1>6, <1>7, <3>1 DEF ScanListed
    <3>3. ScanShown' BY <1>1, <2>3, <3>1 DEF ScanInv, ScanShown, Shown
    <3>4. ScanWriting' BY <2>3, <3>1 DEF ScanWriting
    <3>5. ScanStored'
      <4> SUFFICES ASSUME label = "close", scan.st = "FILLED", NEW t \in 1..Qty
                   PROVE  fills'[<<scan.a, t>>] > 0
        BY <2>3, <3>1 DEF ScanStored
      <4>1. scan.pc = "write" BY <1>1, <2>3
      <4>2. ex[scan.a].st = "FILLED" /\ ex[scan.a].n = scan.n
        BY <2>3, <4>1 DEF ScanInv, ScanShown, Shown
      <4>3. scan.n = Qty BY <1>3, <4>2 DEF BaseInv, ControlInv, FilledIsWhole
      <4>4. scan.t = Qty BY <1>3, <2>3, <4>1, <4>3 DEF ScanInv, ScanWriting
      <4>5. t < scan.t \/ t = scan.t BY <1>3, <4>4
      <4> QED BY <1>5, <1>6, <2>3, <4>1, <4>5 DEF ScanInv, ScanStored
    <3>6. ScanForced' BY <1>1, <2>3, <3>1 DEF ScanInv, ScanForced
    <3> QED BY <3>1, <3>2, <3>3, <3>4, <3>5, <3>6 DEF ScanInv
  <2>4. CASE o = "ok" /\ ~(scan.t < scan.m)
    <3>1. scan.t = scan.m BY <1>3, <2>4
    <3> QED BY <1>1, <1>2, <2>1, <2>3, <2>4, <3>1
  <2> QED BY <1>2, <2>1, <2>2, <2>4
<1>9. RTypeOK' BY <1>1, <1>8 DEF RTypeOK
<1>10. MessageInv' BY <1>1, <1>5, MessageKept DEF BaseInv
<1>11. \A b \in Attempts : StoresBacked(b) BY <1>1 DEF StoresBacked
<1>12. ClosedFilledIsComplete' /\ CloseIsAnnounced' BY <1>1, <1>5, <1>11, RowsKept DEF BaseInv
<1> QED BY <1>5, <1>8, <1>9, <1>10, <1>12

\* Closing a row, by a regular or a forced close, keeps the invariant: the event comes
\* first, and a row closed as FILLED has its fills.
LEMMA CloseStep ==
  ASSUME RInv, NEW o \in SaveOutcomes, ChargeSave(o), SaveTerminalEvent(scan.a, o),
         scan.pc \in {"close", "force_close"},
         scan' = (IF o = "ok" THEN NextOrder(scan.a) ELSE IdleScan),
         NEW row \in OrderRow, row.n <= ex[scan.a].n,
         IF o \in {"ok", "lost"} THEN orders' = [orders EXCEPT ![scan.a] = row] ELSE orders' = orders,
         row.st = "FILLED" /\ row.rec # "RECOVERY_EXPIRED" => \A t \in 1..Qty : fills[<<scan.a, t>>] > 0,
         UNCHANGED <<intents, status, fills, events, notes, ex, issued, hs, ws>>
  PROVE  RInv'
<1> USE DEF RInv
<1>1. scan.a \in Attempts /\ HasRow(scan.a) BY DEF ScanInv, ScanListed
<1>2. faults' \in 0..MaxFaults BY ChargeSaveType DEF BaseInv
<1>3. BaseInv' /\ Onward
  <2>1. CASE orders' = orders BY <1>2, <2>1, BaseStill DEF tables
  <2>2. CASE orders' = [orders EXCEPT ![scan.a] = row] BY <1>1, <1>2, <2>2, RowWrite
  <2> QED BY <2>1, <2>2
<1>4. scan' \in ScanStates /\ ScanInv'
  BY <1>3, ScanRests DEF ScanInv, Onward
<1>5. terms \subseteq terms' /\ terms' \subseteq terms \cup {scan.a} /\ (o \in {"ok", "lost"} => scan.a \in terms')
  BY DEF SaveTerminalEvent
<1>6. RTypeOK' BY <1>1, <1>4, <1>5 DEF RTypeOK
<1>7. MessageInv' BY <1>3, MessageKept DEF BaseInv
<1>8. \A a \in Attempts : \/ orders'[a] = orders[a]
                          \/ a = scan.a /\ orders'[a] = row /\ a \in terms'
  BY <1>1, <1>5 DEF BaseInv, TypeOK
<1>9. ClosedFilledIsComplete'
  BY <1>8 DEF ClosedFilledIsComplete, HasRow, Tracked
<1>10. CloseIsAnnounced' BY <1>5, <1>8 DEF CloseIsAnnounced
<1> QED BY <1>3, <1>4, <1>6, <1>7, <1>9, <1>10

\* MarkRecoveryResolved writes what was read; MarkRecoveryExpired only the recovery status.
LEMMA ClosesStep ==
  ASSUME RInv, ScanCloses \/ ForceCloses
  PROVE  RInv'
<1> USE DEF RInv
<1>1. /\ scan.pc \in {"close", "force_close"}
      /\ scan.a \in Attempts /\ HasRow(scan.a)
      /\ UNCHANGED <<intents, status, fills, events, notes, ex, issued, hs, ws>>
  BY DEF ScanInv, ScanListed, ScanCloses, ForceCloses
<1>2. /\ orders[scan.a] \in OrderRow
      /\ orders[scan.a].n <= ex[scan.a].n
      /\ scan.st \in OrderStatuses /\ scan.n \in 0..Qty
  BY <1>1 DEF BaseInv, TypeOK, HasRow, LedgerInv, LedgerBacked, RTypeOK, ScanStates
<1>3. CASE ScanCloses
  <2> DEFINE row == [orders[scan.a] EXCEPT !.st = scan.st, !.n = scan.n, !.rec = scan.st]
  <2>1. PICK o \in SaveOutcomes :
          /\ ChargeSave(o)
          /\ SaveTerminalEvent(scan.a, o)
          /\ IF o \in {"ok", "lost"} THEN MarkRecoveryResolved(scan.a) ELSE orders' = orders
          /\ scan' = IF o = "ok" THEN NextOrder(scan.a) ELSE IdleScan
    BY <1>3 DEF ScanCloses
  <2>2. scan.pc = "close" /\ isTerminal(scan.st) /\ scan.n <= ex[scan.a].n
    BY <1>3 DEF ScanCloses, ScanInv, ScanShown, Shown
  <2>3. scan.st \in RecoveryStatuses
    BY <1>2, <2>2 DEF isTerminal, OrderStatuses, OpenStatuses, RecoveryStatuses
  <2>4. row \in OrderRow /\ row.n = scan.n /\ row.st = scan.st
    BY <1>2, <2>3 DEF OrderRow
  <2>5. orders' = [orders EXCEPT ![scan.a] = row] \/ o \notin {"ok", "lost"}
    BY <2>1 DEF MarkRecoveryResolved
  <2>6. row.st = "FILLED" => \A t \in 1..Qty : fills[<<scan.a, t>>] > 0
    BY <2>2, <2>4 DEF ScanInv, ScanStored
  <2> HIDE DEF row
  <2> QED BY <1>1, <2>1, <2>2, <2>4, <2>5, <2>6, CloseStep
<1>4. CASE ForceCloses
  <2> DEFINE row == [orders[scan.a] EXCEPT !.rec = "RECOVERY_EXPIRED"]
  <2>1. PICK o \in SaveOutcomes :
          /\ ChargeSave(o)
          /\ SaveTerminalEvent(scan.a, o)
          /\ IF o \in {"ok", "lost"} THEN MarkRecoveryExpired(scan.a) ELSE orders' = orders
          /\ scan' = IF o = "ok" THEN NextOrder(scan.a) ELSE IdleScan
    BY <1>4 DEF ForceCloses
  <2>2. row \in OrderRow /\ row.n = orders[scan.a].n /\ row.rec = "RECOVERY_EXPIRED"
    BY <1>2 DEF OrderRow, RecoveryStatuses
  <2>3. orders' = [orders EXCEPT ![scan.a] = row] \/ o \notin {"ok", "lost"}
    BY <2>1 DEF MarkRecoveryExpired
  <2> HIDE DEF row
  <2> QED BY <1>1, <1>2, <2>1, <2>2, <2>3, CloseStep
<1> QED BY <1>3, <1>4

\* The cancel of a force close, whatever comes of it.
LEMMA ForceCancelStep ==
  ASSUME RInv, NEW a \in Attempts, ForceCancel(a)
  PROVE  RInv' /\ ((ex[a].st \in OpenStatuses /\ ex' = [ex EXCEPT ![a].st = "CANCELED"]) \/ ex' = ex)
<1> USE DEF RInv
<1>1. PICK r \in CancelOrder(a) :
        /\ faults + r.fault <= MaxFaults
        /\ faults' = faults + r.fault
        /\ ex' = r.ex
        /\ scan' = [scan EXCEPT !.pc = "force_query", !.a = a, !.err = r.err]
  BY DEF ForceCancel
<1>2. UNCHANGED <<tables, notes, issued, hs, ws, terms>> /\ a \in scan.todo /\ HasRow(a)
  BY DEF ForceCancel, ScanInv, ScanListed
<1>3. /\ r.fault \in {0, 1} /\ r.err \in BOOLEAN
      /\ \/ ex[a].st \in OpenStatuses /\ ex' = [ex EXCEPT ![a].st = "CANCELED"]
         \/ ex' = ex /\ (r.err \/ ~Readable(a))
  <2> DEFINE cancelled == [ex EXCEPT ![a].st = "CANCELED"]
  <2>1. \/ ex[a].st \in OpenStatuses /\ (r = Answer(cancelled, FALSE, 0) \/ r = Answer(cancelled, TRUE, 1))
        \/ r = Answer(ex, TRUE, 0) \/ r = Answer(ex, TRUE, 1)
        \/ ~Readable(a) /\ r = Answer(ex, FALSE, 0)
    BY DEF CancelOrder, cancelRemote
  <2> HIDE DEF cancelled
  <2>2. \/ ex[a].st \in OpenStatuses /\ r.ex = cancelled /\ r.err \in BOOLEAN /\ r.fault \in {0, 1}
        \/ r.ex = ex /\ r.err \in BOOLEAN /\ (r.err \/ ~Readable(a)) /\ r.fault \in {0, 1}
    <3>1. ASSUME NEW after, NEW err \in BOOLEAN, NEW fault \in {0, 1}, r = Answer(after, err, fault)
          PROVE  r.ex = after /\ r.err = err /\ r.fault \in {0, 1}
      BY <3>1 DEF Answer
    <3> QED BY <2>1, <3>1
  <2> QED BY <1>1, <2>2 DEF cancelled
<1>4. faults' \in 0..MaxFaults
  BY <1>1, <1>3, ConstantsAssumption DEF BaseInv, TypeOK
<1>5. BaseInv' /\ Onward /\ (~r.err /\ Readable(a) => ex'[a].st = "CANCELED")
  <2>1. CASE ex' = ex /\ (r.err \/ ~Readable(a)) BY <1>2, <1>4, <2>1, BaseStill
  <2>2. CASE ex[a].st \in OpenStatuses /\ ex' = [ex EXCEPT ![a].st = "CANCELED"]
    <3>1. /\ \A b \in Attempts : Later(b)
          /\ NoOrderNoTrades' /\ FilledIsWhole'
      BY <2>2, CancelMonotone DEF BaseInv, ControlInv
    <3>2. TypeOK'
      <4>1. ex' \in [Attempts -> ExchangeStates]
        BY <2>2 DEF BaseInv, TypeOK, ExchangeStates, OrderStatuses
      <4> QED BY <1>2, <1>4, <4>1 DEF BaseInv, TypeOK, tables
    <3>3. ControlInv' BY <1>2, <3>1, ControlExchange DEF BaseInv, tables
    <3>4. LedgerInv' BY <1>2, <3>1, <3>2, LedgerExchange DEF BaseInv, Later
    <3>5. Onward BY <1>2, <3>1 DEF Onward, Later, HasRow, tables
    <3>6. ex'[a].st = "CANCELED" BY <2>2 DEF BaseInv, TypeOK, ExchangeStates
    <3> QED BY <3>2, <3>3, <3>4, <3>5, <3>6 DEF BaseInv
  <2> QED BY <1>3, <2>1, <2>2
<1>6. /\ scan' \in ScanStates
      /\ scan'.pc = "force_query" /\ scan'.a = a /\ scan'.err = r.err /\ scan'.todo = scan.todo
  BY <1>1, <1>3 DEF RTypeOK, ScanStates, ScanPCs
<1>7. ScanInv'
  <2>1. ScanListed' BY <1>2, <1>5, <1>6 DEF RTypeOK, ScanStates, ScanInv, ScanListed, Onward
  <2>2. ScanForced' BY <1>5, <1>6 DEF ScanForced, Readable, isTerminal
  <2> QED BY <1>6, <2>1, <2>2 DEF ScanInv, ScanShown, ScanWriting, ScanStored
<1>8. RTypeOK' BY <1>2, <1>6 DEF RTypeOK
<1>9. MessageInv' BY <1>2, <1>5, MessageKept DEF BaseInv
<1>10. \A b \in Attempts : StoresBacked(b) BY <1>2 DEF StoresBacked, tables
<1>11. ClosedFilledIsComplete' /\ CloseIsAnnounced' BY <1>2, <1>5, <1>10, RowsKept DEF BaseInv
<1> QED BY <1>3, <1>5, <1>7, <1>8, <1>9, <1>11

\* The last read of a force close goes on only when the order is over.
LEMMA ForceQueryStep ==
  ASSUME RInv, ForceQuery
  PROVE  RInv'
<1> USE DEF RInv
<1> DEFINE a == scan.a
           x == QueryOrder(a)
<1>1. /\ scan.pc = "force_query" /\ a \in Attempts /\ HasRow(a)
      /\ UNCHANGED <<vars, ws, terms>> /\ UNCHANGED <<orders, fills, ex>>
      /\ scan' = IF scan.err /\ ~isTerminal(x.st) THEN IdleScan ELSE Visit("force_trades", a, x)
      /\ Readable(a)
  BY DEF ForceQuery, ScanInv, ScanListed, vars, tables
<1>2. /\ x = [st |-> ex[a].st, n |-> ex[a].n]
      /\ ex[a].st \in OrderStatuses
      /\ ex[a].n \in 0..Qty
  BY <1>1, QueryType
<1>3. \A b \in Attempts : HasRow(b) => HasRow(b)' BY <1>1 DEF HasRow
<1>4. scan' \in ScanStates /\ ScanInv'
  <2>1. CASE scan' = IdleScan BY <1>3, <2>1, ScanRests DEF ScanInv
  <2>2. CASE scan' = Visit("force_trades", a, x) /\ ~(scan.err /\ ~isTerminal(x.st))
    <3>1. /\ scan' \in ScanStates
          /\ scan'.pc = "force_trades" /\ scan'.a = a /\ scan'.todo = scan.todo
      <4>1. "force_trades" \in ScanPCs BY DEF ScanPCs
      <4>2. scan' = Visit("force_trades", a, [st |-> ex[a].st, n |-> ex[a].n]) BY <1>2, <2>2
      <4> QED BY <1>1, <1>2, <4>1, <4>2, VisitType
    <3>2. isTerminal(ex[a].st)
      <4>1. x.st = ex[a].st BY <1>2
      <4> QED BY <1>1, <2>2, <4>1 DEF ScanInv, ScanForced, RTypeOK, ScanStates
    <3>3. ScanListed' BY <1>1, <1>3, <3>1 DEF RTypeOK, ScanStates, ScanInv, ScanListed
    <3>4. ScanForced' BY <1>1, <3>1, <3>2 DEF ScanForced
    <3> QED BY <3>1, <3>3, <3>4 DEF ScanInv, ScanShown, ScanWriting, ScanStored
  <2> QED BY <1>1, <2>1, <2>2
<1> QED BY <1>1, <1>4, ScannerReads DEF BaseInv, TypeOK, vars

\* The trades of a force close are written as they are listed.
LEMMA ForceReadsTradesStep ==
  ASSUME RInv, ForceReadsTrades
  PROVE  RInv'
<1> USE DEF RInv
<1>1. /\ scan.pc = "force_trades" /\ scan.a \in Attempts /\ HasRow(scan.a)
      /\ UNCHANGED <<vars, ws, terms>> /\ UNCHANGED <<orders, fills, ex>>
      /\ isTerminal(ex[scan.a].st)
  BY DEF ForceReadsTrades, ScanInv, ScanListed, ScanForced, vars, tables
<1>2. PICK m \in QueryTrades(scan.a) :
        scan' = IF m = Pending THEN IdleScan ELSE Write(IF m = 0 THEN "force_close" ELSE "force_write", m)
  BY DEF ForceReadsTrades
<1>3. \A b \in Attempts : HasRow(b) => HasRow(b)' BY <1>1 DEF HasRow
<1>4. scan' \in ScanStates /\ ScanInv'
  <2>1. CASE m = Pending BY <1>2, <1>3, <2>1, ScanRests DEF ScanInv
  <2>2. CASE m # Pending
    <3>1. m \in 0..Qty /\ m <= ex[scan.a].n BY <1>1, <2>2, TradesType
    <3> DEFINE label == IF m = 0 THEN "force_close" ELSE "force_write"
    <3>2. /\ scan' \in ScanStates
          /\ scan'.pc = label /\ scan'.m = m /\ scan'.t = (IF m = 0 THEN 0 ELSE 1)
          /\ scan'.a = scan.a /\ scan'.todo = scan.todo
      BY <1>2, <2>2, <3>1, WriteType DEF ScanPCs
    <3>3. ScanListed' BY <1>1, <1>3, <3>2 DEF RTypeOK, ScanStates, ScanInv, ScanListed
    <3>4. ScanWriting' BY <1>1, <3>1, <3>2, ConstantsAssumption DEF ScanWriting
    <3>5. ScanForced' BY <1>1, <3>2 DEF ScanForced
    <3> QED BY <3>2, <3>3, <3>4, <3>5 DEF ScanInv, ScanShown, ScanStored
  <2> QED BY <2>1, <2>2
<1> QED BY <1>1, <1>4, ScannerReads DEF BaseInv, TypeOK, vars

\* A deadline that passes changes neither what is tracked nor what is stored.
LEMMA DeadlineStep ==
  ASSUME RInv, NEW a \in Attempts, DeadlinePasses(a)
  PROVE  /\ RInv'
         /\ \A b \in Attempts : (HasRow(b)' <=> HasRow(b)) /\ (Tracked(b)' <=> Tracked(b))
<1> USE DEF RInv
<1> DEFINE row == [orders[a] EXCEPT !.overdue = TRUE]
<1>1. /\ HasRow(a) /\ orders' = [orders EXCEPT ![a] = row]
      /\ UNCHANGED <<intents, status, fills, events, notes, ex, issued, hs, faults, scan, ws, terms>>
  BY DEF DeadlinePasses, Tracked
<1>2. orders[a] \in OrderRow BY <1>1 DEF BaseInv, TypeOK, HasRow
<1>3. /\ row \in OrderRow
      /\ row.n = orders[a].n /\ row.st = orders[a].st /\ row.rec = orders[a].rec
  BY <1>2 DEF OrderRow
<1> HIDE DEF row
<1>4. row.n <= ex[a].n BY <1>1, <1>3 DEF BaseInv, LedgerInv, LedgerBacked
<1>5. BaseInv' /\ Onward BY <1>1, <1>3, <1>4, RowWrite DEF BaseInv, TypeOK
<1>6. \A b \in Attempts : orders'[b] = IF b = a THEN row ELSE orders[b]
  BY <1>1 DEF BaseInv, TypeOK
<1>7. row # NoRow BY <1>1, <1>5, <1>6 DEF Onward, HasRow
<1>8. \A b \in Attempts : /\ HasRow(b)' <=> HasRow(b)
                          /\ Tracked(b)' <=> Tracked(b)
                          /\ orders'[b].st = orders[b].st
                          /\ orders'[b].rec = orders[b].rec
  BY <1>1, <1>3, <1>6, <1>7 DEF HasRow, Tracked, effectiveRecovery
<1>9. RTypeOK' BY <1>1 DEF RTypeOK
<1>10. ScanInv' /\ MessageInv' BY <1>1, <1>5, ScanKept, MessageKept DEF BaseInv
<1>11. ClosedFilledIsComplete' /\ CloseIsAnnounced'
  BY <1>1, <1>8 DEF ClosedFilledIsComplete, CloseIsAnnounced
<1> QED BY <1>5, <1>8, <1>9, <1>10, <1>11

\* The ingestor takes up a message about something that happened, and saves it.
LEMMA IngestStep ==
  ASSUME RInv, IngestorNext
  PROVE  RInv'
<1> USE DEF RInv
<1>1. ASSUME NEW a \in Attempts, NEW t \in 0..Qty, IngestMessage(a, t) PROVE RInv'
  <2>1. /\ UNCHANGED <<vars, scan, terms>> /\ UNCHANGED <<tables, notes, ex, issued, hs>>
        /\ ws' = <<a, t>> /\ Known(a)
        /\ IF t = 0 THEN TRUE ELSE t <= ex[a].n
        /\ faults' \in 0..MaxFaults
    BY <1>1 DEF IngestMessage, vars, BaseInv, TypeOK
  <2>2. BaseInv' /\ Onward BY <2>1, BaseStill
  <2>3. RTypeOK' BY <2>1 DEF RTypeOK
  <2>4. ScanInv' BY <2>1, <2>2, ScanKept DEF BaseInv
  <2>5. t <= ex[a].n BY <2>1, ConstantsAssumption DEF BaseInv, TypeOK, ExchangeStates
  <2>6. MessageInv' BY <2>1, <2>5 DEF MessageInv, Known
  <2>7. \A b \in Attempts : StoresBacked(b) BY <2>1 DEF StoresBacked, tables
  <2>8. ClosedFilledIsComplete' /\ CloseIsAnnounced' BY <2>1, <2>2, <2>7, RowsKept DEF BaseInv
  <2> QED BY <2>2, <2>3, <2>4, <2>6, <2>8
<1>2. ASSUME IngestSaves PROVE RInv'
  <2>1. PICK o \in SaveOutcomes :
          /\ ChargeSave(o)
          /\ IF ws[2] = 0
             THEN SaveTerminalEvent(ws[1], o) /\ UNCHANGED <<events, fills>>
             ELSE SaveFillEvent(ws[1], ws[2], o) /\ terms' = terms
    BY <1>2 DEF IngestSaves
  <2>2. /\ ws # NoMessage /\ ws' = NoMessage
        /\ UNCHANGED <<intents, status, orders, notes, ex, issued, hs, scan>>
    BY <1>2 DEF IngestSaves
  <2>3. ws[1] \in Attempts /\ ws[2] \in 0..Qty /\ ws[2] <= ex[ws[1]].n
    BY <2>2 DEF RTypeOK, MessageInv
  <2>4. BaseInv' /\ Onward /\ terms \subseteq terms' /\ terms' \subseteq terms \cup {ws[1]}
    <3>1. CASE ws[2] = 0
      <4>1. faults' \in 0..MaxFaults BY <2>1, ChargeSaveType DEF BaseInv
      <4>2. UNCHANGED <<tables, notes, ex, issued, hs>> BY <2>1, <2>2, <3>1 DEF tables
      <4>3. terms \subseteq terms' /\ terms' \subseteq terms \cup {ws[1]}
        BY <2>1, <3>1 DEF SaveTerminalEvent
      <4> QED BY <4>1, <4>2, <4>3, BaseStill
    <3>2. CASE ws[2] # 0
      <4>1. ws[2] \in 1..Qty BY <2>3, <3>2, ConstantsAssumption
      <4>2. BaseInv' /\ Onward BY <2>1, <2>2, <2>3, <3>2, <4>1, SaveFill
      <4> QED BY <2>1, <3>2, <4>2
    <3> QED BY <3>1, <3>2
  <2>5. RTypeOK' BY <2>2, <2>3, <2>4 DEF RTypeOK
  <2>6. ScanInv' BY <2>2, <2>4, ScanKept DEF BaseInv
  <2>7. MessageInv' BY <2>2 DEF MessageInv
  <2>8. ClosedFilledIsComplete'
    <3>1. \A a \in Attempts, t \in 1..Qty : fills[<<a, t>>] > 0 => fills'[<<a, t>>] > 0
      BY <2>4 DEF Onward, Trades
    <3> QED BY <2>2, <3>1 DEF ClosedFilledIsComplete, HasRow, Tracked
  <2>9. CloseIsAnnounced' BY <2>2, <2>4 DEF CloseIsAnnounced
  <2> QED BY <2>4, <2>5, <2>6, <2>7, <2>8, <2>9
<1> QED BY <1>1, <1>2 DEF IngestorNext

\* A crash forgets what the actors held; what is stored stays.
LEMMA CrashStep ==
  ASSUME RInv, ProcessCrash
  PROVE  RInv'
<1> USE DEF RInv
<1>1. /\ UNCHANGED <<tables, notes, ex, issued, terms>>
      /\ scan' = IdleScan /\ ws' = NoMessage
      /\ hs' = [h \in Handlers |-> Idle]
      /\ faults' \in 0..MaxFaults
  BY ConstantsAssumption DEF ProcessCrash, BaseInv, TypeOK
<1>2. \A g \in Handlers : hs'[g].pc = "idle" /\ hs'[g].pc \notin EmitPCs /\ hs'[g].res.kind = "none"
  BY <1>1 DEF Idle, Plain, EmitPCs
<1>3. TypeOK' BY <1>1 DEF BaseInv, TypeOK, tables
<1>4. ControlInv'
  <2>1. "idle" \notin BeforeSend BY DEF BeforeSend
  <2> QED BY <1>1, <1>2, <2>1
      DEF BaseInv, ControlInv, OnlyIssued, NotYetSent, SoleSender, StoredFirst, WriteAhead, AwaitSent,
          NoOrderNoTrades, FilledIsWhole, Known, RejectedStops, RejectedIntentStops, Sole, tables
<1>5. LedgerInv' BY <1>1, <1>2, LedgerCalm DEF BaseInv, Unsettled, tables
<1>6. BaseInv' BY <1>3, <1>4, <1>5 DEF BaseInv
<1>7. \A b \in Attempts : HasRow(b) => HasRow(b)' BY <1>1 DEF HasRow, tables
<1>8. scan' \in ScanStates /\ ScanInv' BY <1>1, <1>7, ScanRests DEF ScanInv
<1>9. RTypeOK' /\ MessageInv' BY <1>1, <1>8 DEF RTypeOK, MessageInv
<1>10. ClosedFilledIsComplete' /\ CloseIsAnnounced'
  BY <1>1 DEF ClosedFilledIsComplete, CloseIsAnnounced, HasRow, Tracked, tables
<1> QED BY <1>6, <1>8, <1>9, <1>10

-----------------------------------------------------------------------------
(* The inductive invariant of the order system. *)

\* Every step of the scanner keeps the invariant.
LEMMA ScannerStep ==
  ASSUME RInv, ScannerNext
  PROVE  RInv'
<1>1. ASSUME NEW a \in Attempts, ScanQueryFails(a) PROVE RInv'
  BY <1>1, FailedCallStep DEF ScanQueryFails
<1>2. CASE ForceQueryFails BY <1>2, FailedCallStep DEF ForceQueryFails
<1> QED BY <1>1, <1>2, ListStep, ReadsOrderStep, ReadsTradesStep, WritesFillStep, ClosesStep,
           ForceCancelStep, ForceQueryStep, ForceReadsTradesStep
    DEF ScannerNext

\* Handlers, exchange, scanner, ingestor, clock and crashes keep RInv.
LEMMA RecoveryStep == RInv /\ [RNext]_rvars => RInv'
<1> SUFFICES ASSUME RInv, [RNext]_rvars PROVE RInv'
  OBVIOUS
<1>1. CASE UNCHANGED rvars
  <2>1. UNCHANGED <<tables, notes, ex, issued, hs, scan, ws, terms>> /\ faults' \in 0..MaxFaults
    BY <1>1 DEF rvars, vars, RInv, BaseInv, TypeOK
  <2>2. BaseInv' /\ Onward BY <2>1, BaseStill DEF RInv
  <2>3. ScanInv' BY <2>1, <2>2, ScanKept DEF RInv, BaseInv
  <2> QED BY <2>1, <2>3, ScannerReads DEF RInv, RTypeOK
<1> QED BY <1>1, ServiceStep, ScannerStep, IngestStep, DeadlineStep, CrashStep DEF RNext

\* The order system starts with an empty ledger and idle actors.
LEMMA RecoveryInit == RInit => RInv
<1> SUFFICES ASSUME RInit PROVE RInv
  OBVIOUS
<1>1. Init /\ scan = IdleScan /\ ws = NoMessage /\ terms = {} BY DEF RInit
<1>2. BaseInv BY <1>1, TypeInit, ControlInit, LedgerInit DEF BaseInv
<1>3. IdleScan \in ScanStates /\ IdleScan.pc = "idle" /\ IdleScan.todo = {}
  BY ConstantsAssumption DEF IdleScan, ScanStates, ScanPCs, OrderStatuses
<1>4. RTypeOK BY <1>1, <1>3 DEF RTypeOK
<1>5. ScanInv BY <1>1, <1>3 DEF ScanInv, ScanListed, ScanShown, ScanWriting, ScanStored, ScanForced
<1>6. MessageInv BY <1>1 DEF MessageInv
<1>7. \A a \in Attempts : ~HasRow(a) /\ orders[a].rec = "" BY <1>1 DEF Init, HasRow, NoRow
<1>8. ClosedFilledIsComplete /\ CloseIsAnnounced BY <1>7 DEF ClosedFilledIsComplete, CloseIsAnnounced
<1> QED BY <1>2, <1>4, <1>5, <1>6, <1>8 DEF RInv

\* The invariant holds in every reachable state of the order system.
THEOREM RecoveryInductive == RSpec => []RInv
<1>1. RInit => RInv BY RecoveryInit
<1>2. RInv /\ [RNext]_rvars => RInv' BY RecoveryStep
<1> QED BY <1>1, <1>2, PTL DEF RSpec

\* An order closed as FILLED has all its fills, across failed saves, crashes, messages
\* and overlapping resolves.
THEOREM ClosedFilledIsCompleteHolds == RSpec => []ClosedFilledIsComplete
<1>1. RInv => ClosedFilledIsComplete BY DEF RInv
<1> QED BY <1>1, RecoveryInductive, PTL

\* Every row the scanner closed has its terminal event in the log.
THEOREM CloseIsAnnouncedHolds == RSpec => []CloseIsAnnounced
<1>1. RInv => CloseIsAnnounced BY DEF RInv
<1> QED BY <1>1, RecoveryInductive, PTL

-----------------------------------------------------------------------------
(* The order system implements OrderLedger: each step is a step of the ledger *)
(* or leaves it alone.                                                        *)

Recorded == {a \in Attempts : status[a] # "absent"}
Markets == [a \in Attempts |-> Market(a)]
AllBooks == [a \in Attempts |-> Books(a)]
Booked == {k \in Trades : fills[k] > 0 \/ k \in events}

LedgerStutters == UNCHANGED <<Recorded, Markets, AllBooks, Booked>>
LedgerMoves == Ledger!LNext \/ LedgerStutters

\* An attempt row, or none, is all a quiet step writes.
LEMMA LedgerRecords ==
  ASSUME TypeOK, NEW a \in Attempts, Quiet(a)
  PROVE  LedgerMoves
<1>1. UNCHANGED <<Markets, AllBooks, Booked>>
  BY DEF Quiet, Markets, Market, AllBooks, Books, Booked, HasRow, Tracked
<1>2. CASE status' = status
  <2>1. UNCHANGED Recorded BY <1>2 DEF Recorded
  <2> QED BY <1>1, <2>1 DEF LedgerMoves, LedgerStutters
<1>3. CASE \E st \in AttemptStatuses \ {"absent"} : status' = [status EXCEPT ![a] = st]
  <2>1. Recorded' = Recorded \cup {a} BY <1>3 DEF Recorded, TypeOK
  <2>2. Ledger!Record(a)
    BY <1>1, <2>1 DEF Ledger!Record, Recorded, Markets, AllBooks, Booked
  <2> QED BY <2>2 DEF LedgerMoves, Ledger!LNext
<1> QED BY <1>2, <1>3 DEF Quiet

\* The market's state is that of the exchange, by classes.
LEMMA MarketOf ==
  ASSUME NEW a \in Attempts
  PROVE  /\ Market(a).n = ex[a].n
         /\ ex[a].st = "none" => Market(a).st = "none"
         /\ ex[a].st = "inflight" => Market(a).st = "submitted"
         /\ ex[a].st \in {"refused", "lost"} => Market(a).st = "refused"
         /\ ex[a].st \in OpenStatuses => Market(a).st = "open"
         /\ Known(a) /\ isTerminal(ex[a].st) => Market(a).st = "over"
         /\ Market(a) = [n |-> Market(a).n, st |-> Market(a).st]
<1>1. Market(a).n = ex[a].n /\ Market(a) = [n |-> Market(a).n, st |-> Market(a).st]
  BY DEF Market
<1>2. /\ ex[a].st = "none" => Market(a).st = "none"
      /\ ex[a].st = "inflight" => Market(a).st = "submitted"
      /\ ex[a].st \in {"refused", "lost"} => Market(a).st = "refused"
  BY DEF Market, OpenStatuses
<1>3. ex[a].st \in OpenStatuses => Market(a).st = "open"
  BY DEF Market, OpenStatuses
<1>4. Known(a) /\ isTerminal(ex[a].st) => Market(a).st = "over"
  BY DEF Market, OpenStatuses, Known, OrderStatuses, isTerminal
<1> QED BY <1>1, <1>2, <1>3, <1>4

\* Rows, fills and events of one order that the exchange has are kept in the ledger:
\* trades that happened are booked, and the books close only when the order is over.
LEMMA LedgerKeeps ==
  ASSUME TypeOK, NEW a \in Attempts, Known(a), ex' = ex,
         \A b \in Attempts : status'[b] = "absent" <=> status[b] = "absent",
         \A b \in Attempts : b # a => Books(b)' = Books(b),
         \/ Books(a)' \in {Books(a), "open"}
         \/ Books(a)' = "closed" /\ isTerminal(ex[a].st),
         \A k \in Trades : fills[k] > 0 \/ k \in events => fills'[k] > 0 \/ k \in events',
         \A k \in Trades : fills'[k] > 0 \/ k \in events' =>
                             fills[k] > 0 \/ k \in events \/ (k[1] = a /\ k[2] <= ex[a].n)
  PROVE  LedgerMoves
<1>1. UNCHANGED Recorded BY DEF Recorded
<1>2. UNCHANGED Markets BY DEF Markets, Market
<1>3. Markets[a] = Market(a) /\ AllBooks[a] = Books(a) BY DEF Markets, AllBooks
<1>4. /\ Markets[a].n = ex[a].n
      /\ Markets[a].st \in {"open", "over"}
      /\ isTerminal(ex[a].st) => Markets[a].st = "over"
  BY <1>3, MarketOf DEF Known, OrderStatuses, OpenStatuses, isTerminal
<1>5. Booked' \ Booked \in SUBSET {<<a, t>> : t \in 1..Markets[a].n}
  <2> SUFFICES ASSUME NEW k \in Booked', k \notin Booked
               PROVE  k \in {<<a, t>> : t \in 1..ex[a].n}
    BY <1>4
  <2>1. k \in Trades /\ k[1] = a /\ k[2] <= ex[a].n BY DEF Booked
  <2>2. k = <<a, k[2]>> /\ k[2] \in 1..Qty BY <2>1 DEF Trades
  <2>3. k[2] \in 1..ex[a].n
    BY <2>1, <2>2, ConstantsAssumption DEF TypeOK, ExchangeStates
  <2> QED BY <2>2, <2>3
<1>6. Booked' = Booked \cup (Booked' \ Booked) BY DEF Booked
<1>7. AllBooks' = [AllBooks EXCEPT ![a] = Books(a)']
  BY DEF AllBooks
<1>8. Books(a)' \in {AllBooks[a], "open"} \cup (IF Markets[a].st = "over" THEN {"closed"} ELSE {})
  BY <1>3, <1>4
<1>9. Ledger!Keep(a)
  <2>1. \E new \in SUBSET {<<a, t>> : t \in 1..Markets[a].n} : Booked' = Booked \cup new
    BY <1>5, <1>6
  <2>2. \E b \in {AllBooks[a], "open"} \cup (IF Markets[a].st = "over" THEN {"closed"} ELSE {}) :
          AllBooks' = [AllBooks EXCEPT ![a] = b]
    BY <1>7, <1>8
  <2> QED BY <1>1, <1>2, <1>4, <2>1, <2>2 DEF Ledger!Keep, Recorded, Markets, AllBooks, Booked
<1> QED BY <1>9 DEF LedgerMoves, Ledger!LNext

\* A step of the market changes one order there and no record.
LEMMA LedgerMarket ==
  ASSUME TypeOK, NEW a \in Attempts, UNCHANGED <<status, orders, fills, events>>,
         \A b \in Attempts : b # a => ex'[b] = ex[b]
  PROVE  /\ UNCHANGED <<Recorded, AllBooks, Booked>>
         /\ Markets' = [Markets EXCEPT ![a] = Market(a)']
         /\ Markets[a] = Market(a)
<1>1. UNCHANGED <<Recorded, AllBooks, Booked>>
  BY DEF Recorded, AllBooks, Books, HasRow, Tracked, Booked
<1>2. \A b \in Attempts : b # a => Market(b)' = Market(b) BY DEF Market
<1> QED BY <1>1, <1>2 DEF Markets

\* Writing the state of a market record.
LEMMA MarketMoves ==
  ASSUME NEW a, NEW n, NEW st, NEW new, Markets[a] = [n |-> n, st |-> st],
         Markets' = [Markets EXCEPT ![a] = [n |-> n, st |-> new]]
  PROVE  Markets' = [Markets EXCEPT ![a].st = new] /\ Markets[a].st = st
<1>1. [[n |-> n, st |-> st] EXCEPT !.st = new] = [n |-> n, st |-> new] OBVIOUS
<1>2. [Markets[a] EXCEPT !.st = new] = [n |-> n, st |-> new] BY <1>1
<1>3. Markets[a].st = st OBVIOUS
<1> QED BY <1>2, <1>3

\* The request leaves once, for an attempt on record.
LEMMA LedgerSubmits ==
  ASSUME BaseInv, NEW h \in Handlers, SendOrder(h)
  PROVE  LedgerMoves
<1>1. PICK a \in Attempts : a = hs[h].a BY BusyType DEF SendOrder, BaseInv
<1>2. /\ ex[a].st = "none" /\ ex[a].n = 0 /\ status[a] # "absent"
      /\ ex' = [ex EXCEPT ![a] = [st |-> "inflight", n |-> 0]]
      /\ UNCHANGED <<status, orders, fills, events>>
  BY <1>1
  DEF SendOrder, BaseInv, ControlInv, NotYetSent, NoOrderNoTrades, StoredFirst, BeforeSend, Known,
      OrderStatuses, tables
<1>3. /\ ex'[a].st = "inflight" /\ ex'[a].n = 0
      /\ \A b \in Attempts : b # a => ex'[b] = ex[b]
  BY <1>2 DEF BaseInv, TypeOK
<1>4. /\ UNCHANGED <<Recorded, AllBooks, Booked>>
      /\ Markets' = [Markets EXCEPT ![a] = Market(a)']
      /\ Markets[a] = Market(a)
  BY <1>2, <1>3, LedgerMarket DEF BaseInv
<1>5. Market(a) = [n |-> 0, st |-> "none"] /\ Market(a)' = [n |-> 0, st |-> "submitted"]
  BY <1>2, <1>3 DEF Market, OpenStatuses
<1>6. Markets' = [Markets EXCEPT ![a].st = "submitted"] /\ Markets[a].st = "none"
  <2>1. Markets[a] = [n |-> 0, st |-> "none"] /\ Markets' = [Markets EXCEPT ![a] = [n |-> 0, st |-> "submitted"]]
    BY <1>4, <1>5
  <2> QED BY <2>1, MarketMoves, Zenon
<1>7. a \in Recorded BY <1>2 DEF Recorded
<1>8. Ledger!Submit(a)
  BY <1>4, <1>6, <1>7 DEF Ledger!Submit, Recorded, Markets, AllBooks, Booked
<1> QED BY <1>8 DEF LedgerMoves, Ledger!LNext

\* The end of an open order, by the exchange or by the scanner's cancel.
LEMMA LedgerEnds ==
  ASSUME TypeOK, NEW a \in Attempts, UNCHANGED <<status, orders, fills, events>>,
         ex[a].st \in OpenStatuses, ex' = [ex EXCEPT ![a].st = "CANCELED"]
  PROVE  LedgerMoves
<1>1. /\ ex'[a].st = "CANCELED" /\ ex'[a].n = ex[a].n
      /\ \A b \in Attempts : b # a => ex'[b] = ex[b]
  BY DEF TypeOK, ExchangeStates
<1>2. /\ UNCHANGED <<Recorded, AllBooks, Booked>>
      /\ Markets' = [Markets EXCEPT ![a] = Market(a)']
      /\ Markets[a] = Market(a)
  BY <1>1, LedgerMarket
<1>3. Market(a) = [n |-> ex[a].n, st |-> "open"] /\ Market(a)' = [n |-> ex[a].n, st |-> "over"]
  BY <1>1 DEF Market, OpenStatuses
<1>4. Markets' = [Markets EXCEPT ![a].st = "over"] /\ Markets[a].st = "open"
  <2>1. PICK n : n = ex[a].n OBVIOUS
  <2>2. /\ Markets[a] = [n |-> n, st |-> "open"]
        /\ Markets' = [Markets EXCEPT ![a] = [n |-> n, st |-> "over"]]
    BY <1>2, <1>3, <2>1
  <2> QED BY <2>2, MarketMoves, Zenon
<1>5. Ledger!End(a) BY <1>2, <1>4 DEF Ledger!End, Recorded, Markets, AllBooks, Booked
<1> QED BY <1>5 DEF LedgerMoves, Ledger!LNext

\* The exchange answers, trades and ends orders as the market of the ledger does.
LEMMA LedgerExchanges ==
  ASSUME BaseInv, NEW a \in Attempts, ExchangeStep(a)
  PROVE  LedgerMoves
<1>1. UNCHANGED <<status, orders, fills, events>>
  BY DEF ExchangeStep, ExchangeDecides, ExchangeTrades, ExchangeCancels, tables
<1>2. \A b \in Attempts : b # a => ex'[b] = ex[b]
  BY DEF ExchangeStep, ExchangeDecides, ExchangeTrades, ExchangeCancels, BaseInv, TypeOK
<1>3. /\ UNCHANGED <<Recorded, AllBooks, Booked>>
      /\ Markets' = [Markets EXCEPT ![a] = Market(a)']
      /\ Markets[a] = Market(a)
  BY <1>1, <1>2, LedgerMarket DEF BaseInv
<1>4. CASE ExchangeDecides(a)
  <2>1. PICK st \in {"NEW", "refused", "lost"} : ex' = [ex EXCEPT ![a].st = st]
    BY <1>4 DEF ExchangeDecides
  <2>2. ex[a].st = "inflight" /\ ex'[a].st = st /\ ex'[a].n = ex[a].n
    BY <1>4, <2>1 DEF ExchangeDecides, BaseInv, TypeOK, ExchangeStates
  <2>3. Market(a) = [n |-> ex[a].n, st |-> "submitted"]
    BY <2>2 DEF Market, OpenStatuses
  <2>4. Market(a)' = [n |-> ex[a].n, st |-> "open"] \/ Market(a)' = [n |-> ex[a].n, st |-> "refused"]
    BY <2>2 DEF Market, OpenStatuses
  <2>5. \E new \in {"open", "refused"} : Markets' = [Markets EXCEPT ![a].st = new]
    <3>1. PICK n : n = ex[a].n OBVIOUS
    <3>2. Markets[a] = [n |-> n, st |-> "submitted"] BY <1>3, <2>3, <3>1
    <3>3. \E new \in {"open", "refused"} : Markets' = [Markets EXCEPT ![a] = [n |-> n, st |-> new]]
      BY <1>3, <2>4, <3>1
    <3>4. PICK new \in {"open", "refused"} : Markets' = [Markets EXCEPT ![a] = [n |-> n, st |-> new]]
      BY <3>3
    <3>5. Markets' = [Markets EXCEPT ![a].st = new] /\ Markets[a].st = "submitted"
      BY <3>2, <3>4, MarketMoves, Zenon
    <3> QED BY <3>4, <3>5
  <2>6. Markets[a].st = "submitted" BY <1>3, <2>3
  <2>7. Ledger!Answer(a)
    BY <1>3, <2>5, <2>6 DEF Ledger!Answer, Recorded, Markets, AllBooks, Booked
  <2> QED BY <2>7 DEF LedgerMoves, Ledger!LNext
<1>5. CASE ExchangeTrades(a)
  <2>1. /\ ex[a].st \in OpenStatuses
        /\ ex[a].n \in 0..Qty /\ Qty \in Nat
        /\ ex'[a].st = StatusAt(ex[a].n + 1) /\ ex'[a].n = ex[a].n + 1
    BY <1>5, ConstantsAssumption DEF ExchangeTrades, BaseInv, TypeOK, ExchangeStates
  <2>2. Market(a) = [n |-> ex[a].n, st |-> "open"]
    BY <2>1 DEF Market, OpenStatuses
  <2>3. Market(a)' = [n |-> ex[a].n + 1, st |-> IF ex[a].n + 1 = Qty THEN "over" ELSE "open"]
    BY <2>1 DEF Market, OpenStatuses, StatusAt
  <2>4. /\ Markets[a].st = "open"
        /\ Markets' = [Markets EXCEPT ![a] = [n |-> @.n + 1, st |-> IF @.n + 1 = Qty THEN "over" ELSE "open"]]
    BY <1>3, <2>2, <2>3
  <2>5. Ledger!Trade(a)
    BY <1>3, <2>4 DEF Ledger!Trade, Recorded, Markets, AllBooks, Booked
  <2> QED BY <2>5 DEF LedgerMoves, Ledger!LNext
<1>6. CASE ExchangeCancels(a)
  BY <1>1, <1>6, LedgerEnds DEF ExchangeCancels, BaseInv
<1> QED BY <1>4, <1>5, <1>6 DEF ExchangeStep

\* A row stays open, or is closed with the last word about its order.
LEMMA StoredBooks ==
  ASSUME NEW a \in Attempts, NEW r \in Results, Backed(a, r), r.kind \in {"order", "pending"},
         orders'[a] = buildPersistedExecution(r)
  PROVE  \/ Books(a)' = "open"
         \/ Books(a)' = "closed" /\ isTerminal(ex[a].st)
<1>0. buildPersistedExecution(r) # NoRow
  BY DEF buildPersistedExecution, NoRow, Results, OrderStatuses
<1>1. HasRow(a)' BY <1>0 DEF HasRow
<1>2. /\ orders'[a].st = r.st
      /\ orders'[a].rec = recoveryStatusForExecution(r)
  BY DEF buildPersistedExecution
<1>3. CASE r.kind = "pending" \/ r.st \in OpenStatuses
  <2>1. Tracked(a)'
    BY <1>1, <1>2, <1>3 DEF Tracked, effectiveRecovery, recoveryStatusForExecution, OpenStatuses
  <2> QED BY <1>1, <2>1 DEF Books
<1>4. CASE r.st \notin OpenStatuses
  <2>1. isTerminal(ex[a].st) BY <1>4 DEF Backed, isTerminal, Results, OrderStatuses, OpenStatuses
  <2> QED BY <1>1, <2>1 DEF Books
<1> QED BY <1>3, <1>4

\* Storing an order keeps the ledger.
LEMMA LedgerStores ==
  ASSUME BaseInv, NEW h \in Handlers, Stores(h)
  PROVE  LedgerMoves
<1> USE DEF BaseInv
<1>1. /\ hs[h].a \in Attempts
      /\ hs[h].res \in Results
      /\ Backed(hs[h].a, hs[h].res)
      /\ \A b \in Attempts : b # hs[h].a => orders'[b] = orders[b]
      /\ orders'[hs[h].a] = buildPersistedExecution(hs[h].res)
      /\ \A k \in Trades : fills'[k] > 0 <=> fills[k] > 0 \/ (k[1] = hs[h].a /\ k[2] <= hs[h].res.m)
  BY StoresOnward
<1>2. PICK a \in Attempts, r \in Results : a = hs[h].a /\ r = hs[h].res BY <1>1
<1>3. Known(a) /\ r.m <= ex[a].n /\ r.m \in 0..Qty /\ ex[a].n \in 0..Qty /\ Qty \in Nat
  BY <1>1, <1>2, ConstantsAssumption DEF Backed, Results, TypeOK, ExchangeStates
<1>4. /\ ex' = ex /\ events' = events
      /\ \E st \in AttemptStatuses \ {"absent"} : status' = [status EXCEPT ![a] = st]
  BY <1>2 DEF Stores, FinalizeWithOrder
<1>5. status[a] # "absent" BY <1>3 DEF ControlInv, WriteAhead, Known, OrderStatuses
<1>6. \A b \in Attempts : status'[b] = "absent" <=> status[b] = "absent"
  BY <1>4, <1>5 DEF TypeOK
<1>7. \A b \in Attempts : b # a => Books(b)' = Books(b)
  BY <1>1, <1>2 DEF Books, HasRow, Tracked
<1>8. Books(a)' = "open" \/ (Books(a)' = "closed" /\ isTerminal(ex[a].st))
  BY <1>1, <1>2, StoredBooks DEF Stores
<1>9. \A k \in Trades : fills[k] > 0 \/ k \in events => fills'[k] > 0 \/ k \in events'
  BY <1>1, <1>4
<1>10. \A k \in Trades : fills'[k] > 0 \/ k \in events' =>
                           fills[k] > 0 \/ k \in events \/ (k[1] = a /\ k[2] <= ex[a].n)
  BY <1>1, <1>2, <1>3, <1>4 DEF Trades
<1> QED BY <1>3, <1>4, <1>6, <1>7, <1>8, <1>9, <1>10, LedgerKeeps

\* A step that only books trades of one order that happened keeps the ledger.
LEMMA LedgerBooks ==
  ASSUME TypeOK, NEW a \in Attempts, Known(a), UNCHANGED <<status, orders, ex>>,
         \A k \in Trades : fills[k] > 0 \/ k \in events => fills'[k] > 0 \/ k \in events',
         \A k \in Trades : fills'[k] > 0 \/ k \in events' =>
                             fills[k] > 0 \/ k \in events \/ (k[1] = a /\ k[2] <= ex[a].n)
  PROVE  LedgerMoves
<1>1. \A b \in Attempts : Books(b)' = Books(b) BY DEF Books, HasRow, Tracked
<1> QED BY <1>1, LedgerKeeps

\* The lifecycle events of a stored order are about trades that happened.
LEMMA LedgerEmits ==
  ASSUME BaseInv, NEW h \in Handlers, EmitLifecycleEvents(h)
  PROVE  LedgerMoves
<1> USE DEF BaseInv
<1>1. hs[h].pc \in EmitPCs BY DEF EmitLifecycleEvents, EmitPCs
<1>2. /\ hs[h].a \in Attempts /\ hs[h].res \in Results
      /\ hs[h].res.kind \in {"order", "pending"}
  BY <1>1, BusyType DEF EmitPCs, LedgerInv, EmitHasResult
<1>3. PICK a \in Attempts, m \in 0..Qty : a = hs[h].a /\ m = hs[h].res.m BY <1>2 DEF Results
<1>4. Known(a) /\ m <= ex[a].n /\ ex[a].n \in 0..Qty /\ Qty \in Nat
  BY <1>2, <1>3, ConstantsAssumption DEF LedgerInv, ResultBacked, Backed, TypeOK, ExchangeStates
<1>5. PICK skipped \in SUBSET (1..m) : events' = events \cup {<<a, t>> : t \in (1..m) \ skipped}
  <2>1. \E skipped \in SUBSET (1..hs[h].res.m) :
          events' = events \cup {<<hs[h].a, t>> : t \in (1..hs[h].res.m) \ skipped}
    BY Zenon DEF EmitLifecycleEvents
  <2> QED BY <1>3, <2>1
<1>6. UNCHANGED <<status, orders, fills, ex>> BY DEF EmitLifecycleEvents
<1>7. \A k \in events' : k \in events \/ (k[1] = a /\ k[2] <= ex[a].n)
  <2> SUFFICES ASSUME NEW t \in 1..m PROVE <<a, t>>[1] = a /\ <<a, t>>[2] <= ex[a].n
    BY <1>5
  <2> QED BY <1>4
<1>8. events \subseteq events' BY <1>5
<1> QED BY <1>4, <1>6, <1>7, <1>8, LedgerBooks

\* Every step of the order service is a step of the ledger.
LEMMA LedgerService ==
  ASSUME BaseInv, ServiceNext
  PROVE  LedgerMoves
  BY ServiceCases, LedgerRecords, LedgerSubmits, LedgerExchanges, LedgerStores, LedgerEmits DEF BaseInv

\* So is a step that changes nothing the ledger shows.
LEMMA LedgerStill ==
  ASSUME UNCHANGED <<status, fills, events, ex>>,
         \A b \in Attempts : (HasRow(b)' <=> HasRow(b)) /\ (Tracked(b)' <=> Tracked(b))
  PROVE  LedgerMoves
<1>1. UNCHANGED <<Recorded, Booked>> BY DEF Recorded, Booked
<1>2. UNCHANGED Markets BY DEF Markets, Market
<1>3. UNCHANGED AllBooks BY DEF AllBooks, Books
<1> QED BY <1>1, <1>2, <1>3 DEF LedgerMoves, LedgerStutters

LEMMA LedgerUntouched ==
  ASSUME UNCHANGED <<status, orders, fills, events, ex>>
  PROVE  LedgerMoves
<1>1. \A b \in Attempts : (HasRow(b)' <=> HasRow(b)) /\ (Tracked(b)' <=> Tracked(b))
  BY DEF HasRow, Tracked
<1> QED BY <1>1, LedgerStill

\* A fill event saved in the background books a trade that happened.
LEMMA LedgerSavesFill ==
  ASSUME BaseInv, NEW a \in Attempts, Known(a), NEW t \in 1..Qty, t <= ex[a].n,
         NEW o \in SaveOutcomes, ChargeSave(o), SaveFillEvent(a, t, o),
         UNCHANGED <<intents, status, orders, notes, ex, issued, hs>>
  PROVE  LedgerMoves
<1>1. /\ \A k \in Trades : fills'[k] > 0 => fills[k] > 0 \/ k = <<a, t>>
      /\ events' \subseteq events \cup {<<a, t>>}
      /\ events \subseteq events'
      /\ Onward
  BY SaveFill
<1>2. <<a, t>>[1] = a /\ <<a, t>>[2] <= ex[a].n OBVIOUS
<1> QED BY <1>1, <1>2, LedgerBooks DEF BaseInv, Onward

\* The scanner closes books only when the order is over at the exchange.
LEMMA LedgerCloses ==
  ASSUME RInv, ScanCloses \/ ForceCloses
  PROVE  LedgerMoves
<1> USE DEF RInv, BaseInv
<1>1. PICK a \in Attempts : a = scan.a /\ HasRow(a)
  BY DEF ScanInv, ScanListed, ScanCloses, ForceCloses
<1>2. UNCHANGED <<status, fills, events, ex>> BY DEF ScanCloses, ForceCloses
<1>3. Known(a) BY <1>1 DEF LedgerInv, LedgerBacked
<1>4. isTerminal(ex[a].st)
  BY <1>1 DEF ScanCloses, ForceCloses, ScanInv, ScanShown, Shown, ScanForced
<1>5. CASE orders' = orders BY <1>2, <1>5, LedgerUntouched
<1>6. CASE MarkRecoveryResolved(a) \/ MarkRecoveryExpired(a)
  <2>1. \A b \in Attempts : b # a => orders'[b] = orders[b]
    BY <1>6 DEF MarkRecoveryResolved, MarkRecoveryExpired, TypeOK
  <2>2. \A b \in Attempts : b # a => Books(b)' = Books(b) BY <2>1 DEF Books, HasRow, Tracked
  <2>3. Books(a)' \in {"none", "open", "closed"} BY DEF Books
  <2>4. HasRow(a)'
    <3>0. NoRow.st = "absent" BY DEF NoRow
    <3>1. orders[a] \in OrderRow /\ scan.st \in OrderStatuses
      BY <1>1 DEF TypeOK, HasRow, RTypeOK, ScanStates
    <3>2. CASE MarkRecoveryResolved(a)
      <4>1. orders'[a] = [orders[a] EXCEPT !.st = scan.st, !.n = scan.n, !.rec = scan.st]
        BY <3>2 DEF MarkRecoveryResolved, TypeOK
      <4>2. orders'[a].st = scan.st BY <3>1, <4>1 DEF OrderRow
      <4> QED BY <3>0, <3>1, <4>2 DEF HasRow, OrderStatuses
    <3>3. CASE MarkRecoveryExpired(a)
      <4>1. orders'[a] = [orders[a] EXCEPT !.rec = "RECOVERY_EXPIRED"]
        BY <3>3 DEF MarkRecoveryExpired, TypeOK
      <4>2. orders'[a].st = orders[a].st /\ orders[a].st \in OrderStatuses
        BY <3>1, <4>1 DEF OrderRow
      <4> QED BY <3>0, <4>2 DEF HasRow, OrderStatuses
    <3> QED BY <1>6, <3>2, <3>3
  <2> QED BY <1>2, <1>3, <1>4, <2>2, <2>3, <2>4, LedgerKeeps DEF Books
<1> QED BY <1>1, <1>5, <1>6 DEF ScanCloses, ForceCloses

\* The scanner's steps are steps of the ledger.
LEMMA LedgerScanner ==
  ASSUME RInv, ScannerNext
  PROVE  LedgerMoves
<1> USE DEF tables
<1>1. CASE ListDueOpenOrders \/ ScanReadsTrades \/ ScanLacksTrades \/ ForceQuery \/ ForceQueryFails
           \/ ForceReadsTrades \/ \E a \in Attempts : ScanQueryFails(a) \/ ScanReadsOrder(a)
  <2>1. UNCHANGED <<status, orders, fills, events, ex>>
    BY <1>1, Zenon
    DEF ListDueOpenOrders, ScanReadsTrades, ScanLacksTrades, ForceQuery, ForceQueryFails,
        ForceReadsTrades, ScanQueryFails, ScanReadsOrder, vars
  <2> QED BY <2>1, LedgerUntouched
<1>2. CASE ScanWritesFill
  <2>1. /\ scan.a \in Attempts /\ HasRow(scan.a) /\ Known(scan.a)
        /\ scan.t \in 0..Qty /\ scan.m \in 0..Qty /\ ex[scan.a].n \in 0..Qty /\ Qty \in Nat
        /\ 1 <= scan.t /\ scan.t <= scan.m /\ scan.m <= ex[scan.a].n
    BY <1>2, ConstantsAssumption
    DEF ScanWritesFill, RInv, RTypeOK, ScanStates, ScanInv, ScanListed, ScanWriting, BaseInv,
        TypeOK, ExchangeStates, LedgerInv, LedgerBacked
  <2>2. PICK a \in Attempts, t \in 1..Qty : a = scan.a /\ t = scan.t /\ t <= ex[a].n /\ Known(a)
    BY <2>1
  <2>3. PICK o \in SaveOutcomes : ChargeSave(o) /\ SaveFillEvent(a, t, o)
    BY <1>2, <2>2 DEF ScanWritesFill
  <2> QED BY <1>2, <2>2, <2>3, LedgerSavesFill DEF ScanWritesFill, RInv
<1>3. ASSUME NEW a \in Attempts, ForceCancel(a) PROVE LedgerMoves
  <2>1. (ex[a].st \in OpenStatuses /\ ex' = [ex EXCEPT ![a].st = "CANCELED"]) \/ ex' = ex
    BY <1>3, ForceCancelStep
  <2>2. UNCHANGED <<status, orders, fills, events>> BY <1>3 DEF ForceCancel
  <2> QED BY <2>1, <2>2, LedgerEnds, LedgerUntouched DEF RInv, BaseInv
<1> QED BY <1>1, <1>2, <1>3, LedgerCloses DEF ScannerNext

\* The ingestor's steps are steps of the ledger.
LEMMA LedgerIngestor ==
  ASSUME RInv, IngestorNext
  PROVE  LedgerMoves
<1>1. ASSUME NEW a \in Attempts, NEW t \in 0..Qty, IngestMessage(a, t) PROVE LedgerMoves
  BY <1>1, LedgerUntouched DEF IngestMessage, vars, tables
<1>2. CASE IngestSaves
  <2>1. /\ ws # NoMessage
        /\ UNCHANGED <<intents, status, orders, notes, ex, issued, hs>>
    BY <1>2 DEF IngestSaves
  <2>2. /\ ws[1] \in Attempts /\ ws[2] \in 0..Qty /\ Qty \in Nat
        /\ Known(ws[1]) /\ ws[2] <= ex[ws[1]].n
    BY <2>1, ConstantsAssumption DEF RInv, RTypeOK, MessageInv
  <2>3. CASE ws[2] = 0
    BY <1>2, <2>1, <2>3, LedgerUntouched DEF IngestSaves
  <2>4. CASE ws[2] # 0
    <3>1. PICK a \in Attempts, t \in 1..Qty : a = ws[1] /\ t = ws[2] /\ t <= ex[a].n /\ Known(a)
      BY <2>2, <2>4
    <3>2. PICK o \in SaveOutcomes : ChargeSave(o) /\ SaveFillEvent(a, t, o)
      BY <1>2, <2>4, <3>1 DEF IngestSaves
    <3> QED BY <2>1, <3>1, <3>2, LedgerSavesFill DEF RInv
  <2> QED BY <2>3, <2>4
<1> QED BY <1>1, <1>2 DEF IngestorNext

\* Every step of the order system is a step of the ledger, or leaves it alone.
LEMMA LedgerNext ==
  ASSUME RInv, [RNext]_rvars
  PROVE  [Ledger!LNext]_(Ledger!lvars)
<1>1. ASSUME UNCHANGED rvars PROVE LedgerMoves BY <1>1, LedgerUntouched DEF rvars, vars, tables
<1>2. ASSUME NEW a \in Attempts, DeadlinePasses(a) PROVE LedgerMoves
  <2>1. \A b \in Attempts : (HasRow(b)' <=> HasRow(b)) /\ (Tracked(b)' <=> Tracked(b))
    BY <1>2, DeadlineStep
  <2> QED BY <1>2, <2>1, LedgerStill DEF DeadlinePasses
<1>3. ASSUME ProcessCrash PROVE LedgerMoves BY <1>3, LedgerUntouched DEF ProcessCrash, tables
<1>4. LedgerMoves
  BY <1>1, <1>2, <1>3, LedgerService, LedgerScanner, LedgerIngestor DEF RNext, RInv
<1> QED BY <1>4, Zenon
    DEF LedgerMoves, LedgerStutters, Ledger!lvars, Recorded, Markets, AllBooks, Booked

\* The order system starts with the empty ledger.
LEMMA LedgerStart == RInit => Ledger!LInit
<1> SUFFICES ASSUME RInit PROVE Ledger!LInit
  OBVIOUS
<1>1. Init BY DEF RInit
<1>2. /\ Recorded = {} /\ Booked = {} BY <1>1 DEF Init, Recorded, Booked
<1>3. \A a \in Attempts : Market(a) = [st |-> "none", n |-> 0]
  BY <1>1, MarketOf DEF Init
<1>4. \A a \in Attempts : Books(a) = "none" BY <1>1 DEF Init, Books, HasRow
<1> QED BY <1>2, <1>3, <1>4 DEF Ledger!LInit, Recorded, Booked

\* Handlers, scanner and ingestor keep the ledger's promise, whatever fails.
THEOREM ImplementsLedgerHolds == RSpec => ImplementsLedger
<1>1. RInit => Ledger!LInit BY LedgerStart
<1>2. RInv /\ [RNext]_rvars => [Ledger!LNext]_(Ledger!lvars) BY LedgerNext
<1> QED BY <1>1, <1>2, RecoveryInductive, PTL DEF RSpec, ImplementsLedger, Ledger!LSpec

-----------------------------------------------------------------------------
(* Scanner and ingestor bring back nothing that was written off.              *)

\* What runs in the background touches no attempt that is nowhere at the exchange.
LEMMA FailBackground ==
  ASSUME RInv, FailInv, ScannerNext \/ IngestorNext \/ (\E a \in Attempts : DeadlinePasses(a))
  PROVE  FailInv'
<1> USE DEF tables, vars
<1>1. UNCHANGED <<status, notes, issued, hs>>
  BY ZenonT(60)
  DEF ScannerNext, IngestorNext, DeadlinePasses, ListDueOpenOrders, ScanReadsOrder, ScanQueryFails,
      ScanReadsTrades, ScanLacksTrades, ScanWritesFill, ScanCloses, ForceCancel, ForceQuery,
      ForceQueryFails, ForceReadsTrades, ForceCloses, IngestMessage, IngestSaves
<1>2. \A b \in Attempts : ex[b].st \in Nowhere => ex'[b].st = ex[b].st
  <2>1. ASSUME NEW a \in Attempts, ForceCancel(a)
        PROVE  \A b \in Attempts : ex[b].st \in Nowhere => ex'[b].st = ex[b].st
    BY <2>1, ForceCancelStep DEF OpenStatuses, Nowhere, RInv, BaseInv, TypeOK
  <2>2. CASE ex' = ex BY <2>2
  <2>3. ex' = ex \/ \E a \in Attempts : ForceCancel(a)
    BY ZenonT(60)
    DEF ScannerNext, IngestorNext, DeadlinePasses, ListDueOpenOrders, ScanReadsOrder, ScanQueryFails,
        ScanReadsTrades, ScanLacksTrades, ScanWritesFill, ScanCloses, ForceQuery,
        ForceQueryFails, ForceReadsTrades, ForceCloses, IngestMessage, IngestSaves
  <2> QED BY <2>1, <2>2, <2>3
<1> QED BY <1>1, <1>2, FailUndisturbed DEF RInv, BaseInv

\* Without hazards every step of the order system keeps FailInv.
LEMMA RecoveryFailStep ==
  ASSUME RInv, FailInv, Hazards = {}, [RNext]_rvars
  PROVE  FailInv'
<1> USE DEF RInv, BaseInv
<1>1. CASE ServiceNext
  <2>1. Next BY <1>1 DEF ServiceNext, Next
  <2> QED BY <2>1, FailStep
<1>2. CASE ScannerNext \/ IngestorNext \/ \E a \in Attempts : DeadlinePasses(a)
  BY <1>2, FailBackground
<1>3. CASE ProcessCrash
  <2>1. UNCHANGED <<status, notes, ex, issued>> /\ \A g \in Handlers : hs'[g].pc = "idle"
    BY <1>3 DEF ProcessCrash, tables, Idle
  <2> QED BY <2>1, FailUndisturbed
<1>4. CASE UNCHANGED rvars
  <2>1. Next \/ UNCHANGED vars BY <1>4 DEF rvars
  <2> QED BY <2>1, FailStep
<1> QED BY <1>1, <1>2, <1>3, <1>4 DEF RNext

\* Without hazards no attempt that is called failed has or gets an order, with scanner
\* and ingestor at work.
THEOREM RecoveryFailedNeverLive == Hazards = {} => (RSpec => []FailedNeverLive)
<1> SUFFICES ASSUME Hazards = {} PROVE RSpec => []FailedNeverLive
  OBVIOUS
<1> DEFINE FInv == RInv /\ FailInv
<1>1. RInit => FInv BY RecoveryInit, FailInit DEF RInit
<1>2. FInv /\ [RNext]_rvars => FInv' BY RecoveryStep, RecoveryFailStep
<1>3. FInv => FailedNeverLive
  BY DEF FailInv, FailedIsOff, AnnouncedIsOff, WrittenOff, Nowhere, FailedNeverLive
<1> QED BY <1>1, <1>2, <1>3, PTL DEF RSpec

=============================================================================
