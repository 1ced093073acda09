------------------------- MODULE NotificationsProofs -------------------------
(***************************************************************************)
(* Proofs about Notifications, for any users, chats, codes, partitions and *)
(* callers, any plan, rate, window and code life, and any bound on inputs, *)
(* faults and the clock. The parts of the invariant, besides the types:    *)
(*                                                                         *)
(*   BindInv    a code in a row was made for that row's user and has not   *)
(*              been used, and so was the code the poller is about to bind *)
(*              with, whatever has happened to the row since it looked;    *)
(*   BatchInv   the updates below the one at hand, or below the offset     *)
(*              between two batches, have been handled;                    *)
(*   ReplayInv  the consumer is at most the failed commits ahead of the    *)
(*              committed offset, and what went out at most one further;   *)
(*   RateInv    the limiter's list is the end of the admitted events, the  *)
(*              ones it has forgotten are out of the window, and any       *)
(*              Limit + 1 in a row are a window apart.                     *)
(***************************************************************************)
EXTENDS Notifications, SequenceTheorems, FiniteSetTheorems, TLAPS

Updates == [chat : Chats, code : Codes]

\* Every variable but the limiter's has its type; a sequence of inputs is no longer than
\* the inputs made.
TypeOK ==
  /\ settings \in [Users -> Settings]
  /\ channel \in [Users -> ChannelRow]
  /\ inbox \in Seq(Updates) /\ Len(inbox) <= inputs
  /\ confirmed \in Nat
  /\ poll \in Poll
  /\ log \in [Partitions -> Seq(Event)] /\ \A p \in Partitions : Len(log[p]) <= inputs
  /\ committed \in [Partitions -> Nat \cup {None}]
  /\ marked \in [Partitions -> Nat]
  /\ ds \in [Deliverers -> Delivery \cup Saving \cup {Idle}]
  /\ \A p \in Partitions : ds[p] \in Delivery \cup {Idle}
  /\ now \in 0..MaxTime /\ inputs \in 0..MaxInputs /\ faults \in 0..MaxFaults /\ lost \in Nat
  /\ owner \in [Codes -> Users \cup {None}]
  /\ binds \in [Codes -> Nat]
  /\ handled \subseteq Nat

\* The code of the update at hand.
Sent == inbox[poll.i].code

FreshCodes ==
  /\ \A u \in Users : channel[u].code # None => owner[channel[u].code] = u /\ binds[channel[u].code] = 0
  /\ \A c \in Codes : owner[c] = None => binds[c] = 0

InBatch == poll.pc # "idle" => poll.i \in 1..poll.to /\ poll.to <= Len(inbox)

FoundFresh == poll.pc = "bind" => poll.u \in Users /\ owner[Sent] = poll.u /\ binds[Sent] = 0

BindInv == FreshCodes /\ InBatch /\ FoundFresh /\ TargetProved /\ CodeBindsOnce

BatchInv ==
  /\ ConfirmedIsHandled
  /\ poll.pc = "idle" => 1..(poll.off - 1) \subseteq handled
  /\ poll.pc # "idle" => 1..(poll.i - 1) \subseteq handled

Position(p) ==
  /\ marked[p] <= Len(log[p])
  /\ ds[p] # Idle => ds[p].n = marked[p] + 1 /\ ds[p].n <= Len(log[p])
  /\ committed[p] = None => \A e \in sent : e[1] = p => e[2] <= marked[p] + 1
  /\ committed[p] # None =>
       /\ committed[p] <= marked[p] /\ marked[p] <= committed[p] + lost
       /\ \A e \in sent : e[1] = p => e[2] <= committed[p] + 1 + lost

ReplayInv == sent \subseteq Partitions \X Nat /\ \A p \in Partitions : Position(p)

\* h is the end of a, and what it leaves out is stale; both are sorted, and a holds no
\* Limit + 1 times within a window.
Spaced(a, h) ==
  /\ a \in Seq(0..now) /\ h \in Seq(0..now) /\ Len(h) <= Len(a)
  /\ \A i \in 1..Len(h) : h[i] = a[Len(a) - Len(h) + i]
  /\ \A i \in 1..Len(a) : i <= Len(a) - Len(h) => ~Recent(a[i])
  /\ \A i, j \in 1..Len(a) : i <= j => a[i] <= a[j]
  /\ \A i, j \in 1..Len(a) : j = i + Limit => a[i] + Window <= a[j]

RateInv ==
  /\ hit \in [Users -> Seq(0..now)] /\ admitted \in [Users -> Seq(0..now)]
  /\ \A u \in Users : Spaced(admitted[u], hit[u])

IInv == TypeOK /\ BindInv /\ BatchInv /\ ReplayInv /\ RateInv

-----------------------------------------------------------------------------
(* Deliveries and their locals. *)

LEMMA Constants ==
  /\ MaxInputs \in Nat /\ MaxFaults \in Nat /\ MaxTime \in Nat /\ CodeTTL \in Nat
  /\ Rate \in Nat /\ Burst \in Nat /\ Window \in Nat /\ Limit \in Nat
  BY NotificationConstants DEF Limit

\* Who is neither idle nor saving preferences is delivering.
LEMMA Delivering ==
  ASSUME TypeOK, NEW d \in Deliverers, ds[d].pc \notin {"idle", "save"}
  PROVE  ds[d] \in Delivery /\ ds[d] # Idle
  BY DEF TypeOK, Saving, Idle

\* A delivery is no idle caller.
LEMMA DeliveryIsBusy ==
  ASSUME NEW r \in Delivery
  PROVE  r # Idle
  BY DEF Delivery, Idle

\* What a step of a delivery does to its locals: it stays at its event, or is over.
Moves(d) ==
  \/ d \in Callers /\ ds' = [ds EXCEPT ![d] = Idle]
  \/ \E new \in Delivery : new.n = ds[d].n /\ ds' = [ds EXCEPT ![d] = new]

LEMMA GotoMoves ==
  ASSUME TypeOK, NEW d \in Deliverers, ds[d].pc \notin {"idle", "save"},
         NEW label \in {"settings", "channel", "limit", "send", "status", "mark"}, Goto(d, label)
  PROVE  Moves(d)
<1> DEFINE new == [ds[d] EXCEPT !.pc = label]
<1>1. ds[d] \in Delivery BY Delivering
<1>2. new \in Delivery /\ new.n = ds[d].n BY <1>1 DEF Delivery
<1>3. ds' = [ds EXCEPT ![d] = new] BY DEF Goto
<1> HIDE DEF new
<1> QED BY <1>2, <1>3 DEF Moves

LEMMA ReportMoves ==
  ASSUME TypeOK, NEW d \in Deliverers, ds[d].pc \notin {"idle", "save"}, NEW out \in Outcomes, Report(d, out)
  PROVE  Moves(d)
<1> DEFINE new == [ds[d] EXCEPT !.pc = "status", !.out = out]
<1>1. ds[d] \in Delivery BY Delivering
<1>2. new \in Delivery /\ new.n = ds[d].n BY <1>1 DEF Delivery
<1>3. ds' = [ds EXCEPT ![d] = new] BY DEF Report
<1> HIDE DEF new
<1> QED BY <1>2, <1>3 DEF Moves

LEMMA FinishMoves ==
  ASSUME TypeOK, NEW d \in Deliverers, ds[d].pc \notin {"idle", "save"}, Finish(d)
  PROVE  Moves(d)
<1>1. CASE d \in Partitions BY <1>1, GotoMoves DEF Finish
<1>2. CASE d \notin Partitions BY <1>2 DEF Finish, Moves, Deliverers
<1> QED BY <1>1, <1>2

\* Every step of DeliverEvent moves one delivery.
LEMMA DeliveryStepMoves ==
  ASSUME TypeOK, NEW d \in Deliverers, DeliveryStep(d)
  PROVE  Moves(d) /\ ds[d].pc \in {"settings", "channel", "limit", "send", "status"}
<1>1. CASE ReadSettings(d)
  <2>1. ds[d].pc = "settings" BY <1>1 DEF ReadSettings
  <2>2. PICK b : b = blockedStatus(ds[d].u, ds[d].cat) OBVIOUS
  <2>3. b = None \/ b \in Outcomes BY <2>2 DEF blockedStatus, Outcomes
  <2>4. CASE b = None
    <3>1. Goto(d, "channel") BY <1>1, <2>2, <2>4 DEF ReadSettings
    <3> QED BY <2>1, <3>1, GotoMoves
  <2>5. CASE b # None
    <3>1. Report(d, b) BY <1>1, <2>2, <2>5 DEF ReadSettings
    <3> QED BY <2>1, <2>3, <2>5, <3>1, ReportMoves
  <2> QED BY <2>4, <2>5
<1>2. CASE ReadChannel(d)
  <2>1. ds[d].pc = "channel" BY <1>2 DEF ReadChannel
  <2>2. ds[d] \in Delivery BY <2>1, Delivering
  <2>3. CASE channel[ds[d].u].st = "bound" /\ channel[ds[d].u].target # None
    <3> DEFINE label == IF ds[d].cat = "custom" THEN "limit" ELSE "send"
               new == [ds[d] EXCEPT !.pc = label, !.target = channel[ds[d].u].target]
    <3>1. ds[d].u \in Users BY <2>2 DEF Delivery
    <3>2. channel[ds[d].u].target \in Chats \cup {None} BY <3>1 DEF TypeOK, ChannelRow
    <3>3. new \in Delivery /\ new.n = ds[d].n BY <2>2, <3>2 DEF Delivery
    <3>4. ds' = [ds EXCEPT ![d] = new] BY <1>2, <2>3 DEF ReadChannel
    <3> HIDE DEF new
    <3> QED BY <2>1, <3>3, <3>4 DEF Moves
  <2>4. CASE ~(channel[ds[d].u].st = "bound" /\ channel[ds[d].u].target # None)
    <3>1. Report(d, "unbound") BY <1>2, <2>4 DEF ReadChannel
    <3> QED BY <2>1, <3>1, ReportMoves DEF Outcomes
  <2> QED BY <2>3, <2>4
<1>3. CASE DeliverFails(d) BY <1>3, FinishMoves DEF DeliverFails
<1>4. CASE Allow(d)
  <2>1. ds[d].pc = "limit" /\ (Goto(d, "send") \/ Report(d, "rate_limited")) BY <1>4 DEF Allow
  <2> QED BY <2>1, GotoMoves, ReportMoves DEF Outcomes
<1>5. CASE SendMessage(d)
  <2>1. ds[d].pc = "send" /\ (Report(d, "ok") \/ Report(d, "failed")) BY <1>5 DEF SendMessage
  <2> QED BY <2>1, ReportMoves DEF Outcomes
<1>6. CASE UpdateNotificationDeliveryStatus(d) BY <1>6, FinishMoves DEF UpdateNotificationDeliveryStatus
<1> QED BY <1>1, <1>2, <1>3, <1>4, <1>5, <1>6 DEF DeliveryStep

\* Locals of one deliverer change.
LEMMA LocalsType ==
  ASSUME TypeOK, NEW d \in Deliverers, NEW new \in Delivery \cup Saving \cup {Idle},
         d \in Partitions => new \in Delivery \cup {Idle}, ds' = [ds EXCEPT ![d] = new]
  PROVE  /\ ds' \in [Deliverers -> Delivery \cup Saving \cup {Idle}]
         /\ \A p \in Partitions : ds'[p] \in Delivery \cup {Idle}
  BY DEF TypeOK, Deliverers

LEMMA MovesType ==
  ASSUME TypeOK, NEW d \in Deliverers, Moves(d)
  PROVE  /\ ds' \in [Deliverers -> Delivery \cup Saving \cup {Idle}]
         /\ \A p \in Partitions : ds'[p] \in Delivery \cup {Idle}
<1>1. CASE d \in Callers /\ ds' = [ds EXCEPT ![d] = Idle] BY <1>1, LocalsType
<1>2. ASSUME NEW new \in Delivery, ds' = [ds EXCEPT ![d] = new]
      PROVE  /\ ds' \in [Deliverers -> Delivery \cup Saving \cup {Idle}]
             /\ \A p \in Partitions : ds'[p] \in Delivery \cup {Idle}
  BY <1>2, LocalsType
<1> QED BY <1>1, <1>2 DEF Moves

-----------------------------------------------------------------------------
(* Types. *)

\* A fault that was still allowed.
LEMMA FaultType ==
  ASSUME TypeOK, Fault
  PROVE  faults' \in 0..MaxFaults
  BY Constants DEF TypeOK, Fault, CanFail

\* An input of a user, a chat or another service keeps the types.
LEMMA InputType ==
  ASSUME TypeOK, inputs < MaxInputs, inputs' = inputs + 1, Input
  PROVE  TypeOK'
<1>0. inputs' \in 0..MaxInputs /\ inputs <= inputs' BY Constants DEF TypeOK
<1>0a. /\ \A n \in Nat : n <= inputs => n <= inputs' /\ n + 1 <= inputs'
       /\ Len(inbox) \in Nat /\ \A p \in Partitions : Len(log[p]) \in Nat
  BY LenProperties DEF TypeOK
<1>1. ASSUME NEW u \in Users, Unbind(u) PROVE TypeOK'
  <2>1. PICK row : row = [channel[u] EXCEPT !.st = "revoked", !.target = None, !.code = None, !.exp = 0] OBVIOUS
  <2>2. channel[u] \in ChannelRow BY DEF TypeOK
  <2>3. 0 \in 0..(MaxTime + CodeTTL) BY Constants
  <2>4. row \in ChannelRow BY <2>1, <2>2, <2>3 DEF ChannelRow
  <2>5. channel' = [channel EXCEPT ![u] = row] BY <1>1, <2>1 DEF Unbind
  <2>6. channel' \in [Users -> ChannelRow] BY <2>4, <2>5 DEF TypeOK
  <2> QED BY <1>0, <1>0a, <1>1, <2>6 DEF TypeOK, Unbind, telegram, kafka, history
<1>2. ASSUME NEW u \in Users, NEW c \in Codes, CreateBindCode(u, c) PROVE TypeOK'
  <2>1. PICK st : st = IF channel[u].st = "bound" /\ channel[u].target # None THEN channel[u].st ELSE "pending" OBVIOUS
  <2>2. PICK row : row = [channel[u] EXCEPT !.st = st, !.code = c, !.exp = now + CodeTTL] OBVIOUS
  <2>3. channel[u] \in ChannelRow BY DEF TypeOK
  <2>4. now + CodeTTL \in 0..(MaxTime + CodeTTL) BY Constants DEF TypeOK
  <2>5. st \in {"pending", "bound"} BY <2>1
  <2>6. row \in ChannelRow BY <2>2, <2>3, <2>4, <2>5 DEF ChannelRow
  <2>7. channel' = [channel EXCEPT ![u] = row]
    BY <1>2, <2>1, <2>2 DEF CreateBindCode, UpsertNotificationBindCode
  <2>8. channel' \in [Users -> ChannelRow] BY <2>6, <2>7 DEF TypeOK
  <2>9. owner' \in [Codes -> Users \cup {None}] BY <1>2 DEF CreateBindCode, TypeOK
  <2> QED BY <1>0, <1>0a, <1>2, <2>8, <2>9 DEF TypeOK, CreateBindCode, telegram, kafka
<1>3. ASSUME NEW k \in Callers, NEW u \in Users, UpdatePreferences(k, u) PROVE TypeOK'
  <2>1. PICK on \in SUBSET Switches : settings' = [settings EXCEPT ![u].on = on] BY <1>3 DEF UpdatePreferences
  <2>2. settings' \in [Users -> Settings] BY <2>1 DEF TypeOK, Settings
  <2> QED BY <1>0, <1>0a, <1>3, <2>2 DEF TypeOK, UpdatePreferences, telegram, kafka, history
<1>4. ASSUME NEW k \in Callers, NEW u \in Users, ReadMasterSwitch(k, u) PROVE TypeOK'
  <2>1. PICK new \in Saving : new = [pc |-> "save", u |-> u, on |-> settings[u].on \cap {"enabled"}] BY DEF Saving
  <2>2. ds' = [ds EXCEPT ![k] = new] BY <1>4, <2>1 DEF ReadMasterSwitch
  <2>3. k \in Deliverers /\ k \notin Partitions BY NotificationConstants DEF Deliverers
  <2>4. /\ ds' \in [Deliverers -> Delivery \cup Saving \cup {Idle}]
        /\ \A p \in Partitions : ds'[p] \in Delivery \cup {Idle}
    BY <2>2, <2>3, LocalsType
  <2> QED BY <1>0, <1>0a, <1>4, <2>4 DEF TypeOK, ReadMasterSwitch, tables, telegram, kafka, history
<1>5. ASSUME NEW k \in Callers, NEW u \in Users, SendTest(k, u) PROVE TypeOK'
  <2>0. 0 \in 0..MaxInputs /\ "system" \in Categories BY Constants, NotificationConstants
  <2>1. PICK new \in Delivery :
          new = [pc |-> "settings", u |-> u, cat |-> "system", n |-> 0, target |-> None, out |-> None]
    BY <2>0 DEF Delivery
  <2>2. ds' = [ds EXCEPT ![k] = new] BY <1>5, <2>1 DEF SendTest, StartDelivery
  <2>3. k \in Deliverers BY DEF Deliverers
  <2>4. /\ ds' \in [Deliverers -> Delivery \cup Saving \cup {Idle}]
        /\ \A p \in Partitions : ds'[p] \in Delivery \cup {Idle}
    BY <2>2, <2>3, LocalsType
  <2> QED BY <1>0, <1>0a, <1>5, <2>4 DEF TypeOK, SendTest, tables, telegram, kafka, history
<1>6. ASSUME NEW x \in Chats, NEW c \in Codes, SendCode(x, c) PROVE TypeOK'
  <2>1. PICK m \in Updates : m = [chat |-> x, code |-> c] BY DEF Updates
  <2>2. inbox' = Append(inbox, m) BY <1>6, <2>1 DEF SendCode
  <2>3. inbox' \in Seq(Updates) /\ Len(inbox') = Len(inbox) + 1 BY <2>1, <2>2, AppendProperties DEF TypeOK
  <2>4. Len(inbox') <= inputs' BY <1>0, <1>0a, <2>3 DEF TypeOK
  <2> QED BY <1>0, <1>0a, <1>6, <2>3, <2>4 DEF TypeOK, SendCode, tables, kafka, history
<1>7. ASSUME NEW u \in Users, NEW cat \in Categories \cup {"invalid"}, Publish(u, cat) PROVE TypeOK'
  <2>1. PICK e \in Event : e = [u |-> u, cat |-> cat] BY DEF Event
  <2>2. PICK q \in Partitions : q = PartitionOf[u] BY NotificationConstants
  <2>3. PICK s : s = Append(log[q], e) OBVIOUS
  <2>4. s \in Seq(Event) /\ Len(s) = Len(log[q]) + 1 BY <2>3, AppendProperties DEF TypeOK
  <2>5. log' = [log EXCEPT ![q] = s] BY <1>7, <2>1, <2>2, <2>3 DEF Publish
  <2>6. log' \in [Partitions -> Seq(Event)] BY <2>4, <2>5 DEF TypeOK
  <2>7. \A p \in Partitions : Len(log'[p]) <= inputs' BY <1>0, <1>0a, <2>4, <2>5 DEF TypeOK
  <2> QED BY <1>0, <1>0a, <1>7, <2>6, <2>7 DEF TypeOK, Publish, tables, telegram, history
<1> QED BY <1>1, <1>2, <1>3, <1>4, <1>5, <1>6, <1>7 DEF Input

\* The poller's locals.
LEMMA PollFields ==
  ASSUME TypeOK, BindInv
  PROVE  /\ poll.pc \in {"idle", "find", "bind"} /\ poll.off \in Nat /\ poll.i \in Nat /\ poll.to \in Nat
         /\ poll.u \in Users \cup {None}
         /\ Len(inbox) \in 0..MaxInputs
         /\ poll.pc # "idle" => /\ poll.i \in 1..Len(inbox) /\ poll.i <= poll.to /\ poll.to <= Len(inbox)
                                /\ inbox[poll.i] \in Updates /\ Sent \in Codes
<1>1. /\ poll.pc \in {"idle", "find", "bind"} /\ poll.off \in Nat /\ poll.i \in Nat /\ poll.to \in Nat
      /\ poll.u \in Users \cup {None}
  BY Constants DEF TypeOK, Poll
<1>2. Len(inbox) \in 0..MaxInputs BY LenProperties, Constants DEF TypeOK
<1>3. poll.pc # "idle" => poll.i \in 1..Len(inbox) /\ poll.i <= poll.to /\ poll.to <= Len(inbox)
  BY <1>1, <1>2 DEF BindInv, InBatch
<1>4. poll.i \in 1..Len(inbox) => inbox[poll.i] \in Updates BY ElementOfSeq DEF TypeOK
<1>5. inbox[poll.i] \in Updates => Sent \in Codes BY DEF Updates, Sent
<1> QED BY <1>1, <1>2, <1>3, <1>4, <1>5

\* What the poller does after an update: it goes on, or the batch is over.
LEMMA NextUpdateType ==
  ASSUME TypeOK, BindInv, poll.pc # "idle", NextUpdate
  PROVE  /\ poll' \in Poll /\ handled' = handled \cup {poll.i} /\ handled' \subseteq Nat
         /\ \/ poll'.pc = "idle" /\ poll'.off = poll.i + 1
            \/ poll'.pc = "find" /\ poll'.i = poll.i + 1 /\ poll'.i <= poll'.to /\ poll'.to = poll.to
<1>1. /\ poll \in Poll /\ poll.i \in Nat /\ poll.to \in Nat /\ MaxInputs \in Nat
      /\ poll.i >= 1 /\ poll.i <= poll.to /\ poll.to <= MaxInputs
  BY PollFields, Constants DEF TypeOK
<1>2. handled' = handled \cup {poll.i} /\ handled' \subseteq Nat BY <1>1 DEF NextUpdate, TypeOK
<1>3. CASE poll.i = poll.to
  <2>1. poll' = IdlePoll(poll.i + 1) BY <1>3 DEF NextUpdate
  <2>2. poll.i + 1 \in 0..(MaxInputs + 1) BY <1>1
  <2> QED BY <1>1, <1>2, <2>1, <2>2 DEF IdlePoll, Poll
<1>4. CASE poll.i # poll.to
  <2>1. poll' = [poll EXCEPT !.pc = "find", !.off = poll.i + 1, !.i = poll.i + 1, !.u = None]
    BY <1>4 DEF NextUpdate
  <2>2. poll.i + 1 \in 0..(MaxInputs + 1) /\ poll.i + 1 <= poll.to BY <1>1, <1>4
  <2>3. poll' \in Poll BY <1>1, <2>1, <2>2 DEF Poll
  <2>4. poll'.pc = "find" /\ poll'.i = poll.i + 1 /\ poll'.to = poll.to BY <1>1, <2>1 DEF Poll
  <2> QED BY <1>2, <2>2, <2>3, <2>4
<1> QED BY <1>3, <1>4

\* The poller keeps the types.
LEMMA PollerType ==
  ASSUME TypeOK, BindInv, Poller, inputs' = inputs
  PROVE  TypeOK'
<1>1. CASE GetUpdates
  <2>1. PICK m \in Nat : m = IF poll.off > confirmed THEN poll.off - 1 ELSE confirmed
    BY PollFields DEF TypeOK
  <2>2. confirmed' = m BY <1>1, <2>1 DEF GetUpdates
  <2>3. poll' \in Poll
    <3>1. CASE m < Len(inbox)
      <4>1. m + 1 \in 0..(MaxInputs + 1) /\ Len(inbox) \in 0..MaxInputs BY <2>1, <3>1, PollFields, Constants
      <4>2. poll' = [poll EXCEPT !.pc = "find", !.i = m + 1, !.to = Len(inbox)]
        BY <1>1, <2>2, <3>1 DEF GetUpdates
      <4> QED BY <4>1, <4>2 DEF TypeOK, Poll
    <3>2. CASE ~(m < Len(inbox))
      <4>1. poll' = poll BY <1>1, <2>2, <3>2 DEF GetUpdates
      <4> QED BY <4>1 DEF TypeOK
    <3> QED BY <3>1, <3>2
  <2> QED BY <1>1, <2>1, <2>2, <2>3 DEF TypeOK, GetUpdates, tables, kafka, history
<1>2. CASE FindChannel
  <2>1. poll.pc = "find" BY <1>2 DEF FindChannel
  <2>2. /\ poll' \in Poll /\ handled' \subseteq Nat /\ faults' \in 0..MaxFaults
    <3>1. CASE NextUpdate /\ (UNCHANGED faults \/ Fault)
      BY <2>1, <3>1, NextUpdateType, FaultType DEF TypeOK
    <3>2. ASSUME NEW u \in Users, poll' = [poll EXCEPT !.pc = "bind", !.off = poll.i + 1, !.u = u],
                 UNCHANGED <<faults, handled>>
          PROVE  poll' \in Poll /\ handled' \subseteq Nat /\ faults' \in 0..MaxFaults
      <4>1. poll.i + 1 \in 0..(MaxInputs + 1) BY <2>1, PollFields, Constants
      <4> QED BY <3>2, <4>1 DEF TypeOK, Poll
    <3> QED BY <1>2, <3>1, <3>2 DEF FindChannel, FindNotificationChannelByBindCodeHash
  <2> QED BY <1>2, <2>2 DEF TypeOK, FindChannel, tables, kafka
<1>3. CASE BindNotificationChannel
  <2>1. poll.pc = "bind" BY <1>3 DEF BindNotificationChannel
  <2>2. poll' \in Poll /\ handled' \subseteq Nat BY <1>3, <2>1, NextUpdateType DEF BindNotificationChannel
  <2>3. faults' \in 0..MaxFaults BY <1>3, FaultType DEF BindNotificationChannel, TypeOK
  <2>4. channel' \in [Users -> ChannelRow] /\ binds' \in [Codes -> Nat]
    <3>1. ASSUME channel' = Bound(poll.u, None), binds' = [binds EXCEPT ![Sent] = @ + 1]
          PROVE  channel' \in [Users -> ChannelRow] /\ binds' \in [Codes -> Nat]
      <4>1. PICK x \in Chats, u \in Users : x = inbox[poll.i].chat /\ u = poll.u
        BY <2>1, PollFields DEF Updates, BindInv, FoundFresh
      <4>2. PICK row : row = [channel[u] EXCEPT !.st = "bound", !.target = x, !.code = None, !.exp = 0] OBVIOUS
      <4>3. channel' = [channel EXCEPT ![u] = row] BY <3>1, <4>1, <4>2 DEF Bound
      <4>4. 0 \in 0..(MaxTime + CodeTTL) /\ channel[u] \in ChannelRow BY Constants DEF TypeOK
      <4>5. row \in ChannelRow BY <4>2, <4>4 DEF ChannelRow
      <4>6. channel' \in [Users -> ChannelRow] BY <4>3, <4>5 DEF TypeOK
      <4>7. binds' \in [Codes -> Nat]
        <5>1. PICK c \in Codes : c = Sent BY <2>1, PollFields
        <5>2. binds \in [Codes -> Nat] /\ binds[c] + 1 \in Nat BY DEF TypeOK
        <5>3. binds' = [binds EXCEPT ![c] = binds[c] + 1] BY <3>1, <5>1
        <5> QED BY <5>2, <5>3
      <4> QED BY <4>6, <4>7
    <3>2. CASE UNCHANGED <<channel, binds>> BY <3>2 DEF TypeOK
    <3> QED BY <1>3, <3>1, <3>2 DEF BindNotificationChannel, Sent
  <2> QED BY <1>3, <2>2, <2>3, <2>4 DEF TypeOK, BindNotificationChannel, kafka
<1> QED BY <1>1, <1>2, <1>3 DEF Poller

\* Deliveries, the consumer, restarts and the clock keep the types.
LEMMA ServiceType ==
  ASSUME TypeOK, ReplayInv, inputs' = inputs,
         \/ \E k \in Callers : SavePreferences(k)
         \/ \E p \in Partitions : ConsumeClaim(p) \/ CommitMessage(p)
         \/ \E d \in Deliverers : DeliveryStep(d)
         \/ Restart \/ Tick
  PROVE  TypeOK'
<1>1. ASSUME NEW k \in Callers, SavePreferences(k) PROVE TypeOK'
  <2>1. k \in Deliverers BY DEF Deliverers
  <2>2. ds[k] \in Saving
    <3>1. ds[k] \in Delivery \cup Saving \cup {Idle} /\ ds[k].pc = "save" BY <1>1, <2>1 DEF SavePreferences, TypeOK
    <3>2. \A r \in Delivery : r.pc # "save" BY DEF Delivery
    <3>3. Idle.pc # "save" BY DEF Idle
    <3> QED BY <3>1, <3>2, <3>3
  <2>3. PICK u \in Users, all \in SUBSET Switches : settings' = [settings EXCEPT ![u].on = all]
    <3>1. PICK on \in SUBSET Categories : settings' = [settings EXCEPT ![ds[k].u].on = ds[k].on \cup on]
      BY <1>1 DEF SavePreferences
    <3>2. ds[k].u \in Users /\ ds[k].on \cup on \in SUBSET Switches BY <2>2 DEF Saving, Switches
    <3> QED BY <3>1, <3>2
  <2>4. settings' \in [Users -> Settings] BY <2>3 DEF TypeOK, Settings
  <2>5. ds' = [ds EXCEPT ![k] = Idle] BY <1>1 DEF SavePreferences
  <2>6. /\ ds' \in [Deliverers -> Delivery \cup Saving \cup {Idle}]
        /\ \A p \in Partitions : ds'[p] \in Delivery \cup {Idle}
    BY <2>1, <2>5, LocalsType
  <2> QED BY <1>1, <2>4, <2>6 DEF TypeOK, SavePreferences, telegram, kafka, history
<1>2. ASSUME NEW p \in Partitions, ConsumeClaim(p) PROVE TypeOK'
  <2>1. marked[p] + 1 \in 1..Len(log[p]) /\ marked[p] + 1 \in 0..MaxInputs
    BY <1>2, LenProperties, Constants DEF ConsumeClaim, TypeOK
  <2>2. PICK e \in Event : e = log[p][marked[p] + 1] BY <2>1, ElementOfSeq DEF TypeOK
  <2>3. PICK label \in {"mark", "settings"} : label = IF e.cat = "invalid" THEN "mark" ELSE "settings" OBVIOUS
  <2>4. PICK new \in Delivery :
          new = [pc |-> label, u |-> e.u, cat |-> e.cat, n |-> marked[p] + 1, target |-> None, out |-> None]
    BY <2>1, <2>3 DEF Event, Delivery
  <2>5. ds' = [ds EXCEPT ![p] = new] BY <1>2, <2>2, <2>3, <2>4 DEF ConsumeClaim, StartDelivery
  <2>6. /\ ds' \in [Deliverers -> Delivery \cup Saving \cup {Idle}]
        /\ \A q \in Partitions : ds'[q] \in Delivery \cup {Idle}
    BY <2>5, LocalsType DEF Deliverers
  <2> QED BY <1>2, <2>6 DEF TypeOK, ConsumeClaim, tables, telegram, kafka, history
<1>3. ASSUME NEW p \in Partitions, CommitMessage(p) PROVE TypeOK'
  <2>1. ds[p] \in Delivery /\ p \in Deliverers BY <1>3, Delivering DEF CommitMessage, Deliverers
  <2>2. ds[p].n \in Nat BY <2>1, Constants DEF Delivery
  <2>3. /\ ds' \in [Deliverers -> Delivery \cup Saving \cup {Idle}]
        /\ \A q \in Partitions : ds'[q] \in Delivery \cup {Idle}
    BY <1>3, <2>1, LocalsType DEF CommitMessage
  <2>4. /\ marked' \in [Partitions -> Nat] /\ committed' \in [Partitions -> Nat \cup {None}]
        /\ faults' \in 0..MaxFaults /\ lost' \in Nat
    <3>1. marked' \in [Partitions -> Nat] BY <1>3, <2>2 DEF CommitMessage, TypeOK
    <3>2. CASE committed' = [committed EXCEPT ![p] = ds[p].n] /\ UNCHANGED <<faults, lost>>
      BY <2>2, <3>1, <3>2 DEF TypeOK
    <3>3. CASE Fault /\ lost' = lost + 1 /\ UNCHANGED committed
      BY <3>1, <3>3, FaultType DEF TypeOK
    <3> QED BY <1>3, <3>2, <3>3 DEF CommitMessage
  <2> QED BY <1>3, <2>3, <2>4 DEF TypeOK, CommitMessage, tables, telegram, history
<1>4. ASSUME NEW d \in Deliverers, DeliveryStep(d) PROVE TypeOK'
  <2>1. /\ Moves(d) /\ ds[d].pc \in {"settings", "channel", "limit", "send", "status"}
    BY <1>4, DeliveryStepMoves
  <2>2. /\ ds' \in [Deliverers -> Delivery \cup Saving \cup {Idle}]
        /\ \A p \in Partitions : ds'[p] \in Delivery \cup {Idle}
    BY <2>1, MovesType
  <2>3. CASE ReadSettings(d) \/ ReadChannel(d)
    BY <2>2, <2>3 DEF TypeOK, ReadSettings, ReadChannel, tables, telegram, kafka, history
  <2>4. CASE DeliverFails(d)
    <3>1. faults' \in 0..MaxFaults BY <2>4, FaultType DEF DeliverFails
    <3> QED BY <2>2, <2>4, <3>1 DEF TypeOK, DeliverFails, tables, telegram, kafka, history
  <2>5. CASE Allow(d) BY <2>2, <2>5 DEF TypeOK, Allow, tables, telegram, kafka
  <2>6. CASE SendMessage(d)
    <3>1. faults' \in 0..MaxFaults BY <2>6, FaultType DEF SendMessage, TypeOK
    <3> QED BY <2>2, <2>6, <3>1 DEF TypeOK, SendMessage, tables, telegram, kafka
  <2>7. CASE UpdateNotificationDeliveryStatus(d)
    <3>1. faults' \in 0..MaxFaults BY <2>7, FaultType DEF UpdateNotificationDeliveryStatus, TypeOK
    <3>2. PICK u \in Users, out \in Outcomes \cup {None} : u = ds[d].u /\ out = ds[d].out
      BY <2>1, Delivering DEF Delivery
    <3>3. settings' \in [Users -> Settings] /\ channel' \in [Users -> ChannelRow]
      <4>1. CASE UNCHANGED <<settings, channel>> BY <4>1 DEF TypeOK
      <4>2. CASE /\ settings' = [settings EXCEPT ![u].last = out]
                 /\ channel' = [channel EXCEPT ![u].last = out]
        <5>1. PICK row : row = [channel[u] EXCEPT !.last = out] OBVIOUS
        <5>2. channel[u] \in ChannelRow BY DEF TypeOK
        <5>3. row \in ChannelRow BY <5>1, <5>2 DEF ChannelRow
        <5>4. channel' = [channel EXCEPT ![u] = row] BY <4>2, <5>1
        <5>5. channel' \in [Users -> ChannelRow] BY <5>3, <5>4 DEF TypeOK
        <5>6. settings' \in [Users -> Settings] BY <4>2 DEF TypeOK, Settings
        <5> QED BY <5>5, <5>6
      <4> QED BY <2>7, <3>2, <4>1, <4>2 DEF UpdateNotificationDeliveryStatus
    <3> QED BY <2>2, <2>7, <3>1, <3>3 DEF TypeOK, UpdateNotificationDeliveryStatus, telegram, kafka, history
  <2> QED BY <1>4, <2>3, <2>4, <2>5, <2>6, <2>7 DEF DeliveryStep
<1>5. CASE Restart
  <2>1. faults' \in 0..MaxFaults BY <1>5, FaultType DEF Restart
  <2>2. poll' \in Poll BY <1>5, Constants DEF Restart, IdlePoll, Poll
  <2>3. \A p \in Partitions : StartAt(p) \in Nat BY LenProperties DEF TypeOK, StartAt
  <2>4. marked' \in [Partitions -> Nat] BY <1>5, <2>3 DEF Restart
  <2>5. /\ ds' \in [Deliverers -> Delivery \cup Saving \cup {Idle}]
        /\ \A p \in Partitions : ds'[p] \in Delivery \cup {Idle}
    BY <1>5 DEF Restart, Deliverers
  <2> QED BY <1>5, <2>1, <2>2, <2>4, <2>5 DEF TypeOK, Restart, tables
<1>6. CASE Tick
  <2>1. now' \in 0..MaxTime BY <1>6, Constants DEF Tick, TypeOK
  <2> QED BY <1>6, <2>1 DEF TypeOK, Tick, tables, telegram, kafka, history
<1> QED BY <1>1, <1>2, <1>3, <1>4, <1>5, <1>6

\* Every step keeps the types.
LEMMA TypeStep ==
  ASSUME IInv, Next
  PROVE  TypeOK'
<1>1. CASE inputs < MaxInputs /\ inputs' = inputs + 1 /\ Input BY <1>1, InputType DEF IInv
<1>2. CASE Step /\ UNCHANGED inputs BY <1>2, PollerType, ServiceType DEF IInv, Step
<1> QED BY <1>1, <1>2 DEF Next

-----------------------------------------------------------------------------
(* Codes and channels. *)

\* Steps that leave codes, targets and the poller alone.
LEMMA BindFrame ==
  ASSUME BindInv, UNCHANGED <<inbox, poll, owner, binds>>,
         \A u \in Users : channel'[u].code = channel[u].code /\ channel'[u].target = channel[u].target
  PROVE  BindInv'
<1>1. FreshCodes' BY DEF BindInv, FreshCodes
<1>2. InBatch' /\ FoundFresh' BY DEF BindInv, InBatch, FoundFresh, Sent
<1>3. TargetProved' /\ CodeBindsOnce' BY DEF BindInv, TargetProved, CodeBindsOnce
<1> QED BY <1>1, <1>2, <1>3 DEF BindInv

\* A code is drawn for a user: nobody has used it, and no other row holds it.
LEMMA CreateBind ==
  ASSUME IInv, NEW u \in Users, NEW c \in Codes, CreateBindCode(u, c)
  PROVE  BindInv'
<1>1. owner[c] = None /\ binds[c] = 0 /\ owner' = [owner EXCEPT ![c] = u] /\ UNCHANGED <<inbox, poll, binds>>
  BY DEF CreateBindCode, randomBindCode, IInv, BindInv, FreshCodes, telegram
<1>2. \A d \in Codes : d # c => owner'[d] = owner[d] BY <1>1 DEF IInv, TypeOK
<1>2a. owner'[c] = u BY <1>1 DEF IInv, TypeOK
<1>3. /\ channel'[u].code = c /\ channel'[u].target = channel[u].target
      /\ \A w \in Users : w # u => channel'[w] = channel[w]
  BY DEF CreateBindCode, UpsertNotificationBindCode, IInv, TypeOK, ChannelRow
<1>4. \A w \in Users : channel[w].code \in Codes \cup {None} BY DEF IInv, TypeOK, ChannelRow
<1>5. u # None /\ \A w \in Users : w # None BY NotificationConstants
<1>6. FreshCodes' BY <1>1, <1>2, <1>2a, <1>3, <1>4, <1>5 DEF IInv, BindInv, FreshCodes
<1>7. InBatch' BY <1>1 DEF IInv, BindInv, InBatch
<1>8. FoundFresh'
  <2>1. poll.pc = "bind" => Sent \in Codes BY PollFields DEF IInv
  <2> QED BY <1>1, <1>2, <1>5, <2>1 DEF IInv, BindInv, FoundFresh, Sent
<1>9. TargetProved'
  <2>1. ASSUME NEW i \in 1..Len(inbox), owner[inbox[i].code] # None
        PROVE  owner'[inbox[i].code] = owner[inbox[i].code]
    <3>1. inbox[i] \in Updates BY ElementOfSeq DEF IInv, TypeOK
    <3> QED BY <1>1, <1>2, <2>1, <3>1 DEF Updates
  <2> QED BY <1>1, <1>3, <1>5, <2>1 DEF IInv, BindInv, TargetProved
<1>10. CodeBindsOnce' BY <1>1 DEF IInv, BindInv, CodeBindsOnce
<1> QED BY <1>6, <1>7, <1>8, <1>9, <1>10 DEF BindInv

\* An unbind takes code and target away.
LEMMA UnbindBind ==
  ASSUME IInv, NEW u \in Users, Unbind(u)
  PROVE  BindInv'
<1>1. UNCHANGED <<inbox, poll, owner, binds>> BY DEF Unbind, telegram, history
<1>2. /\ channel'[u].code = None /\ channel'[u].target = None
      /\ \A w \in Users : w # u => channel'[w] = channel[w]
  BY DEF Unbind, IInv, TypeOK, ChannelRow
<1>3. FreshCodes' BY <1>1, <1>2 DEF IInv, BindInv, FreshCodes
<1>4. InBatch' /\ FoundFresh' BY <1>1 DEF IInv, BindInv, InBatch, FoundFresh, Sent
<1>5. TargetProved' /\ CodeBindsOnce' BY <1>1, <1>2 DEF IInv, BindInv, TargetProved, CodeBindsOnce
<1> QED BY <1>3, <1>4, <1>5 DEF BindInv

\* An update joins the ones that are there.
LEMMA SendCodeBind ==
  ASSUME IInv, NEW x \in Chats, NEW c \in Codes, SendCode(x, c)
  PROVE  BindInv'
<1>1. UNCHANGED <<channel, poll, owner, binds>> BY DEF SendCode, tables, history
<1>2. PICK m \in Updates : inbox' = Append(inbox, m) BY DEF SendCode, Updates
<1>3. /\ Len(inbox) \in Nat /\ Len(inbox') = Len(inbox) + 1
      /\ \A i \in 1..Len(inbox) : inbox'[i] = inbox[i]
  BY <1>2, AppendProperties, LenProperties DEF IInv, TypeOK
<1>4. FreshCodes' /\ CodeBindsOnce' BY <1>1 DEF IInv, BindInv, FreshCodes, CodeBindsOnce
<1>5. /\ poll.pc \in {"idle", "find", "bind"} /\ poll.i \in Nat /\ poll.to \in Nat
      /\ poll.pc # "idle" => poll.i \in 1..Len(inbox) /\ poll.to <= Len(inbox)
  BY PollFields DEF IInv
<1>6. InBatch' BY <1>1, <1>3, <1>5 DEF IInv, BindInv, InBatch
<1>7. FoundFresh' BY <1>1, <1>3, <1>5 DEF IInv, BindInv, FoundFresh, Sent
<1>8. TargetProved'
  <2>1. 1..Len(inbox) \subseteq 1..Len(inbox') BY <1>3
  <2> QED BY <1>1, <1>3, <2>1 DEF IInv, BindInv, TargetProved
<1> QED BY <1>4, <1>6, <1>7, <1>8 DEF BindInv

\* The poller goes on or stops: it has found nothing.
LEMMA PollNextBind ==
  ASSUME IInv, poll.pc # "idle", NextUpdate, UNCHANGED inbox
  PROVE  InBatch' /\ FoundFresh'
<1>1. /\ poll.i \in Nat /\ poll.to \in Nat /\ poll.i >= 1 /\ poll.to <= Len(inbox)
  BY PollFields DEF IInv
<1>2. \/ poll'.pc = "idle"
      \/ poll'.pc = "find" /\ poll'.i = poll.i + 1 /\ poll'.i <= poll'.to /\ poll'.to = poll.to
  BY NextUpdateType DEF IInv
<1> QED BY <1>1, <1>2 DEF InBatch, FoundFresh

\* The poller binds the channel of the user for whom the code was made, and takes
\* the code, or one that user has drawn since, out of the row.
LEMMA PollerBind ==
  ASSUME IInv, Poller
  PROVE  BindInv'
<1>1. CASE GetUpdates
  <2>1. UNCHANGED <<channel, inbox, owner, binds>> BY <1>1 DEF GetUpdates, tables, history
  <2>2. poll.pc = "idle" BY <1>1 DEF GetUpdates
  <2>3. InBatch' /\ FoundFresh'
    <3>1. PICK m \in Nat : m = IF poll.off > confirmed THEN poll.off - 1 ELSE confirmed
      BY PollFields DEF IInv, TypeOK
    <3>2. confirmed' = m BY <1>1, <3>1 DEF GetUpdates
    <3>3. CASE m < Len(inbox)
      <4>1. poll' = [poll EXCEPT !.pc = "find", !.i = m + 1, !.to = Len(inbox)]
        BY <1>1, <3>2, <3>3 DEF GetUpdates
      <4>2. poll'.pc = "find" /\ poll'.i = m + 1 /\ poll'.to = Len(inbox) BY <4>1 DEF IInv, TypeOK, Poll
      <4>3. Len(inbox) \in Nat BY PollFields DEF IInv
      <4> QED BY <2>1, <3>1, <3>3, <4>2, <4>3 DEF InBatch, FoundFresh
    <3>4. CASE ~(m < Len(inbox))
      <4>1. poll' = poll BY <1>1, <3>2, <3>4 DEF GetUpdates
      <4> QED BY <2>2, <4>1 DEF InBatch, FoundFresh
    <3> QED BY <3>3, <3>4
  <2>4. FreshCodes' /\ TargetProved' /\ CodeBindsOnce'
    BY <2>1 DEF IInv, BindInv, FreshCodes, TargetProved, CodeBindsOnce
  <2> QED BY <2>3, <2>4 DEF BindInv
<1>2. CASE FindChannel
  <2>1. UNCHANGED <<channel, inbox, owner, binds>> BY <1>2 DEF FindChannel, tables
  <2>2. poll.pc = "find" BY <1>2 DEF FindChannel
  <2>3. FreshCodes' /\ TargetProved' /\ CodeBindsOnce'
    BY <2>1 DEF IInv, BindInv, FreshCodes, TargetProved, CodeBindsOnce
  <2>4. InBatch' /\ FoundFresh'
    <3>1. ASSUME NEW u \in FindNotificationChannelByBindCodeHash(Sent),
                 poll' = [poll EXCEPT !.pc = "bind", !.off = poll.i + 1, !.u = u]
          PROVE  InBatch' /\ FoundFresh'
      <4>1. poll'.pc = "bind" /\ poll'.i = poll.i /\ poll'.to = poll.to /\ poll'.u = u
        BY <3>1 DEF IInv, TypeOK, Poll
      <4>2. u \in Users /\ channel[u].code = Sent /\ Sent \in Codes
        BY <2>2, PollFields DEF FindNotificationChannelByBindCodeHash, IInv
      <4>3. owner[Sent] = u /\ binds[Sent] = 0
        BY <4>2, NotificationConstants DEF IInv, BindInv, FreshCodes
      <4>4. Sent' = Sent BY <2>1, <4>1 DEF Sent
      <4>5. InBatch' BY <2>1, <2>2, <4>1 DEF IInv, BindInv, InBatch
      <4> QED BY <2>1, <4>1, <4>2, <4>3, <4>4, <4>5 DEF FoundFresh
    <3>2. CASE NextUpdate BY <2>1, <2>2, <3>2, PollNextBind
    <3> QED BY <1>2, <3>1, <3>2 DEF FindChannel, Sent
  <2> QED BY <2>3, <2>4 DEF BindInv
<1>3. CASE BindNotificationChannel
  <2>1. UNCHANGED <<inbox, owner>> /\ poll.pc = "bind" /\ NextUpdate BY <1>3 DEF BindNotificationChannel
  <2>2. InBatch' /\ FoundFresh' BY <2>1, PollNextBind
  <2>3. ASSUME channel' = Bound(poll.u, None), binds' = [binds EXCEPT ![Sent] = @ + 1]
        PROVE  FreshCodes' /\ TargetProved' /\ CodeBindsOnce'
    <3>1. PICK u \in Users, c \in Codes : u = poll.u /\ c = Sent
      BY <2>1, PollFields DEF IInv, BindInv, FoundFresh
    <3>2. owner[c] = u /\ binds[c] = 0 /\ u # None
      BY <2>1, <3>1, NotificationConstants DEF IInv, BindInv, FoundFresh
    <3>3. binds'[c] = 1 /\ \A e \in Codes : e # c => binds'[e] = binds[e]
      BY <2>3, <3>1, <3>2 DEF IInv, TypeOK
    <3>4. /\ channel'[u].code = None /\ channel'[u].target = inbox[poll.i].chat
          /\ \A w \in Users : w # u => channel'[w] = channel[w]
      <4>1. channel' = [channel EXCEPT ![u] = [channel[u] EXCEPT !.st = "bound", !.target = inbox[poll.i].chat,
                                                                 !.code = None, !.exp = 0]]
        BY <2>3, <3>1 DEF Bound
      <4> QED BY <4>1 DEF IInv, TypeOK, ChannelRow
    <3>5. \A w \in Users : channel[w].code \in Codes \cup {None} BY DEF IInv, TypeOK, ChannelRow
    <3>6. FreshCodes' BY <2>1, <3>2, <3>3, <3>4, <3>5 DEF IInv, BindInv, FreshCodes
    <3>7. poll.i \in 1..Len(inbox) BY <2>1, PollFields DEF IInv
    <3>8. TargetProved'
      BY <2>1, <3>1, <3>2, <3>4, <3>7 DEF IInv, BindInv, TargetProved, Sent
    <3>9. CodeBindsOnce' BY <3>3 DEF IInv, BindInv, CodeBindsOnce
    <3> QED BY <3>6, <3>8, <3>9
  <2>4. ASSUME UNCHANGED <<channel, binds>>
        PROVE  FreshCodes' /\ TargetProved' /\ CodeBindsOnce'
    <3>1. UNCHANGED <<channel, binds, inbox, owner>> BY <2>1, <2>4
    <3> QED BY <3>1 DEF IInv, BindInv, FreshCodes, TargetProved, CodeBindsOnce
  <2>5. \/ channel' = Bound(poll.u, None) /\ binds' = [binds EXCEPT ![Sent] = @ + 1]
        \/ UNCHANGED <<channel, binds>>
    BY <1>3 DEF BindNotificationChannel, Sent
  <2>6. FreshCodes' /\ TargetProved' /\ CodeBindsOnce' BY <2>3, <2>4, <2>5
  <2> QED BY <2>2, <2>6 DEF BindInv
<1> QED BY <1>1, <1>2, <1>3 DEF Poller

\* Every step keeps what is known of codes and channels.
LEMMA BindStep ==
  ASSUME IInv, Next
  PROVE  BindInv'
<1>1. CASE Input
  <2>1. ASSUME NEW k \in Callers, NEW u \in Users,
               UpdatePreferences(k, u) \/ ReadMasterSwitch(k, u) \/ SendTest(k, u)
        PROVE  BindInv'
    <3>1. UNCHANGED <<channel, inbox, poll, owner, binds>>
      BY <2>1 DEF UpdatePreferences, ReadMasterSwitch, SendTest, tables, telegram, history
    <3> QED BY <3>1, BindFrame DEF IInv
  <2>2. ASSUME NEW u \in Users, NEW cat \in Categories \cup {"invalid"}, Publish(u, cat) PROVE BindInv'
    <3>1. UNCHANGED <<channel, inbox, poll, owner, binds>> BY <2>2 DEF Publish, tables, telegram, history
    <3> QED BY <3>1, BindFrame DEF IInv
  <2> QED BY <1>1, <2>1, <2>2, CreateBind, UnbindBind, SendCodeBind DEF Input
<1>2. ASSUME NEW k \in Callers, SavePreferences(k) PROVE BindInv'
  <2>1. UNCHANGED <<channel, inbox, poll, owner, binds>> BY <1>2 DEF SavePreferences, telegram, history
  <2> QED BY <2>1, BindFrame DEF IInv
<1>3. ASSUME NEW p \in Partitions, ConsumeClaim(p) \/ CommitMessage(p) PROVE BindInv'
  <2>1. UNCHANGED <<channel, inbox, poll, owner, binds>>
    BY <1>3 DEF ConsumeClaim, CommitMessage, tables, telegram, history
  <2> QED BY <2>1, BindFrame DEF IInv
<1>4. ASSUME NEW d \in Deliverers, DeliveryStep(d) PROVE BindInv'
  <2>1. CASE UpdateNotificationDeliveryStatus(d)
    <3>1. UNCHANGED <<inbox, poll, owner, binds>>
      BY <2>1 DEF UpdateNotificationDeliveryStatus, telegram, history
    <3>2. \A u \in Users : channel'[u].code = channel[u].code /\ channel'[u].target = channel[u].target
      <4>1. ds[d].u \in Users BY <2>1, Delivering DEF UpdateNotificationDeliveryStatus, IInv, Delivery
      <4>2. channel' = channel \/ channel' = [channel EXCEPT ![ds[d].u].last = ds[d].out]
        BY <2>1 DEF UpdateNotificationDeliveryStatus
      <4>3. ASSUME NEW u \in Users
            PROVE  channel'[u] = channel[u] \/ channel'[u] = [channel[u] EXCEPT !.last = ds[d].out]
        BY <4>1, <4>2 DEF IInv, TypeOK
      <4>4. ASSUME NEW r \in ChannelRow, NEW out
            PROVE  [r EXCEPT !.last = out].code = r.code /\ [r EXCEPT !.last = out].target = r.target
        BY DEF ChannelRow
      <4>5. \A u \in Users : channel[u] \in ChannelRow BY DEF IInv, TypeOK
      <4>6. ASSUME NEW u \in Users
            PROVE  channel'[u].code = channel[u].code /\ channel'[u].target = channel[u].target
        <5>1. CASE channel'[u] = channel[u] BY <5>1
        <5>2. CASE channel'[u] = [channel[u] EXCEPT !.last = ds[d].out]
          <6>1. PICK r, out : r \in ChannelRow /\ r = channel[u] /\ out = ds[d].out BY <4>5
          <6>2. channel'[u] = [r EXCEPT !.last = out] BY <5>2, <6>1
          <6> QED BY <4>4, <6>1, <6>2
        <5> QED BY <4>3, <5>1, <5>2
      <4> QED BY <4>6
    <3> QED BY <3>1, <3>2, BindFrame DEF IInv
  <2>2. CASE ~UpdateNotificationDeliveryStatus(d)
    <3>1. UNCHANGED <<channel, inbox, poll, owner, binds>>
      BY <1>4, <2>2
      DEF DeliveryStep, ReadSettings, ReadChannel, DeliverFails, Allow, SendMessage, tables, telegram, history
    <3> QED BY <3>1, BindFrame DEF IInv
  <2> QED BY <2>1, <2>2
<1>5. CASE Restart
  <2>1. UNCHANGED <<channel, inbox, owner, binds>> /\ poll'.pc = "idle" BY <1>5 DEF Restart, tables, IdlePoll
  <2>2. FreshCodes' BY <2>1 DEF IInv, BindInv, FreshCodes
  <2>3. InBatch' /\ FoundFresh' BY <2>1 DEF InBatch, FoundFresh
  <2>4. TargetProved' /\ CodeBindsOnce' BY <2>1 DEF IInv, BindInv, TargetProved, CodeBindsOnce
  <2> QED BY <2>2, <2>3, <2>4 DEF BindInv
<1>6. CASE Tick
  <2>1. UNCHANGED <<channel, inbox, poll, owner, binds>> BY <1>6 DEF Tick, tables, telegram, history
  <2> QED BY <2>1, BindFrame DEF IInv
<1> QED BY <1>1, <1>2, <1>3, <1>4, <1>5, <1>6, PollerBind DEF Next, Step

-----------------------------------------------------------------------------
(* Updates. *)

\* The poller asks for a later offset only when everything below it has been handled.
LEMMA BatchStep ==
  ASSUME IInv, Next
  PROVE  BatchInv'
<1>0. confirmed \in Nat /\ poll.i \in Nat /\ poll.off \in Nat /\ Len(inbox) \in Nat
  BY PollFields DEF IInv, TypeOK
<1>1. CASE UNCHANGED <<confirmed, poll, handled>> BY <1>1 DEF IInv, BatchInv, ConfirmedIsHandled
<1>2. CASE GetUpdates
  <2>1. PICK m \in Nat : m = IF poll.off > confirmed THEN poll.off - 1 ELSE confirmed BY <1>0
  <2>2. confirmed' = m /\ handled' = handled /\ poll.pc = "idle" BY <1>2, <2>1 DEF GetUpdates, history
  <2>3. 1..m \subseteq handled BY <2>1, <2>2 DEF IInv, BatchInv, ConfirmedIsHandled
  <2>4. CASE m < Len(inbox)
    <3>1. poll' = [poll EXCEPT !.pc = "find", !.i = m + 1, !.to = Len(inbox)]
      BY <1>2, <2>2, <2>4 DEF GetUpdates
    <3>2. poll'.pc = "find" /\ poll'.i = m + 1 BY <3>1 DEF IInv, TypeOK, Poll
    <3>3. poll'.i - 1 = m BY <2>1, <3>2
    <3> QED BY <2>2, <2>3, <3>2, <3>3 DEF BatchInv, ConfirmedIsHandled
  <2>5. CASE ~(m < Len(inbox))
    <3>1. poll' = poll BY <1>2, <2>2, <2>5 DEF GetUpdates
    <3> QED BY <2>2, <2>3, <3>1 DEF IInv, BatchInv, ConfirmedIsHandled
  <2> QED BY <2>4, <2>5
<1>3. ASSUME poll.pc # "idle", NextUpdate, UNCHANGED confirmed PROVE BatchInv'
  <2>1. /\ handled' = handled \cup {poll.i}
        /\ \/ poll'.pc = "idle" /\ poll'.off = poll.i + 1
           \/ poll'.pc = "find" /\ poll'.i = poll.i + 1
    BY <1>3, NextUpdateType DEF IInv
  <2>2. 1..poll.i \subseteq handled'
    <3>1. 1..(poll.i - 1) \subseteq handled BY <1>3 DEF IInv, BatchInv
    <3>2. 1..poll.i \subseteq (1..(poll.i - 1)) \cup {poll.i} BY <1>0
    <3> QED BY <2>1, <3>1, <3>2
  <2>3. (poll.i + 1) - 1 = poll.i BY <1>0
  <2>4. ConfirmedIsHandled' BY <1>3, <2>1 DEF IInv, BatchInv, ConfirmedIsHandled
  <2> QED BY <2>1, <2>2, <2>3, <2>4 DEF BatchInv
<1>4. CASE FindChannel
  <2>1. poll.pc = "find" /\ UNCHANGED confirmed BY <1>4 DEF FindChannel
  <2>2. ASSUME NEW u, poll' = [poll EXCEPT !.pc = "bind", !.off = poll.i + 1, !.u = u], UNCHANGED handled
        PROVE  BatchInv'
    <3>1. poll'.pc = "bind" /\ poll'.i = poll.i BY <2>2 DEF IInv, TypeOK, Poll
    <3> QED BY <2>1, <2>2, <3>1 DEF IInv, BatchInv, ConfirmedIsHandled
  <2> QED BY <1>3, <1>4, <2>1, <2>2 DEF FindChannel
<1>5. CASE BindNotificationChannel BY <1>3, <1>5 DEF BindNotificationChannel
<1>6. CASE Restart
  <2>1. poll'.pc = "idle" /\ poll'.off = 0 /\ UNCHANGED <<confirmed, handled>> BY <1>6 DEF Restart, IdlePoll
  <2>2. 1..(0 - 1) = {} OBVIOUS
  <2> QED BY <2>1, <2>2 DEF IInv, BatchInv, ConfirmedIsHandled
<1>7. CASE Input
  BY <1>1, <1>7 DEF Input, Unbind, CreateBindCode, UpdatePreferences, ReadMasterSwitch, SendTest, SendCode, Publish,
                    telegram, history
<1>8. ASSUME NEW k \in Callers, SavePreferences(k) PROVE BatchInv'
  BY <1>1, <1>8 DEF SavePreferences, telegram, history
<1>9. ASSUME NEW p \in Partitions, ConsumeClaim(p) \/ CommitMessage(p) PROVE BatchInv'
  BY <1>1, <1>9 DEF ConsumeClaim, CommitMessage, telegram, history
<1>10. ASSUME NEW d \in Deliverers, DeliveryStep(d) PROVE BatchInv'
  BY <1>1, <1>10 DEF DeliveryStep, ReadSettings, ReadChannel, DeliverFails, Allow, SendMessage,
                     UpdateNotificationDeliveryStatus, telegram, history
<1>11. CASE Tick BY <1>1, <1>11 DEF Tick, telegram, history
<1> QED BY <1>2, <1>4, <1>5, <1>6, <1>7, <1>8, <1>9, <1>10, <1>11 DEF Next, Step, Poller

-----------------------------------------------------------------------------
(* The consumer. *)

\* What a step leaves to a partition whose offsets it does not move: at most the event
\* at hand has gone out.
LEMMA PositionKept ==
  ASSUME IInv, NEW p \in Partitions,
         marked'[p] = marked[p], committed'[p] = committed[p], lost' \in Nat, lost <= lost',
         Len(log'[p]) \in Nat, Len(log[p]) <= Len(log'[p]),
         ds'[p] = Idle \/ (ds'[p].n = marked[p] + 1 /\ ds'[p].n <= Len(log[p])),
         \A e \in sent' : e \in sent \/ (e[1] = p => e[2] = marked[p] + 1)
  PROVE  Position(p)'
<1>1. /\ marked[p] \in Nat /\ lost \in Nat /\ Len(log[p]) \in Nat /\ committed[p] \in Nat \cup {None}
      /\ Position(p) /\ sent \subseteq Partitions \X Nat
  BY LenProperties DEF IInv, TypeOK, ReplayInv
<1>2. marked'[p] <= Len(log'[p]) BY <1>1 DEF Position
<1>3. ds'[p] # Idle => ds'[p].n = marked'[p] + 1 /\ ds'[p].n <= Len(log'[p]) BY <1>1
<1>4. ASSUME committed[p] = None, NEW e \in sent', e[1] = p PROVE e[2] <= marked[p] + 1
  BY <1>1, <1>4 DEF Position
<1>5. ASSUME committed[p] # None
      PROVE  /\ committed[p] <= marked[p] /\ marked[p] <= committed[p] + lost'
             /\ \A e \in sent' : e[1] = p => e[2] <= committed[p] + 1 + lost'
  <2>1. /\ committed[p] \in Nat /\ committed[p] <= marked[p] /\ marked[p] <= committed[p] + lost
        /\ \A e \in sent : e[1] = p => e[2] <= committed[p] + 1 + lost
    BY <1>1, <1>5 DEF Position
  <2>2. \A e \in sent : e[2] \in Nat BY <1>1
  <2>3. ASSUME NEW e \in sent', e[1] = p PROVE e[2] <= committed[p] + 1 + lost'
    BY <1>1, <2>1, <2>2, <2>3
  <2> QED BY <1>1, <2>1, <2>3
<1> QED BY <1>2, <1>3, <1>4, <1>5 DEF Position

\* A step that moves no offset and sends nothing.
LEMMA ReplayFrame ==
  ASSUME IInv, UNCHANGED <<marked, committed, lost, log, sent>>, \A p \in Partitions : ds'[p] = ds[p]
  PROVE  ReplayInv'
<1>1. ASSUME NEW p \in Partitions PROVE Position(p)'
  <2>1. ds[p] = Idle \/ (ds[p].n = marked[p] + 1 /\ ds[p].n <= Len(log[p])) BY DEF IInv, ReplayInv, Position
  <2>2. lost \in Nat /\ Len(log[p]) \in Nat /\ lost <= lost /\ Len(log[p]) <= Len(log[p])
    BY LenProperties DEF IInv, TypeOK
  <2> QED BY <2>1, <2>2, PositionKept
<1> QED BY <1>1 DEF IInv, ReplayInv

\* A commit covers every event before it; one that fails is counted.
LEMMA CommitReplay ==
  ASSUME IInv, NEW p \in Partitions, CommitMessage(p)
  PROVE  ReplayInv'
<1>0. p \in Deliverers /\ ds[p].pc = "mark" BY DEF CommitMessage, Deliverers
<1>1. ds[p] # Idle /\ ds[p].n = marked[p] + 1 /\ ds[p].n <= Len(log[p])
  BY <1>0, Delivering DEF IInv, ReplayInv, Position
<1>2. /\ marked \in [Partitions -> Nat] /\ marked' = [marked EXCEPT ![p] = marked[p] + 1]
      /\ ds' = [ds EXCEPT ![p] = Idle] /\ ds \in [Deliverers -> Delivery \cup Saving \cup {Idle}]
      /\ UNCHANGED <<log, sent>>
  BY <1>1 DEF CommitMessage, IInv, TypeOK, history
<1>3. PICK n \in Nat : n = marked[p] + 1 BY <1>2
<1>4. \/ committed' = [committed EXCEPT ![p] = n] /\ lost' = lost
      \/ committed' = committed /\ lost' = lost + 1
  BY <1>1, <1>3 DEF CommitMessage
<1>5. /\ lost \in Nat /\ lost' \in Nat /\ lost <= lost' /\ Len(log[p]) \in Nat
      /\ committed \in [Partitions -> Nat \cup {None}] /\ None \notin Nat
  <2>1. lost \in Nat /\ log[p] \in Seq(Event) /\ committed \in [Partitions -> Nat \cup {None}]
    BY DEF IInv, TypeOK
  <2>2. lost' = lost \/ lost' = lost + 1 BY <1>4
  <2>3. None \notin Nat BY NotificationConstants
  <2> QED BY <2>1, <2>2, <2>3, LenProperties
<1>6. ASSUME NEW q \in Partitions, q # p PROVE Position(q)'
  <2>1. ds'[q] = ds[q] /\ marked'[q] = marked[q] /\ committed'[q] = committed[q]
    BY <1>2, <1>4, <1>5, <1>6 DEF Deliverers
  <2>2. ds[q] = Idle \/ (ds[q].n = marked[q] + 1 /\ ds[q].n <= Len(log[q])) BY DEF IInv, ReplayInv, Position
  <2>3. Len(log[q]) \in Nat /\ Len(log[q]) <= Len(log[q]) BY LenProperties DEF IInv, TypeOK
  <2> QED BY <1>2, <1>5, <2>1, <2>2, <2>3, PositionKept
<1>7. Position(p)'
  <2>1. ds'[p] = Idle /\ marked'[p] = n BY <1>0, <1>2, <1>3
  <2>2. Position(p) /\ \A e \in sent : e[2] \in Nat BY DEF IInv, ReplayInv
  <2>3. CASE committed' = [committed EXCEPT ![p] = n] /\ lost' = lost
    <3>1. committed'[p] = n /\ n # None BY <1>5, <2>3
    <3>2. ASSUME NEW e \in sent, e[1] = p PROVE e[2] <= n + 1 + lost
      <4>1. CASE committed[p] = None BY <1>2, <1>3, <1>5, <2>2, <3>2, <4>1 DEF Position
      <4>2. CASE committed[p] # None
        <5>1. committed[p] \in Nat /\ committed[p] <= marked[p] /\ e[2] <= committed[p] + 1 + lost
          BY <1>5, <2>2, <3>2, <4>2 DEF Position
        <5> QED BY <1>2, <1>3, <1>5, <2>2, <5>1
      <4> QED BY <4>1, <4>2
    <3> QED BY <1>1, <1>2, <1>3, <1>5, <2>1, <2>3, <3>1, <3>2 DEF Position
  <2>4. CASE committed' = committed /\ lost' = lost + 1
    <3>1. ASSUME committed[p] = None, NEW e \in sent, e[1] = p PROVE e[2] <= n + 1
      BY <1>2, <1>3, <2>2, <3>1 DEF Position
    <3>2. ASSUME committed[p] # None
          PROVE  /\ committed[p] <= n /\ n <= committed[p] + lost'
                 /\ \A e \in sent : e[1] = p => e[2] <= committed[p] + 1 + lost'
      <4>1. /\ committed[p] \in Nat /\ committed[p] <= marked[p] /\ marked[p] <= committed[p] + lost
            /\ \A e \in sent : e[1] = p => e[2] <= committed[p] + 1 + lost
        BY <1>5, <2>2, <3>2 DEF Position
      <4>2. ASSUME NEW e \in sent, e[1] = p PROVE e[2] <= committed[p] + 1 + lost'
        BY <1>5, <2>2, <2>4, <4>1, <4>2
      <4> QED BY <1>2, <1>3, <1>5, <2>4, <4>1, <4>2
    <3> QED BY <1>1, <1>2, <1>3, <2>1, <2>4, <3>1, <3>2 DEF Position
  <2> QED BY <1>4, <2>3, <2>4
<1> QED BY <1>2, <1>6, <1>7 DEF IInv, ReplayInv

\* A new process starts at the committed offset, or at the end without one.
LEMMA RestartReplay ==
  ASSUME IInv, Restart
  PROVE  ReplayInv'
<1>1. UNCHANGED <<log, committed, lost, sent>> /\ marked' = [p \in Partitions |-> StartAt(p)]
      /\ ds' = [d \in Deliverers |-> Idle]
  BY DEF Restart
<1>2. ASSUME NEW p \in Partitions PROVE Position(p)'
  <2>1. ds'[p] = Idle /\ marked'[p] = StartAt(p) BY <1>1 DEF Deliverers
  <2>2. /\ Position(p) /\ marked[p] \in Nat /\ lost \in Nat /\ Len(log[p]) \in Nat /\ committed[p] \in Nat \cup {None}
        /\ \A e \in sent : e[2] \in Nat
    BY LenProperties DEF IInv, TypeOK, ReplayInv
  <2>3. CASE committed[p] = None
    <3>1. marked'[p] = Len(log[p]) BY <2>1, <2>3 DEF StartAt
    <3>2. ASSUME NEW e \in sent, e[1] = p PROVE e[2] <= Len(log[p]) + 1 BY <2>2, <2>3, <3>2 DEF Position
    <3> QED BY <1>1, <2>1, <2>2, <2>3, <3>1, <3>2 DEF Position
  <2>4. CASE committed[p] # None
    <3>1. marked'[p] = committed[p] BY <2>1, <2>4 DEF StartAt
    <3> QED BY <1>1, <2>1, <2>2, <2>4, <3>1 DEF Position
  <2> QED BY <2>3, <2>4
<1> QED BY <1>1, <1>2 DEF IInv, ReplayInv

\* A delivery sends at most the event it is at.
LEMMA DeliveryReplay ==
  ASSUME IInv, NEW d \in Deliverers, DeliveryStep(d)
  PROVE  ReplayInv'
<1>1. Moves(d) /\ ds[d].pc \in {"settings", "channel", "limit", "send", "status"} BY DeliveryStepMoves DEF IInv
<1>2. ds[d] \in Delivery /\ ds[d] # Idle BY <1>1, Delivering DEF IInv
<1>3. UNCHANGED <<marked, committed, lost, log>>
  BY DEF DeliveryStep, ReadSettings, ReadChannel, DeliverFails, Allow, SendMessage,
         UpdateNotificationDeliveryStatus, kafka
<1>4. sent' = sent \/ (d \in Partitions /\ sent' = sent \cup {<<d, ds[d].n>>})
  BY DEF DeliveryStep, ReadSettings, ReadChannel, DeliverFails, Allow, SendMessage,
         UpdateNotificationDeliveryStatus, history
<1>5. ds[d].n \in Nat BY <1>2, Constants DEF Delivery
<1>6. \A p \in Partitions : ds'[p] = ds[p] \/ (p = d /\ ds'[p].n = ds[p].n)
  BY <1>1, NotificationConstants DEF Moves, Deliverers, IInv, TypeOK
<1>7. ASSUME NEW p \in Partitions PROVE Position(p)'
  <2>1. ds[p] = Idle \/ (ds[p].n = marked[p] + 1 /\ ds[p].n <= Len(log[p])) BY DEF IInv, ReplayInv, Position
  <2>2. lost \in Nat /\ Len(log[p]) \in Nat /\ lost <= lost /\ Len(log[p]) <= Len(log[p])
    BY LenProperties DEF IInv, TypeOK
  <2>3. ds'[p] = Idle \/ (ds'[p].n = marked[p] + 1 /\ ds'[p].n <= Len(log[p])) BY <1>2, <1>6, <2>1
  <2>4. \A e \in sent' : e \in sent \/ (e[1] = p => e[2] = marked[p] + 1) BY <1>2, <1>4, <2>1
  <2> QED BY <1>3, <2>2, <2>3, <2>4, PositionKept
<1>8. sent' \subseteq Partitions \X Nat BY <1>4, <1>5 DEF IInv, ReplayInv
<1> QED BY <1>7, <1>8 DEF ReplayInv

\* Every step keeps the consumer's position.
LEMMA ReplayStep ==
  ASSUME IInv, Next
  PROVE  ReplayInv'
<1>0. \A k \in Callers : k \notin Partitions /\ k \in Deliverers BY NotificationConstants DEF Deliverers
<1>1. ASSUME NEW k \in Callers, UNCHANGED kafka, UNCHANGED sent, NEW new, ds' = [ds EXCEPT ![k] = new]
      PROVE  ReplayInv'
  <2>1. \A p \in Partitions : ds'[p] = ds[p] BY <1>0, <1>1 DEF IInv, TypeOK, Deliverers
  <2> QED BY <1>1, <2>1, ReplayFrame DEF kafka
<1>2. CASE UNCHANGED <<kafka, ds, sent>> BY <1>2, ReplayFrame DEF kafka
<1>3. ASSUME NEW u \in Users, NEW cat \in Categories \cup {"invalid"}, Publish(u, cat) PROVE ReplayInv'
  <2>1. /\ UNCHANGED <<marked, committed, lost, ds, sent>>
        /\ log' = [log EXCEPT ![PartitionOf[u]] = Append(@, [u |-> u, cat |-> cat])]
    BY <1>3 DEF Publish, history
  <2>2. PICK e \in Event : e = [u |-> u, cat |-> cat] BY DEF Event
  <2>3. ASSUME NEW p \in Partitions PROVE Position(p)'
    <3>1. log[p] \in Seq(Event) /\ lost \in Nat /\ lost <= lost BY DEF IInv, TypeOK
    <3>2. log'[p] = log[p] \/ log'[p] = Append(log[p], e) BY <2>1, <2>2 DEF IInv, TypeOK
    <3>3. Len(log'[p]) \in Nat /\ Len(log[p]) <= Len(log'[p]) BY <3>1, <3>2, AppendProperties, LenProperties
    <3>4. ds[p] = Idle \/ (ds[p].n = marked[p] + 1 /\ ds[p].n <= Len(log[p])) BY DEF IInv, ReplayInv, Position
    <3> QED BY <2>1, <3>1, <3>3, <3>4, PositionKept
  <2> QED BY <2>1, <2>3 DEF IInv, ReplayInv
<1>4. CASE Input
  <2>1. ASSUME NEW k \in Callers, NEW u \in Users,
               UpdatePreferences(k, u) \/ ReadMasterSwitch(k, u) \/ SendTest(k, u)
        PROVE  ReplayInv'
    BY <1>1, <1>2, <2>1 DEF UpdatePreferences, ReadMasterSwitch, SendTest, StartDelivery, history
  <2>2. ASSUME NEW u \in Users, Unbind(u) \/ \E c \in Codes : CreateBindCode(u, c) PROVE ReplayInv'
    BY <1>2, <2>2 DEF Unbind, CreateBindCode, history
  <2>3. ASSUME NEW x \in Chats, NEW c \in Codes, SendCode(x, c) PROVE ReplayInv'
    BY <1>2, <2>3 DEF SendCode, history
  <2> QED BY <1>3, <1>4, <2>1, <2>2, <2>3 DEF Input
<1>5. ASSUME NEW k \in Callers, SavePreferences(k) PROVE ReplayInv'
  BY <1>1, <1>5 DEF SavePreferences, history
<1>6. CASE Poller BY <1>2, <1>6 DEF Poller, GetUpdates, FindChannel, BindNotificationChannel, history
<1>7. ASSUME NEW p \in Partitions, ConsumeClaim(p) PROVE ReplayInv'
  <2>1. /\ UNCHANGED <<marked, committed, lost, log, sent>> /\ marked[p] < Len(log[p])
    BY <1>7 DEF ConsumeClaim, kafka, history
  <2>2. /\ ds'[p].n = marked[p] + 1 /\ \A q \in Partitions : q # p => ds'[q] = ds[q]
    BY <1>7 DEF ConsumeClaim, StartDelivery, IInv, TypeOK, Deliverers
  <2>3. ASSUME NEW q \in Partitions PROVE Position(q)'
    <3>1. /\ lost \in Nat /\ Len(log[q]) \in Nat /\ marked[q] \in Nat
          /\ lost <= lost /\ Len(log[q]) <= Len(log[q])
      BY LenProperties DEF IInv, TypeOK
    <3>2. ds[q] = Idle \/ (ds[q].n = marked[q] + 1 /\ ds[q].n <= Len(log[q])) BY DEF IInv, ReplayInv, Position
    <3>3. ds'[q] = Idle \/ (ds'[q].n = marked[q] + 1 /\ ds'[q].n <= Len(log[q])) BY <2>1, <2>2, <3>1, <3>2
    <3> QED BY <2>1, <3>1, <3>3, PositionKept
  <2> QED BY <2>1, <2>3 DEF IInv, ReplayInv
<1>8. CASE Tick BY <1>2, <1>8 DEF Tick, history
<1> QED BY <1>4, <1>5, <1>6, <1>7, <1>8, CommitReplay, RestartReplay, DeliveryReplay DEF Next, Step

-----------------------------------------------------------------------------
(* The rate limiter. *)

\* A set of indices that holds every later one is the end of the range.
LEMMA EndOfRange ==
  ASSUME NEW n \in Nat, NEW Y \in SUBSET (1..n),
         \A i \in Y, j \in 1..n : i <= j => j \in Y
  PROVE  \E k \in 0..n : Y = (k + 1)..n /\ Cardinality(Y) = n - k
<1>1. IsFiniteSet(1..n) /\ Cardinality(1..n) = n BY FS_Interval
<1>2. IsFiniteSet(Y) /\ Cardinality(Y) \in Nat /\ Cardinality(Y) <= n BY <1>1, FS_Subset, FS_CardinalityType
<1> DEFINE k == n - Cardinality(Y)
<1>3. k \in 0..n BY <1>2
<1>4. IsFiniteSet((k + 1)..n) /\ Cardinality((k + 1)..n) = Cardinality(Y)
  <2>1. k + 1 \in Int /\ n \in Int BY <1>3
  <2>2. IsFiniteSet((k + 1)..n) /\ Cardinality((k + 1)..n) = IF k + 1 > n THEN 0 ELSE n - (k + 1) + 1
    BY <2>1, FS_Interval
  <2> QED BY <1>2, <1>3, <2>2
<1>5. ASSUME NEW i \in Y PROVE i \in (k + 1)..n
  <2>1. i \in 1..n BY <1>5
  <2>2. i..n \subseteq Y BY <1>5, <2>1
  <2>3. Cardinality(i..n) = n - i + 1 BY <2>1, FS_Interval
  <2>4. Cardinality(i..n) <= Cardinality(Y) BY <1>2, <2>2, FS_Subset
  <2> QED BY <1>2, <2>1, <2>3, <2>4
<1>6. Y \subseteq (k + 1)..n BY <1>5
<1>7. Y = (k + 1)..n BY <1>4, <1>6, FS_Subset
<1>8. Cardinality(Y) = n - k BY <1>2
<1> QED BY <1>3, <1>7, <1>8

\* In a sorted list the hits that count are the last ones, and Keep returns them.
LEMMA KeepsTheEnd ==
  ASSUME NEW h \in Seq(0..now), now \in Nat,
         \A i, j \in 1..Len(h) : i <= j => h[i] <= h[j]
  PROVE  \E k \in 0..Len(h) :
           /\ Keep(h) \in Seq(0..now) /\ Len(Keep(h)) = Len(h) - k
           /\ \A j \in 1..(Len(h) - k) : Keep(h)[j] = h[k + j]
           /\ \A i \in 1..k : ~Recent(h[i])
<1> DEFINE n == Len(h)
           young == {i \in 1..n : Recent(h[i])}
           at(j) == CHOOSE i \in young : Cardinality({m \in young : m <= i}) = j
<1>1. n \in Nat /\ \A i \in 1..n : h[i] \in 0..now BY LenProperties, ElementOfSeq
<1>2. PICK k \in 0..n : young = (k + 1)..n /\ Cardinality(young) = n - k
  <2>1. young \in SUBSET (1..n) OBVIOUS
  <2>2. ASSUME NEW i \in young, NEW j \in 1..n, i <= j PROVE j \in young
    <3>1. i \in 1..n /\ h[i] + Window > now BY DEF Recent
    <3>2. h[i] <= h[j] /\ h[i] \in Nat /\ h[j] \in Nat BY <1>1, <2>2, <3>1
    <3> QED BY <3>1, <3>2, Constants DEF Recent
  <2> HIDE DEF young, n
  <2> QED BY <1>1, <2>1, <2>2, EndOfRange
<1>3. ASSUME NEW i \in (k + 1)..n PROVE Cardinality({m \in young : m <= i}) = i - k
  <2>1. {m \in young : m <= i} = (k + 1)..i BY <1>1, <1>2
  <2>2. k + 1 \in Int /\ i \in Int /\ ~(k + 1 > i) /\ i - (k + 1) + 1 = i - k BY <1>1
  <2>3. Cardinality((k + 1)..i) = IF k + 1 > i THEN 0 ELSE i - (k + 1) + 1 BY <2>2, FS_Interval
  <2>4. Cardinality((k + 1)..i) = i - k BY <2>2, <2>3
  <2> QED BY <2>1, <2>4
<1>4. ASSUME NEW j \in 1..(n - k) PROVE at(j) = k + j
  <2>1. k + j \in (k + 1)..n /\ (k + j) - k = j BY <1>1
  <2>2. k + j \in young /\ Cardinality({m \in young : m <= k + j}) = j BY <1>2, <1>3, <2>1
  <2>3. at(j) \in young /\ Cardinality({m \in young : m <= at(j)}) = j BY <2>2
  <2>4. at(j) \in (k + 1)..n BY <1>2, <2>3
  <2>5. PICK i \in (k + 1)..n : i = at(j) BY <2>4
  <2>6. Cardinality({m \in young : m <= i}) = i - k BY <1>3
  <2>7. i - k = j BY <2>3, <2>5, <2>6
  <2>8. i = k + j BY <1>1, <2>7
  <2> QED BY <2>5, <2>8
<1>5. Keep(h) = [j \in 1..(n - k) |-> h[k + j]]
  <2>1. Keep(h) = [j \in 1..Cardinality(young) |-> h[at(j)]] BY DEF Keep
  <2> HIDE DEF young, at
  <2> QED BY <1>2, <1>4, <2>1
<1>6. n - k \in Nat /\ \A j \in 1..(n - k) : h[k + j] \in 0..now BY <1>1
<1>7. Keep(h) \in Seq(0..now) /\ Len(Keep(h)) = n - k
  <2>1. PICK l \in Nat : l = n - k BY <1>6
  <2>2. PICK f \in [1..l -> 0..now] : f = [j \in 1..l |-> h[k + j]] BY <1>6, <2>1
  <2>3. f \in Seq(0..now) BY <2>2, SeqDef
  <2>4. Len(f) = l BY <2>2, <2>3, LenProperties
  <2> QED BY <1>5, <2>1, <2>2, <2>3, <2>4
<1>8. \A i \in 1..k : ~Recent(h[i])
  <2>1. ASSUME NEW i \in 1..k PROVE ~Recent(h[i])
    <3>1. i \in 1..n /\ i \notin (k + 1)..n BY <1>1
    <3>2. i \notin young BY <1>2, <3>1
    <3> QED BY <3>1, <3>2
  <2> QED BY <2>1
<1> QED BY <1>5, <1>7, <1>8

\* The limiter forgets what no longer counts.
LEMMA KeepSpaced ==
  ASSUME now \in Nat, NEW a, NEW h, Spaced(a, h)
  PROVE  Spaced(a, Keep(h)) /\ \A i \in 1..Len(a) : i <= Len(a) - Len(Keep(h)) => ~Recent(a[i])
<1>1. /\ a \in Seq(0..now) /\ h \in Seq(0..now) /\ Len(h) <= Len(a) /\ Len(h) \in Nat /\ Len(a) \in Nat
      /\ \A i \in 1..Len(h) : h[i] = a[Len(a) - Len(h) + i]
      /\ \A i \in 1..Len(a) : i <= Len(a) - Len(h) => ~Recent(a[i])
      /\ \A i, j \in 1..Len(a) : i <= j => a[i] <= a[j]
      /\ \A i, j \in 1..Len(a) : j = i + Limit => a[i] + Window <= a[j]
  BY LenProperties DEF Spaced
<1>2. ASSUME NEW i \in 1..Len(h), NEW j \in 1..Len(h), i <= j PROVE h[i] <= h[j]
  <2>1. /\ Len(a) - Len(h) + i \in 1..Len(a) /\ Len(a) - Len(h) + j \in 1..Len(a)
        /\ Len(a) - Len(h) + i <= Len(a) - Len(h) + j
    BY <1>1, <1>2
  <2> QED BY <1>1, <2>1
<1>3. PICK k \in 0..Len(h) :
        /\ Keep(h) \in Seq(0..now) /\ Len(Keep(h)) = Len(h) - k
        /\ \A j \in 1..(Len(h) - k) : Keep(h)[j] = h[k + j]
        /\ \A i \in 1..k : ~Recent(h[i])
  BY <1>1, <1>2, KeepsTheEnd
<1>4. ASSUME NEW i \in 1..Len(Keep(h)) PROVE Keep(h)[i] = a[Len(a) - Len(Keep(h)) + i]
  <2>1. k + i \in 1..Len(h) /\ Len(a) - Len(h) + (k + i) = Len(a) - Len(Keep(h)) + i BY <1>1, <1>3
  <2> QED BY <1>1, <1>3, <2>1
<1>5. ASSUME NEW i \in 1..Len(a), i <= Len(a) - Len(Keep(h)) PROVE ~Recent(a[i])
  <2>1. CASE i <= Len(a) - Len(h) BY <1>1, <2>1
  <2>2. CASE ~(i <= Len(a) - Len(h))
    <3>1. PICK m \in 1..k : i = Len(a) - Len(h) + m
      <4>1. i - (Len(a) - Len(h)) \in 1..k /\ i = Len(a) - Len(h) + (i - (Len(a) - Len(h)))
        BY <1>1, <1>3, <1>5, <2>2
      <4> QED BY <4>1
    <3>2. m \in 1..Len(h) BY <1>1
    <3> QED BY <1>1, <1>3, <3>1, <3>2
  <2> QED BY <2>1, <2>2
<1>6. Len(Keep(h)) <= Len(a) BY <1>1, <1>3
<1> QED BY <1>1, <1>3, <1>4, <1>5, <1>6 DEF Spaced

\* An event is let through if fewer than the limit count.
LEMMA AdmitSpaced ==
  ASSUME now \in Nat, NEW a, NEW h, Spaced(a, h), Len(h) < Limit
  PROVE  Spaced(Append(a, now), Append(h, now))
<1> DEFINE b == Append(a, now)
           g == Append(h, now)
<1>1. /\ a \in Seq(0..now) /\ h \in Seq(0..now) /\ Len(h) <= Len(a) /\ Len(h) \in Nat /\ Len(a) \in Nat
      /\ \A i \in 1..Len(h) : h[i] = a[Len(a) - Len(h) + i]
      /\ \A i \in 1..Len(a) : i <= Len(a) - Len(h) => ~Recent(a[i])
      /\ \A i, j \in 1..Len(a) : i <= j => a[i] <= a[j]
      /\ \A i, j \in 1..Len(a) : j = i + Limit => a[i] + Window <= a[j]
      /\ \A i \in 1..Len(a) : a[i] \in 0..now
  BY LenProperties, ElementOfSeq DEF Spaced
<1>2. /\ b \in Seq(0..now) /\ Len(b) = Len(a) + 1 /\ b[Len(a) + 1] = now /\ \A i \in 1..Len(a) : b[i] = a[i]
      /\ g \in Seq(0..now) /\ Len(g) = Len(h) + 1 /\ g[Len(h) + 1] = now /\ \A i \in 1..Len(h) : g[i] = h[i]
  BY <1>1, AppendProperties
<1> HIDE DEF b, g
<1>3. ASSUME NEW i \in 1..Len(g) PROVE g[i] = b[Len(b) - Len(g) + i]
  <2>1. Len(b) - Len(g) = Len(a) - Len(h) BY <1>1, <1>2
  <2>2. CASE i \in 1..Len(h)
    <3>1. Len(a) - Len(h) + i \in 1..Len(a) BY <1>1, <2>2
    <3> QED BY <1>1, <1>2, <2>1, <2>2, <3>1
  <2>3. CASE i = Len(h) + 1
    <3>1. Len(a) - Len(h) + i = Len(a) + 1 BY <1>1, <2>3
    <3> QED BY <1>2, <2>1, <2>3, <3>1
  <2> QED BY <1>1, <1>2, <2>2, <2>3
<1>4. ASSUME NEW i \in 1..Len(b), i <= Len(b) - Len(g) PROVE ~Recent(b[i])
  <2>1. Len(b) = Len(a) + 1 /\ Len(g) = Len(h) + 1 BY <1>2
  <2>2. Len(a) \in Nat /\ Len(h) \in Nat BY <1>1
  <2>3. i \in Nat /\ i >= 1 /\ i <= Len(b) - Len(g) BY <1>4, <2>1, <2>2
  <2>4. i \in 1..Len(a) /\ i <= Len(a) - Len(h) BY <2>1, <2>2, <2>3
  <2> QED BY <1>1, <1>2, <2>4
<1>5. ASSUME NEW i \in 1..Len(b), NEW j \in 1..Len(b), i <= j PROVE b[i] <= b[j]
  <2>1. CASE j \in 1..Len(a)
    <3>1. i \in 1..Len(a) BY <1>1, <1>5, <2>1
    <3> QED BY <1>1, <1>2, <1>5, <2>1, <3>1
  <2>2. CASE j = Len(a) + 1
    <3>1. b[j] = now BY <1>2, <2>2
    <3>2. b[i] \in 0..now BY <1>2, ElementOfSeq
    <3> QED BY <3>1, <3>2
  <2> QED BY <1>1, <1>2, <2>1, <2>2
<1>6. ASSUME NEW i \in 1..Len(b), NEW j \in 1..Len(b), j = i + Limit PROVE b[i] + Window <= b[j]
  <2>0. Limit \in Nat /\ Limit > 0 /\ Window \in Nat BY <1>1, Constants
  <2>1. CASE j \in 1..Len(a)
    <3>1. i \in 1..Len(a) BY <1>1, <1>6, <2>0, <2>1
    <3> QED BY <1>1, <1>2, <1>6, <2>1, <3>1
  <2>2. CASE j = Len(a) + 1
    <3>1. i \in 1..Len(a) /\ i <= Len(a) - Len(h) BY <1>1, <1>6, <2>0, <2>2
    <3>2. ~Recent(a[i]) /\ a[i] \in Nat /\ b[i] = a[i] /\ b[j] = now BY <1>1, <1>2, <2>2, <3>1
    <3> QED BY <2>0, <3>2 DEF Recent
  <2> QED BY <1>1, <1>2, <2>1, <2>2
<1>7. Len(g) <= Len(b) BY <1>1, <1>2
<1>8. Spaced(b, g) BY <1>2, <1>3, <1>4, <1>5, <1>6, <1>7 DEF Spaced
<1> QED BY <1>8 DEF b, g

\* Every step keeps the limiter's list in step with what it has admitted.
LEMMA RateStep ==
  ASSUME IInv, Next
  PROVE  RateInv'
<1>0. now \in Nat /\ hit \in [Users -> Seq(0..now)] /\ admitted \in [Users -> Seq(0..now)]
      /\ \A u \in Users : Spaced(admitted[u], hit[u])
  BY Constants DEF IInv, TypeOK, RateInv
<1>1. CASE UNCHANGED <<hit, admitted, now>> BY <1>0, <1>1 DEF RateInv, Spaced, Recent
<1>2. ASSUME NEW d \in Deliverers, Allow(d) PROVE RateInv'
  <2>1. ds[d].pc = "limit" /\ now' = now BY <1>2 DEF Allow
  <2>2. PICK u \in Users : u = ds[d].u BY <2>1, Delivering DEF Delivery, IInv
  <2>3. PICK keep, a : keep = Keep(hit[u]) /\ a = admitted[u] OBVIOUS
  <2>4. Spaced(a, keep) BY <1>0, <2>3, KeepSpaced
  <2>5. a \in Seq(0..now) /\ keep \in Seq(0..now) BY <2>4 DEF Spaced
  <2>6. CASE Len(keep) >= Limit
    <3>1. hit' = [hit EXCEPT ![u] = keep] /\ admitted' = admitted BY <1>2, <2>2, <2>3, <2>6 DEF Allow
    <3>2. hit' \in [Users -> Seq(0..now)] BY <1>0, <2>5, <3>1
    <3>3. \A w \in Users : Spaced(admitted'[w], hit'[w]) BY <1>0, <2>3, <2>4, <3>1
    <3> QED BY <1>0, <2>1, <3>1, <3>2, <3>3 DEF RateInv, Spaced, Recent
  <2>7. CASE ~(Len(keep) >= Limit)
    <3>1. /\ hit' = [hit EXCEPT ![u] = Append(keep, now)]
          /\ admitted' = [admitted EXCEPT ![u] = Append(a, now)]
      BY <1>2, <2>2, <2>3, <2>7 DEF Allow
    <3>2. Len(keep) < Limit BY <2>5, <2>7, LenProperties, Constants
    <3>3. Spaced(Append(a, now), Append(keep, now)) BY <1>0, <2>4, <3>2, AdmitSpaced
    <3>4. Append(a, now) \in Seq(0..now) /\ Append(keep, now) \in Seq(0..now) BY <3>3 DEF Spaced
    <3>5. hit' \in [Users -> Seq(0..now)] /\ admitted' \in [Users -> Seq(0..now)] BY <1>0, <3>1, <3>4
    <3>6. \A w \in Users : Spaced(admitted'[w], hit'[w]) BY <1>0, <3>1, <3>3
    <3> QED BY <2>1, <3>5, <3>6 DEF RateInv, Spaced, Recent
  <2> QED BY <2>6, <2>7
<1>3. CASE Restart
  <2>1. hit' = [u \in Users |-> <<>>] /\ admitted' = [u \in Users |-> <<>>] BY <1>3 DEF Restart
  <2>2. <<>> \in Seq(0..now') /\ Len(<<>>) = 0 BY EmptySeq
  <2>3. ASSUME NEW u \in Users PROVE Spaced(admitted[u], hit[u])'
    BY <2>1, <2>2 DEF Spaced
  <2> QED BY <2>1, <2>2, <2>3 DEF RateInv
<1>4. CASE Tick
  <2>1. UNCHANGED <<hit, admitted>> /\ now' = now + 1 BY <1>4 DEF Tick, history
  <2>2. 0..now \subseteq 0..now' BY <1>0, <2>1
  <2>3. Seq(0..now) \subseteq Seq(0..now') BY <2>2, SeqMonotonic
  <2>4. ASSUME NEW t \in 0..now, ~Recent(t) PROVE ~Recent(t)' BY <1>0, <2>1, <2>4, Constants DEF Recent
  <2>5. ASSUME NEW u \in Users PROVE Spaced(admitted[u], hit[u])'
    <3>1. \A i \in 1..Len(admitted[u]) : admitted[u][i] \in 0..now BY <1>0, ElementOfSeq
    <3>2. \A i \in 1..Len(admitted[u]) : i <= Len(admitted[u]) - Len(hit[u]) => ~Recent(admitted[u][i])'
      <4>1. ASSUME NEW i \in 1..Len(admitted[u]), i <= Len(admitted[u]) - Len(hit[u])
            PROVE  ~Recent(admitted[u][i])'
        <5>1. PICK t \in 0..now : t = admitted[u][i] BY <3>1
        <5>2. ~Recent(t) BY <1>0, <4>1, <5>1 DEF Spaced
        <5>3. ~(t + Window > now') BY <2>4, <5>2 DEF Recent
        <5> QED BY <2>1, <5>1, <5>3 DEF Recent
      <4> QED BY <4>1
    <3> QED BY <1>0, <2>1, <2>3, <3>2 DEF Spaced
  <2> QED BY <1>0, <2>1, <2>3, <2>5 DEF RateInv
<1>5. CASE Input
  BY <1>1, <1>5 DEF Input, Unbind, CreateBindCode, UpdatePreferences, ReadMasterSwitch, SendTest, SendCode, Publish,
                    history
<1>6. ASSUME NEW k \in Callers, SavePreferences(k) PROVE RateInv'
  BY <1>1, <1>6 DEF SavePreferences, history
<1>7. CASE Poller BY <1>1, <1>7 DEF Poller, GetUpdates, FindChannel, BindNotificationChannel, history
<1>8. ASSUME NEW p \in Partitions, ConsumeClaim(p) \/ CommitMessage(p) PROVE RateInv'
  BY <1>1, <1>8 DEF ConsumeClaim, CommitMessage, history
<1>9. ASSUME NEW d \in Deliverers, DeliveryStep(d) PROVE RateInv'
  BY <1>1, <1>2, <1>9 DEF DeliveryStep, ReadSettings, ReadChannel, DeliverFails, SendMessage,
                          UpdateNotificationDeliveryStatus, history
<1> QED BY <1>3, <1>4, <1>5, <1>6, <1>7, <1>8, <1>9 DEF Next, Step

-----------------------------------------------------------------------------
(* The theorems. *)

\* Nothing has been made, sent or handled at the start.
LEMMA InductiveInit ==
  ASSUME Init
  PROVE  IInv
<1>0. <<>> \in Seq(Updates) /\ <<>> \in Seq(Event) /\ <<>> \in Seq(0..now) /\ Len(<<>>) = 0 BY EmptySeq
<1>1. TypeOK
  <2>1. \A u \in Users : settings[u] \in Settings BY DEF Init, Settings
  <2>2. 0 \in 0..(MaxTime + CodeTTL) BY Constants
  <2>3. \A u \in Users : channel[u] \in ChannelRow BY <2>2 DEF Init, ChannelRow
  <2>4. poll \in Poll BY Constants DEF Init, IdlePoll, Poll
  <2>5. settings \in [Users -> Settings] /\ channel \in [Users -> ChannelRow] BY <2>1, <2>3 DEF Init
  <2>6. /\ log \in [Partitions -> Seq(Event)] /\ \A p \in Partitions : Len(log[p]) <= inputs
        /\ inbox \in Seq(Updates) /\ Len(inbox) <= inputs
    BY <1>0 DEF Init
  <2>7. /\ ds \in [Deliverers -> Delivery \cup Saving \cup {Idle}]
        /\ \A p \in Partitions : ds[p] \in Delivery \cup {Idle}
    BY DEF Init, Deliverers
  <2>8. now \in 0..MaxTime /\ inputs \in 0..MaxInputs /\ faults \in 0..MaxFaults /\ lost \in Nat
    BY Constants DEF Init
  <2> QED BY <2>4, <2>5, <2>6, <2>7, <2>8 DEF Init, TypeOK
<1>2. BindInv
  <2>1. poll.pc = "idle" BY DEF Init, IdlePoll
  <2>2. InBatch /\ FoundFresh BY <2>1 DEF InBatch, FoundFresh
  <2>3. \A u \in Users : channel[u].code = None /\ channel[u].target = None BY DEF Init
  <2>4. \A c \in Codes : binds[c] = 0 BY DEF Init
  <2>5. FreshCodes /\ TargetProved BY <2>3, <2>4 DEF FreshCodes, TargetProved
  <2>6. CodeBindsOnce BY <2>4 DEF CodeBindsOnce
  <2> QED BY <2>2, <2>5, <2>6 DEF BindInv
<1>3. BatchInv
  <2>1. poll.pc = "idle" /\ poll.off = 0 /\ confirmed = 0 BY DEF Init, IdlePoll
  <2>2. 1..(0 - 1) = {} /\ 1..0 = {} OBVIOUS
  <2> QED BY <2>1, <2>2 DEF BatchInv, ConfirmedIsHandled
<1>4. ReplayInv
  <2>1. ASSUME NEW p \in Partitions PROVE Position(p)
    <3>1. ds[p] = Idle /\ marked[p] = 0 /\ Len(log[p]) = 0 /\ committed[p] = None /\ sent = {}
      BY <1>0 DEF Init, Deliverers
    <3> QED BY <3>1 DEF Position
  <2> QED BY <2>1 DEF Init, ReplayInv
<1>5. RateInv
  <2>1. ASSUME NEW u \in Users PROVE Spaced(admitted[u], hit[u]) BY <1>0 DEF Init, Spaced
  <2> QED BY <1>0, <2>1 DEF Init, RateInv
<1> QED BY <1>1, <1>2, <1>3, <1>4, <1>5 DEF IInv

\* The inductive invariant holds in every reachable state of notification delivery.
THEOREM Inductive == Spec => []IInv
<1>1. Init => IInv BY InductiveInit
<1>2. IInv /\ [Next]_vars => IInv'
  <2>1. ASSUME IInv, Next PROVE IInv' BY <2>1, TypeStep, BindStep, BatchStep, ReplayStep, RateStep DEF IInv
  <2>2. ASSUME IInv, UNCHANGED vars PROVE IInv'
    <3>1. /\ UNCHANGED <<settings, channel, inbox, confirmed, poll, log, committed, marked, lost>>
          /\ UNCHANGED <<ds, hit, now, inputs, faults, owner, binds, handled, sent, admitted>>
      BY <2>2 DEF vars, tables, telegram, kafka, history
    <3>2. TypeOK' BY <2>2, <3>1 DEF IInv, TypeOK
    <3>3. BindInv' BY <2>2, <3>1, BindFrame DEF IInv
    <3>4. BatchInv' BY <2>2, <3>1 DEF IInv, BatchInv, ConfirmedIsHandled
    <3>5. ReplayInv' BY <2>2, <3>1 DEF IInv, ReplayInv, Position
    <3>6. RateInv' BY <2>2, <3>1 DEF IInv, RateInv, Spaced, Recent
    <3> QED BY <3>2, <3>3, <3>4, <3>5, <3>6 DEF IInv
  <2> QED BY <2>1, <2>2
<1> QED BY <1>1, <1>2, PTL DEF Spec

\* A chat gets a user's messages only if it sent in a code that CreateBindCode made for
\* that user, whatever Unbind and CreateBindCode do between the poller's lookup and its bind.
THEOREM TargetProvedHolds == Spec => []TargetProved
<1>1. IInv => TargetProved BY DEF IInv, BindInv
<1> QED BY <1>1, Inductive, PTL

\* BindNotificationChannel never takes a bind code a second time, through restarts that
\* fetch the same updates again and several chats that send it.
THEOREM CodeBindsOnceHolds == Spec => []CodeBindsOnce
<1>1. IInv => CodeBindsOnce BY DEF IInv, BindInv
<1> QED BY <1>1, Inductive, PTL

\* RunTelegramPolling confirms an update to Telegram only after HandleTelegramUpdate has
\* returned for it.
THEOREM ConfirmedIsHandledHolds == Spec => []ConfirmedIsHandled
<1>1. IInv => ConfirmedIsHandled BY DEF IInv, BatchInv
<1> QED BY <1>1, Inductive, PTL

\* A restart delivers again at most one event of a partition that went out, plus one for
\* every commit that failed.
THEOREM ReplayBoundedHolds == Spec => []ReplayBounded
<1>1. ASSUME IInv, NEW p \in Partitions
      PROVE  Cardinality({n \in (StartAt(p) + 1)..Len(log[p]) : <<p, n>> \in sent}) <= 1 + lost
  <2> DEFINE again == {n \in (StartAt(p) + 1)..Len(log[p]) : <<p, n>> \in sent}
  <2>1. /\ Position(p) /\ lost \in Nat /\ Len(log[p]) \in Nat /\ committed[p] \in Nat \cup {None}
    BY <1>1, LenProperties DEF IInv, TypeOK, ReplayInv
  <2>2. StartAt(p) \in Nat BY <2>1 DEF StartAt
  <2>3. PICK s \in Nat, t \in Nat : s = StartAt(p) + 1 /\ t = s + lost BY <2>1, <2>2
  <2>4. again \subseteq s..t
    <3>1. CASE committed[p] = None
      <4>1. StartAt(p) = Len(log[p]) BY <3>1 DEF StartAt
      <4>2. (Len(log[p]) + 1)..Len(log[p]) = {} BY <2>1
      <4> QED BY <4>1, <4>2
    <3>2. CASE committed[p] # None
      <4>1. StartAt(p) = committed[p] /\ committed[p] \in Nat BY <2>1, <3>2 DEF StartAt
      <4>2. ASSUME NEW n \in again PROVE n \in s..t
        <5>1. n \in (StartAt(p) + 1)..Len(log[p]) /\ <<p, n>> \in sent OBVIOUS
        <5>2. n <= committed[p] + 1 + lost BY <2>1, <3>2, <5>1 DEF Position
        <5> QED BY <2>1, <2>3, <4>1, <5>1, <5>2
      <4> QED BY <4>2
    <3> QED BY <3>1, <3>2
  <2>5. IsFiniteSet(s..t) /\ Cardinality(s..t) = 1 + lost
    <3>1. IsFiniteSet(s..t) /\ Cardinality(s..t) = IF s > t THEN 0 ELSE t - s + 1 BY FS_Interval
    <3> QED BY <2>1, <2>3, <3>1
  <2>6. Cardinality(again) <= Cardinality(s..t) BY <2>4, <2>5, FS_Subset
  <2> QED BY <2>5, <2>6
<1>2. IInv => ReplayBounded BY <1>1 DEF ReplayBounded
<1> QED BY <1>2, Inductive, PTL

\* RateLimiter.Allow lets no more custom events of a user through in any window than the
\* smaller of rate and burst, as long as the process lives.
THEOREM RateRespectedHolds == Spec => []RateRespected
<1>1. ASSUME IInv, NEW u \in Users, NEW t \in 0..now
      PROVE  Cardinality({k \in 1..Len(admitted[u]) : admitted[u][k] <= t /\ admitted[u][k] + Window > t}) <= Limit
  <2>1. PICK a : a = admitted[u] OBVIOUS
  <2>2. now \in Nat /\ Limit \in Nat /\ Window \in Nat BY <1>1, Constants DEF IInv, TypeOK
  <2>3. /\ a \in Seq(0..now)
        /\ \A i, j \in 1..Len(a) : i <= j => a[i] <= a[j]
        /\ \A i, j \in 1..Len(a) : j = i + Limit => a[i] + Window <= a[j]
    BY <1>1, <2>1 DEF IInv, RateInv, Spaced
  <2>4. PICK l \in Nat : l = Len(a) BY <2>3, LenProperties
  <2>5. \A i \in 1..l : a[i] \in Nat BY <2>2, <2>3, <2>4, ElementOfSeq
  <2> DEFINE young == {k \in 1..l : a[k] + Window > t}
             later == {k \in 1..l : ~(a[k] <= t)}
             within == {k \in 1..l : a[k] <= t /\ a[k] + Window > t}
  <2>6. PICK k \in 0..l : young = (k + 1)..l
    <3>1. ASSUME NEW i \in young, NEW j \in 1..l, i <= j PROVE j \in young
      BY <2>2, <2>3, <2>4, <2>5, <3>1
    <3>2. young \in SUBSET (1..l) OBVIOUS
    <3> HIDE DEF young
    <3> QED BY <3>1, <3>2, EndOfRange
  <2>7. PICK m \in 0..l : later = (m + 1)..l
    <3>1. ASSUME NEW i \in later, NEW j \in 1..l, i <= j PROVE j \in later
      BY <2>2, <2>3, <2>4, <2>5, <3>1
    <3>2. later \in SUBSET (1..l) OBVIOUS
    <3> HIDE DEF later
    <3> QED BY <3>1, <3>2, EndOfRange
  <2>8. within = (k + 1)..m
    <3>1. within = {i \in 1..l : i \in young /\ i \notin later} OBVIOUS
    <3>2. {i \in 1..l : i \in (k + 1)..l /\ i \notin (m + 1)..l} = (k + 1)..m OBVIOUS
    <3> QED BY <2>6, <2>7, <3>1, <3>2
  <2>9. m - k <= Limit
    <3>1. ASSUME m - k > Limit PROVE FALSE
      <4>1. /\ k + 1 \in 1..l /\ k + 1 + Limit \in 1..l
            /\ k + 1 \in (k + 1)..m /\ k + 1 + Limit \in (k + 1)..m
        BY <2>2, <3>1
      <4>2. k + 1 \in within /\ k + 1 + Limit \in within BY <2>8, <4>1
      <4>3. a[k + 1] + Window > t /\ a[k + 1 + Limit] <= t BY <4>2
      <4>4. a[k + 1] + Window <= a[k + 1 + Limit] BY <2>3, <2>4, <4>1
      <4>5. a[k + 1] \in Nat /\ a[k + 1 + Limit] \in Nat BY <2>5, <4>1
      <4> QED BY <2>2, <4>3, <4>4, <4>5
    <3> QED BY <2>2, <3>1
  <2>10. Cardinality((k + 1)..m) <= Limit
    <3>1. Cardinality((k + 1)..m) = IF k + 1 > m THEN 0 ELSE m - (k + 1) + 1 BY FS_Interval
    <3> QED BY <2>2, <2>9, <3>1
  <2>11. Cardinality(within) <= Limit BY <2>8, <2>10
  <2> QED BY <2>1, <2>4, <2>11
<1>2. IInv => RateRespected BY <1>1 DEF RateRespected
<1> QED BY <1>2, Inductive, PTL

=============================================================================
