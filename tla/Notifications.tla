---------------------------- MODULE Notifications ----------------------------
(***************************************************************************)
(* Notification management: the Kafka consumer that delivers events to     *)
(* Telegram, the poller that binds a chat to the user whose bind code it   *)
(* sends, and the RPCs that change preferences and bindings.               *)
(*                                                                         *)
(* They run at the same time over two tables, in statements of their own.  *)
(* The rate limiter, the poller's offset and the consumer's position live  *)
(* in the process and die with it. Delivery is enabled: a process with     *)
(* delivery disabled reports every event as "disabled", like a user who    *)
(* has switched everything off.                                            *)
(***************************************************************************)
EXTENDS Naturals, FiniteSets, Sequences

CONSTANTS
  Users, Chats,
  Codes,        \* random bind codes, never drawn twice
  Partitions,   \* claims of the topic, one goroutine each
  Callers,      \* goroutines that serve RPCs
  Categories,   \* event categories, "custom" the rate-limited one
  PlanOf,       \* what a user's plan allows: "enabled" and categories
  PartitionOf,  \* where a user's events go: publishers key them by user
  Rate, Burst,  \* custom_rate_limit_per_minute and its burst
  Window,       \* CustomRateWindow
  CodeTTL,      \* BindCodeTTL
  None,         \* NULL
  MaxTime,      \* bound on the clock
  MaxInputs,    \* bound on requests, codes sent in and events published
  MaxFaults     \* bound on failed calls and restarts

ASSUME NotificationConstants ==
  /\ PlanOf \in [Users -> SUBSET (Categories \cup {"enabled"})]
  /\ PartitionOf \in [Users -> Partitions]
  /\ {Rate, Burst, Window, CodeTTL, MaxTime, MaxInputs, MaxFaults} \subseteq Nat
  /\ "system" \in Categories
  /\ None \notin Users \cup Chats \cup Codes
  /\ None \notin Nat
  /\ Partitions \cap Callers = {}

VARIABLES
  settings,   \* notification_settings: switches that are on, last delivery status
  channel,    \* notification_channels, the Telegram row of a user
  inbox,      \* updates sent to the bot, in order
  confirmed,  \* updates Telegram has dropped because a later offset was asked for
  poll,       \* the poller's locals
  log,        \* the topic, by partition
  committed,  \* committed offsets; None before the first commit
  marked,     \* the consumer's position in a partition
  ds,         \* the deliveries under way, by claim or caller
  hit,        \* the rate limiter's map
  now,        \* the clock
  inputs,     \* inputs so far
  faults,     \* faults so far
  lost        \* commits that failed

tables == <<settings, channel>>
telegram == <<inbox, confirmed, poll>>
kafka == <<log, committed, marked, lost>>

VARIABLES
  owner,      \* history: the user a code was made for
  binds,      \* history: how often a code has bound a channel
  handled,    \* history: updates HandleTelegramUpdate has returned from
  sent,       \* history: events a message went out for
  admitted    \* history: times at which custom events were let through

history == <<owner, binds, handled, sent, admitted>>
vars == <<tables, telegram, kafka, ds, hit, now, inputs, faults, history>>

Deliverers == Partitions \cup Callers

Switches == Categories \cup {"enabled"}

\* A row that does not exist reads like the default one, so it is not told apart.
Outcomes == {"ok", "failed", "disabled", "plan_disabled", "unbound", "rate_limited"}
Settings == [on : SUBSET Switches, last : Outcomes \cup {None}]
ChannelRow == [st : {"unbound", "pending", "bound", "revoked"}, target : Chats \cup {None},
               code : Codes \cup {None}, exp : 0..(MaxTime + CodeTTL), last : Outcomes \cup {None}]

Event == [u : Users, cat : Categories \cup {"invalid"}]

\* n is the event's place in the partition, 0 for a test message.
Delivery == [pc : {"settings", "channel", "limit", "send", "status", "mark"},
             u : Users, cat : Categories \cup {"invalid"}, n : 0..MaxInputs,
             target : Chats \cup {None}, out : Outcomes \cup {None}]
Saving == [pc : {"save"}, u : Users, on : SUBSET {"enabled"}]
Idle == [pc |-> "idle"]

\* i..to are the updates of the batch still to be handled; u was found for update i.
Poll == [pc : {"idle", "find", "bind"}, off : 0..(MaxInputs + 1), i : 0..(MaxInputs + 1),
         to : 0..MaxInputs, u : Users \cup {None}]
IdlePoll(off) == [pc |-> "idle", off |-> off, i |-> 0, to |-> 0, u |-> None]

CanFail == faults < MaxFaults
Fault == CanFail /\ faults' = faults + 1

-----------------------------------------------------------------------------
(* Preferences and binding codes. *)

\* A request with the master switch is one upsert.
UpdatePreferences(k, u) ==
  /\ ds[k] = Idle
  /\ \E on \in SUBSET Switches : settings' = [settings EXCEPT ![u].on = on]
  /\ UNCHANGED <<channel, telegram, kafka, ds, hit, now, faults, history>>

\* One without it reads the switch first and writes it back.
ReadMasterSwitch(k, u) ==
  /\ ds[k] = Idle
  /\ ds' = [ds EXCEPT ![k] = [pc |-> "save", u |-> u, on |-> settings[u].on \cap {"enabled"}]]
  /\ UNCHANGED <<tables, telegram, kafka, hit, now, faults, history>>

SavePreferences(k) ==
  /\ ds[k].pc = "save"
  /\ \E on \in SUBSET Categories : settings' = [settings EXCEPT ![ds[k].u].on = ds[k].on \cup on]
  /\ ds' = [ds EXCEPT ![k] = Idle]
  /\ UNCHANGED <<channel, telegram, kafka, hit, now, faults, history>>

\* A code is drawn at random; that it is one drawn before is left out.
randomBindCode == {c \in Codes : owner[c] = None}

\* A bound channel stays bound while the new code is out.
UpsertNotificationBindCode(u, c) ==
  channel' = [channel EXCEPT ![u].st = IF @ = "bound" /\ channel[u].target # None THEN @ ELSE "pending",
                             ![u].code = c, ![u].exp = now + CodeTTL]

CreateBindCode(u, c) ==
  /\ c \in randomBindCode
  /\ owner' = [owner EXCEPT ![c] = u]
  /\ UpsertNotificationBindCode(u, c)
  /\ UNCHANGED <<settings, telegram, kafka, ds, hit, now, faults, binds, handled, sent, admitted>>

Unbind(u) ==
  /\ channel' = [channel EXCEPT ![u].st = "revoked", ![u].target = None, ![u].code = None, ![u].exp = 0]
  /\ UNCHANGED <<settings, telegram, kafka, ds, hit, now, faults, history>>

-----------------------------------------------------------------------------
(* RunTelegramPolling. Telegram keeps an update until a call asks for a      *)
(* later one; the first call of a process asks for whatever is kept.         *)

\* A chat sends a code to the bot.
SendCode(x, c) ==
  /\ owner[c] # None
  /\ inbox' = Append(inbox, [chat |-> x, code |-> c])
  /\ UNCHANGED <<tables, confirmed, poll, kafka, ds, hit, now, faults, history>>

\* Slip: a call asks for what follows the updates it is about to return.
GetUpdatesEager ==
  /\ poll.pc = "idle"
  /\ Len(inbox) > confirmed
  /\ confirmed' = Len(inbox)
  /\ poll' = [poll EXCEPT !.pc = "find", !.i = confirmed + 1, !.to = Len(inbox)]
  /\ UNCHANGED <<tables, inbox, kafka, ds, hit, now, faults, history>>

GetUpdates ==
  /\ poll.pc = "idle"
  /\ confirmed' = IF poll.off > confirmed THEN poll.off - 1 ELSE confirmed
  /\ poll' = IF confirmed' < Len(inbox)
             THEN [poll EXCEPT !.pc = "find", !.i = confirmed' + 1, !.to = Len(inbox)] ELSE poll
  /\ <<confirmed, poll>>' # <<confirmed, poll>>
  /\ UNCHANGED <<tables, inbox, kafka, ds, hit, now, faults, history>>

\* The batch goes on after update i, whatever came of it.
NextUpdate ==
  /\ handled' = handled \cup {poll.i}
  /\ poll' = IF poll.i = poll.to THEN IdlePoll(poll.i + 1)
             ELSE [poll EXCEPT !.pc = "find", !.off = poll.i + 1, !.i = poll.i + 1, !.u = None]

\* Slip: any channel that waits for a code is taken.
FindAnyPending(c) == {u \in Users : channel[u].code # None /\ channel[u].exp > now}

FindNotificationChannelByBindCodeHash(c) ==
  {u \in Users : channel[u].code = c /\ channel[u].exp > now /\ channel[u].st \in {"pending", "bound"}}

\* The offset moves first, then the code is looked up; a failed lookup is dropped.
FindChannel ==
  /\ poll.pc = "find"
  /\ LET found == FindNotificationChannelByBindCodeHash(inbox[poll.i].code) IN
       \/ /\ \E u \in found : poll' = [poll EXCEPT !.pc = "bind", !.off = poll.i + 1, !.u = u]
          /\ UNCHANGED <<faults, handled>>
       \/ found = {} /\ NextUpdate /\ UNCHANGED faults
       \/ Fault /\ NextUpdate
  /\ UNCHANGED <<tables, inbox, confirmed, kafka, ds, hit, now, owner, binds, sent, admitted>>

Bound(u, keptCode) ==
  [channel EXCEPT ![u].st = "bound", ![u].target = inbox[poll.i].chat, ![u].code = keptCode,
                  ![u].exp = IF keptCode = None THEN 0 ELSE @]

\* Slip: the code stays in the row.
BindKeepsCode ==
  /\ poll.pc = "bind"
  /\ channel' = Bound(poll.u, channel[poll.u].code)
  /\ binds' = [binds EXCEPT ![inbox[poll.i].code] = @ + 1]
  /\ NextUpdate
  /\ UNCHANGED <<settings, inbox, confirmed, kafka, ds, hit, now, faults, owner, sent, admitted>>

BindNotificationChannel ==
  /\ poll.pc = "bind"
  /\ \/ /\ channel' = Bound(poll.u, None)
        /\ binds' = [binds EXCEPT ![inbox[poll.i].code] = @ + 1]
        /\ UNCHANGED faults
     \/ Fault /\ UNCHANGED <<channel, binds>>
  /\ NextUpdate
  /\ UNCHANGED <<settings, inbox, confirmed, kafka, ds, hit, now, owner, sent, admitted>>

-----------------------------------------------------------------------------
(* Deliveries: ConsumeClaim, or a test message, and DeliverEvent. *)

Publish(u, cat) ==
  /\ log' = [log EXCEPT ![PartitionOf[u]] = Append(@, [u |-> u, cat |-> cat])]
  /\ UNCHANGED <<tables, telegram, committed, marked, lost, ds, hit, now, faults, history>>

StartDelivery(d, u, cat, n, label) ==
  ds' = [ds EXCEPT ![d] = [pc |-> label, u |-> u, cat |-> cat, n |-> n, target |-> None, out |-> None]]

\* An event that does not parse is skipped.
ConsumeClaim(p) ==
  /\ ds[p] = Idle
  /\ marked[p] < Len(log[p])
  /\ LET e == log[p][marked[p] + 1]
     IN StartDelivery(p, e.u, e.cat, marked[p] + 1, IF e.cat = "invalid" THEN "mark" ELSE "settings")
  /\ UNCHANGED <<tables, telegram, kafka, hit, now, faults, history>>

SendTest(k, u) ==
  /\ ds[k] = Idle
  /\ StartDelivery(k, u, "system", 0, "settings")
  /\ UNCHANGED <<tables, telegram, kafka, hit, now, faults, history>>

Goto(d, label) == ds' = [ds EXCEPT ![d].pc = label]
Report(d, out) == ds' = [ds EXCEPT ![d].pc = "status", ![d].out = out]
Finish(d) == IF d \in Partitions THEN Goto(d, "mark") ELSE ds' = [ds EXCEPT ![d] = Idle]

\* A read fails: DeliverEvent returns the error, which ConsumeClaim drops.
DeliverFails(d) ==
  /\ ds[d].pc \in {"settings", "channel"}
  /\ Fault
  /\ Finish(d)
  /\ UNCHANGED <<tables, telegram, kafka, hit, now, history>>

\* Plan and preferences are asked for the master switch first, then for the category.
blockedStatus(u, cat) ==
  LET allowed == PlanOf[u] \cap settings[u].on
      asked == IF "enabled" \in allowed THEN cat ELSE "enabled"
  IN IF asked \in allowed THEN None
     ELSE IF asked \in PlanOf[u] THEN "disabled" ELSE "plan_disabled"

\* The channel is read whatever the settings say, and decides only if they do not.
ReadSettings(d) ==
  LET blocked == blockedStatus(ds[d].u, ds[d].cat) IN
  /\ ds[d].pc = "settings"
  /\ IF blocked = None THEN Goto(d, "channel") ELSE Report(d, blocked)
  /\ UNCHANGED <<tables, telegram, kafka, hit, now, faults, history>>

ReadChannel(d) ==
  LET row == channel[ds[d].u] IN
  /\ ds[d].pc = "channel"
  /\ IF row.st = "bound" /\ row.target # None
     THEN ds' = [ds EXCEPT ![d].pc = IF ds[d].cat = "custom" THEN "limit" ELSE "send",
                           ![d].target = row.target]
     ELSE Report(d, "unbound")
  /\ UNCHANGED <<tables, telegram, kafka, hit, now, faults, history>>

Limit == IF 0 < Burst /\ Burst < Rate THEN Burst ELSE Rate

\* Slip: a hit is forgotten once it is a window old, rounded down.
RecentRounded(t) == t + Window > now + 1

\* A hit counts while it is younger than the window.
Recent(t) == t + Window > now

\* The hits of h that count, in their order.
Keep(h) ==
  LET young == {i \in 1..Len(h) : Recent(h[i])}
      at(j) == CHOOSE i \in young : Cardinality({m \in young : m <= i}) = j
  IN [j \in 1..Cardinality(young) |-> h[at(j)]]

\* The clock is read before the mutex is taken; the events of a user, and so of a key,
\* come one after the other.
Allow(d) ==
  LET u == ds[d].u
      keep == Keep(hit[u])
  IN
  /\ ds[d].pc = "limit"
  /\ IF Len(keep) >= Limit
     THEN Report(d, "rate_limited") /\ hit' = [hit EXCEPT ![u] = keep] /\ UNCHANGED admitted
     ELSE /\ Goto(d, "send")
          /\ hit' = [hit EXCEPT ![u] = Append(keep, now)]
          /\ admitted' = [admitted EXCEPT ![u] = Append(@, now)]
  /\ UNCHANGED <<tables, telegram, kafka, now, faults, owner, binds, handled, sent>>

\* A call that fails may have sent the message all the same; one that is not configured
\* fails and sends nothing.
SendMessage(d) ==
  /\ ds[d].pc = "send"
  /\ LET out == sent \cup (IF d \in Partitions THEN {<<d, ds[d].n>>} ELSE {}) IN
       \/ Report(d, "ok") /\ sent' = out /\ UNCHANGED faults
       \/ Report(d, "failed") /\ sent' \in {sent, out} /\ Fault
  /\ UNCHANGED <<tables, telegram, kafka, hit, now, owner, binds, handled, admitted>>

\* Both rows or neither; an error is dropped or is the last thing that happens.
UpdateNotificationDeliveryStatus(d) ==
  /\ ds[d].pc = "status"
  /\ \/ /\ settings' = [settings EXCEPT ![ds[d].u].last = ds[d].out]
        /\ channel' = [channel EXCEPT ![ds[d].u].last = ds[d].out]
        /\ UNCHANGED faults
     \/ Fault /\ UNCHANGED <<settings, channel>>
  /\ Finish(d)
  /\ UNCHANGED <<telegram, kafka, hit, now, history>>

\* Slip: the commit comes before the mark.
CommitThenMark(p) ==
  /\ ds[p].pc = "mark"
  /\ committed' = [committed EXCEPT ![p] = marked[p]]
  /\ marked' = [marked EXCEPT ![p] = ds[p].n]
  /\ ds' = [ds EXCEPT ![p] = Idle]
  /\ UNCHANGED <<tables, telegram, log, lost, hit, now, faults, history>>

\* MarkMessage and Commit. A commit that fails is covered by the next one (or, earlier,
\* by Sarama's own ticker, which is left out).
CommitMessage(p) ==
  /\ ds[p].pc = "mark"
  /\ marked' = [marked EXCEPT ![p] = ds[p].n]
  /\ \/ committed' = [committed EXCEPT ![p] = ds[p].n] /\ UNCHANGED <<faults, lost>>
     \/ Fault /\ lost' = lost + 1 /\ UNCHANGED committed
  /\ ds' = [ds EXCEPT ![p] = Idle]
  /\ UNCHANGED <<tables, telegram, log, hit, now, history>>

-----------------------------------------------------------------------------
\* Where a new claim starts: at the committed offset, or, without one, at the end
\* (OffsetNewest).
StartAt(p) == IF committed[p] = None THEN Len(log[p]) ELSE committed[p]

\* The process dies and comes back.
Restart ==
  /\ Fault
  /\ ds' = [d \in Deliverers |-> Idle]
  /\ poll' = IdlePoll(0)
  /\ marked' = [p \in Partitions |-> StartAt(p)]
  /\ hit' = [u \in Users |-> <<>>]
  /\ admitted' = [u \in Users |-> <<>>]
  /\ UNCHANGED <<tables, inbox, confirmed, log, committed, lost, now, owner, binds, handled, sent>>

Tick ==
  /\ now < MaxTime
  /\ now' = now + 1
  /\ UNCHANGED <<tables, telegram, kafka, ds, hit, faults, history>>

Init ==
  /\ settings = [u \in Users |-> [on |-> Switches, last |-> None]]
  /\ channel = [u \in Users |-> [st |-> "unbound", target |-> None, code |-> None, exp |-> 0, last |-> None]]
  /\ inbox = <<>> /\ confirmed = 0 /\ poll = IdlePoll(0)
  /\ log = [p \in Partitions |-> <<>>]
  /\ committed = [p \in Partitions |-> None]
  /\ marked = [p \in Partitions |-> 0]
  /\ ds = [d \in Deliverers |-> Idle]
  /\ hit = [u \in Users |-> <<>>]
  /\ now = 0 /\ inputs = 0 /\ faults = 0 /\ lost = 0
  /\ owner = [c \in Codes |-> None]
  /\ binds = [c \in Codes |-> 0]
  /\ handled = {} /\ sent = {}
  /\ admitted = [u \in Users |-> <<>>]

DeliveryStep(d) ==
  \/ ReadSettings(d) \/ ReadChannel(d) \/ DeliverFails(d)
  \/ Allow(d) \/ SendMessage(d) \/ UpdateNotificationDeliveryStatus(d)

Poller == GetUpdates \/ FindChannel \/ BindNotificationChannel

\* What users, chats and other services ask for.
Input ==
  \/ \E u \in Users : Unbind(u) \/ \E c \in Codes : CreateBindCode(u, c)
  \/ \E k \in Callers, u \in Users : UpdatePreferences(k, u) \/ ReadMasterSwitch(k, u) \/ SendTest(k, u)
  \/ \E x \in Chats, c \in Codes : SendCode(x, c)
  \/ \E u \in Users, cat \in Categories \cup {"invalid"} : Publish(u, cat)

Step ==
  \/ \E k \in Callers : SavePreferences(k)
  \/ Poller
  \/ \E p \in Partitions : ConsumeClaim(p) \/ CommitMessage(p)
  \/ \E d \in Deliverers : DeliveryStep(d)
  \/ Restart
  \/ Tick

Next ==
  \/ inputs < MaxInputs /\ inputs' = inputs + 1 /\ Input
  \/ Step /\ UNCHANGED inputs

Spec == Init /\ [][Next]_vars

-----------------------------------------------------------------------------
(* Properties. *)

\* A user's messages go to a chat that sent a code made for that user and no other,
\* however codes, unbinds and replayed updates interleave with the lookup.
TargetProved ==
  \A u \in Users : channel[u].target # None =>
    \E i \in 1..Len(inbox) : inbox[i].chat = channel[u].target /\ owner[inbox[i].code] = u

\* A code binds once: neither a second chat that sends it nor an update that is
\* fetched again after a restart can use it.
CodeBindsOnce == \A c \in Codes : binds[c] <= 1

\* Telegram forgets an update only after it was handled: a restart loses no code.
ConfirmedIsHandled == 1..confirmed \subseteq handled

\* A restart replays at most one message that went out, unless commits failed.
ReplayBounded ==
  \A p \in Partitions :
    Cardinality({n \in (StartAt(p) + 1)..Len(log[p]) : <<p, n>> \in sent}) <= 1 + lost

\* No window holds more custom events of a user than the plan allows, as long as the
\* process lives.
RateRespected ==
  \A u \in Users, t \in 0..now :
    Cardinality({k \in 1..Len(admitted[u]) : admitted[u][k] <= t /\ admitted[u][k] + Window > t}) <= Limit

=============================================================================
