------------------------------- MODULE Streams -------------------------------
(***************************************************************************)
(* The user-data streams: a ticker goroutine (SyncOnce) looks at the open  *)
(* orders and keeps one websocket listener running for every venue that    *)
(* has some; a listener hands what the exchange reports to the ingestor,   *)
(* which files it under the open order it finds for it.                    *)
(*                                                                         *)
(* All orders belong to one account. A stream is opened with the login of  *)
(* the venue that is bound to the order's route NOW, and is registered     *)
(* under the venue the order was sent through THEN: rebinding a route      *)
(* makes the two differ. What the exchange reports while no listener is    *)
(* connected is lost to the streams (the REST scanner of OrderRecovery     *)
(* finds it later).                                                        *)
(***************************************************************************)
EXTENDS Naturals, Sequences, FiniteSets, SequencesExt

CONSTANTS
  Orders,      \* the orders of the account
  Routes,      \* its (exchange, market) routes
  Simulated,   \* the routes of a backtest environment
  Venues,      \* the logins
  Goroutines,  \* bound on the listeners that run at once
  RouteOf,     \* the route of an order
  VenueOn,     \* the route a venue is for
  ExId,        \* the id the exchange gives an order
  BatchSize,   \* open orders one SyncOnce looks at
  MaxRebinds,  \* bound on the times a route changes its venue
  MaxFaults,   \* bound on failed calls, restarts and messages that are no order reports
  None         \* no venue, no order

ASSUME StreamConstants ==
  /\ Simulated \subseteq Routes
  /\ RouteOf \in [Orders -> Routes]
  /\ VenueOn \in [Venues -> Routes]
  /\ BatchSize \in Nat \ {0} /\ MaxRebinds \in Nat /\ MaxFaults \in Nat
  /\ None \notin Orders \cup Venues
  /\ IsFiniteSet(Orders)

VARIABLES
  bound,   \* the active venue of every route (ResolveVenueRouteMeta)
  sent,    \* the venue an order was sent through (order_intents.venue_id)
  ex,      \* what has become of an order at the exchange
  open,    \* the rows of open orders, by updated_at
  sync,    \* the orders SyncOnce has yet to visit
  active,  \* the map of running streams, by key
  gs,      \* the listeners
  log,     \* order_lifecycle_events
  rebinds, \* rebindings so far
  faults   \* failures so far

vars == <<bound, sent, ex, open, sync, active, gs, log, rebinds, faults>>
exchange == <<bound, sent, ex, open>>

\* A stream key: account, exchange, environment and market are the route.
Keys == Routes \X Venues

\* A message is a report on an order, a trade or its end; or None, any payload the
\* parser refuses: an event of another type (ACCOUNT_UPDATE), a number it cannot read,
\* a partly filled FOK order. Reports of neither kind are dropped and are no messages.
Messages == Orders \cup {None}

\* A listener: the key it is registered under, the venue whose credential it uses, the
\* venue it files reports under, the messages not yet read, and the report in hand.
Listener == [pc : {"dial", "listen", "handle"}, key : Keys, login : Venues, venue : Venues,
             inbox : Seq(Messages), msg : Messages]
Idle == [pc |-> "idle", key |-> <<>>, login |-> None, venue |-> None, inbox |-> <<>>, msg |-> None]

Running == {g \in Goroutines : gs[g] # Idle}
Open == ToSet(open)
LiveOrders == {o \in Orders : RouteOf[o] \notin Simulated}

-----------------------------------------------------------------------------
(* The account and the exchange. *)

\* BindVenue, ReleaseVenue: open orders do not stop them.
Rebind(r) ==
  /\ rebinds < MaxRebinds
  /\ rebinds' = rebinds + 1
  /\ \E v \in {w \in Venues : VenueOn[w] = r} \cup {None} : v # bound[r] /\ bound' = [bound EXCEPT ![r] = v]
  /\ UNCHANGED <<sent, ex, open, sync, active, gs, log, faults>>

\* The message goes to every connected listener with the login of venue v.
Push(v, m) ==
  gs' = [g \in Goroutines |->
           IF gs[g].pc \in {"listen", "handle"} /\ gs[g].login = v
           THEN [gs[g] EXCEPT !.inbox = Append(@, m)] ELSE gs[g]]

\* PlaceOrder sends the order through the bound venue. Ids are unique at a venue.
Send(o) ==
  LET v == bound[RouteOf[o]] IN
  /\ ex[o] = "none"
  /\ v # None
  /\ \A p \in Orders : sent[p] = v => ExId[p] # ExId[o]
  /\ sent' = [sent EXCEPT ![o] = v]
  /\ ex' = [ex EXCEPT ![o] = "live"]
  /\ UNCHANGED <<bound, open, sync, active, gs, log, rebinds, faults>>

\* The handler stores the row of the order.
StoreOrder(o) ==
  /\ ex[o] = "live"
  /\ o \notin Open
  /\ open' = Append(open, o)
  /\ UNCHANGED <<bound, sent, ex, sync, active, gs, log, rebinds, faults>>

\* The row is written again by a resolve or an open fill: it is now the newest.
TouchOrder(o) ==
  /\ \E i \in 1..(Len(open) - 1) : open[i] = o /\ open' = Append(RemoveAt(open, i), o)
  /\ UNCHANGED <<bound, sent, ex, sync, active, gs, log, rebinds, faults>>

\* The exchange fills the order or ends it, and says so. One report per order.
Report(o) ==
  /\ ex[o] = "live"
  /\ ex' = [ex EXCEPT ![o] = "done"]
  /\ Push(sent[o], o)
  /\ UNCHANGED <<bound, sent, open, sync, active, log, rebinds, faults>>

Chatter(v) ==
  /\ faults < MaxFaults
  /\ faults' = faults + 1
  /\ Push(v, None)
  /\ UNCHANGED <<exchange, sync, active, log, rebinds>>

\* The scanner closes an order that is finished at the exchange.
CloseOrder(o) ==
  /\ ex[o] = "done"
  /\ \E i \in 1..Len(open) : open[i] = o /\ open' = RemoveAt(open, i)
  /\ UNCHANGED <<bound, sent, ex, sync, active, gs, log, rebinds, faults>>

-----------------------------------------------------------------------------
(* SyncOnce. *)

userDataStreamKeyFromOrder(o) == <<RouteOf[o], sent[o]>>

\* valid: backtest orders have no stream.
validKey(key) == key[1] \notin Simulated

\* firstPositiveInt64(meta.VenueID, order.VenueID).
\* Slip: the arguments swapped.
StreamVenueOfOrder(o) == sent[o]
StreamVenue(o) == bound[RouteOf[o]]

\* An empty list is no step.
ListOpenOrders ==
  /\ sync = <<>>
  /\ open # <<>>
  /\ sync' = SubSeq(open, 1, IF Len(open) < BatchSize THEN Len(open) ELSE BatchSize)
  /\ UNCHANGED <<exchange, active, gs, log, rebinds, faults>>

\* The listener is any goroutine that does not run yet.
StartListener(key, login, v) ==
  /\ Running # Goroutines
  /\ active' = active \cup {key}
  /\ gs' = [gs EXCEPT ![CHOOSE g \in Goroutines : gs[g] = Idle] =
               [pc |-> "dial", key |-> key, login |-> login, venue |-> v, inbox |-> <<>>, msg |-> None]]

\* One order of the batch: its key is invalid or has a stream, its route has no venue,
\* or a listener is started. Slip: the registry is not asked.
VisitUnchecked ==
  /\ sync # <<>>
  /\ LET o == Head(sync)
         key == userDataStreamKeyFromOrder(o)
     IN IF ~validKey(key) \/ bound[RouteOf[o]] = None
        THEN UNCHANGED <<active, gs>>
        ELSE StartListener(key, bound[RouteOf[o]], StreamVenue(o))
  /\ sync' = Tail(sync)
  /\ UNCHANGED <<exchange, log, rebinds, faults>>

VisitOrder ==
  /\ sync # <<>>
  /\ LET o == Head(sync)
         key == userDataStreamKeyFromOrder(o)
     IN IF ~validKey(key) \/ key \in active \/ bound[RouteOf[o]] = None
        THEN UNCHANGED <<active, gs>>
        ELSE StartListener(key, bound[RouteOf[o]], StreamVenue(o))
  /\ sync' = Tail(sync)
  /\ UNCHANGED <<exchange, log, rebinds, faults>>

\* ResolveVenueRouteMeta or the credential fails: the order is passed over.
ResolveStreamFails ==
  /\ sync # <<>>
  /\ faults < MaxFaults
  /\ faults' = faults + 1
  /\ sync' = Tail(sync)
  /\ UNCHANGED <<exchange, active, gs, log, rebinds>>

-----------------------------------------------------------------------------
(* runStream, Listen. *)

\* The listener returns, and its key is free again.
\* Slip: the key is freed only if no error was met.
StopKeepsKey(g) == gs' = [gs EXCEPT ![g] = Idle] /\ active' = active
clearActive(g) == gs' = [gs EXCEPT ![g] = Idle] /\ active' = active \ {gs[g].key}

\* createListenKey, and the connection.
Dial(g) ==
  /\ gs[g].pc = "dial"
  /\ gs' = [gs EXCEPT ![g].pc = "listen"]
  /\ UNCHANGED <<exchange, sync, active, log, rebinds, faults>>

DialFails(g) ==
  /\ gs[g].pc = "dial"
  /\ faults < MaxFaults
  /\ faults' = faults + 1
  /\ clearActive(g)
  /\ UNCHANGED <<exchange, sync, log, rebinds>>

\* ReadMessage and ParseOrderEvent.
ReadMessage(g) ==
  /\ gs[g].pc = "listen"
  /\ gs[g].inbox # <<>>
  /\ IF Head(gs[g].inbox) = None
     THEN clearActive(g)
     ELSE /\ gs' = [gs EXCEPT ![g].pc = "handle", ![g].msg = Head(gs[g].inbox), ![g].inbox = Tail(@)]
          /\ active' = active
  /\ UNCHANGED <<exchange, sync, log, rebinds, faults>>

\* 30 s without a message, or a broken connection.
ReadFails(g) ==
  /\ gs[g].pc = "listen"
  /\ gs[g].inbox = <<>>
  /\ clearActive(g)
  /\ UNCHANGED <<exchange, sync, log, rebinds, faults>>

\* The rows of open orders of the listener's venue with the exchange's id or ours, and
\* the oldest of them.
Matches(g) ==
  LET o == gs[g].msg IN
  {i \in 1..Len(open) : sent[open[i]] = gs[g].venue /\ (open[i] = o \/ ExId[open[i]] = ExId[o])}
ResolveOpenOrderByExchangeRef(g) == {open[i] : i \in {j \in Matches(g) : \A k \in Matches(g) : j <= k}}

\* Ingest. A report of an order without an open row is dropped; a failed save ends
\* the stream.
Ingest(g) ==
  /\ gs[g].pc = "handle"
  /\ \/ /\ log' = log \cup {[filed |-> p, o |-> gs[g].msg] : p \in ResolveOpenOrderByExchangeRef(g)}
        /\ gs' = [gs EXCEPT ![g].pc = "listen", ![g].msg = None]
        /\ UNCHANGED <<active, faults>>
     \/ /\ Matches(g) # {}
        /\ faults < MaxFaults
        /\ faults' = faults + 1
        /\ clearActive(g)
        /\ log' = log
  /\ UNCHANGED <<exchange, sync, rebinds>>

\* The process restarts: the registry, the listeners and the ticker start afresh.
Restart ==
  /\ faults < MaxFaults
  /\ faults' = faults + 1
  /\ Running # {} \/ sync # <<>>
  /\ gs' = [g \in Goroutines |-> Idle]
  /\ active' = {}
  /\ sync' = <<>>
  /\ UNCHANGED <<exchange, log, rebinds>>

-----------------------------------------------------------------------------
\* Backtest orders rest in the table from the start; no exchange will report on them.
Init ==
  /\ bound \in [Routes -> Venues \cup {None}]
  /\ \A r \in Routes : bound[r] # None => VenueOn[bound[r]] = r
  /\ \A r \in Simulated : bound[r] # None
  /\ sent = [o \in Orders |-> IF RouteOf[o] \in Simulated THEN bound[RouteOf[o]] ELSE None]
  /\ ex = [o \in Orders |-> IF RouteOf[o] \in Simulated THEN "live" ELSE "none"]
  /\ open \in SetToSeqs({o \in Orders : RouteOf[o] \in Simulated})
  /\ sync = <<>>
  /\ active = {}
  /\ gs = [g \in Goroutines |-> Idle]
  /\ log = {}
  /\ rebinds = 0
  /\ faults = 0

World ==
  \/ \E r \in Routes \ Simulated : Rebind(r)
  \/ \E o \in LiveOrders : Send(o) \/ StoreOrder(o) \/ TouchOrder(o) \/ Report(o) \/ CloseOrder(o)
  \/ \E v \in {w \in Venues : VenueOn[w] \notin Simulated} : Chatter(v)

SyncOnce == ListOpenOrders \/ VisitOrder \/ ResolveStreamFails

Listen(g) == Dial(g) \/ DialFails(g) \/ ReadMessage(g) \/ ReadFails(g) \/ Ingest(g)

Next == World \/ SyncOnce \/ Restart \/ \E g \in Goroutines : Listen(g)

Spec == Init /\ [][Next]_vars

\* The ticker fires and the goroutines run.
FairSpec ==
  /\ Spec
  /\ WF_vars(SyncOnce)
  /\ \A g \in Goroutines : WF_vars(Listen(g))

-----------------------------------------------------------------------------
(* Properties. *)

\* A key is registered exactly while one listener runs for it: no venue is listened to
\* twice through one key, and none is taken for served when its listener has gone.
RegistryExact ==
  /\ active = {gs[g].key : g \in Running}
  /\ \A g, k \in Running : gs[g].key = gs[k].key => g = k

\* What the exchange reports of an order is filed under that order, although routes
\* are rebound under running streams and two logins give out the same ids.
FiledUnderItsOrder == \A e \in log : e.filed = e.o

\* While a route is served, an open order of it has a connected listener again and
\* again, whatever ended the last one.
StreamReturns ==
  \A o \in LiveOrders :
    o \in Open ~>
      \/ \E g \in Running : gs[g].pc # "dial" /\ gs[g].key = userDataStreamKeyFromOrder(o)
      \/ o \notin Open
      \/ bound[RouteOf[o]] = None

=============================================================================
