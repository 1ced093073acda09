---------------------------- MODULE StreamsProofs ----------------------------
(***************************************************************************)
(* Proofs about Streams, for any orders, routes, logins, exchange ids and  *)
(* bounds: the registry of streams is exact, and a report is filed under   *)
(* the order it is about. The second rests on                              *)
(*                                                                         *)
(*   SentProperly    an order went through a venue of its own route, and   *)
(*                   at a venue its exchange id is its own;                *)
(*   ListensAsFiled  a listener files under the venue whose login it uses, *)
(*                   and holds reports of orders sent through that venue.  *)
(***************************************************************************)
EXTENDS Streams, SequenceTheorems, FiniteSetTheorems, TLAPS

\* The state keeps its types; rows and batches are about orders that were sent.
TypeOK ==
  /\ bound \in [Routes -> Venues \cup {None}]
  /\ sent \in [Orders -> Venues \cup {None}]
  /\ ex \in [Orders -> {"none", "live", "done"}]
  /\ open \in Seq(Orders)
  /\ sync \in Seq(Orders)
  /\ active \subseteq Keys
  /\ gs \in [Goroutines -> Listener \cup {Idle}]
  /\ log \subseteq [filed : Orders, o : Orders]
  /\ rebinds \in 0..MaxRebinds
  /\ faults \in 0..MaxFaults

RowsSent ==
  /\ \A o \in Orders : ex[o] # "none" <=> sent[o] # None
  /\ \A i \in 1..Len(open) : sent[open[i]] # None
  /\ \A i \in 1..Len(sync) : sent[sync[i]] # None

BoundProperly == \A r \in Routes : bound[r] # None => VenueOn[bound[r]] = r

SentProperly ==
  /\ \A o \in Orders : sent[o] # None => VenueOn[sent[o]] = RouteOf[o]
  /\ \A o \in LiveOrders, p \in Orders :
       sent[o] # None /\ sent[p] = sent[o] /\ ExId[p] = ExId[o] => p = o

\* A report that listener g may hold.
Reportable(g, m) == m \in LiveOrders /\ sent[m] = gs[g].login

ListensAsFiled ==
  \A g \in Goroutines :
    /\ gs[g].venue = gs[g].login
    /\ \A i \in 1..Len(gs[g].inbox) : gs[g].inbox[i] # None => Reportable(g, gs[g].inbox[i])
    /\ gs[g].pc = "handle" => Reportable(g, gs[g].msg)

IInv ==
  /\ TypeOK /\ RowsSent /\ BoundProperly /\ SentProperly /\ ListensAsFiled
  /\ RegistryExact /\ FiledUnderItsOrder

-----------------------------------------------------------------------------
(* Sequences and listeners. *)

\* A row is taken out, and the others stay.
LEMMA RemoveAtType ==
  ASSUME NEW S, NEW s \in Seq(S), NEW i \in 1..Len(s)
  PROVE  /\ RemoveAt(s, i) \in Seq(S)
         /\ \A j \in 1..Len(RemoveAt(s, i)) : \E k \in 1..Len(s) : RemoveAt(s, i)[j] = s[k]
<1> DEFINE left == SubSeq(s, 1, i - 1)
           right == SubSeq(s, i + 1, Len(s))
<1>1. left \in Seq(S) /\ right \in Seq(S) /\ Len(left) = i - 1 /\ Len(right) = Len(s) - i
  OBVIOUS
<1>2. /\ \A j \in 1..Len(left) : left[j] = s[j]
      /\ \A j \in 1..Len(right) : right[j] = s[i + j]
  OBVIOUS
<1>3. RemoveAt(s, i) = left \o right BY DEF RemoveAt
<1> HIDE DEF left, right
<1>4. /\ left \o right \in Seq(S) /\ Len(left \o right) = Len(left) + Len(right)
      /\ \A j \in 1..(Len(left) + Len(right)) :
           (left \o right)[j] = IF j <= Len(left) THEN left[j] ELSE right[j - Len(left)]
  BY <1>1, ConcatProperties
<1>5. ASSUME NEW j \in 1..Len(left \o right) PROVE \E k \in 1..Len(s) : (left \o right)[j] = s[k]
  <2>1. CASE j <= Len(left)
    <3>1. j \in 1..Len(s) BY <1>1, <2>1
    <3>2. (left \o right)[j] = s[j] BY <1>1, <1>2, <1>4, <2>1
    <3> QED BY <3>1, <3>2
  <2>2. CASE ~(j <= Len(left))
    <3>1. j - Len(left) \in 1..Len(right) /\ i + (j - Len(left)) \in 1..Len(s) BY <1>1, <1>4, <2>2
    <3>2. (left \o right)[j] = s[i + (j - Len(left))] BY <1>2, <1>4, <2>2, <3>1
    <3> QED BY <3>1, <3>2
  <2> QED BY <2>1, <2>2
<1> QED BY <1>3, <1>4, <1>5

\* A goroutine runs exactly when it is a listener.
LEMMA ListenerType ==
  ASSUME TypeOK, NEW g \in Goroutines
  PROVE  /\ gs[g] = Idle => gs[g].pc = "idle" /\ gs[g].inbox = <<>>
         /\ gs[g] # Idle => gs[g] \in Listener
         /\ gs[g] \in Listener => gs[g] # Idle
<1>1. Idle.pc = "idle" /\ Idle.inbox = <<>> BY DEF Idle
<1>2. \A l \in Listener : l.pc # "idle" BY DEF Listener
<1> QED BY <1>1, <1>2 DEF TypeOK

\* As long as the same goroutines run under the same keys, the registry is exact.
LEMMA RegistryKept ==
  ASSUME RegistryExact, active' = active,
         \A g \in Goroutines : (gs'[g] # Idle <=> gs[g] # Idle) /\ gs'[g].key = gs[g].key
  PROVE  RegistryExact'
<1>1. Running' = Running BY DEF Running
<1>2. \A g \in Running : gs'[g].key = gs[g].key BY DEF Running
<1> QED BY <1>1, <1>2 DEF RegistryExact

\* A listener that ends frees its key, which nobody else runs under.
LEMMA StopType ==
  ASSUME TypeOK, RegistryExact, ListensAsFiled, sent' = sent,
         NEW g \in Goroutines, gs[g] # Idle, clearActive(g)
  PROVE  /\ gs' \in [Goroutines -> Listener \cup {Idle}]
         /\ active' \subseteq Keys
         /\ RegistryExact'
         /\ ListensAsFiled'
<1>1. /\ gs'[g] = Idle
      /\ \A h \in Goroutines : h # g => gs'[h] = gs[h]
      /\ gs' \in [Goroutines -> Listener \cup {Idle}]
  BY DEF clearActive, TypeOK
<1>2. active' \subseteq Keys BY DEF clearActive, TypeOK
<1>3. Running' = Running \ {g} BY <1>1 DEF Running
<1>4. RegistryExact'
  <2>1. active' = {gs'[h].key : h \in Running'}
    <3>1. active' = {gs[h].key : h \in Running} \ {gs[g].key} BY DEF clearActive, RegistryExact
    <3>2. \A h \in Running \ {g} : gs[h].key # gs[g].key /\ gs'[h].key = gs[h].key
      BY <1>1 DEF RegistryExact, Running
    <3> QED BY <1>3, <3>1, <3>2
  <2>2. \A h, k \in Running' : gs'[h].key = gs'[k].key => h = k
    BY <1>1, <1>3 DEF RegistryExact, Running
  <2> QED BY <2>1, <2>2 DEF RegistryExact
<1>5. ListensAsFiled'
  <2>1. Idle.venue = Idle.login /\ Len(Idle.inbox) = 0 /\ Idle.pc = "idle" BY DEF Idle
  <2> QED BY <1>1, <2>1 DEF ListensAsFiled, Reportable
<1> QED BY <1>1, <1>2, <1>4, <1>5

\* While the listeners stay as they are, what they hold stays attributed, whatever is sent.
LEMMA ListensKept ==
  ASSUME TypeOK, ListensAsFiled, gs' = gs,
         \A o \in Orders : sent[o] # None => sent'[o] = sent[o]
  PROVE  ListensAsFiled'
<1>1. ASSUME NEW g \in Goroutines, NEW m, Reportable(g, m), gs[g] # Idle PROVE Reportable(g, m)'
  <2>1. gs[g].login \in Venues BY <1>1, ListenerType DEF Listener
  <2>2. m \in Orders /\ sent[m] # None BY <1>1, <2>1, StreamConstants DEF Reportable, LiveOrders
  <2> QED BY <1>1, <2>2 DEF Reportable
<1>2. ASSUME NEW g \in Goroutines, gs[g] = Idle PROVE Len(gs[g].inbox) = 0 /\ gs[g].pc # "handle"
  BY <1>2 DEF Idle
<1> QED BY <1>1, <1>2 DEF ListensAsFiled

-----------------------------------------------------------------------------
(* The account, the exchange and the ticker. *)

\* Steps that leave listeners and log alone.
LEMMA WorldStep ==
  ASSUME IInv, UNCHANGED <<active, gs, log>>, TypeOK', RowsSent', BoundProperly', SentProperly',
         \A o \in Orders : sent[o] # None => sent'[o] = sent[o]
  PROVE  IInv'
<1>1. ListensAsFiled' BY ListensKept DEF IInv
<1>2. RegistryExact' BY RegistryKept DEF IInv
<1>3. FiledUnderItsOrder' BY DEF IInv, FiledUnderItsOrder
<1> QED BY <1>1, <1>2, <1>3 DEF IInv

\* A route changes its venue to one that is for it.
LEMMA RebindStep ==
  ASSUME IInv, NEW r \in Routes, Rebind(r)
  PROVE  IInv'
<1>1. PICK v \in {w \in Venues : VenueOn[w] = r} \cup {None} : bound' = [bound EXCEPT ![r] = v]
  BY DEF Rebind
<1>2. TypeOK' BY <1>1, StreamConstants DEF IInv, TypeOK, Rebind
<1>3. BoundProperly' BY <1>1 DEF IInv, TypeOK, BoundProperly
<1>4. RowsSent' /\ SentProperly' BY DEF IInv, RowsSent, SentProperly, Rebind
<1> QED BY <1>2, <1>3, <1>4, WorldStep DEF Rebind

\* An order is sent through the venue bound to its route, which gives it an id of its own.
LEMMA SendStep ==
  ASSUME IInv, NEW o \in LiveOrders, Send(o)
  PROVE  IInv'
<1>1. PICK v : v = bound[RouteOf[o]] OBVIOUS
<1>2. o \in Orders /\ v \in Venues /\ v # None /\ VenueOn[v] = RouteOf[o]
  BY <1>1, StreamConstants DEF LiveOrders, IInv, TypeOK, BoundProperly, Send
<1>3. /\ ex[o] = "none" /\ sent[o] = None
      /\ \A p \in Orders : sent[p] = v => ExId[p] # ExId[o]
      /\ sent' = [sent EXCEPT ![o] = v]
      /\ ex' = [ex EXCEPT ![o] = "live"]
      /\ UNCHANGED <<bound, open, sync, active, gs, log, rebinds, faults>>
  BY <1>1, <1>2 DEF Send, IInv, RowsSent
<1>4. /\ sent'[o] = v /\ ex'[o] = "live"
      /\ \A p \in Orders : p # o => sent'[p] = sent[p] /\ ex'[p] = ex[p]
  BY <1>2, <1>3 DEF IInv, TypeOK
<1>5. TypeOK' BY <1>2, <1>3 DEF IInv, TypeOK
<1>6. RowsSent'
  <2>1. \A i \in 1..Len(open) : open[i] \in Orders BY DEF IInv, TypeOK
  <2>2. \A i \in 1..Len(sync) : sync[i] \in Orders BY DEF IInv, TypeOK
  <2> QED BY <1>2, <1>3, <1>4, <2>1, <2>2 DEF IInv, RowsSent
<1>7. BoundProperly' BY <1>3 DEF IInv, BoundProperly
<1>8. SentProperly'
  <2>1. \A p \in Orders : sent'[p] # None => VenueOn[sent'[p]] = RouteOf[p]
    BY <1>2, <1>4 DEF IInv, SentProperly
  <2>2. ASSUME NEW q \in LiveOrders, NEW p \in Orders,
               sent'[q] # None, sent'[p] = sent'[q], ExId[p] = ExId[q]
        PROVE  p = q
    <3>1. q \in Orders BY DEF LiveOrders
    <3> QED BY <1>2, <1>3, <1>4, <2>2, <3>1 DEF IInv, SentProperly
  <2> QED BY <2>1, <2>2 DEF SentProperly
<1> QED BY <1>2, <1>3, <1>4, <1>5, <1>6, <1>7, <1>8, WorldStep

\* Rows come, move and go.
LEMMA RowStep ==
  ASSUME IInv, NEW o \in LiveOrders, StoreOrder(o) \/ TouchOrder(o) \/ CloseOrder(o)
  PROVE  IInv'
<1>1. UNCHANGED <<bound, sent, ex, sync, active, gs, log, rebinds, faults>>
  BY DEF StoreOrder, TouchOrder, CloseOrder
<1>2. o \in Orders /\ open \in Seq(Orders) BY DEF LiveOrders, IInv, TypeOK
<1>3. open' \in Seq(Orders) /\ \A j \in 1..Len(open') : sent[open'[j]] # None
  <2>1. CASE StoreOrder(o)
    <3>1. sent[o] # None BY <1>2, <2>1 DEF IInv, RowsSent, StoreOrder
    <3>2. open' = Append(open, o) BY <2>1 DEF StoreOrder
    <3> QED BY <1>2, <3>1, <3>2 DEF IInv, RowsSent
  <2>2. CASE TouchOrder(o)
    <3>1. PICK i \in 1..(Len(open) - 1) : open[i] = o /\ open' = Append(RemoveAt(open, i), o)
      BY <2>2 DEF TouchOrder
    <3>2. i \in 1..Len(open) BY <1>2
    <3>3. PICK rest \in Seq(Orders) :
            /\ rest = RemoveAt(open, i)
            /\ \A j \in 1..Len(rest) : \E k \in 1..Len(open) : rest[j] = open[k]
      BY <1>2, <3>2, RemoveAtType
    <3>4. sent[o] # None /\ \A j \in 1..Len(rest) : sent[rest[j]] # None
      BY <3>1, <3>2, <3>3 DEF IInv, RowsSent
    <3>5. open' = Append(rest, o) BY <3>1, <3>3
    <3> QED BY <1>2, <3>4, <3>5
  <2>3. CASE CloseOrder(o)
    <3>1. PICK i \in 1..Len(open) : open' = RemoveAt(open, i) BY <2>3 DEF CloseOrder
    <3>2. RemoveAt(open, i) \in Seq(Orders)
           /\ \A j \in 1..Len(RemoveAt(open, i)) : \E k \in 1..Len(open) : RemoveAt(open, i)[j] = open[k]
      BY <1>2, RemoveAtType
    <3> QED BY <3>1, <3>2 DEF IInv, RowsSent
  <2> QED BY <2>1, <2>2, <2>3
<1>4. TypeOK' BY <1>1, <1>3 DEF IInv, TypeOK
<1>5. RowsSent' /\ BoundProperly' /\ SentProperly'
  BY <1>1, <1>3 DEF IInv, RowsSent, BoundProperly, SentProperly
<1> QED BY <1>1, <1>4, <1>5, WorldStep

\* The rest of a batch.
LEMMA BatchGoesOn ==
  ASSUME IInv, sync # <<>>
  PROVE  Tail(sync) \in Seq(Orders) /\ \A j \in 1..Len(Tail(sync)) : sent[Tail(sync)[j]] # None
<1>1. sync \in Seq(Orders) BY DEF IInv, TypeOK
<1>2. /\ Tail(sync) \in Seq(Orders)
      /\ Len(Tail(sync)) = Len(sync) - 1
      /\ \A j \in 1..Len(Tail(sync)) : Tail(sync)[j] = sync[j + 1]
  BY <1>1, HeadTailProperties
<1>3. \A j \in 1..Len(Tail(sync)) : j + 1 \in 1..Len(sync) BY <1>1, <1>2
<1> QED BY <1>2, <1>3 DEF IInv, RowsSent

\* The ticker lists open orders, and passes over one that it cannot resolve.
LEMMA TickerStep ==
  ASSUME IInv, ListOpenOrders \/ ResolveStreamFails
  PROVE  IInv'
<1>1. UNCHANGED <<bound, sent, ex, open, active, gs, log, rebinds>>
  BY DEF ListOpenOrders, ResolveStreamFails, exchange
<1>2. sync' \in Seq(Orders) /\ \A j \in 1..Len(sync') : sent[sync'[j]] # None
  <2>1. CASE ListOpenOrders
    <3> DEFINE n == IF Len(open) < BatchSize THEN Len(open) ELSE BatchSize
    <3>1. n \in 0..Len(open) BY StreamConstants DEF IInv, TypeOK
    <3>2. sync' = SubSeq(open, 1, n) BY <2>1 DEF ListOpenOrders
    <3> HIDE DEF n
    <3>3. sync' \in Seq(Orders) /\ Len(sync') = n /\ \A j \in 1..n : sync'[j] = open[j]
      BY <3>1, <3>2 DEF IInv, TypeOK
    <3> QED BY <3>1, <3>3 DEF IInv, TypeOK, RowsSent
  <2>2. CASE ResolveStreamFails
    <3>1. sync # <<>> /\ sync' = Tail(sync) BY <2>2 DEF ResolveStreamFails
    <3> QED BY <3>1, BatchGoesOn
  <2> QED BY <2>1, <2>2
<1>3. faults' \in 0..MaxFaults
  BY StreamConstants DEF IInv, TypeOK, ListOpenOrders, ResolveStreamFails
<1>4. TypeOK' BY <1>1, <1>2, <1>3 DEF IInv, TypeOK
<1>5. RowsSent' /\ BoundProperly' /\ SentProperly'
  BY <1>1, <1>2 DEF IInv, RowsSent, BoundProperly, SentProperly
<1> QED BY <1>1, <1>4, <1>5, WorldStep

-----------------------------------------------------------------------------
(* Messages and listeners. *)

\* Steps that leave orders and rows alone.
LEMMA StreamStep ==
  ASSUME IInv, UNCHANGED <<bound, sent, open, rebinds>>,
         ex' \in [Orders -> {"none", "live", "done"}], \A o \in Orders : ex'[o] # "none" <=> ex[o] # "none",
         sync' = sync \/ sync' = <<>> \/ (sync # <<>> /\ sync' = Tail(sync)),
         active' \subseteq Keys, gs' \in [Goroutines -> Listener \cup {Idle}],
         log' \subseteq [filed : Orders, o : Orders], faults' \in 0..MaxFaults,
         ListensAsFiled', RegistryExact', FiledUnderItsOrder'
  PROVE  IInv'
<1>1. sync' \in Seq(Orders) /\ \A j \in 1..Len(sync') : sent[sync'[j]] # None
  <2>1. sync \in Seq(Orders) BY DEF IInv, TypeOK
  <2>2. CASE sync # <<>> /\ sync' = Tail(sync) BY <2>2, BatchGoesOn
  <2>3. CASE sync' = <<>> BY <2>3
  <2> QED BY <2>1, <2>2, <2>3 DEF IInv, RowsSent
<1>2. TypeOK' BY <1>1 DEF IInv, TypeOK
<1>3. RowsSent' /\ BoundProperly' /\ SentProperly'
  BY <1>1 DEF IInv, RowsSent, BoundProperly, SentProperly
<1> QED BY <1>2, <1>3 DEF IInv

\* A message reaches listeners with the login of the venue it is about.
LEMMA PushType ==
  ASSUME IInv, NEW v \in Venues, NEW m \in Messages, Push(v, m), active' = active, sent' = sent,
         m # None => m \in LiveOrders /\ sent[m] = v
  PROVE  /\ gs' \in [Goroutines -> Listener \cup {Idle}]
         /\ RegistryExact'
         /\ ListensAsFiled'
<1>1. ASSUME NEW g \in Goroutines
      PROVE  \/ gs'[g] = gs[g]
             \/ /\ gs[g] \in Listener /\ gs[g].login = v
                /\ gs'[g] = [gs[g] EXCEPT !.inbox = Append(@, m)]
  <2>1. gs'[g] = IF gs[g].pc \in {"listen", "handle"} /\ gs[g].login = v
                 THEN [gs[g] EXCEPT !.inbox = Append(@, m)] ELSE gs[g]
    BY DEF Push
  <2> QED BY <2>1, ListenerType DEF IInv
<1>2. ASSUME NEW l \in Listener, NEW new, new = [l EXCEPT !.inbox = Append(@, m)]
      PROVE  /\ new \in Listener
             /\ new.pc = l.pc /\ new.key = l.key /\ new.login = l.login /\ new.venue = l.venue /\ new.msg = l.msg
             /\ new.inbox = Append(l.inbox, m) /\ l.inbox \in Seq(Messages)
  <2>1. l.inbox \in Seq(Messages) /\ Append(l.inbox, m) \in Seq(Messages) BY DEF Listener
  <2> QED BY <1>2, <2>1 DEF Listener
<1>3. gs' \in [Goroutines -> Listener \cup {Idle}]
  <2>1. \A g \in Goroutines : gs'[g] \in Listener \cup {Idle} BY <1>1, <1>2 DEF IInv, TypeOK
  <2> QED BY <2>1 DEF Push
<1>4. Idle \notin Listener
  <2>1. Idle.pc = "idle" BY DEF Idle
  <2> QED BY <2>1 DEF Listener
<1>5. RegistryExact'
  <2>1. ASSUME NEW g \in Goroutines PROVE (gs'[g] # Idle <=> gs[g] # Idle) /\ gs'[g].key = gs[g].key
    <3>1. CASE gs'[g] = gs[g] BY <3>1
    <3>2. CASE gs[g] \in Listener /\ gs'[g] = [gs[g] EXCEPT !.inbox = Append(@, m)]
      <4>1. gs'[g] \in Listener /\ gs'[g].key = gs[g].key BY <1>2, <3>2
      <4> QED BY <1>4, <3>2, <4>1
    <3> QED BY <1>1, <3>1, <3>2
  <2> QED BY <2>1, RegistryKept DEF IInv
<1>6. ListensAsFiled'
  <2> SUFFICES ASSUME NEW g \in Goroutines
               PROVE  /\ gs'[g].venue = gs'[g].login
                      /\ \A i \in 1..Len(gs'[g].inbox) :
                           gs'[g].inbox[i] # None => Reportable(g, gs[g].inbox[i])'
                      /\ gs'[g].pc = "handle" => Reportable(g, gs[g].msg)'
    BY DEF ListensAsFiled
  <2>1. CASE gs'[g] = gs[g] BY <2>1 DEF IInv, ListensAsFiled, Reportable
  <2>2. CASE gs[g] \in Listener /\ gs[g].login = v /\ gs'[g] = [gs[g] EXCEPT !.inbox = Append(@, m)]
    <3>1. /\ gs'[g].pc = gs[g].pc /\ gs'[g].login = v /\ gs'[g].venue = gs[g].venue /\ gs'[g].msg = gs[g].msg
          /\ gs'[g].inbox = Append(gs[g].inbox, m) /\ gs[g].inbox \in Seq(Messages)
      BY <1>2, <2>2
    <3>2. \A i \in 1..Len(gs'[g].inbox) : gs'[g].inbox[i] = m \/ (i \in 1..Len(gs[g].inbox) /\ gs'[g].inbox[i] = gs[g].inbox[i])
      BY <3>1
    <3> QED BY <2>2, <3>1, <3>2 DEF IInv, ListensAsFiled, Reportable
  <2> QED BY <1>1, <2>1, <2>2
<1> QED BY <1>3, <1>5, <1>6

\* The exchange reports on an order, or sends something else.
LEMMA MessageStep ==
  ASSUME IInv, \/ \E o \in LiveOrders : Report(o)
               \/ \E v \in Venues : Chatter(v)
  PROVE  IInv'
<1>1. ASSUME NEW o \in LiveOrders, Report(o) PROVE IInv'
  <2>1. o \in Orders /\ sent[o] \in Venues /\ ex[o] = "live"
    BY <1>1 DEF LiveOrders, IInv, TypeOK, RowsSent, Report
  <2>2. PICK v \in Venues : v = sent[o] BY <2>1
  <2>3. Push(v, o) /\ UNCHANGED <<bound, sent, open, sync, active, log, rebinds, faults>>
        /\ ex' = [ex EXCEPT ![o] = "done"]
    BY <1>1, <2>2 DEF Report
  <2>4. gs' \in [Goroutines -> Listener \cup {Idle}] /\ RegistryExact' /\ ListensAsFiled'
    BY <2>1, <2>2, <2>3, PushType DEF Messages
  <2>5. ex' \in [Orders -> {"none", "live", "done"}] /\ \A p \in Orders : ex'[p] # "none" <=> ex[p] # "none"
    BY <2>1, <2>3 DEF IInv, TypeOK
  <2>6. FiledUnderItsOrder' BY <2>3 DEF IInv, FiledUnderItsOrder
  <2> QED BY <2>3, <2>4, <2>5, <2>6, StreamStep DEF IInv, TypeOK
<1>2. ASSUME NEW v \in Venues, Chatter(v) PROVE IInv'
  <2>1. Push(v, None) /\ UNCHANGED <<bound, sent, ex, open, sync, active, log, rebinds>>
    BY <1>2 DEF Chatter, exchange
  <2>2. gs' \in [Goroutines -> Listener \cup {Idle}] /\ RegistryExact' /\ ListensAsFiled'
    BY <2>1, PushType DEF Messages
  <2>3. faults' \in 0..MaxFaults BY <1>2, StreamConstants DEF Chatter, IInv, TypeOK
  <2>4. FiledUnderItsOrder' BY <2>1 DEF IInv, FiledUnderItsOrder
  <2> QED BY <2>1, <2>2, <2>3, <2>4, StreamStep DEF IInv, TypeOK
<1> QED BY <1>1, <1>2

\* A listener is started under a key nobody has, with the login it files under.
LEMMA VisitStep ==
  ASSUME IInv, VisitOrder
  PROVE  IInv'
<1>1. PICK o : o = Head(sync) OBVIOUS
<1>2. o \in Orders /\ sent[o] # None /\ sync # <<>> /\ sync' = Tail(sync)
  <2>1. sync \in Seq(Orders) /\ sync # <<>> /\ sync' = Tail(sync) BY DEF IInv, TypeOK, VisitOrder
  <2>2. o = sync[1] /\ 1 \in 1..Len(sync) BY <1>1, <2>1
  <2> QED BY <2>1, <2>2 DEF IInv, RowsSent
<1>3. UNCHANGED <<bound, sent, ex, open, log, rebinds, faults>> BY DEF VisitOrder, exchange
<1>4. FiledUnderItsOrder' BY <1>3 DEF IInv, FiledUnderItsOrder
<1>5. CASE UNCHANGED <<active, gs>>
  <2>1. ListensAsFiled' BY <1>3, <1>5, ListensKept DEF IInv
  <2>2. RegistryExact' BY <1>5, RegistryKept DEF IInv
  <2> QED BY <1>2, <1>3, <1>4, <1>5, <2>1, <2>2, StreamStep DEF IInv, TypeOK
<1>6. CASE /\ <<RouteOf[o], sent[o]>> \notin active
           /\ bound[RouteOf[o]] # None
           /\ StartListener(<<RouteOf[o], sent[o]>>, bound[RouteOf[o]], StreamVenue(o))
  <2>1. PICK key \in Keys, v \in Venues : key = <<RouteOf[o], sent[o]>> /\ v = bound[RouteOf[o]]
    BY <1>2, <1>6, StreamConstants DEF IInv, TypeOK, Keys
  <2>2. key \notin active /\ StartListener(key, v, v) BY <1>6, <2>1 DEF StreamVenue
  <2> DEFINE new == [pc |-> "dial", key |-> key, login |-> v, venue |-> v, inbox |-> <<>>, msg |-> None]
             g == CHOOSE h \in Goroutines : gs[h] = Idle
  <2>3. g \in Goroutines /\ gs[g] = Idle
    <3>1. \E h \in Goroutines : gs[h] = Idle BY <2>2 DEF StartListener, Running
    <3> QED BY <3>1
  <2>4. active' = active \cup {key} /\ gs' = [gs EXCEPT ![g] = new] BY <2>2 DEF StartListener
  <2> HIDE DEF g
  <2>5. /\ new \in Listener /\ new # Idle
        /\ new.key = key /\ new.venue = v /\ new.login = v /\ new.pc = "dial" /\ new.inbox = <<>>
    <3>1. new.pc = "dial" /\ Idle.pc = "idle" BY DEF Idle
    <3> QED BY <3>1 DEF Listener, Messages
  <2> HIDE DEF new
  <2>6. /\ gs'[g] = new /\ \A h \in Goroutines : h # g => gs'[h] = gs[h]
        /\ gs' \in [Goroutines -> Listener \cup {Idle}]
    BY <2>3, <2>4, <2>5 DEF IInv, TypeOK
  <2>7. RegistryExact'
    <3>1. Running' = Running \cup {g} /\ g \notin Running BY <2>3, <2>5, <2>6 DEF Running
    <3>2. \A h \in Running : gs'[h] = gs[h] /\ gs[h].key \in active
      BY <2>6, <3>1 DEF IInv, RegistryExact, Running
    <3>3. active' = {gs'[h].key : h \in Running'}
      BY <2>4, <2>5, <2>6, <3>1, <3>2 DEF IInv, RegistryExact
    <3>4. \A h, k \in Running' : gs'[h].key = gs'[k].key => h = k
      BY <2>2, <2>5, <2>6, <3>1, <3>2 DEF IInv, RegistryExact
    <3> QED BY <3>3, <3>4 DEF RegistryExact
  <2>8. ListensAsFiled'
    <3>1. Len(new.inbox) = 0 BY <2>5
    <3> QED BY <1>3, <2>5, <2>6, <3>1 DEF IInv, ListensAsFiled, Reportable
  <2>9. active' \subseteq Keys BY <2>4 DEF IInv, TypeOK
  <2> QED BY <1>2, <1>3, <1>4, <2>6, <2>7, <2>8, <2>9, StreamStep DEF IInv, TypeOK
<1> QED BY <1>1, <1>5, <1>6 DEF VisitOrder, userDataStreamKeyFromOrder

\* A listener ends, for whatever reason, and nothing is filed.
LEMMA StopStep ==
  ASSUME IInv, NEW g \in Goroutines, gs[g].pc # "idle", clearActive(g),
         UNCHANGED <<bound, sent, ex, open, sync, log, rebinds>>, faults' \in 0..MaxFaults
  PROVE  IInv'
<1>1. gs[g] # Idle BY DEF Idle
<1>2. /\ gs' \in [Goroutines -> Listener \cup {Idle}]
      /\ active' \subseteq Keys
      /\ RegistryExact'
      /\ ListensAsFiled'
  BY <1>1, StopType DEF IInv
<1>3. FiledUnderItsOrder' BY DEF IInv, FiledUnderItsOrder
<1> QED BY <1>2, <1>3, StreamStep DEF IInv, TypeOK

\* A listener moves on, with the reports it has.
LEMMA MoveStep ==
  ASSUME IInv, NEW g \in Goroutines, gs[g] \in Listener,
         NEW new \in Listener, gs' = [gs EXCEPT ![g] = new], new.key = gs[g].key,
         new.login = gs[g].login, new.venue = gs[g].venue,
         \A i \in 1..Len(new.inbox) : new.inbox[i] # None =>
            new.inbox[i] \in LiveOrders /\ sent[new.inbox[i]] = new.login,
         new.pc = "handle" => new.msg \in LiveOrders /\ sent[new.msg] = new.login,
         UNCHANGED <<bound, sent, ex, open, sync, active, rebinds, faults>>,
         log' \subseteq [filed : Orders, o : Orders], FiledUnderItsOrder'
  PROVE  IInv'
<1>1. /\ gs'[g] = new /\ \A h \in Goroutines : h # g => gs'[h] = gs[h]
      /\ gs' \in [Goroutines -> Listener \cup {Idle}]
  BY DEF IInv, TypeOK
<1>2. Idle \notin Listener
  <2>1. Idle.pc = "idle" BY DEF Idle
  <2> QED BY <2>1 DEF Listener
<1>3. RegistryExact' BY <1>1, <1>2, RegistryKept DEF IInv
<1>4. ListensAsFiled' BY <1>1 DEF IInv, ListensAsFiled, Reportable
<1> QED BY <1>1, <1>3, <1>4, StreamStep DEF IInv, TypeOK

\* The oldest match of a report is the order it is about: through one venue no other
\* order has its id.
LEMMA MatchIsOrder ==
  ASSUME IInv, NEW g \in Goroutines, gs[g].pc = "handle"
  PROVE  /\ gs[g].msg \in Orders
         /\ ResolveOpenOrderByExchangeRef(g) \subseteq {gs[g].msg}
<1>1. gs[g] \in Listener
  <2>1. gs[g] # Idle BY DEF Idle
  <2> QED BY <2>1, ListenerType DEF IInv
<1>2. PICK o \in LiveOrders : o = gs[g].msg /\ sent[o] = gs[g].login /\ gs[g].venue = gs[g].login
  BY DEF IInv, ListensAsFiled, Reportable
<1>3. sent[o] # None BY <1>1, <1>2, StreamConstants DEF Listener
<1>4. ASSUME NEW i \in Matches(g) PROVE open[i] = o
  <2>1. i \in 1..Len(open) /\ sent[open[i]] = sent[o] /\ (open[i] = o \/ ExId[open[i]] = ExId[o])
    BY <1>2 DEF Matches
  <2>2. open[i] \in Orders BY <2>1 DEF IInv, TypeOK
  <2> QED BY <1>3, <2>1, <2>2 DEF IInv, SentProperly
<1> QED BY <1>2, <1>4 DEF ResolveOpenOrderByExchangeRef, LiveOrders

\* The listeners' steps.
LEMMA ListenStep ==
  ASSUME IInv, NEW g \in Goroutines, Listen(g)
  PROVE  IInv'
<1> USE DEF exchange
<1>0. gs[g].pc # "idle" => gs[g] # Idle /\ gs[g] \in Listener
  <2>1. gs[g].pc # "idle" => gs[g] # Idle BY DEF Idle
  <2> QED BY <2>1, ListenerType DEF IInv
<1>1. log \subseteq [filed : Orders, o : Orders] /\ FiledUnderItsOrder BY DEF IInv, TypeOK
<1>2. CASE Dial(g)
  <2> DEFINE new == [gs[g] EXCEPT !.pc = "listen"]
  <2>1. gs[g] \in Listener BY <1>0, <1>2 DEF Dial
  <2>2. /\ new \in Listener /\ new.key = gs[g].key /\ new.login = gs[g].login /\ new.venue = gs[g].venue
        /\ new.inbox = gs[g].inbox /\ new.pc = "listen"
    BY <2>1 DEF Listener
  <2>3. gs' = [gs EXCEPT ![g] = new] BY <1>2 DEF Dial
  <2> HIDE DEF new
  <2>4. \A i \in 1..Len(new.inbox) : new.inbox[i] # None =>
            new.inbox[i] \in LiveOrders /\ sent[new.inbox[i]] = new.login
    BY <2>2 DEF IInv, ListensAsFiled, Reportable
  <2>5. FiledUnderItsOrder' BY <1>1, <1>2 DEF Dial, FiledUnderItsOrder
  <2> QED BY <1>1, <1>2, <2>1, <2>2, <2>3, <2>4, <2>5, MoveStep DEF Dial
<1>3. CASE DialFails(g)
  <2>1. faults' \in 0..MaxFaults BY <1>3, StreamConstants DEF DialFails, IInv, TypeOK
  <2> QED BY <1>3, <2>1, StopStep DEF DialFails
<1>4. CASE ReadMessage(g) /\ Head(gs[g].inbox) # None
  <2> DEFINE new == [gs[g] EXCEPT !.pc = "handle", !.msg = Head(gs[g].inbox), !.inbox = Tail(@)]
  <2>1. gs[g] \in Listener /\ gs[g].inbox # <<>> BY <1>0, <1>4 DEF ReadMessage
  <2>2. PICK m, rest : m = Head(gs[g].inbox) /\ rest = Tail(gs[g].inbox) OBVIOUS
  <2>3. gs[g].inbox \in Seq(Messages) BY <2>1 DEF Listener
  <2>4. /\ m \in Messages /\ m = gs[g].inbox[1] /\ 1 \in 1..Len(gs[g].inbox)
        /\ rest \in Seq(Messages)
        /\ \A i \in 1..Len(rest) : i + 1 \in 1..Len(gs[g].inbox) /\ rest[i] = gs[g].inbox[i + 1]
    <3>1. m \in Messages /\ m = gs[g].inbox[1] /\ 1 \in 1..Len(gs[g].inbox) BY <2>1, <2>2, <2>3
    <3>2. rest \in Seq(Messages) /\ Len(rest) = Len(gs[g].inbox) - 1
          /\ \A i \in 1..Len(rest) : rest[i] = gs[g].inbox[i + 1]
      BY <2>1, <2>2, <2>3, HeadTailProperties
    <3> QED BY <2>3, <3>1, <3>2
  <2>5. /\ new \in Listener /\ new.key = gs[g].key /\ new.login = gs[g].login /\ new.venue = gs[g].venue
        /\ new.inbox = rest /\ new.pc = "handle" /\ new.msg = m
    BY <2>1, <2>2, <2>4 DEF Listener
  <2>6. gs' = [gs EXCEPT ![g] = new] BY <1>4 DEF ReadMessage
  <2> HIDE DEF new
  <2>7. \A i \in 1..Len(new.inbox) : new.inbox[i] # None =>
            new.inbox[i] \in LiveOrders /\ sent[new.inbox[i]] = new.login
    BY <2>4, <2>5 DEF IInv, ListensAsFiled, Reportable
  <2>8. new.msg \in LiveOrders /\ sent[new.msg] = new.login
    BY <1>4, <2>2, <2>4, <2>5 DEF IInv, ListensAsFiled, Reportable
  <2>9. FiledUnderItsOrder' BY <1>1, <1>4 DEF ReadMessage, FiledUnderItsOrder
  <2> QED BY <1>1, <1>4, <2>1, <2>5, <2>6, <2>7, <2>8, <2>9, MoveStep DEF ReadMessage
<1>5. CASE ReadMessage(g) /\ Head(gs[g].inbox) = None
  BY <1>5, StopStep DEF ReadMessage, IInv, TypeOK
<1>6. CASE ReadFails(g)
  BY <1>6, StopStep DEF ReadFails, IInv, TypeOK
<1>7. CASE Ingest(g)
  <2>1. gs[g].pc = "handle" /\ gs[g] \in Listener BY <1>0, <1>7 DEF Ingest
  <2>2. gs[g].msg \in Orders /\ ResolveOpenOrderByExchangeRef(g) \subseteq {gs[g].msg}
    BY <2>1, MatchIsOrder
  <2>3. CASE /\ log' = log \cup {[filed |-> p, o |-> gs[g].msg] : p \in ResolveOpenOrderByExchangeRef(g)}
             /\ gs' = [gs EXCEPT ![g].pc = "listen", ![g].msg = None]
             /\ UNCHANGED <<active, faults>>
    <3> DEFINE new == [gs[g] EXCEPT !.pc = "listen", !.msg = None]
    <3>1. /\ new \in Listener /\ new.key = gs[g].key /\ new.login = gs[g].login /\ new.venue = gs[g].venue
          /\ new.inbox = gs[g].inbox /\ new.pc = "listen"
      BY <2>1 DEF Listener, Messages
    <3>2. gs' = [gs EXCEPT ![g] = new] BY <2>3
    <3> HIDE DEF new
    <3>3. \A i \in 1..Len(new.inbox) : new.inbox[i] # None =>
              new.inbox[i] \in LiveOrders /\ sent[new.inbox[i]] = new.login
      BY <3>1 DEF IInv, ListensAsFiled, Reportable
    <3>4. log' \subseteq log \cup {[filed |-> gs[g].msg, o |-> gs[g].msg]} BY <2>2, <2>3
    <3>5. log' \subseteq [filed : Orders, o : Orders] BY <1>1, <2>2, <3>4
    <3>6. FiledUnderItsOrder' BY <1>1, <3>4 DEF FiledUnderItsOrder
    <3> QED BY <1>7, <2>1, <2>3, <3>1, <3>2, <3>3, <3>5, <3>6, MoveStep DEF Ingest
  <2>4. CASE faults < MaxFaults /\ faults' = faults + 1 /\ clearActive(g) /\ log' = log
    <3>1. faults' \in 0..MaxFaults BY <2>4, StreamConstants DEF IInv, TypeOK
    <3> QED BY <1>7, <2>1, <2>4, <3>1, StopStep DEF Ingest
  <2> QED BY <1>7, <2>3, <2>4 DEF Ingest
<1> QED BY <1>2, <1>3, <1>4, <1>5, <1>6, <1>7 DEF Listen, ReadMessage

\* A restart empties the registry with the listeners.
LEMMA RestartStep ==
  ASSUME IInv, Restart
  PROVE  IInv'
<1>1. /\ UNCHANGED <<bound, sent, ex, open, log, rebinds>>
      /\ gs' = [g \in Goroutines |-> Idle] /\ active' = {} /\ sync' = <<>>
      /\ faults' \in 0..MaxFaults
  BY StreamConstants DEF Restart, exchange, IInv, TypeOK
<1>2. RegistryExact' BY <1>1 DEF RegistryExact, Running
<1>3. ListensAsFiled'
  <2>1. Idle.venue = Idle.login /\ Len(Idle.inbox) = 0 /\ Idle.pc = "idle" BY DEF Idle
  <2> QED BY <1>1, <2>1 DEF ListensAsFiled
<1>4. FiledUnderItsOrder' BY <1>1 DEF IInv, FiledUnderItsOrder
<1> QED BY <1>1, <1>2, <1>3, <1>4, StreamStep DEF IInv, TypeOK

-----------------------------------------------------------------------------
(* The theorems. *)

\* Every step keeps the invariant.
LEMMA InductiveStep == IInv /\ [Next]_vars => IInv'
<1> SUFFICES ASSUME IInv, [Next]_vars PROVE IInv'
  OBVIOUS
<1>1. CASE UNCHANGED vars
  <2>1. UNCHANGED <<bound, sent, ex, open, sync, active, gs, log, rebinds, faults>> BY <1>1 DEF vars
  <2>2. TypeOK' /\ RowsSent' /\ BoundProperly' /\ SentProperly'
    BY <2>1 DEF IInv, TypeOK, RowsSent, BoundProperly, SentProperly
  <2> QED BY <2>1, <2>2, WorldStep
<1>2. CASE World
  BY <1>2, RebindStep, SendStep, RowStep, MessageStep DEF World
<1>3. CASE SyncOnce BY <1>3, TickerStep, VisitStep DEF SyncOnce
<1> QED BY <1>1, <1>2, <1>3, RestartStep, ListenStep DEF Next

\* The streams start with the rows of backtest orders and without listeners.
LEMMA InductiveInit == Init => IInv
<1> SUFFICES ASSUME Init PROVE IInv
  OBVIOUS
<1> DEFINE S == {o \in Orders : RouteOf[o] \in Simulated}
<1>1. /\ bound \in [Routes -> Venues \cup {None}] /\ BoundProperly
      /\ \A r \in Simulated : bound[r] # None
      /\ sent = [o \in Orders |-> IF RouteOf[o] \in Simulated THEN bound[RouteOf[o]] ELSE None]
      /\ ex = [o \in Orders |-> IF RouteOf[o] \in Simulated THEN "live" ELSE "none"]
      /\ open \in SetToSeqs(S)
      /\ sync = <<>> /\ active = {} /\ gs = [g \in Goroutines |-> Idle] /\ log = {}
      /\ rebinds = 0 /\ faults = 0
  BY DEF Init, BoundProperly
<1>2. Cardinality(S) \in Nat
  BY StreamConstants, FS_Subset, FS_CardinalityType
<1>3. open \in [1..Cardinality(S) -> S] BY <1>1 DEF SetToSeqs
<1>4. open \in Seq(S)
  <2>1. open \in UNION {[1..n -> S] : n \in Nat} BY <1>2, <1>3
  <2> QED BY <2>1, SeqDef
<1>5. open \in Seq(Orders) /\ \A i \in 1..Len(open) : open[i] \in S
  BY <1>4, ElementOfSeq, SeqMonotonic
<1>6. TypeOK BY <1>1, <1>5, StreamConstants DEF TypeOK
<1>7. RowsSent BY <1>1, <1>5, StreamConstants DEF RowsSent
<1>8. SentProperly BY <1>1, StreamConstants DEF SentProperly, BoundProperly, LiveOrders
<1>9. ListensAsFiled
  <2>1. Idle.venue = Idle.login /\ Len(Idle.inbox) = 0 /\ Idle.pc = "idle" BY DEF Idle
  <2> QED BY <1>1, <2>1 DEF ListensAsFiled
<1>10. RegistryExact BY <1>1 DEF RegistryExact, Running
<1>11. FiledUnderItsOrder BY <1>1 DEF FiledUnderItsOrder
<1> QED BY <1>1, <1>6, <1>7, <1>8, <1>9, <1>10, <1>11 DEF IInv

\* The invariant holds in every reachable state.
THEOREM Inductive == Spec => []IInv
<1>1. Init => IInv BY InductiveInit
<1>2. IInv /\ [Next]_vars => IInv' BY InductiveStep
<1> QED BY <1>1, <1>2, PTL DEF Spec

\* A key is registered exactly while one listener runs for it, through failing dials,
\* broken connections, payloads that do not parse, failing saves and restarts.
THEOREM RegistryExactHolds == Spec => []RegistryExact
<1>1. IInv => RegistryExact BY DEF IInv
<1> QED BY <1>1, Inductive, PTL

\* A report is filed under the order it is about, whatever is rebound under the
\* running streams.
THEOREM FiledUnderItsOrderHolds == Spec => []FiledUnderItsOrder
<1>1. IInv => FiledUnderItsOrder BY DEF IInv
<1> QED BY <1>1, Inductive, PTL

=============================================================================
