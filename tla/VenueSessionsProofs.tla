------------------------ MODULE VenueSessionsProofs ------------------------
(***************************************************************************)
(* Proofs about accounts, venues and sessions, for any number of handlers, *)
(* accounts, venues, sessions, runtimes, routes and requests.              *)
(*                                                                         *)
(* The properties are not inductive: what a handler writes was read some   *)
(* steps earlier. CopyOK, CaptureOK and PendingOK say what stays true of   *)
(* each copy: an environment or a route never changes once it is stored,   *)
(* and a session row that is inserted and not committed keeps every rival  *)
(* waiting.                                                                *)
(***************************************************************************)
EXTENDS VenueSessions, TLAPS

\* The venue and the account a handler is about to join are of one environment.
CopyOK(h) ==
  /\ hs[h].pc \in {"default_venue", "bind_venue", "bind_commit", "save_commit"} =>
       hs[h].a \in Accounts /\ Exists(hs[h].a)
  /\ hs[h].pc = "default_venue" => accounts[hs[h].a] = "backtest"
  /\ hs[h].pc \in {"bind_venue", "bind_commit", "release_commit", "archive_commit"} =>
       hs[h].v \in Venues /\ venues[hs[h].v] # NoVenue
  /\ hs[h].pc = "bind_commit" => venues[hs[h].v].env = accounts[hs[h].a]
  /\ hs[h].pc = "wallet" => \A v \in hs[h].set :
       venues[v] # NoVenue /\ (hs[h].a # None => accounts[hs[h].a] = venues[v].env)

\* What a pending session captures could be captured: one venue per route.
CaptureOK(h) ==
  hs[h].pc = "save_commit" => \A v \in hs[h].set :
    /\ venues[v] # NoVenue
    /\ venues[v].env = accounts[hs[h].a]
    /\ \A w \in hs[h].set : venues[w].route = venues[v].route => w = v

\* A pending session is new, and no rival is pending or active.
PendingOK(h) ==
  /\ hs[h].pc = "update" => hs[h].s \in Sessions /\ sessions[hs[h].s] # NoSession
  /\ hs[h].pc = "save_commit" =>
       /\ hs[h].s \in Sessions
       /\ sessions[hs[h].s] = NoSession
       /\ hs[h].rt # None => NoActiveSessions(hs[h].a)

Rivals(g, h) ==
  /\ hs[g].pc = "save_commit" /\ hs[h].pc = "save_commit"
  /\ hs[g].s = hs[h].s \/ (hs[g].rt # None /\ hs[h].rt # None /\ hs[g].a = hs[h].a)

\* A session that does not exist has captured nothing.
NoSessionNoSnap == \A s \in Sessions : sessions[s] = NoSession => snap[s] = {}

VenueInv == RouteResolvesOnce /\ WalletSameEnvironment /\ \A h \in Handlers : CopyOK(h)
SessionInv ==
  /\ OneActiveSession
  /\ \A h \in Handlers : PendingOK(h)
  /\ \A g, h \in Handlers : g # h => ~Rivals(g, h)
CaptureInv == SnapshotSound /\ NoSessionNoSnap /\ \A h \in Handlers : CaptureOK(h)

\* The inductive invariant.
VInv == VTypeOK /\ VenueInv /\ SessionInv /\ CaptureInv

\* Only handler h moves.
Moves(h) == \A g \in Handlers \ {h} : hs'[g] = hs[g]

\* What every step keeps: environments and routes, once stored.
Frame ==
  /\ \A a \in Accounts : Exists(a) => accounts'[a] = accounts[a]
  /\ \A v \in Venues : venues[v] # NoVenue =>
       venues'[v] # NoVenue /\ venues'[v].env = venues[v].env /\ venues'[v].route = venues[v].route

-----------------------------------------------------------------------------
(* Types. *)

\* The NULL row is no row.
LEMMA NoRows ==
  /\ NoVenue \notin VenueRow
  /\ NoSession \notin SessionRow
  /\ "absent" \notin Envs
  /\ ~isActiveSessionStatus(NoSession.st)
  BY DEF NoVenue, VenueRow, VenueStatuses, NoSession, SessionRow, SessionStatuses, Envs, isActiveSessionStatus

\* A handler that serves a request has a well-formed local state.
LEMMA BusyType ==
  ASSUME VTypeOK, NEW h \in Handlers, hs[h].pc # "idle"
  PROVE  hs[h] \in BusyHandler
  BY DEF VTypeOK, Idle

\* Each way a handler moves on keeps the handlers well-formed.
LEMMA ReturnType ==
  ASSUME VTypeOK, NEW h \in Handlers, Return(h)
  PROVE  hs' \in [Handlers -> BusyHandler \cup {Idle}] /\ Moves(h) /\ hs'[h] = Idle
  BY DEF VTypeOK, Return, Moves

\* A handler that goes on keeps its locals.
LEMMA GotoType ==
  ASSUME VTypeOK, NEW h \in Handlers, hs[h].pc # "idle", NEW label \in PCs, Goto(h, label)
  PROVE  /\ hs' \in [Handlers -> BusyHandler \cup {Idle}] /\ Moves(h)
         /\ hs'[h] = [hs[h] EXCEPT !.pc = label]
  <1>1. hs[h] \in BusyHandler BY BusyType
  <1>2. [hs[h] EXCEPT !.pc = label] \in BusyHandler BY <1>1 DEF BusyHandler
  <1> QED BY <1>2 DEF Goto, VTypeOK, Moves

\* A handler that takes up a request has the request's ids.
LEMMA StartType ==
  ASSUME VTypeOK, NEW h \in Handlers, NEW label \in PCs, NEW a \in Accounts \cup {None},
         NEW v \in Venues \cup {None}, NEW s \in Sessions \cup {None}, NEW rt \in Runtimes \cup {None},
         Start(h, label, a, v, s, rt)
  PROVE  /\ hs' \in [Handlers -> BusyHandler \cup {Idle}] /\ Moves(h)
         /\ hs'[h] = [pc |-> label, a |-> a, v |-> v, s |-> s, rt |-> rt, set |-> {}]
  <1>1. [pc |-> label, a |-> a, v |-> v, s |-> s, rt |-> rt, set |-> {}] \in BusyHandler
    BY DEF BusyHandler
  <1> QED BY <1>1 DEF Start, VTypeOK, Moves

\* A handler that is to write wallets has its list of venues.
LEMMA StartWalletsType ==
  ASSUME VTypeOK, NEW h \in Handlers, NEW a \in Accounts \cup {None},
         NEW set \in SUBSET Venues, StartWallets(h, a, set)
  PROVE  /\ hs' \in [Handlers -> BusyHandler \cup {Idle}] /\ Moves(h)
         /\ hs'[h].pc = "wallet" /\ hs'[h].a = a /\ hs'[h].set = set
  <1>1. [pc |-> "wallet", a |-> a, v |-> None, s |-> None, rt |-> None, set |-> set] \in BusyHandler
    BY DEF BusyHandler, PCs
  <1> QED BY <1>1 DEF StartWallets, VTypeOK, Moves

-----------------------------------------------------------------------------
(* What a step leaves alone. *)

\* A handler that does not move keeps its sound copies.
LEMMA CopiesStay ==
  ASSUME VInv, Frame, NEW h \in Handlers, hs'[h] = hs[h]
  PROVE  CopyOK(h)' /\ CaptureOK(h)'
  <1>1. hs[h] \in BusyHandler \cup {Idle} BY DEF VInv, VTypeOK
  <1>2. CopyOK(h)'
    <2>1. CASE hs[h] = Idle BY <2>1 DEF CopyOK, Idle
    <2>2. CASE hs[h] \in BusyHandler
      <3>1. hs[h].set \subseteq Venues /\ hs[h].a \in Accounts \cup {None} BY <2>2 DEF BusyHandler
      <3>2. CopyOK(h) BY DEF VInv, VenueInv
      <3>3. \A v \in Venues : venues[v] # NoVenue => venues[v].env # "absent"
        BY DEF VInv, VTypeOK, VenueRow, Envs
      <3> QED BY <3>1, <3>2, <3>3 DEF CopyOK, Frame, Exists
    <2> QED BY <1>1, <2>1, <2>2
  <1>3. CaptureOK(h)'
    <2>1. CASE hs[h] = Idle BY <2>1 DEF CaptureOK, Idle
    <2>2. CASE hs[h] \in BusyHandler
      <3>1. hs[h].set \subseteq Venues BY <2>2 DEF BusyHandler
      <3>2. CaptureOK(h) /\ CopyOK(h) BY DEF VInv, VenueInv, CaptureInv
      <3> QED BY <3>1, <3>2 DEF CaptureOK, CopyOK, Frame, Exists
    <2> QED BY <1>1, <2>1, <2>2
  <1> QED BY <1>2, <1>3

\* Sessions stay sound when no session is touched and the mover has none in hand.
LEMMA SessionsStay ==
  ASSUME VInv, NEW h \in Handlers, Moves(h), UNCHANGED sessions,
         hs'[h] = hs[h] \/ hs'[h].pc \notin {"save_commit", "update"}
  PROVE  SessionInv'
  <1>1. \A g \in Handlers : hs'[g] = hs[g] \/ hs'[g].pc \notin {"save_commit", "update"}
    BY DEF Moves
  <1> QED BY <1>1 DEF VInv, SessionInv, OneActiveSession, PendingOK, Rivals, SessionActive, NoActiveSessions

\* Captures stay sound when no session is touched and the mover captures nothing.
LEMMA CapturesStay ==
  ASSUME VInv, Frame, NEW h \in Handlers, Moves(h), UNCHANGED <<sessions, snap>>, CaptureOK(h)'
  PROVE  CaptureInv'
  <1>1. \A g \in Handlers : CaptureOK(g)' BY CopiesStay DEF Moves
  <1>2. SnapshotSound'
    <2>1. \A s \in Sessions : snap[s] # {} => sessions[s] \in SessionRow
      BY DEF VInv, VTypeOK, CaptureInv, NoSessionNoSnap
    <2>2. \A s \in Sessions : sessions[s] \in SessionRow => sessions[s].acct \in Accounts
      BY DEF SessionRow
    <2>3. \A s \in Sessions : snap[s] \subseteq Venues BY DEF VInv, VTypeOK
    <2>4. \A v \in Venues : venues[v] # NoVenue => venues[v].env # "absent"
      BY DEF VInv, VTypeOK, VenueRow, Envs
    <2> QED BY <2>1, <2>2, <2>3, <2>4 DEF VInv, CaptureInv, SnapshotSound, Frame, Exists
  <1> QED BY <1>1, <1>2 DEF VInv, CaptureInv, NoSessionNoSnap

\* The tables stay sound when only a handler moves.
LEMMA TablesStay ==
  ASSUME VInv, UNCHANGED <<accounts, venues, sessions, snap, wallets>>, NEW h \in Handlers, Moves(h)
  PROVE  /\ Frame /\ RouteResolvesOnce' /\ WalletSameEnvironment'
         /\ \A g \in Handlers \ {h} : CopyOK(g)'
  <1>1. Frame BY DEF Frame
  <1>2. \A g \in Handlers \ {h} : CopyOK(g)' BY <1>1, CopiesStay DEF Moves
  <1> QED BY <1>1, <1>2 DEF VInv, VenueInv, RouteResolvesOnce, WalletSameEnvironment, ListActiveAccountVenues

-----------------------------------------------------------------------------
(* Steps in which only a handler moves. *)

\* An idle handler has no copies.
LEMMA IdleOK ==
  ASSUME NEW h \in Handlers, hs'[h] = Idle
  PROVE  CopyOK(h)' /\ CaptureOK(h)' /\ hs'[h].pc \notin {"save_commit", "update"}
  BY DEF CopyOK, CaptureOK, Idle

\* A step of one handler that touches no table keeps the invariant if the handler's
\* new copies are sound.
LEMMA HandlerOnly ==
  ASSUME VInv, NEW h \in Handlers, Moves(h), UNCHANGED <<accounts, venues, sessions, snap, wallets>>,
         hs' \in [Handlers -> BusyHandler \cup {Idle}], served' \in 0..MaxRequests,
         CopyOK(h)', CaptureOK(h)', SessionInv'
  PROVE  VInv'
  <1>1. VTypeOK' BY DEF VInv, VTypeOK
  <1>2. VenueInv' BY TablesStay DEF VenueInv
  <1>3. CaptureInv' BY TablesStay, CapturesStay
  <1> QED BY <1>1, <1>2, <1>3 DEF VInv

\* A handler that returns, with or without success, leaves nothing behind.
LEMMA ReturnStep ==
  ASSUME VInv, NEW h \in Handlers, Return(h), served' \in 0..MaxRequests,
         UNCHANGED <<accounts, venues, sessions, snap, wallets>>
  PROVE  VInv'
  <1>1. hs' \in [Handlers -> BusyHandler \cup {Idle}] /\ Moves(h) /\ hs'[h] = Idle
    BY ReturnType DEF VInv
  <1>2. SessionInv' BY <1>1, IdleOK, SessionsStay
  <1> QED BY <1>1, <1>2, IdleOK, HandlerOnly

\* CreateVenue checks its account and holds no copy yet.
LEMMA BeginCreateStep ==
  ASSUME VInv, NEW h \in Handlers, NEW a \in Accounts \cup {None}, BeginCreate(h, a),
         served' \in 0..MaxRequests
  PROVE  VInv'
  <1>1. /\ hs' \in [Handlers -> BusyHandler \cup {Idle}] /\ Moves(h)
        /\ hs'[h] = [pc |-> "create", a |-> a, v |-> None, s |-> None, rt |-> None, set |-> {}]
    BY StartType DEF BeginCreate, PCs, VInv
  <1>2. CopyOK(h)' /\ CaptureOK(h)' BY <1>1 DEF CopyOK, CaptureOK
  <1>3. SessionInv' BY <1>1, SessionsStay DEF BeginCreate
  <1> QED BY <1>1, <1>2, <1>3, HandlerOnly DEF BeginCreate

\* BindVenue holds an account and a venue that exist.
LEMMA BindVenueStep ==
  ASSUME VInv, NEW h \in Handlers, NEW a \in Accounts, NEW v \in Venues, BindVenue(h, a, v),
         served' \in 0..MaxRequests
  PROVE  VInv'
  <1>1. /\ hs' \in [Handlers -> BusyHandler \cup {Idle}] /\ Moves(h)
        /\ hs'[h] = [pc |-> "bind_venue", a |-> a, v |-> v, s |-> None, rt |-> None, set |-> {}]
    BY StartType DEF BindVenue, PCs, VInv
  <1>2. CopyOK(h)' /\ CaptureOK(h)' BY <1>1 DEF CopyOK, CaptureOK, BindVenue, Exists
  <1>3. SessionInv' BY <1>1, SessionsStay DEF BindVenue
  <1> QED BY <1>1, <1>2, <1>3, HandlerOnly DEF BindVenue

\* BindVenue goes on only if the environments agree, and they stay.
LEMMA BindLocksVenueStep ==
  ASSUME VInv, NEW h \in Handlers, BindLocksVenue(h), served' \in 0..MaxRequests
  PROVE  VInv'
  <1>1. CASE Return(h) BY <1>1, ReturnStep DEF BindLocksVenue
  <1>2. CASE Goto(h, "bind_commit") /\ venues[hs[h].v].env = accounts[hs[h].a]
    <2>1. /\ hs' \in [Handlers -> BusyHandler \cup {Idle}] /\ Moves(h)
          /\ hs'[h] = [hs[h] EXCEPT !.pc = "bind_commit"]
      BY <1>2, GotoType DEF BindLocksVenue, PCs, VInv
    <2>2. hs[h] \in BusyHandler BY BusyType DEF BindLocksVenue, VInv
    <2>3. hs'[h].pc = "bind_commit" /\ hs'[h].a = hs[h].a /\ hs'[h].v = hs[h].v
      BY <2>1, <2>2 DEF BusyHandler
    <2>4. CopyOK(h) BY DEF VInv, VenueInv
    <2>5. CopyOK(h)' /\ CaptureOK(h)'
      BY <1>2, <2>3, <2>4 DEF CopyOK, CaptureOK, BindLocksVenue, Exists
    <2>6. SessionInv' BY <2>1, <2>3, SessionsStay DEF BindLocksVenue
    <2> QED BY <2>1, <2>5, <2>6, HandlerOnly DEF BindLocksVenue
  <1> QED BY <1>1, <1>2 DEF BindLocksVenue

\* ReleaseVenue and ArchiveVenue hold a venue that exists.
LEMMA LockVenueStep ==
  ASSUME VInv, NEW h \in Handlers, NEW v \in Venues, LockVenue(h, v), served' \in 0..MaxRequests
  PROVE  VInv'
  <1>1. PICK label \in {"release_commit", "archive_commit"} : Start(h, label, None, v, None, None)
    BY DEF LockVenue
  <1>2. /\ hs' \in [Handlers -> BusyHandler \cup {Idle}] /\ Moves(h)
        /\ hs'[h] = [pc |-> label, a |-> None, v |-> v, s |-> None, rt |-> None, set |-> {}]
    BY <1>1, StartType DEF PCs, VInv
  <1>3. CopyOK(h)' /\ CaptureOK(h)' BY <1>2 DEF CopyOK, CaptureOK, LockVenue
  <1>4. SessionInv' BY <1>2, SessionsStay DEF LockVenue
  <1> QED BY <1>2, <1>3, <1>4, HandlerOnly DEF LockVenue

\* An active venue of an account, as it is listed, is of the account's environment.
LEMMA ListedVenues ==
  ASSUME VInv, NEW a \in Accounts, NEW v \in ListActiveAccountVenues(a)
  PROVE  /\ v \in Venues /\ venues[v] # NoVenue /\ venues[v].env = accounts[a]
         /\ \A w \in ListActiveAccountVenues(a) : venues[w].route = venues[v].route => w = v
  BY VenueConstants DEF VInv, VenueInv, RouteResolvesOnce, ListActiveAccountVenues, NoVenue

\* The venues listed for a wallet update are of the account's environment.
LEMMA UpdateAccountWalletStateStep ==
  ASSUME VInv, NEW h \in Handlers, NEW a \in Accounts, UpdateAccountWalletState(h, a),
         served' \in 0..MaxRequests
  PROVE  VInv'
  <1>1. PICK set \in SUBSET ListActiveAccountVenues(a) : StartWallets(h, a, set)
    BY DEF UpdateAccountWalletState
  <1>2. /\ hs' \in [Handlers -> BusyHandler \cup {Idle}] /\ Moves(h)
        /\ hs'[h].pc = "wallet" /\ hs'[h].a = a /\ hs'[h].set = set
    BY <1>1, StartWalletsType DEF VInv, ListActiveAccountVenues
  <1>3. \A v \in set : venues[v] # NoVenue /\ venues[v].env = accounts[a]
    BY <1>1, ListedVenues
  <1>4. CopyOK(h)' /\ CaptureOK(h)'
    BY <1>2, <1>3 DEF CopyOK, CaptureOK, UpdateAccountWalletState
  <1>5. SessionInv' BY <1>2, SessionsStay DEF UpdateAccountWalletState
  <1> QED BY <1>2, <1>4, <1>5, HandlerOnly DEF UpdateAccountWalletState

\* So is the venue whose wallet is initialised when it is read.
LEMMA GetVenueOnlineInfoStep ==
  ASSUME VInv, NEW h \in Handlers, NEW v \in Venues, GetVenueOnlineInfo(h, v),
         served' \in 0..MaxRequests
  PROVE  VInv'
  <1>1. venues[v] # NoVenue /\ venues[v].acct \in Accounts \cup {None}
    BY DEF GetVenueOnlineInfo, VInv, VTypeOK, VenueRow, NoVenue
  <1>2. /\ hs' \in [Handlers -> BusyHandler \cup {Idle}] /\ Moves(h)
        /\ hs'[h].pc = "wallet" /\ hs'[h].a = venues[v].acct /\ hs'[h].set = {v}
    BY <1>1, StartWalletsType DEF VInv, GetVenueOnlineInfo
  <1>3. venues[v].acct # None => accounts[venues[v].acct] = venues[v].env
    BY <1>1 DEF VInv, VenueInv, RouteResolvesOnce
  <1>4. CopyOK(h)' /\ CaptureOK(h)'
    BY <1>1, <1>2, <1>3 DEF CopyOK, CaptureOK, GetVenueOnlineInfo
  <1>5. SessionInv' BY <1>2, SessionsStay DEF GetVenueOnlineInfo
  <1> QED BY <1>2, <1>4, <1>5, HandlerOnly DEF GetVenueOnlineInfo

\* A session is inserted when no rival is pending or active, and captures what the
\* account can trade through.
LEMMA InsertSessionStep ==
  ASSUME VInv, NEW h \in Handlers, NEW a \in Accounts, NEW s \in Sessions,
         NEW rt \in Runtimes \cup {None}, InsertSession(h, a, s, rt), served' \in 0..MaxRequests
  PROVE  VInv'
  <1>1. /\ hs' \in [Handlers -> BusyHandler \cup {Idle}] /\ Moves(h)
        /\ hs'[h].pc = "save_commit" /\ hs'[h].a = a /\ hs'[h].s = s /\ hs'[h].rt = rt
        /\ hs'[h].set = ListActiveAccountVenues(a)
    <2>1. listActiveAccountVenuesTx(a) = ListActiveAccountVenues(a)
      BY DEF listActiveAccountVenuesTx, ListActiveAccountVenues
    <2>2. [pc |-> "save_commit", a |-> a, v |-> None, s |-> s, rt |-> rt,
           set |-> ListActiveAccountVenues(a)] \in BusyHandler
      BY DEF BusyHandler, PCs, ListActiveAccountVenues
    <2> QED BY <2>1, <2>2 DEF InsertSession, VInv, VTypeOK, Moves
  <1>2. CopyOK(h)' BY <1>1 DEF CopyOK, InsertSession, Exists
  <1>3. CaptureOK(h)' BY <1>1, ListedVenues DEF CaptureOK, InsertSession
  <1>4. sessions[s] = NoSession /\ (rt # None => NoActiveSessions(a))
    BY DEF InsertSession, SessionConflicts, SavedStatus, isActiveSessionStatus
  <1>5. SessionInv'
    <2>1. OneActiveSession' BY DEF VInv, SessionInv, OneActiveSession, SessionActive, InsertSession
    <2>2. \A g \in Handlers : PendingOK(g)'
      BY <1>1, <1>4 DEF VInv, SessionInv, PendingOK, InsertSession, Moves, NoActiveSessions, SessionActive
    <2>3. \A g \in Handlers \ {h} : hs[g].pc = "save_commit" =>
            hs[g].s # s /\ ~(hs[g].a = a /\ hs[g].rt # None /\ rt # None)
      BY DEF InsertSession, SavePending, SavedStatus, isActiveSessionStatus
    <2>4. \A g, k \in Handlers : g # k => ~Rivals(g, k)'
      BY <1>1, <2>3 DEF VInv, SessionInv, Rivals, Moves
    <2> QED BY <2>1, <2>2, <2>4 DEF SessionInv
  <1> QED BY <1>1, <1>2, <1>3, <1>5, HandlerOnly DEF InsertSession

\* UpdateSession holds a session that exists.
LEMMA BeginUpdateStep ==
  ASSUME VInv, NEW h \in Handlers, NEW s \in Sessions, BeginUpdate(h, s), served' \in 0..MaxRequests
  PROVE  VInv'
  <1>1. /\ hs' \in [Handlers -> BusyHandler \cup {Idle}] /\ Moves(h)
        /\ hs'[h] = [pc |-> "update", a |-> None, v |-> None, s |-> s, rt |-> None, set |-> {}]
    BY StartType DEF BeginUpdate, PCs, VInv
  <1>2. CopyOK(h)' /\ CaptureOK(h)' BY <1>1 DEF CopyOK, CaptureOK
  <1>3. sessions[s] # NoSession BY NoRows DEF BeginUpdate, SessionActive
  <1>4. SessionInv'
    <2>1. OneActiveSession' BY DEF VInv, SessionInv, OneActiveSession, SessionActive, BeginUpdate
    <2>2. \A g \in Handlers : PendingOK(g)'
      BY <1>1, <1>3 DEF VInv, SessionInv, PendingOK, BeginUpdate, Moves, NoActiveSessions, SessionActive
    <2>3. \A g, k \in Handlers : g # k => ~Rivals(g, k)'
      BY <1>1 DEF VInv, SessionInv, Rivals, Moves
    <2> QED BY <2>1, <2>2, <2>3 DEF SessionInv
  <1> QED BY <1>1, <1>2, <1>4, HandlerOnly DEF BeginUpdate

-----------------------------------------------------------------------------
(* Steps that write accounts, venues or wallets. *)

\* Such a step keeps the invariant if environments and routes stay, its tables are
\* sound and the handler has no session in hand.
LEMMA VenueStep ==
  ASSUME VInv, NEW h \in Handlers, Moves(h), Frame, UNCHANGED <<sessions, snap>>, VTypeOK',
         RouteResolvesOnce', WalletSameEnvironment', CopyOK(h)',
         hs'[h] = hs[h] \/ hs'[h].pc \notin {"save_commit", "update"}
  PROVE  VInv'
  <1>1. VenueInv' BY CopiesStay DEF VenueInv, Moves
  <1>2. SessionInv' BY SessionsStay
  <1>3. CaptureOK(h)' BY CopiesStay DEF CaptureOK
  <1>4. CaptureInv' BY <1>3, CapturesStay
  <1> QED BY <1>1, <1>2, <1>4 DEF VInv

\* The account of a bound venue, and of a wallet row, exists.
LEMMA BoundExists ==
  ASSUME VInv, NEW v \in Venues
  PROVE  /\ venues[v] # NoVenue =>
              venues[v] \in VenueRow /\ venues[v].env \in Envs /\ venues[v].acct \in Accounts \cup {None}
         /\ venues[v] # NoVenue /\ venues[v].acct # None => Exists(venues[v].acct)
         /\ wallets[v].row /\ wallets[v].acct # None => wallets[v].acct \in Accounts /\ Exists(wallets[v].acct)
  <1>1. venues[v] # NoVenue =>
          venues[v] \in VenueRow /\ venues[v].env \in Envs /\ venues[v].acct \in Accounts \cup {None}
    BY DEF VInv, VTypeOK, VenueRow
  <1>2. wallets[v].acct \in Accounts \cup {None} BY DEF VInv, VTypeOK, WalletRow
  <1> QED BY <1>1, <1>2, NoRows DEF VInv, VenueInv, RouteResolvesOnce, WalletSameEnvironment, Exists

\* A new account has no venue, no wallet row and no session.
LEMMA AccountInserted ==
  ASSUME VInv, NEW a \in Accounts, NEW env \in Envs \cup {"unknown"}, InsertAccount(a, env),
         UNCHANGED <<venues, sessions, snap, wallets>>
  PROVE  /\ Frame
         /\ RouteResolvesOnce'
         /\ WalletSameEnvironment'
         /\ accounts' \in [Accounts -> Envs \cup {"absent"}]
         /\ accounts'[a] = normalizeAccountEnvironment(env)
  <1>1. normalizeAccountEnvironment(env) \in Envs BY DEF normalizeAccountEnvironment, Envs
  <1>2. \A b \in Accounts : Exists(b) => accounts'[b] = accounts[b]
    BY DEF InsertAccount, VInv, VTypeOK
  <1>3. Frame BY <1>2 DEF Frame
  <1>4. RouteResolvesOnce'
    BY <1>2, BoundExists DEF VInv, VenueInv, RouteResolvesOnce, ListActiveAccountVenues
  <1>5. WalletSameEnvironment' BY <1>2, BoundExists DEF VInv, VenueInv, WalletSameEnvironment
  <1>6. accounts' \in [Accounts -> Envs \cup {"absent"}] /\ accounts'[a] = normalizeAccountEnvironment(env)
    BY <1>1 DEF InsertAccount, VInv, VTypeOK
  <1> QED BY <1>3, <1>4, <1>5, <1>6

LEMMA PostAccountStep ==
  ASSUME VInv, NEW h \in Handlers, NEW a \in Accounts, PostAccount(h, a), served' \in 0..MaxRequests
  PROVE  VInv'
  <1>1. PICK env \in Envs \cup {"unknown"} : InsertAccount(a, env) BY DEF PostAccount
  <1>2. /\ Frame /\ RouteResolvesOnce' /\ WalletSameEnvironment'
        /\ accounts' \in [Accounts -> Envs \cup {"absent"}]
    BY <1>1, AccountInserted DEF PostAccount
  <1>3. UNCHANGED hs /\ Moves(h) BY DEF PostAccount, Moves
  <1>4. CopyOK(h)' BY <1>2, <1>3, CopiesStay
  <1>5. VTypeOK' BY <1>2, <1>3 DEF VInv, VTypeOK, PostAccount
  <1> QED BY <1>2, <1>3, <1>4, <1>5, VenueStep DEF PostAccount

LEMMA CreateAccountStep ==
  ASSUME VInv, NEW h \in Handlers, NEW a \in Accounts, CreateAccount(h, a), served' \in 0..MaxRequests
  PROVE  VInv'
  <1>1. PICK env \in Envs :
          /\ InsertAccount(a, env)
          /\ IF env = "backtest" THEN Start(h, "default_venue", a, None, None, None) ELSE UNCHANGED hs
    BY DEF CreateAccount
  <1>2. /\ Frame /\ RouteResolvesOnce' /\ WalletSameEnvironment'
        /\ accounts' \in [Accounts -> Envs \cup {"absent"}]
        /\ accounts'[a] = normalizeAccountEnvironment(env)
    BY <1>1, AccountInserted DEF CreateAccount
  <1>3. Frame BY <1>2
  <1>4. RouteResolvesOnce' BY <1>2
  <1>5. WalletSameEnvironment' BY <1>2
  <1>6. accounts' \in [Accounts -> Envs \cup {"absent"}] BY <1>2
  <1>7. CASE env = "backtest"
    <2>1. /\ hs' \in [Handlers -> BusyHandler \cup {Idle}] /\ Moves(h)
          /\ hs'[h] = [pc |-> "default_venue", a |-> a, v |-> None, s |-> None, rt |-> None, set |-> {}]
      BY <1>1, <1>7, StartType DEF PCs, VInv
    <2>2. accounts'[a] = "backtest" BY <1>2, <1>7 DEF normalizeAccountEnvironment
    <2>3. CopyOK(h)' BY <2>1, <2>2 DEF CopyOK, Exists
    <2>4. VTypeOK' BY <1>6, <2>1 DEF VInv, VTypeOK, CreateAccount
    <2> QED BY <1>3, <1>4, <1>5, <2>1, <2>3, <2>4, VenueStep DEF CreateAccount
  <1>8. CASE env # "backtest"
    <2>1. UNCHANGED hs /\ Moves(h) BY <1>1, <1>8 DEF Moves
    <2>2. CopyOK(h)' BY <1>3, <2>1, CopiesStay
    <2>3. VTypeOK' BY <1>6, <2>1 DEF VInv, VTypeOK, CreateAccount
    <2> QED BY <1>3, <1>4, <1>5, <2>1, <2>2, <2>3, VenueStep DEF CreateAccount
  <1> QED BY <1>7, <1>8

\* A new venue is of its account's environment and alone on its route.
LEMMA InsertVenueStep ==
  ASSUME VInv, NEW h \in Handlers, NEW v \in Venues, NEW st \in {"active", "disabled"},
         NEW env \in Envs, NEW route \in Routes, InsertVenue(h, v, st, env, route), hs[h].pc # "idle",
         hs[h].a # None => accounts[hs[h].a] = env, served' \in 0..MaxRequests
  PROVE  VInv'
  <1> DEFINE row == [st |-> st, acct |-> hs[h].a, env |-> env, route |-> route]
  <1>1. CASE Return(h) /\ UNCHANGED venues BY <1>1, ReturnStep DEF InsertVenue
  <1>2. CASE /\ venues' = [venues EXCEPT ![v] = row]
             /\ IF env = "backtest" THEN StartWallets(h, hs[h].a, {v}) ELSE Return(h)
             /\ ~(hs[h].a # None /\ st = "active" /\ RouteTaken(v, hs[h].a, route))
    <2>1. hs[h].a \in Accounts \cup {None} BY BusyType DEF BusyHandler, VInv
    <2>2. row \in VenueRow BY <2>1 DEF VenueRow, VenueStatuses
    <2>3. row # NoVenue BY <2>2, NoRows
    <2>4. venues' \in [Venues -> VenueRow \cup {NoVenue}] BY <1>2, <2>2 DEF VInv, VTypeOK
    <2>5. venues'[v] = row /\ \A w \in Venues \ {v} : venues'[w] = venues[w]
      BY <1>2 DEF VInv, VTypeOK
    <2>6. Frame BY <2>5 DEF Frame, InsertVenue
    <2>7. RouteResolvesOnce'
      <3>1. \A w \in Venues \ {v} : venues[w].st = "active" /\ venues[w].acct = hs[h].a /\ hs[h].a # None
                                    /\ st = "active" => venues[w].route # route
        BY <1>2 DEF RouteTaken, ListActiveAccountVenues
      <3>2. row.st = st /\ row.acct = hs[h].a /\ row.env = env /\ row.route = route OBVIOUS
      <3> QED BY <2>5, <3>1, <3>2 DEF VInv, VenueInv, RouteResolvesOnce, ListActiveAccountVenues, InsertVenue
    <2>8. WalletSameEnvironment'
      BY <2>5 DEF VInv, VenueInv, WalletSameEnvironment, InsertVenue
    <2>9. CASE env = "backtest"
      <3>1. /\ hs' \in [Handlers -> BusyHandler \cup {Idle}] /\ Moves(h)
            /\ hs'[h].pc = "wallet" /\ hs'[h].a = hs[h].a /\ hs'[h].set = {v}
        BY <1>2, <2>1, <2>9, StartWalletsType DEF VInv
      <3>2. CopyOK(h)' BY <2>3, <2>5, <3>1 DEF CopyOK, InsertVenue
      <3>3. VTypeOK' BY <2>4, <3>1 DEF VInv, VTypeOK, InsertVenue
      <3> QED BY <2>6, <2>7, <2>8, <3>1, <3>2, <3>3, VenueStep DEF InsertVenue
    <2>10. CASE env # "backtest"
      <3>1. hs' \in [Handlers -> BusyHandler \cup {Idle}] /\ Moves(h) /\ hs'[h] = Idle
        BY <1>2, <2>10, ReturnType DEF VInv
      <3>2. VTypeOK' BY <2>4, <3>1 DEF VInv, VTypeOK, InsertVenue
      <3> QED BY <2>6, <2>7, <2>8, <3>1, <3>2, IdleOK, VenueStep DEF InsertVenue
    <2> QED BY <2>9, <2>10
  <1> QED BY <1>1, <1>2 DEF InsertVenue

\* CreateVenue inserts such a venue.
LEMMA CreateVenueStep ==
  ASSUME VInv, NEW h \in Handlers, CreateVenue(h), served' \in 0..MaxRequests
  PROVE  VInv'
  <1>1. PICK v \in Venues, st \in {"active", "disabled"}, env \in Envs, route \in Routes :
          /\ hs[h].a # None => accounts[hs[h].a] = env
          /\ InsertVenue(h, v, st, env, route)
    BY DEF CreateVenue
  <1>2. hs[h].pc # "idle" BY DEF CreateVenue
  <1> QED BY <1>1, <1>2, InsertVenueStep

\* So does CreateAccount for a backtest account.
LEMMA DefaultVenueStep ==
  ASSUME VInv, NEW h \in Handlers, createDefaultBacktestVenues(h), served' \in 0..MaxRequests
  PROVE  VInv'
  <1>1. PICK v \in Venues : InsertVenue(h, v, "active", "backtest", DefaultRoute)
    BY DEF createDefaultBacktestVenues
  <1>2. hs[h].pc # "idle" /\ accounts[hs[h].a] = "backtest"
    BY DEF createDefaultBacktestVenues, VInv, VenueInv, CopyOK
  <1>3. "backtest" \in Envs BY DEF Envs
  <1> QED BY <1>1, <1>2, <1>3, VenueConstants, InsertVenueStep

\* A venue moves to an account of its environment where its route is free.
LEMMA BindCommitsStep ==
  ASSUME VInv, NEW h \in Handlers, BindCommits(h), served' \in 0..MaxRequests
  PROVE  VInv'
  <1> DEFINE a == hs[h].a
  <1> DEFINE v == hs[h].v
  <1>1. /\ a \in Accounts /\ v \in Venues /\ venues[v] # NoVenue
        /\ venues[v].env = accounts[a]
    BY DEF BindCommits, VInv, VenueInv, CopyOK
  <1>2. CASE Return(h) /\ UNCHANGED <<venues, wallets>> BY <1>2, ReturnStep DEF BindCommits
  <1>3. CASE /\ ~RouteTaken(v, a, venues[v].route)
             /\ venues' = [venues EXCEPT ![v].acct = a]
             /\ wallets' = IF wallets[v].row THEN [wallets EXCEPT ![v].acct = a] ELSE wallets
             /\ IF venues[v].env = "backtest" THEN StartWallets(h, a, {v}) ELSE Return(h)
    <2>1. venues[v] \in VenueRow BY <1>1 DEF VInv, VTypeOK
    <2>2. [venues[v] EXCEPT !.acct = a] \in VenueRow BY <1>1, <2>1 DEF VenueRow
    <2>3. venues' \in [Venues -> VenueRow \cup {NoVenue}] BY <1>3, <2>2 DEF VInv, VTypeOK
    <2>4. /\ venues'[v] = [venues[v] EXCEPT !.acct = a]
          /\ \A w \in Venues \ {v} : venues'[w] = venues[w]
      BY <1>1, <1>3 DEF VInv, VTypeOK
    <2>5. /\ venues'[v].st = venues[v].st /\ venues'[v].acct = a /\ venues'[v] # NoVenue
          /\ venues'[v].env = venues[v].env /\ venues'[v].route = venues[v].route
      BY <2>1, <2>2, <2>4, NoRows DEF VenueRow
    <2>6. /\ wallets' \in [Venues -> WalletRow]
          /\ wallets'[v].row = wallets[v].row /\ (wallets[v].row => wallets'[v].acct = a)
          /\ \A w \in Venues \ {v} : wallets'[w] = wallets[w]
      BY <1>1, <1>3 DEF VInv, VTypeOK, WalletRow
    <2>7. Frame BY <2>4, <2>5 DEF Frame, BindCommits
    <2>8. RouteResolvesOnce'
      <3>1. \A w \in Venues \ {v} : venues[w].st = "active" /\ venues[w].acct = a => venues[w].route # venues[v].route
        BY <1>3 DEF RouteTaken, ListActiveAccountVenues
      <3>2. UNCHANGED accounts BY DEF BindCommits
      <3>3. RouteResolvesOnce BY DEF VInv, VenueInv
      <3>4. SUFFICES ASSUME NEW w \in Venues, venues'[w] # NoVenue, venues'[w].acct # None
                     PROVE  /\ venues'[w].env = accounts[venues'[w].acct]
                            /\ \A u \in Venues \ {w} :
                                 /\ venues'[u].st = "active" /\ venues'[u].acct = venues'[w].acct
                                 /\ venues'[w].st = "active"
                                 => venues'[u].route # venues'[w].route
        BY <3>2 DEF RouteResolvesOnce, ListActiveAccountVenues
      <3>5. CASE w = v BY <1>1, <2>4, <2>5, <3>1, <3>5
      <3>6. CASE w # v
        <4>1. venues'[w] = venues[w] BY <2>4, <3>6
        <4>2. venues[w].env = accounts[venues[w].acct]
          BY <3>3, <3>4, <4>1 DEF RouteResolvesOnce
        <4>3. ASSUME NEW u \in Venues \ {w}, venues'[u].st = "active",
                     venues'[u].acct = venues[w].acct, venues[w].st = "active"
              PROVE  venues'[u].route # venues[w].route
          <5>1. CASE u = v BY <1>1, <2>5, <3>1, <3>6, <4>3, <5>1
          <5>2. CASE u # v
            BY <2>4, <3>3, <3>4, <4>1, <4>3, <5>2 DEF RouteResolvesOnce, ListActiveAccountVenues
          <5> QED BY <5>1, <5>2
        <4> QED BY <4>1, <4>2, <4>3
      <3> QED BY <3>5, <3>6
    <2>9. WalletSameEnvironment'
      <3>1. UNCHANGED accounts BY DEF BindCommits
      <3>2. WalletSameEnvironment BY DEF VInv, VenueInv
      <3>3. SUFFICES ASSUME NEW w \in Venues, wallets'[w].row, wallets'[w].acct # None
                     PROVE  venues'[w] # NoVenue /\ accounts[wallets'[w].acct] = venues'[w].env
        BY <3>1 DEF WalletSameEnvironment
      <3>4. CASE w = v BY <1>1, <2>5, <2>6, <3>3, <3>4
      <3>5. CASE w # v BY <2>4, <2>6, <3>2, <3>3, <3>5 DEF WalletSameEnvironment
      <3> QED BY <3>4, <3>5
    <2>10. CASE venues[v].env = "backtest"
      <3>1. /\ hs' \in [Handlers -> BusyHandler \cup {Idle}] /\ Moves(h)
            /\ hs'[h].pc = "wallet" /\ hs'[h].a = a /\ hs'[h].set = {v}
        BY <1>1, <1>3, <2>10, StartWalletsType DEF VInv
      <3>2. CopyOK(h)' BY <1>1, <2>5, <3>1 DEF CopyOK, BindCommits
      <3>3. VTypeOK' BY <2>3, <2>6, <3>1 DEF VInv, VTypeOK, BindCommits
      <3> QED BY <2>7, <2>8, <2>9, <3>1, <3>2, <3>3, VenueStep DEF BindCommits
    <2>11. CASE venues[v].env # "backtest"
      <3>1. hs' \in [Handlers -> BusyHandler \cup {Idle}] /\ Moves(h) /\ hs'[h] = Idle
        BY <1>3, <2>11, ReturnType DEF VInv
      <3>2. VTypeOK' BY <2>3, <2>6, <3>1 DEF VInv, VTypeOK, BindCommits
      <3> QED BY <2>7, <2>8, <2>9, <3>1, <3>2, IdleOK, VenueStep DEF BindCommits
    <2> QED BY <2>10, <2>11
  <1> QED BY <1>2, <1>3 DEF BindCommits

\* ReleaseVenue and ArchiveVenue take a venue from its account.
LEMMA UnbindStep ==
  ASSUME VInv, NEW h \in Handlers, ReleaseVenue(h) \/ ArchiveVenue(h), served' \in 0..MaxRequests
  PROVE  VInv'
  <1> DEFINE v == hs[h].v
  <1>1. v \in Venues /\ venues[v] # NoVenue
    BY DEF ReleaseVenue, ArchiveVenue, VInv, VenueInv, CopyOK
  <1>2. venues[v] \in VenueRow BY <1>1 DEF VInv, VTypeOK
  <1>3. /\ [venues[v] EXCEPT !.acct = None] \in VenueRow
        /\ [venues[v] EXCEPT !.st = "archived", !.acct = None] \in VenueRow
    BY <1>2 DEF VenueRow, VenueStatuses
  <1>4. venues' \in [Venues -> VenueRow \cup {NoVenue}]
    BY <1>1, <1>3 DEF ReleaseVenue, ArchiveVenue, VInv, VTypeOK
  <1>5. /\ venues'[v] \in VenueRow /\ venues'[v].acct = None
        /\ venues'[v].env = venues[v].env /\ venues'[v].route = venues[v].route
        /\ \A w \in Venues \ {v} : venues'[w] = venues[w]
    <2>1. venues \in [Venues -> VenueRow \cup {NoVenue}] BY DEF VInv, VTypeOK
    <2>2. CASE ReleaseVenue(h)
      <3>1. venues' = [venues EXCEPT ![v].acct = None] BY <2>2 DEF ReleaseVenue
      <3> HIDE DEF v
      <3> QED BY <1>1, <1>2, <1>3, <2>1, <3>1 DEF VenueRow
    <2>3. CASE ArchiveVenue(h)
      <3>1. venues' = [venues EXCEPT ![v].st = "archived", ![v].acct = None] BY <2>3 DEF ArchiveVenue
      <3> HIDE DEF v
      <3> QED BY <1>1, <1>2, <1>3, <2>1, <3>1 DEF VenueRow
    <2> QED BY <2>2, <2>3
  <1>6. /\ wallets' \in [Venues -> WalletRow] /\ wallets'[v].acct = None
        /\ \A w \in Venues \ {v} : wallets'[w] = wallets[w]
    <2>1. wallets \in [Venues -> WalletRow] BY DEF VInv, VTypeOK
    <2>2. CASE ReleaseVenue(h)
      <3>1. wallets' = [wallets EXCEPT ![v].acct = None] BY <2>2 DEF ReleaseVenue
      <3> HIDE DEF v
      <3> QED BY <1>1, <2>1, <3>1 DEF WalletRow
    <2>3. CASE ArchiveVenue(h)
      <3>1. wallets' = [wallets EXCEPT ![v] = NoWallet] BY <2>3 DEF ArchiveVenue
      <3> HIDE DEF v
      <3> QED BY <1>1, <2>1, <3>1 DEF WalletRow, NoWallet
    <2> QED BY <2>2, <2>3
  <1>7. hs' \in [Handlers -> BusyHandler \cup {Idle}] /\ Moves(h) /\ hs'[h] = Idle
    BY ReturnType DEF VInv, ReleaseVenue, ArchiveVenue
  <1>8. UNCHANGED <<accounts, sessions, snap>> BY DEF ReleaseVenue, ArchiveVenue
  <1>9. Frame BY <1>1, <1>5, <1>8, NoRows DEF Frame
  <1>10. RouteResolvesOnce'
    BY <1>1, <1>5, <1>8 DEF VInv, VenueInv, RouteResolvesOnce, ListActiveAccountVenues
  <1>11. WalletSameEnvironment'
    BY <1>5, <1>6, <1>8 DEF VInv, VenueInv, WalletSameEnvironment
  <1>12. VTypeOK' BY <1>4, <1>6, <1>7, <1>8 DEF VInv, VTypeOK
  <1> QED BY <1>7, <1>8, <1>9, <1>10, <1>11, <1>12, IdleOK, VenueStep

\* A wallet row gets the account of a copy, stale or not, of the same environment.
LEMMA UpsertStep ==
  ASSUME VInv, NEW h \in Handlers, UpsertVenueWalletState(h), served' \in 0..MaxRequests
  PROVE  VInv'
  <1>1. PICK v \in hs[h].set :
          /\ wallets' = [wallets EXCEPT ![v] = [row |-> TRUE, acct |-> hs[h].a]]
          /\ hs' = IF hs[h].set = {v} THEN [hs EXCEPT ![h] = Idle] ELSE [hs EXCEPT ![h].set = @ \ {v}]
    BY DEF UpsertVenueWalletState
  <1>2. hs[h] \in BusyHandler BY BusyType DEF UpsertVenueWalletState, VInv
  <1>3. /\ v \in Venues /\ venues[v] # NoVenue /\ hs[h].a \in Accounts \cup {None}
        /\ hs[h].a # None => accounts[hs[h].a] = venues[v].env
    BY <1>1, <1>2 DEF BusyHandler, UpsertVenueWalletState, VInv, VenueInv, CopyOK
  <1>4. /\ wallets' \in [Venues -> WalletRow] /\ wallets'[v].acct = hs[h].a
        /\ \A w \in Venues \ {v} : wallets'[w] = wallets[w]
    BY <1>1, <1>3 DEF VInv, VTypeOK, WalletRow
  <1>5. [hs[h] EXCEPT !.set = hs[h].set \ {v}] \in BusyHandler BY <1>2 DEF BusyHandler
  <1>6. hs' \in [Handlers -> BusyHandler \cup {Idle}] /\ Moves(h)
    BY <1>1, <1>5 DEF VInv, VTypeOK, Moves
  <1>7. CopyOK(h)' /\ hs'[h].pc \notin {"save_commit", "update"}
    <2>1. CASE hs[h].set = {v} BY <1>1, <2>1, IdleOK DEF VInv, VTypeOK
    <2>2. CASE hs[h].set # {v}
      <3>1. hs'[h] = [hs[h] EXCEPT !.set = hs[h].set \ {v}] BY <1>1, <2>2 DEF VInv, VTypeOK
      <3>2. hs'[h].pc = "wallet" /\ hs'[h].a = hs[h].a /\ hs'[h].set = hs[h].set \ {v}
        BY <1>2, <3>1 DEF BusyHandler, UpsertVenueWalletState
      <3> QED BY <3>2 DEF CopyOK, VInv, VenueInv, UpsertVenueWalletState
    <2> QED BY <2>1, <2>2
  <1>8. Frame BY DEF Frame, UpsertVenueWalletState
  <1>9. RouteResolvesOnce'
    BY DEF VInv, VenueInv, RouteResolvesOnce, ListActiveAccountVenues, UpsertVenueWalletState
  <1>10. WalletSameEnvironment'
    BY <1>3, <1>4 DEF VInv, VenueInv, WalletSameEnvironment, UpsertVenueWalletState
  <1>11. VTypeOK' BY <1>4, <1>6 DEF VInv, VTypeOK, UpsertVenueWalletState
  <1> QED BY <1>6, <1>7, <1>8, <1>9, <1>10, <1>11, VenueStep DEF UpsertVenueWalletState

-----------------------------------------------------------------------------
(* Steps that write sessions. *)

\* Venues and wallets stay sound when a step writes sessions only.
LEMMA SessionStep ==
  ASSUME VInv, UNCHANGED <<accounts, venues, wallets>>, VTypeOK', SessionInv', SnapshotSound',
         NoSessionNoSnap', \A g \in Handlers : hs'[g] = hs[g] \/ hs'[g] = Idle
  PROVE  VInv'
  <1>1. Frame BY DEF Frame
  <1>2. \A g \in Handlers : CopyOK(g)' /\ CaptureOK(g)' BY <1>1, CopiesStay, IdleOK
  <1>3. RouteResolvesOnce' /\ WalletSameEnvironment'
    BY DEF VInv, VenueInv, RouteResolvesOnce, WalletSameEnvironment, ListActiveAccountVenues
  <1> QED BY <1>2, <1>3 DEF VInv, VenueInv, CaptureInv

\* A committed session is the only active one of its account.
LEMMA SaveSessionStep ==
  ASSUME VInv, NEW h \in Handlers, SaveSession(h), served' \in 0..MaxRequests
  PROVE  VInv'
  <1> DEFINE s == hs[h].s
  <1> DEFINE row == [st |-> SavedStatus(hs[h].rt), acct |-> hs[h].a, rt |-> hs[h].rt]
  <1>1. /\ hs' \in [Handlers -> BusyHandler \cup {Idle}] /\ Moves(h) /\ hs'[h] = Idle
        /\ hs[h] \in BusyHandler
    BY ReturnType, BusyType DEF SaveSession, VInv
  <1>2. /\ s \in Sessions /\ hs[h].a \in Accounts /\ sessions[s] = NoSession
        /\ hs[h].rt # None => NoActiveSessions(hs[h].a)
    BY DEF SaveSession, VInv, VenueInv, SessionInv, CopyOK, PendingOK
  <1>3. row \in SessionRow
    <2>1. hs[h].rt \in Runtimes \cup {None} BY <1>1 DEF BusyHandler
    <2>2. SavedStatus(hs[h].rt) \in SessionStatuses BY DEF SavedStatus, SessionStatuses
    <2> QED BY <1>2, <2>1, <2>2 DEF SessionRow
  <1>4. row # NoSession BY <1>3, NoRows
  <1>5. /\ sessions' \in [Sessions -> SessionRow \cup {NoSession}]
        /\ sessions'[s] = row /\ \A t \in Sessions \ {s} : sessions'[t] = sessions[t]
    BY <1>2, <1>3 DEF SaveSession, VInv, VTypeOK
  <1>6. /\ snap' \in [Sessions -> SUBSET Venues]
        /\ snap'[s] = hs[h].set /\ \A t \in Sessions \ {s} : snap'[t] = snap[t]
    BY <1>1, <1>2 DEF SaveSession, VInv, VTypeOK, BusyHandler
  <1>7. row.acct = hs[h].a /\ (isActiveSessionStatus(row.st) => hs[h].rt # None)
    BY DEF SavedStatus, isActiveSessionStatus
  <1>8. VTypeOK' BY <1>1, <1>5, <1>6 DEF SaveSession, VInv, VTypeOK
  <1>9. SessionInv'
    <2>1. OneActiveSession'
      BY <1>2, <1>5, <1>7 DEF VInv, SessionInv, OneActiveSession, SessionActive, NoActiveSessions
    <2>2. ASSUME NEW g \in Handlers PROVE PendingOK(g)'
      <3>1. CASE g = h BY <1>1, <3>1 DEF PendingOK, Idle
      <3>2. CASE g # h
        <4>1. hs'[g] = hs[g] /\ PendingOK(g) /\ ~Rivals(g, h)
          BY <1>1, <3>2 DEF Moves, VInv, SessionInv
        <4>2. CASE hs[g].pc = "update"
          BY <1>4, <1>5, <4>1, <4>2 DEF PendingOK
        <4>3. CASE hs[g].pc = "save_commit"
          <5>1. hs[g].s # s /\ ~(hs[g].rt # None /\ hs[h].rt # None /\ hs[g].a = hs[h].a)
            BY <4>1, <4>3 DEF Rivals, SaveSession
          <5>2. hs[g].rt # None => NoActiveSessions(hs[g].a)'
            BY <1>5, <1>7, <4>1, <4>3, <5>1 DEF PendingOK, NoActiveSessions, SessionActive
          <5>3. hs[g].s \in Sessions /\ sessions'[hs[g].s] = NoSession
            BY <1>5, <4>1, <4>3, <5>1 DEF PendingOK
          <5> QED BY <4>1, <4>3, <5>2, <5>3 DEF PendingOK, NoActiveSessions, SessionActive
        <4> QED BY <4>1, <4>2, <4>3 DEF PendingOK
      <3> QED BY <3>1, <3>2
    <2>3. \A g, k \in Handlers : g # k => ~Rivals(g, k)'
      BY <1>1 DEF VInv, SessionInv, Rivals, Moves, Idle
    <2> QED BY <2>1, <2>2, <2>3 DEF SessionInv
  <1>10. SnapshotSound'
    <2>1. CaptureOK(h) BY DEF VInv, CaptureInv
    <2>2. UNCHANGED <<accounts, venues>> /\ hs[h].pc = "save_commit" BY DEF SaveSession
    <2>3. SnapshotSound BY DEF VInv, CaptureInv
    <2>4. SUFFICES ASSUME NEW t \in Sessions, NEW v \in snap'[t]
                   PROVE  /\ venues[v] # NoVenue
                          /\ venues[v].env = accounts[sessions'[t].acct]
                          /\ \A w \in snap'[t] : venues[w].route = venues[v].route => w = v
      BY <2>2 DEF SnapshotSound
    <2>5. CASE t = s BY <1>5, <1>6, <1>7, <2>1, <2>2, <2>4, <2>5 DEF CaptureOK
    <2>6. CASE t # s BY <1>5, <1>6, <2>3, <2>4, <2>6 DEF SnapshotSound
    <2> QED BY <2>5, <2>6
  <1>11. NoSessionNoSnap' BY <1>4, <1>5, <1>6 DEF VInv, CaptureInv, NoSessionNoSnap
  <1> QED BY <1>1, <1>8, <1>9, <1>10, <1>11, SessionStep DEF SaveSession, Moves

\* A step that only takes sessions from one status to another keeps the invariant if
\* it activates none.
LEMMA StatusStep ==
  ASSUME VInv, UNCHANGED <<accounts, venues, wallets, snap>>,
         sessions' \in [Sessions -> SessionRow \cup {NoSession}],
         hs' \in [Handlers -> BusyHandler \cup {Idle}], served' \in 0..MaxRequests,
         \A g \in Handlers : hs'[g] = hs[g] \/ hs'[g] = Idle,
         \A s \in Sessions : /\ sessions'[s].acct = sessions[s].acct
                             /\ sessions'[s] = NoSession <=> sessions[s] = NoSession
                             /\ isActiveSessionStatus(sessions'[s].st) => SessionActive(s)
  PROVE  VInv'
  <1>1. VTypeOK' BY DEF VInv, VTypeOK
  <1>2. SessionInv'
    <2>1. OneActiveSession' BY DEF VInv, SessionInv, OneActiveSession, SessionActive
    <2>2. ASSUME NEW g \in Handlers PROVE PendingOK(g)'
      <3>1. CASE hs'[g] = Idle BY <3>1 DEF PendingOK, Idle
      <3>2. CASE hs'[g] = hs[g]
        <4>1. PendingOK(g) BY DEF VInv, SessionInv
        <4>2. NoActiveSessions(hs[g].a) => NoActiveSessions(hs[g].a)'
          BY <3>2 DEF NoActiveSessions, SessionActive
        <4> QED BY <3>2, <4>1, <4>2 DEF PendingOK
      <3> QED BY <3>1, <3>2
    <2>3. \A g, k \in Handlers : g # k => ~Rivals(g, k)'
      BY DEF VInv, SessionInv, Rivals, Idle
    <2> QED BY <2>1, <2>2, <2>3 DEF SessionInv
  <1>3. SnapshotSound' BY DEF VInv, VTypeOK, CaptureInv, SnapshotSound
  <1>4. NoSessionNoSnap' BY DEF VInv, CaptureInv, NoSessionNoSnap
  <1> QED BY <1>1, <1>2, <1>3, <1>4, SessionStep

\* An update of an active session leaves a session of the same account.
LEMMA NewStatus ==
  ASSUME VInv, NEW s \in Sessions, SessionActive(s), NEW st \in SessionStatuses
  PROVE  /\ sessions[s] \in SessionRow
         /\ [sessions[s] EXCEPT !.st = st] \in SessionRow
         /\ [sessions[s] EXCEPT !.st = st].acct = sessions[s].acct
         /\ [sessions[s] EXCEPT !.st = st].st = st
  <1>1. sessions[s] \in SessionRow BY NoRows DEF VInv, VTypeOK, SessionActive
  <1> QED BY <1>1 DEF SessionRow

\* UpdateSession changes an active session only.
LEMMA UpdateSessionStep ==
  ASSUME VInv, NEW h \in Handlers, UpdateSession(h), served' \in 0..MaxRequests
  PROVE  VInv'
  <1> DEFINE s == hs[h].s
  <1>1. /\ hs' \in [Handlers -> BusyHandler \cup {Idle}] /\ Moves(h) /\ hs'[h] = Idle
    BY ReturnType DEF UpdateSession, VInv
  <1>2. CASE UNCHANGED sessions BY <1>2, ReturnStep DEF UpdateSession
  <1>3. CASE SessionActive(s) /\ \E st \in SessionStatuses : sessions' = [sessions EXCEPT ![s].st = st]
    <2>1. PICK st \in SessionStatuses : sessions' = [sessions EXCEPT ![s].st = st] BY <1>3
    <2>2. s \in Sessions BY DEF UpdateSession, VInv, SessionInv, PendingOK
    <2>3. /\ sessions[s] \in SessionRow
          /\ [sessions[s] EXCEPT !.st = st] \in SessionRow
          /\ [sessions[s] EXCEPT !.st = st].acct = sessions[s].acct
      BY <1>3, <2>2, NewStatus
    <2>4. /\ sessions' \in [Sessions -> SessionRow \cup {NoSession}]
          /\ sessions'[s] = [sessions[s] EXCEPT !.st = st]
          /\ \A t \in Sessions \ {s} : sessions'[t] = sessions[t]
      BY <2>1, <2>2, <2>3 DEF VInv, VTypeOK
    <2>5. \A t \in Sessions : /\ sessions'[t].acct = sessions[t].acct
                              /\ sessions'[t] = NoSession <=> sessions[t] = NoSession
                              /\ isActiveSessionStatus(sessions'[t].st) => SessionActive(t)
      BY <1>3, <2>3, <2>4, NoRows DEF SessionActive
    <2> QED BY <1>1, <2>4, <2>5, StatusStep DEF UpdateSession, Moves
  <1> QED BY <1>2, <1>3 DEF UpdateSession

\* MarkRuntimeSessionsRecoverable ends active sessions and starts none.
LEMMA MarkStep ==
  ASSUME VInv, NEW rt \in Runtimes, MarkRuntimeSessionsRecoverable(rt), served' \in 0..MaxRequests
  PROVE  VInv'
  <1>1. "recoverable" \in SessionStatuses BY DEF SessionStatuses
  <1>2. ASSUME NEW s \in Sessions
        PROVE  /\ sessions'[s] \in SessionRow \cup {NoSession}
               /\ sessions'[s].acct = sessions[s].acct
               /\ sessions'[s] = NoSession <=> sessions[s] = NoSession
               /\ isActiveSessionStatus(sessions'[s].st) => SessionActive(s)
    <2>1. CASE SessionActive(s) /\ sessions[s].rt = rt
      <3>1. sessions'[s] = [sessions[s] EXCEPT !.st = "recoverable"]
        BY <2>1 DEF MarkRuntimeSessionsRecoverable
      <3> QED BY <1>1, <2>1, <3>1, NewStatus, NoRows
    <2>2. CASE ~(SessionActive(s) /\ sessions[s].rt = rt)
      <3>1. sessions'[s] = sessions[s] BY <2>2 DEF MarkRuntimeSessionsRecoverable
      <3> QED BY <3>1 DEF SessionActive, VInv, VTypeOK
    <2> QED BY <2>1, <2>2
  <1>3. sessions' \in [Sessions -> SessionRow \cup {NoSession}]
    BY <1>2 DEF MarkRuntimeSessionsRecoverable
  <1>4. hs' \in [Handlers -> BusyHandler \cup {Idle}] BY DEF MarkRuntimeSessionsRecoverable, VInv, VTypeOK
  <1> QED BY <1>2, <1>3, <1>4, StatusStep DEF MarkRuntimeSessionsRecoverable

-----------------------------------------------------------------------------
(* Theorems. *)

\* The invariant holds of the empty database.
LEMMA VInitial == Init => VInv
  <1> SUFFICES ASSUME Init PROVE VInv OBVIOUS
  <1>1. VTypeOK BY VenueConstants DEF Init, VTypeOK, WalletRow, NoWallet
  <1>2. VenueInv
    BY DEF Init, VenueInv, RouteResolvesOnce, WalletSameEnvironment, CopyOK, Idle, NoWallet
  <1>3. SessionInv
    BY NoRows DEF Init, SessionInv, OneActiveSession, PendingOK, Rivals, SessionActive, Idle
  <1>4. CaptureInv BY DEF Init, CaptureInv, SnapshotSound, NoSessionNoSnap, CaptureOK, Idle
  <1> QED BY <1>1, <1>2, <1>3, <1>4 DEF VInv

\* Every step keeps the invariant.
LEMMA VPreserved == VInv /\ [Next]_vars => VInv'
  <1> SUFFICES ASSUME VInv, [Next]_vars PROVE VInv' OBVIOUS
  <1>1. CASE UNCHANGED vars
    <2>1. Frame /\ \A h \in Handlers : Moves(h) BY <1>1 DEF Frame, Moves, vars
    <2>2. VTypeOK' BY <1>1 DEF VInv, VTypeOK, vars
    <2>3. SessionInv'
      BY <1>1 DEF VInv, SessionInv, OneActiveSession, PendingOK, Rivals, SessionActive, NoActiveSessions, vars
    <2>4. SnapshotSound' /\ NoSessionNoSnap'
      BY <1>1 DEF VInv, CaptureInv, SnapshotSound, NoSessionNoSnap, vars
    <2> QED BY <1>1, <2>2, <2>3, <2>4, SessionStep DEF vars
  <1>2. CASE served < MaxRequests /\ served' = served + 1 /\ \E h \in Handlers : Request(h)
    <2>1. served' \in 0..MaxRequests BY <1>2, VenueConstants DEF VInv, VTypeOK
    <2>2. PICK h \in Handlers : Request(h) BY <1>2
    <2>3. ASSUME NEW a \in Accounts,
                 PostAccount(h, a) \/ CreateAccount(h, a) \/ UpdateAccountWalletState(h, a)
          PROVE  VInv'
      BY <2>1, <2>3, PostAccountStep, CreateAccountStep, UpdateAccountWalletStateStep
    <2>4. ASSUME NEW a \in Accounts \cup {None}, BeginCreate(h, a) PROVE VInv'
      BY <2>1, <2>4, BeginCreateStep
    <2>5. ASSUME NEW a \in Accounts, NEW v \in Venues, BindVenue(h, a, v) PROVE VInv'
      BY <2>1, <2>5, BindVenueStep
    <2>6. ASSUME NEW v \in Venues, LockVenue(h, v) \/ GetVenueOnlineInfo(h, v) PROVE VInv'
      BY <2>1, <2>6, LockVenueStep, GetVenueOnlineInfoStep
    <2>7. ASSUME NEW a \in Accounts, NEW s \in Sessions, NEW rt \in Runtimes \cup {None},
                 InsertSession(h, a, s, rt) PROVE VInv'
      BY <2>1, <2>7, InsertSessionStep
    <2>8. ASSUME NEW s \in Sessions, BeginUpdate(h, s) PROVE VInv'
      BY <2>1, <2>8, BeginUpdateStep
    <2>9. ASSUME NEW rt \in Runtimes, MarkRuntimeSessionsRecoverable(rt) PROVE VInv'
      BY <2>1, <2>9, MarkStep
    <2> QED BY <2>2, <2>3, <2>4, <2>5, <2>6, <2>7, <2>8, <2>9 DEF Request
  <1>3. CASE (\E h \in Handlers : HandlerStep(h) \/ Abort(h)) /\ UNCHANGED served
    <2>1. served' \in 0..MaxRequests BY <1>3 DEF VInv, VTypeOK
    <2>2. PICK h \in Handlers : HandlerStep(h) \/ Abort(h) BY <1>3
    <2>3. CASE Abort(h) BY <2>1, <2>3, ReturnStep DEF Abort
    <2>4. CASE CreateVenue(h) BY <2>1, <2>4, CreateVenueStep
    <2>5. CASE createDefaultBacktestVenues(h) BY <2>1, <2>5, DefaultVenueStep
    <2>6. CASE BindLocksVenue(h) BY <2>1, <2>6, BindLocksVenueStep
    <2>7. CASE BindCommits(h) BY <2>1, <2>7, BindCommitsStep
    <2>8. CASE ReleaseVenue(h) \/ ArchiveVenue(h) BY <2>1, <2>8, UnbindStep
    <2>9. CASE UpsertVenueWalletState(h) BY <2>1, <2>9, UpsertStep
    <2>10. CASE SaveSession(h) BY <2>1, <2>10, SaveSessionStep
    <2>11. CASE UpdateSession(h) BY <2>1, <2>11, UpdateSessionStep
    <2> QED BY <2>2, <2>3, <2>4, <2>5, <2>6, <2>7, <2>8, <2>9, <2>10, <2>11 DEF HandlerStep
  <1> QED BY <1>1, <1>2, <1>3 DEF Next

\* The invariant holds in every reachable state: types, and the soundness of every
\* row and of every copy a handler still holds.
THEOREM VInductive == Spec => []VInv
  BY VInitial, VPreserved, PTL DEF Spec

\* Every variable of the account service keeps its type.
THEOREM VTypeCorrect == Spec => []VTypeOK
  <1>1. VInv => VTypeOK BY DEF VInv
  <1> QED BY <1>1, VInductive, PTL

\* A route of an account resolves to one venue, of the account's environment
\* (ResolveVenueRouteMeta), whatever venue changes overlap.
THEOREM RouteResolvesOnceHolds == Spec => []RouteResolvesOnce
  <1>1. VInv => RouteResolvesOnce BY DEF VInv, VenueInv
  <1> QED BY <1>1, VInductive, PTL

\* An account has one active session (SaveSession), however saves overlap.
THEOREM OneActiveSessionHolds == Spec => []OneActiveSession
  <1>1. VInv => OneActiveSession BY DEF VInv, SessionInv
  <1> QED BY <1>1, VInductive, PTL

\* The venues a session captured were one per route, of its account's environment.
THEOREM SnapshotSoundHolds == Spec => []SnapshotSound
  <1>1. VInv => SnapshotSound BY DEF VInv, CaptureInv
  <1> QED BY <1>1, VInductive, PTL

\* A wallet row names no account of another environment, stale writes included.
THEOREM WalletSameEnvironmentHolds == Spec => []WalletSameEnvironment
  <1>1. VInv => WalletSameEnvironment BY DEF VInv, VenueInv
  <1> QED BY <1>1, VInductive, PTL

\* A session that is over stays over and keeps what it captured (UpdateSession,
\* SaveSession and MarkRuntimeSessionsRecoverable in any order).
THEOREM SessionIsFinalHolds == Spec => SessionIsFinal
  <1> DEFINE Final == \A s \in Sessions :
        sessions[s] # NoSession /\ ~SessionActive(s) => ~SessionActive(s)' /\ snap'[s] = snap[s]
  <1>1. ASSUME VInv, [Next]_vars PROVE [Final]_vars
    <2> SUFFICES ASSUME Next, NEW s \in Sessions, sessions[s] # NoSession, ~SessionActive(s)
                 PROVE  ~SessionActive(s)' /\ snap'[s] = snap[s]
      BY <1>1
    <2>1. CASE UNCHANGED <<sessions, snap>> BY <2>1 DEF SessionActive
    <2>2. ASSUME NEW h \in Handlers, SaveSession(h) PROVE ~SessionActive(s)' /\ snap'[s] = snap[s]
      <3>1. hs[h].s \in Sessions /\ hs[h].s # s
        BY <1>1, <2>2 DEF VInv, SessionInv, PendingOK, SaveSession
      <3> QED BY <1>1, <2>2, <3>1 DEF SaveSession, SessionActive, VInv, VTypeOK
    <2>3. ASSUME NEW h \in Handlers, UpdateSession(h) PROVE ~SessionActive(s)' /\ snap'[s] = snap[s]
      <3>1. hs[h].s \in Sessions BY <1>1, <2>3 DEF VInv, SessionInv, PendingOK, UpdateSession
      <3>2. CASE UNCHANGED sessions BY <2>3, <3>2 DEF UpdateSession, SessionActive
      <3>3. CASE SessionActive(hs[h].s)
        BY <1>1, <2>3, <3>1, <3>3 DEF UpdateSession, SessionActive, VInv, VTypeOK
      <3> QED BY <2>3, <3>2, <3>3 DEF UpdateSession
    <2>4. ASSUME NEW rt \in Runtimes, MarkRuntimeSessionsRecoverable(rt)
          PROVE  ~SessionActive(s)' /\ snap'[s] = snap[s]
      BY <2>4 DEF MarkRuntimeSessionsRecoverable, SessionActive
    <2>5. \/ UNCHANGED <<sessions, snap>>
          \/ \E h \in Handlers : SaveSession(h) \/ UpdateSession(h)
          \/ \E rt \in Runtimes : MarkRuntimeSessionsRecoverable(rt)
      <3>1. ASSUME NEW h \in Handlers, Request(h)
            PROVE  UNCHANGED <<sessions, snap>> \/ \E rt \in Runtimes : MarkRuntimeSessionsRecoverable(rt)
        BY <3>1 DEF Request, PostAccount, CreateAccount, UpdateAccountWalletState, BeginCreate, BindVenue, LockVenue,
                    GetVenueOnlineInfo, InsertSession, BeginUpdate
      <3>2. ASSUME NEW h \in Handlers, HandlerStep(h) \/ Abort(h)
            PROVE  UNCHANGED <<sessions, snap>> \/ SaveSession(h) \/ UpdateSession(h)
        BY <3>2 DEF HandlerStep, Abort, CreateVenue, InsertVenue, createDefaultBacktestVenues,
                    BindLocksVenue, BindCommits, ReleaseVenue, ArchiveVenue, UpsertVenueWalletState
      <3> QED BY <3>1, <3>2 DEF Next
    <2> QED BY <2>1, <2>2, <2>3, <2>4, <2>5
  <1> QED BY <1>1, VInductive, PTL DEF Spec, SessionIsFinal

=============================================================================
