---------------------------- MODULE VenueSessions ----------------------------
(***************************************************************************)
(* The account service's accounts, venues and strategy sessions: which     *)
(* venue (an exchange login for one market) an account trades through, and *)
(* which session trades on the account.                                    *)
(*                                                                         *)
(* A handler is one RPC. Its statements run under READ COMMITTED: each     *)
(* reads what is committed when it runs, FOR UPDATE row locks are held to  *)
(* the commit, and a transaction's writes appear at its commit. Statements *)
(* that commute with everything between them share a step. All rows belong *)
(* to one user; requests refused before they write a row are no steps. The *)
(* rows of venue_events, which nothing reads, are left out.                *)
(***************************************************************************)
EXTENDS Naturals

CONSTANTS
  Handlers,     \* goroutines that serve RPCs
  Accounts,     \* account ids, each created at most once
  Venues,       \* venue ids, each created at most once
  Sessions,     \* session ids, chosen by the caller
  Runtimes,     \* strategy runtimes
  Routes,       \* (exchange, market) pairs
  DefaultRoute, \* Binance perpetual futures
  MaxRequests,  \* bound on the RPCs that reach the database
  None          \* NULL

ASSUME VenueConstants ==
  /\ None \notin Accounts \cup Venues \cup Sessions \cup Runtimes
  /\ DefaultRoute \in Routes
  /\ MaxRequests \in Nat

VARIABLES
  accounts,   \* the environment of every account
  venues,     \* the venues table
  sessions,   \* the strategy_sessions table
  snap,       \* session_venues: the venues captured for a session
  wallets,    \* venue_wallet_states: whether a venue has a row, and its account
  hs,         \* the local state of every handler
  served      \* requests served so far

vars == <<accounts, venues, sessions, snap, wallets, hs, served>>

\* "live" stands for demo too: the environments a venue needs credentials for.
Envs == {"backtest", "live"}

\* "disabled" stands for revoked too: not active, not archived.
VenueStatuses == {"active", "disabled", "archived"}
VenueRow == [st : VenueStatuses, acct : Accounts \cup {None}, env : Envs, route : Routes]
NoVenue == [st |-> "absent", acct |-> None, env |-> "none", route |-> None]

\* "ended" stands for every status without a role of its own here (pending, finished,
\* stopped, failed).
SessionStatuses == {"running", "stopping", "recoverable", "ended", "preflight_failed"}
isActiveSessionStatus(st) == st \in {"running", "stopping"}
SessionRow == [st : SessionStatuses, acct : Accounts, rt : Runtimes \cup {None}]
NoSession == [st |-> "absent", acct |-> None, rt |-> None]

WalletRow == [row : BOOLEAN, acct : Accounts \cup {None}]
NoWallet == [row |-> FALSE, acct |-> None]

\* A handler's locals: account, venue, session and runtime ids, and the venues whose
\* wallet it has yet to write. Its copies of those venues all say account a.
PCs == {"default_venue", "create", "bind_venue", "bind_commit", "release_commit",
        "archive_commit", "save_commit", "update", "wallet"}
BusyHandler == [pc : PCs, a : Accounts \cup {None}, v : Venues \cup {None},
                s : Sessions \cup {None}, rt : Runtimes \cup {None}, set : SUBSET Venues]
Idle == [pc |-> "idle", a |-> None, v |-> None, s |-> None, rt |-> None, set |-> {}]

-----------------------------------------------------------------------------
(* Reads. *)

Exists(a) == accounts[a] # "absent"

SessionActive(s) == isActiveSessionStatus(sessions[s].st)

\* COUNT(*) of the account's active sessions is 0. The NULL account has none.
NoActiveSessions(a) == \A s \in Sessions : SessionActive(s) => sessions[s].acct # a

ListActiveAccountVenues(a) == {v \in Venues : venues[v].st = "active" /\ venues[v].acct = a}

\* Slip: the listing forgets the status.
ListAccountVenues(a) == {v \in Venues : venues[v].st # "absent" /\ venues[v].acct = a}

\* listActiveAccountVenuesTx, inside the transaction that saves a session.
listActiveAccountVenuesTx(a) == {v \in Venues : venues[v].st = "active" /\ venues[v].acct = a}

\* uidx_venues_active_account_market refuses an active venue of account a on a route
\* where another active venue of a stands.
RouteTaken(v, a, route) == \E w \in ListActiveAccountVenues(a) \ {v} : venues[w].route = route

\* Row locks. BindVenue locks its account, then its venue; the others their venue.
AccountLocked(a) == \E h \in Handlers : hs[h].pc \in {"bind_venue", "bind_commit"} /\ hs[h].a = a
VenueLocked(v) ==
  \E h \in Handlers : hs[h].pc \in {"bind_commit", "release_commit", "archive_commit"} /\ hs[h].v = v

SavedStatus(rt) == IF rt = None THEN "preflight_failed" ELSE "running"

\* A row that is inserted and not committed: a second one for the same session, or a
\* second active one for the same account, waits for it.
SavePending(a, s, rt) ==
  \E h \in Handlers :
    /\ hs[h].pc = "save_commit"
    /\ \/ hs[h].s = s
       \/ hs[h].a = a /\ isActiveSessionStatus(SavedStatus(hs[h].rt)) /\ isActiveSessionStatus(SavedStatus(rt))

\* The primary key, and uq_strategy_sessions_active_account.
SessionConflicts(a, s, rt) ==
  sessions[s] # NoSession \/ (isActiveSessionStatus(SavedStatus(rt)) /\ ~NoActiveSessions(a))

Return(h) == hs' = [hs EXCEPT ![h] = Idle]
Goto(h, label) == hs' = [hs EXCEPT ![h].pc = label]
Start(h, label, a, v, s, rt) ==
  hs' = [hs EXCEPT ![h] = [pc |-> label, a |-> a, v |-> v, s |-> s, rt |-> rt, set |-> {}]]
StartWallets(h, a, set) ==
  hs' = [hs EXCEPT ![h] = [pc |-> "wallet", a |-> a, v |-> None, s |-> None, rt |-> None, set |-> set]]

-----------------------------------------------------------------------------
(* Accounts and venues. *)

\* An environment the service does not know is stored as backtest.
normalizeAccountEnvironment(env) == IF env \in Envs THEN env ELSE "backtest"

InsertAccount(a, env) ==
  /\ ~Exists(a)
  /\ accounts' = [accounts EXCEPT ![a] = normalizeAccountEnvironment(env)]

\* POST /accounts writes the row past the account service: any environment, no venue.
PostAccount(h, a) ==
  /\ hs[h].pc = "idle"
  /\ \E env \in Envs \cup {"unknown"} : InsertAccount(a, env)
  /\ UNCHANGED <<venues, sessions, snap, wallets, hs>>

\* A backtest account gets a default venue in a statement of its own.
CreateAccount(h, a) ==
  /\ hs[h].pc = "idle"
  /\ \E env \in Envs :
       /\ InsertAccount(a, env)
       /\ IF env = "backtest" THEN Start(h, "default_venue", a, None, None, None) ELSE UNCHANGED hs
  /\ UNCHANGED <<venues, sessions, snap, wallets>>

\* ensureVenueCanAttachAccount, unless the venue is created without an account; the
\* request's environment is compared with the account's.
BeginCreate(h, a) ==
  /\ hs[h].pc = "idle"
  /\ a # None => Exists(a) /\ NoActiveSessions(a)
  /\ Start(h, "create", a, None, None, None)
  /\ UNCHANGED <<accounts, venues, sessions, snap, wallets>>

\* The row is inserted, or its route is taken. A backtest venue gets a wallet next.
InsertVenue(h, v, st, env, route) ==
  /\ venues[v] = NoVenue
  /\ IF hs[h].a # None /\ st = "active" /\ RouteTaken(v, hs[h].a, route)
     THEN Return(h) /\ UNCHANGED venues
     ELSE /\ venues' = [venues EXCEPT ![v] = [st |-> st, acct |-> hs[h].a, env |-> env, route |-> route]]
          /\ IF env = "backtest" THEN StartWallets(h, hs[h].a, {v}) ELSE Return(h)
  /\ UNCHANGED <<accounts, sessions, snap, wallets>>

CreateVenue(h) ==
  /\ hs[h].pc = "create"
  /\ hs[h].a # None => ~AccountLocked(hs[h].a)
  /\ \E v \in Venues, st \in {"active", "disabled"}, env \in Envs, route \in Routes :
       /\ hs[h].a # None => accounts[hs[h].a] = env
       /\ InsertVenue(h, v, st, env, route)

createDefaultBacktestVenues(h) ==
  /\ hs[h].pc = "default_venue"
  /\ ~AccountLocked(hs[h].a)
  /\ \E v \in Venues : InsertVenue(h, v, "active", "backtest", DefaultRoute)

\* BindVenue: lock the account and count its sessions; lock the venue, compare the
\* environments, and count for the account that loses it; write and commit. The count
\* the service makes before the transaction can only refuse, which is no step.
BindVenue(h, a, v) ==
  /\ hs[h].pc = "idle"
  /\ Exists(a) /\ NoActiveSessions(a)
  /\ ~AccountLocked(a)
  /\ venues[v] # NoVenue
  /\ Start(h, "bind_venue", a, v, None, None)
  /\ UNCHANGED <<accounts, venues, sessions, snap, wallets>>

\* Slip: the environments are not compared.
BindLocksVenueAnyEnv(h) ==
  /\ hs[h].pc = "bind_venue"
  /\ ~VenueLocked(hs[h].v)
  /\ IF venues[hs[h].v].st = "active" THEN Goto(h, "bind_commit") ELSE Return(h)
  /\ UNCHANGED <<accounts, venues, sessions, snap, wallets>>

BindLocksVenue(h) ==
  /\ hs[h].pc = "bind_venue"
  /\ ~VenueLocked(hs[h].v)
  /\ LET row == venues[hs[h].v] IN
       IF /\ row.env = accounts[hs[h].a]
          /\ row.st = "active"
          /\ row.acct \notin {None, hs[h].a} => NoActiveSessions(row.acct)
       THEN Goto(h, "bind_commit")
       ELSE Return(h)
  /\ UNCHANGED <<accounts, venues, sessions, snap, wallets>>

\* The wallet row, if any, moves with the venue; a backtest venue's wallet is then
\* written again outside the transaction (attachBacktestVenueWalletState).
BindCommits(h) ==
  LET a == hs[h].a
      v == hs[h].v
  IN
  /\ hs[h].pc = "bind_commit"
  /\ IF RouteTaken(v, a, venues[v].route)
     THEN Return(h) /\ UNCHANGED <<venues, wallets>>
     ELSE /\ venues' = [venues EXCEPT ![v].acct = a]
          /\ wallets' = IF wallets[v].row THEN [wallets EXCEPT ![v].acct = a] ELSE wallets
          /\ IF venues[v].env = "backtest" THEN StartWallets(h, a, {v}) ELSE Return(h)
  /\ UNCHANGED <<accounts, sessions, snap>>

\* ReleaseVenue and ArchiveVenue lock the venue and count the sessions of its account;
\* again the service's own count can only refuse.
LockVenue(h, v) ==
  /\ hs[h].pc = "idle"
  /\ venues[v] # NoVenue
  /\ ~VenueLocked(v)
  /\ NoActiveSessions(venues[v].acct)
  /\ \E label \in {"release_commit", "archive_commit"} : Start(h, label, None, v, None, None)
  /\ UNCHANGED <<accounts, venues, sessions, snap, wallets>>

ReleaseVenue(h) ==
  /\ hs[h].pc = "release_commit"
  /\ venues' = [venues EXCEPT ![hs[h].v].acct = None]
  /\ wallets' = [wallets EXCEPT ![hs[h].v].acct = None]
  /\ Return(h)
  /\ UNCHANGED <<accounts, sessions, snap>>

ArchiveVenue(h) ==
  /\ hs[h].pc = "archive_commit"
  /\ venues' = [venues EXCEPT ![hs[h].v].st = "archived", ![hs[h].v].acct = None]
  /\ wallets' = [wallets EXCEPT ![hs[h].v] = NoWallet]
  /\ Return(h)
  /\ UNCHANGED <<accounts, sessions, snap>>

-----------------------------------------------------------------------------
(* Wallet rows, written from copies of venues listed earlier. *)

\* UpdateAccountWalletState: an active session is required only if the request names
\* one. The payload selects markets, so some of the active venues.
UpdateAccountWalletState(h, a) ==
  /\ hs[h].pc = "idle"
  /\ Exists(a)
  /\ \E set \in SUBSET ListActiveAccountVenues(a) \ {{}} : StartWallets(h, a, set)
  /\ UNCHANGED <<accounts, venues, sessions, snap, wallets>>

\* GetVenueOnlineInfo of a backtest venue without a wallet writes a default one.
GetVenueOnlineInfo(h, v) ==
  /\ hs[h].pc = "idle"
  /\ venues[v].st = "active"
  /\ venues[v].env = "backtest"
  /\ ~wallets[v].row
  /\ StartWallets(h, venues[v].acct, {v})
  /\ UNCHANGED <<accounts, venues, sessions, snap, wallets>>

UpsertVenueWalletState(h) ==
  /\ hs[h].pc = "wallet"
  /\ \E v \in hs[h].set :
       /\ wallets' = [wallets EXCEPT ![v] = [row |-> TRUE, acct |-> hs[h].a]]
       /\ hs' = IF hs[h].set = {v} THEN [hs EXCEPT ![h] = Idle] ELSE [hs EXCEPT ![h].set = @ \ {v}]
  /\ UNCHANGED <<accounts, venues, sessions, snap>>

-----------------------------------------------------------------------------
(* Sessions. *)

\* SaveSession starts a running session of a runtime; a preflight with issues saves a
\* preflight_failed one, which has no runtime. The transaction inserts the row, lists
\* the venues to capture, and commits.
\* Slip: a count of active sessions stands in for the unique index.
InsertSessionUnindexed(h, a, s, rt) ==
  /\ hs[h].pc = "idle"
  /\ Exists(a)
  /\ sessions[s] = NoSession /\ NoActiveSessions(a)
  /\ hs' = [hs EXCEPT ![h] = [pc |-> "save_commit", a |-> a, v |-> None, s |-> s, rt |-> rt,
                              set |-> ListActiveAccountVenues(a)]]
  /\ UNCHANGED <<accounts, venues, sessions, snap, wallets>>

InsertSession(h, a, s, rt) ==
  /\ hs[h].pc = "idle"
  /\ Exists(a)
  /\ ~SavePending(a, s, rt)
  /\ ~SessionConflicts(a, s, rt)
  /\ hs' = [hs EXCEPT ![h] = [pc |-> "save_commit", a |-> a, v |-> None, s |-> s, rt |-> rt,
                              set |-> listActiveAccountVenuesTx(a)]]
  /\ UNCHANGED <<accounts, venues, sessions, snap, wallets>>

SaveSession(h) ==
  /\ hs[h].pc = "save_commit"
  /\ sessions' = [sessions EXCEPT ![hs[h].s] = [st |-> SavedStatus(hs[h].rt), acct |-> hs[h].a, rt |-> hs[h].rt]]
  /\ snap' = [snap EXCEPT ![hs[h].s] = hs[h].set]
  /\ Return(h)
  /\ UNCHANGED <<accounts, venues, wallets>>

BeginUpdate(h, s) ==
  /\ hs[h].pc = "idle"
  /\ SessionActive(s)
  /\ Start(h, "update", None, None, s, None)
  /\ UNCHANGED <<accounts, venues, sessions, snap, wallets>>

\* Slip: the service's check stands in for the status condition of the UPDATE.
UpdateUnguarded(h) ==
  /\ hs[h].pc = "update"
  /\ \E st \in SessionStatuses : sessions' = [sessions EXCEPT ![hs[h].s].st = st]
  /\ Return(h)
  /\ UNCHANGED <<accounts, venues, snap, wallets>>

\* The UPDATE changes an active row only; one that names another runtime, or comes
\* too late, changes nothing.
UpdateSession(h) ==
  /\ hs[h].pc = "update"
  /\ \/ /\ SessionActive(hs[h].s)
        /\ \E st \in SessionStatuses : sessions' = [sessions EXCEPT ![hs[h].s].st = st]
     \/ UNCHANGED sessions
  /\ Return(h)
  /\ UNCHANGED <<accounts, venues, snap, wallets>>

\* One UPDATE, over the rows that are committed and active.
MarkRuntimeSessionsRecoverable(rt) ==
  /\ \E s \in Sessions : SessionActive(s) /\ sessions[s].rt = rt
  /\ sessions' = [s \in Sessions |->
                    IF SessionActive(s) /\ sessions[s].rt = rt
                    THEN [sessions[s] EXCEPT !.st = "recoverable"] ELSE sessions[s]]
  /\ UNCHANGED <<accounts, venues, snap, wallets, hs>>

\* A call fails, its context is cancelled or the process dies: the transaction is
\* rolled back, and what follows it in the handler does not happen.
Abort(h) ==
  /\ hs[h].pc # "idle"
  /\ Return(h)
  /\ UNCHANGED <<accounts, venues, sessions, snap, wallets>>

-----------------------------------------------------------------------------
Init ==
  /\ accounts = [a \in Accounts |-> "absent"]
  /\ venues = [v \in Venues |-> NoVenue]
  /\ sessions = [s \in Sessions |-> NoSession]
  /\ snap = [s \in Sessions |-> {}]
  /\ wallets = [v \in Venues |-> NoWallet]
  /\ hs = [h \in Handlers |-> Idle]
  /\ served = 0

Request(h) ==
  \/ \E a \in Accounts : PostAccount(h, a) \/ CreateAccount(h, a) \/ UpdateAccountWalletState(h, a)
  \/ \E a \in Accounts \cup {None} : BeginCreate(h, a)
  \/ \E a \in Accounts, v \in Venues : BindVenue(h, a, v)
  \/ \E v \in Venues : LockVenue(h, v) \/ GetVenueOnlineInfo(h, v)
  \/ \E a \in Accounts, s \in Sessions, rt \in Runtimes \cup {None} : InsertSession(h, a, s, rt)
  \/ \E s \in Sessions : BeginUpdate(h, s)
  \/ \E rt \in Runtimes : hs[h].pc = "idle" /\ MarkRuntimeSessionsRecoverable(rt)

HandlerStep(h) ==
  \/ CreateVenue(h) \/ createDefaultBacktestVenues(h)
  \/ BindLocksVenue(h) \/ BindCommits(h) \/ ReleaseVenue(h) \/ ArchiveVenue(h)
  \/ UpsertVenueWalletState(h)
  \/ SaveSession(h) \/ UpdateSession(h)

Next ==
  \/ /\ served < MaxRequests
     /\ served' = served + 1
     /\ \E h \in Handlers : Request(h)
  \/ /\ \E h \in Handlers : HandlerStep(h) \/ Abort(h)
     /\ UNCHANGED served

Spec == Init /\ [][Next]_vars

-----------------------------------------------------------------------------
(* Properties. *)

\* Every variable keeps its type.
VTypeOK ==
  /\ accounts \in [Accounts -> Envs \cup {"absent"}]
  /\ venues \in [Venues -> VenueRow \cup {NoVenue}]
  /\ sessions \in [Sessions -> SessionRow \cup {NoSession}]
  /\ snap \in [Sessions -> SUBSET Venues]
  /\ wallets \in [Venues -> WalletRow]
  /\ hs \in [Handlers -> BusyHandler \cup {Idle}]
  /\ served \in 0..MaxRequests

\* ResolveVenueRouteMeta has at most one answer for an account and a route, and its
\* venue is of the account's environment: no backtest order reaches a live venue.
RouteResolvesOnce ==
  \A v \in Venues : venues[v] # NoVenue /\ venues[v].acct # None =>
    /\ venues[v].env = accounts[venues[v].acct]
    /\ \A w \in Venues \ {v} :
         w \in ListActiveAccountVenues(venues[v].acct) /\ venues[v].st = "active"
           => venues[w].route # venues[v].route

\* An account has at most one active session, however saves, updates and recoveries
\* interleave.
OneActiveSession ==
  \A s, t \in Sessions :
    SessionActive(s) /\ SessionActive(t) /\ sessions[s].acct = sessions[t].acct => s = t

\* What a session captured is what an account could trade through at one moment: one
\* venue per route, all of the account's environment.
SnapshotSound ==
  \A s \in Sessions : \A v \in snap[s] :
    /\ venues[v] # NoVenue
    /\ venues[v].env = accounts[sessions[s].acct]
    /\ \A w \in snap[s] : venues[w].route = venues[v].route => w = v

\* A wallet row never names an account of another environment, although its account
\* comes from a copy of the venue that may be stale.
WalletSameEnvironment ==
  \A v \in Venues : wallets[v].row /\ wallets[v].acct # None =>
    /\ venues[v] # NoVenue
    /\ accounts[wallets[v].acct] = venues[v].env

\* A session that is over stays over and keeps the venues it captured: a late update
\* cannot revive it after its runtime was marked or it ended.
SessionIsFinal ==
  [][\A s \in Sessions :
       sessions[s] # NoSession /\ ~SessionActive(s) => ~SessionActive(s)' /\ snap'[s] = snap[s]]_vars

=============================================================================
