------------------------------ MODULE Strategies ------------------------------
(***************************************************************************)
(* The account service's users and strategies: who owns a strategy, which  *)
(* strategies are mounted on an account and which one of them is active,   *)
(* and the preflight that a caller makes before it starts a session.       *)
(*                                                                         *)
(* A caller is one RPC. Statements run under READ COMMITTED: an UPDATE     *)
(* sees the rows that are committed when it starts, waits for the row      *)
(* locks on them, and changes those that still exist; a transaction's      *)
(* writes appear at its commit. Strategies are never deleted or changed,   *)
(* only archived, so the reads of their owner share a step with what       *)
(* follows them.                                                           *)
(***************************************************************************)
EXTENDS Naturals, FiniteSets

CONSTANTS
  Callers,    \* goroutines that serve RPCs
  Users,      \* user ids
  Spellings,  \* usernames as a caller may write them
  normalizeUsername, \* the name a spelling stands for: lower case, trimmed; None if invalid
  Passwords,
  Accounts,   \* account ids
  OwnerOf,    \* the user of an account
  Strats,     \* strategy ids
  Labels,     \* (name, version) pairs
  Sessions,   \* session ids, chosen by the caller
  Routes,     \* (exchange, market) pairs
  MaxCalls,   \* bound on the RPCs
  None        \* NULL

Names == {normalizeUsername[sp] : sp \in Spellings} \ {None}

ASSUME StrategyConstants ==
  /\ OwnerOf \in [Accounts -> Users]
  /\ DOMAIN normalizeUsername = Spellings
  /\ MaxCalls \in Nat
  /\ None \notin Users \cup Accounts \cup Strats \cup Sessions \cup Passwords

VARIABLES
  users,     \* the users table: name and password
  strats,    \* the strategies table
  mounts,    \* account_strategies: "none", "mounted" or "active"
  venues,    \* the routes of an account that have an active venue
  sessions,  \* strategy_sessions
  cs,        \* the local state of every caller, and its last answer
  calls      \* RPCs so far

vars == <<users, strats, mounts, venues, sessions, cs, calls>>

NoUser == [name |-> None, pw |-> None]
NoStrategy == [owner |-> None, label |-> None, archived |-> FALSE]
NoSession == [st |-> "absent", acct |-> None, code |-> "none"]

Issues == {"none", "ACTIVE_SESSION_EXISTS", "VENUE_MISSING", "symbol_rules_missing"}

\* A caller's locals: account, strategy and session; rows: the mounts its transaction
\* saw or holds; todo: routes to resolve; issue: the first issue met; quiet: neither
\* the venues nor the sessions of the account have changed since the call began.
PCs == {"idle", "mount", "unmount", "clear", "set", "routes", "symbols", "verdict"}
Answers == {"none", "ok", "issues", "error", "valid", "invalid"}
Caller == [pc : PCs, a : Accounts \cup {None}, s : Strats \cup {None}, sess : Sessions \cup {None},
           rows : SUBSET Strats, want : SUBSET Routes, todo : SUBSET Routes, issue : Issues,
           quiet : BOOLEAN, ans : Answers]
Idle == [pc |-> "idle", a |-> None, s |-> None, sess |-> None, rows |-> {}, want |-> {},
         todo |-> {}, issue |-> "none", quiet |-> TRUE, ans |-> "none"]

Return(c, ans) == cs' = [cs EXCEPT ![c] = [@ EXCEPT !.pc = "idle", !.ans = ans]]
Answer(c, ans) == cs' = [cs EXCEPT ![c] = [Idle EXCEPT !.ans = ans]]
Begin(c, label, a, s, rows) ==
  cs' = [cs EXCEPT ![c] = [Idle EXCEPT !.pc = label, !.a = a, !.s = s, !.rows = rows]]

tables == <<users, strats, mounts, venues, sessions>>

-----------------------------------------------------------------------------
(* Users. *)

\* One INSERT; usernames are unique.
CreateUser(c, sp, pw) ==
  LET name == normalizeUsername[sp] IN
  /\ name # None
  /\ \A u \in Users : users[u].name # name
  /\ \E u \in Users : users[u] = NoUser /\ users' = [users EXCEPT ![u] = [name |-> name, pw |-> pw]]
  /\ Answer(c, "ok")
  /\ UNCHANGED <<strats, mounts, venues, sessions>>

\* An unknown name and a wrong password have the same answer.
VerifyUserPassword(c, sp, pw) ==
  /\ normalizeUsername[sp] # None
  /\ Answer(c, IF [name |-> normalizeUsername[sp], pw |-> pw] \in {users[u] : u \in Users}
               THEN "valid" ELSE "invalid")
  /\ UNCHANGED tables

-----------------------------------------------------------------------------
(* Strategies. *)

\* (user, name, version) is unique.
CreateStrategy(c, u, s, label) ==
  /\ users[u] # NoUser
  /\ strats[s] = NoStrategy
  /\ \A t \in Strats : ~(strats[t].owner = u /\ strats[t].label = label)
  /\ strats' = [strats EXCEPT ![s] = [owner |-> u, label |-> label, archived |-> FALSE]]
  /\ Answer(c, "ok")
  /\ UNCHANGED <<users, mounts, venues, sessions>>

GetStrategy(s, u) == strats[s] # NoStrategy /\ strats[s].owner = u

GetAccount(a, u) == OwnerOf[a] = u

ArchiveStrategy(c, u, s) ==
  /\ GetStrategy(s, u)
  /\ strats' = [strats EXCEPT ![s].archived = TRUE]
  /\ Answer(c, "ok")
  /\ UNCHANGED <<users, mounts, venues, sessions>>

-----------------------------------------------------------------------------
(* Mounts. *)

Mounted(a) == {s \in Strats : mounts[a][s] # "none"}
Active(a) == {s \in Strats : mounts[a][s] = "active"}

\* A transaction that has cleared the account's rows holds their locks.
Locked(a, s) == \E c \in Callers : cs[c].pc = "set" /\ cs[c].a = a /\ s \in cs[c].rows

\* The strategy is read and found not archived; the row is inserted in a statement of
\* its own, if it is not there.
BeginMount(c, u, a, s) ==
  /\ GetAccount(a, u)
  /\ GetStrategy(s, u)
  /\ ~strats[s].archived
  /\ Begin(c, "mount", a, s, {})
  /\ UNCHANGED tables

MountStrategy(c) ==
  /\ cs[c].pc = "mount"
  /\ mounts' = IF cs[c].s \in Mounted(cs[c].a) THEN mounts
               ELSE [mounts EXCEPT ![cs[c].a][cs[c].s] = "mounted"]
  /\ Answer(c, "ok")
  /\ UNCHANGED <<users, strats, venues, sessions>>

\* The active strategy is refused, if the read that looks for it succeeds.
BeginUnmount(c, u, a, s) ==
  /\ GetAccount(a, u)
  /\ GetStrategy(s, u)
  /\ \E readFails \in BOOLEAN : readFails \/ s \notin Active(a)
  /\ Begin(c, "unmount", a, s, {})
  /\ UNCHANGED tables

UnmountStrategy(c) ==
  /\ cs[c].pc = "unmount"
  /\ ~Locked(cs[c].a, cs[c].s)
  /\ mounts' = [mounts EXCEPT ![cs[c].a][cs[c].s] = "none"]
  /\ Answer(c, IF cs[c].s \in Mounted(cs[c].a) THEN "ok" ELSE "error")
  /\ UNCHANGED <<users, strats, venues, sessions>>

\* ActivateStrategy, one transaction. The first UPDATE sees the rows of the account...
BeginActivate(c, u, a, s) ==
  /\ GetAccount(a, u)
  /\ GetStrategy(s, u)
  /\ Begin(c, "clear", a, s, Mounted(a))
  /\ UNCHANGED tables

\* ... locks those that still exist and clears them...
ActivateClears(c) ==
  /\ cs[c].pc = "clear"
  /\ \A s \in cs[c].rows : ~Locked(cs[c].a, s)
  /\ cs' = [cs EXCEPT ![c].pc = "set", ![c].rows = @ \cap Mounted(cs[c].a)]
  /\ UNCHANGED tables

\* Slip: no unique index.
ActivateUnindexed(c) ==
  LET a == cs[c].a
      s == cs[c].s
  IN
  /\ cs[c].pc = "set"
  /\ s \in cs[c].rows \/ ~Locked(a, s)
  /\ IF s \in Mounted(a)
     THEN /\ mounts' = [mounts EXCEPT ![a] = [t \in Strats |->
                          IF t = s THEN "active" ELSE IF t \in cs[c].rows THEN "mounted" ELSE mounts[a][t]]]
          /\ Answer(c, "ok")
     ELSE Answer(c, "error") /\ UNCHANGED mounts
  /\ UNCHANGED <<users, strats, venues, sessions>>

\* ... and the second UPDATE sets the target and commits. A row mounted or activated
\* after the first one looked is not cleared: uidx_account_strategies_active refuses
\* the second active row.
ActivateStrategy(c) ==
  LET a == cs[c].a
      s == cs[c].s
  IN
  /\ cs[c].pc = "set"
  /\ s \in cs[c].rows \/ ~Locked(a, s)
  /\ IF s \in Mounted(a) /\ Active(a) \subseteq cs[c].rows \cup {s}
     THEN /\ mounts' = [mounts EXCEPT ![a] = [t \in Strats |->
                          IF t = s THEN "active" ELSE IF t \in cs[c].rows THEN "mounted" ELSE mounts[a][t]]]
          /\ Answer(c, "ok")
     ELSE Answer(c, "error") /\ UNCHANGED mounts
  /\ UNCHANGED <<users, strats, venues, sessions>>

DeactivateStrategy(c, u, a, s) ==
  /\ GetAccount(a, u)
  /\ GetStrategy(s, u)
  /\ s \in Mounted(a)
  /\ ~Locked(a, s)
  /\ mounts' = [mounts EXCEPT ![a][s] = "mounted"]
  /\ Answer(c, "ok")
  /\ UNCHANGED <<users, strats, venues, sessions>>

-----------------------------------------------------------------------------
(* Sessions and their preflight. *)

ActiveSessions(a) == {x \in Sessions : sessions[x].st = "running" /\ sessions[x].acct = a}

\* What another caller or a runtime does to an account is noticed by the calls that
\* look at it.
Disturb(a) ==
  cs' = [c \in Callers |-> IF cs[c].a = a THEN [cs[c] EXCEPT !.quiet = FALSE] ELSE cs[c]]

\* BindVenue, ReleaseVenue: refused while a session is active.
VenueChanges(a, r) ==
  /\ ActiveSessions(a) = {}
  /\ venues' = [venues EXCEPT ![a] = IF r \in @ THEN @ \ {r} ELSE @ \cup {r}]
  /\ Disturb(a)
  /\ UNCHANGED <<users, strats, mounts, sessions>>

\* SaveSession of a runtime.
StartSession(a, x) ==
  /\ sessions[x] = NoSession
  /\ ActiveSessions(a) = {}
  /\ sessions' = [sessions EXCEPT ![x] = [st |-> "running", acct |-> a, code |-> "none"]]
  /\ Disturb(a)
  /\ UNCHANGED <<users, strats, mounts, venues>>

EndSession(x) ==
  /\ sessions[x].st = "running"
  /\ sessions' = [sessions EXCEPT ![x].st = "ended"]
  /\ Disturb(sessions[x].acct)
  /\ UNCHANGED <<users, strats, mounts, venues>>

\* The sessions of the account are counted.
PreflightStrategySession(c, u, a, x, want) ==
  /\ GetAccount(a, u)
  /\ cs' = [cs EXCEPT ![c] = [Idle EXCEPT !.pc = "routes", !.a = a, !.sess = x, !.want = want, !.todo = want,
                              !.issue = IF ActiveSessions(a) = {} THEN "none" ELSE "ACTIVE_SESSION_EXISTS"]]
  /\ UNCHANGED tables

\* The first issue is the one that is stored.
Note(c, code) == IF cs[c].issue = "none" THEN code ELSE cs[c].issue

\* Slip: a route without a venue is passed over.
ResolveRouteLax(c) ==
  /\ cs[c].pc = "routes"
  /\ \/ \E r \in cs[c].todo : cs' = [cs EXCEPT ![c].todo = @ \ {r}]
     \/ cs[c].todo = {} /\ cs' = [cs EXCEPT ![c].pc = "symbols"]
  /\ UNCHANGED tables

\* ResolveVenueRouteMeta for every required route, one at a time.
ResolveRoute(c) ==
  /\ cs[c].pc = "routes"
  /\ \/ \E r \in cs[c].todo :
          cs' = [cs EXCEPT ![c].todo = @ \ {r},
                           ![c].issue = IF r \in venues[cs[c].a] THEN @ ELSE Note(c, "VENUE_MISSING")]
     \/ cs[c].todo = {} /\ cs' = [cs EXCEPT ![c].pc = "symbols"]
  /\ UNCHANGED tables

\* ReadSymbolRules, at the exchange: the rules hold every required symbol, or the
\* reader is missing, fails or omits one.
ReadSymbolRules(c) ==
  /\ cs[c].pc = "symbols"
  /\ \E code \in {cs[c].issue, Note(c, "symbol_rules_missing")} :
       cs' = [cs EXCEPT ![c].pc = "verdict", ![c].issue = code]
  /\ UNCHANGED tables

FailedSession(c) == [st |-> "preflight_failed", acct |-> cs[c].a, code |-> cs[c].issue]

\* Slip: the caller is answered although the row was not stored.
VerdictBestEffort(c) ==
  /\ cs[c].pc = "verdict"
  /\ Return(c, IF cs[c].issue = "none" THEN "ok" ELSE "issues")
  /\ sessions' = IF cs[c].issue # "none" /\ cs[c].sess # None /\ sessions[cs[c].sess] = NoSession
                 THEN [sessions EXCEPT ![cs[c].sess] = FailedSession(c)] ELSE sessions
  /\ UNCHANGED <<users, strats, mounts, venues>>

\* savePreflightFailedSession: a verdict with issues and a session id is stored first;
\* a row with that id makes the call fail.
savePreflightFailedSession(c) ==
  /\ cs[c].pc = "verdict"
  /\ IF cs[c].issue = "none" \/ cs[c].sess = None
     THEN Return(c, IF cs[c].issue = "none" THEN "ok" ELSE "issues") /\ UNCHANGED sessions
     ELSE IF sessions[cs[c].sess] # NoSession
     THEN Return(c, "error") /\ UNCHANGED sessions
     ELSE /\ Return(c, "issues")
          /\ sessions' = [sessions EXCEPT ![cs[c].sess] = FailedSession(c)]
  /\ UNCHANGED <<users, strats, mounts, venues>>

\* A statement fails or its context is cancelled: the transaction is rolled back.
Abort(c) ==
  /\ cs[c].pc # "idle"
  /\ Return(c, "error")
  /\ UNCHANGED tables

-----------------------------------------------------------------------------
\* The users of the accounts exist.
Init ==
  /\ users \in [Users -> [name : Names, pw : Passwords] \cup {NoUser}]
  /\ \A u \in Users : (users[u] # NoUser) = (u \in {OwnerOf[a] : a \in Accounts})
  /\ \A u, w \in Users : users[u].name = users[w].name /\ users[u] # NoUser => u = w
  /\ strats = [s \in Strats |-> NoStrategy]
  /\ mounts = [a \in Accounts |-> [s \in Strats |-> "none"]]
  /\ venues = [a \in Accounts |-> {}]
  /\ sessions = [x \in Sessions |-> NoSession]
  /\ cs = [c \in Callers |-> Idle]
  /\ calls = 0

StrategyRequest(c, u, s) ==
  \/ \E label \in Labels : CreateStrategy(c, u, s, label)
  \/ ArchiveStrategy(c, u, s)
  \/ \E a \in Accounts :
       BeginMount(c, u, a, s) \/ BeginUnmount(c, u, a, s) \/ BeginActivate(c, u, a, s)
         \/ DeactivateStrategy(c, u, a, s)

Request(c) ==
  /\ cs[c].pc = "idle"
  /\ \/ \E sp \in Spellings, pw \in Passwords : CreateUser(c, sp, pw) \/ VerifyUserPassword(c, sp, pw)
     \/ \E u \in Users, s \in Strats : StrategyRequest(c, u, s)
     \/ \E u \in Users, a \in Accounts, x \in Sessions \cup {None}, want \in SUBSET Routes :
          PreflightStrategySession(c, u, a, x, want)

CallerStep(c) ==
  \/ MountStrategy(c) \/ UnmountStrategy(c) \/ ActivateClears(c) \/ ActivateStrategy(c)
  \/ ResolveRoute(c) \/ ReadSymbolRules(c) \/ savePreflightFailedSession(c)
  \/ Abort(c)

Elsewhere ==
  \/ \E a \in Accounts, r \in Routes : VenueChanges(a, r)
  \/ \E a \in Accounts, x \in Sessions : StartSession(a, x)
  \/ \E x \in Sessions : EndSession(x)

Next ==
  \/ calls < MaxCalls /\ calls' = calls + 1 /\ \E c \in Callers : Request(c)
  \/ calls < MaxCalls /\ calls' = calls + 1 /\ Elsewhere
  \/ calls' = calls /\ \E c \in Callers : CallerStep(c)

Spec == Init /\ [][Next]_vars

-----------------------------------------------------------------------------
(* Properties. *)

\* However activations, mounts and unmounts overlap, an account runs at most one
\* strategy, and it only ever has strategies of its own user mounted.
MountsSound ==
  \A a \in Accounts : /\ Cardinality(Active(a)) <= 1
                      /\ \A s \in Mounted(a) : strats[s].owner = OwnerOf[a]

\* A caller that was told of issues finds them stored under its session id, and what
\* is stored is what it was told first.
FailureRecorded ==
  \A c \in Callers :
    cs[c].pc = "idle" /\ cs[c].ans = "issues" /\ cs[c].sess # None
      => sessions[cs[c].sess] = FailedSession(c)

\* If nothing happened to the account since the call began, an account that passed its
\* preflight can start a session that has a venue for every required route.
PassedCanStart ==
  \A c \in Callers :
    cs[c].pc = "idle" /\ cs[c].ans = "ok" /\ cs[c].a # None /\ cs[c].quiet
      => ActiveSessions(cs[c].a) = {} /\ cs[c].want \subseteq venues[cs[c].a]

=============================================================================
