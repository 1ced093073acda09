------------------------------ MODULE Listings ------------------------------
(***************************************************************************)
(* What a client that reads a list page by page gets while others write.   *)
(*                                                                         *)
(* Every list RPC runs two statements, a COUNT and a page read with LIMIT  *)
(* and OFFSET, and nothing ties them, or two pages, together: rows arrive  *)
(* and leave between any two statements. Lifecycle events are read with a  *)
(* cursor instead, the event_id a sequence hands out before the row that   *)
(* carries it commits. Symbols come from a cache (SymbolCatalog).          *)
(*                                                                         *)
(* A behaviour is about one list (`kind`); one of a table is read once,    *)
(* from its first page to its last. The client, which the repository does  *)
(* not hold, follows next_offset while has_more, or offset up to total     *)
(* where a response has no has_more.                                       *)
(***************************************************************************)
EXTENDS SymbolCatalog, SequencesExt

CONSTANTS
  MaxRows,       \* rows the table may ever hold
  Facts,         \* per row: its user, account and session
  Times,         \* values of the column a list is sorted by
  DefaultLimit,  \* page size when the request names none
  MaxLimit,      \* page size no request exceeds
  Writers,       \* concurrent callers of SaveLifecycleEvent
  Events,        \* what they save: reports of trades and of order states
  MaxSaves       \* saves, and so event ids

ASSUME ListingsAssumption ==
  /\ {MaxRows, MaxSaves, MaxLimit} \subseteq Nat
  /\ DefaultLimit \in 1..MaxLimit
  /\ Times \subseteq Nat
  /\ None \notin Events \cup [time : Times, active : BOOLEAN]

Rows == 1..MaxRows
Me == Facts[1].user
MySession == Facts[1].session
MyAccount == Facts[1].account

OrderLists == {"intents", "attempts", "orders", "fills"}
PageLists == {"accounts", "venues", "strategies", "sessions"}
AuditLists == {"snapshots", "runs"}
RowLists == OrderLists \cup PageLists \cup AuditLists

VARIABLES
  kind,    \* the list this behaviour is about
  rows,    \* its table: per row the sort time, and whether it is active; None: not there
  walk,    \* the client's walk through it
  log,     \* order_lifecycle_events: committed event per event_id, or None
  nextId,  \* the event_id sequence
  saving,  \* per writer the event it saves and the id it drew, or None
  reader   \* the cursor client: its cursor and how often it got each event

rowVars == <<rows, walk>>
feedVars == <<log, nextId, saving, reader>>
listVars == <<kind, rowVars, feedVars>>
vars == <<listVars, catalogVars>>

-----------------------------------------------------------------------------
(* The lists. tie: the ORDER BY ends in a unique column; more: a row past    *)
(* the page is fetched to set has_more; countFirst: the COUNT precedes the   *)
(* page.                                                                     *)

List(tie, more, countFirst) == [tie |-> tie, more |-> more, countFirst |-> countFirst]

QueryOrderIntentsPaginated == List(TRUE, FALSE, TRUE)
QueryOrderAttemptsPaginated == List(FALSE, FALSE, TRUE)
QueryOrdersPaginated == List(FALSE, FALSE, TRUE)
QueryOrderFillsPaginated == List(FALSE, FALSE, TRUE)

ListAccountsPage == List(FALSE, TRUE, TRUE)
ListVenuesPage == List(FALSE, TRUE, TRUE)
ListStrategiesPage == List(TRUE, TRUE, TRUE)
ListSessionsPage == List(FALSE, TRUE, TRUE)

ListSessionSnapshots == List(FALSE, TRUE, FALSE)
ListReconciliationRuns == List(TRUE, TRUE, FALSE)

ListOf == [k \in RowLists |->
  CASE k = "intents" -> QueryOrderIntentsPaginated
    [] k = "attempts" -> QueryOrderAttemptsPaginated
    [] k = "orders" -> QueryOrdersPaginated
    [] k = "fills" -> QueryOrderFillsPaginated
    [] k = "accounts" -> ListAccountsPage
    [] k = "venues" -> ListVenuesPage
    [] k = "strategies" -> ListStrategiesPage
    [] k = "sessions" -> ListSessionsPage
    [] k = "snapshots" -> ListSessionSnapshots
    [] k = "runs" -> ListReconciliationRuns]

\* A page size out of range is replaced, not refused.
normalizePage(limit) ==
  IF limit <= 0 THEN DefaultLimit ELSE IF limit > MaxLimit THEN MaxLimit ELSE limit

\* The order service and the audit lists repeat it with defaults and maxima of their own.
normalizeOrderPage(limit) == normalizePage(limit)
clampAuditListLimit(limit) == normalizePage(limit)

PageSize(limit) ==
  CASE kind \in OrderLists -> normalizeOrderPage(limit)
    [] kind \in AuditLists -> clampAuditListLimit(limit)
    [] OTHER -> normalizePage(limit)

-----------------------------------------------------------------------------
(* Which rows a request selects. account, session: None when not named;      *)
(* active: only active ones.                                                 *)

\* Orders and what hangs below them: a session, when named, replaces the account.
buildIntentScopedWhere(q, f) ==
  /\ f.user = Me
  /\ IF q.session # None THEN f.session = q.session ELSE q.account \in {None, f.account}

\* Venues and sessions narrow by account; a session-scoped list by session.
OwnedWhere(q, f) ==
  /\ f.user = Me
  /\ q.account \in {None, f.account}
  /\ q.session \in {None, f.session}

Selects(q, r) ==
  /\ rows[r] # None
  /\ IF kind \in OrderLists THEN buildIntentScopedWhere(q, Facts[r])
     ELSE OwnedWhere(q, Facts[r]) /\ (q.active => rows[r].active)

Scope(q) == {r \in Rows : Selects(q, r)}

Ask(accounts, sessions, actives, limits) ==
  [account : accounts, session : sessions, active : actives, limit : limits]

QueryOrdersRequests == Ask({None, MyAccount}, {None, MySession}, {FALSE}, {1, MaxLimit + 1})
ListAccountsRequests == Ask({None}, {None}, {FALSE}, {0, 1})
ListVenuesRequests == Ask({None, MyAccount}, {None}, BOOLEAN, {1, MaxLimit + 1})
ListStrategiesRequests == Ask({None}, {None}, BOOLEAN, {0, 1})
ListSessionsRequests == Ask({None, MyAccount}, {None}, BOOLEAN, {1, MaxLimit + 1})
ListSnapshotsRequests == Ask({None}, {MySession}, {FALSE}, {1, MaxLimit + 1})
ListRunsRequests == Ask({None}, {MySession}, {FALSE}, {1, MaxLimit + 1})

Requests ==
  CASE kind \in OrderLists -> QueryOrdersRequests
    [] kind = "accounts" -> ListAccountsRequests
    [] kind = "venues" -> ListVenuesRequests
    [] kind = "strategies" -> ListStrategiesRequests
    [] kind = "sessions" -> ListSessionsRequests
    [] kind = "snapshots" -> ListSnapshotsRequests
    [] kind = "runs" -> ListRunsRequests
    [] OTHER -> {}

\* The orders a page read may see: newest first, ties by id or any way round.
Sorted(s, tie) ==
  \A i, j \in 1..Len(s) : i < j =>
    \/ rows[s[i]].time > rows[s[j]].time
    \/ rows[s[i]].time = rows[s[j]].time /\ (tie => s[i] > s[j])

Orderings(q) == {s \in SetToSeqs(Scope(q)) : Sorted(s, ListOf[kind].tie)}

-----------------------------------------------------------------------------
(* The walk. *)

NoWalk == [pc |-> "idle", q |-> None, offset |-> 0, total |-> 0, more |-> FALSE, page |-> {},
           seen |-> {}, base |-> {}, disturbed |-> FALSE]

FirstStatement == IF ListOf[kind].countFirst THEN "count" ELSE "page"

\* ListAccounts and ListStrategies read the whole list when no page is asked for.
Unpaged(q) == kind \in {"accounts", "strategies"} /\ q.limit <= 0

Begin(q) ==
  /\ kind \in RowLists
  /\ walk.pc = "idle"
  /\ walk' = [NoWalk EXCEPT !.pc = IF Unpaged(q) THEN "all" ELSE FirstStatement, !.q = q, !.base = Scope(q)]
  /\ UNCHANGED <<kind, rows, feedVars>>

ReadAll ==
  /\ walk.pc = "all"
  /\ walk' = [walk EXCEPT !.pc = "done", !.seen = Scope(walk.q), !.total = Cardinality(Scope(walk.q))]
  /\ UNCHANGED <<kind, rows, feedVars>>

ListAccounts == kind = "accounts" /\ ReadAll
ListStrategies == kind = "strategies" /\ ReadAll

\* Slip: the offset counts the row that was fetched only to set has_more.
NextOffsetOfFetched(offset, n, more) == offset + n + (IF more THEN 1 ELSE 0)

\* next_offset, or what the client adds up from the page it got.
NextOffset(offset, n, more) == offset + n

\* The response, once both statements have run.
Reply(w) ==
  LET next == NextOffset(w.offset, Cardinality(w.page), w.more)
      goOn == IF ListOf[kind].more THEN w.more ELSE next < w.total /\ w.page # {}
  IN [w EXCEPT !.pc = IF goOn THEN FirstStatement ELSE "done", !.seen = @ \cup w.page,
               !.offset = next]

Count ==
  /\ walk.pc = "count"
  /\ LET w == [walk EXCEPT !.total = Cardinality(Scope(walk.q))] IN
       walk' = IF ListOf[kind].countFirst THEN [w EXCEPT !.pc = "page"] ELSE Reply(w)
  /\ UNCHANGED <<kind, rows, feedVars>>

\* The page statement; a list with has_more fetches one row more than it returns.
ReadPage ==
  /\ walk.pc = "page"
  /\ \E s \in Orderings(walk.q) :
       LET last == walk.offset + PageSize(walk.q.limit)
           page == {s[i] : i \in (walk.offset + 1)..last \cap DOMAIN s}
           w == [walk EXCEPT !.page = page, !.more = ListOf[kind].more /\ Len(s) > last]
       IN walk' = IF ListOf[kind].countFirst THEN Reply(w) ELSE [w EXCEPT !.pc = "count"]
  /\ UNCHANGED <<kind, rows, feedVars>>

-----------------------------------------------------------------------------
(* The writers of the table. What they do once the walk is over is left out. *)

Walking == walk.pc \notin {"idle", "done"}

\* Order rows carry the market time of the request, which in a backtest is any time;
\* other rows are stamped with the clock. A snapshot's time is unique in its account.
SortTimes(r) ==
  {t \in Times :
    \/ kind \in OrderLists
    \/ /\ \A s \in Rows : rows[s] # None => rows[s].time <= t
       /\ kind = "snapshots" =>
            \A s \in Rows : rows[s] # None /\ Facts[s].account = Facts[r].account => rows[s].time # t}

\* Lists whose rows are numbered by the database.
Serial == {"accounts", "venues", "strategies"}

\* A row arrives. Between the COUNT and the page of a list read by its total, it pushes
\* a row past the end the client believes in.
InsertRow(r, t) ==
  /\ kind \in RowLists
  /\ walk.pc # "done"
  /\ rows[r] = None
  /\ kind \in Serial => \A s \in 1..(r - 1) : rows[s] # None
  /\ t \in SortTimes(r)
  /\ rows' = [rows EXCEPT ![r] = [time |-> t, active |-> TRUE]]
  /\ walk' = IF walk.pc = "page" /\ ~ListOf[kind].more THEN [walk EXCEPT !.disturbed = TRUE] ELSE walk
  /\ UNCHANGED <<kind, feedVars>>

\* A strategy is archived, a venue archived or a session ends: it leaves the lists of
\* active ones, and what follows it moves up.
DeactivateRow(r) ==
  /\ kind \in {"strategies", "venues", "sessions"}
  /\ walk.pc # "done"
  /\ rows[r] # None
  /\ rows[r].active
  /\ rows' = [rows EXCEPT ![r].active = FALSE]
  /\ walk' = IF Walking /\ walk.q.active
             THEN [walk EXCEPT !.base = @ \ {r}, !.disturbed = TRUE] ELSE walk
  /\ UNCHANGED <<kind, feedVars>>

-----------------------------------------------------------------------------
(* Lifecycle events. Each save is one statement: it draws its event_id when  *)
(* it starts and its row appears when it commits.                            *)

\* A fill is known by its order and trade, whoever reports it; an order state by the
\* status it reports and the time it reports it for.
EventIdentityKey(e) ==
  IF e.trade # None THEN <<"trade", e.order, e.trade>> ELSE <<"state", e.order, e.status, e.at>>

Identities == {EventIdentityKey(e) : e \in Events}

DrawEventId(w, e) ==
  /\ kind = "events"
  /\ saving[w] = None
  /\ nextId <= MaxSaves
  /\ saving' = [saving EXCEPT ![w] = [id |-> nextId, event |-> e]]
  /\ nextId' = nextId + 1
  /\ UNCHANGED <<kind, rowVars, log, reader>>

\* Slip: no conflict target, every save is a row.
SaveAlwaysInserts(w) ==
  /\ saving[w] # None
  /\ log' = [log EXCEPT ![saving[w].id] = saving[w].event]
  /\ saving' = [saving EXCEPT ![w] = None]
  /\ UNCHANGED <<kind, rowVars, nextId, reader>>

\* ON CONFLICT DO UPDATE: an event that is there takes the new facts and keeps its
\* event_id; the drawn one is lost.
SaveLifecycleEvent(w) ==
  /\ saving[w] # None
  /\ LET e == saving[w].event
         same == {i \in 1..MaxSaves : log[i] # None /\ EventIdentityKey(log[i]) = EventIdentityKey(e)}
     IN log' = [i \in 1..MaxSaves |->
                  IF i \in same \/ (same = {} /\ i = saving[w].id) THEN e ELSE log[i]]
  /\ saving' = [saving EXCEPT ![w] = None]
  /\ UNCHANGED <<kind, rowVars, nextId, reader>>

\* The statement fails; its id is lost.
SaveFails(w) ==
  /\ saving[w] # None
  /\ saving' = [saving EXCEPT ![w] = None]
  /\ UNCHANGED <<kind, rowVars, log, nextId, reader>>

\* The session's events past the cursor, oldest id first.
ListLifecycleEvents(limit) ==
  LET ids == {i \in 1..MaxSaves : i > reader.after /\ log[i] # None /\ log[i].session = MySession}
  IN {i \in ids : Cardinality({j \in ids : j < i}) < normalizeOrderPage(limit)}

\* The client asks on from the last event it got.
PollEvents(limit) ==
  /\ kind = "events"
  /\ LET ids == ListLifecycleEvents(limit) IN
       /\ ids # {}
       /\ reader' = [after |-> Max(ids),
                     got |-> [k \in Identities |->
                                reader.got[k] + Cardinality({i \in ids : EventIdentityKey(log[i]) = k})]]
  /\ UNCHANGED <<kind, rowVars, log, nextId, saving>>

-----------------------------------------------------------------------------
Init ==
  /\ kind \in RowLists \cup {"events", "symbols"}
  /\ rows = [r \in Rows |-> None]
  /\ walk = NoWalk
  /\ log = [i \in 1..MaxSaves |-> None]
  /\ nextId = 1
  /\ saving = [w \in Writers |-> None]
  /\ reader = [after |-> 0, got |-> [k \in Identities |-> 0]]
  /\ CatalogInit

ListNext ==
  \/ \E q \in Requests : Begin(q)
  \/ ListAccounts \/ ListStrategies \/ Count \/ ReadPage
  \/ \E r \in Rows, t \in Times : InsertRow(r, t)
  \/ \E r \in Rows : DeactivateRow(r)
  \/ \E w \in Writers : SaveLifecycleEvent(w) \/ SaveFails(w) \/ \E e \in Events : DrawEventId(w, e)
  \/ \E limit \in {0, 1, MaxLimit + 1} : PollEvents(limit)

Next ==
  \/ ListNext /\ UNCHANGED catalogVars
  \/ kind = "symbols" /\ CatalogNext /\ UNCHANGED listVars

Spec == Init /\ [][Next]_vars

-----------------------------------------------------------------------------
(* Properties. *)

\* The list puts r after every other row or before it, the same way each time.
Placed(r) ==
  ListOf[kind].tie \/ \A s \in Rows \ {r} : rows[s] # None => rows[s].time # rows[r].time

\* A walk to the last page returns every row that was there from its first page on,
\* whatever arrived meanwhile: rows are lost only when another row leaves the list,
\* when one arrives between the COUNT and the page of a list that ends at its total, or
\* when they share their sort time in a list that does not break ties.
WalkComplete ==
  walk.pc = "done" /\ ~walk.disturbed => \A r \in walk.base : Placed(r) => r \in walk.seen

\* A client that follows the cursor gets no fill twice, although handler, scanner and
\* websocket may all save it, before and after the client has read it.
FeedAtMostOnce == \A k \in Identities : reader.got[k] <= 1

=============================================================================
