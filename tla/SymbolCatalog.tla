---------------------------- MODULE SymbolCatalog ----------------------------
(***************************************************************************)
(* The symbol lists the service keeps in memory, one per market. A list is *)
(* fetched from the exchange when it is asked for and older than a TTL;    *)
(* one call fetches at a time, behind a mutex of the market, and the       *)
(* others wait for it. Every step between two locks is an action.          *)
(*                                                                         *)
(* A symbol is a number, in the order of the names. The exchange lists     *)
(* other symbols as time goes by.                                          *)
(***************************************************************************)
EXTENDS Integers, FiniteSets, Sequences

CONSTANTS
  Readers,        \* concurrent ListSymbols calls
  SymbolInfo,     \* per symbol of the exchange its quote asset and kind of contract
  Trading,        \* the sets of symbols the exchange may have trading
  Spellings,      \* markets as requests spell them
  Queries,        \* names requests search for, None for every name
  TTL,            \* how long a list is served without asking again
  Timeout,        \* the longest a fetch lasts
  MaxClock,       \* bound on the clock
  SymbolDefault,  \* symbols returned when the request names no number
  SymbolMax,      \* number a request may name
  None

Universes == {"spot", "usdm_futures"}

ASSUME CatalogAssumption ==
  /\ {TTL, Timeout, MaxClock, SymbolMax} \subseteq Nat
  /\ SymbolDefault \in 1..SymbolMax
  /\ \A symbols \in Trading : symbols \subseteq DOMAIN SymbolInfo
  /\ None \notin Readers \cup Universes

VARIABLES
  clock,
  listed,      \* what the exchange had trading at each time so far
  cache,       \* per market the list and when it was stored
  refreshing,  \* per market the call that holds the refresh mutex, or None
  reading      \* the calls

catalogVars == <<clock, listed, cache, refreshing, reading>>

ParseMarket(spelling) ==
  CASE spelling = "spot" -> "spot"
    [] spelling \in {"usdm_futures", "futures", "usdm"} -> "usdm_futures"
    [] OTHER -> None

-----------------------------------------------------------------------------
(* What a fetch returns and what a call shows of it. *)

fetchSpotSymbolsHTTP(symbols) == {s \in symbols : SymbolInfo[s].quote = "USDT"}
fetchFuturesSymbolsHTTP(symbols) ==
  {s \in symbols : SymbolInfo[s].quote = "USDT" /\ SymbolInfo[s].contract = "PERPETUAL"}

Fetch(m, symbols) == IF m = "spot" THEN fetchSpotSymbolsHTTP(symbols) ELSE fetchFuturesSymbolsHTTP(symbols)

\* A number out of range, too large a one included, is replaced by the default.
SymbolLimit(limit) == IF limit <= 0 \/ limit > SymbolMax THEN SymbolDefault ELSE limit

\* The first ones whose name contains the query. Here a name contains itself only.
filterSymbols(all, query, limit) ==
  LET hits == {s \in all : query \in {None, s}}
  IN  {s \in hits : Cardinality({t \in hits : t < s}) < SymbolLimit(limit)}

-----------------------------------------------------------------------------
(* A call: what it asks for, the copy of the cache it holds, the list it has *)
(* fetched and when it last decided whether to ask the exchange.             *)

NoCall == [pc |-> "idle", m |-> None, query |-> None, limit |-> 0, list |-> {}, fresh |-> {},
           checked |-> 0, stale |-> FALSE]

NeedRefresh(m) == cache[m].list = {} \/ clock - cache[m].at > TTL

\* The call copies the cache and decides by the clock.
Look(m, call, otherwise) ==
  [call EXCEPT !.list = cache[m].list, !.checked = clock, !.pc = IF NeedRefresh(m) THEN otherwise ELSE "answer"]

ListSymbols(r, spelling, query, limit) ==
  LET m == ParseMarket(spelling)
  IN  /\ reading[r].pc = "idle"
      /\ m # None
      /\ reading' = [reading EXCEPT ![r] = Look(m, [NoCall EXCEPT !.m = m, !.query = query, !.limit = limit], "lock")]
      /\ UNCHANGED <<clock, listed, cache, refreshing>>

\* Slip: the cache is not looked at again once the mutex is held.
RefreshUnchecked(r) ==
  /\ reading[r].pc = "lock"
  /\ refreshing[reading[r].m] = None
  /\ refreshing' = [refreshing EXCEPT ![reading[r].m] = r]
  /\ reading' = [reading EXCEPT ![r].pc = "fetch", ![r].checked = clock]
  /\ UNCHANGED <<clock, listed, cache>>

\* With the mutex held the cache is looked at again.
Refresh(r) ==
  /\ reading[r].pc = "lock"
  /\ refreshing[reading[r].m] = None
  /\ refreshing' = [refreshing EXCEPT ![reading[r].m] = r]
  /\ reading' = [reading EXCEPT ![r] = Look(@.m, @, "fetch")]
  /\ UNCHANGED <<clock, listed, cache>>

\* The exchange answers ...
FetchAnswers(r) ==
  /\ reading[r].pc = "fetch"
  /\ reading' = [reading EXCEPT ![r].pc = "store", ![r].fresh = Fetch(reading[r].m, listed[clock])]
  /\ UNCHANGED <<clock, listed, cache, refreshing>>

\* ... and its list replaces the cached one, unless it is empty.
Store(r) ==
  LET m == reading[r].m
  IN  /\ reading[r].pc = "store"
      /\ reading[r].fresh # {}
      /\ cache' = [cache EXCEPT ![m] = [list |-> reading[r].fresh, at |-> clock]]
      /\ reading' = [reading EXCEPT ![r].pc = "answer", ![r].list = reading[r].fresh]
      /\ UNCHANGED <<clock, listed, refreshing>>

\* Slip: a failed fetch is not reported.
OldListUnflagged(r) == reading' = [reading EXCEPT ![r].pc = "answer"]

\* A call that got no list falls back on its copy and says so. Without a copy it fails,
\* or, when the exchange's list was empty, returns an empty one.
OldList(r) == reading' = [reading EXCEPT ![r].pc = "answer", ![r].stale = @ \/ reading[r].list # {}]

FetchFails(r) ==
  /\ reading[r].pc = "fetch" \/ (reading[r].pc = "store" /\ reading[r].fresh = {})
  /\ OldList(r)
  /\ UNCHANGED <<clock, listed, cache, refreshing>>

\* The call returns, which releases the mutex it holds.
Answer(r) ==
  /\ reading[r].pc = "answer"
  /\ reading' = [reading EXCEPT ![r] = NoCall]
  /\ refreshing' = [m \in Universes |-> IF refreshing[m] = r THEN None ELSE refreshing[m]]
  /\ UNCHANGED <<clock, listed, cache>>

\* Time passes, though no fetch lasts longer than the HTTP client lets it.
Elapse ==
  /\ clock < MaxClock
  /\ \A r \in Readers : reading[r].pc \in {"fetch", "store"} => clock < reading[r].checked + Timeout
  /\ clock' = clock + 1
  /\ \E symbols \in Trading : listed' = Append(listed, symbols)
  /\ UNCHANGED <<cache, refreshing, reading>>

-----------------------------------------------------------------------------
CatalogInit ==
  /\ clock = 1
  /\ listed = <<DOMAIN SymbolInfo>>
  /\ cache = [m \in Universes |-> [list |-> {}, at |-> 0]]
  /\ refreshing = [m \in Universes |-> None]
  /\ reading = [r \in Readers |-> NoCall]

CatalogNext ==
  \/ \E r \in Readers :
       \/ \E spelling \in Spellings, query \in Queries, limit \in {0, SymbolMax} :
            ListSymbols(r, spelling, query, limit)
       \/ Refresh(r) \/ FetchAnswers(r) \/ Store(r) \/ FetchFails(r) \/ Answer(r)
  \/ Elapse

-----------------------------------------------------------------------------
(* Properties. *)

\* However many calls find the list too old at once, one of them fetches and the others
\* reuse what it got: a list is replaced only after it has outlived its TTL (the mutex
\* and the second look in Catalog.List).
OneFetchPerTTL ==
  [][\A m \in Universes : cache'[m] # cache[m] /\ cache[m].list # {} =>
       reading[refreshing[m]].checked - cache[m].at > TTL]_catalogVars

\* An answer that is not flagged as stale is what the exchange had trading, all of it, at
\* most a TTL and a fetch before the call looked: no failed fetch, and no wait for
\* another call's, hides an older list.
CatalogFresh ==
  \A r \in Readers :
    LET c == reading[r]
        Shown(symbols) == filterSymbols(symbols, c.query, c.limit)
    IN  c.pc = "answer" /\ ~c.stale /\ c.list # {} =>
          \E t \in 1..clock : /\ t >= c.checked - TTL - Timeout
                              /\ Shown(c.list) = Shown(Fetch(c.m, listed[t]))

=============================================================================
