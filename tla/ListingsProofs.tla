--------------------------- MODULE ListingsProofs ---------------------------
(***************************************************************************)
(* Proofs about the lists, the feed of events and the symbol catalog, for  *)
(* any readers, writers, symbols, events, rows, sort times, TTL, timeout,  *)
(* page sizes and bounds. The parts of the invariant, besides the types:   *)
(*                                                                         *)
(*   CatalogInv  the call that fetches holds its market's mutex, found the *)
(*               cached list missing or too old and has not outlived the   *)
(*               timeout; a cached list, one just fetched and one about to *)
(*               be shown are what the exchange listed at a time that is   *)
(*               not too long ago;                                         *)
(*   FeedInv     an event_id is drawn once and free until its save         *)
(*               commits, no two rows have one identity, and what the      *)
(*               client got lies at or before its cursor;                  *)
(*   WalkInv     a row a page-by-page client is owed has come or is still  *)
(*               ahead of its offset: rows that arrive only push it back.  *)
(***************************************************************************)
EXTENDS Listings, FiniteSetTheorems, SequenceTheorems, WellFoundedInduction, TLAPS

-----------------------------------------------------------------------------
(* The invariant of the catalog. *)

CallRecord == [pc : {"idle", "lock", "fetch", "store", "answer"},
               m : Universes \cup {None}, query : Queries \cup {None},
               limit : Int, list : SUBSET DOMAIN SymbolInfo,
               fresh : SUBSET DOMAIN SymbolInfo, checked : Nat, stale : BOOLEAN]

CatalogTypeOK ==
  /\ clock \in Nat \ {0}
  /\ listed \in Seq(SUBSET DOMAIN SymbolInfo) /\ Len(listed) = clock
  /\ cache \in [Universes -> [list : SUBSET DOMAIN SymbolInfo, at : Nat]]
  /\ refreshing \in [Universes -> Readers \cup {None}]
  /\ reading \in [Readers -> CallRecord]

Fetching(r) == reading[r].pc \in {"fetch", "store"}

\* The list is what the exchange had for market m at time t or later.
ListedSince(m, list, t) == \E u \in 1..clock : u >= t /\ list = Fetch(m, listed[u])

\* A call that is not idle asks about a market and has looked at the clock.
Asks(r) == reading[r].pc # "idle" => reading[r].m \in Universes /\ reading[r].checked <= clock

\* A call that fetches holds the mutex of its market, and its fetch is not over time.
Holds(r) ==
  Fetching(r) => refreshing[reading[r].m] = r /\ clock <= reading[r].checked + Timeout

\* The list it replaces is missing or was too old when it looked.
Justified(r) ==
  Fetching(r) => \/ cache[reading[r].m].list = {}
                 \/ reading[r].checked - cache[reading[r].m].at > TTL

Fetched(r) == reading[r].pc = "store" => ListedSince(reading[r].m, reading[r].fresh, reading[r].checked)

Shows(r) ==
  reading[r].pc = "answer" /\ ~reading[r].stale /\ reading[r].list # {}
    => ListedSince(reading[r].m, reading[r].list, reading[r].checked - TTL - Timeout)

Cached(m) ==
  /\ cache[m].at <= clock
  /\ cache[m].list # {} => ListedSince(m, cache[m].list, cache[m].at - Timeout)

CallInv(r) == Asks(r) /\ Holds(r) /\ Justified(r) /\ Fetched(r) /\ Shows(r)

CatalogInv ==
  /\ CatalogTypeOK
  /\ \A r \in Readers : CallInv(r)
  /\ \A m \in Universes : Cached(m)

-----------------------------------------------------------------------------
(* The invariant of the feed. *)

FeedTypeOK ==
  /\ log \in [1..MaxSaves -> Events \cup {None}]
  /\ nextId \in 1..(MaxSaves + 1)
  /\ saving \in [Writers -> [id : 1..MaxSaves, event : Events] \cup {None}]
  /\ reader \in [after : Nat, got : [Identities -> Nat]]

\* Ids drawn are below the sequence, are not shared and are free until the save commits.
DrawnFree ==
  /\ \A i \in 1..MaxSaves : log[i] # None => i < nextId
  /\ \A w \in Writers : saving[w] # None => saving[w].id < nextId /\ log[saving[w].id] = None
  /\ \A w, x \in Writers : saving[w] # None /\ saving[x] # None /\ w # x => saving[w].id # saving[x].id

\* No two rows have one identity.
OneRowEach ==
  \A i, j \in 1..MaxSaves :
    log[i] # None /\ log[j] # None /\ EventIdentityKey(log[i]) = EventIdentityKey(log[j]) => i = j

\* What the client got, it got once, and is a row at or before its cursor.
BehindCursor ==
  \A k \in Identities :
    /\ reader.got[k] <= 1
    /\ reader.got[k] # 0 => \E i \in 1..MaxSaves : i <= reader.after /\ log[i] # None /\ EventIdentityKey(log[i]) = k

FeedInv == FeedTypeOK /\ DrawnFree /\ OneRowEach /\ BehindCursor

-----------------------------------------------------------------------------
(* The invariant of the walk. *)

RowRecord == [time : Times, active : BOOLEAN]
PageRequests == [account : {None, MyAccount}, session : {None, MySession}, active : BOOLEAN,
                 limit : {0, 1, MaxLimit + 1}]

WalkRecord ==
  [pc : {"idle", "all", "count", "page", "done"}, q : PageRequests \cup {None},
   offset : Nat, total : Nat, more : BOOLEAN, page : SUBSET Rows,
   seen : SUBSET Rows, base : SUBSET Rows, disturbed : BOOLEAN]

WalkTypeOK ==
  /\ kind \in RowLists \cup {"events", "symbols"}
  /\ rows \in [Rows -> RowRecord \cup {None}]
  /\ walk \in WalkRecord
  /\ walk.pc # "idle" => walk.q \in PageRequests /\ kind \in RowLists

\* The rows of a request that come before row r, and how many they are.
Before(q, r) ==
  {x \in Scope(q) : \/ rows[x].time > rows[r].time
                    \/ rows[x].time = rows[r].time /\ ListOf[kind].tie /\ x > r}
Rank(q, r) == Cardinality(Before(q, r))

\* A list that ends at its total counted what it is about to read.
TotalTrue ==
  \A q \in PageRequests :
    walk.q = q /\ walk.pc = "page" /\ ~ListOf[kind].more /\ ~walk.disturbed
      => walk.total = Cardinality(Scope(q))

\* A row the client is owed has come with a page, or is still ahead.
Owed(q, r) ==
  /\ walk.pc = "page" \/ (walk.pc = "count" /\ ListOf[kind].countFirst)
       => r \in walk.seen \/ Rank(q, r) >= walk.offset
  /\ walk.pc = "count" /\ ~ListOf[kind].countFirst
       => \/ r \in walk.seen \cup walk.page
          \/ walk.more /\ Rank(q, r) >= walk.offset + Cardinality(walk.page)
  /\ walk.pc = "done" => r \in walk.seen

NothingSkipped ==
  \A q \in PageRequests :
    walk.q = q /\ walk.pc # "idle" /\ ~walk.disturbed
      => \A r \in walk.base : r \in Scope(q) /\ (Placed(r) => Owed(q, r))

WalkInv == WalkTypeOK /\ TotalTrue /\ NothingSkipped

\* The invariant the theorems rest on.
IInv == CatalogInv /\ FeedInv /\ WalkInv

-----------------------------------------------------------------------------
(* The feed. *)

USE DEF feedVars

\* A set of event ids that is not empty has a largest one, which Max returns.
LEMMA MaxOfIds ==
  ASSUME NEW S \in SUBSET (1..MaxSaves), S # {}
  PROVE  Max(S) \in S /\ \A y \in S : y <= Max(S)
<1>0. MaxSaves \in Nat BY ListingsAssumption
<1> DEFINE T == {MaxSaves - i : i \in S}
<1>1. T \in SUBSET Nat /\ T # {}
  <2>1. \A i \in S : i \in 1..MaxSaves OBVIOUS
  <2>2. \A i \in S : MaxSaves - i \in Nat BY <1>0, <2>1
  <2>3. T \in SUBSET Nat BY <2>2
  <2>4. PICK i \in S : TRUE OBVIOUS
  <2>5. MaxSaves - i \in T BY <2>4
  <2> QED BY <2>3, <2>5
<1>2. PICK n \in T : \A m \in T : n <= m
  <2> DEFINE R == OpToRel(<, Nat)
  <2>1. IsWellFoundedOn(R, Nat) BY NatLessThanWellFounded
  <2> HIDE DEF T, R
  <2>2. PICK n \in T : \A m \in T : ~(<<m, n>> \in R) BY <1>1, <2>1, WFMin
  <2>3. \A m \in T : ~(m < n) BY <1>1, <2>2 DEF R, OpToRel
  <2> QED BY <1>1, <2>2, <2>3
<1>3. PICK x \in S : n = MaxSaves - x BY <1>2
<1>4. \A y \in S : x >= y
  <2>1. SUFFICES ASSUME NEW y \in S PROVE x >= y OBVIOUS
  <2>2. MaxSaves - y \in T OBVIOUS
  <2>3. MaxSaves - x <= MaxSaves - y BY <1>2, <1>3, <2>2
  <2>4. x \in Int /\ y \in Int OBVIOUS
  <2> HIDE DEF T
  <2> QED BY <1>0, <2>3, <2>4
<1>5. Max(S) \in S /\ \A y \in S : Max(S) >= y BY <1>4 DEF Max
<1> QED BY <1>0, <1>5

\* In a set with at most one element that element is counted once.
LEMMA AtMostOne ==
  ASSUME NEW S, \A x, y \in S : x = y
  PROVE  /\ Cardinality(S) \in Nat /\ Cardinality(S) <= 1
         /\ Cardinality(S) # 0 <=> S # {}
<1>1. CASE S = {} BY <1>1, FS_EmptySet
<1>2. CASE S # {}
  <2>1. PICK x \in S : TRUE BY <1>2
  <2>2. S = {x} BY <2>1
  <2>3. Cardinality(S) = 1 BY <2>2, FS_Singleton
  <2> QED BY <1>2, <2>3
<1> QED BY <1>1, <1>2

LEMMA FeedInit == Init => FeedInv
<1> SUFFICES ASSUME Init PROVE FeedInv OBVIOUS
<1> USE DEF Init
<1>0. MaxSaves \in Nat BY ListingsAssumption
<1>1. FeedTypeOK BY <1>0 DEF FeedTypeOK
<1>2. DrawnFree BY DEF DrawnFree
<1>3. OneRowEach BY DEF OneRowEach
<1>4. BehindCursor BY DEF BehindCursor
<1> QED BY <1>1, <1>2, <1>3, <1>4 DEF FeedInv

LEMMA FeedUnchanged == FeedInv /\ UNCHANGED feedVars => FeedInv'
<1> SUFFICES ASSUME FeedInv, UNCHANGED feedVars PROVE FeedInv' OBVIOUS
<1> USE DEF FeedInv
<1>1. FeedTypeOK' BY DEF FeedTypeOK
<1>2. DrawnFree' BY DEF DrawnFree
<1>3. OneRowEach' BY DEF OneRowEach, EventIdentityKey
<1>4. BehindCursor' BY DEF BehindCursor, Identities, EventIdentityKey
<1> QED BY <1>1, <1>2, <1>3, <1>4

LEMMA DrawKeepsFeed ==
  ASSUME FeedInv, NEW w \in Writers, NEW e \in Events, DrawEventId(w, e)
  PROVE  FeedInv'
<1> USE DEF FeedInv, DrawEventId
<1>0. MaxSaves \in Nat BY ListingsAssumption
<1>1. nextId \in 1..MaxSaves /\ nextId' = nextId + 1 /\ log' = log /\ reader' = reader
  BY <1>0 DEF FeedTypeOK
<1>2. saving' = [saving EXCEPT ![w] = [id |-> nextId, event |-> e]] OBVIOUS
<1>3. log[nextId] = None BY <1>1 DEF DrawnFree
<1>4. FeedTypeOK' BY <1>0, <1>1, <1>2 DEF FeedTypeOK
<1>5. DrawnFree'
  <2>1. \A i \in 1..MaxSaves : log[i] # None => i < nextId + 1 BY <1>0, <1>1 DEF DrawnFree
  <2>2. \A x \in Writers : saving'[x] # None => saving'[x].id < nextId + 1 /\ log[saving'[x].id] = None
    <3>1. SUFFICES ASSUME NEW x \in Writers, saving'[x] # None
                   PROVE  saving'[x].id < nextId + 1 /\ log[saving'[x].id] = None OBVIOUS
    <3>2. CASE x = w BY <1>1, <1>2, <1>3, <3>2 DEF FeedTypeOK
    <3>3. CASE x # w
      <4>1. saving'[x] = saving[x] BY <1>2, <3>3 DEF FeedTypeOK
      <4>2. saving[x].id < nextId /\ log[saving[x].id] = None BY <3>1, <4>1 DEF DrawnFree
      <4>3. saving[x].id \in 1..MaxSaves BY <3>1, <4>1 DEF FeedTypeOK
      <4> QED BY <1>0, <1>1, <4>1, <4>2, <4>3
    <3> QED BY <3>2, <3>3
  <2>3. \A x, y \in Writers : saving'[x] # None /\ saving'[y] # None /\ x # y => saving'[x].id # saving'[y].id
    <3>1. \A x \in Writers : x # w => saving'[x] = saving[x] BY <1>2 DEF FeedTypeOK
    <3>2. saving'[w].id = nextId BY <1>2 DEF FeedTypeOK
    <3>3. \A x \in Writers : saving[x] # None => saving[x].id # nextId
      <4>1. SUFFICES ASSUME NEW x \in Writers, saving[x] # None PROVE saving[x].id # nextId OBVIOUS
      <4>2. saving[x].id < nextId BY <4>1 DEF DrawnFree
      <4> QED BY <1>0, <1>1, <4>2
    <3> QED BY <3>1, <3>2, <3>3 DEF DrawnFree
  <2> QED BY <1>1, <2>1, <2>2, <2>3 DEF DrawnFree
<1>6. OneRowEach' BY <1>1 DEF OneRowEach, EventIdentityKey
<1>7. BehindCursor' BY <1>1 DEF BehindCursor, EventIdentityKey, Identities
<1> QED BY <1>4, <1>5, <1>6, <1>7

LEMMA FailKeepsFeed ==
  ASSUME FeedInv, NEW w \in Writers, SaveFails(w)
  PROVE  FeedInv'
<1> USE DEF FeedInv, SaveFails
<1>1. FeedTypeOK' BY DEF FeedTypeOK
<1>2. DrawnFree' BY DEF FeedTypeOK, DrawnFree
<1>3. OneRowEach' BY DEF OneRowEach, EventIdentityKey
<1>4. BehindCursor' BY DEF BehindCursor, EventIdentityKey, Identities
<1> QED BY <1>1, <1>2, <1>3, <1>4

\* A save puts the event where its identity is, or in the row it drew: identities
\* neither vanish nor double.
LEMMA SaveKeepsFeed ==
  ASSUME FeedInv, NEW w \in Writers, SaveLifecycleEvent(w)
  PROVE  FeedInv'
<1> DEFINE id == saving[w].id
           e == saving[w].event
           Key(x) == EventIdentityKey(x)
           same == {i \in 1..MaxSaves : log[i] # None /\ Key(log[i]) = Key(e)}
<1> USE DEF FeedInv
<1>1. saving[w] # None /\ nextId' = nextId /\ reader' = reader /\ saving' = [saving EXCEPT ![w] = None]
  BY DEF SaveLifecycleEvent
<1>2. log' = [i \in 1..MaxSaves |-> IF i \in same \/ (same = {} /\ i = id) THEN e ELSE log[i]]
  BY DEF SaveLifecycleEvent
<1>3. id \in 1..MaxSaves /\ e \in Events /\ e # None BY <1>1, ListingsAssumption DEF FeedTypeOK
<1>4. id < nextId /\ log[id] = None BY <1>1 DEF DrawnFree
<1> HIDE DEF id, e
<1>5. \A i \in 1..MaxSaves : log[i] # None => log'[i] # None /\ Key(log'[i]) = Key(log[i])
  BY <1>2, <1>3, <1>4
<1>6. \A i \in 1..MaxSaves : log'[i] # None => log[i] # None \/ (same = {} /\ i = id /\ log'[i] = e)
  BY <1>2, <1>3
<1>7. FeedTypeOK' BY <1>1, <1>2, <1>3 DEF FeedTypeOK
<1>8. DrawnFree'
  <2>1. \A x \in Writers : saving'[x] # None => x # w /\ saving'[x] = saving[x] BY <1>1 DEF FeedTypeOK
  <2>2. \A i \in 1..MaxSaves : log'[i] # None => i < nextId BY <1>4, <1>6 DEF DrawnFree
  <2>3. \A x \in Writers : saving'[x] # None => saving[x].id \in 1..MaxSaves /\ saving[x].id # id
    BY <1>1, <2>1 DEF FeedTypeOK, DrawnFree, id
  <2>4. \A x \in Writers : saving'[x] # None => saving[x].id < nextId /\ log[saving[x].id] = None
    BY <2>1 DEF DrawnFree
  <2>5. \A x \in Writers : saving'[x] # None => log'[saving[x].id] = None BY <1>2, <2>3, <2>4
  <2>6. \A x, y \in Writers : saving'[x] # None /\ saving'[y] # None /\ x # y => saving[x].id # saving[y].id
    BY <2>1 DEF DrawnFree
  <2> QED BY <1>1, <2>1, <2>2, <2>4, <2>5, <2>6 DEF DrawnFree
<1>9. OneRowEach'
  <2>1. SUFFICES ASSUME NEW i \in 1..MaxSaves, NEW j \in 1..MaxSaves,
                        log'[i] # None, log'[j] # None, Key(log'[i]) = Key(log'[j])
                 PROVE  i = j
    BY DEF OneRowEach, EventIdentityKey
  <2>2. CASE log[i] # None /\ log[j] # None BY <1>5, <2>1, <2>2 DEF OneRowEach
  <2>3. CASE log[i] = None
    <3>1. same = {} /\ i = id /\ log'[i] = e BY <1>6, <2>1, <2>3
    <3>2. log[j] = None \/ Key(log'[j]) # Key(e) BY <1>5, <3>1
    <3> QED BY <1>6, <2>1, <3>1, <3>2
  <2>4. CASE log[j] = None
    <3>1. same = {} /\ j = id /\ log'[j] = e BY <1>6, <2>1, <2>4
    <3>2. log[i] = None \/ Key(log'[i]) # Key(e) BY <1>5, <3>1
    <3> QED BY <1>6, <2>1, <3>1, <3>2
  <2> QED BY <2>2, <2>3, <2>4
<1>10. BehindCursor'
  <2>1. SUFFICES ASSUME NEW k \in Identities
                 PROVE  /\ reader.got[k] <= 1
                        /\ reader.got[k] # 0 => \E i \in 1..MaxSaves : i <= reader.after /\ log'[i] # None /\ Key(log'[i]) = k
    BY <1>1 DEF BehindCursor, EventIdentityKey, Identities
  <2> QED BY <1>5, <2>1 DEF BehindCursor
<1> QED BY <1>7, <1>8, <1>9, <1>10

\* A page holds rows past the cursor only: an identity the client has is not among
\* them, and no identity is there twice.
LEMMA PollKeepsFeed ==
  ASSUME FeedInv, NEW limit, PollEvents(limit)
  PROVE  FeedInv'
<1> DEFINE ids == ListLifecycleEvents(limit)
           Key(x) == EventIdentityKey(x)
           hits(k) == {i \in ids : Key(log[i]) = k}
<1> USE DEF FeedInv
<1>0. MaxSaves \in Nat BY ListingsAssumption
<1>1. log' = log /\ nextId' = nextId /\ saving' = saving /\ ids # {} BY DEF PollEvents
<1>2. reader' = [after |-> Max(ids), got |-> [k \in Identities |-> reader.got[k] + Cardinality(hits(k))]]
  BY DEF PollEvents
<1>3. ids \in SUBSET (1..MaxSaves) /\ \A i \in ids : i > reader.after /\ log[i] # None
  BY DEF ListLifecycleEvents
<1> HIDE DEF ids
<1>4. Max(ids) \in ids /\ \A y \in ids : y <= Max(ids) BY <1>1, <1>3, MaxOfIds
<1>5. Max(ids) \in Nat /\ Max(ids) > reader.after
  <2>1. ids \subseteq 1..MaxSaves BY <1>3
  <2>2. Max(ids) \in 1..MaxSaves BY <1>4, <2>1
  <2>3. Max(ids) > reader.after BY <1>3, <1>4
  <2> QED BY <1>0, <2>2, <2>3
<1>6. ASSUME NEW k \in Identities
      PROVE  /\ Cardinality(hits(k)) \in Nat /\ Cardinality(hits(k)) <= 1
             /\ Cardinality(hits(k)) # 0 <=> hits(k) # {}
  <2>1. \A x, y \in hits(k) : x = y BY <1>3 DEF OneRowEach
  <2> HIDE DEF hits
  <2> QED BY <2>1, AtMostOne
<1>7. reader.after \in Nat /\ reader.got \in [Identities -> Nat] BY DEF FeedTypeOK
<1> HIDE DEF hits
<1>8. FeedTypeOK'
  <2>1. [k \in Identities |-> reader.got[k] + Cardinality(hits(k))] \in [Identities -> Nat] BY <1>6, <1>7
  <2> QED BY <1>1, <1>2, <1>5, <2>1 DEF FeedTypeOK
<1>9. DrawnFree' BY <1>1 DEF DrawnFree
<1>10. OneRowEach' BY <1>1 DEF OneRowEach, EventIdentityKey
<1>11. BehindCursor'
  <2>1. SUFFICES ASSUME NEW k \in Identities
                 PROVE  /\ reader'.got[k] <= 1
                        /\ reader'.got[k] # 0 =>
                             \E i \in 1..MaxSaves : i <= reader'.after /\ log[i] # None /\ Key(log[i]) = k
    BY <1>1 DEF BehindCursor, EventIdentityKey, Identities
  <2>2. reader'.after = Max(ids) /\ reader'.got[k] = reader.got[k] + Cardinality(hits(k)) BY <1>2
  <2>3. reader.got[k] \in Nat /\ reader.got[k] <= 1 BY <1>7 DEF BehindCursor
  <2>4. CASE reader.got[k] # 0
    <3>1. PICK i \in 1..MaxSaves : i <= reader.after /\ log[i] # None /\ Key(log[i]) = k
      BY <2>4 DEF BehindCursor
    <3>2. hits(k) = {}
      <4>1. SUFFICES ASSUME NEW j \in hits(k) PROVE FALSE OBVIOUS
      <4>2. j \in ids /\ Key(log[j]) = k BY <4>1 DEF hits
      <4>3. j \in 1..MaxSaves /\ j > reader.after /\ log[j] # None BY <1>3, <4>2
      <4>4. i = j BY <3>1, <4>2, <4>3 DEF OneRowEach
      <4> QED BY <1>0, <1>7, <3>1, <4>3, <4>4
    <3>3. Cardinality(hits(k)) = 0 BY <1>6, <3>2
    <3>4. i <= Max(ids) BY <1>0, <1>5, <1>7, <3>1
    <3> QED BY <2>2, <2>3, <3>1, <3>3, <3>4
  <2>5. CASE reader.got[k] = 0
    <3>1. reader'.got[k] = Cardinality(hits(k)) BY <1>6, <2>2, <2>5
    <3>2. CASE hits(k) = {} BY <1>6, <3>1, <3>2
    <3>3. CASE hits(k) # {}
      <4>1. PICK i \in hits(k) : TRUE BY <3>3
      <4>2. i \in ids /\ Key(log[i]) = k BY <4>1 DEF hits
      <4>3. i \in 1..MaxSaves /\ log[i] # None /\ i <= Max(ids) BY <1>3, <1>4, <4>2
      <4> QED BY <1>6, <2>2, <3>1, <4>2, <4>3
    <3> QED BY <3>2, <3>3
  <2> QED BY <2>4, <2>5
<1> QED BY <1>8, <1>9, <1>10, <1>11

LEMMA FeedStep == FeedInv /\ [Next]_vars => FeedInv'
<1> SUFFICES ASSUME FeedInv, [Next]_vars PROVE FeedInv' OBVIOUS
<1>1. CASE UNCHANGED feedVars BY <1>1, FeedUnchanged
<1>2. CASE ListNext
  <2>1. CASE \E q \in Requests : Begin(q) BY <1>1, <2>1 DEF Begin
  <2>2. CASE ListAccounts \/ ListStrategies \/ Count \/ ReadPage
    BY <1>1, <2>2 DEF ListAccounts, ListStrategies, ReadAll, Count, ReadPage
  <2>3. CASE \E r \in Rows, t \in Times : InsertRow(r, t) BY <1>1, <2>3 DEF InsertRow
  <2>4. CASE \E r \in Rows : DeactivateRow(r) BY <1>1, <2>4 DEF DeactivateRow
  <2>5. ASSUME NEW w \in Writers, SaveLifecycleEvent(w) PROVE FeedInv' BY <2>5, SaveKeepsFeed
  <2>6. ASSUME NEW w \in Writers, SaveFails(w) PROVE FeedInv' BY <2>6, FailKeepsFeed
  <2>7. ASSUME NEW w \in Writers, NEW e \in Events, DrawEventId(w, e) PROVE FeedInv' BY <2>7, DrawKeepsFeed
  <2>8. ASSUME NEW limit \in {0, 1, MaxLimit + 1}, PollEvents(limit) PROVE FeedInv' BY <2>8, PollKeepsFeed
  <2> QED BY <1>2, <2>1, <2>2, <2>3, <2>4, <2>5, <2>6, <2>7, <2>8 DEF ListNext
<1>3. CASE UNCHANGED listVars BY <1>1, <1>3 DEF listVars
<1>4. CASE UNCHANGED vars BY <1>3, <1>4 DEF vars
<1> QED BY <1>2, <1>3, <1>4 DEF Next

-----------------------------------------------------------------------------
(* The catalog. *)

\* A call that a step leaves alone keeps what holds of it, if the step leaves alone what
\* the call's mutex protects.
LEMMA OtherCall ==
  ASSUME NEW r \in Readers, CallInv(r), reading'[r] = reading[r], clock' = clock, listed' = listed,
         Fetching(r) => /\ refreshing'[reading[r].m] = refreshing[reading[r].m]
                        /\ cache'[reading[r].m] = cache[reading[r].m]
  PROVE  CallInv(r)'
<1> USE DEF CallInv, Fetching
<1>1. Asks(r)' BY DEF Asks
<1>2. Holds(r)' BY DEF Holds
<1>3. Justified(r)' BY DEF Justified
<1>4. Fetched(r)' BY DEF Fetched, ListedSince, Fetch, fetchSpotSymbolsHTTP, fetchFuturesSymbolsHTTP
<1>5. Shows(r)' BY DEF Shows, ListedSince, Fetch, fetchSpotSymbolsHTTP, fetchFuturesSymbolsHTTP
<1> QED BY <1>1, <1>2, <1>3, <1>4, <1>5

\* So does a cached list.
LEMMA OtherList ==
  ASSUME NEW m \in Universes, Cached(m), cache'[m] = cache[m], clock' = clock, listed' = listed
  PROVE  Cached(m)'
BY DEF Cached, ListedSince, Fetch, fetchSpotSymbolsHTTP, fetchFuturesSymbolsHTTP

LEMMA CatalogStart == CatalogInit => CatalogInv
<1> SUFFICES ASSUME CatalogInit PROVE CatalogInv OBVIOUS
<1> USE DEF CatalogInit
<1>1. NoCall \in CallRecord BY DEF CallRecord, NoCall
<1>2. \A r \in Readers : reading[r] = NoCall /\ reading[r].pc = "idle" BY DEF NoCall
<1>3. CatalogTypeOK
  <2>1. listed \in Seq(SUBSET DOMAIN SymbolInfo) /\ Len(listed) = 1 OBVIOUS
  <2>2. reading \in [Readers -> CallRecord] BY <1>1
  <2>3. cache \in [Universes -> [list : SUBSET DOMAIN SymbolInfo, at : Nat]] OBVIOUS
  <2> QED BY <2>1, <2>2, <2>3 DEF CatalogTypeOK
<1>4. ASSUME NEW r \in Readers PROVE CallInv(r)
  BY <1>2 DEF CallInv, Asks, Holds, Justified, Fetched, Shows, Fetching
<1>5. ASSUME NEW m \in Universes PROVE Cached(m) BY DEF Cached
<1> QED BY <1>3, <1>4, <1>5 DEF CatalogInv

LEMMA CatalogUnchanged == CatalogInv /\ UNCHANGED catalogVars => CatalogInv'
<1> SUFFICES ASSUME CatalogInv, UNCHANGED catalogVars PROVE CatalogInv' OBVIOUS
<1> USE DEF catalogVars
<1>1. CatalogTypeOK' BY DEF CatalogInv, CatalogTypeOK
<1>2. \A r \in Readers : CallInv(r)' BY OtherCall DEF CatalogInv
<1>3. \A m \in Universes : Cached(m)' BY OtherList DEF CatalogInv
<1> QED BY <1>1, <1>2, <1>3 DEF CatalogInv

\* What a look at the cache leaves: a list that is recent enough, or the reason to fetch.
LEMMA LookGives ==
  ASSUME CatalogInv, NEW m \in Universes, NEW call \in CallRecord, NEW otherwise \in {"lock", "fetch"}
  PROVE  LET new == Look(m, call, otherwise)
         IN  /\ new \in CallRecord
             /\ new.m = call.m /\ new.checked = clock /\ new.pc \in {otherwise, "answer"}
             /\ new.pc = "answer" => new.list # {} /\ ListedSince(m, new.list, clock - TTL - Timeout)
             /\ new.pc = otherwise => cache[m].list = {} \/ clock - cache[m].at > TTL
<1> DEFINE new == Look(m, call, otherwise)
<1>0. /\ clock \in Nat /\ TTL \in Nat /\ Timeout \in Nat
      /\ cache[m] \in [list : SUBSET DOMAIN SymbolInfo, at : Nat]
  BY CatalogAssumption DEF CatalogInv, CatalogTypeOK
<1>1. new = [call EXCEPT !.list = cache[m].list, !.checked = clock,
                         !.pc = IF NeedRefresh(m) THEN otherwise ELSE "answer"]
  BY DEF Look
<1>2. new \in CallRecord BY <1>0, <1>1 DEF CallRecord
<1>3. new.m = call.m /\ new.checked = clock /\ new.list = cache[m].list BY <1>1 DEF CallRecord
<1>4. new.pc = IF NeedRefresh(m) THEN otherwise ELSE "answer" BY <1>1 DEF CallRecord
<1> HIDE DEF new
<1>5. new.pc = "answer" => new.list # {} /\ ListedSince(m, new.list, clock - TTL - Timeout)
  <2>1. SUFFICES ASSUME ~NeedRefresh(m)
                 PROVE  cache[m].list # {} /\ ListedSince(m, cache[m].list, clock - TTL - Timeout)
    BY <1>3, <1>4
  <2>2. cache[m].list # {} /\ clock - cache[m].at <= TTL BY <1>0, <2>1 DEF NeedRefresh
  <2>3. PICK u \in 1..clock : u >= cache[m].at - Timeout /\ cache[m].list = Fetch(m, listed[u])
    BY <2>2 DEF CatalogInv, Cached, ListedSince
  <2>4. u >= clock - TTL - Timeout BY <1>0, <2>2, <2>3
  <2> QED BY <2>2, <2>3, <2>4 DEF ListedSince
<1>6. new.pc = otherwise => cache[m].list = {} \/ clock - cache[m].at > TTL
  BY <1>4 DEF NeedRefresh
<1> QED BY <1>2, <1>3, <1>4, <1>5, <1>6 DEF new

LEMMA ListKeepsCatalog ==
  ASSUME CatalogInv, NEW r \in Readers, NEW spelling \in Spellings, NEW query \in Queries,
         NEW limit \in {0, SymbolMax}, ListSymbols(r, spelling, query, limit)
  PROVE  CatalogInv'
<1> DEFINE m == ParseMarket(spelling)
           asked == [NoCall EXCEPT !.m = m, !.query = query, !.limit = limit]
           new == Look(m, asked, "lock")
<1>1. m \in Universes BY DEF ListSymbols, ParseMarket, Universes
<1>2. reading' = [reading EXCEPT ![r] = new] /\ UNCHANGED <<clock, listed, cache, refreshing>>
  BY DEF ListSymbols
<1>3. NoCall \in CallRecord BY DEF CallRecord, NoCall
<1>4. asked \in CallRecord /\ asked.m = m
  <2>1. m \in Universes \cup {None} /\ query \in Queries \cup {None} /\ limit \in Int
    BY <1>1, CatalogAssumption
  <2> HIDE DEF m
  <2> QED BY <1>3, <2>1 DEF CallRecord
<1> HIDE DEF m, asked
<1>5. /\ new \in CallRecord /\ new.m = m /\ new.checked = clock /\ new.pc \in {"lock", "answer"}
      /\ new.pc = "answer" => ListedSince(m, new.list, clock - TTL - Timeout)
  BY <1>1, <1>4, LookGives
<1> HIDE DEF new
<1>6. reading'[r] = new /\ \A q \in Readers \ {r} : reading'[q] = reading[q]
  BY <1>2 DEF CatalogInv, CatalogTypeOK
<1>7. CatalogTypeOK' BY <1>2, <1>5 DEF CatalogInv, CatalogTypeOK
<1>8. CallInv(r)'
  <2>2. Asks(r)' BY <1>1, <1>2, <1>5, <1>6 DEF Asks, CatalogInv, CatalogTypeOK
  <2>3. Holds(r)' /\ Justified(r)' /\ Fetched(r)'
    BY <1>5, <1>6 DEF Holds, Justified, Fetched, Fetching
  <2>4. Shows(r)' BY <1>2, <1>5, <1>6 DEF Shows, ListedSince
  <2> QED BY <2>2, <2>3, <2>4 DEF CallInv
<1>9. \A q \in Readers \ {r} : CallInv(q)' BY <1>2, <1>6, OtherCall DEF CatalogInv
<1>10. \A n \in Universes : Cached(n)' BY <1>2, OtherList DEF CatalogInv
<1> QED BY <1>7, <1>8, <1>9, <1>10 DEF CatalogInv

LEMMA RefreshKeepsCatalog ==
  ASSUME CatalogInv, NEW r \in Readers, Refresh(r)
  PROVE  CatalogInv'
<1> DEFINE m == reading[r].m
           new == Look(m, reading[r], "fetch")
<1>1. /\ reading[r].pc = "lock" /\ refreshing[m] = None
      /\ refreshing' = [refreshing EXCEPT ![m] = r] /\ reading' = [reading EXCEPT ![r] = new]
      /\ UNCHANGED <<clock, listed, cache>>
  BY DEF Refresh
<1>2. m \in Universes /\ reading[r] \in CallRecord
  BY <1>1 DEF CatalogInv, CatalogTypeOK, CallInv, Asks
<1>3. /\ new \in CallRecord /\ new.m = m /\ new.checked = clock /\ new.pc \in {"fetch", "answer"}
      /\ new.pc = "answer" => ListedSince(m, new.list, clock - TTL - Timeout)
      /\ new.pc = "fetch" => cache[m].list = {} \/ clock - cache[m].at > TTL
  BY <1>2, LookGives
<1> HIDE DEF new
<1>4. reading'[r] = new /\ \A q \in Readers \ {r} : reading'[q] = reading[q]
  BY <1>1 DEF CatalogInv, CatalogTypeOK
<1>5. refreshing'[m] = r /\ \A n \in Universes \ {m} : refreshing'[n] = refreshing[n]
  BY <1>1, <1>2 DEF CatalogInv, CatalogTypeOK
<1>6. CatalogTypeOK' BY <1>1, <1>3 DEF CatalogInv, CatalogTypeOK
<1>7. CallInv(r)'
  <2>1. clock \in Nat /\ Timeout \in Nat BY CatalogAssumption DEF CatalogInv, CatalogTypeOK
  <2>2. Asks(r)' BY <1>1, <1>2, <1>3, <1>4, <2>1 DEF Asks
  <2>3. Holds(r)' BY <1>1, <1>3, <1>4, <1>5, <2>1 DEF Holds, Fetching
  <2>4. Justified(r)' BY <1>1, <1>3, <1>4 DEF Justified, Fetching
  <2>5. Fetched(r)' BY <1>3, <1>4 DEF Fetched
  <2>6. Shows(r)' BY <1>1, <1>3, <1>4 DEF Shows, ListedSince
  <2> QED BY <2>2, <2>3, <2>4, <2>5, <2>6 DEF CallInv
<1>8. ASSUME NEW q \in Readers \ {r} PROVE CallInv(q)'
  <2>1. CallInv(q) BY DEF CatalogInv
  <2>2. Fetching(q) => reading[q].m \in Universes /\ refreshing[reading[q].m] = q
    BY <2>1 DEF CallInv, Asks, Holds, Fetching
  <2>3. Fetching(q) => reading[q].m # m BY <1>1, <2>2, CatalogAssumption
  <2> QED BY <1>1, <1>4, <1>5, <2>1, <2>2, <2>3, OtherCall
<1>9. \A n \in Universes : Cached(n)' BY <1>1, OtherList DEF CatalogInv
<1> QED BY <1>6, <1>7, <1>8, <1>9 DEF CatalogInv

\* Another call fetches for another market.
LEMMA OneFetcher ==
  ASSUME CatalogInv, NEW r \in Readers, NEW q \in Readers, r # q, Fetching(r), Fetching(q)
  PROVE  reading[r].m # reading[q].m
BY DEF CatalogInv, CallInv, Holds

LEMMA AnswerComesKeepsCatalog ==
  ASSUME CatalogInv, NEW r \in Readers, FetchAnswers(r)
  PROVE  CatalogInv'
<1> DEFINE m == reading[r].m
           fresh == Fetch(m, listed[clock])
           new == [reading[r] EXCEPT !.pc = "store", !.fresh = fresh]
<1>0. clock \in Nat \ {0} /\ clock \in 1..clock /\ listed[clock] \in SUBSET DOMAIN SymbolInfo
  BY DEF CatalogInv, CatalogTypeOK
<1>1. reading[r].pc = "fetch" /\ UNCHANGED <<clock, listed, cache, refreshing>>
  BY DEF FetchAnswers
<1>2. reading[r] \in CallRecord /\ CallInv(r) BY DEF CatalogInv, CatalogTypeOK
<1>3. fresh \in SUBSET DOMAIN SymbolInfo
  BY <1>0 DEF Fetch, fetchSpotSymbolsHTTP, fetchFuturesSymbolsHTTP
<1>4. reading' = [reading EXCEPT ![r] = new] BY DEF FetchAnswers, CatalogInv, CatalogTypeOK
<1> HIDE DEF fresh
<1>5. /\ new \in CallRecord /\ new.pc = "store" /\ new.fresh = fresh /\ new.m = m
      /\ new.checked = reading[r].checked
  BY <1>2, <1>3 DEF CallRecord
<1> HIDE DEF new
<1>6. reading'[r] = new /\ \A q \in Readers \ {r} : reading'[q] = reading[q]
  BY <1>4 DEF CatalogInv, CatalogTypeOK
<1>7. CatalogTypeOK' BY <1>1, <1>4, <1>5 DEF CatalogInv, CatalogTypeOK
<1>8. CallInv(r)'
  <2>1. Asks(r)' BY <1>1, <1>2, <1>5, <1>6 DEF CallInv, Asks
  <2>2. Holds(r)' BY <1>1, <1>2, <1>5, <1>6 DEF CallInv, Holds, Fetching
  <2>3. Justified(r)' BY <1>1, <1>2, <1>5, <1>6 DEF CallInv, Justified, Fetching
  <2>4. Fetched(r)'
    <3>1. clock >= reading[r].checked BY <1>0, <1>1, <1>2 DEF CallInv, Asks, CallRecord
    <3> QED BY <1>0, <1>1, <1>5, <1>6, <3>1 DEF Fetched, ListedSince, fresh
  <2>5. Shows(r)' BY <1>5, <1>6 DEF Shows
  <2> QED BY <2>1, <2>2, <2>3, <2>4, <2>5 DEF CallInv
<1>9. \A q \in Readers \ {r} : CallInv(q)' BY <1>1, <1>6, OtherCall DEF CatalogInv
<1>10. \A n \in Universes : Cached(n)' BY <1>1, OtherList DEF CatalogInv
<1> QED BY <1>7, <1>8, <1>9, <1>10 DEF CatalogInv

LEMMA StoreKeepsCatalog ==
  ASSUME CatalogInv, NEW r \in Readers, Store(r)
  PROVE  CatalogInv'
<1> DEFINE m == reading[r].m
           fresh == reading[r].fresh
           checked == reading[r].checked
           new == [reading[r] EXCEPT !.pc = "answer", !.list = fresh]
<1>0. clock \in Nat \ {0} /\ Timeout \in Nat /\ TTL \in Nat BY CatalogAssumption DEF CatalogInv, CatalogTypeOK
<1>1. /\ reading[r].pc = "store" /\ UNCHANGED <<clock, listed, refreshing>>
      /\ cache' = [cache EXCEPT ![m] = [list |-> fresh, at |-> clock]]
  BY DEF Store
<1>2. reading[r] \in CallRecord /\ CallInv(r) BY DEF CatalogInv, CatalogTypeOK
<1>3. m \in Universes /\ fresh \in SUBSET DOMAIN SymbolInfo /\ checked \in Nat /\ checked <= clock
  BY <1>1, <1>2 DEF CallInv, Asks, CallRecord
<1>4. reading' = [reading EXCEPT ![r] = new] BY DEF Store, CatalogInv, CatalogTypeOK
<1>5. new \in CallRecord /\ new.pc = "answer" /\ new.list = fresh /\ new.m = m /\ new.checked = checked
  BY <1>2, <1>3 DEF CallRecord
<1>6. PICK u \in 1..clock : u >= checked /\ fresh = Fetch(m, listed[u])
  BY <1>1, <1>2 DEF CallInv, Fetched, ListedSince
<1>7. clock <= checked + Timeout /\ Fetching(r) BY <1>1, <1>2 DEF CallInv, Holds, Fetching
<1> HIDE DEF new, m, fresh, checked
<1>8. reading'[r] = new /\ \A q \in Readers \ {r} : reading'[q] = reading[q]
  BY <1>4 DEF CatalogInv, CatalogTypeOK
<1>9. /\ cache'[m] = [list |-> fresh, at |-> clock]
      /\ \A n \in Universes \ {m} : cache'[n] = cache[n]
  BY <1>1, <1>3 DEF CatalogInv, CatalogTypeOK
<1>10. CatalogTypeOK' BY <1>0, <1>1, <1>3, <1>4, <1>5 DEF CatalogInv, CatalogTypeOK
<1>11. CallInv(r)'
  <2>1. Asks(r)' BY <1>1, <1>3, <1>5, <1>8 DEF Asks
  <2>2. Holds(r)' /\ Justified(r)' /\ Fetched(r)' BY <1>5, <1>8 DEF Holds, Justified, Fetched, Fetching
  <2>3. u >= checked - TTL - Timeout BY <1>0, <1>3, <1>6
  <2>4. Shows(r)' BY <1>1, <1>5, <1>6, <1>8, <2>3 DEF Shows, ListedSince
  <2> QED BY <2>1, <2>2, <2>4 DEF CallInv
<1>12. ASSUME NEW q \in Readers \ {r} PROVE CallInv(q)'
  <2>1. CallInv(q) BY DEF CatalogInv
  <2>2. Fetching(q) => reading[q].m \in Universes \ {m}
    BY <1>7, <2>1, OneFetcher DEF CallInv, Asks, Fetching, m
  <2> QED BY <1>1, <1>8, <1>9, <2>1, <2>2, OtherCall
<1>13. ASSUME NEW n \in Universes PROVE Cached(n)'
  <2>1. CASE n # m BY <1>1, <1>9, <2>1, OtherList DEF CatalogInv
  <2>2. CASE n = m
    <3>1. u >= clock - Timeout BY <1>0, <1>3, <1>6, <1>7
    <3> QED BY <1>0, <1>1, <1>6, <1>9, <2>2, <3>1 DEF Cached, ListedSince
  <2> QED BY <2>1, <2>2
<1> QED BY <1>10, <1>11, <1>12, <1>13 DEF CatalogInv

LEMMA FetchFailsKeepsCatalog ==
  ASSUME CatalogInv, NEW r \in Readers, FetchFails(r)
  PROVE  CatalogInv'
<1> DEFINE new == [reading[r] EXCEPT !.pc = "answer", !.stale = @ \/ reading[r].list # {}]
<1>1. Fetching(r) /\ UNCHANGED <<clock, listed, cache, refreshing>>
  BY DEF FetchFails, Fetching
<1>2. reading[r] \in CallRecord /\ CallInv(r) BY DEF CatalogInv, CatalogTypeOK
<1>3. reading' = [reading EXCEPT ![r] = new] BY DEF FetchFails, OldList, CatalogInv, CatalogTypeOK
<1>4. (reading[r].stale \/ reading[r].list # {}) \in BOOLEAN OBVIOUS
<1>5. /\ new \in CallRecord /\ new.pc = "answer" /\ new.list = reading[r].list
      /\ new.m = reading[r].m /\ new.checked = reading[r].checked
  BY <1>2, <1>4 DEF CallRecord
<1>6. new.stale = (reading[r].stale \/ reading[r].list # {}) BY <1>2 DEF CallRecord
<1> HIDE DEF new
<1>7. reading'[r] = new /\ \A q \in Readers \ {r} : reading'[q] = reading[q]
  BY <1>3 DEF CatalogInv, CatalogTypeOK
<1>8. CatalogTypeOK' BY <1>1, <1>3, <1>5 DEF CatalogInv, CatalogTypeOK
<1>9. CallInv(r)'
  <2>1. Asks(r)' BY <1>1, <1>2, <1>5, <1>7 DEF CallInv, Asks, Fetching
  <2>2. Holds(r)' /\ Justified(r)' /\ Fetched(r)' BY <1>5, <1>7 DEF Holds, Justified, Fetched, Fetching
  <2>3. reading'[r].stale \/ reading'[r].list = {} BY <1>5, <1>6, <1>7
  <2>4. Shows(r)' BY <2>3 DEF Shows
  <2> QED BY <2>1, <2>2, <2>4 DEF CallInv
<1>10. \A q \in Readers \ {r} : CallInv(q)' BY <1>1, <1>7, OtherCall DEF CatalogInv
<1>11. \A n \in Universes : Cached(n)' BY <1>1, OtherList DEF CatalogInv
<1> QED BY <1>8, <1>9, <1>10, <1>11 DEF CatalogInv

LEMMA AnswerKeepsCatalog ==
  ASSUME CatalogInv, NEW r \in Readers, Answer(r)
  PROVE  CatalogInv'
<1>1. /\ UNCHANGED <<clock, listed, cache>> /\ reading' = [reading EXCEPT ![r] = NoCall]
      /\ refreshing' = [m \in Universes |-> IF refreshing[m] = r THEN None ELSE refreshing[m]]
  BY DEF Answer
<1>2. NoCall \in CallRecord /\ NoCall.pc = "idle" BY DEF CallRecord, NoCall
<1>3. reading'[r] = NoCall /\ \A q \in Readers \ {r} : reading'[q] = reading[q]
  BY <1>1 DEF CatalogInv, CatalogTypeOK
<1>4. CatalogTypeOK' BY <1>1, <1>2 DEF CatalogInv, CatalogTypeOK
<1>5. CallInv(r)' BY <1>2, <1>3 DEF CallInv, Asks, Holds, Justified, Fetched, Shows, Fetching
<1>6. ASSUME NEW q \in Readers \ {r} PROVE CallInv(q)'
  <2>1. CallInv(q) BY DEF CatalogInv
  <2>2. Fetching(q) => reading[q].m \in Universes /\ refreshing[reading[q].m] = q
    BY <2>1 DEF CallInv, Asks, Holds, Fetching
  <2>3. Fetching(q) => refreshing'[reading[q].m] = refreshing[reading[q].m] BY <1>1, <2>2
  <2> QED BY <1>1, <1>3, <2>1, <2>3, OtherCall
<1>7. \A n \in Universes : Cached(n)' BY <1>1, OtherList DEF CatalogInv
<1> QED BY <1>4, <1>5, <1>6, <1>7 DEF CatalogInv

\* The clock leaves behind what was listed; it waits for a fetch to end in time.
LEMMA ElapseKeepsCatalog ==
  ASSUME CatalogInv, Elapse
  PROVE  CatalogInv'
<1>0. clock \in Nat \ {0} /\ Timeout \in Nat BY CatalogAssumption DEF CatalogInv, CatalogTypeOK
<1>1. clock' = clock + 1 /\ UNCHANGED <<cache, refreshing, reading>> BY DEF Elapse
<1>2. PICK symbols \in Trading : listed' = Append(listed, symbols) BY DEF Elapse
<1>3. symbols \in SUBSET DOMAIN SymbolInfo BY CatalogAssumption
<1>4. /\ listed' \in Seq(SUBSET DOMAIN SymbolInfo) /\ Len(listed') = clock + 1
      /\ \A u \in 1..clock : listed'[u] = listed[u]
  BY <1>0, <1>2, <1>3 DEF CatalogInv, CatalogTypeOK
<1>5. CatalogTypeOK' BY <1>0, <1>1, <1>4 DEF CatalogInv, CatalogTypeOK
<1>6. \A u \in 1..clock : u \in 1..(clock + 1) BY <1>0
<1>7. ASSUME NEW r \in Readers PROVE CallInv(r)'
  <2>1. CallInv(r) /\ reading'[r] = reading[r] /\ reading[r].checked \in Nat
    BY <1>1 DEF CatalogInv, CatalogTypeOK, CallRecord
  <2>2. Asks(r)' BY <1>0, <1>1, <2>1 DEF CallInv, Asks
  <2>3. Holds(r)'
    <3>1. Fetching(r) => clock < reading[r].checked + Timeout BY DEF Elapse, Fetching
    <3> QED BY <1>0, <1>1, <2>1, <3>1 DEF CallInv, Holds, Fetching
  <2>4. Justified(r)' BY <1>1, <2>1 DEF CallInv, Justified, Fetching
  <2>5. Fetched(r)' BY <1>1, <1>4, <1>6, <2>1 DEF CallInv, Fetched, ListedSince
  <2>6. Shows(r)' BY <1>1, <1>4, <1>6, <2>1 DEF CallInv, Shows, ListedSince
  <2> QED BY <2>2, <2>3, <2>4, <2>5, <2>6 DEF CallInv
<1>8. ASSUME NEW m \in Universes PROVE Cached(m)'
  <2>1. Cached(m) /\ cache'[m] = cache[m] /\ cache[m].at \in Nat
    BY <1>1 DEF CatalogInv, CatalogTypeOK
  <2>2. (cache[m].at <= clock)' BY <1>0, <1>1, <2>1 DEF Cached
  <2>3. cache[m].list # {} => ListedSince(m, cache[m].list, cache[m].at - Timeout)'
    BY <1>1, <1>4, <1>6, <2>1 DEF Cached, ListedSince
  <2> QED BY <1>1, <2>2, <2>3 DEF Cached
<1> QED BY <1>5, <1>7, <1>8 DEF CatalogInv

LEMMA CatalogStep == CatalogInv /\ [Next]_vars => CatalogInv'
<1> SUFFICES ASSUME CatalogInv, [Next]_vars PROVE CatalogInv' OBVIOUS
<1>1. CASE UNCHANGED catalogVars BY <1>1, CatalogUnchanged
<1>2. CASE CatalogNext
  <2>1. ASSUME NEW r \in Readers, NEW spelling \in Spellings, NEW query \in Queries,
               NEW limit \in {0, SymbolMax}, ListSymbols(r, spelling, query, limit)
        PROVE  CatalogInv'
    BY <2>1, ListKeepsCatalog
  <2>2. ASSUME NEW r \in Readers, Refresh(r) PROVE CatalogInv' BY <2>2, RefreshKeepsCatalog
  <2>3. ASSUME NEW r \in Readers, FetchAnswers(r) PROVE CatalogInv' BY <2>3, AnswerComesKeepsCatalog
  <2>4. ASSUME NEW r \in Readers, Store(r) PROVE CatalogInv' BY <2>4, StoreKeepsCatalog
  <2>5. ASSUME NEW r \in Readers, FetchFails(r) PROVE CatalogInv' BY <2>5, FetchFailsKeepsCatalog
  <2>6. ASSUME NEW r \in Readers, Answer(r) PROVE CatalogInv' BY <2>6, AnswerKeepsCatalog
  <2>7. CASE Elapse BY <2>7, ElapseKeepsCatalog
  <2> QED BY <1>2, <2>1, <2>2, <2>3, <2>4, <2>5, <2>6, <2>7 DEF CatalogNext
<1>3. CASE UNCHANGED vars BY <1>1, <1>3 DEF vars
<1> QED BY <1>1, <1>2, <1>3 DEF Next

-----------------------------------------------------------------------------
(* The walk. *)

\* A set of rows is finite.
LEMMA RowsFinite ==
  ASSUME NEW S, S \subseteq Rows
  PROVE  IsFiniteSet(S) /\ Cardinality(S) \in Nat
<1>1. IsFiniteSet(Rows) BY FS_Interval, ListingsAssumption DEF Rows
<1>2. IsFiniteSet(S) BY <1>1, FS_Subset
<1> QED BY <1>2, FS_CardinalityType

\* The rows a request selects are some of the table's, so finitely many.
LEMMA ScopeFinite ==
  ASSUME NEW q
  PROVE  /\ Scope(q) \subseteq Rows /\ IsFiniteSet(Scope(q)) /\ Cardinality(Scope(q)) \in Nat
         /\ \A r : IsFiniteSet(Before(q, r)) /\ Rank(q, r) \in Nat
<1>1. Scope(q) \subseteq Rows BY DEF Scope
<1>2. ASSUME NEW r PROVE IsFiniteSet(Before(q, r)) /\ Rank(q, r) \in Nat
  <2>1. Before(q, r) \subseteq Rows BY <1>1 DEF Before
  <2> QED BY <2>1, RowsFinite DEF Rank
<1> QED BY <1>1, <1>2, RowsFinite

\* Page sizes are positive.
LEMMA PageSizeType ==
  ASSUME NEW q \in PageRequests
  PROVE  PageSize(q.limit) \in Nat /\ PageSize(q.limit) >= 1
<1>1. MaxLimit \in Nat /\ DefaultLimit \in Nat /\ 1 <= DefaultLimit /\ DefaultLimit <= MaxLimit
  BY ListingsAssumption
<1>2. q.limit \in Int BY <1>1 DEF PageRequests
<1>3. normalizePage(q.limit) \in Nat /\ normalizePage(q.limit) >= 1
  BY <1>1, <1>2 DEF normalizePage
<1>4. PageSize(q.limit) = normalizePage(q.limit)
  BY DEF PageSize, normalizeOrderPage, clampAuditListLimit
<1> QED BY <1>3, <1>4

\* A row the list places comes, in whatever order the page is read, right after the
\* rows before it.
LEMMA Position ==
  ASSUME WalkTypeOK, NEW q, NEW s \in Orderings(q)
  PROVE  /\ Len(s) = Cardinality(Scope(q)) /\ DOMAIN s = 1..Len(s)
         /\ \A i \in DOMAIN s : s[i] \in Scope(q)
         /\ \A r \in Scope(q) : Placed(r) => \E i \in DOMAIN s : s[i] = r /\ i = Rank(q, r) + 1
<1> DEFINE n == Cardinality(Scope(q))
<1>1. /\ n \in Nat /\ IsFiniteSet(Scope(q)) /\ Scope(q) \subseteq Rows
      /\ s \in [1..n -> Scope(q)] /\ Sorted(s, ListOf[kind].tie)
      /\ \A i, j \in 1..n : i # j => s[i] # s[j]
  BY ScopeFinite DEF Orderings, SetToSeqs
<1> HIDE DEF n
<1>2. Len(s) = n
  <2>1. s \in Seq(Scope(q)) BY <1>1
  <2> QED BY <1>1, <2>1, LenProperties
<1>3. \A r \in Scope(q) : \E i \in 1..n : s[i] = r
  <2>1. IsFiniteSet(1..n) /\ Cardinality(1..n) = n BY <1>1, FS_Interval
  <2>2. s \in Injection(1..n, Scope(q)) BY <1>1 DEF Injection, IsInjective
  <2>3. s \in Surjection(1..n, Scope(q)) BY <1>1, <2>1, <2>2, FS_Injection DEF n
  <2> QED BY <2>3 DEF Surjection
<1>4. ASSUME NEW r \in Scope(q), Placed(r)
      PROVE  \E i \in 1..n : s[i] = r /\ i = Rank(q, r) + 1
  <2>1. PICK i \in 1..n : s[i] = r BY <1>3
  <2>2. \A x \in Scope(q) : rows[x].time \in Nat /\ x \in Rows /\ x \in Nat /\ rows[x] # None
    <3>1. ASSUME NEW x \in Scope(q) PROVE rows[x].time \in Nat /\ x \in Rows /\ x \in Nat /\ rows[x] # None
      <4>1. x \in Rows /\ rows[x] # None BY DEF Scope, Selects
      <4>2. rows[x] \in RowRecord BY <4>1 DEF WalkTypeOK
      <4>3. rows[x].time \in Times BY <4>2 DEF RowRecord
      <4>4. Times \subseteq Nat BY ListingsAssumption
      <4>5. rows[x].time \in Nat BY <4>3, <4>4
      <4>6. x \in Nat BY <4>1 DEF Rows
      <4> QED BY <4>1, <4>5, <4>6
    <3> QED BY <3>1
  <2> DEFINE tie == ListOf[kind].tie
  <2>3. \A j, k \in 1..n : j < k =>
          \/ rows[s[j]].time > rows[s[k]].time
          \/ rows[s[j]].time = rows[s[k]].time /\ (tie => s[j] > s[k])
    <3>1. Sorted(s, tie) /\ Len(s) = n BY <1>1, <1>2
    <3> HIDE DEF tie
    <3> QED BY <3>1, Zenon DEF Sorted
  <2> HIDE DEF tie
  <2>4. ASSUME NEW j \in 1..n PROVE s[j] \in Before(q, r) <=> j < i
    <3>1. s[j] \in Scope(q) BY <1>1
    <3>2. CASE j < i
      <4>1. \/ rows[s[j]].time > rows[r].time
            \/ rows[s[j]].time = rows[r].time /\ (tie => s[j] > r)
        BY <2>1, <2>3, <3>2
      <4>2. s[j] # r BY <1>1, <2>1, <3>2
      <4>3. rows[s[j]].time = rows[r].time => tie
        BY <1>4, <2>2, <3>1, <4>2 DEF Placed, tie
      <4> QED BY <3>1, <3>2, <4>1, <4>3 DEF Before, tie
    <3>3. CASE i < j
      <4>1. \/ rows[r].time > rows[s[j]].time
            \/ rows[r].time = rows[s[j]].time /\ (tie => r > s[j])
        BY <2>1, <2>3, <3>3
      <4>2. rows[r].time \in Nat /\ rows[s[j]].time \in Nat /\ r \in Nat /\ s[j] \in Nat
        BY <2>2, <3>1
      <4> QED BY <3>3, <4>1, <4>2 DEF Before, tie
    <3>4. CASE i = j
      <4>1. r \notin Before(q, r) BY <2>2 DEF Before
      <4> QED BY <2>1, <3>4, <4>1
    <3> QED BY <3>2, <3>3, <3>4
  <2>5. Rank(q, r) = i - 1
    <3> DEFINE f == [j \in 1..(i - 1) |-> s[j]]
    <3>1. \A j \in 1..(i - 1) : j \in 1..n /\ j < i BY <1>1
    <3>2. f \in [1..(i - 1) -> Before(q, r)] BY <2>4, <3>1
    <3>3. \A x \in Before(q, r) : \E j \in 1..(i - 1) : f[j] = x
      <4>1. SUFFICES ASSUME NEW x \in Before(q, r) PROVE \E j \in 1..(i - 1) : f[j] = x
        OBVIOUS
      <4>2. x \in Scope(q) BY DEF Before
      <4>3. PICK j \in 1..n : s[j] = x BY <1>3, <4>2
      <4>4. j \in 1..(i - 1) BY <1>1, <2>4, <4>3
      <4> QED BY <4>3, <4>4
    <3>4. \A j, k \in 1..(i - 1) : j # k => f[j] # f[k] BY <1>1, <3>1
    <3>5. f \in Bijection(1..(i - 1), Before(q, r))
      BY <3>2, <3>3, <3>4 DEF Bijection, Injection, Surjection, IsInjective
    <3>6. i - 1 \in Nat BY <1>1
    <3>7. ExistsBijection(1..(i - 1), Before(q, r)) BY <3>5 DEF ExistsBijection
    <3> QED BY <3>6, <3>7, FS_CountingElements DEF Rank
  <2> QED BY <1>1, <2>1, <2>5
<1>5. DOMAIN s = 1..n BY <1>1
<1> QED BY <1>1, <1>2, <1>4, <1>5 DEF n

\* A page holds no more rows than were asked for.
LEMMA PageBound ==
  ASSUME NEW s, NEW lo \in Nat, NEW size \in Nat
  PROVE  LET page == {s[i] : i \in (lo + 1)..(lo + size) \cap DOMAIN s}
         IN  IsFiniteSet(page) /\ Cardinality(page) \in Nat /\ Cardinality(page) <= size
<1> DEFINE I == (lo + 1)..(lo + size) \cap DOMAIN s
           page == {s[i] : i \in I}
           f == [i \in I |-> s[i]]
<1>1. IsFiniteSet((lo + 1)..(lo + size)) /\ Cardinality((lo + 1)..(lo + size)) = size
  BY FS_Interval
<1>2. IsFiniteSet(I) /\ Cardinality(I) <= size BY <1>1, FS_Intersection
<1>3. f \in Surjection(I, page) BY DEF Surjection
<1>4. IsFiniteSet(page) /\ Cardinality(page) <= Cardinality(I) BY <1>2, <1>3, FS_Surjection
<1>5. Cardinality(page) \in Nat /\ Cardinality(I) \in Nat BY <1>2, <1>4, FS_CardinalityType
<1> QED BY <1>2, <1>4, <1>5

\* What is true of every list of rows.
LEMMA ListKinds ==
  ASSUME kind \in RowLists
  PROVE  /\ ListOf[kind].more \in BOOLEAN
         /\ ~ListOf[kind].countFirst => ListOf[kind].more
         /\ FirstStatement = IF ListOf[kind].countFirst THEN "count" ELSE "page"
<1>1. ListOf[kind].more \in BOOLEAN /\ (~ListOf[kind].countFirst => ListOf[kind].more)
  BY DEF RowLists, OrderLists, PageLists, AuditLists, ListOf, List,
         QueryOrderIntentsPaginated, QueryOrderAttemptsPaginated, QueryOrdersPaginated, QueryOrderFillsPaginated,
         ListAccountsPage, ListVenuesPage, ListStrategiesPage, ListSessionsPage,
         ListSessionSnapshots, ListReconciliationRuns
<1> QED BY <1>1 DEF FirstStatement

\* A request asks for a page in one of the ways the invariant knows.
LEMMA RequestType == Requests \subseteq PageRequests
  BY DEF Requests, Ask, PageRequests, QueryOrdersRequests, ListAccountsRequests, ListVenuesRequests,
         ListStrategiesRequests, ListSessionsRequests, ListSnapshotsRequests, ListRunsRequests

\* What is selected, and how it is placed, depends on the rows alone.
LEMMA SameRows ==
  ASSUME UNCHANGED <<kind, rows>>, NEW q
  PROVE  /\ Scope(q)' = Scope(q)
         /\ \A r : Rank(q, r)' = Rank(q, r) /\ (Placed(r)' <=> Placed(r))
<1>1. Scope(q)' = Scope(q)
  BY DEF Scope, Selects, buildIntentScopedWhere, OwnedWhere
<1>2. ASSUME NEW r PROVE Rank(q, r)' = Rank(q, r) BY <1>1 DEF Rank, Before
<1>3. ASSUME NEW r PROVE Placed(r)' <=> Placed(r) BY DEF Placed
<1> QED BY <1>1, <1>2, <1>3

\* Rows that arrive push others back and place none that was not.
LEMMA MoreRows ==
  ASSUME WalkTypeOK, kind' = kind, NEW q,
         \A x \in Rows : rows[x] # None => rows'[x] # None /\ rows'[x].time = rows[x].time,
         Scope(q) \subseteq Scope(q)', NEW r \in Scope(q)
  PROVE  (Placed(r)' => Placed(r)) /\ Rank(q, r)' >= Rank(q, r)
<1>1. \A x \in Scope(q) : x \in Rows /\ rows[x] # None BY DEF Scope, Selects
<1>2. Placed(r)' => Placed(r)
  BY <1>1 DEF Placed
<1>3. Before(q, r) \subseteq Before(q, r)'
  <2>1. SUFFICES ASSUME NEW x \in Before(q, r) PROVE x \in Before(q, r)'
    OBVIOUS
  <2>2. x \in Scope(q) /\ x \in Scope(q)' BY DEF Before
  <2>3. rows'[x].time = rows[x].time /\ rows'[r].time = rows[r].time BY <1>1, <2>2
  <2>4. \/ rows[x].time > rows[r].time
        \/ rows[x].time = rows[r].time /\ ListOf[kind].tie /\ x > r
    BY DEF Before
  <2> QED BY <2>2, <2>3, <2>4 DEF Before
<1>4. IsFiniteSet(Before(q, r)')
  <2>1. Before(q, r)' \subseteq Rows BY DEF Before, Scope
  <2> QED BY <2>1, RowsFinite
<1>5. /\ Cardinality(Before(q, r)) <= Cardinality(Before(q, r)')
      /\ Cardinality(Before(q, r)) \in Nat /\ Cardinality(Before(q, r)') \in Nat
  BY <1>3, <1>4, FS_Subset, FS_CardinalityType
<1> QED BY <1>2, <1>5 DEF Rank

\* A response keeps the walk's invariant if every row owed is in it, was before, or is
\* ahead of the next page, which is asked for.
LEMMA ReplyKeeps ==
  ASSUME WalkTypeOK, UNCHANGED <<kind, rows>>, kind \in RowLists, NEW w \in WalkRecord,
         NEW q \in PageRequests, w.q = q, w.pc # "idle", Cardinality(w.page) \in Nat,
         walk' = Reply(w),
         ~w.disturbed => \A r \in w.base :
           /\ r \in Scope(q)
           /\ Placed(r) => \/ r \in w.seen \cup w.page
                           \/ /\ Rank(q, r) >= w.offset + Cardinality(w.page)
                              /\ IF ListOf[kind].more THEN w.more
                                 ELSE w.offset + Cardinality(w.page) < w.total /\ w.page # {}
  PROVE  WalkInv'
<1> DEFINE next == w.offset + Cardinality(w.page)
           goOn == IF ListOf[kind].more THEN w.more ELSE next < w.total /\ w.page # {}
<1>1. walk' = [w EXCEPT !.pc = IF goOn THEN FirstStatement ELSE "done", !.seen = w.seen \cup w.page,
                        !.offset = next]
  BY DEF Reply, NextOffset
<1>2. w.offset \in Nat /\ next \in Nat /\ w.seen \subseteq Rows /\ w.page \subseteq Rows BY DEF WalkRecord
<1>3. FirstStatement = IF ListOf[kind].countFirst THEN "count" ELSE "page" BY ListKinds
<1> HIDE DEF goOn, next
<1>4. /\ walk'.pc = (IF goOn THEN FirstStatement ELSE "done") /\ walk'.q = q
      /\ walk'.offset = next /\ walk'.seen = w.seen \cup w.page /\ walk'.base = w.base
      /\ walk'.disturbed = w.disturbed
  BY <1>1 DEF WalkRecord
<1>5. walk' \in WalkRecord
  <2>1. (IF goOn THEN FirstStatement ELSE "done") \in {"idle", "all", "count", "page", "done"} BY <1>3
  <2>2. w.seen \cup w.page \in SUBSET Rows BY <1>2
  <2> QED BY <1>1, <1>2, <2>1, <2>2 DEF WalkRecord
<1>6. WalkTypeOK' BY <1>4, <1>5 DEF WalkTypeOK
<1>7. TotalTrue'
  <2>1. walk'.pc = "page" => ListOf[kind].more BY <1>3, <1>4, ListKinds
  <2> QED BY <2>1 DEF TotalTrue
<1>8. NothingSkipped'
  <2> SUFFICES ASSUME ~w.disturbed, NEW r \in w.base
               PROVE  r \in Scope(q)' /\ (Placed(r)' => Owed(q, r)')
    BY <1>4 DEF NothingSkipped
  <2>1. r \in Scope(q)' /\ (Placed(r)' => Placed(r)) /\ Rank(q, r)' = Rank(q, r) BY SameRows
  <2>2. Placed(r) => r \in w.seen \cup w.page \/ (Rank(q, r) >= next /\ goOn)
    BY DEF next, goOn
  <2>3. ~(walk'.pc = "count" /\ ~ListOf[kind].countFirst) BY <1>3, <1>4
  <2>4. walk'.pc = "done" => ~goOn BY <1>3, <1>4
  <2>5. Placed(r)' => Owed(q, r)' BY <1>4, <2>1, <2>2, <2>3, <2>4 DEF Owed
  <2> QED BY <2>1, <2>5
<1> QED BY <1>6, <1>7, <1>8 DEF WalkInv

\* A walk starts with nothing skipped.
LEMMA BeginKeeps ==
  ASSUME WalkInv, NEW q \in PageRequests, Begin(q)
  PROVE  WalkInv'
<1>1. /\ kind \in RowLists /\ UNCHANGED <<kind, rows>> /\ WalkTypeOK
      /\ walk' = [NoWalk EXCEPT !.pc = IF Unpaged(q) THEN "all" ELSE FirstStatement,
                                !.q = q, !.base = Scope(q)]
  BY DEF Begin, WalkInv
<1>2. FirstStatement = IF ListOf[kind].countFirst THEN "count" ELSE "page" BY <1>1, ListKinds
<1>3. Scope(q) \subseteq Rows BY ScopeFinite
<1>4. /\ walk' \in WalkRecord /\ walk'.q = q /\ walk'.offset = 0 /\ walk'.base = Scope(q)
      /\ walk'.pc \in {"all", FirstStatement}
  BY <1>1, <1>2, <1>3 DEF NoWalk, WalkRecord
<1>5. WalkTypeOK' BY <1>1, <1>4 DEF WalkTypeOK
<1>6. TotalTrue'
  <2>1. walk'.pc = "page" => ListOf[kind].more BY <1>1, <1>2, <1>4, ListKinds
  <2> QED BY <1>1, <2>1 DEF TotalTrue
<1>7. NothingSkipped'
  <2> SUFFICES ASSUME NEW r \in Scope(q) PROVE r \in Scope(q)' /\ Owed(q, r)'
    BY <1>4 DEF NothingSkipped
  <2>1. r \in Scope(q)' /\ Rank(q, r)' = Rank(q, r) BY <1>1, SameRows
  <2>2. Rank(q, r) >= 0 BY ScopeFinite
  <2>3. walk'.pc = "count" => ListOf[kind].countFirst BY <1>2, <1>4
  <2>4. walk'.pc # "done" BY <1>2, <1>4
  <2> QED BY <1>1, <1>4, <2>1, <2>2, <2>3, <2>4 DEF Owed
<1> QED BY <1>5, <1>6, <1>7 DEF WalkInv

\* The whole list in one response misses nothing.
LEMMA ReadAllKeeps ==
  ASSUME WalkInv, ReadAll
  PROVE  WalkInv'
<1>1. WalkTypeOK /\ walk.pc = "all" /\ UNCHANGED <<kind, rows>> /\ walk \in WalkRecord
  BY DEF ReadAll, WalkInv, WalkTypeOK
<1>2. PICK q \in PageRequests : walk.q = q BY <1>1 DEF WalkTypeOK
<1>3. Scope(q) \subseteq Rows /\ Cardinality(Scope(q)) \in Nat BY ScopeFinite
<1>4. walk' = [walk EXCEPT !.pc = "done", !.seen = Scope(q), !.total = Cardinality(Scope(q))]
  BY <1>2 DEF ReadAll
<1>5. /\ walk' \in WalkRecord /\ walk'.q = q /\ walk'.pc = "done" /\ walk'.seen = Scope(q)
      /\ walk'.base = walk.base /\ walk'.disturbed = walk.disturbed
  BY <1>1, <1>2, <1>3, <1>4 DEF WalkRecord
<1>6. WalkTypeOK' BY <1>1, <1>2, <1>5 DEF WalkTypeOK
<1>7. TotalTrue' BY <1>5 DEF TotalTrue
<1>8. NothingSkipped'
  <2> SUFFICES ASSUME ~walk.disturbed, NEW r \in walk.base PROVE r \in Scope(q)' /\ Owed(q, r)'
    BY <1>5 DEF NothingSkipped
  <2>1. r \in Scope(q) /\ Scope(q)' = Scope(q) BY <1>1, <1>2, SameRows DEF WalkInv, NothingSkipped
  <2> QED BY <1>5, <2>1 DEF Owed
<1> QED BY <1>6, <1>7, <1>8 DEF WalkInv

\* The COUNT of a list is true of what its page read will see.
LEMMA CountKeeps ==
  ASSUME WalkInv, Count
  PROVE  WalkInv'
<1>1. WalkTypeOK /\ walk.pc = "count" /\ UNCHANGED <<kind, rows>> /\ walk \in WalkRecord /\ kind \in RowLists
  BY DEF Count, WalkInv, WalkTypeOK
<1>2. PICK q \in PageRequests : walk.q = q BY <1>1 DEF WalkTypeOK
<1>3. Cardinality(Scope(q)) \in Nat BY ScopeFinite
<1> DEFINE w == [walk EXCEPT !.total = Cardinality(Scope(q))]
<1>4. walk' = IF ListOf[kind].countFirst THEN [w EXCEPT !.pc = "page"] ELSE Reply(w)
  BY <1>2 DEF Count
<1>5. /\ w \in WalkRecord /\ w.q = q /\ w.pc = "count" /\ w.disturbed = walk.disturbed
      /\ w.base = walk.base /\ w.seen = walk.seen /\ w.page = walk.page /\ w.more = walk.more
      /\ w.offset = walk.offset /\ w.total = Cardinality(Scope(q))
  BY <1>1, <1>2, <1>3 DEF WalkRecord
<1> HIDE DEF w
<1>6. CASE ListOf[kind].countFirst
  <2>1. /\ walk' \in WalkRecord /\ walk'.q = q /\ walk'.pc = "page" /\ walk'.disturbed = walk.disturbed
        /\ walk'.base = walk.base /\ walk'.seen = walk.seen /\ walk'.offset = walk.offset
        /\ walk'.total = Cardinality(Scope(q))
    BY <1>4, <1>5, <1>6 DEF WalkRecord
  <2>2. WalkTypeOK' BY <1>1, <2>1 DEF WalkTypeOK
  <2>3. TotalTrue' BY <1>1, <2>1, SameRows DEF TotalTrue
  <2>4. NothingSkipped'
    <3> SUFFICES ASSUME ~walk.disturbed, NEW r \in walk.base
                 PROVE  r \in Scope(q)' /\ (Placed(r)' => Owed(q, r)')
      BY <2>1 DEF NothingSkipped
    <3>1. r \in Scope(q) /\ (Placed(r) => Owed(q, r))
      BY <1>1, <1>2 DEF WalkInv, NothingSkipped
    <3>2. r \in Scope(q)' /\ (Placed(r)' => Placed(r)) /\ Rank(q, r)' = Rank(q, r)
      BY <1>1, <3>1, SameRows
    <3> QED BY <1>1, <1>6, <2>1, <3>1, <3>2 DEF Owed
  <2> QED BY <2>2, <2>3, <2>4 DEF WalkInv
<1>7. CASE ~ListOf[kind].countFirst
  <2>1. walk' = Reply(w) /\ ListOf[kind].more BY <1>1, <1>4, <1>7, ListKinds
  <2>2. Cardinality(w.page) \in Nat
    <3>1. w.page \subseteq Rows BY <1>5 DEF WalkRecord
    <3> QED BY <3>1, RowsFinite
  <2>3. ASSUME ~w.disturbed, NEW r \in w.base
        PROVE  /\ r \in Scope(q)
               /\ Placed(r) => \/ r \in w.seen \cup w.page
                               \/ Rank(q, r) >= w.offset + Cardinality(w.page) /\ w.more
    BY <1>1, <1>2, <1>5, <1>7, <2>3 DEF WalkInv, NothingSkipped, Owed
  <2> QED BY <1>1, <1>5, <2>1, <2>2, <2>3, ReplyKeeps
<1> QED BY <1>6, <1>7

\* A page takes the rows at its offset, and leaves the later ones ahead.
LEMMA PageKeeps ==
  ASSUME WalkInv, ReadPage
  PROVE  WalkInv'
<1>1. WalkTypeOK /\ walk.pc = "page" /\ UNCHANGED <<kind, rows>> /\ walk \in WalkRecord /\ kind \in RowLists
  BY DEF ReadPage, WalkInv, WalkTypeOK
<1>2. PICK q \in PageRequests : walk.q = q BY <1>1 DEF WalkTypeOK
<1> DEFINE size == PageSize(q.limit)
           last == walk.offset + size
<1>3. size \in Nat /\ size >= 1 /\ walk.offset \in Nat /\ last \in Nat
  BY <1>1, PageSizeType DEF WalkRecord
<1>4. PICK s \in Orderings(q) :
        LET page == {s[i] : i \in (walk.offset + 1)..last \cap DOMAIN s}
            w == [walk EXCEPT !.page = page, !.more = ListOf[kind].more /\ Len(s) > last]
        IN walk' = IF ListOf[kind].countFirst THEN Reply(w) ELSE [w EXCEPT !.pc = "count"]
  BY <1>2 DEF ReadPage
<1> DEFINE page == {s[i] : i \in (walk.offset + 1)..last \cap DOMAIN s}
           more == ListOf[kind].more /\ Len(s) > last
           w == [walk EXCEPT !.page = page, !.more = more]
<1>5. walk' = IF ListOf[kind].countFirst THEN Reply(w) ELSE [w EXCEPT !.pc = "count"] BY <1>4
<1>6. /\ Len(s) = Cardinality(Scope(q)) /\ DOMAIN s = 1..Len(s) /\ Len(s) \in Nat
      /\ \A i \in DOMAIN s : s[i] \in Scope(q)
      /\ \A r \in Scope(q) : Placed(r) => \E i \in DOMAIN s : s[i] = r /\ i = Rank(q, r) + 1
  BY <1>1, Position, ScopeFinite
<1>7. Cardinality(page) \in Nat /\ Cardinality(page) <= size BY <1>3, PageBound
<1>8. page \subseteq Rows BY <1>6, ScopeFinite
<1>9. last >= walk.offset + Cardinality(page)
  <2> HIDE DEF size, page
  <2> QED BY <1>3, <1>7
<1>10. more \in BOOLEAN BY <1>1, ListKinds
\* A row that was ahead is on this page or on a later one, which will be asked for.
<1>11. ASSUME NEW r \in Scope(q), Placed(r), Rank(q, r) >= walk.offset, ~walk.disturbed
       PROVE  \/ r \in page
              \/ /\ Rank(q, r) >= walk.offset + Cardinality(page)
                 /\ Len(s) > last
                 /\ ~ListOf[kind].more => walk.offset + Cardinality(page) < walk.total /\ page # {}
  <2>1. PICK i \in 1..Len(s) : s[i] = r /\ i = Rank(q, r) + 1 BY <1>6, <1>11
  <2>2. Rank(q, r) \in Nat /\ i > walk.offset BY <1>3, <1>11, <2>1, ScopeFinite
  <2>3. CASE i <= last
    <3>1. i \in (walk.offset + 1)..last \cap DOMAIN s BY <1>3, <1>6, <2>2, <2>3
    <3> QED BY <2>1, <3>1
  <2>4. CASE i > last
    <3> HIDE DEF last, page, size
    <3>1. Rank(q, r) >= last /\ Len(s) > last BY <1>3, <1>6, <2>1, <2>2, <2>4
    <3>2. Rank(q, r) >= walk.offset + Cardinality(page)
      BY <1>3, <1>7, <1>9, <2>2, <3>1
    <3>3. ASSUME ~ListOf[kind].more
          PROVE  walk.offset + Cardinality(page) < walk.total /\ page # {}
      <4>1. walk.total = Len(s)
        BY <1>1, <1>2, <1>6, <1>11, <3>3 DEF WalkInv, TotalTrue
      <4>2. walk.offset + Cardinality(page) < walk.total BY <1>3, <1>6, <1>7, <1>9, <3>1, <4>1
      <4>3. walk.offset + 1 \in (walk.offset + 1)..last \cap DOMAIN s
        BY <1>3, <1>6, <3>1 DEF last
      <4>4. s[walk.offset + 1] \in page BY <4>3 DEF page
      <4> QED BY <4>2, <4>4
    <3> QED BY <3>1, <3>2, <3>3
  <2> QED BY <1>3, <1>6, <2>1, <2>3, <2>4
<1>12. ASSUME ~walk.disturbed, NEW r \in walk.base
       PROVE  /\ r \in Scope(q)
              /\ Placed(r) => r \in walk.seen \/ Rank(q, r) >= walk.offset
  BY <1>1, <1>2, <1>12 DEF WalkInv, NothingSkipped, Owed
<1>13. /\ w \in WalkRecord /\ w.q = q /\ w.pc = "page" /\ w.disturbed = walk.disturbed
       /\ w.base = walk.base /\ w.seen = walk.seen /\ w.page = page /\ w.more = more
       /\ w.offset = walk.offset /\ w.total = walk.total
  <2> HIDE DEF page, more
  <2> QED BY <1>1, <1>2, <1>8, <1>10 DEF WalkRecord
<1> HIDE DEF w, page
<1>14. CASE ListOf[kind].countFirst
  <2>1. ASSUME ~w.disturbed, NEW r \in w.base
        PROVE  /\ r \in Scope(q)
               /\ Placed(r) => \/ r \in w.seen \cup w.page
                               \/ /\ Rank(q, r) >= w.offset + Cardinality(w.page)
                                  /\ IF ListOf[kind].more THEN w.more
                                     ELSE w.offset + Cardinality(w.page) < w.total /\ w.page # {}
    BY <1>11, <1>12, <1>13, <2>1
  <2>2. walk' = Reply(w) BY <1>5, <1>14
  <2> QED BY <1>1, <1>7, <1>13, <2>1, <2>2, ReplyKeeps
<1>15. CASE ~ListOf[kind].countFirst
  <2> HIDE DEF more
  <2>1. /\ walk' \in WalkRecord /\ walk'.q = q /\ walk'.pc = "count" /\ walk'.disturbed = walk.disturbed
        /\ walk'.base = walk.base /\ walk'.seen = walk.seen /\ walk'.offset = walk.offset
        /\ walk'.page = page /\ walk'.more = more
    BY <1>5, <1>13, <1>15 DEF WalkRecord
  <2>2. WalkTypeOK' BY <1>1, <2>1 DEF WalkTypeOK
  <2>3. TotalTrue' BY <2>1 DEF TotalTrue
  <2>4. NothingSkipped'
    <3> SUFFICES ASSUME ~walk.disturbed, NEW r \in walk.base
                 PROVE  r \in Scope(q)' /\ (Placed(r)' => Owed(q, r)')
      BY <2>1 DEF NothingSkipped
    <3>1. r \in Scope(q) /\ (Placed(r) => r \in walk.seen \/ Rank(q, r) >= walk.offset) BY <1>12
    <3>2. r \in Scope(q)' /\ (Placed(r)' => Placed(r)) /\ Rank(q, r)' = Rank(q, r)
      BY <1>1, <3>1, SameRows
    <3>3. ListOf[kind].more BY <1>1, <1>15, ListKinds
    <3>4. Placed(r) => \/ r \in walk.seen \cup page
                       \/ more /\ Rank(q, r) >= walk.offset + Cardinality(page)
      BY <1>11, <3>1, <3>3 DEF more
    <3> QED BY <1>1, <1>15, <2>1, <3>2, <3>4 DEF Owed
  <2> QED BY <2>2, <2>3, <2>4 DEF WalkInv
<1> QED BY <1>14, <1>15

\* A row more in the table loses the client none of the rows it is owed, nor does a row
\* that leaves the active ones of a list that also shows the others.
LEMMA WritersKeep ==
  ASSUME WalkInv, kind' = kind,
         rows' \in [Rows -> RowRecord \cup {None}],
         \A x \in Rows : rows[x] # None => rows'[x] # None /\ rows'[x].time = rows[x].time,
         NEW gone \in BOOLEAN, NEW base \in SUBSET walk.base,
         walk' = [walk EXCEPT !.base = base, !.disturbed = walk.disturbed \/ gone],
         gone \/ walk.pc = "idle" \/ (\A q \in PageRequests : walk.q = q => Scope(q) \subseteq Scope(q)'),
         gone \/ walk.pc # "page" \/ ListOf[kind].more
           \/ \A q \in PageRequests : walk.q = q => Scope(q)' = Scope(q)
  PROVE  WalkInv'
<1>1. WalkTypeOK /\ walk \in WalkRecord BY DEF WalkInv, WalkTypeOK
<1>2. base \in SUBSET Rows /\ (walk.disturbed \/ gone) \in BOOLEAN BY <1>1 DEF WalkRecord
<1>3. /\ walk' \in WalkRecord /\ walk'.pc = walk.pc /\ walk'.q = walk.q /\ walk'.offset = walk.offset
      /\ walk'.total = walk.total /\ walk'.more = walk.more /\ walk'.page = walk.page
      /\ walk'.seen = walk.seen /\ walk'.base = base
      /\ walk'.disturbed = (walk.disturbed \/ gone)
  BY <1>1, <1>2 DEF WalkRecord
<1>4. WalkTypeOK' BY <1>1, <1>3 DEF WalkTypeOK
<1>5. TotalTrue'
  <2> SUFFICES ASSUME NEW q \in PageRequests, walk.q = q, walk.pc = "page", ~ListOf[kind].more,
                      ~walk.disturbed, ~gone
               PROVE  walk.total = Cardinality(Scope(q)')
    BY <1>3 DEF TotalTrue
  <2>1. walk.total = Cardinality(Scope(q)) BY DEF WalkInv, TotalTrue
  <2>2. Scope(q)' = Scope(q) OBVIOUS
  <2> QED BY <2>1, <2>2
<1>6. NothingSkipped'
  <2> SUFFICES ASSUME NEW q \in PageRequests, walk.q = q, walk.pc # "idle",
                      ~walk.disturbed, ~gone, NEW r \in base
               PROVE  r \in Scope(q)' /\ (Placed(r)' => Owed(q, r)')
    BY <1>3 DEF NothingSkipped
  <2>1. r \in Scope(q) /\ (Placed(r) => Owed(q, r)) BY DEF WalkInv, NothingSkipped
  <2>2. r \in Scope(q)' /\ Scope(q) \subseteq Scope(q)' BY <2>1
  <2>3. (Placed(r)' => Placed(r)) /\ Rank(q, r)' >= Rank(q, r) BY <1>1, <2>1, <2>2, MoreRows
  <2>4. Rank(q, r)' \in Nat /\ Rank(q, r) \in Nat
    <3>1. Before(q, r)' \subseteq Rows BY DEF Before, Scope
    <3>2. Rank(q, r)' \in Nat BY <3>1, RowsFinite DEF Rank
    <3> QED BY <3>2, ScopeFinite
  <2>5. walk.offset \in Nat /\ Cardinality(walk.page) \in Nat
    <3>1. walk.page \subseteq Rows /\ walk.offset \in Nat BY <1>1 DEF WalkRecord
    <3> QED BY <3>1, RowsFinite
  <2>6. \A n \in Nat : Rank(q, r) >= n => Rank(q, r)' >= n BY <2>3, <2>4
  <2>7. Rank(q, r) >= walk.offset => Rank(q, r)' >= walk.offset BY <2>5, <2>6
  <2>8. walk.offset + Cardinality(walk.page) \in Nat BY <2>5
  <2>9. Rank(q, r) >= walk.offset + Cardinality(walk.page)
          => Rank(q, r)' >= walk.offset + Cardinality(walk.page)
    BY <2>6, <2>8
  <2> QED BY <1>3, <2>1, <2>2, <2>3, <2>7, <2>9 DEF Owed
<1> QED BY <1>4, <1>5, <1>6 DEF WalkInv

\* A row that arrives.
LEMMA InsertKeeps ==
  ASSUME WalkInv, NEW r \in Rows, NEW t \in Times, InsertRow(r, t)
  PROVE  WalkInv'
<1> DEFINE gone == walk.pc = "page" /\ ~ListOf[kind].more
<1>1. WalkTypeOK /\ walk \in WalkRecord BY DEF WalkInv, WalkTypeOK
<1>2. /\ kind' = kind /\ rows[r] = None
      /\ rows' = [rows EXCEPT ![r] = [time |-> t, active |-> TRUE]]
      /\ walk' = IF gone THEN [walk EXCEPT !.disturbed = TRUE] ELSE walk
  BY DEF InsertRow
<1>3. [time |-> t, active |-> TRUE] \in RowRecord /\ None \notin RowRecord
  BY ListingsAssumption DEF RowRecord
<1>4. rows' \in [Rows -> RowRecord \cup {None}] BY <1>1, <1>2, <1>3 DEF WalkTypeOK
<1>5. \A x \in Rows : rows[x] # None => rows'[x] = rows[x] BY <1>1, <1>2 DEF WalkTypeOK
<1>6. \A q \in PageRequests : Scope(q) \subseteq Scope(q)'
  BY <1>2, <1>5 DEF Scope, Selects, buildIntentScopedWhere, OwnedWhere
<1>7. walk' = [walk EXCEPT !.base = walk.base, !.disturbed = walk.disturbed \/ gone]
  BY <1>1, <1>2 DEF WalkRecord
<1>8. gone \in BOOLEAN /\ walk.base \in SUBSET walk.base OBVIOUS
<1>9. gone \/ walk.pc # "page" \/ ListOf[kind].more OBVIOUS
<1> HIDE DEF gone
<1> QED BY <1>2, <1>4, <1>5, <1>6, <1>7, <1>8, <1>9, WritersKeep

\* A row that leaves the active ones.
LEMMA DeactivateKeeps ==
  ASSUME WalkInv, NEW r \in Rows, DeactivateRow(r)
  PROVE  WalkInv'
<1> DEFINE gone == Walking /\ walk.q.active
           base == IF gone THEN walk.base \ {r} ELSE walk.base
<1>1. WalkTypeOK /\ walk \in WalkRecord BY DEF WalkInv, WalkTypeOK
<1>2. /\ kind' = kind /\ rows[r] # None /\ kind \notin OrderLists /\ walk.pc # "done"
      /\ rows' = [rows EXCEPT ![r].active = FALSE]
      /\ walk' = IF gone THEN [walk EXCEPT !.base = @ \ {r}, !.disturbed = TRUE] ELSE walk
  BY DEF DeactivateRow, OrderLists
<1>3. rows[r] \in RowRecord BY <1>1, <1>2 DEF WalkTypeOK
<1>4. [rows[r] EXCEPT !.active = FALSE] \in RowRecord /\ None \notin RowRecord
      /\ [rows[r] EXCEPT !.active = FALSE].time = rows[r].time
  BY <1>3, ListingsAssumption DEF RowRecord
<1>5. rows' = [rows EXCEPT ![r] = [rows[r] EXCEPT !.active = FALSE]]
  BY <1>1, <1>2 DEF WalkTypeOK
<1>6. /\ rows' \in [Rows -> RowRecord \cup {None}]
      /\ \A x \in Rows : x # r => rows'[x] = rows[x]
      /\ rows'[r] \in RowRecord /\ rows'[r].time = rows[r].time
  BY <1>1, <1>4, <1>5 DEF WalkTypeOK
<1>7. \A x \in Rows : rows[x] # None => rows'[x] # None /\ rows'[x].time = rows[x].time
  BY <1>4, <1>6
<1>8. gone \/ walk.pc = "idle" \/ \A q \in PageRequests : walk.q = q => Scope(q)' = Scope(q)
  <2> SUFFICES ASSUME NEW q \in PageRequests, ~q.active PROVE Scope(q)' = Scope(q)
    BY <1>2 DEF Walking
  <2>1. \A x \in Rows : rows'[x] # None <=> rows[x] # None BY <1>2, <1>4, <1>6
  <2> QED BY <1>2, <2>1 DEF Scope, Selects, OwnedWhere
<1>9. walk' = [walk EXCEPT !.base = base, !.disturbed = walk.disturbed \/ gone]
  BY <1>1, <1>2 DEF WalkRecord
<1>10. gone \in BOOLEAN /\ base \in SUBSET walk.base
  <2>1. Walking => walk.q.active \in BOOLEAN BY <1>1 DEF Walking, WalkTypeOK, PageRequests
  <2> QED BY <2>1
<1>11. gone \/ walk.pc = "idle" \/ \A q \in PageRequests : walk.q = q => Scope(q) \subseteq Scope(q)'
  BY <1>8
<1> HIDE DEF gone, base
<1> QED BY <1>2, <1>6, <1>7, <1>8, <1>9, <1>10, <1>11, WritersKeep

\* Every step of the lists keeps what a client is owed.
LEMMA WalkStep == WalkInv /\ [Next]_vars => WalkInv'
<1> SUFFICES ASSUME WalkInv, [Next]_vars PROVE WalkInv' OBVIOUS
<1>1. CASE UNCHANGED <<kind, rowVars>>
  <2>1. UNCHANGED <<kind, rows, walk>> BY <1>1 DEF rowVars
  <2>2. WalkTypeOK' BY <2>1 DEF WalkInv, WalkTypeOK
  <2>3. TotalTrue' BY <2>1, SameRows DEF WalkInv, TotalTrue
  <2>4. NothingSkipped' BY <2>1, SameRows DEF WalkInv, NothingSkipped, Owed
  <2> QED BY <2>2, <2>3, <2>4 DEF WalkInv
<1>2. CASE ListNext
  <2>1. ASSUME NEW q \in Requests, Begin(q) PROVE WalkInv' BY <2>1, RequestType, BeginKeeps
  <2>2. CASE ListAccounts \/ ListStrategies BY <2>2, ReadAllKeeps DEF ListAccounts, ListStrategies
  <2>3. CASE Count BY <2>3, CountKeeps
  <2>4. CASE ReadPage BY <2>4, PageKeeps
  <2>5. ASSUME NEW r \in Rows, NEW t \in Times, InsertRow(r, t) PROVE WalkInv' BY <2>5, InsertKeeps
  <2>6. ASSUME NEW r \in Rows, DeactivateRow(r) PROVE WalkInv' BY <2>6, DeactivateKeeps
  <2>7. CASE \E w \in Writers : SaveLifecycleEvent(w) \/ SaveFails(w) \/ \E e \in Events : DrawEventId(w, e)
    BY <1>1, <2>7 DEF SaveLifecycleEvent, SaveFails, DrawEventId
  <2>8. CASE \E limit \in {0, 1, MaxLimit + 1} : PollEvents(limit) BY <1>1, <2>8 DEF PollEvents
  <2> QED BY <1>2, <2>1, <2>2, <2>3, <2>4, <2>5, <2>6, <2>7, <2>8 DEF ListNext
<1>3. CASE UNCHANGED listVars BY <1>1, <1>3 DEF listVars
<1>4. CASE UNCHANGED vars BY <1>3, <1>4 DEF vars
<1> QED BY <1>2, <1>3, <1>4 DEF Next

\* Before the first request nothing is owed.
LEMMA WalkInit == Init => WalkInv
<1> SUFFICES ASSUME Init PROVE WalkInv OBVIOUS
<1>1. walk \in WalkRecord /\ walk.pc = "idle" BY DEF Init, NoWalk, WalkRecord
<1>2. WalkTypeOK BY <1>1 DEF Init, WalkTypeOK
<1> QED BY <1>1, <1>2 DEF WalkInv, TotalTrue, NothingSkipped

-----------------------------------------------------------------------------
(* The theorems. *)

\* Types, the catalog's mutex and clock, the feed's ids and rows, and what a client is
\* still owed are as the invariant says, in every reachable state of the lists.
THEOREM Inductive == Spec => []IInv
<1>1. Init => IInv BY CatalogStart, FeedInit, WalkInit DEF Init, IInv
<1>2. IInv /\ [Next]_vars => IInv' BY CatalogStep, FeedStep, WalkStep DEF IInv
<1> QED BY <1>1, <1>2, PTL DEF Spec

\* An answer not flagged as stale is no older than a TTL and a fetch, whatever other
\* calls fetched, waited for or failed at (Catalog.List).
THEOREM CatalogFreshHolds == Spec => []CatalogFresh
<1>1. IInv => CatalogFresh
  <2> SUFFICES ASSUME IInv, NEW r \in Readers,
                      reading[r].pc = "answer", ~reading[r].stale, reading[r].list # {}
               PROVE  \E t \in 1..clock :
                        /\ t >= reading[r].checked - TTL - Timeout
                        /\ filterSymbols(reading[r].list, reading[r].query, reading[r].limit)
                             = filterSymbols(Fetch(reading[r].m, listed[t]), reading[r].query, reading[r].limit)
    BY DEF CatalogFresh
  <2>1. Shows(r) BY DEF IInv, CatalogInv, CallInv
  <2>2. PICK t \in 1..clock : /\ t >= reading[r].checked - TTL - Timeout
                              /\ reading[r].list = Fetch(reading[r].m, listed[t])
    BY <2>1 DEF Shows, ListedSince
  <2> QED BY <2>2
<1> QED BY <1>1, Inductive, PTL

\* A cached list is replaced only after it has outlived its TTL: of the calls that find
\* it too old at once, one fetches (the mutex and the second look in Catalog.List).
THEOREM OneFetchPerTTLHolds == Spec => OneFetchPerTTL
<1> DEFINE Due(m) == reading[refreshing[m]].checked - cache[m].at > TTL
           A == \A m \in Universes : cache'[m] # cache[m] /\ cache[m].list # {} => Due(m)
<1>1. IInv /\ [Next]_vars => [A]_catalogVars
  <2> SUFFICES ASSUME IInv, [Next]_vars, NEW m \in Universes, cache'[m] # cache[m], cache[m].list # {}
               PROVE  Due(m)
    OBVIOUS
  <2>1. PICK r \in Readers : Store(r)
    <3>1. ~UNCHANGED cache OBVIOUS
    <3>2. CatalogNext BY <3>1 DEF Next, vars, catalogVars
    <3> QED BY <3>1, <3>2
      DEF CatalogNext, ListSymbols, Refresh, FetchAnswers, FetchFails, Answer, Elapse
  <2>2. CallInv(r) /\ Fetching(r) BY <2>1 DEF IInv, CatalogInv, Store, Fetching
  <2>3. reading[r].m = m BY <2>1 DEF Store, IInv, CatalogInv, CatalogTypeOK
  <2>4. refreshing[m] = r /\ reading[r].checked - cache[m].at > TTL
    BY <2>2, <2>3 DEF CallInv, Holds, Justified
  <2> QED BY <2>4
<1>2. Spec => [][A]_catalogVars BY <1>1, Inductive, PTL DEF Spec
<1> QED BY <1>2 DEF OneFetchPerTTL

\* A client that follows the cursor gets no fill twice, however many callers save it and
\* however saves and polls interleave (SaveLifecycleEvent, ListLifecycleEvents).
THEOREM FeedAtMostOnceHolds == Spec => []FeedAtMostOnce
<1>1. IInv => FeedAtMostOnce BY DEF IInv, FeedInv, BehindCursor, FeedAtMostOnce
<1> QED BY <1>1, Inductive, PTL

\* A walk from first to last page misses no row that was there from its start, as far as
\* the list places it and neither a row that left nor one that arrived between COUNT and
\* page came between (Reply, ReadPage: next_offset, has_more and total).
THEOREM WalkCompleteHolds == Spec => []WalkComplete
<1>1. IInv => WalkComplete
  <2> SUFFICES ASSUME IInv, walk.pc = "done", ~walk.disturbed, NEW r \in walk.base, Placed(r)
               PROVE  r \in walk.seen
    BY DEF WalkComplete
  <2>1. PICK q \in PageRequests : walk.q = q BY DEF IInv, WalkInv, WalkTypeOK
  <2>2. Owed(q, r) BY <2>1 DEF IInv, WalkInv, NothingSkipped
  <2> QED BY <2>2 DEF Owed
<1> QED BY <1>1, Inductive, PTL

=============================================================================
