--------------------------- MODULE StrategiesProofs ---------------------------
(***************************************************************************)
(* Proofs about Strategies, for any callers, users, accounts, strategies,  *)
(* sessions, routes and any bound on the calls: mounts are sound, a caller *)
(* that was told of issues finds them stored, and an account that passed   *)
(* its preflight undisturbed can start. Besides the types, the invariant   *)
(* says of every call what it has found out so far:                        *)
(*                                                                         *)
(*   OwnMounting  the strategy about to be mounted is the account owner's; *)
(*   HoldsRows    the rows an activation has locked stay until it commits; *)
(*   Surveyed     a preflight without an issue has seen no active session, *)
(*                and a venue for every route it has resolved, and that is *)
(*                still so unless the account was disturbed.               *)
(***************************************************************************)
EXTENDS Strategies, FiniteSetTheorems, TLAPS

Preflight == {"routes", "symbols", "verdict"}

\* Tables and locals keep their types, and a call that is under way has its arguments.
TypeOK ==
  /\ strats \in [Strats -> [owner : Users \cup {None}, label : Labels \cup {None}, archived : BOOLEAN]]
  /\ mounts \in [Accounts -> [Strats -> {"none", "mounted", "active"}]]
  /\ venues \in [Accounts -> SUBSET Routes]
  /\ sessions \in [Sessions -> [st : {"absent", "running", "ended", "preflight_failed"},
                                acct : Accounts \cup {None}, code : Issues]]
  /\ cs \in [Callers -> Caller]
  /\ calls \in 0..MaxCalls

HasArguments(c) ==
  /\ cs[c].pc # "idle" => cs[c].a \in Accounts
  /\ cs[c].pc \in {"mount", "unmount", "clear", "set"} => cs[c].s \in Strats

OneActive == \A a \in Accounts : \A s, t \in Active(a) : s = t
OwnMounted == \A a \in Accounts : \A s \in Mounted(a) : strats[s].owner = OwnerOf[a]

OwnMounting(c) == cs[c].pc = "mount" => strats[cs[c].s].owner = OwnerOf[cs[c].a]

HoldsRows(c) == cs[c].pc = "set" => cs[c].rows \subseteq Mounted(cs[c].a)

Surveyed(c) ==
  /\ cs[c].pc \in {"symbols", "verdict"} => cs[c].todo = {}
  /\ cs[c].pc \in Preflight /\ cs[c].quiet /\ cs[c].issue = "none"
       => ActiveSessions(cs[c].a) = {} /\ cs[c].want \ cs[c].todo \subseteq venues[cs[c].a]

Recorded(c) ==
  cs[c].pc = "idle" /\ cs[c].ans = "issues" /\ cs[c].sess # None
    => sessions[cs[c].sess] = FailedSession(c)

CanStart(c) ==
  cs[c].pc = "idle" /\ cs[c].ans = "ok" /\ cs[c].a # None /\ cs[c].quiet
    => ActiveSessions(cs[c].a) = {} /\ cs[c].want \subseteq venues[cs[c].a]

CallInv(c) ==
  HasArguments(c) /\ OwnMounting(c) /\ HoldsRows(c) /\ Surveyed(c) /\ Recorded(c) /\ CanStart(c)

IInv == TypeOK /\ OneActive /\ OwnMounted /\ \A c \in Callers : CallInv(c)

-----------------------------------------------------------------------------
(* Calls and tables. *)

\* What no call takes away from another: the owner of a strategy, a locked row, a stored
\* verdict, and what a preflight has seen of an account.
Benign ==
  /\ \A a \in Accounts : \A s \in Mounted(a) : Locked(a, s) => s \in Mounted(a)'
  /\ \A s \in Strats : strats[s].owner # None => strats'[s].owner = strats[s].owner
  /\ \A x \in Sessions : sessions[x].st = "preflight_failed" => sessions'[x] = sessions[x]
  /\ \A a \in Accounts : ActiveSessions(a)' = ActiveSessions(a)
  /\ venues' = venues

\* The locals of an idle caller.
LEMMA IdleType ==
  /\ Idle \in Caller
  /\ Idle.pc = "idle" /\ Idle.a = None /\ Idle.s = None /\ Idle.sess = None /\ Idle.ans = "none"
  /\ Idle.issue = "none" /\ Idle.rows = {} /\ Idle.want = {} /\ Idle.todo = {}
<1>1. TRUE \in BOOLEAN OBVIOUS
<1> QED BY <1>1 DEF Idle, Caller, PCs, Issues, Answers

\* A call that stays as it is keeps what it knows.
LEMMA CallKept ==
  ASSUME TypeOK, Benign, NEW d \in Callers, CallInv(d), cs'[d] = cs[d]
  PROVE  CallInv(d)'
<1>1. cs[d].a \in Accounts \cup {None} /\ cs[d].sess \in Sessions \cup {None}
  BY DEF TypeOK, Caller
<1>2. HasArguments(d)' BY DEF CallInv, HasArguments
<1>3. OwnMounting(d)'
  <2>1. ASSUME cs[d].pc = "mount" PROVE strats'[cs[d].s].owner = OwnerOf[cs[d].a]
    <3>1. cs[d].a \in Accounts /\ cs[d].s \in Strats BY <2>1 DEF CallInv, HasArguments
    <3>2. strats[cs[d].s].owner = OwnerOf[cs[d].a] BY <2>1 DEF CallInv, OwnMounting
    <3>3. OwnerOf[cs[d].a] # None BY <3>1, StrategyConstants
    <3> QED BY <3>1, <3>2, <3>3 DEF Benign
  <2> QED BY <2>1 DEF OwnMounting
<1>3a. HoldsRows(d)'
  <2>1. ASSUME cs[d].pc = "set", NEW s \in cs[d].rows PROVE s \in Mounted(cs[d].a)'
    <3>1. PICK a \in Accounts : a = cs[d].a BY <2>1 DEF CallInv, HasArguments
    <3>2. s \in Mounted(a) /\ Locked(a, s) BY <2>1, <3>1 DEF CallInv, HoldsRows, Locked
    <3> QED BY <3>1, <3>2 DEF Benign, Mounted
  <2> QED BY <2>1 DEF HoldsRows, Mounted
<1>4. Surveyed(d)'
  <2>1. cs[d].pc \in Preflight => cs[d].a \in Accounts BY DEF CallInv, HasArguments, Preflight
  <2> QED BY <2>1 DEF Benign, CallInv, Surveyed
<1>5. Recorded(d)'
  <2>1. FailedSession(d)' = FailedSession(d) /\ FailedSession(d).st = "preflight_failed"
    BY DEF FailedSession
  <2> QED BY <1>1, <2>1 DEF Benign, CallInv, Recorded
<1>6. CanStart(d)' BY <1>1 DEF Benign, CallInv, CanStart
<1> QED BY <1>2, <1>3, <1>3a, <1>4, <1>5, <1>6 DEF CallInv

\* A step of one call, for the calls.
LEMMA CallsKept ==
  ASSUME IInv, Benign, NEW c \in Callers, NEW new \in Caller, cs' = [cs EXCEPT ![c] = new], CallInv(c)'
  PROVE  cs' \in [Callers -> Caller] /\ \A d \in Callers : CallInv(d)'
<1>1. cs' \in [Callers -> Caller] /\ \A d \in Callers : d # c => cs'[d] = cs[d]
  BY DEF IInv, TypeOK
<1> QED BY <1>1, CallKept DEF IInv

\* A call that is answered at once, or ends without a verdict, leaves nothing to keep.
LEMMA AnswerKept ==
  ASSUME IInv, Benign, NEW c \in Callers, NEW ans \in {"ok", "error", "valid", "invalid"}, Answer(c, ans)
  PROVE  cs' \in [Callers -> Caller] /\ \A d \in Callers : CallInv(d)'
<1> DEFINE new == [Idle EXCEPT !.ans = ans]
<1>1. new \in Caller /\ new.pc = "idle" /\ new.sess = None /\ new.a = None
  BY IdleType DEF Caller, Answers
<1>2. cs' = [cs EXCEPT ![c] = new] BY DEF Answer
<1> HIDE DEF new
<1>3. cs'[c] = new BY <1>2 DEF IInv, TypeOK
<1>4. CallInv(c)'
  BY <1>1, <1>3 DEF CallInv, HasArguments, OwnMounting, HoldsRows, Surveyed, Recorded, CanStart, Preflight
<1> QED BY <1>1, <1>2, <1>4, CallsKept

\* Steps that touch no mounts.
LEMMA MountsKept ==
  ASSUME IInv, Benign, mounts' = mounts
  PROVE  OneActive' /\ OwnMounted'
<1>1. \A a \in Accounts : Active(a)' = Active(a) /\ Mounted(a)' = Mounted(a) /\ Mounted(a) \subseteq Strats
  BY DEF Active, Mounted
<1>2. \A a \in Accounts : OwnerOf[a] # None BY StrategyConstants
<1> QED BY <1>1, <1>2 DEF IInv, OneActive, OwnMounted, Benign

\* Sessions that stay as they are.
LEMMA BenignQuiet ==
  ASSUME UNCHANGED <<venues, sessions>>,
         \A a \in Accounts : \A s \in Mounted(a) : Locked(a, s) => s \in Mounted(a)',
         \A s \in Strats : strats[s].owner # None => strats'[s].owner = strats[s].owner
  PROVE  Benign
  BY DEF Benign, ActiveSessions

-----------------------------------------------------------------------------
(* Users, strategies and mounts. *)

\* Users come and log in.
LEMMA UserStep ==
  ASSUME IInv, NEW c \in Callers, NEW sp \in Spellings, NEW pw \in Passwords,
         CreateUser(c, sp, pw) \/ VerifyUserPassword(c, sp, pw), calls' \in 0..MaxCalls
  PROVE  IInv'
<1>1. UNCHANGED <<strats, mounts, venues, sessions>>
  BY DEF CreateUser, VerifyUserPassword, tables
<1>2. \E ans \in {"ok", "error", "valid", "invalid"} : Answer(c, ans)
  BY DEF CreateUser, VerifyUserPassword
<1>3. Benign BY <1>1, BenignQuiet DEF Mounted
<1>4. cs' \in [Callers -> Caller] /\ \A d \in Callers : CallInv(d)' BY <1>2, <1>3, AnswerKept
<1>5. OneActive' /\ OwnMounted' BY <1>1, <1>3, MountsKept
<1> QED BY <1>1, <1>4, <1>5 DEF IInv, TypeOK

\* A strategy is created where there was none, or archived; its owner stays.
LEMMA StrategyStep ==
  ASSUME IInv, NEW c \in Callers, NEW u \in Users, NEW s \in Strats,
         ArchiveStrategy(c, u, s) \/ \E label \in Labels : CreateStrategy(c, u, s, label),
         calls' \in 0..MaxCalls
  PROVE  IInv'
<1>1. UNCHANGED <<mounts, venues, sessions>> /\ Answer(c, "ok")
  BY DEF ArchiveStrategy, CreateStrategy
<1>2. /\ strats' \in [Strats -> [owner : Users \cup {None}, label : Labels \cup {None}, archived : BOOLEAN]]
      /\ \A t \in Strats : strats[t].owner # None => strats'[t].owner = strats[t].owner
  <2>1. CASE ArchiveStrategy(c, u, s)
    <3>1. strats' = [strats EXCEPT ![s].archived = TRUE] BY <2>1 DEF ArchiveStrategy
    <3> QED BY <3>1 DEF IInv, TypeOK
  <2>2. ASSUME NEW label \in Labels, CreateStrategy(c, u, s, label)
        PROVE  /\ strats' \in [Strats -> [owner : Users \cup {None}, label : Labels \cup {None}, archived : BOOLEAN]]
               /\ \A t \in Strats : strats[t].owner # None => strats'[t].owner = strats[t].owner
    <3>1. strats[s].owner = None /\ strats' = [strats EXCEPT ![s] = [owner |-> u, label |-> label, archived |-> FALSE]]
      BY <2>2 DEF CreateStrategy, NoStrategy
    <3>2. [owner |-> u, label |-> label, archived |-> FALSE] \in [owner : Users \cup {None}, label : Labels \cup {None}, archived : BOOLEAN]
      OBVIOUS
    <3> QED BY <3>1, <3>2 DEF IInv, TypeOK
  <2> QED BY <2>1, <2>2
<1>3. Benign BY <1>1, <1>2, BenignQuiet DEF Mounted
<1>4. cs' \in [Callers -> Caller] /\ \A d \in Callers : CallInv(d)' BY <1>1, <1>3, AnswerKept
<1>5. OneActive' /\ OwnMounted' BY <1>1, <1>3, MountsKept
<1> QED BY <1>1, <1>2, <1>4, <1>5 DEF IInv, TypeOK

\* A mount, an unmount or an activation begins, for a strategy of the account's owner.
LEMMA BeginStep ==
  ASSUME IInv, NEW c \in Callers, NEW u \in Users, NEW a \in Accounts, NEW s \in Strats,
         BeginMount(c, u, a, s) \/ BeginUnmount(c, u, a, s) \/ BeginActivate(c, u, a, s),
         calls' \in 0..MaxCalls
  PROVE  IInv'
<1>1. UNCHANGED <<strats, mounts, venues, sessions>>
  BY DEF BeginMount, BeginUnmount, BeginActivate, tables
<1>2. PICK label \in {"mount", "unmount", "clear"}, rows \in SUBSET Strats : Begin(c, label, a, s, rows)
  BY DEF BeginMount, BeginUnmount, BeginActivate, Mounted
<1>3. strats[s].owner = OwnerOf[a]
  BY DEF BeginMount, BeginUnmount, BeginActivate, GetAccount, GetStrategy
<1> DEFINE new == [Idle EXCEPT !.pc = label, !.a = a, !.s = s, !.rows = rows]
<1>4. /\ new \in Caller /\ new.pc = label /\ new.a = a /\ new.s = s
  BY IdleType DEF Caller, PCs
<1>5. cs' = [cs EXCEPT ![c] = new] BY <1>2 DEF Begin
<1> HIDE DEF new
<1>6. cs'[c] = new BY <1>5 DEF IInv, TypeOK
<1>7. CallInv(c)'
  BY <1>1, <1>3, <1>4, <1>6 DEF CallInv, HasArguments, OwnMounting, HoldsRows, Surveyed, Recorded, CanStart, Preflight
<1>8. Benign BY <1>1, BenignQuiet DEF Mounted
<1>9. cs' \in [Callers -> Caller] /\ \A d \in Callers : CallInv(d)' BY <1>4, <1>5, <1>7, <1>8, CallsKept
<1>10. OneActive' /\ OwnMounted' BY <1>1, <1>8, MountsKept
<1> QED BY <1>1, <1>9, <1>10 DEF IInv, TypeOK

\* One mount row is written.
LEMMA RowStep ==
  ASSUME IInv, NEW c \in Callers, NEW a \in Accounts, NEW s \in Strats,
         mounts' = mounts \/ (mounts' = [mounts EXCEPT ![a][s] = "none"] /\ ~Locked(a, s))
           \/ (mounts' = [mounts EXCEPT ![a][s] = "mounted"] /\ strats[s].owner = OwnerOf[a]),
         NEW ans \in {"ok", "error", "valid", "invalid"}, Answer(c, ans),
         UNCHANGED <<strats, venues, sessions>>, calls' \in 0..MaxCalls
  PROVE  IInv'
<1>0. mounts \in [Accounts -> [Strats -> {"none", "mounted", "active"}]] BY DEF IInv, TypeOK
<1>0a. ASSUME NEW v \in {"none", "mounted"}, mounts' = [mounts EXCEPT ![a][s] = v]
       PROVE  /\ mounts' \in [Accounts -> [Strats -> {"none", "mounted", "active"}]]
              /\ \A b \in Accounts, t \in Strats :
                   IF b = a /\ t = s THEN mounts'[b][t] = v ELSE mounts'[b][t] = mounts[b][t]
  <2>1. PICK f \in [Strats -> {"none", "mounted", "active"}] : f = [mounts[a] EXCEPT ![s] = v]
    BY <1>0
  <2>2. mounts' = [mounts EXCEPT ![a] = f] BY <1>0a, <2>1
  <2>3. \A t \in Strats : f[t] = IF t = s THEN v ELSE mounts[a][t] BY <1>0, <2>1
  <2> QED BY <1>0, <2>2, <2>3
<1>1. mounts' \in [Accounts -> [Strats -> {"none", "mounted", "active"}]] BY <1>0, <1>0a
<1>2. \A b \in Accounts, t \in Strats :
        \/ mounts'[b][t] = mounts[b][t]
        \/ mounts'[b][t] = "none" /\ ~Locked(b, t)
        \/ mounts'[b][t] = "mounted" /\ strats[t].owner = OwnerOf[b]
  BY <1>0a
<1>3. Benign BY <1>2, BenignQuiet DEF Mounted
<1>4. cs' \in [Callers -> Caller] /\ \A d \in Callers : CallInv(d)' BY <1>3, AnswerKept
<1>5. OneActive'
  <2>1. \A b \in Accounts : Active(b)' \subseteq Active(b) BY <1>2 DEF Active
  <2> QED BY <2>1 DEF IInv, OneActive
<1>6. OwnMounted' BY <1>2 DEF IInv, OwnMounted, Mounted
<1> QED BY <1>1, <1>4, <1>5, <1>6 DEF IInv, TypeOK

\* The mount, the unmount and the deactivation write one row.
LEMMA MountStep ==
  ASSUME IInv, NEW c \in Callers, MountStrategy(c) \/ UnmountStrategy(c), calls' \in 0..MaxCalls
  PROVE  IInv'
<1>1. cs[c].pc \in {"mount", "unmount"} BY DEF MountStrategy, UnmountStrategy
<1>2. PICK a \in Accounts, s \in Strats : a = cs[c].a /\ s = cs[c].s
  BY <1>1 DEF IInv, CallInv, HasArguments
<1>3. \/ mounts' = mounts \/ (mounts' = [mounts EXCEPT ![a][s] = "none"] /\ ~Locked(a, s))
      \/ mounts' = [mounts EXCEPT ![a][s] = "mounted"] /\ cs[c].pc = "mount"
  BY <1>2 DEF MountStrategy, UnmountStrategy
<1>4. cs[c].pc = "mount" => strats[s].owner = OwnerOf[a] BY <1>2 DEF IInv, CallInv, OwnMounting
<1>5. \E ans \in {"ok", "error", "valid", "invalid"} : Answer(c, ans)
  BY DEF MountStrategy, UnmountStrategy
<1>6. UNCHANGED <<strats, venues, sessions>> BY DEF MountStrategy, UnmountStrategy
<1> QED BY <1>3, <1>4, <1>5, <1>6, RowStep

\* A deactivation writes the row of a strategy of the account's owner.
LEMMA DeactivateStep ==
  ASSUME IInv, NEW c \in Callers, NEW u \in Users, NEW a \in Accounts, NEW s \in Strats,
         DeactivateStrategy(c, u, a, s), calls' \in 0..MaxCalls
  PROVE  IInv'
<1>1. strats[s].owner = OwnerOf[a] BY DEF DeactivateStrategy, GetAccount, GetStrategy
<1>2. /\ mounts' = [mounts EXCEPT ![a][s] = "mounted"] /\ Answer(c, "ok")
      /\ UNCHANGED <<strats, venues, sessions>>
  BY DEF DeactivateStrategy
<1> QED BY <1>1, <1>2, RowStep

\* An activation commits only if the rows it did not clear hold no other active one.
LEMMA ActivateStep ==
  ASSUME IInv, NEW c \in Callers, ActivateStrategy(c), calls' \in 0..MaxCalls
  PROVE  IInv'
<1>1. PICK a \in Accounts, s \in Strats : a = cs[c].a /\ s = cs[c].s
  BY DEF ActivateStrategy, IInv, CallInv, HasArguments
<1>2. UNCHANGED <<strats, venues, sessions>> BY DEF ActivateStrategy
<1>3. cs[c].rows \subseteq Mounted(a) BY <1>1 DEF ActivateStrategy, IInv, CallInv, HoldsRows
<1>4. CASE s \in Mounted(a) /\ Active(a) \subseteq cs[c].rows \cup {s}
  <2>1. /\ mounts' = [mounts EXCEPT ![a] = [t \in Strats |->
                        IF t = s THEN "active" ELSE IF t \in cs[c].rows THEN "mounted" ELSE mounts[a][t]]]
        /\ Answer(c, "ok")
    BY <1>1, <1>4 DEF ActivateStrategy
  <2>2. /\ mounts' \in [Accounts -> [Strats -> {"none", "mounted", "active"}]]
        /\ \A b \in Accounts : b # a => mounts'[b] = mounts[b]
        /\ \A t \in Strats : mounts'[a][t] =
             IF t = s THEN "active" ELSE IF t \in cs[c].rows THEN "mounted" ELSE mounts[a][t]
    BY <2>1 DEF IInv, TypeOK
  <2>3. Mounted(a)' = Mounted(a) BY <1>3, <1>4, <2>2 DEF Mounted, IInv, TypeOK
  <2>4. Active(a)' = {s} BY <1>4, <2>2 DEF Active
  <2>5. \A b \in Accounts : b # a => Active(b)' = Active(b) /\ Mounted(b)' = Mounted(b)
    BY <2>2 DEF Active, Mounted
  <2>6. Benign BY <1>2, <2>3, <2>5, BenignQuiet
  <2>7. cs' \in [Callers -> Caller] /\ \A d \in Callers : CallInv(d)' BY <2>1, <2>6, AnswerKept
  <2>8. OneActive' BY <2>4, <2>5 DEF IInv, OneActive
  <2>9. OwnMounted' BY <1>2, <2>3, <2>5 DEF IInv, OwnMounted
  <2> QED BY <1>2, <2>2, <2>7, <2>8, <2>9 DEF IInv, TypeOK
<1>5. CASE ~(s \in Mounted(a) /\ Active(a) \subseteq cs[c].rows \cup {s})
  <2>1. mounts' = mounts /\ Answer(c, "error") BY <1>1, <1>5 DEF ActivateStrategy
  <2> QED BY <1>2, <2>1, RowStep
<1> QED BY <1>4, <1>5

\* The first UPDATE of an activation locks rows that are there.
LEMMA ClearStep ==
  ASSUME IInv, NEW c \in Callers, ActivateClears(c), calls' \in 0..MaxCalls
  PROVE  IInv'
<1> DEFINE new == [cs[c] EXCEPT !.pc = "set", !.rows = @ \cap Mounted(cs[c].a)]
<1>1. UNCHANGED <<strats, mounts, venues, sessions>> BY DEF ActivateClears, tables
<1>2. cs[c] \in Caller BY DEF IInv, TypeOK
<1>3. /\ new \in Caller /\ new.pc = "set" /\ new.a = cs[c].a /\ new.s = cs[c].s
      /\ new.rows \subseteq Mounted(cs[c].a)
  BY <1>2 DEF Caller, PCs
<1>4. cs' = [cs EXCEPT ![c] = new] BY DEF ActivateClears
<1> HIDE DEF new
<1>5. cs'[c] = new BY <1>4 DEF IInv, TypeOK
<1>6. cs[c].a \in Accounts /\ cs[c].s \in Strats BY DEF ActivateClears, IInv, CallInv, HasArguments
<1>7. CallInv(c)'
  BY <1>1, <1>3, <1>5, <1>6
  DEF CallInv, HasArguments, OwnMounting, HoldsRows, Surveyed, Recorded, CanStart, Preflight, Mounted
<1>8. Benign BY <1>1, BenignQuiet DEF Mounted
<1>9. cs' \in [Callers -> Caller] /\ \A d \in Callers : CallInv(d)' BY <1>3, <1>4, <1>7, <1>8, CallsKept
<1>10. OneActive' /\ OwnMounted' BY <1>1, <1>8, MountsKept
<1> QED BY <1>1, <1>9, <1>10 DEF IInv, TypeOK

-----------------------------------------------------------------------------
(* Preflights and sessions. *)

\* A step of a preflight that writes no table.
LEMMA SurveyStep ==
  ASSUME IInv, NEW c \in Callers, NEW new \in Caller, cs' = [cs EXCEPT ![c] = new],
         new.a \in Accounts, new.pc \in Preflight,
         new.pc \in {"symbols", "verdict"} => new.todo = {},
         new.quiet /\ new.issue = "none" => ActiveSessions(new.a) = {} /\ new.want \ new.todo \subseteq venues[new.a],
         UNCHANGED <<strats, mounts, venues, sessions>>, calls' \in 0..MaxCalls
  PROVE  IInv'
<1>1. cs'[c] = new BY DEF IInv, TypeOK
<1>2. ActiveSessions(new.a)' = ActiveSessions(new.a) BY DEF ActiveSessions
<1>3. CallInv(c)'
  <2>1. HasArguments(c)' /\ OwnMounting(c)' /\ HoldsRows(c)' /\ Recorded(c)' /\ CanStart(c)'
    BY <1>1 DEF HasArguments, OwnMounting, HoldsRows, Recorded, CanStart, Preflight
  <2>2. Surveyed(c)' BY <1>1, <1>2 DEF Surveyed
  <2> QED BY <2>1, <2>2 DEF CallInv
<1>4. Benign BY BenignQuiet DEF Mounted
<1>5. cs' \in [Callers -> Caller] /\ \A d \in Callers : CallInv(d)' BY <1>3, <1>4, CallsKept
<1>6. OneActive' /\ OwnMounted' BY <1>4, MountsKept
<1> QED BY <1>5, <1>6 DEF IInv, TypeOK

\* The preflight counts the sessions of the account.
LEMMA PreflightStep ==
  ASSUME IInv, NEW c \in Callers, NEW u \in Users, NEW a \in Accounts, NEW x \in Sessions \cup {None},
         NEW want \in SUBSET Routes, PreflightStrategySession(c, u, a, x, want), calls' \in 0..MaxCalls
  PROVE  IInv'
<1>1. PICK issue \in Issues : issue = IF ActiveSessions(a) = {} THEN "none" ELSE "ACTIVE_SESSION_EXISTS"
  BY DEF Issues
<1> DEFINE new == [Idle EXCEPT !.pc = "routes", !.a = a, !.sess = x, !.want = want, !.todo = want, !.issue = issue]
<1>2. /\ new \in Caller /\ new.a = a /\ new.pc = "routes" /\ new.want = want /\ new.todo = want
      /\ new.issue = issue
  BY IdleType DEF Caller, PCs
<1>3. cs' = [cs EXCEPT ![c] = new] BY <1>1 DEF PreflightStrategySession
<1> HIDE DEF new
<1>4. new.issue = "none" => ActiveSessions(new.a) = {} /\ new.want \ new.todo \subseteq venues[new.a]
  BY <1>1, <1>2
<1> QED BY <1>2, <1>3, <1>4, SurveyStep DEF Preflight, PreflightStrategySession, tables

\* The first issue is kept.
LEMMA NoteType ==
  ASSUME IInv, NEW c \in Callers, NEW code \in Issues \ {"none"}
  PROVE  Note(c, code) \in Issues \ {"none"}
  BY DEF IInv, TypeOK, Caller, Note

\* A route is resolved, or all are.
LEMMA ResolveStep ==
  ASSUME IInv, NEW c \in Callers, ResolveRoute(c), calls' \in 0..MaxCalls
  PROVE  IInv'
<1>1. /\ cs[c].pc = "routes" /\ cs[c].a \in Accounts /\ cs[c] \in Caller
      /\ UNCHANGED <<strats, mounts, venues, sessions>>
  BY DEF ResolveRoute, tables, IInv, TypeOK, CallInv, HasArguments
<1>2. cs[c].quiet /\ cs[c].issue = "none" =>
        ActiveSessions(cs[c].a) = {} /\ cs[c].want \ cs[c].todo \subseteq venues[cs[c].a]
  BY <1>1 DEF IInv, CallInv, Surveyed, Preflight
<1>3. ASSUME NEW r \in cs[c].todo,
             cs' = [cs EXCEPT ![c].todo = @ \ {r},
                              ![c].issue = IF r \in venues[cs[c].a] THEN @ ELSE Note(c, "VENUE_MISSING")]
      PROVE  IInv'
  <2>1. PICK issue \in Issues :
          /\ issue = IF r \in venues[cs[c].a] THEN cs[c].issue ELSE Note(c, "VENUE_MISSING")
          /\ issue = "none" => cs[c].issue = "none" /\ r \in venues[cs[c].a]
    BY <1>1, NoteType DEF Caller, Issues
  <2> DEFINE new == [cs[c] EXCEPT !.todo = @ \ {r}, !.issue = issue]
  <2>2. cs' = [cs EXCEPT ![c] = new] BY <1>3, <2>1
  <2>3. /\ new \in Caller /\ new.a = cs[c].a /\ new.pc = "routes" /\ new.want = cs[c].want
        /\ new.todo = cs[c].todo \ {r} /\ new.issue = issue /\ new.quiet = cs[c].quiet
    BY <1>1 DEF Caller
  <2> HIDE DEF new
  <2>4. new.quiet /\ new.issue = "none" =>
          ActiveSessions(new.a) = {} /\ new.want \ new.todo \subseteq venues[new.a]
    BY <1>2, <2>1, <2>3
  <2> QED BY <1>1, <2>2, <2>3, <2>4, SurveyStep DEF Preflight
<1>4. ASSUME cs[c].todo = {}, cs' = [cs EXCEPT ![c].pc = "symbols"] PROVE IInv'
  <2> DEFINE new == [cs[c] EXCEPT !.pc = "symbols"]
  <2>1. cs' = [cs EXCEPT ![c] = new] BY <1>4
  <2>2. /\ new \in Caller /\ new.a = cs[c].a /\ new.pc = "symbols" /\ new.want = cs[c].want
        /\ new.todo = cs[c].todo /\ new.issue = cs[c].issue /\ new.quiet = cs[c].quiet
    BY <1>1 DEF Caller, PCs
  <2> HIDE DEF new
  <2> QED BY <1>1, <1>2, <1>4, <2>1, <2>2, SurveyStep DEF Preflight
<1> QED BY <1>3, <1>4 DEF ResolveRoute

\* The symbol rules are read.
LEMMA SymbolStep ==
  ASSUME IInv, NEW c \in Callers, ReadSymbolRules(c), calls' \in 0..MaxCalls
  PROVE  IInv'
<1>1. /\ cs[c].pc = "symbols" /\ cs[c].a \in Accounts /\ cs[c] \in Caller /\ cs[c].todo = {}
      /\ UNCHANGED <<strats, mounts, venues, sessions>>
  BY DEF ReadSymbolRules, tables, IInv, TypeOK, CallInv, HasArguments, Surveyed
<1>2. cs[c].quiet /\ cs[c].issue = "none" =>
        ActiveSessions(cs[c].a) = {} /\ cs[c].want \ cs[c].todo \subseteq venues[cs[c].a]
  BY <1>1 DEF IInv, CallInv, Surveyed, Preflight
<1>3. PICK code \in {cs[c].issue, Note(c, "symbol_rules_missing")} :
        cs' = [cs EXCEPT ![c].pc = "verdict", ![c].issue = code]
  BY DEF ReadSymbolRules
<1>4. code \in Issues /\ (code = "none" => cs[c].issue = "none")
  BY <1>1, NoteType DEF Caller, Issues
<1> DEFINE new == [cs[c] EXCEPT !.pc = "verdict", !.issue = code]
<1>5. cs' = [cs EXCEPT ![c] = new] BY <1>3
<1>6. /\ new \in Caller /\ new.a = cs[c].a /\ new.pc = "verdict" /\ new.want = cs[c].want
      /\ new.todo = cs[c].todo /\ new.issue = code /\ new.quiet = cs[c].quiet
  BY <1>1, <1>4 DEF Caller, PCs
<1> HIDE DEF new
<1> QED BY <1>1, <1>2, <1>4, <1>5, <1>6, SurveyStep DEF Preflight

\* Return keeps the locals of the call, for its answer to be read with them.
LEMMA ReturnType ==
  ASSUME IInv, NEW c \in Callers, NEW ans \in Answers, Return(c, ans)
  PROVE  \E new \in Caller :
           /\ cs' = [cs EXCEPT ![c] = new]
           /\ cs'[c] = new
           /\ new.pc = "idle" /\ new.ans = ans /\ new.a = cs[c].a /\ new.sess = cs[c].sess
           /\ new.issue = cs[c].issue /\ new.want = cs[c].want /\ new.quiet = cs[c].quiet
<1> DEFINE new == [cs[c] EXCEPT !.pc = "idle", !.ans = ans]
<1>1. cs[c] \in Caller BY DEF IInv, TypeOK
<1>2. /\ new \in Caller
      /\ new.pc = "idle" /\ new.ans = ans /\ new.a = cs[c].a /\ new.sess = cs[c].sess
      /\ new.issue = cs[c].issue /\ new.want = cs[c].want /\ new.quiet = cs[c].quiet
  BY <1>1 DEF Caller, PCs
<1>3. cs' = [cs EXCEPT ![c] = new] BY DEF Return
<1> HIDE DEF new
<1>4. cs'[c] = new BY <1>3 DEF IInv, TypeOK
<1> QED BY <1>2, <1>3, <1>4

\* A call that fails leaves no claim.
LEMMA AbortStep ==
  ASSUME IInv, NEW c \in Callers, Return(c, "error"),
         UNCHANGED <<strats, mounts, venues, sessions>>, calls' \in 0..MaxCalls
  PROVE  IInv'
<1>1. PICK new \in Caller : /\ cs' = [cs EXCEPT ![c] = new]
                            /\ cs'[c] = new
                            /\ new.pc = "idle" /\ new.ans = "error"
  BY ReturnType DEF Answers
<1>2. CallInv(c)'
  BY <1>1 DEF CallInv, HasArguments, OwnMounting, HoldsRows, Surveyed, Recorded, CanStart, Preflight
<1>3. Benign BY BenignQuiet DEF Mounted
<1>4. cs' \in [Callers -> Caller] /\ \A d \in Callers : CallInv(d)' BY <1>1, <1>2, <1>3, CallsKept
<1>5. OneActive' /\ OwnMounted' BY <1>3, MountsKept
<1> QED BY <1>4, <1>5 DEF IInv, TypeOK

\* The verdict: it is stored under an id that is free before the caller hears of it.
LEMMA VerdictStep ==
  ASSUME IInv, NEW c \in Callers, savePreflightFailedSession(c), calls' \in 0..MaxCalls
  PROVE  IInv'
<1>1. /\ cs[c].pc = "verdict" /\ cs[c].a \in Accounts /\ cs[c] \in Caller /\ cs[c].todo = {}
      /\ UNCHANGED <<strats, mounts, venues>>
  BY DEF savePreflightFailedSession, IInv, TypeOK, CallInv, HasArguments, Surveyed
<1>2. cs[c].quiet /\ cs[c].issue = "none" =>
        ActiveSessions(cs[c].a) = {} /\ cs[c].want \subseteq venues[cs[c].a]
  BY <1>1 DEF IInv, CallInv, Surveyed, Preflight
<1>3. CASE cs[c].issue = "none" \/ cs[c].sess = None
  <2> DEFINE ans == IF cs[c].issue = "none" THEN "ok" ELSE "issues"
  <2>1. Return(c, ans) /\ sessions' = sessions BY <1>3 DEF savePreflightFailedSession
  <2>2. PICK new \in Caller : /\ cs' = [cs EXCEPT ![c] = new]
                              /\ cs'[c] = new
                              /\ new.pc = "idle" /\ new.ans = ans /\ new.a = cs[c].a /\ new.sess = cs[c].sess
                              /\ new.issue = cs[c].issue /\ new.want = cs[c].want /\ new.quiet = cs[c].quiet
    BY <2>1, ReturnType DEF Answers
  <2>3. HasArguments(c)' /\ OwnMounting(c)' /\ HoldsRows(c)' /\ Surveyed(c)' /\ Recorded(c)'
    BY <1>3, <2>2 DEF HasArguments, OwnMounting, HoldsRows, Surveyed, Recorded, Preflight
  <2>4. CanStart(c)'
    <3>1. ActiveSessions(cs[c].a)' = ActiveSessions(cs[c].a) BY <2>1, <2>2 DEF ActiveSessions
    <3>2. ASSUME cs'[c].ans = "ok", cs'[c].quiet
          PROVE  ActiveSessions(cs[c].a)' = {} /\ cs'[c].want \subseteq venues'[cs'[c].a]
      <4>1. cs[c].issue = "none" /\ cs[c].quiet BY <2>2, <3>2
      <4>2. ActiveSessions(cs[c].a) = {} /\ cs[c].want \subseteq venues[cs[c].a] BY <1>2, <4>1
      <4> QED BY <1>1, <2>2, <3>1, <4>2
    <3> QED BY <2>2, <3>2 DEF CanStart
  <2>5. CallInv(c)' BY <2>3, <2>4 DEF CallInv
  <2>6. Benign BY <1>1, <2>1, BenignQuiet DEF Mounted
  <2>7. cs' \in [Callers -> Caller] /\ \A d \in Callers : CallInv(d)' BY <2>2, <2>5, <2>6, CallsKept
  <2>8. OneActive' /\ OwnMounted' BY <1>1, <2>6, MountsKept
  <2> QED BY <1>1, <2>1, <2>7, <2>8 DEF IInv, TypeOK
<1>4. CASE cs[c].issue # "none" /\ cs[c].sess # None /\ sessions[cs[c].sess] # NoSession
  <2>1. Return(c, "error") /\ sessions' = sessions BY <1>4 DEF savePreflightFailedSession
  <2> QED BY <1>1, <2>1, AbortStep
<1>5. CASE cs[c].issue # "none" /\ cs[c].sess # None /\ sessions[cs[c].sess] = NoSession
  <2>1. /\ Return(c, "issues")
        /\ sessions' = [sessions EXCEPT ![cs[c].sess] = FailedSession(c)]
    BY <1>5 DEF savePreflightFailedSession
  <2>2. PICK new \in Caller : /\ cs' = [cs EXCEPT ![c] = new]
                              /\ cs'[c] = new
                              /\ new.pc = "idle" /\ new.ans = "issues" /\ new.a = cs[c].a
                              /\ new.sess = cs[c].sess /\ new.issue = cs[c].issue
    BY <2>1, ReturnType DEF Answers
  <2>3. PICK x \in Sessions : x = cs[c].sess BY <1>1, <1>5 DEF Caller
  <2>4. PICK row \in [st : {"absent", "running", "ended", "preflight_failed"},
                      acct : Accounts \cup {None}, code : Issues] :
          row = FailedSession(c) /\ row.st = "preflight_failed"
    <3>1. cs[c].a \in Accounts /\ cs[c].issue \in Issues BY <1>1 DEF Caller
    <3>2. /\ FailedSession(c) \in [st : {"absent", "running", "ended", "preflight_failed"},
                                   acct : Accounts \cup {None}, code : Issues]
          /\ FailedSession(c).st = "preflight_failed"
      BY <3>1 DEF FailedSession
    <3> QED BY <3>2
  <2>5. /\ sessions' \in [Sessions -> [st : {"absent", "running", "ended", "preflight_failed"},
                                       acct : Accounts \cup {None}, code : Issues]]
        /\ sessions'[x] = row
        /\ \A y \in Sessions : y # x => sessions'[y] = sessions[y]
        /\ sessions[x].st = "absent"
    BY <1>5, <2>1, <2>3, <2>4 DEF IInv, TypeOK, NoSession
  <2>6. FailedSession(c)' = row BY <2>2, <2>4 DEF FailedSession
  <2>7. CallInv(c)'
    <3>1. sessions'[cs'[c].sess] = FailedSession(c)' BY <2>2, <2>3, <2>5, <2>6
    <3>2. Recorded(c)' BY <3>1 DEF Recorded
    <3>3. HasArguments(c)' /\ OwnMounting(c)' /\ HoldsRows(c)' /\ Surveyed(c)' /\ CanStart(c)'
      BY <2>2 DEF HasArguments, OwnMounting, HoldsRows, Surveyed, CanStart, Preflight
    <3> QED BY <3>2, <3>3 DEF CallInv
  <2>8. Benign
    <3>1. \A b \in Accounts : ActiveSessions(b)' = ActiveSessions(b) BY <2>4, <2>5 DEF ActiveSessions
    <3>2. \A y \in Sessions : sessions[y].st = "preflight_failed" => sessions'[y] = sessions[y] BY <2>5
    <3> QED BY <1>1, <3>1, <3>2 DEF Benign, Mounted
  <2>9. cs' \in [Callers -> Caller] /\ \A d \in Callers : CallInv(d)' BY <2>2, <2>7, <2>8, CallsKept
  <2>10. OneActive' /\ OwnMounted' BY <1>1, <2>8, MountsKept
  <2> QED BY <1>1, <2>5, <2>9, <2>10 DEF IInv, TypeOK
<1> QED BY <1>3, <1>4, <1>5

\* The other calls that look at a disturbed account hear of it.
LEMMA DisturbType ==
  ASSUME IInv, NEW a, Disturb(a)
  PROVE  /\ cs' \in [Callers -> Caller]
         /\ \A d \in Callers :
              /\ cs[d].a # a => cs'[d] = cs[d]
              /\ cs[d].a = a => cs'[d].quiet = FALSE
              /\ cs'[d].pc = cs[d].pc /\ cs'[d].a = cs[d].a /\ cs'[d].s = cs[d].s /\ cs'[d].sess = cs[d].sess
              /\ cs'[d].rows = cs[d].rows /\ cs'[d].todo = cs[d].todo /\ cs'[d].issue = cs[d].issue
              /\ cs'[d].ans = cs[d].ans
<1>1. ASSUME NEW d \in Callers
      PROVE  LET new == [cs[d] EXCEPT !.quiet = FALSE] IN
             /\ new \in Caller /\ new.quiet = FALSE
             /\ new.pc = cs[d].pc /\ new.a = cs[d].a /\ new.s = cs[d].s /\ new.sess = cs[d].sess
             /\ new.rows = cs[d].rows /\ new.todo = cs[d].todo /\ new.issue = cs[d].issue
             /\ new.ans = cs[d].ans
  <2>1. cs[d] \in Caller /\ FALSE \in BOOLEAN BY DEF IInv, TypeOK
  <2> QED BY <2>1 DEF Caller
<1>2. ASSUME NEW d \in Callers
      PROVE  cs'[d] = IF cs[d].a = a THEN [cs[d] EXCEPT !.quiet = FALSE] ELSE cs[d]
  BY DEF Disturb
<1>3. \A d \in Callers : cs[d] \in Caller BY DEF IInv, TypeOK
<1>4. \A d \in Callers : cs'[d] \in Caller BY <1>1, <1>2, <1>3
<1>5. cs' \in [Callers -> Caller] BY <1>4 DEF Disturb
<1>6. ASSUME NEW d \in Callers
      PROVE  /\ cs[d].a # a => cs'[d] = cs[d]
             /\ cs[d].a = a => cs'[d].quiet = FALSE
             /\ cs'[d].pc = cs[d].pc /\ cs'[d].a = cs[d].a /\ cs'[d].s = cs[d].s /\ cs'[d].sess = cs[d].sess
             /\ cs'[d].rows = cs[d].rows /\ cs'[d].todo = cs[d].todo /\ cs'[d].issue = cs[d].issue
             /\ cs'[d].ans = cs[d].ans
  <2>1. CASE cs[d].a = a
    <3>1. cs'[d] = [cs[d] EXCEPT !.quiet = FALSE] BY <1>2, <2>1
    <3> QED BY <1>1, <2>1, <3>1
  <2>2. CASE cs[d].a # a BY <1>2, <2>2
  <2> QED BY <2>1, <2>2
<1> QED BY <1>5, <1>6

\* What happens to one account leaves the claims about the others, and the stored verdicts.
LEMMA DisturbStep ==
  ASSUME IInv, NEW a, Disturb(a), UNCHANGED <<strats, mounts>>, calls' \in 0..MaxCalls,
         venues' \in [Accounts -> SUBSET Routes],
         sessions' \in [Sessions -> [st : {"absent", "running", "ended", "preflight_failed"},
                                     acct : Accounts \cup {None}, code : Issues]],
         \A x \in Sessions : sessions[x].st = "preflight_failed" => sessions'[x] = sessions[x],
         \A b \in Accounts : b # a => ActiveSessions(b)' = ActiveSessions(b) /\ venues'[b] = venues[b]
  PROVE  IInv'
<1>1. /\ cs' \in [Callers -> Caller]
      /\ \A d \in Callers :
           /\ cs[d].a # a => cs'[d] = cs[d]
           /\ cs[d].a = a => cs'[d].quiet = FALSE
           /\ cs'[d].pc = cs[d].pc /\ cs'[d].a = cs[d].a /\ cs'[d].s = cs[d].s /\ cs'[d].sess = cs[d].sess
           /\ cs'[d].rows = cs[d].rows /\ cs'[d].todo = cs[d].todo /\ cs'[d].issue = cs[d].issue
           /\ cs'[d].ans = cs[d].ans
  BY DisturbType
<1>2. ASSUME NEW d \in Callers PROVE CallInv(d)'
  <2>1. CallInv(d) /\ cs[d].a \in Accounts \cup {None} /\ cs[d].sess \in Sessions \cup {None}
    BY DEF IInv, TypeOK, Caller
  <2>2. HasArguments(d)' /\ OwnMounting(d)' BY <1>1, <2>1 DEF CallInv, HasArguments, OwnMounting
  <2>3. HoldsRows(d)' BY <1>1, <2>1 DEF CallInv, HoldsRows, Mounted
  <2>4. Recorded(d)'
    <3>1. FailedSession(d)' = FailedSession(d) /\ FailedSession(d).st = "preflight_failed"
      BY <1>1 DEF FailedSession
    <3> QED BY <1>1, <2>1, <3>1 DEF CallInv, Recorded
  <2>5. Surveyed(d)' /\ CanStart(d)'
    <3>1. CASE cs[d].a = a
      <4>1. cs'[d].quiet = FALSE BY <1>1, <3>1
      <4>2. cs'[d].pc \in {"symbols", "verdict"} => cs'[d].todo = {} BY <1>1, <2>1 DEF CallInv, Surveyed
      <4> QED BY <4>1, <4>2 DEF Surveyed, CanStart
    <3>2. CASE cs[d].a # a
      <4>1. cs'[d] = cs[d] BY <1>1, <3>2
      <4>2. cs[d].a \in Accounts =>
              ActiveSessions(cs[d].a)' = ActiveSessions(cs[d].a) /\ venues'[cs[d].a] = venues[cs[d].a]
        <5>1. ASSUME cs[d].a \in Accounts
              PROVE  ActiveSessions(cs[d].a)' = ActiveSessions(cs[d].a) /\ venues'[cs[d].a] = venues[cs[d].a]
          <6>1. PICK b \in Accounts : b = cs[d].a BY <5>1
          <6>2. ActiveSessions(b)' = ActiveSessions(b) /\ venues'[b] = venues[b] BY <3>2, <6>1
          <6> QED BY <4>1, <6>1, <6>2 DEF ActiveSessions
        <5> QED BY <5>1
      <4>3. cs[d].pc \in Preflight => cs[d].a \in Accounts BY <2>1 DEF CallInv, HasArguments, Preflight
      <4>4. Surveyed(d)' BY <2>1, <4>1, <4>2, <4>3 DEF CallInv, Surveyed
      <4>5. CanStart(d)' BY <2>1, <4>1, <4>2 DEF CallInv, CanStart
      <4> QED BY <4>4, <4>5
    <3> QED BY <3>1, <3>2
  <2> QED BY <2>2, <2>3, <2>4, <2>5 DEF CallInv
<1>3. OneActive' /\ OwnMounted'
  BY DEF IInv, OneActive, OwnMounted, Active, Mounted
<1> QED BY <1>1, <1>2, <1>3 DEF IInv, TypeOK

\* Venues are bound and released, and sessions start and end, beside the calls.
LEMMA ElsewhereStep ==
  ASSUME IInv, Elsewhere, calls' \in 0..MaxCalls
  PROVE  IInv'
<1> DEFINE Row == [st : {"absent", "running", "ended", "preflight_failed"},
                   acct : Accounts \cup {None}, code : Issues]
<1>0. sessions \in [Sessions -> Row] /\ venues \in [Accounts -> SUBSET Routes] BY DEF IInv, TypeOK
<1>1. ASSUME NEW a \in Accounts, NEW r \in Routes, VenueChanges(a, r) PROVE IInv'
  <2>1. /\ venues' = [venues EXCEPT ![a] = IF r \in @ THEN @ \ {r} ELSE @ \cup {r}]
        /\ Disturb(a) /\ UNCHANGED <<strats, mounts, sessions>>
    BY <1>1 DEF VenueChanges
  <2>2. venues' \in [Accounts -> SUBSET Routes] /\ \A b \in Accounts : b # a => venues'[b] = venues[b]
    BY <1>0, <2>1
  <2>3. \A b \in Accounts : ActiveSessions(b)' = ActiveSessions(b) BY <2>1 DEF ActiveSessions
  <2> QED BY <1>0, <2>1, <2>2, <2>3, DisturbStep
<1>2. ASSUME NEW a \in Accounts, NEW x \in Sessions, StartSession(a, x) PROVE IInv'
  <2> DEFINE row == [st |-> "running", acct |-> a, code |-> "none"]
  <2>1. /\ sessions' = [sessions EXCEPT ![x] = row] /\ sessions[x].st = "absent"
        /\ Disturb(a) /\ UNCHANGED <<strats, mounts, venues>>
    BY <1>2 DEF StartSession, NoSession
  <2>2. row \in Row /\ row.acct = a BY DEF Issues
  <2> HIDE DEF row
  <2>3. /\ sessions' \in [Sessions -> Row] /\ sessions'[x] = row
        /\ \A y \in Sessions : y # x => sessions'[y] = sessions[y]
    BY <1>0, <2>1, <2>2
  <2>4. \A b \in Accounts : b # a => ActiveSessions(b)' = ActiveSessions(b)
    BY <2>1, <2>2, <2>3 DEF ActiveSessions
  <2>5. \A y \in Sessions : sessions[y].st = "preflight_failed" => sessions'[y] = sessions[y]
    BY <2>1, <2>3
  <2> QED BY <1>0, <2>1, <2>3, <2>4, <2>5, DisturbStep
<1>3. ASSUME NEW x \in Sessions, EndSession(x) PROVE IInv'
  <2>1. PICK a \in Accounts \cup {None} : a = sessions[x].acct BY <1>0
  <2>2. /\ sessions' = [sessions EXCEPT ![x].st = "ended"] /\ sessions[x].st = "running"
        /\ Disturb(a) /\ UNCHANGED <<strats, mounts, venues>>
    BY <1>3, <2>1 DEF EndSession
  <2>3. /\ sessions' \in [Sessions -> Row] /\ sessions'[x].acct = a
        /\ \A y \in Sessions : y # x => sessions'[y] = sessions[y]
    BY <1>0, <2>1, <2>2
  <2>4. \A b \in Accounts : b # a => ActiveSessions(b)' = ActiveSessions(b)
    BY <2>1, <2>3 DEF ActiveSessions
  <2>5. \A y \in Sessions : sessions[y].st = "preflight_failed" => sessions'[y] = sessions[y]
    BY <2>2, <2>3
  <2> QED BY <1>0, <2>2, <2>3, <2>4, <2>5, DisturbStep
<1> QED BY <1>1, <1>2, <1>3 DEF Elsewhere

-----------------------------------------------------------------------------
(* The theorems. *)

\* Every step keeps the invariant.
LEMMA InductiveStep ==
  ASSUME IInv, [Next]_vars
  PROVE  IInv'
<1>1. ASSUME NEW c \in Callers, Request(c), calls' \in 0..MaxCalls PROVE IInv'
  <2>1. CASE \E sp \in Spellings, pw \in Passwords : CreateUser(c, sp, pw) \/ VerifyUserPassword(c, sp, pw)
    BY <1>1, <2>1, UserStep
  <2>2. ASSUME NEW u \in Users, NEW s \in Strats, StrategyRequest(c, u, s) PROVE IInv'
    <3>1. CASE ArchiveStrategy(c, u, s) \/ \E label \in Labels : CreateStrategy(c, u, s, label)
      BY <1>1, <3>1, StrategyStep
    <3>2. ASSUME NEW a \in Accounts,
                 BeginMount(c, u, a, s) \/ BeginUnmount(c, u, a, s) \/ BeginActivate(c, u, a, s)
          PROVE  IInv'
      BY <1>1, <3>2, BeginStep
    <3>3. ASSUME NEW a \in Accounts, DeactivateStrategy(c, u, a, s) PROVE IInv'
      BY <1>1, <3>3, DeactivateStep
    <3> QED BY <2>2, <3>1, <3>2, <3>3 DEF StrategyRequest
  <2>3. ASSUME NEW u \in Users, NEW a \in Accounts, NEW x \in Sessions \cup {None}, NEW want \in SUBSET Routes,
               PreflightStrategySession(c, u, a, x, want)
        PROVE  IInv'
    BY <1>1, <2>3, PreflightStep
  <2> QED BY <1>1, <2>1, <2>2, <2>3 DEF Request
<1>2. ASSUME NEW c \in Callers, CallerStep(c), calls' \in 0..MaxCalls PROVE IInv'
  <2>1. CASE MountStrategy(c) \/ UnmountStrategy(c) BY <1>2, <2>1, MountStep
  <2>2. CASE ActivateClears(c) BY <1>2, <2>2, ClearStep
  <2>3. CASE ActivateStrategy(c) BY <1>2, <2>3, ActivateStep
  <2>4. CASE ResolveRoute(c) BY <1>2, <2>4, ResolveStep
  <2>5. CASE ReadSymbolRules(c) BY <1>2, <2>5, SymbolStep
  <2>6. CASE savePreflightFailedSession(c) BY <1>2, <2>6, VerdictStep
  <2>7. CASE Abort(c)
    <3>1. Return(c, "error") /\ UNCHANGED <<strats, mounts, venues, sessions>> BY <2>7 DEF Abort, tables
    <3> QED BY <1>2, <3>1, AbortStep
  <2> QED BY <1>2, <2>1, <2>2, <2>3, <2>4, <2>5, <2>6, <2>7 DEF CallerStep
<1>3. CASE UNCHANGED vars
  BY <1>3 DEF vars, IInv, TypeOK, OneActive, OwnMounted, Active, Mounted, CallInv, HasArguments, OwnMounting,
              HoldsRows, Surveyed, Recorded, CanStart, ActiveSessions, FailedSession
<1>4. CASE Next
  <2>1. calls \in 0..MaxCalls /\ MaxCalls \in Nat BY StrategyConstants DEF IInv, TypeOK
  <2>2. calls' \in 0..MaxCalls BY <1>4, <2>1 DEF Next
  <2> QED BY <1>1, <1>2, <1>4, <2>2, ElsewhereStep DEF Next
<1> QED BY <1>3, <1>4

\* Nothing is mounted and nobody has been answered at the start.
LEMMA InductiveInit ==
  ASSUME Init
  PROVE  IInv
<1>1. NoStrategy \in [owner : Users \cup {None}, label : Labels \cup {None}, archived : BOOLEAN]
  <2>1. FALSE \in BOOLEAN OBVIOUS
  <2> QED BY <2>1 DEF NoStrategy
<1>2. NoSession \in [st : {"absent", "running", "ended", "preflight_failed"},
                     acct : Accounts \cup {None}, code : Issues]
  BY DEF NoSession, Issues
<1>3. TypeOK BY <1>1, <1>2, IdleType, StrategyConstants DEF Init, TypeOK
<1>4. OneActive /\ OwnMounted BY DEF Init, OneActive, OwnMounted, Active, Mounted
<1>5. \A c \in Callers : cs[c] = Idle BY DEF Init
<1>6. \A c \in Callers : CallInv(c)
  BY <1>5, IdleType DEF CallInv, HasArguments, OwnMounting, HoldsRows, Surveyed, Recorded, CanStart, Preflight
<1> QED BY <1>3, <1>4, <1>6 DEF IInv

\* The inductive invariant holds in every reachable state of the account service's
\* users, strategies, mounts and preflights.
THEOREM Inductive == Spec => []IInv
<1>1. Init => IInv BY InductiveInit
<1>2. IInv /\ [Next]_vars => IInv' BY InductiveStep
<1> QED BY <1>1, <1>2, PTL DEF Spec

\* However ActivateStrategy, MountStrategy and UnmountStrategy overlap, an account has at
\* most one active strategy and only strategies of its own user mounted.
THEOREM MountsSoundHolds == Spec => []MountsSound
<1>1. ASSUME IInv PROVE MountsSound
  <2>1. ASSUME NEW a \in Accounts PROVE Cardinality(Active(a)) <= 1
    <3>1. CASE Active(a) = {} BY <3>1, FS_EmptySet
    <3>2. ASSUME NEW s \in Active(a) PROVE Cardinality(Active(a)) <= 1
      <4>1. Active(a) = {s} BY <1>1, <3>2 DEF IInv, OneActive
      <4> QED BY <4>1, FS_Singleton
    <3> QED BY <3>1, <3>2
  <2> QED BY <1>1, <2>1 DEF IInv, OwnMounted, MountsSound
<1> QED BY <1>1, Inductive, PTL

\* A caller that savePreflightFailedSession answered with issues finds its verdict stored
\* under the session id it chose, with the first issue it met.
THEOREM FailureRecordedHolds == Spec => []FailureRecorded
<1>1. ASSUME IInv PROVE FailureRecorded
  BY <1>1 DEF IInv, CallInv, Recorded, FailureRecorded
<1> QED BY <1>1, Inductive, PTL

\* An account whose preflight passed, and to which nothing has happened since the call
\* began, has no active session and a venue for every route the strategy needs.
THEOREM PassedCanStartHolds == Spec => []PassedCanStart
<1>1. ASSUME IInv PROVE PassedCanStart
  BY <1>1 DEF IInv, CallInv, CanStart, PassedCanStart
<1> QED BY <1>1, Inductive, PTL

=============================================================================
