----------------------------- MODULE OrderLedger -----------------------------
(***************************************************************************)
(* What the order system promises, without handlers, scans, messages or    *)
(* faults: an attempt is recorded before its order is submitted, an order  *)
(* is submitted once, the books follow the market and never run ahead of   *)
(* it, nothing that was booked is lost, and the books of an order are only *)
(* closed when its trading is over. OrderRecovery implements it.           *)
(***************************************************************************)
EXTENDS Naturals

CONSTANTS
  Attempts,  \* the orders somebody tries to place
  Qty        \* quantity of every order, in unit trades

VARIABLES
  recorded,  \* attempts on record
  market,    \* the order of an attempt at the exchange: its state and its trades
  books,     \* the account the system keeps of an order
  booked     \* trades in the books: <<attempt, trade>>

lvars == <<recorded, market, books, booked>>

Record(a) ==
  /\ recorded' = recorded \cup {a}
  /\ UNCHANGED <<market, books, booked>>

Submit(a) ==
  /\ a \in recorded
  /\ market[a].st = "none"
  /\ market' = [market EXCEPT ![a].st = "submitted"]
  /\ UNCHANGED <<recorded, books, booked>>

\* The market's own steps.
Answer(a) ==
  /\ market[a].st = "submitted"
  /\ \E st \in {"open", "refused"} : market' = [market EXCEPT ![a].st = st]
  /\ UNCHANGED <<recorded, books, booked>>

Trade(a) ==
  /\ market[a].st = "open"
  /\ market' = [market EXCEPT ![a] = [n |-> @.n + 1, st |-> IF @.n + 1 = Qty THEN "over" ELSE "open"]]
  /\ UNCHANGED <<recorded, books, booked>>

End(a) ==
  /\ market[a].st = "open"
  /\ market' = [market EXCEPT ![a].st = "over"]
  /\ UNCHANGED <<recorded, books, booked>>

\* Any trades the market has made are booked, and the books of the order stay or become
\* open, or are closed when nothing can happen to it any more.
Keep(a) ==
  /\ market[a].st \in {"open", "over"}
  /\ \E new \in SUBSET {<<a, t>> : t \in 1..market[a].n} : booked' = booked \cup new
  /\ \E b \in {books[a], "open"} \cup (IF market[a].st = "over" THEN {"closed"} ELSE {}) :
       books' = [books EXCEPT ![a] = b]
  /\ UNCHANGED <<recorded, market>>

LInit ==
  /\ recorded = {}
  /\ market = [a \in Attempts |-> [st |-> "none", n |-> 0]]
  /\ books = [a \in Attempts |-> "none"]
  /\ booked = {}

LNext == \E a \in Attempts : Record(a) \/ Submit(a) \/ Answer(a) \/ Trade(a) \/ End(a) \/ Keep(a)

LSpec == LInit /\ [][LNext]_lvars

=============================================================================
