------------------------------ MODULE MCStreams ------------------------------
(* Streams for TLC: two orders of a live route that two logins can serve, with *)
(* equal exchange ids, and one order of a simulated route.                     *)
EXTENDS Streams, TLC

CONSTANTS o1, o2, b1, v1, v2, w1, live, backtest

MCRouteOf == o1 :> live @@ o2 :> live @@ b1 :> backtest
MCVenueOn == v1 :> live @@ v2 :> live @@ w1 :> backtest
MCExId == o1 :> 7 @@ o2 :> 7 @@ b1 :> 1
=============================================================================
