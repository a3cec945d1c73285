------------------------------ MODULE MealPromise ------------------------------
(***************************************************************************)
(* What an order promises, seen from outside: money is taken, then a QR is *)
(* issued, then the counter acknowledges the customer, then the meal is    *)
(* handed over.  Each happens at most once and never before the one ahead  *)
(* of it, and none is taken back.                                          *)
(***************************************************************************)
VARIABLES paid, issued, acknowledged, completed

promise == <<paid, issued, acknowledged, completed>>

Init == ~ paid /\ ~ issued /\ ~ acknowledged /\ ~ completed

TakeMoney ==
  /\ ~ paid /\ paid'
  /\ UNCHANGED <<issued, acknowledged, completed>>

IssueQr ==
  /\ paid /\ ~ issued /\ issued'
  /\ UNCHANGED <<paid, acknowledged, completed>>

Acknowledge ==
  /\ issued /\ ~ acknowledged /\ acknowledged'
  /\ UNCHANGED <<paid, issued, completed>>

Complete ==
  /\ acknowledged /\ ~ completed /\ completed'
  /\ UNCHANGED <<paid, issued, acknowledged>>

Next == TakeMoney \/ IssueQr \/ Acknowledge \/ Complete

Spec == Init /\ [][Next]_promise

==============================================================================
