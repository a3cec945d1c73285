-------------------------- MODULE OrderStateMachine --------------------------
(***************************************************************************)
(* The order lifecycle table of utils/order-state-machine.ts.  The table   *)
(* is consulted by assertValidTransition only: nothing in the database or  *)
(* in OrderRepository.updateStatus enforces it.                            *)
(***************************************************************************)

OrderStatus ==
  {"CREATED", "PAYMENT_PENDING", "PAID", "PAYMENT_FAILED", "CANCELLED",
   "QR_GENERATED", "CONFIRMED", "PREPARING", "READY", "COMPLETED",
   "EXPIRED", "REFUNDED", "ISSUE_REPORTED", "DELAYED"}

transitions ==
  {<<"CREATED", "PAYMENT_PENDING">>,      <<"CREATED", "CANCELLED">>,
   <<"PAYMENT_PENDING", "PAID">>,         <<"PAYMENT_PENDING", "PAYMENT_FAILED">>,
   <<"PAYMENT_PENDING", "CANCELLED">>,    <<"PAID", "QR_GENERATED">>,
   <<"QR_GENERATED", "CONFIRMED">>,       <<"QR_GENERATED", "EXPIRED">>,
   <<"CONFIRMED", "PREPARING">>,          <<"CONFIRMED", "CANCELLED">>,
   <<"CONFIRMED", "REFUNDED">>,           <<"PREPARING", "READY">>,
   <<"PREPARING", "DELAYED">>,            <<"READY", "COMPLETED">>,
   <<"DELAYED", "PREPARING">>,            <<"DELAYED", "READY">>,
   <<"DELAYED", "REFUNDED">>}

(* assertValidTransition throws a 409 exactly when this is FALSE. *)
assertValidTransition(currentState, nextState) ==
  <<currentState, nextState>> \in transitions

(* The statuses of an order that the counter has acknowledged and that has *)
(* not been closed by a refund or a complaint.                             *)
Fulfilment == {"CONFIRMED", "PREPARING", "READY", "COMPLETED", "DELAYED"}

==============================================================================
