------------------------------ MODULE OrderDesk ------------------------------
(***************************************************************************)
(* The order operations of services/manager/manager.service.ts and         *)
(* services/customer/customer.service.ts: the manager moves an order,      *)
(* every listing of orders sweeps expired and delayed ones, and the        *)
(* customer reports an issue.                                              *)
(***************************************************************************)
EXTENDS PaymentService

(* nextStatus as managerOrderStatusSchema (models/order.ts) admits it. *)
ManagerStatus == {"PREPARING", "READY", "COMPLETED", "CANCELLED", "REFUNDED"}

(* Mutant of UpdateStarts: the lifecycle is not asked. *)
UpdateStartsUnasked(s) ==
  /\ Arrives(s, "manager")
  /\ \E nextStatus \in ManagerStatus \ {"REFUNDED"} :
       Continue(s, [Idle EXCEPT !.pc = "manager.save", !.order = order.status,
                                !.nextStatus = nextStatus])
  /\ UNCHANGED <<orderVars, payment, qr, providerVars, lapsed, aborts>>

(* updateOrderStatus: the order is read and the manager's access checked.  *)
(* A refund goes to refundOrder without asking the lifecycle.  A refused   *)
(* transition writes nothing and is left out.                              *)
UpdateStarts(s) ==
  /\ Arrives(s, "manager")
  /\ \E nextStatus \in ManagerStatus \ {"REFUNDED"} :
       /\ assertValidTransition(order.status, nextStatus)
       /\ Continue(s, [Idle EXCEPT !.pc = "manager.save", !.order = order.status,
                                   !.nextStatus = nextStatus])
  /\ UNCHANGED <<orderVars, payment, qr, providerVars, lapsed, aborts>>

RefundStarts(s) ==
  /\ Arrives(s, "refund")
  /\ Continue(s, [Idle EXCEPT !.pc = "refund.payment", !.order = order.status])
  /\ UNCHANGED <<orderVars, payment, qr, providerVars, lapsed, aborts>>

UpdateSavesOrder(s) ==
  /\ At(s, "manager.save")
  /\ setStatus(req[s].nextStatus,
               IF req[s].nextStatus = "COMPLETED" THEN {"completedAt"} ELSE {})
  /\ recordOrderTransition(req[s].order, req[s].nextStatus)
  /\ Respond(s)
  /\ UNCHANGED <<payment, qr, providerVars, lapsed, aborts>>

updateOrderStatus(s) == UpdateSavesOrder(s) \/ refundOrder(s)

------------------------------------------------------------------------------
(* syncOperationalStates, run by listOrders.  The expired orders are found *)
(* and given to expireQr one by one; then the delayed ones are found.      *)

(* Mutant of QrExpired: the expiry is left out of the query. *)
QrIssued == order.status = "QR_GENERATED"

(* findQrExpiredOrders: the expiry of the order row is asked, not the      *)
(* token's.                                                                *)
QrExpired == order.status = "QR_GENERATED" /\ order.expiresAt \in lapsed

SweepStarts(s) ==
  /\ Arrives(s, "sweep")
  /\ \/ /\ QrExpired
        /\ Continue(s, [Idle EXCEPT !.pc = "expire.find", !.return = "sweep.delayed"])
     \/ ~ QrExpired /\ Goto(s, "sweep.delayed")
  /\ UNCHANGED <<orderVars, payment, qr, providerVars, lapsed, aborts>>

EligibleForDelay == order.status \in {"CONFIRMED", "PREPARING"} /\ stale

SweepFindsDelayed(s) ==
  /\ At(s, "sweep.delayed")
  /\ \/ ~ EligibleForDelay /\ Respond(s)
     \/ /\ EligibleForDelay
        /\ Continue(s, [Idle EXCEPT !.pc = "sweep.save", !.order = order.status])
  /\ UNCHANGED <<orderVars, payment, qr, providerVars, lapsed, aborts>>

(* The audit event carries the two states as a transition does. *)
SweepSavesOrder(s) ==
  /\ At(s, "sweep.save")
  /\ setStatus("DELAYED", {})
  /\ recordOrderTransition(req[s].order, "DELAYED")
  /\ Respond(s)
  /\ UNCHANGED <<payment, qr, providerVars, lapsed, aborts>>

syncOperationalStates(s) == SweepFindsDelayed(s) \/ SweepSavesOrder(s)

------------------------------------------------------------------------------
(* reportIssue: the audit event it records names no states. *)

(* Mutant of reportableStates: an issue before the scan. *)
reportableOnceIssued ==
  {"QR_GENERATED", "CONFIRMED", "PREPARING", "READY", "COMPLETED", "DELAYED"}

reportableStates == {"CONFIRMED", "PREPARING", "READY", "COMPLETED", "DELAYED"}

ReportStarts(s) ==
  /\ Arrives(s, "report")
  /\ order.status \in reportableStates
  /\ Continue(s, [Idle EXCEPT !.pc = "report.save", !.order = order.status])
  /\ UNCHANGED <<orderVars, payment, qr, providerVars, lapsed, aborts>>

ReportSavesOrder(s) ==
  /\ At(s, "report.save")
  /\ setStatus("ISSUE_REPORTED", {})
  /\ Respond(s)
  /\ UNCHANGED <<audit, payment, qr, providerVars, lapsed, aborts>>

reportIssue(s) == ReportSavesOrder(s)

==============================================================================
