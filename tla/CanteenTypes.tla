----------------------------- MODULE CanteenTypes -----------------------------
(***************************************************************************)
(* Type correctness of CanteenSystem, for any number of requests, provider *)
(* orders, tokens and aborts.                                              *)
(***************************************************************************)
EXTENDS CanteenInvariant, TLAPS

(* The record of a request stays a request when it is replaced by one. *)
LEMMA ContinueType ==
  ASSUME TypeOK, NEW s \in Slots, NEW r \in Request, Continue(s, r)
  PROVE  req' \in [Slots -> Request]
  BY DEF Continue, TypeOK

LEMMA GotoType ==
  ASSUME TypeOK, NEW s \in Slots, NEW pc \in PC, Goto(s, pc)
  PROVE  req' \in [Slots -> Request]
  BY DEF Goto, Request, TypeOK

LEMMA IdleType == Idle \in Request
  BY DEF Idle, Request, PC

LEMMA RespondType ==
  ASSUME TypeOK, NEW s \in Slots, Respond(s)
  PROVE  req' \in [Slots -> Request]
  BY IdleType, ContinueType DEF Respond

(* The places a request can wait at, as facts the leaves below can use *)
(* without expanding PC.                                               *)
LEMMA Places ==
  \A pc \in {"initiate.key", "initiate.existing", "initiate.provider", "initiate.pending",
             "initiate.save", "initiate.reply", "success.payment", "success.paid",
             "generate.find", "generate.save", "success.issue", "failure.payment",
             "failure.order", "refund.payment", "refund.provider", "refund.save",
             "refund.order", "manager.save", "report.save", "scan.find", "scan.use",
             "scan.confirm", "expire.find", "expire.save", "expire.order",
             "sweep.delayed", "sweep.save"} : pc \in PC
  BY DEF PC

LEMMA Statuses ==
  \A status \in {"PAYMENT_PENDING", "PAID", "PAYMENT_FAILED", "QR_GENERATED", "CONFIRMED",
                 "EXPIRED", "REFUNDED", "ISSUE_REPORTED", "DELAYED", "PREPARING", "READY",
                 "COMPLETED", "CANCELLED"} : status \in OrderStatus
  BY DEF OrderStatus

(* What a request reads from the rows. *)
LEMMA ReadTypes ==
  ASSUME TypeOK
  PROVE  /\ order.status \in OrderStatus
         /\ order.expiresAt \in Tokens \cup {None}
         /\ qr.nonce \in Tokens \cup {None}
         /\ payment.providerOrderId \in ProviderOrders \cup {None}
         /\ payment.providerPaymentId.of \in ProviderOrders \cup {None}
         /\ captured \subseteq ProviderOrders
         /\ declined \subseteq ProviderOrders
  BY DEF TypeOK, RowsOK, OrderRow, QRRow, PaymentRow

LEMMA RequestTypes ==
  ASSUME TypeOK, NEW s \in Slots
  PROVE  /\ req[s] \in Request
         /\ req[s].order \in OrderStatus \cup {"NO ROW"}
         /\ req[s].providerOrderId \in ProviderOrders \cup {None}
         /\ req[s].nonce \in Tokens \cup {None}
         /\ req[s].return \in {"idle", "sweep.delayed"}
  BY DEF TypeOK, Request

(* expireQr goes back to its caller. *)
LEMMA ExpireReturnsType ==
  ASSUME TypeOK, NEW s \in Slots, ExpireReturns(s)
  PROVE  req' \in [Slots -> Request]
<1>1. req[s].return \in PC
  BY RequestTypes DEF PC
<1>2. [Idle EXCEPT !.pc = req[s].return] \in Request
  BY <1>1, IdleType DEF Request
<1> QED
  BY <1>2, ContinueType DEF ExpireReturns

(* A step that writes no row keeps the rows well typed. *)
LEMMA RowsUnchanged ==
  ASSUME TypeOK, UNCHANGED <<orderVars, payment, qr, providerVars, lapsed, aborts>>
  PROVE  RowsOK'
  BY DEF TypeOK, RowsOK, orderVars, providerVars

(* A status update with its audit entry. *)
LEMMA StatusWriteType ==
  ASSUME TypeOK,
         NEW status \in OrderStatus, NEW milestones \in SUBSET Milestones,
         NEW expiresAt \in Tokens \cup {None},
         NEW previous \in OrderStatus \cup {"NO ROW"},
         updateStatus(status, milestones, expiresAt),
         recordOrderTransition(previous, status),
         UNCHANGED <<payment, qr, providerVars, lapsed, aborts>>
  PROVE  RowsOK'
<1>1. order' \in OrderRow
  BY DEF TypeOK, RowsOK, updateStatus, OrderRow
<1>2. audit' \in [previousState : OrderStatus \cup {"NO ROW"},
                  newState : OrderStatus \cup {"NO ROW"}]
  BY DEF recordOrderTransition
<1>3. stale' \in BOOLEAN
  BY DEF updateStatus
<1> QED
  BY <1>1, <1>2, <1>3 DEF TypeOK, RowsOK, providerVars

LEMMA SetStatusType ==
  ASSUME TypeOK,
         NEW status \in OrderStatus, NEW milestones \in SUBSET Milestones,
         NEW previous \in OrderStatus \cup {"NO ROW"},
         setStatus(status, milestones),
         recordOrderTransition(previous, status),
         UNCHANGED <<payment, qr, providerVars, lapsed, aborts>>
  PROVE  RowsOK'
<1>1. order.expiresAt \in Tokens \cup {None}
  BY ReadTypes
<1>2. updateStatus(status, milestones, order.expiresAt)
  BY DEF setStatus
<1> QED
  BY <1>1, <1>2, StatusWriteType

(* A write of the payment row or of the QR row. *)
LEMMA PaymentWriteType ==
  ASSUME TypeOK, payment' \in PaymentRow,
         UNCHANGED <<orderVars, qr, providerVars, lapsed, aborts>>
  PROVE  RowsOK'
  BY DEF TypeOK, RowsOK, orderVars, providerVars

LEMMA QRWriteType ==
  ASSUME TypeOK, qr' \in QRRow,
         UNCHANGED <<orderVars, payment, providerVars, lapsed, aborts>>
  PROVE  RowsOK'
  BY DEF TypeOK, RowsOK, orderVars, providerVars

------------------------------------------------------------------------------
(* One lemma per service. *)

LEMMA ArrivalType ==
  ASSUME TypeOK, NEW s \in Slots, Arrival(s)
  PROVE  TypeOK'
<1>1. RowsOK'
  BY RowsUnchanged DEF Arrival, InitiateStarts, SuccessStarts, FailureStarts, ScanStarts,
     UpdateStarts, RefundStarts, SweepStarts, ReportStarts
<1>2. req' \in [Slots -> Request]
  <2>1. ASSUME NEW pc \in PC
        PROVE  [Idle EXCEPT !.pc = pc, !.order = order.status] \in Request
    BY <2>1, IdleType, ReadTypes DEF Request
  <2>2. ASSUME NEW pc \in PC, NEW po \in ProviderOrders
        PROVE  [Idle EXCEPT !.pc = pc, !.order = order.status,
                            !.providerOrderId = po] \in Request
    BY <2>2, IdleType, ReadTypes DEF Request
  <2>3. ASSUME NEW pc \in PC, NEW status \in OrderStatus
        PROVE  [Idle EXCEPT !.pc = pc, !.order = order.status,
                            !.nextStatus = status] \in Request
    BY <2>3, IdleType, ReadTypes DEF Request
  <2>4. ASSUME NEW pc \in PC
        PROVE  [Idle EXCEPT !.pc = pc, !.nonce = qr.nonce] \in Request
    BY <2>4, IdleType, ReadTypes DEF Request
  <2>5. ASSUME NEW pc \in PC
        PROVE  [Idle EXCEPT !.pc = pc, !.return = "sweep.delayed"] \in Request
    BY <2>5, IdleType DEF Request
  <2>6. CASE InitiateStarts(s) \/ RefundStarts(s) \/ ReportStarts(s)
    BY <2>1, <2>6, Places, ContinueType DEF InitiateStarts, RefundStarts, ReportStarts
  <2>7. CASE SuccessStarts(s) \/ FailureStarts(s)
    BY <2>2, <2>7, Places, ReadTypes, ContinueType DEF SuccessStarts, FailureStarts
  <2>8. CASE UpdateStarts(s)
    BY <2>3, <2>8, Places, Statuses, ContinueType DEF UpdateStarts, ManagerStatus
  <2>9. CASE ScanStarts(s)
    BY <2>4, <2>9, Places, ContinueType DEF ScanStarts
  <2>10. CASE SweepStarts(s)
    BY <2>5, <2>10, Places, ContinueType, GotoType DEF SweepStarts
  <2> QED
    BY <2>6, <2>7, <2>8, <2>9, <2>10 DEF Arrival
<1> QED
  BY <1>1, <1>2 DEF TypeOK

LEMMA QrServiceType ==
  ASSUME TypeOK, NEW s \in Slots,
         generateForPaidOrder(s) \/ validateAndConsume(s) \/ expireQr(s)
  PROVE  TypeOK'
<1>1. CASE GenerateReturnsActive(s)
  <2>1. [req[s] EXCEPT !.pc = "success.issue", !.nonce = qr.nonce] \in Request
    BY RequestTypes, ReadTypes, Places DEF Request
  <2> QED
    BY <1>1, <2>1, RowsUnchanged, ContinueType DEF GenerateReturnsActive, TypeOK
<1>2. CASE GenerateDrawsNonce(s)
  <2>1. \A t \in Tokens, found \in BOOLEAN :
          [req[s] EXCEPT !.pc = "generate.save", !.nonce = t, !.existing = found] \in Request
    BY RequestTypes, Places DEF Request
  <2>2. PICK t \in Tokens :
          Continue(s, [req[s] EXCEPT !.pc = "generate.save", !.nonce = t,
                                     !.existing = (qr.status # "NO ROW")])
          /\ lapsed' = lapsed \ {t}
    BY <1>2 DEF GenerateDrawsNonce, FreshTokens
  <2>3. req' \in [Slots -> Request]
    BY <2>1, <2>2, ContinueType
  <2>4. RowsOK'
    BY <1>2, <2>2 DEF GenerateDrawsNonce, TypeOK, RowsOK, orderVars, providerVars
  <2> QED
    BY <2>3, <2>4 DEF TypeOK
<1>3. CASE GenerateSaves(s)
  <2>1. qr' \in QRRow
    BY <1>3, RequestTypes DEF GenerateSaves, QRRow, QRStatus
  <2> QED
    BY <1>3, <2>1, QRWriteType, GotoType, Places DEF GenerateSaves, TypeOK
<1>4. CASE GenerateCreateRefused(s)
  BY <1>4, RowsUnchanged, RespondType DEF GenerateCreateRefused, TypeOK
<1>5. CASE ExpireFinds(s)
  <2>1. [req[s] EXCEPT !.pc = "expire.save", !.order = order.status] \in Request
    BY RequestTypes, ReadTypes, Places DEF Request
  <2> QED
    BY <1>5, <2>1, RowsUnchanged, ContinueType, ExpireReturnsType DEF ExpireFinds, TypeOK
<1>6. CASE ExpireSaves(s)
  <2>1. qr' \in QRRow
    BY <1>6 DEF ExpireSaves, TypeOK, RowsOK, QRRow, QRStatus
  <2> QED
    BY <1>6, <2>1, QRWriteType, GotoType, ExpireReturnsType, Places DEF ExpireSaves, TypeOK
<1>7. CASE ExpireSavesOrder(s)
  BY <1>7, SetStatusType, Statuses, ExpireReturnsType DEF ExpireSavesOrder, TypeOK
<1>8. CASE ScanRefused(s)
  BY <1>8, RowsUnchanged, RespondType DEF ScanRefused, TypeOK
<1>9. CASE ScanFindsLapsed(s)
  <2>1. [Idle EXCEPT !.pc = "expire.find"] \in Request
    BY IdleType, Places DEF Request
  <2> QED
    BY <1>9, <2>1, RowsUnchanged, ContinueType DEF ScanFindsLapsed, TypeOK
<1>10. CASE ScanAccepted(s)
  <2>1. [Idle EXCEPT !.pc = "scan.use", !.order = order.status] \in Request
    BY IdleType, ReadTypes, Places DEF Request
  <2> QED
    BY <1>10, <2>1, RowsUnchanged, ContinueType DEF ScanAccepted, TypeOK
<1>11. CASE ScanUsesToken(s)
  <2>1. qr' \in QRRow
    BY <1>11 DEF ScanUsesToken, TypeOK, RowsOK, QRRow, QRStatus
  <2> QED
    BY <1>11, <2>1, QRWriteType, GotoType, Places DEF ScanUsesToken, TypeOK
<1>12. CASE ScanConfirmsOrder(s)
  <2>1. {"confirmedAt"} \in SUBSET Milestones
    BY DEF Milestones
  <2> QED
    BY <1>12, <2>1, SetStatusType, RequestTypes, Statuses, RespondType
       DEF ScanConfirmsOrder, TypeOK
<1> QED
  BY <1>1, <1>2, <1>3, <1>4, <1>5, <1>6, <1>7, <1>8, <1>9, <1>10, <1>11, <1>12
     DEF generateForPaidOrder, expireQr, validateAndConsume

LEMMA InitiateType ==
  ASSUME TypeOK, IInv, NEW s \in Slots, initiateOrderPayment(s)
  PROVE  TypeOK'
<1>1. CASE InitiateFindsKey(s) \/ InitiateReusesPayment(s)
  <2>1. payment.providerOrderId \in ProviderOrders
    BY <1>1 DEF InitiateFindsKey, InitiateReusesPayment, reusablePaymentStates, IInv,
       RowsBacked, HasPayment
  <2>2. Offer(s)
    BY <1>1 DEF InitiateFindsKey, InitiateReusesPayment
  <2>3. RowsOK'
    BY <2>1, <2>2 DEF Offer, TypeOK, RowsOK, orderVars
  <2> QED
    BY <2>2, <2>3, RespondType DEF Offer, TypeOK
<1>2. CASE InitiateKeyIsNew(s)
  BY <1>2, RowsUnchanged, GotoType, Places DEF InitiateKeyIsNew, TypeOK
<1>3. CASE InitiateChecksOrder(s)
  <2>1. [req[s] EXCEPT !.pc = "initiate.provider",
                       !.existing = (payment.status # "NO ROW")] \in Request
    BY RequestTypes, Places DEF Request
  <2> QED
    BY <1>3, <2>1, RowsUnchanged, ContinueType, RespondType DEF InitiateChecksOrder, TypeOK
<1>4. CASE InitiateOpensProviderOrder(s)
  <2>1. \A po \in ProviderOrders, pc \in PC :
          [req[s] EXCEPT !.pc = pc, !.providerOrderId = po] \in Request
    BY RequestTypes DEF Request
  <2> QED
    BY <1>4, <2>1, Places, RowsUnchanged, ContinueType, RespondType
       DEF InitiateOpensProviderOrder, FreshProviderOrders, TypeOK
<1>5. CASE InitiateMarksPending(s)
  BY <1>5, SetStatusType, RequestTypes, Statuses, GotoType, Places
     DEF InitiateMarksPending, TypeOK
<1>6. CASE InitiateSavesPayment(s)
  <2>1. payment' \in PaymentRow
    BY <1>6, RequestTypes
       DEF InitiateSavesPayment, TypeOK, RowsOK, PaymentRow, PaymentStatus
  <2> QED
    BY <1>6, <2>1, PaymentWriteType, GotoType, Places DEF InitiateSavesPayment, TypeOK
<1>7. CASE InitiateCreateRefused(s)
  BY <1>7, RowsUnchanged, RespondType DEF InitiateCreateRefused, TypeOK
<1>8. CASE InitiateReplies(s)
  <2>1. req[s].providerOrderId \in ProviderOrders
    BY <1>8 DEF InitiateReplies, At, IInv, Backed
  <2>2. RowsOK'
    BY <1>8, <2>1 DEF InitiateReplies, TypeOK, RowsOK, orderVars
  <2> QED
    BY <1>8, <2>2, RespondType DEF InitiateReplies, TypeOK
<1> QED
  BY <1>1, <1>2, <1>3, <1>4, <1>5, <1>6, <1>7, <1>8 DEF initiateOrderPayment

LEMMA OutcomeType ==
  ASSUME TypeOK, IInv, NEW s \in Slots,
         \/ SuccessSavesPayment(s) \/ SuccessMarksPaid(s) \/ SuccessIssuesOrder(s)
         \/ recordPaymentFailure(s)
  PROVE  TypeOK'
<1>0. \A po \in ProviderOrders \cup {None}, outcome \in {"captured", "failed"},
         status \in PaymentStatus :
        [payment EXCEPT !.status = status, !.providerPaymentId = Attempt(po, outcome)]
          \in PaymentRow
  BY DEF TypeOK, RowsOK, PaymentRow, Attempt
<1>1. CASE SuccessSavesPayment(s)
  <2>1. payment' \in PaymentRow
    BY <1>0, <1>1, RequestTypes DEF SuccessSavesPayment, PaymentStatus
  <2> QED
    BY <1>1, <2>1, PaymentWriteType, GotoType, Places DEF SuccessSavesPayment, TypeOK
<1>2. CASE SuccessMarksPaid(s)
  <2>1. {"paidAt"} \in SUBSET Milestones
    BY DEF Milestones
  <2> QED
    BY <1>2, <2>1, SetStatusType, Statuses, GotoType, Places DEF SuccessMarksPaid, TypeOK
<1>3. CASE SuccessIssuesOrder(s)
  <2>1. {"qrGeneratedAt"} \in SUBSET Milestones
    BY DEF Milestones
  <2> QED
    BY <1>3, <2>1, StatusWriteType, RequestTypes, Statuses, RespondType
       DEF SuccessIssuesOrder, TypeOK
<1>4. CASE FailureSavesPayment(s)
  <2>1. payment' \in PaymentRow
    BY <1>0, <1>4, RequestTypes DEF FailureSavesPayment, PaymentStatus
  <2> QED
    BY <1>4, <2>1, PaymentWriteType, GotoType, RespondType, Places
       DEF FailureSavesPayment, TypeOK
<1>5. CASE FailureSavesOrder(s)
  BY <1>5, SetStatusType, Statuses, RespondType DEF FailureSavesOrder, TypeOK
<1> QED
  BY <1>1, <1>2, <1>3, <1>4, <1>5 DEF recordPaymentFailure

LEMMA RefundType ==
  ASSUME TypeOK, IInv, NEW s \in Slots, refundOrder(s)
  PROVE  TypeOK'
<1>1. CASE RefundReadsPayment(s)
  <2>1. [req[s] EXCEPT !.pc = "refund.provider",
                       !.providerOrderId = payment.providerPaymentId.of] \in Request
    BY RequestTypes, ReadTypes, Places DEF Request
  <2> QED
    BY <1>1, <2>1, RowsUnchanged, ContinueType, RespondType DEF RefundReadsPayment, TypeOK
<1>2. CASE RefundAtProvider(s)
  <2>1. req[s].providerOrderId \in ProviderOrders
    BY <1>2, ReadTypes DEF RefundAtProvider, At, IInv, Backed
  <2>2. RowsOK'
    BY <1>2, <2>1 DEF RefundAtProvider, TypeOK, RowsOK, orderVars
  <2> QED
    BY <1>2, <2>2, GotoType, Places DEF RefundAtProvider, TypeOK
<1>3. CASE RefundRefused(s)
  BY <1>3, RowsUnchanged, RespondType DEF RefundRefused, TypeOK
<1>4. CASE RefundSavesPayment(s)
  <2>1. payment' \in PaymentRow
    BY <1>4 DEF RefundSavesPayment, TypeOK, RowsOK, PaymentRow, PaymentStatus
  <2> QED
    BY <1>4, <2>1, PaymentWriteType, GotoType, Places DEF RefundSavesPayment, TypeOK
<1>5. CASE RefundSavesOrder(s)
  BY <1>5, SetStatusType, RequestTypes, Statuses, RespondType DEF RefundSavesOrder, TypeOK
<1> QED
  BY <1>1, <1>2, <1>3, <1>4, <1>5 DEF refundOrder

LEMMA DeskType ==
  ASSUME TypeOK, IInv, NEW s \in Slots,
         UpdateSavesOrder(s) \/ syncOperationalStates(s) \/ reportIssue(s)
  PROVE  TypeOK'
<1>1. CASE UpdateSavesOrder(s)
  <2>1. req[s].nextStatus \in OrderStatus
    BY <1>1, Statuses DEF UpdateSavesOrder, At, IInv, Backed
  <2>2. (IF req[s].nextStatus = "COMPLETED" THEN {"completedAt"} ELSE {})
          \in SUBSET Milestones
    BY DEF Milestones
  <2> QED
    BY <1>1, <2>1, <2>2, SetStatusType, RequestTypes, RespondType
       DEF UpdateSavesOrder, TypeOK
<1>2. CASE SweepFindsDelayed(s)
  <2>1. [Idle EXCEPT !.pc = "sweep.save", !.order = order.status] \in Request
    BY IdleType, ReadTypes, Places DEF Request
  <2> QED
    BY <1>2, <2>1, RowsUnchanged, ContinueType, RespondType DEF SweepFindsDelayed, TypeOK
<1>3. CASE SweepSavesOrder(s)
  BY <1>3, SetStatusType, RequestTypes, Statuses, RespondType DEF SweepSavesOrder, TypeOK
<1>4. CASE ReportSavesOrder(s)
  <2>1. order' \in OrderRow /\ stale' \in BOOLEAN
    BY <1>4, Statuses
       DEF ReportSavesOrder, setStatus, updateStatus, TypeOK, RowsOK, OrderRow
  <2>2. RowsOK'
    BY <1>4, <2>1 DEF ReportSavesOrder, TypeOK, RowsOK, providerVars
  <2> QED
    BY <1>4, <2>2, RespondType DEF ReportSavesOrder, TypeOK
<1> QED
  BY <1>1, <1>2, <1>3, <1>4 DEF syncOperationalStates, reportIssue

LEMMA EnvironmentType ==
  ASSUME TypeOK, Environment
  PROVE  TypeOK'
<1>1. CASE CustomerPays \/ AttemptDeclined
  BY <1>1 DEF CustomerPays, AttemptDeclined, TypeOK, RowsOK, orderVars
<1>2. CASE TtlElapses
  BY <1>2 DEF TtlElapses, TypeOK, RowsOK, OrderRow, QRRow, orderVars, providerVars
<1>3. CASE OrderSitsIdle
  BY <1>3 DEF OrderSitsIdle, TypeOK, RowsOK, providerVars
<1> QED
  BY <1>1, <1>2, <1>3 DEF Environment

LEMMA AbortType ==
  ASSUME TypeOK, NEW s \in Slots, Abort(s)
  PROVE  TypeOK'
<1>1. aborts' \in 0..MaxAborts
  <2>1. MaxAborts \in Nat
    BY StoreAssumption
  <2>2. aborts \in 0..MaxAborts
    BY DEF TypeOK, RowsOK
  <2>3. aborts < MaxAborts /\ aborts' = aborts + 1
    BY DEF Abort
  <2> QED
    BY <2>1, <2>2, <2>3
<1>2. RowsOK'
  BY <1>1 DEF Abort, TypeOK, RowsOK, orderVars, providerVars
<1> QED
  BY <1>2, RespondType DEF Abort, TypeOK

(* Every step keeps the types, given what the pending writes rest on. *)
LEMMA TypeStep ==
  ASSUME TypeOK, IInv, [Next]_vars
  PROVE  TypeOK'
<1>1. CASE Environment
  BY <1>1, EnvironmentType
<1>2. ASSUME NEW s \in Slots, Proceed(s)
      PROVE  TypeOK'
  BY <1>2, QrServiceType, InitiateType, OutcomeType, RefundType, DeskType
     DEF Proceed, recordPaymentSuccess, updateOrderStatus
<1>3. ASSUME NEW s \in Slots, Arrival(s) \/ Abort(s)
      PROVE  TypeOK'
  BY <1>3, ArrivalType, AbortType
<1>4. CASE UNCHANGED vars
  BY <1>4 DEF vars, orderVars, providerVars, TypeOK, RowsOK
<1> QED
  BY <1>1, <1>2, <1>3, <1>4 DEF Next

LEMMA TypeInit == Init => TypeOK
<1> SUFFICES ASSUME Init PROVE TypeOK
  OBVIOUS
<1>1. order \in OrderRow
  BY DEF Init, OrderRow, OrderStatus
<1>2. payment \in PaymentRow /\ qr \in QRRow
  BY DEF Init, NoPayment, NoAttempt, NoQR, PaymentRow, QRRow
<1>3. req \in [Slots -> Request]
  BY IdleType DEF Init
<1>4. aborts \in 0..MaxAborts
  <2>1. MaxAborts \in Nat
    BY StoreAssumption
  <2>2. aborts = 0
    BY DEF Init
  <2> QED
    BY <2>1, <2>2
<1> QED
  BY <1>1, <1>2, <1>3, <1>4 DEF Init, TypeOK, RowsOK

==============================================================================
