--------------------------- MODULE SequentialProofs ---------------------------
(***************************************************************************)
(* The requirements that hold while requests do not overlap and none is    *)
(* cut short, for any number of tokens and provider orders.  The argument: *)
(* the rows agree except between the two writes of the one request in      *)
(* progress, so whatever it has read is still true when it writes          *)
(* (TokenPlace, PaymentPlace).  Overlap and aborts each refute it: see the *)
(* runs one_time_use and capture_crash.  One-time use, at the end, needs   *)
(* only that requests do not overlap.                                      *)
(***************************************************************************)
EXTENDS CanteenProofs

(* Where a request waits after the step it takes. *)
LEMMA RespondPlace ==
  ASSUME TypeOK, NEW s \in Slots, Respond(s)
  PROVE  req'[s].pc = "idle"
  BY DEF TypeOK, Respond, Continue, Idle

LEMMA ExpireReturnsPlace ==
  ASSUME TypeOK, NEW s \in Slots, ExpireReturns(s)
  PROVE  req'[s].pc \in {"idle", "sweep.delayed"}
<1>1. req'[s].pc = req[s].return
  BY DEF TypeOK, ExpireReturns, Continue, Idle
<1> QED
  BY <1>1, RequestTypes

------------------------------------------------------------------------------
(* The two rows of the token. *)

(* A request that has neither row half written, and is about to write      *)
(* neither, only asks that they agree.                                     *)
LEMMA TokenSettled ==
  ASSUME NEW s \in Slots, RowsAgree',
         req'[s].pc \notin {"generate.save", "success.issue", "scan.use", "scan.confirm",
                            "expire.find", "expire.save", "manager.save", "sweep.save"}
  PROVE  TokenPlace(s)'
  BY DEF TokenPlace, At

LEMMA AgreeKept ==
  ASSUME RowsAgree, UNCHANGED <<order, qr>>
  PROVE  RowsAgree'
  BY DEF RowsAgree

(* A status that no token goes with. *)
LEMMA AgreeApart ==
  ASSUME NEW status, NEW milestones, setStatus(status, milestones), qr' = qr,
         status \notin Fulfilment \cup {"QR_GENERATED"}
  PROVE  RowsAgree'
  BY DEF setStatus, updateStatus, RowsAgree

(* An order the counter holds, once the token is used. *)
LEMMA AgreeUsed ==
  ASSUME NEW status, NEW milestones, setStatus(status, milestones), qr' = qr,
         qr.status = "USED", status # "QR_GENERATED"
  PROVE  RowsAgree'
  BY DEF setStatus, updateStatus, RowsAgree

LEMMA TokenArrival ==
  ASSUME TypeOK, NEW s \in Slots, TokenPlace(s), Arrival(s)
  PROVE  TokenPlace(s)'
<1>1. req[s] = Idle /\ UNCHANGED <<order, qr, lapsed>>
  BY DEF Arrival, InitiateStarts, SuccessStarts, FailureStarts, ScanStarts, UpdateStarts,
     RefundStarts, SweepStarts, ReportStarts, Arrives, orderVars
<1>2. RowsAgree /\ RowsAgree'
  <2>0. Idle.pc = "idle"
    BY DEF Idle
  <2>1. req[s].pc = "idle"
    BY <1>1, <2>0
  <2>2. RowsAgree
    BY <2>1 DEF TokenPlace
  <2> QED
    BY <1>1, <2>2, AgreeKept
<1>3. CASE InitiateStarts(s) \/ RefundStarts(s) \/ ReportStarts(s) \/ ScanStarts(s)
  <2>1. req'[s].pc \in {"initiate.key", "refund.payment", "report.save", "scan.find"}
    BY <1>3 DEF InitiateStarts, RefundStarts, ReportStarts, ScanStarts, TypeOK, Continue, Idle
  <2> QED
    BY <1>2, <2>1, TokenSettled
<1>4. CASE SuccessStarts(s) \/ FailureStarts(s)
  <2>1. req'[s].pc \in {"success.payment", "failure.payment"}
    BY <1>4 DEF SuccessStarts, FailureStarts, TypeOK, Continue, Idle
  <2> QED
    BY <1>2, <2>1, TokenSettled
<1>5. CASE UpdateStarts(s)
  <2>1. PICK next \in ManagerStatus :
          /\ assertValidTransition(order.status, next)
          /\ Continue(s, [Idle EXCEPT !.pc = "manager.save", !.order = order.status,
                                      !.nextStatus = next])
    BY <1>5 DEF UpdateStarts
  <2>2. req'[s].pc = "manager.save" /\ req'[s].nextStatus = next
    BY <2>1 DEF TypeOK, Continue, Idle
  <2> QED
    BY <1>1, <1>2, <2>1, <2>2 DEF TokenPlace, At
<1>6. CASE SweepStarts(s)
  <2>1. CASE Goto(s, "sweep.delayed")
    BY <1>2, <2>1, GotoPlace, TokenSettled
  <2>2. CASE /\ QrExpired
             /\ Continue(s, [Idle EXCEPT !.pc = "expire.find", !.return = "sweep.delayed"])
    <3>1. req'[s].pc = "expire.find"
      BY <2>2 DEF TypeOK, Continue, Idle
    <3>2. qr'.nonce \in lapsed'
      BY <1>1, <1>2, <2>2 DEF QrExpired, RowsAgree
    <3> QED
      BY <1>2, <3>1, <3>2 DEF TokenPlace, At
  <2> QED
    BY <1>6, <2>1, <2>2 DEF SweepStarts
<1> QED
  BY <1>3, <1>4, <1>5, <1>6 DEF Arrival

LEMMA ReturnsActivePlace ==
  ASSUME TypeOK, NEW s \in Slots, GenerateReturnsActive(s)
  PROVE  req'[s].pc = "success.issue" /\ req'[s].nonce = qr.nonce
<1>1. req'[s] = [req[s] EXCEPT !.pc = "success.issue", !.nonce = qr.nonce]
  BY ContinueMoves DEF GenerateReturnsActive
<1> QED
  BY <1>1, RequestTypes DEF Request

LEMMA DrawsNoncePlace ==
  ASSUME TypeOK, NEW s \in Slots, GenerateDrawsNonce(s)
  PROVE  req'[s].pc = "generate.save"
<1>1. PICK t \in FreshTokens :
        Continue(s, [req[s] EXCEPT !.pc = "generate.save", !.nonce = t,
                                   !.existing = (qr.status # "NO ROW")])
  BY DEF GenerateDrawsNonce
<1>2. req'[s] = [req[s] EXCEPT !.pc = "generate.save", !.nonce = t,
                               !.existing = (qr.status # "NO ROW")]
  BY <1>1, ContinueMoves
<1> QED
  BY <1>2, RequestTypes DEF Request

LEMMA RefundReadPlace ==
  ASSUME TypeOK, NEW s \in Slots, RefundReadsPayment(s)
  PROVE  req'[s].pc \in {"idle", "refund.provider"}
<1>1. CASE Respond(s)
  BY <1>1, RespondPlace
<1>2. CASE Continue(s, [req[s] EXCEPT !.pc = "refund.provider",
                                      !.providerOrderId = payment.providerPaymentId.of])
  <2>1. req'[s] = [req[s] EXCEPT !.pc = "refund.provider",
                                 !.providerOrderId = payment.providerPaymentId.of]
    BY <1>2, ContinueMoves
  <2> QED
    BY <2>1, RequestTypes DEF Request
<1> QED
  BY <1>1, <1>2 DEF RefundReadsPayment

LEMMA TokenGenerate ==
  ASSUME TypeOK, NEW s \in Slots, TokenPlace(s), generateForPaidOrder(s)
  PROVE  TokenPlace(s)'
<1>0. req[s] \in Request /\ order' = order
  BY RequestTypes DEF generateForPaidOrder, GenerateReturnsActive, GenerateDrawsNonce,
     GenerateSaves, GenerateCreateRefused, orderVars
<1>1. CASE GenerateReturnsActive(s)
  <2>1. req'[s].pc = "success.issue" /\ req'[s].nonce = qr.nonce
    BY <1>1, ReturnsActivePlace
  <2> QED
    BY <1>1, <2>1 DEF GenerateReturnsActive, TokenPlace, At
<1>2. CASE GenerateDrawsNonce(s)
  <2>1. req'[s].pc = "generate.save"
    BY <1>2, DrawsNoncePlace
  <2>2. RowsAgree' /\ qr'.status # "ACTIVE"
    BY <1>0, <1>2, AgreeKept DEF GenerateDrawsNonce, TokenPlace, At
  <2> QED
    BY <2>1, <2>2 DEF TokenPlace, At
<1>3. CASE GenerateSaves(s)
  <2>1. req'[s].pc = "success.issue" /\ req'[s].nonce = req[s].nonce
    <3>1. req'[s] = [req[s] EXCEPT !.pc = "success.issue"]
      BY <1>3, GotoMoves DEF GenerateSaves
    <3> QED
      BY <1>0, <3>1 DEF Request
  <2>2. qr'.status = "ACTIVE" /\ qr'.nonce = req[s].nonce
    BY <1>3 DEF GenerateSaves
  <2> QED
    BY <2>1, <2>2 DEF TokenPlace, At
<1>4. CASE GenerateCreateRefused(s)
  <2>1. RowsAgree'
    BY <1>0, <1>4, AgreeKept DEF GenerateCreateRefused, TokenPlace, At
  <2> QED
    BY <1>4, <2>1, RespondPlace, TokenSettled DEF GenerateCreateRefused
<1> QED
  BY <1>1, <1>2, <1>3, <1>4 DEF generateForPaidOrder

(* A token expires together with its order, unless that has moved on. *)
LEMMA TokenExpire ==
  ASSUME TypeOK, NEW s \in Slots, TokenPlace(s), expireQr(s)
  PROVE  TokenPlace(s)'
<1>0. req[s] \in Request /\ qr \in QRRow /\ lapsed' = lapsed
  BY RequestTypes
     DEF TypeOK, RowsOK, expireQr, ExpireFinds, ExpireSaves, ExpireSavesOrder
<1>1. CASE ExpireFinds(s)
  <2>1. RowsAgree' /\ order' = order /\ qr' = qr
    BY <1>1, AgreeKept DEF ExpireFinds, orderVars, TokenPlace, At
  <2>2. CASE ExpireReturns(s)
    BY <2>1, <2>2, ExpireReturnsPlace, TokenSettled
  <2>3. CASE /\ qr.status = "ACTIVE"
             /\ Continue(s, [req[s] EXCEPT !.pc = "expire.save", !.order = order.status])
    <3>1. req'[s].pc = "expire.save" /\ req'[s].order = order.status
      BY <1>0, <2>3 DEF TypeOK, Continue, Request
    <3>2. qr.nonce \in lapsed
      BY <1>1 DEF ExpireFinds, TokenPlace, At
    <3> QED
      BY <1>0, <2>1, <2>3, <3>1, <3>2 DEF TokenPlace, At
  <2> QED
    BY <1>1, <2>2, <2>3 DEF ExpireFinds
<1>2. CASE ExpireSaves(s)
  <2>1. qr.status = "ACTIVE" /\ req[s].order = order.status /\ RowsAgree /\ order' = order
    BY <1>2 DEF ExpireSaves, orderVars, TokenPlace, At
  <2>2. CASE Goto(s, "expire.order")
    <3>1. req'[s].pc = "expire.order"
      BY <2>2, GotoPlace
    <3> QED
      BY <3>1 DEF TokenPlace, At
  <2>3. CASE req[s].order # "QR_GENERATED" /\ ExpireReturns(s)
    <3>1. RowsAgree'
      BY <2>1, <2>3 DEF RowsAgree
    <3> QED
      BY <2>3, <3>1, ExpireReturnsPlace, TokenSettled
  <2> QED
    BY <1>2, <2>2, <2>3 DEF ExpireSaves
<1>3. CASE ExpireSavesOrder(s)
  <2>1. RowsAgree'
    BY <1>3, AgreeApart DEF ExpireSavesOrder, Fulfilment
  <2> QED
    BY <1>3, <2>1, ExpireReturnsPlace, TokenSettled DEF ExpireSavesOrder
<1> QED
  BY <1>1, <1>2, <1>3 DEF expireQr

(* A scan confirms the order it found waiting. *)
LEMMA TokenScan ==
  ASSUME TypeOK, NEW s \in Slots, TokenPlace(s), validateAndConsume(s)
  PROVE  TokenPlace(s)'
<1>0. lapsed' = lapsed /\ qr \in QRRow
  BY DEF TypeOK, RowsOK, validateAndConsume, ScanRefused, ScanFindsLapsed, ScanAccepted,
     ScanUsesToken, ScanConfirmsOrder
<1>1. CASE ScanRefused(s)
  <2>1. RowsAgree'
    BY <1>1, AgreeKept DEF ScanRefused, orderVars, TokenPlace, At
  <2> QED
    BY <1>1, <2>1, RespondPlace, TokenSettled DEF ScanRefused
<1>2. CASE ScanFindsLapsed(s)
  <2>1. RowsAgree' /\ qr'.nonce \in lapsed'
    BY <1>0, <1>2, AgreeKept DEF ScanFindsLapsed, orderVars, TokenPlace, At
  <2>2. req'[s].pc = "expire.find"
    BY <1>2 DEF ScanFindsLapsed, TypeOK, Continue, Idle
  <2> QED
    BY <2>1, <2>2 DEF TokenPlace, At
<1>3. CASE ScanAccepted(s)
  <2>1. RowsAgree' /\ order' = order /\ qr' = qr
    BY <1>3, AgreeKept DEF ScanAccepted, orderVars, TokenPlace, At
  <2>2. qr.status = "ACTIVE" /\ order.status = "QR_GENERATED"
    BY <1>3, ConfirmedFollowsQr DEF ScanAccepted, Presented
  <2>3. req'[s].pc = "scan.use"
    BY <1>3 DEF ScanAccepted, TypeOK, Continue, Idle
  <2> QED
    BY <2>1, <2>2, <2>3 DEF TokenPlace, At
<1>4. CASE ScanUsesToken(s)
  <2>1. req'[s].pc = "scan.confirm"
    BY <1>4, GotoPlace DEF ScanUsesToken
  <2>2. qr'.status = "USED"
    BY <1>0, <1>4 DEF ScanUsesToken, QRRow
  <2> QED
    BY <2>1, <2>2 DEF TokenPlace, At
<1>5. CASE ScanConfirmsOrder(s)
  <2>1. RowsAgree'
    BY <1>5, AgreeUsed DEF ScanConfirmsOrder, TokenPlace, At
  <2> QED
    BY <1>5, <2>1, RespondPlace, TokenSettled DEF ScanConfirmsOrder
<1> QED
  BY <1>1, <1>2, <1>3, <1>4, <1>5 DEF validateAndConsume

LEMMA InitiatePlace ==
  ASSUME TypeOK, NEW s \in Slots, initiateOrderPayment(s)
  PROVE  req'[s].pc \in {"idle", "initiate.existing", "initiate.provider",
                         "initiate.pending", "initiate.save", "initiate.reply"}
<1>1. req[s] \in Request
  BY RequestTypes
<1>2. CASE InitiateChecksOrder(s) \/ InitiateOpensProviderOrder(s)
  <2>1. ASSUME NEW pc, NEW found, NEW po
        PROVE  /\ Continue(s, [req[s] EXCEPT !.pc = pc, !.existing = found])
                    => req'[s].pc = pc
               /\ Continue(s, [req[s] EXCEPT !.pc = pc, !.providerOrderId = po])
                    => req'[s].pc = pc
    BY <1>1 DEF TypeOK, Continue, Request
  <2> QED
    BY <1>2, <2>1, RespondPlace DEF InitiateChecksOrder, InitiateOpensProviderOrder
<1>3. CASE InitiateKeyIsNew(s) \/ InitiateMarksPending(s) \/ InitiateSavesPayment(s)
  BY <1>3, GotoPlace DEF InitiateKeyIsNew, InitiateMarksPending, InitiateSavesPayment
<1>4. CASE \/ InitiateFindsKey(s) \/ InitiateReusesPayment(s)
           \/ InitiateCreateRefused(s) \/ InitiateReplies(s)
  BY <1>4, RespondPlace DEF InitiateFindsKey, InitiateReusesPayment,
     InitiateCreateRefused, InitiateReplies, Offer
<1> QED
  BY <1>2, <1>3, <1>4 DEF initiateOrderPayment

LEMMA TokenInitiate ==
  ASSUME TypeOK, NEW s \in Slots, TokenPlace(s), initiateOrderPayment(s)
  PROVE  TokenPlace(s)'
<1>0. RowsAgree
  BY DEF initiateOrderPayment, InitiateFindsKey, InitiateKeyIsNew, InitiateReusesPayment,
     InitiateChecksOrder, InitiateOpensProviderOrder, InitiateMarksPending,
     InitiateSavesPayment, InitiateCreateRefused, InitiateReplies, TokenPlace, At
<1>1. RowsAgree'
  <2>1. CASE InitiateMarksPending(s)
    BY <2>1, AgreeApart DEF InitiateMarksPending, Fulfilment
  <2>2. CASE ~ InitiateMarksPending(s)
    BY <1>0, <2>2, AgreeKept DEF initiateOrderPayment, InitiateFindsKey, InitiateKeyIsNew,
       InitiateReusesPayment, InitiateChecksOrder, InitiateOpensProviderOrder,
       InitiateSavesPayment, InitiateCreateRefused, InitiateReplies, Offer, orderVars
  <2> QED
    BY <2>1, <2>2
<1> QED
  BY <1>1, InitiatePlace, TokenSettled

(* The order is issued with the expiry of the token just saved. *)
LEMMA TokenOutcome ==
  ASSUME TypeOK, NEW s \in Slots, TokenPlace(s),
         \/ SuccessSavesPayment(s) \/ SuccessMarksPaid(s) \/ SuccessIssuesOrder(s)
         \/ recordPaymentFailure(s)
  PROVE  TokenPlace(s)'
<1>1. CASE SuccessSavesPayment(s)
  <2>1. PICK pc \in {"success.paid", "generate.find"} : Goto(s, pc)
    BY <1>1 DEF SuccessSavesPayment
  <2>2. RowsAgree'
    BY <1>1, AgreeKept DEF SuccessSavesPayment, orderVars, TokenPlace, At
  <2> QED
    BY <2>1, <2>2, GotoPlace, TokenSettled
<1>2. CASE SuccessMarksPaid(s)
  <2>1. RowsAgree'
    BY <1>2, AgreeApart DEF SuccessMarksPaid, Fulfilment
  <2> QED
    BY <1>2, <2>1, GotoPlace, TokenSettled DEF SuccessMarksPaid
<1>3. CASE SuccessIssuesOrder(s)
  <2>1. qr.status = "ACTIVE" /\ qr.nonce = req[s].nonce
    BY <1>3 DEF SuccessIssuesOrder, TokenPlace, At
  <2>2. RowsAgree'
    BY <1>3, <2>1 DEF SuccessIssuesOrder, updateStatus, RowsAgree, Fulfilment
  <2> QED
    BY <1>3, <2>2, RespondPlace, TokenSettled DEF SuccessIssuesOrder
<1>4. CASE FailureSavesPayment(s)
  <2>1. RowsAgree'
    BY <1>4, AgreeKept DEF FailureSavesPayment, orderVars, TokenPlace, At
  <2>2. req'[s].pc \in {"idle", "failure.order"}
    BY <1>4, GotoPlace, RespondPlace DEF FailureSavesPayment
  <2> QED
    BY <2>1, <2>2, TokenSettled
<1>5. CASE FailureSavesOrder(s)
  <2>1. RowsAgree'
    BY <1>5, AgreeApart DEF FailureSavesOrder, Fulfilment
  <2> QED
    BY <1>5, <2>1, RespondPlace, TokenSettled DEF FailureSavesOrder
<1> QED
  BY <1>1, <1>2, <1>3, <1>4, <1>5 DEF recordPaymentFailure

LEMMA TokenRefund ==
  ASSUME TypeOK, NEW s \in Slots, TokenPlace(s), refundOrder(s)
  PROVE  TokenPlace(s)'
<1>1. CASE RefundSavesOrder(s)
  <2>1. RowsAgree'
    BY <1>1, AgreeApart DEF RefundSavesOrder, Fulfilment
  <2> QED
    BY <1>1, <2>1, RespondPlace, TokenSettled DEF RefundSavesOrder
<1>2. CASE ~ RefundSavesOrder(s)
  <2>1. RowsAgree'
    BY <1>2, AgreeKept DEF refundOrder, RefundReadsPayment, RefundAtProvider, RefundRefused,
       RefundSavesPayment, orderVars, TokenPlace, At
  <2>2. req'[s].pc \in {"idle", "refund.provider", "refund.save", "refund.order"}
    BY <1>2, RefundReadPlace, RespondPlace, GotoPlace
       DEF refundOrder, RefundAtProvider, RefundRefused, RefundSavesPayment
  <2> QED
    BY <2>1, <2>2, TokenSettled
<1> QED
  BY <1>1, <1>2

(* The desk moves an order among the statuses that go with a used token.   *)
LEMMA TokenDesk ==
  ASSUME TypeOK, NEW s \in Slots, TokenPlace(s),
         UpdateSavesOrder(s) \/ syncOperationalStates(s) \/ reportIssue(s)
  PROVE  TokenPlace(s)'
<1>0. RowsAgree
  BY DEF UpdateSavesOrder, syncOperationalStates, SweepFindsDelayed, SweepSavesOrder,
     reportIssue, ReportSavesOrder, TokenPlace, At
<1>1. CASE UpdateSavesOrder(s)
  <2>1. /\ req[s].nextStatus \in ManagerStatus
        /\ assertValidTransition(order.status, req[s].nextStatus)
    BY <1>1 DEF UpdateSavesOrder, TokenPlace, At
  <2>2. CASE req[s].nextStatus \in {"PREPARING", "READY", "COMPLETED"}
    <3>1. qr.status = "USED"
      BY <1>0, <2>1, <2>2, FulfilmentFollowsFulfilment DEF RowsAgree
    <3>2. RowsAgree'
      BY <1>1, <2>2, <3>1, AgreeUsed DEF UpdateSavesOrder
    <3> QED
      BY <1>1, <3>2, RespondPlace, TokenSettled DEF UpdateSavesOrder
  <2>3. CASE req[s].nextStatus \in {"CANCELLED", "REFUNDED"}
    <3>1. RowsAgree'
      BY <1>1, <2>3, AgreeApart DEF UpdateSavesOrder, Fulfilment
    <3> QED
      BY <1>1, <3>1, RespondPlace, TokenSettled DEF UpdateSavesOrder
  <2> QED
    BY <2>1, <2>2, <2>3 DEF ManagerStatus
<1>2. CASE SweepFindsDelayed(s)
  <2>1. RowsAgree' /\ order' = order
    BY <1>0, <1>2, AgreeKept DEF SweepFindsDelayed, orderVars
  <2>2. CASE Respond(s)
    BY <2>1, <2>2, RespondPlace, TokenSettled
  <2>3. CASE /\ EligibleForDelay
             /\ Continue(s, [Idle EXCEPT !.pc = "sweep.save", !.order = order.status])
    <3>1. req'[s].pc = "sweep.save"
      BY <2>3 DEF TypeOK, Continue, Idle
    <3> QED
      BY <2>1, <2>3, <3>1 DEF EligibleForDelay, TokenPlace, At
  <2> QED
    BY <1>2, <2>2, <2>3 DEF SweepFindsDelayed
<1>3. CASE SweepSavesOrder(s)
  <2>1. qr.status = "USED"
    BY <1>0, <1>3 DEF SweepSavesOrder, TokenPlace, At, RowsAgree, Fulfilment
  <2>2. RowsAgree'
    BY <1>3, <2>1, AgreeUsed DEF SweepSavesOrder
  <2> QED
    BY <1>3, <2>2, RespondPlace, TokenSettled DEF SweepSavesOrder
<1>4. CASE ReportSavesOrder(s)
  <2>1. RowsAgree'
    BY <1>4, AgreeApart DEF ReportSavesOrder, Fulfilment
  <2> QED
    BY <1>4, <2>1, RespondPlace, TokenSettled DEF ReportSavesOrder
<1> QED
  BY <1>1, <1>2, <1>3, <1>4 DEF syncOperationalStates, reportIssue

LEMMA TokenProceed ==
  ASSUME TypeOK, NEW s \in Slots, TokenPlace(s), Proceed(s)
  PROVE  TokenPlace(s)'
  BY TokenInitiate, TokenOutcome, TokenGenerate, TokenScan, TokenExpire, TokenRefund,
     TokenDesk DEF Proceed, recordPaymentSuccess, updateOrderStatus

(* The clocks only let more tokens lapse. *)
LEMMA TokenEnvironment ==
  ASSUME NEW s \in Slots, TokenPlace(s), Environment
  PROVE  TokenPlace(s)'
<1>1. UNCHANGED <<order, qr, req>> /\ lapsed \subseteq lapsed'
  BY DEF Environment, CustomerPays, AttemptDeclined, TtlElapses, OrderSitsIdle, orderVars
<1> QED
  BY <1>1 DEF TokenPlace, RowsAgree, At

------------------------------------------------------------------------------
(* The payment row and the provider order that was handed out. *)

LEMMA PaymentSettled ==
  ASSUME NEW s \in Slots, PaymentKeepsUp', (offered \subseteq {payment.providerOrderId})',
         req'[s].pc \notin {"initiate.key", "initiate.existing", "initiate.provider",
                            "initiate.pending", "initiate.save", "initiate.reply",
                            "success.payment", "failure.payment",
                            "refund.provider", "refund.save"}
  PROVE  PaymentPlace(s)'
  BY DEF PaymentPlace, At

(* A status in which no payment is awaited. *)
LEMMA KeepsUpPast ==
  ASSUME NEW status, NEW milestones, setStatus(status, milestones),
         status \notin {"CREATED", "PAYMENT_PENDING"}
  PROVE  PaymentKeepsUp'
  BY DEF setStatus, updateStatus, PaymentKeepsUp

(* As long as there is no row, nothing was handed out. *)
LEMMA NothingOffered ==
  ASSUME TypeOK, IInv, offered \subseteq {payment.providerOrderId},
         payment.status = "NO ROW"
  PROVE  offered = {}
  BY DEF TypeOK, RowsOK, IInv, RowsBacked, HasPayment

LEMMA PaymentArrival ==
  ASSUME TypeOK, NEW s \in Slots, PaymentPlace(s), Arrival(s)
  PROVE  PaymentPlace(s)'
<1>1. req[s] = Idle /\ UNCHANGED <<order, payment, offered>>
  BY DEF Arrival, InitiateStarts, SuccessStarts, FailureStarts, ScanStarts, UpdateStarts,
     RefundStarts, SweepStarts, ReportStarts, Arrives, orderVars, providerVars
<1>2. PaymentKeepsUp' /\ (offered \subseteq {payment.providerOrderId})'
  <2>0. Idle.pc = "idle"
    BY DEF Idle
  <2>1. req[s].pc = "idle"
    BY <1>1, <2>0
  <2> QED
    BY <1>1, <2>1 DEF PaymentPlace, PaymentKeepsUp
<1>3. CASE InitiateStarts(s)
  <2>1. req'[s].pc = "initiate.key" /\ req'[s].order = order.status
    BY <1>3 DEF InitiateStarts, TypeOK, Continue, Idle
  <2> QED
    BY <1>1, <1>2, <2>1 DEF PaymentPlace, At
<1>4. CASE SuccessStarts(s) \/ FailureStarts(s)
  <2>1. /\ req'[s].pc \in {"success.payment", "failure.payment"}
        /\ req'[s].order = order.status
    <3>1. CASE SuccessStarts(s)
      BY <3>1 DEF SuccessStarts, TypeOK, Continue, Idle
    <3>2. CASE FailureStarts(s)
      BY <3>2 DEF FailureStarts, TypeOK, Continue, Idle
    <3> QED
      BY <1>4, <3>1, <3>2
  <2> QED
    BY <1>1, <1>2, <2>1 DEF PaymentPlace, At
<1>5. CASE RefundStarts(s) \/ ReportStarts(s) \/ ScanStarts(s) \/ UpdateStarts(s)
  <2>1. req'[s].pc \in {"refund.payment", "report.save", "scan.find", "manager.save"}
    BY <1>5 DEF RefundStarts, ReportStarts, ScanStarts, UpdateStarts, TypeOK, Continue, Idle
  <2> QED
    BY <1>2, <2>1, PaymentSettled
<1>6. CASE SweepStarts(s)
  <2>1. req'[s].pc \in {"sweep.delayed", "expire.find"}
    BY <1>6, GotoPlace DEF SweepStarts, TypeOK, Continue, Idle
  <2> QED
    BY <1>2, <2>1, PaymentSettled
<1> QED
  BY <1>3, <1>4, <1>5, <1>6 DEF Arrival

(* The first payment opens the row; every other one finds it and reuses    *)
(* the provider order it names, or is refused.                             *)
LEMMA PaymentInitiate ==
  ASSUME TypeOK, IInv, NEW s \in Slots, PaymentPlace(s), initiateOrderPayment(s)
  PROVE  PaymentPlace(s)'
<1>0. /\ req[s] \in Request /\ payment \in PaymentRow
      /\ offered \subseteq {payment.providerOrderId}
  BY RequestTypes DEF TypeOK, RowsOK, PaymentPlace
<1>1. CASE InitiateFindsKey(s) \/ InitiateReusesPayment(s)
  <2>1. Offer(s) /\ PaymentKeepsUp
    BY <1>1 DEF InitiateFindsKey, InitiateReusesPayment, PaymentPlace, At
  <2>2. PaymentKeepsUp' /\ (offered \subseteq {payment.providerOrderId})'
    BY <1>0, <2>1 DEF Offer, orderVars, PaymentKeepsUp
  <2> QED
    BY <2>1, <2>2, RespondPlace, PaymentSettled DEF Offer
<1>2. CASE InitiateKeyIsNew(s)
  <2>1. /\ UNCHANGED <<order, payment, offered>> /\ PaymentKeepsUp
        /\ req[s].order = order.status
    BY <1>2 DEF InitiateKeyIsNew, orderVars, providerVars, PaymentPlace, At
  <2>2. req'[s] = [req[s] EXCEPT !.pc = "initiate.existing"]
    BY <1>2, GotoMoves DEF InitiateKeyIsNew
  <2>3. req'[s].pc = "initiate.existing" /\ req'[s].order = order.status
    BY <1>0, <2>1, <2>2 DEF Request
  <2> QED
    BY <1>0, <2>1, <2>3 DEF PaymentPlace, PaymentKeepsUp, At
<1>3. CASE InitiateChecksOrder(s)
  <2>1. /\ UNCHANGED <<order, payment, offered>> /\ PaymentKeepsUp
        /\ req[s].order = order.status
    BY <1>3 DEF InitiateChecksOrder, orderVars, providerVars, PaymentPlace, At
  <2>2. PaymentKeepsUp' /\ (offered \subseteq {payment.providerOrderId})'
    BY <1>0, <2>1 DEF PaymentKeepsUp
  <2>3. CASE Respond(s)
    BY <2>2, <2>3, RespondPlace, PaymentSettled
  <2>4. CASE /\ payment.status \notin reusablePaymentStates
             /\ Continue(s, [req[s] EXCEPT !.pc = "initiate.provider",
                                           !.existing = (payment.status # "NO ROW")])
    <3>1. req'[s].pc = "initiate.provider" /\ req'[s].order = order.status
      BY <1>0, <2>1, <2>4 DEF TypeOK, Continue, Request
    <3> QED
      BY <2>1, <2>2, <2>4, <3>1 DEF PaymentPlace, At
  <2> QED
    BY <1>3, <2>3, <2>4 DEF InitiateChecksOrder
<1>4. CASE InitiateOpensProviderOrder(s)
  <2>1. /\ UNCHANGED <<order, payment, offered>> /\ PaymentKeepsUp
        /\ req[s].order = order.status /\ payment.status \notin reusablePaymentStates
    BY <1>4 DEF InitiateOpensProviderOrder, orderVars, providerVars, PaymentPlace, At
  <2>2. PaymentKeepsUp' /\ (offered \subseteq {payment.providerOrderId})'
    BY <1>0, <2>1 DEF PaymentKeepsUp
  <2>3. CASE Respond(s)
    BY <2>2, <2>3, RespondPlace, PaymentSettled
  <2>4. order.status # "PAYMENT_PENDING"
    BY <2>1 DEF PaymentKeepsUp, reusablePaymentStates
  <2>5. ASSUME NEW po, assertValidTransition(req[s].order, "PAYMENT_PENDING"),
               Continue(s, [req[s] EXCEPT !.pc = "initiate.pending", !.providerOrderId = po])
        PROVE  PaymentPlace(s)'
    <3>1. order.status = "CREATED"
      BY <2>1, <2>5 DEF assertValidTransition, transitions
    <3>2. payment'.status = "NO ROW"
      BY <2>1, <3>1 DEF PaymentKeepsUp
    <3>3. req'[s].pc = "initiate.pending"
      BY <1>0, <2>5 DEF TypeOK, Continue, Request
    <3> QED
      BY <2>2, <3>2, <3>3 DEF PaymentPlace, At
  <2> QED
    BY <1>4, <2>1, <2>3, <2>4, <2>5 DEF InitiateOpensProviderOrder
<1>5. CASE InitiateMarksPending(s)
  <2>1. payment'.status = "NO ROW" /\ (offered \subseteq {payment.providerOrderId})'
    BY <1>0, <1>5 DEF InitiateMarksPending, providerVars, PaymentPlace, At
  <2>2. req'[s].pc = "initiate.save"
    BY <1>5, GotoPlace DEF InitiateMarksPending
  <2>3. order'.status = "PAYMENT_PENDING"
    BY <1>5 DEF InitiateMarksPending, setStatus, updateStatus
  <2> QED
    BY <2>1, <2>2, <2>3 DEF PaymentPlace, At
<1>6. CASE InitiateSavesPayment(s)
  <2>1. offered' = {}
    BY <1>0, <1>6, NothingOffered DEF InitiateSavesPayment, providerVars, PaymentPlace, At
  <2>2. /\ payment'.status = "PENDING"
        /\ payment'.providerOrderId = req[s].providerOrderId
    BY <1>0, <1>6 DEF InitiateSavesPayment, PaymentRow
  <2>3. /\ req'[s].pc = "initiate.reply"
        /\ req'[s].providerOrderId = req[s].providerOrderId
    BY <1>6, GotoPlace DEF InitiateSavesPayment
  <2>4. order'.status = "PAYMENT_PENDING"
    BY <1>6 DEF InitiateSavesPayment, orderVars, PaymentPlace, At
  <2> QED
    BY <2>1, <2>2, <2>3, <2>4 DEF PaymentPlace, PaymentKeepsUp, At
<1>7. ~ InitiateCreateRefused(s)
  BY DEF InitiateCreateRefused, PaymentPlace, At
<1>8. CASE InitiateReplies(s)
  <2>1. /\ PaymentKeepsUp /\ payment.providerOrderId = req[s].providerOrderId
        /\ UNCHANGED <<order, payment>>
        /\ offered' = offered \cup {req[s].providerOrderId}
    BY <1>8 DEF InitiateReplies, orderVars, PaymentPlace, At
  <2>2. PaymentKeepsUp' /\ (offered \subseteq {payment.providerOrderId})'
    BY <1>0, <2>1 DEF PaymentKeepsUp
  <2> QED
    BY <1>8, <2>2, RespondPlace, PaymentSettled DEF InitiateReplies
<1> QED
  BY <1>1, <1>2, <1>3, <1>4, <1>5, <1>6, <1>7, <1>8 DEF initiateOrderPayment

(* The services of the token leave the payment row alone. *)
LEMMA PaymentQr ==
  ASSUME TypeOK, NEW s \in Slots, PaymentPlace(s),
         generateForPaidOrder(s) \/ validateAndConsume(s) \/ expireQr(s)
  PROVE  PaymentPlace(s)'
<1>1. PaymentKeepsUp /\ UNCHANGED <<payment, offered>>
  BY DEF generateForPaidOrder, GenerateReturnsActive, GenerateDrawsNonce, GenerateSaves,
     GenerateCreateRefused, validateAndConsume, ScanRefused, ScanFindsLapsed, ScanAccepted,
     ScanUsesToken, ScanConfirmsOrder, expireQr, ExpireFinds, ExpireSaves, ExpireSavesOrder,
     providerVars, PaymentPlace, At
<1>2. PaymentKeepsUp'
  <2>1. CASE ScanConfirmsOrder(s)
    BY <2>1, KeepsUpPast DEF ScanConfirmsOrder
  <2>2. CASE ExpireSavesOrder(s)
    BY <2>2, KeepsUpPast DEF ExpireSavesOrder
  <2>3. CASE ~ ScanConfirmsOrder(s) /\ ~ ExpireSavesOrder(s)
    <3>1. order' = order
      BY <2>3 DEF generateForPaidOrder, GenerateReturnsActive, GenerateDrawsNonce,
         GenerateSaves, GenerateCreateRefused, validateAndConsume, ScanRefused,
         ScanFindsLapsed, ScanAccepted, ScanUsesToken, expireQr, ExpireFinds, ExpireSaves,
         orderVars
    <3> QED
      BY <1>1, <3>1 DEF PaymentKeepsUp
  <2> QED
    BY <2>1, <2>2, <2>3
<1>3. req'[s].pc \in {"idle", "generate.save", "success.issue", "expire.find", "expire.save",
                      "expire.order", "sweep.delayed", "scan.use", "scan.confirm"}
  <2>1. req[s] \in Request
    BY RequestTypes
  <2>2. CASE GenerateReturnsActive(s) \/ GenerateDrawsNonce(s)
    BY <2>2, ReturnsActivePlace, DrawsNoncePlace
  <2>6. CASE ExpireFinds(s)
    <3>1. Continue(s, [req[s] EXCEPT !.pc = "expire.save", !.order = order.status])
            => req'[s].pc = "expire.save"
      BY <2>1 DEF TypeOK, Continue, Request
    <3> QED
      BY <2>6, <3>1, ExpireReturnsPlace DEF ExpireFinds
  <2>3. CASE ScanFindsLapsed(s) \/ ScanAccepted(s)
    BY <2>3 DEF ScanFindsLapsed, ScanAccepted, TypeOK, Continue, Idle
  <2>4. CASE \/ GenerateSaves(s) \/ GenerateCreateRefused(s) \/ ScanRefused(s)
             \/ ScanUsesToken(s) \/ ScanConfirmsOrder(s)
    BY <2>4, GotoPlace, RespondPlace DEF GenerateSaves, GenerateCreateRefused, ScanRefused,
       ScanUsesToken, ScanConfirmsOrder
  <2>5. CASE ExpireSaves(s) \/ ExpireSavesOrder(s)
    BY <2>5, GotoPlace, ExpireReturnsPlace DEF ExpireSaves, ExpireSavesOrder
  <2> QED
    BY <2>2, <2>3, <2>4, <2>5, <2>6 DEF generateForPaidOrder, validateAndConsume, expireQr
<1>4. (offered \subseteq {payment.providerOrderId})'
  BY <1>1 DEF PaymentPlace
<1> QED
  BY <1>2, <1>3, <1>4, PaymentSettled

(* An outcome finds its payment row; the order follows it. *)
LEMMA PaymentOutcome ==
  ASSUME TypeOK, IInv, NEW s \in Slots, PaymentPlace(s),
         \/ SuccessSavesPayment(s) \/ SuccessMarksPaid(s) \/ SuccessIssuesOrder(s)
         \/ recordPaymentFailure(s)
  PROVE  PaymentPlace(s)'
<1>0. /\ payment \in PaymentRow
      /\ offered' = offered /\ offered \subseteq {payment.providerOrderId}
  BY DEF TypeOK, RowsOK, PaymentPlace, providerVars, SuccessSavesPayment, SuccessMarksPaid,
     SuccessIssuesOrder, recordPaymentFailure, FailureSavesPayment, FailureSavesOrder
<1>1. CASE SuccessSavesPayment(s) \/ FailureSavesPayment(s)
  <2>1. /\ payment.status # "NO ROW"
        /\ PaymentKeepsUp /\ req[s].order = order.status /\ order' = order
    BY <1>1 DEF SuccessSavesPayment, FailureSavesPayment, orderVars, PaymentPlace, At, IInv,
       Backed, HasPayment
  <2>2. (offered \subseteq {payment.providerOrderId})'
    BY <1>0, <1>1 DEF SuccessSavesPayment, FailureSavesPayment, PaymentRow
  <2>3. CASE order.status = "PAYMENT_PENDING"
    <3>1. req'[s].pc \in {"success.paid", "failure.order"}
      BY <1>1, <2>1, <2>3, GotoPlace DEF SuccessSavesPayment, FailureSavesPayment
    <3> QED
      BY <2>2, <3>1 DEF PaymentPlace, At
  <2>4. CASE order.status # "PAYMENT_PENDING"
    <3>1. req'[s].pc \in {"generate.find", "idle"}
      BY <1>1, <2>1, <2>4, GotoPlace, RespondPlace
         DEF SuccessSavesPayment, FailureSavesPayment
    <3>2. PaymentKeepsUp'
      BY <2>1, <2>4 DEF PaymentKeepsUp
    <3> QED
      BY <2>2, <3>1, <3>2, PaymentSettled
  <2> QED
    BY <2>3, <2>4
<1>2. CASE SuccessMarksPaid(s)
  <2>1. PaymentKeepsUp' /\ payment' = payment
    BY <1>2, KeepsUpPast DEF SuccessMarksPaid
  <2> QED
    BY <1>0, <1>2, <2>1, GotoPlace, PaymentSettled DEF SuccessMarksPaid
<1>3. CASE SuccessIssuesOrder(s)
  <2>1. PaymentKeepsUp' /\ payment' = payment
    BY <1>3 DEF SuccessIssuesOrder, updateStatus, PaymentKeepsUp
  <2> QED
    BY <1>0, <1>3, <2>1, RespondPlace, PaymentSettled DEF SuccessIssuesOrder
<1>4. CASE FailureSavesOrder(s)
  <2>1. PaymentKeepsUp' /\ payment' = payment
    BY <1>4, KeepsUpPast DEF FailureSavesOrder
  <2> QED
    BY <1>0, <1>4, <2>1, RespondPlace, PaymentSettled DEF FailureSavesOrder
<1> QED
  BY <1>1, <1>2, <1>3, <1>4 DEF recordPaymentFailure

(* Only a settled payment is refunded, so no order awaits it. *)
LEMMA PaymentRefund ==
  ASSUME TypeOK, NEW s \in Slots, PaymentPlace(s), refundOrder(s)
  PROVE  PaymentPlace(s)'
<1>0. /\ payment \in PaymentRow /\ PaymentKeepsUp
      /\ offered' = offered /\ offered \subseteq {payment.providerOrderId}
  BY DEF TypeOK, RowsOK, PaymentPlace, providerVars, At, refundOrder, RefundReadsPayment,
     RefundAtProvider, RefundRefused, RefundSavesPayment, RefundSavesOrder
<1>1. CASE RefundReadsPayment(s)
  <2>1. UNCHANGED <<order, payment>> /\ PaymentKeepsUp'
    BY <1>0, <1>1 DEF RefundReadsPayment, orderVars, PaymentKeepsUp
  <2>2. CASE Respond(s)
    BY <1>0, <2>1, <2>2, RespondPlace, PaymentSettled
  <2>3. CASE /\ Refundable
             /\ Continue(s, [req[s] EXCEPT !.pc = "refund.provider",
                               !.providerOrderId = payment.providerPaymentId.of])
    <3>1. req[s] \in Request
      BY RequestTypes
    <3>2. req'[s].pc = "refund.provider"
      BY <2>3, <3>1 DEF TypeOK, Continue, Request
    <3> QED
      BY <1>0, <2>1, <2>3, <3>2 DEF Refundable, PaymentPlace, At
  <2> QED
    BY <1>1, <2>2, <2>3 DEF RefundReadsPayment
<1>2. CASE RefundAtProvider(s)
  <2>1. UNCHANGED <<order, payment>> /\ PaymentKeepsUp' /\ payment.status = "SUCCESS"
    BY <1>0, <1>2 DEF RefundAtProvider, orderVars, PaymentKeepsUp, PaymentPlace, At
  <2>2. req'[s].pc = "refund.save"
    BY <1>2, GotoPlace DEF RefundAtProvider
  <2> QED
    BY <1>0, <2>1, <2>2 DEF PaymentPlace, At
<1>3. CASE RefundRefused(s)
  <2>1. UNCHANGED <<order, payment>> /\ PaymentKeepsUp'
    BY <1>0, <1>3 DEF RefundRefused, orderVars, PaymentKeepsUp
  <2> QED
    BY <1>0, <1>3, <2>1, RespondPlace, PaymentSettled DEF RefundRefused
<1>4. CASE RefundSavesPayment(s)
  <2>1. payment.status = "SUCCESS" /\ order' = order
    BY <1>4 DEF RefundSavesPayment, orderVars, PaymentPlace, At
  <2>2. PaymentKeepsUp'
    BY <1>0, <2>1 DEF PaymentKeepsUp
  <2>3. (offered \subseteq {payment.providerOrderId})'
    BY <1>0, <1>4 DEF RefundSavesPayment, PaymentRow
  <2> QED
    BY <1>4, <2>2, <2>3, GotoPlace, PaymentSettled DEF RefundSavesPayment
<1>5. CASE RefundSavesOrder(s)
  <2>1. PaymentKeepsUp' /\ payment' = payment
    BY <1>5, KeepsUpPast DEF RefundSavesOrder
  <2> QED
    BY <1>0, <1>5, <2>1, RespondPlace, PaymentSettled DEF RefundSavesOrder
<1> QED
  BY <1>1, <1>2, <1>3, <1>4, <1>5 DEF refundOrder

LEMMA PaymentDesk ==
  ASSUME TypeOK, NEW s \in Slots, PaymentPlace(s), TokenPlace(s),
         UpdateSavesOrder(s) \/ syncOperationalStates(s) \/ reportIssue(s)
  PROVE  PaymentPlace(s)'
<1>0. /\ PaymentKeepsUp /\ UNCHANGED <<payment, offered>>
      /\ offered \subseteq {payment.providerOrderId}
  BY DEF UpdateSavesOrder, syncOperationalStates, SweepFindsDelayed, SweepSavesOrder,
     reportIssue, ReportSavesOrder, providerVars, PaymentPlace, At
<1>1. CASE UpdateSavesOrder(s)
  <2>1. req[s].nextStatus \in ManagerStatus
    BY <1>1 DEF UpdateSavesOrder, TokenPlace, At
  <2>2. PaymentKeepsUp'
    BY <1>1, <2>1, KeepsUpPast DEF UpdateSavesOrder, ManagerStatus
  <2> QED
    BY <1>0, <1>1, <2>2, RespondPlace, PaymentSettled DEF UpdateSavesOrder
<1>2. CASE SweepFindsDelayed(s)
  <2>1. PaymentKeepsUp'
    BY <1>0, <1>2 DEF SweepFindsDelayed, orderVars, PaymentKeepsUp
  <2>2. req'[s].pc \in {"idle", "sweep.save"}
    BY <1>2, RespondPlace DEF SweepFindsDelayed, TypeOK, Continue, Idle
  <2> QED
    BY <1>0, <2>1, <2>2, PaymentSettled
<1>3. CASE SweepSavesOrder(s) \/ ReportSavesOrder(s)
  <2>1. PaymentKeepsUp' /\ req'[s].pc = "idle"
    BY <1>3, KeepsUpPast, RespondPlace DEF SweepSavesOrder, ReportSavesOrder
  <2> QED
    BY <1>0, <2>1, PaymentSettled
<1> QED
  BY <1>1, <1>2, <1>3 DEF syncOperationalStates, reportIssue

LEMMA PaymentProceed ==
  ASSUME TypeOK, IInv, NEW s \in Slots, PaymentPlace(s), TokenPlace(s), Proceed(s)
  PROVE  PaymentPlace(s)'
  BY PaymentInitiate, PaymentOutcome, PaymentQr, PaymentRefund, PaymentDesk
     DEF Proceed, recordPaymentSuccess, updateOrderStatus

LEMMA PaymentEnvironment ==
  ASSUME NEW s \in Slots, PaymentPlace(s), Environment
  PROVE  PaymentPlace(s)'
<1>1. UNCHANGED <<order, payment, offered, req>>
  BY DEF Environment, CustomerPays, AttemptDeclined, TtlElapses, OrderSitsIdle, orderVars,
     providerVars
<1> QED
  BY <1>1 DEF PaymentPlace, PaymentKeepsUp, At

------------------------------------------------------------------------------
(* Together. *)

(* No request is cut short. *)
LEMMA NoAbort ==
  ASSUME Sequential, TypeOK, NEW s \in Slots
  PROVE  ~ Abort(s)
<1>1. MaxAborts = 0 /\ aborts \in 0..MaxAborts
  BY DEF Sequential, TypeOK, RowsOK
<1>2. ~ (aborts < MaxAborts)
  BY <1>1
<1> QED
  BY <1>2 DEF Abort

LEMMA SequentialInit ==
  ASSUME Init
  PROVE  SequentialInv
<1>1. /\ \A s \in Slots : req[s].pc = "idle"
      /\ order.status = "CREATED" /\ payment.status = "NO ROW" /\ offered = {}
  BY DEF Init, Idle, NoPayment
<1>2. RowsAgree /\ PaymentKeepsUp
  BY <1>1 DEF RowsAgree, PaymentKeepsUp, Fulfilment
<1> QED
  BY <1>1, <1>2 DEF SequentialInv, TokenPlace, PaymentPlace, At

LEMMA SequentialStep ==
  ASSUME Sequential, TypeOK, IInv, SequentialInv, [Next]_vars
  PROVE  SequentialInv'
<1>1. PICK s : Slots = {s}
  BY DEF Sequential, OneAtATime
<1>2. s \in Slots /\ TokenPlace(s) /\ PaymentPlace(s)
  BY <1>1 DEF SequentialInv
<1>3. CASE Environment
  BY <1>1, <1>2, <1>3, TokenEnvironment, PaymentEnvironment DEF SequentialInv
<1>4. CASE Arrival(s) \/ Proceed(s)
  BY <1>1, <1>2, <1>4, TokenArrival, TokenProceed, PaymentArrival, PaymentProceed
     DEF SequentialInv
<1>5. CASE UNCHANGED vars
  <2>1. UNCHANGED <<order, payment, qr, req, offered, captured, refunded, lapsed>>
    BY <1>5 DEF vars, orderVars, providerVars
  <2>2. TokenPlace(s)'
    BY <1>2, <2>1 DEF TokenPlace, RowsAgree, At
  <2>3. PaymentPlace(s)'
    BY <1>2, <2>1 DEF PaymentPlace, PaymentKeepsUp, At
  <2> QED
    BY <1>1, <2>2, <2>3 DEF SequentialInv
<1> QED
  BY <1>1, <1>2, <1>3, <1>4, <1>5, NoAbort DEF Next

(* Between requests, and between the writes of the only one, what it has   *)
(* read of the rows of the order, the token and the payment is still true. *)
THEOREM SequentialInvariance ==
  ASSUME Sequential
  PROVE  Spec => []SequentialInv
<1>1. Init => SequentialInv
  BY SequentialInit
<1>2. TypeOK /\ IInv /\ SequentialInv /\ [Next]_vars => SequentialInv'
  BY SequentialStep
<1> QED
  BY <1>1, <1>2, Invariance, PTL DEF Spec

(* One request at a time leaves the order and its token in agreement.      *)
THEOREM TokenFollowsOrderHolds ==
  ASSUME Sequential
  PROVE  Spec => []TokenFollowsOrder
<1>1. ASSUME SequentialInv
      PROVE  TokenFollowsOrder
  <2>1. PICK s \in Slots : TRUE
    BY DEF Sequential, OneAtATime
  <2>2. Quiet => RowsAgree
    BY <1>1, <2>1 DEF Quiet, At, SequentialInv, TokenPlace
  <2> QED
    BY <2>2 DEF TokenFollowsOrder, RowsAgree
<1> QED
  BY <1>1, SequentialInvariance, PTL

(* One request at a time never opens a second provider order, so the money *)
(* taken is for the one the payment row can be found by.                   *)
THEOREM ChargedOnce ==
  ASSUME Sequential
  PROVE  Spec => []ChargedOnceAndFindable
<1>1. ASSUME TypeOK, SequentialInv
      PROVE  ChargedOnceAndFindable
  <2>1. PICK s \in Slots : TRUE
    BY DEF Sequential, OneAtATime
  <2> QED
    BY <1>1, <2>1 DEF SequentialInv, PaymentPlace, TypeOK, RowsOK, ChargedOnceAndFindable
<1> QED
  BY <1>1, TypeCorrect, SequentialInvariance, PTL

------------------------------------------------------------------------------
(* The token seen from the counter. *)

(* A step that writes neither the token nor moves the clock past it.       *)
LEMMA TokenUnseen ==
  ASSUME qr' = qr, qr.nonce \in lapsed' <=> qr.nonce \in lapsed
  PROVE  UNCHANGED Token!token
  BY DEF Token!token

LEMMA QrServiceSeen ==
  ASSUME TypeOK, NoncesApart, NEW s \in Slots, TokenPlace(s),
         generateForPaidOrder(s) \/ validateAndConsume(s) \/ expireQr(s)
  PROVE  [Token!Next]_(Token!token)
<1>0. qr \in QRRow
  BY DEF TypeOK, RowsOK
<1>1. CASE GenerateDrawsNonce(s)
  <2>1. qr' = qr /\ \E t \in FreshTokens : lapsed' = lapsed \ {t}
    BY <1>1 DEF GenerateDrawsNonce
  <2> QED
    BY <2>1, TokenUnseen DEF FreshTokens
<1>2. CASE GenerateSaves(s)
  <2>1. /\ qr.status # "ACTIVE"
        /\ req[s].nonce \in Tokens \ (lapsed \cup {qr.nonce})
    BY <1>2 DEF GenerateSaves, TokenPlace, At, NoncesApart
  <2>2. qr'.status = "ACTIVE" /\ qr'.nonce = req[s].nonce /\ lapsed' = lapsed
    BY <1>2 DEF GenerateSaves
  <2>3. Token!Issue
    BY <2>1, <2>2 DEF Token!Issue
  <2> QED
    BY <2>3 DEF Token!Next
<1>3. CASE ScanUsesToken(s)
  <2>1. qr.status = "ACTIVE"
    BY <1>3 DEF ScanUsesToken, TokenPlace, At
  <2>2. qr'.status = "USED" /\ qr'.nonce = qr.nonce /\ lapsed' = lapsed
    BY <1>0, <1>3 DEF ScanUsesToken, QRRow
  <2>3. Token!Use
    BY <2>1, <2>2 DEF Token!Use
  <2> QED
    BY <2>3 DEF Token!Next
<1>4. CASE ExpireSaves(s)
  <2>1. qr.status = "ACTIVE" /\ qr.nonce \in lapsed
    BY <1>4 DEF ExpireSaves, TokenPlace, At
  <2>2. qr'.status = "EXPIRED" /\ qr'.nonce = qr.nonce /\ lapsed' = lapsed
    BY <1>0, <1>4 DEF ExpireSaves, QRRow
  <2>3. Token!Expire
    BY <2>1, <2>2 DEF Token!Expire
  <2> QED
    BY <2>3 DEF Token!Next
<1>5. CASE /\ ~ GenerateDrawsNonce(s) /\ ~ GenerateSaves(s)
           /\ ~ ScanUsesToken(s) /\ ~ ExpireSaves(s)
  <2>1. qr' = qr /\ lapsed' = lapsed
    BY <1>5 DEF generateForPaidOrder, GenerateReturnsActive, GenerateCreateRefused,
       validateAndConsume, ScanRefused, ScanFindsLapsed, ScanAccepted, ScanConfirmsOrder,
       expireQr, ExpireFinds, ExpireSavesOrder
  <2> QED
    BY <2>1, TokenUnseen
<1> QED
  BY <1>1, <1>2, <1>3, <1>4, <1>5

LEMMA RestUnseen ==
  ASSUME NEW s \in Slots,
         \/ Arrival(s) \/ initiateOrderPayment(s) \/ recordPaymentFailure(s)
         \/ SuccessSavesPayment(s) \/ SuccessMarksPaid(s) \/ SuccessIssuesOrder(s)
         \/ updateOrderStatus(s) \/ syncOperationalStates(s) \/ reportIssue(s)
  PROVE  UNCHANGED Token!token
<1>1. CASE Arrival(s)
  BY <1>1, TokenUnseen DEF Arrival, InitiateStarts, SuccessStarts, FailureStarts, ScanStarts,
     UpdateStarts, RefundStarts, SweepStarts, ReportStarts
<1>2. CASE initiateOrderPayment(s)
  BY <1>2, TokenUnseen DEF initiateOrderPayment, InitiateFindsKey, InitiateKeyIsNew,
     InitiateReusesPayment, InitiateChecksOrder, InitiateOpensProviderOrder,
     InitiateMarksPending, InitiateSavesPayment, InitiateCreateRefused, InitiateReplies, Offer
<1>3. CASE \/ SuccessSavesPayment(s) \/ SuccessMarksPaid(s) \/ SuccessIssuesOrder(s)
           \/ recordPaymentFailure(s)
  BY <1>3, TokenUnseen DEF SuccessSavesPayment, SuccessMarksPaid, SuccessIssuesOrder,
     recordPaymentFailure, FailureSavesPayment, FailureSavesOrder
<1>4. CASE updateOrderStatus(s) \/ syncOperationalStates(s) \/ reportIssue(s)
  BY <1>4, TokenUnseen DEF updateOrderStatus, UpdateSavesOrder, refundOrder,
     RefundReadsPayment, RefundAtProvider, RefundRefused, RefundSavesPayment,
     RefundSavesOrder, syncOperationalStates, SweepFindsDelayed, SweepSavesOrder,
     reportIssue, ReportSavesOrder
<1> QED
  BY <1>1, <1>2, <1>3, <1>4

LEMMA ClockSeen ==
  ASSUME NoncesApart, Environment
  PROVE  [Token!Next]_(Token!token)
<1>1. qr' = qr /\ lapsed \subseteq lapsed' /\ lapsed' \subseteq lapsed \cup {qr.nonce, order.expiresAt}
  BY DEF Environment, CustomerPays, AttemptDeclined, TtlElapses, OrderSitsIdle
<1>2. None \notin lapsed' \ lapsed
  BY DEF Environment, CustomerPays, AttemptDeclined, TtlElapses, OrderSitsIdle
<1>3. CASE qr.nonce \in lapsed' <=> qr.nonce \in lapsed
  BY <1>1, <1>3, TokenUnseen
<1>4. CASE qr.nonce \in lapsed' /\ qr.nonce \notin lapsed
  <2>1. Token!TimePasses
    BY <1>1, <1>2, <1>4 DEF NoncesApart, Token!TimePasses
  <2> QED
    BY <2>1 DEF Token!Next
<1> QED
  BY <1>1, <1>3, <1>4

LEMMA TokenStep ==
  ASSUME Sequential, TypeOK, NoncesApart, SequentialInv, [Next]_vars
  PROVE  [Token!Next]_(Token!token)
<1>1. CASE Environment
  BY <1>1, ClockSeen
<1>2. ASSUME NEW s \in Slots, Arrival(s) \/ Proceed(s) \/ Abort(s)
      PROVE  [Token!Next]_(Token!token)
  <2>1. TokenPlace(s) /\ ~ Abort(s)
    BY NoAbort DEF SequentialInv
  <2> QED
    BY <1>2, <2>1, QrServiceSeen, RestUnseen DEF Proceed, recordPaymentSuccess
<1>3. CASE UNCHANGED vars
  BY <1>3, TokenUnseen DEF vars
<1> QED
  BY <1>1, <1>2, <1>3 DEF Next

LEMMA TokenInit ==
  ASSUME Init
  PROVE  Token!Init
  BY DEF Init, NoQR, Token!Init

(* While requests do not overlap, the backend implements TokenLife: one    *)
(* good token at a time, used once, expired no earlier than its time.      *)
THEOREM TokenLifeKept ==
  ASSUME Sequential
  PROVE  Spec => KeepsTokenLife
<1>1. Init => Token!Init
  BY TokenInit
<1>2. TypeOK /\ NoncesApart /\ SequentialInv /\ [Next]_vars => [Token!Next]_(Token!token)
  BY TokenStep
<1> QED
  BY <1>1, <1>2, TypeCorrect, NoncesKeptApart, SequentialInvariance, PTL
     DEF Spec, KeepsTokenLife, Token!Spec

(* No customer loses a token before its time: of the steps of TokenLife,   *)
(* Expire alone ends one unused.                                           *)
THEOREM NotExpiredEarly ==
  ASSUME Sequential
  PROVE  Spec => NeverExpiredEarly
<1>1. TypeOK /\ NoncesApart /\ SequentialInv /\ [Next]_vars =>
        [qr.status = "ACTIVE" /\ qr'.status = "EXPIRED" => qr.nonce \in lapsed]_vars
  BY TokenStep DEF Token!Next, Token!Issue, Token!TimePasses, Token!Use, Token!Expire,
     Token!token
<1> QED
  BY <1>1, TypeCorrect, NoncesKeptApart, SequentialInvariance, PTL DEF Spec, NeverExpiredEarly

------------------------------------------------------------------------------
(* One-time use needs less: requests that do not overlap. *)

(* The only way to the write that consumes a token is past its check.      *)
LEMMA UseFollowsCheck ==
  ASSUME TypeOK, NEW s \in Slots, Arrival(s) \/ Proceed(s) \/ Abort(s),
         req'[s].pc = "scan.use"
  PROVE  ScanAccepted(s)
<1>0. req[s] \in Request /\ req'[s].pc \notin {"idle", "sweep.delayed"}
  BY RequestTypes
<1>1. ~ Arrival(s)
  <2>1. ~ InitiateStarts(s) /\ ~ RefundStarts(s) /\ ~ ReportStarts(s) /\ ~ ScanStarts(s)
    BY DEF InitiateStarts, RefundStarts, ReportStarts, ScanStarts, TypeOK, Continue, Idle
  <2>2. ~ SuccessStarts(s) /\ ~ FailureStarts(s) /\ ~ UpdateStarts(s)
    BY DEF SuccessStarts, FailureStarts, UpdateStarts, TypeOK, Continue, Idle
  <2>3. ~ SweepStarts(s)
    <3>1. Continue(s, [Idle EXCEPT !.pc = "expire.find", !.return = "sweep.delayed"])
            => req'[s].pc = "expire.find"
      BY DEF TypeOK, Continue, Idle
    <3> QED
      BY <1>0, <3>1, GotoPlace DEF SweepStarts
  <2> QED
    BY <2>1, <2>2, <2>3 DEF Arrival
<1>2. ~ Abort(s) /\ ~ initiateOrderPayment(s)
  BY <1>0, RespondPlace, InitiatePlace DEF Abort
<1>3. ~ recordPaymentFailure(s)
  BY <1>0, RespondPlace, GotoPlace
     DEF recordPaymentFailure, FailureSavesPayment, FailureSavesOrder
<1>4. ~ SuccessSavesPayment(s) /\ ~ SuccessMarksPaid(s) /\ ~ SuccessIssuesOrder(s)
  <2>1. ASSUME SuccessSavesPayment(s) PROVE FALSE
    <3>1. PICK pc \in {"success.paid", "generate.find"} : Goto(s, pc)
      BY <2>1 DEF SuccessSavesPayment
    <3> QED
      BY <3>1, GotoPlace
  <2> QED
    BY <1>0, <2>1, RespondPlace, GotoPlace DEF SuccessMarksPaid, SuccessIssuesOrder
<1>5. ~ generateForPaidOrder(s)
  <2>1. ~ GenerateReturnsActive(s) /\ ~ GenerateDrawsNonce(s)
    BY ReturnsActivePlace, DrawsNoncePlace
  <2>2. ~ GenerateSaves(s)
    <3>1. Goto(s, "success.issue") => req'[s].pc = "success.issue"
      BY GotoPlace
    <3> QED
      BY <3>1 DEF GenerateSaves
  <2>3. ~ GenerateCreateRefused(s)
    BY <1>0, RespondPlace DEF GenerateCreateRefused
  <2> QED
    BY <2>1, <2>2, <2>3 DEF generateForPaidOrder
<1>6. ~ expireQr(s)
  <2>1. Continue(s, [req[s] EXCEPT !.pc = "expire.save", !.order = order.status])
          => req'[s].pc = "expire.save"
    BY <1>0 DEF TypeOK, Continue, Request
  <2> QED
    BY <1>0, <2>1, ExpireReturnsPlace, GotoPlace
       DEF expireQr, ExpireFinds, ExpireSaves, ExpireSavesOrder
<1>7. ~ refundOrder(s)
  <2>1. ~ RefundReadsPayment(s)
    BY RefundReadPlace
  <2> QED
    BY <1>0, <2>1, RespondPlace, GotoPlace
       DEF refundOrder, RefundAtProvider, RefundRefused, RefundSavesPayment, RefundSavesOrder
<1>8. ~ UpdateSavesOrder(s) /\ ~ reportIssue(s) /\ ~ syncOperationalStates(s)
  <2>1. ~ SweepFindsDelayed(s)
    BY <1>0, RespondPlace DEF SweepFindsDelayed, TypeOK, Continue, Idle
  <2> QED
    BY <1>0, <2>1, RespondPlace
       DEF UpdateSavesOrder, reportIssue, ReportSavesOrder, syncOperationalStates,
           SweepSavesOrder
<1>9. validateAndConsume(s) => ScanAccepted(s)
  <2>1. ~ ScanFindsLapsed(s)
    BY <1>0 DEF ScanFindsLapsed, TypeOK, Continue, Idle
  <2> QED
    BY <1>0, <2>1, RespondPlace, GotoPlace
       DEF validateAndConsume, ScanRefused, ScanUsesToken, ScanConfirmsOrder
<1> QED
  BY <1>1, <1>2, <1>3, <1>4, <1>5, <1>6, <1>7, <1>8, <1>9
     DEF Proceed, recordPaymentSuccess, updateOrderStatus

(* What a scan has checked is still so when it writes. *)
CheckStands == \A s \in Slots : At(s, "scan.use") => qr.status = "ACTIVE"

LEMMA CheckStandsStep ==
  ASSUME OneAtATime, TypeOK, CheckStands, [Next]_vars
  PROVE  CheckStands'
<1>1. PICK s : Slots = {s}
  BY DEF OneAtATime
<1>2. CASE Environment \/ UNCHANGED vars
  BY <1>2 DEF Environment, CustomerPays, AttemptDeclined, TtlElapses, OrderSitsIdle, vars,
     CheckStands, At
<1>3. CASE Arrival(s) \/ Proceed(s) \/ Abort(s)
  <2>1. ASSUME At(s, "scan.use")'
        PROVE  qr'.status = "ACTIVE"
    <3>1. ScanAccepted(s)
      BY <1>1, <1>3, <2>1, UseFollowsCheck DEF At
    <3> QED
      BY <3>1 DEF ScanAccepted, Presented
  <2> QED
    BY <1>1, <2>1 DEF CheckStands
<1> QED
  BY <1>1, <1>2, <1>3 DEF Next

(* A scan consumes a token that is still good when scans do not overlap    *)
(* with anything, however many requests are cut short: what refutes        *)
(* OneTimeUse is overlap alone (README.md:146).                            *)
THEOREM OneTimeUseAlone ==
  ASSUME OneAtATime
  PROVE  Spec => OneTimeUse
<1>1. ASSUME Init
      PROVE  CheckStands
  BY <1>1 DEF Init, Idle, CheckStands, At
<1>2. TypeOK /\ CheckStands /\ [Next]_vars => CheckStands'
  BY CheckStandsStep
<1>3. CheckStands /\ [Next]_vars =>
        [\A s \in Slots :
           At(s, "scan.use") /\ At(s, "scan.confirm")' => qr.status = "ACTIVE"]_vars
  BY DEF CheckStands
<1> QED
  BY <1>1, <1>2, <1>3, TypeCorrect, PTL DEF Spec, OneTimeUse

==============================================================================
