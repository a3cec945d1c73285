---------------------------- MODULE CanteenProofs ----------------------------
(***************************************************************************)
(* The requirements that hold under every interleaving, for any number of  *)
(* requests.  The argument: no step takes back a fact of the invariant     *)
(* (Kept), so what the pending writes of the other requests rest on stays; *)
(* each step only has to account for the rows it writes and for the        *)
(* request it advances.                                                    *)
(***************************************************************************)
EXTENDS CanteenTypes

(* The facts no step takes back. *)
Kept ==
  /\ captured \subseteq captured'
  /\ Paid => Paid'
  /\ Returned => Returned'
  /\ Issued => Issued'
  /\ Acknowledged => Acknowledged'
  /\ HasToken => HasToken'
  /\ HasPayment => HasPayment'

(* A step that writes no row keeps what the rows rest on. *)
LEMMA RowsKept ==
  ASSUME RowsBacked, UNCHANGED <<orderVars, payment, qr, providerVars>>
  PROVE  RowsBacked' /\ Kept
  BY DEF RowsBacked, MilestonesInOrder, FulfilmentIsAcknowledged, BooksFollowProvider,
     OffersAreRecorded, Kept, Paid, Returned, Issued, Acknowledged, HasToken, HasPayment,
     orderVars, providerVars

(* What has to be shown of a step of request s. *)
Accounted(s) ==
  /\ RowsBacked' /\ Kept
  /\ Backed(s)'
  /\ \A t \in Slots \ {s} : req'[t] = req[t]

(* A request that did not move still rests on what it rested on. *)
LEMMA OthersBacked ==
  ASSUME NEW t \in Slots, Backed(t), Kept, req'[t] = req[t]
  PROVE  Backed(t)'
  BY DEF Backed, Kept

(* A request that has ended rests on nothing. *)
LEMMA IdleBacked ==
  ASSUME TypeOK, NEW s \in Slots, Respond(s)
  PROVE  Backed(s)'
  BY DEF TypeOK, Respond, Continue, Idle, Backed

(* Nor does one that waits where nothing is about to be written. *)
LEMMA UnbackedPlaces ==
  ASSUME NEW s \in Slots,
         req'[s].pc \in {"idle", "initiate.key", "initiate.existing", "initiate.provider",
                         "failure.order", "refund.payment", "scan.find", "expire.find",
                         "expire.save", "expire.order", "sweep.delayed"}
  PROVE  Backed(s)'
  BY DEF Backed

(* A step of one request: the others did not move. *)
LEMMA OneMoves ==
  ASSUME IInv, NEW s \in Slots, Accounted(s)
  PROVE  IInv'
<1> USE DEF Accounted
<1>1. ASSUME NEW t \in Slots
      PROVE  Backed(t)'
  <2>1. CASE t = s
    BY <2>1
  <2>2. CASE t # s
    BY <2>2, OthersBacked DEF IInv
  <2> QED
    BY <2>1, <2>2
<1> QED
  BY <1>1 DEF IInv

LEMMA ContinueMoves ==
  ASSUME TypeOK, NEW s \in Slots, NEW r, Continue(s, r)
  PROVE  req'[s] = r /\ \A t \in Slots \ {s} : req'[t] = req[t]
  BY DEF TypeOK, Continue

LEMMA GotoMoves ==
  ASSUME TypeOK, NEW s \in Slots, NEW pc, Goto(s, pc)
  PROVE  req'[s] = [req[s] EXCEPT !.pc = pc] /\ \A t \in Slots \ {s} : req'[t] = req[t]
  BY DEF TypeOK, Goto

(* The request as the step leaves it. *)
LEMMA GotoPlace ==
  ASSUME TypeOK, NEW s \in Slots, NEW pc, Goto(s, pc)
  PROVE  /\ req'[s].pc = pc
         /\ req'[s].providerOrderId = req[s].providerOrderId
<1>1. req[s] \in Request
  BY RequestTypes
<1>2. req'[s] = [req[s] EXCEPT !.pc = pc]
  BY GotoMoves
<1> QED
  BY <1>1, <1>2 DEF Request

(* What the lifecycle table says of the statuses the desk writes. *)
LEMMA FulfilmentFollowsFulfilment ==
  ASSUME NEW current, NEW next \in {"PREPARING", "READY", "COMPLETED"},
         assertValidTransition(current, next)
  PROVE  current \in Fulfilment
  BY DEF assertValidTransition, transitions, Fulfilment

LEMMA ConfirmedFollowsQr ==
  ASSUME NEW current, assertValidTransition(current, "CONFIRMED")
  PROVE  current = "QR_GENERATED"
  BY DEF assertValidTransition, transitions

------------------------------------------------------------------------------
LEMMA ArrivalAccounted ==
  ASSUME TypeOK, IInv, NEW s \in Slots, Arrival(s)
  PROVE  Accounted(s)
<1>1. RowsBacked' /\ Kept
  BY RowsKept DEF IInv, Arrival, InitiateStarts, SuccessStarts, FailureStarts, ScanStarts,
     UpdateStarts, RefundStarts, SweepStarts, ReportStarts
<1>2. \A t \in Slots \ {s} : req'[t] = req[t]
  BY DEF TypeOK, Continue, Goto, Arrival, InitiateStarts, SuccessStarts, FailureStarts,
     ScanStarts, UpdateStarts, RefundStarts, SweepStarts, ReportStarts
<1>3. Backed(s)'
  <2>1. CASE InitiateStarts(s) \/ RefundStarts(s) \/ ScanStarts(s)
    <3>1. req'[s].pc \in {"initiate.key", "refund.payment", "scan.find"}
      BY <2>1 DEF InitiateStarts, RefundStarts, ScanStarts, TypeOK, Continue, Idle
    <3> QED
      BY <3>1, UnbackedPlaces
  <2>5. CASE SweepStarts(s)
    <3>1. CASE Goto(s, "sweep.delayed")
      BY <3>1, GotoPlace, UnbackedPlaces
    <3>2. CASE Continue(s, [Idle EXCEPT !.pc = "expire.find", !.return = "sweep.delayed"])
      <4>1. req'[s].pc = "expire.find"
        BY <3>2 DEF TypeOK, Continue, Idle
      <4> QED
        BY <4>1, UnbackedPlaces
    <3> QED
      BY <2>5, <3>1, <3>2 DEF SweepStarts
  <2>2. CASE SuccessStarts(s) \/ FailureStarts(s)
    <3>1. PICK po \in captured \cup declined :
            /\ payment.providerOrderId = po
            /\ \/ po \in captured
                  /\ Continue(s, [Idle EXCEPT !.pc = "success.payment",
                                   !.order = order.status, !.providerOrderId = po])
               \/ Continue(s, [Idle EXCEPT !.pc = "failure.payment",
                                !.order = order.status, !.providerOrderId = po])
      BY <2>2 DEF SuccessStarts, FailureStarts
    <3>2. HasPayment
      BY <3>1, ReadTypes DEF IInv, RowsBacked
    <3>3. HasPayment' /\ captured \subseteq captured'
      BY <1>1, <3>2 DEF Kept
    <3>4. \/ req'[s].pc = "failure.payment"
          \/ /\ req'[s].pc = "success.payment"
             /\ req'[s].providerOrderId \in captured
      BY <3>1 DEF TypeOK, Continue, Idle
    <3> QED
      BY <3>3, <3>4 DEF Backed, Paid
  <2>3. CASE UpdateStarts(s)
    <3>1. PICK next \in ManagerStatus \ {"REFUNDED"} :
            /\ assertValidTransition(order.status, next)
            /\ Continue(s, [Idle EXCEPT !.pc = "manager.save", !.order = order.status,
                                        !.nextStatus = next])
      BY <2>3 DEF UpdateStarts
    <3>2. next # "CANCELLED" => Acknowledged
      BY <3>1, FulfilmentFollowsFulfilment
         DEF ManagerStatus, IInv, RowsBacked, FulfilmentIsAcknowledged, Acknowledged
    <3> QED
      BY <1>1, <3>1, <3>2 DEF Kept, ManagerStatus, TypeOK, Continue, Idle, Backed
  <2>4. CASE ReportStarts(s)
    <3>1. Acknowledged
      BY <2>4 DEF ReportStarts, reportableStates, Fulfilment, IInv, RowsBacked,
         FulfilmentIsAcknowledged, Acknowledged
    <3> QED
      BY <1>1, <2>4, <3>1 DEF Kept, ReportStarts, TypeOK, Continue, Idle, Backed
  <2> QED
    BY <2>1, <2>2, <2>3, <2>4, <2>5 DEF Arrival
<1> QED
  BY <1>1, <1>2, <1>3 DEF Accounted


------------------------------------------------------------------------------
(* A status update is accounted for when the milestones it adds, and the   *)
(* status it writes, rest on facts that hold when it is written.           *)
LEMMA StatusWritten ==
  ASSUME RowsBacked,
         NEW status, NEW milestones, NEW expiresAt,
         updateStatus(status, milestones, expiresAt),
         UNCHANGED <<payment, qr, providerVars>>,
         milestones \cap {"paidAt", "qrGeneratedAt"} # {} => Paid,
         "qrGeneratedAt" \in milestones => HasToken,
         "confirmedAt" \in milestones => Issued,
         "completedAt" \in milestones => Acknowledged,
         status \in Fulfilment \cup {"ISSUE_REPORTED"} =>
           Acknowledged \/ "confirmedAt" \in milestones,
         status = "QR_GENERATED" => "qrGeneratedAt" \in milestones,
         status = "REFUNDED" => Returned
  PROVE  RowsBacked' /\ Kept
<1> USE DEF Paid, Returned, Issued, Acknowledged, HasToken, HasPayment, providerVars
<1>1. /\ order'.status = status
      /\ order'.milestones = order.milestones \cup milestones
      /\ captured' = captured /\ refunded' = refunded
      /\ payment' = payment /\ qr' = qr
  BY DEF updateStatus
<1>2. Kept
  BY <1>1 DEF Kept
<1>3. MilestonesInOrder' /\ (Issued => HasToken)'
  BY <1>1 DEF RowsBacked, MilestonesInOrder
<1>4. FulfilmentIsAcknowledged'
  BY <1>1 DEF RowsBacked, MilestonesInOrder, FulfilmentIsAcknowledged, Fulfilment
<1>5. BooksFollowProvider'
  BY <1>1 DEF RowsBacked, BooksFollowProvider
<1>6. OffersAreRecorded'
  BY <1>1 DEF RowsBacked, OffersAreRecorded
<1> QED
  BY <1>1, <1>2, <1>3, <1>4, <1>5, <1>6 DEF RowsBacked

(* A write of the payment row alone. *)
LEMMA PaymentWritten ==
  ASSUME RowsBacked,
         UNCHANGED <<orderVars, qr, captured, refunded>>,
         HasPayment',
         payment'.providerOrderId \in ProviderOrders,
         payment'.status = "SUCCESS" =>
           payment'.providerPaymentId.outcome = "captured"
             /\ payment'.providerPaymentId.of \in captured,
         payment'.status = "REFUNDED" => Returned
  PROVE  RowsBacked' /\ Kept
  BY DEF RowsBacked, MilestonesInOrder, FulfilmentIsAcknowledged, BooksFollowProvider,
     OffersAreRecorded, Kept, Paid, Returned, Issued, Acknowledged, HasToken, HasPayment,
     orderVars

(* A write of the token row alone. *)
LEMMA TokenWritten ==
  ASSUME RowsBacked, UNCHANGED <<orderVars, payment, providerVars>>, HasToken'
  PROVE  RowsBacked' /\ Kept
  BY DEF RowsBacked, MilestonesInOrder, FulfilmentIsAcknowledged, BooksFollowProvider,
     OffersAreRecorded, Kept, Paid, Returned, Issued, Acknowledged, HasToken, HasPayment,
     orderVars, providerVars

(* A request that answers after a step that kept the rows' backing. *)
LEMMA ResponseAccounted ==
  ASSUME TypeOK, NEW s \in Slots, Respond(s), RowsBacked', Kept
  PROVE  Accounted(s)
  BY IdleBacked, ContinueMoves DEF Respond, Accounted

(* A request that goes on without carrying anything new. *)
LEMMA GotoAccounted ==
  ASSUME TypeOK, NEW s \in Slots, NEW pc, Goto(s, pc), RowsBacked', Kept,
         Backed(s)'
  PROVE  Accounted(s)
  BY GotoMoves DEF Accounted

LEMMA ContinueAccounted ==
  ASSUME TypeOK, NEW s \in Slots, NEW r, Continue(s, r), RowsBacked', Kept,
         Backed(s)'
  PROVE  Accounted(s)
  BY ContinueMoves DEF Accounted

(* expireQr goes back to its caller with nothing to write. *)
LEMMA ExpireReturnsAccounted ==
  ASSUME TypeOK, NEW s \in Slots, ExpireReturns(s), RowsBacked', Kept
  PROVE  Accounted(s)
<1>1. req'[s].pc = req[s].return
  BY DEF TypeOK, ExpireReturns, Continue, Idle
<1>2. Backed(s)'
  BY <1>1, RequestTypes, UnbackedPlaces
<1> QED
  BY <1>2, ContinueAccounted DEF ExpireReturns

------------------------------------------------------------------------------
LEMMA GenerateAccounted ==
  ASSUME TypeOK, IInv, NEW s \in Slots, generateForPaidOrder(s)
  PROVE  Accounted(s)
<1> USE DEF IInv
<1>1. CASE GenerateReturnsActive(s)
  <2>1. RowsBacked' /\ Kept
    BY <1>1, RowsKept DEF GenerateReturnsActive
  <2>2. req[s] \in Request /\ Paid /\ HasToken
    BY <1>1, RequestTypes DEF GenerateReturnsActive, At, Backed, HasToken
  <2>3. req'[s].pc = "success.issue"
    BY <1>1, <2>2 DEF GenerateReturnsActive, TypeOK, Continue, Request
  <2>4. Backed(s)'
    BY <2>1, <2>2, <2>3 DEF Kept, Backed
  <2> QED
    BY <1>1, <2>1, <2>4, ContinueAccounted DEF GenerateReturnsActive
<1>2. CASE GenerateDrawsNonce(s)
  <2>1. RowsBacked' /\ Kept
    BY <1>2, RowsKept DEF GenerateDrawsNonce
  <2>2. PICK t \in FreshTokens :
          Continue(s, [req[s] EXCEPT !.pc = "generate.save", !.nonce = t,
                                     !.existing = (qr.status # "NO ROW")])
    BY <1>2 DEF GenerateDrawsNonce
  <2>3. req[s] \in Request /\ Paid
    BY <1>2, RequestTypes DEF GenerateDrawsNonce, At, Backed
  <2>4. req'[s].pc = "generate.save"
    BY <2>2, <2>3 DEF TypeOK, Continue, Request
  <2>5. Backed(s)'
    BY <2>1, <2>3, <2>4 DEF Kept, Backed
  <2> QED
    BY <2>1, <2>2, <2>5, ContinueAccounted
<1>3. CASE GenerateSaves(s)
  <2>1. RowsBacked' /\ Kept /\ HasToken'
    BY <1>3, TokenWritten DEF GenerateSaves, HasToken
  <2>2. req'[s].pc = "success.issue" /\ Paid
    BY <1>3, GotoPlace DEF GenerateSaves, At, Backed
  <2>3. Backed(s)'
    BY <2>1, <2>2 DEF Kept, Backed
  <2> QED
    BY <1>3, <2>1, <2>3, GotoAccounted DEF GenerateSaves
<1>4. CASE GenerateCreateRefused(s)
  BY <1>4, RowsKept, ResponseAccounted DEF GenerateCreateRefused
<1> QED
  BY <1>1, <1>2, <1>3, <1>4 DEF generateForPaidOrder

(* The order stays issued, acknowledged and paid when it expires. *)
LEMMA ExpireAccounted ==
  ASSUME TypeOK, IInv, NEW s \in Slots, expireQr(s)
  PROVE  Accounted(s)
<1> USE DEF IInv
<1>1. CASE ExpireFinds(s)
  <2>1. RowsBacked' /\ Kept
    BY <1>1, RowsKept DEF ExpireFinds
  <2>2. CASE ExpireReturns(s)
    BY <2>1, <2>2, ExpireReturnsAccounted
  <2>3. CASE Continue(s, [req[s] EXCEPT !.pc = "expire.save", !.order = order.status])
    <3>1. req[s] \in Request
      BY RequestTypes
    <3>2. req'[s].pc = "expire.save"
      BY <2>3, <3>1 DEF TypeOK, Continue, Request
    <3> QED
      BY <2>1, <2>3, <3>2, UnbackedPlaces, ContinueAccounted
  <2> QED
    BY <1>1, <2>2, <2>3 DEF ExpireFinds
<1>2. CASE ExpireSaves(s)
  <2>1. qr \in QRRow
    BY DEF TypeOK, RowsOK
  <2>2. qr'.status = "EXPIRED"
    BY <1>2, <2>1 DEF ExpireSaves, QRRow
  <2>3. RowsBacked' /\ Kept
    BY <1>2, <2>2, TokenWritten DEF ExpireSaves, HasToken
  <2>4. CASE Goto(s, "expire.order")
    BY <2>3, <2>4, GotoPlace, UnbackedPlaces, GotoAccounted
  <2> QED
    BY <1>2, <2>3, <2>4, ExpireReturnsAccounted DEF ExpireSaves
<1>3. CASE ExpireSavesOrder(s)
  <2>1. RowsBacked' /\ Kept
    BY <1>3, StatusWritten DEF ExpireSavesOrder, setStatus, Fulfilment
  <2> QED
    BY <1>3, <2>1, ExpireReturnsAccounted DEF ExpireSavesOrder
<1> QED
  BY <1>1, <1>2, <1>3 DEF expireQr

(* A scan acknowledges an order that has been issued. *)
LEMMA ScanAccounted ==
  ASSUME TypeOK, IInv, NEW s \in Slots, validateAndConsume(s)
  PROVE  Accounted(s)
<1> USE DEF IInv
<1>1. CASE ScanRefused(s)
  BY <1>1, RowsKept, ResponseAccounted DEF ScanRefused
<1>2. CASE ScanFindsLapsed(s)
  <2>1. RowsBacked' /\ Kept
    BY <1>2, RowsKept DEF ScanFindsLapsed
  <2>2. req'[s].pc = "expire.find"
    BY <1>2 DEF ScanFindsLapsed, TypeOK, Continue, Idle
  <2> QED
    BY <1>2, <2>1, <2>2, UnbackedPlaces, ContinueAccounted DEF ScanFindsLapsed
<1>3. CASE ScanAccepted(s)
  <2>1. RowsBacked' /\ Kept
    BY <1>3, RowsKept DEF ScanAccepted
  <2>2. Issued
    BY <1>3, ConfirmedFollowsQr DEF ScanAccepted, RowsBacked
  <2>3. req'[s].pc = "scan.use"
    BY <1>3 DEF ScanAccepted, TypeOK, Continue, Idle
  <2>4. Backed(s)'
    BY <2>1, <2>2, <2>3 DEF Kept, Backed
  <2> QED
    BY <1>3, <2>1, <2>4, ContinueAccounted DEF ScanAccepted
<1>4. CASE ScanUsesToken(s)
  <2>1. qr \in QRRow
    BY DEF TypeOK, RowsOK
  <2>2. qr'.status = "USED"
    BY <1>4, <2>1 DEF ScanUsesToken, QRRow
  <2>3. RowsBacked' /\ Kept
    BY <1>4, <2>2, TokenWritten DEF ScanUsesToken, HasToken
  <2>4. req'[s].pc = "scan.confirm" /\ Issued
    BY <1>4, GotoPlace DEF ScanUsesToken, At, Backed
  <2>5. Backed(s)'
    BY <2>3, <2>4 DEF Kept, Backed
  <2> QED
    BY <1>4, <2>3, <2>5, GotoAccounted DEF ScanUsesToken
<1>5. CASE ScanConfirmsOrder(s)
  <2>1. Issued
    BY <1>5 DEF ScanConfirmsOrder, At, Backed
  <2>2. RowsBacked' /\ Kept
    BY <1>5, <2>1, StatusWritten DEF ScanConfirmsOrder, setStatus
  <2> QED
    BY <1>5, <2>2, ResponseAccounted DEF ScanConfirmsOrder
<1> QED
  BY <1>1, <1>2, <1>3, <1>4, <1>5 DEF validateAndConsume

------------------------------------------------------------------------------
(* The client is handed a provider order, which the payment row records.   *)
LEMMA OfferAccounted ==
  ASSUME TypeOK, IInv, NEW s \in Slots, Respond(s), HasPayment,
         UNCHANGED <<orderVars, payment, qr, captured, refunded>>
  PROVE  Accounted(s)
<1>1. RowsBacked' /\ Kept
  BY DEF IInv, RowsBacked, MilestonesInOrder, FulfilmentIsAcknowledged, BooksFollowProvider,
     OffersAreRecorded, Kept, Paid, Returned, Issued, Acknowledged, HasToken, HasPayment,
     orderVars
<1> QED
  BY <1>1, ResponseAccounted

LEMMA InitiateAccounted ==
  ASSUME TypeOK, IInv, NEW s \in Slots, initiateOrderPayment(s)
  PROVE  Accounted(s)
<1> USE DEF IInv
<1>1. CASE InitiateFindsKey(s) \/ InitiateReusesPayment(s) \/ InitiateReplies(s)
  <2>1. HasPayment
    BY <1>1 DEF InitiateFindsKey, InitiateReusesPayment, reusablePaymentStates,
       InitiateReplies, At, Backed, HasPayment
  <2> QED
    BY <1>1, <2>1, OfferAccounted
       DEF InitiateFindsKey, InitiateReusesPayment, InitiateReplies, Offer
<1>2. CASE InitiateKeyIsNew(s)
  <2>1. RowsBacked' /\ Kept
    BY <1>2, RowsKept DEF InitiateKeyIsNew
  <2> QED
    BY <1>2, <2>1, GotoPlace, UnbackedPlaces, GotoAccounted DEF InitiateKeyIsNew
<1>3. CASE InitiateChecksOrder(s)
  <2>1. RowsBacked' /\ Kept
    BY <1>3, RowsKept DEF InitiateChecksOrder
  <2>2. CASE Respond(s)
    BY <2>1, <2>2, ResponseAccounted
  <2>3. CASE Continue(s, [req[s] EXCEPT !.pc = "initiate.provider",
                                        !.existing = (payment.status # "NO ROW")])
    <3>1. req[s] \in Request
      BY RequestTypes
    <3>2. req'[s].pc = "initiate.provider"
      BY <2>3, <3>1 DEF TypeOK, Continue, Request
    <3> QED
      BY <2>1, <2>3, <3>2, UnbackedPlaces, ContinueAccounted
  <2> QED
    BY <1>3, <2>2, <2>3 DEF InitiateChecksOrder
<1>4. CASE InitiateOpensProviderOrder(s)
  <2>1. RowsBacked' /\ Kept
    BY <1>4, RowsKept DEF InitiateOpensProviderOrder
  <2>2. CASE Respond(s)
    BY <2>1, <2>2, ResponseAccounted
  <2>3. ASSUME NEW po \in FreshProviderOrders, NEW pc \in {"initiate.save", "initiate.pending"},
               Continue(s, [req[s] EXCEPT !.pc = pc, !.providerOrderId = po])
        PROVE  Accounted(s)
    <3>1. req[s] \in Request /\ po \in ProviderOrders
      BY RequestTypes DEF FreshProviderOrders
    <3>2. req'[s].pc = pc /\ req'[s].providerOrderId = po
      BY <2>3, <3>1 DEF TypeOK, Continue, Request
    <3>3. Backed(s)'
      BY <3>1, <3>2 DEF Backed
    <3> QED
      BY <2>1, <2>3, <3>3, ContinueAccounted
  <2> QED
    BY <1>4, <2>2, <2>3 DEF InitiateOpensProviderOrder
<1>5. CASE InitiateMarksPending(s)
  <2>1. RowsBacked' /\ Kept
    BY <1>5, StatusWritten DEF InitiateMarksPending, setStatus, Fulfilment
  <2>2. /\ req'[s].pc = "initiate.save"
        /\ req'[s].providerOrderId \in ProviderOrders
    BY <1>5, GotoPlace DEF InitiateMarksPending, At, Backed
  <2>3. Backed(s)'
    BY <2>2 DEF Backed
  <2> QED
    BY <1>5, <2>1, <2>3, GotoAccounted DEF InitiateMarksPending
<1>6. CASE InitiateSavesPayment(s)
  <2>1. payment \in PaymentRow /\ req[s].providerOrderId \in ProviderOrders
    BY <1>6 DEF TypeOK, RowsOK, InitiateSavesPayment, At, Backed
  <2>2. payment'.status = "PENDING" /\ payment'.providerOrderId = req[s].providerOrderId
    BY <1>6, <2>1 DEF InitiateSavesPayment, PaymentRow
  <2>3. UNCHANGED <<orderVars, qr, captured, refunded>>
    BY <1>6 DEF InitiateSavesPayment, providerVars
  <2>4. RowsBacked' /\ Kept
    BY <2>1, <2>2, <2>3, PaymentWritten DEF HasPayment
  <2>5. /\ req'[s].pc = "initiate.reply"
        /\ req'[s].providerOrderId \in ProviderOrders
    BY <1>6, <2>1, GotoPlace DEF InitiateSavesPayment
  <2>6. Backed(s)'
    BY <2>2, <2>5 DEF Backed, HasPayment
  <2> QED
    BY <1>6, <2>4, <2>6, GotoAccounted DEF InitiateSavesPayment
<1>7. CASE InitiateCreateRefused(s)
  BY <1>7, RowsKept, ResponseAccounted DEF InitiateCreateRefused
<1> QED
  BY <1>1, <1>2, <1>3, <1>4, <1>5, <1>6, <1>7 DEF initiateOrderPayment

LEMMA SuccessAccounted ==
  ASSUME TypeOK, IInv, NEW s \in Slots, recordPaymentSuccess(s)
  PROVE  Accounted(s)
<1> USE DEF IInv
<1>1. CASE SuccessSavesPayment(s)
  <2>1. /\ payment \in PaymentRow
        /\ HasPayment /\ Paid
        /\ req[s].providerOrderId \in captured
    BY <1>1 DEF TypeOK, RowsOK, SuccessSavesPayment, At, Backed
  <2>2. /\ payment'.status = "SUCCESS"
        /\ payment'.providerPaymentId.outcome = "captured"
        /\ payment'.providerPaymentId.of = req[s].providerOrderId
        /\ payment'.providerOrderId = payment.providerOrderId
    BY <1>1, <2>1 DEF SuccessSavesPayment, PaymentRow, Attempt
  <2>3. UNCHANGED <<orderVars, qr, captured, refunded>>
    BY <1>1 DEF SuccessSavesPayment, providerVars
  <2>4. RowsBacked' /\ Kept
    <3>1. payment'.providerOrderId \in ProviderOrders /\ HasPayment'
      BY <2>1, <2>2 DEF RowsBacked, HasPayment
    <3> QED
      BY <2>1, <2>2, <2>3, <3>1, PaymentWritten
  <2>5. PICK pc \in {"success.paid", "generate.find"} : Goto(s, pc)
    BY <1>1 DEF SuccessSavesPayment
  <2>6. req'[s].pc \in {"success.paid", "generate.find"}
    BY <2>5, GotoPlace
  <2>7. Backed(s)'
    BY <2>1, <2>4, <2>6 DEF Kept, Backed
  <2> QED
    BY <2>4, <2>5, <2>7, GotoAccounted
<1>2. CASE SuccessMarksPaid(s)
  <2>1. Paid
    BY <1>2 DEF SuccessMarksPaid, At, Backed
  <2>2. RowsBacked' /\ Kept
    BY <1>2, <2>1, StatusWritten DEF SuccessMarksPaid, setStatus, Fulfilment
  <2>3. req'[s].pc = "generate.find"
    BY <1>2, GotoPlace DEF SuccessMarksPaid
  <2>4. Backed(s)'
    BY <2>1, <2>2, <2>3 DEF Kept, Backed
  <2> QED
    BY <1>2, <2>2, <2>4, GotoAccounted DEF SuccessMarksPaid
<1>3. CASE generateForPaidOrder(s)
  BY <1>3, GenerateAccounted
<1>4. CASE SuccessIssuesOrder(s)
  <2>1. Paid /\ HasToken
    BY <1>4 DEF SuccessIssuesOrder, At, Backed
  <2>2. RowsBacked' /\ Kept
    BY <1>4, <2>1, StatusWritten DEF SuccessIssuesOrder, Fulfilment
  <2> QED
    BY <1>4, <2>2, ResponseAccounted DEF SuccessIssuesOrder
<1> QED
  BY <1>1, <1>2, <1>3, <1>4 DEF recordPaymentSuccess

LEMMA FailureAccounted ==
  ASSUME TypeOK, IInv, NEW s \in Slots, recordPaymentFailure(s)
  PROVE  Accounted(s)
<1> USE DEF IInv
<1>1. CASE FailureSavesPayment(s)
  <2>1. payment \in PaymentRow /\ HasPayment
    BY <1>1 DEF TypeOK, RowsOK, FailureSavesPayment, At, Backed
  <2>2. payment'.status = "FAILED" /\ payment'.providerOrderId = payment.providerOrderId
    BY <1>1, <2>1 DEF FailureSavesPayment, PaymentRow
  <2>3. UNCHANGED <<orderVars, qr, captured, refunded>>
    BY <1>1 DEF FailureSavesPayment, providerVars
  <2>4. RowsBacked' /\ Kept
    BY <2>1, <2>2, <2>3, PaymentWritten DEF HasPayment, RowsBacked
  <2>5. CASE Goto(s, "failure.order")
    BY <2>4, <2>5, GotoPlace, UnbackedPlaces, GotoAccounted
  <2> QED
    BY <1>1, <2>4, <2>5, ResponseAccounted DEF FailureSavesPayment
<1>2. CASE FailureSavesOrder(s)
  <2>1. RowsBacked' /\ Kept
    BY <1>2, StatusWritten DEF FailureSavesOrder, setStatus, Fulfilment
  <2> QED
    BY <1>2, <2>1, ResponseAccounted DEF FailureSavesOrder
<1> QED
  BY <1>1, <1>2 DEF recordPaymentFailure

------------------------------------------------------------------------------
(* Only money that was taken is returned, and the books say so afterwards. *)
LEMMA RefundAccounted ==
  ASSUME TypeOK, IInv, NEW s \in Slots, refundOrder(s)
  PROVE  Accounted(s)
<1> USE DEF IInv
<1>1. CASE RefundReadsPayment(s)
  <2>1. RowsBacked' /\ Kept
    BY <1>1, RowsKept DEF RefundReadsPayment
  <2>2. CASE Respond(s)
    BY <2>1, <2>2, ResponseAccounted
  <2>3. CASE /\ Refundable
             /\ Continue(s, [req[s] EXCEPT !.pc = "refund.provider",
                               !.providerOrderId = payment.providerPaymentId.of])
    <3>1. req[s] \in Request
      BY RequestTypes
    <3>2. payment.providerPaymentId.of \in captured /\ HasPayment
      BY <2>3 DEF Refundable, RowsBacked, BooksFollowProvider, HasPayment
    <3>3. /\ req'[s].pc = "refund.provider"
          /\ req'[s].providerOrderId = payment.providerPaymentId.of
      BY <2>3, <3>1 DEF TypeOK, Continue, Request
    <3>4. Backed(s)'
      BY <2>1, <3>2, <3>3 DEF Kept, Backed
    <3> QED
      BY <2>1, <2>3, <3>4, ContinueAccounted
  <2> QED
    BY <1>1, <2>2, <2>3 DEF RefundReadsPayment
<1>2. CASE RefundAtProvider(s)
  <2>1. /\ req[s].providerOrderId \in captured
        /\ refunded' = refunded \cup {req[s].providerOrderId}
        /\ UNCHANGED <<orderVars, payment, qr, offered, captured>>
    BY <1>2 DEF RefundAtProvider, At, Backed
  <2>2. RowsBacked' /\ Kept
    BY <2>1 DEF RowsBacked, MilestonesInOrder, FulfilmentIsAcknowledged,
       BooksFollowProvider, OffersAreRecorded, Kept, Paid, Returned, Issued, Acknowledged,
       HasToken, HasPayment, orderVars
  <2>3. HasPayment' /\ Returned'
    <3>1. HasPayment
      BY <1>2 DEF RefundAtProvider, At, Backed
    <3> QED
      BY <2>1, <2>2, <3>1 DEF Kept, Returned
  <2>4. req'[s].pc = "refund.save"
    BY <1>2, GotoPlace DEF RefundAtProvider
  <2>5. Backed(s)'
    BY <2>3, <2>4 DEF Backed
  <2> QED
    BY <1>2, <2>2, <2>5, GotoAccounted DEF RefundAtProvider
<1>3. CASE RefundRefused(s)
  BY <1>3, RowsKept, ResponseAccounted DEF RefundRefused
<1>4. CASE RefundSavesPayment(s)
  <2>1. payment \in PaymentRow /\ HasPayment /\ Returned
    BY <1>4 DEF TypeOK, RowsOK, RefundSavesPayment, At, Backed
  <2>2. payment'.status = "REFUNDED" /\ payment'.providerOrderId = payment.providerOrderId
    BY <1>4, <2>1 DEF RefundSavesPayment, PaymentRow
  <2>3. UNCHANGED <<orderVars, qr, captured, refunded>>
    BY <1>4 DEF RefundSavesPayment, providerVars
  <2>4. RowsBacked' /\ Kept
    <3>1. payment'.providerOrderId \in ProviderOrders /\ HasPayment'
      BY <2>1, <2>2 DEF RowsBacked, HasPayment
    <3> QED
      BY <2>1, <2>2, <2>3, <3>1, PaymentWritten
  <2>5. req'[s].pc = "refund.order"
    BY <1>4, GotoPlace DEF RefundSavesPayment
  <2>6. Backed(s)'
    BY <2>1, <2>4, <2>5 DEF Kept, Backed
  <2> QED
    BY <1>4, <2>4, <2>6, GotoAccounted DEF RefundSavesPayment
<1>5. CASE RefundSavesOrder(s)
  <2>1. Returned
    BY <1>5 DEF RefundSavesOrder, At, Backed
  <2>2. RowsBacked' /\ Kept
    BY <1>5, <2>1, StatusWritten DEF RefundSavesOrder, setStatus, Fulfilment
  <2> QED
    BY <1>5, <2>2, ResponseAccounted DEF RefundSavesOrder
<1> QED
  BY <1>1, <1>2, <1>3, <1>4, <1>5 DEF refundOrder

(* The desk moves acknowledged orders only, or cancels. *)
LEMMA DeskAccounted ==
  ASSUME TypeOK, IInv, NEW s \in Slots,
         updateOrderStatus(s) \/ syncOperationalStates(s) \/ reportIssue(s)
  PROVE  Accounted(s)
<1> USE DEF IInv
<1>1. CASE UpdateSavesOrder(s)
  <2>1. /\ req[s].nextStatus \in {"PREPARING", "READY", "COMPLETED", "CANCELLED"}
        /\ req[s].nextStatus # "CANCELLED" => Acknowledged
    BY <1>1 DEF UpdateSavesOrder, At, Backed
  <2>2. RowsBacked' /\ Kept
    BY <1>1, <2>1, StatusWritten DEF UpdateSavesOrder, setStatus, Fulfilment
  <2> QED
    BY <1>1, <2>2, ResponseAccounted DEF UpdateSavesOrder
<1>2. CASE refundOrder(s)
  BY <1>2, RefundAccounted
<1>3. CASE SweepFindsDelayed(s)
  <2>1. RowsBacked' /\ Kept
    BY <1>3, RowsKept DEF SweepFindsDelayed
  <2>2. CASE Respond(s)
    BY <2>1, <2>2, ResponseAccounted
  <2>3. CASE /\ EligibleForDelay
             /\ Continue(s, [Idle EXCEPT !.pc = "sweep.save", !.order = order.status])
    <3>1. Acknowledged
      BY <2>3 DEF EligibleForDelay, RowsBacked, FulfilmentIsAcknowledged, Fulfilment,
         Acknowledged
    <3>2. req'[s].pc = "sweep.save"
      BY <2>3 DEF TypeOK, Continue, Idle
    <3>3. Backed(s)'
      BY <2>1, <3>1, <3>2 DEF Kept, Backed
    <3> QED
      BY <2>1, <2>3, <3>3, ContinueAccounted
  <2> QED
    BY <1>3, <2>2, <2>3 DEF SweepFindsDelayed
<1>4. CASE SweepSavesOrder(s)
  <2>1. Acknowledged
    BY <1>4 DEF SweepSavesOrder, At, Backed
  <2>2. RowsBacked' /\ Kept
    BY <1>4, <2>1, StatusWritten DEF SweepSavesOrder, setStatus
  <2> QED
    BY <1>4, <2>2, ResponseAccounted DEF SweepSavesOrder
<1>5. CASE ReportSavesOrder(s)
  <2>1. Acknowledged
    BY <1>5 DEF ReportSavesOrder, At, Backed
  <2>2. RowsBacked' /\ Kept
    BY <1>5, <2>1, StatusWritten DEF ReportSavesOrder, setStatus
  <2> QED
    BY <1>5, <2>2, ResponseAccounted DEF ReportSavesOrder
<1> QED
  BY <1>1, <1>2, <1>3, <1>4, <1>5 DEF updateOrderStatus, syncOperationalStates, reportIssue

LEMMA ProceedAccounted ==
  ASSUME TypeOK, IInv, NEW s \in Slots, Proceed(s)
  PROVE  Accounted(s)
  BY InitiateAccounted, SuccessAccounted, FailureAccounted, ScanAccounted, ExpireAccounted,
     DeskAccounted DEF Proceed

LEMMA AbortAccounted ==
  ASSUME TypeOK, IInv, NEW s \in Slots, Abort(s)
  PROVE  Accounted(s)
  BY RowsKept, ResponseAccounted DEF IInv, Abort

(* Customers, the provider and the clocks. *)
LEMMA EnvironmentBacked ==
  ASSUME TypeOK, IInv, Environment
  PROVE  IInv'
<1>1. RowsBacked' /\ Kept
  BY DEF Environment, CustomerPays, AttemptDeclined, TtlElapses, OrderSitsIdle, IInv,
     RowsBacked, MilestonesInOrder, FulfilmentIsAcknowledged, BooksFollowProvider,
     OffersAreRecorded, Kept, Paid, Returned, Issued, Acknowledged, HasToken, HasPayment,
     orderVars, providerVars
<1>2. req' = req
  BY DEF Environment, CustomerPays, AttemptDeclined, TtlElapses, OrderSitsIdle
<1> QED
  BY <1>1, <1>2, OthersBacked DEF IInv

------------------------------------------------------------------------------
(* The invariant holds initially and is kept by every step. *)
LEMMA InvariantInit == Init => IInv
<1> SUFFICES ASSUME Init
             PROVE  IInv
  OBVIOUS
<1>1. RowsBacked
  BY StoreAssumption DEF Init, RowsBacked, MilestonesInOrder, FulfilmentIsAcknowledged,
     BooksFollowProvider, OffersAreRecorded, Fulfilment, Issued, HasToken, HasPayment,
     NoPayment, NoQR
<1>2. \A s \in Slots : Backed(s)
  BY DEF Init, Idle, Backed
<1> QED
  BY <1>1, <1>2 DEF IInv

LEMMA InvariantStep ==
  ASSUME TypeOK, IInv, [Next]_vars
  PROVE  IInv'
<1>1. CASE Environment
  BY <1>1, EnvironmentBacked
<1>2. ASSUME NEW s \in Slots, Arrival(s) \/ Proceed(s) \/ Abort(s)
      PROVE  IInv'
  BY <1>2, ArrivalAccounted, ProceedAccounted, AbortAccounted, OneMoves
<1>3. CASE UNCHANGED vars
  <2>1. RowsBacked' /\ Kept
    BY <1>3, RowsKept DEF IInv, vars
  <2>2. req' = req
    BY <1>3 DEF vars
  <2> QED
    BY <2>1, <2>2, OthersBacked DEF IInv
<1> QED
  BY <1>1, <1>2, <1>3 DEF Next

------------------------------------------------------------------------------
(* Every reachable state is well typed and satisfies the invariant.        *)
THEOREM Invariance == Spec => [](TypeOK /\ IInv)
<1>1. Init => TypeOK /\ IInv
  BY TypeInit, InvariantInit
<1>2. TypeOK /\ IInv /\ [Next]_vars => (TypeOK /\ IInv)'
  BY TypeStep, InvariantStep
<1> QED
  BY <1>1, <1>2, PTL DEF Spec

(* No handler, on any snapshot, writes a row outside its columns' domains. *)
THEOREM TypeCorrect == Spec => []TypeOK
<1>1. TypeOK /\ IInv => TypeOK
  OBVIOUS
<1> QED
  BY <1>1, Invariance, PTL

(* The invariant alone, as the runs check it. *)
THEOREM InvariantHolds == Spec => []IInv
<1>1. TypeOK /\ IInv => IInv
  OBVIOUS
<1> QED
  BY <1>1, Invariance, PTL

(* No milestone is reached before the one it rests on, whatever snapshots  *)
(* the handlers of payment, QR, desk and sweep acted on.                   *)
THEOREM MilestonesOrdered == Spec => []MilestonesInOrder
<1>1. IInv => MilestonesInOrder
  BY DEF IInv, RowsBacked
<1> QED
  BY <1>1, InvariantHolds, PTL

(* The kitchen never holds an order whose customer has shown no token.     *)
THEOREM FulfilmentAcknowledged == Spec => []FulfilmentIsAcknowledged
<1>1. IInv => FulfilmentIsAcknowledged
  BY DEF IInv, RowsBacked
<1> QED
  BY <1>1, InvariantHolds, PTL

(* The payment row and the refunds never run ahead of the provider.        *)
THEOREM BooksFollow == Spec => []BooksFollowProvider
<1>1. IInv => BooksFollowProvider
  BY DEF IInv, RowsBacked
<1> QED
  BY <1>1, InvariantHolds, PTL

(* Nobody can pay for an order that has no payment row to record it.       *)
THEOREM OffersRecorded == Spec => []OffersAreRecorded
<1>1. IInv => OffersAreRecorded
  BY DEF IInv, RowsBacked
<1> QED
  BY <1>1, InvariantHolds, PTL

------------------------------------------------------------------------------
(* Nonces.  Only a draw takes a request to generate.save, and it draws     *)
(* apart from everything held; every other step moves nonces that are      *)
(* already held, so what a waiting request has drawn stays apart.          *)

(* What a step of s, other than a draw, does to its request ... *)
HoldsNoMore(s) ==
  /\ req'[s].pc # "generate.save"
  /\ req'[s].nonce \in {None, qr.nonce, req[s].nonce}
  /\ \A t \in Slots \ {s} : req'[t] = req[t]

(* ... and to the rows. *)
ShowsNoMore(s) ==
  /\ qr'.nonce \in {qr.nonce, req[s].nonce}
  /\ qr'.status = "NO ROW" => qr' = qr
  /\ order'.expiresAt \in {order.expiresAt, req[s].nonce}
  /\ lapsed' = lapsed

LEMMA NoncesStayApart ==
  ASSUME TypeOK, NoncesApart, NEW s \in Slots, HoldsNoMore(s), ShowsNoMore(s)
  PROVE  NoncesApart'
<1>1. (qr.status = "NO ROW" => qr.nonce = None)'
  BY DEF ShowsNoMore, NoncesApart
<1>2. ASSUME NEW u \in Slots, At(u, "generate.save")'
      PROVE  /\ req'[u].nonce \in Tokens \ (lapsed' \cup {qr'.nonce, order'.expiresAt})
             /\ \A t \in Slots \ {u} : req'[t].nonce # req'[u].nonce
  <2>1. u # s /\ req'[u] = req[u]
    BY <1>2 DEF HoldsNoMore, At
  <2>2. /\ req[u].nonce \in Tokens \ (lapsed \cup {qr.nonce, order.expiresAt})
        /\ \A t \in Slots \ {u} : req[t].nonce # req[u].nonce
    BY <1>2, <2>1 DEF At, NoncesApart
  <2>3. req[u].nonce # None
    BY <2>2, StoreAssumption
  <2> QED
    BY <2>1, <2>2, <2>3 DEF HoldsNoMore, ShowsNoMore
<1> QED
  BY <1>1, <1>2 DEF NoncesApart

(* A request that answers, or goes on with the record it has. *)
LEMMA RespondHolds ==
  ASSUME TypeOK, NEW s \in Slots, Respond(s)
  PROVE  HoldsNoMore(s)
<1>1. req'[s] = Idle /\ \A t \in Slots \ {s} : req'[t] = req[t]
  BY ContinueMoves DEF Respond
<1>2. Idle.pc = "idle" /\ Idle.nonce = None
  BY DEF Idle
<1> QED
  BY <1>1, <1>2 DEF HoldsNoMore

LEMMA GotoHolds ==
  ASSUME TypeOK, NEW s \in Slots, NEW pc, pc # "generate.save", Goto(s, pc)
  PROVE  HoldsNoMore(s)
<1>1. req[s] \in Request
  BY RequestTypes
<1>2. /\ req'[s] = [req[s] EXCEPT !.pc = pc]
      /\ \A t \in Slots \ {s} : req'[t] = req[t]
  BY GotoMoves
<1> QED
  BY <1>1, <1>2 DEF Request, HoldsNoMore

LEMMA ContinueHolds ==
  ASSUME TypeOK, NEW s \in Slots, NEW r, Continue(s, r),
         r.pc # "generate.save", r.nonce \in {None, qr.nonce, req[s].nonce}
  PROVE  HoldsNoMore(s)
  BY ContinueMoves DEF HoldsNoMore

LEMMA ExpireReturnsHolds ==
  ASSUME TypeOK, NEW s \in Slots, ExpireReturns(s)
  PROVE  HoldsNoMore(s)
<1>1. /\ [Idle EXCEPT !.pc = req[s].return].pc # "generate.save"
      /\ [Idle EXCEPT !.pc = req[s].return].nonce = None
  BY RequestTypes DEF Idle
<1> QED
  BY <1>1, ContinueHolds DEF ExpireReturns

(* The rows, when none of them is written, or only the order's status. *)
LEMMA RowsShow ==
  ASSUME NEW s, UNCHANGED <<order, qr, lapsed>>
  PROVE  ShowsNoMore(s)
  BY DEF ShowsNoMore

LEMMA SetStatusShows ==
  ASSUME NEW s, NEW status, NEW milestones, setStatus(status, milestones),
         UNCHANGED <<qr, lapsed>>
  PROVE  ShowsNoMore(s)
  BY DEF setStatus, updateStatus, ShowsNoMore

LEMMA ArrivalHolds ==
  ASSUME TypeOK, NEW s \in Slots, Arrival(s)
  PROVE  HoldsNoMore(s) /\ ShowsNoMore(s)
<1>1. ShowsNoMore(s)
  BY RowsShow DEF Arrival, InitiateStarts, SuccessStarts, FailureStarts, ScanStarts,
     UpdateStarts, RefundStarts, SweepStarts, ReportStarts, orderVars
<1>2. ASSUME NEW pc \in PC \ {"generate.save"}, NEW status, NEW po, NEW next
      PROVE  /\ Continue(s, [Idle EXCEPT !.pc = pc, !.order = status]) => HoldsNoMore(s)
             /\ Continue(s, [Idle EXCEPT !.pc = pc, !.order = status,
                                         !.providerOrderId = po]) => HoldsNoMore(s)
             /\ Continue(s, [Idle EXCEPT !.pc = pc, !.order = status,
                                         !.nextStatus = next]) => HoldsNoMore(s)
             /\ Continue(s, [Idle EXCEPT !.pc = pc, !.nonce = qr.nonce]) => HoldsNoMore(s)
             /\ Continue(s, [Idle EXCEPT !.pc = pc, !.return = "sweep.delayed"])
                  => HoldsNoMore(s)
  BY ContinueHolds DEF Idle
<1>3. CASE InitiateStarts(s) \/ RefundStarts(s) \/ ReportStarts(s)
  BY <1>1, <1>2, <1>3, Places DEF InitiateStarts, RefundStarts, ReportStarts
<1>4. CASE SuccessStarts(s) \/ FailureStarts(s)
  BY <1>1, <1>2, <1>4, Places DEF SuccessStarts, FailureStarts
<1>5. CASE UpdateStarts(s) \/ ScanStarts(s)
  BY <1>1, <1>2, <1>5, Places DEF UpdateStarts, ScanStarts
<1>6. CASE SweepStarts(s)
  BY <1>1, <1>2, <1>6, GotoHolds, Places DEF SweepStarts
<1> QED
  BY <1>3, <1>4, <1>5, <1>6 DEF Arrival

LEMMA QrServiceHolds ==
  ASSUME TypeOK, NEW s \in Slots,
         generateForPaidOrder(s) \/ validateAndConsume(s) \/ expireQr(s),
         ~ GenerateDrawsNonce(s)
  PROVE  HoldsNoMore(s) /\ ShowsNoMore(s)
<1>0. qr \in QRRow /\ req[s] \in Request
  BY RequestTypes DEF TypeOK, RowsOK
<1>1. CASE GenerateReturnsActive(s)
  <2>1. /\ [req[s] EXCEPT !.pc = "success.issue", !.nonce = qr.nonce].pc # "generate.save"
        /\ [req[s] EXCEPT !.pc = "success.issue", !.nonce = qr.nonce].nonce = qr.nonce
    BY <1>0 DEF Request
  <2> QED
    BY <1>1, <2>1, ContinueHolds, RowsShow DEF GenerateReturnsActive, orderVars
<1>2. CASE GenerateSaves(s)
  <2>1. ShowsNoMore(s)
    BY <1>2 DEF GenerateSaves, orderVars, ShowsNoMore
  <2> QED
    BY <1>2, <2>1, GotoHolds DEF GenerateSaves
<1>3. CASE GenerateCreateRefused(s) \/ ScanRefused(s)
  BY <1>3, RespondHolds, RowsShow DEF GenerateCreateRefused, ScanRefused, orderVars
<1>4. CASE ExpireFinds(s)
  <2>1. /\ [req[s] EXCEPT !.pc = "expire.save", !.order = order.status].pc # "generate.save"
        /\ [req[s] EXCEPT !.pc = "expire.save", !.order = order.status].nonce = req[s].nonce
    BY <1>0 DEF Request
  <2> QED
    BY <1>4, <2>1, ContinueHolds, ExpireReturnsHolds, RowsShow DEF ExpireFinds, orderVars
<1>5. CASE ExpireSaves(s)
  <2>1. ShowsNoMore(s)
    BY <1>0, <1>5 DEF QRRow, ExpireSaves, orderVars, ShowsNoMore
  <2> QED
    BY <1>5, <2>1, GotoHolds, ExpireReturnsHolds DEF ExpireSaves
<1>6. CASE ExpireSavesOrder(s)
  BY <1>6, SetStatusShows, ExpireReturnsHolds DEF ExpireSavesOrder
<1>7. CASE ScanFindsLapsed(s) \/ ScanAccepted(s)
  <2>1. PICK pc \in {"expire.find", "scan.use"} :
          \/ Continue(s, [Idle EXCEPT !.pc = pc])
          \/ Continue(s, [Idle EXCEPT !.pc = pc, !.order = order.status])
    BY <1>7 DEF ScanFindsLapsed, ScanAccepted
  <2>2. /\ [Idle EXCEPT !.pc = pc].pc = pc
        /\ [Idle EXCEPT !.pc = pc].nonce = None
        /\ [Idle EXCEPT !.pc = pc, !.order = order.status].pc = pc
        /\ [Idle EXCEPT !.pc = pc, !.order = order.status].nonce = None
    BY DEF Idle
  <2>3. HoldsNoMore(s)
    BY <2>1, <2>2, ContinueHolds
  <2> QED
    BY <1>7, <2>3, RowsShow DEF ScanFindsLapsed, ScanAccepted, orderVars
<1>8. CASE ScanUsesToken(s)
  <2>1. ShowsNoMore(s)
    BY <1>0, <1>8 DEF QRRow, ScanUsesToken, orderVars, ShowsNoMore
  <2> QED
    BY <1>8, <2>1, GotoHolds DEF ScanUsesToken
<1>9. CASE ScanConfirmsOrder(s)
  BY <1>9, SetStatusShows, RespondHolds DEF ScanConfirmsOrder
<1> QED
  BY <1>1, <1>2, <1>3, <1>4, <1>5, <1>6, <1>7, <1>8, <1>9
     DEF generateForPaidOrder, expireQr, validateAndConsume

LEMMA InitiateHolds ==
  ASSUME TypeOK, NEW s \in Slots, initiateOrderPayment(s)
  PROVE  HoldsNoMore(s) /\ ShowsNoMore(s)
<1>0. req[s] \in Request
  BY RequestTypes
<1>1. ASSUME NEW pc \in {"initiate.provider", "initiate.save", "initiate.pending"},
             NEW found, NEW po
      PROVE  /\ Continue(s, [req[s] EXCEPT !.pc = pc, !.existing = found]) => HoldsNoMore(s)
             /\ Continue(s, [req[s] EXCEPT !.pc = pc, !.providerOrderId = po])
                  => HoldsNoMore(s)
  BY <1>0, ContinueHolds DEF Request
<1>2. CASE InitiateChecksOrder(s)
  BY <1>1, <1>2, RespondHolds, RowsShow DEF InitiateChecksOrder, orderVars
<1>3. CASE InitiateOpensProviderOrder(s)
  BY <1>1, <1>3, RespondHolds, RowsShow DEF InitiateOpensProviderOrder, orderVars
<1>4. CASE InitiateMarksPending(s)
  BY <1>4, GotoHolds, SetStatusShows DEF InitiateMarksPending
<1>5. CASE InitiateKeyIsNew(s) \/ InitiateSavesPayment(s)
  BY <1>5, GotoHolds, RowsShow DEF InitiateKeyIsNew, InitiateSavesPayment, orderVars
<1>6. CASE \/ InitiateFindsKey(s) \/ InitiateReusesPayment(s)
           \/ InitiateCreateRefused(s) \/ InitiateReplies(s)
  BY <1>6, RespondHolds, RowsShow DEF InitiateFindsKey, InitiateReusesPayment,
     InitiateCreateRefused, InitiateReplies, Offer, orderVars
<1> QED
  BY <1>2, <1>3, <1>4, <1>5, <1>6 DEF initiateOrderPayment

LEMMA OutcomeHolds ==
  ASSUME TypeOK, NEW s \in Slots,
         \/ SuccessSavesPayment(s) \/ SuccessMarksPaid(s) \/ SuccessIssuesOrder(s)
         \/ recordPaymentFailure(s)
  PROVE  HoldsNoMore(s) /\ ShowsNoMore(s)
<1>1. CASE SuccessSavesPayment(s)
  <2>1. PICK pc \in {"success.paid", "generate.find"} : Goto(s, pc)
    BY <1>1 DEF SuccessSavesPayment
  <2> QED
    BY <1>1, <2>1, GotoHolds, RowsShow DEF SuccessSavesPayment, orderVars
<1>2. CASE SuccessMarksPaid(s)
  BY <1>2, GotoHolds, SetStatusShows DEF SuccessMarksPaid
<1>3. CASE SuccessIssuesOrder(s)
  <2>1. ShowsNoMore(s)
    BY <1>3 DEF SuccessIssuesOrder, updateStatus, ShowsNoMore
  <2> QED
    BY <1>3, <2>1, RespondHolds DEF SuccessIssuesOrder
<1>4. CASE FailureSavesPayment(s)
  BY <1>4, GotoHolds, RespondHolds, RowsShow DEF FailureSavesPayment, orderVars
<1>5. CASE FailureSavesOrder(s)
  BY <1>5, RespondHolds, SetStatusShows DEF FailureSavesOrder
<1> QED
  BY <1>1, <1>2, <1>3, <1>4, <1>5 DEF recordPaymentFailure

LEMMA DeskHolds ==
  ASSUME TypeOK, NEW s \in Slots,
         updateOrderStatus(s) \/ syncOperationalStates(s) \/ reportIssue(s)
  PROVE  HoldsNoMore(s) /\ ShowsNoMore(s)
<1>1. CASE RefundReadsPayment(s)
  <2>1. req[s] \in Request
    BY RequestTypes
  <2>2. Continue(s, [req[s] EXCEPT !.pc = "refund.provider",
                       !.providerOrderId = payment.providerPaymentId.of]) => HoldsNoMore(s)
    BY <2>1, ContinueHolds DEF Request
  <2> QED
    BY <1>1, <2>2, RespondHolds, RowsShow DEF RefundReadsPayment, orderVars
<1>2. CASE RefundAtProvider(s) \/ RefundRefused(s) \/ RefundSavesPayment(s)
  BY <1>2, GotoHolds, RespondHolds, RowsShow
     DEF RefundAtProvider, RefundRefused, RefundSavesPayment, orderVars
<1>3. CASE SweepFindsDelayed(s)
  <2>1. Continue(s, [Idle EXCEPT !.pc = "sweep.save", !.order = order.status])
          => HoldsNoMore(s)
    BY ContinueHolds DEF Idle
  <2> QED
    BY <1>3, <2>1, RespondHolds, RowsShow DEF SweepFindsDelayed, orderVars
<1>4. CASE RefundSavesOrder(s) \/ UpdateSavesOrder(s) \/ SweepSavesOrder(s) \/ reportIssue(s)
  BY <1>4, RespondHolds, SetStatusShows
     DEF RefundSavesOrder, UpdateSavesOrder, SweepSavesOrder, reportIssue, ReportSavesOrder
<1> QED
  BY <1>1, <1>2, <1>3, <1>4 DEF updateOrderStatus, refundOrder, syncOperationalStates

(* The one step that draws. *)
LEMMA DrawStaysApart ==
  ASSUME TypeOK, NoncesApart, NEW s \in Slots, GenerateDrawsNonce(s)
  PROVE  NoncesApart'
<1>1. PICK t \in FreshTokens :
        /\ Continue(s, [req[s] EXCEPT !.pc = "generate.save", !.nonce = t,
                                      !.existing = (qr.status # "NO ROW")])
        /\ lapsed' = lapsed \ {t}
  BY DEF GenerateDrawsNonce
<1>2. req[s] \in Request
  BY RequestTypes
<1>3. req'[s].nonce = t /\ \A u \in Slots \ {s} : req'[u] = req[u]
  BY <1>1, <1>2 DEF TypeOK, Continue, Request
<1>4. qr' = qr /\ order' = order
  BY DEF GenerateDrawsNonce, orderVars
<1>5. /\ t \in Tokens \ {qr.nonce, order.expiresAt}
      /\ \A u \in Slots : req[u].nonce # t
  BY DEF FreshTokens
<1>6. ASSUME NEW u \in Slots, At(u, "generate.save")'
      PROVE  /\ req'[u].nonce \in Tokens \ (lapsed' \cup {qr'.nonce, order'.expiresAt})
             /\ \A v \in Slots \ {u} : req'[v].nonce # req'[u].nonce
  <2>1. CASE u = s
    BY <1>1, <1>3, <1>4, <1>5, <2>1
  <2>2. CASE u # s
    BY <1>1, <1>3, <1>4, <1>5, <1>6, <2>2 DEF At, NoncesApart
  <2> QED
    BY <2>1, <2>2
<1> QED
  BY <1>4, <1>6 DEF NoncesApart

LEMMA NoncesStep ==
  ASSUME TypeOK, NoncesApart, [Next]_vars
  PROVE  NoncesApart'
<1>1. CASE Environment
  <2>1. lapsed' \subseteq lapsed \cup {qr.nonce, order.expiresAt}
    BY <1>1 DEF Environment, CustomerPays, AttemptDeclined, TtlElapses, OrderSitsIdle
  <2>2. UNCHANGED <<order, qr, req>>
    BY <1>1 DEF Environment, CustomerPays, AttemptDeclined, TtlElapses, OrderSitsIdle,
       orderVars
  <2> QED
    BY <2>1, <2>2 DEF NoncesApart, At
<1>2. ASSUME NEW s \in Slots, Arrival(s) \/ Proceed(s) \/ Abort(s), ~ GenerateDrawsNonce(s)
      PROVE  HoldsNoMore(s) /\ ShowsNoMore(s)
  <2>1. CASE Abort(s)
    BY <2>1, RespondHolds, RowsShow DEF Abort, orderVars
  <2> QED
    BY <1>2, <2>1, ArrivalHolds, InitiateHolds, OutcomeHolds, QrServiceHolds, DeskHolds
       DEF Proceed, recordPaymentSuccess
<1>3. CASE UNCHANGED vars
  BY <1>3 DEF vars, orderVars, NoncesApart, At
<1> QED
  BY <1>1, <1>2, <1>3, NoncesStayApart, DrawStaysApart DEF Next

(* No two requests are about to save one nonce, and none one that a row    *)
(* shows: a renewed token is a new one, however payment successes overlap. *)
THEOREM NoncesKeptApart == Spec => []NoncesApart
<1>1. ASSUME Init
      PROVE  NoncesApart
  <2>1. qr.nonce = None
    BY <1>1 DEF Init, NoQR
  <2>2. \A s \in Slots : ~ At(s, "generate.save")
    BY <1>1 DEF Init, Idle, At
  <2> QED
    BY <2>1, <2>2 DEF NoncesApart
<1>2. TypeOK /\ NoncesApart /\ [Next]_vars => NoncesApart'
  BY NoncesStep
<1> QED
  BY <1>1, <1>2, TypeCorrect, PTL DEF Spec

(* The one step that makes a token good saves a nonce that was drawn.      *)
LEMMA ActivatedBySave ==
  ASSUME TypeOK, [Next]_vars, qr.status # "ACTIVE", qr'.status = "ACTIVE"
  PROVE  \E s \in Slots : GenerateSaves(s)
<1>0. qr \in QRRow /\ qr' # qr
  BY DEF TypeOK, RowsOK
<1>1. ASSUME NEW s \in Slots, ExpireSaves(s) \/ ScanUsesToken(s)
      PROVE  FALSE
  BY <1>0, <1>1 DEF ExpireSaves, ScanUsesToken, QRRow
<1>2. ~ Environment /\ ~ UNCHANGED vars
  BY <1>0 DEF Environment, CustomerPays, AttemptDeclined, TtlElapses, OrderSitsIdle, vars
<1>3. ASSUME NEW s \in Slots, Arrival(s) \/ Abort(s)
      PROVE  FALSE
  BY <1>0, <1>3 DEF Arrival, InitiateStarts, SuccessStarts, FailureStarts, ScanStarts,
     UpdateStarts, RefundStarts, SweepStarts, ReportStarts, Abort
<1>4. ASSUME NEW s \in Slots, Proceed(s)
      PROVE  GenerateSaves(s)
  <2>1. ~ initiateOrderPayment(s)
    BY <1>0 DEF initiateOrderPayment, InitiateFindsKey, InitiateKeyIsNew,
       InitiateReusesPayment, InitiateChecksOrder, InitiateOpensProviderOrder,
       InitiateMarksPending, InitiateSavesPayment, InitiateCreateRefused, InitiateReplies,
       Offer
  <2>2. ~ recordPaymentFailure(s) /\ ~ updateOrderStatus(s)
    BY <1>0 DEF recordPaymentFailure, FailureSavesPayment, FailureSavesOrder,
       updateOrderStatus, UpdateSavesOrder, refundOrder, RefundReadsPayment,
       RefundAtProvider, RefundRefused, RefundSavesPayment, RefundSavesOrder
  <2>3. ~ syncOperationalStates(s) /\ ~ reportIssue(s)
    BY <1>0 DEF syncOperationalStates, SweepFindsDelayed, SweepSavesOrder, reportIssue,
       ReportSavesOrder
  <2>4. ~ validateAndConsume(s) /\ ~ expireQr(s)
    BY <1>0, <1>1 DEF validateAndConsume, ScanRefused, ScanFindsLapsed, ScanAccepted,
       ScanConfirmsOrder, expireQr, ExpireFinds, ExpireSavesOrder
  <2>5. recordPaymentSuccess(s) => GenerateSaves(s)
    BY <1>0 DEF recordPaymentSuccess, SuccessSavesPayment, SuccessMarksPaid,
       SuccessIssuesOrder, generateForPaidOrder, GenerateReturnsActive,
       GenerateDrawsNonce, GenerateCreateRefused
  <2> QED
    BY <1>4, <2>1, <2>2, <2>3, <2>4, <2>5 DEF Proceed
<1> QED
  BY <1>2, <1>3, <1>4 DEF Next

(* A spent token is never made good again, whatever runs next to the scan  *)
(* that used it: what a renewal saves is another nonce.                    *)
THEOREM SpentTokensStaySpent == Spec => SpentStaysSpent
<1>1. TypeOK /\ NoncesApart /\ [Next]_vars =>
        [qr.status \in {"USED", "EXPIRED"} /\ qr'.status = "ACTIVE"
           => qr'.nonce # qr.nonce]_vars
  <2> SUFFICES ASSUME TypeOK, NoncesApart, [Next]_vars,
                      qr.status \in {"USED", "EXPIRED"}, qr'.status = "ACTIVE"
               PROVE  qr'.nonce # qr.nonce
    OBVIOUS
  <2>1. PICK s \in Slots : GenerateSaves(s)
    BY ActivatedBySave
  <2> QED
    BY <2>1 DEF GenerateSaves, NoncesApart
<1> QED
  BY <1>1, TypeCorrect, NoncesKeptApart, PTL DEF Spec, SpentStaysSpent

------------------------------------------------------------------------------
(* Acknowledgement.  A request that has consumed a token stays where it    *)
(* confirms the order until it does, and a confirmation is never undone.   *)

(* From there, a request that is not cut short takes one step only.        *)
LEMMA ConfirmIsNext ==
  ASSUME NEW s \in Slots, At(s, "scan.confirm"), Arrival(s) \/ Proceed(s)
  PROVE  ScanConfirmsOrder(s)
<1>1. ~ Arrival(s)
  <2>1. Idle.pc = "idle"
    BY DEF Idle
  <2>2. req[s] # Idle
    BY <2>1 DEF At
  <2> QED
    BY <2>2 DEF Arrival, InitiateStarts, SuccessStarts, FailureStarts, ScanStarts,
       UpdateStarts, RefundStarts, SweepStarts, ReportStarts, Arrives
<1>2. ~ initiateOrderPayment(s)
  BY DEF At, initiateOrderPayment, InitiateFindsKey, InitiateKeyIsNew, InitiateReusesPayment,
     InitiateChecksOrder, InitiateOpensProviderOrder, InitiateMarksPending,
     InitiateSavesPayment, InitiateCreateRefused, InitiateReplies
<1>3. ~ recordPaymentSuccess(s) /\ ~ recordPaymentFailure(s)
  BY DEF At, recordPaymentSuccess, SuccessSavesPayment, SuccessMarksPaid,
     generateForPaidOrder, GenerateReturnsActive, GenerateDrawsNonce, GenerateSaves,
     GenerateCreateRefused, SuccessIssuesOrder, recordPaymentFailure, FailureSavesPayment,
     FailureSavesOrder
<1>4. ~ expireQr(s) /\ ~ syncOperationalStates(s) /\ ~ reportIssue(s)
  BY DEF At, expireQr, ExpireFinds, ExpireSaves, ExpireSavesOrder, syncOperationalStates,
     SweepFindsDelayed, SweepSavesOrder, reportIssue, ReportSavesOrder
<1>5. ~ updateOrderStatus(s)
  BY DEF At, updateOrderStatus, UpdateSavesOrder, refundOrder, RefundReadsPayment,
     RefundAtProvider, RefundRefused, RefundSavesPayment, RefundSavesOrder
<1>6. validateAndConsume(s) => ScanConfirmsOrder(s)
  BY DEF At, validateAndConsume, ScanRefused, ScanFindsLapsed, ScanAccepted, ScanUsesToken
<1> QED
  BY <1>1, <1>2, <1>3, <1>4, <1>5, <1>6 DEF Proceed

(* A token becomes USED by a scan, which then waits to confirm the order.  *)
LEMMA UsedByScan ==
  ASSUME TypeOK, NEW s \in Slots, Arrival(s) \/ Proceed(s) \/ Abort(s),
         qr.status # "USED", qr'.status = "USED"
  PROVE  At(s, "scan.confirm")'
<1>1. qr \in QRRow /\ qr' # qr
  BY DEF TypeOK, RowsOK
<1>2. ~ Arrival(s) /\ ~ Abort(s)
  BY <1>1 DEF Arrival, InitiateStarts, SuccessStarts, FailureStarts, ScanStarts, UpdateStarts,
     RefundStarts, SweepStarts, ReportStarts, Abort
<1>3. ~ initiateOrderPayment(s)
  BY <1>1 DEF initiateOrderPayment, InitiateFindsKey, InitiateKeyIsNew, InitiateReusesPayment,
     InitiateChecksOrder, InitiateOpensProviderOrder, InitiateMarksPending,
     InitiateSavesPayment, InitiateCreateRefused, InitiateReplies, Offer
<1>4. ~ recordPaymentSuccess(s) /\ ~ recordPaymentFailure(s)
  <2>1. ~ GenerateReturnsActive(s) /\ ~ GenerateDrawsNonce(s) /\ ~ GenerateCreateRefused(s)
    BY <1>1 DEF GenerateReturnsActive, GenerateDrawsNonce, GenerateCreateRefused
  <2>2. ~ GenerateSaves(s)
    <3>1. SUFFICES ASSUME GenerateSaves(s)
                   PROVE  qr'.status = "ACTIVE"
      OBVIOUS
    <3>2. qr' = [status |-> "ACTIVE", nonce |-> req[s].nonce]
      BY <3>1 DEF GenerateSaves
    <3> QED
      BY <3>2
  <2> QED
    BY <1>1, <2>1, <2>2 DEF recordPaymentSuccess, SuccessSavesPayment, SuccessMarksPaid,
       generateForPaidOrder, SuccessIssuesOrder, recordPaymentFailure, FailureSavesPayment,
       FailureSavesOrder
<1>5. ~ expireQr(s) /\ ~ syncOperationalStates(s) /\ ~ reportIssue(s)
  BY <1>1 DEF QRRow, expireQr, ExpireFinds, ExpireSaves, ExpireSavesOrder,
     syncOperationalStates, SweepFindsDelayed, SweepSavesOrder, reportIssue, ReportSavesOrder
<1>6. ~ updateOrderStatus(s)
  BY <1>1 DEF updateOrderStatus, UpdateSavesOrder, refundOrder, RefundReadsPayment,
     RefundAtProvider, RefundRefused, RefundSavesPayment, RefundSavesOrder
<1>7. ScanUsesToken(s)
  BY <1>1, <1>2, <1>3, <1>4, <1>5, <1>6 DEF Proceed, validateAndConsume, ScanRefused,
     ScanFindsLapsed, ScanAccepted, ScanConfirmsOrder
<1> QED
  BY <1>7, GotoPlace DEF ScanUsesToken, At

LEMMA AcknowledgementStep ==
  ASSUME TypeOK, IInv, NEW s \in Slots, Arrival(s) \/ Proceed(s), ScanMeansAcknowledged
  PROVE  ScanMeansAcknowledged'
<1>1. Kept /\ \A t \in Slots \ {s} : req'[t] = req[t]
  BY ArrivalAccounted, ProceedAccounted DEF Accounted
<1>2. CASE Acknowledged
  BY <1>1, <1>2 DEF Kept, Acknowledged, ScanMeansAcknowledged
<1>3. CASE ~ Acknowledged /\ qr.status # "USED"
  BY <1>3, UsedByScan DEF ScanMeansAcknowledged
<1>4. CASE ~ Acknowledged /\ qr.status = "USED"
  <2>1. PICK t \in Slots : At(t, "scan.confirm")
    BY <1>4 DEF ScanMeansAcknowledged, Acknowledged
  <2>2. CASE t = s
    <3>1. order \in OrderRow /\ ScanConfirmsOrder(s)
      BY <2>1, <2>2, ConfirmIsNext DEF TypeOK, RowsOK
    <3>2. "confirmedAt" \in order'.milestones
      BY <3>1 DEF ScanConfirmsOrder, setStatus, updateStatus
    <3> QED
      BY <3>2 DEF ScanMeansAcknowledged
  <2>3. CASE t # s
    BY <1>1, <2>1, <2>3 DEF At, ScanMeansAcknowledged
  <2> QED
    BY <2>2, <2>3
<1> QED
  BY <1>2, <1>3, <1>4

(* Only Abort counts a request as cut short.                               *)
LEMMA AbortsStay ==
  ASSUME NEW s, Arrival(s) \/ Proceed(s)
  PROVE  aborts' = aborts
<1>1. CASE Arrival(s)
  BY <1>1 DEF Arrival, InitiateStarts, SuccessStarts, FailureStarts, ScanStarts, UpdateStarts,
     RefundStarts, SweepStarts, ReportStarts
<1>2. CASE initiateOrderPayment(s)
  BY <1>2 DEF initiateOrderPayment, InitiateFindsKey, InitiateKeyIsNew, InitiateReusesPayment,
     InitiateChecksOrder, InitiateOpensProviderOrder, InitiateMarksPending,
     InitiateSavesPayment, InitiateCreateRefused, InitiateReplies, Offer
<1>3. CASE recordPaymentSuccess(s) \/ recordPaymentFailure(s)
  BY <1>3 DEF recordPaymentSuccess, SuccessSavesPayment, SuccessMarksPaid,
     generateForPaidOrder, GenerateReturnsActive, GenerateDrawsNonce, GenerateSaves,
     GenerateCreateRefused, SuccessIssuesOrder, recordPaymentFailure, FailureSavesPayment,
     FailureSavesOrder
<1>4. CASE validateAndConsume(s) \/ expireQr(s)
  BY <1>4 DEF validateAndConsume, ScanRefused, ScanFindsLapsed, ScanAccepted, ScanUsesToken,
     ScanConfirmsOrder, expireQr, ExpireFinds, ExpireSaves, ExpireSavesOrder
<1>5. CASE updateOrderStatus(s) \/ syncOperationalStates(s) \/ reportIssue(s)
  BY <1>5 DEF updateOrderStatus, UpdateSavesOrder, refundOrder, RefundReadsPayment,
     RefundAtProvider, RefundRefused, RefundSavesPayment, RefundSavesOrder,
     syncOperationalStates, SweepFindsDelayed, SweepSavesOrder, reportIssue, ReportSavesOrder
<1> QED
  BY <1>1, <1>2, <1>3, <1>4, <1>5 DEF Proceed

(* However requests overlap, a consumed token has confirmed its order or a *)
(* request is about to, unless one was cut short.                          *)
THEOREM AcknowledgementKept == Spec => []OverlapKeepsAcknowledgement
<1>1. Init => OverlapKeepsAcknowledgement
  <2>1. NoQR.status = "NO ROW"
    BY DEF NoQR
  <2>2. Init => qr = NoQR
    BY DEF Init
  <2> QED
    BY <2>1, <2>2 DEF OverlapKeepsAcknowledgement, ScanMeansAcknowledged
<1>2. ASSUME TypeOK, IInv, OverlapKeepsAcknowledgement, [Next]_vars
      PROVE  OverlapKeepsAcknowledgement'
  <2>1. CASE Environment
    <3>1. UNCHANGED <<order.milestones, qr, req, aborts>>
      BY <2>1 DEF Environment, CustomerPays, AttemptDeclined, TtlElapses, OrderSitsIdle,
         orderVars
    <3> QED
      BY <1>2, <3>1 DEF OverlapKeepsAcknowledgement, ScanMeansAcknowledged, At
  <2>2. ASSUME NEW s \in Slots, Arrival(s) \/ Proceed(s), aborts' = 0
        PROVE  ScanMeansAcknowledged'
    <3>1. aborts = 0
      BY <2>2, AbortsStay
    <3> QED
      BY <1>2, <2>2, <3>1, AcknowledgementStep DEF OverlapKeepsAcknowledgement
  <2>3. ASSUME NEW s \in Slots, Abort(s)
        PROVE  aborts' # 0
    <3>1. MaxAborts \in Nat
      BY StoreAssumption
    <3>2. aborts \in 0..MaxAborts
      BY <1>2 DEF TypeOK, RowsOK
    <3>3. aborts' = aborts + 1
      BY <2>3 DEF Abort
    <3> QED
      BY <3>1, <3>2, <3>3
  <2>4. CASE UNCHANGED vars
    <3>1. UNCHANGED <<order, qr, req, aborts>>
      BY <2>4 DEF vars, orderVars
    <3> QED
      BY <1>2, <3>1 DEF OverlapKeepsAcknowledgement, ScanMeansAcknowledged, At
  <2> QED
    BY <1>2, <2>1, <2>2, <2>3, <2>4 DEF Next, OverlapKeepsAcknowledgement
<1> QED
  BY <1>1, <1>2, Invariance, PTL DEF Spec

==============================================================================
