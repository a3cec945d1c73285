---------------------------- MODULE PaymentService ----------------------------
(***************************************************************************)
(* services/payments/payment.service.ts over QrService: a payment is       *)
(* opened at the provider, its outcome arrives from the customer           *)
(* (confirmPayment) or from the provider (handleWebhook), any number of    *)
(* times, late and in any order, and it may be refunded.                   *)
(***************************************************************************)
EXTENDS QrService

------------------------------------------------------------------------------
(* initiateOrderPayment *)

(* The order is read.  Bound: only while there are fresh provider orders   *)
(* for every request in progress.                                          *)
InitiateStarts(s) ==
  /\ Arrives(s, "initiate")
  /\ Cardinality(FreshProviderOrders) >= Cardinality(Slots)
  /\ Continue(s, [Idle EXCEPT !.pc = "initiate.key", !.order = order.status])
  /\ UNCHANGED <<orderVars, payment, qr, providerVars, lapsed, aborts>>

(* The client learns the provider order of the payment row. *)
Offer(s) ==
  /\ offered' = offered \cup {payment.providerOrderId}
  /\ Respond(s)
  /\ UNCHANGED <<orderVars, payment, qr, captured, declined, refunded, lapsed, aborts>>

(* The key is that of the row, which is returned whatever its status, or a *)
(* new one.                                                                *)
InitiateFindsKey(s) ==
  /\ At(s, "initiate.key")
  /\ payment.status # "NO ROW"
  /\ Offer(s)

InitiateKeyIsNew(s) ==
  /\ At(s, "initiate.key")
  /\ Goto(s, "initiate.existing")
  /\ UNCHANGED <<orderVars, payment, qr, providerVars, lapsed, aborts>>

(* Mutant of reusablePaymentStates: an open payment is opened again. *)
reusableOnceSettled == {"SUCCESS"}

reusablePaymentStates == {"PENDING", "SUCCESS"}
initiatableStates == {"CREATED", "PAYMENT_FAILED", "PAYMENT_PENDING"}

InitiateReusesPayment(s) ==
  /\ At(s, "initiate.existing")
  /\ payment.status \in reusablePaymentStates
  /\ Offer(s)

InitiateChecksOrder(s) ==
  /\ At(s, "initiate.existing")
  /\ payment.status \notin reusablePaymentStates
  /\ \/ req[s].order \notin initiatableStates /\ Respond(s)
     \/ /\ req[s].order \in initiatableStates
        /\ Continue(s, [req[s] EXCEPT !.pc = "initiate.provider",
                                      !.existing = (payment.status # "NO ROW")])
  /\ UNCHANGED <<orderVars, payment, qr, providerVars, lapsed, aborts>>

(* The provider has opened an order; the lifecycle is asked only now. *)
InitiateOpensProviderOrder(s) ==
  /\ At(s, "initiate.provider")
  /\ \E po \in FreshProviderOrders :
       \/ /\ req[s].order = "PAYMENT_PENDING"
          /\ Continue(s, [req[s] EXCEPT !.pc = "initiate.save", !.providerOrderId = po])
       \/ /\ assertValidTransition(req[s].order, "PAYMENT_PENDING")
          /\ Continue(s, [req[s] EXCEPT !.pc = "initiate.pending", !.providerOrderId = po])
       \/ /\ req[s].order # "PAYMENT_PENDING"
          /\ ~ assertValidTransition(req[s].order, "PAYMENT_PENDING")
          /\ Respond(s)
  /\ UNCHANGED <<orderVars, payment, qr, providerVars, lapsed, aborts>>

(* Mutant of InitiateMarksPending: the row is left to the outcome. *)
InitiateMarksAndReplies(s) ==
  /\ At(s, "initiate.pending")
  /\ setStatus("PAYMENT_PENDING", {})
  /\ recordOrderTransition(req[s].order, "PAYMENT_PENDING")
  /\ Goto(s, "initiate.reply")
  /\ UNCHANGED <<payment, qr, providerVars, lapsed, aborts>>

InitiateMarksPending(s) ==
  /\ At(s, "initiate.pending")
  /\ setStatus("PAYMENT_PENDING", {})
  /\ recordOrderTransition(req[s].order, "PAYMENT_PENDING")
  /\ Goto(s, "initiate.save")
  /\ UNCHANGED <<payment, qr, providerVars, lapsed, aborts>>

(* The update keeps providerPaymentId; the create leaves it null. *)
InitiateSavesPayment(s) ==
  /\ At(s, "initiate.save")
  /\ req[s].existing \/ payment.status = "NO ROW"
  /\ payment' = [payment EXCEPT !.status = "PENDING",
                                !.providerOrderId = req[s].providerOrderId]
  /\ Goto(s, "initiate.reply")
  /\ UNCHANGED <<orderVars, qr, providerVars, lapsed, aborts>>

(* Payment.orderId is unique. *)
InitiateCreateRefused(s) ==
  /\ At(s, "initiate.save")
  /\ ~ req[s].existing
  /\ payment.status # "NO ROW"
  /\ Respond(s)
  /\ UNCHANGED <<orderVars, payment, qr, providerVars, lapsed, aborts>>

(* The row as this request wrote it is returned. *)
InitiateReplies(s) ==
  /\ At(s, "initiate.reply")
  /\ offered' = offered \cup {req[s].providerOrderId}
  /\ Respond(s)
  /\ UNCHANGED <<orderVars, payment, qr, captured, declined, refunded, lapsed, aborts>>

initiateOrderPayment(s) ==
  InitiateFindsKey(s) \/ InitiateKeyIsNew(s) \/ InitiateReusesPayment(s)
    \/ InitiateChecksOrder(s) \/ InitiateOpensProviderOrder(s) \/ InitiateMarksPending(s)
    \/ InitiateSavesPayment(s) \/ InitiateCreateRefused(s) \/ InitiateReplies(s)

------------------------------------------------------------------------------
(* confirmPayment and the success branch of handleWebhook write the same.  *)
(* Both need the provider's signature, so the money has been taken; both   *)
(* find the row by providerOrderId, with its order.  When there is no row  *)
(* or it is SUCCESS already nothing is written: such a call is left out.   *)

(* Mutant of SuccessStarts: the signature is not verified. *)
SuccessStartsUnsigned(s) ==
  /\ Arrives(s, "success")
  /\ \E po \in offered :
       /\ payment.providerOrderId = po
       /\ payment.status # "SUCCESS"
       /\ Continue(s, [Idle EXCEPT !.pc = "success.payment", !.order = order.status,
                                   !.providerOrderId = po])
  /\ UNCHANGED <<orderVars, payment, qr, providerVars, lapsed, aborts>>

SuccessStarts(s) ==
  /\ Arrives(s, "success")
  /\ \E po \in captured :
       /\ payment.providerOrderId = po
       /\ payment.status # "SUCCESS"
       /\ Continue(s, [Idle EXCEPT !.pc = "success.payment", !.order = order.status,
                                   !.providerOrderId = po])
  /\ UNCHANGED <<orderVars, payment, qr, providerVars, lapsed, aborts>>

(* Mutant of SuccessSavesPayment: the QR is generated inside the branch    *)
(* that marks the order paid.                                              *)
SuccessOnlyWhenPending(s) ==
  /\ At(s, "success.payment")
  /\ payment' = [payment EXCEPT
                   !.status = "SUCCESS",
                   !.providerPaymentId = Attempt(req[s].providerOrderId, "captured")]
  /\ \/ req[s].order = "PAYMENT_PENDING" /\ Goto(s, "success.paid")
     \/ req[s].order # "PAYMENT_PENDING" /\ Respond(s)
  /\ UNCHANGED <<orderVars, qr, providerVars, lapsed, aborts>>

SuccessSavesPayment(s) ==
  /\ At(s, "success.payment")
  /\ payment' = [payment EXCEPT
                   !.status = "SUCCESS",
                   !.providerPaymentId = Attempt(req[s].providerOrderId, "captured")]
  /\ Goto(s, IF req[s].order = "PAYMENT_PENDING" THEN "success.paid" ELSE "generate.find")
  /\ UNCHANGED <<orderVars, qr, providerVars, lapsed, aborts>>

SuccessMarksPaid(s) ==
  /\ At(s, "success.paid")
  /\ setStatus("PAID", {"paidAt"})
  /\ recordOrderTransition("PAYMENT_PENDING", "PAID")
  /\ Goto(s, "generate.find")
  /\ UNCHANGED <<payment, qr, providerVars, lapsed, aborts>>

(* Mutant of SuccessIssuesOrder: the order keeps the expiry it had. *)
SuccessKeepsExpiry(s) ==
  /\ At(s, "success.issue")
  /\ setStatus("QR_GENERATED", {"qrGeneratedAt"})
  /\ recordOrderTransition("PAID", "QR_GENERATED")
  /\ Respond(s)
  /\ UNCHANGED <<payment, qr, providerVars, lapsed, aborts>>

(* Neither the current status nor the lifecycle is asked, and the audit    *)
(* entry names PAID as the previous state whatever it was.                 *)
SuccessIssuesOrder(s) ==
  /\ At(s, "success.issue")
  /\ updateStatus("QR_GENERATED", {"qrGeneratedAt"}, req[s].nonce)
  /\ recordOrderTransition("PAID", "QR_GENERATED")
  /\ Respond(s)
  /\ UNCHANGED <<payment, qr, providerVars, lapsed, aborts>>

recordPaymentSuccess(s) ==
  SuccessSavesPayment(s) \/ SuccessMarksPaid(s) \/ generateForPaidOrder(s)
    \/ SuccessIssuesOrder(s)

------------------------------------------------------------------------------
(* The failure branch of handleWebhook writes without looking at the row.  *)

FailureStarts(s) ==
  /\ Arrives(s, "failure")
  /\ \E po \in declined :
       /\ payment.providerOrderId = po
       /\ Continue(s, [Idle EXCEPT !.pc = "failure.payment", !.order = order.status,
                                   !.providerOrderId = po])
  /\ UNCHANGED <<orderVars, payment, qr, providerVars, lapsed, aborts>>

FailureSavesPayment(s) ==
  /\ At(s, "failure.payment")
  /\ payment' = [payment EXCEPT
                   !.status = "FAILED",
                   !.providerPaymentId = Attempt(req[s].providerOrderId, "failed")]
  /\ \/ req[s].order = "PAYMENT_PENDING" /\ Goto(s, "failure.order")
     \/ req[s].order # "PAYMENT_PENDING" /\ Respond(s)
  /\ UNCHANGED <<orderVars, qr, providerVars, lapsed, aborts>>

FailureSavesOrder(s) ==
  /\ At(s, "failure.order")
  /\ setStatus("PAYMENT_FAILED", {})
  /\ recordOrderTransition("PAYMENT_PENDING", "PAYMENT_FAILED")
  /\ Respond(s)
  /\ UNCHANGED <<payment, qr, providerVars, lapsed, aborts>>

recordPaymentFailure(s) == FailureSavesPayment(s) \/ FailureSavesOrder(s)

------------------------------------------------------------------------------
(* refundOrder, reached from the manager's updateOrderStatus *)

(* Mutant of Refundable: any payment will do. *)
RefundableAnyStatus == payment.status # "NO ROW"

Refundable == payment.status = "SUCCESS" /\ payment.providerPaymentId # NoAttempt

RefundReadsPayment(s) ==
  /\ At(s, "refund.payment")
  /\ \/ ~ Refundable /\ Respond(s)
     \/ /\ Refundable
        /\ Continue(s, [req[s] EXCEPT !.pc = "refund.provider",
                          !.providerOrderId = payment.providerPaymentId.of])
  /\ UNCHANGED <<orderVars, payment, qr, providerVars, lapsed, aborts>>

(* The whole amount is returned once.  That the provider refuses a second  *)
(* time is assumed of Razorpay, not checked by the code: the call rejects  *)
(* and the request ends with an error.                                     *)
RefundAtProvider(s) ==
  /\ At(s, "refund.provider")
  /\ req[s].providerOrderId \notin refunded
  /\ refunded' = refunded \cup {req[s].providerOrderId}
  /\ Goto(s, "refund.save")
  /\ UNCHANGED <<orderVars, payment, qr, offered, captured, declined, lapsed, aborts>>

RefundRefused(s) ==
  /\ At(s, "refund.provider")
  /\ req[s].providerOrderId \in refunded
  /\ Respond(s)
  /\ UNCHANGED <<orderVars, payment, qr, providerVars, lapsed, aborts>>

RefundSavesPayment(s) ==
  /\ At(s, "refund.save")
  /\ payment' = [payment EXCEPT !.status = "REFUNDED"]
  /\ Goto(s, "refund.order")
  /\ UNCHANGED <<orderVars, qr, providerVars, lapsed, aborts>>

(* Mutant of RefundSavesOrder: the status the manager asked for is used,   *)
(* which a refund does not carry.                                          *)
RefundSavesRequested(s) ==
  /\ At(s, "refund.order")
  /\ setStatus(req[s].nextStatus, {})
  /\ recordOrderTransition(req[s].order, "REFUNDED")
  /\ Respond(s)
  /\ UNCHANGED <<payment, qr, providerVars, lapsed, aborts>>

RefundSavesOrder(s) ==
  /\ At(s, "refund.order")
  /\ setStatus("REFUNDED", {})
  /\ recordOrderTransition(req[s].order, "REFUNDED")
  /\ Respond(s)
  /\ UNCHANGED <<payment, qr, providerVars, lapsed, aborts>>

refundOrder(s) ==
  RefundReadsPayment(s) \/ RefundAtProvider(s) \/ RefundRefused(s)
    \/ RefundSavesPayment(s) \/ RefundSavesOrder(s)

------------------------------------------------------------------------------
(* The customer at the provider's checkout, with any provider order the    *)
(* client was handed.  An attempt is declined before another succeeds.     *)

CustomerPays ==
  /\ \E po \in offered \ captured : captured' = captured \cup {po}
  /\ UNCHANGED <<orderVars, payment, qr, offered, declined, refunded, lapsed, req, aborts>>

AttemptDeclined ==
  /\ "failure" \in Operations
  /\ \E po \in offered \ (captured \cup declined) : declined' = declined \cup {po}
  /\ UNCHANGED <<orderVars, payment, qr, offered, captured, refunded, lapsed, req, aborts>>

==============================================================================
