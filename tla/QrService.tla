------------------------------ MODULE QrService ------------------------------
(***************************************************************************)
(* services/shared/qr.service.ts: the QR token of an order is issued once  *)
(* it is paid, consumed by a scan at the counter, or expired.              *)
(***************************************************************************)
EXTENDS CanteenStore

(* Writes of the order row that leave expiresAt alone. *)
setStatus(status, milestones) == updateStatus(status, milestones, order.expiresAt)

------------------------------------------------------------------------------
(* generateForPaidOrder, called by the two payment success handlers.       *)

(* Mutant of GenerateDrawsNonce: a row that is renewed keeps its nonce. *)
GenerateKeepsNonce(s) ==
  /\ At(s, "generate.find")
  /\ qr.status # "ACTIVE"
  /\ \E t \in IF qr.status = "NO ROW" THEN FreshTokens ELSE {qr.nonce} :
       /\ Continue(s, [req[s] EXCEPT !.pc = "generate.save", !.nonce = t,
                                     !.existing = (qr.status # "NO ROW")])
       /\ lapsed' = lapsed \ {t}
  /\ UNCHANGED <<orderVars, payment, qr, providerVars, aborts>>

(* The token row is read.  An ACTIVE one is returned as it is; otherwise a *)
(* nonce and an expiry are drawn, and the row will be updated if there was *)
(* one and created if not.                                                 *)
GenerateReturnsActive(s) ==
  /\ At(s, "generate.find")
  /\ qr.status = "ACTIVE"
  /\ Continue(s, [req[s] EXCEPT !.pc = "success.issue", !.nonce = qr.nonce])
  /\ UNCHANGED <<orderVars, payment, qr, providerVars, lapsed, aborts>>

GenerateDrawsNonce(s) ==
  /\ At(s, "generate.find")
  /\ qr.status # "ACTIVE"
  /\ \E t \in FreshTokens :
       /\ Continue(s, [req[s] EXCEPT !.pc = "generate.save", !.nonce = t,
                                     !.existing = (qr.status # "NO ROW")])
       /\ lapsed' = lapsed \ {t}
  /\ UNCHANGED <<orderVars, payment, qr, providerVars, aborts>>

GenerateSaves(s) ==
  /\ At(s, "generate.save")
  /\ req[s].existing \/ qr.status = "NO ROW"
  /\ qr' = [status |-> "ACTIVE", nonce |-> req[s].nonce]
  /\ Goto(s, "success.issue")
  /\ UNCHANGED <<orderVars, payment, providerVars, lapsed, aborts>>

(* QRToken.orderId is unique: of two requests that saw no row, the second  *)
(* create is refused and its request ends with an error.                   *)
GenerateCreateRefused(s) ==
  /\ At(s, "generate.save")
  /\ ~ req[s].existing
  /\ qr.status # "NO ROW"
  /\ Respond(s)
  /\ UNCHANGED <<orderVars, payment, qr, providerVars, lapsed, aborts>>

generateForPaidOrder(s) ==
  GenerateReturnsActive(s) \/ GenerateDrawsNonce(s) \/ GenerateSaves(s)
    \/ GenerateCreateRefused(s)

------------------------------------------------------------------------------
(* expireQr, called by a scan and by the sweep: it returns to its caller.  *)

ExpireReturns(s) == Continue(s, [Idle EXCEPT !.pc = req[s].return])

ExpireFinds(s) ==
  /\ At(s, "expire.find")
  /\ \/ qr.status # "ACTIVE" /\ ExpireReturns(s)
     \/ /\ qr.status = "ACTIVE"
        /\ Continue(s, [req[s] EXCEPT !.pc = "expire.save", !.order = order.status])
  /\ UNCHANGED <<orderVars, payment, qr, providerVars, lapsed, aborts>>

(* Mutant of ExpireSaves: the order row is forgotten. *)
ExpireSavesTokenOnly(s) ==
  /\ At(s, "expire.save")
  /\ qr' = [qr EXCEPT !.status = "EXPIRED"]
  /\ ExpireReturns(s)
  /\ UNCHANGED <<orderVars, payment, providerVars, lapsed, aborts>>

ExpireSaves(s) ==
  /\ At(s, "expire.save")
  /\ qr' = [qr EXCEPT !.status = "EXPIRED"]
  /\ \/ req[s].order = "QR_GENERATED" /\ Goto(s, "expire.order")
     \/ req[s].order # "QR_GENERATED" /\ ExpireReturns(s)
  /\ UNCHANGED <<orderVars, payment, providerVars, lapsed, aborts>>

ExpireSavesOrder(s) ==
  /\ At(s, "expire.order")
  /\ setStatus("EXPIRED", {})
  /\ recordOrderTransition("QR_GENERATED", "EXPIRED")
  /\ ExpireReturns(s)
  /\ UNCHANGED <<payment, qr, providerVars, lapsed, aborts>>

expireQr(s) == ExpireFinds(s) \/ ExpireSaves(s) \/ ExpireSavesOrder(s)

------------------------------------------------------------------------------
(* validateAndConsume.  The manager presents the token the customer shows. *)

(* verifyQrToken refuses a lapsed token.  A token that is no longer ACTIVE *)
(* never becomes ACTIVE again under the same nonce, so presenting it ends  *)
(* in a 409 and such a request is left out.                                *)
ScanStarts(s) ==
  /\ Arrives(s, "scan")
  /\ qr.status = "ACTIVE"
  /\ qr.nonce \notin lapsed
  /\ Continue(s, [Idle EXCEPT !.pc = "scan.find", !.nonce = qr.nonce])
  /\ UNCHANGED <<orderVars, payment, qr, providerVars, lapsed, aborts>>

Presented(s) == qr.status = "ACTIVE" /\ qr.nonce = req[s].nonce

ScanRefused(s) ==
  /\ At(s, "scan.find")
  /\ \/ ~ Presented(s)
     \/ /\ qr.nonce \notin lapsed
        /\ ~ assertValidTransition(order.status, "CONFIRMED")
  /\ Respond(s)
  /\ UNCHANGED <<orderVars, payment, qr, providerVars, lapsed, aborts>>

(* The token lapsed after verifyQrToken accepted it. *)
ScanFindsLapsed(s) ==
  /\ At(s, "scan.find")
  /\ Presented(s)
  /\ qr.nonce \in lapsed
  /\ Continue(s, [Idle EXCEPT !.pc = "expire.find"])
  /\ UNCHANGED <<orderVars, payment, qr, providerVars, lapsed, aborts>>

ScanAccepted(s) ==
  /\ At(s, "scan.find")
  /\ Presented(s)
  /\ qr.nonce \notin lapsed
  /\ assertValidTransition(order.status, "CONFIRMED")
  /\ Continue(s, [Idle EXCEPT !.pc = "scan.use", !.order = order.status])
  /\ UNCHANGED <<orderVars, payment, qr, providerVars, lapsed, aborts>>

(* The row is updated by its id, whatever it holds by now. *)
ScanUsesToken(s) ==
  /\ At(s, "scan.use")
  /\ qr' = [qr EXCEPT !.status = "USED"]
  /\ Goto(s, "scan.confirm")
  /\ UNCHANGED <<orderVars, payment, providerVars, lapsed, aborts>>

(* Mutant of ScanConfirmsOrder: an order that has moved on since it was    *)
(* read is not confirmed.                                                  *)
ScanConfirmsUnmoved(s) ==
  /\ At(s, "scan.confirm")
  /\ \/ /\ order.status = req[s].order
        /\ setStatus("CONFIRMED", {"confirmedAt"})
        /\ recordOrderTransition(req[s].order, "CONFIRMED")
     \/ order.status # req[s].order /\ UNCHANGED orderVars
  /\ Respond(s)
  /\ UNCHANGED <<payment, qr, providerVars, lapsed, aborts>>

ScanConfirmsOrder(s) ==
  /\ At(s, "scan.confirm")
  /\ setStatus("CONFIRMED", {"confirmedAt"})
  /\ recordOrderTransition(req[s].order, "CONFIRMED")
  /\ Respond(s)
  /\ UNCHANGED <<payment, qr, providerVars, lapsed, aborts>>

validateAndConsume(s) ==
  ScanRefused(s) \/ ScanFindsLapsed(s) \/ ScanAccepted(s) \/ ScanUsesToken(s)
    \/ ScanConfirmsOrder(s)

==============================================================================
