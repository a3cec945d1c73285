-------------------------- MODULE CanteenRequirements --------------------------
(***************************************************************************)
(* What the backend owes its customers and its accounts, stated over       *)
(* CanteenSystem.  The first group holds whatever interleaves and whatever *)
(* is cut short; the second holds while requests do not overlap and none   *)
(* is cut short; the third is promised by the documentation and refuted.   *)
(***************************************************************************)
EXTENDS CanteenSystem

(* An order's milestones happen in one order, across every handler that    *)
(* writes one: nothing is completed that was not acknowledged by a scan,   *)
(* nothing is acknowledged that was not given a QR, and no QR is given for *)
(* which the provider has not taken money (README.md:141-145).  Handlers   *)
(* decide on snapshots and write without a guard (OrderRepository          *)
(* .updateStatus), so each link has to survive every interleaving.         *)
MilestonesInOrder ==
  /\ "completedAt" \in order.milestones => "confirmedAt" \in order.milestones
  /\ "confirmedAt" \in order.milestones => "qrGeneratedAt" \in order.milestones
  /\ "qrGeneratedAt" \in order.milestones => captured # {}
  /\ "paidAt" \in order.milestones => captured # {}

(* The kitchen works on, finishes and hears complaints about orders whose  *)
(* customer has shown a token, whatever stale status a manager, a sweep or *)
(* a complaint acted on.                                                   *)
FulfilmentIsAcknowledged ==
  order.status \in Fulfilment \cup {"ISSUE_REPORTED"} =>
    "confirmedAt" \in order.milestones /\ qr.status # "NO ROW"

(* The books never run ahead of the provider: a payment in SUCCESS names   *)
(* the attempt that took the money (the one refundOrder will hand back),   *)
(* money is returned only where it was taken, and a payment or an order is *)
(* REFUNDED only after money went back.                                    *)
BooksFollowProvider ==
  /\ payment.status = "SUCCESS" =>
       /\ payment.providerPaymentId.outcome = "captured"
       /\ payment.providerPaymentId.of \in captured
  /\ refunded \subseteq captured
  /\ payment.status = "REFUNDED" \/ order.status = "REFUNDED" => refunded # {}

(* Nobody can pay where no row would record it: a provider order is handed *)
(* out only once the order has a payment row, whichever of overlapping     *)
(* initiations is refused its create or cut short after the provider       *)
(* opened an order (payment.service.ts:50-99).                             *)
OffersAreRecorded == offered # {} => payment.status # "NO ROW"

(* "QR scan means customer present and order acknowledged" (README.md:142):*)
(* a consumed token cannot be shown again, so its order was confirmed or a *)
(* request is about to confirm it.  A scan that is cut short breaks this.  *)
ScanMeansAcknowledged ==
  qr.status = "USED" =>
    "confirmedAt" \in order.milestones \/ \E s \in Slots : At(s, "scan.confirm")

(* Scans, sweeps, renewals and managers may write both rows between the    *)
(* two writes of a scan (qr.service.ts:96 and 102): the second is not      *)
(* lost to any of them, only to a request that is cut short.               *)
OverlapKeepsAcknowledgement == aborts = 0 => ScanMeansAcknowledged

(* The milestones seen from outside: the whole system implements           *)
(* MealPromise, so besides their order no milestone is ever taken back,    *)
(* though every handler rewrites the row.                                  *)
Promise == INSTANCE MealPromise WITH
  paid <- captured # {},
  issued <- "qrGeneratedAt" \in order.milestones,
  acknowledged <- "confirmedAt" \in order.milestones,
  completed <- "completedAt" \in order.milestones

KeepsMealPromise == Promise!Spec

(* A token that was used, or that expired, never becomes good again, even  *)
(* when payment successes and sweeps overlap with the scan: the row is     *)
(* renewed under another nonce only (crypto.randomUUID, qr.service.ts:25). *)
SpentStaysSpent ==
  [][qr.status \in {"USED", "EXPIRED"} /\ qr'.status = "ACTIVE"
       => qr'.nonce # qr.nonce]_vars

------------------------------------------------------------------------------
(* While requests do not overlap and none is cut short. *)

Quiet == \A s \in Slots : At(s, "idle")

(* The two rows that carry the QR agree between requests: an order waiting *)
(* for its scan has an ACTIVE token with the expiry the order shows, and   *)
(* an order sent to the counter by a scan has no ACTIVE one.  Five         *)
(* handlers write one row and then the other (payment success, scan,       *)
(* expiry, sweep, refund).                                                 *)
TokenFollowsOrder ==
  Quiet =>
    /\ order.status = "QR_GENERATED" =>
         qr.status = "ACTIVE" /\ order.expiresAt = qr.nonce
    /\ order.status \in Fulfilment => qr.status = "USED"

(* A customer is charged once for an order, on the provider order that the *)
(* payment row names: the outcome of any other one could not be found any  *)
(* more (handleWebhook answers 404), however often payment is initiated    *)
(* and whatever fails in between.                                          *)
ChargedOnceAndFindable == captured \subseteq {payment.providerOrderId}

(* A customer has the token for all of its QR_TTL_MINUTES: only a token    *)
(* whose own expiry has passed is expired.  The sweep goes by the expiry   *)
(* on the order row and expireQr does not look at the token's.             *)
NeverExpiredEarly ==
  [][qr.status = "ACTIVE" /\ qr'.status = "EXPIRED" => qr.nonce \in lapsed]_vars

(* The token seen from the counter: the handlers implement TokenLife, so   *)
(* there is one good token at a time, it is used once, expired only when   *)
(* its time is over, and a lapsed or used one is replaced and not renewed. *)
Token == INSTANCE TokenLife WITH
  Nonces <- Tokens,
  NoNonce <- None,
  status <- qr.status,
  nonce <- qr.nonce,
  over <- qr.nonce \in lapsed

KeepsTokenLife == Token!Spec

(* QR tokens are one-time use (README.md:146): a scan consumes a token     *)
(* that is still ACTIVE when it does.                                      *)
OneTimeUse ==
  [][\A s \in Slots :
       At(s, "scan.use") /\ At(s, "scan.confirm")' => qr.status = "ACTIVE"]_vars

(* Once the provider has taken the money, the customer gets a QR           *)
(* (README.md:145), although attempts fail before it and failures are      *)
(* reported after it.                                                      *)
CaptureLeadsToQr == captured # {} ~> "qrGeneratedAt" \in order.milestones

(* An order waiting for a scan does not wait for ever: once the expiry it  *)
(* shows has passed it leaves QR_GENERATED, by a scan under way or by the  *)
(* sweep.                                                                  *)
LapsedOrderMovesOn ==
  order.status = "QR_GENERATED" /\ order.expiresAt \in lapsed
    ~> order.status # "QR_GENERATED"

------------------------------------------------------------------------------
(* Promised by the documentation, refuted by a run. *)

(* A closed order stays closed: CANCELLED and REFUNDED have no way out of  *)
(* the lifecycle (order-state-machine.ts:9 and 16), whatever outcome of a  *)
(* payment is still on its way.                                            *)
ClosedStaysClosed ==
  [][order.status \in {"CANCELLED", "REFUNDED"} => order.status' = order.status]_vars

(* A payment can be initiated from the states that initiateOrderPayment    *)
(* lists (payment.service.ts:45): past that check, and with a provider     *)
(* order opened, the order's state is not refused any more.                *)
InitiatableIsInitiated ==
  [][\A s \in Slots :
       At(s, "initiate.provider") /\ aborts' = aborts => ~ At(s, "idle")']_vars

==============================================================================
