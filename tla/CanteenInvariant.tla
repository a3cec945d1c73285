--------------------------- MODULE CanteenInvariant ---------------------------
(***************************************************************************)
(* The inductive invariant behind the requirements that hold under every   *)
(* interleaving.  What a request read may be long out of date when it      *)
(* writes; the invariant says what is nevertheless still true of it,       *)
(* because none of the facts below is ever undone.                         *)
(***************************************************************************)
EXTENDS CanteenRequirements

(* Facts about the rows and the provider that no step takes back. *)
Paid == captured # {}
Returned == refunded # {}
Issued == "qrGeneratedAt" \in order.milestones
Acknowledged == "confirmedAt" \in order.milestones
HasToken == qr.status # "NO ROW"
HasPayment == payment.status # "NO ROW"

(* What the pending write of a request rests on. *)
Backed(s) ==
  /\ req[s].pc \in {"initiate.pending", "initiate.save", "initiate.reply"} =>
       req[s].providerOrderId \in ProviderOrders
  /\ req[s].pc \in {"initiate.reply", "success.payment", "failure.payment",
                    "refund.provider", "refund.save"} => HasPayment
  /\ req[s].pc \in {"success.payment", "success.paid", "generate.find", "generate.save",
                    "success.issue"} => Paid
  /\ req[s].pc = "success.payment" => req[s].providerOrderId \in captured
  /\ req[s].pc = "success.issue" => HasToken
  /\ req[s].pc = "refund.provider" => req[s].providerOrderId \in captured
  /\ req[s].pc \in {"refund.save", "refund.order"} => Returned
  /\ req[s].pc \in {"scan.use", "scan.confirm"} => Issued
  /\ req[s].pc \in {"sweep.save", "report.save"} => Acknowledged
  /\ req[s].pc = "manager.save" =>
       /\ req[s].nextStatus \in {"PREPARING", "READY", "COMPLETED", "CANCELLED"}
       /\ req[s].nextStatus # "CANCELLED" => Acknowledged

(* What the rows rest on. *)
RowsBacked ==
  /\ MilestonesInOrder
  /\ FulfilmentIsAcknowledged
  /\ BooksFollowProvider
  /\ OffersAreRecorded
  /\ HasPayment <=> payment.providerOrderId \in ProviderOrders
  /\ Issued => HasToken
  /\ order.status = "QR_GENERATED" => Issued

IInv == RowsBacked /\ \A s \in Slots : Backed(s)

------------------------------------------------------------------------------
(* Nonces, whatever interleaves: one that was drawn and is still to be     *)
(* saved is shown by no row, has not lapsed, and is held by no other       *)
(* request, so saving it never makes a spent token good again.             *)
NoncesApart ==
  /\ qr.status = "NO ROW" => qr.nonce = None
  /\ \A s \in Slots : At(s, "generate.save") =>
       /\ req[s].nonce \in Tokens \ (lapsed \cup {qr.nonce, order.expiresAt})
       /\ \A t \in Slots \ {s} : req[t].nonce # req[s].nonce

------------------------------------------------------------------------------
(* While requests do not overlap and none is cut short.                    *)

OneAtATime == \E s : Slots = {s}
Sequential == OneAtATime /\ MaxAborts = 0

(* The row of the token and the row of the order agree ... *)
RowsAgree ==
  /\ order.status = "QR_GENERATED" => qr.status = "ACTIVE" /\ order.expiresAt = qr.nonce
  /\ order.status \in Fulfilment => qr.status = "USED"

(* ... except between the two writes of the request that changes both, and *)
(* what a request has read of them is still true when it writes.           *)
TokenPlace(s) ==
  /\ req[s].pc \notin {"success.issue", "scan.confirm", "expire.order"} => RowsAgree
  /\ At(s, "generate.save") => qr.status # "ACTIVE"
  /\ At(s, "success.issue") => qr.status = "ACTIVE" /\ qr.nonce = req[s].nonce
  /\ At(s, "scan.use") => qr.status = "ACTIVE" /\ order.status = "QR_GENERATED"
  /\ At(s, "scan.confirm") => qr.status = "USED"
  /\ At(s, "expire.find") => qr.nonce \in lapsed
  /\ At(s, "expire.save") =>
       qr.status = "ACTIVE" /\ qr.nonce \in lapsed /\ req[s].order = order.status
  /\ At(s, "manager.save") =>
       /\ req[s].nextStatus \in ManagerStatus
       /\ assertValidTransition(order.status, req[s].nextStatus)
  /\ At(s, "sweep.save") => order.status \in {"CONFIRMED", "PREPARING"}

(* An order waits for its first payment without a payment row, and for the *)
(* outcome of a payment with a PENDING one. *)
PaymentKeepsUp ==
  /\ order.status = "CREATED" => payment.status = "NO ROW"
  /\ order.status = "PAYMENT_PENDING" => payment.status = "PENDING"

(* No provider order was handed out but the one of the row, and a request  *)
(* that is about to put another one there has found no row to replace.     *)
PaymentPlace(s) ==
  /\ offered \subseteq {payment.providerOrderId}
  /\ req[s].pc \notin {"initiate.save", "success.paid", "failure.order"} => PaymentKeepsUp
  /\ req[s].pc \in {"initiate.key", "initiate.existing", "initiate.provider",
                    "success.payment", "failure.payment"} => req[s].order = order.status
  /\ At(s, "initiate.provider") => payment.status \notin reusablePaymentStates
  /\ req[s].pc \in {"initiate.pending", "initiate.save"} => payment.status = "NO ROW"
  /\ At(s, "initiate.save") => order.status = "PAYMENT_PENDING"
  /\ At(s, "initiate.reply") => payment.providerOrderId = req[s].providerOrderId
  /\ req[s].pc \in {"refund.provider", "refund.save"} => payment.status = "SUCCESS"

SequentialInv == \A s \in Slots : TokenPlace(s) /\ PaymentPlace(s)

==============================================================================
