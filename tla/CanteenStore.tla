----------------------------- MODULE CanteenStore -----------------------------
(***************************************************************************)
(* What the handlers of the backend share: the rows of one order (Order,   *)
(* Payment and QRToken of prisma/schema.prisma), the last order transition *)
(* written to AuditLog, the account the payment provider keeps, the        *)
(* clocks, and the requests in progress.                                   *)
(*                                                                         *)
(* Every handler works on one order id, so the rows of one order are the   *)
(* whole state it reads or writes.  A request is cut at its awaits: what   *)
(* one action does is one database statement (updateStatus is one          *)
(* transaction) with the synchronous code up to the next await.  Between   *)
(* two actions any other request may run, and what a request read earlier  *)
(* stays in its record until it is used.                                   *)
(***************************************************************************)
EXTENDS OrderStateMachine, Naturals, FiniteSets

CONSTANTS
  Slots,           \* requests that can be in progress at the same time
  ProviderOrders,  \* ids the payment provider gives to its orders
  Tokens,          \* nonces of QR tokens
  None,            \* a null column
  MaxAborts,       \* bound on requests cut short by a crash or an I/O error
  Operations       \* the operations this instance receives

AllOperations ==
  {"initiate", "success", "failure", "refund", "manager", "scan", "sweep", "report"}

ASSUME StoreAssumption ==
  /\ None \notin ProviderOrders \cup Tokens
  /\ MaxAborts \in Nat
  /\ Operations \subseteq AllOperations

VARIABLES
  order,      \* the Order row: status, the milestone columns that are set, expiresAt
  stale,      \* updatedAt is older than ORDER_DELAY_MINUTES
  audit,      \* previousState and newState of the last recordOrderTransition
  payment,    \* the Payment row
  qr,         \* the QRToken row
  offered,    \* provider orders a client has been handed
  captured,   \* provider orders whose money the provider has taken
  declined,   \* provider orders with a failed payment attempt
  refunded,   \* provider orders whose money the provider has returned
  lapsed,     \* tokens whose QR_TTL_MINUTES are over
  req,        \* what each request in progress has read, and where it waits
  aborts      \* requests cut short so far

orderVars == <<order, stale, audit>>
providerVars == <<offered, captured, declined, refunded>>
vars == <<orderVars, payment, qr, providerVars, lapsed, req, aborts>>

------------------------------------------------------------------------------
(* Rows. *)

Milestones == {"paidAt", "qrGeneratedAt", "confirmedAt", "completedAt"}

(* A token is named by its nonce; order.expiresAt is the expiry of a token. *)
OrderRow ==
  [status : OrderStatus, milestones : SUBSET Milestones, expiresAt : Tokens \cup {None}]

PaymentStatus == {"CREATED", "PENDING", "SUCCESS", "FAILED", "REFUNDED"}

(* providerPaymentId: the attempt on a provider order that the column names. *)
NoAttempt == [of |-> None, outcome |-> "none"]
Attempt(po, outcome) == [of |-> po, outcome |-> outcome]

PaymentRow ==
  [status : PaymentStatus \cup {"NO ROW"},
   providerOrderId : ProviderOrders \cup {None},
   providerPaymentId : [of : ProviderOrders \cup {None},
                        outcome : {"none", "captured", "failed"}]]

NoPayment ==
  [status |-> "NO ROW", providerOrderId |-> None, providerPaymentId |-> NoAttempt]

QRStatus == {"ACTIVE", "USED", "EXPIRED", "CANCELLED"}
QRRow == [status : QRStatus \cup {"NO ROW"}, nonce : Tokens \cup {None}]
NoQR == [status |-> "NO ROW", nonce |-> None]

(* Mutant of updateStatus: the columns it is not given are cleared.        *)
updateStatusReplacing(status, milestones, expiresAt) ==
  /\ order' = [status |-> status, milestones |-> milestones, expiresAt |-> expiresAt]
  /\ stale' = FALSE

(* OrderRepository.updateStatus: the update matches the row by id alone.   *)
(* updatedAt moves, so the row is no longer stale.                         *)
updateStatus(status, milestones, expiresAt) ==
  /\ order' = [status |-> status, milestones |-> order.milestones \cup milestones,
                expiresAt |-> expiresAt]
  /\ stale' = FALSE

(* AuditService.recordOrderTransition.  No service reads the log back, so  *)
(* the insert is taken together with the status update it follows.         *)
recordOrderTransition(previousState, newState) ==
  audit' = [previousState |-> previousState, newState |-> newState]

------------------------------------------------------------------------------
(* Requests. *)

PC ==
  {"idle",
   "initiate.key", "initiate.existing", "initiate.provider", "initiate.pending",
   "initiate.save", "initiate.reply",
   "success.payment", "success.paid", "generate.find", "generate.save", "success.issue",
   "failure.payment", "failure.order",
   "refund.payment", "refund.provider", "refund.save", "refund.order",
   "manager.save", "report.save",
   "scan.find", "scan.use", "scan.confirm",
   "expire.find", "expire.save", "expire.order",
   "sweep.delayed", "sweep.save"}

Request ==
  [pc : PC,
   order : OrderStatus \cup {"NO ROW"},       \* order.status as it was read
   existing : BOOLEAN,                        \* a row to update was found
   providerOrderId : ProviderOrders \cup {None},
   nonce : Tokens \cup {None},
   nextStatus : OrderStatus \cup {"NO ROW"},  \* what the manager asked for
   return : {"idle", "sweep.delayed"}]        \* where expireQr returns to

Idle ==
  [pc |-> "idle", order |-> "NO ROW", existing |-> FALSE, providerOrderId |-> None,
   nonce |-> None, nextStatus |-> "NO ROW", return |-> "idle"]

At(s, pc) == req[s].pc = pc
Goto(s, pc) == req' = [req EXCEPT ![s].pc = pc]
Continue(s, r) == req' = [req EXCEPT ![s] = r]
Respond(s) == Continue(s, Idle)

(* A request of an operation arrives at a replica. *)
Arrives(s, operation) == operation \in Operations /\ req[s] = Idle

(* Ids are recycled: an id is fresh when no row, request or client holds it. *)
FreshTokens ==
  Tokens \ ({qr.nonce, order.expiresAt} \cup {req[s].nonce : s \in Slots})
FreshProviderOrders ==
  ProviderOrders \ (offered \cup {payment.providerOrderId}
                            \cup {req[s].providerOrderId : s \in Slots})

==============================================================================
