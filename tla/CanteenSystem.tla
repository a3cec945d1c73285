----------------------------- MODULE CanteenSystem -----------------------------
(***************************************************************************)
(* The backend: the requests of the payment service, of the QR service and *)
(* of the order desk over the same rows, the customer at the provider's    *)
(* checkout, the clocks, and what may cut a request short.  The replicas   *)
(* share nothing but these rows, so a request of another replica and a     *)
(* request of the same process interleave in the same way.                 *)
(***************************************************************************)
EXTENDS OrderDesk

RowsOK ==
  /\ order \in OrderRow
  /\ stale \in BOOLEAN
  /\ audit \in [previousState : OrderStatus \cup {"NO ROW"},
                newState : OrderStatus \cup {"NO ROW"}]
  /\ payment \in PaymentRow
  /\ qr \in QRRow
  /\ offered \subseteq ProviderOrders
  /\ captured \subseteq offered
  /\ declined \subseteq offered
  /\ refunded \subseteq ProviderOrders
  /\ lapsed \subseteq Tokens
  /\ aborts \in 0..MaxAborts

TypeOK == RowsOK /\ req \in [Slots -> Request]

(* CustomerService.createOrder has created the order. *)
Init ==
  /\ order = [status |-> "CREATED", milestones |-> {}, expiresAt |-> None]
  /\ stale = FALSE
  /\ audit = [previousState |-> "NO ROW", newState |-> "NO ROW"]
  /\ payment = NoPayment
  /\ qr = NoQR
  /\ offered = {} /\ captured = {} /\ declined = {} /\ refunded = {}
  /\ lapsed = {}
  /\ req = [s \in Slots |-> Idle]
  /\ aborts = 0

------------------------------------------------------------------------------
(* The clocks. *)

(* A token's expiry passes.  Only tokens some row still names matter. *)
TtlElapses ==
  /\ \E t \in ({qr.nonce, order.expiresAt} \ {None}) \ lapsed : lapsed' = lapsed \cup {t}
  /\ UNCHANGED <<orderVars, payment, qr, providerVars, req, aborts>>

(* Staleness is asked of CONFIRMED and PREPARING orders only. *)
OrderSitsIdle ==
  /\ "sweep" \in Operations
  /\ order.status \in {"CONFIRMED", "PREPARING"}
  /\ ~ stale
  /\ stale' = TRUE
  /\ UNCHANGED <<order, audit, payment, qr, providerVars, lapsed, req, aborts>>

(* A crash of the replica, or an await that rejects (PostgreSQL, Redis or  *)
(* the provider): the request ends where it is, what it wrote stays.       *)
Abort(s) ==
  /\ ~ At(s, "idle")
  /\ aborts < MaxAborts
  /\ aborts' = aborts + 1
  /\ Respond(s)
  /\ UNCHANGED <<orderVars, payment, qr, providerVars, lapsed>>

------------------------------------------------------------------------------
Arrival(s) ==
  \/ InitiateStarts(s) \/ SuccessStarts(s) \/ FailureStarts(s) \/ ScanStarts(s)
  \/ UpdateStarts(s) \/ RefundStarts(s) \/ SweepStarts(s) \/ ReportStarts(s)

(* The next step of a request in progress. *)
Proceed(s) ==
  \/ initiateOrderPayment(s) \/ recordPaymentSuccess(s) \/ recordPaymentFailure(s)
  \/ validateAndConsume(s) \/ expireQr(s)
  \/ updateOrderStatus(s) \/ syncOperationalStates(s) \/ reportIssue(s)

Environment == CustomerPays \/ AttemptDeclined \/ TtlElapses \/ OrderSitsIdle

Next == Environment \/ \E s \in Slots : Arrival(s) \/ Proceed(s) \/ Abort(s)

Spec == Init /\ [][Next]_vars

(* A request in progress is run to its end; the provider delivers a        *)
(* success until it is accepted, and managers keep listing orders.  A      *)
(* busy slot is a bound of the model, not of the code: strong fairness.    *)
(* Nothing is asked of customers, of scans or of a manager's decisions.    *)
Fairness ==
  /\ \A s \in Slots : WF_vars(Proceed(s))
  /\ SF_vars(\E s \in Slots : SuccessStarts(s))
  /\ SF_vars(\E s \in Slots : SweepStarts(s))

FairSpec == Spec /\ Fairness
==============================================================================
