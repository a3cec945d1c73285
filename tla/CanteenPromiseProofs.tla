------------------------- MODULE CanteenPromiseProofs -------------------------
(***************************************************************************)
(* The whole system implements MealPromise.  Four actions can be seen from *)
(* outside: the customer pays, the success handler issues the order, a     *)
(* scan acknowledges it and the manager completes it.  Each may find its   *)
(* milestone set already, which is a stutter; that the milestone before it *)
(* is set is what the invariant says of the request's pending write.       *)
(***************************************************************************)
EXTENDS CanteenProofs

(* A step that leaves the money and the three later milestones as they     *)
(* were cannot be seen.                                                    *)
LEMMA Unseen ==
  ASSUME captured' = captured,
         \A m \in {"qrGeneratedAt", "confirmedAt", "completedAt"} :
           m \in order'.milestones <=> m \in order.milestones
  PROVE  UNCHANGED Promise!promise
  BY DEF Promise!promise

(* Nor a status update that sets none of the three.                        *)
LEMMA UnseenWrite ==
  ASSUME NEW status, NEW milestones \in {{}, {"paidAt"}}, NEW expiresAt,
         updateStatus(status, milestones, expiresAt), captured' = captured
  PROVE  UNCHANGED Promise!promise
<1>1. order'.milestones = order.milestones \cup milestones
  BY DEF updateStatus
<1> QED
  BY <1>1, Unseen

LEMMA UnseenRead ==
  ASSUME UNCHANGED <<order, captured>>
  PROVE  UNCHANGED Promise!promise
  BY Unseen

------------------------------------------------------------------------------
LEMMA ArrivalUnseen ==
  ASSUME NEW s \in Slots, Arrival(s) \/ Abort(s)
  PROVE  UNCHANGED Promise!promise
  BY UnseenRead DEF Arrival, Abort, InitiateStarts, SuccessStarts, FailureStarts, ScanStarts,
     UpdateStarts, RefundStarts, SweepStarts, ReportStarts, orderVars, providerVars

LEMMA InitiateUnseen ==
  ASSUME NEW s \in Slots, initiateOrderPayment(s)
  PROVE  UNCHANGED Promise!promise
<1>1. CASE InitiateMarksPending(s)
  BY <1>1, UnseenWrite DEF InitiateMarksPending, setStatus, providerVars
<1>2. CASE ~ InitiateMarksPending(s)
  <2>1. UNCHANGED <<order, captured>>
    BY <1>2 DEF initiateOrderPayment, InitiateFindsKey, InitiateKeyIsNew,
       InitiateReusesPayment, InitiateChecksOrder, InitiateOpensProviderOrder,
       InitiateSavesPayment, InitiateCreateRefused, InitiateReplies, Offer, orderVars,
       providerVars
  <2> QED
    BY <2>1, UnseenRead
<1> QED
  BY <1>1, <1>2

LEMMA GenerateAndExpireUnseen ==
  ASSUME NEW s \in Slots, generateForPaidOrder(s) \/ expireQr(s)
  PROVE  UNCHANGED Promise!promise
<1>1. CASE ExpireSavesOrder(s)
  BY <1>1, UnseenWrite DEF ExpireSavesOrder, setStatus, providerVars
<1>2. CASE ~ ExpireSavesOrder(s)
  <2>1. UNCHANGED <<order, captured>>
    BY <1>2 DEF generateForPaidOrder, expireQr, GenerateReturnsActive, GenerateDrawsNonce,
       GenerateSaves, GenerateCreateRefused, ExpireFinds, ExpireSaves, orderVars,
       providerVars
  <2> QED
    BY <2>1, UnseenRead
<1> QED
  BY <1>1, <1>2

LEMMA FailureUnseen ==
  ASSUME NEW s \in Slots, recordPaymentFailure(s)
  PROVE  UNCHANGED Promise!promise
<1>1. CASE FailureSavesPayment(s)
  BY <1>1, UnseenRead DEF FailureSavesPayment, orderVars, providerVars
<1>2. CASE FailureSavesOrder(s)
  BY <1>2, UnseenWrite DEF FailureSavesOrder, setStatus, providerVars
<1> QED
  BY <1>1, <1>2 DEF recordPaymentFailure

LEMMA RefundUnseen ==
  ASSUME NEW s \in Slots, refundOrder(s)
  PROVE  UNCHANGED Promise!promise
<1>1. CASE RefundSavesOrder(s)
  BY <1>1, UnseenWrite DEF RefundSavesOrder, setStatus, providerVars
<1>2. CASE ~ RefundSavesOrder(s)
  <2>1. UNCHANGED <<order, captured>>
    BY <1>2 DEF refundOrder, RefundReadsPayment, RefundAtProvider, RefundRefused,
       RefundSavesPayment, orderVars, providerVars
  <2> QED
    BY <2>1, UnseenRead
<1> QED
  BY <1>1, <1>2

LEMMA SweepAndReportUnseen ==
  ASSUME NEW s \in Slots, syncOperationalStates(s) \/ reportIssue(s)
  PROVE  UNCHANGED Promise!promise
<1>1. CASE SweepSavesOrder(s) \/ ReportSavesOrder(s)
  BY <1>1, UnseenWrite DEF SweepSavesOrder, ReportSavesOrder, setStatus, providerVars
<1>2. CASE SweepFindsDelayed(s)
  BY <1>2, UnseenRead DEF SweepFindsDelayed, orderVars, providerVars
<1> QED
  BY <1>1, <1>2 DEF syncOperationalStates, reportIssue

------------------------------------------------------------------------------
(* The handlers with a step that can be seen. *)

LEMMA SuccessPromised ==
  ASSUME TypeOK, IInv, NEW s \in Slots, recordPaymentSuccess(s)
  PROVE  [Promise!Next]_(Promise!promise)
<1>1. CASE SuccessSavesPayment(s)
  BY <1>1, UnseenRead DEF SuccessSavesPayment, orderVars, providerVars
<1>2. CASE SuccessMarksPaid(s)
  BY <1>2, UnseenWrite DEF SuccessMarksPaid, setStatus, providerVars
<1>3. CASE generateForPaidOrder(s)
  BY <1>3, GenerateAndExpireUnseen
<1>4. CASE SuccessIssuesOrder(s)
  <2>1. Paid
    BY <1>4 DEF SuccessIssuesOrder, At, IInv, Backed
  <2>2. order'.milestones = order.milestones \cup {"qrGeneratedAt"} /\ captured' = captured
    BY <1>4 DEF SuccessIssuesOrder, updateStatus, providerVars
  <2>3. CASE Issued
    BY <2>2, <2>3, Unseen DEF Issued
  <2>4. CASE ~ Issued
    <3>1. Promise!IssueQr
      BY <2>1, <2>2, <2>4 DEF Paid, Issued, Promise!IssueQr
    <3> QED
      BY <3>1 DEF Promise!Next
  <2> QED
    BY <2>3, <2>4
<1> QED
  BY <1>1, <1>2, <1>3, <1>4 DEF recordPaymentSuccess

LEMMA ScanPromised ==
  ASSUME TypeOK, IInv, NEW s \in Slots, validateAndConsume(s)
  PROVE  [Promise!Next]_(Promise!promise)
<1>1. CASE ScanConfirmsOrder(s)
  <2>1. Issued
    BY <1>1 DEF ScanConfirmsOrder, At, IInv, Backed
  <2>2. order'.milestones = order.milestones \cup {"confirmedAt"} /\ captured' = captured
    BY <1>1 DEF ScanConfirmsOrder, setStatus, updateStatus, providerVars
  <2>3. CASE Acknowledged
    BY <2>2, <2>3, Unseen DEF Acknowledged
  <2>4. CASE ~ Acknowledged
    <3>1. Promise!Acknowledge
      BY <2>1, <2>2, <2>4 DEF Issued, Acknowledged, Promise!Acknowledge
    <3> QED
      BY <3>1 DEF Promise!Next
  <2> QED
    BY <2>3, <2>4
<1>2. CASE ~ ScanConfirmsOrder(s)
  <2>1. UNCHANGED <<order, captured>>
    BY <1>2 DEF validateAndConsume, ScanRefused, ScanFindsLapsed, ScanAccepted,
       ScanUsesToken, orderVars, providerVars
  <2> QED
    BY <2>1, UnseenRead
<1> QED
  BY <1>1, <1>2

LEMMA UpdatePromised ==
  ASSUME TypeOK, IInv, NEW s \in Slots, updateOrderStatus(s)
  PROVE  [Promise!Next]_(Promise!promise)
<1>1. CASE UpdateSavesOrder(s) /\ req[s].nextStatus = "COMPLETED"
  <2>1. Acknowledged
    BY <1>1 DEF UpdateSavesOrder, At, IInv, Backed
  <2>2. order'.milestones = order.milestones \cup {"completedAt"} /\ captured' = captured
    BY <1>1 DEF UpdateSavesOrder, setStatus, updateStatus, providerVars
  <2>3. CASE "completedAt" \in order.milestones
    BY <2>2, <2>3, Unseen
  <2>4. CASE "completedAt" \notin order.milestones
    <3>1. Promise!Complete
      BY <2>1, <2>2, <2>4 DEF Acknowledged, Promise!Complete
    <3> QED
      BY <3>1 DEF Promise!Next
  <2> QED
    BY <2>3, <2>4
<1>2. CASE UpdateSavesOrder(s) /\ req[s].nextStatus # "COMPLETED"
  BY <1>2, UnseenWrite DEF UpdateSavesOrder, setStatus, providerVars
<1>3. CASE refundOrder(s)
  BY <1>3, RefundUnseen
<1> QED
  BY <1>1, <1>2, <1>3 DEF updateOrderStatus

LEMMA EnvironmentPromised ==
  ASSUME TypeOK, Environment
  PROVE  [Promise!Next]_(Promise!promise)
<1>1. CASE CustomerPays
  <2>1. captured' # {} /\ order' = order
    BY <1>1 DEF CustomerPays, orderVars
  <2>2. CASE Paid
    BY <2>1, <2>2 DEF Paid, Promise!promise
  <2>3. CASE ~ Paid
    <3>1. Promise!TakeMoney
      BY <2>1, <2>3 DEF Paid, Promise!TakeMoney
    <3> QED
      BY <3>1 DEF Promise!Next
  <2> QED
    BY <2>2, <2>3
<1>2. CASE AttemptDeclined \/ TtlElapses \/ OrderSitsIdle
  BY <1>2, UnseenRead
     DEF AttemptDeclined, TtlElapses, OrderSitsIdle, orderVars, providerVars
<1> QED
  BY <1>1, <1>2 DEF Environment

------------------------------------------------------------------------------
LEMMA PromiseInit == Init => Promise!Init
<1> SUFFICES ASSUME Init
             PROVE  Promise!Init
  OBVIOUS
<1>1. captured = {} /\ order.milestones = {}
  BY DEF Init
<1> QED
  BY <1>1 DEF Promise!Init

LEMMA PromiseStep ==
  ASSUME TypeOK, IInv, [Next]_vars
  PROVE  [Promise!Next]_(Promise!promise)
<1>1. CASE Environment
  BY <1>1, EnvironmentPromised
<1>2. ASSUME NEW s \in Slots, Arrival(s) \/ Abort(s)
      PROVE  [Promise!Next]_(Promise!promise)
  BY <1>2, ArrivalUnseen
<1>3. ASSUME NEW s \in Slots, Proceed(s)
      PROVE  [Promise!Next]_(Promise!promise)
  BY <1>3, InitiateUnseen, SuccessPromised, FailureUnseen, ScanPromised,
     GenerateAndExpireUnseen, UpdatePromised, SweepAndReportUnseen DEF Proceed
<1>4. CASE UNCHANGED vars
  BY <1>4, UnseenRead DEF vars, orderVars, providerVars
<1> QED
  BY <1>1, <1>2, <1>3, <1>4 DEF Next

(* The whole system implements MealPromise: no interleaving, crash or late *)
(* outcome takes a milestone back or reaches one before its predecessor.   *)
THEOREM PromiseKept == Spec => KeepsMealPromise
<1>1. Init => Promise!Init
  BY PromiseInit
<1>2. TypeOK /\ IInv /\ [Next]_vars => [Promise!Next]_(Promise!promise)
  BY PromiseStep
<1> QED
  BY <1>1, <1>2, Invariance, PTL DEF Spec, KeepsMealPromise, Promise!Spec

==============================================================================
