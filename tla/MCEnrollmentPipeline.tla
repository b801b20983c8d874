------------------------ MODULE MCEnrollmentPipeline ------------------------
(* Small instances of EnrollmentPipeline for TLC.                           *)
EXTENDS EnrollmentPipeline, TLC

CONSTANTS b1, b2, p1, p2, g1, l1, l2, l3, r1

Call(v, s, g, b) == [valid |-> v, status |-> s, gw |-> g, buyer |-> b]

\* The calls that differ in the handler's eyes: a purchase, its refund and
\* its cancellation.
PurchaseAndRefund == {Call(TRUE, "active", g1, b1), Call(TRUE, "refunded", g1, b1)}
Cancellation == {Call(TRUE, "cancelled", g1, b1)}

\* A purchase with a bad signature, one whose status no parser knows, and a
\* Stripe refund, which carries no buyer.
OddCalls ==
  {Call(FALSE, "active", g1, b1), Call(TRUE, None, g1, b1),
   Call(TRUE, "refunded", g1, None)}

PaymentCalls == PurchaseAndRefund \cup Cancellation

AllCalls == PurchaseAndRefund \cup Cancellation \cup OddCalls

\* Logs and replays are only names; a refund and a purchase are told apart by
\* their event, never by the name of the log.
Symmetric == Permutations(Logs)
==============================================================================
