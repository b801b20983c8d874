--------------------------- MODULE AccessLifecycle ---------------------------
(***************************************************************************)
(* What the payment pipeline promises, without its queue, its workers or   *)
(* its transactions: who may change the access of a buyer to a product.    *)
(* Access is moved either by an announcement a payment gateway really made *)
(* for that buyer and product, or by an administrator.  A purchase opens   *)
(* access; a refund or a cancellation only ever closes an access that      *)
(* exists, it never creates one.                                           *)
(*                                                                         *)
(* EnrollmentPipeline is shown to implement this module.                   *)
(***************************************************************************)
EXTENDS Naturals

CONSTANTS
  Pairs,      \* the (buyer, product) pairs
  Statuses    \* the values of the enrollment_status column

VARIABLES
  access,     \* [Pairs -> Statuses \cup {"none"}]: "none" is no enrollment row
  announced,  \* the <<pair, status>> announcements accepted so far
  adminOps    \* the number of administrator operations so far

vars == <<access, announced, adminOps>>

Init ==
  /\ access = [pr \in Pairs |-> "none"]
  /\ announced = {}
  /\ adminOps = 0

\* A gateway's announcement is accepted, or a product is linked to a gateway
\* identifier for which announcements exist: more is announced, nobody gains.
Announce ==
  /\ announced \subseteq announced'
  /\ adminOps' \in {adminOps, adminOps + 1}
  /\ UNCHANGED access

\* An announced purchase opens access, whatever the status was.
Open(pr) ==
  /\ <<pr, "active">> \in announced
  /\ access' = [access EXCEPT ![pr] = "active"]
  /\ UNCHANGED <<announced, adminOps>>

\* An announced refund or cancellation closes an access that exists.
Close(pr, s) ==
  /\ <<pr, s>> \in announced
  /\ s \in {"refunded", "cancelled"}
  /\ access[pr] # "none"
  /\ access' = [access EXCEPT ![pr] = s]
  /\ UNCHANGED <<announced, adminOps>>

\* One administrator operation sets one row, or deletes it.
Administer(pr, s) ==
  /\ adminOps' = adminOps + 1
  /\ access' = [access EXCEPT ![pr] = s]
  /\ UNCHANGED announced

\* The bulk operation opens access for pairs that had none, all or nothing.
EnrollMany(S) ==
  /\ \A pr \in S : access[pr] = "none"
  /\ adminOps' = adminOps + 1
  /\ access' = [pr \in Pairs |-> IF pr \in S THEN "active" ELSE access[pr]]
  /\ UNCHANGED announced

Next ==
  \/ Announce
  \/ \E pr \in Pairs : Open(pr)
  \/ \E pr \in Pairs, s \in Statuses : Close(pr, s)
  \/ \E pr \in Pairs, s \in Statuses \cup {"none"} : Administer(pr, s)
  \/ \E S \in SUBSET Pairs : EnrollMany(S)

Spec == Init /\ [][Next]_vars
==============================================================================
