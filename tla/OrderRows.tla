------------------------------ MODULE OrderRows ------------------------------
(***************************************************************************)
(* The rows of repository/order_repository.go and what the mutators of     *)
(* repository/order_mutations.go do to one of them while they hold its     *)
(* lock.  A timestamp column is kept as whether it has been set; numbers,  *)
(* currencies, intents, references and metadata carry no control and are   *)
(* left out.                                                               *)
(***************************************************************************)
EXTENDS Integers

OrderStatus == {"pending_payment", "paid", "payment_failed", "cancelled",
                "partially_refunded", "refunded"}
PaymentMethod == {"balance", "manual", "external"}
PaymentStatus == {"pending", "succeeded", "failed"}

(* The row the create handler inserts: settled at once when nothing is due *)
(* or the wallet pays, otherwise waiting for an outside payment.           *)
NewOrder(u, key, method, total) ==
  LET settled == total = 0 \/ method = "balance"
  IN  [user |-> u, key |-> key, total |-> total,
       status      |-> IF settled THEN "paid" ELSE "pending_payment",
       method      |-> method,
       payment     |-> IF settled THEN "succeeded" ELSE "pending",
       refunded    |-> 0,
       paidAt      |-> settled,
       cancelledAt |-> FALSE]

(* Mutation: cancelling overwrites the time of payment. *)
CancelledUnpaid(row) ==
  [row EXCEPT !.status = "cancelled", !.cancelledAt = TRUE, !.paidAt = FALSE]

(* UpdateStatus with the CancelledAt argument set. *)
Cancelled(row) == [row EXCEPT !.status = "cancelled", !.cancelledAt = TRUE]

(* UpdateStatus(paid) with a method and PaidAt, after UpdatePaymentState;  *)
(* the empty method leaves the column alone.                               *)
WithMethod(row, method) ==
  IF method = "" THEN row ELSE [row EXCEPT !.method = method]

(* Mutation: success does not stamp PaidAt. *)
PaymentStateUnstamped(row, status) ==
  [row EXCEPT !.payment = status,
              !.status = IF status = "succeeded" THEN "paid" ELSE "payment_failed"]

(* UpdatePaymentState as the two handlers that call it use it: success     *)
(* settles the order and stamps PaidAt, failure marks it failed.           *)
PaymentState(row, status) ==
  IF status = "succeeded"
  THEN [row EXCEPT !.payment = status, !.status = "paid", !.paidAt = TRUE]
  ELSE [row EXCEPT !.payment = status, !.status = "payment_failed"]

(* AddRefund reads the remaining amount again under the row lock. *)
RefundFits(row, amount) ==
  /\ amount > 0
  /\ row.refunded < row.total
  /\ amount <= row.total - row.refunded

(* Mutation: an order refunded in full is still taken for a part refund. *)
AddRefundOffByOne(row, amount) ==
  LET sum == row.refunded + amount
  IN  [row EXCEPT !.refunded = sum,
                  !.status = IF sum <= row.total THEN "partially_refunded"
                                                 ELSE "refunded"]

(* AddRefund, then the status the refund handler derives from the sum. *)
AddRefund(row, amount) ==
  LET sum == row.refunded + amount
  IN  [row EXCEPT !.refunded = sum,
                  !.status = IF sum < row.total THEN "partially_refunded"
                                                ELSE "refunded"]

=============================================================================
