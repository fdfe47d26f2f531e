------------------------------- MODULE Statuses -------------------------------
(***************************************************************************)
(* The order and payment status machines: pure tables, translated from     *)
(* app/domain/orders/status.ts and app/domain/payments/status.ts.  Every   *)
(* handler that moves an order or a payment consults these tables on the   *)
(* status it has READ; what happens between that read and the write is the *)
(* subject of OrderStock.                                                  *)
(***************************************************************************)

\* "none" stands for a row that does not exist yet; it is no status of the code.
Absent == "none"

OrderStatus ==
    { "draft", "awaiting_customer_contact", "awaiting_payment",
      "payment_under_review", "paid", "processing", "ready_for_pickup",
      "shipped", "delivered", "collected", "cancelled", "expired",
      "return_requested", "returned", "partially_refunded", "refunded" }

PaymentStatus ==
    { "awaiting_customer_contact", "awaiting_payment", "proof_received",
      "under_verification", "verified", "partially_paid", "overpaid",
      "rejected", "expired", "refunded", "cancelled" }

ReservingStatus ==
    {"awaiting_customer_contact", "awaiting_payment", "payment_under_review"}

OrderTransition ==
    [ draft                     |-> {"awaiting_customer_contact", "cancelled"},
      awaiting_customer_contact |-> {"awaiting_payment", "payment_under_review",
                                     "paid", "cancelled", "expired"},
      awaiting_payment          |-> {"payment_under_review", "paid",
                                     "expired", "cancelled"},
      payment_under_review      |-> {"paid", "awaiting_payment",
                                     "cancelled", "expired"},
      paid                      |-> {"processing", "cancelled", "refunded",
                                     "partially_refunded"},
      processing                |-> {"ready_for_pickup", "shipped", "cancelled",
                                     "partially_refunded", "refunded"},
      ready_for_pickup          |-> {"collected", "cancelled", "expired"},
      shipped                   |-> {"delivered", "return_requested", "refunded",
                                     "partially_refunded"},
      delivered                 |-> {"return_requested", "refunded",
                                     "partially_refunded"},
      collected                 |-> {"return_requested", "refunded",
                                     "partially_refunded"},
      cancelled                 |-> {},
      expired                   |-> {},
      return_requested          |-> {"returned", "cancelled"},
      returned                  |-> {"refunded", "partially_refunded"},
      partially_refunded        |-> {"refunded"},
      refunded                  |-> {} ]

PaymentTransition ==
    [ awaiting_customer_contact |-> {"awaiting_payment", "under_verification",
                                     "verified", "cancelled", "expired"},
      awaiting_payment          |-> {"proof_received", "under_verification",
                                     "verified", "partially_paid", "overpaid",
                                     "rejected", "expired", "cancelled"},
      proof_received            |-> {"under_verification", "verified",
                                     "partially_paid", "overpaid", "rejected",
                                     "cancelled", "expired"},
      under_verification        |-> {"verified", "partially_paid", "overpaid",
                                     "rejected", "cancelled"},
      partially_paid            |-> {"verified", "under_verification", "rejected",
                                     "cancelled", "refunded"},
      overpaid                  |-> {"verified", "under_verification", "refunded",
                                     "cancelled"},
      rejected                  |-> {"awaiting_payment", "cancelled", "expired"},
      verified                  |-> {"refunded"},
      expired                   |-> {"awaiting_payment", "cancelled"},
      refunded                  |-> {},
      cancelled                 |-> {} ]

CanMoveOrder(from, to) ==
    from \in OrderStatus /\ to \in OrderTransition[from]

CanMovePayment(from, to) ==
    from \in PaymentStatus /\ to \in PaymentTransition[from]

\* What staff may record through verifyPayment: the outcomes its input schema
\* lists, which are also the statuses payments/status.ts says need a human.
VerificationOutcome == {"verified", "partially_paid", "overpaid", "rejected"}

\* payments/status.ts canExpire, repeated as the IN list of the sweeper's update.
CanExpirePayment(s) ==
    s \in {"awaiting_customer_contact", "awaiting_payment", "proof_received"}
===============================================================================
