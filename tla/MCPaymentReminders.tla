-------------------------- MODULE MCPaymentReminders --------------------------
(* TLC instance of PaymentReminders. *)
EXTENDS PaymentReminders
=============================================================================
