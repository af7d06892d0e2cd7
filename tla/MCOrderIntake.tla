---------------------------- MODULE MCOrderIntake ----------------------------
(* Instances of OrderIntake for TLC. *)
EXTENDS OrderIntake, TLC

CONSTANTS u1, u2

\* A cash sale and a QRIS sale: both branches of createOrder after the insert,
\* and both statuses an order may be inserted with.
MixedMethods == (u1 :> "cash") @@ (u2 :> "qris")
=============================================================================
