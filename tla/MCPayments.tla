----------------------------- MODULE MCPayments -----------------------------
(* TLC instances of Payments: one payment and the workers that race over    *)
(* it.  A loan repayment behaves as a savings contribution does (Guarded),  *)
(* and an account funding has no target to credit.                          *)
EXTENDS Payments

CONSTANTS q1, w1, w2

\* Nothing that moves money, or that this payment was charged in full; a charge
\* of another amount comes with a signature.
MCUnsigned == {NotACharge, Charge(q1, TRUE)}

MCOffered == {"SAVINGS_CONTRIBUTION", "GOAL_FUNDING"}
=============================================================================
