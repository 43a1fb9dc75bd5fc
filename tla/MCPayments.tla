----------------------------- MODULE MCPayments -----------------------------
(***************************************************************************)
(* Two attempts to pay one invoice that share their reference, the number  *)
(* of the invoice.                                                         *)
(***************************************************************************)
EXTENDS Payments

CONSTANTS a1, a2, i1, x

MCInvoiceOf == [a \in Attempts |-> i1]

MCRef == [a \in Attempts |-> x]
=============================================================================
