--------------------------- MODULE MCPaymentLedger ---------------------------
(* A small instance of PaymentLedger for TLC.                                *)
EXTENDS PaymentLedger

CONSTANTS w1, w2, e1
MCWorkers == {w1, w2}
MCOneWorker == {w1}
MCEmployees == {e1}
=============================================================================
