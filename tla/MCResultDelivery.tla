-------------------------- MODULE MCResultDelivery --------------------------
(* A small instance of ResultDelivery for TLC. *)
EXTENDS ResultDelivery, TLC
CONSTANTS t1, w1

ASSUME ResultDeliveryAssumption

\* The store refuses no write and no policy changes: a delivery that is refused
\* is made up at the next start of the service, which may not come.
MCSpec == Init /\ [][Undisturbed]_vars /\ Fairness
=============================================================================
