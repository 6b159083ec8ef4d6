--------------------------- MODULE MCAlertIntake ---------------------------
(***************************************************************************)
(* AlertIntake with two episodes of a service and two concurrent           *)
(* deliveries.                                                             *)
(***************************************************************************)
EXTENDS AlertIntake

CONSTANTS e1, e2, h1, h2

=============================================================================
