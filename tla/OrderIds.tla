------------------------------ MODULE OrderIds ------------------------------
(***************************************************************************)
(* The identities shared by the gateway modules and the billing modules.   *)
(***************************************************************************)

CONSTANTS
  Orders,      \* the ids of the payment orders of one contract
  None         \* "null": no id, no order

ASSUME OrderNoneAssumption == None \notin Orders

=============================================================================
