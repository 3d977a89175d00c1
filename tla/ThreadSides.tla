---------------------------- MODULE ThreadSides ----------------------------
(***************************************************************************)
(* The two sides of the thread partition: the registers are shared out     *)
(* between them, and each switch goes from one to the other.               *)
(***************************************************************************)
Sides == {"left", "right"}
Other(side) == IF side = "left" THEN "right" ELSE "left"
=============================================================================
