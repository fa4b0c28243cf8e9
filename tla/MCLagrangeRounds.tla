--------------------------- MODULE MCLagrangeRounds ---------------------------
(* LagrangeRounds for a few children. *)
EXTENDS LagrangeRounds
===============================================================================
