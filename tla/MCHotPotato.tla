------------------------------ MODULE MCHotPotato ------------------------------
(* HotPotato for three players. *)
EXTENDS HotPotato

\* Two hot potatoes and a cold one, in each order, and two cold ones.
MCTemperatures ==
  {t \in [Players -> 0 .. 2] :
     \/ {t[p] : p \in Players} = {0, 1, 2}
     \/ t[0] + t[1] + t[2] = 1}
================================================================================
