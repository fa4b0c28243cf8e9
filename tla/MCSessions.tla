----------------------------- MODULE MCSessions -----------------------------
(* Two servers and two clients.  The first client has a query answered in    *)
(* one row, one answered by the end of the server, and a blank line; the     *)
(* second only connects, so that either may be the one whose connection      *)
(* SIGINT closes.                                                            *)
EXTENDS Sessions

Line(c, n) == [id |-> c, rows |-> n]

SomeLines == << Line("c1", 1), Line("c1", 0), BlankLine >>
=============================================================================
