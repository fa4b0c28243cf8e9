---------------------------- MODULE MCThreadPool ----------------------------
(* ThreadPool on a few threads and connections. *)
EXTENDS ThreadPool
=============================================================================
