--------------------------- MODULE MCReaderWriter ---------------------------
(* ReaderWriter on a few pool threads. *)
EXTENDS ReaderWriter
=============================================================================
