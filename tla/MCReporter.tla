------------------------------ MODULE MCReporter ------------------------------
(* Two commands and two remarks around them, in both modes. *)
EXTENDS Reporter
=============================================================================
