------------------------------ MODULE MCServer ------------------------------
(* The process with a few clients; the .cfg file gives the numbers. *)
EXTENDS Server
=============================================================================
