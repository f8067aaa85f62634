------------------------------- MODULE MCFifo -------------------------------
(* The hand-off queue on a small instance; the .cfg files give its size. *)
EXTENDS Fifo
=============================================================================
