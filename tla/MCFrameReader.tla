---------------------------- MODULE MCFrameReader ----------------------------
(* The connection thread on every short stream over a small alphabet. *)
EXTENDS FrameReader

CONSTANT MaxStream      \* length of the longest stream

MCStreams == UNION {[1..n -> Byte] : n \in 0..MaxStream}
MCUndecodable == {<<>>, <<1>>, <<0, 2>>}
=============================================================================
