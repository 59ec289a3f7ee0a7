------------------------------- MODULE MCVarInt -------------------------------
(* All pages of up to MaxPage bytes, for checking VarInt. *)
EXTENDS VarInt

CONSTANT MaxPage

MCPages == UNION {[1..n -> Byte] : n \in 0..MaxPage}
=============================================================================
