-------------------------- MODULE MCScancodeQueue ---------------------------
(* A ring of three slots and three codes: the contents can be any sequence *)
(* of up to three codes at any position of the ring.                       *)
EXTENDS ScancodeQueue

MCScancodes == {30, 158, 42}
=============================================================================
