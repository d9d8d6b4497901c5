---------------------------- MODULE MCSizeRequest ----------------------------
(* Every number of an eight-bit int, with and without the unit. *)
EXTENDS SizeRequest
=============================================================================
