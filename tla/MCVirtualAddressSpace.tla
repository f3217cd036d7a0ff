----------------------- MODULE MCVirtualAddressSpace -----------------------
(* A small instance of VirtualAddressSpace for TLC. *)
EXTENDS VirtualAddressSpace

OneStart == {20}
=============================================================================
