------------------------- MODULE MCLoopbackAllocator -------------------------
(* The allocator with a client that holds the numbers it was given,        *)
(* checked for MaxInstance = 7 (the value is set in the .cfg).            *)
EXTENDS LoopbackAllocator
=============================================================================
