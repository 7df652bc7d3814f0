------------------------------ MODULE MCAllocator ------------------------------
(* Small instances of Allocator: two slabs of two slots, the null slot one *)
(* of them; the bounds are in the cfgs.                                    *)
EXTENDS Allocator
=============================================================================
