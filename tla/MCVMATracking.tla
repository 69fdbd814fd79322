---------------------------- MODULE MCVMATracking ----------------------------
(* Small instances of VMATracking: an address space of four pages and a     *)
(* segment and a file of two.                                                *)
EXTENDS VMATracking
=============================================================================
