-------------------------- MODULE MCThreadLifecycle --------------------------
(* Small instances of ThreadLifecycle: the parent thread and one or two that *)
(* it or its children create.                                                *)
EXTENDS ThreadLifecycle

CONSTANTS main, t1, t2
=============================================================================
