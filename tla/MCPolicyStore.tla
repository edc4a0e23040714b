---------------------------- MODULE MCPolicyStore ----------------------------
(***************************************************************************)
(* PolicyStore by itself: what its comments say when calls overlap, and    *)
(* when an operation fails.                                                *)
(***************************************************************************)
EXTENDS PolicyStore
=============================================================================
