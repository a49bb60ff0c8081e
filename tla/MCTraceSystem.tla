----------------------------- MODULE MCTraceSystem -----------------------------
(***************************************************************************)
(* Finite instances of TraceSystem.  The numbers are in the .cfg files;    *)
(* sets of console functions are named here.                               *)
(***************************************************************************)
EXTENDS TraceInvariant

StartStop == {"start", "stop"}
AllCalls  == {"start", "stop", "reset"}
=============================================================================
