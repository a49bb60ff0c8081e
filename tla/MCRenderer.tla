------------------------------ MODULE MCRenderer ------------------------------
(***************************************************************************)
(* Finite instances of Renderer.  The numbers are in the .cfg files; sets  *)
(* of operations are named here.                                           *)
(***************************************************************************)
EXTENDS Renderer

AllOperations == {"Render", "IterativeRender", "FrameRender", "TimedRender",
                  "ChannelRender"}
=============================================================================
