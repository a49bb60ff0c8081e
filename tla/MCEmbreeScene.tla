----------------------------- MODULE MCEmbreeScene -----------------------------
(* Instances of EmbreeScene for TLC.                                          *)
EXTENDS EmbreeScene
=================================================================================
