------------------------ MODULE MCTessellationCache ------------------------
(* Instances of TessellationCache for TLC.                                    *)
EXTENDS TessellationCache

WithTooLarge == {<<1>>, <<2>>}
=============================================================================
