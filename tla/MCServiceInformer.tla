------------------------- MODULE MCServiceInformer -------------------------
(* Instances of ServiceInformer for TLC.                                    *)
EXTENDS ServiceInformer, TLC

Symmetry == Permutations(Keys) \cup Permutations(Obj)
=============================================================================
