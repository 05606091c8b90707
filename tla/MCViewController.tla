------------------------- MODULE MCViewController -------------------------
(* Small instances of ViewController: the constants the configurations use. *)
EXTENDS Refinement, TLC

\* The sound of one frame is empty when it is cut by the times of the longer.
TwoSounds == <<0, 0>> :> 1 @@ <<0, 1>> :> 0 @@ <<1, 0>> :> 1 @@ <<1, 1>> :> 2

Symmetry == Permutations(Slot)
=============================================================================
