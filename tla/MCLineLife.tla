------------------------------ MODULE MCLineLife ------------------------------
(* The main thread and one worker, one ordinary line and the leg, either on *)
(* or off, but for the line on and no leg; accounts are interchangeable.    *)
EXTENDS LineLife, TLC
CONSTANT line
Says(l, c) == (line :> l) @@ (Leg :> c)
MCDocuments == {Says("on", "on"), Says("off", "on"), Says("off", "absent")}
Symmetry == Permutations(Objects)
=============================================================================
