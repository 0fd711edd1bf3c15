--------------------------- MODULE MCPackageCache ---------------------------
(* The detail packages of the server (PackageCache), and what a tab keeps  *)
(* (TabScenes), in one run.  They share no state: `scene` says which of    *)
(* them moves, and the others rest as they began.                          *)
EXTENDS PackageCache, TabScenes, TLC

VARIABLE scene

PackagesInit ==
    /\ scene \in {"packages"} \cup TabSceneNames
    /\ Init /\ TabInit(scene)
    /\ scene # "packages" => setting = NoDir

PackagesNext ==
    /\ UNCHANGED scene
    /\ \/ scene = "packages" /\ Next /\ UNCHANGED tab_vars
       \/ TabNext(scene) /\ UNCHANGED vars

PackagesSpec == PackagesInit /\ [][PackagesNext]_<<scene, vars, tab_vars>>

Symmetry == Permutations(Req) \cup Permutations(Dir)
=============================================================================
