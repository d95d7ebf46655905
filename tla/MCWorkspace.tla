----------------------------- MODULE MCWorkspace ----------------------------
(* Instances of Workspace for TLC: the constants' values are in the .cfg   *)
(* files, the symmetry they use is here.                                   *)
EXTENDS Workspace, TLC

(* Sessions, names and processes are interchangeable in every action.      *)
Symmetry ==
    Permutations(SessionId) \cup Permutations(Name) \cup Permutations(Proc)
=============================================================================
