------------------------------ MODULE MCLoader ------------------------------
(* Loader for TLC: two folders with a job each, which may be exchanged.    *)
EXTENDS Loader, TLC

CONSTANTS f1, f2, j1, j2

MCFolderOf == (j1 :> f1) @@ (j2 :> f2)

FolderSymmetry == {(f1 :> f2) @@ (f2 :> f1) @@ (j1 :> j2) @@ (j2 :> j1)}
=============================================================================
