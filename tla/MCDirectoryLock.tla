--------------------------- MODULE MCDirectoryLock ---------------------------
(***************************************************************************)
(* Instances of DirectoryLock for TLC.                                     *)
(***************************************************************************)
EXTENDS DirectoryLock, TLC

\* The runs are interchangeable.
RunSymmetry == Permutations(Procs)
=============================================================================
