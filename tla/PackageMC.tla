----------------------------- MODULE PackageMC ------------------------------
(* A small instance of PackageFile for TLC.                                   *)
EXTENDS PackageFile

\* Compressed sizes of two contents.
Sizes == [x |-> 1, y |-> 2]
=============================================================================
