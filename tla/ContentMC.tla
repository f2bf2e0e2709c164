----------------------------- MODULE ContentMC ------------------------------
(* A small instance of ContentRegistry for TLC.                               *)
EXTENDS ContentRegistry

\* Names of three handles: two of them have the same.
Names == <<2, 1, 1>>
=============================================================================
