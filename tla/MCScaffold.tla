----------------------------- MODULE MCScaffold -----------------------------
(* A small instance of Scaffold for TLC.                                     *)
EXTENDS Scaffold, TLC

CONSTANTS library, shop

\* Tools and apps that no definition tells apart.
Symmetry == Permutations(Tools) \cup Permutations(Apps)
=============================================================================
