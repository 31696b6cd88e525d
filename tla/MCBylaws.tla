------------------------------ MODULE MCBylaws ------------------------------
(***************************************************************************)
(* Bylaws with a board of three.  Nothing orders members or texts, and     *)
(* all of the members are founders, so both sets are symmetric.            *)
(***************************************************************************)
EXTENDS Bylaws, TLC

Symmetry == Permutations(Member) \cup Permutations(Text)

=============================================================================
