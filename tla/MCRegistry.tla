------------------------------ MODULE MCRegistry -----------------------------
(***************************************************************************)
(* A small deployment for TLC; names are model values.                     *)
(***************************************************************************)
EXTENDS Registry

CONSTANTS root, ann, bob, writer, reader, m1, p1, p2, s1, s2
===============================================================================
