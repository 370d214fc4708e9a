------------------------------ MODULE MCLobby -------------------------------
(* Constants for checking module Lobby with TLC. *)
EXTENDS Lobby, TLC

CONSTANTS s1, s2, ann, ANN, bob

(* ann and ANN are the same name to EqualsCaseInsensitive. *)
MCFold == [n \in {ann, ANN, bob} |-> IF n = bob THEN "bob" ELSE "ann"]

(* No action reads sent or thrown, so states that differ in nothing else   *)
(* have the same successors; the properties about them are properties of   *)
(* steps, which TLC checks on every step it generates.                     *)
MCView == <<dbVars, uid, gone, listed, known>>

(* Nothing tells two sessions apart, nor two names that fold to the same. *)
MCSymmetry == Permutations(Sessions) \cup Permutations({ann, ANN})
=============================================================================
