--------------------------- MODULE MCConnections ----------------------------
(* Constants for checking module Connections with TLC. *)
EXTENDS Connections

CONSTANTS c1, c2
=============================================================================
