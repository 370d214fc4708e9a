------------------------------ MODULE MCServer ------------------------------
(* Constants for checking module Server with TLC. *)
EXTENDS Server, SequencesExt

CONSTANTS main, w1, w2, w3, w4

(* Numbers on both sides of every test, of the width of a port and of int. *)
MCNumbers == {-1, 0, 2, 5, 1024, 1025, 65535, 65536 + 1024, IntLimit}

Word(is) == [is |-> is, value |-> 0]
Number(n) == [is |-> "number", value |-> n]

MCWords == {Word(is) : is \in {"-p", "-c", "-t", "-h", "text"}} \cup {Number(n) : n \in MCNumbers}

(* The name of the program and up to four arguments. *)
MCCommandLines == {<<Word("text")>> \o words : words \in BoundedSeq(MCWords, 4)}

(* The name of the program and --threads. *)
MCThreadLines == {<<Word("text"), Word("-t"), Number(n)>> : n \in {1, 2, 4}}
=============================================================================
