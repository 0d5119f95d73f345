------------------------------ MODULE MCTools ------------------------------
(* Two files, main.bc among them, and up to three runs: a compiler, a tool *)
(* that rewrites what it made, in place or not, and one that follows.      *)
EXTENDS Tools

CONSTANTS a, m
=============================================================================
