---- MODULE MCDirectCopy ----
(***************************************************************************)
(* A small instance of DirectCopy.                                         *)
(***************************************************************************)
EXTENDS DirectCopy
====
