---- MODULE MCRealSyscalls ----
(* RealSyscalls with three threads, one of which registers functions. *)
EXTENDS RealSyscalls
====
