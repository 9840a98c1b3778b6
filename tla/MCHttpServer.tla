---------------------------- MODULE MCHttpServer ----------------------------
(* Symmetry for the TLC runs of HttpServer. *)
EXTENDS HttpServer, TLC

(* Handles are only compared. *)
Symmetry == Permutations(Handles)
=============================================================================
