--------------------------- MODULE MCHttpRequest ---------------------------
(* Symmetry for the TLC runs of HttpRequest. *)
EXTENDS HttpRequest, TLC

(* Header names are only compared. *)
Symmetry == Permutations(Names)
=============================================================================
