-------------------------- MODULE MCServerListener --------------------------
(***************************************************************************)
(* ServerListener for TLC.  The clients are interchangeable: no definition *)
(* names or orders them, so the runs without liveness properties identify  *)
(* states that differ by a permutation of Clients.                         *)
(***************************************************************************)
EXTENDS ServerListener, TLC

ClientSymmetry == Permutations(Clients)
=============================================================================
