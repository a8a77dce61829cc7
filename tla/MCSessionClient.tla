-------------------------- MODULE MCSessionClient --------------------------
(***************************************************************************)
(* Small instances of SessionClient.  The threads that run the io_context  *)
(* are interchangeable; the symmetry is used in runs without liveness.     *)
(***************************************************************************)
EXTENDS SessionClient, TLC

ThreadSymmetry == Permutations(Threads)
=============================================================================
