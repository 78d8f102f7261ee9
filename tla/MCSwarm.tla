------------------------------ MODULE MCSwarm ------------------------------
(* The download of a torrent of two pieces from a seed and another peer.   *)
EXTENDS Swarm, TLC

CONSTANTS NOne, NTwo
Lengths == 1 :> NOne @@ 2 :> NTwo
=============================================================================
