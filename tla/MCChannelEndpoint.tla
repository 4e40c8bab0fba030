-------------------------- MODULE MCChannelEndpoint --------------------------
(* Instances of ChannelEndpoint for TLC: the users are interchangeable when all *)
(* of them call the same methods.                                               *)
EXTENDS ChannelEndpoint, TLC

Symmetry == Permutations(User)
=============================================================================
