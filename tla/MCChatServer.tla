---------------------------- MODULE MCChatServer ----------------------------
(* Instances of ChatServer for TLC. *)
EXTENDS ChatServer, TLC

CONSTANTS c1, c2, c3, c4

ClientSymmetry == Permutations(Senders) \cup Permutations(Receivers)
=============================================================================
