---------------------------- MODULE MCServerLink ----------------------------
(* The instances TLC checks: one server, and two sockets that may overlap.  *)
EXTENDS ServerLink, TLC

\* Sockets are interchangeable: a dial takes any that is free.
SocketSymmetry == Permutations(Sockets)
=============================================================================
