------------------------------ MODULE EventFeed ------------------------------
(***************************************************************************)
(* What the server link promises of the events a server says of its match, *)
(* and nothing of sockets: the orchestrator comes to know every one of     *)
(* them, in the order they were said.                                      *)
(***************************************************************************)
EXTENDS Naturals

VARIABLES
    said,    \* how many events the server has said
    known    \* how many of them, counted from the first, the match's log holds

vars == <<said, known>>

Init  == said = 0 /\ known = 0
Say   == said' = said + 1 /\ UNCHANGED known
Learn == known < said /\ known' = known + 1 /\ UNCHANGED said
Next  == Say \/ Learn

\* No event is known before those said before it, and none is unlearnt.
Unbroken == Init /\ [][Next]_vars
\* Whatever was said comes to be known.
CatchesUp == WF_vars(Learn)

Spec == Unbroken /\ CatchesUp
=============================================================================
