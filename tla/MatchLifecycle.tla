--------------------------- MODULE MatchLifecycle ---------------------------
(***************************************************************************)
(* What a client of the Match API is promised about one match, and nothing *)
(* of how it is done: the states a match goes through and the match.* fact *)
(* that announces each change, as packages/match-api names them and        *)
(* match/machine.ts is meant to say them.                                  *)
(***************************************************************************)
VARIABLES
    state,   \* Match.state
    fact,    \* the last match.* envelope
    told     \* the connect facts have been said since the last match.recovering

vars == <<state, fact, told>>

Before   == {"pending", "allocating", "configuring", "ready"}
Terminal == {"ended", "failed", "cancelled"}

Init == state = "pending" /\ fact = "none" /\ told = FALSE

Say(f)  == fact' = f /\ UNCHANGED <<state, told>>
Move(s) == state' = s /\ UNCHANGED <<fact, told>>

\* A server is looked for, for a new match or a lost one, and each one obtained is said.
Allocating == state \in {"pending", "allocating"} /\ Move("allocating")
Allocated  == state \in {"allocating", "recovering"} /\ Say("match.allocated")
Configured == state = "allocating" /\ fact = "match.allocated" /\ Move("configuring")

\* The server is ready, and its connect facts are told.
Ready   == state = "configuring" /\ Move("ready")
Connect ==
    /\ state \in {"ready", "recovering"}
    /\ fact' = "match.server_ready" /\ told' = TRUE
    /\ UNCHANGED state

\* Nobody plays on a server nobody was told of.
GoLive == state = "ready" /\ fact = "match.server_ready" /\ Move("live")

\* A loss is said, then shown; it is over only on a server that was announced.
Lose       == state = "live" /\ fact' = "match.recovering" /\ told' = FALSE /\ UNCHANGED state
Recovering == state = "live" /\ fact = "match.recovering" /\ Move("recovering")
Recovered  == state = "recovering" /\ told /\ Say("match.recovered")
Resume     == state = "recovering" /\ fact = "match.recovered" /\ Move("live")

\* Before it is live a match may start over on another server, and be shown looking for it.
StartOver == state \in Before /\ (Move("pending") \/ Move("allocating"))

\* A match ends once: the state and the fact that says so are one change.
End ==
    \/ /\ state \notin Terminal
       /\ state' = "failed" /\ fact' = "match.failed"
       /\ UNCHANGED told
    \/ /\ state \notin Terminal
       /\ state' = "ended" /\ fact' = "match.ended"
       /\ UNCHANGED told
    \/ /\ state \in Before
       /\ state' = "cancelled" /\ fact' = "match.ended"
       /\ UNCHANGED told

Next ==
    \/ Allocating \/ Allocated \/ Configured \/ Ready \/ Connect \/ GoLive
    \/ Lose \/ Recovering \/ Recovered \/ Resume \/ StartOver \/ End

Spec == Init /\ [][Next]_vars
=============================================================================
