----------------------------- MODULE EventStream -----------------------------
(***************************************************************************)
(* What a match says to whoever watches it: the machine appends a fact and *)
(* publishes it, the hub fans it out (over Redis in production) to its     *)
(* subscribers, and behind two doors, the stream and the widget's, sockets *)
(* are greeted with a hello and hear every fact from then on.  A client    *)
(* follows the stream and replays what a hello covers from the pages of    *)
(* the events route.                                                       *)
(*                                                                         *)
(* One match.  A fact is its seq; `over` is a terminal state, which comes  *)
(* with the fact that announces it.  Position ticks, presence and command  *)
(* results cross the same hub, have no seq and are never replayed: they    *)
(* are left out.                                                           *)
(***************************************************************************)
EXTENDS Integers, Sequences, FiniteSets

CONSTANTS
    Streams,    \* the stream sockets the client may dial
    Widgets,    \* the sockets of widgets
    MaxFacts,   \* bound: facts a match says
    PageLimit,  \* the events of a page
    Mishaps,    \* which kinds of mishap the world has in store
    MaxMishaps, \* bound: how many of them happen
    NoSocket

\* A publish Redis refuses, a store that throws once a fact is published, a
\* subscriber too slow, a socket that breaks, a process that stops.
MishapKinds == {"lost", "throw", "slow", "break", "stop"}

Sockets == Streams \cup Widgets

ASSUME StreamAssumption ==
    /\ MaxFacts \in Nat /\ PageLimit \in Nat \ {0}
    /\ MaxMishaps \in Nat
    /\ Streams \cap Widgets = {} /\ NoSocket \notin Sockets
    /\ Mishaps \subseteq MishapKinds

VARIABLES
    \* the machine and the store
    seq,      \* the match's last fact
    over,     \* the fact that ended it, 0 while it has not
    chain,    \* what the running step does when its store call returns
    queued,   \* a fact waits on the match's chain, checked before the end
    \* the hub
    channel,  \* messages on their way across the fan-out: facts, or the close
    subs,     \* its subscribers
    \* the sockets
    stage,    \* where each greeting stands
    row,      \* the match as a greeting read it
    held,     \* facts that wait behind a hello
    code,     \* "open", or how a socket ended
    tracked,  \* the widget sessions `sessions` and `phones` hold
    hello,    \* the hello a socket was written, n = -1 before
    wrote,    \* the facts written to a socket, in order
    \* the client
    wire,     \* frames written to a stream and not read yet
    sock,     \* the socket it follows
    known,    \* the facts it has
    goal,     \* how far the last hello made it replay
    page,     \* the page it asked for
    draining, \* does it page to the end, the match being over?
    done,     \* has it been given no further cursor?
    \* the world
    missed,   \* has a message been lost, or never been published?
    mishaps

machine == <<seq, over, chain, queued>>
hub == <<channel, subs>>
doors == <<stage, row, held, code, tracked, hello, wrote>>
client == <<sock, known, goal, page, draining, done>>
vars == <<seq, over, chain, queued, channel, subs, stage, row, held,
          code, tracked, hello, wrote, wire, sock, known, goal, page, draining, done,
          missed, mishaps>>

Close == 0 \* the order to close a match's sockets
Hello(n) == [hello |-> TRUE, n |-> n]
Event(n) == [hello |-> FALSE, n |-> n]
NoHello == [n |-> -1, over |-> FALSE]
NoPage == [asked |-> FALSE, after |-> 0, seq |-> 0, over |-> FALSE]

Happens(kind) == kind \in Mishaps /\ mishaps < MaxMishaps /\ mishaps' = mishaps + 1
Calm == UNCHANGED <<missed, mishaps>>

Init ==
    /\ seq = 0 /\ over = 0 /\ chain = "idle" /\ queued = FALSE
    /\ channel = <<>> /\ subs = {}
    /\ stage = [s \in Sockets |-> "none"]
    /\ row = [s \in Sockets |-> [n |-> 0, over |-> FALSE]]
    /\ held = [s \in Sockets |-> <<>>]
    /\ code = [s \in Sockets |-> "none"]
    /\ tracked = {}
    /\ hello = [s \in Sockets |-> NoHello]
    /\ wrote = [s \in Sockets |-> <<>>]
    /\ wire = [s \in Streams |-> <<>>]
    /\ sock = NoSocket
    /\ known = {}
    /\ goal = 0
    /\ page = NoPage
    /\ draining = FALSE /\ done = FALSE
    /\ missed = FALSE /\ mishaps = 0

-----------------------------------------------------------------------------
(* The match's chain.                                                      *)

\* emit: the fact is in the log, with the state it announces.
Say(ends) ==
    /\ chain = "idle" /\ over = 0 /\ seq < MaxFacts
    /\ seq' = seq + 1
    /\ over' = IF ends THEN seq + 1 ELSE 0
    /\ chain' = IF ends THEN "last" ELSE "publish"
    /\ UNCHANGED <<queued, hub, doors, wire, client>> /\ Calm

\* emitTo: the match is open, and the fact takes its place on the chain.
EmitTo ==
    /\ ~queued /\ over = 0
    /\ queued' = TRUE
    /\ UNCHANGED <<seq, over, chain, hub, doors, wire, client>> /\ Calm
SayQueued ==
    /\ chain = "idle" /\ queued /\ seq < MaxFacts
    /\ seq' = seq + 1 /\ queued' = FALSE /\ chain' = "publish"
    /\ UNCHANGED <<over, hub, doors, wire, client>> /\ Calm

\* Mutant: the sockets are closed before the last fact is published.
ClosesFirst == IF chain = "last" THEN <<Close, seq>> ELSE <<seq>>

\* emit publishes the fact as soon as its append returns, and end closes the
\* match once the fact's delivery is queued.  Redis may refuse either.
Published == <<seq>>
Publish ==
    /\ chain \in {"publish", "last"}
    /\ chain' = IF chain = "last" THEN "close" ELSE "idle"
    /\ \/ channel' = channel \o Published /\ Calm
       \/ channel' = channel /\ Happens("lost") /\ missed' = TRUE
    /\ UNCHANGED <<seq, over, queued, subs, doors, wire, client>>
CloseMatch ==
    /\ chain = "close"
    /\ chain' = "idle"
    /\ \/ channel' = Append(channel, Close) /\ Calm
       \/ channel' = channel /\ Happens("lost") /\ missed' = TRUE
    /\ UNCHANGED <<seq, over, queued, subs, doors, wire, client>>

\* The write of the last fact's delivery throws: end is left there.
Throw ==
    /\ chain = "close"
    /\ Happens("throw")
    /\ chain' = "idle" /\ missed' = TRUE
    /\ UNCHANGED <<seq, over, queued, hub, doors, wire, client>>

-----------------------------------------------------------------------------
(* The hub.                                                                *)

\* Mutant: what the hello covers is dropped from behind it only.
CoveredWhenHeld(s, n, last) == n <= last /\ stage[s] = "read"

\* A fact the hello covers: the stream drops it whenever it comes, the widget's
\* door only from behind the hello.
Covered(s, n, last) == n <= last /\ (s \in Streams \/ stage[s] = "read")

\* The writes of one step to each socket, which one that is open takes: a hello
\* perhaps, and then facts.
Writes(greeting, facts) ==
    /\ wire' = [s \in Streams |->
                  IF code[s] = "open"
                  THEN wire[s] \o greeting[s]
                       \o [i \in 1 .. Len(facts[s]) |-> Event(facts[s][i])]
                  ELSE wire[s]]
    /\ wrote' = [s \in Sockets |->
                   IF code[s] = "open" THEN wrote[s] \o facts[s] ELSE wrote[s]]
Silent == [s \in Sockets |-> <<>>]

Leave(S) == subs \ S

\* A fact comes back off the fan-out: a subscriber that is not greeted yet holds
\* it, one that fell too far behind is dropped.
Deliver ==
    /\ channel # <<>> /\ Head(channel) # Close
    /\ channel' = Tail(channel)
    /\ LET n == Head(channel)
           told == {s \in subs : stage[s] = "greeted" /\ ~Covered(s, n, hello[s].n)}
       IN  \E slow \in {{}} \cup {{s} : s \in {t \in told : code[t] = "open"}} :
               /\ IF slow = {} THEN UNCHANGED mishaps ELSE Happens("slow")
               /\ held' = [s \in Sockets |->
                             IF s \in subs /\ stage[s] # "greeted"
                             THEN Append(held[s], n) ELSE held[s]]
               /\ Writes(Silent, [s \in Sockets |-> IF s \in told \ slow THEN <<n>> ELSE <<>>])
               /\ subs' = Leave(slow)
               /\ code' = [s \in Sockets |-> IF s \in slow THEN "slow" ELSE code[s]]
               /\ tracked' = tracked \ slow
    /\ UNCHANGED <<machine, stage, row, hello, client, missed>>

\* The order to close the match's sockets does, greeted or not.
DeliverClose ==
    /\ channel # <<>> /\ Head(channel) = Close
    /\ channel' = Tail(channel)
    /\ subs' = {}
    /\ code' = [s \in Sockets |-> IF s \in subs /\ code[s] = "open" THEN "ended" ELSE code[s]]
    /\ tracked' = tracked \ subs
    /\ UNCHANGED <<machine, stage, row, held, hello, wrote, wire, client>>
    /\ Calm

-----------------------------------------------------------------------------
(* The doors.                                                              *)

\* The credential holds: subscribed first, and then the match is read.  The stream's door
\* listens for its socket's close only from here on: one that went while the credential was
\* looked up is subscribed all the same, and stays until the match is closed.
Subscribe(s) ==
    /\ stage[s] = "none"
    /\ s \in Streams => sock = NoSocket /\ ~draining /\ ~done
    /\ sock' = IF s \in Streams THEN s ELSE sock
    /\ stage' = [stage EXCEPT ![s] = "reading"]
    /\ subs' = subs \cup {s}
    /\ \/ code' = [code EXCEPT ![s] = "open"] /\ UNCHANGED mishaps
       \/ /\ s \in Streams /\ \E t \in Streams \ {s} : stage[t] = "none"
          /\ Happens("break")
          /\ code' = [code EXCEPT ![s] = "gone"]
    /\ UNCHANGED <<machine, channel, row, held, tracked, hello, wrote,
                   wire, known, goal, page, draining, done, missed>>

\* The match's row, as the database has it at some moment of the await.
ReadRow(s) ==
    /\ stage[s] = "reading"
    /\ stage' = [stage EXCEPT ![s] = "read"]
    /\ row' = [row EXCEPT ![s] = [n |-> seq, over |-> over # 0]]
    /\ UNCHANGED <<machine, hub, held, code, tracked, hello, wrote, wire, client>> /\ Calm

\* What is left of a sequence at the places I, in its order.
Place(I, i) == CHOOSE j \in I : Cardinality({k \in I : k <= j}) = i
Left(q, I) == [i \in 1 .. Cardinality(I) |-> q[Place(I, i)]]

\* Mutant: a match that is over is greeted like any other.
EndsAtHelloNever(s) == FALSE
EndsAtHello(s) == row[s].over

\* The hello, what waited behind it, and the close when the match is over.  A
\* widget's session is tracked from here on, unless its socket went meanwhile:
\* one the hub has ended is closed for the session already, so that closing it
\* again forgets nothing.
Greet(s) ==
    LET behind == Left(held[s], {i \in 1 .. Len(held[s]) : ~Covered(s, held[s][i], row[s].n)})
    IN  /\ stage[s] = "read"
        /\ stage' = [stage EXCEPT ![s] = "greeted"]
        /\ hello' = [hello EXCEPT ![s] = IF code[s] = "open" THEN row[s] ELSE @]
        /\ held' = [held EXCEPT ![s] = <<>>]
        /\ Writes([Silent EXCEPT ![s] = <<Hello(row[s].n)>>], [Silent EXCEPT ![s] = behind])
        /\ subs' = IF EndsAtHello(s) \/ (s \in Widgets /\ code[s] = "gone")
                   THEN subs \ {s} ELSE subs
        /\ code' = [code EXCEPT ![s] = IF EndsAtHello(s) /\ @ = "open" THEN "ended" ELSE @]
        /\ tracked' = IF s \in Widgets /\ ~EndsAtHello(s) /\ code[s] # "gone"
                      THEN tracked \cup {s} ELSE tracked
        /\ UNCHANGED <<machine, channel, row, client>> /\ Calm

\* A socket's own close is heard: the stream leaves the hub, a widget's session
\* is closed, if there is one yet.
Gone(S) ==
    /\ code' = [s \in Sockets |-> IF s \in S /\ code[s] = "open" THEN "gone" ELSE code[s]]
    /\ wire' = [s \in Streams |-> IF s \in S THEN <<>> ELSE wire[s]]
Break(s) ==
    /\ code[s] = "open" /\ \E t \in Streams : stage[t] = "none"
    /\ Happens("break")
    /\ Gone({s})
    /\ subs' = IF s \in Widgets /\ stage[s] # "greeted" THEN subs ELSE subs \ {s}
    /\ tracked' = tracked \ {s}
    /\ UNCHANGED <<machine, channel, stage, row, held, hello, wrote,
                   client, missed>>

\* The process stops, of itself or not: its sockets go, and what was pending or
\* on its way to it.  An end under way is in the log or comes again.
Stop ==
    /\ \E t \in Streams : stage[t] = "none"
    /\ Happens("stop")
    /\ Gone(Sockets)
    /\ stage' = [s \in Sockets |-> IF stage[s] = "none" THEN "none" ELSE "greeted"]
    /\ held' = [s \in Sockets |-> <<>>]
    /\ chain' = "idle" /\ queued' = FALSE
    /\ channel' = <<>> /\ subs' = {} /\ tracked' = {}
    /\ page' = NoPage
    /\ UNCHANGED <<seq, over, row, hello, wrote, sock, known, goal, draining,
                   done, missed>>

-----------------------------------------------------------------------------
(* The client.                                                             *)

\* The last fact it has with every one before it.
Cursor == CHOOSE n \in 0 .. MaxFacts : 1 .. n \subseteq known /\ n + 1 \notin known

\* A frame of its socket: a hello says how far to replay, an event is a fact.
Read ==
    /\ sock # NoSocket /\ wire[sock] # <<>>
    /\ wire' = [wire EXCEPT ![sock] = Tail(@)]
    /\ LET f == Head(wire[sock])
       IN  /\ goal' = IF f.hello THEN f.n ELSE goal
           /\ known' = IF f.hello THEN known ELSE known \cup {f.n}
    /\ UNCHANGED <<machine, hub, doors, sock, page, draining, done>> /\ Calm

\* The socket's end, behind its last frame: it dials again, unless the match is
\* over, and then reads the log to its end.
ReadClose ==
    /\ sock # NoSocket /\ wire[sock] = <<>> /\ code[sock] # "open"
    /\ sock' = NoSocket
    /\ draining' = (code[sock] = "ended")
    /\ UNCHANGED <<machine, hub, doors, wire, known, goal, page, done>> /\ Calm

\* It asks for a page, and the events route reads the match.
Ask ==
    /\ ~page.asked /\ ~done
    /\ Cursor < goal \/ draining
    /\ page' = [asked |-> TRUE, after |-> Cursor, seq |-> seq, over |-> over # 0]
    /\ UNCHANGED <<machine, hub, doors, wire, sock, known, goal, draining, done>> /\ Calm

\* Mutant: the listing starts at the cursor itself.
ListedFrom == {n \in 1 .. seq : page.after <= n /\ n < page.after + PageLimit}
Listed == {n \in 1 .. seq : page.after < n /\ n <= page.after + PageLimit}

\* Mutant: a page of a match that is over has no next one.
NoNextOver(last) == page.over
NoNext(last) == last >= page.seq /\ page.over
\* The route lists what comes after the cursor.
PageList ==
    /\ page.asked
    /\ page' = NoPage
    /\ known' = known \cup Listed
    /\ LET last == IF Listed = {} THEN page.after
                   ELSE CHOOSE n \in Listed : \A m \in Listed : m <= n
       IN  done' = NoNext(last)
    /\ draining' = (draining /\ Listed # {})
    /\ UNCHANGED <<machine, hub, doors, wire, sock, goal>> /\ Calm

-----------------------------------------------------------------------------
Machine == Publish \/ CloseMatch \/ SayQueued
Hub == Deliver \/ DeliverClose
Door(s) == ReadRow(s) \/ Greet(s)
Dial == \E s \in Streams : Subscribe(s)
Client == Read \/ ReadClose
Pages == Ask \/ PageList

Next ==
    \/ \E ends \in BOOLEAN : Say(ends)
    \/ EmitTo \/ Machine \/ Throw \/ Hub
    \/ \E s \in Sockets : Subscribe(s) \/ Door(s) \/ Break(s)
    \/ Client \/ Pages \/ Stop

Spec == Init /\ [][Next]_vars

\* The orchestrator's promises settle and Redis delivers; the client reads, dials
\* again and asks on.  No fairness for what a match says, its end included, nor
\* for a mishap.
Orchestrator == Machine \/ Hub \/ \E s \in Sockets : Door(s)
Fairness ==
    /\ WF_vars(Orchestrator) /\ WF_vars(Dial \/ Client \/ Pages)
FairSpec == Spec /\ Fairness

-----------------------------------------------------------------------------
(* What the doors promise.                                                 *)

Hellos == [n : 0 .. MaxFacts, over : BOOLEAN]
Frames == {Hello(n) : n \in 0 .. MaxFacts} \cup {Event(n) : n \in 1 .. MaxFacts}

\* Who is subscribed is open, or a widget's socket that went before its hello, or a stream's
\* that went before it subscribed: and that one is never written a thing.
Subscribed(s) ==
    \/ code[s] = "open"
    \/ s \in Widgets /\ code[s] = "gone" /\ stage[s] # "greeted"
    \/ s \in Streams /\ code[s] = "gone" /\ hello[s] = NoHello /\ wrote[s] = <<>>

\* Every variable keeps its type, and the hub's subscribers are those.
TypeOK ==
    /\ seq \in 0 .. MaxFacts /\ over \in 0 .. MaxFacts
    /\ chain \in {"idle", "publish", "last", "close"} /\ queued \in BOOLEAN
    /\ channel \in Seq(Close .. MaxFacts)
    /\ subs \subseteq Sockets
    /\ \A s \in subs : Subscribed(s)
    /\ stage \in [Sockets -> {"none", "reading", "read", "greeted"}]
    /\ row \in [Sockets -> Hellos]
    /\ held \in [Sockets -> Seq(1 .. MaxFacts)]
    /\ code \in [Sockets -> {"none", "open", "ended", "slow", "gone"}]
    /\ tracked \subseteq Widgets
    /\ hello \in [Sockets -> Hellos \cup {NoHello}]
    /\ wrote \in [Sockets -> Seq(1 .. MaxFacts)]
    /\ wire \in [Streams -> Seq(Frames)]
    /\ sock \in Streams \cup {NoSocket}
    /\ known \subseteq 1 .. MaxFacts
    /\ goal \in 0 .. MaxFacts
    /\ page \in [asked : BOOLEAN, after : 0 .. MaxFacts,
                 seq : 0 .. MaxFacts, over : BOOLEAN]
    /\ draining \in BOOLEAN /\ done \in BOOLEAN
    /\ missed \in BOOLEAN /\ mishaps \in 0 .. MaxMishaps

\* No event frame of a stream is one its hello covers, however late it comes.
NoneCovered ==
    \A s \in Streams : \A i \in 1 .. Len(wrote[s]) : wrote[s][i] > hello[s].n

\* Every fact past the hello is there, in order, if none was lost on the way.
NoGap ==
    missed \/ \A s \in Sockets :
        /\ \A i \in 1 .. Len(wrote[s]) - 1 : wrote[s][i + 1] = wrote[s][i] + 1
        /\ wrote[s] # <<>> => wrote[s][1] <= hello[s].n + 1

\* What follows a hello is what it does not cover, in order and without a gap.
Unbroken == NoneCovered /\ NoGap

\* A socket closed as of an ended match was told of the end first, by its hello
\* or by the fact itself, if it was greeted at all.
Told(s) == hello[s].over \/ \E i \in 1 .. Len(wrote[s]) : wrote[s][i] = over
EndIsToldFirst ==
    missed \/ \A s \in Sockets : code[s] = "ended" /\ hello[s] # NoHello => Told(s)

\* A client that was given no further cursor has every fact up to the end.
LastPageIsLast == done => over # 0 /\ 1 .. over \subseteq known

\* Once a match is over its sockets are closed.
SocketsClose == over # 0 ~> (missed \/ \A s \in Sockets : code[s] # "open")

\* A client that reconnects and replays follows a match to its end.
FollowedToTheEnd == over # 0 ~> (missed \/ 1 .. over \subseteq known)

\* The first frame of a socket is a hello, always: one that is closed as of an
\* ended match has heard so.
HelloFirst == \A s \in Sockets : code[s] = "ended" => Told(s)

\* A session the widget service tracks is an open phone.
PhonesAreOpen == \A s \in tracked : code[s] = "open"

\* The end of a match is its last fact.
EndIsLast == over # 0 => seq = over
=============================================================================
