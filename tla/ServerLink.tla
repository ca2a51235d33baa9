----------------------------- MODULE ServerLink -----------------------------
(***************************************************************************)
(* The link of one server that plays one match: the plugin's event buffer  *)
(* and its socket (plugins/EZPug.Sdk/Link), the orchestrator's sessions    *)
(* (apps/orchestrator/src/link/server-link.ts), the servers row they keep  *)
(* the acknowledged seq on, and the door of the match machine the events   *)
(* go through (ingest and onServerEvent of match/machine.ts).              *)
(*                                                                         *)
(* An event is named three times: seq is the link's counter, kept in the   *)
(* plugin's buffer; hint is the vocabulary's per-match seq, kept in the    *)
(* plugin's memory; id is the event itself.  A frame of events is the set  *)
(* of them: both ends take a frame in seq order.                           *)
(*                                                                         *)
(* The frames a socket carries up are in one queue, those on the wire and  *)
(* those that wait on the session's chain alike.  A socket that is closing *)
(* (replaced, or a frame of it failed) still carries them; one that broke  *)
(* keeps those that had arrived.                                           *)
(***************************************************************************)
EXTENDS Naturals, Sequences, FiniteSets

CONSTANTS
    Sockets,     \* sockets that can be in the world at once; a dead one is dialled again
    None,        \* no socket
    Mishaps,     \* the mishaps of this instance, a subset of {"crash", "throw", "wipe", "reload"}
    MaxSaid,     \* bound: events the server says
    MaxDrops,    \* bound: sockets the network breaks
    MaxMishaps   \* bound: mishaps

ASSUME LinkAssumption ==
    /\ None \notin Sockets
    /\ Mishaps \subseteq {"crash", "throw", "wipe", "reload"}
    /\ MaxSaid \in Nat /\ MaxDrops \in Nat /\ MaxMishaps \in Nat

VARIABLES
    \* the server
    buffer,      \* FileEventBuffer: the last seq handed out, the events not acknowledged
    plugin,      \* the socket served and whether it was welcomed; the match held, its last
                 \* hint, and how many assignments wait for the game thread
    said,        \* how many events were said
    \* the wire: per socket, the state of the orchestrator's end, and what each end is sent
    wire,
    \* the orchestrator
    session,     \* per socket
    current,     \* the session that answers for the server
    acked,       \* servers.link_acked_seq
    seen,        \* the hints the match's runtime has seen
    log,         \* the match's durable log: the events it took
    \* what befell
    drops, crashes, throws, wipes, reloads,
    renumbered   \* an assignment restarted the hints of a match that had said something

server == <<buffer, plugin, said>>
store  == <<acked, log>>
fate   == <<drops, crashes, throws, wipes, reloads, renumbered>>
vars   == <<server, wire, session, current, seen, store, fate>>

-----------------------------------------------------------------------------
Event == [seq : Nat, hint : Nat, id : Nat]

Hello(last, held) == [type |-> "hello", last |-> last, held |-> held]
Events(es)        == [type |-> "events", events |-> es]
Welcome(a)        == [type |-> "welcome", acked |-> a]
Assign            == [type |-> "assign"]
Ack(seqs)         == [type |-> "ack", seqs |-> seqs]

NoSession == [at |-> "none", held |-> FALSE, acked |-> 0, window |-> {}, batch |-> {}, results |-> {}]
Unlinked  == [conn |-> None, welcomed |-> FALSE, held |-> FALSE, hint |-> 0, inbox |-> 0]
Dead      == [end |-> "closed", up |-> <<>>, down |-> <<>>]

Least(es) == CHOOSE e \in es : \A f \in es : e.seq <= f.seq
Lower(m, n) == IF m < n THEN m ELSE n

Init ==
    /\ buffer  = [last |-> 0, pending |-> {}]
    /\ plugin  = Unlinked
    /\ said    = 0
    /\ wire    = [c \in Sockets |-> Dead]
    /\ session = [c \in Sockets |-> NoSession]
    /\ current = None
    /\ acked   = 0
    /\ seen    = {}
    /\ log     = <<>>
    /\ drops = 0 /\ crashes = 0 /\ throws = 0 /\ wipes = 0 /\ reloads = 0
    /\ renumbered = FALSE

\* What the plugin sends arrives unless the socket broke; the orchestrator writes to an open one.
SendUp(c, f)   == [wire EXCEPT ![c].up = IF wire[c].end = "closed" THEN @ ELSE Append(@, f)]
SendDown(c, f) == [wire EXCEPT ![c].down = IF wire[c].end = "open" THEN Append(@, f) ELSE @]

\* close() on the orchestrator's end.
Closing(w, c)  == [w EXCEPT ![c].end = IF @ = "open" THEN "closing" ELSE @]

-----------------------------------------------------------------------------
(* The plugin.                                                             *)

\* Mutant: an event is kept only when there is no session to send it on.
EmitUnkept ==
    LET e == [seq |-> buffer.last + 1, hint |-> plugin.hint + 1, id |-> said + 1] IN
    /\ plugin.held
    /\ said < MaxSaid
    /\ said' = said + 1
    /\ buffer' = [last |-> e.seq,
                  pending |-> IF plugin.welcomed THEN buffer.pending ELSE buffer.pending \cup {e}]
    /\ plugin' = [plugin EXCEPT !.hint = e.hint]
    /\ wire' = IF plugin.welcomed THEN SendUp(plugin.conn, Events({e})) ELSE wire
    /\ UNCHANGED <<session, current, seen, store, fate>>

\* The runtime stamps the event with the match's next hint, the buffer with the next seq; it
\* is kept until it is acknowledged, and sent at once on a welcomed session.
Emit ==
    LET e == [seq |-> buffer.last + 1, hint |-> plugin.hint + 1, id |-> said + 1] IN
    /\ plugin.held
    /\ said < MaxSaid
    /\ said' = said + 1
    /\ buffer' = [last |-> e.seq, pending |-> buffer.pending \cup {e}]
    /\ plugin' = [plugin EXCEPT !.hint = e.hint]
    /\ wire' = IF plugin.welcomed THEN SendUp(plugin.conn, Events({e})) ELSE wire
    /\ UNCHANGED <<session, current, seen, store, fate>>

\* A socket nothing is left of, on either end.
Free(c) ==
    /\ wire[c].end # "open" /\ wire[c].up = <<>> /\ plugin.conn # c
    /\ session[c].at # "greeting" /\ session[c].batch = {} /\ session[c].results = {}

\* RunAsync: the next socket, and its hello.
Dial(c) ==
    /\ plugin.conn = None
    /\ Free(c)
    /\ plugin' = [plugin EXCEPT !.conn = c]
    /\ wire' = [wire EXCEPT ![c] = [end |-> "open", down |-> <<>>,
                                    up |-> <<Hello(buffer.last, plugin.held)>>]]
    /\ session' = [session EXCEPT ![c] = NoSession]
    /\ current' = IF current = c THEN None ELSE current
    /\ UNCHANGED <<buffer, said, seen, store, fate>>

\* The frame at the head of what the plugin's socket was sent.
Hears(type) ==
    /\ plugin.conn # None
    /\ wire[plugin.conn].down # <<>>
    /\ Head(wire[plugin.conn].down).type = type
Heard     == Head(wire[plugin.conn].down)
Listening == [wire EXCEPT ![plugin.conn].down = Tail(@)]

\* Mutant: what is owed waits for the next event to be said.
OnWelcomeSilent ==
    /\ Hears("welcome")
    /\ buffer' = [buffer EXCEPT !.pending = {e \in @ : e.seq > Heard.acked}]
    /\ wire' = Listening
    /\ plugin' = [plugin EXCEPT !.welcomed = TRUE]
    /\ UNCHANGED <<said, session, current, seen, store, fate>>

\* OnWelcome: what the orchestrator has is dropped, the rest is sent again in one frame.
OnWelcome ==
    /\ Hears("welcome")
    /\ LET owed == {e \in buffer.pending : e.seq > Heard.acked} IN
       /\ buffer' = [buffer EXCEPT !.pending = owed]
       /\ wire' = IF owed = {} \/ wire[plugin.conn].end = "closed" THEN Listening
                  ELSE [Listening EXCEPT ![plugin.conn].up = Append(@, Events(owed))]
    /\ plugin' = [plugin EXCEPT !.welcomed = TRUE]
    /\ UNCHANGED <<said, session, current, seen, store, fate>>

OnAck ==
    /\ Hears("ack")
    /\ buffer' = [buffer EXCEPT !.pending = {e \in @ : e.seq \notin Heard.seqs}]
    /\ wire' = Listening
    /\ UNCHANGED <<plugin, said, session, current, seen, store, fate>>

\* Dispatch: an assignment waits for the game thread.
OnAssign ==
    /\ Hears("assign")
    /\ plugin' = [plugin EXCEPT !.inbox = @ + 1]
    /\ wire' = Listening
    /\ UNCHANGED <<buffer, said, session, current, seen, store, fate>>

\* Pump and the runtime's OnAssign: the match is held, and its hints start over.
Pump ==
    /\ plugin.inbox > 0
    /\ plugin' = [plugin EXCEPT !.inbox = @ - 1, !.held = TRUE, !.hint = 0]
    /\ renumbered' = (renumbered \/ said > 0)
    /\ UNCHANGED <<buffer, said, wire, session, current, seen, store,
                   drops, crashes, throws, wipes, reloads>>

\* The session is over: _session is null.
HangUp == plugin' = [plugin EXCEPT !.conn = None, !.welcomed = FALSE]

\* The plugin learns that its socket is closed.
Notice ==
    /\ plugin.conn # None
    /\ wire[plugin.conn].end # "open"
    /\ HangUp
    /\ wire' = [wire EXCEPT ![plugin.conn].down = <<>>]
    /\ UNCHANGED <<buffer, said, session, current, seen, store, fate>>

-----------------------------------------------------------------------------
(* The orchestrator.                                                       *)

\* Mutant: the row's count is believed, whatever the plugin says it counted.
ResumeAtOfRow(last) == acked

\* A plugin whose counter is behind the row's started afresh: its count is followed.
ResumeAt(last) == Lower(acked, last)

\* greet, until its first write: the row is read, the session there was is replaced.
Greet(c) ==
    /\ session[c].at = "none"
    /\ wire[c].up # <<>>
    /\ wire[c].end = "open"
    /\ session' = [session EXCEPT ![c] =
           [NoSession EXCEPT !.at = "greeting", !.held = Head(wire[c].up).held,
                             !.acked = ResumeAt(Head(wire[c].up).last)]]
    /\ LET taken == [wire EXCEPT ![c].up = Tail(@)] IN
       wire' = IF current = None THEN taken ELSE Closing(taken, current)
    /\ UNCHANGED <<server, current, seen, store, fate>>

\* A hello that is handled after its socket closed opens nothing.
GreetTooLate(c) ==
    /\ session[c].at = "none"
    /\ wire[c].up # <<>>
    /\ wire[c].end # "open"
    /\ wire' = [wire EXCEPT ![c].up = <<>>]
    /\ UNCHANGED <<server, session, current, seen, store, fate>>

\* greet, from its write on: the row follows the session, and the server is welcomed, and
\* assigned the row's match unless it holds it.
Admit(c) ==
    /\ session[c].at = "greeting"
    /\ acked' = session[c].acked
    /\ session' = [session EXCEPT ![c].at = "ready"]
    /\ current' = c
    /\ wire' = [wire EXCEPT ![c].down =
           IF wire[c].end # "open" THEN @
           ELSE @ \o (IF session[c].held THEN <<Welcome(session[c].acked)>>
                      ELSE <<Welcome(session[c].acked), Assign>>)]
    /\ UNCHANGED <<server, seen, log, fate>>

\* The next frame of the session's chain.
Take(c) ==
    /\ session[c].at = "ready" /\ session[c].batch = {} /\ session[c].results = {}
    /\ wire[c].up # <<>>
    /\ session' = [session EXCEPT ![c].batch = Head(wire[c].up).events]
    /\ wire' = [wire EXCEPT ![c].up = Tail(@)]
    /\ UNCHANGED <<server, current, seen, store, fate>>

Taken(s, seq) == seq <= s.acked \/ seq \in s.window

\* A seq joins the window, and the acknowledged seq follows as far as there is no gap.
Advanced(s, seq) ==
    LET window == s.window \cup {seq}
        reach  == CHOOSE a \in s.acked..(s.acked + Cardinality(window)) :
                      (s.acked + 1)..a \subseteq window /\ a + 1 \notin window
    IN [s EXCEPT !.acked = reach, !.window = {n \in window : n > reach}]

\* Mutant: only the link's own seqs are told apart.
IngestUnseen(c) ==
    LET s == session[c]
        e == Least(s.batch)
        rest == [s EXCEPT !.batch = @ \ {e}, !.results = @ \cup {e.seq}]
        new == ~Taken(s, e.seq)
    IN
    /\ s.batch # {}
    /\ session' = [session EXCEPT ![c] =
                       IF Taken(s, e.seq) THEN rest ELSE Advanced(rest, e.seq)]
    /\ seen' = IF new THEN seen \cup {e.hint} ELSE seen
    /\ log' = IF new THEN Append(log, e) ELSE log
    /\ UNCHANGED <<server, wire, current, acked, fate>>

\* ingestBatch, one event: a seq taken before is a duplicate, and so is a hint the machine
\* has seen; what is left goes to the durable log.
Ingest(c) ==
    LET s == session[c]
        e == Least(s.batch)
        rest == [s EXCEPT !.batch = @ \ {e}, !.results = @ \cup {e.seq}]
        new == ~Taken(s, e.seq) /\ e.hint \notin seen
    IN
    /\ s.batch # {}
    /\ session' = [session EXCEPT ![c] =
                       IF Taken(s, e.seq) THEN rest ELSE Advanced(rest, e.seq)]
    /\ seen' = IF new THEN seen \cup {e.hint} ELSE seen
    /\ log' = IF new THEN Append(log, e) ELSE log
    /\ UNCHANGED <<server, wire, current, acked, fate>>

\* ingestBatch, its end: the row, then the ack.
Persist(c) ==
    /\ session[c].batch = {} /\ session[c].results # {}
    /\ acked' = session[c].acked
    /\ wire' = SendDown(c, Ack(session[c].results))
    /\ session' = [session EXCEPT ![c].results = {}]
    /\ UNCHANGED <<server, current, seen, log, fate>>

-----------------------------------------------------------------------------
(* What befalls them.                                                      *)

\* The socket breaks at the plugin's end; the orchestrator's is none the wiser.
DropAtPlugin ==
    /\ drops < MaxDrops
    /\ plugin.conn # None
    /\ drops' = drops + 1
    /\ HangUp
    /\ wire' = [wire EXCEPT ![plugin.conn].down = <<>>]
    /\ UNCHANGED <<buffer, said, session, current, seen, store,
                   crashes, throws, wipes, reloads, renumbered>>

\* The socket breaks under the orchestrator's end: of what the plugin sent, n frames arrived.
DropAtOrchestrator(c, n) ==
    /\ drops < MaxDrops
    /\ plugin.conn = c
    /\ wire[c].end # "closed"
    /\ drops' = drops + 1
    /\ wire' = [wire EXCEPT ![c].end = "closed", ![c].up = SubSeq(@, 1, n)]
    /\ UNCHANGED <<server, session, current, seen, store,
                   crashes, throws, wipes, reloads, renumbered>>

\* Nothing comes on a socket the plugin left: the hello timer or the silence timer closes it.
Silence(c) ==
    /\ plugin.conn # c
    /\ wire[c].end = "open"
    /\ wire' = [wire EXCEPT ![c].end = "closed"]
    /\ UNCHANGED <<server, session, current, seen, store, fate>>

Befalls(kind) == kind \in Mishaps /\ crashes + throws + wipes + reloads < MaxMishaps

\* The orchestrator's process dies and another takes its place.
Crash ==
    /\ Befalls("crash")
    /\ crashes' = crashes + 1
    /\ wire' = [c \in Sockets |-> [wire[c] EXCEPT !.end = "closed", !.up = <<>>]]
    /\ session' = [c \in Sockets |-> NoSession]
    /\ current' = None
    /\ seen' = {}
    /\ UNCHANGED <<server, store, drops, throws, wipes, reloads, renumbered>>

\* The store throws under the machine's emit: the event is marked as seen by then, the rest
\* of the frame is dropped, and the socket is closed.
Throw(c) ==
    LET s == session[c]
        e == Least(s.batch)
    IN
    /\ Befalls("throw")
    /\ s.batch # {} /\ ~Taken(s, e.seq) /\ e.hint \notin seen
    /\ throws' = throws + 1
    /\ seen' = seen \cup {e.hint}
    /\ session' = [session EXCEPT ![c].batch = {}, ![c].results = {}]
    /\ wire' = Closing(wire, c)
    /\ UNCHANGED <<server, current, store, drops, crashes, wipes, reloads, renumbered>>

\* The plugin is loaded anew; its buffer is on disk.
Restarted ==
    /\ plugin' = Unlinked
    /\ wire' = IF plugin.conn = None THEN wire ELSE [wire EXCEPT ![plugin.conn].down = <<>>]
    /\ UNCHANGED <<said, session, current, seen, store, drops, crashes, throws, renumbered>>

Reload ==
    /\ Befalls("reload")
    /\ reloads' = reloads + 1
    /\ Restarted
    /\ UNCHANGED <<buffer, wipes>>

\* The plugin is installed anew: the buffer is gone too.
Wipe ==
    /\ Befalls("wipe")
    /\ wipes' = wipes + 1
    /\ Restarted
    /\ buffer' = [last |-> 0, pending |-> {}]
    /\ UNCHANGED reloads

-----------------------------------------------------------------------------
Plugin == Emit \/ OnWelcome \/ OnAck \/ OnAssign \/ Pump \/ Notice \/ \E c \in Sockets : Dial(c)

Orchestrator(c) ==
    Greet(c) \/ GreetTooLate(c) \/ Admit(c) \/ Take(c) \/ Ingest(c) \/ Persist(c) \/ Silence(c)

Network == \/ DropAtPlugin
           \/ \E c \in Sockets : \E n \in 0..Len(wire[c].up) : DropAtOrchestrator(c, n)
Fault   == Crash \/ Reload \/ Wipe \/ \E c \in Sockets : Throw(c)

Next == Plugin \/ (\E c \in Sockets : Orchestrator(c)) \/ Network \/ Fault
Spec == Init /\ [][Next]_vars

-----------------------------------------------------------------------------
(* What holds of the link.                                                 *)

LogIds == {log[i].id : i \in 1..Len(log)}

Frame  == [type : {"hello"}, last : Nat, held : BOOLEAN]
              \cup [type : {"events"}, events : SUBSET Event]
Answer == [type : {"welcome"}, acked : Nat] \cup [type : {"assign"}]
              \cup [type : {"ack"}, seqs : SUBSET Nat]

BufferType  == [last : Nat, pending : SUBSET Event]
PluginType  == [conn : Sockets \cup {None}, welcomed : BOOLEAN, held : BOOLEAN,
                hint : Nat, inbox : Nat]
WireType    == [end : {"open", "closing", "closed"}, up : Seq(Frame), down : Seq(Answer)]
SessionType == [at : {"none", "greeting", "ready"}, held : BOOLEAN, acked : Nat,
                window : SUBSET Nat, batch : SUBSET Event, results : SUBSET Nat]

\* Types, and that only a session there is counts as welcomed: Emit and Send read both.
TypeOK ==
    /\ buffer \in BufferType /\ plugin \in PluginType /\ said \in Nat
    /\ plugin.welcomed => plugin.conn # None
    /\ wire \in [Sockets -> WireType]
    /\ session \in [Sockets -> SessionType]
    /\ current \in Sockets \cup {None}
    /\ acked \in Nat /\ seen \in SUBSET Nat /\ log \in Seq(Event)
    /\ drops \in Nat /\ crashes \in Nat /\ throws \in Nat /\ wipes \in Nat /\ reloads \in Nat
    /\ renumbered \in BOOLEAN

\* Every event said is in the match's log, or the plugin still has it.
Kept == \A n \in 1..said : n \in LogIds \/ \E e \in buffer.pending : e.id = n

\* The three things that are known to lose events did not happen.
Sound == throws = 0 /\ wipes = 0 /\ ~renumbered

\* The plugin forgets an event only when the match's log has it: IEventBuffer.cs promises that
\* every event reaches the orchestrator, across the breaks, the crashes and the reconnects.
NothingLost == Sound => Kept

\* The log has no gap: what one event led to is never there before the event.
InOrder == Sound => \A i \in 1..Len(log) : 1..(log[i].id) \subseteq {log[k].id : k \in 1..i}

\* A resend over any number of sockets is told from a new event as long as the process lives.
LoggedOnce == crashes = 0 => \A i, k \in 1..Len(log) : log[i].id = log[k].id => i = k

\* What IEventBuffer.cs:7-11 says of the buffer and its resend, for a plugin that is never
\* assigned its match a second time: at least once, a store that throws or not.
KeptThroughThrows == wipes = 0 /\ ~renumbered => Kept

\* The same, for a store that never throws: a match that is resumed after a reload of the
\* plugin has the events it says from then on too.
KeptThroughReloads == throws = 0 /\ wipes = 0 => Kept

\* A session never counts as taken a seq its server is yet to hand out: with one, the next
\* events would be answered as duplicates and forgotten.
NeverAhead ==
    plugin.welcomed /\ session[plugin.conn].at = "ready" =>
        session[plugin.conn].acked <= buffer.last

-----------------------------------------------------------------------------
(* The feed the link is for.                                               *)

\* How far the log holds everything that was said, counted from the first event.
Known == Cardinality({n \in 1..said : 1..n \subseteq LogIds})
Feed  == INSTANCE EventFeed WITH known <- Known

\* A plugin that keeps running and dials with no assignment on its hands: the games' thread
\* is far ahead of the backoff between two sockets.
SteadyPlugin == Emit \/ OnWelcome \/ OnAck \/ OnAssign \/ Pump \/ Notice
                \/ (plugin.inbox = 0 /\ \E c \in Sockets : Dial(c))
SteadyNext   == SteadyPlugin \/ (\E c \in Sockets : Orchestrator(c)) \/ Network \/ Crash

\* Both ends are event loops that come round to what is queued for them; the plugin dials for
\* as long as it has no socket.  Nothing makes the server speak, or the network break.
Fairness ==
    /\ WF_vars(OnWelcome \/ OnAck \/ OnAssign) /\ WF_vars(Pump) /\ WF_vars(Notice)
    /\ WF_vars(plugin.inbox = 0 /\ \E c \in Sockets : Dial(c))
    /\ \A c \in Sockets : WF_vars(Orchestrator(c))

SteadySpec == Init /\ [][SteadyNext]_vars /\ Fairness

\* Whatever breaks, the log grows by the next event said or not at all.
FeedIsUnbroken == Feed!Unbroken

\* The link implements the feed: the log is never ahead of what it lacks, and gets there.
ImplementsFeed == Feed!Spec
=============================================================================
