------------------------------ MODULE FakeMatch ------------------------------
(***************************************************************************)
(* One match of the fake orchestrator, packages/match-api/src/fake/core.ts,*)
(* played by the simulated server of packages/sim/src/server.ts.           *)
(*                                                                         *)
(* A step of the match's chain is one synchronous stretch of code: nothing *)
(* comes between its writes, but its subscribers are called at each fact   *)
(* and see the match as it is at that write.  So a step does its private   *)
(* writes at once and leaves what a client can see in `out`, one write     *)
(* after the other; nothing else happens until out is empty.  The one      *)
(* handler that waits is uploadDemo: while it does, the chain fills.       *)
(*                                                                         *)
(* Time is abstract.  A deadline may fire whenever it is armed, except     *)
(* that a server that beats is heard in time: its heartbeat interval is a  *)
(* third of the silence the fake allows (SIM_DEFAULTS).                    *)
(***************************************************************************)
EXTENDS Naturals, Sequences

CONSTANTS
    Plans,        \* the stories this instance plays, a subset of DOMAIN Story
    Asked,        \* the client's commands of this instance, each with its correlationId
    Recovers,     \* sim.autoRecover: whether a lost server is replaced without being asked
    MaxServers,   \* bound: servers obtained before the last loss is noticed
    MaxChain,     \* bound: what waits on the chain when an outsider adds a step
    MaxSends      \* bound: what the client sends, commands and retries together

Before   == {"pending", "allocating", "configuring", "ready"}
Terminal == {"ended", "failed", "cancelled"}
Commands == {"restore", "force_end", "reprovision", "pause", "unpause"}
Deadlines == {"allocation", "ready", "heartbeat", "recovery", "ttl"}

\* What a simulated server says of its own accord, as far as the match listens.  It need not
\* come to the end: a box that never boots, a warmup nobody joins stop in the middle.  The last
\* beat of a crash is the box's own, and a bare one leaves no backup (faults.crash.backup).
Story == [full  |-> <<"server_ready", "going_live", "backup_written",
                      "demo_available", "series_end">>,
          crash |-> <<"server_ready", "going_live", "backup_written">>,
          bare  |-> <<"server_ready", "going_live", "backup_written">>]
Resumed == Story["full"]   \* the story from a backup on: the crash is disarmed

ASSUME FakeAssumption ==
    /\ Plans \subseteq DOMAIN Story
    /\ Asked \subseteq Commands
    /\ Recovers \subseteq BOOLEAN
    /\ {MaxServers, MaxChain, MaxSends} \subseteq Nat

VARIABLES
    state, fact, told,   \* what a client sees: Match.state, the last match.* fact, and whether
                         \* match.server_ready came since the last match.recovering
    out,      \* what the running step has still to show
    record,   \* the MatchRecord: whether it holds a ledger row, readyAt, restoring, ...
    open,     \* the ledger's open rows of this match
    server,   \* the simulated server the record holds; id 0 when there is none
    timers,   \* the record's armed deadlines
    chain,    \* the steps queued on the match
    busy,     \* uploadDemo holds the chain
    done,     \* the commands whose result is cached
    sends     \* how much the client has sent

seen == <<state, fact, told>>
vars == <<seen, out, record, open, server, timers, chain, busy, done, sends>>

-----------------------------------------------------------------------------
(* The simulated server.                                                   *)

None == [id |-> 0, beats |-> <<>>, dies |-> FALSE, playing |-> FALSE, ready |-> FALSE,
         crashed |-> FALSE, beating |-> FALSE, backups |-> FALSE, late |-> {}]

\* createSimulatedServer, assign and start; a restore only changes the story.
Booted(beats, dies) ==
    [None EXCEPT !.id = record.servers + 1, !.beats = beats, !.dies = dies, !.playing = TRUE]

Crash(s) == [s EXCEPT !.crashed = TRUE, !.playing = FALSE, !.beating = FALSE]
Stop(s)  == IF s.crashed THEN s ELSE [s EXCEPT !.playing = FALSE, !.beating = FALSE]
Start(s) == IF s.playing THEN s ELSE [s EXCEPT !.playing = TRUE, !.beating = s.ready]

\* emitBeat: what a beat does to the server that deals it; with its last one a box may die.
Dealt(s) ==
    LET b    == Head(s.beats)
        next == [s EXCEPT !.beats   = Tail(@),
                          !.ready   = (@ \/ b = "server_ready") /\ b # "series_end",
                          !.beating = (@ \/ b = "server_ready") /\ b # "series_end",
                          !.backups = @ \/ b = "backup_written"]
    IN  IF next.beats = <<>> /\ s.dies THEN Crash(next) ELSE next

-----------------------------------------------------------------------------
(* The match's chain, and what a step shows.                               *)

Step(kind)         == [kind |-> kind, of |-> 0, type |-> "none", n |-> 0]
Event(id, type, n) == [kind |-> "event", of |-> id, type |-> type, n |-> n]

\* No step is running and the microtasks have drained, or the chain waits for an upload.
Settled == out = <<>> /\ (chain = <<>> \/ busy)

\* enqueue, from outside the chain.
Arrives(steps) ==
    /\ Settled
    /\ Len(chain) < MaxChain
    /\ chain' = chain \o steps

Say(f)     == <<[state |-> "same", fact |-> f]>>
Move(s)    == <<[state |-> s, fact |-> "same"]>>
Both(s, f) == <<[state |-> s, fact |-> f]>>

\* setState and emit, as a subscriber sees them.
Show ==
    /\ out # <<>>
    /\ LET w == Head(out) IN
       /\ state' = IF w.state = "same" THEN state ELSE w.state
       /\ fact'  = IF w.fact = "same" THEN fact ELSE w.fact
       /\ told'  = CASE w.fact = "match.server_ready" -> TRUE
                     [] w.fact = "match.recovering"   -> FALSE
                     [] OTHER                         -> told
    /\ out' = Tail(out)
    /\ UNCHANGED <<record, open, server, timers, chain, busy, done, sends>>

\* The head of the chain starts.
Begins(kinds) ==
    /\ out = <<>> /\ ~busy /\ chain # <<>>
    /\ Head(chain).kind \in kinds
    /\ chain' = Tail(chain)

Alive    == state \notin Terminal
Finish   == UNCHANGED <<seen, busy, sends>>
\* A step that finds nothing to do.
Returns  == UNCHANGED <<out, record, open, server, timers>>

-----------------------------------------------------------------------------
(* The pieces the steps are made of.                                       *)

\* Mutant: the row goes with its server only: one still being obtained stays open.
ClosedByServer(n) == n - (IF server # None THEN 1 ELSE 0)

\* closeRow and dropServer: the row the record holds, if it holds one.
Closed(n) == n - (IF record.row THEN 1 ELSE 0)
Dropped(ts) == ts \ {"ready", "heartbeat"}

\* end: every deadline, the server and its row go, then the state and its fact.
Ends(shown, s) ==
    /\ timers' = {}
    /\ server' = None
    /\ record' = [record EXCEPT !.row = FALSE]
    /\ open'   = Closed(open)
    /\ out'    = shown \o Both(s, IF s = "failed" THEN "match.failed" ELSE "match.ended")

\* restoreFrom, on a record whose last row is closed: a row, a server, its fact, its boot.
Restores(shown, ts, n) ==
    /\ record' = [record EXCEPT !.row = TRUE, !.restoring = TRUE, !.servers = @ + 1, !.seen = {}]
    /\ open'   = n + 1
    /\ server' = Booted(Resumed, FALSE)
    /\ timers' = (ts \ {"recovery"}) \cup {"ready"}
    /\ out'    = shown \o Say("match.allocated")

\* lost: said, then shown; then the newest backup decides.
Backups == server.backups /\ record.plan # "bare"
Lost(restoreNow) ==
    LET shown == Say("match.recovering") \o Move("recovering") IN
    \/ /\ ~Backups
       /\ Ends(shown, "failed")
    \/ /\ Backups /\ (record.recovers \/ restoreNow)
       /\ Restores(shown, Dropped(timers), Closed(open))
    \/ /\ Backups /\ ~record.recovers /\ ~restoreNow
       /\ timers' = Dropped(timers) \cup {"recovery"}
       /\ server' = None
       /\ record' = [record EXCEPT !.row = FALSE, !.recoverable = TRUE]
       /\ open'   = Closed(open)
       /\ out'    = shown

\* armHeartbeat.
Armed(ts, paused) == IF paused THEN ts \ {"heartbeat"} ELSE ts \cup {"heartbeat"}

-----------------------------------------------------------------------------
(* The deadlines and what they queue.                                      *)

\* createMatch, once the door has let the request in.
Init ==
    /\ state = "pending" /\ fact = "none" /\ told = FALSE
    /\ out = Move("allocating")
    /\ record \in [plan : Plans, recovers : Recovers, servers : {0}, row : {TRUE}, seen : {{}},
                   readyAt : {FALSE}, restoring : {FALSE}, paused : {FALSE}, recoverable : {FALSE}]
    /\ open   = 1
    /\ server = None
    /\ timers = {"allocation", "ttl"}
    /\ chain  = <<>>
    /\ busy   = FALSE
    /\ done   = {}
    /\ sends  = 0

\* A beating server is heard in time, unless the chain is held up.
Due(t) == t = "heartbeat" => (busy \/ ~server.beating) /\ record.servers < MaxServers

Fire(t) ==
    /\ t \in timers /\ Due(t)
    /\ Arrives(<<Step(t)>>)
    /\ timers' = timers \ {t}
    /\ UNCHANGED <<seen, out, record, open, server, busy, done, sends>>

Allocated ==
    /\ Begins({"allocation"})
    /\ IF Alive
       THEN /\ record' = [record EXCEPT !.servers = @ + 1, !.seen = {}]
            /\ server' = Booted(Story[record.plan], record.plan # "full")
            /\ timers' = timers \cup {"ready"}
            /\ out'    = Say("match.allocated") \o Move("configuring")
            /\ UNCHANGED open
       ELSE Returns
    /\ Finish /\ UNCHANGED done

Expire ==
    /\ Begins({"ttl"})
    /\ IF Alive THEN Ends(<<>>, "ended") ELSE Returns
    /\ Finish /\ UNCHANGED done

NeverReady ==
    /\ Begins({"ready"})
    /\ IF Alive /\ ~record.readyAt THEN Ends(<<>>, "failed") ELSE Returns
    /\ Finish /\ UNCHANGED done

NotRestored ==
    /\ Begins({"recovery"})
    /\ IF Alive THEN Ends(<<>>, "failed") ELSE Returns
    /\ Finish /\ UNCHANGED done

Silent ==
    /\ Begins({"heartbeat"})
    /\ IF Alive /\ ~record.restoring /\ server # None THEN Lost(FALSE) ELSE Returns
    /\ Finish /\ UNCHANGED done

-----------------------------------------------------------------------------
(* The server plays, and the match hears it.                               *)

\* A beat comes due (scheduleNext).  It has a number, 0 for a heartbeat, which is not a beat
\* of the story; the server's chaos may send it twice.
NextBeat == Event(server.id, Head(server.beats), Len(server.beats))
Playable == server.playing /\ server.beats # <<>>

Beat ==
    /\ Playable
    /\ Arrives(<<NextBeat>>) \/ Arrives(<<NextBeat, NextBeat>>)
    /\ server' = Dealt(server)
    /\ UNCHANGED <<seen, out, record, open, timers, busy, done, sends>>

Heartbeat ==
    /\ server.beating
    /\ Arrives(<<Event(server.id, "heartbeat", 0)>>)
    /\ UNCHANGED <<seen, out, record, open, server, timers, busy, done, sends>>

\* onServerEvent: the record's own server, a match that is open, an event not yet taken.
Taken(e) == server.id = e.of /\ Alive /\ e.n \notin record.seen
Marked   == [record EXCEPT !.seen = @ \cup ({Head(chain).n} \ {0})]

Hears(types) ==
    /\ Begins({"event"})
    /\ Head(chain).type \in types
    /\ Taken(Head(chain))
    /\ UNCHANGED <<seen, done, sends>>

Unheard ==
    /\ Begins({"event"})
    /\ ~Taken(Head(chain))
    /\ Returns /\ Finish /\ UNCHANGED done

ServerReady ==
    /\ Hears({"server_ready"})
    /\ record' = [Marked EXCEPT !.readyAt = TRUE]
    /\ timers' = Armed(timers, record.paused) \ {"ready"}
    /\ out'    = (IF record.restoring THEN <<>> ELSE Move("ready")) \o Say("match.server_ready")
    /\ UNCHANGED <<open, server, busy>>

\* Mutant: live again before the recovery is said.
GoingLiveFirst ==
    /\ Hears({"going_live"})
    /\ record' = [Marked EXCEPT !.restoring = FALSE]
    /\ timers' = Armed(timers, record.paused)
    /\ out'    = Move("live") \o (IF record.restoring THEN Say("match.recovered") ELSE <<>>)
    /\ UNCHANGED <<open, server, busy>>

GoingLive ==
    /\ Hears({"going_live"})
    /\ record' = [Marked EXCEPT !.restoring = FALSE]
    /\ timers' = Armed(timers, record.paused)
    /\ out'    = (IF record.restoring THEN Say("match.recovered") ELSE <<>>) \o Move("live")
    /\ UNCHANGED <<open, server, busy>>

\* demo_available: the chain waits until the client's storage has answered.
DemoAvailable ==
    /\ Hears({"demo_available"})
    /\ record' = Marked
    /\ timers' = Armed(timers, record.paused)
    /\ busy'   = TRUE
    /\ UNCHANGED <<out, open, server>>

Uploaded ==
    /\ busy /\ busy' = FALSE
    /\ UNCHANGED <<seen, out, record, open, server, timers, chain, done, sends>>

SeriesEnd ==
    /\ Hears({"series_end"})
    /\ Ends(<<>>, "ended")
    /\ UNCHANGED busy

\* Anything else only says the server is there.
Else ==
    /\ Hears({"backup_written", "heartbeat"})
    /\ record' = Marked
    /\ timers' = Armed(timers, record.paused)
    /\ UNCHANGED <<out, open, server, busy>>

-----------------------------------------------------------------------------
(* What a client or an operator asks.                                      *)

Asks(kinds) == \E k \in kinds : Arrives(<<Step(k)>>)

Send ==
    /\ Asks(Asked)
    /\ sends < MaxSends /\ sends' = sends + 1
    /\ UNCHANGED <<seen, out, record, open, server, timers, busy, done>>

\* cancelMatch, and releaseServer on the row of the match's server.
Order ==
    /\ Asks({"cancel"} \cup IF server # None THEN {"release"} ELSE {})
    /\ UNCHANGED <<seen, out, record, open, server, timers, busy, done, sends>>

Cancel ==
    /\ Begins({"cancel"})
    /\ IF state \in Before THEN Ends(<<>>, "cancelled") ELSE Returns
    /\ Finish /\ UNCHANGED done

Release ==
    /\ Begins({"release"})
    /\ IF Alive THEN Ends(<<>>, "failed") ELSE Returns
    /\ Finish /\ UNCHANGED done

\* command: a correlationId already answered gets the same answer.
Answers(c) == Begins({c}) /\ c \notin done /\ done' = done \cup {c} /\ Finish

Again ==
    /\ Begins(done)
    /\ Returns /\ Finish /\ UNCHANGED done

Restore ==
    /\ Answers("restore")
    /\ IF state = "recovering" /\ ~record.restoring /\ record.recoverable
       THEN Restores(<<>>, timers, open)
       ELSE Returns

ForceEnd ==
    /\ Answers("force_end")
    /\ IF state \in {"ready", "live", "recovering"} THEN Ends(<<>>, "ended") ELSE Returns

\* Mutant: the drop of the server's deadlines takes the ttl with it.
ReallocatesTimeless ==
    /\ timers' = {"allocation"}
    /\ server' = None
    /\ record' = [record EXCEPT !.row = TRUE, !.readyAt = FALSE]
    /\ open'   = Closed(open) + 1
    /\ out'    = Move("allocating")

\* reallocate: another server for the same match, before it is live.
Reallocates ==
    /\ timers' = Dropped(timers) \cup {"allocation"}
    /\ server' = None
    /\ record' = [record EXCEPT !.row = TRUE, !.readyAt = FALSE]
    /\ open'   = Closed(open) + 1
    /\ out'    = Move("allocating")

Reprovision ==
    /\ Answers("reprovision")
    /\ CASE state \in Before                    -> Reallocates
         [] state = "live" /\ server.backups -> Lost(TRUE)
         [] OTHER                              -> Returns

Pause ==
    /\ Answers("pause")
    /\ IF state = "live"
       THEN /\ server' = Stop(server)
            /\ record' = [record EXCEPT !.paused = TRUE]
            /\ timers' = timers \ {"heartbeat"}
            /\ UNCHANGED <<out, open>>
       ELSE Returns

\* A server that died in the meantime throws: the pause is over, and nothing is answered.
Unpause ==
    /\ Begins({"unpause"}) /\ "unpause" \notin done /\ Finish
    /\ IF state = "live"
       THEN /\ record' = [record EXCEPT !.paused = FALSE]
            /\ server' = IF server.crashed THEN server ELSE Start(server)
            /\ timers' = IF server.crashed THEN timers ELSE Armed(timers, FALSE)
            /\ done'   = IF server.crashed THEN done ELSE done \cup {"unpause"}
            /\ UNCHANGED <<out, open>>
       ELSE Returns /\ done' = done \cup {"unpause"}

\* The head of the chain, or nothing when it waits.
Run ==
    \/ Allocated \/ Expire \/ NeverReady \/ NotRestored \/ Silent
    \/ Unheard \/ ServerReady \/ GoingLive \/ DemoAvailable \/ SeriesEnd \/ Else
    \/ Cancel \/ Release \/ Again
    \/ Restore \/ ForceEnd \/ Reprovision \/ Pause \/ Unpause

Next ==
    \/ Show \/ Run \/ Uploaded
    \/ \E t \in Deadlines : Fire(t)
    \/ Beat \/ Heartbeat
    \/ Send \/ Order

Spec == Init /\ [][Next]_vars

\* A step that runs ends, and the client's storage answers.  The ttl is a deadline of the
\* clock: what a server says can come before it again and again, not for ever.
FairSpec ==
    /\ Spec
    /\ WF_vars(Show) /\ WF_vars(Run) /\ WF_vars(Uploaded)
    /\ SF_vars(Fire("ttl"))

\* What a test or a dev world may do to the simulated server besides: kill the box (sim.kill),
\* or have its chaos hold a beat back, which later arrives behind the ones that followed it.
Kill ==
    /\ Settled /\ ~busy /\ server # None
    /\ server' = Crash(server)
    /\ UNCHANGED <<seen, out, record, open, timers, chain, busy, done, sends>>

Hold ==
    /\ Settled /\ Playable
    /\ server' = [Dealt(server) EXCEPT !.late = @ \cup {NextBeat}]
    /\ UNCHANGED <<seen, out, record, open, timers, chain, busy, done, sends>>

LetGo ==
    \E e \in server.late :
        /\ Arrives(<<e>>)
        /\ server' = [server EXCEPT !.late = @ \ {e}]
        /\ UNCHANGED <<seen, out, record, open, timers, busy, done, sends>>

KilledSpec  == Init /\ [][Next \/ Kill]_vars
ChaoticSpec == Init /\ [][Next \/ Hold \/ LetGo]_vars

-----------------------------------------------------------------------------
(* Properties.                                                             *)

\* The fake does not lie about the orchestrator (core.ts, mintKey): what its client sees of a
\* match, fact by fact and state by state, is what the Match API's lifecycle allows.
Lifecycle == INSTANCE MatchLifecycle
ImplementsLifecycle == Lifecycle!Spec

\* The ledger has an open row for the match exactly while the record holds one, and the record
\* holds one exactly while a server is being obtained or is there: a row that outlived its
\* server would count against the key's ceiling for good.
Obtaining == "allocation" \in timers \/ \E i \in 1..Len(chain) : chain[i].kind = "allocation"
RowsAreHeld ==
    /\ open = IF record.row THEN 1 ELSE 0
    /\ record.row <=> server # None \/ Obtaining

\* Whatever the client asks, however often the server is lost and however long an upload keeps
\* the chain, the match comes to an end.
EventuallyEnds == <>(state \in Terminal)

\* The loss detector, as armHeartbeat's comment has it: a server that plays a live match, or
\* has died under one that is not paused, has a deadline running against its silence.
Watched ==
    out = <<>> /\ state = "live" /\ (server.playing \/ (server.crashed /\ ~record.paused))
        => "heartbeat" \in timers \/ \E i \in 1..Len(chain) : chain[i].kind = "heartbeat"

=============================================================================
