---------------------------- MODULE MatchMachine ----------------------------
(***************************************************************************)
(* One match of the orchestrator, apps/orchestrator/src/match/machine.ts,  *)
(* with the ledger rows and provider servers it opens, the chain its steps *)
(* run on, its deadlines, the reaper (providers/reaper.ts), and a process  *)
(* that may die between any two awaits and come back through resume().     *)
(*                                                                         *)
(* The grain is the awaited write: a handler that writes the store twice   *)
(* is two actions joined by job.pc, because a crash, or an event that joins*)
(* the chain, can fall between them.  The chain is held from a handler's   *)
(* first action to its last, so no two handlers of the match interleave;   *)
(* what does interleave is everything off the chain.                       *)
(*                                                                         *)
(* Time is abstract: an armed deadline may fire at any moment.  A ledger   *)
(* row and the server obtained for it share one name, because every        *)
(* allocate returns a fresh handle.                                        *)
(***************************************************************************)
EXTENDS Naturals, Sequences, FiniteSets

CONSTANTS
    Rows,          \* ledger row ids: how many servers this match can be given
    None,          \* the null column
    Said,          \* the server events of this instance, a subset of Events
    Asked,         \* the client commands of this instance, a subset of Commands
    Sweeps,        \* the reaper runs in this instance
    RecordsDemo,   \* the gamemode records a demo and the request says where to put it
    MaxMaps,       \* the maps of the series
    MaxChain,      \* bound: what waits on the chain when an outsider adds a step
    MaxMishaps     \* bound: process deaths and failed store calls, together

Open      == {"pending", "allocating", "configuring", "ready", "live", "recovering"}
Terminal  == {"ended", "failed", "cancelled"}
States    == Open \cup Terminal
Probeable == {"configuring", "ready", "live", "recovering"}

Timers   == {"allocate", "boot", "join", "recovery", "heartbeat", "ttl", "demo"}
Signs    == {"going_live", "round_end", "backup_restored"}
Events   == Signs \cup {"server_ready", "series_end", "demo_available", "player", "hello"}
Commands == {"cancel", "force_end", "restore", "reprovision", "pause", "unpause"}
Doors    == {"suspect", "expire", "orphan_found", "release"}
Kinds    == Timers \cup Events \cup Commands \cup Doors
              \cup {"provision", "recover", "completed"}

Reasons == {"completed", "force_ended", "cancelled", "ttl_expired",
            "server_lost", "allocation_failed", "provider_error"}
Facts   == {"none", "match.allocated", "match.server_ready", "match.recovering",
            "match.recovered", "match.ended", "match.failed"}

ASSUME MachineAssumption ==
    /\ IsFiniteSet(Rows) /\ None \notin Rows
    /\ Said \subseteq Events
    /\ Asked \subseteq Commands
    /\ RecordsDemo \in BOOLEAN /\ Sweeps \in BOOLEAN
    /\ MaxMaps \in Nat \ {0}
    /\ MaxChain \in Nat
    /\ MaxMishaps \in Nat

VARIABLES
    \* what the store holds
    match,     \* the matches row: state, endedReason.kind, fleetServerId, serverId
    ledger,    \* the servers rows: state, whether serverId is written, whether releasedAt is
    backup,    \* some round backup is stored
    logged,    \* of the durable log, what resume() reads back: series_end, the map of the last
               \* going_live, the demo_available rows and how many they are
    said,      \* of the durable log, the last match.* envelope, and whether
               \* match.server_ready came since the last match.recovering
    \* the world outside the process
    server,    \* each row's server, as its provider would list it
    \* the process's memory
    up, chain, job, timers, runtime,
    reaper,    \* the reaper's snapshot of open rows, and what it has seen orphaned
    crashes, faults,  \* process deaths, store calls that threw
    unread,    \* rows whose provider threw when server_ready asked it for their address
    forgot     \* did a restart come when resume() does not read the log back?

durable == <<match, ledger, backup, logged, said>>
memory  == <<up, chain, job, timers, runtime>>
mishaps == <<crashes, faults, unread, forgot>>
watch   == <<reaper, mishaps>>
vars    == <<durable, server, memory, watch>>

-----------------------------------------------------------------------------
NoEnd == [state |-> "none", kind |-> "none"]
Step(kind, from) == [kind |-> kind, from |-> from]

\* The step holding the chain: where it stands, where closeRow returns to, the verdict end()
\* carries, whose walk it is, the row the walk is on, and whether it found what it looked for.
IdleJob == [pc |-> "idle", after |-> "end", ending |-> NoEnd,
            walk |-> "none", cand |-> None, found |-> FALSE]

NewRuntime == [recovering |-> FALSE, replacementReady |-> FALSE, resumePending |-> None,
               paused |-> FALSE, awaitingDemo |-> FALSE,
               currentMap |-> 1, announced |-> 0, seen |-> {}]

IsTerminal == match.state \in Terminal
Current    == match.fleetServerId
IsOpen(r)  == ledger[r].state # "none" /\ ~ledger[r].released
IsBound(r) == ledger[r].bound

\* A fresh match as create() leaves it: the row, its ttl and the first walk queued.
Init ==
    /\ match   = [state |-> "pending", reason |-> "none", fleetServerId |-> None, serverId |-> None]
    /\ ledger  = [r \in Rows |-> [state |-> "none", bound |-> FALSE, released |-> FALSE]]
    /\ backup  = FALSE
    /\ logged  = [series |-> FALSE, map |-> 1, demos |-> {}, announced |-> 0]
    /\ said    = [fact |-> "none", told |-> FALSE]
    /\ server  = [r \in Rows |-> "none"]
    /\ up      = TRUE
    /\ chain   = <<Step("provision", None)>>
    /\ job     = IdleJob
    /\ timers  = {"ttl"}
    /\ runtime = NewRuntime
    /\ reaper  = [listing |-> FALSE, open |-> {}, orphaned |-> {}]
    /\ crashes = 0
    /\ faults  = 0
    /\ unread  = {}
    /\ forgot  = FALSE

-----------------------------------------------------------------------------
(* The chain.                                                              *)

\* The head of the chain is taken: its row was read fresh, nothing else runs.
Begin(kinds) ==
    /\ up
    /\ job.pc = "idle"
    /\ chain # <<>>
    /\ Head(chain).kind \in kinds

At(pc)   == up /\ job.pc = pc
Finished == job' = IdleJob
Queued(kinds) == \E i \in 1..Len(chain) : chain[i].kind \in kinds
Outsider(kind, from) == up /\ Len(chain) < MaxChain /\ chain' = Append(chain, Step(kind, from))

SetState(s)   == match' = [match EXCEPT !.state = s]
Emit(fact)    == said' = [said EXCEPT !.fact = fact]
\* Mutant: the row is marked closed but not released.
CloseOfUnreleased(r) == [ledger EXCEPT ![r].state = "closed"]
CloseOf(r)    == [ledger EXCEPT ![r].state = "closed", ![r].released = TRUE]
\* Mutant: only a live match has its silence deadline re-armed.
HeardWhenLive(ts) == IF match.state = "live" THEN ts \cup {"heartbeat"} ELSE ts
Heard(ts)     == IF runtime.paused THEN ts ELSE ts \cup {"heartbeat"}

\* An armed deadline fires: it leaves the timers and joins the chain like any other step.
Fire(t) ==
    /\ t \in timers
    /\ Outsider(t, None)
    /\ timers' = timers \ {t}
    /\ UNCHANGED <<durable, server, up, job, runtime, watch>>

-----------------------------------------------------------------------------
(* The end, and the closing of a row.                                      *)

\* Mutant: the end looks for the server id, not for the row.
EndByServerId(verdict) ==
    /\ timers' = {}
    /\ job' = [IdleJob EXCEPT !.ending = verdict,
                              !.pc = IF match.serverId = None THEN "end" ELSE "deallocate"]

\* end(): timers off, the current row closed, then the terminal state with its fact.
End(verdict) ==
    /\ timers' = {}
    /\ job' = [IdleJob EXCEPT !.ending = verdict,
                              !.pc = IF Current = None THEN "end" ELSE "deallocate"]

Ended(kind)  == [state |-> "ended", kind |-> kind]
Failed(kind) == [state |-> "failed", kind |-> kind]

\* Mutant: the first demo is taken for the last.
DemoPendingFirst(announced) == match.state # "ready" /\ RecordsDemo /\ announced = 0
\* Fewer demos have come than maps were played.
DemoPending(announced) ==
    match.state # "ready" /\ RecordsDemo /\ announced < runtime.currentMap

Accepts(r) == ~IsTerminal /\ r # None /\ match.serverId = r

\* What a step that only ever ends the match decides: a verdict, or nothing to do.
Verdict(s) ==
    LET st == match.state IN
    IF IsTerminal THEN NoEnd ELSE
    CASE s.kind \in {"ttl", "expire"}                              -> Ended("ttl_expired")
      [] s.kind = "completed"                                      -> Ended("completed")
      [] s.kind = "demo" /\ runtime.awaitingDemo                   -> Ended("completed")
      [] s.kind = "join" /\ st = "ready"                           -> Ended("ttl_expired")
      [] s.kind = "join" /\ st = "recovering"                      -> Failed("server_lost")
      [] s.kind = "recovery" /\ st = "recovering"                  -> Failed("server_lost")
      [] s.kind = "allocate" /\ st = "allocating"                  -> Failed("allocation_failed")
      [] s.kind = "boot" /\ st = "configuring"                     -> Failed("provider_error")
      [] s.kind = "hello" /\ Accepts(s.from)                       -> Failed("provider_error")
      [] s.kind = "release"                                        -> Failed("provider_error")
      [] s.kind = "force_end" /\ st \in {"ready", "live", "recovering"} -> Ended("force_ended")
      [] s.kind = "cancel" /\ st \notin {"live", "recovering"}     ->
             [state |-> "cancelled", kind |-> "cancelled"]
      [] OTHER                                                     -> NoEnd

Enders == {"ttl", "expire", "completed", "demo", "join", "recovery", "allocate", "boot",
           "hello", "release", "force_end", "cancel"}

EndStep ==
    /\ Begin(Enders)
    /\ chain' = Tail(chain)
    /\ \/ /\ Verdict(Head(chain)) = NoEnd
          /\ UNCHANGED <<job, timers>>
       \/ /\ Verdict(Head(chain)) # NoEnd
          /\ End(Verdict(Head(chain)))
    /\ UNCHANGED <<durable, server, up, runtime, watch>>

\* closeRow, first half: the provider is asked to stop and deallocate, best effort.
Deallocate ==
    /\ At("deallocate")
    /\ job' = [job EXCEPT !.pc = "close"]
    /\ \/ UNCHANGED server
       \/ /\ IsBound(Current)
          /\ server' = [server EXCEPT ![Current] = "gone"]
    /\ UNCHANGED <<durable, up, chain, timers, runtime, watch>>

\* Mutant: the provider is asked, the ledger is not told.
CloseRowUntold ==
    /\ At("close")
    /\ job' = [job EXCEPT !.pc = job.after]
    /\ UNCHANGED <<durable, server, up, chain, timers, runtime, watch>>

\* closeRow, second half: releasedAt, unless the row already carries one.
CloseRow ==
    /\ At("close")
    /\ ledger' = IF ledger[Current].released THEN ledger ELSE CloseOf(Current)
    /\ job' = [job EXCEPT !.pc = job.after]
    /\ UNCHANGED <<match, backup, logged, said, server, up, chain, timers, runtime, watch>>

\* The terminal state and the fact that announces it are one transaction; the runtime goes.
EndFact ==
    /\ At("end")
    /\ match' = [match EXCEPT !.state = job.ending.state, !.reason = job.ending.kind]
    /\ Emit(IF job.ending.state = "failed" THEN "match.failed" ELSE "match.ended")
    /\ Finished
    /\ runtime' = NewRuntime
    /\ UNCHANGED <<ledger, backup, logged, server, up, chain, timers, watch>>

-----------------------------------------------------------------------------
(* The provisioning walk, of a fresh match and of a recovering one.        *)

Provision ==
    /\ Begin({"provision"})
    /\ chain' = Tail(chain)
    /\ \/ /\ match.state \notin {"pending", "allocating"}
          /\ UNCHANGED <<match, job, timers>>
       \/ /\ match.state \in {"pending", "allocating"}
          /\ SetState("allocating")
          /\ timers' = timers \cup {"allocate"}
          /\ job' = [IdleJob EXCEPT !.pc = "next", !.walk = "provision"]
    /\ UNCHANGED <<ledger, backup, logged, said, server, up, runtime, watch>>

HasOpenServer == Current # None /\ IsOpen(Current)
HasHandle     == Current # None /\ IsBound(Current)

\* Mutant: a recovery that does not read the state again.
RecoverUnread ==
    /\ Begin({"recover"})
    /\ chain' = Tail(chain)
    /\ job' = [IdleJob EXCEPT !.pc = "next", !.walk = "recover"]
    /\ UNCHANGED <<durable, server, up, timers, runtime, watch>>

Recover ==
    /\ Begin({"recover"})
    /\ chain' = Tail(chain)
    /\ \/ /\ match.state # "recovering" \/ HasOpenServer
          /\ runtime' = [runtime EXCEPT !.recovering = FALSE]
          /\ UNCHANGED <<job, timers>>
       \/ /\ match.state = "recovering" /\ ~HasOpenServer /\ ~backup
          /\ End(Failed("server_lost"))
          /\ UNCHANGED runtime
       \/ /\ match.state = "recovering" /\ ~HasOpenServer /\ backup
          /\ job' = [IdleJob EXCEPT !.pc = "next", !.walk = "recover"]
          /\ UNCHANGED <<timers, runtime>>
    /\ UNCHANGED <<durable, server, up, watch>>

\* The next candidate gets a ledger row before it is asked for anything.
WalkInsert(r) ==
    /\ At("next")
    /\ ledger[r].state = "none"
    /\ ledger' = [ledger EXCEPT ![r].state = "allocated"]
    /\ job' = [job EXCEPT !.pc = "point", !.cand = r]
    /\ UNCHANGED <<match, backup, logged, said, server, up, chain, timers, runtime, watch>>

\* No candidate is left, or the walk's deadline has passed.
WalkStop ==
    /\ At("next")
    /\ job' = [job EXCEPT !.pc = "walked", !.cand = None, !.found = FALSE]
    /\ UNCHANGED <<durable, server, up, chain, timers, runtime, watch>>

WalkPoint ==
    /\ At("point")
    /\ match' = [match EXCEPT !.fleetServerId = job.cand]
    /\ job' = [job EXCEPT !.pc = "allocate"]
    /\ UNCHANGED <<ledger, backup, logged, said, server, up, chain, timers, runtime, watch>>

\* The provider answers, or refuses; a refusal may come after it made the server all the same.
WalkAllocate ==
    /\ At("allocate")
    /\ \/ /\ server' = [server EXCEPT ![job.cand] = "up"]
          /\ job' = [job EXCEPT !.pc = "bind"]
          /\ UNCHANGED ledger
       \/ /\ \/ UNCHANGED server
             \/ server' = [server EXCEPT ![job.cand] = "up"]
          /\ ledger' = CloseOf(job.cand)
          /\ job' = [job EXCEPT !.pc = "next", !.cand = None]
    /\ UNCHANGED <<match, backup, logged, said, up, chain, timers, runtime, watch>>

WalkBind ==
    /\ At("bind")
    /\ ledger' = [ledger EXCEPT ![job.cand].bound = TRUE]
    /\ job' = [job EXCEPT !.pc = "take"]
    /\ UNCHANGED <<match, backup, logged, said, server, up, chain, timers, runtime, watch>>

WalkTake ==
    /\ At("take")
    /\ match' = [match EXCEPT !.serverId = job.cand]
    /\ job' = [job EXCEPT !.pc = "allocated"]
    /\ UNCHANGED <<ledger, backup, logged, said, server, up, chain, timers, runtime, watch>>

WalkTell ==
    /\ At("allocated")
    /\ Emit("match.allocated")
    /\ job' = [job EXCEPT !.pc = "configure"]
    /\ UNCHANGED <<match, ledger, backup, logged, server, up, chain, timers, runtime, watch>>

\* Token, configure, restore and start; any failure gives the server back and walks on.
WalkConfigure ==
    /\ At("configure")
    /\ \/ /\ ledger' = [ledger EXCEPT ![job.cand].state = "configured"]
          /\ job' = [job EXCEPT !.pc = "walked", !.cand = None, !.found = TRUE]
          /\ UNCHANGED server
       \/ /\ ledger' = CloseOf(job.cand)
          /\ job' = [job EXCEPT !.pc = "next", !.cand = None]
          /\ \/ UNCHANGED server
             \/ server' = [server EXCEPT ![job.cand] = "gone"]
    /\ UNCHANGED <<match, backup, logged, said, up, chain, timers, runtime, watch>>

Walked ==
    /\ At("walked")
    /\ \/ /\ job.walk = "provision" /\ job.found
          /\ SetState("configuring")
          /\ timers' = Heard((timers \ {"allocate"}) \cup {"boot"})
          /\ Finished
          /\ UNCHANGED runtime
       \/ /\ job.walk = "provision" /\ ~job.found
          /\ End(Failed("allocation_failed"))
          /\ UNCHANGED <<match, runtime>>
       \/ /\ job.walk = "recover" /\ job.found
          /\ timers' = Heard(timers)
          /\ runtime' = [runtime EXCEPT !.recovering = FALSE]
          /\ Finished
          /\ UNCHANGED match
       \/ /\ job.walk = "recover" /\ ~job.found
          /\ End(Failed("server_lost"))
          /\ UNCHANGED <<match, runtime>>
    /\ UNCHANGED <<ledger, backup, logged, said, server, up, chain, watch>>

-----------------------------------------------------------------------------
(* A loss, and what asks after one.                                        *)

\* lost(), from live: the fact first, the state in a write of its own.
LostFromLive ==
    /\ timers' = timers \ {"heartbeat"}
    /\ runtime' = [runtime EXCEPT !.replacementReady = FALSE, !.resumePending = None]
    /\ said' = [fact |-> "match.recovering", told |-> FALSE]
    /\ job' = [IdleJob EXCEPT !.pc = "lost_state", !.found = backup]

\* lost(), whatever the state: a match that is not live, or whose replacement died, fails.
Lost ==
    \/ /\ match.state = "live"
       /\ LostFromLive
    \/ /\ match.state = "recovering" /\ HasOpenServer
       /\ End(Failed("server_lost"))
       /\ UNCHANGED <<said, runtime>>
    \/ /\ match.state = "recovering" /\ ~HasOpenServer
       /\ UNCHANGED <<said, job, timers, runtime>>
    \/ /\ match.state \notin {"live", "recovering"}
       /\ End(Failed("provider_error"))
       /\ UNCHANGED <<said, runtime>>

LostState ==
    /\ At("lost_state")
    /\ SetState("recovering")
    /\ job' = [job EXCEPT !.after = "lost_closed",
                          !.pc = IF Current = None THEN "lost_closed" ELSE "deallocate"]
    /\ UNCHANGED <<ledger, backup, logged, said, server, up, chain, timers, runtime, watch>>

KickRecovery ==
    /\ runtime' = [runtime EXCEPT !.recovering = TRUE]
    /\ chain' = IF runtime.recovering THEN chain ELSE Append(chain, Step("recover", None))

LostClosed ==
    /\ At("lost_closed")
    /\ \/ /\ job.found
          /\ timers' = timers \cup {"recovery"}
          /\ KickRecovery
          /\ Finished
       \/ /\ ~job.found
          /\ End(Failed("server_lost"))
          /\ UNCHANGED <<chain, runtime>>
    /\ UNCHANGED <<durable, server, up, watch>>

\* The silence deadline: probe() asks the provider about the current row's server.
Probe ==
    /\ Begin({"heartbeat"})
    /\ chain' = Tail(chain)
    /\ \/ /\ ~(match.state \in Probeable /\ HasHandle)
          /\ UNCHANGED <<said, job, timers, runtime>>
       \/ /\ match.state \in Probeable /\ HasHandle
          /\ \/ /\ timers' = Heard(timers)        \* up and merely quiet, or the API is down
                /\ UNCHANGED <<said, job, runtime>>
             \/ /\ server[Current] = "gone"
                /\ Lost
    /\ UNCHANGED <<match, ledger, backup, logged, server, up, watch>>

\* The reaper's or a node's suspicion: probeOrLose() asks about the match's own handle.
Suspect ==
    /\ Begin({"suspect"})
    /\ chain' = Tail(chain)
    /\ \/ UNCHANGED <<said, job, timers, runtime>>
       \/ /\ match.state \in Probeable /\ match.serverId # None
          /\ server[match.serverId] = "gone"
          /\ Lost
    /\ UNCHANGED <<match, ledger, backup, logged, server, up, watch>>

-----------------------------------------------------------------------------
(* What the server says.                                                   *)

\* The maps a going_live may be of: the next one in play, or the one a backup takes a
\* replacement back to.
Maps     == 1..MaxMaps
MapsSaid == {m \in Maps : IF match.state = "live" THEN m \in {logged.map, logged.map + 1}
                                                 ELSE m <= logged.map}
NoMap    == 0
MapOr(m, other) == IF m = NoMap THEN other ELSE m

OnMap(m) ==
    /\ logged'  = [logged EXCEPT !.map = m]
    /\ runtime' = [runtime EXCEPT !.currentMap = m]

LiveState ==
    /\ At("live_state")
    /\ SetState("live")
    /\ Finished
    /\ UNCHANGED <<ledger, backup, logged, said, server, up, chain, timers, runtime, watch>>

\* An event of a server the match does not play on, or one the state has no use for, or a
\* demo this life has counted already.
EventIgnored ==
    /\ Begin(Events \ {"hello"})
    /\ chain' = Tail(chain)
    /\ \/ /\ ~Accepts(Head(chain).from)
          /\ UNCHANGED timers
       \/ /\ Accepts(Head(chain).from)
          /\ \/ Head(chain).kind = "player"
             \/ Head(chain).kind = "server_ready" /\ match.state \notin {"configuring", "recovering"}
             \/ Head(chain).kind \in {"round_end", "backup_restored"} /\ match.state # "recovering"
          /\ timers' = Heard(timers)
       \/ /\ Head(chain).kind = "demo_available"
          /\ \E m \in Maps : <<Head(chain).from, m>> \in runtime.seen
          /\ UNCHANGED timers
    /\ UNCHANGED <<durable, server, up, job, runtime, watch>>

\* server_ready: its deadline is off, the row runs, then the state is stamped, then the connect
\* facts are told.  Of a row without an address the provider is asked for one first, and what
\* it throws ends the step there.
ServerReady ==
    /\ Begin({"server_ready"})
    /\ Accepts(Head(chain).from)
    /\ match.state \in {"configuring", "recovering"}
    /\ chain' = Tail(chain)
    /\ timers' = Heard(timers) \ {IF match.state = "recovering" THEN "recovery" ELSE "boot"}
    /\ \/ /\ ledger' = IF Current = None THEN ledger ELSE [ledger EXCEPT ![Current].state = "running"]
          /\ job' = [IdleJob EXCEPT !.pc = "ready_state"]
          /\ UNCHANGED unread
       \/ /\ Current # None
          /\ unread' = unread \cup {Current}
          /\ UNCHANGED <<ledger, job>>
    /\ UNCHANGED <<match, backup, logged, said, server, up, runtime, reaper, crashes, faults, forgot>>

ReadyState ==
    /\ At("ready_state")
    /\ SetState(IF match.state = "recovering" THEN "recovering" ELSE "ready")
    /\ job' = [job EXCEPT !.pc = "ready_fact"]
    /\ UNCHANGED <<ledger, backup, logged, said, server, up, chain, timers, runtime, watch>>

ReadyFact ==
    /\ At("ready_fact")
    /\ said' = [fact |-> "match.server_ready", told |-> TRUE]
    /\ timers' = timers \cup {"join"}
    /\ runtime' = [runtime EXCEPT !.replacementReady = @ \/ match.state = "recovering"]
    /\ job' = IF match.state = "recovering" /\ runtime.resumePending # None
                THEN [job EXCEPT !.pc = "resumed"]
                ELSE IdleJob
    /\ UNCHANGED <<match, ledger, backup, logged, server, up, chain, watch>>

\* resumed(), of the sign that came now or of one that waited for the connect facts: the
\* window is closed and told, and then the match is live.
Resumed ==
    /\ At("resumed")
    /\ timers' = timers \ {"join", "recovery"}
    /\ runtime' = [runtime EXCEPT !.resumePending = None]
    /\ Emit("match.recovered")
    /\ job' = [IdleJob EXCEPT !.pc = "live_state"]
    /\ UNCHANGED <<match, ledger, backup, logged, server, up, chain, watch>>

\* Mutant: live before the server was ready.
GoingLiveEarly ==
    /\ Begin({"going_live"})
    /\ Accepts(Head(chain).from)
    /\ match.state \in {"configuring", "ready"}
    /\ chain' = Tail(chain)
    /\ timers' = Heard(timers) \ {"join"}
    /\ job' = [IdleJob EXCEPT !.pc = "live_state"]
    /\ \E m \in MapsSaid : OnMap(m)
    /\ UNCHANGED <<match, ledger, backup, said, server, up, watch>>

GoingLive ==
    /\ Begin({"going_live"})
    /\ Accepts(Head(chain).from)
    /\ match.state = "ready"
    /\ chain' = Tail(chain)
    /\ timers' = Heard(timers) \ {"join"}
    /\ job' = [IdleJob EXCEPT !.pc = "live_state"]
    /\ \E m \in MapsSaid : OnMap(m)
    /\ UNCHANGED <<match, ledger, backup, said, server, up, watch>>

\* The next map of a series, or a going_live ahead of its state: the map is all it changes.
NextMap ==
    /\ Begin({"going_live"})
    /\ Accepts(Head(chain).from)
    /\ match.state \notin {"ready", "recovering"}
    /\ chain' = Tail(chain)
    /\ timers' = Heard(timers)
    /\ \E m \in MapsSaid : OnMap(m)
    /\ UNCHANGED <<match, ledger, backup, said, server, up, job, watch>>

\* The first sign the replacement is playing closes the window, unless it came ahead of the
\* connect facts: then it is held for them.
Sign ==
    /\ Begin(Signs)
    /\ Accepts(Head(chain).from)
    /\ match.state = "recovering"
    /\ chain' = Tail(chain)
    /\ timers' = Heard(timers)
    /\ \E m \in IF Head(chain).kind = "going_live" THEN MapsSaid ELSE {NoMap} :
         /\ logged' = [logged EXCEPT !.map = MapOr(m, @)]
         /\ runtime' = [runtime EXCEPT
                !.currentMap    = MapOr(m, @),
                !.resumePending = IF runtime.replacementReady THEN @ ELSE Head(chain).from]
    /\ job' = IF runtime.replacementReady THEN [IdleJob EXCEPT !.pc = "resumed"] ELSE IdleJob
    /\ UNCHANGED <<match, ledger, backup, said, server, up, watch>>

\* The series is over: the match ends now, or holds its server for the demo still owed.
SeriesEnd ==
    /\ Begin({"series_end"})
    /\ Accepts(Head(chain).from)
    /\ chain' = Tail(chain)
    /\ logged' = [logged EXCEPT !.series = TRUE]
    /\ \/ /\ DemoPending(runtime.announced)
          /\ runtime' = [runtime EXCEPT !.awaitingDemo = TRUE]
          /\ timers' = Heard(timers) \cup {"demo"}
          /\ UNCHANGED job
       \/ /\ ~DemoPending(runtime.announced)
          /\ End(Ended("completed"))
          /\ UNCHANGED runtime
    /\ UNCHANGED <<match, ledger, backup, said, server, up, watch>>

\* A demo of a map that was played is counted, once in a life of the process; the last one
\* that was waited for ends the match.
DemoAvailable ==
    /\ Begin({"demo_available"})
    /\ Accepts(Head(chain).from)
    /\ chain' = Tail(chain)
    /\ \E m \in 1..logged.map :
         /\ <<Head(chain).from, m>> \notin runtime.seen
         /\ logged'  = [logged EXCEPT !.demos = @ \cup {m}, !.announced = @ + 1]
         /\ runtime' = [runtime EXCEPT !.seen = @ \cup {<<Head(chain).from, m>>},
                                       !.announced = @ + 1,
                                       !.awaitingDemo = @ /\ DemoPending(runtime.announced + 1)]
    /\ \/ /\ runtime.awaitingDemo /\ ~DemoPending(runtime.announced + 1)
          /\ End(Ended("completed"))
       \/ /\ ~(runtime.awaitingDemo /\ ~DemoPending(runtime.announced + 1))
          /\ timers' = Heard(timers)
          /\ UNCHANGED job
    /\ UNCHANGED <<match, ledger, backup, said, server, up, watch>>

-----------------------------------------------------------------------------
(* What the client asks.                                                   *)

\* reprovision: from live it is a loss by hand; before live the box is given back first.
Reprovision ==
    /\ Begin({"reprovision"})
    /\ chain' = Tail(chain)
    /\ \/ /\ \/ match.state \in Terminal \cup {"recovering"}
             \/ match.state = "live" /\ ~backup
          /\ UNCHANGED <<said, job, timers, runtime>>
       \/ /\ match.state = "live" /\ backup
          /\ LostFromLive
       \/ /\ match.state \in Open \ {"live", "recovering"}
          /\ timers' = timers \ {"allocate", "boot", "join", "heartbeat"}
          /\ job' = [IdleJob EXCEPT !.after = "reprovision_clear",
                        !.pc = IF Current = None THEN "reprovision_clear" ELSE "deallocate"]
          /\ UNCHANGED <<said, runtime>>
    /\ UNCHANGED <<match, ledger, backup, logged, server, up, watch>>

ReprovisionClear ==
    /\ At("reprovision_clear")
    /\ match' = [match EXCEPT !.fleetServerId = None, !.serverId = None]
    /\ job' = [job EXCEPT !.pc = "reprovision_state"]
    /\ UNCHANGED <<ledger, backup, logged, said, server, up, chain, timers, runtime, watch>>

ReprovisionState ==
    /\ At("reprovision_state")
    /\ SetState("pending")
    /\ chain' = Append(chain, Step("provision", None))
    /\ Finished
    /\ UNCHANGED <<ledger, backup, logged, said, server, up, timers, runtime, watch>>

\* restore while recovering: the door for a restart that left the window open and no walk.
Restore ==
    /\ Begin({"restore"})
    /\ \/ /\ match.state = "recovering" /\ backup /\ ~runtime.recovering /\ ~HasOpenServer
          /\ chain' = Append(Tail(chain), Step("recover", None))
          /\ runtime' = [runtime EXCEPT !.recovering = TRUE]
       \/ /\ ~(match.state = "recovering" /\ backup /\ ~runtime.recovering /\ ~HasOpenServer)
          /\ chain' = Tail(chain)
          /\ UNCHANGED runtime
    /\ UNCHANGED <<durable, server, up, job, timers, watch>>

\* pause and unpause are relayed; only an answer that was not a refusal changes anything.
PauseOrUnpause ==
    /\ Begin({"pause", "unpause"})
    /\ chain' = Tail(chain)
    /\ \/ UNCHANGED <<timers, runtime>>
       \/ /\ match.state = "live" /\ match.serverId # None /\ server[match.serverId] = "up"
          /\ IF Head(chain).kind = "pause"
               THEN /\ runtime' = [runtime EXCEPT !.paused = TRUE]
                    /\ timers' = timers \ {"heartbeat"}
               ELSE /\ runtime' = [runtime EXCEPT !.paused = FALSE]
                    /\ timers' = timers \cup {"heartbeat"}
    /\ UNCHANGED <<durable, server, up, job, watch>>

\* emit() on the chain for the reaper: a fact of the fleet, which moves nothing of the match.
OrphanFact ==
    /\ Begin({"orphan_found"})
    /\ chain' = Tail(chain)
    /\ UNCHANGED <<durable, server, up, job, timers, runtime, watch>>

-----------------------------------------------------------------------------
(* Off the chain: servers, clients, the operator, the reaper.              *)

\* ingest(): a server is heard while its row is bound and open.
CanReach(r) == up /\ server[r] = "up" /\ IsBound(r) /\ IsOpen(r)

\* A demo is of a map that went live.
Say(r, kind) ==
    /\ CanReach(r)
    /\ kind = "demo_available" => match.state \notin {"allocating", "configuring", "ready"}
    /\ Outsider(kind, r)
    /\ UNCHANGED <<durable, server, up, job, timers, runtime, watch>>

\* touch(): any link frame re-arms the loss detector.
Touch(r) ==
    /\ CanReach(r)
    /\ match.state \in Probeable
    /\ timers' = Heard(timers)
    /\ UNCHANGED <<durable, server, up, chain, job, runtime, watch>>

\* backup(): stored off the chain.
Backup(r) ==
    /\ CanReach(r)
    /\ ~IsTerminal
    /\ backup' = TRUE
    /\ UNCHANGED <<match, ledger, logged, said, server, memory, watch>>

Ask(kind) ==
    /\ Outsider(kind, None)
    /\ UNCHANGED <<durable, server, up, job, timers, runtime, watch>>

\* A server dies where its provider runs it.
Die(r) ==
    /\ server[r] = "up"
    /\ server' = [server EXCEPT ![r] = "gone"]
    /\ UNCHANGED <<durable, memory, watch>>

\* An operator releases a row: through the chain when it is the open match's own, else at once.
OperatorRelease(r) ==
    /\ up
    /\ IsOpen(r)
    /\ \/ /\ ~IsTerminal /\ Current = r
          /\ Outsider("release", None)
          /\ UNCHANGED <<ledger, server>>
       \/ /\ IsTerminal \/ Current # r
          /\ ledger' = CloseOf(r)
          /\ \/ UNCHANGED server
             \/ IsBound(r) /\ server' = [server EXCEPT ![r] = "gone"]
          /\ UNCHANGED chain
    /\ UNCHANGED <<match, backup, logged, said, up, job, timers, runtime, watch>>

\* The reaper reads the ledger, and ends the match of a row past its ceiling.  It awaits what
\* it puts on the chain, so a pass begins when the last one's steps have run.
ReaperLook ==
    /\ up /\ Sweeps
    /\ ~reaper.listing /\ ~Queued({"expire", "orphan_found", "suspect"})
    /\ reaper' = [reaper EXCEPT !.listing = TRUE, !.open = {r \in Rows : IsOpen(r) /\ IsBound(r)}]
    /\ \/ UNCHANGED chain
       \/ /\ \E r \in Rows : IsOpen(r)
          /\ chain' = Append(chain, Step("expire", None))
    /\ UNCHANGED <<durable, server, up, job, timers, runtime, mishaps>>

\* Mutant: orphans are judged for open matches only.
PastGraceOfOpen == {r \in reaper.orphaned : ~IsTerminal}

\* The grace window is longer than the allocate and row race it covers.
PastGrace == {r \in reaper.orphaned : job.pc # "bind" \/ job.cand # r}

\* Then it lists the providers: orphans past their grace are deallocated, a row the provider
\* does not confirm is put to the machine, and an orphan is said to a match still open.
ReaperList(due) ==
    LET listed  == {r \in Rows : server[r] = "up"}
        orphan  == listed \ reaper.open
        overdue == orphan \cap PastGrace
        lost    == reaper.open \ listed
    IN
    /\ up
    /\ reaper.listing /\ ~Queued({"expire"})
    /\ due \subseteq overdue
    /\ server' = [r \in Rows |-> IF r \in due THEN "gone" ELSE server[r]]
    /\ reaper' = [listing |-> FALSE, open |-> {}, orphaned |-> orphan \ due]
    /\ chain' = chain
         \o (IF ~IsTerminal /\ overdue # {} THEN <<Step("orphan_found", None)>> ELSE <<>>)
         \o (IF lost # {} THEN <<Step("suspect", None)>> ELSE <<>>)
    /\ UNCHANGED <<durable, up, job, timers, runtime, mishaps>>

\* A provider that cannot be listed: what was orphaned stays so, and nothing is judged.
ReaperBlind ==
    /\ up
    /\ reaper.listing /\ ~Queued({"expire"})
    /\ reaper' = [reaper EXCEPT !.listing = FALSE, !.open = {}]
    /\ UNCHANGED <<durable, server, memory, mishaps>>

-----------------------------------------------------------------------------
(* A crash, and resume().                                                  *)

Crash ==
    /\ up
    /\ crashes + faults < MaxMishaps
    /\ crashes' = crashes + 1
    /\ unread' = {}
    /\ up' = FALSE
    /\ chain' = <<>>
    /\ job' = IdleJob
    /\ timers' = {}
    /\ runtime' = NewRuntime
    /\ reaper' = [listing |-> FALSE, open |-> {}, orphaned |-> {}]
    /\ UNCHANGED <<durable, server, faults, forgot>>

\* A store call throws: the step that made it ends there, what it had done stays done, and
\* the chain goes on.  (Of the other awaits of a handler only ServerReady's throws past it.)
StoreFails ==
    /\ up
    /\ crashes + faults < MaxMishaps
    /\ faults' = faults + 1
    /\ \/ /\ job.pc = "idle" /\ chain # <<>>
          /\ chain' = Tail(chain)
          /\ runtime' = [runtime EXCEPT !.recovering = @ /\ Head(chain).kind # "recover"]
          /\ UNCHANGED job
       \/ /\ job.pc \notin {"idle", "deallocate", "allocate", "lost_closed"}
          /\ job' = IdleJob
          /\ runtime' = [runtime EXCEPT !.recovering = @ /\ job.walk # "recover"]
          /\ UNCHANGED chain
    /\ UNCHANGED <<durable, server, up, timers, reaper, crashes, unread, forgot>>

\* Whether the log is read back, says the series is over, and owes it a demo.
ReadsLog      == match.state \in {"ready", "live"}
ReplaysSeries == ReadsLog /\ logged.series
\* Mutant: the wait is replayed for a series of which no demo came.
ReplaysWaitFirst == ReplaysSeries /\ match.state = "live" /\ RecordsDemo /\ logged.announced = 0
ReplaysWait   ==
    ReplaysSeries /\ match.state = "live" /\ RecordsDemo /\ logged.announced < logged.map

ReplacementRuns == HasOpenServer /\ ledger[Current].state = "running"

\* Mutant: the ttl is not armed again.
ResumeTimersNoTtl ==
    CASE IsTerminal                  -> {}
      [] match.state = "configuring" -> {"boot", "heartbeat"}
      [] match.state = "ready"       -> {"join", "heartbeat"}
      [] match.state = "recovering"  -> {"recovery"}
      [] OTHER                       -> {"heartbeat"}

\* The deadlines resume() re-arms for the state it finds.
ResumeTimers ==
    CASE IsTerminal                                    -> {}
      [] match.state \in {"pending", "allocating"}     -> {"ttl"}
      [] match.state = "configuring"                   -> {"ttl", "boot", "heartbeat"}
      [] match.state = "ready"                         -> {"ttl", "join", "heartbeat"}
      [] match.state = "live" /\ ReplaysWait           -> {"ttl", "heartbeat", "demo"}
      [] match.state = "live" /\ ~ReplaysWait          -> {"ttl", "heartbeat"}
      [] match.state = "recovering" /\ ReplacementRuns -> {"ttl", "join", "heartbeat"}
      [] match.state = "recovering" /\ HasOpenServer /\ ~ReplacementRuns ->
             {"ttl", "recovery", "heartbeat"}
      [] OTHER                                         -> {"ttl", "recovery"}

RerunsWalk == match.state = "recovering" /\ ~HasOpenServer

\* Mutant: a walk is run again only for a match that had not begun one.
ResumeChainPending == IF match.state = "pending" THEN <<Step("provision", None)>> ELSE <<>>

\* The step resume() queues: a dead walk again, or the end a finished series was owed.
ResumeChain ==
    CASE match.state \in {"pending", "allocating"} -> <<Step("provision", None)>>
      [] RerunsWalk                                -> <<Step("recover", None)>>
      [] ReplaysSeries /\ ~ReplaysWait             -> <<Step("completed", None)>>
      [] OTHER                                     -> <<>>

Resume ==
    /\ ~up
    /\ up' = TRUE
    /\ timers' = ResumeTimers
    /\ chain' = ResumeChain
    /\ runtime' = [NewRuntime EXCEPT
          !.recovering       = RerunsWalk,
          !.replacementReady = (match.state = "recovering" /\ ReplacementRuns),
          !.awaitingDemo     = ReplaysWait,
          !.currentMap       = IF ReadsLog THEN logged.map ELSE 1,
          !.announced        = IF ReadsLog THEN logged.announced ELSE 0]
    /\ forgot' = (forgot \/ (~ReadsLog /\ logged.map # 1))
    /\ UNCHANGED <<durable, server, job, reaper, crashes, faults, unread>>

-----------------------------------------------------------------------------
Handlers ==
    \/ EndStep \/ Deallocate \/ CloseRow \/ EndFact
    \/ Provision \/ Recover \/ WalkStop \/ WalkPoint \/ WalkAllocate \/ WalkBind
    \/ WalkTake \/ WalkTell \/ WalkConfigure \/ Walked
    \/ LostState \/ LostClosed \/ Probe \/ Suspect
    \/ LiveState \/ EventIgnored \/ ServerReady \/ ReadyState \/ ReadyFact \/ Resumed
    \/ GoingLive \/ NextMap \/ Sign \/ SeriesEnd \/ DemoAvailable
    \/ Reprovision \/ ReprovisionClear \/ ReprovisionState \/ Restore \/ PauseOrUnpause
    \/ OrphanFact
    \/ \E r \in Rows : WalkInsert(r)

Clock     == \E t \in Timers : Fire(t)
Servers   == \E r \in Rows : Touch(r) \/ Backup(r) \/ Die(r) \/ \E e \in Said : Say(r, e)
Clients   == \E c \in Asked : Ask(c)
Operators == \E r \in Rows : OperatorRelease(r)
Reaper    == ReaperLook \/ ReaperBlind \/ \E due \in SUBSET Rows : ReaperList(due)

\* One lifetime of the process, and the whole life with its deaths.
Living == Handlers \/ Clock \/ Servers \/ Clients \/ Operators \/ Reaper
Next   == Living \/ StoreFails \/ Crash \/ Resume

LivingSpec == Init /\ [][Living]_vars
Spec       == Init /\ [][Next]_vars

-----------------------------------------------------------------------------
(* What must hold.                                                         *)

MatchType == [state : States, reason : Reasons \cup {"none"},
              fleetServerId : Rows \cup {None}, serverId : Rows \cup {None}]
RowType   == [state : {"none", "allocated", "configured", "running", "closed"},
              bound : BOOLEAN, released : BOOLEAN]
SaidType  == [fact : Facts, told : BOOLEAN]
StepType  == [kind : Kinds, from : Rows \cup {None}]

Places == {"idle", "deallocate", "close", "end",
           "next", "point", "allocate", "bind", "take", "allocated", "configure", "walked",
           "lost_state", "lost_closed", "live_state", "ready_state", "ready_fact",
           "resumed", "reprovision_clear", "reprovision_state"}
Returns  == {"end", "lost_closed", "reprovision_clear"}
Verdicts == [state : Terminal \cup {"none"}, kind : Reasons \cup {"none"}]
JobType  == [pc : Places, after : Returns, ending : Verdicts,
             walk : {"none", "provision", "recover"}, cand : Rows \cup {None},
             found : BOOLEAN]
RuntimeType == [recovering : BOOLEAN, replacementReady : BOOLEAN,
                resumePending : Rows \cup {None}, paused : BOOLEAN,
                awaitingDemo : BOOLEAN, currentMap : Maps, announced : Nat,
                seen : SUBSET ((Rows \cup {None}) \X Maps)]
LoggedType  == [series : BOOLEAN, map : Maps, demos : SUBSET Maps, announced : Nat]
ReaperType  == [listing : BOOLEAN, open : SUBSET Rows, orphaned : SUBSET Rows]

\* Every variable holds a value of its kind, and an end is carried out with a verdict in hand
\* only: no match is left in a state the API does not name.
TypeOK ==
    /\ match \in MatchType
    /\ ledger \in [Rows -> RowType]
    /\ backup \in BOOLEAN
    /\ logged \in LoggedType
    /\ said \in SaidType
    /\ server \in [Rows -> {"none", "up", "gone"}]
    /\ up \in BOOLEAN
    /\ chain \in Seq(StepType)
    /\ job \in JobType
    /\ timers \subseteq Timers
    /\ runtime \in RuntimeType
    /\ reaper \in ReaperType
    /\ crashes \in Nat /\ faults \in Nat
    /\ unread \subseteq Rows /\ forgot \in BOOLEAN

\* The row a match ended on is closed before its end is told, whatever died in between.
TerminalIsClosed == IsTerminal => ~HasOpenServer

\* The rows the match has open: each one a running meter and a unit of its key's budget.
OpenRows == {r \in Rows : IsOpen(r)}

\* However walks, losses, reprovisions and deadlines interleave, the match holds open only the
\* row it is on; each death of the process, and each step a store failure cut short, leaves at
\* most one other behind.
MishapsStrandRows == Cardinality(OpenRows \ {Current, job.cand}) <= crashes + faults

\* One lifetime of the process: never two open rows at once, and none once the match has ended.
OneOpenRow ==
    crashes + faults = 0 =>
        /\ \A r, s \in OpenRows : r = s
        /\ IsTerminal => OpenRows = {}

Pending(kinds) == timers \cap kinds # {} \/ Queued(kinds)

\* At rest: no step of an open match is under way, and none was cut short by the store.
AtRest == up /\ job.pc = "idle" /\ ~IsTerminal /\ faults = 0

\* Between two steps no open match is left unattended: its ttl and the deadline or the walk
\* of its state are armed or already on the chain, after a restart too.  A provider that throws
\* under server_ready takes the deadline of that state and nothing else, until a restart.
Attended ==
    AtRest =>
        /\ Pending({"ttl"})
        /\ match.state \in {"pending", "allocating"} => Queued({"provision"})
        /\ match.state = "configuring" => Pending({"boot"}) \/ Current \in unread
        /\ match.state = "ready" => Pending({"join"}) \/ Queued({"completed"})
        /\ match.state = "recovering" => Pending({"recovery", "join"}) \/ unread # {}

\* Every wait for a server is a deadline on the clock, whatever its provider answers.
WaitsHaveDeadlines ==
    AtRest =>
        /\ match.state = "configuring" => Pending({"boot"})
        /\ match.state = "recovering" => Pending({"recovery", "join"})

\* Between two steps a match with a server is never unwatched: unless paused, its silence
\* deadline is armed, or the probe it becomes is on the chain.
Watched ==
    up /\ job.pc = "idle" /\ match.state \in Probeable /\ faults = 0 =>
        \/ ~HasOpenServer \/ ~HasHandle
        \/ runtime.paused \/ Pending({"heartbeat"})

\* While a live match ends as completed, and no demo deadline says so.
Completes ==
    /\ job.pc = "idle" /\ job'.ending = Ended("completed")
    /\ match.state = "live" /\ RecordsDemo
    /\ Head(chain).kind # "demo"

\* A recording match that is live is completed before its demo deadline only when its log
\* has as many demos as the series had maps, across restarts too: the wait a dead process was
\* in is the one resume() takes up.  (Resumed in another state, it counts from nothing.)
DemoIsWaitedFor ==
    [][Completes /\ ~forgot => logged'.announced >= logged.map]_vars

\* ...and only when the demo of every map that was played has come.
EveryDemoHasCome == [][Completes => 1..logged.map \subseteq logged'.demos]_vars

\* An ended match keeps its state, its reason and its last match fact, and no server is ever
\* asked for it again, whatever is still on the chain or comes back with a restart.
StaysEnded ==
    [][IsTerminal =>
          /\ match' = match
          /\ said'.fact = said.fact
          /\ \A r \in Rows : ledger[r].state = "none" => ledger'[r].state = "none"]_vars

Lifecycle == INSTANCE MatchLifecycle
                 WITH state <- match.state, fact <- said.fact, told <- said.told

\* As long as the process lives and its store answers, the machine shows its clients the
\* lifecycle the API promises.  (A handler cut short between a fact and its state does not.)
ImplementsLifecycle ==
    Lifecycle!Init /\ [][crashes' + faults' = 0 => Lifecycle!Next]_(Lifecycle!vars)

\* The window closes on a sign of the replacement's own: a sign that waits for the connect
\* facts came from the server those facts are about.
SignIsItsOwn ==
    job.pc = "resumed" => runtime.resumePending \in {None, match.serverId}

-----------------------------------------------------------------------------
(* What must come about.                                                   *)

\* Awaits settle, timers fire, a dead process is started again and the reaper keeps its
\* interval.  Strong where the chain's bound, or a deallocate that may fail, comes between.
Fairness ==
    /\ WF_vars(Handlers)
    /\ SF_vars(Fire("ttl"))
    /\ WF_vars(Resume)
    /\ SF_vars(ReaperLook)
    /\ SF_vars(\E due \in SUBSET Rows : ReaperList(due))
    /\ \A r \in Rows : SF_vars(\E due \in SUBSET Rows : r \in due /\ ReaperList(due))

\* With a store that always answers, and with one that may throw.
FairSpec   == Init /\ [][Living \/ Crash \/ Resume]_vars /\ Fairness
FaultySpec == Spec /\ Fairness

\* Every match ends, whether or not anybody ever says stop, and stays ended.
EventuallyEnds == <>[]IsTerminal

\* A server the ledger does not account for is gone sooner or later, or accounted for.
Accounted(r) == IsOpen(r) /\ IsBound(r)
OrphanIsReaped ==
    \A r \in Rows : server[r] = "up" /\ ~Accounted(r) ~> server[r] = "gone" \/ Accounted(r)

\* No row stays open for ever: the match's end closes it, or its ceiling does.
RowIsClosed == \A r \in Rows : IsOpen(r) ~> ~IsOpen(r)
=============================================================================
