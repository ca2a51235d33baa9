------------------------------ MODULE NodeFleet ------------------------------
(***************************************************************************)
(* One venue box of the fleet: the `nodes` provider of the orchestrator    *)
(* with its warm pool, its claims and its sweep of strays, the node link   *)
(* between the two processes, and the agent that runs the containers.  The *)
(* walks of the match machine and the reaper call the provider.            *)
(*                                                                         *)
(* Every await is a step of its own.  A container's id is a number, handed *)
(* out in order; its warm row and the row of the walk that holds it are    *)
(* the ledger.  A match is one walk: what a restart walks again is, to the *)
(* provider, another one.                                                  *)
(***************************************************************************)
EXTENDS Integers, Sequences, FiniteSets

CONSTANTS
    MaxIds,        \* bound: containers the provider may mint
    Foreign,       \* containers of another deployment the box still runs
    Walks,         \* the walks that may ask for a server
    MaxInstances,  \* the node's own ceiling (capacity.maxInstances)
    Warm,          \* what it wants kept warm (capacity.warm)
    Jobs,          \* bound: the provider's background tasks at a time
    MaxSockets,    \* bound: sockets the agent may dial
    MaxSnapshots,  \* bound: snapshots in flight on one socket
    Mishaps,       \* which kinds of mishap the world has in store
    MaxMishaps,    \* bound: how many of them happen
    NoOne

\* Deaths of either process, a socket or a server link that breaks, a container
\* that fails, a stop docker refuses, a row that expires.  Three that are not
\* counted, for they take no fault but an unlucky moment: a container may change
\* between a hello and its welcome ("unheard"), a frame of a socket be read after
\* that socket was replaced ("late"), and a walk claim a container that adopt has
\* read the open row of and not held yet ("overtaken").
MishapKinds == {"restart", "agent", "break", "drop", "fault", "refusal", "expiry",
                "unheard", "late", "overtaken"}

Ids == 1 .. MaxIds
Sockets == 1 .. MaxSockets
None == 0

ASSUME FleetAssumption ==
    /\ MaxIds \in Nat /\ MaxSockets \in Nat /\ MaxSnapshots \in Nat \ {0}
    /\ Foreign \subseteq Ids
    /\ MaxInstances \in Nat /\ Warm \in Nat /\ Warm <= MaxInstances
    /\ Mishaps \subseteq MishapKinds /\ MaxMishaps \in Nat
    /\ Walks \cap {NoOne, "warm", "none"} = {}

VARIABLES
    \* the ledger, and the walks of the match machine
    warmRow,  \* a container's own row, and why it was closed
    row,      \* is the walk's row open, and which container does it name?
    token,    \* the row the container's server token opens
    walk,     \* where each walk is
    mine,     \* the container a walk was given
    \* the provider's memory
    held,     \* `instances`: what this process knows of a container
    told,     \* containers a stop was written for on the current socket
    jobs,     \* the background tasks, each at the await it stands at
    reaping,  \* a warm row the reaper's pass has read as expired
    \* the node link, orchestrator side
    node,     \* the socket of the registered node, 0 when it is away
    view,     \* the containers each session's node last reported
    stage,    \* where each socket is
    previous, \* the session a greeting found before its await
    shut,     \* sockets whose close the orchestrator has heard
    \* the wire and the agent
    broken,   \* sockets the network took
    up,       \* snapshots on their way, the hello's first
    down,     \* frames on their way to the agent's current socket
    inbox,    \* frames an earlier socket delivered, not applied yet
    dialled,  \* how many sockets the agent has dialled
    dial,     \* the agent's current socket, 0 while it waits to dial again
    welcomed, \* has the agent read its welcome?
    born,     \* the purpose a container was started for, once it is minted
    box,      \* the agent's containers
    bound,    \* the row a container's server link stands under
    busy,     \* the container a start or a stop is at work on
    mishaps   \* how many have happened

ledger == <<warmRow, row, token>>
walks == <<walk, mine>>
provider == <<held, told, jobs, reaping>>
session == <<node, view, stage, previous, shut>>
wire == <<broken, up, down>>
agent == <<inbox, dialled, dial, welcomed, born, box, bound, busy>>
vars == <<warmRow, row, token, walk, mine, held, told, jobs, reaping, node, view,
          stage, previous, shut, broken, up, down, inbox, dialled, dial, welcomed,
          born, box, bound, busy, mishaps>>

-----------------------------------------------------------------------------
Unheld == [known |-> FALSE, owner |-> NoOne, moving |-> FALSE, token |-> FALSE,
           warm |-> FALSE]
\* An entry of `instances`; `claimed` is having an owner, `moving` a warm row
\* still to be closed (warmFleetServerId), `token` a token id to move, `warm`
\* what the process believes of its birth (bornWarm).
Holding(owner, has, warm) ==
    [known |-> TRUE, owner |-> owner, moving |-> FALSE, token |-> has, warm |-> warm]

IdleJob == [at |-> "idle", sock |-> None, rows |-> {}, ids |-> {}, c |-> None,
            own |-> NoOne, warm |-> FALSE, left |-> 0]

Nothing == [c \in Ids |-> "none"]
Least(S) == CHOOSE c \in S : \A d \in S : c <= d
Unborn == {c \in Ids : born[c] = "none"}
Held(h) == {c \in Ids : h[c].known}
Reported(s) == {c \in Ids : view[s][c] # "none"}
Live == {c \in Ids : box[c] \notin {"none", "failed"}}

\* What a node may still take: its ceiling, less the more of what the provider
\* holds on it and what it reports.
FreeCapacity(s, h) ==
    LET used == IF Cardinality(Held(h)) >= Cardinality(Reported(s))
                THEN Cardinality(Held(h)) ELSE Cardinality(Reported(s))
    IN  IF used >= MaxInstances THEN 0 ELSE MaxInstances - used

\* The open rows that name a container, newest first: a walk's row is newer
\* than the warm one.
RowNames(w, c) == row[w].open /\ row[w].server = c
OpenRows(c) ==
    {w \in Walks : RowNames(w, c)} \cup (IF warmRow[c] = "open" THEN {NoOne} ELSE {})
\* Mutant: the oldest row that names the container is read.
FirstRow(c) ==
    IF warmRow[c] # "none" THEN warmRow[c] = "open" ELSE \E w \in Walks : RowNames(w, c)

\* findServerByHandle: is the newest row that names the container open?
LastRow(c) ==
    IF \E w \in Walks : row[w].server = c
    THEN \E w \in Walks : RowNames(w, c)
    ELSE warmRow[c] = "open"
\* Mutant: a container no row names is ours too.
HasAnyRow(c) == TRUE
HasRow(c) == warmRow[c] # "none" \/ \E w \in Walks : row[w].server = c

\* Frames written on socket s: false once its close was heard, lost when the
\* agent is on another one or the network took it.
Writable(s) == s # None /\ s \notin shut
Frame(kind, c) == [kind |-> kind, c |-> c]
Sent(s, frames) ==
    IF Writable(s) /\ s = dial /\ s \notin broken THEN down \o frames ELSE down

-----------------------------------------------------------------------------
(* What follows an await in the provider's tasks.  Each operator says at   *)
(* which await the task stands next, given what it has just written.       *)

\* topUp's loop: start another warm container, unless the pool is full.
NextWarm(s, left, h) ==
    LET warm == {c \in Held(h) : h[c].owner = NoOne}
    IN  IF \/ left = 0 \/ Cardinality(warm) >= Warm
           \/ FreeCapacity(s, h) = 0 \/ Unborn = {}
        THEN IdleJob
        ELSE [IdleJob EXCEPT !.at = "row", !.sock = s, !.left = left,
                             !.c = Least(Unborn)]
Minted(job) == [born EXCEPT ![job.c] = "warm"]

\* topUp: over the registered nodes, reading the node's row first.
TopUp == IF node = None THEN IdleJob
         ELSE [IdleJob EXCEPT !.at = "node", !.sock = node]

\* sweepStrays: the next reported container that is neither held nor told.
Sweep(s, ids, h, t) ==
    LET unknown == {c \in ids : ~h[c].known /\ c \notin t}
    IN  IF unknown = {} THEN TopUp
        ELSE [IdleJob EXCEPT !.at = "ledger", !.sock = s, !.c = Least(unknown),
                             !.ids = {c \in ids : c > Least(unknown)}]

\* adopt: the next open row of a container that is not held.
Adopt(s, rows, h) ==
    LET unknown == {r \in rows : ~h[r.c].known}
    IN  IF unknown = {} THEN Sweep(s, Reported(s), h, told)
        ELSE LET r == CHOOSE r \in unknown : \A q \in unknown : r.c <= q.c
             IN  [IdleJob EXCEPT !.at = "find", !.sock = s, !.c = r.c, !.own = r.own,
                                 !.rows = unknown \ {r},
                                 !.warm = view[s][r.c] # "none" /\ born[r.c] = "warm"]

\* What is told once adopt goes on: the sweep forgets who is not reported any more.
Swept(s, rows, h) == IF \A r \in rows : h[r.c].known THEN told \cap Reported(s) ELSE told

\* The rows an adopt under way is yet to hold a container for.
ToRead(job) ==
    IF job.at = "find" THEN job.rows \cup {[c |-> job.c, own |-> job.own]} ELSE {}

\* The open rows adopt reads, the newest for each container.
AdoptableRows ==
    {r \in [c : Ids, own : Walks \cup {NoOne}] :
        /\ r.own \in OpenRows(r.c)
        /\ r.own = NoOne => OpenRows(r.c) = {NoOne}}

-----------------------------------------------------------------------------
Init ==
    /\ warmRow = [c \in Ids |-> "none"]
    /\ row = [w \in Walks |-> [open |-> FALSE, server |-> None]]
    /\ token = [c \in Ids |-> "none"]
    /\ walk = [w \in Walks |-> "idle"]
    /\ mine = [w \in Walks |-> None]
    /\ held = [c \in Ids |-> Unheld]
    /\ told = {}
    /\ jobs = [j \in Jobs |-> IdleJob]
    /\ reaping = None
    /\ node = None
    /\ view = [s \in Sockets |-> Nothing]
    /\ stage = [s \in Sockets |-> "none"]
    /\ previous = [s \in Sockets |-> None]
    /\ shut = {}
    /\ broken = {}
    /\ up = [s \in Sockets |-> <<>>]
    /\ down = <<>>
    /\ inbox = <<>>
    /\ dialled = 0
    /\ dial = None
    /\ welcomed = FALSE
    /\ born = [c \in Ids |-> IF c \in Foreign THEN "warm" ELSE "none"]
    /\ box = [c \in Ids |-> IF c \in Foreign THEN "running" ELSE "none"]
    /\ bound = [c \in Ids |-> "none"]
    /\ busy = None
    /\ mishaps = 0

-----------------------------------------------------------------------------
(* The agent.                                                              *)

Happens(kind) ==
    /\ kind \in Mishaps /\ mishaps < MaxMishaps
    /\ mishaps' = mishaps + 1

\* Mutant: the snapshot is taken before the change.
PublishBefore(after) ==
    LET queue == up[dial]
        more == IF Len(queue) < MaxSnapshots THEN Append(queue, box)
                ELSE [queue EXCEPT ![Len(queue)] = box]
    IN  IF dial # None /\ welcomed /\ dial \notin broken /\ after # box
        THEN up' = [up EXCEPT ![dial] = more]
        ELSE up' = up

\* A change of the containers is a snapshot, if the link is welcomed: else
\* the next hello is to carry it.  Of more snapshots than MaxSnapshots the
\* newest replaces the one before it.
Publish(after) ==
    LET queue == up[dial]
        more == IF Len(queue) < MaxSnapshots THEN Append(queue, after)
                ELSE [queue EXCEPT ![Len(queue)] = after]
    IN  IF dial # None /\ welcomed /\ dial \notin broken /\ after # box
        THEN up' = [up EXCEPT ![dial] = more]
        ELSE up' = up

Settled == dial = None \/ welcomed \/ "unheard" \in Mishaps
\* A container that does not run has no plugin and no link.
Change(after) ==
    /\ Settled
    /\ box' = after
    /\ bound' = [c \in Ids |-> IF after[c] = "running" THEN bound[c] ELSE "none"]
    /\ Publish(after)

\* The socket opens, and the hello with the containers of now is on its way.
\* The agent's backoff, a second or more, outlasts the greeting before.
Dial ==
    /\ dial = None /\ dialled < MaxSockets
    /\ \A s \in Sockets : stage[s] \notin {"hello", "greeting"}
    /\ dialled' = dialled + 1
    /\ dial' = dialled + 1
    /\ welcomed' = FALSE
    /\ stage' = [stage EXCEPT ![dialled + 1] = "hello"]
    /\ up' = [up EXCEPT ![dialled + 1] = <<box>>]
    /\ down' = <<>>
    /\ UNCHANGED <<ledger, walks, provider, node, view, previous, shut, broken,
                   inbox, born, box, bound, busy, mishaps>>

\* The welcome arrives; the frames behind it are applied from here on.
Welcome ==
    /\ dial # None /\ ~welcomed /\ dial \notin broken \cup shut
    /\ stage[dial] = "open"
    /\ welcomed' = TRUE
    /\ UNCHANGED <<ledger, walks, provider, session, wire, inbox, dialled, dial,
                   born, box, bound, busy, mishaps>>

\* The socket ends.  What it delivered stays on the inbound chain.
Hangup ==
    /\ dial # None /\ dial \in broken \cup shut
    /\ \E n \in 0 .. (IF welcomed THEN Len(down) ELSE 0) :
           inbox' = inbox \o SubSeq(down, 1, n)
    /\ dial' = None /\ welcomed' = FALSE /\ down' = <<>>
    /\ UNCHANGED <<ledger, walks, provider, session, broken, up, dialled, born,
                   box, bound, busy, mishaps>>

\* The next frame of the inbound chain.
HasFrame == inbox # <<>> \/ (welcomed /\ down # <<>>)
NextFrame == IF inbox # <<>> THEN Head(inbox) ELSE Head(down)
TakeFrame ==
    /\ busy = None /\ HasFrame
    /\ inbox' = IF inbox # <<>> THEN Tail(inbox) ELSE inbox
    /\ down' = IF inbox # <<>> THEN down ELSE Tail(down)
AgentUnchanged == UNCHANGED <<ledger, walks, provider, session, broken, dialled,
                              dial, welcomed, born>>

\* start: what already runs is left alone; past the ceiling it is a failed
\* instance; else a container is created.
OnStart ==
    /\ TakeFrame /\ NextFrame.kind = "start"
    /\ LET c == NextFrame.c
       IN  \/ /\ box[c] \notin {"none", "failed"}
              /\ UNCHANGED <<box, bound, busy, up>>
           \/ /\ box[c] \in {"none", "failed"}
              /\ Cardinality(Live) >= MaxInstances
              /\ Change([box EXCEPT ![c] = "failed"])
              /\ UNCHANGED busy
           \/ /\ box[c] \in {"none", "failed"}
              /\ Cardinality(Live) < MaxInstances
              /\ box' = [box EXCEPT ![c] = "none"]
              /\ busy' = c
              /\ UNCHANGED <<bound, up>>
    /\ UNCHANGED mishaps
    /\ AgentUnchanged

\* The image is here and the container is created: an instance from now on, or
\* a failed one (an image that cannot be pulled, a refusal).
Created ==
    /\ busy # None /\ box[busy] = "none"
    /\ \/ Change([box EXCEPT ![busy] = "starting"]) /\ UNCHANGED <<busy, mishaps>>
       \/ Change([box EXCEPT ![busy] = "failed"]) /\ busy' = None /\ Happens("fault")
    /\ UNCHANGED <<inbox, down>> /\ AgentUnchanged

\* docker answers the start: the container runs, or is a failed instance.
Started ==
    /\ busy # None /\ box[busy] = "starting"
    /\ \/ Change([box EXCEPT ![busy] = "running"]) /\ UNCHANGED mishaps
       \/ Change([box EXCEPT ![busy] = "failed"]) /\ Happens("fault")
    /\ busy' = None
    /\ UNCHANGED <<inbox, down>> /\ AgentUnchanged

OnStop ==
    /\ TakeFrame /\ NextFrame.kind = "stop"
    /\ LET c == NextFrame.c
       IN  \/ box[c] = "none" /\ UNCHANGED <<box, bound, busy, up>>
           \/ /\ box[c] # "none"
              /\ Change([box EXCEPT ![c] = "stopping"])
              /\ busy' = c
    /\ UNCHANGED mishaps
    /\ AgentUnchanged

\* docker answers the stop: the entry goes.
Stopped ==
    /\ busy # None /\ box[busy] = "stopping"
    /\ Change([box EXCEPT ![busy] = "none"])
    /\ busy' = None
    /\ UNCHANGED <<inbox, down, mishaps>> /\ AgentUnchanged

\* docker will not let go: the entry stays, failed.
StopRefused ==
    /\ busy # None /\ box[busy] = "stopping"
    /\ Happens("refusal")
    /\ Change([box EXCEPT ![busy] = "failed"])
    /\ busy' = None
    /\ UNCHANGED <<inbox, down>> /\ AgentUnchanged

\* A container dies or vanishes, and the poll of docker finds it so.
Reconcile ==
    /\ busy = None
    /\ Happens("fault")
    /\ \E c \in Ids : box[c] \in {"starting", "running"}
                      /\ Change([box EXCEPT ![c] = "failed"])
    /\ UNCHANGED <<inbox, down, busy>> /\ AgentUnchanged

\* The agent dies and a new one reads its containers back from docker: a
\* refused one has none to be read from, one in the middle of a start or a
\* stop is in whichever state docker has it.
Readopted(c, after) ==
    LET before == IF busy = c /\ box[c] = "none" THEN "starting" ELSE box[c] IN
    CASE before = "none" -> after = "none"
      [] before = "running" -> after = "running"
      [] before = "failed" -> after \in {"none", "failed"}
      [] before = "starting" -> after \in {"none", "starting", "running", "failed"}
      [] OTHER -> after \in {"none", "running", "failed"}
AgentRestart ==
    /\ Happens("agent") /\ dialled < MaxSockets
    /\ \E after \in [Ids -> {"none", "starting", "running", "failed"}] :
           /\ \A c \in Ids : Readopted(c, after[c])
           /\ box' = after
           /\ bound' = [c \in Ids |-> IF after[c] = "running" THEN bound[c] ELSE "none"]
    /\ busy' = None /\ inbox' = <<>> /\ down' = <<>>
    /\ broken' = IF dial = None THEN broken ELSE broken \cup {dial}
    /\ dial' = None /\ welcomed' = FALSE
    /\ UNCHANGED <<ledger, walks, provider, session, up, dialled, born>>

\* The network takes a socket; the ends learn of it each in its own time.
Break ==
    /\ dial # None /\ dial \notin broken /\ dialled < MaxSockets
    /\ Happens("break")
    /\ broken' = broken \cup {dial}
    /\ UNCHANGED <<ledger, walks, provider, session, up, down, agent>>

\* A container's plugin dials the server link, again or for the first time:
\* the row its token opens, if that row is still open.
Relink(c) ==
    /\ box[c] = "running" /\ token[c] \in OpenRows(c) \cup {"warm"}
    /\ token[c] = "warm" => warmRow[c] = "open"
    /\ bound' = [bound EXCEPT ![c] = token[c]]
    /\ UNCHANGED <<ledger, walks, provider, session, wire, inbox, dialled, dial,
                   welcomed, born, box, busy, mishaps>>

\* Its link closes.
Unlink(c) ==
    /\ bound[c] # "none"
    /\ Happens("drop")
    /\ bound' = [bound EXCEPT ![c] = "none"]
    /\ UNCHANGED <<ledger, walks, provider, session, wire, inbox, dialled, dial,
                   welcomed, born, box, busy>>

-----------------------------------------------------------------------------
(* The node link, orchestrator side.                                       *)

\* The hello is read and its token opens the node's row.
Greet(s) ==
    /\ stage[s] = "hello"
    /\ stage' = [stage EXCEPT ![s] = "greeting"]
    /\ previous' = [previous EXCEPT ![s] = node]
    /\ UNCHANGED <<ledger, walks, provider, node, view, shut, wire, agent, mishaps>>

\* Mutant: a stop stays told when the node comes back on another socket.
StillToldAll == told

\* What was told on an earlier socket may never have been applied.
StillTold == {}

\* The row is written: this socket is the node's from now on, the one before
\* is hung up, and the watchers start to adopt.
Attach(s) ==
    /\ stage[s] = "greeting"
    /\ stage' = [stage EXCEPT ![s] = "open"]
    /\ shut' = IF previous[s] = None THEN shut ELSE shut \cup {previous[s]}
    /\ node' = s
    /\ view' = [view EXCEPT ![s] = Head(up[s])]
    /\ up' = [up EXCEPT ![s] = Tail(@)]
    /\ told' = StillTold
    /\ \E j \in Jobs :
           /\ jobs[j].at = "idle"
           /\ jobs' = [jobs EXCEPT ![j] = [IdleJob EXCEPT !.at = "list", !.sock = s]]
    /\ UNCHANGED <<ledger, walks, held, reaping, previous, broken, down, agent, mishaps>>

\* The close of a socket.  One that is being greeted has no node to detach.
Close(s) ==
    /\ s \in broken \cup (Sockets \ {dial})
    /\ s \notin shut /\ stage[s] \in {"hello", "greeting", "open"}
    /\ shut' = shut \cup {s}
    /\ stage' = IF stage[s] = "greeting" THEN stage ELSE [stage EXCEPT ![s] = "closed"]
    /\ node' = IF node = s THEN None ELSE node
    /\ up' = [up EXCEPT ![s] =
                 IF stage[s] = "greeting" \/ "late" \in Mishaps THEN @ ELSE <<>>]
    /\ UNCHANGED <<ledger, walks, provider, view, previous, broken, down, agent, mishaps>>

\* An `instances` frame, from whichever socket: the registry knows the node
\* by its id.  A sweep and a top up follow.
OnInstances(s) ==
    /\ stage[s] \in {"open", "closed"} /\ up[s] # <<>>
    /\ s = node \/ "late" \in Mishaps
    /\ up' = [up EXCEPT ![s] = Tail(@)]
    /\ IF node = None THEN UNCHANGED <<view, told, jobs>>
       ELSE /\ view' = [view EXCEPT ![node] = Head(up[s])]
            /\ LET reported == {c \in Ids : Head(up[s])[c] # "none"}
               IN  /\ told' = told \cap reported
                   /\ \E j \in Jobs :
                          /\ jobs[j].at = "idle"
                          /\ jobs' = [jobs EXCEPT ![j] =
                                          Sweep(node, reported, held, told')]
    /\ UNCHANGED <<ledger, walks, held, reaping, node, stage, previous, shut,
                   broken, down, agent, mishaps>>

-----------------------------------------------------------------------------
(* The provider's background tasks.                                        *)

JobsUnchanged == UNCHANGED <<row, walks, reaping, session, broken, up, inbox,
                             dialled, dial, welcomed, box, bound, busy, mishaps>>

\* adopt's listing of the open rows lands.
ListRows(j) ==
    /\ jobs[j].at = "list"
    /\ jobs' = [jobs EXCEPT ![j] = Adopt(@.sock, AdoptableRows, held)]
    /\ told' = Swept(jobs[j].sock, AdoptableRows, held)
    /\ UNCHANGED <<warmRow, token, held, down, born>> /\ JobsUnchanged

\* The row's token was read: the container is held as its row says.
AdoptOne(j) ==
    LET job == jobs[j]
        c == job.c
        has == token[c] = IF job.own = NoOne THEN "warm" ELSE job.own
        after == [held EXCEPT ![c] = Holding(job.own, has, job.warm)]
    IN  /\ job.at = "find"
        /\ held' = after
        /\ jobs' = [jobs EXCEPT ![j] = Adopt(job.sock, job.rows, after)]
        /\ told' = Swept(job.sock, job.rows, after)
        /\ UNCHANGED <<warmRow, token, down, born>> /\ JobsUnchanged

\* The stray's row was read.  A closed row of ours is the warrant to stop it;
\* an open one is adopt's, and no row at all is another world's.
Judge(j) ==
    LET job == jobs[j]
        stop == HasRow(job.c) /\ ~LastRow(job.c)
        after == IF stop /\ Writable(job.sock) THEN told \cup {job.c} ELSE told
    IN  /\ job.at = "ledger"
        /\ told' = after
        /\ down' = IF stop THEN Sent(job.sock, <<Frame("stop", job.c)>>) ELSE down
        /\ jobs' = [jobs EXCEPT ![j] = Sweep(job.sock, job.ids, held, after)]
        /\ UNCHANGED <<warmRow, token, held, born>> /\ JobsUnchanged

\* The step a loop of topUp goes on with, minting the next container's id.
GoOn(j, next) ==
    /\ jobs' = [jobs EXCEPT ![j] = next]
    /\ born' = IF next.at = "row" THEN Minted(next) ELSE born

\* The node's row was read.
NodeRead(j) ==
    /\ jobs[j].at = "node"
    /\ GoOn(j, NextWarm(jobs[j].sock, Warm, held))
    /\ UNCHANGED <<warmRow, token, held, told, down>> /\ JobsUnchanged

\* startWarm: the container's own row is in the ledger.
OpenWarm(j) ==
    /\ jobs[j].at = "row"
    /\ warmRow' = [warmRow EXCEPT ![jobs[j].c] = "open"]
    /\ jobs' = [jobs EXCEPT ![j].at = "token"]
    /\ UNCHANGED <<token, held, told, down, born>> /\ JobsUnchanged

\* startWarm: its token is written; it is held and its start goes out.
StartWarm(j) ==
    LET job == jobs[j]
        after == [held EXCEPT ![job.c] = Holding(NoOne, TRUE, TRUE)]
    IN  /\ job.at = "token"
        /\ token' = [token EXCEPT ![job.c] = "warm"]
        /\ IF Writable(job.sock)
           THEN /\ held' = after
                /\ down' = Sent(job.sock, <<Frame("start", job.c)>>)
                /\ GoOn(j, NextWarm(job.sock, job.left - 1, after))
           ELSE /\ held' = [held EXCEPT ![job.c] = Unheld]
                /\ jobs' = [jobs EXCEPT ![j].at = "unsent"]
                /\ UNCHANGED <<down, born>>
        /\ UNCHANGED <<warmRow, told>> /\ JobsUnchanged

\* startWarm: the start had no socket to go out on, and the row is closed.
Unsent(j) ==
    LET job == jobs[j]
    IN  /\ job.at = "unsent"
        /\ warmRow' = [warmRow EXCEPT ![job.c] = "failed"]
        /\ GoOn(j, NextWarm(job.sock, job.left - 1, held))
        /\ UNCHANGED <<token, held, told, down>> /\ JobsUnchanged

\* deallocate: the stop goes out, the entry goes, and the pool is topped up.
\* (closeRow has said stop once before: the agent's stop is idempotent, and the
\* two frames are one here.)
Deallocate(c) ==
    IF ~held[c].known THEN UNCHANGED <<held, told, jobs, down>>
    ELSE /\ held' = [held EXCEPT ![c] = Unheld]
         /\ told' = IF Writable(node) THEN told \cup {c} ELSE told
         /\ down' = Sent(node, <<Frame("stop", c)>>)
         /\ \E j \in Jobs :
                jobs[j].at = "idle" /\ jobs' = [jobs EXCEPT ![j] = TopUp]

-----------------------------------------------------------------------------
(* A walk of the match machine, and the end of its match.                  *)

WalkUnchanged == UNCHANGED <<reaping, session, broken, up, inbox, dialled, dial,
                             welcomed, box, bound, busy, mishaps>>
At(w, from, to) == walk[w] = from /\ walk' = [walk EXCEPT ![w] = to]

OpenRow(w) ==
    /\ At(w, "idle", "row")
    /\ row' = [row EXCEPT ![w].open = TRUE]
    /\ UNCHANGED <<warmRow, token, mine, held, told, jobs, down, born>> /\ WalkUnchanged

\* Mutant: a container is looked up by the node's report alone.
FreeWarmReported ==
    {c \in Held(held) : view[node][c] \in {"starting", "running"} /\ born[c] = "warm"}

\* What a claim looks for: warm, up as far as the node says, held and unclaimed.
FreeWarm ==
    {c \in Held(held) : /\ view[node][c] \in {"starting", "running"}
                        /\ born[c] = "warm" /\ held[c].owner = NoOne}

\* allocate gives the walk a warm container, claimed in the same breath.
Claim(w) ==
    /\ At(w, "row", "given")
    /\ node # None
    /\ \E c \in FreeWarm :
           /\ "overtaken" \in Mishaps \/ \A j \in Jobs : \A r \in ToRead(jobs[j]) : r.c # c
           /\ mine' = [mine EXCEPT ![w] = c]
           /\ held' = [held EXCEPT ![c].owner = w, ![c].moving = TRUE]
    /\ UNCHANGED <<ledger, told, jobs, down, born>> /\ WalkUnchanged

\* allocate without a warm one: an id for a container that is yet to start.
Cold(w) ==
    /\ At(w, "row", "given")
    /\ node # None /\ FreeWarm = {} /\ FreeCapacity(node, held) > 0 /\ Unborn # {}
    /\ mine' = [mine EXCEPT ![w] = Least(Unborn)]
    /\ held' = [held EXCEPT ![Least(Unborn)] = Holding(w, FALSE, FALSE)]
    /\ born' = [born EXCEPT ![Least(Unborn)] = "match"]
    /\ UNCHANGED <<ledger, told, jobs, down>> /\ WalkUnchanged

\* allocate rejects: no node, or every one is full.
Rejected(w) ==
    /\ At(w, "row", "done")
    /\ node # None => FreeWarm = {} /\ FreeCapacity(node, held) = 0
    /\ row' = [row EXCEPT ![w].open = FALSE]
    /\ UNCHANGED <<warmRow, token, mine, held, told, jobs, down, born>> /\ WalkUnchanged

\* The container's id is written on the walk's row.
NameServer(w) ==
    /\ At(w, "given", "named")
    /\ row' = [row EXCEPT ![w].server = mine[w]]
    /\ UNCHANGED <<warmRow, token, mine, held, told, jobs, down, born>> /\ WalkUnchanged

\* configure: the token of a claimed container moves to the walk's row.
Configure(w) ==
    LET c == mine[w]
    IN  /\ walk[w] = "named" /\ held[c].known
        /\ walk' = [walk EXCEPT ![w] = IF held[c].moving THEN "moving" ELSE "configured"]
        /\ token' = IF held[c].moving /\ held[c].token
                    THEN [token EXCEPT ![c] = w] ELSE token
        /\ UNCHANGED <<warmRow, row, mine, held, told, jobs, down, born>> /\ WalkUnchanged

\* configure: the warm row is closed, claimed.
CloseWarm(w) ==
    LET c == mine[w]
    IN  /\ At(w, "moving", "configured")
        /\ warmRow' = [warmRow EXCEPT ![c] = "claimed"]
        /\ held' = [held EXCEPT ![c].moving = FALSE]
        /\ UNCHANGED <<row, token, mine, told, jobs, down, born>> /\ WalkUnchanged

\* Mutant: the session keeps the row it was opened under.
RebindNever(w) ==
    LET c == mine[w]
    IN  /\ At(w, "configured", "playing")
        /\ held[c].known /\ held[c].warm /\ bound[c] # "none"
        /\ UNCHANGED <<ledger, mine, provider, session, wire, agent, mishaps>>

\* start of a claimed container: its link session is pointed at the walk's row.
Rebind(w) ==
    LET c == mine[w]
    IN  /\ At(w, "configured", "playing")
        /\ held[c].known /\ held[c].warm /\ bound[c] # "none"
        /\ bound' = [bound EXCEPT ![c] = w]
        /\ UNCHANGED <<ledger, mine, provider, session, wire, inbox, dialled, dial,
                       welcomed, born, box, busy, mishaps>>

\* start of one it takes for a cold one: the frame goes to the node, with the
\* walk's token, which a container that runs already never hears of.
StartCold(w) ==
    LET c == mine[w]
    IN  /\ At(w, "configured", "playing")
        /\ held[c].known /\ ~held[c].warm /\ Writable(node)
        /\ token' = IF born[c] = "match" THEN [token EXCEPT ![c] = w] ELSE token
        /\ down' = Sent(node, <<Frame("start", c)>>)
        /\ UNCHANGED <<warmRow, row, mine, held, told, jobs, born>> /\ WalkUnchanged

\* configure or start throws: the container is gone from the provider's
\* memory, holds no link session or has no node to be started on.
Throws(w) ==
    LET c == mine[w]
    IN  \/ walk[w] = "named" /\ ~held[c].known
        \/ /\ walk[w] = "configured"
           /\ \/ ~held[c].known
              \/ held[c].warm /\ bound[c] = "none"
              \/ ~held[c].warm /\ ~Writable(node)
GiveUp(w) ==
    /\ Throws(w)
    /\ walk' = [walk EXCEPT ![w] = "closing"]
    /\ Deallocate(mine[w])
    /\ UNCHANGED <<ledger, mine, born>> /\ WalkUnchanged

\* The match ends: closeRow stops and deallocates, and then writes the row.
EndMatch(w) ==
    /\ At(w, "playing", "ending") \/ At(w, "cut", "ending")
    /\ Deallocate(mine[w])
    /\ UNCHANGED <<ledger, mine, born>> /\ WalkUnchanged

CloseRow(w) ==
    /\ walk[w] \in {"closing", "ending"}
    /\ walk' = [walk EXCEPT ![w] = "done"]
    /\ row' = [row EXCEPT ![w].open = FALSE]
    /\ UNCHANGED <<warmRow, token, mine, held, told, jobs, down, born>> /\ WalkUnchanged

-----------------------------------------------------------------------------
(* The reaper.                                                             *)

ReaperUnchanged == UNCHANGED <<row, token, walks, session, broken, up, agent>>

\* A pass reads an open row with no match past its expiry.
ReadExpired(c) ==
    /\ reaping = None /\ warmRow[c] = "open"
    /\ Happens("expiry")
    /\ reaping' = c
    /\ UNCHANGED <<warmRow, held, told, jobs, down>> /\ ReaperUnchanged

\* Later in that pass it deallocates the row's server and closes the row.
Expire ==
    /\ reaping # None
    /\ Deallocate(reaping)
    /\ warmRow' = [warmRow EXCEPT ![reaping] = "expired"]
    /\ reaping' = None
    /\ UNCHANGED mishaps /\ ReaperUnchanged

\* A server the provider lists and no open row names, for longer than the
\* grace, which outlasts the store call that names a walk's container.
ReapOrphan(c) ==
    /\ held[c].known /\ OpenRows(c) = {}
    /\ \A w \in Walks : walk[w] = "given" => mine[w] # c
    /\ Deallocate(c)
    /\ UNCHANGED <<warmRow, reaping, mishaps>> /\ ReaperUnchanged

-----------------------------------------------------------------------------
\* The orchestrator dies and starts again.  A walk under way is lost with it,
\* and its row left as it stands; an end that was cut short comes again.
Restart ==
    /\ Happens("restart") /\ dialled < MaxSockets
    /\ walk' = [w \in Walks |->
                  CASE walk[w] \in {"row", "given", "named", "moving", "configured",
                                    "closing"} -> "lost"
                    [] walk[w] = "ending" -> "cut"
                    [] OTHER -> walk[w]]
    /\ held' = [c \in Ids |-> Unheld]
    /\ told' = {}
    /\ jobs' = [j \in Jobs |-> IdleJob]
    /\ reaping' = None
    /\ node' = None /\ view' = [s \in Sockets |-> Nothing]
    /\ stage' = [s \in Sockets |-> IF stage[s] = "none" THEN "none" ELSE "closed"]
    /\ shut' = {s \in Sockets : stage[s] # "none"}
    /\ up' = [s \in Sockets |-> <<>>]
    /\ bound' = [c \in Ids |-> "none"]
    /\ UNCHANGED <<ledger, mine, previous, broken, down, inbox, dialled, dial,
                   welcomed, born, box, busy>>

-----------------------------------------------------------------------------
AgentStep == Dial \/ Welcome \/ Hangup \/ OnStart \/ Created \/ Started \/ OnStop \/ Stopped
LinkStep(s) == Greet(s) \/ Attach(s) \/ Close(s) \/ OnInstances(s)
JobStep(j) == ListRows(j) \/ AdoptOne(j) \/ Judge(j) \/ NodeRead(j)
              \/ OpenWarm(j) \/ StartWarm(j) \/ Unsent(j)
WalkStep(w) == Claim(w) \/ Cold(w) \/ Rejected(w) \/ NameServer(w) \/ Configure(w)
               \/ CloseWarm(w) \/ Rebind(w) \/ StartCold(w) \/ GiveUp(w) \/ CloseRow(w)
Mishap == StopRefused \/ Reconcile \/ AgentRestart \/ Break \/ Restart

Next ==
    \/ AgentStep
    \/ \E s \in Sockets : LinkStep(s)
    \/ \E j \in Jobs : JobStep(j)
    \/ \E w \in Walks : OpenRow(w) \/ WalkStep(w) \/ EndMatch(w)
    \/ \E c \in Ids : ReadExpired(c) \/ ReapOrphan(c) \/ Relink(c) \/ Unlink(c)
    \/ Expire
    \/ Mishap

Spec == Init /\ [][Next]_vars

\* Every promise settles, every socket's end is heard, docker answers, the
\* agent dials again and the reaper's pass comes round.  No fairness for
\* what the world decides: a match asked for, a mishap, a match that ends.
Fairness ==
    /\ WF_vars(AgentStep)
    /\ \A s \in Sockets : WF_vars(Greet(s)) /\ WF_vars(Attach(s)) /\ WF_vars(Close(s))
                          /\ WF_vars(OnInstances(s))
    /\ \A j \in Jobs : WF_vars(JobStep(j))
    /\ \A w \in Walks : WF_vars(WalkStep(w))
    /\ \A c \in Ids : WF_vars(ReapOrphan(c))

FairSpec == Spec /\ Fairness

-----------------------------------------------------------------------------
(* What the fleet promises.                                                *)

Containers == [Ids -> {"none", "starting", "running", "stopping", "failed"}]
Keys == Walks \cup {"warm", "none"}
JobType ==
    {job \in [at : {"idle", "list", "find", "ledger", "node", "row", "token", "unsent"},
              sock : 0 .. MaxSockets,
              rows : SUBSET [c : Ids, own : Walks \cup {NoOne}], ids : SUBSET Ids,
              c : 0 .. MaxIds, own : Walks \cup {NoOne}, warm : BOOLEAN, left : 0 .. Warm] :
        job.at \notin {"idle", "list", "node"} => job.c # None}
Frames == [kind : {"start", "stop"}, c : Ids]

Entries == [known : BOOLEAN, owner : Walks \cup {NoOne}, moving : BOOLEAN,
            token : BOOLEAN, warm : BOOLEAN]

LedgerType ==
    /\ warmRow \in [Ids -> {"none", "open", "claimed", "expired", "failed"}]
    /\ row \in [Walks -> [open : BOOLEAN, server : 0 .. MaxIds]]
    /\ token \in [Ids -> Keys]
WalkType ==
    /\ walk \in [Walks -> {"idle", "row", "given", "named", "moving", "configured",
                           "playing", "ending", "cut", "closing", "done", "lost"}]
    /\ mine \in [Walks -> 0 .. MaxIds]
ProviderType ==
    /\ held \in [Ids -> Entries] /\ told \subseteq Ids
    /\ jobs \in [Jobs -> JobType]
    /\ \A j \in Jobs : jobs[j].at \in {"row", "token", "unsent"} => jobs[j].left > 0
    /\ reaping \in 0 .. MaxIds
SessionType ==
    /\ node \in 0 .. MaxSockets
    /\ view \in [Sockets -> Containers]
    /\ stage \in [Sockets -> {"none", "hello", "greeting", "open", "closed"}]
    /\ previous \in [Sockets -> 0 .. MaxSockets] /\ shut \subseteq Sockets
WireType ==
    /\ broken \subseteq Sockets /\ up \in [Sockets -> Seq(Containers)]
    /\ down \in Seq(Frames) /\ inbox \in Seq(Frames)
AgentType ==
    /\ dialled \in 0 .. MaxSockets /\ dial \in 0 .. dialled /\ welcomed \in BOOLEAN
    /\ born \in [Ids -> {"none", "warm", "match"}]
    /\ box \in Containers /\ bound \in [Ids -> Keys] /\ busy \in 0 .. MaxIds
    /\ mishaps \in 0 .. MaxMishaps

\* Every variable keeps its type, and a job has what its await is for.
TypeOK ==
    LedgerType /\ WalkType /\ ProviderType /\ SessionType /\ WireType /\ AgentType

Has(w, c) ==
    walk[w] \in {"given", "named", "moving", "configured", "playing", "ending", "cut"}
    /\ mine[w] = c

\* A container is never with two matches.
OneMatchEach ==
    \A c \in Ids : \A v, w \in Walks : Has(v, c) /\ Has(w, c) => v = w

\* The link of a container that plays a match stands under that match's row,
\* however often it is dialled anew, if the provider knew it for a warm one.
UnderItsRow(w) == bound[mine[w]] \in {"none", w}
TakenForCold(c) == born[c] = "warm" /\ held[c].known /\ ~held[c].warm
SessionIsTheMatchs == \A w \in Walks : 
    walk[w] = "playing" => UnderItsRow(w) \/ TakenForCold(mine[w])

\* A claimed container is warm, and its link carries the match it was claimed for.
ClaimIsAssigned == \A w \in Walks : walk[w] = "playing" => UnderItsRow(w)

\* No stop is on its way to a container a match plays on.
Stopping(c) == \E i \in 1 .. Len(down) : down[i] = Frame("stop", c)
OnlyTheEndStops ==
    \A w \in Walks : walk[w] = "playing" => ~Stopping(mine[w])

\* A container of another world is left running.
ForeignIsLeftAlone == \A c \in Foreign : ~Stopping(c)

Ours(c) == c \notin Foreign
\* A container that outlived every row of its own is stopped.
Stray(c) == Ours(c) /\ box[c] # "none" /\ HasRow(c) /\ OpenRows(c) = {}
StraysAreStopped == \A c \in Ids : Stray(c) ~> ~Stray(c)

\* While the link holds, the provider's picture of the node becomes the node's.  The
\* containers change only while no hello of theirs is on its way to be welcomed
\* (Settled), and no frame is unheard or late: FleetUnheard.cfg, kept beside the runs,
\* shows what such a change leaves the picture short of until the next frame.
Linked == dial # None /\ welcomed /\ node = dial /\ dial \notin broken
PictureCatchesUp == <>[](Linked => view[node] = box)
=============================================================================
