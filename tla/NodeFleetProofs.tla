--------------------------- MODULE NodeFleetProofs ---------------------------
(***************************************************************************)
(* What NodeFleet keeps, for any containers, walks, jobs and sockets: a    *)
(* container of another world is left alone whatever goes wrong, no        *)
(* container is with two matches, its session is its match's, and only the *)
(* end of its match stops it.                                              *)
(***************************************************************************)
EXTENDS NodeFleet, FiniteSetTheorems, TLAPS

-----------------------------------------------------------------------------
(* Where a container is known.                                             *)

\* A socket that is yet to be attached carries its hello.
HelloInv == \A s \in Sockets : stage[s] \in {"hello", "greeting"} => up[s] # <<>>
TypeInv == TypeOK /\ HelloInv

\* Nothing outside the provider has heard of the container.
Hidden(c) ==
    /\ box[c] = "none" /\ busy # c
    /\ \A i \in 1 .. Len(down) : down[i] # Frame("start", c)
    /\ \A i \in 1 .. Len(inbox) : inbox[i] # Frame("start", c)
    /\ \A s \in Sockets : view[s][c] = "none"
    /\ \A s \in Sockets : \A i \in 1 .. Len(up[s]) : up[s][i][c] = "none"

\* A task that has minted its container and not started it, and a container that was never
\* started: not minted, at such a task, or left by it without a token or a row.
Minting(job) == job.at \in {"row", "token", "unsent"}
MintedBy(c) == {j \in Jobs : Minting(jobs[j]) /\ jobs[j].c = c}
Unstarted(c) ==
    \/ born[c] = "none"
    \/ /\ born[c] = "warm" /\ c \notin Foreign
       /\ token[c] = "none" \/ warmRow[c] = "failed" \/ MintedBy(c) # {}

Given(c) == {w \in Walks : mine[w] = c}
Recorded(c) == HasRow(c) \/ Given(c) # {}

\* What the walks, the ledger, the provider and the wire say of a container is of one that was
\* minted here.
WalkInv ==
    \A w \in Walks :
        /\ walk[w] \in {"idle", "row"} => mine[w] = None
        /\ row[w].server \in {None, mine[w]}
        /\ walk[w] = "given" => row[w].server = None
        /\ walk[w] \notin {"idle", "row", "done", "lost"} => mine[w] # None
        /\ walk[w] = "moving" => born[mine[w]] = "warm"
LedgerInv ==
    \A c \in Ids :
        /\ warmRow[c] # "none" => born[c] = "warm"
        /\ Recorded(c) => c \notin Foreign /\ (born[c] = "match" \/ warmRow[c] # "none")
        /\ c \in Foreign => born[c] # "none"
        /\ held[c].known => Recorded(c)
        /\ held[c].moving => born[c] = "warm"
        /\ ~held[c].known => held[c] = Unheld
        /\ Stopping(c) => Recorded(c)
MintInv ==
    /\ reaping # None => warmRow[reaping] # "none"
    /\ \A j \in Jobs :
           /\ \A r \in ToRead(jobs[j]) : HasRow(r.c)
           /\ Minting(jobs[j]) =>
                  /\ jobs[j].c \in Ids \ Foreign /\ born[jobs[j].c] = "warm"
                  /\ MintedBy(jobs[j].c) = {j}
                  /\ IF jobs[j].at = "row" THEN warmRow[jobs[j].c] = "none"
                     ELSE warmRow[jobs[j].c] \in {"open", "expired"}
HiddenInv == \A c \in Ids : Unstarted(c) => Hidden(c) /\ Given(c) = {}

FleetInv == WalkInv /\ LedgerInv /\ MintInv /\ HiddenInv

-----------------------------------------------------------------------------
(* Whose it is.                                                            *)

\* A walk that has a container has its row, once it was named; what is held of it has an owner,
\* and no adopt is about to hold it for nobody.
Owned(w, c) ==
    /\ IF walk[w] = "given" THEN held[c].known \/ warmRow[c] # "open" ELSE RowNames(w, c)
    /\ held[c].known => held[c].owner # NoOne
    /\ \A j \in Jobs : [c |-> c, own |-> NoOne] \notin ToRead(jobs[j])
OwnerInv ==
    /\ OneMatchEach
    /\ \A w \in Walks : \A c \in Ids : Has(w, c) => Owned(w, c)
    /\ \A w \in Walks : walk[w] \in {"row", "given"} => row[w].open

-----------------------------------------------------------------------------
(* What it is told, when no row expires.                                   *)

Unread(c) == \A j \in Jobs : \A r \in ToRead(jobs[j]) : r.c # c

\* A container nobody has yet: a row of its own, no walk's, and a token that opens no other.
Spare(c) ==
    /\ \A w \in Walks : row[w].server # c
    /\ warmRow[c] \in {"open", "failed"} /\ token[c] \in {"none", "warm"}
PoolOf(c) ==
    /\ warmRow[c] # "expired"
    /\ held[c].known /\ held[c].owner = NoOne =>
           Spare(c) /\ ~held[c].moving /\ (held[c].token \/ Unstarted(c))
    /\ held[c].warm => born[c] = "warm"
    /\ warmRow[c] = "open" =>
           token[c] \in {"none", "warm"} \/ \E w \in Walks : row[w].server = c
    /\ \A w \in Walks : warmRow[c] = "open" /\ row[w].server = c =>
           row[w].open /\ walk[w] \in {"named", "moving", "lost"}
\* What a task has read or minted.
ReadBy(j) ==
    /\ \A r \in ToRead(jobs[j]) : r.own = NoOne => Spare(r.c)
    /\ jobs[j].at = "find" /\ jobs[j].warm => born[jobs[j].c] = "warm"
    /\ Minting(jobs[j]) => token[jobs[j].c] \in {"none", "warm"}
SpareInv ==
    /\ reaping = None
    /\ \A c \in Ids : PoolOf(c)
    /\ \A j \in Jobs : ReadBy(j)

\* What a walk that is about to start its container knows of it.
Starting(w) ==
    LET c == mine[w] IN
    /\ held[c].known /\ held[c].owner = w /\ Unread(c)
    /\ \A v \in Walks : row[v].server = c => v = w
    /\ IF born[c] = "match" THEN warmRow[c] = "none" /\ ~held[c].moving
       ELSE IF walk[w] \in {"given", "named"}
       THEN warmRow[c] = "open" /\ token[c] = "warm" /\ held[c].moving /\ held[c].token
       ELSE token[c] = w /\ (warmRow[c] = "open" <=> walk[w] = "moving")
\* And of one that was started.
Playing(w) ==
    LET c == mine[w] IN
    /\ token[c] = w /\ warmRow[c] # "open"
    /\ UnderItsRow(w) \/ (TakenForCold(c) /\ Unread(c))
Walked(w) ==
    /\ walk[w] \in {"given", "named", "moving", "configured"} => Starting(w)
    /\ walk[w] = "playing" => Playing(w)
    /\ walk[w] \in {"ending", "cut", "closing"} => warmRow[mine[w]] # "open"
StartInv == \A w \in Walks : Walked(w)

\* A cold container is of one walk, and its token and its session are of that walk.
ColdInv ==
    \A c \in Ids :
        /\ born[c] = "none" => token[c] = "none" /\ bound[c] = "none"
        /\ born[c] = "match" =>
               /\ \A v, w \in Given(c) : v = w
               /\ token[c] \in Given(c) \cup {"none"} /\ bound[c] \in Given(c) \cup {"none"}

\* A container that was told to stop is of no match that is still to end.
Spent(c) ==
    /\ born[c] # "none" /\ warmRow[c] # "open"
    /\ \A j \in MintedBy(c) : jobs[j].at # "row"
    /\ \A w \in Given(c) : walk[w] \in {"ending", "cut", "closing", "done", "lost"}
StopInv == \A c \in Ids : Stopping(c) => Spent(c)

TellInv == SpareInv /\ StartInv /\ ColdInv /\ StopInv

-----------------------------------------------------------------------------
(* The next await of a task.                                               *)

Rows == [c : Ids, own : Walks \cup {NoOne}]

LEMMA LeastIsOne ==
  ASSUME NEW S \in SUBSET Ids, S # {}
  PROVE  Least(S) \in S /\ \A d \in S : Least(S) <= d
  <1>1. S \in SUBSET Nat
    BY FleetAssumption DEF Ids
  <1>2. PICK n \in S : \A k \in S : n <= k
    <2>1. PICK n \in S : \A k \in S : ~ (<<k, n>> \in OpToRel(<, Nat))
      BY <1>1, WFMin, NatLessThanWellFounded, Zenon
    <2>2. ASSUME NEW k \in S PROVE n <= k
      <3>1. ~ (k < n)
        BY <1>1, <2>1, <2>2 DEF OpToRel
      <3> QED BY <1>1, <3>1
    <2> QED BY <2>2
  <1> QED BY <1>2 DEF Least

LEMMA IdleStands ==
  IdleJob \in JobType /\ IdleJob.at = "idle"
  BY FleetAssumption DEF IdleJob, JobType, None

LEMMA TopUpStands ==
  ASSUME node \in 0 .. MaxSockets
  PROVE  TopUp \in JobType /\ TopUp.at \in {"idle", "node"}
  BY IdleStands, FleetAssumption DEF TopUp, IdleJob, JobType, None

LEMMA SweepStands ==
  ASSUME node \in 0 .. MaxSockets, NEW s \in 0 .. MaxSockets, NEW ids \in SUBSET Ids,
         NEW h \in [Ids -> Entries],
         NEW t \in SUBSET Ids
  PROVE  /\ Sweep(s, ids, h, t) \in JobType
         /\ Sweep(s, ids, h, t).at \in {"idle", "node", "ledger"}
  <1> DEFINE unknown == {c \in ids : ~h[c].known /\ c \notin t}
  <1>1. CASE unknown = {}
    BY <1>1, TopUpStands DEF Sweep
  <1>2. CASE unknown # {}
    <2>1. Least(unknown) \in Ids /\ unknown \subseteq Ids
      BY <1>2, LeastIsOne
    <2>2. Sweep(s, ids, h, t) =
            [at |-> "ledger", sock |-> s, rows |-> {}, ids |-> {c \in ids : c > Least(unknown)},
             c |-> Least(unknown), own |-> NoOne, warm |-> FALSE, left |-> 0]
      BY <1>2 DEF Sweep, IdleJob
    <2>3. Least(unknown) \in 0 .. MaxIds /\ Least(unknown) # None
      BY <2>1, FleetAssumption DEF Ids, None
    <2>4. {c \in ids : c > Least(unknown)} \in SUBSET Ids /\ 0 \in 0 .. Warm
      BY FleetAssumption
    <2> DEFINE after == {c \in ids : c > Least(unknown)}
               first == Least(unknown)
    <2>5. first \in 0 .. MaxIds /\ first # None /\ after \in SUBSET Ids
      BY <2>3, <2>4
    <2>6. Sweep(s, ids, h, t) = [at |-> "ledger", sock |-> s, rows |-> {}, ids |-> after, c |-> first,
                                 own |-> NoOne, warm |-> FALSE, left |-> 0]
      BY <2>2
    <2> HIDE DEF after, first
    <2> QED BY <2>4, <2>5, <2>6 DEF JobType
  <1> QED BY <1>1, <1>2

\* What a list of open rows leaves an adopt to do: the rows of what is not held.
LEMMA AdoptStands ==
  ASSUME TypeOK, NEW s \in 0 .. MaxSockets, NEW rows \in SUBSET Rows,
         NEW h \in [Ids -> Entries]
  PROVE  /\ Adopt(s, rows, h) \in JobType
         /\ ~Minting(Adopt(s, rows, h)) /\ Adopt(s, rows, h).at # "list"
         /\ ToRead(Adopt(s, rows, h)) = {r \in rows : ~h[r.c].known}
         /\ Adopt(s, rows, h).at = "find" /\ Adopt(s, rows, h).warm =>
                born[Adopt(s, rows, h).c] = "warm"
  <1> DEFINE unknown == {r \in rows : ~h[r.c].known}
  <1>1. CASE unknown = {}
    <2>1. Adopt(s, rows, h) = Sweep(s, Reported(s), h, told)
      BY <1>1 DEF Adopt
    <2>2. s \in 0 .. MaxSockets /\ Reported(s) \in SUBSET Ids /\ told \in SUBSET Ids
          /\ node \in 0 .. MaxSockets
      BY FleetAssumption DEF TypeOK, ProviderType, SessionType, Reported, Sockets
    <2>3. Adopt(s, rows, h) \in JobType /\ Adopt(s, rows, h).at \in {"idle", "node", "ledger"}
      BY <2>1, <2>2, SweepStands
    <2> QED BY <2>3, <1>1 DEF Minting, ToRead
  <1>2. CASE unknown # {}
    <2> DEFINE S == {r.c : r \in unknown}
               first == CHOOSE r \in unknown : \A q \in unknown : r.c <= q.c
    <2>1. S \in SUBSET Ids /\ S # {}
      BY <1>2 DEF Rows
    <2>2. PICK x \in unknown : x.c = Least(S)
      BY <2>1, LeastIsOne
    <2>3. \A q \in unknown : x.c <= q.c
      <3>1. \A d \in S : Least(S) <= d
        BY <2>1, LeastIsOne
      <3> QED BY <2>2, <3>1
    <2>4. first \in unknown
      BY <2>3
    <2>5. PICK b \in BOOLEAN : b = (view[s][first.c] # "none" /\ born[first.c] = "warm")
      OBVIOUS
    <2> HIDE DEF first
    <2>6. Adopt(s, rows, h) =
            [at |-> "find", sock |-> s, rows |-> unknown \ {first}, ids |-> {}, c |-> first.c,
             own |-> first.own, warm |-> b, left |-> 0]
      BY <1>2, <2>5 DEF Adopt, IdleJob, first
    <2>7. first \in Rows /\ first.c \in Ids /\ first.own \in Walks \cup {NoOne}
      BY <2>4 DEF Rows
    <2>8. first = [c |-> first.c, own |-> first.own]
      BY <2>7 DEF Rows
    <2>9. Adopt(s, rows, h) \in JobType
      <3>1. first.c \in 0 .. MaxIds /\ first.c # None /\ s \in 0 .. MaxSockets /\ 0 \in 0 .. Warm
        BY <2>7, FleetAssumption DEF Ids, Sockets, None
      <3>2. unknown \ {first} \in SUBSET [c : Ids, own : Walks \cup {NoOne}]
        BY DEF Rows
      <3> HIDE DEF unknown
      <3> QED BY <2>6, <2>7, <3>1, <3>2 DEF JobType
    <2>10. ToRead(Adopt(s, rows, h)) = (unknown \ {first}) \cup {first}
      BY <2>6, <2>8 DEF ToRead
    <2>11. b => born[first.c] = "warm"
      BY <2>5
    <2> QED BY <2>4, <2>6, <2>9, <2>10, <2>11 DEF Minting
  <1> QED BY <1>1, <1>2

LEMMA NextWarmStands ==
  ASSUME TypeOK, NEW s \in 0 .. MaxSockets, NEW left \in 0 .. Warm, NEW h
  PROVE  LET next == NextWarm(s, left, h) IN
         /\ next \in JobType /\ next.at \in {"idle", "row"}
         /\ next.at = "row" => next.c \in Unborn /\ next.left > 0
  <1> DEFINE next == NextWarm(s, left, h)
  <1>1. CASE next = IdleJob
    BY <1>1, IdleStands
  <1>2. CASE next # IdleJob
    <2>1. left # 0 /\ Unborn # {}
      BY <1>2 DEF NextWarm
    <2>2. next = [at |-> "row", sock |-> s, rows |-> {}, ids |-> {}, c |-> Least(Unborn),
                  own |-> NoOne, warm |-> FALSE, left |-> left]
      BY <1>2 DEF NextWarm, IdleJob
    <2>3. Least(Unborn) \in Unborn /\ Least(Unborn) \in 0 .. MaxIds /\ Least(Unborn) # None
      BY <2>1, LeastIsOne, FleetAssumption DEF Unborn, Ids, None
    <2>4. left \in 0 .. Warm /\ left > 0
      BY <2>1
    <2> QED BY <2>2, <2>3, <2>4 DEF JobType
  <1> QED BY <1>1, <1>2

-----------------------------------------------------------------------------
(* Types.                                                                  *)

LEMMA TypesInit == Init => TypeInv
  <1> SUFFICES ASSUME Init PROVE TypeInv
    OBVIOUS
  <1>1. LedgerType /\ WalkType
    BY FleetAssumption DEF Init, LedgerType, WalkType, Keys, None
  <1>2. ProviderType
    BY FleetAssumption, IdleStands DEF Init, ProviderType, Entries, Unheld, None
  <1>3. SessionType /\ WireType
    BY FleetAssumption DEF Init, SessionType, WireType, None, Nothing, Containers
  <1>4. AgentType
    <2>1. box \in Containers /\ bound \in [Ids -> Keys] /\ born \in [Ids -> {"none", "warm", "match"}]
      BY DEF Init, Containers, Keys
    <2>2. dialled = 0 /\ dial = 0 /\ busy = 0 /\ welcomed \in BOOLEAN
      BY DEF Init, None
    <2> QED BY <2>1, <2>2, FleetAssumption DEF AgentType, Init
  <1>5. HelloInv
    BY DEF Init, HelloInv
  <1> QED BY <1>1, <1>2, <1>3, <1>4, <1>5 DEF TypeInv, TypeOK

\* What is the same of a snapshot queue once a change was published on it.
LEMMA PublishStands ==
  ASSUME TypeInv, NEW after \in Containers, Publish(after)
  PROVE  /\ up' \in [Sockets -> Seq(Containers)]
         /\ \A s \in Sockets : up[s] # <<>> => up'[s] # <<>>
         /\ \A s \in Sockets : \A i \in 1 .. Len(up'[s]) :
                up'[s][i] = after \/ \E k \in 1 .. Len(up[s]) : up'[s][i] = up[s][k]
  <1>1. up \in [Sockets -> Seq(Containers)] /\ dial \in 0 .. MaxSockets /\ MaxSnapshots \in Nat \ {0}
    BY FleetAssumption DEF TypeInv, TypeOK, WireType, AgentType
  <1>2. CASE up' = up
    BY <1>1, <1>2
  <1>3. CASE up' # up
    <2>1. dial \in Sockets
      BY <1>1, <1>3, FleetAssumption DEF Publish, Sockets, None
    <2> DEFINE q == up[dial]
               more == IF Len(q) < MaxSnapshots THEN Append(q, after) ELSE [q EXCEPT ![Len(q)] = after]
    <2>2. up' = [up EXCEPT ![dial] = more]
      BY <1>3 DEF Publish
    <2>3. q \in Seq(Containers) /\ Len(q) \in Nat
      BY <2>1, <1>1
    <2>4. /\ more \in Seq(Containers) /\ more # <<>>
          /\ \A i \in 1 .. Len(more) : more[i] = after \/ \E k \in 1 .. Len(q) : more[i] = q[k]
      <3>1. CASE Len(q) < MaxSnapshots
        BY <3>1, <2>3
      <3>2. CASE ~(Len(q) < MaxSnapshots)
        BY <3>2, <2>3, <1>1
      <3> QED BY <3>1, <3>2
    <2> HIDE DEF more
    <2> QED BY <2>1, <2>2, <2>4, <1>1
  <1> QED BY <1>2, <1>3

LEMMA ChangeStands ==
  ASSUME TypeInv, NEW after \in Containers, Change(after)
  PROVE  /\ up' \in [Sockets -> Seq(Containers)]
         /\ \A s \in Sockets : up[s] # <<>> => up'[s] # <<>>
         /\ \A s \in Sockets : \A i \in 1 .. Len(up'[s]) :
                up'[s][i] = after \/ \E k \in 1 .. Len(up[s]) : up'[s][i] = up[s][k]
         /\ box' = after /\ bound' \in [Ids -> Keys]
         /\ \A c \in Ids : bound'[c] \in {bound[c], "none"}
  BY PublishStands DEF TypeOK, Change, TypeInv, AgentType, Keys

LEMMA FramesTaken ==
  ASSUME TypeInv, TakeFrame
  PROVE  /\ NextFrame \in Frames /\ inbox' \in Seq(Frames) /\ down' \in Seq(Frames)
         /\ \/ \E i \in 1 .. Len(inbox) : NextFrame = inbox[i]
            \/ \E i \in 1 .. Len(down) : NextFrame = down[i]
         /\ \A i \in 1 .. Len(inbox') : \E k \in 1 .. Len(inbox) : inbox'[i] = inbox[k]
         /\ \A i \in 1 .. Len(down') : \E k \in 1 .. Len(down) : down'[i] = down[k]
  <1>1. inbox \in Seq(Frames) /\ down \in Seq(Frames)
    BY DEF TypeInv, TypeOK, WireType
  <1>2. CASE inbox # <<>>
    <2>1. inbox' = Tail(inbox) /\ down' = down /\ NextFrame = inbox[1] /\ Len(inbox) \in Nat \ {0}
      BY <1>1, <1>2 DEF TakeFrame, NextFrame
    <2>2. \A i \in 1 .. Len(Tail(inbox)) : Tail(inbox)[i] = inbox[i + 1] /\ i + 1 \in 1 .. Len(inbox)
      BY <1>1, <2>1
    <2>3. 1 \in 1 .. Len(inbox) /\ inbox[1] \in Frames /\ Tail(inbox) \in Seq(Frames)
      BY <1>1, <2>1
    <2> QED BY <1>1, <2>1, <2>2, <2>3
  <1>3. CASE inbox = <<>>
    <2>1. down' = Tail(down) /\ inbox' = inbox /\ NextFrame = down[1] /\ Len(down) \in Nat \ {0}
      BY <1>1, <1>3 DEF TakeFrame, NextFrame, HasFrame
    <2>2. \A i \in 1 .. Len(Tail(down)) : Tail(down)[i] = down[i + 1] /\ i + 1 \in 1 .. Len(down)
      BY <1>1, <2>1
    <2>3. 1 \in 1 .. Len(down) /\ down[1] \in Frames /\ Tail(down) \in Seq(Frames)
      BY <1>1, <2>1
    <2> QED BY <1>1, <2>1, <2>2, <2>3
  <1> QED BY <1>2, <1>3

LEMMA SentStands ==
  ASSUME TypeInv, NEW s, NEW kind \in {"start", "stop"}, NEW c \in Ids,
         down' = Sent(s, <<Frame(kind, c)>>)
  PROVE  /\ down' \in Seq(Frames)
         /\ \A i \in 1 .. Len(down') :
                down'[i] = Frame(kind, c) \/ \E k \in 1 .. Len(down) : down'[i] = down[k]
  <1>1. down \in Seq(Frames) /\ Frame(kind, c) \in Frames
    BY DEF TypeInv, TypeOK, WireType, Frame, Frames
  <1>2. CASE down' = down
    BY <1>1, <1>2
  <1>3. CASE down' = down \o <<Frame(kind, c)>>
    BY <1>1, <1>3
  <1> QED BY <1>2, <1>3 DEF Sent

-----------------------------------------------------------------------------
(* The agent, the sockets and the network.                                 *)

QuietJobs ==
    \A j \in Jobs : \/ jobs'[j] = jobs[j]
                    \/ ~Minting(jobs[j]) /\ jobs'[j].at \in {"idle", "list", "node", "ledger"}

\* A step that moves what was said between the two processes, and says nothing new.
WireMove ==
    /\ UNCHANGED <<warmRow, row, token, walk, mine, held, reaping, born>>
    /\ QuietJobs
    /\ \A i \in 1 .. Len(down') : \E k \in 1 .. Len(down) : down'[i] = down[k]
    /\ \A c \in Ids : Hidden(c) => Hidden(c)'
    /\ \A c \in Ids : bound'[c] \in {bound[c], "none"}

\* What such a step does not touch keeps its type.
LEMMA OrchestratorKept ==
  ASSUME TypeInv, UNCHANGED <<ledger, walks, provider>>
  PROVE  LedgerType' /\ WalkType' /\ ProviderType' /\ QuietJobs
  BY DEF TypeInv, TypeOK, LedgerType, WalkType, ProviderType, QuietJobs, ledger, walks, provider

LEMMA SessionKept ==
  ASSUME TypeInv, UNCHANGED session
  PROVE  SessionType'
  BY DEF TypeInv, TypeOK, SessionType, session

LEMMA MishapTyped ==
  ASSUME TypeInv, NEW kind, Happens(kind)
  PROVE  mishaps' \in 0 .. MaxMishaps
  BY FleetAssumption DEF TypeInv, TypeOK, AgentType, Happens

\* A change of other containers leaves one hidden.
LEMMA ChangeHides ==
  ASSUME TypeInv, NEW after \in Containers, Change(after), view' = view,
         NEW c \in Ids, Hidden(c), after[c] = "none", busy' # c,
         \A i \in 1 .. Len(inbox') : \E k \in 1 .. Len(inbox) : inbox'[i] = inbox[k],
         \A i \in 1 .. Len(down') : \E k \in 1 .. Len(down) : down'[i] = down[k]
  PROVE  Hidden(c)'
  <1>1. \A s \in Sockets : \A i \in 1 .. Len(up'[s]) : up'[s][i][c] = "none"
    BY ChangeStands DEF Hidden
  <1>2. box'[c] = "none"
    BY ChangeStands
  <1>3. /\ \A i \in 1 .. Len(down') : down'[i] # Frame("start", c)
        /\ \A i \in 1 .. Len(inbox') : inbox'[i] # Frame("start", c)
    BY DEF Hidden
  <1> QED BY <1>1, <1>2, <1>3 DEF Hidden

\* The agent's own steps: its containers, and the snapshots of them.
AgentMove ==
    /\ UNCHANGED <<ledger, walks, provider, session, broken, dialled, dial, welcomed, born>>
    /\ \E after \in Containers :
           /\ \/ Change(after)
              \/ /\ box' = after /\ up' = up
                 /\ \A c \in Ids : bound'[c] \in {bound[c], "none"}
           /\ \A c \in Ids : Hidden(c) => after[c] = "none" /\ busy' # c
    /\ bound' \in [Ids -> Keys]
    /\ inbox' \in Seq(Frames) /\ down' \in Seq(Frames)
    /\ \A i \in 1 .. Len(inbox') : \E k \in 1 .. Len(inbox) : inbox'[i] = inbox[k]
    /\ \A i \in 1 .. Len(down') : \E k \in 1 .. Len(down) : down'[i] = down[k]
    /\ busy' \in 0 .. MaxIds /\ mishaps' \in 0 .. MaxMishaps

LEMMA AgentMoves ==
  ASSUME TypeInv, AgentMove
  PROVE  TypeInv' /\ WireMove
  <1>1. UNCHANGED <<ledger, walks, provider, session, broken, dialled, dial, welcomed, born>>
    BY DEF AgentMove
  <1>2. LedgerType' /\ WalkType' /\ ProviderType' /\ SessionType' /\ QuietJobs
    BY <1>1, OrchestratorKept, SessionKept
  <1>3. PICK after \in Containers :
           /\ \/ Change(after)
              \/ /\ box' = after /\ up' = up
                 /\ \A c \in Ids : bound'[c] \in {bound[c], "none"}
           /\ \A c \in Ids : Hidden(c) => after[c] = "none" /\ busy' # c
    BY DEF AgentMove
  <1>4. /\ box' = after /\ up' \in [Sockets -> Seq(Containers)]
        /\ \A s \in Sockets : up[s] # <<>> => up'[s] # <<>>
        /\ \A c \in Ids : bound'[c] \in {bound[c], "none"}
    BY <1>3, ChangeStands DEF TypeInv, TypeOK, WireType
  <1>5. WireType' /\ AgentType'
    BY <1>1, <1>3, <1>4 DEF AgentMove, TypeInv, TypeOK, WireType, AgentType
  <1>6. HelloInv'
    BY <1>1, <1>4 DEF TypeInv, HelloInv, session
  <1>7. ASSUME NEW c \in Ids, Hidden(c) PROVE Hidden(c)'
    <2>1. view' = view
      BY <1>1 DEF session
    <2>2. CASE Change(after)
      BY <2>1, <2>2, <1>3, <1>7, ChangeHides DEF AgentMove
    <2>3. CASE up' = up /\ box' = after
      <3>1. /\ \A i \in 1 .. Len(down') : down'[i] # Frame("start", c)
            /\ \A i \in 1 .. Len(inbox') : inbox'[i] # Frame("start", c)
        BY <1>7 DEF Hidden, AgentMove
      <3> QED BY <2>1, <2>3, <3>1, <1>3, <1>7 DEF Hidden
    <2> QED BY <2>2, <2>3, <1>3
  <1>8. UNCHANGED <<warmRow, row, token, walk, mine, held, reaping, born>>
    BY <1>1 DEF ledger, walks, provider
  <1>9. \A i \in 1 .. Len(down') : \E k \in 1 .. Len(down) : down'[i] = down[k]
    BY DEF AgentMove
  <1> QED BY <1>2, <1>4, <1>5, <1>6, <1>7, <1>8, <1>9 DEF TypeInv, TypeOK, WireMove

\* A container at work is not hidden; one with a start on its way is not either.
LEMMA FramedIsNotHidden ==
  ASSUME TypeInv, TakeFrame, NextFrame.kind = "start", NEW c \in Ids, Hidden(c)
  PROVE  NextFrame.c # c
  <1>1. NextFrame \in Frames
    BY FramesTaken
  <1>2. SUFFICES ASSUME NextFrame.c = c PROVE FALSE
    OBVIOUS
  <1>3. NextFrame = Frame("start", c)
    BY <1>1, <1>2 DEF Frames, Frame
  <1> QED BY <1>3, FramesTaken DEF Hidden

LEMMA StartMoves ==
  ASSUME TypeInv, OnStart
  PROVE  AgentMove
  <1>1. TakeFrame /\ NextFrame.kind = "start" /\ mishaps' = mishaps /\ AgentUnchanged
    BY DEF OnStart
  <1>2. NextFrame \in Frames /\ NextFrame.c \in Ids
    BY <1>1, FramesTaken DEF Frames
  <1>3. /\ box \in Containers /\ bound \in [Ids -> Keys] /\ busy \in 0 .. MaxIds /\ busy = None
        /\ mishaps \in 0 .. MaxMishaps
    BY <1>1 DEF TypeInv, TypeOK, AgentType, TakeFrame
  <1> DEFINE c == NextFrame.c
  <1>4. NextFrame.c \in 0 .. MaxIds
    BY <1>2, FleetAssumption DEF Ids
  <1>5. PICK after \in Containers :
           /\ \/ Change(after)
              \/ /\ box' = after /\ up' = up
                 /\ \A d \in Ids : bound'[d] \in {bound[d], "none"}
           /\ \A d \in Ids \ {NextFrame.c} : after[d] = box[d]
           /\ busy' \in {None, NextFrame.c} /\ bound' \in [Ids -> Keys]
    <2>1. CASE UNCHANGED <<box, bound, busy, up>>
      BY <2>1, <1>3
    <2>2. CASE Change([box EXCEPT ![c] = "failed"]) /\ UNCHANGED busy
      <3>1. [box EXCEPT ![c] = "failed"] \in Containers
        BY <1>2, <1>3 DEF Containers
      <3>2. \A d \in Ids \ {NextFrame.c} : [box EXCEPT ![c] = "failed"][d] = box[d]
        BY <1>2, <1>3 DEF Containers
      <3>3. bound' \in [Ids -> Keys]
        BY <2>2, <3>1, ChangeStands
      <3> QED BY <2>2, <3>1, <3>2, <3>3, <1>3
    <2>3. CASE box' = [box EXCEPT ![c] = "none"] /\ busy' = c /\ UNCHANGED <<bound, up>>
      <3>1. [box EXCEPT ![c] = "none"] \in Containers
        BY <1>2, <1>3 DEF Containers
      <3>2. \A d \in Ids \ {NextFrame.c} : [box EXCEPT ![c] = "none"][d] = box[d]
        BY <1>2, <1>3 DEF Containers
      <3> QED BY <2>3, <3>1, <3>2, <1>3
    <2> QED BY <2>1, <2>2, <2>3 DEF OnStart
  <1>6. ASSUME NEW d \in Ids, Hidden(d) PROVE after[d] = "none" /\ busy' # d
    <2>1. NextFrame.c # d
      BY <1>1, <1>6, FramedIsNotHidden
    <2>2. d # None
      BY FleetAssumption DEF Ids, None
    <2> QED BY <2>1, <2>2, <1>5, <1>6 DEF Hidden
  <1>7. busy' \in 0 .. MaxIds
    BY <1>4, <1>5, FleetAssumption DEF None
  <1> QED BY <1>1, <1>3, <1>5, <1>6, <1>7, FramesTaken DEF AgentMove, AgentUnchanged

LEMMA ContainerWorks ==
  ASSUME TypeInv, busy # None, NEW state \in {"none", "starting", "running", "stopping", "failed"},
         Change([box EXCEPT ![busy] = state]), box[busy] # "none" \/ busy' = busy,
         busy' \in {busy, None}, mishaps' \in 0 .. MaxMishaps,
         UNCHANGED <<inbox, down>>, AgentUnchanged
  PROVE  AgentMove
  <1>1. box \in Containers /\ bound \in [Ids -> Keys] /\ busy \in 0 .. MaxIds
        /\ inbox \in Seq(Frames) /\ down \in Seq(Frames)
    BY DEF TypeInv, TypeOK, AgentType, WireType
  <1>2. busy \in Ids
    BY <1>1, FleetAssumption DEF Ids, None
  <1>3. PICK after \in Containers : after = [box EXCEPT ![busy] = state]
    BY <1>1, <1>2 DEF Containers
  <1>4. \A c \in Ids : Hidden(c) => after[c] = "none" /\ busy' # c
    <2>1. \A c \in Ids : c # None
      BY FleetAssumption DEF Ids, None
    <2> QED BY <1>1, <1>2, <1>3, <2>1 DEF Hidden, Containers
  <1>5. bound' \in [Ids -> Keys]
    BY <1>3, ChangeStands
  <1>6. busy' \in 0 .. MaxIds
    BY <1>1, FleetAssumption DEF None
  <1> QED BY <1>1, <1>3, <1>4, <1>5, <1>6 DEF AgentMove, AgentUnchanged

LEMMA CreatedMoves ==
  ASSUME TypeInv, Created
  PROVE  AgentMove
  <1>1. mishaps' \in 0 .. MaxMishaps
    <2>1. mishaps \in 0 .. MaxMishaps
      BY DEF TypeInv, TypeOK, AgentType
    <2> QED BY <2>1, MishapTyped DEF Created
  <1>2. /\ busy # None /\ box[busy] = "none" /\ UNCHANGED <<inbox, down>> /\ AgentUnchanged
        /\ \/ Change([box EXCEPT ![busy] = "starting"]) /\ busy' = busy
           \/ Change([box EXCEPT ![busy] = "failed"]) /\ busy' = None
    BY DEF Created
  <1>3. box \in Containers /\ bound \in [Ids -> Keys] /\ busy \in 0 .. MaxIds
        /\ inbox \in Seq(Frames) /\ down \in Seq(Frames)
    BY DEF TypeInv, TypeOK, AgentType, WireType
  <1>4. busy \in Ids
    BY <1>2, <1>3, FleetAssumption DEF Ids, None
  <1>5. PICK state \in {"starting", "failed"} : Change([box EXCEPT ![busy] = state])
    BY <1>2
  <1>6. PICK after \in Containers : after = [box EXCEPT ![busy] = state]
    BY <1>3, <1>4 DEF Containers
  <1>7. \A c \in Ids : Hidden(c) => after[c] = "none" /\ busy' # c
    <2>1. \A c \in Ids : c # None
      BY FleetAssumption DEF Ids, None
    <2> QED BY <1>2, <1>3, <1>4, <1>6, <2>1 DEF Hidden, Containers
  <1>8. bound' \in [Ids -> Keys] /\ busy' \in 0 .. MaxIds
    BY <1>2, <1>3, <1>5, <1>6, ChangeStands, FleetAssumption DEF None
  <1> QED BY <1>1, <1>2, <1>3, <1>5, <1>6, <1>7, <1>8 DEF AgentMove, AgentUnchanged

LEMMA StartedMoves ==
  ASSUME TypeInv, Started
  PROVE  AgentMove
  <1>1. mishaps' \in 0 .. MaxMishaps
    <2>1. mishaps \in 0 .. MaxMishaps
      BY DEF TypeInv, TypeOK, AgentType
    <2> QED BY <2>1, MishapTyped DEF Started
  <1> QED BY <1>1, ContainerWorks DEF Started

LEMMA StoppedMoves ==
  ASSUME TypeInv, Stopped \/ StopRefused
  PROVE  AgentMove
  <1>1. mishaps' \in 0 .. MaxMishaps
    <2>1. mishaps \in 0 .. MaxMishaps
      BY DEF TypeInv, TypeOK, AgentType
    <2> QED BY <2>1, MishapTyped DEF Stopped, StopRefused
  <1> QED BY <1>1, ContainerWorks DEF Stopped, StopRefused

LEMMA ReconcileMoves ==
  ASSUME TypeInv, Reconcile
  PROVE  AgentMove
  <1>1. mishaps' \in 0 .. MaxMishaps /\ UNCHANGED <<inbox, down, busy>> /\ AgentUnchanged
    BY MishapTyped DEF Reconcile
  <1>2. box \in Containers /\ busy \in 0 .. MaxIds /\ inbox \in Seq(Frames) /\ down \in Seq(Frames)
    BY DEF TypeInv, TypeOK, AgentType, WireType
  <1>3. PICK d \in Ids : box[d] \in {"starting", "running"} /\ Change([box EXCEPT ![d] = "failed"])
    BY DEF Reconcile
  <1>4. PICK after \in Containers : after = [box EXCEPT ![d] = "failed"]
    BY <1>2 DEF Containers
  <1>5. \A c \in Ids : Hidden(c) => after[c] = "none" /\ busy' # c
    BY <1>1, <1>2, <1>3, <1>4 DEF Hidden, Containers
  <1>6. bound' \in [Ids -> Keys]
    BY <1>3, <1>4, ChangeStands
  <1> QED BY <1>1, <1>2, <1>3, <1>4, <1>5, <1>6 DEF AgentMove, AgentUnchanged

LEMMA StopMoves ==
  ASSUME TypeInv, OnStop
  PROVE  AgentMove
  <1>1. TakeFrame /\ mishaps' = mishaps /\ AgentUnchanged
    BY DEF OnStop
  <1>2. NextFrame \in Frames /\ NextFrame.c \in Ids
    BY <1>1, FramesTaken DEF Frames
  <1>3. /\ box \in Containers /\ bound \in [Ids -> Keys] /\ busy = None
        /\ mishaps \in 0 .. MaxMishaps
    BY <1>1 DEF TypeInv, TypeOK, AgentType, TakeFrame
  <1>4. NextFrame.c \in 0 .. MaxIds /\ \A d \in Ids : d # None
    BY <1>2, FleetAssumption DEF Ids, None
  <1>5. PICK after \in Containers :
           /\ \/ Change(after)
              \/ /\ box' = after /\ up' = up
                 /\ \A d \in Ids : bound'[d] \in {bound[d], "none"}
           /\ \A d \in Ids : box[d] = "none" => after[d] = "none" /\ busy' # d
           /\ busy' \in {None, NextFrame.c} /\ bound' \in [Ids -> Keys]
    <2>1. CASE UNCHANGED <<box, bound, busy, up>>
      BY <2>1, <1>3, <1>4
    <2>2. CASE /\ box[NextFrame.c] # "none" /\ Change([box EXCEPT ![NextFrame.c] = "stopping"])
               /\ busy' = NextFrame.c
      <3>1. [box EXCEPT ![NextFrame.c] = "stopping"] \in Containers
        BY <1>2, <1>3 DEF Containers
      <3>2. \A d \in Ids : box[d] = "none" =>
               [box EXCEPT ![NextFrame.c] = "stopping"][d] = "none" /\ busy' # d
        BY <2>2, <1>2, <1>3 DEF Containers
      <3>3. bound' \in [Ids -> Keys]
        BY <2>2, <3>1, ChangeStands
      <3> QED BY <2>2, <3>1, <3>2, <3>3
    <2> QED BY <2>1, <2>2 DEF OnStop
  <1>6. \A d \in Ids : Hidden(d) => after[d] = "none" /\ busy' # d
    BY <1>5 DEF Hidden
  <1>7. busy' \in 0 .. MaxIds
    BY <1>4, <1>5, FleetAssumption DEF None
  <1> QED BY <1>1, <1>3, <1>5, <1>6, <1>7, FramesTaken DEF AgentMove, AgentUnchanged

-----------------------------------------------------------------------------
\* A step of a link that leaves the containers as they are: nothing new is said, and what is
\* heard was said.
LEMMA LinkMoves ==
  ASSUME TypeInv, UNCHANGED <<warmRow, row, token, walk, mine, held, reaping, born, box>>, QuietJobs,
         busy' \in {busy, None}, \A c \in Ids : bound'[c] \in {bound[c], "none"},
         \A i \in 1 .. Len(down') : \E k \in 1 .. Len(down) : down'[i] = down[k],
         \A i \in 1 .. Len(inbox') : \/ \E k \in 1 .. Len(inbox) : inbox'[i] = inbox[k]
                                     \/ \E k \in 1 .. Len(down) : inbox'[i] = down[k],
         \A c \in Ids : box[c] = "none" /\ (\A s \in Sockets : view[s][c] = "none")
                        /\ (\A s \in Sockets : \A i \in 1 .. Len(up[s]) : up[s][i][c] = "none") =>
                           /\ \A s \in Sockets : view'[s][c] = "none"
                           /\ \A s \in Sockets : \A i \in 1 .. Len(up'[s]) : up'[s][i][c] = "none"
  PROVE  WireMove
  <1>1. ASSUME NEW c \in Ids, Hidden(c) PROVE Hidden(c)'
    <2>1. /\ \A s \in Sockets : view'[s][c] = "none"
          /\ \A s \in Sockets : \A i \in 1 .. Len(up'[s]) : up'[s][i][c] = "none"
      BY <1>1 DEF Hidden
    <2>2. /\ \A i \in 1 .. Len(down') : down'[i] # Frame("start", c)
          /\ \A i \in 1 .. Len(inbox') : inbox'[i] # Frame("start", c)
      BY <1>1 DEF Hidden
    <2>3. box'[c] = "none" /\ busy' # c
      BY <1>1, FleetAssumption DEF Hidden, Ids, None
    <2> QED BY <2>1, <2>2, <2>3 DEF Hidden
  <1> QED BY <1>1 DEF WireMove

LEMMA DialMoves ==
  ASSUME TypeInv, Dial
  PROVE  TypeInv' /\ WireMove
  <1>1. /\ UNCHANGED <<ledger, walks, provider, node, view, previous, shut, broken, inbox, born, box,
                       bound, busy, mishaps>>
        /\ dialled' = dialled + 1 /\ dial' = dialled + 1 /\ welcomed' = FALSE /\ down' = <<>>
        /\ stage' = [stage EXCEPT ![dialled + 1] = "hello"]
        /\ up' = [up EXCEPT ![dialled + 1] = <<box>>]
    BY DEF Dial
  <1>2. dialled + 1 \in Sockets /\ dialled + 1 \in 0 .. MaxSockets /\ dialled + 1 \in 0 .. dialled + 1
    BY FleetAssumption DEF Dial, TypeInv, TypeOK, AgentType, Sockets
  <1>3. up \in [Sockets -> Seq(Containers)] /\ box \in Containers
    BY DEF TypeInv, TypeOK, WireType, AgentType
  <1>4. LedgerType' /\ WalkType' /\ ProviderType' /\ QuietJobs
    BY <1>1, OrchestratorKept
  <1>5. SessionType' /\ WireType' /\ AgentType'
    <2>1. SessionType'
      BY <1>1, <1>2 DEF TypeInv, TypeOK, SessionType
    <2>2. WireType'
      BY <1>1, <1>2, <1>3 DEF TypeInv, TypeOK, WireType
    <2>3. AgentType'
      BY <1>1, <1>2, <1>3 DEF TypeInv, TypeOK, AgentType
    <2> QED BY <2>1, <2>2, <2>3
  <1>6. HelloInv'
    BY <1>1, <1>2, <1>3 DEF TypeInv, TypeOK, SessionType, HelloInv
  <1>7. ASSUME NEW c \in Ids, box[c] = "none",
               \A s \in Sockets : \A i \in 1 .. Len(up[s]) : up[s][i][c] = "none",
               NEW s \in Sockets, NEW i \in 1 .. Len(up'[s]) PROVE up'[s][i][c] = "none"
    BY <1>1, <1>2, <1>3, <1>7
  <1>8. \A i \in 1 .. Len(down') : \E k \in 1 .. Len(down) : down'[i] = down[k]
    BY <1>1
  <1>9. WireMove
    BY <1>1, <1>4, <1>7, <1>8, LinkMoves DEF ledger, walks, provider
  <1> QED BY <1>4, <1>5, <1>6, <1>9 DEF TypeInv, TypeOK

LEMMA WelcomeMoves ==
  ASSUME TypeInv, Welcome \/ Break
  PROVE  TypeInv' /\ WireMove
  <1>1. /\ UNCHANGED <<ledger, walks, provider, session, up, down, inbox, dialled, dial, born, box,
                       bound, busy>>
        /\ broken' \in {broken, broken \cup {dial}} /\ welcomed' \in {welcomed, TRUE}
        /\ broken' # broken => dial # None
    BY DEF Welcome, Break, wire, agent
  <1>2. mishaps' \in 0 .. MaxMishaps
    BY MishapTyped DEF Welcome, Break, TypeInv, TypeOK, AgentType
  <1>3. LedgerType' /\ WalkType' /\ ProviderType' /\ SessionType' /\ QuietJobs
    BY <1>1, OrchestratorKept, SessionKept
  <1>4. broken' \subseteq Sockets
    BY <1>1, FleetAssumption DEF TypeInv, TypeOK, WireType, AgentType, Sockets, None
  <1>5. WireType' /\ AgentType'
    BY <1>1, <1>2, <1>4 DEF TypeInv, TypeOK, WireType, AgentType
  <1>6. HelloInv'
    BY <1>1 DEF TypeInv, HelloInv, session
  <1>7. WireMove
    BY <1>1, <1>3, LinkMoves DEF ledger, walks, provider, session
  <1> QED BY <1>3, <1>5, <1>6, <1>7 DEF TypeInv, TypeOK

\* What is behind a buffer joins what it holds.
LEMMA BufferGrows ==
  ASSUME NEW S, NEW a \in Seq(S), NEW b \in Seq(S)
  PROVE  /\ a \o b \in Seq(S) /\ Len(a \o b) = Len(a) + Len(b)
         /\ \A i \in 1 .. Len(a) : (a \o b)[i] = a[i]
         /\ \A i \in 1 .. Len(a) + Len(b) : i > Len(a) => (a \o b)[i] = b[i - Len(a)]
  OBVIOUS

LEMMA HangupMoves ==
  ASSUME TypeInv, Hangup
  PROVE  TypeInv' /\ WireMove
  <1>1. /\ UNCHANGED <<ledger, walks, provider, session, broken, up, dialled, born, box, bound, busy,
                       mishaps>>
        /\ dial' = None /\ welcomed' = FALSE /\ down' = <<>>
    BY DEF Hangup
  <1>2. inbox \in Seq(Frames) /\ down \in Seq(Frames)
    BY DEF TypeInv, TypeOK, WireType
  <1>3. PICK n \in 0 .. Len(down) : inbox' = inbox \o SubSeq(down, 1, n)
    <2>1. PICK n \in 0 .. (IF welcomed THEN Len(down) ELSE 0) : inbox' = inbox \o SubSeq(down, 1, n)
      BY DEF Hangup
    <2>2. n \in 0 .. Len(down)
      BY <1>2, <2>1
    <2> QED BY <2>1, <2>2
  <1>4. SubSeq(down, 1, n) \in Seq(Frames) /\ Len(SubSeq(down, 1, n)) = n
        /\ \A i \in 1 .. n : SubSeq(down, 1, n)[i] = down[i]
    BY <1>2, <1>3
  <1>5. /\ inbox' \in Seq(Frames)
        /\ \A i \in 1 .. Len(inbox') : \/ \E k \in 1 .. Len(inbox) : inbox'[i] = inbox[k]
                                       \/ \E k \in 1 .. Len(down) : inbox'[i] = down[k]
    <2> DEFINE tail == SubSeq(down, 1, n)
    <2>1. tail \in Seq(Frames) /\ Len(tail) = n
      BY <1>4
    <2>2. \A i \in 1 .. Len(tail) : i \in 1 .. Len(down) /\ tail[i] = down[i]
      BY <1>2, <1>3, <1>4
    <2>3. inbox' = inbox \o tail
      BY <1>3
    <2> HIDE DEF tail
    <2>4. /\ inbox' \in Seq(Frames) /\ Len(inbox') = Len(inbox) + Len(tail)
          /\ \A i \in 1 .. Len(inbox) : inbox'[i] = inbox[i]
          /\ \A i \in 1 .. Len(inbox) + Len(tail) :
                 i > Len(inbox) => inbox'[i] = tail[i - Len(inbox)]
      BY <1>2, <2>1, <2>3, BufferGrows
    <2> SUFFICES ASSUME NEW i \in 1 .. Len(inbox')
                 PROVE  \/ \E k \in 1 .. Len(inbox) : inbox'[i] = inbox[k]
                        \/ \E k \in 1 .. Len(down) : inbox'[i] = down[k]
      BY <2>4
    <2>5. CASE i \in 1 .. Len(inbox)
      <3>1. inbox'[i] = inbox[i]
        BY <2>4, <2>5
      <3> QED BY <2>5, <3>1
    <2>6. CASE i \notin 1 .. Len(inbox)
      <3>1. Len(inbox) \in Nat /\ Len(tail) \in Nat
        BY <1>2, <2>1
      <3>2. i \in 1 .. Len(inbox) + Len(tail) /\ i > Len(inbox) /\ i - Len(inbox) \in 1 .. Len(tail)
        BY <2>4, <2>6, <3>1
      <3>3. inbox'[i] = tail[i - Len(inbox)]
        BY <2>4, <3>2
      <3> QED BY <2>2, <3>2, <3>3
    <2> QED BY <2>5, <2>6
  <1>6. LedgerType' /\ WalkType' /\ ProviderType' /\ SessionType' /\ QuietJobs
    BY <1>1, OrchestratorKept, SessionKept
  <1>7. WireType' /\ AgentType'
    <2>1. dialled \in 0 .. MaxSockets /\ 0 \in 0 .. dialled
      BY FleetAssumption DEF TypeInv, TypeOK, AgentType
    <2>2. dial' \in 0 .. dialled'
      BY <1>1, <2>1 DEF None
    <2>3. WireType'
      BY <1>1, <1>5 DEF TypeInv, TypeOK, WireType
    <2>4. AgentType'
      BY <1>1, <2>2 DEF TypeInv, TypeOK, AgentType
    <2> QED BY <2>3, <2>4
  <1>8. HelloInv'
    BY <1>1 DEF TypeInv, HelloInv, session
  <1>9. WireMove
    BY <1>1, <1>5, <1>6, LinkMoves DEF ledger, walks, provider, session
  <1> QED BY <1>6, <1>7, <1>8, <1>9 DEF TypeInv, TypeOK

LEMMA GreetMoves ==
  ASSUME TypeInv, NEW s \in Sockets, Greet(s)
  PROVE  TypeInv' /\ WireMove
  <1>1. /\ UNCHANGED <<ledger, walks, provider, node, view, shut, wire, agent, mishaps>>
        /\ stage' = [stage EXCEPT ![s] = "greeting"] /\ stage[s] = "hello"
        /\ previous' = [previous EXCEPT ![s] = node]
    BY DEF Greet
  <1>2. LedgerType' /\ WalkType' /\ ProviderType' /\ QuietJobs
    BY <1>1, OrchestratorKept
  <1>3. SessionType' /\ WireType' /\ AgentType'
    BY <1>1 DEF TypeInv, TypeOK, SessionType, WireType, AgentType, wire, agent
  <1>4. HelloInv'
    BY <1>1 DEF TypeInv, TypeOK, SessionType, HelloInv, wire
  <1>5. WireMove
    BY <1>1, <1>2, LinkMoves DEF ledger, walks, provider, wire, agent
  <1> QED BY <1>2, <1>3, <1>4, <1>5 DEF TypeInv, TypeOK

LEMMA CloseMoves ==
  ASSUME TypeInv, NEW s \in Sockets, Close(s)
  PROVE  TypeInv' /\ WireMove
  <1>1. /\ UNCHANGED <<ledger, walks, provider, view, previous, broken, down, agent, mishaps>>
        /\ shut' = shut \cup {s} /\ node' \in {None, node}
        /\ stage' = IF stage[s] = "greeting" THEN stage ELSE [stage EXCEPT ![s] = "closed"]
        /\ up' \in {up, [up EXCEPT ![s] = <<>>]}
        /\ stage[s] = "greeting" => up'[s] = up[s]
    BY DEF Close, TypeInv, TypeOK, WireType
  <1>2. up \in [Sockets -> Seq(Containers)] /\ stage \in [Sockets -> {"none", "hello", "greeting", "open", "closed"}]
    BY DEF TypeInv, TypeOK, WireType, SessionType
  <1>3. LedgerType' /\ WalkType' /\ ProviderType' /\ QuietJobs
    BY <1>1, OrchestratorKept
  <1>4. SessionType' /\ WireType' /\ AgentType'
    <2>1. up' \in [Sockets -> Seq(Containers)]
      <3>1. <<>> \in Seq(Containers)
        OBVIOUS
      <3>2. [up EXCEPT ![s] = <<>>] \in [Sockets -> Seq(Containers)]
        BY <1>2, <3>1
      <3> QED BY <1>1, <1>2, <3>2
    <2>2. WireType' /\ AgentType'
      BY <1>1, <2>1 DEF TypeInv, TypeOK, WireType, AgentType, agent
    <2>3. SessionType'
      BY <1>1, FleetAssumption DEF TypeInv, TypeOK, SessionType, None
    <2> QED BY <2>2, <2>3
  <1>5. HelloInv'
    BY <1>1, <1>2 DEF TypeInv, HelloInv
  <1>6. \A c \in Ids : (\A t \in Sockets : \A i \in 1 .. Len(up[t]) : up[t][i][c] = "none") =>
                        \A t \in Sockets : \A i \in 1 .. Len(up'[t]) : up'[t][i][c] = "none"
    BY <1>1, <1>2
  <1>7. WireMove
    BY <1>1, <1>3, <1>6, LinkMoves DEF ledger, walks, provider, agent
  <1> QED BY <1>3, <1>4, <1>5, <1>7 DEF TypeInv, TypeOK

\* What the hello or a snapshot at the head of a queue tells was said.
LEMMA HeadRead ==
  ASSUME TypeInv, NEW s \in Sockets, up[s] # <<>>
  PROVE  /\ Head(up[s]) \in Containers /\ [up EXCEPT ![s] = Tail(@)] \in [Sockets -> Seq(Containers)]
         /\ \E i \in 1 .. Len(up[s]) : Head(up[s]) = up[s][i]
         /\ \A t \in Sockets : \A i \in 1 .. Len([up EXCEPT ![s] = Tail(@)][t]) :
                \E k \in 1 .. Len(up[t]) : [up EXCEPT ![s] = Tail(@)][t][i] = up[t][k]
  <1>1. up \in [Sockets -> Seq(Containers)]
    BY DEF TypeInv, TypeOK, WireType
  <1>2. PICK q \in Seq(Containers) : q = up[s]
    BY <1>1
  <1>3. Head(q) = q[1] /\ 1 \in 1 .. Len(q) /\ Tail(q) \in Seq(Containers)
        /\ \A i \in 1 .. Len(Tail(q)) : Tail(q)[i] = q[i + 1] /\ i + 1 \in 1 .. Len(q)
    BY <1>2
  <1>4. [up EXCEPT ![s] = Tail(@)] = [up EXCEPT ![s] = Tail(q)]
    BY <1>2
  <1> QED BY <1>1, <1>2, <1>3, <1>4

\* An idle task that begins to list, to sweep or to top up mints nothing and has read nothing.
LEMMA IdleJobMoves ==
  ASSUME TypeInv, NEW j \in Jobs, jobs[j].at = "idle", NEW job \in JobType,
         job.at \in {"idle", "list", "node", "ledger"}, jobs' = [jobs EXCEPT ![j] = job]
  PROVE  /\ QuietJobs /\ jobs' \in [Jobs -> JobType]
         /\ \A k \in Jobs : jobs'[k].at \in {"row", "token", "unsent"} => jobs'[k].left > 0
  <1>1. jobs \in [Jobs -> JobType]
        /\ \A k \in Jobs : jobs[k].at \in {"row", "token", "unsent"} => jobs[k].left > 0
    BY DEF TypeInv, TypeOK, ProviderType
  <1>2. \A k \in Jobs \ {j} : jobs'[k] = jobs[k]
    BY <1>1
  <1>3. jobs'[j] = job
    BY <1>1
  <1> QED BY <1>1, <1>2, <1>3 DEF QuietJobs, Minting, ToRead

LEMMA AttachMoves ==
  ASSUME TypeInv, NEW s \in Sockets, Attach(s)
  PROVE  TypeInv' /\ WireMove
  <1>1. /\ UNCHANGED <<ledger, walks, held, reaping, previous, broken, down, agent, mishaps>>
        /\ stage' = [stage EXCEPT ![s] = "open"] /\ stage[s] = "greeting" /\ node' = s
        /\ view' = [view EXCEPT ![s] = Head(up[s])] /\ up' = [up EXCEPT ![s] = Tail(@)]
        /\ told' = {}
        /\ shut' \in {shut, shut \cup {previous[s]}} /\ (shut' # shut => previous[s] # None)
    BY DEF Attach, StillTold
  <1>2. up[s] # <<>>
    BY <1>1 DEF TypeInv, HelloInv
  <1>3. /\ Head(up[s]) \in Containers /\ up' \in [Sockets -> Seq(Containers)]
        /\ \E i \in 1 .. Len(up[s]) : Head(up[s]) = up[s][i]
        /\ \A t \in Sockets : \A i \in 1 .. Len(up'[t]) : \E k \in 1 .. Len(up[t]) : up'[t][i] = up[t][k]
    <2>1. up' = [up EXCEPT ![s] = Tail(@)]
      BY <1>1
    <2> QED BY <1>2, <2>1, HeadRead
  <1>4. PICK j \in Jobs : /\ jobs[j].at = "idle"
                          /\ jobs' = [jobs EXCEPT ![j] = [IdleJob EXCEPT !.at = "list", !.sock = s]]
    BY DEF Attach
  <1>5. PICK job \in JobType : job = [IdleJob EXCEPT !.at = "list", !.sock = s] /\ job.at = "list"
    <2>1. PICK e : e = [IdleJob EXCEPT !.at = "list", !.sock = s]
      OBVIOUS
    <2>2. e = [at |-> "list", sock |-> s, rows |-> {}, ids |-> {}, c |-> None, own |-> NoOne,
               warm |-> FALSE, left |-> 0]
      BY <2>1 DEF IdleJob
    <2>3. s \in 0 .. MaxSockets /\ None \in 0 .. MaxIds /\ 0 \in 0 .. Warm
      BY FleetAssumption DEF Sockets, None
    <2>4. e \in JobType /\ e.at = "list"
      BY <2>2, <2>3 DEF JobType
    <2> QED BY <2>1, <2>4
  <1>6. /\ QuietJobs /\ jobs' \in [Jobs -> JobType]
        /\ \A k \in Jobs : jobs'[k].at \in {"row", "token", "unsent"} => jobs'[k].left > 0
    BY <1>4, <1>5, IdleJobMoves
  <1>7. LedgerType' /\ WalkType'
    BY <1>1 DEF TypeInv, TypeOK, LedgerType, WalkType, ledger, walks
  <1>8. ProviderType'
    BY <1>1, <1>6 DEF TypeInv, TypeOK, ProviderType
  <1>9. SessionType' /\ WireType' /\ AgentType'
    <2>1. WireType' /\ AgentType'
      BY <1>1, <1>3 DEF TypeInv, TypeOK, WireType, AgentType, agent
    <2>2. shut' \subseteq Sockets
      BY <1>1, FleetAssumption DEF TypeInv, TypeOK, SessionType, Sockets, None
    <2>3. SessionType'
      BY <1>1, <1>3, <2>2, FleetAssumption DEF TypeInv, TypeOK, SessionType, Sockets
    <2> QED BY <2>1, <2>3
  <1>10. HelloInv'
    <2>1. \A t \in Sockets \ {s} : up'[t] = up[t] /\ stage'[t] = stage[t]
      BY <1>1 DEF TypeInv, TypeOK, SessionType, WireType
    <2>2. stage'[s] = "open"
      BY <1>1 DEF TypeInv, TypeOK, SessionType
    <2> QED BY <2>1, <2>2 DEF TypeInv, HelloInv
  <1>11. ASSUME NEW c \in Ids, \A t \in Sockets : view[t][c] = "none",
                \A t \in Sockets : \A i \in 1 .. Len(up[t]) : up[t][i][c] = "none"
         PROVE  /\ \A t \in Sockets : view'[t][c] = "none"
                /\ \A t \in Sockets : \A i \in 1 .. Len(up'[t]) : up'[t][i][c] = "none"
    <2>1. Head(up[s])[c] = "none"
      BY <1>3, <1>11
    <2>2. view \in [Sockets -> Containers]
      BY DEF TypeInv, TypeOK, SessionType
    <2> QED BY <1>1, <1>3, <1>11, <2>1, <2>2
  <1>12. WireMove
    BY <1>1, <1>6, <1>11, LinkMoves DEF ledger, walks, agent
  <1> QED BY <1>7, <1>8, <1>9, <1>10, <1>12 DEF TypeInv, TypeOK

LEMMA SnapshotMoves ==
  ASSUME TypeInv, NEW s \in Sockets, OnInstances(s)
  PROVE  TypeInv' /\ WireMove
  <1>1. /\ UNCHANGED <<ledger, walks, held, reaping, node, stage, previous, shut, broken, down, agent,
                       mishaps>>
        /\ stage[s] \in {"open", "closed"} /\ up[s] # <<>> /\ up' = [up EXCEPT ![s] = Tail(@)]
    BY DEF OnInstances
  <1>2. /\ Head(up[s]) \in Containers /\ up' \in [Sockets -> Seq(Containers)]
        /\ \E i \in 1 .. Len(up[s]) : Head(up[s]) = up[s][i]
        /\ \A t \in Sockets : \A i \in 1 .. Len(up'[t]) : \E k \in 1 .. Len(up[t]) : up'[t][i] = up[t][k]
    BY <1>1, HeadRead
  <1>3. /\ view' = view \/ (node \in Sockets /\ view' = [view EXCEPT ![node] = Head(up[s])])
        /\ told' \in SUBSET Ids
        /\ QuietJobs /\ jobs' \in [Jobs -> JobType]
        /\ \A k \in Jobs : jobs'[k].at \in {"row", "token", "unsent"} => jobs'[k].left > 0
    <2>1. /\ told \in SUBSET Ids /\ held \in [Ids -> Entries] /\ jobs \in [Jobs -> JobType]
          /\ node \in 0 .. MaxSockets
          /\ \A k \in Jobs : jobs[k].at \in {"row", "token", "unsent"} => jobs[k].left > 0
      BY DEF TypeInv, TypeOK, ProviderType, SessionType
    <2>2. CASE node = None
      BY <2>1, <2>2 DEF OnInstances, QuietJobs
    <2>3. CASE node # None
      <3> DEFINE reported == {c \in Ids : Head(up[s])[c] # "none"}
      <3>1. /\ view' = [view EXCEPT ![node] = Head(up[s])] /\ told' = told \cap reported
            /\ \E j \in Jobs : /\ jobs[j].at = "idle"
                               /\ jobs' = [jobs EXCEPT ![j] = Sweep(node, reported, held, told')]
        BY <2>3 DEF OnInstances
      <3>2. PICK j \in Jobs : /\ jobs[j].at = "idle"
                              /\ jobs' = [jobs EXCEPT ![j] = Sweep(node, reported, held, told')]
        BY <3>1
      <3>3. told' \in SUBSET Ids /\ reported \in SUBSET Ids
        BY <2>1, <3>1
      <3>4. PICK t \in SUBSET Ids : t = told'
        BY <3>3
      <3> HIDE DEF reported
      <3>5. Sweep(node, reported, held, t) \in JobType
            /\ Sweep(node, reported, held, t).at \in {"idle", "node", "ledger"}
        BY <2>1, <3>3, SweepStands
      <3>6. QuietJobs /\ jobs' \in [Jobs -> JobType]
            /\ \A k \in Jobs : jobs'[k].at \in {"row", "token", "unsent"} => jobs'[k].left > 0
        BY <3>2, <3>4, <3>5, IdleJobMoves
      <3>7. node \in Sockets
        <4>1. node \in 0 .. MaxSockets /\ node # 0 /\ MaxSockets \in Nat
          BY <2>1, <2>3, FleetAssumption DEF None
        <4> QED BY <4>1 DEF Sockets
      <3> QED BY <3>1, <3>3, <3>6, <3>7
    <2> QED BY <2>2, <2>3
  <1>4. LedgerType' /\ WalkType'
    BY <1>1 DEF TypeInv, TypeOK, LedgerType, WalkType, ledger, walks
  <1>5. ProviderType'
    BY <1>1, <1>3 DEF TypeInv, TypeOK, ProviderType
  <1>6. SessionType' /\ WireType' /\ AgentType'
    <2>1. WireType' /\ AgentType'
      BY <1>1, <1>2 DEF TypeInv, TypeOK, WireType, AgentType, agent
    <2>2. view \in [Sockets -> Containers]
      BY DEF TypeInv, TypeOK, SessionType
    <2>3. view' \in [Sockets -> Containers]
      BY <1>2, <1>3, <2>2
    <2>4. SessionType'
      BY <1>1, <2>3 DEF TypeInv, TypeOK, SessionType
    <2> QED BY <2>1, <2>4
  <1>7. HelloInv'
    <2>1. \A t \in Sockets \ {s} : up'[t] = up[t]
      BY <1>1 DEF TypeInv, TypeOK, WireType
    <2> QED BY <1>1, <2>1 DEF TypeInv, HelloInv
  <1>8. ASSUME NEW c \in Ids, \A t \in Sockets : view[t][c] = "none",
               \A t \in Sockets : \A i \in 1 .. Len(up[t]) : up[t][i][c] = "none"
        PROVE  /\ \A t \in Sockets : view'[t][c] = "none"
               /\ \A t \in Sockets : \A i \in 1 .. Len(up'[t]) : up'[t][i][c] = "none"
    <2>1. Head(up[s])[c] = "none"
      BY <1>2, <1>8
    <2>2. view \in [Sockets -> Containers]
      BY DEF TypeInv, TypeOK, SessionType
    <2>3. \A t \in Sockets : view'[t][c] = "none"
      BY <1>3, <1>8, <2>1, <2>2
    <2> QED BY <1>2, <1>8, <2>3
  <1>9. WireMove
    BY <1>1, <1>3, <1>8, LinkMoves DEF ledger, walks, agent
  <1> QED BY <1>4, <1>5, <1>6, <1>7, <1>9 DEF TypeInv, TypeOK

LEMMA AgentRestartMoves ==
  ASSUME TypeInv, AgentRestart
  PROVE  TypeInv' /\ WireMove
  <1>1. /\ UNCHANGED <<ledger, walks, provider, session, up, dialled, born>>
        /\ busy' = None /\ inbox' = <<>> /\ down' = <<>> /\ dial' = None /\ welcomed' = FALSE
        /\ broken' = (IF dial = None THEN broken ELSE broken \cup {dial})
    BY DEF AgentRestart
  <1>2. mishaps' \in 0 .. MaxMishaps
    BY MishapTyped DEF AgentRestart
  <1>3. PICK after \in [Ids -> {"none", "starting", "running", "failed"}] :
           /\ \A c \in Ids : Readopted(c, after[c])
           /\ box' = after
           /\ bound' = [c \in Ids |-> IF after[c] = "running" THEN bound[c] ELSE "none"]
    BY DEF AgentRestart
  <1>4. /\ box' \in Containers /\ bound' \in [Ids -> Keys]
        /\ \A c \in Ids : bound'[c] \in {bound[c], "none"}
    <2>1. bound \in [Ids -> Keys] /\ "none" \in Keys
      BY DEF TypeInv, TypeOK, AgentType, Keys
    <2>2. after \in Containers
      BY DEF Containers
    <2>3. \A c \in Ids : bound'[c] \in {bound[c], "none"} /\ bound'[c] \in Keys
      BY <1>3, <2>1
    <2>4. bound' = [c \in Ids |-> bound'[c]]
      BY <1>3
    <2>5. bound' \in [Ids -> Keys]
      BY <2>3, <2>4
    <2>6. box' \in Containers
      BY <1>3, <2>2
    <2> QED BY <2>3, <2>5, <2>6
  <1>5. LedgerType' /\ WalkType' /\ ProviderType' /\ SessionType' /\ QuietJobs
    BY <1>1, OrchestratorKept, SessionKept
  <1>6. WireType' /\ AgentType'
    <2>1. broken' \subseteq Sockets
      BY <1>1, FleetAssumption DEF TypeInv, TypeOK, WireType, AgentType, Sockets, None
    <2>2. dialled \in 0 .. MaxSockets /\ 0 \in 0 .. dialled /\ 0 \in 0 .. MaxIds
      BY FleetAssumption DEF TypeInv, TypeOK, AgentType
    <2>3. inbox' \in Seq(Frames) /\ down' \in Seq(Frames)
      BY <1>1
    <2>4. WireType'
      BY <1>1, <2>1, <2>3 DEF TypeInv, TypeOK, WireType
    <2>5. AgentType'
      BY <1>1, <1>2, <1>4, <2>2 DEF TypeInv, TypeOK, AgentType, None
    <2> QED BY <2>4, <2>5
  <1>7. HelloInv'
    BY <1>1 DEF TypeInv, HelloInv, session
  <1>8. ASSUME NEW c \in Ids, Hidden(c) PROVE Hidden(c)'
    <2>1. box'[c] = "none"
      BY <1>3, <1>8 DEF Hidden, Readopted
    <2>2. busy' # c
      BY <1>1, FleetAssumption DEF Ids, None
    <2> QED BY <1>1, <1>8, <2>1, <2>2 DEF Hidden, session
  <1>9. WireMove
    BY <1>1, <1>4, <1>5, <1>8 DEF WireMove, ledger, walks, provider
  <1> QED BY <1>5, <1>6, <1>7, <1>9 DEF TypeInv, TypeOK

LEMMA UnlinkMoves ==
  ASSUME TypeInv, NEW c \in Ids, Unlink(c)
  PROVE  TypeInv' /\ WireMove
  <1>1. /\ UNCHANGED <<ledger, walks, provider, session, wire, inbox, dialled, dial, welcomed, born,
                       box, busy>>
        /\ bound' = [bound EXCEPT ![c] = "none"]
    BY DEF Unlink
  <1>2. mishaps' \in 0 .. MaxMishaps
    BY MishapTyped DEF Unlink
  <1>3. bound' \in [Ids -> Keys] /\ \A d \in Ids : bound'[d] \in {bound[d], "none"}
    BY <1>1 DEF TypeInv, TypeOK, AgentType, Keys
  <1>4. LedgerType' /\ WalkType' /\ ProviderType' /\ SessionType' /\ QuietJobs
    BY <1>1, OrchestratorKept, SessionKept
  <1>5. WireType' /\ AgentType' /\ HelloInv'
    BY <1>1, <1>2, <1>3 DEF TypeInv, TypeOK, WireType, AgentType, HelloInv, wire, session
  <1>6. WireMove
    BY <1>1, <1>3, <1>4, LinkMoves DEF ledger, walks, provider, session, wire
  <1> QED BY <1>4, <1>5, <1>6 DEF TypeInv, TypeOK

-----------------------------------------------------------------------------
(* Types of the walks', the tasks' and the reaper's steps.                 *)

\* What these steps leave alone.
Elsewhere == UNCHANGED <<session, broken, up, inbox, dialled, dial, welcomed, box, busy>>

LEMMA ElsewhereKept ==
  ASSUME TypeInv, Elsewhere, down' \in Seq(Frames), born' \in [Ids -> {"none", "warm", "match"}],
         bound' \in [Ids -> Keys], mishaps' \in 0 .. MaxMishaps
  PROVE  SessionType' /\ WireType' /\ AgentType' /\ HelloInv'
  BY DEF Elsewhere, session, TypeInv, TypeOK, SessionType, WireType, AgentType, HelloInv

LEMMA UnheldIsEntry == Unheld \in Entries
  BY DEF Unheld, Entries

LEMMA HoldingIsEntry ==
  ASSUME NEW owner \in Walks \cup {NoOne}, NEW has \in BOOLEAN, NEW warm \in BOOLEAN
  PROVE  Holding(owner, has, warm) \in Entries
  BY DEF Holding, Entries

\* What a deallocation does: the entry goes, a stop may go out, an idle task may top up.
Deallocated(c) ==
    /\ held' = IF held[c].known THEN [held EXCEPT ![c] = Unheld] ELSE held
    /\ told' \in {told, told \cup {c}}
    /\ QuietJobs
    /\ \A i \in 1 .. Len(down') : \/ down'[i] = Frame("stop", c) /\ held[c].known
                                  \/ \E k \in 1 .. Len(down) : down'[i] = down[k]

LEMMA DeallocateStands ==
  ASSUME TypeInv, NEW c \in Ids, Deallocate(c)
  PROVE  /\ Deallocated(c)
         /\ held' \in [Ids -> Entries] /\ told' \subseteq Ids /\ jobs' \in [Jobs -> JobType]
         /\ \A k \in Jobs : jobs'[k].at \in {"row", "token", "unsent"} => jobs'[k].left > 0
         /\ down' \in Seq(Frames)
  <1>1. /\ held \in [Ids -> Entries] /\ told \subseteq Ids /\ jobs \in [Jobs -> JobType]
        /\ \A k \in Jobs : jobs[k].at \in {"row", "token", "unsent"} => jobs[k].left > 0
        /\ down \in Seq(Frames) /\ node \in 0 .. MaxSockets
    BY DEF TypeInv, TypeOK, ProviderType, WireType, SessionType
  <1>2. CASE ~held[c].known
    <2>1. UNCHANGED <<held, told, jobs, down>>
      BY <1>2 DEF Deallocate
    <2> QED BY <1>1, <1>2, <2>1 DEF Deallocated, QuietJobs
  <1>3. CASE held[c].known
    <2>1. /\ held' = [held EXCEPT ![c] = Unheld] /\ told' \in {told, told \cup {c}}
          /\ down' = Sent(node, <<Frame("stop", c)>>)
      BY <1>3 DEF Deallocate
    <2>2. PICK j \in Jobs : jobs[j].at = "idle" /\ jobs' = [jobs EXCEPT ![j] = TopUp]
      BY <1>3 DEF Deallocate
    <2>3. /\ QuietJobs /\ jobs' \in [Jobs -> JobType]
          /\ \A k \in Jobs : jobs'[k].at \in {"row", "token", "unsent"} => jobs'[k].left > 0
      BY <1>1, <2>2, TopUpStands, IdleJobMoves
    <2>4. /\ down' \in Seq(Frames)
          /\ \A i \in 1 .. Len(down') : \/ down'[i] = Frame("stop", c)
                                        \/ \E k \in 1 .. Len(down) : down'[i] = down[k]
      BY <2>1, SentStands
    <2>5. held' \in [Ids -> Entries] /\ told' \subseteq Ids
      BY <1>1, <2>1, UnheldIsEntry
    <2> QED BY <1>3, <2>1, <2>3, <2>4, <2>5 DEF Deallocated
  <1> QED BY <1>2, <1>3

\* The steps that write the ledger and the walks only.
LEMMA WalksTyped ==
  ASSUME TypeInv, UNCHANGED <<provider, down, born, mishaps>>, Elsewhere, LedgerType', WalkType',
         bound' \in [Ids -> Keys]
  PROVE  TypeInv'
  <1>1. down \in Seq(Frames) /\ born \in [Ids -> {"none", "warm", "match"}] /\ mishaps \in 0 .. MaxMishaps
    BY DEF TypeInv, TypeOK, WireType, AgentType
  <1>2. SessionType' /\ WireType' /\ AgentType' /\ HelloInv'
    BY <1>1, ElsewhereKept
  <1>3. ProviderType'
    BY DEF TypeInv, TypeOK, ProviderType, provider
  <1> QED BY <1>2, <1>3 DEF TypeInv, TypeOK

LEMMA WalkElsewhere ==
  ASSUME WalkUnchanged
  PROVE  Elsewhere /\ UNCHANGED <<reaping, bound, mishaps>>
  BY DEF WalkUnchanged, Elsewhere, session

LEMMA RowsTyped ==
  ASSUME TypeInv, NEW w \in Walks,
         OpenRow(w) \/ Rejected(w) \/ NameServer(w) \/ Configure(w) \/ CloseRow(w)
  PROVE  TypeInv'
  <1>1. UNCHANGED <<provider, down, born, mishaps, warmRow, mine, bound>> /\ Elsewhere
    BY WalkElsewhere DEF OpenRow, Rejected, NameServer, Configure, CloseRow, provider
  <1>2. LedgerType /\ WalkType /\ bound \in [Ids -> Keys]
    BY DEF TypeInv, TypeOK, AgentType
  <1>3. WalkType'
    BY <1>1, <1>2 DEF WalkType, OpenRow, Rejected, NameServer, Configure, CloseRow, At
  <1>4. LedgerType'
    <2>1. CASE token' = token
      <3>1. row' = row \/ (\E b \in BOOLEAN : row' = [row EXCEPT ![w].open = b])
            \/ row' = [row EXCEPT ![w].server = mine[w]]
        BY DEF OpenRow, Rejected, NameServer, Configure, CloseRow
      <3>2. row' \in [Walks -> [open : BOOLEAN, server : 0 .. MaxIds]]
        BY <1>2, <3>1 DEF LedgerType, WalkType
      <3> QED BY <1>1, <1>2, <2>1, <3>2 DEF LedgerType
    <2>2. CASE token' # token
      <3>1. row' = row /\ token' = [token EXCEPT ![mine[w]] = w]
        BY <2>2 DEF OpenRow, Rejected, NameServer, Configure, CloseRow
      <3> QED BY <1>1, <1>2, <3>1 DEF LedgerType, WalkType, Keys
    <2> QED BY <2>1, <2>2
  <1> QED BY <1>1, <1>2, <1>3, <1>4, WalksTyped

LEMMA RebindTyped ==
  ASSUME TypeInv, NEW w \in Walks, Rebind(w)
  PROVE  TypeInv'
  <1>1. UNCHANGED <<provider, down, born, mishaps, ledger, mine>> /\ Elsewhere
    BY DEF Rebind, provider, Elsewhere, session, wire
  <1>2. LedgerType' /\ WalkType'
    BY <1>1 DEF TypeInv, TypeOK, LedgerType, WalkType, ledger, Rebind, At
  <1>3. bound' \in [Ids -> Keys]
    BY DEF TypeInv, TypeOK, AgentType, Rebind, Keys
  <1> QED BY <1>1, <1>2, <1>3, WalksTyped

LEMMA RelinkTyped ==
  ASSUME TypeInv, NEW c \in Ids, Relink(c)
  PROVE  TypeInv'
  <1>1. UNCHANGED <<provider, down, born, mishaps, ledger, walks>> /\ Elsewhere
    BY DEF Relink, provider, Elsewhere, session, wire
  <1>2. LedgerType' /\ WalkType'
    BY <1>1 DEF TypeInv, TypeOK, LedgerType, WalkType, ledger, walks
  <1>3. bound' \in [Ids -> Keys]
    BY DEF TypeInv, TypeOK, AgentType, LedgerType, Relink
  <1> QED BY <1>1, <1>2, <1>3, WalksTyped

\* The steps that change what is held, without a task.
LEMMA HeldTyped ==
  ASSUME TypeInv, UNCHANGED <<told, jobs, reaping, down, bound, mishaps>>, Elsewhere,
         LedgerType', WalkType', held' \in [Ids -> Entries],
         born' \in [Ids -> {"none", "warm", "match"}]
  PROVE  TypeInv'
  <1>1. down \in Seq(Frames) /\ bound \in [Ids -> Keys] /\ mishaps \in 0 .. MaxMishaps
    BY DEF TypeInv, TypeOK, WireType, AgentType
  <1>2. SessionType' /\ WireType' /\ AgentType' /\ HelloInv'
    BY <1>1, ElsewhereKept
  <1>3. ProviderType'
    BY DEF TypeInv, TypeOK, ProviderType
  <1> QED BY <1>2, <1>3 DEF TypeInv, TypeOK

LEMMA ClaimTyped ==
  ASSUME TypeInv, NEW w \in Walks, Claim(w)
  PROVE  TypeInv'
  <1>1. /\ UNCHANGED <<ledger, told, jobs, reaping, down, born, bound, mishaps>> /\ Elsewhere
        /\ walk' = [walk EXCEPT ![w] = "given"]
    BY WalkElsewhere DEF Claim, At
  <1>2. PICK c \in Ids : /\ mine' = [mine EXCEPT ![w] = c]
                         /\ held' = [held EXCEPT ![c].owner = w, ![c].moving = TRUE]
    BY DEF Claim, FreeWarm, Held
  <1>3. LedgerType' /\ born' \in [Ids -> {"none", "warm", "match"}]
    BY <1>1 DEF TypeInv, TypeOK, LedgerType, AgentType, ledger
  <1>4. c \in 0 .. MaxIds
    BY FleetAssumption DEF Ids
  <1>5. WalkType'
    BY <1>1, <1>2, <1>4 DEF TypeInv, TypeOK, WalkType
  <1>6. held' \in [Ids -> Entries]
    BY <1>2 DEF TypeInv, TypeOK, ProviderType, Entries
  <1> QED BY <1>1, <1>3, <1>5, <1>6, HeldTyped

LEMMA ColdTyped ==
  ASSUME TypeInv, NEW w \in Walks, Cold(w)
  PROVE  TypeInv' /\ Least(Unborn) \in Unborn
  <1>1. /\ UNCHANGED <<ledger, told, jobs, reaping, down, bound, mishaps>> /\ Elsewhere
        /\ walk' = [walk EXCEPT ![w] = "given"] /\ Unborn # {}
    BY WalkElsewhere DEF Cold, At
  <1>2. Least(Unborn) \in Unborn
    BY <1>1, LeastIsOne DEF Unborn
  <1>3. PICK c \in Unborn : c = Least(Unborn)
    BY <1>2
  <1>4. /\ mine' = [mine EXCEPT ![w] = c] /\ held' = [held EXCEPT ![c] = Holding(w, FALSE, FALSE)]
        /\ born' = [born EXCEPT ![c] = "match"]
    BY <1>3 DEF Cold
  <1>5. c \in Ids /\ c \in 0 .. MaxIds
    BY FleetAssumption DEF Ids, Unborn
  <1>6. LedgerType' /\ born' \in [Ids -> {"none", "warm", "match"}]
    BY <1>1, <1>4 DEF TypeInv, TypeOK, LedgerType, AgentType, ledger
  <1>7. WalkType'
    BY <1>1, <1>4, <1>5 DEF TypeInv, TypeOK, WalkType
  <1>8. held' \in [Ids -> Entries]
    BY <1>4, HoldingIsEntry DEF TypeInv, TypeOK, ProviderType
  <1> QED BY <1>1, <1>2, <1>6, <1>7, <1>8, HeldTyped

LEMMA CloseWarmTyped ==
  ASSUME TypeInv, NEW w \in Walks, CloseWarm(w)
  PROVE  TypeInv'
  <1>1. /\ UNCHANGED <<row, token, mine, told, jobs, reaping, down, born, bound, mishaps>> /\ Elsewhere
        /\ walk' = [walk EXCEPT ![w] = "configured"]
        /\ warmRow' = [warmRow EXCEPT ![mine[w]] = "claimed"]
        /\ held' = [held EXCEPT ![mine[w]].moving = FALSE]
    BY WalkElsewhere DEF CloseWarm, At
  <1>2. LedgerType' /\ WalkType' /\ born' \in [Ids -> {"none", "warm", "match"}]
    BY <1>1 DEF TypeInv, TypeOK, LedgerType, WalkType, AgentType
  <1>3. held' \in [Ids -> Entries]
    BY <1>1 DEF TypeInv, TypeOK, ProviderType, Entries
  <1> QED BY <1>1, <1>2, <1>3, HeldTyped

LEMMA StartColdTyped ==
  ASSUME TypeInv, NEW w \in Walks, StartCold(w), mine[w] \in Ids
  PROVE  /\ TypeInv'
         /\ \A i \in 1 .. Len(down') : \/ down'[i] = Frame("start", mine[w])
                                       \/ \E k \in 1 .. Len(down) : down'[i] = down[k]
  <1>1. /\ UNCHANGED <<warmRow, row, mine, held, told, jobs, born, reaping, bound, mishaps>> /\ Elsewhere
        /\ walk' = [walk EXCEPT ![w] = "playing"]
        /\ token' \in {token, [token EXCEPT ![mine[w]] = w]}
        /\ down' = Sent(node, <<Frame("start", mine[w])>>)
    BY WalkElsewhere DEF StartCold, At
  <1>2. /\ down' \in Seq(Frames)
        /\ \A i \in 1 .. Len(down') : \/ down'[i] = Frame("start", mine[w])
                                      \/ \E k \in 1 .. Len(down) : down'[i] = down[k]
    BY <1>1, SentStands
  <1>3. LedgerType' /\ WalkType'
    BY <1>1 DEF TypeInv, TypeOK, LedgerType, WalkType, Keys
  <1>4. ProviderType'
    BY <1>1 DEF TypeInv, TypeOK, ProviderType
  <1>5. SessionType' /\ WireType' /\ AgentType' /\ HelloInv'
    <2>1. born \in [Ids -> {"none", "warm", "match"}] /\ bound \in [Ids -> Keys] /\ mishaps \in 0 .. MaxMishaps
      BY DEF TypeInv, TypeOK, AgentType
    <2> QED BY <1>1, <1>2, <2>1, ElsewhereKept
  <1> QED BY <1>2, <1>3, <1>4, <1>5 DEF TypeInv, TypeOK

\* The steps that deallocate.
LEMMA DeallocateTyped ==
  ASSUME TypeInv, NEW c \in Ids, Deallocate(c), Elsewhere, UNCHANGED <<born, bound>>,
         LedgerType', WalkType', reaping' \in 0 .. MaxIds, mishaps' \in 0 .. MaxMishaps
  PROVE  TypeInv' /\ Deallocated(c)
  <1>1. born \in [Ids -> {"none", "warm", "match"}] /\ bound \in [Ids -> Keys]
    BY DEF TypeInv, TypeOK, AgentType
  <1>2. SessionType' /\ WireType' /\ AgentType' /\ HelloInv'
    BY <1>1, DeallocateStands, ElsewhereKept
  <1>3. ProviderType'
    BY DeallocateStands DEF ProviderType
  <1> QED BY <1>2, <1>3, DeallocateStands DEF TypeInv, TypeOK

LEMMA GiveUpTyped ==
  ASSUME TypeInv, NEW w \in Walks, GiveUp(w) \/ EndMatch(w), mine[w] \in Ids
  PROVE  TypeInv' /\ Deallocated(mine[w])
  <1>1. /\ Deallocate(mine[w]) /\ Elsewhere /\ UNCHANGED <<ledger, mine, born, reaping, bound, mishaps>>
        /\ walk' \in {[walk EXCEPT ![w] = "closing"], [walk EXCEPT ![w] = "ending"]}
    BY WalkElsewhere DEF GiveUp, EndMatch, At
  <1>2. LedgerType' /\ WalkType' /\ reaping' \in 0 .. MaxIds /\ mishaps' \in 0 .. MaxMishaps
    BY <1>1 DEF TypeInv, TypeOK, LedgerType, WalkType, ProviderType, AgentType, ledger
  <1> QED BY <1>1, <1>2, DeallocateTyped

LEMMA ReaperTyped ==
  ASSUME TypeInv, Expire \/ (\E c \in Ids : ReapOrphan(c))
  PROVE  TypeInv'
  <1>1. CASE Expire
    <2>1. /\ Deallocate(reaping) /\ Elsewhere /\ UNCHANGED <<row, token, walks, born, bound, mishaps>>
          /\ warmRow' = [warmRow EXCEPT ![reaping] = "expired"] /\ reaping' = None /\ reaping # None
      BY <1>1 DEF Expire, ReaperUnchanged, Elsewhere, session, agent
    <2>2. reaping \in Ids
      BY <2>1, FleetAssumption DEF TypeInv, TypeOK, ProviderType, Ids, None
    <2>3. LedgerType' /\ WalkType' /\ mishaps' \in 0 .. MaxMishaps
      BY <2>1 DEF TypeInv, TypeOK, LedgerType, WalkType, AgentType, walks
    <2>4. reaping' \in 0 .. MaxIds
      BY <2>1, FleetAssumption DEF None
    <2> QED BY <2>1, <2>2, <2>3, <2>4, DeallocateTyped
  <1>2. ASSUME NEW c \in Ids, ReapOrphan(c) PROVE TypeInv'
    <2>1. /\ Deallocate(c) /\ Elsewhere
          /\ UNCHANGED <<warmRow, row, token, walks, reaping, born, bound, mishaps>>
      BY <1>2 DEF ReapOrphan, ReaperUnchanged, Elsewhere, session, agent
    <2>2. LedgerType' /\ WalkType' /\ mishaps' \in 0 .. MaxMishaps /\ reaping' \in 0 .. MaxIds
      BY <2>1 DEF TypeInv, TypeOK, LedgerType, WalkType, ProviderType, AgentType, walks
    <2> QED BY <2>1, <2>2, DeallocateTyped
  <1> QED BY <1>1, <1>2

LEMMA ReadExpiredTyped ==
  ASSUME TypeInv, NEW c \in Ids, ReadExpired(c)
  PROVE  TypeInv'
  <1>1. Elsewhere /\ UNCHANGED <<warmRow, row, token, walks, held, told, jobs, down, born, bound>>
        /\ reaping' = c
    BY DEF ReadExpired, ReaperUnchanged, Elsewhere, session, agent
  <1>2. mishaps' \in 0 .. MaxMishaps /\ c \in 0 .. MaxIds
    BY MishapTyped, FleetAssumption DEF ReadExpired, Ids
  <1>3. down \in Seq(Frames) /\ born \in [Ids -> {"none", "warm", "match"}] /\ bound \in [Ids -> Keys]
    BY DEF TypeInv, TypeOK, WireType, AgentType
  <1>4. SessionType' /\ WireType' /\ AgentType' /\ HelloInv'
    BY <1>1, <1>2, <1>3, ElsewhereKept
  <1>5. LedgerType' /\ WalkType' /\ ProviderType'
    BY <1>1, <1>2 DEF TypeInv, TypeOK, LedgerType, WalkType, ProviderType, walks
  <1> QED BY <1>4, <1>5 DEF TypeInv, TypeOK

\* The tasks.
LEMMA TasksTyped ==
  ASSUME TypeInv, JobsUnchanged, NEW j \in Jobs, NEW job \in JobType,
         job.at \in {"row", "token", "unsent"} => job.left > 0, jobs' = [jobs EXCEPT ![j] = job],
         warmRow' \in [Ids -> {"none", "open", "claimed", "expired", "failed"}],
         token' \in [Ids -> Keys], held' \in [Ids -> Entries], told' \subseteq Ids,
         down' \in Seq(Frames), born' \in [Ids -> {"none", "warm", "match"}]
  PROVE  TypeInv' /\ jobs'[j] = job /\ \A k \in Jobs \ {j} : jobs'[k] = jobs[k]
  <1>1. Elsewhere /\ UNCHANGED <<row, walks, reaping, bound, mishaps>>
    BY DEF JobsUnchanged, Elsewhere, session
  <1>2. jobs \in [Jobs -> JobType] /\ bound \in [Ids -> Keys] /\ mishaps \in 0 .. MaxMishaps
    BY DEF TypeInv, TypeOK, ProviderType, AgentType
  <1>3. jobs'[j] = job /\ \A k \in Jobs \ {j} : jobs'[k] = jobs[k]
    BY <1>2
  <1>4. ProviderType'
    BY <1>1, <1>2, <1>3 DEF TypeInv, TypeOK, ProviderType
  <1>5. LedgerType' /\ WalkType'
    BY <1>1 DEF TypeInv, TypeOK, LedgerType, WalkType, walks
  <1>6. SessionType' /\ WireType' /\ AgentType' /\ HelloInv'
    BY <1>1, <1>2, ElsewhereKept
  <1> QED BY <1>3, <1>4, <1>5, <1>6 DEF TypeInv, TypeOK

\* What a task's step leaves alone keeps its type.
LEMMA TaskKept ==
  ASSUME TypeInv
  PROVE  /\ warmRow \in [Ids -> {"none", "open", "claimed", "expired", "failed"}]
         /\ token \in [Ids -> Keys] /\ held \in [Ids -> Entries] /\ told \subseteq Ids
         /\ down \in Seq(Frames) /\ born \in [Ids -> {"none", "warm", "match"}]
         /\ node \in 0 .. MaxSockets /\ jobs \in [Jobs -> JobType]
         /\ \A k \in Jobs : jobs[k].at \in {"row", "token", "unsent"} => jobs[k].left > 0
  BY DEF TypeInv, TypeOK, LedgerType, ProviderType, WireType, AgentType, SessionType

LEMMA ListRowsTyped ==
  ASSUME TypeInv, NEW j \in Jobs, ListRows(j)
  PROVE  /\ TypeInv' /\ \A k \in Jobs \ {j} : jobs'[k] = jobs[k]
         /\ ~Minting(jobs[j]) /\ ~Minting(jobs'[j])
         /\ ToRead(jobs[j]) = {} /\ ToRead(jobs'[j]) = {r \in AdoptableRows : ~held[r.c].known}
         /\ jobs'[j].at = "find" /\ jobs'[j].warm => born[jobs'[j].c] = "warm"
  <1>1. /\ JobsUnchanged /\ UNCHANGED <<warmRow, token, held, down, born>> /\ jobs[j].at = "list"
        /\ jobs' = [jobs EXCEPT ![j] = Adopt(jobs[j].sock, AdoptableRows, held)]
        /\ told' \subseteq told
    BY TaskKept DEF ListRows, Swept
  <1>2. jobs[j].sock \in 0 .. MaxSockets /\ AdoptableRows \in SUBSET Rows
    BY TaskKept DEF JobType, AdoptableRows, Rows
  <1>3. PICK job : job = Adopt(jobs[j].sock, AdoptableRows, held)
    OBVIOUS
  <1>4. /\ job \in JobType /\ ~Minting(job) /\ ToRead(job) = {r \in AdoptableRows : ~held[r.c].known}
        /\ job.at = "find" /\ job.warm => born[job.c] = "warm"
    <2>1. TypeOK /\ held \in [Ids -> Entries]
      BY TaskKept DEF TypeInv
    <2>2. PICK rows \in SUBSET Rows : rows = AdoptableRows
      BY <1>2
    <2> QED BY <1>2, <1>3, <2>1, <2>2, AdoptStands
  <1>5. TypeInv' /\ jobs'[j] = job /\ \A k \in Jobs \ {j} : jobs'[k] = jobs[k]
    BY <1>1, <1>3, <1>4, TaskKept, TasksTyped DEF Minting
  <1> QED BY <1>1, <1>4, <1>5 DEF Minting, ToRead

LEMMA AdoptOneTyped ==
  ASSUME TypeInv, NEW j \in Jobs, AdoptOne(j)
  PROVE  /\ TypeInv' /\ \A k \in Jobs \ {j} : jobs'[k] = jobs[k]
         /\ ~Minting(jobs[j]) /\ ~Minting(jobs'[j])
         /\ jobs[j].c \in Ids /\ jobs[j].own \in Walks \cup {NoOne}
         /\ [c |-> jobs[j].c, own |-> jobs[j].own] \in ToRead(jobs[j])
         /\ \E has, warm \in BOOLEAN :
                /\ held' = [held EXCEPT ![jobs[j].c] = Holding(jobs[j].own, has, warm)]
                /\ has = (token[jobs[j].c] = IF jobs[j].own = NoOne THEN "warm" ELSE jobs[j].own)
                /\ warm = jobs[j].warm
         /\ ToRead(jobs'[j]) = {r \in jobs[j].rows : ~held'[r.c].known}
         /\ jobs[j].rows \subseteq ToRead(jobs[j]) /\ jobs[j].at = "find"
         /\ jobs'[j].at = "find" /\ jobs'[j].warm => born[jobs'[j].c] = "warm"
  <1>1. /\ JobsUnchanged /\ UNCHANGED <<warmRow, token, down, born>> /\ jobs[j].at = "find"
        /\ jobs' = [jobs EXCEPT ![j] = Adopt(jobs[j].sock, jobs[j].rows, held')]
        /\ told' \subseteq told
    BY DEF AdoptOne, Swept
  <1>2. PICK has \in BOOLEAN : has = (token[jobs[j].c] = IF jobs[j].own = NoOne THEN "warm" ELSE jobs[j].own)
    OBVIOUS
  <1>3. held' = [held EXCEPT ![jobs[j].c] = Holding(jobs[j].own, has, jobs[j].warm)]
    BY <1>2 DEF AdoptOne
  <1>4. /\ jobs[j].sock \in 0 .. MaxSockets /\ jobs[j].rows \in SUBSET Rows
        /\ jobs[j].own \in Walks \cup {NoOne} /\ jobs[j].warm \in BOOLEAN /\ jobs[j].c \in 0 .. MaxIds
    BY TaskKept DEF JobType, Rows
  <1>5. jobs[j].c \in Ids
    <2>1. jobs[j].c # None
      BY <1>1, TaskKept DEF JobType
    <2> QED BY <1>4, <2>1, FleetAssumption DEF Ids, None
  <1>6. held' \in [Ids -> Entries]
    BY <1>2, <1>3, <1>4, HoldingIsEntry, TaskKept
  <1>7. PICK h \in [Ids -> Entries] : h = held'
    BY <1>6
  <1>8. PICK job : job = Adopt(jobs[j].sock, jobs[j].rows, h)
    OBVIOUS
  <1>9. /\ job \in JobType /\ ~Minting(job) /\ ToRead(job) = {r \in jobs[j].rows : ~h[r.c].known}
        /\ job.at = "find" /\ job.warm => born[job.c] = "warm"
    BY <1>4, <1>8, AdoptStands DEF TypeInv
  <1>10. TypeInv' /\ jobs'[j] = job /\ \A k \in Jobs \ {j} : jobs'[k] = jobs[k]
    BY <1>1, <1>6, <1>7, <1>8, <1>9, TaskKept, TasksTyped DEF Minting
  <1>11. /\ [c |-> jobs[j].c, own |-> jobs[j].own] \in ToRead(jobs[j])
         /\ jobs[j].rows \subseteq ToRead(jobs[j]) /\ ~Minting(jobs[j])
    BY <1>1 DEF ToRead, Minting
  <1> QED BY <1>1, <1>2, <1>3, <1>4, <1>5, <1>7, <1>9, <1>10, <1>11

LEMMA JudgeTyped ==
  ASSUME TypeInv, NEW j \in Jobs, Judge(j)
  PROVE  /\ TypeInv' /\ QuietJobs /\ jobs[j].c \in Ids
         /\ \A i \in 1 .. Len(down') :
                \/ down'[i] = Frame("stop", jobs[j].c) /\ HasRow(jobs[j].c) /\ ~LastRow(jobs[j].c)
                \/ \E k \in 1 .. Len(down) : down'[i] = down[k]
  <1> DEFINE stop == HasRow(jobs[j].c) /\ ~LastRow(jobs[j].c)
  <1>1. /\ JobsUnchanged /\ UNCHANGED <<warmRow, token, held, born>> /\ jobs[j].at = "ledger"
        /\ told' \in {told, told \cup {jobs[j].c}}
        /\ IF stop THEN down' = Sent(jobs[j].sock, <<Frame("stop", jobs[j].c)>>) ELSE down' = down
        /\ jobs' = [jobs EXCEPT ![j] = Sweep(jobs[j].sock, jobs[j].ids, held, told')]
    BY DEF Judge
  <1>2. jobs[j].sock \in 0 .. MaxSockets /\ jobs[j].ids \in SUBSET Ids /\ jobs[j].c \in 0 .. MaxIds
        /\ jobs[j].c # None
    BY <1>1, TaskKept DEF JobType
  <1>3. jobs[j].c \in Ids
    BY <1>2, FleetAssumption DEF Ids, None
  <1>4. told' \in SUBSET Ids
    BY <1>1, <1>3, TaskKept
  <1>5. PICK t \in SUBSET Ids : t = told'
    BY <1>4
  <1>6. /\ down' \in Seq(Frames)
        /\ \A i \in 1 .. Len(down') :
                \/ down'[i] = Frame("stop", jobs[j].c) /\ stop
                \/ \E k \in 1 .. Len(down) : down'[i] = down[k]
    <2>1. CASE stop
      BY <1>1, <1>3, <2>1, SentStands
    <2>2. CASE ~stop
      BY <1>1, <2>2, TaskKept
    <2> QED BY <2>1, <2>2
  <1>7. PICK job : job = Sweep(jobs[j].sock, jobs[j].ids, held, t)
    OBVIOUS
  <1>8. job \in JobType /\ job.at \in {"idle", "node", "ledger"}
    BY <1>2, <1>7, TaskKept, SweepStands
  <1>9. TypeInv' /\ jobs'[j] = job /\ \A k \in Jobs \ {j} : jobs'[k] = jobs[k]
    BY <1>1, <1>4, <1>5, <1>6, <1>7, <1>8, TaskKept, TasksTyped
  <1>10. QuietJobs
    BY <1>1, <1>8, <1>9 DEF QuietJobs, Minting, ToRead
  <1> QED BY <1>3, <1>6, <1>9, <1>10

\* A loop of topUp that goes on: what it mints was not born.
GoneOn(j) ==
    /\ \A k \in Jobs \ {j} : jobs'[k] = jobs[k]
    /\ ToRead(jobs'[j]) = {}
    /\ \/ ~Minting(jobs'[j]) /\ born' = born
       \/ /\ jobs'[j].at = "row" /\ jobs'[j].c \in Unborn
          /\ born' = [born EXCEPT ![jobs'[j].c] = "warm"]

LEMMA GoOnTyped ==
  ASSUME TypeInv, NEW j \in Jobs, NEW s \in 0 .. MaxSockets, NEW left \in 0 .. Warm,
         NEW h \in [Ids -> Entries], GoOn(j, NextWarm(s, left, h)), JobsUnchanged,
         warmRow' \in [Ids -> {"none", "open", "claimed", "expired", "failed"}],
         token' \in [Ids -> Keys], held' \in [Ids -> Entries], told' \subseteq Ids,
         down' \in Seq(Frames)
  PROVE  TypeInv' /\ GoneOn(j)
  <1>1. PICK job : job = NextWarm(s, left, h)
    OBVIOUS
  <1>2. /\ job \in JobType /\ job.at \in {"idle", "row"}
        /\ job.at = "row" => job.c \in Unborn /\ job.left > 0
    BY <1>1, NextWarmStands DEF TypeInv
  <1>3. jobs' = [jobs EXCEPT ![j] = job]
        /\ born' = (IF job.at = "row" THEN [born EXCEPT ![job.c] = "warm"] ELSE born)
    BY <1>1 DEF GoOn, Minted
  <1>4. born' \in [Ids -> {"none", "warm", "match"}]
    BY <1>3, TaskKept
  <1>5. TypeInv' /\ jobs'[j] = job /\ \A k \in Jobs \ {j} : jobs'[k] = jobs[k]
    BY <1>2, <1>3, <1>4, TasksTyped
  <1> QED BY <1>2, <1>3, <1>5 DEF GoneOn, Minting, ToRead

LEMMA NodeReadTyped ==
  ASSUME TypeInv, NEW j \in Jobs, NodeRead(j)
  PROVE  TypeInv' /\ GoneOn(j) /\ ~Minting(jobs[j])
  <1>1. JobsUnchanged /\ UNCHANGED <<warmRow, token, held, told, down>> /\ jobs[j].at = "node"
        /\ GoOn(j, NextWarm(jobs[j].sock, Warm, held))
    BY DEF NodeRead
  <1>2. jobs[j].sock \in 0 .. MaxSockets /\ Warm \in 0 .. Warm
    BY TaskKept, FleetAssumption DEF JobType
  <1> QED BY <1>1, <1>2, TaskKept, GoOnTyped DEF Minting

LEMMA OpenWarmTyped ==
  ASSUME TypeInv, NEW j \in Jobs, OpenWarm(j)
  PROVE  /\ TypeInv' /\ jobs[j].c \in Ids
         /\ \A k \in Jobs \ {j} : jobs'[k] = jobs[k]
         /\ jobs'[j].at = "token" /\ jobs'[j].c = jobs[j].c
  <1>1. JobsUnchanged /\ UNCHANGED <<token, held, told, down, born>> /\ jobs[j].at = "row"
        /\ warmRow' = [warmRow EXCEPT ![jobs[j].c] = "open"] /\ jobs' = [jobs EXCEPT ![j].at = "token"]
    BY DEF OpenWarm
  <1>2. jobs[j] \in JobType /\ jobs[j].left > 0 /\ jobs[j].c # None
    BY <1>1, TaskKept DEF JobType
  <1>3. PICK job : job = [jobs[j] EXCEPT !.at = "token"]
    OBVIOUS
  <1>4. job \in JobType /\ job.left > 0 /\ job.at = "token" /\ job.c = jobs[j].c
    BY <1>2, <1>3 DEF JobType
  <1>5. jobs' = [jobs EXCEPT ![j] = job]
    BY <1>1, <1>3
  <1>6. warmRow' \in [Ids -> {"none", "open", "claimed", "expired", "failed"}]
    BY <1>1, TaskKept
  <1>7. TypeInv' /\ jobs'[j] = job /\ \A k \in Jobs \ {j} : jobs'[k] = jobs[k]
    BY <1>1, <1>4, <1>5, <1>6, TaskKept, TasksTyped
  <1>8. jobs[j].c \in Ids
    BY <1>2, FleetAssumption DEF JobType, Ids, None
  <1> QED BY <1>4, <1>7, <1>8

LEMMA UnsentTyped ==
  ASSUME TypeInv, NEW j \in Jobs, Unsent(j)
  PROVE  TypeInv' /\ GoneOn(j) /\ jobs[j].c \in Ids
  <1>1. JobsUnchanged /\ UNCHANGED <<token, held, told, down>> /\ jobs[j].at = "unsent"
        /\ warmRow' = [warmRow EXCEPT ![jobs[j].c] = "failed"]
        /\ GoOn(j, NextWarm(jobs[j].sock, jobs[j].left - 1, held))
    BY DEF Unsent
  <1>2. jobs[j] \in JobType /\ jobs[j].left > 0
    BY <1>1, TaskKept
  <1>3. jobs[j].sock \in 0 .. MaxSockets /\ jobs[j].left - 1 \in 0 .. Warm /\ jobs[j].c \in Ids
    BY <1>1, <1>2, FleetAssumption DEF JobType, Ids, None
  <1>4. warmRow' \in [Ids -> {"none", "open", "claimed", "expired", "failed"}]
    BY <1>1, TaskKept
  <1> QED BY <1>1, <1>3, <1>4, TaskKept, GoOnTyped

LEMMA StartWarmTyped ==
  ASSUME TypeInv, NEW j \in Jobs, StartWarm(j)
  PROVE  /\ TypeInv' /\ jobs[j].c \in Ids
         /\ \/ /\ GoneOn(j) /\ held' = [held EXCEPT ![jobs[j].c] = Holding(NoOne, TRUE, TRUE)]
               /\ \A i \in 1 .. Len(down') : \/ down'[i] = Frame("start", jobs[j].c)
                                             \/ \E k \in 1 .. Len(down) : down'[i] = down[k]
            \/ /\ held' = [held EXCEPT ![jobs[j].c] = Unheld] /\ UNCHANGED <<down, born>>
               /\ \A k \in Jobs \ {j} : jobs'[k] = jobs[k]
               /\ jobs'[j].at = "unsent" /\ jobs'[j].c = jobs[j].c
  <1>1. JobsUnchanged /\ UNCHANGED <<warmRow, told>> /\ jobs[j].at = "token"
        /\ token' = [token EXCEPT ![jobs[j].c] = "warm"]
    BY DEF StartWarm
  <1>2. jobs[j] \in JobType /\ jobs[j].left > 0
    BY <1>1, TaskKept
  <1>3. /\ jobs[j].sock \in 0 .. MaxSockets /\ jobs[j].left - 1 \in 0 .. Warm /\ jobs[j].c \in Ids
        /\ jobs[j].c # None
    BY <1>1, <1>2, FleetAssumption DEF JobType, Ids, None
  <1>4. token' \in [Ids -> Keys]
    BY <1>1, TaskKept DEF Keys
  <1>5. CASE Writable(jobs[j].sock)
    <2>1. /\ held' = [held EXCEPT ![jobs[j].c] = Holding(NoOne, TRUE, TRUE)]
          /\ down' = Sent(jobs[j].sock, <<Frame("start", jobs[j].c)>>)
          /\ GoOn(j, NextWarm(jobs[j].sock, jobs[j].left - 1, held'))
      BY <1>5 DEF StartWarm
    <2>2. PICK h \in [Ids -> Entries] : h = held'
      BY <2>1, HoldingIsEntry, TaskKept
    <2>3. /\ down' \in Seq(Frames)
          /\ \A i \in 1 .. Len(down') : \/ down'[i] = Frame("start", jobs[j].c)
                                        \/ \E k \in 1 .. Len(down) : down'[i] = down[k]
      BY <1>3, <2>1, SentStands
    <2>4. TypeInv' /\ GoneOn(j)
      BY <1>1, <1>3, <1>4, <2>1, <2>2, <2>3, TaskKept, GoOnTyped
    <2> QED BY <1>3, <2>1, <2>3, <2>4
  <1>6. CASE ~Writable(jobs[j].sock)
    <2>1. /\ held' = [held EXCEPT ![jobs[j].c] = Unheld] /\ UNCHANGED <<down, born>>
          /\ jobs' = [jobs EXCEPT ![j].at = "unsent"]
      BY <1>6 DEF StartWarm
    <2>2. PICK job : job = [jobs[j] EXCEPT !.at = "unsent"]
      OBVIOUS
    <2>3. job \in JobType /\ job.left > 0 /\ job.at = "unsent" /\ job.c = jobs[j].c
      BY <1>2, <1>3, <2>2 DEF JobType
    <2>4. jobs' = [jobs EXCEPT ![j] = job]
      BY <2>1, <2>2
    <2>5. held' \in [Ids -> Entries]
      BY <2>1, UnheldIsEntry, TaskKept
    <2>6. TypeInv' /\ jobs'[j] = job /\ \A k \in Jobs \ {j} : jobs'[k] = jobs[k]
      BY <1>1, <1>4, <2>1, <2>3, <2>4, <2>5, TaskKept, TasksTyped
    <2> QED BY <1>3, <2>1, <2>3, <2>6
  <1> QED BY <1>5, <1>6

LEMMA RestartTyped ==
  ASSUME TypeInv, Restart
  PROVE  TypeInv'
  <1>1. /\ UNCHANGED <<ledger, mine, previous, broken, down, inbox, dialled, dial, welcomed, born, box,
                       busy>>
        /\ held' = [c \in Ids |-> Unheld] /\ told' = {} /\ jobs' = [k \in Jobs |-> IdleJob]
        /\ reaping' = None /\ node' = None /\ view' = [s \in Sockets |-> Nothing]
        /\ stage' = [s \in Sockets |-> IF stage[s] = "none" THEN "none" ELSE "closed"]
        /\ shut' = {s \in Sockets : stage[s] # "none"} /\ up' = [s \in Sockets |-> <<>>]
        /\ bound' = [c \in Ids |-> "none"]
    BY DEF Restart
  <1>2. mishaps' \in 0 .. MaxMishaps
    BY MishapTyped DEF Restart
  <1>3. WalkType'
    <2>1. /\ walk \in [Walks -> {"idle", "row", "given", "named", "moving", "configured",
                                  "playing", "ending", "cut", "closing", "done", "lost"}]
          /\ mine \in [Walks -> 0 .. MaxIds]
      BY DEF TypeInv, TypeOK, WalkType
    <2>2. walk' = [w \in Walks |->
                  CASE walk[w] \in {"row", "given", "named", "moving", "configured",
                                    "closing"} -> "lost"
                    [] walk[w] = "ending" -> "cut"
                    [] OTHER -> walk[w]]
      BY DEF Restart
    <2> QED BY <1>1, <2>1, <2>2 DEF WalkType
  <1>4. LedgerType'
    BY <1>1 DEF TypeInv, TypeOK, LedgerType, ledger
  <1>5. ProviderType'
    BY <1>1, IdleStands, UnheldIsEntry, FleetAssumption DEF ProviderType, None
  <1>6. SessionType'
    <2>1. /\ stage \in [Sockets -> {"none", "hello", "greeting", "open", "closed"}]
          /\ previous \in [Sockets -> 0 .. MaxSockets]
      BY DEF TypeInv, TypeOK, SessionType
    <2>2. node' \in 0 .. MaxSockets
      BY <1>1, FleetAssumption DEF None
    <2>3. view' \in [Sockets -> Containers]
      BY <1>1 DEF Nothing, Containers
    <2>4. stage' \in [Sockets -> {"none", "hello", "greeting", "open", "closed"}]
      BY <1>1
    <2> QED BY <1>1, <2>1, <2>2, <2>3, <2>4 DEF SessionType
  <1>7. WireType'
    <2>1. up' \in [Sockets -> Seq(Containers)]
      BY <1>1
    <2> QED BY <1>1, <2>1 DEF TypeInv, TypeOK, WireType
  <1>8. AgentType'
    <2>1. bound' \in [Ids -> Keys]
      BY <1>1 DEF Keys
    <2> QED BY <1>1, <1>2, <2>1 DEF TypeInv, TypeOK, AgentType
  <1>9. HelloInv'
    BY <1>1 DEF HelloInv
  <1> QED BY <1>3, <1>4, <1>5, <1>6, <1>7, <1>8, <1>9 DEF TypeInv, TypeOK

-----------------------------------------------------------------------------
(* Where a container is known: the steps.                                  *)

LEMMA FleetInit == Init => FleetInv
  <1> SUFFICES ASSUME Init PROVE FleetInv
    OBVIOUS
  <1>1. \A c \in Ids : ~HasRow(c) /\ Given(c) = {} /\ ~Recorded(c) /\ ~Stopping(c)
    BY FleetAssumption DEF Init, HasRow, Given, Recorded, Stopping, Ids, None
  <1>2. WalkInv
    BY DEF Init, WalkInv
  <1>3. LedgerInv
    BY <1>1 DEF Init, LedgerInv, Unheld
  <1>4. MintInv
    BY DEF Init, MintInv, IdleJob, ToRead, Minting, None
  <1>5. \A c \in Ids : Unstarted(c) => Hidden(c)
    <2>1. \A c \in Ids : Unstarted(c) => c \notin Foreign
      BY DEF Init, Unstarted
    <2> QED BY <2>1, FleetAssumption DEF Init, Hidden, Nothing, Ids, None
  <1>6. HiddenInv
    BY <1>1, <1>5 DEF HiddenInv
  <1> QED BY <1>2, <1>3, <1>4, <1>6 DEF FleetInv

\* A task that is quiet mints and reads no more than it did.
LEMMA QuietMints ==
  ASSUME QuietJobs
  PROVE  /\ \A c \in Ids : MintedBy(c)' = MintedBy(c)
         /\ \A j \in Jobs : /\ Minting(jobs'[j]) => jobs'[j] = jobs[j]
                            /\ ToRead(jobs'[j]) \subseteq ToRead(jobs[j])
  BY DEF QuietJobs, MintedBy, Minting, ToRead

\* Rows are never taken back, nor is what a task has minted.
RowsGrow == \A c \in Ids : HasRow(c) => HasRow(c)'
MintsKept ==
    \A c \in Ids : /\ warmRow[c] # "none" => warmRow'[c] # "none"
                   /\ MintedBy(c) # {} => \/ warmRow'[c] = warmRow[c]
                                          \/ warmRow[c] # "none" /\ warmRow'[c] = "expired"

LEMMA ReadIsTyped ==
  ASSUME TypeInv, NEW j \in Jobs, NEW r \in ToRead(jobs[j])
  PROVE  r \in Rows /\ r.c \in Ids /\ r.own \in Walks \cup {NoOne}
  <1>1. jobs[j] \in JobType /\ jobs[j].at = "find"
    BY TaskKept DEF ToRead
  <1>2. jobs[j].c \in Ids /\ jobs[j].own \in Walks \cup {NoOne} /\ jobs[j].rows \in SUBSET Rows
    <2>1. jobs[j].c # None /\ jobs[j].c \in 0 .. MaxIds /\ jobs[j].own \in Walks \cup {NoOne}
          /\ jobs[j].rows \in SUBSET Rows
      BY <1>1 DEF JobType, Rows
    <2> QED BY <2>1, FleetAssumption DEF Ids, None
  <1> QED BY <1>1, <1>2 DEF ToRead, Rows

LEMMA QuietMintInv ==
  ASSUME TypeInv, MintInv, QuietJobs, RowsGrow, MintsKept,
         \A c \in Ids : born[c] = "warm" => born'[c] = "warm", reaping' \in {reaping, None}
  PROVE  MintInv'
  <1>1. reaping' # None => warmRow'[reaping'] # "none"
    <2>1. reaping # None => reaping \in Ids
      BY FleetAssumption DEF TypeInv, TypeOK, ProviderType, Ids, None
    <2> QED BY <2>1 DEF MintInv, MintsKept
  <1>2. ASSUME NEW j \in Jobs, NEW r \in ToRead(jobs'[j]) PROVE HasRow(r.c)'
    BY <1>2, QuietMints, ReadIsTyped DEF MintInv, RowsGrow
  <1>3. ASSUME NEW j \in Jobs, Minting(jobs'[j])
        PROVE  /\ jobs'[j].c \in Ids \ Foreign /\ born'[jobs'[j].c] = "warm"
               /\ {k \in Jobs : Minting(jobs'[k]) /\ jobs'[k].c = jobs'[j].c} = {j}
               /\ IF jobs'[j].at = "row" THEN warmRow'[jobs'[j].c] = "none"
                  ELSE warmRow'[jobs'[j].c] \in {"open", "expired"}
    <2>1. jobs'[j] = jobs[j] /\ Minting(jobs[j])
      BY <1>3, QuietMints
    <2>2. /\ jobs[j].c \in Ids \ Foreign /\ born[jobs[j].c] = "warm"
          /\ MintedBy(jobs[j].c) = {j}
          /\ IF jobs[j].at = "row" THEN warmRow[jobs[j].c] = "none"
             ELSE warmRow[jobs[j].c] \in {"open", "expired"}
      BY <2>1 DEF MintInv
    <2>3. PICK c \in Ids : c = jobs[j].c
      BY <2>2
    <2>4. MintedBy(c)' = {j}
      BY <2>2, <2>3, QuietMints
    <2>5. {k \in Jobs : Minting(jobs'[k]) /\ jobs'[k].c = jobs'[j].c} = {j}
      BY <2>1, <2>3, <2>4 DEF MintedBy
    <2> QED BY <2>1, <2>2, <2>3, <2>5 DEF MintsKept
  <1> QED BY <1>1, <1>2, <1>3 DEF MintInv, MintedBy

\* A container is hidden as long as nothing is said of it.
LEMMA ElsewhereHides ==
  ASSUME Elsewhere, NEW c \in Ids, Hidden(c),
         \A i \in 1 .. Len(down') : \/ down'[i] # Frame("start", c)
                                    \/ \E k \in 1 .. Len(down) : down'[i] = down[k]
  PROVE  Hidden(c)'
  BY DEF Elsewhere, session, Hidden

LEMMA HiddenStays ==
  ASSUME HiddenInv, \A c \in Ids : Unstarted(c)' => Unstarted(c),
         \A c \in Ids : Unstarted(c) /\ Unstarted(c)' /\ Hidden(c) /\ Given(c) = {} =>
             Hidden(c)' /\ Given(c)' = {}
  PROVE  HiddenInv'
  BY DEF HiddenInv

LEMMA WireFleet ==
  ASSUME TypeInv, FleetInv, WireMove
  PROVE  FleetInv'
  <1>1. /\ UNCHANGED <<warmRow, row, token, walk, mine, held, reaping, born>> /\ QuietJobs
        /\ \A c \in Ids : Hidden(c) => Hidden(c)'
        /\ \A c \in Ids : Stopping(c)' => Stopping(c)
    BY DEF WireMove, Stopping
  <1>2. \A c \in Ids : /\ HasRow(c)' = HasRow(c) /\ Given(c)' = Given(c) /\ Recorded(c)' = Recorded(c)
                       /\ MintedBy(c)' = MintedBy(c) /\ Unstarted(c)' = Unstarted(c)
    BY <1>1, QuietMints DEF HasRow, Given, Recorded, Unstarted
  <1>3. WalkInv'
    BY <1>1 DEF FleetInv, WalkInv
  <1>4. LedgerInv'
    BY <1>1, <1>2 DEF FleetInv, LedgerInv
  <1>5. MintInv'
    BY <1>1, <1>2, QuietMintInv DEF FleetInv, RowsGrow, MintsKept
  <1>6. HiddenInv'
    BY <1>1, <1>2, HiddenStays DEF FleetInv
  <1> QED BY <1>3, <1>4, <1>5, <1>6 DEF FleetInv

\* What may become of a container's row, its entry and its purpose in one step.
LedgerStep(c) ==
    /\ Recorded(c) => Recorded(c)'
    /\ Recorded(c)' => Recorded(c) \/ (c \notin Foreign /\ (born'[c] = "match" \/ warmRow'[c] # "none"))
    /\ born[c] # "none" => born'[c] = born[c]
    /\ warmRow'[c] = warmRow[c] \/ (warmRow'[c] # "none" /\ born[c] = "warm")
    /\ \/ held'[c] = held[c] \/ held'[c] = Unheld
       \/ held'[c].known /\ Recorded(c)' /\ (held'[c].moving => born'[c] = "warm")
    /\ Stopping(c)' => Stopping(c) \/ Recorded(c)

LEMMA LedgerSteps ==
  ASSUME LedgerInv, \A c \in Ids : LedgerStep(c)
  PROVE  LedgerInv'
  <1> SUFFICES ASSUME NEW c \in Ids
               PROVE  /\ warmRow'[c] # "none" => born'[c] = "warm"
                      /\ Recorded(c)' => c \notin Foreign /\ (born'[c] = "match" \/ warmRow'[c] # "none")
                      /\ c \in Foreign => born'[c] # "none"
                      /\ held'[c].known => Recorded(c)'
                      /\ held'[c].moving => born'[c] = "warm"
                      /\ ~held'[c].known => held'[c] = Unheld
                      /\ Stopping(c)' => Recorded(c)'
    BY DEF LedgerInv
  <1>1. /\ warmRow[c] # "none" => born[c] = "warm"
        /\ Recorded(c) => c \notin Foreign /\ (born[c] = "match" \/ warmRow[c] # "none")
        /\ c \in Foreign => born[c] # "none"
        /\ held[c].known => Recorded(c)
        /\ held[c].moving => born[c] = "warm"
        /\ ~held[c].known => held[c] = Unheld
        /\ Stopping(c) => Recorded(c)
    BY DEF LedgerInv
  <1>2. LedgerStep(c)
    OBVIOUS
  <1> QED BY <1>1, <1>2 DEF LedgerStep, Unheld

\* The steps of a walk and of the reaper: they mint nothing, and tell nothing to a container nobody has.
LEMMA QuietFleet ==
  ASSUME TypeInv, FleetInv, Elsewhere, QuietJobs, reaping' \in {reaping, None}, WalkInv', RowsGrow,
         MintsKept,
         \A c \in Ids : LedgerStep(c),
         \A c \in Ids : Unstarted(c)' => Unstarted(c),
         \A c \in Ids : Unstarted(c) /\ Unstarted(c)' /\ Hidden(c) /\ Given(c) = {} =>
             /\ Given(c)' = {}
             /\ \A i \in 1 .. Len(down') : \/ down'[i] # Frame("start", c)
                                           \/ \E k \in 1 .. Len(down) : down'[i] = down[k]
  PROVE  FleetInv'
  <1>1. LedgerInv'
    BY LedgerSteps DEF FleetInv
  <1>2. MintInv'
    <2>1. \A c \in Ids : born[c] = "warm" => born'[c] = "warm"
      BY DEF LedgerStep
    <2> QED BY <2>1, QuietMintInv DEF FleetInv
  <1>3. HiddenInv'
    BY HiddenStays, ElsewhereHides DEF FleetInv
  <1> QED BY <1>1, <1>2, <1>3 DEF FleetInv

\* Nothing changes of the provider, nor of the containers the walks have.
LEMMA SameFleet ==
  ASSUME TypeInv, FleetInv, Elsewhere, UNCHANGED <<warmRow, mine, held, jobs, reaping, down, born>>,
         WalkInv', RowsGrow,
         \A c \in Ids : HasRow(c)' => Recorded(c),
         \A c \in Ids : token[c] # "none" => token'[c] # "none"
  PROVE  FleetInv'
  <1>1. \A c \in Ids : Given(c)' = Given(c) /\ MintedBy(c)' = MintedBy(c) /\ Stopping(c)' = Stopping(c)
    BY DEF Given, MintedBy, Minting, Stopping
  <1>2. \A c \in Ids : Recorded(c)' = Recorded(c)
    BY <1>1 DEF Recorded, RowsGrow
  <1>3. \A c \in Ids : LedgerStep(c)
    BY <1>1, <1>2 DEF LedgerStep
  <1>4. \A c \in Ids : Unstarted(c)' => Unstarted(c)
    BY <1>1 DEF Unstarted
  <1>5. QuietJobs /\ MintsKept
    BY DEF QuietJobs, MintsKept
  <1> QED BY <1>1, <1>3, <1>4, <1>5, QuietFleet

\* A walk that was given a container has one.
LEMMA MineIsMinted ==
  ASSUME TypeInv, FleetInv, NEW w \in Walks, walk[w] \notin {"idle", "row", "done", "lost"}
  PROVE  mine[w] \in Ids
  <1>1. mine[w] \in 0 .. MaxIds
    BY DEF TypeInv, TypeOK, WalkType
  <1>2. mine[w] # None
    BY DEF FleetInv, WalkInv
  <1> QED BY <1>1, <1>2, FleetAssumption DEF Ids, None

LEMMA RelinkFleet ==
  ASSUME TypeInv, FleetInv, NEW c \in Ids, Relink(c)
  PROVE  FleetInv'
  <1>1. Elsewhere /\ UNCHANGED <<ledger, walks, held, jobs, reaping, down, born>>
    BY DEF Relink, provider, Elsewhere, session, wire
  <1>2. WalkInv' /\ RowsGrow /\ \A d \in Ids : HasRow(d)' => Recorded(d)
    BY <1>1 DEF FleetInv, WalkInv, RowsGrow, HasRow, Recorded, ledger, walks
  <1> QED BY <1>1, <1>2, SameFleet DEF ledger, walks

LEMMA RowsFleet ==
  ASSUME TypeInv, FleetInv, NEW w \in Walks,
         OpenRow(w) \/ Rejected(w) \/ NameServer(w) \/ Configure(w) \/ Rebind(w) \/ CloseRow(w)
  PROVE  FleetInv'
  <1>1. Elsewhere /\ UNCHANGED <<warmRow, mine, held, jobs, reaping, down, born>>
    BY WalkElsewhere DEF OpenRow, Rejected, NameServer, Configure, Rebind, CloseRow, ledger, provider,
                         session, wire, Elsewhere
  <1>2. /\ walk \in [Walks -> {"idle", "row", "given", "named", "moving", "configured",
                               "playing", "ending", "cut", "closing", "done", "lost"}]
        /\ mine \in [Walks -> 0 .. MaxIds] /\ row \in [Walks -> [open : BOOLEAN, server : 0 .. MaxIds]]
        /\ token \in [Ids -> Keys]
    BY DEF TypeInv, TypeOK, WalkType, LedgerType
  <1>3. WalkInv
    BY DEF FleetInv
  <1>4. /\ \A v \in Walks \ {w} : row'[v] = row[v] /\ walk'[v] = walk[v]
        /\ row'[w].server = row[w].server \/ (row[w].server = None /\ row'[w].server = mine[w])
    BY <1>2, <1>3 DEF OpenRow, Rejected, NameServer, Configure, Rebind, CloseRow, At, WalkInv, ledger
  <1>5. WalkInv'
    <2>1. CASE OpenRow(w)
      BY <1>1, <1>2, <1>3, <1>4, <2>1 DEF OpenRow, At, WalkInv
    <2>2. CASE Rejected(w)
      BY <1>1, <1>2, <1>3, <1>4, <2>2 DEF Rejected, At, WalkInv
    <2>3. CASE NameServer(w)
      BY <1>1, <1>2, <1>3, <1>4, <2>3 DEF NameServer, At, WalkInv
    <2>4. CASE Configure(w)
      <3>1. held[mine[w]].moving => born[mine[w]] = "warm"
        <4>1. mine[w] \in Ids
          BY <2>4, MineIsMinted DEF Configure
        <4> QED BY <4>1 DEF FleetInv, LedgerInv
      <3> QED BY <1>1, <1>2, <1>3, <1>4, <2>4, <3>1 DEF Configure, WalkInv
    <2>5. CASE Rebind(w)
      BY <1>1, <1>2, <1>3, <1>4, <2>5 DEF Rebind, At, WalkInv, ledger
    <2>6. CASE CloseRow(w)
      BY <1>1, <1>2, <1>3, <1>4, <2>6 DEF CloseRow, WalkInv
    <2> QED BY <2>1, <2>2, <2>3, <2>4, <2>5, <2>6
  <1>6. RowsGrow /\ \A c \in Ids : HasRow(c)' => Recorded(c)
    <2>1. \A c \in Ids : HasRow(c) => HasRow(c)'
      <3>1. \A c \in Ids : c # None
        BY FleetAssumption DEF Ids, None
      <3> QED BY <1>1, <1>4, <3>1 DEF HasRow
    <2>2. \A c \in Ids : HasRow(c)' => Recorded(c)
      BY <1>1, <1>4 DEF HasRow, Recorded, Given
    <2> QED BY <2>1, <2>2 DEF RowsGrow
  <1>7. \A c \in Ids : token[c] # "none" => token'[c] # "none"
    <2>1. CASE token' = token
      BY <2>1
    <2>2. CASE token' # token
      <3>1. Configure(w)
        BY <2>2 DEF OpenRow, Rejected, NameServer, Rebind, CloseRow, ledger
      <3>2. token' = [token EXCEPT ![mine[w]] = w]
        BY <2>2, <3>1 DEF Configure
      <3> QED BY <1>2, <3>2, FleetAssumption
    <2> QED BY <2>1, <2>2
  <1> QED BY <1>1, <1>5, <1>6, <1>7, SameFleet

\* A container some node's report shows was started.
LEMMA ReportedIsStarted ==
  ASSUME TypeInv, FleetInv, NEW s \in Sockets, NEW c \in Ids, view[s][c] # "none"
  PROVE  ~Unstarted(c)
  BY DEF FleetInv, HiddenInv, Hidden

LEMMA ClaimFleet ==
  ASSUME TypeInv, FleetInv, NEW w \in Walks, Claim(w)
  PROVE  FleetInv'
  <1>1. /\ Elsewhere /\ UNCHANGED <<warmRow, row, token, jobs, reaping, down, born>>
        /\ walk[w] = "row" /\ walk' = [walk EXCEPT ![w] = "given"] /\ node # None
    BY WalkElsewhere DEF Claim, At, ledger
  <1>2. PICK c \in FreeWarm : /\ mine' = [mine EXCEPT ![w] = c]
                              /\ held' = [held EXCEPT ![c].owner = w, ![c].moving = TRUE]
    BY DEF Claim
  <1>3. /\ walk \in [Walks -> {"idle", "row", "given", "named", "moving", "configured",
                               "playing", "ending", "cut", "closing", "done", "lost"}]
        /\ mine \in [Walks -> 0 .. MaxIds] /\ held \in [Ids -> Entries]
    BY DEF TypeInv, TypeOK, WalkType, ProviderType
  <1>4. /\ c \in Ids /\ held[c].known /\ born[c] = "warm" /\ view[node][c] # "none" /\ c # None
        /\ c \in 0 .. MaxIds
    BY FleetAssumption DEF FreeWarm, Held, Ids, None
  <1>5. ~Unstarted(c)
    <2>1. node \in Sockets
      BY <1>1, FleetAssumption DEF TypeInv, TypeOK, SessionType, Sockets, None
    <2> QED BY <1>4, <2>1, ReportedIsStarted
  <1>6. mine[w] = None
    BY <1>1 DEF FleetInv, WalkInv
  <1>7. \A v \in Walks \ {w} : mine'[v] = mine[v] /\ walk'[v] = walk[v]
    BY <1>1, <1>2, <1>3
  <1>8. mine'[w] = c /\ walk'[w] = "given"
    BY <1>1, <1>2, <1>3
  <1>9. \A d \in Ids : /\ HasRow(d)' = HasRow(d) /\ MintedBy(d)' = MintedBy(d)
                       /\ Stopping(d)' = Stopping(d) /\ Unstarted(d)' = Unstarted(d)
    BY <1>1 DEF HasRow, MintedBy, Minting, Stopping, Unstarted
  <1>10. /\ \A d \in Ids \ {c} : Given(d)' = Given(d)
         /\ Given(c)' = Given(c) \cup {w}
    <2>1. \A d \in Ids : d # None
      BY FleetAssumption DEF Ids, None
    <2> QED BY <1>4, <1>6, <1>7, <1>8, <2>1 DEF Given
  <1>11. Recorded(c) /\ Recorded(c)'
    BY <1>4, <1>10 DEF FleetInv, LedgerInv, Recorded
  <1>12. WalkInv'
    <2>1. row[w].server = None
      BY <1>6 DEF FleetInv, WalkInv
    <2> QED BY <1>1, <1>4, <1>7, <1>8, <2>1 DEF FleetInv, WalkInv
  <1>13. \A d \in Ids : LedgerStep(d)
    <2>1. \A d \in Ids : Recorded(d)' = Recorded(d)
      BY <1>9, <1>10, <1>11 DEF Recorded
    <2>2. \A d \in Ids \ {c} : held'[d] = held[d]
      BY <1>2, <1>3
    <2>3. held'[c].known
      BY <1>2, <1>3, <1>4 DEF Entries
    <2> QED BY <1>1, <1>4, <1>9, <1>11, <2>1, <2>2, <2>3 DEF LedgerStep
  <1>14. QuietJobs /\ RowsGrow /\ MintsKept
    BY <1>1, <1>9 DEF QuietJobs, RowsGrow, MintsKept
  <1> QED BY <1>1, <1>5, <1>9, <1>10, <1>12, <1>13, <1>14, QuietFleet

LEMMA ColdFleet ==
  ASSUME TypeInv, FleetInv, NEW w \in Walks, Cold(w)
  PROVE  FleetInv'
  <1>1. /\ Elsewhere /\ UNCHANGED <<warmRow, row, token, jobs, reaping, down>>
        /\ walk[w] = "row" /\ walk' = [walk EXCEPT ![w] = "given"]
    BY WalkElsewhere DEF Cold, At, ledger
  <1>2. PICK c \in Unborn : /\ mine' = [mine EXCEPT ![w] = c]
                            /\ held' = [held EXCEPT ![c] = Holding(w, FALSE, FALSE)]
                            /\ born' = [born EXCEPT ![c] = "match"]
    BY ColdTyped DEF Cold
  <1>3. /\ walk \in [Walks -> {"idle", "row", "given", "named", "moving", "configured",
                               "playing", "ending", "cut", "closing", "done", "lost"}]
        /\ mine \in [Walks -> 0 .. MaxIds] /\ held \in [Ids -> Entries]
        /\ born \in [Ids -> {"none", "warm", "match"}]
    BY DEF TypeInv, TypeOK, WalkType, ProviderType, AgentType
  <1>4. c \in Ids /\ born[c] = "none" /\ c # None /\ c \notin Foreign
    BY FleetAssumption DEF Unborn, Ids, None, FleetInv, LedgerInv
  <1>5. mine[w] = None
    BY <1>1 DEF FleetInv, WalkInv
  <1>6. \A v \in Walks \ {w} : mine'[v] = mine[v] /\ walk'[v] = walk[v]
    BY <1>1, <1>2, <1>3
  <1>7. mine'[w] = c /\ walk'[w] = "given" /\ born'[c] = "match"
    BY <1>1, <1>2, <1>3, <1>4
  <1>8. \A d \in Ids \ {c} : born'[d] = born[d] /\ held'[d] = held[d]
    BY <1>2, <1>3
  <1>9. \A d \in Ids : /\ HasRow(d)' = HasRow(d) /\ MintedBy(d)' = MintedBy(d)
                       /\ Stopping(d)' = Stopping(d)
    BY <1>1 DEF HasRow, MintedBy, Minting, Stopping
  <1>10. /\ \A d \in Ids \ {c} : Given(d)' = Given(d)
         /\ Given(c)' = Given(c) \cup {w}
    <2>1. \A d \in Ids : d # None
      BY FleetAssumption DEF Ids, None
    <2> QED BY <1>4, <1>5, <1>6, <1>7, <2>1 DEF Given
  <1>11. WalkInv'
    <2>1. row[w].server = None
      BY <1>5 DEF FleetInv, WalkInv
    <2>2. \A v \in Walks : walk[v] = "moving" => born'[mine[v]] = "warm"
      <3> SUFFICES ASSUME NEW v \in Walks, walk[v] = "moving" PROVE born'[mine[v]] = "warm"
        OBVIOUS
      <3>1. mine[v] \in Ids /\ born[mine[v]] = "warm"
        BY MineIsMinted DEF FleetInv, WalkInv
      <3> QED BY <1>4, <1>8, <3>1
    <2>3. \A v \in Walks \ {w} :
            /\ walk'[v] \in {"idle", "row"} => mine'[v] = None
            /\ row'[v].server \in {None, mine'[v]}
            /\ walk'[v] = "given" => row'[v].server = None
            /\ walk'[v] \notin {"idle", "row", "done", "lost"} => mine'[v] # None
            /\ walk'[v] = "moving" => born'[mine'[v]] = "warm"
      BY <1>1, <1>6, <2>2 DEF FleetInv, WalkInv
    <2> QED BY <1>1, <1>4, <1>7, <2>1, <2>3 DEF WalkInv
  <1>12. \A d \in Ids : LedgerStep(d)
    <2>1. ASSUME NEW d \in Ids \ {c} PROVE LedgerStep(d)
      <3>1. Recorded(d)' = Recorded(d)
        BY <1>9, <1>10 DEF Recorded
      <3> QED BY <1>1, <1>8, <1>9, <3>1 DEF LedgerStep
    <2>2. LedgerStep(c)
      <3>1. held'[c].known /\ ~held'[c].moving
        BY <1>2, <1>3, <1>4 DEF Holding
      <3>2. Recorded(c)'
        BY <1>10 DEF Recorded
      <3> QED BY <1>1, <1>4, <1>7, <1>9, <3>1, <3>2 DEF LedgerStep, FleetInv, LedgerInv
    <2> QED BY <2>1, <2>2
  <1>13. QuietJobs /\ RowsGrow /\ MintsKept
    BY <1>1, <1>9 DEF QuietJobs, RowsGrow, MintsKept
  <1>14. \A d \in Ids : Unstarted(d)' => Unstarted(d) /\ d # c
    BY <1>1, <1>4, <1>7, <1>8, <1>9 DEF Unstarted
  <1> QED BY <1>1, <1>10, <1>11, <1>12, <1>13, <1>14, QuietFleet

LEMMA CloseWarmFleet ==
  ASSUME TypeInv, FleetInv, NEW w \in Walks, CloseWarm(w)
  PROVE  FleetInv'
  <1>1. /\ Elsewhere /\ UNCHANGED <<row, token, mine, jobs, reaping, down, born>>
        /\ walk[w] = "moving" /\ walk' = [walk EXCEPT ![w] = "configured"]
        /\ warmRow' = [warmRow EXCEPT ![mine[w]] = "claimed"]
        /\ held' = [held EXCEPT ![mine[w]].moving = FALSE]
    BY WalkElsewhere DEF CloseWarm, At
  <1>2. PICK c \in Ids : c = mine[w]
    BY <1>1, MineIsMinted
  <1>3. /\ walk \in [Walks -> {"idle", "row", "given", "named", "moving", "configured",
                               "playing", "ending", "cut", "closing", "done", "lost"}]
        /\ held \in [Ids -> Entries]
        /\ warmRow \in [Ids -> {"none", "open", "claimed", "expired", "failed"}]
    BY DEF TypeInv, TypeOK, WalkType, ProviderType, LedgerType
  <1>4. born[c] = "warm" /\ warmRow[c] # "none" /\ ~Unstarted(c)
    <2>1. w \in Given(c)
      BY <1>2 DEF Given
    <2>2. Recorded(c)
      BY <2>1 DEF Recorded
    <2>3. born[c] = "warm"
      BY <1>1, <1>2 DEF FleetInv, WalkInv
    <2> QED BY <2>1, <2>2, <2>3 DEF FleetInv, LedgerInv, HiddenInv
  <1>5. /\ \A d \in Ids \ {c} : warmRow'[d] = warmRow[d] /\ held'[d] = held[d]
        /\ warmRow'[c] = "claimed" /\ held'[c].known = held[c].known
    BY <1>1, <1>2, <1>3 DEF Entries
  <1>6. \A d \in Ids : /\ HasRow(d)' = HasRow(d) /\ MintedBy(d)' = MintedBy(d)
                       /\ Stopping(d)' = Stopping(d) /\ Given(d)' = Given(d)
    BY <1>1, <1>4, <1>5 DEF HasRow, MintedBy, Minting, Stopping, Given
  <1>7. WalkInv'
    BY <1>1, <1>3 DEF FleetInv, WalkInv
  <1>8. \A d \in Ids : LedgerStep(d)
    <2>1. held'[c] = held[c] \/ held'[c].known
      <3>1. CASE held[c].known
        BY <1>5, <3>1
      <3>2. CASE ~held[c].known
        <4>1. held[c] = Unheld
          BY <3>2 DEF FleetInv, LedgerInv
        <4>2. held'[c] = [held[c] EXCEPT !.moving = FALSE]
          BY <1>1, <1>2, <1>3
        <4>3. PICK e : e = [Unheld EXCEPT !.moving = FALSE]
          OBVIOUS
        <4>4. e = [known |-> FALSE, owner |-> NoOne, moving |-> FALSE, token |-> FALSE, warm |-> FALSE]
          BY <4>3 DEF Unheld
        <4> QED BY <4>1, <4>2, <4>3, <4>4 DEF Unheld
      <3> QED BY <3>1, <3>2
    <2>2. \A d \in Ids : Recorded(d)' = Recorded(d)
      BY <1>6 DEF Recorded
    <2>3. held[c].known => Recorded(c)
      BY DEF FleetInv, LedgerInv
    <2> QED BY <1>1, <1>4, <1>5, <1>6, <2>1, <2>2, <2>3 DEF LedgerStep
  <1>9. QuietJobs /\ RowsGrow
    BY <1>1, <1>6 DEF QuietJobs, RowsGrow
  <1>10. MintsKept
    <2>1. MintedBy(c) = {}
      <3> SUFFICES ASSUME NEW j \in MintedBy(c) PROVE FALSE
        OBVIOUS
      <3>1. born[c] = "warm" /\ c \notin Foreign
        BY <1>4 DEF FleetInv, MintInv, MintedBy
      <3> QED BY <1>4, <3>1 DEF Unstarted
    <2> QED BY <1>5, <2>1 DEF MintsKept
  <1>11. \A d \in Ids : Unstarted(d)' => Unstarted(d)
    BY <1>1, <1>5, <1>6 DEF Unstarted
  <1> QED BY <1>1, <1>6, <1>7, <1>8, <1>9, <1>10, <1>11, QuietFleet

LEMMA StartColdFleet ==
  ASSUME TypeInv, FleetInv, NEW w \in Walks, StartCold(w)
  PROVE  FleetInv'
  <1>1. /\ Elsewhere /\ UNCHANGED <<warmRow, row, mine, held, jobs, reaping, born>>
        /\ walk[w] = "configured" /\ walk' = [walk EXCEPT ![w] = "playing"]
        /\ token' \in {token, [token EXCEPT ![mine[w]] = w]}
    BY WalkElsewhere DEF StartCold, At
  <1>2. PICK c \in Ids : c = mine[w]
    BY <1>1, MineIsMinted
  <1>3. \A i \in 1 .. Len(down') : \/ down'[i] = Frame("start", c)
                                   \/ \E k \in 1 .. Len(down) : down'[i] = down[k]
    BY <1>2, StartColdTyped
  <1>4. /\ walk \in [Walks -> {"idle", "row", "given", "named", "moving", "configured",
                               "playing", "ending", "cut", "closing", "done", "lost"}]
        /\ token \in [Ids -> Keys]
    BY DEF TypeInv, TypeOK, WalkType, LedgerType
  <1>5. \A d \in Ids : HasRow(d)' = HasRow(d) /\ MintedBy(d)' = MintedBy(d) /\ Given(d)' = Given(d)
    BY <1>1 DEF HasRow, MintedBy, Minting, Given
  <1>6. WalkInv'
    BY <1>1, <1>4 DEF FleetInv, WalkInv
  <1>7. \A d \in Ids : LedgerStep(d)
    <2>1. \A d \in Ids : Stopping(d)' => Stopping(d)
      BY <1>3 DEF Stopping, Frame
    <2> QED BY <1>1, <1>5, <2>1 DEF LedgerStep, Recorded
  <1>8. QuietJobs /\ RowsGrow /\ MintsKept
    BY <1>1, <1>5 DEF QuietJobs, RowsGrow, MintsKept
  <1>9. \A d \in Ids : Unstarted(d)' => Unstarted(d)
    BY <1>1, <1>2, <1>4, <1>5, FleetAssumption DEF Unstarted
  <1>10. ASSUME NEW d \in Ids, Given(d) = {}, NEW i \in 1 .. Len(down')
         PROVE  \/ down'[i] # Frame("start", d)
                \/ \E k \in 1 .. Len(down) : down'[i] = down[k]
    <2>1. d # c
      BY <1>2, <1>10 DEF Given
    <2> QED BY <1>3, <2>1 DEF Frame
  <1> QED BY <1>1, <1>5, <1>6, <1>7, <1>8, <1>9, <1>10, QuietFleet

\* What a deallocation leaves known.
LEMMA DeallocateFleet ==
  ASSUME TypeInv, FleetInv, NEW c \in Ids, Deallocated(c), Elsewhere, UNCHANGED <<row, token, mine, born>>,
         WalkInv', reaping' \in {reaping, None}, MintsKept,
         \A d \in Ids : \/ warmRow'[d] = warmRow[d]
                        \/ warmRow[d] # "none" /\ warmRow'[d] = "expired"
  PROVE  FleetInv'
  <1>1. held \in [Ids -> Entries]
    BY DEF TypeInv, TypeOK, ProviderType
  <1>2. QuietJobs /\ \A d \in Ids : held'[d] = held[d] \/ held'[d] = Unheld
    BY <1>1 DEF Deallocated
  <1>3. \A d \in Ids : Stopping(d)' => Stopping(d) \/ Recorded(d)
    <2> SUFFICES ASSUME NEW d \in Ids, Stopping(d)' PROVE Stopping(d) \/ Recorded(d)
      OBVIOUS
    <2>1. PICK i \in 1 .. Len(down') : down'[i] = Frame("stop", d)
      BY DEF Stopping
    <2>2. CASE down'[i] = Frame("stop", c) /\ held[c].known
      <3>1. d = c
        BY <2>1, <2>2 DEF Frame
      <3> QED BY <2>2, <3>1 DEF FleetInv, LedgerInv
    <2>3. CASE \E k \in 1 .. Len(down) : down'[i] = down[k]
      BY <2>1, <2>3 DEF Stopping
    <2> QED BY <2>2, <2>3 DEF Deallocated
  <1>4. \A d \in Ids : HasRow(d)' = HasRow(d) /\ Given(d)' = Given(d)
    BY DEF HasRow, Given
  <1>5. \A d \in Ids : MintedBy(d)' = MintedBy(d)
    BY <1>2, QuietMints
  <1>6. \A d \in Ids : LedgerStep(d)
    <2>1. \A d \in Ids : Recorded(d)' = Recorded(d)
      BY <1>4 DEF Recorded
    <2> QED BY <1>2, <1>3, <2>1 DEF LedgerStep, FleetInv, LedgerInv
  <1>7. \A d \in Ids : Unstarted(d)' => Unstarted(d)
    BY <1>5 DEF Unstarted
  <1>8. ASSUME NEW d \in Ids, NEW i \in 1 .. Len(down')
        PROVE  \/ down'[i] # Frame("start", d)
               \/ \E k \in 1 .. Len(down) : down'[i] = down[k]
    BY DEF Deallocated, Frame
  <1>9. RowsGrow
    BY <1>4 DEF RowsGrow
  <1> QED BY <1>2, <1>4, <1>6, <1>7, <1>8, <1>9, QuietFleet

LEMMA GiveUpFleet ==
  ASSUME TypeInv, FleetInv, NEW w \in Walks, GiveUp(w) \/ EndMatch(w)
  PROVE  FleetInv'
  <1>1. /\ Elsewhere /\ UNCHANGED <<warmRow, row, token, mine, born, reaping>>
        /\ walk[w] \in {"named", "configured", "playing", "cut"}
        /\ walk' \in {[walk EXCEPT ![w] = "closing"], [walk EXCEPT ![w] = "ending"]}
    BY WalkElsewhere DEF GiveUp, EndMatch, At, Throws, ledger
  <1>2. mine[w] \in Ids
    BY <1>1, MineIsMinted
  <1>3. Deallocated(mine[w])
    BY <1>2, GiveUpTyped
  <1>4. WalkInv'
    BY <1>1 DEF FleetInv, WalkInv, TypeInv, TypeOK, WalkType
  <1>5. MintsKept
    BY <1>1 DEF MintsKept
  <1> QED BY <1>1, <1>2, <1>3, <1>4, <1>5, DeallocateFleet

LEMMA ExpireFleet ==
  ASSUME TypeInv, FleetInv, Expire
  PROVE  FleetInv'
  <1>1. /\ Deallocate(reaping) /\ Elsewhere /\ UNCHANGED <<row, token, walk, mine, born>>
        /\ warmRow' = [warmRow EXCEPT ![reaping] = "expired"] /\ reaping' = None /\ reaping # None
    BY DEF Expire, ReaperUnchanged, Elsewhere, session, agent, walks
  <1>2. reaping \in Ids
    BY <1>1, FleetAssumption DEF TypeInv, TypeOK, ProviderType, Ids, None
  <1>3. warmRow[reaping] # "none"
    BY <1>1 DEF FleetInv, MintInv
  <1>4. \A d \in Ids : \/ warmRow'[d] = warmRow[d]
                       \/ warmRow[d] # "none" /\ warmRow'[d] = "expired"
    BY <1>1, <1>2, <1>3 DEF TypeInv, TypeOK, LedgerType
  <1>5. Deallocated(reaping)
    BY <1>1, <1>2, DeallocateStands
  <1>6. WalkInv' /\ MintsKept
    BY <1>1, <1>4 DEF FleetInv, WalkInv, MintsKept
  <1> QED BY <1>1, <1>2, <1>4, <1>5, <1>6, DeallocateFleet

LEMMA ReapOrphanFleet ==
  ASSUME TypeInv, FleetInv, NEW c \in Ids, ReapOrphan(c)
  PROVE  FleetInv'
  <1>1. Deallocate(c) /\ Elsewhere /\ UNCHANGED <<warmRow, row, token, walk, mine, reaping, born>>
    BY DEF ReapOrphan, ReaperUnchanged, Elsewhere, session, agent, walks
  <1>2. Deallocated(c)
    BY <1>1, DeallocateStands
  <1>3. WalkInv' /\ MintsKept
    BY <1>1 DEF FleetInv, WalkInv, MintsKept
  <1> QED BY <1>1, <1>2, <1>3, DeallocateFleet

LEMMA ReadExpiredFleet ==
  ASSUME TypeInv, FleetInv, NEW c \in Ids, ReadExpired(c)
  PROVE  FleetInv'
  <1>1. /\ Elsewhere /\ UNCHANGED <<warmRow, row, token, walk, mine, held, jobs, down, born>>
        /\ reaping' = c /\ warmRow[c] = "open"
    BY DEF ReadExpired, ReaperUnchanged, Elsewhere, session, agent, walks
  <1>2. \A d \in Ids : /\ HasRow(d)' = HasRow(d) /\ Given(d)' = Given(d) /\ Recorded(d)' = Recorded(d)
                       /\ MintedBy(d)' = MintedBy(d) /\ Unstarted(d)' = Unstarted(d)
                       /\ Stopping(d)' = Stopping(d)
    BY <1>1 DEF HasRow, Given, Recorded, Unstarted, MintedBy, Minting, Stopping
  <1>3. WalkInv'
    BY <1>1 DEF FleetInv, WalkInv
  <1>4. LedgerInv'
    BY <1>1, <1>2 DEF FleetInv, LedgerInv
  <1>5. MintInv'
    BY <1>1 DEF FleetInv, MintInv, MintedBy, Minting, ToRead, HasRow
  <1>6. HiddenInv'
    BY <1>1, <1>2, HiddenStays, ElsewhereHides DEF FleetInv
  <1> QED BY <1>3, <1>4, <1>5, <1>6 DEF FleetInv

LEMMA RestartFleet ==
  ASSUME TypeInv, FleetInv, Restart
  PROVE  FleetInv'
  <1>1. /\ UNCHANGED <<ledger, mine, down, inbox, born, box, busy>>
        /\ held' = [c \in Ids |-> Unheld] /\ jobs' = [k \in Jobs |-> IdleJob]
        /\ reaping' = None /\ view' = [s \in Sockets |-> Nothing]
        /\ up' = [s \in Sockets |-> <<>>]
        /\ walk' = [w \in Walks |->
                  CASE walk[w] \in {"row", "given", "named", "moving", "configured",
                                    "closing"} -> "lost"
                    [] walk[w] = "ending" -> "cut"
                    [] OTHER -> walk[w]]
    BY DEF Restart
  <1>2. \A c \in Ids : /\ HasRow(c)' = HasRow(c) /\ Given(c)' = Given(c) /\ Recorded(c)' = Recorded(c)
                       /\ Stopping(c)' = Stopping(c)
    BY <1>1 DEF HasRow, Given, Recorded, Stopping, ledger
  <1>3. \A j \in Jobs : ~Minting(jobs'[j]) /\ ToRead(jobs'[j]) = {}
    BY <1>1 DEF Minting, ToRead, IdleJob
  <1>4. WalkInv'
    <2>1. \A w \in Walks : \/ walk'[w] = walk[w] /\ walk[w] \notin {"row", "given", "moving"}
                           \/ walk'[w] = "lost"
                           \/ walk[w] = "ending" /\ walk'[w] = "cut"
      BY <1>1
    <2> QED BY <1>1, <2>1 DEF FleetInv, WalkInv, ledger
  <1>5. LedgerInv'
    BY <1>1, <1>2 DEF FleetInv, LedgerInv, ledger, Unheld
  <1>6. MintInv'
    BY <1>1, <1>3 DEF MintInv
  <1>7. \A c \in Ids : MintedBy(c)' = {}
    BY <1>3 DEF MintedBy
  <1>8. \A c \in Ids : Unstarted(c)' => Unstarted(c)
    BY <1>1, <1>7 DEF Unstarted, ledger
  <1>9. \A c \in Ids : Hidden(c) => Hidden(c)'
    BY <1>1 DEF Hidden, Nothing
  <1>10. HiddenInv'
    BY <1>2, <1>8, <1>9, HiddenStays DEF FleetInv
  <1> QED BY <1>4, <1>5, <1>6, <1>10 DEF FleetInv

LEMMA TaskElsewhere ==
  ASSUME JobsUnchanged
  PROVE  Elsewhere /\ UNCHANGED <<row, walk, mine, reaping, bound, mishaps>>
  BY DEF JobsUnchanged, Elsewhere, session, walks

LEMMA TaskWalks ==
  ASSUME TypeInv, FleetInv, JobsUnchanged, \A c \in Ids : born[c] = "warm" => born'[c] = "warm"
  PROVE  WalkInv' /\ \A c \in Ids : Given(c)' = Given(c)
  <1>1. UNCHANGED <<row, walk, mine>>
    BY TaskElsewhere
  <1>2. ASSUME NEW w \in Walks, walk[w] = "moving" PROVE born'[mine[w]] = "warm"
    BY <1>2, MineIsMinted DEF FleetInv, WalkInv
  <1> QED BY <1>1, <1>2 DEF FleetInv, WalkInv, Given

\* A task that mints nothing, before its await or after it.
LEMMA ReadingFleet ==
  ASSUME TypeInv, FleetInv, NEW j \in Jobs, JobsUnchanged,
         UNCHANGED <<warmRow, token, down, born>>, \A k \in Jobs \ {j} : jobs'[k] = jobs[k],
         ~Minting(jobs[j]), ~Minting(jobs'[j]), \A r \in ToRead(jobs'[j]) : HasRow(r.c),
         \A c \in Ids : held'[c] = held[c] \/ (held'[c].known /\ ~held'[c].moving /\ HasRow(c))
  PROVE  FleetInv'
  <1>1. Elsewhere /\ UNCHANGED <<row, walk, mine, reaping>>
    BY TaskElsewhere
  <1>2. \A c \in Ids : /\ HasRow(c)' = HasRow(c) /\ Given(c)' = Given(c) /\ Recorded(c)' = Recorded(c)
                       /\ Stopping(c)' = Stopping(c)
    BY <1>1 DEF HasRow, Given, Recorded, Stopping
  <1>3. \A c \in Ids : MintedBy(c)' = MintedBy(c)
    BY DEF MintedBy
  <1>4. WalkInv'
    BY TaskWalks
  <1>5. LedgerInv'
    <2>1. \A c \in Ids : LedgerStep(c)
      BY <1>2 DEF LedgerStep, Recorded
    <2> QED BY <2>1, LedgerSteps DEF FleetInv
  <1>6. MintInv'
    <2>1. reaping' # None => warmRow'[reaping'] # "none"
      BY <1>1 DEF FleetInv, MintInv
    <2>2. ASSUME NEW k \in Jobs, NEW r \in ToRead(jobs'[k]) PROVE HasRow(r.c)'
      <3>1. HasRow(r.c)
        BY <2>2 DEF FleetInv, MintInv
      <3> QED BY <1>1, <3>1 DEF HasRow
    <2>3. ASSUME NEW k \in Jobs, Minting(jobs'[k])
          PROVE  /\ jobs'[k].c \in Ids \ Foreign /\ born'[jobs'[k].c] = "warm"
                 /\ {i \in Jobs : Minting(jobs'[i]) /\ jobs'[i].c = jobs'[k].c} = {k}
                 /\ IF jobs'[k].at = "row" THEN warmRow'[jobs'[k].c] = "none"
                    ELSE warmRow'[jobs'[k].c] \in {"open", "expired"}
      BY <2>3 DEF FleetInv, MintInv, MintedBy
    <2> QED BY <2>1, <2>2, <2>3 DEF MintInv, MintedBy
  <1>7. HiddenInv'
    BY <1>1, <1>2, <1>3, HiddenStays, ElsewhereHides DEF FleetInv, Unstarted
  <1> QED BY <1>4, <1>5, <1>6, <1>7 DEF FleetInv

LEMMA ListRowsFleet ==
  ASSUME TypeInv, FleetInv, NEW j \in Jobs, ListRows(j)
  PROVE  FleetInv'
  <1>1. \A r \in AdoptableRows : HasRow(r.c)
    BY DEF AdoptableRows, OpenRows, RowNames, HasRow
  <1> QED BY <1>1, ListRowsTyped, ReadingFleet DEF ListRows

LEMMA AdoptOneFleet ==
  ASSUME TypeInv, FleetInv, NEW j \in Jobs, AdoptOne(j)
  PROVE  FleetInv'
  <1>1. JobsUnchanged /\ UNCHANGED <<warmRow, token, down, born>>
    BY DEF AdoptOne
  <1>2. PICK has \in BOOLEAN, warm \in BOOLEAN :
           held' = [held EXCEPT ![jobs[j].c] = Holding(jobs[j].own, has, warm)]
    BY AdoptOneTyped
  <1>3. \A r \in ToRead(jobs[j]) : HasRow(r.c)
    BY DEF FleetInv, MintInv
  <1>4. /\ jobs[j].c \in Ids /\ [c |-> jobs[j].c, own |-> jobs[j].own] \in ToRead(jobs[j])
        /\ ToRead(jobs'[j]) \subseteq ToRead(jobs[j])
    BY AdoptOneTyped
  <1>5. HasRow(jobs[j].c)
    <2>1. PICK r \in ToRead(jobs[j]) : r = [c |-> jobs[j].c, own |-> jobs[j].own]
      BY <1>4
    <2> QED BY <1>3, <2>1
  <1>6. held \in [Ids -> Entries]
    BY TaskKept
  <1>7. \A c \in Ids : held'[c] = held[c] \/ (held'[c].known /\ ~held'[c].moving /\ HasRow(c))
    BY <1>2, <1>4, <1>5, <1>6 DEF Holding
  <1> QED BY <1>1, <1>3, <1>4, <1>7, AdoptOneTyped, ReadingFleet

LEMMA JudgeFleet ==
  ASSUME TypeInv, FleetInv, NEW j \in Jobs, Judge(j)
  PROVE  FleetInv'
  <1>1. UNCHANGED <<warmRow, token, held, born, row, walk, mine, reaping>> /\ Elsewhere
    BY TaskElsewhere DEF Judge
  <1>2. /\ QuietJobs
        /\ \A i \in 1 .. Len(down') :
                \/ down'[i] = Frame("stop", jobs[j].c) /\ HasRow(jobs[j].c)
                \/ \E k \in 1 .. Len(down) : down'[i] = down[k]
    BY JudgeTyped
  <1>3. \A c \in Ids : /\ HasRow(c)' = HasRow(c) /\ Given(c)' = Given(c) /\ Recorded(c)' = Recorded(c)
                       /\ MintedBy(c)' = MintedBy(c)
    BY <1>1, <1>2, QuietMints DEF HasRow, Given, Recorded
  <1>4. \A c \in Ids : Stopping(c)' => Stopping(c) \/ Recorded(c)
    BY <1>2 DEF Stopping, Frame, Recorded
  <1>5. \A c \in Ids : LedgerStep(c)
    BY <1>1, <1>3, <1>4 DEF LedgerStep
  <1>6. WalkInv' /\ RowsGrow /\ MintsKept
    BY <1>1, <1>3 DEF FleetInv, WalkInv, RowsGrow, MintsKept
  <1>7. \A c \in Ids : Unstarted(c)' => Unstarted(c)
    BY <1>1, <1>3 DEF Unstarted
  <1>8. \A c \in Ids : \A i \in 1 .. Len(down') : \/ down'[i] # Frame("start", c)
                                                  \/ \E k \in 1 .. Len(down) : down'[i] = down[k]
    BY <1>2 DEF Frame
  <1> QED BY <1>1, <1>2, <1>3, <1>5, <1>6, <1>7, <1>8, QuietFleet

\* A container is minted once: what a loop of topUp mints next is nobody's.
LEMMA GoneOnMints ==
  ASSUME TypeInv, FleetInv, NEW j \in Jobs, GoneOn(j), JobsUnchanged,
         \/ warmRow' = warmRow
         \/ Minting(jobs[j]) /\ warmRow' = [warmRow EXCEPT ![jobs[j].c] = "failed"]
  PROVE  /\ MintInv' /\ RowsGrow
         /\ \A c \in Ids : /\ MintedBy(c)' \subseteq MintedBy(c) \/ born[c] = "none"
                           /\ Minting(jobs[j]) /\ c = jobs[j].c => MintedBy(c)' = {}
                           /\ born'[c] = born[c] \/ (born[c] = "none" /\ born'[c] = "warm" /\ c \notin Foreign)
  <1>1. /\ \A k \in Jobs \ {j} : jobs'[k] = jobs[k]
        /\ ToRead(jobs'[j]) = {}
        /\ UNCHANGED <<row, reaping>>
    BY TaskElsewhere DEF GoneOn
  <1>2. \A k \in Jobs : Minting(jobs[k]) =>
                  /\ jobs[k].c \in Ids \ Foreign /\ born[jobs[k].c] = "warm"
                  /\ MintedBy(jobs[k].c) = {k}
                  /\ IF jobs[k].at = "row" THEN warmRow[jobs[k].c] = "none"
                     ELSE warmRow[jobs[k].c] \in {"open", "expired"}
    BY DEF FleetInv, MintInv
  <1>3. \A c \in Ids : warmRow'[c] = warmRow[c] \/ (Minting(jobs[j]) /\ c = jobs[j].c /\ warmRow'[c] = "failed")
    BY TaskKept
  <1>4. RowsGrow
    BY <1>1, <1>3 DEF RowsGrow, HasRow
  <1>5. \A c \in Ids : born'[c] = born[c] \/ (born[c] = "none" /\ born'[c] = "warm" /\ c \notin Foreign)
    BY TaskKept DEF GoneOn, Unborn, FleetInv, LedgerInv
  <1>6. Minting(jobs'[j]) => /\ jobs'[j].at = "row" /\ jobs'[j].c \in Unborn
                             /\ born'[jobs'[j].c] = "warm"
    BY TaskKept DEF GoneOn, Unborn
  <1>7. \A c \in Ids : Minting(jobs[j]) /\ c = jobs[j].c => MintedBy(c)' = {}
    BY <1>1, <1>2, <1>6 DEF MintedBy, Unborn
  <1>8. \A c \in Ids : MintedBy(c)' \subseteq MintedBy(c) \/ born[c] = "none"
    BY <1>1, <1>6 DEF MintedBy, Unborn
  <1>9. MintInv'
    <2>1. reaping' # None => warmRow'[reaping'] # "none"
      <3>1. reaping # None => reaping \in Ids /\ warmRow[reaping] # "none"
        BY FleetAssumption DEF FleetInv, MintInv, TypeInv, TypeOK, ProviderType, Ids, None
      <3> QED BY <1>1, <1>3, <3>1
    <2>2. ASSUME NEW k \in Jobs, NEW r \in ToRead(jobs'[k]) PROVE HasRow(r.c)'
      <3>1. k # j /\ r \in ToRead(jobs[k])
        BY <1>1, <2>2
      <3>2. r.c \in Ids /\ HasRow(r.c)
        BY <3>1, ReadIsTyped DEF FleetInv, MintInv
      <3> QED BY <1>4, <3>2 DEF RowsGrow
    <2>3. ASSUME NEW k \in Jobs, Minting(jobs'[k])
          PROVE  /\ jobs'[k].c \in Ids \ Foreign /\ born'[jobs'[k].c] = "warm"
                 /\ {i \in Jobs : Minting(jobs'[i]) /\ jobs'[i].c = jobs'[k].c} = {k}
                 /\ IF jobs'[k].at = "row" THEN warmRow'[jobs'[k].c] = "none"
                    ELSE warmRow'[jobs'[k].c] \in {"open", "expired"}
      <3>1. CASE k = j
        <4>1. /\ jobs'[j].at = "row" /\ jobs'[j].c \in Ids /\ born[jobs'[j].c] = "none"
              /\ born'[jobs'[j].c] = "warm"
          BY <1>6, <2>3, <3>1 DEF Unborn
        <4>2. jobs'[j].c \notin Foreign /\ warmRow[jobs'[j].c] = "none"
          BY <4>1 DEF FleetInv, LedgerInv
        <4>3. warmRow'[jobs'[j].c] = "none"
          BY <1>2, <1>3, <4>1, <4>2
        <4>4. \A i \in Jobs \ {j} : ~(Minting(jobs'[i]) /\ jobs'[i].c = jobs'[j].c)
          BY <1>1, <1>2, <4>1
        <4> QED BY <2>3, <3>1, <4>1, <4>2, <4>3, <4>4
      <3>2. CASE k # j
        <4>1. /\ jobs'[k] = jobs[k] /\ Minting(jobs[k]) /\ jobs[k].c \in Ids \ Foreign
              /\ born[jobs[k].c] = "warm" /\ MintedBy(jobs[k].c) = {k}
          BY <1>1, <1>2, <2>3, <3>2
        <4>2. ~(Minting(jobs[j]) /\ jobs[j].c = jobs[k].c) /\ ~(Minting(jobs'[j]) /\ jobs'[j].c = jobs[k].c)
          BY <1>6, <3>2, <4>1 DEF MintedBy, Unborn
        <4>3. {i \in Jobs : Minting(jobs'[i]) /\ jobs'[i].c = jobs[k].c} = {k}
          BY <1>1, <2>3, <4>1, <4>2 DEF MintedBy
        <4> QED BY <1>2, <1>3, <1>5, <4>1, <4>2, <4>3
      <3> QED BY <3>1, <3>2
    <2> QED BY <2>1, <2>2, <2>3 DEF MintInv, MintedBy
  <1> QED BY <1>4, <1>5, <1>7, <1>8, <1>9

LEMMA NodeReadFleet ==
  ASSUME TypeInv, FleetInv, NEW j \in Jobs, NodeRead(j)
  PROVE  FleetInv'
  <1>1. JobsUnchanged /\ UNCHANGED <<warmRow, token, held, down>> /\ Elsewhere
        /\ UNCHANGED <<row, mine>>
    BY TaskElsewhere DEF NodeRead
  <1>2. /\ MintInv' /\ RowsGrow
        /\ \A c \in Ids : MintedBy(c)' \subseteq MintedBy(c) \/ born[c] = "none"
        /\ \A c \in Ids : born'[c] = born[c] \/ (born[c] = "none" /\ born'[c] = "warm" /\ c \notin Foreign)
    BY <1>1, NodeReadTyped, GoneOnMints
  <1>3. WalkInv' /\ \A c \in Ids : Given(c)' = Given(c)
    BY <1>1, <1>2, TaskWalks
  <1>4. LedgerInv'
    <2>1. \A c \in Ids : Recorded(c)' = Recorded(c) /\ Stopping(c)' = Stopping(c)
      BY <1>1, <1>3 DEF Recorded, HasRow, Stopping
    <2>2. \A c \in Ids : LedgerStep(c)
      BY <1>1, <1>2, <2>1 DEF LedgerStep
    <2> QED BY <2>2, LedgerSteps DEF FleetInv
  <1>5. HiddenInv'
    <2>1. \A c \in Ids : Unstarted(c)' => Unstarted(c)
      BY <1>1, <1>2 DEF Unstarted
    <2> QED BY <1>1, <1>3, <2>1, HiddenStays, ElsewhereHides DEF FleetInv
  <1> QED BY <1>2, <1>3, <1>4, <1>5 DEF FleetInv

LEMMA UnsentFleet ==
  ASSUME TypeInv, FleetInv, NEW j \in Jobs, Unsent(j)
  PROVE  FleetInv'
  <1>1. JobsUnchanged /\ UNCHANGED <<token, held, down>> /\ Elsewhere
        /\ UNCHANGED <<row, mine>> /\ Minting(jobs[j])
        /\ warmRow' = [warmRow EXCEPT ![jobs[j].c] = "failed"]
    BY TaskElsewhere DEF Unsent, Minting
  <1>2. /\ MintInv' /\ RowsGrow
        /\ \A c \in Ids : MintedBy(c)' \subseteq MintedBy(c) \/ born[c] = "none"
        /\ \A c \in Ids : born'[c] = born[c] \/ (born[c] = "none" /\ born'[c] = "warm" /\ c \notin Foreign)
    BY <1>1, UnsentTyped, GoneOnMints
  <1>3. PICK c \in Ids : c = jobs[j].c
    BY UnsentTyped
  <1>4. born[c] = "warm" /\ c \notin Foreign /\ j \in MintedBy(c) /\ warmRow[c] # "none"
    BY <1>1, <1>3 DEF FleetInv, MintInv, MintedBy, Unsent
  <1>5. warmRow'[c] = "failed" /\ \A d \in Ids \ {c} : warmRow'[d] = warmRow[d]
    BY <1>1, <1>3, TaskKept
  <1>6. WalkInv' /\ \A d \in Ids : Given(d)' = Given(d)
    BY <1>1, <1>2, TaskWalks
  <1>7. LedgerInv'
    <2>1. \A d \in Ids : HasRow(d)' = HasRow(d)
      BY <1>1, <1>4, <1>5 DEF HasRow
    <2>2. \A d \in Ids : Recorded(d)' = Recorded(d) /\ Stopping(d)' = Stopping(d)
      BY <1>1, <1>6, <2>1 DEF Recorded, Stopping
    <2>3. \A d \in Ids : LedgerStep(d)
      BY <1>1, <1>2, <1>4, <1>5, <2>2 DEF LedgerStep
    <2> QED BY <2>3, LedgerSteps DEF FleetInv
  <1>8. HiddenInv'
    <2>1. \A d \in Ids : Unstarted(d)' => Unstarted(d)
      BY <1>1, <1>2, <1>4, <1>5 DEF Unstarted
    <2> QED BY <1>1, <1>6, <2>1, HiddenStays, ElsewhereHides DEF FleetInv
  <1> QED BY <1>2, <1>6, <1>7, <1>8 DEF FleetInv

\* A task that stays with the container it has minted.
LEMMA StayedMints ==
  ASSUME TypeInv, FleetInv, NEW j \in Jobs, NEW c \in Ids, JobsUnchanged, born' = born, RowsGrow,
         \A k \in Jobs \ {j} : jobs'[k] = jobs[k], Minting(jobs[j]), c = jobs[j].c,
         jobs'[j].at \in {"token", "unsent"}, jobs'[j].c = c, warmRow'[c] \in {"open", "expired"},
         \A d \in Ids \ {c} : warmRow'[d] = warmRow[d]
  PROVE  MintInv' /\ \A d \in Ids : MintedBy(d)' = MintedBy(d)
  <1>1. UNCHANGED <<row, reaping>> /\ Minting(jobs'[j]) /\ ToRead(jobs'[j]) = {}
    BY TaskElsewhere DEF Minting, ToRead
  <1>2. \A d \in Ids : MintedBy(d)' = MintedBy(d)
    BY <1>1 DEF MintedBy
  <1>3. reaping' # None => warmRow'[reaping'] # "none"
    <2>1. reaping # None => reaping \in Ids /\ warmRow[reaping] # "none"
      BY FleetAssumption DEF FleetInv, MintInv, TypeInv, TypeOK, ProviderType, Ids, None
    <2> QED BY <1>1, <2>1
  <1>4. ASSUME NEW k \in Jobs, NEW r \in ToRead(jobs'[k]) PROVE HasRow(r.c)'
    <2>1. k # j /\ r \in ToRead(jobs[k])
      BY <1>1, <1>4
    <2>2. r.c \in Ids /\ HasRow(r.c)
      BY <2>1, ReadIsTyped DEF FleetInv, MintInv
    <2> QED BY <2>2 DEF RowsGrow
  <1>5. ASSUME NEW k \in Jobs, Minting(jobs'[k])
        PROVE  /\ jobs'[k].c \in Ids \ Foreign /\ born'[jobs'[k].c] = "warm"
               /\ {i \in Jobs : Minting(jobs'[i]) /\ jobs'[i].c = jobs'[k].c} = {k}
               /\ IF jobs'[k].at = "row" THEN warmRow'[jobs'[k].c] = "none"
                  ELSE warmRow'[jobs'[k].c] \in {"open", "expired"}
    <2>1. Minting(jobs[k]) /\ jobs'[k].c = jobs[k].c
      BY <1>5
    <2>2. /\ jobs[k].c \in Ids \ Foreign /\ born[jobs[k].c] = "warm" /\ MintedBy(jobs[k].c) = {k}
          /\ IF jobs[k].at = "row" THEN warmRow[jobs[k].c] = "none"
             ELSE warmRow[jobs[k].c] \in {"open", "expired"}
      BY <2>1 DEF FleetInv, MintInv
    <2>3. PICK d \in Ids : d = jobs[k].c
      BY <2>2
    <2>4. {i \in Jobs : Minting(jobs'[i]) /\ jobs'[i].c = d} = {k}
      BY <1>2, <2>2, <2>3 DEF MintedBy
    <2>5. CASE k = j
      BY <2>1, <2>2, <2>3, <2>4, <2>5
    <2>6. CASE k # j
      <3>1. d # c
        BY <2>2, <2>3, <2>6 DEF MintedBy
      <3> QED BY <2>1, <2>2, <2>3, <2>4, <2>6, <3>1
    <2> QED BY <2>5, <2>6
  <1> QED BY <1>2, <1>3, <1>4, <1>5 DEF MintInv, MintedBy

LEMMA OpenWarmFleet ==
  ASSUME TypeInv, FleetInv, NEW j \in Jobs, OpenWarm(j)
  PROVE  FleetInv'
  <1>1. JobsUnchanged /\ UNCHANGED <<token, held, down, born>> /\ Elsewhere
        /\ UNCHANGED <<row, mine>> /\ Minting(jobs[j])
        /\ warmRow' = [warmRow EXCEPT ![jobs[j].c] = "open"]
    BY TaskElsewhere DEF OpenWarm, Minting
  <1>2. PICK c \in Ids : c = jobs[j].c
    BY OpenWarmTyped
  <1>3. born[c] = "warm" /\ c \notin Foreign
    BY <1>1, <1>2 DEF FleetInv, MintInv
  <1>4. warmRow'[c] = "open" /\ \A d \in Ids \ {c} : warmRow'[d] = warmRow[d]
    BY <1>1, <1>2, TaskKept
  <1>5. \A d \in Ids : /\ HasRow(d) => HasRow(d)'
                       /\ HasRow(d)' => HasRow(d) \/ d = c
    BY <1>1, <1>4 DEF HasRow
  <1>6. RowsGrow
    BY <1>5 DEF RowsGrow
  <1>7. MintInv' /\ \A d \in Ids : MintedBy(d)' = MintedBy(d)
    BY <1>1, <1>2, <1>4, <1>6, OpenWarmTyped, StayedMints
  <1>8. WalkInv' /\ \A d \in Ids : Given(d)' = Given(d)
    BY <1>1, TaskWalks
  <1>9. LedgerInv'
    <2>1. \A d \in Ids : Stopping(d)' = Stopping(d)
      BY <1>1 DEF Stopping
    <2>2. \A d \in Ids : LedgerStep(d)
      BY <1>1, <1>3, <1>4, <1>5, <1>8, <2>1 DEF LedgerStep, Recorded
    <2> QED BY <2>2, LedgerSteps DEF FleetInv
  <1>10. HiddenInv'
    <2>1. \A d \in Ids : Unstarted(d)' => Unstarted(d)
      BY <1>1, <1>4, <1>7 DEF Unstarted
    <2> QED BY <1>1, <1>8, <2>1, HiddenStays, ElsewhereHides DEF FleetInv
  <1> QED BY <1>7, <1>8, <1>9, <1>10 DEF FleetInv

LEMMA StartWarmFleet ==
  ASSUME TypeInv, FleetInv, NEW j \in Jobs, StartWarm(j)
  PROVE  FleetInv'
  <1>1. JobsUnchanged /\ UNCHANGED warmRow /\ Elsewhere
        /\ UNCHANGED <<row, mine>> /\ Minting(jobs[j])
        /\ token' = [token EXCEPT ![jobs[j].c] = "warm"]
    BY TaskElsewhere DEF StartWarm, Minting
  <1>2. PICK c \in Ids : c = jobs[j].c
    BY StartWarmTyped
  <1>3. born[c] = "warm" /\ c \notin Foreign /\ warmRow[c] \in {"open", "expired"} /\ j \in MintedBy(c)
    BY <1>1, <1>2 DEF FleetInv, MintInv, StartWarm, MintedBy
  <1>4. token'[c] = "warm" /\ \A d \in Ids \ {c} : token'[d] = token[d]
    BY <1>1, <1>2, TaskKept
  <1>5. CASE /\ GoneOn(j) /\ held' = [held EXCEPT ![c] = Holding(NoOne, TRUE, TRUE)]
             /\ \A i \in 1 .. Len(down') : \/ down'[i] = Frame("start", c)
                                           \/ \E k \in 1 .. Len(down) : down'[i] = down[k]
    <2>1. /\ MintInv' /\ RowsGrow
          /\ \A d \in Ids : MintedBy(d)' \subseteq MintedBy(d) \/ born[d] = "none"
          /\ MintedBy(c)' = {}
          /\ \A d \in Ids : born'[d] = born[d] \/ (born[d] = "none" /\ born'[d] = "warm" /\ d \notin Foreign)
      BY <1>1, <1>2, <1>5, GoneOnMints
    <2>2. WalkInv' /\ \A d \in Ids : Given(d)' = Given(d)
      BY <1>1, <2>1, TaskWalks
    <2>3. LedgerInv'
      <3>1. \A d \in Ids : Recorded(d)' = Recorded(d)
        BY <1>1, <2>2 DEF Recorded, HasRow
      <3>2. \A d \in Ids : Stopping(d)' => Stopping(d)
        BY <1>5 DEF Stopping, Frame
      <3>3. held'[c].known /\ ~held'[c].moving /\ \A d \in Ids \ {c} : held'[d] = held[d]
        BY <1>5, TaskKept DEF Holding
      <3>4. Recorded(c)
        BY <1>3 DEF Recorded, HasRow
      <3>5. \A d \in Ids : LedgerStep(d)
        BY <1>1, <1>3, <2>1, <3>1, <3>2, <3>3, <3>4 DEF LedgerStep
      <3> QED BY <3>5, LedgerSteps DEF FleetInv
    <2>4. HiddenInv'
      <3>1. \A d \in Ids : Unstarted(d)' => Unstarted(d) /\ d # c
        BY <1>1, <1>3, <1>4, <2>1 DEF Unstarted
      <3>2. ASSUME NEW d \in Ids, d # c, Hidden(d) PROVE Hidden(d)'
        <4>1. Frame("start", c) # Frame("start", d)
          BY <3>2 DEF Frame
        <4> QED BY <1>1, <1>5, <3>2, <4>1, ElsewhereHides
      <3> QED BY <2>2, <3>1, <3>2, HiddenStays DEF FleetInv
    <2> QED BY <2>1, <2>2, <2>3, <2>4 DEF FleetInv
  <1>6. CASE /\ held' = [held EXCEPT ![c] = Unheld] /\ UNCHANGED <<down, born>>
             /\ \A k \in Jobs \ {j} : jobs'[k] = jobs[k]
             /\ jobs'[j].at = "unsent" /\ jobs'[j].c = c
    <2>1. \A d \in Ids : HasRow(d)' = HasRow(d)
      BY <1>1 DEF HasRow
    <2>2. RowsGrow
      BY <2>1 DEF RowsGrow
    <2>3. MintInv' /\ \A d \in Ids : MintedBy(d)' = MintedBy(d)
      BY <1>1, <1>2, <1>3, <1>6, <2>2, StayedMints
    <2>4. WalkInv' /\ \A d \in Ids : Given(d)' = Given(d)
      BY <1>1, <1>6, TaskWalks
    <2>5. LedgerInv'
      <3>1. \A d \in Ids : Stopping(d)' = Stopping(d)
        BY <1>6 DEF Stopping
      <3>2. \A d \in Ids : held'[d] = held[d] \/ held'[d] = Unheld
        BY <1>6, TaskKept
      <3>3. \A d \in Ids : LedgerStep(d)
        BY <1>1, <1>6, <2>1, <2>4, <3>1, <3>2 DEF LedgerStep, Recorded
      <3> QED BY <3>3, LedgerSteps DEF FleetInv
    <2>6. HiddenInv'
      <3>1. \A d \in Ids : Unstarted(d)' => Unstarted(d)
        BY <1>1, <1>3, <1>4, <1>6, <2>3 DEF Unstarted
      <3> QED BY <1>1, <1>6, <2>4, <3>1, HiddenStays, ElsewhereHides DEF FleetInv
    <2> QED BY <2>3, <2>4, <2>5, <2>6 DEF FleetInv
  <1> QED BY <1>2, <1>5, <1>6, StartWarmTyped

-----------------------------------------------------------------------------
(* What holds whatever goes wrong.                                         *)

LEMMA Untouched ==
  ASSUME TypeInv, UNCHANGED vars
  PROVE  TypeInv' /\ WireMove
  <1>1. UNCHANGED <<ledger, walks, provider, session, wire, agent, mishaps>>
    BY DEF vars, ledger, walks, provider, session, wire, agent
  <1>2. LedgerType' /\ WalkType' /\ ProviderType' /\ SessionType' /\ QuietJobs
    BY <1>1, OrchestratorKept, SessionKept
  <1>3. WireType' /\ AgentType' /\ HelloInv'
    BY <1>1 DEF TypeInv, TypeOK, WireType, AgentType, HelloInv, wire, agent, session
  <1>4. WireMove
    BY <1>1, <1>2, LinkMoves DEF ledger, walks, provider, session, wire, agent
  <1> QED BY <1>2, <1>3, <1>4 DEF TypeInv, TypeOK

\* The steps of the agent, the link and the network.
Moves ==
    \/ AgentStep
    \/ \E s \in Sockets : LinkStep(s)
    \/ \E c \in Ids : Unlink(c)
    \/ StopRefused \/ Reconcile \/ AgentRestart \/ Break
    \/ UNCHANGED vars

LEMMA MovesAreWire ==
  ASSUME TypeInv, Moves
  PROVE  TypeInv' /\ WireMove
  <1>1. CASE AgentStep
    <2>1. CASE Dial
      BY <2>1, DialMoves
    <2>2. CASE Welcome
      BY <2>2, WelcomeMoves
    <2>3. CASE Hangup
      BY <2>3, HangupMoves
    <2>4. CASE OnStart
      BY <2>4, StartMoves, AgentMoves
    <2>5. CASE Created
      BY <2>5, CreatedMoves, AgentMoves
    <2>6. CASE Started
      BY <2>6, StartedMoves, AgentMoves
    <2>7. CASE OnStop
      BY <2>7, StopMoves, AgentMoves
    <2>8. CASE Stopped
      BY <2>8, StoppedMoves, AgentMoves
    <2> QED BY <1>1, <2>1, <2>2, <2>3, <2>4, <2>5, <2>6, <2>7, <2>8 DEF AgentStep
  <1>2. ASSUME NEW s \in Sockets, LinkStep(s) PROVE TypeInv' /\ WireMove
    <2>1. CASE Greet(s)
      BY <2>1, GreetMoves
    <2>2. CASE Attach(s)
      BY <2>2, AttachMoves
    <2>3. CASE Close(s)
      BY <2>3, CloseMoves
    <2>4. CASE OnInstances(s)
      BY <2>4, SnapshotMoves
    <2> QED BY <1>2, <2>1, <2>2, <2>3, <2>4 DEF LinkStep
  <1>3. ASSUME NEW c \in Ids, Unlink(c) PROVE TypeInv' /\ WireMove
    BY <1>3, UnlinkMoves
  <1>4. CASE StopRefused
    BY <1>4, StoppedMoves, AgentMoves
  <1>5. CASE Reconcile
    BY <1>5, ReconcileMoves, AgentMoves
  <1>6. CASE AgentRestart
    BY <1>6, AgentRestartMoves
  <1>7. CASE Break
    BY <1>7, WelcomeMoves
  <1>8. CASE UNCHANGED vars
    BY <1>8, Untouched
  <1> QED BY <1>1, <1>2, <1>3, <1>4, <1>5, <1>6, <1>7, <1>8 DEF Moves

\* Every step is one of these.
LEMMA StepsOfTheFleet ==
  ASSUME [Next]_vars
  PROVE  \/ Moves
         \/ \E j \in Jobs : JobStep(j)
         \/ \E w \in Walks : OpenRow(w) \/ WalkStep(w) \/ EndMatch(w)
         \/ \E c \in Ids : ReadExpired(c) \/ ReapOrphan(c) \/ Relink(c)
         \/ Expire \/ Restart
  BY DEF Next, Moves, Mishap

LEMMA FleetStep ==
  ASSUME TypeInv, FleetInv, [Next]_vars
  PROVE  TypeInv' /\ FleetInv'
  <1>1. CASE Moves
    BY <1>1, MovesAreWire, WireFleet
  <1>2. ASSUME NEW j \in Jobs, JobStep(j) PROVE TypeInv' /\ FleetInv'
    <2>1. CASE ListRows(j)
      BY <2>1, ListRowsTyped, ListRowsFleet
    <2>2. CASE AdoptOne(j)
      BY <2>2, AdoptOneTyped, AdoptOneFleet
    <2>3. CASE Judge(j)
      BY <2>3, JudgeTyped, JudgeFleet
    <2>4. CASE NodeRead(j)
      BY <2>4, NodeReadTyped, NodeReadFleet
    <2>5. CASE OpenWarm(j)
      BY <2>5, OpenWarmTyped, OpenWarmFleet
    <2>6. CASE StartWarm(j)
      BY <2>6, StartWarmTyped, StartWarmFleet
    <2>7. CASE Unsent(j)
      BY <2>7, UnsentTyped, UnsentFleet
    <2> QED BY <1>2, <2>1, <2>2, <2>3, <2>4, <2>5, <2>6, <2>7 DEF JobStep
  <1>3. ASSUME NEW w \in Walks, OpenRow(w) \/ WalkStep(w) \/ EndMatch(w) PROVE TypeInv' /\ FleetInv'
    <2>1. CASE OpenRow(w) \/ Rejected(w) \/ NameServer(w) \/ Configure(w) \/ CloseRow(w)
      BY <2>1, RowsTyped, RowsFleet
    <2>2. CASE Rebind(w)
      BY <2>2, RebindTyped, RowsFleet
    <2>3. CASE Claim(w)
      BY <2>3, ClaimTyped, ClaimFleet
    <2>4. CASE Cold(w)
      BY <2>4, ColdTyped, ColdFleet
    <2>5. CASE CloseWarm(w)
      BY <2>5, CloseWarmTyped, CloseWarmFleet
    <2>6. CASE StartCold(w)
      <3>1. mine[w] \in Ids
        BY <2>6, MineIsMinted DEF StartCold, At
      <3> QED BY <2>6, <3>1, StartColdTyped, StartColdFleet
    <2>7. CASE GiveUp(w) \/ EndMatch(w)
      <3>1. mine[w] \in Ids
        BY <2>7, MineIsMinted DEF GiveUp, EndMatch, Throws, At
      <3> QED BY <2>7, <3>1, GiveUpTyped, GiveUpFleet
    <2> QED BY <1>3, <2>1, <2>2, <2>3, <2>4, <2>5, <2>6, <2>7 DEF WalkStep
  <1>4. ASSUME NEW c \in Ids, ReadExpired(c) \/ ReapOrphan(c) \/ Relink(c) PROVE TypeInv' /\ FleetInv'
    BY <1>4, ReadExpiredTyped, ReadExpiredFleet, ReaperTyped, ReapOrphanFleet, RelinkTyped, RelinkFleet
  <1>5. CASE Expire
    BY <1>5, ReaperTyped, ExpireFleet
  <1>6. CASE Restart
    BY <1>6, RestartTyped, RestartFleet
  <1> QED BY <1>1, <1>2, <1>3, <1>4, <1>5, <1>6, StepsOfTheFleet

\* What the walks, the ledger, the tasks, the wire and the agent know of a container stays of one
\* this provider minted, whatever fails or races (provider.ts startWarm, allocate and adopt).
THEOREM FleetIsKnown == Spec => [](TypeInv /\ FleetInv)
  <1>1. Init => TypeInv /\ FleetInv
    BY TypesInit, FleetInit
  <1>2. TypeInv /\ FleetInv /\ [Next]_vars => (TypeInv /\ FleetInv)'
    BY FleetStep
  <1> QED BY <1>1, <1>2, PTL DEF Spec

\* Every variable keeps its type, and a task has what its await is for.
THEOREM FleetTypes == Spec => []TypeOK
  <1>1. TypeInv => TypeOK
    BY DEF TypeInv
  <1> QED BY <1>1, FleetIsKnown, PTL

\* No stop is ever on its way to a container of another deployment: whatever is stopped has a
\* row here or was given to a walk of this ledger (provider.ts sweepStrays, deallocate).
THEOREM ForeignersAreLeftAlone == Spec => []ForeignIsLeftAlone
  <1>1. TypeInv /\ FleetInv => ForeignIsLeftAlone
    BY FleetAssumption DEF FleetInv, LedgerInv, ForeignIsLeftAlone
  <1> QED BY <1>1, FleetIsKnown, PTL

-----------------------------------------------------------------------------
(* Whose it is: the steps.                                                 *)

LEMMA OwnerInit == Init => OwnerInv
  BY DEF Init, OwnerInv, OneMatchEach, Has

\* A walk that is ahead of its end has the container it was given.
LEMMA HasIsGiven ==
  ASSUME NEW w \in Walks, NEW c \in Ids, Has(w, c)
  PROVE  w \in Given(c)
  BY DEF Has, Given

\* What every step has to show of a walk that has a container after it.
OwnedStep(w, c) ==
    /\ Has(w, c)
    /\ IF walk'[w] = "given" THEN held'[c].known \/ warmRow'[c] # "open"
       ELSE row'[w].open /\ row'[w].server = c
    /\ held'[c].known => held'[c].owner # NoOne
    /\ \A j \in Jobs : [c |-> c, own |-> NoOne] \notin ToRead(jobs'[j])

LEMMA OwnedSteps ==
  ASSUME OwnerInv, \A w \in Walks : \A c \in Ids : Has(w, c)' => OwnedStep(w, c),
         \A w \in Walks : walk'[w] \in {"row", "given"} => row'[w].open
  PROVE  OwnerInv'
  <1>1. OneMatchEach'
    BY DEF OwnerInv, OneMatchEach, OwnedStep
  <1>2. ASSUME NEW w \in Walks, NEW c \in Ids, Has(w, c)' PROVE Owned(w, c)'
    BY <1>2 DEF OwnedStep, Owned, RowNames
  <1> QED BY <1>1, <1>2 DEF OwnerInv

LEMMA SameOwner ==
  ASSUME OwnerInv, UNCHANGED <<warmRow, row, walk, mine, held>>,
         \A j \in Jobs : ToRead(jobs'[j]) \subseteq ToRead(jobs[j])
  PROVE  OwnerInv'
  <1>1. ASSUME NEW w \in Walks, NEW c \in Ids, Has(w, c)' PROVE OwnedStep(w, c)
    <2>1. Has(w, c) /\ Owned(w, c)
      BY <1>1 DEF Has, OwnerInv
    <2> QED BY <2>1 DEF OwnedStep, Owned, RowNames
  <1> QED BY <1>1, OwnedSteps DEF OwnerInv

LEMMA WireOwner ==
  ASSUME OwnerInv, WireMove
  PROVE  OwnerInv'
  BY QuietMints, SameOwner DEF WireMove

LEMMA RowsOwner ==
  ASSUME TypeInv, FleetInv, OwnerInv, NEW w \in Walks,
         \/ OpenRow(w) \/ Rejected(w) \/ NameServer(w) \/ Configure(w) \/ CloseWarm(w)
         \/ Rebind(w) \/ StartCold(w) \/ CloseRow(w)
  PROVE  OwnerInv'
  <1>1. UNCHANGED <<mine, jobs>>
    BY DEF OpenRow, Rejected, NameServer, Configure, CloseWarm, Rebind, StartCold, CloseRow, provider
  <1>2. /\ walk \in [Walks -> {"idle", "row", "given", "named", "moving", "configured",
                               "playing", "ending", "cut", "closing", "done", "lost"}]
        /\ row \in [Walks -> [open : BOOLEAN, server : 0 .. MaxIds]]
        /\ held \in [Ids -> Entries] /\ warmRow \in [Ids -> {"none", "open", "claimed", "expired", "failed"}]
    BY DEF TypeInv, TypeOK, WalkType, LedgerType, ProviderType
  <1>3. /\ \A v \in Walks \ {w} : walk'[v] = walk[v] /\ row'[v] = row[v]
        /\ \/ walk'[w] \in {"row", "done"} /\ (walk'[w] = "row" => row'[w].open)
           \/ walk[w] = "given" /\ walk'[w] = "named" /\ row'[w].open = row[w].open
              /\ row'[w].server = mine[w]
           \/ walk[w] \in {"named", "moving", "configured"} /\ row'[w] = row[w]
              /\ walk'[w] \in {"moving", "configured", "playing"}
    BY <1>2 DEF OpenRow, Rejected, NameServer, Configure, CloseWarm, Rebind, StartCold, CloseRow, At, ledger
  <1>4. /\ \A c \in Ids : held'[c].known = held[c].known /\ held'[c].owner = held[c].owner
        /\ \A c \in Ids : warmRow'[c] = warmRow[c] \/ warmRow'[c] = "claimed"
    <2>1. CASE UNCHANGED <<warmRow, held>>
      BY <2>1
    <2>2. CASE CloseWarm(w)
      BY <1>2, <2>2 DEF CloseWarm, Entries
    <2> QED BY <2>1, <2>2 DEF OpenRow, Rejected, NameServer, Configure, Rebind, StartCold, CloseRow,
                              ledger, provider
  <1>5. \A v \in Walks : walk'[v] \in {"row", "given"} => row'[v].open
    BY <1>3 DEF OwnerInv
  <1>6. ASSUME NEW v \in Walks, NEW c \in Ids, Has(v, c)' PROVE OwnedStep(v, c)
    <2>1. Has(v, c)
      BY <1>1, <1>3, <1>6 DEF Has
    <2>2. Owned(v, c) /\ mine[v] = c
      BY <2>1 DEF OwnerInv, Has
    <2>3. IF walk'[v] = "given" THEN held'[c].known \/ warmRow'[c] # "open"
          ELSE row'[v].open /\ row'[v].server = c
      <3>1. CASE v # w
        BY <1>3, <1>4, <2>2, <3>1 DEF Owned, RowNames
      <3>2. CASE v = w /\ walk[w] = "given"
        BY <1>3, <1>6, <2>2, <3>2 DEF OwnerInv, Has
      <3>3. CASE v = w /\ walk[w] # "given"
        BY <1>3, <1>6, <2>2, <3>3 DEF Owned, RowNames, Has
      <3> QED BY <3>1, <3>2, <3>3
    <2> QED BY <1>1, <1>4, <2>1, <2>2, <2>3 DEF OwnedStep, Owned
  <1> QED BY <1>5, <1>6, OwnedSteps

\* A container held for nobody is with no match.
LEMMA UnownedIsFree ==
  ASSUME OwnerInv, NEW c \in Ids, held[c].known, held[c].owner = NoOne
  PROVE  \A v \in Walks : ~Has(v, c)
  BY DEF OwnerInv, Owned

\* A walk is given a container no other one has.
LEMMA GivenIsOwned ==
  ASSUME TypeInv, FleetInv, OwnerInv, NEW w \in Walks, NEW c \in Ids, walk[w] = "row",
         \A v \in Walks : ~Has(v, c), \A j \in Jobs : \A r \in ToRead(jobs[j]) : r.c # c,
         UNCHANGED <<warmRow, row, jobs>>, walk' = [walk EXCEPT ![w] = "given"],
         mine' = [mine EXCEPT ![w] = c], \A d \in Ids \ {c} : held'[d] = held[d],
         held'[c].known, held'[c].owner = w
  PROVE  OwnerInv'
  <1>1. /\ walk \in [Walks -> {"idle", "row", "given", "named", "moving", "configured",
                               "playing", "ending", "cut", "closing", "done", "lost"}]
        /\ mine \in [Walks -> 0 .. MaxIds]
    BY DEF TypeInv, TypeOK, WalkType
  <1>2. ASSUME NEW v \in Walks, NEW d \in Ids, Has(v, d)', v # w
        PROVE  d # c /\ Has(v, d) /\ Owned(v, d) /\ Owned(v, d)'
    <2>1. Has(v, d)
      BY <1>1, <1>2 DEF Has
    <2>2. d # c /\ Owned(v, d)
      BY <2>1 DEF OwnerInv
    <2> QED BY <1>1, <1>2, <2>1, <2>2 DEF Owned, RowNames
  <1>3. ASSUME NEW d \in Ids, Has(w, d)' PROVE d = c /\ Owned(w, d)'
    <2>1. d = c
      BY <1>1, <1>3 DEF Has
    <2>2. w # NoOne
      BY FleetAssumption
    <2> QED BY <1>1, <2>1, <2>2 DEF Owned
  <1>4. OneMatchEach'
    <2> SUFFICES ASSUME NEW d \in Ids, NEW u \in Walks, NEW v \in Walks, Has(u, d)', Has(v, d)'
                 PROVE  u = v
      BY DEF OneMatchEach
    <2>1. CASE u # w /\ v # w
      BY <1>2, <2>1 DEF OwnerInv, OneMatchEach
    <2>2. CASE u = w \/ v = w
      BY <1>2, <1>3, <2>2
    <2> QED BY <2>1, <2>2
  <1>5. \A v \in Walks : walk'[v] \in {"row", "given"} => row'[v].open
    BY <1>1 DEF OwnerInv
  <1> QED BY <1>2, <1>3, <1>4, <1>5 DEF OwnerInv

LEMMA ClaimOwner ==
  ASSUME TypeInv, FleetInv, OwnerInv, "overtaken" \notin Mishaps, NEW w \in Walks, Claim(w)
  PROVE  OwnerInv'
  <1>1. PICK c \in FreeWarm : /\ \A j \in Jobs : \A r \in ToRead(jobs[j]) : r.c # c
                              /\ mine' = [mine EXCEPT ![w] = c]
                              /\ held' = [held EXCEPT ![c].owner = w, ![c].moving = TRUE]
    BY DEF Claim
  <1>2. /\ UNCHANGED <<warmRow, row, jobs>> /\ walk[w] = "row" /\ walk' = [walk EXCEPT ![w] = "given"]
        /\ held \in [Ids -> Entries]
    BY DEF Claim, At, ledger, TypeInv, TypeOK, ProviderType
  <1>3. c \in Ids /\ held[c].known /\ held[c].owner = NoOne
    BY DEF FreeWarm, Held
  <1>4. held'[c].known /\ held'[c].owner = w /\ \A d \in Ids \ {c} : held'[d] = held[d]
    BY <1>1, <1>2, <1>3 DEF Entries
  <1> QED BY <1>1, <1>2, <1>3, <1>4, UnownedIsFree, GivenIsOwned

LEMMA ColdOwner ==
  ASSUME TypeInv, FleetInv, OwnerInv, NEW w \in Walks, Cold(w)
  PROVE  OwnerInv'
  <1>1. PICK c \in Unborn : /\ mine' = [mine EXCEPT ![w] = c]
                            /\ held' = [held EXCEPT ![c] = Holding(w, FALSE, FALSE)]
    BY ColdTyped DEF Cold
  <1>2. /\ UNCHANGED <<warmRow, row, jobs>> /\ walk[w] = "row" /\ walk' = [walk EXCEPT ![w] = "given"]
        /\ held \in [Ids -> Entries]
    BY DEF Cold, At, ledger, TypeInv, TypeOK, ProviderType
  <1>3. c \in Ids /\ born[c] = "none"
    BY DEF Unborn
  <1>4. held'[c].known /\ held'[c].owner = w /\ \A d \in Ids \ {c} : held'[d] = held[d]
    BY <1>1, <1>2, <1>3 DEF Holding
  <1>5. \A v \in Walks : ~Has(v, c)
    BY <1>3, HasIsGiven DEF FleetInv, HiddenInv, Unstarted
  <1>6. ASSUME NEW j \in Jobs, NEW r \in ToRead(jobs[j]) PROVE r.c # c
    <2>1. r.c \in Ids /\ HasRow(r.c)
      BY <1>6, ReadIsTyped DEF FleetInv, MintInv
    <2>2. born[r.c] # "none"
      BY <2>1 DEF Recorded, FleetInv, LedgerInv
    <2> QED BY <1>3, <2>2
  <1> QED BY <1>1, <1>2, <1>3, <1>4, <1>5, <1>6, GivenIsOwned

\* A deallocation is of no walk that is still to be named, but for one whose warm row is closed.
LEMMA DeallocateOwner ==
  ASSUME TypeInv, FleetInv, OwnerInv, NEW c \in Ids, Deallocated(c), UNCHANGED <<row, mine>>,
         \A d \in Ids : warmRow'[d] = warmRow[d] \/ warmRow'[d] # "open",
         \A v \in Walks : /\ walk'[v] \in {"row", "given"} => walk'[v] = walk[v]
                          /\ \A d \in Ids : Has(v, d)' => Has(v, d),
         \A v \in Walks : walk'[v] = "given" /\ mine[v] = c => warmRow'[c] # "open",
         \A v \in Walks : walk'[v] # "given" /\ walk[v] = "given" => \A d \in Ids : ~Has(v, d)'
  PROVE  OwnerInv'
  <1>1. held \in [Ids -> Entries]
    BY DEF TypeInv, TypeOK, ProviderType
  <1>2. /\ \A d \in Ids \ {c} : held'[d] = held[d]
        /\ ~held'[c].known
        /\ \A j \in Jobs : ToRead(jobs'[j]) \subseteq ToRead(jobs[j])
    BY <1>1, QuietMints DEF Deallocated, Unheld
  <1>3. ASSUME NEW v \in Walks, NEW d \in Ids, Has(v, d)' PROVE OwnedStep(v, d)
    <2>1. Has(v, d) /\ Owned(v, d) /\ mine[v] = d
      BY <1>3 DEF OwnerInv, Has
    <2>2. IF walk'[v] = "given" THEN held'[d].known \/ warmRow'[d] # "open"
          ELSE row'[v].open /\ row'[v].server = d
      BY <1>2, <1>3, <2>1 DEF Owned, RowNames
    <2> QED BY <1>2, <2>1, <2>2 DEF OwnedStep, Owned
  <1>4. \A v \in Walks : walk'[v] \in {"row", "given"} => row'[v].open
    BY DEF OwnerInv
  <1> QED BY <1>3, <1>4, OwnedSteps

LEMMA EndOwner ==
  ASSUME TypeInv, FleetInv, OwnerInv, NEW w \in Walks, GiveUp(w) \/ EndMatch(w)
  PROVE  OwnerInv'
  <1>1. /\ UNCHANGED <<warmRow, row, mine>>
        /\ walk[w] \in {"named", "configured", "playing", "cut"}
        /\ walk' \in {[walk EXCEPT ![w] = "closing"], [walk EXCEPT ![w] = "ending"]}
    BY DEF GiveUp, EndMatch, At, Throws, ledger
  <1>2. mine[w] \in Ids
    BY <1>1, MineIsMinted
  <1>3. Deallocated(mine[w])
    BY <1>2, GiveUpTyped
  <1>4. walk \in [Walks -> {"idle", "row", "given", "named", "moving", "configured",
                            "playing", "ending", "cut", "closing", "done", "lost"}]
    BY DEF TypeInv, TypeOK, WalkType
  <1>5. \A v \in Walks : /\ walk'[v] \in {"row", "given"} => walk'[v] = walk[v]
                         /\ \A d \in Ids : Has(v, d)' => Has(v, d)
    BY <1>1, <1>4 DEF Has
  <1>6. ASSUME NEW v \in Walks, walk'[v] = "given", mine[v] = mine[w] PROVE FALSE
    <2>1. walk[v] = "given" /\ v # w
      BY <1>1, <1>4, <1>6
    <2>2. Has(v, mine[w]) /\ Has(w, mine[w])
      BY <1>1, <1>6, <2>1 DEF Has
    <2> QED BY <1>2, <2>1, <2>2 DEF OwnerInv, OneMatchEach
  <1>7. \A v \in Walks : walk'[v] # "given" /\ walk[v] = "given" => FALSE
    BY <1>1, <1>4
  <1> QED BY <1>1, <1>2, <1>3, <1>5, <1>6, <1>7, DeallocateOwner

LEMMA ExpireOwner ==
  ASSUME TypeInv, FleetInv, OwnerInv, Expire
  PROVE  OwnerInv'
  <1>1. /\ Deallocate(reaping) /\ UNCHANGED <<row, walk, mine>>
        /\ warmRow' = [warmRow EXCEPT ![reaping] = "expired"] /\ reaping # None
    BY DEF Expire, ReaperUnchanged, walks
  <1>2. reaping \in Ids
    BY <1>1, FleetAssumption DEF TypeInv, TypeOK, ProviderType, Ids, None
  <1>3. Deallocated(reaping)
    BY <1>1, <1>2, DeallocateStands
  <1>4. /\ \A d \in Ids : warmRow'[d] = warmRow[d] \/ warmRow'[d] # "open"
        /\ warmRow'[reaping] # "open"
    BY <1>1, <1>2 DEF TypeInv, TypeOK, LedgerType
  <1> QED BY <1>1, <1>2, <1>3, <1>4, DeallocateOwner DEF Has

LEMMA ReapOrphanOwner ==
  ASSUME TypeInv, FleetInv, OwnerInv, NEW c \in Ids, ReapOrphan(c)
  PROVE  OwnerInv'
  <1>1. Deallocate(c) /\ UNCHANGED <<warmRow, row, walk, mine>>
        /\ \A w \in Walks : walk[w] = "given" => mine[w] # c
    BY DEF ReapOrphan, ReaperUnchanged, walks
  <1>2. Deallocated(c)
    BY <1>1, DeallocateStands
  <1> QED BY <1>1, <1>2, DeallocateOwner DEF Has

LEMMA RestartOwner ==
  ASSUME TypeInv, FleetInv, OwnerInv, Restart
  PROVE  OwnerInv'
  <1>1. /\ UNCHANGED <<warmRow, row, mine>>
        /\ held' = [c \in Ids |-> Unheld] /\ jobs' = [k \in Jobs |-> IdleJob]
        /\ walk' = [w \in Walks |->
                  CASE walk[w] \in {"row", "given", "named", "moving", "configured",
                                    "closing"} -> "lost"
                    [] walk[w] = "ending" -> "cut"
                    [] OTHER -> walk[w]]
    BY DEF Restart, ledger
  <1>2. \A w \in Walks : \/ walk'[w] = walk[w] /\ walk[w] \notin {"row", "given"}
                         \/ walk'[w] = "lost"
                         \/ walk[w] = "ending" /\ walk'[w] = "cut"
    BY <1>1
  <1>3. \A j \in Jobs : ToRead(jobs'[j]) = {}
    BY <1>1 DEF ToRead, IdleJob
  <1>4. ASSUME NEW w \in Walks, NEW c \in Ids, Has(w, c)' PROVE OwnedStep(w, c)
    <2>1. Has(w, c)
      BY <1>1, <1>2, <1>4 DEF Has
    <2>2. walk[w] # "given" /\ walk'[w] # "given"
      BY <1>2, <1>4 DEF Has
    <2>3. Owned(w, c)
      BY <2>1 DEF OwnerInv
    <2> QED BY <1>1, <1>3, <2>1, <2>2, <2>3 DEF OwnedStep, Owned, RowNames, Unheld
  <1> QED BY <1>2, <1>4, OwnedSteps

\* An adopt lists no row of the pool's that a walk has the container of.
LEMMA ListRowsOwner ==
  ASSUME TypeInv, FleetInv, OwnerInv, NEW j \in Jobs, ListRows(j)
  PROVE  OwnerInv'
  <1>1. UNCHANGED <<warmRow, row, walk, mine, held>> /\ \A k \in Jobs \ {j} : jobs'[k] = jobs[k]
    BY TaskElsewhere, ListRowsTyped DEF ListRows
  <1>2. ToRead(jobs'[j]) = {r \in AdoptableRows : ~held[r.c].known}
    BY ListRowsTyped
  <1>3. ASSUME NEW w \in Walks, NEW c \in Ids, Has(w, c)' PROVE OwnedStep(w, c)
    <2>1. Has(w, c) /\ Owned(w, c)
      BY <1>1, <1>3 DEF Has, OwnerInv
    <2>2. [c |-> c, own |-> NoOne] \notin ToRead(jobs'[j])
      <3> SUFFICES ASSUME [c |-> c, own |-> NoOne] \in AdoptableRows, ~held[c].known
                   PROVE  FALSE
        BY <1>2
      <3>1. OpenRows(c) = {NoOne}
        BY DEF AdoptableRows
      <3>2. w \notin OpenRows(c) /\ NoOne \in OpenRows(c)
        BY <3>1, FleetAssumption
      <3>3. ~RowNames(w, c) /\ warmRow[c] = "open"
        BY <3>2, FleetAssumption DEF OpenRows
      <3> QED BY <2>1, <3>3 DEF Owned
    <2> QED BY <1>1, <2>1, <2>2 DEF OwnedStep, Owned, RowNames
  <1> QED BY <1>1, <1>3, OwnedSteps DEF OwnerInv

LEMMA AdoptOneOwner ==
  ASSUME TypeInv, FleetInv, OwnerInv, NEW j \in Jobs, AdoptOne(j)
  PROVE  OwnerInv'
  <1>1. UNCHANGED <<warmRow, row, walk, mine>> /\ \A k \in Jobs \ {j} : jobs'[k] = jobs[k]
    BY TaskElsewhere, AdoptOneTyped DEF AdoptOne
  <1>2. PICK has \in BOOLEAN, warm \in BOOLEAN :
           held' = [held EXCEPT ![jobs[j].c] = Holding(jobs[j].own, has, warm)]
    BY AdoptOneTyped
  <1>3. /\ jobs[j].c \in Ids /\ [c |-> jobs[j].c, own |-> jobs[j].own] \in ToRead(jobs[j])
        /\ ToRead(jobs'[j]) \subseteq ToRead(jobs[j])
    BY AdoptOneTyped
  <1>4. ASSUME NEW w \in Walks, NEW c \in Ids, Has(w, c)' PROVE OwnedStep(w, c)
    <2>1. Has(w, c) /\ Owned(w, c)
      BY <1>1, <1>4 DEF Has, OwnerInv
    <2>2. CASE c = jobs[j].c
      <3>1. jobs[j].own # NoOne
        BY <1>3, <2>1, <2>2 DEF Owned
      <3>2. held'[c].known /\ held'[c].owner = jobs[j].own
        BY <1>2, <1>3, <2>2, TaskKept DEF Holding
      <3> QED BY <1>1, <1>3, <2>1, <3>1, <3>2 DEF OwnedStep, Owned, RowNames
    <2>3. CASE c # jobs[j].c
      <3>1. held'[c] = held[c]
        BY <1>2, <2>3, TaskKept
      <3> QED BY <1>1, <1>3, <2>1, <3>1 DEF OwnedStep, Owned, RowNames
    <2> QED BY <2>2, <2>3
  <1> QED BY <1>1, <1>4, OwnedSteps DEF OwnerInv

\* A container a task has minted is with no walk.
LEMMA MintedIsFree ==
  ASSUME TypeInv, FleetInv, NEW j \in Jobs, Minting(jobs[j]), NEW c \in Ids, c = jobs[j].c
  PROVE  Unstarted(c) /\ Given(c) = {} /\ \A w \in Walks : ~Has(w, c)
  <1>1. j \in MintedBy(c) /\ born[c] = "warm" /\ c \notin Foreign
    BY DEF MintedBy, FleetInv, MintInv
  <1>2. Unstarted(c)
    BY <1>1 DEF Unstarted
  <1>3. Given(c) = {}
    BY <1>2 DEF FleetInv, HiddenInv
  <1> QED BY <1>2, <1>3, HasIsGiven

LEMMA MintOwner ==
  ASSUME TypeInv, FleetInv, OwnerInv, NEW j \in Jobs,
         NodeRead(j) \/ OpenWarm(j) \/ StartWarm(j) \/ Unsent(j)
  PROVE  OwnerInv'
  <1>1. UNCHANGED <<row, walk, mine>>
    BY TaskElsewhere DEF NodeRead, OpenWarm, StartWarm, Unsent
  <1>2. \A k \in Jobs : ToRead(jobs'[k]) \subseteq ToRead(jobs[k])
    BY NodeReadTyped, OpenWarmTyped, StartWarmTyped, UnsentTyped DEF GoneOn, ToRead
  <1>3. \/ UNCHANGED <<warmRow, held>>
        \/ /\ Minting(jobs[j]) /\ jobs[j].c \in Ids
           /\ \A d \in Ids : d # jobs[j].c => warmRow'[d] = warmRow[d] /\ held'[d] = held[d]
    <2>1. CASE NodeRead(j)
      BY <2>1 DEF NodeRead
    <2>2. CASE OpenWarm(j)
      BY <2>2, OpenWarmTyped, TaskKept DEF OpenWarm, Minting
    <2>3. CASE StartWarm(j)
      BY <2>3, StartWarmTyped, TaskKept DEF StartWarm, Minting
    <2>4. CASE Unsent(j)
      BY <2>4, UnsentTyped, TaskKept DEF Unsent, Minting
    <2> QED BY <2>1, <2>2, <2>3, <2>4
  <1>4. ASSUME NEW w \in Walks, NEW c \in Ids, Has(w, c)' PROVE OwnedStep(w, c)
    <2>1. Has(w, c) /\ Owned(w, c)
      BY <1>1, <1>4 DEF Has, OwnerInv
    <2>2. warmRow'[c] = warmRow[c] /\ held'[c] = held[c]
      BY <1>3, <2>1, MintedIsFree
    <2> QED BY <1>1, <1>2, <2>1, <2>2 DEF OwnedStep, Owned, RowNames
  <1> QED BY <1>1, <1>4, OwnedSteps DEF OwnerInv

LEMMA OwnerStep ==
  ASSUME TypeInv, FleetInv, OwnerInv, "overtaken" \notin Mishaps, [Next]_vars
  PROVE  OwnerInv'
  <1>1. CASE Moves
    BY <1>1, MovesAreWire, WireOwner
  <1>2. ASSUME NEW j \in Jobs, JobStep(j) PROVE OwnerInv'
    <2>1. CASE Judge(j)
      BY <2>1, TaskElsewhere, JudgeTyped, QuietMints, SameOwner DEF Judge
    <2> QED BY <1>2, <2>1, ListRowsOwner, AdoptOneOwner, MintOwner DEF JobStep
  <1>3. ASSUME NEW w \in Walks, OpenRow(w) \/ WalkStep(w) \/ EndMatch(w) PROVE OwnerInv'
    BY <1>3, RowsOwner, ClaimOwner, ColdOwner, EndOwner DEF WalkStep
  <1>4. ASSUME NEW c \in Ids, ReadExpired(c) \/ Relink(c) PROVE OwnerInv'
    BY <1>4, SameOwner DEF ReadExpired, Relink, ReaperUnchanged, ledger, walks, provider
  <1>5. ASSUME NEW c \in Ids, ReapOrphan(c) PROVE OwnerInv'
    BY <1>5, ReapOrphanOwner
  <1>6. CASE Expire
    BY <1>6, ExpireOwner
  <1>7. CASE Restart
    BY <1>7, RestartOwner
  <1> QED BY <1>1, <1>2, <1>3, <1>4, <1>5, <1>6, <1>7, StepsOfTheFleet

\* Unless a claim overtakes an adopt between its read of an open row and its hold, whatever else
\* fails, no container is ever with two matches (provider.ts claimWarm, allocate and adopt).
THEOREM OneMatchForEach == "overtaken" \notin Mishaps => (Spec => []OneMatchEach)
  <1> SUFFICES ASSUME "overtaken" \notin Mishaps PROVE Spec => []OneMatchEach
    OBVIOUS
  <1>1. Init => OwnerInv
    BY OwnerInit
  <1>2. (TypeInv /\ FleetInv) /\ OwnerInv /\ [Next]_vars => OwnerInv'
    BY OwnerStep
  <1>3. OwnerInv => OneMatchEach
    BY DEF OwnerInv
  <1> QED BY <1>1, <1>2, <1>3, FleetIsKnown, PTL DEF Spec

-----------------------------------------------------------------------------
(* What it is told: the steps.                                             *)

LEMMA TellInit == Init => TellInv
  <1> SUFFICES ASSUME Init PROVE TellInv
    OBVIOUS
  <1>1. /\ \A c \in Ids : c # None
        /\ \A j \in Jobs : jobs[j] = IdleJob /\ ToRead(jobs[j]) = {} /\ ~Minting(jobs[j])
        /\ \A c \in Ids : Given(c) = {} /\ ~Stopping(c)
    BY FleetAssumption DEF Init, IdleJob, ToRead, Minting, Ids, None, Given, Stopping
  <1>2. SpareInv
    BY <1>1 DEF Init, SpareInv, PoolOf, ReadBy, Unheld, IdleJob
  <1>3. StartInv
    BY DEF Init, StartInv, Walked
  <1>4. ColdInv
    BY <1>1 DEF Init, ColdInv
  <1>5. StopInv
    BY <1>1 DEF StopInv
  <1> QED BY <1>2, <1>3, <1>4, <1>5 DEF TellInv

\* A step that leaves a walk and its container alone.
Spared(c) ==
    /\ warmRow'[c] = warmRow[c] /\ token'[c] = token[c] /\ held'[c] = held[c] /\ born'[c] = born[c]
    /\ bound'[c] \in {bound[c], "none"}
    /\ \A u \in Walks : row'[u].server = c => row[u].server = c
    /\ held[c].known /\ Unread(c) => Unread(c)'

LEMMA WalkedStays ==
  ASSUME TypeInv, FleetInv, StartInv, NEW v \in Walks, walk'[v] = walk[v], mine'[v] = mine[v],
         \A c \in Ids : Has(v, c) /\ walk[v] \notin {"ending", "cut"} => Spared(c),
         \A c \in Ids : warmRow'[c] = "open" => warmRow[c] = "open" \/ Given(c) = {}
  PROVE  Walked(v)'
  <1>1. Walked(v)
    BY DEF StartInv
  <1>2. CASE walk[v] \in {"ending", "cut", "closing"}
    <2>1. PICK c \in Ids : c = mine[v]
      BY <1>2, MineIsMinted
    <2>2. Given(c) # {}
      BY <2>1 DEF Given
    <2> QED BY <1>1, <1>2, <2>1, <2>2 DEF Walked
  <1>3. CASE walk[v] \in {"given", "named", "moving", "configured", "playing"}
    <2>1. PICK c \in Ids : c = mine[v]
      BY <1>3, MineIsMinted
    <2>2. Spared(c)
      BY <1>3, <2>1 DEF Has
    <2>3. CASE walk[v] = "playing"
      <3>1. Playing(v)
        BY <1>1, <2>3 DEF Walked
      <3>2. Playing(v)'
        BY <2>1, <2>2, <3>1 DEF Playing, Spared, UnderItsRow, TakenForCold
      <3> QED BY <2>3, <3>2 DEF Walked
    <2>4. CASE walk[v] # "playing"
      <3>1. Starting(v)
        BY <1>1, <1>3, <2>4 DEF Walked
      <3>2. Starting(v)'
        BY <2>1, <2>2, <3>1 DEF Starting, Spared
      <3> QED BY <1>3, <2>4, <3>2 DEF Walked
    <2> QED BY <2>3, <2>4
  <1>4. CASE walk[v] \notin {"given", "named", "moving", "configured", "playing", "ending", "cut", "closing"}
    BY <1>4 DEF Walked
  <1> QED BY <1>2, <1>3, <1>4

LEMMA UnreadStays ==
  ASSUME \A j \in Jobs : ToRead(jobs'[j]) \subseteq ToRead(jobs[j])
  PROVE  \A c \in Ids : Unread(c) => Unread(c)'
  BY DEF Unread

\* A step of the tasks that neither reads nor mints, and of what is told.
LEMMA QuietTell ==
  ASSUME TypeInv, FleetInv, TellInv, UNCHANGED <<warmRow, row, token, walk, mine, held, reaping, born>>,
         QuietJobs, \A c \in Ids : bound'[c] \in {bound[c], "none"},
         \A c \in Ids : Stopping(c)' => Stopping(c) \/ Spent(c)
  PROVE  TellInv'
  <1>1. /\ \A c \in Ids : MintedBy(c)' = MintedBy(c)
        /\ \A j \in Jobs : /\ Minting(jobs'[j]) => jobs'[j] = jobs[j]
                           /\ ToRead(jobs'[j]) \subseteq ToRead(jobs[j])
                           /\ jobs'[j].at = "find" => jobs'[j] = jobs[j]
    BY QuietMints DEF QuietJobs
  <1>2. \A c \in Ids : Unstarted(c)' = Unstarted(c) /\ Given(c)' = Given(c)
    BY <1>1 DEF Unstarted, Given
  <1>3. SpareInv'
    <2>1. ASSUME NEW c \in Ids PROVE PoolOf(c)'
      <3>1. PoolOf(c)
        BY DEF TellInv, SpareInv
      <3> QED BY <1>2, <3>1 DEF PoolOf, Spare
    <2>2. ASSUME NEW j \in Jobs PROVE ReadBy(j)'
      <3>1. ReadBy(j)
        BY DEF TellInv, SpareInv
      <3>2. \A r \in ToRead(jobs'[j]) : r.own = NoOne => Spare(r.c)
        BY <1>1, <3>1 DEF ReadBy
      <3>3. \A r \in ToRead(jobs'[j]) : r.own = NoOne =>
                /\ \A w \in Walks : row'[w].server # r.c
                /\ warmRow'[r.c] \in {"open", "failed"} /\ token'[r.c] \in {"none", "warm"}
        BY <3>2 DEF Spare
      <3>4. /\ jobs'[j].at = "find" /\ jobs'[j].warm => born'[jobs'[j].c] = "warm"
            /\ Minting(jobs'[j]) => token'[jobs'[j].c] \in {"none", "warm"}
        BY <1>1, <3>1 DEF ReadBy
      <3> QED BY <3>3, <3>4 DEF ReadBy, Spare
    <2> QED BY <2>1, <2>2 DEF SpareInv, TellInv
  <1>4. StartInv'
    <2>1. \A c \in Ids : Spared(c)
      BY <1>1, UnreadStays DEF Spared
    <2>2. \A v \in Walks : Walked(v)'
      BY <2>1, WalkedStays DEF TellInv
    <2> QED BY <2>2 DEF StartInv
  <1>5. ColdInv'
    BY <1>2 DEF TellInv, ColdInv
  <1>6. StopInv'
    <2>1. \A c \in Ids : Spent(c) => Spent(c)'
      BY <1>1, <1>2 DEF Spent, MintedBy
    <2> QED BY <2>1 DEF TellInv, StopInv
  <1> QED BY <1>3, <1>4, <1>5, <1>6 DEF TellInv

LEMMA WireTell ==
  ASSUME TypeInv, FleetInv, TellInv, WireMove
  PROVE  TellInv'
  <1>1. \A c \in Ids : Stopping(c)' => Stopping(c)
    BY DEF WireMove, Stopping
  <1> QED BY <1>1, QuietTell DEF WireMove

\* The row of a container's link is the row its token opens.
LEMMA RelinkTell ==
  ASSUME TypeInv, FleetInv, TellInv, NEW c \in Ids, Relink(c)
  PROVE  TellInv'
  <1>1. /\ UNCHANGED <<warmRow, row, token, walk, mine, held, told, jobs, reaping, born, down>>
        /\ bound' = [bound EXCEPT ![c] = token[c]]
    BY DEF Relink, ledger, walks, provider, wire
  <1>2. bound'[c] = token[c] /\ \A d \in Ids \ {c} : bound'[d] = bound[d]
    BY <1>1 DEF TypeInv, TypeOK, AgentType
  <1>3. /\ \A d \in Ids : Unstarted(d)' = Unstarted(d) /\ Given(d)' = Given(d) /\ Unread(d)' = Unread(d)
        /\ \A d \in Ids : Stopping(d)' = Stopping(d) /\ Spent(d)' = Spent(d)
    BY <1>1 DEF Unstarted, Given, Unread, MintedBy, Minting, ToRead, Stopping, Spent
  <1>4. SpareInv'
    <2>1. \A d \in Ids : PoolOf(d)' = PoolOf(d)
      BY <1>1, <1>3 DEF PoolOf, Spare
    <2>2. \A j \in Jobs : ReadBy(j)' = ReadBy(j)
      BY <1>1 DEF ReadBy, Spare, ToRead, Minting
    <2> QED BY <1>1, <2>1, <2>2 DEF TellInv, SpareInv
  <1>5. StartInv'
    <2>1. ASSUME NEW v \in Walks PROVE Walked(v)'
      <3>1. Walked(v)
        BY DEF TellInv, StartInv
      <3>2. CASE walk[v] = "playing"
        <4>1. PICK d \in Ids : d = mine[v]
          BY <3>2, MineIsMinted
        <4>2. Playing(v)
          BY <3>1, <3>2 DEF Walked
        <4>3. Playing(v)'
          BY <1>1, <1>2, <1>3, <4>1, <4>2 DEF Playing, UnderItsRow, TakenForCold
        <4> QED BY <1>1, <3>2, <4>3 DEF Walked
      <3>3. CASE walk[v] # "playing"
        <4>1. walk[v] \in {"given", "named", "moving", "configured"} => Starting(v)'
          <5> SUFFICES ASSUME walk[v] \in {"given", "named", "moving", "configured"} PROVE Starting(v)'
            OBVIOUS
          <5>1. Starting(v) /\ mine[v] \in Ids
            BY <3>1, MineIsMinted DEF Walked
          <5> QED BY <1>1, <1>3, <5>1 DEF Starting
        <4> QED BY <1>1, <3>1, <3>3, <4>1 DEF Walked
      <3> QED BY <3>2, <3>3
    <2> QED BY <2>1 DEF StartInv
  <1>6. ColdInv'
    BY <1>1, <1>2, <1>3 DEF TellInv, ColdInv
  <1>7. StopInv'
    BY <1>3 DEF TellInv, StopInv
  <1> QED BY <1>4, <1>5, <1>6, <1>7 DEF TellInv

LEMMA JudgeTell ==
  ASSUME TypeInv, FleetInv, OwnerInv, TellInv, NEW j \in Jobs, Judge(j)
  PROVE  TellInv'
  <1>1. UNCHANGED <<warmRow, token, held, born, row, walk, mine, reaping, bound>>
    BY TaskElsewhere DEF Judge
  <1>2. /\ QuietJobs /\ jobs[j].c \in Ids
        /\ \A i \in 1 .. Len(down') :
                \/ down'[i] = Frame("stop", jobs[j].c) /\ HasRow(jobs[j].c) /\ ~LastRow(jobs[j].c)
                \/ \E k \in 1 .. Len(down) : down'[i] = down[k]
    BY JudgeTyped
  <1>3. PICK c \in Ids : c = jobs[j].c
    BY <1>2
  <1>4. HasRow(c) /\ ~LastRow(c) => Spent(c)
    <2> SUFFICES ASSUME HasRow(c), ~LastRow(c) PROVE Spent(c)
      OBVIOUS
    <2>1. PoolOf(c)
      BY DEF TellInv, SpareInv
    <2>2. warmRow[c] # "open"
      BY <2>1 DEF PoolOf, LastRow, RowNames
    <2>3. Recorded(c) /\ born[c] # "none"
      BY DEF Recorded, FleetInv, LedgerInv
    <2>4. ASSUME NEW i \in MintedBy(c), jobs[i].at = "row" PROVE FALSE
      <3>1. warmRow[c] = "none" /\ Given(c) = {}
        BY <2>4, MintedIsFree DEF MintedBy, FleetInv, MintInv
      <3>2. PICK w \in Walks : row[w].server = c
        BY <3>1 DEF HasRow
      <3>3. c # None
        BY FleetAssumption DEF Ids, None
      <3>4. w \in Given(c)
        BY <3>2, <3>3 DEF Given, FleetInv, WalkInv
      <3> QED BY <3>1, <3>4
    <2>5. ASSUME NEW w \in Given(c) PROVE walk[w] \in {"ending", "cut", "closing", "done", "lost"}
      <3>1. w \in Walks /\ mine[w] = c /\ c # None
        BY FleetAssumption DEF Given, Ids, None
      <3>2. walk[w] \notin {"idle", "row"}
        BY <3>1 DEF FleetInv, WalkInv
      <3>3. walk[w] # "given"
        <4> SUFFICES ASSUME walk[w] = "given" PROVE FALSE
          OBVIOUS
        <4>1. Starting(w) /\ row[w].server = None
          BY <3>1 DEF TellInv, StartInv, Walked, FleetInv, WalkInv
        <4>2. \A v \in Walks : row[v].server # c
          BY <3>1, <4>1 DEF Starting
        <4>3. warmRow[c] # "none"
          BY <4>2 DEF HasRow
        <4> QED BY <2>2, <3>1, <4>1, <4>3 DEF Starting
      <3>4. ~Has(w, c) \/ walk[w] = "given"
        BY <3>1 DEF OwnerInv, Owned, LastRow, RowNames
      <3>5. walk[w] \in {"idle", "row", "given", "named", "moving", "configured",
                         "playing", "ending", "cut", "closing", "done", "lost"}
        BY <3>1 DEF TypeInv, TypeOK, WalkType
      <3> QED BY <3>1, <3>2, <3>3, <3>4, <3>5 DEF Has
    <2> QED BY <2>2, <2>3, <2>4, <2>5 DEF Spent
  <1>5. \A d \in Ids : Stopping(d)' => Stopping(d) \/ Spent(d)
    BY <1>2, <1>3, <1>4 DEF Stopping, Frame
  <1> QED BY <1>1, <1>2, <1>5, QuietTell

\* The invariants of one container.
ColdOf(c) ==
    /\ born[c] = "none" => token[c] = "none" /\ bound[c] = "none"
    /\ born[c] = "match" =>
           /\ \A v, w \in Given(c) : v = w
           /\ token[c] \in Given(c) \cup {"none"} /\ bound[c] \in Given(c) \cup {"none"}
StopOf(c) == Stopping(c) => Spent(c)

\* A step that is about other containers.
Apart(c) ==
    /\ warmRow'[c] = warmRow[c] /\ token'[c] = token[c] /\ held'[c] = held[c] /\ born'[c] = born[c]
    /\ bound'[c] \in {bound[c], "none"}
    /\ \A u \in Walks : \/ row'[u] = row[u] /\ walk'[u] = walk[u] /\ mine'[u] = mine[u]
                        \/ c \notin {row[u].server, row'[u].server, mine[u], mine'[u]}
    /\ Unstarted(c) => Unstarted(c)'
    /\ Stopping(c)' => Stopping(c)
    /\ \A j \in Jobs : jobs'[j].at = "row" /\ jobs'[j].c = c => jobs[j].at = "row" /\ jobs[j].c = c

LEMMA ApartStands ==
  ASSUME TellInv, NEW c \in Ids, Apart(c)
  PROVE  PoolOf(c)' /\ ColdOf(c)' /\ StopOf(c)'
  <1>1. PoolOf(c) /\ ColdOf(c) /\ StopOf(c)
    BY DEF TellInv, SpareInv, ColdInv, ColdOf, StopInv, StopOf
  <1>2. Given(c)' = Given(c)
    BY DEF Apart, Given
  <1>3. PoolOf(c)'
    <2>1. Spare(c) => Spare(c)'
      BY DEF Apart, Spare
    <2>2. \A w \in Walks : warmRow'[c] = "open" /\ row'[w].server = c =>
                               row'[w].open /\ walk'[w] \in {"named", "moving", "lost"}
      BY <1>1 DEF Apart, PoolOf
    <2>3. warmRow'[c] = "open" =>
              token'[c] \in {"none", "warm"} \/ \E w \in Walks : row'[w].server = c
      BY <1>1 DEF Apart, PoolOf
    <2> QED BY <1>1, <2>1, <2>2, <2>3 DEF Apart, PoolOf
  <1>4. ColdOf(c)'
    BY <1>1, <1>2 DEF Apart, ColdOf
  <1>5. StopOf(c)'
    <2>1. \A w \in Given(c) : walk'[w] = walk[w]
      BY DEF Apart, Given
    <2>2. (\A j \in MintedBy(c) : jobs[j].at # "row") => \A j \in MintedBy(c)' : jobs'[j].at # "row"
      BY DEF Apart, MintedBy, Minting
    <2> QED BY <1>1, <1>2, <2>1, <2>2 DEF Apart, StopOf, Spent
  <1> QED BY <1>3, <1>4, <1>5

\* What a step has to show: of the containers it touches, of the tasks and of the walks.
LEMMA TellSteps ==
  ASSUME TypeInv, FleetInv, TellInv, NEW T \in SUBSET Ids, reaping' = None,
         \A c \in Ids \ T : Apart(c),
         \A c \in T : PoolOf(c)' /\ ColdOf(c)' /\ StopOf(c)',
         \A c \in T : warmRow'[c] = "open" => warmRow[c] = "open" \/ Given(c) = {},
         \A c \in Ids : held[c].known /\ Unread(c) => Unread(c)',
         \A j \in Jobs : ReadBy(j)',
         \A v \in Walks : \/ Walked(v)'
                          \/ /\ walk'[v] = walk[v] /\ mine'[v] = mine[v]
                             /\ \A c \in T : Has(v, c) => walk[v] \in {"ending", "cut"} \/ Spared(c)
  PROVE  TellInv'
  <1>1. \A c \in Ids : PoolOf(c)' /\ ColdOf(c)' /\ StopOf(c)'
    BY ApartStands
  <1>2. SpareInv' /\ ColdInv' /\ StopInv'
    BY <1>1 DEF SpareInv, ColdInv, ColdOf, StopInv, StopOf
  <1>3. \A c \in Ids \ T : Spared(c)
    BY DEF Apart, Spared
  <1>4. \A c \in Ids : warmRow'[c] = "open" => warmRow[c] = "open" \/ Given(c) = {}
    BY DEF Apart
  <1>5. ASSUME NEW v \in Walks, walk'[v] = walk[v], mine'[v] = mine[v],
               \A c \in T : Has(v, c) => walk[v] \in {"ending", "cut"} \/ Spared(c)
        PROVE  Walked(v)'
    BY <1>3, <1>4, <1>5, WalkedStays DEF TellInv
  <1>6. StartInv'
    BY <1>5 DEF StartInv
  <1> QED BY <1>2, <1>6 DEF TellInv

LEMMA TaskIsOfOne ==
  ASSUME TypeInv, NEW j \in Jobs, jobs[j].at \notin {"idle", "list", "node"}
  PROVE  jobs[j].c \in Ids
  <1>1. jobs[j].c \in 0 .. MaxIds /\ jobs[j].c # None
    BY TaskKept DEF JobType
  <1> QED BY <1>1, FleetAssumption DEF Ids, None

\* A task that reads and mints nothing new.
LEMMA ReadByStays ==
  ASSUME TypeInv, TellInv, NEW T \in SUBSET Ids, \A c \in Ids \ T : Apart(c),
         NEW j \in Jobs, ToRead(jobs'[j]) \subseteq ToRead(jobs[j]),
         Minting(jobs'[j]) => jobs'[j] = jobs[j],
         jobs'[j].at = "find" /\ jobs'[j].warm => jobs'[j] = jobs[j] \/ born'[jobs'[j].c] = "warm",
         \A c \in T : /\ [c |-> c, own |-> NoOne] \in ToRead(jobs[j]) => Spare(c)'
                      /\ born[c] = "warm" => born'[c] = "warm"
                      /\ Minting(jobs[j]) /\ jobs[j].c = c => token'[c] \in {"none", "warm"}
  PROVE  ReadBy(j)'
  <1>1. ReadBy(j)
    BY DEF TellInv, SpareInv
  <1>2. ASSUME NEW r \in ToRead(jobs'[j]), r.own = NoOne PROVE Spare(r.c)'
    <2>1. r \in Rows /\ r.c \in Ids
      BY <1>2, ReadIsTyped
    <2>2. PICK c \in Ids : c = r.c
      BY <2>1
    <2>3. Spare(c)
      BY <1>1, <1>2, <2>2 DEF ReadBy
    <2>4. r = [c |-> c, own |-> NoOne]
      BY <1>2, <2>1, <2>2 DEF Rows
    <2>5. Spare(c)'
      BY <1>2, <2>3, <2>4 DEF Apart, Spare
    <2> QED BY <2>2, <2>5 DEF Spare
  <1>3. \A c \in Ids : born[c] = "warm" => born'[c] = "warm"
    BY DEF Apart
  <1>4. jobs'[j].at = "find" /\ jobs'[j].warm => born'[jobs'[j].c] = "warm"
    <2> SUFFICES ASSUME jobs'[j] = jobs[j], jobs[j].at = "find", jobs[j].warm
                 PROVE  born'[jobs[j].c] = "warm"
      OBVIOUS
    <2>1. born[jobs[j].c] = "warm" /\ jobs[j].c \in Ids
      BY <1>1, TaskIsOfOne DEF ReadBy
    <2> QED BY <1>3, <2>1
  <1>5. Minting(jobs'[j]) => token'[jobs'[j].c] \in {"none", "warm"}
    <2> SUFFICES ASSUME jobs'[j] = jobs[j], Minting(jobs[j])
                 PROVE  token'[jobs[j].c] \in {"none", "warm"}
      OBVIOUS
    <2>1. token[jobs[j].c] \in {"none", "warm"} /\ jobs[j].c \in Ids
      BY <1>1, TaskIsOfOne DEF ReadBy, Minting
    <2> QED BY <2>1 DEF Apart
  <1> QED BY <1>2, <1>4, <1>5 DEF ReadBy

\* A step of one walk, about one container.
Beyond(c) ==
    \A d \in Ids \ {c} : /\ warmRow'[d] = warmRow[d] /\ token'[d] = token[d] /\ held'[d] = held[d]
                         /\ born'[d] = born[d] /\ bound'[d] = bound[d]
Says(c) ==
    \A i \in 1 .. Len(down') : \/ down'[i] \in {Frame("stop", c), Frame("start", c)}
                               \/ \E k \in 1 .. Len(down) : down'[i] = down[k]
Alone(w) == \A v \in Walks \ {w} : row'[v] = row[v] /\ walk'[v] = walk[v] /\ mine'[v] = mine[v]

LEMMA WalkApart ==
  ASSUME TypeInv, FleetInv, NEW w \in Walks, NEW c, Beyond(c), Says(c), QuietJobs, Alone(w),
         mine[w] \in {None, c}, mine'[w] \in {None, c}, row'[w].server \in {None, c}
  PROVE  \A d \in Ids \ {c} : Apart(d)
  <1> SUFFICES ASSUME NEW d \in Ids \ {c} PROVE Apart(d)
    OBVIOUS
  <1>1. row[w].server \in {None, c} /\ d # None
    BY FleetAssumption DEF FleetInv, WalkInv, Ids, None
  <1>2. \A u \in Walks : \/ row'[u] = row[u] /\ walk'[u] = walk[u] /\ mine'[u] = mine[u]
                         \/ d \notin {row[u].server, row'[u].server, mine[u], mine'[u]}
    BY <1>1 DEF Alone
  <1>3. MintedBy(d)' = MintedBy(d)
    BY QuietMints
  <1>4. Unstarted(d) => Unstarted(d)'
    BY <1>3 DEF Beyond, Unstarted
  <1>5. Stopping(d)' => Stopping(d)
    BY DEF Says, Stopping, Frame
  <1>6. \A j \in Jobs : jobs'[j].at = "row" => jobs'[j] = jobs[j]
    BY QuietMints DEF Minting
  <1> QED BY <1>2, <1>4, <1>5, <1>6 DEF Beyond, Apart

\* What a walk has is in no task's hands: no adopt is to hold it for nobody, none has minted it.
LEMMA HadIsRead ==
  ASSUME TypeInv, FleetInv, OwnerInv, NEW w \in Walks, NEW c \in Ids, Has(w, c)
  PROVE  /\ \A j \in Jobs : [c |-> c, own |-> NoOne] \notin ToRead(jobs[j])
         /\ \A j \in Jobs : ~(Minting(jobs[j]) /\ jobs[j].c = c)
         /\ born[c] = "match" \/ (born[c] = "warm" /\ warmRow[c] # "none")
         /\ w \in Given(c)
  <1>1. w \in Given(c)
    BY HasIsGiven
  <1>2. Recorded(c)
    BY <1>1 DEF Recorded
  <1>3. born[c] = "match" \/ (born[c] = "warm" /\ warmRow[c] # "none")
    BY <1>2 DEF FleetInv, LedgerInv
  <1>4. \A j \in Jobs : ~(Minting(jobs[j]) /\ jobs[j].c = c)
    BY <1>1, MintedIsFree
  <1> QED BY <1>1, <1>3, <1>4 DEF OwnerInv, Owned

\* The same of a step that touches one container.
LEMMA OneTell ==
  ASSUME TypeInv, FleetInv, TellInv, NEW c \in Ids, reaping' = None,
         \A d \in Ids \ {c} : Apart(d), PoolOf(c)', ColdOf(c)', StopOf(c)',
         warmRow'[c] = "open" => warmRow[c] = "open" \/ Given(c) = {},
         \A d \in Ids : held[d].known /\ Unread(d) => Unread(d)',
         \A j \in Jobs : ReadBy(j)',
         \A v \in Walks : \/ Walked(v)'
                          \/ /\ walk'[v] = walk[v] /\ mine'[v] = mine[v]
                             /\ Has(v, c) => walk[v] \in {"ending", "cut"} \/ Spared(c)
  PROVE  TellInv'
  <1> DEFINE T == {c}
  <1>1. T \in SUBSET Ids /\ \A d \in Ids \ T : Apart(d)
    OBVIOUS
  <1>2. /\ \A d \in T : PoolOf(d)' /\ ColdOf(d)' /\ StopOf(d)'
        /\ \A d \in T : warmRow'[d] = "open" => warmRow[d] = "open" \/ Given(d) = {}
    OBVIOUS
  <1>3. \A d \in T : d = c
    OBVIOUS
  <1> HIDE DEF T
  <1>4. \A v \in Walks : \/ Walked(v)'
                         \/ /\ walk'[v] = walk[v] /\ mine'[v] = mine[v]
                            /\ \A d \in T : Has(v, d) => walk[v] \in {"ending", "cut"} \/ Spared(d)
    BY <1>3
  <1> QED BY <1>1, <1>2, <1>4, TellSteps

LEMMA OneReads ==
  ASSUME TypeInv, TellInv, NEW c \in Ids, \A d \in Ids \ {c} : Apart(d),
         NEW j \in Jobs, ToRead(jobs'[j]) \subseteq ToRead(jobs[j]),
         Minting(jobs'[j]) => jobs'[j] = jobs[j],
         jobs'[j].at = "find" /\ jobs'[j].warm => jobs'[j] = jobs[j] \/ born'[jobs'[j].c] = "warm",
         [c |-> c, own |-> NoOne] \in ToRead(jobs[j]) => Spare(c)',
         born[c] = "warm" => born'[c] = "warm",
         Minting(jobs[j]) /\ jobs[j].c = c => token'[c] \in {"none", "warm"}
  PROVE  ReadBy(j)'
  <1> DEFINE T == {c}
  <1>1. T \in SUBSET Ids /\ \A d \in Ids \ T : Apart(d)
    OBVIOUS
  <1>2. \A d \in T : d = c
    OBVIOUS
  <1> HIDE DEF T
  <1>3. \A d \in T : /\ [c |-> d, own |-> NoOne] \in ToRead(jobs[j]) => Spare(d)'
                     /\ born[d] = "warm" => born'[d] = "warm"
                     /\ Minting(jobs[j]) /\ jobs[j].c = d => token'[d] \in {"none", "warm"}
    BY <1>2
  <1> QED BY <1>1, <1>3, ReadByStays

\* The same of a step of one walk that leaves the tasks alone, or has one of them top up.
LEMMA QuietOne ==
  ASSUME TypeInv, FleetInv, OwnerInv, TellInv, NEW w \in Walks, NEW c \in Ids,
         Beyond(c), Says(c), QuietJobs, Alone(w), mine[w] \in {None, c}, mine'[w] = c,
         row'[w].server \in {None, c}, reaping' = reaping,
         born[c] = "warm" => born'[c] = "warm",
         \A j \in Jobs : [c |-> c, own |-> NoOne] \notin ToRead(jobs[j]),
         \A j \in Jobs : ~(Minting(jobs[j]) /\ jobs[j].c = c),
         \A v \in Walks \ {w} : Has(v, c) => Spared(c),
         warmRow'[c] = "open" => warmRow[c] = "open",
         PoolOf(c)', ColdOf(c)', StopOf(c)', Walked(w)'
  PROVE  TellInv'
  <1>1. \A d \in Ids \ {c} : Apart(d)
    BY WalkApart
  <1>2. reaping' = None
    BY DEF TellInv, SpareInv
  <1>3. \A j \in Jobs : ToRead(jobs'[j]) \subseteq ToRead(jobs[j])
    BY QuietMints
  <1>4. ASSUME NEW j \in Jobs PROVE ReadBy(j)'
    <2>1. jobs'[j].at = "find" => jobs'[j] = jobs[j]
      BY DEF QuietJobs
    <2>2. Minting(jobs'[j]) => jobs'[j] = jobs[j]
      BY QuietMints
    <2> QED BY <1>1, <1>3, <2>1, <2>2, OneReads
  <1>5. \A d \in Ids : held[d].known /\ Unread(d) => Unread(d)'
    BY <1>3, UnreadStays
  <1>6. \A v \in Walks : \/ Walked(v)'
                         \/ /\ walk'[v] = walk[v] /\ mine'[v] = mine[v]
                            /\ Has(v, c) => walk[v] \in {"ending", "cut"} \/ Spared(c)
    BY DEF Alone
  <1> QED BY <1>1, <1>2, <1>4, <1>5, <1>6, OneTell

LEMMA WalkTell ==
  ASSUME TypeInv, FleetInv, OwnerInv, TellInv, NEW w \in Walks, NEW c \in Ids, Has(w, c),
         Beyond(c), Says(c), QuietJobs, Alone(w), mine'[w] = c, row'[w].server \in {None, c},
         reaping' = reaping, born' = born, warmRow'[c] = "open" => warmRow[c] = "open",
         PoolOf(c)', ColdOf(c)', StopOf(c)', Walked(w)'
  PROVE  TellInv'
  <1>1. \A v \in Walks \ {w} : ~Has(v, c)
    BY DEF OwnerInv, OneMatchEach
  <1> QED BY <1>1, HadIsRead, QuietOne DEF Has

LEMMA SaysLess ==
  ASSUME down' = down, NEW c
  PROVE  Says(c)
  BY DEF Says

\* A walk that has no container yet.
LEMMA FreshRowTell ==
  ASSUME TypeInv, FleetInv, OwnerInv, TellInv, NEW w \in Walks, OpenRow(w) \/ Rejected(w)
  PROVE  TellInv'
  <1>1. /\ UNCHANGED <<warmRow, token, mine, held, jobs, down, born, reaping, bound>>
        /\ walk[w] \in {"idle", "row"}
    BY WalkElsewhere DEF OpenRow, Rejected, At
  <1>2. /\ \A v \in Walks \ {w} : row'[v] = row[v] /\ walk'[v] = walk[v]
        /\ walk'[w] \in {"row", "done"} /\ row'[w].server = row[w].server
    BY DEF OpenRow, Rejected, At, TypeInv, TypeOK, LedgerType, WalkType
  <1>3. mine[w] = None /\ row[w].server = None
    BY <1>1 DEF FleetInv, WalkInv
  <1>4. Beyond(None) /\ Says(None) /\ QuietJobs /\ Alone(w) /\ None \notin Ids
    BY <1>1, <1>2, SaysLess, FleetAssumption DEF Beyond, QuietJobs, Alone, Ids, None
  <1>5. \A d \in Ids : Apart(d)
    BY <1>1, <1>2, <1>3, <1>4, WalkApart
  <1>6. ASSUME NEW j \in Jobs PROVE ReadBy(j)'
    BY <1>1, <1>5, ReadByStays, {} \in SUBSET Ids
  <1>7. Walked(w)'
    BY <1>2 DEF Walked
  <1>8. reaping' = None
    BY <1>1 DEF TellInv, SpareInv
  <1>9. \A d \in Ids : Unread(d)' = Unread(d)
    BY <1>1 DEF Unread
  <1> QED BY <1>1, <1>2, <1>5, <1>6, <1>7, <1>8, <1>9, TellSteps, {} \in SUBSET Ids

\* The steps of a walk that has its container and leaves the tasks alone.
LEMMA HavingTell ==
  ASSUME TypeInv, FleetInv, OwnerInv, TellInv, NEW w \in Walks,
         NameServer(w) \/ Configure(w) \/ CloseWarm(w) \/ Rebind(w) \/ StartCold(w), NEW c \in Ids,
         c = mine[w]
  PROVE  /\ Has(w, c) /\ Starting(w) /\ Beyond(c) /\ Says(c) /\ QuietJobs /\ Alone(w) /\ mine'[w] = c
         /\ row'[w].server \in {None, c} /\ reaping' = reaping /\ born' = born
         /\ warmRow'[c] = "open" => warmRow[c] = "open"
         /\ ~Stopping(c) /\ ~Stopping(c)' /\ Given(c)' = Given(c) /\ Unread(c)' = Unread(c)
  <1>1. /\ UNCHANGED <<mine, jobs, born, reaping>>
        /\ walk[w] \in {"given", "named", "moving", "configured"}
    BY WalkElsewhere DEF NameServer, Configure, CloseWarm, Rebind, StartCold, At, provider, agent
  <1>2. Has(w, c) /\ Starting(w)
    BY <1>1 DEF Has, TellInv, StartInv, Walked
  <1>3. /\ \A v \in Walks \ {w} : row'[v] = row[v] /\ walk'[v] = walk[v]
        /\ row'[w].server \in {row[w].server, c}
    BY DEF NameServer, Configure, CloseWarm, Rebind, StartCold, At, TypeInv, TypeOK, LedgerType,
           WalkType, ledger
  <1>4. /\ \A d \in Ids \ {c} : /\ warmRow'[d] = warmRow[d] /\ token'[d] = token[d]
                                /\ held'[d] = held[d] /\ bound'[d] = bound[d]
        /\ warmRow'[c] = "open" => warmRow[c] = "open"
    BY WalkElsewhere DEF NameServer, Configure, CloseWarm, Rebind, StartCold, TypeInv, TypeOK, LedgerType,
           ProviderType, AgentType, ledger, provider
  <1>5. \A i \in 1 .. Len(down') : \/ down'[i] = Frame("start", c)
                                   \/ \E k \in 1 .. Len(down) : down'[i] = down[k]
    <2>1. CASE StartCold(w)
      BY <2>1, StartColdTyped
    <2>2. CASE ~StartCold(w)
      BY <2>2 DEF NameServer, Configure, CloseWarm, Rebind, wire
    <2> QED BY <2>1, <2>2
  <1>6. ~Stopping(c)
    BY <1>1, <1>2 DEF TellInv, StopInv, Spent, Has, Given
  <1>7. ~Stopping(c)'
    BY <1>5, <1>6 DEF Stopping, Frame
  <1> QED BY <1>1, <1>2, <1>3, <1>4, <1>5, <1>6, <1>7
       DEF Beyond, Says, QuietJobs, Alone, Given, Unread, FleetInv, WalkInv

LEMMA NameServerTell ==
  ASSUME TypeInv, FleetInv, OwnerInv, TellInv, NEW w \in Walks, NameServer(w)
  PROVE  TellInv'
  <1>1. /\ UNCHANGED <<warmRow, token, mine, held, jobs, born, bound>>
        /\ walk[w] = "given" /\ walk'[w] = "named" /\ row'[w].server = mine[w]
        /\ row'[w].open = row[w].open
    BY WalkElsewhere DEF NameServer, At, TypeInv, TypeOK, LedgerType, WalkType
  <1>2. PICK c \in Ids : c = mine[w]
    BY <1>1, MineIsMinted
  <1>3. /\ Has(w, c) /\ Starting(w) /\ Beyond(c) /\ Says(c) /\ QuietJobs /\ Alone(w) /\ mine'[w] = c
        /\ row'[w].server \in {None, c} /\ reaping' = reaping /\ born' = born
        /\ warmRow'[c] = "open" => warmRow[c] = "open"
        /\ ~Stopping(c) /\ ~Stopping(c)' /\ Given(c)' = Given(c) /\ Unread(c)' = Unread(c)
    BY <1>2, HavingTell
  <1>4. w # NoOne /\ row[w].open
    BY <1>1, FleetAssumption DEF OwnerInv
  <1>5. \A v \in Walks : row'[v].server = c => v = w
    BY <1>2, <1>3 DEF Alone, Starting
  <1>6. PoolOf(c)'
    <2>1. PoolOf(c)
      BY DEF TellInv, SpareInv
    <2> QED BY <1>1, <1>2, <1>3, <1>4, <1>5, <2>1 DEF PoolOf, Starting
  <1>7. ColdOf(c)'
    BY <1>1, <1>3 DEF TellInv, ColdInv, ColdOf
  <1>8. StopOf(c)'
    BY <1>3 DEF StopOf
  <1>9. Walked(w)'
    <2>1. Starting(w)'
      BY <1>1, <1>2, <1>3, <1>5 DEF Starting
    <2> QED BY <1>1, <2>1 DEF Walked
  <1> QED BY <1>3, <1>6, <1>7, <1>8, <1>9, WalkTell

LEMMA ConfigureTell ==
  ASSUME TypeInv, FleetInv, OwnerInv, TellInv, NEW w \in Walks, Configure(w)
  PROVE  TellInv'
  <1>1. /\ UNCHANGED <<warmRow, row, mine, held, jobs, born, bound>>
        /\ walk[w] = "named" /\ walk'[w] = IF held[mine[w]].moving THEN "moving" ELSE "configured"
    BY WalkElsewhere DEF Configure, TypeInv, TypeOK, WalkType
  <1>2. PICK c \in Ids : c = mine[w]
    BY <1>1, MineIsMinted
  <1>3. /\ Has(w, c) /\ Starting(w) /\ Beyond(c) /\ Says(c) /\ QuietJobs /\ Alone(w) /\ mine'[w] = c
        /\ row'[w].server \in {None, c} /\ reaping' = reaping /\ born' = born
        /\ warmRow'[c] = "open" => warmRow[c] = "open"
        /\ ~Stopping(c) /\ ~Stopping(c)' /\ Given(c)' = Given(c) /\ Unread(c)' = Unread(c)
    BY <1>2, HavingTell
  <1>4. w # NoOne /\ RowNames(w, c)
    BY <1>1, <1>3, FleetAssumption DEF OwnerInv, Owned
  <1>5. token'[c] = IF held[c].moving /\ held[c].token THEN w ELSE token[c]
    BY <1>2 DEF Configure, TypeInv, TypeOK, LedgerType
  <1>6. born[c] = "match" => walk'[w] = "configured" /\ token'[c] = token[c]
    BY <1>1, <1>2, <1>3, <1>5 DEF Starting
  <1>7. born[c] # "match" => walk'[w] = "moving" /\ token'[c] = w /\ warmRow[c] = "open"
    BY <1>1, <1>2, <1>3, <1>5 DEF Starting
  <1>8. PoolOf(c)'
    <2>1. PoolOf(c) /\ \A v \in Walks : row[v].server = c => v = w
      BY <1>2, <1>3 DEF TellInv, SpareInv, Starting
    <2>2. held[c].owner = w /\ (born[c] = "match" => warmRow[c] = "none")
      BY <1>2, <1>3 DEF Starting
    <2> QED BY <1>1, <1>4, <1>7, <2>1, <2>2 DEF PoolOf, RowNames
  <1>9. ColdOf(c)'
    <2>1. born[c] \in {"warm", "match"}
      BY <1>3, HadIsRead
    <2> QED BY <1>1, <1>3, <1>6, <2>1 DEF TellInv, ColdInv, ColdOf
  <1>10. StopOf(c)'
    BY <1>3 DEF StopOf
  <1>11. Walked(w)'
    <2>1. Starting(w)'
      BY <1>1, <1>2, <1>3, <1>6, <1>7 DEF Starting
    <2> QED BY <1>1, <2>1 DEF Walked
  <1> QED BY <1>3, <1>8, <1>9, <1>10, <1>11, WalkTell

LEMMA CloseWarmTell ==
  ASSUME TypeInv, FleetInv, OwnerInv, TellInv, NEW w \in Walks, CloseWarm(w)
  PROVE  TellInv'
  <1>1. /\ UNCHANGED <<token, row, mine, jobs, born, bound>>
        /\ walk[w] = "moving" /\ walk'[w] = "configured"
    BY WalkElsewhere DEF CloseWarm, At, TypeInv, TypeOK, WalkType
  <1>2. PICK c \in Ids : c = mine[w]
    BY <1>1, MineIsMinted
  <1>3. /\ Has(w, c) /\ Starting(w) /\ Beyond(c) /\ Says(c) /\ QuietJobs /\ Alone(w) /\ mine'[w] = c
        /\ row'[w].server \in {None, c} /\ reaping' = reaping /\ born' = born
        /\ warmRow'[c] = "open" => warmRow[c] = "open"
        /\ ~Stopping(c) /\ ~Stopping(c)' /\ Given(c)' = Given(c) /\ Unread(c)' = Unread(c)
    BY <1>2, HavingTell
  <1>4. /\ warmRow'[c] = "claimed" /\ held'[c].known = held[c].known /\ held'[c].owner = held[c].owner
        /\ held'[c].warm = held[c].warm
    BY <1>2 DEF CloseWarm, TypeInv, TypeOK, LedgerType, ProviderType, Entries
  <1>5. born[c] = "warm" /\ token[c] = w /\ held[c].owner = w /\ w # NoOne
    BY <1>1, <1>2, <1>3, FleetAssumption DEF Starting, FleetInv, WalkInv
  <1>6. PoolOf(c)'
    <2>1. ~(held'[c].known /\ held'[c].owner = NoOne) /\ warmRow'[c] \notin {"open", "expired"}
      BY <1>4, <1>5
    <2>2. born'[c] = "warm"
      BY <1>1, <1>5
    <2> QED BY <2>1, <2>2 DEF PoolOf
  <1>7. ColdOf(c)'
    BY <1>1, <1>5 DEF ColdOf
  <1>8. StopOf(c)'
    BY <1>3 DEF StopOf
  <1>9. Walked(w)'
    <2>1. Starting(w)'
      BY <1>1, <1>2, <1>3, <1>4, <1>5 DEF Starting
    <2> QED BY <1>1, <2>1 DEF Walked
  <1> QED BY <1>3, <1>6, <1>7, <1>8, <1>9, WalkTell

\* A walk that starts its container points its link at its own row, or takes it for a cold one.
LEMMA StartTell ==
  ASSUME TypeInv, FleetInv, OwnerInv, TellInv, NEW w \in Walks, Rebind(w) \/ StartCold(w)
  PROVE  TellInv'
  <1>1. /\ UNCHANGED <<warmRow, row, mine, held, jobs, born>>
        /\ walk[w] = "configured" /\ walk'[w] = "playing"
    BY DEF Rebind, StartCold, At, TypeInv, TypeOK, WalkType, ledger, provider, agent
  <1>2. PICK c \in Ids : c = mine[w]
    BY <1>1, MineIsMinted
  <1>3. /\ Has(w, c) /\ Starting(w) /\ Beyond(c) /\ Says(c) /\ QuietJobs /\ Alone(w) /\ mine'[w] = c
        /\ row'[w].server \in {None, c} /\ reaping' = reaping /\ born' = born
        /\ warmRow'[c] = "open" => warmRow[c] = "open"
        /\ ~Stopping(c) /\ ~Stopping(c)' /\ Given(c)' = Given(c) /\ Unread(c)' = Unread(c)
    BY <1>2, HavingTell
  <1>4. /\ born[c] \in {"warm", "match"} /\ w \in Given(c)
        /\ held[c].known /\ held[c].owner = w /\ w # NoOne /\ Unread(c) /\ warmRow[c] # "open"
        /\ born[c] = "warm" => token[c] = w
    BY <1>1, <1>2, <1>3, HadIsRead, FleetAssumption DEF Starting
  <1>5. /\ token'[c] = IF born[c] = "match" THEN w ELSE token[c]
        /\ \/ born[c] = "warm" /\ bound'[c] = w
           \/ ~held[c].warm /\ bound'[c] = bound[c]
    <2>1. CASE Rebind(w)
      <3>1. born[c] = "warm"
        BY <1>2, <2>1 DEF Rebind, TellInv, SpareInv, PoolOf
      <3> QED BY <1>2, <2>1, <3>1 DEF Rebind, ledger, TypeInv, TypeOK, AgentType
    <2>2. CASE StartCold(w)
      BY <1>2, <2>2, WalkElsewhere DEF StartCold, TypeInv, TypeOK, LedgerType
    <2> QED BY <2>1, <2>2
  <1>6. PoolOf(c)'
    BY <1>1, <1>4 DEF TellInv, SpareInv, PoolOf
  <1>7. ColdOf(c)'
    BY <1>1, <1>3, <1>4, <1>5 DEF TellInv, ColdInv, ColdOf
  <1>8. StopOf(c)'
    BY <1>3 DEF StopOf
  <1>9. Walked(w)'
    <2>1. bound[c] \in {"none", w} \/ born[c] = "warm"
      BY <1>4 DEF TellInv, ColdInv
    <2>2. token'[c] = w /\ warmRow'[c] # "open"
      BY <1>1, <1>4, <1>5
    <2>3. UnderItsRow(w)' \/ (TakenForCold(c)' /\ Unread(c)')
      BY <1>1, <1>2, <1>3, <1>4, <1>5, <2>1 DEF UnderItsRow, TakenForCold
    <2>4. Playing(w)'
      BY <1>1, <1>2, <2>2, <2>3 DEF Playing, TakenForCold
    <2> QED BY <1>1, <2>4 DEF Walked
  <1> QED BY <1>3, <1>6, <1>7, <1>8, <1>9, WalkTell

\* A closed row of a walk is of a match that is over.
LEMMA CloseRowTell ==
  ASSUME TypeInv, FleetInv, OwnerInv, TellInv, NEW w \in Walks, CloseRow(w)
  PROVE  TellInv'
  <1>1. /\ UNCHANGED <<warmRow, token, mine, held, jobs, down, born, reaping, bound>>
        /\ walk[w] \in {"closing", "ending"}
    BY WalkElsewhere DEF CloseRow
  <1>2. /\ \A v \in Walks \ {w} : row'[v] = row[v] /\ walk'[v] = walk[v]
        /\ walk'[w] = "done" /\ row'[w].server = row[w].server /\ ~row'[w].open
    BY DEF CloseRow, TypeInv, TypeOK, LedgerType, WalkType
  <1>3. PICK c \in Ids : c = mine[w]
    BY <1>1, MineIsMinted
  <1>4. Beyond(c) /\ Says(c) /\ QuietJobs /\ Alone(w) /\ Spared(c)
    BY <1>1, <1>2, SaysLess DEF Beyond, QuietJobs, Alone, Spared, Unread
  <1>5. /\ row'[w].server \in {None, c} /\ w \in Given(c) /\ warmRow[c] # "open"
        /\ \A d \in Ids : Given(d)' = Given(d) /\ MintedBy(d)' = MintedBy(d)
    BY <1>1, <1>2, <1>3 DEF FleetInv, WalkInv, Given, MintedBy, TellInv, StartInv, Walked
  <1>6. PoolOf(c) /\ ColdOf(c) /\ StopOf(c)
    BY DEF TellInv, SpareInv, ColdInv, ColdOf, StopInv, StopOf
  <1>7. PoolOf(c)'
    <2>1. Spare(c) => Spare(c)'
      BY <1>1, <1>2 DEF Spare
    <2>2. Unstarted(c) => Unstarted(c)'
      BY <1>1, <1>5 DEF Unstarted
    <2> QED BY <1>1, <1>5, <1>6, <2>1, <2>2 DEF PoolOf
  <1>8. ColdOf(c)'
    BY <1>1, <1>5, <1>6 DEF ColdOf
  <1>9. StopOf(c)'
    <2>1. \A u \in Given(c) : walk[u] \in {"ending", "cut", "closing", "done", "lost"} =>
                               walk'[u] \in {"ending", "cut", "closing", "done", "lost"}
      BY <1>2 DEF Given
    <2>2. Spent(c) => Spent(c)'
      BY <1>1, <1>5, <2>1 DEF Spent
    <2> QED BY <1>1, <1>6, <2>2 DEF StopOf, Stopping
  <1>10. Walked(w)'
    BY <1>2 DEF Walked
  <1>11. \A j \in Jobs : [c |-> c, own |-> NoOne] \in ToRead(jobs[j]) => Spare(c)'
    <2> SUFFICES ASSUME NEW j \in Jobs, [c |-> c, own |-> NoOne] \in ToRead(jobs[j]) PROVE Spare(c)'
      OBVIOUS
    <2>1. PICK r \in ToRead(jobs[j]) : r = [c |-> c, own |-> NoOne]
      OBVIOUS
    <2>2. Spare(c)
      BY <2>1 DEF TellInv, SpareInv, ReadBy
    <2> QED BY <1>1, <1>2, <2>2 DEF Spare
  <1>12. \A d \in Ids \ {c} : Apart(d)
    BY <1>1, <1>3, <1>4, <1>5, WalkApart
  <1>13. ASSUME NEW j \in Jobs PROVE ReadBy(j)'
    <2>1. Minting(jobs[j]) /\ jobs[j].c = c => token'[c] \in {"none", "warm"}
      BY <1>5, MintedIsFree
    <2> QED BY <1>1, <1>11, <1>12, <2>1, OneReads
  <1>14. \A d \in Ids : Unread(d)' = Unread(d)
    BY <1>1 DEF Unread
  <1>15. reaping' = None
    BY <1>1 DEF TellInv, SpareInv
  <1>16. \A v \in Walks : \/ Walked(v)'
                          \/ walk'[v] = walk[v] /\ mine'[v] = mine[v]
    BY <1>1, <1>2, <1>10
  <1> QED BY <1>1, <1>4, <1>7, <1>8, <1>9, <1>12, <1>13, <1>14, <1>15, <1>16, OneTell

\* A warm container is claimed only while its row is open and its token opens that row.
LEMMA FreeIsWarm ==
  ASSUME TypeInv, FleetInv, TellInv, node # None, NEW c \in FreeWarm
  PROVE  /\ c \in Ids /\ held[c].known /\ held[c].owner = NoOne /\ born[c] = "warm"
         /\ warmRow[c] = "open" /\ token[c] = "warm" /\ held[c].token /\ ~Unstarted(c) /\ ~Stopping(c)
         /\ \A v \in Walks : row[v].server # c
  <1>1. /\ c \in Ids /\ held[c].known /\ held[c].owner = NoOne /\ born[c] = "warm"
        /\ view[node][c] # "none"
    BY DEF FreeWarm, Held
  <1>2. node \in Sockets
    BY FleetAssumption DEF TypeInv, TypeOK, SessionType, Sockets, None
  <1>3. ~Unstarted(c)
    BY <1>1, <1>2, ReportedIsStarted
  <1>4. Recorded(c) /\ c \notin Foreign
    BY <1>1 DEF FleetInv, LedgerInv
  <1>5. Spare(c) /\ held[c].token
    BY <1>1, <1>3 DEF TellInv, SpareInv, PoolOf
  <1>6. warmRow[c] = "open" /\ token[c] = "warm"
    BY <1>1, <1>3, <1>4, <1>5 DEF Spare, Unstarted
  <1>7. ~Stopping(c)
    BY <1>1, <1>6 DEF TellInv, StopInv, Spent
  <1> QED BY <1>1, <1>3, <1>5, <1>6, <1>7 DEF Spare

LEMMA ClaimTell ==
  ASSUME TypeInv, FleetInv, OwnerInv, TellInv, "overtaken" \notin Mishaps, NEW w \in Walks, Claim(w)
  PROVE  TellInv'
  <1>1. PICK c \in FreeWarm : /\ \A j \in Jobs : \A r \in ToRead(jobs[j]) : r.c # c
                              /\ mine' = [mine EXCEPT ![w] = c]
                              /\ held' = [held EXCEPT ![c].owner = w, ![c].moving = TRUE]
    BY DEF Claim
  <1>2. /\ UNCHANGED <<warmRow, row, token, jobs, down, born, reaping, bound>>
        /\ walk[w] = "row" /\ walk' = [walk EXCEPT ![w] = "given"] /\ node # None
    BY WalkElsewhere DEF Claim, At, ledger
  <1>3. /\ c \in Ids /\ held[c].known /\ held[c].owner = NoOne /\ born[c] = "warm"
        /\ warmRow[c] = "open" /\ token[c] = "warm" /\ held[c].token /\ ~Unstarted(c) /\ ~Stopping(c)
        /\ \A v \in Walks : row[v].server # c
    BY <1>2, FreeIsWarm
  <1>4. /\ held'[c].known /\ held'[c].owner = w /\ held'[c].moving /\ held'[c].token
        /\ \A d \in Ids \ {c} : held'[d] = held[d]
    BY <1>1, <1>3 DEF TypeInv, TypeOK, ProviderType, Entries
  <1>5. /\ mine'[w] = c /\ walk'[w] = "given" /\ mine[w] = None /\ row[w].server = None
        /\ \A v \in Walks \ {w} : mine'[v] = mine[v] /\ walk'[v] = walk[v]
    BY <1>1, <1>2, <1>3 DEF TypeInv, TypeOK, WalkType, FleetInv, WalkInv
  <1>6. Beyond(c) /\ Says(c) /\ QuietJobs /\ Alone(w)
    BY <1>2, <1>4, <1>5, SaysLess DEF Beyond, QuietJobs, Alone
  <1>7. w # NoOne
    BY FleetAssumption
  <1>8. PoolOf(c)'
    BY <1>2, <1>3, <1>4, <1>7 DEF PoolOf
  <1>9. ColdOf(c)' /\ StopOf(c)'
    BY <1>2, <1>3 DEF ColdOf, StopOf, Stopping
  <1>10. Walked(w)'
    <2>1. Unread(c)'
      BY <1>1, <1>2 DEF Unread
    <2>2. Starting(w)'
      BY <1>2, <1>3, <1>4, <1>5, <2>1 DEF Starting
    <2> QED BY <1>5, <2>2 DEF Walked
  <1>11. \A j \in Jobs : [c |-> c, own |-> NoOne] \notin ToRead(jobs[j])
    BY <1>1, Zenon
  <1>12. \A j \in Jobs : ~(Minting(jobs[j]) /\ jobs[j].c = c)
    BY <1>3, MintedIsFree
  <1>13. \A v \in Walks \ {w} : ~Has(v, c)
    BY <1>3, UnownedIsFree
  <1> QED BY <1>2, <1>3, <1>5, <1>6, <1>8, <1>9, <1>10, <1>11, <1>12, <1>13, QuietOne

LEMMA ColdTell ==
  ASSUME TypeInv, FleetInv, OwnerInv, TellInv, NEW w \in Walks, Cold(w)
  PROVE  TellInv'
  <1>1. PICK c \in Unborn : /\ mine' = [mine EXCEPT ![w] = c]
                            /\ held' = [held EXCEPT ![c] = Holding(w, FALSE, FALSE)]
                            /\ born' = [born EXCEPT ![c] = "match"]
    BY ColdTyped DEF Cold
  <1>2. /\ UNCHANGED <<warmRow, row, token, jobs, down, reaping, bound>>
        /\ walk[w] = "row" /\ walk' = [walk EXCEPT ![w] = "given"]
    BY WalkElsewhere DEF Cold, At, ledger
  <1>3. c \in Ids /\ born[c] = "none"
    BY DEF Unborn
  <1>4. /\ Given(c) = {} /\ token[c] = "none" /\ bound[c] = "none" /\ warmRow[c] = "none"
        /\ ~HasRow(c) /\ ~Stopping(c)
    <2>1. Given(c) = {} /\ warmRow[c] = "none" /\ token[c] = "none" /\ bound[c] = "none" /\ ~Stopping(c)
      BY <1>3 DEF FleetInv, HiddenInv, Unstarted, LedgerInv, TellInv, ColdInv, StopInv, Spent, TypeInv,
                  TypeOK, LedgerType
    <2>2. ~Recorded(c)
      BY <1>3 DEF FleetInv, LedgerInv
    <2> QED BY <2>1, <2>2 DEF Recorded
  <1>5. /\ held'[c] = Holding(w, FALSE, FALSE) /\ born'[c] = "match"
        /\ \A d \in Ids \ {c} : held'[d] = held[d] /\ born'[d] = born[d]
    BY <1>1, <1>3 DEF TypeInv, TypeOK, ProviderType, AgentType
  <1>6. /\ mine'[w] = c /\ walk'[w] = "given" /\ mine[w] = None /\ row[w].server = None
        /\ \A v \in Walks \ {w} : mine'[v] = mine[v] /\ walk'[v] = walk[v]
    BY <1>1, <1>2, <1>3 DEF TypeInv, TypeOK, WalkType, FleetInv, WalkInv
  <1>7. Beyond(c) /\ Says(c) /\ QuietJobs /\ Alone(w)
    BY <1>2, <1>5, <1>6, SaysLess DEF Beyond, QuietJobs, Alone
  <1>8. w # NoOne
    BY FleetAssumption
  <1>9. ASSUME NEW j \in Jobs, NEW r \in ToRead(jobs[j]) PROVE r.c # c
    BY <1>4, <1>9 DEF FleetInv, MintInv
  <1>10. PoolOf(c)'
    BY <1>2, <1>4, <1>5, <1>8 DEF PoolOf, Holding
  <1>11. ColdOf(c)'
    <2>1. Given(c)' = {w}
      BY <1>4, <1>6 DEF Given
    <2> QED BY <1>2, <1>4, <1>5, <2>1 DEF ColdOf
  <1>12. StopOf(c)'
    BY <1>2, <1>4 DEF StopOf, Stopping
  <1>13. Walked(w)'
    <2>1. Unread(c)'
      BY <1>2, <1>9 DEF Unread
    <2>2. \A v \in Walks : row'[v].server # c
      BY <1>2, <1>4 DEF HasRow
    <2>3. Starting(w)'
      BY <1>2, <1>4, <1>5, <1>6, <2>1, <2>2 DEF Starting, Holding
    <2> QED BY <1>6, <2>3 DEF Walked
  <1>14. \A j \in Jobs : [c |-> c, own |-> NoOne] \notin ToRead(jobs[j])
    BY <1>9, Zenon
  <1>15. \A j \in Jobs : ~(Minting(jobs[j]) /\ jobs[j].c = c)
    BY <1>3 DEF FleetInv, MintInv
  <1>16. \A v \in Walks \ {w} : ~Has(v, c)
    BY <1>3, <1>4 DEF Has, Given
  <1> QED BY <1>2, <1>3, <1>6, <1>7, <1>10, <1>11, <1>12, <1>13, <1>14, <1>15, <1>16, QuietOne

\* Nothing of a task that is yet to write a container's row is recorded.
LEMMA RowTaskIsFresh ==
  ASSUME TypeInv, FleetInv, NEW c \in Ids, NEW j \in Jobs, jobs[j].at = "row", jobs[j].c = c
  PROVE  warmRow[c] = "none" /\ Given(c) = {} /\ ~Recorded(c) /\ ~held[c].known
  <1>1. Minting(jobs[j])
    BY DEF Minting
  <1>2. warmRow[c] = "none" /\ Given(c) = {}
    BY <1>1, MintedIsFree DEF FleetInv, MintInv
  <1>3. \A w \in Walks : row[w].server # c
    <2> SUFFICES ASSUME NEW w \in Walks, row[w].server = c PROVE FALSE
      OBVIOUS
    <2>1. c # None
      BY FleetAssumption DEF Ids, None
    <2>2. w \in Given(c)
      BY <2>1 DEF Given, FleetInv, WalkInv
    <2> QED BY <1>2, <2>2
  <1>4. ~Recorded(c)
    BY <1>2, <1>3 DEF Recorded, HasRow
  <1> QED BY <1>2, <1>4 DEF FleetInv, LedgerInv

\* A container that is deallocated is of no match that is still to end.
LEMMA DeallocateTell ==
  ASSUME TypeInv, FleetInv, OwnerInv, TellInv, NEW c \in Ids, Deallocated(c), Recorded(c),
         UNCHANGED <<warmRow, row, token, mine, born, reaping, bound>>, warmRow[c] # "open",
         \A v \in Walks : walk'[v] = walk[v] \/ mine[v] = c,
         \A v \in Given(c) : walk'[v] \in {"ending", "cut", "closing", "done", "lost"}
  PROVE  TellInv'
  <1>1. held \in [Ids -> Entries]
    BY TaskKept
  <1>2. /\ \A d \in Ids \ {c} : held'[d] = held[d]
        /\ ~held'[c].known /\ ~held'[c].warm
    <2>1. CASE held[c].known
      BY <1>1, <2>1 DEF Deallocated, Unheld
    <2>2. CASE ~held[c].known
      BY <1>1, <2>2 DEF Deallocated, Unheld, FleetInv, LedgerInv
    <2> QED BY <2>1, <2>2
  <1>3. /\ \A d \in Ids : MintedBy(d)' = MintedBy(d) /\ Given(d)' = Given(d)
        /\ \A j \in Jobs : /\ Minting(jobs'[j]) => jobs'[j] = jobs[j]
                           /\ ToRead(jobs'[j]) \subseteq ToRead(jobs[j])
                           /\ jobs'[j].at = "find" => jobs'[j] = jobs[j]
    BY QuietMints DEF Deallocated, Given, QuietJobs
  <1>4. ASSUME NEW d \in Ids \ {c} PROVE Apart(d)
    <2>1. \A u \in Walks : \/ row'[u] = row[u] /\ walk'[u] = walk[u] /\ mine'[u] = mine[u]
                           \/ d \notin {row[u].server, row'[u].server, mine[u], mine'[u]}
      BY FleetAssumption DEF FleetInv, WalkInv, Ids, None
    <2>2. Unstarted(d) => Unstarted(d)'
      BY <1>3 DEF Unstarted
    <2>3. Stopping(d)' => Stopping(d)
      BY DEF Deallocated, Stopping, Frame
    <2>4. \A j \in Jobs : jobs'[j].at = "row" => jobs'[j] = jobs[j]
      BY <1>3 DEF Minting
    <2> QED BY <1>2, <2>1, <2>2, <2>3, <2>4 DEF Apart
  <1>5. PoolOf(c)'
    BY <1>2 DEF TellInv, SpareInv, PoolOf
  <1>6. ColdOf(c)'
    BY <1>3 DEF TellInv, ColdInv, ColdOf
  <1>7. StopOf(c)'
    <2>1. born[c] # "none"
      BY DEF FleetInv, LedgerInv
    <2>2. \A j \in MintedBy(c)' : jobs'[j].at # "row"
      BY <1>3, RowTaskIsFresh DEF MintedBy
    <2> QED BY <1>3, <2>1, <2>2 DEF StopOf, Spent
  <1>8. ASSUME NEW j \in Jobs PROVE ReadBy(j)'
    <2>1. [c |-> c, own |-> NoOne] \in ToRead(jobs[j]) => Spare(c)'
      <3> SUFFICES ASSUME [c |-> c, own |-> NoOne] \in ToRead(jobs[j]) PROVE Spare(c)'
        OBVIOUS
      <3>1. PICK r \in ToRead(jobs[j]) : r = [c |-> c, own |-> NoOne]
        OBVIOUS
      <3>2. Spare(c)
        BY <3>1 DEF TellInv, SpareInv, ReadBy
      <3> QED BY <3>2 DEF Spare
    <2>2. Minting(jobs[j]) /\ jobs[j].c = c => token'[c] \in {"none", "warm"}
      BY DEF TellInv, SpareInv, ReadBy
    <2> QED BY <1>3, <1>4, <2>1, <2>2, OneReads
  <1>9. reaping' = None
    BY DEF TellInv, SpareInv
  <1>10. \A d \in Ids : held[d].known /\ Unread(d) => Unread(d)'
    BY <1>3, UnreadStays
  <1>11. \A v \in Walks : \/ Walked(v)'
                          \/ walk'[v] = walk[v] /\ mine'[v] = mine[v] /\ ~Has(v, c)
    <2> SUFFICES ASSUME NEW v \in Walks, mine[v] = c PROVE Walked(v)'
      BY DEF Has
    <2>1. walk'[v] \in {"ending", "cut", "closing", "done", "lost"}
      BY DEF Given
    <2> QED BY <2>1 DEF Walked
  <1> QED BY <1>4, <1>5, <1>6, <1>7, <1>8, <1>9, <1>10, <1>11, OneTell

\* The end of a match, or of a walk that could not start its container.
LEMMA EndTell ==
  ASSUME TypeInv, FleetInv, OwnerInv, TellInv, NEW w \in Walks, GiveUp(w) \/ EndMatch(w)
  PROVE  TellInv'
  <1>1. /\ UNCHANGED <<warmRow, row, token, mine, born, reaping, bound>>
        /\ walk[w] \in {"named", "configured", "playing", "cut"}
        /\ walk' \in {[walk EXCEPT ![w] = "closing"], [walk EXCEPT ![w] = "ending"]}
        /\ walk[w] = "named" => ~held[mine[w]].known
    BY WalkElsewhere DEF GiveUp, EndMatch, At, Throws, ledger
  <1>2. PICK c \in Ids : c = mine[w]
    BY <1>1, MineIsMinted
  <1>3. Deallocated(c) /\ Has(w, c) /\ Recorded(c)
    BY <1>1, <1>2, GiveUpTyped DEF Has, Recorded, Given
  <1>4. /\ walk'[w] \in {"closing", "ending"} /\ \A v \in Walks \ {w} : walk'[v] = walk[v]
        /\ walk \in [Walks -> {"idle", "row", "given", "named", "moving", "configured",
                               "playing", "ending", "cut", "closing", "done", "lost"}]
    BY <1>1 DEF TypeInv, TypeOK, WalkType
  <1>5. warmRow[c] # "open"
    <2>1. Walked(w)
      BY DEF TellInv, StartInv
    <2> QED BY <1>1, <1>2, <2>1 DEF Walked, Starting, Playing
  <1>6. ASSUME NEW v \in Given(c) PROVE walk'[v] \in {"ending", "cut", "closing", "done", "lost"}
    <2>1. v \in Walks /\ mine[v] = c /\ c # None
      BY FleetAssumption DEF Given, Ids, None
    <2>2. v # w => ~Has(v, c)
      BY <1>3, <2>1 DEF OwnerInv, OneMatchEach
    <2>3. walk[v] \notin {"idle", "row"}
      BY <2>1 DEF FleetInv, WalkInv
    <2> QED BY <1>4, <2>1, <2>2, <2>3 DEF Has
  <1> QED BY <1>1, <1>2, <1>3, <1>4, <1>5, <1>6, DeallocateTell

LEMMA ReapOrphanTell ==
  ASSUME TypeInv, FleetInv, OwnerInv, TellInv, NEW c \in Ids, ReapOrphan(c)
  PROVE  TellInv'
  <1>1. /\ Deallocate(c) /\ UNCHANGED <<warmRow, row, token, walk, mine, born, reaping, bound>>
        /\ held[c].known /\ OpenRows(c) = {}
        /\ \A w \in Walks : walk[w] = "given" => mine[w] # c
    BY DEF ReapOrphan, ReaperUnchanged, walks, agent
  <1>2. Deallocated(c) /\ Recorded(c)
    BY <1>1, DeallocateStands DEF FleetInv, LedgerInv
  <1>3. warmRow[c] # "open" /\ \A w \in Walks : ~RowNames(w, c)
    BY <1>1 DEF OpenRows
  <1>4. ASSUME NEW v \in Given(c) PROVE walk'[v] \in {"ending", "cut", "closing", "done", "lost"}
    <2>1. v \in Walks /\ mine[v] = c /\ c # None
      BY FleetAssumption DEF Given, Ids, None
    <2>2. ~Has(v, c)
      BY <1>1, <1>3, <2>1 DEF OwnerInv, Owned
    <2>3. /\ walk[v] \notin {"idle", "row"}
          /\ walk[v] \in {"idle", "row", "given", "named", "moving", "configured",
                          "playing", "ending", "cut", "closing", "done", "lost"}
      BY <2>1 DEF FleetInv, WalkInv, TypeInv, TypeOK, WalkType
    <2> QED BY <1>1, <2>1, <2>2, <2>3 DEF Has
  <1> QED BY <1>1, <1>2, <1>3, <1>4, DeallocateTell

LEMMA RestartTell ==
  ASSUME TypeInv, FleetInv, OwnerInv, TellInv, Restart
  PROVE  TellInv'
  <1>1. /\ UNCHANGED <<warmRow, row, token, mine, born, down>>
        /\ held' = [c \in Ids |-> Unheld] /\ jobs' = [k \in Jobs |-> IdleJob]
        /\ reaping' = None /\ bound' = [c \in Ids |-> "none"]
        /\ walk' = [w \in Walks |->
                  CASE walk[w] \in {"row", "given", "named", "moving", "configured",
                                    "closing"} -> "lost"
                    [] walk[w] = "ending" -> "cut"
                    [] OTHER -> walk[w]]
    BY DEF Restart, ledger
  <1>2. \A w \in Walks : \/ walk'[w] = walk[w] /\ walk[w] \in {"idle", "playing", "cut", "done", "lost"}
                         \/ walk'[w] = "lost"
                         \/ walk[w] = "ending" /\ walk'[w] = "cut"
    BY <1>1 DEF TypeInv, TypeOK, WalkType
  <1>3. \A j \in Jobs : jobs'[j].at = "idle" /\ ToRead(jobs'[j]) = {} /\ ~Minting(jobs'[j])
    BY <1>1 DEF ToRead, IdleJob, Minting
  <1>4. SpareInv'
    <2>1. ASSUME NEW c \in Ids PROVE PoolOf(c)'
      <3>1. PoolOf(c)
        BY DEF TellInv, SpareInv
      <3>2. ~held'[c].known /\ ~held'[c].warm
        BY <1>1 DEF Unheld
      <3> QED BY <1>1, <1>2, <3>1, <3>2 DEF PoolOf
    <2>2. ASSUME NEW j \in Jobs PROVE ReadBy(j)'
      BY <1>3 DEF ReadBy
    <2> QED BY <1>1, <2>1, <2>2 DEF SpareInv
  <1>5. StartInv'
    <2> SUFFICES ASSUME NEW w \in Walks PROVE Walked(w)'
      BY DEF StartInv
    <2>1. Walked(w) /\ (walk[w] = "playing" => mine[w] \in Ids)
      BY MineIsMinted DEF TellInv, StartInv
    <2>2. walk'[w] = "playing" => Playing(w)'
      BY <1>1, <1>2, <2>1 DEF Walked, Playing, UnderItsRow
    <2> QED BY <1>1, <1>2, <2>1, <2>2 DEF Walked
  <1>6. \A c \in Ids : Given(c)' = Given(c)
    BY <1>1 DEF Given
  <1>7. ColdInv'
    BY <1>1, <1>6 DEF TellInv, ColdInv
  <1>8. StopInv'
    <2> SUFFICES ASSUME NEW c \in Ids, Stopping(c)' PROVE Spent(c)'
      BY DEF StopInv
    <2>1. Spent(c)
      BY <1>1 DEF Stopping, TellInv, StopInv
    <2>2. MintedBy(c)' = {}
      BY <1>3 DEF MintedBy
    <2>3. \A w \in Given(c) : walk'[w] \in {"ending", "cut", "closing", "done", "lost"}
      BY <1>2, <2>1 DEF Spent, Given
    <2> QED BY <1>1, <1>6, <2>1, <2>2, <2>3 DEF Spent
  <1> QED BY <1>4, <1>5, <1>7, <1>8 DEF TellInv

\* A step of a task about other containers.
LEMMA TaskApart ==
  ASSUME TypeInv, JobsUnchanged, NEW j \in Jobs, \A k \in Jobs \ {j} : jobs'[k] = jobs[k],
         NEW c \in Ids, ~(Minting(jobs[j]) /\ jobs[j].c = c), ~(Minting(jobs'[j]) /\ jobs'[j].c = c),
         warmRow'[c] = warmRow[c], token'[c] = token[c], held'[c] = held[c], born'[c] = born[c],
         Stopping(c)' => Stopping(c)
  PROVE  Apart(c)
  <1>1. UNCHANGED <<row, walk, mine, bound>>
    BY TaskElsewhere
  <1>2. MintedBy(c)' = MintedBy(c)
    BY DEF MintedBy
  <1>3. Unstarted(c) => Unstarted(c)'
    BY <1>2 DEF Unstarted
  <1>4. \A k \in Jobs : jobs'[k].at = "row" /\ jobs'[k].c = c => jobs[k].at = "row" /\ jobs[k].c = c
    BY DEF Minting
  <1> QED BY <1>1, <1>3, <1>4 DEF Apart

\* An adopt lists, of the open rows no walk has, those of what is nobody's.
LEMMA ListRowsTell ==
  ASSUME TypeInv, FleetInv, OwnerInv, TellInv, NEW j \in Jobs, ListRows(j)
  PROVE  TellInv'
  <1>1. /\ JobsUnchanged /\ UNCHANGED <<warmRow, token, held, down, born>>
        /\ UNCHANGED <<row, walk, mine, reaping, bound>>
        /\ \A k \in Jobs \ {j} : jobs'[k] = jobs[k]
    BY TaskElsewhere, ListRowsTyped DEF ListRows
  <1>2. /\ ToRead(jobs'[j]) = {r \in AdoptableRows : ~held[r.c].known}
        /\ jobs'[j].at = "find" /\ jobs'[j].warm => born[jobs'[j].c] = "warm"
        /\ ~Minting(jobs[j]) /\ ~Minting(jobs'[j])
    BY ListRowsTyped
  <1>3. \A d \in Ids : Apart(d)
    BY <1>1, <1>2, TaskApart DEF Stopping
  <1>4. ASSUME NEW k \in Jobs PROVE ReadBy(k)'
    <2>1. CASE k # j
      BY <1>1, <1>3, <2>1, ReadByStays, {} \in SUBSET Ids
    <2>2. CASE k = j
      <3>1. ASSUME NEW r \in AdoptableRows, r.own = NoOne PROVE Spare(r.c)'
        <4>1. PICK d \in Ids : d = r.c
          BY DEF AdoptableRows
        <4>2. OpenRows(d) = {NoOne}
          BY <3>1, <4>1 DEF AdoptableRows
        <4>3. warmRow[d] = "open" /\ \A w \in Walks : ~RowNames(w, d)
          BY <4>2, FleetAssumption DEF OpenRows
        <4>4. PoolOf(d)
          BY DEF TellInv, SpareInv
        <4>5. \A w \in Walks : row[w].server # d
          BY <4>3, <4>4 DEF PoolOf, RowNames
        <4>6. token[d] \in {"none", "warm"}
          BY <4>3, <4>4, <4>5 DEF PoolOf
        <4> QED BY <1>1, <4>1, <4>3, <4>5, <4>6 DEF Spare
      <3> QED BY <1>1, <1>2, <2>2, <3>1 DEF ReadBy
    <2> QED BY <2>1, <2>2
  <1>5. ASSUME NEW d \in Ids, held[d].known, Unread(d) PROVE Unread(d)'
    BY <1>1, <1>2, <1>5 DEF Unread
  <1>6. reaping' = None
    BY <1>1 DEF TellInv, SpareInv
  <1> QED BY <1>1, <1>3, <1>4, <1>5, <1>6, TellSteps, {} \in SUBSET Ids

\* An adopt holds what it read the row of as that row says.
LEMMA AdoptOneTell ==
  ASSUME TypeInv, FleetInv, OwnerInv, TellInv, NEW j \in Jobs, AdoptOne(j)
  PROVE  TellInv'
  <1>1. /\ JobsUnchanged /\ UNCHANGED <<warmRow, token, down, born>>
        /\ UNCHANGED <<row, walk, mine, reaping, bound>>
        /\ \A k \in Jobs \ {j} : jobs'[k] = jobs[k]
    BY TaskElsewhere, AdoptOneTyped DEF AdoptOne
  <1>2. PICK has \in BOOLEAN, warm \in BOOLEAN :
           /\ held' = [held EXCEPT ![jobs[j].c] = Holding(jobs[j].own, has, warm)]
           /\ has = (token[jobs[j].c] = IF jobs[j].own = NoOne THEN "warm" ELSE jobs[j].own)
           /\ warm = jobs[j].warm
    BY AdoptOneTyped
  <1>3. /\ jobs[j].c \in Ids /\ [c |-> jobs[j].c, own |-> jobs[j].own] \in ToRead(jobs[j])
        /\ ToRead(jobs'[j]) \subseteq ToRead(jobs[j]) /\ jobs[j].at = "find"
        /\ ~Minting(jobs[j]) /\ ~Minting(jobs'[j])
        /\ jobs'[j].at = "find" /\ jobs'[j].warm => born[jobs'[j].c] = "warm"
    BY AdoptOneTyped
  <1>4. PICK c \in Ids : c = jobs[j].c
    BY <1>3
  <1>5. PICK r \in ToRead(jobs[j]) : r = [c |-> c, own |-> jobs[j].own]
    BY <1>3, <1>4
  <1>6. /\ held'[c] = Holding(jobs[j].own, has, warm)
        /\ \A d \in Ids \ {c} : held'[d] = held[d]
    BY <1>2, <1>4, TaskKept
  <1>7. \A d \in Ids \ {c} : Apart(d)
    BY <1>1, <1>3, <1>6, TaskApart DEF Stopping
  <1>8. ReadBy(j) /\ HasRow(c)
    BY <1>5 DEF TellInv, SpareInv, FleetInv, MintInv
  <1>9. PoolOf(c)'
    <2>1. PoolOf(c)
      BY DEF TellInv, SpareInv
    <2>2. ASSUME jobs[j].own = NoOne PROVE Spare(c)' /\ (has \/ Unstarted(c)')
      <3>1. Spare(c)
        BY <1>5, <1>8, <2>2 DEF ReadBy
      <3>2. Spare(c)'
        BY <1>1, <3>1 DEF Spare
      <3>3. born[c] = "warm" /\ c \notin Foreign
        BY <1>8, <3>1 DEF FleetInv, LedgerInv, Recorded, Spare
      <3>4. CASE token[c] = "warm"
        BY <1>2, <1>4, <2>2, <3>2, <3>4
      <3>5. CASE token[c] = "none"
        BY <1>1, <3>2, <3>3, <3>5 DEF Unstarted
      <3> QED BY <3>1, <3>4, <3>5 DEF Spare
    <2>3. warm => born[c] = "warm"
      BY <1>2, <1>3, <1>4, <1>8 DEF ReadBy
    <2> QED BY <1>1, <1>6, <2>1, <2>2, <2>3 DEF PoolOf, Holding
  <1>10. ColdOf(c)'
    <2>1. Given(c)' = Given(c)
      BY <1>1 DEF Given
    <2> QED BY <1>1, <2>1 DEF TellInv, ColdInv, ColdOf
  <1>11. StopOf(c)'
    <2>1. Given(c)' = Given(c) /\ MintedBy(c)' = MintedBy(c) /\ \A k \in MintedBy(c) : jobs'[k] = jobs[k]
      BY <1>1, <1>3 DEF Given, MintedBy
    <2> QED BY <1>1, <2>1 DEF TellInv, StopInv, StopOf, Stopping, Spent
  <1>12. ASSUME NEW k \in Jobs PROVE ReadBy(k)'
    <2>1. [c |-> c, own |-> NoOne] \in ToRead(jobs[k]) => Spare(c)'
      <3> SUFFICES ASSUME [c |-> c, own |-> NoOne] \in ToRead(jobs[k]) PROVE Spare(c)'
        OBVIOUS
      <3>1. PICK q \in ToRead(jobs[k]) : q = [c |-> c, own |-> NoOne]
        OBVIOUS
      <3>2. Spare(c)
        BY <3>1 DEF TellInv, SpareInv, ReadBy
      <3> QED BY <1>1, <3>2 DEF Spare
    <2>2. Minting(jobs[k]) /\ jobs[k].c = c => token'[c] \in {"none", "warm"}
      BY <1>1 DEF TellInv, SpareInv, ReadBy
    <2>3. /\ ToRead(jobs'[k]) \subseteq ToRead(jobs[k]) /\ (Minting(jobs'[k]) => jobs'[k] = jobs[k])
          /\ jobs'[k].at = "find" /\ jobs'[k].warm => jobs'[k] = jobs[k] \/ born'[jobs'[k].c] = "warm"
      BY <1>1, <1>3
    <2> QED BY <1>1, <1>7, <2>1, <2>2, <2>3, OneReads
  <1>13. \A d \in Ids : held[d].known /\ Unread(d) => Unread(d)'
    BY <1>1, <1>3, UnreadStays
  <1>14. ASSUME NEW v \in Walks, Has(v, c), walk[v] \notin {"ending", "cut"} PROVE Walked(v)'
    <2>1. Walked(v) /\ ~Unread(c) /\ mine[v] = c
      BY <1>5, <1>14 DEF TellInv, StartInv, Unread, Has
    <2>2. walk[v] = "playing"
      BY <1>14, <2>1 DEF Has, Walked, Starting
    <2>3. Playing(v)'
      BY <1>1, <2>1, <2>2 DEF Walked, Playing, UnderItsRow
    <2> QED BY <1>1, <2>2, <2>3 DEF Walked
  <1>15. reaping' = None
    BY <1>1 DEF TellInv, SpareInv
  <1>16. \A v \in Walks : \/ Walked(v)'
                          \/ /\ walk'[v] = walk[v] /\ mine'[v] = mine[v]
                             /\ Has(v, c) => walk[v] \in {"ending", "cut"}
    BY <1>1, <1>14
  <1> QED BY <1>1, <1>7, <1>9, <1>10, <1>11, <1>12, <1>13, <1>15, <1>16, OneTell

\* What a loop of topUp mints is nobody's yet.
LEMMA NewTell ==
  ASSUME TypeInv, FleetInv, TellInv, NEW c \in Ids, born[c] = "none", JobsUnchanged,
         warmRow'[c] = warmRow[c], token'[c] = token[c], held'[c] = held[c], born'[c] = "warm",
         Stopping(c)' => Stopping(c)
  PROVE  /\ PoolOf(c)' /\ ColdOf(c)' /\ StopOf(c)' /\ warmRow'[c] = "none" /\ token'[c] = "none"
         /\ ~HasRow(c)
  <1>1. warmRow[c] = "none" /\ token[c] = "none" /\ ~Recorded(c) /\ ~Stopping(c) /\ held[c] = Unheld
    BY DEF FleetInv, LedgerInv, TellInv, ColdInv, StopInv, Spent, TypeInv, TypeOK, LedgerType
  <1> QED BY <1>1 DEF Unheld, PoolOf, ColdOf, StopOf, Recorded

\* A container that a task has minted: its row and its token are its own.
LEMMA MintedTell ==
  ASSUME TypeInv, FleetInv, TellInv, NEW j \in Jobs, Minting(jobs[j]), NEW c \in Ids, c = jobs[j].c
  PROVE  /\ Given(c) = {} /\ Unstarted(c) /\ born[c] = "warm" /\ c \notin Foreign
         /\ token[c] \in {"none", "warm"}
         /\ warmRow[c] = IF jobs[j].at = "row" THEN "none" ELSE "open"
         /\ MintedBy(c) = {j} /\ ~Stopping(c) /\ \A w \in Walks : row[w].server # c /\ ~Has(w, c)
  <1>1. Given(c) = {} /\ Unstarted(c) /\ \A w \in Walks : ~Has(w, c)
    BY MintedIsFree
  <1>2. /\ born[c] = "warm" /\ c \notin Foreign /\ MintedBy(c) = {j} /\ token[c] \in {"none", "warm"}
        /\ IF jobs[j].at = "row" THEN warmRow[c] = "none" ELSE warmRow[c] \in {"open", "expired"}
    BY DEF FleetInv, MintInv, TellInv, SpareInv, ReadBy
  <1>3. warmRow[c] # "expired"
    BY DEF TellInv, SpareInv, PoolOf
  <1>4. \A w \in Walks : row[w].server # c
    BY <1>1, FleetAssumption DEF FleetInv, WalkInv, Given, Ids, None
  <1>5. ~Stopping(c)
    BY <1>2, <1>3 DEF TellInv, StopInv, Spent
  <1> QED BY <1>1, <1>2, <1>3, <1>4, <1>5

\* A task that is done with what it had minted, and goes on.
LEMMA GoneOnTell ==
  ASSUME TypeInv, FleetInv, OwnerInv, TellInv, NEW j \in Jobs, GoneOn(j), JobsUnchanged,
         \A d \in Ids : Stopping(d)' => Stopping(d),
         \A d \in Ids : ~(Minting(jobs[j]) /\ jobs[j].c = d) =>
             warmRow'[d] = warmRow[d] /\ token'[d] = token[d] /\ held'[d] = held[d],
         \A d \in Ids : Minting(jobs[j]) /\ jobs[j].c = d =>
             /\ PoolOf(d)' /\ ColdOf(d)' /\ StopOf(d)'
             /\ warmRow'[d] = "open" => warmRow[d] = "open"
             /\ Spare(d) => Spare(d)'
  PROVE  TellInv'
  <1>1. UNCHANGED <<row, walk, mine, reaping, bound>> /\ \A k \in Jobs \ {j} : jobs'[k] = jobs[k]
    BY TaskElsewhere DEF GoneOn
  <1>2. Minting(jobs'[j]) => /\ jobs'[j].at = "row" /\ jobs'[j].c \in Unborn
                             /\ born' = [born EXCEPT ![jobs'[j].c] = "warm"]
    BY DEF GoneOn
  <1> DEFINE Old == {d \in Ids : Minting(jobs[j]) /\ jobs[j].c = d}
             New == {d \in Ids : Minting(jobs'[j]) /\ jobs'[j].c = d}
  <1>3. ASSUME NEW d \in Old
        PROVE  d \in Ids /\ Given(d) = {} /\ born[d] = "warm" /\ \A v \in Walks : ~Has(v, d)
    BY <1>3, MintedTell
  <1>4. ASSUME NEW d \in New
        PROVE  /\ d \in Ids /\ born[d] = "none" /\ PoolOf(d)' /\ ColdOf(d)' /\ StopOf(d)'
               /\ warmRow'[d] = "none" /\ token'[d] = "none" /\ ~HasRow(d)
    <2>1. d \in Ids /\ born[d] = "none" /\ born'[d] = "warm"
      BY <1>2, <1>4, TaskKept DEF Unborn
    <2>2. ~(Minting(jobs[j]) /\ jobs[j].c = d)
      BY <1>3, <2>1
    <2> QED BY <2>1, <2>2, NewTell
  <1>5. ASSUME NEW d \in Ids \ (Old \cup New) PROVE Apart(d)
    <2>1. born'[d] = born[d]
      <3>1. CASE born' = born
        BY <3>1
      <3>2. CASE /\ jobs'[j].at = "row" /\ jobs'[j].c \in Unborn
                 /\ born' = [born EXCEPT ![jobs'[j].c] = "warm"]
        <4>1. jobs'[j].c # d
          BY <1>5, <3>2 DEF Minting
        <4> QED BY <3>2, <4>1, TaskKept
      <3> QED BY <3>1, <3>2 DEF GoneOn
    <2> QED BY <1>1, <1>5, <2>1, TaskApart
  <1>6. \A d \in Old \cup New : PoolOf(d)' /\ ColdOf(d)' /\ StopOf(d)'
    BY <1>4
  <1>7. \A d \in Old \cup New : warmRow'[d] = "open" => warmRow[d] = "open" \/ Given(d) = {}
    BY <1>3, <1>4
  <1>8. \A d \in Ids : held[d].known /\ Unread(d) => Unread(d)'
    BY <1>1, UnreadStays DEF GoneOn
  <1>9. \A v \in Walks : \A d \in Old \cup New : ~Has(v, d)
    <2> SUFFICES ASSUME NEW v \in Walks, NEW d \in New, Has(v, d) PROVE FALSE
      BY <1>3
    <2>1. Given(d) = {}
      BY <1>4 DEF FleetInv, HiddenInv, Unstarted
    <2> QED BY <1>4, <2>1, HasIsGiven
  <1>10. Old \cup New \in SUBSET Ids
    OBVIOUS
  <1>11. \A k \in Jobs \ {j} : \A d \in Old \cup New : ~(Minting(jobs[k]) /\ jobs[k].c = d)
    <2> SUFFICES ASSUME NEW k \in Jobs \ {j}, NEW d \in Old \cup New, Minting(jobs[k]), jobs[k].c = d
                 PROVE  FALSE
      OBVIOUS
    <2>1. born[d] = "warm" /\ MintedBy(d) = {k}
      BY MintedTell
    <2>2. d \in Old
      BY <1>4, <2>1
    <2> QED BY <2>1, <2>2 DEF MintedBy
  <1>12. \A k \in Jobs : \A d \in New : [c |-> d, own |-> NoOne] \notin ToRead(jobs[k])
    <2> SUFFICES ASSUME NEW k \in Jobs, NEW d \in New, NEW r \in ToRead(jobs[k]), r.c = d PROVE FALSE
      OBVIOUS
    <2> QED BY <1>4 DEF FleetInv, MintInv
  <1>13. \A d \in Old \cup New : born[d] = "warm" => born'[d] = "warm"
    BY <1>2, <1>4, TaskKept DEF GoneOn, Unborn
  <1>14. \A d \in Old : Spare(d) => Spare(d)'
    OBVIOUS
  <1>15. reaping' = None
    BY <1>1 DEF TellInv, SpareInv
  <1>16. ASSUME NEW d \in New PROVE token'[d] = "none"
    BY <1>4, <1>16
  <1>17. Minting(jobs'[j]) => jobs'[j].c \in New
    BY <1>2 DEF Unborn
  <1> HIDE DEF Old, New
  <1>18. ASSUME NEW k \in Jobs PROVE ReadBy(k)'
    <2>1. CASE k # j
      <3>1. \A d \in Old \cup New : [c |-> d, own |-> NoOne] \in ToRead(jobs[k]) => Spare(d)'
        <4> SUFFICES ASSUME NEW d \in Old, [c |-> d, own |-> NoOne] \in ToRead(jobs[k]) PROVE Spare(d)'
          BY <1>12
        <4>1. PICK q \in ToRead(jobs[k]) : q = [c |-> d, own |-> NoOne]
          OBVIOUS
        <4>2. Spare(d)
          BY <4>1 DEF TellInv, SpareInv, ReadBy
        <4> QED BY <1>14, <4>2
      <3> QED BY <1>1, <1>5, <1>10, <1>11, <1>13, <2>1, <3>1, ReadByStays
    <2>2. CASE k = j
      <3>1. ToRead(jobs'[j]) = {} /\ jobs'[j].at # "find"
        BY DEF GoneOn, ToRead
      <3> QED BY <1>16, <1>17, <2>2, <3>1 DEF ReadBy
    <2> QED BY <2>1, <2>2
  <1>19. \A v \in Walks : /\ walk'[v] = walk[v] /\ mine'[v] = mine[v]
                          /\ \A d \in Old \cup New : ~Has(v, d)
    BY <1>1, <1>9
  <1> QED BY <1>5, <1>6, <1>7, <1>8, <1>10, <1>15, <1>18, <1>19, TellSteps

LEMMA NodeReadTell ==
  ASSUME TypeInv, FleetInv, OwnerInv, TellInv, NEW j \in Jobs, NodeRead(j)
  PROVE  TellInv'
  <1>1. UNCHANGED <<warmRow, token, held, down>> /\ JobsUnchanged /\ GoneOn(j) /\ ~Minting(jobs[j])
    BY NodeReadTyped DEF NodeRead
  <1> QED BY <1>1, GoneOnTell DEF Stopping

\* A task that stays with what it has minted.
LEMMA StayedTell ==
  ASSUME TypeInv, FleetInv, OwnerInv, TellInv, NEW j \in Jobs, Minting(jobs[j]), NEW c \in Ids,
         c = jobs[j].c, JobsUnchanged, UNCHANGED <<down, born>>,
         \A k \in Jobs \ {j} : jobs'[k] = jobs[k],
         jobs'[j].at \in {"token", "unsent"}, jobs'[j].c = c, warmRow'[c] = "open",
         token'[c] \in {"none", "warm"}, held'[c] = Unheld,
         \A d \in Ids \ {c} : warmRow'[d] = warmRow[d] /\ token'[d] = token[d] /\ held'[d] = held[d]
  PROVE  TellInv'
  <1>1. UNCHANGED <<row, walk, mine, reaping, bound>>
    BY TaskElsewhere
  <1>2. /\ Given(c) = {} /\ born[c] = "warm" /\ ~Stopping(c) /\ MintedBy(c) = {j}
        /\ \A w \in Walks : row[w].server # c /\ ~Has(w, c)
    BY MintedTell
  <1>3. ToRead(jobs'[j]) = {} /\ Minting(jobs'[j]) /\ jobs'[j].at # "find"
    BY DEF ToRead, Minting
  <1>4. ASSUME NEW d \in Ids \ {c} PROVE Apart(d)
    BY <1>4, TaskApart DEF Stopping
  <1>5. PoolOf(c)' /\ ColdOf(c)' /\ StopOf(c)'
    BY <1>1, <1>2 DEF PoolOf, Unheld, ColdOf, StopOf, Stopping
  <1>6. Spare(c)'
    BY <1>1, <1>2 DEF Spare
  <1>7. ASSUME NEW k \in Jobs PROVE ReadBy(k)'
    <2>1. CASE k # j
      <3>1. ~(Minting(jobs[k]) /\ jobs[k].c = c)
        BY <1>2, <2>1 DEF MintedBy
      <3> QED BY <1>4, <1>6, <2>1, <3>1, OneReads
    <2>2. CASE k = j
      BY <1>3, <2>2 DEF ReadBy
    <2> QED BY <2>1, <2>2
  <1>8. \A d \in Ids : held[d].known /\ Unread(d) => Unread(d)'
    BY <1>3, UnreadStays
  <1>9. reaping' = None
    BY <1>1 DEF TellInv, SpareInv
  <1>10. \A v \in Walks : walk'[v] = walk[v] /\ mine'[v] = mine[v] /\ ~Has(v, c)
    BY <1>1, <1>2
  <1> QED BY <1>2, <1>4, <1>5, <1>7, <1>8, <1>9, <1>10, OneTell

LEMMA OpenWarmTell ==
  ASSUME TypeInv, FleetInv, OwnerInv, TellInv, NEW j \in Jobs, OpenWarm(j)
  PROVE  TellInv'
  <1>1. /\ JobsUnchanged /\ UNCHANGED <<token, held, down, born>> /\ jobs[j].at = "row"
        /\ warmRow' = [warmRow EXCEPT ![jobs[j].c] = "open"]
    BY DEF OpenWarm
  <1>2. /\ jobs[j].c \in Ids /\ \A k \in Jobs \ {j} : jobs'[k] = jobs[k]
        /\ jobs'[j].at = "token" /\ jobs'[j].c = jobs[j].c
    BY OpenWarmTyped
  <1>3. PICK c \in Ids : c = jobs[j].c
    BY <1>2
  <1>4. warmRow'[c] = "open" /\ \A d \in Ids \ {c} : warmRow'[d] = warmRow[d]
    BY <1>1, <1>3, TaskKept
  <1>5. Minting(jobs[j])
    BY <1>1 DEF Minting
  <1>6. token[c] \in {"none", "warm"} /\ held[c] = Unheld
    BY <1>1, <1>3, <1>5, MintedTell, RowTaskIsFresh DEF FleetInv, LedgerInv
  <1> QED BY <1>1, <1>2, <1>3, <1>4, <1>5, <1>6, StayedTell

LEMMA StartWarmTell ==
  ASSUME TypeInv, FleetInv, OwnerInv, TellInv, NEW j \in Jobs, StartWarm(j)
  PROVE  TellInv'
  <1>1. /\ JobsUnchanged /\ UNCHANGED warmRow /\ Minting(jobs[j]) /\ jobs[j].at = "token"
        /\ token' = [token EXCEPT ![jobs[j].c] = "warm"]
    BY DEF StartWarm, Minting
  <1>2. PICK c \in Ids : c = jobs[j].c
    BY StartWarmTyped
  <1>3. token'[c] = "warm" /\ \A d \in Ids \ {c} : token'[d] = token[d]
    BY <1>1, <1>2, TaskKept
  <1>4. /\ warmRow[c] = "open" /\ Given(c) = {} /\ born[c] = "warm" /\ ~Stopping(c)
        /\ \A w \in Walks : row[w].server # c
    BY <1>1, <1>2, MintedTell
  <1>5. UNCHANGED <<row, walk, mine, bound>>
    BY <1>1, TaskElsewhere
  <1>6. CASE /\ GoneOn(j) /\ held' = [held EXCEPT ![c] = Holding(NoOne, TRUE, TRUE)]
             /\ \A i \in 1 .. Len(down') : \/ down'[i] = Frame("start", c)
                                           \/ \E k \in 1 .. Len(down) : down'[i] = down[k]
    <2>1. held'[c] = Holding(NoOne, TRUE, TRUE) /\ \A d \in Ids \ {c} : held'[d] = held[d]
      BY <1>6, TaskKept
    <2>2. \A d \in Ids : Stopping(d)' => Stopping(d)
      BY <1>6 DEF Stopping, Frame
    <2>3. born'[c] = "warm"
      BY <1>4, <1>6, TaskKept DEF GoneOn, Unborn
    <2>4. Spare(c)'
      BY <1>1, <1>3, <1>4, <1>5 DEF Spare
    <2>5. PoolOf(c)'
      BY <1>1, <1>3, <1>4, <1>5, <2>1, <2>3, <2>4 DEF PoolOf, Holding
    <2>6. ColdOf(c)' /\ StopOf(c)'
      BY <1>4, <2>2, <2>3 DEF ColdOf, StopOf
    <2> QED BY <1>1, <1>2, <1>3, <1>6, <2>1, <2>2, <2>4, <2>5, <2>6, GoneOnTell
  <1>7. CASE /\ held' = [held EXCEPT ![c] = Unheld] /\ UNCHANGED <<down, born>>
             /\ \A k \in Jobs \ {j} : jobs'[k] = jobs[k]
             /\ jobs'[j].at = "unsent" /\ jobs'[j].c = c
    <2>1. held'[c] = Unheld /\ \A d \in Ids \ {c} : held'[d] = held[d]
      BY <1>7, TaskKept
    <2> QED BY <1>1, <1>2, <1>3, <1>4, <1>7, <2>1, StayedTell
  <1> QED BY <1>2, <1>6, <1>7, StartWarmTyped

LEMMA UnsentTell ==
  ASSUME TypeInv, FleetInv, OwnerInv, TellInv, NEW j \in Jobs, Unsent(j)
  PROVE  TellInv'
  <1>1. /\ JobsUnchanged /\ UNCHANGED <<token, held, down>> /\ Minting(jobs[j])
        /\ warmRow' = [warmRow EXCEPT ![jobs[j].c] = "failed"] /\ GoneOn(j)
    BY UnsentTyped DEF Unsent, Minting
  <1>2. PICK c \in Ids : c = jobs[j].c
    BY UnsentTyped
  <1>3. warmRow'[c] = "failed" /\ \A d \in Ids \ {c} : warmRow'[d] = warmRow[d]
    BY <1>1, <1>2, TaskKept
  <1>4. Given(c) = {} /\ born[c] = "warm" /\ c \notin Foreign /\ ~Stopping(c)
    BY <1>1, <1>2, MintedTell
  <1>5. UNCHANGED <<row, walk, mine, bound>>
    BY <1>1, TaskElsewhere
  <1>6. born'[c] = "warm" /\ \A d \in Ids : Stopping(d)' = Stopping(d)
    BY <1>1, <1>4, TaskKept DEF GoneOn, Unborn, Stopping
  <1>7. Spare(c) => Spare(c)'
    BY <1>1, <1>3, <1>5 DEF Spare
  <1>8. PoolOf(c)'
    <2>1. PoolOf(c)
      BY DEF TellInv, SpareInv
    <2>2. Unstarted(c)'
      BY <1>3, <1>4, <1>6 DEF Unstarted
    <2> QED BY <1>1, <1>3, <1>6, <1>7, <2>1, <2>2 DEF PoolOf
  <1>9. ColdOf(c)' /\ StopOf(c)'
    BY <1>4, <1>6 DEF ColdOf, StopOf
  <1> QED BY <1>1, <1>2, <1>3, <1>6, <1>7, <1>8, <1>9, GoneOnTell

LEMMA TellStep ==
  ASSUME TypeInv, FleetInv, OwnerInv, TellInv, "overtaken" \notin Mishaps, "expiry" \notin Mishaps,
         [Next]_vars
  PROVE  TellInv'
  <1>1. CASE Moves
    BY <1>1, MovesAreWire, WireTell
  <1>2. ASSUME NEW j \in Jobs, JobStep(j) PROVE TellInv'
    BY <1>2, ListRowsTell, AdoptOneTell, JudgeTell, NodeReadTell, OpenWarmTell, StartWarmTell, UnsentTell
       DEF JobStep
  <1>3. ASSUME NEW w \in Walks, OpenRow(w) \/ WalkStep(w) \/ EndMatch(w) PROVE TellInv'
    BY <1>3, FreshRowTell, ClaimTell, ColdTell, NameServerTell, ConfigureTell, CloseWarmTell, StartTell,
       EndTell, CloseRowTell DEF WalkStep
  <1>4. ASSUME NEW c \in Ids, ReadExpired(c) PROVE FALSE
    BY <1>4 DEF ReadExpired, Happens
  <1>5. ASSUME NEW c \in Ids, ReapOrphan(c) PROVE TellInv'
    BY <1>5, ReapOrphanTell
  <1>6. ASSUME NEW c \in Ids, Relink(c) PROVE TellInv'
    BY <1>6, RelinkTell
  <1>7. ~Expire
    BY DEF Expire, TellInv, SpareInv
  <1>8. CASE Restart
    BY <1>8, RestartTell
  <1> QED BY <1>1, <1>2, <1>3, <1>4, <1>5, <1>6, <1>7, <1>8, StepsOfTheFleet

\* With nothing expiring and no claim overtaking an adopt, whatever else fails, what is told to
\* a container and of it is right.
LEMMA FleetIsTold ==
  "overtaken" \notin Mishaps /\ "expiry" \notin Mishaps => (Spec => [](TypeInv /\ FleetInv /\ TellInv))
  <1> SUFFICES ASSUME "overtaken" \notin Mishaps, "expiry" \notin Mishaps
               PROVE  Spec => [](TypeInv /\ FleetInv /\ TellInv)
    OBVIOUS
  <1>1. Init => OwnerInv /\ TellInv
    BY OwnerInit, TellInit
  <1>2. (TypeInv /\ FleetInv) /\ (OwnerInv /\ TellInv) /\ [Next]_vars => (OwnerInv /\ TellInv)'
    BY OwnerStep, TellStep
  <1> QED BY <1>1, <1>2, FleetIsKnown, PTL DEF Spec

\* The link of a container that plays a match stands under that match's row, however often it is
\* dialled anew, unless the provider has taken a warm container for a cold one (provider.ts
\* configure and start, server-link/registry.ts rebind).
THEOREM SessionIsOfTheMatch ==
  "overtaken" \notin Mishaps /\ "expiry" \notin Mishaps => (Spec => []SessionIsTheMatchs)
  <1> SUFFICES ASSUME "overtaken" \notin Mishaps, "expiry" \notin Mishaps
               PROVE  Spec => []SessionIsTheMatchs
    OBVIOUS
  <1>1. TypeInv /\ FleetInv /\ TellInv => SessionIsTheMatchs
    BY DEF TellInv, StartInv, Walked, Playing, SessionIsTheMatchs
  <1> QED BY <1>1, FleetIsTold, PTL

\* No stop is on its way to a container a match plays on, whichever of the sweep, the reaper and
\* the end of an earlier match wrote it (provider.ts sweepStrays and deallocate, reaper.ts).
THEOREM OnlyEndsStop ==
  "overtaken" \notin Mishaps /\ "expiry" \notin Mishaps => (Spec => []OnlyTheEndStops)
  <1> SUFFICES ASSUME "overtaken" \notin Mishaps, "expiry" \notin Mishaps
               PROVE  Spec => []OnlyTheEndStops
    OBVIOUS
  <1>1. TypeInv /\ FleetInv /\ TellInv => OnlyTheEndStops
    <2> SUFFICES ASSUME TypeInv, FleetInv, TellInv, NEW w \in Walks, walk[w] = "playing",
                        Stopping(mine[w])
                 PROVE  FALSE
      BY DEF OnlyTheEndStops
    <2>1. PICK c \in Ids : c = mine[w]
      BY MineIsMinted
    <2>2. Spent(c) /\ w \in Given(c)
      BY <2>1 DEF TellInv, StopInv, Given
    <2> QED BY <2>2 DEF Spent
  <1> QED BY <1>1, FleetIsTold, PTL
====
