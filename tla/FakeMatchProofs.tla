--------------------------- MODULE FakeMatchProofs ---------------------------
(***************************************************************************)
(* Proofs about FakeMatch: the fake orchestrator shows its clients nothing *)
(* the Match API's lifecycle does not allow, and its ledger holds a row    *)
(* for as long as a server is being obtained or is there, for any number   *)
(* of servers, commands and steps on the chain.                            *)
(***************************************************************************)
EXTENDS FakeMatch, TLAPS

\* What a client sees, and what it sees one write later.
View == [state |-> state, fact |-> fact, told |-> told]
Shown(v, w) ==
    [state |-> IF w.state = "same" THEN v.state ELSE w.state,
     fact  |-> IF w.fact = "same" THEN v.fact ELSE w.fact,
     told  |-> IF w.fact = "match.server_ready" THEN TRUE
               ELSE IF w.fact = "match.recovering" THEN FALSE ELSE v.told]
First  == Shown(View, out[1])
Second == Shown(First, out[2])
Third  == Shown(Second, out[3])

\* What it sees once the running step has shown everything.
AtLast == IF out = <<>> THEN View ELSE
          IF Len(out) = 1 THEN First ELSE
          IF Len(out) = 2 THEN Second ELSE Third

\* The changes the lifecycle allows from one view to the next, as far as the fake makes them.
Allows(v, w) ==
    \/ w = [v EXCEPT !.state = "allocating"] /\ v.state \in Before
    \/ w = [v EXCEPT !.fact = "match.allocated"] /\ v.state \in {"allocating", "recovering"}
    \/ w = [v EXCEPT !.state = "configuring"] /\ v.state = "allocating" /\ v.fact = "match.allocated"
    \/ w = [v EXCEPT !.state = "ready"] /\ v.state = "configuring"
    \/ w = [state |-> v.state, fact |-> "match.server_ready", told |-> TRUE] /\ v.state \in {"ready", "recovering"}
    \/ w = [v EXCEPT !.state = "live"] /\ v.state = "ready" /\ v.fact = "match.server_ready"
    \/ w = [state |-> v.state, fact |-> "match.recovering", told |-> FALSE] /\ v.state = "live"
    \/ w = [v EXCEPT !.state = "recovering"] /\ v.state = "live" /\ v.fact = "match.recovering"
    \/ w = [v EXCEPT !.fact = "match.recovered"] /\ v.state = "recovering" /\ v.told
    \/ w = [v EXCEPT !.state = "live"] /\ v.state = "recovering" /\ v.fact = "match.recovered"
    \/ w = [state |-> "failed", fact |-> "match.failed", told |-> v.told] /\ v.state \notin Terminal
    \/ w = [state |-> "ended", fact |-> "match.ended", told |-> v.told] /\ v.state \notin Terminal
    \/ w = [state |-> "cancelled", fact |-> "match.ended", told |-> v.told] /\ v.state \in Before

\* Every write left to show is allowed where it comes.
Script ==
    /\ Len(out) \in 0 .. 3
    /\ Len(out) >= 1 => Allows(View, First)
    /\ Len(out) >= 2 => Allows(First, Second)
    /\ Len(out) >= 3 => Allows(Second, Third)

-----------------------------------------------------------------------------
(* A story of N beats, numbered down to 1.                                  *)

Types == {"server_ready", "going_live", "backup_written", "demo_available", "series_end"}
IsBeat(N, type, n) ==
    /\ n \in 1 .. N /\ type \in Types
    /\ type = "server_ready" <=> n = N
    /\ type = "going_live" <=> n = N - 1

\* The m-th beat from the end was heard, or is on the chain before place i.
Own(e) == e.kind = "event" /\ e.of = server.id
HeardOrAhead(m, i) ==
    m \in record.seen \/ \E j \in 1 .. Len(chain) : j < i /\ Own(chain[j]) /\ chain[j].n = m

\* The server of the record plays a story of N beats: those still to come are its last, and what
\* it has said is heard or on the chain, each beat behind those before it.
Playing(N) ==
    /\ Len(server.beats) <= N
    /\ \A i \in 1 .. Len(server.beats) : IsBeat(N, server.beats[i], Len(server.beats) - i + 1)
    /\ record.seen \subseteq Len(server.beats) + 1 .. N
    /\ \A m \in Len(server.beats) + 1 .. N : HeardOrAhead(m, Len(chain) + 1)
    /\ \A i \in 1 .. Len(chain) : Own(chain[i]) =>
           LET e == chain[i] IN
           IF e.n = 0 THEN e.type = "heartbeat" /\ HeardOrAhead(N, i)
                      ELSE /\ IsBeat(N, e.type, e.n) /\ e.n > Len(server.beats)
                           /\ \A m \in e.n + 1 .. N : HeardOrAhead(m, i)
    /\ server.beating => Len(server.beats) < N
    /\ Len(server.beats) < N /\ ~server.beating => Len(server.beats) < N - 1
    /\ server.ready => Len(server.beats) < N

\* How far the match has come with it.
Reached(N) ==
    /\ N \notin record.seen => IF record.restoring THEN AtLast.state = "recovering"
                                                   ELSE AtLast.state = "configuring"
    /\ N \in record.seen /\ N - 1 \notin record.seen =>
           /\ AtLast.fact = "match.server_ready" /\ AtLast.told
           /\ IF record.restoring THEN AtLast.state = "recovering" ELSE AtLast.state = "ready"
    /\ N - 1 \in record.seen => AtLast.state = "live" /\ ~record.restoring
    /\ "heartbeat" \in timers => N \in record.seen

\* Without a server one is being obtained, or the match waits for a restore, or is over.
Serverless ==
    /\ AtLast.state \in {"allocating", "recovering"} \cup Terminal
    /\ "heartbeat" \notin timers
    /\ AtLast.state = "recovering" => ~record.row
    /\ AtLast.state \in Terminal => ~record.row
    /\ AtLast.state = "allocating" => record.row /\ Obtaining /\ ~record.restoring

ServerInv ==
    \/ server = None /\ Serverless
    \/ /\ server.id = record.servers /\ server.id # 0 /\ record.row
       /\ \E N \in {3, 5} : Playing(N) /\ Reached(N)

\* A server is obtained once at a time, and its step comes onto an empty chain; what the chain
\* gathers during an upload meets a match that has been live.
ChainInv ==
    /\ Obtaining => AtLast.state = "allocating" /\ server = None
    /\ \A i \in 1 .. Len(chain) :
           /\ chain[i].kind = "event" => chain[i].of \in 1 .. record.servers
           /\ chain[i].kind = "allocation" => Len(chain) = 1 /\ ~busy /\ "allocation" \notin timers
           /\ chain[i].kind = "heartbeat" => AtLast.state \notin Before
    /\ busy => out = <<>> /\ AtLast.state = "live"

FakeInv ==
    /\ open = (IF record.row THEN 1 ELSE 0)
    /\ Script /\ ServerInv /\ ChainInv
-----------------------------------------------------------------------------
(* Types.                                                                   *)

States == Before \cup Terminal \cup {"live", "recovering"}
Facts == {"none", "match.allocated", "match.server_ready", "match.recovering", "match.recovered",
          "match.failed", "match.ended"}
Kinds == {"event", "cancel", "release"} \cup Deadlines \cup Commands
Steps == [kind : Kinds, of : Nat, type : Types \cup {"heartbeat", "none"}, n : Nat]
Writes == [state : States \cup {"same"}, fact : Facts \cup {"same"}]
Records == [plan : Plans, recovers : BOOLEAN, servers : Nat, row : BOOLEAN, seen : SUBSET Nat,
            readyAt : BOOLEAN, restoring : BOOLEAN, paused : BOOLEAN, recoverable : BOOLEAN]
Servers == [id : Nat, beats : Seq(Types), dies : BOOLEAN, playing : BOOLEAN, ready : BOOLEAN,
            crashed : BOOLEAN, beating : BOOLEAN, backups : BOOLEAN, late : SUBSET Steps]

TypeInv ==
    /\ state \in States /\ fact \in Facts /\ told \in BOOLEAN
    /\ out \in Seq(Writes)
    /\ record \in Records
    /\ server \in Servers
    /\ server = None \/ server.id # 0
    /\ timers \subseteq Deadlines
    /\ chain \in Seq(Steps)
    /\ busy \in BOOLEAN
    /\ done \subseteq Commands

LEMMA SeqFacts ==
    ASSUME NEW S, NEW q \in Seq(S)
    PROVE  /\ Len(q) \in Nat /\ (q = <<>> <=> Len(q) = 0)
           /\ \A i \in 1 .. Len(q) : q[i] \in S
OBVIOUS

LEMMA TailFacts ==
    ASSUME NEW S, NEW q \in Seq(S), q # <<>>
    PROVE  /\ Tail(q) \in Seq(S) /\ Len(Tail(q)) = Len(q) - 1 /\ Len(q) > 0
           /\ \A i \in 1 .. Len(q) - 1 : Tail(q)[i] = q[i + 1]
           /\ Head(q) = q[1] /\ Head(q) \in S
OBVIOUS

LEMMA ConcatFacts ==
    ASSUME NEW S, NEW p \in Seq(S), NEW q \in Seq(S)
    PROVE  /\ p \o q \in Seq(S) /\ Len(p \o q) = Len(p) + Len(q)
           /\ \A i \in 1 .. Len(p) : (p \o q)[i] = p[i]
           /\ \A i \in Len(p) + 1 .. Len(p) + Len(q) : (p \o q)[i] = q[i - Len(p)]
OBVIOUS

LEMMA OneIsSeq == ASSUME NEW S, NEW x \in S PROVE <<x>> \in Seq(S) /\ <<>> \in Seq(S)
OBVIOUS

LEMMA StoryTyped ==
    /\ DOMAIN Story = {"full", "crash", "bare"}
    /\ \A p \in DOMAIN Story : Story[p] \in Seq(Types) /\ Len(Story[p]) \in {3, 5}
<1>1. /\ Story["full"] = <<"server_ready", "going_live", "backup_written", "demo_available", "series_end">>
      /\ Story["crash"] = <<"server_ready", "going_live", "backup_written">>
      /\ Story["bare"] = <<"server_ready", "going_live", "backup_written">>
      /\ DOMAIN Story = {"full", "crash", "bare"}
  BY DEF Story
<1>2. <<"server_ready", "going_live", "backup_written", "demo_available", "series_end">> \in Seq(Types)
  BY DEF Types
<1>3. <<"server_ready", "going_live", "backup_written">> \in Seq(Types)
  BY DEF Types
<1>4. Len(Story["full"]) = 5 /\ Len(Story["crash"]) = 3 /\ Len(Story["bare"]) = 3
  BY <1>1
<1>5. \A p \in {"full", "crash", "bare"} : Story[p] \in Seq(Types) /\ Len(Story[p]) \in {3, 5}
  BY <1>1, <1>2, <1>3, <1>4
<1> QED BY <1>1, <1>5

LEMMA WritesTyped ==
    /\ \A s \in States, f \in Facts :
           Move(s) \in Seq(Writes) /\ Say(f) \in Seq(Writes) /\ Both(s, f) \in Seq(Writes)
    /\ <<>> \in Seq(Writes)
<1>0. <<>> \in Seq(Writes)
  OBVIOUS
<1> SUFFICES ASSUME NEW s \in States, NEW f \in Facts
             PROVE  Move(s) \in Seq(Writes) /\ Say(f) \in Seq(Writes) /\ Both(s, f) \in Seq(Writes)
  BY <1>0
<1>1. /\ [state |-> s, fact |-> "same"] \in Writes /\ [state |-> "same", fact |-> f] \in Writes
      /\ [state |-> s, fact |-> f] \in Writes
  BY DEF Writes
<1> QED BY <1>1, OneIsSeq DEF Move, Say, Both

LEMMA JoinedTyped == ASSUME NEW p \in Seq(Writes), NEW q \in Seq(Writes) PROVE p \o q \in Seq(Writes)
OBVIOUS

LEMMA NoneTyped == None \in Servers /\ ~None.playing /\ ~None.beating /\ None.id = 0
BY DEF None, Servers

LEMMA BootedTyped ==
    ASSUME TypeInv, NEW p \in DOMAIN Story, NEW dies \in BOOLEAN
    PROVE  Booted(Story[p], dies) \in Servers /\ Booted(Story[p], dies).id = record.servers + 1
<1>1. record.servers \in Nat
  BY DEF TypeInv, Records
<1>2. Story[p] \in Seq(Types)
  BY StoryTyped
<1>3. record.servers + 1 \in Nat
  BY <1>1
<1> DEFINE b == Story[p]
           k == record.servers + 1
<1>4. Booted(b, dies) = [None EXCEPT !.id = k, !.beats = b, !.dies = dies, !.playing = TRUE]
  BY DEF Booted
<1>5. b \in Seq(Types) /\ k \in Nat
  BY <1>2, <1>3
<1> HIDE DEF b, k
<1>6. Booted(b, dies) \in Servers /\ Booted(b, dies).id = k
  BY <1>4, <1>5, NoneTyped DEF Servers
<1> QED BY <1>6 DEF b, k

\* A step's private writes.
LEMMA EndsTyped ==
    ASSUME TypeInv, NEW shown \in Seq(Writes), NEW s \in Terminal, Ends(shown, s)
    PROVE  /\ timers' \subseteq Deadlines /\ server' \in Servers /\ record' \in Records
           /\ (server' = None \/ server'.id # 0) /\ out' \in Seq(Writes)
<1>1. out' \in Seq(Writes)
  <2>1. Both(s, IF s = "failed" THEN "match.failed" ELSE "match.ended") \in Seq(Writes)
    BY WritesTyped DEF States, Facts
  <2> QED BY <2>1, JoinedTyped DEF Ends
<1>2. record' \in Records
  BY DEF Ends, TypeInv, Records
<1> QED BY <1>1, <1>2, NoneTyped DEF Ends

LEMMA RestoresTyped ==
    ASSUME TypeInv, NEW shown \in Seq(Writes), NEW ts \in SUBSET Deadlines, NEW n, Restores(shown, ts, n)
    PROVE  /\ timers' \subseteq Deadlines /\ server' \in Servers /\ record' \in Records
           /\ (server' = None \/ server'.id # 0) /\ out' \in Seq(Writes)
<1>1. out' \in Seq(Writes)
  <2>1. Say("match.allocated") \in Seq(Writes)
    BY WritesTyped DEF Facts, States, Before
  <2> QED BY <2>1, JoinedTyped DEF Restores
<1>2. record' \in Records
  <2>1. record.servers + 1 \in Nat
    BY DEF TypeInv, Records
  <2> QED BY <2>1 DEF Restores, TypeInv, Records
<1>3. server' \in Servers /\ server'.id # 0
  <2>1. "full" \in DOMAIN Story /\ Resumed = Story["full"]
    BY StoryTyped DEF Resumed
  <2>2. server' = Booted(Story["full"], FALSE)
    BY <2>1 DEF Restores
  <2>3. record.servers \in Nat
    BY DEF TypeInv, Records
  <2>4. server' \in Servers /\ server'.id = record.servers + 1
    BY <2>1, <2>2, BootedTyped
  <2> QED BY <2>3, <2>4
<1>4. timers' \subseteq Deadlines
  BY DEF Restores, Deadlines
<1> QED BY <1>1, <1>2, <1>3, <1>4

LEMMA LostTyped ==
    ASSUME TypeInv, NEW now \in BOOLEAN, Lost(now)
    PROVE  /\ timers' \subseteq Deadlines /\ server' \in Servers /\ record' \in Records
           /\ (server' = None \/ server'.id # 0) /\ out' \in Seq(Writes)
<1> DEFINE shown == Say("match.recovering") \o Move("recovering")
<1>1. shown \in Seq(Writes)
  BY WritesTyped, JoinedTyped DEF States, Facts
<1>2. Dropped(timers) \in SUBSET Deadlines
  BY DEF Dropped, TypeInv
<1>3. \/ Ends(shown, "failed")
      \/ Restores(shown, Dropped(timers), Closed(open))
      \/ /\ timers' = Dropped(timers) \cup {"recovery"} /\ server' = None /\ out' = shown
         /\ record' = [record EXCEPT !.row = FALSE, !.recoverable = TRUE]
  BY DEF Lost
<1> HIDE DEF shown
<1>4. CASE Ends(shown, "failed")
  BY <1>1, <1>4, EndsTyped DEF Terminal
<1>5. CASE Restores(shown, Dropped(timers), Closed(open))
  BY <1>1, <1>2, <1>5, RestoresTyped
<1>6. CASE /\ timers' = Dropped(timers) \cup {"recovery"} /\ server' = None /\ out' = shown
           /\ record' = [record EXCEPT !.row = FALSE, !.recoverable = TRUE]
  <2>1. record' \in Records
    BY <1>6 DEF TypeInv, Records
  <2> QED BY <1>1, <1>2, <1>6, <2>1, NoneTyped DEF Deadlines
<1> QED BY <1>3, <1>4, <1>5, <1>6
\* What a handler may change, typed.
Kept ==
    /\ timers' \subseteq Deadlines /\ server' \in Servers /\ record' \in Records
    /\ (server' = None \/ server'.id # 0) /\ out' \in Seq(Writes)

LEMMA ReturnsTyped == ASSUME TypeInv, Returns PROVE Kept
BY DEF Returns, TypeInv, Kept

LEMMA EndsKept == ASSUME TypeInv, NEW s \in Terminal, Ends(<<>>, s) PROVE Kept
BY EndsTyped, WritesTyped DEF Kept

LEMMA LostKept == ASSUME TypeInv, NEW now \in BOOLEAN, Lost(now) PROVE Kept
BY LostTyped DEF Kept

LEMMA TypesBegin ==
    ASSUME TypeInv, NEW K, Begins(K), Kept, Finish, done' \subseteq Commands
    PROVE  TypeInv'
<1>1. chain' \in Seq(Steps)
  BY TailFacts DEF TypeInv, Begins
<1> QED BY <1>1 DEF TypeInv, Kept, Finish, seen

LEMMA CommandsAre == ASSUME NEW c \in Commands, Answers(c), TypeInv PROVE done' \subseteq Commands
BY DEF Answers, TypeInv

LEMMA TypesShow == ASSUME TypeInv, Show PROVE TypeInv'
<1>1. out \in Seq(Writes) /\ out # <<>>
  BY DEF TypeInv, Show
<1>2. Head(out) \in Writes /\ out' \in Seq(Writes)
  BY <1>1, TailFacts DEF Show
<1>3. state' \in States
  BY <1>2 DEF Show, TypeInv, Writes
<1>4. fact' \in Facts
  BY <1>2 DEF Show, TypeInv, Writes
<1>5. told' \in BOOLEAN
  BY DEF Show, TypeInv
<1> QED BY <1>2, <1>3, <1>4, <1>5 DEF Show, TypeInv

LEMMA ArrivesTyped ==
    ASSUME TypeInv, NEW steps \in Seq(Steps), Arrives(steps)
    PROVE  chain' \in Seq(Steps)
BY ConcatFacts DEF Arrives, TypeInv

LEMMA StepTyped ==
    /\ \A k \in Kinds : <<Step(k)>> \in Seq(Steps)
    /\ \A id, n \in Nat, type \in Types \cup {"heartbeat"} :
           /\ Event(id, type, n) \in Steps /\ <<Event(id, type, n)>> \in Seq(Steps)
           /\ <<Event(id, type, n), Event(id, type, n)>> \in Seq(Steps)
<1>1. \A k \in Kinds : <<Step(k)>> \in Seq(Steps)
  <2> TAKE k \in Kinds
  <2>1. Step(k) \in Steps
    BY DEF Step, Steps
  <2> QED BY <2>1, OneIsSeq
<1>2. ASSUME NEW id \in Nat, NEW n \in Nat, NEW type \in Types \cup {"heartbeat"}
      PROVE  /\ Event(id, type, n) \in Steps /\ <<Event(id, type, n)>> \in Seq(Steps)
             /\ <<Event(id, type, n), Event(id, type, n)>> \in Seq(Steps)
  <2>1. Event(id, type, n) \in Steps
    BY DEF Event, Steps, Kinds
  <2> HIDE DEF Steps
  <2> QED BY <2>1
<1> QED BY <1>1, <1>2

LEMMA TypesFire == ASSUME TypeInv, NEW t \in Deadlines, Fire(t) PROVE TypeInv'
<1>1. chain' \in Seq(Steps)
  BY ArrivesTyped, StepTyped DEF Fire, Kinds
<1> QED BY <1>1 DEF Fire, TypeInv, seen

LEMMA TypesAsked == ASSUME TypeInv, Send \/ Order PROVE TypeInv'
<1>1. chain' \in Seq(Steps)
  <2>1. PICK k \in Kinds : Arrives(<<Step(k)>>)
    BY FakeAssumption DEF Send, Order, Asks, Kinds
  <2> QED BY <2>1, ArrivesTyped, StepTyped
<1> QED BY <1>1 DEF Send, Order, TypeInv, seen

\* A beat leaves the server's identity alone.
LEMMA DealtIs ==
    ASSUME TypeInv, Playable
    PROVE  /\ Dealt(server) \in Servers /\ Dealt(server).id = server.id
           /\ Dealt(server).beats = Tail(server.beats)
           /\ LET b == Head(server.beats) IN
              /\ Dealt(server).ready => server.ready \/ b = "server_ready"
              /\ ~Dealt(server).beating =>
                     \/ Tail(server.beats) = <<>> \/ b = "series_end"
                     \/ ~server.beating /\ b # "server_ready"
<1> DEFINE b == Head(server.beats)
           next == [server EXCEPT !.beats   = Tail(@),
                          !.ready   = (@ \/ b = "server_ready") /\ b # "series_end",
                          !.beating = (@ \/ b = "server_ready") /\ b # "series_end",
                          !.backups = @ \/ b = "backup_written"]
<1>1. server \in Servers /\ Tail(server.beats) \in Seq(Types)
  BY TailFacts DEF TypeInv, Playable, Servers
<1>2. /\ next \in Servers /\ next.id = server.id /\ next.beats = Tail(server.beats)
      /\ next.ready = ((server.ready \/ b = "server_ready") /\ b # "series_end")
      /\ next.beating = ((server.beating \/ b = "server_ready") /\ b # "series_end")
  BY <1>1 DEF Servers
<1>3. Dealt(server) = IF next.beats = <<>> /\ server.dies THEN Crash(next) ELSE next
  BY <1>1 DEF Dealt, Servers
<1> HIDE DEF next, b
<1>4. /\ Crash(next) \in Servers /\ Crash(next).id = next.id /\ Crash(next).beats = next.beats
      /\ Crash(next).ready = next.ready
  BY <1>2 DEF Crash, Servers
<1>5. CASE next.beats = <<>> /\ server.dies
  BY <1>2, <1>3, <1>4, <1>5 DEF b
<1>6. CASE ~(next.beats = <<>> /\ server.dies)
  BY <1>2, <1>3, <1>6 DEF b
<1> QED BY <1>5, <1>6

LEMMA TypesBeat == ASSUME TypeInv, Beat PROVE TypeInv'
<1>0. Playable /\ server' = Dealt(server)
  BY DEF Beat
<1>1. server.id \in Nat /\ server.beats \in Seq(Types) /\ server.beats # <<>> /\ server.id # 0
  BY <1>0, NoneTyped DEF Playable, TypeInv, Servers
<1>2. Len(server.beats) \in Nat /\ Head(server.beats) \in Types
  BY <1>1, TailFacts
<1>3. <<NextBeat>> \in Seq(Steps) /\ <<NextBeat, NextBeat>> \in Seq(Steps)
  BY <1>1, <1>2, StepTyped DEF NextBeat
<1>4. chain' \in Seq(Steps)
  BY <1>3, ArrivesTyped DEF Beat
<1>5. server' \in Servers /\ server'.id # 0
  BY <1>0, <1>1, DealtIs
<1> QED BY <1>4, <1>5 DEF Beat, TypeInv, seen
LEMMA TypesHeartbeat == ASSUME TypeInv, Heartbeat PROVE TypeInv'
<1>1. server.id \in Nat
  BY DEF TypeInv, Servers
<1>2. chain' \in Seq(Steps)
  BY <1>1, ArrivesTyped, StepTyped DEF Heartbeat
<1> QED BY <1>2 DEF Heartbeat, TypeInv, seen

LEMMA TypesUploaded == ASSUME TypeInv, Uploaded PROVE TypeInv'
BY DEF Uploaded, TypeInv, seen

LEMMA TypesEnding ==
    ASSUME TypeInv, Expire \/ NeverReady \/ NotRestored \/ Cancel \/ Release \/ ForceEnd \/ Again
                    \/ Unheard
    PROVE  TypeInv'
<1>1. Kept
  BY ReturnsTyped, EndsKept
     DEF Expire, NeverReady, NotRestored, Cancel, Release, ForceEnd, Again, Unheard, Terminal
<1>2. done' \subseteq Commands
  BY DEF Expire, NeverReady, NotRestored, Cancel, Release, ForceEnd, Again, Unheard, Answers, TypeInv,
         Commands
<1>3. Finish /\ \E K \in {{"ttl"}, {"ready"}, {"recovery"}, {"cancel"}, {"release"}, {"force_end"}, done,
                           {"event"}} : Begins(K)
  BY DEF Expire, NeverReady, NotRestored, Cancel, Release, ForceEnd, Again, Unheard, Answers
<1> QED BY <1>1, <1>2, <1>3, TypesBegin

LEMMA TypesAllocated == ASSUME TypeInv, Allocated PROVE TypeInv'
<1>1. CASE ~Alive
  <2>1. Begins({"allocation"}) /\ Returns /\ Finish /\ done' = done
    BY <1>1 DEF Allocated
  <2> QED BY <2>1, ReturnsTyped, TypesBegin DEF TypeInv
<1>2. CASE Alive
  <2>1. /\ record' = [record EXCEPT !.servers = @ + 1, !.seen = {}]
        /\ server' = Booted(Story[record.plan], record.plan # "full")
        /\ timers' = timers \cup {"ready"}
        /\ out'    = Say("match.allocated") \o Move("configuring")
        /\ Begins({"allocation"}) /\ Finish /\ done' = done
    BY <1>2 DEF Allocated
  <2>2. record.plan \in DOMAIN Story /\ record.servers \in Nat /\ (record.plan # "full") \in BOOLEAN
    BY FakeAssumption DEF TypeInv, Records
  <2>3. server' \in Servers /\ server'.id # 0
    <3>1. server' \in Servers /\ server'.id = record.servers + 1
      BY <2>1, <2>2, BootedTyped
    <3> QED BY <3>1, <2>2
  <2>4. record' \in Records
    <3>1. record.servers + 1 \in Nat
      BY <2>2
    <3> QED BY <2>1, <3>1 DEF TypeInv, Records
  <2>5. out' \in Seq(Writes)
    <3>1. Say("match.allocated") \in Seq(Writes) /\ Move("configuring") \in Seq(Writes)
      BY WritesTyped DEF Facts, States, Before
    <3> QED BY <2>1, <3>1, JoinedTyped
  <2>6. timers' \subseteq Deadlines
    BY <2>1 DEF TypeInv, Deadlines
  <2> QED BY <2>1, <2>3, <2>4, <2>5, <2>6, TypesBegin DEF Kept, TypeInv
<1> QED BY <1>1, <1>2

LEMMA TypesSilent == ASSUME TypeInv, Silent PROVE TypeInv'
<1>1. Kept /\ Begins({"heartbeat"}) /\ Finish /\ done' = done
  BY ReturnsTyped, LostKept DEF Silent
<1> QED BY <1>1, TypesBegin DEF TypeInv

LEMMA MarkedTyped ==
    ASSUME TypeInv, chain # <<>>
    PROVE  /\ Marked \in Records /\ Marked.seen = record.seen \cup ({Head(chain).n} \ {0})
           /\ Marked.servers = record.servers /\ Marked.row = record.row
           /\ Marked.restoring = record.restoring
<1>1. Head(chain).n \in Nat
  <2>1. Head(chain) \in Steps
    BY TailFacts DEF TypeInv
  <2> QED BY <2>1 DEF Steps
<1>2. record.seen \cup ({Head(chain).n} \ {0}) \in SUBSET Nat
  BY <1>1 DEF TypeInv, Records
<1> QED BY <1>2 DEF Marked, TypeInv, Records

LEMMA ArmedTyped == ASSUME TypeInv, NEW p PROVE Armed(timers, p) \subseteq Deadlines
BY DEF Armed, TypeInv, Deadlines

LEMMA TypesHears ==
    ASSUME TypeInv, ServerReady \/ GoingLive \/ DemoAvailable \/ SeriesEnd \/ Else
    PROVE  TypeInv'
<1>1. chain # <<>> /\ chain' = Tail(chain) /\ UNCHANGED <<seen, done, sends>>
  BY DEF ServerReady, GoingLive, DemoAvailable, SeriesEnd, Else, Hears, Begins
<1>2. chain' \in Seq(Steps)
  BY <1>1, TailFacts DEF TypeInv
<1>3. CASE SeriesEnd
  <2>1. Kept /\ busy' = busy
    BY <1>3, EndsKept DEF SeriesEnd, Terminal
  <2> QED BY <1>1, <1>2, <2>1 DEF TypeInv, Kept, seen
<1>4. CASE ServerReady \/ GoingLive \/ DemoAvailable \/ Else
  <2>0. Marked \in Records
    BY <1>1, MarkedTyped
  <2>1. record' \in Records
    BY <1>4, <2>0 DEF ServerReady, GoingLive, DemoAvailable, Else, Records
  <2>2. timers' \subseteq Deadlines
    BY <1>4, ArmedTyped DEF ServerReady, GoingLive, DemoAvailable, Else
  <2>3. out' \in Seq(Writes)
    <3>1. /\ Say("match.server_ready") \in Seq(Writes) /\ Say("match.recovered") \in Seq(Writes)
          /\ Move("ready") \in Seq(Writes) /\ Move("live") \in Seq(Writes) /\ <<>> \in Seq(Writes)
      BY WritesTyped DEF Facts, States, Before
    <3>2. CASE ServerReady
      BY <3>1, <3>2, JoinedTyped DEF ServerReady
    <3>3. CASE GoingLive
      BY <3>1, <3>3, JoinedTyped DEF GoingLive
    <3>4. CASE DemoAvailable \/ Else
      BY <3>4 DEF DemoAvailable, Else, TypeInv
    <3> QED BY <1>4, <3>2, <3>3, <3>4
  <2>4. server' = server /\ busy' \in BOOLEAN
    BY <1>4 DEF ServerReady, GoingLive, DemoAvailable, Else, TypeInv
  <2> QED BY <1>1, <1>2, <2>1, <2>2, <2>3, <2>4 DEF TypeInv, seen
<1> QED BY <1>3, <1>4

LEMMA TypesRestore == ASSUME TypeInv, Restore PROVE TypeInv'
<1>1. Kept
  <2>1. CASE Returns
    BY <2>1, ReturnsTyped
  <2>2. CASE Restores(<<>>, timers, open)
    <3>1. timers \in SUBSET Deadlines /\ <<>> \in Seq(Writes)
      BY WritesTyped DEF TypeInv
    <3> QED BY <2>2, <3>1, RestoresTyped DEF Kept
  <2> QED BY <2>1, <2>2 DEF Restore
<1>2. Begins({"restore"}) /\ Finish /\ done' \subseteq Commands
  BY DEF Restore, Answers, TypeInv, Commands
<1> QED BY <1>1, <1>2, TypesBegin

LEMMA ReallocatesKept == ASSUME TypeInv, Reallocates PROVE Kept
<1>1. record' \in Records
  BY DEF Reallocates, TypeInv, Records
<1>2. out' \in Seq(Writes)
  BY WritesTyped DEF Reallocates, States, Before, Facts
<1>3. timers' \subseteq Deadlines
  BY DEF Reallocates, Dropped, TypeInv, Deadlines
<1> QED BY <1>1, <1>2, <1>3, NoneTyped DEF Kept, Reallocates

LEMMA TypesReprovision == ASSUME TypeInv, Reprovision PROVE TypeInv'
<1>1. Kept
  <2>1. Reallocates \/ Lost(TRUE) \/ Returns
    BY DEF Reprovision
  <2> QED BY <2>1, ReallocatesKept, LostKept, ReturnsTyped
<1>2. Begins({"reprovision"}) /\ Finish /\ done' \subseteq Commands
  BY DEF Reprovision, Answers, TypeInv, Commands
<1> QED BY <1>1, <1>2, TypesBegin

LEMMA StoppedTyped ==
    ASSUME NEW s \in Servers
    PROVE  /\ Stop(s) \in Servers /\ Stop(s).id = s.id /\ Stop(s).beats = s.beats /\ Stop(s).ready = s.ready
           /\ Start(s) \in Servers /\ Start(s).id = s.id /\ Start(s).beats = s.beats /\ Start(s).ready = s.ready
BY DEF Stop, Start, Servers

LEMMA TypesPause ==
    ASSUME TypeInv, Pause \/ Unpause, state = "live" => server # None
    PROVE  TypeInv'
<1>1. (Begins({"pause"}) \/ Begins({"unpause"})) /\ Finish /\ done' \subseteq Commands
  BY DEF Pause, Unpause, Answers, TypeInv, Commands
<1>2. CASE Returns
  BY <1>1, <1>2, ReturnsTyped, TypesBegin
<1>3. CASE ~Returns
  <2>1. server' \in Servers /\ (server' = server \/ server'.id = server.id)
    BY <1>3, StoppedTyped DEF Pause, Unpause, TypeInv
  <2>2. record' \in Records
    BY <1>3 DEF Pause, Unpause, TypeInv, Records
  <2>3. timers' \subseteq Deadlines
    BY <1>3, ArmedTyped DEF Pause, Unpause, TypeInv
  <2>4. out' = out
    BY <1>3 DEF Pause, Unpause
  <2>5. state = "live"
    BY <1>3 DEF Pause, Unpause
  <2>6. server' = None \/ server'.id # 0
    BY <2>1, <2>5 DEF TypeInv
  <2> QED BY <1>1, <2>1, <2>2, <2>3, <2>4, <2>6, TypesBegin DEF Kept, TypeInv
<1> QED BY <1>2, <1>3
LEMMA TypesInit == Init => TypeInv
<1> SUFFICES ASSUME Init PROVE TypeInv
  OBVIOUS
<1>1. record \in Records
  <2>1. record \in [plan : Plans, recovers : Recovers, servers : {0}, row : {TRUE}, seen : {{}},
                    readyAt : {FALSE}, restoring : {FALSE}, paused : {FALSE}, recoverable : {FALSE}]
    BY DEF Init
  <2>2. Recovers \subseteq BOOLEAN /\ {0} \subseteq Nat /\ {{}} \subseteq SUBSET Nat
    BY FakeAssumption
  <2> QED BY <2>1, <2>2 DEF Records
<1>2. out \in Seq(Writes) /\ chain \in Seq(Steps)
  BY WritesTyped DEF Init, States, Before, Facts
<1> QED BY <1>1, <1>2, NoneTyped DEF Init, TypeInv, States, Before, Facts, Deadlines

LEMMA TypesStep == TypeInv /\ [Next]_vars /\ (out = <<>> /\ state = "live" => server # None) => TypeInv'
<1> SUFFICES ASSUME TypeInv, [Next]_vars, out = <<>> /\ state = "live" => server # None PROVE TypeInv'
  OBVIOUS
<1>1. CASE UNCHANGED vars
  BY <1>1, Zenon DEF vars, seen, TypeInv
<1>2. CASE Pause \/ Unpause
  <2>1. out = <<>>
    BY <1>2 DEF Pause, Unpause, Answers, Begins
  <2> QED BY <1>2, <2>1, TypesPause
<1>3. CASE Next
  BY <1>2, <1>3, TypesShow, TypesFire, TypesAsked, TypesBeat, TypesHeartbeat, TypesUploaded, TypesEnding,
     TypesAllocated, TypesSilent, TypesHears, TypesRestore, TypesReprovision, Zenon DEF Next, Run
<1> QED BY <1>1, <1>3

-----------------------------------------------------------------------------
(* What is left to show.                                                    *)

LEMMA ScriptNone ==
    ASSUME out = <<>>
    PROVE  AtLast = View /\ Script
BY DEF AtLast, Script

\* A step that shows something finds nothing left to show, and the view as the last one left it.
LEMMA ScriptOne ==
    ASSUME UNCHANGED <<state, fact, told>>, NEW w, out' = <<w>>, NEW v, v = Shown(View, w), Allows(View, v)
    PROVE  Script' /\ AtLast' = v
<1>1. Len(out') = 1 /\ out'[1] = w /\ out' # <<>> /\ View' = View
  BY DEF View
<1>2. First' = v
  BY <1>1 DEF First
<1> QED BY <1>1, <1>2 DEF Script, AtLast

LEMMA ScriptTwo ==
    ASSUME UNCHANGED <<state, fact, told>>, NEW w, NEW x, Len(out') = 2 /\ out'[1] = w /\ out'[2] = x,
           NEW v, v = Shown(View, w), Allows(View, v), NEW u, u = Shown(v, x), Allows(v, u)
    PROVE  Script' /\ AtLast' = u
<1>1. out' # <<>> /\ View' = View
  BY DEF View
<1>2. First' = v /\ Second' = u
  BY <1>1 DEF First, Second
<1> QED BY <1>1, <1>2 DEF Script, AtLast

LEMMA ScriptThree ==
    ASSUME UNCHANGED <<state, fact, told>>, NEW w, NEW x, NEW y, Len(out') = 3 /\ out'[1] = w /\ out'[2] = x /\ out'[3] = y,
           NEW v, v = Shown(View, w), Allows(View, v), NEW u, u = Shown(v, x), Allows(v, u),
           NEW t, t = Shown(u, y), Allows(u, t)
    PROVE  Script' /\ AtLast' = t
<1>1. out' # <<>> /\ View' = View
  BY DEF View
<1>2. First' = v /\ Second' = u /\ Third' = t
  BY <1>1 DEF First, Second, Third
<1> QED BY <1>1, <1>2 DEF Script, AtLast

\* What a write does to a view.
Views == [state : States, fact : Facts, told : BOOLEAN]

LEMMA ShownMove ==
    ASSUME NEW v \in Views, NEW s \in States
    PROVE  /\ Shown(v, [state |-> s, fact |-> "same"]) = [v EXCEPT !.state = s]
           /\ [v EXCEPT !.state = s] \in Views /\ [v EXCEPT !.state = s].state = s
           /\ [v EXCEPT !.state = s].fact = v.fact /\ [v EXCEPT !.state = s].told = v.told
BY DEF Shown, Views, States, Before, Terminal

LEMMA ShownSay ==
    ASSUME NEW v \in Views, NEW f \in {"match.allocated", "match.recovered"}
    PROVE  /\ Shown(v, [state |-> "same", fact |-> f]) = [v EXCEPT !.fact = f]
           /\ [v EXCEPT !.fact = f] \in Views /\ [v EXCEPT !.fact = f].fact = f
           /\ [v EXCEPT !.fact = f].state = v.state /\ [v EXCEPT !.fact = f].told = v.told
<1>1. Shown(v, [state |-> "same", fact |-> f]) = [state |-> v.state, fact |-> f, told |-> v.told]
  BY DEF Shown
<1>2. [state |-> v.state, fact |-> f, told |-> v.told] = [v EXCEPT !.fact = f]
  BY DEF Views
<1> QED BY <1>1, <1>2 DEF Views, Facts

LEMMA ShownReady ==
    ASSUME NEW v \in Views
    PROVE  LET u == [state |-> v.state, fact |-> "match.server_ready", told |-> TRUE] IN
           /\ Shown(v, [state |-> "same", fact |-> "match.server_ready"]) = u
           /\ u \in Views /\ u.state = v.state /\ u.fact = "match.server_ready" /\ u.told
BY DEF Shown, Views, Facts

LEMMA ShownLoss ==
    ASSUME NEW v \in Views
    PROVE  LET u == [state |-> v.state, fact |-> "match.recovering", told |-> FALSE] IN
           /\ Shown(v, [state |-> "same", fact |-> "match.recovering"]) = u
           /\ u \in Views /\ u.state = v.state /\ u.fact = "match.recovering" /\ ~u.told
BY DEF Shown, Views, Facts

LEMMA ShownEnd ==
    ASSUME NEW v \in Views, NEW s \in Terminal
    PROVE  LET f == IF s = "failed" THEN "match.failed" ELSE "match.ended"
               u == [state |-> s, fact |-> f, told |-> v.told] IN
           /\ Shown(v, [state |-> s, fact |-> f]) = u
           /\ u \in Views /\ u.state = s
BY DEF Shown, Views, Facts, Terminal, States

LEMMA ViewTyped == ASSUME TypeInv PROVE View \in Views /\ View.state = state /\ View.fact = fact /\ View.told = told
BY DEF TypeInv, View, Views

LEMMA ReadyShows ==
    ASSUME NEW v \in Views, v.state = "configuring"
    PROVE  LET u == Shown(v, [state |-> "ready", fact |-> "same"]) IN
           u \in Views /\ u.state = "ready" /\ Allows(v, u)
<1> DEFINE u == [v EXCEPT !.state = "ready"]
<1>1. "ready" \in States
  BY DEF States, Before
<1>2. Shown(v, [state |-> "ready", fact |-> "same"]) = u /\ u \in Views /\ u.state = "ready"
  BY <1>1, ShownMove
<1>3. Allows(v, u)
  BY DEF Allows
<1> QED BY <1>2, <1>3

LEMMA LiveShows ==
    ASSUME NEW v \in Views, \/ v.state = "ready" /\ v.fact = "match.server_ready"
                            \/ v.state = "recovering" /\ v.fact = "match.recovered"
    PROVE  LET u == Shown(v, [state |-> "live", fact |-> "same"]) IN u.state = "live" /\ Allows(v, u)
<1> DEFINE u == [v EXCEPT !.state = "live"]
<1>1. "live" \in States
  BY DEF States
<1>2. Shown(v, [state |-> "live", fact |-> "same"]) = u /\ u.state = "live"
  BY <1>1, ShownMove
<1>3. Allows(v, u)
  BY DEF Allows
<1> QED BY <1>2, <1>3

LEMMA RecoveredShows ==
    ASSUME NEW v \in Views, v.state = "recovering", v.told
    PROVE  LET u == Shown(v, [state |-> "same", fact |-> "match.recovered"]) IN
           u \in Views /\ u.state = "recovering" /\ u.fact = "match.recovered" /\ Allows(v, u)
<1> DEFINE u == [v EXCEPT !.fact = "match.recovered"]
<1>2. /\ Shown(v, [state |-> "same", fact |-> "match.recovered"]) = u /\ u \in Views
      /\ u.state = v.state /\ u.fact = "match.recovered"
  BY ShownSay
<1>3. Allows(v, u)
  BY DEF Allows
<1> QED BY <1>2, <1>3

LEMMA TwoWrites == ASSUME NEW a, NEW b PROVE LET p == <<a>> \o <<b>> IN Len(p) = 2 /\ p[1] = a /\ p[2] = b
OBVIOUS

LEMMA ThreeWrites ==
    ASSUME NEW a, NEW b, NEW c
    PROVE  LET p == (<<a>> \o <<b>>) \o <<c>> IN Len(p) = 3 /\ p[1] = a /\ p[2] = b /\ p[3] = c
OBVIOUS

\* A match that ends, and one that loses its server, show what they may.
LEMMA EndShows ==
    ASSUME NEW v \in Views, v.state \notin Terminal, NEW s \in Terminal, s = "cancelled" => v.state \in Before
    PROVE  LET w == [state |-> s, fact |-> IF s = "failed" THEN "match.failed" ELSE "match.ended"] IN
           Allows(v, Shown(v, w)) /\ Shown(v, w).state = s
<1> DEFINE f == IF s = "failed" THEN "match.failed" ELSE "match.ended"
           u == [state |-> s, fact |-> f, told |-> v.told]
<1>1. Shown(v, [state |-> s, fact |-> f]) = u /\ u.state = s
  BY ShownEnd
<1>2. Allows(v, u)
  BY DEF Allows, Terminal
<1> QED BY <1>1, <1>2

LEMMA LossShows ==
    ASSUME NEW v \in Views, v.state = "live"
    PROVE  \E u \in Views, t \in Views :
               /\ u = Shown(v, [state |-> "same", fact |-> "match.recovering"]) /\ Allows(v, u)
               /\ t = Shown(u, [state |-> "recovering", fact |-> "same"]) /\ Allows(u, t)
               /\ t.state = "recovering" /\ t.fact = "match.recovering" /\ ~t.told
<1> DEFINE u == [state |-> v.state, fact |-> "match.recovering", told |-> FALSE]
           t == [u EXCEPT !.state = "recovering"]
<1>1. /\ u \in Views /\ u = Shown(v, [state |-> "same", fact |-> "match.recovering"])
      /\ u.state = "live" /\ u.fact = "match.recovering" /\ ~u.told
  BY ShownLoss
<1>2. Allows(v, u)
  BY DEF Allows
<1>3. "recovering" \in States
  BY DEF States
<1>4. Allows(u, t)
  <2> HIDE DEF u
  <2> QED BY <1>1 DEF Allows
<1>5. /\ t \in Views /\ t = Shown(u, [state |-> "recovering", fact |-> "same"])
      /\ t.state = "recovering" /\ t.fact = u.fact /\ t.told = u.told
  <2> HIDE DEF u
  <2> QED BY <1>1, <1>3, ShownMove
<1> HIDE DEF u, t
<1> QED BY <1>1, <1>2, <1>4, <1>5

\* Show plays the first write.
LEMMA ShowPlays ==
    ASSUME TypeInv, Script, Show
    PROVE  Allows(View, View') /\ Script' /\ AtLast' = AtLast
<1>1. out \in Seq(Writes) /\ out # <<>> /\ out' = Tail(out)
  BY DEF TypeInv, Show
<1>2. /\ Len(out) \in 1 .. 3 /\ Len(out') = Len(out) - 1 /\ Head(out) = out[1]
      /\ Len(out) >= 2 => out'[1] = out[2]
      /\ Len(out) >= 3 => out'[2] = out[3]
  BY <1>1, TailFacts DEF Script
<1>3. View' = First
  BY <1>2 DEF View, First, Shown, Show
<1>4. /\ Len(out) >= 2 => First' = Second
      /\ Len(out) >= 3 => Second' = Third
  BY <1>2, <1>3 DEF First, Second, Third
<1>5. Allows(View, View')
  BY <1>2, <1>3 DEF Script
<1>6. Script'
  BY <1>2, <1>3, <1>4 DEF Script
<1>7. AtLast' = AtLast
  <2>1. out' = <<>> <=> Len(out') = 0
    <3>1. out' \in Seq(Writes)
      BY <1>1, TailFacts
    <3> QED BY <3>1, SeqFacts
  <2> QED BY <1>1, <1>2, <1>3, <1>4, <2>1 DEF AtLast
<1> QED BY <1>5, <1>6, <1>7

\* A view allowed after another is a step of the lifecycle.
LEMMA AllowsIs ==
    ASSUME Allows(View, View')
    PROVE  Lifecycle!Next
<1>1. /\ View.state = state /\ View.fact = fact /\ View.told = told
      /\ View'.state = state' /\ View'.fact = fact' /\ View'.told = told'
  BY DEF View
<1> HIDE DEF View
<1> USE DEF Lifecycle!Next, Lifecycle!Before, Lifecycle!Terminal, Before, Terminal
<1>2. CASE View' = [View EXCEPT !.state = "allocating"] /\ View.state \in Before
  BY <1>1, <1>2 DEF Lifecycle!StartOver, Lifecycle!Move, View
<1>3. CASE View' = [View EXCEPT !.fact = "match.allocated"] /\ View.state \in {"allocating", "recovering"}
  BY <1>1, <1>3 DEF Lifecycle!Allocated, Lifecycle!Say, View
<1>4. CASE View' = [View EXCEPT !.state = "configuring"] /\ View.state = "allocating" /\ View.fact = "match.allocated"
  BY <1>1, <1>4 DEF Lifecycle!Configured, Lifecycle!Move, View
<1>5. CASE View' = [View EXCEPT !.state = "ready"] /\ View.state = "configuring"
  BY <1>1, <1>5 DEF Lifecycle!Ready, Lifecycle!Move, View
<1>6. CASE View' = [state |-> View.state, fact |-> "match.server_ready", told |-> TRUE] /\ View.state \in {"ready", "recovering"}
  BY <1>1, <1>6 DEF Lifecycle!Connect, View
<1>7. CASE View' = [View EXCEPT !.state = "live"] /\ View.state = "ready" /\ View.fact = "match.server_ready"
  BY <1>1, <1>7 DEF Lifecycle!GoLive, Lifecycle!Move, View
<1>8. CASE View' = [state |-> View.state, fact |-> "match.recovering", told |-> FALSE] /\ View.state = "live"
  BY <1>1, <1>8 DEF Lifecycle!Lose, View
<1>9. CASE View' = [View EXCEPT !.state = "recovering"] /\ View.state = "live" /\ View.fact = "match.recovering"
  BY <1>1, <1>9 DEF Lifecycle!Recovering, Lifecycle!Move, View
<1>10. CASE View' = [View EXCEPT !.fact = "match.recovered"] /\ View.state = "recovering" /\ View.told
  BY <1>1, <1>10 DEF Lifecycle!Recovered, Lifecycle!Say, View
<1>11. CASE View' = [View EXCEPT !.state = "live"] /\ View.state = "recovering" /\ View.fact = "match.recovered"
  BY <1>1, <1>11 DEF Lifecycle!Resume, Lifecycle!Move, View
<1>12. CASE View' = [state |-> "failed", fact |-> "match.failed", told |-> View.told] /\ View.state \notin Terminal
  BY <1>1, <1>12 DEF Lifecycle!End, View
<1>13. CASE View' = [state |-> "ended", fact |-> "match.ended", told |-> View.told] /\ View.state \notin Terminal
  BY <1>1, <1>13 DEF Lifecycle!End, View
<1>14. CASE View' = [state |-> "cancelled", fact |-> "match.ended", told |-> View.told] /\ View.state \in Before
  BY <1>1, <1>14 DEF Lifecycle!End, View
<1> QED
  BY <1>2, <1>3, <1>4, <1>5, <1>6, <1>7, <1>8, <1>9, <1>10, <1>11, <1>12, <1>13, <1>14 DEF Allows
-----------------------------------------------------------------------------
(* A server's story on the chain.                                           *)

LEMMA StoryBeats ==
    ASSUME NEW p \in DOMAIN Story
    PROVE  \A i \in 1 .. Len(Story[p]) : IsBeat(Len(Story[p]), Story[p][i], Len(Story[p]) - i + 1)
<1>1. p \in {"full", "crash", "bare"}
  BY StoryTyped
<1>2. CASE p = "full"
  <2>1. Story[p] = <<"server_ready", "going_live", "backup_written", "demo_available", "series_end">>
    BY <1>2 DEF Story
  <2>2. /\ Len(Story[p]) = 5 /\ Story[p][1] = "server_ready" /\ Story[p][2] = "going_live"
        /\ Story[p][3] = "backup_written" /\ Story[p][4] = "demo_available" /\ Story[p][5] = "series_end"
    BY <2>1
  <2>3. ASSUME NEW i \in 1 .. 5 PROVE i = 1 \/ i = 2 \/ i = 3 \/ i = 4 \/ i = 5
    OBVIOUS
  <2> QED BY <2>2, <2>3 DEF IsBeat, Types
<1>3. CASE p = "crash" \/ p = "bare"
  <2>1. Story[p] = <<"server_ready", "going_live", "backup_written">>
    BY <1>3 DEF Story
  <2>2. /\ Len(Story[p]) = 3 /\ Story[p][1] = "server_ready" /\ Story[p][2] = "going_live"
        /\ Story[p][3] = "backup_written"
    BY <2>1
  <2>3. ASSUME NEW i \in 1 .. 3 PROVE i = 1 \/ i = 2 \/ i = 3
    OBVIOUS
  <2> QED BY <2>2, <2>3 DEF IsBeat, Types
<1> QED BY <1>1, <1>2, <1>3

LEMMA ChainTyped ==
    ASSUME TypeInv
    PROVE  /\ Len(chain) \in Nat /\ (chain = <<>> <=> Len(chain) = 0)
           /\ \A i \in 1 .. Len(chain) : chain[i] \in Steps /\ chain[i].n \in Nat /\ chain[i].of \in Nat
           /\ server.id \in Nat /\ server.beats \in Seq(Types) /\ Len(server.beats) \in Nat
           /\ record.servers \in Nat /\ record.seen \in SUBSET Nat
<1>1. chain \in Seq(Steps) /\ server.beats \in Seq(Types) /\ server.id \in Nat
  BY DEF TypeInv, Servers
<1>2. record.servers \in Nat /\ record.seen \in SUBSET Nat
  BY DEF TypeInv, Records
<1>3. \A i \in 1 .. Len(chain) : chain[i] \in Steps
  BY <1>1, SeqFacts
<1> QED BY <1>1, <1>2, <1>3, SeqFacts DEF Steps

\* The head of the chain goes; a beat of the server's own that it was is heard.
LEMMA Popped ==
    ASSUME TypeInv, NEW N \in {3, 5}, Playing(N), chain # <<>>, chain' = Tail(chain),
           server'.id = server.id, server'.beats = server.beats, server'.ready => server.ready,
           server'.beating => Len(server.beats) < N,
           Len(server.beats) < N /\ ~server'.beating => Len(server.beats) < N - 1,
           record.seen \subseteq record'.seen,
           record'.seen \subseteq Len(server.beats) + 1 .. N,
           Own(Head(chain)) /\ Head(chain).n # 0 => Head(chain).n \in record'.seen
    PROVE  Playing(N)'
<1>1. /\ Len(chain') = Len(chain) - 1 /\ Len(chain) > 0 /\ Head(chain) = chain[1]
      /\ \A i \in 1 .. Len(chain) - 1 : chain'[i] = chain[i + 1]
      /\ Len(chain) \in Nat /\ Len(server.beats) \in Nat
  BY ChainTyped, TailFacts DEF TypeInv
<1>2. ASSUME NEW m \in 1 .. N, NEW i \in 1 .. Len(chain), HeardOrAhead(m, i + 1)
      PROVE  HeardOrAhead(m, i)'
  <2>1. CASE m \in record.seen
    BY <2>1 DEF HeardOrAhead
  <2>2. CASE \E j \in 1 .. Len(chain) : j < i + 1 /\ Own(chain[j]) /\ chain[j].n = m
    <3>1. PICK j \in 1 .. Len(chain) : j < i + 1 /\ Own(chain[j]) /\ chain[j].n = m
      BY <2>2
    <3>2. CASE j = 1
      BY <3>1, <3>2, <1>1 DEF HeardOrAhead
    <3>3. CASE j # 1
      <4>1. j - 1 \in 1 .. Len(chain') /\ j - 1 < i /\ chain'[j - 1] = chain[j]
        BY <3>1, <3>3, <1>1
      <4>2. Own(chain[j - 1])' /\ chain'[j - 1].n = m
        BY <4>1, <3>1 DEF Own
      <4> QED BY <4>1, <4>2 DEF HeardOrAhead
    <3> QED BY <3>2, <3>3
  <2> QED BY <1>2, <2>1, <2>2 DEF HeardOrAhead
<1>3. ASSUME NEW m \in Len(server.beats) + 1 .. N PROVE HeardOrAhead(m, Len(chain) + 1)'
  <2>1. HeardOrAhead(m, Len(chain) + 1) /\ m \in 1 .. N
    BY <1>1 DEF Playing
  <2>2. PICK i \in 1 .. Len(chain) : i = Len(chain)
    <3>1. Len(chain) \in 1 .. Len(chain)
      BY <1>1
    <3> QED BY <3>1
  <2>3. HeardOrAhead(m, i)'
    BY <2>1, <2>2, <1>2
  <2> QED BY <2>2, <2>3, <1>1
<1>4. ASSUME NEW i \in 1 .. Len(chain'), Own(chain[i])'
      PROVE  LET e == chain'[i] IN
             IF e.n = 0 THEN e.type = "heartbeat" /\ HeardOrAhead(N, i)'
                        ELSE /\ IsBeat(N, e.type, e.n) /\ e.n > Len(server'.beats)
                             /\ \A m \in e.n + 1 .. N : HeardOrAhead(m, i)'
  <2>1. i \in 1 .. Len(chain) - 1 /\ i + 1 \in 1 .. Len(chain) /\ chain'[i] = chain[i + 1] /\ i \in 1 .. Len(chain)
    BY <1>1
  <2> DEFINE e == chain[i + 1]
  <2>2. Own(e) /\ e.n \in Nat
    BY <1>4, <2>1, ChainTyped DEF Own
  <2>3. IF e.n = 0 THEN e.type = "heartbeat" /\ HeardOrAhead(N, i + 1)
                   ELSE /\ IsBeat(N, e.type, e.n) /\ e.n > Len(server.beats)
                        /\ \A m \in e.n + 1 .. N : HeardOrAhead(m, i + 1)
    BY <2>1, <2>2 DEF Playing
  <2>4. CASE e.n = 0
    BY <2>1, <2>3, <2>4, <1>2
  <2>5. CASE e.n # 0
    <3>1. \A m \in e.n + 1 .. N : m \in 1 .. N /\ HeardOrAhead(m, i + 1)
      BY <2>2, <2>3, <2>5
    <3> QED BY <2>1, <2>3, <2>5, <3>1, <1>2
  <2> QED BY <2>4, <2>5
<1>5. /\ Len(server.beats) <= N
      /\ \A i \in 1 .. Len(server.beats) : IsBeat(N, server.beats[i], Len(server.beats) - i + 1)
      /\ server.ready => Len(server.beats) < N
  BY DEF Playing
<1> QED BY <1>3, <1>4, <1>5 DEF Playing

\* What was heard or ahead stays so when the chain grows.
LEMMA AheadGrows ==
    ASSUME TypeInv, NEW steps \in Seq(Steps), chain' = chain \o steps, server'.id = server.id,
           record'.seen = record.seen, NEW m, NEW i, HeardOrAhead(m, i)
    PROVE  HeardOrAhead(m, i)'
<1>1. /\ Len(chain') = Len(chain) + Len(steps) /\ Len(chain) \in Nat /\ Len(steps) \in Nat
      /\ \A j \in 1 .. Len(chain) : chain'[j] = chain[j]
  BY ConcatFacts, SeqFacts DEF TypeInv
<1>2. CASE m \in record.seen
  BY <1>2 DEF HeardOrAhead
<1>3. CASE m \notin record.seen
  <2>1. PICK j \in 1 .. Len(chain) : j < i /\ Own(chain[j]) /\ chain[j].n = m
    BY <1>3 DEF HeardOrAhead
  <2>2. j \in 1 .. Len(chain') /\ chain'[j] = chain[j] /\ Own(chain[j])'
    BY <2>1, <1>1 DEF Own
  <2> QED BY <2>1, <2>2 DEF HeardOrAhead
<1> QED BY <1>2, <1>3

\* What comes onto the chain is no beat of the server's own, but for a heartbeat.
LEMMA Pushed ==
    ASSUME TypeInv, NEW N \in {3, 5}, Playing(N), NEW steps \in Seq(Steps), chain' = chain \o steps,
           UNCHANGED <<server, record>>,
           \A k \in 1 .. Len(steps) : Own(steps[k]) =>
               steps[k].n = 0 /\ steps[k].type = "heartbeat" /\ server.beating
    PROVE  Playing(N)'
<1>1. /\ Len(chain') = Len(chain) + Len(steps) /\ Len(chain) \in Nat /\ Len(steps) \in Nat
      /\ \A j \in 1 .. Len(chain) : chain'[j] = chain[j]
      /\ \A j \in Len(chain) + 1 .. Len(chain) + Len(steps) : chain'[j] = steps[j - Len(chain)]
      /\ Len(server.beats) \in Nat
  BY ConcatFacts, SeqFacts, ChainTyped DEF TypeInv
<1>2. ASSUME NEW m, NEW i, HeardOrAhead(m, i) PROVE HeardOrAhead(m, i)'
  BY <1>2, AheadGrows
<1>3. ASSUME NEW m, NEW i \in Nat, i > Len(chain), HeardOrAhead(m, Len(chain) + 1) PROVE HeardOrAhead(m, i)
  BY <1>1, <1>3 DEF HeardOrAhead
<1>4. ASSUME NEW m \in Len(server.beats) + 1 .. N PROVE HeardOrAhead(m, Len(chain) + 1)'
  <2>1. PICK i \in Nat : i = Len(chain') + 1
    BY <1>1
  <2>2. HeardOrAhead(m, i)
    BY <2>1, <1>1, <1>3 DEF Playing
  <2>3. HeardOrAhead(m, i)'
    BY <2>2, <1>2
  <2> QED BY <2>1, <2>3
<1>5. ASSUME NEW i \in 1 .. Len(chain'), Own(chain[i])'
      PROVE  LET e == chain'[i] IN
             IF e.n = 0 THEN e.type = "heartbeat" /\ HeardOrAhead(N, i)'
                        ELSE /\ IsBeat(N, e.type, e.n) /\ e.n > Len(server'.beats)
                             /\ \A m \in e.n + 1 .. N : HeardOrAhead(m, i)'
  <2>1. CASE i \in 1 .. Len(chain)
    <3>1. chain'[i] = chain[i] /\ Own(chain[i])
      BY <1>1, <1>5, <2>1 DEF Own
    <3>2. LET e == chain[i] IN
             IF e.n = 0 THEN e.type = "heartbeat" /\ HeardOrAhead(N, i)
                        ELSE /\ IsBeat(N, e.type, e.n) /\ e.n > Len(server.beats)
                             /\ \A m \in e.n + 1 .. N : HeardOrAhead(m, i)
      BY <2>1, <3>1 DEF Playing
    <3> QED BY <3>1, <3>2, <1>2
  <2>2. CASE i \notin 1 .. Len(chain)
    <3>1. i \in Nat /\ i > Len(chain) /\ i - Len(chain) \in 1 .. Len(steps) /\ chain'[i] = steps[i - Len(chain)]
      BY <1>1, <2>2
    <3>2. chain'[i].n = 0 /\ chain'[i].type = "heartbeat" /\ server.beating
      BY <3>1, <1>5 DEF Own
    <3>3. HeardOrAhead(N, Len(chain) + 1)
      <4>1. N \in Len(server.beats) + 1 .. N
        BY <3>2, <1>1 DEF Playing
      <4> QED BY <4>1 DEF Playing
    <3> QED BY <3>1, <3>2, <3>3, <1>2, <1>3
  <2> QED BY <2>1, <2>2
<1>6. /\ Len(server.beats) <= N
      /\ \A i \in 1 .. Len(server.beats) : IsBeat(N, server.beats[i], Len(server.beats) - i + 1)
      /\ record.seen \subseteq Len(server.beats) + 1 .. N
      /\ server.beating => Len(server.beats) < N
      /\ Len(server.beats) < N /\ ~server.beating => Len(server.beats) < N - 1
      /\ server.ready => Len(server.beats) < N
  BY DEF Playing
<1> QED BY <1>4, <1>5, <1>6 DEF Playing
LEMMA Beyond ==
    ASSUME NEW a, NEW k \in Nat, NEW l, l = 1 \/ l = 2, a = k + l
    PROVE  a + 1 \in Nat /\ a + 1 > k + 1
OBVIOUS

\* A beat comes onto the chain, once or twice, behind those before it.
LEMMA BeatPlays ==
    ASSUME TypeInv, NEW N \in {3, 5}, Playing(N), Beat
    PROVE  Playing(N)'
<1>0. Playable /\ server' = Dealt(server) /\ record' = record
  BY DEF Beat
<1> DEFINE b == Head(server.beats)
           n == Len(server.beats)
           L == Len(chain)
<1>1. /\ server.beats # <<>> /\ n \in Nat /\ n > 0 /\ b = server.beats[1] /\ L \in Nat
      /\ Len(Tail(server.beats)) = n - 1
      /\ \A i \in 1 .. n - 1 : Tail(server.beats)[i] = server.beats[i + 1]
  BY <1>0, ChainTyped, TailFacts DEF Playable
<1>2. server'.beats = Tail(server.beats) /\ Len(server'.beats) = n - 1 /\ server'.id = server.id
  BY <1>0, <1>1, DealtIs
<1>3. IsBeat(N, b, n) /\ n <= N
  <2>1. 1 \in 1 .. n /\ n - 1 + 1 = n
    BY <1>1
  <2>2. IsBeat(N, server.beats[1], n - 1 + 1)
    BY <2>1 DEF Playing
  <2> QED BY <2>1, <2>2, <1>1 DEF Playing
<1>4. PICK steps \in Seq(Steps) :
          /\ chain' = chain \o steps /\ Len(steps) \in {1, 2}
          /\ \A k \in 1 .. Len(steps) : steps[k] = NextBeat
  <2>1. server.id \in Nat /\ b \in Types
    BY <1>0, <1>1, ChainTyped, TailFacts
  <2>2. <<NextBeat>> \in Seq(Steps) /\ <<NextBeat, NextBeat>> \in Seq(Steps)
    BY <1>1, <2>1, StepTyped DEF NextBeat
  <2>3. /\ Len(<<NextBeat>>) = 1 /\ \A k \in 1 .. 1 : <<NextBeat>>[k] = NextBeat
        /\ Len(<<NextBeat, NextBeat>>) = 2
        /\ \A k \in 1 .. 2 : <<NextBeat, NextBeat>>[k] = NextBeat
    OBVIOUS
  <2>4. chain' = chain \o <<NextBeat>> \/ chain' = chain \o <<NextBeat, NextBeat>>
    BY DEF Beat, Arrives
  <2> HIDE DEF b, n, L
  <2>5. CASE chain' = chain \o <<NextBeat>>
    BY <2>2, <2>3, <2>5
  <2>6. CASE chain' = chain \o <<NextBeat, NextBeat>>
    BY <2>2, <2>3, <2>6
  <2> QED BY <2>4, <2>5, <2>6
<1>5. /\ NextBeat.kind = "event" /\ NextBeat.of = server.id /\ NextBeat.type = b /\ NextBeat.n = n
  BY DEF NextBeat, Event
<1>6. /\ Len(chain') = L + Len(steps)
      /\ \A j \in 1 .. L : chain'[j] = chain[j]
      /\ \A j \in L + 1 .. L + Len(steps) : chain'[j] = NextBeat
  <2>1. /\ Len(chain \o steps) = L + Len(steps)
        /\ \A j \in 1 .. L : (chain \o steps)[j] = chain[j]
        /\ \A j \in L + 1 .. L + Len(steps) : (chain \o steps)[j] = steps[j - L]
    BY ConcatFacts DEF TypeInv
  <2>2. ASSUME NEW j \in L + 1 .. L + Len(steps) PROVE chain'[j] = NextBeat
    <3>1. j - L \in 1 .. Len(steps)
      BY <1>1, <1>4
    <3> QED BY <3>1, <2>1, <1>4
  <2> QED BY <2>1, <2>2, <1>4
<1>7. ASSUME NEW m, NEW i, HeardOrAhead(m, i) PROVE HeardOrAhead(m, i)'
  BY <1>0, <1>2, <1>4, <1>7, AheadGrows
<1>8. ASSUME NEW m \in n + 1 .. N, NEW i \in Nat, i > L PROVE HeardOrAhead(m, i)'
  <2>1. HeardOrAhead(m, L + 1)
    BY DEF Playing
  <2>2. HeardOrAhead(m, i)
    BY <2>1, <1>1, <1>8 DEF HeardOrAhead
  <2> QED BY <2>2, <1>7
<1>9. ASSUME NEW m \in n .. N PROVE HeardOrAhead(m, Len(chain) + 1)'
  <2>0. PICK i \in Nat : i = Len(chain') + 1 /\ i > L + 1
    <3>1. Len(steps) = 1 \/ Len(steps) = 2
      BY <1>4
    <3>2. Len(chain') = L + Len(steps) /\ L \in Nat
      BY <1>1, <1>6
    <3> HIDE DEF b, n, L
    <3>3. Len(chain') + 1 \in Nat /\ Len(chain') + 1 > L + 1
      BY <3>1, <3>2, Beyond
    <3> QED BY <3>3
  <2>1. CASE m \in n + 1 .. N
    BY <2>0, <2>1, <1>8, <1>1
  <2>2. CASE m = n
    <3>1. PICK k \in Nat : k = L + 1
      BY <1>1
    <3>2. k \in 1 .. Len(chain') /\ k < i /\ chain'[k] = NextBeat
      BY <3>1, <2>0, <1>1, <1>4, <1>6
    <3>3. Own(chain[k])' /\ chain'[k].n = m
      BY <3>2, <2>2, <1>2, <1>5 DEF Own
    <3>4. HeardOrAhead(m, i)'
      BY <3>2, <3>3 DEF HeardOrAhead
    <3> QED BY <3>4, <2>0
  <2> QED BY <2>1, <2>2, <1>1
<1>10. ASSUME NEW i \in 1 .. Len(chain'), Own(chain[i])'
      PROVE  LET e == chain'[i] IN
             IF e.n = 0 THEN e.type = "heartbeat" /\ HeardOrAhead(N, i)'
                        ELSE /\ IsBeat(N, e.type, e.n) /\ e.n > Len(server'.beats)
                             /\ \A m \in e.n + 1 .. N : HeardOrAhead(m, i)'
  <2>1. CASE i \in 1 .. L
    <3>1. chain'[i] = chain[i] /\ Own(chain[i]) /\ chain[i].n \in Nat
      BY <1>2, <1>6, <1>10, <2>1, ChainTyped DEF Own
    <3>2. LET e == chain[i] IN
             IF e.n = 0 THEN e.type = "heartbeat" /\ HeardOrAhead(N, i)
                        ELSE /\ IsBeat(N, e.type, e.n) /\ e.n > Len(server.beats)
                             /\ \A m \in e.n + 1 .. N : HeardOrAhead(m, i)
      BY <2>1, <3>1 DEF Playing
    <3>3. chain[i].n > n => chain[i].n > Len(server'.beats)
      BY <3>1, <1>1, <1>2
    <3> QED BY <3>1, <3>2, <3>3, <1>7
  <2>2. CASE i \notin 1 .. L
    <3>1. i \in L + 1 .. L + Len(steps) /\ i \in Nat /\ i > L
      BY <2>2, <1>1, <1>4, <1>6
    <3>2. chain'[i] = NextBeat
      BY <3>1, <1>6
    <3>3. \A m \in n + 1 .. N : HeardOrAhead(m, i)'
      BY <3>1, <1>8
    <3>4. n # 0 /\ n > Len(server'.beats)
      BY <1>1, <1>2
    <3> QED BY <3>2, <3>3, <3>4, <1>3, <1>5
  <2> QED BY <2>1, <2>2
<1>11. \A i \in 1 .. n - 1 : IsBeat(N, server'.beats[i], (n - 1) - i + 1)
  <2> TAKE i \in 1 .. n - 1
  <2>1. i + 1 \in 1 .. n /\ n - (i + 1) + 1 = (n - 1) - i + 1
    BY <1>1
  <2>2. IsBeat(N, server.beats[i + 1], n - (i + 1) + 1)
    BY <2>1 DEF Playing
  <2> QED BY <2>1, <2>2, <1>1, <1>2
<1>12. record'.seen \subseteq (n - 1) + 1 .. N
  <2>1. record.seen \subseteq n + 1 .. N
    BY DEF Playing
  <2> QED BY <2>1, <1>0, <1>1
<1>13. n - 1 < N
  BY <1>1, <1>3
<1>14. n - 1 < N /\ ~server'.beating => n - 1 < N - 1
  <2> SUFFICES ASSUME ~server'.beating, n = N PROVE FALSE
    BY <1>1, <1>3
  <2>1. b = "server_ready"
    BY <1>3 DEF IsBeat
  <2>2. Tail(server.beats) = <<>>
    BY <2>1, <1>0, DealtIs
  <2>3. n - 1 = 0
    <3>1. Tail(server.beats) \in Seq(Types)
      BY <1>1, ChainTyped, TailFacts
    <3> QED BY <3>1, <2>2, <1>1, SeqFacts
  <2> QED BY <2>3, <1>1
<1>15. ASSUME NEW m \in (n - 1) + 1 .. N PROVE HeardOrAhead(m, Len(chain) + 1)'
  BY <1>1, <1>9
<1> HIDE DEF b, n, L
<1> QED BY <1>2, <1>3, <1>10, <1>11, <1>12, <1>13, <1>14, <1>15 DEF Playing

\* A server that was just obtained has said nothing yet.
LEMMA BootedPlays ==
    ASSUME TypeInv, \A i \in 1 .. Len(chain) : chain[i].kind = "event" => chain[i].of \in 1 .. record.servers,
           chain # <<>>, chain' = Tail(chain), NEW p \in DOMAIN Story, NEW dies \in BOOLEAN,
           server' = Booted(Story[p], dies), record'.seen = {}
    PROVE  /\ \E N \in {3, 5} : Playing(N)' /\ N \notin record'.seen
           /\ server'.id = record.servers + 1
<1> DEFINE N == Len(Story[p])
<1>1. N \in {3, 5}
  BY StoryTyped
<1>2. server'.beats = Story[p] /\ ~server'.beating /\ ~server'.ready /\ server'.id = record.servers + 1
  BY DEF Booted, None
<1>3. ASSUME NEW i \in 1 .. Len(chain') PROVE ~Own(chain[i])'
  <2>1. i + 1 \in 1 .. Len(chain) /\ chain'[i] = chain[i + 1]
    BY ChainTyped, TailFacts DEF TypeInv
  <2>2. chain[i + 1].kind = "event" => chain[i + 1].of \in 1 .. record.servers
    BY <2>1
  <2> QED BY <2>1, <2>2, <1>2, ChainTyped DEF Own
<1>4. \A i \in 1 .. N : IsBeat(N, Story[p][i], N - i + 1)
  BY StoryBeats
<1> HIDE DEF N
<1>5. Playing(N)'
  <2>1. Len(server'.beats) = N
    BY <1>2 DEF N
  <2>2. ASSUME NEW m \in N + 1 .. N PROVE FALSE
    BY <1>1
  <2> QED BY <1>1, <1>2, <1>3, <1>4, <2>1, <2>2 DEF Playing
<1> QED BY <1>1, <1>2, <1>5
-----------------------------------------------------------------------------
(* The steps of the chain.                                                  *)

\* A match that is live is served, and its server has said so.
LEMMA LiveServed ==
    ASSUME TypeInv, FakeInv, AtLast.state = "live"
    PROVE  /\ server # None /\ server.id = record.servers /\ record.row /\ ~record.restoring /\ ~Obtaining
           /\ \E N \in {3, 5} : Playing(N) /\ Reached(N) /\ N \in record.seen /\ N - 1 \in record.seen
<1>1. ~Serverless
  BY DEF Serverless, Terminal
<1>2. /\ server.id = record.servers /\ server.id # 0 /\ record.row
      /\ \E N \in {3, 5} : Playing(N) /\ Reached(N)
  BY <1>1 DEF FakeInv, ServerInv
<1>3. PICK N \in {3, 5} : Playing(N) /\ Reached(N)
  BY <1>2
<1>4. N \in record.seen /\ N - 1 \in record.seen
  BY <1>3 DEF Reached
<1>5. ~record.restoring
  BY <1>3, <1>4 DEF Reached
<1>6. ~Obtaining
  BY DEF FakeInv, ChainInv
<1> QED BY <1>2, <1>3, <1>4, <1>5, <1>6, NoneTyped

\* A match that is over has no server, and one with a server is open.
LEMMA ServedAlive ==
    ASSUME TypeInv, FakeInv, server # None
    PROVE  /\ AtLast.state \in {"configuring", "ready", "live", "recovering"} /\ record.row /\ ~Obtaining
           /\ server.id = record.servers /\ server.id # 0
           /\ \E N \in {3, 5} : Playing(N) /\ Reached(N)
           /\ AtLast.state \in Before \/ AtLast.state = "live" => ~record.restoring
<1>1. /\ server.id = record.servers /\ server.id # 0 /\ record.row
      /\ \E N \in {3, 5} : Playing(N) /\ Reached(N)
  BY DEF FakeInv, ServerInv
<1>2. PICK N \in {3, 5} : Playing(N) /\ Reached(N)
  BY <1>1
<1>3. AtLast.state \in {"configuring", "ready", "live", "recovering"}
  BY <1>2 DEF Reached
<1>4. AtLast.state \in Before \/ AtLast.state = "live" => ~record.restoring
  BY <1>2 DEF Reached, Before
<1>5. ~Obtaining
  BY <1>3 DEF FakeInv, ChainInv
<1> QED BY <1>1, <1>3, <1>4, <1>5

\* A step that is not the allocation finds none on the chain.
LEMMA ChainAfter ==
    ASSUME TypeInv, FakeInv, chain # <<>>, chain' = Tail(chain), Head(chain).kind # "allocation",
           record.servers <= record'.servers, record'.servers \in Nat,
           AtLast.state \notin Before => AtLast'.state \notin Before,
           "allocation" \in timers' => AtLast'.state = "allocating" /\ server' = None,
           busy' => out' = <<>> /\ AtLast'.state = "live"
    PROVE  /\ ChainInv' /\ (Obtaining' <=> "allocation" \in timers')
           /\ (Obtaining <=> "allocation" \in timers)
<1>1. /\ Len(chain) \in Nat /\ Len(chain) > 0 /\ Len(chain') = Len(chain) - 1 /\ Head(chain) = chain[1]
      /\ \A i \in 1 .. Len(chain) - 1 : chain'[i] = chain[i + 1]
  BY ChainTyped, TailFacts DEF TypeInv
<1>2. \A i \in 1 .. Len(chain) : chain[i].kind # "allocation"
  <2> TAKE i \in 1 .. Len(chain)
  <2>1. chain[i].kind = "allocation" => Len(chain) = 1
    BY DEF FakeInv, ChainInv
  <2>2. Len(chain) = 1 => i = 1
    OBVIOUS
  <2> QED BY <2>1, <2>2, <1>1
<1>3. ASSUME NEW i \in 1 .. Len(chain')
      PROVE  /\ chain'[i].kind # "allocation"
             /\ chain'[i].kind = "event" => chain'[i].of \in 1 .. record'.servers
             /\ chain'[i].kind = "heartbeat" => AtLast'.state \notin Before
  <2>1. i + 1 \in 1 .. Len(chain) /\ chain'[i] = chain[i + 1]
    BY <1>1
  <2>2. chain[i + 1].kind = "event" => chain[i + 1].of \in 1 .. record'.servers
    BY <2>1, ChainTyped DEF FakeInv, ChainInv
  <2>3. chain[i + 1].kind = "heartbeat" => AtLast'.state \notin Before
    BY <2>1 DEF FakeInv, ChainInv
  <2> QED BY <2>1, <2>2, <2>3, <1>2
<1>4. Obtaining' <=> "allocation" \in timers'
  BY <1>3 DEF Obtaining
<1>5. Obtaining <=> "allocation" \in timers
  BY <1>2 DEF Obtaining
<1>6. ChainInv'
  BY <1>3, <1>4 DEF ChainInv
<1> QED BY <1>4, <1>5, <1>6

\* The match ends.
LEMMA EndsInv ==
    ASSUME TypeInv, FakeInv, out = <<>>, ~busy, chain # <<>>, chain' = Tail(chain),
           Head(chain).kind # "allocation",
           UNCHANGED <<state, fact, told>>, busy' = busy, Alive, NEW s \in Terminal, s = "cancelled" => state \in Before,
           NEW shown, shown = <<>> \/ (state = "live" /\ s = "failed"
                                       /\ shown = Say("match.recovering") \o Move("recovering")),
           Ends(shown, s)
    PROVE  FakeInv'
<1>1. /\ timers' = {} /\ server' = None /\ record' = [record EXCEPT !.row = FALSE] /\ open' = Closed(open)
      /\ out' = shown \o Both(s, IF s = "failed" THEN "match.failed" ELSE "match.ended")
  BY DEF Ends
<1>2. ~record'.row /\ record'.servers = record.servers /\ record.servers \in Nat
  BY <1>1 DEF TypeInv, Records
<1>3. open' = 0
  BY <1>1 DEF FakeInv, Closed
<1>4. View' = View /\ AtLast = View /\ View.state = state
  BY ScriptNone DEF View
<1>5. Script' /\ AtLast'.state = s
  <2> DEFINE w == [state |-> s, fact |-> IF s = "failed" THEN "match.failed" ELSE "match.ended"]
             k == [state |-> "same", fact |-> "match.recovering"]
             l == [state |-> "recovering", fact |-> "same"]
  <2>1. CASE shown = <<>>
    <3>1. out' = <<w>>
      BY <1>1, <2>1 DEF Both
    <3>2. Allows(View, Shown(View, w)) /\ Shown(View, w).state = s
      BY ViewTyped, EndShows DEF Alive
    <3> HIDE DEF w
    <3> QED BY <3>1, <3>2, ScriptOne
  <2>2. CASE state = "live" /\ s = "failed" /\ shown = Say("match.recovering") \o Move("recovering")
    <3>1. out' = (<<k>> \o <<l>>) \o <<w>>
      BY <1>1, <2>2 DEF Both, Say, Move
    <3>2. PICK u \in Views, t \in Views :
               /\ u = Shown(View, k) /\ Allows(View, u) /\ t = Shown(u, l) /\ Allows(u, t)
               /\ t.state = "recovering"
      BY <2>2, ViewTyped, LossShows
    <3>3. Allows(t, Shown(t, w)) /\ Shown(t, w).state = s
      BY <2>2, <3>2, EndShows DEF Terminal
    <3> HIDE DEF w, k, l
    <3>4. Len(out') = 3 /\ out'[1] = k /\ out'[2] = l /\ out'[3] = w
      <4>1. LET p == (<<k>> \o <<l>>) \o <<w>> IN Len(p) = 3 /\ p[1] = k /\ p[2] = l /\ p[3] = w
        BY ThreeWrites
      <4> QED BY <3>1, <4>1, Zenon
    <3> QED BY <3>2, <3>3, <3>4, ScriptThree
  <2> QED BY <2>1, <2>2
<1>6. AtLast'.state \in Terminal /\ AtLast'.state \notin Before
  BY <1>5 DEF Terminal, Before
<1>7. ChainInv'
  BY <1>1, <1>2, <1>6, ChainAfter
<1>8. ServerInv'
  BY <1>1, <1>2, <1>6 DEF ServerInv, Serverless, Terminal
<1> QED BY <1>2, <1>3, <1>5, <1>7, <1>8 DEF FakeInv

\* A turn of the chain: the match is idle and the head goes.
Turn ==
    /\ TypeInv /\ FakeInv /\ out = <<>> /\ ~busy /\ chain # <<>> /\ chain' = Tail(chain)
    /\ UNCHANGED <<state, fact, told>>

LEMMA TurnFacts ==
    ASSUME Turn
    PROVE  /\ View' = View /\ AtLast = View /\ View \in Views
           /\ View.state = state /\ View.fact = fact /\ View.told = told
           /\ record \in Records /\ record.servers \in Nat /\ open = (IF record.row THEN 1 ELSE 0)
BY ScriptNone, ViewTyped DEF Turn, View, FakeInv, TypeInv, Records

\* A lost server is replaced, at once or when it is asked for.
LEMMA RestoresInv ==
    ASSUME Turn, Head(chain).kind # "allocation", busy' = busy, NEW shown, NEW ts, NEW n, n = 0,
           "heartbeat" \notin ts, "allocation" \notin ts, Restores(shown, ts, n),
           \/ state = "recovering" /\ shown = <<>>
           \/ state = "live" /\ shown = Say("match.recovering") \o Move("recovering")
    PROVE  FakeInv'
<1>0. TypeInv /\ FakeInv /\ out = <<>> /\ ~busy /\ chain # <<>> /\ chain' = Tail(chain)
      /\ UNCHANGED <<state, fact, told>>
  BY DEF Turn
<1>1. /\ record' = [record EXCEPT !.row = TRUE, !.restoring = TRUE, !.servers = @ + 1, !.seen = {}]
      /\ open' = n + 1 /\ server' = Booted(Story["full"], FALSE)
      /\ timers' = (ts \ {"recovery"}) \cup {"ready"}
      /\ out' = shown \o Say("match.allocated")
  BY StoryTyped DEF Restores, Resumed
<1>2. /\ record'.row /\ record'.restoring /\ record'.servers = record.servers + 1 /\ record'.seen = {}
      /\ record.servers \in Nat
  BY <1>1, TurnFacts DEF Records
<1>3. "heartbeat" \notin timers' /\ "allocation" \notin timers'
  BY <1>1
<1>4. Script' /\ AtLast'.state = "recovering"
  <2> DEFINE w == [state |-> "same", fact |-> "match.allocated"]
             k == [state |-> "same", fact |-> "match.recovering"]
             l == [state |-> "recovering", fact |-> "same"]
  <2>1. ASSUME NEW v \in Views, v.state = "recovering"
        PROVE  Allows(v, Shown(v, w)) /\ Shown(v, w).state = "recovering"
    <3>1. Shown(v, w) = [v EXCEPT !.fact = "match.allocated"] /\ Shown(v, w).state = "recovering"
      BY <2>1, ShownSay
    <3> QED BY <2>1, <3>1 DEF Allows
  <2>2. CASE state = "recovering" /\ shown = <<>>
    <3>1. out' = <<w>>
      BY <1>1, <2>2 DEF Say
    <3>2. Allows(View, Shown(View, w)) /\ Shown(View, w).state = "recovering"
      BY <2>1, <2>2, TurnFacts
    <3> HIDE DEF w
    <3> QED BY <1>0, <3>1, <3>2, ScriptOne
  <2>3. CASE state = "live" /\ shown = Say("match.recovering") \o Move("recovering")
    <3>1. out' = (<<k>> \o <<l>>) \o <<w>>
      BY <1>1, <2>3 DEF Say, Move
    <3>2. PICK u \in Views, t \in Views :
               /\ u = Shown(View, k) /\ Allows(View, u) /\ t = Shown(u, l) /\ Allows(u, t)
               /\ t.state = "recovering"
      BY <2>3, TurnFacts, LossShows
    <3>3. Allows(t, Shown(t, w)) /\ Shown(t, w).state = "recovering"
      BY <3>2, <2>1
    <3> HIDE DEF w, k, l
    <3>4. Len(out') = 3 /\ out'[1] = k /\ out'[2] = l /\ out'[3] = w
      <4>1. LET p == (<<k>> \o <<l>>) \o <<w>> IN Len(p) = 3 /\ p[1] = k /\ p[2] = l /\ p[3] = w
        BY ThreeWrites
      <4> QED BY <3>1, <4>1, Zenon
    <3> QED BY <1>0, <3>2, <3>3, <3>4, ScriptThree
  <2> QED BY <2>2, <2>3
<1>5. AtLast'.state \notin Before
  BY <1>4 DEF Before
<1>6. ChainInv'
  <2>1. record.servers <= record'.servers /\ record'.servers \in Nat
    BY <1>2
  <2> QED BY <1>0, <1>3, <1>5, <2>1, ChainAfter
<1>7. ServerInv'
  <2>1. /\ \E N \in {3, 5} : Playing(N)' /\ N \notin record'.seen
        /\ server'.id = record.servers + 1
    BY <1>0, <1>1, <1>2, StoryTyped, BootedPlays DEF FakeInv, ChainInv
  <2>2. PICK N \in {3, 5} : Playing(N)' /\ N \notin record'.seen
    BY <2>1
  <2>3. Reached(N)'
    BY <1>2, <1>3, <1>4 DEF Reached
  <2>4. server'.id = record'.servers /\ server'.id # 0
    BY <2>1, <1>2
  <2> QED BY <1>2, <2>2, <2>3, <2>4 DEF ServerInv
<1>8. open' = 1
  BY <1>1
<1> QED BY <1>2, <1>4, <1>6, <1>7, <1>8 DEF FakeInv

\* A live match loses its server.
LEMMA LostInv ==
    ASSUME Turn, Head(chain).kind # "allocation", busy' = busy, state = "live", NEW now \in BOOLEAN, Lost(now)
    PROVE  FakeInv'
<1> DEFINE shown == Say("match.recovering") \o Move("recovering")
           k == [state |-> "same", fact |-> "match.recovering"]
           l == [state |-> "recovering", fact |-> "same"]
<1>0. TypeInv /\ FakeInv /\ out = <<>> /\ ~busy /\ chain # <<>> /\ chain' = Tail(chain)
      /\ UNCHANGED <<state, fact, told>>
  BY DEF Turn
<1>1. "allocation" \notin timers
  BY <1>0, TurnFacts DEF FakeInv, ChainInv, Obtaining
<1>2. open = 1 /\ Closed(open) = 0
  <2>1. record.row
    BY <1>0, TurnFacts, LiveServed
  <2> QED BY <2>1, TurnFacts DEF Closed
<1>3. \/ Ends(shown, "failed")
      \/ Restores(shown, Dropped(timers), Closed(open))
      \/ /\ timers' = Dropped(timers) \cup {"recovery"} /\ server' = None /\ out' = shown
         /\ record' = [record EXCEPT !.row = FALSE, !.recoverable = TRUE] /\ open' = Closed(open)
  BY DEF Lost
<1>4. CASE Ends(shown, "failed")
  <2>1. Alive
    BY DEF Alive, Terminal
  <2> QED BY <1>0, <1>4, <2>1, EndsInv DEF Terminal
<1>5. CASE Restores(shown, Dropped(timers), Closed(open))
  <2>1. "heartbeat" \notin Dropped(timers) /\ "allocation" \notin Dropped(timers)
    BY <1>1 DEF Dropped
  <2> QED BY <1>2, <1>5, <2>1, RestoresInv
<1>6. CASE /\ timers' = Dropped(timers) \cup {"recovery"} /\ server' = None /\ out' = shown
           /\ record' = [record EXCEPT !.row = FALSE, !.recoverable = TRUE] /\ open' = Closed(open)
  <2>1. ~record'.row /\ record'.servers = record.servers /\ record.servers \in Nat
    BY <1>6, TurnFacts DEF Records
  <2>2. "heartbeat" \notin timers' /\ "allocation" \notin timers'
    BY <1>1, <1>6 DEF Dropped
  <2>3. Script' /\ AtLast'.state = "recovering"
    <3>1. out' = <<k>> \o <<l>>
      BY <1>6 DEF Say, Move
    <3>2. PICK u \in Views, t \in Views :
               /\ u = Shown(View, k) /\ Allows(View, u) /\ t = Shown(u, l) /\ Allows(u, t)
               /\ t.state = "recovering"
      BY TurnFacts, LossShows
    <3> HIDE DEF k, l
    <3>3. Len(out') = 2 /\ out'[1] = k /\ out'[2] = l
      <4>1. LET p == <<k>> \o <<l>> IN Len(p) = 2 /\ p[1] = k /\ p[2] = l
        BY TwoWrites
      <4> QED BY <3>1, <4>1, Zenon
    <3> QED BY <1>0, <3>2, <3>3, ScriptTwo
  <2>4. AtLast'.state \notin Before /\ AtLast'.state \notin Terminal /\ AtLast'.state # "allocating"
    BY <2>3 DEF Before, Terminal
  <2>5. ChainInv'
    BY <1>0, <2>1, <2>2, <2>4, ChainAfter
  <2>6. ServerInv'
    BY <1>6, <2>1, <2>2, <2>3, <2>4 DEF ServerInv, Serverless
  <2>7. open' = 0
    BY <1>2, <1>6
  <2> QED BY <2>1, <2>3, <2>5, <2>6, <2>7 DEF FakeInv
<1> QED BY <1>3, <1>4, <1>5, <1>6

\* A turn that changes no server: what was heard of it moves on.
LEMMA HeardInv ==
    ASSUME Turn, Head(chain).kind # "allocation", NEW N \in {3, 5}, Playing(N), Reached(N)', Script',
           server # None, server'.id = server.id, server'.beats = server.beats, server'.ready => server.ready,
           server'.beating => Len(server.beats) < N,
           Len(server.beats) < N /\ ~server'.beating => Len(server.beats) < N - 1,
           record'.servers = record.servers, record'.row = record.row, open' = open,
           record.seen \subseteq record'.seen, record'.seen \subseteq Len(server.beats) + 1 .. N,
           Own(Head(chain)) /\ Head(chain).n # 0 => Head(chain).n \in record'.seen,
           timers' \subseteq timers \cup {"heartbeat"},
           AtLast.state \notin Before => AtLast'.state \notin Before,
           busy' => out' = <<>> /\ AtLast'.state = "live"
    PROVE  FakeInv'
<1>0. TypeInv /\ FakeInv /\ out = <<>> /\ ~busy /\ chain # <<>> /\ chain' = Tail(chain)
  BY DEF Turn
<1>1. ~Obtaining /\ server.id = record.servers /\ server.id # 0 /\ record.row
  BY <1>0, ServedAlive
<1>2. "allocation" \notin timers'
  BY <1>1 DEF Obtaining
<1>3. ChainInv'
  <2>1. record.servers <= record'.servers /\ record'.servers \in Nat
    BY TurnFacts
  <2> QED BY <1>0, <1>2, <2>1, ChainAfter
<1>4. Playing(N)'
  BY <1>0, Popped
<1>5. ServerInv'
  BY <1>1, <1>4 DEF ServerInv
<1>6. open' = (IF record'.row THEN 1 ELSE 0)
  BY TurnFacts
<1> QED BY <1>3, <1>5, <1>6 DEF FakeInv

\* A turn that finds nothing to do.
LEMMA ReturnsInv ==
    ASSUME Turn, Head(chain).kind # "allocation", Returns, busy' = busy,
           server # None /\ Own(Head(chain)) /\ Head(chain).n # 0 => Head(chain).n \in record.seen
    PROVE  FakeInv'
<1>0. /\ TypeInv /\ FakeInv /\ out = <<>> /\ ~busy /\ chain # <<>> /\ chain' = Tail(chain)
      /\ UNCHANGED <<state, fact, told>> /\ UNCHANGED <<out, record, open, server, timers>>
  BY DEF Turn, Returns
<1>1. Script' /\ AtLast' = AtLast /\ AtLast' = View
  <2>1. out' = <<>> /\ View' = View
    BY <1>0 DEF View
  <2> QED BY <2>1, TurnFacts DEF Script, AtLast
<1>2. CASE server # None
  <2>1. PICK N \in {3, 5} : Playing(N) /\ Reached(N)
    BY <1>0, <1>2, ServedAlive
  <2>2. Reached(N)'
    BY <1>0, <1>1, <2>1 DEF Reached
  <2>3. /\ server.beating => Len(server.beats) < N
        /\ Len(server.beats) < N /\ ~server.beating => Len(server.beats) < N - 1
        /\ record.seen \subseteq Len(server.beats) + 1 .. N
    BY <2>1 DEF Playing
  <2> QED BY <1>0, <1>1, <1>2, <2>1, <2>2, <2>3, HeardInv
<1>3. CASE server = None
  <2>1. Serverless
    BY <1>0, <1>3, NoneTyped DEF FakeInv, ServerInv
  <2>2. ChainInv' /\ (Obtaining' <=> Obtaining)
    <3>1. "allocation" \in timers' => AtLast'.state = "allocating" /\ server' = None
      BY <1>0, <1>1 DEF FakeInv, ChainInv, Obtaining
    <3>2. record.servers <= record'.servers /\ record'.servers \in Nat
      BY <1>0, TurnFacts
    <3> QED BY <1>0, <1>1, <3>1, <3>2, ChainAfter
  <2>3. Serverless'
    BY <1>0, <1>1, <2>1, <2>2 DEF Serverless
  <2>4. ServerInv'
    BY <1>0, <1>3, <2>3 DEF ServerInv
  <2> QED BY <1>0, <1>1, <2>2, <2>4 DEF FakeInv
<1> QED BY <1>2, <1>3

\* What is known of the match when an event of its server is taken.
Heard(N) ==
    LET e == Head(chain) IN
    /\ Playing(N) /\ Reached(N) /\ server # None /\ Own(e)
    /\ IF e.n = 0 THEN e.type = "heartbeat" /\ N \in record.seen
                  ELSE /\ IsBeat(N, e.type, e.n) /\ e.n > Len(server.beats) /\ e.n \notin record.seen
                       /\ \A m \in e.n + 1 .. N : m \in record.seen

LEMMA HeadHeard ==
    ASSUME Turn, Head(chain).kind = "event", Taken(Head(chain))
    PROVE  \E N \in {3, 5} : Heard(N)
<1>0. TypeInv /\ FakeInv /\ out = <<>> /\ chain # <<>>
  BY DEF Turn
<1>1. Len(chain) \in Nat /\ Len(chain) > 0 /\ Head(chain) = chain[1] /\ 1 \in 1 .. Len(chain)
  BY <1>0, ChainTyped, TailFacts DEF TypeInv
<1>2. chain[1].of \in 1 .. record.servers /\ server.id = chain[1].of /\ chain[1].n \notin record.seen
  BY <1>1 DEF Taken, Turn, FakeInv, ChainInv
<1>3. server # None
  BY <1>2, NoneTyped
<1>4. PICK N \in {3, 5} : Playing(N) /\ Reached(N)
  BY <1>0, <1>3, ServedAlive
<1>5. ASSUME NEW m, HeardOrAhead(m, 1) PROVE m \in record.seen
  BY <1>5, <1>1 DEF HeardOrAhead
<1>6. Own(chain[1])
  BY <1>1, <1>2 DEF Own
<1>7. IF chain[1].n = 0 THEN chain[1].type = "heartbeat" /\ HeardOrAhead(N, 1)
                        ELSE /\ IsBeat(N, chain[1].type, chain[1].n) /\ chain[1].n > Len(server.beats)
                             /\ \A m \in chain[1].n + 1 .. N : HeardOrAhead(m, 1)
  BY <1>1, <1>4, <1>6 DEF Playing
<1>8. Heard(N)
  BY <1>1, <1>2, <1>3, <1>4, <1>5, <1>6, <1>7 DEF Heard
<1> QED BY <1>8

\* A turn that hears an event: what is left to be said of it.
LEMMA HearsInv ==
    ASSUME Turn, NEW types, Hears(types), NEW N \in {3, 5}, Heard(N), server' = server, open' = open,
           record'.servers = record.servers, record'.row = record.row, record'.seen = Marked.seen,
           timers' \subseteq timers \cup {"heartbeat"}, Reached(N)', Script',
           AtLast.state \notin Before => AtLast'.state \notin Before,
           busy' => out' = <<>> /\ AtLast'.state = "live"
    PROVE  FakeInv'
<1>0. TypeInv /\ chain # <<>> /\ Head(chain).kind = "event"
  BY DEF Turn, Hears, Begins
<1>1. Head(chain).n \in Nat /\ Len(server.beats) \in Nat /\ N \in Nat
  BY <1>0, ChainTyped, TailFacts DEF TypeInv
<1>2. record'.seen = record.seen \cup ({Head(chain).n} \ {0})
  BY <1>0, MarkedTyped
<1>3. /\ Playing(N) /\ server # None
      /\ Head(chain).n # 0 => IsBeat(N, Head(chain).type, Head(chain).n) /\ Head(chain).n > Len(server.beats)
  BY DEF Heard
<1>4. /\ server.beating => Len(server.beats) < N
      /\ Len(server.beats) < N /\ ~server.beating => Len(server.beats) < N - 1
      /\ record.seen \subseteq Len(server.beats) + 1 .. N
  BY <1>3 DEF Playing
<1>5. record'.seen \subseteq Len(server.beats) + 1 .. N
  <2>1. Head(chain).n # 0 => Head(chain).n \in Len(server.beats) + 1 .. N
    BY <1>1, <1>3 DEF IsBeat
  <2> QED BY <1>2, <1>4, <2>1
<1>6. record.seen \subseteq record'.seen /\ (Head(chain).n # 0 => Head(chain).n \in record'.seen)
  BY <1>2
<1> QED BY <1>0, <1>3, <1>4, <1>5, <1>6, HeardInv

\* How far the match is when a beat is heard.
LEMMA BeatHeard ==
    ASSUME Turn, NEW types, Hears(types), NEW N \in {3, 5}, Heard(N)
    PROVE  LET e == Head(chain) IN
           /\ e.type = "server_ready" =>
                  /\ e.n = N /\ e.n # 0 /\ N \notin record.seen /\ N - 1 \notin record.seen
                  /\ IF record.restoring THEN state = "recovering" ELSE state = "configuring"
           /\ e.type = "going_live" =>
                  /\ e.n = N - 1 /\ e.n # 0 /\ N \in record.seen /\ N - 1 \notin record.seen
                  /\ fact = "match.server_ready" /\ told
                  /\ IF record.restoring THEN state = "recovering" ELSE state = "ready"
           /\ e.type \in {"backup_written", "demo_available", "series_end"} =>
                  N \in record.seen /\ N - 1 \in record.seen /\ state = "live"
           /\ e.type = "heartbeat" => e.n = 0 /\ N \in record.seen
<1> DEFINE e == Head(chain)
<1>0. AtLast.state = state /\ AtLast.fact = fact /\ AtLast.told = told
  BY TurnFacts
<1>1. e.n \in Nat
  BY ChainTyped, TailFacts DEF Turn, TypeInv
<1>2. /\ Reached(N)
      /\ IF e.n = 0 THEN e.type = "heartbeat" /\ N \in record.seen
                    ELSE /\ IsBeat(N, e.type, e.n) /\ e.n \notin record.seen
                         /\ \A m \in e.n + 1 .. N : m \in record.seen
  BY DEF Heard
<1>3. e.type # "heartbeat" => e.n # 0
  BY <1>2
<1>4. e.type = "heartbeat" => e.n = 0
  BY <1>2 DEF IsBeat, Types
<1>5. e.n # 0 => (e.type = "server_ready" <=> e.n = N) /\ (e.type = "going_live" <=> e.n = N - 1) /\ e.n <= N
  BY <1>1, <1>2 DEF IsBeat
<1> HIDE DEF e
<1>6. CASE e.type = "server_ready"
  <2>1. N - 1 \notin record.seen
    BY <1>2, <1>3, <1>5, <1>6 DEF Reached
  <2> QED BY <1>0, <1>2, <1>3, <1>5, <1>6, <2>1 DEF Reached, e
<1>7. CASE e.type = "going_live"
  <2>1. N \in N - 1 + 1 .. N
    OBVIOUS
  <2> QED BY <1>0, <1>2, <1>3, <1>5, <1>7, <2>1 DEF Reached, e
<1>8. CASE e.type \in {"backup_written", "demo_available", "series_end"}
  <2>1. e.n # 0 /\ e.n < N - 1
    BY <1>1, <1>3, <1>5, <1>8
  <2>2. N \in e.n + 1 .. N /\ N - 1 \in e.n + 1 .. N
    BY <1>1, <2>1
  <2> QED BY <1>0, <1>2, <1>8, <2>1, <2>2 DEF Reached, e
<1>9. CASE e.type = "heartbeat"
  BY <1>2, <1>4, <1>9 DEF e
<1> QED BY <1>6, <1>7, <1>8, <1>9 DEF e

LEMMA HearsTurn ==
    ASSUME TypeInv, FakeInv, NEW types, Hears(types)
    PROVE  /\ Turn /\ Head(chain).type \in types /\ Head(chain).kind = "event"
           /\ \E N \in {3, 5} : Heard(N)
           /\ Marked \in Records /\ Marked.seen = record.seen \cup ({Head(chain).n} \ {0})
           /\ Marked.servers = record.servers /\ Marked.row = record.row
           /\ Marked.restoring = record.restoring
<1>1. Turn /\ Head(chain).type \in types /\ Head(chain).kind = "event" /\ Taken(Head(chain))
  BY DEF Hears, Begins, Turn, seen
<1>2. chain # <<>>
  BY DEF Hears, Begins
<1> QED BY <1>1, <1>2, HeadHeard, MarkedTyped

LEMMA ServerReadyInv == ASSUME TypeInv, FakeInv, ServerReady PROVE FakeInv'
<1>0. Hears({"server_ready"})
  BY DEF ServerReady
<1>1. PICK N \in {3, 5} : Heard(N)
  BY <1>0, HearsTurn
<1>2. /\ Turn /\ Head(chain).type = "server_ready" /\ Marked \in Records
      /\ Marked.seen = record.seen \cup ({Head(chain).n} \ {0})
      /\ Marked.servers = record.servers /\ Marked.row = record.row /\ Marked.restoring = record.restoring
  BY <1>0, HearsTurn
<1>3. /\ Head(chain).n = N /\ N \notin record.seen /\ N - 1 \notin record.seen
      /\ IF record.restoring THEN state = "recovering" ELSE state = "configuring"
  BY <1>0, <1>1, <1>2, BeatHeard
<1>4. /\ record'.seen = Marked.seen /\ record'.servers = record.servers /\ record'.row = record.row
      /\ record'.restoring = record.restoring /\ server' = server /\ open' = open /\ busy' = busy
      /\ timers' \subseteq timers \cup {"heartbeat"}
  BY <1>2 DEF ServerReady, Records, Armed
<1>5. N \in record'.seen /\ N - 1 \notin record'.seen
  BY <1>2, <1>3, <1>4
<1>6. /\ Script' /\ AtLast'.fact = "match.server_ready" /\ AtLast'.told
      /\ IF record.restoring THEN AtLast'.state = "recovering" ELSE AtLast'.state = "ready"
  <2> DEFINE k == [state |-> "ready", fact |-> "same"]
             l == [state |-> "same", fact |-> "match.server_ready"]
  <2>0. UNCHANGED <<state, fact, told>>
    BY <1>2 DEF Turn
  <2>1. ASSUME NEW v \in Views, v.state \in {"ready", "recovering"}
        PROVE  /\ Allows(v, Shown(v, l)) /\ Shown(v, l).state = v.state
               /\ Shown(v, l).fact = "match.server_ready" /\ Shown(v, l).told
    <3>1. Shown(v, l) = [state |-> v.state, fact |-> "match.server_ready", told |-> TRUE]
      BY ShownReady
    <3> QED BY <2>1, <3>1 DEF Allows
  <2>2. CASE record.restoring
    <3>1. out' = <<l>>
      BY <2>2 DEF ServerReady, Say
    <3>2. View \in Views /\ View.state = "recovering"
      BY <1>2, <1>3, <2>2, TurnFacts
    <3>3. /\ Allows(View, Shown(View, l)) /\ Shown(View, l).state = "recovering"
          /\ Shown(View, l).fact = "match.server_ready" /\ Shown(View, l).told
      BY <2>1, <3>2
    <3> HIDE DEF k, l
    <3> QED BY <2>0, <2>2, <3>1, <3>3, ScriptOne
  <2>3. CASE ~record.restoring
    <3>1. out' = <<k>> \o <<l>>
      BY <2>3 DEF ServerReady, Say, Move
    <3>2. View \in Views /\ View.state = "configuring" /\ "ready" \in States
      BY <1>2, <1>3, <2>3, TurnFacts DEF States, Before
    <3>3. Shown(View, k) \in Views /\ Shown(View, k).state = "ready" /\ Allows(View, Shown(View, k))
      BY <3>2, ReadyShows
    <3> DEFINE u == Shown(View, k)
               t == Shown(u, l)
    <3>4. Allows(u, t) /\ t.state = "ready" /\ t.fact = "match.server_ready" /\ t.told
      BY <2>1, <3>3
    <3> HIDE DEF k, l
    <3>5. Len(out') = 2 /\ out'[1] = k /\ out'[2] = l
      <4>1. LET p == <<k>> \o <<l>> IN Len(p) = 2 /\ p[1] = k /\ p[2] = l
        BY TwoWrites
      <4> QED BY <3>1, <4>1, Zenon
    <3> QED BY <2>0, <2>3, <3>3, <3>4, <3>5, ScriptTwo
  <2> QED BY <2>2, <2>3
<1>7. Reached(N)'
  BY <1>4, <1>5, <1>6 DEF Reached
<1>8. (AtLast.state \notin Before => AtLast'.state \notin Before) /\ ~busy'
  BY <1>2, <1>3, <1>4, <1>6, TurnFacts DEF Before, Turn
<1> QED BY <1>0, <1>1, <1>2, <1>4, <1>6, <1>7, <1>8, HearsInv

LEMMA GoingLiveInv == ASSUME TypeInv, FakeInv, GoingLive PROVE FakeInv'
<1>0. Hears({"going_live"})
  BY DEF GoingLive
<1>1. PICK N \in {3, 5} : Heard(N)
  BY <1>0, HearsTurn
<1>2. /\ Turn /\ Head(chain).type = "going_live" /\ Marked \in Records
      /\ Marked.seen = record.seen \cup ({Head(chain).n} \ {0})
      /\ Marked.servers = record.servers /\ Marked.row = record.row
  BY <1>0, HearsTurn
<1>3. /\ Head(chain).n = N - 1 /\ Head(chain).n # 0 /\ N \in record.seen
      /\ fact = "match.server_ready" /\ told
      /\ IF record.restoring THEN state = "recovering" ELSE state = "ready"
  BY <1>0, <1>1, <1>2, BeatHeard
<1>4. /\ record'.seen = Marked.seen /\ record'.servers = record.servers /\ record'.row = record.row
      /\ ~record'.restoring /\ server' = server /\ open' = open /\ busy' = busy
      /\ timers' \subseteq timers \cup {"heartbeat"}
  BY <1>2 DEF GoingLive, Records, Armed
<1>5. N \in record'.seen /\ N - 1 \in record'.seen
  BY <1>2, <1>3, <1>4
<1>6. Script' /\ AtLast'.state = "live"
  <2> DEFINE k == [state |-> "same", fact |-> "match.recovered"]
             l == [state |-> "live", fact |-> "same"]
  <2>0. UNCHANGED <<state, fact, told>>
    BY <1>2 DEF Turn
  <2>1. ASSUME NEW v \in Views, \/ v.state = "ready" /\ v.fact = "match.server_ready"
                                \/ v.state = "recovering" /\ v.fact = "match.recovered"
        PROVE  Allows(v, Shown(v, l)) /\ Shown(v, l).state = "live"
    BY <2>1, LiveShows
  <2>2. CASE ~record.restoring
    <3>1. out' = <<l>>
      BY <2>2 DEF GoingLive, Move
    <3>2. Allows(View, Shown(View, l)) /\ Shown(View, l).state = "live"
      BY <1>2, <1>3, <2>1, <2>2, TurnFacts
    <3> HIDE DEF k, l
    <3> QED BY <2>0, <3>1, <3>2, ScriptOne
  <2>3. CASE record.restoring
    <3>1. out' = <<k>> \o <<l>>
      BY <2>3 DEF GoingLive, Say, Move
    <3>2. View \in Views /\ View.state = "recovering" /\ View.told
      BY <1>2, <1>3, <2>3, TurnFacts
    <3>3. /\ Shown(View, k) \in Views /\ Shown(View, k).state = "recovering"
          /\ Shown(View, k).fact = "match.recovered" /\ Allows(View, Shown(View, k))
      BY <3>2, RecoveredShows
    <3> DEFINE u == Shown(View, k)
               t == Shown(u, l)
    <3>4. Allows(u, t) /\ t.state = "live"
      BY <2>1, <3>3
    <3> HIDE DEF k, l
    <3>5. Len(out') = 2 /\ out'[1] = k /\ out'[2] = l
      <4>1. LET p == <<k>> \o <<l>> IN Len(p) = 2 /\ p[1] = k /\ p[2] = l
        BY TwoWrites
      <4> QED BY <3>1, <4>1, Zenon
    <3> QED BY <2>0, <3>3, <3>4, <3>5, ScriptTwo
  <2> QED BY <2>2, <2>3
<1>7. Reached(N)'
  BY <1>4, <1>5, <1>6 DEF Reached
<1>8. AtLast'.state \notin Before /\ ~busy'
  BY <1>2, <1>4, <1>6 DEF Before, Turn
<1> QED BY <1>0, <1>1, <1>2, <1>4, <1>6, <1>7, <1>8, HearsInv

LEMMA ElseInv == ASSUME TypeInv, FakeInv, DemoAvailable \/ Else PROVE FakeInv'
<1>0. PICK types \in {{"demo_available"}, {"backup_written", "heartbeat"}} : Hears(types)
  BY DEF DemoAvailable, Else
<1>1. PICK N \in {3, 5} : Heard(N)
  BY <1>0, HearsTurn
<1>2. /\ Turn /\ Marked \in Records /\ Head(chain).type \in {"demo_available", "backup_written", "heartbeat"}
      /\ Marked.seen = record.seen \cup ({Head(chain).n} \ {0})
      /\ Marked.servers = record.servers /\ Marked.row = record.row /\ Marked.restoring = record.restoring
  BY <1>0, HearsTurn
<1>3. N \in record.seen /\ (Head(chain).n # 0 => N - 1 \in record.seen)
  BY <1>0, <1>1, <1>2, BeatHeard
<1>4. /\ record' = Marked /\ server' = server /\ open' = open /\ out' = out
      /\ timers' \subseteq timers \cup {"heartbeat"}
  BY DEF DemoAvailable, Else, Armed
<1>5. UNCHANGED <<state, fact, told>> /\ out = <<>> /\ Reached(N)
  BY <1>1, <1>2 DEF Turn, Heard
<1>6. Script' /\ AtLast' = AtLast
  <2>1. out' = <<>> /\ View' = View
    BY <1>4, <1>5 DEF View
  <2> QED BY <1>5, <2>1 DEF Script, AtLast
<1>7. N \in record'.seen /\ (N - 1 \in record'.seen <=> N - 1 \in record.seen)
  BY <1>2, <1>3, <1>4
<1>8. Reached(N)'
  BY <1>2, <1>3, <1>4, <1>5, <1>6, <1>7 DEF Reached
<1>9. busy' => out' = <<>> /\ AtLast'.state = "live"
  <2>1. CASE busy' = busy
    BY <1>2, <2>1 DEF Turn
  <2>2. CASE DemoAvailable
    <3>1. Head(chain).type = "demo_available"
      BY <2>2 DEF DemoAvailable, Hears
    <3>2. state = "live"
      BY <1>0, <1>1, <1>2, <3>1, BeatHeard
    <3> QED BY <1>2, <1>4, <1>5, <1>6, <3>2, TurnFacts
  <2> QED BY <2>1, <2>2 DEF Else
<1> QED BY <1>0, <1>1, <1>2, <1>4, <1>6, <1>8, <1>9, HearsInv

LEMMA SeriesEndInv == ASSUME TypeInv, FakeInv, SeriesEnd PROVE FakeInv'
<1>1. Turn /\ Head(chain).kind = "event" /\ Alive /\ busy' = busy /\ Ends(<<>>, "ended")
  BY HearsTurn DEF SeriesEnd, Hears, Taken
<1> QED BY <1>1, EndsInv DEF Turn, Terminal

LEMMA UnheardInv == ASSUME TypeInv, FakeInv, Unheard PROVE FakeInv'
<1>1. /\ Turn /\ Head(chain).kind = "event" /\ Returns /\ busy' = busy
      /\ ~Taken(Head(chain))
  BY DEF Unheard, Begins, Turn, Finish, seen
<1>2. ASSUME server # None, Own(Head(chain)), Head(chain).n # 0 PROVE Head(chain).n \in record.seen
  <2>1. AtLast.state \notin Terminal
    BY <1>1, <1>2, ServedAlive DEF Turn, Terminal
  <2>2. Alive
    BY <1>1, <2>1, TurnFacts DEF Alive
  <2> QED BY <1>1, <1>2, <2>2 DEF Taken, Own
<1> QED BY <1>1, <1>2, ReturnsInv

\* The deadlines and the orders that end a match, or find it over.
LEMMA EndingInv ==
    ASSUME TypeInv, FakeInv, Expire \/ NeverReady \/ NotRestored \/ Cancel \/ Release \/ ForceEnd
    PROVE  FakeInv'
<1>1. PICK K \in {{"ttl"}, {"ready"}, {"recovery"}, {"cancel"}, {"release"}, {"force_end"}} :
          Begins(K) /\ Finish
  BY DEF Expire, NeverReady, NotRestored, Cancel, Release, ForceEnd, Answers
<1>2. Turn /\ busy' = busy /\ Head(chain).kind \notin {"allocation", "event"}
  BY <1>1 DEF Begins, Turn, Finish, seen
<1>3. \/ Returns
      \/ \E s \in Terminal : Ends(<<>>, s) /\ Alive /\ (s = "cancelled" => state \in Before)
  BY DEF Expire, NeverReady, NotRestored, Cancel, Release, ForceEnd, Alive, Terminal, Before
<1>4. CASE Returns
  BY <1>2, <1>4, ReturnsInv DEF Own
<1>5. CASE ~Returns
  <2>1. PICK s \in Terminal : Ends(<<>>, s) /\ Alive /\ (s = "cancelled" => state \in Before)
    BY <1>3, <1>5
  <2> QED BY <1>2, <2>1, EndsInv DEF Turn
<1> QED BY <1>4, <1>5

LEMMA AgainInv == ASSUME TypeInv, FakeInv, Again PROVE FakeInv'
<1>1. Turn /\ busy' = busy /\ Returns /\ Head(chain).kind \in Commands
  BY DEF Again, Begins, Turn, Finish, seen, TypeInv
<1> QED BY <1>1, ReturnsInv DEF Own, Commands

\* Silence is noticed on a live match only.
LEMMA SilentInv == ASSUME TypeInv, FakeInv, Silent PROVE FakeInv'
<1>1. Turn /\ busy' = busy /\ Head(chain).kind = "heartbeat"
  BY DEF Silent, Begins, Turn, Finish, seen
<1>2. CASE Returns
  BY <1>1, <1>2, ReturnsInv DEF Own
<1>3. CASE ~Returns
  <2>1. ~record.restoring /\ server # None /\ Lost(FALSE)
    BY <1>3 DEF Silent
  <2>2. PICK N \in {3, 5} : Playing(N) /\ Reached(N)
    BY <2>1, ServedAlive
  <2>3. AtLast.state \notin Before
    <3>1. chain # <<>> /\ Head(chain) = chain[1] /\ 1 \in 1 .. Len(chain)
      BY <1>1, ChainTyped, TailFacts DEF Turn, TypeInv
    <3> QED BY <1>1, <3>1 DEF FakeInv, ChainInv
  <2>4. AtLast.state = "live"
    BY <2>1, <2>2, <2>3 DEF Reached, Before
  <2>5. state = "live"
    BY <1>1, <2>4, TurnFacts
  <2> QED BY <1>1, <2>1, <2>5, LostInv
<1> QED BY <1>2, <1>3

\* A server is obtained.
LEMMA AllocatedInv == ASSUME TypeInv, FakeInv, Allocated PROVE FakeInv'
<1>1. Turn /\ busy' = busy /\ Head(chain).kind = "allocation"
  BY DEF Allocated, Begins, Turn, Finish, seen
<1>2. /\ Len(chain) \in Nat /\ Len(chain') = Len(chain) - 1 /\ Head(chain) = chain[1] /\ 1 \in 1 .. Len(chain)
      /\ chain # <<>> /\ chain' = Tail(chain)
  BY <1>1, ChainTyped, TailFacts DEF Turn, TypeInv
<1>3. Len(chain) = 1 /\ ~busy /\ "allocation" \notin timers
  BY <1>1, <1>2 DEF FakeInv, ChainInv
<1>4. state = "allocating" /\ server = None
  <2>1. Obtaining
    BY <1>1, <1>2 DEF Obtaining
  <2> QED BY <1>1, <2>1, TurnFacts DEF FakeInv, ChainInv
<1>5. record.row /\ ~record.restoring /\ "heartbeat" \notin timers
  <2>1. Serverless
    BY <1>4, NoneTyped DEF FakeInv, ServerInv
  <2> QED BY <1>1, <1>4, <2>1, TurnFacts DEF Serverless
<1>6. /\ record' = [record EXCEPT !.servers = @ + 1, !.seen = {}]
      /\ server' = Booted(Story[record.plan], record.plan # "full")
      /\ timers' = timers \cup {"ready"}
      /\ out' = Say("match.allocated") \o Move("configuring") /\ open' = open
  BY <1>4 DEF Allocated, Alive, Terminal
<1>7. /\ record'.servers = record.servers + 1 /\ record'.seen = {} /\ record'.row /\ ~record'.restoring
      /\ record.servers \in Nat /\ record.plan \in DOMAIN Story
  BY <1>1, <1>5, <1>6, TurnFacts, FakeAssumption DEF Records
<1>8. Script' /\ AtLast'.state = "configuring"
  <2> DEFINE k == [state |-> "same", fact |-> "match.allocated"]
             l == [state |-> "configuring", fact |-> "same"]
  <2>1. out' = <<k>> \o <<l>>
    BY <1>6 DEF Say, Move
  <2>2. View \in Views /\ View.state = "allocating"
    BY <1>1, <1>4, TurnFacts
  <2>3. /\ Shown(View, k) \in Views /\ Shown(View, k).state = "allocating"
        /\ Shown(View, k).fact = "match.allocated" /\ Allows(View, Shown(View, k))
    <3>0. "match.allocated" \in {"match.allocated", "match.recovered"}
      OBVIOUS
    <3>1. /\ Shown(View, k) = [View EXCEPT !.fact = "match.allocated"] /\ Shown(View, k) \in Views
          /\ Shown(View, k).state = "allocating" /\ Shown(View, k).fact = "match.allocated"
      BY <2>2, <3>0, ShownSay, Zenon
    <3> QED BY <2>2, <3>1 DEF Allows
  <2>4. ASSUME NEW v \in Views, v.state = "allocating", v.fact = "match.allocated"
        PROVE  Allows(v, Shown(v, l)) /\ Shown(v, l).state = "configuring"
    <3>0. "configuring" \in States
      BY DEF States, Before
    <3>1. Shown(v, l) = [v EXCEPT !.state = "configuring"] /\ Shown(v, l).state = "configuring"
      BY <3>0, ShownMove, Zenon
    <3> QED BY <2>4, <3>1 DEF Allows
  <2> DEFINE u == Shown(View, k)
             t == Shown(u, l)
  <2>5. Allows(u, t) /\ t.state = "configuring"
    BY <2>3, <2>4
  <2> HIDE DEF k, l
  <2>6. Len(out') = 2 /\ out'[1] = k /\ out'[2] = l
    <3>1. LET p == <<k>> \o <<l>> IN Len(p) = 2 /\ p[1] = k /\ p[2] = l
      BY TwoWrites
    <3> QED BY <2>1, <3>1, Zenon
  <2> QED BY <1>1, <2>3, <2>5, <2>6, ScriptTwo DEF Turn
<1>9. ServerInv'
  <2>1. /\ \E N \in {3, 5} : Playing(N)' /\ N \notin record'.seen
        /\ server'.id = record.servers + 1
    <3>1. (record.plan # "full") \in BOOLEAN
      OBVIOUS
    <3> QED BY <1>2, <1>6, <1>7, <3>1, BootedPlays DEF FakeInv, ChainInv
  <2>2. PICK N \in {3, 5} : Playing(N)' /\ N \notin record'.seen
    BY <2>1
  <2>3. Reached(N)'
    BY <1>5, <1>6, <1>7, <1>8 DEF Reached
  <2>4. server'.id = record'.servers /\ server'.id # 0
    BY <2>1, <1>7
  <2> QED BY <1>7, <2>2, <2>3, <2>4 DEF ServerInv
<1>10. ChainInv'
  <2>1. Len(chain') = 0 /\ "allocation" \notin timers' /\ ~busy'
    BY <1>1, <1>2, <1>3, <1>6
  <2> QED BY <2>1 DEF ChainInv, Obtaining
<1>11. open' = (IF record'.row THEN 1 ELSE 0)
  BY <1>1, <1>5, <1>6, <1>7, TurnFacts
<1> QED BY <1>8, <1>9, <1>10, <1>11 DEF FakeInv

\* A match that waits to be restored has no row and no server.
LEMMA RestoreInv == ASSUME TypeInv, FakeInv, Restore PROVE FakeInv'
<1>1. Turn /\ busy' = busy /\ Head(chain).kind = "restore"
  BY DEF Restore, Answers, Begins, Turn, Finish, seen
<1>2. CASE Returns
  BY <1>1, <1>2, ReturnsInv DEF Own
<1>3. CASE ~Returns
  <2>1. state = "recovering" /\ ~record.restoring /\ Restores(<<>>, timers, open)
    BY <1>3 DEF Restore
  <2>2. AtLast.state = "recovering"
    BY <1>1, <2>1, TurnFacts
  <2>3. server = None
    <3> SUFFICES ASSUME server # None PROVE FALSE
      OBVIOUS
    <3>1. PICK N \in {3, 5} : Playing(N) /\ Reached(N)
      BY ServedAlive
    <3> QED BY <2>1, <2>2, <3>1 DEF Reached
  <2>4. ~record.row /\ "heartbeat" \notin timers
    BY <2>2, <2>3, NoneTyped DEF FakeInv, ServerInv, Serverless
  <2>5. "allocation" \notin timers
    BY <2>2 DEF FakeInv, ChainInv, Obtaining
  <2>6. open = 0
    BY <2>4 DEF FakeInv
  <2> QED BY <1>1, <2>1, <2>4, <2>5, <2>6, RestoresInv
<1> QED BY <1>2, <1>3

\* Before it is live a match may have to look for another server.
LEMMA ReallocatesInv ==
    ASSUME Turn, Head(chain).kind # "allocation", busy' = busy, state \in Before, Reallocates
    PROVE  FakeInv'
<1>0. TypeInv /\ FakeInv /\ out = <<>> /\ ~busy /\ chain # <<>> /\ chain' = Tail(chain)
      /\ UNCHANGED <<state, fact, told>>
  BY DEF Turn
<1>1. /\ timers' = Dropped(timers) \cup {"allocation"} /\ server' = None
      /\ record' = [record EXCEPT !.row = TRUE, !.readyAt = FALSE]
      /\ open' = Closed(open) + 1 /\ out' = Move("allocating")
  BY DEF Reallocates
<1>2. /\ record'.row /\ record'.restoring = record.restoring /\ record'.servers = record.servers
      /\ record.servers \in Nat
  BY <1>1, TurnFacts DEF Records
<1>3. ~record.restoring
  <2>1. AtLast.state \in Before
    BY TurnFacts
  <2>2. CASE server = None
    <3>1. Serverless
      BY <1>0, <2>2, NoneTyped DEF FakeInv, ServerInv
    <3> QED BY <2>1, <3>1 DEF Serverless, Before, Terminal
  <2>3. CASE server # None
    BY <1>0, <2>1, <2>3, ServedAlive
  <2> QED BY <2>2, <2>3
<1>4. Script' /\ AtLast'.state = "allocating"
  <2> DEFINE w == [state |-> "allocating", fact |-> "same"]
  <2>1. out' = <<w>>
    BY <1>1 DEF Move
  <2>2. ASSUME NEW v \in Views, v.state \in Before
        PROVE  Allows(v, Shown(v, w)) /\ Shown(v, w).state = "allocating"
    <3>0. "allocating" \in States
      BY DEF States, Before
    <3>1. Shown(v, w) = [v EXCEPT !.state = "allocating"] /\ Shown(v, w).state = "allocating"
      BY <3>0, ShownMove
    <3> QED BY <2>2, <3>1 DEF Allows
  <2>3. Allows(View, Shown(View, w)) /\ Shown(View, w).state = "allocating"
    BY <2>2, TurnFacts
  <2> HIDE DEF w
  <2> QED BY <1>0, <2>1, <2>3, ScriptOne
<1>5. "allocation" \in timers' /\ "heartbeat" \notin timers'
  BY <1>1 DEF Dropped
<1>6. ChainInv' /\ Obtaining'
  <2>1. AtLast.state \in Before
    BY TurnFacts
  <2>2. record.servers <= record'.servers /\ record'.servers \in Nat
    BY <1>2
  <2> QED BY <1>0, <1>1, <1>4, <1>5, <2>1, <2>2, ChainAfter
<1>7. ServerInv'
  <2>1. AtLast'.state \notin Terminal /\ AtLast'.state # "recovering"
    BY <1>4 DEF Terminal
  <2> QED BY <1>1, <1>2, <1>3, <1>4, <1>5, <1>6, <2>1 DEF ServerInv, Serverless
<1>8. open' = 1
  BY <1>1, TurnFacts DEF Closed
<1> QED BY <1>2, <1>4, <1>6, <1>7, <1>8 DEF FakeInv

LEMMA ReprovisionInv == ASSUME TypeInv, FakeInv, Reprovision PROVE FakeInv'
<1>1. Turn /\ busy' = busy /\ Head(chain).kind = "reprovision"
  BY DEF Reprovision, Answers, Begins, Turn, Finish, seen
<1>2. Returns \/ (state \in Before /\ Reallocates) \/ (state = "live" /\ Lost(TRUE))
  BY DEF Reprovision, Before
<1>3. CASE Returns
  BY <1>1, <1>3, ReturnsInv DEF Own
<1> QED BY <1>1, <1>2, <1>3, ReallocatesInv, LostInv

\* A pause holds the server and its deadline, and its end lets them go on.
LEMMA PauseInv == ASSUME TypeInv, FakeInv, Pause \/ Unpause PROVE FakeInv'
<1>1. Turn /\ busy' = busy /\ Head(chain).kind \in {"pause", "unpause"}
  BY DEF Pause, Unpause, Answers, Begins, Turn, Finish, seen
<1>2. CASE Returns
  BY <1>1, <1>2, ReturnsInv DEF Own
<1>3. CASE ~Returns
  <2>1. /\ state = "live" /\ out' = out /\ open' = open
        /\ timers' \subseteq timers \cup {"heartbeat"}
        /\ server' = server \/ server' = Stop(server) \/ server' = Start(server)
        /\ record' = [record EXCEPT !.paused = TRUE] \/ record' = [record EXCEPT !.paused = FALSE]
    BY <1>3 DEF Pause, Unpause, Armed
  <2>2. AtLast.state = "live" /\ UNCHANGED <<state, fact, told>> /\ out = <<>>
    BY <1>1, <2>1, TurnFacts DEF Turn
  <2>3. PICK N \in {3, 5} : Playing(N) /\ Reached(N) /\ N \in record.seen /\ N - 1 \in record.seen
    BY <2>2, LiveServed
  <2>4. server \in Servers /\ server # None /\ Len(server.beats) \in Nat
    BY <2>2, LiveServed, ChainTyped DEF TypeInv
  <2>5. server'.id = server.id /\ server'.beats = server.beats /\ server'.ready = server.ready
        /\ (server'.beating => server.beating \/ server.ready)
    <3>1. CASE server' = server
      BY <3>1
    <3>2. CASE server' = Stop(server)
      BY <2>4, <3>2 DEF Stop, Servers
    <3>3. CASE server' = Start(server)
      BY <2>4, <3>3 DEF Start, Servers
    <3> QED BY <2>1, <3>1, <3>2, <3>3
  <2>6. /\ record'.servers = record.servers /\ record'.row = record.row /\ record'.seen = record.seen
        /\ record'.restoring = record.restoring
    BY <1>1, <2>1, TurnFacts DEF Records
  <2>7. /\ Len(server.beats) < N - 1 /\ record.seen \subseteq Len(server.beats) + 1 .. N
        /\ server'.beating => Len(server.beats) < N
    <3>1. record.seen \subseteq Len(server.beats) + 1 .. N
      BY <2>3 DEF Playing
    <3> QED BY <2>3, <2>4, <3>1
  <2>8. Script' /\ AtLast' = AtLast
    <3>1. out' = <<>> /\ View' = View
      BY <2>1, <2>2 DEF View
    <3> QED BY <2>2, <3>1 DEF Script, AtLast
  <2>9. Reached(N)'
    BY <2>1, <2>3, <2>6, <2>8 DEF Reached
  <2>10. Head(chain).kind # "allocation" /\ ~Own(Head(chain)) /\ ~busy'
    BY <1>1 DEF Own, Turn
  <2> QED BY <1>1, <2>1, <2>3, <2>4, <2>5, <2>6, <2>7, <2>8, <2>9, <2>10, HeardInv
<1> QED BY <1>2, <1>3

-----------------------------------------------------------------------------
(* What comes from outside.                                                 *)

\* Nothing the invariant speaks of changes, but what is left to show.
LEMMA Steady ==
    ASSUME TypeInv, FakeInv, UNCHANGED <<record, open, server, timers, chain>>, Script', AtLast' = AtLast,
           busy' => busy /\ out' = <<>>
    PROVE  FakeInv'
<1>1. ASSUME NEW m, NEW i, HeardOrAhead(m, i) PROVE HeardOrAhead(m, i)'
  BY <1>1 DEF HeardOrAhead, Own
<1>2. ASSUME NEW N \in {3, 5}, Playing(N), Reached(N) PROVE Playing(N)' /\ Reached(N)'
  <2>1. Reached(N)'
    BY <1>2 DEF Reached
  <2>2. ASSUME NEW i \in 1 .. Len(chain), Own(chain[i])'
        PROVE  LET e == chain'[i] IN
             IF e.n = 0 THEN e.type = "heartbeat" /\ HeardOrAhead(N, i)'
                        ELSE /\ IsBeat(N, e.type, e.n) /\ e.n > Len(server'.beats)
                             /\ \A m \in e.n + 1 .. N : HeardOrAhead(m, i)'
    <3>1. Own(chain[i])
      BY <2>2 DEF Own
    <3> QED BY <1>1, <1>2, <2>2, <3>1 DEF Playing
  <2>3. \A m \in Len(server.beats) + 1 .. N : HeardOrAhead(m, Len(chain) + 1)'
    <3>1. \A m \in Len(server.beats) + 1 .. N : HeardOrAhead(m, Len(chain) + 1)
      BY <1>2 DEF Playing
    <3>2. ASSUME NEW L, L = Len(chain) + 1, NEW m, HeardOrAhead(m, L) PROVE HeardOrAhead(m, Len(chain) + 1)'
      <4>1. HeardOrAhead(m, L)'
        BY <1>1, <3>2
      <4>2. L = Len(chain') + 1
        BY <3>2
      <4> QED BY <4>1, <4>2
    <3> QED BY <3>1, <3>2
  <2> QED BY <1>2, <2>1, <2>2, <2>3 DEF Playing
<1>3. Obtaining' <=> Obtaining
  BY DEF Obtaining
<1>4. ServerInv'
  <2>1. CASE server = None /\ Serverless
    BY <1>3, <2>1 DEF ServerInv, Serverless
  <2>2. CASE ~(server = None /\ Serverless)
    BY <1>2, <2>2 DEF FakeInv, ServerInv
  <2> QED BY <2>1, <2>2
<1>5. ChainInv'
  BY <1>3 DEF FakeInv, ChainInv
<1> QED BY <1>4, <1>5 DEF FakeInv

LEMMA ShowInv == ASSUME TypeInv, FakeInv, Show PROVE FakeInv'
<1>1. Script' /\ AtLast' = AtLast
  BY ShowPlays DEF FakeInv
<1>2. ~busy /\ UNCHANGED <<record, open, server, timers, chain, busy>>
  BY DEF Show, FakeInv, ChainInv
<1> QED BY <1>1, <1>2, Steady

LEMMA UploadedInv == ASSUME TypeInv, FakeInv, Uploaded PROVE FakeInv'
<1>1. UNCHANGED <<state, fact, told, out, record, open, server, timers, chain>> /\ ~busy'
  BY DEF Uploaded, seen
<1>2. Script' /\ AtLast' = AtLast
  BY <1>1 DEF FakeInv, Script, AtLast, First, Second, Third, View
<1> QED BY <1>1, <1>2, Steady

\* Steps come onto the chain: a server is obtained once at a time, and silence is not noticed early.
LEMMA ArrivesInv ==
    ASSUME TypeInv, FakeInv, NEW steps \in Seq(Steps), steps # <<>>, Arrives(steps),
           UNCHANGED <<state, fact, told, out, record, open, busy>>, timers' \subseteq timers,
           server' = server \/ (server # None /\ server' # None), server'.id = server.id,
           \A N \in {3, 5} : Playing(N) => Playing(N)',
           \A k \in 1 .. Len(steps) :
               /\ steps[k].kind = "event" => steps[k].of \in 1 .. record.servers
               /\ steps[k].kind = "allocation" =>
                      Len(steps) = 1 /\ "allocation" \in timers /\ "allocation" \notin timers'
               /\ steps[k].kind = "heartbeat" => AtLast.state \notin Before,
           "allocation" \in timers => "allocation" \in timers' \/ steps[1].kind = "allocation"
    PROVE  FakeInv'
<1>1. /\ Len(chain') = Len(chain) + Len(steps) /\ Len(chain) \in Nat /\ Len(steps) \in Nat /\ Len(steps) > 0
      /\ \A j \in 1 .. Len(chain) : chain'[j] = chain[j]
      /\ \A j \in Len(chain) + 1 .. Len(chain) + Len(steps) : chain'[j] = steps[j - Len(chain)]
  BY ConcatFacts, SeqFacts DEF TypeInv, Arrives
<1>2. out = <<>> /\ (chain = <<>> \/ busy)
  BY DEF Arrives, Settled
<1>3. Script' /\ AtLast' = AtLast
  <2>1. out' = <<>> /\ View' = View
    BY <1>2 DEF View
  <2> QED BY <1>2, <2>1 DEF Script, AtLast
<1>4. ASSUME NEW i \in 1 .. Len(chain')
      PROVE  \/ i \in 1 .. Len(chain) /\ chain'[i] = chain[i]
             \/ i - Len(chain) \in 1 .. Len(steps) /\ chain'[i] = steps[i - Len(chain)]
  BY <1>1
<1>5. ASSUME busy PROVE AtLast.state = "live" /\ "allocation" \notin timers
  BY <1>5 DEF FakeInv, ChainInv, Obtaining
<1>6. Obtaining' <=> Obtaining
  <2>1. ASSUME Obtaining' PROVE Obtaining
    <3>1. CASE "allocation" \in timers'
      BY <3>1 DEF Obtaining
    <3>2. CASE "allocation" \notin timers'
      <4>1. PICK i \in 1 .. Len(chain') : chain'[i].kind = "allocation"
        BY <2>1, <3>2 DEF Obtaining
      <4> QED BY <4>1, <1>4 DEF Obtaining
    <3> QED BY <3>1, <3>2
  <2>2. ASSUME Obtaining PROVE Obtaining'
    <3>1. CASE "allocation" \in timers
      <4>1. CASE "allocation" \in timers'
        BY <4>1 DEF Obtaining
      <4>2. CASE steps[1].kind = "allocation"
        <5>1. PICK k \in Nat : k = Len(chain) + 1
          BY <1>1
        <5>2. k \in 1 .. Len(chain') /\ k - Len(chain) = 1 /\ k \in Len(chain) + 1 .. Len(chain) + Len(steps)
          BY <5>1, <1>1
        <5>3. chain'[k] = steps[1]
          BY <5>2, <1>1
        <5> QED BY <4>2, <5>2, <5>3 DEF Obtaining
      <4> QED BY <3>1, <4>1, <4>2
    <3>2. CASE "allocation" \notin timers
      <4>1. PICK i \in 1 .. Len(chain) : chain[i].kind = "allocation"
        BY <2>2, <3>2 DEF Obtaining
      <4>2. i \in 1 .. Len(chain') /\ chain'[i] = chain[i]
        BY <4>1, <1>1
      <4> QED BY <4>1, <4>2 DEF Obtaining
    <3> QED BY <3>1, <3>2
  <2> QED BY <2>1, <2>2
<1>7. ChainInv'
  <2>1. ASSUME NEW i \in 1 .. Len(chain')
        PROVE  /\ chain'[i].kind = "event" => chain'[i].of \in 1 .. record'.servers
               /\ chain'[i].kind = "allocation" => Len(chain') = 1 /\ ~busy' /\ "allocation" \notin timers'
               /\ chain'[i].kind = "heartbeat" => AtLast'.state \notin Before
    <3>1. CASE i \in 1 .. Len(chain) /\ chain'[i] = chain[i]
      <4>1. busy
        BY <3>1, <1>1, <1>2
      <4> QED BY <3>1, <4>1, <1>3 DEF FakeInv, ChainInv
    <3>2. CASE i - Len(chain) \in 1 .. Len(steps) /\ chain'[i] = steps[i - Len(chain)]
      <4>1. /\ chain'[i].kind = "event" => chain'[i].of \in 1 .. record.servers
            /\ chain'[i].kind = "allocation" =>
                   Len(steps) = 1 /\ "allocation" \in timers /\ "allocation" \notin timers'
            /\ chain'[i].kind = "heartbeat" => AtLast.state \notin Before
        BY <3>2
      <4>2. "allocation" \in timers => ~busy /\ Len(chain) = 0
        BY <1>1, <1>2, <1>5
      <4> QED BY <4>1, <4>2, <1>1, <1>3
    <3> QED BY <3>1, <3>2, <1>4
  <2>2. Obtaining' => AtLast'.state = "allocating" /\ server' = None
    BY <1>3, <1>6 DEF FakeInv, ChainInv
  <2>3. busy' => out' = <<>> /\ AtLast'.state = "live"
    BY <1>2, <1>3, <1>5
  <2> QED BY <2>1, <2>2, <2>3 DEF ChainInv
<1>8. ServerInv'
  <2>1. CASE server = None
    <3>1. Serverless
      BY <2>1, NoneTyped DEF FakeInv, ServerInv
    <3>2. Serverless'
      BY <1>3, <1>6, <3>1 DEF Serverless
    <3> QED BY <2>1, <3>2 DEF ServerInv
  <2>2. CASE server # None
    <3>1. server.id = record.servers /\ server.id # 0 /\ record.row
      BY <2>2, ServedAlive
    <3>2. PICK N \in {3, 5} : Playing(N) /\ Reached(N)
      BY <2>2, ServedAlive
    <3>3. Playing(N)' /\ Reached(N)'
      BY <1>3, <3>2 DEF Reached
    <3> QED BY <3>1, <3>3 DEF ServerInv
  <2> QED BY <2>1, <2>2
<1> QED BY <1>3, <1>7, <1>8 DEF FakeInv

\* One step that is no event of a server.
LEMMA QueuesInv ==
    ASSUME TypeInv, FakeInv, NEW kind \in Kinds, kind # "event", Arrives(<<Step(kind)>>),
           UNCHANGED <<state, fact, told, out, record, open, server, busy>>, timers' = timers \ {kind},
           kind = "allocation" => "allocation" \in timers, kind = "heartbeat" => AtLast.state \notin Before
    PROVE  FakeInv'
<1>1. PICK steps \in Seq(Steps) :
          steps = <<Step(kind)>> /\ steps # <<>> /\ Len(steps) = 1 /\ steps[1].kind = kind
  BY StepTyped DEF Step
<1>2. chain' = chain \o steps
  BY <1>1 DEF Arrives
<1>3. \A k \in 1 .. Len(steps) : steps[k].kind = kind
  BY <1>1
<1>4. ASSUME NEW N \in {3, 5}, Playing(N) PROVE Playing(N)'
  BY <1>1, <1>2, <1>3, <1>4, Pushed DEF Own
<1>5. Arrives(steps)
  BY <1>1
<1>6. \A k \in 1 .. Len(steps) :
          /\ steps[k].kind = "event" => steps[k].of \in 1 .. record.servers
          /\ steps[k].kind = "allocation" =>
                 Len(steps) = 1 /\ "allocation" \in timers /\ "allocation" \notin timers'
          /\ steps[k].kind = "heartbeat" => AtLast.state \notin Before
  BY <1>1, <1>3
<1>7. /\ timers' \subseteq timers /\ server' = server /\ server'.id = server.id
      /\ "allocation" \in timers => "allocation" \in timers' \/ steps[1].kind = "allocation"
  BY <1>1
<1>8. \A N \in {3, 5} : Playing(N) => Playing(N)'
  BY <1>4
<1>9. UNCHANGED <<state, fact, told, out, record, open, busy>>
  OBVIOUS
<1>10. steps # <<>>
  BY <1>1
<1>11. server' = server \/ (server # None /\ server' # None)
  OBVIOUS
<1> QED BY <1>5, <1>6, <1>7, <1>8, <1>9, <1>10, <1>11, ArrivesInv

LEMMA FireInv == ASSUME TypeInv, FakeInv, NEW t \in Deadlines, Fire(t) PROVE FakeInv'
<1>1. t \in timers /\ Due(t) /\ Arrives(<<Step(t)>>) /\ timers' = timers \ {t}
      /\ UNCHANGED <<state, fact, told, out, record, open, server, busy>>
  BY DEF Fire, seen
<1>2. ASSUME t = "heartbeat" PROVE AtLast.state \notin Before
  <2>1. CASE busy
    BY <2>1 DEF FakeInv, ChainInv, Before
  <2>2. CASE ~busy
    <3>1. chain = <<>> /\ ~server.beating
      BY <1>1, <1>2, <2>2 DEF Due, Arrives, Settled
    <3>2. server # None
      BY <1>1, <1>2, NoneTyped DEF FakeInv, ServerInv, Serverless
    <3>3. PICK N \in {3, 5} : Playing(N) /\ Reached(N)
      BY <3>2, ServedAlive
    <3>4. N \in record.seen
      BY <1>1, <1>2, <3>3 DEF Reached
    <3>5. Len(server.beats) \in Nat /\ record.seen \subseteq Len(server.beats) + 1 .. N
      BY <3>3, ChainTyped DEF Playing
    <3>6. Len(server.beats) < N
      BY <3>4, <3>5
    <3>7. Len(server.beats) < N - 1
      BY <3>1, <3>3, <3>6 DEF Playing
    <3>8. N - 1 \in Len(server.beats) + 1 .. N
      BY <3>5, <3>7
    <3>9. HeardOrAhead(N - 1, Len(chain) + 1)
      BY <3>3, <3>8 DEF Playing
    <3>10. N - 1 \in record.seen
      BY <3>1, <3>9 DEF HeardOrAhead
    <3> QED BY <3>3, <3>10 DEF Reached, Before
  <2> QED BY <2>1, <2>2
<1>3. t \in Kinds /\ t # "event"
  BY DEF Kinds, Deadlines
<1> QED BY <1>1, <1>2, <1>3, QueuesInv

LEMMA AskedInv == ASSUME TypeInv, FakeInv, Send \/ Order PROVE FakeInv'
<1>1. PICK k \in Commands \cup {"cancel", "release"} : Arrives(<<Step(k)>>)
  BY FakeAssumption DEF Send, Order, Asks
<1>2. UNCHANGED <<state, fact, told, out, record, open, server, timers, busy>>
  BY DEF Send, Order, seen
<1>3. k \in Kinds /\ k \notin {"event", "allocation", "heartbeat"} /\ k \notin timers
  BY DEF Kinds, Commands, TypeInv, Deadlines
<1> QED BY <1>1, <1>2, <1>3, QueuesInv

LEMMA HeartbeatInv == ASSUME TypeInv, FakeInv, Heartbeat PROVE FakeInv'
<1>0. server.beating /\ UNCHANGED <<state, fact, told, out, record, open, server, timers, busy>>
  BY DEF Heartbeat, seen
<1>1. server # None
  BY <1>0, NoneTyped
<1>2. server.id \in 1 .. record.servers
  BY <1>1, ServedAlive, ChainTyped
<1>3. PICK steps \in Seq(Steps) :
          /\ Arrives(steps) /\ chain' = chain \o steps /\ steps # <<>> /\ Len(steps) = 1
          /\ steps[1].kind = "event" /\ steps[1].of = server.id /\ steps[1].n = 0 /\ steps[1].type = "heartbeat"
  <2>1. /\ <<Event(server.id, "heartbeat", 0)>> \in Seq(Steps) /\ Arrives(<<Event(server.id, "heartbeat", 0)>>)
        /\ chain' = chain \o <<Event(server.id, "heartbeat", 0)>>
    BY ChainTyped, StepTyped DEF Heartbeat, Arrives
  <2> QED BY <2>1 DEF Event
<1>4. \A k \in 1 .. Len(steps) : steps[k] = steps[1]
  BY <1>3
<1>5. ASSUME NEW N \in {3, 5}, Playing(N) PROVE Playing(N)'
  BY <1>0, <1>3, <1>4, <1>5, Pushed
<1>6. \A k \in 1 .. Len(steps) : steps[k].kind = "event" /\ steps[k].of \in 1 .. record.servers
  BY <1>2, <1>3, <1>4
<1>7. \A N \in {3, 5} : Playing(N) => Playing(N)'
  BY <1>5
<1>8. UNCHANGED <<state, fact, told, out, record, open, busy>>
  BY <1>0
<1>9. \A k \in 1 .. Len(steps) :
          /\ steps[k].kind = "event" => steps[k].of \in 1 .. record.servers
          /\ steps[k].kind = "allocation" =>
                 Len(steps) = 1 /\ "allocation" \in timers /\ "allocation" \notin timers'
          /\ steps[k].kind = "heartbeat" => AtLast.state \notin Before
  BY <1>6
<1>10. /\ timers' \subseteq timers /\ server' = server /\ server'.id = server.id
       /\ "allocation" \in timers => "allocation" \in timers' \/ steps[1].kind = "allocation"
  BY <1>0
<1>11. steps # <<>> /\ (server' = server \/ (server # None /\ server' # None))
  BY <1>0, <1>3
<1> QED BY <1>3, <1>7, <1>8, <1>9, <1>10, <1>11, ArrivesInv

LEMMA BeatInv == ASSUME TypeInv, FakeInv, Beat PROVE FakeInv'
<1>0. Playable /\ UNCHANGED <<state, fact, told, out, record, open, timers, busy>> /\ server' = Dealt(server)
  BY DEF Beat, seen
<1>1. server # None /\ server'.id = server.id
  BY <1>0, NoneTyped, DealtIs DEF Playable
<1>2. server.id \in 1 .. record.servers /\ server' # None
  BY <1>1, ServedAlive, ChainTyped, NoneTyped
<1>3. PICK steps \in Seq(Steps) :
          Arrives(steps) /\ steps # <<>> /\ (\A k \in 1 .. Len(steps) : steps[k] = NextBeat) /\ 1 \in 1 .. Len(steps)
  <2>1. Len(server.beats) \in Nat /\ Head(server.beats) \in Types /\ server.id \in Nat
    BY <1>0, ChainTyped, TailFacts DEF Playable
  <2>2. <<NextBeat>> \in Seq(Steps) /\ <<NextBeat, NextBeat>> \in Seq(Steps)
    BY <2>1, StepTyped DEF NextBeat
  <2>3. /\ <<NextBeat>> # <<>> /\ (\A k \in 1 .. Len(<<NextBeat>>) : <<NextBeat>>[k] = NextBeat)
        /\ 1 \in 1 .. Len(<<NextBeat>>)
    OBVIOUS
  <2>4. /\ <<NextBeat, NextBeat>> # <<>>
        /\ (\A k \in 1 .. Len(<<NextBeat, NextBeat>>) : <<NextBeat, NextBeat>>[k] = NextBeat)
        /\ 1 \in 1 .. Len(<<NextBeat, NextBeat>>)
    OBVIOUS
  <2>5. CASE Arrives(<<NextBeat>>)
    BY <2>2, <2>3, <2>5
  <2>6. CASE Arrives(<<NextBeat, NextBeat>>)
    BY <2>2, <2>4, <2>6
  <2> QED BY <2>5, <2>6 DEF Beat
<1>4. NextBeat.kind = "event" /\ NextBeat.of = server.id
  BY DEF NextBeat, Event
<1>5. ASSUME NEW N \in {3, 5}, Playing(N) PROVE Playing(N)'
  BY <1>5, BeatPlays
<1>6. \A k \in 1 .. Len(steps) : steps[k].kind = "event" /\ steps[k].of \in 1 .. record.servers
  BY <1>2, <1>3, <1>4
<1> QED BY <1>0, <1>1, <1>2, <1>3, <1>5, <1>6, ArrivesInv

LEMMA FakeInit == Init => FakeInv
<1> SUFFICES ASSUME Init PROVE FakeInv
  OBVIOUS
<1>1. TypeInv
  BY TypesInit
<1>2. /\ out = <<[state |-> "allocating", fact |-> "same"]>> /\ state = "pending" /\ record.row
      /\ ~record.restoring /\ open = 1 /\ server = None /\ timers = {"allocation", "ttl"} /\ chain = <<>> /\ ~busy
  BY DEF Init, Move
<1>3. Len(out) = 1 /\ out[1] = [state |-> "allocating", fact |-> "same"] /\ out # <<>>
  BY <1>2
<1>4. "allocating" \in States /\ View \in Views /\ View.state = "pending"
  BY <1>1, <1>2, ViewTyped DEF States, Before
<1>5. First = [View EXCEPT !.state = "allocating"] /\ First.state = "allocating"
  <2>1. ASSUME NEW v \in Views
        PROVE  Shown(v, [state |-> "allocating", fact |-> "same"]) = [v EXCEPT !.state = "allocating"]
               /\ [v EXCEPT !.state = "allocating"].state = "allocating"
    BY <1>4, ShownMove
  <2> QED BY <1>3, <1>4, <2>1 DEF First
<1>6. Script /\ AtLast.state = "allocating"
  BY <1>3, <1>4, <1>5 DEF Script, AtLast, Allows, Before
<1>7. Obtaining /\ ServerInv
  BY <1>2, <1>6 DEF ServerInv, Serverless, Obtaining, Terminal
<1>8. ChainInv
  <2>1. Len(chain) = 0
    BY <1>2
  <2> QED BY <1>2, <1>6, <2>1 DEF ChainInv
<1> QED BY <1>2, <1>6, <1>7, <1>8 DEF FakeInv

LEMMA ServedLive == TypeInv /\ FakeInv => (out = <<>> /\ state = "live" => server # None)
<1> SUFFICES ASSUME TypeInv, FakeInv, out = <<>>, state = "live" PROVE server # None
  OBVIOUS
<1>1. AtLast.state = "live"
  BY ScriptNone, ViewTyped
<1> QED BY <1>1, LiveServed

LEMMA FakeStep == TypeInv /\ FakeInv /\ [Next]_vars => TypeInv' /\ FakeInv'
<1> SUFFICES ASSUME TypeInv, FakeInv, [Next]_vars PROVE TypeInv' /\ FakeInv'
  OBVIOUS
<1>1. TypeInv'
  BY ServedLive, TypesStep
<1>2. CASE UNCHANGED vars
  <2>1. UNCHANGED <<state, fact, told, out, record, open, server, timers, chain, busy>>
    BY <1>2 DEF vars, seen
  <2>2. Script' /\ AtLast' = AtLast
    BY <2>1 DEF FakeInv, Script, AtLast, First, Second, Third, View
  <2>3. busy' => busy /\ out' = <<>>
    BY <2>1 DEF FakeInv, ChainInv
  <2> QED BY <1>1, <2>1, <2>2, <2>3, Steady
<1>3. CASE Next
  BY <1>1, <1>3, ShowInv, UploadedInv, FireInv, AskedInv, BeatInv, HeartbeatInv, AllocatedInv, EndingInv, AgainInv,
     SilentInv, UnheardInv, ServerReadyInv, GoingLiveInv, ElseInv, SeriesEndInv, RestoreInv, ReprovisionInv,
     PauseInv, Zenon DEF Next, Run
<1> QED BY <1>2, <1>3

-----------------------------------------------------------------------------
(* Theorems.                                                                *)

\* Whatever the running step has still to show is allowed where it comes; the server on the
\* record plays a story of which the match has heard the beginning, in order, and has come as far
\* as it; and without a server one is being obtained, or the match waits for a restore, or is over.
THEOREM FakeInvariant == Spec => [](TypeInv /\ FakeInv)
<1>1. Init => TypeInv /\ FakeInv
  BY TypesInit, FakeInit
<1> QED BY <1>1, FakeStep, PTL DEF Spec

LEMMA RowsHeld == TypeInv /\ FakeInv => RowsAreHeld
<1> SUFFICES ASSUME TypeInv, FakeInv PROVE RowsAreHeld
  OBVIOUS
<1>1. CASE server # None
  BY <1>1, ServedAlive DEF RowsAreHeld, FakeInv
<1>2. CASE server = None
  <2>1. Serverless
    BY <1>2, NoneTyped DEF FakeInv, ServerInv
  <2>2. Obtaining => AtLast.state = "allocating"
    BY DEF FakeInv, ChainInv
  <2>3. record.row <=> Obtaining
    BY <2>1, <2>2 DEF Serverless, Terminal
  <2> QED BY <1>2, <2>3 DEF RowsAreHeld, FakeInv
<1> QED BY <1>1, <1>2

\* The ledger has an open row exactly while the record holds one, and the record holds one exactly
\* while a server is being obtained or is there: closeRow and dropServer, on every way out of a
\* server (end, lost, reallocate), miss none.
THEOREM LedgerIsHeld == Spec => []RowsAreHeld
BY FakeInvariant, RowsHeld, PTL

\* What a client sees of a match, fact by fact and state by state, is a behaviour of the Match
\* API's lifecycle, whatever the client, the operator and the simulated server do.
THEOREM FakeDoesNotLie == Spec => ImplementsLifecycle
<1>1. Init => Lifecycle!Init
  BY DEF Init, Lifecycle!Init
<1>2. TypeInv /\ FakeInv /\ [Next]_vars => [Lifecycle!Next]_(Lifecycle!vars)
  <2> SUFFICES ASSUME TypeInv, FakeInv, [Next]_vars PROVE Lifecycle!Next \/ UNCHANGED Lifecycle!vars
    OBVIOUS
  <2>1. CASE Show
    BY <2>1, ShowPlays, AllowsIs DEF FakeInv
  <2>2. CASE ~Show
    <3>1. UNCHANGED seen
      BY <2>2 DEF Next, Run, vars, Allocated, Expire, NeverReady, NotRestored, Silent, Unheard, ServerReady,
         GoingLive, DemoAvailable, SeriesEnd, Else, Hears, Cancel, Release, Again, Restore, ForceEnd,
         Reprovision, Pause, Unpause, Answers, Finish, Uploaded, Fire, Beat, Heartbeat, Send, Order
    <3> QED BY <3>1 DEF seen, Lifecycle!vars
  <2> QED BY <2>1, <2>2
<1> QED BY <1>1, <1>2, FakeInvariant, PTL DEF Spec, ImplementsLifecycle, Lifecycle!Spec
=============================================================================
