-------------------------- MODULE ServerLinkProofs ---------------------------
(***************************************************************************)
(* Proofs about ServerLink, for any number of sockets, events, drops and   *)
(* mishaps: its types, what reaches the match's log, the order of that     *)
(* log, the counts of a session, and that with a plugin that runs on the   *)
(* link takes the steps of EventFeed.                                      *)
(***************************************************************************)
EXTENDS ServerLink, FiniteSetTheorems, WellFoundedInduction, SequenceTheorems, TLAPS

-----------------------------------------------------------------------------
(***************************************************************************)
(* Types.                                                                  *)
(*                                                                         *)
(* TypeOK is not inductive: that the frame a session takes is of the kind  *)
(* it looks for is what the protocol's order of frames is for. FrameInv    *)
(* says what may be on a socket at each stage of its session.              *)
(***************************************************************************)

\* The hello comes first and alone; nothing is answered, and nothing said, before it is.
FrameAt(c) ==
    /\ session[c].at = "none" =>
           wire[c].up = <<>> \/ (Len(wire[c].up) = 1 /\ wire[c].up[1].type = "hello")
    /\ session[c].at # "none" => \A i \in 1..Len(wire[c].up) : wire[c].up[i].type = "events"
    /\ wire[c].end # "closed" /\ session[c].at # "ready" =>
           wire[c].down = <<>> /\ ~(plugin.conn = c /\ plugin.welcomed)
    /\ session[c].batch # {} \/ session[c].results # {} => session[c].at = "ready"
    /\ IsFiniteSet(session[c].window)

FrameInv == \A c \in Sockets : FrameAt(c)

TypeInv == TypeOK /\ FrameInv

\* One socket with another queue up, another queue down, or its end in another state.
WithUp(c, u)     == [wire EXCEPT ![c].up = u]
WithDown(c, u)   == [wire EXCEPT ![c].down = u]
WithEnd(v, c, e) == [v EXCEPT ![c].end = e]

-----------------------------------------------------------------------------
(* Least elements.                                                         *)

\* A set of numbers that is not empty has a least one.
LEMMA LeastNumber ==
  ASSUME NEW S \in SUBSET Nat, S # {}
  PROVE  \E n \in S : \A m \in S : n <= m
  <1> DEFINE R == {p \in Nat \X Nat : p[1] < p[2]}
  <1>a. OpToRel(<, Nat) = R
    BY DEF OpToRel
  <1>b. IsWellFoundedOn(R, Nat)
    BY <1>a, NatLessThanWellFounded
  <1>1. PICK n \in S : \A m \in S : ~(<<m, n>> \in R)
    <2> HIDE DEF R
    <2> QED BY <1>b, WFMin
  <1>2. ASSUME NEW m \in S PROVE n <= m
    <2>1. <<m, n>> \notin R
      BY <1>1
    <2> QED BY <2>1
  <1> QED BY <1>2

\* A frame that is not empty has a first event.
LEMMA LeastEvent ==
  ASSUME NEW es \in SUBSET Event, es # {}
  PROVE  Least(es) \in es
  <1> DEFINE S == {e.seq : e \in es}
  <1>1. S \in SUBSET Nat /\ S # {}
    BY DEF Event
  <1>2. PICK n \in S : \A m \in S : n <= m
    BY <1>1, LeastNumber
  <1>3. \E e \in es : \A f \in es : e.seq <= f.seq
    BY <1>2
  <1> QED BY <1>3 DEF Least

\* Above a number, a finite set of numbers has a first gap, no further than its size.
LEMMA FirstGap ==
  ASSUME NEW a \in Nat, NEW W \in SUBSET Nat, IsFiniteSet(W)
  PROVE  \E r \in a..(a + Cardinality(W)) : (a + 1)..r \subseteq W /\ r + 1 \notin W
  <1> DEFINE n == Cardinality(W)
             T == {k \in Nat : k <= n /\ (a + 1)..(a + n - k) \subseteq W}
  <1>1. n \in Nat
    BY FS_CardinalityType
  <1> HIDE DEF n
  <1>2. n \in T
    <2>1. (a + 1)..(a + n - n) = {}
      BY <1>1
    <2> QED BY <1>1, <2>1
  <1>3. T \in SUBSET Nat /\ T # {}
    BY <1>2
  <1> HIDE DEF T
  <1>4. PICK k \in T : \A m \in T : k <= m
    BY <1>3, LeastNumber
  <1>5. k \in Nat /\ k <= n /\ (a + 1)..(a + n - k) \subseteq W
    BY <1>4 DEF T
  <1> DEFINE r == a + n - k
  <1>6. r \in a..(a + n)
    BY <1>1, <1>5
  <1>7. ASSUME r + 1 \in W PROVE FALSE
    <2>1. (a + 1)..(r + 1) \subseteq W
      BY <1>1, <1>5, <1>7
    <2>2. CASE k > 0
      <3>1. a + n - (k - 1) = r + 1
        BY <1>1, <1>5
      <3>2. k - 1 \in T
        <4>1. a + 1..a + n - (k - 1) \subseteq W
          BY <2>1, <3>1
        <4>2. k - 1 \in Nat /\ k - 1 <= n
          BY <2>2, <1>1, <1>5
        <4> QED BY <4>1, <4>2 DEF T
      <3> QED BY <3>2, <1>4, <1>5
    <2>3. CASE k = 0
      <3>1. /\ IsFiniteSet((a + 1)..(r + 1))
            /\ Cardinality((a + 1)..(r + 1)) = r + 1 - (a + 1) + 1
        BY <1>1, <1>5, FS_Interval
      <3>2. Cardinality((a + 1)..(r + 1)) <= n
        BY <2>1, FS_Subset DEF n
      <3> QED BY <3>1, <3>2, <2>3, <1>1
    <2> QED BY <2>2, <2>3, <1>5
  <1>8. (a + 1)..r \subseteq W
    BY <1>5
  <1> QED BY <1>6, <1>7, <1>8 DEF n

\* Where a session's count stands after one seq more: it passes over no gap.
LEMMA AdvancedTyped ==
  ASSUME NEW s \in SessionType, NEW seq \in Nat, IsFiniteSet(s.window)
  PROVE  /\ Advanced(s, seq) \in SessionType
         /\ Advanced(s, seq).at = s.at
         /\ Advanced(s, seq).batch = s.batch
         /\ Advanced(s, seq).results = s.results
         /\ IsFiniteSet(Advanced(s, seq).window)
         /\ Advanced(s, seq).window \subseteq s.window \cup {seq}
         /\ Advanced(s, seq).acked \in Nat
         /\ \A n \in 1..Advanced(s, seq).acked : n \in 1..s.acked \/ n \in s.window \cup {seq}
  <1> DEFINE W == s.window \cup {seq}
             r == CHOOSE a \in s.acked..(s.acked + Cardinality(W)) :
                      (s.acked + 1)..a \subseteq W /\ a + 1 \notin W
  <1>1. s.acked \in Nat /\ W \in SUBSET Nat /\ IsFiniteSet(W)
    BY FS_AddElement DEF SessionType
  <1>2. Cardinality(W) \in Nat
    BY <1>1, FS_CardinalityType
  <1>3. \E a \in s.acked..(s.acked + Cardinality(W)) : (s.acked + 1)..a \subseteq W /\ a + 1 \notin W
    BY <1>1, FirstGap
  <1>4. r \in s.acked..(s.acked + Cardinality(W)) /\ (s.acked + 1)..r \subseteq W
    BY <1>3
  <1>5. r \in Nat
    BY <1>1, <1>2, <1>4
  <1>6. Advanced(s, seq) = [s EXCEPT !.acked = r, !.window = {n \in W : n > r}]
    BY DEF Advanced
  <1> HIDE DEF r
  <1>7. {n \in W : n > r} \in SUBSET Nat /\ IsFiniteSet({n \in W : n > r})
    BY <1>1, FS_Subset
  <1>8. \A n \in 1..r : n \in 1..s.acked \/ n \in W
    BY <1>1, <1>4, <1>5
  <1> QED BY <1>1, <1>5, <1>6, <1>7, <1>8 DEF SessionType

-----------------------------------------------------------------------------
(* What is done to a socket.                                               *)

LEMMA InitTyped == Init => TypeInv
  <1> SUFFICES ASSUME Init PROVE TypeInv
    OBVIOUS
  <1>1. NoSession \in SessionType /\ IsFiniteSet(NoSession.window)
    BY FS_EmptySet DEF NoSession, SessionType
  <1>2. Dead \in WireType
    BY DEF Dead, WireType
  <1>3. Unlinked \in PluginType
    BY DEF Unlinked, PluginType
  <1>a. <<>> \in Seq(Event)
    OBVIOUS
  <1>b. buffer \in BufferType /\ plugin \in PluginType /\ ~plugin.welcomed
    BY <1>3 DEF Init, BufferType, Unlinked
  <1>4. TypeOK
    BY <1>1, <1>2, <1>a, <1>b DEF Init, TypeOK
  <1>5. FrameInv
    BY <1>1 DEF Init, FrameInv, FrameAt, NoSession, Dead, Unlinked
  <1> QED BY <1>4, <1>5 DEF TypeInv

\* What the parts of a typed state are.
LEMMA Parts ==
  ASSUME TypeOK, NEW c \in Sockets
  PROVE  /\ wire[c] \in WireType /\ session[c] \in SessionType
         /\ wire[c].up \in Seq(Frame) /\ wire[c].down \in Seq(Answer)
         /\ wire[c].end \in {"open", "closing", "closed"}
         /\ session[c].acked \in Nat /\ session[c].batch \in SUBSET Event
         /\ session[c].results \in SUBSET Nat /\ session[c].window \in SUBSET Nat
         /\ buffer.last \in Nat /\ buffer.pending \in SUBSET Event
         /\ plugin.hint \in Nat /\ plugin.inbox \in Nat /\ plugin.held \in BOOLEAN
         /\ plugin.welcomed \in BOOLEAN /\ plugin.conn \in Sockets \cup {None}
  BY DEF TypeOK, WireType, SessionType, BufferType, PluginType

\* A step that leaves sockets and sessions alone, and of the plugin's session at most ends it.
LEMMA SameFrames ==
  ASSUME FrameInv, UNCHANGED <<wire, session>>,
         \A c \in Sockets : plugin'.conn = c /\ plugin'.welcomed => plugin.conn = c /\ plugin.welcomed
  PROVE  FrameInv'
  BY DEF FrameInv, FrameAt

\* The step sends at most one frame of events, on a session that was welcomed.
LEMMA SentUp ==
  ASSUME TypeInv, NEW es \in SUBSET Event, plugin.welcomed, wire' = SendUp(plugin.conn, Events(es)),
         session' = session, plugin'.conn = plugin.conn, plugin'.welcomed = plugin.welcomed
  PROVE  /\ wire' \in [Sockets -> WireType]
         /\ FrameInv'
  <1> DEFINE c == plugin.conn
  <1>1. c \in Sockets
    BY DEF TypeInv, TypeOK, PluginType
  <1>2. Events(es) \in Frame /\ Events(es).type = "events"
    BY DEF Events, Frame
  <1>3. CASE wire[c].end = "closed"
    <2>1. wire' = wire
      BY <1>1, <1>3, Parts DEF SendUp, TypeInv, TypeOK, WireType
    <2> QED BY <2>1, SameFrames DEF TypeInv, TypeOK
  <1>4. CASE wire[c].end # "closed"
    <2>1. wire' = [wire EXCEPT ![c].up = Append(@, Events(es))]
      BY <1>4 DEF SendUp
    <2>2. wire' \in [Sockets -> WireType]
      <3>1. Append(wire[c].up, Events(es)) \in Seq(Frame)
        BY <1>1, <1>2, Parts DEF TypeInv
      <3>2. [wire[c] EXCEPT !.up = Append(@, Events(es))] \in WireType
        BY <3>1, <1>1, Parts DEF WireType, TypeInv
      <3>3. wire' = [wire EXCEPT ![c] = [wire[c] EXCEPT !.up = Append(@, Events(es))]]
        BY <2>1, Zenon
      <3> QED BY <3>2, <3>3, <1>1 DEF TypeInv, TypeOK
    <2>3. session[c].at = "ready"
      BY <1>1, <1>4 DEF TypeInv, FrameInv, FrameAt
    <2>4. ASSUME NEW d \in Sockets
          PROVE  /\ wire'[d].end = wire[d].end /\ wire'[d].down = wire[d].down
                 /\ d # c => wire'[d].up = wire[d].up
      BY <2>1, <1>1, Parts, SMTT(30) DEF TypeInv, TypeOK, WireType
    <2>5. \A i \in 1..Len(wire'[c].up) : wire'[c].up[i].type = "events"
      <3>1. wire'[c].up = Append(wire[c].up, Events(es))
        BY <2>1, <1>1, Parts DEF TypeInv, TypeOK, WireType
      <3>2. \A i \in 1..Len(wire[c].up) : wire[c].up[i].type = "events"
        BY <1>1, <2>3 DEF TypeInv, FrameInv, FrameAt
      <3> QED BY <3>1, <3>2, <1>1, <1>2, Parts DEF TypeInv
    <2>6. FrameInv'
      BY <2>3, <2>4, <2>5 DEF TypeInv, FrameInv, FrameAt
    <2> QED BY <2>2, <2>6
  <1> QED BY <1>3, <1>4

\* One socket is given another queue up...
LEMMA UpSet ==
  ASSUME TypeOK, NEW c \in Sockets, NEW u \in Seq(Frame)
  PROVE  /\ WithUp(c, u) \in [Sockets -> WireType]
         /\ WithUp(c, u)[c].up = u
         /\ \A d \in Sockets : WithUp(c, u)[d].end = wire[d].end /\ WithUp(c, u)[d].down = wire[d].down
         /\ \A d \in Sockets : d # c => WithUp(c, u)[d].up = wire[d].up
  <1>1. PICK w : w = WithUp(c, u)
    OBVIOUS
  <1>2. [wire[c] EXCEPT !.up = u] \in WireType
    BY Parts DEF WireType
  <1>3. w = [wire EXCEPT ![c] = [wire[c] EXCEPT !.up = u]]
    BY <1>1, Zenon DEF WithUp
  <1>4. w \in [Sockets -> WireType]
    BY <1>2, <1>3 DEF TypeOK
  <1>5. w[c].up = u
    BY <1>3, Parts DEF TypeOK, WireType
  <1>6. ASSUME NEW d \in Sockets
        PROVE  /\ w[d].end = wire[d].end /\ w[d].down = wire[d].down
               /\ d # c => w[d].up = wire[d].up
    BY <1>3, Parts DEF TypeOK, WireType
  <1> QED BY <1>1, <1>4, <1>5, <1>6

\* ...or another queue down...
LEMMA DownSet ==
  ASSUME TypeOK, NEW c \in Sockets, NEW u \in Seq(Answer)
  PROVE  /\ WithDown(c, u) \in [Sockets -> WireType]
         /\ WithDown(c, u)[c].down = u
         /\ \A d \in Sockets : WithDown(c, u)[d].end = wire[d].end /\ WithDown(c, u)[d].up = wire[d].up
         /\ \A d \in Sockets : d # c => WithDown(c, u)[d].down = wire[d].down
  <1>1. PICK w : w = WithDown(c, u)
    OBVIOUS
  <1>2. [wire[c] EXCEPT !.down = u] \in WireType
    BY Parts DEF WireType
  <1>3. w = [wire EXCEPT ![c] = [wire[c] EXCEPT !.down = u]]
    BY <1>1, Zenon DEF WithDown
  <1>4. w \in [Sockets -> WireType]
    BY <1>2, <1>3 DEF TypeOK
  <1>5. w[c].down = u
    BY <1>3, Parts DEF TypeOK, WireType
  <1>6. ASSUME NEW d \in Sockets
        PROVE  /\ w[d].end = wire[d].end /\ w[d].up = wire[d].up
               /\ d # c => w[d].down = wire[d].down
    BY <1>3, Parts DEF TypeOK, WireType
  <1> QED BY <1>1, <1>4, <1>5, <1>6

\* ...or its end another state.
LEMMA EndSet ==
  ASSUME NEW v \in [Sockets -> WireType], NEW c \in Sockets, NEW e \in {"open", "closing", "closed"}
  PROVE  /\ WithEnd(v, c, e) \in [Sockets -> WireType]
         /\ WithEnd(v, c, e)[c].end = e
         /\ \A d \in Sockets : WithEnd(v, c, e)[d].up = v[d].up /\ WithEnd(v, c, e)[d].down = v[d].down
         /\ \A d \in Sockets : d # c => WithEnd(v, c, e)[d].end = v[d].end
  <1>1. PICK w : w = WithEnd(v, c, e)
    OBVIOUS
  <1>2. [v[c] EXCEPT !.end = e] \in WireType
    BY DEF WireType
  <1>3. w = [v EXCEPT ![c] = [v[c] EXCEPT !.end = e]]
    BY <1>1, Zenon DEF WithEnd
  <1>4. w \in [Sockets -> WireType]
    BY <1>2, <1>3
  <1>5. w[c].end = e
    BY <1>3 DEF WireType
  <1>6. ASSUME NEW d \in Sockets
        PROVE  /\ w[d].up = v[d].up /\ w[d].down = v[d].down
               /\ d # c => w[d].end = v[d].end
    BY <1>3 DEF WireType
  <1> QED BY <1>1, <1>4, <1>5, <1>6

\* close(): an open end is closing, any other is left as it is.
LEMMA ClosingSet ==
  ASSUME NEW v \in [Sockets -> WireType], NEW c \in Sockets
  PROVE  /\ Closing(v, c) \in [Sockets -> WireType]
         /\ \A d \in Sockets : Closing(v, c)[d].up = v[d].up /\ Closing(v, c)[d].down = v[d].down
         /\ \A d \in Sockets : v[d].end = "closed" <=> Closing(v, c)[d].end = "closed"
  <1>1. PICK e \in {"open", "closing", "closed"} : e = IF v[c].end = "open" THEN "closing" ELSE v[c].end
    BY DEF WireType
  <1>2. Closing(v, c) = WithEnd(v, c, e)
    BY <1>1 DEF Closing, WithEnd
  <1>3. WithEnd(v, c, e)[c].end = "closed" <=> v[c].end = "closed"
    BY <1>1, EndSet
  <1>4. ASSUME NEW d \in Sockets PROVE v[d].end = "closed" <=> WithEnd(v, c, e)[d].end = "closed"
    <2>1. CASE d = c
      BY <2>1, <1>3
    <2>2. CASE d # c
      BY <2>2, EndSet
    <2> QED BY <2>1, <2>2
  <1> QED BY <1>2, <1>4, EndSet

\* The plugin takes a frame off its socket.
LEMMA Listened ==
  ASSUME TypeOK, NEW t, Hears(t)
  PROVE  /\ plugin.conn \in Sockets
         /\ Heard \in Answer /\ Heard.type = t
         /\ Listening \in [Sockets -> WireType]
         /\ Listening[plugin.conn].down = Tail(wire[plugin.conn].down)
         /\ \A d \in Sockets : /\ Listening[d].up = wire[d].up /\ Listening[d].end = wire[d].end
                               /\ d # plugin.conn => Listening[d].down = wire[d].down
  <1>1. PICK c \in Sockets : c = plugin.conn
    BY DEF Hears, TypeOK, PluginType
  <1>2. wire[c].down \in Seq(Answer) /\ wire[c].down # <<>>
    BY <1>1, Parts DEF Hears
  <1>3. Head(wire[c].down) \in Answer /\ Tail(wire[c].down) \in Seq(Answer)
    BY <1>2
  <1>4. Heard \in Answer /\ Heard.type = t
    BY <1>1, <1>3 DEF Heard, Hears
  <1>5. PICK u \in Seq(Answer) : u = Tail(wire[c].down)
    BY <1>3
  <1>6. Listening = WithDown(c, u)
    BY <1>1, <1>5 DEF Listening, WithDown
  <1>7. /\ Listening \in [Sockets -> WireType]
        /\ Listening[c].down = u
        /\ \A d \in Sockets : Listening[d].end = wire[d].end /\ Listening[d].up = wire[d].up
        /\ \A d \in Sockets : d # c => Listening[d].down = wire[d].down
    BY <1>6, DownSet
  <1> QED BY <1>1, <1>4, <1>5, <1>7

\* What the invariant says of a socket does not change with the others.
LEMMA FrameKept ==
  ASSUME NEW c \in Sockets, FrameAt(c), session'[c] = session[c],
         wire'[c].up = wire[c].up, wire'[c].down = wire[c].down,
         wire'[c].end = "closed" <=> wire[c].end = "closed",
         plugin'.conn = c /\ plugin'.welcomed => plugin.conn = c /\ plugin.welcomed
  PROVE  FrameAt(c)'
  BY DEF FrameAt

-----------------------------------------------------------------------------
(* The plugin's steps.                                                     *)

LEMMA EmitTyped == TypeInv /\ Emit => TypeInv'
  <1> SUFFICES ASSUME TypeInv, Emit PROVE TypeInv'
    OBVIOUS
  <1> DEFINE e == [seq |-> buffer.last + 1, hint |-> plugin.hint + 1, id |-> said + 1]
  <1>0. TypeOK /\ FrameInv
    BY DEF TypeInv
  <1>1. e \in Event /\ {e} \in SUBSET Event
    BY <1>0 DEF TypeOK, BufferType, PluginType, Event
  <1>2. buffer' \in BufferType /\ said' \in Nat
    BY <1>0, <1>1 DEF Emit, TypeOK, BufferType, PluginType
  <1>3. plugin' \in PluginType /\ plugin'.conn = plugin.conn /\ plugin'.welcomed = plugin.welcomed
    <2>1. plugin \in PluginType
      BY <1>0 DEF TypeOK
    <2>2. plugin' = [plugin EXCEPT !.hint = plugin.hint + 1]
      BY DEF Emit
    <2>3. plugin.hint + 1 \in Nat
      BY <2>1 DEF PluginType
    <2> QED BY <2>1, <2>2, <2>3 DEF PluginType
  <1>4. wire' \in [Sockets -> WireType] /\ FrameInv'
    <2>1. CASE plugin.welcomed
      BY <2>1, <1>1, <1>3, SentUp DEF Emit
    <2>2. CASE ~plugin.welcomed
      BY <2>2, <1>0, <1>3, SameFrames DEF Emit, TypeOK
    <2> QED BY <2>1, <2>2
  <1>5. TypeOK'
    BY <1>0, <1>2, <1>3, <1>4 DEF Emit, TypeOK, store, fate
  <1> QED BY <1>4, <1>5 DEF TypeInv

LEMMA DialTyped == ASSUME NEW c \in Sockets PROVE TypeInv /\ Dial(c) => TypeInv'
  <1> SUFFICES ASSUME TypeInv, Dial(c) PROVE TypeInv'
    OBVIOUS
  <1> DEFINE w == [end |-> "open", down |-> <<>>, up |-> <<Hello(buffer.last, plugin.held)>>]
  <1>0. TypeOK /\ FrameInv
    BY DEF TypeInv
  <1>1. Hello(buffer.last, plugin.held) \in Frame /\ Hello(buffer.last, plugin.held).type = "hello"
    BY <1>0 DEF Hello, Frame, TypeOK, BufferType, PluginType
  <1>2. w \in WireType
    <2>1. <<Hello(buffer.last, plugin.held)>> \in Seq(Frame)
      BY <1>1
    <2>2. <<>> \in Seq(Answer)
      OBVIOUS
    <2> QED BY <2>1, <2>2 DEF WireType
  <1>3. wire' = [wire EXCEPT ![c] = w]
    BY DEF Dial
  <1>4. NoSession \in SessionType /\ IsFiniteSet(NoSession.window)
    BY FS_EmptySet DEF NoSession, SessionType
  <1>5. session' = [session EXCEPT ![c] = NoSession]
    BY DEF Dial
  <1>6. plugin' \in PluginType /\ plugin'.conn = c /\ ~plugin'.welcomed
    BY <1>0, LinkAssumption DEF Dial, TypeOK, PluginType
  <1>7. TypeOK'
    BY <1>0, <1>2, <1>3, <1>4, <1>5, <1>6 DEF Dial, TypeOK, store, fate
  <1>8. ASSUME NEW d \in Sockets, d # c PROVE FrameAt(d)'
    BY <1>0, <1>3, <1>5, <1>6, <1>8, FrameKept DEF TypeOK, FrameInv
  <1>9. FrameAt(c)'
    <2>1. wire'[c] = w /\ session'[c] = NoSession
      BY <1>0, <1>3, <1>5 DEF TypeOK
    <2>2. wire'[c].down = <<>> /\ Len(wire'[c].up) = 1 /\ wire'[c].up[1].type = "hello"
      BY <2>1, <1>1
    <2> QED BY <2>1, <2>2, <1>4, <1>6 DEF FrameAt, NoSession
  <1> QED BY <1>7, <1>8, <1>9 DEF TypeInv, FrameInv

\* The plugin takes an answer off its socket, and sends nothing.
LEMMA ListenedFrames ==
  ASSUME TypeInv, NEW t, Hears(t), wire' = Listening, session' = session,
         plugin'.conn = plugin.conn, plugin'.welcomed = plugin.welcomed
  PROVE  /\ wire' \in [Sockets -> WireType]
         /\ FrameInv'
  <1>0. TypeOK /\ FrameInv
    BY DEF TypeInv
  <1>1. wire' \in [Sockets -> WireType]
    BY <1>0, Listened
  <1>2. ASSUME NEW d \in Sockets PROVE FrameAt(d)'
    <2>1. wire'[d].up = wire[d].up /\ wire'[d].end = wire[d].end
      BY <1>0, Listened
    <2>2. d # plugin.conn => wire'[d].down = wire[d].down
      BY <1>0, Listened
    <2>3. wire[plugin.conn].down # <<>>
      BY DEF Hears
    <2> QED BY <1>0, <2>1, <2>2, <2>3 DEF FrameInv, FrameAt
  <1> QED BY <1>1, <1>2 DEF FrameInv

LEMMA OnWelcomeTyped == TypeInv /\ OnWelcome => TypeInv'
  <1> SUFFICES ASSUME TypeInv, OnWelcome PROVE TypeInv'
    OBVIOUS
  <1> DEFINE owed == {e \in buffer.pending : e.seq > Heard.acked}
  <1>0. TypeOK /\ FrameInv /\ Hears("welcome")
    BY DEF TypeInv, OnWelcome
  <1>1. owed \in SUBSET Event /\ buffer' \in BufferType
    BY <1>0 DEF OnWelcome, TypeOK, BufferType
  <1>2. plugin' \in PluginType /\ plugin'.conn = plugin.conn /\ plugin'.welcomed
    BY <1>0 DEF OnWelcome, TypeOK, PluginType
  <1>3. PICK c \in Sockets : c = plugin.conn
    BY <1>0, Listened
  <1>4. wire[c].end # "closed" => session[c].at = "ready"
    BY <1>0, <1>3 DEF FrameInv, FrameAt, Hears
  <1>5. Events(owed) \in Frame /\ Events(owed).type = "events"
    BY <1>1 DEF Events, Frame
  <1>6. Listening \in [Sockets -> WireType]
    BY <1>0, Listened
  <1>7. ASSUME NEW d \in Sockets
        PROVE  /\ Listening[d].up = wire[d].up /\ Listening[d].end = wire[d].end
               /\ d # c => Listening[d].down = wire[d].down
    BY <1>0, <1>3, Listened
  <1>8. /\ wire' \in [Sockets -> WireType]
        /\ \A d \in Sockets : /\ wire'[d].end = wire[d].end
                              /\ d # c => wire'[d].down = wire[d].down /\ wire'[d].up = wire[d].up
        /\ \/ wire'[c].up = wire[c].up
           \/ wire[c].end # "closed" /\ wire'[c].up = Append(wire[c].up, Events(owed))
    <2>1. CASE owed = {} \/ wire[c].end = "closed"
      BY <2>1, <1>3, <1>6, <1>7 DEF OnWelcome
    <2>2. CASE owed # {} /\ wire[c].end # "closed"
      <3>1. wire' = [Listening EXCEPT ![c].up = Append(@, Events(owed))]
        BY <2>2, <1>3 DEF OnWelcome
      <3>2. Append(Listening[c].up, Events(owed)) \in Seq(Frame)
        BY <1>5, <1>6 DEF WireType
      <3>3. [Listening[c] EXCEPT !.up = Append(@, Events(owed))] \in WireType
        BY <3>2, <1>6 DEF WireType
      <3>4. wire' = [Listening EXCEPT ![c] = [Listening[c] EXCEPT !.up = Append(@, Events(owed))]]
        BY <3>1, Zenon
      <3>5. wire' \in [Sockets -> WireType]
        BY <3>3, <3>4, <1>6
      <3>6. ASSUME NEW d \in Sockets
            PROVE  /\ wire'[d].end = wire[d].end
                   /\ d # c => wire'[d].down = wire[d].down /\ wire'[d].up = wire[d].up
        BY <3>4, <1>6, <1>7 DEF WireType
      <3>7. wire'[c].up = Append(wire[c].up, Events(owed))
        BY <3>4, <1>6, <1>7 DEF WireType
      <3> QED BY <2>2, <3>5, <3>6, <3>7
    <2> QED BY <2>1, <2>2
  <1>9. TypeOK'
    BY <1>0, <1>1, <1>2, <1>3, <1>8, LinkAssumption DEF OnWelcome, TypeOK, store, fate
  <1>10. session' = session
    BY DEF OnWelcome
  <1>11. ASSUME NEW d \in Sockets, d # c PROVE FrameAt(d)'
    BY <1>0, <1>2, <1>3, <1>8, <1>10, <1>11, FrameKept DEF FrameInv
  <1>12. FrameAt(c)'
    <2>1. FrameAt(c)
      BY <1>0 DEF FrameInv
    <2>2. CASE wire'[c].up = wire[c].up
      BY <2>1, <2>2, <1>4, <1>8, <1>10 DEF FrameAt
    <2>3. CASE wire[c].end # "closed" /\ wire'[c].up = Append(wire[c].up, Events(owed))
      <3>1. \A i \in 1..Len(wire[c].up) : wire[c].up[i].type = "events"
        BY <2>1, <2>3, <1>4 DEF FrameAt
      <3>2. \A i \in 1..Len(wire'[c].up) : wire'[c].up[i].type = "events"
        BY <3>1, <2>3, <1>0, <1>5, Parts
      <3> QED BY <2>1, <2>3, <3>2, <1>4, <1>8, <1>10 DEF FrameAt
    <2> QED BY <2>2, <2>3, <1>8
  <1> QED BY <1>9, <1>11, <1>12 DEF TypeInv, FrameInv

LEMMA OnAckTyped == TypeInv /\ OnAck => TypeInv'
  <1> SUFFICES ASSUME TypeInv, OnAck PROVE TypeInv'
    OBVIOUS
  <1>0. TypeOK /\ FrameInv /\ Hears("ack")
    BY DEF TypeInv, OnAck
  <1>1. buffer' \in BufferType
    BY <1>0 DEF OnAck, TypeOK, BufferType
  <1>2. wire' \in [Sockets -> WireType] /\ FrameInv'
    BY <1>0, ListenedFrames DEF OnAck
  <1>3. TypeOK'
    BY <1>0, <1>1, <1>2 DEF OnAck, TypeOK, store, fate
  <1> QED BY <1>2, <1>3 DEF TypeInv

LEMMA OnAssignTyped == TypeInv /\ OnAssign => TypeInv'
  <1> SUFFICES ASSUME TypeInv, OnAssign PROVE TypeInv'
    OBVIOUS
  <1>0. TypeOK /\ FrameInv /\ Hears("assign")
    BY DEF TypeInv, OnAssign
  <1>1. plugin' \in PluginType /\ plugin'.conn = plugin.conn /\ plugin'.welcomed = plugin.welcomed
    BY <1>0 DEF OnAssign, TypeOK, PluginType
  <1>2. wire' \in [Sockets -> WireType] /\ FrameInv'
    BY <1>0, <1>1, ListenedFrames DEF OnAssign
  <1>3. TypeOK'
    BY <1>0, <1>1, <1>2 DEF OnAssign, TypeOK, store, fate
  <1> QED BY <1>2, <1>3 DEF TypeInv

LEMMA PumpTyped == TypeInv /\ Pump => TypeInv'
  <1> SUFFICES ASSUME TypeInv, Pump PROVE TypeInv'
    OBVIOUS
  <1>0. TypeOK /\ FrameInv
    BY DEF TypeInv
  <1>1. plugin' \in PluginType /\ plugin'.conn = plugin.conn /\ plugin'.welcomed = plugin.welcomed
    <2>1. plugin.inbox - 1 \in Nat
      BY <1>0 DEF Pump, TypeOK, PluginType
    <2>2. plugin' = [plugin EXCEPT !.inbox = plugin.inbox - 1, !.held = TRUE, !.hint = 0]
      BY DEF Pump
    <2> QED BY <1>0, <2>1, <2>2 DEF TypeOK, PluginType
  <1>2. FrameInv'
    BY <1>0, <1>1, SameFrames DEF Pump
  <1>3. renumbered' \in BOOLEAN
    BY <1>0 DEF Pump, TypeOK
  <1>4. TypeOK'
    BY <1>0, <1>1, <1>3 DEF Pump, TypeOK, store
  <1> QED BY <1>2, <1>4 DEF TypeInv

\* The plugin has no socket any more, and nothing is read off the one it had.
LEMMA LeftFrames ==
  ASSUME TypeInv, plugin.conn \in Sockets, wire' = [wire EXCEPT ![plugin.conn].down = <<>>],
         session' = session, ~plugin'.welcomed
  PROVE  /\ wire' \in [Sockets -> WireType]
         /\ FrameInv'
  <1>0. TypeOK /\ FrameInv
    BY DEF TypeInv
  <1>1. PICK c \in Sockets : c = plugin.conn
    OBVIOUS
  <1>2. PICK u \in Seq(Answer) : u = <<>>
    <2>1. <<>> \in Seq(Answer)
      OBVIOUS
    <2> QED BY <2>1
  <1>3. wire' = WithDown(c, u)
    BY <1>1, <1>2 DEF WithDown
  <1>4. /\ WithDown(c, u) \in [Sockets -> WireType]
        /\ WithDown(c, u)[c].down = u
        /\ \A d \in Sockets : WithDown(c, u)[d].end = wire[d].end /\ WithDown(c, u)[d].up = wire[d].up
        /\ \A d \in Sockets : d # c => WithDown(c, u)[d].down = wire[d].down
    BY <1>0, DownSet
  <1>5. ASSUME NEW d \in Sockets PROVE FrameAt(d)'
    BY <1>0, <1>2, <1>3, <1>4 DEF FrameInv, FrameAt
  <1> QED BY <1>3, <1>4, <1>5 DEF FrameInv

LEMMA NoticeTyped == TypeInv /\ Notice => TypeInv'
  <1> SUFFICES ASSUME TypeInv, Notice PROVE TypeInv'
    OBVIOUS
  <1>0. TypeOK /\ FrameInv
    BY DEF TypeInv
  <1>1. plugin' \in PluginType /\ ~plugin'.welcomed
    BY <1>0 DEF Notice, HangUp, TypeOK, PluginType
  <1>2. plugin.conn \in Sockets
    BY <1>0 DEF Notice, TypeOK, PluginType
  <1>3. wire' \in [Sockets -> WireType] /\ FrameInv'
    BY <1>1, <1>2, LeftFrames DEF Notice
  <1>4. TypeOK'
    BY <1>0, <1>1, <1>3 DEF Notice, TypeOK, store, fate
  <1> QED BY <1>3, <1>4 DEF TypeInv

LEMMA DropAtPluginTyped == TypeInv /\ DropAtPlugin => TypeInv'
  <1> SUFFICES ASSUME TypeInv, DropAtPlugin PROVE TypeInv'
    OBVIOUS
  <1>0. TypeOK /\ FrameInv
    BY DEF TypeInv
  <1>1. plugin' \in PluginType /\ ~plugin'.welcomed
    BY <1>0 DEF DropAtPlugin, HangUp, TypeOK, PluginType
  <1>2. plugin.conn \in Sockets
    BY <1>0 DEF DropAtPlugin, TypeOK, PluginType
  <1>3. wire' \in [Sockets -> WireType] /\ FrameInv'
    BY <1>1, <1>2, LeftFrames DEF DropAtPlugin
  <1>4. TypeOK'
    BY <1>0, <1>1, <1>3 DEF DropAtPlugin, TypeOK, store
  <1> QED BY <1>3, <1>4 DEF TypeInv

\* The plugin is loaded anew, with any buffer.
LEMMA RestartedTyped ==
  ASSUME TypeInv, Restarted, buffer' \in BufferType, wipes' \in Nat, reloads' \in Nat
  PROVE  TypeInv'
  <1>0. TypeOK /\ FrameInv
    BY DEF TypeInv
  <1>1. plugin' \in PluginType /\ ~plugin'.welcomed
    BY DEF Restarted, Unlinked, PluginType
  <1>2. wire' \in [Sockets -> WireType] /\ FrameInv'
    <2>1. CASE plugin.conn = None
      BY <2>1, <1>0, <1>1, SameFrames DEF Restarted, TypeOK
    <2>2. CASE plugin.conn # None
      <3>1. plugin.conn \in Sockets
        BY <2>2, <1>0 DEF TypeOK, PluginType
      <3> QED BY <3>1, <2>2, <1>1, LeftFrames DEF Restarted
    <2> QED BY <2>1, <2>2
  <1>3. TypeOK'
    BY <1>0, <1>1, <1>2 DEF Restarted, TypeOK, store
  <1> QED BY <1>2, <1>3 DEF TypeInv

LEMMA ReloadTyped == TypeInv /\ Reload => TypeInv'
  BY RestartedTyped DEF Reload, TypeInv, TypeOK

LEMMA WipeTyped == TypeInv /\ Wipe => TypeInv'
  <1>1. [last |-> 0, pending |-> {}] \in BufferType
    BY DEF BufferType
  <1> QED BY <1>1, RestartedTyped DEF Wipe, TypeInv, TypeOK

-----------------------------------------------------------------------------
(* The orchestrator's steps.                                               *)

\* One session becomes another.
LEMMA SessionSet ==
  ASSUME TypeOK, NEW c \in Sockets, NEW s \in SessionType, session' = [session EXCEPT ![c] = s]
  PROVE  /\ session' \in [Sockets -> SessionType]
         /\ session'[c] = s
         /\ \A d \in Sockets \ {c} : session'[d] = session[d]
  BY DEF TypeOK

\* The frame at the head of a queue is taken.
LEMMA TakenUp ==
  ASSUME TypeOK, NEW c \in Sockets, wire[c].up # <<>>
  PROVE  /\ Head(wire[c].up) \in Frame /\ Head(wire[c].up) = wire[c].up[1]
         /\ Tail(wire[c].up) \in Seq(Frame)
  <1>1. wire[c].up \in Seq(Frame)
    BY Parts
  <1> QED BY <1>1

LEMMA GreetTyped == ASSUME NEW c \in Sockets PROVE TypeInv /\ Greet(c) => TypeInv'
  <1> SUFFICES ASSUME TypeInv, Greet(c) PROVE TypeInv'
    OBVIOUS
  <1> DEFINE hello == Head(wire[c].up)
             s == [NoSession EXCEPT !.at = "greeting", !.held = hello.held,
                                    !.acked = ResumeAt(hello.last)]
  <1>0. TypeOK /\ FrameInv
    BY DEF TypeInv
  <1>1. FrameAt(c) /\ session[c].at = "none" /\ wire[c].up # <<>>
    BY <1>0 DEF FrameInv, Greet
  <1>2. PICK w : w = WithUp(c, Tail(wire[c].up))
    OBVIOUS
  <1>a. hello \in Frame /\ hello = wire[c].up[1] /\ Tail(wire[c].up) \in Seq(Frame)
    BY <1>0, <1>1, TakenUp
  <1>3. /\ w \in [Sockets -> WireType]
        /\ w[c].up = Tail(wire[c].up)
        /\ \A d \in Sockets : w[d].end = wire[d].end /\ w[d].down = wire[d].down
        /\ \A d \in Sockets : d # c => w[d].up = wire[d].up
    <2>1. /\ WithUp(c, Tail(wire[c].up)) \in [Sockets -> WireType]
          /\ WithUp(c, Tail(wire[c].up))[c].up = Tail(wire[c].up)
          /\ \A d \in Sockets : /\ WithUp(c, Tail(wire[c].up))[d].end = wire[d].end
                               /\ WithUp(c, Tail(wire[c].up))[d].down = wire[d].down
          /\ \A d \in Sockets : d # c => WithUp(c, Tail(wire[c].up))[d].up = wire[d].up
      BY <1>0, <1>a, UpSet, Zenon
    <2> QED BY <2>1, <1>2, Zenon
  <1>4. hello.type = "hello" /\ Len(wire[c].up) = 1
    BY <1>1, <1>a DEF FrameAt
  <1>5. hello.last \in Nat /\ hello.held \in BOOLEAN
    BY <1>a, <1>4 DEF Frame
  <1>6. /\ s \in SessionType /\ s.at = "greeting" /\ s.batch = {} /\ s.results = {}
        /\ IsFiniteSet(s.window)
    BY <1>0, <1>5, FS_EmptySet DEF NoSession, SessionType, ResumeAt, Lower, TypeOK
  <1>7. /\ session' \in [Sockets -> SessionType]
        /\ session'[c] = s
        /\ \A d \in Sockets \ {c} : session'[d] = session[d]
    BY <1>0, <1>6, SessionSet DEF Greet
  <1>8. /\ wire' \in [Sockets -> WireType]
        /\ \A d \in Sockets : wire'[d].up = w[d].up /\ wire'[d].down = w[d].down
        /\ \A d \in Sockets : w[d].end = "closed" <=> wire'[d].end = "closed"
    <2>1. CASE current = None
      BY <2>1, <1>2, <1>3 DEF Greet, WithUp
    <2>2. CASE current # None
      <3>1. current \in Sockets
        BY <2>2, <1>0 DEF TypeOK
      <3>2. wire' = Closing(w, current)
        BY <2>2, <1>2 DEF Greet, WithUp
      <3> QED BY <3>1, <3>2, <1>3, ClosingSet
    <2> QED BY <2>1, <2>2
  <1>9. TypeOK'
    BY <1>0, <1>7, <1>8 DEF Greet, TypeOK, server, store, fate
  <1>10. plugin' = plugin
    BY DEF Greet, server
  <1>11. ASSUME NEW d \in Sockets, d # c PROVE FrameAt(d)'
    <2>1. /\ wire'[d].up = wire[d].up /\ wire'[d].down = wire[d].down
          /\ wire'[d].end = "closed" <=> wire[d].end = "closed"
      BY <1>3, <1>8, <1>11
    <2> QED BY <2>1, <1>0, <1>7, <1>10, <1>11, FrameKept DEF FrameInv
  <1>12. FrameAt(c)'
    <2>1. wire'[c].up = <<>>
      <3>1. Tail(wire[c].up) = <<>>
        <4>1. wire[c].up \in Seq(Frame)
          BY <1>0, Parts
        <4>2. Tail(wire[c].up) \in Seq(Frame) /\ Len(Tail(wire[c].up)) = 0
          BY <4>1, <1>4
        <4> QED BY <4>2, EmptySeq
      <3> QED BY <3>1, <1>3, <1>8
    <2>2. wire[c].end # "closed" => wire[c].down = <<>> /\ ~(plugin.conn = c /\ plugin.welcomed)
      BY <1>1 DEF FrameAt
    <2>3. wire'[c].end # "closed" => wire'[c].down = <<>>
      BY <2>2, <1>3, <1>8
    <2>4. wire'[c].end # "closed" => ~(plugin'.conn = c /\ plugin'.welcomed)
      BY <2>2, <1>3, <1>8, <1>10
    <2> QED BY <2>1, <2>3, <2>4, <1>6, <1>7 DEF FrameAt
  <1> QED BY <1>9, <1>11, <1>12 DEF TypeInv, FrameInv

LEMMA GreetTooLateTyped == ASSUME NEW c \in Sockets PROVE TypeInv /\ GreetTooLate(c) => TypeInv'
  <1> SUFFICES ASSUME TypeInv, GreetTooLate(c) PROVE TypeInv'
    OBVIOUS
  <1>0. TypeOK /\ FrameInv
    BY DEF TypeInv
  <1>1. <<>> \in Seq(Frame)
    OBVIOUS
  <1>2. wire' = WithUp(c, <<>>)
    BY DEF GreetTooLate, WithUp
  <1>3. /\ wire' \in [Sockets -> WireType]
        /\ wire'[c].up = <<>>
        /\ \A d \in Sockets : wire'[d].end = wire[d].end /\ wire'[d].down = wire[d].down
        /\ \A d \in Sockets : d # c => wire'[d].up = wire[d].up
    <2>1. /\ WithUp(c, <<>>) \in [Sockets -> WireType]
          /\ WithUp(c, <<>>)[c].up = <<>>
          /\ \A d \in Sockets : /\ WithUp(c, <<>>)[d].end = wire[d].end
                               /\ WithUp(c, <<>>)[d].down = wire[d].down
          /\ \A d \in Sockets : d # c => WithUp(c, <<>>)[d].up = wire[d].up
      BY <1>0, <1>1, UpSet, Zenon
    <2> QED BY <2>1, <1>2, Zenon
  <1>4. session' = session /\ plugin' = plugin
    BY DEF GreetTooLate, server
  <1>5. TypeOK'
    BY <1>0, <1>3 DEF GreetTooLate, TypeOK, server, store, fate
  <1>6. ASSUME NEW d \in Sockets PROVE FrameAt(d)'
    BY <1>0, <1>3, <1>4 DEF FrameInv, FrameAt, GreetTooLate
  <1> QED BY <1>5, <1>6 DEF TypeInv, FrameInv

LEMMA AdmitTyped == ASSUME NEW c \in Sockets PROVE TypeInv /\ Admit(c) => TypeInv'
  <1> SUFFICES ASSUME TypeInv, Admit(c) PROVE TypeInv'
    OBVIOUS
  <1> DEFINE s == [session[c] EXCEPT !.at = "ready"]
             more == IF session[c].held THEN <<Welcome(session[c].acked)>>
                     ELSE <<Welcome(session[c].acked), Assign>>
  <1>0. TypeOK /\ FrameInv
    BY DEF TypeInv
  <1>1. s \in SessionType /\ s.at = "ready" /\ s.window = session[c].window
    BY <1>0, Parts DEF SessionType
  <1>2. session' = [session EXCEPT ![c] = s]
    BY Zenon DEF Admit
  <1>3. /\ session' \in [Sockets -> SessionType]
        /\ session'[c] = s
        /\ \A d \in Sockets \ {c} : session'[d] = session[d]
    BY <1>0, <1>1, <1>2, SessionSet
  <1>4. more \in Seq(Answer)
    <2>1. Welcome(session[c].acked) \in Answer /\ Assign \in Answer
      BY <1>0, Parts DEF Welcome, Assign, Answer
    <2> QED BY <2>1
  <1>5. PICK u \in Seq(Answer) :
            u = IF wire[c].end # "open" THEN wire[c].down ELSE wire[c].down \o more
    <2>1. wire[c].down \in Seq(Answer)
      BY <1>0, Parts
    <2> HIDE DEF more
    <2>2. wire[c].down \o more \in Seq(Answer)
      BY <2>1, <1>4
    <2> QED BY <2>1, <2>2
  <1>6. wire' = WithDown(c, u)
    BY <1>5 DEF Admit, WithDown
  <1>7. /\ WithDown(c, u) \in [Sockets -> WireType]
        /\ WithDown(c, u)[c].down = u
        /\ \A d \in Sockets : WithDown(c, u)[d].end = wire[d].end /\ WithDown(c, u)[d].up = wire[d].up
        /\ \A d \in Sockets : d # c => WithDown(c, u)[d].down = wire[d].down
    BY <1>0, DownSet
  <1>8. plugin' = plugin /\ session[c].at = "greeting"
    BY DEF Admit, server
  <1>9. session[c].acked \in Nat
    BY <1>0, Parts
  <1>10. TypeOK'
    BY <1>0, <1>3, <1>6, <1>7, <1>9 DEF Admit, TypeOK, server, fate
  <1>11. ASSUME NEW d \in Sockets, d # c PROVE FrameAt(d)'
    BY <1>0, <1>3, <1>6, <1>7, <1>8, <1>11, FrameKept DEF FrameInv
  <1>12. FrameAt(c)'
    <2>1. FrameAt(c)
      BY <1>0 DEF FrameInv
    <2>2. \A i \in 1..Len(wire'[c].up) : wire'[c].up[i].type = "events"
      BY <2>1, <1>6, <1>7, <1>8 DEF FrameAt
    <2>3. IsFiniteSet(session'[c].window)
      BY <2>1, <1>1, <1>3 DEF FrameAt
    <2> QED BY <2>2, <2>3, <1>1, <1>3 DEF FrameAt
  <1> QED BY <1>10, <1>11, <1>12 DEF TypeInv, FrameInv

LEMMA TakeTyped == ASSUME NEW c \in Sockets PROVE TypeInv /\ Take(c) => TypeInv'
  <1> SUFFICES ASSUME TypeInv, Take(c) PROVE TypeInv'
    OBVIOUS
  <1> DEFINE s == [session[c] EXCEPT !.batch = Head(wire[c].up).events]
  <1>0. TypeOK /\ FrameInv
    BY DEF TypeInv
  <1>1. FrameAt(c) /\ session[c].at = "ready" /\ wire[c].up # <<>>
    BY <1>0 DEF FrameInv, Take
  <1>2. /\ Head(wire[c].up) \in Frame /\ Head(wire[c].up) = wire[c].up[1]
        /\ Tail(wire[c].up) \in Seq(Frame)
    BY <1>0, <1>1, TakenUp
  <1>3. wire[c].up \in Seq(Frame) /\ Len(wire[c].up) > 0
    <2>1. wire[c].up \in Seq(Frame)
      BY <1>0, Parts
    <2> QED BY <2>1, <1>1
  <1>4. Head(wire[c].up).type = "events"
    BY <1>1, <1>2, <1>3 DEF FrameAt
  <1>5. Head(wire[c].up).events \in SUBSET Event
    BY <1>2, <1>4 DEF Frame
  <1>6. s \in SessionType /\ s.at = "ready" /\ s.window = session[c].window
    BY <1>0, <1>1, <1>5, Parts DEF SessionType
  <1>7. session' = [session EXCEPT ![c] = s]
    BY Zenon DEF Take
  <1>8. /\ session' \in [Sockets -> SessionType]
        /\ session'[c] = s
        /\ \A d \in Sockets \ {c} : session'[d] = session[d]
    BY <1>0, <1>6, <1>7, SessionSet
  <1>9. PICK u \in Seq(Frame) : u = Tail(wire[c].up)
    BY <1>2
  <1>10. wire' = WithUp(c, u)
    BY <1>9 DEF Take, WithUp
  <1>11. /\ WithUp(c, u) \in [Sockets -> WireType]
         /\ WithUp(c, u)[c].up = u
         /\ \A d \in Sockets : WithUp(c, u)[d].end = wire[d].end /\ WithUp(c, u)[d].down = wire[d].down
         /\ \A d \in Sockets : d # c => WithUp(c, u)[d].up = wire[d].up
    BY <1>0, UpSet
  <1>12. plugin' = plugin
    BY DEF Take, server
  <1>13. TypeOK'
    BY <1>0, <1>8, <1>10, <1>11 DEF Take, TypeOK, server, store, fate
  <1>14. ASSUME NEW d \in Sockets, d # c PROVE FrameAt(d)'
    BY <1>0, <1>8, <1>10, <1>11, <1>12, <1>14, FrameKept DEF FrameInv
  <1>15. FrameAt(c)'
    <2>1. \A i \in 1..Len(u) : u[i].type = "events"
      <3>1. Len(u) = Len(wire[c].up) - 1 /\ \A i \in 1..Len(u) : u[i] = wire[c].up[i + 1]
        BY <1>3, <1>9
      <3> QED BY <3>1, <1>1, <1>3 DEF FrameAt
    <2>2. \A i \in 1..Len(wire'[c].up) : wire'[c].up[i].type = "events"
      BY <2>1, <1>10, <1>11
    <2>3. IsFiniteSet(session'[c].window)
      BY <1>1, <1>6, <1>8 DEF FrameAt
    <2> QED BY <2>2, <2>3, <1>6, <1>8 DEF FrameAt
  <1> QED BY <1>13, <1>14, <1>15 DEF TypeInv, FrameInv

\* One event of a batch, whether it is new or not.
LEMMA IngestTyped == ASSUME NEW c \in Sockets PROVE TypeInv /\ Ingest(c) => TypeInv'
  <1> SUFFICES ASSUME TypeInv, Ingest(c) PROVE TypeInv'
    OBVIOUS
  <1> DEFINE e == Least(session[c].batch)
             rest == [session[c] EXCEPT !.batch = @ \ {e}, !.results = @ \cup {e.seq}]
             new == ~Taken(session[c], e.seq) /\ e.hint \notin seen
             s == IF Taken(session[c], e.seq) THEN rest ELSE Advanced(rest, e.seq)
  <1>0. TypeOK /\ FrameInv
    BY DEF TypeInv
  <1>1. FrameAt(c) /\ session[c].batch # {} /\ session[c].batch \in SUBSET Event
    BY <1>0, Parts DEF FrameInv, Ingest
  <1>2. e \in session[c].batch /\ e \in Event
    BY <1>1, LeastEvent
  <1>3. e.seq \in Nat /\ e.hint \in Nat
    BY <1>2 DEF Event
  <1>4. session[c].at = "ready" /\ IsFiniteSet(session[c].window)
    BY <1>1 DEF FrameAt
  <1> HIDE DEF e
  <1>5. rest \in SessionType /\ rest.at = "ready" /\ IsFiniteSet(rest.window)
    BY <1>0, <1>3, <1>4, Parts DEF SessionType
  <1>6. s \in SessionType /\ s.at = "ready" /\ IsFiniteSet(s.window)
    <2> HIDE DEF rest
    <2> QED BY <1>3, <1>5, AdvancedTyped
  <1>7. /\ session' = [session EXCEPT ![c] = s]
        /\ seen' = IF new THEN seen \cup {e.hint} ELSE seen
        /\ log' = IF new THEN Append(log, e) ELSE log
        /\ wire' = wire /\ plugin' = plugin
    BY DEF Ingest, server, e
  <1> HIDE DEF s, new
  <1>8. /\ session' \in [Sockets -> SessionType]
        /\ session'[c] = s
        /\ \A d \in Sockets \ {c} : session'[d] = session[d]
    BY <1>0, <1>6, <1>7, SessionSet
  <1>9. seen' \in SUBSET Nat /\ log' \in Seq(Event)
    BY <1>0, <1>2, <1>3, <1>7 DEF TypeOK
  <1>10. TypeOK'
    BY <1>0, <1>8, <1>9 DEF Ingest, TypeOK, server, fate
  <1>11. ASSUME NEW d \in Sockets, d # c PROVE FrameAt(d)'
    BY <1>0, <1>7, <1>8, <1>11, FrameKept DEF FrameInv
  <1>12. FrameAt(c)'
    BY <1>1, <1>4, <1>6, <1>7, <1>8 DEF FrameAt
  <1> QED BY <1>10, <1>11, <1>12 DEF TypeInv, FrameInv

LEMMA PersistTyped == ASSUME NEW c \in Sockets PROVE TypeInv /\ Persist(c) => TypeInv'
  <1> SUFFICES ASSUME TypeInv, Persist(c) PROVE TypeInv'
    OBVIOUS
  <1> DEFINE s == [session[c] EXCEPT !.results = {}]
  <1>0. TypeOK /\ FrameInv
    BY DEF TypeInv
  <1>1. FrameAt(c) /\ session[c].results # {}
    BY <1>0 DEF FrameInv, Persist
  <1>2. s \in SessionType /\ s.at = session[c].at /\ s.window = session[c].window
    BY <1>0, Parts DEF SessionType
  <1>3. session' = [session EXCEPT ![c] = s]
    BY Zenon DEF Persist
  <1>4. /\ session' \in [Sockets -> SessionType]
        /\ session'[c] = s
        /\ \A d \in Sockets \ {c} : session'[d] = session[d]
    BY <1>0, <1>2, <1>3, SessionSet
  <1>5. PICK u \in Seq(Answer) :
            u = IF wire[c].end = "open" THEN Append(wire[c].down, Ack(session[c].results))
                ELSE wire[c].down
    <2>1. wire[c].down \in Seq(Answer)
      BY <1>0, Parts
    <2>2. Ack(session[c].results) \in Answer
      BY <1>0, Parts DEF Ack, Answer
    <2>3. Append(wire[c].down, Ack(session[c].results)) \in Seq(Answer)
      BY <2>1, <2>2
    <2> QED BY <2>1, <2>3
  <1>6. wire' = WithDown(c, u)
    BY <1>5 DEF Persist, SendDown, WithDown
  <1>7. /\ WithDown(c, u) \in [Sockets -> WireType]
        /\ WithDown(c, u)[c].down = u
        /\ \A d \in Sockets : WithDown(c, u)[d].end = wire[d].end /\ WithDown(c, u)[d].up = wire[d].up
        /\ \A d \in Sockets : d # c => WithDown(c, u)[d].down = wire[d].down
    BY <1>0, DownSet
  <1>8. plugin' = plugin /\ session[c].acked \in Nat
    BY <1>0, Parts DEF Persist, server
  <1>9. TypeOK'
    BY <1>0, <1>4, <1>6, <1>7, <1>8 DEF Persist, TypeOK, server, fate
  <1>10. ASSUME NEW d \in Sockets, d # c PROVE FrameAt(d)'
    BY <1>0, <1>4, <1>6, <1>7, <1>8, <1>10, FrameKept DEF FrameInv
  <1>11. FrameAt(c)'
    <2>1. session[c].at = "ready"
      BY <1>1 DEF FrameAt
    <2>2. \A i \in 1..Len(wire'[c].up) : wire'[c].up[i].type = "events"
      BY <2>1, <1>1, <1>6, <1>7 DEF FrameAt
    <2>3. IsFiniteSet(session'[c].window)
      BY <1>1, <1>2, <1>4 DEF FrameAt
    <2> QED BY <2>1, <2>2, <2>3, <1>2, <1>4 DEF FrameAt
  <1> QED BY <1>9, <1>10, <1>11 DEF TypeInv, FrameInv

LEMMA ThrowTyped == ASSUME NEW c \in Sockets PROVE TypeInv /\ Throw(c) => TypeInv'
  <1> SUFFICES ASSUME TypeInv, Throw(c) PROVE TypeInv'
    OBVIOUS
  <1> DEFINE s == [session[c] EXCEPT !.batch = {}, !.results = {}]
  <1>0. TypeOK /\ FrameInv
    BY DEF TypeInv
  <1>1. FrameAt(c) /\ session[c].batch # {}
    BY <1>0 DEF FrameInv, Throw
  <1>2. s \in SessionType /\ s.at = session[c].at /\ s.window = session[c].window
    BY <1>0, Parts DEF SessionType
  <1>3. session' = [session EXCEPT ![c] = s]
    BY Zenon DEF Throw
  <1>4. /\ session' \in [Sockets -> SessionType]
        /\ session'[c] = s
        /\ \A d \in Sockets \ {c} : session'[d] = session[d]
    BY <1>0, <1>2, <1>3, SessionSet
  <1>5. wire' = Closing(wire, c) /\ plugin' = plugin
    BY DEF Throw, server
  <1>6. /\ wire' \in [Sockets -> WireType]
        /\ \A d \in Sockets : wire'[d].up = wire[d].up /\ wire'[d].down = wire[d].down
        /\ \A d \in Sockets : wire[d].end = "closed" <=> wire'[d].end = "closed"
    BY <1>0, <1>5, ClosingSet DEF TypeOK
  <1>7. seen' \in SUBSET Nat
    <2>1. Least(session[c].batch) \in Event
      BY <1>0, <1>1, Parts, LeastEvent
    <2> QED BY <2>1, <1>0 DEF Throw, TypeOK, Event
  <1>8. TypeOK'
    BY <1>0, <1>4, <1>6, <1>7 DEF Throw, TypeOK, server, store
  <1>9. ASSUME NEW d \in Sockets, d # c PROVE FrameAt(d)'
    BY <1>0, <1>4, <1>5, <1>6, <1>9, FrameKept DEF FrameInv
  <1>10. FrameAt(c)'
    <2>1. session[c].at = "ready"
      BY <1>1 DEF FrameAt
    <2>2. \A i \in 1..Len(wire'[c].up) : wire'[c].up[i].type = "events"
      BY <2>1, <1>1, <1>6 DEF FrameAt
    <2>3. IsFiniteSet(session'[c].window)
      BY <1>1, <1>2, <1>4 DEF FrameAt
    <2> QED BY <2>1, <2>2, <2>3, <1>2, <1>4 DEF FrameAt
  <1> QED BY <1>8, <1>9, <1>10 DEF TypeInv, FrameInv

-----------------------------------------------------------------------------
(* What befalls a socket.                                                  *)

\* A socket that is closed, with a part of what was on it.
LEMMA ClosedFrames ==
  ASSUME TypeInv, NEW c \in Sockets, NEW n \in Nat, n <= Len(wire[c].up),
         wire' = WithEnd(WithUp(c, SubSeq(wire[c].up, 1, n)), c, "closed"),
         session' = session, plugin' = plugin
  PROVE  /\ wire' \in [Sockets -> WireType]
         /\ FrameInv'
  <1>0. TypeOK /\ FrameInv
    BY DEF TypeInv
  <1>1. wire[c].up \in Seq(Frame)
    BY <1>0, Parts
  <1>2. PICK u \in Seq(Frame) : u = SubSeq(wire[c].up, 1, n)
    <2>1. SubSeq(wire[c].up, 1, n) \in Seq(Frame)
      BY <1>1, \A i \in 1..n : i \in 1..Len(wire[c].up), SubSeqProperties
    <2> QED BY <2>1
  <1>3. Len(u) = n /\ \A i \in 1..n : u[i] = wire[c].up[i]
    BY <1>1, <1>2
  <1>4. /\ WithUp(c, u) \in [Sockets -> WireType]
        /\ WithUp(c, u)[c].up = u
        /\ \A d \in Sockets : WithUp(c, u)[d].end = wire[d].end /\ WithUp(c, u)[d].down = wire[d].down
        /\ \A d \in Sockets : d # c => WithUp(c, u)[d].up = wire[d].up
    BY <1>0, UpSet
  <1>5. PICK v \in [Sockets -> WireType] : v = WithUp(c, u)
    BY <1>4
  <1>6. wire' = WithEnd(v, c, "closed")
    BY <1>2, <1>5
  <1>7. /\ WithEnd(v, c, "closed") \in [Sockets -> WireType]
        /\ WithEnd(v, c, "closed")[c].end = "closed"
        /\ \A d \in Sockets : /\ WithEnd(v, c, "closed")[d].up = v[d].up
                              /\ WithEnd(v, c, "closed")[d].down = v[d].down
        /\ \A d \in Sockets : d # c => WithEnd(v, c, "closed")[d].end = v[d].end
    BY EndSet
  <1>8. ASSUME NEW d \in Sockets, d # c PROVE FrameAt(d)'
    BY <1>0, <1>4, <1>5, <1>6, <1>7, <1>8, FrameKept DEF FrameInv
  <1>9. FrameAt(c)'
    <2>1. FrameAt(c)
      BY <1>0 DEF FrameInv
    <2>2. wire'[c].end = "closed" /\ wire'[c].up = u
      BY <1>4, <1>5, <1>6, <1>7
    <2>3. u = <<>> \/ n > 0
      BY <1>3, EmptySeq
    <2>4. session[c].at = "none" => u = <<>> \/ (Len(u) = 1 /\ u[1].type = "hello")
      BY <2>1, <2>3, <1>1, <1>3 DEF FrameAt
    <2>5. session[c].at # "none" => \A i \in 1..Len(u) : u[i].type = "events"
      BY <2>1, <1>1, <1>3 DEF FrameAt
    <2> QED BY <2>1, <2>2, <2>4, <2>5 DEF FrameAt
  <1> QED BY <1>6, <1>7, <1>8, <1>9 DEF FrameInv

LEMMA DropAtOrchestratorTyped ==
  ASSUME NEW c \in Sockets, NEW n \in 0..Len(wire[c].up)
  PROVE  TypeInv /\ DropAtOrchestrator(c, n) => TypeInv'
  <1> SUFFICES ASSUME TypeInv, DropAtOrchestrator(c, n) PROVE TypeInv'
    OBVIOUS
  <1>0. TypeOK /\ FrameInv
    BY DEF TypeInv
  <1>1. wire' = WithEnd(WithUp(c, SubSeq(wire[c].up, 1, n)), c, "closed")
    BY Zenon DEF DropAtOrchestrator, WithEnd, WithUp
  <1>2. n \in Nat /\ n <= Len(wire[c].up)
    <2>1. wire[c].up \in Seq(Frame)
      BY <1>0, Parts
    <2>2. Len(wire[c].up) \in Nat
      BY <2>1
    <2> QED BY <2>2
  <1>3. session' = session /\ plugin' = plugin
    BY DEF DropAtOrchestrator, server
  <1>4. wire' \in [Sockets -> WireType] /\ FrameInv'
    BY <1>1, <1>2, <1>3, ClosedFrames
  <1>5. TypeOK'
    BY <1>0, <1>4 DEF DropAtOrchestrator, TypeOK, server, store
  <1> QED BY <1>4, <1>5 DEF TypeInv

LEMMA SilenceTyped == ASSUME NEW c \in Sockets PROVE TypeInv /\ Silence(c) => TypeInv'
  <1> SUFFICES ASSUME TypeInv, Silence(c) PROVE TypeInv'
    OBVIOUS
  <1>0. TypeOK /\ FrameInv
    BY DEF TypeInv
  <1>1. PICK v \in [Sockets -> WireType] : v = wire
    BY <1>0 DEF TypeOK
  <1>2. wire' = WithEnd(v, c, "closed")
    BY <1>1 DEF Silence, WithEnd
  <1>3. /\ WithEnd(v, c, "closed") \in [Sockets -> WireType]
        /\ WithEnd(v, c, "closed")[c].end = "closed"
        /\ \A d \in Sockets : /\ WithEnd(v, c, "closed")[d].up = v[d].up
                              /\ WithEnd(v, c, "closed")[d].down = v[d].down
        /\ \A d \in Sockets : d # c => WithEnd(v, c, "closed")[d].end = v[d].end
    BY EndSet
  <1>4. session' = session /\ plugin' = plugin
    BY DEF Silence, server
  <1>5. TypeOK'
    BY <1>0, <1>2, <1>3 DEF Silence, TypeOK, server, store, fate
  <1>6. ASSUME NEW d \in Sockets PROVE FrameAt(d)'
    BY <1>0, <1>1, <1>2, <1>3, <1>4 DEF FrameInv, FrameAt
  <1> QED BY <1>5, <1>6 DEF TypeInv, FrameInv

LEMMA CrashTyped == TypeInv /\ Crash => TypeInv'
  <1> SUFFICES ASSUME TypeInv, Crash PROVE TypeInv'
    OBVIOUS
  <1>0. TypeOK /\ FrameInv
    BY DEF TypeInv
  <1>1. ASSUME NEW c \in Sockets
        PROVE  /\ wire'[c] \in WireType /\ wire'[c].end = "closed" /\ wire'[c].up = <<>>
    <2>1. <<>> \in Seq(Frame)
      OBVIOUS
    <2>2. wire'[c] = [wire[c] EXCEPT !.end = "closed", !.up = <<>>]
      BY DEF Crash
    <2>3. wire[c] \in WireType
      BY <1>0, Parts
    <2> QED BY <2>1, <2>2, <2>3 DEF WireType
  <1>2. wire' \in [Sockets -> WireType]
    <2>1. wire' = [c \in Sockets |-> wire'[c]]
      BY DEF Crash
    <2> QED BY <2>1, <1>1
  <1>3. NoSession \in SessionType /\ IsFiniteSet(NoSession.window)
    BY FS_EmptySet DEF NoSession, SessionType
  <1>4. session' \in [Sockets -> SessionType]
    BY <1>3 DEF Crash
  <1>a. \A c \in Sockets : session'[c] = NoSession
    BY DEF Crash
  <1>b. seen' = {} /\ current' = None /\ crashes' = crashes + 1
    BY DEF Crash
  <1>c. UNCHANGED <<buffer, plugin, said, acked, log, drops, throws, wipes, reloads, renumbered>>
    BY DEF Crash, server, store
  <1>5. TypeOK'
    BY <1>0, <1>2, <1>4, <1>b, <1>c DEF TypeOK
  <1>6. ASSUME NEW c \in Sockets PROVE FrameAt(c)'
    <2>1. session'[c] = NoSession /\ wire'[c].end = "closed" /\ wire'[c].up = <<>>
      BY <1>1, <1>a
    <2>2. NoSession.at = "none" /\ NoSession.batch = {} /\ NoSession.results = {}
      BY DEF NoSession
    <2> QED BY <2>1, <2>2, <1>3 DEF FrameAt
  <1> QED BY <1>5, <1>6 DEF TypeInv, FrameInv

-----------------------------------------------------------------------------
\* The inductive invariant: the types, and which frames can be on a socket at each stage.
THEOREM TypeInvariant == Spec => []TypeInv
  <1>1. Init => TypeInv
    BY InitTyped
  <1>2. TypeInv /\ [Next]_vars => TypeInv'
    <2> SUFFICES ASSUME TypeInv, [Next]_vars PROVE TypeInv'
      OBVIOUS
    <2>1. CASE Plugin
      BY <2>1, EmitTyped, OnWelcomeTyped, OnAckTyped, OnAssignTyped, PumpTyped, NoticeTyped, DialTyped
         DEF Plugin
    <2>2. CASE \E c \in Sockets : Orchestrator(c)
      BY <2>2, GreetTyped, GreetTooLateTyped, AdmitTyped, TakeTyped, IngestTyped, PersistTyped,
         SilenceTyped DEF Orchestrator
    <2>3. CASE Network
      BY <2>3, DropAtPluginTyped, DropAtOrchestratorTyped DEF Network
    <2>4. CASE Fault
      BY <2>4, CrashTyped, ReloadTyped, WipeTyped, ThrowTyped DEF Fault
    <2>5. CASE UNCHANGED vars
      BY <2>5 DEF vars, server, store, fate, TypeInv, TypeOK, FrameInv, FrameAt
    <2> QED BY <2>1, <2>2, <2>3, <2>4, <2>5 DEF Next
  <1> QED BY <1>1, <1>2, PTL DEF Spec

\* Every variable keeps its type, and the plugin counts as welcomed on a session it has.
THEOREM TypeCorrect == Spec => []TypeOK
  <1>1. TypeInv => TypeOK
    BY DEF TypeInv
  <1> QED BY <1>1, TypeInvariant, PTL

-----------------------------------------------------------------------------
(***************************************************************************)
(* What reaches the match's log.                                           *)
(*                                                                         *)
(* The argument is over World, the events there are a copy of anywhere: in *)
(* the buffer, on a socket, in a batch, in the log. Only Emit adds to it.  *)
(* LogInv says what copies agree on, and that a count anyone keeps of what *)
(* was taken counts events of the log only.                                *)
(***************************************************************************)

\* The events of a queue up; what the answers of a queue down tell the plugin to forget.
Carried(u) == {e \in Event : \E i \in 1..Len(u) : u[i].type = "events" /\ e \in u[i].events}
Forgets(f) == IF f.type = "welcome" THEN 1..f.acked
              ELSE IF f.type = "ack" THEN f.seqs ELSE {}
Named(d)   == {n \in Nat : \E i \in 1..Len(d) : n \in Forgets(d[i])}

Entries   == {log[i] : i \in 1..Len(log)}
Copies(c) == session[c].batch \cup Carried(wire[c].up)
World     == buffer.pending \cup Entries \cup UNION {Copies(c) : c \in Sockets}

\* Copies of an event agree, and none is of an event to come.
WorldInv ==
    /\ \A e \in World : e.id \in 1..said
    /\ \A e, f \in World : e.id = f.id => e = f

\* While the process lives, the hints of the log are distinct, and seen.
SeenInv ==
    crashes = 0 =>
        /\ \A i \in 1..Len(log) : log[i].hint \in seen
        /\ \A i, k \in 1..Len(log) : log[i].hint = log[k].hint => i = k

\* While nothing that loses events happened, the three names of an event are one...
NamesInv ==
    Sound =>
        /\ \A e \in World : e.seq = e.id /\ e.hint = e.id
        /\ buffer.last = said
        /\ plugin.held => plugin.hint = said

\* ...and every count of what was taken counts events of the log.
Counts(c) ==
    /\ 1..session[c].acked \subseteq LogIds
    /\ session[c].window \subseteq LogIds
    /\ session[c].results \subseteq LogIds
    /\ Named(wire[c].down) \subseteq LogIds
CountInv ==
    Sound =>
        /\ seen \subseteq LogIds
        /\ 1..acked \subseteq LogIds
        /\ \A c \in Sockets : Counts(c)

LogInv == WorldInv /\ SeenInv /\ NamesInv /\ CountInv /\ NothingLost

-----------------------------------------------------------------------------
(* Queues.                                                                 *)

LEMMA CarriedAppend ==
  ASSUME NEW u \in Seq(Frame), NEW f \in Frame
  PROVE  Carried(Append(u, f)) \subseteq Carried(u) \cup (IF f.type = "events" THEN f.events ELSE {})
  <1> SUFFICES ASSUME NEW e \in Carried(Append(u, f)), e \notin Carried(u)
               PROVE  f.type = "events" /\ e \in f.events
    OBVIOUS
  <1>1. PICK i \in 1..Len(Append(u, f)) :
            Append(u, f)[i].type = "events" /\ e \in Append(u, f)[i].events
    BY DEF Carried
  <1>2. e \in Event
    BY DEF Carried
  <1>3. i \notin 1..Len(u)
    <2>1. ASSUME i \in 1..Len(u) PROVE e \in Carried(u)
      <3>1. Append(u, f)[i] = u[i]
        BY <2>1
      <3> QED BY <2>1, <3>1, <1>1, <1>2 DEF Carried
    <2> QED BY <2>1
  <1>4. Append(u, f)[i] = f
    BY <1>3
  <1> QED BY <1>1, <1>4

LEMMA CarriedHead ==
  ASSUME NEW u \in Seq(Frame), u # <<>>
  PROVE  /\ Carried(Tail(u)) \subseteq Carried(u)
         /\ Head(u).type = "events" => Head(u).events \subseteq Carried(u)
  <1>1. Len(u) \in Nat /\ Len(u) > 0
    BY EmptySeq
  <1>2. Len(Tail(u)) = Len(u) - 1 /\ \A i \in 1..Len(Tail(u)) : Tail(u)[i] = u[i + 1]
    BY <1>1
  <1>3. Carried(Tail(u)) \subseteq Carried(u)
    <2>1. ASSUME NEW i \in 1..Len(Tail(u)) PROVE i + 1 \in 1..Len(u)
      BY <1>1, <1>2
    <2> QED BY <2>1, <1>2 DEF Carried
  <1>4. Head(u) = u[1] /\ u[1] \in Frame /\ 1 \in 1..Len(u)
    BY <1>1
  <1>5. Head(u).type = "events" => Head(u).events \in SUBSET Event
    BY <1>4 DEF Frame
  <1> QED BY <1>3, <1>4, <1>5 DEF Carried

LEMMA CarriedSub ==
  ASSUME NEW u \in Seq(Frame), NEW n \in Nat, n <= Len(u)
  PROVE  Carried(SubSeq(u, 1, n)) \subseteq Carried(u)
  <1>1. Len(SubSeq(u, 1, n)) = n /\ \A i \in 1..n : SubSeq(u, 1, n)[i] = u[i]
    OBVIOUS
  <1>2. \A i \in 1..n : i \in 1..Len(u)
    OBVIOUS
  <1> QED BY <1>1, <1>2 DEF Carried

LEMMA CarriedNone == Carried(<<>>) = {} /\ Named(<<>>) = {}
  BY DEF Carried, Named

LEMMA NamedConcat ==
  ASSUME NEW d \in Seq(Answer), NEW m \in Seq(Answer)
  PROVE  Named(d \o m) \subseteq Named(d) \cup Named(m)
  <1> SUFFICES ASSUME NEW n \in Named(d \o m) PROVE n \in Named(d) \cup Named(m)
    OBVIOUS
  <1>1. PICK i \in 1..Len(d \o m) : n \in Forgets((d \o m)[i])
    BY DEF Named
  <1>2. /\ n \in Nat /\ i \in Nat /\ i >= 1 /\ i <= Len(d) + Len(m)
        /\ Len(d) \in Nat /\ Len(m) \in Nat
    BY DEF Named
  <1>3. CASE i <= Len(d)
    <2>1. (d \o m)[i] = d[i] /\ i \in 1..Len(d)
      BY <1>2, <1>3
    <2> QED BY <2>1, <1>1, <1>2 DEF Named
  <1>4. CASE i > Len(d)
    <2>1. (d \o m)[i] = m[i - Len(d)] /\ i - Len(d) \in 1..Len(m)
      BY <1>2, <1>4
    <2> QED BY <2>1, <1>1, <1>2 DEF Named
  <1> QED BY <1>2, <1>3, <1>4

LEMMA NamedAppend ==
  ASSUME NEW d \in Seq(Answer), NEW f \in Answer
  PROVE  Named(Append(d, f)) \subseteq Named(d) \cup Forgets(f)
  <1> SUFFICES ASSUME NEW n \in Named(Append(d, f)), n \notin Named(d)
               PROVE  n \in Forgets(f)
    OBVIOUS
  <1>1. PICK i \in 1..Len(Append(d, f)) : n \in Forgets(Append(d, f)[i])
    BY DEF Named
  <1>2. i \notin 1..Len(d)
    <2>1. ASSUME i \in 1..Len(d) PROVE n \in Named(d)
      <3>1. Append(d, f)[i] = d[i]
        BY <2>1
      <3> QED BY <2>1, <3>1, <1>1 DEF Named
    <2> QED BY <2>1
  <1>3. Append(d, f)[i] = f
    BY <1>2
  <1> QED BY <1>1, <1>3

LEMMA NamedHead ==
  ASSUME NEW d \in Seq(Answer), d # <<>>
  PROVE  /\ Named(Tail(d)) \subseteq Named(d)
         /\ Forgets(Head(d)) \subseteq Named(d)
  <1>1. Len(d) \in Nat /\ Len(d) > 0
    BY EmptySeq
  <1>2. Len(Tail(d)) = Len(d) - 1 /\ \A i \in 1..Len(Tail(d)) : Tail(d)[i] = d[i + 1]
    BY <1>1
  <1>3. Named(Tail(d)) \subseteq Named(d)
    <2>1. ASSUME NEW i \in 1..Len(Tail(d)) PROVE i + 1 \in 1..Len(d)
      BY <1>1, <1>2
    <2> QED BY <2>1, <1>2 DEF Named
  <1>4. Head(d) = d[1] /\ d[1] \in Answer /\ 1 \in 1..Len(d)
    BY <1>1
  <1>5. Forgets(d[1]) \subseteq Nat
    <2>1. CASE d[1].type = "welcome"
      BY <2>1, <1>4 DEF Forgets, Answer
    <2>2. CASE d[1].type = "ack"
      BY <2>2, <1>4 DEF Forgets, Answer
    <2> QED BY <2>1, <2>2 DEF Forgets
  <1> QED BY <1>3, <1>4, <1>5 DEF Named

-----------------------------------------------------------------------------
(* What a step that says nothing and logs nothing has to keep.             *)

LEMMA InitLog == Init => LogInv
  <1> SUFFICES ASSUME Init PROVE LogInv
    OBVIOUS
  <1>1. \A c \in Sockets : Copies(c) = {} /\ Counts(c)
    <2>1. \A c \in Sockets : session[c] = NoSession /\ wire[c] = Dead
      BY DEF Init
    <2>2. 1..0 = {}
      OBVIOUS
    <2> QED BY <2>1, <2>2, CarriedNone DEF Copies, Counts, NoSession, Dead
  <1>2. Entries = {} /\ log = <<>> /\ buffer.pending = {} /\ buffer.last = 0 /\ said = 0
    BY DEF Init, Entries
  <1>3. World = {}
    BY <1>1, <1>2 DEF World
  <1>4. WorldInv /\ SeenInv
    BY <1>2, <1>3 DEF WorldInv, SeenInv
  <1>5. NamesInv
    BY <1>2, <1>3 DEF NamesInv, Init, Unlinked
  <1>6. CountInv
    <2>1. 1..0 = {} /\ seen = {} /\ acked = 0
      BY DEF Init
    <2> QED BY <2>1, <1>1 DEF CountInv
  <1>7. NothingLost
    <2>1. 1..0 = {}
      OBVIOUS
    <2> QED BY <2>1, <1>2 DEF NothingLost, Kept
  <1> QED BY <1>4, <1>5, <1>6, <1>7 DEF LogInv

\* A socket the step leaves alone carries the same, and its counts hold.
LEMMA LeftAlone ==
  ASSUME NEW c \in Sockets, session'[c] = session[c], log' = log,
         wire'[c].up = wire[c].up, wire'[c].down = wire[c].down
  PROVE  Copies(c)' = Copies(c) /\ (Counts(c) => Counts(c)')
  BY DEF Copies, Counts, LogIds

\* No event said, none logged: copies only move, and what the plugin forgets is in the log.
LEMMA Quiet ==
  ASSUME LogInv, TypeOK, UNCHANGED <<said, log>>,
         Sound' => Sound,
         crashes' = 0 => crashes = 0 /\ seen \subseteq seen',
         buffer'.pending \subseteq buffer.pending,
         \A c \in Sockets : Copies(c)' \subseteq World,
         Sound' => \A e \in buffer.pending : e \in buffer'.pending \/ e.id \in LogIds,
         Sound' => buffer'.last = said /\ (plugin'.held => plugin'.hint = said),
         Sound' => seen' \subseteq LogIds /\ 1..acked' \subseteq LogIds,
         Sound' => \A c \in Sockets : Counts(c)'
  PROVE  LogInv'
  <1>1. World' \subseteq World
    <2>1. Entries' = Entries
      BY DEF Entries
    <2> QED BY <2>1 DEF World
  <1>2. LogIds' = LogIds
    BY DEF LogIds
  <1>3. WorldInv'
    BY <1>1 DEF LogInv, WorldInv
  <1>4. SeenInv'
    BY DEF LogInv, SeenInv
  <1>5. NamesInv'
    BY <1>1 DEF LogInv, NamesInv
  <1>6. CountInv'
    BY <1>2 DEF CountInv
  <1>7. NothingLost'
    <2> SUFFICES ASSUME Sound', NEW n \in 1..said
                 PROVE  n \in LogIds \/ \E e \in buffer'.pending : e.id = n
      BY <1>2 DEF NothingLost, Kept
    <2>1. n \in LogIds \/ \E e \in buffer.pending : e.id = n
      BY DEF LogInv, NothingLost, Kept
    <2> QED BY <2>1
  <1> QED BY <1>3, <1>4, <1>5, <1>6, <1>7 DEF LogInv

\* The same, for a step that touches neither the buffer nor what befell.
LEMMA QuietSockets ==
  ASSUME LogInv, TypeOK, UNCHANGED <<buffer, said, seen, log, crashes, throws, wipes, renumbered>>,
         plugin'.held = plugin.held, plugin'.hint = plugin.hint,
         acked' = acked \/ (Sound => 1..acked' \subseteq LogIds),
         \A c \in Sockets : Copies(c)' \subseteq World,
         Sound => \A c \in Sockets : Counts(c)'
  PROVE  LogInv'
  <1>1. Sound' = Sound
    BY DEF Sound
  <1>2. Sound => /\ buffer.last = said /\ (plugin.held => plugin.hint = said)
                 /\ seen \subseteq LogIds /\ 1..acked \subseteq LogIds
    BY DEF LogInv, NamesInv, CountInv
  <1> QED BY <1>1, <1>2, Quiet

-----------------------------------------------------------------------------
(* The plugin's steps.                                                     *)

\* The plugin takes an answer off its socket, and what it forgets for it is in the log.
LEMMA HeardNamed ==
  ASSUME TypeInv, LogInv, NEW t, Hears(t), Sound
  PROVE  /\ Forgets(Heard) \subseteq LogIds
         /\ \A e \in buffer.pending : e.seq = e.id /\ e.id \in 1..said
  <1>1. TypeOK /\ plugin.conn \in Sockets
    BY Listened DEF TypeInv
  <1>2. wire[plugin.conn].down \in Seq(Answer) /\ wire[plugin.conn].down # <<>>
    BY <1>1, Parts DEF Hears
  <1>3. Forgets(Heard) \subseteq Named(wire[plugin.conn].down)
    BY <1>2, NamedHead DEF Heard
  <1>4. Counts(plugin.conn)
    BY <1>1 DEF LogInv, CountInv
  <1>5. \A e \in buffer.pending : e \in World
    BY DEF World
  <1> QED BY <1>3, <1>4, <1>5 DEF Counts, LogInv, NamesInv, WorldInv

\* What is left of the socket once an answer was taken off it.
LEMMA HeardCounts ==
  ASSUME TypeInv, LogInv, NEW t, Hears(t), Sound, session' = session, log' = log,
         \A c \in Sockets : wire'[c].down = Listening[c].down
  PROVE  \A c \in Sockets : Counts(c)'
  <1>1. TypeOK /\ plugin.conn \in Sockets
    BY Listened DEF TypeInv
  <1>2. Listening[plugin.conn].down = Tail(wire[plugin.conn].down)
    BY <1>1, Parts DEF Listening, TypeOK, WireType
  <1>3. wire[plugin.conn].down \in Seq(Answer) /\ wire[plugin.conn].down # <<>>
    BY <1>1, Parts DEF Hears
  <1>4. Named(Tail(wire[plugin.conn].down)) \subseteq Named(wire[plugin.conn].down)
    BY <1>3, NamedHead
  <1>5. \A c \in Sockets : c # plugin.conn => Listening[c].down = wire[c].down
    BY <1>1, Listened
  <1>6. \A c \in Sockets : Counts(c)
    BY DEF LogInv, CountInv
  <1>7. \A c \in Sockets : Named(wire'[c].down) \subseteq Named(wire[c].down)
    BY <1>2, <1>4, <1>5
  <1> QED BY <1>6, <1>7 DEF Counts, LogIds

LEMMA OnWelcomeLog == TypeInv /\ LogInv /\ OnWelcome => LogInv'
  <1> SUFFICES ASSUME TypeInv, LogInv, OnWelcome PROVE LogInv'
    OBVIOUS
  <1> DEFINE owed == {e \in buffer.pending : e.seq > Heard.acked}
  <1>0. TypeOK /\ Hears("welcome") /\ plugin.conn \in Sockets
    BY Listened DEF TypeInv, OnWelcome
  <1>1. buffer'.pending = owed /\ buffer'.last = buffer.last
    BY <1>0 DEF OnWelcome, TypeOK, BufferType
  <1>2. plugin'.held = plugin.held /\ plugin'.hint = plugin.hint
    BY <1>0 DEF OnWelcome, TypeOK, PluginType
  <1>3. /\ UNCHANGED <<said, log, session, seen, acked, crashes, throws, wipes, renumbered>>
        /\ Sound' = Sound
    BY DEF OnWelcome, store, fate, Sound
  <1>4. Heard \in Answer /\ Heard.type = "welcome" /\ Heard.acked \in Nat
    <2>1. wire[plugin.conn].down \in Seq(Answer) /\ wire[plugin.conn].down # <<>>
      BY <1>0, Parts DEF Hears
    <2>2. Heard \in Answer /\ Heard.type = "welcome"
      BY <2>1, <1>0 DEF Heard, Hears
    <2> QED BY <2>2 DEF Answer
  <1>5. Sound => \A e \in buffer.pending : e \in owed \/ e.id \in LogIds
    <2> SUFFICES ASSUME Sound, NEW e \in buffer.pending, e \notin owed PROVE e.id \in LogIds
      OBVIOUS
    <2>1. Forgets(Heard) \subseteq LogIds /\ e.seq = e.id /\ e.id \in 1..said
      BY <1>0, HeardNamed
    <2>2. said \in Nat
      BY <1>0 DEF TypeOK
    <2>3. e.id \in 1..Heard.acked
      BY <2>1, <2>2, <1>4
    <2> QED BY <2>1, <2>3, <1>4 DEF Forgets
  <1>6. /\ Listening \in [Sockets -> WireType]
        /\ \A d \in Sockets : Listening[d].up = wire[d].up
    BY <1>0, Listened
  <1>7. /\ \A d \in Sockets : wire'[d].down = Listening[d].down
        /\ \A d \in Sockets : \/ wire'[d].up = wire[d].up
                              \/ wire'[d].up = Append(wire[d].up, Events(owed))
    <2>1. CASE wire' = Listening
      BY <2>1, <1>6
    <2>2. CASE wire' = [Listening EXCEPT ![plugin.conn].up = Append(@, Events(owed))]
      BY <2>2, <1>0, <1>6 DEF WireType
    <2> QED BY <2>1, <2>2 DEF OnWelcome
  <1>8. \A d \in Sockets : Copies(d)' \subseteq World
    <2> SUFFICES ASSUME NEW d \in Sockets PROVE Copies(d)' \subseteq World
      OBVIOUS
    <2>1. owed \in SUBSET Event /\ Events(owed) \in Frame /\ Events(owed).events = owed
      BY <1>0 DEF TypeOK, BufferType, Events, Frame
    <2>2. wire[d].up \in Seq(Frame)
      BY <1>0, Parts
    <2> HIDE DEF owed
    <2>3. Carried(wire'[d].up) \subseteq Carried(wire[d].up) \cup owed
      BY <2>1, <2>2, <1>7, CarriedAppend
    <2>4. owed \subseteq buffer.pending
      BY DEF owed
    <2> QED BY <2>3, <2>4, <1>3 DEF Copies, World
  <1>9. Sound => \A c \in Sockets : Counts(c)'
    BY <1>0, <1>3, <1>7, HeardCounts
  <1>10. Sound => /\ buffer.last = said /\ (plugin.held => plugin.hint = said)
                  /\ seen \subseteq LogIds /\ 1..acked \subseteq LogIds
    BY DEF LogInv, NamesInv, CountInv
  <1>11. buffer'.pending \subseteq buffer.pending
    BY <1>1
  <1> HIDE DEF owed
  <1> QED BY <1>0, <1>1, <1>2, <1>3, <1>5, <1>8, <1>9, <1>10, <1>11, Quiet

LEMMA OnAckLog == TypeInv /\ LogInv /\ OnAck => LogInv'
  <1> SUFFICES ASSUME TypeInv, LogInv, OnAck PROVE LogInv'
    OBVIOUS
  <1> DEFINE owed == {e \in buffer.pending : e.seq \notin Heard.seqs}
  <1>0. TypeOK /\ Hears("ack") /\ plugin.conn \in Sockets
    BY Listened DEF TypeInv, OnAck
  <1>1. buffer'.pending = owed /\ buffer'.last = buffer.last
    BY <1>0 DEF OnAck, TypeOK, BufferType
  <1>3. /\ UNCHANGED <<plugin, said, log, session, seen, acked, crashes, throws, wipes, renumbered>>
        /\ Sound' = Sound /\ wire' = Listening
    BY DEF OnAck, store, fate, Sound
  <1>4. Heard.type = "ack"
    BY <1>0 DEF Hears, Heard
  <1>5. Sound => \A e \in buffer.pending : e \in owed \/ e.id \in LogIds
    BY <1>0, <1>4, HeardNamed DEF Forgets
  <1>6. \A d \in Sockets : Listening[d].up = wire[d].up
    BY <1>0, Listened
  <1>8. \A d \in Sockets : Copies(d)' \subseteq World
    BY <1>3, <1>6 DEF Copies, World
  <1>9. Sound => \A c \in Sockets : Counts(c)'
    BY <1>0, <1>3, HeardCounts
  <1>10. Sound => /\ buffer.last = said /\ (plugin.held => plugin.hint = said)
                  /\ seen \subseteq LogIds /\ 1..acked \subseteq LogIds
    BY DEF LogInv, NamesInv, CountInv
  <1>11. buffer'.pending \subseteq buffer.pending
    BY <1>1
  <1> HIDE DEF owed
  <1> QED BY <1>0, <1>1, <1>3, <1>5, <1>8, <1>9, <1>10, <1>11, Quiet

LEMMA OnAssignLog == TypeInv /\ LogInv /\ OnAssign => LogInv'
  <1> SUFFICES ASSUME TypeInv, LogInv, OnAssign PROVE LogInv'
    OBVIOUS
  <1>0. TypeOK /\ Hears("assign")
    BY DEF TypeInv, OnAssign
  <1>1. /\ UNCHANGED <<buffer, said, log, session, seen, acked, crashes, throws, wipes, renumbered>>
        /\ wire' = Listening
    BY DEF OnAssign, store, fate
  <1>2. plugin'.held = plugin.held /\ plugin'.hint = plugin.hint
    BY <1>0 DEF OnAssign, TypeOK, PluginType
  <1>3. \A d \in Sockets : Listening[d].up = wire[d].up
    BY <1>0, Listened
  <1>4. \A d \in Sockets : Copies(d)' \subseteq World
    BY <1>1, <1>3 DEF Copies, World
  <1>5. Sound => \A c \in Sockets : Counts(c)'
    BY <1>0, <1>1, HeardCounts
  <1> QED BY <1>0, <1>1, <1>2, <1>4, <1>5, QuietSockets

\* Nothing is read off a socket any more; what was sent on it is still under way.
LEMMA NothingHeard ==
  ASSUME LogInv, UNCHANGED <<session, log>>,
         \A d \in Sockets : /\ wire'[d].up = wire[d].up
                            /\ wire'[d].down = wire[d].down \/ wire'[d].down = <<>>
  PROVE  /\ \A d \in Sockets : Copies(d)' \subseteq World
         /\ Sound => \A d \in Sockets : Counts(d)'
  <1>1. \A d \in Sockets : Copies(d)' \subseteq World
    BY DEF Copies, World
  <1>2. ASSUME Sound, NEW d \in Sockets PROVE Counts(d)'
    <2>1. Counts(d)
      BY <1>2 DEF LogInv, CountInv
    <2>2. Named(wire'[d].down) \subseteq Named(wire[d].down)
      BY CarriedNone
    <2> QED BY <2>1, <2>2 DEF Counts, LogIds
  <1> QED BY <1>1, <1>2

LEMMA LeftDown ==
  ASSUME TypeOK, wire' = wire \/ wire' = [wire EXCEPT ![plugin.conn].down = <<>>],
         plugin.conn \in Sockets \/ wire' = wire
  PROVE  \A d \in Sockets : /\ wire'[d].up = wire[d].up
                            /\ wire'[d].down = wire[d].down \/ wire'[d].down = <<>>
  <1>1. CASE wire' = wire
    BY <1>1
  <1>2. CASE plugin.conn \in Sockets /\ wire' = [wire EXCEPT ![plugin.conn].down = <<>>]
    <2>1. \A d \in Sockets : wire[d] \in WireType
      BY Parts
    <2> QED BY <1>2, <2>1 DEF TypeOK, WireType
  <1> QED BY <1>1, <1>2

LEMMA HangUpLog == TypeInv /\ LogInv /\ (Notice \/ DropAtPlugin) => LogInv'
  <1> SUFFICES ASSUME TypeInv, LogInv, Notice \/ DropAtPlugin PROVE LogInv'
    OBVIOUS
  <1>0. TypeOK /\ plugin.conn \in Sockets
    BY Parts DEF TypeInv, TypeOK, PluginType, Notice, DropAtPlugin
  <1>1. /\ UNCHANGED <<buffer, said, log, session, seen, acked, crashes, throws, wipes, renumbered>>
        /\ wire' = [wire EXCEPT ![plugin.conn].down = <<>>]
    BY DEF Notice, DropAtPlugin, store, fate
  <1>2. plugin'.held = plugin.held /\ plugin'.hint = plugin.hint
    BY <1>0 DEF Notice, DropAtPlugin, HangUp, TypeOK, PluginType
  <1>3. \A d \in Sockets : Copies(d)' \subseteq World
    BY <1>0, <1>1, LeftDown, NothingHeard
  <1>4. Sound => \A d \in Sockets : Counts(d)'
    BY <1>0, <1>1, LeftDown, NothingHeard
  <1> QED BY <1>0, <1>1, <1>2, <1>3, <1>4, QuietSockets

\* A reload keeps the buffer and forgets the match; a wipe is one of the losses.
LEMMA RestartedLog == TypeInv /\ LogInv /\ (Reload \/ Wipe) => LogInv'
  <1> SUFFICES ASSUME TypeInv, LogInv, Reload \/ Wipe PROVE LogInv'
    OBVIOUS
  <1>0. TypeOK
    BY DEF TypeInv
  <1>1. /\ UNCHANGED <<said, log, session, seen, acked, crashes, throws, renumbered>>
        /\ plugin' = Unlinked
        /\ wire' = IF plugin.conn = None THEN wire
                   ELSE [wire EXCEPT ![plugin.conn].down = <<>>]
    BY DEF Reload, Wipe, Restarted, store
  <1>2. \A d \in Sockets : /\ wire'[d].up = wire[d].up
                           /\ wire'[d].down = wire[d].down \/ wire'[d].down = <<>>
    <2>1. plugin.conn \in Sockets \cup {None}
      BY <1>0 DEF TypeOK, PluginType
    <2> QED BY <2>1, <1>0, <1>1, LeftDown
  <1>3. /\ \A d \in Sockets : Copies(d)' \subseteq World
        /\ Sound => \A d \in Sockets : Counts(d)'
    BY <1>1, <1>2, NothingHeard
  <1>4. Sound => buffer.last = said /\ seen \subseteq LogIds /\ 1..acked \subseteq LogIds
    BY DEF LogInv, NamesInv, CountInv
  <1>5. ~plugin'.held
    BY <1>1 DEF Unlinked
  <1>6. CASE Reload
    <2>1. buffer' = buffer /\ Sound' = Sound
      BY <1>6, <1>1 DEF Reload, Sound
    <2> QED BY <2>1, <1>0, <1>1, <1>3, <1>4, <1>5, Quiet
  <1>7. CASE Wipe
    <2>1. ~Sound' /\ buffer'.pending = {}
      BY <1>7, <1>0 DEF Wipe, Sound, TypeOK
    <2> QED BY <2>1, <1>0, <1>1, <1>3, Quiet
  <1> QED BY <1>6, <1>7

\* An assignment restarts the hints: of a match that has said nothing yet, or it is a loss.
LEMMA PumpLog == TypeInv /\ LogInv /\ Pump => LogInv'
  <1> SUFFICES ASSUME TypeInv, LogInv, Pump PROVE LogInv'
    OBVIOUS
  <1>0. TypeOK
    BY DEF TypeInv
  <1>1. /\ UNCHANGED <<buffer, said, log, wire, session, seen, acked, crashes, throws, wipes>>
        /\ renumbered' = (renumbered \/ said > 0)
    BY DEF Pump, store
  <1>2. plugin'.hint = 0
    BY <1>0 DEF Pump, TypeOK, PluginType
  <1>3. Sound' => Sound /\ said = 0
    <2>1. ~(said > 0) => said = 0
      BY <1>0 DEF TypeOK
    <2>2. ~renumbered' => ~renumbered /\ ~(said > 0)
      BY <1>1, Zenon
    <2> QED BY <2>1, <2>2, <1>1, Zenon DEF Sound
  <1>4. /\ \A d \in Sockets : Copies(d)' \subseteq World
        /\ Sound => \A d \in Sockets : Counts(d)'
    BY <1>1, NothingHeard
  <1>5. Sound => buffer.last = said /\ seen \subseteq LogIds /\ 1..acked \subseteq LogIds
    BY DEF LogInv, NamesInv, CountInv
  <1> QED BY <1>0, <1>1, <1>2, <1>3, <1>4, <1>5, Quiet

LEMMA DialLog == ASSUME NEW c \in Sockets PROVE TypeInv /\ LogInv /\ Dial(c) => LogInv'
  <1> SUFFICES ASSUME TypeInv, LogInv, Dial(c) PROVE LogInv'
    OBVIOUS
  <1> DEFINE u == <<Hello(buffer.last, plugin.held)>>
  <1>0. TypeOK
    BY DEF TypeInv
  <1>1. UNCHANGED <<buffer, said, log, seen, acked, crashes, throws, wipes, renumbered>>
    BY DEF Dial, store, fate
  <1>2. plugin'.held = plugin.held /\ plugin'.hint = plugin.hint
    BY <1>0 DEF Dial, TypeOK, PluginType
  <1>3. /\ wire'[c].up = u /\ wire'[c].down = <<>> /\ session'[c] = NoSession
        /\ \A d \in Sockets : d # c => wire'[d] = wire[d] /\ session'[d] = session[d]
    BY <1>0 DEF Dial, TypeOK
  <1>4. Carried(u) = {}
    <2>1. \A i \in 1..Len(u) : u[i].type = "hello"
      BY DEF Hello
    <2> HIDE DEF u
    <2> QED BY <2>1 DEF Carried
  <1>5. \A d \in Sockets : Copies(d)' \subseteq World
    BY <1>3, <1>4 DEF Copies, World, NoSession
  <1>6. ASSUME Sound, NEW d \in Sockets PROVE Counts(d)'
    <2>1. CASE d = c
      <3>1. 1..0 = {}
        OBVIOUS
      <3> QED BY <3>1, <2>1, <1>3, CarriedNone DEF Counts, NoSession
    <2>2. CASE d # c
      BY <2>2, <1>1, <1>3, <1>6, LeftAlone DEF LogInv, CountInv
    <2> QED BY <2>1, <2>2
  <1> QED BY <1>0, <1>1, <1>2, <1>5, <1>6, QuietSockets

-----------------------------------------------------------------------------
(* The orchestrator's steps, and what befalls the link.                    *)

LEMMA GreetLog == ASSUME NEW c \in Sockets PROVE TypeInv /\ LogInv /\ Greet(c) => LogInv'
  <1> SUFFICES ASSUME TypeInv, LogInv, Greet(c) PROVE LogInv'
    OBVIOUS
  <1>0. TypeOK /\ TypeOK'
    BY GreetTyped DEF TypeInv
  <1>1. /\ UNCHANGED <<buffer, plugin, said, log, seen, acked, crashes, throws, wipes, renumbered>>
        /\ wire[c].up # <<>>
    BY DEF Greet, server, store, fate
  <1>2. Tail(wire[c].up) \in Seq(Frame) /\ Carried(Tail(wire[c].up)) \subseteq Carried(wire[c].up)
    <2>1. wire[c].up \in Seq(Frame)
      BY <1>0, Parts
    <2> QED BY <2>1, <1>0, <1>1, TakenUp, CarriedHead
  <1>3. PICK w : w = WithUp(c, Tail(wire[c].up))
    OBVIOUS
  <1>4. /\ w \in [Sockets -> WireType]
        /\ w[c].up = Tail(wire[c].up)
        /\ \A d \in Sockets : w[d].down = wire[d].down
        /\ \A d \in Sockets : d # c => w[d].up = wire[d].up
    BY <1>0, <1>2, <1>3, UpSet, ZenonT(40)
  <1>5. \A d \in Sockets : wire'[d].up = w[d].up /\ wire'[d].down = w[d].down
    <2>1. CASE current = None
      BY <2>1, <1>3, <1>4 DEF Greet, WithUp
    <2>2. CASE current # None
      <3>1. current \in Sockets
        BY <2>2, <1>0 DEF TypeOK
      <3>2. wire' = Closing(w, current)
        BY <2>2, <1>3 DEF Greet, WithUp
      <3> QED BY <3>1, <3>2, <1>4, ClosingSet
    <2> QED BY <2>1, <2>2
  <1>6. /\ session'[c].batch = {} /\ session'[c].window = {} /\ session'[c].results = {}
        /\ session'[c].acked = ResumeAt(Head(wire[c].up).last)
        /\ \A d \in Sockets : d # c => session'[d] = session[d]
    BY <1>0 DEF Greet, TypeOK, NoSession
  <1>7. 1..session'[c].acked \subseteq 1..acked
    <2>1. session'[c].acked \in Nat /\ acked \in Nat
      BY <1>0 DEF TypeOK, SessionType
    <2>2. session'[c].acked = acked \/ acked >= session'[c].acked
      BY <2>1, <1>6 DEF ResumeAt, Lower
    <2> QED BY <2>1, <2>2
  <1>8. \A d \in Sockets : Copies(d)' \subseteq World
    BY <1>2, <1>4, <1>5, <1>6 DEF Copies, World
  <1>9. ASSUME Sound, NEW d \in Sockets PROVE Counts(d)'
    <2>1. Counts(d) /\ 1..acked \subseteq LogIds /\ LogIds' = LogIds
      BY <1>1, <1>9 DEF LogInv, CountInv, LogIds
    <2>2. wire'[d].down = wire[d].down
      BY <1>4, <1>5
    <2>3. CASE d = c
      BY <2>1, <2>2, <2>3, <1>6, <1>7 DEF Counts
    <2>4. CASE d # c
      BY <2>1, <2>2, <2>4, <1>6 DEF Counts
    <2> QED BY <2>3, <2>4
  <1> QED BY <1>0, <1>1, <1>8, <1>9, QuietSockets

\* The queue up of a socket is cut short, or its end closes.
LEMMA LostLog ==
  ASSUME NEW c \in Sockets, NEW n \in 0..Len(wire[c].up)
  PROVE  TypeInv /\ LogInv /\ (GreetTooLate(c) \/ DropAtOrchestrator(c, n) \/ Silence(c)) => LogInv'
  <1> SUFFICES ASSUME TypeInv, LogInv, GreetTooLate(c) \/ DropAtOrchestrator(c, n) \/ Silence(c)
               PROVE LogInv'
    OBVIOUS
  <1>0. TypeOK
    BY DEF TypeInv
  <1>1. UNCHANGED <<buffer, plugin, said, log, session, seen, acked, crashes, throws, wipes, renumbered>>
    BY DEF GreetTooLate, DropAtOrchestrator, Silence, server, store, fate
  <1>2. wire[c].up \in Seq(Frame) /\ n \in Nat /\ n <= Len(wire[c].up)
    <2>1. wire[c].up \in Seq(Frame)
      BY <1>0, Parts
    <2>2. Len(wire[c].up) \in Nat
      BY <2>1
    <2> QED BY <2>1, <2>2
  <1>3. Carried(SubSeq(wire[c].up, 1, n)) \subseteq Carried(wire[c].up)
    BY <1>2, CarriedSub
  <1>4. \A d \in Sockets : wire[d] \in WireType
    BY <1>0, Parts
  <1>5. \A d \in Sockets : wire'[d].down = wire[d].down /\ Carried(wire'[d].up) \subseteq Carried(wire[d].up)
    <2>1. CASE GreetTooLate(c)
      <3>1. \A d \in Sockets : /\ wire'[d].down = wire[d].down
                               /\ wire'[d].up = wire[d].up \/ wire'[d].up = <<>>
        BY <2>1, <1>0, <1>4 DEF GreetTooLate, TypeOK, WireType
      <3> QED BY <3>1, CarriedNone
    <2>2. CASE DropAtOrchestrator(c, n)
      <3>1. wire' = [wire EXCEPT ![c] = [wire[c] EXCEPT !.end = "closed",
                                                        !.up = SubSeq(wire[c].up, 1, n)]]
        BY <2>2, Zenon DEF DropAtOrchestrator
      <3>2. \A d \in Sockets : /\ wire'[d].down = wire[d].down
                               /\ \/ wire'[d].up = wire[d].up
                                  \/ d = c /\ wire'[d].up = SubSeq(wire[c].up, 1, n)
        BY <3>1, <1>0, <1>4 DEF TypeOK, WireType
      <3> QED BY <3>2, <1>3
    <2>3. CASE Silence(c)
      <3>1. \A d \in Sockets : wire'[d].down = wire[d].down /\ wire'[d].up = wire[d].up
        BY <2>3, <1>0, <1>4 DEF Silence, TypeOK, WireType
      <3> QED BY <3>1
    <2> QED BY <2>1, <2>2, <2>3
  <1>6. \A d \in Sockets : Copies(d)' \subseteq World
    BY <1>1, <1>5 DEF Copies, World
  <1>7. ASSUME Sound, NEW d \in Sockets PROVE Counts(d)'
    BY <1>1, <1>5, <1>7 DEF LogInv, CountInv, Counts, LogIds
  <1> QED BY <1>0, <1>1, <1>6, <1>7, QuietSockets

LEMMA TakeLog == ASSUME NEW c \in Sockets PROVE TypeInv /\ LogInv /\ Take(c) => LogInv'
  <1> SUFFICES ASSUME TypeInv, LogInv, Take(c) PROVE LogInv'
    OBVIOUS
  <1>0. TypeOK /\ FrameInv
    BY DEF TypeInv
  <1>1. /\ UNCHANGED <<buffer, plugin, said, log, seen, acked, crashes, throws, wipes, renumbered>>
        /\ wire[c].up # <<>> /\ session[c].at = "ready"
    BY DEF Take, server, store, fate
  <1>2. wire[c].up \in Seq(Frame)
    BY <1>0, Parts
  <1>3. Head(wire[c].up).type = "events"
    <2>1. Head(wire[c].up) = wire[c].up[1] /\ 1 \in 1..Len(wire[c].up)
      BY <1>1, <1>2
    <2> QED BY <2>1, <1>0, <1>1 DEF FrameInv, FrameAt
  <1>4. /\ Carried(Tail(wire[c].up)) \subseteq Carried(wire[c].up)
        /\ Head(wire[c].up).events \subseteq Carried(wire[c].up)
    BY <1>1, <1>2, <1>3, CarriedHead
  <1>5. \A d \in Sockets : wire[d] \in WireType /\ session[d] \in SessionType
    BY <1>0, Parts
  <1>6. /\ wire'[c].up = Tail(wire[c].up)
        /\ \A d \in Sockets : wire'[d].down = wire[d].down /\ (d # c => wire'[d].up = wire[d].up)
    BY <1>0, <1>5 DEF Take, TypeOK, WireType
  <1>7. /\ session'[c].batch = Head(wire[c].up).events
        /\ \A d \in Sockets : /\ d # c => session'[d] = session[d]
                              /\ session'[d].acked = session[d].acked
                              /\ session'[d].window = session[d].window
                              /\ session'[d].results = session[d].results
    BY <1>0, <1>5 DEF Take, TypeOK, SessionType
  <1>8. \A d \in Sockets : Copies(d)' \subseteq World
    BY <1>4, <1>6, <1>7 DEF Copies, World
  <1>9. ASSUME Sound, NEW d \in Sockets PROVE Counts(d)'
    <2>1. Counts(d) /\ LogIds' = LogIds
      BY <1>1, <1>9 DEF LogInv, CountInv, LogIds
    <2> QED BY <2>1, <1>6, <1>7 DEF Counts
  <1> QED BY <1>0, <1>1, <1>8, <1>9, QuietSockets

LEMMA AdmitLog == ASSUME NEW c \in Sockets PROVE TypeInv /\ LogInv /\ Admit(c) => LogInv'
  <1> SUFFICES ASSUME TypeInv, LogInv, Admit(c) PROVE LogInv'
    OBVIOUS
  <1> DEFINE wel == Welcome(session[c].acked)
  <1>0. TypeOK
    BY DEF TypeInv
  <1>1. /\ UNCHANGED <<buffer, plugin, said, log, seen, crashes, throws, wipes, renumbered>>
        /\ acked' = session[c].acked
    BY DEF Admit, server, fate
  <1>2. wire[c].down \in Seq(Answer) /\ session[c].acked \in Nat
    BY <1>0, Parts
  <1>3. wel \in Answer /\ Assign \in Answer
    BY <1>2 DEF Welcome, Assign, Answer
  <1>4. Forgets(wel) = 1..session[c].acked /\ Forgets(Assign) = {}
    BY DEF Forgets, Welcome, Assign
  <1>5. \A d \in Sockets : wire[d] \in WireType /\ session[d] \in SessionType
    BY <1>0, Parts
  <1>6. /\ \A d \in Sockets : wire'[d].up = wire[d].up /\ (d # c => wire'[d].down = wire[d].down)
        /\ \/ wire'[c].down = wire[c].down
           \/ wire'[c].down = wire[c].down \o <<wel>>
           \/ wire'[c].down = wire[c].down \o <<wel, Assign>>
    <2> DEFINE u == IF wire[c].end # "open" THEN wire[c].down
                    ELSE wire[c].down \o (IF session[c].held THEN <<wel>> ELSE <<wel, Assign>>)
    <2>1. wire' = [wire EXCEPT ![c].down = u]
      BY DEF Admit
    <2>2. \/ u = wire[c].down \/ u = wire[c].down \o <<wel>> \/ u = wire[c].down \o <<wel, Assign>>
      BY Zenon
    <2> HIDE DEF u
    <2>3. /\ \A d \in Sockets : wire'[d].up = wire[d].up /\ (d # c => wire'[d].down = wire[d].down)
          /\ wire'[c].down = u
      BY <2>1, <1>0, <1>5 DEF TypeOK, WireType
    <2> QED BY <2>2, <2>3
  <1>7. Named(wire'[c].down) \subseteq Named(wire[c].down) \cup 1..session[c].acked
    <2>1. <<wel>> \in Seq(Answer) /\ <<wel, Assign>> \in Seq(Answer)
      BY <1>3
    <2>2. Named(<<wel>>) \subseteq Forgets(wel)
      BY DEF Named
    <2>3. Named(<<wel, Assign>>) \subseteq Forgets(wel) \cup Forgets(Assign)
      BY DEF Named
    <2> HIDE DEF wel
    <2>4. /\ Named(wire[c].down \o <<wel>>) \subseteq Named(wire[c].down) \cup Named(<<wel>>)
          /\ Named(wire[c].down \o <<wel, Assign>>)
                 \subseteq Named(wire[c].down) \cup Named(<<wel, Assign>>)
      BY <2>1, <1>2, NamedConcat
    <2> QED BY <2>2, <2>3, <2>4, <1>4, <1>6
  <1>8. \A d \in Sockets : /\ session'[d].batch = session[d].batch
                           /\ session'[d].acked = session[d].acked
                           /\ session'[d].window = session[d].window
                           /\ session'[d].results = session[d].results
    BY <1>0, <1>5 DEF Admit, TypeOK, SessionType
  <1>9. \A d \in Sockets : Copies(d)' \subseteq World
    BY <1>6, <1>8 DEF Copies, World
  <1>10. ASSUME Sound, NEW d \in Sockets PROVE Counts(d)'
    <2>1. Counts(d) /\ LogIds' = LogIds
      BY <1>1, <1>10 DEF LogInv, CountInv, LogIds
    <2>2. CASE d = c
      BY <2>1, <2>2, <1>7, <1>8 DEF Counts
    <2>3. CASE d # c
      BY <2>1, <2>3, <1>6, <1>8 DEF Counts
    <2> QED BY <2>2, <2>3
  <1>11. Sound => 1..acked' \subseteq LogIds
    BY <1>1 DEF LogInv, CountInv, Counts
  <1> QED BY <1>0, <1>1, <1>9, <1>10, <1>11, QuietSockets

LEMMA PersistLog == ASSUME NEW c \in Sockets PROVE TypeInv /\ LogInv /\ Persist(c) => LogInv'
  <1> SUFFICES ASSUME TypeInv, LogInv, Persist(c) PROVE LogInv'
    OBVIOUS
  <1> DEFINE ack == Ack(session[c].results)
  <1>0. TypeOK
    BY DEF TypeInv
  <1>1. /\ UNCHANGED <<buffer, plugin, said, log, seen, crashes, throws, wipes, renumbered>>
        /\ acked' = session[c].acked
    BY DEF Persist, server, fate
  <1>2. wire[c].down \in Seq(Answer) /\ ack \in Answer
    BY <1>0, Parts DEF Ack, Answer
  <1>3. Forgets(ack) = session[c].results
    BY DEF Forgets, Ack
  <1>5. \A d \in Sockets : wire[d] \in WireType /\ session[d] \in SessionType
    BY <1>0, Parts
  <1>6. /\ \A d \in Sockets : wire'[d].up = wire[d].up /\ (d # c => wire'[d].down = wire[d].down)
        /\ \/ wire'[c].down = wire[c].down
           \/ wire'[c].down = Append(wire[c].down, ack)
    <2> DEFINE u == IF wire[c].end = "open" THEN Append(wire[c].down, ack) ELSE wire[c].down
    <2>1. wire' = [wire EXCEPT ![c].down = u]
      BY DEF Persist, SendDown
    <2>2. u = wire[c].down \/ u = Append(wire[c].down, ack)
      BY Zenon
    <2> HIDE DEF u
    <2>3. /\ \A d \in Sockets : wire'[d].up = wire[d].up /\ (d # c => wire'[d].down = wire[d].down)
          /\ wire'[c].down = u
      BY <2>1, <1>0, <1>5 DEF TypeOK, WireType
    <2> QED BY <2>2, <2>3
  <1>7. Named(wire'[c].down) \subseteq Named(wire[c].down) \cup session[c].results
    BY <1>2, <1>3, <1>6, NamedAppend
  <1>8. \A d \in Sockets : /\ session'[d].batch = session[d].batch
                           /\ session'[d].acked = session[d].acked
                           /\ session'[d].window = session[d].window
                           /\ session'[d].results = session[d].results \/ session'[d].results = {}
    BY <1>0, <1>5 DEF Persist, TypeOK, SessionType
  <1>9. \A d \in Sockets : Copies(d)' \subseteq World
    BY <1>6, <1>8 DEF Copies, World
  <1>10. ASSUME Sound, NEW d \in Sockets PROVE Counts(d)'
    <2>1. Counts(d) /\ LogIds' = LogIds
      BY <1>1, <1>10 DEF LogInv, CountInv, LogIds
    <2>2. CASE d = c
      BY <2>1, <2>2, <1>7, <1>8 DEF Counts
    <2>3. CASE d # c
      BY <2>1, <2>3, <1>6, <1>8 DEF Counts
    <2> QED BY <2>2, <2>3
  <1>11. Sound => 1..acked' \subseteq LogIds
    BY <1>1 DEF LogInv, CountInv, Counts
  <1> QED BY <1>0, <1>1, <1>9, <1>10, <1>11, QuietSockets

LEMMA CrashLog == TypeInv /\ LogInv /\ Crash => LogInv'
  <1> SUFFICES ASSUME TypeInv, LogInv, Crash PROVE LogInv'
    OBVIOUS
  <1>0. TypeOK
    BY DEF TypeInv
  <1>1. /\ UNCHANGED <<buffer, plugin, said, acked, log, throws, wipes, renumbered>>
        /\ seen' = {} /\ crashes' = crashes + 1
    BY DEF Crash, server, store
  <1>a. crashes' # 0 /\ Sound' = Sound
    <2>1. crashes \in Nat
      BY <1>0 DEF TypeOK
    <2>2. Sound' = Sound
      BY <1>1 DEF Sound
    <2> QED BY <2>1, <2>2, <1>1
  <1>2. \A d \in Sockets : wire'[d].up = <<>> /\ wire'[d].down = wire[d].down
    <2>1. \A d \in Sockets : wire[d] \in WireType
      BY <1>0, Parts
    <2> QED BY <2>1 DEF Crash, WireType
  <1>3. \A d \in Sockets : session'[d] = NoSession
    BY DEF Crash
  <1>4. \A d \in Sockets : Copies(d)' \subseteq World
    BY <1>2, <1>3, CarriedNone DEF Copies, NoSession
  <1>5. ASSUME Sound, NEW d \in Sockets PROVE Counts(d)'
    <2>1. Counts(d) /\ LogIds' = LogIds
      BY <1>1, <1>5 DEF LogInv, CountInv, LogIds
    <2>2. 1..0 = {}
      OBVIOUS
    <2> QED BY <2>1, <2>2, <1>2, <1>3 DEF Counts, NoSession
  <1>6. Sound => /\ buffer.last = said /\ (plugin.held => plugin.hint = said)
                 /\ 1..acked \subseteq LogIds
    BY DEF LogInv, NamesInv, CountInv
  <1> QED BY <1>0, <1>1, <1>a, <1>4, <1>5, <1>6, Quiet

\* A store that throws loses the event: nothing but the copies is asked about from then on.
LEMMA ThrowLog == ASSUME NEW c \in Sockets PROVE TypeInv /\ LogInv /\ Throw(c) => LogInv'
  <1> SUFFICES ASSUME TypeInv, LogInv, Throw(c) PROVE LogInv'
    OBVIOUS
  <1>0. TypeOK
    BY DEF TypeInv
  <1>1. /\ UNCHANGED <<buffer, plugin, said, acked, log, crashes>>
        /\ seen \subseteq seen' /\ ~Sound'
    BY <1>0 DEF Throw, server, store, Sound, TypeOK
  <1>2. \A d \in Sockets : wire'[d].up = wire[d].up
    BY <1>0, ClosingSet DEF Throw, TypeOK
  <1>3. \A d \in Sockets : session'[d].batch \subseteq session[d].batch
    <2>1. \A d \in Sockets : session[d] \in SessionType
      BY <1>0, Parts
    <2> QED BY <2>1, <1>0 DEF Throw, TypeOK, SessionType
  <1>4. \A d \in Sockets : Copies(d)' \subseteq World
    BY <1>2, <1>3 DEF Copies, World
  <1> QED BY <1>0, <1>1, <1>4, Quiet

-----------------------------------------------------------------------------
(* An event is said, and an event is taken.                                *)

LEMMA EmitLog == TypeInv /\ LogInv /\ Emit => LogInv'
  <1> SUFFICES ASSUME TypeInv, LogInv, Emit PROVE LogInv'
    OBVIOUS
  <1> DEFINE e == [seq |-> buffer.last + 1, hint |-> plugin.hint + 1, id |-> said + 1]
  <1>0. TypeOK /\ said \in Nat /\ buffer.last \in Nat /\ plugin.hint \in Nat
    BY DEF TypeInv, TypeOK, BufferType, PluginType
  <1>1. /\ UNCHANGED <<log, session, seen, acked, crashes, throws, wipes, renumbered>>
        /\ said' = said + 1 /\ plugin.held
        /\ buffer'.last = buffer.last + 1 /\ buffer'.pending = buffer.pending \cup {e}
        /\ Sound' = Sound
    BY DEF Emit, store, fate, Sound
  <1>2. plugin'.hint = plugin.hint + 1
    BY <1>0 DEF Emit, TypeOK, PluginType
  <1>3. e \in Event /\ e.seq = buffer.last + 1 /\ e.hint = plugin.hint + 1 /\ e.id = said + 1
    BY <1>0 DEF Event
  <1> HIDE DEF e
  <1>4. \A d \in Sockets : /\ wire'[d].down = wire[d].down
                           /\ \/ wire'[d].up = wire[d].up
                              \/ wire'[d].up = Append(wire[d].up, Events({e}))
    <2>1. \A d \in Sockets : wire[d] \in WireType
      BY <1>0, Parts
    <2>2. CASE plugin.welcomed
      <3>1. wire' = [wire EXCEPT ![plugin.conn].up =
                         IF wire[plugin.conn].end = "closed" THEN @ ELSE Append(@, Events({e}))]
        BY <2>2 DEF Emit, SendUp, e
      <3>2. plugin.conn \in Sockets
        BY <2>2, <1>0 DEF TypeOK, PluginType
      <3> QED BY <3>1, <3>2, <2>1, <1>0 DEF TypeOK, WireType
    <2>3. CASE ~plugin.welcomed
      BY <2>3 DEF Emit
    <2> QED BY <2>2, <2>3
  <1>5. World' \subseteq World \cup {e}
    <2>1. ASSUME NEW d \in Sockets PROVE Copies(d)' \subseteq World \cup {e}
      <3>1. Events({e}) \in Frame /\ Events({e}).events = {e}
        BY <1>3 DEF Events, Frame
      <3>2. wire[d].up \in Seq(Frame)
        BY <1>0, Parts
      <3>3. Carried(wire'[d].up) \subseteq Carried(wire[d].up) \cup {e}
        BY <3>1, <3>2, <1>4, CarriedAppend
      <3> QED BY <3>3, <1>1 DEF Copies, World
    <2>2. Entries' = Entries
      BY <1>1 DEF Entries
    <2>3. World' = buffer'.pending \cup Entries' \cup UNION {Copies(c)' : c \in Sockets}
      BY DEF World
    <2> QED BY <2>1, <2>2, <2>3, <1>1 DEF World
  <1>6. \A f \in World : f.id \in 1..said
    BY DEF LogInv, WorldInv
  <1>7. WorldInv'
    <2>1. \A f \in World : f.id \in 1..said' /\ f.id # e.id
      BY <1>0, <1>1, <1>3, <1>6
    <2>2. e.id \in 1..said'
      BY <1>0, <1>1, <1>3
    <2>3. \A f, g \in World : f.id = g.id => f = g
      BY DEF LogInv, WorldInv
    <2> QED BY <2>1, <2>2, <2>3, <1>5 DEF WorldInv
  <1>8. SeenInv'
    BY <1>1 DEF LogInv, SeenInv
  <1>9. NamesInv'
    <2> SUFFICES ASSUME Sound
                 PROVE  /\ \A f \in World \cup {e} : f.seq = f.id /\ f.hint = f.id
                        /\ buffer'.last = said' /\ plugin'.hint = said'
      BY <1>1, <1>5 DEF NamesInv
    <2>1. /\ \A f \in World : f.seq = f.id /\ f.hint = f.id
          /\ buffer.last = said /\ plugin.hint = said
      BY <1>1 DEF LogInv, NamesInv
    <2> QED BY <2>1, <1>1, <1>2, <1>3
  <1>10. CountInv'
    <2>1. LogIds' = LogIds
      BY <1>1 DEF LogIds
    <2>2. ASSUME Sound PROVE \A c \in Sockets : Counts(c)'
      <3>1. \A c \in Sockets : Counts(c)
        BY <2>2 DEF LogInv, CountInv
      <3> QED BY <3>1, <2>1, <1>1, <1>4 DEF Counts
    <2> QED BY <2>1, <2>2, <1>1 DEF LogInv, CountInv
  <1>11. NothingLost'
    <2> SUFFICES ASSUME Sound, NEW n \in 1..said'
                 PROVE  n \in LogIds \/ \E f \in buffer'.pending : f.id = n
      BY <1>1 DEF NothingLost, Kept, LogIds
    <2>1. n \in 1..said \/ n = e.id
      BY <1>0, <1>1, <1>3
    <2>2. n \in 1..said => n \in LogIds \/ \E f \in buffer.pending : f.id = n
      BY DEF LogInv, NothingLost, Kept
    <2> QED BY <2>1, <2>2, <1>1
  <1> QED BY <1>7, <1>8, <1>9, <1>10, <1>11 DEF LogInv

LEMMA IngestLog == ASSUME NEW c \in Sockets PROVE TypeInv /\ LogInv /\ Ingest(c) => LogInv'
  <1> SUFFICES ASSUME TypeInv, LogInv, Ingest(c) PROVE LogInv'
    OBVIOUS
  <1> DEFINE e == Least(session[c].batch)
             rest == [session[c] EXCEPT !.batch = @ \ {e}, !.results = @ \cup {e.seq}]
             new == ~Taken(session[c], e.seq) /\ e.hint \notin seen
             s == IF Taken(session[c], e.seq) THEN rest ELSE Advanced(rest, e.seq)
  <1>0. TypeOK /\ FrameInv /\ session[c] \in SessionType
    BY Parts DEF TypeInv
  <1>1. /\ UNCHANGED <<buffer, plugin, said, wire, acked, crashes, throws, wipes, renumbered>>
        /\ session' = [session EXCEPT ![c] = s]
        /\ seen' = IF new THEN seen \cup {e.hint} ELSE seen
        /\ log' = IF new THEN Append(log, e) ELSE log
        /\ session[c].batch # {}
        /\ Sound' = Sound
    BY DEF Ingest, server, fate, Sound
  <1>2. e \in session[c].batch /\ e \in Event
    <2>1. session[c].batch \in SUBSET Event
      BY <1>0 DEF SessionType
    <2> QED BY <2>1, <1>1, LeastEvent
  <1> HIDE DEF e
  <1>3. e.seq \in Nat /\ IsFiniteSet(session[c].window) /\ log \in Seq(Event)
    BY <1>0, <1>2 DEF Event, FrameInv, FrameAt, TypeOK
  <1>4. /\ rest \in SessionType /\ rest.acked = session[c].acked /\ rest.window = session[c].window
        /\ rest.batch \subseteq session[c].batch /\ rest.results = session[c].results \cup {e.seq}
    BY <1>0, <1>3 DEF SessionType
  <1>5. /\ s.batch \subseteq session[c].batch
        /\ s.results \subseteq session[c].results \cup {e.seq}
        /\ s.window \subseteq session[c].window \cup {e.seq}
        /\ \A n \in 1..s.acked : n \in 1..session[c].acked \/ n \in session[c].window \cup {e.seq}
    <2> HIDE DEF rest
    <2>1. CASE Taken(session[c], e.seq)
      BY <2>1, <1>4
    <2>2. CASE ~Taken(session[c], e.seq)
      BY <2>2, <1>3, <1>4, AdvancedTyped
    <2> QED BY <2>1, <2>2
  <1> HIDE DEF s
  <1>6. session'[c] = s /\ \A d \in Sockets : d # c => session'[d] = session[d]
    BY <1>0, <1>1 DEF TypeOK
  <1>7. e \in World
    BY <1>2 DEF World, Copies
  <1>8. /\ \A i \in 1..Len(log) : log'[i] = log[i] /\ i \in 1..Len(log')
        /\ ~new => Len(log') = Len(log)
        /\ new => Len(log') = Len(log) + 1 /\ log'[Len(log) + 1] = e /\ Len(log') \in 1..Len(log')
    <2>1. CASE new
      BY <2>1, <1>1, <1>2, <1>3
    <2>2. CASE ~new
      BY <2>2, <1>1
    <2> QED BY <2>1, <2>2
  <1>a. Len(log) \in Nat
    BY <1>3
  <1>b. \A i \in 1..Len(log') : i \in 1..Len(log) \/ (new /\ i = Len(log) + 1)
    BY <1>8, <1>a
  <1>9. Entries' \subseteq Entries \cup {e}
    BY <1>8, <1>b DEF Entries
  <1>10. LogIds \subseteq LogIds' /\ (new => e.id \in LogIds')
    <2>1. LogIds \subseteq LogIds'
      BY <1>8 DEF LogIds
    <2>2. ASSUME new PROVE e.id \in LogIds'
      BY <2>2, <1>8 DEF LogIds
    <2> QED BY <2>1, <2>2
  <1>11. World' \subseteq World
    <2>1. ASSUME NEW d \in Sockets PROVE Copies(d)' \subseteq World
      BY <1>1, <1>5, <1>6 DEF Copies, World
    <2>2. World' = buffer'.pending \cup Entries' \cup UNION {Copies(d)' : d \in Sockets}
      BY DEF World
    <2> QED BY <2>1, <2>2, <1>1, <1>7, <1>9 DEF World
  <1>12. WorldInv'
    BY <1>1, <1>11 DEF LogInv, WorldInv
  <1>13. SeenInv'
    <2> SUFFICES ASSUME crashes = 0
                 PROVE  /\ \A i \in 1..Len(log') : log'[i].hint \in seen'
                        /\ \A i, k \in 1..Len(log') : log'[i].hint = log'[k].hint => i = k
      BY <1>1 DEF SeenInv
    <2>1. /\ \A i \in 1..Len(log) : log[i].hint \in seen
          /\ \A i, k \in 1..Len(log) : log[i].hint = log[k].hint => i = k
      BY DEF LogInv, SeenInv
    <2>2. new => e.hint \notin seen /\ e.hint \in seen'
      BY <1>1
    <2>3. seen \subseteq seen'
      BY <1>1
    <2> HIDE DEF new
    <2>4. ASSUME NEW i \in 1..Len(log') PROVE log'[i].hint \in seen'
      BY <2>1, <2>2, <2>3, <1>8, <1>b
    <2>5. ASSUME NEW i \in 1..Len(log'), NEW k \in 1..Len(log'), log'[i].hint = log'[k].hint
          PROVE  i = k
      BY <2>1, <2>2, <2>5, <1>8, <1>b
    <2> QED BY <2>4, <2>5
  <1>14. NamesInv'
    BY <1>1, <1>11 DEF LogInv, NamesInv
  <1>15. CountInv'
    <2> SUFFICES ASSUME Sound
                 PROVE  /\ seen' \subseteq LogIds' /\ 1..acked \subseteq LogIds'
                        /\ \A d \in Sockets : Counts(d)'
      BY <1>1 DEF CountInv
    <2>1. seen \subseteq LogIds /\ 1..acked \subseteq LogIds /\ \A d \in Sockets : Counts(d)
      BY DEF LogInv, CountInv
    <2>2. e.seq = e.id /\ e.hint = e.id /\ e.id \in 1..said /\ said \in Nat
      BY <1>0, <1>7 DEF LogInv, NamesInv, WorldInv, TypeOK
    <2>3. e.id \in LogIds'
      <3>1. CASE new
        BY <3>1, <1>10
      <3>2. CASE e.hint \in seen
        BY <3>2, <2>1, <2>2, <1>10
      <3>3. CASE Taken(session[c], e.seq)
        <4>1. e.seq \in 1..session[c].acked \/ e.seq \in session[c].window
          <5>1. session[c].acked \in Nat
            BY <1>0 DEF SessionType
          <5> QED BY <5>1, <3>3, <2>2 DEF Taken
        <4> QED BY <4>1, <2>1, <2>2, <1>10 DEF Counts
      <3> QED BY <3>1, <3>2, <3>3
    <2>4. seen' \subseteq LogIds'
      BY <2>1, <2>2, <2>3, <1>1, <1>10
    <2>5. ASSUME NEW d \in Sockets PROVE Counts(d)'
      <3>1. CASE d = c
        <4>1. Counts(c)
          BY <2>1
        <4>2. /\ 1..session'[c].acked \subseteq LogIds'
              /\ session'[c].window \subseteq LogIds'
              /\ session'[c].results \subseteq LogIds'
          BY <4>1, <2>2, <2>3, <1>5, <1>6, <1>10 DEF Counts
        <4> QED BY <3>1, <4>1, <4>2, <1>1, <1>10 DEF Counts
      <3>2. CASE d # c
        BY <3>2, <2>1, <1>1, <1>6, <1>10 DEF Counts
      <3> QED BY <3>1, <3>2
    <2> QED BY <2>1, <2>4, <2>5, <1>10
  <1>16. NothingLost'
    BY <1>1, <1>10 DEF LogInv, NothingLost, Kept
  <1> QED BY <1>12, <1>13, <1>14, <1>15, <1>16 DEF LogInv

-----------------------------------------------------------------------------
\* The inductive invariant, on top of the types: copies agree, the log holds what is counted.
THEOREM LogInvariant == Spec => []LogInv
  <1>1. Init => LogInv
    BY InitLog
  <1>2. TypeInv /\ LogInv /\ [Next]_vars => LogInv'
    <2> SUFFICES ASSUME TypeInv, LogInv, [Next]_vars PROVE LogInv'
      OBVIOUS
    <2>1. CASE Plugin
      BY <2>1, EmitLog, OnWelcomeLog, OnAckLog, OnAssignLog, PumpLog, HangUpLog, DialLog DEF Plugin
    <2>2. CASE \E c \in Sockets : Orchestrator(c)
      <3>1. PICK c \in Sockets : Orchestrator(c)
        BY <2>2
      <3>2. 0 \in 0..Len(wire[c].up)
        <4>1. wire[c].up \in Seq(Frame)
          BY Parts DEF TypeInv
        <4>2. Len(wire[c].up) \in Nat
          BY <4>1
        <4> QED BY <4>2
      <3>3. GreetTooLate(c) \/ Silence(c) => LogInv'
        BY <3>2, LostLog
      <3> QED BY <3>1, <3>3, GreetLog, AdmitLog, TakeLog, IngestLog, PersistLog DEF Orchestrator
    <2>3. CASE Network
      BY <2>3, HangUpLog, LostLog DEF Network
    <2>4. CASE Fault
      BY <2>4, CrashLog, RestartedLog, ThrowLog DEF Fault
    <2>5. CASE UNCHANGED vars
      <3>1. UNCHANGED <<buffer, plugin, said, wire, session, acked, seen, log, crashes, throws,
                        wipes, renumbered>>
        BY <2>5 DEF vars, server, store, fate
      <3>2. World' = World /\ LogIds' = LogIds /\ Sound' = Sound /\ \A c \in Sockets : Counts(c)' = Counts(c)
        BY <3>1 DEF World, Copies, Entries, LogIds, Sound, Counts
      <3> QED BY <3>1, <3>2 DEF LogInv, WorldInv, SeenInv, NamesInv, CountInv, NothingLost, Kept
    <2> QED BY <2>1, <2>2, <2>3, <2>4, <2>5 DEF Next
  <1> QED BY <1>1, <1>2, TypeInvariant, PTL DEF Spec

\* The plugin forgets an event only when the match's log has it: nothing that is said is
\* lost to breaks, crashes and reconnects, in whatever order they come.
THEOREM NothingIsLost == Spec => []NothingLost
  <1>1. LogInv => NothingLost
    BY DEF LogInv
  <1> QED BY <1>1, LogInvariant, PTL

\* While the orchestrator's process lives, no event is logged twice, however often it is sent.
THEOREM LoggedAtMostOnce == Spec => []LoggedOnce
  <1>1. LogInv => LoggedOnce
    <2> SUFFICES ASSUME LogInv, crashes = 0, NEW i \in 1..Len(log), NEW k \in 1..Len(log),
                        log[i].id = log[k].id
                 PROVE  i = k
      BY DEF LoggedOnce
    <2>1. log[i] \in World /\ log[k] \in World
      BY DEF World, Entries
    <2>2. log[i] = log[k]
      BY <2>1 DEF LogInv, WorldInv
    <2> QED BY <2>2 DEF LogInv, SeenInv
  <1> QED BY <1>1, LogInvariant, PTL

-----------------------------------------------------------------------------
(***************************************************************************)
(* The order of the match's log, and the counts of a session.              *)
(*                                                                         *)
(* An event is logged after all that was said before it because of what is *)
(* ahead of it on its socket: PipeInv says that each event in a session's  *)
(* batch or queue has every event said before it in the log or in front of *)
(* it, and FlowInv that a session the plugin was welcomed on carries all   *)
(* that the log lacks. A session's count stays behind the plugin's since   *)
(* WithinInv bounds all it can be counted up to.                           *)
(***************************************************************************)

\* The events of the first i frames of a queue.
Sent(u, i) == {e \in Event : \E k \in 1..i : u[k].type = "events" /\ e \in u[k].events}

\* The first n events are among the ids L or the events S.
Covers(L, S, n) == \A m \in 1..n : m \in L \/ \E e \in S : e.id = m

\* A batch b and a queue u behind it, each event with those before it in L or in front of it.
Piped(L, b, u) ==
    /\ \A e \in b : Covers(L, b, e.id)
    /\ \A i \in 1..Len(u) : u[i].type = "events" =>
           \A e \in u[i].events : Covers(L, b \cup Sent(u, i), e.id)

PipeInv == \A c \in Sockets : Piped(LogIds, session[c].batch, wire[c].up)

FlowInv ==
    plugin.welcomed /\ wire[plugin.conn].end # "closed" =>
        Covers(LogIds, session[plugin.conn].batch \cup Carried(wire[plugin.conn].up), said)

\* Nothing a session counted, is to count or was told is beyond l.
Within(s, u, l) ==
    /\ s.acked <= l
    /\ \A n \in s.window : n <= l
    /\ \A e \in s.batch : e.seq <= l
    /\ \A i \in 1..Len(u) : /\ u[i].type = "hello" => u[i].last <= l
                            /\ u[i].type = "events" => \A e \in u[i].events : e.seq <= l

WithinInv ==
    /\ \A e \in buffer.pending : e.seq <= buffer.last
    /\ plugin.conn \in Sockets => Within(session[plugin.conn], wire[plugin.conn].up, buffer.last)

OrderInv == (Sound => PipeInv /\ FlowInv) /\ InOrder /\ WithinInv

-----------------------------------------------------------------------------
(* Queues.                                                                 *)

\* A frame of events is a set of events.
LEMMA FrameEvents ==
  ASSUME NEW f \in Frame, f.type = "events"
  PROVE  f.events \in SUBSET Event
  BY DEF Frame

LEMMA SentAll ==
  ASSUME NEW u \in Seq(Frame)
  PROVE  Sent(u, Len(u)) = Carried(u) /\ \A i \in 1..Len(u) : Sent(u, i) \subseteq Carried(u)
  <1>1. Len(u) \in Nat
    OBVIOUS
  <1>2. \A i \in 1..Len(u) : \A k \in 1..i : k \in 1..Len(u)
    BY <1>1
  <1> QED BY <1>2 DEF Sent, Carried

LEMMA CoversMore ==
  ASSUME NEW L, NEW M, NEW S, NEW T, NEW n, L \subseteq M, S \subseteq T, Covers(L, S, n)
  PROVE  Covers(M, T, n)
  BY DEF Covers

LEMMA PipedMore ==
  ASSUME NEW L, NEW M, NEW b, NEW u, L \subseteq M, Piped(L, b, u)
  PROVE  Piped(M, b, u)
  BY DEF Piped, Covers

\* A frame at the end of a queue, with all that was said before its events.
LEMMA PipedAppend ==
  ASSUME NEW L, NEW b, NEW u \in Seq(Frame), NEW f \in Frame, f.type = "events",
         Piped(L, b, u),
         \A e \in f.events : Covers(L, b \cup Carried(u) \cup f.events, e.id)
  PROVE  Piped(L, b, Append(u, f))
  <1> DEFINE v == Append(u, f)
  <1>1. /\ Len(u) \in Nat /\ Len(v) = Len(u) + 1 /\ v[Len(u) + 1] = f
        /\ \A i \in 1..Len(u) : v[i] = u[i]
    OBVIOUS
  <1> HIDE DEF v
  <1>2. f.events \in SUBSET Event
    BY FrameEvents
  <1>3. ASSUME NEW i \in 1..Len(u) PROVE Sent(v, i) = Sent(u, i)
    <2>1. \A k \in 1..i : k \in 1..Len(u)
      BY <1>1
    <2> QED BY <2>1, <1>1 DEF Sent
  <1>4. Carried(u) \cup f.events \subseteq Sent(v, Len(u) + 1)
    <2>1. Len(u) + 1 \in 1..(Len(u) + 1) /\ \A k \in 1..Len(u) : k \in 1..(Len(u) + 1)
      BY <1>1
    <2> QED BY <2>1, <1>1, <1>2 DEF Sent, Carried
  <1>5. ASSUME NEW i \in 1..Len(v), v[i].type = "events", NEW e \in v[i].events
        PROVE  Covers(L, b \cup Sent(v, i), e.id)
    <2>1. CASE i \in 1..Len(u)
      BY <2>1, <1>1, <1>3, <1>5 DEF Piped
    <2>2. CASE i \notin 1..Len(u)
      <3>1. i = Len(u) + 1
        BY <2>2, <1>1
      <3>2. Covers(L, b \cup Carried(u) \cup f.events, e.id)
        BY <3>1, <1>1, <1>5
      <3>3. b \cup Carried(u) \cup f.events \subseteq b \cup Sent(v, i)
        BY <3>1, <1>4
      <3> QED BY <3>2, <3>3, CoversMore
    <2> QED BY <2>1, <2>2
  <1>6. \A e \in b : Covers(L, b, e.id)
    BY DEF Piped
  <1> QED BY <1>5, <1>6 DEF Piped, v

\* The frame at the head becomes the batch.
LEMMA PipedTake ==
  ASSUME NEW L, NEW u \in Seq(Frame), u # <<>>, Head(u).type = "events", Piped(L, {}, u)
  PROVE  /\ Piped(L, Head(u).events, Tail(u))
         /\ Carried(u) \subseteq Head(u).events \cup Carried(Tail(u))
  <1> DEFINE b == Head(u).events
             v == Tail(u)
  <1>1. /\ Len(u) \in Nat /\ Len(u) > 0 /\ Head(u) = u[1] /\ u[1] \in Frame
        /\ Len(v) = Len(u) - 1 /\ \A i \in 1..Len(v) : v[i] = u[i + 1]
    BY EmptySeq
  <1>2. u[1].type = "events" /\ b = u[1].events /\ b \in SUBSET Event
    BY <1>1, FrameEvents
  <1> HIDE DEF b, v
  <1>3. ASSUME NEW i \in 1..Len(u) PROVE Sent(u, i) \subseteq b \cup Sent(v, i - 1)
    <2> SUFFICES ASSUME NEW e \in Event, NEW k \in 1..i, u[k].type = "events", e \in u[k].events,
                        e \notin b
                 PROVE  e \in Sent(v, i - 1)
      BY DEF Sent
    <2>1. k # 1
      BY <1>2
    <2>2. k - 1 \in 1..(i - 1) /\ k - 1 \in 1..Len(v) /\ (k - 1) + 1 = k
      BY <2>1, <1>1
    <2>3. v[k - 1] = u[k]
      BY <2>2, <1>1
    <2> QED BY <2>2, <2>3 DEF Sent
  <1>4. ASSUME NEW e \in b PROVE Covers(L, b, e.id)
    <2>1. 1 \in 1..Len(u)
      BY <1>1
    <2>2. Covers(L, {} \cup Sent(u, 1), e.id)
      BY <2>1, <1>2 DEF Piped
    <2>3. Sent(v, 1 - 1) = {}
      BY DEF Sent
    <2>4. {} \cup Sent(u, 1) \subseteq b
      BY <2>1, <2>3, <1>3
    <2> QED BY <2>2, <2>4, CoversMore
  <1>5. ASSUME NEW i \in 1..Len(v), v[i].type = "events", NEW e \in v[i].events
        PROVE  Covers(L, b \cup Sent(v, i), e.id)
    <2>1. i + 1 \in 1..Len(u) /\ v[i] = u[i + 1] /\ (i + 1) - 1 = i
      BY <1>1
    <2>2. Covers(L, {} \cup Sent(u, i + 1), e.id)
      BY <2>1, <1>5 DEF Piped
    <2>3. {} \cup Sent(u, i + 1) \subseteq b \cup Sent(v, i)
      BY <2>1, <1>3
    <2> QED BY <2>2, <2>3, CoversMore
  <1>6. Piped(L, b, v)
    BY <1>4, <1>5 DEF Piped
  <1>7. Carried(u) \subseteq b \cup Carried(v)
    <2>1. v \in Seq(Frame) /\ Len(u) \in 1..Len(u) /\ Len(u) - 1 = Len(v)
      BY <1>1, EmptySeq DEF v
    <2>2. Sent(u, Len(u)) = Carried(u) /\ Sent(v, Len(v)) = Carried(v)
      BY <2>1, SentAll
    <2> QED BY <2>1, <2>2, <1>3
  <1> QED BY <1>6, <1>7 DEF b, v

LEMMA PipedCut ==
  ASSUME NEW L, NEW b, NEW u \in Seq(Frame), NEW n \in Nat, n <= Len(u), Piped(L, b, u)
  PROVE  Piped(L, b, SubSeq(u, 1, n))
  <1> DEFINE v == SubSeq(u, 1, n)
  <1>1. Len(v) = n /\ \A i \in 1..n : v[i] = u[i]
    OBVIOUS
  <1> HIDE DEF v
  <1>2. \A i \in 1..n : i \in 1..Len(u) /\ \A k \in 1..i : k \in 1..n
    OBVIOUS
  <1>3. \A i \in 1..n : Sent(v, i) = Sent(u, i)
    BY <1>1, <1>2 DEF Sent
  <1> QED BY <1>1, <1>2, <1>3 DEF Piped, v

\* An event of the batch goes to the log.
LEMMA PipedTaken ==
  ASSUME NEW L, NEW M, NEW b, NEW u, NEW e, L \subseteq M, e.id \in M, Piped(L, b, u)
  PROVE  Piped(M, b \ {e}, u)
  <1>1. ASSUME NEW S, NEW n, Covers(L, b \cup S, n) PROVE Covers(M, (b \ {e}) \cup S, n)
    BY <1>1 DEF Covers
  <1>2. ASSUME NEW f \in b \ {e} PROVE Covers(M, b \ {e}, f.id)
    <2>1. Covers(L, b \cup {}, f.id)
      <3>1. b \cup {} = b
        OBVIOUS
      <3> QED BY <3>1 DEF Piped
    <2>2. Covers(M, (b \ {e}) \cup {}, f.id)
      BY <2>1, <1>1
    <2> QED BY <2>2
  <1> QED BY <1>1, <1>2 DEF Piped

LEMMA PipedNone ==
  ASSUME NEW L, NEW u, \A i \in 1..Len(u) : u[i].type # "events"
  PROVE  Piped(L, {}, u)
  BY DEF Piped

LEMMA PipedEmpty == \A L : Piped(L, {}, <<>>)
  <1>1. \A i \in 1..Len(<<>>) : FALSE
    OBVIOUS
  <1> QED BY <1>1 DEF Piped

-----------------------------------------------------------------------------
(* The steps that move no event.                                           *)

LEMMA InitOrder == Init => OrderInv
  <1> SUFFICES ASSUME Init PROVE OrderInv
    OBVIOUS
  <1>1. \A c \in Sockets : session[c].batch = {} /\ wire[c].up = <<>>
    BY DEF Init, NoSession, Dead
  <1>2. PipeInv
    BY <1>1, PipedEmpty DEF PipeInv
  <1>3. ~plugin.welcomed /\ plugin.conn \notin Sockets /\ buffer.pending = {} /\ log = <<>>
    BY LinkAssumption DEF Init, Unlinked
  <1> QED BY <1>2, <1>3 DEF OrderInv, FlowInv, InOrder, WithinInv

\* Queues, batches and counts are left alone, and no session is welcomed.
LEMMA Calm ==
  ASSUME OrderInv, UNCHANGED <<said, log>>, Sound' => Sound,
         buffer'.last = buffer.last, buffer'.pending \subseteq buffer.pending,
         plugin'.conn \in Sockets => plugin'.conn = plugin.conn,
         plugin'.welcomed => plugin.welcomed /\ plugin'.conn = plugin.conn /\ plugin.conn \in Sockets,
         \A d \in Sockets : /\ session'[d].batch = session[d].batch
                            /\ session'[d].acked = session[d].acked
                            /\ session'[d].window = session[d].window
                            /\ wire'[d].up = wire[d].up
                            /\ wire[d].end = "closed" => wire'[d].end = "closed"
  PROVE  OrderInv'
  <1>1. LogIds' = LogIds
    BY DEF LogIds
  <1>2. PipeInv => PipeInv'
    BY <1>1 DEF PipeInv
  <1>3. FlowInv => FlowInv'
    BY <1>1 DEF FlowInv
  <1>4. InOrder'
    BY DEF OrderInv, InOrder
  <1>5. WithinInv'
    <2>1. ASSUME plugin'.conn \in Sockets
          PROVE  Within(session'[plugin'.conn], wire'[plugin'.conn].up, buffer.last)
      <3>1. Within(session[plugin'.conn], wire[plugin'.conn].up, buffer.last)
        BY <2>1 DEF OrderInv, WithinInv
      <3> QED BY <3>1, <2>1 DEF Within
    <2> QED BY <2>1 DEF OrderInv, WithinInv
  <1> QED BY <1>2, <1>3, <1>4, <1>5 DEF OrderInv

\* The plugin's steps on what it is told, but for the welcome.
LEMMA HeardOrder == TypeInv /\ OrderInv /\ (OnAck \/ OnAssign \/ Pump) => OrderInv'
  <1> SUFFICES ASSUME TypeInv, OrderInv, OnAck \/ OnAssign \/ Pump PROVE OrderInv'
    OBVIOUS
  <1>0. TypeOK
    BY DEF TypeInv
  <1>1. UNCHANGED <<said, log, session, throws, wipes>>
    BY DEF OnAck, OnAssign, Pump, store, fate
  <1>2. buffer'.last = buffer.last /\ buffer'.pending \subseteq buffer.pending
    BY <1>0 DEF OnAck, OnAssign, Pump, TypeOK, BufferType
  <1>3. plugin'.conn = plugin.conn /\ plugin'.welcomed = plugin.welcomed
    BY <1>0 DEF OnAck, OnAssign, Pump, TypeOK, PluginType
  <1>4. plugin.welcomed => plugin.conn \in Sockets
    BY <1>0 DEF TypeOK, PluginType
  <1>5. \A d \in Sockets : wire'[d].up = wire[d].up /\ wire'[d].end = wire[d].end
    BY <1>0, Listened DEF OnAck, OnAssign, Pump
  <1>6. Sound' => Sound
    <2>1. CASE OnAck \/ OnAssign
      <3>1. UNCHANGED <<throws, wipes, renumbered>>
        BY <2>1 DEF OnAck, OnAssign, fate
      <3> QED BY <3>1 DEF Sound
    <2>2. CASE Pump
      <3>1. renumbered' = (renumbered \/ said > 0)
        BY <2>2 DEF Pump
      <3>2. throws' = throws /\ wipes' = wipes
        BY <1>1
      <3> QED BY <3>1, <3>2, Zenon DEF Sound
    <2> QED BY <2>1, <2>2
  <1> QED BY <1>1, <1>2, <1>3, <1>4, <1>5, <1>6, Calm

\* The plugin leaves its socket, or is loaded anew.
LEMMA LeftOrder == TypeInv /\ OrderInv /\ (Notice \/ DropAtPlugin \/ Reload) => OrderInv'
  <1> SUFFICES ASSUME TypeInv, OrderInv, Notice \/ DropAtPlugin \/ Reload PROVE OrderInv'
    OBVIOUS
  <1>0. TypeOK /\ plugin.conn \in Sockets \cup {None}
    BY DEF TypeInv, TypeOK, PluginType
  <1>1. UNCHANGED <<buffer, said, log, session>> /\ Sound' = Sound
    BY DEF Notice, DropAtPlugin, Reload, Restarted, store, fate, Sound
  <1>2. plugin'.conn \notin Sockets /\ ~plugin'.welcomed
    <2>1. CASE HangUp
      <3>1. plugin'.conn = None /\ plugin'.welcomed = FALSE
        BY <2>1, <1>0 DEF HangUp, TypeOK, PluginType
      <3> QED BY <3>1, LinkAssumption
    <2>2. CASE plugin' = Unlinked
      BY <2>2, LinkAssumption DEF Unlinked
    <2> QED BY <2>1, <2>2 DEF Notice, DropAtPlugin, Reload, Restarted
  <1>3. /\ wire' = wire \/ wire' = [wire EXCEPT ![plugin.conn].down = <<>>]
        /\ plugin.conn \in Sockets \/ wire' = wire
    BY <1>0 DEF Notice, DropAtPlugin, Reload, Restarted
  <1>4. \A d \in Sockets : wire'[d].up = wire[d].up /\ wire'[d].end = wire[d].end
    <2>1. \A d \in Sockets : wire[d] \in WireType
      BY <1>0, Parts
    <2>2. CASE wire' = [wire EXCEPT ![plugin.conn].down = <<>>] /\ plugin.conn \in Sockets
      BY <2>1, <2>2, <1>0 DEF TypeOK, WireType
    <2> QED BY <2>2, <1>3
  <1> QED BY <1>1, <1>2, <1>4, Calm

\* The orchestrator's steps that move no event.
LEMMA AnsweredOrder ==
  ASSUME NEW c \in Sockets
  PROVE  TypeInv /\ OrderInv /\ (Admit(c) \/ Persist(c) \/ Silence(c)) => OrderInv'
  <1> SUFFICES ASSUME TypeInv, OrderInv, Admit(c) \/ Persist(c) \/ Silence(c) PROVE OrderInv'
    OBVIOUS
  <1>0. TypeOK
    BY DEF TypeInv
  <1>1. UNCHANGED <<buffer, plugin, said, log>> /\ Sound' = Sound
    <2>1. UNCHANGED <<buffer, plugin, said, log, throws, wipes, renumbered>>
      <3>1. CASE Admit(c)
        BY <3>1 DEF Admit, server, fate
      <3>2. CASE Persist(c)
        BY <3>2 DEF Persist, server, fate
      <3>3. CASE Silence(c)
        BY <3>3 DEF Silence, server, store, fate
      <3> QED BY <3>1, <3>2, <3>3
    <2> QED BY <2>1 DEF Sound
  <1>2. plugin.welcomed => plugin.conn \in Sockets
    BY <1>0 DEF TypeOK, PluginType
  <1>3. \A d \in Sockets : wire[d] \in WireType /\ session[d] \in SessionType
    BY <1>0, Parts
  <1>4. \A d \in Sockets : /\ session'[d].batch = session[d].batch
                           /\ session'[d].acked = session[d].acked
                           /\ session'[d].window = session[d].window
    <2>1. CASE Admit(c)
      BY <2>1, <1>0, <1>3 DEF Admit, TypeOK, SessionType
    <2>2. CASE Persist(c)
      BY <2>2, <1>0, <1>3 DEF Persist, TypeOK, SessionType
    <2>3. CASE Silence(c)
      BY <2>3 DEF Silence
    <2> QED BY <2>1, <2>2, <2>3
  <1>5. \A d \in Sockets : /\ wire'[d].up = wire[d].up
                           /\ wire[d].end = "closed" => wire'[d].end = "closed"
    <2>1. CASE Admit(c)
      <3>1. PICK u : wire' = [wire EXCEPT ![c].down = u]
        BY <2>1 DEF Admit
      <3> QED BY <3>1, <1>0, <1>3 DEF TypeOK, WireType
    <2>2. CASE Persist(c)
      <3>1. PICK u : wire' = [wire EXCEPT ![c].down = u]
        BY <2>2 DEF Persist, SendDown
      <3> QED BY <3>1, <1>0, <1>3 DEF TypeOK, WireType
    <2>3. CASE Silence(c)
      BY <2>3, <1>0, <1>3 DEF Silence, TypeOK, WireType
    <2> QED BY <2>1, <2>2, <2>3
  <1> QED BY <1>1, <1>2, <1>4, <1>5, Calm

-----------------------------------------------------------------------------
(* Sockets that begin, and sockets that lose what is on them.              *)

LEMMA DialOrder == ASSUME NEW c \in Sockets PROVE TypeInv /\ OrderInv /\ Dial(c) => OrderInv'
  <1> SUFFICES ASSUME TypeInv, OrderInv, Dial(c) PROVE OrderInv'
    OBVIOUS
  <1> DEFINE u == <<Hello(buffer.last, plugin.held)>>
  <1>0. TypeOK /\ buffer.last \in Nat
    BY DEF TypeInv, TypeOK, BufferType
  <1>1. UNCHANGED <<buffer, said, log>> /\ Sound' = Sound /\ LogIds' = LogIds
    BY DEF Dial, store, fate, Sound, LogIds
  <1>2. plugin'.conn = c /\ ~plugin'.welcomed
    BY <1>0, LinkAssumption DEF Dial, TypeOK, PluginType
  <1>3. /\ wire'[c].up = u /\ session'[c] = NoSession
        /\ \A d \in Sockets : d # c => wire'[d] = wire[d] /\ session'[d] = session[d]
    BY <1>0 DEF Dial, TypeOK
  <1>4. Len(u) = 1 /\ u[1].type = "hello" /\ u[1].last = buffer.last
    BY DEF Hello
  <1> HIDE DEF u
  <1>5. PipeInv => PipeInv'
    <2>1. Piped(LogIds, {}, u)
      BY <1>4, PipedNone
    <2> QED BY <2>1, <1>1, <1>3 DEF PipeInv, NoSession
  <1>6. Within(NoSession, u, buffer.last)
    BY <1>0, <1>4 DEF Within, NoSession
  <1>7. WithinInv'
    BY <1>1, <1>2, <1>3, <1>6 DEF OrderInv, WithinInv
  <1> QED BY <1>1, <1>2, <1>5, <1>7 DEF OrderInv, FlowInv, InOrder

\* A session begins with no more than its plugin says it handed out.
LEMMA GreetOrder == ASSUME NEW c \in Sockets PROVE TypeInv /\ OrderInv /\ Greet(c) => OrderInv'
  <1> SUFFICES ASSUME TypeInv, OrderInv, Greet(c) PROVE OrderInv'
    OBVIOUS
  <1> DEFINE hello == Head(wire[c].up)
  <1>0. TypeOK /\ FrameAt(c) /\ acked \in Nat /\ buffer.last \in Nat
    BY DEF TypeInv, FrameInv, TypeOK, BufferType
  <1>1. /\ UNCHANGED <<buffer, plugin, said, log>> /\ Sound' = Sound /\ LogIds' = LogIds
        /\ wire[c].up # <<>> /\ session[c].at = "none" /\ wire[c].end = "open"
    BY DEF Greet, server, store, fate, Sound, LogIds
  <1>2. hello = wire[c].up[1] /\ hello.type = "hello" /\ hello.last \in Nat /\ Len(wire[c].up) = 1
    BY <1>0, <1>1, TakenUp DEF FrameAt, Frame
  <1>3. Tail(wire[c].up) = <<>> /\ <<>> \in Seq(Frame)
    <2>1. wire[c].up \in Seq(Frame)
      BY <1>0, Parts
    <2>2. Tail(wire[c].up) \in Seq(Frame) /\ Len(Tail(wire[c].up)) = 0
      BY <2>1, <1>1, <1>2
    <2> QED BY <2>2, EmptySeq
  <1>4. PICK w : w = WithUp(c, <<>>)
    OBVIOUS
  <1>5. /\ w \in [Sockets -> WireType]
        /\ w[c].up = <<>>
        /\ \A d \in Sockets : w[d].end = wire[d].end
        /\ \A d \in Sockets : d # c => w[d].up = wire[d].up
    BY <1>0, <1>3, <1>4, UpSet, ZenonT(40)
  <1>6. \A d \in Sockets : /\ wire'[d].up = w[d].up
                           /\ wire[d].end = "closed" => wire'[d].end = "closed"
    <2>1. CASE current = None
      BY <2>1, <1>3, <1>4, <1>5 DEF Greet, WithUp
    <2>2. CASE current # None
      <3>1. current \in Sockets
        BY <2>2, <1>0 DEF TypeOK
      <3>2. wire' = Closing(w, current)
        BY <2>2, <1>3, <1>4 DEF Greet, WithUp
      <3> QED BY <3>1, <3>2, <1>5, ClosingSet
    <2> QED BY <2>1, <2>2
  <1>7. /\ session'[c].batch = {} /\ session'[c].window = {}
        /\ session'[c].acked = ResumeAt(hello.last)
        /\ \A d \in Sockets : d # c => session'[d] = session[d]
    BY <1>0 DEF Greet, TypeOK, NoSession
  <1>8. PipeInv => PipeInv'
    BY PipedEmpty, <1>1, <1>5, <1>6, <1>7 DEF PipeInv
  <1>9. FlowInv => FlowInv'
    <2>1. plugin.welcomed => plugin.conn # c /\ plugin.conn \in Sockets
      BY <1>0, <1>1 DEF FrameAt, TypeOK, PluginType
    <2> QED BY <2>1, <1>1, <1>5, <1>6, <1>7 DEF FlowInv
  <1>10. WithinInv'
    <2>1. CASE plugin.conn = c
      <3>1. hello.last <= buffer.last
        <4>1. 1 \in 1..Len(wire[c].up)
          BY <1>2
        <4> QED BY <4>1, <2>1, <1>2 DEF OrderInv, WithinInv, Within
      <3>2. session'[c].acked <= buffer.last
        BY <3>1, <1>0, <1>2, <1>7 DEF ResumeAt, Lower
      <3>3. Within(session'[c], wire'[c].up, buffer.last)
        BY <3>2, <1>5, <1>6, <1>7 DEF Within
      <3> QED BY <3>3, <2>1, <1>1 DEF OrderInv, WithinInv
    <2>2. CASE plugin.conn # c
      BY <2>2, <1>1, <1>5, <1>6, <1>7 DEF OrderInv, WithinInv
    <2> QED BY <2>1, <2>2
  <1> QED BY <1>1, <1>8, <1>9, <1>10 DEF OrderInv, InOrder

\* A socket breaks, or is refused: what was at the end of its queue is gone, and it is closed
\* or was never welcomed.
LEMMA CutOrder ==
  ASSUME NEW c \in Sockets, NEW n \in 0..Len(wire[c].up)
  PROVE  TypeInv /\ OrderInv /\ (GreetTooLate(c) \/ DropAtOrchestrator(c, n)) => OrderInv'
  <1> SUFFICES ASSUME TypeInv, OrderInv, GreetTooLate(c) \/ DropAtOrchestrator(c, n)
               PROVE OrderInv'
    OBVIOUS
  <1>0. TypeOK /\ FrameAt(c)
    BY DEF TypeInv, FrameInv
  <1>1. UNCHANGED <<buffer, plugin, said, log, session>> /\ Sound' = Sound /\ LogIds' = LogIds
    BY DEF GreetTooLate, DropAtOrchestrator, server, store, fate, Sound, LogIds
  <1>2. wire[c].up \in Seq(Frame) /\ Len(wire[c].up) \in Nat
    <2>1. wire[c].up \in Seq(Frame)
      BY <1>0, Parts
    <2> QED BY <2>1
  <1>3. \A d \in Sockets : wire[d] \in WireType
    BY <1>0, Parts
  <1>4. PICK m \in 0..Len(wire[c].up) : wire'[c].up = SubSeq(wire[c].up, 1, m)
    <2>1. CASE GreetTooLate(c)
      <3>1. wire'[c].up = <<>>
        BY <2>1, <1>0, <1>3 DEF GreetTooLate, TypeOK, WireType
      <3>2. SubSeq(wire[c].up, 1, 0) = <<>> /\ 0 \in 0..Len(wire[c].up)
        BY <1>2
      <3> QED BY <3>1, <3>2
    <2>2. CASE DropAtOrchestrator(c, n)
      <3>1. wire' = [wire EXCEPT ![c] = [wire[c] EXCEPT !.end = "closed",
                                                        !.up = SubSeq(wire[c].up, 1, n)]]
        BY <2>2, Zenon DEF DropAtOrchestrator
      <3>2. wire'[c].up = SubSeq(wire[c].up, 1, n)
        BY <3>1, <1>0, <1>3 DEF TypeOK, WireType
      <3> QED BY <3>2
    <2> QED BY <2>1, <2>2
  <1>5. \A d \in Sockets : d # c => wire'[d] = wire[d]
    BY <1>0 DEF GreetTooLate, DropAtOrchestrator, TypeOK
  <1>6. ~(plugin.conn = c /\ plugin.welcomed /\ wire'[c].end # "closed")
    BY <1>0, <1>3 DEF GreetTooLate, DropAtOrchestrator, FrameAt, TypeOK, WireType
  <1>7. PipeInv => PipeInv'
    <2>1. ASSUME PipeInv PROVE Piped(LogIds, session[c].batch, wire'[c].up)
      <3>1. m \in Nat /\ m <= Len(wire[c].up) /\ Piped(LogIds, session[c].batch, wire[c].up)
        BY <2>1, <1>2 DEF PipeInv
      <3> QED BY <3>1, <1>2, <1>4, PipedCut
    <2> QED BY <2>1, <1>1, <1>5 DEF PipeInv
  <1>8. FlowInv => FlowInv'
    <2>1. plugin.welcomed => plugin.conn \in Sockets
      BY <1>0 DEF TypeOK, PluginType
    <2> QED BY <2>1, <1>1, <1>5, <1>6 DEF FlowInv
  <1>9. WithinInv'
    <2>1. CASE plugin.conn = c
      <3>1. Within(session[c], wire[c].up, buffer.last)
        BY <2>1 DEF OrderInv, WithinInv
      <3>2. Len(wire'[c].up) = m /\ \A i \in 1..m : i \in 1..Len(wire[c].up) /\ wire'[c].up[i] = wire[c].up[i]
        BY <1>2, <1>4
      <3>3. Within(session[c], wire'[c].up, buffer.last)
        BY <3>1, <3>2 DEF Within
      <3> QED BY <3>3, <2>1, <1>1 DEF OrderInv, WithinInv
    <2>2. CASE plugin.conn # c
      BY <2>2, <1>1, <1>5 DEF OrderInv, WithinInv
    <2> QED BY <2>1, <2>2
  <1>10. InOrder'
    BY <1>1 DEF OrderInv, InOrder
  <1> QED BY <1>1, <1>7, <1>8, <1>9, <1>10 DEF OrderInv

LEMMA CrashOrder == TypeInv /\ OrderInv /\ Crash => OrderInv'
  <1> SUFFICES ASSUME TypeInv, OrderInv, Crash PROVE OrderInv'
    OBVIOUS
  <1>0. TypeOK /\ buffer.last \in Nat
    BY DEF TypeInv, TypeOK, BufferType
  <1>1. UNCHANGED <<buffer, plugin, said, log>> /\ Sound' = Sound
    BY DEF Crash, server, store, Sound
  <1>2. \A d \in Sockets : wire'[d].up = <<>> /\ wire'[d].end = "closed"
    <2>1. \A d \in Sockets : wire[d] \in WireType
      BY <1>0, Parts
    <2> QED BY <2>1 DEF Crash, WireType
  <1>3. \A d \in Sockets : session'[d] = NoSession
    BY DEF Crash
  <1>4. PipeInv'
    <2>1. Piped(LogIds', {}, <<>>)
      BY PipedEmpty
    <2>2. \A d \in Sockets : session'[d].batch = {}
      BY <1>3 DEF NoSession
    <2>3. \A d \in Sockets : Piped(LogIds', session'[d].batch, wire'[d].up)
      BY <2>1, <2>2, <1>2
    <2> QED BY <2>3 DEF PipeInv
  <1>5. FlowInv'
    BY <1>0, <1>1, <1>2 DEF FlowInv, TypeOK, PluginType
  <1>6. WithinInv'
    BY <1>0, <1>1, <1>2, <1>3 DEF OrderInv, WithinInv, Within, NoSession
  <1> QED BY <1>1, <1>4, <1>5, <1>6 DEF OrderInv, InOrder

\* After a loss nothing is asked of the order any more; the counts hold.
LEMMA LossOrder == TypeInv /\ OrderInv /\ (Wipe \/ \E c \in Sockets : Throw(c)) => OrderInv'
  <1> SUFFICES ASSUME TypeInv, OrderInv, Wipe \/ \E c \in Sockets : Throw(c) PROVE OrderInv'
    OBVIOUS
  <1>0. TypeOK
    BY DEF TypeInv
  <1>1. ~Sound'
    <2>1. CASE Wipe
      BY <2>1, <1>0 DEF Wipe, Sound, TypeOK
    <2>2. CASE \E c \in Sockets : Throw(c)
      BY <2>2, <1>0 DEF Throw, Sound, TypeOK
    <2> QED BY <2>1, <2>2
  <1>2. CASE Wipe
    <2>1. buffer'.pending = {} /\ plugin'.conn \notin Sockets
      BY <1>2, <1>0, LinkAssumption DEF Wipe, Restarted, Unlinked
    <2> QED BY <2>1, <1>1 DEF OrderInv, InOrder, WithinInv
  <1>3. ASSUME NEW c \in Sockets, Throw(c) PROVE OrderInv'
    <2>1. \A d \in Sockets : wire'[d].up = wire[d].up
      BY <1>0, <1>3, ClosingSet DEF Throw, TypeOK
    <2>2. \A d \in Sockets : session[d] \in SessionType
      BY <1>0, Parts
    <2>3. \A d \in Sockets : /\ session'[d].batch \subseteq session[d].batch
                             /\ session'[d].acked = session[d].acked
                             /\ session'[d].window = session[d].window
      BY <2>2, <1>0, <1>3 DEF Throw, TypeOK, SessionType
    <2>4. buffer' = buffer /\ plugin' = plugin
      BY <1>3 DEF Throw, server
    <2>5. WithinInv'
      BY <2>1, <2>3, <2>4 DEF OrderInv, WithinInv, Within
    <2> QED BY <2>5, <1>1 DEF OrderInv, InOrder
  <1> QED BY <1>2, <1>3

-----------------------------------------------------------------------------
(* The steps that move events.                                             *)

LEMMA CarriedBoth ==
  ASSUME NEW u \in Seq(Frame), NEW f \in Frame, f.type = "events"
  PROVE  Carried(u) \cup f.events \subseteq Carried(Append(u, f))
  <1> DEFINE v == Append(u, f)
  <1>1. /\ Len(u) \in Nat /\ Len(v) = Len(u) + 1 /\ v[Len(u) + 1] = f
        /\ \A i \in 1..Len(u) : v[i] = u[i]
    OBVIOUS
  <1> HIDE DEF v
  <1>2. Len(u) + 1 \in 1..Len(v) /\ \A i \in 1..Len(u) : i \in 1..Len(v)
    BY <1>1
  <1>3. f.events \in SUBSET Event
    BY FrameEvents
  <1> QED BY <1>1, <1>2, <1>3 DEF Carried, v

\* A frame at the end of a queue stays within what its events are within.
LEMMA WithinAppend ==
  ASSUME NEW s, NEW u \in Seq(Frame), NEW f \in Frame, NEW l, f.type = "events",
         Within(s, u, l), \A e \in f.events : e.seq <= l
  PROVE  Within(s, Append(u, f), l)
  <1> DEFINE v == Append(u, f)
  <1>1. Len(u) \in Nat /\ v[Len(u) + 1] = f /\ \A i \in 1..Len(u) : v[i] = u[i]
    OBVIOUS
  <1>2. \A i \in 1..Len(v) : i \in 1..Len(u) \/ i = Len(u) + 1
    OBVIOUS
  <1> HIDE DEF v
  <1>3. ASSUME NEW i \in 1..Len(v)
        PROVE  /\ v[i].type = "hello" => v[i].last <= l
               /\ v[i].type = "events" => \A e \in v[i].events : e.seq <= l
    BY <1>1, <1>2 DEF Within
  <1> QED BY <1>3 DEF Within, v

\* What is within a number is within a greater one.
LEMMA WithinMore ==
  ASSUME NEW s \in SessionType, NEW u \in Seq(Frame), NEW l \in Nat, Within(s, u, l)
  PROVE  Within(s, u, l + 1)
  <1>1. s.acked \in Nat /\ s.window \in SUBSET Nat /\ s.batch \in SUBSET Event
    BY DEF SessionType
  <1>2. ASSUME NEW i \in 1..Len(u)
        PROVE  /\ u[i].type = "hello" => u[i].last <= l + 1
               /\ u[i].type = "events" => \A e \in u[i].events : e.seq <= l + 1
    <2>1. u[i] \in Frame
      OBVIOUS
    <2>2. u[i].type = "hello" => u[i].last \in Nat
      BY <2>1 DEF Frame
    <2>3. u[i].type = "events" => u[i].events \in SUBSET Event
      BY <2>1, FrameEvents
    <2> QED BY <2>2, <2>3 DEF Within, Event
  <1> QED BY <1>1, <1>2 DEF Within, Event

\* What a session was sent covers what was said: the events that are owed, or the new one.
LEMMA EmitOrder == TypeInv /\ LogInv /\ OrderInv /\ Emit => OrderInv'
  <1> SUFFICES ASSUME TypeInv, LogInv, OrderInv, Emit PROVE OrderInv'
    OBVIOUS
  <1> DEFINE e == [seq |-> buffer.last + 1, hint |-> plugin.hint + 1, id |-> said + 1]
             f == Events({e})
             c == plugin.conn
  <1>0. TypeOK /\ said \in Nat /\ buffer.last \in Nat /\ plugin.hint \in Nat
    BY DEF TypeInv, TypeOK, BufferType, PluginType
  <1>1. /\ UNCHANGED <<log, session, throws, wipes, renumbered>> /\ said' = said + 1
        /\ buffer'.last = buffer.last + 1 /\ buffer'.pending = buffer.pending \cup {e}
        /\ LogIds' = LogIds
    BY DEF Emit, store, fate, LogIds
  <1>2. Sound' = Sound /\ plugin'.conn = c /\ plugin'.welcomed = plugin.welcomed
    BY <1>0, <1>1 DEF Sound, Emit, TypeOK, PluginType
  <1>3. e \in Event /\ e.seq = buffer.last + 1 /\ e.id = said + 1
    BY <1>0 DEF Event
  <1>4. f \in Frame /\ f.type = "events" /\ f.events = {e}
    BY <1>3 DEF Events, Frame
  <1>5. plugin.welcomed => c \in Sockets
    BY <1>0 DEF TypeOK, PluginType
  <1>6. \A d \in Sockets : /\ wire[d] \in WireType /\ wire[d].up \in Seq(Frame)
                           /\ session[d] \in SessionType
    BY <1>0, Parts
  <1>7. \/ wire' = wire /\ (plugin.welcomed => wire[c].end = "closed")
        \/ /\ plugin.welcomed /\ wire[c].end # "closed" /\ wire'[c].end = wire[c].end
           /\ wire'[c].up = Append(wire[c].up, f)
           /\ \A d \in Sockets : d # c => wire'[d].up = wire[d].up
    <2>1. CASE ~plugin.welcomed
      BY <2>1 DEF Emit
    <2>2. CASE plugin.welcomed /\ wire[c].end = "closed"
      <3>1. wire' = [wire EXCEPT ![c].up = @]
        BY <2>2 DEF Emit, SendUp
      <3>2. wire' = wire
        BY <3>1, <2>2, <1>0, <1>5, <1>6 DEF TypeOK, WireType
      <3> QED BY <3>2, <2>2
    <2>3. CASE plugin.welcomed /\ wire[c].end # "closed"
      <3>1. wire' = [wire EXCEPT ![c].up = Append(@, f)]
        BY <2>3 DEF Emit, SendUp
      <3> HIDE DEF f, c
      <3> QED BY <3>1, <2>3, <1>0, <1>5, <1>6 DEF TypeOK, WireType
    <2> QED BY <2>1, <2>2, <2>3
  <1> HIDE DEF e, f, c
  <1>8. ASSUME Sound, plugin.welcomed, wire[c].end # "closed"
        PROVE  \A S : Carried(wire[c].up) \cup {e} \subseteq S =>
                   Covers(LogIds, session[c].batch \cup S, said + 1)
    <2> SUFFICES ASSUME NEW S, Carried(wire[c].up) \cup {e} \subseteq S, NEW m \in 1..(said + 1)
                 PROVE  m \in LogIds \/ \E g \in session[c].batch \cup S : g.id = m
      BY DEF Covers
    <2>1. FlowInv
      BY <1>8 DEF OrderInv
    <2>2. Covers(LogIds, session[c].batch \cup Carried(wire[c].up), said)
      BY <2>1, <1>8 DEF FlowInv, c
    <2>3. CASE m \in 1..said
      BY <2>2, <2>3 DEF Covers
    <2>4. CASE m = e.id
      BY <2>4
    <2> QED BY <2>3, <2>4, <1>0, <1>3
  <1>9. ASSUME Sound PROVE PipeInv' /\ FlowInv'
    <2>1. PipeInv
      BY <1>9 DEF OrderInv
    <2>2. CASE wire' = wire /\ (plugin.welcomed => wire[c].end = "closed")
      BY <2>1, <2>2, <1>1, <1>2 DEF PipeInv, FlowInv
    <2>3. CASE /\ plugin.welcomed /\ wire[c].end # "closed" /\ wire'[c].end = wire[c].end
               /\ wire'[c].up = Append(wire[c].up, f)
               /\ \A d \in Sockets : d # c => wire'[d].up = wire[d].up
      <3>1. Piped(LogIds, session[c].batch, wire[c].up)
        BY <2>1, <2>3, <1>5 DEF PipeInv
      <3>2. Covers(LogIds, session[c].batch \cup Carried(wire[c].up) \cup f.events, e.id)
        <4>1. Covers(LogIds, session[c].batch \cup (Carried(wire[c].up) \cup {e}), said + 1)
          BY <2>3, <1>8, <1>9
        <4>2. session[c].batch \cup (Carried(wire[c].up) \cup {e})
                  = session[c].batch \cup Carried(wire[c].up) \cup f.events
          BY <1>4
        <4> QED BY <4>1, <4>2, <1>3
      <3>3. Piped(LogIds, session[c].batch, wire'[c].up)
        <4>1. wire[c].up \in Seq(Frame)
          BY <2>3, <1>5, <1>6
        <4>2. \A g \in f.events : Covers(LogIds, session[c].batch \cup Carried(wire[c].up) \cup f.events, g.id)
          BY <3>2, <1>4
        <4> QED BY <4>1, <4>2, <3>1, <2>3, <1>4, PipedAppend
      <3>4. PipeInv'
        BY <2>1, <2>3, <3>3, <1>1 DEF PipeInv
      <3>5. Carried(wire[c].up) \cup {e} \subseteq Carried(wire'[c].up)
        <4>1. wire[c].up \in Seq(Frame)
          BY <2>3, <1>5, <1>6
        <4> QED BY <4>1, <2>3, <1>4, CarriedBoth
      <3>6. Covers(LogIds, session[c].batch \cup Carried(wire'[c].up), said + 1)
        BY <3>5, <2>3, <1>8, <1>9
      <3>7. FlowInv'
        BY <3>6, <1>1, <1>2 DEF FlowInv
      <3> QED BY <3>4, <3>7
    <2> QED BY <2>2, <2>3, <1>7
  <1>10. WithinInv'
    <2>1. \A g \in buffer'.pending : g.seq <= buffer'.last
      <3>1. \A g \in buffer.pending : g.seq \in Nat /\ g.seq <= buffer.last
        BY <1>0 DEF OrderInv, WithinInv, TypeOK, BufferType, Event
      <3> QED BY <3>1, <1>0, <1>1, <1>3
    <2>2. ASSUME c \in Sockets PROVE Within(session[c], wire'[c].up, buffer'.last)
      <3>1. Within(session[c], wire[c].up, buffer'.last)
        <4>1. Within(session[c], wire[c].up, buffer.last)
          BY <2>2 DEF OrderInv, WithinInv, c
        <4> QED BY <4>1, <2>2, <1>0, <1>1, <1>6, WithinMore
      <3>2. CASE wire' = wire
        BY <3>1, <3>2
      <3>3. CASE wire'[c].up = Append(wire[c].up, f)
        <4>1. \A g \in f.events : g.seq <= buffer'.last
          BY <1>0, <1>1, <1>3, <1>4
        <4> QED BY <4>1, <3>1, <3>3, <2>2, <1>4, <1>6, WithinAppend
      <3> QED BY <3>2, <3>3, <1>7
    <2> QED BY <2>1, <2>2, <1>1, <1>2 DEF WithinInv, c
  <1>11. InOrder'
    BY <1>1, <1>2 DEF OrderInv, InOrder
  <1> QED BY <1>2, <1>9, <1>10, <1>11 DEF OrderInv

\* The resend: what is not in the log is sent in one frame, whatever else is on the socket.
LEMMA OnWelcomeOrder == TypeInv /\ LogInv /\ OrderInv /\ OnWelcome => OrderInv'
  <1> SUFFICES ASSUME TypeInv, LogInv, OrderInv, OnWelcome PROVE OrderInv'
    OBVIOUS
  <1> DEFINE owed == {e \in buffer.pending : e.seq > Heard.acked}
             f == Events(owed)
             c == plugin.conn
  <1>0. TypeOK /\ Hears("welcome") /\ c \in Sockets /\ said \in Nat
    BY Listened DEF TypeInv, OnWelcome, TypeOK
  <1>1. /\ UNCHANGED <<said, log, session, throws, wipes, renumbered>>
        /\ buffer'.pending = owed /\ buffer'.last = buffer.last /\ LogIds' = LogIds
    BY <1>0 DEF OnWelcome, store, fate, LogIds, TypeOK, BufferType
  <1>2. Sound' = Sound /\ plugin'.conn = c
    BY <1>0, <1>1 DEF Sound, OnWelcome, TypeOK, PluginType
  <1>3. /\ owed \in SUBSET Event /\ owed \subseteq buffer.pending
        /\ f \in Frame /\ f.type = "events" /\ f.events = owed
    BY <1>0 DEF Events, Frame, TypeOK, BufferType
  <1>4. \A d \in Sockets : wire[d].up \in Seq(Frame)
    BY <1>0, Parts
  <1>5. /\ Listening \in [Sockets -> WireType]
        /\ \A d \in Sockets : Listening[d].up = wire[d].up /\ Listening[d].end = wire[d].end
    BY <1>0, Listened
  <1>6. /\ \A d \in Sockets : wire'[d].end = wire[d].end /\ (d # c => wire'[d].up = wire[d].up)
        /\ \/ wire'[c].up = wire[c].up /\ (owed = {} \/ wire[c].end = "closed")
           \/ wire'[c].up = Append(wire[c].up, f)
    <2>1. CASE wire' = Listening /\ (owed = {} \/ wire[c].end = "closed")
      BY <2>1, <1>0, <1>5
    <2>2. CASE wire' = [Listening EXCEPT ![c].up = Append(@, f)]
      <3> HIDE DEF f, c
      <3> QED BY <2>2, <1>0, <1>5 DEF WireType
    <2> QED BY <2>1, <2>2 DEF OnWelcome
  <1>7. ASSUME Sound, NEW m \in 1..said PROVE m \in LogIds \/ \E e \in owed : e.id = m
    <2>1. m \in LogIds \/ \E e \in buffer.pending : e.id = m
      BY <1>7 DEF LogInv, NothingLost, Kept
    <2>2. ASSUME NEW e \in buffer.pending, e \notin owed PROVE e.id \in LogIds
      <3>1. Forgets(Heard) \subseteq LogIds /\ e.seq = e.id /\ e.id \in 1..said
        BY <1>0, <1>7, HeardNamed DEF TypeInv
      <3>2. Heard.type = "welcome" /\ Heard.acked \in Nat
        BY <1>0, Listened DEF Answer
      <3>3. e.id \in 1..Heard.acked
        BY <3>1, <3>2, <2>2, <1>0
      <3> QED BY <3>1, <3>2, <3>3 DEF Forgets
    <2> QED BY <2>1, <2>2
  <1> HIDE DEF owed, f, c
  <1>8. ASSUME Sound, NEW S, owed \subseteq S, NEW n \in Nat, n <= said PROVE Covers(LogIds, S, n)
    <2>1. \A m \in 1..n : m \in 1..said
      BY <1>0, <1>8
    <2> QED BY <2>1, <1>7, <1>8 DEF Covers
  <1>9. ASSUME Sound PROVE PipeInv' /\ FlowInv'
    <2>1. PipeInv
      BY <1>9 DEF OrderInv
    <2>2. Piped(LogIds, session[c].batch, wire[c].up)
      BY <2>1, <1>0 DEF PipeInv
    <2>3. Piped(LogIds, session[c].batch, wire'[c].up)
      <3>1. CASE wire'[c].up = wire[c].up
        BY <3>1, <2>2
      <3>2. CASE wire'[c].up = Append(wire[c].up, f)
        <4>1. ASSUME NEW e \in f.events
              PROVE  Covers(LogIds, session[c].batch \cup Carried(wire[c].up) \cup f.events, e.id)
          <5>1. e \in World
            BY <4>1, <1>3 DEF World
          <5>2. e.id \in Nat /\ e.id <= said
            BY <5>1, <1>0 DEF LogInv, WorldInv
          <5>3. owed \subseteq session[c].batch \cup Carried(wire[c].up) \cup f.events
            BY <1>3
          <5> QED BY <5>2, <5>3, <1>8, <1>9
        <4>2. wire[c].up \in Seq(Frame)
          BY <1>0, <1>4
        <4> QED BY <4>1, <4>2, <3>2, <2>2, <1>3, PipedAppend
      <3> QED BY <3>1, <3>2, <1>6
    <2>4. PipeInv'
      BY <2>1, <2>3, <1>1, <1>6 DEF PipeInv
    <2>5. ASSUME wire[c].end # "closed"
          PROVE  Covers(LogIds, session[c].batch \cup Carried(wire'[c].up), said)
      <3>1. owed \subseteq Carried(wire'[c].up)
        <4>1. CASE wire'[c].up = Append(wire[c].up, f)
          BY <4>1, <1>0, <1>3, <1>4, CarriedBoth
        <4> QED BY <4>1, <2>5, <1>6
      <3>2. owed \subseteq session[c].batch \cup Carried(wire'[c].up) /\ said <= said
        BY <3>1, <1>0
      <3> QED BY <3>2, <1>0, <1>8, <1>9
    <2>6. FlowInv'
      BY <2>5, <1>0, <1>1, <1>2, <1>6 DEF FlowInv
    <2> QED BY <2>4, <2>6
  <1>10. WithinInv'
    <2>1. \A e \in owed : e.seq <= buffer.last
      BY <1>3 DEF OrderInv, WithinInv
    <2>2. Within(session[c], wire[c].up, buffer.last)
      BY <1>0 DEF OrderInv, WithinInv, c
    <2>3. Within(session[c], wire'[c].up, buffer.last)
      <3>1. CASE wire'[c].up = Append(wire[c].up, f)
        BY <3>1, <2>1, <2>2, <1>0, <1>3, <1>4, WithinAppend
      <3> QED BY <3>1, <2>2, <1>6
    <2> QED BY <2>1, <2>3, <1>1, <1>2 DEF WithinInv
  <1>11. InOrder'
    BY <1>1, <1>2 DEF OrderInv, InOrder
  <1> QED BY <1>2, <1>9, <1>10, <1>11 DEF OrderInv

LEMMA TakeOrder == ASSUME NEW c \in Sockets PROVE TypeInv /\ OrderInv /\ Take(c) => OrderInv'
  <1> SUFFICES ASSUME TypeInv, OrderInv, Take(c) PROVE OrderInv'
    OBVIOUS
  <1> DEFINE u == wire[c].up
  <1>0. TypeOK /\ FrameAt(c)
    BY DEF TypeInv, FrameInv
  <1>1. /\ UNCHANGED <<buffer, plugin, said, log, throws, wipes, renumbered>> /\ LogIds' = LogIds
        /\ u # <<>> /\ session[c].at = "ready" /\ session[c].batch = {}
    BY DEF Take, server, store, fate, LogIds
  <1>2. Sound' = Sound
    BY <1>1 DEF Sound
  <1>3. u \in Seq(Frame)
    BY <1>0, Parts
  <1>4. Head(u) = u[1] /\ 1 \in 1..Len(u) /\ Head(u).type = "events"
    <2>1. Head(u) = u[1] /\ 1 \in 1..Len(u)
      BY <1>1, <1>3
    <2> QED BY <2>1, <1>0, <1>1 DEF FrameAt
  <1>5. \A d \in Sockets : wire[d] \in WireType /\ session[d] \in SessionType
    BY <1>0, Parts
  <1>6. /\ wire'[c].up = Tail(u)
        /\ \A d \in Sockets : wire'[d].end = wire[d].end /\ (d # c => wire'[d].up = wire[d].up)
    BY <1>0, <1>5 DEF Take, TypeOK, WireType
  <1>7. /\ session'[c].batch = Head(u).events
        /\ session'[c].acked = session[c].acked /\ session'[c].window = session[c].window
        /\ \A d \in Sockets : d # c => session'[d] = session[d]
    BY <1>0, <1>5 DEF Take, TypeOK, SessionType
  <1> HIDE DEF u
  <1>8. ASSUME Sound PROVE PipeInv' /\ FlowInv'
    <2>1. PipeInv /\ FlowInv
      BY <1>8 DEF OrderInv
    <2>2. Piped(LogIds, {}, u)
      BY <2>1, <1>1 DEF PipeInv, u
    <2>3. /\ Piped(LogIds, Head(u).events, Tail(u))
          /\ Carried(u) \subseteq Head(u).events \cup Carried(Tail(u))
      BY <2>2, <1>1, <1>3, <1>4, PipedTake
    <2>4. PipeInv'
      BY <2>1, <2>3, <1>1, <1>6, <1>7 DEF PipeInv
    <2>5. FlowInv'
      <3>1. CASE plugin.conn = c
        <4>1. ASSUME plugin.welcomed, wire[c].end # "closed"
              PROVE  Covers(LogIds, session'[c].batch \cup Carried(wire'[c].up), said)
          <5>1. Covers(LogIds, session[c].batch \cup Carried(u), said)
            BY <4>1, <3>1, <2>1 DEF FlowInv, u
          <5>2. session[c].batch \cup Carried(u) \subseteq session'[c].batch \cup Carried(wire'[c].up)
            BY <2>3, <1>1, <1>6, <1>7
          <5> QED BY <5>1, <5>2, CoversMore
        <4> QED BY <4>1, <3>1, <1>1, <1>6 DEF FlowInv
      <3>2. CASE plugin.conn # c
        <4>1. plugin.welcomed => plugin.conn \in Sockets
          BY <1>0 DEF TypeOK, PluginType
        <4> QED BY <4>1, <3>2, <2>1, <1>1, <1>6, <1>7 DEF FlowInv
      <3> QED BY <3>1, <3>2
    <2> QED BY <2>4, <2>5
  <1>9. WithinInv'
    <2>1. CASE plugin.conn = c
      <3>1. Within(session[c], u, buffer.last)
        BY <2>1 DEF OrderInv, WithinInv, u
      <3>2. /\ Len(u) \in Nat /\ Len(Tail(u)) = Len(u) - 1
            /\ \A i \in 1..Len(Tail(u)) : Tail(u)[i] = u[i + 1] /\ i + 1 \in 1..Len(u)
        BY <1>1, <1>3
      <3>3. Within(session'[c], Tail(u), buffer.last)
        BY <3>1, <3>2, <1>4, <1>7 DEF Within
      <3> QED BY <3>3, <2>1, <1>1, <1>6 DEF OrderInv, WithinInv
    <2>2. CASE plugin.conn # c
      BY <2>2, <1>1, <1>6, <1>7 DEF OrderInv, WithinInv
    <2> QED BY <2>1, <2>2
  <1>10. InOrder'
    BY <1>1, <1>2 DEF OrderInv, InOrder
  <1> QED BY <1>2, <1>8, <1>9, <1>10 DEF OrderInv

\* A frame's first event is before the rest of it.
LEMMA LeastFirst ==
  ASSUME NEW es \in SUBSET Event, es # {}
  PROVE  \A e \in es : Least(es).seq <= e.seq
  <1> DEFINE S == {e.seq : e \in es}
  <1>1. S \in SUBSET Nat /\ S # {}
    BY DEF Event
  <1>2. PICK n \in S : \A m \in S : n <= m
    BY <1>1, LeastNumber
  <1>3. \E e \in es : \A f \in es : e.seq <= f.seq
    BY <1>2
  <1> QED BY <1>3 DEF Least

\* The event that is taken has all before it in the log: in its batch it is the first.
LEMMA IngestOrder ==
  ASSUME NEW c \in Sockets PROVE TypeInv /\ LogInv /\ OrderInv /\ Ingest(c) => OrderInv'
  <1> SUFFICES ASSUME TypeInv, LogInv, OrderInv, Ingest(c) PROVE OrderInv'
    OBVIOUS
  <1> DEFINE b == session[c].batch
             e == Least(b)
             rest == [session[c] EXCEPT !.batch = @ \ {e}, !.results = @ \cup {e.seq}]
             new == ~Taken(session[c], e.seq) /\ e.hint \notin seen
             s == IF Taken(session[c], e.seq) THEN rest ELSE Advanced(rest, e.seq)
  <1>0. TypeOK /\ FrameAt(c) /\ session[c] \in SessionType /\ buffer.last \in Nat
    BY Parts DEF TypeInv, FrameInv
  <1>1. /\ UNCHANGED <<buffer, plugin, said, wire, throws, wipes, renumbered>>
        /\ session' = [session EXCEPT ![c] = s]
        /\ log' = IF new THEN Append(log, e) ELSE log
        /\ b # {}
    BY DEF Ingest, server, fate
  <1>2. e \in b /\ e \in Event /\ b \in SUBSET Event /\ \A f \in b : e.seq <= f.seq
    <2>1. b \in SUBSET Event
      BY <1>0 DEF SessionType
    <2> QED BY <2>1, <1>1, LeastEvent, LeastFirst
  <1>3. Sound' = Sound
    BY <1>1 DEF Sound
  <1> HIDE DEF e
  <1>4. e.seq \in Nat /\ IsFiniteSet(session[c].window) /\ log \in Seq(Event)
    BY <1>0, <1>2 DEF Event, FrameAt, TypeOK
  <1>5. /\ rest \in SessionType /\ rest.acked = session[c].acked /\ rest.window = session[c].window
        /\ rest.batch = b \ {e} /\ rest.results = session[c].results \cup {e.seq}
    BY <1>0, <1>4 DEF SessionType
  <1>6. /\ s.batch = b \ {e} /\ e.seq \in s.results
        /\ s.acked \in Nat
        /\ s.window \subseteq session[c].window \cup {e.seq}
        /\ \A n \in 1..s.acked : n \in 1..session[c].acked \/ n \in session[c].window \cup {e.seq}
    <2> HIDE DEF rest
    <2>1. CASE Taken(session[c], e.seq)
      BY <2>1, <1>0, <1>5 DEF SessionType
    <2>2. CASE ~Taken(session[c], e.seq)
      BY <2>2, <1>4, <1>5, AdvancedTyped
    <2> QED BY <2>1, <2>2
  <1> HIDE DEF s
  <1>7. session'[c] = s /\ \A d \in Sockets : d # c => session'[d] = session[d]
    BY <1>0, <1>1 DEF TypeOK
  <1>8. \A d \in Sockets : wire'[d] = wire[d]
    BY <1>1
  <1>9. LogInv'
    BY IngestLog
  <1>10. Len(log) \in Nat /\ LogIds \subseteq LogIds'
    <2>1. CASE new
      <3>1. \A i \in 1..Len(log) : log'[i] = log[i] /\ i \in 1..Len(log')
        BY <2>1, <1>1, <1>2, <1>4
      <3> QED BY <3>1, <1>4 DEF LogIds
    <2>2. CASE ~new
      BY <2>2, <1>1, <1>4 DEF LogIds
    <2> QED BY <2>1, <2>2
  <1>11. ASSUME Sound
         PROVE  /\ \A f \in b : f.seq = f.id
                /\ e.id \in LogIds'
    <2>1. \A f \in b : f \in World
      BY DEF World, Copies
    <2>2. \A f \in b : f.seq = f.id
      BY <2>1, <1>11 DEF LogInv, NamesInv
    <2>3. session'[c].results \subseteq LogIds'
      BY <1>3, <1>9, <1>11 DEF LogInv, CountInv, Counts
    <2> QED BY <2>2, <2>3, <1>2, <1>6, <1>7
  <1>12. ASSUME Sound PROVE PipeInv' /\ FlowInv'
    <2>1. PipeInv /\ FlowInv
      BY <1>12 DEF OrderInv
    <2>2. ASSUME NEW d \in Sockets PROVE Piped(LogIds', session'[d].batch, wire'[d].up)
      <3>1. Piped(LogIds, session[d].batch, wire[d].up)
        BY <2>1 DEF PipeInv
      <3>2. CASE d = c
        <4>1. Piped(LogIds', b \ {e}, wire[c].up)
          BY <3>1, <3>2, <1>10, <1>11, <1>12, PipedTaken
        <4> QED BY <4>1, <3>2, <1>6, <1>7, <1>8
      <3>3. CASE d # c
        BY <3>1, <3>3, <1>7, <1>8, <1>10, PipedMore
      <3> QED BY <3>2, <3>3
    <2>3. PipeInv'
      BY <2>2 DEF PipeInv
    <2>4. ASSUME plugin.welcomed, wire[plugin.conn].end # "closed"
          PROVE  Covers(LogIds', session'[plugin.conn].batch \cup Carried(wire[plugin.conn].up), said)
      <3>1. plugin.conn \in Sockets
        BY <2>4, <1>0 DEF TypeOK, PluginType
      <3>2. Covers(LogIds, session[plugin.conn].batch \cup Carried(wire[plugin.conn].up), said)
        BY <2>1, <2>4 DEF FlowInv
      <3>3. CASE plugin.conn = c
        <4>1. \A f \in b : f \in session'[c].batch \/ f.id \in LogIds'
          BY <1>6, <1>7, <1>11, <1>12
        <4> QED BY <4>1, <3>2, <3>3, <1>10 DEF Covers
      <3>4. CASE plugin.conn # c
        BY <3>1, <3>2, <3>4, <1>7, <1>10 DEF Covers
      <3> QED BY <3>3, <3>4
    <2>5. FlowInv'
      BY <2>4, <1>1 DEF FlowInv
    <2> QED BY <2>3, <2>5
  <1>13. WithinInv'
    <2>1. ASSUME plugin.conn = c PROVE Within(s, wire[c].up, buffer.last)
      <3>1. Within(session[c], wire[c].up, buffer.last)
        BY <2>1 DEF OrderInv, WithinInv
      <3>2. e.seq <= buffer.last /\ session[c].acked \in Nat /\ session[c].acked <= buffer.last
        BY <3>1, <1>0, <1>2 DEF Within, SessionType
      <3>3. \A n \in session[c].window \cup {e.seq} : n <= buffer.last
        BY <3>1, <3>2 DEF Within
      <3>4. s.acked <= buffer.last
        <4>1. CASE s.acked = 0
          BY <4>1, <1>0
        <4>2. CASE s.acked # 0
          <5>1. s.acked \in 1..s.acked
            BY <4>2, <1>6
          <5>2. s.acked \in 1..session[c].acked \/ s.acked \in session[c].window \cup {e.seq}
            BY <5>1, <1>6
          <5> QED BY <5>2, <3>2, <3>3, <1>0, <1>6
        <4> QED BY <4>1, <4>2
      <3> QED BY <3>1, <3>3, <3>4, <1>6 DEF Within
    <2>2. CASE plugin.conn = c
      BY <2>1, <2>2, <1>1, <1>7, <1>8 DEF OrderInv, WithinInv
    <2>3. CASE plugin.conn # c
      BY <2>3, <1>1, <1>7, <1>8 DEF OrderInv, WithinInv
    <2> QED BY <2>2, <2>3
  <1>14. InOrder'
    <2>1. CASE ~new
      BY <2>1, <1>1, <1>3 DEF OrderInv, InOrder
    <2>2. CASE new /\ Sound
      <3>1. /\ \A i \in 1..Len(log) : log'[i] = log[i]
            /\ Len(log') = Len(log) + 1 /\ log'[Len(log) + 1] = e
        BY <2>2, <1>1, <1>2, <1>4
      <3> HIDE DEF new
      <3>2. ASSUME NEW i \in 1..Len(log'), NEW m \in 1..(log'[i].id)
            PROVE  \E k \in 1..i : log'[k].id = m
        <4>1. CASE i \in 1..Len(log)
          <5>1. \E k \in 1..i : log[k].id = m
            BY <4>1, <3>1, <3>2, <2>2 DEF OrderInv, InOrder
          <5>2. \A k \in 1..i : k \in 1..Len(log)
            BY <4>1, <1>10
          <5> QED BY <5>1, <5>2, <3>1
        <4>2. CASE i = Len(log) + 1
          <5>1. log'[i] = e /\ i \in 1..i
            BY <4>2, <3>1, <1>10
          <5>2. CASE m = e.id
            BY <5>1, <5>2
          <5>3. CASE m # e.id
            <6>1. Covers(LogIds, b, e.id)
              BY <2>2, <1>2 DEF OrderInv, PipeInv, Piped
            <6>2. m \in LogIds \/ \E f \in b : f.id = m
              BY <6>1, <5>1 DEF Covers
            <6>3. ASSUME NEW f \in b, f.id = m PROVE FALSE
              <7>1. f.seq = f.id /\ e.seq = e.id /\ e.seq <= f.seq /\ e.seq \in Nat
                BY <6>3, <2>2, <1>2, <1>4, <1>11
              <7>2. m < e.id
                BY <7>1, <5>1, <5>3
              <7> QED BY <7>1, <7>2, <6>3
            <6>4. \E k \in 1..Len(log) : log[k].id = m
              BY <6>2, <6>3 DEF LogIds
            <6>5. \A k \in 1..Len(log) : k \in 1..i
              BY <4>2, <1>10
            <6> QED BY <6>4, <6>5, <3>1
          <5> QED BY <5>2, <5>3
        <4> QED BY <4>1, <4>2, <3>1, <1>10
      <3> QED BY <3>2 DEF InOrder
    <2>3. CASE ~Sound
      BY <2>3, <1>3 DEF InOrder
    <2> QED BY <2>1, <2>2, <2>3
  <1> QED BY <1>3, <1>12, <1>13, <1>14 DEF OrderInv

-----------------------------------------------------------------------------
\* The inductive invariant, on top of the types and the log: every event has those before it
\* in front of it, and nothing is counted that its server is yet to hand out.
THEOREM OrderInvariant == Spec => []OrderInv
  <1>1. Init => OrderInv
    BY InitOrder
  <1>2. TypeInv /\ LogInv /\ OrderInv /\ [Next]_vars => OrderInv'
    <2> SUFFICES ASSUME TypeInv, LogInv, OrderInv, [Next]_vars PROVE OrderInv'
      OBVIOUS
    <2>1. CASE Plugin
      BY <2>1, EmitOrder, OnWelcomeOrder, HeardOrder, LeftOrder, DialOrder DEF Plugin
    <2>2. CASE \E c \in Sockets : Orchestrator(c)
      <3>1. PICK c \in Sockets : Orchestrator(c)
        BY <2>2
      <3>2. 0 \in 0..Len(wire[c].up)
        <4>1. wire[c].up \in Seq(Frame)
          BY Parts DEF TypeInv
        <4>2. Len(wire[c].up) \in Nat
          BY <4>1
        <4> QED BY <4>2
      <3>3. GreetTooLate(c) => OrderInv'
        BY <3>2, CutOrder
      <3> QED BY <3>1, <3>3, GreetOrder, AnsweredOrder, TakeOrder, IngestOrder DEF Orchestrator
    <2>3. CASE Network
      BY <2>3, LeftOrder, CutOrder DEF Network
    <2>4. CASE Fault
      BY <2>4, CrashOrder, LeftOrder, LossOrder DEF Fault
    <2>5. CASE UNCHANGED vars
      <3>1. UNCHANGED <<buffer, plugin, said, wire, session, log, throws, wipes, renumbered>>
        BY <2>5 DEF vars, server, store, fate
      <3>2. plugin.welcomed => plugin.conn \in Sockets
        BY DEF TypeInv, TypeOK, PluginType
      <3>3. Sound' = Sound
        BY <3>1 DEF Sound
      <3> QED BY <3>1, <3>2, <3>3, Calm
    <2> QED BY <2>1, <2>2, <2>3, <2>4, <2>5 DEF Next
  <1> QED BY <1>1, <1>2, TypeInvariant, LogInvariant, PTL DEF Spec

\* The match's log has no gap: what one event led to is never logged before the event, however
\* the sockets break, are replaced, and send again.
THEOREM LoggedInOrder == Spec => []InOrder
  <1>1. OrderInv => InOrder
    BY DEF OrderInv
  <1> QED BY <1>1, OrderInvariant, PTL

\* No session that answers its plugin counts a seq the plugin's buffer is yet to hand out, not
\* even after the plugin lost its buffer.
THEOREM NeverCountedAhead == Spec => []NeverAhead
  <1>1. TypeInv /\ OrderInv => NeverAhead
    BY DEF TypeInv, TypeOK, PluginType, OrderInv, WithinInv, Within, NeverAhead
  <1> QED BY <1>1, TypeInvariant, OrderInvariant, PTL

-----------------------------------------------------------------------------
(***************************************************************************)
(* The feed.                                                               *)
(*                                                                         *)
(* A plugin that keeps running and dials with no assignment on its hands   *)
(* is assigned its match once: what it said of the match it holds, in the  *)
(* hello of the socket it is on, stays true until that hello is answered.  *)
(* So its hints never start over, and with a log in order every event that *)
(* is logged for the first time is the next one.                           *)
(***************************************************************************)

NoAssign(u)  == \A i \in 1..Len(u) : u[i].type # "assign"
OneAssign(u) == \A i, k \in 1..Len(u) : u[i].type = "assign" /\ u[k].type = "assign" => i = k

\* The hello of a socket is still to be answered.
Unasked(c)  == session[c].at = "none" /\ wire[c].end = "open"
Unmatched(c) == Unasked(c) \/ session[c].at = "greeting"

\* The socket the plugin is on: a plugin that is to be assigned, or is being assigned, holds none.
AssignAt(c) ==
    /\ Unasked(c) => wire[c].up # <<>> /\ wire[c].up[1].held = plugin.held
    /\ session[c].at = "greeting" => session[c].held = plugin.held
    /\ Unmatched(c) => plugin.inbox = 0
    /\ Unmatched(c) \/ plugin.inbox > 0 => NoAssign(wire[c].down)
    /\ ~NoAssign(wire[c].down) => ~plugin.held /\ OneAssign(wire[c].down)

AssignInv ==
    /\ Sound
    /\ ~plugin.held => said = 0
    /\ plugin.inbox > 0 => plugin.inbox = 1 /\ ~plugin.held
    /\ \A c \in Sockets : plugin.conn = c => AssignAt(c)

LEMMA InitAssign == Init => AssignInv
  BY LinkAssumption DEF Init, AssignInv, Sound, Unlinked

-----------------------------------------------------------------------------
(* Queues and sockets.                                                     *)

LEMMA AssignTail ==
  ASSUME NEW u \in Seq(Answer), u # <<>>
  PROVE  /\ NoAssign(u) => NoAssign(Tail(u))
         /\ OneAssign(u) => OneAssign(Tail(u))
         /\ OneAssign(u) /\ u[1].type = "assign" => NoAssign(Tail(u))
  <1>1. /\ Len(u) \in Nat \ {0} /\ Len(Tail(u)) = Len(u) - 1
        /\ \A i \in 1..Len(Tail(u)) : Tail(u)[i] = u[i + 1]
    BY EmptySeq
  <1>2. \A i \in 1..Len(Tail(u)) : i + 1 \in 1..Len(u) /\ i + 1 # 1 /\ 1 \in 1..Len(u)
    BY <1>1
  <1>3. NoAssign(u) => NoAssign(Tail(u))
    BY <1>1, <1>2 DEF NoAssign
  <1>4. ASSUME OneAssign(u), NEW i \in 1..Len(Tail(u)), NEW k \in 1..Len(Tail(u)),
               Tail(u)[i].type = "assign", Tail(u)[k].type = "assign"
        PROVE  i = k
    <2>1. i + 1 = k + 1
      BY <1>1, <1>2, <1>4 DEF OneAssign
    <2> QED BY <2>1, <1>1
  <1>5. OneAssign(u) /\ u[1].type = "assign" => NoAssign(Tail(u))
    BY <1>1, <1>2 DEF OneAssign, NoAssign
  <1> QED BY <1>3, <1>4, <1>5 DEF OneAssign

LEMMA AssignAppend ==
  ASSUME NEW u \in Seq(Answer), NEW f \in Answer, f.type # "assign"
  PROVE  /\ NoAssign(u) => NoAssign(Append(u, f))
         /\ OneAssign(u) => OneAssign(Append(u, f))
  <1>1. /\ Len(u) \in Nat /\ Len(Append(u, f)) = Len(u) + 1
        /\ \A i \in 1..Len(Append(u, f)) : Append(u, f)[i] = IF i = Len(u) + 1 THEN f ELSE u[i]
        /\ \A i \in 1..Len(Append(u, f)) : i # Len(u) + 1 => i \in 1..Len(u)
    BY AppendProperties
  <1> QED BY <1>1 DEF NoAssign, OneAssign

LEMMA AppendTwo ==
  ASSUME NEW u \in Seq(Answer), NEW f \in Answer, NEW g \in Answer
  PROVE  u \o <<f, g>> = Append(Append(u, f), g)
  <1>1. /\ <<f>> \in Seq(Answer) /\ <<g>> \in Seq(Answer) /\ <<f, g>> \in Seq(Answer)
        /\ <<f>> \o <<g>> = <<f, g>>
    <2>1. <<f>> \in Seq(Answer) /\ <<g>> \in Seq(Answer) /\ <<f, g>> \in Seq(Answer)
      OBVIOUS
    <2>2. Len(<<f>>) = 1 /\ Len(<<g>>) = 1 /\ Len(<<f, g>>) = 2
      OBVIOUS
    <2>3. <<f>> \o <<g>> \in Seq(Answer) /\ Len(<<f>> \o <<g>>) = 2
      BY <2>1, <2>2, ConcatProperties
    <2>4. \A i \in 1..2 : (<<f>> \o <<g>>)[i] = <<f, g>>[i]
      BY <2>1, <2>2
    <2> QED BY <2>1, <2>2, <2>3, <2>4, SeqEqual
  <1>2. Append(u, f) = u \o <<f>> /\ Append(u, f) \in Seq(Answer)
    BY AppendIsConcat
  <1>3. Append(Append(u, f), g) = (u \o <<f>>) \o <<g>>
    BY <1>2, AppendIsConcat
  <1>4. (u \o <<f>>) \o <<g>> = u \o (<<f>> \o <<g>>)
    BY <1>1, ConcatAssociative
  <1> QED BY <1>1, <1>3, <1>4

\* Of a socket whose queue up alone is changed, the end and the queue down are what they were.
LEMMA UpOnly ==
  ASSUME NEW v \in [Sockets -> WireType], NEW c \in Sockets, NEW u
  PROVE  [v EXCEPT ![c].up = u][c].end = v[c].end /\ [v EXCEPT ![c].up = u][c].down = v[c].down
  BY DEF WireType

\* close() opens nothing.
LEMMA ClosingOpensNone ==
  ASSUME NEW v \in [Sockets -> WireType], NEW c \in Sockets, NEW d \in Sockets
  PROVE  Closing(v, c)[d].end = "open" => v[d].end = "open"
  BY DEF Closing, WireType

\* What a step may do to the plugin's socket without a word of a match.
Alike(c) ==
    /\ wire'[c].end = "open" => wire[c].end = "open"
    /\ Unasked(c)' => wire'[c].up = wire[c].up
    /\ \/ session'[c].at = session[c].at /\ session'[c].held = session[c].held
       \/ session'[c].at = "none" /\ wire'[c].end # "open"
    /\ NoAssign(wire[c].down) => NoAssign(wire'[c].down)
    /\ OneAssign(wire[c].down) => OneAssign(wire'[c].down)

LEMMA AssignKept ==
  ASSUME TypeInv, AssignInv, UNCHANGED <<throws, wipes, renumbered>>,
         plugin'.held = plugin.held, plugin'.inbox = plugin.inbox,
         plugin'.conn \in {plugin.conn, None}, plugin.held \/ said' = said,
         \A c \in Sockets : plugin.conn = c => Alike(c)
  PROVE  AssignInv'
  <1>1. Sound'
    BY DEF AssignInv, Sound
  <1>2. ASSUME NEW c \in Sockets, plugin'.conn = c PROVE AssignAt(c)'
    <2>1. AssignAt(c) /\ Alike(c)
      BY <1>2, LinkAssumption DEF AssignInv
    <2>2. Unasked(c)' => Unasked(c)
      BY <2>1 DEF Alike, Unasked
    <2>3. session'[c].at = "greeting" => session[c].at = "greeting" /\ session'[c].held = session[c].held
      BY <2>1 DEF Alike
    <2>4. ~NoAssign(wire'[c].down) => ~NoAssign(wire[c].down)
      BY <2>1 DEF Alike
    <2> QED BY <2>1, <2>2, <2>3, <2>4 DEF Alike, AssignAt, Unmatched
  <1> QED BY <1>1, <1>2 DEF AssignInv

\* A step that leaves the plugin's socket and its session there.
LEMMA AssignCalm ==
  ASSUME NEW c \in Sockets, wire'[c] = wire[c], session'[c].at = session[c].at, session'[c].held = session[c].held
  PROVE  Alike(c)
  BY DEF Alike, Unasked

-----------------------------------------------------------------------------
(* The plugin's steps.                                                     *)

LEMMA EmitAssign == ASSUME TypeInv, AssignInv, Emit PROVE AssignInv'
  <1>0. TypeOK /\ FrameInv
    BY DEF TypeInv
  <1>1. /\ plugin.held /\ session' = session
        /\ UNCHANGED <<throws, wipes, renumbered>>
        /\ plugin'.held = plugin.held /\ plugin'.inbox = plugin.inbox /\ plugin'.conn = plugin.conn
    BY <1>0 DEF Emit, fate, TypeOK, PluginType
  <1>2. ASSUME NEW c \in Sockets, plugin.conn = c PROVE Alike(c)
    <2>1. PICK u : wire' = wire \/ (plugin.welcomed /\ wire' = [wire EXCEPT ![c].up = u])
      BY <1>2 DEF Emit, SendUp
    <2>2. CASE wire' = wire
      BY <2>2, <1>1, AssignCalm
    <2>3. CASE plugin.welcomed /\ wire' = [wire EXCEPT ![c].up = u]
      <3>1. wire'[c].end = wire[c].end /\ wire'[c].down = wire[c].down
        BY <2>3, <1>0, UpOnly DEF TypeOK
      <3>2. ~Unasked(c)'
        BY <1>0, <1>1, <1>2, <2>3, <3>1 DEF FrameInv, FrameAt, Unasked
      <3> QED BY <1>1, <3>1, <3>2 DEF Alike
    <2> QED BY <2>1, <2>2, <2>3
  <1> QED BY <1>1, <1>2, AssignKept

\* The plugin listens on a socket whose hello was answered.
LEMMA ListeningAlike ==
  ASSUME TypeInv, NEW t, Hears(t), NEW c \in Sockets, plugin.conn = c, session' = session,
         wire'[c].end = wire[c].end, wire'[c].down = Tail(wire[c].down)
  PROVE  Alike(c) /\ ~Unasked(c) /\ ~Unasked(c)'
  <1>1. wire[c].down \in Seq(Answer) /\ wire[c].down # <<>>
    BY Parts DEF TypeInv, Hears
  <1>2. ~Unasked(c)
    BY <1>1 DEF TypeInv, FrameInv, FrameAt, Unasked
  <1>3. ~Unasked(c)'
    BY <1>2 DEF Unasked
  <1> QED BY <1>1, <1>2, <1>3, AssignTail DEF Alike

LEMMA HeardAssign == ASSUME TypeInv, AssignInv, OnWelcome \/ OnAck PROVE AssignInv'
  <1>0. TypeOK /\ FrameInv
    BY DEF TypeInv
  <1>1. PICK t : Hears(t)
    BY DEF OnWelcome, OnAck
  <1>2. PICK c \in Sockets : c = plugin.conn
    BY <1>0, <1>1, Listened
  <1>3. /\ session' = session /\ said' = said
        /\ UNCHANGED <<throws, wipes, renumbered>>
        /\ plugin'.held = plugin.held /\ plugin'.inbox = plugin.inbox /\ plugin'.conn = plugin.conn
    BY <1>0 DEF OnWelcome, OnAck, fate, TypeOK, PluginType
  <1>4. PICK u : wire' = Listening \/ wire' = [Listening EXCEPT ![c].up = u]
    BY <1>2 DEF OnWelcome, OnAck
  <1>5. PICK v \in [Sockets -> WireType] : v = Listening
    BY <1>0, <1>1, Listened
  <1>6. v[c].down = Tail(wire[c].down) /\ v[c].end = wire[c].end
    BY <1>0, <1>1, <1>2, <1>5, Listened
  <1>7. wire'[c].down = v[c].down /\ wire'[c].end = v[c].end
    <2>1. wire' = v \/ wire' = [v EXCEPT ![c].up = u]
      BY <1>4, <1>5
    <2>2. [v EXCEPT ![c].up = u][c].end = v[c].end /\ [v EXCEPT ![c].up = u][c].down = v[c].down
      BY UpOnly
    <2> QED BY <2>1, <2>2
  <1>8. Alike(c)
    BY <1>1, <1>2, <1>3, <1>6, <1>7, ListeningAlike
  <1> QED BY <1>2, <1>3, <1>8, AssignKept

LEMMA OnAssignAssign == ASSUME TypeInv, AssignInv, OnAssign PROVE AssignInv'
  <1>0. TypeOK /\ FrameInv
    BY DEF TypeInv
  <1>1. PICK c \in Sockets : c = plugin.conn
    BY <1>0, Listened DEF OnAssign
  <1>2. /\ session' = session /\ said' = said
        /\ UNCHANGED <<throws, wipes, renumbered>>
        /\ plugin'.held = plugin.held /\ plugin'.inbox = plugin.inbox + 1 /\ plugin'.conn = plugin.conn
    BY <1>0 DEF OnAssign, fate, TypeOK, PluginType
  <1>3. wire'[c].down = Tail(wire[c].down) /\ wire'[c].end = wire[c].end
    BY <1>0, <1>1, Listened DEF OnAssign
  <1>4. ~Unasked(c) /\ ~Unasked(c)'
    BY <1>1, <1>2, <1>3, ListeningAlike DEF OnAssign
  <1>5. /\ wire[c].down \in Seq(Answer) /\ wire[c].down # <<>> /\ plugin.inbox \in Nat
        /\ wire[c].down[1].type = "assign"
    BY <1>0, <1>1, Parts DEF OnAssign, Hears
  <1>6. AssignAt(c) /\ ~NoAssign(wire[c].down)
    BY <1>1, <1>5 DEF AssignInv, NoAssign
  <1>7. /\ ~plugin.held /\ plugin.inbox = 0 /\ session[c].at # "greeting"
        /\ NoAssign(Tail(wire[c].down))
    BY <1>5, <1>6, AssignTail DEF AssignAt, Unmatched
  <1>8. AssignAt(c)'
    BY <1>2, <1>3, <1>4, <1>7 DEF AssignAt, Unmatched
  <1> QED BY <1>1, <1>2, <1>7, <1>8 DEF AssignInv, Sound

\* The one assignment there is: nothing was said before it.
LEMMA PumpAssign == ASSUME TypeInv, AssignInv, Pump PROVE AssignInv'
  <1>0. TypeOK
    BY DEF TypeInv
  <1>1. plugin.inbox = 1 /\ ~plugin.held /\ said = 0
    BY DEF Pump, AssignInv
  <1>2. /\ UNCHANGED <<session, wire, said, throws, wipes, renumbered>>
        /\ plugin'.held /\ plugin'.inbox = 0 /\ plugin'.conn = plugin.conn
    BY <1>0, <1>1 DEF Pump, TypeOK, PluginType, AssignInv, Sound
  <1>3. ASSUME NEW c \in Sockets, plugin'.conn = c PROVE AssignAt(c)'
    <2>1. AssignAt(c)
      BY <1>2, <1>3 DEF AssignInv
    <2>2. ~Unmatched(c) /\ NoAssign(wire[c].down)
      BY <1>1, <2>1 DEF AssignAt
    <2> QED BY <1>2, <2>2 DEF AssignAt, Unmatched, Unasked
  <1> QED BY <1>2, <1>3 DEF AssignInv, Sound

LEMMA LeftAssign == ASSUME TypeInv, AssignInv, Notice \/ DropAtPlugin PROVE AssignInv'
  <1>1. /\ plugin'.conn = None /\ plugin'.held = plugin.held /\ plugin'.inbox = plugin.inbox
        /\ UNCHANGED <<said, throws, wipes, renumbered>>
    BY DEF Notice, DropAtPlugin, HangUp, TypeInv, TypeOK, PluginType, fate
  <1> QED BY <1>1, LinkAssumption DEF AssignInv, Sound

\* A socket begins with what the plugin holds, and with no assignment on its hands.
LEMMA DialAssign ==
  ASSUME TypeInv, AssignInv, NEW c \in Sockets, plugin.inbox = 0, Dial(c)
  PROVE  AssignInv'
  <1>0. TypeOK
    BY DEF TypeInv
  <1>1. /\ plugin'.conn = c /\ plugin'.held = plugin.held /\ plugin'.inbox = 0
        /\ UNCHANGED <<said, throws, wipes, renumbered>>
    BY <1>0 DEF Dial, TypeOK, PluginType, fate
  <1>2. wire'[c] = [end |-> "open", down |-> <<>>, up |-> <<Hello(buffer.last, plugin.held)>>]
    BY <1>0 DEF Dial, TypeOK
  <1>3. session'[c] = NoSession
    BY <1>0 DEF Dial, TypeOK
  <1>4. wire'[c].up # <<>> /\ wire'[c].up[1].held = plugin.held /\ NoAssign(wire'[c].down)
    BY <1>2 DEF Hello, NoAssign
  <1>5. AssignAt(c)'
    BY <1>1, <1>3, <1>4 DEF AssignAt, NoSession
  <1> QED BY <1>1, <1>5 DEF AssignInv, Sound

-----------------------------------------------------------------------------
(* The orchestrator's steps, and what befalls the sockets.                 *)

LEMMA GreetAssign ==
  ASSUME TypeInv, AssignInv, NEW c \in Sockets, Greet(c)
  PROVE  AssignInv'
  <1>0. TypeOK /\ FrameInv
    BY DEF TypeInv
  <1>1. wire[c].up # <<>> /\ session[c].at = "none" /\ wire[c].end = "open"
    BY DEF Greet
  <1>2. /\ UNCHANGED <<plugin, said, throws, wipes, renumbered>>
    BY DEF Greet, server, fate
  <1>3. PICK u \in Seq(Frame) : u = Tail(wire[c].up)
    BY <1>0, <1>1, TakenUp
  <1>4. PICK v \in [Sockets -> WireType] : v = WithUp(c, u)
    BY <1>0, UpSet
  <1>5. /\ \A d \in Sockets : v[d].end = wire[d].end /\ v[d].down = wire[d].down
        /\ \A d \in Sockets : d # c => v[d].up = wire[d].up
    BY <1>0, <1>4, UpSet
  <1>6. wire' = IF current = None THEN v ELSE Closing(v, current)
    BY <1>3, <1>4 DEF Greet, WithUp
  <1>7. \A d \in Sockets : /\ wire'[d].up = v[d].up /\ wire'[d].down = v[d].down
                           /\ wire'[d].end = "open" => v[d].end = "open"
    <2>1. current # None => current \in Sockets
      BY <1>0 DEF TypeOK
    <2> QED BY <1>6, <2>1, ClosingSet, ClosingOpensNone
  <1>8. CASE plugin.conn = c
    <2>1. /\ AssignAt(c) /\ Unasked(c)
      BY <1>1, <1>8 DEF AssignInv, Unasked
    <2>2. session'[c].at = "greeting" /\ session'[c].held = wire[c].up[1].held
      BY <1>0, <1>1, TakenUp DEF Greet, NoSession, TypeOK
    <2>3. AssignAt(c)'
      BY <1>2, <1>5, <1>7, <2>1, <2>2 DEF AssignAt, Unmatched, Unasked
    <2> QED BY <1>2, <1>8, <2>3 DEF AssignInv, Sound
  <1>9. CASE plugin.conn # c
    <2>1. ASSUME NEW d \in Sockets, plugin.conn = d PROVE Alike(d)
      <3>1. session'[d] = session[d]
        BY <1>0, <1>9, <2>1 DEF Greet, TypeOK
      <3> QED BY <1>5, <1>7, <1>9, <2>1, <3>1 DEF Alike
    <2> QED BY <1>2, <2>1, AssignKept
  <1> QED BY <1>8, <1>9

\* The match is assigned to a plugin that does not hold it, on the answer to its hello.
LEMMA AdmitAssign ==
  ASSUME TypeInv, AssignInv, NEW c \in Sockets, Admit(c)
  PROVE  AssignInv'
  <1>0. TypeOK /\ FrameInv
    BY DEF TypeInv
  <1>1. /\ session[c].at = "greeting"
        /\ UNCHANGED <<plugin, said, throws, wipes, renumbered>>
    BY DEF Admit, server, fate
  <1>2. /\ session'[c].at = "ready"
        /\ \A d \in Sockets \ {c} : session'[d] = session[d]
    BY <1>0, Parts DEF Admit, TypeOK, SessionType
  <1>3. PICK more \in {<<Welcome(session[c].acked)>>, <<Welcome(session[c].acked), Assign>>} :
            more = IF session[c].held THEN <<Welcome(session[c].acked)>>
                   ELSE <<Welcome(session[c].acked), Assign>>
    OBVIOUS
  <1>4. /\ wire[c].down \in Seq(Answer)
        /\ Welcome(session[c].acked) \in Answer /\ Welcome(session[c].acked).type # "assign"
        /\ Assign \in Answer
    BY <1>0, Parts DEF Welcome, Assign, Answer
  <1>5. more \in Seq(Answer)
    BY <1>3, <1>4
  <1>6. PICK u \in Seq(Answer) : u = IF wire[c].end # "open" THEN wire[c].down ELSE wire[c].down \o more
    <2>1. wire[c].down \o more \in Seq(Answer)
      BY <1>4, <1>5
    <2> QED BY <1>4, <2>1
  <1>7. wire' = WithDown(c, u)
    BY <1>3, <1>6 DEF Admit, WithDown
  <1>8. /\ wire'[c].down = u
        /\ \A d \in Sockets : wire'[d].end = wire[d].end /\ wire'[d].up = wire[d].up
        /\ \A d \in Sockets : d # c => wire'[d].down = wire[d].down
    BY <1>0, <1>7, DownSet
  <1>9. CASE plugin.conn = c
    <2>1. AssignAt(c)
      BY <1>9 DEF AssignInv
    <2>2. plugin.inbox = 0 /\ NoAssign(wire[c].down) /\ session[c].held = plugin.held
      BY <1>1, <2>1 DEF AssignAt, Unmatched
    <2>3. ~NoAssign(u) => ~plugin.held /\ OneAssign(u)
      <3>1. CASE wire[c].end # "open"
        BY <1>6, <2>2, <3>1
      <3>2. CASE wire[c].end = "open"
        <4>1. Append(wire[c].down, Welcome(session[c].acked)) \in Seq(Answer)
          BY <1>4
        <4>2. NoAssign(Append(wire[c].down, Welcome(session[c].acked)))
          BY <1>4, <2>2, AssignAppend
        <4>3. PICK w \in Seq(Answer) : w = Append(wire[c].down, Welcome(session[c].acked))
          BY <4>1
        <4>4. CASE session[c].held
          <5>1. u = w
            BY <1>3, <1>4, <1>6, <3>2, <4>3, <4>4
          <5> QED BY <5>1, <4>2, <4>3
        <4>5. CASE ~session[c].held
          <5>1. u = Append(w, Assign)
            <6>1. u = wire[c].down \o <<Welcome(session[c].acked), Assign>>
              BY <1>3, <1>6, <3>2, <4>5
            <6> QED BY <6>1, <1>4, <4>3, AppendTwo
          <5>2. /\ Len(w) \in Nat /\ Len(u) = Len(w) + 1
                /\ \A i \in 1..Len(u) : i # Len(w) + 1 => i \in 1..Len(w) /\ u[i] = w[i]
            BY <5>1, <1>4, AppendProperties
          <5> QED BY <5>2, <4>2, <4>3, <4>5, <2>2 DEF NoAssign, OneAssign
        <4> QED BY <4>4, <4>5
      <3> QED BY <3>1, <3>2
    <2>4. AssignAt(c)'
      BY <1>1, <1>2, <1>8, <2>2, <2>3 DEF AssignAt, Unmatched, Unasked
    <2> QED BY <1>1, <1>9, <2>4 DEF AssignInv, Sound
  <1>10. CASE plugin.conn # c
    <2>1. ASSUME NEW d \in Sockets, plugin.conn = d PROVE Alike(d)
      BY <1>2, <1>8, <1>10, <2>1 DEF Alike
    <2> QED BY <1>1, <2>1, AssignKept
  <1> QED BY <1>9, <1>10

\* The rest of a session's life says nothing of a match.
LEMMA ServedAssign ==
  ASSUME TypeInv, AssignInv, NEW c \in Sockets, Take(c) \/ Ingest(c) \/ Persist(c)
  PROVE  AssignInv'
  <1>0. TypeOK /\ FrameInv
    BY DEF TypeInv
  <1>1. session[c].at = "ready"
    BY <1>0 DEF FrameInv, FrameAt, Take, Ingest, Persist
  <1>2. UNCHANGED <<plugin, said, throws, wipes, renumbered>>
    BY DEF Take, Ingest, Persist, server, fate
  <1>3. /\ session'[c].at = session[c].at /\ session'[c].held = session[c].held
        /\ \A d \in Sockets \ {c} : session'[d] = session[d]
    <2>1. CASE Take(c)
      BY <1>0, <2>1, Parts DEF Take, TypeOK, SessionType
    <2>2. CASE Persist(c)
      BY <1>0, <2>2, Parts DEF Persist, TypeOK, SessionType
    <2>3. CASE Ingest(c)
      <3> DEFINE e == Least(session[c].batch)
                 rest == [session[c] EXCEPT !.batch = @ \ {e}, !.results = @ \cup {e.seq}]
                 s == IF Taken(session[c], e.seq) THEN rest ELSE Advanced(rest, e.seq)
      <3>1. session' = [session EXCEPT ![c] = s]
        BY <2>3 DEF Ingest
      <3>2. rest.at = session[c].at /\ rest.held = session[c].held /\ DOMAIN rest = DOMAIN session[c]
        BY <1>0, Parts DEF SessionType
      <3>3. "at" \in DOMAIN rest /\ "held" \in DOMAIN rest
        BY <1>0, <3>2, Parts DEF SessionType
      <3> HIDE DEF rest
      <3>4. s.at = rest.at /\ s.held = rest.held
        BY <3>3 DEF Advanced
      <3> HIDE DEF s
      <3> QED BY <1>0, <3>1, <3>2, <3>4 DEF TypeOK
    <2> QED BY <2>1, <2>2, <2>3
  <1>4. ASSUME NEW d \in Sockets
        PROVE  /\ wire'[d].end = wire[d].end
               /\ NoAssign(wire[d].down) => NoAssign(wire'[d].down)
               /\ OneAssign(wire[d].down) => OneAssign(wire'[d].down)
               /\ d # c => wire'[d].up = wire[d].up
    <2>1. CASE Take(c)
      <3>1. PICK u \in Seq(Frame) : u = Tail(wire[c].up)
        BY <1>0, <2>1, TakenUp DEF Take
      <3>2. wire' = WithUp(c, u)
        BY <2>1, <3>1 DEF Take, WithUp
      <3> QED BY <1>0, <3>2, UpSet
    <2>2. CASE Ingest(c)
      BY <2>2 DEF Ingest
    <2>3. CASE Persist(c)
      <3>1. /\ wire[c].down \in Seq(Answer) /\ Ack(session[c].results) \in Answer
            /\ Ack(session[c].results).type # "assign"
        BY <1>0, Parts DEF Ack, Answer
      <3>2. PICK u \in Seq(Answer) : u = IF wire[c].end = "open"
                                           THEN Append(wire[c].down, Ack(session[c].results))
                                           ELSE wire[c].down
        <4>1. Append(wire[c].down, Ack(session[c].results)) \in Seq(Answer)
          BY <3>1
        <4> QED BY <3>1, <4>1
      <3>3. wire' = WithDown(c, u)
        BY <2>3, <3>2 DEF Persist, SendDown, WithDown
      <3>4. /\ NoAssign(wire[c].down) => NoAssign(u)
            /\ OneAssign(wire[c].down) => OneAssign(u)
        BY <3>1, <3>2, AssignAppend
      <3>5. /\ wire'[c].down = u
            /\ \A b \in Sockets : wire'[b].end = wire[b].end /\ wire'[b].up = wire[b].up
            /\ \A b \in Sockets : b # c => wire'[b].down = wire[b].down
        BY <1>0, <3>3, DownSet
      <3> QED BY <3>4, <3>5
    <2> QED BY <2>1, <2>2, <2>3
  <1>5. ASSUME NEW d \in Sockets, plugin.conn = d PROVE Alike(d)
    <2>1. session'[d].at = session[d].at /\ session'[d].held = session[d].held
      BY <1>3
    <2>2. Unasked(d)' => d # c
      BY <1>1, <1>3 DEF Unasked
    <2> QED BY <1>4, <2>1, <2>2 DEF Alike
  <1> QED BY <1>2, <1>5, AssignKept

\* A socket that is closed, by whom and whenever, is not asked any more.
LEMMA LostAssign ==
  ASSUME TypeInv, AssignInv, NEW c \in Sockets,
         \/ GreetTooLate(c) \/ Silence(c)
         \/ \E n \in 0..Len(wire[c].up) : DropAtOrchestrator(c, n)
  PROVE  AssignInv'
  <1>0. TypeOK /\ FrameInv
    BY DEF TypeInv
  <1>1. UNCHANGED <<plugin, said, session, throws, wipes, renumbered>>
    BY DEF GreetTooLate, Silence, DropAtOrchestrator, server, fate
  <1>2. /\ wire'[c].end # "open" /\ wire'[c].down = wire[c].down
        /\ \A d \in Sockets \ {c} : wire'[d] = wire[d]
    <2>1. wire[c] \in WireType
      BY <1>0, Parts
    <2>2. PICK x \in WireType : wire' = [wire EXCEPT ![c] = x] /\ x.end # "open" /\ x.down = wire[c].down
      <3>1. CASE GreetTooLate(c)
        <4>0. <<>> \in Seq(Frame)
          OBVIOUS
        <4>1. [wire[c] EXCEPT !.up = <<>>] \in WireType
          BY <2>1, <4>0 DEF WireType
        <4>2. wire' = [wire EXCEPT ![c] = [wire[c] EXCEPT !.up = <<>>]]
          BY <3>1, Zenon DEF GreetTooLate
        <4>3. [wire[c] EXCEPT !.up = <<>>].end = wire[c].end /\ [wire[c] EXCEPT !.up = <<>>].down = wire[c].down
          BY <2>1 DEF WireType
        <4> QED BY <3>1, <4>1, <4>2, <4>3 DEF GreetTooLate
      <3>2. CASE Silence(c)
        <4>1. [wire[c] EXCEPT !.end = "closed"] \in WireType
          BY <2>1 DEF WireType
        <4>2. wire' = [wire EXCEPT ![c] = [wire[c] EXCEPT !.end = "closed"]]
          BY <3>2, Zenon DEF Silence
        <4>3. /\ [wire[c] EXCEPT !.end = "closed"].end = "closed"
              /\ [wire[c] EXCEPT !.end = "closed"].down = wire[c].down
          BY <2>1 DEF WireType
        <4> QED BY <4>1, <4>2, <4>3
      <3>3. ASSUME NEW n \in 0..Len(wire[c].up), DropAtOrchestrator(c, n)
            PROVE  \E x \in WireType : wire' = [wire EXCEPT ![c] = x] /\ x.end # "open" /\ x.down = wire[c].down
        <4>1. wire[c].up \in Seq(Frame)
          BY <1>0, Parts
        <4>2. SubSeq(wire[c].up, 1, n) \in Seq(Frame)
          BY <4>1, \A i \in 1..n : i \in 1..Len(wire[c].up), SubSeqProperties
        <4>3. PICK u \in Seq(Frame) : u = SubSeq(wire[c].up, 1, n)
          BY <4>2
        <4>4. [wire[c] EXCEPT !.end = "closed", !.up = u] \in WireType
          BY <2>1 DEF WireType
        <4>5. wire' = [wire EXCEPT ![c] = [wire[c] EXCEPT !.end = "closed", !.up = u]]
          BY <1>0, <3>3, <4>3 DEF DropAtOrchestrator, TypeOK
        <4>6. /\ [wire[c] EXCEPT !.end = "closed", !.up = u].end = "closed"
              /\ [wire[c] EXCEPT !.end = "closed", !.up = u].down = wire[c].down
          BY <2>1 DEF WireType
        <4> QED BY <4>4, <4>5, <4>6
      <3> QED BY <3>1, <3>2, <3>3
    <2> QED BY <1>0, <2>2 DEF TypeOK
  <1>3. ASSUME NEW d \in Sockets, plugin.conn = d PROVE Alike(d)
    <2>1. CASE d = c
      BY <1>1, <1>2, <2>1 DEF Alike, Unasked
    <2>2. CASE d # c
      BY <1>1, <1>2, <2>2, AssignCalm
    <2> QED BY <2>1, <2>2
  <1> QED BY <1>1, <1>3, AssignKept

LEMMA CrashAssign == ASSUME TypeInv, AssignInv, Crash PROVE AssignInv'
  <1>0. TypeOK
    BY DEF TypeInv
  <1>1. UNCHANGED <<plugin, said, throws, wipes, renumbered>>
    BY DEF Crash, server
  <1>2. ASSUME NEW c \in Sockets
        PROVE  session'[c].at = "none" /\ wire'[c].end # "open" /\ wire'[c].down = wire[c].down
    <2>1. wire[c] \in WireType
      BY <1>0, Parts
    <2>2. wire'[c] = [wire[c] EXCEPT !.end = "closed", !.up = <<>>]
      BY DEF Crash
    <2>3. session'[c].at = "none"
      BY DEF Crash, NoSession
    <2> QED BY <2>1, <2>2, <2>3 DEF WireType
  <1> QED BY <1>1, <1>2, AssignKept DEF Alike, Unasked

\* A plugin that runs on is assigned its match once.
LEMMA NextAssign == ASSUME TypeInv, AssignInv, [SteadyNext]_vars PROVE AssignInv'
  <1>1. CASE UNCHANGED vars
    BY <1>1 DEF vars, server, store, fate, AssignInv, AssignAt, Unmatched, Unasked, Sound
  <1>2. CASE SteadyPlugin
    BY <1>2, EmitAssign, HeardAssign, OnAssignAssign, PumpAssign, LeftAssign, DialAssign DEF SteadyPlugin
  <1>3. CASE \E c \in Sockets : Orchestrator(c)
    BY <1>3, GreetAssign, LostAssign, AdmitAssign, ServedAssign DEF Orchestrator
  <1>4. CASE Network
    BY <1>4, LeftAssign, LostAssign DEF Network
  <1>5. CASE Crash
    BY <1>5, CrashAssign
  <1> QED BY <1>1, <1>2, <1>3, <1>4, <1>5 DEF SteadyNext

-----------------------------------------------------------------------------
(* How far the log goes.                                                   *)

Upto(m, L) == {n \in 1..m : 1..n \subseteq L}

LEMMA UptoFinite ==
  ASSUME NEW m \in Nat, NEW L
  PROVE  IsFiniteSet(Upto(m, L)) /\ Cardinality(Upto(m, L)) \in Nat
  <1>1. IsFiniteSet(1..m)
    BY FS_Interval
  <1>2. Upto(m, L) \subseteq 1..m
    BY DEF Upto
  <1> QED BY <1>1, <1>2, FS_Subset, FS_CardinalityType

\* The event that comes next is counted when it is logged, and was not before.
LEMMA UptoGrows ==
  ASSUME NEW m \in Nat, NEW L \in SUBSET (1..m), NEW e \in 1..m, e \notin L,
         \A n \in L : 1..n \subseteq L, 1..e \subseteq L \cup {e}
  PROVE  /\ Cardinality(Upto(m, L \cup {e})) = Cardinality(Upto(m, L)) + 1
         /\ Cardinality(Upto(m, L)) < m
  <1>1. e \notin Upto(m, L)
    BY DEF Upto
  <1>2. ASSUME NEW n \in Upto(m, L \cup {e}), n # e PROVE n \in Upto(m, L)
    <2>1. n \in 1..m /\ n \in 1..n
      BY <1>2 DEF Upto
    <2>2. n \in L
      BY <1>2, <2>1 DEF Upto
    <2> QED BY <2>1, <2>2 DEF Upto
  <1>3. Upto(m, L \cup {e}) = Upto(m, L) \cup {e}
    BY <1>2 DEF Upto
  <1>4. Cardinality(Upto(m, L) \cup {e}) = Cardinality(Upto(m, L)) + 1
    BY <1>1, UptoFinite, FS_AddElement
  <1>5. Cardinality(Upto(m, L \cup {e})) <= m
    <2>1. IsFiniteSet(1..m) /\ Cardinality(1..m) = m
      BY FS_Interval
    <2>2. PICK U : U = Upto(m, L \cup {e}) /\ U \subseteq 1..m
      BY DEF Upto
    <2>3. Cardinality(U) <= Cardinality(1..m)
      BY <2>1, <2>2, FS_Subset
    <2> QED BY <2>1, <2>2, <2>3
  <1> QED BY <1>3, <1>4, <1>5, UptoFinite

LEMMA KnownIs == Known = Cardinality(Upto(said, LogIds))
  BY DEF Known, Upto

\* What the log holds was said, and comes with all that was said before it.
LEMMA LogFromFirst ==
  ASSUME TypeInv, LogInv, OrderInv, Sound
  PROVE  /\ said \in Nat /\ LogIds \subseteq 1..said
         /\ \A n \in LogIds : 1..n \subseteq LogIds
  <1>1. said \in Nat
    BY DEF TypeInv, TypeOK
  <1>2. ASSUME NEW n \in LogIds PROVE n \in 1..said /\ 1..n \subseteq LogIds
    <2>1. PICK i \in 1..Len(log) : log[i].id = n
      BY DEF LogIds
    <2>2. log[i] \in World
      BY <2>1 DEF World, Entries
    <2>3. n \in 1..said
      BY <2>1, <2>2 DEF LogInv, WorldInv
    <2>4. 1..n \subseteq {log[k].id : k \in 1..i}
      BY <2>1 DEF OrderInv, InOrder
    <2>5. Len(log) \in Nat
      BY DEF TypeInv, TypeOK
    <2>6. {log[k].id : k \in 1..i} \subseteq LogIds
      BY <2>1, <2>5 DEF LogIds
    <2> QED BY <2>3, <2>4, <2>6
  <1> QED BY <1>1, <1>2

LEMMA InitFeed == Init => Feed!Init
  <1> SUFFICES ASSUME Init PROVE Feed!Init
    OBVIOUS
  <1>1. said = 0 /\ Upto(0, LogIds) = {}
    BY DEF Init, Upto
  <1> QED BY <1>1, KnownIs, FS_EmptySet DEF Feed!Init

LEMMA NextFeed ==
  ASSUME TypeInv, LogInv, OrderInv, AssignInv, TypeInv', LogInv', OrderInv', AssignInv', [SteadyNext]_vars
  PROVE  [Feed!Next]_(Feed!vars)
  <1>1. Sound /\ Sound'
    BY DEF AssignInv
  <1>2. /\ said \in Nat /\ LogIds \subseteq 1..said
        /\ \A n \in LogIds : 1..n \subseteq LogIds
    BY <1>1, LogFromFirst
  <1>3. /\ said' \in Nat /\ LogIds' \subseteq 1..said'
        /\ \A n \in LogIds' : 1..n \subseteq LogIds'
    <2>1. TypeOK' /\ Sound' /\ WorldInv' /\ InOrder'
      BY <1>1 DEF TypeInv, LogInv, OrderInv
    <2>2. said' \in Nat /\ Len(log') \in Nat
      BY <2>1 DEF TypeOK
    <2>3. ASSUME NEW n \in LogIds' PROVE n \in 1..said' /\ 1..n \subseteq LogIds'
      <3>1. PICK i \in 1..Len(log') : log'[i].id = n
        BY <2>3 DEF LogIds
      <3>2. n \in 1..said'
        BY <2>1, <3>1 DEF WorldInv, World, Entries
      <3>3. 1..n \subseteq {log'[k].id : k \in 1..i}
        BY <2>1, <3>1 DEF InOrder
      <3>4. {log'[k].id : k \in 1..i} \subseteq LogIds'
        BY <2>2, <3>1 DEF LogIds
      <3> QED BY <3>2, <3>3, <3>4
    <2> QED BY <2>2, <2>3
  <1>4. Known' = Cardinality(Upto(said', LogIds'))
    BY DEF Known, Upto
  <1>5. CASE UNCHANGED <<said, log>>
    <2>1. Known' = Known
      BY <1>5 DEF Known, LogIds
    <2> QED BY <1>5, <2>1 DEF Feed!vars
  <1>6. CASE Emit
    <2>1. said' = said + 1 /\ LogIds' = LogIds
      BY <1>6 DEF Emit, store, LogIds
    <2>2. Upto(said', LogIds) = Upto(said, LogIds)
      <3>1. ASSUME NEW n \in Upto(said', LogIds) PROVE n \in Upto(said, LogIds)
        <4>1. n \in 1..said' /\ n \in 1..n /\ 1..n \subseteq LogIds
          BY <1>3 DEF Upto
        <4>2. n \in 1..said
          BY <1>2, <4>1
        <4> QED BY <4>1, <4>2 DEF Upto
      <3>2. Upto(said, LogIds) \subseteq Upto(said', LogIds)
        BY <1>2, <2>1 DEF Upto
      <3> QED BY <3>1, <3>2
    <2>3. Known' = Known
      BY <1>4, <2>1, <2>2, KnownIs
    <2> QED BY <2>1, <2>3 DEF Feed!Next, Feed!Say
  <1>7. ASSUME NEW c \in Sockets, Ingest(c) PROVE [Feed!Next]_(Feed!vars)
    <2>1. PICK e : said' = said /\ (log' = log \/ log' = Append(log, e))
      BY <1>7 DEF Ingest, server
    <2>2. CASE log' = Append(log, e)
      <3>1. LogIds' = LogIds \cup {e.id}
        <4>1. /\ Len(log) \in Nat /\ Len(log') = Len(log) + 1
              /\ \A i \in 1..Len(log) : log'[i] = log[i]
              /\ log'[Len(log) + 1] = e
          BY <2>2 DEF TypeInv, TypeOK
        <4>2. 1..Len(log') = 1..Len(log) \cup {Len(log) + 1}
          BY <4>1
        <4> QED BY <4>1, <4>2 DEF LogIds
      <3>2. CASE e.id \in LogIds
        <4>1. Known' = Known
          BY <1>4, <2>1, <3>1, <3>2, KnownIs
        <4> QED BY <2>1, <4>1 DEF Feed!vars
      <3>3. CASE e.id \notin LogIds
        <4>1. e.id \in 1..said /\ 1..e.id \subseteq LogIds \cup {e.id}
          BY <1>3, <2>1, <3>1
        <4>2. PICK k \in 1..said : k = e.id
          BY <4>1
        <4>3. /\ Cardinality(Upto(said, LogIds \cup {k})) = Cardinality(Upto(said, LogIds)) + 1
              /\ Cardinality(Upto(said, LogIds)) < said
          BY <1>2, <3>3, <4>1, <4>2, UptoGrows
        <4>4. Known' = Known + 1 /\ Known < said
          BY <1>4, <2>1, <3>1, <4>2, <4>3, KnownIs
        <4> QED BY <2>1, <4>4 DEF Feed!Next, Feed!Learn
      <3> QED BY <3>2, <3>3
    <2> QED BY <2>1, <2>2, <1>5
  <1>8. SteadyNext => Emit \/ (\E c \in Sockets : Ingest(c)) \/ UNCHANGED <<said, log>>
    BY DEF SteadyNext, SteadyPlugin, OnWelcome, OnAck, OnAssign, Pump, Notice, Dial, Orchestrator, Greet,
       GreetTooLate, Admit, Take, Persist, Silence, Network, DropAtPlugin, DropAtOrchestrator, Crash,
       server, store
  <1>9. CASE UNCHANGED vars
    BY <1>5, <1>9 DEF vars, server, store
  <1> QED BY <1>5, <1>6, <1>7, <1>8, <1>9

\* A plugin that runs on is assigned its match once: its hints never start over.
THEOREM AssignedOnce == SteadySpec => []AssignInv
  <1>1. SteadyNext => Next
    BY DEF SteadyNext, Next, SteadyPlugin, Plugin, Fault
  <1>2. SteadySpec => []TypeInv
    BY <1>1, TypeInvariant, PTL DEF SteadySpec, Spec
  <1>3. TypeInv /\ AssignInv /\ [SteadyNext]_vars => AssignInv'
    BY NextAssign
  <1> QED BY <1>2, <1>3, InitAssign, PTL DEF SteadySpec

\* The link takes the steps of the feed: whatever breaks, and however often the orchestrator restarts,
\* the match's log learns what the server says one event after the other, in the order it was said.
THEOREM LinkKeepsTheFeed == SteadySpec => FeedIsUnbroken
  <1>1. SteadyNext => Next
    BY DEF SteadyNext, Next, SteadyPlugin, Plugin, Fault
  <1>2. SteadySpec => Spec
    BY <1>1, PTL DEF SteadySpec, Spec
  <1>3. SteadySpec => [](TypeInv /\ LogInv /\ OrderInv /\ AssignInv)
    BY <1>2, TypeInvariant, LogInvariant, OrderInvariant, AssignedOnce, PTL
  <1>4. TypeInv /\ LogInv /\ OrderInv /\ AssignInv /\ TypeInv' /\ LogInv' /\ OrderInv' /\ AssignInv'
            /\ [SteadyNext]_vars => [Feed!Next]_(Feed!vars)
    BY NextFeed
  <1> QED BY <1>3, <1>4, InitFeed, PTL DEF SteadySpec, FeedIsUnbroken, Feed!Unbroken
=============================================================================
