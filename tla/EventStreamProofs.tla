-------------------------- MODULE EventStreamProofs --------------------------
(***************************************************************************)
(* Proofs about EventStream: what follows a hello, what a socket that was  *)
(* ended heard, and what the last page leaves a client with, for any       *)
(* number of sockets, facts and mishaps.                                   *)
(***************************************************************************)
EXTENDS EventStream, FiniteSetTheorems, WellFoundedInduction, TLAPS

\* The last fact that was handed to the fan-out.
Sent == IF chain \in {"publish", "last"} THEN seq - 1 ELSE seq

\* A match that is over has said so; a fact is published before the next is said.
MachineInv ==
    /\ over <= seq
    /\ chain # "idle" => seq > 0
    /\ chain \in {"last", "close"} => over # 0

\* The pages: the client has what it asks to go on from, and a page that was read over was read
\* behind the end.
PageInv ==
    /\ page.asked => 1 .. page.after \subseteq known
    /\ page.asked /\ page.over => over # 0 /\ over <= page.seq

EndInv == MachineInv /\ PageInv /\ LastPageIsLast

\* A socket that is open is subscribed; before its hello it was written nothing; a hello says over
\* if and only if it covers the end.
AtDoor(s) ==
    /\ code[s] = "open" => s \in subs /\ stage[s] # "none"
    /\ stage[s] = "none" => s \notin subs /\ held[s] = <<>>
    /\ stage[s] # "greeted" => wrote[s] = <<>> /\ hello[s] = NoHello
    /\ hello[s].n <= seq /\ row[s].n <= seq
    /\ hello[s].over \/ row[s].over => over # 0
    /\ over # 0 /\ hello[s].n >= over => hello[s].over
    /\ stage[s] = "read" /\ over # 0 /\ row[s].n >= over => row[s].over
DoorInv == NoneCovered /\ \A s \in Sockets : AtDoor(s)

\* When fact b was the last to come back, the fan-out holds those behind it up to the last one
\* sent, in order, and at place c, when c is not 0, the order to close, behind the end.
InFlight(b, c) ==
    /\ b + Len(channel) - (IF c > 0 THEN 1 ELSE 0) = Sent
    /\ \A i \in 1 .. Len(channel) :
           channel[i] = IF i = c THEN Close ELSE IF c > 0 /\ i > c THEN b + i - 1 ELSE b + i
    /\ c > 0 => chain \notin {"last", "close"} /\ over # 0 /\ over <= b + c - 1

\* What a subscriber holds, and what a greeted one was written, ends with that fact and begins no
\* later than behind its hello.
UpTo(b, q) == \A i \in 1 .. Len(q) : q[i] = b - Len(q) + i
Caught(b, s) ==
    /\ stage[s] # "greeted" => UpTo(b, held[s])
    /\ stage[s] = "read" => b - Len(held[s]) <= row[s].n
    /\ stage[s] = "greeted" /\ code[s] = "open" =>
           UpTo(b, wrote[s]) /\ b - Len(wrote[s]) <= hello[s].n

FlowInv ==
    missed \/ \E b \in 0 .. seq : /\ \E c \in 0 .. Len(channel) : InFlight(b, c)
                                 /\ \A s \in subs : Caught(b, s)

StreamInv == EndInv /\ DoorInv /\ FlowInv /\ NoGap /\ EndIsToldFirst

-----------------------------------------------------------------------------
(* Sequences, and what is left of one.                                      *)

LEMMA TabIsSeq ==
    ASSUME NEW S, NEW n \in Nat, NEW f \in [1 .. n -> S]
    PROVE  /\ f \in Seq(S) /\ Len(f) = n
           /\ DOMAIN f = 1 .. n
OBVIOUS

LEMMA SeqIsTab ==
    ASSUME NEW S, NEW q \in Seq(S)
    PROVE  /\ Len(q) \in Nat /\ DOMAIN q = 1 .. Len(q)
           /\ \A i \in 1 .. Len(q) : q[i] \in S
OBVIOUS

LEMMA Joined ==
    ASSUME NEW S, NEW p \in Seq(S), NEW q \in Seq(S)
    PROVE  /\ p \o q \in Seq(S) /\ Len(p \o q) = Len(p) + Len(q)
           /\ \A i \in 1 .. Len(p) : (p \o q)[i] = p[i]
           /\ \A i \in Len(p) + 1 .. Len(p) + Len(q) : (p \o q)[i] = q[i - Len(p)]
OBVIOUS

LEMMA Appended ==
    ASSUME NEW S, NEW q \in Seq(S), NEW x \in S
    PROVE  /\ Append(q, x) \in Seq(S) /\ Len(Append(q, x)) = Len(q) + 1
           /\ \A i \in 1 .. Len(q) : Append(q, x)[i] = q[i]
           /\ Append(q, x)[Len(q) + 1] = x
OBVIOUS

LEMMA Rest ==
    ASSUME NEW S, NEW q \in Seq(S), q # <<>>
    PROVE  /\ Tail(q) \in Seq(S) /\ Len(Tail(q)) = Len(q) - 1 /\ Len(q) > 0
           /\ \A i \in 1 .. Len(q) - 1 : Tail(q)[i] = q[i + 1]
           /\ Head(q) = q[1] /\ Head(q) \in S
OBVIOUS

LEMMA NoneYet == ASSUME NEW S PROVE <<>> \in Seq(S) /\ Len(<<>>) = 0
OBVIOUS

LEMMA Single ==
    ASSUME NEW S, NEW x \in S
    PROVE  <<x>> \in Seq(S) /\ Len(<<x>>) = 1 /\ <<x>>[1] = x
OBVIOUS

\* Finite sets of positions: each rank up to their number has its place.
LEMMA Places ==
    ASSUME NEW L \in Nat, NEW I \in SUBSET (1 .. L)
    PROVE  /\ IsFiniteSet(I) /\ Cardinality(I) \in Nat /\ Cardinality(I) <= L
           /\ \A i \in 1 .. Cardinality(I) : Place(I, i) \in I
<1> DEFINE Upto(j) == {k \in I : k <= j}
           N(j) == Cardinality(Upto(j))
<1>0. \A k \in I : k \in Int /\ 1 <= k /\ k <= L
  OBVIOUS
<1>1. IsFiniteSet(1 .. L) /\ Cardinality(1 .. L) = L
  BY FS_Interval
<1>2. IsFiniteSet(I) /\ Cardinality(I) \in Nat /\ Cardinality(I) <= L
  BY <1>1, FS_Subset, FS_CardinalityType
<1>3. \A j \in Nat : IsFiniteSet(Upto(j)) /\ N(j) \in Nat
  <2> TAKE j \in Nat
  <2>1. Upto(j) \subseteq I
    OBVIOUS
  <2> QED BY <2>1, <1>2, FS_Subset, FS_CardinalityType
<1>4. \A i \in 1 .. Cardinality(I) : Place(I, i) \in I
  <2> TAKE i \in 1 .. Cardinality(I)
  <2> DEFINE B == {j \in Nat : N(j) >= i}
  <2>1. L \in B
    <3>1. Upto(L) = I
      BY <1>0
    <3> QED BY <3>1, <1>2
  <2>2. PICK j \in B : \A k \in B : ~(<<k, j>> \in OpToRel(<, Nat))
    <3>1. B \subseteq Nat /\ B # {}
      BY <2>1
    <3> QED BY <3>1, NatLessThanWellFounded, WFMin
  <2>3. j \in Nat /\ N(j) >= i /\ \A k \in Nat : k < j => N(k) < i
    <3>1. \A k \in B : ~(k < j)
      BY <2>2 DEF OpToRel
    <3>2. \A k \in Nat : N(k) \in Nat
      BY <1>3
    <3> HIDE DEF N
    <3> QED BY <3>1, <3>2
  <2>4. Upto(0) = {} /\ N(0) = 0
    <3>1. \A k \in I : ~(k <= 0)
      BY <1>0
    <3>2. Upto(0) = {}
      BY <3>1, Zenon
    <3> QED BY <3>2, FS_EmptySet
  <2>5. j > 0
    <3> HIDE DEF N, Upto
    <3> QED BY <2>3, <2>4
  <2>6. j - 1 \in Nat /\ N(j - 1) < i
    <3>1. j - 1 \in Nat /\ j - 1 < j
      BY <2>3, <2>5
    <3> HIDE DEF N
    <3> QED BY <2>3, <3>1
  <2>7. CASE j \in I
    <3>0. \A k \in I : (k <= j <=> (k <= j - 1 \/ k = j)) /\ ~(j <= j - 1)
      <4> HIDE DEF N, Upto
      <4> QED BY <1>0, <2>3
    <3>1. Upto(j) = Upto(j - 1) \cup {j} /\ j \notin Upto(j - 1)
      BY <2>7, <3>0, Zenon
    <3>2. N(j) = N(j - 1) + 1
      BY <3>1, <1>3, <2>6, FS_AddElement
    <3>3. N(j) = i
      <4>1. N(j) \in Nat /\ N(j - 1) \in Nat
        BY <1>3, <2>6, <2>3
      <4> HIDE DEF N
      <4> QED BY <4>1, <3>2, <2>6, <2>3
    <3> QED BY <2>7, <3>3 DEF Place
  <2>8. CASE j \notin I
    <3>0. \A k \in I : k <= j <=> k <= j - 1
      <4>1. \A k \in I : k # j
        BY <2>8
      <4> HIDE DEF N, Upto
      <4> QED BY <4>1, <1>0, <2>3
    <3>1. Upto(j) = Upto(j - 1)
      BY <3>0, Zenon
    <3> HIDE DEF Upto
    <3> QED BY <3>1, <2>6, <2>3, <1>3
  <2> QED BY <2>7, <2>8
<1> QED BY <1>2, <1>4

LEMMA LeftIsSeq ==
    ASSUME NEW S, NEW q \in Seq(S), NEW I \in SUBSET (1 .. Len(q))
    PROVE  /\ Left(q, I) \in Seq(S)
           /\ \A i \in 1 .. Len(Left(q, I)) : \E j \in I : Left(q, I)[i] = q[j]
<1>1. Len(q) \in Nat /\ \A i \in 1 .. Len(q) : q[i] \in S
  OBVIOUS
<1>2. Cardinality(I) \in Nat /\ \A i \in 1 .. Cardinality(I) : Place(I, i) \in I
  BY <1>1, Places
<1> DEFINE n == Cardinality(I)
           f == [i \in 1 .. n |-> q[Place(I, i)]]
<1>3. f \in [1 .. n -> S]
  BY <1>1, <1>2
<1>4. f \in Seq(S) /\ Len(f) = n
  BY <1>3, <1>2, TabIsSeq
<1> QED BY <1>2, <1>4 DEF Left

\* The places from m on are consecutive.
LEMMA LeftOfTail ==
    ASSUME NEW S, NEW q \in Seq(S), NEW m \in 1 .. Len(q) + 1
    PROVE  /\ Left(q, m .. Len(q)) \in Seq(S)
           /\ Len(Left(q, m .. Len(q))) = Len(q) - m + 1
           /\ \A i \in 1 .. Len(q) - m + 1 : Left(q, m .. Len(q))[i] = q[m + i - 1]
<1> DEFINE L == Len(q)
           I == m .. L
<1>1. L \in Nat /\ \A i \in 1 .. L : q[i] \in S
  OBVIOUS
<1>0. m \in Int /\ 1 <= m /\ m <= L + 1
  BY <1>1
<1>2. Cardinality(I) = L - m + 1
  <2>1. L \in Int
    BY <1>1
  <2> HIDE DEF L
  <2>2. Cardinality(I) = IF m > L THEN 0 ELSE L - m + 1
    BY <2>1, <1>0, FS_Interval
  <2> QED BY <2>1, <2>2, <1>0
<1>3. \A i \in 1 .. L - m + 1 : Place(I, i) = m + i - 1
  <2> TAKE i \in 1 .. L - m + 1
  <2>1. I \in SUBSET (1 .. L)
    BY <1>1
  <2>2. Place(I, i) \in I /\ i \in 1 .. Cardinality(I)
    BY <2>1, <1>1, <1>2, Places
  <2>3. \A j \in I : Cardinality({k \in I : k <= j}) = j - m + 1
    <3> TAKE j \in I
    <3>1. {k \in I : k <= j} = m .. j
      BY <1>1
    <3> HIDE DEF I
    <3>2. Cardinality(m .. j) = j - m + 1
      BY FS_Interval, <1>1 DEF I
    <3> QED BY <3>1, <3>2
  <2>4. m + i - 1 \in I
    BY <1>1
  <2>5. Cardinality({k \in I : k <= m + i - 1}) = i
    <3>1. (m + i - 1) - m + 1 = i
      BY <1>0
    <3> HIDE DEF I
    <3> QED BY <2>3, <2>4, <3>1
  <2>6. Cardinality({k \in I : k <= Place(I, i)}) = i
    BY <2>4, <2>5 DEF Place
  <2>7. Place(I, i) - m + 1 = i
    BY <2>6, <2>3, <2>2
  <2> QED BY <2>7, <2>2, <1>1
<1> DEFINE n == L - m + 1
           f == [i \in 1 .. n |-> q[Place(I, i)]]
<1>4. n \in Nat /\ f \in [1 .. n -> S]
  BY <1>1, <1>3
<1>5. f \in Seq(S) /\ Len(f) = n
  BY <1>4, TabIsSeq
<1>6. Left(q, I) = f
  BY <1>2 DEF Left
<1>7. \A i \in 1 .. n : f[i] = q[m + i - 1]
  BY <1>3
<1> QED BY <1>5, <1>6, <1>7
-----------------------------------------------------------------------------
(* Types.                                                                    *)

\* TypeOK, and who has not dialled has heard nothing.
Unheard == \A s \in Sockets : stage[s] = "none" => hello[s] = NoHello /\ wrote[s] = <<>>
Types == TypeOK /\ Unheard

\* Who subscribed stays what it was where no door is touched.
LEMMA DoorsTyped ==
    ASSUME Types, UNCHANGED <<doors, subs>>
    PROVE  (\A s \in subs' : Subscribed(s)') /\ Unheard'
BY DEF Types, TypeOK, Subscribed, Unheard, doors

LEMMA WritesTyped ==
    ASSUME Types, NEW g \in [Sockets -> Seq(Frames)],
           NEW f \in [Sockets -> Seq(1 .. MaxFacts)], Writes(g, f)
    PROVE  /\ wire' \in [Streams -> Seq(Frames)]
           /\ wrote' \in [Sockets -> Seq(1 .. MaxFacts)]
<1>1. \A s \in Streams : s \in Sockets /\ wire[s] \in Seq(Frames)
  BY DEF Types, TypeOK, Frames, Sockets
<1>2. \A s \in Sockets : wrote[s] \in Seq(1 .. MaxFacts)
  BY DEF Types, TypeOK
<1> DEFINE e(s) == [i \in 1 .. Len(f[s]) |-> Event(f[s][i])]
<1>3. ASSUME NEW s \in Sockets PROVE e(s) \in Seq(Frames)
  <2>1. Len(f[s]) \in Nat /\ \A i \in 1 .. Len(f[s]) : f[s][i] \in 1 .. MaxFacts
    <3>1. f[s] \in Seq(1 .. MaxFacts)
      OBVIOUS
    <3> QED BY <3>1, SeqIsTab
  <2>2. e(s) \in [1 .. Len(f[s]) -> Frames]
    BY <2>1 DEF Frames
  <2> HIDE DEF e
  <2> QED BY <2>1, <2>2, TabIsSeq
<1>4. ASSUME NEW s \in Streams PROVE wire[s] \o g[s] \o e(s) \in Seq(Frames)
  <2>1. g[s] \in Seq(Frames) /\ e(s) \in Seq(Frames) /\ wire[s] \in Seq(Frames)
    BY <1>1, <1>3
  <2> HIDE DEF e
  <2> QED BY <2>1, Joined
<1>5. ASSUME NEW s \in Sockets PROVE wrote[s] \o f[s] \in Seq(1 .. MaxFacts)
  BY <1>2, Joined
<1>6. wire' = [s \in Streams |-> IF code[s] = "open" THEN wire[s] \o g[s] \o e(s) ELSE wire[s]]
  BY DEF Writes
<1>7. wrote' = [s \in Sockets |-> IF code[s] = "open" THEN wrote[s] \o f[s] ELSE wrote[s]]
  BY DEF Writes
<1> HIDE DEF e
<1> QED BY <1>1, <1>2, <1>4, <1>5, <1>6, <1>7

LEMMA InitTypes == Init => Types
<1> SUFFICES ASSUME Init PROVE Types
  OBVIOUS
<1>1. channel \in Seq(Close .. MaxFacts)
  BY NoneYet DEF Init
<1>2. held \in [Sockets -> Seq(1 .. MaxFacts)] /\ wrote \in [Sockets -> Seq(1 .. MaxFacts)]
  BY NoneYet DEF Init
<1>3. wire \in [Streams -> Seq(Frames)]
  BY NoneYet DEF Init
<1>4. row \in [Sockets -> Hellos] /\ hello \in [Sockets -> Hellos \cup {NoHello}]
  BY StreamAssumption DEF Init, Hellos
<1>5. seq \in 0 .. MaxFacts /\ over \in 0 .. MaxFacts /\ goal \in 0 .. MaxFacts /\ mishaps \in 0 .. MaxMishaps
  BY StreamAssumption DEF Init
<1>6. page \in [asked : BOOLEAN, after : 0 .. MaxFacts, seq : 0 .. MaxFacts, over : BOOLEAN]
  BY StreamAssumption DEF Init, NoPage
<1>7. /\ stage \in [Sockets -> {"none", "reading", "read", "greeted"}]
      /\ code \in [Sockets -> {"none", "open", "ended", "slow", "gone"}]
      /\ subs = {} /\ tracked = {} /\ known = {} /\ sock = NoSocket
      /\ chain \in {"idle", "publish", "last", "close"}
      /\ queued = FALSE /\ draining = FALSE /\ done = FALSE /\ missed = FALSE
  BY DEF Init
<1>8. TypeOK
  BY <1>1, <1>2, <1>3, <1>4, <1>5, <1>6, <1>7, Zenon DEF TypeOK
<1>9. Unheard
  BY DEF Init, Unheard
<1> QED BY <1>8, <1>9 DEF Types

\* The numbers that count.
LEMMA Numbers ==
    ASSUME Types
    PROVE  /\ seq \in Nat /\ seq <= MaxFacts /\ MaxFacts \in Nat
           /\ over \in Nat /\ over <= MaxFacts
           /\ mishaps \in Nat /\ mishaps <= MaxMishaps /\ MaxMishaps \in Nat
BY StreamAssumption DEF Types, TypeOK

LEMMA MishapCounted ==
    ASSUME Types
    PROVE  /\ \A kind : Happens(kind) => mishaps' \in 0 .. MaxMishaps
           /\ UNCHANGED mishaps => mishaps' \in 0 .. MaxMishaps
BY Numbers DEF Happens

LEMMA TypesSay == ASSUME Types, NEW ends \in BOOLEAN, Say(ends) PROVE Types'
<1>1. seq' \in 0 .. MaxFacts /\ over' \in 0 .. MaxFacts
  BY Numbers DEF Say
<1>2. chain' \in {"idle", "publish", "last", "close"}
  BY DEF Say
<1>3. UNCHANGED <<doors, subs>>
  BY DEF Say, hub
<1> QED BY <1>1, <1>2, <1>3, DoorsTyped DEF Types, TypeOK, Say, Calm, hub, doors, client

LEMMA TypesEmitTo == ASSUME Types, EmitTo PROVE Types'
<1>1. UNCHANGED <<doors, subs>>
  BY DEF EmitTo, hub
<1> QED BY StreamAssumption, <1>1, DoorsTyped DEF Types, TypeOK, EmitTo, Calm, hub, doors, client

LEMMA TypesSayQueued == ASSUME Types, SayQueued PROVE Types'
<1>1. seq' \in 0 .. MaxFacts
  BY Numbers DEF SayQueued
<1>2. UNCHANGED <<doors, subs>>
  BY DEF SayQueued, hub
<1> QED BY <1>1, <1>2, DoorsTyped DEF Types, TypeOK, SayQueued, Calm, hub, doors, client

LEMMA TypesPublish == ASSUME Types, Publish PROVE Types'
<1>1. seq \in Close .. MaxFacts /\ channel \in Seq(Close .. MaxFacts)
  BY StreamAssumption DEF Types, TypeOK, Close
<1>2. channel \o Published \in Seq(Close .. MaxFacts)
  BY <1>1, Single, Joined DEF Published
<1>3. channel' \in Seq(Close .. MaxFacts)
  BY <1>1, <1>2 DEF Publish
<1>4. mishaps' \in 0 .. MaxMishaps /\ missed' \in BOOLEAN
  BY MishapCounted DEF Types, TypeOK, Publish, Calm
<1>5. chain' \in {"idle", "publish", "last", "close"}
  BY DEF Publish
<1>6. UNCHANGED <<doors, subs>>
  BY DEF Publish, hub
<1> QED BY <1>3, <1>4, <1>5, <1>6, DoorsTyped DEF Types, TypeOK, Publish, doors, client

LEMMA TypesCloseMatch == ASSUME Types, CloseMatch PROVE Types'
<1>1. Close \in Close .. MaxFacts /\ channel \in Seq(Close .. MaxFacts)
  BY StreamAssumption DEF Types, TypeOK, Close
<1>2. channel' \in Seq(Close .. MaxFacts)
  BY <1>1, Appended DEF CloseMatch
<1>4. mishaps' \in 0 .. MaxMishaps /\ missed' \in BOOLEAN
  BY MishapCounted DEF Types, TypeOK, CloseMatch, Calm
<1>5. UNCHANGED <<doors, subs>>
  BY DEF CloseMatch, hub
<1> QED BY <1>2, <1>4, <1>5, DoorsTyped DEF Types, TypeOK, CloseMatch, doors, client

LEMMA TypesThrow == ASSUME Types, Throw PROVE Types'
<1>1. mishaps' \in 0 .. MaxMishaps
  BY MishapCounted DEF Throw
<1>2. UNCHANGED <<doors, subs>>
  BY DEF Throw, hub
<1> QED BY <1>1, <1>2, DoorsTyped DEF Types, TypeOK, Throw, hub, doors, client

LEMMA TypesDeliver == ASSUME Types, Deliver PROVE Types'
<1> DEFINE n == Head(channel)
           told == {s \in subs : stage[s] = "greeted" /\ ~Covered(s, n, hello[s].n)}
<1>1. PICK slow \in {{}} \cup {{s} : s \in {t \in told : code[t] = "open"}} :
          /\ IF slow = {} THEN UNCHANGED mishaps ELSE Happens("slow")
          /\ held' = [s \in Sockets |->
                        IF s \in subs /\ stage[s] # "greeted" THEN Append(held[s], n) ELSE held[s]]
          /\ Writes(Silent, [s \in Sockets |-> IF s \in told \ slow THEN <<n>> ELSE <<>>])
          /\ subs' = Leave(slow)
          /\ code' = [s \in Sockets |-> IF s \in slow THEN "slow" ELSE code[s]]
          /\ tracked' = tracked \ slow
  BY DEF Deliver
<1>2. channel \in Seq(Close .. MaxFacts) /\ channel # <<>> /\ n # Close /\ channel' = Tail(channel)
  BY DEF Deliver, Types, TypeOK
<1>3. channel' \in Seq(Close .. MaxFacts) /\ n \in 1 .. MaxFacts
  BY <1>2, Rest, StreamAssumption DEF Close
<1> HIDE DEF n
<1>4. held' \in [Sockets -> Seq(1 .. MaxFacts)]
  <2>1. \A s \in Sockets : held[s] \in Seq(1 .. MaxFacts)
    BY DEF Types, TypeOK
  <2>2. \A s \in Sockets : Append(held[s], n) \in Seq(1 .. MaxFacts)
    BY <2>1, <1>3, Appended
  <2> QED BY <1>1, <2>1, <2>2
<1> DEFINE f == [s \in Sockets |-> IF s \in told \ slow THEN <<n>> ELSE <<>>]
<1>5. f \in [Sockets -> Seq(1 .. MaxFacts)] /\ Silent \in [Sockets -> Seq(Frames)]
  <2>1. <<n>> \in Seq(1 .. MaxFacts) /\ <<>> \in Seq(1 .. MaxFacts) /\ <<>> \in Seq(Frames)
    BY <1>3, Single, NoneYet
  <2> QED BY <2>1 DEF Silent
<1>6. Writes(Silent, f)
  BY <1>1
<1>7. /\ wire' \in [Streams -> Seq(Frames)]
      /\ wrote' \in [Sockets -> Seq(1 .. MaxFacts)]
  <2> HIDE DEF f
  <2> QED BY <1>5, <1>6, WritesTyped DEF Types, TypeOK
<1>8. mishaps' \in 0 .. MaxMishaps
  BY <1>1, MishapCounted
<1>9. /\ subs' = subs \ slow /\ subs' \subseteq Sockets
      /\ code' \in [Sockets -> {"none", "open", "ended", "slow", "gone"}]
      /\ \A s \in subs' : code'[s] = code[s]
      /\ tracked' \subseteq Widgets
  BY <1>1 DEF Leave, Types, TypeOK
<1>10. /\ UNCHANGED <<stage, hello>>
       /\ \A s \in Sockets : code[s] # "open" \/ stage[s] = "none" => wrote'[s] = wrote[s]
  <2>1. UNCHANGED <<stage, hello>>
    BY DEF Deliver
  <2>2. ASSUME NEW s \in Sockets, code[s] # "open" \/ stage[s] = "none" PROVE wrote'[s] = wrote[s]
    <3>1. wrote'[s] = IF code[s] = "open" THEN wrote[s] \o f[s] ELSE wrote[s]
      BY <1>6 DEF Writes
    <3>2. stage[s] = "none" => f[s] = <<>>
      OBVIOUS
    <3>3. wrote[s] \in Seq(1 .. MaxFacts) /\ wrote[s] \o <<>> = wrote[s]
      BY DEF Types, TypeOK
    <3> HIDE DEF f
    <3> QED BY <2>2, <3>1, <3>2, <3>3
  <2> QED BY <2>1, <2>2
<1>11. (\A s \in subs' : Subscribed(s)') /\ Unheard'
  BY <1>9, <1>10 DEF Types, TypeOK, Subscribed, Unheard
<1> HIDE DEF told, f
<1> QED BY <1>3, <1>4, <1>7, <1>8, <1>9, <1>11 DEF Deliver, Types, TypeOK, Frames, machine, client

LEMMA TypesDeliverClose == ASSUME Types, DeliverClose PROVE Types'
<1>1. channel' \in Seq(Close .. MaxFacts)
  BY Rest DEF Types, TypeOK, DeliverClose
<1>2. /\ subs' = {}
      /\ code' \in [Sockets -> {"none", "open", "ended", "slow", "gone"}]
      /\ tracked' \subseteq Widgets
  BY DEF Types, TypeOK, DeliverClose
<1>3. (\A s \in subs' : Subscribed(s)') /\ Unheard'
  BY <1>2 DEF Types, DeliverClose, Unheard
<1> QED BY <1>1, <1>2, <1>3 DEF Types, TypeOK, DeliverClose, machine, client, Calm

LEMMA TypesSubscribe == ASSUME Types, NEW s \in Sockets, Subscribe(s) PROVE Types'
<1>1. /\ subs' \subseteq Sockets
      /\ stage' \in [Sockets -> {"none", "reading", "read", "greeted"}]
      /\ code' \in [Sockets -> {"none", "open", "ended", "slow", "gone"}]
      /\ \A t \in Sockets \ {s} : code'[t] = code[t] /\ stage'[t] = stage[t]
      /\ code'[s] = "open" \/ (s \in Streams /\ code'[s] = "gone")
      /\ subs' = subs \cup {s} /\ UNCHANGED <<hello, wrote>>
  BY DEF Types, TypeOK, Subscribe
<1>2. sock' \in Streams \cup {NoSocket} /\ mishaps' \in 0 .. MaxMishaps
  BY MishapCounted DEF Types, TypeOK, Subscribe
<1>3. (\A t \in subs' : Subscribed(t)') /\ Unheard'
  <2>1. hello[s] = NoHello /\ wrote[s] = <<>>
    BY DEF Subscribe, Types, Unheard
  <2> QED BY <1>1, <2>1 DEF Types, TypeOK, Subscribed, Unheard
<1> QED BY <1>1, <1>2, <1>3 DEF Types, TypeOK, Subscribe, machine

LEMMA TypesReadRow == ASSUME Types, NEW s \in Sockets, ReadRow(s) PROVE Types'
<1>1. [n |-> seq, over |-> over # 0] \in Hellos
  BY DEF Types, TypeOK, Hellos
<1>2. /\ row' \in [Sockets -> Hellos]
      /\ stage' \in [Sockets -> {"none", "reading", "read", "greeted"}]
      /\ \A t \in Sockets : /\ stage'[t] = "greeted" => stage[t] = "greeted"
                            /\ stage'[t] = "none" => stage[t] = "none"
  BY <1>1 DEF Types, TypeOK, ReadRow
<1>3. (\A t \in subs' : Subscribed(t)') /\ Unheard'
  <2>1. UNCHANGED <<subs, code, hello, wrote>>
    BY DEF ReadRow, hub
  <2> QED BY <1>2, <2>1 DEF Types, TypeOK, Subscribed, Unheard
<1> QED BY <1>2, <1>3 DEF Types, TypeOK, ReadRow, machine, hub, client, Calm

LEMMA TypesGreet == ASSUME Types, NEW s \in Sockets, Greet(s) PROVE Types'
<1> DEFINE I == {i \in 1 .. Len(held[s]) : ~Covered(s, held[s][i], row[s].n)}
           behind == Left(held[s], I)
           g == [Silent EXCEPT ![s] = <<Hello(row[s].n)>>]
           f == [Silent EXCEPT ![s] = behind]
<1>1. held[s] \in Seq(1 .. MaxFacts)
  BY DEF Types, TypeOK
<1>2. behind \in Seq(1 .. MaxFacts)
  BY <1>1, LeftIsSeq
<1>3. f \in [Sockets -> Seq(1 .. MaxFacts)]
  <2> HIDE DEF behind
  <2> QED BY <1>2, NoneYet DEF Silent
<1>4. g \in [Sockets -> Seq(Frames)]
  <2>1. row[s].n \in 0 .. MaxFacts
    BY DEF Types, TypeOK, Hellos
  <2>2. Hello(row[s].n) \in Frames
    BY <2>1 DEF Frames
  <2>3. <<Hello(row[s].n)>> \in Seq(Frames) /\ <<>> \in Seq(Frames)
    BY <2>2, Single, NoneYet
  <2> QED BY <2>3 DEF Silent
<1>5. Writes(g, f)
  BY DEF Greet
<1>6. /\ wire' \in [Streams -> Seq(Frames)]
      /\ wrote' \in [Sockets -> Seq(1 .. MaxFacts)]
  <2> HIDE DEF f, g
  <2> QED BY <1>3, <1>4, <1>5, WritesTyped DEF Types, TypeOK
<1>7. /\ hello' \in [Sockets -> Hellos \cup {NoHello}]
      /\ stage' \in [Sockets -> {"none", "reading", "read", "greeted"}]
  BY DEF Greet, Types, TypeOK
<1>8. held' \in [Sockets -> Seq(1 .. MaxFacts)]
  BY NoneYet DEF Greet, Types, TypeOK
<1>9. /\ subs' \subseteq subs /\ (s \in subs' => ~EndsAtHello(s) /\ (s \in Widgets => code[s] # "gone"))
      /\ code' \in [Sockets -> {"none", "open", "ended", "slow", "gone"}]
      /\ tracked' \subseteq Widgets
      /\ \A t \in Sockets \ {s} : code'[t] = code[t] /\ stage'[t] = stage[t] /\ hello'[t] = hello[t]
      /\ stage[s] = "read" /\ stage'[s] = "greeted"
      /\ code'[s] = code[s] \/ EndsAtHello(s)
      /\ code[s] # "open" => hello'[s] = hello[s]
  BY DEF Greet, Types, TypeOK
<1>10. \A t \in Sockets : t # s \/ code[t] # "open" => wrote'[t] = wrote[t]
  <2> TAKE t \in Sockets
  <2>1. wrote'[t] = IF code[t] = "open" THEN wrote[t] \o f[t] ELSE wrote[t]
    BY <1>5 DEF Writes
  <2>2. t # s => f[t] = <<>>
    BY DEF Silent
  <2>3. wrote[t] \in Seq(1 .. MaxFacts) /\ wrote[t] \o <<>> = wrote[t]
    BY DEF Types, TypeOK
  <2> HIDE DEF f
  <2> QED BY <2>1, <2>2, <2>3
<1>11. \A t \in subs' : Subscribed(t)'
  <2> TAKE t \in subs'
  <2>1. t \in Sockets /\ Subscribed(t)
    BY <1>9 DEF Types, TypeOK
  <2>2. CASE t # s
    <3>1. UNCHANGED <<code[t], stage[t], hello[t], wrote[t]>>
      BY <1>9, <1>10, <2>1, <2>2
    <3> QED BY <2>1, <3>1 DEF Subscribed
  <2>3. CASE t = s
    BY <1>9, <1>10, <2>1, <2>3 DEF Subscribed
  <2> QED BY <2>2, <2>3
<1>12. Unheard'
  BY <1>9, <1>10 DEF Types, Unheard
<1> HIDE DEF f, g, behind, I
<1> QED BY <1>6, <1>7, <1>8, <1>9, <1>11, <1>12 DEF Greet, Types, TypeOK, Frames, machine, client, Calm

LEMMA TypesGone ==
    ASSUME Types, NEW S, Gone(S)
    PROVE  /\ code' \in [Sockets -> {"none", "open", "ended", "slow", "gone"}]
           /\ wire' \in [Streams -> Seq(Frames)]
           /\ \A s \in Sockets : s \notin S => code'[s] = code[s]
           /\ \A s \in Sockets : code'[s] = code[s] \/ code'[s] = "gone"
           /\ \A s \in Sockets \cap S : code'[s] # "open"
BY NoneYet DEF Types, TypeOK, Gone, Frames

LEMMA TypesBreak == ASSUME Types, NEW s \in Sockets, Break(s) PROVE Types'
<1>1. /\ code' \in [Sockets -> {"none", "open", "ended", "slow", "gone"}]
      /\ wire' \in [Streams -> Seq(Frames)]
      /\ \A t \in Sockets \ {s} : code'[t] = code[t]
      /\ code'[s] = code[s] \/ code'[s] = "gone"
  BY TypesGone DEF Break
<1>2. mishaps' \in 0 .. MaxMishaps
  BY MishapCounted DEF Break
<1>3. /\ subs' \subseteq subs /\ tracked' \subseteq tracked
      /\ s \in subs' => s \in Widgets /\ stage[s] # "greeted"
      /\ UNCHANGED <<stage, hello, wrote>>
  BY DEF Break, Types, TypeOK
<1>4. (\A t \in subs' : Subscribed(t)') /\ Unheard'
  BY <1>1, <1>3 DEF Types, TypeOK, Subscribed, Unheard
<1> QED BY <1>1, <1>2, <1>3, <1>4 DEF Break, Types, TypeOK, Frames, machine, client

LEMMA TypesStop == ASSUME Types, Stop PROVE Types'
<1>1. /\ code' \in [Sockets -> {"none", "open", "ended", "slow", "gone"}]
      /\ wire' \in [Streams -> Seq(Frames)]
  BY TypesGone DEF Stop
<1>2. mishaps' \in 0 .. MaxMishaps
  BY MishapCounted DEF Stop
<1>3. page' \in [asked : BOOLEAN, after : 0 .. MaxFacts, seq : 0 .. MaxFacts, over : BOOLEAN]
  BY StreamAssumption DEF Stop, NoPage
<1>4. held' \in [Sockets -> Seq(1 .. MaxFacts)] /\ channel' \in Seq(Close .. MaxFacts)
  BY NoneYet DEF Stop
<1>5. /\ stage' \in [Sockets -> {"none", "reading", "read", "greeted"}]
      /\ subs' = {} /\ tracked' = {} /\ chain' = "idle" /\ queued' = FALSE
  BY DEF Stop
<1>6. (\A t \in subs' : Subscribed(t)') /\ Unheard'
  BY <1>5 DEF Stop, Types, Unheard
<1> QED BY <1>1, <1>2, <1>3, <1>4, <1>5, <1>6 DEF Stop, Types, TypeOK, Frames

\* The cursor is where the client's facts first have a gap.
LEMMA CursorIs ==
    ASSUME known \subseteq 1 .. MaxFacts
    PROVE  Cursor \in 0 .. MaxFacts /\ 1 .. Cursor \subseteq known /\ Cursor + 1 \notin known
<1> DEFINE B == {n \in Nat : n + 1 \notin known}
<1>0. MaxFacts \in Nat
  BY StreamAssumption
<1>1. MaxFacts \in B
  BY <1>0
<1>2. PICK n \in B : \A k \in B : ~(<<k, n>> \in OpToRel(<, Nat))
  <2>1. B \subseteq Nat /\ B # {}
    BY <1>1
  <2> QED BY <2>1, NatLessThanWellFounded, WFMin
<1>3. n \in Nat /\ n + 1 \notin known /\ \A k \in Nat : k < n => k + 1 \in known
  BY <1>2 DEF OpToRel
<1>4. n <= MaxFacts
  BY <1>3, <1>0, <1>1
<1>5. \A k \in 1 .. n : k \in known
  <2> TAKE k \in 1 .. n
  <2>1. k - 1 \in Nat /\ k - 1 < n /\ (k - 1) + 1 = k
    BY <1>3
  <2> QED BY <2>1, <1>3
<1>6. n \in 0 .. MaxFacts /\ 1 .. n \subseteq known
  BY <1>3, <1>4, <1>5, <1>0
<1> QED BY <1>3, <1>6 DEF Cursor

LEMMA TypesRead == ASSUME Types, Read PROVE Types'
<1> DEFINE f == Head(wire[sock])
<1>1. sock \in Streams /\ wire[sock] \in Seq(Frames) /\ wire[sock] # <<>>
  BY DEF Read, Types, TypeOK, Frames
<1>2. f \in Frames /\ Tail(wire[sock]) \in Seq(Frames)
  BY <1>1, Rest
<1>3. wire' \in [Streams -> Seq(Frames)]
  BY <1>1, <1>2 DEF Read, Types, TypeOK, Frames
<1> HIDE DEF f
<1>4. goal' \in 0 .. MaxFacts /\ known' \in SUBSET (1 .. MaxFacts)
  <2>1. /\ goal' = IF f.hello THEN f.n ELSE goal
        /\ known' = IF f.hello THEN known ELSE known \cup {f.n}
    BY DEF Read, f
  <2>2. f.n \in 0 .. MaxFacts /\ (f.hello \/ f.n \in 1 .. MaxFacts)
    BY <1>2 DEF Frames, Hello, Event
  <2> QED BY <2>1, <2>2 DEF Types, TypeOK
<1>5. UNCHANGED <<doors, subs>>
  BY DEF Read, hub
<1> QED BY <1>3, <1>4, <1>5, DoorsTyped DEF Read, Types, TypeOK, Frames, machine, hub, doors, Calm

LEMMA TypesReadClose == ASSUME Types, ReadClose PROVE Types'
<1>1. UNCHANGED <<doors, subs>>
  BY DEF ReadClose, hub
<1> QED BY <1>1, DoorsTyped DEF ReadClose, Types, TypeOK, machine, hub, doors, Calm

LEMMA TypesAsk == ASSUME Types, Ask PROVE Types'
<1>1. Cursor \in 0 .. MaxFacts
  BY CursorIs DEF Types, TypeOK
<1>2. page' \in [asked : BOOLEAN, after : 0 .. MaxFacts, seq : 0 .. MaxFacts, over : BOOLEAN]
  BY <1>1 DEF Ask, Types, TypeOK
<1>3. UNCHANGED <<doors, subs>>
  BY DEF Ask, hub
<1> QED BY <1>2, <1>3, DoorsTyped DEF Ask, Types, TypeOK, machine, hub, doors, Calm
LEMMA ListedIn == ASSUME Types PROVE Listed \subseteq 1 .. seq /\ Listed \subseteq 1 .. MaxFacts
BY Numbers DEF Listed

LEMMA TypesPageList == ASSUME Types, PageList PROVE Types'
<1>1. known' \in SUBSET (1 .. MaxFacts)
  BY ListedIn DEF PageList, Types, TypeOK
<1>2. page' \in [asked : BOOLEAN, after : 0 .. MaxFacts, seq : 0 .. MaxFacts, over : BOOLEAN]
  BY StreamAssumption DEF PageList, NoPage
<1>3. done' \in BOOLEAN /\ draining' \in BOOLEAN
  <2>1. page.over \in BOOLEAN
    BY DEF Types, TypeOK
  <2> QED BY <2>1 DEF PageList, NoNext
<1>4. UNCHANGED <<doors, subs>>
  BY DEF PageList, hub
<1> QED BY <1>1, <1>2, <1>3, <1>4, DoorsTyped DEF PageList, Types, TypeOK, machine, hub, doors, Calm

LEMMA TypesStep == Types /\ [Next]_vars => Types'
<1> SUFFICES ASSUME Types, [Next]_vars PROVE Types'
  OBVIOUS
<1>1. CASE UNCHANGED vars
  <2>1. UNCHANGED <<doors, subs>>
    BY <1>1 DEF vars, doors
  <2> QED BY <1>1, <2>1, DoorsTyped DEF vars, Types, TypeOK
<1>2. CASE Next
  BY <1>2, TypesSay, TypesEmitTo, TypesSayQueued, TypesPublish, TypesCloseMatch, TypesThrow,
     TypesDeliver, TypesDeliverClose, TypesSubscribe, TypesReadRow, TypesGreet, TypesBreak,
     TypesStop, TypesRead, TypesReadClose, TypesAsk, TypesPageList, Zenon
     DEF Next, Machine, Hub, Door, Client, Pages
<1> QED BY <1>1, <1>2

\* Every variable keeps its type, and whoever is subscribed is open, a widget's socket that went
\* before its hello, or a stream's that had gone before it subscribed and is never written a thing.
THEOREM TypesHold == Spec => []TypeOK
<1>1. Types => TypeOK
  BY DEF Types
<1> QED BY InitTypes, TypesStep, <1>1, PTL DEF Spec
-----------------------------------------------------------------------------
(* The end of the log.                                                      *)

LEMMA EndKept ==
    ASSUME EndInv, UNCHANGED <<seq, over, chain, known, page, done>>
    PROVE  EndInv'
BY DEF EndInv, MachineInv, PageInv, LastPageIsLast

\* What the client has it keeps, and a match that is over stays so.
LEMMA EndGrows ==
    ASSUME Types, EndInv, MachineInv', known \subseteq known', over # 0 => over' = over,
           UNCHANGED <<page, done>>
    PROVE  EndInv'
BY DEF EndInv, PageInv, LastPageIsLast

LEMMA EndSay == ASSUME Types, EndInv, NEW ends \in BOOLEAN, Say(ends) PROVE EndInv'
<1>1. MachineInv'
  BY Numbers DEF EndInv, MachineInv, Say
<1> QED BY <1>1, EndGrows DEF Say, client

LEMMA EndSayQueued == ASSUME Types, EndInv, SayQueued PROVE EndInv'
<1>1. MachineInv'
  BY Numbers DEF EndInv, MachineInv, SayQueued
<1> QED BY <1>1, EndGrows DEF SayQueued, client

LEMMA EndChain ==
    ASSUME Types, EndInv, Publish \/ CloseMatch \/ Throw
    PROVE  EndInv'
<1>1. UNCHANGED <<seq, over, known, page, done>>
  BY DEF Publish, CloseMatch, Throw, client
<1>2. chain # "idle" /\ (chain' # "idle" => chain = "last")
  BY DEF Publish, CloseMatch, Throw
<1>3. MachineInv'
  BY <1>1, <1>2 DEF EndInv, MachineInv
<1> QED BY <1>1, <1>3, EndGrows

LEMMA EndStop == ASSUME Types, EndInv, Stop PROVE EndInv'
BY DEF Stop, EndInv, MachineInv, PageInv, LastPageIsLast, NoPage

LEMMA EndRead == ASSUME Types, EndInv, Read PROVE EndInv'
<1>1. known \subseteq known' /\ UNCHANGED <<seq, over, chain, page, done>>
  BY DEF Read, machine
<1>2. MachineInv'
  BY <1>1 DEF EndInv, MachineInv
<1> QED BY <1>1, <1>2, EndGrows

LEMMA EndAsk == ASSUME Types, EndInv, Ask PROVE EndInv'
<1>1. 1 .. Cursor \subseteq known
  BY CursorIs DEF Types, TypeOK
<1>2. page' = [asked |-> TRUE, after |-> Cursor, seq |-> seq, over |-> over # 0]
  BY DEF Ask
<1>3. PageInv'
  <2>1. UNCHANGED <<seq, over, chain, known, done>>
    BY DEF Ask, machine
  <2>2. page'.after = Cursor /\ page'.seq = seq /\ (page'.over => over # 0)
    BY <1>2
  <2> QED BY <1>1, <2>1, <2>2 DEF EndInv, MachineInv, PageInv
<1> QED BY <1>3 DEF EndInv, MachineInv, LastPageIsLast, Ask, machine

LEMMA EndPageList == ASSUME Types, EndInv, PageList PROVE EndInv'
<1> DEFINE last == IF Listed = {} THEN page.after
                   ELSE CHOOSE n \in Listed : \A m \in Listed : m <= n
<1>1. /\ page.asked /\ page' = NoPage /\ known' = known \cup Listed /\ done' = NoNext(last)
      /\ UNCHANGED <<seq, over, chain>>
  BY DEF PageList, machine
<1>2. MachineInv' /\ PageInv'
  BY <1>1 DEF EndInv, MachineInv, PageInv, NoPage
<1>3. page.after \in Nat /\ page.seq \in Nat /\ seq \in Nat /\ PageLimit \in Nat \ {0} /\ over \in Nat
  BY StreamAssumption DEF Types, TypeOK
<1>4. last \in Nat /\ 1 .. last \subseteq 1 .. page.after \cup Listed
  <2>1. CASE Listed = {}
    BY <2>1, <1>3
  <2>2. CASE Listed # {}
    <3>1. PICK k \in 1 .. seq : page.after < k /\ k <= page.after + PageLimit
      BY <2>2 DEF Listed
    <3> DEFINE top == IF seq <= page.after + PageLimit THEN seq ELSE page.after + PageLimit
    <3>2. top \in Listed /\ \A m \in Listed : m <= top
      BY <3>1, <1>3 DEF Listed
    <3>3. last \in Listed /\ \A m \in Listed : m <= last
      BY <3>2, <2>2
    <3>4. last \in 1 .. seq /\ page.after < last /\ last <= page.after + PageLimit
      BY <3>3 DEF Listed
    <3> HIDE DEF last
    <3>5. \A i \in 1 .. last : i > page.after => i \in Listed
      BY <3>4, <1>3 DEF Listed
    <3> QED BY <3>4, <3>5, <1>3
  <2> QED BY <2>1, <2>2
<1>5. LastPageIsLast'
  <2> SUFFICES ASSUME done' PROVE over # 0 /\ 1 .. over \subseteq known'
    BY <1>1 DEF LastPageIsLast
  <2>1. last >= page.seq /\ page.over
    BY <1>1 DEF NoNext
  <2> HIDE DEF last
  <2>2. over # 0 /\ over <= last
    BY <2>1, <1>1, <1>3, <1>4 DEF EndInv, PageInv
  <2>3. 1 .. over \subseteq 1 .. last
    BY <2>2, <1>3, <1>4
  <2>4. 1 .. page.after \subseteq known
    BY <1>1 DEF EndInv, PageInv
  <2> QED BY <2>2, <2>3, <2>4, <1>1, <1>4
<1> QED BY <1>2, <1>5 DEF EndInv

LEMMA EndStep == Types /\ EndInv /\ [Next]_vars => EndInv'
<1> SUFFICES ASSUME Types, EndInv, [Next]_vars PROVE EndInv'
  OBVIOUS
<1>1. CASE UNCHANGED vars
  BY <1>1, EndKept DEF vars
<1>2. CASE EmitTo \/ Hub \/ (\E s \in Sockets : Subscribe(s) \/ Door(s) \/ Break(s)) \/ ReadClose
  <2>1. UNCHANGED <<seq, over, chain, known, page, done>>
    BY <1>2 DEF EmitTo, Hub, Deliver, DeliverClose, Subscribe, Door, ReadRow, Greet, Break, ReadClose,
                machine, client
  <2> QED BY <2>1, EndKept
<1>3. CASE Next
  BY <1>2, <1>3, EndSay, EndSayQueued, EndChain, EndStop, EndRead, EndAsk, EndPageList, Zenon
     DEF Next, Machine, Client, Pages
<1> QED BY <1>1, <1>3
-----------------------------------------------------------------------------
(* The doors.                                                               *)

\* Where a door is left alone, what it keeps holds on.
LEMMA DoorKept ==
    ASSUME Types, EndInv, NEW s \in Sockets, AtDoor(s), seq <= seq', seq' \in Nat,
           over' = over \/ (over = 0 /\ over' = seq + 1),
           stage'[s] = stage[s], held'[s] = held[s] \/ stage[s] # "none",
           row'[s] = row[s], hello'[s] = hello[s],
           wrote'[s] = wrote[s] \/ stage[s] = "greeted",
           code'[s] = "open" => code[s] = "open" /\ s \in subs',
           s \in subs' => s \in subs
    PROVE  AtDoor(s)'
<1>1. /\ hello[s].n \in Int /\ row[s].n \in Int /\ over \in Nat /\ seq \in Nat
      /\ hello[s].n <= seq /\ row[s].n <= seq
  <2>1. row[s] \in Hellos /\ (hello[s] \in Hellos \/ hello[s] = NoHello)
    BY DEF Types, TypeOK
  <2> QED BY <2>1, Numbers DEF Hellos, NoHello, AtDoor
<1>2. /\ code'[s] = "open" => s \in subs' /\ stage'[s] # "none"
      /\ stage'[s] = "none" => s \notin subs' /\ held'[s] = <<>>
      /\ stage'[s] # "greeted" => wrote'[s] = <<>> /\ hello'[s] = NoHello
  BY DEF AtDoor
<1>3. hello'[s].n <= seq' /\ row'[s].n <= seq'
  BY <1>1
<1>4. hello'[s].over \/ row'[s].over => over' # 0
  BY <1>1 DEF AtDoor
<1>5. over' # 0 => \/ over' = over /\ over # 0
                   \/ hello'[s].n < over' /\ row'[s].n < over'
  BY <1>1
<1>6. over' # 0 /\ hello'[s].n >= over' => hello'[s].over
  BY <1>1, <1>5 DEF AtDoor
<1>7. stage'[s] = "read" /\ over' # 0 /\ row'[s].n >= over' => row'[s].over
  BY <1>1, <1>5 DEF AtDoor
<1> QED BY <1>2, <1>3, <1>4, <1>6, <1>7 DEF AtDoor

\* The steps of the match and of the client touch no socket.
LEMMA DoorElsewhere ==
    ASSUME Types, Types', EndInv, DoorInv, seq <= seq',
           over' = over \/ (over = 0 /\ over' = seq + 1), UNCHANGED <<doors, subs>>
    PROVE  DoorInv'
<1>1. ASSUME NEW s \in Sockets PROVE AtDoor(s)'
  <2>1. /\ stage'[s] = stage[s] /\ held'[s] = held[s] /\ row'[s] = row[s] /\ hello'[s] = hello[s]
        /\ wrote'[s] = wrote[s] /\ code'[s] = code[s] /\ subs' = subs
    BY DEF doors
  <2>2. AtDoor(s) /\ (code'[s] = "open" => code[s] = "open" /\ s \in subs')
    BY <2>1 DEF DoorInv, AtDoor
  <2>3. seq' \in Nat
    BY DEF Types, TypeOK
  <2> QED BY <2>1, <2>2, <2>3, DoorKept
<1>2. NoneCovered'
  BY DEF NoneCovered, DoorInv, doors
<1> QED BY <1>1, <1>2 DEF DoorInv

LEMMA DoorWrites ==
    ASSUME Types, NEW g, NEW f \in [Sockets -> Seq(1 .. MaxFacts)], Writes(g, f), NEW s \in Sockets
    PROVE  /\ code[s] # "open" => wrote'[s] = wrote[s]
           /\ f[s] = <<>> => wrote'[s] = wrote[s]
           /\ code[s] = "open" => wrote'[s] = wrote[s] \o f[s]
<1>1. wrote[s] \in Seq(1 .. MaxFacts) /\ f[s] \in Seq(1 .. MaxFacts)
  BY DEF Types, TypeOK
<1>2. wrote[s] \o <<>> = wrote[s]
  BY <1>1
<1> QED BY <1>2 DEF Writes

\* What a delivery writes.
Fresh(n, slow) ==
    [s \in Sockets |-> IF s \in {t \in subs : stage[t] = "greeted" /\ ~Covered(t, n, hello[t].n)} \ slow
                        THEN <<n>> ELSE <<>>]

LEMMA Delivered ==
    ASSUME Types, Deliver
    PROVE  \E n \in 1 .. MaxFacts, slow \in SUBSET subs :
               /\ channel # <<>> /\ n = channel[1] /\ n # Close /\ channel' = Tail(channel)
               /\ held' = [s \in Sockets |-> IF s \in subs /\ stage[s] # "greeted"
                                              THEN Append(held[s], n) ELSE held[s]]
               /\ Writes(Silent, Fresh(n, slow)) /\ Fresh(n, slow) \in [Sockets -> Seq(1 .. MaxFacts)]
               /\ subs' = subs \ slow
               /\ code' = [s \in Sockets |-> IF s \in slow THEN "slow" ELSE code[s]]
               /\ UNCHANGED <<seq, over, chain, stage, row, hello, missed>>
<1> DEFINE n == Head(channel)
           told == {s \in subs : stage[s] = "greeted" /\ ~Covered(s, n, hello[s].n)}
<1>1. PICK slow \in {{}} \cup {{s} : s \in {t \in told : code[t] = "open"}} :
          /\ held' = [s \in Sockets |->
                        IF s \in subs /\ stage[s] # "greeted" THEN Append(held[s], n) ELSE held[s]]
          /\ Writes(Silent, [s \in Sockets |-> IF s \in told \ slow THEN <<n>> ELSE <<>>])
          /\ subs' = Leave(slow)
          /\ code' = [s \in Sockets |-> IF s \in slow THEN "slow" ELSE code[s]]
  BY DEF Deliver
<1>2. channel \in Seq(Close .. MaxFacts) /\ channel # <<>> /\ n # Close /\ channel' = Tail(channel)
  BY DEF Deliver, Types, TypeOK
<1>3. n = channel[1] /\ n \in 1 .. MaxFacts
  BY <1>2, Rest, StreamAssumption DEF Close
<1>4. slow \in SUBSET subs
  BY <1>1
<1>5. UNCHANGED <<seq, over, chain, stage, row, hello, missed>>
  BY DEF Deliver, machine
<1>6. subs' = subs \ slow
  BY <1>1 DEF Leave
<1>7. Writes(Silent, Fresh(n, slow))
  BY <1>1 DEF Fresh
<1> HIDE DEF n
<1>8. Fresh(n, slow) \in [Sockets -> Seq(1 .. MaxFacts)]
  <2>1. <<n>> \in Seq(1 .. MaxFacts) /\ <<>> \in Seq(1 .. MaxFacts)
    BY <1>3, Single, NoneYet
  <2> QED BY <2>1 DEF Fresh
<1> QED BY <1>1, <1>2, <1>3, <1>4, <1>5, <1>6, <1>7, <1>8

LEMMA DoorDeliver == ASSUME Types, EndInv, DoorInv, Deliver PROVE DoorInv'
<1>1. PICK n \in 1 .. MaxFacts, slow \in SUBSET subs :
               /\ held' = [s \in Sockets |-> IF s \in subs /\ stage[s] # "greeted"
                                              THEN Append(held[s], n) ELSE held[s]]
               /\ Writes(Silent, Fresh(n, slow)) /\ Fresh(n, slow) \in [Sockets -> Seq(1 .. MaxFacts)]
               /\ subs' = subs \ slow
               /\ code' = [s \in Sockets |-> IF s \in slow THEN "slow" ELSE code[s]]
               /\ UNCHANGED <<seq, over, chain, stage, row, hello, missed>>
  BY Delivered
<1>2. ASSUME NEW s \in Sockets
      PROVE  \/ wrote'[s] = wrote[s]
             \/ /\ stage[s] = "greeted" /\ ~Covered(s, n, hello[s].n)
                /\ wrote'[s] = wrote[s] \o <<n>>
  <2>1. Fresh(n, slow)[s] = <<>> \/ /\ stage[s] = "greeted" /\ ~Covered(s, n, hello[s].n)
                                    /\ Fresh(n, slow)[s] = <<n>>
    BY DEF Fresh
  <2> QED BY <1>1, <2>1, DoorWrites
<1>3. ASSUME NEW s \in Sockets PROVE AtDoor(s)'
  <2>1. /\ held'[s] = held[s] \/ stage[s] # "none"
        /\ wrote'[s] = wrote[s] \/ stage[s] = "greeted"
        /\ code'[s] = "open" => code[s] = "open" /\ s \in subs'
        /\ s \in subs' => s \in subs
    BY <1>1, <1>2 DEF DoorInv, AtDoor
  <2>2. seq <= seq' /\ seq' \in Nat
    BY <1>1, Numbers
  <2> QED BY <1>1, <2>1, <2>2, DoorKept DEF DoorInv
<1>4. ASSUME NEW s \in Streams PROVE \A i \in 1 .. Len(wrote'[s]) : wrote'[s][i] > hello'[s].n
  <2>1. \A i \in 1 .. Len(wrote[s]) : wrote[s][i] > hello[s].n
    BY DEF DoorInv, NoneCovered
  <2>2. wrote[s] \in Seq(1 .. MaxFacts) /\ s \in Sockets /\ n \in 1 .. MaxFacts /\ hello[s].n \in Int
    BY DEF Types, TypeOK, Sockets, Hellos, NoHello
  <2>3. CASE wrote'[s] = wrote[s]
    BY <2>1, <2>3, <1>1
  <2>4. CASE ~Covered(s, n, hello[s].n) /\ wrote'[s] = wrote[s] \o <<n>>
    <3>1. n > hello[s].n
      BY <2>4, <2>2 DEF Covered
    <3>2. /\ Len(wrote'[s]) = Len(wrote[s]) + 1 /\ wrote'[s][Len(wrote[s]) + 1] = n
          /\ \A i \in 1 .. Len(wrote[s]) : wrote'[s][i] = wrote[s][i]
      BY <2>2, <2>4
    <3>3. hello'[s].n = hello[s].n
      BY <1>1
    <3>4. Len(wrote[s]) \in Nat
      BY <2>2, SeqIsTab
    <3>5. \A i \in 1 .. Len(wrote[s]) + 1 : i \in 1 .. Len(wrote[s]) \/ i = Len(wrote[s]) + 1
      BY <3>4
    <3>6. \A i \in 1 .. Len(wrote'[s]) : wrote'[s][i] > hello[s].n
      BY <3>1, <3>2, <3>5, <2>1, Zenon
    <3> QED BY <3>3, <3>6
  <2> QED BY <2>2, <2>3, <2>4, <1>2
<1> QED BY <1>3, <1>4 DEF DoorInv, NoneCovered

LEMMA DoorDeliverClose == ASSUME Types, EndInv, DoorInv, DeliverClose PROVE DoorInv'
<1>1. ASSUME NEW s \in Sockets PROVE AtDoor(s)'
  <2>1. /\ seq <= seq' /\ seq' \in Nat /\ over' = over
        /\ stage'[s] = stage[s] /\ held'[s] = held[s] /\ row'[s] = row[s] /\ hello'[s] = hello[s]
        /\ wrote'[s] = wrote[s]
    BY Numbers DEF DeliverClose, machine
  <2>2. (code'[s] = "open" => code[s] = "open" /\ s \in subs') /\ (s \in subs' => s \in subs)
    BY DEF DeliverClose, DoorInv, AtDoor
  <2> QED BY <2>1, <2>2, DoorKept DEF DoorInv
<1> QED BY <1>1 DEF DoorInv, NoneCovered, DeliverClose

LEMMA DoorSubscribe == ASSUME Types, EndInv, DoorInv, NEW t \in Sockets, Subscribe(t) PROVE DoorInv'
<1>0. UNCHANGED <<seq, over, chain, row, held, hello, wrote>> /\ subs' = subs \cup {t}
  BY DEF Subscribe, machine
<1>1. ASSUME NEW s \in Sockets, s # t PROVE AtDoor(s)'
  <2>1. stage'[s] = stage[s] /\ code'[s] = code[s] /\ (s \in subs' <=> s \in subs)
    <3>1. s \in DOMAIN code /\ s \in DOMAIN stage
      BY DEF Types, TypeOK
    <3> QED BY <1>1, <3>1 DEF Subscribe
  <2> QED BY <1>0, <2>1 DEF DoorInv, AtDoor
<1>2. AtDoor(t)'
  <2>1. stage[t] = "none" /\ stage'[t] = "reading" /\ t \in subs'
    BY DEF Subscribe, Types, TypeOK
  <2> QED BY <1>0, <2>1 DEF DoorInv, AtDoor
<1> QED BY <1>0, <1>1, <1>2 DEF DoorInv, NoneCovered

LEMMA DoorReadRow == ASSUME Types, EndInv, DoorInv, NEW t \in Sockets, ReadRow(t) PROVE DoorInv'
<1>0. UNCHANGED <<seq, over, chain, held, hello, wrote, subs, code>>
  BY DEF ReadRow, machine, hub
<1>1. ASSUME NEW s \in Sockets, s # t PROVE AtDoor(s)'
  <2>1. stage'[s] = stage[s] /\ row'[s] = row[s]
    BY <1>1 DEF ReadRow
  <2> QED BY <1>0, <2>1 DEF DoorInv, AtDoor
<1>2. AtDoor(t)'
  <2>1. stage[t] = "reading" /\ stage'[t] = "read" /\ row'[t] = [n |-> seq, over |-> over # 0]
    BY DEF ReadRow, Types, TypeOK
  <2>2. row'[t].n = seq /\ (row'[t].over <=> over # 0)
    <3>1. row'[t].n = seq /\ row'[t].over = (over # 0)
      BY <2>1
    <3> QED BY <3>1
  <2>3. seq \in Nat
    BY Numbers
  <2> QED BY <1>0, <2>1, <2>2, <2>3 DEF DoorInv, AtDoor
<1> QED BY <1>0, <1>1, <1>2 DEF DoorInv, NoneCovered

\* What waits behind a hello that it does not cover.
Behind(s) == Left(held[s], {i \in 1 .. Len(held[s]) : ~Covered(s, held[s][i], row[s].n)})

LEMMA Greeted ==
    ASSUME Types, DoorInv, NEW s \in Sockets, Greet(s)
    PROVE  /\ stage[s] = "read" /\ stage'[s] = "greeted"
           /\ UNCHANGED <<seq, over, chain, channel, missed, row>>
           /\ Behind(s) \in Seq(1 .. MaxFacts)
           /\ IF code[s] = "open" THEN hello'[s] = row[s] /\ wrote'[s] = Behind(s)
                                  ELSE hello'[s] = hello[s] /\ wrote'[s] = wrote[s]
           /\ subs' \subseteq subs /\ (s \in subs' => ~row[s].over)
           /\ code'[s] = (IF row[s].over /\ code[s] = "open" THEN "ended" ELSE code[s])
           /\ code'[s] = "open" => s \in subs'
           /\ held'[s] = <<>>
           /\ \A t \in Sockets \ {s} :
                  /\ stage'[t] = stage[t] /\ held'[t] = held[t] /\ hello'[t] = hello[t]
                  /\ code'[t] = code[t] /\ wrote'[t] = wrote[t] /\ (t \in subs' <=> t \in subs)
<1> DEFINE f == [Silent EXCEPT ![s] = Behind(s)]
           g == [Silent EXCEPT ![s] = <<Hello(row[s].n)>>]
<1>1. held[s] \in Seq(1 .. MaxFacts)
  BY DEF Types, TypeOK
<1>2. Behind(s) \in Seq(1 .. MaxFacts)
  BY <1>1, LeftIsSeq DEF Behind
<1>3. f \in [Sockets -> Seq(1 .. MaxFacts)] /\ f[s] = Behind(s) /\ \A t \in Sockets \ {s} : f[t] = <<>>
  BY <1>2, NoneYet DEF Silent
<1>4. Writes(g, f)
  BY DEF Greet, Behind
<1> HIDE DEF f, g
<1>5. /\ code[s] # "open" => wrote'[s] = wrote[s]
      /\ code[s] = "open" => wrote'[s] = wrote[s] \o Behind(s)
      /\ \A t \in Sockets \ {s} : wrote'[t] = wrote[t]
  BY <1>3, <1>4, DoorWrites
<1>6. stage[s] = "read" /\ wrote[s] = <<>>
  BY DEF Greet, DoorInv, AtDoor
<1>7. code[s] = "open" => wrote'[s] = Behind(s)
  BY <1>2, <1>5, <1>6
<1>8. /\ stage'[s] = "greeted" /\ held'[s] = <<>>
      /\ hello'[s] = (IF code[s] = "open" THEN row[s] ELSE hello[s])
      /\ code'[s] = (IF row[s].over /\ code[s] = "open" THEN "ended" ELSE code[s])
      /\ \A t \in Sockets \ {s} :
             stage'[t] = stage[t] /\ held'[t] = held[t] /\ hello'[t] = hello[t] /\ code'[t] = code[t]
  BY DEF Greet, Types, TypeOK, EndsAtHello
<1>9. /\ subs' \subseteq subs /\ (s \in subs' => ~row[s].over)
      /\ code'[s] = "open" => s \in subs'
      /\ \A t \in Sockets \ {s} : t \in subs' <=> t \in subs
  BY <1>8 DEF Greet, EndsAtHello, DoorInv, AtDoor
<1>10. UNCHANGED <<seq, over, chain, channel, missed, row>>
  BY DEF Greet, machine, Calm
<1> QED BY <1>2, <1>5, <1>6, <1>7, <1>8, <1>9, <1>10

LEMMA DoorGreet == ASSUME Types, EndInv, DoorInv, NEW t \in Sockets, Greet(t) PROVE DoorInv'
<1>0. UNCHANGED <<seq, over, chain, row>>
  BY Greeted
<1>1. ASSUME NEW s \in Sockets, s # t PROVE AtDoor(s)'
  <2>1. /\ stage'[s] = stage[s] /\ held'[s] = held[s] /\ hello'[s] = hello[s]
        /\ code'[s] = code[s] /\ wrote'[s] = wrote[s] /\ (s \in subs' <=> s \in subs)
    BY <1>1, Greeted
  <2> QED BY <1>0, <2>1 DEF DoorInv, AtDoor
<1>2. AtDoor(t)'
  <2>1. /\ stage[t] = "read" /\ stage'[t] = "greeted" /\ (code'[t] = "open" => t \in subs')
        /\ hello'[t] = row[t] \/ hello'[t] = hello[t]
    BY Greeted
  <2> QED BY <1>0, <2>1 DEF DoorInv, AtDoor
<1>3. ASSUME NEW s \in Streams PROVE \A i \in 1 .. Len(wrote'[s]) : wrote'[s][i] > hello'[s].n
  <2>0. s \in Sockets
    BY DEF Sockets
  <2>1. CASE s # t \/ code[s] # "open"
    <3>1. wrote'[s] = wrote[s] /\ hello'[s] = hello[s]
      BY <2>0, <2>1, Greeted
    <3> QED BY <3>1 DEF DoorInv, NoneCovered
  <2>2. CASE s = t /\ code[s] = "open"
    <3>1. wrote'[s] = Behind(s) /\ hello'[s] = row[s]
      BY <2>2, Greeted
    <3> DEFINE I == {i \in 1 .. Len(held[s]) : ~Covered(s, held[s][i], row[s].n)}
    <3>2. \A i \in 1 .. Len(Behind(s)) : \E j \in I : Behind(s)[i] = held[s][j]
      <4>1. held[s] \in Seq(1 .. MaxFacts)
        BY <2>0 DEF Types, TypeOK
      <4>2. I \in SUBSET (1 .. Len(held[s])) /\ Behind(s) = Left(held[s], I)
        BY DEF Behind
      <4> HIDE DEF I
      <4> QED BY <4>1, <4>2, LeftIsSeq
    <3>3. \A j \in I : held[s][j] > row[s].n
      <4>1. held[s] \in Seq(1 .. MaxFacts) /\ row[s].n \in Int
        BY <2>0 DEF Types, TypeOK, Hellos
      <4>2. \A j \in 1 .. Len(held[s]) : held[s][j] \in 1 .. MaxFacts
        BY <4>1, SeqIsTab
      <4> QED BY <4>1, <4>2 DEF Covered
    <3> QED BY <3>1, <3>2, <3>3
  <2> QED BY <2>1, <2>2
<1> QED BY <1>1, <1>2, <1>3 DEF DoorInv, NoneCovered

LEMMA DoorBreak == ASSUME Types, EndInv, DoorInv, NEW t \in Sockets, Break(t) PROVE DoorInv'
<1>0. UNCHANGED <<seq, over, chain, stage, row, held, hello, wrote>> /\ subs' \subseteq subs
  BY DEF Break, machine
<1>1. ASSUME NEW s \in Sockets PROVE AtDoor(s)'
  <2>1. (code'[s] = "open" => code[s] = "open" /\ s # t) /\ (s # t /\ s \in subs => s \in subs')
    BY DEF Break, Gone
  <2> QED BY <1>0, <2>1 DEF DoorInv, AtDoor
<1> QED BY <1>0, <1>1 DEF DoorInv, NoneCovered

LEMMA DoorStop == ASSUME Types, EndInv, DoorInv, Stop PROVE DoorInv'
<1>0. UNCHANGED <<seq, over, row, hello, wrote>> /\ subs' = {}
  BY DEF Stop
<1>1. ASSUME NEW s \in Sockets PROVE AtDoor(s)'
  <2>1. /\ code'[s] # "open" /\ held'[s] = <<>>
        /\ stage'[s] = (IF stage[s] = "none" THEN "none" ELSE "greeted")
    BY DEF Stop, Gone
  <2> QED BY <1>0, <2>1 DEF DoorInv, AtDoor
<1> QED BY <1>0, <1>1 DEF DoorInv, NoneCovered

LEMMA DoorStep == Types /\ EndInv /\ DoorInv /\ [Next]_vars => DoorInv'
<1> SUFFICES ASSUME Types, EndInv, DoorInv, [Next]_vars PROVE DoorInv'
  OBVIOUS
<1>0. Types'
  BY TypesStep
<1>1. CASE UNCHANGED vars
  BY <1>1, <1>0, DoorElsewhere, Numbers DEF vars, doors
<1>2. CASE (\E ends \in BOOLEAN : Say(ends)) \/ EmitTo \/ Machine \/ Throw \/ Client \/ Pages
  <2>1. UNCHANGED <<doors, subs>>
    BY <1>2 DEF Say, EmitTo, Machine, Publish, CloseMatch, SayQueued, Throw, Client, Pages,
                Read, ReadClose, Ask, PageList, hub
  <2>2. seq <= seq' /\ (over' = over \/ (over = 0 /\ over' = seq + 1))
    BY <1>2, Numbers DEF Say, EmitTo, Machine, Publish, CloseMatch, SayQueued, Throw, Client, Pages,
                Read, ReadClose, Ask, PageList, machine
  <2> QED BY <2>1, <2>2, <1>0, DoorElsewhere
<1>3. CASE Next
  BY <1>2, <1>3, DoorDeliver, DoorDeliverClose, DoorSubscribe, DoorReadRow, DoorGreet, DoorBreak,
     DoorStop, Zenon DEF Next, Hub, Door
<1> QED BY <1>1, <1>3
-----------------------------------------------------------------------------
(* What is on its way, and what was heard of it.                            *)

LEMMA ChannelTyped ==
    ASSUME Types
    PROVE  /\ channel \in Seq(Close .. MaxFacts) /\ Len(channel) \in Nat
           /\ seq \in Close .. MaxFacts /\ Close \in Close .. MaxFacts /\ Close = 0
           /\ Sent \in Int
BY Numbers DEF Types, TypeOK, Close, Sent

LEMMA SocketTyped ==
    ASSUME Types, NEW s \in Sockets
    PROVE  /\ hello[s].n \in Int /\ row[s].n \in Nat
           /\ wrote[s] \in Seq(1 .. MaxFacts) /\ held[s] \in Seq(1 .. MaxFacts)
<1>1. row[s] \in Hellos /\ (hello[s] \in Hellos \/ hello[s] = NoHello)
  BY DEF Types, TypeOK
<1>2. wrote[s] \in Seq(1 .. MaxFacts) /\ held[s] \in Seq(1 .. MaxFacts)
  BY DEF Types, TypeOK
<1> QED BY <1>1, <1>2 DEF Hellos, NoHello

\* Nothing new came back, and no subscriber was greeted.
LEMMA CaughtKept ==
    ASSUME NEW b \in Nat, NEW s \in Sockets, Caught(b, s),
           stage'[s] = stage[s], held'[s] = held[s], row'[s] = row[s], hello'[s] = hello[s],
           wrote'[s] = wrote[s], code'[s] = "open" => code[s] = "open"
    PROVE  Caught(b, s)'
BY DEF Caught, UpTo

LEMMA FlightSay ==
    ASSUME Types, EndInv, NEW b \in 0 .. seq, NEW c \in 0 .. Len(channel), InFlight(b, c),
           \/ \E ends \in BOOLEAN : Say(ends)
           \/ EmitTo \/ SayQueued
    PROVE  b \in 0 .. seq' /\ c \in 0 .. Len(channel') /\ InFlight(b, c)'
<1>1. channel' = channel /\ Sent' = Sent /\ seq <= seq' /\ seq' \in Nat
  BY Numbers DEF Say, EmitTo, SayQueued, hub, Sent
<1>2. c > 0 => chain' \notin {"last", "close"} /\ over' = over
  BY DEF Say, EmitTo, SayQueued, InFlight
<1>3. InFlight(b, c)'
  BY <1>1, <1>2 DEF InFlight
<1> QED BY <1>1, <1>3, Numbers

LEMMA FlightPublish ==
    ASSUME Types, EndInv, NEW b \in 0 .. seq, NEW c \in 0 .. Len(channel), InFlight(b, c),
           Publish, ~missed'
    PROVE  c \in 0 .. Len(channel') /\ InFlight(b, c)'
<1>1. channel' = Append(channel, seq) /\ UNCHANGED <<seq, over>>
  <2>1. channel' = channel \o <<seq>> /\ UNCHANGED <<seq, over>>
    BY DEF Publish, Published
  <2> QED BY <2>1, ChannelTyped
<1>2. /\ Len(channel') = Len(channel) + 1 /\ channel'[Len(channel) + 1] = seq
      /\ \A i \in 1 .. Len(channel) : channel'[i] = channel[i]
  BY <1>1, ChannelTyped, Appended
<1>3. Sent = seq - 1 /\ Sent' = seq
  BY <1>1 DEF Publish, Sent
<1>4. c > 0 => chain' = "idle" /\ over' # 0 /\ over' <= b + c - 1
  BY <1>1 DEF InFlight, Publish
<1>5. b + Len(channel) - (IF c > 0 THEN 1 ELSE 0) = seq - 1
  BY <1>3 DEF InFlight
<1>6. b + Len(channel') - (IF c > 0 THEN 1 ELSE 0) = Sent'
  BY <1>5, <1>2, <1>3, Numbers, ChannelTyped
<1>7. \A i \in 1 .. Len(channel') :
          channel'[i] = IF i = c THEN Close ELSE IF c > 0 /\ i > c THEN b + i - 1 ELSE b + i
  <2> TAKE i \in 1 .. Len(channel')
  <2>1. CASE i \in 1 .. Len(channel)
    BY <2>1, <1>2 DEF InFlight
  <2>2. CASE i = Len(channel) + 1
    <3>1. c \in Nat /\ c <= Len(channel) /\ Len(channel) \in Nat /\ b \in Nat
      BY ChannelTyped
    <3>2. channel'[i] = b + Len(channel) + 1 - (IF c > 0 THEN 1 ELSE 0)
      BY <2>2, <1>2, <1>5, <3>1, Numbers
    <3> QED BY <2>2, <3>1, <3>2
  <2> QED BY <2>1, <2>2, <1>2, ChannelTyped
<1> QED BY <1>2, <1>4, <1>6, <1>7, ChannelTyped DEF InFlight

LEMMA FlightCloseMatch ==
    ASSUME Types, EndInv, NEW b \in 0 .. seq, NEW c \in 0 .. Len(channel), InFlight(b, c),
           CloseMatch, ~missed'
    PROVE  \E d \in 0 .. Len(channel') : InFlight(b, d)'
<1>1. channel' = Append(channel, Close) /\ UNCHANGED <<seq, over>> /\ chain' = "idle" /\ chain = "close"
  BY DEF CloseMatch
<1>2. /\ Len(channel') = Len(channel) + 1 /\ channel'[Len(channel) + 1] = Close
      /\ \A i \in 1 .. Len(channel) : channel'[i] = channel[i]
  BY <1>1, ChannelTyped, Appended
<1>3. Sent = seq /\ Sent' = seq
  BY <1>1 DEF Sent
<1>4. c = 0
  BY <1>1 DEF InFlight
<1>5. b + Len(channel) = seq /\ \A i \in 1 .. Len(channel) : channel[i] = b + i
  BY <1>3, <1>4, ChannelTyped DEF InFlight
<1>6. over # 0 /\ over <= seq
  BY <1>1 DEF EndInv, MachineInv
<1>0. PICK d \in Nat : d = Len(channel) + 1
  BY ChannelTyped
<1>7. d \in 0 .. Len(channel') /\ d > 0
  BY <1>0, <1>2, ChannelTyped
<1>8. b + Len(channel') - 1 = Sent' /\ over' # 0 /\ over' <= b + d - 1
  BY <1>0, <1>1, <1>2, <1>3, <1>5, <1>6, Numbers, ChannelTyped
<1>9. \A i \in 1 .. Len(channel') :
          channel'[i] = IF i = d THEN Close ELSE IF d > 0 /\ i > d THEN b + i - 1 ELSE b + i
  <2> TAKE i \in 1 .. Len(channel')
  <2>1. i \in 1 .. Len(channel) \/ i = d
    BY <1>0, <1>2, ChannelTyped
  <2>2. CASE i \in 1 .. Len(channel)
    <3>1. i # d /\ ~(i > d)
      BY <2>2, <1>0, ChannelTyped
    <3> QED BY <3>1, <2>2, <1>2, <1>5
  <2> QED BY <2>1, <2>2, <1>0, <1>2
<1>10. InFlight(b, d)'
  BY <1>1, <1>7, <1>8, <1>9 DEF InFlight
<1> QED BY <1>7, <1>10

LEMMA FlightDeliver ==
    ASSUME Types, EndInv, NEW b \in 0 .. seq, NEW c \in 0 .. Len(channel), InFlight(b, c),
           channel # <<>>, channel[1] # Close, channel' = Tail(channel), UNCHANGED <<seq, over, chain>>
    PROVE  /\ channel[1] = b + 1 /\ b + 1 \in 0 .. seq'
           /\ \E d \in 0 .. Len(channel') : InFlight(b + 1, d)'
<1>1. /\ Len(channel) > 0 /\ Len(channel') = Len(channel) - 1
      /\ \A i \in 1 .. Len(channel) - 1 : channel'[i] = channel[i + 1]
  BY ChannelTyped, Rest
<1>2. c # 1 /\ channel[1] = b + 1
  BY <1>1, ChannelTyped DEF InFlight
<1>3. Sent' = Sent /\ Sent \in Int /\ Sent <= seq
  BY ChannelTyped, Numbers DEF Sent
<1>4. b + Len(channel) - (IF c > 0 THEN 1 ELSE 0) = Sent
  BY DEF InFlight
<1>5. b + 1 \in 0 .. seq'
  <2>1. c > 0 => Len(channel) >= 2
    BY <1>2, ChannelTyped
  <2> QED BY <2>1, <1>1, <1>3, <1>4, ChannelTyped, Numbers
<1> DEFINE d == IF c > 0 THEN c - 1 ELSE 0
<1>6. d \in 0 .. Len(channel') /\ (d > 0 <=> c > 0)
  BY <1>1, <1>2, ChannelTyped
<1>7. (b + 1) + Len(channel') - (IF d > 0 THEN 1 ELSE 0) = Sent'
  <2> HIDE DEF d
  <2> QED BY <1>1, <1>3, <1>4, <1>6, ChannelTyped
<1>8. \A i \in 1 .. Len(channel') :
          channel'[i] = IF i = d THEN Close ELSE IF d > 0 /\ i > d THEN (b + 1) + i - 1 ELSE (b + 1) + i
  <2> TAKE i \in 1 .. Len(channel')
  <2>1. channel'[i] = channel[i + 1] /\ i + 1 \in 1 .. Len(channel)
    BY <1>1, ChannelTyped
  <2>2. channel[i + 1] = IF i + 1 = c THEN Close ELSE IF c > 0 /\ i + 1 > c THEN b + (i + 1) - 1 ELSE b + (i + 1)
    BY <2>1 DEF InFlight
  <2> QED BY <2>1, <2>2, <1>2, ChannelTyped
<1>9. d > 0 => chain' \notin {"last", "close"} /\ over' # 0 /\ over' <= (b + 1) + d - 1
  BY <1>6, Numbers, ChannelTyped DEF InFlight
<1> HIDE DEF d
<1>10. InFlight(b + 1, d)'
  BY <1>7, <1>8, <1>9 DEF InFlight
<1> QED BY <1>2, <1>5, <1>6, <1>10

LEMMA FlightClose ==
    ASSUME Types, EndInv, NEW b \in 0 .. seq, NEW c \in 0 .. Len(channel), InFlight(b, c), DeliverClose
    PROVE  over # 0 /\ over <= b /\ 0 \in 0 .. Len(channel') /\ InFlight(b, 0)'
<1>0. channel # <<>> /\ Head(channel) = Close /\ channel' = Tail(channel) /\ UNCHANGED <<seq, over, chain>>
  BY DEF DeliverClose, machine
<1>1. /\ Len(channel) > 0 /\ Len(channel') = Len(channel) - 1 /\ channel[1] = Close
      /\ \A i \in 1 .. Len(channel) - 1 : channel'[i] = channel[i + 1]
  BY <1>0, ChannelTyped, Rest
<1>2. c = 1
  <2>1. channel[1] = IF 1 = c THEN Close ELSE IF c > 0 /\ 1 > c THEN b + 1 - 1 ELSE b + 1
    BY <1>1, ChannelTyped DEF InFlight
  <2> QED BY <2>1, <1>1, ChannelTyped
<1>3. Sent' = Sent
  BY <1>0 DEF Sent
<1>4. b + Len(channel) - 1 = Sent /\ over # 0 /\ over <= b
  BY <1>2, Numbers, ChannelTyped DEF InFlight
<1>5. b + Len(channel') = Sent'
  BY <1>1, <1>3, <1>4, ChannelTyped
<1>6. \A i \in 1 .. Len(channel') : channel'[i] = b + i
  <2> TAKE i \in 1 .. Len(channel')
  <2>1. channel'[i] = channel[i + 1] /\ i + 1 \in 1 .. Len(channel) /\ i + 1 > 1
    BY <1>1, ChannelTyped
  <2>2. channel[i + 1] = b + (i + 1) - 1
    BY <2>1, <1>2 DEF InFlight
  <2> QED BY <2>1, <2>2
<1>7. Len(channel') \in Nat
  BY <1>1, ChannelTyped
<1>8. InFlight(b, 0)'
  BY <1>5, <1>6, <1>7 DEF InFlight
<1> QED BY <1>4, <1>7, <1>8
\* A hello, and what waited: whatever the hello covers is gone from behind it.
LEMMA BehindIs ==
    ASSUME Types, NEW s \in Sockets, stage[s] = "read", NEW b \in Nat, Caught(b, s)
    PROVE  UpTo(b, Behind(s)) /\ b - Len(Behind(s)) <= row[s].n
<1> DEFINE q == held[s]
           L == Len(q)
           r == row[s].n
<1>1. q \in Seq(1 .. MaxFacts) /\ r \in Nat
  BY DEF Types, TypeOK, Hellos
<1>2. L \in Nat
  BY <1>1
<1>3. (\A i \in 1 .. L : q[i] = b - L + i) /\ b - L <= r
  BY DEF Caught, UpTo
<1> HIDE DEF q, r, L
<1>4. PICK m \in 1 .. L + 1 : m = IF r <= b THEN r - b + L + 1 ELSE L + 1
  <2>1. CASE r <= b
    <3>1. r - b + L + 1 \in 1 .. L + 1
      BY <1>1, <1>2, <1>3, <2>1
    <3> QED BY <3>1, <2>1
  <2>2. CASE ~(r <= b)
    <3>1. L + 1 \in 1 .. L + 1
      BY <1>2
    <3> QED BY <3>1, <2>2
  <2> QED BY <2>1, <2>2
<1>5. Behind(s) = Left(q, m .. L)
  <2>1. Behind(s) = Left(q, {i \in 1 .. L : ~(q[i] <= r)})
    BY DEF Behind, Covered, q, r, L
  <2>2. \A i \in 1 .. L : ~(q[i] <= r) <=> i >= m
    BY <1>1, <1>2, <1>3, <1>4
  <2>3. {i \in 1 .. L : ~(q[i] <= r)} = {i \in 1 .. L : i >= m}
    BY <2>2, Zenon
  <2>4. {i \in 1 .. L : i >= m} = m .. L
    BY <1>2
  <2> QED BY <2>1, <2>3, <2>4
<1>6. /\ Len(Behind(s)) = L - m + 1
      /\ \A i \in 1 .. L - m + 1 : Behind(s)[i] = q[m + i - 1]
  BY <1>1, <1>5, LeftOfTail DEF L
<1>7. \A i \in 1 .. L - m + 1 : Behind(s)[i] = b - (L - m + 1) + i
  <2> TAKE i \in 1 .. L - m + 1
  <2>1. m + i - 1 \in 1 .. L
    BY <1>2
  <2>2. q[m + i - 1] = b - L + (m + i - 1)
    BY <2>1, <1>3
  <2> QED BY <2>2, <1>6, <1>2
<1>8. b - (L - m + 1) <= r
  BY <1>1, <1>2, <1>3, <1>4
<1>9. UpTo(b, Behind(s))
  BY <1>6, <1>7 DEF UpTo
<1> QED BY <1>6, <1>8, <1>9 DEF r

\* What was written without a gap from behind the hello on.
Seamless(s) ==
    /\ \A i \in 1 .. Len(wrote[s]) - 1 : wrote[s][i + 1] = wrote[s][i] + 1
    /\ wrote[s] # <<>> => wrote[s][1] <= hello[s].n + 1

LEMMA Consecutive ==
    ASSUME NEW b \in Nat, NEW w \in Seq(1 .. MaxFacts), NEW h \in Int, UpTo(b, w), b - Len(w) <= h
    PROVE  /\ \A i \in 1 .. Len(w) - 1 : w[i + 1] = w[i] + 1
           /\ w # <<>> => w[1] <= h + 1
<1>1. Len(w) \in Nat /\ (w # <<>> => Len(w) > 0)
  OBVIOUS
<1>2. \A i \in 1 .. Len(w) : w[i] = b - Len(w) + i
  BY DEF UpTo
<1>3. ASSUME NEW i \in 1 .. Len(w) - 1 PROVE w[i + 1] = w[i] + 1
  <2>1. i \in 1 .. Len(w) /\ i + 1 \in 1 .. Len(w)
    BY <1>1
  <2> QED BY <2>1, <1>1, <1>2
<1>4. ASSUME w # <<>> PROVE w[1] <= h + 1
  <2>1. 1 \in 1 .. Len(w)
    BY <1>1, <1>4
  <2> QED BY <2>1, <1>1, <1>2
<1> QED BY <1>3, <1>4

LEMMA UpToNext ==
    ASSUME NEW b \in Nat, b + 1 \in 1 .. MaxFacts, NEW q \in Seq(1 .. MaxFacts), UpTo(b, q)
    PROVE  /\ UpTo(b + 1, Append(q, b + 1)) /\ q \o <<b + 1>> = Append(q, b + 1)
           /\ (b + 1) - Len(Append(q, b + 1)) = b - Len(q)
<1>1. /\ Len(q) \in Nat /\ Len(Append(q, b + 1)) = Len(q) + 1
      /\ \A i \in 1 .. Len(q) : Append(q, b + 1)[i] = q[i]
      /\ Append(q, b + 1)[Len(q) + 1] = b + 1
  BY Appended, SeqIsTab
<1>2. \A i \in 1 .. Len(q) : q[i] = b - Len(q) + i
  BY DEF UpTo
<1>3. ASSUME NEW i \in 1 .. Len(q) + 1
      PROVE  Append(q, b + 1)[i] = (b + 1) - (Len(q) + 1) + i
  <2>1. CASE i \in 1 .. Len(q)
    BY <2>1, <1>1, <1>2
  <2>2. CASE i = Len(q) + 1
    BY <2>2, <1>1
  <2> QED BY <2>1, <2>2, <1>1
<1>4. UpTo(b + 1, Append(q, b + 1))
  BY <1>1, <1>3 DEF UpTo
<1>5. q \o <<b + 1>> = Append(q, b + 1)
  OBVIOUS
<1>6. (b + 1) - Len(Append(q, b + 1)) = b - Len(q)
  BY <1>1
<1> QED BY <1>4, <1>5, <1>6

LEMMA CaughtDeliver ==
    ASSUME Types, Types', DoorInv, NEW b \in Nat, NEW n \in 1 .. MaxFacts, n = b + 1,
           NEW slow \in SUBSET subs,
           held' = [s \in Sockets |-> IF s \in subs /\ stage[s] # "greeted"
                                      THEN Append(held[s], n) ELSE held[s]],
           Writes(Silent, Fresh(n, slow)), Fresh(n, slow) \in [Sockets -> Seq(1 .. MaxFacts)],
           UNCHANGED <<stage, row, hello>>, NEW s \in subs \ slow, code'[s] = code[s], Caught(b, s)
    PROVE  Caught(b + 1, s)'
<1>0. s \in Sockets /\ stage'[s] = stage[s] /\ row'[s] = row[s] /\ hello'[s] = hello[s]
  BY DEF Types, TypeOK
<1>1. CASE stage[s] # "greeted"
  <2>1. held'[s] = Append(held[s], b + 1) /\ held[s] \in Seq(1 .. MaxFacts) /\ UpTo(b, held[s])
    BY <1>0, <1>1 DEF Types, TypeOK, Caught
  <2>2. UpTo(b + 1, held'[s]) /\ (b + 1) - Len(held'[s]) = b - Len(held[s])
    BY <2>1, UpToNext
  <2> QED BY <1>0, <1>1, <2>2 DEF Caught
<1>2. CASE stage[s] = "greeted" /\ code[s] = "open"
  <2>0. /\ wrote[s] \in Seq(1 .. MaxFacts) /\ Len(wrote[s]) \in Nat /\ code[s] = "open"
        /\ hello[s].n \in Int
    <3>1. wrote[s] \in Seq(1 .. MaxFacts) /\ code[s] = "open"
      BY <1>0, <1>2 DEF Types, TypeOK
    <3>2. hello[s].n \in Int
      BY <1>0, SocketTyped
    <3> QED BY <3>1, <3>2, SeqIsTab
  <2>1. /\ \A i \in 1 .. Len(wrote[s]) : wrote[s][i] = b - Len(wrote[s]) + i
        /\ b - Len(wrote[s]) <= hello[s].n
    BY <1>2 DEF Caught, UpTo
  <2>2. CASE Covered(s, n, hello[s].n)
    <3>1. n <= hello[s].n /\ s \in Streams
      BY <2>2, <1>2 DEF Covered
    <3>2. Fresh(n, slow)[s] = <<>>
      BY <2>2, <1>0 DEF Fresh
    <3>3. wrote'[s] = wrote[s]
      BY <3>2, <1>0, DoorWrites
    <3>4. Len(wrote[s]) = 0
      <4> SUFFICES ASSUME Len(wrote[s]) # 0 PROVE FALSE
        OBVIOUS
      <4>1. Len(wrote[s]) \in 1 .. Len(wrote[s])
        BY <2>0
      <4>2. wrote[s][Len(wrote[s])] = b /\ wrote[s][Len(wrote[s])] > hello[s].n
        <5>1. wrote[s][Len(wrote[s])] = b
          <6>1. wrote[s][Len(wrote[s])] = b - Len(wrote[s]) + Len(wrote[s])
            BY <4>1, <2>1
          <6>2. \A L \in Nat : b - L + L = b
            OBVIOUS
          <6> QED BY <6>1, <6>2, <2>0
        <5>2. wrote[s][Len(wrote[s])] > hello[s].n
          BY <4>1, <3>1 DEF DoorInv, NoneCovered
        <5> QED BY <5>1, <5>2
      <4> QED BY <4>2, <3>1, <2>0
    <3>5. UpTo(b + 1, wrote'[s]) /\ (b + 1) - Len(wrote'[s]) <= hello[s].n
      BY <3>1, <3>3, <3>4, <2>0 DEF UpTo
    <3> QED BY <1>0, <1>2, <3>5 DEF Caught
  <2>3. CASE ~Covered(s, n, hello[s].n)
    <3>1. Fresh(n, slow)[s] = <<n>>
      BY <2>3, <1>0, <1>2 DEF Fresh
    <3>2. wrote'[s] = wrote[s] \o <<b + 1>>
      BY <3>1, <1>0, <2>0, DoorWrites
    <3>3. UpTo(b, wrote[s]) /\ b - Len(wrote[s]) <= hello[s].n
      BY <1>2 DEF Caught
    <3>4. UpTo(b + 1, wrote'[s]) /\ (b + 1) - Len(wrote'[s]) <= hello[s].n
      <4>1. /\ UpTo(b + 1, Append(wrote[s], b + 1)) /\ wrote'[s] = Append(wrote[s], b + 1)
            /\ (b + 1) - Len(Append(wrote[s], b + 1)) = b - Len(wrote[s])
        BY <3>2, <3>3, <2>0, UpToNext
      <4> QED BY <4>1, <3>3
    <3> QED BY <1>0, <1>2, <3>4 DEF Caught
  <2> QED BY <2>2, <2>3
<1>3. CASE stage[s] = "greeted" /\ code[s] # "open"
  BY <1>0, <1>3 DEF Caught
<1> QED BY <1>1, <1>2, <1>3
-----------------------------------------------------------------------------
(* What a socket heard.                                                     *)

Heard == NoGap /\ EndIsToldFirst

Dues(s) == Seamless(s) /\ (code[s] = "ended" /\ hello[s] # NoHello => Told(s))

LEMMA HeardIs == Heard <=> (missed \/ \A s \in Sockets : Dues(s))
BY Zenon DEF Heard, NoGap, EndIsToldFirst, Dues, Seamless

\* Nothing new was written to it, nor was it ended.
LEMMA DuesKept ==
    ASSUME Types, DoorInv, NEW s \in Sockets, Dues(s), hello'[s] = hello[s], wrote'[s] = wrote[s],
           code'[s] = "ended" => code[s] = "ended", over # 0 => over' = over
    PROVE  Dues(s)'
<1>1. Seamless(s)'
  BY DEF Dues, Seamless
<1>2. ASSUME code'[s] = "ended", hello'[s] # NoHello PROVE Told(s)'
  <2>1. hello[s].over \/ \E i \in 1 .. Len(wrote[s]) : wrote[s][i] = over
    BY <1>2 DEF Dues, Told
  <2>2. over # 0
    <3>1. CASE hello[s].over
      BY <3>1 DEF DoorInv, AtDoor
    <3>2. CASE \E i \in 1 .. Len(wrote[s]) : wrote[s][i] = over
      <4>1. \A i \in 1 .. Len(wrote[s]) : wrote[s][i] \in 1 .. MaxFacts
        BY SocketTyped, SeqIsTab
      <4> QED BY <3>2, <4>1
    <3> QED BY <2>1, <3>1, <3>2
  <2> QED BY <2>1, <2>2 DEF Told
<1> QED BY <1>1, <1>2 DEF Dues

LEMMA HeardElsewhere ==
    ASSUME Types, DoorInv, Heard, UNCHANGED <<hello, wrote>>, missed => missed', over # 0 => over' = over,
           \A s \in Sockets : code'[s] = "ended" => code[s] = "ended"
    PROVE  Heard'
<1>1. ASSUME ~missed', NEW s \in Sockets PROVE Dues(s)'
  BY <1>1, HeardIs, DuesKept
<1>2. missed' \/ \A s \in Sockets : Dues(s)'
  BY <1>1
<1> QED BY <1>2, Zenon DEF Heard, NoGap, EndIsToldFirst, Dues, Seamless, Told

\* A subscriber that is greeted and caught up behind the end has heard of it.
LEMMA ToldByNow ==
    ASSUME Types, DoorInv, NEW s \in Sockets, NEW b \in Nat, Caught(b, s), stage[s] = "greeted",
           code[s] = "open", over # 0, over <= b
    PROVE  Told(s)
<1>1. over \in Nat /\ hello[s].n \in Int /\ wrote[s] \in Seq(1 .. MaxFacts) /\ Len(wrote[s]) \in Nat
  BY Numbers, SocketTyped, SeqIsTab
<1>2. (\A i \in 1 .. Len(wrote[s]) : wrote[s][i] = b - Len(wrote[s]) + i) /\ b - Len(wrote[s]) <= hello[s].n
  BY DEF Caught, UpTo
<1>3. CASE hello[s].n >= over
  BY <1>3 DEF DoorInv, AtDoor, Told
<1>4. CASE hello[s].n < over
  <2> DEFINE L == Len(wrote[s])
             h == hello[s].n
             i == over - (b - L)
  <2>1. L \in Nat /\ h \in Int /\ b - L <= h /\ h < over /\ over <= b /\ over \in Nat
    BY <1>1, <1>2, <1>4
  <2> HIDE DEF L, h
  <2>2. i \in 1 .. L /\ b - L + i = over
    BY <2>1
  <2>3. wrote[s][i] = over
    BY <2>2, <1>2 DEF L
  <2>4. \E k \in 1 .. Len(wrote[s]) : wrote[s][k] = over
    BY <2>2, <2>3 DEF L
  <2> QED BY <2>4 DEF Told
<1> QED BY <1>1, <1>3, <1>4

LEMMA FlowElsewhere ==
    ASSUME Types, EndInv, DoorInv, FlowInv,
           missed => missed', UNCHANGED <<seq, over, chain, channel>>, subs' \subseteq subs,
           UNCHANGED <<stage, held, row, hello, wrote>>,
           \A s \in Sockets : code'[s] = "open" => code[s] = "open"
    PROVE  FlowInv'
<1> SUFFICES ASSUME ~missed'
             PROVE  \E b \in 0 .. seq' : /\ \E c \in 0 .. Len(channel') : InFlight(b, c)'
                                         /\ \A s \in subs' : Caught(b, s)'
  BY DEF FlowInv
<1>1. PICK b \in 0 .. seq : /\ \E c \in 0 .. Len(channel) : InFlight(b, c)
                            /\ \A s \in subs : Caught(b, s)
  BY DEF FlowInv
<1>2. \E c \in 0 .. Len(channel') : InFlight(b, c)'
  BY <1>1 DEF InFlight, Sent
<1>3. \A s \in subs' : Caught(b, s)'
  <2>1. subs \subseteq Sockets
    BY DEF Types, TypeOK
  <2> QED BY <1>1, <2>1 DEF Caught, UpTo
<1> QED BY <1>1, <1>2, <1>3

\* The steps of the match.
LEMMA FlowChain ==
    ASSUME Types, EndInv, DoorInv, FlowInv,
           \/ \E ends \in BOOLEAN : Say(ends)
           \/ EmitTo \/ SayQueued \/ Publish \/ CloseMatch \/ Throw
    PROVE  FlowInv'
<1>1. missed => missed'
  BY DEF Say, EmitTo, SayQueued, Publish, CloseMatch, Throw, Calm, Happens
<1>2. UNCHANGED <<subs, stage, held, row, hello, wrote, code>>
  BY DEF Say, EmitTo, SayQueued, Publish, CloseMatch, Throw, hub, doors
<1> SUFFICES ASSUME ~missed'
             PROVE  \E b \in 0 .. seq' : /\ \E c \in 0 .. Len(channel') : InFlight(b, c)'
                                         /\ \A s \in subs' : Caught(b, s)'
  BY DEF FlowInv
<1>3. PICK b \in 0 .. seq : /\ \E c \in 0 .. Len(channel) : InFlight(b, c)
                            /\ \A s \in subs : Caught(b, s)
  BY <1>1 DEF FlowInv
<1>4. \A s \in subs' : Caught(b, s)'
  BY <1>2, <1>3 DEF Caught, UpTo
<1>5. PICK c \in 0 .. Len(channel) : InFlight(b, c)
  BY <1>3
<1>6. CASE (\E ends \in BOOLEAN : Say(ends)) \/ EmitTo \/ SayQueued
  BY <1>4, <1>5, <1>6, FlightSay
<1>7. CASE Publish
  <2>1. seq' = seq
    BY <1>7 DEF Publish
  <2> QED BY <2>1, <1>4, <1>5, <1>7, FlightPublish
<1>8. CASE CloseMatch
  <2>1. seq' = seq
    BY <1>8 DEF CloseMatch
  <2> QED BY <2>1, <1>4, <1>5, <1>8, FlightCloseMatch
<1>9. CASE Throw
  BY <1>9 DEF Throw
<1> QED BY <1>6, <1>7, <1>8, <1>9
LEMMA HeardDeliver ==
    ASSUME Types, Types', EndInv, DoorInv, FlowInv, Heard, Deliver
    PROVE  FlowInv' /\ Heard'
<1>1. PICK n \in 1 .. MaxFacts, slow \in SUBSET subs :
               /\ channel # <<>> /\ n = channel[1] /\ n # Close /\ channel' = Tail(channel)
               /\ held' = [s \in Sockets |-> IF s \in subs /\ stage[s] # "greeted"
                                              THEN Append(held[s], n) ELSE held[s]]
               /\ Writes(Silent, Fresh(n, slow)) /\ Fresh(n, slow) \in [Sockets -> Seq(1 .. MaxFacts)]
               /\ subs' = subs \ slow
               /\ code' = [s \in Sockets |-> IF s \in slow THEN "slow" ELSE code[s]]
               /\ UNCHANGED <<seq, over, chain, stage, row, hello, missed>>
  BY Delivered
<1>2. CASE missed
  <2>1. missed'
    BY <1>1, <1>2
  <2> QED BY <2>1 DEF FlowInv, Heard, NoGap, EndIsToldFirst
<1>3. CASE ~missed
  <2>1. PICK b \in 0 .. seq : /\ \E c \in 0 .. Len(channel) : InFlight(b, c)
                              /\ \A s \in subs : Caught(b, s)
    BY <1>3 DEF FlowInv
  <2>2. PICK c \in 0 .. Len(channel) : InFlight(b, c)
    BY <2>1
  <2>3. /\ channel[1] = b + 1 /\ b + 1 \in 0 .. seq'
        /\ \E d \in 0 .. Len(channel') : InFlight(b + 1, d)'
    BY <1>1, <2>2, FlightDeliver
  <2>4. n = b + 1 /\ b \in Nat
    BY <1>1, <2>3
  <2>5. \A s \in subs' : Caught(b + 1, s)'
    <3> TAKE s \in subs'
    <3>1. s \in subs \ slow /\ Caught(b, s)
      BY <1>1, <2>1
    <3>2. code'[s] = code[s]
      BY <1>1, <3>1 DEF Types, TypeOK
    <3> QED BY <1>1, <2>4, <3>1, <3>2, CaughtDeliver
  <2>6. FlowInv'
    BY <2>3, <2>5 DEF FlowInv
  <2>7. ASSUME NEW s \in Sockets PROVE Dues(s)'
    <3>1. CASE wrote'[s] = wrote[s]
      <4>1. Dues(s)
        BY <1>3, HeardIs
      <4> QED BY <3>1, <4>1, <1>1, DuesKept
    <3>2. CASE wrote'[s] # wrote[s]
      <4>1. Fresh(n, slow)[s] # <<>>
        BY <3>2, <1>1, DoorWrites
      <4>2. s \in subs \ slow /\ stage[s] = "greeted" /\ code[s] = "open"
        <5>1. code[s] = "open"
          BY <3>2, <1>1, DoorWrites
        <5> QED BY <4>1, <5>1 DEF Fresh
      <4>3. Caught(b + 1, s)' /\ stage'[s] = "greeted" /\ code'[s] = "open"
        BY <4>2, <1>1, <2>5
      <4>4. UpTo(b + 1, wrote'[s]) /\ (b + 1) - Len(wrote'[s]) <= hello'[s].n
        BY <4>3 DEF Caught
      <4>5. wrote'[s] \in Seq(1 .. MaxFacts) /\ hello'[s].n \in Int /\ b + 1 \in Nat
        <5>1. wrote'[s] \in Seq(1 .. MaxFacts)
          BY DEF Types, TypeOK
        <5>2. hello'[s].n \in Int
          BY <1>1, SocketTyped
        <5> QED BY <5>1, <5>2, <2>4
      <4>6. Seamless(s)'
        BY <4>4, <4>5, Consecutive DEF Seamless
      <4>7. code'[s] # "ended"
        BY <4>3
      <4> QED BY <4>6, <4>7 DEF Dues
    <3> QED BY <3>1, <3>2
  <2>8. \A s \in Sockets : Dues(s)'
    BY <2>7
  <2>9. Heard'
    BY <2>8, Zenon DEF Heard, NoGap, EndIsToldFirst, Dues, Seamless, Told
  <2> QED BY <2>6, <2>9
<1> QED BY <1>2, <1>3

LEMMA HeardClose ==
    ASSUME Types, EndInv, DoorInv, FlowInv, Heard, DeliverClose
    PROVE  FlowInv' /\ Heard'
<1>0. /\ UNCHANGED <<seq, over, chain, stage, row, held, hello, wrote, missed>> /\ subs' = {}
      /\ code' = [s \in Sockets |-> IF s \in subs /\ code[s] = "open" THEN "ended" ELSE code[s]]
  BY DEF DeliverClose, machine, Calm
<1>2. CASE missed
  <2>1. missed'
    BY <1>0, <1>2
  <2> QED BY <2>1 DEF FlowInv, Heard, NoGap, EndIsToldFirst
<1>3. CASE ~missed
  <2>1. PICK b \in 0 .. seq : /\ \E c \in 0 .. Len(channel) : InFlight(b, c)
                              /\ \A s \in subs : Caught(b, s)
    BY <1>3 DEF FlowInv
  <2>2. PICK c \in 0 .. Len(channel) : InFlight(b, c)
    BY <2>1
  <2>3. over # 0 /\ over <= b /\ 0 \in 0 .. Len(channel') /\ InFlight(b, 0)'
    BY <2>2, FlightClose
  <2>4. FlowInv'
    <3>1. b \in 0 .. seq' /\ \A s \in subs' : Caught(b, s)'
      BY <1>0
    <3> QED BY <3>1, <2>3 DEF FlowInv
  <2>5. ASSUME NEW s \in Sockets PROVE Dues(s)'
    <3>1. Dues(s)
      BY <1>3, HeardIs
    <3>2. CASE code'[s] = "ended" => code[s] = "ended"
      BY <3>1, <3>2, <1>0, DuesKept
    <3>3. CASE s \in subs /\ code[s] = "open" /\ stage[s] = "greeted"
      <4>1. Told(s)
        BY <3>3, <2>1, <2>3, ToldByNow
      <4> QED BY <3>1, <4>1, <1>0 DEF Dues, Seamless, Told
    <3>4. CASE stage[s] # "greeted"
      <4>1. hello'[s] = NoHello
        BY <3>4, <1>0 DEF DoorInv, AtDoor
      <4> QED BY <3>1, <4>1, <1>0 DEF Dues, Seamless
    <3> QED BY <3>2, <3>3, <3>4, <1>0
  <2>6. \A s \in Sockets : Dues(s)'
    BY <2>5
  <2>7. Heard'
    BY <2>6, Zenon DEF Heard, NoGap, EndIsToldFirst, Dues, Seamless, Told
  <2> QED BY <2>4, <2>7
<1> QED BY <1>2, <1>3

\* A socket that subscribes, and a greeting that reads the match.
LEMMA HeardAtDoor ==
    ASSUME Types, EndInv, DoorInv, FlowInv, Heard, NEW t \in Sockets, Subscribe(t) \/ ReadRow(t)
    PROVE  FlowInv' /\ Heard'
<1>0. /\ UNCHANGED <<seq, over, chain, channel, held, hello, wrote, missed>> /\ subs' \subseteq subs \cup {t}
      /\ \A s \in Sockets \ {t} : stage'[s] = stage[s] /\ row'[s] = row[s] /\ code'[s] = code[s]
      /\ code'[t] \in {code[t], "open", "gone"}
  BY DEF Subscribe, ReadRow, machine, hub, Calm, Types, TypeOK
<1>1. Heard'
  <2>1. \A s \in Sockets : code'[s] = "ended" => code[s] = "ended"
    BY <1>0
  <2> QED BY <1>0, <2>1, HeardElsewhere
<1>2. CASE missed
  BY <1>0, <1>1, <1>2 DEF FlowInv
<1>3. CASE ~missed
  <2>1. PICK b \in 0 .. seq : /\ \E c \in 0 .. Len(channel) : InFlight(b, c)
                              /\ \A s \in subs : Caught(b, s)
    BY <1>3 DEF FlowInv
  <2>2. PICK c \in 0 .. Len(channel) : InFlight(b, c)
    BY <2>1
  <2>3. c \in 0 .. Len(channel') /\ InFlight(b, c)'
    BY <2>2, <1>0 DEF InFlight, Sent
  <2>4. ASSUME NEW s \in subs', s # t PROVE Caught(b, s)'
    <3>1. s \in Sockets \ {t} /\ Caught(b, s) /\ b \in Nat
      BY <2>1, <2>4, <1>0 DEF Types, TypeOK
    <3> QED BY <3>1, <1>0, CaughtKept
  <2>5. ASSUME t \in subs' PROVE Caught(b, t)'
    <3>1. CASE Subscribe(t)
      <4>1. stage[t] = "none" /\ stage'[t] = "reading" /\ held[t] = <<>>
        BY <3>1 DEF Subscribe, Types, TypeOK, DoorInv, AtDoor
      <4>2. held'[t] = <<>> /\ Len(<<>>) = 0
        BY <4>1, <1>0
      <4> QED BY <4>1, <4>2 DEF Caught, UpTo
    <3>2. CASE ReadRow(t)
      <4>1. stage[t] = "reading" /\ stage'[t] = "read" /\ row'[t].n = seq /\ t \in subs
        BY <3>2, <2>5 DEF ReadRow, hub, Types, TypeOK
      <4>2. UpTo(b, held[t])
        BY <4>1, <2>1 DEF Caught
      <4>3. Len(held[t]) \in Nat
        BY SocketTyped, SeqIsTab
      <4>4. b - Len(held[t]) <= seq
        BY <4>3, Numbers
      <4> QED BY <4>1, <4>2, <4>4, <1>0 DEF Caught, UpTo
    <3> QED BY <3>1, <3>2
  <2>6. FlowInv'
    <3>1. b \in 0 .. seq' /\ \A s \in subs' : Caught(b, s)'
      BY <1>0, <2>4, <2>5
    <3> QED BY <3>1, <2>3 DEF FlowInv
  <2> QED BY <2>6, <1>1
<1> QED BY <1>2, <1>3

LEMMA HeardGreet ==
    ASSUME Types, EndInv, DoorInv, FlowInv, Heard, NEW t \in Sockets, Greet(t)
    PROVE  FlowInv' /\ Heard'
<1>0. /\ UNCHANGED <<seq, over, chain, channel, missed, row>> /\ subs' \subseteq subs
      /\ \A s \in Sockets \ {t} : /\ stage'[s] = stage[s] /\ held'[s] = held[s] /\ hello'[s] = hello[s]
                                  /\ code'[s] = code[s] /\ wrote'[s] = wrote[s]
      /\ stage[t] = "read" /\ stage'[t] = "greeted" /\ Behind(t) \in Seq(1 .. MaxFacts)
      /\ IF code[t] = "open" THEN hello'[t] = row[t] /\ wrote'[t] = Behind(t)
                             ELSE hello'[t] = hello[t] /\ wrote'[t] = wrote[t]
      /\ code'[t] = (IF row[t].over /\ code[t] = "open" THEN "ended" ELSE code[t])
  BY Greeted
<1>2. CASE missed
  <2>1. missed'
    BY <1>0, <1>2
  <2> QED BY <2>1 DEF FlowInv, Heard, NoGap, EndIsToldFirst
<1>3. CASE ~missed
  <2>1. PICK b \in 0 .. seq : /\ \E c \in 0 .. Len(channel) : InFlight(b, c)
                              /\ \A s \in subs : Caught(b, s)
    BY <1>3 DEF FlowInv
  <2>2. PICK c \in 0 .. Len(channel) : InFlight(b, c)
    BY <2>1
  <2>3. c \in 0 .. Len(channel') /\ InFlight(b, c)'
    BY <2>2, <1>0 DEF InFlight, Sent
  <2>4. ASSUME code[t] = "open"
        PROVE  UpTo(b, wrote'[t]) /\ b - Len(wrote'[t]) <= hello'[t].n
    <3>1. t \in subs
      BY <2>4 DEF DoorInv, AtDoor
    <3>2. Caught(b, t) /\ b \in Nat
      BY <3>1, <2>1
    <3> QED BY <3>2, <2>4, <1>0, BehindIs
  <2>5. \A s \in subs' : Caught(b, s)'
    <3>1. ASSUME NEW s \in subs', s # t PROVE Caught(b, s)'
      <4>1. s \in Sockets \ {t} /\ Caught(b, s) /\ b \in Nat
        BY <2>1, <3>1, <1>0 DEF Types, TypeOK
      <4>2. row'[s] = row[s]
        BY <1>0
      <4> QED BY <4>1, <4>2, <1>0, CaughtKept
    <3>2. ASSUME t \in subs' PROVE Caught(b, t)'
      <4>1. code'[t] = "open" => code[t] = "open"
        BY <1>0
      <4> QED BY <4>1, <2>4, <1>0 DEF Caught
    <3> QED BY <3>1, <3>2
  <2>6. FlowInv'
    BY <1>0, <2>3, <2>5 DEF FlowInv
  <2>7. ASSUME NEW s \in Sockets PROVE Dues(s)'
    <3>0. Dues(s)
      BY <1>3, HeardIs
    <3>1. CASE s # t \/ code[s] # "open"
      <4>1. hello'[s] = hello[s] /\ wrote'[s] = wrote[s] /\ code'[s] = code[s]
        BY <3>1, <1>0
      <4> QED BY <3>0, <4>1, <1>0, DuesKept
    <3>2. CASE s = t /\ code[t] = "open"
      <4>1. wrote'[t] \in Seq(1 .. MaxFacts) /\ hello'[t].n \in Int
        BY <3>2, <1>0, SocketTyped
      <4>2. Seamless(t)'
        <5>1. UpTo(b, wrote'[t]) /\ b - Len(wrote'[t]) <= hello'[t].n /\ b \in Nat
          BY <2>4, <3>2
        <5> QED BY <4>1, <5>1, Consecutive DEF Seamless
      <4>3. code'[t] = "ended" => Told(t)'
        BY <3>2, <1>0 DEF Told
      <4> QED BY <3>2, <4>2, <4>3 DEF Dues
    <3> QED BY <3>1, <3>2
  <2>8. \A s \in Sockets : Dues(s)'
    BY <2>7
  <2>9. Heard'
    BY <2>8, Zenon DEF Heard, NoGap, EndIsToldFirst, Dues, Seamless, Told
  <2> QED BY <2>6, <2>9
<1> QED BY <1>2, <1>3

LEMMA HeardStop ==
    ASSUME Types, EndInv, DoorInv, FlowInv, Heard, Stop
    PROVE  FlowInv' /\ Heard'
<1>0. /\ UNCHANGED <<seq, over, row, hello, wrote, missed>>
      /\ chain' = "idle" /\ channel' = <<>> /\ subs' = {}
  BY DEF Stop
<1>1. Heard'
  <2>1. \A s \in Sockets : code'[s] = "ended" => code[s] = "ended"
    BY DEF Stop, Gone
  <2> QED BY <1>0, <2>1, HeardElsewhere
<1>2. PICK b \in Nat : b = seq
  BY Numbers
<1>3. Len(channel') = 0 /\ Sent' = b /\ b \in 0 .. seq' /\ 0 \in 0 .. Len(channel')
  BY <1>0, <1>2 DEF Sent
<1>4. InFlight(b, 0)'
  BY <1>2, <1>3 DEF InFlight
<1>5. FlowInv'
  BY <1>0, <1>3, <1>4 DEF FlowInv
<1> QED BY <1>1, <1>5
LEMMA InitStream == Init => StreamInv
<1> SUFFICES ASSUME Init PROVE StreamInv
  OBVIOUS
<1>1. EndInv
  BY DEF Init, EndInv, MachineInv, PageInv, LastPageIsLast, NoPage
<1>2. DoorInv
  <2>1. ASSUME NEW s \in Sockets PROVE AtDoor(s)
    BY DEF Init, AtDoor, NoHello
  <2>2. \A s \in Streams : s \in Sockets /\ wrote[s] = <<>> /\ Len(<<>>) = 0
    BY DEF Init, Sockets
  <2>3. NoneCovered
    BY <2>2 DEF NoneCovered
  <2> QED BY <2>1, <2>3 DEF DoorInv
<1>3. FlowInv
  <2>1. Len(channel) = 0 /\ seq = 0 /\ Sent = 0 /\ subs = {}
    BY DEF Init, Sent
  <2>2. InFlight(0, 0)
    BY <2>1 DEF InFlight
  <2>3. 0 \in 0 .. seq /\ 0 \in 0 .. Len(channel)
    BY <2>1
  <2> QED BY <2>1, <2>2, <2>3 DEF FlowInv
<1>4. NoGap
  <2>1. \A s \in Sockets : wrote[s] = <<>> /\ Len(<<>>) = 0
    BY DEF Init
  <2> QED BY <2>1 DEF NoGap
<1>5. EndIsToldFirst
  BY DEF Init, EndIsToldFirst
<1> QED BY <1>1, <1>2, <1>3, <1>4, <1>5 DEF StreamInv

LEMMA StreamStep == Types /\ StreamInv /\ [Next]_vars => StreamInv'
<1> SUFFICES ASSUME Types, StreamInv, [Next]_vars PROVE StreamInv'
  OBVIOUS
<1>0. EndInv /\ DoorInv /\ FlowInv /\ Heard
  BY DEF StreamInv, Heard
<1>1. Types' /\ EndInv' /\ DoorInv'
  BY <1>0, TypesStep, EndStep, DoorStep
<1>2. CASE UNCHANGED vars
  <2>1. FlowInv'
    BY <1>0, <1>2, FlowElsewhere DEF vars
  <2>2. Heard'
    BY <1>0, <1>2, HeardElsewhere DEF vars
  <2> QED BY <1>1, <2>1, <2>2 DEF StreamInv, Heard
<1>3. CASE (\E ends \in BOOLEAN : Say(ends)) \/ EmitTo \/ Machine \/ Throw
  <2>1. FlowInv'
    BY <1>0, <1>3, FlowChain DEF Machine
  <2>2. UNCHANGED <<hello, wrote, code>> /\ (over # 0 => over' = over) /\ (missed => missed')
    BY <1>3 DEF Say, EmitTo, Machine, SayQueued, Publish, CloseMatch, Throw, doors, Calm, Happens
  <2>3. Heard'
    BY <1>0, <2>2, HeardElsewhere
  <2> QED BY <1>1, <2>1, <2>3 DEF StreamInv, Heard
<1>4. CASE Client \/ Pages \/ \E s \in Sockets : Break(s)
  <2>1. /\ missed' = missed /\ UNCHANGED <<seq, over, chain, channel>> /\ subs' \subseteq subs
        /\ UNCHANGED <<stage, held, row, hello, wrote>>
        /\ \A s \in Sockets : code'[s] = "ended" => code[s] = "ended"
        /\ \A s \in Sockets : code'[s] = "open" => code[s] = "open"
    BY <1>4 DEF Client, Pages, Read, ReadClose, Ask, PageList, Break, Gone, machine, hub, doors, Calm
  <2>2. FlowInv'
    BY <1>0, <2>1, FlowElsewhere
  <2>3. Heard'
    BY <1>0, <2>1, HeardElsewhere
  <2> QED BY <1>1, <2>2, <2>3 DEF StreamInv, Heard
<1>5. CASE Deliver
  BY <1>0, <1>1, <1>5, HeardDeliver DEF StreamInv, Heard
<1>6. CASE DeliverClose
  BY <1>0, <1>1, <1>6, HeardClose DEF StreamInv, Heard
<1>7. CASE \E s \in Sockets : Subscribe(s) \/ ReadRow(s)
  BY <1>0, <1>1, <1>7, HeardAtDoor DEF StreamInv, Heard
<1>8. CASE \E s \in Sockets : Greet(s)
  BY <1>0, <1>1, <1>8, HeardGreet DEF StreamInv, Heard
<1>9. CASE Stop
  BY <1>0, <1>1, <1>9, HeardStop DEF StreamInv, Heard
<1> QED BY <1>2, <1>3, <1>4, <1>5, <1>6, <1>7, <1>8, <1>9, Zenon DEF Next, Hub, Door

\* Every variable keeps its type, and what the match has said, the fan-out carries and the doors
\* hold back agree, whatever is lost, slow, broken or stopped.
THEOREM StreamInvariant == Spec => [](Types /\ StreamInv)
BY InitTypes, InitStream, TypesStep, StreamStep, PTL DEF Spec

\* What follows a hello is what it does not cover, in order and, if no message was lost, without a
\* gap: subscribing before the read, and holding what comes meanwhile, leaves nothing out.
THEOREM HelloIsFollowed == Spec => []Unbroken
<1>1. Types /\ StreamInv => Unbroken
  BY DEF StreamInv, DoorInv, Unbroken
<1> QED BY <1>1, StreamInvariant, PTL

\* A socket closed as of an ended match was told of the end first.
THEOREM EndIsTold == Spec => []EndIsToldFirst
<1>1. Types /\ StreamInv => EndIsToldFirst
  BY DEF StreamInv
<1> QED BY <1>1, StreamInvariant, PTL

\* A client that was given no further cursor has every fact up to the end, whatever its sockets
\* missed.
THEOREM PagesReachTheEnd == Spec => []LastPageIsLast
<1>1. Types /\ StreamInv => LastPageIsLast
  BY DEF StreamInv, EndInv
<1> QED BY <1>1, StreamInvariant, PTL
=============================================================================
