--------------------------- MODULE EventFileProofs ---------------------------
(***************************************************************************)
(* Proofs about EventFile: the bound on its files, the steps of a buffer   *)
(* whose writes are whole, and the price of a cut write, for any threshold *)
(* and any number of events, deaths and tears.                             *)
(*                                                                         *)
(* That a tear costs two events at most is not inductive: what is lost was *)
(* at risk before, and some of it was lost to a number, not to a death: a  *)
(* process that reads a smaller count back says seqs anew that are counted *)
(* as taken.  CostInv charges each tear with the events lost or at risk,   *)
(* with the counted seqs the file does not know of, and with the two a     *)
(* line without its newline may still cost.                                *)
(***************************************************************************)
EXTENDS EventFile, FiniteSetTheorems, WellFoundedInduction, TLAPS

Events == [kind : {"event"}, seq : Nat \ {0}, id : Nat]
Lines  == Events \cup {Header(n) : n \in Nat} \cup {Torn}

TypeOK ==
    /\ lines \in Seq(Lines) /\ ended \in BOOLEAN /\ exists \in BOOLEAN /\ ackFile \in SUBSET Nat
    /\ at \in {"down", "fresh", "compact", "moved", "up"}
    /\ pending \in SUBSET Events /\ lastSeq \in Nat /\ acks \in Nat /\ linked \in BOOLEAN
    /\ counted \in SUBSET (1 .. said) /\ log \in SUBSET (1 .. said)
    /\ said \in Nat /\ owed \in SUBSET Events /\ crashes \in Nat /\ tears \in Nat

\* The seqs of a set of events, the events of the file, and the one without its newline.
SeqsOf(S) == {e.seq : e \in S}
EventAt   == {i \in 1 .. Len(lines) : lines[i].kind = "event"}
OnDisk    == {lines[i] : i \in EventAt}
Tail0     == {e \in OnDisk : ~ended /\ e = lines[Len(lines)]}

\* How far the first line says the count is.
From == IF lines # <<>> /\ lines[1].kind = "header" THEN lines[1].seq ELSE 0

\* The lines: a header is the first, no two events have one seq, and a line without its newline is
\* the last.
LinesInv ==
    /\ \A i \in 1 .. Len(lines) : lines[i].kind = "header" => i = 1
    /\ \A i, j \in EventAt : lines[i].seq = lines[j].seq => i = j
    /\ ~ended => lines # <<>> /\ (Len(lines) = 1 => From = 0)

\* What was said: seqs and ids are no greater than the number of events, an id is one event's, a
\* line without its newline was not promised, and what is in the log is counted while it is known.
SaidInv ==
    /\ \A e \in OnDisk \cup pending \cup owed : e.seq <= said /\ e.id \in 1 .. said
    /\ \A e, f \in OnDisk \cup pending \cup owed : e.id = f.id => e = f
    /\ \A e \in OnDisk \cup pending : e.id \in log => e.seq \in counted
    /\ Tail0 \cap owed = {}
    /\ From <= said /\ lastSeq <= said

\* The process: what the files hold and was not acked it holds, and no two of them have one seq.
MemoryInv ==
    /\ ~exists => at \in {"down", "fresh"} /\ lines = <<>> /\ ackFile = {}
    /\ at = "down" => pending = {} /\ lastSeq = 0 /\ ~linked
    /\ at = "fresh" => pending = {} /\ lastSeq = 0 /\ lines = <<>> /\ ackFile = {} /\ ~linked
    /\ at # "down" => /\ Loaded \subseteq pending
                      /\ \A e \in OnDisk : e.seq <= lastSeq
                      /\ From <= lastSeq
                      /\ acks = Cardinality(ackFile)
    /\ \A e, f \in pending : e.seq = f.seq => e = f
    /\ \A e \in pending : e.seq <= lastSeq /\ e.seq \notin ackFile
    /\ IsFiniteSet(pending) /\ IsFiniteSet(ackFile)
    /\ at = "moved" => OnDisk = pending /\ From = lastSeq /\ ended
    /\ at = "up" => acks < Threshold /\ \A n \in ackFile : n <= lastSeq
    /\ linked => \A n \in counted : n <= lastSeq

\* The lines a write was cut in are no more than the tears.
Bad == {i \in 1 .. Len(lines) : lines[i].kind = "torn" \/ (~ended /\ i = Len(lines))}
BadInv == Cardinality(Bad) <= tears

\* The seqs counted as taken that the file does not know of: a process that counts them anew
\* says them in vain.
Holes == {n \in counted : n > From /\ n \notin SeqsOf(OnDisk)}
\* Events that are not in the log, and not in the file with a seq that is free.
AtRisk == {e \in owed \cup pending \cup Loaded :
               e.id \notin log /\ (e \in Loaded => e.seq \in counted)}
\* What a line without its newline may still cost.
Unended == IF ended THEN 0 ELSE 2
CostInv ==
    /\ IsFiniteSet(AtRisk)
    /\ Cardinality(AtRisk) + Cardinality(Holes) + Unended <= 2 * tears

\* Without a tear memory and file agree.
SoundInv == tears = 0 /\ at # "down" => lastSeq = LoadedSeq /\ pending = Loaded

FileInv == LinesInv /\ SaidInv /\ MemoryInv /\ BadInv /\ CostInv /\ SoundInv

-----------------------------------------------------------------------------
(* The lines.                                                              *)

\* What the kind of a line says it is.
LEMMA LineKinds ==
  ASSUME NEW x \in Lines
  PROVE  /\ x.kind = "event" <=> x \in Events
         /\ x.kind = "header" => x.seq \in Nat
         /\ x.kind = "torn" => x = Torn
         /\ x.seq \in Nat
         /\ x.kind \in {"event", "header", "torn"}
  BY DEF Lines, Events, Header, Torn

LEMMA NewEvent ==
  ASSUME NEW n \in Nat \ {0}, NEW i \in Nat
  PROVE  Event(n, i) \in Events /\ Event(n, i).seq = n /\ Event(n, i).id = i
  BY DEF Events, Event

\* The events of the file.
LEMMA DiskEvents ==
  ASSUME TypeOK
  PROVE  /\ OnDisk \subseteq Events
         /\ \A i \in EventAt : i \in 1 .. Len(lines) /\ lines[i] \in OnDisk /\ lines[i].kind = "event"
         /\ \A e \in OnDisk : e.seq \in Nat \ {0} /\ e.id \in Nat
         /\ From \in Nat
         /\ Tail0 \subseteq OnDisk
         /\ Loaded = {e \in OnDisk : e.seq \notin ackFile}
         /\ lines # <<>> <=> Len(lines) > 0
  <1>1. \A i \in 1 .. Len(lines) : lines[i] \in Lines
    BY DEF TypeOK
  <1>2. \A i \in EventAt : lines[i] \in Events
    BY <1>1, LineKinds DEF EventAt
  <1>3. lines # <<>> <=> Len(lines) > 0
    BY DEF TypeOK
  <1>4. From \in Nat
    BY <1>1, <1>3, LineKinds DEF From, TypeOK
  <1>5. Loaded = {e \in OnDisk : e.seq \notin ackFile}
    BY DEF Loaded, Parsed, OnDisk, EventAt
  <1>6. OnDisk \subseteq Events
    BY <1>2 DEF OnDisk
  <1> QED BY <1>3, <1>4, <1>5, <1>6 DEF OnDisk, EventAt, Tail0, Events

\* A bounded set of naturals has a maximum.
LEMMA Maximum ==
  ASSUME NEW S \in SUBSET Nat, S # {}, NEW u \in Nat, \A x \in S : x <= u
  PROVE  Max(S) \in S /\ \A x \in S : x <= Max(S)
  <1> DEFINE B == {b \in Nat : \A x \in S : x <= b}
  <1>1. u \in B
    OBVIOUS
  <1>2. PICK b \in B : \A c \in B : ~ (<<c, b>> \in OpToRel(<, Nat))
    BY <1>1, WFMin, NatLessThanWellFounded
  <1>3. b \in Nat /\ \A x \in S : x <= b
    BY <1>2
  <1>4. b \in S
    <2> SUFFICES ASSUME b \notin S PROVE FALSE
      OBVIOUS
    <2>1. b # 0
      <3>1. PICK x \in S : x \in Nat
        OBVIOUS
      <3> QED BY <1>3, <3>1
    <2>2. b - 1 \in Nat /\ b - 1 < b
      BY <1>3, <2>1
    <2>3. \A x \in S : x <= b - 1
      BY <1>3
    <2>4. b - 1 \in B
      BY <2>2, <2>3
    <2>5. ~ (<<b - 1, b>> \in OpToRel(<, Nat))
      BY <1>2, <2>4
    <2> QED BY <1>3, <2>2, <2>5 DEF OpToRel
  <1>5. b \in S /\ \A x \in S : b >= x
    BY <1>3, <1>4
  <1>6. Max(S) \in S /\ \A x \in S : Max(S) >= x
    BY <1>5 DEF Max
  <1> QED BY <1>6

\* The same of any lines.
EventsIn(L) == {L[i] : i \in {j \in 1 .. Len(L) : L[j].kind = "event"}}
FromIn(L)   == IF L # <<>> /\ L[1].kind = "header" THEN L[1].seq ELSE 0
CountIn(L)  == Max({0} \cup {L[i].seq : i \in {j \in 1 .. Len(L) :
                                  L[j].kind = "event" \/ (j = 1 /\ L[j].kind = "header")}})

\* The count the loader finds: the first line's, or an event's, and no event's is above it.
LEMMA CountBounds ==
  ASSUME NEW L \in Seq(Lines), NEW u \in Nat, FromIn(L) <= u, \A e \in EventsIn(L) : e.seq <= u
  PROVE  /\ CountIn(L) \in {0, FromIn(L)} \cup SeqsOf(EventsIn(L))
         /\ CountIn(L) \in Nat /\ CountIn(L) <= u
         /\ FromIn(L) <= CountIn(L) /\ \A e \in EventsIn(L) : e.seq <= CountIn(L)
  <1> DEFINE E == {j \in 1 .. Len(L) : L[j].kind = "event"}
             P == {j \in 1 .. Len(L) : L[j].kind = "event" \/ (j = 1 /\ L[j].kind = "header")}
             S == {0} \cup {L[i].seq : i \in P}
  <1>0. \A i \in 1 .. Len(L) : L[i] \in Lines /\ L[i].seq \in Nat
    BY LineKinds
  <1>1. S = {0, FromIn(L)} \cup SeqsOf(EventsIn(L))
    <2>0. L # <<>> <=> 1 \in 1 .. Len(L)
      OBVIOUS
    <2>1. \A i \in P : i \in E \/ (i = 1 /\ L # <<>> /\ L[i].seq = FromIn(L))
      BY <2>0 DEF FromIn
    <2>2. FromIn(L) # 0 => 1 \in P /\ L[1].seq = FromIn(L)
      BY <2>0 DEF FromIn
    <2>3. E \subseteq P
      OBVIOUS
    <2>4. SeqsOf(EventsIn(L)) = {L[i].seq : i \in E}
      BY DEF SeqsOf, EventsIn
    <2> HIDE DEF E, P
    <2> QED BY <2>1, <2>2, <2>3, <2>4
  <1>2. FromIn(L) \in Nat
    BY <1>0 DEF FromIn
  <1>3. \A e \in EventsIn(L) : e.seq \in Nat
    BY <1>0 DEF EventsIn
  <1>4. S \in SUBSET Nat /\ S # {} /\ \A x \in S : x <= u
    <2>1. \A x \in SeqsOf(EventsIn(L)) : x \in Nat /\ x <= u
      BY <1>3 DEF SeqsOf
    <2> HIDE DEF S
    <2> QED BY <1>1, <1>2, <2>1
  <1>5. Max(S) \in S /\ \A x \in S : x <= Max(S)
    BY <1>4, Maximum
  <1>6. CountIn(L) = Max(S)
    BY DEF CountIn
  <1> HIDE DEF S
  <1> QED BY <1>1, <1>2, <1>4, <1>5, <1>6 DEF SeqsOf

LEMMA CountOf ==
  /\ OnDisk = EventsIn(lines) /\ From = FromIn(lines) /\ LoadedSeq = CountIn(lines)
  /\ OnDisk' = EventsIn(lines') /\ From' = FromIn(lines') /\ LoadedSeq' = CountIn(lines')
  BY DEF OnDisk, EventAt, EventsIn, From, FromIn, LoadedSeq, CountIn, Parsed

\* The count is the greatest number the lines show.
LEMMA CountIs ==
  ASSUME lines' \in Seq(Lines), NEW n \in Nat, n \in {0, From'} \cup SeqsOf(OnDisk'),
         From' <= n, \A e \in OnDisk' : e.seq <= n
  PROVE  LoadedSeq' = n
  <1> DEFINE L == lines'
  <1>1. L \in Seq(Lines) /\ FromIn(L) <= n /\ \A e \in EventsIn(L) : e.seq <= n
    BY CountOf
  <1>2. /\ CountIn(L) \in Nat /\ CountIn(L) <= n /\ FromIn(L) <= CountIn(L)
        /\ \A e \in EventsIn(L) : e.seq <= CountIn(L)
    BY <1>1, CountBounds
  <1>3. n \in {0, FromIn(L)} \cup SeqsOf(EventsIn(L))
    BY CountOf
  <1>4. n <= CountIn(L)
    BY <1>2, <1>3 DEF SeqsOf
  <1> QED BY <1>2, <1>4, CountOf

\* What the file does not hold back.
LEMMA LoadedNext == Loaded' = {e \in OnDisk' : e.seq \notin ackFile'}
  BY DEF Loaded, Parsed, OnDisk, EventAt

\* A line behind the last newline.
LEMMA AppendLine ==
  ASSUME TypeOK, LinesInv, NEW x \in Lines, ended, lines' = Append(lines, x),
         x.kind = "header" => lines = <<>> /\ x.seq = 0,
         x \in Events => x.seq \notin SeqsOf(OnDisk)
  PROVE  /\ lines' \in Seq(Lines) /\ lines' # <<>> /\ Len(lines') = Len(lines) + 1
         /\ OnDisk' = OnDisk \cup ({x} \cap Events)
         /\ From' = From
         /\ (~ended') => Tail0' = {x} \cap Events
         /\ ended' \in BOOLEAN => LinesInv'
         /\ Bad' \subseteq Bad \cup {Len(lines) + 1}
         /\ ended' /\ x # Torn => Bad' = Bad
  <1> DEFINE n == Len(lines)
  <1>1. /\ n \in Nat /\ Len(lines') = n + 1 /\ lines' \in Seq(Lines) /\ lines'[n + 1] = x
        /\ \A i \in 1 .. n : lines'[i] = lines[i]
    BY DEF TypeOK
  <1>2. EventAt' = EventAt \cup (IF x \in Events THEN {n + 1} ELSE {})
    BY <1>1, LineKinds DEF EventAt
  <1>3. OnDisk' = OnDisk \cup ({x} \cap Events)
    <2>1. \A i \in EventAt : i # n + 1 /\ lines'[i] = lines[i]
      BY <1>1 DEF EventAt
    <2>2. OnDisk' = {lines'[i] : i \in EventAt'}
      BY DEF OnDisk
    <2> QED BY <1>1, <1>2, <2>1, <2>2 DEF OnDisk
  <1>4. From' = From
    <2>1. CASE n = 0
      BY <1>1, <2>1, DiskEvents DEF From
    <2>2. CASE n > 0
      BY <1>1, <2>2, DiskEvents DEF From
    <2> QED BY <1>1, <2>1, <2>2
  <1>5. lines' # <<>>
    BY <1>1
  <1>6. ASSUME ended' \in BOOLEAN PROVE LinesInv'
    <2>1. \A i \in 1 .. Len(lines') : lines'[i].kind = "header" => i = 1
      BY <1>1, DiskEvents DEF LinesInv
    <2>2. \A i, j \in EventAt' : lines'[i].seq = lines'[j].seq => i = j
      <3>1. \A i \in EventAt : lines'[i] = lines[i] /\ lines[i].seq \in SeqsOf(OnDisk)
        BY <1>1, DiskEvents DEF SeqsOf
      <3>2. \A i, j \in EventAt : lines'[i].seq = lines'[j].seq => i = j
        BY <3>1 DEF LinesInv
      <3>3. ASSUME NEW i \in EventAt, NEW j \in EventAt', j \notin EventAt
            PROVE  lines'[i].seq # lines'[j].seq
        <4>1. j = n + 1 /\ x \in Events
          BY <1>2, <3>3
        <4> QED BY <1>1, <3>1, <4>1
      <3>4. \A i, j \in EventAt' : i \notin EventAt /\ j \notin EventAt => i = j
        BY <1>2
      <3> QED BY <3>2, <3>3, <3>4
    <2>3. ~ended' => (Len(lines') = 1 => From' = 0)
      BY <1>1, <1>4, DiskEvents DEF From
    <2> QED BY <1>5, <2>1, <2>2, <2>3 DEF LinesInv
  <1>7. (~ended') => Tail0' = {x} \cap Events
    <2>1. lines'[Len(lines')] = x
      BY <1>1
    <2>2. x \in Events => x \in OnDisk'
      BY <1>3
    <2>3. ASSUME ~ended' PROVE Tail0' = {e \in OnDisk' : e = x}
      BY <2>1, <2>3 DEF Tail0
    <2>4. OnDisk' \subseteq Events
      BY <1>3, DiskEvents
    <2> QED BY <2>2, <2>3, <2>4
  <1>8. Bad' \subseteq Bad \cup {Len(lines) + 1}
    BY <1>1 DEF Bad
  <1>9. ASSUME ended', x # Torn PROVE Bad' = Bad
    BY <1>1, <1>9, LineKinds DEF Bad
  <1> QED BY <1>1, <1>3, <1>4, <1>5, <1>6, <1>7, <1>8, <1>9

\* The last line goes with the one that is written behind it.
TearsLast == lines' = [lines EXCEPT ![Len(lines)] = Torn]
LEMMA TearLine ==
  ASSUME TypeOK, LinesInv, ~ended, TearsLast
  PROVE  /\ lines' \in Seq(Lines) /\ lines' # <<>> /\ Len(lines') = Len(lines)
         /\ OnDisk' = OnDisk \ Tail0
         /\ From' = From
         /\ (~ended') => Tail0' = {}
         /\ ended' \in BOOLEAN => LinesInv'
         /\ Bad' \subseteq Bad
         /\ \A e, f \in Tail0 : e = f
  <1> DEFINE n == Len(lines)
  <1>1. /\ n \in Nat /\ n > 0 /\ Len(lines') = n /\ lines' \in Seq(Lines) /\ lines'[n] = Torn
        /\ \A i \in 1 .. n : i # n => lines'[i] = lines[i]
    BY DiskEvents DEF TypeOK, LinesInv, Lines, TearsLast
  <1>0. lines' # <<>>
    BY <1>1
  <1>2. Torn.kind = "torn"
    BY DEF Torn
  <1>3. EventAt' = EventAt \ {n}
    BY <1>1, <1>2 DEF EventAt
  <1>4. OnDisk' = OnDisk \ Tail0
    <2>1. \A i \in EventAt' : i \in EventAt /\ i # n /\ lines'[i] = lines[i]
      BY <1>1, <1>3 DEF EventAt
    <2>2. OnDisk' = {lines[i] : i \in EventAt'}
      BY <2>1 DEF OnDisk
    <2>7. lines[n].kind = "event" => n \in EventAt
      BY <1>1 DEF EventAt
    <2>3. \A i \in EventAt' : lines[i] # lines[n]
      <3> SUFFICES ASSUME NEW i \in EventAt', lines[i] = lines[n] PROVE FALSE
        OBVIOUS
      <3>1. lines[i].kind = "event" /\ i \in EventAt /\ i # n
        BY <2>1 DEF EventAt
      <3>2. n \in EventAt
        BY <2>7, <3>1
      <3> QED BY <3>1, <3>2 DEF LinesInv
    <2>4. \A i \in EventAt : lines[i] # lines[n] => i \in EventAt'
      BY <1>3
    <2>5. Tail0 = {e \in OnDisk : e = lines[n]}
      BY DEF Tail0
    <2>6. OnDisk = {lines[i] : i \in EventAt}
      BY DEF OnDisk
    <2> HIDE DEF n
    <2> QED BY <2>1, <2>2, <2>3, <2>4, <2>5, <2>6
  <1>5. From' = From
    <2>1. CASE n = 1
      BY <1>1, <1>2, <2>1 DEF From, LinesInv
    <2>2. CASE n > 1
      <3>1. lines # <<>> /\ lines' # <<>>
        BY <1>0 DEF LinesInv
      <3>2. lines'[1] = lines[1]
        BY <1>1, <2>2
      <3> QED BY <3>1, <3>2 DEF From
    <2>3. n = 1 \/ n > 1
      BY <1>1
    <2> QED BY <2>1, <2>2, <2>3
  <1>6. (~ended') => Tail0' = {}
    <2>1. \A e \in OnDisk' : e # Torn
      BY <1>2, <1>4, DiskEvents DEF Events
    <2> QED BY <1>1, <2>1 DEF Tail0
  <1>7. LinesInv'
    <2>1. \A i \in 1 .. Len(lines') : lines'[i].kind = "header" => i = 1
      BY <1>1, <1>2 DEF LinesInv
    <2>2. \A i \in EventAt' : i \in EventAt /\ lines'[i] = lines[i]
      BY <1>1, <1>3 DEF EventAt
    <2>3. lines' # <<>> /\ (Len(lines') = 1 => From' = 0)
      BY <1>1, <1>5 DEF LinesInv
    <2> QED BY <2>1, <2>2, <2>3 DEF LinesInv
  <1>8. Bad' \subseteq Bad
    BY <1>1, <1>2 DEF Bad
  <1> QED BY <1>1, <1>4, <1>5, <1>6, <1>7, <1>8 DEF Tail0

\* The events of a set by rank: each of them once.
LEMMA RankBijects ==
  ASSUME NEW S \in SUBSET Events, IsFiniteSet(S), \A e, f \in S : e.seq = f.seq => e = f
  PROVE  /\ Cardinality(S) \in Nat
         /\ InOrder(S) \in Bijection(1 .. Cardinality(S), S)
  <1> DEFINE n == Cardinality(S)
             upTo(e) == {f \in S : f.seq <= e.seq}
             r == [e \in S |-> Rank(e, S)]
  <1>1. n \in Nat
    BY FS_CardinalityType
  <1>2. \A e \in S : e.seq \in Nat
    BY DEF Events
  <1>3. \A e \in S : /\ IsFiniteSet(upTo(e)) /\ Rank(e, S) = Cardinality(upTo(e))
                     /\ Rank(e, S) \in 1 .. n
    <2> SUFFICES ASSUME NEW e \in S
                 PROVE  /\ IsFiniteSet(upTo(e)) /\ Rank(e, S) = Cardinality(upTo(e))
                        /\ Rank(e, S) \in 1 .. n
      OBVIOUS
    <2>1. upTo(e) \in SUBSET S /\ e \in upTo(e)
      BY <1>2
    <2>2. IsFiniteSet(upTo(e)) /\ Cardinality(upTo(e)) <= n /\ Cardinality(upTo(e)) \in Nat
      BY <2>1, FS_Subset, FS_CardinalityType
    <2>3. Cardinality(upTo(e)) # 0
      BY <2>1, <2>2, FS_EmptySet
    <2>4. Rank(e, S) = Cardinality(upTo(e))
      BY DEF Rank
    <2> HIDE DEF upTo
    <2> QED BY <1>1, <2>2, <2>3, <2>4
  <1>4. \A e, f \in S : Rank(e, S) = Rank(f, S) => e = f
    <2>1. ASSUME NEW e \in S, NEW f \in S, e.seq < f.seq PROVE Rank(e, S) # Rank(f, S)
      <3>1. upTo(e) \in SUBSET upTo(f)
        BY <1>2, <2>1
      <3>2. f \in upTo(f) /\ f \notin upTo(e)
        BY <1>2, <2>1
      <3> QED BY <1>3, <3>1, <3>2, FS_Subset
    <2> SUFFICES ASSUME NEW e \in S, NEW f \in S, Rank(e, S) = Rank(f, S) PROVE e = f
      OBVIOUS
    <2>2. e.seq = f.seq
      BY <1>2, <2>1
    <2> QED BY <2>2
  <1>5. r \in Injection(S, 1 .. n)
    BY <1>3, <1>4 DEF Injection, IsInjective
  <1>6. r \in Surjection(S, 1 .. n)
    <2>1. IsFiniteSet(1 .. n) /\ Cardinality(1 .. n) = n
      BY <1>1, FS_Interval
    <2> QED BY <1>5, <2>1, FS_Injection
  <1>7. \A i \in 1 .. n : \E e \in S : Rank(e, S) = i
    BY <1>6 DEF Surjection
  <1> DEFINE g == InOrder(S)
  <1>8. g = [i \in 1 .. n |-> CHOOSE e \in S : Rank(e, S) = i]
    BY DEF InOrder
  <1>9. \A i \in 1 .. n : g[i] \in S /\ Rank(g[i], S) = i
    BY <1>7, <1>8
  <1>10. g \in [1 .. n -> S]
    BY <1>8, <1>9
  <1>11. \A i, j \in 1 .. n : g[i] = g[j] => i = j
    BY <1>9
  <1>12. \A e \in S : Rank(e, S) \in 1 .. n /\ g[Rank(e, S)] = e
    BY <1>3, <1>4, <1>9
  <1> HIDE DEF g, n
  <1>13. g \in Injection(1 .. n, S) /\ g \in Surjection(1 .. n, S)
    BY <1>10, <1>11, <1>12 DEF Injection, IsInjective, Surjection
  <1> QED BY <1>1, <1>13 DEF Bijection, g, n

\* A compacted file: the count, and what is pending behind it.
MovesIn == lines' = Compacted
LEMMA CompactedLines ==
  ASSUME TypeOK, MemoryInv, MovesIn, ended'
  PROVE  /\ lines' \in Seq(Lines) /\ lines' # <<>> /\ Len(lines') = 1 + Cardinality(pending)
         /\ OnDisk' = pending
         /\ From' = lastSeq
         /\ LinesInv' /\ Bad' = {} /\ Tail0' = {}
  <1> DEFINE n == Cardinality(pending)
             g == InOrder(pending)
  <1>1. n \in Nat /\ g \in Bijection(1 .. n, pending)
    BY RankBijects DEF TypeOK, MemoryInv
  <1>2. /\ g \in [1 .. n -> pending]
        /\ \A i, j \in 1 .. n : g[i] = g[j] => i = j
        /\ \A e \in pending : \E i \in 1 .. n : g[i] = e
    BY <1>1 DEF Bijection, Injection, Surjection, IsInjective
  <1>3. g \in Seq(Lines) /\ Len(g) = n
    <2>1. \A i \in 1 .. n : g[i] \in Lines
      BY <1>2 DEF TypeOK, Lines
    <2> HIDE DEF g
    <2>2. g \in [1 .. n -> Lines]
      BY <1>2, <2>1
    <2> QED BY <1>1, <2>2
  <1>4. lines' = <<Header(lastSeq)>> \o g
    BY DEF MovesIn, Compacted
  <1>5. Header(lastSeq) \in Lines /\ Header(lastSeq).kind = "header" /\ Header(lastSeq).seq = lastSeq
    BY DEF Lines, Header, TypeOK
  <1> HIDE DEF g, n
  <1>6. /\ lines' \in Seq(Lines) /\ Len(lines') = 1 + n /\ lines'[1] = Header(lastSeq)
        /\ \A i \in 1 .. n : lines'[1 + i] = g[i]
    BY <1>1, <1>3, <1>4, <1>5
  <1>7. lines' # <<>>
    BY <1>1, <1>6
  <1>8. \A i \in 2 .. 1 + n : lines'[i] = g[i - 1] /\ lines'[i] \in pending
    <2> TAKE i \in 2 .. 1 + n
    <2>1. i - 1 \in 1 .. n /\ 1 + (i - 1) = i
      BY <1>1
    <2> QED BY <1>2, <1>6, <2>1
  <1>9. \A e \in pending : e \in Events /\ e.kind = "event"
    BY DEF TypeOK, Events
  <1>10. EventAt' = 2 .. 1 + n
    <2>1. EventAt' = {i \in 1 .. 1 + n : lines'[i].kind = "event"}
      BY <1>6 DEF EventAt
    <2>2. \A i \in 1 .. 1 + n : lines'[i].kind = "event" <=> i # 1
      BY <1>1, <1>5, <1>6, <1>8, <1>9
    <2> QED BY <1>1, <2>1, <2>2
  <1>11. OnDisk' = pending
    <2>1. OnDisk' = {lines'[i] : i \in 2 .. 1 + n}
      BY <1>10 DEF OnDisk
    <2>2. ASSUME NEW e \in pending PROVE \E i \in 2 .. 1 + n : lines'[i] = e
      <3>1. PICK i \in 1 .. n : g[i] = e
        BY <1>2
      <3>2. 1 + i \in 2 .. 1 + n /\ lines'[1 + i] = e
        BY <1>1, <1>6, <3>1
      <3> QED BY <3>2
    <2> QED BY <1>8, <2>1, <2>2
  <1>12. From' = lastSeq
    BY <1>5, <1>6, <1>7 DEF From
  <1>13. LinesInv'
    <2>1. \A i \in 1 .. Len(lines') : lines'[i].kind = "header" => i = 1
      BY <1>1, <1>6, <1>8, <1>9
    <2>2. ASSUME NEW i \in 2 .. 1 + n, NEW j \in 2 .. 1 + n, lines'[i].seq = lines'[j].seq PROVE i = j
      <3>1. lines'[i] = lines'[j]
        BY <1>8, <2>2 DEF MemoryInv
      <3>2. g[i - 1] = g[j - 1] /\ i - 1 \in 1 .. n /\ j - 1 \in 1 .. n
        BY <1>1, <1>8, <3>1
      <3>3. i - 1 = j - 1
        BY <1>2, <3>2
      <3> QED BY <1>1, <3>3
    <2> QED BY <1>10, <2>1, <2>2 DEF LinesInv
  <1>14. Bad' = {}
    <2>1. \A i \in 1 .. 1 + n : lines'[i].kind # "torn"
      BY <1>1, <1>5, <1>6, <1>8, <1>9
    <2> QED BY <1>6, <2>1 DEF Bad
  <1>15. Tail0' = {}
    BY DEF Tail0
  <1> QED BY <1>6, <1>7, <1>11, <1>12, <1>13, <1>14, <1>15 DEF n

-----------------------------------------------------------------------------
(* What every step needs.                                                  *)

\* The lines of the steps that write one.
LEMMA WrittenLines ==
  ASSUME TypeOK, LinesInv, NEW x \in Lines, lines' = Behind(x), ended' \in BOOLEAN,
         x.kind = "header" => lines = <<>> /\ x.seq = 0,
         x \in Events => x.seq \notin SeqsOf(OnDisk)
  PROVE  /\ lines' \in Seq(Lines) /\ lines' # <<>>
         /\ OnDisk' = IF ended THEN OnDisk \cup ({x} \cap Events) ELSE OnDisk \ Tail0
         /\ From' = From
         /\ Tail0' \subseteq {x} \cap Events /\ (ended' => Tail0' = {})
         /\ LinesInv'
         /\ Bad' \subseteq IF ended THEN Bad \cup {Len(lines) + 1} ELSE Bad
         /\ ended' /\ x # Torn => Bad' \subseteq Bad
         /\ \A e, f \in Tail0 : e = f
  <1>0. ended \in BOOLEAN
    BY DEF TypeOK
  <1>1. CASE ended
    <2>1. lines' = Append(lines, x)
      BY <1>1 DEF Behind
    <2>2. ended' => Tail0' = {}
      BY DEF Tail0
    <2>3. Tail0 = {}
      BY <1>1 DEF Tail0
    <2> QED BY <1>1, <2>1, <2>2, <2>3, AppendLine
  <1>2. CASE ~ended
    <2>1. TearsLast
      BY <1>2 DEF Behind, TearsLast
    <2>2. ended' => Tail0' = {}
      BY DEF Tail0
    <2> QED BY <1>2, <2>1, <2>2, TearLine
  <1> QED BY <1>0, <1>1, <1>2

\* The event that is about to be said, and the places that have room for its seq.
NewOne == Event(lastSeq + 1, said + 1)
LEMMA NewOneIsNew ==
  ASSUME TypeOK, SaidInv, MemoryInv, at = "up"
  PROVE  /\ NewOne \in Events /\ NewOne \in Lines /\ NewOne # Torn /\ NewOne.kind = "event"
         /\ NewOne.seq = lastSeq + 1 /\ NewOne.id = said + 1
         /\ NewOne \notin OnDisk \cup pending \cup owed
         /\ NewOne.id \notin log
         /\ NewOne.seq \notin SeqsOf(OnDisk) /\ NewOne.seq \notin ackFile /\ NewOne.seq > From
  <1>1. NewOne \in Events /\ NewOne.seq = lastSeq + 1 /\ NewOne.id = said + 1
    BY NewEvent DEF NewOne, TypeOK
  <1>2. NewOne \in Lines /\ NewOne # Torn /\ NewOne.kind = "event"
    BY <1>1 DEF Lines, Events, Torn
  <1>3. \A e \in OnDisk \cup pending \cup owed : e.id # said + 1
    BY DEF SaidInv, TypeOK
  <1>4. \A e \in OnDisk : e.seq <= lastSeq /\ e.seq \in Nat
    BY DiskEvents DEF MemoryInv
  <1>5. \A n \in ackFile : n <= lastSeq /\ n \in Nat
    BY DEF MemoryInv, TypeOK
  <1>6. From <= lastSeq /\ From \in Nat /\ lastSeq \in Nat /\ said \in Nat
    BY DiskEvents DEF MemoryInv, TypeOK
  <1>7. said + 1 \notin log
    BY <1>6 DEF TypeOK
  <1>8. lastSeq + 1 \notin SeqsOf(OnDisk)
    BY <1>4, <1>6 DEF SeqsOf
  <1> QED BY <1>1, <1>2, <1>3, <1>5, <1>6, <1>7, <1>8

LEMMA HeaderLine == Header(0) \in Lines /\ Header(0) \notin Events /\ Header(0).kind = "header"
                    /\ Header(0).seq = 0 /\ Header(0) # Torn
  BY DEF Header, Lines, Events, Torn

LEMMA TornLine == Torn \in Lines /\ Torn \notin Events /\ Torn.kind = "torn"
  BY DEF Lines, Events, Torn

\* The seqs and ids of what is left after a step that says nothing.
LEMMA SaidKept ==
  ASSUME SaidInv, UNCHANGED <<said, owed>>, OnDisk' \cup pending' \subseteq OnDisk \cup pending,
         Tail0' \cap owed = {}, From' <= said, lastSeq' <= said,
         \A e \in OnDisk' \cup pending' : e.id \in log' => e.seq \in counted'
  PROVE  SaidInv'
  <1>1. \A e \in OnDisk' \cup pending' \cup owed' : e \in OnDisk \cup pending \cup owed
    OBVIOUS
  <1> QED BY <1>1 DEF SaidInv

\* No more at risk, and no more holes.
LEMMA CostKept ==
  ASSUME TypeOK, CostInv, AtRisk' \subseteq AtRisk, Holes' \subseteq Holes, tears' = tears,
         ended' \/ ~ended, ended' \in BOOLEAN
  PROVE  CostInv'
  <1>1. IsFiniteSet(Holes) /\ Cardinality(Holes) \in Nat
    <2>1. IsFiniteSet(1 .. said)
      BY FS_Interval DEF TypeOK
    <2>2. Holes \subseteq 1 .. said
      BY DEF TypeOK, Holes
    <2> QED BY <2>1, <2>2, FS_Subset, FS_CardinalityType
  <1>2. /\ IsFiniteSet(AtRisk) /\ Cardinality(AtRisk) \in Nat
        /\ Cardinality(AtRisk) + Cardinality(Holes) + Unended <= 2 * tears
    BY FS_CardinalityType DEF CostInv
  <1>3. /\ IsFiniteSet(AtRisk') /\ Cardinality(AtRisk') <= Cardinality(AtRisk)
        /\ Cardinality(AtRisk') \in Nat
    BY <1>2, FS_Subset, FS_CardinalityType
  <1>4. Cardinality(Holes') <= Cardinality(Holes) /\ Cardinality(Holes') \in Nat
    BY <1>1, FS_Subset, FS_CardinalityType
  <1>5. Unended' <= Unended /\ Unended \in Nat /\ Unended' \in Nat
    BY DEF Unended, TypeOK
  <1>6. tears \in Nat
    BY DEF TypeOK
  <1>7. Cardinality(AtRisk') + Cardinality(Holes') + Unended' <= 2 * tears'
    BY <1>1, <1>2, <1>3, <1>4, <1>5, <1>6
  <1> QED BY <1>3, <1>7 DEF CostInv

\* What is at risk in terms of the files and the memory alone.
LEMMA RiskKept ==
  ASSUME owed' \cup pending' \cup Loaded' \subseteq owed \cup pending \cup Loaded, log \subseteq log',
         \A e \in Loaded : e \in Loaded' \/ e \notin owed' \cup pending' \cup Loaded' \/ e.seq \in counted,
         counted' \subseteq counted
  PROVE  AtRisk' \subseteq AtRisk
  BY DEF AtRisk

\* The bounds of the number of cut lines.
LEMMA BadKept ==
  ASSUME TypeOK, BadInv, Bad' \subseteq Bad, tears' \in Nat, tears' >= tears
  PROVE  BadInv'
  <1>1. IsFiniteSet(Bad)
    <2>1. IsFiniteSet(1 .. Len(lines)) /\ Bad \subseteq 1 .. Len(lines)
      BY FS_Interval DEF Bad, TypeOK
    <2> QED BY <2>1, FS_Subset
  <1>2. Cardinality(Bad') <= Cardinality(Bad) /\ Cardinality(Bad) \in Nat /\ Cardinality(Bad') \in Nat
    BY <1>1, FS_Subset, FS_CardinalityType
  <1> QED BY <1>2 DEF BadInv, TypeOK

\* A step that leaves the files alone.
LEMMA DiskKept ==
  ASSUME UNCHANGED disk
  PROVE  /\ OnDisk' = OnDisk /\ Loaded' = Loaded /\ From' = From /\ LoadedSeq' = LoadedSeq
         /\ Tail0' = Tail0 /\ Bad' = Bad /\ LinesInv' = LinesInv
  BY DEF disk, OnDisk, Loaded, From, LoadedSeq, Tail0, Bad, LinesInv, EventAt, Parsed

-----------------------------------------------------------------------------
(* The steps.                                                              *)

LEMMA CountInFile ==
  ASSUME TypeOK, FileInv
  PROVE  /\ LoadedSeq \in Nat /\ LoadedSeq <= said /\ LoadedSeq \in {0, From} \cup SeqsOf(OnDisk)
         /\ From <= LoadedSeq /\ \A e \in OnDisk : e.seq <= LoadedSeq
  <1>1. said \in Nat /\ From <= said /\ \A e \in OnDisk : e.seq <= said
    BY DEF TypeOK, FileInv, SaidInv
  <1> QED BY <1>1, CountBounds, CountOf DEF TypeOK

LEMMA LoadStep == ASSUME TypeOK, FileInv, Load PROVE TypeOK' /\ FileInv'
  <1>1. /\ at = "down" /\ pending' = Loaded /\ lastSeq' = LoadedSeq /\ acks' = Cardinality(ackFile)
        /\ at' = (IF exists THEN NextOf(acks') ELSE "fresh")
        /\ UNCHANGED <<disk, linked, orchestrator, history>>
    BY DEF Load, Counted
  <1>2. UNCHANGED <<lines, ended, exists, ackFile, linked, counted, log, said, owed, crashes, tears>>
    BY <1>1 DEF disk, orchestrator, history
  <1>3. pending = {} /\ ~linked /\ IsFiniteSet(ackFile)
    BY <1>1 DEF FileInv, MemoryInv
  <1>4. OnDisk \subseteq Events /\ Loaded = {e \in OnDisk : e.seq \notin ackFile} /\ Tail0 \subseteq OnDisk
    BY DiskEvents
  <1>5. acks' \in Nat /\ (acks' = 0 <=> ackFile = {})
    BY <1>1, <1>3, FS_CardinalityType, FS_EmptySet
  <1>6. /\ at' \in {"fresh", "compact", "up"}
        /\ at' = "fresh" <=> ~exists
        /\ at' = "up" => ackFile = {} /\ acks' = 0
    BY <1>1, <1>5 DEF NextOf, TypeOK
  <1>7. /\ OnDisk' = OnDisk /\ Loaded' = Loaded /\ From' = From /\ LoadedSeq' = LoadedSeq
        /\ Tail0' = Tail0 /\ Bad' = Bad /\ LinesInv' = LinesInv
    BY <1>1, DiskKept
  <1>8. TypeOK'
    BY <1>1, <1>2, <1>4, <1>5, <1>6, CountInFile DEF TypeOK
  <1>9. SaidInv'
    BY <1>1, <1>2, <1>4, <1>7, CountInFile, SaidKept DEF FileInv, SaidInv
  <1>10. MemoryInv'
    <2>1. ~exists' => at' \in {"down", "fresh"} /\ lines' = <<>> /\ ackFile' = {}
      BY <1>2, <1>6 DEF FileInv, MemoryInv
    <2>2. at' = "fresh" => /\ pending' = {} /\ lastSeq' = 0 /\ lines' = <<>> /\ ackFile' = {}
                           /\ ~linked'
      <3> SUFFICES ASSUME at' = "fresh" PROVE pending' = {} /\ lastSeq' = 0 /\ lines = <<>> /\ ackFile = {}
        BY <1>2, <1>3
      <3>1. lines = <<>> /\ ackFile = {}
        BY <1>6 DEF FileInv, MemoryInv
      <3>2. OnDisk = {} /\ From = 0
        BY <3>1 DEF OnDisk, EventAt, From
      <3> QED BY <1>1, <1>4, <3>1, <3>2, CountInFile DEF SeqsOf
    <2>3. \A e \in pending' : e.seq <= lastSeq' /\ e.seq \notin ackFile'
      BY <1>1, <1>2, <1>4, CountInFile
    <2>4. \A e, f \in pending' : e.seq = f.seq => e = f
      BY <1>1, <1>4 DEF FileInv, LinesInv, OnDisk
    <2>5. IsFiniteSet(pending')
      <3>1. IsFiniteSet(EventAt)
        <4>1. IsFiniteSet(1 .. Len(lines)) /\ EventAt \subseteq 1 .. Len(lines)
          BY FS_Interval DEF EventAt, TypeOK
        <4> QED BY <4>1, FS_Subset
      <3>2. [i \in EventAt |-> lines[i]] \in Surjection(EventAt, OnDisk)
        BY DEF Surjection, OnDisk
      <3>3. IsFiniteSet(OnDisk)
        BY <3>1, <3>2, FS_Surjection
      <3> QED BY <1>1, <1>4, <3>3, FS_Subset
    <2>6. /\ Loaded' \subseteq pending' /\ \A e \in OnDisk' : e.seq <= lastSeq'
          /\ From' <= lastSeq' /\ acks' = Cardinality(ackFile')
      BY <1>1, <1>2, <1>7, CountInFile
    <2>7. at' = "up" => acks' < Threshold /\ \A n \in ackFile' : n <= lastSeq'
      BY <1>2, <1>6, FileAssumption
    <2> QED BY <1>2, <1>3, <1>6, <2>1, <2>2, <2>3, <2>4, <2>5, <2>6, <2>7 DEF MemoryInv
  <1>11. CostInv'
    <2>1. Holes' = Holes
      BY <1>2, <1>7 DEF Holes
    <2>2. AtRisk' \subseteq AtRisk
      BY <1>1, <1>2, <1>7, RiskKept
    <2> QED BY <1>2, <2>1, <2>2, CostKept DEF FileInv, TypeOK
  <1>12. SoundInv'
    BY <1>1, <1>7 DEF SoundInv
  <1> QED BY <1>2, <1>7, <1>8, <1>9, <1>10, <1>11, <1>12 DEF FileInv, BadInv

\* A finite set and one element more.
LEMMA OneMore ==
  ASSUME NEW S, IsFiniteSet(S), NEW x, NEW T, T \subseteq S \cup {x}
  PROVE  IsFiniteSet(T) /\ Cardinality(T) \in Nat /\ Cardinality(S) \in Nat
         /\ Cardinality(T) <= Cardinality(S) + 1
  <1>0. Cardinality(S) \in Nat /\ IsFiniteSet(S \cup {x})
    BY FS_AddElement, FS_CardinalityType
  <1>1. Cardinality(S \cup {x}) <= Cardinality(S) + 1
    BY <1>0, FS_AddElement
  <1>2. IsFiniteSet(T) /\ Cardinality(T) <= Cardinality(S \cup {x}) /\ Cardinality(T) \in Nat
    BY <1>0, FS_Subset, FS_CardinalityType
  <1>3. Cardinality(S \cup {x}) \in Nat
    BY <1>0, FS_CardinalityType
  <1> QED BY <1>0, <1>1, <1>2, <1>3

LEMMA UnionSize ==
  ASSUME NEW S, IsFiniteSet(S), NEW T, IsFiniteSet(T)
  PROVE  /\ IsFiniteSet(S \cup T) /\ Cardinality(S \cup T) \in Nat
         /\ Cardinality(S \cup T) <= Cardinality(S) + Cardinality(T)
  <1>1. IsFiniteSet(S \cup T) /\ IsFiniteSet(S \cap T)
    BY FS_Union, FS_Intersection
  <1>2. /\ Cardinality(S \cap T) \in Nat /\ Cardinality(S) \in Nat /\ Cardinality(T) \in Nat
        /\ Cardinality(S \cup T) \in Nat
    BY <1>1, FS_CardinalityType
  <1>3. Cardinality(S \cup T) = Cardinality(S) + Cardinality(T) - Cardinality(S \cap T)
    BY FS_Union
  <1> QED BY <1>1, <1>2, <1>3

LEMMA HolesFinite == ASSUME TypeOK PROVE IsFiniteSet(Holes) /\ Cardinality(Holes) \in Nat
  <1>1. IsFiniteSet(1 .. said)
    BY FS_Interval DEF TypeOK
  <1>2. Holes \subseteq 1 .. said
    BY DEF TypeOK, Holes
  <1> QED BY <1>1, <1>2, FS_Subset, FS_CardinalityType

\* An event that is said in full: its seq may be counted, which puts it at risk and closes a hole; and
\* one that is written behind a cut line costs that line as well.
LEMMA SayCost ==
  ASSUME TypeOK, FileInv, at = "up", UNCHANGED <<log, counted, ackFile, tears>>, From' = From, ended',
         owed' = owed \cup {NewOne}, pending' = pending \cup {NewOne},
         OnDisk' = IF ended THEN OnDisk \cup {NewOne} ELSE OnDisk \ Tail0,
         Loaded' = {x \in OnDisk' : x.seq \notin ackFile}, \A e, f \in Tail0 : e = f
  PROVE  CostInv'
  <1> DEFINE e == NewOne
             r == Cardinality(AtRisk)
             h == Cardinality(Holes)
  <1>1. /\ e \notin OnDisk \cup pending \cup owed /\ e.id \notin log
        /\ e.seq \notin SeqsOf(OnDisk) /\ e.seq \notin ackFile /\ e.seq > From
    BY NewOneIsNew DEF FileInv
  <1>2. Loaded = {x \in OnDisk : x.seq \notin ackFile} /\ Tail0 \subseteq OnDisk
    BY DiskEvents
  <1>3. IsFiniteSet(AtRisk) /\ r \in Nat /\ r + h + Unended <= 2 * tears /\ tears \in Nat
    BY FS_CardinalityType DEF FileInv, CostInv, TypeOK
  <1>4. IsFiniteSet(Holes) /\ h \in Nat
    BY HolesFinite
  <1>5. Unended' = 0
    BY DEF Unended
  <1> HIDE DEF e, r, h
  <1>6. CASE ended
    <2>1. Loaded' = Loaded \cup {e} /\ OnDisk' = OnDisk \cup {e} /\ Unended = 0
      BY <1>1, <1>2, <1>6 DEF e, Unended
    <2>2. Holes' = Holes \ {e.seq}
      BY <2>1 DEF Holes, SeqsOf
    <2>3. CASE e.seq \in counted
      <3>1. e.seq \in Holes
        BY <1>1, <2>3 DEF Holes
      <3>2. Cardinality(Holes') = h - 1
        BY <1>4, <2>2, <3>1, FS_RemoveElement DEF h
      <3>3. AtRisk' \subseteq AtRisk \cup {e}
        BY <2>1 DEF AtRisk, e
      <3>4. IsFiniteSet(AtRisk') /\ Cardinality(AtRisk') \in Nat /\ Cardinality(AtRisk') <= r + 1
        BY <1>3, <3>3, OneMore DEF r
      <3>5. Cardinality(AtRisk') + Cardinality(Holes') + Unended' <= 2 * tears'
        BY <1>3, <1>4, <1>5, <2>1, <3>2, <3>4
      <3> QED BY <3>4, <3>5 DEF CostInv
    <2>4. CASE e.seq \notin counted
      <3>1. AtRisk' \subseteq AtRisk
        BY <2>1, <2>4 DEF AtRisk, e
      <3>2. Holes' \subseteq Holes
        BY <2>2
      <3> QED BY <3>1, <3>2, CostKept DEF FileInv
    <2> QED BY <2>3, <2>4
  <1>7. CASE ~ended
    <2>1. Loaded' = Loaded \ Tail0 /\ OnDisk' = OnDisk \ Tail0 /\ Unended = 2
      BY <1>2, <1>7 DEF Unended
    <2>2. CASE Tail0 = {}
      <3>1. AtRisk' \subseteq AtRisk \cup {e} /\ Holes' = Holes
        BY <2>1, <2>2 DEF AtRisk, Holes, SeqsOf, e
      <3>2. IsFiniteSet(AtRisk') /\ Cardinality(AtRisk') \in Nat /\ Cardinality(AtRisk') <= r + 1
        BY <1>3, <3>1, OneMore DEF r
      <3>3. Cardinality(AtRisk') + Cardinality(Holes') + Unended' <= 2 * tears'
        BY <1>3, <1>4, <1>5, <2>1, <3>1, <3>2 DEF h
      <3> QED BY <3>2, <3>3 DEF CostInv
    <2>3. CASE Tail0 # {}
      <3>1. PICK a \in Tail0 : Tail0 = {a} /\ a \in OnDisk
        BY <1>2, <2>3
      <3>2. IsFiniteSet(AtRisk \cup {e}) /\ Cardinality(AtRisk \cup {e}) \in Nat
            /\ Cardinality(AtRisk \cup {e}) <= r + 1
        BY <1>3, OneMore DEF r
      <3>3. CASE a.seq \in counted
        <4>1. AtRisk' \subseteq AtRisk \cup {e}
          BY <2>1, <3>1, <3>3 DEF AtRisk, e
        <4>2. Holes' \subseteq Holes \cup {a.seq}
          BY <2>1, <3>1 DEF Holes, SeqsOf
        <4>3. IsFiniteSet(AtRisk') /\ Cardinality(AtRisk') \in Nat /\ Cardinality(AtRisk') <= r + 1
          BY <1>3, <4>1, OneMore DEF r
        <4>4. Cardinality(Holes') \in Nat /\ Cardinality(Holes') <= h + 1
          BY <1>4, <4>2, OneMore DEF h
        <4>5. Cardinality(AtRisk') + Cardinality(Holes') + Unended' <= 2 * tears'
          BY <1>3, <1>4, <1>5, <2>1, <4>3, <4>4
        <4> QED BY <4>3, <4>5 DEF CostInv
      <3>4. CASE a.seq \notin counted
        <4>1. AtRisk' \subseteq (AtRisk \cup {e}) \cup {a}
          BY <2>1, <3>1 DEF AtRisk, e
        <4>2. Holes' = Holes
          BY <2>1, <3>1, <3>4 DEF Holes, SeqsOf
        <4>3. IsFiniteSet(AtRisk') /\ Cardinality(AtRisk') \in Nat
              /\ Cardinality(AtRisk') <= Cardinality(AtRisk \cup {e}) + 1
          BY <3>2, <4>1, OneMore
        <4>5. Cardinality(AtRisk') + Cardinality(Holes') + Unended' <= 2 * tears'
          BY <1>3, <1>4, <1>5, <2>1, <3>2, <4>2, <4>3 DEF h
        <4> QED BY <4>3, <4>5 DEF CostInv
      <3> QED BY <3>3, <3>4
    <2> QED BY <2>2, <2>3
  <1> QED BY <1>6, <1>7 DEF TypeOK

\* A write that is cut pays for the line behind which it was, and for its own.
LEMMA CutCost ==
  ASSUME TypeOK, FileInv, UNCHANGED <<log, counted, ackFile, owed>>, From' = From, ~ended',
         tears' = tears + 1, pending' = {}, NEW N \in SUBSET Events,
         \A x \in N : at = "up" /\ x = NewOne,
         OnDisk' = IF ended THEN OnDisk \cup N ELSE OnDisk \ Tail0,
         Loaded' = {x \in OnDisk' : x.seq \notin ackFile}, \A e, f \in Tail0 : e = f
  PROVE  CostInv'
  <1> DEFINE r == Cardinality(AtRisk)
             h == Cardinality(Holes)
  <1>2. Loaded = {x \in OnDisk : x.seq \notin ackFile} /\ Tail0 \subseteq OnDisk /\ Tail0 \cap owed = {}
    BY DiskEvents DEF FileInv, SaidInv
  <1>3. IsFiniteSet(AtRisk) /\ r \in Nat /\ r + h + Unended <= 2 * tears /\ tears \in Nat
    BY FS_CardinalityType DEF FileInv, CostInv, TypeOK
  <1>4. IsFiniteSet(Holes) /\ h \in Nat
    BY HolesFinite
  <1>5. Unended' = 2
    BY DEF Unended
  <1> HIDE DEF r, h
  <1>6. CASE ended /\ N # {}
    <2>0. PICK e \in N : N = {e} /\ at = "up" /\ e = NewOne
      BY <1>6
    <2>7. /\ e \notin OnDisk \cup pending \cup owed /\ e.id \notin log
          /\ e.seq \notin SeqsOf(OnDisk) /\ e.seq \notin ackFile /\ e.seq > From
      BY <2>0, NewOneIsNew DEF FileInv
    <2>1. Loaded' = Loaded \cup {e} /\ OnDisk' = OnDisk \cup {e} /\ Unended = 0
      BY <1>2, <1>6, <2>0, <2>7 DEF Unended
    <2>2. Holes' = Holes \ {e.seq}
      BY <2>1 DEF Holes, SeqsOf
    <2>8. Cardinality(Holes') \in Nat
      BY <1>4, <2>2, FS_RemoveElement, FS_CardinalityType
    <2>3. CASE e.seq \in counted
      <3>1. e.seq \in Holes
        BY <2>3, <2>7 DEF Holes
      <3>2. Cardinality(Holes') = h - 1
        BY <1>4, <2>2, <3>1, FS_RemoveElement DEF h
      <3>3. AtRisk' \subseteq AtRisk \cup {e}
        BY <2>1 DEF AtRisk
      <3>4. IsFiniteSet(AtRisk') /\ Cardinality(AtRisk') \in Nat /\ Cardinality(AtRisk') <= r + 1
        BY <1>3, <3>3, OneMore DEF r
      <3>5. Cardinality(AtRisk') + Cardinality(Holes') + Unended' <= 2 * tears'
        BY <1>3, <1>4, <1>5, <2>1, <3>2, <3>4
      <3> QED BY <3>4, <3>5 DEF CostInv
    <2>4. CASE e.seq \notin counted
      <3>1. AtRisk' \subseteq AtRisk
        BY <2>1, <2>4 DEF AtRisk
      <3>2. IsFiniteSet(AtRisk') /\ Cardinality(AtRisk') \in Nat /\ Cardinality(AtRisk') <= r
        BY <1>3, <3>1, FS_Subset, FS_CardinalityType DEF r
      <3>3. Cardinality(Holes') <= h
        BY <1>4, <2>2, FS_Subset DEF h
      <3>4. Cardinality(AtRisk') + Cardinality(Holes') + Unended' <= 2 * tears'
        BY <1>3, <1>4, <1>5, <2>1, <2>8, <3>2, <3>3
      <3> QED BY <3>2, <3>4 DEF CostInv
    <2> QED BY <2>3, <2>4
  <1>7. CASE ~ended \/ N = {}
    <2>1. Loaded' = Loaded \ Tail0 /\ OnDisk' = OnDisk \ Tail0
      BY <1>2, <1>7 DEF Tail0, TypeOK
    <2>2. AtRisk' \subseteq AtRisk
      BY <1>2, <2>1 DEF AtRisk
    <2>3. IsFiniteSet(AtRisk') /\ Cardinality(AtRisk') \in Nat /\ Cardinality(AtRisk') <= r
      BY <1>3, <2>2, FS_Subset, FS_CardinalityType DEF r
    <2>4. Cardinality(Holes') \in Nat /\ Cardinality(Holes') <= h + Unended /\ Unended \in Nat
      <3>1. CASE Tail0 = {}
        <4>1. Holes' = Holes
          BY <2>1, <3>1 DEF Holes, SeqsOf
        <4> QED BY <1>4, <4>1 DEF h, Unended
      <3>2. CASE Tail0 # {}
        <4>1. PICK a \in Tail0 : Tail0 = {a}
          BY <3>2
        <4>2. Holes' \subseteq Holes \cup {a.seq}
          BY <2>1, <4>1 DEF Holes, SeqsOf
        <4>3. Unended = 2
          BY <3>2 DEF Tail0, Unended
        <4>4. Cardinality(Holes') \in Nat /\ Cardinality(Holes') <= h + 1
          BY <1>4, <4>2, OneMore DEF h
        <4> QED BY <1>4, <4>3, <4>4
      <3> QED BY <3>1, <3>2
    <2>5. Cardinality(AtRisk') + Cardinality(Holes') + Unended' <= 2 * tears'
      BY <1>3, <1>4, <1>5, <2>3, <2>4
    <2> QED BY <2>3, <2>5 DEF CostInv
  <1> QED BY <1>6, <1>7 DEF TypeOK

LEMMA CreateStep == ASSUME TypeOK, FileInv, Create PROVE TypeOK' /\ FileInv'
  <1>1. /\ at = "fresh" /\ exists' = TRUE
        /\ UNCHANGED <<lines, ended, ackFile, at, pending, lastSeq, acks, linked, counted, log,
                       said, owed, crashes, tears>>
    BY DEF Create, memory, orchestrator, history
  <1>2. /\ OnDisk' = OnDisk /\ Loaded' = Loaded /\ From' = From /\ LoadedSeq' = LoadedSeq
        /\ Tail0' = Tail0 /\ Bad' = Bad /\ LinesInv' = LinesInv
    BY <1>1 DEF OnDisk, Loaded, From, LoadedSeq, Tail0, Bad, LinesInv, EventAt, Parsed
  <1>3. TypeOK'
    BY <1>1 DEF TypeOK
  <1>4. SaidInv' /\ MemoryInv'
    BY <1>1, <1>2 DEF FileInv, SaidInv, MemoryInv
  <1>5. CostInv' /\ BadInv' /\ SoundInv'
    BY <1>1, <1>2 DEF FileInv, CostInv, BadInv, SoundInv, AtRisk, Holes, Unended
  <1> QED BY <1>2, <1>3, <1>4, <1>5 DEF FileInv

LEMMA DiesSays ==
  ASSUME Dies
  PROVE  /\ crashes' = crashes + 1 /\ at' = "down" /\ pending' = {} /\ lastSeq' = 0 /\ acks' = 0
         /\ linked' = FALSE
  BY DEF Dies

\* Cut lines, when one more is.
LEMMA BadGrows ==
  ASSUME TypeOK, BadInv, NEW x, Bad' \subseteq Bad \cup {x}, tears' = tears + 1
  PROVE  BadInv'
  <1>1. IsFiniteSet(Bad)
    <2>1. IsFiniteSet(1 .. Len(lines)) /\ Bad \subseteq 1 .. Len(lines)
      BY FS_Interval DEF Bad, TypeOK
    <2> QED BY <2>1, FS_Subset
  <1>2. Cardinality(Bad') \in Nat /\ Cardinality(Bad) \in Nat /\ Cardinality(Bad') <= Cardinality(Bad) + 1
    BY <1>1, OneMore
  <1> QED BY <1>2 DEF BadInv, TypeOK

\* A write that is cut, whatever the line was.
LEMMA CutStep ==
  ASSUME TypeOK, FileInv, NEW x \in Lines, Cut(x), exists, UNCHANGED <<exists, ackFile, counted, log, owed>>,
         \/ x = Header(0) /\ lines = <<>> /\ said' = said
         \/ x = NewOne /\ at = "up" /\ said' = said + 1
  PROVE  TypeOK' /\ FileInv'
  <1>1. /\ crashes' = crashes + 1 /\ at' = "down" /\ pending' = {} /\ lastSeq' = 0 /\ acks' = 0
        /\ linked' = FALSE /\ tears' = tears + 1 /\ ended' = FALSE
    BY DiesSays DEF Cut
  <1>2. PICK part \in {Torn, x} : lines' = Behind(part)
    BY DEF Cut
  <1>3. /\ part \in Lines /\ (part.kind = "header" => lines = <<>> /\ part.seq = 0)
        /\ (part \in Events => part = NewOne /\ at = "up" /\ said' = said + 1)
        /\ (part \in Events => part.seq \notin SeqsOf(OnDisk))
    BY HeaderLine, TornLine, NewOneIsNew DEF FileInv
  <1> DEFINE N == {part} \cap Events
  <1>4. /\ lines' \in Seq(Lines) /\ lines' # <<>>
        /\ OnDisk' = IF ended THEN OnDisk \cup N ELSE OnDisk \ Tail0
        /\ From' = From /\ Tail0' \subseteq N /\ LinesInv'
        /\ Bad' \subseteq IF ended THEN Bad \cup {Len(lines) + 1} ELSE Bad
        /\ \A e, f \in Tail0 : e = f
    BY <1>1, <1>2, <1>3, WrittenLines DEF FileInv
  <1>5. said' \in Nat /\ said' >= said /\ (N # {} => said' = said + 1)
    BY <1>3 DEF TypeOK
  <1>6. TypeOK'
    <2>1. counted' \in SUBSET (1 .. said') /\ log' \in SUBSET (1 .. said')
      BY <1>5 DEF TypeOK
    <2>2. crashes' \in Nat /\ tears' \in Nat
      BY <1>1 DEF TypeOK
    <2>3. linked' \in BOOLEAN /\ ended' \in BOOLEAN /\ exists' \in BOOLEAN
      BY <1>1 DEF TypeOK
    <2> QED BY <1>1, <1>4, <1>5, <2>1, <2>2, <2>3 DEF TypeOK
  <1>7. Loaded' = {y \in OnDisk' : y.seq \notin ackFile}
    BY LoadedNext
  <1>8. \A y \in N : /\ at = "up" /\ y = NewOne /\ y.seq = lastSeq + 1 /\ y.id = said'
                     /\ y \notin OnDisk \cup pending \cup owed /\ y.id \notin log
                     /\ said' = said + 1
    BY <1>3, NewOneIsNew DEF FileInv
  <1>9. SaidInv'
    <2>1. OnDisk' \cup pending' \cup owed' \subseteq OnDisk \cup owed \cup N
      BY <1>1, <1>4
    <2>2. \A e \in OnDisk \cup owed : e.seq <= said' /\ e.id \in 1 .. said' /\ e.id <= said
      <3>1. \A e \in OnDisk \cup owed : e.seq \in Nat /\ e.id \in Nat /\ e.seq <= said /\ e.id \in 1 .. said
        BY DiskEvents DEF FileInv, SaidInv, TypeOK, Events
      <3> QED BY <1>5, <3>1 DEF TypeOK
    <2>3. \A e \in N : e.seq <= said' /\ e.id \in 1 .. said'
      BY <1>5, <1>8 DEF FileInv, SaidInv, TypeOK
    <2>4. \A e, f \in OnDisk \cup owed \cup N : e.id = f.id => e = f
      BY <1>5, <1>8, <2>2 DEF FileInv, SaidInv, TypeOK
    <2>5. \A e \in OnDisk' \cup pending' : e.id \in log' => e.seq \in counted'
      BY <1>1, <1>4, <1>8 DEF FileInv, SaidInv
    <2>6. Tail0' \cap owed' = {} /\ From' <= said' /\ lastSeq' <= said'
      BY <1>1, <1>4, <1>5, <1>8, DiskEvents DEF FileInv, SaidInv, TypeOK
    <2> QED BY <2>1, <2>2, <2>3, <2>4, <2>5, <2>6 DEF SaidInv
  <1>10. MemoryInv'
    BY <1>1, FS_EmptySet DEF FileInv, MemoryInv
  <1>11. BadInv'
    <2>1. Bad' \subseteq Bad \cup {Len(lines) + 1}
      BY <1>4
    <2> QED BY <1>1, <2>1, BadGrows DEF FileInv
  <1>12. CostInv'
    <2>1. N \in SUBSET Events /\ \A y \in N : at = "up" /\ y = NewOne
      BY <1>8
    <2> HIDE DEF N
    <2> QED BY <1>1, <1>4, <1>7, <2>1, CutCost
  <1>13. SoundInv'
    BY <1>1 DEF SoundInv
  <1> QED BY <1>4, <1>6, <1>9, <1>10, <1>11, <1>12, <1>13 DEF FileInv

LEMMA WriteHeaderStep == ASSUME TypeOK, FileInv, WriteHeader PROVE TypeOK' /\ FileInv'
  <1>1. /\ at = "fresh" /\ exists /\ UNCHANGED <<exists, ackFile, counted, log, said, owed>>
    BY DEF WriteHeader, orchestrator
  <1>2. pending = {} /\ lastSeq = 0 /\ lines = <<>> /\ ackFile = {} /\ ~linked /\ acks = Cardinality(ackFile)
    BY <1>1 DEF FileInv, MemoryInv
  <1>3. acks = 0 /\ ended
    BY <1>2, FS_EmptySet DEF FileInv, LinesInv, TypeOK
  <1>4. CASE Cut(Header(0))
    BY <1>1, <1>2, <1>4, CutStep, HeaderLine
  <1>5. CASE /\ WriteLine(Header(0)) /\ at' = NextOf(acks)
             /\ UNCHANGED <<pending, lastSeq, acks, linked, crashes, tears>>
    <2>1. lines' = Behind(Header(0)) /\ ended' /\ ended' \in BOOLEAN /\ at' = "up"
      BY <1>3, <1>5 DEF WriteLine, NextOf
    <2>2. /\ lines' \in Seq(Lines) /\ lines' # <<>> /\ OnDisk' = OnDisk /\ From' = From
          /\ Tail0' = {} /\ LinesInv' /\ Bad' \subseteq Bad
      <3>1. /\ lines' \in Seq(Lines) /\ lines' # <<>>
            /\ OnDisk' = IF ended THEN OnDisk \cup ({Header(0)} \cap Events) ELSE OnDisk \ Tail0
            /\ From' = From /\ LinesInv' /\ Bad' \subseteq Bad /\ Tail0' = {}
        BY <1>2, <2>1, HeaderLine, WrittenLines DEF FileInv
      <3> QED BY <1>3, <3>1, HeaderLine
    <2>3. TypeOK'
      BY <1>1, <1>5, <2>1, <2>2 DEF TypeOK
    <2>4. Loaded' = Loaded
      BY <1>1, <2>2, DiskEvents, LoadedNext
    <2>5. SaidInv'
      BY <1>1, <1>5, <2>2, SaidKept DEF FileInv, SaidInv
    <2>6. MemoryInv'
      BY <1>1, <1>2, <1>3, <1>5, <2>1, <2>2, <2>4, FileAssumption DEF FileInv, MemoryInv
    <2>7. BadInv'
      BY <1>5, <2>2, BadKept DEF FileInv, TypeOK
    <2>8. CostInv'
      <3>1. AtRisk' = AtRisk /\ Holes' = Holes
        BY <1>1, <1>5, <2>2, <2>4 DEF AtRisk, Holes
      <3> QED BY <1>5, <2>1, <3>1, CostKept DEF FileInv
    <2>9. SoundInv'
      <3>1. OnDisk = {} /\ From = 0
        BY <1>2 DEF OnDisk, EventAt, From
      <3>2. LoadedSeq' = 0
        <4>1. From' = 0 /\ OnDisk' = {}
          BY <2>2, <3>1
        <4> QED BY <2>2, <4>1, CountIs
      <3>3. Loaded' = {}
        BY <2>4, <3>1, DiskEvents
      <3> QED BY <1>2, <1>5, <3>2, <3>3 DEF SoundInv
    <2> QED BY <2>2, <2>3, <2>5, <2>6, <2>7, <2>8, <2>9 DEF FileInv
  <1> QED BY <1>4, <1>5 DEF WriteHeader

LEMMA CrashStep == ASSUME TypeOK, FileInv, Crash PROVE TypeOK' /\ FileInv'
  <1>1. /\ crashes' = crashes + 1 /\ at' = "down" /\ pending' = {} /\ lastSeq' = 0 /\ acks' = 0
        /\ linked' = FALSE
        /\ UNCHANGED <<disk, lines, ended, exists, ackFile, counted, log, said, owed, tears>>
    BY DiesSays DEF Crash, disk, orchestrator
  <1>2. /\ OnDisk' = OnDisk /\ Loaded' = Loaded /\ From' = From
        /\ Tail0' = Tail0 /\ Bad' = Bad /\ LinesInv' = LinesInv
    BY <1>1, DiskKept
  <1>3. TypeOK'
    <2>1. crashes' \in Nat
      BY <1>1 DEF TypeOK
    <2>2. linked' \in BOOLEAN
      BY <1>1
    <2> QED BY <1>1, <2>1, <2>2 DEF TypeOK
  <1>4. SaidInv'
    BY <1>1, <1>2, SaidKept DEF FileInv, SaidInv, TypeOK
  <1>5. MemoryInv'
    BY <1>1, <1>2, FS_EmptySet DEF FileInv, MemoryInv
  <1>6. CostInv'
    <2>1. Holes' = Holes /\ AtRisk' \subseteq AtRisk
      BY <1>1, <1>2 DEF Holes, AtRisk
    <2> QED BY <1>1, <2>1, CostKept DEF FileInv, TypeOK
  <1>7. SoundInv' /\ BadInv'
    BY <1>1, <1>2 DEF FileInv, SoundInv, BadInv
  <1> QED BY <1>2, <1>3, <1>4, <1>5, <1>6, <1>7 DEF FileInv

LEMMA HelloStep == ASSUME TypeOK, FileInv, Hello PROVE TypeOK' /\ FileInv'
  <1>1. /\ at = "up" /\ linked' = TRUE /\ counted' = {n \in counted : n <= lastSeq}
        /\ UNCHANGED <<disk, lines, ended, exists, ackFile, at, pending, lastSeq, acks, log, said,
                       owed, crashes, tears>>
    BY DEF Hello, disk, history
  <1>2. /\ OnDisk' = OnDisk /\ Loaded' = Loaded /\ From' = From /\ LoadedSeq' = LoadedSeq
        /\ Tail0' = Tail0 /\ Bad' = Bad /\ LinesInv' = LinesInv
    BY <1>1, DiskKept
  <1>3. TypeOK'
    BY <1>1 DEF TypeOK
  <1>4. SaidInv'
    <2>1. \A e \in OnDisk \cup pending : e.seq <= lastSeq
      BY <1>1 DEF FileInv, MemoryInv
    <2> QED BY <1>1, <1>2, <2>1, SaidKept DEF FileInv, SaidInv
  <1>5. MemoryInv'
    BY <1>1, <1>2 DEF FileInv, MemoryInv
  <1>6. CostInv'
    <2>1. Holes' \subseteq Holes /\ AtRisk' \subseteq AtRisk
      BY <1>1, <1>2 DEF Holes, AtRisk
    <2> QED BY <1>1, <2>1, CostKept DEF FileInv, TypeOK
  <1>7. SoundInv' /\ BadInv'
    BY <1>1, <1>2 DEF FileInv, SoundInv, BadInv
  <1> QED BY <1>2, <1>3, <1>4, <1>5, <1>6, <1>7 DEF FileInv

LEMMA SayStep == ASSUME TypeOK, FileInv, Say PROVE TypeOK' /\ FileInv'
  <1>1. /\ at = "up" /\ said' = said + 1 /\ exists
        /\ UNCHANGED <<exists, ackFile, counted, log>>
    BY DEF Say, orchestrator, FileInv, MemoryInv
  <1>2. /\ NewOne \in Events /\ NewOne \in Lines /\ NewOne # Torn /\ NewOne.kind = "event"
        /\ NewOne.seq = lastSeq + 1 /\ NewOne.id = said + 1
        /\ NewOne \notin OnDisk \cup pending \cup owed
        /\ NewOne.id \notin log
        /\ NewOne.seq \notin SeqsOf(OnDisk) /\ NewOne.seq \notin ackFile /\ NewOne.seq > From
    BY <1>1, NewOneIsNew DEF FileInv
  <1>3. CASE Cut(NewOne) /\ UNCHANGED owed
    BY <1>1, <1>2, <1>3, CutStep
  <1>4. CASE /\ lastSeq' = lastSeq + 1 /\ pending' = pending \cup {NewOne}
             /\ WriteLine(NewOne) /\ owed' = owed \cup {NewOne}
             /\ UNCHANGED <<at, acks, linked, crashes, tears>>
    <2>1. lines' = Behind(NewOne) /\ ended' /\ ended' \in BOOLEAN
      BY <1>4 DEF WriteLine
    <2>2. /\ lines' \in Seq(Lines) /\ lines' # <<>> /\ From' = From /\ Tail0' = {} /\ LinesInv'
          /\ OnDisk' = IF ended THEN OnDisk \cup ({NewOne} \cap Events) ELSE OnDisk \ Tail0
          /\ Bad' \subseteq Bad /\ \A e, f \in Tail0 : e = f
      BY <1>2, <2>1, WrittenLines DEF FileInv
    <2>3. OnDisk' = IF ended THEN OnDisk \cup {NewOne} ELSE OnDisk \ Tail0
      BY <1>2, <2>2
    <2>4. OnDisk' \subseteq OnDisk \cup {NewOne}
      BY <2>3
    <2>5. TypeOK'
      <3>1. lastSeq' \in Nat /\ said' \in Nat /\ counted' \subseteq 1 .. said' /\ log' \subseteq 1 .. said'
        BY <1>1, <1>4 DEF TypeOK
      <3>2. pending' \subseteq Events /\ owed' \subseteq Events
        BY <1>2, <1>4 DEF TypeOK
      <3> QED BY <1>1, <1>4, <2>1, <2>2, <3>1, <3>2 DEF TypeOK
    <2>6. SaidInv'
      <3>1. \A e \in OnDisk \cup pending \cup owed : e.seq <= said' /\ e.id \in 1 .. said' /\ e.id <= said
        <4>1. \A e \in OnDisk \cup pending \cup owed : e.seq \in Nat /\ e.id \in Nat /\ e.seq <= said
                                                   /\ e.id \in 1 .. said
          BY DiskEvents DEF FileInv, SaidInv, TypeOK, Events
        <4> QED BY <1>1, <4>1 DEF TypeOK
      <3>2. NewOne.seq <= said' /\ NewOne.id \in 1 .. said' /\ NewOne.id = said + 1
        BY <1>1, <1>2 DEF FileInv, SaidInv, TypeOK
      <3>3. \A e, f \in OnDisk \cup pending \cup owed \cup {NewOne} : e.id = f.id => e = f
        BY <3>1, <3>2 DEF FileInv, SaidInv, TypeOK
      <3>4. OnDisk' \cup pending' \cup owed' \subseteq OnDisk \cup pending \cup owed \cup {NewOne}
        BY <1>4, <2>4
      <3>5. \A e \in OnDisk' \cup pending' : e.id \in log' => e.seq \in counted'
        BY <1>1, <1>2, <1>4, <2>4 DEF FileInv, SaidInv
      <3>6. From' <= said' /\ lastSeq' <= said'
        BY <1>1, <1>4, <2>2, DiskEvents DEF FileInv, SaidInv, TypeOK
      <3> QED BY <2>2, <3>1, <3>2, <3>3, <3>4, <3>5, <3>6 DEF SaidInv
    <2>7. MemoryInv'
      <3>1. Loaded' \subseteq pending'
        <4>1. \A e \in OnDisk : e.seq \notin ackFile => e \in pending
          BY <1>1, DiskEvents DEF FileInv, MemoryInv
        <4> QED BY <1>1, <1>4, <2>4, <4>1, LoadedNext
      <3>2. \A e \in OnDisk' \cup pending' : e.seq <= lastSeq'
        <4>1. \A e \in OnDisk \cup pending : e.seq \in Nat /\ e.seq <= lastSeq
          BY <1>1, DiskEvents DEF FileInv, MemoryInv, TypeOK, Events
        <4> QED BY <1>2, <1>4, <2>4, <4>1 DEF TypeOK
      <3>3. From' <= lastSeq' /\ \A n \in ackFile' : n <= lastSeq'
        BY <1>1, <1>4, <2>2, DiskEvents DEF FileInv, MemoryInv, TypeOK
      <3>4. \A e, f \in pending' : e.seq = f.seq => e = f
        <4>1. \A e \in pending : e.seq \in Nat /\ e.seq <= lastSeq /\ e.seq # lastSeq + 1
          BY DEF FileInv, MemoryInv, TypeOK, Events
        <4> QED BY <1>2, <1>4, <4>1 DEF FileInv, MemoryInv
      <3>5. \A e \in pending' : e.seq \notin ackFile'
        BY <1>1, <1>2, <1>4 DEF FileInv, MemoryInv
      <3>6. IsFiniteSet(pending')
        BY <1>4, FS_AddElement DEF FileInv, MemoryInv
      <3>7. linked' => \A n \in counted' : n <= lastSeq'
        <4>1. lastSeq \in Nat /\ counted \subseteq Nat
          BY DEF TypeOK
        <4> QED BY <1>1, <1>4, <4>1 DEF FileInv, MemoryInv
      <3> QED BY <1>1, <1>4, <3>1, <3>2, <3>3, <3>4, <3>5, <3>6, <3>7 DEF FileInv, MemoryInv
    <2>8. BadInv'
      BY <1>4, <2>2, BadKept DEF FileInv, TypeOK
    <2>9. CostInv'
      BY <1>1, <1>4, <2>1, <2>2, <2>3, LoadedNext, SayCost
    <2>10. SoundInv'
      <3> SUFFICES ASSUME tears' = 0 PROVE lastSeq' = LoadedSeq' /\ pending' = Loaded'
        BY DEF SoundInv
      <3>1. ended
        <4>1. Cardinality(AtRisk) \in Nat /\ Cardinality(Holes) \in Nat
          BY FS_CardinalityType, HolesFinite DEF FileInv, CostInv
        <4>2. Cardinality(AtRisk) + Cardinality(Holes) + Unended <= 0
          BY <1>4 DEF FileInv, CostInv
        <4>3. Unended # 2
          BY <4>1, <4>2
        <4> QED BY <4>3 DEF Unended
      <3>2. OnDisk' = OnDisk \cup {NewOne}
        BY <2>3, <3>1
      <3>3. pending = Loaded
        BY <1>1, <1>4 DEF FileInv, SoundInv
      <3>4. Loaded' = Loaded \cup {NewOne}
        BY <1>1, <1>2, <3>2, LoadedNext, DiskEvents
      <3>5. lastSeq' \in SeqsOf(OnDisk')
        BY <1>2, <1>4, <3>2 DEF SeqsOf
      <3>6. From' <= lastSeq' /\ \A e \in OnDisk' : e.seq <= lastSeq'
        BY <1>1, <1>4, <2>7 DEF MemoryInv
      <3>7. LoadedSeq' = lastSeq'
        <4> DEFINE n == lastSeq + 1
        <4>1. n \in Nat /\ n = lastSeq'
          BY <1>4 DEF TypeOK
        <4>2. n \in {0, From'} \cup SeqsOf(OnDisk') /\ From' <= n /\ \A e \in OnDisk' : e.seq <= n
          BY <3>5, <3>6, <4>1
        <4> HIDE DEF n
        <4> QED BY <2>2, <4>1, <4>2, CountIs
      <3> QED BY <1>4, <3>3, <3>4, <3>7
    <2> QED BY <2>2, <2>5, <2>6, <2>7, <2>8, <2>9, <2>10 DEF FileInv
  <1> QED BY <1>1, <1>3, <1>4 DEF Say, NewOne

LEMMA MoveStep == ASSUME TypeOK, FileInv, Move PROVE TypeOK' /\ FileInv'
  <1>1. /\ at = "compact" /\ MovesIn /\ ended' /\ at' = "moved"
        /\ UNCHANGED <<exists, ackFile, pending, lastSeq, acks, linked, counted, log, said, owed,
                       crashes, tears>>
    BY DEF Move, MovesIn, orchestrator, history
  <1>2. /\ lines' \in Seq(Lines) /\ lines' # <<>> /\ OnDisk' = pending /\ From' = lastSeq
        /\ LinesInv' /\ Bad' = {} /\ Tail0' = {}
    BY <1>1, CompactedLines DEF FileInv
  <1>3. Loaded' = pending
    BY <1>1, <1>2, LoadedNext DEF FileInv, MemoryInv
  <1>4. ended' = TRUE
    BY DEF Move
  <1>5. TypeOK'
    BY <1>1, <1>2, <1>4 DEF TypeOK
  <1>6. SaidInv'
    BY <1>1, <1>2, SaidKept DEF FileInv, SaidInv
  <1>7. /\ Loaded \subseteq pending /\ From <= lastSeq /\ \A e \in OnDisk : e.seq <= lastSeq
        /\ \A e \in pending : e.seq <= lastSeq
    BY <1>1 DEF FileInv, MemoryInv
  <1>8. MemoryInv'
    <2>1. lastSeq \in Nat /\ lastSeq <= lastSeq /\ exists
      BY <1>1 DEF TypeOK, FileInv, MemoryInv
    <2> QED BY <1>1, <1>2, <1>3, <1>4, <1>7, <2>1 DEF FileInv, MemoryInv
  <1>9. BadInv'
    BY <1>1, <1>2, FS_EmptySet DEF BadInv, TypeOK
  <1>10. CostInv'
    <2>1. AtRisk' \subseteq AtRisk
      BY <1>1, <1>3, <1>7 DEF AtRisk
    <2>2. Holes' \subseteq Holes
      <3>1. From \in Nat /\ lastSeq \in Nat /\ counted \subseteq Nat /\ \A e \in OnDisk : e.seq \in Nat
        BY DiskEvents DEF TypeOK
      <3>2. Holes' \subseteq {n \in counted : n > lastSeq}
        BY <1>1, <1>2 DEF Holes
      <3>3. \A n \in counted : n > lastSeq => n > From /\ \A e \in OnDisk : e.seq # n
        BY <1>7, <3>1
      <3> QED BY <3>2, <3>3 DEF Holes, SeqsOf
    <2> QED BY <1>1, <1>4, <2>1, <2>2, CostKept DEF FileInv
  <1>11. SoundInv'
    <2>1. LoadedSeq' = lastSeq
      BY <1>2, <1>7, CountIs DEF TypeOK
    <2> QED BY <1>1, <1>3, <2>1 DEF SoundInv
  <1> QED BY <1>2, <1>5, <1>6, <1>8, <1>9, <1>10, <1>11 DEF FileInv

LEMMA TruncateStep == ASSUME TypeOK, FileInv, Truncate PROVE TypeOK' /\ FileInv'
  <1>1. /\ at = "moved" /\ ackFile' = {} /\ acks' = 0 /\ at' = "up"
        /\ UNCHANGED <<lines, ended, exists, pending, lastSeq, linked, counted, log, said, owed,
                       crashes, tears>>
    BY DEF Truncate, orchestrator, history
  <1>2. /\ OnDisk' = OnDisk /\ From' = From /\ LoadedSeq' = LoadedSeq
        /\ Tail0' = Tail0 /\ Bad' = Bad /\ LinesInv' = LinesInv
    BY <1>1 DEF OnDisk, From, LoadedSeq, Tail0, Bad, LinesInv, EventAt, Parsed
  <1>3. OnDisk = pending /\ From = lastSeq
    BY <1>1 DEF FileInv, MemoryInv
  <1>4. Loaded' = Loaded /\ Loaded = pending
    BY <1>1, <1>2, <1>3, LoadedNext, DiskEvents DEF FileInv, MemoryInv
  <1>5. TypeOK'
    BY <1>1 DEF TypeOK
  <1>6. SaidInv'
    BY <1>1, <1>2, SaidKept DEF FileInv, SaidInv
  <1>7. MemoryInv'
    BY <1>1, <1>2, <1>4, FS_EmptySet, FileAssumption DEF FileInv, MemoryInv
  <1>8. CostInv'
    <2>1. Holes' = Holes /\ AtRisk' = AtRisk
      BY <1>1, <1>2, <1>4 DEF Holes, AtRisk
    <2> QED BY <1>1, <2>1, CostKept DEF FileInv, TypeOK
  <1>9. SoundInv' /\ BadInv'
    BY <1>1, <1>2, <1>4 DEF FileInv, SoundInv, BadInv
  <1> QED BY <1>2, <1>5, <1>6, <1>7, <1>8, <1>9 DEF FileInv

LEMMA TakeStep == ASSUME TypeOK, FileInv, NEW e \in pending, Take(e) PROVE TypeOK' /\ FileInv'
  <1>1. /\ at = "up" /\ linked /\ e.seq \notin counted
        /\ counted' = counted \cup {e.seq} /\ log' = log \cup {e.id}
        /\ UNCHANGED <<disk, lines, ended, exists, ackFile, at, pending, lastSeq, acks, linked, said,
                       owed, crashes, tears>>
    BY DEF Take, disk, memory, history
  <1>2. /\ OnDisk' = OnDisk /\ Loaded' = Loaded /\ From' = From /\ LoadedSeq' = LoadedSeq
        /\ Tail0' = Tail0 /\ Bad' = Bad /\ LinesInv' = LinesInv
    BY <1>1, DiskKept
  <1>3. e.seq \in 1 .. said /\ e.id \in 1 .. said /\ e.seq <= lastSeq
    BY DEF TypeOK, FileInv, SaidInv, MemoryInv, Events
  <1>4. e.id \notin log
    BY <1>1 DEF FileInv, SaidInv
  <1>5. TypeOK'
    BY <1>1, <1>3 DEF TypeOK
  <1>6. SaidInv'
    <2>1. \A f \in OnDisk \cup pending : f.id = e.id => f.seq = e.seq
      BY DEF FileInv, SaidInv
    <2> QED BY <1>1, <1>2, <2>1, SaidKept DEF FileInv, SaidInv
  <1>7. MemoryInv'
    BY <1>1, <1>2, <1>3 DEF FileInv, MemoryInv
  <1>8. CostInv'
    <2>1. /\ IsFiniteSet(AtRisk) /\ Cardinality(AtRisk) \in Nat /\ IsFiniteSet(Holes)
          /\ Cardinality(Holes) \in Nat
          /\ Cardinality(AtRisk) + Cardinality(Holes) + Unended <= 2 * tears
      BY FS_CardinalityType, HolesFinite DEF FileInv, CostInv
    <2>2. AtRisk' \subseteq AtRisk \ {e}
      <3> SUFFICES ASSUME NEW x \in AtRisk' PROVE x \in AtRisk \ {e}
        OBVIOUS
      <3>1. /\ x \in owed \cup pending \cup Loaded /\ x.id \notin log /\ x.id # e.id
            /\ (x \in Loaded => x.seq \in counted \cup {e.seq})
        BY <1>1, <1>2 DEF AtRisk
      <3>2. x \in Loaded => x.seq # e.seq
        BY <1>1, <3>1 DEF FileInv, MemoryInv
      <3> QED BY <3>1, <3>2 DEF AtRisk
    <2>3. Holes' \subseteq Holes \cup {e.seq}
      BY <1>1, <1>2 DEF Holes
    <2>4. CASE e \in AtRisk
      <3>1. /\ IsFiniteSet(AtRisk \ {e}) /\ Cardinality(AtRisk \ {e}) = Cardinality(AtRisk) - 1
        BY <2>1, <2>4, FS_RemoveElement
      <3>2. IsFiniteSet(AtRisk') /\ Cardinality(AtRisk') <= Cardinality(AtRisk \ {e}) /\ Cardinality(AtRisk') \in Nat
        BY <2>2, <3>1, FS_Subset, FS_CardinalityType
      <3>3. Cardinality(Holes') \in Nat /\ Cardinality(Holes') <= Cardinality(Holes) + 1
        BY <2>1, <2>3, OneMore
      <3>4. Unended' = Unended /\ Unended \in Nat /\ tears' = tears /\ tears \in Nat
        BY <1>1 DEF Unended, TypeOK
      <3>5. Cardinality(AtRisk') + Cardinality(Holes') + Unended' <= 2 * tears'
        BY <2>1, <3>1, <3>2, <3>3, <3>4
      <3> QED BY <3>2, <3>5 DEF CostInv
    <2>5. CASE e \notin AtRisk
      <3>1. e \in Loaded
        BY <1>4, <2>5 DEF AtRisk
      <3>2. e.seq \in SeqsOf(OnDisk)
        BY <3>1, DiskEvents DEF SeqsOf
      <3>3. Holes' \subseteq Holes
        BY <1>1, <1>2, <3>2 DEF Holes
      <3>4. AtRisk' \subseteq AtRisk
        BY <2>2
      <3> QED BY <1>1, <3>3, <3>4, CostKept DEF FileInv, TypeOK
    <2> QED BY <2>4, <2>5
  <1>9. SoundInv' /\ BadInv'
    BY <1>1, <1>2 DEF FileInv, SoundInv, BadInv
  <1> QED BY <1>2, <1>5, <1>6, <1>7, <1>8, <1>9 DEF FileInv

LEMMA AckedStep == ASSUME TypeOK, FileInv, NEW e \in pending, Acked(e) PROVE TypeOK' /\ FileInv'
  <1>1. /\ at = "up" /\ linked /\ e.seq \in counted /\ exists
        /\ UNCHANGED <<lines, ended, exists, counted, log, said, owed>>
    BY DEF Acked, orchestrator, FileInv, MemoryInv
  <1>2. /\ OnDisk' = OnDisk /\ From' = From /\ LoadedSeq' = LoadedSeq
        /\ Tail0' = Tail0 /\ Bad' = Bad /\ LinesInv' = LinesInv
    BY <1>1 DEF OnDisk, From, LoadedSeq, Tail0, Bad, LinesInv, EventAt, Parsed
  <1>3. e.seq \in Nat /\ e \in Events /\ e.seq <= lastSeq /\ e.seq \notin ackFile /\ IsFiniteSet(ackFile)
        /\ acks = Cardinality(ackFile) /\ acks \in Nat
    BY <1>1 DEF TypeOK, FileInv, MemoryInv, Events
  <1>4. CASE /\ pending' = {f \in pending : f.seq # e.seq}
             /\ ackFile' = ackFile \cup {e.seq}
             /\ acks' = acks + 1
             /\ at' = (IF acks' >= Threshold THEN "compact" ELSE "up")
             /\ UNCHANGED <<lastSeq, linked, crashes, tears>>
    <2>1. pending' \subseteq pending /\ acks' \in Nat /\ at' \in {"compact", "up"}
          /\ (at' = "up" => acks' < Threshold)
      BY <1>3, <1>4, FileAssumption
    <2>2. Loaded' = {x \in Loaded : x.seq # e.seq}
      BY <1>2, <1>4, LoadedNext, DiskEvents
    <2>3. TypeOK'
      BY <1>1, <1>3, <1>4, <2>1 DEF TypeOK
    <2>4. SaidInv'
      BY <1>1, <1>2, <1>4, <2>1, SaidKept DEF FileInv, SaidInv
    <2>5. MemoryInv'
      <3>1. Loaded' \subseteq pending'
        BY <1>1, <1>4, <2>2 DEF FileInv, MemoryInv
      <3>2. IsFiniteSet(pending')
        BY <2>1, FS_Subset DEF FileInv, MemoryInv
      <3>3. IsFiniteSet(ackFile') /\ Cardinality(ackFile') = acks'
        BY <1>3, <1>4, FS_AddElement
      <3>4. \A n \in ackFile' : n <= lastSeq
        BY <1>1, <1>3, <1>4 DEF FileInv, MemoryInv
      <3> QED BY <1>1, <1>2, <1>4, <2>1, <3>1, <3>2, <3>3, <3>4 DEF FileInv, MemoryInv
    <2>6. CostInv'
      <3>1. Holes' = Holes
        BY <1>1, <1>2 DEF Holes
      <3>2. AtRisk' \subseteq AtRisk
        <4>1. \A x \in Loaded : x \in Loaded' \/ x.seq \in counted
          BY <1>1, <2>2
        <4> QED BY <1>1, <2>1, <2>2, <4>1 DEF AtRisk
      <3> QED BY <1>1, <1>4, <3>1, <3>2, CostKept DEF FileInv, TypeOK
    <2>7. SoundInv'
      BY <1>1, <1>2, <1>4, <2>2 DEF FileInv, SoundInv
    <2>8. BadInv'
      BY <1>2, <1>4 DEF FileInv, BadInv
    <2> QED BY <1>2, <2>3, <2>4, <2>5, <2>6, <2>7, <2>8 DEF FileInv
  <1>5. CASE /\ Dies /\ tears' = tears + 1 /\ \E n \in 1 .. e.seq : ackFile' = ackFile \cup {n}
    <2>1. PICK n \in 1 .. e.seq : ackFile' = ackFile \cup {n}
      BY <1>5
    <2>2. /\ crashes' = crashes + 1 /\ at' = "down" /\ pending' = {} /\ lastSeq' = 0 /\ acks' = 0
          /\ linked' = FALSE /\ tears' = tears + 1
      BY <1>5, DiesSays
    <2>3. Loaded' = {x \in Loaded : x.seq # n}
      BY <1>2, <2>1, LoadedNext, DiskEvents
    <2>4. TypeOK'
      <3>1. crashes' \in Nat /\ tears' \in Nat /\ ackFile' \in SUBSET Nat
        BY <1>3, <2>1, <2>2 DEF TypeOK
      <3>2. linked' \in BOOLEAN
        BY <2>2
      <3> QED BY <1>1, <2>2, <3>1, <3>2 DEF TypeOK
    <2>5. SaidInv'
      BY <1>1, <1>2, <2>2, SaidKept DEF FileInv, SaidInv, TypeOK
    <2>6. MemoryInv'
      BY <1>1, <1>3, <2>1, <2>2, FS_EmptySet, FS_AddElement DEF FileInv, MemoryInv
    <2>7. CostInv'
      <3>1. /\ IsFiniteSet(AtRisk) /\ Cardinality(AtRisk) \in Nat /\ Cardinality(Holes) \in Nat
            /\ Cardinality(AtRisk) + Cardinality(Holes) + Unended <= 2 * tears
        BY FS_CardinalityType, HolesFinite DEF FileInv, CostInv
      <3>2. Holes' = Holes
        BY <1>1, <1>2 DEF Holes
      <3>3. \E a : AtRisk' \subseteq AtRisk \cup {a}
        <4>1. CASE \E x \in Loaded : x.seq = n
          <5>1. PICK x \in Loaded : x.seq = n
            BY <4>1
          <5>2. \A y \in Loaded : y.seq = n => y = x
            BY <1>1, <5>1 DEF FileInv, MemoryInv
          <5>3. AtRisk' \subseteq AtRisk \cup {x}
            BY <1>1, <2>2, <2>3, <5>2 DEF AtRisk
          <5> QED BY <5>3
        <4>2. CASE ~ \E x \in Loaded : x.seq = n
          <5>1. AtRisk' \subseteq AtRisk
            BY <1>1, <2>2, <2>3, <4>2 DEF AtRisk
          <5> QED BY <5>1
        <4> QED BY <4>1, <4>2
      <3>4. IsFiniteSet(AtRisk') /\ Cardinality(AtRisk') \in Nat /\ Cardinality(AtRisk') <= Cardinality(AtRisk) + 1
        BY <3>1, <3>3, OneMore
      <3>5. Unended' = Unended /\ Unended \in Nat /\ tears \in Nat
        BY <1>1 DEF Unended, TypeOK
      <3>6. Cardinality(AtRisk') + Cardinality(Holes') + Unended' <= 2 * tears'
        BY <2>2, <3>1, <3>2, <3>4, <3>5
      <3> QED BY <3>4, <3>6 DEF CostInv
    <2>8. SoundInv'
      BY <2>2 DEF SoundInv
    <2>9. BadInv'
      <3>1. tears' \in Nat /\ tears' >= tears
        BY <2>2 DEF TypeOK
      <3> QED BY <1>2, <3>1, BadKept DEF FileInv
    <2> QED BY <1>2, <2>4, <2>5, <2>6, <2>7, <2>8, <2>9 DEF FileInv
  <1> QED BY <1>4, <1>5 DEF Acked

LEMMA InitFiles == Init => TypeOK /\ FileInv
  <1> SUFFICES ASSUME Init PROVE TypeOK /\ FileInv
    OBVIOUS
  <1>1. /\ lines = <<>> /\ ended = TRUE /\ exists = FALSE /\ ackFile = {} /\ at = "down"
        /\ pending = {} /\ lastSeq = 0 /\ acks = 0 /\ linked = FALSE /\ counted = {} /\ log = {}
        /\ said = 0 /\ owed = {} /\ crashes = 0 /\ tears = 0
    BY DEF Init
  <1>2. TypeOK
    <2>1. lines \in Seq(Lines)
      BY <1>1
    <2>2. counted \in SUBSET (1 .. said) /\ log \in SUBSET (1 .. said) /\ ackFile \in SUBSET Nat
          /\ pending \in SUBSET Events /\ owed \in SUBSET Events
      BY <1>1
    <2>3. ended \in BOOLEAN /\ exists \in BOOLEAN /\ linked \in BOOLEAN
      BY <1>1
    <2>4. lastSeq \in Nat /\ acks \in Nat /\ said \in Nat /\ crashes \in Nat /\ tears \in Nat
      BY <1>1
    <2>5. at \in {"down", "fresh", "compact", "moved", "up"}
      BY <1>1
    <2> QED BY <2>1, <2>2, <2>3, <2>4, <2>5 DEF TypeOK
  <1>3. OnDisk = {} /\ From = 0 /\ Bad = {} /\ Tail0 = {} /\ EventAt = {} /\ Loaded = {}
    BY <1>1 DEF OnDisk, EventAt, From, Bad, Tail0, Loaded, Parsed
  <1>4. AtRisk = {} /\ Holes = {} /\ Unended = 0
    BY <1>1, <1>3 DEF AtRisk, Holes, Unended
  <1>5. LinesInv /\ SaidInv
    BY <1>1, <1>3 DEF LinesInv, SaidInv
  <1>6. MemoryInv
    BY <1>1, <1>3, FS_EmptySet DEF MemoryInv
  <1>7. BadInv /\ CostInv /\ SoundInv
    BY <1>1, <1>3, <1>4, FS_EmptySet DEF BadInv, CostInv, SoundInv
  <1> QED BY <1>2, <1>5, <1>6, <1>7 DEF FileInv

LEMMA StutterFiles == ASSUME TypeOK, FileInv, UNCHANGED vars PROVE TypeOK' /\ FileInv'
  <1>1. UNCHANGED <<lines, ended, exists, ackFile, at, pending, lastSeq, acks, linked, counted, log,
                    said, owed, crashes, tears>>
    BY DEF vars
  <1>2. /\ OnDisk' = OnDisk /\ Loaded' = Loaded /\ From' = From /\ LoadedSeq' = LoadedSeq
        /\ Tail0' = Tail0 /\ Bad' = Bad /\ LinesInv' = LinesInv
    BY <1>1, DiskKept DEF disk
  <1>3. TypeOK' /\ SaidInv' /\ MemoryInv'
    BY <1>1, <1>2 DEF FileInv, TypeOK, SaidInv, MemoryInv
  <1>4. CostInv' /\ BadInv' /\ SoundInv'
    BY <1>1, <1>2 DEF FileInv, CostInv, BadInv, SoundInv, AtRisk, Holes, Unended
  <1> QED BY <1>2, <1>3, <1>4 DEF FileInv

\* What relates the files, the memory of the process and the orchestrator's count holds in every
\* state, whatever died and whatever was cut.
THEOREM FileInvariant == Spec => [](TypeOK /\ FileInv)
  <1>1. TypeOK /\ FileInv /\ [Next]_vars => (TypeOK /\ FileInv)'
    BY LoadStep, CreateStep, WriteHeaderStep, SayStep, MoveStep, TruncateStep, CrashStep, HelloStep,
       AckedStep, TakeStep, StutterFiles DEF Next
  <1> QED BY <1>1, InitFiles, PTL DEF Spec

-----------------------------------------------------------------------------
\* The lines are the first, the cut ones and the events; the events are pending or acked.
LEMMA BoundOfFiles ==
  ASSUME TypeOK, FileInv
  PROVE  FilesBounded
  <1> SUFFICES ASSUME at = "up"
               PROVE  acks < Threshold /\ Len(lines) <= 1 + Cardinality(pending) + acks + tears
    BY DEF FilesBounded
  <1>1. acks < Threshold /\ acks = Cardinality(ackFile) /\ Loaded \subseteq pending
        /\ IsFiniteSet(pending) /\ IsFiniteSet(ackFile)
    BY DEF FileInv, MemoryInv
  <1> DEFINE n == Len(lines)
             Q == SeqsOf(pending) \cup ackFile
  <1>2. n \in Nat /\ IsFiniteSet(1 .. n) /\ Cardinality(1 .. n) = n
    BY FS_Interval DEF TypeOK
  <1>3. IsFiniteSet(EventAt) /\ IsFiniteSet(Bad)
    BY <1>2, FS_Subset DEF EventAt, Bad
  <1>4. 1 .. n \subseteq (EventAt \cup Bad) \cup {1}
    <2> SUFFICES ASSUME NEW i \in 1 .. n, i # 1, i \notin EventAt, i \notin Bad PROVE FALSE
      OBVIOUS
    <2>1. lines[i].kind \in {"event", "header", "torn"}
      BY LineKinds DEF TypeOK
    <2> QED BY <2>1 DEF EventAt, Bad, FileInv, LinesInv
  <1>5. IsFiniteSet(SeqsOf(pending)) /\ Cardinality(SeqsOf(pending)) <= Cardinality(pending)
    <2>1. [e \in pending |-> e.seq] \in Surjection(pending, SeqsOf(pending))
      BY DEF Surjection, SeqsOf
    <2> QED BY <1>1, <2>1, FS_Surjection
  <1>6. IsFiniteSet(Q) /\ Cardinality(Q) <= Cardinality(SeqsOf(pending)) + Cardinality(ackFile)
    BY <1>1, <1>5, UnionSize
  <1>7. Cardinality(EventAt) <= Cardinality(Q)
    <2> DEFINE f == [i \in EventAt |-> lines[i].seq]
    <2>1. \A i \in EventAt : lines[i].seq \in Q
      <3> SUFFICES ASSUME NEW i \in EventAt, lines[i].seq \notin ackFile PROVE lines[i].seq \in SeqsOf(pending)
        OBVIOUS
      <3>1. lines[i] \in pending
        BY <1>1, DiskEvents
      <3> QED BY <3>1 DEF SeqsOf
    <2>2. \A i, j \in EventAt : f[i] = f[j] => i = j
      BY DEF FileInv, LinesInv
    <2> HIDE DEF Q
    <2>3. f \in Injection(EventAt, Q)
      BY <2>1, <2>2 DEF Injection, IsInjective
    <2> HIDE DEF f
    <2> QED BY <1>6, <2>3, FS_Injection
  <1> HIDE DEF Q
  <1>8. /\ IsFiniteSet(EventAt \cup Bad)
        /\ Cardinality(EventAt \cup Bad) <= Cardinality(EventAt) + Cardinality(Bad)
        /\ Cardinality(EventAt \cup Bad) \in Nat
    BY <1>3, UnionSize
  <1>9. n <= Cardinality(EventAt \cup Bad) + 1
    BY <1>2, <1>4, <1>8, OneMore
  <1>10. /\ Cardinality(EventAt) \in Nat /\ Cardinality(Bad) \in Nat /\ Cardinality(Q) \in Nat
         /\ Cardinality(SeqsOf(pending)) \in Nat /\ Cardinality(pending) \in Nat /\ acks \in Nat
         /\ tears \in Nat /\ Cardinality(Bad) <= tears
    BY <1>1, <1>3, <1>5, <1>6, FS_CardinalityType DEF FileInv, BadInv, TypeOK
  <1> HIDE DEF n
  <1>11. n <= 1 + Cardinality(pending) + acks + tears
    BY <1>1, <1>2, <1>5, <1>6, <1>7, <1>8, <1>9, <1>10
  <1> QED BY <1>1, <1>11 DEF n

\* FilesBounded: the files of a buffer that is up grow with what is pending (FileEventBuffer.Ack).
THEOREM FilesAreBounded == Spec => []FilesBounded
  <1>1. TypeOK /\ FileInv => FilesBounded
    BY BoundOfFiles
  <1> QED BY <1>1, FileInvariant, PTL

\* What is lost was charged to a tear.
LEMMA BoundOfLost ==
  ASSUME TypeOK, FileInv
  PROVE  LostAtMostTwoPerTear
  <1>1. Lost \subseteq AtRisk
    <2> SUFFICES ASSUME NEW e \in Lost PROVE e \in AtRisk
      OBVIOUS
    <2>1. e \in owed /\ e.id \notin log /\ e \notin Loaded
      BY DEF Lost
    <2> QED BY <2>1 DEF AtRisk
  <1>2. IsFiniteSet(AtRisk) /\ Cardinality(AtRisk) \in Nat /\ Cardinality(Holes) \in Nat
        /\ Cardinality(AtRisk) + Cardinality(Holes) + Unended <= 2 * tears
    BY FS_CardinalityType, HolesFinite DEF FileInv, CostInv
  <1>3. Cardinality(Lost) <= Cardinality(AtRisk) /\ Cardinality(Lost) \in Nat
    BY <1>1, <1>2, FS_Subset, FS_CardinalityType
  <1>4. Unended \in Nat /\ tears \in Nat
    BY DEF Unended, TypeOK
  <1> QED BY <1>2, <1>3, <1>4 DEF LostAtMostTwoPerTear

\* LostAtMostTwoPerTear: a cut write costs the two events it stands between, and no more
\* (FileEventBuffer's append and its loader).
THEOREM TearsCostTwo == Spec => []LostAtMostTwoPerTear
  <1>1. TypeOK /\ FileInv => LostAtMostTwoPerTear
    BY BoundOfLost
  <1> QED BY <1>1, FileInvariant, PTL

\* Without a tear nothing is at risk, so what is counted is in the log.
LEMMA NothingAtRisk ==
  ASSUME TypeOK, FileInv, tears = 0
  PROVE  AtRisk = {} /\ Holes = {} /\ ended
  <1>1. /\ IsFiniteSet(AtRisk) /\ Cardinality(AtRisk) \in Nat
        /\ IsFiniteSet(Holes) /\ Cardinality(Holes) \in Nat
        /\ Cardinality(AtRisk) + Cardinality(Holes) + Unended <= 0
    BY FS_CardinalityType, HolesFinite DEF FileInv, CostInv
  <1>2. Unended \in Nat /\ (Unended = 0 => ended)
    BY DEF Unended, TypeOK
  <1>3. Cardinality(AtRisk) = 0 /\ Cardinality(Holes) = 0 /\ Unended = 0
    BY <1>1, <1>2
  <1> QED BY <1>1, <1>2, <1>3, FS_EmptySet

\* One step of the buffer, as the loader would see it.
StepOfABuffer ==
    \/ tears' > 0
    \/ /\ LoadedSeq' = LoadedSeq + 1
       /\ \E id \in 1 .. MaxSaid : Loaded' = Loaded \cup {Event(LoadedSeq', id)}
    \/ /\ LoadedSeq' = LoadedSeq
       /\ Loaded' \subseteq Loaded
       /\ \A e \in Loaded \ Loaded' : e.id \in log

LEMMA BufferSteps ==
  ASSUME TypeOK, FileInv, TypeOK', FileInv', Next
  PROVE  StepOfABuffer
  <1> SUFFICES ASSUME ~ (tears' > 0) PROVE StepOfABuffer
    BY DEF StepOfABuffer
  <1>1. tears' = 0
    BY DEF TypeOK
  <1>2. ASSUME UNCHANGED <<lines, ackFile>> PROVE StepOfABuffer
    <2>1. LoadedSeq' = LoadedSeq /\ Loaded' = Loaded
      BY <1>2 DEF LoadedSeq, Loaded, Parsed
    <2> QED BY <2>1 DEF StepOfABuffer
  <1>3. CASE Load \/ Create \/ Crash \/ Hello
    BY <1>2, <1>3 DEF Load, Create, Crash, Hello, disk
  <1>4. ASSUME NEW e \in pending, Take(e) PROVE StepOfABuffer
    BY <1>2, <1>4 DEF Take, disk
  <1>5. \A x : ~ Cut(x)
    BY <1>1 DEF Cut, TypeOK
  <1>6. CASE WriteHeader
    <2>1. /\ at = "fresh" /\ WriteLine(Header(0)) /\ UNCHANGED <<tears, ackFile>>
      BY <1>5, <1>6 DEF WriteHeader
    <2>2. tears = 0 /\ lines = <<>> /\ lastSeq = 0 /\ pending = {}
      BY <1>1, <2>1 DEF FileInv, MemoryInv
    <2>3. lines' = Behind(Header(0)) /\ ended' /\ ended
      BY <2>1, <2>2, NothingAtRisk DEF WriteLine
    <2>9. ended' \in BOOLEAN /\ Header(0) \in Lines /\ Header(0).seq = 0 /\ {Header(0)} \cap Events = {}
      BY HeaderLine DEF TypeOK
    <2>4. lines' \in Seq(Lines) /\ OnDisk' = OnDisk /\ From' = From
      <3>1. /\ lines' \in Seq(Lines) /\ From' = From
            /\ OnDisk' = IF ended THEN OnDisk \cup ({Header(0)} \cap Events) ELSE OnDisk \ Tail0
        BY <2>2, <2>3, <2>9, HeaderLine, WrittenLines DEF FileInv
      <3> QED BY <2>3, <2>9, <3>1
    <2>5. OnDisk = {} /\ From = 0
      BY <2>2 DEF OnDisk, EventAt, From
    <2>6. LoadedSeq' = 0
      BY <2>4, <2>5, CountIs
    <2>7. Loaded' = {} /\ Loaded = {}
      BY <2>4, <2>5, LoadedNext, DiskEvents
    <2>8. LoadedSeq = 0
      BY <2>1, <2>2 DEF FileInv, SoundInv
    <2> QED BY <2>6, <2>7, <2>8 DEF StepOfABuffer
  <1>7. CASE Say
    <2>1. /\ at = "up" /\ said < MaxSaid /\ WriteLine(NewOne) /\ lastSeq' = lastSeq + 1
          /\ pending' = pending \cup {NewOne} /\ UNCHANGED <<tears, at, ackFile>>
      BY <1>5, <1>7 DEF Say, NewOne
    <2>2. lastSeq = LoadedSeq /\ pending = Loaded /\ lastSeq' = LoadedSeq' /\ pending' = Loaded'
      BY <1>1, <2>1 DEF FileInv, SoundInv
    <2>3. said + 1 \in 1 .. MaxSaid
      BY <2>1, FileAssumption DEF TypeOK
    <2>4. LoadedSeq' = LoadedSeq + 1 /\ Loaded' = Loaded \cup {Event(LoadedSeq', said + 1)}
      BY <2>1, <2>2 DEF NewOne
    <2> QED BY <2>3, <2>4 DEF StepOfABuffer
  <1>8. CASE Move
    <2>1. at = "compact" /\ at' = "moved" /\ UNCHANGED <<lastSeq, pending, tears>>
      BY <1>8 DEF Move, history
    <2>2. lastSeq = LoadedSeq /\ pending = Loaded /\ lastSeq' = LoadedSeq' /\ pending' = Loaded'
      BY <1>1, <2>1 DEF FileInv, SoundInv
    <2> QED BY <2>1, <2>2 DEF StepOfABuffer
  <1>9. CASE Truncate
    <2>1. at = "moved" /\ at' = "up" /\ UNCHANGED <<lastSeq, pending, tears>>
      BY <1>9 DEF Truncate, history
    <2>2. lastSeq = LoadedSeq /\ pending = Loaded /\ lastSeq' = LoadedSeq' /\ pending' = Loaded'
      BY <1>1, <2>1 DEF FileInv, SoundInv
    <2> QED BY <2>1, <2>2 DEF StepOfABuffer
  <1>10. ASSUME NEW e \in pending, Acked(e) PROVE StepOfABuffer
    <2>0. tears' # tears + 1
      BY <1>1 DEF TypeOK
    <2>1. /\ at = "up" /\ e.seq \in counted /\ UNCHANGED <<lastSeq, tears>>
          /\ pending' = {f \in pending : f.seq # e.seq} /\ at' # "down"
      BY <1>10, <2>0 DEF Acked
    <2>2. lastSeq = LoadedSeq /\ pending = Loaded /\ lastSeq' = LoadedSeq' /\ pending' = Loaded'
      BY <1>1, <2>1 DEF FileInv, SoundInv
    <2>3. \A f \in pending : f.seq = e.seq => f = e
      BY DEF FileInv, MemoryInv
    <2>4. e.id \in log
      BY <1>1, <2>1, NothingAtRisk DEF AtRisk
    <2> QED BY <2>1, <2>2, <2>3, <2>4 DEF StepOfABuffer
  <1> QED BY <1>3, <1>4, <1>6, <1>7, <1>8, <1>9, <1>10 DEF Next

\* StepsOfABuffer: unless a write was cut, the disk holds a buffer's state at every step: an event is
\* added with the next seq, or goes when it was taken (FileEventBuffer's Append, Ack and Compact).
THEOREM DiskTakesSteps == Spec => StepsOfABuffer
  <1>1. TypeOK /\ FileInv /\ TypeOK' /\ FileInv' /\ Next => StepOfABuffer
    BY BufferSteps
  <1>2. TypeOK /\ FileInv /\ (TypeOK /\ FileInv)' /\ [Next]_vars => [StepOfABuffer]_vars
    BY <1>1
  <1>3. Spec => [][StepOfABuffer]_vars
    BY <1>2, FileInvariant, PTL DEF Spec
  <1> QED BY <1>3 DEF StepsOfABuffer, StepOfABuffer
=============================================================================
