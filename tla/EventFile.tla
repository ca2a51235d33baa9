------------------------------ MODULE EventFile ------------------------------
(***************************************************************************)
(* The plugin's event buffer on its disk (FileEventBuffer.cs): two files   *)
(* that grow by a line, a list in memory, a compaction that writes both    *)
(* anew, a loader that reads back what a dead process left, and a write    *)
(* that a death may cut.  ServerLink takes the buffer for one value.       *)
(*                                                                         *)
(* The link and the orchestrator are the environment: a hello tells the    *)
(* last seq, an event is taken once by its seq, and an answer may come or  *)
(* not.  A death of the process alone loses nothing that was flushed; what *)
(* a death of the box may take is a line that was being written.           *)
(***************************************************************************)
EXTENDS Integers, Sequences, FiniteSets, FiniteSetsExt

CONSTANTS
    Threshold,   \* CompactAfterAcks
    MaxSaid,     \* bound: events the plugin says
    MaxCrashes,  \* bound: deaths of its process
    MaxTears     \* bound: deaths in the middle of a write

ASSUME FileAssumption ==
    /\ Threshold \in Nat \ {0}
    /\ MaxSaid \in Nat /\ MaxCrashes \in Nat /\ MaxTears \in Nat

VARIABLES
    \* the disk
    lines,    \* events.jsonl
    ended,    \* does it end with a newline?
    exists,   \* is it there?
    ackFile,  \* acked.log, the numbers in it
    \* the process
    at,       \* "down", at a step of the constructor, "compact", "moved", or "up"
    pending,  \* _pending
    lastSeq,  \* _lastSeq
    acks,     \* _acksSinceCompaction
    linked,   \* has it said hello?
    \* the orchestrator
    counted,  \* the seqs it counts as taken
    log,      \* the events it has
    \* history
    said,     \* how many events were said
    owed,     \* the events whose Append returned
    crashes, tears

disk == <<lines, ended, exists, ackFile>>
memory == <<at, pending, lastSeq, acks, linked>>
orchestrator == <<counted, log>>
history == <<said, owed, crashes, tears>>
vars == <<lines, ended, exists, ackFile, at, pending, lastSeq, acks, linked,
          counted, log, said, owed, crashes, tears>>

Header(n) == [kind |-> "header", seq |-> n, id |-> 0]
Event(n, id) == [kind |-> "event", seq |-> n, id |-> id]
Torn == [kind |-> "torn", seq |-> 0, id |-> 0]

Init ==
    /\ lines = <<>> /\ ended = TRUE /\ exists = FALSE /\ ackFile = {}
    /\ at = "down" /\ pending = {} /\ lastSeq = 0 /\ acks = 0 /\ linked = FALSE
    /\ counted = {} /\ log = {}
    /\ said = 0 /\ owed = {} /\ crashes = 0 /\ tears = 0

-----------------------------------------------------------------------------
(* What the loader makes of the files.                                     *)

\* A header counts as the first line only; a line that does not parse is skipped.
Parsed == {i \in 1 .. Len(lines) :
               lines[i].kind = "event" \/ (i = 1 /\ lines[i].kind = "header")}
LoadedSeq == Max({0} \cup {lines[i].seq : i \in Parsed})
\* Mutant: the first line is taken for the header, whatever it is.
LoadedPastFirst == {lines[i] : i \in {j \in Parsed \ {1} : lines[j].seq \notin ackFile}}
Loaded == {lines[i] : i \in {j \in Parsed : lines[j].kind = "event"
                                            /\ lines[j].seq \notin ackFile}}

-----------------------------------------------------------------------------
(* Writing a line.                                                         *)

\* The line goes behind the last newline, or behind what a cut write left.
Behind(line) == IF ended THEN Append(lines, line) ELSE [lines EXCEPT ![Len(lines)] = Torn]
WriteLine(line) == lines' = Behind(line) /\ ended' = TRUE

\* Death: memory is gone, and so is the link.
Dies ==
    /\ crashes < MaxCrashes
    /\ crashes' = crashes + 1
    /\ at' = "down" /\ pending' = {} /\ lastSeq' = 0 /\ acks' = 0 /\ linked' = FALSE
\* A write is cut: nothing but a part of the line is there, or all of it but the
\* newline.
Cut(line) ==
    /\ tears < MaxTears /\ Dies
    /\ tears' = tears + 1
    /\ ended' = FALSE
    /\ \E part \in {Torn, line} : lines' = Behind(part)

-----------------------------------------------------------------------------
(* The constructor.                                                        *)

\* Mutant: the acks of the last process are not counted.
CountedNone == 0
Counted == Cardinality(ackFile)
NextOf(n) == IF n > 0 THEN "compact" ELSE "up"
Load ==
    /\ at = "down"
    /\ pending' = Loaded
    /\ lastSeq' = LoadedSeq
    /\ acks' = Counted
    /\ at' = IF exists THEN NextOf(acks') ELSE "fresh"
    /\ UNCHANGED <<disk, linked, orchestrator, history>>
\* A fresh file is created, and then its header is written.
Create ==
    /\ at = "fresh" /\ ~exists
    /\ exists' = TRUE
    /\ UNCHANGED <<lines, ended, ackFile, memory, orchestrator, history>>
WriteHeader ==
    /\ at = "fresh" /\ exists
    /\ UNCHANGED <<exists, ackFile, orchestrator, said, owed>>
    /\ \/ /\ WriteLine(Header(0))
          /\ at' = NextOf(acks)
          /\ UNCHANGED <<pending, lastSeq, acks, linked, crashes, tears>>
       \/ Cut(Header(0))

-----------------------------------------------------------------------------
(* The buffer's operations.                                                *)

\* An event gets the next seq, is kept and written.
Say ==
    /\ at = "up" /\ said < MaxSaid
    /\ said' = said + 1
    /\ LET e == Event(lastSeq + 1, said + 1)
       IN  \/ /\ lastSeq' = lastSeq + 1
              /\ pending' = pending \cup {e}
              /\ WriteLine(e)
              /\ owed' = owed \cup {e}
              /\ UNCHANGED <<at, acks, linked, crashes, tears>>
           \/ Cut(e) /\ UNCHANGED owed
    /\ UNCHANGED <<exists, ackFile, orchestrator>>

\* The seq is answered for: out of memory first, then a line in acked.log, which
\* a death may cut to the digits of a smaller number.  The loader finds a number
\* there in any case, and compacts before another one is written behind it.
Acked(e) ==
    /\ at = "up" /\ linked /\ e \in pending /\ e.seq \in counted
    /\ \/ /\ pending' = {f \in pending : f.seq # e.seq}
          /\ ackFile' = ackFile \cup {e.seq}
          /\ acks' = acks + 1
          /\ at' = IF acks' >= Threshold THEN "compact" ELSE "up"
          /\ UNCHANGED <<lastSeq, linked, crashes, tears>>
       \/ /\ tears < MaxTears /\ Dies
          /\ tears' = tears + 1
          /\ \E n \in 1 .. e.seq : ackFile' = ackFile \cup {n}
    /\ UNCHANGED <<lines, ended, exists, orchestrator, said, owed>>

\* The events of a set, in the order of their seqs.
Rank(e, S) == Cardinality({f \in S : f.seq <= e.seq})
InOrder(S) == [i \in 1 .. Cardinality(S) |-> CHOOSE e \in S : Rank(e, S) = i]
\* Mutant: the header starts the count anew.
CompactedUncounted == <<Header(0)>> \o InOrder(pending)
\* The lines of a compacted file.
Compacted == <<Header(lastSeq)>> \o InOrder(pending)
\* A file beside it is written and moved over the old one, then acked.log emptied.
Move ==
    /\ at = "compact"
    /\ lines' = Compacted /\ ended' = TRUE
    /\ at' = "moved"
    /\ UNCHANGED <<exists, ackFile, pending, lastSeq, acks, linked, orchestrator, history>>
Truncate ==
    /\ at = "moved"
    /\ ackFile' = {}
    /\ acks' = 0
    /\ at' = "up"
    /\ UNCHANGED <<lines, ended, exists, pending, lastSeq, linked, orchestrator, history>>

Crash ==
    /\ at # "down" /\ Dies
    /\ UNCHANGED <<disk, orchestrator, said, owed, tears>>

-----------------------------------------------------------------------------
(* The other end.                                                          *)

\* A hello says how far the plugin has counted, and no session counts further.
Hello ==
    /\ at = "up" /\ ~linked
    /\ linked' = TRUE
    /\ counted' = {n \in counted : n <= lastSeq}
    /\ UNCHANGED <<disk, at, pending, lastSeq, acks, log, history>>
\* An event is taken, unless its seq was; the answer is on its way.
Take(e) ==
    /\ at = "up" /\ linked /\ e \in pending /\ e.seq \notin counted
    /\ counted' = counted \cup {e.seq}
    /\ log' = log \cup {e.id}
    /\ UNCHANGED <<disk, memory, history>>

-----------------------------------------------------------------------------
Next ==
    \/ Load \/ Create \/ WriteHeader
    \/ Say \/ Move \/ Truncate \/ Crash
    \/ Hello
    \/ \E e \in pending : Acked(e) \/ Take(e)

Spec == Init /\ [][Next]_vars

-----------------------------------------------------------------------------
(* What a buffer promises.                                                 *)

\* Memory and disk grow with what is pending, and with the acks of one compaction
\* at most, however often the process starts again.
FilesBounded ==
    at = "up" => /\ acks < Threshold
                 /\ Len(lines) <= 1 + Cardinality(pending) + acks + tears

\* On the disk as the loader would find it, unless a write was cut: the count
\* goes up by one with each event, and an event goes only when it was taken.
StepsOfABuffer ==
    [][\/ tears' > 0
       \/ /\ LoadedSeq' = LoadedSeq + 1
          /\ \E id \in 1 .. MaxSaid : Loaded' = Loaded \cup {Event(LoadedSeq', id)}
       \/ /\ LoadedSeq' = LoadedSeq
          /\ Loaded' \subseteq Loaded
          /\ \A e \in Loaded \ Loaded' : e.id \in log]_vars

\* An event whose Append returned, and that is neither in the log nor to be sent again.
Lost == {e \in owed : e.id \notin log /\ \A f \in pending \cup Loaded : f.id # e.id}
\* A write that is cut costs no more than the two events it stands between.
LostAtMostTwoPerTear == Cardinality(Lost) <= 2 * tears

\* A fresh process continues the count: no seq is handed out twice.
CountGoesOn == \A e, f \in owed : e.seq = f.seq => e = f
=============================================================================
