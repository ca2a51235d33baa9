---------------------------- MODULE WebhookWorker ---------------------------
(***************************************************************************)
(* The delivery of a match's facts: emit of match/machine.ts, which logs a *)
(* fact and then writes its delivery row, and the worker of                *)
(* webhooks/worker.ts, the only one that POSTs: passes over the rows that  *)
(* are due, a row at a time within a match, several matches at once, with  *)
(* retries, a schedule that ends, and 410 Gone.                            *)
(*                                                                         *)
(* Time is abstract: a retry wait may end at any moment, and a pass may be *)
(* kicked at any moment, by the sweep or by the timer of a retry.  The     *)
(* endpoint is the environment: it answers anything, or nothing in time.   *)
(*                                                                         *)
(* An attempt reads the match and the event before it POSTs.  Nothing      *)
(* writes what it reads meanwhile (a match's rows are attempted one at a   *)
(* time, by one worker), so the reads and the POST are one step.           *)
(***************************************************************************)
EXTENDS Naturals, FiniteSets, FiniteSetsExt

CONSTANTS
    Matches,      \* matches; numbers, for the order their rows are listed in
    Concurrency,  \* matches one pass delivers to
    Batch,        \* rows one pass lists
    MaxAttempts,  \* the first attempt and every retry of the schedule
    MaxFacts,     \* bound: facts of a match
    MaxSaid,      \* bound: facts of all matches
    MaxMishaps    \* bound: crashes of the process and throws of the store

ASSUME WebhookAssumption ==
    /\ Matches \subseteq Nat
    /\ Concurrency \in Nat \ {0} /\ Batch \in Nat \ {0} /\ MaxAttempts \in Nat \ {0}
    /\ MaxFacts \in Nat /\ MaxSaid \in Nat /\ MaxMishaps \in Nat

Seqs == 1..MaxFacts

VARIABLES
    \* the store
    facts,      \* per match, how many facts its log has
    delivery,   \* per match and seq, the row of webhook_deliveries
    stopped,    \* matches with webhooks_stopped_at
    \* the process
    up,
    emitting,   \* per match, the seq logged whose row is still to be written; 0: none
    pass,       \* the pass: "off", "list", "work"
    kicked,     \* a kick came while a pass was on
    more,       \* the pass listed more rows than it took
    todo,       \* per match, the seqs the pass has taken and not dealt with
    at,         \* per match, where the attempt at the least of them stands
    \* what befell
    sent,       \* per match and seq, how many POSTs were made
    gone,       \* matches whose endpoint answered 410
    crashes, throws

store   == <<facts, delivery, stopped>>
worker  == <<pass, kicked, more, todo, at>>
history == <<sent, gone>>
fate    == <<crashes, throws>>
vars    == <<store, up, emitting, worker, history, fate>>

-----------------------------------------------------------------------------
NoRow == [status |-> "none", attempt |-> 0, due |-> FALSE]

Init ==
    /\ facts    = [m \in Matches |-> 0]
    /\ delivery = [m \in Matches |-> [n \in Seqs |-> NoRow]]
    /\ stopped  = {}
    /\ up       = TRUE
    /\ emitting = [m \in Matches |-> 0]
    /\ pass = "off" /\ kicked = FALSE /\ more = FALSE
    /\ todo     = [m \in Matches |-> {}]
    /\ at       = [m \in Matches |-> "idle"]
    /\ sent     = [m \in Matches |-> [n \in Seqs |-> 0]]
    /\ gone     = {}
    /\ crashes = 0 /\ throws = 0

\* Mutant: the rows of a match are taken newest first.
Newest(m) == Max(todo[m])

\* The row a match's deliveries have come to: they are attempted in seq order.
Least(m) == Min(todo[m])

\* A pass is started, or the one that is on is told to go again.
Kick ==
    IF pass = "off"
    THEN pass' = "list" /\ UNCHANGED kicked
    ELSE kicked' = TRUE /\ UNCHANGED pass

-----------------------------------------------------------------------------
(* The facts: emit.                                                        *)

\* The fact is in the log; its delivery is another write.
Say(m) ==
    /\ up /\ emitting[m] = 0 /\ facts[m] < MaxFacts
    /\ Cardinality({f \in Matches \X Seqs : f[2] <= facts[f[1]]}) < MaxSaid
    /\ facts' = [facts EXCEPT ![m] = @ + 1]
    /\ emitting' = [emitting EXCEPT ![m] = facts[m] + 1]
    /\ UNCHANGED <<delivery, stopped, up, worker, history, fate>>

\* The row is written and the worker is kicked.
Queue(m) ==
    /\ emitting[m] # 0
    /\ delivery' = [delivery EXCEPT ![m][emitting[m]] =
                       [status |-> "pending", attempt |-> 0, due |-> TRUE]]
    /\ emitting' = [emitting EXCEPT ![m] = 0]
    /\ Kick
    /\ UNCHANGED <<facts, stopped, up, more, todo, at, history, fate>>

\* A match whose webhooks were stopped when emit read it gets no row.
QueueNothing(m) ==
    /\ emitting[m] # 0 /\ m \in stopped
    /\ emitting' = [emitting EXCEPT ![m] = 0]
    /\ UNCHANGED <<store, up, worker, history, fate>>

-----------------------------------------------------------------------------
(* The pass.                                                               *)

\* The sweep, or the timer of a retry.
Sweep ==
    /\ up /\ (pass = "off" \/ ~kicked)
    /\ Kick
    /\ UNCHANGED <<store, up, emitting, more, todo, at, history, fate>>

\* The retry wait of a row ends.
Ripen(m, n) ==
    /\ delivery[m][n].status = "pending" /\ ~delivery[m][n].due
    /\ delivery' = [delivery EXCEPT ![m][n].due = TRUE]
    /\ UNCHANGED <<facts, stopped, up, emitting, worker, history, fate>>

\* Mutant: a row that was attempted is not listed again.
DueFirst == {r \in Matches \X Seqs :
                /\ delivery[r[1]][r[2]].status = "pending" /\ delivery[r[1]][r[2]].due
                /\ delivery[r[1]][r[2]].attempt = 0}

Due == {r \in Matches \X Seqs : delivery[r[1]][r[2]].status = "pending" /\ delivery[r[1]][r[2]].due}

\* Rows are listed by match, then seq.
Before(r, s) == r[1] < s[1] \/ (r[1] = s[1] /\ r[2] <= s[2])

\* What the query returns: the first rows that are due.
Listed == {r \in Due : Cardinality({s \in Due : Before(s, r)}) <= Batch}

\* The matches the pass takes: the first of those listed.
Taken ==
    LET ms == {r[1] : r \in Listed} IN
    {m \in ms : Cardinality({k \in ms : k <= m}) <= Concurrency}

List ==
    /\ pass = "list"
    /\ pass' = "work"
    /\ todo' = [m \in Matches |-> IF m \in Taken THEN {n \in Seqs : <<m, n>> \in Listed} ELSE {}]
    /\ more' = \E r \in Listed : r[1] \notin Taken
    /\ UNCHANGED <<store, up, emitting, kicked, at, history, fate>>

\* The matches of a pass are done: again, if there was more or a kick came.
PassEnd ==
    /\ pass = "work" /\ \A m \in Matches : todo[m] = {}
    /\ pass' = IF more \/ kicked THEN "list" ELSE "off"
    /\ kicked' = FALSE /\ more' = FALSE
    /\ UNCHANGED <<store, up, emitting, todo, at, history, fate>>

-----------------------------------------------------------------------------
(* An attempt at the row a match has come to.                              *)

\* The attempt at the least row of m is over, with that row as given.
Settled(m, row) ==
    /\ delivery' = [delivery EXCEPT ![m][Least(m)] = row]
    /\ todo' = [todo EXCEPT ![m] = @ \ {Least(m)}]
    /\ at' = [at EXCEPT ![m] = "idle"]

Row(m) == delivery[m][Least(m)]

\* A match stopped meanwhile: the row is stopped with it.
Skip(m) ==
    /\ todo[m] # {} /\ at[m] = "idle" /\ m \in stopped
    /\ Settled(m, [Row(m) EXCEPT !.status = "stopped"])
    /\ UNCHANGED <<facts, stopped, up, emitting, pass, kicked, more, history, fate>>

\* Mutant: the match is not read again.
PostUnread(m) ==
    /\ todo[m] # {} /\ at[m] = "idle"
    /\ at' = [at EXCEPT ![m] = "posted"]
    /\ sent' = [sent EXCEPT ![m][Least(m)] = @ + 1]
    /\ UNCHANGED <<store, up, emitting, pass, kicked, more, todo, gone, fate>>

Post(m) ==
    /\ todo[m] # {} /\ at[m] = "idle" /\ m \notin stopped
    /\ at' = [at EXCEPT ![m] = "posted"]
    /\ sent' = [sent EXCEPT ![m][Least(m)] = @ + 1]
    /\ UNCHANGED <<store, up, emitting, pass, kicked, more, todo, gone, fate>>

\* A 2xx, a 410, or anything else: a timeout and an error of the connection are no answer.
Answer(m, outcome) ==
    /\ at[m] = "posted"
    /\ at' = [at EXCEPT ![m] = outcome]
    /\ gone' = IF outcome = "stopped" THEN gone \cup {m} ELSE gone
    /\ UNCHANGED <<store, up, emitting, pass, kicked, more, todo, sent, fate>>

Delivered(m) ==
    /\ at[m] = "delivered"
    /\ Settled(m, [Row(m) EXCEPT !.status = "delivered", !.attempt = @ + 1, !.due = FALSE])
    /\ UNCHANGED <<facts, stopped, up, emitting, pass, kicked, more, history, fate>>

\* Mutant: an attempt without an answer is not counted.
RetryUncounted(m) ==
    /\ at[m] = "retry"
    /\ Settled(m, [status |-> "pending", attempt |-> Row(m).attempt, due |-> FALSE])
    /\ UNCHANGED <<facts, stopped, up, emitting, pass, kicked, more, history, fate>>

\* The next attempt on the schedule, or none: given up.
Retry(m) ==
    /\ at[m] = "retry"
    /\ Settled(m, [status  |-> IF Row(m).attempt + 1 < MaxAttempts THEN "pending" ELSE "given_up",
                   attempt |-> Row(m).attempt + 1, due |-> FALSE])
    /\ UNCHANGED <<facts, stopped, up, emitting, pass, kicked, more, history, fate>>

\* 410: the row is stopped, then, in a write of its own, the match.
Gone(m) ==
    /\ at[m] = "stopped"
    /\ delivery' = [delivery EXCEPT ![m][Least(m)] =
                       [status |-> "stopped", attempt |-> @.attempt + 1, due |-> FALSE]]
    /\ at' = [at EXCEPT ![m] = "stopping"]
    /\ UNCHANGED <<facts, stopped, up, emitting, pass, kicked, more, todo, history, fate>>

StopMatch(m) ==
    /\ at[m] = "stopping"
    /\ stopped' = stopped \cup {m}
    /\ todo' = [todo EXCEPT ![m] = @ \ {Least(m)}]
    /\ at' = [at EXCEPT ![m] = "idle"]
    /\ UNCHANGED <<facts, delivery, up, emitting, pass, kicked, more, history, fate>>

-----------------------------------------------------------------------------
(* Mishaps.                                                                *)

Idle ==
    /\ pass' = "off" /\ kicked' = FALSE /\ more' = FALSE
    /\ todo' = [m \in Matches |-> {}]
    /\ at' = [m \in Matches |-> "idle"]

\* The process dies: a POST that was made is on its way all the same.
Crash ==
    /\ up /\ crashes + throws < MaxMishaps
    /\ up' = FALSE
    /\ emitting' = [m \in Matches |-> 0]
    /\ Idle
    /\ crashes' = crashes + 1
    /\ UNCHANGED <<store, history, throws>>

Restart ==
    /\ ~up
    /\ up' = TRUE
    /\ UNCHANGED <<store, emitting, worker, history, fate>>

\* The store throws under an attempt: the pass goes on with the match's next row.
AttemptThrows(m) ==
    /\ crashes + throws < MaxMishaps
    /\ todo[m] # {} /\ at[m] # "posted"
    /\ todo' = [todo EXCEPT ![m] = @ \ {Least(m)}]
    /\ at' = [at EXCEPT ![m] = "idle"]
    /\ throws' = throws + 1
    /\ UNCHANGED <<store, up, emitting, pass, kicked, more, history, crashes>>

\* The store throws under the query: the pass is over, and goes again if it was kicked.
ListThrows ==
    /\ crashes + throws < MaxMishaps
    /\ pass = "list"
    /\ pass' = IF kicked THEN "list" ELSE "off"
    /\ kicked' = FALSE
    /\ throws' = throws + 1
    /\ UNCHANGED <<store, up, emitting, more, todo, at, history, crashes>>

\* The store throws under the row of a fact: the fact is in the log, and has no delivery.
QueueThrows(m) ==
    /\ crashes + throws < MaxMishaps
    /\ emitting[m] # 0
    /\ emitting' = [emitting EXCEPT ![m] = 0]
    /\ throws' = throws + 1
    /\ UNCHANGED <<store, up, worker, history, crashes>>

-----------------------------------------------------------------------------
Outcomes == {"delivered", "retry", "stopped"}

\* One step of the worker at a match.
Attempt(m) ==
    \/ Skip(m) \/ Post(m)
    \/ \E outcome \in Outcomes : Answer(m, outcome)
    \/ Delivered(m) \/ Retry(m) \/ Gone(m) \/ StopMatch(m)

Next ==
    \/ \E m \in Matches : Say(m) \/ Queue(m) \/ QueueNothing(m) \/ Attempt(m)
    \/ \E m \in Matches : AttemptThrows(m) \/ QueueThrows(m)
    \/ \E m \in Matches, n \in Seqs : Ripen(m, n)
    \/ Sweep \/ List \/ PassEnd \/ ListThrows \/ Crash \/ Restart

Spec == Init /\ [][Next]_vars

\* Every await comes back (a POST by its timeout), every wait ends, the sweep is armed anew each
\* time it fires, and a process that died is started.
Fairness ==
    /\ \A m \in Matches : WF_vars(Queue(m) \/ QueueNothing(m)) /\ WF_vars(Attempt(m))
    /\ \A m \in Matches, n \in Seqs : WF_vars(Ripen(m, n))
    /\ WF_vars(List) /\ WF_vars(PassEnd) /\ WF_vars(Sweep) /\ WF_vars(Restart)

FairSpec == Spec /\ Fairness

-----------------------------------------------------------------------------
(* What it has to keep.                                                    *)

RowType == [status : {"none", "pending", "delivered", "stopped", "given_up"},
            attempt : 0..MaxAttempts, due : BOOLEAN]

\* Types; a pass at work is where the rows taken are, an attempt is at one of them, and a process
\* that is down holds nothing.
TypeOK ==
    /\ facts \in [Matches -> 0..MaxFacts]
    /\ delivery \in [Matches -> [Seqs -> RowType]]
    /\ stopped \subseteq Matches /\ gone \subseteq Matches
    /\ up \in BOOLEAN /\ kicked \in BOOLEAN /\ more \in BOOLEAN
    /\ emitting \in [Matches -> 0..MaxFacts]
    /\ pass \in {"off", "list", "work"}
    /\ todo \in [Matches -> SUBSET Seqs]
    /\ at \in [Matches -> {"idle", "posted", "stopping"} \cup Outcomes]
    /\ sent \in [Matches -> [Seqs -> Nat]]
    /\ crashes \in Nat /\ throws \in Nat
    /\ \A m \in Matches : at[m] # "idle" => todo[m] # {}
    /\ pass # "work" => \A m \in Matches : todo[m] = {}
    /\ ~up => pass = "off" /\ \A m \in Matches : emitting[m] = 0

\* No delivery is POSTed more often than the schedule has attempts, but once more for each time
\* the process died, or the store threw, between a POST and the write of its answer (worker.ts
\* attempt; match-api.md "Ten attempts in all").
AttemptsBounded ==
    \A m \in Matches, n \in Seqs : sent[m][n] <= MaxAttempts + crashes + throws

\* Facts are first POSTed in the order of the log: when one is, every earlier one that has a
\* delivery was, whatever waits, crashes and stops there were (worker.ts "in seq order").  A row
\* under which the store threw is passed over.
FirstInOrder ==
    [][\A m \in Matches, n \in Seqs :
         /\ throws = 0 /\ sent[m][n] = 0 /\ sent'[m][n] > 0
         => \A k \in 1..(n - 1) : sent[m][k] > 0 \/ delivery[m][k].status = "none"]_vars

\* After a 410 nothing more is POSTed for the match, unless the process died or the store threw
\* in between the two writes that record it (retry.ts "sends nothing more for the match").
NothingAfterGone ==
    [][\A m \in gone : crashes + throws = 0 => sent'[m] = sent[m]]_vars

\* A delivery that was queued is settled: delivered, given up or stopped, across retries, full
\* passes, crashes and throws (worker.ts: the sweep picks up what was left due).
EverySettled ==
    \A m \in Matches, n \in Seqs :
        delivery[m][n].status = "pending" ~> delivery[m][n].status # "pending"
=============================================================================
