--------------------------- MODULE WebhookConsumer --------------------------
(***************************************************************************)
(* A client that takes a match's facts twice, from its webhooks and from   *)
(* its stream, behind one deduper (packages/match-api/src/webhooks/        *)
(* deduper.ts), with the handler docs/match-api.md gives it.  The worker   *)
(* is the one of WebhookWorker; its endpoint, the environment there, is    *)
(* the handler here.                                                       *)
(*                                                                         *)
(* The deduper's store is asked and told in awaits of their own.  A fact   *)
(* has one delivery id, on whatever path it comes, so its two keys are     *)
(* told apart by their kind.                                               *)
(***************************************************************************)
EXTENDS WebhookWorker

\* The ways a fact comes: 0 is its frame on the stream, the others its POSTs.
Ways == 0..(MaxAttempts + MaxMishaps)

VARIABLES
    call,     \* per match, seq and way, how far the handler is
    keys,     \* per match and seq, the keys the deduper's store has
    handled   \* per match and seq, how many times the client handled the fact

consumer == <<call, keys, handled>>
allVars  == <<vars, consumer>>

ConsumerInit ==
    /\ Init
    /\ call    = [m \in Matches |-> [n \in Seqs |-> [w \in Ways |-> "none"]]]
    /\ keys    = [m \in Matches |-> [n \in Seqs |-> {}]]
    /\ handled = [m \in Matches |-> [n \in Seqs |-> 0]]

Goes(m, n, w, from, to) ==
    /\ call[m][n][w] = from
    /\ call' = [call EXCEPT ![m][n][w] = to]

\* has(delivery): a duplicate is answered 2xx.
HasDelivery(m, n, w) ==
    /\ Goes(m, n, w, "asking", IF "delivery" \in keys[m][n] THEN "ok" ELSE "asked")
    /\ UNCHANGED <<keys, handled>>

\* has(fact), then the keys it adds.
HasFact(m, n, w) ==
    /\ Goes(m, n, w, "asked", IF "fact" \in keys[m][n] THEN "noting" ELSE "adding")
    /\ UNCHANGED <<keys, handled>>

\* add(delivery) under a fact that came another way.
NoteDelivery(m, n, w) ==
    /\ Goes(m, n, w, "noting", "ok")
    /\ keys' = [keys EXCEPT ![m][n] = @ \cup {"delivery"}]
    /\ UNCHANGED handled

AddDelivery(m, n, w) ==
    /\ Goes(m, n, w, "adding", "added")
    /\ keys' = [keys EXCEPT ![m][n] = @ \cup {"delivery"}]
    /\ UNCHANGED handled

\* add(fact): the fact is new, and the client handles it.
AddFact(m, n, w) ==
    /\ Goes(m, n, w, "added", "handling")
    /\ keys' = [keys EXCEPT ![m][n] = @ \cup {"fact"}]
    /\ UNCHANGED handled

Handle(m, n, w) ==
    /\ Goes(m, n, w, "handling", "ok")
    /\ handled' = [handled EXCEPT ![m][n] = @ + 1]
    /\ UNCHANGED keys

Handler(m, n, w) ==
    \/ HasDelivery(m, n, w) \/ HasFact(m, n, w) \/ NoteDelivery(m, n, w)
    \/ AddDelivery(m, n, w) \/ AddFact(m, n, w) \/ Handle(m, n, w)

\* The hub publishes a fact as soon as it is in the log.
Frame(m, n) ==
    /\ n <= facts[m]
    /\ Goes(m, n, 0, "none", "asking")
    /\ UNCHANGED <<keys, handled>>

\* A POST reaches the handler; the worker hears its answer, or gives up on it.
PostArrives(m) ==
    /\ Post(m)
    /\ Goes(m, Least(m), sent[m][Least(m)] + 1, "none", "asking")
    /\ UNCHANGED <<keys, handled>>

Hears(m) ==
    /\ \/ Answer(m, "delivered") /\ call[m][Least(m)][sent[m][Least(m)]] = "ok"
       \/ Answer(m, "retry")
    /\ UNCHANGED consumer

\* The steps of the worker its endpoint has no part in.
WorkerAlone ==
    \/ \E m \in Matches : Say(m) \/ Queue(m) \/ QueueNothing(m) \/ Skip(m) \/ Delivered(m) \/ Retry(m)
    \/ \E m \in Matches : AttemptThrows(m) \/ QueueThrows(m)
    \/ \E m \in Matches, n \in Seqs : Ripen(m, n)
    \/ Sweep \/ List \/ PassEnd \/ ListThrows \/ Crash \/ Restart

ConsumerNext ==
    \/ WorkerAlone /\ UNCHANGED consumer
    \/ \E m \in Matches : PostArrives(m) \/ Hears(m)
    \/ \E m \in Matches, n \in Seqs : Frame(m, n) /\ UNCHANGED vars
    \/ \E m \in Matches, n \in Seqs, w \in Ways : Handler(m, n, w) /\ UNCHANGED vars

ConsumerSpec == ConsumerInit /\ [][ConsumerNext]_allVars

\* A client with one deduper in front of both paths handles no fact twice (deduper.ts: "lets a
\* consumer subscribe to the stream, take webhooks and replay a gap without writing anything
\* twice").
HandledOnce == \A m \in Matches, n \in Seqs : handled[m][n] <= 1
=============================================================================
