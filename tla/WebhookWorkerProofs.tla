------------------------- MODULE WebhookWorkerProofs -------------------------
(***************************************************************************)
(* Proofs about WebhookWorker, for any matches, any schedule and any       *)
(* number of facts and mishaps: its type invariant, the bound on the POSTs *)
(* of a delivery, the order of first tries, and that nothing is POSTed     *)
(* after a 410.                                                            *)
(***************************************************************************)
EXTENDS WebhookWorker, FiniteSetTheorems, WellFoundedInduction, TLAPS

-----------------------------------------------------------------------------
(***************************************************************************)
(* Types, and the bound on the POSTs of a delivery.                        *)
(*                                                                         *)
(* The bound is not inductive: it counts POSTs, and the code counts        *)
(* answers. CountInv relates the two at every place of an attempt, and     *)
(* needs to know that the pass only holds rows that are still pending      *)
(* (PassInv), and that emit only writes a row where there is none          *)
(* (RowInv).                                                               *)
(***************************************************************************)

\* A POST of the row (m, n) was made, and its answer is not written yet.
InFlight(m, n) == at[m] \in {"posted"} \cup Outcomes /\ n = Least(m)

\* A row past the log's end, or that emit is about to write, is not there.
RowInv ==
    /\ \A m \in Matches : emitting[m] <= facts[m]
    /\ \A m \in Matches, n \in Seqs :
           n > facts[m] \/ n = emitting[m] => delivery[m][n] = NoRow

\* The pass holds rows that are pending, but for the one a 410 has just stopped.
PassInv ==
    \A m \in Matches : \A n \in todo[m] :
        delivery[m][n].status = "pending" \/ (at[m] = "stopping" /\ n = Least(m))

\* A pending row has an attempt left.
LeftInv ==
    \A m \in Matches, n \in Seqs :
        delivery[m][n].status = "pending" => delivery[m][n].attempt < MaxAttempts

CountInv ==
    \A m \in Matches, n \in Seqs :
        sent[m][n] <= delivery[m][n].attempt + crashes + throws + (IF InFlight(m, n) THEN 1 ELSE 0)

Inv == TypeOK /\ RowInv /\ PassInv /\ LeftInv /\ CountInv

-----------------------------------------------------------------------------
(* The row a match has come to.                                            *)

LEMMA LeastIsTaken ==
  ASSUME NEW m \in Matches, todo[m] \in SUBSET Seqs, todo[m] # {}
  PROVE  Least(m) \in todo[m] /\ Least(m) \in Seqs
  <1>1. todo[m] \in SUBSET Nat
    BY WebhookAssumption DEF Seqs
  <1>2. PICK n \in todo[m] : \A k \in todo[m] : n <= k
    <2>1. \E n \in todo[m] : \A k \in todo[m] : ~ (<<k, n>> \in OpToRel(<, Nat))
      BY <1>1, WFMin, NatLessThanWellFounded, Zenon
    <2>2. PICK n \in todo[m] : \A k \in todo[m] : ~ (<<k, n>> \in OpToRel(<, Nat))
      BY <2>1
    <2>3. ASSUME NEW k \in todo[m] PROVE n <= k
      <3>1. ~ (k < n)
        BY <1>1, <2>2, <2>3 DEF OpToRel
      <3> QED BY <1>1, <3>1
    <2> QED BY <2>3
  <1> QED BY <1>2 DEF Least, Min

LEMMA SetRow ==
  ASSUME TypeOK, NEW m \in Matches, NEW n \in Seqs, NEW r \in RowType
  PROVE  /\ [delivery EXCEPT ![m] = [delivery[m] EXCEPT ![n] = r]] \in [Matches -> [Seqs -> RowType]]
         /\ [delivery EXCEPT ![m] = [delivery[m] EXCEPT ![n] = r]][m][n] = r
         /\ \A k \in Matches, l \in Seqs : k # m \/ l # n =>
                [delivery EXCEPT ![m] = [delivery[m] EXCEPT ![n] = r]][k][l] = delivery[k][l]
  <1>1. delivery[m] \in [Seqs -> RowType]
    BY DEF TypeOK
  <1>2. [delivery[m] EXCEPT ![n] = r] \in [Seqs -> RowType]
    BY <1>1
  <1> QED BY <1>1, <1>2 DEF TypeOK

\* At most one match's step changed: what the other matches' attempts stand at is what it was.
LEMMA FlightElsewhere ==
  ASSUME NEW k \in Matches, todo'[k] = todo[k], at'[k] = at[k], NEW n \in Seqs
  PROVE  InFlight(k, n)' <=> InFlight(k, n)
  BY DEF InFlight, Least, Min

\* An attempt at the row m has come to is over, in a row that counts it.
LEMMA SettledKeeps ==
  ASSUME Inv, NEW m \in Matches, todo[m] # {}, at[m] # "stopping", NEW r \in RowType,
         Settled(m, r),
         r.status = "pending" => r.attempt < MaxAttempts,
         r.attempt >= Row(m).attempt + (IF at[m] = "idle" THEN 0 ELSE 1),
         UNCHANGED <<facts, stopped, up, emitting, pass, kicked, more, history, fate>>
  PROVE  Inv'
  <1> DEFINE n == Least(m)
  <1>1. TypeOK /\ RowInv /\ PassInv /\ LeftInv /\ CountInv
    BY DEF Inv
  <1>2. n \in todo[m] /\ n \in Seqs
    BY <1>1, LeastIsTaken DEF TypeOK
  <1>3. /\ delivery' \in [Matches -> [Seqs -> RowType]]
        /\ delivery'[m][n] = r
        /\ \A k \in Matches, l \in Seqs : k # m \/ l # n => delivery'[k][l] = delivery[k][l]
    <2>1. delivery' = [delivery EXCEPT ![m] = [delivery[m] EXCEPT ![n] = r]]
      BY DEF Settled
    <2>2. /\ [delivery EXCEPT ![m] = [delivery[m] EXCEPT ![n] = r]] \in [Matches -> [Seqs -> RowType]]
          /\ [delivery EXCEPT ![m] = [delivery[m] EXCEPT ![n] = r]][m][n] = r
          /\ \A k \in Matches, l \in Seqs : k # m \/ l # n =>
                 [delivery EXCEPT ![m] = [delivery[m] EXCEPT ![n] = r]][k][l] = delivery[k][l]
      <3> HIDE DEF n
      <3> QED BY <1>1, <1>2, SetRow
    <2> QED BY <2>1, <2>2, Zenon
  <1>4. /\ todo' \in [Matches -> SUBSET Seqs] /\ todo'[m] = todo[m] \ {n}
        /\ at'[m] = "idle" /\ at' \in [Matches -> {"idle", "posted", "stopping"} \cup Outcomes]
        /\ \A k \in Matches : k # m => todo'[k] = todo[k] /\ at'[k] = at[k]
    BY <1>1, <1>2 DEF TypeOK, Settled
  <1>5. delivery[m][n].status = "pending"
    BY <1>1, <1>2 DEF PassInv
  <1>6. TypeOK'
    BY <1>1, <1>3, <1>4 DEF TypeOK, history, fate
  <1>7. RowInv'
    <2>1. ASSUME NEW k \in Matches, NEW l \in Seqs, l > facts[k] \/ l = emitting[k]
          PROVE  delivery'[k][l] = NoRow
      <3>1. delivery[k][l] = NoRow
        BY <1>1, <2>1 DEF RowInv
      <3>2. k # m \/ l # n
        BY <3>1, <1>5 DEF NoRow
      <3> QED BY <1>3, <3>1, <3>2
    <2> QED BY <1>1, <2>1 DEF RowInv
  <1>8. PassInv'
    <2>1. ASSUME NEW k \in Matches, NEW l \in todo'[k]
          PROVE  delivery'[k][l].status = "pending" \/ (at'[k] = "stopping" /\ l = Least(k)')
      <3>1. l \in todo[k] /\ l \in Seqs /\ (k # m \/ l # n)
        BY <1>1, <1>4 DEF TypeOK
      <3>2. delivery'[k][l] = delivery[k][l]
        BY <1>3, <3>1
      <3>3. CASE k = m
        BY <1>1, <3>1, <3>2, <3>3 DEF PassInv
      <3>4. CASE k # m
        BY <1>1, <1>4, <3>1, <3>2, <3>4 DEF PassInv, Least, Min
      <3> QED BY <3>3, <3>4
    <2> QED BY <2>1 DEF PassInv
  <1>9. LeftInv'
    <2>1. ASSUME NEW k \in Matches, NEW l \in Seqs, delivery'[k][l].status = "pending"
          PROVE  delivery'[k][l].attempt < MaxAttempts
      BY <1>1, <1>3, <2>1 DEF LeftInv
    <2> QED BY <2>1 DEF LeftInv
  <1>10. CountInv'
    <2>1. ASSUME NEW k \in Matches, NEW l \in Seqs
          PROVE  sent'[k][l] <= delivery'[k][l].attempt + crashes' + throws'
                                + (IF InFlight(k, l)' THEN 1 ELSE 0)
      <3>1. sent'[k][l] = sent[k][l] /\ crashes' = crashes /\ throws' = throws
        BY DEF history, fate
      <3>2. sent[k][l] <= delivery[k][l].attempt + crashes + throws
                          + (IF InFlight(k, l) THEN 1 ELSE 0)
        BY <1>1 DEF CountInv
      <3>3. /\ sent[k][l] \in Nat /\ crashes \in Nat /\ throws \in Nat
            /\ delivery[k][l].attempt \in Nat /\ delivery'[k][l].attempt \in Nat
        BY <1>1, <1>3, WebhookAssumption DEF TypeOK, RowType
      <3>4. CASE k # m
        <4>1. InFlight(k, l)' <=> InFlight(k, l)
          BY <1>4, <3>4, FlightElsewhere
        <4> QED BY <1>3, <3>1, <3>2, <3>4, <4>1
      <3>5. CASE k = m /\ l # n
        <4>1. ~InFlight(k, l)
          BY <3>5 DEF InFlight
        <4> QED BY <1>3, <3>1, <3>2, <3>3, <3>5, <4>1
      <3>6. CASE k = m /\ l = n
        <4>1. InFlight(k, l) => at[m] # "idle"
          BY <3>6 DEF InFlight, Outcomes
        <4>2. sent[m][n] <= r.attempt + crashes + throws
          BY <3>2, <3>3, <3>6, <4>1, <1>3 DEF Row
        <4> QED BY <1>3, <3>1, <3>3, <3>6, <4>2
      <3> QED BY <3>4, <3>5, <3>6
    <2> QED BY <2>1 DEF CountInv
  <1> QED BY <1>6, <1>7, <1>8, <1>9, <1>10 DEF Inv
LEMMA Slack ==
  ASSUME NEW s \in Nat, NEW a \in Nat, NEW c \in Nat, NEW t \in Nat, NEW f \in Nat,
         NEW cc \in Nat, NEW tt \in Nat, cc + tt >= c + t, s <= a + c + t + f
  PROVE  s <= a + cc + tt + f
  OBVIOUS

\* Nothing a row or an attempt says is disturbed, and the count of mishaps does not fall.
LEMMA QuietKeeps ==
  ASSUME Inv, TypeOK', UNCHANGED <<facts, delivery, todo, at, sent>>,
         crashes' + throws' >= crashes + throws,
         \A m \in Matches : emitting'[m] \in {emitting[m], 0}
  PROVE  Inv'
  <1>1. TypeOK /\ RowInv /\ PassInv /\ LeftInv /\ CountInv
    BY DEF Inv
  <1>2. RowInv'
    <2>1. ASSUME NEW m \in Matches, NEW n \in Seqs, n > facts'[m] \/ n = emitting'[m]
          PROVE  n > facts[m] \/ n = emitting[m]
      BY <2>1, WebhookAssumption DEF Seqs
    <2>2. \A m \in Matches : emitting'[m] <= facts'[m]
      BY <1>1 DEF TypeOK, RowInv
    <2> QED BY <1>1, <2>1, <2>2 DEF RowInv
  <1>3. PassInv' /\ LeftInv'
    BY <1>1 DEF PassInv, LeftInv, Least
  <1>4. CountInv'
    <2>1. ASSUME NEW m \in Matches, NEW n \in Seqs
          PROVE  sent'[m][n] <= delivery'[m][n].attempt + crashes' + throws'
                                + (IF InFlight(m, n)' THEN 1 ELSE 0)
      <3>1. sent[m][n] <= delivery[m][n].attempt + crashes + throws
                          + (IF InFlight(m, n) THEN 1 ELSE 0)
        BY <1>1 DEF CountInv
      <3>2. InFlight(m, n)' <=> InFlight(m, n)
        BY DEF InFlight, Least
      <3>3. /\ sent[m][n] \in Nat /\ crashes \in Nat /\ throws \in Nat /\ crashes' \in Nat
            /\ throws' \in Nat /\ delivery[m][n].attempt \in Nat
        BY <1>1, WebhookAssumption DEF TypeOK, RowType
      <3>4. sent'[m][n] = sent[m][n] /\ delivery'[m][n] = delivery[m][n]
        OBVIOUS
      <3> DEFINE flight == IF InFlight(m, n) THEN 1 ELSE 0
      <3>5. flight \in Nat /\ sent[m][n] <= delivery[m][n].attempt + crashes + throws + flight
        BY <3>1
      <3>6. (IF InFlight(m, n)' THEN 1 ELSE 0) = flight
        BY <3>2
      <3> HIDE DEF flight
      <3>7. sent[m][n] <= delivery[m][n].attempt + crashes' + throws' + flight
        BY <3>3, <3>5, Slack
      <3> QED BY <3>4, <3>6, <3>7
    <2> QED BY <2>1 DEF CountInv
  <1> QED BY <1>1, <1>2, <1>3, <1>4 DEF Inv

-----------------------------------------------------------------------------
(* One lemma per action.                                                   *)

LEMMA InitHolds == Init => Inv
  <1> SUFFICES ASSUME Init PROVE Inv
    OBVIOUS
  <1>1. NoRow \in RowType
    BY WebhookAssumption DEF NoRow, RowType
  <1>2. TypeOK
    <2>1. /\ delivery \in [Matches -> [Seqs -> RowType]]
          /\ sent \in [Matches -> [Seqs -> Nat]]
      BY <1>1 DEF Init
    <2>2. /\ facts \in [Matches -> 0..MaxFacts]
          /\ emitting \in [Matches -> 0..MaxFacts]
          /\ \A m \in Matches : emitting[m] = 0
      BY WebhookAssumption DEF Init
    <2>3. /\ at \in [Matches -> {"idle"}]
          /\ todo \in [Matches -> SUBSET Seqs]
          /\ \A m \in Matches : todo[m] = {} /\ at[m] = "idle"
      BY DEF Init
    <2>4. at \in [Matches -> {"idle", "posted", "stopping"} \cup Outcomes]
      BY <2>3
    <2> QED BY <2>1, <2>2, <2>3, <2>4 DEF Init, TypeOK
  <1>3. RowInv /\ PassInv /\ LeftInv
    BY DEF Init, RowInv, PassInv, LeftInv, NoRow
  <1>4. CountInv
    BY WebhookAssumption DEF Init, CountInv, NoRow
  <1> QED BY <1>2, <1>3, <1>4 DEF Inv

LEMMA SayKeeps == ASSUME NEW m \in Matches PROVE Inv /\ Say(m) => Inv'
  <1> SUFFICES ASSUME Inv, Say(m) PROVE Inv'
    OBVIOUS
  <1>1. TypeOK /\ RowInv /\ PassInv /\ LeftInv /\ CountInv
    BY DEF Inv
  <1>2. UNCHANGED <<delivery, stopped, up, pass, kicked, more, todo, at, sent, gone, crashes, throws>>
    BY DEF Say, worker, history, fate
  <1>3. /\ facts[m] \in 0..MaxFacts /\ facts[m] < MaxFacts
        /\ facts' = [facts EXCEPT ![m] = facts[m] + 1]
        /\ emitting' = [emitting EXCEPT ![m] = facts[m] + 1] /\ up
    BY <1>1 DEF Say, TypeOK
  <1>4. TypeOK'
    <2>1. facts[m] + 1 \in 0..MaxFacts
      BY <1>3, WebhookAssumption
    <2> QED BY <1>1, <1>2, <1>3, <2>1 DEF TypeOK
  <1>5. RowInv'
    <2>1. ASSUME NEW k \in Matches, NEW l \in Seqs, l > facts'[k] \/ l = emitting'[k]
          PROVE  l > facts[k] \/ l = emitting[k]
      BY <1>1, <1>3, <2>1, WebhookAssumption DEF TypeOK, Seqs
    <2>2. \A k \in Matches : emitting'[k] <= facts'[k]
      BY <1>1, <1>3 DEF TypeOK, RowInv
    <2> QED BY <1>1, <1>2, <2>1, <2>2 DEF RowInv
  <1>6. PassInv' /\ LeftInv' /\ CountInv'
    BY <1>1, <1>2 DEF PassInv, LeftInv, CountInv, InFlight, Least
  <1> QED BY <1>4, <1>5, <1>6 DEF Inv

LEMMA QueueKeeps == ASSUME NEW m \in Matches PROVE Inv /\ Queue(m) => Inv'
  <1> SUFFICES ASSUME Inv, Queue(m) PROVE Inv'
    OBVIOUS
  <1> DEFINE n == emitting[m]
             r == [status |-> "pending", attempt |-> 0, due |-> TRUE]
  <1>1. TypeOK /\ RowInv /\ PassInv /\ LeftInv /\ CountInv
    BY DEF Inv
  <1>2. UNCHANGED <<facts, stopped, up, more, todo, at, sent, gone, crashes, throws>>
    BY DEF Queue, history, fate
  <1>3. n \in Seqs /\ r \in RowType
    BY <1>1, WebhookAssumption DEF Queue, TypeOK, Seqs, RowType
  <1>4. /\ delivery' \in [Matches -> [Seqs -> RowType]]
        /\ delivery'[m][n] = r
        /\ \A k \in Matches, l \in Seqs : k # m \/ l # n => delivery'[k][l] = delivery[k][l]
    <2>1. delivery' = [delivery EXCEPT ![m] = [delivery[m] EXCEPT ![n] = r]]
      BY DEF Queue
    <2>2. /\ [delivery EXCEPT ![m] = [delivery[m] EXCEPT ![n] = r]] \in [Matches -> [Seqs -> RowType]]
          /\ [delivery EXCEPT ![m] = [delivery[m] EXCEPT ![n] = r]][m][n] = r
          /\ \A k \in Matches, l \in Seqs : k # m \/ l # n =>
                 [delivery EXCEPT ![m] = [delivery[m] EXCEPT ![n] = r]][k][l] = delivery[k][l]
      <3> HIDE DEF n, r
      <3> QED BY <1>1, <1>3, SetRow
    <2> QED BY <2>1, <2>2, Zenon
  <1>5. delivery[m][n] = NoRow
    BY <1>1, <1>3 DEF RowInv
  <1>6. up /\ emitting' = [emitting EXCEPT ![m] = 0] /\ emitting' \in [Matches -> 0..MaxFacts]
    BY <1>1, WebhookAssumption DEF Queue, TypeOK
  <1>7. TypeOK'
    <2>1. pass' \in {"off", "list", "work"} /\ kicked' \in BOOLEAN
          /\ (pass' # "work" => pass # "work")
      BY <1>1 DEF Queue, Kick, TypeOK
    <2> QED BY <1>1, <1>2, <1>4, <1>6, <2>1 DEF TypeOK
  <1>8. RowInv'
    <2>1. ASSUME NEW k \in Matches, NEW l \in Seqs, l > facts'[k] \/ l = emitting'[k]
          PROVE  delivery'[k][l] = NoRow
      <3>1. l > facts[k] \/ l = emitting[k]
        BY <1>1, <1>2, <1>6, <2>1, WebhookAssumption DEF TypeOK, Seqs
      <3>2. delivery[k][l] = NoRow
        BY <1>1, <3>1 DEF RowInv
      <3>3. k # m \/ l # n
        <4>1. n <= facts[m] /\ n \in Nat /\ n # 0 /\ emitting'[m] = 0
          BY <1>1, <1>3, <1>6, WebhookAssumption DEF TypeOK, RowInv, Seqs
        <4> QED BY <1>1, <1>2, <2>1, <4>1 DEF TypeOK
      <3> QED BY <1>4, <3>2, <3>3
    <2>2. \A k \in Matches : emitting'[k] <= facts'[k]
      BY <1>1, <1>2, <1>6 DEF TypeOK, RowInv
    <2> QED BY <2>1, <2>2 DEF RowInv
  <1>9. PassInv'
    <2>1. ASSUME NEW k \in Matches, NEW l \in todo'[k]
          PROVE  delivery'[k][l].status = "pending" \/ (at'[k] = "stopping" /\ l = Least(k)')
      <3>1. l \in Seqs /\ Least(k)' = Least(k)
        BY <1>1, <1>2 DEF TypeOK, Least
      <3> QED BY <1>1, <1>2, <1>4, <2>1, <3>1 DEF PassInv
    <2> QED BY <2>1 DEF PassInv
  <1>10. LeftInv'
    <2>1. ASSUME NEW k \in Matches, NEW l \in Seqs, delivery'[k][l].status = "pending"
          PROVE  delivery'[k][l].attempt < MaxAttempts
      <3>1. CASE k = m /\ l = n
        BY <1>4, <3>1, WebhookAssumption
      <3>2. CASE k # m \/ l # n
        BY <1>1, <1>4, <2>1, <3>2 DEF LeftInv
      <3> QED BY <3>1, <3>2
    <2> QED BY <2>1 DEF LeftInv
  <1>11. CountInv'
    <2>1. ASSUME NEW k \in Matches, NEW l \in Seqs
          PROVE  sent'[k][l] <= delivery'[k][l].attempt + crashes' + throws'
                                + (IF InFlight(k, l)' THEN 1 ELSE 0)
      <3>1. InFlight(k, l)' <=> InFlight(k, l)
        BY <1>2 DEF InFlight, Least
      <3>2. delivery'[k][l].attempt = delivery[k][l].attempt
        BY <1>4, <1>5 DEF NoRow
      <3> QED BY <1>1, <1>2, <3>1, <3>2 DEF CountInv
    <2> QED BY <2>1 DEF CountInv
  <1> QED BY <1>7, <1>8, <1>9, <1>10, <1>11 DEF Inv
LEMMA RipenKeeps ==
  ASSUME NEW m \in Matches, NEW n \in Seqs PROVE Inv /\ Ripen(m, n) => Inv'
  <1> SUFFICES ASSUME Inv, Ripen(m, n) PROVE Inv'
    OBVIOUS
  <1> DEFINE r == [delivery[m][n] EXCEPT !.due = TRUE]
  <1>1. TypeOK /\ RowInv /\ PassInv /\ LeftInv /\ CountInv
    BY DEF Inv
  <1>2. UNCHANGED <<facts, stopped, up, emitting, pass, kicked, more, todo, at, sent, gone, crashes, throws>>
    BY DEF Ripen, worker, history, fate
  <1>3. /\ r \in RowType /\ r.status = "pending" /\ r.attempt = delivery[m][n].attempt
        /\ delivery[m][n].status = "pending"
    <2>1. delivery[m][n] \in RowType /\ delivery[m][n].status = "pending"
      BY <1>1 DEF Ripen, TypeOK
    <2> QED BY <2>1 DEF RowType
  <1>4. /\ delivery' \in [Matches -> [Seqs -> RowType]]
        /\ delivery'[m][n] = r
        /\ \A k \in Matches, l \in Seqs : k # m \/ l # n => delivery'[k][l] = delivery[k][l]
    <2>1. delivery' = [delivery EXCEPT ![m] = [delivery[m] EXCEPT ![n] = r]]
      BY <1>1 DEF Ripen, TypeOK
    <2>2. /\ [delivery EXCEPT ![m] = [delivery[m] EXCEPT ![n] = r]] \in [Matches -> [Seqs -> RowType]]
          /\ [delivery EXCEPT ![m] = [delivery[m] EXCEPT ![n] = r]][m][n] = r
          /\ \A k \in Matches, l \in Seqs : k # m \/ l # n =>
                 [delivery EXCEPT ![m] = [delivery[m] EXCEPT ![n] = r]][k][l] = delivery[k][l]
      <3> HIDE DEF r
      <3> QED BY <1>1, <1>3, SetRow
    <2> QED BY <2>1, <2>2, Zenon
  <1>5. \A k \in Matches, l \in Seqs : /\ delivery'[k][l].status = delivery[k][l].status
                                       /\ delivery'[k][l].attempt = delivery[k][l].attempt
    <2> HIDE DEF r
    <2> QED BY <1>3, <1>4
  <1>6. TypeOK'
    BY <1>1, <1>2, <1>4 DEF TypeOK
  <1>7. RowInv'
    <2>1. ASSUME NEW k \in Matches, NEW l \in Seqs, l > facts'[k] \/ l = emitting'[k]
          PROVE  delivery'[k][l] = NoRow
      <3>1. delivery[k][l] = NoRow
        BY <1>1, <1>2, <2>1 DEF RowInv
      <3>2. k # m \/ l # n
        BY <1>3, <3>1 DEF NoRow
      <3> QED BY <1>4, <3>1, <3>2
    <2> QED BY <1>1, <1>2, <2>1 DEF RowInv
  <1>8. PassInv' /\ LeftInv' /\ CountInv'
    <2>1. \A k \in Matches : todo[k] \subseteq Seqs /\ Least(k)' = Least(k)
      BY <1>1, <1>2 DEF TypeOK, Least
    <2>2. PassInv'
      BY <1>1, <1>2, <1>5, <2>1 DEF PassInv
    <2>3. LeftInv'
      BY <1>1, <1>5 DEF LeftInv
    <2>4. \A k \in Matches, l \in Seqs : InFlight(k, l)' <=> InFlight(k, l)
      BY <1>2, <2>1 DEF InFlight
    <2>5. CountInv'
      BY <1>1, <1>2, <1>5, <2>4 DEF CountInv
    <2> QED BY <2>2, <2>3, <2>5
  <1> QED BY <1>6, <1>7, <1>8 DEF Inv

LEMMA ListKeeps == Inv /\ List => Inv'
  <1> SUFFICES ASSUME Inv, List PROVE Inv'
    OBVIOUS
  <1>1. TypeOK /\ RowInv /\ PassInv /\ LeftInv /\ CountInv
    BY DEF Inv
  <1>2. /\ UNCHANGED <<facts, delivery, stopped, up, emitting, kicked, at, sent, gone, crashes, throws>>
        /\ pass = "list" /\ pass' = "work" /\ more' \in BOOLEAN
    BY DEF List, store, history, fate
  <1>3. \A m \in Matches : todo[m] = {} /\ at[m] = "idle"
    BY <1>1, <1>2 DEF TypeOK
  <1>4. ASSUME NEW m \in Matches
        PROVE  todo'[m] \in SUBSET Seqs /\ \A n \in todo'[m] : delivery[m][n].status = "pending"
    <2>1. todo'[m] = IF m \in Taken THEN {n \in Seqs : <<m, n>> \in Listed} ELSE {}
      BY DEF List
    <2>2. \A n \in Seqs : <<m, n>> \in Listed => delivery[m][n].status = "pending"
      <3>1. Listed \subseteq Due
        BY DEF Listed
      <3>2. \A n \in Seqs : <<m, n>> \in Due => delivery[m][n].status = "pending"
        BY DEF Due
      <3> QED BY <3>1, <3>2
    <2> QED BY <2>1, <2>2
  <1>5. todo' \in [Matches -> SUBSET Seqs]
    <2>1. todo' = [m \in Matches |-> todo'[m]]
      BY DEF List
    <2> QED BY <1>4, <2>1
  <1>6. TypeOK'
    BY <1>1, <1>2, <1>3, <1>5 DEF TypeOK
  <1>7. RowInv' /\ PassInv' /\ LeftInv'
    BY <1>1, <1>2, <1>4 DEF RowInv, PassInv, LeftInv
  <1>8. CountInv'
    <2>1. \A m \in Matches, n \in Seqs : ~InFlight(m, n) /\ ~InFlight(m, n)'
      BY <1>2, <1>3 DEF InFlight, Outcomes
    <2> QED BY <1>1, <1>2, <2>1 DEF CountInv
  <1> QED BY <1>6, <1>7, <1>8 DEF Inv

LEMMA PostKeeps == ASSUME NEW m \in Matches PROVE Inv /\ Post(m) => Inv'
  <1> SUFFICES ASSUME Inv, Post(m) PROVE Inv'
    OBVIOUS
  <1> DEFINE n == Least(m)
  <1>1. TypeOK /\ RowInv /\ PassInv /\ LeftInv /\ CountInv
    BY DEF Inv
  <1>2. /\ UNCHANGED <<facts, delivery, stopped, up, emitting, pass, kicked, more, todo, gone, crashes, throws>>
        /\ todo[m] # {} /\ at[m] = "idle"
    BY DEF Post, store, fate
  <1>3. n \in todo[m] /\ n \in Seqs /\ \A k \in Matches : Least(k)' = Least(k)
    BY <1>1, <1>2, LeastIsTaken DEF TypeOK, Least
  <1>4. /\ at' \in [Matches -> {"idle", "posted", "stopping"} \cup Outcomes] /\ at'[m] = "posted"
        /\ \A k \in Matches : k # m => at'[k] = at[k]
    BY <1>1 DEF Post, TypeOK
  <1>5. /\ sent' \in [Matches -> [Seqs -> Nat]] /\ sent'[m][n] = sent[m][n] + 1
        /\ \A k \in Matches, l \in Seqs : k # m \/ l # n => sent'[k][l] = sent[k][l]
    <2>1. sent' = [sent EXCEPT ![m] = [sent[m] EXCEPT ![n] = sent[m][n] + 1]]
      BY <1>1 DEF Post, TypeOK
    <2>2. sent[m] \in [Seqs -> Nat] /\ [sent[m] EXCEPT ![n] = sent[m][n] + 1] \in [Seqs -> Nat]
      BY <1>1, <1>3 DEF TypeOK
    <2> HIDE DEF n
    <2> QED BY <1>1, <1>3, <2>1, <2>2 DEF TypeOK
  <1>6. TypeOK'
    BY <1>1, <1>2, <1>4, <1>5 DEF TypeOK
  <1>7. RowInv' /\ LeftInv'
    BY <1>1, <1>2 DEF RowInv, LeftInv
  <1>8. PassInv'
    BY <1>1, <1>2, <1>3, <1>4 DEF PassInv
  <1>9. CountInv'
    <2>1. ASSUME NEW k \in Matches, NEW l \in Seqs
          PROVE  sent'[k][l] <= delivery'[k][l].attempt + crashes' + throws'
                                + (IF InFlight(k, l)' THEN 1 ELSE 0)
      <3>1. sent[k][l] <= delivery[k][l].attempt + crashes + throws
                          + (IF InFlight(k, l) THEN 1 ELSE 0)
        BY <1>1 DEF CountInv
      <3>2. CASE k = m /\ l = n
        <4>1. ~InFlight(k, l) /\ InFlight(k, l)'
          BY <1>2, <1>3, <1>4, <3>2 DEF InFlight, Outcomes
        <4>2. /\ sent[k][l] \in Nat /\ crashes \in Nat /\ throws \in Nat
              /\ delivery[k][l].attempt \in Nat
          BY <1>1, WebhookAssumption DEF TypeOK, RowType
        <4>3. sent[k][l] <= delivery[k][l].attempt + crashes + throws
          BY <3>1, <4>1, <4>2
        <4>4. sent'[k][l] = sent[k][l] + 1
          BY <1>5, <3>2
        <4>5. sent'[k][l] <= delivery[k][l].attempt + crashes + throws + 1
          BY <4>2, <4>3, <4>4
        <4> QED BY <1>2, <4>1, <4>5
      <3>3. CASE k # m \/ l # n
        <4>1. InFlight(k, l)' <=> InFlight(k, l)
          BY <1>2, <1>3, <1>4, <3>3 DEF InFlight, Outcomes
        <4> QED BY <1>2, <1>5, <3>1, <3>3, <4>1
      <3> QED BY <3>2, <3>3
    <2> QED BY <2>1 DEF CountInv
  <1> QED BY <1>6, <1>7, <1>8, <1>9 DEF Inv

LEMMA AnswerKeeps ==
  ASSUME NEW m \in Matches, NEW outcome \in Outcomes PROVE Inv /\ Answer(m, outcome) => Inv'
  <1> SUFFICES ASSUME Inv, Answer(m, outcome) PROVE Inv'
    OBVIOUS
  <1>1. TypeOK /\ RowInv /\ PassInv /\ LeftInv /\ CountInv
    BY DEF Inv
  <1>2. /\ UNCHANGED <<facts, delivery, stopped, up, emitting, pass, kicked, more, todo, sent, crashes, throws>>
        /\ at[m] = "posted" /\ gone' \subseteq Matches
    BY <1>1 DEF Answer, store, fate, TypeOK
  <1>3. /\ at' \in [Matches -> {"idle", "posted", "stopping"} \cup Outcomes] /\ at'[m] = outcome
        /\ \A k \in Matches : k # m => at'[k] = at[k]
    BY <1>1 DEF Answer, TypeOK
  <1>4. TypeOK'
    BY <1>1, <1>2, <1>3 DEF TypeOK
  <1>5. RowInv' /\ LeftInv'
    BY <1>1, <1>2 DEF RowInv, LeftInv
  <1>6. \A k \in Matches : Least(k)' = Least(k)
    BY <1>2 DEF Least
  <1>7. PassInv'
    BY <1>1, <1>2, <1>3, <1>6 DEF PassInv
  <1>8. CountInv'
    <2>1. \A k \in Matches, l \in Seqs : InFlight(k, l)' <=> InFlight(k, l)
      BY <1>2, <1>3, <1>6 DEF InFlight
    <2> QED BY <1>1, <1>2, <2>1 DEF CountInv
  <1> QED BY <1>4, <1>5, <1>7, <1>8 DEF Inv
LEMMA SkipKeeps == ASSUME NEW m \in Matches PROVE Inv /\ Skip(m) => Inv'
  <1> SUFFICES ASSUME Inv, Skip(m) PROVE Inv'
    OBVIOUS
  <1>1. Least(m) \in Seqs
    BY LeastIsTaken DEF Skip, Inv, TypeOK
  <1>2. Row(m) \in RowType
    BY <1>1 DEF Inv, TypeOK, Row
  <1> DEFINE r == [Row(m) EXCEPT !.status = "stopped"]
  <1>3. r \in RowType /\ r.status = "stopped" /\ r.attempt = Row(m).attempt
    BY <1>2 DEF RowType
  <1>4. Row(m).attempt \in Nat
    BY <1>2, WebhookAssumption DEF RowType
  <1>5. /\ todo[m] # {} /\ at[m] = "idle" /\ Settled(m, r)
        /\ UNCHANGED <<facts, stopped, up, emitting, pass, kicked, more, history, fate>>
    BY DEF Skip
  <1> HIDE DEF r
  <1> QED BY <1>3, <1>4, <1>5, SettledKeeps

LEMMA DeliveredKeeps == ASSUME NEW m \in Matches PROVE Inv /\ Delivered(m) => Inv'
  <1> SUFFICES ASSUME Inv, Delivered(m) PROVE Inv'
    OBVIOUS
  <1>1. todo[m] # {} /\ Least(m) \in todo[m] /\ Least(m) \in Seqs
    BY LeastIsTaken DEF Delivered, Inv, TypeOK
  <1>2. Row(m) \in RowType /\ Row(m).attempt < MaxAttempts
    BY <1>1 DEF Inv, TypeOK, Row, Delivered, PassInv, LeftInv
  <1>3. Row(m).attempt \in Nat /\ Row(m).attempt + 1 \in 0..MaxAttempts
    BY <1>2, WebhookAssumption DEF RowType
  <1> DEFINE r == [Row(m) EXCEPT !.status = "delivered", !.attempt = Row(m).attempt + 1, !.due = FALSE]
  <1>4. r \in RowType /\ r.status = "delivered" /\ r.attempt = Row(m).attempt + 1
    BY <1>2, <1>3 DEF RowType
  <1>5. /\ at[m] = "delivered" /\ Settled(m, r)
        /\ UNCHANGED <<facts, stopped, up, emitting, pass, kicked, more, history, fate>>
    BY DEF Delivered
  <1> HIDE DEF r
  <1> QED BY <1>1, <1>3, <1>4, <1>5, SettledKeeps

LEMMA RetryKeeps == ASSUME NEW m \in Matches PROVE Inv /\ Retry(m) => Inv'
  <1> SUFFICES ASSUME Inv, Retry(m) PROVE Inv'
    OBVIOUS
  <1>1. todo[m] # {} /\ Least(m) \in todo[m] /\ Least(m) \in Seqs
    BY LeastIsTaken DEF Retry, Inv, TypeOK
  <1>2. Row(m) \in RowType /\ Row(m).attempt < MaxAttempts
    BY <1>1 DEF Inv, TypeOK, Row, Retry, PassInv, LeftInv
  <1>3. Row(m).attempt \in Nat /\ Row(m).attempt + 1 \in 0..MaxAttempts
    BY <1>2, WebhookAssumption DEF RowType
  <1> DEFINE r == [status  |-> IF Row(m).attempt + 1 < MaxAttempts THEN "pending" ELSE "given_up",
                   attempt |-> Row(m).attempt + 1, due |-> FALSE]
  <1>4. /\ r \in RowType /\ r.attempt = Row(m).attempt + 1
        /\ r.status = "pending" => r.attempt < MaxAttempts
    BY <1>3 DEF RowType
  <1>5. /\ at[m] = "retry" /\ Settled(m, r)
        /\ UNCHANGED <<facts, stopped, up, emitting, pass, kicked, more, history, fate>>
    BY DEF Retry
  <1> HIDE DEF r
  <1> QED BY <1>1, <1>3, <1>4, <1>5, SettledKeeps

LEMMA GoneKeeps == ASSUME NEW m \in Matches PROVE Inv /\ Gone(m) => Inv'
  <1> SUFFICES ASSUME Inv, Gone(m) PROVE Inv'
    OBVIOUS
  <1> DEFINE n == Least(m)
             r == [status |-> "stopped", attempt |-> delivery[m][n].attempt + 1, due |-> FALSE]
  <1>1. TypeOK /\ RowInv /\ PassInv /\ LeftInv /\ CountInv
    BY DEF Inv
  <1>2. /\ UNCHANGED <<facts, stopped, up, emitting, pass, kicked, more, todo, sent, gone, crashes, throws>>
        /\ at[m] = "stopped"
    BY DEF Gone, history, fate
  <1>3. n \in todo[m] /\ n \in Seqs /\ \A k \in Matches : Least(k)' = Least(k)
    BY <1>1, <1>2, LeastIsTaken DEF TypeOK, Least
  <1>4. /\ delivery[m][n].status = "pending" /\ delivery[m][n].attempt \in Nat
        /\ delivery[m][n].attempt + 1 \in 0..MaxAttempts
    <2>1. delivery[m][n].status = "pending"
      BY <1>1, <1>2, <1>3 DEF PassInv
    <2>2. delivery[m][n].attempt \in Nat /\ delivery[m][n].attempt < MaxAttempts
      BY <1>1, <1>3, <2>1, WebhookAssumption DEF TypeOK, RowType, LeftInv
    <2> QED BY <2>1, <2>2, WebhookAssumption
  <1>5. r \in RowType /\ r.status = "stopped" /\ r.attempt = delivery[m][n].attempt + 1
    BY <1>4 DEF RowType
  <1>6. /\ delivery' \in [Matches -> [Seqs -> RowType]]
        /\ delivery'[m][n] = r
        /\ \A k \in Matches, l \in Seqs : k # m \/ l # n => delivery'[k][l] = delivery[k][l]
    <2>1. delivery' = [delivery EXCEPT ![m] = [delivery[m] EXCEPT ![n] = r]]
      BY <1>1, <1>3 DEF Gone, TypeOK
    <2>2. /\ [delivery EXCEPT ![m] = [delivery[m] EXCEPT ![n] = r]] \in [Matches -> [Seqs -> RowType]]
          /\ [delivery EXCEPT ![m] = [delivery[m] EXCEPT ![n] = r]][m][n] = r
          /\ \A k \in Matches, l \in Seqs : k # m \/ l # n =>
                 [delivery EXCEPT ![m] = [delivery[m] EXCEPT ![n] = r]][k][l] = delivery[k][l]
      <3> HIDE DEF n, r
      <3> QED BY <1>1, <1>3, <1>5, SetRow
    <2> QED BY <2>1, <2>2, Zenon
  <1>7. /\ at' \in [Matches -> {"idle", "posted", "stopping"} \cup Outcomes] /\ at'[m] = "stopping"
        /\ \A k \in Matches : k # m => at'[k] = at[k]
    BY <1>1 DEF Gone, TypeOK
  <1>8. TypeOK'
    BY <1>1, <1>2, <1>6, <1>7 DEF TypeOK
  <1>9. RowInv'
    <2>1. ASSUME NEW k \in Matches, NEW l \in Seqs, l > facts'[k] \/ l = emitting'[k]
          PROVE  delivery'[k][l] = NoRow
      <3>1. delivery[k][l] = NoRow
        BY <1>1, <1>2, <2>1 DEF RowInv
      <3>2. k # m \/ l # n
        BY <1>4, <3>1 DEF NoRow
      <3> QED BY <1>6, <3>1, <3>2
    <2> QED BY <1>1, <1>2, <2>1 DEF RowInv
  <1>10. PassInv'
    <2>1. ASSUME NEW k \in Matches, NEW l \in todo'[k]
          PROVE  delivery'[k][l].status = "pending" \/ (at'[k] = "stopping" /\ l = Least(k)')
      <3>1. l \in todo[k] /\ l \in Seqs
        BY <1>1, <1>2 DEF TypeOK
      <3>2. CASE k = m /\ l = n
        BY <1>3, <1>7, <3>2
      <3>3. CASE k # m \/ l # n
        BY <1>1, <1>2, <1>3, <1>6, <1>7, <3>1, <3>3 DEF PassInv
      <3> QED BY <3>2, <3>3
    <2> QED BY <2>1 DEF PassInv
  <1>11. LeftInv'
    <2>1. ASSUME NEW k \in Matches, NEW l \in Seqs, delivery'[k][l].status = "pending"
          PROVE  delivery'[k][l].attempt < MaxAttempts
      <3>1. k # m \/ l # n
        BY <1>5, <1>6, <2>1
      <3> QED BY <1>1, <1>6, <2>1, <3>1 DEF LeftInv
    <2> QED BY <2>1 DEF LeftInv
  <1>12. CountInv'
    <2>1. ASSUME NEW k \in Matches, NEW l \in Seqs
          PROVE  sent'[k][l] <= delivery'[k][l].attempt + crashes' + throws'
                                + (IF InFlight(k, l)' THEN 1 ELSE 0)
      <3>1. sent[k][l] <= delivery[k][l].attempt + crashes + throws
                          + (IF InFlight(k, l) THEN 1 ELSE 0)
        BY <1>1 DEF CountInv
      <3>2. CASE k = m /\ l = n
        <4>1. InFlight(k, l) /\ ~InFlight(k, l)'
          BY <1>2, <1>3, <1>7, <3>2 DEF InFlight, Outcomes
        <4>2. /\ sent[k][l] \in Nat /\ crashes \in Nat /\ throws \in Nat
              /\ delivery[k][l].attempt \in Nat
          BY <1>1, WebhookAssumption DEF TypeOK, RowType
        <4>3. sent[k][l] <= (delivery[k][l].attempt + 1) + crashes + throws
          BY <3>1, <4>1, <4>2
        <4>4. delivery'[k][l].attempt = delivery[k][l].attempt + 1
          BY <1>5, <1>6, <3>2
        <4>5. sent'[k][l] <= delivery'[k][l].attempt + crashes' + throws'
          BY <1>2, <4>3, <4>4
        <4>6. (IF InFlight(k, l)' THEN 1 ELSE 0) = 0
          BY <4>1
        <4> QED BY <1>2, <4>2, <4>4, <4>5, <4>6
      <3>3. CASE k # m \/ l # n
        <4>1. InFlight(k, l)' <=> InFlight(k, l)
          BY <1>2, <1>3, <1>7, <3>3 DEF InFlight, Outcomes
        <4> QED BY <1>2, <1>6, <3>1, <3>3, <4>1
      <3> QED BY <3>2, <3>3
    <2> QED BY <2>1 DEF CountInv
  <1> QED BY <1>8, <1>9, <1>10, <1>11, <1>12 DEF Inv
\* A POST in flight is made up for by the mishap that cost its answer.
LEMMA Overtaken ==
  ASSUME NEW s \in Nat, NEW a \in Nat, NEW c \in Nat, NEW t \in Nat, NEW d \in Nat, NEW u \in Nat,
         NEW P, NEW Q, P => ~Q,
         s <= a + c + t + (IF P THEN 1 ELSE 0), d + u >= c + t + (IF Q THEN 0 ELSE 1)
  PROVE  s <= a + d + u
  <1>1. CASE P
    BY <1>1
  <1>2. CASE ~P
    BY <1>2
  <1> QED BY <1>1, <1>2

LEMMA AtLeast ==
  ASSUME NEW c \in Nat, NEW t \in Nat, NEW d \in Nat, NEW u \in Nat,
         NEW Q, d + u >= c + t + (IF Q THEN 0 ELSE 1)
  PROVE  d + u >= c + t
  <1>1. CASE Q
    BY <1>1
  <1>2. CASE ~Q
    BY <1>2
  <1> QED BY <1>1, <1>2

\* Mishaps only add to the bound.
LEMMA NoFewer ==
  ASSUME NEW s \in Nat, NEW a \in Nat, NEW c \in Nat, NEW t \in Nat, NEW d \in Nat, NEW u \in Nat,
         NEW P, s <= a + c + t + (IF P THEN 1 ELSE 0), d + u >= c + t
  PROVE  s <= a + d + u + (IF P THEN 1 ELSE 0)
  <1>1. CASE P
    BY <1>1
  <1>2. CASE ~P
    BY <1>2
  <1> QED BY <1>1, <1>2

\* The row a match has come to is passed over: none of its attempt is left to count.
LEMMA LeftBehind ==
  ASSUME Inv, TypeOK', NEW m \in Matches, todo[m] # {},
         UNCHANGED <<facts, delivery, emitting, sent>>,
         todo' = [todo EXCEPT ![m] = todo[m] \ {Least(m)}],
         at' = [at EXCEPT ![m] = "idle"],
         crashes' + throws' >= crashes + throws + (IF at[m] = "stopping" THEN 0 ELSE 1)
  PROVE  Inv'
  <1> DEFINE n == Least(m)
  <1>1. TypeOK /\ RowInv /\ PassInv /\ LeftInv /\ CountInv
    BY DEF Inv
  <1>2. n \in todo[m] /\ n \in Seqs
    BY <1>1, LeastIsTaken DEF TypeOK
  <1>3. /\ todo'[m] = todo[m] \ {n} /\ at'[m] = "idle"
        /\ \A k \in Matches : k # m => todo'[k] = todo[k] /\ at'[k] = at[k] /\ Least(k)' = Least(k)
    BY <1>1 DEF TypeOK, Least
  <1>4. RowInv' /\ LeftInv'
    BY <1>1 DEF RowInv, LeftInv
  <1>5. PassInv'
    <2>1. ASSUME NEW k \in Matches, NEW l \in todo'[k]
          PROVE  delivery'[k][l].status = "pending" \/ (at'[k] = "stopping" /\ l = Least(k)')
      <3>1. CASE k = m
        BY <1>1, <1>3, <2>1, <3>1 DEF PassInv
      <3>2. CASE k # m
        BY <1>1, <1>3, <2>1, <3>2 DEF PassInv
      <3> QED BY <3>1, <3>2
    <2> QED BY <2>1 DEF PassInv
  <1>6. CountInv'
    <2>1. ASSUME NEW k \in Matches, NEW l \in Seqs
          PROVE  sent'[k][l] <= delivery'[k][l].attempt + crashes' + throws'
                                + (IF InFlight(k, l)' THEN 1 ELSE 0)
      <3>1. sent[k][l] <= delivery[k][l].attempt + crashes + throws
                          + (IF InFlight(k, l) THEN 1 ELSE 0)
        BY <1>1 DEF CountInv
      <3>2. /\ sent[k][l] \in Nat /\ crashes \in Nat /\ throws \in Nat /\ crashes' \in Nat
            /\ throws' \in Nat /\ delivery[k][l].attempt \in Nat
        BY <1>1, WebhookAssumption DEF TypeOK, RowType
      <3>3. sent'[k][l] = sent[k][l] /\ delivery'[k][l] = delivery[k][l]
        OBVIOUS
      <3>6. crashes' + throws' >= crashes + throws + (IF at[m] = "stopping" THEN 0 ELSE 1)
        OBVIOUS
      <3>7. crashes' + throws' >= crashes + throws
        BY <3>2, <3>6, AtLeast
      <3>4. CASE k = m
        <4>1. ~InFlight(k, l)'
          BY <1>3, <3>4 DEF InFlight, Outcomes
        <4>2. InFlight(k, l) => at[m] # "stopping"
          BY <3>4 DEF InFlight, Outcomes
        <4>3. sent[k][l] <= delivery[k][l].attempt + crashes' + throws'
          BY <3>1, <3>2, <3>6, <4>2, Overtaken
        <4> QED BY <3>3, <4>1, <4>3, <3>2
      <3>5. CASE k # m
        <4>1. InFlight(k, l)' <=> InFlight(k, l)
          BY <1>3, <3>5 DEF InFlight
        <4>2. sent[k][l] <= delivery[k][l].attempt + crashes' + throws'
                            + (IF InFlight(k, l) THEN 1 ELSE 0)
          BY <3>1, <3>2, <3>7, NoFewer
        <4> QED BY <3>3, <4>1, <4>2
      <3> QED BY <3>4, <3>5
    <2> QED BY <2>1 DEF CountInv
  <1> QED BY <1>4, <1>5, <1>6 DEF Inv

LEMMA StopMatchKeeps == ASSUME NEW m \in Matches PROVE Inv /\ StopMatch(m) => Inv'
  <1> SUFFICES ASSUME Inv, StopMatch(m) PROVE Inv'
    OBVIOUS
  <1>1. TypeOK
    BY DEF Inv
  <1>2. /\ UNCHANGED <<facts, delivery, up, emitting, pass, kicked, more, sent, gone, crashes, throws>>
        /\ at[m] = "stopping" /\ stopped' = stopped \cup {m}
        /\ todo' = [todo EXCEPT ![m] = todo[m] \ {Least(m)}]
        /\ at' = [at EXCEPT ![m] = "idle"]
    BY DEF StopMatch, history, fate
  <1>3. todo[m] # {} /\ crashes' + throws' >= crashes + throws + 0
    BY <1>1, <1>2 DEF TypeOK
  <1>4. TypeOK'
    BY <1>1, <1>2 DEF TypeOK
  <1> QED BY <1>2, <1>3, <1>4, LeftBehind

LEMMA AttemptThrowsKeeps == ASSUME NEW m \in Matches PROVE Inv /\ AttemptThrows(m) => Inv'
  <1> SUFFICES ASSUME Inv, AttemptThrows(m) PROVE Inv'
    OBVIOUS
  <1>1. TypeOK
    BY DEF Inv
  <1>2. /\ UNCHANGED <<facts, delivery, stopped, up, emitting, pass, kicked, more, sent, gone, crashes>>
        /\ todo[m] # {} /\ throws' = throws + 1
        /\ todo' = [todo EXCEPT ![m] = todo[m] \ {Least(m)}]
        /\ at' = [at EXCEPT ![m] = "idle"]
    BY DEF AttemptThrows, store, history
  <1>3. crashes' + throws' >= crashes + throws + (IF at[m] = "stopping" THEN 0 ELSE 1)
    BY <1>1, <1>2 DEF TypeOK
  <1>4. TypeOK'
    BY <1>1, <1>2 DEF TypeOK
  <1> QED BY <1>2, <1>3, <1>4, LeftBehind

LEMMA CrashKeeps == Inv /\ Crash => Inv'
  <1> SUFFICES ASSUME Inv, Crash PROVE Inv'
    OBVIOUS
  <1>1. TypeOK /\ RowInv /\ PassInv /\ LeftInv /\ CountInv
    BY DEF Inv
  <1>2. /\ UNCHANGED <<facts, delivery, stopped, sent, gone, throws>>
        /\ up' = FALSE /\ pass' = "off" /\ kicked' = FALSE /\ more' = FALSE
        /\ crashes' = crashes + 1
    BY DEF Crash, Idle, store, history
  <1>3. /\ emitting' = [m \in Matches |-> 0] /\ todo' = [m \in Matches |-> {}]
        /\ at' = [m \in Matches |-> "idle"]
    BY DEF Crash, Idle
  <1>4. /\ \A m \in Matches : emitting'[m] = 0 /\ todo'[m] = {} /\ at'[m] = "idle"
        /\ emitting' \in [Matches -> 0..MaxFacts] /\ todo' \in [Matches -> SUBSET Seqs]
        /\ at' \in [Matches -> {"idle", "posted", "stopping"} \cup Outcomes]
    <2>1. /\ \A m \in Matches : emitting'[m] = 0 /\ todo'[m] = {} /\ at'[m] = "idle"
          /\ todo' \in [Matches -> SUBSET Seqs]
          /\ at' \in [Matches -> {"idle", "posted", "stopping"} \cup Outcomes]
      BY <1>3
    <2>2. emitting' \in [Matches -> 0..MaxFacts]
      BY <1>3, WebhookAssumption
    <2> QED BY <2>1, <2>2
  <1>5. TypeOK'
    <2>1. crashes \in Nat /\ throws \in Nat
      BY <1>1 DEF TypeOK
    <2>2. crashes' \in Nat /\ throws' \in Nat
      BY <1>2, <2>1
    <2> QED BY <1>1, <1>2, <1>4, <2>2, ZenonT(40) DEF TypeOK
  <1>6. RowInv'
    <2>1. ASSUME NEW m \in Matches, NEW n \in Seqs, n > facts'[m] \/ n = emitting'[m]
          PROVE  n > facts[m]
      BY <1>2, <1>4, <2>1, WebhookAssumption DEF Seqs
    <2>2. \A m \in Matches : emitting'[m] <= facts'[m]
      BY <1>1, <1>2, <1>4 DEF TypeOK
    <2> QED BY <1>1, <1>2, <2>1, <2>2 DEF RowInv
  <1>7. PassInv' /\ LeftInv'
    BY <1>1, <1>2, <1>4 DEF PassInv, LeftInv
  <1>8. CountInv'
    <2>1. ASSUME NEW m \in Matches, NEW n \in Seqs
          PROVE  sent'[m][n] <= delivery'[m][n].attempt + crashes' + throws'
                                + (IF InFlight(m, n)' THEN 1 ELSE 0)
      <3>1. sent[m][n] <= delivery[m][n].attempt + crashes + throws
                          + (IF InFlight(m, n) THEN 1 ELSE 0)
        BY <1>1 DEF CountInv
      <3>2. /\ sent[m][n] \in Nat /\ crashes \in Nat /\ throws \in Nat
            /\ delivery[m][n].attempt \in Nat
        BY <1>1, WebhookAssumption DEF TypeOK, RowType
      <3>3. sent[m][n] <= delivery[m][n].attempt + (crashes + 1) + throws
        BY <3>1, <3>2
      <3>4. ~InFlight(m, n)'
        BY <1>4 DEF InFlight, Outcomes
      <3>5. (IF InFlight(m, n)' THEN 1 ELSE 0) = 0
        BY <3>4
      <3> QED BY <1>2, <3>2, <3>3, <3>5
    <2> QED BY <2>1 DEF CountInv
  <1> QED BY <1>5, <1>6, <1>7, <1>8 DEF Inv

\* What neither a row nor an attempt is disturbed by.
Quiet ==
    \/ \E m \in Matches : QueueNothing(m) \/ QueueThrows(m)
    \/ Sweep \/ PassEnd \/ ListThrows \/ Restart

LEMMA QuietStepKeeps == Inv /\ Quiet => Inv'
  <1> SUFFICES ASSUME Inv, Quiet PROVE Inv'
    OBVIOUS
  <1>1. TypeOK
    BY DEF Inv
  <1>2. /\ UNCHANGED <<facts, delivery, stopped, todo, at, sent, gone, crashes>>
        /\ throws' \in {throws, throws + 1}
    BY <1>1 DEF Quiet, QueueNothing, QueueThrows, Sweep, PassEnd, ListThrows, Restart, store,
       worker, history, fate
  <1>3. crashes' + throws' >= crashes + throws /\ throws' \in Nat
    <2>1. crashes \in Nat /\ throws \in Nat
      BY <1>1 DEF TypeOK
    <2>2. crashes' = crashes
      BY <1>2
    <2>3. CASE throws' = throws
      BY <2>1, <2>2, <2>3
    <2>4. CASE throws' = throws + 1
      BY <2>1, <2>2, <2>4
    <2> QED BY <1>2, <2>3, <2>4
  <1>4. /\ emitting' \in [Matches -> 0..MaxFacts]
        /\ \A m \in Matches : emitting'[m] \in {emitting[m], 0}
    BY <1>1, WebhookAssumption DEF TypeOK, Quiet, QueueNothing, QueueThrows, Sweep, PassEnd,
       ListThrows, Restart
  <1>5. /\ pass' \in {"off", "list", "work"} /\ kicked' \in BOOLEAN /\ more' \in BOOLEAN
        /\ up' \in BOOLEAN
        /\ pass' # "work" => \A m \in Matches : todo[m] = {}
        /\ ~up' => ~up /\ pass' = pass
    BY <1>1 DEF TypeOK, Quiet, QueueNothing, QueueThrows, Sweep, Kick, PassEnd, ListThrows,
       Restart, worker
  <1>6. TypeOK'
    BY <1>1, <1>2, <1>3, <1>4, <1>5 DEF TypeOK
  <1> QED BY <1>2, <1>3, <1>4, <1>6, QuietKeeps

-----------------------------------------------------------------------------
(* The theorems.                                                           *)

\* The invariant is inductive: what a pass holds, and what the rows say of the POSTs that were
\* made, at every place of an attempt (worker.ts attempt, machine.ts emit).
THEOREM WebhookInvariant == Spec => []Inv
  <1>1. Inv /\ [Next]_vars => Inv'
    <2> SUFFICES ASSUME Inv, [Next]_vars PROVE Inv'
      OBVIOUS
    <2>1. ASSUME NEW m \in Matches, Say(m) \/ Queue(m) PROVE Inv'
      BY <2>1, SayKeeps, QueueKeeps
    <2>2. ASSUME NEW m \in Matches, Attempt(m) PROVE Inv'
      BY <2>2, SkipKeeps, PostKeeps, AnswerKeeps, DeliveredKeeps, RetryKeeps, GoneKeeps,
         StopMatchKeeps DEF Attempt
    <2>3. ASSUME NEW m \in Matches, AttemptThrows(m) PROVE Inv'
      BY <2>3, AttemptThrowsKeeps
    <2>4. ASSUME NEW m \in Matches, NEW n \in Seqs, Ripen(m, n) PROVE Inv'
      BY <2>4, RipenKeeps
    <2>5. CASE List \/ Crash
      BY <2>5, ListKeeps, CrashKeeps
    <2>6. CASE Quiet
      BY <2>6, QuietStepKeeps
    <2>7. CASE UNCHANGED vars
      <3>1. TypeOK' /\ crashes' + throws' >= crashes + throws
        BY <2>7 DEF Inv, TypeOK, vars, store, worker, history, fate
      <3>2. /\ UNCHANGED <<facts, delivery, todo, at, sent>>
            /\ \A m \in Matches : emitting'[m] \in {emitting[m], 0}
        BY <2>7 DEF vars, store, worker, history, fate
      <3> QED BY <3>1, <3>2, QuietKeeps
    <2> QED BY <2>1, <2>2, <2>3, <2>4, <2>5, <2>6, <2>7 DEF Next, Quiet
  <1> QED BY <1>1, InitHolds, PTL DEF Spec

\* Every variable keeps its type, and a process that is down or between passes holds no row
\* (worker.ts runPass and schedule).
THEOREM TypeCorrect == Spec => []TypeOK
  BY WebhookInvariant, PTL DEF Inv

\* No delivery is POSTed more often than the schedule allows, but once more for each crash and
\* each throw of the store, whatever the schedule's length (retry.ts WEBHOOK_MAX_ATTEMPTS).
THEOREM AttemptsAreBounded == Spec => []AttemptsBounded
  <1>1. Inv => AttemptsBounded
    <2> SUFFICES ASSUME Inv, NEW m \in Matches, NEW n \in Seqs
                 PROVE  sent[m][n] <= MaxAttempts + crashes + throws
      BY DEF AttemptsBounded
    <2>1. TypeOK /\ PassInv /\ LeftInv /\ CountInv
      BY DEF Inv
    <2>2. sent[m][n] <= delivery[m][n].attempt + crashes + throws
                        + (IF InFlight(m, n) THEN 1 ELSE 0)
      BY <2>1 DEF CountInv
    <2>3. /\ sent[m][n] \in Nat /\ crashes \in Nat /\ throws \in Nat
          /\ delivery[m][n].attempt \in 0..MaxAttempts
      BY <2>1 DEF TypeOK, RowType
    <2>4. CASE InFlight(m, n)
      <3>1. n \in todo[m] /\ at[m] # "stopping"
        BY <2>1, <2>4, LeastIsTaken DEF InFlight, Outcomes, TypeOK
      <3>2. delivery[m][n].attempt < MaxAttempts
        BY <2>1, <3>1 DEF PassInv, LeftInv
      <3> QED BY <2>2, <2>3, <2>4, <3>2, WebhookAssumption
    <2>5. CASE ~InFlight(m, n)
      BY <2>2, <2>3, <2>5, WebhookAssumption
    <2> QED BY <2>4, <2>5
  <1> QED BY <1>1, WebhookInvariant, PTL

-----------------------------------------------------------------------------
(***************************************************************************)
(* The order of first tries, and the last POST.                            *)
(*                                                                         *)
(* A delivery is first tried after those before it because a pass that     *)
(* holds a row holds the untried ones before it, and an untried row is     *)
(* due: OrderInv. GoneInv says that a match whose endpoint said 410 is     *)
(* stopped, or an attempt is on its way to stop it.                        *)
(***************************************************************************)

\* A delivery of m that was never POSTed.
Untried(m, k) == sent[m][k] = 0 /\ delivery[m][k].status # "none"

\* What keeps the first tries of a match in the order of its log: an attempt is at a row that was
\* POSTed, a row that was not is due, and a pass that holds a row holds the untried ones before it.
OrderOf(m) ==
    /\ at[m] # "idle" => sent[m][Least(m)] > 0
    /\ \A k \in Seqs : Untried(m, k) => delivery[m][k].status = "pending" /\ delivery[m][k].due
    /\ \A n \in todo[m] : delivery[m][n].status # "none"
    /\ \A n \in todo[m], k \in Seqs : k < n /\ Untried(m, k) => k \in todo[m]

\* The row emit is about to write is the log's last; and until the store throws, the above.
OrderInv ==
    /\ \A m \in Matches : emitting[m] \in {0, facts[m]}
    /\ throws = 0 => \A m \in Matches \ stopped : OrderOf(m)

\* A match whose endpoint said 410 is stopped, or an attempt is on its way to say so.
GoneInv ==
    crashes + throws = 0 =>
        \A m \in gone : m \in stopped \/ at[m] \in {"stopped", "stopping"}

-----------------------------------------------------------------------------
\* The row a match has come to is the first of those it holds.
LEMMA LeastIsFirst ==
  ASSUME NEW m \in Matches, todo[m] \in SUBSET Seqs, todo[m] # {}
  PROVE  Least(m) \in todo[m] /\ \A k \in todo[m] : Least(m) <= k
  <1>1. todo[m] \in SUBSET Nat
    BY WebhookAssumption DEF Seqs
  <1>2. PICK n \in todo[m] : \A k \in todo[m] : n <= k
    <2>1. PICK n \in todo[m] : \A k \in todo[m] : ~ (<<k, n>> \in OpToRel(<, Nat))
      BY <1>1, WFMin, NatLessThanWellFounded, Zenon
    <2>2. ASSUME NEW k \in todo[m] PROVE n <= k
      <3>1. ~ (k < n)
        BY <1>1, <2>1, <2>2 DEF OpToRel
      <3> QED BY <1>1, <3>1
    <2> QED BY <2>2
  <1> QED BY <1>2 DEF Least, Min

\* A step of one match leaves the order of the others alone.
LEMMA OneMatchMoves ==
  ASSUME OrderInv, NEW m \in Matches, stopped \subseteq stopped', throws' = 0 => throws = 0,
         \A k \in Matches \ {m} : /\ delivery'[k] = delivery[k] /\ sent'[k] = sent[k]
                                  /\ todo'[k] = todo[k] /\ at'[k] = at[k],
         throws = 0 /\ m \notin stopped' /\ OrderOf(m) => OrderOf(m)',
         \A k \in Matches : emitting'[k] \in {0, facts'[k]}
  PROVE  OrderInv'
  <1>1. ASSUME NEW k \in Matches \ {m}, OrderOf(k) PROVE OrderOf(k)'
    BY <1>1 DEF OrderOf, Untried, Least, Min
  <1>2. ASSUME throws' = 0, NEW k \in Matches \ stopped' PROVE OrderOf(k)'
    <2>1. OrderOf(k) /\ throws = 0
      BY <1>2 DEF OrderInv
    <2> QED BY <1>1, <1>2, <2>1
  <1> QED BY <1>2 DEF OrderInv

\* A step that touches no row, no POST and no pass leaves the order of all alone.
LEMMA NoMatchMoves ==
  ASSUME OrderInv, stopped \subseteq stopped', throws' = 0 => throws = 0,
         UNCHANGED <<delivery, sent, todo, at>>,
         \A k \in Matches : emitting'[k] \in {0, facts'[k]}
  PROVE  OrderInv'
  BY DEF OrderInv, OrderOf, Untried, Least

\* An attempt that is over leaves a row that was POSTed, or one whose match is stopped.
LEMMA SettledInOrder ==
  ASSUME Inv, OrderInv, NEW m \in Matches, todo[m] # {}, NEW r \in RowType, Settled(m, r),
         at[m] # "idle" \/ m \in stopped,
         UNCHANGED <<facts, stopped, emitting, sent, throws>>
  PROVE  OrderInv'
  <1> DEFINE n == Least(m)
  <1>1. TypeOK
    BY DEF Inv
  <1>2. n \in todo[m] /\ n \in Seqs
    BY <1>1, LeastIsTaken DEF TypeOK
  <1>3. /\ delivery'[m][n] = r
        /\ \A k \in Matches, l \in Seqs : k # m \/ l # n => delivery'[k][l] = delivery[k][l]
        /\ \A k \in Matches \ {m} : delivery'[k] = delivery[k]
    <2>1. delivery' = [delivery EXCEPT ![m] = [delivery[m] EXCEPT ![n] = r]]
      BY DEF Settled
    <2>2. delivery \in [Matches -> [Seqs -> RowType]]
      BY <1>1 DEF TypeOK
    <2> HIDE DEF n
    <2> QED BY <1>2, <2>1, <2>2
  <1>4. /\ todo'[m] = todo[m] \ {n} /\ at'[m] = "idle"
        /\ \A k \in Matches \ {m} : todo'[k] = todo[k] /\ at'[k] = at[k]
    BY <1>1 DEF TypeOK, Settled
  <1>5. ASSUME m \notin stopped, OrderOf(m) PROVE OrderOf(m)'
    <2>1. sent'[m][n] > 0 /\ sent[m][n] \in Nat
      BY <1>1, <1>2, <1>5 DEF OrderOf, TypeOK
    <2>2. \A k \in Seqs : Untried(m, k)' => k # n /\ Untried(m, k) /\ delivery'[m][k] = delivery[m][k]
      BY <1>3, <2>1 DEF Untried
    <2>3. \A l \in todo'[m] : l \in todo[m] /\ l # n /\ l \in Seqs
      BY <1>1, <1>4 DEF TypeOK
    <2> HIDE DEF n
    <2> QED BY <1>3, <1>4, <1>5, <2>2, <2>3 DEF OrderOf
  <1>6. \A k \in Matches : emitting'[k] \in {0, facts'[k]}
    BY DEF OrderInv
  <1> QED BY <1>3, <1>4, <1>5, <1>6, OneMatchMoves

-----------------------------------------------------------------------------
(* One lemma per action.                                                   *)

LEMMA InitInOrder == Init => OrderInv /\ GoneInv
  BY DEF Init, OrderInv, OrderOf, Untried, GoneInv, NoRow

LEMMA SayInOrder == ASSUME Inv, OrderInv, NEW m \in Matches, Say(m) PROVE OrderInv'
  <1>1. \A k \in Matches : emitting'[k] \in {0, facts'[k]}
    BY DEF Say, OrderInv, Inv, TypeOK
  <1> QED BY <1>1, NoMatchMoves DEF Say, worker, history, fate

\* The row emit writes comes after every other of its match.
LEMMA QueueInOrder == ASSUME Inv, OrderInv, NEW m \in Matches, Queue(m) PROVE OrderInv'
  <1> DEFINE n == emitting[m]
             r == [status |-> "pending", attempt |-> 0, due |-> TRUE]
  <1>1. TypeOK /\ RowInv
    BY DEF Inv
  <1>2. n \in Seqs /\ n = facts[m]
    BY <1>1, WebhookAssumption DEF Queue, TypeOK, Seqs, OrderInv
  <1>3. /\ delivery'[m][n] = r
        /\ \A k \in Matches, l \in Seqs : k # m \/ l # n => delivery'[k][l] = delivery[k][l]
        /\ \A k \in Matches \ {m} : delivery'[k] = delivery[k]
    <2>1. delivery' = [delivery EXCEPT ![m] = [delivery[m] EXCEPT ![n] = r]]
      BY DEF Queue
    <2>2. delivery \in [Matches -> [Seqs -> RowType]]
      BY <1>1 DEF TypeOK
    <2> HIDE DEF n, r
    <2> QED BY <1>2, <2>1, <2>2
  <1>4. /\ UNCHANGED <<facts, stopped, todo, at, sent, throws>>
        /\ emitting' = [emitting EXCEPT ![m] = 0]
    BY DEF Queue, history, fate
  <1>5. ASSUME OrderOf(m) PROVE OrderOf(m)'
    <2>1. \A l \in todo[m] : l \in Seqs /\ l < n
      <3> SUFFICES ASSUME NEW l \in todo[m] PROVE l \in Seqs /\ l < n
        OBVIOUS
      <3>1. l \in Seqs /\ delivery[m][l].status # "none"
        BY <1>1, <1>5 DEF TypeOK, OrderOf
      <3>2. ~(l > facts[m] \/ l = n)
        BY <1>1, <3>1 DEF RowInv, NoRow
      <3> QED BY <1>1, <1>2, <3>1, <3>2, WebhookAssumption DEF Seqs, TypeOK
    <2>2. \A k \in Seqs : k # n => (Untried(m, k)' <=> Untried(m, k))
      BY <1>3, <1>4 DEF Untried
    <2>3. Least(m)' = Least(m)
      BY <1>4 DEF Least
    <2>4. \A l \in todo'[m], k \in Seqs : k < l /\ Untried(m, k)' => k \in todo'[m]
      <3> SUFFICES ASSUME NEW l \in todo[m], NEW k \in Seqs, k < l, Untried(m, k)' PROVE k \in todo[m]
        BY <1>4
      <3>1. k # n
        BY <2>1, WebhookAssumption DEF Seqs
      <3> QED BY <1>5, <2>2, <3>1 DEF OrderOf
    <2> HIDE DEF n
    <2> QED BY <1>3, <1>4, <1>5, <2>1, <2>2, <2>3, <2>4 DEF OrderOf
  <1>6. \A k \in Matches : emitting'[k] \in {0, facts'[k]}
    BY <1>1, <1>4 DEF OrderInv, TypeOK
  <1> QED BY <1>3, <1>4, <1>5, <1>6, OneMatchMoves

LEMMA RipenInOrder == ASSUME Inv, OrderInv, NEW m \in Matches, NEW n \in Seqs, Ripen(m, n) PROVE OrderInv'
  <1>1. TypeOK
    BY DEF Inv
  <1>2. /\ UNCHANGED <<facts, stopped, emitting, todo, at, sent, throws>>
        /\ delivery' = [delivery EXCEPT ![m] = [delivery[m] EXCEPT ![n] = [delivery[m][n] EXCEPT !.due = TRUE]]]
    BY <1>1 DEF Ripen, worker, history, fate, TypeOK
  <1>3. /\ \A k \in Matches \ {m} : delivery'[k] = delivery[k]
        /\ \A l \in Seqs : l # n => delivery'[m][l] = delivery[m][l]
        /\ delivery'[m][n].status = delivery[m][n].status /\ delivery'[m][n].due = TRUE
    BY <1>1, <1>2 DEF TypeOK, RowType
  <1>4. ASSUME OrderOf(m) PROVE OrderOf(m)'
    <2>1. \A k \in Seqs : delivery'[m][k].status = delivery[m][k].status
      BY <1>3
    <2>2. \A k \in Seqs : Untried(m, k)' <=> Untried(m, k)
      BY <1>2, <2>1 DEF Untried
    <2>3. todo[m] \subseteq Seqs /\ Least(m)' = Least(m)
      BY <1>1, <1>2 DEF TypeOK, Least
    <2> QED BY <1>2, <1>3, <1>4, <2>1, <2>2, <2>3 DEF OrderOf
  <1>5. \A k \in Matches : emitting'[k] \in {0, facts'[k]}
    BY <1>2 DEF OrderInv
  <1> QED BY <1>2, <1>3, <1>4, <1>5, OneMatchMoves

\* Rows are listed in order: with one of a match, all that are due before it.
LEMMA ListedBefore ==
  ASSUME NEW m \in Matches, NEW n \in Seqs, NEW k \in Seqs, k < n, <<m, n>> \in Listed, <<m, k>> \in Due
  PROVE  <<m, k>> \in Listed
  <1> DEFINE A == {s \in Due : Before(s, <<m, k>>)}
             B == {s \in Due : Before(s, <<m, n>>)}
  <1>1. Matches \subseteq Nat /\ MaxFacts \in Nat /\ Seqs = 1..MaxFacts /\ m \in Nat /\ n \in Nat /\ k \in Nat
    BY WebhookAssumption DEF Seqs
  <1>s. \A s \in Due : \E a \in Matches, b \in Seqs : s = <<a, b>>
    BY DEF Due
  <1>b. \A a \in Matches, b, c \in Seqs : Before(<<a, b>>, <<m, c>>) <=> (a < m \/ (a = m /\ b <= c))
    BY DEF Before
  <1>2. A \subseteq B
    <2> SUFFICES ASSUME NEW s \in Due, Before(s, <<m, k>>) PROVE Before(s, <<m, n>>)
      OBVIOUS
    <2>1. PICK a \in Matches, b \in Seqs : s = <<a, b>>
      BY <1>s
    <2>2. a \in Nat /\ b \in Nat
      BY <1>1
    <2> QED BY <1>1, <1>b, <2>1, <2>2
  <1>3. IsFiniteSet(B)
    <2>1. IsFiniteSet(0..m) /\ IsFiniteSet(1..MaxFacts)
      BY <1>1, FS_Interval
    <2>2. IsFiniteSet((0..m) \X Seqs)
      BY <1>1, <2>1, FS_Product
    <2>3. B \subseteq (0..m) \X Seqs
      <3> SUFFICES ASSUME NEW s \in Due, Before(s, <<m, n>>) PROVE s \in (0..m) \X Seqs
        OBVIOUS
      <3>1. PICK a \in Matches, b \in Seqs : s = <<a, b>>
        BY <1>s
      <3>2. a \in Nat /\ a <= m
        BY <1>1, <1>b, <3>1
      <3> QED BY <1>1, <3>1, <3>2
    <2> QED BY <2>2, <2>3, FS_Subset
  <1>4. /\ IsFiniteSet(A) /\ Cardinality(A) <= Cardinality(B)
        /\ Cardinality(A) \in Nat /\ Cardinality(B) \in Nat
    BY <1>2, <1>3, FS_Subset, FS_CardinalityType
  <1>5. Cardinality(B) <= Batch
    BY DEF Listed
  <1> HIDE DEF A, B
  <1>6. Cardinality(A) <= Batch
    BY <1>4, <1>5, WebhookAssumption
  <1> QED BY <1>6 DEF Listed, A

LEMMA ListInOrder == ASSUME Inv, OrderInv, List PROVE OrderInv'
  <1>1. TypeOK
    BY DEF Inv
  <1>2. /\ UNCHANGED <<facts, delivery, stopped, emitting, at, sent, throws>> /\ pass = "list"
    BY DEF List, store, history, fate
  <1>3. \A m \in Matches : todo[m] = {} /\ at[m] = "idle"
    BY <1>1, <1>2 DEF TypeOK
  <1>4. ASSUME NEW m \in Matches, OrderOf(m) PROVE OrderOf(m)'
    <2>1. todo'[m] = IF m \in Taken THEN {n \in Seqs : <<m, n>> \in Listed} ELSE {}
      BY DEF List
    <2>2. \A k \in Seqs : Untried(m, k)' <=> Untried(m, k)
      BY <1>2 DEF Untried
    <2>3. \A n \in todo'[m] : n \in Seqs /\ <<m, n>> \in Listed /\ delivery[m][n].status = "pending"
      BY <2>1 DEF Listed, Due
    <2>4. \A n \in todo'[m], k \in Seqs : k < n /\ Untried(m, k)' => k \in todo'[m]
      <3> SUFFICES ASSUME NEW n \in todo'[m], NEW k \in Seqs, k < n, Untried(m, k) PROVE k \in todo'[m]
        BY <2>2
      <3>1. <<m, k>> \in Due
        BY <1>4 DEF OrderOf, Due
      <3>2. <<m, k>> \in Listed
        BY <2>3, <3>1, ListedBefore
      <3> QED BY <2>1, <3>2
    <2> QED BY <1>2, <1>3, <1>4, <2>2, <2>3, <2>4 DEF OrderOf
  <1> QED BY <1>2, <1>4 DEF OrderInv

LEMMA PostInOrder == ASSUME Inv, OrderInv, NEW m \in Matches, Post(m) PROVE OrderInv'
  <1> DEFINE n == Least(m)
  <1>1. TypeOK
    BY DEF Inv
  <1>2. /\ UNCHANGED <<facts, delivery, stopped, emitting, todo, throws>>
        /\ todo[m] # {} /\ at[m] = "idle"
    BY DEF Post, store, fate
  <1>3. n \in todo[m] /\ n \in Seqs /\ Least(m)' = n
    BY <1>1, <1>2, LeastIsTaken DEF TypeOK, Least
  <1>4. \A k \in Matches \ {m} : at'[k] = at[k]
    BY <1>1 DEF Post, TypeOK
  <1>5. /\ \A k \in Matches \ {m} : sent'[k] = sent[k]
        /\ sent'[m][n] > 0 /\ \A l \in Seqs : l # n => sent'[m][l] = sent[m][l]
    <2>1. sent' = [sent EXCEPT ![m] = [sent[m] EXCEPT ![n] = sent[m][n] + 1]]
      BY <1>1 DEF Post, TypeOK
    <2>2. sent \in [Matches -> [Seqs -> Nat]]
      BY <1>1 DEF TypeOK
    <2> HIDE DEF n
    <2> QED BY <1>3, <2>1, <2>2
  <1>6. ASSUME OrderOf(m) PROVE OrderOf(m)'
    <2>1. \A k \in Seqs : Untried(m, k)' => Untried(m, k)
      BY <1>2, <1>5 DEF Untried
    <2> HIDE DEF n
    <2> QED BY <1>2, <1>3, <1>5, <1>6, <2>1 DEF OrderOf
  <1>7. \A k \in Matches : emitting'[k] \in {0, facts'[k]}
    BY <1>2 DEF OrderInv
  <1> QED BY <1>2, <1>4, <1>5, <1>6, <1>7, OneMatchMoves

LEMMA AnswerInOrder ==
  ASSUME Inv, OrderInv, NEW m \in Matches, NEW o \in Outcomes, Answer(m, o) PROVE OrderInv'
  <1>1. /\ UNCHANGED <<facts, delivery, stopped, emitting, todo, sent, throws>> /\ at[m] = "posted"
        /\ \A k \in Matches \ {m} : at'[k] = at[k]
    BY DEF Answer, store, fate, Inv, TypeOK
  <1>2. ASSUME OrderOf(m) PROVE OrderOf(m)'
    BY <1>1, <1>2 DEF OrderOf, Untried, Least
  <1>3. \A k \in Matches : emitting'[k] \in {0, facts'[k]}
    BY <1>1 DEF OrderInv
  <1> QED BY <1>1, <1>2, <1>3, OneMatchMoves

LEMMA SettlesInOrder ==
  ASSUME Inv, OrderInv, NEW m \in Matches, Skip(m) \/ Delivered(m) \/ Retry(m) PROVE OrderInv'
  <1>1. TypeOK /\ PassInv /\ LeftInv
    BY DEF Inv
  <1>2. todo[m] # {}
    BY <1>1 DEF Skip, Delivered, Retry, TypeOK
  <1>3. Least(m) \in todo[m] /\ Least(m) \in Seqs
    BY <1>1, <1>2, LeastIsTaken DEF TypeOK
  <1>4. /\ UNCHANGED <<facts, stopped, emitting, sent, throws>>
        /\ at[m] # "idle" \/ m \in stopped
    BY DEF Skip, Delivered, Retry, history, fate
  <1>5. Row(m) \in RowType
    BY <1>1, <1>3 DEF Row, TypeOK
  <1>6. at[m] # "stopping" => Row(m).attempt < MaxAttempts
    BY <1>1, <1>3 DEF Row, PassInv, LeftInv
  <1>7. Row(m).attempt + 1 \in 0..MaxAttempts \/ at[m] = "stopping"
    BY <1>5, <1>6, WebhookAssumption DEF RowType
  <1>8. \E r \in RowType : Settled(m, r)
    <2>1. CASE Skip(m)
      <3>1. [Row(m) EXCEPT !.status = "stopped"] \in RowType
        BY <1>5 DEF RowType
      <3> QED BY <2>1, <3>1 DEF Skip
    <2>2. CASE Delivered(m)
      <3>1. [Row(m) EXCEPT !.status = "delivered", !.attempt = @ + 1, !.due = FALSE] \in RowType
        BY <1>5, <1>7, <2>2 DEF RowType, Delivered
      <3> QED BY <2>2, <3>1 DEF Delivered
    <2>3. CASE Retry(m)
      <3>1. [status  |-> IF Row(m).attempt + 1 < MaxAttempts THEN "pending" ELSE "given_up",
             attempt |-> Row(m).attempt + 1, due |-> FALSE] \in RowType
        BY <1>7, <2>3 DEF RowType, Retry
      <3> QED BY <2>3, <3>1 DEF Retry
    <2> QED BY <2>1, <2>2, <2>3
  <1> QED BY <1>2, <1>4, <1>8, SettledInOrder

LEMMA GoneInOrder == ASSUME Inv, OrderInv, NEW m \in Matches, Gone(m) PROVE OrderInv'
  <1> DEFINE n == Least(m)
  <1>1. TypeOK
    BY DEF Inv
  <1>2. /\ UNCHANGED <<facts, stopped, emitting, todo, sent, throws>> /\ at[m] = "stopped"
        /\ \A k \in Matches \ {m} : at'[k] = at[k]
    BY <1>1 DEF Gone, history, fate, TypeOK
  <1>3. n \in todo[m] /\ n \in Seqs /\ Least(m)' = n
    BY <1>1, <1>2, LeastIsTaken DEF TypeOK, Least
  <1>4. /\ \A k \in Matches \ {m} : delivery'[k] = delivery[k]
        /\ \A l \in Seqs : l # n => delivery'[m][l] = delivery[m][l]
        /\ delivery'[m][n].status = "stopped"
    <2>1. delivery' = [delivery EXCEPT ![m] = [delivery[m] EXCEPT ![n] =
                          [status |-> "stopped", attempt |-> delivery[m][n].attempt + 1, due |-> FALSE]]]
      BY <1>1, <1>3 DEF Gone, TypeOK
    <2>2. delivery \in [Matches -> [Seqs -> RowType]]
      BY <1>1 DEF TypeOK
    <2> HIDE DEF n
    <2> QED BY <1>3, <2>1, <2>2
  <1>5. ASSUME OrderOf(m) PROVE OrderOf(m)'
    <2>1. sent[m][n] > 0 /\ sent[m][n] \in Nat
      BY <1>1, <1>2, <1>3, <1>5 DEF OrderOf, TypeOK
    <2>2. \A k \in Seqs : Untried(m, k)' => k # n /\ Untried(m, k) /\ delivery'[m][k] = delivery[m][k]
      BY <1>2, <1>4, <2>1 DEF Untried
    <2>3. todo[m] \subseteq Seqs
      BY <1>1 DEF TypeOK
    <2> HIDE DEF n
    <2> QED BY <1>2, <1>3, <1>4, <1>5, <2>1, <2>2, <2>3 DEF OrderOf
  <1>6. \A k \in Matches : emitting'[k] \in {0, facts'[k]}
    BY <1>2 DEF OrderInv
  <1> QED BY <1>2, <1>4, <1>5, <1>6, OneMatchMoves

LEMMA StopMatchInOrder == ASSUME Inv, OrderInv, NEW m \in Matches, StopMatch(m) PROVE OrderInv'
  <1>1. /\ UNCHANGED <<facts, delivery, emitting, sent, throws>>
        /\ stopped' = stopped \cup {m}
        /\ \A k \in Matches \ {m} : todo'[k] = todo[k] /\ at'[k] = at[k]
    BY DEF StopMatch, history, fate, Inv, TypeOK
  <1>2. \A k \in Matches : emitting'[k] \in {0, facts'[k]}
    BY <1>1 DEF OrderInv
  <1> QED BY <1>1, <1>2, OneMatchMoves

LEMMA AttemptThrowsInOrder == ASSUME Inv, OrderInv, NEW m \in Matches, AttemptThrows(m) PROVE OrderInv'
  <1>1. throws' # 0 /\ UNCHANGED <<facts, emitting>>
    BY DEF AttemptThrows, store, Inv, TypeOK
  <1> QED BY <1>1 DEF OrderInv

LEMMA CrashInOrder == ASSUME Inv, OrderInv, Crash PROVE OrderInv'
  <1>1. /\ UNCHANGED <<facts, delivery, stopped, sent, throws>>
        /\ \A m \in Matches : emitting'[m] = 0 /\ todo'[m] = {} /\ at'[m] = "idle"
    BY DEF Crash, Idle, store, history
  <1> QED BY <1>1 DEF OrderInv, OrderOf, Untried

LEMMA QuietInOrder == ASSUME Inv, OrderInv, Quiet \/ UNCHANGED vars PROVE OrderInv'
  <1>1. /\ UNCHANGED <<facts, delivery, stopped, todo, at, sent>>
        /\ throws' = 0 => throws = 0
        /\ \A m \in Matches : emitting'[m] \in {emitting[m], 0}
    BY DEF Quiet, QueueNothing, QueueThrows, Sweep, PassEnd, ListThrows, Restart, store,
       worker, history, fate, vars, Inv, TypeOK
  <1>2. \A k \in Matches : emitting'[k] \in {0, facts'[k]}
    BY <1>1 DEF OrderInv
  <1> QED BY <1>1, <1>2, NoMatchMoves

LEMMA NextInOrder == ASSUME Inv, OrderInv, [Next]_vars PROVE OrderInv'
  <1>1. ASSUME NEW m \in Matches, Say(m) \/ Queue(m) PROVE OrderInv'
    BY <1>1, SayInOrder, QueueInOrder
  <1>2. ASSUME NEW m \in Matches, Attempt(m) PROVE OrderInv'
    BY <1>2, SettlesInOrder, PostInOrder, AnswerInOrder, GoneInOrder, StopMatchInOrder DEF Attempt
  <1>3. ASSUME NEW m \in Matches, AttemptThrows(m) PROVE OrderInv'
    BY <1>3, AttemptThrowsInOrder
  <1>4. ASSUME NEW m \in Matches, NEW n \in Seqs, Ripen(m, n) PROVE OrderInv'
    BY <1>4, RipenInOrder
  <1>5. CASE List \/ Crash
    BY <1>5, ListInOrder, CrashInOrder
  <1>6. CASE Quiet \/ UNCHANGED vars
    BY <1>6, QuietInOrder
  <1> QED BY <1>1, <1>2, <1>3, <1>4, <1>5, <1>6 DEF Next, Quiet

\* A 410 is on its way to the match's row until it is there.
LEMMA NextGone == ASSUME Inv, GoneInv, [Next]_vars PROVE GoneInv'
  <1>1. TypeOK
    BY DEF Inv
  <1>2. SUFFICES ASSUME crashes' + throws' = 0, NEW m \in gone'
                 PROVE  m \in stopped' \/ at'[m] \in {"stopped", "stopping"}
    BY DEF GoneInv
  <1>3. ~Crash /\ ~ListThrows /\ \A k \in Matches : ~AttemptThrows(k) /\ ~QueueThrows(k)
    BY <1>1, <1>2 DEF Crash, ListThrows, AttemptThrows, QueueThrows, TypeOK
  <1>4. CASE UNCHANGED <<stopped, gone, at, crashes, throws>>
    BY <1>2, <1>4 DEF GoneInv
  <1>5. ASSUME NEW k \in Matches, Attempt(k) PROVE m \in stopped' \/ at'[m] \in {"stopped", "stopping"}
    <2>1. UNCHANGED <<crashes, throws>> /\ stopped \subseteq stopped'
          /\ \A j \in Matches \ {k} : at'[j] = at[j]
      BY <1>1, <1>5 DEF Attempt, Skip, Post, Answer, Delivered, Retry, Gone, StopMatch, Settled, store,
         history, fate, TypeOK
    <2>2. m \in gone \/ (m = k /\ at'[k] = "stopped")
      BY <1>1, <1>2, <1>5 DEF Attempt, Skip, Post, Answer, Delivered, Retry, Gone, StopMatch, store,
         history, TypeOK
    <2>3. m \in gone => m \in stopped \/ at[m] \in {"stopped", "stopping"}
      BY <1>2, <2>1 DEF GoneInv
    <2>4. at[k] = "stopped" => at'[k] = "stopping"
      BY <1>1, <1>5 DEF Attempt, Skip, Post, Answer, Delivered, Retry, Gone, StopMatch, TypeOK
    <2>5. at[k] = "stopping" => k \in stopped'
      BY <1>1, <1>5 DEF Attempt, Skip, Post, Answer, Delivered, Retry, Gone, StopMatch, TypeOK
    <2>6. m \in Matches
      BY <1>1, <2>2 DEF TypeOK
    <2> QED BY <2>1, <2>2, <2>3, <2>4, <2>5, <2>6
  <1>6. ASSUME NEW k \in Matches, Say(k) \/ Queue(k) \/ QueueNothing(k)
        PROVE  UNCHANGED <<stopped, gone, at, crashes, throws>>
    BY <1>6 DEF Say, Queue, QueueNothing, store, worker, history, fate
  <1>7. ASSUME NEW k \in Matches, NEW n \in Seqs, Ripen(k, n)
        PROVE  UNCHANGED <<stopped, gone, at, crashes, throws>>
    BY <1>7 DEF Ripen, worker, history, fate
  <1>8. CASE Sweep \/ List \/ PassEnd \/ Restart \/ UNCHANGED vars
    BY <1>4, <1>8 DEF Sweep, List, PassEnd, Restart, vars, store, worker, history, fate
  <1> QED BY <1>3, <1>4, <1>5, <1>6, <1>7, <1>8 DEF Next

\* Passes hold rows in the order of the log, and a 410 is not forgotten.
THEOREM OrderInvariant == Spec => [](Inv /\ OrderInv /\ GoneInv)
  <1>1. OrderInv /\ GoneInv /\ Inv /\ [Next]_vars => OrderInv' /\ GoneInv'
    BY NextInOrder, NextGone
  <1> QED BY <1>1, InitInOrder, WebhookInvariant, PTL DEF Spec

\* What a step POSTs is the row its match has come to.
LEMMA OnlyPostSends ==
  ASSUME Inv, [Next]_vars, NEW m \in Matches, sent'[m] # sent[m]
  PROVE  Post(m)
  <1>1. TypeOK
    BY DEF Inv
  <1>2. ASSUME NEW k \in Matches, Post(k) PROVE k = m
    BY <1>1, <1>2 DEF Post, TypeOK
  <1>3. ASSUME NEW k \in Matches, Attempt(k), ~Post(k) PROVE FALSE
    BY <1>3 DEF Attempt, Skip, Answer, Delivered, Retry, Gone, StopMatch, history
  <1>4. ASSUME NEW k \in Matches, Say(k) \/ Queue(k) \/ QueueNothing(k) \/ AttemptThrows(k) \/ QueueThrows(k)
        PROVE  FALSE
    BY <1>4 DEF Say, Queue, QueueNothing, AttemptThrows, QueueThrows, history
  <1>5. ASSUME NEW k \in Matches, NEW n \in Seqs, Ripen(k, n) PROVE FALSE
    BY <1>5 DEF Ripen, history
  <1>6. CASE Sweep \/ List \/ PassEnd \/ ListThrows \/ Crash \/ Restart \/ UNCHANGED vars
    BY <1>6 DEF Sweep, List, PassEnd, ListThrows, Crash, Restart, history, vars
  <1> QED BY <1>2, <1>3, <1>4, <1>5, <1>6 DEF Next

\* Whatever waits, retries, crashes and stops there were, a fact is first POSTed when every
\* earlier one that has a delivery was, as long as the store does not throw.
THEOREM FirstTriesInOrder == Spec => FirstInOrder
  <1>1. ASSUME Inv, OrderInv, [Next]_vars, NEW m \in Matches, NEW n \in Seqs,
               throws = 0, sent[m][n] = 0, sent'[m][n] > 0, NEW k \in 1..(n - 1)
        PROVE  sent[m][k] > 0 \/ delivery[m][k].status = "none"
    <2>1. TypeOK /\ k \in Seqs /\ k < n
      BY <1>1, WebhookAssumption DEF Inv, Seqs
    <2>2. Post(m)
      BY <1>1, OnlyPostSends
    <2>3. /\ m \notin stopped /\ todo[m] # {} /\ todo[m] \in SUBSET Seqs
          /\ Least(m) \in todo[m] /\ \A l \in todo[m] : Least(m) <= l
      BY <2>1, <2>2, LeastIsFirst DEF Post, TypeOK
    <2>4. n = Least(m)
      <3>1. sent' = [sent EXCEPT ![m] = [sent[m] EXCEPT ![Least(m)] = sent[m][Least(m)] + 1]]
        BY <2>1, <2>2 DEF Post, TypeOK
      <3> QED BY <1>1, <2>1, <2>3, <3>1 DEF TypeOK
    <2>5. OrderOf(m)
      BY <1>1, <2>3 DEF OrderInv
    <2>6. k \notin todo[m]
      BY <2>1, <2>3, <2>4, WebhookAssumption DEF Seqs
    <2>7. ~Untried(m, k)
      BY <2>1, <2>3, <2>4, <2>5, <2>6 DEF OrderOf
    <2> QED BY <2>1, <2>7 DEF Untried, TypeOK
  <1>2. Inv /\ OrderInv /\ [Next]_vars =>
          [\A m \in Matches, n \in Seqs :
             /\ throws = 0 /\ sent[m][n] = 0 /\ sent'[m][n] > 0
             => \A k \in 1..(n - 1) : sent[m][k] > 0 \/ delivery[m][k].status = "none"]_vars
    BY <1>1
  <1> QED BY <1>2, OrderInvariant, PTL DEF Spec, FirstInOrder

\* A match whose endpoint is gone is POSTed nothing more, whatever passes are on and whatever is
\* queued, until the first mishap.
THEOREM GoneIsTheLast == Spec => NothingAfterGone
  <1>1. ASSUME Inv, GoneInv, [Next]_vars, NEW m \in gone, crashes + throws = 0 PROVE sent'[m] = sent[m]
    <2>1. m \in Matches /\ (m \in stopped \/ at[m] \in {"stopped", "stopping"})
      BY <1>1 DEF GoneInv, Inv, TypeOK
    <2>2. ~Post(m)
      BY <2>1 DEF Post
    <2> QED BY <1>1, <2>1, <2>2, OnlyPostSends
  <1>2. Inv /\ GoneInv /\ [Next]_vars => [\A m \in gone : crashes + throws = 0 => sent'[m] = sent[m]]_vars
    BY <1>1
  <1> QED BY <1>2, OrderInvariant, PTL DEF Spec, NothingAfterGone
=============================================================================
