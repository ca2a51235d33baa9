------------------------- MODULE RentedServersProofs -------------------------
(***************************************************************************)
(* Proofs about RentedServers: a login token Steam honours is on one       *)
(* running server at most, unless a reset was refused; and the reaper      *)
(* takes no server a walk is on or a match plays on.                       *)
(*                                                                         *)
(* The account of a token that a walk or a server holds is lent to the row *)
(* of that walk or server, as long as the token is the one Steam has: an   *)
(* account is freed only when its server is deleted or its token renewed.  *)
(* And the pool's ceiling holds of Steam's accounts, but for those a mint   *)
(* made and was not answered for.                                          *)
(***************************************************************************)
EXTENDS RentedServers, FiniteSetTheorems, TLAPS

\* Where a job of the pool stands.
Stages == {"start", "mint", "insert", "reset", "write", "leaks", "rows", "renew"}
Lists == [accounts : SUBSET Accounts, number : [Accounts -> Nat], expired : SUBSET Accounts]
JobState == [at : Stages, account : Accounts \cup {None}, number : Nat,
             todo : SUBSET Accounts, list : Lists]
Jobs == [kind : {"lease", "release", "sweep"}, row : Rows \cup {None},
         for : {"walk", "reaper", "nobody"}, lost : BOOLEAN]

Types ==
    /\ walk \in [Rows -> Places] /\ got \in [Rows -> Tokens \cup {None}]
    /\ records \subseteq Rows
    /\ api \in [Rows -> {"none", "listed", "gone"}] /\ on \subseteq Rows
    /\ planted \in [Rows -> Tokens \cup {None}]
    /\ queue \in Seq(Jobs) /\ job \in JobState
    /\ lease \in [Accounts -> Rows \cup {None}]
    /\ pool \in [Accounts -> {"none", "held", "dropped"}] /\ token \in [Accounts -> Nat]
    /\ accounts \subseteq Accounts /\ number \in [Accounts -> Nat] /\ expired \subseteq Accounts
    /\ unreset \in BOOLEAN

\* A row before its token is planted, and before its server is started.
Before == {"none", "clone", "leasing", "put"}
Unstarted == Before \cup {"scrap", "name", "start"}

\* What the place of a walk says of its row.
Walks ==
    \A r \in Rows :
        /\ walk[r] \in Unstarted => r \notin on
        /\ walk[r] \in Before => planted[r] = None
        /\ got[r] # None => walk[r] = "put"
        /\ r \in records => walk[r] \notin Before

\* What a job in the queue says of its row.
Placed(j) ==
    /\ j.kind # "sweep" => j.row \in Rows
    /\ j.kind = "lease" => walk[j.row] = "leasing"
    /\ j.kind = "release" => walk[j.row] \notin Before
    /\ j.kind = "release" /\ ~j.lost => api[j.row] # "listed" /\ j.row \notin on
AllPlaced == \A i \in 1 .. Len(queue) : Placed(queue[i])
\* A row asks for one lease at a time.
AsksOnce ==
    \A i, k \in 1 .. Len(queue) :
        queue[i].kind = "lease" /\ queue[k].kind = "lease" /\ queue[i].row = queue[k].row => i = k

\* No token is of a number Steam is yet to give.
Given(t) == t # None => t.number <= number[t.account]
Numbers ==
    /\ \A r \in Rows : Given(got[r]) /\ Given(planted[r])
    /\ \A a \in Accounts :
           /\ token[a] <= number[a] /\ job.list.number[a] <= number[a]
           /\ number[a] = 0 => lease[a] = None /\ pool[a] # "held" /\ a \notin accounts
           /\ a \in job.list.accounts => number[a] # 0

\* What the place of a job says of its account.
JobInv ==
    /\ job.at \in {"insert", "reset", "write"} => job.account \in Accounts
    /\ job.at = "insert" => lease[job.account] = None /\ number[job.account] # 0
    /\ job.at \in {"reset", "write"} => job.number <= number[job.account]

\* The token an account has at Steam is on a server that is there, or in the
\* hands of the walk that is to plant it.
Bears(t, a) == t # None /\ t.account = a /\ t.number = number[a]
There(r) == r \in on \/ api[r] = "listed"
Holds(r, a) == a \in accounts /\ (Bears(got[r], a) \/ (There(r) /\ Bears(planted[r], a)))

HoldersLease == unreset \/ \A r \in Rows, a \in Accounts : Holds(r, a) => lease[a] = r
WriteFrees == unreset \/ (job.at = "write" => \A r \in Rows : ~Holds(r, job.account))

RentInv == Types /\ Walks /\ AllPlaced /\ AsksOnce /\ Numbers /\ JobInv /\ HoldersLease /\ WriteFrees

-----------------------------------------------------------------------------
(* Jobs that come, stay and go.                                            *)

\* A step that a job of row r is not disturbed by.
Stays(r) ==
    /\ walk[r] = "leasing" => walk'[r] = "leasing"
    /\ walk[r] \notin Before => walk'[r] \notin Before
    /\ walk[r] \notin Before /\ api[r] # "listed" /\ r \notin on => api'[r] # "listed" /\ r \notin on'

\* A job that was placed still is.
LEMMA StillPlaced ==
  ASSUME NEW j, Placed(j), j.kind # "sweep" => Stays(j.row)
  PROVE  Placed(j)'
  BY DEF Placed, Stays

\* The queue as it was.
LEMMA QueueKept ==
  ASSUME Types, AllPlaced, AsksOnce, queue' = queue, \A r \in Rows : Stays(r)
  PROVE  AllPlaced' /\ AsksOnce'
  <1>1. ASSUME NEW i \in 1 .. Len(queue) PROVE Placed(queue[i])'
    BY StillPlaced DEF AllPlaced, Placed
  <1> QED BY <1>1 DEF AllPlaced, AsksOnce, Placed

\* A job is added.
LEMMA QueueGrows ==
  ASSUME Types, AllPlaced, AsksOnce, NEW x \in Jobs, queue' = Append(queue, x),
         \A r \in Rows : Stays(r), Placed(x)',
         x.kind = "lease" => \A i \in 1 .. Len(queue) : queue[i].kind = "lease" => queue[i].row # x.row
  PROVE  AllPlaced' /\ AsksOnce' /\ queue' \in Seq(Jobs)
  <1>1. /\ queue \in Seq(Jobs) /\ Len(queue') = Len(queue) + 1 /\ Len(queue) \in Nat
        /\ \A i \in 1 .. Len(queue) : queue'[i] = queue[i]
        /\ queue'[Len(queue) + 1] = x
    BY DEF Types
  <1>2. ASSUME NEW i \in 1 .. Len(queue) PROVE Placed(queue[i])'
    <2>1. Placed(queue[i])
      BY DEF AllPlaced
    <2> QED BY <2>1, <1>1 DEF Placed, Stays
  <1>3. \A i \in 1 .. Len(queue') : i \in 1 .. Len(queue) \/ i = Len(queue) + 1
    BY <1>1
  <1>4. AllPlaced'
    <2> SUFFICES ASSUME NEW i \in 1 .. Len(queue') PROVE Placed(queue[i])'
      BY DEF AllPlaced
    <2>1. CASE i \in 1 .. Len(queue)
      <3>1. queue'[i] = queue[i] /\ Placed(queue[i])
        BY <2>1, <1>1 DEF AllPlaced
      <3> QED BY <3>1 DEF Placed, Stays
    <2>2. CASE i = Len(queue) + 1
      BY <2>2, <1>1 DEF Placed
    <2> QED BY <1>3, <2>1, <2>2
  <1>5. AsksOnce'
    <2> SUFFICES ASSUME NEW i \in 1 .. Len(queue'), NEW k \in 1 .. Len(queue'),
                        queue'[i].kind = "lease", queue'[k].kind = "lease",
                        queue'[i].row = queue'[k].row
                 PROVE  i = k
      BY DEF AsksOnce
    <2> QED BY <1>1, <1>3 DEF AsksOnce
  <1>6. queue' \in Seq(Jobs)
    BY <1>1
  <1> QED BY <1>4, <1>5, <1>6

\* The first job is done.
LEMMA QueueShrinks ==
  ASSUME Types, AllPlaced, AsksOnce, queue # <<>>, queue' = Tail(queue),
         \A r \in Rows \ {Row} : Stays(r),
         \A j \in Jobs :
             Placed(j) /\ j.kind # "sweep" /\ j.row = Row
             /\ ~(j.kind = "lease" /\ Head(queue).kind = "lease") => Placed(j)'
  PROVE  AllPlaced' /\ AsksOnce' /\ queue' \in Seq(Jobs)
  <1>1. /\ queue \in Seq(Jobs) /\ Len(queue') = Len(queue) - 1 /\ Len(queue) \in Nat /\ Len(queue) > 0
        /\ \A i \in 1 .. Len(queue') : queue'[i] = queue[i + 1] /\ i + 1 \in 1 .. Len(queue)
        /\ Head(queue) = queue[1] /\ queue' \in Seq(Jobs) /\ 1 \in 1 .. Len(queue)
    BY DEF Types
  <1>2. AllPlaced'
    <2> SUFFICES ASSUME NEW i \in 1 .. Len(queue') PROVE Placed(queue[i])'
      BY DEF AllPlaced
    <2>1. ASSUME NEW j \in Jobs, j = queue[i + 1] PROVE Placed(j)'
      <3>1. Placed(j) /\ i + 1 # 1
        BY <2>1, <1>1 DEF AllPlaced
      <3>2. j.kind = "lease" /\ Head(queue).kind = "lease" => j.row # Row
        BY <2>1, <1>1, <3>1 DEF AsksOnce, Row
      <3>3. CASE j.kind = "sweep"
        BY <3>1, <3>3 DEF Placed
      <3>4. CASE j.kind # "sweep" /\ j.row = Row
        BY <3>1, <3>2, <3>4
      <3>5. CASE j.kind # "sweep" /\ j.row # Row
        <4>1. Stays(j.row)
          BY <3>1, <3>5 DEF Placed
        <4> QED BY <4>1, <3>1 DEF Placed, Stays
      <3> QED BY <3>3, <3>4, <3>5
    <2>2. queue'[i] = queue[i + 1] /\ queue[i + 1] \in Jobs
      BY <1>1
    <2> QED BY <2>1, <2>2 DEF Placed
  <1>3. AsksOnce'
    <2> SUFFICES ASSUME NEW i \in 1 .. Len(queue'), NEW k \in 1 .. Len(queue'),
                        queue'[i].kind = "lease", queue'[k].kind = "lease",
                        queue'[i].row = queue'[k].row
                 PROVE  i = k
      BY DEF AsksOnce
    <2>1. i + 1 = k + 1
      BY <1>1 DEF AsksOnce
    <2> QED BY <2>1, <1>1
  <1> QED BY <1>1, <1>2, <1>3

-----------------------------------------------------------------------------
(* Steps of a kind.                                                        *)

rented == <<walk, got, records, api, on, planted, queue, job, lease, pool, token, accounts,
            number, expired, unreset>>

\* A step that leaves all this alone.
LEMMA Quiet == ASSUME RentInv, UNCHANGED rented PROVE RentInv'
  <1>1. \A r \in Rows : Stays(r)
    BY DEF Stays, rented
  <1>2. AllPlaced' /\ AsksOnce'
    BY <1>1, QueueKept DEF RentInv, rented
  <1>3. Types' /\ Walks' /\ Numbers' /\ JobInv'
    BY DEF RentInv, Types, Walks, Numbers, Given, JobInv, rented
  <1>4. HoldersLease' /\ WriteFrees'
    BY DEF RentInv, HoldersLease, WriteFrees, Holds, Bears, There, rented
  <1> QED BY <1>2, <1>3, <1>4 DEF RentInv

\* A step after which nobody holds a token that did not before.
LEMMA NoNewHolders ==
  ASSUME RentInv, UNCHANGED lease, unreset => unreset',
         \A r \in Rows, a \in Accounts : Holds(r, a)' => Holds(r, a),
         job'.at = "write" => job.at = "write" /\ job'.account = job.account
  PROVE  HoldersLease' /\ WriteFrees'
  <1>1. HoldersLease'
    BY DEF RentInv, HoldersLease
  <1>2. WriteFrees'
    <2> SUFFICES ASSUME ~unreset', job'.at = "write", NEW r \in Rows, Holds(r, job.account)'
                 PROVE  FALSE
      BY DEF WriteFrees
    <2>1. job.at = "write" /\ job'.account = job.account /\ job.account \in Accounts
      BY DEF RentInv, JobInv
    <2>2. Holds(r, job.account)
      BY <2>1 DEF Holds, Bears, There
    <2> QED BY <2>1, <2>2 DEF RentInv, WriteFrees
  <1> QED BY <1>1, <1>2

\* A walk that moves on past its token, or before it asks for one.
LEMMA WalkMoves ==
  ASSUME RentInv, NEW r \in Rows, NEW p \in Places, walk' = [walk EXCEPT ![r] = p],
         UNCHANGED <<got, records, api, on, planted, queue, job, lease, pool, token, accounts,
                     number, expired, unreset>>,
         walk[r] \notin {"leasing", "put"},
         p \in Before => walk[r] \in Before,
         p \in Unstarted => walk[r] \in Unstarted
  PROVE  RentInv'
  <1>1. Types' /\ walk'[r] = p /\ \A s \in Rows \ {r} : walk'[s] = walk[s]
    BY DEF RentInv, Types
  <1>2. AllPlaced' /\ AsksOnce'
    BY <1>1, QueueKept DEF RentInv, Stays
  <1>3. Walks'
    BY <1>1 DEF RentInv, Walks
  <1>4. Numbers' /\ JobInv'
    BY DEF RentInv, Numbers, Given, JobInv
  <1>5. HoldersLease' /\ WriteFrees'
    BY NoNewHolders DEF Holds, Bears, There
  <1> QED BY <1>1, <1>2, <1>3, <1>4, <1>5 DEF RentInv

\* A walk or a pass of the reaper that does not touch a server.
LEMMA KeepsWalkOn ==
  ASSUME RentInv, NEW r \in Rows,
         OpenRow(r) \/ Name(r) \/ Found(r) \/ End(r) \/ CloseRow(r)
  PROVE  RentInv'
  <1> USE DEF Goes, dathost, chain, table, steam, ghosts, Places, Before, Unstarted, Calm
  <1>1. CASE OpenRow(r)
    BY <1>1, WalkMoves DEF OpenRow
  <1>2. CASE Name(r)
    BY <1>2, WalkMoves DEF Name
  <1>3. CASE Found(r)
    BY <1>3, WalkMoves DEF Found
  <1>4. CASE End(r)
    BY <1>4, WalkMoves DEF End
  <1>5. CASE CloseRow(r)
    BY <1>5, WalkMoves DEF CloseRow
  <1> QED BY <1>1, <1>2, <1>3, <1>4, <1>5

\* The reaper's reads.
LEMMA KeepsReads == ASSUME RentInv, ReadLedger \/ ReadList \/ EndPass PROVE RentInv'
  BY Quiet DEF rented, ReadLedger, ReadList, EndPass, machine, dathost, chain, table, steam, ghosts

-----------------------------------------------------------------------------
(* The walk.                                                               *)

\* Duplicate keeps the invariant: a clone comes with no token.
LEMMA KeepsDuplicate == ASSUME RentInv, NEW r \in Rows, Duplicate(r) PROVE RentInv'
  <1>1. /\ walk[r] = "clone" /\ planted[r] = None /\ r \notin records /\ got[r] = None
        /\ walk' \in [Rows -> Places] /\ walk'[r] \in {"leasing", "close"} /\ \A s \in Rows \ {r} : walk'[s] = walk[s]
    BY DEF RentInv, Types, Walks, Duplicate, Goes, Before, Places
  <1>2. /\ api' \in [Rows -> {"none", "listed", "gone"}] /\ \A s \in Rows \ {r} : api'[s] = api[s]
        /\ UNCHANGED <<got, records, on, planted, job, lease, pool, token, accounts, number, expired, unreset>>
    BY DEF RentInv, Types, Duplicate, table, steam, ghosts, chain
  <1>3. \A s \in Rows : Stays(s)
    BY <1>1, <1>2 DEF Stays, Before
  <1>4. AllPlaced' /\ AsksOnce' /\ queue' \in Seq(Jobs)
    <2>1. CASE queue' = queue
      BY <2>1, <1>3, QueueKept DEF RentInv, Types
    <2>2. CASE walk' = [walk EXCEPT ![r] = "leasing"] /\ queue' = Append(queue, LeaseFor(r))
      <3>1. LeaseFor(r) \in Jobs /\ Placed(LeaseFor(r))' /\ LeaseFor(r).row = r
        BY <2>2 DEF LeaseFor, Jobs, Placed, RentInv, Types
      <3>2. \A i \in 1 .. Len(queue) : queue[i].kind = "lease" => queue[i].row # r
        BY <1>1 DEF RentInv, AllPlaced, Placed
      <3> QED BY <2>2, <3>1, <3>2, <1>3, QueueGrows DEF RentInv
    <2> QED BY <2>1, <2>2 DEF Duplicate, Goes, chain
  <1>5. Types'
    BY <1>1, <1>2, <1>4 DEF RentInv, Types
  <1>6. Walks' /\ Numbers' /\ JobInv'
    BY <1>1, <1>2 DEF RentInv, Walks, Before, Unstarted, Numbers, Given, JobInv
  <1>7. HoldersLease' /\ WriteFrees'
    <2>1. \A s \in Rows, a \in Accounts : Holds(s, a)' => Holds(s, a)
      BY <1>1, <1>2 DEF Holds, Bears, There
    <2> QED BY <2>1, <1>2, NoNewHolders
  <1> QED BY <1>4, <1>5, <1>6, <1>7 DEF RentInv

\* Put keeps the invariant: the token goes from the walk to its clone.
LEMMA KeepsPut == ASSUME RentInv, NEW r \in Rows, Put(r) PROVE RentInv'
  <1>1. /\ walk[r] = "put" /\ planted[r] = None /\ r \notin on
        /\ walk' \in [Rows -> Places] /\ walk'[r] \in {"name", "scrap"} /\ \A s \in Rows \ {r} : walk'[s] = walk[s]
    BY DEF RentInv, Types, Walks, Put, Goes, Before, Unstarted, Places
  <1>2. /\ got' = [got EXCEPT ![r] = None]
        /\ planted' = planted \/ (api[r] = "listed" /\ planted' = [planted EXCEPT ![r] = got[r]])
        /\ records' = records \/ records' = records \cup {r}
        /\ UNCHANGED <<api, on, queue, job, lease, pool, token, accounts, number, expired, unreset>>
    BY DEF Put, chain, table, steam, ghosts
  <1>3. /\ got' \in [Rows -> Tokens \cup {None}] /\ got'[r] = None /\ \A s \in Rows \ {r} : got'[s] = got[s]
        /\ planted' \in [Rows -> Tokens \cup {None}] /\ planted'[r] \in {None, got[r]}
        /\ \A s \in Rows \ {r} : planted'[s] = planted[s]
    BY <1>1, <1>2 DEF RentInv, Types
  <1>4. AllPlaced' /\ AsksOnce'
    <2>1. \A s \in Rows : Stays(s)
      BY <1>1, <1>2 DEF Stays, Before
    <2> QED BY <2>1, <1>2, QueueKept DEF RentInv
  <1>5. Types'
    BY <1>1, <1>2, <1>3 DEF RentInv, Types
  <1>6. Walks'
    BY <1>1, <1>2, <1>3 DEF RentInv, Walks, Before, Unstarted
  <1>7. Numbers' /\ JobInv'
    BY <1>1, <1>2, <1>3 DEF RentInv, Numbers, Given, JobInv
  <1>8. HoldersLease' /\ WriteFrees'
    <2>1. \A s \in Rows, a \in Accounts : Holds(s, a)' => Holds(s, a)
      BY <1>1, <1>2, <1>3 DEF Holds, Bears, There
    <2> QED BY <2>1, <1>2, NoNewHolders
  <1> QED BY <1>4, <1>5, <1>6, <1>7, <1>8 DEF RentInv

\* StartServer keeps the invariant: a clone that starts was there.
LEMMA KeepsStartServer == ASSUME RentInv, NEW r \in Rows, StartServer(r) PROVE RentInv'
  <1>1. /\ walk[r] = "start"
        /\ walk' \in [Rows -> Places] /\ walk'[r] \in {"found", "return"} /\ \A s \in Rows \ {r} : walk'[s] = walk[s]
        /\ on' = on \/ (api[r] = "listed" /\ on' = on \cup {r})
        /\ UNCHANGED <<got, records, api, planted, queue, job, lease, pool, token, accounts, number, expired, unreset>>
    BY DEF RentInv, Types, StartServer, Goes, Places, chain, table, steam, ghosts
  <1>2. AllPlaced' /\ AsksOnce'
    <2>1. \A s \in Rows : Stays(s)
      BY <1>1 DEF Stays, Before
    <2> QED BY <2>1, <1>1, QueueKept DEF RentInv
  <1>3. Types'
    BY <1>1 DEF RentInv, Types
  <1>4. Walks'
    BY <1>1 DEF RentInv, Walks, Before, Unstarted
  <1>5. Numbers' /\ JobInv'
    BY <1>1 DEF RentInv, Numbers, Given, JobInv
  <1>6. HoldersLease' /\ WriteFrees'
    <2>1. \A s \in Rows, a \in Accounts : Holds(s, a)' => Holds(s, a)
      BY <1>1 DEF Holds, Bears, There
    <2> QED BY <2>1, <1>1, NoNewHolders
  <1> QED BY <1>2, <1>3, <1>4, <1>5, <1>6 DEF RentInv

-----------------------------------------------------------------------------
(* The way back.                                                           *)

\* What a way back leaves of the server.
LEMMA ServerReturns ==
  ASSUME Types, NEW r \in Rows, NEW how, Returns(r, how)
  PROVE  /\ api' \in [Rows -> {"none", "listed", "gone"}] /\ on' \subseteq on
         /\ \A s \in Rows : api'[s] = "listed" => api[s] = "listed"
         /\ \A s \in Rows \ {r} : api'[s] = api[s]
         /\ how = "deleted" => api'[r] # "listed" /\ r \notin on'
         /\ how = "missing" => api'[r] # "listed" /\ (r \in on' => r \in on /\ api[r] # "listed")
  BY DEF Types, Returns

\* A row that gives its server back, and asks for its lease to be freed, perhaps.
LEMMA GoesBack ==
  ASSUME RentInv, NEW r \in Rows, NEW how, Returns(r, how), how \in {"deleted", "missing", "failed"},
         walk[r] \notin Before \/ walk' = walk, walk' \in [Rows -> Places],
         walk'[r] \notin Unstarted \/ walk' = walk, \A s \in Rows \ {r} : walk'[s] = walk[s],
         records' \subseteq records,
         UNCHANGED <<got, planted, job, lease, pool, token, accounts, number, expired, unreset>>,
         \/ queue' = queue
         \/ \E who \in {"walk", "reaper"}, lost \in BOOLEAN :
                /\ walk[r] \notin Before
                /\ queue' = Append(queue, ReleaseOf(r, who, lost))
                /\ ~lost => api'[r] # "listed" /\ r \notin on'
  PROVE  RentInv'
  <1>1. /\ api' \in [Rows -> {"none", "listed", "gone"}] /\ on' \subseteq on
        /\ \A s \in Rows : api'[s] = "listed" => api[s] = "listed"
    BY ServerReturns DEF RentInv
  <1>2. \A s \in Rows : Stays(s)
    BY <1>1 DEF Stays, Before, Unstarted
  <1>3. AllPlaced' /\ AsksOnce' /\ queue' \in Seq(Jobs)
    <2>1. CASE queue' = queue
      BY <2>1, <1>2, QueueKept DEF RentInv, Types
    <2>2. ASSUME NEW who \in {"walk", "reaper"}, NEW lost \in BOOLEAN, walk[r] \notin Before,
                 queue' = Append(queue, ReleaseOf(r, who, lost)), ~lost => api'[r] # "listed" /\ r \notin on'
          PROVE  AllPlaced' /\ AsksOnce' /\ queue' \in Seq(Jobs)
      <3>1. ReleaseOf(r, who, lost) \in Jobs /\ ReleaseOf(r, who, lost).kind # "lease"
        BY DEF ReleaseOf, Jobs
      <3>2. Placed(ReleaseOf(r, who, lost))'
        BY <2>2, <1>2 DEF ReleaseOf, Placed, Stays
      <3> QED BY <2>2, <3>1, <3>2, <1>2, QueueGrows DEF RentInv
    <2> QED BY <2>1, <2>2
  <1>4. Types'
    BY <1>1, <1>3 DEF RentInv, Types
  <1>5. Walks'
    BY <1>1 DEF RentInv, Walks, Before, Unstarted
  <1>6. Numbers' /\ JobInv'
    BY DEF RentInv, Numbers, Given, JobInv
  <1>7. HoldersLease' /\ WriteFrees'
    <2>1. \A s \in Rows, a \in Accounts : Holds(s, a)' => Holds(s, a)
      BY <1>1 DEF Holds, Bears, There
    <2> QED BY <2>1, NoNewHolders
  <1> QED BY <1>3, <1>4, <1>5, <1>6, <1>7 DEF RentInv

\* Return keeps the invariant.
LEMMA KeepsReturn == ASSUME RentInv, NEW r \in Rows, Return(r) PROVE RentInv'
  <1>1. PICK how \in {"deleted", "missing", "failed"} :
            /\ Deallocate(r, how, "walk")
            /\ Goes(r, "return", IF Waits(r, how) THEN "releasing" ELSE "close")
    BY DEF Return
  <1>2. /\ walk[r] = "return" /\ walk' \in [Rows -> Places] /\ walk'[r] \in {"releasing", "close"}
        /\ \A s \in Rows \ {r} : walk'[s] = walk[s]
    BY <1>1 DEF Goes, RentInv, Types, Places
  <1>3. \/ queue' = queue
        \/ how # "failed" /\ queue' = Append(queue, ReleaseOf(r, "walk", Lost(how)))
    BY <1>1 DEF Deallocate
  <1>4. how # "failed" /\ ~Lost(how) => api'[r] # "listed" /\ r \notin on'
    BY <1>1, ServerReturns DEF Lost, Deallocate, RentInv
  <1>5. Lost(how) \in BOOLEAN /\ records' \subseteq records /\ Returns(r, how)
    BY <1>1 DEF Lost, Deallocate
  <1>6. UNCHANGED <<got, planted, job, lease, pool, token, accounts, number, expired, unreset>>
    BY DEF Return, table, steam, ghosts
  <1>7. walk[r] \notin Before /\ walk'[r] \notin Unstarted
    BY <1>2 DEF Before, Unstarted
  <1> QED BY <1>2, <1>3, <1>4, <1>5, <1>6, <1>7, GoesBack

\* Scrap keeps the invariant: a clone that is scrapped was never started.
LEMMA KeepsScrap == ASSUME RentInv, NEW r \in Rows, Scrap(r) PROVE RentInv'
  <1>1. PICK how \in {"deleted", "missing", "failed"} :
            /\ Returns(r, how)
            /\ IF how = "failed"
               THEN Goes(r, "scrap", "close") /\ UNCHANGED <<queue, records>>
               ELSE /\ Goes(r, "scrap", "releasing")
                    /\ queue' = Append(queue, ReleaseOf(r, "walk", FALSE))
                    /\ records' = records \ {r}
    BY DEF Scrap
  <1>2. /\ walk[r] = "scrap" /\ walk' \in [Rows -> Places] /\ walk'[r] \in {"releasing", "close"}
        /\ \A s \in Rows \ {r} : walk'[s] = walk[s]
    BY <1>1 DEF Goes, RentInv, Types, Places
  <1>3. r \notin on /\ on' \subseteq on /\ (how # "failed" => api'[r] # "listed")
    BY <1>1, <1>2, ServerReturns DEF RentInv, Walks, Unstarted
  <1>4. records' \subseteq records /\ (queue' = queue \/ (how # "failed" /\ queue' = Append(queue, ReleaseOf(r, "walk", FALSE))))
    BY <1>1
  <1>5. UNCHANGED <<got, planted, job, lease, pool, token, accounts, number, expired, unreset>>
    BY DEF Scrap, table, steam, ghosts
  <1>6. walk[r] \notin Before /\ walk'[r] \notin Unstarted
    BY <1>2 DEF Before, Unstarted
  <1> QED BY <1>1, <1>2, <1>3, <1>4, <1>5, <1>6, GoesBack

\* Reap keeps the invariant: the reaper may meet a server whose walk goes on.
LEMMA KeepsReap == ASSUME RentInv, NEW r \in Rows, Reap(r) PROVE RentInv'
  <1>1. PICK how \in {"deleted", "missing", "failed"} : Deallocate(r, how, "reaper")
    BY DEF Reap
  <1>2. \/ queue' = queue
        \/ how # "failed" /\ r \in records /\ queue' = Append(queue, ReleaseOf(r, "reaper", Lost(how)))
    BY <1>1 DEF Deallocate
  <1>3. how # "failed" /\ ~Lost(how) => api'[r] # "listed" /\ r \notin on'
    BY <1>1, ServerReturns DEF Lost, Deallocate, RentInv
  <1>4. Lost(how) \in BOOLEAN /\ records' \subseteq records /\ Returns(r, how)
    BY <1>1 DEF Lost, Deallocate
  <1>5. UNCHANGED <<walk, got, planted, job, lease, pool, token, accounts, number, expired, unreset>>
    BY DEF Reap, machine, table, steam, ghosts
  <1>6. r \in records => walk[r] \notin Before
    BY DEF RentInv, Walks
  <1>7. walk' \in [Rows -> Places] /\ \A s \in Rows \ {r} : walk'[s] = walk[s]
    BY <1>5 DEF RentInv, Types
  <1> QED BY <1>2, <1>3, <1>4, <1>5, <1>6, <1>7, GoesBack

\* Vanish keeps the invariant: a server nobody can see may run on.
LEMMA KeepsVanish == ASSUME RentInv, NEW r \in Rows, Vanish(r) PROVE RentInv'
  <1>1. /\ api' \in [Rows -> {"none", "listed", "gone"}] /\ api' = [api EXCEPT ![r] = "gone"]
        /\ \A s \in Rows : api'[s] = "listed" => api[s] = "listed"
        /\ UNCHANGED <<walk, got, records, on, planted, queue, job, lease, pool, token, accounts,
                       number, expired, unreset>>
    BY DEF RentInv, Types, Vanish, machine, chain, table, steam, ghosts
  <1>2. \A s \in Rows : Stays(s)
    BY <1>1 DEF Stays, Before
  <1>3. AllPlaced' /\ AsksOnce'
    BY <1>1, <1>2, QueueKept DEF RentInv
  <1>4. Types' /\ Walks' /\ Numbers' /\ JobInv'
    BY <1>1 DEF RentInv, Types, Walks, Numbers, Given, JobInv
  <1>5. HoldersLease' /\ WriteFrees'
    <2>1. \A s \in Rows, a \in Accounts : Holds(s, a)' => Holds(s, a)
      BY <1>1 DEF Holds, Bears, There
    <2> QED BY <2>1, <1>1, NoNewHolders
  <1> QED BY <1>3, <1>4, <1>5 DEF RentInv

\* Crash keeps the invariant: walks, their tokens and the queue die with the process.
LEMMA KeepsCrash == ASSUME RentInv, Crash PROVE RentInv'
  <1>1. /\ walk' \in [Rows -> Places] /\ \A r \in Rows : walk'[r] \in {walk[r], "play", "window", "stranded"}
        /\ got' = [r \in Rows |-> None] /\ records' = {} /\ queue' = <<>> /\ job' = Start
        /\ UNCHANGED <<api, on, planted, lease, pool, token, accounts, number, expired, unreset>>
    BY DEF RentInv, Types, Crash, dathost, table, steam, ghosts, Places
  <1>2. /\ job' \in JobState /\ job'.at = "start" /\ \A a \in Accounts : job'.list.number[a] = 0
        /\ job'.list.accounts = {} /\ queue' \in Seq(Jobs) /\ Len(queue') = 0
    BY <1>1 DEF Start, NoList, JobState, Lists, Stages
  <1>3. Types'
    BY <1>1, <1>2 DEF RentInv, Types
  <1>4. Walks'
    BY <1>1 DEF RentInv, Walks, Before, Unstarted
  <1>5. AllPlaced' /\ AsksOnce'
    BY <1>2 DEF AllPlaced, AsksOnce
  <1>6. Numbers' /\ JobInv'
    BY <1>1, <1>2 DEF RentInv, Types, Numbers, Given, JobInv
  <1>7. HoldersLease' /\ WriteFrees'
    <2>1. \A s \in Rows, a \in Accounts : Holds(s, a)' => Holds(s, a)
      BY <1>1 DEF Holds, Bears, There
    <2> QED BY <2>1, <1>1, <1>2, NoNewHolders
  <1> QED BY <1>3, <1>4, <1>5, <1>6, <1>7 DEF RentInv

-----------------------------------------------------------------------------
(* The pool.                                                               *)

\* The job at work, and what is known of it.
LEMMA HeadPlaced ==
  ASSUME Types, AllPlaced, queue # <<>>
  PROVE  Head(queue) \in Jobs /\ Placed(Head(queue)) /\ Tail(queue) \in Seq(Jobs)
  <1>1. 1 \in 1 .. Len(queue) /\ Head(queue) = queue[1] /\ Head(queue) \in Jobs /\ Tail(queue) \in Seq(Jobs)
    BY DEF Types
  <1>2. Placed(queue[1])
    BY <1>1 DEF AllPlaced
  <1> QED BY <1>1, <1>2 DEF Placed

\* An idle pool.
LEMMA StartTyped == Start \in JobState /\ Start.at = "start" /\ Start.list.accounts = {}
                    /\ (\A a \in Accounts : Start.list.number[a] = 0)
  BY DEF Start, NoList, JobState, Lists, Stages

\* The first job is a lease, and is done: the walk of its row goes on.
LEMMA LeaseDone ==
  ASSUME RentInv, queue # <<>>, Head(queue).kind = "lease", queue' = Tail(queue),
         NEW p \in Places, walk' = [walk EXCEPT ![Row] = p], UNCHANGED <<api, on>>
  PROVE  /\ AllPlaced' /\ AsksOnce' /\ queue' \in Seq(Jobs)
         /\ Row \in Rows /\ walk[Row] = "leasing"
         /\ walk' \in [Rows -> Places] /\ walk'[Row] = p /\ \A s \in Rows \ {Row} : walk'[s] = walk[s]
  <1>1. Row \in Rows /\ walk[Row] = "leasing"
    BY HeadPlaced DEF RentInv, Placed, Row
  <1>2. walk' \in [Rows -> Places] /\ walk'[Row] = p /\ \A s \in Rows \ {Row} : walk'[s] = walk[s]
    BY <1>1 DEF RentInv, Types
  <1>3. \A s \in Rows \ {Row} : Stays(s)
    BY <1>2 DEF Stays
  <1>4. ASSUME NEW j \in Jobs, Placed(j), j.kind # "sweep", j.row = Row,
               ~(j.kind = "lease" /\ Head(queue).kind = "lease")
        PROVE  Placed(j)'
    BY <1>1, <1>4 DEF Placed, Jobs, Before
  <1>5. \A j \in Jobs :
            Placed(j) /\ j.kind # "sweep" /\ j.row = Row
            /\ ~(j.kind = "lease" /\ Head(queue).kind = "lease") => Placed(j)'
    BY <1>4
  <1>6. AllPlaced' /\ AsksOnce' /\ queue' \in Seq(Jobs)
    <2>1. Types /\ AllPlaced /\ AsksOnce
      BY DEF RentInv
    <2>2. \A r \in Rows \ {Row} : Stays(r)
      BY <1>3
    <2> QED BY <2>1, <2>2, <1>5, QueueShrinks
  <1> QED BY <1>1, <1>2, <1>6

\* The first job is a release or a sweep, and is done.
LEMMA OtherDone ==
  ASSUME RentInv, queue # <<>>, Head(queue).kind # "lease", queue' = Tail(queue),
         \/ walk' = walk
         \/ Head(queue).kind = "release" /\ walk' = [walk EXCEPT ![Row] = "close"],
         UNCHANGED <<api, on>>
  PROVE  /\ AllPlaced' /\ AsksOnce' /\ queue' \in Seq(Jobs) /\ walk' \in [Rows -> Places]
         /\ \A r \in Rows : walk'[r] = walk[r] \/ (walk[r] \notin Before /\ walk'[r] = "close")
  <1>1. Head(queue).kind = "release" => Row \in Rows /\ walk[Row] \notin Before
    BY HeadPlaced DEF RentInv, Placed, Row
  <1>2. /\ walk' \in [Rows -> Places]
        /\ \A r \in Rows : walk'[r] = walk[r] \/ (walk[r] \notin Before /\ walk'[r] = "close")
    BY <1>1 DEF RentInv, Types, Places
  <1>3. \A r \in Rows : Stays(r)
    BY <1>2 DEF Stays, Before
  <1>4. ASSUME NEW j \in Jobs, Placed(j), j.kind # "sweep" PROVE Placed(j)'
    <2>1. Stays(j.row)
      BY <1>3, <1>4 DEF Placed
    <2> QED BY <1>4, <2>1 DEF Placed, Stays
  <1>5. \A j \in Jobs :
            Placed(j) /\ j.kind # "sweep" /\ j.row = Row
            /\ ~(j.kind = "lease" /\ Head(queue).kind = "lease") => Placed(j)'
    BY <1>4
  <1>6. AllPlaced' /\ AsksOnce' /\ queue' \in Seq(Jobs)
    <2>1. Types /\ AllPlaced /\ AsksOnce
      BY DEF RentInv
    <2>2. \A r \in Rows \ {Row} : Stays(r)
      BY <1>3
    <2> QED BY <2>1, <2>2, <1>5, QueueShrinks
  <1> QED BY <1>2, <1>6

\* A token is given: a lease to the row whose token it is, and to no other.
LEMMA Leased ==
  ASSUME RentInv, queue # <<>>, Head(queue).kind = "lease", NEW a \in Accounts, NEW n \in Nat,
         lease[a] = None, number[a] # 0, n <= number[a],
         Answer([account |-> a, number |-> n]),
         lease' = [lease EXCEPT ![a] = Row],
         pool' \in [Accounts -> {"none", "held", "dropped"}],
         \A b \in Accounts : pool'[b] = "held" => pool[b] = "held" \/ b = a,
         token' = token \/ token' = [token EXCEPT ![a] = n],
         UNCHANGED <<records, api, on, planted, accounts, number, expired, unreset>>
  PROVE  RentInv'
  <1> DEFINE t == [account |-> a, number |-> n]
  <1>1. t \in Tokens /\ t.account = a /\ t.number = n
    BY DEF Tokens
  <1>2. /\ AllPlaced' /\ AsksOnce' /\ queue' \in Seq(Jobs)
        /\ Row \in Rows /\ walk[Row] = "leasing"
        /\ walk' \in [Rows -> Places] /\ walk'[Row] = "put" /\ \A s \in Rows \ {Row} : walk'[s] = walk[s]
    BY LeaseDone DEF Answer, Finish, Places
  <1>3. /\ got' = [got EXCEPT ![Row] = t] /\ job' = Start
        /\ planted[Row] = None /\ Row \notin on /\ Row \notin records
    BY <1>2 DEF Answer, Finish, RentInv, Walks, Before, Unstarted
  <1> HIDE DEF t
  <1>4. /\ got' \in [Rows -> Tokens \cup {None}] /\ got'[Row] = t /\ \A s \in Rows \ {Row} : got'[s] = got[s]
        /\ lease' \in [Accounts -> Rows \cup {None}] /\ lease'[a] = Row
        /\ \A b \in Accounts \ {a} : lease'[b] = lease[b]
        /\ token' \in [Accounts -> Nat] /\ \A b \in Accounts : token'[b] <= number[b]
    BY <1>1, <1>2, <1>3 DEF RentInv, Types, Numbers
  <1>5. Types'
    BY <1>2, <1>3, <1>4, StartTyped DEF RentInv, Types
  <1>6. Walks'
    BY <1>2, <1>3, <1>4 DEF RentInv, Walks, Before, Unstarted
  <1>7. Numbers' /\ JobInv'
    <2>1. \A r \in Rows : Given(got[r])' /\ Given(planted[r])'
      BY <1>1, <1>4 DEF RentInv, Numbers, Given
    <2>2. ASSUME NEW b \in Accounts
          PROVE  /\ token'[b] <= number'[b] /\ job'.list.number[b] <= number'[b]
                 /\ number'[b] = 0 => lease'[b] = None /\ pool'[b] # "held" /\ b \notin accounts'
                 /\ b \in job'.list.accounts => number'[b] # 0
      <3>1. /\ token'[b] <= number'[b] /\ job'.list.number[b] <= number'[b]
            /\ b \in job'.list.accounts => number'[b] # 0
        BY <1>3, <1>4, StartTyped DEF RentInv, Types, Numbers
      <3>2. number'[b] = 0 => lease'[b] = None /\ pool'[b] # "held" /\ b \notin accounts'
        <4> HAVE number'[b] = 0
        <4>1. number[b] = 0 /\ b # a
          OBVIOUS
        <4>2. lease[b] = None /\ pool[b] # "held" /\ b \notin accounts
          BY <4>1 DEF RentInv, Numbers
        <4> QED BY <4>1, <4>2, <1>4
      <3> QED BY <3>1, <3>2
    <2> QED BY <2>1, <2>2, <1>3, StartTyped DEF Numbers, JobInv
  <1>8. HoldersLease'
    <2> SUFFICES ASSUME ~unreset, NEW r \in Rows, NEW b \in Accounts, Holds(r, b)'
                 PROVE  lease'[b] = r
      BY DEF HoldersLease
    <2>1. CASE r = Row
      <3>1. b = a
        BY <2>1, <1>1, <1>3, <1>4 DEF Holds, Bears
      <3> QED BY <2>1, <3>1, <1>4
    <2>2. CASE r # Row
      <3>1. Holds(r, b)
        BY <2>2, <1>4 DEF Holds, Bears, There
      <3>2. lease[b] = r
        BY <3>1 DEF RentInv, HoldersLease
      <3>3. b # a
        BY <3>2, RentAssumption
      <3> QED BY <3>2, <3>3, <1>4
    <2> QED BY <2>1, <2>2
  <1>9. WriteFrees'
    BY <1>3, StartTyped DEF WriteFrees
  <1> QED BY <1>2, <1>5, <1>6, <1>7, <1>8, <1>9 DEF RentInv

\* Claim keeps the invariant: a free account's token is on no server.
LEMMA KeepsClaim == ASSUME RentInv, Claim PROVE RentInv'
  <1>1. PICK a \in Free : /\ lease' = [lease EXCEPT ![a] = Row]
                          /\ Answer([account |-> a, number |-> token[a]])
    BY DEF Claim
  <1>2. a \in Accounts /\ pool[a] = "held" /\ lease[a] = None
    BY <1>1 DEF Free, Held
  <1>3. token[a] \in Nat /\ token[a] <= number[a] /\ number[a] # 0
    BY <1>2 DEF RentInv, Types, Numbers
  <1>4. /\ UNCHANGED <<records, api, on, planted, pool, token, accounts, number, expired, unreset>>
        /\ queue # <<>> /\ Head(queue).kind = "lease" /\ pool' \in [Accounts -> {"none", "held", "dropped"}]
    BY DEF Claim, Works, dathost, steam, ghosts, RentInv, Types
  <1> QED BY <1>1, <1>2, <1>3, <1>4, Leased

\* Insert keeps the invariant: an account that was just made is on no server.
LEMMA KeepsInsert == ASSUME RentInv, Insert PROVE RentInv'
  <1> DEFINE a == job.account
  <1>1. a \in Accounts /\ number[a] # 0 /\ lease[a] = None /\ number[a] \in Nat
    BY DEF RentInv, Types, JobInv, Insert, Works
  <1>2. /\ pool' = [pool EXCEPT ![a] = "held"] /\ lease' = [lease EXCEPT ![a] = Row]
        /\ token' = [token EXCEPT ![a] = 1] /\ Answer([account |-> a, number |-> 1])
        /\ UNCHANGED <<records, api, on, planted, accounts, number, expired, unreset>>
        /\ queue # <<>> /\ Head(queue).kind = "lease"
    BY DEF Insert, Works, dathost, steam, ghosts
  <1>3. /\ pool' \in [Accounts -> {"none", "held", "dropped"}]
        /\ \A b \in Accounts : pool'[b] = "held" => pool[b] = "held" \/ b = a
    BY <1>1, <1>2 DEF RentInv, Types
  <1>4. 1 \in Nat /\ 1 <= number[a]
    BY <1>1
  <1> HIDE DEF a
  <1> QED BY <1>1, <1>2, <1>3, <1>4, Leased

\* Steam's numbers grow, and its accounts are gone or new: what is gone or renewed is held
\* by nobody any more, what is new by nobody yet.
LEMMA NumbersGrow ==
  ASSUME RentInv, UNCHANGED <<got, api, on, planted>>, number' \in [Accounts -> Nat],
         \A a \in Accounts : /\ number[a] <= number'[a]
                             /\ a \in accounts' => a \in accounts \/ number[a] < number'[a]
  PROVE  /\ \A r \in Rows, a \in Accounts : Holds(r, a)' => Holds(r, a)
         /\ \A r \in Rows, a \in Accounts : number[a] < number'[a] => ~Holds(r, a)'
         /\ \A r \in Rows : Given(got[r])' /\ Given(planted[r])'
  <1>1. ASSUME NEW t \in Tokens \cup {None}, Given(t), t # None
        PROVE  /\ t.account \in Accounts /\ t.number <= number'[t.account]
               /\ t.number = number'[t.account] => t.number = number[t.account] /\ ~(number[t.account] < number'[t.account])
    <2>1. t \in Tokens /\ t.account \in Accounts /\ t.number \in Nat /\ t.number <= number[t.account]
      BY <1>1, RentAssumption DEF Given, Tokens
    <2>2. number[t.account] <= number'[t.account] /\ number[t.account] \in Nat /\ number'[t.account] \in Nat
      BY <2>1 DEF RentInv, Types
    <2> QED BY <2>1, <2>2
  <1>2. \A r \in Rows : /\ got[r] \in Tokens \cup {None} /\ Given(got[r])
                        /\ planted[r] \in Tokens \cup {None} /\ Given(planted[r])
    BY DEF RentInv, Types, Numbers
  <1>3. ASSUME NEW r \in Rows, NEW a \in Accounts, Holds(r, a)'
        PROVE  Holds(r, a) /\ ~(number[a] < number'[a])
    BY <1>1, <1>2, <1>3 DEF Holds, Bears, There
  <1>4. \A r \in Rows : Given(got[r])' /\ Given(planted[r])'
    BY <1>1, <1>2 DEF Given
  <1> QED BY <1>3, <1>4

\* A step of the pool that moves its job on, and maybe the numbers of Steam.
LEMMA JobMoves ==
  ASSUME RentInv, job' \in JobState,
         UNCHANGED <<got, records, api, on, planted, lease>>,
         walk' \in [Rows -> Places], Walks', AllPlaced', AsksOnce', queue' \in Seq(Jobs),
         pool' \in [Accounts -> {"none", "held", "dropped"}], token' \in [Accounts -> Nat],
         number' \in [Accounts -> Nat], accounts' \subseteq Accounts, expired' \subseteq Accounts,
         unreset' \in BOOLEAN, unreset => unreset',
         \A a \in Accounts : /\ number[a] <= number'[a]
                             /\ a \in accounts' => a \in accounts \/ number[a] < number'[a]
                             /\ token'[a] <= number'[a] /\ job'.list.number[a] <= number'[a]
                             /\ a \in job'.list.accounts => number'[a] # 0
                             /\ pool'[a] = "held" => number'[a] # 0,
         JobInv', WriteFrees'
  PROVE  RentInv'
  <1>1. Types'
    BY DEF RentInv, Types
  <1>2. /\ \A r \in Rows, a \in Accounts : Holds(r, a)' => Holds(r, a)
        /\ \A r \in Rows : Given(got[r])' /\ Given(planted[r])'
    BY NumbersGrow
  <1>3. Numbers'
    <2>1. ASSUME NEW a \in Accounts
          PROVE  /\ token'[a] <= number'[a] /\ job'.list.number[a] <= number'[a]
                 /\ number'[a] = 0 => lease'[a] = None /\ pool'[a] # "held" /\ a \notin accounts'
                 /\ a \in job'.list.accounts => number'[a] # 0
      BY DEF RentInv, Types, Numbers
    <2> QED BY <1>2, <2>1 DEF Numbers
  <1>4. HoldersLease'
    BY <1>2 DEF RentInv, HoldersLease
  <1> QED BY <1>1, <1>3, <1>4 DEF RentInv

\* A step of the pool on its own job, which leaves everybody else alone.
LEMMA JobOnly ==
  ASSUME RentInv, job' \in JobState,
         UNCHANGED <<walk, got, records, api, on, planted, queue, lease, pool, token, accounts,
                     number, expired, unreset>>,
         job'.list = job.list \/ job'.list = [accounts |-> accounts, number |-> number, expired |-> expired],
         JobInv', WriteFrees'
  PROVE  RentInv'
  <1>1. AllPlaced' /\ AsksOnce' /\ queue' \in Seq(Jobs)
    <2>1. \A r \in Rows : Stays(r)
      BY DEF Stays
    <2> QED BY <2>1, QueueKept DEF RentInv, Types
  <1>2. \A a \in Accounts : /\ number[a] <= number'[a]
                            /\ a \in accounts' => a \in accounts \/ number[a] < number'[a]
                            /\ token'[a] <= number'[a] /\ job'.list.number[a] <= number'[a]
                            /\ a \in job'.list.accounts => number'[a] # 0
                            /\ pool'[a] = "held" => number'[a] # 0
    BY DEF RentInv, Types, Numbers
  <1>3. Walks' /\ (unreset => unreset')
    BY DEF RentInv, Walks
  <1> QED BY <1>1, <1>2, <1>3, JobMoves DEF RentInv, Types

\* Dry keeps the invariant, whether there is room for an account more or not.
LEMMA KeepsDry == ASSUME RentInv, Dry PROVE RentInv'
  <1>1. CASE Room
    <2>1. /\ job' = [job EXCEPT !.at = "mint"]
          /\ UNCHANGED <<walk, got, records, api, on, planted, queue, lease, pool, token, accounts,
                         number, expired, unreset>>
      BY <1>1 DEF Dry, machine, dathost, table, steam, ghosts
    <2>2. job' \in JobState /\ job'.at = "mint" /\ job'.list = job.list
      BY <2>1 DEF RentInv, Types, JobState, Stages
    <2>3. JobInv' /\ WriteFrees'
      BY <2>2 DEF JobInv, WriteFrees
    <2> QED BY <2>1, <2>2, <2>3, JobOnly
  <1>2. CASE ~Room
    <2>1. /\ Answer(None) /\ queue # <<>> /\ Head(queue).kind = "lease"
          /\ UNCHANGED <<records, api, on, planted, lease, pool, token, accounts, number, expired, unreset>>
      BY <1>2 DEF Dry, Works, dathost, table, steam, ghosts
    <2>2. /\ AllPlaced' /\ AsksOnce' /\ queue' \in Seq(Jobs)
          /\ Row \in Rows /\ walk[Row] = "leasing"
          /\ walk' \in [Rows -> Places] /\ walk'[Row] = "put" /\ \A s \in Rows \ {Row} : walk'[s] = walk[s]
      BY <2>1, LeaseDone DEF Answer, Finish, Places
    <2>3. /\ job' = Start /\ got' \in [Rows -> Tokens \cup {None}]
          /\ got'[Row] = None /\ \A s \in Rows \ {Row} : got'[s] = got[s]
          /\ planted[Row] = None /\ Row \notin on /\ Row \notin records
      BY <2>1, <2>2 DEF Answer, Finish, RentInv, Types, Walks, Before, Unstarted
    <2>4. Types'
      BY <2>1, <2>2, <2>3, StartTyped DEF RentInv, Types
    <2>5. Walks'
      BY <2>1, <2>2, <2>3 DEF RentInv, Walks, Before, Unstarted
    <2>6. Numbers' /\ JobInv'
      <3>1. \A a \in Accounts : job'.list.number[a] <= number[a]
        BY <2>3, StartTyped DEF RentInv, Types
      <3> QED BY <2>1, <2>3, <3>1, StartTyped DEF RentInv, Numbers, Given, JobInv
    <2>7. HoldersLease' /\ WriteFrees'
      <3>1. \A s \in Rows, a \in Accounts : Holds(s, a)' => Holds(s, a)
        BY <2>1, <2>2, <2>3 DEF Holds, Bears, There
      <3> QED BY <3>1, <2>1, <2>3, StartTyped, NoNewHolders
    <2> QED BY <2>2, <2>4, <2>5, <2>6, <2>7 DEF RentInv
  <1> QED BY <1>1, <1>2

\* Mint keeps the invariant: a new account has its first token.
LEMMA KeepsMint == ASSUME RentInv, Mint PROVE RentInv'
  <1>1. /\ queue # <<>> /\ Head(queue).kind = "lease"
        /\ UNCHANGED <<got, records, api, on, planted, lease, pool, token, expired, unreset>>
    BY DEF Mint, Works, machine, dathost, table, ghosts
  <1>2. ASSUME Unmade # {}, Make
        PROVE  /\ New \in Accounts /\ number[New] = 0
               /\ number' \in [Accounts -> Nat] /\ number'[New] = 1
               /\ \A a \in Accounts \ {New} : number'[a] = number[a]
               /\ accounts' = accounts \cup {New}
    <2>1. New \in Accounts /\ number[New] = 0
      BY <1>2 DEF New, Unmade
    <2> QED BY <1>2, <2>1 DEF Make, RentInv, Types
  <1>3. ASSUME Unmade # {}, Make
        PROVE  /\ accounts' \subseteq Accounts
               /\ \A a \in Accounts : number[a] <= number'[a] /\ (a \in accounts' => a \in accounts \/ number[a] < number'[a])
    <2>1. /\ New \in Accounts /\ number[New] = 0 /\ number'[New] = 1
          /\ \A a \in Accounts \ {New} : number'[a] = number[a]
          /\ accounts' = accounts \cup {New} /\ accounts \subseteq Accounts
      BY <1>2, <1>3 DEF RentInv, Types
    <2>2. \A a \in Accounts : number[a] \in Nat
      BY DEF RentInv, Types
    <2> HIDE DEF New
    <2> QED BY <2>1, <2>2
  <1>4. /\ number' \in [Accounts -> Nat] /\ accounts' \subseteq Accounts
        /\ \A a \in Accounts : number[a] <= number'[a] /\ (a \in accounts' => a \in accounts \/ number[a] < number'[a])
    <2>1. CASE UNCHANGED <<accounts, number>>
      BY <2>1 DEF RentInv, Types
    <2> QED BY <1>2, <1>3, <2>1 DEF Mint
  <1>5. \A a \in Accounts : /\ token'[a] <= number'[a] /\ (pool'[a] = "held" => number'[a] # 0)
                            /\ job.list.number[a] <= number'[a] /\ (a \in job.list.accounts => number'[a] # 0)
    BY <1>1, <1>4 DEF RentInv, Types, Numbers, JobState, Lists
  <1>6. CASE /\ Unmade # {} /\ Make /\ job' = [job EXCEPT !.at = "insert", !.account = New]
             /\ UNCHANGED <<queue, machine>>
    <2>1. /\ New \in Accounts /\ number[New] = 0 /\ number'[New] = 1
      BY <1>2, <1>6
    <2>2. /\ job' \in JobState /\ job'.at = "insert" /\ job'.account = New /\ job'.list = job.list
      BY <2>1, <1>6 DEF RentInv, Types, JobState, Stages
    <2>3. walk' = walk /\ queue' = queue
      BY <1>6 DEF machine
    <2>4. AllPlaced' /\ AsksOnce' /\ queue' \in Seq(Jobs) /\ walk' \in [Rows -> Places] /\ Walks'
      <3>1. \A r \in Rows : Stays(r)
        BY <1>1, <2>3 DEF Stays
      <3> QED BY <1>1, <2>3, <3>1, QueueKept DEF RentInv, Types, Walks
    <2>5. JobInv' /\ WriteFrees'
      BY <1>1, <2>1, <2>2 DEF RentInv, Numbers, JobInv, WriteFrees
    <2> QED BY <1>1, <1>4, <1>5, <2>2, <2>4, <2>5, JobMoves DEF RentInv, Types
  <1>7. CASE Finish /\ walk' = [walk EXCEPT ![Row] = "scrap"]
    <2>1. /\ AllPlaced' /\ AsksOnce' /\ queue' \in Seq(Jobs)
          /\ Row \in Rows /\ walk[Row] = "leasing"
          /\ walk' \in [Rows -> Places] /\ walk'[Row] = "scrap" /\ \A s \in Rows \ {Row} : walk'[s] = walk[s]
      BY <1>1, <1>7, LeaseDone DEF Finish, Places
    <2>2. Walks'
      BY <1>1, <2>1 DEF RentInv, Walks, Before, Unstarted
    <2>3. /\ job' = Start /\ job' \in JobState
          /\ \A a \in Accounts : job'.list.number[a] <= number'[a] /\ (a \in job'.list.accounts => number'[a] # 0)
      BY <1>4, <1>7, StartTyped DEF Finish
    <2>4. JobInv' /\ WriteFrees'
      BY <2>3, StartTyped DEF JobInv, WriteFrees
    <2> QED BY <1>1, <1>4, <1>5, <2>1, <2>2, <2>3, <2>4, JobMoves DEF RentInv, Types
  <1> QED BY <1>6, <1>7 DEF Mint

\* A release that is at an end: whoever waits for it goes on.
LEMMA Resumes ==
  ASSUME RentInv, queue # <<>>, Head(queue).kind = "release", Resume,
         UNCHANGED <<records, api, on>>
  PROVE  /\ AllPlaced' /\ AsksOnce' /\ queue' \in Seq(Jobs) /\ walk' \in [Rows -> Places]
         /\ \A r \in Rows : walk'[r] = walk[r] \/ (walk[r] \notin Before /\ walk'[r] = "close")
         /\ (UNCHANGED planted => Walks') /\ job' = Start /\ got' = got
  <1>1. /\ queue' = Tail(queue) /\ job' = Start /\ got' = got
        /\ walk' = walk \/ walk' = [walk EXCEPT ![Row] = "close"]
    BY DEF Resume, Finish
  <1>2. /\ AllPlaced' /\ AsksOnce' /\ queue' \in Seq(Jobs) /\ walk' \in [Rows -> Places]
        /\ \A r \in Rows : walk'[r] = walk[r] \/ (walk[r] \notin Before /\ walk'[r] = "close")
    BY <1>1, OtherDone
  <1>3. UNCHANGED planted => Walks'
    BY <1>1, <1>2 DEF RentInv, Walks, Before, Unstarted
  <1> QED BY <1>1, <1>2, <1>3

\* A job that is over, with nothing but the walk that waited for it moved on.
LEMMA JobOver ==
  ASSUME RentInv, job' = Start, AllPlaced', AsksOnce', queue' \in Seq(Jobs),
         walk' \in [Rows -> Places], Walks',
         UNCHANGED <<got, records, api, on, planted, lease, pool, token, accounts, number, expired, unreset>>
  PROVE  RentInv'
  <1>1. \A a \in Accounts : /\ number[a] <= number'[a]
                            /\ a \in accounts' => a \in accounts \/ number[a] < number'[a]
                            /\ token'[a] <= number'[a] /\ job'.list.number[a] <= number'[a]
                            /\ a \in job'.list.accounts => number'[a] # 0
                            /\ pool'[a] = "held" => number'[a] # 0
    BY StartTyped DEF RentInv, Types, Numbers
  <1>2. JobInv' /\ WriteFrees' /\ (unreset => unreset') /\ job' \in JobState
    BY StartTyped DEF JobInv, WriteFrees
  <1> QED BY <1>1, <1>2, JobMoves DEF RentInv, Types

\* Release keeps the invariant: a lease that goes back as it is has no server any more.
LEMMA KeepsRelease == ASSUME RentInv, Release PROVE RentInv'
  <1>1. /\ queue # <<>> /\ Head(queue).kind = "release"
        /\ UNCHANGED <<records, api, on, planted, lease, pool, token, accounts, number, expired, unreset>>
    BY DEF Release, Works, dathost, table, steam, ghosts
  <1>2. CASE Resume
    BY <1>1, <1>2, Resumes, JobOver
  <1>3. ASSUME NEW a \in Held, lease[a] = Row,
               job' = [job EXCEPT !.at = IF Head(queue).lost THEN "reset" ELSE "write",
                                  !.account = a, !.number = token[a]],
               UNCHANGED <<queue, machine>>
        PROVE  RentInv'
    <2>1. a \in Accounts /\ token[a] \in Nat /\ token[a] <= number[a] /\ number[a] # 0
      BY DEF Held, RentInv, Types, Numbers
    <2>2. /\ job' \in JobState /\ job'.account = a /\ job'.number = token[a] /\ job'.list = job.list
          /\ job'.at = IF Head(queue).lost THEN "reset" ELSE "write"
      BY <1>3, <2>1 DEF RentInv, Types, JobState, Stages
    <2>3. /\ Row \in Rows /\ got[Row] = None
          /\ ~Head(queue).lost => api[Row] # "listed" /\ Row \notin on
      BY <1>1, HeadPlaced DEF Placed, Row, RentInv, Walks, Before
    <2>4. JobInv'
      BY <1>1, <2>1, <2>2 DEF JobInv
    <2>5. WriteFrees'
      <3> SUFFICES ASSUME ~unreset, ~Head(queue).lost, NEW r \in Rows, Holds(r, a)'
                   PROVE  FALSE
        BY <1>1, <2>2 DEF WriteFrees, Holds, Bears, There
      <3>1. Holds(r, a)
        BY <1>1, <1>3 DEF machine, Holds, Bears, There
      <3>2. r = Row
        BY <1>3, <2>1, <3>1 DEF RentInv, HoldersLease
      <3> QED BY <2>3, <3>1, <3>2 DEF Holds, Bears, There
    <2> QED BY <1>1, <1>3, <2>2, <2>4, <2>5, JobOnly DEF machine
  <1> QED BY <1>2, <1>3 DEF Release

\* Steam gives an account its next number.
LEMMA Renewed ==
  ASSUME RentInv, NEW a \in Accounts, Renew(a)
  PROVE  /\ number' \in [Accounts -> Nat] /\ number'[a] = number[a] + 1
         /\ \A b \in Accounts \ {a} : number'[b] = number[b]
         /\ \A b \in Accounts : number[b] <= number'[b] /\ number[b] \in Nat /\ number'[b] \in Nat
         /\ expired' \subseteq Accounts
  BY DEF RentInv, Types, Renew

\* Reset keeps the invariant: either the token is renewed or it is known that it was not.
LEMMA KeepsReset == ASSUME RentInv, Reset PROVE RentInv'
  <1> SUFFICES ASSUME NEW a \in Accounts, a = job.account PROVE RentInv'
    BY DEF RentInv, JobInv, Reset
  <1>1. /\ a \in Accounts /\ job.number <= number[a] /\ job.number \in Nat /\ number[a] \in Nat
        /\ UNCHANGED <<queue, walk, got, records, api, on, planted, lease, pool, token, accounts>>
    BY DEF RentInv, Types, JobInv, JobState, Reset, machine, dathost, table
  <1>2. \/ /\ Renew(a) /\ unreset' = unreset
           /\ job' = [job EXCEPT !.at = "write", !.number = number[a] + 1] \/ job' = [job EXCEPT !.at = "write"]
        \/ /\ UNCHANGED <<number, expired>> /\ unreset' = (unreset \/ a \in accounts)
           /\ job' = [job EXCEPT !.at = "write"]
    BY DEF Reset
  <1>3. /\ number' \in [Accounts -> Nat] /\ expired' \subseteq Accounts
        /\ \A b \in Accounts : number[b] <= number'[b] /\ number[b] \in Nat /\ number'[b] \in Nat
    BY <1>1, <1>2, Renewed DEF RentInv, Types
  <1>4. unreset' \in BOOLEAN /\ (unreset => unreset')
    BY <1>2 DEF RentInv, Types
  <1>5. /\ job' \in JobState /\ job'.at = "write" /\ job'.account = a /\ job'.list = job.list
        /\ job'.number <= number'[a]
    <2>1. job \in JobState /\ "write" \in Stages
      BY DEF RentInv, Types, Stages
    <2>2. CASE job' = [job EXCEPT !.at = "write"]
      <3>1. number[a] <= number'[a] /\ number'[a] \in Nat
        BY <1>3
      <3>2. job.number <= number'[a]
        BY <1>1, <3>1
      <3> QED BY <1>1, <2>1, <2>2, <3>2 DEF JobState
    <2>3. CASE Renew(a) /\ job' = [job EXCEPT !.at = "write", !.number = number[a] + 1]
      <3>1. number'[a] = number[a] + 1 /\ number'[a] \in Nat
        BY <1>3, <2>3, Renewed
      <3>2. job' = [job EXCEPT !.at = "write", !.number = number'[a]]
        BY <2>3, <3>1
      <3>3. number'[a] <= number'[a]
        BY <3>1
      <3> QED BY <1>1, <2>1, <3>1, <3>2, <3>3 DEF JobState
    <2> QED BY <1>2, <2>2, <2>3
  <1>6. AllPlaced' /\ AsksOnce' /\ queue' \in Seq(Jobs) /\ walk' \in [Rows -> Places] /\ Walks'
    <2>1. \A r \in Rows : Stays(r)
      BY <1>1 DEF Stays
    <2> QED BY <1>1, <2>1, QueueKept DEF RentInv, Types, Walks
  <1>7. \A b \in Accounts : /\ number[b] <= number'[b]
                            /\ b \in accounts' => b \in accounts \/ number[b] < number'[b]
                            /\ token'[b] <= number'[b] /\ job'.list.number[b] <= number'[b]
                            /\ b \in job'.list.accounts => number'[b] # 0
                            /\ pool'[b] = "held" => number'[b] # 0
    <2> SUFFICES ASSUME NEW b \in Accounts
                 PROVE  /\ token[b] <= number'[b] /\ job.list.number[b] <= number'[b]
                        /\ b \in job.list.accounts => number'[b] # 0
                        /\ pool[b] = "held" => number'[b] # 0
      BY <1>1, <1>3, <1>5
    <2>1. /\ token[b] \in Nat /\ token[b] <= number[b] /\ job.list.number[b] \in Nat /\ job.list.number[b] <= number[b]
          /\ b \in job.list.accounts => number[b] # 0
          /\ pool[b] = "held" => number[b] # 0
      BY DEF RentInv, Types, Numbers, JobState, Lists
    <2> QED BY <2>1, <1>3
  <1>8. JobInv'
    BY <1>1, <1>3, <1>5 DEF JobInv
  <1>9. WriteFrees'
    <2> SUFFICES ASSUME ~unreset', NEW r \in Rows, Holds(r, a)' PROVE FALSE
      BY <1>5 DEF WriteFrees, Holds, Bears, There
    <2>1. CASE Renew(a)
      <3>1. number[a] < number'[a]
        BY <1>1, <2>1, Renewed
      <3>2. \A b \in Accounts : b \in accounts' => b \in accounts
        BY <1>1
      <3>3. \A b \in Accounts, s \in Rows : number[b] < number'[b] => ~Holds(s, b)'
        BY <1>1, <1>3, <3>2, NumbersGrow
      <3> QED BY <3>1, <3>3
    <2>2. CASE UNCHANGED <<number, expired>> /\ unreset' = (unreset \/ a \in accounts)
      BY <1>1, <2>2 DEF Holds
    <2> QED BY <1>2, <2>1, <2>2
  <1>10. /\ pool' \in [Accounts -> {"none", "held", "dropped"}] /\ token' \in [Accounts -> Nat]
         /\ accounts' \subseteq Accounts
    BY <1>1 DEF RentInv, Types
  <1> QED BY <1>1, <1>3, <1>4, <1>5, <1>6, <1>7, <1>8, <1>9, <1>10, JobMoves

\* Write keeps the invariant: what is freed is held by nobody, or it is known that it may be.
LEMMA KeepsWrite == ASSUME RentInv, Write PROVE RentInv'
  <1> SUFFICES ASSUME NEW a \in Accounts, a = job.account PROVE RentInv'
    BY DEF RentInv, JobInv, Write
  <1>1. /\ queue # <<>> /\ job.at = "write" /\ job.number <= number[a] /\ job.number \in Nat
        /\ lease' = [lease EXCEPT ![a] = None] /\ token' = [token EXCEPT ![a] = job.number]
        /\ UNCHANGED <<records, api, on, planted, pool, accounts, number, expired, unreset>>
    BY DEF RentInv, Types, JobInv, JobState, Write, dathost, steam, ghosts
  <1>2. /\ lease' \in [Accounts -> Rows \cup {None}] /\ lease'[a] = None
        /\ \A b \in Accounts \ {a} : lease'[b] = lease[b]
        /\ token' \in [Accounts -> Nat] /\ \A b \in Accounts : token'[b] <= number[b]
    BY <1>1 DEF RentInv, Types, Numbers
  <1>3. /\ AllPlaced' /\ AsksOnce' /\ queue' \in Seq(Jobs) /\ walk' \in [Rows -> Places] /\ Walks'
        /\ got' = got /\ (job' = Start \/ job' = [job EXCEPT !.at = "leaks"])
    <2>1. CASE Head(queue).kind = "release"
      <3>1. Resume
        BY <2>1 DEF Write
      <3> QED BY <1>1, <2>1, <3>1, Resumes
    <2>2. CASE Head(queue).kind # "release"
      <3>1. UNCHANGED <<queue, walk, got>> /\ job' = [job EXCEPT !.at = "leaks"]
        BY <2>2 DEF Write, machine
      <3>2. \A r \in Rows : Stays(r)
        BY <1>1, <3>1 DEF Stays
      <3> QED BY <1>1, <3>1, <3>2, QueueKept DEF RentInv, Types, Walks
    <2> QED BY <2>1, <2>2
  <1>4. /\ job' \in JobState /\ job'.at \in {"start", "leaks"}
        /\ \A b \in Accounts : job'.list.number[b] <= number[b] /\ (b \in job'.list.accounts => number[b] # 0)
    <2>1. CASE job' = Start
      BY <2>1, StartTyped DEF RentInv, Types
    <2>2. CASE job' = [job EXCEPT !.at = "leaks"]
      BY <2>2 DEF RentInv, Types, JobState, Stages, Numbers
    <2> QED BY <1>3, <2>1, <2>2
  <1>5. Types'
    BY <1>1, <1>2, <1>3, <1>4 DEF RentInv, Types
  <1>6. Numbers'
    BY <1>1, <1>2, <1>3, <1>4 DEF RentInv, Numbers, Given
  <1>7. JobInv' /\ WriteFrees'
    BY <1>4 DEF JobInv, WriteFrees
  <1>8. HoldersLease'
    <2> SUFFICES ASSUME ~unreset, NEW r \in Rows, NEW b \in Accounts, Holds(r, b)' PROVE lease'[b] = r
      BY <1>1 DEF HoldersLease
    <2>1. Holds(r, b)
      BY <1>1, <1>3 DEF Holds, Bears, There
    <2>2. b # a
      BY <1>1, <2>1 DEF RentInv, WriteFrees
    <2> QED BY <1>2, <2>1, <2>2 DEF RentInv, HoldersLease
  <1> QED BY <1>3, <1>5, <1>6, <1>7, <1>8 DEF RentInv

-----------------------------------------------------------------------------
(* The sweep.                                                              *)

\* Arm keeps the invariant.
LEMMA KeepsArm == ASSUME RentInv, Arm PROVE RentInv'
  <1>1. /\ queue' = Append(queue, Sweep)
        /\ UNCHANGED <<walk, got, records, api, on, planted, job, lease, pool, token, accounts,
                       number, expired, unreset>>
    BY DEF Arm, machine, dathost, table, steam, ghosts
  <1>2. Sweep \in Jobs /\ Sweep.kind = "sweep" /\ Placed(Sweep)'
    BY DEF Sweep, Jobs, Placed
  <1>3. \A r \in Rows : Stays(r)
    BY <1>1 DEF Stays
  <1>4. AllPlaced' /\ AsksOnce' /\ queue' \in Seq(Jobs)
    BY <1>1, <1>2, <1>3, QueueGrows DEF RentInv
  <1>5. Types' /\ Walks' /\ Numbers' /\ JobInv'
    BY <1>1, <1>4 DEF RentInv, Types, Walks, Numbers, Given, JobInv
  <1>6. HoldersLease' /\ WriteFrees'
    BY <1>1 DEF RentInv, HoldersLease, WriteFrees, Holds, Bears, There
  <1> QED BY <1>4, <1>5, <1>6 DEF RentInv

\* SweepLeaks keeps the invariant.
LEMMA KeepsSweepLeaks == ASSUME RentInv, SweepLeaks PROVE RentInv'
  <1>1. /\ job' = [job EXCEPT !.at = "leaks", !.todo = Leaked] /\ Leaked \subseteq Accounts
        /\ UNCHANGED <<walk, got, records, api, on, planted, queue, lease, pool, token, accounts,
                       number, expired, unreset>>
    BY DEF SweepLeaks, Leaked, Held, machine, dathost, table, steam, ghosts
  <1>2. job' \in JobState /\ job'.at = "leaks" /\ job'.list = job.list
    BY <1>1 DEF RentInv, Types, JobState, Stages
  <1> QED BY <1>1, <1>2, JobOnly DEF JobInv, WriteFrees

\* FreeLeaked keeps the invariant: what was leaked is reset before it is free.
LEMMA KeepsFreeLeaked == ASSUME RentInv, FreeLeaked PROVE RentInv'
  <1>1. /\ UNCHANGED <<walk, got, records, api, on, planted, queue, lease, pool, token, accounts,
                       number, expired, unreset>>
        /\ \E a \in job.todo : job' = [job EXCEPT !.at = Swept, !.account = a, !.number = token[a],
                                                  !.todo = @ \ {a}]
    BY DEF FreeLeaked, machine, dathost, table, steam, ghosts
  <1>2. PICK a \in job.todo : job' = [job EXCEPT !.at = Swept, !.account = a, !.number = token[a],
                                                 !.todo = @ \ {a}]
    BY <1>1
  <1>3. a \in Accounts /\ job.todo \subseteq Accounts
    BY DEF RentInv, Types, JobState
  <1>4. /\ job' \in JobState /\ job'.at = "reset" /\ job'.list = job.list /\ job'.account = a /\ job'.number = token[a]
    BY <1>2, <1>3 DEF RentInv, Types, JobState, Stages, Swept
  <1>5. JobInv' /\ WriteFrees'
    BY <1>1, <1>3, <1>4 DEF RentInv, Numbers, JobInv, WriteFrees
  <1> QED BY <1>1, <1>4, <1>5, JobOnly

\* ListAccounts keeps the invariant.
LEMMA KeepsListAccounts == ASSUME RentInv, ListAccounts PROVE RentInv'
  <1>1. /\ queue # <<>> /\ Head(queue).kind = "sweep"
        /\ UNCHANGED <<walk, got, records, api, on, planted, lease, pool, token, accounts,
                       number, expired, unreset>>
    BY DEF ListAccounts, Works, machine, dathost, table, steam, ghosts
  <1>2. CASE Finish
    <2>1. /\ AllPlaced' /\ AsksOnce' /\ queue' \in Seq(Jobs) /\ walk' \in [Rows -> Places]
      BY <1>1, <1>2, OtherDone DEF Finish
    <2> QED BY <1>1, <1>2, <2>1, JobOver DEF Finish, RentInv, Walks
  <1>3. CASE /\ UNCHANGED queue
             /\ job' = [job EXCEPT !.at = "rows", !.todo = Held, !.list =
                           [accounts |-> accounts, number |-> number, expired |-> expired]]
    <2>1. Held \subseteq Accounts /\ [accounts |-> accounts, number |-> number, expired |-> expired] \in Lists
      BY DEF Held, Lists, RentInv, Types
    <2>2. /\ job' \in JobState /\ job'.at = "rows"
          /\ job'.list = [accounts |-> accounts, number |-> number, expired |-> expired]
      BY <1>3, <2>1 DEF RentInv, Types, JobState, Stages
    <2> QED BY <1>1, <1>3, <2>2, JobOnly DEF JobInv, WriteFrees
  <1> QED BY <1>2, <1>3 DEF ListAccounts

\* Square keeps the invariant: a free account has the token Steam said it has.
LEMMA KeepsSquare == ASSUME RentInv, Square PROVE RentInv'
  <1>1. UNCHANGED <<walk, got, records, api, on, planted, queue, lease, accounts, number, expired, unreset>>
    BY DEF Square, machine, dathost, steam, ghosts
  <1>2. PICK a \in job.todo :
            /\ pool' = IF Gone(a) THEN [pool EXCEPT ![a] = "dropped"] ELSE pool
            /\ token' = IF ~Gone(a) /\ ~Expired(a) /\ Other(a)
                        THEN [token EXCEPT ![a] = job.list.number[a]] ELSE token
            /\ job' = [job EXCEPT !.at = IF ~Gone(a) /\ Expired(a) THEN "renew" ELSE @,
                                  !.account = a, !.todo = @ \ {a}]
    BY DEF Square
  <1>3. a \in Accounts /\ job \in JobState /\ job.at = "rows" /\ job.list.number \in [Accounts -> Nat]
    BY DEF RentInv, Types, JobState, Lists, Square, Works
  <1>4. /\ pool' \in [Accounts -> {"none", "held", "dropped"}] /\ \A b \in Accounts : pool'[b] \in {pool[b], "dropped"}
        /\ token' \in [Accounts -> Nat] /\ \A b \in Accounts : token'[b] \in {token[b], job.list.number[b]}
    BY <1>2, <1>3 DEF RentInv, Types
  <1>5. job' \in JobState /\ job'.at \in {"rows", "renew"} /\ job'.list = job.list
    BY <1>2, <1>3 DEF JobState, Stages
  <1>6. AllPlaced' /\ AsksOnce' /\ queue' \in Seq(Jobs) /\ walk' \in [Rows -> Places] /\ Walks'
    <2>1. \A r \in Rows : Stays(r)
      BY <1>1 DEF Stays
    <2> QED BY <1>1, <2>1, QueueKept DEF RentInv, Types, Walks
  <1>7. \A b \in Accounts : /\ number[b] <= number'[b]
                            /\ b \in accounts' => b \in accounts \/ number[b] < number'[b]
                            /\ token'[b] <= number'[b] /\ job'.list.number[b] <= number'[b]
                            /\ b \in job'.list.accounts => number'[b] # 0
                            /\ pool'[b] = "held" => number'[b] # 0
    <2> SUFFICES ASSUME NEW b \in Accounts
                 PROVE  /\ number[b] <= number[b] /\ token'[b] <= number[b] /\ job.list.number[b] <= number[b]
                        /\ b \in job.list.accounts => number[b] # 0
                        /\ pool'[b] = "held" => number[b] # 0
      BY <1>1, <1>5
    <2>1. /\ number[b] \in Nat /\ token[b] <= number[b] /\ job.list.number[b] <= number[b]
          /\ number[b] = 0 => pool[b] # "held" /\ b \notin job.list.accounts
      BY DEF RentInv, Types, Numbers
    <2>2. token'[b] \in {token[b], job.list.number[b]} /\ pool'[b] \in {pool[b], "dropped"}
      BY <1>4
    <2> QED BY <2>1, <2>2
  <1>8. JobInv' /\ WriteFrees'
    BY <1>5 DEF JobInv, WriteFrees
  <1> QED BY <1>1, <1>4, <1>5, <1>6, <1>7, <1>8, JobMoves DEF RentInv, Types

\* RenewExpired keeps the invariant.
LEMMA KeepsRenewExpired == ASSUME RentInv, RenewExpired PROVE RentInv'
  <1>1. /\ UNCHANGED <<walk, got, records, api, on, planted, queue, lease, pool, accounts, unreset>>
        /\ job' = [job EXCEPT !.at = "rows"]
        /\ \/ UNCHANGED <<number, expired, token>>
           \/ job.account \in accounts /\ Renew(job.account)
              /\ token' \in {token, [token EXCEPT ![job.account] = number[job.account] + 1]}
    BY DEF RenewExpired, machine, dathost, ghosts
  <1>2. job' \in JobState /\ job'.at = "rows" /\ job'.list = job.list
    BY <1>1 DEF RentInv, Types, JobState, Stages
  <1>3. /\ number' \in [Accounts -> Nat] /\ expired' \subseteq Accounts /\ token' \in [Accounts -> Nat]
        /\ \A b \in Accounts : number[b] <= number'[b] /\ token'[b] <= number'[b]
    <2>1. CASE UNCHANGED <<number, expired, token>>
      BY <2>1 DEF RentInv, Types, Numbers
    <2>2. ASSUME NEW a \in accounts, Renew(a), token' \in {token, [token EXCEPT ![a] = number[a] + 1]}
          PROVE  /\ number' \in [Accounts -> Nat] /\ expired' \subseteq Accounts /\ token' \in [Accounts -> Nat]
                 /\ \A b \in Accounts : number[b] <= number'[b] /\ token'[b] <= number'[b]
      <3>1. a \in Accounts
        BY DEF RentInv, Types
      <3>2. /\ number' \in [Accounts -> Nat] /\ number'[a] = number[a] + 1 /\ expired' \subseteq Accounts
            /\ \A b \in Accounts : number[b] <= number'[b] /\ number[b] \in Nat /\ number'[b] \in Nat
        BY <2>2, <3>1, Renewed
      <3>3. \A b \in Accounts : token[b] \in Nat /\ token[b] <= number[b]
        BY DEF RentInv, Types, Numbers
      <3>4. token' \in [Accounts -> Nat] /\ \A b \in Accounts : token'[b] = token[b] \/ token'[b] = number'[b]
        BY <2>2, <3>1, <3>2 DEF RentInv, Types
      <3> QED BY <3>2, <3>3, <3>4
    <2> QED BY <1>1, <2>1, <2>2
  <1>4. AllPlaced' /\ AsksOnce' /\ queue' \in Seq(Jobs) /\ walk' \in [Rows -> Places] /\ Walks'
    <2>1. \A r \in Rows : Stays(r)
      BY <1>1 DEF Stays
    <2> QED BY <1>1, <2>1, QueueKept DEF RentInv, Types, Walks
  <1>5. \A b \in Accounts : /\ number[b] <= number'[b]
                            /\ b \in accounts' => b \in accounts \/ number[b] < number'[b]
                            /\ token'[b] <= number'[b] /\ job'.list.number[b] <= number'[b]
                            /\ b \in job'.list.accounts => number'[b] # 0
                            /\ pool'[b] = "held" => number'[b] # 0
    <2>1. \A b \in Accounts : /\ job.list.number[b] \in Nat /\ number[b] \in Nat /\ number'[b] \in Nat
                              /\ job.list.number[b] <= number[b]
                              /\ b \in job.list.accounts => number[b] # 0
                              /\ pool[b] = "held" => number[b] # 0
      BY <1>3 DEF RentInv, Types, Numbers, JobState, Lists
    <2> QED BY <1>1, <1>2, <1>3, <2>1
  <1>6. JobInv' /\ WriteFrees'
    BY <1>2 DEF JobInv, WriteFrees
  <1> QED BY <1>1, <1>2, <1>3, <1>4, <1>5, <1>6, JobMoves DEF RentInv, Types

\* Adopt keeps the invariant: an account the table never had is on no server of its rows.
LEMMA KeepsAdopt == ASSUME RentInv, Adopt PROVE RentInv'
  <1>1. /\ queue # <<>> /\ Head(queue).kind = "sweep" /\ job.at = "rows"
        /\ UNCHANGED <<walk, got, records, api, on, planted, lease, accounts, number, expired, unreset>>
    BY DEF Adopt, Works, machine, dathost, table, steam, ghosts
  <1>2. CASE Strays = {}
    <2>1. Finish /\ UNCHANGED <<pool, token>>
      BY <1>2 DEF Adopt, table
    <2>2. AllPlaced' /\ AsksOnce' /\ queue' \in Seq(Jobs) /\ walk' \in [Rows -> Places]
      BY <1>1, <2>1, OtherDone DEF Finish
    <2> QED BY <1>1, <2>1, <2>2, JobOver DEF Finish, RentInv, Walks
  <1>3. CASE Strays # {}
    <2>1. PICK a \in Strays : /\ pool' = [pool EXCEPT ![a] = "held"]
                              /\ token' = [token EXCEPT ![a] = job.list.number[a]]
                              /\ UNCHANGED <<queue, job>>
      BY <1>3 DEF Adopt
    <2>2. a \in Accounts /\ a \in job.list.accounts /\ job.list.number \in [Accounts -> Nat]
      BY DEF Strays, RentInv, Types, JobState, Lists
    <2>3. /\ pool' \in [Accounts -> {"none", "held", "dropped"}] /\ \A b \in Accounts : pool'[b] = "held" => pool[b] = "held" \/ b = a
          /\ token' \in [Accounts -> Nat] /\ \A b \in Accounts : token'[b] \in {token[b], job.list.number[b]}
      BY <2>1, <2>2 DEF RentInv, Types
    <2>4. AllPlaced' /\ AsksOnce' /\ queue' \in Seq(Jobs) /\ walk' \in [Rows -> Places] /\ Walks'
      <3>1. \A r \in Rows : Stays(r)
        BY <1>1 DEF Stays
      <3> QED BY <1>1, <2>1, <3>1, QueueKept DEF RentInv, Types, Walks
    <2>5. \A b \in Accounts : /\ number[b] <= number'[b]
                              /\ b \in accounts' => b \in accounts \/ number[b] < number'[b]
                              /\ token'[b] <= number'[b] /\ job'.list.number[b] <= number'[b]
                              /\ b \in job'.list.accounts => number'[b] # 0
                              /\ pool'[b] = "held" => number'[b] # 0
      BY <1>1, <2>1, <2>2, <2>3 DEF RentInv, Types, Numbers
    <2>6. JobInv' /\ WriteFrees'
      BY <1>1, <2>1 DEF JobInv, WriteFrees
    <2> QED BY <1>1, <2>1, <2>3, <2>4, <2>5, <2>6, JobMoves DEF RentInv, Types
  <1> QED BY <1>2, <1>3

-----------------------------------------------------------------------------
(* The world, and all steps.                                               *)

\* Website keeps the invariant: what somebody renews or deletes there is held by nobody.
LEMMA KeepsWebsite == ASSUME RentInv, NEW a \in Accounts, Website(a) PROVE RentInv'
  <1>1. /\ UNCHANGED <<walk, got, records, api, on, planted, queue, job, lease, pool, token, unreset>>
        /\ accounts' \subseteq accounts /\ expired' \subseteq Accounts
        /\ UNCHANGED number \/ Renew(a)
    BY DEF RentInv, Types, Website, Renew, machine, dathost, chain, table, ghosts
  <1>2. /\ number' \in [Accounts -> Nat]
        /\ \A b \in Accounts : number[b] <= number'[b] /\ number[b] \in Nat /\ number'[b] \in Nat
    <2>1. CASE UNCHANGED number
      BY <2>1 DEF RentInv, Types
    <2> QED BY <1>1, <2>1, Renewed
  <1>3. AllPlaced' /\ AsksOnce' /\ queue' \in Seq(Jobs) /\ walk' \in [Rows -> Places] /\ Walks'
    <2>1. \A r \in Rows : Stays(r)
      BY <1>1 DEF Stays
    <2> QED BY <1>1, <2>1, QueueKept DEF RentInv, Types, Walks
  <1>4. \A b \in Accounts : /\ number[b] <= number'[b]
                            /\ b \in accounts' => b \in accounts \/ number[b] < number'[b]
                            /\ token'[b] <= number'[b] /\ job'.list.number[b] <= number'[b]
                            /\ b \in job'.list.accounts => number'[b] # 0
                            /\ pool'[b] = "held" => number'[b] # 0
    <2>1. \A b \in Accounts : /\ job.list.number[b] \in Nat /\ token[b] \in Nat /\ token[b] <= number[b]
                              /\ job.list.number[b] <= number[b]
                              /\ b \in job.list.accounts => number[b] # 0
                              /\ pool[b] = "held" => number[b] # 0
      BY DEF RentInv, Types, Numbers, JobState, Lists
    <2> QED BY <1>1, <1>2, <2>1
  <1>5. JobInv'
    <2>1. job.number \in Nat
      BY DEF RentInv, Types, JobState
    <2> QED BY <1>1, <1>2, <2>1 DEF RentInv, JobInv
  <1>6. WriteFrees'
    <2>1. \A r \in Rows, b \in Accounts : Holds(r, b)' => Holds(r, b)
      BY <1>1, <1>2, NumbersGrow
    <2> QED BY <1>1, <2>1, NoNewHolders
  <1> QED BY <1>1, <1>2, <1>3, <1>4, <1>5, <1>6, JobMoves DEF RentInv, Types

\* Init establishes the invariant.
LEMMA InitRent == Init => RentInv
  <1> SUFFICES ASSUME Init PROVE RentInv
    OBVIOUS
  <1>1. Types
    <2>1. queue \in Seq(Jobs) /\ job \in JobState
      BY StartTyped DEF Init
    <2>2. token \in [Accounts -> Nat] /\ number \in [Accounts -> Nat]
      BY DEF Init
    <2> QED BY <2>1, <2>2 DEF Init, Types, Places
  <1>2. Walks /\ AllPlaced /\ AsksOnce
    BY DEF Init, Walks, Before, Unstarted, AllPlaced, AsksOnce
  <1>3. Numbers /\ JobInv
    BY StartTyped DEF Init, Numbers, Given, JobInv
  <1>4. HoldersLease /\ WriteFrees
    BY StartTyped DEF Init, HoldersLease, WriteFrees, Holds
  <1> QED BY <1>1, <1>2, <1>3, <1>4 DEF RentInv

\* Every step keeps the invariant.
LEMMA NextRent == ASSUME RentInv, [Next]_vars PROVE RentInv'
  <1>1. CASE UNCHANGED vars
    BY <1>1, Quiet DEF vars, rented
  <1>2. CASE \E r \in Rows : OpenRow(r) \/ Vanish(r)
    BY <1>2, KeepsWalkOn, KeepsVanish
  <1>3. CASE Walk
    BY <1>3, KeepsWalkOn, KeepsDuplicate, KeepsPut, KeepsStartServer, KeepsReturn, KeepsScrap DEF Walk
  <1>4. CASE Reaper
    BY <1>4, KeepsReads, KeepsReap DEF Reaper
  <1>5. CASE Pool
    BY <1>5, KeepsClaim, KeepsDry, KeepsMint, KeepsInsert, KeepsRelease, KeepsReset, KeepsWrite DEF Pool
  <1>6. CASE SweepSteps
    BY <1>6, KeepsArm, KeepsSweepLeaks, KeepsFreeLeaked, KeepsListAccounts, KeepsSquare,
       KeepsRenewExpired, KeepsAdopt DEF SweepSteps
  <1>7. CASE (\E a \in Accounts : Website(a)) \/ Crash
    BY <1>7, KeepsWebsite, KeepsCrash
  <1> QED BY <1>1, <1>2, <1>3, <1>4, <1>5, <1>6, <1>7 DEF Next

\* The inductive invariant: whoever holds the token an account has at Steam is the row it is lent to.
THEOREM TokenInvariant == Spec => []RentInv
  <1>1. Init => RentInv
    BY InitRent
  <1>2. RentInv /\ [Next]_vars => RentInv'
    BY NextRent
  <1> QED BY <1>1, <1>2, PTL DEF Spec

\* pool.ts promises one running server per token: so it is, across crashes, lost servers, stray
\* accounts and whatever is done at the website, unless Steam refused a reset.
THEOREM OneTokenOneServer == Spec => []OneServerPerToken
  <1>1. RentInv => OneServerPerToken
    <2> SUFFICES ASSUME RentInv, ~unreset, NEW r \in Rows, NEW s \in Rows,
                        LoggedIn(r), LoggedIn(s), planted[r] = planted[s]
                 PROVE  r = s
      BY DEF OneServerPerToken
    <2>1. PICK a \in Accounts : a = planted[r].account
      BY DEF RentInv, Types, LoggedIn, Tokens
    <2>2. Holds(r, a) /\ Holds(s, a)
      BY <2>1 DEF LoggedIn, Honoured, Holds, Bears, There
    <2> QED BY <2>2 DEF RentInv, HoldersLease
  <1> QED BY <1>1, TokenInvariant, PTL

-----------------------------------------------------------------------------
(* Whom the reaper takes.                                                  *)

\* A server a walk is working on, or a match plays on.
Busy(r) == Underway(r) \/ walk[r] = "play"

ReapTypes ==
    /\ ledger \in [Rows -> {"none", "open", "closed"}]
    /\ named \subseteq Rows /\ serving \subseteq named /\ orphaned \subseteq Rows
    /\ reaper \in [at : {"idle", "list", "reap", "releasing"}, row : Rows \cup {None},
                   todo : SUBSET Rows, open : SUBSET Rows]
    /\ slowed \in BOOLEAN

\* A busy row is open, and one that is to start or has started names its server; so what a pass
\* found on no open row and is of no allocation is done with, and no walk comes back to it.
Reapable(r) ==
    /\ walk[r] = "none" => api[r] = "none" /\ r \notin orphaned \cup reaper.todo
    /\ Busy(r) => ledger[r] = "open"
    /\ walk[r] \in {"start", "found", "play"} => r \in named
    /\ r \in reaper.todo => slowed \/ ~Busy(r)
ReapInv == ReapTypes /\ \A r \in Rows : Reapable(r)

\* A step that leaves walks, rows, servers and the reaper alone.
LEMMA ElsewhereReaps ==
  ASSUME ReapInv, UNCHANGED <<ledger, named, serving, walk, api, reaper, orphaned, slowed>>
  PROVE  ReapInv'
  BY DEF ReapInv, ReapTypes, Reapable, Busy, Underway

\* A walk that goes on: no server that was let go is worked on again.
LEMMA WalkReaps ==
  ASSUME RentInv, ReapInv, NEW r \in Rows, NEW p \in Places \ {"none", "play"},
         walk' = [walk EXCEPT ![r] = p],
         p \in {"clone", "leasing", "put", "scrap", "name", "start", "found"} => Underway(r),
         p \in {"start", "found"} => r \in named,
         UNCHANGED <<ledger, named, serving, orphaned, slowed>>,
         reaper' \in {reaper, [reaper EXCEPT !.at = "reap"]},
         \A s \in Rows : api'[s] # "none" => api[s] # "none" \/ s = r
  PROVE  ReapInv'
  <1>1. walk'[r] = p /\ \A s \in Rows \ {r} : walk'[s] = walk[s]
    BY DEF RentInv, Types
  <1>2. ReapTypes' /\ reaper'.todo = reaper.todo
    BY DEF ReapInv, ReapTypes
  <1>3. Reapable(r)'
    BY <1>1, <1>2 DEF ReapInv, Reapable, Busy, Underway
  <1>4. ASSUME NEW s \in Rows \ {r} PROVE Reapable(s)'
    BY <1>1, <1>2, <1>4 DEF ReapInv, Reapable, Busy, Underway
  <1> QED BY <1>2, <1>3, <1>4 DEF ReapInv

LEMMA WalksReap ==
  ASSUME RentInv, ReapInv, NEW r \in Rows,
         Duplicate(r) \/ Put(r) \/ StartServer(r) \/ End(r) \/ Return(r) \/ Scrap(r)
  PROVE  ReapInv'
  <1>1. PICK p : /\ walk' = [walk EXCEPT ![r] = p]
                 /\ p \in {"leasing", "close", "name", "scrap", "found", "return", "releasing"}
                 /\ p \in {"leasing", "name", "scrap", "found"} => Underway(r)
                 /\ p = "found" => r \in named
    <2>1. CASE Duplicate(r)
      BY <2>1 DEF Duplicate, Goes, Underway
    <2>2. CASE Put(r)
      BY <2>2 DEF Put, Goes, Underway
    <2>3. CASE StartServer(r)
      BY <2>3 DEF StartServer, Goes, Underway, ReapInv, Reapable
    <2>4. CASE End(r)
      <3>1. walk' = [walk EXCEPT ![r] = "return"] \/ walk' = [walk EXCEPT ![r] = "close"]
        BY <2>4 DEF End, Goes
      <3> QED BY <3>1
    <2>5. CASE Return(r)
      BY <2>5 DEF Return, Goes
    <2>6. CASE Scrap(r)
      <3>1. walk' = [walk EXCEPT ![r] = "close"] \/ walk' = [walk EXCEPT ![r] = "releasing"]
        BY <2>6 DEF Scrap, Goes
      <3> QED BY <3>1
    <2> QED BY <2>1, <2>2, <2>3, <2>4, <2>5, <2>6
  <1>2. UNCHANGED <<ledger, named, serving, orphaned, slowed, reaper>>
    BY DEF Duplicate, Put, StartServer, End, Return, Scrap, ghosts
  <1>3. \A s \in Rows \ {r} : api'[s] = api[s]
    BY DEF RentInv, Types, Duplicate, Put, StartServer, End, Return, Scrap, Deallocate, Returns, dathost
  <1> QED BY <1>1, <1>2, <1>3, WalkReaps DEF Places

\* The row's own writes.
LEMMA RowsReap ==
  ASSUME RentInv, ReapInv, NEW r \in Rows, OpenRow(r) \/ Name(r) \/ Found(r) \/ CloseRow(r)
  PROVE  ReapInv'
  <1>1. PICK p : /\ walk' = [walk EXCEPT ![r] = p]
                 /\ p \in {"clone", "start", "play", "done"}
                 /\ p = "clone" => walk[r] = "none" /\ ledger'[r] = "open"
                 /\ p \in {"start", "play"} => Underway(r) /\ ledger' = ledger /\ r \in named'
    BY DEF OpenRow, Name, Found, CloseRow, Goes, Underway, ReapInv, ReapTypes, Reapable
  <1>2. UNCHANGED <<reaper, orphaned, slowed, api>>
    BY DEF OpenRow, Name, Found, CloseRow, dathost, ghosts
  <1>3. ReapTypes' /\ named \subseteq named' /\ \A s \in Rows \ {r} : ledger'[s] = ledger[s]
    BY DEF OpenRow, Name, Found, CloseRow, Goes, ghosts, ReapInv, ReapTypes, Reapable
  <1>4. walk'[r] = p /\ \A s \in Rows \ {r} : walk'[s] = walk[s]
    BY <1>1 DEF RentInv, Types
  <1>5. Reapable(r)'
    BY <1>1, <1>2, <1>4 DEF ReapInv, Reapable, Busy, Underway
  <1>6. ASSUME NEW s \in Rows \ {r} PROVE Reapable(s)'
    BY <1>2, <1>3, <1>4, <1>6 DEF ReapInv, Reapable, Busy, Underway
  <1> QED BY <1>3, <1>5, <1>6 DEF ReapInv

\* The reaper's own steps.  What its pass is to take was named by no open row, and is of no walk
\* but one that outlasted the grace.
LEMMA PassReaps ==
  ASSUME RentInv, ReapInv, ReadLedger \/ ReadList \/ EndPass \/ \E r \in Rows : Reap(r)
  PROVE  ReapInv'
  <1> USE DEF Idle
  <1>1. CASE ReadLedger
    <2>1. UNCHANGED <<ledger, named, serving, walk, api, orphaned>> /\ (slowed => slowed')
      BY <1>1 DEF ReadLedger, machine, dathost, ReapInv, ReapTypes
    <2>2. PICK S \in SUBSET (orphaned \ Accounted) :
              /\ reaper' = [Idle EXCEPT !.at = "list", !.todo = S, !.open = Accounted]
              /\ slowed' \in BOOLEAN /\ \A r \in S : slowed' \/ ~Underway(r)
      <3>1. Due \subseteq orphaned \ Accounted /\ \A r \in Due : ~Underway(r)
        BY DEF Due
      <3>2. CASE /\ reaper' = [Idle EXCEPT !.at = "list", !.todo = Due, !.open = Accounted]
                 /\ UNCHANGED slowed
        BY <3>1, <3>2 DEF ReapInv, ReapTypes
      <3>3. CASE /\ \E r \in orphaned \ (Accounted \cup Due) :
                        reaper' = [Idle EXCEPT !.at = "list", !.todo = Due \cup {r}, !.open = Accounted]
                 /\ slowed' = TRUE
        <4>1. PICK r \in orphaned \ (Accounted \cup Due) :
                  reaper' = [Idle EXCEPT !.at = "list", !.todo = Due \cup {r}, !.open = Accounted]
          BY <3>3
        <4>2. Due \cup {r} \in SUBSET (orphaned \ Accounted)
          BY <3>1
        <4> QED BY <3>3, <4>1, <4>2
      <3> QED BY <1>1, <3>2, <3>3 DEF ReadLedger
    <2>4. reaper' = [at |-> "list", row |-> None, todo |-> S, open |-> Accounted]
      BY <2>2
    <2>5. S \in SUBSET Rows /\ Accounted \in SUBSET Rows
      BY DEF ReapInv, ReapTypes, Accounted
    <2>6. ReapTypes' /\ reaper'.todo = S
      BY <2>1, <2>2, <2>4, <2>5 DEF ReapInv, ReapTypes
    <2>3. ASSUME NEW r \in Rows PROVE Reapable(r)'
      BY <2>1, <2>2, <2>6 DEF ReapInv, Reapable, Busy, Underway, Accounted
    <2> QED BY <2>3, <2>6 DEF ReapInv
  <1>2. CASE ReadList
    <2>1. UNCHANGED <<ledger, named, serving, walk, api, slowed>>
      BY <1>2 DEF ReadList, machine, dathost, ghosts
    <2>2. /\ ReapTypes' /\ reaper'.todo \subseteq reaper.todo
          /\ \A r \in Rows : r \in orphaned' => r \in orphaned \/ api[r] = "listed"
      <3> DEFINE listed == {r \in Rows : api[r] = "listed"}
      <3>1. CASE /\ reaper' = [Idle EXCEPT !.at = "reap", !.todo = reaper.todo \cap listed]
                 /\ orphaned' = listed \ reaper.open
        <4>1. reaper' = [at |-> "reap", row |-> None, todo |-> reaper.todo \cap listed, open |-> {}]
          BY <3>1
        <4>2. reaper.todo \cap listed \in SUBSET Rows /\ orphaned' \subseteq listed
          BY <3>1 DEF ReapInv, ReapTypes
        <4>3. ReapTypes'
          BY <2>1, <4>1, <4>2 DEF ReapInv, ReapTypes
        <4> QED BY <4>1, <4>2, <4>3
      <3>2. CASE reaper' = Idle /\ UNCHANGED orphaned
        BY <2>1, <3>2 DEF ReapInv, ReapTypes
      <3> QED BY <1>2, <3>1, <3>2 DEF ReadList
    <2>3. ASSUME NEW r \in Rows PROVE Reapable(r)'
      BY <2>1, <2>2 DEF ReapInv, Reapable, Busy, Underway
    <2> QED BY <2>2, <2>3 DEF ReapInv
  <1>3. CASE EndPass
    <2>1. UNCHANGED <<ledger, named, serving, walk, api, slowed, orphaned>>
      BY <1>3 DEF EndPass, machine, dathost, ghosts
    <2>2. ReapTypes' /\ reaper'.todo \subseteq reaper.todo
      BY <1>3, <2>1, RentAssumption DEF EndPass, ReapInv, ReapTypes
    <2>3. ASSUME NEW r \in Rows PROVE Reapable(r)'
      BY <2>1, <2>2 DEF ReapInv, Reapable, Busy, Underway
    <2> QED BY <2>2, <2>3 DEF ReapInv
  <1>4. ASSUME NEW r \in Rows, Reap(r) PROVE ReapInv'
    <2>1. UNCHANGED <<ledger, named, serving, walk, slowed>>
      BY <1>4 DEF Reap, machine, ghosts
    <2>2. \A s \in Rows : api'[s] = "none" <=> api[s] = "none"
      BY <1>4 DEF Reap, Deallocate, Returns, RentInv, Types
    <2>3. PICK h : /\ reaper' = [reaper EXCEPT !.at = IF Waits(r, h) THEN "releasing" ELSE "reap",
                                              !.row = r, !.todo = @ \ {r}]
                   /\ orphaned' \subseteq orphaned
      BY <1>4 DEF Reap
    <2>4. ReapTypes' /\ reaper'.todo \subseteq reaper.todo
      BY <2>1, <2>3 DEF ReapInv, ReapTypes
    <2>5. ASSUME NEW s \in Rows PROVE Reapable(s)'
      BY <2>1, <2>2, <2>3, <2>4 DEF ReapInv, Reapable, Busy, Underway
    <2> QED BY <2>4, <2>5 DEF ReapInv
  <1> QED BY <1>1, <1>2, <1>3, <1>4

\* A job of the pool that is done, or not yet.
LEMMA PoolReaps ==
  ASSUME RentInv, ReapInv, Pool
  PROVE  ReapInv'
  <1>1. UNCHANGED <<ledger, named, serving, api, orphaned, slowed>>
    BY DEF Pool, Claim, Dry, Mint, Insert, Release, Reset, Write, Answer, Resume, machine, dathost, ghosts
  <1>2. CASE UNCHANGED <<walk, reaper>>
    BY <1>1, <1>2, ElsewhereReaps
  <1>3. CASE /\ queue # <<>> /\ Head(queue).kind = "lease" /\ reaper' = reaper
             /\ \E p \in {"put", "scrap"} : walk' = [walk EXCEPT ![Row] = p]
    <2>1. Row \in Rows /\ walk[Row] = "leasing"
      BY <1>3, HeadPlaced DEF RentInv, Placed, Row
    <2> QED BY <1>1, <1>3, <2>1, WalkReaps DEF Places, Underway
  <1>4. CASE /\ queue # <<>> /\ Head(queue).kind = "release" /\ Resume
    <2>1. Row \in Rows
      BY <1>4, HeadPlaced DEF RentInv, Placed, Row
    <2>2. reaper' \in {reaper, [reaper EXCEPT !.at = "reap"]}
      BY <1>4 DEF Resume
    <2>3. CASE walk' = [walk EXCEPT ![Row] = "close"]
      BY <1>1, <2>1, <2>2, <2>3, WalkReaps DEF Places
    <2>4. CASE walk' = walk
      BY <1>1, <2>2, <2>4 DEF ReapInv, ReapTypes, Reapable, Busy, Underway
    <2> QED BY <1>4, <2>3, <2>4 DEF Resume
  <1>5. \/ UNCHANGED <<walk, reaper>>
        \/ /\ queue # <<>> /\ Head(queue).kind = "lease" /\ reaper' = reaper
           /\ \E p \in {"put", "scrap"} : walk' = [walk EXCEPT ![Row] = p]
        \/ queue # <<>> /\ Head(queue).kind = "release" /\ Resume
    <2>1. CASE Claim \/ Insert
      BY <2>1 DEF Claim, Insert, Answer, Works
    <2>2. CASE Dry
      BY <2>2 DEF Dry, Answer, Works, machine
    <2>3. CASE Mint
      BY <2>3 DEF Mint, Works, machine
    <2>4. CASE Release
      BY <2>4 DEF Release, Works, machine
    <2>5. CASE Reset \/ Write
      BY <2>5 DEF Reset, Write, machine
    <2> QED BY <2>1, <2>2, <2>3, <2>4, <2>5 DEF Pool
  <1> QED BY <1>2, <1>3, <1>4, <1>5

LEMMA CrashReaps == ASSUME RentInv, ReapInv, Crash PROVE ReapInv'
  <1>1. /\ UNCHANGED <<ledger, named, serving, api, slowed>> /\ reaper' = Idle /\ orphaned' = {}
        /\ \A r \in Rows : /\ ledger[r] # "open" => walk'[r] = walk[r]
                           /\ walk'[r] \in {walk[r], "play", "window", "stranded"}
                           /\ walk'[r] = "play" => walk[r] = "play" \/ (ledger[r] = "open" /\ r \in serving)
                           /\ ledger[r] = "open" => walk'[r] \in {"play", "window", "stranded"}
    BY DEF Crash, dathost, ghosts
  <1>2. ReapTypes'
    BY <1>1, RentAssumption DEF ReapInv, ReapTypes, Idle
  <1>3. ASSUME NEW r \in Rows PROVE Reapable(r)'
    BY <1>1 DEF ReapInv, ReapTypes, Reapable, Busy, Underway, Idle
  <1> QED BY <1>2, <1>3 DEF ReapInv

LEMMA InitReap == Init => ReapInv
  <1> SUFFICES ASSUME Init PROVE ReapInv
    OBVIOUS
  <1>1. ReapTypes
    BY DEF Init, ReapTypes, Idle
  <1>2. ASSUME NEW r \in Rows PROVE Reapable(r)
    BY DEF Init, Reapable, Busy, Underway, Idle
  <1> QED BY <1>1, <1>2 DEF ReapInv

LEMMA NextReap == ASSUME RentInv, ReapInv, [Next]_vars PROVE ReapInv'
  <1>1. CASE UNCHANGED vars
    BY <1>1, ElsewhereReaps DEF vars
  <1>2. CASE \E r \in Rows : OpenRow(r)
    BY <1>2, RowsReap
  <1>3. ASSUME NEW r \in Rows, Vanish(r) PROVE ReapInv'
    <2>1. /\ UNCHANGED <<ledger, named, serving, walk, reaper, orphaned, slowed>>
          /\ \A s \in Rows : api'[s] = "none" <=> api[s] = "none"
      BY <1>3 DEF Vanish, machine, ghosts, RentInv, Types
    <2> QED BY <2>1 DEF ReapInv, ReapTypes, Reapable, Busy, Underway
  <1>4. CASE Walk
    BY <1>4, WalksReap, RowsReap DEF Walk
  <1>5. CASE Reaper
    BY <1>5, PassReaps DEF Reaper
  <1>6. CASE Pool
    BY <1>6, PoolReaps
  <1>7. CASE SweepSteps
    <2>1. UNCHANGED <<ledger, named, serving, walk, api, reaper, orphaned, slowed>>
      BY <1>7 DEF SweepSteps, Arm, SweepLeaks, FreeLeaked, ListAccounts, Square, RenewExpired, Adopt,
                  machine, dathost, ghosts
    <2> QED BY <2>1, ElsewhereReaps
  <1>8. CASE \E a \in Accounts : Website(a)
    BY <1>8, ElsewhereReaps DEF Website, machine, dathost, ghosts
  <1>9. CASE Crash
    BY <1>9, CrashReaps
  <1> QED BY <1>1, <1>2, <1>3, <1>4, <1>5, <1>6, <1>7, <1>8, <1>9 DEF Next

\* The inductive invariant of the reaper: what its pass is to take is no walk's and no match's.
THEOREM ReapInvariant == Spec => []ReapInv
  <1>1. Init => ReapInv
    BY InitReap
  <1>2. RentInv /\ ReapInv /\ [Next]_vars => ReapInv'
    BY NextReap
  <1> QED BY <1>1, <1>2, TokenInvariant, PTL DEF Spec

\* reaper.ts takes a server for an orphan only if no walk works on it and no match plays on it,
\* however late it comes to it, unless an allocation outlasted the grace.
THEOREM OnlyOrphans == Spec => OnlyOrphansAreReaped
  <1>1. ReapInv => (slowed \/ \A r \in Rows : Reaped(r) => ~Underway(r) /\ walk[r] # "play")
    BY DEF ReapInv, ReapTypes, Reapable, Busy, Reaped
  <1>2. ReapInv /\ [Next]_vars =>
            [slowed \/ \A r \in Rows : Reaped(r) => ~Underway(r) /\ walk[r] # "play"]_vars
    BY <1>1
  <1> QED BY <1>2, ReapInvariant, PTL DEF Spec, OnlyOrphansAreReaped

-----------------------------------------------------------------------------
(* The ceiling of the pool, and the types.                                 *)

\* A row asks once, so no account is lent to one that is yet to ask, and no two to one that did.
Unasked == {"none", "clone", "leasing"}
LentOnce ==
    /\ \A r \in Rows : walk[r] \in Unasked => \A a \in Accounts : lease[a] # r
    /\ \A a, b \in Accounts : lease[a] = lease[b] /\ lease[a] # None => a = b

\* The table counts what it holds; an account it does not hold, and no job is to insert, is one that
\* was made and not answered.
Uncounted == {a \in accounts \ Held : ~(job.at = "insert" /\ a = job.account)}
Ceiling ==
    /\ expired \subseteq accounts
    /\ mishaps \in 0 .. MaxMishaps
    /\ Cardinality(Uncounted) <= mishaps
    /\ Cardinality(accounts) <= Max + mishaps
    /\ job.at = "mint" => Room
    /\ job.at \in {"rows", "renew"} => accounts \subseteq job.list.accounts
PoolInv == LentOnce /\ Ceiling

\* A step that lends nothing and takes no walk back.
LEMMA NothingLent ==
  ASSUME LentOnce, UNCHANGED lease, \A r \in Rows : walk'[r] \in Unasked => walk[r] \in Unasked
  PROVE  LentOnce'
  BY DEF LentOnce

\* A walk goes on and is not back among those that are yet to ask.
LEMMA WalksLend ==
  ASSUME RentInv, LentOnce, [Next]_vars, UNCHANGED lease
  PROVE  LentOnce'
  <1> SUFFICES ASSUME NEW r \in Rows, walk'[r] \in Unasked PROVE walk[r] \in Unasked
    BY NothingLent
  <1>1. CASE walk' = walk
    BY <1>1
  <1>2. ASSUME NEW s \in Rows, OpenRow(s) \/ Duplicate(s) PROVE walk[r] \in Unasked
    <2>1. walk[s] \in Unasked /\ \A q \in Rows \ {s} : walk'[q] = walk[q]
      BY <1>2 DEF OpenRow, Duplicate, Goes, Unasked, RentInv, Types
    <2> QED BY <2>1
  <1>3. ASSUME NEW s \in Rows, NEW p \in Places \ Unasked, walk' = [walk EXCEPT ![s] = p]
        PROVE  walk[r] \in Unasked
    BY <1>3 DEF RentInv, Types, Unasked
  <1>4. ASSUME NEW s \in Rows,
               Put(s) \/ Name(s) \/ StartServer(s) \/ Found(s) \/ End(s) \/ Return(s) \/ Scrap(s)
               \/ CloseRow(s)
        PROVE  \E p \in Places \ Unasked : walk' = [walk EXCEPT ![s] = p]
    BY <1>4 DEF Put, Name, StartServer, Found, End, Return, Scrap, CloseRow, Goes, Places, Unasked
  <1>5. ASSUME Pool PROVE walk' = walk \/ \E p \in Places \ Unasked : walk' = [walk EXCEPT ![Row] = p]
    <2>1. CASE Claim \/ Dry \/ Insert
      BY <2>1 DEF Claim, Dry, Insert, Answer, machine, Places, Unasked
    <2>2. CASE Mint
      BY <2>2 DEF Mint, machine, Places, Unasked
    <2>3. CASE Release \/ Reset \/ Write
      BY <2>3 DEF Release, Reset, Write, Resume, machine, Places, Unasked
    <2> QED BY <1>5, <2>1, <2>2, <2>3 DEF Pool
  <1>6. CASE Pool
    <2>1. CASE walk' = walk
      BY <2>1
    <2>2. ASSUME NEW p \in Places \ Unasked, walk' = [walk EXCEPT ![Row] = p]
          PROVE  walk[r] \in Unasked
      BY <2>2 DEF RentInv, Types, Unasked
    <2> QED BY <1>5, <1>6, <2>1, <2>2
  <1>7. CASE Crash
    BY <1>7 DEF Crash, Unasked
  <1>8. CASE Walk
    BY <1>8, <1>2, <1>3, <1>4 DEF Walk
  <1>9. CASE Reaper \/ SweepSteps \/ (\E a \in Accounts : Website(a)) \/ \E s \in Rows : Vanish(s)
    BY <1>1, <1>9 DEF Reaper, ReadLedger, ReadList, EndPass, Reap, SweepSteps, Arm, SweepLeaks,
                      FreeLeaked, ListAccounts, Square, RenewExpired, Adopt, Website, Vanish, machine
  <1>10. CASE UNCHANGED vars
    BY <1>1, <1>10 DEF vars
  <1> QED BY <1>2, <1>6, <1>7, <1>8, <1>9, <1>10 DEF Next

\* Only the claim, the insert and the write that frees touch a lease.
LEMMA LeasesKept ==
  ASSUME [Next]_vars PROVE UNCHANGED lease \/ Claim \/ Insert \/ Write
  <1>1. CASE Walk \/ Reaper \/ \E r \in Rows : OpenRow(r) \/ Vanish(r)
    BY <1>1 DEF Walk, Reaper, Duplicate, Put, Name, StartServer, Found, End, Return, Scrap, CloseRow,
                ReadLedger, ReadList, EndPass, Reap, OpenRow, Vanish, table
  <1>2. CASE Pool
    BY <1>2 DEF Pool, Dry, Mint, Release, Reset, table
  <1>3. CASE SweepSteps
    BY <1>3 DEF SweepSteps, Arm, SweepLeaks, FreeLeaked, ListAccounts, Square, RenewExpired, Adopt, table
  <1>4. CASE UNCHANGED vars \/ Crash \/ \E a \in Accounts : Website(a)
    BY <1>4 DEF vars, Crash, Website, table
  <1> QED BY <1>1, <1>2, <1>3, <1>4 DEF Next

\* Every step keeps a row to one account.
LEMMA NextLent == ASSUME RentInv, LentOnce, [Next]_vars PROVE LentOnce'
  <1>1. CASE UNCHANGED lease
    BY <1>1, WalksLend
  <1>2. ASSUME NEW a \in Accounts, lease' = [lease EXCEPT ![a] = Row], walk' = [walk EXCEPT ![Row] = "put"],
               queue # <<>>, Head(queue).kind = "lease"
        PROVE  LentOnce'
    <2>1. Row \in Rows /\ walk[Row] = "leasing"
      BY <1>2, HeadPlaced DEF RentInv, Placed, Row
    <2>2. /\ lease'[a] = Row /\ \A b \in Accounts \ {a} : lease'[b] = lease[b] /\ lease[b] # Row
          /\ walk'[Row] = "put" /\ \A r \in Rows \ {Row} : walk'[r] = walk[r]
      BY <1>2, <2>1 DEF RentInv, Types, LentOnce, Unasked
    <2> QED BY <2>1, <2>2 DEF LentOnce, Unasked
  <1>3. CASE Claim
    BY <1>2, <1>3 DEF Claim, Answer, Works, Free, Held
  <1>4. CASE Insert
    <2>1. job.account \in Accounts
      BY <1>4 DEF Insert, Works, RentInv, JobInv
    <2> QED BY <1>2, <1>4, <2>1 DEF Insert, Answer, Works
  <1>5. CASE Write
    <2>1. job.account \in Accounts
      BY <1>5 DEF Write, RentInv, JobInv
    <2>2. lease'[job.account] = None /\ \A b \in Accounts \ {job.account} : lease'[b] = lease[b]
      BY <1>5, <2>1 DEF Write, RentInv, Types
    <2>3. walk' = walk \/ walk' = [walk EXCEPT ![Row] = "close"]
      BY <1>5 DEF Write, Resume, machine
    <2>4. \A r \in Rows : walk'[r] \in Unasked => walk[r] \in Unasked
      BY <2>3 DEF RentInv, Types, Unasked
    <2>5. None \notin Rows
      BY RentAssumption
    <2> QED BY <2>2, <2>4, <2>5 DEF LentOnce
  <1> QED BY <1>1, <1>3, <1>4, <1>5, LeasesKept

\* A mishap is counted once, and no step takes one back.
LEMMA MishapsCounted ==
  ASSUME [Next]_vars
  PROVE  mishaps' = mishaps \/ (mishaps < MaxMishaps /\ mishaps' = mishaps + 1)
  <1> USE DEF Calm, Happens
  <1>1. CASE Walk
    BY <1>1 DEF Walk, Duplicate, Put, Refused, Name, StartServer, Found, End, Return, Scrap, CloseRow,
                Deallocate, Returns
  <1>2. CASE Reaper
    BY <1>2 DEF Reaper, ReadLedger, ReadList, EndPass, Reap, Deallocate, Returns
  <1>3. CASE Pool
    BY <1>3 DEF Pool, Claim, Dry, Mint, Insert, Release, Reset, Write
  <1>4. CASE SweepSteps
    BY <1>4 DEF SweepSteps, Arm, SweepLeaks, FreeLeaked, ListAccounts, Square, RenewExpired, Adopt
  <1>5. CASE UNCHANGED vars \/ Crash \/ (\E a \in Accounts : Website(a)) \/ \E r \in Rows : OpenRow(r) \/ Vanish(r)
    BY <1>5 DEF vars, Crash, Website, OpenRow, Vanish
  <1> QED BY <1>1, <1>2, <1>3, <1>4, <1>5 DEF Next

\* One element more.
LEMMA OneMore ==
  ASSUME NEW S, IsFiniteSet(S), NEW a, NEW T \in SUBSET (S \cup {a})
  PROVE  Cardinality(S) \in Nat /\ Cardinality(T) \in Nat /\ Cardinality(T) <= Cardinality(S) + 1
  <1>1. Cardinality(S) \in Nat
    BY FS_CardinalityType
  <1>2. /\ IsFiniteSet(S \cup {a})
        /\ Cardinality(S \cup {a}) = IF a \in S THEN Cardinality(S) ELSE Cardinality(S) + 1
    BY FS_AddElement
  <1>3. IsFiniteSet(T) /\ Cardinality(T) <= Cardinality(S \cup {a})
    BY <1>2, FS_Subset
  <1>4. Cardinality(T) \in Nat /\ Cardinality(S \cup {a}) \in Nat
    BY <1>2, <1>3, FS_CardinalityType
  <1> QED BY <1>1, <1>2, <1>3, <1>4

\* What is counted is finite.
LEMMA CountsFinite ==
  ASSUME Types
  PROVE  /\ IsFiniteSet(accounts) /\ Cardinality(accounts) \in Nat
         /\ IsFiniteSet(Held) /\ Cardinality(Held) \in Nat
         /\ IsFiniteSet(Uncounted) /\ Cardinality(Uncounted) \in Nat
  <1>1. accounts \in SUBSET Accounts /\ Held \in SUBSET Accounts /\ Uncounted \in SUBSET Accounts
    BY DEF Types, Held, Uncounted
  <1> QED BY <1>1, RentAssumption, FS_Subset, FS_CardinalityType

\* A step that makes no account and leaves none uncounted that was not.
LEMMA CeilingKept ==
  ASSUME RentInv, RentInv', Ceiling, [Next]_vars, accounts' \subseteq accounts, expired' \subseteq accounts',
         Uncounted' \subseteq Uncounted, job'.at = "mint" => Room',
         job'.at \in {"rows", "renew"} => accounts' \subseteq job'.list.accounts
  PROVE  Ceiling'
  <1>1. /\ Cardinality(accounts') \in Nat /\ Cardinality(accounts') <= Cardinality(accounts)
        /\ Cardinality(Uncounted') \in Nat /\ Cardinality(Uncounted') <= Cardinality(Uncounted)
        /\ Cardinality(accounts) \in Nat /\ Cardinality(Uncounted) \in Nat
    BY CountsFinite, FS_Subset, FS_CardinalityType DEF RentInv
  <1>2. mishaps' \in 0 .. MaxMishaps /\ mishaps <= mishaps' /\ mishaps \in Nat
    BY MishapsCounted, RentAssumption DEF Ceiling
  <1> QED BY <1>1, <1>2, RentAssumption DEF Ceiling

\* A mishap that leaves one account uncounted.
LEMMA CeilingMissed ==
  ASSUME RentInv, RentInv', Ceiling, [Next]_vars, NEW a \in Accounts,
         mishaps' = mishaps + 1, expired' \subseteq accounts', Uncounted' \subseteq Uncounted \cup {a},
         Cardinality(accounts') <= Max + mishaps', job'.at = "start"
  PROVE  Ceiling'
  <1>1. /\ Cardinality(Uncounted') <= Cardinality(Uncounted) + 1
        /\ Cardinality(Uncounted) \in Nat /\ Cardinality(Uncounted') \in Nat
    BY CountsFinite, OneMore DEF RentInv
  <1>2. mishaps' \in 0 .. MaxMishaps /\ mishaps \in Nat
    BY MishapsCounted, RentAssumption DEF Ceiling
  <1> QED BY <1>1, <1>2 DEF Ceiling

\* A mint: the table had room, so what Steam has is what the table holds, what was missed, and this one.
LEMMA MintCounts ==
  ASSUME RentInv, Ceiling, Room, job.at # "insert", NEW a \in Accounts, accounts' = accounts \cup {a}
  PROVE  Cardinality(accounts') <= Max + mishaps /\ Cardinality(accounts') \in Nat
  <1> DEFINE Known == Held \cup Uncounted
  <1>1. accounts \in SUBSET Known
    BY DEF Uncounted
  <1>2. IsFiniteSet(Known) /\ Cardinality(Known) <= Cardinality(Held) + Cardinality(Uncounted)
        /\ Cardinality(Known) \in Nat
    <2>1. IsFiniteSet(Held \cap Uncounted) /\ Cardinality(Held \cap Uncounted) \in Nat
      BY CountsFinite, FS_Intersection, FS_CardinalityType DEF RentInv
    <2> QED BY <2>1, CountsFinite, FS_Union, FS_CardinalityType DEF RentInv
  <1>3. Cardinality(accounts) <= Cardinality(Known)
    BY <1>1, <1>2, FS_Subset
  <1>4. /\ Cardinality(accounts') <= Cardinality(accounts) + 1
        /\ Cardinality(accounts') \in Nat /\ Cardinality(accounts) \in Nat
    BY CountsFinite, OneMore DEF RentInv
  <1> HIDE DEF Known
  <1> QED BY <1>2, <1>3, <1>4, CountsFinite, RentAssumption DEF RentInv, Room, Ceiling

\* What a mint may leave uncounted, and what it makes.
LEMMA MintCeiling == ASSUME RentInv, RentInv', Ceiling, Mint PROVE Ceiling'
  <1>0. [Next]_vars
    BY DEF Next, Pool
  <1>1. /\ job.at = "mint" /\ Room /\ UNCHANGED <<pool, expired>> /\ Held' = Held /\ mishaps \in Nat
        /\ mishaps \in 0 .. MaxMishaps
    BY RentAssumption DEF Mint, Works, Ceiling, table, Held
  <1>2. CASE UNCHANGED accounts
    <2>1. Finish
      <3>1. ~(Unmade # {} /\ Make /\ job' = [job EXCEPT !.at = "insert", !.account = New])
        <4> SUFFICES ASSUME Unmade # {}, Make PROVE FALSE
          OBVIOUS
        <4>1. New \in Accounts /\ number[New] = 0 /\ accounts' = accounts \cup {New}
          BY DEF New, Unmade, Make
        <4> HIDE DEF New
        <4> QED BY <1>2, <4>1 DEF RentInv, Numbers
      <3> QED BY <3>1 DEF Mint
    <2>2. job'.at = "start" /\ Uncounted' \subseteq Uncounted
      BY <1>1, <1>2, <2>1, StartTyped DEF Finish, Uncounted
    <2> QED BY <1>0, <1>1, <1>2, <2>2, CeilingKept DEF Ceiling
  <1>3. CASE Unmade # {} /\ Make
    <2>1. New \in Accounts
      BY <1>3 DEF New, Unmade
    <2>2. accounts' = accounts \cup {New}
      BY <1>3 DEF Make
    <2>6. \/ job' = [job EXCEPT !.at = "insert", !.account = New] /\ Calm
          \/ Finish /\ (IF Unmade = {} THEN Calm ELSE Happens("steam"))
      BY DEF Mint
    <2> HIDE DEF New
    <2>3. Cardinality(accounts') <= Max + mishaps /\ Cardinality(accounts') \in Nat
      BY <1>1, <2>1, <2>2, MintCounts
    <2>4. CASE job' = [job EXCEPT !.at = "insert", !.account = New] /\ Calm
      <3>1. job'.at = "insert" /\ job'.account = New
        BY <2>4 DEF RentInv, Types, JobState
      <3>2. Uncounted' \in SUBSET Uncounted
        BY <1>1, <2>2, <3>1 DEF Uncounted
      <3>3. Cardinality(Uncounted') <= Cardinality(Uncounted) /\ Cardinality(Uncounted') \in Nat
            /\ Cardinality(Uncounted) \in Nat
        BY <3>2, CountsFinite, FS_Subset, FS_CardinalityType DEF RentInv
      <3> QED BY <1>1, <2>2, <2>3, <2>4, <3>1, <3>3 DEF Ceiling, Calm
    <2>5. CASE Finish /\ Happens("steam")
      <3>1. job'.at = "start" /\ mishaps' = mishaps + 1
        BY <2>5, StartTyped DEF Finish, Happens
      <3>2. Uncounted' \subseteq Uncounted \cup {New}
        BY <1>1, <2>2, <3>1 DEF Uncounted
      <3> QED BY <1>0, <1>1, <2>1, <2>2, <2>3, <3>1, <3>2, RentAssumption, CeilingMissed DEF Ceiling
    <2> QED BY <1>3, <2>4, <2>5, <2>6
  <1> QED BY <1>2, <1>3 DEF Mint

\* The other jobs of the pool.
LEMMA PoolCeiling == ASSUME RentInv, RentInv', Ceiling, Pool PROVE Ceiling'
  <1>0. [Next]_vars
    BY DEF Next
  <1>1. CASE Claim
    <2>1. job.at = "start" /\ job'.at = "start" /\ UNCHANGED <<pool, accounts, expired>>
      BY <1>1, StartTyped DEF Claim, Answer, Finish, Works, steam
    <2> QED BY <1>0, <2>1, CeilingKept DEF Ceiling, Uncounted, Held
  <1>2. CASE Dry
    <2>1. UNCHANGED <<pool, accounts, expired>> /\ job.at = "start" /\ (Room' <=> Room)
      BY <1>2 DEF Dry, Works, table, steam, Room, Held
    <2>2. job'.at = "start" \/ (job'.at = "mint" /\ Room)
      BY <1>2, StartTyped DEF Dry, Answer, Finish, RentInv, Types, JobState
    <2> QED BY <1>0, <2>1, <2>2, CeilingKept DEF Ceiling, Uncounted, Held
  <1>3. CASE Mint
    BY <1>3, MintCeiling
  <1>4. CASE Insert
    <2>1. job.account \in Accounts /\ job.at = "insert" /\ job'.at = "start" /\ UNCHANGED <<accounts, expired>>
      BY <1>4, StartTyped DEF Insert, Answer, Finish, Works, steam, RentInv, JobInv
    <2>2. Held' = Held \cup {job.account}
      BY <1>4, <2>1 DEF Insert, Held, RentInv, Types
    <2> QED BY <1>0, <2>1, <2>2, CeilingKept DEF Ceiling, Uncounted
  <1>5. CASE Release \/ Reset \/ Write
    <2>1. UNCHANGED <<pool, accounts>> /\ expired' \subseteq expired /\ job.at \in {"start", "reset", "write"}
      BY <1>5 DEF Release, Reset, Write, Works, Renew, table, steam
    <2>2. job'.at \in {"start", "reset", "write", "leaks"}
      <3>1. CASE Release
        BY <1>5, <2>1, <3>1, StartTyped DEF Release, Resume, Finish, RentInv, Types, JobState
      <3>2. CASE Reset
        BY <3>2 DEF Reset, RentInv, Types, JobState
      <3>3. CASE Write
        BY <3>3, StartTyped DEF Write, Resume, Finish, RentInv, Types, JobState
      <3> QED BY <1>5, <3>1, <3>2, <3>3
    <2> QED BY <1>0, <2>1, <2>2, CeilingKept DEF Ceiling, Uncounted, Held
  <1> QED BY <1>1, <1>2, <1>3, <1>4, <1>5 DEF Pool

\* The sweep: what it drops is gone from Steam, and what it adopts is counted.
LEMMA SweepCeiling == ASSUME RentInv, RentInv', Ceiling, SweepSteps PROVE Ceiling'
  <1>0. [Next]_vars
    BY DEF Next
  <1> USE DEF RentInv, Types, JobState, Lists
  <1>1. CASE Arm \/ SweepLeaks \/ FreeLeaked
    <2>1. UNCHANGED <<pool, accounts, expired>>
      BY <1>1 DEF Arm, SweepLeaks, FreeLeaked, table, steam
    <2>2. job' = job \/ (job.at # "insert" /\ job'.at \in {"leaks", "reset"})
      BY <1>1 DEF Arm, SweepLeaks, FreeLeaked, Works, Swept
    <2>3. Room' <=> Room
      BY <2>1 DEF Room, Held
    <2> QED BY <1>0, <2>1, <2>2, <2>3, CeilingKept DEF Ceiling, Uncounted, Held
  <1>2. CASE ListAccounts
    <2>1. UNCHANGED <<pool, accounts, expired>> /\ job.at = "leaks"
      BY <1>2 DEF ListAccounts, Works, table, steam
    <2>2. job'.at = "start" \/ (job'.at = "rows" /\ job'.list.accounts = accounts)
      <3>1. CASE Finish
        BY <3>1, StartTyped DEF Finish
      <3>2. CASE job' = [job EXCEPT !.at = "rows", !.todo = Held, !.list =
                            [accounts |-> accounts, number |-> number, expired |-> expired]]
        <4> DEFINE read == [accounts |-> accounts, number |-> number, expired |-> expired]
        <4>1. job' = [at |-> "rows", account |-> job.account, number |-> job.number, todo |-> Held,
                      list |-> read]
          BY <3>2
        <4>2. job'.at = "rows" /\ job'.list = read
          BY <4>1
        <4> QED BY <4>2
      <3> QED BY <1>2, <3>1, <3>2 DEF ListAccounts
    <2> QED BY <1>0, <2>1, <2>2, CeilingKept DEF Ceiling, Uncounted, Held
  <1>3. CASE Square
    <2>1. PICK a \in job.todo :
              /\ pool' = IF Gone(a) THEN [pool EXCEPT ![a] = "dropped"] ELSE pool
              /\ job' = [job EXCEPT !.at = IF ~Gone(a) /\ Expired(a) THEN "renew" ELSE @,
                                    !.account = a, !.todo = @ \ {a}]
      BY <1>3 DEF Square
    <2>2. UNCHANGED <<accounts, expired>> /\ job.at = "rows"
      BY <1>3 DEF Square, Works, steam
    <2>3. job'.at \in {"rows", "renew"} /\ job'.list = job.list
      BY <2>1, <2>2
    <2>4. accounts \cap Held \subseteq Held'
      BY <2>1, <2>2 DEF Gone, Held, Ceiling
    <2> QED BY <1>0, <2>2, <2>3, <2>4, CeilingKept DEF Ceiling, Uncounted
  <1>4. CASE RenewExpired
    <2>1. UNCHANGED <<accounts, pool>> /\ expired' \subseteq expired /\ job.at = "renew"
      BY <1>4 DEF RenewExpired, Renew, Works
    <2>2. job'.at = "rows" /\ job'.list = job.list
      BY <1>4 DEF RenewExpired
    <2> QED BY <1>0, <2>1, <2>2, CeilingKept DEF Ceiling, Uncounted, Held
  <1>5. CASE Adopt
    <2>1. UNCHANGED <<accounts, expired>> /\ job.at = "rows" /\ (job'.at = "start" \/ job' = job)
      BY <1>5, StartTyped DEF Adopt, Finish, Works, steam
    <2>2. Held \subseteq Held'
      <3>1. CASE pool' = pool
        BY <3>1 DEF Held
      <3>2. ASSUME NEW a \in Strays, pool' = [pool EXCEPT ![a] = "held"] PROVE Held \subseteq Held'
        <4>1. a \in Accounts /\ pool \in [Accounts -> {"none", "held", "dropped"}]
          BY DEF Strays
        <4> QED BY <3>2, <4>1 DEF Held
      <3> QED BY <1>5, <3>1, <3>2 DEF Adopt, table
    <2> QED BY <1>0, <2>1, <2>2, CeilingKept DEF Ceiling, Uncounted
  <1> QED BY <1>1, <1>2, <1>3, <1>4, <1>5 DEF SweepSteps

\* A process that dies behind a mint leaves its account uncounted.
LEMMA CrashCeiling == ASSUME RentInv, RentInv', Ceiling, Crash PROVE Ceiling'
  <1>0. [Next]_vars
    BY DEF Next
  <1>1. UNCHANGED <<pool, accounts, expired>> /\ job'.at = "start" /\ mishaps' = mishaps + 1
    BY StartTyped DEF Crash, Happens, table, steam
  <1>2. CASE job.at = "insert"
    <2>1. job.account \in Accounts
      BY <1>2 DEF RentInv, JobInv
    <2>2. Uncounted' \subseteq Uncounted \cup {job.account}
      BY <1>1 DEF Uncounted, Held
    <2>3. Cardinality(accounts) \in Nat
      BY CountsFinite DEF RentInv
    <2> QED BY <1>0, <1>1, <2>1, <2>2, <2>3, CeilingMissed, RentAssumption DEF Ceiling
  <1>3. CASE job.at # "insert"
    BY <1>0, <1>1, <1>3, CeilingKept DEF Ceiling, Uncounted, Held
  <1> QED BY <1>2, <1>3

\* Every step keeps the ceiling.
LEMMA NextCeiling == ASSUME RentInv, RentInv', Ceiling, [Next]_vars PROVE Ceiling'
  <1>1. CASE UNCHANGED <<pool, accounts, expired, job>>
    <2>1. Room' <=> Room
      BY <1>1 DEF Room, Held
    <2> QED BY <1>1, <2>1, CeilingKept DEF Ceiling, Uncounted, Held
  <1>2. CASE Walk \/ Reaper \/ \E r \in Rows : OpenRow(r) \/ Vanish(r)
    <2>1. UNCHANGED <<pool, accounts, expired, job>>
      BY <1>2 DEF Walk, Reaper, Duplicate, Put, Name, StartServer, Found, End, Return, Scrap, CloseRow,
                  ReadLedger, ReadList, EndPass, Reap, OpenRow, Vanish, table, steam, chain
    <2> QED BY <1>1, <2>1
  <1>3. ASSUME NEW a \in Accounts, Website(a) PROVE Ceiling'
    <2>1. UNCHANGED <<pool, job>> /\ accounts' \subseteq accounts /\ expired' \subseteq accounts'
      BY <1>3 DEF Website, Renew, table, chain, Ceiling
    <2>2. Room' <=> Room
      BY <2>1 DEF Room, Held
    <2> QED BY <2>1, <2>2, CeilingKept DEF Ceiling, Uncounted, Held
  <1>4. CASE UNCHANGED vars
    BY <1>1, <1>4 DEF vars
  <1> QED BY <1>2, <1>3, <1>4, PoolCeiling, SweepCeiling, CrashCeiling DEF Next

\* Init establishes both.
LEMMA InitPool == Init => PoolInv
  <1> SUFFICES ASSUME Init PROVE PoolInv
    OBVIOUS
  <1>1. LentOnce
    BY RentAssumption DEF Init, LentOnce
  <1>2. Uncounted = {} /\ accounts = {} /\ mishaps = 0 /\ job.at = "start" /\ expired = {}
    BY StartTyped DEF Init, Uncounted
  <1>3. Cardinality(Uncounted) = 0 /\ Cardinality(accounts) = 0
    BY <1>2, FS_EmptySet
  <1> QED BY <1>1, <1>2, <1>3, RentAssumption DEF PoolInv, Ceiling

\* pool.ts keeps its ceiling on Steam's side too: every variable keeps its type, a row has one account
\* at most, and Steam never has more than the ceiling and one for each mishap, for any rows, accounts,
\* ceiling and mishaps.
THEOREM TypeCorrect == Spec => []TypeOK
  <1>1. Init => PoolInv
    BY InitPool
  <1>2. RentInv /\ RentInv' /\ PoolInv /\ [Next]_vars => PoolInv'
    BY NextLent, NextCeiling DEF PoolInv
  <1>3. RentInv /\ ReapInv /\ PoolInv => TypeOK
    <2> SUFFICES ASSUME RentInv, ReapInv, PoolInv PROVE TypeOK
      OBVIOUS
    <2>1. \A i \in 1 .. Len(queue) : queue[i].kind = "sweep" \/ queue[i].row \in Rows
      BY DEF RentInv, AllPlaced, Placed
    <2>2. /\ job.at \in {"start", "mint", "insert", "reset", "write", "leaks", "rows", "renew"}
          /\ job.account \in Accounts \cup {None} /\ job.number \in Nat /\ job.todo \subseteq Accounts
      BY DEF RentInv, Types, JobState, Stages
    <2>3. /\ ledger \in [Rows -> {"none", "open", "closed"}]
          /\ named \subseteq Rows /\ serving \subseteq named /\ orphaned \subseteq Rows
          /\ reaper.at \in {"idle", "list", "reap", "releasing"}
          /\ reaper.row \in Rows \cup {None} /\ reaper.todo \cup reaper.open \subseteq Rows
          /\ slowed \in BOOLEAN
      BY DEF ReapInv, ReapTypes
    <2>4. /\ \A a, b \in Held : lease[a] = lease[b] /\ lease[a] # None => a = b
          /\ expired \subseteq accounts /\ Cardinality(accounts) <= Max + mishaps
          /\ mishaps \in 0 .. MaxMishaps
      BY DEF PoolInv, LentOnce, Ceiling, Held
    <2> QED BY <2>1, <2>2, <2>3, <2>4 DEF RentInv, Types, TypeOK
  <1> QED BY <1>1, <1>2, <1>3, TokenInvariant, ReapInvariant, PTL DEF Spec
=============================================================================
