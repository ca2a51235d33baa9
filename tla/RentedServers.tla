---------------------------- MODULE RentedServers ----------------------------
(***************************************************************************)
(* The servers of a match that are rented: the walk opens a ledger row, has *)
(* Dathost clone the template for it, leases it a Steam login token from   *)
(* the pool, plants that on the clone and starts it; the end of its match  *)
(* gives all of it back, and so does the reaper where the walk could not.  *)
(* The pool lends an account to one row at a time, mints one when there is *)
(* none free, and its sweep frees the leases of closed rows and squares    *)
(* the accounts with Steam's list.                                         *)
(*                                                                         *)
(* A row makes at most one clone, so the clone has the row's name.  What a *)
(* clone is called, its files, its passwords and its price are left out; a *)
(* call that is retried has one outcome, that of its last try.  The match  *)
(* is here only in that it ends.                                           *)
(***************************************************************************)
EXTENDS Integers, Sequences, FiniteSets

CONSTANTS
    Rows,       \* the ledger rows walks open
    Accounts,   \* the game server accounts Steam may make for this key
    Max,        \* the pool's ceiling
    Mishaps,    \* which kinds of mishap the world has in store
    MaxMishaps, \* bound: how many of them happen
    None

\* A call to Dathost that fails, done or not; one to Steam; a server that is
\* gone from the API and still runs; an account somebody touches at the website;
\* a process that dies; an allocation that outlasts the reaper's grace.
MishapKinds == {"dathost", "steam", "vanish", "website", "crash", "slow"}

ASSUME RentAssumption ==
    /\ IsFiniteSet(Rows) /\ IsFiniteSet(Accounts)
    /\ Max \in Nat /\ MaxMishaps \in Nat
    /\ None \notin Rows \cup Accounts
    /\ Mishaps \subseteq MishapKinds

VARIABLES
    \* the machine
    ledger,   \* the rows
    named,    \* the rows that know their server
    walk,     \* where the walk of a row stands
    serving,  \* the rows whose match got its server
    got,      \* the token a walk was lent
    \* the provider
    records,  \* the allocations its process remembers
    \* Dathost
    api,      \* what the API says of a clone
    on,       \* the clones that run
    planted,  \* the token on a clone
    \* the reaper
    reaper,   \* where its pass stands: at what, with which servers before it
    orphaned, \* servers a pass found on no open row
    \* the pool
    queue,    \* its chain of jobs, the one at work first
    job,      \* where that one stands
    lease,    \* whom an account is lent to
    pool,     \* the accounts of the table: "held", or "dropped"
    token,    \* the token the table has, by its number
    \* Steam
    accounts, \* the accounts there are
    number,   \* how often an account was given a token
    expired,  \* the accounts whose token it let expire
    \* the world
    unreset,  \* has an account been freed without the reset it needed?
    slowed,   \* has an allocation outlasted the reaper's grace?
    mishaps

machine == <<ledger, named, walk, serving, got>>
dathost == <<api, on, planted>>
table == <<lease, pool, token>>
steam == <<accounts, number, expired>>
chain == <<queue, job>>
ghosts == <<unreset, slowed>>
vars == <<ledger, named, walk, serving, got, records, api, on, planted, reaper,
          orphaned, queue, job, lease, pool, token, accounts, number, expired,
          unreset, slowed, mishaps>>

Tokens == [account : Accounts, number : Nat]
LeaseFor(r) == [kind |-> "lease", row |-> r, for |-> "walk", lost |-> FALSE]
ReleaseOf(r, who, lost) == [kind |-> "release", row |-> r, for |-> who, lost |-> lost]
Sweep == [kind |-> "sweep", row |-> None, for |-> "nobody", lost |-> TRUE]
NoList == [accounts |-> {}, number |-> [a \in Accounts |-> 0], expired |-> {}]
Start == [at |-> "start", account |-> None, number |-> 0, todo |-> {}, list |-> NoList]
Idle == [at |-> "idle", row |-> None, todo |-> {}, open |-> {}]

Happens(kind) == kind \in Mishaps /\ mishaps < MaxMishaps /\ mishaps' = mishaps + 1
Calm == UNCHANGED mishaps

Init ==
    /\ ledger = [r \in Rows |-> "none"] /\ named = {} /\ serving = {}
    /\ walk = [r \in Rows |-> "none"] /\ got = [r \in Rows |-> None]
    /\ records = {}
    /\ api = [r \in Rows |-> "none"] /\ on = {} /\ planted = [r \in Rows |-> None]
    /\ reaper = Idle /\ orphaned = {}
    /\ queue = <<>> /\ job = Start
    /\ lease = [a \in Accounts |-> None] /\ pool = [a \in Accounts |-> "none"]
    /\ token = [a \in Accounts |-> 0]
    /\ accounts = {} /\ number = [a \in Accounts |-> 0] /\ expired = {}
    /\ unreset = FALSE /\ slowed = FALSE /\ mishaps = 0

-----------------------------------------------------------------------------
(* The walk and the end of a row.                                          *)

Goes(r, from, to) == walk[r] = from /\ walk' = [walk EXCEPT ![r] = to]

OpenRow(r) ==
    /\ Goes(r, "none", "clone")
    /\ ledger' = [ledger EXCEPT ![r] = "open"]
    /\ UNCHANGED <<named, serving, got, records, dathost, reaper, orphaned,
                   chain, table, steam, ghosts>> /\ Calm

\* duplicate is not sent again: one that fails may have made the clone.
Duplicate(r) ==
    \/ /\ Goes(r, "clone", "leasing")
       /\ api' = [api EXCEPT ![r] = "listed"]
       /\ queue' = Append(queue, LeaseFor(r))
       /\ UNCHANGED <<ledger, named, serving, got, records, on, planted, reaper,
                      orphaned, job, table, steam, ghosts>> /\ Calm
    \/ /\ Goes(r, "clone", "close")
       /\ Happens("dathost")
       /\ \E made \in BOOLEAN : api' = [api EXCEPT ![r] = IF made THEN "listed" ELSE @]
       /\ UNCHANGED <<ledger, named, serving, got, records, on, planted, reaper,
                      orphaned, chain, table, steam, ghosts>>

\* A call about a clone that is not there any more is refused.
Refused(r) == IF api[r] = "listed" THEN Happens("dathost") ELSE Calm

\* The PUT that plants the token, and the record of the allocation.
Put(r) ==
    /\ \/ /\ api[r] = "listed" /\ Calm
          /\ Goes(r, "put", "name")
          /\ records' = records \cup {r}
          /\ planted' = [planted EXCEPT ![r] = got[r]]
       \/ /\ Goes(r, "put", "scrap") /\ Refused(r)
          /\ \/ UNCHANGED planted
             \/ api[r] = "listed" /\ planted' = [planted EXCEPT ![r] = got[r]]
          /\ UNCHANGED records
    /\ got' = [got EXCEPT ![r] = None]
    /\ UNCHANGED <<ledger, named, serving, api, on, reaper, orphaned, chain,
                   table, steam, ghosts>>

Name(r) ==
    /\ Goes(r, "name", "start")
    /\ named' = named \cup {r}
    /\ UNCHANGED <<ledger, serving, got, records, dathost, reaper, orphaned,
                   chain, table, steam, ghosts>> /\ Calm

\* configure and start, or the walk takes this one back.
StartServer(r) ==
    /\ \/ /\ api[r] = "listed" /\ Calm
          /\ Goes(r, "start", "found")
          /\ on' = on \cup {r}
       \/ /\ Goes(r, "start", "return") /\ Refused(r)
          /\ on' = on \/ (api[r] = "listed" /\ on' = on \cup {r})
    /\ UNCHANGED <<ledger, named, serving, got, records, api, planted, reaper, orphaned,
                   chain, table, steam, ghosts>>

\* The match has a server, and says so in its row.
Found(r) ==
    /\ Goes(r, "found", "play")
    /\ serving' = serving \cup {r}
    /\ UNCHANGED <<ledger, named, got, records, dathost, reaper, orphaned,
                   chain, table, steam, ghosts>> /\ Calm

\* The match ends, or is moved to another server: the one it has goes back.
End(r) ==
    /\ walk[r] \in {"play", "window"}
    /\ Goes(r, walk[r], IF r \in named THEN "return" ELSE "close")
    /\ UNCHANGED <<ledger, named, serving, got, records, dathost, reaper,
                   orphaned, chain, table, steam, ghosts>> /\ Calm

\* closeRow, and the walk after a candidate that failed.
CloseRow(r) ==
    /\ Goes(r, "close", "done")
    /\ ledger' = [ledger EXCEPT ![r] = "closed"]
    /\ UNCHANGED <<named, serving, got, records, dathost, reaper, orphaned,
                   chain, table, steam, ghosts>> /\ Calm

-----------------------------------------------------------------------------
(* The provider's way back.                                                *)

\* stop and DELETE: how it ends.  Missing, the server was gone when the DELETE
\* came, its own first try's doing perhaps.
Returns(r, how) ==
    \/ /\ how = "deleted" /\ api[r] = "listed"
       /\ api' = [api EXCEPT ![r] = "gone"] /\ on' = on \ {r} /\ Calm
    \/ /\ how = "missing" /\ api[r] # "listed"
       /\ UNCHANGED <<api, on>> /\ Calm
    \/ /\ how = "missing" /\ api[r] = "listed" /\ Happens("dathost")
       /\ api' = [api EXCEPT ![r] = "gone"] /\ on' = on \ {r}
    \/ /\ how = "failed" /\ api[r] = "listed" /\ Happens("dathost")
       /\ \/ UNCHANGED <<api, on>>
          \/ UNCHANGED api /\ on' = on \ {r}
          \/ api' = [api EXCEPT ![r] = "gone"] /\ on' = on \ {r}

Lost(how) == how = "missing"

\* deallocate: a record says whose lease goes back.
Deallocate(r, how, who) ==
    /\ Returns(r, how)
    /\ IF how # "failed" /\ r \in records
       THEN queue' = Append(queue, ReleaseOf(r, who, Lost(how)))
       ELSE UNCHANGED queue
    /\ records' = IF how = "failed" THEN records ELSE records \ {r}
Waits(r, how) == how # "failed" /\ r \in records

Return(r) ==
    /\ walk[r] = "return"
    /\ \E how \in {"deleted", "missing", "failed"} :
           /\ Deallocate(r, how, "walk")
           /\ Goes(r, "return", IF Waits(r, how) THEN "releasing" ELSE "close")
    /\ UNCHANGED <<ledger, named, serving, got, planted, reaper, orphaned, job,
                   table, steam, ghosts>>

\* Half an allocation is deleted, and its lease goes back as it was lent.
Scrap(r) ==
    /\ walk[r] = "scrap"
    /\ \E how \in {"deleted", "missing", "failed"} :
           /\ Returns(r, how)
           /\ IF how = "failed"
              THEN Goes(r, "scrap", "close") /\ UNCHANGED <<queue, records>>
              ELSE /\ Goes(r, "scrap", "releasing")
                   /\ queue' = Append(queue, ReleaseOf(r, "walk", FALSE))
                   /\ records' = records \ {r}
    /\ UNCHANGED <<ledger, named, serving, got, planted, reaper, orphaned, job,
                   table, steam, ghosts>>

-----------------------------------------------------------------------------
(* The reaper.                                                             *)

Underway(r) == walk[r] \in {"clone", "leasing", "put", "scrap", "name", "start", "found"}
\* Mutant: a row that is closed still accounts for its server.
AccountedClosed == named
Accounted == {r \in named : ledger[r] = "open"}

\* Mutant: an orphan is taken at first sight.
DueAtSight == {r \in Rows \ Accounted : api[r] = "listed"}
\* Orphans the grace of which is over, as it is not in an allocation's time.
Due == {r \in orphaned \ Accounted : ~Underway(r)}

\* A pass reads the ledger, then Dathost's list, and notes the orphans anew.
ReadLedger ==
    /\ reaper.at = "idle"
    /\ \/ reaper' = [Idle EXCEPT !.at = "list", !.todo = Due, !.open = Accounted]
          /\ UNCHANGED slowed /\ Calm
       \/ /\ \E r \in orphaned \ (Accounted \cup Due) :
                 reaper' = [Idle EXCEPT !.at = "list", !.todo = Due \cup {r}, !.open = Accounted]
          /\ Happens("slow") /\ slowed' = TRUE
    /\ UNCHANGED <<machine, records, dathost, orphaned, chain, table, steam, unreset>>
ReadList ==
    /\ reaper.at = "list"
    /\ LET listed == {r \in Rows : api[r] = "listed"}
       IN  \/ /\ reaper' = [Idle EXCEPT !.at = "reap", !.todo = reaper.todo \cap listed]
              /\ orphaned' = listed \ reaper.open /\ Calm
           \/ reaper' = Idle /\ UNCHANGED orphaned /\ Happens("dathost")
    /\ UNCHANGED <<machine, records, dathost, chain, table, steam, ghosts>>

Reap(r) ==
    /\ reaper.at = "reap" /\ r \in reaper.todo
    /\ \E how \in {"deleted", "missing", "failed"} :
           /\ Deallocate(r, how, "reaper")
           /\ reaper' = [reaper EXCEPT !.at = IF Waits(r, how) THEN "releasing" ELSE "reap",
                                          !.row = r, !.todo = @ \ {r}]
           /\ orphaned' = IF how = "failed" THEN orphaned ELSE orphaned \ {r}
    /\ UNCHANGED <<machine, planted, job, table, steam, ghosts>>
EndPass ==
    /\ reaper.at = "reap" /\ reaper.todo = {}
    /\ reaper' = Idle
    /\ UNCHANGED <<machine, records, dathost, orphaned, chain, table, steam, ghosts>>
    /\ Calm

-----------------------------------------------------------------------------
(* The pool: one chain of jobs.                                            *)

Works(kind, at) == queue # <<>> /\ Head(queue).kind = kind /\ job.at = at
Row == Head(queue).row
Finish == queue' = Tail(queue) /\ job' = Start
Held == {a \in Accounts : pool[a] = "held"}
Free == {a \in Held : lease[a] = None}

\* A lease is answered: a token, or none and the server takes LAN players only.
Answer(t) ==
    /\ Finish
    /\ got' = [got EXCEPT ![Row] = t]
    /\ walk' = [walk EXCEPT ![Row] = "put"]
    /\ UNCHANGED <<ledger, named, serving>>

\* The claim, one write.
Claim ==
    /\ Works("lease", "start")
    /\ \E a \in Free :
           /\ lease' = [lease EXCEPT ![a] = Row]
           /\ Answer([account |-> a, number |-> token[a]])
    /\ UNCHANGED <<records, dathost, reaper, orphaned, pool, token, steam, ghosts>> /\ Calm

Room == Cardinality(Held) < Max

\* None is free: an account is minted if the ceiling allows.
Dry ==
    /\ Works("lease", "start") /\ Free = {}
    /\ IF Room
       THEN job' = [job EXCEPT !.at = "mint"] /\ UNCHANGED <<queue, machine>>
       ELSE Answer(None)
    /\ UNCHANGED <<records, dathost, reaper, orphaned, table, steam, ghosts>> /\ Calm

\* CreateAccount is not sent again: one that fails may have made the account,
\* and its allocation fails with it.  Steam makes only so many.
Unmade == {a \in Accounts : number[a] = 0}
New == CHOOSE a \in Unmade : TRUE
Make == accounts' = accounts \cup {New} /\ number' = [number EXCEPT ![New] = 1]
Mint ==
    /\ Works("lease", "mint")
    /\ \/ /\ Unmade # {} /\ Make /\ Calm
          /\ job' = [job EXCEPT !.at = "insert", !.account = New]
          /\ UNCHANGED <<queue, machine>>
       \/ /\ IF Unmade = {} THEN Calm ELSE Happens("steam")
          /\ (Unmade # {} /\ Make) \/ UNCHANGED <<accounts, number>>
          /\ Finish
          /\ walk' = [walk EXCEPT ![Row] = "scrap"]
          /\ UNCHANGED <<ledger, named, serving, got>>
    /\ UNCHANGED <<records, dathost, reaper, orphaned, table, expired, ghosts>>
Insert ==
    /\ Works("lease", "insert")
    /\ pool' = [pool EXCEPT ![job.account] = "held"]
    /\ lease' = [lease EXCEPT ![job.account] = Row]
    /\ token' = [token EXCEPT ![job.account] = 1]
    /\ Answer([account |-> job.account, number |-> 1])
    /\ UNCHANGED <<records, dathost, reaper, orphaned, steam, ghosts>> /\ Calm

\* The job is done and whoever waits for it goes on.
Resume ==
    /\ Finish
    /\ LET who == Head(queue).for
       IN  /\ walk' = IF who = "walk" THEN [walk EXCEPT ![Row] = "close"] ELSE walk
           /\ reaper' = IF who = "reaper" THEN [reaper EXCEPT !.at = "reap"] ELSE reaper
    /\ UNCHANGED <<ledger, named, serving, got>>

\* A row's lease is looked up: a lost server's token is reset before it is free.
Release ==
    /\ Works("release", "start")
    /\ LET mine == {a \in Held : lease[a] = Row}
       IN  IF mine = {}
           THEN Resume
           ELSE /\ \E a \in mine :
                       job' = [job EXCEPT !.at = IF Head(queue).lost THEN "reset" ELSE "write",
                                          !.account = a, !.number = token[a]]
                /\ UNCHANGED <<queue, machine, reaper>>
    /\ UNCHANGED <<records, dathost, orphaned, table, steam, ghosts>> /\ Calm

\* Steam gives an account its next token.
Renew(a) == number' = [number EXCEPT ![a] = @ + 1] /\ expired' = expired \ {a}

\* Mutant: a lease that is swept up is freed as it is.
SweptAsIs == "write"
Swept == "reset"

\* The reset of a lost server's token: one that fails is logged, and the account
\* kept with the token it had.
Reset ==
    /\ queue # <<>> /\ job.at = "reset"
    /\ \/ /\ job.account \in accounts /\ Calm
          /\ Renew(job.account)
          /\ job' = [job EXCEPT !.at = "write", !.number = number[job.account] + 1]
          /\ UNCHANGED unreset
       \/ /\ IF job.account \in accounts THEN Happens("steam") ELSE Calm
          /\ job' = [job EXCEPT !.at = "write"]
          /\ \/ UNCHANGED <<number, expired>> /\ unreset' = (unreset \/ job.account \in accounts)
             \/ job.account \in accounts /\ Renew(job.account) /\ UNCHANGED unreset
    /\ UNCHANGED <<queue, machine, records, dathost, reaper, orphaned, table,
                   accounts, slowed>>

\* The account is free, with the token it has now.
Write ==
    /\ queue # <<>> /\ job.at = "write"
    /\ lease' = [lease EXCEPT ![job.account] = None]
    /\ token' = [token EXCEPT ![job.account] = job.number]
    /\ IF Head(queue).kind = "release"
       THEN Resume
       ELSE job' = [job EXCEPT !.at = "leaks"] /\ UNCHANGED <<queue, machine, reaper>>
    /\ UNCHANGED <<records, dathost, orphaned, pool, steam, ghosts>> /\ Calm

-----------------------------------------------------------------------------
(* The sweep.                                                              *)

Arm ==
    /\ \A i \in 1 .. Len(queue) : queue[i].kind # "sweep"
    /\ queue' = Append(queue, Sweep)
    /\ UNCHANGED <<machine, records, dathost, reaper, orphaned, job, table, steam, ghosts>>
    /\ Calm

\* The leases of rows that are closed.
Leaked == {a \in Held : lease[a] # None /\ ledger[lease[a]] = "closed"}

SweepLeaks ==
    /\ Works("sweep", "start")
    /\ job' = [job EXCEPT !.at = "leaks", !.todo = Leaked]
    /\ UNCHANGED <<queue, machine, records, dathost, reaper, orphaned, table, steam, ghosts>>
    /\ Calm
FreeLeaked ==
    /\ Works("sweep", "leaks")
    /\ \E a \in job.todo :
           job' = [job EXCEPT !.at = Swept, !.account = a, !.number = token[a],
                              !.todo = @ \ {a}]
    /\ UNCHANGED <<queue, machine, records, dathost, reaper, orphaned, table, steam, ghosts>>
    /\ Calm

\* Steam's list, against the accounts of the pool.
ListAccounts ==
    /\ Works("sweep", "leaks") /\ job.todo = {}
    /\ \/ /\ job' = [job EXCEPT !.at = "rows", !.todo = Held, !.list =
                        [accounts |-> accounts, number |-> number, expired |-> expired]]
          /\ UNCHANGED queue /\ Calm
       \/ Finish /\ Happens("steam")
    /\ UNCHANGED <<machine, records, dathost, reaper, orphaned, table, steam, ghosts>>

Gone(a) == a \notin job.list.accounts
Expired(a) == a \in job.list.expired /\ lease[a] = None
Other(a) == token[a] # job.list.number[a] /\ lease[a] = None

\* Dropped, renewed, or given the token Steam has.
Square ==
    /\ Works("sweep", "rows")
    /\ \E a \in job.todo :
           /\ pool' = IF Gone(a) THEN [pool EXCEPT ![a] = "dropped"] ELSE pool
           /\ token' = IF ~Gone(a) /\ ~Expired(a) /\ Other(a)
                       THEN [token EXCEPT ![a] = job.list.number[a]] ELSE token
           /\ job' = [job EXCEPT !.at = IF ~Gone(a) /\ Expired(a) THEN "renew" ELSE @,
                                 !.account = a, !.todo = @ \ {a}]
    /\ UNCHANGED <<queue, machine, records, dathost, reaper, orphaned, lease, steam, ghosts>>
    /\ Calm
RenewExpired ==
    /\ Works("sweep", "renew")
    /\ \/ /\ job.account \in accounts /\ Calm
          /\ Renew(job.account)
          /\ token' = [token EXCEPT ![job.account] = number[job.account] + 1]
       \/ /\ IF job.account \in accounts THEN Happens("steam") ELSE Calm
          /\ UNCHANGED token
          /\ UNCHANGED <<number, expired>> \/ (job.account \in accounts /\ Renew(job.account))
    /\ job' = [job EXCEPT !.at = "rows"]
    /\ UNCHANGED <<queue, machine, records, dathost, reaper, orphaned, lease, pool,
                   accounts, ghosts>>

\* Mutant: only accounts the table once had are adopted.
StraysDropped == {a \in job.list.accounts : pool[a] = "dropped"}
\* Accounts this deployment minted and the table never had.
Strays == {a \in job.list.accounts : pool[a] = "none"}
Adopt ==
    /\ Works("sweep", "rows") /\ job.todo = {}
    /\ IF Strays = {}
       THEN Finish /\ UNCHANGED table
       ELSE \E a \in Strays :
                /\ pool' = [pool EXCEPT ![a] = "held"]
                /\ token' = [token EXCEPT ![a] = job.list.number[a]]
                /\ UNCHANGED <<queue, job, lease>>
    /\ UNCHANGED <<machine, records, dathost, reaper, orphaned, steam, ghosts>> /\ Calm

-----------------------------------------------------------------------------
(* The world.                                                              *)

\* A process that dies takes its walks, its records and its chain with it.  A
\* match that got its server is resumed, and ends, and so does one that was
\* recovering, when its window closes.  Any other walks again, on a row of its
\* own, and leaves this one.
Crash ==
    /\ Happens("crash")
    /\ \E recovering \in SUBSET {r \in Rows : Underway(r)} :
           walk' = [r \in Rows |-> IF ledger[r] # "open" THEN walk[r]
                                  ELSE IF r \in serving THEN "play"
                                  ELSE IF r \in recovering THEN "window" ELSE "stranded"]
    /\ got' = [r \in Rows |-> None]
    /\ records' = {} /\ queue' = <<>> /\ job' = Start
    /\ reaper' = Idle /\ orphaned' = {}
    /\ UNCHANGED <<ledger, named, serving, dathost, table, steam, ghosts>>

\* A server the API does not know any more, and which may run on.
Vanish(r) ==
    /\ api[r] = "listed" /\ Happens("vanish")
    /\ api' = [api EXCEPT ![r] = "gone"]
    /\ UNCHANGED <<machine, records, on, planted, reaper, orphaned, chain, table, steam, ghosts>>

\* Somebody deletes an account or resets its token at the website, or Steam lets
\* one expire that is on no server.
Website(a) ==
    /\ a \in accounts /\ Happens("website")
    /\ \/ accounts' = accounts \ {a} /\ expired' = expired \ {a} /\ UNCHANGED number
       \/ Renew(a) /\ UNCHANGED accounts
       \/ lease[a] = None /\ expired' = expired \cup {a} /\ UNCHANGED <<accounts, number>>
    /\ UNCHANGED <<machine, records, dathost, reaper, orphaned, chain, table, ghosts>>

-----------------------------------------------------------------------------
Walk == \E r \in Rows :
    Duplicate(r) \/ Put(r) \/ Name(r) \/ StartServer(r) \/ Found(r)
    \/ End(r) \/ Return(r) \/ Scrap(r) \/ CloseRow(r)
Reaper == ReadLedger \/ ReadList \/ EndPass \/ \E r \in Rows : Reap(r)
Pool == Claim \/ Dry \/ Mint \/ Insert \/ Release \/ Reset \/ Write
SweepSteps == Arm \/ SweepLeaks \/ FreeLeaked \/ ListAccounts \/ Square \/ RenewExpired \/ Adopt

Next ==
    \/ \E r \in Rows : OpenRow(r) \/ Vanish(r)
    \/ Walk \/ Reaper \/ Pool \/ SweepSteps
    \/ \E a \in Accounts : Website(a)
    \/ Crash

Spec == Init /\ [][Next]_vars

\* Promises settle, calls are answered or time out, and timers fire: the reaper's,
\* the sweep's, and the ttl that ends every match.  No fairness for a new row, nor
\* for a mishap.
Fairness == WF_vars(Walk) /\ WF_vars(Reaper) /\ WF_vars(Pool \/ SweepSteps)
FairSpec == Spec /\ Fairness

-----------------------------------------------------------------------------
(* What renting promises.                                                  *)

Places == {"none", "clone", "leasing", "put", "scrap", "name", "start", "play",
           "found", "return", "releasing", "close", "done", "window", "stranded"}

\* Every variable keeps its type, a row has one account at most, and Steam no more of
\* them than the ceiling of pool.ts allows, and one for each mishap: a mint made and
\* not answered, or a process that died behind it.
TypeOK ==
    /\ ledger \in [Rows -> {"none", "open", "closed"}]
    /\ named \subseteq Rows /\ serving \subseteq named /\ records \subseteq Rows
    /\ walk \in [Rows -> Places]
    /\ got \in [Rows -> Tokens \cup {None}]
    /\ api \in [Rows -> {"none", "listed", "gone"}]
    /\ on \subseteq Rows /\ planted \in [Rows -> Tokens \cup {None}]
    /\ reaper.at \in {"idle", "list", "reap", "releasing"}
    /\ reaper.row \in Rows \cup {None} /\ reaper.todo \cup reaper.open \subseteq Rows
    /\ orphaned \subseteq Rows
    /\ \A i \in 1 .. Len(queue) : queue[i].kind = "sweep" \/ queue[i].row \in Rows
    /\ job.at \in {"start", "mint", "insert", "reset", "write", "leaks", "rows", "renew"}
    /\ job.account \in Accounts \cup {None} /\ job.number \in Nat
    /\ job.todo \subseteq Accounts
    /\ lease \in [Accounts -> Rows \cup {None}]
    /\ \A a, b \in Held : lease[a] = lease[b] /\ lease[a] # None => a = b
    /\ pool \in [Accounts -> {"none", "held", "dropped"}]
    /\ token \in [Accounts -> Nat] /\ number \in [Accounts -> Nat]
    /\ accounts \subseteq Accounts /\ expired \subseteq accounts
    /\ Cardinality(accounts) <= Max + mishaps
    /\ unreset \in BOOLEAN /\ slowed \in BOOLEAN /\ mishaps \in 0 .. MaxMishaps

\* The token a running server is logged in with, if Steam still honours it.
Honoured(t) == t.account \in accounts \ expired /\ t.number = number[t.account]
LoggedIn(r) == r \in on /\ planted[r] # None /\ Honoured(planted[r])

\* One token, one running server: a second login would throw the first one out.
OneServerPerToken ==
    unreset \/ \A r, s \in Rows :
        LoggedIn(r) /\ LoggedIn(s) /\ planted[r] = planted[s] => r = s

\* The reaper takes no server that a walk is working on or a match plays on,
\* unless the allocation outlasted its grace.
Reaped(r) == r \in reaper.todo \ reaper'.todo /\ reaper'.row = r
OnlyOrphansAreReaped ==
    [][slowed \/ \A r \in Rows : Reaped(r) => ~Underway(r) /\ walk[r] # "play"]_vars

\* In the end a lease is back in the pool and a clone deleted, as there is no
\* match left for them to serve, except where a crash stranded the row.
LeaseIsOf(a, r) == pool[a] = "held" /\ lease[a] = r
Returned ==
    /\ \A a \in Accounts, r \in Rows : LeaseIsOf(a, r) => walk[r] = "stranded"
    /\ \A r \in Rows : api[r] = "listed" => walk[r] = "stranded" /\ r \in named
RentEnds == <>[]Returned

\* In the end the pool is sound: an account Steam made for a mint that never
\* learned of it is adopted, and a free account has a token Steam honours.
Sound(a) == Honoured([account |-> a, number |-> token[a]])
Healed ==
    /\ \A a \in accounts : pool[a] # "none"
    /\ \A a \in Free : Sound(a)
PoolHeals == <>[]Healed

\* A crash cannot leak a lease: whatever it left, the sweep frees.
CrashLeaksNoLease == <>[](\A a \in Accounts, r \in Rows : ~LeaseIsOf(a, r))

\* One token, one running server, whatever became of a reset.
TokenIsNeverShared ==
    \A r, s \in Rows :
        LoggedIn(r) /\ LoggedIn(s) /\ planted[r] = planted[s] => r = s
=============================================================================
