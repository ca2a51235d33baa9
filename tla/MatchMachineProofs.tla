------------------------- MODULE MatchMachineProofs --------------------------
(***************************************************************************)
(* Proofs about MatchMachine, for any number of rows, any events and       *)
(* commands, any chain bound and any number of mishaps: its types and that *)
(* an end is final; how many servers a match can have open; that in one    *)
(* lifetime of its process it implements MatchLifecycle; that an open      *)
(* match is attended and the server under it watched; and that a live      *)
(* match whose series is over waits for the demos of its maps.             *)
(***************************************************************************)
EXTENDS MatchMachine, FiniteSetTheorems, TLAPS

-----------------------------------------------------------------------------
(***************************************************************************)
(* Types, and that an end is final.                                        *)
(*                                                                         *)
(* TypeOK is not inductive: what a handler does at its second write needs  *)
(* what its first one left in the job it carries. TypeInv adds that.       *)
(***************************************************************************)

\* The places a walk holds a candidate at.
WalkingOn == {"point", "allocate", "bind", "take", "allocated", "configure"}

\* On the way to an end.
Ending(j) == j.pc = "end" \/ (j.pc \in {"deallocate", "close"} /\ j.after = "end")

\* What the place a handler stands at says of the job it carries.
JobInv ==
    /\ job.pc \in {"deallocate", "close"} => Current \in Rows
    /\ job.pc \in WalkingOn => job.cand \in Rows
    /\ job.pc \notin WalkingOn => job.cand = None
    /\ job.walk # "none" => job.pc \in WalkingOn \cup {"next", "walked"}
    /\ job.walk = "recover" => match.state = "recovering"
    /\ Ending(job) => job.ending.state \in Terminal /\ job.ending.kind \in Reasons
    /\ job.pc # "idle" => ~IsTerminal

TypeInv == TypeOK /\ JobInv

-----------------------------------------------------------------------------
(* What the helpers of the handlers return.                                *)

\* The step at the head of the chain is a step, and so is every one behind it.
LEMMA HeadTyped ==
  ASSUME TypeOK, NEW ks, Begin(ks)
  PROVE  /\ Head(chain) \in StepType
         /\ Tail(chain) \in Seq(StepType)
  BY DEF TypeOK, Begin

\* A verdict ends an open match, in a terminal state and for a reason the API names.
LEMMA VerdictTyped ==
  ASSUME TypeOK, NEW s
  PROVE  Verdict(s) # NoEnd => /\ ~IsTerminal
                               /\ Verdict(s) \in [state : Terminal, kind : Reasons]
  <1>1. Verdict(s) \in {NoEnd, Ended("ttl_expired"), Ended("completed"), Ended("force_ended"),
                       Failed("server_lost"), Failed("allocation_failed"), Failed("provider_error"),
                       [state |-> "cancelled", kind |-> "cancelled"]}
    BY DEF Verdict
  <1>2. IsTerminal => Verdict(s) = NoEnd
    BY DEF Verdict
  <1> QED BY <1>1, <1>2 DEF Ended, Failed, Terminal, Reasons

\* A handler that is done carries nothing.
LEMMA IdleTyped ==
  IdleJob \in JobType /\ IdleJob.pc = "idle" /\ IdleJob.cand = None /\ IdleJob.walk = "none"
  BY DEF IdleJob, NoEnd, JobType, Places, Returns, Verdicts

\* A handler at its first place, with nothing carried...
LEMMA PcSet ==
  ASSUME NEW p \in Places
  PROVE  /\ [IdleJob EXCEPT !.pc = p] \in JobType
         /\ [IdleJob EXCEPT !.pc = p].pc = p
         /\ [IdleJob EXCEPT !.pc = p].cand = None
         /\ [IdleJob EXCEPT !.pc = p].walk = "none"
  BY IdleTyped DEF JobType

\* ...with a walk...
LEMMA WalkSet ==
  ASSUME NEW p \in Places, NEW w \in {"none", "provision", "recover"}
  PROVE  /\ [IdleJob EXCEPT !.pc = p, !.walk = w] \in JobType
         /\ [IdleJob EXCEPT !.pc = p, !.walk = w].pc = p
         /\ [IdleJob EXCEPT !.pc = p, !.walk = w].cand = None
         /\ [IdleJob EXCEPT !.pc = p, !.walk = w].walk = w
  BY IdleTyped DEF JobType

\* ...and with a place to come back to.
LEMMA AfterSet ==
  ASSUME NEW p \in Places, NEW a \in Returns
  PROVE  /\ [IdleJob EXCEPT !.after = a, !.pc = p] \in JobType
         /\ [IdleJob EXCEPT !.after = a, !.pc = p].pc = p
         /\ [IdleJob EXCEPT !.after = a, !.pc = p].after = a
         /\ [IdleJob EXCEPT !.after = a, !.pc = p].cand = None
         /\ [IdleJob EXCEPT !.after = a, !.pc = p].walk = "none"
  BY IdleTyped DEF JobType

\* A step of a kind, from a server or from nobody.
LEMMA StepTyped == ASSUME NEW k \in Kinds, NEW f \in Rows \cup {None} PROVE Step(k, f) \in StepType
  BY DEF Step, StepType

\* The steps the machine and the reaper queue themselves.
LEMMA OwnSteps ==
  /\ Step("provision", None) \in StepType
  /\ Step("recover", None) \in StepType
  /\ Step("completed", None) \in StepType
  /\ Step("expire", None) \in StepType
  /\ Step("suspect", None) \in StepType
  /\ Step("orphan_found", None) \in StepType
  /\ Step("release", None) \in StepType
  BY StepTyped DEF Kinds, Doors

\* The verdicts the handlers reach without a deadline.
LEMMA OwnVerdicts ==
  /\ Failed("server_lost") \in [state : Terminal, kind : Reasons]
  /\ Failed("provider_error") \in [state : Terminal, kind : Reasons]
  /\ Failed("allocation_failed") \in [state : Terminal, kind : Reasons]
  /\ Ended("completed") \in [state : Terminal, kind : Reasons]
  BY DEF Failed, Ended, Terminal, Reasons

\* Hearing a server arms a deadline and no more.
LEMMA HeardTyped == ASSUME TypeOK PROVE Heard(timers) \in SUBSET Timers
  BY DEF TypeOK, Heard, Timers

\* JobInv speaks of the job and the match only.
LEMMA SameJob == ASSUME JobInv, UNCHANGED <<match, job>> PROVE JobInv'
  BY DEF JobInv, WalkingOn, Ending, IsTerminal, Current

\* end() begins at its closeRow, or at its fact when there is no row.
LEMMA EndTyped ==
  ASSUME TypeOK, NEW v \in [state : Terminal, kind : Reasons], End(v), match' = match, ~IsTerminal
  PROVE  /\ timers' \subseteq Timers
         /\ job' \in JobType
         /\ JobInv'
  <1>1. job' = [pc |-> IF Current = None THEN "end" ELSE "deallocate", after |-> "end", ending |-> v,
            walk |-> "none", cand |-> None, found |-> FALSE]
    BY DEF End, IdleJob
  <1>2. job' \in JobType
    BY <1>1 DEF JobType, Places, Returns, Verdicts
  <1>3. match.fleetServerId \in Rows \cup {None}
    BY DEF TypeOK, MatchType
  <1>4. JobInv'
    BY <1>1, <1>3 DEF JobInv, WalkingOn, Ending, IsTerminal, Current
  <1> QED BY <1>2, <1>4 DEF End

\* A loss from live begins at its state.
LEMMA LostFromLiveTyped ==
  ASSUME TypeOK, LostFromLive, ~IsTerminal, match' = match
  PROVE  /\ timers' \subseteq Timers
         /\ said' \in SaidType
         /\ runtime' \in RuntimeType
         /\ job' \in JobType
         /\ JobInv'
  BY DEF LostFromLive, TypeOK, JobInv, IdleJob, NoEnd, SaidType, RuntimeType, JobType, Facts,
     Places,
       Returns, Verdicts, WalkingOn, Ending, IsTerminal, Timers

\* A loss, from whatever state.
LEMMA LostTyped ==
  ASSUME TypeOK, JobInv, Lost, match' = match, ~IsTerminal
  PROVE  /\ timers' \subseteq Timers
         /\ said' \in SaidType
         /\ runtime' \in RuntimeType
         /\ job' \in JobType
         /\ JobInv'
  <1>1. CASE LostFromLive
    BY <1>1, LostFromLiveTyped
  <1>2. ASSUME NEW v \in [state : Terminal, kind : Reasons], End(v), UNCHANGED <<said, runtime>>
        PROVE  /\ timers' \subseteq Timers
               /\ said' \in SaidType
               /\ runtime' \in RuntimeType
               /\ job' \in JobType
               /\ JobInv'
    BY <1>2, EndTyped DEF TypeOK
  <1>3. CASE UNCHANGED <<said, job, timers, runtime>>
    BY <1>3, SameJob DEF TypeOK
  <1> QED BY <1>1, <1>2, <1>3, OwnVerdicts DEF Lost

\* The series begins on its first map, and a going_live names one of its maps.
LEMMA MapsTyped ==
  /\ 1 \in Maps
  /\ MapsSaid \subseteq Maps
  BY MachineAssumption DEF Maps, MapsSaid

\* A map that is said is the map of the log and of the memory.
LEMMA OnMapTyped ==
  ASSUME TypeOK, NEW m \in MapsSaid, OnMap(m)
  PROVE  /\ logged' \in LoggedType
         /\ runtime' \in RuntimeType
  BY MapsTyped DEF OnMap, TypeOK, LoggedType, RuntimeType

-----------------------------------------------------------------------------
(* Every action keeps TypeInv.                                             *)

\* EndStep keeps TypeInv.
LEMMA TypedEndStep == ASSUME TypeInv, EndStep PROVE TypeInv'
  <1>1. chain' \in Seq(StepType)
    BY HeadTyped DEF TypeInv, EndStep
  <1>2. CASE UNCHANGED <<job, timers>>
    BY <1>1, <1>2, SameJob DEF TypeInv, TypeOK, EndStep, durable, watch, mishaps
  <1>3. CASE Verdict(Head(chain)) # NoEnd /\ End(Verdict(Head(chain)))
    BY <1>1, <1>3, VerdictTyped, EndTyped DEF TypeInv, TypeOK, EndStep, durable, watch, mishaps
  <1> QED BY <1>2, <1>3 DEF EndStep

\* Deallocate keeps TypeInv.
LEMMA TypedDeallocate == ASSUME TypeInv, Deallocate PROVE TypeInv'
  <1>1. job' \in JobType
    BY DEF TypeInv, TypeOK, Deallocate, At, JobType, Places, Returns, Verdicts
  <1>2. server' \in [Rows -> {"none", "up", "gone"}]
    BY DEF TypeInv, TypeOK, Deallocate, At
  <1>3. JobInv'
    <2>1. job.pc = "deallocate" /\ job' = [job EXCEPT !.pc = "close"] /\ match' = match
      BY DEF Deallocate, At, durable
    <2>2. job \in JobType /\ JobInv
      BY DEF TypeInv, TypeOK
    <2>3. /\ job'.pc = "close" /\ job'.cand = job.cand /\ job'.walk = job.walk
          /\ job'.ending = job.ending /\ job'.after = job.after
      BY <2>1, <2>2 DEF JobType
    <2>4. Ending(job)' => Ending(job)
      BY <2>1, <2>3 DEF Ending
    <2> QED BY <2>1, <2>2, <2>3, <2>4 DEF JobInv, WalkingOn, IsTerminal, Current
  <1> QED BY <1>1, <1>2, <1>3 DEF TypeInv, TypeOK, Deallocate, durable, watch, mishaps

\* CloseRow keeps TypeInv.
LEMMA TypedCloseRow == ASSUME TypeInv, CloseRow PROVE TypeInv'
  <1>1. ledger' \in [Rows -> RowType]
    BY ZenonT(40) DEF TypeInv, TypeOK, CloseRow, RowType, CloseOf
  <1>2. job' \in JobType
    BY DEF TypeInv, TypeOK, CloseRow, At, JobType, Places, Returns
  <1>3. JobInv'
    BY DEF TypeInv, TypeOK, CloseRow, At, JobInv, WalkingOn, Ending, IsTerminal, Current, JobType,
       Returns
  <1> QED BY <1>1, <1>2, <1>3 DEF TypeInv, TypeOK, CloseRow, watch, mishaps

\* EndFact keeps TypeInv.
LEMMA TypedEndFact == ASSUME TypeInv, EndFact PROVE TypeInv'
  <1>1. match' \in MatchType
    BY DEF TypeInv, TypeOK, EndFact, At, MatchType, States, Open, Terminal, Reasons, Ending, JobInv
  <1>2. said' \in SaidType
    BY DEF TypeInv, TypeOK, EndFact, At, SaidType, Facts, Emit, Ending, JobInv
  <1>3. job' \in JobType
    BY DEF TypeInv, TypeOK, EndFact, At, JobType, Places, Returns, Verdicts, Finished, IdleJob,
       NoEnd, Ending, JobInv
  <1>4. runtime' \in RuntimeType
    BY MapsTyped DEF EndFact, RuntimeType, NewRuntime
  <1>5. JobInv'
    BY DEF TypeInv, TypeOK, EndFact, JobInv, WalkingOn, Ending, IsTerminal, Current, JobType,
       MatchType, Finished, IdleJob, NoEnd, At
  <1> QED BY <1>1, <1>2, <1>3, <1>4, <1>5 DEF TypeInv, TypeOK, EndFact, watch, mishaps

\* Provision keeps TypeInv.
LEMMA TypedProvision == ASSUME TypeInv, Provision PROVE TypeInv'
  <1>1. chain' \in Seq(StepType)
    BY HeadTyped DEF TypeInv, Provision
  <1>2. match' \in MatchType /\ timers' \subseteq Timers
    BY DEF TypeInv, TypeOK, Provision, MatchType, States, Open, SetState, Timers
  <1>3. CASE UNCHANGED <<match, job, timers>>
    BY <1>1, <1>3 DEF TypeInv, TypeOK, JobInv, IsTerminal, Current, Ending, WalkingOn, Provision,
       watch, mishaps
  <1>4. CASE SetState("allocating") /\ job' = [IdleJob EXCEPT !.pc = "next", !.walk = "provision"]
    <2>1. job' \in JobType /\ job'.pc = "next" /\ job'.cand = None
          /\ job'.walk = "provision"
      BY <1>4, WalkSet DEF Places
    <2>2. match'.state = "allocating"
      BY <1>4 DEF TypeInv, TypeOK, MatchType, SetState
    <2>3. JobInv'
      BY <2>1, <2>2 DEF JobInv, IsTerminal, Terminal, Ending, WalkingOn
    <2> QED BY <1>1, <1>2, <2>1, <2>3 DEF TypeInv, TypeOK, Provision, watch, mishaps
  <1> QED BY <1>3, <1>4 DEF Provision

\* Recover keeps TypeInv.
LEMMA TypedRecover == ASSUME TypeInv, Recover PROVE TypeInv'
  <1>1. chain' \in Seq(StepType) /\ job.pc = "idle"
    BY HeadTyped DEF TypeInv, Recover, Begin
  <1>2. CASE UNCHANGED <<job, timers>> /\ runtime' = [runtime EXCEPT !.recovering = FALSE]
    BY <1>1, <1>2, SameJob DEF TypeInv, TypeOK, RuntimeType, Recover, durable, watch, mishaps
  <1>3. CASE match.state = "recovering" /\ End(Failed("server_lost")) /\ UNCHANGED runtime
    BY <1>1, <1>3, OwnVerdicts, EndTyped DEF TypeInv, TypeOK, Recover, IsTerminal, Terminal,
       durable, watch, mishaps
  <1>4. CASE /\ match.state = "recovering"
             /\ job' = [IdleJob EXCEPT !.pc = "next", !.walk = "recover"]
             /\ UNCHANGED <<timers, runtime>>
    <2>1. job' \in JobType /\ job'.pc = "next" /\ job'.cand = None
          /\ job'.walk = "recover"
      BY <1>4, WalkSet DEF Places
    <2>2. JobInv'
      BY <1>4, <2>1 DEF JobInv, WalkingOn, Ending, IsTerminal, Terminal, Recover, durable
    <2> QED BY <1>1, <1>4, <2>1, <2>2 DEF TypeInv, TypeOK, Recover, durable, watch, mishaps
  <1> QED BY <1>2, <1>3, <1>4 DEF Recover

\* WalkInsert keeps TypeInv.
LEMMA TypedWalkInsert == ASSUME TypeInv, NEW r \in Rows, WalkInsert(r) PROVE TypeInv'
  <1>1. ledger' \in [Rows -> RowType]
    BY DEF TypeInv, TypeOK, WalkInsert, RowType
  <1>2. job' \in JobType
    BY DEF TypeInv, TypeOK, WalkInsert, JobType, Places
  <1>3. JobInv'
    <2>1. /\ job'.pc = "point" /\ job'.cand = r /\ job'.walk = job.walk
          /\ match' = match /\ ~IsTerminal
      BY DEF TypeInv, TypeOK, JobInv, WalkInsert, At, JobType
    <2> QED BY <2>1 DEF TypeInv, JobInv, WalkingOn, Ending, IsTerminal
  <1> QED BY <1>1, <1>2, <1>3 DEF TypeInv, TypeOK, WalkInsert, watch, mishaps

\* WalkStop keeps TypeInv.
LEMMA TypedWalkStop == ASSUME TypeInv, WalkStop PROVE TypeInv'
  <1>1. job' \in JobType
    BY DEF TypeInv, TypeOK, WalkStop, At, JobType, Places, Returns, Verdicts
  <1>2. JobInv'
    BY DEF TypeInv, TypeOK, WalkStop, JobInv, WalkingOn, Ending, IsTerminal, Current, JobType,
       MatchType, At, durable
  <1> QED BY <1>1, <1>2 DEF TypeInv, TypeOK, WalkStop, durable, watch, mishaps

\* WalkPoint keeps TypeInv.
LEMMA TypedWalkPoint == ASSUME TypeInv, WalkPoint PROVE TypeInv'
  <1>1. match' \in MatchType
    BY DEF TypeInv, TypeOK, WalkPoint, At, MatchType, States, Open, Terminal, Reasons, JobInv,
       WalkingOn
  <1>2. job' \in JobType
    BY DEF TypeInv, TypeOK, WalkPoint, At, JobType, Places, Returns, Verdicts, JobInv, WalkingOn
  <1>3. JobInv'
    BY DEF TypeInv, TypeOK, WalkPoint, JobInv, WalkingOn, Ending, IsTerminal, Current, JobType,
       MatchType, At
  <1> QED BY <1>1, <1>2, <1>3 DEF TypeInv, TypeOK, WalkPoint, watch, mishaps

\* WalkAllocate keeps TypeInv.
LEMMA TypedWalkAllocate == ASSUME TypeInv, WalkAllocate PROVE TypeInv'
  <1>1. server' \in [Rows -> {"none", "up", "gone"}]
    BY DEF TypeInv, TypeOK, WalkAllocate, At, JobInv, WalkingOn
  <1>2. ledger' \in [Rows -> RowType]
    BY DEF TypeInv, TypeOK, WalkAllocate, At, RowType, CloseOf, JobInv, WalkingOn
  <1>3. job' \in JobType
    BY ZenonT(40) DEF TypeInv, TypeOK, WalkAllocate, At, JobType, Places, Returns, Verdicts, JobInv,
       WalkingOn
  <1>4. JobInv'
    BY DEF TypeInv, TypeOK, WalkAllocate, JobInv, WalkingOn, Ending, IsTerminal, Current, JobType,
       MatchType, At
  <1> QED BY <1>1, <1>2, <1>3, <1>4 DEF TypeInv, TypeOK, WalkAllocate, watch, mishaps

\* WalkBind keeps TypeInv.
LEMMA TypedWalkBind == ASSUME TypeInv, WalkBind PROVE TypeInv'
  <1>1. ledger' \in [Rows -> RowType]
    BY DEF TypeInv, TypeOK, WalkBind, At, RowType
  <1>2. job' \in JobType
    BY DEF TypeInv, TypeOK, WalkBind, At, JobType, Places, Returns, Verdicts
  <1>3. JobInv'
    BY DEF TypeInv, TypeOK, WalkBind, JobInv, WalkingOn, Ending, IsTerminal, Current, JobType,
       MatchType, At
  <1> QED BY <1>1, <1>2, <1>3 DEF TypeInv, TypeOK, WalkBind, watch, mishaps

\* WalkTake keeps TypeInv.
LEMMA TypedWalkTake == ASSUME TypeInv, WalkTake PROVE TypeInv'
  <1>1. match' \in MatchType
    BY DEF TypeInv, TypeOK, WalkTake, At, MatchType, States, Open, Terminal, Reasons, JobInv,
       WalkingOn
  <1>2. job' \in JobType
    BY DEF TypeInv, TypeOK, WalkTake, At, JobType, Places, Returns, Verdicts, JobInv, WalkingOn
  <1>3. JobInv'
    BY DEF TypeInv, TypeOK, WalkTake, JobInv, WalkingOn, Ending, IsTerminal, Current, JobType,
       MatchType, At
  <1> QED BY <1>1, <1>2, <1>3 DEF TypeInv, TypeOK, WalkTake, watch, mishaps

\* WalkTell keeps TypeInv.
LEMMA TypedWalkTell == ASSUME TypeInv, WalkTell PROVE TypeInv'
  <1>1. said' \in SaidType
    BY DEF TypeInv, TypeOK, WalkTell, At, SaidType, Facts, Emit
  <1>2. job' \in JobType
    BY DEF TypeInv, TypeOK, WalkTell, At, JobType, Places, Returns, Verdicts
  <1>3. JobInv'
    BY DEF TypeInv, TypeOK, WalkTell, JobInv, WalkingOn, Ending, IsTerminal, Current, JobType,
       MatchType, At
  <1> QED BY <1>1, <1>2, <1>3 DEF TypeInv, TypeOK, WalkTell, watch, mishaps

\* WalkConfigure keeps TypeInv.
LEMMA TypedWalkConfigure == ASSUME TypeInv, WalkConfigure PROVE TypeInv'
  <1>1. ledger' \in [Rows -> RowType]
    <2>1. job.cand \in Rows
      BY DEF TypeInv, JobInv, WalkConfigure, At, WalkingOn
    <2>2. ledger' = [ledger EXCEPT ![job.cand].state = "configured"] \/ ledger' = CloseOf(job.cand)
      BY DEF WalkConfigure
    <2> QED BY <2>1, <2>2 DEF TypeInv, TypeOK, RowType, CloseOf
  <1>2. job' \in JobType
    BY ZenonT(40) DEF TypeInv, TypeOK, WalkConfigure, At, JobType, Places, Returns, Verdicts
  <1>3. server' \in [Rows -> {"none", "up", "gone"}]
    BY DEF TypeInv, TypeOK, WalkConfigure, At
  <1>4. JobInv'
    BY ZenonT(40) DEF TypeInv, TypeOK, WalkConfigure, JobInv, WalkingOn, Ending, IsTerminal, Current,
       JobType, MatchType, At
  <1> QED BY <1>1, <1>2, <1>3, <1>4 DEF TypeInv, TypeOK, WalkConfigure, watch, mishaps

\* Walked keeps TypeInv.
LEMMA TypedWalked == ASSUME TypeInv, Walked PROVE TypeInv'
  <1>1. ~IsTerminal
    BY DEF TypeInv, JobInv, Walked, At
  <1>2. CASE /\ SetState("configuring") /\ Finished /\ UNCHANGED runtime
             /\ timers' = Heard((timers \ {"allocate"}) \cup {"boot"})
    <2>1. match' \in MatchType /\ timers' \subseteq Timers
      BY <1>2 DEF TypeInv, TypeOK, MatchType, States, Open, SetState, Heard, Timers
    <2>2. job' \in JobType /\ job'.pc = "idle" /\ job'.cand = None /\ job'.walk = "none"
      BY <1>2, IdleTyped DEF Finished
    <2>3. JobInv'
      BY <2>2 DEF JobInv, WalkingOn, Ending
    <2> QED BY <1>2, <2>1, <2>2, <2>3 DEF TypeInv, TypeOK, Walked, watch, mishaps
  <1>3. ASSUME NEW v \in {Failed("allocation_failed"), Failed("server_lost")},
               End(v), UNCHANGED <<match, runtime>>
        PROVE  TypeInv'
    BY <1>1, <1>3, OwnVerdicts, EndTyped DEF TypeInv, TypeOK, Walked, watch, mishaps
  <1>4. CASE /\ timers' = Heard(timers) /\ runtime' = [runtime EXCEPT !.recovering = FALSE]
             /\ Finished /\ UNCHANGED match
    <2>1. runtime' \in RuntimeType /\ timers' \subseteq Timers
      BY <1>4, HeardTyped DEF TypeInv, TypeOK, RuntimeType
    <2>2. job' \in JobType /\ job'.pc = "idle" /\ job'.cand = None /\ job'.walk = "none"
      BY <1>4, IdleTyped DEF Finished
    <2>3. JobInv'
      BY <2>2 DEF JobInv, WalkingOn, Ending
    <2> QED BY <1>4, <2>1, <2>2, <2>3 DEF TypeInv, TypeOK, Walked, watch, mishaps
  <1> QED BY <1>2, <1>3, <1>4 DEF Walked

\* LostState keeps TypeInv.
LEMMA TypedLostState == ASSUME TypeInv, LostState PROVE TypeInv'
  <1>1. match' \in MatchType /\ match'.state = "recovering" /\ match'.fleetServerId = Current
    BY DEF TypeInv, TypeOK, LostState, SetState, MatchType, States, Open, Current
  <1>2. job' \in JobType
    BY DEF TypeInv, TypeOK, LostState, JobType, Places, Returns
  <1>3. JobInv'
    BY <1>1 DEF TypeInv, TypeOK, LostState, At, JobInv, JobType, MatchType, WalkingOn, Ending,
       IsTerminal, Terminal, Current
  <1> QED BY <1>1, <1>2, <1>3 DEF TypeInv, TypeOK, LostState, watch, mishaps

\* LostClosed keeps TypeInv.
LEMMA TypedLostClosed == ASSUME TypeInv, LostClosed PROVE TypeInv'
  <1>1. ~IsTerminal /\ match' = match
    BY DEF TypeInv, JobInv, LostClosed, At, durable
  <1>2. CASE timers' = timers \cup {"recovery"} /\ KickRecovery /\ Finished
    <2>1. timers' \subseteq Timers /\ chain' \in Seq(StepType)
      BY <1>2, OwnSteps DEF TypeInv, TypeOK, Timers, KickRecovery
    <2>2. job' \in JobType /\ job'.pc = "idle" /\ job'.cand = None /\ job'.walk = "none"
      BY <1>2, IdleTyped DEF Finished
    <2>3. JobInv'
      BY <2>2 DEF JobInv, WalkingOn, Ending
    <2>4. runtime' \in RuntimeType
      BY <1>2 DEF TypeInv, TypeOK, KickRecovery, RuntimeType
    <2> QED BY <2>1, <2>2, <2>3, <2>4 DEF TypeInv, TypeOK, LostClosed, durable, watch, mishaps
  <1>3. CASE End(Failed("server_lost")) /\ UNCHANGED <<chain, runtime>>
    BY <1>1, <1>3, OwnVerdicts, EndTyped DEF TypeInv, TypeOK, LostClosed, durable, watch, mishaps
  <1> QED BY <1>2, <1>3 DEF LostClosed

\* Probe keeps TypeInv.
LEMMA TypedProbe == ASSUME TypeInv, Probe PROVE TypeInv'
  <1>1. chain' \in Seq(StepType) /\ match' = match
    BY HeadTyped DEF TypeInv, Probe
  <1>2. CASE UNCHANGED <<said, job, timers, runtime>>
    BY <1>1, <1>2, SameJob DEF TypeInv, TypeOK, Probe, watch, mishaps
  <1>3. CASE timers' = Heard(timers) /\ UNCHANGED <<said, job, runtime>>
    BY <1>1, <1>3, SameJob, HeardTyped DEF TypeInv, TypeOK, Probe, watch, mishaps
  <1>4. CASE match.state \in Probeable /\ Lost
    BY <1>1, <1>4, LostTyped DEF TypeInv, TypeOK, Probe, IsTerminal, Terminal, Probeable, watch, mishaps
  <1> QED BY <1>2, <1>3, <1>4 DEF Probe

\* Suspect keeps TypeInv.
LEMMA TypedSuspect == ASSUME TypeInv, Suspect PROVE TypeInv'
  <1>1. chain' \in Seq(StepType) /\ match' = match
    BY HeadTyped DEF TypeInv, Suspect
  <1>2. CASE UNCHANGED <<said, job, timers, runtime>>
    BY <1>1, <1>2, SameJob DEF TypeInv, TypeOK, Suspect, watch, mishaps
  <1>3. CASE match.state \in Probeable /\ Lost
    BY <1>1, <1>3, LostTyped DEF TypeInv, TypeOK, Suspect, IsTerminal, Terminal, Probeable, watch, mishaps
  <1> QED BY <1>2, <1>3 DEF Suspect

\* LiveState keeps TypeInv.
LEMMA TypedLiveState == ASSUME TypeInv, LiveState PROVE TypeInv'
  <1>1. match' \in MatchType
    BY DEF TypeInv, TypeOK, LiveState, At, MatchType, States, Open, Terminal, Reasons, SetState
  <1>2. job' \in JobType
    BY DEF TypeInv, TypeOK, LiveState, At, JobType, Places, Returns, Verdicts, Finished, IdleJob,
       NoEnd
  <1>3. JobInv'
    BY DEF TypeInv, TypeOK, LiveState, JobInv, WalkingOn, Ending, IsTerminal, Current, JobType,
       MatchType, Finished, IdleJob, NoEnd, SetState, At
  <1> QED BY <1>1, <1>2, <1>3 DEF TypeInv, TypeOK, LiveState, watch, mishaps

\* EventIgnored keeps TypeInv.
LEMMA TypedEventIgnored == ASSUME TypeInv, EventIgnored PROVE TypeInv'
  <1>1. chain' \in Seq(StepType)
    BY HeadTyped DEF TypeInv, TypeOK, EventIgnored, Begin, StepType
  <1>2. timers' \subseteq Timers
    BY DEF TypeInv, TypeOK, EventIgnored, Begin, Timers, Heard
  <1>3. JobInv'
    BY DEF TypeInv, TypeOK, EventIgnored, JobInv, WalkingOn, Ending, IsTerminal, Current, JobType,
       MatchType, Begin, durable
  <1> QED BY <1>1, <1>2, <1>3 DEF TypeInv, TypeOK, EventIgnored, durable, watch, mishaps

\* ServerReady keeps TypeInv.
LEMMA TypedServerReady == ASSUME TypeInv, ServerReady PROVE TypeInv'
  <1>1. chain' \in Seq(StepType)
    BY HeadTyped DEF TypeInv, ServerReady
  <1>2. timers' \subseteq Timers
    BY DEF TypeInv, TypeOK, ServerReady, Heard, Timers
  <1>3. CASE /\ ledger' = IF Current = None THEN ledger ELSE [ledger EXCEPT ![Current].state = "running"]
             /\ job' = [IdleJob EXCEPT !.pc = "ready_state"]
             /\ UNCHANGED unread
    <2>1. ledger' \in [Rows -> RowType]
      BY <1>3 DEF TypeInv, TypeOK, RowType
    <2>2. job' \in JobType /\ job'.pc = "ready_state" /\ job'.cand = None /\ job'.walk = "none"
      BY <1>3, PcSet DEF Places
    <2>3. JobInv'
      BY <2>2 DEF TypeInv, ServerReady, JobInv, WalkingOn, Ending, IsTerminal, Terminal
    <2> QED BY <1>1, <1>2, <1>3, <2>1, <2>2, <2>3 DEF TypeInv, TypeOK, ServerReady
  <1>4. CASE Current # None /\ unread' = unread \cup {Current} /\ UNCHANGED <<ledger, job>>
    <2>1. unread' \subseteq Rows
      BY <1>4 DEF TypeInv, TypeOK, MatchType, Current
    <2> QED BY <1>1, <1>2, <1>4, <2>1, SameJob DEF TypeInv, TypeOK, ServerReady
  <1> QED BY <1>3, <1>4 DEF ServerReady

\* ReadyState keeps TypeInv.
LEMMA TypedReadyState == ASSUME TypeInv, ReadyState PROVE TypeInv'
  <1>1. match' \in MatchType /\ match'.state \notin Terminal /\ match'.fleetServerId = Current
    BY DEF TypeInv, TypeOK, ReadyState, SetState, MatchType, States, Open, Terminal, Current
  <1>2. job' \in JobType
    BY DEF TypeInv, TypeOK, ReadyState, JobType, Places
  <1>3. JobInv'
    BY <1>1 DEF TypeInv, TypeOK, ReadyState, At, JobInv, JobType, WalkingOn, Ending, IsTerminal,
       Current
  <1> QED BY <1>1, <1>2, <1>3 DEF TypeInv, TypeOK, ReadyState, watch, mishaps

\* ReadyFact keeps TypeInv.
LEMMA TypedReadyFact == ASSUME TypeInv, ReadyFact PROVE TypeInv'
  <1>1. said' \in SaidType
    BY DEF TypeInv, TypeOK, ReadyFact, At, SaidType, Facts
  <1>2. timers' \subseteq Timers
    BY DEF TypeInv, TypeOK, ReadyFact, At, Timers
  <1>3. runtime' \in RuntimeType
    BY DEF TypeInv, TypeOK, ReadyFact, At, RuntimeType
  <1>4. job' \in JobType
    BY DEF TypeInv, TypeOK, ReadyFact, At, JobType, Places, Returns, Verdicts, IdleJob, NoEnd
  <1>5. JobInv'
    BY DEF TypeInv, TypeOK, ReadyFact, JobInv, WalkingOn, Ending, IsTerminal, Current, JobType,
       MatchType, IdleJob, NoEnd, At
  <1> QED BY <1>1, <1>2, <1>3, <1>4, <1>5 DEF TypeInv, TypeOK, ReadyFact, watch, mishaps

\* Resumed keeps TypeInv.
LEMMA TypedResumed == ASSUME TypeInv, Resumed PROVE TypeInv'
  <1>1. said' \in SaidType
    BY DEF TypeInv, TypeOK, Resumed, SaidType, Facts, Emit
  <1>2. timers' \subseteq Timers /\ runtime' \in RuntimeType
    BY DEF TypeInv, TypeOK, Resumed, RuntimeType
  <1>3. job' \in JobType /\ job'.pc = "live_state" /\ job'.cand = None /\ job'.walk = "none"
    BY PcSet DEF Resumed, Places
  <1>4. JobInv'
    BY <1>3 DEF TypeInv, Resumed, At, JobInv, WalkingOn, Ending, IsTerminal
  <1> QED BY <1>1, <1>2, <1>3, <1>4 DEF TypeInv, TypeOK, Resumed, watch, mishaps

\* GoingLive keeps TypeInv.
LEMMA TypedGoingLive == ASSUME TypeInv, GoingLive PROVE TypeInv'
  <1>1. chain' \in Seq(StepType)
    BY HeadTyped DEF TypeInv, GoingLive
  <1>2. timers' \subseteq Timers
    BY HeardTyped DEF TypeInv, GoingLive
  <1>3. logged' \in LoggedType /\ runtime' \in RuntimeType
    BY OnMapTyped DEF TypeInv, GoingLive
  <1>4. job' \in JobType /\ job'.pc = "live_state" /\ job'.cand = None /\ job'.walk = "none"
    BY PcSet DEF GoingLive, Places
  <1>5. JobInv'
    BY <1>4 DEF TypeInv, GoingLive, Accepts, JobInv, WalkingOn, Ending, IsTerminal
  <1> QED BY <1>1, <1>2, <1>3, <1>4, <1>5 DEF TypeInv, TypeOK, GoingLive, watch, mishaps

\* NextMap keeps TypeInv.
LEMMA TypedNextMap == ASSUME TypeInv, NextMap PROVE TypeInv'
  <1>1. chain' \in Seq(StepType)
    BY HeadTyped DEF TypeInv, NextMap
  <1>2. timers' \subseteq Timers
    BY HeardTyped DEF TypeInv, NextMap
  <1>3. logged' \in LoggedType /\ runtime' \in RuntimeType
    BY OnMapTyped DEF TypeInv, NextMap
  <1> QED BY <1>1, <1>2, <1>3, SameJob DEF TypeInv, TypeOK, NextMap, watch, mishaps

\* Sign keeps TypeInv.
LEMMA TypedSign == ASSUME TypeInv, Sign PROVE TypeInv'
  <1>1. chain' \in Seq(StepType) /\ Head(chain).from \in Rows \cup {None}
    BY HeadTyped DEF TypeInv, Sign, StepType
  <1>2. ~IsTerminal /\ timers' \subseteq Timers
    BY HeardTyped DEF Sign, Accepts, TypeInv
  <1>3. logged' \in LoggedType /\ runtime' \in RuntimeType
    <2>1. PICK m \in IF Head(chain).kind = "going_live" THEN MapsSaid ELSE {NoMap} :
            /\ logged' = [logged EXCEPT !.map = MapOr(m, @)]
            /\ runtime' = [runtime EXCEPT
                   !.currentMap    = MapOr(m, @),
                   !.resumePending = IF runtime.replacementReady THEN @ ELSE Head(chain).from]
      BY DEF Sign
    <2>2. m \in Maps \/ m = NoMap
      BY MapsTyped
    <2>3. MapOr(m, logged.map) \in Maps /\ MapOr(m, runtime.currentMap) \in Maps
      BY <2>2 DEF MapOr, TypeInv, TypeOK, LoggedType, RuntimeType
    <2> QED BY <1>1, <2>1, <2>3 DEF TypeInv, TypeOK, LoggedType, RuntimeType
  <1>4. job' \in JobType /\ job'.pc \in {"resumed", "idle"} /\ job'.cand = None /\ job'.walk = "none"
    BY PcSet, IdleTyped DEF Sign, Places
  <1>5. JobInv'
    BY <1>2, <1>4 DEF Sign, JobInv, WalkingOn, Ending, IsTerminal
  <1> QED BY <1>1, <1>2, <1>3, <1>4, <1>5 DEF TypeInv, TypeOK, Sign, watch, mishaps

\* SeriesEnd keeps TypeInv.
LEMMA TypedSeriesEnd == ASSUME TypeInv, SeriesEnd PROVE TypeInv'
  <1>1. chain' \in Seq(StepType) /\ match' = match /\ ~IsTerminal
    BY HeadTyped DEF TypeInv, SeriesEnd, Accepts
  <1>2. logged' \in LoggedType
    BY DEF TypeInv, TypeOK, SeriesEnd, LoggedType
  <1>3. CASE /\ runtime' = [runtime EXCEPT !.awaitingDemo = TRUE]
             /\ timers' = Heard(timers) \cup {"demo"} /\ UNCHANGED job
    <2>1. runtime' \in RuntimeType /\ timers' \subseteq Timers
      BY <1>3 DEF TypeInv, TypeOK, RuntimeType, Heard, Timers
    <2> QED BY <1>1, <1>2, <1>3, <2>1, SameJob DEF TypeInv, TypeOK, SeriesEnd, watch, mishaps
  <1>4. CASE End(Ended("completed")) /\ UNCHANGED runtime
    BY <1>1, <1>2, <1>4, OwnVerdicts, EndTyped DEF TypeInv, TypeOK, SeriesEnd, watch, mishaps
  <1> QED BY <1>3, <1>4 DEF SeriesEnd

\* DemoAvailable keeps TypeInv.
LEMMA TypedDemoAvailable == ASSUME TypeInv, DemoAvailable PROVE TypeInv'
  <1>1. chain' \in Seq(StepType) /\ match' = match /\ ~IsTerminal
    BY HeadTyped DEF TypeInv, DemoAvailable, Accepts
  <1>2. logged' \in LoggedType /\ runtime' \in RuntimeType
    <2>1. PICK m \in 1..logged.map :
            /\ logged'  = [logged EXCEPT !.demos = @ \cup {m}, !.announced = @ + 1]
            /\ runtime' = [runtime EXCEPT !.seen = @ \cup {<<Head(chain).from, m>>},
                                          !.announced = @ + 1,
                                          !.awaitingDemo = @ /\ DemoPending(runtime.announced + 1)]
      BY DEF DemoAvailable
    <2>2. m \in Maps
      BY MachineAssumption DEF TypeInv, TypeOK, LoggedType, Maps
    <2>3. Head(chain).from \in Rows \cup {None}
      BY HeadTyped DEF TypeInv, DemoAvailable, StepType
    <2>4. DemoPending(runtime.announced + 1) \in BOOLEAN
      BY DEF DemoPending
    <2>5. logged' \in LoggedType
      <3>1. logged.demos \cup {m} \subseteq Maps /\ logged.announced + 1 \in Nat
        BY <2>2 DEF TypeInv, TypeOK, LoggedType
      <3> QED BY <2>1, <3>1 DEF TypeInv, TypeOK, LoggedType
    <2>6. /\ runtime.seen \cup {<<Head(chain).from, m>>} \subseteq (Rows \cup {None}) \X Maps
          /\ runtime.announced + 1 \in Nat
          /\ (runtime.awaitingDemo /\ DemoPending(runtime.announced + 1)) \in BOOLEAN
      BY <2>2, <2>3, <2>4 DEF TypeInv, TypeOK, RuntimeType
    <2> QED BY <2>1, <2>5, <2>6 DEF TypeInv, TypeOK, RuntimeType
  <1>3. CASE timers' = Heard(timers) /\ UNCHANGED job
    BY <1>1, <1>2, <1>3, SameJob, HeardTyped DEF TypeInv, TypeOK, DemoAvailable, watch, mishaps
  <1>4. CASE End(Ended("completed"))
    BY <1>1, <1>2, <1>4, OwnVerdicts, EndTyped DEF TypeInv, TypeOK, DemoAvailable, watch, mishaps
  <1> QED BY <1>3, <1>4 DEF DemoAvailable

\* Reprovision keeps TypeInv.
LEMMA TypedReprovision == ASSUME TypeInv, Reprovision PROVE TypeInv'
  <1>1. chain' \in Seq(StepType)
    BY HeadTyped DEF TypeInv, Reprovision
  <1>2. CASE UNCHANGED <<said, job, timers, runtime>>
    BY <1>1, <1>2, SameJob DEF TypeInv, TypeOK, Reprovision, watch, mishaps
  <1>3. CASE match.state = "live" /\ LostFromLive
    BY <1>1, <1>3, LostFromLiveTyped DEF TypeInv, TypeOK, Reprovision, watch, mishaps, IsTerminal, Terminal
  <1>4. CASE /\ match.state \in Open \ {"live", "recovering"}
             /\ timers' = timers \ {"allocate", "boot", "join", "heartbeat"}
             /\ job' = [IdleJob EXCEPT !.after = "reprovision_clear",
                           !.pc = IF Current = None THEN "reprovision_clear" ELSE "deallocate"]
             /\ UNCHANGED <<said, runtime>>
    <2> DEFINE p == IF Current = None THEN "reprovision_clear" ELSE "deallocate"
    <2>1. job' \in JobType /\ job'.pc = p /\ job'.after = "reprovision_clear" /\ job'.cand = None
          /\ job'.walk = "none"
      <3>1. p \in Places /\ "reprovision_clear" \in Returns
        BY DEF Places, Returns
      <3>2. job' = [IdleJob EXCEPT !.after = "reprovision_clear", !.pc = p]
        BY <1>4
      <3> HIDE DEF p
      <3> QED BY <3>1, <3>2, AfterSet
    <2>2. Current \in Rows \cup {None} /\ match.state \notin Terminal
      BY <1>4 DEF TypeInv, TypeOK, MatchType, Current, Open, Terminal
    <2>3. JobInv'
      BY <2>1, <2>2 DEF JobInv, WalkingOn, Ending, IsTerminal, Current, Reprovision
    <2> QED BY <1>1, <1>4, <2>1, <2>3 DEF TypeInv, TypeOK, Reprovision, watch, mishaps
  <1> QED BY <1>2, <1>3, <1>4 DEF Reprovision

\* ReprovisionClear keeps TypeInv.
LEMMA TypedReprovisionClear == ASSUME TypeInv, ReprovisionClear PROVE TypeInv'
  <1>1. match' \in MatchType
    BY DEF TypeInv, TypeOK, ReprovisionClear, At, MatchType, States, Open, Terminal, Reasons
  <1>2. job' \in JobType
    BY DEF TypeInv, TypeOK, ReprovisionClear, At, JobType, Places, Returns, Verdicts
  <1>3. JobInv'
    BY DEF TypeInv, TypeOK, ReprovisionClear, JobInv, WalkingOn, Ending, IsTerminal, Current,
       JobType, MatchType, At
  <1> QED BY <1>1, <1>2, <1>3 DEF TypeInv, TypeOK, ReprovisionClear, watch, mishaps

\* ReprovisionState keeps TypeInv.
LEMMA TypedReprovisionState == ASSUME TypeInv, ReprovisionState PROVE TypeInv'
  <1>1. match' \in MatchType
    BY DEF TypeInv, TypeOK, ReprovisionState, At, MatchType, States, Open, Terminal, Reasons,
       SetState, Step
  <1>2. chain' \in Seq(StepType)
    BY DEF TypeInv, TypeOK, ReprovisionState, At, StepType, Step, Kinds
  <1>3. job' \in JobType
    BY DEF TypeInv, TypeOK, ReprovisionState, At, JobType, Places, Returns, Verdicts, Finished,
       IdleJob, NoEnd, Step
  <1>4. JobInv'
    BY DEF TypeInv, TypeOK, ReprovisionState, JobInv, WalkingOn, Ending, IsTerminal, Current,
       JobType, MatchType, Finished, IdleJob, NoEnd, SetState, At, Step
  <1> QED BY <1>1, <1>2, <1>3, <1>4 DEF TypeInv, TypeOK, ReprovisionState, watch, mishaps

\* Restore keeps TypeInv.
LEMMA TypedRestore == ASSUME TypeInv, Restore PROVE TypeInv'
  <1>1. chain' \in Seq(StepType)
    BY HeadTyped, OwnSteps DEF TypeInv, Restore
  <1>2. runtime' \in RuntimeType
    BY DEF TypeInv, TypeOK, Restore, RuntimeType
  <1> QED BY <1>1, <1>2, SameJob DEF TypeInv, TypeOK, Restore, durable, watch, mishaps

\* PauseOrUnpause keeps TypeInv.
LEMMA TypedPauseOrUnpause == ASSUME TypeInv, PauseOrUnpause PROVE TypeInv'
  <1>1. chain' \in Seq(StepType)
    BY HeadTyped DEF TypeInv, TypeOK, PauseOrUnpause, Begin, StepType
  <1>2. timers' \subseteq Timers
    BY DEF TypeInv, TypeOK, PauseOrUnpause, Begin, Timers
  <1>3. runtime' \in RuntimeType
    <2>1. \/ runtime' = runtime
          \/ runtime' = [runtime EXCEPT !.paused = TRUE]
          \/ runtime' = [runtime EXCEPT !.paused = FALSE]
      BY DEF PauseOrUnpause
    <2> QED BY <2>1 DEF TypeInv, TypeOK, RuntimeType
  <1>4. JobInv'
    BY DEF TypeInv, TypeOK, PauseOrUnpause, JobInv, WalkingOn, Ending, IsTerminal, Current,
       JobType, MatchType, Begin, durable
  <1> QED BY <1>1, <1>2, <1>3, <1>4 DEF TypeInv, TypeOK, PauseOrUnpause, durable, watch, mishaps

\* OrphanFact keeps TypeInv.
LEMMA TypedOrphanFact == ASSUME TypeInv, OrphanFact PROVE TypeInv'
  <1>1. chain' \in Seq(StepType)
    BY HeadTyped DEF TypeInv, TypeOK, OrphanFact, Begin, StepType
  <1>2. JobInv'
    BY DEF TypeInv, TypeOK, OrphanFact, JobInv, WalkingOn, Ending, IsTerminal, Current, JobType,
       MatchType, Begin, durable
  <1> QED BY <1>1, <1>2 DEF TypeInv, TypeOK, OrphanFact, durable, watch, mishaps

\* Fire keeps TypeInv.
LEMMA TypedFire == ASSUME TypeInv, NEW t \in Timers, Fire(t) PROVE TypeInv'
  <1>1. chain' \in Seq(StepType) /\ timers' \subseteq Timers
    BY StepTyped DEF TypeInv, TypeOK, Fire, Outsider, Kinds
  <1> QED BY <1>1, SameJob DEF TypeInv, TypeOK, Fire, durable, watch, mishaps

\* Say keeps TypeInv.
LEMMA TypedSay == ASSUME TypeInv, MachineAssumption, NEW r \in Rows, NEW e \in Said, Say(r, e) PROVE TypeInv'
  <1>1. chain' \in Seq(StepType)
    BY StepTyped, MachineAssumption DEF TypeInv, TypeOK, Say, Outsider, Kinds
  <1> QED BY <1>1, SameJob DEF TypeInv, TypeOK, Say, durable, watch, mishaps

\* Touch keeps TypeInv.
LEMMA TypedTouch == ASSUME TypeInv, NEW r \in Rows, Touch(r) PROVE TypeInv'
  BY SameJob, HeardTyped DEF TypeInv, TypeOK, Touch, durable, watch, mishaps

\* Backup keeps TypeInv.
LEMMA TypedBackup == ASSUME TypeInv, NEW r \in Rows, Backup(r) PROVE TypeInv'
  BY SameJob DEF TypeInv, TypeOK, Backup, memory, watch, mishaps

\* Ask keeps TypeInv.
LEMMA TypedAsk == ASSUME TypeInv, NEW c \in Asked, Ask(c) PROVE TypeInv'
  <1>1. chain' \in Seq(StepType)
    BY StepTyped, MachineAssumption DEF TypeInv, TypeOK, Ask, Outsider, Kinds
  <1> QED BY <1>1, SameJob DEF TypeInv, TypeOK, Ask, durable, watch, mishaps

\* Die keeps TypeInv.
LEMMA TypedDie == ASSUME TypeInv, NEW r \in Rows, Die(r) PROVE TypeInv'
  <1>1. server' \in [Rows -> {"none", "up", "gone"}]
    BY DEF TypeInv, TypeOK, Die
  <1> QED BY <1>1, SameJob DEF TypeInv, TypeOK, Die, durable, memory, watch, mishaps

\* OperatorRelease keeps TypeInv.
LEMMA TypedOperatorRelease == ASSUME TypeInv, NEW r \in Rows, OperatorRelease(r) PROVE TypeInv'
  <1>1. chain' \in Seq(StepType)
    BY OwnSteps DEF TypeInv, TypeOK, OperatorRelease, Outsider
  <1>2. ledger' \in [Rows -> RowType]
    BY DEF TypeInv, TypeOK, OperatorRelease, CloseOf, RowType
  <1>3. server' \in [Rows -> {"none", "up", "gone"}]
    BY DEF TypeInv, TypeOK, OperatorRelease
  <1> QED BY <1>1, <1>2, <1>3, SameJob DEF TypeInv, TypeOK, OperatorRelease, watch, mishaps

\* ReaperLook keeps TypeInv.
LEMMA TypedReaperLook == ASSUME TypeInv, ReaperLook PROVE TypeInv'
  <1>1. chain' \in Seq(StepType)
    BY OwnSteps DEF TypeInv, TypeOK, ReaperLook
  <1>2. reaper' \in ReaperType
    BY DEF TypeInv, TypeOK, ReaperLook, ReaperType
  <1> QED BY <1>1, <1>2, SameJob DEF TypeInv, TypeOK, ReaperLook, durable, mishaps

\* ReaperList keeps TypeInv.
LEMMA TypedReaperList == ASSUME TypeInv, NEW due \in SUBSET Rows, ReaperList(due) PROVE TypeInv'
  <1>1. chain' \in Seq(StepType)
    BY OwnSteps DEF TypeInv, TypeOK, ReaperList
  <1>2. reaper' \in ReaperType /\ server' \in [Rows -> {"none", "up", "gone"}]
    BY DEF TypeInv, TypeOK, ReaperList, ReaperType
  <1> QED BY <1>1, <1>2, SameJob DEF TypeInv, TypeOK, ReaperList, durable, mishaps

\* ReaperBlind keeps TypeInv.
LEMMA TypedReaperBlind == ASSUME TypeInv, ReaperBlind PROVE TypeInv'
  <1>1. reaper' \in ReaperType
    BY DEF TypeInv, TypeOK, ReaperBlind, ReaperType
  <1> QED BY <1>1, SameJob DEF TypeInv, TypeOK, ReaperBlind, durable, memory, mishaps

\* Crash keeps TypeInv.
LEMMA TypedCrash == ASSUME TypeInv, Crash PROVE TypeInv'
  <1>1. job' = IdleJob /\ runtime' = NewRuntime /\ chain' = <<>> /\ reaper' \in ReaperType
    BY DEF Crash, ReaperType
  <1>2. job' \in JobType /\ JobInv'
    BY <1>1, IdleTyped DEF JobInv, WalkingOn, Ending
  <1>3. NewRuntime \in RuntimeType /\ <<>> \in Seq(StepType)
    BY MapsTyped DEF RuntimeType, NewRuntime
  <1>4. /\ crashes' \in Nat
        /\ faults' \in Nat
        /\ up' \in BOOLEAN
        /\ timers' \subseteq Timers
    <2>1. up' = FALSE /\ timers' = {}
      BY DEF Crash
    <2>2. crashes' = crashes + 1 /\ faults' = faults /\ crashes \in Nat /\ faults \in Nat
      BY DEF Crash, TypeInv, TypeOK
    <2>3. up' \in BOOLEAN
      BY <2>1
    <2>4. timers' \subseteq Timers
      BY <2>1
    <2>5. crashes' \in Nat /\ faults' \in Nat
      BY <2>2
    <2> QED BY <2>3, <2>4, <2>5
  <1>5. chain' \in Seq(StepType) /\ runtime' \in RuntimeType
    BY <1>1, <1>3
  <1> QED BY <1>1, <1>2, <1>4, <1>5 DEF TypeInv, TypeOK, Crash, durable

\* StoreFails keeps TypeInv.
LEMMA TypedStoreFails == ASSUME TypeInv, StoreFails PROVE TypeInv'
  <1>1. runtime' \in RuntimeType /\ chain' \in Seq(StepType)
    <2>1. CASE /\ chain # <<>> /\ chain' = Tail(chain)
               /\ runtime' = [runtime EXCEPT !.recovering = @ /\ Head(chain).kind # "recover"]
      <3>1. chain' \in Seq(StepType)
        BY <2>1 DEF TypeInv, TypeOK
      <3>2. runtime' \in RuntimeType
        BY <2>1 DEF TypeInv, TypeOK, RuntimeType
      <3> QED BY <3>1, <3>2
    <2>2. CASE /\ runtime' = [runtime EXCEPT !.recovering = @ /\ job.walk # "recover"]
               /\ UNCHANGED chain
      BY <2>2 DEF TypeInv, TypeOK, RuntimeType
    <2> QED BY <2>1, <2>2 DEF StoreFails
  <1>2. CASE UNCHANGED job
    BY <1>1, <1>2, SameJob DEF TypeInv, TypeOK, StoreFails, durable
  <1>3. CASE job' = IdleJob
    <2>1. job' \in JobType /\ JobInv'
      BY <1>3, IdleTyped DEF JobInv, WalkingOn, Ending
    <2> QED BY <1>1, <2>1 DEF TypeInv, TypeOK, StoreFails, durable
  <1> QED BY <1>2, <1>3 DEF StoreFails

\* Resume keeps TypeInv.
LEMMA TypedResume == ASSUME TypeInv, Resume PROVE TypeInv'
  <1>1. timers' \subseteq Timers
    BY DEF Resume, ResumeTimers, Timers
  <1>2. chain' \in Seq(StepType)
    BY OwnSteps DEF Resume, ResumeChain
  <1>3. runtime' \in RuntimeType
    <2> DEFINE recovers == RerunsWalk
               ready    == (match.state = "recovering" /\ ReplacementRuns)
               waits    == ReplaysWait
               map      == IF ReadsLog THEN logged.map ELSE 1
               count    == IF ReadsLog THEN logged.announced ELSE 0
    <2>1. recovers \in BOOLEAN /\ ready \in BOOLEAN /\ waits \in BOOLEAN
      BY DEF RerunsWalk, ReplacementRuns, ReplaysWait, ReplaysSeries
    <2>2. map \in Maps /\ count \in Nat
      BY MapsTyped DEF TypeInv, TypeOK, LoggedType
    <2>3. runtime' = [NewRuntime EXCEPT !.recovering = recovers, !.replacementReady = ready,
                                        !.awaitingDemo = waits, !.currentMap = map,
                                        !.announced = count]
      BY Zenon DEF Resume
    <2>4. NewRuntime \in RuntimeType
      BY MapsTyped DEF NewRuntime, RuntimeType
    <2> HIDE DEF recovers, ready, waits, map, count
    <2> QED BY <2>1, <2>2, <2>3, <2>4 DEF RuntimeType
  <1>4. forgot' \in BOOLEAN
    BY DEF Resume, TypeInv, TypeOK
  <1> QED BY <1>1, <1>2, <1>3, <1>4, SameJob DEF TypeInv, TypeOK, Resume, durable, watch, mishaps

-----------------------------------------------------------------------------
(* What follows for every behaviour.                                       *)

\* A match is created well typed.
LEMMA InitTyped == Init => TypeInv
  <1> SUFFICES ASSUME Init PROVE TypeInv
    OBVIOUS
  <1>1. match \in MatchType /\ ledger \in [Rows -> RowType] /\ said \in SaidType
    BY DEF Init, MatchType, RowType, SaidType, States, Open, Facts
  <1>2. job \in JobType /\ JobInv
    BY IdleTyped DEF Init, JobInv, WalkingOn, Ending
  <1>3. chain \in Seq(StepType) /\ timers \subseteq Timers
    BY OwnSteps DEF Init, Timers
  <1>4. runtime \in RuntimeType /\ reaper \in ReaperType
    BY MapsTyped DEF Init, NewRuntime, RuntimeType, ReaperType
  <1>5. /\ backup \in BOOLEAN /\ up \in BOOLEAN /\ logged \in LoggedType
        /\ unread \subseteq Rows /\ forgot \in BOOLEAN
    BY MapsTyped DEF Init, LoggedType
  <1>6. crashes \in Nat /\ faults \in Nat /\ server \in [Rows -> {"none", "up", "gone"}]
    BY DEF Init
  <1> QED BY <1>1, <1>2, <1>3, <1>4, <1>5, <1>6 DEF TypeInv, TypeOK

\* Whatever happens next, the state stays well typed.
LEMMA NextTyped == TypeInv /\ [Next]_vars => TypeInv'
  <1> SUFFICES ASSUME TypeInv, [Next]_vars PROVE TypeInv'
    OBVIOUS
  <1>1. CASE UNCHANGED vars
    BY <1>1, SameJob DEF TypeInv, TypeOK, vars, durable, memory, watch, mishaps
  <1>2. CASE Handlers
    BY <1>2, TypedEndStep, TypedDeallocate, TypedCloseRow, TypedEndFact, TypedProvision, TypedRecover,
       TypedWalkInsert, TypedWalkStop, TypedWalkPoint, TypedWalkAllocate, TypedWalkBind,
       TypedWalkTake, TypedWalkTell, TypedWalkConfigure, TypedWalked, TypedLostState,
       TypedLostClosed, TypedProbe, TypedSuspect, TypedLiveState, TypedEventIgnored,
       TypedServerReady, TypedReadyState, TypedReadyFact, TypedResumed, TypedGoingLive,
       TypedNextMap, TypedSign, TypedSeriesEnd, TypedDemoAvailable, TypedReprovision, TypedReprovisionClear,
       TypedReprovisionState, TypedRestore, TypedPauseOrUnpause, TypedOrphanFact
       DEF Handlers
  <1>3. CASE Clock \/ Servers \/ Clients \/ Operators
    BY <1>3, MachineAssumption, TypedFire, TypedTouch, TypedBackup, TypedDie, TypedSay, TypedAsk,
       TypedOperatorRelease DEF Clock, Servers, Clients, Operators
  <1>4. CASE Reaper
    BY <1>4, TypedReaperLook, TypedReaperList, TypedReaperBlind DEF Reaper
  <1>5. CASE StoreFails \/ Crash \/ Resume
    BY <1>5, TypedStoreFails, TypedCrash, TypedResume
  <1> QED BY <1>1, <1>2, <1>3, <1>4, <1>5 DEF Next, Living

\* TypeInv holds in every state of every behaviour, deaths and store failures included.
THEOREM TypeInvariant == Spec => []TypeInv
  BY InitTyped, NextTyped, PTL DEF Spec

\* Every variable keeps its type: no interleaving, death or failed store call leaves the match
\* in a state, or with a reason, the API does not name.
THEOREM TypeCorrect == Spec => []TypeOK
  <1>1. TypeInv => TypeOK
    BY DEF TypeInv
  <1> QED BY <1>1, TypeInvariant, PTL

-----------------------------------------------------------------------------
(* An ended match stays as it ended.                                       *)

Settled ==
    IsTerminal =>
          /\ match' = match
          /\ said'.fact = said.fact
          /\ \A r \in Rows : ledger[r].state = "none" => ledger'[r].state = "none"

\* A handler that is not done does not stand on an ended match; one that begins on it leaves.
LEMMA NextSettled == TypeInv /\ [Next]_vars => Settled
  <1> SUFFICES ASSUME TypeInv, [Next]_vars, IsTerminal
               PROVE  /\ match' = match
                      /\ said'.fact = said.fact
                      /\ \A r \in Rows : ledger[r].state = "none" => ledger'[r].state = "none"
    BY DEF Settled
  <1>1. job.pc = "idle"
    BY DEF TypeInv, JobInv
  <1>2. match.state \notin Open
    BY DEF IsTerminal, Terminal, Open
  <1>3. \/ UNCHANGED <<match, said, ledger>>
        \/ UNCHANGED <<match, said>> /\ \E r \in Rows : IsOpen(r) /\ ledger' = CloseOf(r)
    <2>1. CASE UNCHANGED vars
      BY <2>1 DEF vars, durable
    <2>2. CASE EndStep \/ Deallocate \/ CloseRow \/ EndFact \/ Provision \/ Recover
      BY <1>1, <1>2, <2>2 DEF EndStep, Deallocate, CloseRow, EndFact, Provision, Recover, At, durable, Open
    <2>3. CASE WalkStop \/ WalkPoint \/ WalkAllocate \/ WalkBind \/ WalkTake \/ WalkTell
               \/ WalkConfigure \/ Walked \/ \E r \in Rows : WalkInsert(r)
      BY <1>1, <2>3 DEF WalkStop, WalkPoint, WalkAllocate, WalkBind, WalkTake, WalkTell, WalkConfigure,
         Walked, WalkInsert, At
    <2>4. CASE LostState \/ LostClosed \/ LiveState \/ ReadyState \/ ReadyFact \/ Resumed
               \/ ReprovisionClear \/ ReprovisionState
      BY <1>1, <2>4 DEF LostState, LostClosed, LiveState, ReadyState, ReadyFact, Resumed,
         ReprovisionClear, ReprovisionState, At
    <2>5. CASE Probe \/ Suspect
      BY <1>2, <2>5 DEF Probe, Suspect, Probeable, Open
    <2>6. CASE EventIgnored \/ ServerReady \/ GoingLive \/ NextMap \/ Sign \/ SeriesEnd \/ DemoAvailable
      BY <2>6 DEF EventIgnored, ServerReady, GoingLive, NextMap, Sign, SeriesEnd, DemoAvailable, Accepts, durable
    <2>7. CASE Reprovision \/ Restore \/ PauseOrUnpause \/ OrphanFact
      BY <1>2, <2>7 DEF Reprovision, Restore, PauseOrUnpause, OrphanFact, Open, durable, LostFromLive
    <2>8. CASE Clock \/ Servers \/ Clients
      BY <2>8 DEF Clock, Servers, Clients, Fire, Touch, Backup, Die, Say, Ask, durable
    <2>9. CASE Operators
      BY <2>9 DEF Operators, OperatorRelease
    <2>10. CASE Reaper \/ StoreFails \/ Crash \/ Resume
      BY <2>10 DEF Reaper, ReaperLook, ReaperList, ReaperBlind, StoreFails, Crash, Resume, durable
    <2> QED BY <2>1, <2>2, <2>3, <2>4, <2>5, <2>6, <2>7, <2>8, <2>9, <2>10 DEF Next, Living, Handlers
  <1>4. ASSUME NEW r \in Rows, IsOpen(r), ledger' = CloseOf(r), NEW q \in Rows, ledger[q].state = "none"
        PROVE  ledger'[q].state = "none"
    BY <1>4 DEF IsOpen, CloseOf, TypeInv, TypeOK, RowType
  <1> QED BY <1>3, <1>4

\* A match ends once and for ever: a late event, a deadline already queued, a restart or an
\* operator changes neither its state nor its reason nor its last fact, nor gets it a server.
THEOREM EndIsFinal == Spec => StaysEnded
  BY TypeInvariant, NextSettled, PTL DEF Spec, StaysEnded, Settled

-----------------------------------------------------------------------------
(***************************************************************************)
(* How many servers a match can have open.                                 *)
(*                                                                         *)
(* RowInv counts the rows the match can have open at each place of a       *)
(* handler. A step that is cut short between two writes leaves at most the *)
(* row it was on behind, so the count grows with the mishaps only.         *)
(***************************************************************************)

\* As many as the mishaps so far, at most.
Few(S)  == Cardinality(S) <= crashes + faults
\* The places at which the match points at the candidate.
Holding == {"allocate", "bind", "take", "allocated", "configure"}
\* The places at which the old row is given back and no new one asked for.
Between == {"reprovision_clear", "reprovision_state"}
\* Past the walk of a match: none is to come without a loss or a reprovision first.
Late(j) ==
    \/ j.pc \in {"lost_closed", "ready_fact"}
    \/ j.pc \in {"deallocate", "close"} /\ j.after = "lost_closed"

\* The rows the match can have open at each place of a handler.
RowInv ==
    /\ job.pc \in Holding => Current = job.cand
    /\ job.pc \in WalkingOn \cup {"next"} => Few(OpenRows \ {job.cand})
    /\ job.pc = "walked" /\ ~job.found => Few(OpenRows)
    /\ job.pc \in Between => Few(OpenRows)
    /\ job.pc = "idle" /\ match.state \in {"pending", "allocating"} => Few(OpenRows)
    /\ Late(job) => match.state \notin {"pending", "allocating"}
    /\ Few(OpenRows \ {Current, job.cand})
    /\ job.pc = "end" => ~HasOpenServer
    /\ IsTerminal => ~HasOpenServer

-----------------------------------------------------------------------------
(* Counting rows.                                                          *)

\* A set of rows within another counts no more.
LEMMA FewerRows ==
  ASSUME NEW S, NEW T \in SUBSET Rows, S \subseteq T, NEW n \in Nat, Cardinality(T) <= n
  PROVE  Cardinality(S) <= n
  <1>1. IsFiniteSet(T) /\ IsFiniteSet(S)
    BY MachineAssumption, FS_Subset
  <1>2. Cardinality(S) <= Cardinality(T)
    BY <1>1, FS_Subset
  <1> QED BY <1>1, <1>2, FS_CardinalityType

\* One row more counts at most one more.
LEMMA OneMoreRow ==
  ASSUME NEW S, NEW T \in SUBSET Rows, NEW x, S \subseteq T \cup {x}, NEW n \in Nat, Cardinality(T) <= n
  PROVE  Cardinality(S) <= n + 1
  <1>1. IsFiniteSet(T)
    BY MachineAssumption, FS_Subset
  <1>2. IsFiniteSet(T \cup {x}) /\ Cardinality(T \cup {x}) <= Cardinality(T) + 1
    <2>1. Cardinality(T) \in Nat
      BY <1>1, FS_CardinalityType
    <2>2. /\ IsFiniteSet(T \cup {x})
          /\ Cardinality(T \cup {x}) = IF x \in T THEN Cardinality(T) ELSE Cardinality(T) + 1
      BY <1>1, FS_AddElement
    <2> QED BY <2>1, <2>2
  <1>3. IsFiniteSet(S) /\ Cardinality(S) <= Cardinality(T \cup {x})
    BY <1>2, FS_Subset
  <1> QED BY <1>1, <1>2, <1>3, FS_CardinalityType

\* Fewer than few is few.
LEMMA FewerIsFew ==
  ASSUME TypeInv, NEW S, NEW T \in SUBSET Rows, S \subseteq T, Few(T) PROVE Few(S)
  BY FewerRows DEF Few, TypeInv, TypeOK

-----------------------------------------------------------------------------
(* Steps of a kind: each handler is one of these, or opens or closes a row.   *)

\* A step that leaves match, ledger and handler alone.
LEMMA SameRows ==
  ASSUME RowInv, UNCHANGED <<ledger, match, job, crashes, faults>>
  PROVE  RowInv'
  BY DEF RowInv, Few, OpenRows, IsOpen, HasOpenServer, Current, IsTerminal, Late

\* A handler that goes on, or is done with a match that is past its walk.
LEMMA QuietMove ==
  ASSUME TypeInv, RowInv, UNCHANGED <<crashes, faults>>, OpenRows' \subseteq OpenRows,
         match'.fleetServerId = match.fleetServerId,
         job.cand = None, job'.cand = None,
         job'.pc \notin WalkingOn \cup {"next", "walked", "end"} \cup Between,
         job'.pc = "idle" \/ Late(job') => match'.state \notin {"pending", "allocating"},
         match'.state \notin Terminal
  PROVE  RowInv'
  <1>1. Current' = Current /\ Few(OpenRows \ {Current, job.cand})
    BY DEF Current, RowInv
  <1>2. (OpenRows \ {Current, job.cand})' \subseteq OpenRows \ {Current, job.cand}
    BY <1>1
  <1>3. Few((OpenRows \ {Current, job.cand})')
    BY <1>1, <1>2, FewerIsFew DEF OpenRows
  <1> QED BY <1>3 DEF RowInv, Few, Between, Holding, WalkingOn, IsTerminal

\* An end begun.
LEMMA EndMove ==
  ASSUME TypeInv, RowInv, UNCHANGED <<ledger, match, crashes, faults>>, job.cand = None, ~IsTerminal,
         NEW v, End(v)
  PROVE  RowInv'
  <1>1. job' = [pc |-> IF Current = None THEN "end" ELSE "deallocate", after |-> "end", ending |-> v,
            walk |-> "none", cand |-> None, found |-> FALSE]
    BY DEF End, IdleJob
  <1>2. /\ job'.cand = None
        /\ job'.pc = IF Current = None THEN "end" ELSE "deallocate"
        /\ job'.after = "end"
    BY <1>1
  <1> QED BY <1>2 DEF RowInv, Few, Between, Holding, OpenRows, IsOpen, HasOpenServer, Current,
                      IsTerminal, WalkingOn, Late

\* A walk that goes on, with at most the candidate it stands on.
LEMMA WalkMove ==
  ASSUME TypeInv, RowInv, UNCHANGED <<crashes, faults>>,
         job.pc \in WalkingOn \cup {"next"}, job'.pc \in WalkingOn \cup {"next"},
         (OpenRows \ {job.cand})' \subseteq OpenRows \ {job.cand},
         job'.pc \in Holding => Current' = job'.cand,
         match'.state = match.state
  PROVE  RowInv'
  <1>1. Few(OpenRows \ {job.cand}) /\ ~IsTerminal
    BY DEF RowInv, TypeInv, JobInv, WalkingOn
  <1>2. (OpenRows \ {Current, job.cand})' \subseteq OpenRows \ {job.cand}
    OBVIOUS
  <1>3. Few((OpenRows \ {job.cand})') /\ Few((OpenRows \ {Current, job.cand})')
    BY <1>1, <1>2, FewerIsFew DEF OpenRows
  <1> QED BY <1>1, <1>3 DEF RowInv, Few, Late, WalkingOn, Between, Holding, IsTerminal

-----------------------------------------------------------------------------
(* Every action keeps RowInv.                                              *)

\* CloseRow keeps RowInv.
LEMMA RowsCloseRow == ASSUME TypeInv, RowInv, CloseRow PROVE RowInv'
  <1>1. job.pc = "close" /\ job.cand = None /\ job'.cand = None /\ job'.pc = job.after /\ Current \in Rows
    BY DEF CloseRow, At, TypeInv, TypeOK, JobInv, WalkingOn, JobType
  <1>2. job'.pc \in Returns
    BY <1>1 DEF TypeInv, TypeOK, JobType
  <1>3. OpenRows' = OpenRows \ {Current} /\ UNCHANGED <<match, crashes, faults>>
    BY <1>1 DEF CloseRow, CloseOf, OpenRows, IsOpen, TypeInv, TypeOK, RowType, Current, watch, mishaps
  <1>4. Few(OpenRows \ {Current, job.cand}) /\ OpenRows \ {Current, job.cand} = OpenRows'
    BY <1>1, <1>3, MachineAssumption DEF RowInv, OpenRows
  <1>5. Few(OpenRows)' /\ Few(OpenRows \ {Current, job.cand})'
    <2>1. (OpenRows \ {Current, job.cand})' = OpenRows'
      BY <1>1, <1>3, MachineAssumption DEF OpenRows, Current
    <2> QED BY <1>3, <1>4, <2>1 DEF Few
  <1>6. ~HasOpenServer'
    BY <1>3 DEF HasOpenServer, OpenRows, Current, TypeInv, TypeOK, MatchType
  <1>7. Late(job') => match'.state \notin {"pending", "allocating"}
    <2>1. Late(job') => job.after = "lost_closed"
      BY <1>1, <1>2 DEF Late, Returns
    <2> QED BY <1>1, <1>3, <2>1 DEF RowInv, Late
  <1>8. ~IsTerminal'
    BY <1>1, <1>3 DEF TypeInv, JobInv, IsTerminal
  <1> QED BY <1>1, <1>2, <1>5, <1>6, <1>7, <1>8 DEF RowInv, Returns, Holding, WalkingOn, Between

\* WalkInsert keeps RowInv.
LEMMA RowsWalkInsert == ASSUME TypeInv, RowInv, NEW r \in Rows, WalkInsert(r) PROVE RowInv'
  <1>1. job.pc = "next" /\ job.cand = None /\ job'.cand = r /\ job'.pc = "point"
    BY DEF WalkInsert, At, TypeInv, TypeOK, JobInv, WalkingOn, JobType
  <1>2. UNCHANGED <<match, crashes, faults>> /\ ~IsTerminal
    BY DEF WalkInsert, watch, mishaps, At, TypeInv, JobInv
  <1>3. (OpenRows \ {job.cand})' \subseteq OpenRows \ {job.cand}
    BY <1>1, MachineAssumption DEF OpenRows, IsOpen, WalkInsert, TypeInv, TypeOK, RowType
  <1>4. Few(OpenRows \ {job.cand}) /\ crashes + faults \in Nat /\ OpenRows \ {job.cand} \in SUBSET Rows
    BY <1>1 DEF RowInv, TypeInv, TypeOK, OpenRows
  <1>5. Few(OpenRows \ {job.cand})' /\ Few(OpenRows \ {Current, job.cand})'
    <2>1. (OpenRows \ {Current, job.cand})' \subseteq OpenRows \ {job.cand}
      BY <1>3
    <2> QED BY <1>2, <1>3, <1>4, <2>1, FewerRows DEF Few
  <1> QED BY <1>1, <1>2, <1>5 DEF RowInv, Late, Holding, WalkingOn, Between, IsTerminal

\* Deallocate keeps RowInv.
LEMMA RowsDeallocate == ASSUME TypeInv, RowInv, Deallocate PROVE RowInv'
  <1>1. /\ job.pc = "deallocate" /\ job.cand = None
        /\ job'.pc = "close" /\ job'.cand = None /\ job'.after = job.after
    BY DEF Deallocate, At, TypeInv, TypeOK, JobInv, WalkingOn, JobType
  <1>2. UNCHANGED <<match, ledger, crashes, faults>> /\ match.state \notin Terminal
    BY <1>1 DEF Deallocate, durable, watch, mishaps, TypeInv, JobInv, IsTerminal
  <1>3. Late(job') => match.state \notin {"pending", "allocating"}
    BY <1>1 DEF Late, RowInv
  <1> QED BY <1>1, <1>2, <1>3, QuietMove DEF WalkingOn, Between, OpenRows, IsOpen

\* EndFact keeps RowInv.
LEMMA RowsEndFact == ASSUME TypeInv, RowInv, EndFact PROVE RowInv'
  <1>1. job'.pc = "idle" /\ job'.cand = None /\ job.cand = None /\ job.pc = "end"
    BY DEF EndFact, Finished, IdleJob, At, TypeInv, JobInv, WalkingOn
  <1>2. match'.state \in Terminal /\ match'.fleetServerId = match.fleetServerId
    BY <1>1 DEF EndFact, TypeInv, TypeOK, MatchType, JobInv, Ending
  <1>3. UNCHANGED <<ledger, crashes, faults>>
    BY DEF EndFact, watch, mishaps
  <1> QED BY <1>1, <1>2, <1>3 DEF RowInv, Late, Few, Between, Holding, OpenRows, IsOpen, HasOpenServer, Current,
            IsTerminal, Terminal, WalkingOn

\* Provision keeps RowInv.
LEMMA RowsProvision == ASSUME TypeInv, RowInv, Provision PROVE RowInv'
  <1>1. UNCHANGED <<ledger, crashes, faults>> /\ job.pc = "idle" /\ job.cand = None
    BY DEF Provision, watch, mishaps, Begin, TypeInv, JobInv, WalkingOn
  <1>2. CASE UNCHANGED <<match, job, timers>>
    BY <1>1, <1>2, SameRows
  <1>3. CASE /\ match.state \in {"pending", "allocating"} /\ SetState("allocating")
             /\ job' = [IdleJob EXCEPT !.pc = "next", !.walk = "provision"]
    <2>1. job'.pc = "next" /\ job'.cand = None
      BY <1>3 DEF IdleJob
    <2>2. match'.fleetServerId = match.fleetServerId /\ match'.state = "allocating"
      BY <1>3 DEF SetState, TypeInv, TypeOK, MatchType
    <2>3. Few(OpenRows)
      BY <1>1, <1>3 DEF RowInv
    <2>4. Few(OpenRows \ {None}) /\ Few(OpenRows \ {Current, None})
      BY <2>3, FewerIsFew DEF OpenRows
    <2> QED BY <1>1, <2>1, <2>2, <2>4 DEF RowInv, Late, Few, Between, Holding, OpenRows, IsOpen, Current, IsTerminal,
              Terminal, WalkingOn
  <1> QED BY <1>2, <1>3 DEF Provision

\* Recover keeps RowInv.
LEMMA RowsRecover == ASSUME TypeInv, RowInv, Recover PROVE RowInv'
  <1>1. UNCHANGED <<ledger, match, crashes, faults>> /\ job.pc = "idle" /\ job.cand = None
    BY DEF Recover, watch, mishaps, durable, Begin, TypeInv, JobInv, WalkingOn
  <1>2. CASE UNCHANGED <<job, timers>>
    BY <1>1, <1>2, SameRows
  <1>3. CASE match.state = "recovering" /\ End(Failed("server_lost"))
    BY <1>1, <1>3, EndMove DEF IsTerminal, Terminal
  <1>4. CASE /\ match.state = "recovering" /\ ~HasOpenServer
             /\ job' = [IdleJob EXCEPT !.pc = "next", !.walk = "recover"]
    <2>1. job'.pc = "next" /\ job'.cand = None
      BY <1>4 DEF IdleJob
    <2>2. Few(OpenRows \ {Current, None}) /\ OpenRows \ {None} \subseteq OpenRows \ {Current, None}
      BY <1>1, <1>4, MachineAssumption DEF RowInv, OpenRows, HasOpenServer
    <2>3. Few(OpenRows \ {None})
      BY <2>2, FewerIsFew DEF OpenRows
    <2> QED BY <1>1, <1>4, <2>1, <2>2, <2>3 DEF RowInv, Late, Few, Between, Holding, OpenRows, IsOpen, Current, IsTerminal,
              Terminal, WalkingOn
  <1> QED BY <1>2, <1>3, <1>4 DEF Recover

\* WalkPoint keeps RowInv.
LEMMA RowsWalkPoint == ASSUME TypeInv, RowInv, WalkPoint PROVE RowInv'
  <1>1. /\ job.pc = "point" /\ job'.pc = "allocate" /\ job'.cand = job.cand
        /\ match'.fleetServerId = job.cand /\ match'.state = match.state
    BY DEF WalkPoint, At, TypeInv, TypeOK, JobType, MatchType
  <1> QED BY <1>1, WalkMove DEF WalkPoint, watch, mishaps, WalkingOn, OpenRows, IsOpen, Current

\* WalkAllocate keeps RowInv.
LEMMA RowsWalkAllocate == ASSUME TypeInv, RowInv, WalkAllocate PROVE RowInv'
  <1>1. job.pc = "allocate" /\ match' = match /\ job.cand \in Rows
    BY DEF WalkAllocate, At, TypeInv, JobInv, WalkingOn
  <1>2. CASE job' = [job EXCEPT !.pc = "bind"] /\ UNCHANGED ledger
    <2>1. job'.pc = "bind" /\ job'.cand = job.cand
      BY <1>2 DEF TypeInv, TypeOK, JobType
    <2> QED BY <1>1, <1>2, <2>1, WalkMove DEF WalkAllocate, watch, mishaps, WalkingOn, OpenRows, IsOpen, Current, RowInv, Holding
  <1>3. CASE ledger' = CloseOf(job.cand) /\ job' = [job EXCEPT !.pc = "next", !.cand = None]
    <2>1. job'.pc = "next" /\ job'.cand = None
      BY <1>3 DEF TypeInv, TypeOK, JobType
    <2>2. OpenRows' \subseteq OpenRows \ {job.cand}
      BY <1>1, <1>3 DEF OpenRows, IsOpen, CloseOf, TypeInv, TypeOK, RowType
    <2> QED BY <1>1, <2>1, <2>2, WalkMove DEF WalkAllocate, watch, mishaps, WalkingOn, Holding
  <1> QED BY <1>2, <1>3 DEF WalkAllocate

\* WalkBind keeps RowInv.
LEMMA RowsWalkBind == ASSUME TypeInv, RowInv, WalkBind PROVE RowInv'
  <1>1. /\ job.pc = "bind" /\ job'.pc = "take" /\ job'.cand = job.cand /\ match' = match
    BY DEF WalkBind, At, TypeInv, TypeOK, JobType
  <1>2. OpenRows' = OpenRows
    BY DEF WalkBind, OpenRows, IsOpen, TypeInv, TypeOK, RowType
  <1> QED BY <1>1, <1>2, WalkMove DEF WalkBind, watch, mishaps, WalkingOn, Current, RowInv, Holding

\* WalkTake keeps RowInv.
LEMMA RowsWalkTake == ASSUME TypeInv, RowInv, WalkTake PROVE RowInv'
  <1>1. /\ job.pc = "take" /\ job'.pc = "allocated" /\ job'.cand = job.cand
        /\ match'.fleetServerId = match.fleetServerId /\ match'.state = match.state
    BY DEF WalkTake, At, TypeInv, TypeOK, JobType, MatchType
  <1> QED BY <1>1, WalkMove DEF WalkTake, watch, mishaps, WalkingOn, OpenRows, IsOpen, Current, RowInv, Holding

\* WalkTell keeps RowInv.
LEMMA RowsWalkTell == ASSUME TypeInv, RowInv, WalkTell PROVE RowInv'
  <1>1. /\ job.pc = "allocated" /\ job'.pc = "configure" /\ job'.cand = job.cand
    BY DEF WalkTell, At, TypeInv, TypeOK, JobType
  <1> QED BY <1>1, WalkMove DEF WalkTell, watch, mishaps, WalkingOn, OpenRows, IsOpen, Current, RowInv, Holding

\* WalkConfigure keeps RowInv.
LEMMA RowsWalkConfigure == ASSUME TypeInv, RowInv, WalkConfigure PROVE RowInv'
  <1>1. job.pc = "configure" /\ match' = match /\ job.cand \in Rows /\ Current = job.cand
    BY DEF WalkConfigure, At, TypeInv, JobInv, WalkingOn, RowInv, Holding
  <1>2. CASE /\ ledger' = [ledger EXCEPT ![job.cand].state = "configured"]
             /\ job' = [job EXCEPT !.pc = "walked", !.cand = None, !.found = TRUE]
    <2>1. job'.pc = "walked" /\ job'.cand = None /\ job'.found
      BY <1>2 DEF TypeInv, TypeOK, JobType
    <2>2. (OpenRows \ {Current, None})' \subseteq OpenRows \ {job.cand}
      BY <1>1, <1>2 DEF OpenRows, IsOpen, TypeInv, TypeOK, RowType, Current
    <2>3. Few(OpenRows \ {job.cand}) /\ ~IsTerminal
      BY <1>1 DEF RowInv, WalkingOn, TypeInv, JobInv
    <2>4. Few((OpenRows \ {Current, None})')
      BY <2>2, <2>3, FewerIsFew DEF OpenRows
    <2> QED BY <1>1, <2>1, <2>3, <2>4 DEF RowInv, Late, Few, WalkConfigure, watch, mishaps, WalkingOn, Between, Holding, IsTerminal
  <1>3. CASE ledger' = CloseOf(job.cand) /\ job' = [job EXCEPT !.pc = "next", !.cand = None]
    <2>1. job'.pc = "next" /\ job'.cand = None
      BY <1>3 DEF TypeInv, TypeOK, JobType
    <2>2. OpenRows' \subseteq OpenRows \ {job.cand}
      BY <1>1, <1>3 DEF OpenRows, IsOpen, CloseOf, TypeInv, TypeOK, RowType
    <2> QED BY <1>1, <2>1, <2>2, WalkMove DEF WalkConfigure, watch, mishaps, WalkingOn, Holding
  <1> QED BY <1>2, <1>3 DEF WalkConfigure

\* WalkStop keeps RowInv.
LEMMA RowsWalkStop == ASSUME TypeInv, RowInv, WalkStop PROVE RowInv'
  <1>1. job.pc = "next" /\ job.cand = None /\ job'.pc = "walked" /\ job'.cand = None /\ ~IsTerminal
    BY DEF WalkStop, At, TypeInv, TypeOK, JobInv, WalkingOn, JobType
  <1>2. Few(OpenRows \ {None}) /\ OpenRows \ {None} = OpenRows
    BY <1>1, MachineAssumption DEF RowInv, OpenRows
  <1>3. Few(OpenRows \ {Current, None})
    BY <1>2, FewerIsFew DEF OpenRows
  <1> QED BY <1>1, <1>2, <1>3 DEF RowInv, Late, Few, WalkStop, durable, watch, mishaps, WalkingOn, Between, Holding,
            OpenRows, IsOpen, Current, IsTerminal

\* Walked keeps RowInv.
LEMMA RowsWalked == ASSUME TypeInv, RowInv, Walked PROVE RowInv'
  <1>1. job.pc = "walked" /\ job.cand = None /\ ~IsTerminal /\ UNCHANGED <<ledger, crashes, faults>>
    BY DEF Walked, At, TypeInv, JobInv, WalkingOn, watch, mishaps
  <1>2. CASE SetState("configuring") /\ Finished
    <2>1. /\ job'.pc = "idle" /\ job'.cand = None
          /\ match'.state = "configuring" /\ match'.fleetServerId = match.fleetServerId
      BY <1>2 DEF Finished, IdleJob, SetState, TypeInv, TypeOK, MatchType
    <2> QED BY <1>1, <2>1, QuietMove DEF WalkingOn, Between, Terminal, OpenRows, IsOpen
  <1>3. CASE Finished /\ UNCHANGED match /\ job.walk = "recover" /\ job.found
    <2>1. job'.pc = "idle" /\ job'.cand = None
      BY <1>3 DEF Finished, IdleJob
    <2>2. match.state = "recovering"
      BY <1>3 DEF TypeInv, JobInv
    <2> QED BY <1>1, <1>3, <2>1, <2>2, QuietMove DEF WalkingOn, Between, Terminal, OpenRows, IsOpen
  <1>4. ASSUME NEW v, End(v), UNCHANGED match PROVE RowInv'
    BY <1>1, <1>4, EndMove
  <1> QED BY <1>2, <1>3, <1>4 DEF Walked

\* A step cut short by the store leaves a row behind, as a death does.
LEMMA RowsDropped ==
  ASSUME TypeInv, RowInv, job'.pc = "idle", job'.cand = None, UNCHANGED <<match, ledger>>,
         crashes' + faults' = crashes + faults + 1
  PROVE  RowInv'
  <1>1. OpenRows' = OpenRows /\ OpenRows \in SUBSET Rows /\ crashes + faults \in Nat
    BY DEF OpenRows, IsOpen, TypeInv, TypeOK
  <1>2. Few(OpenRows)'
    <2>1. CASE job.pc \in WalkingOn \cup {"next"}
      <3>1. Few(OpenRows \ {job.cand}) /\ OpenRows \subseteq (OpenRows \ {job.cand}) \cup {job.cand}
        BY <2>1 DEF RowInv
      <3> QED BY <1>1, <3>1, OneMoreRow DEF Few
    <2>2. CASE job.pc \notin WalkingOn
      <3>1. job.cand = None /\ None \notin OpenRows
        BY <2>2, MachineAssumption DEF TypeInv, JobInv, OpenRows
      <3>2. Few(OpenRows \ {Current, job.cand}) /\ OpenRows \subseteq (OpenRows \ {Current, job.cand}) \cup {Current}
        BY <3>1 DEF RowInv
      <3> QED BY <1>1, <3>2, OneMoreRow DEF Few
    <2> QED BY <2>1, <2>2
  <1>3. Few(OpenRows \ {Current, job.cand})'
    BY <1>1, <1>2, FewerRows DEF Few, TypeInv, TypeOK
  <1>4. IsTerminal' => ~HasOpenServer'
    BY DEF RowInv, IsTerminal, HasOpenServer, IsOpen, Current
  <1>5. ~Late(job')
    BY DEF Late
  <1> QED BY <1>2, <1>3, <1>4, <1>5 DEF RowInv, Holding, WalkingOn, Between

\* Crash keeps RowInv.
LEMMA RowsCrash == ASSUME TypeInv, RowInv, Crash PROVE RowInv'
  <1>1. job'.pc = "idle" /\ job'.cand = None
    BY DEF Crash, IdleJob
  <1>2. crashes' = crashes + 1 /\ faults' = faults
    BY DEF Crash
  <1>3. crashes' + faults' = crashes + faults + 1
    BY <1>2 DEF TypeInv, TypeOK
  <1> QED BY <1>1, <1>3, RowsDropped DEF Crash, durable

\* StoreFails keeps RowInv.
LEMMA RowsStoreFails == ASSUME TypeInv, RowInv, StoreFails PROVE RowInv'
  <1>1. job'.pc = "idle" /\ job'.cand = None
    <2>1. CASE job.pc = "idle" /\ UNCHANGED job
      BY <2>1 DEF TypeInv, JobInv, WalkingOn
    <2>2. CASE job' = IdleJob
      BY <2>2 DEF IdleJob
    <2> QED BY <2>1, <2>2 DEF StoreFails
  <1>2. crashes' = crashes /\ faults' = faults + 1
    BY DEF StoreFails
  <1>3. crashes' + faults' = crashes + faults + 1
    BY <1>2 DEF TypeInv, TypeOK
  <1> QED BY <1>1, <1>3, RowsDropped DEF StoreFails, durable

\* The steps that leave match, ledger and handler alone.
LEMMA RowsUntouched ==
  ASSUME RowInv,
         \/ \E t \in Timers : Fire(t)
         \/ \E r \in Rows : Touch(r) \/ Backup(r) \/ Die(r) \/ \E e \in Said : Say(r, e)
         \/ \E c \in Asked : Ask(c)
         \/ EventIgnored \/ NextMap \/ Restore \/ PauseOrUnpause \/ OrphanFact
         \/ ReaperLook \/ ReaperBlind \/ \E due \in SUBSET Rows : ReaperList(due)
         \/ Resume
  PROVE  RowInv'
  <1>1. UNCHANGED <<ledger, match, job, crashes, faults>>
    BY DEF Fire, Touch, Backup, Die, Say, Ask, EventIgnored, NextMap, Restore, PauseOrUnpause, OrphanFact,
           ReaperLook, ReaperBlind, ReaperList, Resume, durable, memory, watch, mishaps
  <1> QED BY <1>1, SameRows

\* An operator only ever closes a row.
LEMMA RowsOperatorRelease ==
  ASSUME TypeInv, RowInv, NEW r \in Rows, OperatorRelease(r)
  PROVE  RowInv'
  <1>1. UNCHANGED <<match, job, crashes, faults>>
    BY DEF OperatorRelease, watch, mishaps
  <1>2. OpenRows' \subseteq OpenRows
    BY DEF OperatorRelease, CloseOf, OpenRows, IsOpen, TypeInv, TypeOK, RowType
  <1>3. HasOpenServer' => HasOpenServer
    BY <1>1, <1>2 DEF HasOpenServer, Current, OpenRows, TypeInv, TypeOK, MatchType
  <1>4. ASSUME NEW T, Few(OpenRows \ T) PROVE Few((OpenRows') \ T)
    BY <1>2, <1>4, FewerIsFew DEF OpenRows
  <1>5. Few(OpenRows) => Few(OpenRows')
    BY <1>2, FewerIsFew DEF OpenRows
  <1> QED BY <1>1, <1>3, <1>4, <1>5 DEF RowInv, Few, Current, IsTerminal, Late

\* EndStep keeps RowInv.
LEMMA RowsEndStep == ASSUME TypeInv, RowInv, EndStep PROVE RowInv'
  <1>1. UNCHANGED <<ledger, match, crashes, faults>> /\ job.cand = None
    BY DEF EndStep, durable, watch, mishaps, Begin, TypeInv, JobInv, WalkingOn
  <1>2. CASE UNCHANGED <<job, timers>>
    BY <1>1, <1>2, SameRows
  <1>3. CASE Verdict(Head(chain)) # NoEnd /\ End(Verdict(Head(chain)))
    BY <1>1, <1>3, EndMove, VerdictTyped DEF TypeInv
  <1> QED BY <1>2, <1>3 DEF EndStep

\* A loss keeps RowInv, whoever found it.
LEMMA RowsLost ==
  ASSUME TypeInv, RowInv, Lost, job.cand = None, match.state \in Probeable,
         UNCHANGED <<ledger, match, crashes, faults>>
  PROVE  RowInv'
  <1>1. CASE LostFromLive
    <2>1. job'.pc = "lost_state" /\ job'.cand = None
      BY <1>1 DEF LostFromLive, IdleJob
    <2>2. ~Late(job') /\ match.state \notin Terminal
      BY <2>1 DEF Late, Probeable, Terminal
    <2> QED BY <2>1, <2>2, QuietMove DEF WalkingOn, Between, OpenRows, IsOpen
  <1>2. ASSUME NEW v, End(v) PROVE RowInv'
    BY <1>2, EndMove DEF Probeable, IsTerminal, Terminal
  <1>3. CASE UNCHANGED job
    BY <1>3, SameRows
  <1> QED BY <1>1, <1>2, <1>3 DEF Lost

\* Probe keeps RowInv.
LEMMA RowsProbe == ASSUME TypeInv, RowInv, Probe PROVE RowInv'
  <1>1. UNCHANGED <<ledger, match, crashes, faults>> /\ job.cand = None
    BY DEF Probe, watch, mishaps, Begin, TypeInv, JobInv, WalkingOn
  <1> QED BY <1>1, SameRows, RowsLost DEF Probe

\* Suspect keeps RowInv.
LEMMA RowsSuspect == ASSUME TypeInv, RowInv, Suspect PROVE RowInv'
  <1>1. UNCHANGED <<ledger, match, crashes, faults>> /\ job.cand = None
    BY DEF Suspect, watch, mishaps, Begin, TypeInv, JobInv, WalkingOn
  <1> QED BY <1>1, SameRows, RowsLost DEF Suspect

\* LostState keeps RowInv.
LEMMA RowsLostState == ASSUME TypeInv, RowInv, LostState PROVE RowInv'
  <1>1. job.pc = "lost_state" /\ job.cand = None /\ job'.cand = None
        /\ job'.pc = IF Current = None THEN "lost_closed" ELSE "deallocate"
    BY DEF LostState, At, TypeInv, TypeOK, JobInv, JobType, WalkingOn
  <1>2. match'.state = "recovering" /\ match'.fleetServerId = match.fleetServerId
    BY DEF LostState, SetState, TypeInv, TypeOK, MatchType
  <1> QED BY <1>1, <1>2, QuietMove DEF LostState, watch, mishaps, WalkingOn, Between, OpenRows, IsOpen, Terminal

\* LostClosed keeps RowInv.
LEMMA RowsLostClosed == ASSUME TypeInv, RowInv, LostClosed PROVE RowInv'
  <1>1. job.pc = "lost_closed" /\ job.cand = None /\ ~IsTerminal
        /\ UNCHANGED <<ledger, match, crashes, faults>>
    BY DEF LostClosed, At, durable, watch, mishaps, TypeInv, JobInv, WalkingOn
  <1>2. CASE Finished
    <2>1. job'.pc = "idle" /\ job'.cand = None
      BY <1>2 DEF Finished, IdleJob
    <2>2. match.state \notin {"pending", "allocating"}
      BY <1>1 DEF RowInv, Late
    <2> QED BY <1>1, <2>1, <2>2, QuietMove DEF WalkingOn, Between, OpenRows, IsOpen, IsTerminal
  <1>3. ASSUME NEW v, End(v) PROVE RowInv'
    BY <1>1, <1>3, EndMove
  <1> QED BY <1>2, <1>3 DEF LostClosed

\* LiveState keeps RowInv.
LEMMA RowsLiveState == ASSUME TypeInv, RowInv, LiveState PROVE RowInv'
  <1>1. job.cand = None /\ job'.pc = "idle" /\ job'.cand = None
    BY DEF LiveState, At, Finished, IdleJob, TypeInv, JobInv, WalkingOn
  <1>2. match'.state = "live" /\ match'.fleetServerId = match.fleetServerId
    BY DEF LiveState, SetState, TypeInv, TypeOK, MatchType
  <1> QED BY <1>1, <1>2, QuietMove DEF LiveState, watch, mishaps, WalkingOn, Between, OpenRows, IsOpen, Terminal

\* ServerReady keeps RowInv: it writes the row the match is on, which may be open already, or
\* ends at the provider that throws.
LEMMA RowsServerReady == ASSUME TypeInv, RowInv, ServerReady PROVE RowInv'
  <1>1. UNCHANGED <<match, crashes, faults>> /\ match.state \in {"configuring", "recovering"}
        /\ job.cand = None
    BY DEF ServerReady, Begin, TypeInv, JobInv, WalkingOn
  <1>2. CASE UNCHANGED <<ledger, job>>
    BY <1>1, <1>2, SameRows
  <1>3. CASE /\ ledger' = IF Current = None THEN ledger ELSE [ledger EXCEPT ![Current].state = "running"]
             /\ job' = [IdleJob EXCEPT !.pc = "ready_state"]
    <2>1. job'.pc = "ready_state" /\ job'.cand = None
      BY <1>3 DEF IdleJob
    <2>2. OpenRows' \subseteq OpenRows \cup {Current}
      BY <1>3 DEF OpenRows, IsOpen, TypeInv, TypeOK, RowType
    <2>3. Few(OpenRows \ {Current, None}) /\ (OpenRows') \ {Current, None} \subseteq OpenRows \ {Current, None}
      BY <1>1, <2>2 DEF RowInv
    <2>4. Few((OpenRows') \ {Current, None})
      BY <2>3, FewerIsFew DEF OpenRows
    <2>5. ~Late(job') /\ ~IsTerminal'
      BY <1>1, <2>1 DEF Late, IsTerminal, Terminal
    <2> QED BY <1>1, <2>1, <2>4, <2>5 DEF RowInv, Few, Current, WalkingOn, Between, Holding
  <1> QED BY <1>2, <1>3 DEF ServerReady

\* ReadyState keeps RowInv.
LEMMA RowsReadyState == ASSUME TypeInv, RowInv, ReadyState PROVE RowInv'
  <1>1. job.cand = None /\ job'.pc = "ready_fact" /\ job'.cand = None
    BY DEF ReadyState, At, TypeInv, TypeOK, JobInv, JobType, WalkingOn
  <1>2. match'.state \in {"ready", "recovering"} /\ match'.fleetServerId = match.fleetServerId
    BY DEF ReadyState, SetState, TypeInv, TypeOK, MatchType
  <1> QED BY <1>1, <1>2, QuietMove DEF ReadyState, watch, mishaps, WalkingOn, Between, OpenRows, IsOpen, Terminal

\* ReadyFact keeps RowInv.
LEMMA RowsReadyFact == ASSUME TypeInv, RowInv, ReadyFact PROVE RowInv'
  <1>1. /\ job.pc = "ready_fact" /\ job.cand = None
        /\ job'.pc \in {"resumed", "idle"} /\ job'.cand = None
    BY DEF ReadyFact, At, IdleJob, TypeInv, TypeOK, JobInv, JobType, WalkingOn
  <1>2. match.state \notin {"pending", "allocating"} /\ match.state \notin Terminal
    BY <1>1 DEF RowInv, Late, TypeInv, JobInv, IsTerminal
  <1> QED BY <1>1, <1>2, QuietMove DEF ReadyFact, watch, mishaps, WalkingOn, Between, OpenRows, IsOpen, Late

\* Resumed keeps RowInv.
LEMMA RowsResumed == ASSUME TypeInv, RowInv, Resumed PROVE RowInv'
  <1>1. job.pc = "resumed" /\ job.cand = None /\ job'.pc = "live_state" /\ job'.cand = None
    BY DEF Resumed, At, IdleJob, TypeInv, JobInv, WalkingOn
  <1>2. match.state \notin Terminal
    BY <1>1 DEF TypeInv, JobInv, IsTerminal
  <1> QED BY <1>1, <1>2, QuietMove DEF Resumed, watch, mishaps, WalkingOn, Between, OpenRows, IsOpen, Late

\* GoingLive keeps RowInv.
LEMMA RowsGoingLive == ASSUME TypeInv, RowInv, GoingLive PROVE RowInv'
  <1>1. job.cand = None /\ job'.pc = "live_state" /\ job'.cand = None
    BY DEF GoingLive, Begin, IdleJob, TypeInv, JobInv, WalkingOn
  <1>2. match.state \notin Terminal
    BY DEF GoingLive, Terminal
  <1> QED BY <1>1, <1>2, QuietMove DEF GoingLive, watch, mishaps, WalkingOn, Between, OpenRows, IsOpen, Late

\* Sign keeps RowInv.
LEMMA RowsSign == ASSUME TypeInv, RowInv, Sign PROVE RowInv'
  <1>1. UNCHANGED <<ledger, match, crashes, faults>> /\ job.cand = None /\ match.state = "recovering"
    BY DEF Sign, Begin, watch, mishaps, TypeInv, JobInv, WalkingOn
  <1>2. job'.pc \in {"resumed", "idle"} /\ job'.cand = None
    BY DEF Sign, IdleJob
  <1> QED BY <1>1, <1>2, QuietMove DEF WalkingOn, Between, OpenRows, IsOpen, Late, Terminal

\* SeriesEnd and DemoAvailable keep RowInv.
LEMMA RowsSeries == ASSUME TypeInv, RowInv, SeriesEnd \/ DemoAvailable PROVE RowInv'
  <1>1. UNCHANGED <<ledger, match, crashes, faults>> /\ job.cand = None /\ ~IsTerminal
    BY DEF SeriesEnd, DemoAvailable, Begin, Accepts, watch, mishaps, TypeInv, JobInv, WalkingOn
  <1>2. CASE UNCHANGED job
    BY <1>1, <1>2, SameRows
  <1>3. CASE End(Ended("completed"))
    BY <1>1, <1>3, EndMove
  <1> QED BY <1>2, <1>3 DEF SeriesEnd, DemoAvailable

\* Reprovision keeps RowInv.
LEMMA RowsReprovision == ASSUME TypeInv, RowInv, Reprovision PROVE RowInv'
  <1>1. UNCHANGED <<ledger, match, crashes, faults>> /\ job.cand = None
    BY DEF Reprovision, Begin, watch, mishaps, TypeInv, JobInv, WalkingOn
  <1>2. CASE UNCHANGED job
    BY <1>1, <1>2, SameRows
  <1>3. CASE match.state = "live" /\ LostFromLive
    <2>1. Lost /\ match.state \in Probeable
      BY <1>3 DEF Lost, Probeable
    <2> QED BY <1>1, <2>1, RowsLost
  <1>4. CASE /\ match.state \in Open
             /\ job' = [IdleJob EXCEPT !.after = "reprovision_clear",
                           !.pc = IF Current = None THEN "reprovision_clear" ELSE "deallocate"]
    <2>1. /\ job'.cand = None /\ job'.after = "reprovision_clear"
          /\ job'.pc = IF Current = None THEN "reprovision_clear" ELSE "deallocate"
      BY <1>4 DEF IdleJob
    <2>2. match.state \notin Terminal /\ ~Late(job')
      BY <1>4, <2>1 DEF Open, Terminal, Late
    <2>3. CASE Current # None
      BY <1>1, <2>1, <2>2, <2>3, QuietMove DEF WalkingOn, Between, OpenRows, IsOpen
    <2>4. CASE Current = None
      <3>1. Few(OpenRows \ {Current, job.cand}) /\ OpenRows \ {Current, job.cand} = OpenRows
        BY <1>1, <2>4, MachineAssumption DEF RowInv, OpenRows
      <3>2. Few(OpenRows') /\ Few((OpenRows \ {Current, job.cand})')
        BY <1>1, <2>1, <3>1 DEF OpenRows, IsOpen, Few, Current
      <3> QED BY <1>1, <2>1, <2>2, <2>4, <3>2 DEF RowInv, Few, WalkingOn, Between, Holding, IsTerminal
    <2> QED BY <2>3, <2>4
  <1> QED BY <1>2, <1>3, <1>4 DEF Reprovision

\* ReprovisionClear keeps RowInv.
LEMMA RowsReprovisionClear == ASSUME TypeInv, RowInv, ReprovisionClear PROVE RowInv'
  <1>1. /\ job.pc = "reprovision_clear" /\ job.cand = None
        /\ job'.pc = "reprovision_state" /\ job'.cand = None
    BY DEF ReprovisionClear, At, TypeInv, TypeOK, JobInv, JobType, WalkingOn
  <1>2. OpenRows' = OpenRows /\ Few(OpenRows) /\ UNCHANGED <<crashes, faults>>
    BY <1>1 DEF ReprovisionClear, watch, mishaps, OpenRows, IsOpen, RowInv, Between
  <1>3. Few(OpenRows') /\ Few((OpenRows \ {Current, job.cand})')
    <2>1. (OpenRows \ {Current, job.cand})' \subseteq OpenRows
      BY <1>2
    <2> QED BY <1>2, <2>1, FewerIsFew DEF OpenRows
  <1>4. ~Late(job') /\ ~IsTerminal'
    BY <1>1 DEF Late, ReprovisionClear, TypeInv, TypeOK, JobInv, MatchType, IsTerminal
  <1> QED BY <1>1, <1>2, <1>3, <1>4 DEF RowInv, Few, WalkingOn, Between, Holding

\* ReprovisionState keeps RowInv.
LEMMA RowsReprovisionState == ASSUME TypeInv, RowInv, ReprovisionState PROVE RowInv'
  <1>1. job.pc = "reprovision_state" /\ job.cand = None /\ job'.pc = "idle" /\ job'.cand = None
    BY DEF ReprovisionState, At, Finished, IdleJob, TypeInv, JobInv, WalkingOn
  <1>2. OpenRows' = OpenRows /\ Few(OpenRows) /\ UNCHANGED <<crashes, faults>>
    BY <1>1 DEF ReprovisionState, watch, mishaps, OpenRows, IsOpen, RowInv, Between
  <1>3. Few(OpenRows') /\ Few((OpenRows \ {Current, job.cand})')
    <2>1. (OpenRows \ {Current, job.cand})' \subseteq OpenRows
      BY <1>2
    <2> QED BY <1>2, <2>1, FewerIsFew DEF OpenRows
  <1>4. ~Late(job') /\ ~IsTerminal'
    BY <1>1 DEF Late, ReprovisionState, SetState, TypeInv, TypeOK, MatchType, IsTerminal, Terminal
  <1> QED BY <1>1, <1>2, <1>3, <1>4 DEF RowInv, Few, WalkingOn, Between, Holding

-----------------------------------------------------------------------------
(* What follows for every behaviour.                                       *)

IInv == TypeInv /\ RowInv

\* A match is created with no row.
LEMMA InitRows == Init => RowInv
  <1> SUFFICES ASSUME Init PROVE RowInv
    OBVIOUS
  <1>1. OpenRows = {}
    BY DEF Init, OpenRows, IsOpen
  <1>2. ASSUME NEW T PROVE Few(OpenRows \ T)
    BY <1>1, FS_EmptySet DEF Init, Few
  <1>3. Few(OpenRows)
    BY <1>1, FS_EmptySet DEF Init, Few
  <1>4. job.pc = "idle" /\ ~Late(job) /\ ~IsTerminal
    BY DEF Init, IdleJob, Late, IsTerminal, Terminal
  <1> QED BY <1>2, <1>3, <1>4 DEF RowInv, Holding, WalkingOn, Between

\* Whatever happens next, the rows stay counted.
LEMMA NextRows == IInv /\ [Next]_vars => RowInv'
  <1> SUFFICES ASSUME TypeInv, RowInv, [Next]_vars PROVE RowInv'
    BY DEF IInv
  <1>1. CASE UNCHANGED vars
    BY <1>1, SameRows DEF vars, durable, memory, watch, mishaps
  <1>2. CASE Handlers
    BY <1>2, RowsEndStep, RowsDeallocate, RowsCloseRow, RowsEndFact, RowsProvision, RowsRecover,
       RowsWalkInsert, RowsWalkStop, RowsWalkPoint, RowsWalkAllocate, RowsWalkBind, RowsWalkTake,
       RowsWalkTell, RowsWalkConfigure, RowsWalked, RowsLostState, RowsLostClosed, RowsProbe,
       RowsSuspect, RowsLiveState, RowsUntouched, RowsServerReady, RowsReadyState, RowsReadyFact,
       RowsResumed, RowsGoingLive, RowsSign, RowsSeries, RowsReprovision,
       RowsReprovisionClear, RowsReprovisionState
       DEF Handlers
  <1>3. CASE Clock \/ Servers \/ Clients \/ Operators
    BY <1>3, RowsUntouched, RowsOperatorRelease DEF Clock, Servers, Clients, Operators
  <1>4. CASE Reaper
    BY <1>4, RowsUntouched DEF Reaper
  <1>5. CASE StoreFails \/ Crash \/ Resume
    BY <1>5, RowsStoreFails, RowsCrash, RowsUntouched
  <1> QED BY <1>1, <1>2, <1>3, <1>4, <1>5 DEF Next, Living

\* The inductive invariant holds in every state of every behaviour.
THEOREM RowInvariant == Spec => []IInv
  <1>1. Init => IInv
    BY InitTyped, InitRows DEF IInv
  <1>2. IInv /\ [Next]_vars => IInv'
    BY NextTyped, NextRows DEF IInv
  <1> QED BY <1>1, <1>2, PTL DEF Spec

\* The row a match ended on is closed, whatever died on the way there.
THEOREM EndClosesItsRow == Spec => []TerminalIsClosed
  <1>1. IInv => TerminalIsClosed
    BY DEF IInv, RowInv, TerminalIsClosed
  <1> QED BY <1>1, RowInvariant, PTL

\* Each death of the process, and each store call that throws, strands at most one row.
THEOREM MishapsStrandAtMostOneEach == Spec => []MishapsStrandRows
  <1>1. IInv => MishapsStrandRows
    BY DEF IInv, RowInv, Few, MishapsStrandRows
  <1> QED BY <1>1, RowInvariant, PTL

\* While nothing has gone wrong, the match has at most one open row, one meter running, and
\* none once it has ended.
THEOREM OneRowAtATime == Spec => []OneOpenRow
  <1>1. IInv => OneOpenRow
    <2> SUFFICES ASSUME IInv, crashes + faults = 0
                 PROVE  /\ \A r, s \in OpenRows : r = s
                        /\ IsTerminal => OpenRows = {}
      BY DEF OneOpenRow
    <2>1. ASSUME NEW T \in SUBSET Rows, Few(T) PROVE T = {}
      <3>1. IsFiniteSet(T)
        BY MachineAssumption, FS_Subset
      <3>2. Cardinality(T) = 0
        BY <2>1, <3>1, FS_CardinalityType DEF Few
      <3> QED BY <3>1, <3>2, FS_EmptySet
    <2>2. CASE job.pc \in WalkingOn
      <3>1. OpenRows \ {job.cand} = {}
        BY <2>1, <2>2 DEF IInv, RowInv, OpenRows
      <3>2. ~IsTerminal
        BY <2>2 DEF IInv, TypeInv, JobInv, WalkingOn
      <3> QED BY <3>1, <3>2
    <2>3. CASE job.pc \notin WalkingOn
      <3>1. OpenRows \ {Current, job.cand} = {} /\ job.cand = None
        BY <2>1, <2>3 DEF IInv, TypeInv, JobInv, RowInv, OpenRows
      <3>2. IsTerminal => Current \notin OpenRows
        BY MachineAssumption DEF IInv, RowInv, HasOpenServer, OpenRows, Current
      <3> QED BY <3>1, <3>2, MachineAssumption DEF OpenRows
    <2> QED BY <2>2, <2>3
  <1> QED BY <1>1, RowInvariant, PTL

-----------------------------------------------------------------------------
(***************************************************************************)
(* Each step is a step of the lifecycle or leaves what a client sees       *)
(* alone.                                                                  *)
(*                                                                         *)
(* The lifecycle's guards are about states and facts, the machine's about  *)
(* the place a handler stands at. LifeInv says what each place knows.      *)
(***************************************************************************)

\* The places of a walk.
OnWalk == WalkingOn \cup {"next", "walked"}

\* On the way back to pending.
Clearing(j) ==
    \/ j.pc \in {"reprovision_clear", "reprovision_state"}
    \/ j.pc \in {"deallocate", "close"} /\ j.after = "reprovision_clear"

\* What a handler knows of the match and of the last fact at the place it stands at; that a match
\* that is ready was announced, or is about to be; that a replacement counts as ready once told.
LifeInv ==
    /\ job.pc \in OnWalk => \/ job.walk = "provision" /\ match.state = "allocating"
                            \/ job.walk = "recover" /\ match.state = "recovering"
    /\ job.pc = "configure" => said.fact = "match.allocated"
    /\ job.pc = "walked" /\ job.found => said.fact = "match.allocated"
    /\ job.pc = "lost_state" => match.state = "live" /\ said.fact = "match.recovering"
    /\ job.pc = "live_state" => \/ match.state = "recovering" /\ said.fact = "match.recovered"
                                \/ match.state = "ready"
    /\ job.pc = "ready_state" => match.state \in {"configuring", "recovering"}
    /\ job.pc = "ready_fact" => match.state \in {"ready", "recovering"}
    /\ job.pc = "resumed" => match.state = "recovering" /\ said.told
    /\ Clearing(job) => match.state \in Lifecycle!Before
    /\ Ending(job) /\ job.ending.state = "cancelled" => match.state \in Lifecycle!Before
    /\ match.state = "ready" => said.fact = "match.server_ready" \/ job.pc = "ready_fact"
    /\ runtime.replacementReady => said.told

Shown == [Lifecycle!Next]_(Lifecycle!vars)

-----------------------------------------------------------------------------
\* A step that leaves the match, the facts and the handler alone.
LEMMA Unseen ==
  ASSUME LifeInv, UNCHANGED <<match, said, job>>, runtime'.replacementReady => runtime.replacementReady
  PROVE  LifeInv' /\ Shown
  BY DEF LifeInv, Shown, Lifecycle!vars, Clearing, Ending, OnWalk, WalkingOn

\* A handler that is done, with the match and the facts as they were.
LEMMA Idles ==
  ASSUME LifeInv, job' = IdleJob, UNCHANGED <<match, said>>, match.state = "ready" => job.pc # "ready_fact",
         runtime'.replacementReady => runtime.replacementReady
  PROVE  LifeInv' /\ Shown
  BY IdleTyped DEF LifeInv, Shown, Lifecycle!vars, Clearing, Ending, OnWalk, WalkingOn

\* end() is begun with a verdict, which cancels only what is not live yet.
LEMMA Ends ==
  ASSUME LifeInv, job.pc # "ready_fact", NEW v, End(v), v.state = "cancelled" => match.state \in Lifecycle!Before,
         UNCHANGED <<match, said>>, runtime'.replacementReady => runtime.replacementReady
  PROVE  LifeInv' /\ Shown
  <1>1. job' = [pc |-> IF Current = None THEN "end" ELSE "deallocate", after |-> "end", ending |-> v,
            walk |-> "none", cand |-> None, found |-> FALSE]
    BY DEF End, IdleJob
  <1> QED BY <1>1 DEF LifeInv, Shown, Lifecycle!vars, Clearing, Ending, OnWalk, WalkingOn

\* A loss is said of a live match.
LEMMA Loses ==
  ASSUME TypeInv, LifeInv, job.pc = "idle", match.state = "live", LostFromLive, match' = match
  PROVE  LifeInv' /\ Shown
  <1>1. /\ job'.pc = "lost_state" /\ job'.walk = "none"
        /\ said' = [fact |-> "match.recovering", told |-> FALSE]
        /\ runtime'.replacementReady = FALSE
    BY DEF LostFromLive, IdleJob, TypeInv, TypeOK, RuntimeType
  <1>2. LifeInv'
    BY <1>1 DEF LifeInv, Clearing, Ending, OnWalk, WalkingOn
  <1>3. Lifecycle!Lose
    BY <1>1 DEF Lifecycle!Lose
  <1> QED BY <1>2, <1>3 DEF Shown, Lifecycle!Next

-----------------------------------------------------------------------------
(* Ends and closings.                                                      *)

LEMMA LifeEndStep == ASSUME TypeInv, LifeInv, EndStep PROVE LifeInv' /\ Shown
  <1>1. CASE Verdict(Head(chain)) = NoEnd /\ UNCHANGED job
    BY <1>1, Unseen DEF EndStep, durable
  <1>2. CASE Verdict(Head(chain)) # NoEnd /\ End(Verdict(Head(chain)))
    <2>1. Verdict(Head(chain)).state = "cancelled" => match.state \in Lifecycle!Before
      <3> SUFFICES ASSUME Verdict(Head(chain)).state = "cancelled" PROVE match.state \in Lifecycle!Before
        OBVIOUS
      <3>1. ~IsTerminal /\ match.state \notin {"live", "recovering"}
        BY <1>2 DEF Verdict, Ended, Failed, NoEnd
      <3> QED BY <3>1 DEF TypeInv, TypeOK, MatchType, States, Open, IsTerminal, Lifecycle!Before
    <2>2. job.pc # "ready_fact"
      BY DEF EndStep, Begin
    <2> QED BY <1>2, <2>1, <2>2, Ends DEF EndStep, durable
  <1> QED BY <1>1, <1>2 DEF EndStep

LEMMA LifeClosing == ASSUME TypeInv, LifeInv, Deallocate \/ CloseRow PROVE LifeInv' /\ Shown
  <1>1. CASE Deallocate
    <2>1. job.pc = "deallocate" /\ job' = [job EXCEPT !.pc = "close"] /\ UNCHANGED <<match, said, runtime>>
      BY <1>1 DEF Deallocate, At, durable
    <2>2. job'.pc = "close" /\ job'.after = job.after /\ job'.ending = job.ending
      BY <2>1 DEF TypeInv, TypeOK, JobType
    <2> QED BY <2>1, <2>2 DEF LifeInv, Shown, Lifecycle!vars, Clearing, Ending, OnWalk, WalkingOn
  <1>2. CASE CloseRow
    <2>1. job.pc = "close" /\ job' = [job EXCEPT !.pc = job.after] /\ UNCHANGED <<match, said, runtime>>
      BY <1>2 DEF CloseRow, At
    <2>2. /\ job'.pc = job.after /\ job'.after = job.after /\ job'.ending = job.ending
          /\ job.after \in {"end", "lost_closed", "reprovision_clear"}
      BY <2>1 DEF TypeInv, TypeOK, JobType, Returns
    <2> QED BY <2>1, <2>2 DEF LifeInv, Shown, Lifecycle!vars, Clearing, Ending, OnWalk, WalkingOn
  <1> QED BY <1>1, <1>2

LEMMA LifeEndFact == ASSUME TypeInv, LifeInv, EndFact PROVE LifeInv' /\ Shown
  <1>1. /\ job.pc = "end" /\ job' = IdleJob /\ runtime' = NewRuntime
        /\ match' = [match EXCEPT !.state = job.ending.state, !.reason = job.ending.kind]
        /\ said' = [said EXCEPT !.fact = IF job.ending.state = "failed" THEN "match.failed" ELSE "match.ended"]
    BY DEF EndFact, At, Emit, Finished
  <1>2. /\ job.ending.state \in Terminal
        /\ job.ending.state = "cancelled" => match.state \in Lifecycle!Before
        /\ match.state \notin Terminal
    BY <1>1 DEF TypeInv, JobInv, LifeInv, Ending, IsTerminal
  <1>3. /\ match'.state = job.ending.state
        /\ said'.fact = (IF job.ending.state = "failed" THEN "match.failed" ELSE "match.ended")
        /\ said'.told = said.told
    BY <1>1 DEF TypeInv, TypeOK, MatchType, SaidType
  <1>4. Lifecycle!End
    BY <1>2, <1>3 DEF Terminal, Lifecycle!End, Lifecycle!Terminal
  <1>5. LifeInv'
    BY <1>1, <1>2, <1>3, IdleTyped DEF LifeInv, Terminal, Clearing, Ending, OnWalk, WalkingOn, NewRuntime
  <1> QED BY <1>4, <1>5 DEF Shown, Lifecycle!Next

-----------------------------------------------------------------------------
(* Walks.                                                                  *)

LEMMA LifeProvision == ASSUME TypeInv, LifeInv, Provision PROVE LifeInv' /\ Shown
  <1>1. CASE UNCHANGED <<match, job>>
    BY <1>1, Unseen DEF Provision
  <1>2. CASE /\ match.state \in {"pending", "allocating"}
             /\ SetState("allocating")
             /\ job' = [IdleJob EXCEPT !.pc = "next", !.walk = "provision"]
    <2>1. job'.pc = "next" /\ job'.walk = "provision" /\ UNCHANGED <<said, runtime>>
      BY <1>2, WalkSet DEF Provision, Places
    <2>2. match'.state = "allocating"
      BY <1>2 DEF SetState, TypeInv, TypeOK, MatchType
    <2>3. Lifecycle!Allocating
      BY <1>2, <2>1, <2>2 DEF Lifecycle!Allocating, Lifecycle!Move
    <2>4. LifeInv'
      BY <2>1, <2>2 DEF LifeInv, Clearing, Ending, OnWalk, WalkingOn
    <2> QED BY <2>3, <2>4 DEF Shown, Lifecycle!Next
  <1> QED BY <1>1, <1>2 DEF Provision

LEMMA LifeRecover == ASSUME TypeInv, LifeInv, Recover PROVE LifeInv' /\ Shown
  <1>1. CASE /\ runtime' = [runtime EXCEPT !.recovering = FALSE] /\ UNCHANGED job
    <2>1. runtime'.replacementReady = runtime.replacementReady
      BY <1>1 DEF TypeInv, TypeOK, RuntimeType
    <2> QED BY <1>1, <2>1, Unseen DEF Recover, durable
  <1>2. CASE End(Failed("server_lost")) /\ UNCHANGED runtime
    BY <1>2, Ends DEF Recover, Begin, durable, Failed
  <1>3. CASE /\ match.state = "recovering" /\ UNCHANGED runtime
             /\ job' = [IdleJob EXCEPT !.pc = "next", !.walk = "recover"]
    <2>1. job'.pc = "next" /\ job'.walk = "recover" /\ UNCHANGED <<match, said>>
      BY <1>3, WalkSet DEF Recover, Places, durable
    <2> QED BY <1>3, <2>1 DEF LifeInv, Shown, Lifecycle!vars, Clearing, Ending, OnWalk, WalkingOn
  <1> QED BY <1>1, <1>2, <1>3 DEF Recover

\* The places of a walk at which a client sees nothing of it.
LEMMA WalksOn ==
  ASSUME TypeInv, LifeInv, job.pc \in OnWalk, job'.pc \in OnWalk \ {"configure"}, job'.walk = job.walk,
         job'.pc = "walked" => job'.found = FALSE \/ said.fact = "match.allocated",
         match'.state = match.state, UNCHANGED <<said, runtime>>
  PROVE  LifeInv' /\ Shown
  BY DEF LifeInv, Shown, Lifecycle!vars, Clearing, Ending, OnWalk, WalkingOn

LEMMA LifeWalkInsert == ASSUME TypeInv, LifeInv, NEW r \in Rows, WalkInsert(r) PROVE LifeInv' /\ Shown
  <1>1. job.pc = "next" /\ job'.pc = "point" /\ job'.walk = job.walk
    BY DEF WalkInsert, At, TypeInv, TypeOK, JobType
  <1> QED BY <1>1, WalksOn DEF WalkInsert, OnWalk, WalkingOn

LEMMA LifeWalkStop == ASSUME TypeInv, LifeInv, WalkStop PROVE LifeInv' /\ Shown
  <1>1. job.pc = "next" /\ job'.pc = "walked" /\ job'.walk = job.walk /\ job'.found = FALSE
    BY DEF WalkStop, At, TypeInv, TypeOK, JobType
  <1> QED BY <1>1, WalksOn DEF WalkStop, OnWalk, WalkingOn, durable

LEMMA LifeWalkPoint == ASSUME TypeInv, LifeInv, WalkPoint PROVE LifeInv' /\ Shown
  <1>1. job.pc = "point" /\ job'.pc = "allocate" /\ job'.walk = job.walk /\ match'.state = match.state
    BY DEF WalkPoint, At, TypeInv, TypeOK, JobType, MatchType
  <1> QED BY <1>1, WalksOn DEF WalkPoint, OnWalk, WalkingOn

LEMMA LifeWalkAllocate == ASSUME TypeInv, LifeInv, WalkAllocate PROVE LifeInv' /\ Shown
  <1>1. job.pc = "allocate" /\ job'.pc \in {"bind", "next"} /\ job'.walk = job.walk
    BY DEF WalkAllocate, At, TypeInv, TypeOK, JobType
  <1> QED BY <1>1, WalksOn DEF WalkAllocate, OnWalk, WalkingOn

LEMMA LifeWalkBind == ASSUME TypeInv, LifeInv, WalkBind PROVE LifeInv' /\ Shown
  <1>1. job.pc = "bind" /\ job'.pc = "take" /\ job'.walk = job.walk
    BY DEF WalkBind, At, TypeInv, TypeOK, JobType
  <1> QED BY <1>1, WalksOn DEF WalkBind, OnWalk, WalkingOn

LEMMA LifeWalkTake == ASSUME TypeInv, LifeInv, WalkTake PROVE LifeInv' /\ Shown
  <1>1. job.pc = "take" /\ job'.pc = "allocated" /\ job'.walk = job.walk /\ match'.state = match.state
    BY DEF WalkTake, At, TypeInv, TypeOK, JobType, MatchType
  <1> QED BY <1>1, WalksOn DEF WalkTake, OnWalk, WalkingOn

\* A server was obtained, and said.
LEMMA LifeWalkTell == ASSUME TypeInv, LifeInv, WalkTell PROVE LifeInv' /\ Shown
  <1>1. /\ job.pc = "allocated" /\ job'.pc = "configure" /\ job'.walk = job.walk
        /\ said'.fact = "match.allocated" /\ said'.told = said.told /\ UNCHANGED <<match, runtime>>
    BY DEF WalkTell, At, Emit, TypeInv, TypeOK, JobType, SaidType
  <1>2. match.state \in {"allocating", "recovering"}
    BY <1>1 DEF LifeInv, OnWalk, WalkingOn
  <1>3. Lifecycle!Allocated
    BY <1>1, <1>2 DEF Lifecycle!Allocated, Lifecycle!Say
  <1>4. LifeInv'
    BY <1>1, <1>2 DEF LifeInv, Clearing, Ending, OnWalk, WalkingOn
  <1> QED BY <1>3, <1>4 DEF Shown, Lifecycle!Next

LEMMA LifeWalkConfigure == ASSUME TypeInv, LifeInv, WalkConfigure PROVE LifeInv' /\ Shown
  <1>1. job.pc = "configure" /\ job'.pc \in {"walked", "next"} /\ job'.walk = job.walk
    BY DEF WalkConfigure, At, TypeInv, TypeOK, JobType
  <1>2. said.fact = "match.allocated"
    BY <1>1 DEF LifeInv
  <1> QED BY <1>1, <1>2, WalksOn DEF WalkConfigure, OnWalk, WalkingOn

LEMMA LifeWalked == ASSUME TypeInv, LifeInv, Walked PROVE LifeInv' /\ Shown
  <1>1. job.pc = "walked" /\ said' = said
    BY DEF Walked, At
  <1>2. CASE job.walk = "provision" /\ job.found /\ SetState("configuring") /\ Finished /\ UNCHANGED runtime
    <2>1. match.state = "allocating" /\ said.fact = "match.allocated"
      BY <1>1, <1>2 DEF LifeInv, OnWalk
    <2>2. match'.state = "configuring"
      BY <1>2 DEF SetState, TypeInv, TypeOK, MatchType
    <2>3. Lifecycle!Configured
      BY <1>1, <2>1, <2>2 DEF Lifecycle!Configured, Lifecycle!Move
    <2>4. LifeInv'
      BY <1>1, <1>2, <2>2, IdleTyped DEF LifeInv, Finished, Clearing, Ending, OnWalk, WalkingOn
    <2> QED BY <2>3, <2>4 DEF Shown, Lifecycle!Next
  <1>3. CASE Finished /\ match' = match /\ runtime' = [runtime EXCEPT !.recovering = FALSE]
    <2>1. runtime'.replacementReady = runtime.replacementReady
      BY <1>3 DEF TypeInv, TypeOK, RuntimeType
    <2> QED BY <1>1, <1>3, <2>1, Idles DEF Finished
  <1>4. CASE End(Failed("allocation_failed")) /\ UNCHANGED <<match, runtime>>
    BY <1>1, <1>4, Ends DEF Failed
  <1>5. CASE End(Failed("server_lost")) /\ UNCHANGED <<match, runtime>>
    BY <1>1, <1>5, Ends DEF Failed
  <1> QED BY <1>2, <1>3, <1>4, <1>5 DEF Walked

-----------------------------------------------------------------------------
(* Losses.                                                                 *)

LEMMA LifeLost ==
  ASSUME TypeInv, LifeInv, job.pc = "idle", Lost, match' = match PROVE LifeInv' /\ Shown
  <1>1. CASE match.state = "live" /\ LostFromLive
    BY <1>1, Loses
  <1>2. CASE End(Failed("server_lost")) /\ UNCHANGED <<said, runtime>>
    BY <1>2, Ends DEF Failed
  <1>3. CASE End(Failed("provider_error")) /\ UNCHANGED <<said, runtime>>
    BY <1>3, Ends DEF Failed
  <1>4. CASE UNCHANGED <<said, job, timers, runtime>>
    BY <1>4, Unseen
  <1> QED BY <1>1, <1>2, <1>3, <1>4 DEF Lost

LEMMA LifeProbe == ASSUME TypeInv, LifeInv, Probe PROVE LifeInv' /\ Shown
  <1>1. CASE UNCHANGED <<said, job, runtime>>
    BY <1>1, Unseen DEF Probe
  <1>2. CASE Lost
    BY <1>2, LifeLost DEF Probe, Begin
  <1> QED BY <1>1, <1>2 DEF Probe

LEMMA LifeSuspect == ASSUME TypeInv, LifeInv, Suspect PROVE LifeInv' /\ Shown
  <1>1. CASE UNCHANGED <<said, job, timers, runtime>>
    BY <1>1, Unseen DEF Suspect
  <1>2. CASE Lost
    BY <1>2, LifeLost DEF Suspect, Begin
  <1> QED BY <1>1, <1>2 DEF Suspect

\* The loss that was said is shown.
LEMMA LifeLostState == ASSUME TypeInv, LifeInv, LostState PROVE LifeInv' /\ Shown
  <1>1. /\ job.pc = "lost_state" /\ UNCHANGED <<said, runtime>>
        /\ job'.after = "lost_closed" /\ job'.pc \in {"lost_closed", "deallocate"}
        /\ match'.state = "recovering"
    BY DEF LostState, At, SetState, TypeInv, TypeOK, JobType, MatchType
  <1>2. match.state = "live" /\ said.fact = "match.recovering"
    BY <1>1 DEF LifeInv
  <1>3. Lifecycle!Recovering
    BY <1>1, <1>2 DEF Lifecycle!Recovering, Lifecycle!Move
  <1>4. LifeInv'
    BY <1>1 DEF LifeInv, Clearing, Ending, OnWalk, WalkingOn
  <1> QED BY <1>3, <1>4 DEF Shown, Lifecycle!Next

LEMMA LifeLostClosed == ASSUME TypeInv, LifeInv, LostClosed PROVE LifeInv' /\ Shown
  <1>1. job.pc = "lost_closed" /\ UNCHANGED <<match, said>>
    BY DEF LostClosed, At, durable
  <1>2. CASE KickRecovery /\ Finished
    <2>1. runtime'.replacementReady = runtime.replacementReady
      BY <1>2 DEF KickRecovery, TypeInv, TypeOK, RuntimeType
    <2> QED BY <1>1, <1>2, <2>1, Idles DEF Finished
  <1>3. CASE End(Failed("server_lost")) /\ UNCHANGED runtime
    BY <1>1, <1>3, Ends DEF Failed
  <1> QED BY <1>2, <1>3 DEF LostClosed

-----------------------------------------------------------------------------
(* What the server says.                                                   *)

LEMMA LifeLiveState == ASSUME TypeInv, LifeInv, LiveState PROVE LifeInv' /\ Shown
  <1>1. /\ job.pc = "live_state" /\ job' = IdleJob /\ UNCHANGED <<said, runtime>>
        /\ match'.state = "live"
    BY DEF LiveState, At, SetState, Finished, TypeInv, TypeOK, MatchType
  <1>2. Lifecycle!Resume \/ Lifecycle!GoLive
    BY <1>1 DEF LifeInv, Lifecycle!Resume, Lifecycle!GoLive, Lifecycle!Move
  <1>3. LifeInv'
    BY <1>1, IdleTyped DEF LifeInv, Clearing, Ending, OnWalk, WalkingOn
  <1> QED BY <1>2, <1>3 DEF Shown, Lifecycle!Next

LEMMA LifeServerReady == ASSUME TypeInv, LifeInv, ServerReady PROVE LifeInv' /\ Shown
  <1>1. CASE UNCHANGED job
    BY <1>1, Unseen DEF ServerReady
  <1>2. CASE job' = [IdleJob EXCEPT !.pc = "ready_state"]
    <2>1. /\ job'.pc = "ready_state" /\ job'.walk = "none" /\ UNCHANGED <<match, said, runtime>>
          /\ match.state \in {"configuring", "recovering"}
      BY <1>2, PcSet DEF ServerReady, Places
    <2> QED BY <2>1 DEF LifeInv, Shown, Lifecycle!vars, Clearing, Ending, OnWalk, WalkingOn
  <1> QED BY <1>1, <1>2 DEF ServerReady

LEMMA LifeReadyState == ASSUME TypeInv, LifeInv, ReadyState PROVE LifeInv' /\ Shown
  <1>1. /\ job.pc = "ready_state" /\ job'.pc = "ready_fact" /\ UNCHANGED <<said, runtime>>
        /\ match'.state = (IF match.state = "recovering" THEN "recovering" ELSE "ready")
    BY DEF ReadyState, At, SetState, TypeInv, TypeOK, JobType, MatchType
  <1>2. match.state \in {"configuring", "recovering"}
    BY <1>1 DEF LifeInv
  <1>3. Lifecycle!Ready \/ UNCHANGED Lifecycle!vars
    BY <1>1, <1>2 DEF Lifecycle!Ready, Lifecycle!Move, Lifecycle!vars
  <1>4. LifeInv'
    BY <1>1, <1>2 DEF LifeInv, Clearing, Ending, OnWalk, WalkingOn
  <1> QED BY <1>3, <1>4 DEF Shown, Lifecycle!Next

LEMMA LifeReadyFact == ASSUME TypeInv, LifeInv, ReadyFact PROVE LifeInv' /\ Shown
  <1>1. /\ job.pc = "ready_fact" /\ match' = match
        /\ said' = [fact |-> "match.server_ready", told |-> TRUE]
        /\ \/ job'.pc = "resumed" /\ match.state = "recovering"
           \/ job' = IdleJob
    BY DEF ReadyFact, At, TypeInv, TypeOK, JobType
  <1>2. match.state \in {"ready", "recovering"}
    BY <1>1 DEF LifeInv
  <1>3. Lifecycle!Connect
    BY <1>1, <1>2 DEF Lifecycle!Connect
  <1>4. LifeInv'
    BY <1>1, <1>2, IdleTyped DEF LifeInv, Clearing, Ending, OnWalk, WalkingOn
  <1> QED BY <1>3, <1>4 DEF Shown, Lifecycle!Next

\* The window closes on a server that was announced.
LEMMA LifeResumed == ASSUME TypeInv, LifeInv, Resumed PROVE LifeInv' /\ Shown
  <1>1. /\ job.pc = "resumed" /\ match' = match
        /\ job'.pc = "live_state" /\ job'.walk = "none"
        /\ said'.fact = "match.recovered" /\ said'.told = said.told
        /\ runtime'.replacementReady = runtime.replacementReady
    BY PcSet DEF Resumed, At, Emit, Places, TypeInv, TypeOK, SaidType, RuntimeType
  <1>2. match.state = "recovering" /\ said.told
    BY <1>1 DEF LifeInv
  <1>3. Lifecycle!Recovered
    BY <1>1, <1>2 DEF Lifecycle!Recovered, Lifecycle!Say
  <1>4. LifeInv'
    BY <1>1, <1>2 DEF LifeInv, Clearing, Ending, OnWalk, WalkingOn
  <1> QED BY <1>3, <1>4 DEF Shown, Lifecycle!Next

LEMMA LifeGoingLive == ASSUME TypeInv, LifeInv, GoingLive PROVE LifeInv' /\ Shown
  <1>1. /\ job.pc = "idle" /\ match.state = "ready" /\ UNCHANGED <<match, said>>
        /\ job'.pc = "live_state" /\ job'.walk = "none"
        /\ runtime'.replacementReady = runtime.replacementReady
    BY PcSet DEF GoingLive, Begin, OnMap, Places, TypeInv, TypeOK, RuntimeType
  <1> QED BY <1>1 DEF LifeInv, Shown, Lifecycle!vars, Clearing, Ending, OnWalk, WalkingOn

LEMMA LifeNextMap == ASSUME TypeInv, LifeInv, NextMap PROVE LifeInv' /\ Shown
  <1>1. UNCHANGED <<match, said, job>> /\ runtime'.replacementReady = runtime.replacementReady
    BY DEF NextMap, OnMap, TypeInv, TypeOK, RuntimeType
  <1> QED BY <1>1, Unseen

LEMMA LifeSign == ASSUME TypeInv, LifeInv, Sign PROVE LifeInv' /\ Shown
  <1>1. /\ job.pc = "idle" /\ match.state = "recovering" /\ UNCHANGED <<match, said>>
        /\ runtime'.replacementReady = runtime.replacementReady
    BY DEF Sign, Begin, TypeInv, TypeOK, RuntimeType
  <1>2. CASE runtime.replacementReady /\ job' = [IdleJob EXCEPT !.pc = "resumed"]
    <2>1. job'.pc = "resumed" /\ job'.walk = "none"
      BY <1>2, PcSet DEF Places
    <2>2. said.told
      BY <1>2 DEF LifeInv
    <2> QED BY <1>1, <2>1, <2>2 DEF LifeInv, Shown, Lifecycle!vars, Clearing, Ending, OnWalk, WalkingOn
  <1>3. CASE job' = IdleJob
    BY <1>1, <1>3, Idles
  <1> QED BY <1>2, <1>3 DEF Sign

LEMMA LifeSeries == ASSUME TypeInv, LifeInv, SeriesEnd \/ DemoAvailable PROVE LifeInv' /\ Shown
  <1>1. job.pc = "idle" /\ UNCHANGED <<match, said>>
    BY DEF SeriesEnd, DemoAvailable, Begin
  <1>2. runtime'.replacementReady = runtime.replacementReady
    BY DEF SeriesEnd, DemoAvailable, TypeInv, TypeOK, RuntimeType
  <1>3. CASE UNCHANGED job
    BY <1>1, <1>2, <1>3, Unseen
  <1>4. CASE End(Ended("completed"))
    BY <1>1, <1>2, <1>4, Ends DEF Ended
  <1> QED BY <1>3, <1>4 DEF SeriesEnd, DemoAvailable

-----------------------------------------------------------------------------
(* Another server before the match is live.                                *)

LEMMA LifeReprovision == ASSUME TypeInv, LifeInv, Reprovision PROVE LifeInv' /\ Shown
  <1>1. job.pc = "idle" /\ match' = match
    BY DEF Reprovision, Begin
  <1>2. CASE UNCHANGED <<said, job, timers, runtime>>
    BY <1>1, <1>2, Unseen
  <1>3. CASE match.state = "live" /\ LostFromLive
    BY <1>1, <1>3, Loses
  <1>4. CASE /\ match.state \in Open \ {"live", "recovering"} /\ UNCHANGED <<said, runtime>>
             /\ job' = [IdleJob EXCEPT !.after = "reprovision_clear",
                          !.pc = IF Current = None THEN "reprovision_clear" ELSE "deallocate"]
    <2>1. /\ job'.after = "reprovision_clear" /\ job'.walk = "none"
          /\ job'.pc \in {"reprovision_clear", "deallocate"}
      BY <1>4, IdleTyped DEF JobType
    <2> QED BY <1>1, <1>4, <2>1
            DEF LifeInv, Shown, Lifecycle!vars, Lifecycle!Before, Clearing, Ending, OnWalk, WalkingOn, Open
  <1> QED BY <1>2, <1>3, <1>4 DEF Reprovision

LEMMA LifeReprovisionClear == ASSUME TypeInv, LifeInv, ReprovisionClear PROVE LifeInv' /\ Shown
  <1>1. /\ job.pc = "reprovision_clear" /\ job'.pc = "reprovision_state"
        /\ match'.state = match.state /\ UNCHANGED <<said, runtime>>
    BY DEF ReprovisionClear, At, TypeInv, TypeOK, JobType, MatchType
  <1> QED BY <1>1 DEF LifeInv, Shown, Lifecycle!vars, Clearing, Ending, OnWalk, WalkingOn

LEMMA LifeReprovisionState == ASSUME TypeInv, LifeInv, ReprovisionState PROVE LifeInv' /\ Shown
  <1>1. /\ job.pc = "reprovision_state" /\ job' = IdleJob
        /\ match'.state = "pending" /\ UNCHANGED <<said, runtime>>
    BY DEF ReprovisionState, At, SetState, Finished, TypeInv, TypeOK, MatchType
  <1>2. Lifecycle!StartOver
    BY <1>1 DEF LifeInv, Clearing, Lifecycle!StartOver, Lifecycle!Move
  <1>3. LifeInv'
    BY <1>1, IdleTyped DEF LifeInv, Clearing, Ending, OnWalk, WalkingOn
  <1> QED BY <1>2, <1>3 DEF Shown, Lifecycle!Next

-----------------------------------------------------------------------------
(* The rest does not touch what a client sees.                             *)

LEMMA LifeUntouched ==
  ASSUME TypeInv, LifeInv,
         \/ EventIgnored \/ Restore \/ PauseOrUnpause \/ OrphanFact
         \/ Clock \/ Servers \/ Clients \/ Operators \/ Reaper
  PROVE  LifeInv' /\ Shown
  <1>1. CASE EventIgnored \/ OrphanFact
    BY <1>1, Unseen DEF EventIgnored, OrphanFact, durable
  <1>2. CASE Restore \/ PauseOrUnpause
    <2>1. UNCHANGED <<match, said, job>> /\ runtime'.replacementReady = runtime.replacementReady
      BY <1>2 DEF Restore, PauseOrUnpause, durable, TypeInv, TypeOK, RuntimeType
    <2> QED BY <2>1, Unseen
  <1>3. CASE Clock \/ Servers \/ Clients \/ Operators
    BY <1>3, Unseen DEF Clock, Servers, Clients, Operators, Fire, Touch, Backup, Die, Say, Ask,
       OperatorRelease, durable, memory
  <1>4. CASE Reaper
    BY <1>4, Unseen DEF Reaper, ReaperLook, ReaperList, ReaperBlind, durable, memory
  <1> QED BY <1>1, <1>2, <1>3, <1>4

LEMMA InitLife == Init => LifeInv /\ Lifecycle!Init
  BY IdleTyped DEF Init, LifeInv, Lifecycle!Init, NewRuntime, Clearing, Ending, OnWalk, WalkingOn

LEMMA NextLife == ASSUME TypeInv, LifeInv, [Living]_vars PROVE LifeInv' /\ Shown
  <1>1. CASE UNCHANGED vars
    BY <1>1, Unseen DEF vars, durable, memory
  <1>2. CASE Handlers
    BY <1>2, LifeEndStep, LifeClosing, LifeEndFact, LifeProvision, LifeRecover, LifeWalkInsert,
       LifeWalkStop, LifeWalkPoint, LifeWalkAllocate, LifeWalkBind, LifeWalkTake, LifeWalkTell,
       LifeWalkConfigure, LifeWalked, LifeProbe, LifeSuspect, LifeLostState, LifeLostClosed,
       LifeLiveState, LifeServerReady, LifeReadyState, LifeReadyFact, LifeResumed, LifeGoingLive,
       LifeNextMap, LifeSign, LifeSeries, LifeReprovision, LifeReprovisionClear, LifeReprovisionState, LifeUntouched
       DEF Handlers
  <1>3. CASE Clock \/ Servers \/ Clients \/ Operators \/ Reaper
    BY <1>3, LifeUntouched
  <1> QED BY <1>1, <1>2, <1>3 DEF Living

-----------------------------------------------------------------------------
(* Until the first mishap every step is a Living one.                      *)

\* Nothing has gone wrong so far.
Unharmed == crashes + faults = 0

\* What holds until then.
UnharmedInv == Unharmed => up /\ LifeInv

\* No step of a living process kills it or counts a mishap.
LEMMA LivingLives == ASSUME Living PROVE UNCHANGED <<up, crashes, faults>>
  <1>1. CASE EndStep \/ Deallocate \/ CloseRow \/ EndFact \/ Provision \/ Recover
    BY <1>1 DEF EndStep, Deallocate, CloseRow, EndFact, Provision, Recover, watch, mishaps
  <1>2. CASE \/ WalkStop \/ WalkPoint \/ WalkAllocate \/ WalkBind \/ WalkTake \/ WalkTell
             \/ WalkConfigure \/ Walked \/ \E r \in Rows : WalkInsert(r)
    BY <1>2 DEF WalkStop, WalkPoint, WalkAllocate, WalkBind, WalkTake, WalkTell, WalkConfigure,
       Walked, WalkInsert, durable, watch, mishaps
  <1>3. CASE LostState \/ LostClosed \/ Probe \/ Suspect \/ LiveState \/ EventIgnored
    BY <1>3 DEF LostState, LostClosed, Probe, Suspect, LiveState, EventIgnored, watch, mishaps
  <1>4. CASE ServerReady \/ ReadyState \/ ReadyFact \/ Resumed \/ GoingLive \/ NextMap \/ Sign
    BY <1>4 DEF ServerReady, ReadyState, ReadyFact, Resumed, GoingLive, NextMap, Sign, watch, mishaps
  <1>5. CASE SeriesEnd \/ DemoAvailable \/ Reprovision \/ ReprovisionClear \/ ReprovisionState
    BY <1>5 DEF SeriesEnd, DemoAvailable, Reprovision, ReprovisionClear, ReprovisionState, watch, mishaps
  <1>6. CASE Restore \/ PauseOrUnpause \/ OrphanFact
    BY <1>6 DEF Restore, PauseOrUnpause, OrphanFact, watch, mishaps
  <1>7. CASE Clock \/ Servers \/ Clients \/ Operators
    BY <1>7 DEF Clock, Servers, Clients, Operators, Fire, Touch, Backup, Die, Say, Ask,
       OperatorRelease, memory, watch, mishaps
  <1>8. CASE Reaper
    BY <1>8 DEF Reaper, ReaperLook, ReaperList, ReaperBlind, memory, mishaps
  <1> QED BY <1>1, <1>2, <1>3, <1>4, <1>5, <1>6, <1>7, <1>8 DEF Living, Handlers

\* Mishaps are counted and never forgotten: a step that ends unharmed began so, and is the
\* step of a living process.
LEMMA BeforeMishaps ==
  ASSUME TypeInv, UnharmedInv, [Next]_vars, Unharmed'
  PROVE  Unharmed /\ up' /\ [Living]_vars
  <1>1. crashes \in Nat /\ faults \in Nat
    BY DEF TypeInv, TypeOK
  <1>2. CASE UNCHANGED vars
    BY <1>2 DEF vars, memory, watch, mishaps, Unharmed, UnharmedInv
  <1>3. CASE Living
    BY <1>3, LivingLives DEF Unharmed, UnharmedInv
  <1>4. CASE StoreFails \/ Crash
    BY <1>1, <1>4 DEF StoreFails, Crash, Unharmed
  <1>5. CASE Resume
    BY <1>5 DEF Resume, watch, mishaps, Unharmed, UnharmedInv
  <1> QED BY <1>2, <1>3, <1>4, <1>5 DEF Next

\* Until the first mishap a step keeps what the places know, and is one of the lifecycle's.
LEMMA UnharmedStep ==
  ASSUME TypeInv, UnharmedInv, [Next]_vars
  PROVE  UnharmedInv' /\ [Unharmed' => Lifecycle!Next]_(Lifecycle!vars)
  <1>1. CASE Unharmed'
    <2>1. LifeInv /\ up' /\ [Living]_vars
      BY <1>1, BeforeMishaps DEF UnharmedInv
    <2> QED BY <2>1, NextLife DEF UnharmedInv, Shown
  <1>2. CASE ~Unharmed'
    BY <1>2 DEF UnharmedInv
  <1> QED BY <1>1, <1>2

\* What the places of a handler know holds until the first mishap.
THEOREM LifeInvariant == Spec => [](TypeInv /\ UnharmedInv)
  <1>1. Init => TypeInv /\ UnharmedInv
    BY InitTyped, InitLife DEF Init, UnharmedInv
  <1>2. TypeInv /\ UnharmedInv /\ [Next]_vars => TypeInv' /\ UnharmedInv'
    BY NextTyped, UnharmedStep
  <1> QED BY <1>1, <1>2, PTL DEF Spec

\* As long as the process lives and its store answers, whatever walks, losses, commands and
\* deadlines come in whatever order, a client is shown the lifecycle the API promises.
THEOREM MachineImplementsLifecycle == Spec => ImplementsLifecycle
  <1>1. Init => Lifecycle!Init
    BY InitLife
  <1>2. TypeInv /\ UnharmedInv /\ [Next]_vars
          => [crashes' + faults' = 0 => Lifecycle!Next]_(Lifecycle!vars)
    BY UnharmedStep DEF Unharmed
  <1> QED BY <1>1, <1>2, LifeInvariant, PTL DEF Spec, ImplementsLifecycle

-----------------------------------------------------------------------------
(***************************************************************************)
(* An open match is attended.                                              *)
(*                                                                         *)
(* The promise is about a machine at rest, and a handler breaks it at      *)
(* every write. TendedInv says what a state is owed at each place of a     *)
(* handler: the timers and the steps in line that are to take the match    *)
(* on, in a life of the process whose store always answered.               *)
(***************************************************************************)

\* On the way to the recovery a loss is followed by.
Losing(j) == j.pc = "lost_closed" \/ (j.pc \in {"deallocate", "close"} /\ j.after = "lost_closed")

\* What the place a handler stands at says of the match, whatever died before.
PlaceInv ==
    /\ job.pc \in OnWalk => \/ job.walk = "provision" /\ match.state = "allocating"
                            \/ job.walk = "recover" /\ match.state = "recovering"
    /\ job.pc = "lost_state" => match.state = "live"
    /\ job.pc = "live_state" => match.state \in {"ready", "recovering"}
    /\ job.pc = "resumed" => match.state = "recovering"
    /\ job.pc = "ready_state" => match.state \in {"configuring", "recovering"}
    /\ job.pc = "ready_fact" => match.state \in {"ready", "recovering"}
    /\ Clearing(job) => match.state \in Lifecycle!Before
    /\ Losing(job) => match.state = "recovering"

\* The kinds of the steps on the chain, and of those with the deadlines still armed.
InLine == {chain[i].kind : i \in 1..Len(chain)}
Owed   == timers \cup InLine

\* An open match, in a life of the process whose store always answered.
Kept == up /\ faults = 0 /\ ~IsTerminal /\ ~Ending(job)

\* At every place, and not only between steps: what an open match is owed, or who is about to
\* owe it.
AttendInv ==
    Kept =>
      /\ "ttl" \in Owed
      /\ match.state = "pending" => "provision" \in InLine \/ Clearing(job)
      /\ match.state = "allocating" => "provision" \in InLine \/ job.pc \in OnWalk \/ Clearing(job)
      /\ match.state = "configuring" =>
            "boot" \in Owed \/ job.pc = "ready_state" \/ Clearing(job) \/ Current \in unread
      /\ match.state = "ready" =>
            \/ "join" \in Owed \/ "completed" \in InLine
            \/ job.pc \in {"ready_fact", "live_state"} \/ Clearing(job)
      /\ match.state = "recovering" =>
            \/ "recovery" \in Owed \/ "join" \in Owed \/ unread # {}
            \/ job.pc \in {"ready_state", "ready_fact", "live_state"} \/ Losing(job)

\* The places at which a match with a server is watched.
Watching == {"idle", "ready_state", "ready_fact", "resumed", "live_state"}

WatchInv ==
    /\ job.pc = "lost_closed" => ~HasOpenServer
    /\ up /\ faults = 0 /\ match.state \in Probeable /\ job.pc \in Watching =>
         ~HasOpenServer \/ ~HasHandle \/ runtime.paused \/ "heartbeat" \in Owed

Tended == PlaceInv /\ AttendInv /\ WatchInv

-----------------------------------------------------------------------------
(* What a step does to what is owed.                                       *)

\* A step taken from the chain: its kind may be off it, no other is.
LEMMA LineOfTail ==
  ASSUME TypeOK, chain # <<>>, chain' = Tail(chain)
  PROVE  InLine \subseteq InLine' \cup {Head(chain).kind}
  <1>1. chain \in Seq(StepType) /\ Len(chain) \in Nat /\ Len(chain) # 0
    BY DEF TypeOK
  <1>2. Len(Tail(chain)) = Len(chain) - 1
    BY <1>1
  <1>3. ASSUME NEW i \in 1..Len(chain), i # 1
        PROVE  i - 1 \in 1..Len(Tail(chain)) /\ Tail(chain)[i - 1] = chain[i]
    BY <1>1, <1>2, <1>3
  <1>4. Head(chain) = chain[1]
    BY <1>1
  <1> QED BY <1>3, <1>4 DEF InLine

\* A step added is on it, and the others are where they were.
LEMMA LineOfAppend ==
  ASSUME TypeOK, NEW s \in StepType, chain' = Append(chain, s)
  PROVE  InLine \cup {s.kind} \subseteq InLine'
  <1>1. chain \in Seq(StepType) /\ Len(chain) \in Nat
    BY DEF TypeOK
  <1>2. Len(chain') = Len(chain) + 1 /\ chain'[Len(chain) + 1] = s
    BY <1>1
  <1>3. ASSUME NEW i \in 1..Len(chain) PROVE i \in 1..Len(chain') /\ chain'[i] = chain[i]
    BY <1>1, <1>2
  <1>4. Len(chain) + 1 \in 1..Len(chain')
    BY <1>1, <1>2
  <1> QED BY <1>2, <1>3, <1>4 DEF InLine

LEMMA LineOfMore ==
  ASSUME TypeOK, NEW p \in Seq(StepType), NEW q \in Seq(StepType), chain' = chain \o p \o q
  PROVE  InLine \subseteq InLine'
  <1>1. chain \in Seq(StepType) /\ chain \o p \in Seq(StepType) /\ Len(chain) \in Nat
    BY DEF TypeOK
  <1>2. Len(chain \o p) = Len(chain) + Len(p) /\ Len(chain') = Len(chain \o p) + Len(q)
    BY <1>1
  <1>3. ASSUME NEW i \in 1..Len(chain) PROVE i \in 1..Len(chain') /\ chain'[i] = chain[i]
    <2>1. (chain \o p)[i] = chain[i] /\ i \in 1..Len(chain \o p)
      BY <1>1, <1>2
    <2> QED BY <1>1, <1>2, <2>1
  <1> QED BY <1>3 DEF InLine

\* A step whose handler has begun.
LEMMA Taken ==
  ASSUME TypeInv, NEW ks, Begin(ks), chain' = Tail(chain)
  PROVE  /\ up /\ job.pc = "idle" /\ Head(chain).kind \in ks
         /\ InLine \subseteq InLine' \cup {Head(chain).kind}
  BY LineOfTail DEF Begin, TypeInv

\* An end is owed nothing, and is carried to its fact.
LEMMA EndTended == ASSUME NEW v, End(v) PROVE Tended'
  <1>1. job' = [pc |-> IF Current = None THEN "end" ELSE "deallocate", after |-> "end", ending |-> v,
            walk |-> "none", cand |-> None, found |-> FALSE]
    BY DEF End, IdleJob
  <1> QED BY <1>1 DEF Tended, PlaceInv, AttendInv, WatchInv, Kept, Watching, Ending, Clearing, Losing,
          OnWalk, WalkingOn

\* A step nobody waits for leaves an open match attended, between steps.
LEMMA AttendedOn ==
  ASSUME Tended, NEW K, UNCHANGED <<up, faults, unread, job, match>>,
         Owed \subseteq Owed' \cup K, InLine \subseteq InLine' \cup K,
         Kept => K \cap {"ttl", "provision", "boot", "join", "completed", "recovery"} = {}
  PROVE  PlaceInv' /\ AttendInv'
  <1>1. PlaceInv'
    BY DEF Tended, PlaceInv, Clearing, Losing
  <1>2. AttendInv'
    BY DEF Tended, AttendInv, Kept, IsTerminal, Ending, Clearing, Losing, Current
  <1> QED BY <1>1, <1>2

\* A match that was watched and whose server, pause and deadline nobody touched is watched.
LEMMA WatchedOn ==
  ASSUME Tended, NEW K, UNCHANGED <<up, faults, unread>>, job'.pc # "lost_closed", job.pc \in Watching,
         match'.state \in Probeable => match.state \in Probeable,
         HasOpenServer' => HasOpenServer, HasHandle' => HasHandle,
         runtime.paused => runtime'.paused,
         Owed \subseteq Owed' \cup K, "heartbeat" \notin K
  PROVE  WatchInv'
  BY DEF Tended, WatchInv

\* One whose deadline was just armed is watched.
LEMMA HeardIsWatched ==
  ASSUME job'.pc # "lost_closed", runtime'.paused \/ "heartbeat" \in timers'
  PROVE  WatchInv'
  BY DEF WatchInv, Owed

\* At the places nobody watches there is nothing to show.
LEMMA NotWatched == ASSUME job'.pc \notin Watching \cup {"lost_closed"} PROVE WatchInv'
  BY DEF WatchInv

\* A step off the chain, or the steps at a handler's places that touch none of it.
LEMMA TendedOn ==
  ASSUME Tended, UNCHANGED <<up, faults, unread, job, match>>, Owed \subseteq Owed', InLine \subseteq InLine',
         HasOpenServer' => HasOpenServer, HasHandle' => HasHandle, runtime.paused => runtime'.paused
  PROVE  Tended'
  <1>1. PlaceInv' /\ AttendInv'
    BY DEF Tended, PlaceInv, AttendInv, Kept, IsTerminal, Ending, Clearing, Losing, Current
  <1>2. WatchInv'
    BY DEF Tended, WatchInv
  <1> QED BY <1>1, <1>2 DEF Tended

-----------------------------------------------------------------------------
(* Ends and closings.                                                      *)

LEMMA TendedEndStep == ASSUME TypeInv, Tended, EndStep PROVE Tended'
  <1> DEFINE h == Head(chain).kind
  <1>1. /\ up /\ job.pc = "idle" /\ h \in Enders /\ InLine \subseteq InLine' \cup {h}
        /\ UNCHANGED <<up, faults, unread, match, ledger, runtime>>
    BY Taken DEF EndStep, durable, watch, mishaps
  <1>2. CASE Verdict(Head(chain)) = NoEnd /\ UNCHANGED <<job, timers>>
    <2>1. Owed \subseteq Owed' \cup {h}
      BY <1>1, <1>2 DEF Owed
    <2>2. IsTerminal \/ h \notin {"ttl", "completed"}
      BY <1>2 DEF Verdict, NoEnd, Ended
    <2>3. h # "heartbeat" /\ h # "provision"
      BY <1>1 DEF Enders
    <2>4. /\ h = "boot" => match.state # "configuring"
          /\ h = "join" => match.state \notin {"ready", "recovering"}
          /\ h = "recovery" => match.state # "recovering"
      BY <1>2 DEF Verdict, NoEnd, Ended, Failed, IsTerminal, Terminal
    <2>5. PlaceInv'
      BY <1>1, <1>2 DEF Tended, PlaceInv, Clearing, Losing
    <2>6. AttendInv'
      BY <1>1, <1>2, <2>1, <2>2, <2>3, <2>4
         DEF Tended, AttendInv, Kept, IsTerminal, Ending, Clearing, Losing, Current
    <2>7. WatchInv'
      BY <1>1, <1>2, <2>1, <2>3, WatchedOn DEF Watching, HasOpenServer, HasHandle, Current, IsOpen, IsBound
    <2> QED BY <2>5, <2>6, <2>7 DEF Tended
  <1>3. CASE Verdict(Head(chain)) # NoEnd /\ End(Verdict(Head(chain)))
    BY <1>3, EndTended
  <1> QED BY <1>2, <1>3 DEF EndStep

LEMMA TendedDeallocate == ASSUME TypeInv, Tended, Deallocate PROVE Tended'
  <1>1. /\ job.pc = "deallocate" /\ job'.pc = "close" /\ job'.after = job.after /\ job'.ending = job.ending
        /\ UNCHANGED <<up, faults, unread, match, chain, timers>>
    BY DEF Deallocate, At, durable, watch, mishaps, TypeInv, TypeOK, JobType
  <1>2. PlaceInv' /\ AttendInv'
    BY <1>1 DEF Tended, PlaceInv, AttendInv, Kept, IsTerminal, Ending, Clearing, Losing, Owed, InLine,
       OnWalk, WalkingOn, Current
  <1> QED BY <1>1, <1>2, NotWatched DEF Tended, Watching

\* A row that is closed is no server's any more.
LEMMA TendedCloseRow == ASSUME TypeInv, Tended, CloseRow PROVE Tended'
  <1>1. /\ job.pc = "close" /\ job'.pc = job.after /\ job'.after = job.after /\ job'.ending = job.ending
        /\ job.after \in Returns /\ UNCHANGED <<up, faults, unread, match, chain, timers>>
    BY DEF CloseRow, At, watch, mishaps, TypeInv, TypeOK, JobType
  <1>2. PlaceInv' /\ AttendInv'
    BY <1>1 DEF Tended, PlaceInv, AttendInv, Kept, IsTerminal, Ending, Clearing, Losing, Owed, InLine,
       OnWalk, WalkingOn, Returns
  <1>3. ~HasOpenServer'
    <2>1. Current \in Rows
      BY <1>1 DEF TypeInv, JobInv
    <2>2. ledger'[Current].released
      BY <2>1 DEF CloseRow, CloseOf, TypeInv, TypeOK, RowType
    <2> QED BY <1>1, <2>2 DEF HasOpenServer, IsOpen, Current
  <1>4. WatchInv'
    BY <1>1, <1>3 DEF WatchInv, Returns, Watching
  <1> QED BY <1>2, <1>4 DEF Tended

LEMMA TendedEndFact == ASSUME TypeInv, Tended, EndFact PROVE Tended'
  <1>1. job' = IdleJob /\ match'.state = job.ending.state
    BY DEF EndFact, Finished, TypeInv, TypeOK, MatchType
  <1>2. IsTerminal'
    BY <1>1 DEF EndFact, At, TypeInv, JobInv, Ending, IsTerminal
  <1> QED BY <1>1, <1>2, IdleTyped
          DEF Tended, PlaceInv, AttendInv, WatchInv, Kept, IsTerminal, Terminal, Probeable, Clearing, Losing,
              OnWalk, WalkingOn

-----------------------------------------------------------------------------
(* Walks.                                                                  *)

LEMMA TendedProvision == ASSUME TypeInv, Tended, Provision PROVE Tended'
  <1> DEFINE h == Head(chain).kind
  <1>1. /\ up /\ job.pc = "idle" /\ h = "provision" /\ InLine \subseteq InLine' \cup {h}
        /\ UNCHANGED <<up, faults, unread, ledger, runtime>>
    BY Taken DEF Provision, watch, mishaps
  <1>2. CASE match.state \notin {"pending", "allocating"} /\ UNCHANGED <<match, job, timers>>
    <2>1. Owed \subseteq Owed' \cup {h}
      BY <1>1, <1>2 DEF Owed
    <2>2. PlaceInv'
      BY <1>1, <1>2 DEF Tended, PlaceInv, Clearing, Losing
    <2>3. AttendInv'
      BY <1>1, <1>2, <2>1 DEF Tended, AttendInv, Kept, IsTerminal, Ending, Clearing, Losing, Current
    <2>4. WatchInv'
      BY <1>1, <1>2, <2>1, WatchedOn DEF Watching, HasOpenServer, HasHandle, Current, IsOpen, IsBound
    <2> QED BY <2>2, <2>3, <2>4 DEF Tended
  <1>3. CASE /\ match.state \in {"pending", "allocating"}
             /\ SetState("allocating")
             /\ timers' = timers \cup {"allocate"}
             /\ job' = [IdleJob EXCEPT !.pc = "next", !.walk = "provision"]
    <2>1. job'.pc = "next" /\ job'.walk = "provision" /\ match'.state = "allocating"
      BY <1>3, WalkSet DEF Places, SetState, TypeInv, TypeOK, MatchType
    <2>2. "ttl" \in Owed => "ttl" \in Owed'
      BY <1>1, <1>3 DEF Owed
    <2>3. Kept' => Kept
      BY <1>1, <1>3, <2>1 DEF Kept, IsTerminal, Terminal, Ending
    <2>4. PlaceInv' /\ AttendInv'
      BY <2>1, <2>2, <2>3 DEF Tended, PlaceInv, AttendInv, Clearing, Losing, OnWalk, WalkingOn
    <2> QED BY <2>1, <2>4, NotWatched DEF Tended, Watching
  <1> QED BY <1>2, <1>3 DEF Provision

LEMMA TendedRecover == ASSUME TypeInv, Tended, Recover PROVE Tended'
  <1> DEFINE h == Head(chain).kind
  <1>1. /\ up /\ job.pc = "idle" /\ h = "recover" /\ InLine \subseteq InLine' \cup {h}
        /\ UNCHANGED <<up, faults, unread, match, ledger>>
    BY Taken DEF Recover, durable, watch, mishaps
  <1>2. CASE runtime' = [runtime EXCEPT !.recovering = FALSE] /\ UNCHANGED <<job, timers>>
    <2>1. Owed \subseteq Owed' \cup {h} /\ runtime'.paused = runtime.paused
      BY <1>1, <1>2 DEF Owed, TypeInv, TypeOK, RuntimeType
    <2>2. PlaceInv' /\ AttendInv'
      BY <1>1, <1>2, <2>1, AttendedOn
    <2>3. WatchInv'
      BY <1>1, <1>2, <2>1, WatchedOn DEF Watching, HasOpenServer, HasHandle, Current, IsOpen, IsBound
    <2> QED BY <2>2, <2>3 DEF Tended
  <1>3. CASE End(Failed("server_lost"))
    BY <1>3, EndTended
  <1>4. CASE /\ match.state = "recovering" /\ UNCHANGED <<timers, runtime>>
             /\ job' = [IdleJob EXCEPT !.pc = "next", !.walk = "recover"]
    <2>1. job'.pc = "next" /\ job'.walk = "recover"
      BY <1>4, WalkSet DEF Places
    <2>2. Owed \subseteq Owed' \cup {h}
      BY <1>1, <1>4 DEF Owed
    <2>3. PlaceInv'
      BY <1>1, <1>4, <2>1 DEF PlaceInv, Clearing, Losing, OnWalk, WalkingOn
    <2>4. AttendInv'
      BY <1>1, <1>4, <2>1, <2>2 DEF Tended, AttendInv, Kept, IsTerminal, Ending, Clearing, Losing
    <2> QED BY <2>1, <2>3, <2>4, NotWatched DEF Tended, Watching
  <1> QED BY <1>2, <1>3, <1>4 DEF Recover

\* From one place of a walk to the next.
LEMMA WalkTended ==
  ASSUME TypeInv, Tended, job.pc \in OnWalk, job'.pc \in OnWalk, job'.walk = job.walk,
         match'.state = match.state, UNCHANGED <<up, faults, unread, chain, timers>>
  PROVE  Tended'
  <1>1. PlaceInv' /\ AttendInv'
    BY DEF Tended, PlaceInv, AttendInv, Kept, IsTerminal, Ending, Clearing, Losing, Owed, InLine,
       OnWalk, WalkingOn
  <1> QED BY <1>1, NotWatched DEF Tended, Watching, OnWalk, WalkingOn

LEMMA TendedWalk ==
  ASSUME TypeInv, Tended,
         \/ WalkStop \/ WalkPoint \/ WalkAllocate \/ WalkBind \/ WalkTake \/ WalkTell \/ WalkConfigure
         \/ \E r \in Rows : WalkInsert(r)
  PROVE  Tended'
  <1>1. UNCHANGED <<up, faults, unread, chain, timers>>
    BY DEF WalkStop, WalkPoint, WalkAllocate, WalkBind, WalkTake, WalkTell, WalkConfigure, WalkInsert,
       watch, mishaps
  <1>2. match'.state = match.state
    BY DEF WalkStop, WalkPoint, WalkAllocate, WalkBind, WalkTake, WalkTell, WalkConfigure, WalkInsert,
       durable, TypeInv, TypeOK, MatchType
  <1>3. job.pc \in OnWalk /\ job'.pc \in OnWalk
    BY DEF WalkStop, WalkPoint, WalkAllocate, WalkBind, WalkTake, WalkTell, WalkConfigure, WalkInsert,
       At, TypeInv, TypeOK, JobType, OnWalk, WalkingOn
  <1>4. job'.walk = job.walk
    BY DEF WalkStop, WalkPoint, WalkAllocate, WalkBind, WalkTake, WalkTell, WalkConfigure, WalkInsert,
       TypeInv, TypeOK, JobType
  <1> QED BY <1>1, <1>2, <1>3, <1>4, WalkTended

LEMMA HeardKeeps == ASSUME NEW ts PROVE ts \subseteq Heard(ts) /\ (runtime.paused \/ "heartbeat" \in Heard(ts))
  BY DEF Heard

LEMMA TendedWalked == ASSUME TypeInv, Tended, Walked PROVE Tended'
  <1>1. job.pc = "walked" /\ UNCHANGED <<up, faults, unread, chain>>
    BY DEF Walked, At, watch, mishaps
  <1>2. CASE /\ job.walk = "provision" /\ SetState("configuring") /\ Finished /\ UNCHANGED runtime
             /\ timers' = Heard((timers \ {"allocate"}) \cup {"boot"})
    <2>1. /\ job'.pc = "idle" /\ match'.state = "configuring" /\ match.state = "allocating"
          /\ "boot" \in timers' /\ (runtime'.paused \/ "heartbeat" \in timers')
          /\ "ttl" \in timers => "ttl" \in timers'
      BY <1>1, <1>2, IdleTyped, HeardKeeps
         DEF Finished, SetState, TypeInv, TypeOK, MatchType, Tended, PlaceInv, OnWalk, WalkingOn
    <2>2. PlaceInv' /\ AttendInv'
      BY <1>1, <1>2, <2>1, IdleTyped
         DEF Tended, PlaceInv, AttendInv, Kept, IsTerminal, Terminal, Ending, Clearing, Losing, Owed, InLine,
             OnWalk, WalkingOn
    <2> QED BY <2>1, <2>2, HeardIsWatched DEF Tended
  <1>3. CASE /\ job.walk = "recover" /\ timers' = Heard(timers)
             /\ runtime' = [runtime EXCEPT !.recovering = FALSE]
             /\ Finished /\ UNCHANGED match
    <2>1. /\ job'.pc = "idle" /\ match.state = "recovering" /\ timers \subseteq timers'
          /\ runtime'.paused \/ "heartbeat" \in timers'
      BY <1>1, <1>3, IdleTyped, HeardKeeps
         DEF Finished, TypeInv, TypeOK, RuntimeType, Tended, PlaceInv, OnWalk, WalkingOn
    <2>2. PlaceInv' /\ AttendInv'
      BY <1>1, <1>3, <2>1, IdleTyped
         DEF Tended, PlaceInv, AttendInv, Kept, IsTerminal, Terminal, Ending, Clearing, Losing, Owed, InLine,
             OnWalk, WalkingOn
    <2> QED BY <2>1, <2>2, HeardIsWatched DEF Tended
  <1>4. CASE End(Failed("allocation_failed")) \/ End(Failed("server_lost"))
    BY <1>4, EndTended
  <1> QED BY <1>2, <1>3, <1>4 DEF Walked

-----------------------------------------------------------------------------
(* Losses.                                                                 *)

LEMMA TendedLoss ==
  ASSUME TypeInv, Tended, NEW K, job.pc = "idle", match.state = "live", LostFromLive,
         UNCHANGED <<up, faults, unread, match>>, InLine \subseteq InLine' \cup K, "ttl" \notin K
  PROVE  Tended'
  <1>1. job'.pc = "lost_state"
    BY DEF LostFromLive, IdleJob
  <1>2. "ttl" \in Owed => "ttl" \in Owed'
    BY DEF LostFromLive, Owed
  <1>3. PlaceInv' /\ AttendInv'
    BY <1>1, <1>2
       DEF Tended, PlaceInv, AttendInv, Kept, IsTerminal, Ending, Clearing, Losing, OnWalk, WalkingOn
  <1> QED BY <1>1, <1>3, NotWatched DEF Tended, Watching

LEMMA TendedProbe == ASSUME TypeInv, Tended, Probe PROVE Tended'
  <1> DEFINE h == Head(chain).kind
  <1>1. /\ up /\ job.pc = "idle" /\ h = "heartbeat" /\ InLine \subseteq InLine' \cup {h}
        /\ UNCHANGED <<up, faults, unread, match, ledger>>
    BY Taken DEF Probe, watch, mishaps
  <1>2. ASSUME UNCHANGED <<job, runtime>>, timers \subseteq timers',
               \/ match.state \notin Probeable \/ ~HasHandle \/ ~HasOpenServer
               \/ runtime.paused \/ "heartbeat" \in timers'
        PROVE  Tended'
    <2>1. Owed \subseteq Owed' \cup {h}
      BY <1>1, <1>2 DEF Owed
    <2>2. PlaceInv' /\ AttendInv'
      BY <1>1, <1>2, <2>1, AttendedOn
    <2>3. WatchInv'
      BY <1>1, <1>2 DEF WatchInv, Watching, HasOpenServer, HasHandle, Current, IsOpen, IsBound, Owed
    <2> QED BY <2>2, <2>3 DEF Tended
  <1>3. CASE match.state = "live" /\ LostFromLive
    BY <1>1, <1>3, TendedLoss
  <1>4. CASE End(Failed("server_lost")) \/ End(Failed("provider_error"))
    BY <1>4, EndTended
  <1> QED BY <1>1, <1>2, <1>3, <1>4, HeardKeeps DEF Probe, Lost

LEMMA TendedSuspect == ASSUME TypeInv, Tended, Suspect PROVE Tended'
  <1> DEFINE h == Head(chain).kind
  <1>1. /\ up /\ job.pc = "idle" /\ h = "suspect" /\ InLine \subseteq InLine' \cup {h}
        /\ UNCHANGED <<up, faults, unread, match, ledger>>
    BY Taken DEF Suspect, watch, mishaps
  <1>2. CASE UNCHANGED <<said, job, timers, runtime>>
    <2>1. Owed \subseteq Owed' \cup {h}
      BY <1>1, <1>2 DEF Owed
    <2>2. PlaceInv' /\ AttendInv'
      BY <1>1, <1>2, <2>1, AttendedOn
    <2>3. WatchInv'
      BY <1>1, <1>2, <2>1, WatchedOn DEF Watching, HasOpenServer, HasHandle, Current, IsOpen, IsBound
    <2> QED BY <2>2, <2>3 DEF Tended
  <1>3. CASE match.state = "live" /\ LostFromLive
    BY <1>1, <1>3, TendedLoss
  <1>4. CASE End(Failed("server_lost")) \/ End(Failed("provider_error"))
    BY <1>4, EndTended
  <1> QED BY <1>2, <1>3, <1>4 DEF Suspect, Lost

LEMMA TendedLostState == ASSUME TypeInv, Tended, LostState PROVE Tended'
  <1>1. /\ job.pc = "lost_state" /\ match'.state = "recovering" /\ match.state = "live"
        /\ job'.after = "lost_closed" /\ job'.pc = (IF Current = None THEN "lost_closed" ELSE "deallocate")
        /\ match'.fleetServerId = match.fleetServerId
        /\ UNCHANGED <<up, faults, unread, chain, timers>>
    BY DEF LostState, At, SetState, watch, mishaps, TypeInv, TypeOK, JobType, MatchType, Tended, PlaceInv
  <1>2. PlaceInv' /\ AttendInv'
    BY <1>1 DEF Tended, PlaceInv, AttendInv, Kept, IsTerminal, Terminal, Ending, Clearing, Losing, Owed,
       InLine, OnWalk, WalkingOn
  <1>3. WatchInv'
    BY <1>1 DEF WatchInv, Watching, HasOpenServer, Current
  <1> QED BY <1>2, <1>3 DEF Tended

LEMMA TendedLostClosed == ASSUME TypeInv, Tended, LostClosed PROVE Tended'
  <1>1. /\ job.pc = "lost_closed" /\ match.state = "recovering" /\ ~HasOpenServer
        /\ UNCHANGED <<up, faults, unread, match, ledger>>
    BY DEF LostClosed, At, durable, watch, mishaps, Tended, PlaceInv, WatchInv, Losing
  <1>2. CASE timers' = timers \cup {"recovery"} /\ KickRecovery /\ Finished
    <2>1. InLine \subseteq InLine'
      BY <1>2, OwnSteps, LineOfAppend DEF KickRecovery, TypeInv, InLine
    <2>2. PlaceInv' /\ AttendInv'
      BY <1>1, <1>2, <2>1, IdleTyped
         DEF Tended, PlaceInv, AttendInv, Kept, IsTerminal, Ending, Clearing, Losing, Owed, Finished,
             OnWalk, WalkingOn
    <2>3. WatchInv'
      BY <1>1, <1>2, IdleTyped DEF WatchInv, HasOpenServer, Current, IsOpen, Finished
    <2> QED BY <2>2, <2>3 DEF Tended
  <1>3. CASE End(Failed("server_lost"))
    BY <1>3, EndTended
  <1> QED BY <1>2, <1>3 DEF LostClosed

-----------------------------------------------------------------------------
(* What the server says.                                                   *)

LEMMA TendedLiveState == ASSUME TypeInv, Tended, LiveState PROVE Tended'
  <1>1. /\ job.pc = "live_state" /\ job'.pc = "idle" /\ match'.state = "live" /\ match.state \in {"ready", "recovering"}
        /\ match'.fleetServerId = match.fleetServerId
        /\ UNCHANGED <<up, faults, unread, chain, timers, ledger, runtime>>
    BY IdleTyped DEF LiveState, At, SetState, Finished, watch, mishaps, TypeInv, TypeOK, MatchType, Tended, PlaceInv
  <1>2. PlaceInv' /\ AttendInv'
    BY <1>1 DEF Tended, PlaceInv, AttendInv, Kept, IsTerminal, Terminal, Ending, Clearing, Losing, Owed,
       InLine, OnWalk, WalkingOn
  <1>3. WatchInv'
    BY <1>1 DEF Tended, WatchInv, Watching, Probeable, HasOpenServer, HasHandle, Current, IsOpen, IsBound,
       Owed, InLine
  <1> QED BY <1>2, <1>3 DEF Tended

\* An event that moves nothing but the silence deadline.
LEMMA TendedHeard ==
  ASSUME TypeInv, Tended, NEW K, job.pc = "idle", UNCHANGED <<up, faults, unread, match, ledger, job>>,
         InLine \subseteq InLine' \cup K, timers \subseteq timers', runtime'.paused = runtime.paused,
         K \cap {"ttl", "provision", "boot", "join", "completed", "recovery", "heartbeat"} = {}
  PROVE  Tended'
  <1>1. Owed \subseteq Owed' \cup K
    BY DEF Owed
  <1>2. PlaceInv' /\ AttendInv'
    BY <1>1, AttendedOn
  <1>3. WatchInv'
    BY <1>1, WatchedOn DEF Watching, HasOpenServer, HasHandle, Current, IsOpen, IsBound
  <1> QED BY <1>2, <1>3 DEF Tended

LEMMA TendedEventIgnored == ASSUME TypeInv, Tended, EventIgnored PROVE Tended'
  <1> DEFINE h == Head(chain).kind
  <1>1. /\ job.pc = "idle" /\ h \in Events \ {"hello"} /\ InLine \subseteq InLine' \cup {h}
        /\ UNCHANGED <<up, faults, unread, match, ledger, job, runtime>>
    BY Taken DEF EventIgnored, durable, watch, mishaps
  <1>2. timers \subseteq timers'
    BY HeardKeeps DEF EventIgnored
  <1>3. {h} \cap {"ttl", "provision", "boot", "join", "completed", "recovery", "heartbeat"} = {}
    BY <1>1 DEF Events, Signs
  <1> QED BY <1>1, <1>2, <1>3, TendedHeard

LEMMA TendedServerReady == ASSUME TypeInv, Tended, ServerReady PROVE Tended'
  <1> DEFINE h == Head(chain).kind
  <1>1. /\ up /\ job.pc = "idle" /\ h = "server_ready" /\ InLine \subseteq InLine' \cup {h}
        /\ match.state \in {"configuring", "recovering"}
        /\ UNCHANGED <<up, faults, match, runtime>>
    BY Taken DEF ServerReady, watch, mishaps
  <1>2. \/ job'.pc = "ready_state"
        \/ job' = job /\ Current \in unread'
    <2>1. [IdleJob EXCEPT !.pc = "ready_state"].pc = "ready_state"
      <3>1. "ready_state" \in Places
        BY DEF Places
      <3> QED BY <3>1, PcSet
    <2>2. \/ job' = [IdleJob EXCEPT !.pc = "ready_state"]
          \/ job' = job /\ unread' = unread \cup {Current}
      BY Zenon DEF ServerReady
    <2> QED BY <2>1, <2>2
  <1>3. /\ "ttl" \in timers => "ttl" \in timers'
        /\ runtime.paused \/ "heartbeat" \in timers'
    BY HeardKeeps DEF ServerReady
  <1>4. PlaceInv' /\ AttendInv'
    BY <1>1, <1>2, <1>3 DEF Tended, PlaceInv, AttendInv, Kept, IsTerminal, Terminal, Ending, Clearing,
       Losing, Owed, OnWalk, WalkingOn, Current
  <1> QED BY <1>1, <1>2, <1>3, <1>4, HeardIsWatched DEF Tended

LEMMA TendedReadyState == ASSUME TypeInv, Tended, ReadyState PROVE Tended'
  <1>1. /\ job.pc = "ready_state" /\ job'.pc = "ready_fact"
        /\ match.state \in {"configuring", "recovering"}
        /\ match'.state = (IF match.state = "recovering" THEN "recovering" ELSE "ready")
        /\ match'.fleetServerId = match.fleetServerId
        /\ UNCHANGED <<up, faults, unread, chain, timers, ledger, runtime>>
    BY DEF ReadyState, At, SetState, watch, mishaps, TypeInv, TypeOK, MatchType, JobType, Tended, PlaceInv
  <1>2. PlaceInv' /\ AttendInv'
    BY <1>1 DEF Tended, PlaceInv, AttendInv, Kept, IsTerminal, Terminal, Ending, Clearing, Losing, Owed,
       InLine, OnWalk, WalkingOn
  <1>3. WatchInv'
    BY <1>1 DEF Tended, WatchInv, Watching, Probeable, HasOpenServer, HasHandle, Current, IsOpen, IsBound,
       Owed, InLine
  <1> QED BY <1>2, <1>3 DEF Tended

LEMMA TendedReadyFact == ASSUME TypeInv, Tended, ReadyFact PROVE Tended'
  <1>1. /\ job.pc = "ready_fact" /\ timers' = timers \cup {"join"}
        /\ match.state \in {"ready", "recovering"}
        /\ UNCHANGED <<up, faults, unread, match, ledger, chain>>
        /\ runtime'.paused = runtime.paused
    BY DEF ReadyFact, At, watch, mishaps, TypeInv, TypeOK, RuntimeType, Tended, PlaceInv
  <1>2. \/ job'.pc = "resumed" /\ match.state = "recovering"
        \/ job'.pc = "idle"
    BY <1>1, IdleTyped DEF ReadyFact, TypeInv, TypeOK, JobType
  <1>3. PlaceInv' /\ AttendInv'
    BY <1>1, <1>2 DEF Tended, PlaceInv, AttendInv, Kept, IsTerminal, Terminal, Ending, Clearing, Losing,
       Owed, InLine, OnWalk, WalkingOn
  <1>4. WatchInv'
    BY <1>1, <1>2 DEF Tended, WatchInv, Watching, Probeable, HasOpenServer, HasHandle, Current, IsOpen,
       IsBound, Owed, InLine
  <1> QED BY <1>3, <1>4 DEF Tended

\* The window closes: neither of its deadlines is owed any more, and the state is about to be.
LEMMA TendedResumed == ASSUME TypeInv, Tended, Resumed PROVE Tended'
  <1>1. /\ job.pc = "resumed" /\ match.state = "recovering" /\ timers' = timers \ {"join", "recovery"}
        /\ UNCHANGED <<up, faults, unread, match, ledger, chain>>
        /\ job'.pc = "live_state" /\ runtime'.paused = runtime.paused
    BY PcSet DEF Resumed, At, Places, watch, mishaps, TypeInv, TypeOK, RuntimeType, Tended, PlaceInv
  <1>2. PlaceInv' /\ AttendInv'
    BY <1>1 DEF Tended, PlaceInv, AttendInv, Kept, IsTerminal, Terminal, Ending, Clearing, Losing, Owed,
       InLine, OnWalk, WalkingOn
  <1>3. WatchInv'
    BY <1>1 DEF Tended, WatchInv, Watching, HasOpenServer, HasHandle, Current, IsOpen, IsBound,
       Owed, InLine
  <1> QED BY <1>2, <1>3 DEF Tended

LEMMA TendedGoingLive == ASSUME TypeInv, Tended, GoingLive PROVE Tended'
  <1> DEFINE h == Head(chain).kind
  <1>1. /\ job.pc = "idle" /\ h = "going_live" /\ InLine \subseteq InLine' \cup {h}
        /\ match.state = "ready" /\ job'.pc = "live_state"
        /\ UNCHANGED <<up, faults, unread, match, ledger>> /\ runtime'.paused = runtime.paused
    BY Taken, PcSet DEF GoingLive, OnMap, Places, watch, mishaps, TypeInv, TypeOK, RuntimeType
  <1>2. /\ "ttl" \in timers => "ttl" \in timers'
        /\ runtime.paused \/ "heartbeat" \in timers'
    BY HeardKeeps DEF GoingLive
  <1>3. PlaceInv' /\ AttendInv'
    BY <1>1, <1>2 DEF Tended, PlaceInv, AttendInv, Kept, IsTerminal, Terminal, Ending, Clearing, Losing,
       Owed, OnWalk, WalkingOn
  <1> QED BY <1>1, <1>2, <1>3, HeardIsWatched DEF Tended

LEMMA TendedNextMap == ASSUME TypeInv, Tended, NextMap PROVE Tended'
  <1> DEFINE h == Head(chain).kind
  <1>1. /\ job.pc = "idle" /\ h = "going_live" /\ InLine \subseteq InLine' \cup {h}
        /\ UNCHANGED <<up, faults, unread, match, ledger, job>> /\ runtime'.paused = runtime.paused
    BY Taken DEF NextMap, OnMap, watch, mishaps, TypeInv, TypeOK, RuntimeType
  <1>2. timers \subseteq timers'
    BY HeardKeeps DEF NextMap
  <1> QED BY <1>1, <1>2, TendedHeard

LEMMA TendedSign == ASSUME TypeInv, Tended, Sign PROVE Tended'
  <1> DEFINE h == Head(chain).kind
  <1>1. /\ job.pc = "idle" /\ h \in Signs /\ InLine \subseteq InLine' \cup {h}
        /\ match.state = "recovering" /\ UNCHANGED <<up, faults, unread, match, ledger>>
        /\ runtime'.paused = runtime.paused
    BY Taken DEF Sign, watch, mishaps, TypeInv, TypeOK, RuntimeType
  <1>2. timers \subseteq timers' /\ (runtime.paused \/ "heartbeat" \in timers')
    BY HeardKeeps DEF Sign
  <1>3. job'.pc \in {"idle", "resumed"}
    BY IdleTyped, PcSet DEF Sign, Places
  <1>4. Owed \subseteq Owed' \cup {h} /\ h \notin {"ttl", "recovery", "join"}
    BY <1>1, <1>2 DEF Owed, Signs
  <1>5. PlaceInv' /\ AttendInv'
    BY <1>1, <1>3, <1>4 DEF Tended, PlaceInv, AttendInv, Kept, IsTerminal, Terminal, Ending, Clearing,
       Losing, OnWalk, WalkingOn
  <1> QED BY <1>1, <1>2, <1>3, <1>5, HeardIsWatched DEF Tended

LEMMA TendedSeries == ASSUME TypeInv, Tended, SeriesEnd \/ DemoAvailable PROVE Tended'
  <1> DEFINE h == Head(chain).kind
  <1>1. /\ job.pc = "idle" /\ h \in {"series_end", "demo_available"} /\ InLine \subseteq InLine' \cup {h}
        /\ UNCHANGED <<up, faults, unread, match, ledger>> /\ runtime'.paused = runtime.paused
    <2>1. CASE SeriesEnd
      BY <2>1, Taken DEF SeriesEnd, watch, mishaps, TypeInv, TypeOK, RuntimeType
    <2>2. CASE DemoAvailable
      <3>1. /\ runtime \in RuntimeType
            /\ \E m : runtime' = [runtime EXCEPT !.seen = @ \cup {<<Head(chain).from, m>>},
                                       !.announced = @ + 1,
                                       !.awaitingDemo = @ /\ DemoPending(runtime.announced + 1)]
        BY <2>2 DEF DemoAvailable, TypeInv, TypeOK
      <3>2. runtime'.paused = runtime.paused
        BY <3>1 DEF RuntimeType
      <3>3. Begin({"demo_available"}) /\ chain' = Tail(chain) /\ UNCHANGED <<match, ledger, up, watch>>
        BY <2>2, Zenon DEF DemoAvailable
      <3>4. /\ job.pc = "idle" /\ h \in {"demo_available"} /\ InLine \subseteq InLine' \cup {h}
        BY <3>3, Taken
      <3> QED BY <3>2, <3>3, <3>4 DEF watch, mishaps
    <2> QED BY <2>1, <2>2
  <1>2. CASE End(Ended("completed"))
    BY <1>2, EndTended
  <1>3. CASE timers \subseteq timers' /\ UNCHANGED job
    <2>1. {h} \cap {"ttl", "provision", "boot", "join", "completed", "recovery", "heartbeat"} = {}
      BY <1>1
    <2> QED BY <1>1, <1>3, <2>1, TendedHeard
  <1> QED BY <1>2, <1>3, HeardKeeps DEF SeriesEnd, DemoAvailable

-----------------------------------------------------------------------------
(* What the client asks.                                                   *)

LEMMA TendedReprovision == ASSUME TypeInv, Tended, Reprovision PROVE Tended'
  <1> DEFINE h == Head(chain).kind
  <1>1. /\ up /\ job.pc = "idle" /\ h = "reprovision" /\ InLine \subseteq InLine' \cup {h}
        /\ UNCHANGED <<up, faults, unread, match, ledger>>
    BY Taken DEF Reprovision, watch, mishaps
  <1>2. CASE UNCHANGED <<said, job, timers, runtime>>
    BY <1>1, <1>2, TendedHeard
  <1>3. CASE match.state = "live" /\ LostFromLive
    BY <1>1, <1>3, TendedLoss
  <1>4. CASE /\ match.state \in Open \ {"live", "recovering"} /\ UNCHANGED <<said, runtime>>
             /\ timers' = timers \ {"allocate", "boot", "join", "heartbeat"}
             /\ job' = [IdleJob EXCEPT !.after = "reprovision_clear",
                          !.pc = IF Current = None THEN "reprovision_clear" ELSE "deallocate"]
    <2>1. /\ job'.after = "reprovision_clear" /\ job'.pc \in {"reprovision_clear", "deallocate"}
      BY <1>4, IdleTyped DEF JobType
    <2>2. PlaceInv' /\ AttendInv'
      BY <1>1, <1>4, <2>1 DEF Tended, PlaceInv, AttendInv, Kept, IsTerminal, Terminal, Open, Ending,
         Clearing, Losing, Owed, OnWalk, WalkingOn, Lifecycle!Before
    <2> QED BY <2>1, <2>2, NotWatched DEF Tended, Watching
  <1> QED BY <1>2, <1>3, <1>4 DEF Reprovision

LEMMA TendedReprovisionClear == ASSUME TypeInv, Tended, ReprovisionClear PROVE Tended'
  <1>1. /\ job.pc = "reprovision_clear" /\ job'.pc = "reprovision_state" /\ match'.state = match.state
        /\ UNCHANGED <<up, faults, unread, chain, timers>>
    BY DEF ReprovisionClear, At, watch, mishaps, TypeInv, TypeOK, JobType, MatchType
  <1>2. PlaceInv' /\ AttendInv'
    BY <1>1 DEF Tended, PlaceInv, AttendInv, Kept, IsTerminal, Ending, Clearing, Losing, Owed, InLine,
       OnWalk, WalkingOn, Lifecycle!Before
  <1> QED BY <1>1, <1>2, NotWatched DEF Tended, Watching

LEMMA TendedReprovisionState == ASSUME TypeInv, Tended, ReprovisionState PROVE Tended'
  <1>1. /\ job.pc = "reprovision_state" /\ job'.pc = "idle" /\ match'.state = "pending"
        /\ match.state \in Lifecycle!Before /\ UNCHANGED <<up, faults, unread, timers>>
    BY IdleTyped DEF ReprovisionState, At, SetState, Finished, watch, mishaps, TypeInv, TypeOK, MatchType, Tended,
       PlaceInv, Clearing
  <1>2. InLine \cup {"provision"} \subseteq InLine'
    BY OwnSteps, LineOfAppend DEF ReprovisionState, Step, TypeInv
  <1>3. PlaceInv' /\ AttendInv'
    BY <1>1, <1>2 DEF Tended, PlaceInv, AttendInv, Kept, IsTerminal, Terminal, Ending, Clearing, Losing,
       Owed, OnWalk, WalkingOn, Lifecycle!Before
  <1> QED BY <1>1, <1>3 DEF Tended, WatchInv, Probeable

LEMMA TendedRestore == ASSUME TypeInv, Tended, Restore PROVE Tended'
  <1> DEFINE h == Head(chain).kind
  <1>1. /\ job.pc = "idle" /\ h = "restore"
        /\ UNCHANGED <<up, faults, unread, match, ledger, job, timers>>
        /\ runtime'.paused = runtime.paused
    BY DEF Restore, Begin, durable, watch, mishaps, TypeInv, TypeOK, RuntimeType
  <1>2. InLine \subseteq InLine' \cup {h}
    <2>1. CASE chain' = Tail(chain)
      BY <2>1, LineOfTail DEF Restore, Begin, TypeInv
    <2>2. CASE chain' = Append(Tail(chain), Step("recover", None))
      <3>1. chain \in Seq(StepType) /\ chain # <<>> /\ Len(chain) \in Nat /\ Len(chain) # 0
        BY DEF TypeInv, TypeOK, Restore, Begin
      <3>2. ASSUME NEW i \in 1..Len(chain), i # 1
            PROVE  i - 1 \in 1..Len(chain') /\ chain'[i - 1] = chain[i]
        BY <2>2, <3>1, <3>2
      <3>3. Head(chain) = chain[1]
        BY <3>1
      <3> QED BY <3>2, <3>3 DEF InLine
    <2> QED BY <2>1, <2>2 DEF Restore
  <1> QED BY <1>1, <1>2, TendedHeard

LEMMA TendedPauseOrUnpause == ASSUME TypeInv, Tended, PauseOrUnpause PROVE Tended'
  <1> DEFINE h == Head(chain).kind
  <1>1. /\ up /\ job.pc = "idle" /\ h \in {"pause", "unpause"} /\ InLine \subseteq InLine' \cup {h}
        /\ UNCHANGED <<up, faults, unread, match, ledger, job>>
    BY Taken DEF PauseOrUnpause, durable, watch, mishaps
  <1>2. CASE UNCHANGED <<timers, runtime>>
    BY <1>1, <1>2, TendedHeard
  <1>3. CASE /\ match.state = "live"
             /\ \/ runtime' = [runtime EXCEPT !.paused = TRUE] /\ timers' = timers \ {"heartbeat"}
                \/ timers' = timers \cup {"heartbeat"}
    <2>1. runtime'.paused \/ "heartbeat" \in timers'
      BY <1>3 DEF TypeInv, TypeOK, RuntimeType
    <2>2. Owed \subseteq Owed' \cup {h, "heartbeat"}
      BY <1>1, <1>3 DEF Owed
    <2>3. PlaceInv' /\ AttendInv'
      BY <1>1, <2>2, AttendedOn
    <2> QED BY <1>1, <2>1, <2>3, HeardIsWatched DEF Tended
  <1> QED BY <1>2, <1>3 DEF PauseOrUnpause

LEMMA TendedOrphanFact == ASSUME TypeInv, Tended, OrphanFact PROVE Tended'
  <1>1. /\ job.pc = "idle" /\ Head(chain).kind = "orphan_found"
        /\ InLine \subseteq InLine' \cup {Head(chain).kind}
        /\ UNCHANGED <<up, faults, unread, match, ledger, job, timers, runtime>>
    BY Taken DEF OrphanFact, durable, watch, mishaps
  <1> QED BY <1>1, TendedHeard

-----------------------------------------------------------------------------
(* Off the chain.                                                          *)

\* A deadline that fires is owed still, on the chain.
LEMMA TendedClock == ASSUME TypeInv, Tended, Clock PROVE Tended'
  <1>1. PICK t \in Timers : Fire(t)
    BY DEF Clock
  <1>2. /\ chain' = Append(chain, Step(t, None)) /\ timers' = timers \ {t}
        /\ UNCHANGED <<up, faults, unread, job, match, ledger, runtime>>
    BY <1>1 DEF Fire, Outsider, durable, watch, mishaps
  <1>3. InLine \cup {t} \subseteq InLine'
    BY <1>2, StepTyped, LineOfAppend DEF Kinds, Step, TypeInv
  <1>4. Owed \subseteq Owed'
    BY <1>2, <1>3 DEF Owed
  <1> QED BY <1>2, <1>3, <1>4, TendedOn DEF HasOpenServer, HasHandle, Current, IsOpen, IsBound

\* Whoever else joins the chain takes nothing from it.
LEMMA TendedOutsider ==
  ASSUME TypeInv, Tended, NEW k \in Kinds, NEW f \in Rows \cup {None}, Outsider(k, f),
         UNCHANGED <<up, faults, unread, job, match, ledger, runtime, timers>>
  PROVE  Tended'
  <1>1. InLine \subseteq InLine'
    BY StepTyped, LineOfAppend DEF Outsider, TypeInv
  <1>2. Owed \subseteq Owed'
    BY <1>1 DEF Owed
  <1> QED BY <1>1, <1>2, TendedOn DEF HasOpenServer, HasHandle, Current, IsOpen, IsBound

LEMMA TendedClients == ASSUME TypeInv, Tended, Clients PROVE Tended'
  <1>1. PICK c \in Asked : Ask(c)
    BY DEF Clients
  <1>2. c \in Kinds
    BY MachineAssumption DEF Kinds
  <1> QED BY <1>1, <1>2, TendedOutsider DEF Ask, durable, watch, mishaps

LEMMA TendedServers == ASSUME TypeInv, Tended, Servers PROVE Tended'
  <1>1. PICK r \in Rows : Touch(r) \/ Backup(r) \/ Die(r) \/ \E e \in Said : Say(r, e)
    BY DEF Servers
  <1>2. CASE Touch(r)
    <2>1. timers \subseteq timers' /\ UNCHANGED <<up, faults, unread, job, match, ledger, runtime, chain>>
      BY <1>2, HeardKeeps DEF Touch, durable, watch, mishaps
    <2>2. Owed \subseteq Owed' /\ InLine \subseteq InLine'
      BY <2>1 DEF Owed, InLine
    <2> QED BY <2>1, <2>2, TendedOn DEF HasOpenServer, HasHandle, Current, IsOpen, IsBound
  <1>3. CASE Backup(r) \/ Die(r)
    <2>1. UNCHANGED <<up, faults, unread, job, match, ledger, runtime, chain, timers>>
      BY <1>3 DEF Backup, Die, durable, memory, watch, mishaps
    <2>2. Owed \subseteq Owed' /\ InLine \subseteq InLine'
      BY <2>1 DEF Owed, InLine
    <2> QED BY <2>1, <2>2, TendedOn DEF HasOpenServer, HasHandle, Current, IsOpen, IsBound
  <1>4. ASSUME NEW e \in Said, Say(r, e) PROVE Tended'
    <2>1. e \in Kinds
      BY MachineAssumption DEF Kinds
    <2> QED BY <1>4, <2>1, TendedOutsider DEF Say, durable, watch, mishaps
  <1> QED BY <1>1, <1>2, <1>3, <1>4

\* A row that is released only leaves less to watch.
LEMMA TendedOperators == ASSUME TypeInv, Tended, Operators PROVE Tended'
  <1>1. PICK r \in Rows : OperatorRelease(r)
    BY DEF Operators
  <1>2. UNCHANGED <<up, faults, unread, job, match, runtime, timers>>
    BY <1>1 DEF OperatorRelease, watch, mishaps
  <1>3. CASE Outsider("release", None) /\ UNCHANGED ledger
    BY <1>2, <1>3, TendedOutsider DEF Kinds, Doors
  <1>4. CASE ledger' = CloseOf(r) /\ UNCHANGED chain
    <2>1. ASSUME NEW q \in Rows
          PROVE  ledger'[q].bound = ledger[q].bound /\ (IsOpen(q)' => IsOpen(q))
      BY <1>4 DEF CloseOf, IsOpen, TypeInv, TypeOK, RowType
    <2>2. (HasOpenServer' => HasOpenServer) /\ (HasHandle' => HasHandle)
      BY <1>2, <2>1 DEF HasOpenServer, HasHandle, Current, IsBound, TypeInv, TypeOK, MatchType
    <2>3. Owed \subseteq Owed' /\ InLine \subseteq InLine'
      BY <1>2, <1>4 DEF Owed, InLine
    <2> QED BY <1>2, <2>2, <2>3, TendedOn
  <1> QED BY <1>1, <1>3, <1>4 DEF OperatorRelease

LEMMA TendedReaper == ASSUME TypeInv, Tended, Reaper PROVE Tended'
  <1>1. UNCHANGED <<up, faults, unread, job, match, ledger, runtime, timers>>
    BY DEF Reaper, ReaperLook, ReaperList, ReaperBlind, durable, memory, mishaps
  <1>2. InLine \subseteq InLine'
    <2>1. CASE UNCHANGED chain
      BY <2>1 DEF InLine
    <2>2. CASE chain' = Append(chain, Step("expire", None))
      BY <2>2, OwnSteps, LineOfAppend DEF TypeInv
    <2>3. ASSUME NEW due \in SUBSET Rows, ReaperList(due) PROVE InLine \subseteq InLine'
      <3> DEFINE q1 == IF ~IsTerminal /\ ({r \in Rows : server[r] = "up"} \ reaper.open) \cap PastGrace # {}
                         THEN <<Step("orphan_found", None)>> ELSE <<>>
                 q2 == IF reaper.open \ {r \in Rows : server[r] = "up"} # {}
                         THEN <<Step("suspect", None)>> ELSE <<>>
      <3>1. q1 \in Seq(StepType) /\ q2 \in Seq(StepType)
        BY OwnSteps
      <3>2. chain' = chain \o q1 \o q2
        BY <2>3 DEF ReaperList
      <3> HIDE DEF q1, q2
      <3> QED BY <3>1, <3>2, LineOfMore DEF TypeInv
    <2> QED BY <2>1, <2>2, <2>3 DEF Reaper, ReaperLook, ReaperBlind, memory
  <1>3. Owed \subseteq Owed'
    BY <1>1, <1>2 DEF Owed
  <1> QED BY <1>1, <1>2, <1>3, TendedOn DEF HasOpenServer, HasHandle, Current, IsOpen, IsBound

-----------------------------------------------------------------------------
(* Mishaps, and what resume() arms.                                        *)

LEMMA TendedCrash == ASSUME TypeInv, Tended, Crash PROVE Tended'
  BY IdleTyped DEF Crash, Tended, PlaceInv, AttendInv, WatchInv, Kept, Clearing, Losing, OnWalk, WalkingOn

LEMMA TendedStoreFails == ASSUME TypeInv, Tended, StoreFails PROVE Tended'
  <1>1. faults' # 0 /\ UNCHANGED <<match, ledger>> /\ (job' = job \/ job' = IdleJob)
    BY DEF StoreFails, durable, TypeInv, TypeOK
  <1> QED BY <1>1, IdleTyped DEF Tended, PlaceInv, AttendInv, WatchInv, Kept, Clearing, Losing, OnWalk,
          WalkingOn, HasOpenServer, Current, IsOpen

\* A restart arms what the state it finds is owed, whatever the crash took.
LEMMA TendedResume == ASSUME TypeInv, Tended, Resume PROVE Tended'
  <1>1. /\ UNCHANGED <<match, ledger, job>> /\ timers' = ResumeTimers /\ chain' = ResumeChain
    BY DEF Resume, durable
  <1>2. match.state \in {"pending", "allocating"} => "provision" \in InLine'
    <2> SUFFICES ASSUME match.state \in {"pending", "allocating"} PROVE "provision" \in InLine'
      OBVIOUS
    <2>1. chain' = <<Step("provision", None)>>
      BY <1>1 DEF ResumeChain, RerunsWalk, ReplaysSeries, ReadsLog
    <2>2. 1 \in 1..Len(chain') /\ chain'[1].kind = "provision"
      BY <2>1 DEF Step
    <2> QED BY <2>2 DEF InLine
  <1>3. match.state \in States
    BY DEF TypeInv, TypeOK, MatchType
  <1>4. ~IsTerminal =>
          /\ "ttl" \in timers'
          /\ match.state = "configuring" => "boot" \in timers' /\ "heartbeat" \in timers'
          /\ match.state = "ready" => "join" \in timers' /\ "heartbeat" \in timers'
          /\ match.state = "live" => "heartbeat" \in timers'
          /\ match.state = "recovering" =>
               /\ "recovery" \in timers' \/ "join" \in timers'
               /\ HasOpenServer => "heartbeat" \in timers'
    BY <1>1, <1>3 DEF ResumeTimers, IsTerminal, States, Open
  <1>5. PlaceInv'
    BY <1>1 DEF Tended, PlaceInv, Clearing, Losing
  <1>6. AttendInv'
    BY <1>1, <1>2, <1>4 DEF AttendInv, Kept, IsTerminal, Owed
  <1>7. WatchInv'
    BY <1>1, <1>4 DEF Tended, WatchInv, Probeable, Terminal, IsTerminal, HasOpenServer, Current, IsOpen, Owed
  <1> QED BY <1>5, <1>6, <1>7 DEF Tended

-----------------------------------------------------------------------------
LEMMA InitTended == Init => Tended
  <1> SUFFICES ASSUME Init PROVE Tended
    OBVIOUS
  <1>1. "provision" \in InLine
    BY DEF Init, InLine, Step
  <1> QED BY <1>1, IdleTyped DEF Init, Tended, PlaceInv, AttendInv, WatchInv, Kept, Owed, Clearing, Losing,
          OnWalk, WalkingOn, Probeable

LEMMA NextTended == ASSUME TypeInv, Tended, [Next]_vars PROVE Tended'
  <1>1. CASE UNCHANGED vars
    <2>1. UNCHANGED <<up, faults, unread, job, match, ledger, runtime, chain, timers>>
      BY <1>1 DEF vars, durable, memory, watch, mishaps
    <2> QED BY <2>1, TendedOn DEF Owed, InLine, HasOpenServer, HasHandle, Current, IsOpen, IsBound
  <1>2. CASE Handlers
    BY <1>2, TendedEndStep, TendedDeallocate, TendedCloseRow, TendedEndFact, TendedProvision,
       TendedRecover, TendedWalk, TendedWalked, TendedLostState, TendedLostClosed, TendedProbe,
       TendedSuspect, TendedLiveState, TendedEventIgnored, TendedServerReady, TendedReadyState,
       TendedReadyFact, TendedResumed, TendedGoingLive, TendedNextMap, TendedSign, TendedSeries, TendedReprovision,
       TendedReprovisionClear, TendedReprovisionState, TendedRestore, TendedPauseOrUnpause,
       TendedOrphanFact
       DEF Handlers
  <1>3. CASE Clock \/ Servers \/ Clients \/ Operators \/ Reaper
    BY <1>3, TendedClock, TendedServers, TendedClients, TendedOperators, TendedReaper
  <1>4. CASE StoreFails \/ Crash \/ Resume
    BY <1>4, TendedStoreFails, TendedCrash, TendedResume
  <1> QED BY <1>1, <1>2, <1>3, <1>4 DEF Next, Living

\* What an open match is owed at every place of every handler, through deaths and restarts.
THEOREM TendedInvariant == Spec => [](TypeInv /\ Tended)
  <1>1. Init => TypeInv /\ Tended
    BY InitTyped, InitTended
  <1>2. TypeInv /\ Tended /\ [Next]_vars => TypeInv' /\ Tended'
    BY NextTyped, NextTended
  <1> QED BY <1>1, <1>2, PTL DEF Spec

\* A deadline is pending when it is armed or its step is on the chain.
LEMMA OwedIsPending ==
  ASSUME NEW k
  PROVE  /\ k \in InLine <=> Queued({k})
         /\ k \in Owed <=> Pending({k})
  BY DEF InLine, Owed, Queued, Pending

\* Whatever died and whenever, a match that is open and between two steps has its ttl and the
\* deadline or the walk of its state, unless a provider threw when server_ready asked it for the
\* address of the server the match waits for.
THEOREM OpenIsAttended == Spec => []Attended
  <1>1. TypeInv /\ Tended => Attended
    <2> SUFFICES ASSUME TypeInv, Tended, AtRest
                 PROVE  /\ Pending({"ttl"})
                        /\ match.state \in {"pending", "allocating"} => Queued({"provision"})
                        /\ match.state = "configuring" => Pending({"boot"}) \/ Current \in unread
                        /\ match.state = "ready" => Pending({"join"}) \/ Queued({"completed"})
                        /\ match.state = "recovering" => Pending({"recovery", "join"}) \/ unread # {}
      BY DEF Attended
    <2>1. Kept /\ job.pc = "idle" /\ ~Clearing(job) /\ ~Losing(job) /\ job.pc \notin OnWalk
      BY DEF AtRest, Kept, Ending, Clearing, Losing, OnWalk, WalkingOn
    <2>2. Pending({"recovery"}) \/ Pending({"join"}) => Pending({"recovery", "join"})
      BY DEF Pending, Queued
    <2> QED BY <2>1, <2>2, OwedIsPending DEF Tended, AttendInv
  <1> QED BY <1>1, TendedInvariant, PTL

\* Whatever died and whenever, a match with a server that is not paused has its silence deadline
\* armed, or its probe on the chain.
THEOREM ServerIsWatched == Spec => []Watched
  <1>1. TypeInv /\ Tended => Watched
    BY OwedIsPending DEF Tended, WatchInv, Watched, Watching
  <1> QED BY <1>1, TendedInvariant, PTL

-----------------------------------------------------------------------------
(***************************************************************************)
(* The demos of a series that is over.                                     *)
(*                                                                         *)
(* "completed" is the one ending nobody outside asks for: a restart queues *)
(* it, alone, and the first handler to begin takes it.  So it is on the    *)
(* chain only while nothing ran since, and a live match that it would end  *)
(* has as many demos in its log as maps.  And what a life counts is what   *)
(* the log has: the map it is on, and no demo more than there are rows.    *)
(***************************************************************************)

\* Nothing on the chain ends the match as completed.
Plain(c) == \A i \in 1..Len(c) : c[i].kind # "completed"

\* The end a restart found due.
DueAtOnce ==
    /\ job.pc = "idle"
    /\ match.state = "live" => ~RecordsDemo \/ logged.announced >= logged.map

\* The process and the log agree on the map in play, and on the demos that came.
Counted ==
    /\ up /\ ~forgot /\ ~IsTerminal => runtime.currentMap = logged.map
    /\ runtime.announced <= logged.announced

DemoInv ==
    /\ Counted
    /\ job.pc = "idle" => job.ending = NoEnd
    /\ ~up => job.pc = "idle"
    /\ \A i \in 1..Len(chain) : chain[i].kind = "completed" => i = 1 /\ DueAtOnce

\* Whoever waits behind it stays plain when the head is taken.
LEMMA PlainTail ==
  ASSUME TypeInv, DemoInv, chain # <<>>
  PROVE  Plain(Tail(chain)) /\ Tail(chain) \in Seq(StepType)
  <1>1. chain \in Seq(StepType)
    BY DEF TypeInv, TypeOK
  <1>2. /\ Len(chain) \in Nat \ {0} /\ Len(Tail(chain)) = Len(chain) - 1
        /\ \A i \in 1..Len(Tail(chain)) : Tail(chain)[i] = chain[i + 1]
    BY <1>1
  <1>3. ASSUME NEW i \in 1..Len(Tail(chain)) PROVE Tail(chain)[i].kind # "completed"
    <2>1. i + 1 \in 1..Len(chain) /\ i + 1 # 1
      BY <1>2
    <2> QED BY <1>2, <2>1 DEF DemoInv
  <1> QED BY <1>1, <1>3 DEF Plain

LEMMA PlainAppend ==
  ASSUME NEW c \in Seq(StepType), Plain(c), NEW s \in StepType, s.kind # "completed"
  PROVE  Plain(Append(c, s))
  BY DEF Plain

\* A step that begins a handler takes the head of the chain, and may queue another.
LEMMA DemoTaken ==
  ASSUME TypeInv, DemoInv, chain # <<>>, up, up' = up,
         \/ chain' = Tail(chain)
         \/ \E s \in StepType : s.kind # "completed" /\ chain' = Append(Tail(chain), s),
         Counted', job'.pc = "idle" => job'.ending = NoEnd
  PROVE  DemoInv'
  <1>1. Plain(chain')
    BY PlainTail, PlainAppend
  <1> QED BY <1>1 DEF DemoInv, Plain

\* A step inside a handler: nothing completes the match from the chain meanwhile.
LEMMA DemoWithin ==
  ASSUME TypeInv, DemoInv, job.pc # "idle", up' = up,
         \/ chain' = chain
         \/ \E s \in StepType : s.kind # "completed" /\ chain' = Append(chain, s),
         Counted', job'.pc = "idle" => job'.ending = NoEnd
  PROVE  DemoInv'
  <1>1. chain \in Seq(StepType) /\ Plain(chain)
    BY DEF TypeInv, TypeOK, DemoInv, DueAtOnce, Plain
  <1>2. Plain(chain')
    BY <1>1, PlainAppend
  <1> QED BY <1>2 DEF DemoInv, Plain

\* What neither counts, nor writes of the log, nor revives an ended match, leaves them agreed.
LEMMA CountKept ==
  ASSUME DemoInv, UNCHANGED <<logged, up, forgot>>, ~IsTerminal' => ~IsTerminal,
         runtime'.currentMap = runtime.currentMap, runtime'.announced = runtime.announced
  PROVE  Counted'
  BY DEF DemoInv, Counted

\* A step off the chain queues none, whatever else it does to the ledger or the world.
LEMMA DemoOutside ==
  ASSUME TypeInv, DemoInv, UNCHANGED <<match, job, logged, up, runtime, forgot>>,
         NEW q \in Seq(StepType), Plain(q), chain' = chain \o q
  PROVE  DemoInv'
  <1>1. chain \in Seq(StepType)
    BY DEF TypeInv, TypeOK
  <1>2. /\ Len(chain) \in Nat /\ Len(q) \in Nat /\ Len(chain') = Len(chain) + Len(q)
        /\ \A i \in 1..Len(chain) : chain'[i] = chain[i]
        /\ \A i \in Len(chain) + 1 .. Len(chain) + Len(q) : chain'[i] = q[i - Len(chain)]
    BY <1>1
  <1>3. ASSUME NEW i \in 1..Len(chain'), chain'[i].kind = "completed" PROVE i = 1 /\ DueAtOnce'
    <2>1. i \in 1..Len(chain)
      BY <1>2, <1>3 DEF Plain
    <2> QED BY <1>2, <1>3, <2>1 DEF DemoInv, DueAtOnce
  <1>4. Counted'
    BY CountKept DEF IsTerminal
  <1> QED BY <1>3, <1>4 DEF DemoInv

\* One more step on the chain, or none.
LEMMA DemoQueued ==
  ASSUME TypeInv, DemoInv, UNCHANGED <<match, job, logged, up, runtime, forgot>>,
         \/ chain' = chain
         \/ \E s \in StepType : s.kind # "completed" /\ chain' = Append(chain, s)
  PROVE  DemoInv'
  <1>1. chain \in Seq(StepType)
    BY DEF TypeInv, TypeOK
  <1>2. CASE chain' = chain
    <2>1. chain' = chain \o <<>> /\ <<>> \in Seq(StepType) /\ Plain(<<>>)
      BY <1>1, <1>2 DEF Plain
    <2> QED BY <2>1, DemoOutside
  <1>3. ASSUME NEW s \in StepType, s.kind # "completed", chain' = Append(chain, s) PROVE DemoInv'
    <2>1. chain' = chain \o <<s>> /\ <<s>> \in Seq(StepType) /\ Plain(<<s>>)
      BY <1>1, <1>3 DEF Plain
    <2> QED BY <2>1, DemoOutside
  <1> QED BY <1>2, <1>3

\* The verdict of a handler is taken on its way to the end, and a finished one has none.
LEMMA EndsCarry ==
  ASSUME NEW v, End(v)
  PROVE  job'.pc # "idle" /\ job'.ending = v
  BY DEF End, IdleJob

LEMMA FinishedCarriesNone == IdleJob.pc = "idle" /\ IdleJob.ending = NoEnd
  BY DEF IdleJob

\* A going_live puts the process and the log on one map; a demo counts one for both.
LEMMA CountedBegun ==
  ASSUME TypeInv, DemoInv, GoingLive \/ NextMap \/ Sign \/ SeriesEnd \/ DemoAvailable
  PROVE  Counted'
  <1>1. runtime \in RuntimeType /\ logged \in LoggedType
    BY DEF TypeInv, TypeOK
  <1>2. UNCHANGED <<match, up, forgot>>
    BY DEF GoingLive, NextMap, Sign, SeriesEnd, DemoAvailable, watch, mishaps
  <1>3. IsTerminal' <=> IsTerminal
    BY <1>2 DEF IsTerminal
  <1>4. CASE GoingLive \/ NextMap
    <2>1. PICK m \in MapsSaid : OnMap(m)
      BY <1>4 DEF GoingLive, NextMap
    <2>2. /\ runtime'.currentMap = m /\ logged'.map = m
          /\ runtime'.announced = runtime.announced /\ logged'.announced = logged.announced
      BY <1>1, <2>1 DEF OnMap, RuntimeType, LoggedType
    <2> QED BY <2>2 DEF Counted, DemoInv
  <1>5. CASE Sign
    <2>1. PICK m : /\ logged' = [logged EXCEPT !.map = MapOr(m, @)]
                   /\ runtime' = [runtime EXCEPT
                         !.currentMap    = MapOr(m, @),
                         !.resumePending = IF runtime.replacementReady THEN @ ELSE Head(chain).from]
      BY <1>5 DEF Sign
    <2>2. /\ runtime'.currentMap = MapOr(m, runtime.currentMap) /\ logged'.map = MapOr(m, logged.map)
          /\ runtime'.announced = runtime.announced /\ logged'.announced = logged.announced
      BY <1>1, <2>1 DEF RuntimeType, LoggedType
    <2> QED BY <1>2, <1>3, <2>2 DEF Counted, DemoInv, MapOr
  <1>6. CASE SeriesEnd
    <2>1. /\ runtime'.currentMap = runtime.currentMap /\ logged'.map = logged.map
          /\ runtime'.announced = runtime.announced /\ logged'.announced = logged.announced
      BY <1>1, <1>6 DEF SeriesEnd, RuntimeType, LoggedType
    <2> QED BY <1>2, <1>3, <2>1 DEF Counted, DemoInv
  <1>7. CASE DemoAvailable
    <2>1. /\ runtime'.currentMap = runtime.currentMap /\ logged'.map = logged.map
          /\ runtime'.announced = runtime.announced + 1 /\ logged'.announced = logged.announced + 1
      BY <1>1, <1>7 DEF DemoAvailable, RuntimeType, LoggedType
    <2>2. runtime.announced \in Nat /\ logged.announced \in Nat
      BY <1>1 DEF RuntimeType, LoggedType
    <2> QED BY <1>2, <1>3, <2>1, <2>2 DEF Counted, DemoInv
  <1> QED BY <1>4, <1>5, <1>6, <1>7

LEMMA DemoBegun ==
  ASSUME TypeInv, DemoInv,
         EndStep \/ Provision \/ Recover \/ Probe \/ Suspect \/ EventIgnored \/ ServerReady
           \/ GoingLive \/ NextMap \/ Sign \/ SeriesEnd \/ DemoAvailable \/ Reprovision \/ Restore
           \/ PauseOrUnpause \/ OrphanFact
  PROVE  DemoInv'
  <1>1. job \in JobType /\ runtime \in RuntimeType
    BY DEF TypeInv, TypeOK
  <1>2. /\ chain # <<>> /\ up /\ up' = up /\ job.pc = "idle" /\ job.ending = NoEnd
        /\ \/ chain' = Tail(chain)
           \/ chain' = Append(Tail(chain), Step("recover", None))
    BY DEF EndStep, Provision, Recover, Probe, Suspect, EventIgnored, ServerReady, GoingLive, NextMap,
       Sign, SeriesEnd, DemoAvailable, Reprovision, Restore, PauseOrUnpause, OrphanFact, Begin, DemoInv
  <1>3. Counted'
    <2>1. CASE Provision
      <3>1. ~IsTerminal' => ~IsTerminal
        BY <2>1 DEF Provision, IsTerminal, Terminal, TypeInv, TypeOK, MatchType
      <3> QED BY <2>1, <3>1, CountKept DEF Provision, watch, mishaps
    <2>2. CASE EndStep \/ EventIgnored \/ ServerReady \/ OrphanFact
      <3>1. UNCHANGED <<match, logged, up, forgot, runtime>>
        BY <2>2 DEF EndStep, EventIgnored, ServerReady, OrphanFact, durable, watch, mishaps
      <3> QED BY <3>1, CountKept DEF IsTerminal
    <2>3. CASE Probe \/ Suspect \/ Recover \/ Reprovision \/ Restore \/ PauseOrUnpause
      <3>1. UNCHANGED <<match, logged, up, forgot>>
        BY <2>3 DEF Probe, Suspect, Recover, Reprovision, Restore, PauseOrUnpause, durable, watch, mishaps
      <3>2. runtime'.currentMap = runtime.currentMap /\ runtime'.announced = runtime.announced
        <4>1. CASE Probe \/ Suspect
          BY <1>1, <4>1 DEF Probe, Suspect, Lost, LostFromLive, RuntimeType
        <4>2. CASE Recover \/ Reprovision \/ Restore \/ PauseOrUnpause
          BY <1>1, <4>2 DEF Recover, Reprovision, LostFromLive, Restore, PauseOrUnpause, RuntimeType
        <4> QED BY <2>3, <4>1, <4>2
      <3> QED BY <3>1, <3>2, CountKept DEF IsTerminal
    <2> QED BY <2>1, <2>2, <2>3, CountedBegun
  <1>4. job'.pc = "idle" => job'.ending = NoEnd
    <2>1. CASE EndStep \/ Recover \/ SeriesEnd \/ DemoAvailable
      BY <1>2, <2>1, EndsCarry, FinishedCarriesNone
         DEF EndStep, Recover, SeriesEnd, DemoAvailable, IdleJob
    <2>2. CASE Probe \/ Suspect
      BY <1>2, <2>2, EndsCarry DEF Probe, Suspect, Lost, LostFromLive, IdleJob
    <2>3. CASE Provision \/ EventIgnored \/ ServerReady \/ GoingLive \/ NextMap \/ Sign \/ Reprovision
               \/ Restore \/ PauseOrUnpause \/ OrphanFact
      <3>1. CASE Provision \/ ServerReady
        BY <1>2, <3>1 DEF Provision, ServerReady, IdleJob
      <3>2. CASE Sign
        BY <1>2, <3>2 DEF Sign, IdleJob
      <3>3. CASE Reprovision
        BY <1>2, <3>3 DEF Reprovision, LostFromLive, IdleJob
      <3>4. CASE EventIgnored \/ GoingLive \/ NextMap \/ Restore \/ PauseOrUnpause \/ OrphanFact
        BY <1>2, <3>4 DEF EventIgnored, GoingLive, NextMap, Restore, PauseOrUnpause, OrphanFact, IdleJob
      <3> QED BY <2>3, <3>1, <3>2, <3>3, <3>4
    <2> QED BY <2>1, <2>2, <2>3
  <1>5. Step("recover", None) \in StepType /\ Step("recover", None).kind # "completed"
    BY OwnSteps DEF Step
  <1> QED BY <1>2, <1>3, <1>4, <1>5, DemoTaken

LEMMA DemoInside ==
  ASSUME TypeInv, DemoInv,
         Deallocate \/ CloseRow \/ EndFact \/ WalkStop \/ WalkPoint \/ WalkAllocate \/ WalkBind
           \/ WalkTake \/ WalkTell \/ WalkConfigure \/ Walked \/ LostState \/ LostClosed \/ LiveState
           \/ ReadyState \/ ReadyFact \/ Resumed \/ ReprovisionClear \/ ReprovisionState
           \/ \E r \in Rows : WalkInsert(r)
  PROVE  DemoInv'
  <1>1. job \in JobType /\ runtime \in RuntimeType /\ logged \in LoggedType
    BY DEF TypeInv, TypeOK
  <1>2. /\ job.pc # "idle" /\ UNCHANGED <<up, logged, forgot>>
        /\ \/ chain' = chain
           \/ chain' = Append(chain, Step("recover", None))
           \/ chain' = Append(chain, Step("provision", None))
    BY DEF Deallocate, CloseRow, EndFact, WalkStop, WalkPoint, WalkAllocate, WalkBind, WalkTake,
       WalkTell, WalkConfigure, Walked, LostState, LostClosed, KickRecovery, LiveState, ReadyState,
       ReadyFact, Resumed, ReprovisionClear, ReprovisionState, WalkInsert, At, durable, watch, mishaps
  <1>3. Counted'
    <2>0. ~IsTerminal
      BY <1>2 DEF TypeInv, JobInv
    <2>1. CASE EndFact
      <3>1. IsTerminal'
        BY <2>1 DEF EndFact, At, TypeInv, TypeOK, MatchType, JobInv, Ending, IsTerminal
      <3>2. runtime'.announced = 0 /\ logged'.announced = logged.announced
        BY <2>1 DEF EndFact, NewRuntime
      <3> QED BY <1>1, <3>1, <3>2 DEF Counted, LoggedType
    <2>2. CASE Walked \/ LostClosed \/ ReadyFact \/ Resumed
      <3>1. runtime'.currentMap = runtime.currentMap /\ runtime'.announced = runtime.announced
        BY <1>1, <2>2 DEF Walked, LostClosed, KickRecovery, ReadyFact, Resumed, RuntimeType
      <3> QED BY <1>2, <2>0, <3>1, CountKept
    <2>3. CASE UNCHANGED runtime
      BY <1>2, <2>0, <2>3, CountKept
    <2> QED BY <2>1, <2>2, <2>3 DEF Deallocate, CloseRow, WalkStop, WalkPoint, WalkAllocate, WalkBind,
          WalkTake, WalkTell, WalkConfigure, LostState, LiveState, ReadyState, ReprovisionClear,
          ReprovisionState, WalkInsert
  <1>4. job'.pc = "idle" => job'.ending = NoEnd
    <2>1. CASE CloseRow
      BY <1>1, <2>1 DEF CloseRow, JobType, Returns
    <2>2. CASE Walked \/ LostClosed
      BY <1>1, <2>2, EndsCarry, FinishedCarriesNone DEF Walked, LostClosed, Finished
    <2>3. CASE EndFact \/ LiveState \/ ReadyFact \/ Resumed \/ ReprovisionState
      <3>1. job' = IdleJob \/ job' = [job EXCEPT !.pc = "resumed"]
                \/ job' = [IdleJob EXCEPT !.pc = "live_state"]
        BY <2>3 DEF EndFact, LiveState, ReadyFact, Resumed, ReprovisionState, Finished
      <3>2. [job EXCEPT !.pc = "resumed"].pc = "resumed"
        BY <1>1 DEF JobType
      <3>3. [IdleJob EXCEPT !.pc = "live_state"].pc = "live_state"
        BY DEF IdleJob
      <3> QED BY <3>1, <3>2, <3>3, FinishedCarriesNone
    <2>4. CASE Deallocate \/ WalkStop \/ WalkPoint \/ WalkAllocate \/ WalkBind \/ WalkTake \/ WalkTell
               \/ WalkConfigure \/ LostState \/ ReadyState \/ ReprovisionClear
               \/ \E r \in Rows : WalkInsert(r)
      BY <1>1, <2>4 DEF Deallocate, WalkStop, WalkPoint, WalkAllocate, WalkBind, WalkTake, WalkTell,
         WalkConfigure, LostState, ReadyState, ReprovisionClear, WalkInsert, JobType
    <2> QED BY <2>1, <2>2, <2>3, <2>4
  <1>5. \A k \in {"recover", "provision"} : Step(k, None) \in StepType /\ Step(k, None).kind # "completed"
    BY OwnSteps DEF Step
  <1> QED BY <1>2, <1>3, <1>4, <1>5, DemoWithin

LEMMA DemoClock ==
  ASSUME TypeInv, DemoInv, Clock \/ Servers \/ Clients \/ Operators
  PROVE  DemoInv'
  <1>1. /\ UNCHANGED <<match, job, logged, up, runtime, forgot>>
        /\ \/ chain' = chain
           \/ \E k \in Timers \cup Events \cup Commands \cup Doors, f \in Rows \cup {None} :
                 chain' = Append(chain, Step(k, f))
    BY MachineAssumption DEF Clock, Servers, Clients, Operators, Fire, Touch, Backup, Die, Say, Ask,
       OperatorRelease, Outsider, durable, memory, watch, mishaps, Doors
  <1>2. \A k \in Timers \cup Events \cup Commands \cup Doors, f \in Rows \cup {None} :
           Step(k, f) \in StepType /\ Step(k, f).kind # "completed"
    BY DEF Step, StepType, Kinds, Timers, Events, Signs, Commands, Doors
  <1>3. CASE chain' = chain
    BY <1>1, <1>3, DemoQueued
  <1>4. ASSUME NEW k \in Timers \cup Events \cup Commands \cup Doors, NEW f \in Rows \cup {None},
               chain' = Append(chain, Step(k, f))
        PROVE  DemoInv'
    BY <1>1, <1>2, <1>4, DemoQueued
  <1> QED BY <1>1, <1>3, <1>4

LEMMA DemoReaper == ASSUME TypeInv, DemoInv, Reaper PROVE DemoInv'
  <1>1. UNCHANGED <<match, job, logged, up, runtime, forgot>>
    BY DEF Reaper, ReaperLook, ReaperList, ReaperBlind, durable, memory, mishaps
  <1>2. CASE UNCHANGED chain
    BY <1>1, <1>2, DemoQueued
  <1>3. CASE chain' = Append(chain, Step("expire", None))
    <2>1. Step("expire", None) \in StepType /\ Step("expire", None).kind # "completed"
      BY OwnSteps DEF Step
    <2> QED BY <1>1, <1>3, <2>1, DemoQueued
  <1>4. ASSUME NEW due \in SUBSET Rows, ReaperList(due) PROVE DemoInv'
    <2> DEFINE q1 == IF ~IsTerminal /\ ({r \in Rows : server[r] = "up"} \ reaper.open) \cap PastGrace # {}
                       THEN <<Step("orphan_found", None)>> ELSE <<>>
               q2 == IF reaper.open \ {r \in Rows : server[r] = "up"} # {}
                       THEN <<Step("suspect", None)>> ELSE <<>>
    <2>1. /\ q1 \in Seq(StepType) /\ q2 \in Seq(StepType) /\ Len(q1) \in {0, 1} /\ Len(q2) \in {0, 1}
          /\ Plain(q1) /\ Plain(q2)
      BY OwnSteps DEF Plain, Step
    <2>2. chain' = chain \o q1 \o q2 /\ chain \in Seq(StepType)
      BY <1>4 DEF ReaperList, TypeInv, TypeOK
    <2> HIDE DEF q1, q2
    <2>3. chain' = chain \o (q1 \o q2) /\ q1 \o q2 \in Seq(StepType)
      BY <2>1, <2>2
    <2>4. Plain(q1 \o q2)
      BY <2>1 DEF Plain
    <2> QED BY <1>1, <2>3, <2>4, DemoOutside
  <1> QED BY <1>2, <1>3, <1>4 DEF Reaper, ReaperLook, ReaperBlind, memory

\* A step that throws is dropped, a dead process forgets, a restart reads what the log counted
\* and queues what it finds due.
LEMMA DemoMishap ==
  ASSUME TypeInv, DemoInv, StoreFails \/ Crash \/ Resume
  PROVE  DemoInv'
  <1>1. runtime \in RuntimeType /\ chain \in Seq(StepType) /\ logged \in LoggedType
    BY DEF TypeInv, TypeOK
  <1>2. CASE StoreFails
    <2>1. /\ UNCHANGED <<match, logged, up, forgot>> /\ up
          /\ runtime'.currentMap = runtime.currentMap /\ runtime'.announced = runtime.announced
      BY <1>1, <1>2 DEF StoreFails, durable, RuntimeType
    <2>2. Counted'
      BY <2>1, CountKept DEF IsTerminal
    <2>3. CASE job.pc = "idle"
      <3>1. chain # <<>> /\ chain' = Tail(chain) /\ job' = job
        BY <1>2, <2>3 DEF StoreFails
      <3> QED BY <2>1, <2>2, <2>3, <3>1, DemoTaken DEF DemoInv
    <2>4. CASE job.pc # "idle"
      <3>1. chain' = chain /\ job' = IdleJob
        BY <1>2, <2>4 DEF StoreFails
      <3> QED BY <2>1, <2>2, <2>4, <3>1, DemoWithin, FinishedCarriesNone
    <2> QED BY <2>3, <2>4
  <1>3. CASE Crash
    <2>1. ~up' /\ runtime'.announced = 0 /\ logged' = logged /\ job' = IdleJob /\ chain' = <<>>
      BY <1>3 DEF Crash, NewRuntime, durable
    <2>2. logged.announced \in Nat
      BY <1>1 DEF LoggedType
    <2> QED BY <2>1, <2>2 DEF DemoInv, Counted, IdleJob
  <1>4. CASE Resume
    <2>1. /\ job' = job /\ match' = match /\ logged' = logged /\ up' = TRUE
          /\ job.pc = "idle" /\ job.ending = NoEnd /\ chain' = ResumeChain
      BY <1>4 DEF Resume, durable, DemoInv
    <2>2. /\ runtime'.currentMap = IF ReadsLog THEN logged.map ELSE 1
          /\ runtime'.announced = IF ReadsLog THEN logged.announced ELSE 0
          /\ forgot' = (forgot \/ (~ReadsLog /\ logged.map # 1))
      BY <1>4 DEF Resume, NewRuntime
    <2>3. Counted'
      <3>1. ~forgot' => ReadsLog \/ logged.map = 1
        BY <2>2, Zenon
      <3>2. ~forgot' => runtime'.currentMap = logged'.map
        BY <2>1, <2>2, <3>1
      <3>3. logged.announced \in Nat
        BY <1>1 DEF LoggedType
      <3>4. runtime'.announced <= logged'.announced
        BY <2>1, <2>2, <3>3
      <3> QED BY <3>2, <3>4 DEF Counted
    <2>4. \/ Plain(ResumeChain)
          \/ ResumeChain = <<Step("completed", None)>> /\ ReplaysSeries /\ ~ReplaysWait
      BY DEF ResumeChain, Plain, Step
    <2>5. ASSUME NEW i \in 1..Len(chain'), chain'[i].kind = "completed" PROVE i = 1 /\ DueAtOnce'
      <3>1. ResumeChain = <<Step("completed", None)>> /\ ReplaysSeries /\ ~ReplaysWait
        BY <2>1, <2>4, <2>5 DEF Plain
      <3>2. i = 1
        BY <2>1, <2>5, <3>1
      <3>3. logged.announced \in Nat /\ logged.map \in Nat
        BY <1>1 DEF LoggedType, Maps
      <3> QED BY <2>1, <3>1, <3>2, <3>3 DEF DueAtOnce, ReplaysWait
    <2> QED BY <2>1, <2>3, <2>5 DEF DemoInv
  <1> QED BY <1>2, <1>3, <1>4

LEMMA InitDemo == Init => DemoInv
  BY DEF Init, DemoInv, Counted, IdleJob, NewRuntime, Step, DueAtOnce

LEMMA NextDemo == ASSUME TypeInv, DemoInv, [Next]_vars PROVE DemoInv'
  <1>1. CASE UNCHANGED vars
    BY <1>1 DEF vars, durable, memory, watch, mishaps, DemoInv, Counted, IsTerminal, DueAtOnce
  <1> QED BY <1>1, DemoBegun, DemoInside, DemoClock, DemoReaper, DemoMishap DEF Next, Living, Handlers

\* Who ends a match as completed between two steps.
Awaited == Completes /\ ~forgot => logged'.announced >= logged.map

\* Nobody but its demos ends a series before the demo deadline: the last demo to be announced,
\* a series_end with none owed, or the end a restart found due.
LEMMA NextAwaits == ASSUME TypeInv, DemoInv, [Next]_vars PROVE Awaited
  <1> SUFFICES ASSUME job.pc = "idle", job'.ending = Ended("completed"), match.state = "live",
                      RecordsDemo, Head(chain).kind # "demo", ~forgot
               PROVE  logged'.announced >= logged.map
    BY DEF Awaited, Completes
  <1>1. job.ending = NoEnd /\ job' # job /\ job' # IdleJob
    BY DEF DemoInv, NoEnd, Ended, IdleJob
  <1>2. /\ logged \in LoggedType /\ runtime \in RuntimeType
        /\ logged.announced \in Nat /\ logged.map \in Nat
        /\ runtime.announced \in Nat /\ runtime.currentMap \in Nat
    BY DEF TypeInv, TypeOK, LoggedType, RuntimeType, Maps
  <1>3. runtime.announced <= logged.announced /\ (up => runtime.currentMap = logged.map)
    BY DEF DemoInv, Counted, IsTerminal, Terminal
  <1>4. CASE EndStep
    <2>1. Verdict(Head(chain)) = Ended("completed")
      BY <1>1, <1>4, EndsCarry DEF EndStep
    <2>2. Head(chain).kind = "completed"
      BY <2>1 DEF Verdict, Ended, Failed, NoEnd
    <2>3. DueAtOnce /\ logged' = logged
      BY <1>4, <2>2 DEF EndStep, durable, Begin, TypeInv, TypeOK, DemoInv
    <2> QED BY <2>3 DEF DueAtOnce
  <1>5. CASE SeriesEnd
    <2>1. up /\ ~DemoPending(runtime.announced)
      BY <1>1, <1>5 DEF SeriesEnd, Begin
    <2>2. runtime.announced >= runtime.currentMap
      BY <1>2, <2>1 DEF DemoPending
    <2>3. logged'.announced = logged.announced
      BY <1>2, <1>5 DEF SeriesEnd, LoggedType
    <2> QED BY <1>2, <1>3, <2>1, <2>2, <2>3
  <1>6. CASE DemoAvailable
    <2>1. up /\ ~DemoPending(runtime.announced + 1)
      BY <1>1, <1>6 DEF DemoAvailable, Begin
    <2>2. runtime.announced + 1 >= runtime.currentMap
      BY <1>2, <2>1 DEF DemoPending
    <2>3. logged'.announced = logged.announced + 1
      BY <1>2, <1>6 DEF DemoAvailable, LoggedType
    <2> QED BY <1>2, <1>3, <2>1, <2>2, <2>3
  <1>7. CASE Recover \/ Probe \/ Suspect \/ Sign \/ Reprovision
    <2>1. \/ job' = job
          \/ End(Failed("server_lost"))
          \/ End(Failed("provider_error"))
          \/ job'.ending = IdleJob.ending
      BY <1>7 DEF Recover, Probe, Suspect, Lost, LostFromLive, Sign, Reprovision, IdleJob
    <2> QED BY <1>1, <2>1, EndsCarry, FinishedCarriesNone DEF Ended, Failed, NoEnd
  <1>8. CASE Provision \/ EventIgnored \/ ServerReady \/ GoingLive \/ NextMap \/ Restore
             \/ PauseOrUnpause \/ OrphanFact
    <2>1. job' = job \/ job'.ending = IdleJob.ending
      BY <1>8 DEF Provision, EventIgnored, ServerReady, GoingLive, NextMap, Restore, PauseOrUnpause,
         OrphanFact, IdleJob
    <2> QED BY <1>1, <2>1, FinishedCarriesNone DEF Ended, NoEnd
  <1>9. ~(Deallocate \/ CloseRow \/ EndFact \/ WalkStop \/ WalkPoint \/ WalkAllocate \/ WalkBind
           \/ WalkTake \/ WalkTell \/ WalkConfigure \/ Walked \/ LostState \/ LostClosed \/ LiveState
           \/ ReadyState \/ ReadyFact \/ Resumed \/ ReprovisionClear \/ ReprovisionState
           \/ \E r \in Rows : WalkInsert(r))
    BY DEF Deallocate, CloseRow, EndFact, WalkStop, WalkPoint, WalkAllocate, WalkBind, WalkTake,
       WalkTell, WalkConfigure, Walked, LostState, LostClosed, LiveState, ReadyState,
       ReadyFact, Resumed, ReprovisionClear, ReprovisionState, WalkInsert, At
  <1>10. CASE UNCHANGED vars \/ Clock \/ Servers \/ Clients \/ Operators \/ Reaper
    <2>1. job' = job
      BY <1>10 DEF vars, Clock, Servers, Clients, Operators, Fire, Touch, Backup, Die, Say, Ask,
         OperatorRelease, Reaper, ReaperLook, ReaperList, ReaperBlind, memory
    <2> QED BY <1>1, <2>1
  <1>11. CASE StoreFails \/ Crash \/ Resume
    BY <1>1, <1>11 DEF StoreFails, Crash, Resume
  <1> QED BY <1>4, <1>5, <1>6, <1>7, <1>8, <1>9, <1>10, <1>11 DEF Next, Living, Handlers

\* A recording match that is live is completed before its demo deadline only when its log has a
\* demo_available for each map of the series, whichever lives of the process counted them.
THEOREM DemoIsAwaited == Spec => DemoIsWaitedFor
  <1>1. Init => TypeInv /\ DemoInv
    BY InitTyped, InitDemo
  <1>2. TypeInv /\ DemoInv /\ [Next]_vars => TypeInv' /\ DemoInv'
    BY NextTyped, NextDemo
  <1>3. TypeInv /\ DemoInv /\ [Next]_vars => Awaited
    BY NextAwaits
  <1> QED BY <1>1, <1>2, <1>3, PTL DEF Spec, DemoIsWaitedFor, Awaited
=============================================================================
