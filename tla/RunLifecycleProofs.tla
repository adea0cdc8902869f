-------------------------- MODULE RunLifecycleProofs --------------------------
(***************************************************************************)
(* The run kernel reports what a run cost, serves every role and leaves no *)
(* gateway child behind, for any hosts, profiles, runs and charges.        *)
(***************************************************************************)
EXTENDS RunLifecycle, TLAPS

-----------------------------------------------------------------------------
(* Types. *)

LEMMA DefaultFile == "default" \in Files
  BY LifecycleAssumption

\* Billing, counting and reporting keep the types.
LEMMA BillTyped ==
    ASSUME TypeOK, NEW h \in Hosts, NEW c \in Charges, Bill(h, c)
    PROVE  billed' \in [Runs -> Nat]
<1>1. billed \in [Runs -> Nat] /\ c \in Nat
  BY LifecycleAssumption DEF TypeOK
<1>2. CASE run[h] \in Runs
  <2>1. billed[run[h]] + c \in Nat
    BY <1>1, <1>2
  <2> QED
    BY <1>1, <2>1 DEF Bill
<1>3. CASE run[h] \notin Runs
  BY <1>1, <1>3 DEF Bill
<1> QED
  BY <1>2, <1>3

LEMMA CountTyped ==
    ASSUME TypeOK, NEW h \in Hosts, NEW c \in Charges, Count(h, c) \/ UNCHANGED usage
    PROVE  usage' \in [Hosts -> Nat]
  BY LifecycleAssumption DEF TypeOK, Count

Summaries == [status : {"none", "torn", "failed", "done"}, cost : Nat, name : Names]

\* What may stand in a summary after an attempt to write it.
LEMMA ReportTyped ==
    ASSUME TypeOK, NEW h \in Hosts,
           \/ WriteFails(h)
           \/ \E status \in {"failed", "done"}, cost \in Nat : WriteSummary(h, status, cost)
    PROVE  summary' \in [Runs -> Summaries] /\ faults' \in Nat
<1>1. summary \in [Runs -> Summaries] /\ faults \in Nat
  BY DEF TypeOK, Summaries
<1>2. Torn \in Summaries
  BY DEF Torn, Summaries, Names
<1>3. Contents[profile[h]].name \in Names
  BY DEF TypeOK, Names
<1>4. CASE WriteFails(h)
  <2>1. PICK left \in {summary[run[h]], Torn} :
            summary' = [summary EXCEPT ![run[h]] = left] /\ faults' = faults + 1
    BY <1>4 DEF WriteFails
  <2>2. faults' \in Nat
    BY <1>1, <2>1
  <2>3. run[h] \in Runs => left \in Summaries
    BY <1>1, <1>2
  <2>4. summary' \in [Runs -> Summaries]
    BY <1>1, <2>1, <2>3
  <2> QED
    BY <2>2, <2>4
<1>5. ASSUME NEW status \in {"failed", "done"}, NEW cost \in Nat, WriteSummary(h, status, cost)
      PROVE  summary' \in [Runs -> Summaries] /\ faults' \in Nat
  <2>1. [status |-> status, cost |-> cost, name |-> Contents[profile[h]].name] \in Summaries
    BY <1>3 DEF Summaries
  <2> QED
    BY <1>1, <1>5, <2>1 DEF WriteSummary
<1> QED
  BY <1>4, <1>5

\* The gateway's variables, by what the kernel does to them.
LEMMA GatewayTyped ==
    ASSUME GatewayTypeOK, NEW h \in Hosts
    PROVE  /\ BeginStop(h) /\ unmanaged' = unmanaged => GatewayTypeOK'
           /\ Forget(h) => GatewayTypeOK'
           /\ Start(h) \/ StopEnds(h) => GatewayTypeOK'
           /\ ChildServes(h) \/ ChildExits(h) => GatewayTypeOK'
<1> USE DEF GatewayTypeOK, Goto, Alive
<1>1. BeginStop(h) /\ unmanaged' = unmanaged => GatewayTypeOK'
  BY DEF BeginStop
<1>2. Forget(h) => GatewayTypeOK'
  BY DEF Forget
<1>3. Start(h) \/ StopEnds(h) => GatewayTypeOK'
  BY DEF Start, StopEnds, ProbeAnswered, ProbeMissed, GiveUp, Spawn
<1>4. ChildServes(h) \/ ChildExits(h) => GatewayTypeOK'
  BY DEF ChildServes, ChildExits
<1> QED
  BY <1>1, <1>2, <1>3, <1>4

\* The variables of an execution that is over.
LEMMA ClearTyped ==
    ASSUME TypeOK, NEW h \in Hosts, Clear(h)
    PROVE  /\ run' \in [Hosts -> Runs \cup {0}] /\ profile' \in [Hosts -> Files]
           /\ recovered' \in [Hosts -> BOOLEAN] /\ ready' \in [Hosts -> BOOLEAN]
           /\ usage' \in [Hosts -> Nat] /\ written' \in [Hosts -> BOOLEAN]
           /\ steps' \in [Hosts -> Nat]
  BY DefaultFile DEF TypeOK, Clear

LEMMA ShutdownTyped ==
    ASSUME TypeOK, NEW h \in Hosts, Shutdown(h), unmanaged' = unmanaged
    PROVE  /\ GatewayTypeOK'
           /\ at' \in [Hosts -> {"off", "idle", "gateway", "tools", "graph", "failing", "closing"}]
<1>1. CASE started[h]
  BY <1>1, GatewayTyped DEF TypeOK, Shutdown, Move
<1>2. CASE ~started[h]
  BY <1>2 DEF TypeOK, Shutdown, Move, GatewayTypeOK
<1> QED
  BY <1>1, <1>2

\* Launching keeps the types.
LEMMA ExecuteTyped ==
    ASSUME TypeOK, NEW h \in Hosts, NEW r \in Runs \cup {0}, NEW file \in Files,
           NEW found \in BOOLEAN, NEW injected \in BOOLEAN, Execute(h, r, file, found, injected)
    PROVE  TypeOK'
<1>1. GatewayTypeOK'
  BY DEF TypeOK, GatewayTypeOK, Execute, Renew, Goto, Alive
<1>2. at' \in [Hosts -> {"off", "idle", "gateway", "tools", "graph", "failing", "closing"}]
  BY DEF TypeOK, Execute, Move
<1>3. /\ run' \in [Hosts -> Runs \cup {0}] /\ profile' \in [Hosts -> Files]
      /\ recovered' \in [Hosts -> BOOLEAN] /\ started' \in [Hosts -> BOOLEAN]
      /\ outcome' \in [Hosts -> {"none", "resolved", "rejected"}] /\ launches' \in Nat
  BY LifecycleAssumption DEF TypeOK, Execute
<1> QED
  BY <1>1, <1>2, <1>3 DEF TypeOK, Execute, diskVars

LEMMA OperatorTyped == ASSUME TypeOK, NEW h \in Hosts, StartRun(h) \/ ResumeRun(h) PROVE TypeOK'
<1>1. CASE StartRun(h)
  BY <1>1, ExecuteTyped DEF StartRun, Loadable
<1>2. CASE ResumeRun(h)
  <2>1. \A r \in 1..issued : r \in Runs
    BY LifecycleAssumption DEF TypeOK, Runs
  <2> QED
    BY <1>2, <2>1, ExecuteTyped, DefaultFile DEF ResumeRun, RecordedFile, Loadable
<1> QED
  BY <1>1, <1>2

\* So does the kernel up to the graph.
LEMMA StartupTyped ==
    ASSUME TypeOK, NEW h \in Hosts, GatewayUp(h) \/ GatewayDown(h) \/ ToolsDown(h) \/ OpenRun(h)
    PROVE  TypeOK'
<1>1. CASE GatewayUp(h)
  BY <1>1 DEF GatewayUp, TypeOK, GatewayTypeOK, Move, Goto, diskVars, boundVars
<1>2. CASE GatewayDown(h)
  <2>1. GatewayTypeOK'
    BY <1>2, GatewayTyped DEF GatewayDown, TypeOK, GatewayTypeOK, Goto
  <2> QED
    BY <1>2, <2>1, ClearTyped DEF GatewayDown, TypeOK, Move, diskVars, boundVars
<1>3. CASE ToolsDown(h)
  BY <1>3, ShutdownTyped DEF ToolsDown, TypeOK, End, diskVars, boundVars
<1>4. CASE OpenRun(h)
  <2>1. /\ at' \in [Hosts -> {"off", "idle", "gateway", "tools", "graph", "failing", "closing"}]
        /\ ready' \in [Hosts -> BOOLEAN]
    BY <1>4 DEF OpenRun, Move, TypeOK
  <2>2. /\ issued' \in 0..MaxRuns /\ run' \in [Hosts -> Runs \cup {0}]
        /\ origin' \in [Runs -> Files]
    <3>1. CASE run[h] = 0
      <4>1. issued + 1 \in 0..MaxRuns /\ issued + 1 \in Runs
        BY <1>4, <3>1, LifecycleAssumption DEF OpenRun, TypeOK, Runs
      <4>2. /\ issued' = issued + 1 /\ run' = [run EXCEPT ![h] = issued + 1]
            /\ origin' = [origin EXCEPT ![issued + 1] = profile[h]]
        BY <1>4, <3>1 DEF OpenRun
      <4>3. profile[h] \in Files
        BY DEF TypeOK
      <4> QED
        BY <4>1, <4>2, <4>3 DEF TypeOK
    <3>2. CASE run[h] # 0
      BY <1>4, <3>2 DEF OpenRun, TypeOK
    <3> QED
      BY <3>1, <3>2
  <2> QED
    BY <1>4, <2>1, <2>2 DEF OpenRun, TypeOK, gatewayVars, GatewayTypeOK, diskVars
<1> QED
  BY <1>1, <1>2, <1>3, <1>4

\* And the graph, its report and the end of the process.
LEMMA GraphTyped ==
    ASSUME TypeOK, NEW h \in Hosts, GraphStep(h) \/ GraphThrows(h)
    PROVE  TypeOK'
<1>1. CASE GraphStep(h)
  <2>1. PICK c \in Charges, ended \in BOOLEAN :
            /\ Bill(h, c) /\ Count(h, c)
            /\ checkpoint' = [checkpoint EXCEPT ![run[h]] =
                                [cost |-> @.cost + c, ended |-> ended, exists |-> TRUE]]
    BY <1>1 DEF GraphStep
  <2>2. checkpoint' \in [Runs -> [cost : Nat, ended : BOOLEAN, exists : BOOLEAN]]
    <3>1. /\ checkpoint \in [Runs -> [cost : Nat, ended : BOOLEAN, exists : BOOLEAN]]
          /\ c \in Nat
      BY LifecycleAssumption DEF TypeOK
    <3>2. run[h] \in Runs => checkpoint[run[h]].cost + c \in Nat
      BY <3>1
    <3> QED
      BY <2>1, <3>1, <3>2
  <2>3. steps' \in [Hosts -> Nat]
    BY <1>1 DEF GraphStep, TypeOK
  <2> QED
    BY <1>1, <2>1, <2>2, <2>3, BillTyped, CountTyped
    DEF GraphStep, TypeOK, gatewayVars, GatewayTypeOK, boundVars
<1>2. CASE GraphThrows(h)
  <2>1. billed' \in [Runs -> Nat] /\ usage' \in [Hosts -> Nat]
    BY <1>2, BillTyped, CountTyped DEF GraphThrows
  <2> QED
    BY <1>2, <2>1 DEF GraphThrows, TypeOK, Move, gatewayVars, GatewayTypeOK, diskVars, boundVars
<1> QED
  BY <1>1, <1>2

LEMMA ReportingTyped ==
    ASSUME TypeOK, NEW h \in Hosts, GraphEnds(h) \/ GraphEndsUnreported(h) \/ ReportFailure(h)
    PROVE  TypeOK'
<1>1. CASE GraphEndsUnreported(h)
  <2>1. summary' \in [Runs -> Summaries] /\ faults' \in Nat
    BY <1>1, ReportTyped DEF GraphEndsUnreported
  <2> QED
    BY <1>1, <2>1 DEF GraphEndsUnreported, TypeOK, Move, gatewayVars, GatewayTypeOK, Summaries
<1>2. ASSUME summary' \in [Runs -> Summaries] /\ faults' \in Nat,
             Told(h) \/ UNCHANGED written, NEW how \in {"resolved", "rejected"}, End(h, how),
             Shutdown(h),
             UNCHANGED <<unmanaged, run, profile, recovered, started, ready, usage, steps,
                         checkpoint, billed, origin, issued, launches>>
      PROVE  TypeOK'
  BY <1>2, ShutdownTyped DEF TypeOK, Told, End, Summaries
<1>3. CASE GraphEnds(h)
  <2>1. ASSUME run[h] \in Runs PROVE summary' \in [Runs -> Summaries] /\ faults' \in Nat
    <3>1. checkpoint[run[h]].cost \in Nat
      BY <2>1 DEF TypeOK
    <3> QED
      BY <1>3, <3>1, ReportTyped DEF GraphEnds
  <2>2. ASSUME run[h] \notin Runs PROVE summary' \in [Runs -> Summaries] /\ faults' \in Nat
    BY <1>3, <2>2 DEF GraphEnds, WriteSummary, TypeOK, Summaries
  <2>3. summary' \in [Runs -> Summaries] /\ faults' \in Nat
    BY <2>1, <2>2
  <2> QED
    BY <1>2, <1>3, <2>3 DEF GraphEnds
<1>4. CASE ReportFailure(h)
  <2>1. usage[h] \in Nat
    BY DEF TypeOK
  <2>2. summary' \in [Runs -> Summaries] /\ faults' \in Nat
    BY <1>4, <2>1, ReportTyped DEF ReportFailure
  <2> QED
    BY <1>2, <1>4, <2>2 DEF ReportFailure
<1> QED
  BY <1>1, <1>3, <1>4

\* The end of a process, by itself or by a signal.
LEMMA EndTyped ==
    ASSUME TypeOK, NEW h \in Hosts, Leave(h) \/ Interrupt(h) \/ Kill(h)
    PROVE  TypeOK'
<1>1. CASE Leave(h)
  <2>1. GatewayTypeOK'
    BY <1>1, GatewayTyped DEF Leave, TypeOK, gatewayVars, GatewayTypeOK
  <2>2. at' \in [Hosts -> {"off", "idle", "gateway", "tools", "graph", "failing", "closing"}]
    <3>1. Move(h, "idle") \/ Move(h, "off")
      BY <1>1 DEF Leave
    <3> QED
      BY <3>1 DEF Move, TypeOK
  <2> QED
    BY <1>1, <2>1, <2>2, ClearTyped DEF Leave, TypeOK, diskVars, boundVars
<1>2. ASSUME Move(h, "off"), End(h, "none"), Forget(h), Clear(h),
             billed' = billed \/ \E c \in Charges : Bill(h, c),
             summary' \in [Runs -> Summaries], faults' \in Nat,
             UNCHANGED <<started, checkpoint, origin, issued, launches>>
      PROVE  TypeOK'
  <2>1. billed' \in [Runs -> Nat]
    BY <1>2, BillTyped DEF TypeOK
  <2>2. GatewayTypeOK'
    BY <1>2, GatewayTyped DEF TypeOK
  <2> QED
    BY <1>2, <2>1, <2>2, ClearTyped DEF TypeOK, Move, End, Summaries
<1>3. CASE Interrupt(h)
  <2>1. usage[h] \in Nat
    BY DEF TypeOK
  <2>2. summary' \in [Runs -> Summaries] /\ faults' \in Nat
    BY <1>3, <2>1, ReportTyped DEF Interrupt, TypeOK, Summaries
  <2> QED
    BY <1>2, <1>3, <2>2 DEF Interrupt
<1>4. CASE Kill(h)
  BY <1>2, <1>4 DEF Kill, TypeOK, Summaries, diskVars, boundVars
<1> QED
  BY <1>1, <1>3, <1>4

\* What the gateway and its child do meanwhile.
LEMMA AroundTyped ==
    ASSUME TypeOK, Environment \/ \E h \in Hosts : GatewayStep(h)
    PROVE  TypeOK'
<1>1. GatewayTypeOK'
  <2>1. CASE UnmanagedExits
    BY <2>1 DEF UnmanagedExits, GatewayTypeOK, TypeOK
  <2> QED
    BY <2>1, GatewayTyped DEF TypeOK, Environment, GatewayStep
<1> QED
  BY <1>1 DEF TypeOK, Environment, GatewayStep, hostVars, diskVars, boundVars

\* The type invariant of the run kernel.
THEOREM LifecycleTyped == Spec => []TypeOK
<1>1. Init => TypeOK
  BY DefaultFile, LifecycleAssumption
  DEF Init, TypeOK, GatewayInit, GatewayTypeOK, NoCheckpoint, NoSummary, Names, Alive
<1>2. TypeOK /\ [Next]_vars => TypeOK'
  <2> SUFFICES ASSUME TypeOK, [Next]_vars PROVE TypeOK'
    OBVIOUS
  <2>1. CASE Next
    BY <2>1, OperatorTyped, StartupTyped, GraphTyped, ReportingTyped, EndTyped, AroundTyped
    DEF Next, KernelStep, Operator
  <2>2. CASE UNCHANGED vars
    BY <2>2 DEF vars, gatewayVars, hostVars, diskVars, boundVars, TypeOK, GatewayTypeOK
  <2> QED
    BY <2>1, <2>2
<1> QED
  BY <1>1, <1>2, PTL DEF Spec

-----------------------------------------------------------------------------
(* Hosts: the child, the gateway it serves and the profile in force. *)

\* How far startup and shutdown of the gateway are says how far the execution is.
PlaceInv(h) ==
    /\ at[h] \notin {"gateway", "closing"} => gw[h] = "idle"
    /\ at[h] = "gateway" => gw[h] \in {"probing", "resolving", "polling", "ready", "failed"}
    /\ at[h] = "closing" => gw[h] \in {"idle", "stopping"}

\* A live child is managed, left behind by a process that is gone, or being stopped; and what
\* the start saw before its lookup still holds after it.
ChildInv(h) ==
    /\ gw[h] = "resolving" => ~managed[h]
    /\ child[h] \in Alive => managed[h] \/ at[h] = "off" \/ gw[h] = "stopping"
    /\ outcome[h] = "resolved" => at[h] \in {"off", "idle", "closing"}
    /\ outcome[h] = "resolved" /\ started[h] /\ gw[h] # "stopping" => child[h] \notin Alive

\* The gateway a profile needs has been asked for.
ServedInv(h) ==
    /\ Executing(h) => profile[h] \in Loadable
    /\ at[h] \in {"tools", "graph"} =>
          ("openclaw" \in EffectiveTransports(Contents[profile[h]]) => started[h])

HostInv(h) == PlaceInv(h) /\ ChildInv(h) /\ ServedInv(h)

HostStep(h) == KernelStep(h) \/ GatewayStep(h) \/ Operator(h)

Same(q) ==
    /\ at'[q] = at[q] /\ gw'[q] = gw[q] /\ managed'[q] = managed[q] /\ child'[q] = child[q]
    /\ profile'[q] = profile[q] /\ started'[q] = started[q] /\ outcome'[q] = outcome[q]

LEMMA SameKeeps == ASSUME NEW q, HostInv(q), Same(q) PROVE HostInv(q)'
<1>1. PlaceInv(q)' /\ ChildInv(q)'
  BY DEF HostInv, PlaceInv, ChildInv, Same
<1>2. ServedInv(q)'
  BY DEF HostInv, ServedInv, Same, Executing, Loadable
<1> QED
  BY <1>1, <1>2 DEF HostInv

\* A host touches its own variables only.
LEMMA Elsewhere ==
    ASSUME TypeOK, NEW h \in Hosts, HostStep(h), NEW q \in Hosts \ {h}
    PROVE  Same(q)
<1> USE DEF Same, Move, Goto, End, TypeOK, GatewayTypeOK
<1>1. ASSUME NEW r, NEW file, NEW found, NEW injected, Execute(h, r, file, found, injected)
      PROVE  Same(q)
  BY <1>1 DEF Execute, Renew
<1>2. CASE StartRun(h) \/ ResumeRun(h)
  BY <1>1, <1>2 DEF StartRun, ResumeRun
<1>3. ASSUME Clear(h) PROVE profile'[q] = profile[q]
  BY <1>3 DEF Clear
<1>4. CASE Kill(h) \/ Interrupt(h)
  BY <1>3, <1>4 DEF Kill, Interrupt, Forget
<1>5. CASE GatewayUp(h) \/ GatewayDown(h)
  BY <1>3, <1>5 DEF GatewayUp, GatewayDown, Forget
<1>6. CASE Leave(h)
  BY <1>3, <1>6 DEF Leave, Forget, gatewayVars
<1>7. CASE ToolsDown(h) \/ GraphEnds(h) \/ ReportFailure(h)
  BY <1>7 DEF ToolsDown, GraphEnds, ReportFailure, Shutdown, BeginStop
<1>8. CASE OpenRun(h) \/ GraphStep(h) \/ GraphThrows(h) \/ GraphEndsUnreported(h)
  BY <1>8 DEF OpenRun, GraphStep, GraphThrows, GraphEndsUnreported, gatewayVars
<1>9. CASE GatewayStep(h)
  BY <1>9 DEF GatewayStep, Start, StopEnds, ProbeAnswered, ProbeMissed, GiveUp, Spawn, hostVars
<1> QED
  BY <1>2, <1>4, <1>5, <1>6, <1>7, <1>8, <1>9 DEF HostStep, KernelStep, Operator

\* Launching: a process has no child of its own yet.
LEMMA LaunchKeeps ==
    ASSUME TypeOK, NEW h \in Hosts, HostInv(h), StartRun(h) \/ ResumeRun(h)
    PROVE  HostInv(h)'
<1>1. ASSUME NEW r, NEW file \in Loadable, NEW found, NEW injected \in BOOLEAN,
             Execute(h, r, file, found, injected)
      PROVE  HostInv(h)'
  <2>1. /\ at[h] \in {"off", "idle"} /\ gw[h] = "idle" /\ outcome'[h] = "none"
        /\ profile'[h] = file /\ managed' = managed
        /\ child'[h] = IF at[h] = "off" THEN "none" ELSE child[h]
    BY <1>1 DEF Execute, Renew, Executing, HostInv, PlaceInv, TypeOK, GatewayTypeOK
  <2>2. \/ NeedsGateway(file, injected) /\ at'[h] = "gateway" /\ gw'[h] = "probing"
        \/ ~NeedsGateway(file, injected) /\ at'[h] = "tools" /\ gw'[h] = "idle"
    BY <1>1, <2>1 DEF Execute, Move, Goto, TypeOK, GatewayTypeOK
  <2>3. PlaceInv(h)'
    BY <2>2 DEF PlaceInv
  <2>4. ChildInv(h)'
    BY <2>1, <2>2 DEF ChildInv, HostInv, Alive
  <2>5. ServedInv(h)'
    BY <2>1, <2>2 DEF ServedInv, NeedsGateway, Executing, Loadable
  <2> QED
    BY <2>3, <2>4, <2>5 DEF HostInv
<1>2. \A r \in Runs : RecordedFile(r) \subseteq Loadable
  BY DEF RecordedFile
<1>3. \A r \in 1..issued : r \in Runs
  BY LifecycleAssumption DEF TypeOK, Runs
<1> QED
  BY <1>1, <1>2, <1>3 DEF StartRun, ResumeRun

\* The gateway's start: a child is spawned only by a host that manages none.
LEMMA GatewayKeeps ==
    ASSUME TypeOK, NEW h \in Hosts, HostInv(h), GatewayStep(h)
    PROVE  HostInv(h)'
<1> USE DEF TypeOK, GatewayTypeOK
<1>1. /\ at' = at /\ profile' = profile /\ started' = started /\ outcome' = outcome
  BY DEF GatewayStep, hostVars
<1>2. ServedInv(h)'
  BY <1>1 DEF HostInv, ServedInv, Executing, Loadable
<1>3. CASE StopEnds(h)
  <2>1. gw[h] = "stopping" /\ gw'[h] = "idle" /\ child'[h] = "gone"
    BY <1>3 DEF StopEnds, Goto
  <2> QED
    BY <1>1, <1>2, <2>1 DEF HostInv, PlaceInv, ChildInv, Alive
<1>4. CASE Start(h)
  <2>1. /\ gw[h] \in {"probing", "resolving", "polling"}
        /\ gw'[h] \in {"resolving", "polling", "ready", "failed"}
    BY <1>4 DEF Start, ProbeAnswered, ProbeMissed, GiveUp, Spawn, Goto
  <2>2. \/ managed' = managed /\ child' = child /\ (gw'[h] = "resolving" => ~managed[h])
        \/ managed'[h] /\ gw'[h] = "polling"
    BY <1>4 DEF Start, ProbeAnswered, ProbeMissed, GiveUp, Spawn, Goto
  <2>3. at[h] = "gateway"
    BY <2>1 DEF HostInv, PlaceInv
  <2> QED
    BY <1>1, <1>2, <2>1, <2>2, <2>3 DEF HostInv, PlaceInv, ChildInv
<1> QED
  BY <1>3, <1>4 DEF GatewayStep

\* From the gateway to the graph.
LEMMA StartupKeeps ==
    ASSUME TypeOK, NEW h \in Hosts, HostInv(h), GatewayUp(h) \/ GatewayDown(h) \/ OpenRun(h)
    PROVE  HostInv(h)'
<1> USE DEF TypeOK, GatewayTypeOK
<1>1. CASE GatewayUp(h)
  <2>1. /\ at[h] = "gateway" /\ at'[h] = "tools" /\ gw'[h] = "idle" /\ gw[h] = "ready"
        /\ started'[h] /\ outcome' = outcome /\ child' = child /\ managed' = managed
        /\ profile' = profile
    BY <1>1 DEF GatewayUp, Move, Goto
  <2> QED
    BY <2>1 DEF HostInv, PlaceInv, ChildInv, ServedInv, Executing, Loadable
<1>2. CASE GatewayDown(h)
  <2>1. /\ at[h] = "gateway" /\ gw[h] = "failed" /\ outcome'[h] = "rejected" /\ child' = child
        /\ gw'[h] = "idle"
    BY <1>2 DEF GatewayDown, End, Goto, Forget
  <2>2. (at'[h] = "idle" /\ managed' = managed) \/ at'[h] = "off"
    BY <1>2 DEF GatewayDown, Move, Forget
  <2> QED
    BY <2>1, <2>2 DEF HostInv, PlaceInv, ChildInv, ServedInv, Executing
<1>3. CASE OpenRun(h)
  <2>1. /\ at[h] = "tools" /\ at'[h] \in {"graph", "failing"}
        /\ UNCHANGED <<gw, managed, child, profile, started, outcome>>
    BY <1>3 DEF OpenRun, Move, gatewayVars
  <2> QED
    BY <2>1 DEF HostInv, PlaceInv, ChildInv, ServedInv, Executing, Loadable
<1> QED
  BY <1>1, <1>2, <1>3

\* Shutdown leaves a child to be stopped or none.
LEMMA ShutdownLeavesNone ==
    ASSUME TypeOK, NEW h \in Hosts, HostInv(h), at[h] \in {"tools", "graph", "failing"},
           Shutdown(h), started' = started, profile' = profile,
           outcome'[h] \in {"resolved", "rejected"}
    PROVE  HostInv(h)'
<1> USE DEF TypeOK, GatewayTypeOK
<1>1. gw[h] = "idle" /\ at'[h] = "closing"
  BY DEF HostInv, PlaceInv, Shutdown, Move
<1>2. child[h] \in Alive => managed[h]
  BY <1>1 DEF HostInv, ChildInv
<1>3. \/ started[h] /\ managed[h] /\ gw'[h] = "stopping"
      \/ started[h] /\ ~managed[h] /\ gw'[h] = "idle" /\ child'[h] = child[h]
      \/ ~started[h] /\ gw'[h] = gw[h] /\ child'[h] = child[h] /\ managed'[h] = managed[h]
  BY DEF Shutdown, BeginStop, Goto
<1>4. ServedInv(h)'
  BY <1>1 DEF HostInv, ServedInv, Executing, Loadable
<1> QED
  BY <1>1, <1>2, <1>3, <1>4 DEF HostInv, PlaceInv, ChildInv

\* The graph and its reports.
LEMMA GraphKeeps ==
    ASSUME TypeOK, NEW h \in Hosts, HostInv(h),
           \/ ToolsDown(h) \/ GraphStep(h) \/ GraphThrows(h) \/ GraphEnds(h)
           \/ GraphEndsUnreported(h) \/ ReportFailure(h)
    PROVE  HostInv(h)'
<1> USE DEF TypeOK, GatewayTypeOK
<1>1. CASE ToolsDown(h) \/ GraphEnds(h) \/ ReportFailure(h)
  BY <1>1, ShutdownLeavesNone DEF ToolsDown, GraphEnds, ReportFailure, End
<1>2. CASE GraphStep(h)
  <2>1. Same(h)
    BY <1>2 DEF GraphStep, Same, gatewayVars
  <2> QED
    BY <2>1, SameKeeps
<1>3. CASE GraphThrows(h) \/ GraphEndsUnreported(h)
  <2>1. /\ at[h] = "graph" /\ at'[h] = "failing"
        /\ UNCHANGED <<gw, managed, child, profile, started, outcome>>
    BY <1>3 DEF GraphThrows, GraphEndsUnreported, Move, InGraph, gatewayVars
  <2> QED
    BY <2>1 DEF HostInv, PlaceInv, ChildInv, ServedInv, Executing, Loadable
<1> QED
  BY <1>1, <1>2, <1>3

\* The end of a process forgets its child, that of an execution does not.
LEMMA EndKeeps ==
    ASSUME TypeOK, NEW h \in Hosts, HostInv(h), Leave(h) \/ Interrupt(h) \/ Kill(h)
    PROVE  HostInv(h)'
<1> USE DEF TypeOK, GatewayTypeOK
<1>1. CASE Leave(h)
  <2>1. /\ at[h] = "closing" /\ gw[h] = "idle" /\ child' = child /\ gw'[h] = "idle"
        /\ UNCHANGED <<started, outcome>>
        /\ (at'[h] = "idle" /\ managed' = managed) \/ at'[h] = "off"
    BY <1>1 DEF Leave, Move, Forget, Goto, gatewayVars
  <2> QED
    BY <2>1 DEF HostInv, PlaceInv, ChildInv, ServedInv, Executing
<1>2. CASE Interrupt(h) \/ Kill(h)
  <2>1. at'[h] = "off" /\ gw'[h] = "idle" /\ outcome'[h] = "none"
    BY <1>2 DEF Interrupt, Kill, Move, End, Forget, Goto
  <2> QED
    BY <2>1 DEF HostInv, PlaceInv, ChildInv, ServedInv, Executing
<1> QED
  BY <1>1, <1>2

\* A child may come up, or exit, whatever its host is doing.
LEMMA EnvironmentKeeps ==
    ASSUME TypeOK, NEW q \in Hosts, HostInv(q), Environment
    PROVE  HostInv(q)'
<1> USE DEF TypeOK, GatewayTypeOK
<1>1. /\ UNCHANGED <<gw, at, profile, started, outcome>>
      /\ \/ child'[q] = child[q] /\ managed'[q] = managed[q]
         \/ child'[q] = "gone" /\ (managed'[q] = managed[q] \/ ~managed'[q])
         \/ child[q] = "booting" /\ child'[q] = "serving" /\ managed' = managed
  BY DEF Environment, UnmanagedExits, ChildServes, ChildExits, hostVars
<1> QED
  BY <1>1 DEF HostInv, PlaceInv, ChildInv, ServedInv, Alive, Executing, Loadable

HostsInv == \A h \in Hosts : HostInv(h)

LEMMA HostsStep == ASSUME TypeOK, HostsInv, [Next]_vars PROVE HostsInv'
<1>1. ASSUME NEW h \in Hosts, HostStep(h) PROVE HostsInv'
  <2>1. HostInv(h)'
    BY <1>1, LaunchKeeps, GatewayKeeps, StartupKeeps, GraphKeeps, EndKeeps
    DEF HostsInv, HostStep, KernelStep, Operator
  <2>2. \A q \in Hosts \ {h} : HostInv(q)'
    BY <1>1, Elsewhere, SameKeeps DEF HostsInv
  <2> QED
    BY <2>1, <2>2 DEF HostsInv
<1>2. CASE Environment
  BY <1>2, EnvironmentKeeps DEF HostsInv
<1>3. CASE UNCHANGED vars
  <2>1. \A q \in Hosts : Same(q)
    BY <1>3 DEF vars, gatewayVars, hostVars, Same
  <2> QED
    BY <2>1, SameKeeps DEF HostsInv
<1> QED
  BY <1>1, <1>2, <1>3 DEF Next, HostStep

LEMMA HostsInvariant == Spec => [](TypeOK /\ HostsInv)
<1>1. Init => HostsInv
  BY DEF Init, HostsInv, HostInv, PlaceInv, ChildInv, ServedInv, GatewayInit, Alive, Executing
<1>2. TypeOK /\ HostsInv /\ [Next]_vars => HostsInv'
  BY HostsStep
<1> QED
  BY <1>1, <1>2, LifecycleTyped, PTL DEF Spec

\* No gateway child is left behind by a run that was reported.
THEOREM ChildrenStopped == Spec => []NothingLeftRunning
<1>1. TypeOK /\ HostsInv => NothingLeftRunning
  BY DEF HostsInv, HostInv, PlaceInv, ChildInv, NothingLeftRunning, Executing
<1> QED
  BY <1>1, HostsInvariant, PTL

\* A role's binding is one of those that were validated.
LEMMA BindingValidated ==
    ASSUME NEW f \in Files, NEW role \in Roles
    PROVE  ResolveBinding(role, Contents[f]) \in Bindings(Contents[f])
<1>1. DefaultTier[role] \in Tiers
  BY DEF DefaultTier, Tiers, Roles
<1>2. CASE role \notin Overridden(Contents[f])
  BY <1>1, <1>2 DEF ResolveBinding, Bindings
<1>3. CASE role \in Overridden(Contents[f]) /\ IsFullBinding(Contents[f].roles[role])
  BY <1>3 DEF ResolveBinding, Bindings
<1>4. CASE role \in Overridden(Contents[f]) /\ ~IsFullBinding(Contents[f].roles[role])
  <2>1. Contents[f].roles[role].tier \in Tiers
    BY <1>4, ContentsAssumption
  <2> QED
    BY <1>4, <2>1 DEF ResolveBinding, Bindings
<1> QED
  BY <1>2, <1>3, <1>4

\* Whatever profile is in force and however it was chosen, the graph can call every role.
THEOREM EveryRoleServed == Spec => []RolesServed
<1>1. TypeOK /\ HostsInv => RolesServed
  <2> SUFFICES ASSUME TypeOK, HostsInv, NEW h \in Hosts, at[h] = "graph", NEW role \in Roles
               PROVE  Served(role, Contents[profile[h]], started[h])
    BY DEF RolesServed
  <2> DEFINE file == profile[h]
             binding == ResolveBinding(role, Contents[file])
  <2>1. file \in Files /\ Accepted(Contents[file])
    BY DEF HostsInv, HostInv, ServedInv, Executing, Loadable
  <2>2. binding \in Bindings(Contents[file])
    BY <2>1, BindingValidated
  <2>3. "openclaw" \in EffectiveTransports(Contents[file]) => started[h]
    BY DEF HostsInv, HostInv, ServedInv
  <2>4. TransportOf(binding, Contents[file]) \in EffectiveTransports(Contents[file])
    BY DEF EffectiveTransports
  <2> QED
    BY <2>1, <2>2, <2>3, <2>4 DEF Served, Accepted, PricingEntries, DirectModelIds
<1> QED
  BY <1>1, HostsInvariant, PTL

\* The kernel itself takes no step of a start.
LEMMA KernelLeavesStartup ==
    ASSUME TypeOK, NEW h \in Hosts, KernelStep(h)
    PROVE  at'[h] # "gateway"
<1> USE DEF TypeOK, Move
<1>1. CASE GatewayUp(h) \/ GatewayDown(h) \/ OpenRun(h) \/ Leave(h)
  BY <1>1 DEF GatewayUp, GatewayDown, OpenRun, Leave
<1>2. CASE ToolsDown(h) \/ GraphEnds(h) \/ ReportFailure(h)
  <2>1. Shutdown(h)
    BY <1>2 DEF ToolsDown, GraphEnds, ReportFailure
  <2> QED
    BY <2>1 DEF Shutdown
<1>3. CASE GraphStep(h) \/ GraphThrows(h) \/ GraphEndsUnreported(h)
  BY <1>3 DEF GraphStep, GraphThrows, GraphEndsUnreported, InGraph
<1> QED
  BY <1>1, <1>2, <1>3 DEF KernelStep

\* No start spawns over a live child, and a process that goes on knows its own.
THEOREM ChildrenKept == Spec => NoChildForgotten
<1>1. TypeOK /\ HostsInv /\ HostsInv' /\ [Next]_vars =>
        [\A h \in Hosts :
            /\ gw[h] # "polling" /\ gw'[h] = "polling" => child[h] \notin Alive
            /\ at'[h] # "off" /\ child'[h] \in Alive => managed'[h] \/ gw'[h] = "stopping"]_vars
  <2> SUFFICES ASSUME TypeOK, HostsInv, HostsInv', Next, NEW q \in Hosts
               PROVE  /\ gw[q] # "polling" /\ gw'[q] = "polling" => child[q] \notin Alive
                      /\ at'[q] # "off" /\ child'[q] \in Alive =>
                            managed'[q] \/ gw'[q] = "stopping"
    OBVIOUS
  <2> USE DEF TypeOK, GatewayTypeOK
  <2>1. at'[q] # "off" /\ child'[q] \in Alive => managed'[q] \/ gw'[q] = "stopping"
    BY DEF HostsInv, HostInv, ChildInv
  <2>2. ASSUME gw[q] = "resolving" PROVE child[q] \notin Alive
    BY <2>2 DEF HostsInv, HostInv, PlaceInv, ChildInv
  <2>3. ASSUME gw[q] # "polling", gw'[q] = "polling" PROVE gw[q] = "resolving"
    <3>1. ~Environment
      BY <2>3 DEF Environment, UnmanagedExits, ChildServes, ChildExits
    <3>2. PICK h \in Hosts : HostStep(h)
      BY <3>1 DEF Next, HostStep
    <3>3. h = q
      BY <2>3, <3>2, Elsewhere DEF Same
    <3>4. CASE GatewayStep(h)
      BY <2>3, <3>3, <3>4
      DEF GatewayStep, Start, StopEnds, ProbeAnswered, ProbeMissed, GiveUp, Spawn, Goto
    <3>5. at'[q] = "gateway"
      BY <2>3 DEF HostsInv, HostInv, PlaceInv
    <3>6. CASE KernelStep(h)
      BY <3>3, <3>5, <3>6, KernelLeavesStartup
    <3>7. CASE Operator(h)
      <4>1. CASE Interrupt(h) \/ Kill(h)
        BY <3>3, <3>5, <4>1 DEF Interrupt, Kill, Move
      <4>2. ASSUME NEW r, NEW file, NEW found, NEW injected, Execute(h, r, file, found, injected)
            PROVE  FALSE
        BY <2>3, <3>3, <4>2 DEF Execute, Goto
      <4> QED
        BY <3>7, <4>1, <4>2 DEF Operator, StartRun, ResumeRun
    <3> QED
      BY <3>2, <3>4, <3>6, <3>7 DEF HostStep
  <2> QED
    BY <2>1, <2>2, <2>3
<1> QED
  BY <1>1, HostsInvariant, PTL DEF Spec, NoChildForgotten

-----------------------------------------------------------------------------
(* Runs: what an execution has counted, billed and reported. *)

\* An execution that has counted or reported something has a run; what it has counted was billed.
ExecInv(h) ==
    /\ at[h] \in {"off", "idle"} => run[h] = 0
    /\ at[h] \in {"off", "idle", "gateway", "tools"} => usage[h] = 0 /\ ~written[h] /\ ~ready[h]
    /\ at[h] \in {"graph", "failing"} => run[h] # 0 /\ ~written[h]
    /\ ready[h] \/ written[h] => run[h] # 0
    /\ run[h] <= issued
    /\ run[h] # 0 => usage[h] <= billed[run[h]]
    /\ h \in Embedding /\ at[h] \in {"gateway", "tools"} => run[h] = 0

\* No run is executed twice at a time.
OneHost == \A g, h \in Hosts : run[g] = run[h] /\ run[g] # 0 => g = h

CostInv(r) ==
    /\ summary[r].status = "done" => summary[r].cost = checkpoint[r].cost /\ checkpoint[r].ended
    /\ summary[r].cost <= billed[r] /\ checkpoint[r].cost <= billed[r]

RunsInv == (\A h \in Hosts : ExecInv(h)) /\ OneHost /\ \A r \in Runs : CostInv(r)

Untouched(q) ==
    /\ at'[q] = at[q] /\ run'[q] = run[q] /\ usage'[q] = usage[q]
    /\ written'[q] = written[q] /\ ready'[q] = ready[q]

Grows == issued <= issued' /\ \A r \in Runs : billed[r] <= billed'[r]

LEMMA BillGrows ==
    ASSUME TypeOK, NEW h \in Hosts, NEW c \in Charges, Bill(h, c)
    PROVE  \A r \in Runs : billed'[r] = IF r = run[h] THEN billed[r] + c ELSE billed[r]
  BY DEF TypeOK, Bill

\* Bills and run ids only grow.
LEMMA Growth == ASSUME TypeOK, NEW h \in Hosts, HostStep(h) PROVE Grows
<1>0. /\ billed \in [Runs -> Nat] /\ issued \in Nat /\ Charges \subseteq Nat
  BY LifecycleAssumption DEF TypeOK
<1>1. ASSUME NEW c \in Charges, Bill(h, c), issued' = issued PROVE Grows
  BY <1>0, <1>1, BillGrows DEF Grows
<1>2. ASSUME billed' = billed, issued' \in {issued, issued + 1} PROVE Grows
  BY <1>0, <1>2 DEF Grows
<1>3. CASE GraphStep(h) \/ GraphThrows(h)
  BY <1>1, <1>3 DEF GraphStep, GraphThrows, boundVars
<1>4. CASE Interrupt(h) \/ Kill(h)
  BY <1>1, <1>2, <1>4 DEF Interrupt, Kill, boundVars
<1>5. CASE OpenRun(h)
  BY <1>2, <1>5 DEF OpenRun
<1>6. CASE GatewayUp(h) \/ GatewayDown(h) \/ ToolsDown(h) \/ Leave(h) \/ GatewayStep(h)
  BY <1>2, <1>6 DEF GatewayUp, GatewayDown, ToolsDown, Leave, GatewayStep, boundVars
<1>7. CASE GraphEnds(h) \/ GraphEndsUnreported(h) \/ ReportFailure(h)
  BY <1>2, <1>7 DEF GraphEnds, GraphEndsUnreported, ReportFailure
<1>8. CASE StartRun(h) \/ ResumeRun(h)
  BY <1>2, <1>8 DEF StartRun, ResumeRun, Execute
<1> QED
  BY <1>3, <1>4, <1>5, <1>6, <1>7, <1>8 DEF HostStep, KernelStep, Operator

LEMMA ClearedRun ==
    ASSUME TypeOK, NEW h \in Hosts, Clear(h)
    PROVE  /\ run'[h] = 0 /\ usage'[h] = 0 /\ ~written'[h] /\ ~ready'[h]
           /\ \A q \in Hosts \ {h} : /\ run'[q] = run[q] /\ usage'[q] = usage[q]
                                     /\ written'[q] = written[q] /\ ready'[q] = ready[q]
  BY DEF TypeOK, Clear

\* A host touches its own run only.
LEMMA OtherRuns ==
    ASSUME TypeOK, NEW h \in Hosts, HostStep(h), NEW q \in Hosts \ {h}
    PROVE  Untouched(q)
<1> USE DEF Untouched, TypeOK
<1>0. at'[q] = at[q]
  BY Elsewhere DEF Same
<1>1. ASSUME NEW r, NEW file, NEW found, NEW injected, Execute(h, r, file, found, injected)
      PROVE  Untouched(q)
  BY <1>0, <1>1 DEF Execute
<1>2. CASE StartRun(h) \/ ResumeRun(h)
  BY <1>1, <1>2 DEF StartRun, ResumeRun
<1>3. CASE Kill(h) \/ Interrupt(h) \/ Leave(h) \/ GatewayDown(h)
  BY <1>0, <1>3, ClearedRun DEF Kill, Interrupt, Leave, GatewayDown
<1>4. CASE OpenRun(h)
  BY <1>0, <1>4 DEF OpenRun
<1>5. CASE GraphStep(h) \/ GraphThrows(h)
  BY <1>0, <1>5 DEF GraphStep, GraphThrows, Count
<1>6. CASE GraphEnds(h) \/ GraphEndsUnreported(h) \/ ReportFailure(h)
  BY <1>0, <1>6 DEF GraphEnds, GraphEndsUnreported, ReportFailure, Told
<1>7. CASE GatewayUp(h) \/ ToolsDown(h) \/ GatewayStep(h)
  BY <1>0, <1>7 DEF GatewayUp, ToolsDown, GatewayStep, hostVars
<1> QED
  BY <1>2, <1>3, <1>4, <1>5, <1>6, <1>7 DEF HostStep, KernelStep, Operator

LEMMA UntouchedKeeps ==
    ASSUME TypeOK, TypeOK', NEW q \in Hosts, ExecInv(q), Untouched(q), Grows
    PROVE  ExecInv(q)'
<1>1. /\ run[q] \in Runs \cup {0} /\ issued \in Int /\ issued' \in Int
      /\ usage[q] \in Int /\ \A r \in Runs : billed[r] \in Int /\ billed'[r] \in Int
  BY LifecycleAssumption DEF TypeOK
<1>2. \A r \in Runs \cup {0} : r \in Int
  BY LifecycleAssumption DEF Runs
<1> QED
  BY <1>1, <1>2 DEF ExecInv, Untouched, Grows

\* An execution that is over has nothing left.
LEMMA OverKeeps ==
    ASSUME TypeOK, TypeOK', NEW h \in Hosts, Clear(h), at'[h] \in {"off", "idle"}
    PROVE  ExecInv(h)'
<1>1. issued' \in Nat
  BY LifecycleAssumption DEF TypeOK
<1>2. run'[h] = 0 /\ usage'[h] = 0 /\ ~written'[h] /\ ~ready'[h]
  BY ClearedRun
<1> QED
  BY <1>1, <1>2 DEF ExecInv

LEMMA StartingExec ==
    ASSUME TypeOK, TypeOK', NEW h \in Hosts, ExecInv(h), Grows,
           \/ StartRun(h) \/ ResumeRun(h) \/ GatewayUp(h) \/ GatewayDown(h) \/ ToolsDown(h)
           \/ OpenRun(h) \/ GatewayStep(h)
    PROVE  ExecInv(h)'
<1>1. /\ issued \in Nat /\ issued' \in Nat /\ \A r \in Runs : billed'[r] \in Nat
      /\ run'[h] \in Runs \cup {0}
  BY LifecycleAssumption DEF TypeOK
<1>2. ASSUME NEW r \in 0..issued, NEW file, NEW found, NEW injected, r # 0 => h \notin Embedding,
             Execute(h, r, file, found, injected)
      PROVE  ExecInv(h)'
  <2>1. /\ at[h] \in {"off", "idle"} /\ at'[h] \in {"gateway", "tools"} /\ run'[h] = r
        /\ usage' = usage /\ written' = written /\ ready' = ready /\ issued' = issued
        /\ billed' = billed
    BY <1>2 DEF Execute, Executing, Move, TypeOK
  <2> QED
    BY <1>1, <1>2, <2>1 DEF ExecInv
<1>3. CASE StartRun(h) \/ ResumeRun(h)
  <2>1. 0 \in 0..issued /\ \A r \in 1..issued : r \in 0..issued
    BY <1>1
  <2> QED
    BY <1>2, <1>3, <2>1 DEF StartRun, ResumeRun
<1>4. CASE GatewayUp(h)
  <2>1. /\ at[h] = "gateway" /\ at'[h] = "tools"
        /\ UNCHANGED <<run, usage, written, ready, issued, billed>>
    BY <1>4 DEF GatewayUp, Move, TypeOK, boundVars
  <2> QED
    BY <2>1 DEF ExecInv
<1>5. CASE GatewayDown(h)
  <2>1. at'[h] \in {"off", "idle"}
    BY <1>5 DEF GatewayDown, Move, TypeOK
  <2> QED
    BY <1>5, <2>1, OverKeeps DEF GatewayDown
<1>6. CASE ToolsDown(h)
  <2>1. /\ at[h] = "tools" /\ at'[h] = "closing"
        /\ UNCHANGED <<run, usage, written, ready, issued, billed>>
    BY <1>6 DEF ToolsDown, Shutdown, Move, TypeOK, boundVars
  <2> QED
    BY <2>1 DEF ExecInv
<1>7. CASE OpenRun(h)
  <2>1. /\ at[h] = "tools" /\ at'[h] \in {"graph", "failing"} /\ ready'[h] \in BOOLEAN
        /\ usage' = usage /\ written' = written /\ billed' = billed
    BY <1>7 DEF OpenRun, Move, TypeOK
  <2>2. run'[h] # 0 /\ run'[h] <= issued' /\ run'[h] \in Runs
    <3>1. CASE run[h] = 0
      BY <1>1, <1>7, <3>1 DEF OpenRun, TypeOK
    <3>2. CASE run[h] # 0
      BY <1>1, <1>7, <3>2 DEF OpenRun, ExecInv
    <3> QED
      BY <3>1, <3>2
  <2> QED
    BY <1>1, <2>1, <2>2 DEF ExecInv
<1>8. CASE GatewayStep(h)
  BY <1>8, UntouchedKeeps DEF GatewayStep, Untouched, hostVars
<1> QED
  BY <1>3, <1>4, <1>5, <1>6, <1>7, <1>8

LEMMA RunningExec ==
    ASSUME TypeOK, TypeOK', NEW h \in Hosts, ExecInv(h), Grows,
           \/ GraphStep(h) \/ GraphThrows(h) \/ GraphEnds(h) \/ GraphEndsUnreported(h)
           \/ ReportFailure(h)
    PROVE  ExecInv(h)'
<1>1. /\ run[h] \in Runs /\ run[h] # 0 /\ at[h] \in {"graph", "failing"} /\ run' = run
      /\ issued' = issued /\ ready' = ready
  BY DEF ExecInv, TypeOK, GraphStep, GraphThrows, GraphEnds, GraphEndsUnreported, ReportFailure,
         InGraph, boundVars
<1>2. /\ usage[h] \in Nat /\ billed[run[h]] \in Nat /\ billed'[run[h]] \in Nat /\ Charges \subseteq Nat
  BY <1>1, LifecycleAssumption DEF TypeOK
<1>3. usage[h] <= billed[run[h]]
  BY <1>1 DEF ExecInv
<1>4. CASE GraphStep(h) \/ GraphThrows(h)
  <2>1. PICK c \in Charges : Bill(h, c) /\ (Count(h, c) \/ usage' = usage)
    BY <1>4 DEF GraphStep, GraphThrows
  <2>2. billed'[run[h]] = billed[run[h]] + c /\ usage'[h] \in {usage[h], usage[h] + c}
    BY <1>1, <2>1, BillGrows DEF Count, TypeOK
  <2>3. usage'[h] <= billed'[run[h]]
    BY <1>2, <1>3, <2>2
  <2>4. at'[h] \in {"graph", "failing"} /\ written' = written
    BY <1>1, <1>4 DEF GraphStep, GraphThrows, Move, TypeOK
  <2> QED
    BY <1>1, <2>3, <2>4 DEF ExecInv
<1>5. CASE GraphEnds(h) \/ GraphEndsUnreported(h) \/ ReportFailure(h)
  <2>1. usage' = usage /\ billed' = billed
    BY <1>5 DEF GraphEnds, GraphEndsUnreported, ReportFailure
  <2>2. \/ at'[h] = "closing"
        \/ at'[h] = "failing" /\ written' = written
    <3>1. \/ Shutdown(h)
          \/ Move(h, "failing") /\ written' = written
      BY <1>5 DEF GraphEnds, GraphEndsUnreported, ReportFailure
    <3> QED
      BY <3>1 DEF Shutdown, Move, TypeOK
  <2> QED
    BY <1>1, <1>3, <2>1, <2>2 DEF ExecInv
<1> QED
  BY <1>4, <1>5

LEMMA ExecStep ==
    ASSUME TypeOK, TypeOK', \A h \in Hosts : ExecInv(h), NEW h \in Hosts, HostStep(h)
    PROVE  \A q \in Hosts : ExecInv(q)'
<1>1. Grows
  BY Growth
<1>2. \A q \in Hosts \ {h} : ExecInv(q)'
  BY <1>1, OtherRuns, UntouchedKeeps
<1>3. CASE Leave(h) \/ Interrupt(h) \/ Kill(h)
  <2>1. Clear(h) /\ at'[h] \in {"off", "idle"}
    BY <1>3 DEF Leave, Interrupt, Kill, Move, TypeOK
  <2>2. ExecInv(h)'
    BY <2>1, OverKeeps
  <2> QED
    BY <1>2, <2>2
<1>4. CASE ~(Leave(h) \/ Interrupt(h) \/ Kill(h))
  <2>1. ExecInv(h)'
    BY <1>1, <1>4, StartingExec, RunningExec DEF HostStep, KernelStep, Operator, Grows
  <2> QED
    BY <1>2, <2>1
<1> QED
  BY <1>3, <1>4

\* A run that is executed is not resumed, and a new one is new.
LEMMA OneHostStep ==
    ASSUME TypeOK, TypeOK', RunsInv, NEW h \in Hosts, HostStep(h)
    PROVE  OneHost'
<1>0. /\ OneHost /\ \A q \in Hosts \ {h} : run'[q] = run[q]
      /\ \A q \in Hosts : run[q] <= issued
  BY OtherRuns DEF RunsInv, ExecInv, Untouched
<1>1. ASSUME \/ run'[h] \in {0, run[h]}
             \/ \A q \in Hosts \ {h} : run[q] # run'[h]
      PROVE  OneHost'
  BY <1>0, <1>1 DEF OneHost
<1>2. ASSUME NEW r, NEW file, NEW found, NEW injected, Execute(h, r, file, found, injected)
      PROVE  run'[h] = r
  BY <1>2 DEF Execute, TypeOK
<1>3. CASE StartRun(h)
  BY <1>1, <1>2, <1>3 DEF StartRun
<1>4. CASE ResumeRun(h)
  <2>1. PICK r \in 1..issued :
            /\ \A g \in Hosts : Executing(g) => run[g] # r
            /\ run'[h] = r
    BY <1>2, <1>4 DEF ResumeRun
  <2>2. \A q \in Hosts : ~Executing(q) => run[q] = 0
    BY DEF RunsInv, ExecInv, Executing
  <2>3. r # 0
    BY LifecycleAssumption DEF TypeOK
  <2> QED
    BY <1>1, <2>1, <2>2, <2>3
<1>5. CASE OpenRun(h)
  <2>1. CASE run[h] = 0
    <3>1. run'[h] = issued + 1
      BY <1>5, <2>1 DEF OpenRun, TypeOK
    <3>2. \A q \in Hosts : run[q] # issued + 1
      BY <1>0, LifecycleAssumption DEF TypeOK, Runs
    <3> QED
      BY <1>1, <3>1, <3>2
  <2>2. CASE run[h] # 0
    BY <1>1, <1>5, <2>2 DEF OpenRun
  <2> QED
    BY <2>1, <2>2
<1>6. CASE Leave(h) \/ Interrupt(h) \/ Kill(h) \/ GatewayDown(h)
  BY <1>1, <1>6, ClearedRun DEF Leave, Interrupt, Kill, GatewayDown
<1>7. CASE \/ GatewayUp(h) \/ ToolsDown(h) \/ GatewayStep(h) \/ GraphStep(h) \/ GraphThrows(h)
           \/ GraphEnds(h) \/ GraphEndsUnreported(h) \/ ReportFailure(h)
  BY <1>1, <1>7 DEF GatewayUp, ToolsDown, GatewayStep, GraphStep, GraphThrows, GraphEnds,
     GraphEndsUnreported, ReportFailure, hostVars
<1> QED
  BY <1>3, <1>4, <1>5, <1>6, <1>7 DEF HostStep, KernelStep, Operator

\* A summary is written over by one that tells no more than was billed.
LEMMA ReportCosts ==
    ASSUME TypeOK, TypeOK', NEW h \in Hosts, \A r \in Runs : CostInv(r), Grows,
           run[h] \in Runs, checkpoint' = checkpoint,
           \/ WriteFails(h)
           \/ /\ usage[h] <= billed[run[h]]
              /\ WriteSummary(h, "failed", usage[h])
           \/ /\ checkpoint[run[h]].ended
              /\ WriteSummary(h, "done", checkpoint[run[h]].cost)
    PROVE  \A r \in Runs : CostInv(r)'
<1> SUFFICES ASSUME NEW r \in Runs PROVE CostInv(r)'
  OBVIOUS
<1>1. /\ billed[r] \in Nat /\ billed'[r] \in Nat /\ billed[r] <= billed'[r]
      /\ summary[r].cost \in Nat /\ checkpoint[r].cost \in Nat /\ usage[h] \in Nat
  BY DEF TypeOK, Grows
<1>2. CostInv(r)
  OBVIOUS
<1>3. CASE summary'[r] = summary[r]
  BY <1>1, <1>2, <1>3 DEF CostInv
<1>4. CASE summary'[r] # summary[r]
  <2>1. r = run[h]
    BY <1>4 DEF WriteFails, WriteSummary, TypeOK
  <2>2. CASE WriteFails(h)
    <3>1. summary'[r] = Torn
      BY <1>4, <2>1, <2>2 DEF WriteFails, TypeOK
    <3> QED
      BY <1>1, <1>2, <3>1 DEF CostInv, Torn
  <2>3. CASE usage[h] <= billed[run[h]] /\ WriteSummary(h, "failed", usage[h])
    <3>1. summary'[r].status = "failed" /\ summary'[r].cost = usage[h]
      BY <2>1, <2>3 DEF WriteSummary, TypeOK
    <3> QED
      BY <1>1, <1>2, <2>1, <2>3, <3>1 DEF CostInv
  <2>4. CASE checkpoint[run[h]].ended /\ WriteSummary(h, "done", checkpoint[run[h]].cost)
    <3>1. summary'[r].status = "done" /\ summary'[r].cost = checkpoint[r].cost
      BY <2>1, <2>4 DEF WriteSummary, TypeOK
    <3> QED
      BY <1>1, <1>2, <2>1, <2>4, <3>1 DEF CostInv
  <2> QED
    BY <2>2, <2>3, <2>4
<1> QED
  BY <1>3, <1>4

LEMMA CostStep ==
    ASSUME TypeOK, TypeOK', RunsInv, NEW h \in Hosts, HostStep(h)
    PROVE  \A r \in Runs : CostInv(r)'
<1>0. Grows /\ ExecInv(h) /\ \A r \in Runs : CostInv(r)
  BY Growth DEF RunsInv
<1>1. ASSUME UNCHANGED <<checkpoint, summary>> PROVE \A r \in Runs : CostInv(r)'
  BY <1>0, <1>1 DEF CostInv, Grows, TypeOK
<1>2. run[h] # 0 => run[h] \in Runs /\ usage[h] <= billed[run[h]]
  BY <1>0 DEF ExecInv, TypeOK
<1>3. CASE GraphStep(h)
  <2>1. run[h] \in Runs /\ ~checkpoint[run[h]].ended /\ summary' = summary
    BY <1>0, <1>2, <1>3 DEF GraphStep, InGraph, ExecInv
  <2>2. PICK c \in Charges, ended \in BOOLEAN :
            /\ Bill(h, c)
            /\ checkpoint' = [checkpoint EXCEPT ![run[h]] =
                                [cost |-> @.cost + c, ended |-> ended, exists |-> TRUE]]
    BY <1>3 DEF GraphStep
  <2>3. \A r \in Runs : r # run[h] => checkpoint'[r] = checkpoint[r]
    BY <2>2 DEF TypeOK
  <2>4. ASSUME NEW r \in Runs, r = run[h] PROVE CostInv(r)'
    <3>1. checkpoint'[r].cost = checkpoint[r].cost + c /\ billed'[r] = billed[r] + c
      BY <2>1, <2>2, <2>4, BillGrows DEF TypeOK
    <3>2. /\ checkpoint[r].cost \in Nat /\ billed[r] \in Nat /\ c \in Nat
          /\ summary[r].cost \in Nat
      BY LifecycleAssumption DEF TypeOK
    <3>3. CostInv(r)
      BY <1>0
    <3> QED
      BY <2>1, <2>4, <3>1, <3>2, <3>3 DEF CostInv
  <2>5. ASSUME NEW r \in Runs, r # run[h] PROVE CostInv(r)'
    <3>1. CostInv(r) /\ billed[r] <= billed'[r] /\ billed[r] \in Nat /\ billed'[r] \in Nat
      BY <1>0 DEF Grows, TypeOK
    <3>2. summary[r].cost \in Nat /\ checkpoint[r].cost \in Nat
      BY DEF TypeOK
    <3> QED
      BY <2>1, <2>3, <2>5, <3>1, <3>2 DEF CostInv
  <2> QED
    BY <2>4, <2>5
<1>4. CASE GraphEnds(h) \/ GraphEndsUnreported(h) \/ ReportFailure(h)
  <2>1. run[h] \in Runs
    BY <1>0, <1>2, <1>4 DEF GraphEnds, GraphEndsUnreported, ReportFailure, ExecInv
  <2> QED
    BY <1>0, <1>2, <1>4, <2>1, ReportCosts DEF GraphEnds, GraphEndsUnreported, ReportFailure, ExecInv
<1>5. CASE Interrupt(h)
  <2>1. run[h] \in Runs /\ usage[h] <= billed[run[h]] /\ checkpoint' = checkpoint
    BY <1>0, <1>2, <1>5 DEF Interrupt, ExecInv
  <2> QED
    BY <1>0, <1>1, <1>5, <2>1, ReportCosts DEF Interrupt
<1>6. CASE \/ GraphThrows(h) \/ Leave(h) \/ Kill(h) \/ GatewayDown(h) \/ GatewayUp(h)
           \/ ToolsDown(h) \/ OpenRun(h) \/ GatewayStep(h)
  BY <1>1, <1>6 DEF GraphThrows, Leave, Kill, GatewayDown, GatewayUp, ToolsDown, OpenRun,
     GatewayStep, diskVars
<1>7. CASE StartRun(h) \/ ResumeRun(h)
  BY <1>1, <1>7 DEF StartRun, ResumeRun, Execute, diskVars
<1> QED
  BY <1>3, <1>4, <1>5, <1>6, <1>7 DEF HostStep, KernelStep, Operator

LEMMA RunsStep == ASSUME TypeOK, TypeOK', RunsInv, [Next]_vars PROVE RunsInv'
<1>1. CASE \E h \in Hosts : HostStep(h)
  BY <1>1, ExecStep, OneHostStep, CostStep DEF RunsInv
<1>2. ASSUME UNCHANGED <<hostVars, diskVars, billed, issued>> PROVE RunsInv'
  BY <1>2 DEF RunsInv, ExecInv, OneHost, CostInv, hostVars, diskVars
<1>3. CASE Environment \/ UNCHANGED vars
  BY <1>2, <1>3 DEF Environment, vars, boundVars
<1> QED
  BY <1>1, <1>3 DEF Next, HostStep

LEMMA RunsInvariant == Spec => [](TypeOK /\ RunsInv)
<1>1. Init => RunsInv
  BY LifecycleAssumption
  DEF Init, RunsInv, ExecInv, OneHost, CostInv, NoCheckpoint, NoSummary
<1>2. TypeOK /\ TypeOK' /\ RunsInv /\ [Next]_vars => RunsInv'
  BY RunsStep
<1> QED
  BY <1>1, <1>2, LifecycleTyped, PTL DEF Spec

\* However often a run is interrupted and resumed, its summaries tell no more than was
\* billed, and the last one what its steps have cost.
THEOREM CostsTold == Spec => []CostTold
<1>1. RunsInv => CostTold
  BY DEF RunsInv, CostInv, CostTold
<1> QED
  BY <1>1, RunsInvariant, PTL

-----------------------------------------------------------------------------
(* The kernel implements RunReport. *)

OpenRuns == {run[h] : h \in {g \in Hosts : Opened(g)}}
ToldRuns == {run[h] : h \in {g \in Hosts : Opened(g) /\ written[g]}}
StatusOf == [r \in Runs |-> summary[r].status]

\* The steps of RunReport, by what they do to the three.
AbstractStep ==
    \/ UNCHANGED <<OpenRuns, ToldRuns, StatusOf>>
    \/ \E r \in Runs :
        \/ /\ r \notin OpenRuns /\ OpenRuns' = OpenRuns \cup {r}
           /\ UNCHANGED <<ToldRuns, StatusOf>>
        \/ /\ r \in OpenRuns \ ToldRuns
           /\ \E s \in {"failed", "done"} : StatusOf' = [StatusOf EXCEPT ![r] = s]
           /\ ToldRuns' = ToldRuns \cup {r} /\ OpenRuns' = OpenRuns
        \/ /\ r \in OpenRuns \ ToldRuns
           /\ StatusOf' = [StatusOf EXCEPT ![r] = "torn"]
           /\ UNCHANGED <<OpenRuns, ToldRuns>>
        \/ /\ r \in OpenRuns
           /\ OpenRuns' = OpenRuns \ {r} /\ ToldRuns' = ToldRuns \ {r}
           /\ \/ UNCHANGED StatusOf
              \/ /\ r \notin ToldRuns
                 /\ \E s \in {"failed", "done", "torn"} : StatusOf' = [StatusOf EXCEPT ![r] = s]

LEMMA AbstractIsReport == AbstractStep => [Report!Next]_(Report!vars)
<1>1. CASE UNCHANGED <<OpenRuns, ToldRuns, StatusOf>>
  BY <1>1 DEF OpenRuns, ToldRuns, StatusOf, Report!vars
<1> QED
  BY <1>1 DEF AbstractStep, OpenRuns, ToldRuns, StatusOf, Report!Next, Report!Begin, Report!Report,
     Report!WriteFails, Report!End, Report!Write, Report!Statuses

LEMMA OpenMember ==
    ASSUME NEW r
    PROVE  /\ r \in OpenRuns <=> \E g \in Hosts : Opened(g) /\ run[g] = r
           /\ r \in ToldRuns <=> \E g \in Hosts : Opened(g) /\ written[g] /\ run[g] = r
  BY DEF OpenRuns, ToldRuns

LEMMA OpenMemberNext ==
    ASSUME NEW r
    PROVE  /\ r \in OpenRuns' <=> \E g \in Hosts : Opened(g)' /\ run'[g] = r
           /\ r \in ToldRuns' <=> \E g \in Hosts : Opened(g)' /\ written'[g] /\ run'[g] = r
  BY DEF OpenRuns, ToldRuns

\* The other hosts' executions are as they were, and of other runs.
LEMMA OthersOpen ==
    ASSUME TypeOK, RunsInv, NEW h \in Hosts, HostStep(h)
    PROVE  \A q \in Hosts \ {h} :
              /\ Opened(q)' = Opened(q) /\ run'[q] = run[q] /\ written'[q] = written[q]
              /\ run[h] # 0 => run[q] # run[h]
<1> SUFFICES ASSUME NEW q \in Hosts \ {h}
             PROVE  /\ Opened(q)' = Opened(q) /\ run'[q] = run[q] /\ written'[q] = written[q]
                    /\ run[h] # 0 => run[q] # run[h]
  OBVIOUS
<1>1. Untouched(q)
  BY OtherRuns
<1> QED
  BY <1>1 DEF Untouched, Opened, RunsInv, OneHost

\* A host whose execution is open as before, or not open as before.
LEMMA HostStutters ==
    ASSUME TypeOK, RunsInv, NEW h \in Hosts, HostStep(h),
           \/ ~Opened(h) /\ ~Opened(h)'
           \/ Opened(h) /\ Opened(h)' /\ run'[h] = run[h] /\ written'[h] = written[h]
    PROVE  OpenRuns' = OpenRuns /\ ToldRuns' = ToldRuns
<1>1. \A r : r \in OpenRuns' <=> r \in OpenRuns
  BY OthersOpen, OpenMember, OpenMemberNext
<1>2. \A r : r \in ToldRuns' <=> r \in ToldRuns
  BY OthersOpen, OpenMember, OpenMemberNext
<1> QED
  BY <1>1, <1>2

\* A host that opens, reports or closes an execution.
LEMMA HostOpens ==
    ASSUME TypeOK, RunsInv, RunsInv', NEW h \in Hosts, HostStep(h),
           ~Opened(h), Opened(h)', ~written'[h]
    PROVE  /\ run'[h] \notin OpenRuns /\ OpenRuns' = OpenRuns \cup {run'[h]}
           /\ ToldRuns' = ToldRuns
<1>0. \A q \in Hosts \ {h} : run'[q] # run'[h]
  BY DEF RunsInv, OneHost, Opened
<1>1. run'[h] \notin OpenRuns
  BY <1>0, OthersOpen, OpenMember
<1>2. \A r : r \in OpenRuns' <=> r \in OpenRuns \/ r = run'[h]
  BY OthersOpen, OpenMember, OpenMemberNext
<1>3. \A r : r \in ToldRuns' <=> r \in ToldRuns
  BY OthersOpen, OpenMember, OpenMemberNext
<1> QED
  BY <1>1, <1>2, <1>3

LEMMA HostTells ==
    ASSUME TypeOK, RunsInv, NEW h \in Hosts, HostStep(h),
           Opened(h), Opened(h)', run'[h] = run[h], ~written[h], written'[h]
    PROVE  /\ run[h] \in OpenRuns \ ToldRuns
           /\ OpenRuns' = OpenRuns /\ ToldRuns' = ToldRuns \cup {run[h]}
<1>0. run[h] # 0
  BY DEF Opened
<1>1. run[h] \in OpenRuns \ ToldRuns
  BY <1>0, OthersOpen, OpenMember
<1>2. \A r : r \in OpenRuns' <=> r \in OpenRuns
  BY OthersOpen, OpenMember, OpenMemberNext
<1>3. \A r : r \in ToldRuns' <=> r \in ToldRuns \/ r = run[h]
  BY OthersOpen, OpenMember, OpenMemberNext
<1> QED
  BY <1>1, <1>2, <1>3

LEMMA HostCloses ==
    ASSUME TypeOK, RunsInv, NEW h \in Hosts, HostStep(h), Opened(h), ~Opened(h)'
    PROVE  /\ run[h] \in OpenRuns
           /\ run[h] \in ToldRuns <=> written[h]
           /\ OpenRuns' = OpenRuns \ {run[h]} /\ ToldRuns' = ToldRuns \ {run[h]}
<1>0. run[h] # 0
  BY DEF Opened
<1>1. run[h] \in OpenRuns
  BY OpenMember
<1>2. run[h] \in ToldRuns <=> written[h]
  BY <1>0, OthersOpen, OpenMember
<1>3. \A r : r \in OpenRuns' <=> r \in OpenRuns /\ r # run[h]
  BY <1>0, OthersOpen, OpenMember, OpenMemberNext
<1>4. \A r : r \in ToldRuns' <=> r \in ToldRuns /\ r # run[h]
  BY <1>0, OthersOpen, OpenMember, OpenMemberNext
<1> QED
  BY <1>1, <1>2, <1>3, <1>4

\* What a write does to the file.
LEMMA FileWritten ==
    ASSUME TypeOK, NEW h \in Hosts, run[h] \in Runs
    PROVE  /\ \A status, cost : WriteSummary(h, status, cost) =>
                  StatusOf' = [StatusOf EXCEPT ![run[h]] = status]
           /\ WriteFails(h) => \/ StatusOf' = StatusOf
                               \/ StatusOf' = [StatusOf EXCEPT ![run[h]] = "torn"]
<1>1. ASSUME NEW status, NEW cost, WriteSummary(h, status, cost)
      PROVE  StatusOf' = [StatusOf EXCEPT ![run[h]] = status]
  BY <1>1 DEF WriteSummary, StatusOf, TypeOK
<1>2. ASSUME WriteFails(h)
      PROVE  \/ StatusOf' = StatusOf
             \/ StatusOf' = [StatusOf EXCEPT ![run[h]] = "torn"]
  <2>1. PICK left \in {summary[run[h]], Torn} : summary' = [summary EXCEPT ![run[h]] = left]
    BY <1>2 DEF WriteFails
  <2>2. CASE left = summary[run[h]]
    <3>1. summary' = summary
      BY <2>1, <2>2 DEF TypeOK
    <3> QED
      BY <3>1 DEF StatusOf
  <2>3. CASE left = Torn
    BY <2>1, <2>3 DEF StatusOf, TypeOK, Torn
  <2> QED
    BY <2>1, <2>2, <2>3
<1> QED
  BY <1>1, <1>2

\* Startup opens an execution once its run is known.
LEMMA StartupAbstract ==
    ASSUME TypeOK, TypeOK', RunsInv, RunsInv', NEW h \in Hosts, HostStep(h),
           \/ StartRun(h) \/ ResumeRun(h) \/ GatewayUp(h) \/ GatewayDown(h) \/ ToolsDown(h)
           \/ OpenRun(h) \/ GatewayStep(h)
    PROVE  AbstractStep
<1>0. ExecInv(h) /\ ExecInv(h)'
  BY DEF RunsInv
<1>1. summary' = summary => StatusOf' = StatusOf
  BY DEF StatusOf
<1>2. ASSUME NEW r, NEW file, NEW found, NEW injected, Execute(h, r, file, found, injected)
      PROVE  ~Opened(h) /\ ~Opened(h)' /\ summary' = summary
  BY <1>2 DEF Execute, Executing, Opened, Move, TypeOK, diskVars
<1>3. CASE StartRun(h) \/ ResumeRun(h)
  BY <1>1, <1>2, <1>3, HostStutters DEF StartRun, ResumeRun, AbstractStep
<1>4. CASE GatewayUp(h) \/ GatewayDown(h)
  <2>1. /\ at[h] = "gateway" /\ at'[h] \in {"tools", "idle", "off"} /\ summary' = summary
    BY <1>4 DEF GatewayUp, GatewayDown, Move, TypeOK, diskVars
  <2> QED
    BY <1>1, <2>1, HostStutters DEF Opened, AbstractStep
<1>5. CASE ToolsDown(h)
  <2>1. /\ at[h] = "tools" /\ run'[h] = run[h] /\ run[h] = 0 /\ summary' = summary
    BY <1>0, <1>5 DEF ToolsDown, ExecInv, diskVars
  <2> QED
    BY <1>1, <2>1, HostStutters DEF Opened, AbstractStep
<1>6. CASE OpenRun(h)
  <2>1. /\ at[h] = "tools" /\ at'[h] \in {"graph", "failing"} /\ summary' = summary
    BY <1>6 DEF OpenRun, Move, TypeOK, diskVars
  <2>2. /\ ~Opened(h) /\ Opened(h)' /\ ~written'[h] /\ run'[h] \in Runs
    BY <1>0, <2>1 DEF Opened, ExecInv, TypeOK
  <2> QED
    BY <1>1, <2>1, <2>2, HostOpens DEF AbstractStep
<1>7. CASE GatewayStep(h)
  <2>1. UNCHANGED <<at, run, written, summary>>
    BY <1>7 DEF GatewayStep, hostVars, diskVars
  <2>2. Opened(h)' = Opened(h)
    BY <2>1 DEF Opened
  <2> QED
    BY <1>1, <2>1, <2>2, HostStutters DEF AbstractStep
<1> QED
  BY <1>3, <1>4, <1>5, <1>6, <1>7

\* The graph and its reports keep it open.
LEMMA GraphAbstract ==
    ASSUME TypeOK, TypeOK', RunsInv, RunsInv', NEW h \in Hosts, HostStep(h),
           \/ GraphStep(h) \/ GraphThrows(h) \/ GraphEnds(h) \/ GraphEndsUnreported(h)
           \/ ReportFailure(h)
    PROVE  AbstractStep
<1>0. ExecInv(h)
  BY DEF RunsInv
<1>1. /\ at[h] \in {"graph", "failing"} /\ run' = run
  BY DEF GraphStep, GraphThrows, GraphEnds, GraphEndsUnreported, ReportFailure, InGraph
<1>2. /\ run[h] \in Runs /\ run[h] # 0 /\ ~written[h] /\ Opened(h)
  BY <1>0, <1>1 DEF ExecInv, Opened, TypeOK
<1>3. at'[h] \in {"graph", "failing", "closing"}
  <2>1. CASE GraphEnds(h) \/ ReportFailure(h)
    BY <2>1 DEF GraphEnds, ReportFailure, Shutdown, Move, TypeOK
  <2>2. CASE GraphStep(h) \/ GraphThrows(h) \/ GraphEndsUnreported(h)
    BY <1>1, <2>2 DEF GraphStep, GraphThrows, GraphEndsUnreported, Move, TypeOK
  <2> QED
    BY <2>1, <2>2
<1>4. Opened(h)'
  BY <1>1, <1>2, <1>3 DEF Opened
<1>5. ASSUME written' = written, StatusOf' = StatusOf \/ WriteFails(h) PROVE AbstractStep
  <2>1. OpenRuns' = OpenRuns /\ ToldRuns' = ToldRuns
    BY <1>1, <1>2, <1>4, <1>5, HostStutters
  <2>2. run[h] \in OpenRuns \ ToldRuns
    BY <1>2, OthersOpen, OpenMember
  <2>3. \/ StatusOf' = StatusOf
        \/ StatusOf' = [StatusOf EXCEPT ![run[h]] = "torn"]
    BY <1>2, <1>5, FileWritten
  <2> QED
    BY <1>2, <2>1, <2>2, <2>3 DEF AbstractStep
<1>6. ASSUME Told(h), NEW s \in {"failed", "done"}, NEW cost, WriteSummary(h, s, cost)
      PROVE  AbstractStep
  <2>1. written'[h]
    BY <1>6 DEF Told, TypeOK
  <2>2. StatusOf' = [StatusOf EXCEPT ![run[h]] = s]
    BY <1>2, <1>6, FileWritten
  <2>3. /\ run[h] \in OpenRuns \ ToldRuns
        /\ OpenRuns' = OpenRuns /\ ToldRuns' = ToldRuns \cup {run[h]}
    BY <1>1, <1>2, <1>4, <2>1, HostTells
  <2> QED
    BY <1>2, <2>2, <2>3 DEF AbstractStep
<1>7. CASE GraphStep(h) \/ GraphThrows(h)
  BY <1>5, <1>7 DEF GraphStep, GraphThrows, StatusOf, diskVars
<1>8. CASE GraphEndsUnreported(h)
  BY <1>5, <1>8 DEF GraphEndsUnreported
<1>9. CASE GraphEnds(h)
  BY <1>6, <1>9 DEF GraphEnds
<1>10. CASE ReportFailure(h)
  BY <1>5, <1>6, <1>10 DEF ReportFailure
<1> QED
  BY <1>7, <1>8, <1>9, <1>10

\* Its end, or a signal, closes it; SIGINT reports what was not reported.
LEMMA EndAbstract ==
    ASSUME TypeOK, TypeOK', RunsInv, RunsInv', NEW h \in Hosts, HostStep(h),
           Leave(h) \/ Interrupt(h) \/ Kill(h)
    PROVE  AbstractStep
<1>0. ExecInv(h)
  BY DEF RunsInv
<1>1. Clear(h) /\ at'[h] \in {"off", "idle"}
  BY DEF Leave, Interrupt, Kill, Move, TypeOK
<1>2. ~Opened(h)'
  BY <1>1 DEF Opened
<1>3. CASE ~Opened(h)
  <2>1. ~ready[h]
    BY <1>0, <1>3 DEF ExecInv, Opened, TypeOK
  <2>2. summary' = summary
    BY <2>1 DEF Leave, Interrupt, Kill, diskVars
  <2> QED
    BY <1>2, <1>3, <2>2, HostStutters DEF AbstractStep, StatusOf
<1>4. CASE Opened(h)
  <2>1. run[h] \in Runs
    BY <1>4 DEF Opened, TypeOK
  <2>2. /\ run[h] \in OpenRuns
        /\ run[h] \in ToldRuns <=> written[h]
        /\ OpenRuns' = OpenRuns \ {run[h]} /\ ToldRuns' = ToldRuns \ {run[h]}
    BY <1>2, <1>4, HostCloses
  <2>3. CASE summary' = summary
    BY <2>1, <2>2, <2>3 DEF AbstractStep, StatusOf
  <2>4. CASE ~written[h] /\ (WriteSummary(h, "failed", usage[h]) \/ WriteFails(h))
    <3>1. \/ StatusOf' = StatusOf
          \/ StatusOf' = [StatusOf EXCEPT ![run[h]] = "failed"]
          \/ StatusOf' = [StatusOf EXCEPT ![run[h]] = "torn"]
      BY <2>1, <2>4, FileWritten
    <3> QED
      BY <2>1, <2>2, <2>4, <3>1 DEF AbstractStep
  <2> QED
    BY <2>3, <2>4 DEF Leave, Interrupt, Kill, diskVars
<1> QED
  BY <1>3, <1>4

\* SIGINT, the catch block and the normal end write one report of an execution.
THEOREM ReportsImplemented == Spec => ImplementsRunReport
<1>1. Init => Report!Init
  <2> SUFFICES ASSUME Init PROVE Report!Init
    OBVIOUS
  <2>1. \A h \in Hosts : ~Opened(h)
    BY DEF Init, Opened
  <2>2. \A r \in Runs : summary[r].status = "none"
    BY DEF Init, NoSummary
  <2> QED
    BY <2>1, <2>2 DEF Report!Init
<1>2. TypeOK /\ TypeOK' /\ RunsInv /\ RunsInv' /\ [Next]_vars => [Report!Next]_(Report!vars)
  <2> SUFFICES ASSUME TypeOK, TypeOK', RunsInv, RunsInv', [Next]_vars PROVE AbstractStep
    BY AbstractIsReport
  <2>1. ASSUME UNCHANGED <<at, run, written, summary>> PROVE AbstractStep
    BY <2>1 DEF AbstractStep, OpenRuns, ToldRuns, StatusOf, Opened
  <2>2. CASE Environment \/ UNCHANGED vars
    BY <2>1, <2>2 DEF Environment, vars, hostVars, diskVars
  <2>3. ASSUME NEW h \in Hosts, HostStep(h) PROVE AbstractStep
    BY <2>3, StartupAbstract, GraphAbstract, EndAbstract DEF HostStep, KernelStep, Operator
  <2> QED
    BY <2>2, <2>3 DEF Next, HostStep
<1> QED
  BY <1>1, <1>2, RunsInvariant, PTL DEF Spec, ImplementsRunReport, Report!Spec

-----------------------------------------------------------------------------
(* An execution is finite. *)

\* Where the graph's steps are counted, and that the last one ends it.
CourseInv(h) ==
    /\ at[h] \in {"off", "idle", "gateway", "tools"} => steps[h] = 0
    /\ at[h] = "graph" => /\ steps[h] <= MaxSteps
                          /\ steps[h] = MaxSteps => checkpoint[run[h]].ended

SameCourse(q) ==
    /\ at'[q] = at[q] /\ steps'[q] = steps[q] /\ run'[q] = run[q]
    /\ at[q] = "graph" => checkpoint'[run[q]] = checkpoint[run[q]]

LEMMA CourseStays == ASSUME NEW q, CourseInv(q), SameCourse(q) PROVE CourseInv(q)'
  BY DEF CourseInv, SameCourse

\* What StepsLeft is at each place, as equations.
LeftAt(h) ==
    /\ at[h] = "gateway" /\ gw[h] = "probing" => StepsLeft(h) = MaxSteps + 9
    /\ at[h] = "gateway" /\ gw[h] = "resolving" => StepsLeft(h) = MaxSteps + 8
    /\ at[h] = "gateway" /\ gw[h] = "polling" => StepsLeft(h) = MaxSteps + 7
    /\ at[h] = "gateway" /\ gw[h] \in {"ready", "failed"} => StepsLeft(h) = MaxSteps + 6
    /\ at[h] = "tools" => StepsLeft(h) = MaxSteps + 5
    /\ at[h] = "graph" => StepsLeft(h) = MaxSteps - steps[h] + 4
    /\ at[h] = "failing" => StepsLeft(h) = 3
    /\ at[h] = "closing" /\ gw[h] = "stopping" => StepsLeft(h) = 2
    /\ at[h] = "closing" /\ gw[h] = "idle" => StepsLeft(h) = 1
    /\ at[h] \in {"off", "idle"} => StepsLeft(h) = 0

LEMMA LeftIs == ASSUME NEW h PROVE LeftAt(h) /\ LeftAt(h)'
<1>1. LeftAt(h)
  BY DEF LeftAt, StepsLeft
<1>2. LeftAt(h)'
  BY DEF LeftAt, StepsLeft
<1> QED
  BY <1>1, <1>2

\* An execution has steps left, and never more than those of a whole one.
LEMMA LeftBounds ==
    ASSUME TypeOK, NEW h \in Hosts, HostInv(h), CourseInv(h)
    PROVE  StepsLeft(h) \in 0..(MaxSteps + 9) /\ (Executing(h) <=> StepsLeft(h) > 0)
<1>1. MaxSteps \in Nat /\ steps[h] \in Nat
  BY LifecycleAssumption DEF TypeOK
<1>2. at[h] \in {"off", "idle", "gateway", "tools", "graph", "failing", "closing"}
  BY DEF TypeOK
<1> QED
  BY <1>1, <1>2, LeftIs DEF LeftAt, HostInv, PlaceInv, CourseInv, Executing

\* The same of every host.
LeftInBounds ==
    \A h \in Hosts : /\ StepsLeft(h) \in 0..(MaxSteps + 9)
                     /\ Executing(h) <=> StepsLeft(h) > 0

\* A host counts the steps of its own execution only.
LEMMA OtherCourses ==
    ASSUME TypeOK, NEW h \in Hosts, RunsInv, HostStep(h), NEW q \in Hosts \ {h}
    PROVE  SameCourse(q)
<1>1. at'[q] = at[q] /\ run'[q] = run[q]
  BY OtherRuns DEF Untouched
<1>2. steps'[q] = steps[q]
  <2> USE DEF TypeOK
  <2>1. CASE StartRun(h) \/ ResumeRun(h)
    BY <2>1 DEF StartRun, ResumeRun, Execute
  <2>2. CASE Kill(h) \/ Interrupt(h) \/ Leave(h) \/ GatewayDown(h)
    BY <2>2 DEF Kill, Interrupt, Leave, GatewayDown, Clear
  <2>3. CASE GraphStep(h)
    BY <2>3 DEF GraphStep
  <2>4. CASE GatewayUp(h) \/ ToolsDown(h) \/ OpenRun(h) \/ GraphThrows(h) \/ GatewayStep(h)
    BY <2>4 DEF GatewayUp, ToolsDown, OpenRun, GraphThrows, GatewayStep, hostVars
  <2>5. CASE GraphEnds(h) \/ GraphEndsUnreported(h) \/ ReportFailure(h)
    BY <2>5 DEF GraphEnds, GraphEndsUnreported, ReportFailure
  <2> QED
    BY <2>1, <2>2, <2>3, <2>4, <2>5 DEF HostStep, KernelStep, Operator
<1>3. ASSUME at[q] = "graph" PROVE checkpoint'[run[q]] = checkpoint[run[q]]
  <2>1. run[q] # 0 /\ run[q] # run[h] /\ checkpoint = [r \in Runs |-> checkpoint[r]]
    BY <1>3 DEF RunsInv, ExecInv, OneHost, TypeOK
  <2>2. CASE GraphStep(h)
    <3>1. PICK committed : checkpoint' = [checkpoint EXCEPT ![run[h]] = committed]
      BY <2>2 DEF GraphStep
    <3>2. run[q] \in Runs
      BY <2>1 DEF TypeOK
    <3> QED
      BY <2>1, <3>1, <3>2
  <2>3. CASE checkpoint' = checkpoint
    BY <2>3
  <2>4. CASE GatewayUp(h) \/ GatewayDown(h) \/ ToolsDown(h) \/ OpenRun(h) \/ GraphThrows(h)
             \/ Leave(h) \/ GatewayStep(h) \/ Kill(h)
    BY <2>3, <2>4 DEF GatewayUp, GatewayDown, ToolsDown, OpenRun, GraphThrows, Leave, GatewayStep,
       Kill, diskVars
  <2>5. CASE GraphEnds(h) \/ GraphEndsUnreported(h) \/ ReportFailure(h) \/ Interrupt(h)
    BY <2>3, <2>5 DEF GraphEnds, GraphEndsUnreported, ReportFailure, Interrupt
  <2>6. CASE StartRun(h) \/ ResumeRun(h)
    BY <2>3, <2>6 DEF StartRun, ResumeRun, Execute, diskVars
  <2> QED
    BY <2>2, <2>4, <2>5, <2>6 DEF HostStep, KernelStep, Operator
<1> QED
  BY <1>1, <1>2, <1>3 DEF SameCourse

\* The count is kept by the host's own steps.
LEMMA CourseKeeps ==
    ASSUME TypeOK, NEW h \in Hosts, HostInv(h), ExecInv(h), CourseInv(h), HostStep(h)
    PROVE  CourseInv(h)'
<1> USE DEF CourseInv
<1>1. /\ at \in [Hosts -> {"off", "idle", "gateway", "tools", "graph", "failing", "closing"}]
      /\ steps \in [Hosts -> Nat] /\ MaxSteps \in Nat \ {0} /\ run[h] \in Runs \cup {0}
      /\ DOMAIN checkpoint = Runs
  BY LifecycleAssumption DEF TypeOK
<1>2. ASSUME NEW r, NEW file, NEW found, NEW injected, Execute(h, r, file, found, injected)
      PROVE  CourseInv(h)'
  BY <1>1, <1>2 DEF Execute, Executing, Move
<1>3. CASE StartRun(h) \/ ResumeRun(h)
  BY <1>2, <1>3 DEF StartRun, ResumeRun
<1>4. CASE GatewayUp(h)
  BY <1>1, <1>4 DEF GatewayUp, Move
<1>5. CASE GatewayDown(h) \/ Leave(h) \/ Kill(h) \/ Interrupt(h)
  <2>1. steps'[h] = 0 /\ at'[h] \in {"off", "idle"}
    BY <1>1, <1>5 DEF GatewayDown, Leave, Kill, Interrupt, Clear, Move
  <2> QED
    BY <2>1
<1>6. CASE ToolsDown(h) \/ GraphEnds(h) \/ ReportFailure(h)
  <2>1. at'[h] = "closing"
    BY <1>1, <1>6 DEF ToolsDown, GraphEnds, ReportFailure, Shutdown, Move
  <2> QED
    BY <2>1
<1>7. CASE GraphThrows(h) \/ GraphEndsUnreported(h)
  <2>1. at'[h] = "failing"
    BY <1>1, <1>7 DEF GraphThrows, GraphEndsUnreported, Move
  <2> QED
    BY <2>1
<1>8. CASE OpenRun(h)
  <2>1. steps'[h] = 0 /\ at'[h] \in {"graph", "failing"}
    BY <1>1, <1>8 DEF OpenRun, Move
  <2> QED
    BY <1>1, <2>1
<1>9. CASE GraphStep(h)
  <2>1. PICK c \in Charges, ended \in BOOLEAN :
            /\ steps[h] + 1 = MaxSteps => ended
            /\ checkpoint' = [checkpoint EXCEPT ![run[h]] =
                                [cost |-> @.cost + c, ended |-> ended, exists |-> TRUE]]
    BY <1>9 DEF GraphStep
  <2>2. at[h] = "graph" /\ run[h] \in Runs /\ ~checkpoint[run[h]].ended
    BY <1>1, <1>9 DEF GraphStep, InGraph, ExecInv
  <2>3. checkpoint'[run[h]].ended = ended
    BY <1>1, <2>1, <2>2
  <2>4. steps[h] < MaxSteps
    BY <1>1, <2>2
  <2>5. at'[h] = "graph" /\ run'[h] = run[h] /\ steps'[h] = steps[h] + 1
    BY <1>1, <1>9, <2>2 DEF GraphStep
  <2> QED
    BY <1>1, <2>1, <2>3, <2>4, <2>5
<1>10. CASE GatewayStep(h)
  BY <1>10 DEF GatewayStep, hostVars, diskVars
<1> QED
  BY <1>3, <1>4, <1>5, <1>6, <1>7, <1>8, <1>9, <1>10 DEF HostStep, KernelStep, Operator

CoursesInv == \A h \in Hosts : CourseInv(h)

\* All that the count of the steps left rests on.
ExecutionInv == TypeOK /\ HostsInv /\ RunsInv /\ CoursesInv

LEMMA CoursesInvariant == Spec => []ExecutionInv
<1>1. Init => CoursesInv
  BY DEF Init, CoursesInv, CourseInv
<1>2. TypeOK /\ HostsInv /\ RunsInv /\ CoursesInv /\ [Next]_vars => CoursesInv'
  <2> SUFFICES ASSUME TypeOK, HostsInv, RunsInv, CoursesInv, [Next]_vars PROVE CoursesInv'
    OBVIOUS
  <2>1. ASSUME NEW h \in Hosts, HostStep(h) PROVE CoursesInv'
    <3>1. CourseInv(h)'
      BY <2>1, CourseKeeps DEF HostsInv, RunsInv, CoursesInv
    <3>2. \A q \in Hosts \ {h} : CourseInv(q)'
      BY <2>1, OtherCourses, CourseStays DEF CoursesInv
    <3> QED
      BY <3>1, <3>2 DEF CoursesInv
  <2>2. CASE Environment \/ UNCHANGED vars
    <3>1. \A q \in Hosts : SameCourse(q)
      BY <2>2 DEF Environment, vars, hostVars, diskVars, SameCourse
    <3> QED
      BY <3>1, CourseStays DEF CoursesInv
  <2> QED
    BY <2>1, <2>2 DEF Next, HostStep
<1> QED
  BY <1>1, <1>2, HostsInvariant, RunsInvariant, PTL DEF Spec, ExecutionInv

\* What does not move leaves as much as before.
LEMMA LeftStays ==
    ASSUME NEW q, at'[q] = at[q], gw'[q] = gw[q], steps'[q] = steps[q]
    PROVE  StepsLeft(q)' = StepsLeft(q)
  BY DEF StepsLeft

\* Startup, the graph and the end each come nearer to the end.
LEMMA ExecutionCounts ==
    ASSUME TypeOK, TypeOK', NEW h \in Hosts, HostInv(h), HostInv(h)', CourseInv(h), CourseInv(h)',
           KernelStep(h) \/ GatewayStep(h)
    PROVE  StepsLeft(h)' < StepsLeft(h)
<1>1. /\ at \in [Hosts -> {"off", "idle", "gateway", "tools", "graph", "failing", "closing"}]
      /\ steps \in [Hosts -> Nat] /\ MaxSteps \in Nat \ {0} /\ DOMAIN gw = Hosts
  BY LifecycleAssumption DEF TypeOK, GatewayTypeOK
<1>2. CASE GatewayUp(h)
  <2>1. /\ at[h] = "gateway" /\ gw[h] = "ready" /\ at'[h] = "tools"
    BY <1>1, <1>2 DEF GatewayUp, Move
  <2>2. StepsLeft(h) = MaxSteps + 6 /\ StepsLeft(h)' = MaxSteps + 5
    BY <2>1, LeftIs DEF LeftAt
  <2>3. MaxSteps + 5 < MaxSteps + 6
    BY ONLY <1>1
  <2> QED
    BY ONLY <2>2, <2>3
<1>3. CASE GatewayDown(h)
  <2>1. at[h] = "gateway" /\ gw[h] = "failed" /\ at'[h] \in {"off", "idle"}
    BY <1>1, <1>3 DEF GatewayDown, Move
  <2>2. StepsLeft(h) = MaxSteps + 6 /\ StepsLeft(h)' = 0
    BY <2>1, LeftIs DEF LeftAt
  <2>3. 0 < MaxSteps + 6
    BY ONLY <1>1
  <2> QED
    BY ONLY <2>2, <2>3
<1>4. ASSUME at'[h] = "closing", StepsLeft(h) \in Int, StepsLeft(h) >= 3
      PROVE  StepsLeft(h)' < StepsLeft(h)
  <2>1. StepsLeft(h)' = 1 \/ StepsLeft(h)' = 2
    BY <1>4, LeftIs DEF LeftAt, HostInv, PlaceInv
  <2>2. 1 < StepsLeft(h) /\ 2 < StepsLeft(h)
    BY ONLY <1>4
  <2> QED
    BY ONLY <2>1, <2>2
<1>5. ASSUME at'[h] = "failing", StepsLeft(h) \in Int, StepsLeft(h) >= 4
      PROVE  StepsLeft(h)' < StepsLeft(h)
  <2>1. StepsLeft(h)' = 3
    BY <1>5, LeftIs DEF LeftAt
  <2>2. 3 < StepsLeft(h)
    BY ONLY <1>5
  <2> QED
    BY ONLY <2>1, <2>2
<1>6. at[h] = "tools" => StepsLeft(h) = MaxSteps + 5 /\ StepsLeft(h) >= 4 /\ StepsLeft(h) >= 3
                          /\ StepsLeft(h) \in Int
  BY <1>1, LeftIs DEF LeftAt
<1>7. at[h] = "graph" => /\ StepsLeft(h) = MaxSteps - steps[h] + 4
                         /\ StepsLeft(h) >= 4 /\ StepsLeft(h) >= 3 /\ StepsLeft(h) \in Int
  BY <1>1, LeftIs DEF LeftAt, CourseInv
<1>8. CASE ToolsDown(h)
  <2>1. at[h] = "tools" /\ at'[h] = "closing"
    BY <1>1, <1>8 DEF ToolsDown, Shutdown, Move
  <2> QED
    BY <1>4, <1>6, <2>1
<1>9. CASE OpenRun(h)
  <2>1. at[h] = "tools" /\ at'[h] \in {"graph", "failing"} /\ steps'[h] = 0
    BY <1>1, <1>9 DEF OpenRun, Move, CourseInv
  <2>2. CASE at'[h] = "graph"
    <3>1. StepsLeft(h)' = MaxSteps - steps'[h] + 4
      BY <2>2, LeftIs DEF LeftAt
    <3>2. MaxSteps - 0 + 4 < MaxSteps + 5
      BY ONLY <1>1
    <3> QED
      BY ONLY <1>6, <2>1, <3>1, <3>2
  <2> QED
    BY <1>5, <1>6, <2>1, <2>2
<1>10. CASE GraphStep(h)
  <2>1. at[h] = "graph" /\ at'[h] = "graph" /\ steps'[h] = steps[h] + 1
    BY <1>1, <1>10 DEF GraphStep, InGraph
  <2>2. StepsLeft(h)' = MaxSteps - steps'[h] + 4
    BY <2>1, LeftIs DEF LeftAt
  <2>3. MaxSteps - (steps[h] + 1) + 4 < MaxSteps - steps[h] + 4
    <3>1. steps[h] \in Int /\ MaxSteps \in Int
      BY <1>1
    <3> QED
      BY ONLY <3>1
  <2> QED
    BY ONLY <1>7, <2>1, <2>2, <2>3
<1>11. CASE GraphThrows(h) \/ GraphEndsUnreported(h)
  <2>1. at[h] = "graph" /\ at'[h] = "failing"
    BY <1>1, <1>11 DEF GraphThrows, GraphEndsUnreported, InGraph, Move
  <2> QED
    BY <1>5, <1>7, <2>1
<1>12. CASE GraphEnds(h)
  <2>1. at[h] = "graph" /\ at'[h] = "closing"
    BY <1>1, <1>12 DEF GraphEnds, Shutdown, Move
  <2> QED
    BY <1>4, <1>7, <2>1
<1>13. CASE ReportFailure(h)
  <2>1. at[h] = "failing" /\ at'[h] = "closing"
    BY <1>1, <1>13 DEF ReportFailure, Shutdown, Move
  <2>2. StepsLeft(h) = 3
    BY <2>1, LeftIs DEF LeftAt
  <2> QED
    BY <1>4, <2>1, <2>2
<1>14. CASE Leave(h)
  <2>1. at[h] = "closing" /\ gw[h] = "idle" /\ at'[h] \in {"off", "idle"}
    BY <1>1, <1>14 DEF Leave, Move
  <2>2. StepsLeft(h) = 1 /\ StepsLeft(h)' = 0
    BY <2>1, LeftIs DEF LeftAt
  <2> QED
    BY ONLY <2>2
<1>15. CASE GatewayStep(h)
  <2>1. at'[h] = at[h]
    BY <1>15 DEF GatewayStep, hostVars
  <2>2. CASE Start(h)
    <3>1. /\ at[h] = "gateway" /\ at'[h] = "gateway"
          /\ \/ gw[h] = "probing" /\ gw'[h] = "resolving"
             \/ gw[h] = "resolving" /\ gw'[h] = "polling"
             \/ /\ gw[h] \in {"probing", "resolving", "polling"}
                /\ gw'[h] \in {"ready", "failed"}
      BY <1>1, <2>1, <2>2
      DEF Start, ProbeAnswered, ProbeMissed, GiveUp, Spawn, Goto, HostInv, PlaceInv
    <3>2. \/ StepsLeft(h) = MaxSteps + 9 /\ StepsLeft(h)' = MaxSteps + 8
          \/ StepsLeft(h) = MaxSteps + 8 /\ StepsLeft(h)' = MaxSteps + 7
          \/ /\ StepsLeft(h) \in {MaxSteps + 9, MaxSteps + 8, MaxSteps + 7}
             /\ StepsLeft(h)' = MaxSteps + 6
      BY <3>1, LeftIs DEF LeftAt
    <3>3. /\ MaxSteps + 8 < MaxSteps + 9 /\ MaxSteps + 7 < MaxSteps + 8
          /\ MaxSteps + 6 < MaxSteps + 9 /\ MaxSteps + 6 < MaxSteps + 8 /\ MaxSteps + 6 < MaxSteps + 7
      BY ONLY <1>1
    <3> QED
      BY ONLY <3>2, <3>3
  <2>3. CASE StopEnds(h)
    <3>1. at[h] = "closing" /\ gw[h] = "stopping" /\ at'[h] = "closing" /\ gw'[h] = "idle"
      BY <1>1, <2>1, <2>3 DEF StopEnds, Goto, HostInv, PlaceInv
    <3>2. StepsLeft(h) = 2 /\ StepsLeft(h)' = 1
      BY <3>1, LeftIs DEF LeftAt
    <3> QED
      BY ONLY <3>2
  <2> QED
    BY <1>15, <2>2, <2>3 DEF GatewayStep
<1> QED
  BY <1>2, <1>3, <1>8, <1>9, <1>10, <1>11, <1>12, <1>13, <1>14, <1>15 DEF KernelStep

\* Every execution is over after at most MaxSteps + 9 steps of its own, a gateway that never
\* answers or dies included: each of them lowers a number that is 0 only when it is over, and
\* nobody else, the operator, the children and the other hosts, raises it while it lasts.  This
\* is what makes RunsSettle true; fairness adds only that the host takes the steps it can.
THEOREM ExecutionsAreFinite ==
    Spec => /\ [](\A h \in Hosts : /\ StepsLeft(h) \in 0..(MaxSteps + 9)
                                   /\ Executing(h) <=> StepsLeft(h) > 0)
            /\ [][\A h \in Hosts :
                    /\ KernelStep(h) \/ GatewayStep(h) => StepsLeft(h)' < StepsLeft(h)
                    /\ Executing(h) => StepsLeft(h)' <= StepsLeft(h)]_vars
<1>1. ExecutionInv => LeftInBounds
  BY LeftBounds DEF ExecutionInv, HostsInv, CoursesInv, LeftInBounds
<1>2. ExecutionInv' => LeftInBounds'
  BY <1>1, PTL
<1>3. ExecutionInv /\ ExecutionInv' /\ [Next]_vars =>
        [\A h \in Hosts : /\ KernelStep(h) \/ GatewayStep(h) => StepsLeft(h)' < StepsLeft(h)
                          /\ Executing(h) => StepsLeft(h)' <= StepsLeft(h)]_vars
  <2> SUFFICES ASSUME ExecutionInv, ExecutionInv', Next, NEW h \in Hosts
               PROVE  /\ KernelStep(h) \/ GatewayStep(h) => StepsLeft(h)' < StepsLeft(h)
                      /\ Executing(h) => StepsLeft(h)' <= StepsLeft(h)
    OBVIOUS
  <2> USE DEF ExecutionInv
  <2>1. HostInv(h) /\ HostInv(h)' /\ CourseInv(h) /\ CourseInv(h)'
    BY DEF HostsInv, CoursesInv
  <2>2. KernelStep(h) \/ GatewayStep(h) => StepsLeft(h)' < StepsLeft(h)
    BY <2>1, ExecutionCounts
  <2>3. StepsLeft(h) \in Int /\ StepsLeft(h) >= 0 /\ StepsLeft(h)' \in Int
    BY <1>1, <1>2, LifecycleAssumption DEF LeftInBounds
  <2>4. CASE KernelStep(h) \/ GatewayStep(h)
    BY ONLY <2>2, <2>3, <2>4
  <2>5. CASE Operator(h)
    <3>1. ASSUME NEW r, NEW file, NEW found, NEW injected, Execute(h, r, file, found, injected)
          PROVE  ~Executing(h)
      BY <3>1 DEF Execute
    <3>2. CASE Interrupt(h) \/ Kill(h)
      <4>1. at'[h] = "off"
        BY <3>2 DEF Interrupt, Kill, Move, TypeOK
      <4>2. StepsLeft(h)' = 0
        BY <4>1, LeftIs DEF LeftAt
      <4> QED
        BY <2>2, <2>3, <4>2
    <3> QED
      BY <2>2, <2>5, <3>1, <3>2 DEF Operator, StartRun, ResumeRun
  <2>6. ASSUME at'[h] = at[h], gw'[h] = gw[h], steps'[h] = steps[h]
        PROVE  StepsLeft(h)' <= StepsLeft(h)
    <3>1. StepsLeft(h)' = StepsLeft(h)
      BY <2>6, LeftStays
    <3> QED
      BY ONLY <2>3, <3>1
  <2>7. ASSUME NEW g \in Hosts \ {h}, HostStep(g)
        PROVE  StepsLeft(h)' <= StepsLeft(h)
    BY <2>6, <2>7, Elsewhere, OtherCourses DEF Same, SameCourse
  <2>8. CASE Environment
    <3>1. gw' = gw /\ at' = at /\ steps' = steps
      BY <2>8 DEF Environment, hostVars, ChildServes, ChildExits, UnmanagedExits
    <3> QED
      BY <2>2, <2>6, <3>1
  <2> QED
    BY <2>2, <2>4, <2>5, <2>7, <2>8 DEF Next, HostStep
<1> QED
  BY <1>1, <1>3, CoursesInvariant, PTL DEF Spec, LeftInBounds
=============================================================================
