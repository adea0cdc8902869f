---------------------------- MODULE RunLifecycle ----------------------------
(***************************************************************************)
(* The run kernel, src/app/run-agent-task.ts, between the command line or  *)
(* a bench that calls it and the disk: startup, the run context, one       *)
(* invocation of the main graph, the run summary, shutdown.  A host is a   *)
(* process: the CLI (src/main.ts) executes one run and exits, an embedding *)
(* one executes runs one after the other (bench/README.md pins the         *)
(* concurrency to 1).  Hosts meet at the gateway's port (module Gateway)   *)
(* and in the files of the runs.                                           *)
(*                                                                         *)
(* The graph is reduced to what it costs, commits and whether it throws    *)
(* (see MainGraph).                                                        *)
(***************************************************************************)
EXTENDS Integers, Gateway, Profiles

CONSTANTS
    Embedding,     \* hosts that call runAgentTask, the others are the CLI
    Files,         \* profile files
    Shipped,       \* those in profiles/, which a name alone finds
    Contents,      \* what is in them, by file
    Choices,       \* those a host is started with
    Charges,       \* what a graph step may cost
    MaxRuns, MaxLaunches, MaxSteps, MaxFaults     \* bounds of the model

ASSUME LifecycleAssumption ==
    /\ Embedding \subseteq Hosts /\ Shipped \subseteq Files /\ "default" \in Shipped
    /\ Choices \in [Hosts -> SUBSET Files]
    /\ Charges \subseteq Nat /\ MaxRuns \in Nat /\ MaxLaunches \in Nat /\ MaxSteps \in Nat \ {0} /\ MaxFaults \in Nat

\* An override that names a tier names one there is.
ASSUME ContentsAssumption ==
    \A f \in Files : \A r \in Overridden(Contents[f]) :
        LET override == Contents[f].roles[r]
        IN  ~IsFullBinding(override) => override.tier \in Tiers

VARIABLES
    \* by host
    at,           \* "off", "idle" (embedding, between runs) or how far executeAgentRun is
    run,          \* resumeRunId, then runContext.runId; 0 for none
    profile,      \* the file of the profile in force
    recovered,    \* it was resolved with source "recovered"
    started,      \* gatewayStarted
    ready,        \* onRunReady was called, the CLI handles SIGINT
    usage,        \* runContext.usage.totalCostUsd
    written,      \* summaryWritten
    steps,        \* graph steps of this invocation
    \* on disk, by run
    checkpoint, summary,
    \* history and bounds
    outcome,      \* how a host's last execution ended; "none" if by a signal
    billed,       \* cost of all model calls of a run
    origin,       \* the profile a run was started under
    issued, launches, faults

hostVars == <<at, run, profile, recovered, started, ready, usage, written, steps, outcome>>
diskVars == <<checkpoint, summary>>
boundVars == <<issued, launches, faults>>
vars == <<gatewayVars, hostVars, diskVars, billed, origin, boundVars>>

Runs == 1..MaxRuns

NoCheckpoint == [cost |-> 0, ended |-> FALSE, exists |-> FALSE]
NoSummary == [status |-> "none", cost |-> 0, name |-> Absent]
Torn == [status |-> "torn", cost |-> 0, name |-> Absent]

Init ==
    /\ GatewayInit
    /\ at = [h \in Hosts |-> "off"] /\ run = [h \in Hosts |-> 0]
    /\ profile = [h \in Hosts |-> "default"] /\ recovered = [h \in Hosts |-> FALSE]
    /\ started = [h \in Hosts |-> FALSE] /\ ready = [h \in Hosts |-> FALSE]
    /\ usage = [h \in Hosts |-> 0] /\ written = [h \in Hosts |-> FALSE]
    /\ steps = [h \in Hosts |-> 0] /\ outcome = [h \in Hosts |-> "none"]
    /\ checkpoint = [r \in Runs |-> NoCheckpoint] /\ summary = [r \in Runs |-> NoSummary]
    /\ billed = [r \in Runs |-> 0] /\ origin = [r \in Runs |-> "default"]
    /\ issued = 0 /\ launches = 0 /\ faults = 0

Move(h, place) == at' = [at EXCEPT ![h] = place]
Executing(h) == at[h] \notin {"off", "idle"}

-----------------------------------------------------------------------------
(* Launching: the command line chooses the profile, the kernel what it needs. *)

Loadable == {f \in Files : Accepted(Contents[f])}

\* The web provider of the default registry routes through the gateway, an injected
\* registry may do without.
NeedsGateway(file, injected) ==
    "openclaw" \in EffectiveTransports(Contents[file]) \/ ~injected

\* The variables of an execution that is over.
Clear(h) ==
    /\ run' = [run EXCEPT ![h] = 0] /\ profile' = [profile EXCEPT ![h] = "default"]
    /\ recovered' = [recovered EXCEPT ![h] = FALSE] /\ ready' = [ready EXCEPT ![h] = FALSE]
    /\ usage' = [usage EXCEPT ![h] = 0] /\ written' = [written EXCEPT ![h] = FALSE]
    /\ steps' = [steps EXCEPT ![h] = 0]

\* executeAgentRun up to its first await; a new process if the host is off.
Execute(h, r, file, found, injected) ==
    /\ ~Executing(h) /\ launches < MaxLaunches /\ launches' = launches + 1
    /\ run' = [run EXCEPT ![h] = r]
    /\ profile' = [profile EXCEPT ![h] = file] /\ recovered' = [recovered EXCEPT ![h] = found]
    /\ started' = [started EXCEPT ![h] = FALSE] /\ outcome' = [outcome EXCEPT ![h] = "none"]
    /\ IF NeedsGateway(file, injected)
       THEN Move(h, "gateway") /\ Goto(h, "probing")
       ELSE Move(h, "tools") /\ UNCHANGED gw
    /\ IF at[h] = "off" THEN Renew(h) ELSE UNCHANGED <<child, unmanaged>>
    /\ UNCHANGED <<managed, ready, usage, written, steps, diskVars, billed, origin, issued, faults>>

StartRun(h) ==
    \E file \in Loadable \cap Choices[h], injected \in (IF h \in Embedding THEN BOOLEAN ELSE {FALSE}) :
        Execute(h, 0, file, FALSE, injected)

\* readRunSummary and loadProfile: the file the recorded name leads to, if there is one.
RecordedFile(r) == {f \in Loadable \cap Shipped : f = summary[r].name}

\* The operator resumes a run no process executes, with or without --profile.
ResumeRun(h) ==
    \E r \in 1..issued :
        /\ h \notin Embedding
        /\ \A g \in Hosts : Executing(g) => run[g] # r
        /\ \/ \E file \in Loadable \cap Choices[h] : Execute(h, r, file, FALSE, FALSE)
           \/ \E file \in RecordedFile(r) : Execute(h, r, file, TRUE, FALSE)
           \/ RecordedFile(r) = {} /\ "default" \in Loadable /\ Execute(h, r, "default", FALSE, FALSE)

-----------------------------------------------------------------------------
(* Startup *)

GatewayUp(h) ==
    /\ at[h] = "gateway" /\ gw[h] = "ready"
    /\ started' = [started EXCEPT ![h] = TRUE]
    /\ Move(h, "tools") /\ Goto(h, "idle")
    /\ UNCHANGED <<managed, child, unmanaged, run, profile, recovered, ready, usage, written, steps,
                   outcome, diskVars, billed, origin, boundVars>>

\* Rethrown: the CLI exits, an embedding host stays, with the child it may have started.
GatewayDown(h) ==
    /\ at[h] = "gateway" /\ gw[h] = "failed"
    /\ outcome' = [outcome EXCEPT ![h] = "rejected"]
    /\ IF h \in Embedding
       THEN Move(h, "idle") /\ Goto(h, "idle") /\ UNCHANGED <<managed, child, unmanaged>>
       ELSE Move(h, "off") /\ Forget(h)
    /\ Clear(h)
    /\ UNCHANGED <<started, diskVars, billed, origin, boundVars>>

\* Mutated: a gateway that was asked for is not stopped.
ShutdownKeeps(h) == Move(h, "closing") /\ UNCHANGED <<gw, managed, child>>

\* The finally block, or that of a failed startup, up to its first await.
Shutdown(h) ==
    /\ Move(h, "closing")
    /\ IF started[h] THEN BeginStop(h) ELSE UNCHANGED <<gw, managed, child>>

End(h, how) == outcome' = [outcome EXCEPT ![h] = how]

\* tools.start of the default registry never rejects, an injected one may.
ToolsDown(h) ==
    /\ at[h] = "tools" /\ h \in Embedding
    /\ End(h, "rejected") /\ Shutdown(h)
    /\ UNCHANGED <<unmanaged, run, profile, recovered, started, ready, usage, written, steps,
                   diskVars, billed, origin, boundVars>>

\* Once the tools are up: createRunContext, the check of the checkpoint and onRunReady.
\* Opening the checkpoint database may throw.
OpenRun(h) ==
    /\ at[h] = "tools"
    /\ IF run[h] = 0
       THEN /\ issued < MaxRuns /\ issued' = issued + 1
            /\ run' = [run EXCEPT ![h] = issued + 1]
            /\ origin' = [origin EXCEPT ![issued + 1] = profile[h]]
       ELSE UNCHANGED <<issued, run, origin>>
    /\ \/ /\ run[h] # 0 => checkpoint[run[h]].exists
          /\ Move(h, "graph") /\ ready' = [ready EXCEPT ![h] = TRUE]
       \/ Move(h, "failing") /\ UNCHANGED ready
    /\ UNCHANGED <<gatewayVars, profile, recovered, started, usage, written, steps, outcome,
                   diskVars, billed, launches, faults>>

-----------------------------------------------------------------------------
(* graph.invoke *)

Bill(h, c) == billed' = [billed EXCEPT ![run[h]] = @ + c]

\* Mutated: the cost is taken off.
CountBack(h, c) == usage' = [usage EXCEPT ![h] = @ - c]

Count(h, c) == usage' = [usage EXCEPT ![h] = @ + c]
InGraph(h) == at[h] = "graph" /\ ~checkpoint[run[h]].ended

\* A node returns, wrapNode counts its cost, the superstep is checkpointed.
GraphStep(h) ==
    /\ InGraph(h)
    /\ \E c \in Charges, ended \in BOOLEAN :
        /\ steps[h] + 1 = MaxSteps => ended
        /\ Bill(h, c) /\ Count(h, c)
        /\ checkpoint' = [checkpoint EXCEPT ![run[h]] =
                            [cost |-> @.cost + c, ended |-> ended, exists |-> TRUE]]
    /\ steps' = [steps EXCEPT ![h] = @ + 1]
    /\ UNCHANGED <<gatewayVars, at, run, profile, recovered, started, ready, written, outcome, summary,
                   origin, boundVars>>

\* A node throws after calls that were paid, or its superstep is not checkpointed.
GraphThrows(h) ==
    /\ InGraph(h)
    /\ \E c \in Charges : Bill(h, c) /\ (Count(h, c) \/ UNCHANGED usage)
    /\ Move(h, "failing")
    /\ UNCHANGED <<gatewayVars, run, profile, recovered, started, ready, written, steps, outcome,
                   diskVars, origin, boundVars>>

-----------------------------------------------------------------------------
(* Summaries *)

\* writeFileSync is not atomic: what was there may be lost with it.
WriteFails(h) ==
    /\ faults < MaxFaults /\ faults' = faults + 1
    /\ \E left \in {summary[run[h]], Torn} : summary' = [summary EXCEPT ![run[h]] = left]

WriteSummary(h, status, cost) ==
    /\ summary' = [summary EXCEPT ![run[h]] =
                    [status |-> status, cost |-> cost, name |-> Contents[profile[h]].name]]
    /\ UNCHANGED faults

Told(h) == written' = [written EXCEPT ![h] = TRUE]
\* Mutated: the answer is reported with the cost of this process.
GraphEndsOwnCost(h) ==
    /\ at[h] = "graph" /\ checkpoint[run[h]].ended
    /\ WriteSummary(h, "done", usage[h]) /\ Told(h) /\ End(h, "resolved") /\ Shutdown(h)
    /\ UNCHANGED <<unmanaged, run, profile, recovered, started, ready, usage, steps, checkpoint,
                   billed, origin, issued, launches>>

\* The graph has ended, now or before this resumption; completed and budget_stopped alike.
GraphEnds(h) ==
    /\ at[h] = "graph" /\ checkpoint[run[h]].ended
    /\ WriteSummary(h, "done", checkpoint[run[h]].cost) /\ Told(h)
    /\ End(h, "resolved") /\ Shutdown(h)
    /\ UNCHANGED <<unmanaged, run, profile, recovered, started, ready, usage, steps, checkpoint,
                   billed, origin, issued, launches>>

GraphEndsUnreported(h) ==
    /\ at[h] = "graph" /\ checkpoint[run[h]].ended
    /\ WriteFails(h) /\ Move(h, "failing")
    /\ UNCHANGED <<gatewayVars, run, profile, recovered, started, ready, usage, written, steps,
                   outcome, checkpoint, billed, origin, issued, launches>>

\* The catch block: what cannot be reported is rethrown.
ReportFailure(h) ==
    /\ at[h] = "failing"
    /\ \/ WriteSummary(h, "failed", usage[h]) /\ Told(h) /\ End(h, "resolved")
       \/ WriteFails(h) /\ End(h, "rejected") /\ UNCHANGED written
    /\ Shutdown(h)
    /\ UNCHANGED <<unmanaged, run, profile, recovered, started, ready, usage, steps, checkpoint,
                   billed, origin, issued, launches>>

-----------------------------------------------------------------------------
(* The end of a process *)

Leave(h) ==
    /\ at[h] = "closing" /\ gw[h] = "idle"
    /\ IF h \in Embedding THEN Move(h, "idle") /\ UNCHANGED gatewayVars
                           ELSE Move(h, "off") /\ Forget(h)
    /\ Clear(h)
    /\ UNCHANGED <<started, outcome, diskVars, billed, origin, boundVars>>

\* Mutated: a second report is written over the first.
InterruptAnyway(h) ==
    /\ ready[h] /\ at[h] \in {"graph", "closing"}
    /\ WriteSummary(h, "failed", usage[h]) \/ WriteFails(h)
    /\ IF InGraph(h) THEN \E c \in Charges : Bill(h, c) ELSE UNCHANGED billed
    /\ Move(h, "off") /\ End(h, "none") /\ Forget(h) /\ Clear(h)
    /\ UNCHANGED <<started, checkpoint, origin, issued, launches>>

\* onSigint of main.ts: failRun, then process.exit without the finally block.
Interrupt(h) ==
    /\ ready[h] /\ at[h] \in {"graph", "closing"}
    /\ IF written[h] THEN UNCHANGED <<summary, faults>>
                     ELSE WriteSummary(h, "failed", usage[h]) \/ WriteFails(h)
    /\ IF InGraph(h) THEN \E c \in Charges : Bill(h, c) ELSE UNCHANGED billed
    /\ Move(h, "off") /\ End(h, "none") /\ Forget(h) /\ Clear(h)
    /\ UNCHANGED <<started, checkpoint, origin, issued, launches>>

\* SIGKILL, a power cut, SIGINT while nobody handles it.
Kill(h) ==
    /\ at[h] # "off"
    /\ IF InGraph(h) THEN \E c \in Charges : Bill(h, c) ELSE UNCHANGED billed
    /\ Move(h, "off") /\ End(h, "none") /\ Forget(h)
    /\ Clear(h)
    /\ UNCHANGED <<started, diskVars, origin, boundVars>>

-----------------------------------------------------------------------------
KernelStep(h) ==
    \/ GatewayUp(h) \/ GatewayDown(h) \/ ToolsDown(h) \/ OpenRun(h)
    \/ GraphStep(h) \/ GraphThrows(h) \/ GraphEnds(h) \/ GraphEndsUnreported(h)
    \/ ReportFailure(h) \/ Leave(h)

GatewayStep(h) ==
    /\ Start(h) \/ StopEnds(h)
    /\ UNCHANGED <<hostVars, diskVars, billed, origin, boundVars>>

Environment ==
    /\ UnmanagedExits \/ \E h \in Hosts : ChildServes(h) \/ ChildExits(h)
    /\ UNCHANGED <<hostVars, diskVars, billed, origin, boundVars>>

Operator(h) == StartRun(h) \/ ResumeRun(h) \/ (h \notin Embedding /\ Interrupt(h)) \/ Kill(h)

Next ==
    \/ \E h \in Hosts : KernelStep(h) \/ GatewayStep(h) \/ Operator(h)
    \/ Environment

Spec == Init /\ [][Next]_vars

\* A host goes on: every wait of startup and shutdown has a deadline, the invocation ends.
FairSpec == Spec /\ \A h \in Hosts : WF_vars(KernelStep(h) \/ GatewayStep(h))

-----------------------------------------------------------------------------
(* What the kernel promises. *)

Names == {Contents[f].name : f \in Files} \cup {Absent}

TypeOK ==
    /\ GatewayTypeOK
    /\ at \in [Hosts -> {"off", "idle", "gateway", "tools", "graph", "failing", "closing"}]
    /\ run \in [Hosts -> Runs \cup {0}]
    /\ profile \in [Hosts -> Files]
    /\ recovered \in [Hosts -> BOOLEAN]
    /\ started \in [Hosts -> BOOLEAN] /\ ready \in [Hosts -> BOOLEAN]
    /\ written \in [Hosts -> BOOLEAN] /\ usage \in [Hosts -> Nat] /\ steps \in [Hosts -> Nat]
    /\ outcome \in [Hosts -> {"none", "resolved", "rejected"}]
    /\ checkpoint \in [Runs -> [cost : Nat, ended : BOOLEAN, exists : BOOLEAN]]
    /\ summary \in [Runs -> [status : {"none", "torn", "failed", "done"}, cost : Nat, name : Names]]
    /\ billed \in [Runs -> Nat] /\ origin \in [Runs -> Files]
    /\ issued \in 0..MaxRuns /\ launches \in Nat /\ faults \in Nat

(***************************************************************************)
(* However often a run was interrupted and resumed, its final summary      *)
(* tells the cost of all committed steps, and no summary tells more than   *)
(* was billed (run-agent-task.ts sums the two kinds of summary from        *)
(* different places).                                                      *)
(***************************************************************************)
CostTold ==
    \A r \in Runs :
        /\ summary[r].status = "done" => summary[r].cost = checkpoint[r].cost
        /\ summary[r].cost <= billed[r] /\ checkpoint[r].cost <= billed[r]

(***************************************************************************)
(* A run that asked for the gateway and was reported leaves no gateway     *)
(* process of its host behind, unless a signal cut its shutdown short.     *)
(* (A start that gives up leaves one: see GiveUp.)                         *)
(***************************************************************************)
NothingLeftRunning ==
    \A h \in Hosts :
        ~Executing(h) /\ outcome[h] = "resolved" /\ started[h] => child[h] \notin Alive

(***************************************************************************)
(* Over several runs of one process, some of which could not be started    *)
(* and left a child booting, no start spawns over a live child, though the *)
(* check lies before an await (gateway.ts:96-115); and as long as the      *)
(* process goes on it knows its live child, to stop it, or is stopping it  *)
(* (managedGatewayProcess, gateway.ts:125-148, 157-162).                   *)
(***************************************************************************)
NoChildForgotten ==
    [][\A h \in Hosts :
        /\ gw[h] # "polling" /\ gw'[h] = "polling" => child[h] \notin Alive
        /\ at'[h] # "off" /\ child'[h] \in Alive => managed'[h] \/ gw'[h] = "stopping"]_vars

(***************************************************************************)
(* Once the graph runs, every role can be served under the profile in      *)
(* force, however it was chosen: its model is priced, a direct call is not *)
(* given a gateway's name, and the gateway was asked for if a role needs   *)
(* it (profile.ts and resolve.ts decide this in five places).              *)
(***************************************************************************)
RolesServed ==
    \A h \in Hosts : at[h] = "graph" =>
        \A role \in Roles : Served(role, Contents[profile[h]], started[h])

Opened(h) == at[h] \in {"graph", "failing", "closing"} /\ run[h] # 0

Report == INSTANCE RunReport WITH
    open <- {run[h] : h \in {g \in Hosts : Opened(g)}},
    told <- {run[h] : h \in {g \in Hosts : Opened(g) /\ written[g]}},
    report <- [r \in Runs |-> summary[r].status]

(***************************************************************************)
(* The kernel implements RunReport: SIGINT, the catch block and the normal *)
(* end compete for one file, and the first report of an execution stands   *)
(* (summaryWritten in run-agent-task.ts).                                  *)
(***************************************************************************)
ImplementsRunReport == Report!Spec

(***************************************************************************)
(* An execution ends, whatever the gateway does: by itself or by a signal. *)
(***************************************************************************)
RunsSettle == \A h \in Hosts : Executing(h) ~> ~Executing(h)

(***************************************************************************)
(* memory.md:96: "--resume recovers the ORIGINAL run's profile".  It       *)
(* recovers the one of the last summary.                                   *)
(***************************************************************************)
RecoveredProfileIsOriginal ==
    \A h \in Hosts : Executing(h) /\ recovered[h] => profile[h] = origin[run[h]]

\* Steps an execution has left at most, its own and those of the start or stop it waits for.
StepsLeft(h) ==
    CASE at[h] = "gateway" ->
           MaxSteps + (CASE gw[h] = "probing" -> 9 [] gw[h] = "resolving" -> 8
                         [] gw[h] = "polling" -> 7 [] OTHER -> 6)
      [] at[h] = "tools" -> MaxSteps + 5
      [] at[h] = "graph" -> MaxSteps - steps[h] + 4
      [] at[h] = "failing" -> 3
      [] at[h] = "closing" -> IF gw[h] = "stopping" THEN 2 ELSE 1
      [] OTHER -> 0
=============================================================================
