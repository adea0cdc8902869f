------------------------------ MODULE Gateway ------------------------------
(***************************************************************************)
(* src/tools/gateway.ts: how a process makes sure that an OpenClaw gateway *)
(* answers on the configured port, and stops the one it started.  All      *)
(* processes of a machine share the port, each has a variable of its own   *)
(* for the child it manages, and nothing but the probe tells it of others. *)
(*                                                                         *)
(* The gateway program is external: a child boots, serves if the port is   *)
(* free, and may exit at any time.  Waiting is abstracted: a probe may     *)
(* miss, and a deadline pass, at any time.                                 *)
(***************************************************************************)
CONSTANTS
    Hosts,       \* processes that run agents
    Tokens       \* those with a gateway token in their environment

VARIABLES
    gw,          \* where start or stop is, by host
    managed,     \* managedGatewayProcess is not null, by host
    child,       \* the gateway process last spawned by a host
    unmanaged    \* a gateway serves that no host manages

gatewayVars == <<gw, managed, child, unmanaged>>

Alive == {"booting", "serving", "terminating"}

GatewayTypeOK ==
    /\ gw \in [Hosts -> {"idle", "probing", "resolving", "polling", "ready", "failed",
                        "stopping"}]
    /\ managed \in [Hosts -> BOOLEAN]
    /\ child \in [Hosts -> Alive \cup {"none", "gone"}]
    /\ unmanaged \in BOOLEAN

GatewayInit ==
    /\ gw = [h \in Hosts |-> "idle"]
    /\ managed = [h \in Hosts |-> FALSE]
    /\ child = [h \in Hosts |-> "none"]
    /\ unmanaged \in BOOLEAN

Serving == unmanaged \/ \E h \in Hosts : child[h] = "serving"

Goto(h, place) == gw' = [gw EXCEPT ![h] = place]

-----------------------------------------------------------------------------
(* startOpenClawGateway *)

\* The first probe and those of the loop.  Without a token every probe fails.
ProbeAnswered(h) ==
    /\ gw[h] \in {"probing", "polling"}
    /\ Serving /\ h \in Tokens
    /\ Goto(h, "ready")
    /\ UNCHANGED <<managed, child, unmanaged>>

\* Mutated: the process does not look whether it has a child already.
ProbeMissedUnchecked(h) ==
    /\ gw[h] = "probing"
    /\ Goto(h, "resolving")
    /\ UNCHANGED <<managed, child, unmanaged>>

\* With a child of its own the process is content, it does not wait for it; else the CLI is
\* looked up.
ProbeMissed(h) ==
    /\ gw[h] = "probing"
    /\ Goto(h, IF managed[h] THEN "ready" ELSE "resolving")
    /\ UNCHANGED <<managed, child, unmanaged>>

\* The lookup has returned; nothing is checked again.  getGatewayToken throws while the
\* environment of the child is put together.
Spawn(h) ==
    /\ gw[h] = "resolving"
    /\ IF h \in Tokens
       THEN /\ managed' = [managed EXCEPT ![h] = TRUE]
            /\ child' = [child EXCEPT ![h] = "booting"]
            /\ Goto(h, "polling")
       ELSE Goto(h, "failed") /\ UNCHANGED <<managed, child>>
    /\ UNCHANGED unmanaged

\* Mutated: the loop goes on without a child and without a deadline.
GiveUpNever(h) == FALSE /\ UNCHANGED gatewayVars

\* Mutated: a start that gives up clears managedGatewayProcess and leaves the child.
GiveUpForgetful(h) ==
    /\ gw[h] = "polling"
    /\ Goto(h, "failed")
    /\ managed' = [managed EXCEPT ![h] = FALSE]
    /\ UNCHANGED <<child, unmanaged>>

\* The child is gone, or the deadline has passed; a child that boots is left to itself.
GiveUp(h) ==
    /\ gw[h] = "polling"
    /\ Goto(h, "failed")
    /\ UNCHANGED <<managed, child, unmanaged>>

Start(h) ==
    ProbeAnswered(h) \/ ProbeMissed(h) \/ Spawn(h) \/ GiveUp(h)

-----------------------------------------------------------------------------
(* stopOpenClawGateway *)

\* Its first part, run in one step with what precedes it; UNCHANGED unmanaged.
BeginStop(h) ==
    IF managed[h]
    THEN /\ managed' = [managed EXCEPT ![h] = FALSE]
         /\ child' = [child EXCEPT ![h] = "terminating"]
         /\ Goto(h, "stopping")
    ELSE Goto(h, "idle") /\ UNCHANGED <<managed, child>>

\* The child exits within the grace period or is killed.
StopEnds(h) ==
    /\ gw[h] = "stopping"
    /\ child' = [child EXCEPT ![h] = "gone"]
    /\ Goto(h, "idle")
    /\ UNCHANGED <<managed, unmanaged>>

-----------------------------------------------------------------------------
(* The gateway program and its exit event *)

ChildServes(h) ==
    /\ child[h] = "booting" /\ ~Serving
    /\ child' = [child EXCEPT ![h] = "serving"]
    /\ UNCHANGED <<gw, managed, unmanaged>>

\* At once if it cannot be started, or finds the port taken.
ChildExits(h) ==
    /\ child[h] \in Alive
    /\ child' = [child EXCEPT ![h] = "gone"]
    /\ managed' = [managed EXCEPT ![h] = FALSE]
    /\ UNCHANGED <<gw, unmanaged>>

UnmanagedExits ==
    /\ unmanaged
    /\ unmanaged' = FALSE
    /\ UNCHANGED <<gw, managed, child>>

-----------------------------------------------------------------------------
\* The process of h is gone with its memory; its child stays.
Forget(h) ==
    /\ Goto(h, "idle")
    /\ managed' = [managed EXCEPT ![h] = FALSE]
    /\ UNCHANGED <<child, unmanaged>>

\* Another process takes h's place: the child left behind is nobody's.
Renew(h) ==
    /\ child' = [child EXCEPT ![h] = "none"]
    /\ unmanaged' = (unmanaged \/ child[h] \in Alive)
=============================================================================
