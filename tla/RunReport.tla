----------------------------- MODULE RunReport -----------------------------
(***************************************************************************)
(* What the run kernel promises about the summary file of a run: it        *)
(* changes only while a process executes the run, and an execution that    *)
(* has reported leaves its report alone.  A write that fails may leave     *)
(* half a file, which is no report.                                        *)
(***************************************************************************)
CONSTANT Runs

VARIABLES
    open,       \* runs being executed
    told,       \* those whose execution has reported
    report      \* status in the file of a run

vars == <<open, told, report>>

Statuses == {"failed", "done"}

Init == open = {} /\ told = {} /\ report = [r \in Runs |-> "none"]

Begin(r) ==
    /\ r \notin open
    /\ open' = open \cup {r}
    /\ UNCHANGED <<told, report>>

Write(r, s) == report' = [report EXCEPT ![r] = s]

Report(r) ==
    /\ r \in open \ told
    /\ \E s \in Statuses : Write(r, s)
    /\ told' = told \cup {r}
    /\ UNCHANGED open

WriteFails(r) ==
    /\ r \in open \ told
    /\ Write(r, "torn")
    /\ UNCHANGED <<open, told>>

\* An execution may end with its report, before it or after it.
End(r) ==
    /\ r \in open
    /\ open' = open \ {r} /\ told' = told \ {r}
    /\ \/ UNCHANGED report
       \/ r \notin told /\ \E s \in Statuses \cup {"torn"} : Write(r, s)

Next == \E r \in Runs : Begin(r) \/ Report(r) \/ WriteFails(r) \/ End(r)

Spec == Init /\ [][Next]_vars
=============================================================================
