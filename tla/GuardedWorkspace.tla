--------------------------- MODULE GuardedWorkspace ---------------------------
(***************************************************************************)
(* What a run with patch application promises about the workspace, stated  *)
(* without drafts, backups or retries: the run may write unprotected       *)
(* files, a verification may approve the tree as it stands, and the run    *)
(* ends either with the tree that was approved last or with the tree it    *)
(* started from.  PatchLoop is shown to implement it.                      *)
(***************************************************************************)
CONSTANTS Files, Protected, Contents, Absent

VARIABLES tree,       \* the workspace: contents of every file
          base,       \* the tree the run started from
          approved,   \* the set holding the tree verified last, if any
          outcome     \* "open", "kept" or "untouched"

vars == <<tree, base, approved, outcome>>

Trees == [Files -> Contents \cup {Absent}]

Init ==
    /\ tree \in Trees /\ base = tree
    /\ approved = {} /\ outcome = "open"

Write(f) ==
    /\ outcome = "open" /\ f \notin Protected
    /\ \E c \in Contents \cup {Absent} : tree' = [tree EXCEPT ![f] = c]
    /\ UNCHANGED <<base, approved, outcome>>

Approve ==
    /\ outcome = "open"
    /\ approved' = {tree}
    /\ UNCHANGED <<tree, base, outcome>>

EndKept ==
    /\ outcome = "open" /\ tree \in approved
    /\ outcome' = "kept"
    /\ UNCHANGED <<tree, base, approved>>

EndUntouched ==
    /\ outcome = "open" /\ tree = base
    /\ outcome' = "untouched"
    /\ UNCHANGED <<tree, base, approved>>

Next == (\E f \in Files : Write(f)) \/ Approve \/ EndKept \/ EndUntouched

Spec == Init /\ [][Next]_vars

=============================================================================
