----------------------------- MODULE MCPatchLoop -----------------------------
(* Small instances of PatchLoop for TLC. *)
EXTENDS PatchLoop

\* One file that exists, one the run would create, one it must not touch.
CONSTANTS existing, missing, guarded, pristine, edited

MCFiles == {existing, missing, guarded}
MCProtected == {guarded}
MCContents == {pristine, edited}

\* What a block writes may or may not be what the file held before.
MCTrees ==
    {[f \in MCFiles |-> CASE f = missing -> Absent [] f = existing -> c [] f = guarded -> pristine] :
        c \in MCContents}

\* Every file under its own name, and a path outside the workspace.
PlainPaths == {"a", "b", "g", "x"}
PlainResolve == [p \in PlainPaths |-> CASE p = "a" -> existing [] p = "b" -> missing
                                         [] p = "g" -> guarded [] p = "x" -> Outside]

\* A workspace of text files.
TextOnly == [c \in MCContents |-> c]

\* The original is not valid UTF-8, so reading it as text already changes it.
Lossy == [c \in MCContents |-> edited]

AtRest == {"idle", "restoring"}
Anywhere == {"idle", "writing", "restoring"}
Nowhere == {}
=============================================================================
