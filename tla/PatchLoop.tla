------------------------------ MODULE PatchLoop ------------------------------
(***************************************************************************)
(* Patch application, verification and rollback on the workspace:          *)
(* src/patching/patch-blocks.ts driven by the nodes applyPatches, verify   *)
(* and finalize.  Everything between them (architects, coder, critics,     *)
(* refetches, tie-breaker) is the node "debate", which hands over a draft  *)
(* or, out of budget, goes to finalize.                                    *)
(*                                                                         *)
(* Nodes are atomic for the checkpoint but not for the disk: a draft is    *)
(* written, and a rollback carried out, one file per step, and the process *)
(* can die between two of them.  A node's results reach the checkpoint     *)
(* only with its last step; --resume runs the node again from the start.   *)
(***************************************************************************)
EXTENDS Integers, Sequences

CONSTANTS
    Files,          \* workspace-relative files
    Protected,      \* those for which isProtectedPath holds
    Contents, Absent,
    Utf8,           \* Utf8[c]: c read as UTF-8 text and written back
    InitialTrees,   \* the workspaces a run may start from
    Paths,          \* spellings a patch block may use for its target
    Resolve,        \* Resolve[p]: the file p names, or Outside
    Outside,
    MaxBlocks,      \* bound: blocks in one draft
    MaxVerifyAttempts, MaxPatchFormatRetries,
    CrashIn,        \* phases of a node in which the process may die
    LlmFaults,      \* may a model call in the debate throw?
    IoFaults,       \* may reading or writing a file fail?
    Torn            \* what a write that fails half-way leaves behind

Phases == {"idle", "writing", "restoring"}

ASSUME WorkspaceAssumption ==
    /\ Protected \subseteq Files
    /\ Absent \notin Contents /\ Torn \in Contents
    /\ Utf8 \in [Contents -> Contents]
    /\ InitialTrees \subseteq [Files -> Contents \cup {Absent}]
    /\ Outside \notin Files /\ Resolve \in [Paths -> Files \cup {Outside}]

ASSUME LimitsAssumption ==
    /\ MaxBlocks \in Nat
    /\ MaxVerifyAttempts \in Int /\ MaxPatchFormatRetries \in Int
    /\ CrashIn \subseteq Phases /\ LlmFaults \in BOOLEAN /\ IoFaults \in BOOLEAN

Blocks == [path : Paths, content : Contents]

\* parsePatchBlocks: one block per literal path, in order; none in plain prose.
Drafts ==
    {d \in UNION {[1..n -> Blocks] : n \in 0..MaxBlocks} :
        \A i, j \in DOMAIN d : d[i].path = d[j].path => i = j}

NoBackups == [f \in Files |-> Absent]

VARIABLES
    disk,
    \* the checkpoint
    node, patchEnabled, currentDraft, bestDraft, finalAnswer,
    patchBackups,       \* contents to restore; Absent where there is no entry
    patchCreatedFiles, patchApplied, patchFormatRetries,
    verificationPassed, verifyAttempts,
    \* the process
    status,             \* "running", "failed" (reported), "dead" or "done"
    phase,              \* where the running node is
    todo,               \* blocks still to write, or the files still to roll back
    fresh,              \* applyPatchBlocks' applied, newBackups, created
    \* history
    base, verifiedTree

draftVars == <<currentDraft, bestDraft, finalAnswer>>
recordVars == <<patchBackups, patchCreatedFiles, patchApplied>>
verdictVars == <<verificationPassed, verifyAttempts>>
checkpointVars == <<node, patchEnabled, draftVars, recordVars, patchFormatRetries, verdictVars>>
localVars == <<phase, todo, fresh>>
historyVars == <<base, verifiedTree>>
vars == <<disk, checkpointVars, status, localVars, historyVars>>

NothingFresh == [applied |-> {}, backups |-> NoBackups, created |-> {}]
NothingToDo == [blocks |-> <<>>, restore |-> {}, remove |-> {}]

Init ==
    /\ disk \in InitialTrees /\ base = disk /\ verifiedTree = {}
    /\ node = "debate" /\ patchEnabled \in BOOLEAN
    /\ currentDraft = <<>> /\ bestDraft = <<>> /\ finalAnswer = <<>>
    /\ patchBackups = NoBackups /\ patchCreatedFiles = {}
    /\ patchApplied = FALSE /\ patchFormatRetries = 0
    /\ verificationPassed = FALSE /\ verifyAttempts = 0
    /\ status = "running" /\ phase = "idle" /\ todo = NothingToDo /\ fresh = NothingFresh

At(n, ph) == status = "running" /\ node = n /\ phase = ph

\* The node returned: its update is checkpointed together with the next node.
Return(n) == node' = n /\ phase' = "idle" /\ todo' = NothingToDo /\ fresh' = NothingFresh

\* Another coder cycle unless the cap is reached or the budget is near.
RetryUnless(capped) == IF capped THEN {"finalize"} ELSE {"finalize", "debate"}

-----------------------------------------------------------------------------
(* debate *)

HandOver ==
    /\ At("debate", "idle")
    /\ currentDraft' \in Drafts
    /\ Return("applyPatches")
    /\ UNCHANGED <<disk, patchEnabled, bestDraft, finalAnswer, recordVars, patchFormatRetries,
                   verdictVars, status, historyVars>>

OutOfBudget ==
    /\ At("debate", "idle")
    /\ Return("finalize")
    /\ UNCHANGED <<disk, patchEnabled, draftVars, recordVars, patchFormatRetries, verdictVars,
                   status, historyVars>>

DebateThrows ==
    /\ LlmFaults /\ At("debate", "idle")
    /\ status' = "failed"
    /\ UNCHANGED <<disk, checkpointVars, localVars, historyVars>>

-----------------------------------------------------------------------------
(* applyPatches *)

\* Files whose pristine state an earlier round has recorded.
AlreadyHandled == {f \in Files : patchBackups[f] # Absent} \cup patchCreatedFiles

ApplyDisabled ==
    /\ At("applyPatches", "idle") /\ ~patchEnabled
    /\ Return("verify")
    /\ UNCHANGED <<disk, patchEnabled, draftVars, recordVars, patchFormatRetries, verdictVars,
                   status, historyVars>>

\* Mutated: counts down instead of up.
FormatFailureCountsDown ==
    /\ patchFormatRetries' = patchFormatRetries - 1
    /\ verificationPassed' = FALSE
    /\ \E n \in RetryUnless(patchFormatRetries' >= MaxPatchFormatRetries) : Return(n)
    /\ UNCHANGED <<disk, patchEnabled, draftVars, recordVars, verifyAttempts, status, historyVars>>

\* Back to the coder, or give up: backups taken by this very call are not returned.
FormatFailure ==
    /\ patchFormatRetries' = patchFormatRetries + 1
    /\ verificationPassed' = FALSE
    /\ \E n \in RetryUnless(patchFormatRetries' >= MaxPatchFormatRetries) : Return(n)
    /\ UNCHANGED <<disk, patchEnabled, draftVars, recordVars, verifyAttempts, status,
                   historyVars>>

NoBlocks ==
    /\ At("applyPatches", "idle") /\ patchEnabled /\ currentDraft = <<>>
    /\ FormatFailure

BeginApply ==
    /\ At("applyPatches", "idle") /\ patchEnabled /\ currentDraft # <<>>
    /\ phase' = "writing"
    /\ todo' = [todo EXCEPT !.blocks = currentDraft]
    /\ UNCHANGED <<disk, checkpointVars, status, fresh, historyVars>>

\* The block at the head of the queue and the file it resolves to.
Current == Head(todo.blocks)
Target == Resolve[Current.path]
Writable(p) == Resolve[p] \in Files \ Protected
BlockDone == todo' = [todo EXCEPT !.blocks = Tail(@)]

AtBlock == At("applyPatches", "writing") /\ todo.blocks # <<>>

\* Escapes the workspace, protected, or the original cannot be read.
SkipBlock ==
    /\ AtBlock
    /\ ~Writable(Current.path) \/ IoFaults
    /\ BlockDone
    /\ UNCHANGED <<disk, checkpointVars, status, phase, fresh, historyVars>>

\* Mutated: a later round takes its own snapshot.
RecordAlways(f) ==
    IF disk[f] = Absent THEN [fresh EXCEPT !.applied = @ \cup {f}, !.created = @ \cup {f}]
    ELSE [fresh EXCEPT !.applied = @ \cup {f}, !.backups[f] = Utf8[disk[f]]]

\* What is remembered of the file the block replaces; the set of handled files is
\* the one the node was entered with, not extended by this call.
Record(f) ==
    IF f \in AlreadyHandled THEN [fresh EXCEPT !.applied = @ \cup {f}]
    ELSE IF disk[f] = Absent
    THEN [fresh EXCEPT !.applied = @ \cup {f}, !.created = @ \cup {f}]
    ELSE [fresh EXCEPT !.applied = @ \cup {f}, !.backups[f] = Utf8[disk[f]]]

\* Mutated: the protected list is not consulted.
WriteBlockUnguarded ==
    /\ AtBlock /\ Target \in Files
    /\ disk' = [disk EXCEPT ![Target] = Current.content]
    /\ fresh' = Record(Target)
    /\ BlockDone
    /\ UNCHANGED <<checkpointVars, status, phase, historyVars>>

\* Mutated: a file an earlier round has written is not written again.
WriteBlockSkipsHandled ==
    /\ AtBlock /\ Writable(Current.path)
    /\ disk' = IF Target \in AlreadyHandled THEN disk
               ELSE [disk EXCEPT ![Target] = Current.content]
    /\ fresh' = Record(Target)
    /\ BlockDone
    /\ UNCHANGED <<checkpointVars, status, phase, historyVars>>

WriteBlock ==
    /\ AtBlock /\ Writable(Current.path)
    /\ disk' = [disk EXCEPT ![Target] = Current.content]
    /\ fresh' = Record(Target)
    /\ BlockDone
    /\ UNCHANGED <<checkpointVars, status, phase, historyVars>>

\* mkdir or writeFile rejects; the file may have been truncated by then.  The block
\* counts as skipped, so nothing is recorded.
WriteFails ==
    /\ IoFaults /\ AtBlock /\ Writable(Current.path)
    /\ disk' = [disk EXCEPT ![Target] = Torn]
    /\ BlockDone
    /\ UNCHANGED <<checkpointVars, status, phase, fresh, historyVars>>

AllWritten == At("applyPatches", "writing") /\ todo.blocks = <<>>

NothingApplied == AllWritten /\ fresh.applied = {} /\ FormatFailure

\* mergeDicts and concatArrays.
SomeApplied ==
    /\ AllWritten /\ fresh.applied # {}
    /\ patchApplied' = TRUE
    /\ patchBackups' = [f \in Files |-> IF fresh.backups[f] # Absent THEN fresh.backups[f]
                                        ELSE patchBackups[f]]
    /\ patchCreatedFiles' = patchCreatedFiles \cup fresh.created
    /\ Return("verify")
    /\ UNCHANGED <<disk, patchEnabled, draftVars, patchFormatRetries, verdictVars, status,
                   historyVars>>

-----------------------------------------------------------------------------
(* verify: the typecheck judges the tree as it stands; it may also not answer. *)

VerifyPasses ==
    /\ At("verify", "idle")
    /\ verifyAttempts' = verifyAttempts + 1
    /\ verificationPassed' = TRUE /\ bestDraft' = currentDraft
    /\ verifiedTree' = {disk}
    /\ Return("finalize")
    /\ UNCHANGED <<disk, patchEnabled, currentDraft, finalAnswer, recordVars, patchFormatRetries,
                   status, base>>

VerifyFails ==
    /\ At("verify", "idle")
    /\ verifyAttempts' = verifyAttempts + 1
    /\ verificationPassed' = FALSE
    /\ \E n \in RetryUnless(verifyAttempts' >= MaxVerifyAttempts) : Return(n)
    /\ UNCHANGED <<disk, patchEnabled, draftVars, recordVars, patchFormatRetries, status,
                   historyVars>>

-----------------------------------------------------------------------------
(* finalize *)

Answer == IF bestDraft # <<>> THEN bestDraft ELSE currentDraft

\* Mutated: a run that gave up on the patch format is not rolled back.
MustRollBackUnlessFormat == patchApplied /\ ~verificationPassed /\ patchFormatRetries = 0

\* Mutated: a verified run is rolled back too.
MustRollBackAlways == patchApplied

MustRollBack == patchApplied /\ ~verificationPassed

FinalizeDirectly ==
    /\ At("finalize", "idle") /\ ~MustRollBack
    /\ finalAnswer' = Answer
    /\ status' = "done" /\ Return("END")
    /\ UNCHANGED <<disk, patchEnabled, currentDraft, bestDraft, recordVars, patchFormatRetries,
                   verdictVars, historyVars>>

BeginRollback ==
    /\ At("finalize", "idle") /\ MustRollBack
    /\ phase' = "restoring"
    /\ todo' = [todo EXCEPT !.restore = {f \in Files : patchBackups[f] # Absent},
                            !.remove = patchCreatedFiles]
    /\ UNCHANGED <<disk, checkpointVars, status, fresh, historyVars>>

\* Every backup is restored before any created file is removed; a failure is
\* collected into the report and the loop goes on.
RestoreFile(f) ==
    /\ At("finalize", "restoring") /\ f \in todo.restore
    /\ disk' = [disk EXCEPT ![f] = patchBackups[f]]
    /\ todo' = [todo EXCEPT !.restore = @ \ {f}]
    /\ UNCHANGED <<checkpointVars, status, phase, fresh, historyVars>>

RestoreFails(f) ==
    /\ IoFaults /\ At("finalize", "restoring") /\ f \in todo.restore
    /\ disk' = [disk EXCEPT ![f] = Torn]
    /\ todo' = [todo EXCEPT !.restore = @ \ {f}]
    /\ UNCHANGED <<checkpointVars, status, phase, fresh, historyVars>>

RemoveFile(f) ==
    /\ At("finalize", "restoring") /\ todo.restore = {} /\ f \in todo.remove
    /\ disk' = [disk EXCEPT ![f] = Absent]
    /\ todo' = [todo EXCEPT !.remove = @ \ {f}]
    /\ UNCHANGED <<checkpointVars, status, phase, fresh, historyVars>>

RemoveFails(f) ==
    /\ IoFaults /\ At("finalize", "restoring") /\ todo.restore = {} /\ f \in todo.remove
    /\ todo' = [todo EXCEPT !.remove = @ \ {f}]
    /\ UNCHANGED <<disk, checkpointVars, status, phase, fresh, historyVars>>

EndRollback ==
    /\ At("finalize", "restoring") /\ todo.restore = {} /\ todo.remove = {}
    /\ finalAnswer' = Answer
    /\ status' = "done" /\ Return("END")
    /\ UNCHANGED <<disk, patchEnabled, currentDraft, bestDraft, recordVars, patchFormatRetries,
                   verdictVars, historyVars>>

-----------------------------------------------------------------------------
\* SIGINT (process.exit without the finally block) or a crash.
ProcessDies ==
    /\ status = "running" /\ phase \in CrashIn
    /\ status' = "dead"
    /\ UNCHANGED <<disk, checkpointVars, localVars, historyVars>>

Resume ==
    /\ status \in {"failed", "dead"}
    /\ status' = "running"
    /\ Return(node)
    /\ UNCHANGED <<disk, patchEnabled, draftVars, recordVars, patchFormatRetries, verdictVars,
                   historyVars>>

Finished == status = "done" /\ UNCHANGED vars

NodeStep ==
    \/ HandOver \/ OutOfBudget
    \/ ApplyDisabled \/ NoBlocks \/ BeginApply \/ SkipBlock \/ WriteBlock
    \/ NothingApplied \/ SomeApplied
    \/ VerifyPasses \/ VerifyFails
    \/ FinalizeDirectly \/ BeginRollback \/ EndRollback
    \/ \E f \in Files : RestoreFile(f) \/ RemoveFile(f)

Fault == WriteFails \/ \E f \in Files : RestoreFails(f) \/ RemoveFails(f)

Next == NodeStep \/ Fault \/ DebateThrows \/ ProcessDies \/ Resume \/ Finished

Spec == Init /\ [][Next]_vars

-----------------------------------------------------------------------------
(* What patch application promises. *)

TypeOK ==
    /\ disk \in [Files -> Contents \cup {Absent}] /\ base \in [Files -> Contents \cup {Absent}]
    /\ verifiedTree \subseteq [Files -> Contents \cup {Absent}]
    /\ node \in {"debate", "applyPatches", "verify", "finalize", "END"}
    /\ patchEnabled \in BOOLEAN
    /\ currentDraft \in Seq(Blocks) /\ bestDraft \in Seq(Blocks) /\ finalAnswer \in Seq(Blocks)
    /\ patchBackups \in [Files -> Contents \cup {Absent}] /\ patchCreatedFiles \subseteq Files
    /\ patchApplied \in BOOLEAN /\ patchFormatRetries \in Nat
    /\ verificationPassed \in BOOLEAN /\ verifyAttempts \in Nat
    /\ status \in {"running", "failed", "dead", "done"} /\ phase \in Phases
    /\ todo \in [blocks : Seq(Blocks), restore : SUBSET Files, remove : SUBSET Files]
    /\ fresh \in [applied : SUBSET Files, backups : [Files -> Contents \cup {Absent}],
                  created : SUBSET Files]

\* The tree rollbackPatches makes of the present one from the given records.
RolledBack(backups, created) ==
    [f \in Files |-> IF f \in created THEN Absent
                     ELSE IF backups[f] # Absent THEN backups[f] ELSE disk[f]]

(***************************************************************************)
(* Whenever no draft is being written, the records in the checkpoint undo  *)
(* everything the run has done to the workspace so far, over any number of *)
(* rounds, format failures, resumptions and interrupted rollbacks          *)
(* (apply-patches.ts:25 "Re-entries must not overwrite the first pristine  *)
(* backup", patch-blocks.ts:59).                                           *)
(***************************************************************************)
CheckpointUndoes == phase # "writing" => RolledBack(patchBackups, patchCreatedFiles) = base

(***************************************************************************)
(* The draft a run answers with is the draft whose blocks are on disk when *)
(* its changes were kept: no later or earlier round shows through under    *)
(* one of its files (verify.ts:39, finalize.ts:6).                         *)
(***************************************************************************)
KeptAnswerOnDisk ==
    status = "done" /\ patchApplied /\ verificationPassed =>
        \A i \in DOMAIN finalAnswer :
            Writable(finalAnswer[i].path) =>
                disk[Resolve[finalAnswer[i].path]] = finalAnswer[i].content

(***************************************************************************)
(* Every behaviour is one of GuardedWorkspace: protected files are never   *)
(* written, and a finished run leaves the tree it verified last or the     *)
(* tree it found (finalize.ts:1 "Failed guarded patch runs roll back here  *)
(* so the workspace is not left broken").                                  *)
(***************************************************************************)
Guarded ==
    INSTANCE GuardedWorkspace
    WITH tree <- disk, approved <- verifiedTree,
         outcome <- IF status # "done" THEN "open"
                    ELSE IF patchApplied /\ verificationPassed THEN "kept" ELSE "untouched"

ImplementsGuardedWorkspace == Guarded!Spec

(***************************************************************************)
(* Even with failing reads and writes and crashes at any step, changes are *)
(* kept only if the tree on disk is the very tree that was verified last.  *)
(***************************************************************************)
KeptTreeIsVerified ==
    status = "done" /\ patchApplied /\ verificationPassed => verifiedTree = {disk}

(***************************************************************************)
(* No fault and no interleaving gets a protected file written: neither the *)
(* blocks nor a rollback working from damaged records (patch-blocks.ts:18, *)
(* consts/patching.ts:7 "manifests the patch engine must never rewrite").  *)
(***************************************************************************)
ProtectedUntouched == \A f \in Protected : disk[f] = base[f]

(***************************************************************************)
(* patch-blocks.ts:117 "Failed guarded runs must leave the workspace as    *)
(* they found it": a finished run whose changes were not verified leaves   *)
(* the original tree.                                                      *)
(***************************************************************************)
UnverifiedRunLeavesTree == status = "done" /\ ~verificationPassed => disk = base

(***************************************************************************)
(* The same sentence for a run that ends with status "failed".             *)
(***************************************************************************)
FailedRunLeavesTree == status = "failed" => disk = base

=============================================================================
