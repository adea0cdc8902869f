---------------------------- MODULE PatchLoopProofs ----------------------------
(***************************************************************************)
(* Patch application guards the workspace, for any files, contents, drafts *)
(* and caps: what holds whatever fails, and what holds as long as reading  *)
(* and writing work.                                                       *)
(***************************************************************************)
EXTENDS PatchLoop, SequenceTheorems, TLAPS

Trees == [Files -> Contents \cup {Absent}]
Work == [blocks : Seq(Blocks), restore : SUBSET Files, remove : SUBSET Files]
Findings == [applied : SUBSET Files, backups : Trees, created : SUBSET Files]

-----------------------------------------------------------------------------
(* Types. *)

LEMMA DraftsTyped == Drafts \subseteq Seq(Blocks)
<1>1. \A n \in 0..MaxBlocks : n \in Nat
  BY LimitsAssumption
<1> QED
  BY <1>1, SeqDef DEF Drafts

LEMMA NothingTyped == NothingToDo \in Work /\ NothingFresh \in Findings
<1>1. <<>> \in Seq(Blocks)
  OBVIOUS
<1>2. NoBackups \in Trees
  BY DEF NoBackups, Trees
<1> QED
  BY <1>1, <1>2 DEF NothingToDo, NothingFresh, Work, Findings

LEMMA ReturnTyped ==
    ASSUME NEW n \in {"debate", "applyPatches", "verify", "finalize", "END"}, Return(n)
    PROVE  /\ node' \in {"debate", "applyPatches", "verify", "finalize", "END"}
           /\ phase' \in Phases /\ todo' \in Work /\ fresh' \in Findings
  BY NothingTyped DEF Return, Phases

\* The block at hand, and what is recorded of the file it replaces.
LEMMA BlockTyped ==
    ASSUME TypeOK, AtBlock
    PROVE  /\ Current \in Blocks
           /\ Target \in Files \cup {Outside}
           /\ [todo EXCEPT !.blocks = Tail(@)] \in Work
<1>1. todo.blocks \in Seq(Blocks) /\ todo.blocks # <<>>
  BY DEF TypeOK, AtBlock
<1>2. Head(todo.blocks) \in Blocks /\ Tail(todo.blocks) \in Seq(Blocks)
  BY <1>1
<1>3. Current \in Blocks
  BY <1>2 DEF Current
<1>4. Target \in Files \cup {Outside}
  BY <1>3, WorkspaceAssumption DEF Target, Blocks
<1>5. [todo EXCEPT !.blocks = Tail(@)] \in Work
  BY <1>2 DEF TypeOK, Work
<1> QED
  BY <1>3, <1>4, <1>5

LEMMA RecordTyped ==
    ASSUME TypeOK, NEW f \in Files
    PROVE  Record(f) \in Findings
<1>1. fresh \in Findings /\ disk[f] \in Contents \cup {Absent}
  BY DEF TypeOK, Findings, Trees
<1>2. disk[f] # Absent => Utf8[disk[f]] \in Contents \cup {Absent}
  BY <1>1, WorkspaceAssumption
<1>3. CASE f \in AlreadyHandled
  BY <1>1, <1>3 DEF Record, Findings
<1>4. CASE f \notin AlreadyHandled /\ disk[f] = Absent
  BY <1>1, <1>4 DEF Record, Findings
<1>5. CASE f \notin AlreadyHandled /\ disk[f] # Absent
  <2>1. [fresh.backups EXCEPT ![f] = Utf8[disk[f]]] \in Trees
    BY <1>1, <1>2, <1>5 DEF Findings, Trees
  <2> QED
    BY <1>1, <1>5, <2>1 DEF Record, Findings
<1> QED
  BY <1>3, <1>4, <1>5

LEMMA DiskTyped ==
    ASSUME TypeOK, NEW f, NEW c \in Contents \cup {Absent}
    PROVE  [disk EXCEPT ![f] = c] \in Trees
  BY DEF TypeOK, Trees

LEMMA FormatFailureTyped ==
    ASSUME TypeOK, FormatFailure
    PROVE  TypeOK'
<1>1. PICK n \in {"debate", "finalize"} : Return(n)
  BY DEF FormatFailure, RetryUnless
<1>2. /\ node' \in {"debate", "applyPatches", "verify", "finalize", "END"}
      /\ phase' \in Phases /\ todo' \in Work /\ fresh' \in Findings
  BY <1>1, ReturnTyped
<1>3. /\ patchFormatRetries' = patchFormatRetries + 1 /\ verificationPassed' \in BOOLEAN
      /\ UNCHANGED <<disk, patchEnabled, draftVars, recordVars, verifyAttempts, status, historyVars>>
  BY DEF FormatFailure
<1> QED
  BY <1>2, <1>3 DEF TypeOK, Work, Findings, Trees, draftVars, recordVars, historyVars

\* One lemma per phase of a round.
LEMMA DebateTyped ==
    ASSUME TypeOK, HandOver \/ OutOfBudget \/ DebateThrows
    PROVE  TypeOK'
<1> USE DEF TypeOK, Work, Findings, Trees, draftVars, recordVars, verdictVars, historyVars
<1>1. CASE HandOver
  BY <1>1, ReturnTyped, DraftsTyped DEF HandOver
<1>2. CASE OutOfBudget
  BY <1>2, ReturnTyped DEF OutOfBudget
<1>3. CASE DebateThrows
  BY <1>3 DEF DebateThrows, checkpointVars, localVars
<1> QED
  BY <1>1, <1>2, <1>3

LEMMA ApplyTyped ==
    ASSUME TypeOK,
           \/ ApplyDisabled \/ NoBlocks \/ BeginApply \/ SkipBlock \/ WriteBlock \/ WriteFails
           \/ NothingApplied \/ SomeApplied
    PROVE  TypeOK'
<1>1. CASE ApplyDisabled
  BY <1>1, ReturnTyped
  DEF ApplyDisabled, TypeOK, Work, Findings, Trees, draftVars, recordVars, verdictVars, historyVars
<1>2. CASE NoBlocks \/ NothingApplied
  BY <1>2, FormatFailureTyped DEF NoBlocks, NothingApplied
<1>3. CASE BeginApply
  <2>1. todo' \in Work
    BY <1>3 DEF BeginApply, TypeOK, Work
  <2> QED
    BY <1>3, <2>1
    DEF BeginApply, TypeOK, Work, Phases, checkpointVars, draftVars, recordVars, verdictVars, historyVars
<1>4. CASE SkipBlock
  <2>1. todo' \in Work
    BY <1>4, BlockTyped DEF SkipBlock, BlockDone
  <2> QED
    BY <1>4, <2>1
    DEF SkipBlock, TypeOK, Work, checkpointVars, draftVars, recordVars, verdictVars, historyVars
<1>5. CASE WriteBlock
  <2>1. todo' \in Work /\ Target \in Files /\ Current.content \in Contents
    BY <1>5, BlockTyped DEF WriteBlock, BlockDone, Writable, Target, Blocks
  <2>2. fresh' \in Findings /\ disk' \in Trees
    BY <1>5, <2>1, RecordTyped, DiskTyped DEF WriteBlock
  <2> QED
    BY <1>5, <2>1, <2>2
    DEF WriteBlock, TypeOK, Work, Findings, Trees, checkpointVars, draftVars, recordVars,
        verdictVars, historyVars
<1>6. CASE WriteFails
  <2>1. todo' \in Work /\ disk' \in Trees
    BY <1>6, BlockTyped, DiskTyped, WorkspaceAssumption DEF WriteFails, BlockDone
  <2> QED
    BY <1>6, <2>1
    DEF WriteFails, TypeOK, Work, Trees, checkpointVars, draftVars, recordVars, verdictVars, historyVars
<1>7. CASE SomeApplied
  <2>1. patchBackups' \in Trees /\ patchCreatedFiles' \subseteq Files
    BY <1>7 DEF SomeApplied, TypeOK, Trees
  <2> QED
    BY <1>7, <2>1, ReturnTyped
    DEF SomeApplied, TypeOK, Work, Findings, Trees, draftVars, verdictVars, historyVars
<1> QED
  BY <1>1, <1>2, <1>3, <1>4, <1>5, <1>6, <1>7

LEMMA JudgeTyped ==
    ASSUME TypeOK, VerifyPasses \/ VerifyFails
    PROVE  TypeOK'
<1> USE DEF TypeOK, Work, Findings, Trees, draftVars, recordVars, historyVars
<1>1. CASE VerifyPasses
  BY <1>1, ReturnTyped DEF VerifyPasses
<1>2. CASE VerifyFails
  <2>1. PICK n \in {"debate", "finalize"} : Return(n)
    BY <1>2 DEF VerifyFails, RetryUnless
  <2>2. /\ node' \in {"debate", "applyPatches", "verify", "finalize", "END"}
        /\ phase' \in Phases /\ todo' \in Work /\ fresh' \in Findings
    BY <2>1, ReturnTyped
  <2>3. /\ verifyAttempts' = verifyAttempts + 1 /\ verificationPassed' \in BOOLEAN
        /\ UNCHANGED <<disk, patchEnabled, draftVars, recordVars, patchFormatRetries, status,
                       historyVars>>
    BY <1>2 DEF VerifyFails
  <2> QED
    BY <2>2, <2>3
<1> QED
  BY <1>1, <1>2

LEMMA FinalizeTyped ==
    ASSUME TypeOK,
           \/ FinalizeDirectly \/ BeginRollback \/ EndRollback
           \/ \E f \in Files : RestoreFile(f) \/ RemoveFile(f) \/ RestoreFails(f) \/ RemoveFails(f)
    PROVE  TypeOK'
<1>1. Answer \in Seq(Blocks)
  BY DEF Answer, TypeOK
<1>2. CASE FinalizeDirectly \/ EndRollback
  BY <1>1, <1>2, ReturnTyped
  DEF FinalizeDirectly, EndRollback, TypeOK, Work, Findings, Trees, recordVars, verdictVars, historyVars
<1>3. ASSUME todo' \in Work, disk' \in Trees, phase' \in Phases,
             UNCHANGED <<checkpointVars, status, fresh, historyVars>>
      PROVE  TypeOK'
  BY <1>3 DEF TypeOK, Work, Trees, checkpointVars, draftVars, recordVars, verdictVars, historyVars
<1>4. CASE BeginRollback
  BY <1>3, <1>4 DEF BeginRollback, TypeOK, Work, Trees, Phases
<1>5. ASSUME NEW f \in Files, RestoreFile(f) \/ RemoveFile(f) \/ RestoreFails(f) \/ RemoveFails(f)
      PROVE  TypeOK'
  <2>1. todo' \in Work /\ phase' \in Phases
    <3>1. todo \in Work /\ phase \in Phases
      BY DEF TypeOK, Work
    <3>2. todo' = [todo EXCEPT !.restore = @ \ {f}] \/ todo' = [todo EXCEPT !.remove = @ \ {f}]
      BY <1>5 DEF RestoreFile, RemoveFile, RestoreFails, RemoveFails
    <3>3. phase' = phase
      BY <1>5 DEF RestoreFile, RemoveFile, RestoreFails, RemoveFails
    <3> QED
      BY <3>1, <3>2, <3>3 DEF Work
  <2>2. patchBackups[f] \in Contents \cup {Absent} /\ Torn \in Contents
    BY WorkspaceAssumption DEF TypeOK
  <2>3. disk' \in Trees
    BY <1>5, <2>2, DiskTyped DEF RestoreFile, RemoveFile, RestoreFails, RemoveFails, TypeOK, Trees
  <2> QED
    BY <1>3, <1>5, <2>1, <2>3 DEF RestoreFile, RemoveFile, RestoreFails, RemoveFails
<1> QED
  BY <1>2, <1>4, <1>5

\* The type invariant of patch application.
THEOREM PatchTyped == Spec => []TypeOK
<1>1. ASSUME Init PROVE TypeOK
  <2>1. /\ disk \in [Files -> Contents \cup {Absent}] /\ base = disk /\ verifiedTree = {}
        /\ patchBackups \in [Files -> Contents \cup {Absent}] /\ patchCreatedFiles = {}
    BY <1>1, WorkspaceAssumption DEF Init, NoBackups
  <2>2. <<>> \in Seq(Blocks)
    OBVIOUS
  <2>3. todo \in Work /\ fresh \in Findings
    BY <1>1, NothingTyped DEF Init
  <2> QED
    BY <1>1, <2>1, <2>2, <2>3 DEF Init, TypeOK, Work, Findings, Trees, Phases
<1>2. TypeOK /\ [Next]_vars => TypeOK'
  <2> SUFFICES ASSUME TypeOK, [Next]_vars PROVE TypeOK'
    OBVIOUS
  <2>1. CASE ProcessDies \/ Finished \/ UNCHANGED vars
    BY <2>1 DEF ProcessDies, Finished, vars, TypeOK, checkpointVars, draftVars, recordVars,
       verdictVars, localVars, historyVars
  <2>2. CASE Resume
    BY <2>2, ReturnTyped
    DEF Resume, TypeOK, Work, Findings, Trees, draftVars, recordVars, verdictVars, historyVars
  <2>3. CASE NodeStep \/ Fault \/ DebateThrows
    BY <2>3, DebateTyped, ApplyTyped, JudgeTyped, FinalizeTyped DEF NodeStep, Fault
  <2> QED
    BY <2>1, <2>2, <2>3 DEF Next
<1> QED
  BY <1>1, <1>2, PTL DEF Spec

-----------------------------------------------------------------------------
(* What holds whatever fails and wherever the process dies. *)

\* No record and no plan mentions a protected file.
GuardInv ==
    \A f \in Protected :
        /\ disk[f] = base[f]
        /\ patchBackups[f] = Absent /\ f \notin patchCreatedFiles
        /\ fresh.backups[f] = Absent /\ f \notin fresh.created
        /\ f \notin todo.restore /\ f \notin todo.remove

LEMMA NothingGuards ==
    /\ \A f \in Files : NothingFresh.backups[f] = Absent
    /\ \A f : f \notin NothingFresh.created /\ f \notin NothingFresh.applied
    /\ \A f : f \notin NothingToDo.restore /\ f \notin NothingToDo.remove
    /\ NothingToDo.blocks = <<>>
  BY DEF NothingFresh, NothingToDo, NoBackups

LEMMA GuardReturn ==
    ASSUME GuardInv, NEW n, Return(n),
           UNCHANGED <<disk, base, patchBackups, patchCreatedFiles>>
    PROVE  GuardInv'
<1>1. fresh' = NothingFresh /\ todo' = NothingToDo
  BY DEF Return
<1> QED
  BY <1>1, NothingGuards, WorkspaceAssumption DEF GuardInv

\* Recording one file leaves what is known of the others alone.
LEMMA RecordOne ==
    ASSUME TypeOK, NEW g \in Files, NEW f \in Files, f # g
    PROVE  /\ Record(g).backups[f] = fresh.backups[f]
           /\ f \in Record(g).created <=> f \in fresh.created
           /\ f \in Record(g).applied <=> f \in fresh.applied
<1>1. /\ fresh \in Findings /\ DOMAIN fresh.backups = Files
  BY DEF TypeOK, Findings, Trees
<1>2. CASE g \in AlreadyHandled
  BY <1>1, <1>2 DEF Record, Findings
<1>3. CASE g \notin AlreadyHandled /\ disk[g] = Absent
  BY <1>1, <1>3 DEF Record, Findings
<1>4. CASE g \notin AlreadyHandled /\ disk[g] # Absent
  BY <1>1, <1>4 DEF Record, Findings
<1> QED
  BY <1>2, <1>3, <1>4

LEMMA GuardStep ==
    ASSUME TypeOK, GuardInv, [Next]_vars
    PROVE  GuardInv'
<1>1. CASE UNCHANGED <<disk, base, patchBackups, patchCreatedFiles, fresh, todo>>
  BY <1>1 DEF GuardInv
<1>2. CASE NoBlocks \/ NothingApplied \/ VerifyFails
  <2>1. PICK n \in {"debate", "finalize"} : Return(n)
    BY <1>2 DEF NoBlocks, NothingApplied, FormatFailure, VerifyFails, RetryUnless
  <2> QED
    BY <1>2, <2>1, GuardReturn
    DEF NoBlocks, NothingApplied, FormatFailure, VerifyFails, recordVars, historyVars
<1>3. CASE \/ HandOver \/ OutOfBudget \/ ApplyDisabled \/ VerifyPasses
           \/ FinalizeDirectly \/ EndRollback \/ Resume
  <2>1. PICK n : Return(n)
    BY <1>3 DEF HandOver, OutOfBudget, ApplyDisabled, VerifyPasses, FinalizeDirectly, EndRollback, Resume
  <2> QED
    BY <1>3, <2>1, GuardReturn
    DEF HandOver, OutOfBudget, ApplyDisabled, VerifyPasses, FinalizeDirectly, EndRollback, Resume,
        recordVars, historyVars
<1>4. CASE BeginApply \/ SkipBlock
  <2>1. /\ UNCHANGED <<disk, base, patchBackups, patchCreatedFiles, fresh>>
        /\ todo'.restore = todo.restore /\ todo'.remove = todo.remove
    BY <1>4 DEF BeginApply, SkipBlock, BlockDone, TypeOK, checkpointVars, recordVars, historyVars
  <2> QED
    BY <2>1 DEF GuardInv
<1>5. CASE WriteBlock \/ WriteFails
  <2>1. /\ UNCHANGED <<base, patchBackups, patchCreatedFiles>>
        /\ todo'.restore = todo.restore /\ todo'.remove = todo.remove
        /\ Target \in Files \ Protected
    BY <1>5 DEF WriteBlock, WriteFails, BlockDone, Writable, Target, TypeOK, checkpointVars,
       recordVars, historyVars
  <2>2. \A f \in Protected : disk'[f] = disk[f]
    BY <1>5, <2>1, WorkspaceAssumption DEF WriteBlock, WriteFails, TypeOK
  <2>3. fresh' = fresh \/ fresh' = Record(Target)
    BY <1>5 DEF WriteBlock, WriteFails
  <2>4. \A f \in Protected : fresh'.backups[f] = Absent /\ f \notin fresh'.created
    BY <2>1, <2>3, RecordOne, WorkspaceAssumption DEF GuardInv
  <2> QED
    BY <2>1, <2>2, <2>4 DEF GuardInv
<1>6. CASE SomeApplied
  <2>1. fresh' = NothingFresh /\ todo' = NothingToDo
    BY <1>6 DEF SomeApplied, Return
  <2>2. \A f \in Protected : patchBackups'[f] = Absent /\ f \notin patchCreatedFiles'
    BY <1>6, WorkspaceAssumption DEF SomeApplied, GuardInv
  <2>3. UNCHANGED <<disk, base>>
    BY <1>6 DEF SomeApplied, historyVars
  <2> QED
    BY <2>1, <2>2, <2>3, NothingGuards, WorkspaceAssumption DEF GuardInv
<1>7. CASE BeginRollback
  BY <1>7, WorkspaceAssumption
  DEF BeginRollback, GuardInv, TypeOK, checkpointVars, recordVars, historyVars
<1>8. ASSUME NEW g \in Files, RestoreFile(g) \/ RemoveFile(g) \/ RestoreFails(g) \/ RemoveFails(g)
      PROVE  GuardInv'
  <2>1. /\ UNCHANGED <<base, patchBackups, patchCreatedFiles, fresh>>
        /\ todo'.restore \subseteq todo.restore /\ todo'.remove \subseteq todo.remove
    <3>1. todo' = [todo EXCEPT !.restore = @ \ {g}] \/ todo' = [todo EXCEPT !.remove = @ \ {g}]
      BY <1>8 DEF RestoreFile, RemoveFile, RestoreFails, RemoveFails
    <3>2. UNCHANGED <<base, patchBackups, patchCreatedFiles, fresh>>
      BY <1>8 DEF RestoreFile, RemoveFile, RestoreFails, RemoveFails, checkpointVars, recordVars,
         historyVars
    <3> QED
      BY <3>1, <3>2 DEF TypeOK
  <2>2. g \notin Protected
    BY <1>8 DEF RestoreFile, RemoveFile, RestoreFails, RemoveFails, GuardInv
  <2>3. \A f \in Protected : disk'[f] = disk[f]
    BY <1>8, <2>2, WorkspaceAssumption DEF RestoreFile, RemoveFile, RestoreFails, RemoveFails, TypeOK
  <2> QED
    BY <2>1, <2>3 DEF GuardInv
<1>9. CASE DebateThrows \/ ProcessDies \/ Finished \/ UNCHANGED vars
  BY <1>1, <1>9
  DEF DebateThrows, ProcessDies, Finished, vars, checkpointVars, recordVars, localVars, historyVars
<1> QED
  BY <1>2, <1>3, <1>4, <1>5, <1>6, <1>7, <1>8, <1>9 DEF Next, NodeStep, Fault

\* No draft, fault, crash or rollback ever writes a protected file.
THEOREM ProtectedNeverWritten == Spec => []ProtectedUntouched
<1>1. Init => GuardInv
  BY NothingGuards, WorkspaceAssumption DEF Init, GuardInv, NoBackups
<1>2. TypeOK /\ GuardInv /\ [Next]_vars => GuardInv'
  BY GuardStep
<1>3. GuardInv => ProtectedUntouched
  BY DEF GuardInv, ProtectedUntouched
<1> QED
  BY <1>1, <1>2, <1>3, PatchTyped, PTL DEF Spec

\* A verdict in favour is given on the tree as it stands, and the run then only ends.
KeptInv ==
    verificationPassed => /\ node \in {"finalize", "END"} /\ phase = "idle"
                          /\ verifiedTree = {disk}

LEMMA KeptStep ==
    ASSUME TypeOK, KeptInv, [Next]_vars
    PROVE  KeptInv'
<1>1. CASE NoBlocks \/ NothingApplied \/ VerifyFails
  <2>1. verificationPassed' = FALSE
    BY <1>1 DEF NoBlocks, NothingApplied, FormatFailure, VerifyFails
  <2> QED
    BY <2>1 DEF KeptInv
<1>2. CASE VerifyPasses
  BY <1>2 DEF VerifyPasses, Return, KeptInv
<1>3. CASE \/ HandOver \/ OutOfBudget \/ ApplyDisabled \/ BeginApply \/ SkipBlock \/ WriteBlock
           \/ WriteFails \/ SomeApplied \/ BeginRollback
           \/ \E f \in Files : RestoreFile(f) \/ RemoveFile(f) \/ RestoreFails(f) \/ RemoveFails(f)
  <2>1. ~verificationPassed
    BY <1>3 DEF HandOver, OutOfBudget, ApplyDisabled, BeginApply, SkipBlock, WriteBlock, WriteFails,
       SomeApplied, BeginRollback, RestoreFile, RemoveFile, RestoreFails, RemoveFails, KeptInv, At,
       AtBlock, AllWritten, MustRollBack
  <2>2. UNCHANGED verificationPassed
    BY <1>3 DEF HandOver, OutOfBudget, ApplyDisabled, BeginApply, SkipBlock, WriteBlock, WriteFails,
       SomeApplied, BeginRollback, RestoreFile, RemoveFile, RestoreFails, RemoveFails,
       checkpointVars, verdictVars
  <2> QED
    BY <2>1, <2>2 DEF KeptInv
<1>4. CASE FinalizeDirectly \/ EndRollback \/ Resume
  BY <1>4 DEF FinalizeDirectly, EndRollback, Resume, Return, KeptInv, verdictVars, historyVars
<1>5. CASE DebateThrows \/ ProcessDies \/ Finished \/ UNCHANGED vars
  BY <1>5 DEF DebateThrows, ProcessDies, Finished, vars, checkpointVars, verdictVars, localVars,
     historyVars, KeptInv
<1> QED
  BY <1>1, <1>2, <1>3, <1>4, <1>5 DEF Next, NodeStep, Fault

\* Whatever fails, changes are kept only on the tree that was verified last.
THEOREM KeptOnlyVerified == Spec => []KeptTreeIsVerified
<1>1. Init => KeptInv
  BY DEF Init, KeptInv
<1>2. TypeOK /\ KeptInv /\ [Next]_vars => KeptInv'
  BY KeptStep
<1>3. KeptInv => KeptTreeIsVerified
  BY DEF KeptInv, KeptTreeIsVerified
<1> QED
  BY <1>1, <1>2, <1>3, PatchTyped, PTL DEF Spec

-----------------------------------------------------------------------------
(* As long as reading and writing work, it undoes what it does not keep:   *)
(* PatchLoop implements GuardedWorkspace.                                  *)

\* The workspace holds text, files can be read and written, no two paths of a draft name
\* one file, and the process does not die inside applyPatches.
Reliable ==
    /\ \A c \in Contents : Utf8[c] = c
    /\ ~IoFaults /\ "writing" \notin CrashIn
    /\ \A p, q \in Paths : Resolve[p] = Resolve[q] /\ Resolve[p] \in Files => p = q

\* Where the process can be in the middle of what.
PhaseInv ==
    /\ phase = "writing" => node = "applyPatches" /\ status = "running" /\ patchEnabled
    /\ phase = "restoring" => node = "finalize" /\ patchApplied /\ ~verificationPassed
    /\ phase # "writing" => fresh = NothingFresh
    /\ patchApplied => patchEnabled
    /\ status = "done" => node = "END" /\ phase = "idle"

\* The blocks still to write are blocks of the draft, for files not written in this call.
DraftInv == \A i, j \in DOMAIN currentDraft : currentDraft[i].path = currentDraft[j].path => i = j

QueueInv ==
    phase = "writing" =>
        /\ \A i \in DOMAIN todo.blocks : \E j \in DOMAIN currentDraft : todo.blocks[i] = currentDraft[j]
        /\ \A i, j \in DOMAIN todo.blocks : todo.blocks[i].path = todo.blocks[j].path => i = j
        /\ \A i \in DOMAIN todo.blocks : Resolve[todo.blocks[i].path] \notin fresh.applied

\* A recorded file is recorded as it was; one that differs from what it was is recorded.
RecordedAt(f) ==
    /\ patchBackups[f] # Absent => patchBackups[f] = base[f] /\ f \notin patchCreatedFiles
    /\ f \in patchCreatedFiles => base[f] = Absent
    /\ f \in AlreadyHandled => patchApplied
    /\ fresh.backups[f] # Absent => fresh.backups[f] = base[f] /\ f \notin fresh.created
    /\ f \in fresh.created => base[f] = Absent
    /\ f \in fresh.created \/ fresh.backups[f] # Absent =>
           f \notin AlreadyHandled /\ f \in fresh.applied
    /\ f \in AlreadyHandled \/ f \in fresh.created \/ fresh.backups[f] # Absent \/ disk[f] = base[f]

RecordInv == \A f \in Files : RecordedAt(f)

\* A recorded file is as it was or still to be rolled back.
RollbackInv ==
    phase = "restoring" => \A f \in Files :
        /\ patchBackups[f] # Absent => f \in todo.restore \/ disk[f] = base[f]
        /\ f \in patchCreatedFiles => f \in todo.remove \/ disk[f] = base[f]
        /\ f \in todo.restore => patchBackups[f] # Absent
        /\ f \in todo.remove => f \in patchCreatedFiles

OutcomeInv == status = "done" => disk = base \/ (patchApplied /\ verificationPassed)

UndoInv == PhaseInv /\ DraftInv /\ QueueInv /\ RecordInv /\ RollbackInv /\ OutcomeInv

\* The draft under judgement is on disk, but for the blocks still to write.
OnDisk(b) == Writable(b.path) => disk[Resolve[b.path]] = b.content

AnswerInv ==
    /\ phase = "writing" => \A i \in DOMAIN currentDraft :
           OnDisk(currentDraft[i]) \/ \E j \in DOMAIN todo.blocks : todo.blocks[j] = currentDraft[i]
    /\ patchApplied /\ (node = "verify" \/ verificationPassed) =>
           \A i \in DOMAIN currentDraft : OnDisk(currentDraft[i])
    /\ verificationPassed => bestDraft = currentDraft
    /\ status = "done" /\ verificationPassed => finalAnswer = currentDraft

-----------------------------------------------------------------------------
(* The steps that return from a node, and those that do not. *)

Returns ==
    \/ HandOver \/ OutOfBudget \/ ApplyDisabled \/ NoBlocks \/ NothingApplied \/ SomeApplied
    \/ VerifyPasses \/ VerifyFails \/ FinalizeDirectly \/ EndRollback \/ Resume

LEMMA ReturnsClean ==
    ASSUME Returns
    PROVE  phase' = "idle" /\ fresh' = NothingFresh /\ UNCHANGED <<disk, base>>
<1>1. CASE NoBlocks \/ NothingApplied \/ VerifyFails
  <2>1. PICK n \in {"debate", "finalize"} : Return(n)
    BY <1>1 DEF NoBlocks, NothingApplied, FormatFailure, VerifyFails, RetryUnless
  <2> QED
    BY <1>1, <2>1 DEF Return, NoBlocks, NothingApplied, FormatFailure, VerifyFails, historyVars
<1>2. CASE \/ HandOver \/ OutOfBudget \/ ApplyDisabled \/ SomeApplied \/ VerifyPasses
           \/ FinalizeDirectly \/ EndRollback \/ Resume
  BY <1>2 DEF HandOver, OutOfBudget, ApplyDisabled, SomeApplied, VerifyPasses, FinalizeDirectly,
     EndRollback, Resume, Return, historyVars
<1> QED
  BY <1>1, <1>2 DEF Returns

\* With reliable files the only faults are model calls and crashes outside a draft.
LEMMA ReliableSteps ==
    ASSUME Reliable, [Next]_vars
    PROVE  \/ Returns \/ BeginApply \/ SkipBlock \/ WriteBlock \/ BeginRollback
           \/ \E f \in Files : RestoreFile(f) \/ RemoveFile(f)
           \/ DebateThrows \/ ProcessDies \/ UNCHANGED vars
  BY DEF Next, NodeStep, Fault, Finished, Returns, Reliable, WriteFails, RestoreFails, RemoveFails

LEMMA PhaseStep ==
    ASSUME Reliable, TypeOK, KeptInv, PhaseInv, [Next]_vars
    PROVE  PhaseInv'
<1>1. CASE Returns
  <2>1. phase' = "idle" /\ fresh' = NothingFresh
    BY <1>1, ReturnsClean
  <2>2. patchApplied' => patchEnabled'
    <3>1. CASE SomeApplied
      BY <3>1 DEF SomeApplied, AllWritten, At, PhaseInv
    <3>2. CASE ~SomeApplied
      BY <1>1, <3>2 DEF Returns, HandOver, OutOfBudget, ApplyDisabled, NoBlocks, NothingApplied,
         FormatFailure, VerifyPasses, VerifyFails, FinalizeDirectly, EndRollback, Resume, recordVars,
         PhaseInv
    <3> QED
      BY <3>1, <3>2
  <2>3. status' = "done" => node' = "END"
    <3>1. CASE FinalizeDirectly \/ EndRollback
      BY <3>1 DEF FinalizeDirectly, EndRollback, Return
    <3>2. CASE ~(FinalizeDirectly \/ EndRollback)
      BY <1>1, <3>2 DEF Returns, HandOver, OutOfBudget, ApplyDisabled, NoBlocks, NothingApplied,
         SomeApplied, FormatFailure, VerifyPasses, VerifyFails, Resume, At, AllWritten
    <3> QED
      BY <3>1, <3>2
  <2> QED
    BY <2>1, <2>2, <2>3 DEF PhaseInv
<1>2. CASE BeginApply \/ SkipBlock \/ WriteBlock
  BY <1>2 DEF BeginApply, SkipBlock, WriteBlock, AtBlock, At, checkpointVars, recordVars, PhaseInv
<1>3. CASE BeginRollback \/ \E f \in Files : RestoreFile(f) \/ RemoveFile(f)
  BY <1>3 DEF BeginRollback, RestoreFile, RemoveFile, MustRollBack, At, checkpointVars, recordVars,
     verdictVars, PhaseInv
<1>4. CASE DebateThrows \/ ProcessDies \/ UNCHANGED vars
  BY <1>4 DEF DebateThrows, ProcessDies, vars, At, checkpointVars, recordVars, verdictVars, localVars,
     PhaseInv, Reliable
<1> QED
  BY <1>1, <1>2, <1>3, <1>4, ReliableSteps

LEMMA DraftsDistinct ==
    ASSUME NEW d \in Drafts
    PROVE  \A i, j \in DOMAIN d : d[i].path = d[j].path => i = j
  BY DEF Drafts

LEMMA DraftStep ==
    ASSUME DraftInv, [Next]_vars
    PROVE  DraftInv'
<1>1. CASE HandOver
  BY <1>1, DraftsDistinct DEF HandOver, DraftInv
<1>2. CASE ~HandOver
  <2>1. UNCHANGED currentDraft
    BY <1>2 DEF Next, NodeStep, Fault, DebateThrows, ProcessDies, Resume, Finished, OutOfBudget,
       ApplyDisabled, NoBlocks, NothingApplied, FormatFailure, BeginApply, SkipBlock, WriteBlock,
       WriteFails, SomeApplied, VerifyPasses, VerifyFails, FinalizeDirectly, BeginRollback,
       EndRollback, RestoreFile, RemoveFile, RestoreFails, RemoveFails, vars, checkpointVars, draftVars
  <2> QED
    BY <2>1 DEF DraftInv
<1> QED
  BY <1>1, <1>2

\* Taking the head off the queue.
LEMMA QueueShrinks ==
    ASSUME Reliable, TypeOK, QueueInv, AtBlock, BlockDone, UNCHANGED currentDraft,
           fresh'.applied = fresh.applied \/ (fresh'.applied = fresh.applied \cup {Target} /\ Target \in Files)
    PROVE  QueueInv'
<1>1. todo.blocks \in Seq(Blocks) /\ todo.blocks # <<>> /\ todo'.blocks = Tail(todo.blocks)
  BY DEF TypeOK, AtBlock, BlockDone
<1>2. /\ DOMAIN todo.blocks = 1..Len(todo.blocks) /\ DOMAIN todo'.blocks = 1..(Len(todo.blocks) - 1)
      /\ Len(todo.blocks) \in Nat \ {0} /\ Current = todo.blocks[1]
      /\ \A i \in DOMAIN todo'.blocks : todo'.blocks[i] = todo.blocks[i + 1]
  BY <1>1 DEF Current
<1>3. \A i \in DOMAIN todo'.blocks : i + 1 \in DOMAIN todo.blocks /\ i + 1 # 1
  BY <1>2
<1>4. phase = "writing"
  BY DEF AtBlock, At
<1>5. \A i \in DOMAIN todo'.blocks : \E j \in DOMAIN currentDraft : todo'.blocks[i] = currentDraft[j]
  BY <1>2, <1>3, <1>4 DEF QueueInv
<1>6. ASSUME NEW i \in DOMAIN todo'.blocks, NEW j \in DOMAIN todo'.blocks,
             todo'.blocks[i].path = todo'.blocks[j].path
      PROVE  i = j
  <2>1. /\ i + 1 \in DOMAIN todo.blocks /\ j + 1 \in DOMAIN todo.blocks
        /\ todo.blocks[i + 1].path = todo.blocks[j + 1].path
    BY <1>2, <1>3, <1>6
  <2>2. i + 1 = j + 1
    BY <1>4, <2>1 DEF QueueInv
  <2> QED
    BY <1>2, <2>2
<1>7. ASSUME NEW i \in DOMAIN todo'.blocks
      PROVE  Resolve[todo'.blocks[i].path] \notin fresh'.applied
  <2> DEFINE k == i + 1
  <2>a. 1 \in DOMAIN todo.blocks /\ k \in DOMAIN todo.blocks /\ k # 1
    BY <1>2, <1>3
  <2>b. todo.blocks[1] \in Blocks /\ todo.blocks[k] \in Blocks
    BY <1>1, <2>a
  <2>c. todo.blocks[1].path # todo.blocks[k].path /\ Resolve[todo.blocks[k].path] \notin fresh.applied
    BY <1>4, <2>a DEF QueueInv
  <2>1. /\ todo.blocks[1].path \in Paths /\ todo.blocks[i + 1].path \in Paths
        /\ todo.blocks[1].path # todo.blocks[i + 1].path
        /\ Resolve[todo.blocks[i + 1].path] \notin fresh.applied
    BY <2>b, <2>c DEF Blocks
  <2>2. Target \in Files => Resolve[todo.blocks[i + 1].path] # Target
    BY <1>2, <2>1 DEF Reliable, Target
  <2> QED
    BY <1>2, <2>1, <2>2
<1>8. \A i \in DOMAIN todo'.blocks : Resolve[todo'.blocks[i].path] \notin fresh'.applied
  BY <1>7
<1> QED
  BY <1>5, <1>6, <1>8 DEF QueueInv

LEMMA QueueStep ==
    ASSUME Reliable, TypeOK, PhaseInv, DraftInv, QueueInv, [Next]_vars
    PROVE  QueueInv'
<1>1. CASE Returns
  BY <1>1, ReturnsClean DEF QueueInv
<1>2. CASE BeginApply
  <2>1. todo'.blocks = currentDraft /\ UNCHANGED <<currentDraft, fresh>> /\ fresh = NothingFresh
    BY <1>2 DEF BeginApply, TypeOK, checkpointVars, draftVars, At, PhaseInv
  <2> QED
    BY <2>1, NothingGuards DEF QueueInv, DraftInv
<1>3. CASE SkipBlock
  <2>1. AtBlock /\ BlockDone /\ UNCHANGED <<currentDraft, fresh>>
    BY <1>3 DEF SkipBlock, checkpointVars, draftVars
  <2> QED
    BY <2>1, QueueShrinks
<1>4. CASE WriteBlock
  <2>1. AtBlock /\ BlockDone /\ UNCHANGED currentDraft /\ Target \in Files
    BY <1>4 DEF WriteBlock, Writable, Target, checkpointVars, draftVars
  <2>2. fresh'.applied = fresh.applied \cup {Target}
    BY <1>4 DEF WriteBlock, Record, TypeOK
  <2> QED
    BY <2>1, <2>2, QueueShrinks
<1>5. CASE BeginRollback \/ \E f \in Files : RestoreFile(f) \/ RemoveFile(f)
  BY <1>5 DEF BeginRollback, RestoreFile, RemoveFile, At, QueueInv
<1>6. CASE DebateThrows \/ ProcessDies \/ UNCHANGED vars
  BY <1>6 DEF DebateThrows, ProcessDies, vars, checkpointVars, draftVars, localVars, QueueInv
<1> QED
  BY <1>1, <1>2, <1>3, <1>4, <1>5, <1>6, ReliableSteps

-----------------------------------------------------------------------------
(* The records. *)

LEMMA SameRecords ==
    ASSUME RecordInv,
           UNCHANGED <<disk, base, patchBackups, patchCreatedFiles, patchApplied, fresh>>
    PROVE  RecordInv'
  BY DEF RecordInv, RecordedAt, AlreadyHandled

\* Between two rounds whatever differs from the original tree is recorded.
LEMMA RecordsComplete ==
    ASSUME RecordInv, NEW f \in Files, fresh.backups[f] = Absent, f \notin fresh.created
    PROVE  f \in AlreadyHandled \/ disk[f] = base[f]
  BY DEF RecordInv, RecordedAt

LEMMA RecordWrite ==
    ASSUME Reliable, TypeOK, QueueInv, RecordInv, WriteBlock
    PROVE  RecordInv'
<1>1. /\ Target \in Files /\ phase = "writing" /\ todo.blocks # <<>> /\ todo.blocks \in Seq(Blocks)
      /\ UNCHANGED <<base, patchBackups, patchCreatedFiles, patchApplied>>
      /\ fresh' = Record(Target)
  BY DEF WriteBlock, Writable, Target, AtBlock, At, TypeOK, checkpointVars, recordVars, historyVars
<1>2. Target \notin fresh.applied
  <2>1. 1 \in DOMAIN todo.blocks /\ Current = todo.blocks[1]
    BY <1>1 DEF Current
  <2> QED
    BY <1>1, <2>1 DEF QueueInv, Target
<1>3. AlreadyHandled' = AlreadyHandled
  BY <1>1 DEF AlreadyHandled
<1>4. ASSUME NEW f \in Files, f # Target PROVE RecordedAt(f)'
  <2>1. disk'[f] = disk[f]
    BY <1>4 DEF WriteBlock, TypeOK
  <2>2. /\ fresh'.backups[f] = fresh.backups[f]
        /\ f \in fresh'.created <=> f \in fresh.created
        /\ f \in fresh'.applied <=> f \in fresh.applied
    BY <1>1, <1>4, RecordOne
  <2> QED
    BY <1>1, <1>3, <1>4, <2>1, <2>2 DEF RecordInv, RecordedAt
<1>5. ASSUME NEW f, f = Target PROVE RecordedAt(f)'
  <2>1. /\ f \in Files /\ fresh.backups[f] = Absent /\ f \notin fresh.created
        /\ f \in AlreadyHandled \/ disk[f] = base[f]
    BY <1>1, <1>2, <1>5 DEF RecordInv, RecordedAt
  <2>2. /\ fresh \in Findings /\ disk[f] \in Contents \cup {Absent}
    BY <2>1 DEF TypeOK, Findings, Trees
  <2>3. CASE f \in AlreadyHandled
    <3>1. fresh'.backups[f] = Absent /\ f \notin fresh'.created
      BY <1>1, <1>5, <2>1, <2>2, <2>3 DEF Record, Findings
    <3> QED
      BY <1>1, <1>3, <2>1, <2>3, <3>1 DEF RecordInv, RecordedAt
  <2>4. CASE f \notin AlreadyHandled /\ disk[f] = Absent
    <3>1. fresh'.backups[f] = Absent /\ f \in fresh'.created /\ f \in fresh'.applied
      BY <1>1, <1>5, <2>1, <2>2, <2>4 DEF Record, Findings
    <3> QED
      BY <1>1, <1>3, <2>1, <2>4, <3>1 DEF RecordInv, RecordedAt
  <2>5. CASE f \notin AlreadyHandled /\ disk[f] # Absent
    <3>1. fresh'.backups[f] = base[f] /\ f \notin fresh'.created /\ f \in fresh'.applied
      BY <1>1, <1>5, <2>1, <2>2, <2>5 DEF Record, Findings, Trees, Reliable
    <3>2. base[f] # Absent
      BY <2>1, <2>5
    <3> QED
      BY <1>1, <1>3, <2>1, <2>5, <3>1, <3>2 DEF RecordInv, RecordedAt
  <2> QED
    BY <2>3, <2>4, <2>5
<1> QED
  BY <1>4, <1>5 DEF RecordInv

LEMMA RecordMerge ==
    ASSUME TypeOK, RecordInv, SomeApplied
    PROVE  RecordInv'
<1>1. /\ UNCHANGED <<disk, base>> /\ fresh' = NothingFresh /\ patchApplied' = TRUE
      /\ patchCreatedFiles' = patchCreatedFiles \cup fresh.created
  BY DEF SomeApplied, Return, historyVars
<1>2. ASSUME NEW f \in Files PROVE RecordedAt(f)'
  <2>1. patchBackups'[f] = IF fresh.backups[f] # Absent THEN fresh.backups[f] ELSE patchBackups[f]
    BY DEF SomeApplied
  <2>2. fresh'.backups[f] = Absent /\ f \notin fresh'.created
    BY <1>1, NothingGuards
  <2>3. f \in AlreadyHandled <=> patchBackups[f] # Absent \/ f \in patchCreatedFiles
    BY DEF AlreadyHandled
  <2>4. (f \in AlreadyHandled)' <=> patchBackups'[f] # Absent \/ f \in patchCreatedFiles'
    BY DEF AlreadyHandled
  <2> QED
    BY <1>1, <2>1, <2>2, <2>3, <2>4 DEF RecordInv, RecordedAt
<1> QED
  BY <1>2 DEF RecordInv

LEMMA RecordStep ==
    ASSUME Reliable, TypeOK, PhaseInv, QueueInv, RecordInv, RollbackInv, [Next]_vars
    PROVE  RecordInv'
<1>1. CASE NothingApplied
  <2>1. fresh.applied = {} /\ fresh' = NothingFresh /\ UNCHANGED <<disk, base>>
    BY <1>1, ReturnsClean DEF NothingApplied, Returns
  <2>2. UNCHANGED <<patchBackups, patchCreatedFiles, patchApplied>>
    BY <1>1 DEF NothingApplied, FormatFailure, recordVars
  <2> QED
    BY <2>1, <2>2, NothingGuards DEF RecordInv, RecordedAt, AlreadyHandled
<1>2. CASE SomeApplied
  BY <1>2, RecordMerge
<1>3. CASE Returns /\ ~NothingApplied /\ ~SomeApplied
  <2>1. phase # "writing"
    BY <1>3 DEF Returns, HandOver, OutOfBudget, ApplyDisabled, NoBlocks, VerifyPasses, VerifyFails,
       FinalizeDirectly, EndRollback, Resume, At, PhaseInv
  <2>2. UNCHANGED <<disk, base, fresh>>
    BY <1>3, <2>1, ReturnsClean DEF PhaseInv
  <2>3. UNCHANGED <<patchBackups, patchCreatedFiles, patchApplied>>
    BY <1>3 DEF Returns, HandOver, OutOfBudget, ApplyDisabled, NoBlocks, FormatFailure,
       VerifyPasses, VerifyFails, FinalizeDirectly, EndRollback, Resume, recordVars
  <2> QED
    BY <2>2, <2>3, SameRecords
<1>4. CASE WriteBlock
  BY <1>4, RecordWrite
<1>5. CASE BeginApply \/ SkipBlock \/ BeginRollback
  BY <1>5, SameRecords DEF BeginApply, SkipBlock, BeginRollback, checkpointVars, recordVars, historyVars
<1>6. ASSUME NEW f \in Files, RestoreFile(f) \/ RemoveFile(f) PROVE RecordInv'
  <2>1. /\ UNCHANGED <<base, patchBackups, patchCreatedFiles, patchApplied, fresh>>
        /\ \A g \in Files : g # f => disk'[g] = disk[g]
    BY <1>6 DEF RestoreFile, RemoveFile, TypeOK, checkpointVars, recordVars, historyVars
  <2>2. f \in AlreadyHandled
    BY <1>6 DEF RestoreFile, RemoveFile, At, RollbackInv, AlreadyHandled
  <2>3. AlreadyHandled' = AlreadyHandled
    BY <2>1 DEF AlreadyHandled
  <2> QED
    BY <2>1, <2>2, <2>3 DEF RecordInv, RecordedAt
<1>7. CASE DebateThrows \/ ProcessDies \/ UNCHANGED vars
  BY <1>7, SameRecords DEF DebateThrows, ProcessDies, vars, checkpointVars, recordVars, localVars, historyVars
<1> QED
  BY <1>1, <1>2, <1>3, <1>4, <1>5, <1>6, <1>7, ReliableSteps

LEMMA RollbackStep ==
    ASSUME Reliable, TypeOK, PhaseInv, RecordInv, RollbackInv, [Next]_vars
    PROVE  RollbackInv'
<1>1. CASE Returns
  BY <1>1, ReturnsClean DEF RollbackInv
<1>2. CASE BeginApply \/ SkipBlock \/ WriteBlock
  BY <1>2 DEF BeginApply, SkipBlock, WriteBlock, AtBlock, At, RollbackInv
<1>3. CASE BeginRollback
  <2>1. /\ todo'.restore = {f \in Files : patchBackups[f] # Absent} /\ todo'.remove = patchCreatedFiles
        /\ UNCHANGED <<patchBackups, patchCreatedFiles>>
    BY <1>3 DEF BeginRollback, TypeOK, checkpointVars, recordVars
  <2> QED
    BY <2>1 DEF RollbackInv
<1>4. ASSUME NEW f \in Files, RestoreFile(f) \/ RemoveFile(f) PROVE RollbackInv'
  <2>1. /\ UNCHANGED <<base, patchBackups, patchCreatedFiles>> /\ phase = "restoring"
        /\ \A g \in Files : g # f => disk'[g] = disk[g]
    BY <1>4 DEF RestoreFile, RemoveFile, At, TypeOK, checkpointVars, recordVars, historyVars
  <2>2. disk'[f] = base[f]
    BY <1>4, <2>1 DEF RestoreFile, RemoveFile, TypeOK, RollbackInv, RecordInv, RecordedAt
  <2>3. /\ todo'.restore \subseteq todo.restore /\ \A g \in todo.restore : g # f => g \in todo'.restore
        /\ todo'.remove \subseteq todo.remove /\ \A g \in todo.remove : g # f => g \in todo'.remove
    <3>1. todo' = [todo EXCEPT !.restore = @ \ {f}] \/ todo' = [todo EXCEPT !.remove = @ \ {f}]
      BY <1>4 DEF RestoreFile, RemoveFile
    <3> QED
      BY <3>1 DEF TypeOK
  <2> QED
    BY <2>1, <2>2, <2>3 DEF RollbackInv
<1>5. CASE DebateThrows \/ ProcessDies \/ UNCHANGED vars
  BY <1>5 DEF DebateThrows, ProcessDies, vars, checkpointVars, recordVars, localVars, historyVars, RollbackInv
<1> QED
  BY <1>1, <1>2, <1>3, <1>4, <1>5, ReliableSteps

\* A run that has nothing to roll back, or has rolled it back, is on the original tree.
LEMMA TreesEqual ==
    ASSUME TypeOK, \A f \in Files : disk[f] = base[f]
    PROVE  disk = base
  BY DEF TypeOK

LEMMA EndTree ==
    ASSUME TypeOK, PhaseInv, RecordInv, RollbackInv,
           (FinalizeDirectly /\ ~patchApplied) \/ EndRollback
    PROVE  disk = base
<1>1. phase # "writing" /\ fresh = NothingFresh
  BY DEF FinalizeDirectly, EndRollback, At, PhaseInv
<1>2. ASSUME NEW f \in Files PROVE disk[f] = base[f]
  <2>1. f \in AlreadyHandled \/ disk[f] = base[f]
    BY <1>1, NothingGuards, RecordsComplete
  <2>2. CASE ~patchApplied
    BY <2>1, <2>2 DEF RecordInv, RecordedAt
  <2>3. CASE EndRollback
    BY <2>1, <2>3 DEF EndRollback, At, RollbackInv, AlreadyHandled
  <2> QED
    BY <2>2, <2>3
<1> QED
  BY <1>2, TreesEqual

\* Only the two ends of finalize finish a run.
LEMMA OnlyFinalizeEnds ==
    ASSUME [Next]_vars, status' = "done", status # "done"
    PROVE  FinalizeDirectly \/ EndRollback
  BY DEF Next, NodeStep, Fault, DebateThrows, ProcessDies, Resume, Finished, HandOver, OutOfBudget,
     ApplyDisabled, NoBlocks, NothingApplied, FormatFailure, BeginApply, SkipBlock, WriteBlock,
     WriteFails, SomeApplied, VerifyPasses, VerifyFails, BeginRollback, RestoreFile, RemoveFile,
     RestoreFails, RemoveFails, vars

LEMMA DoneStays ==
    ASSUME [Next]_vars, status = "done"
    PROVE  UNCHANGED vars
  BY DEF Next, NodeStep, Fault, DebateThrows, ProcessDies, Resume, Finished, HandOver, OutOfBudget,
     ApplyDisabled, NoBlocks, NothingApplied, AllWritten, BeginApply, SkipBlock, WriteBlock,
     WriteFails, AtBlock, SomeApplied, VerifyPasses, VerifyFails, FinalizeDirectly, BeginRollback,
     EndRollback, RestoreFile, RemoveFile, RestoreFails, RemoveFails, At

LEMMA OutcomeStep ==
    ASSUME TypeOK, PhaseInv, RecordInv, RollbackInv, OutcomeInv, [Next]_vars
    PROVE  OutcomeInv'
<1>1. CASE status' # "done"
  BY <1>1 DEF OutcomeInv
<1>2. CASE status = "done"
  BY <1>2, DoneStays DEF OutcomeInv, vars, checkpointVars, recordVars, verdictVars, historyVars
<1>3. CASE status' = "done" /\ status # "done"
  <2>1. FinalizeDirectly \/ EndRollback
    BY <1>3, OnlyFinalizeEnds
  <2>2. UNCHANGED <<disk, base, patchApplied, verificationPassed>>
    BY <2>1 DEF FinalizeDirectly, EndRollback, recordVars, verdictVars, historyVars
  <2>3. (patchApplied /\ verificationPassed) \/ disk = base
    BY <2>1, EndTree DEF FinalizeDirectly, MustRollBack
  <2> QED
    BY <2>2, <2>3 DEF OutcomeInv
<1> QED
  BY <1>1, <1>2, <1>3

LEMMA UndoInit == Init => UndoInv
<1> SUFFICES ASSUME Init PROVE UndoInv
  OBVIOUS
<1>1. \A f \in Files : fresh.backups[f] = Absent /\ f \notin fresh.created /\ f \notin AlreadyHandled
  BY NothingGuards DEF Init, AlreadyHandled, NoBackups
<1>2. \A f \in Files : patchBackups[f] = Absent /\ f \notin patchCreatedFiles /\ disk[f] = base[f]
  BY DEF Init, NoBackups
<1>3. RecordInv
  BY <1>1, <1>2 DEF RecordInv, RecordedAt
<1>4. PhaseInv /\ DraftInv /\ QueueInv /\ RollbackInv /\ OutcomeInv
  BY DEF Init, PhaseInv, DraftInv, QueueInv, RollbackInv, OutcomeInv
<1> QED
  BY <1>3, <1>4 DEF UndoInv

LEMMA UndoInvariant ==
    ASSUME Reliable
    PROVE  Spec => [](TypeOK /\ GuardInv /\ KeptInv /\ UndoInv)
<1>1. Init => GuardInv /\ KeptInv
  BY NothingGuards, WorkspaceAssumption DEF Init, GuardInv, NoBackups, KeptInv
<1>2. TypeOK /\ GuardInv /\ KeptInv /\ UndoInv /\ [Next]_vars => GuardInv' /\ KeptInv' /\ UndoInv'
  BY Reliable, GuardStep, KeptStep, PhaseStep, DraftStep, QueueStep, RecordStep, RollbackStep, OutcomeStep
  DEF UndoInv
<1> QED
  BY <1>1, <1>2, UndoInit, PatchTyped, PTL DEF Spec

\* Outside a draft the records in the checkpoint undo all the run has done so far.
THEOREM CheckpointAlwaysUndoes ==
    ASSUME Reliable
    PROVE  Spec => []CheckpointUndoes
<1>1. ASSUME TypeOK, UndoInv PROVE CheckpointUndoes
  <2> SUFFICES ASSUME phase # "writing" PROVE RolledBack(patchBackups, patchCreatedFiles) = base
    BY DEF CheckpointUndoes
  <2>1. RecordInv /\ fresh = NothingFresh
    BY <1>1 DEF UndoInv, PhaseInv
  <2>2. ASSUME NEW f \in Files PROVE RolledBack(patchBackups, patchCreatedFiles)[f] = base[f]
    <3>1. f \in AlreadyHandled \/ disk[f] = base[f]
      BY <2>1, NothingGuards, RecordsComplete
    <3> QED
      BY <2>1, <3>1 DEF RecordInv, RecordedAt, RolledBack, AlreadyHandled
  <2> QED
    BY <1>1, <2>2 DEF TypeOK, RolledBack
<1> QED
  BY <1>1, Reliable, UndoInvariant, PTL

-----------------------------------------------------------------------------
(* The answer. *)

LEMMA OnDiskSame ==
    ASSUME NEW b, disk' = disk, OnDisk(b)
    PROVE  OnDisk(b)'
  BY DEF OnDisk

LEMMA AnswerStep ==
    ASSUME Reliable, TypeOK, KeptInv, PhaseInv, DraftInv, QueueInv, AnswerInv, [Next]_vars
    PROVE  AnswerInv'
<1>1. CASE HandOver \/ OutOfBudget \/ ApplyDisabled \/ NoBlocks \/ NothingApplied \/ VerifyFails
  <2>1. phase' = "idle" /\ status' # "done"
    BY <1>1, ReturnsClean DEF Returns, HandOver, OutOfBudget, ApplyDisabled, NoBlocks, NothingApplied,
       AllWritten, FormatFailure, VerifyFails, At
  <2>2. ~verificationPassed'
    BY <1>1 DEF HandOver, OutOfBudget, ApplyDisabled, NoBlocks, NothingApplied, FormatFailure,
       VerifyFails, At, KeptInv, verdictVars
  <2>3. ~(patchApplied' /\ node' = "verify")
    <3>1. CASE ApplyDisabled
      BY <3>1 DEF ApplyDisabled, PhaseInv, recordVars
    <3>2. CASE NoBlocks \/ NothingApplied \/ VerifyFails
      <4>1. PICK n \in {"debate", "finalize"} : Return(n)
        BY <3>2 DEF NoBlocks, NothingApplied, FormatFailure, VerifyFails, RetryUnless
      <4> QED
        BY <4>1 DEF Return
    <3>3. CASE HandOver \/ OutOfBudget
      BY <3>3 DEF HandOver, OutOfBudget, Return
    <3> QED
      BY <1>1, <3>1, <3>2, <3>3
  <2> QED
    BY <2>1, <2>2, <2>3 DEF AnswerInv
<1>2. CASE BeginApply
  <2>1. /\ todo'.blocks = currentDraft /\ currentDraft' = currentDraft /\ ~verificationPassed'
        /\ node' # "verify"
    BY <1>2 DEF BeginApply, TypeOK, KeptInv, At, checkpointVars, draftVars, verdictVars
  <2> QED
    BY <2>1 DEF AnswerInv
<1>3. CASE SkipBlock \/ WriteBlock
  <2>1. /\ AtBlock /\ BlockDone /\ currentDraft' = currentDraft /\ phase' = "writing"
        /\ ~verificationPassed' /\ node' # "verify"
    BY <1>3 DEF SkipBlock, WriteBlock, AtBlock, At, KeptInv, checkpointVars, draftVars, verdictVars
  <2>2. /\ todo.blocks \in Seq(Blocks) /\ todo.blocks # <<>> /\ todo'.blocks = Tail(todo.blocks)
        /\ phase = "writing"
    BY <2>1 DEF TypeOK, AtBlock, At, BlockDone
  <2>3. /\ DOMAIN todo.blocks = 1..Len(todo.blocks) /\ DOMAIN todo'.blocks = 1..(Len(todo.blocks) - 1)
        /\ Len(todo.blocks) \in Nat \ {0} /\ Current = todo.blocks[1]
        /\ \A i \in DOMAIN todo'.blocks : todo'.blocks[i] = todo.blocks[i + 1]
    BY <2>2 DEF Current
  <2>4. ASSUME NEW i \in DOMAIN currentDraft
        PROVE  OnDisk(currentDraft[i])' \/ \E j \in DOMAIN todo'.blocks : todo'.blocks[j] = currentDraft[i]
    <3> DEFINE b == currentDraft[i]
    <3>1. b \in Blocks /\ Current \in Blocks
      BY <2>1, BlockTyped DEF TypeOK
    <3>2. PICK k \in DOMAIN currentDraft : Current = currentDraft[k]
      BY <2>2, <2>3 DEF QueueInv
    <3>3. CASE b = Current
      <4>1. CASE WriteBlock
        BY <2>1, <3>1, <3>3, <4>1 DEF WriteBlock, OnDisk, Writable, Target, TypeOK
      <4>2. CASE SkipBlock
        BY <2>1, <3>3, <4>2 DEF SkipBlock, OnDisk, Writable, Reliable
      <4> QED
        BY <1>3, <4>1, <4>2
    <3>4. CASE b # Current /\ OnDisk(b)
      <4>1. b.path # Current.path
        BY <3>2, <3>4 DEF DraftInv
      <4>2. Resolve[b.path] \in Files => Resolve[b.path] # Target
        BY <3>1, <4>1 DEF Reliable, Target, Blocks
      <4>3. CASE WriteBlock
        BY <2>1, <3>4, <4>2, <4>3 DEF WriteBlock, OnDisk, Writable, TypeOK
      <4>4. CASE SkipBlock
        BY <2>1, <3>4, <4>4 DEF SkipBlock, OnDisk, Writable
      <4> QED
        BY <1>3, <4>3, <4>4
    <3>5. CASE b # Current /\ ~OnDisk(b)
      <4>1. PICK j \in DOMAIN todo.blocks : todo.blocks[j] = b
        BY <2>2, <3>5 DEF AnswerInv
      <4>2. j # 1
        BY <2>3, <3>5, <4>1
      <4>3. j - 1 \in DOMAIN todo'.blocks /\ todo'.blocks[j - 1] = b
        BY <2>3, <4>1, <4>2
      <4> QED
        BY <4>3
    <3> QED
      BY <3>3, <3>4, <3>5
  <2> QED
    BY <2>1, <2>4 DEF AnswerInv
<1>4. CASE SomeApplied
  <2>1. /\ phase = "writing" /\ todo.blocks = <<>> /\ ~verificationPassed' /\ status' # "done"
        /\ phase' = "idle" /\ UNCHANGED <<disk, currentDraft>>
    BY <1>4 DEF SomeApplied, AllWritten, At, KeptInv, Return, draftVars, verdictVars
  <2>2. \A i \in DOMAIN currentDraft : OnDisk(currentDraft[i])
    BY <2>1 DEF AnswerInv
  <2> QED
    BY <2>1, <2>2 DEF AnswerInv, OnDisk
<1>5. CASE VerifyPasses
  <2>1. /\ node = "verify" /\ phase' = "idle" /\ status' # "done" /\ bestDraft' = currentDraft
        /\ UNCHANGED <<disk, currentDraft, patchApplied>>
    BY <1>5 DEF VerifyPasses, At, Return, recordVars
  <2>2. patchApplied => \A i \in DOMAIN currentDraft : OnDisk(currentDraft[i])
    BY <2>1 DEF AnswerInv
  <2> QED
    BY <2>1, <2>2 DEF AnswerInv, OnDisk
<1>6. CASE FinalizeDirectly \/ EndRollback
  <2>1. /\ phase' = "idle" /\ node' = "END" /\ finalAnswer' = Answer
        /\ UNCHANGED <<disk, currentDraft, bestDraft, patchApplied, verificationPassed>>
    BY <1>6 DEF FinalizeDirectly, EndRollback, Return, recordVars, verdictVars
  <2>2. verificationPassed => Answer = currentDraft
    BY DEF AnswerInv, Answer
  <2> QED
    BY <2>1, <2>2 DEF AnswerInv, OnDisk
<1>7. CASE BeginRollback \/ \E f \in Files : RestoreFile(f) \/ RemoveFile(f)
  <2>1. phase' = "restoring" /\ node' = "finalize" /\ status' # "done" /\ ~verificationPassed'
    BY <1>7 DEF BeginRollback, RestoreFile, RemoveFile, At, MustRollBack, KeptInv, checkpointVars, verdictVars
  <2> QED
    BY <2>1 DEF AnswerInv
<1>8. CASE Resume
  <2>1. /\ phase' = "idle" /\ status' = "running" /\ node' = node
        /\ UNCHANGED <<disk, currentDraft, bestDraft, patchApplied, verificationPassed>>
    BY <1>8 DEF Resume, Return, draftVars, recordVars, verdictVars
  <2> QED
    BY <2>1 DEF AnswerInv, OnDisk
<1>9. CASE DebateThrows \/ ProcessDies \/ UNCHANGED vars
  BY <1>9 DEF DebateThrows, ProcessDies, vars, checkpointVars, draftVars, recordVars, verdictVars,
     localVars, historyVars, AnswerInv, OnDisk
<1> QED
  BY <1>1, <1>2, <1>3, <1>4, <1>5, <1>6, <1>7, <1>8, <1>9, ReliableSteps DEF Returns

\* The draft a run answers with is the draft on disk when its changes are kept.
THEOREM KeptAnswersOnDisk ==
    ASSUME Reliable
    PROVE  Spec => []KeptAnswerOnDisk
<1>1. Init => AnswerInv
  BY DEF Init, AnswerInv
<1>2. TypeOK /\ KeptInv /\ UndoInv /\ AnswerInv /\ [Next]_vars => AnswerInv'
  BY Reliable, AnswerStep DEF UndoInv
<1>3. AnswerInv => KeptAnswerOnDisk
  BY DEF AnswerInv, KeptAnswerOnDisk, OnDisk
<1> QED
  BY <1>1, <1>2, <1>3, Reliable, UndoInvariant, PTL DEF Spec

-----------------------------------------------------------------------------
(* The refinement. *)

LEMMA AbstractWrite ==
    ASSUME NEW f \in Files, f \notin Protected, NEW c \in Contents \cup {Absent},
           disk' = [disk EXCEPT ![f] = c], status # "done", status' # "done",
           UNCHANGED <<base, verifiedTree>>
    PROVE  Guarded!Next
<1>1. Guarded!Write(f)
  BY DEF Guarded!Write
<1> QED
  BY <1>1 DEF Guarded!Next

LEMMA AbstractStutter ==
    ASSUME UNCHANGED <<disk, base, verifiedTree>>, status # "done", status' # "done"
    PROVE  UNCHANGED Guarded!vars
  BY DEF Guarded!vars

LEMMA AbstractEnd ==
    ASSUME Reliable, TypeOK, KeptInv, UndoInv, FinalizeDirectly \/ EndRollback
    PROVE  Guarded!Next
<1>1. /\ status = "running" /\ status' = "done"
      /\ UNCHANGED <<disk, base, verifiedTree, patchApplied, verificationPassed>>
  BY DEF FinalizeDirectly, EndRollback, At, recordVars, verdictVars, historyVars
<1>2. CASE patchApplied /\ verificationPassed
  <2>1. disk \in verifiedTree
    BY <1>2 DEF KeptInv
  <2> QED
    BY <1>1, <1>2, <2>1 DEF Guarded!Next, Guarded!EndKept
<1>3. CASE ~(patchApplied /\ verificationPassed)
  <2>1. disk = base
    BY <1>3, EndTree DEF UndoInv, FinalizeDirectly, MustRollBack
  <2> QED
    BY <1>1, <1>3, <2>1 DEF Guarded!Next, Guarded!EndUntouched
<1> QED
  BY <1>2, <1>3

LEMMA AbstractStep ==
    ASSUME Reliable, TypeOK, GuardInv, KeptInv, UndoInv, [Next]_vars
    PROVE  [Guarded!Next]_(Guarded!vars)
<1>1. CASE FinalizeDirectly \/ EndRollback
  BY <1>1, AbstractEnd
<1>2. CASE VerifyPasses
  <2>1. /\ status = "running" /\ status' = "running" /\ verifiedTree' = {disk}
        /\ UNCHANGED <<disk, base>>
    BY <1>2 DEF VerifyPasses, At
  <2> QED
    BY <2>1 DEF Guarded!Next, Guarded!Approve
<1>3. CASE /\ ~(FinalizeDirectly \/ EndRollback \/ VerifyPasses)
           /\ \/ Returns \/ BeginApply \/ SkipBlock \/ BeginRollback \/ DebateThrows \/ ProcessDies
  <2>1. UNCHANGED <<disk, base, verifiedTree>>
    BY <1>3 DEF Returns, HandOver, OutOfBudget, ApplyDisabled, NoBlocks, NothingApplied, SomeApplied,
       FormatFailure, VerifyFails, Resume, BeginApply, SkipBlock, BeginRollback, DebateThrows,
       ProcessDies, historyVars
  <2>2. status # "done" /\ status' # "done"
    BY <1>3 DEF Returns, HandOver, OutOfBudget, ApplyDisabled, NoBlocks, NothingApplied, AllWritten,
       SomeApplied, FormatFailure, VerifyFails, Resume, BeginApply, SkipBlock, AtBlock, BeginRollback,
       DebateThrows, ProcessDies, At
  <2> QED
    BY <2>1, <2>2, AbstractStutter
<1>4. CASE WriteBlock
  <2>1. Target \in Files /\ Target \notin Protected /\ Current.content \in Contents
    BY <1>4, BlockTyped DEF WriteBlock, Writable, Target, Blocks
  <2>2. /\ disk' = [disk EXCEPT ![Target] = Current.content] /\ status = "running" /\ status' = "running"
        /\ UNCHANGED <<base, verifiedTree>>
    BY <1>4 DEF WriteBlock, AtBlock, At, historyVars
  <2> QED
    BY <2>1, <2>2, AbstractWrite
<1>5. ASSUME NEW f \in Files, RestoreFile(f) \/ RemoveFile(f)
      PROVE  Guarded!Next
  <2>1. f \notin Protected
    BY <1>5 DEF RestoreFile, RemoveFile, GuardInv
  <2>2. PICK c \in Contents \cup {Absent} : disk' = [disk EXCEPT ![f] = c]
    BY <1>5 DEF RestoreFile, RemoveFile, TypeOK
  <2>3. status = "running" /\ status' = "running" /\ UNCHANGED <<base, verifiedTree>>
    BY <1>5 DEF RestoreFile, RemoveFile, At, historyVars
  <2> QED
    BY <2>1, <2>2, <2>3, AbstractWrite
<1>6. CASE UNCHANGED vars
  BY <1>6 DEF vars, checkpointVars, recordVars, verdictVars, historyVars, Guarded!vars
<1> QED
  BY <1>1, <1>2, <1>3, <1>4, <1>5, <1>6, ReliableSteps

\* With reliable files a run is a guarded run: it writes no protected file and leaves the
\* tree it verified last or the tree it found.
THEOREM RunsAreGuarded ==
    ASSUME Reliable
    PROVE  Spec => ImplementsGuardedWorkspace
<1>1. Init => Guarded!Init
  BY WorkspaceAssumption DEF Init, Guarded!Init, Guarded!Trees
<1>2. TypeOK /\ GuardInv /\ KeptInv /\ UndoInv /\ [Next]_vars => [Guarded!Next]_(Guarded!vars)
  BY Reliable, AbstractStep
<1> QED
  BY <1>1, <1>2, Reliable, UndoInvariant, PTL DEF Spec, ImplementsGuardedWorkspace, Guarded!Spec
=============================================================================
