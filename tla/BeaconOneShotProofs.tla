------------------------- MODULE BeaconOneShotProofs -------------------------
(***************************************************************************)
(* Theorems about the one-shot runner, for any number of runs, any clock   *)
(* and any sequence of kills, power losses and edits.                      *)
(***************************************************************************)
EXTENDS BeaconOneShot, TLAPS

(***************************************************************************)
(* Type correctness.                                                       *)
(***************************************************************************)
\* The steps of durable_exclusive_write keep a file's record well formed.
LEMMA FileTypes ==
    ASSUME NEW file \in FileStates(Bodies), NEW body \in Bodies
    PROVE  /\ Created(body) \in FileStates(Bodies)
           /\ Filled(file) \in FileStates(Bodies)
           /\ Synced(file) \in FileStates(Bodies)
           /\ Entered(file) \in FileStates(Bodies)
           /\ AbsentFile(body) \in FileStates(Bodies)
  BY DEF FileStates, Forms, Created, Filled, Synced, Entered, Present, AbsentFile

\* The contents of an absent file are contents.
LEMMA NoBodyType == NoBody \in Bodies
  BY DEF NoBody, Bodies, Verdicts, GateVerdicts, Forms

\* A process that has done nothing has well-formed variables.
LEMMA NoLocalsType == NoLocals \in Locals
  BY NoBodyType DEF NoLocals, Locals, Verdicts, GateVerdicts

\* So does a power loss, whatever it loses or tears.
LEMMA AfterPowerLossType ==
    ASSUME disk \in [Disk -> FileStates(Bodies)], NEW lost, NEW torn
    PROVE  AfterPowerLoss(disk, NoBody, lost, torn) \in [Disk -> FileStates(Bodies)]
  <1>1. AbsentFile(NoBody) \in FileStates(Bodies)
    BY NoBodyType DEF FileStates, Forms, AbsentFile
  <1> QED
    BY <1>1 DEF AfterPowerLoss, FileStates, Forms

\* A check that passes keeps every type.
LEMMA PassType ==
    ASSUME TypeOK, NEW p \in Procs, NEW label \in Labels,
           Pass(p, label) \/ PassLoading(p, label)
    PROVE  TypeOK'
  BY DEF TypeOK, Pass, PassLoading, Advance, LoadSources, Goto, history, seen,
     provenance

\* A step that fills the process's variables with well-typed values does too.
LEMMA ComputeType ==
    ASSUME TypeOK, NEW p \in Procs, NEW label \in Labels,
           NEW locals \in Locals, Compute(p, label, locals)
    PROVE  TypeOK'
  BY DEF TypeOK, Compute, Goto, history, seen, provenance

\* Taking the proof lock keeps every type.
LEMMA TakeLockType ==
    ASSUME TypeOK, NEW p \in Procs, NEW label \in Labels, TakeLock(p, label)
    PROVE  TypeOK'
  BY DEF TypeOK, TakeLock, Goto, history, seen, provenance

\* One step of writing a well-typed body keeps every type.
LEMMA DurableWriteType ==
    ASSUME TypeOK, NEW p \in Procs, NEW f \in Disk, NEW body \in Bodies,
           NEW next \in Labels, NEW code \in Codes,
           DurableWrite(p, f, body, next, code)
    PROVE  TypeOK'
  <1>1. disk' \in [Disk -> FileStates(Bodies)]
    <2>1. \A g \in Disk : disk[g] \in FileStates(Bodies)
      BY DEF TypeOK
    <2>2. CASE disk' = [disk EXCEPT ![f] = Created(body)]
      BY <2>1, <2>2, FileTypes DEF TypeOK
    <2>3. CASE disk' = [disk EXCEPT ![f] = Filled(disk[f])]
      BY <2>1, <2>3, FileTypes DEF TypeOK
    <2>4. CASE disk' = [disk EXCEPT ![f] = Synced(disk[f])]
      BY <2>1, <2>4, FileTypes DEF TypeOK
    <2>5. CASE disk' = [g \in Disk |->
                          IF DirectoryOpens /\ g \in Directory(f)
                          THEN Entered(disk[g]) ELSE disk[g]]
      BY <2>1, <2>5, FileTypes, NoBodyType
    <2> QED
      BY <2>2, <2>3, <2>4, <2>5 DEF DurableWrite
  <1>2. stage' \in [Procs -> Stages] /\ pc' \in [Procs -> Labels] /\ exit' \in [Procs -> Codes]
    BY DEF DurableWrite, TypeOK, Stages, Goto
  <1> QED
    BY <1>1, <1>2 DEF DurableWrite, TypeOK, history, seen, provenance

\* The initial state is well typed.
LEMMA InitType == Init => TypeOK
  <1>1. AbsentFile(NoBody) \in FileStates(Bodies)
    BY NoBodyType DEF FileStates, Forms, AbsentFile
  <1> QED
    BY <1>1, NoLocalsType DEF Init, TypeOK, Labels, Unlocked, Stages, Codes

\* The steps that only move the process's label.
LEMMA CheckType ==
    ASSUME TypeOK, NEW p \in Procs,
           \/ Invoke(p) \/ RequireTimeWindow(p) \/ RequireArtifactsAbsent(p)
           \/ RequireCleanHead(p) \/ RequirePublicFreeze(p) \/ PrepareRuntime(p)
           \/ ReloadAttempt(p) \/ VerifyResolution(p) \/ RequireOnlyResults(p)
           \/ RequireUnchangedDigests(p) \/ VerifyScientificResult(p)
           \/ RequireBeforeDeadline(p) \/ FindOutcome(p)
    PROVE  TypeOK'
  <1>1. PICK label \in Labels : Pass(p, label) \/ PassLoading(p, label)
    BY DEF Invoke, RequireTimeWindow, RequireArtifactsAbsent, RequireCleanHead,
           RequirePublicFreeze, PrepareRuntime, ReloadAttempt, VerifyResolution,
           RequireOnlyResults, RequireUnchangedDigests, VerifyScientificResult,
           RequireBeforeDeadline, FindOutcome, Labels, Preflight, TryBlock,
           Handler, Unlocked
  <1> QED
    BY <1>1, PassType

\* The steps that build an artifact or a digest in the process's memory.
LEMMA BuildType ==
    ASSUME TypeOK, NEW p \in Procs,
           \/ DigestImplementation(p) \/ BuildAttempt(p) \/ BuildResolution(p)
           \/ BuildOutcome(p) \/ BuildFailure(p)
    PROVE  TypeOK'
  <1>1. mem[p] \in Locals /\ now \in Nat /\ edited \in SUBSET Parts
    BY DEF TypeOK
  <1>2. disk["resolution"].form \in Forms
    BY DEF TypeOK, Disk, ResultFiles, FileStates
  <1>3. CASE DigestImplementation(p)
    <2>1. [mem[p] EXCEPT !.implementation = edited \cap Registered] \in Locals
      BY <1>1 DEF Locals
    <2>2. "runtime" \in Labels
      BY DEF Labels, Preflight
    <2> QED
      BY <1>3, <2>1, <2>2, ComputeType DEF DigestImplementation
  <1>4. CASE BuildAttempt(p)
    <2> DEFINE body == [NoBody EXCEPT !.run = p, !.at = now,
                            !.registration = edited \cap {"registration"},
                            !.implementation = mem[p].implementation]
    <2>1. body \in Bodies
      BY <1>1, NoBodyType DEF Bodies, Locals
    <2>2. [mem[p] EXCEPT !.attempt = body] \in Locals
      BY <1>1, <2>1 DEF Locals
    <2>3. "attempt" \in Labels
      BY DEF Labels, Preflight
    <2> QED
      BY <1>4, <2>2, <2>3, ComputeType DEF BuildAttempt
  <1>5. CASE BuildResolution(p)
    <2> DEFINE body == [NoBody EXCEPT !.run = p,
                            !.registration = edited \cap {"registration"}]
    <2>1. body \in Bodies
      BY <1>1, NoBodyType DEF Bodies
    <2>2. [mem[p] EXCEPT !.resolution = body] \in Locals
      BY <1>1, <2>1 DEF Locals
    <2>3. "check" \in Labels
      BY DEF Labels, TryBlock
    <2> QED
      BY <1>5, <2>2, <2>3, ComputeType DEF BuildResolution
  <1>6. CASE BuildOutcome(p)
    <2> DEFINE body == [run |-> p, at |-> now, verdict |-> mem[p].verdict,
                        registration |-> edited \cap {"registration"},
                        implementation |-> mem[p].implementation,
                        resolution |-> mem[p].resolution.run,
                        artifact |-> disk["resolution"].form]
    <2>1. body \in Bodies
      BY <1>1, <1>2 DEF Bodies, Locals
    <2>2. [mem[p] EXCEPT !.outcome = body] \in Locals
      BY <1>1, <2>1 DEF Locals
    <2>3. "outcome" \in Labels
      BY DEF Labels, TryBlock
    <2> QED
      BY <1>6, <2>2, <2>3, ComputeType DEF BuildOutcome
  <1>7. CASE BuildFailure(p)
    <2> DEFINE body == [NoBody EXCEPT !.run = p, !.at = now,
                            !.verdict = "FAIL_EXECUTION",
                            !.resolution = mem[p].resolution.run,
                            !.artifact = IF mem[p].resolution.run = NoProc
                                         THEN "absent" ELSE disk["resolution"].form]
    <2>1. body \in Bodies
      BY <1>1, <1>2, NoBodyType DEF Bodies, Locals, Verdicts, GateVerdicts, Forms
    <2>2. [mem[p] EXCEPT !.outcome = body] \in Locals
      BY <1>1, <2>1 DEF Locals
    <2>3. "failure" \in Labels
      BY DEF Labels, Handler
    <2> QED
      BY <1>7, <2>2, <2>3, ComputeType DEF BuildFailure
  <1> QED
    BY <1>3, <1>4, <1>5, <1>6, <1>7

\* The durable writes.
LEMMA WriteType ==
    ASSUME TypeOK, NEW p \in Procs,
           WriteAttempt(p) \/ WriteResolution(p) \/ WriteOutcome(p) \/ WriteFailure(p)
    PROVE  TypeOK'
  <1>1. /\ mem[p].attempt \in Bodies /\ mem[p].resolution \in Bodies
        /\ mem[p].outcome \in Bodies
        /\ exit[p] \in Codes
    BY DEF TypeOK, Locals
  <1>2. {"attempt", "resolution", "outcome"} \subseteq Disk
    BY DEF Disk, ResultFiles
  <1>3. {"reload", "status1", "release"} \subseteq Labels
    BY DEF Labels, Preflight, TryBlock
  <1>4. "1" \in Codes /\ ExitCode(mem[p].verdict) \in Codes
    BY DEF Codes, ExitCode
  <1> QED
    BY <1>1, <1>2, <1>3, <1>4, DurableWriteType
    DEF WriteAttempt, WriteResolution, WriteOutcome, WriteFailure

\* The steps of the proof lock keep every type.
LEMMA LockType ==
    ASSUME TypeOK, NEW p \in Procs, LockStep(p)
    PROVE  TypeOK'
  <1>1. {"window", "load", "reclaim", "ended"} \subseteq Labels
    BY DEF Labels, Preflight, Replaying, Unlocked
  <1>2. FirstStep(p) \in Labels
    BY <1>1 DEF FirstStep
  <1>3. CASE AcquireLock(p) \/ ReclaimLock(p)
    BY <1>2, <1>3, TakeLockType DEF AcquireLock, ReclaimLock
  <1>4. CASE FindStaleLock(p)
    BY <1>1, <1>2, <1>4, TakeLockType, PassType DEF FindStaleLock
  <1>5. CASE RefuseLock(p)
    BY <1>1, <1>5 DEF TypeOK, RefuseLock, Codes, history, seen, provenance
  <1>6. CASE ReleaseLock(p)
    BY <1>1, <1>6, NoLocalsType DEF TypeOK, ReleaseLock, Goto, history, seen, provenance
  <1>7. CASE AbandonLock(p)
    BY <1>1, <1>7, NoLocalsType DEF TypeOK, AbandonLock, Goto, Codes, history, seen,
       provenance
  <1> QED
    BY <1>3, <1>4, <1>5, <1>6, <1>7 DEF LockStep

\* The steps that record a history variable or write primary evidence.
LEMMA EvaluationType ==
    ASSUME TypeOK, NEW p \in Procs,
           \/ FetchPulse(p) \/ OpenEvaluation(p)
           \/ CreatePrimaryEvidence(p) \/ ScoreWindow(p) \/ WriteManifest(p)
    PROVE  TypeOK'
  <1>1. {"build", "primary", "score", "manifest", "verify"} \subseteq Labels
    BY DEF Labels, TryBlock
  <1>2. CASE FetchPulse(p)
    BY <1>1, <1>2 DEF TypeOK, FetchPulse, Goto, provenance
  <1>3. CASE OpenEvaluation(p)
    BY <1>1, <1>3 DEF TypeOK, OpenEvaluation, LoadSources, Goto, provenance
  <1>4. CASE CreatePrimaryEvidence(p)
    <2>1. [NoBody EXCEPT !.run = p] \in Bodies
      BY NoBodyType DEF Bodies
    <2>2. Created([NoBody EXCEPT !.run = p]) \in FileStates(Bodies)
      BY <2>1 DEF Created, FileStates, Forms
    <2> QED
      BY <1>1, <1>4, <2>2 DEF TypeOK, CreatePrimaryEvidence, Goto, history, seen, provenance
  <1>5. CASE ScoreWindow(p)
    <2>1. disk["primary"] \in FileStates(Bodies)
      BY DEF TypeOK, Disk, ResultFiles
    <2>2. PICK verdict \in GateVerdicts :
              /\ mem' = [mem EXCEPT ![p].verdict = verdict]
              /\ disk' = [disk EXCEPT !["primary"].body.artifact = "partial",
                                     !["primary"].body.verdict = verdict]
      BY <1>5 DEF ScoreWindow
    <2>3. disk' \in [Disk -> FileStates(Bodies)]
      <3>1. [disk["primary"] EXCEPT !.body.artifact = "partial",
                                    !.body.verdict = verdict] \in FileStates(Bodies)
        BY <2>1, <2>2 DEF FileStates, Bodies, Forms, Verdicts, GateVerdicts
      <3> QED
        BY <2>2, <3>1 DEF TypeOK
    <2>4. mem' \in [Procs -> Locals]
      <3>1. mem[p] \in Locals
        BY DEF TypeOK
      <3>2. [mem[p] EXCEPT !.verdict = verdict] \in Locals
        BY <2>2, <3>1 DEF Locals, Verdicts, GateVerdicts
      <3> QED
        BY <2>2, <3>2 DEF TypeOK
    <2> QED
      BY <1>1, <1>5, <2>3, <2>4 DEF TypeOK, ScoreWindow, Goto, history, seen, provenance
  <1>6. CASE WriteManifest(p)
    <2>1. disk["primary"] \in FileStates(Bodies)
      BY DEF TypeOK, Disk, ResultFiles
    <2>2. [Filled(disk["primary"]) EXCEPT !.body.artifact = "whole"] \in FileStates(Bodies)
      BY <2>1 DEF Filled, FileStates, Bodies, Forms
    <2>3. disk' \in [Disk -> FileStates(Bodies)]
      BY <1>6, <2>2 DEF TypeOK, WriteManifest
    <2> QED
      BY <1>1, <1>6, <2>3 DEF TypeOK, WriteManifest, Goto, history, seen, provenance
  <1> QED
    BY <1>2, <1>3, <1>4, <1>5, <1>6

\* An exception keeps every type.
LEMMA ThrowType ==
    ASSUME TypeOK, NEW p \in Procs, Throw(p)
    PROVE  TypeOK'
  <1>1. {"handle", "release"} \subseteq Labels
    BY DEF Labels, Handler
  <1> QED
    BY <1>1 DEF TypeOK, Throw, Goto, Codes, Stages, history, seen, provenance

\* Killing any set of processes keeps the types of what it changes.
LEMMA DieType ==
    ASSUME TypeOK, NEW procs, Die(procs)
    PROVE  /\ pc' \in [Procs -> Labels]
           /\ mem' \in [Procs -> Locals]
           /\ stage' \in [Procs -> Stages]
  BY NoLocalsType DEF TypeOK, Die, Labels, Unlocked, Stages

\* A killed process leaves every type as it was.
LEMMA KillType ==
    ASSUME TypeOK, NEW p \in Procs, Kill(p)
    PROVE  TypeOK'
  BY DieType DEF TypeOK, Kill, history, seen, provenance

\* The clock, the operator and a power loss keep every type.
LEMMA EnvironmentType ==
    ASSUME TypeOK, Environment
    PROVE  TypeOK'
  <1>1. CASE Tick
    BY <1>1 DEF TypeOK, Tick, control, history, seen, provenance
  <1>2. CASE Operator
    <2>1. PICK part \in Parts : Edit(part) \/ Restore(part)
      BY <1>2 DEF Operator
    <2>2. edited' \in SUBSET Parts /\ reverted' \in SUBSET Procs
      BY <2>1 DEF TypeOK, Edit, Restore, LivePids, history, provenance
    <2> QED
      BY <2>1, <2>2 DEF TypeOK, Edit, Restore, control, history, seen, provenance
  <1>3. CASE PowerLoss
    <2>1. disk' \in [Disk -> FileStates(Bodies)]
      BY <1>3, AfterPowerLossType DEF PowerLoss, TypeOK
    <2> QED
      BY <1>3, <2>1, DieType DEF TypeOK, PowerLoss, history, seen, provenance
  <1> QED
    BY <1>1, <1>2, <1>3 DEF Environment

\* Every step of the specification keeps every type.
LEMMA StepType == TypeOK /\ [Next]_vars => TypeOK'
  <1> SUFFICES ASSUME TypeOK, [Next]_vars PROVE TypeOK'
    OBVIOUS
  <1>1. ASSUME NEW p \in Runs, Invoke(p) \/ ProcStep(p) \/ Kill(p) PROVE TypeOK'
    <2>1. p \in Procs
      BY DEF Procs
    <2> QED
      BY <1>1, <2>1, CheckType, BuildType, WriteType, EvaluationType, LockType,
         ThrowType, KillType DEF ProcStep, OneShotStep
  <1>2. CASE Environment
    BY <1>2, EnvironmentType
  <1>3. CASE UNCHANGED vars
    BY <1>3 DEF TypeOK, vars, control, history, seen, provenance
  <1> QED
    BY <1>1, <1>2, <1>3 DEF Next

\* Every variable of the runner keeps its type: in particular no artifact is
\* ever written with a body that durable_exclusive_write was not given.
THEOREM TypeCorrect == Spec => []TypeOK
  BY InitType, StepType, PTL DEF Spec

(***************************************************************************)
(* Permanence: no step changes a file that is whole and durable.           *)
(***************************************************************************)
Permanent(f) == Readable(disk[f]) /\ Settled(disk[f]) => disk'[f] = disk[f]

\* The steps of durable_exclusive_write cannot change a whole and durable file.
LEMMA WholeIsFixed ==
    ASSUME NEW file \in FileStates(Bodies), Readable(file), Settled(file)
    PROVE  /\ ~Creatable(file)
           /\ Filled(file) = file
           /\ Synced(file) = file
           /\ Entered(file) = file
  BY DEF FileStates, Readable, Settled, Present, Creatable, Filled, Synced, Entered

\* Nor can a durable write of that file or of another one.
LEMMA DurableWritePermanent ==
    ASSUME TypeOK, NEW p, NEW g, NEW body, NEW next, NEW code,
           DurableWrite(p, g, body, next, code), NEW f \in ResultFiles
    PROVE  Permanent(f)
  <1>1. disk[f] \in FileStates(Bodies) /\ f \in Disk
    BY DEF TypeOK, Disk
  <1>2. SUFFICES ASSUME Readable(disk[f]), Settled(disk[f]) PROVE disk'[f] = disk[f]
    BY DEF Permanent
  <1>3. /\ ~Creatable(disk[f]) /\ Filled(disk[f]) = disk[f]
        /\ Synced(disk[f]) = disk[f] /\ Entered(disk[f]) = disk[f]
    BY <1>1, <1>2, WholeIsFixed
  <1>4. CASE Creatable(disk[g]) /\ disk' = [disk EXCEPT ![g] = Created(body)]
    BY <1>1, <1>3, <1>4 DEF TypeOK
  <1>5. CASE disk' = [disk EXCEPT ![g] = Filled(disk[g])]
    BY <1>1, <1>3, <1>5 DEF TypeOK
  <1>6. CASE disk' = [disk EXCEPT ![g] = Synced(disk[g])]
    BY <1>1, <1>3, <1>6 DEF TypeOK
  <1>7. CASE disk' = [h \in Disk |->
                        IF DirectoryOpens /\ h \in Directory(g)
                        THEN Entered(disk[h]) ELSE disk[h]]
    BY <1>1, <1>3, <1>7
  <1> QED
    BY <1>4, <1>5, <1>6, <1>7 DEF DurableWrite

\* Nor can a power loss.
LEMMA PowerLossPermanent ==
    ASSUME TypeOK, PowerLoss, NEW f \in ResultFiles
    PROVE  Permanent(f)
  <1>1. disk[f] \in FileStates(Bodies) /\ f \in Disk /\ Disk = DOMAIN disk
    BY DEF TypeOK, Disk
  <1>2. SUFFICES ASSUME Readable(disk[f]), Settled(disk[f]) PROVE disk'[f] = disk[f]
    BY DEF Permanent
  <1>3. PICK lost \in SUBSET Losable(disk), torn \in SUBSET Tearable(disk) :
            disk' = AfterPowerLoss(disk, NoBody, lost, torn)
    BY DEF PowerLoss
  <1>4. f \notin lost /\ f \notin torn
    BY <1>2, <1>3 DEF Losable, Tearable, Settled
  <1>5. disk'[f] = [form |-> disk[f].form, body |-> disk[f].body,
                    data |-> TRUE, entry |-> TRUE]
    BY <1>1, <1>2, <1>3, <1>4 DEF AfterPowerLoss, Settled
  <1> QED
    BY <1>1, <1>2, <1>5 DEF FileStates, Settled

\* The primary evidence that a run is still writing has never been synced: the
\* code does not fsync it, and a power loss ends the run.
Unsynced == \A p \in Procs : pc[p] \in {"score", "manifest"} => ~disk["primary"].data

\* Every step keeps it so.
LEMMA StepUnsynced ==
    ASSUME TypeOK, Unsynced, [Next]_vars
    PROVE  Unsynced'
  <1>1. "primary" \in Disk /\ disk["primary"] \in FileStates(Bodies)
    BY DEF TypeOK, Disk, ResultFiles
  <1>2. CASE /\ disk'["primary"].data = disk["primary"].data
             /\ \A q \in Procs : pc'[q] \in {"score", "manifest"} =>
                                  pc[q] \in {"score", "manifest"}
    BY <1>2 DEF Unsynced
  <1>3. ASSUME NEW p \in Runs, OneShotStep(p) PROVE Unsynced'
    <2>1. p \in Procs
      BY DEF Procs
    <2>2. CASE WriteAttempt(p) \/ WriteResolution(p) \/ WriteOutcome(p) \/ WriteFailure(p)
      <3>1. PICK g, body, next, code :
                /\ g \in {"attempt", "resolution", "outcome"}
                /\ next \in {"reload", "status1", "release"}
                /\ DurableWrite(p, g, body, next, code)
        BY <2>2 DEF WriteAttempt, WriteResolution, WriteOutcome, WriteFailure
      <3>2. disk'["primary"].data = disk["primary"].data
        BY <1>1, <3>1 DEF DurableWrite, Entered, TypeOK, FileStates
      <3> QED
        BY <1>2, <2>1, <3>1, <3>2 DEF DurableWrite, Goto, TypeOK
    <2>3. CASE CreatePrimaryEvidence(p)
      BY <1>1, <2>3 DEF CreatePrimaryEvidence, Created, Unsynced, TypeOK
    <2>4. CASE ScoreWindow(p)
      BY <1>1, <2>1, <2>4 DEF ScoreWindow, Goto, Unsynced, TypeOK
    <2>5. CASE WriteManifest(p)
      BY <1>1, <2>1, <2>5 DEF WriteManifest, Filled, Goto, Unsynced, TypeOK
    <2>6. CASE disk' = disk /\ \E label \in Labels \ {"score", "manifest"} : Goto(p, label)
      BY <1>2, <2>1, <2>6 DEF Goto, TypeOK
    <2> QED
      BY <1>3, <2>2, <2>3, <2>4, <2>5, <2>6
      DEF OneShotStep, RequireTimeWindow, RequireArtifactsAbsent, RequireCleanHead,
          RequirePublicFreeze, DigestImplementation, PrepareRuntime, BuildAttempt,
          ReloadAttempt, FetchPulse, BuildResolution, VerifyResolution,
          RequireOnlyResults, RequireUnchangedDigests, OpenEvaluation,
          VerifyScientificResult, RequireBeforeDeadline, BuildOutcome, FindOutcome,
          BuildFailure, Pass, PassLoading, Advance, Compute, Labels, Preflight, TryBlock,
          Handler
  <1>4. ASSUME NEW p \in Runs, Invoke(p) \/ LockStep(p) \/ Throw(p) PROVE Unsynced'
    <2>1. disk' = disk /\ \E label \in Labels \ {"score", "manifest"} : Goto(p, label)
      BY <1>4 DEF Invoke, LockStep, AcquireLock, FindStaleLock, ReclaimLock, RefuseLock,
         ReleaseLock, AbandonLock, TakeLock, FirstStep, Throw, Pass, PassLoading, Advance,
         Goto, Labels,
         Preflight, TryBlock, Handler, Replaying, Unlocked
    <2> QED
      BY <1>2, <2>1 DEF Goto, TypeOK, Procs
  <1>5. ASSUME NEW p \in Runs, Kill(p) PROVE Unsynced'
    BY <1>2, <1>5 DEF Kill, Die
  <1>6. CASE PowerLoss
    BY <1>6 DEF PowerLoss, Die, LivePids, Alive, Unsynced
  <1>7. CASE Tick \/ Operator \/ UNCHANGED vars
    BY <1>2, <1>7 DEF Tick, Operator, Edit, Restore, vars, control
  <1> QED
    BY <1>3, <1>4, <1>5, <1>6, <1>7 DEF Next, ProcStep, Environment

\* No step changes an artifact that is whole and durable.
LEMMA StepPermanent ==
    ASSUME TypeOK, [Next]_vars, NEW f \in ResultFiles, f = "primary" => Unsynced
    PROVE  Permanent(f)
  <1>1. disk[f] \in FileStates(Bodies) /\ f \in Disk
    BY DEF TypeOK, Disk
  <1>2. CASE disk' = disk
    BY <1>2 DEF Permanent
  <1>3. ASSUME NEW p \in Runs, OneShotStep(p) PROVE Permanent(f)
    <2>1. CASE WriteAttempt(p) \/ WriteResolution(p) \/ WriteOutcome(p) \/ WriteFailure(p)
      BY <2>1, DurableWritePermanent
      DEF WriteAttempt, WriteResolution, WriteOutcome, WriteFailure
    <2>2. CASE CreatePrimaryEvidence(p)
      BY <1>1, <2>2 DEF CreatePrimaryEvidence, Permanent, Settled, TypeOK
    <2>3. CASE ScoreWindow(p) \/ WriteManifest(p)
      <3>1. CASE f = "primary"
        <4>1. p \in Procs /\ ~disk["primary"].data
          BY <2>3, <3>1 DEF Procs, Unsynced, ScoreWindow, WriteManifest
        <4> QED
          BY <3>1, <4>1 DEF Permanent, Settled
      <3>2. CASE f # "primary"
        BY <1>1, <2>3, <3>2 DEF ScoreWindow, WriteManifest, Permanent, TypeOK
      <3> QED
        BY <3>1, <3>2
    <2> QED
      BY <1>2, <1>3, <2>1, <2>2, <2>3
      DEF OneShotStep, RequireTimeWindow, RequireArtifactsAbsent, RequireCleanHead,
          RequirePublicFreeze, DigestImplementation, PrepareRuntime, BuildAttempt,
          ReloadAttempt, FetchPulse, BuildResolution, VerifyResolution,
          RequireOnlyResults, RequireUnchangedDigests, OpenEvaluation,
          VerifyScientificResult, RequireBeforeDeadline, BuildOutcome, FindOutcome,
          BuildFailure, Pass, PassLoading, Advance, Compute
  <1>4. ASSUME NEW p \in Runs, Invoke(p) \/ LockStep(p) \/ Throw(p) \/ Kill(p)
        PROVE  disk' = disk
    BY <1>4 DEF Invoke, LockStep, AcquireLock, FindStaleLock, ReclaimLock, RefuseLock,
           ReleaseLock, AbandonLock, TakeLock, Throw, Kill, Pass, PassLoading, Advance
  <1>5. CASE Environment
    <2>1. CASE PowerLoss
      BY <2>1, PowerLossPermanent
    <2> QED
      BY <1>2, <1>5, <2>1 DEF Environment, Tick, Operator, Edit, Restore
  <1>6. CASE UNCHANGED vars
    BY <1>2, <1>6 DEF vars
  <1> QED
    BY <1>2, <1>3, <1>4, <1>5, <1>6 DEF Next, ProcStep

\* An artifact that is whole and durable is never replaced, extended or removed
\* by any run or power loss.
THEOREM ArtifactsArePermanent == Spec => ArtifactsPermanent
  <1>1. TypeOK /\ Unsynced /\ [Next]_vars =>
            [\A f \in ResultFiles :
                Readable(disk[f]) /\ Settled(disk[f]) => disk'[f] = disk[f]]_disk
    BY StepPermanent DEF Permanent
  <1>2. Init => Unsynced
    BY DEF Init, Unsynced
  <1>3. TypeOK /\ Unsynced /\ [Next]_vars => Unsynced'
    BY StepUnsynced
  <1> QED
    BY <1>1, <1>2, <1>3, TypeCorrect, PTL DEF Spec, ArtifactsPermanent

(***************************************************************************)
(* The marker.  A run past the marker's write, a run that has seen the     *)
(* pulse and the author of any other artifact are all the run whose marker *)
(* is whole and durable in attempt.json; there is one such file, so they   *)
(* are all the same run.                                                   *)
(***************************************************************************)
WriteLabels == {"attempt", "resolution", "outcome", "failure", "regression"}
Marked == {"reload"} \cup TryBlock \cup Handler

MarkerOf(p) ==
    /\ Readable(disk["attempt"]) /\ Settled(disk["attempt"])
    /\ disk["attempt"].body.run = p

\* Inside the marker's own write, how far the file has got.
WritesMarker(p) ==
    /\ mem[p].attempt.run = p
    /\ stage[p] # "open" => Present(disk["attempt"]) /\ disk["attempt"].body.run = p
    /\ stage[p] \in {"fsync", "dirsync"} => Readable(disk["attempt"])
    /\ stage[p] = "dirsync" => disk["attempt"].data

\* A process in the middle of a file has that file.
HasCreated(p) ==
    /\ pc[p] = "resolution" /\ stage[p] # "open" => Present(disk["resolution"])
    /\ pc[p] \in {"outcome", "failure"} /\ stage[p] # "open" => Present(disk["outcome"])
    /\ pc[p] \in {"score", "manifest"} => Present(disk["primary"])

ProcInv(p) ==
    /\ stage[p] # "open" => pc[p] \in WriteLabels
    /\ pc[p] = "attempt" => WritesMarker(p)
    /\ pc[p] \in Marked => MarkerOf(p)
    /\ pc[p] \in {"check", "resolution"} => mem[p].resolution.run = p
    /\ pc[p] \in {"outcome", "failure"} => mem[p].outcome.run = p
    /\ HasCreated(p)

DiskInv ==
    /\ \A p \in revealed : MarkerOf(p)
    /\ \A f \in ResultFiles \ {"attempt"} :
           Present(disk[f]) => MarkerOf(disk[f].body.run)

MarkerInv == (\A p \in Procs : ProcInv(p)) /\ DiskInv

\* There is one attempt.json, so two runs that both own it are the same run.
LEMMA MarkerIsSingle ==
    ASSUME NEW p, NEW q, MarkerOf(p), MarkerOf(q)
    PROVE  p = q
  BY DEF MarkerOf

\* A step that keeps what is whole and durable, primary evidence apart, which
\* nobody syncs.
Lasting == \A f \in ResultFiles \ {"primary"} : Permanent(f)

\* Every step of the specification does.
LEMMA StepLasting ==
    ASSUME TypeOK, [Next]_vars
    PROVE  Lasting
  BY StepPermanent DEF Lasting

\* A run keeps its marker for ever.
LEMMA MarkerPersists ==
    ASSUME TypeOK, Lasting, NEW p, MarkerOf(p)
    PROVE  MarkerOf(p)'
  <1>1. "attempt" \in ResultFiles
    BY DEF ResultFiles
  <1>2. disk'["attempt"] = disk["attempt"]
    BY <1>1 DEF Lasting, Permanent, MarkerOf
  <1> QED
    BY <1>2 DEF MarkerOf

(***************************************************************************)
(* What the other processes see of a step by p.  A file that exists keeps  *)
(* its author, what is whole stays whole, and what is synced stays synced. *)
(***************************************************************************)
FilesKept ==
    /\ \A f \in ResultFiles : Present(disk[f]) => Present(disk'[f])
    /\ Present(disk["attempt"]) => disk'["attempt"].body = disk["attempt"].body
    /\ Readable(disk["attempt"]) => Readable(disk'["attempt"])
    /\ Present(disk["attempt"]) /\ disk["attempt"].data => disk'["attempt"].data

OnlyMoves(p) ==
    \A q \in Procs \ {p} :
        pc'[q] = pc[q] /\ stage'[q] = stage[q] /\ mem'[q] = mem[q]

\* A step of p says nothing new of another process whose marker it keeps.
LEMMA OthersUndisturbed ==
    ASSUME TypeOK, Lasting, \A q \in Procs : ProcInv(q),
           FilesKept, NEW p \in Procs, OnlyMoves(p), NEW q \in Procs \ {p}
    PROVE  ProcInv(q)'
  <1>1. ProcInv(q) /\ pc'[q] = pc[q] /\ stage'[q] = stage[q] /\ mem'[q] = mem[q]
    BY DEF OnlyMoves
  <1>2. MarkerOf(q) => MarkerOf(q)'
    BY MarkerPersists
  <1>3. WritesMarker(q) => WritesMarker(q)'
    BY <1>1 DEF WritesMarker, FilesKept, ResultFiles
  <1>4. HasCreated(q) => HasCreated(q)'
    BY <1>1 DEF HasCreated, FilesKept, ResultFiles
  <1> QED
    BY <1>1, <1>2, <1>3, <1>4 DEF ProcInv

\* A step that leaves the disk alone: what remains to be shown is what it
\* does to its own process and to revealed.
LEMMA QuietStep ==
    ASSUME TypeOK, Lasting, MarkerInv, disk' = disk,
           NEW p \in Procs, OnlyMoves(p), ProcInv(p)',
           \A q \in revealed' : MarkerOf(q)
    PROVE  MarkerInv'
  <1>1. FilesKept
    BY DEF FilesKept
  <1>2. \A q \in Procs : ProcInv(q)'
    BY <1>1, OthersUndisturbed DEF MarkerInv
  <1>3. DiskInv'
    BY DEF MarkerInv, DiskInv, MarkerOf
  <1> QED
    BY <1>2, <1>3 DEF MarkerInv

\* pc[p] becomes label, with nothing but p's variables changed.
LEMMA Moves ==
    ASSUME TypeOK, NEW p \in Procs, NEW label
    PROVE  /\ Advance(p, label) => OnlyMoves(p) /\ pc'[p] = label /\ mem'[p] = mem[p]
           /\ \A locals : Compute(p, label, locals) =>
                  OnlyMoves(p) /\ pc'[p] = label /\ mem'[p] = locals
           /\ TakeLock(p, label) => OnlyMoves(p) /\ pc'[p] = label /\ mem'[p] = mem[p]
  BY DEF TypeOK, Pass, PassLoading, Advance, Compute, TakeLock, Goto, OnlyMoves

\* The checks preserve the invariant: they lead from a marked label to a marked one.
LEMMA CheckMarker ==
    ASSUME TypeOK, Lasting, MarkerInv, NEW p \in Procs,
           \/ Invoke(p) \/ RequireTimeWindow(p) \/ RequireArtifactsAbsent(p)
           \/ RequireCleanHead(p) \/ RequirePublicFreeze(p) \/ PrepareRuntime(p)
           \/ ReloadAttempt(p) \/ VerifyResolution(p) \/ RequireOnlyResults(p)
           \/ RequireUnchangedDigests(p) \/ VerifyScientificResult(p)
           \/ RequireBeforeDeadline(p) \/ FindOutcome(p)
    PROVE  MarkerInv'
  <1>1. PICK label \in Labels :
          /\ Advance(p, label)
          /\ label \notin {"attempt", "check", "outcome", "failure"}
          /\ label \in Marked => pc[p] \in Marked
          /\ label = "resolution" => pc[p] = "check"
          /\ label \notin {"score", "manifest"}
          /\ pc[p] \notin WriteLabels
    BY DEF Invoke, RequireTimeWindow, RequireArtifactsAbsent, RequireCleanHead,
           RequirePublicFreeze, PrepareRuntime, ReloadAttempt, VerifyResolution,
           RequireOnlyResults, RequireUnchangedDigests, VerifyScientificResult,
           RequireBeforeDeadline, FindOutcome, Labels, Preflight, TryBlock,
           Handler, Unlocked, Marked, WriteLabels, Pass, PassLoading
  <1>2. ProcInv(p) /\ \A q \in revealed : MarkerOf(q)
    BY DEF MarkerInv, DiskInv
  <1>3. /\ OnlyMoves(p) /\ pc'[p] = label /\ mem'[p] = mem[p]
        /\ stage'[p] = stage[p] /\ disk' = disk /\ revealed' = revealed
    BY <1>1, Moves DEF Pass, PassLoading, Advance, history, seen, provenance
  <1>4. ProcInv(p)'
    BY <1>1, <1>2, <1>3 DEF ProcInv, HasCreated, MarkerOf, Marked, TryBlock
  <1> QED
    BY <1>2, <1>3, <1>4, QuietStep

\* The steps that build an artifact put the run's own name in it.
LEMMA BuildMarker ==
    ASSUME TypeOK, Lasting, MarkerInv, NEW p \in Procs,
           \/ DigestImplementation(p) \/ BuildAttempt(p) \/ BuildResolution(p)
           \/ BuildOutcome(p) \/ BuildFailure(p)
    PROVE  MarkerInv'
  <1>1. PICK label, locals :
          /\ Compute(p, label, locals)
          /\ label \in Marked => pc[p] \in Marked
          /\ label = "attempt" => locals.attempt.run = p
          /\ label \in {"check", "resolution"} => locals.resolution.run = p
          /\ label \in {"outcome", "failure"} => locals.outcome.run = p
          /\ label \notin {"score", "manifest"}
          /\ pc[p] \notin WriteLabels
    <2>1. mem[p] \in Locals /\ NoBody \in Bodies
      BY NoBodyType DEF TypeOK
    <2>2. CASE DigestImplementation(p)
      BY <2>2 DEF DigestImplementation, Labels, Preflight, Marked, TryBlock, Handler, WriteLabels
    <2>3. CASE BuildAttempt(p)
      BY <2>1, <2>3 DEF BuildAttempt, Labels, Preflight, Marked, TryBlock, Handler,
         WriteLabels, Locals, Bodies
    <2>4. CASE BuildResolution(p)
      <3> DEFINE locals == [mem[p] EXCEPT !.resolution =
                                [NoBody EXCEPT !.run = p,
                                     !.registration = edited \cap {"registration"}]]
      <3>1. locals.resolution.run = p
        BY <2>1 DEF Locals, Bodies
      <3>2. Compute(p, "check", locals) /\ pc[p] = "build"
        BY <2>4 DEF BuildResolution
      <3> HIDE DEF locals
      <3> QED
        BY <3>1, <3>2 DEF TryBlock, Marked, WriteLabels
    <2>5. CASE BuildOutcome(p)
      <3> DEFINE outcome ==
                   [run |-> p, at |-> now, verdict |-> mem[p].verdict,
                    registration |-> edited \cap {"registration"},
                    implementation |-> mem[p].implementation,
                    resolution |-> mem[p].resolution.run,
                    artifact |-> disk["resolution"].form]
                 locals == [mem[p] EXCEPT !.outcome = outcome]
      <3>1. locals.outcome.run = p
        BY <2>1 DEF Locals
      <3>2. Compute(p, "outcome", locals) /\ pc[p] = "conclude"
        BY <2>5 DEF BuildOutcome
      <3> HIDE DEF locals
      <3> QED
        BY <3>1, <3>2 DEF TryBlock, Marked, WriteLabels
    <2>6. CASE BuildFailure(p)
      <3> DEFINE outcome ==
                   [NoBody EXCEPT !.run = p, !.at = now, !.verdict = "FAIL_EXECUTION",
                        !.resolution = mem[p].resolution.run,
                        !.artifact = IF mem[p].resolution.run = NoProc
                                     THEN "absent" ELSE disk["resolution"].form]
                 locals == [mem[p] EXCEPT !.outcome = outcome]
      <3>1. locals.outcome.run = p
        BY <2>1 DEF Locals, Bodies
      <3>2. Compute(p, "failure", locals) /\ pc[p] = "handle"
        BY <2>6 DEF BuildFailure
      <3> HIDE DEF locals
      <3> QED
        BY <3>1, <3>2 DEF Handler, Marked, WriteLabels
    <2> QED
      BY <2>2, <2>3, <2>4, <2>5, <2>6
  <1>2. ProcInv(p) /\ \A q \in revealed : MarkerOf(q)
    BY DEF MarkerInv, DiskInv
  <1>3. /\ OnlyMoves(p) /\ pc'[p] = label /\ mem'[p] = locals
        /\ stage'[p] = stage[p] /\ disk' = disk /\ revealed' = revealed
    BY <1>1, Moves DEF Compute, history, seen, provenance
  <1>4. stage'[p] = "open"
    BY <1>1, <1>2, <1>3 DEF ProcInv
  <1>5. ProcInv(p)'
    BY <1>1, <1>2, <1>3, <1>4 DEF ProcInv, HasCreated, MarkerOf, WritesMarker
  <1> QED
    BY <1>2, <1>3, <1>5, QuietStep

\* Steps that end in a label that claims nothing.
LEMMA LeaveMarker ==
    ASSUME TypeOK, Lasting, MarkerInv, NEW p \in Procs,
           LockStep(p) \/ Throw(p) \/ Kill(p)
    PROVE  MarkerInv'
  <1>1. ProcInv(p) /\ \A q \in revealed : MarkerOf(q)
    BY DEF MarkerInv, DiskInv
  <1>2. disk' = disk /\ revealed' = revealed
    BY DEF LockStep, AcquireLock, FindStaleLock, ReclaimLock, RefuseLock, ReleaseLock,
           AbandonLock, TakeLock, Pass, PassLoading, Advance, Throw, Kill, history, seen,
           provenance
  <1>3. /\ OnlyMoves(p)
        /\ pc'[p] \in Marked => pc'[p] = "handle" /\ pc[p] \in Marked
        /\ pc'[p] \notin WriteLabels \cup {"check"}
        /\ stage'[p] = "open"
    <2>1. CASE AcquireLock(p) \/ FindStaleLock(p) \/ ReclaimLock(p)
      <3>1. PICK label \in {"window", "load", "reclaim"} :
                   TakeLock(p, label) \/ Advance(p, label)
        BY <2>1 DEF AcquireLock, FindStaleLock, ReclaimLock, FirstStep, Pass
      <3>2. stage'[p] = stage[p] /\ pc[p] \in {"lock", "reclaim"}
        BY <2>1 DEF AcquireLock, FindStaleLock, ReclaimLock, TakeLock, Pass, PassLoading,
           Advance
      <3> QED
        BY <1>1, <3>1, <3>2, Moves DEF ProcInv, WriteLabels, Marked, TryBlock, Handler
    <2>2. CASE RefuseLock(p)
      BY <1>1, <2>2 DEF RefuseLock, TypeOK, OnlyMoves, ProcInv, WriteLabels, Marked,
         TryBlock, Handler
    <2>3. CASE ReleaseLock(p) \/ AbandonLock(p)
      BY <1>1, <2>3 DEF ReleaseLock, AbandonLock, Goto, TypeOK, OnlyMoves, ProcInv,
         WriteLabels, Marked, TryBlock, Handler
    <2>4. CASE Throw(p)
      BY <2>4 DEF Throw, Goto, TypeOK, OnlyMoves, WriteLabels, Marked, TryBlock, Handler
    <2>5. CASE Kill(p)
      BY <2>5 DEF Kill, Die, TypeOK, OnlyMoves, WriteLabels, Marked, TryBlock, Handler
    <2> QED
      BY <2>1, <2>2, <2>3, <2>4, <2>5 DEF LockStep
  <1>4. ProcInv(p)'
    BY <1>1, <1>2, <1>3
    DEF ProcInv, HasCreated, MarkerOf, WriteLabels, Marked, TryBlock
  <1> QED
    BY <1>1, <1>2, <1>3, <1>4, QuietStep

\* The fetch and the start of the evaluation are steps of a marked run.
LEMMA HistoryMarker ==
    ASSUME TypeOK, Lasting, MarkerInv, NEW p \in Procs,
           FetchPulse(p) \/ OpenEvaluation(p)
    PROVE  MarkerInv'
  <1>1. ProcInv(p) /\ \A q \in revealed : MarkerOf(q)
    BY DEF MarkerInv, DiskInv
  <1>2. /\ OnlyMoves(p) /\ disk' = disk /\ revealed' \in {revealed, revealed \cup {p}}
        /\ pc[p] \in {"fetch", "evaluate"} /\ pc'[p] \in {"build", "primary"}
        /\ stage'[p] = stage[p] /\ mem'[p] = mem[p]
    BY DEF FetchPulse, OpenEvaluation, Goto, TypeOK, OnlyMoves
  <1>3. MarkerOf(p)
    BY <1>1, <1>2 DEF ProcInv, Marked, TryBlock
  <1>4. ProcInv(p)'
    BY <1>1, <1>2, <1>3 DEF ProcInv, HasCreated, MarkerOf, WriteLabels
  <1> QED
    BY <1>1, <1>2, <1>3, <1>4, QuietStep

(***************************************************************************)
(* Steps of a marked run that write a file other than the marker.          *)
(***************************************************************************)
AuthoredBy(p) ==
    \A f \in ResultFiles \ {"attempt"} :
        Present(disk'[f]) =>
            \/ Present(disk[f]) /\ disk'[f].body.run = disk[f].body.run
            \/ disk'[f].body.run = p

\* A marked run that writes in its own name preserves the invariant of the disk.
LEMMA MarkedWrite ==
    ASSUME TypeOK, Lasting, MarkerInv, NEW p \in Procs, MarkerOf(p),
           FilesKept, AuthoredBy(p), OnlyMoves(p), ProcInv(p)', revealed' = revealed
    PROVE  MarkerInv'
  <1>1. \A q \in Procs : ProcInv(q)'
    BY OthersUndisturbed DEF MarkerInv
  <1>2. \A q : MarkerOf(q) => MarkerOf(q)'
    BY MarkerPersists
  <1>3. DiskInv'
    BY <1>2 DEF MarkerInv, DiskInv, AuthoredBy
  <1> QED
    BY <1>1, <1>3 DEF MarkerInv

\* The primary evidence is created and filled by a marked run.
LEMMA PrimaryMarker ==
    ASSUME TypeOK, Lasting, MarkerInv, NEW p \in Procs,
           CreatePrimaryEvidence(p) \/ ScoreWindow(p) \/ WriteManifest(p)
    PROVE  MarkerInv'
  <1>1. ProcInv(p) /\ "primary" \in Disk
    BY DEF MarkerInv, Disk, ResultFiles
  <1>2. /\ OnlyMoves(p) /\ revealed' = revealed
        /\ pc[p] \in {"primary", "score", "manifest"}
        /\ pc'[p] \in {"score", "manifest", "verify"}
        /\ stage'[p] = stage[p]
    BY DEF CreatePrimaryEvidence, ScoreWindow, WriteManifest, Goto, TypeOK, OnlyMoves,
       history, seen, provenance
  <1>3. MarkerOf(p) /\ MarkerOf(p)'
    BY <1>1, <1>2, MarkerPersists DEF ProcInv, Marked, TryBlock
  <1>4. disk' = [disk EXCEPT !["primary"] = disk'["primary"]]
    BY <1>1 DEF CreatePrimaryEvidence, ScoreWindow, WriteManifest, TypeOK
  <1>5. Present(disk'["primary"]) /\ AuthoredBy(p)
    <2>1. CASE CreatePrimaryEvidence(p)
      <3>1. disk'["primary"] = Created([NoBody EXCEPT !.run = p])
        BY <1>1, <2>1 DEF CreatePrimaryEvidence, TypeOK
      <3>2. disk'["primary"].body.run = p /\ disk'["primary"].form = "partial"
        BY <3>1, NoBodyType DEF Created, Bodies
      <3> QED
        BY <1>4, <3>2 DEF AuthoredBy, Present, TypeOK, ResultFiles, Disk
    <2>2. CASE ScoreWindow(p) \/ WriteManifest(p)
      <3>1. disk["primary"] \in FileStates(Bodies) /\ Present(disk["primary"])
        BY <1>1, <2>2 DEF TypeOK, ScoreWindow, WriteManifest, ProcInv, HasCreated
      <3>2. /\ disk'["primary"].body.run = disk["primary"].body.run
            /\ disk'["primary"].form \in {disk["primary"].form, "whole"}
        <4>1. CASE ScoreWindow(p)
          <5>1. PICK verdict \in GateVerdicts :
                    disk' = [disk EXCEPT !["primary"].body.artifact = "partial",
                                         !["primary"].body.verdict = verdict]
            BY <4>1 DEF ScoreWindow
          <5>2. disk'["primary"] =
                    [disk["primary"] EXCEPT !.body.artifact = "partial",
                                            !.body.verdict = verdict]
            BY <1>1, <5>1 DEF TypeOK
          <5> QED
            BY <3>1, <5>2 DEF FileStates, Bodies
        <4>2. CASE WriteManifest(p)
          <5>1. disk'["primary"] =
                    [Filled(disk["primary"]) EXCEPT !.body.artifact = "whole"]
            BY <1>1, <4>2 DEF WriteManifest, TypeOK
          <5> QED
            BY <3>1, <5>1 DEF Filled, FileStates, Bodies
        <4> QED
          BY <2>2, <4>1, <4>2
      <3> QED
        BY <1>4, <3>1, <3>2 DEF AuthoredBy, Present, TypeOK, ResultFiles, Disk
    <2> QED
      BY <2>1, <2>2
  <1>6. FilesKept
    BY <1>4, <1>5 DEF FilesKept, TypeOK, Disk, ResultFiles
  <1>7. ProcInv(p)'
    BY <1>1, <1>2, <1>3, <1>5 DEF ProcInv, HasCreated, WriteLabels
  <1> QED
    BY <1>2, <1>3, <1>5, <1>6, <1>7, MarkedWrite

(***************************************************************************)
(* The durable writes.                                                     *)
(***************************************************************************)
\* A durable write changes no other process and no history.
LEMMA OnlyResultsMove ==
    ASSUME TypeOK, NEW p \in Procs, NEW g \in ResultFiles, NEW body \in Bodies,
           NEW next, NEW code, DurableWrite(p, g, body, next, code)
    PROVE  /\ OnlyMoves(p) /\ revealed' = revealed /\ mem' = mem
           /\ \/ stage'[p] # "open" /\ pc'[p] = pc[p]
              \/ stage[p] = "dirsync" /\ stage'[p] = "open" /\ pc'[p] = next
           /\ stage[p] = "open" => stage'[p] = "write"
           /\ stage[p] = "write" => stage'[p] = "fsync"
           /\ stage[p] = "fsync" => stage'[p] = "dirsync"
  BY DEF DurableWrite, Goto, TypeOK, OnlyMoves, history, seen, provenance

\* What a write of g does to the files of the results directory.
LEMMA WriteOnDisk ==
    ASSUME TypeOK, NEW p \in Procs, NEW g \in ResultFiles, NEW body \in Bodies,
           NEW next, NEW code, DurableWrite(p, g, body, next, code),
           stage[p] = "write" => Present(disk[g])
    PROVE  /\ \A f \in ResultFiles :
                  /\ Present(disk[f]) =>
                         Present(disk'[f]) /\ disk'[f].body = disk[f].body
                  /\ Readable(disk[f]) => Readable(disk'[f])
                  /\ Present(disk[f]) /\ disk[f].data => disk'[f].data
                  /\ Present(disk'[f]) => Present(disk[f]) \/ f = g
           /\ stage[p] = "open" =>
                  ~Present(disk[g]) /\ Present(disk'[g]) /\ disk'[g].body = body
           /\ stage[p] = "write" => Readable(disk'[g])
           /\ stage[p] = "fsync" => disk'[g].data
           /\ stage[p] = "dirsync" /\ DirectoryOpens /\ Present(disk[g]) => disk'[g].entry
  <1>1. ResultFiles \subseteq Disk /\ \A f \in ResultFiles : disk[f] \in FileStates(Bodies)
    BY DEF TypeOK, Disk
  <1>2. CASE stage[p] = "open"
    <2>1. disk' = [disk EXCEPT ![g] = Created(body)] /\ ~Present(disk[g])
      BY <1>2 DEF DurableWrite, Creatable
    <2> QED
      BY <1>1, <1>2, <2>1 DEF TypeOK, Created, Present, Readable, FileStates, Forms
  <1>3. CASE stage[p] = "write"
    <2>1. disk' = [disk EXCEPT ![g] = Filled(disk[g])] /\ Present(disk[g])
      BY <1>3 DEF DurableWrite
    <2> QED
      BY <1>1, <1>3, <2>1 DEF TypeOK, Filled, Present, Readable, FileStates
  <1>4. CASE stage[p] = "fsync"
    <2>1. disk' = [disk EXCEPT ![g] = Synced(disk[g])]
      BY <1>4 DEF DurableWrite
    <2> QED
      BY <1>1, <1>4, <2>1 DEF TypeOK, Synced, Present, Readable, FileStates
  <1>5. CASE stage[p] = "dirsync"
    <2>1. disk' = [f \in Disk |-> IF DirectoryOpens /\ f \in Directory(g)
                                 THEN Entered(disk[f]) ELSE disk[f]]
      BY <1>5 DEF DurableWrite
    <2>2. g \in Directory(g)
      BY DEF Directory
    <2> QED
      BY <1>1, <1>5, <2>1, <2>2 DEF Entered, Present, Readable, FileStates
  <1> QED
    BY <1>2, <1>3, <1>4, <1>5 DEF TypeOK, Stages

\* The marker's own write: the run is marked only when the last fsync is done.
LEMMA AttemptMarker ==
    ASSUME DirectoryOpens, TypeOK, Lasting, MarkerInv,
           NEW p \in Procs, WriteAttempt(p)
    PROVE  MarkerInv'
  <1> DEFINE body == mem[p].attempt
  <1>1. /\ DurableWrite(p, "attempt", body, "reload", exit[p])
        /\ "attempt" \in ResultFiles /\ body \in Bodies
        /\ pc[p] = "attempt" /\ ProcInv(p) /\ WritesMarker(p)
    BY DEF WriteAttempt, ResultFiles, TypeOK, Locals, MarkerInv, ProcInv
  <1>2. stage[p] = "write" => Present(disk["attempt"])
    BY <1>1 DEF WritesMarker
  <1>3. /\ OnlyMoves(p) /\ revealed' = revealed /\ mem' = mem
        /\ \/ stage'[p] # "open" /\ pc'[p] = pc[p]
           \/ stage[p] = "dirsync" /\ stage'[p] = "open" /\ pc'[p] = "reload"
        /\ stage[p] = "open" => stage'[p] = "write"
        /\ stage[p] = "write" => stage'[p] = "fsync"
        /\ stage[p] = "fsync" => stage'[p] = "dirsync"
    BY <1>1, OnlyResultsMove
  <1>4. /\ \A f \in ResultFiles :
               /\ Present(disk[f]) =>
                      Present(disk'[f]) /\ disk'[f].body = disk[f].body
               /\ Readable(disk[f]) => Readable(disk'[f])
               /\ Present(disk[f]) /\ disk[f].data => disk'[f].data
               /\ Present(disk'[f]) => Present(disk[f]) \/ f = "attempt"
        /\ stage[p] = "open" =>
               ~Present(disk["attempt"]) /\ Present(disk'["attempt"])
                   /\ disk'["attempt"].body = body
        /\ stage[p] = "write" => Readable(disk'["attempt"])
        /\ stage[p] = "fsync" => disk'["attempt"].data
        /\ stage[p] = "dirsync" /\ Present(disk["attempt"]) => disk'["attempt"].entry
    BY <1>1, <1>2, WriteOnDisk
  <1>5. FilesKept
    BY <1>1, <1>4 DEF FilesKept
  <1>6. ProcInv(p)'
    <2>1. CASE stage'[p] # "open" /\ pc'[p] = pc[p]
      <3>1. WritesMarker(p)'
        BY <1>1, <1>3, <1>4, <2>1 DEF WritesMarker, TypeOK, Stages
      <3> QED
        BY <1>1, <2>1, <3>1
        DEF ProcInv, HasCreated, WriteLabels, Marked, TryBlock, Handler
    <2>2. CASE stage[p] = "dirsync" /\ stage'[p] = "open" /\ pc'[p] = "reload"
      <3>1. MarkerOf(p)'
        BY <1>1, <1>4, <2>2 DEF WritesMarker, MarkerOf, Settled
      <3> QED
        BY <2>2, <3>1 DEF ProcInv, HasCreated
    <2> QED
      BY <1>3, <2>1, <2>2
  <1>7. \A q \in Procs : ProcInv(q)'
    BY <1>3, <1>5, <1>6, OthersUndisturbed DEF MarkerInv
  <1>8. DiskInv'
    <2>1. \A q : MarkerOf(q) => MarkerOf(q)'
      BY MarkerPersists
    <2> QED
      BY <1>3, <1>4, <2>1 DEF MarkerInv, DiskInv
  <1> QED
    BY <1>7, <1>8 DEF MarkerInv

\* The other artifacts are written by marked runs.
LEMMA ResultMarker ==
    ASSUME TypeOK, Lasting, MarkerInv, NEW p \in Procs,
           WriteResolution(p) \/ WriteOutcome(p) \/ WriteFailure(p)
    PROVE  MarkerInv'
  <1>1. PICK g, body, next, code :
          /\ body \in Bodies /\ next \in {"status1", "release"}
          /\ DurableWrite(p, g, body, next, code)
          /\ body.run = p
          /\ pc[p] \in {"resolution", "outcome", "failure"}
          /\ g = IF pc[p] = "resolution" THEN "resolution" ELSE "outcome"
    <2>1. mem[p].resolution \in Bodies /\ mem[p].outcome \in Bodies
      BY DEF TypeOK, Locals
    <2> QED
      BY <2>1 DEF WriteResolution, WriteOutcome, WriteFailure, MarkerInv, ProcInv
  <1>2. /\ g \in ResultFiles /\ g # "attempt" /\ ProcInv(p) /\ MarkerOf(p)
        /\ stage[p] = "write" => Present(disk[g])
    BY <1>1 DEF ResultFiles, MarkerInv, ProcInv, HasCreated, Marked, TryBlock, Handler
  <1>3. /\ OnlyMoves(p) /\ revealed' = revealed /\ mem' = mem
        /\ \/ stage'[p] # "open" /\ pc'[p] = pc[p]
           \/ stage'[p] = "open" /\ pc'[p] = next
        /\ stage[p] = "open" => stage'[p] = "write"
    BY <1>1, <1>2, OnlyResultsMove
  <1>4. /\ \A f \in ResultFiles :
               /\ Present(disk[f]) =>
                      Present(disk'[f]) /\ disk'[f].body = disk[f].body
               /\ Readable(disk[f]) => Readable(disk'[f])
               /\ Present(disk[f]) /\ disk[f].data => disk'[f].data
               /\ Present(disk'[f]) => Present(disk[f]) \/ f = g
        /\ stage[p] = "open" => Present(disk'[g]) /\ disk'[g].body = body
    BY <1>1, <1>2, WriteOnDisk
  <1>5. stage[p] # "open" => Present(disk[g])
    BY <1>1, <1>2 DEF ProcInv, HasCreated
  <1>6. FilesKept
    BY <1>4 DEF FilesKept, ResultFiles
  <1>7. AuthoredBy(p)
    BY <1>1, <1>4, <1>5 DEF AuthoredBy
  <1>8. ProcInv(p)'
    <2>1. MarkerOf(p)'
      BY <1>2, MarkerPersists
    <2>2. Present(disk'[g])
      BY <1>2, <1>4, <1>5
    <2> QED
      BY <1>1, <1>2, <1>3, <2>1, <2>2
      DEF ProcInv, HasCreated, WriteLabels, Marked, TryBlock, Handler
  <1> QED
    BY <1>2, <1>3, <1>6, <1>7, <1>8, MarkedWrite

\* Neither the operator nor the clock nor a power loss breaks the invariant.
LEMMA EnvironmentMarker ==
    ASSUME TypeOK, Lasting, MarkerInv, Environment \/ UNCHANGED vars
    PROVE  MarkerInv'
  <1>1. CASE Tick \/ Operator \/ UNCHANGED vars
    <2>1. UNCHANGED <<pc, stage, mem, disk, revealed>>
      BY <1>1 DEF Tick, Operator, Edit, Restore, vars, control, history, seen, provenance
    <2> QED
      BY <2>1 DEF MarkerInv, ProcInv, HasCreated, DiskInv, MarkerOf, WritesMarker
  <1>2. CASE PowerLoss
    <2>1. \A q : MarkerOf(q) => MarkerOf(q)'
      BY MarkerPersists
    <2>2. \A p \in Procs : ProcInv(p)'
      <3>1. SUFFICES ASSUME NEW p \in Procs PROVE ProcInv(p)'
        OBVIOUS
      <3>2. pc'[p] \in {"idle", "ended", "dead"} /\ stage'[p] = "open"
        <4>1. ProcInv(p)
          BY DEF MarkerInv
        <4> QED
          BY <1>2, <4>1 DEF PowerLoss, Die, LivePids, Alive, TypeOK, ProcInv, WriteLabels
      <3> QED
        BY <3>2 DEF ProcInv, HasCreated, Marked, TryBlock, Handler
    <2>3. \A f \in ResultFiles : Present(disk'[f]) =>
              Present(disk[f]) /\ disk'[f].body = disk[f].body
      BY <1>2 DEF PowerLoss, AfterPowerLoss, AbsentFile, Present, TypeOK, Disk
    <2>4. DiskInv'
      BY <1>2, <2>1, <2>3 DEF PowerLoss, history, seen, provenance, MarkerInv, DiskInv
    <2> QED
      BY <2>2, <2>4 DEF MarkerInv
  <1> QED
    BY <1>1, <1>2 DEF Environment

\* The invariant holds of an empty results directory.
LEMMA InitMarker == Init => MarkerInv
  BY DEF Init, MarkerInv, ProcInv, HasCreated, DiskInv, WriteLabels, Marked, TryBlock,
         Handler, AbsentFile, Present, Disk

\* Every step preserves the invariant of the marker.
LEMMA StepMarker ==
    ASSUME DirectoryOpens, TypeOK, MarkerInv, [Next]_vars
    PROVE  MarkerInv'
  <1> Lasting
    BY StepLasting
  <1>1. ASSUME NEW p \in Runs, Invoke(p) \/ ProcStep(p) \/ Kill(p) PROVE MarkerInv'
    <2>1. p \in Procs
      BY DEF Procs
    <2> QED
      BY <1>1, <2>1, CheckMarker, BuildMarker, LeaveMarker, HistoryMarker,
         PrimaryMarker, AttemptMarker, ResultMarker DEF ProcStep, OneShotStep
  <1> QED
    BY <1>1, EnvironmentMarker DEF Next

\* A run that is past the write of its marker, a run that has seen the pulse
\* and the author of every other artifact is the run named in a whole and
\* durable attempt.json (_create_attempt before fetch_nist_pulse), for any
\* number of runs, provided the results directory can be opened for its fsync.
THEOREM MarkerInvariant == ASSUME DirectoryOpens PROVE Spec => []MarkerInv
  <1>1. Init => MarkerInv
    BY InitMarker
  <1>2. TypeOK /\ MarkerInv /\ [Next]_vars => MarkerInv'
    BY StepMarker
  <1> QED
    BY <1>1, <1>2, TypeCorrect, PTL DEF Spec

\* Whatever is killed, raced or loses power, and even when two runs hold the
\* lock, the pulse is fetched by at most one run, provided the results
\* directory can be opened for its fsync.
THEOREM PulseRevealedOnce == ASSUME DirectoryOpens PROVE Spec => []SingleReveal
  <1>1. MarkerInv => SingleReveal
    BY MarkerIsSingle DEF MarkerInv, DiskInv, SingleReveal
  <1> QED
    BY <1>1, MarkerInvariant, PTL

\* Every artifact belongs to the run whose marker is in attempt.json, and that
\* marker is whole and durable.
THEOREM ArtifactsHaveMarker == ASSUME DirectoryOpens PROVE Spec => []ArtifactsShareMarker
  <1>1. MarkerInv => ArtifactsShareMarker
    BY DEF MarkerInv, DiskInv, MarkerOf, ArtifactsShareMarker
  <1> QED
    BY <1>1, MarkerInvariant, PTL

(***************************************************************************)
(* The lock: whoever works holds it, until somebody is overtaken.          *)
(***************************************************************************)
\* A working process at most moves to another label of its work or to its end.
Continues(p) ==
    /\ lock' = lock
    /\ pc' = [pc EXCEPT ![p] = pc'[p]]
    /\ pc'[p] \notin Unlocked => Working(p)

\* A step that at most continues its own work leaves the lock with who has it.
LEMMA ContinuesHeld ==
    ASSUME TypeOK, Held, NEW p \in Procs, Continues(p)
    PROVE  Held'
  BY DEF TypeOK, Held, Continues, Working

\* The steps of a run outside the lock's calls are of that kind.
LEMMA WorkContinues ==
    ASSUME TypeOK, NEW p \in Procs, OneShotStep(p) \/ Throw(p) \/ Invoke(p) \/ Kill(p)
    PROVE  Continues(p)
  <1>1. CASE WriteAttempt(p) \/ WriteResolution(p) \/ WriteOutcome(p) \/ WriteFailure(p)
    <2>1. PICK g, body, next, code :
            /\ next \in {"reload", "status1", "release"}
            /\ DurableWrite(p, g, body, next, code)
      BY <1>1 DEF WriteAttempt, WriteResolution, WriteOutcome, WriteFailure
    <2>2. pc[p] \in {"attempt", "resolution", "outcome", "failure"}
      BY <1>1 DEF WriteAttempt, WriteResolution, WriteOutcome, WriteFailure
    <2> QED
      BY <2>1, <2>2 DEF DurableWrite, Goto, Continues, Working, Unlocked, TypeOK
  <1>2. CASE Kill(p)
    BY <1>2 DEF Kill, Die, Continues, Unlocked, TypeOK
  <1>3. CASE Throw(p)
    BY <1>3 DEF Throw, Goto, Continues, Working, Unlocked, TypeOK, Preflight, TryBlock,
       Handler, Replaying
  <1>4. CASE Invoke(p)
    BY <1>4 DEF Invoke, Pass, PassLoading, Advance, Goto, Continues, Unlocked, TypeOK
  <1>5. CASE OneShotStep(p) /\ ~(\/ WriteAttempt(p) \/ WriteResolution(p)
                                \/ WriteOutcome(p) \/ WriteFailure(p))
    <2>1. PICK label \in Labels :
            /\ Goto(p, label) /\ lock' = lock
            /\ label \notin Unlocked /\ Working(p)
      BY <1>5
      DEF OneShotStep, RequireTimeWindow, RequireArtifactsAbsent, RequireCleanHead,
          RequirePublicFreeze, DigestImplementation, PrepareRuntime, BuildAttempt,
          ReloadAttempt, FetchPulse, BuildResolution, VerifyResolution,
          RequireOnlyResults, RequireUnchangedDigests, OpenEvaluation,
          CreatePrimaryEvidence, ScoreWindow, WriteManifest, VerifyScientificResult,
          RequireBeforeDeadline, BuildOutcome, FindOutcome, BuildFailure, Pass,
          PassLoading, Advance, Compute,
          Working, Unlocked, Labels, Preflight, TryBlock, Handler
    <2> QED
      BY <2>1 DEF Continues, Goto, TypeOK, Unlocked
  <1> QED
    BY <1>1, <1>2, <1>3, <1>4, <1>5

\* While a live process has the lock nobody else takes it, and a lock that no
\* live process has leaves nobody at work.
LEMMA LockStepHeld ==
    ASSUME TypeOK, Held, NEW p \in Procs, LockStep(p)
    PROVE  Held' \/ Overtakes(p)
  <1>1. ASSUME lock \notin LivePids PROVE \A q \in Procs : ~Working(q)
    BY <1>1 DEF Held, Working, LivePids, Alive, Unlocked
  <1>2. ASSUME TakeLock(p, FirstStep(p)), lock \notin LivePids PROVE Held'
    BY <1>1, <1>2 DEF TakeLock, Goto, TypeOK, Held, Working
  <1>3. CASE AcquireLock(p)
    <2>1. lock \notin LivePids
      BY <1>3, ProcAssumption DEF AcquireLock, LivePids, Procs
    <2> QED
      BY <1>2, <1>3, <2>1 DEF AcquireLock
  <1>4. CASE ReclaimLock(p)
    <2>1. CASE lock \in LivePids
      BY <1>4, <2>1 DEF ReclaimLock, TakeLock, Overtakes
    <2> QED
      BY <1>2, <1>4, <2>1 DEF ReclaimLock
  <1>5. CASE FindStaleLock(p)
    BY <1>5 DEF FindStaleLock, Pass, Advance, Goto, TypeOK, Held, Working, Unlocked
  <1>6. CASE RefuseLock(p)
    BY <1>6 DEF RefuseLock, TypeOK, Held, Working, Unlocked
  <1>7. CASE AbandonLock(p)
    BY <1>7 DEF AbandonLock, Goto, TypeOK, Held, Working, Unlocked
  <1>8. CASE ReleaseLock(p)
    <2>1. Working(p) /\ \A q \in Procs \ {p} : ~Working(q)
      BY <1>8 DEF ReleaseLock, Working, Unlocked, Held
    <2> QED
      BY <1>8, <2>1 DEF ReleaseLock, Goto, TypeOK, Held, Working, Unlocked
  <1> QED
    BY <1>3, <1>4, <1>5, <1>6, <1>7, <1>8 DEF LockStep

\* No other step of a run, kill, power loss or edit takes the lock from its holder.
LEMMA StepHeld ==
    ASSUME TypeOK, Held, [Next]_vars
    PROVE  Held' \/ \E p \in Procs : Overtakes(p)
  <1>1. ASSUME NEW p \in Runs, Invoke(p) \/ ProcStep(p) \/ Kill(p)
        PROVE  Held' \/ \E q \in Procs : Overtakes(q)
    <2>1. p \in Procs
      BY DEF Procs
    <2> QED
      BY <1>1, <2>1, WorkContinues, ContinuesHeld, LockStepHeld DEF ProcStep
  <1>2. CASE PowerLoss
    BY <1>2 DEF PowerLoss, Die, LivePids, Alive, TypeOK, Held, Working, Unlocked
  <1>3. CASE Tick \/ Operator \/ UNCHANGED vars
    BY <1>3 DEF Tick, Operator, Edit, Restore, vars, control, Held, Working
  <1> QED
    BY <1>1, <1>2, <1>3 DEF Next, Environment

\* Whoever works holds the lock file, for any number of processes, kills, power
\* losses and failed releases, until a process that saw the lock dead removes
\* one that a live process has taken meanwhile.
THEOREM LockIsHeld == Spec => HeldUnlessOvertaken
  <1>1. TypeOK /\ [Next]_vars
        => [Held => Held' \/ \E p \in Procs : Overtakes(p)]_vars
    BY StepHeld
  <1> QED
    BY <1>1, TypeCorrect, PTL DEF Spec, HeldUnlessOvertaken
=============================================================================
