---------------------------- MODULE BeaconOneShot ----------------------------
(***************************************************************************)
(* The one-shot runner of the beacon lane (RealLLM/run_beacon_one_shot.py) *)
(* with the calls it makes into RealLLM/beacon_protocol.py.                *)
(*                                                                         *)
(* Several invocations of the runner may be started, by mistake or by a    *)
(* retry script.  They share the proof lock, the results directory, the    *)
(* checkout and the clock.  Between any two of their steps the operator    *)
(* may touch the checkout, the clock may advance, a process may be killed  *)
(* and the machine may lose power; any step may raise instead of           *)
(* completing (Throw), a keyboard interrupt included.                      *)
(*                                                                         *)
(* A digest is modelled by what it tells apart: which parts of the         *)
(* checkout differed from the public freeze when it was taken.             *)
(***************************************************************************)
EXTENDS Naturals, FiniteSets, DurableFiles

CONSTANTS
    Runs,            \* invocations of run_beacon_one_shot.py
    Replays,         \* invocations of run_beacon_regression.py (BeaconRegression)
    NoProc,          \* nobody: no lock holder, no author of a file
    Stale,           \* the pid of a process that died before, holding the lock
    Target,          \* the beacon's target time
    Deadline,        \* the registered execution deadline
    MaxTime,         \* bound: the clock stops here
    MaxEdits,        \* bound: parts of the checkout that differ at one time
    DirectoryOpens   \* the results directory can be opened for its fsync

ASSUME ProcAssumption ==
    /\ Runs \cap Replays = {}
    /\ NoProc \notin Runs \cup Replays
    /\ Stale \notin Runs \cup Replays \cup {NoProc}

ASSUME TimeAssumption ==
    /\ Target \in Nat /\ Deadline \in Nat /\ MaxTime \in Nat /\ MaxEdits \in Nat
    /\ DirectoryOpens \in BOOLEAN

Procs == Runs \cup Replays

(***************************************************************************)
(* The parts of the checkout that the runner tells apart: the registration *)
(* (and ledger), the other registered source files, tracked files that are *)
(* not registered, and the commit HEAD names.                              *)
(***************************************************************************)
Parts == {"registration", "implementation", "other", "HEAD"}
Registered == {"registration", "implementation"}   \* protocolSourceFiles

ResultFiles == {"attempt", "resolution", "primary", "outcome"}
ASSUME FileAssumption == Replays \cap ResultFiles = {}

Disk == ResultFiles \cup Replays     \* a replay's regression file is named by it

\* The entries that the directory fsync after a write of f makes durable.  A
\* regression file is in regressions/, whose own entry nothing syncs.
Directory(f) == IF f \in ResultFiles THEN ResultFiles ELSE {}

Codes == {"none", "0", "1", "2"}
GateVerdicts == {"PASS", "FAIL_GATES"}     \* every gate holds, or one does not
Verdicts == GateVerdicts \cup {"none", "FAIL_EXECUTION"}

(***************************************************************************)
(* The contents of an artifact, all artifacts in one shape: the run it     *)
(* belongs to, its startedAt or finishedAt, the digests it records, and    *)
(* for an outcome its verdict, the run whose resolution it names and the   *)
(* form of resolution.json when its artifact digest was taken; for primary *)
(* evidence, artifact is the form of its manifest and verdict is what the  *)
(* gates say of the retained containers and token metrics.                 *)
(***************************************************************************)
Bodies ==
    [run: Procs \cup {NoProc}, at: Nat,
     registration: SUBSET Parts, implementation: SUBSET Parts,
     verdict: Verdicts, resolution: Procs \cup {NoProc}, artifact: Forms]

NoBody ==
    [run |-> NoProc, at |-> 0, registration |-> {}, implementation |-> {},
     verdict |-> "none", resolution |-> NoProc, artifact |-> "absent"]

Locals ==
    [implementation: SUBSET Parts, attempt: Bodies, resolution: Bodies,
     verdict: Verdicts, outcome: Bodies]

NoLocals ==
    [implementation |-> {}, attempt |-> NoBody, resolution |-> NoBody,
     verdict |-> "none", outcome |-> NoBody]

Preflight == {"window", "absent", "clean", "freeze", "digest", "runtime",
              "mark", "attempt", "reload"}
TryBlock == {"fetch", "build", "check", "resolution", "status1", "digests1",
             "evaluate", "primary", "score", "manifest", "verify", "status2",
             "digests2", "deadline", "conclude", "outcome"}
Handler == {"handle", "failure"}
Replaying == {"load", "replay", "record", "regression"}
Unlocked == {"idle", "lock", "reclaim", "ended", "dead"}
Labels == Preflight \cup TryBlock \cup Handler \cup Replaying \cup Unlocked
            \cup {"release"}

Stages == {"open", "write", "fsync", "dirsync"}    \* of durable_exclusive_write

VARIABLES
    pc,         \* where each process is
    stage,      \* where it is inside durable_exclusive_write
    exit,       \* the exit status it will report
    mem,        \* its local variables
    lock,       \* the pid in .proof-run.lock
    disk,       \* the results directory
    now,        \* the clock
    edited,     \* parts of the checkout that differ from the freeze
    revealed,   \* history: runs that fetched the pulse
    evaluated,  \* history: runs that opened the model and the test split
    tainted,    \* history: runs that loaded an edited source
    reverted    \* history: those whose every edit was taken back meanwhile

control == <<pc, stage, exit>>
seen == <<revealed, evaluated>>
provenance == <<tainted, reverted>>
history == <<seen, provenance>>
vars == <<control, mem, lock, disk, now, edited, history>>

Init ==
    /\ pc = [p \in Procs |-> "idle"]
    /\ stage = [p \in Procs |-> "open"]
    /\ exit = [p \in Procs |-> "none"]
    /\ mem = [p \in Procs |-> NoLocals]
    /\ lock \in {NoProc, Stale}
    /\ disk = [f \in Disk |-> AbsentFile(NoBody)]
    /\ now = 0
    /\ edited = {}
    /\ revealed = {}
    /\ evaluated = {}
    /\ tainted = {}
    /\ reverted = {}

Goto(p, label) == pc' = [pc EXCEPT ![p] = label]

\* What the rest of a process sees of a check that passed: nothing but its pc.
Advance(p, label) ==
    /\ Goto(p, label)
    /\ UNCHANGED <<stage, exit, mem, lock, disk, now, edited, seen>>

Pass(p, label) == Advance(p, label) /\ UNCHANGED provenance

\* A call that imports a module of the checkout, or loads its registration:
\* what it reads stays in the process, and no digest of it is taken.
LoadSources(p) ==
    IF p \in Runs /\ edited \cap Registered # {}
    THEN tainted' = tainted \cup {p} /\ reverted' = reverted \ {p}
    ELSE UNCHANGED provenance

PassLoading(p, label) == Advance(p, label) /\ LoadSources(p)

\* A step that only computes into the process's own variables.
Compute(p, label, locals) ==
    /\ Goto(p, label)
    /\ mem' = [mem EXCEPT ![p] = locals]
    /\ UNCHANGED <<stage, exit, lock, disk, now, edited, history>>

\* A process is alive from its start to its end, and holds its pid meanwhile.
Alive(p) == pc[p] \notin {"idle", "ended", "dead"}
LivePids == {p \in Procs : Alive(p)}

(***************************************************************************)
(* The proof lock: /usr/bin/shlock -p pid -f .proof-run.lock.  shlock is   *)
(* outside the repository.  It links its own file to the lock's name; on   *)
(* a lock whose pid is not running it removes that file and links again.   *)
(* Those are two calls, so two processes that both saw the dead pid can    *)
(* both succeed.                                                           *)
(***************************************************************************)
Invoke(p) ==
    /\ pc[p] = "idle"
    /\ PassLoading(p, "lock")

TakeLock(p, label) ==
    /\ lock' = p
    /\ Goto(p, label)
    /\ UNCHANGED <<stage, exit, mem, disk, now, edited, history>>

FirstStep(p) == IF p \in Runs THEN "window" ELSE "load"

AcquireLock(p) ==
    /\ pc[p] = "lock"
    /\ lock = NoProc
    /\ TakeLock(p, FirstStep(p))

FindStaleLock(p) ==
    /\ pc[p] = "lock"
    /\ lock # NoProc /\ lock \notin LivePids
    /\ Pass(p, "reclaim")

ReclaimLock(p) ==
    /\ pc[p] = "reclaim"
    /\ TakeLock(p, FirstStep(p))

\* Mutant: the return code of shlock is not looked at.
RefuseLockIgnored(p) ==
    /\ pc[p] \in {"lock", "reclaim"}
    /\ Pass(p, FirstStep(p))

\* shlock reports a live holder, or cannot be run: raised before the try
\* block that releases the lock.
RefuseLock(p) ==
    /\ pc[p] \in {"lock", "reclaim"}
    /\ pc' = [pc EXCEPT ![p] = "ended"]
    /\ exit' = [exit EXCEPT ![p] = "1"]
    /\ UNCHANGED <<stage, mem, lock, disk, now, edited, history>>

\* The finally clause: the lock file is unlinked only if it holds this pid.
ReleaseLock(p) ==
    /\ pc[p] = "release"
    /\ lock' = IF lock = p THEN NoProc ELSE lock
    /\ Goto(p, "ended")
    /\ mem' = [mem EXCEPT ![p] = NoLocals]
    /\ UNCHANGED <<stage, exit, disk, now, edited, history>>

\* The lock file cannot be read, or reading or unlinking it raises and the
\* exception replaces the run's result: it stays, naming a process that is gone.
AbandonLock(p) ==
    /\ pc[p] = "release"
    /\ Goto(p, "ended")
    /\ \E code \in {exit[p], "1"} : exit' = [exit EXCEPT ![p] = code]
    /\ mem' = [mem EXCEPT ![p] = NoLocals]
    /\ UNCHANGED <<stage, lock, disk, now, edited, history>>

\* Mutant: a failure that could not be written is tried again.
ThrowAndRetry(p) ==
    /\ pc[p] \in Preflight \cup TryBlock \cup Handler \cup Replaying
    /\ Goto(p, IF pc[p] \in TryBlock \cup Handler THEN "handle" ELSE "release")
    /\ stage' = [stage EXCEPT ![p] = "open"]
    /\ exit' = [exit EXCEPT ![p] = "1"]
    /\ UNCHANGED <<mem, lock, disk, now, edited, history>>

(***************************************************************************)
(* An exception.  Before the marker's write has returned it ends the run;  *)
(* in the try block it enters the handler; in the handler the attempt is   *)
(* left incomplete.  A guard below that is not met leaves only this step.  *)
(***************************************************************************)
Throw(p) ==
    /\ pc[p] \in Preflight \cup TryBlock \cup Handler \cup Replaying
    /\ Goto(p, IF pc[p] \in TryBlock THEN "handle" ELSE "release")
    /\ stage' = [stage EXCEPT ![p] = "open"]
    /\ exit' = [exit EXCEPT ![p] = "1"]
    /\ UNCHANGED <<mem, lock, disk, now, edited, history>>

(***************************************************************************)
(* durable_exclusive_write of body to file f; then the process is at label *)
(* next with the exit status code.                                         *)
(***************************************************************************)
DurableWrite(p, f, body, next, code) ==
    /\ \/ /\ stage[p] = "open"
          /\ Creatable(disk[f])
          /\ disk' = [disk EXCEPT ![f] = Created(body)]
          /\ stage' = [stage EXCEPT ![p] = "write"]
          /\ UNCHANGED <<pc, exit>>
       \/ /\ stage[p] = "write"
          /\ disk' = [disk EXCEPT ![f] = Filled(disk[f])]
          /\ stage' = [stage EXCEPT ![p] = "fsync"]
          /\ UNCHANGED <<pc, exit>>
       \/ /\ stage[p] = "fsync"
          /\ disk' = [disk EXCEPT ![f] = Synced(disk[f])]
          /\ stage' = [stage EXCEPT ![p] = "dirsync"]
          /\ UNCHANGED <<pc, exit>>
       \/ /\ stage[p] = "dirsync"
          /\ disk' = [g \in Disk |->
                        IF DirectoryOpens /\ g \in Directory(f)
                        THEN Entered(disk[g]) ELSE disk[g]]
          /\ stage' = [stage EXCEPT ![p] = "open"]
          /\ Goto(p, next)
          /\ exit' = [exit EXCEPT ![p] = code]
    /\ UNCHANGED <<mem, lock, now, edited, history>>

(***************************************************************************)
(* Preflight of _run_one_shot_locked, in the order of the code.            *)
(***************************************************************************)
RequireTimeWindow(p) ==
    /\ pc[p] = "window"
    /\ Target <= now /\ now <= Deadline
    /\ PassLoading(p, "absent")

RequireArtifactsAbsent(p) ==
    /\ pc[p] = "absent"
    /\ \A f \in ResultFiles : ~Present(disk[f])
    /\ Pass(p, "clean")

\* git status prints nothing.  A clean HEAD that is not the frozen commit is
\* refused one call later, by require_public_freeze; that refusal is taken here.
RequireCleanHead(p) ==
    /\ pc[p] = "clean"
    /\ edited = {}
    /\ \A f \in ResultFiles : ~Present(disk[f])
    /\ Pass(p, "freeze")

RequirePublicFreeze(p) ==
    /\ pc[p] = "freeze"
    /\ edited \cap Registered = {}
    /\ Pass(p, "digest")

DigestImplementation(p) ==
    /\ pc[p] = "digest"
    /\ Compute(p, "runtime",
               [mem[p] EXCEPT !.implementation = edited \cap Registered])

PrepareRuntime(p) ==
    /\ pc[p] = "runtime"
    /\ PassLoading(p, "mark")

(***************************************************************************)
(* _create_attempt: the marker takes the time and the registration digest  *)
(* now, and the implementation digest measured before the runtime was      *)
(* prepared; it is written and read back.                                  *)
(***************************************************************************)
BuildAttempt(p) ==
    /\ pc[p] = "mark"
    /\ Compute(p, "attempt",
               [mem[p] EXCEPT !.attempt =
                   [NoBody EXCEPT !.run = p, !.at = now,
                        !.registration = edited \cap {"registration"},
                        !.implementation = mem[p].implementation]])

WriteAttempt(p) ==
    /\ pc[p] = "attempt"
    /\ DurableWrite(p, "attempt", mem[p].attempt, "reload", exit[p])

ReloadAttempt(p) ==
    /\ pc[p] = "reload"
    /\ Readable(disk["attempt"]) /\ disk["attempt"].body = mem[p].attempt
    /\ Pass(p, "fetch")

(***************************************************************************)
(* The try block.                                                          *)
(***************************************************************************)
FetchPulse(p) ==
    /\ pc[p] = "fetch"
    /\ revealed' = revealed \cup {p}
    /\ Goto(p, "build")
    /\ UNCHANGED <<stage, exit, mem, lock, disk, now, edited, evaluated, provenance>>

BuildResolution(p) ==
    /\ pc[p] = "build"
    /\ Compute(p, "check",
               [mem[p] EXCEPT !.resolution =
                   [NoBody EXCEPT !.run = p,
                        !.registration = edited \cap {"registration"}]])

VerifyResolution(p) ==
    /\ pc[p] = "check"
    /\ mem[p].resolution.registration = edited \cap {"registration"}
    /\ Pass(p, "resolution")

WriteResolution(p) ==
    /\ pc[p] = "resolution"
    /\ DurableWrite(p, "resolution", mem[p].resolution, "status1", exit[p])

\* _assert_normative_state runs twice: before and after the evaluation.  It
\* asks git first, then takes the digests and reads the artifacts.
RequireOnlyResults(p) ==
    /\ pc[p] \in {"status1", "status2"}
    /\ edited = {}
    /\ Pass(p, IF pc[p] = "status1" THEN "digests1" ELSE "digests2")

RequireUnchangedDigests(p) ==
    /\ pc[p] \in {"digests1", "digests2"}
    /\ mem[p].attempt.registration = edited \cap {"registration"}
    /\ mem[p].implementation = edited \cap Registered
    /\ Readable(disk["attempt"]) /\ disk["attempt"].body = mem[p].attempt
    /\ Readable(disk["resolution"]) /\ disk["resolution"].body = mem[p].resolution
    /\ mem[p].resolution.registration = edited \cap {"registration"}
    /\ ~Present(disk["outcome"])
    /\ Pass(p, IF pc[p] = "digests1" THEN "evaluate" ELSE "deadline")

\* run_selected_window: the model and the test split are opened, then the
\* primary-evidence directory is created, the blocks are evaluated, and the
\* manifest that closes the evidence is written last.  Nothing of it is synced.
OpenEvaluation(p) ==
    /\ pc[p] = "evaluate"
    /\ evaluated' = evaluated \cup {p}
    /\ LoadSources(p)
    /\ Goto(p, "primary")
    /\ UNCHANGED <<stage, exit, mem, lock, disk, now, edited, revealed>>

CreatePrimaryEvidence(p) ==
    /\ pc[p] = "primary"
    /\ ~Present(disk["primary"])
    /\ disk' = [disk EXCEPT !["primary"] = Created([NoBody EXCEPT !.run = p])]
    /\ Goto(p, "score")
    /\ UNCHANGED <<stage, exit, mem, lock, now, edited, history>>

\* The last container is there, the gates say PASS or FAIL_GATES, the token
\* metrics are written and manifest.json is opened.
ScoreWindow(p) ==
    /\ pc[p] = "score"
    /\ \E verdict \in GateVerdicts :
           /\ mem' = [mem EXCEPT ![p].verdict = verdict]
           /\ disk' = [disk EXCEPT !["primary"].body.artifact = "partial",
                                  !["primary"].body.verdict = verdict]
    /\ Goto(p, "manifest")
    /\ UNCHANGED <<stage, exit, lock, now, edited, history>>

WriteManifest(p) ==
    /\ pc[p] = "manifest"
    /\ disk' = [disk EXCEPT !["primary"] =
                   [Filled(disk["primary"]) EXCEPT !.body.artifact = "whole"]]
    /\ Goto(p, "verify")
    /\ UNCHANGED <<stage, exit, mem, lock, now, edited, history>>

\* verify_scientific_result: the manifest is the one the result of this run
\* names, the files it lists have their recorded digests, and the gates,
\* computed again from them, give the verdict.
ManifestNamedBy(run) == Present(disk["primary"]) /\ disk["primary"].body.run = run
RetainedIntact == Readable(disk["primary"])
GatesRecomputed(verdict) == disk["primary"].body.verdict = verdict

ScientificResultVerified(run, verdict) ==
    /\ GatesRecomputed(verdict)
    /\ ManifestNamedBy(run)
    /\ RetainedIntact

\* Mutant: the checkout is not checked again after the evaluation.
VerifyScientificResultOnly(p) ==
    /\ pc[p] = "verify"
    /\ ScientificResultVerified(p, mem[p].verdict)
    /\ PassLoading(p, "deadline")

VerifyScientificResult(p) ==
    /\ pc[p] = "verify"
    /\ ScientificResultVerified(p, mem[p].verdict)
    /\ PassLoading(p, "status2")

RequireBeforeDeadline(p) ==
    /\ pc[p] = "deadline"
    /\ now <= Deadline
    /\ Pass(p, "conclude")

BuildOutcome(p) ==
    /\ pc[p] = "conclude"
    /\ Present(disk["attempt"]) /\ Present(disk["resolution"])
    /\ Compute(p, "outcome",
               [mem[p] EXCEPT !.outcome =
                   [run |-> p, at |-> now, verdict |-> mem[p].verdict,
                    registration |-> edited \cap {"registration"},
                    implementation |-> mem[p].implementation,
                    resolution |-> mem[p].resolution.run,
                    artifact |-> disk["resolution"].form]])

\* Mutant: the process exits with the verdict itself.
ExitVerdict(verdict) == verdict

ExitCode(verdict) == IF verdict = "PASS" THEN "0" ELSE "2"

WriteOutcome(p) ==
    /\ pc[p] = "outcome"
    /\ DurableWrite(p, "outcome", mem[p].outcome, "release",
                    ExitCode(mem[p].verdict))

(***************************************************************************)
(* _write_execution_failure: silent when an outcome file is already there, *)
(* whoever wrote it and however much of it.                                *)
(***************************************************************************)
FindOutcome(p) ==
    /\ pc[p] = "handle"
    /\ Present(disk["outcome"])
    /\ Pass(p, "release")

BuildFailure(p) ==
    /\ pc[p] = "handle"
    /\ ~Present(disk["outcome"])
    /\ Present(disk["attempt"])
    /\ Compute(p, "failure",
               [mem[p] EXCEPT !.outcome =
                   [NoBody EXCEPT !.run = p, !.at = now,
                        !.verdict = "FAIL_EXECUTION",
                        !.resolution = mem[p].resolution.run,
                        !.artifact = IF mem[p].resolution.run = NoProc
                                     THEN "absent" ELSE disk["resolution"].form]])

WriteFailure(p) ==
    /\ pc[p] = "failure"
    /\ DurableWrite(p, "outcome", mem[p].outcome, "release", "1")

(***************************************************************************)
(* The environment.                                                        *)
(***************************************************************************)
Tick ==
    /\ now < MaxTime
    /\ now' = now + 1
    /\ UNCHANGED <<control, mem, lock, disk, edited, history>>

Edit(part) ==
    /\ part \notin edited
    /\ Cardinality(edited) < MaxEdits
    /\ edited' = edited \cup {part}
    /\ UNCHANGED <<control, mem, lock, disk, now, history>>

\* The frozen contents come back, at any time: during an evaluation too.
Restore(part) ==
    /\ part \in edited
    /\ edited' = edited \ {part}
    /\ reverted' = IF edited' \cap Registered = {}
                   THEN reverted \cup (tainted \cap LivePids) ELSE reverted
    /\ UNCHANGED <<control, mem, lock, disk, now, seen, tainted>>

Die(procs) ==
    /\ pc' = [p \in Procs |-> IF p \in procs THEN "dead" ELSE pc[p]]
    /\ mem' = [p \in Procs |-> IF p \in procs THEN NoLocals ELSE mem[p]]
    /\ stage' = [p \in Procs |-> IF p \in procs THEN "open" ELSE stage[p]]

Kill(p) ==
    /\ Alive(p)
    /\ Die({p})
    /\ UNCHANGED <<exit, lock, disk, now, edited, history>>

PowerLoss ==
    /\ \E lost \in SUBSET Losable(disk), torn \in SUBSET Tearable(disk) :
           disk' = AfterPowerLoss(disk, NoBody, lost, torn)
    /\ Die(LivePids)
    /\ lock' \in {lock, NoProc}     \* the lock file is never synced
    /\ UNCHANGED <<exit, now, edited, history>>

OneShotStep(p) ==
    \/ RequireTimeWindow(p) \/ RequireArtifactsAbsent(p) \/ RequireCleanHead(p)
    \/ RequirePublicFreeze(p) \/ DigestImplementation(p) \/ PrepareRuntime(p)
    \/ BuildAttempt(p) \/ WriteAttempt(p) \/ ReloadAttempt(p)
    \/ FetchPulse(p) \/ BuildResolution(p) \/ VerifyResolution(p)
    \/ WriteResolution(p)
    \/ RequireOnlyResults(p) \/ RequireUnchangedDigests(p)
    \/ OpenEvaluation(p) \/ CreatePrimaryEvidence(p) \/ ScoreWindow(p)
    \/ WriteManifest(p)
    \/ VerifyScientificResult(p) \/ RequireBeforeDeadline(p)
    \/ BuildOutcome(p) \/ WriteOutcome(p)
    \/ FindOutcome(p) \/ BuildFailure(p) \/ WriteFailure(p)

LockStep(p) ==
    \/ AcquireLock(p) \/ FindStaleLock(p) \/ ReclaimLock(p) \/ RefuseLock(p)
    \/ ReleaseLock(p) \/ AbandonLock(p)

ProcStep(p) == LockStep(p) \/ OneShotStep(p) \/ Throw(p)

Operator == \E part \in Parts : Edit(part) \/ Restore(part)

Environment == Tick \/ Operator \/ PowerLoss

Next ==
    \/ \E p \in Runs : Invoke(p) \/ ProcStep(p) \/ Kill(p)
    \/ Environment

Spec == Init /\ [][Next]_vars

\* Every call a run makes returns or raises: urllib, shlock and the memory
\* probe have timeouts, git and the evaluation are finite.  Nothing obliges
\* anybody to start a run, and nothing spares it from being killed.
FairSpec == Spec /\ \A p \in Runs : WF_vars(ProcStep(p))

-----------------------------------------------------------------------------
(***************************************************************************)
(* Properties.                                                             *)
(***************************************************************************)
TypeOK ==
    /\ pc \in [Procs -> Labels]
    /\ stage \in [Procs -> Stages]
    /\ exit \in [Procs -> Codes]
    /\ mem \in [Procs -> Locals]
    /\ lock \in Procs \cup {NoProc, Stale}
    /\ disk \in [Disk -> FileStates(Bodies)]
    /\ now \in Nat
    /\ edited \in SUBSET Parts
    /\ revealed \in SUBSET Procs
    /\ evaluated \in SUBSET Procs
    /\ tainted \in SUBSET Procs
    /\ reverted \in SUBSET Procs

\* The suite is one-shot: whatever is killed, raced or loses power, and even
\* if two runs hold the lock at once, the pulse is shown to at most one run,
\* because the marker that precedes the fetch cannot be lost or shared.
SingleReveal == \A a, b \in revealed : a = b

\* Every artifact found in the results directory belongs to the run whose
\* marker is there, and that marker is whole and durable: a run that lost
\* the race for the marker leaves nothing that could pass for evidence.
ArtifactsShareMarker ==
    \A f \in ResultFiles \ {"attempt"} :
        Present(disk[f]) =>
            /\ Readable(disk["attempt"]) /\ Settled(disk["attempt"])
            /\ disk[f].body.run = disk["attempt"].body.run

\* A readable PASS or FAIL_GATES outcome was computed by the run that saw the
\* pulse, on a resolution.json that is whole and durable, and no edited source
\* that this run ever loaded was still in the checkout at its last check: only
\* an edit that was taken back while the run lived goes unseen.
VerdictEarned ==
    LET outcome == disk["outcome"] IN
        Readable(outcome) /\ outcome.body.verdict \in GateVerdicts =>
            /\ outcome.body.run \in revealed \cap evaluated
            /\ outcome.body.run \in tainted => outcome.body.run \in reverted
            /\ Readable(disk["resolution"]) /\ Settled(disk["resolution"])
            /\ outcome.body.artifact = "whole"

\* Exit status 0 or 2 is a durable promise: a run that ended with it left an
\* outcome.json of its own with the PASS or FAIL_GATES the status stands for,
\* and no later crash or power loss takes it back.
ExitIsDurable ==
    \A p \in Runs :
        pc[p] = "ended" /\ exit[p] \in {"0", "2"} =>
            /\ Readable(disk["outcome"]) /\ Settled(disk["outcome"])
            /\ disk["outcome"].body.run = p
            /\ exit[p] = ExitCode(disk["outcome"].body.verdict)
            /\ disk["outcome"].body.verdict \in GateVerdicts

\* A process works from shlock's success to the unlink of the lock file.
Working(p) == pc[p] \notin Unlocked

\* Whoever works holds the lock file, so that nobody else works beside it; and
\* over kills, power losses, releases that fail and reclaimed locks, only one
\* step ends that: a process unlinks a lock it had seen dead, and links its
\* own, after a live process has taken the lock.
Held == \A p \in Procs : Working(p) => lock = p
Overtakes(p) == pc[p] = "reclaim" /\ lock \in LivePids /\ lock' = p
HeldUnlessOvertaken == [][Held => Held' \/ \E p \in Procs : Overtakes(p)]_vars

\* An artifact that is whole and durable is never replaced, extended or
\* removed by any run or power loss ("The marker is never removed or
\* replaced").
ArtifactsPermanent ==
    [][\A f \in ResultFiles :
          Readable(disk[f]) /\ Settled(disk[f]) => disk'[f] = disk[f]]_disk

\* Every run that is started ends: it returns, fails or dies.
RunsEnd == \A p \in Runs : pc[p] # "idle" ~> ~Alive(p)

(***************************************************************************)
(* The refinement: the durable part of the results directory, with the two *)
(* histories, moves as BeaconSuite allows.                                 *)
(***************************************************************************)
DurableState ==
    IF Readable(disk["outcome"]) /\ Settled(disk["outcome"])
    THEN disk["outcome"].body.verdict
    ELSE IF Readable(disk["resolution"]) /\ Settled(disk["resolution"])
    THEN "BEACON_RESOLVED"
    ELSE IF Settled(disk["attempt"]) THEN "ATTEMPT_STARTED"
    ELSE "PREREGISTERED"

Suite == INSTANCE BeaconSuite WITH state <- DurableState

\* The registered states are passed in their order, the pulse is revealed and
\* the window evaluated at most once each and only in the state that permits
\* it, and a terminal verdict is final (BEACON_HELDOUT_PROTOCOL.md:149).
ImplementsSuite == Suite!Spec

(***************************************************************************)
(* What the documents say and the code does not do (see README).           *)
(***************************************************************************)
\* "Exit codes are 0 for PASS, 2 for FAIL_GATES, and 1 for execution/
\* integrity failure": a run that leaves its handler with status 1 has not
\* left a readable PASS or FAIL_GATES of its own.
ExitOneMeansFailure ==
    \A p \in Runs :
        pc[p] \in {"release", "ended"} /\ exit[p] = "1"
            /\ Readable(disk["outcome"]) /\ disk["outcome"].body.run = p =>
        disk["outcome"].body.verdict = "FAIL_EXECUTION"

\* "normative implementation changed during execution": a PASS or FAIL_GATES is
\* of the frozen sources, as "a complete PASS establishes that the frozen cache-
\* compression/replay gates pass".
VerdictOnFrozenSources ==
    LET outcome == disk["outcome"] IN
        Readable(outcome) /\ outcome.body.verdict \in GateVerdicts =>
            outcome.body.run \notin tainted

\* "That timestamp is also the completion deadline for a scientific PASS or
\* FAIL_GATES."
ConcludesBeforeDeadline ==
    Readable(disk["outcome"])
        /\ disk["outcome"].body.verdict \in GateVerdicts =>
    disk["outcome"].body.at <= Deadline
=============================================================================
