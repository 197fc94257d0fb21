------------------------- MODULE BeaconVerdictProofs -------------------------
(***************************************************************************)
(* Theorems about what a beacon run concludes: its verdict is earned, its  *)
(* exit status is a durable promise, and the runner implements the         *)
(* registered suite.  They hold for any number of runs, any clock and any  *)
(* sequence of kills, power losses and edits, provided the results         *)
(* directory can be opened for its fsync.                                  *)
(***************************************************************************)
EXTENDS BeaconOneShotProofs

(***************************************************************************)
(* The invariant.  It follows the marked run through its try block: what   *)
(* it has seen, what it has written, and that no edit it loaded was still  *)
(* in the checkout when its sources were confirmed.                        *)
(***************************************************************************)
Over == {"release", "ended", "dead"}
Seen == TryBlock \ {"fetch"}
Confirmed == {"digests2", "deadline", "conclude", "outcome"}
Scored == {"manifest", "verify", "status2"} \cup Confirmed
Opened == {"primary", "score"} \cup Scored
Resolved == {"status1", "digests1", "evaluate"} \cup Opened
Concluding == {"outcome", "handle", "failure"}

\* The histories say where a run can be, and where it is what they say.
HistoryOf(p) ==
    /\ pc[p] \in Seen => p \in revealed
    /\ p \in revealed => pc[p] \in Seen \cup Handler \cup Over
    /\ pc[p] \in Opened => p \in evaluated
    /\ p \in evaluated => p \in revealed /\ pc[p] \in Opened \cup Handler \cup Over

\* While a run that loaded an edited source lives, either the checkout is still
\* edited or the edit was taken back, so that a run whose sources were clean
\* after its evaluation loaded no edited source that was left in place.
Standing == tainted \ reverted
SourcesOf(p) ==
    /\ pc[p] = "idle" => p \notin Standing
    /\ p \in Standing /\ Alive(p) => edited \cap Registered # {}
    /\ pc[p] \in Confirmed => p \notin Standing

\* How far the durable write of f has got.
WritesFile(p, f) ==
    /\ stage[p] # "open" => Present(disk[f])
    /\ stage[p] \in {"fsync", "dirsync"} => Readable(disk[f])
    /\ stage[p] = "dirsync" => disk[f].data

WholeAndDurable(f) == Readable(disk[f]) /\ Settled(disk[f])

ResolutionOf(p) ==
    /\ pc[p] = "resolution" => WritesFile(p, "resolution")
    /\ pc[p] \in Resolved => WholeAndDurable("resolution")

\* The outcome in a run's memory, and the one it is writing.
OutcomeOf(p) ==
    /\ pc[p] \in Scored => mem[p].verdict \in GateVerdicts
    /\ pc[p] = "outcome" =>
           /\ mem[p].outcome.verdict = mem[p].verdict
           /\ mem[p].outcome.artifact = "whole"
           /\ WritesFile(p, "outcome")
           /\ stage[p] # "open" => disk["outcome"].body = mem[p].outcome
    /\ pc[p] = "failure" => mem[p].outcome.verdict = "FAIL_EXECUTION"

\* Status 0 or 2 of a run is set by the return of the outcome's write.
ExitOf(p) ==
    exit[p] \in {"0", "2"} =>
        /\ pc[p] \in Over
        /\ p \in Runs =>
               /\ WholeAndDurable("outcome")
               /\ disk["outcome"].body.run = p
               /\ exit[p] = ExitCode(disk["outcome"].body.verdict)
               /\ disk["outcome"].body.verdict \in GateVerdicts

\* Whoever wrote an artifact had seen the pulse, opened the evaluation or
\* reached its conclusion, and for a scientific verdict had earned it.
ArtifactInv ==
    /\ Present(disk["resolution"]) => disk["resolution"].body.run \in revealed
    /\ Present(disk["primary"]) => disk["primary"].body.run \in evaluated
    /\ Present(disk["outcome"]) =>
           LET body == disk["outcome"].body IN
               /\ body.run \in Procs /\ pc[body.run] \in Concluding \cup Over
               /\ body.verdict \in GateVerdicts \cup {"FAIL_EXECUTION"}
               /\ body.verdict \in GateVerdicts =>
                      /\ body.run \in (revealed \cap evaluated) \ Standing
                      /\ WholeAndDurable("resolution")
                      /\ body.artifact = "whole"

RunInv(p) == HistoryOf(p) /\ SourcesOf(p) /\ ResolutionOf(p) /\ OutcomeOf(p) /\ ExitOf(p)

VerdictInv == (\A p \in Procs : RunInv(p)) /\ ArtifactInv

(***************************************************************************)
(* What one step of a run leaves alone.                                    *)
(***************************************************************************)
\* A step of p is seen by the other processes in the files and in p's entries
\* of the histories only.
ByRun(p) ==
    /\ OnlyMoves(p)
    /\ \A q \in Procs \ {p} : exit'[q] = exit[q]
    /\ edited' = edited
    /\ revealed' \in {revealed, revealed \cup {p}}
    /\ evaluated' \in {evaluated, evaluated \cup {p}}
    /\ \A q \in Procs \ {p} : q \in Standing' <=> q \in Standing

Kept(f) ==
    /\ Present(disk[f]) => Present(disk'[f]) /\ disk'[f].body = disk[f].body
    /\ Readable(disk[f]) => Readable(disk'[f])
    /\ Present(disk[f]) /\ disk[f].data => disk'[f].data

JsonFiles == {"attempt", "resolution", "outcome"}

\* A check that loads sources as it passes.
LEMMA LoadingByRun ==
    ASSUME TypeOK, NEW p \in Procs, NEW label, PassLoading(p, label)
    PROVE  ByRun(p) /\ UNCHANGED <<disk, seen>>
  <1>1. \A q \in Procs \ {p} : q \in Standing' <=> q \in Standing
    BY DEF PassLoading, LoadSources, Standing, provenance
  <1> QED
    BY <1>1 DEF PassLoading, Advance, Goto, TypeOK, ByRun, OnlyMoves, seen

\* The other checks and computations of a run, and everything that ends one.
LEMMA QuietByRun ==
    ASSUME TypeOK, NEW p \in Procs,
           \/ LockStep(p) \/ Throw(p) \/ Kill(p)
           \/ \E label : Pass(p, label) \/ (\E locals : Compute(p, label, locals))
    PROVE  ByRun(p) /\ UNCHANGED <<disk, history>>
  <1> USE DEF ByRun, OnlyMoves, Standing, history, seen, provenance
  <1>1. CASE \E label : Pass(p, label) \/ (\E locals : Compute(p, label, locals))
    BY <1>1 DEF Pass, Advance, Compute, Goto, TypeOK
  <1>3. CASE Throw(p)
    BY <1>3 DEF Throw, Goto, TypeOK
  <1>4. CASE Kill(p)
    BY <1>4 DEF Kill, Die, TypeOK
  <1>5. CASE \E label : TakeLock(p, label)
    BY <1>5 DEF TakeLock, Goto, TypeOK
  <1>6. CASE RefuseLock(p)
    BY <1>6 DEF RefuseLock, TypeOK
  <1>7. CASE ReleaseLock(p)
    BY <1>7 DEF ReleaseLock, Goto, TypeOK
  <1>8. CASE AbandonLock(p)
    <2>1. PICK code : exit' = [exit EXCEPT ![p] = code]
      BY <1>8 DEF AbandonLock
    <2> QED
      BY <1>8, <2>1 DEF AbandonLock, Goto, TypeOK
  <1> QED
    BY <1>1, <1>3, <1>4, <1>5, <1>6, <1>7, <1>8
    DEF LockStep, AcquireLock, FindStaleLock, ReclaimLock

\* What surrounds the work of a process: its start, the lock, and its end.
LEMMA AroundByRun ==
    ASSUME TypeOK, NEW p \in Procs,
           Invoke(p) \/ LockStep(p) \/ Throw(p) \/ Kill(p)
    PROVE  ByRun(p) /\ UNCHANGED <<disk, seen>>
  BY QuietByRun, LoadingByRun DEF Invoke, history

\* The steps that record what a run has seen, or write its primary evidence.
LEMMA EvaluationByRun ==
    ASSUME TypeOK, NEW p \in Procs,
           \/ FetchPulse(p) \/ OpenEvaluation(p)
           \/ CreatePrimaryEvidence(p) \/ ScoreWindow(p) \/ WriteManifest(p)
    PROVE  /\ ByRun(p) /\ exit' = exit /\ stage' = stage
           /\ \A f \in JsonFiles : disk'[f] = disk[f]
  <1> USE DEF Standing, provenance
  <1>1. CASE FetchPulse(p)
    BY <1>1 DEF FetchPulse, Goto, TypeOK, ByRun, OnlyMoves
  <1>2. CASE OpenEvaluation(p)
    <2>1. \A q \in Procs \ {p} : q \in Standing' <=> q \in Standing
      BY <1>2 DEF OpenEvaluation, LoadSources
    <2> QED
      BY <1>2, <2>1 DEF OpenEvaluation, Goto, TypeOK, ByRun, OnlyMoves
  <1>3. CASE CreatePrimaryEvidence(p)
    BY <1>3 DEF CreatePrimaryEvidence, Goto, TypeOK, ByRun, OnlyMoves, history, seen,
       provenance,
       JsonFiles, Disk, ResultFiles
  <1>4. CASE ScoreWindow(p)
    <2>1. PICK verdict \in GateVerdicts :
              /\ mem' = [mem EXCEPT ![p].verdict = verdict]
              /\ disk' = [disk EXCEPT !["primary"].body.artifact = "partial",
                                     !["primary"].body.verdict = verdict]
      BY <1>4 DEF ScoreWindow
    <2>2. \A f \in JsonFiles : disk'[f] = disk[f]
      BY <2>1 DEF TypeOK, JsonFiles, Disk, ResultFiles
    <2>3. OnlyMoves(p)
      BY <1>4, <2>1 DEF ScoreWindow, Goto, TypeOK, OnlyMoves
    <2> QED
      BY <1>4, <2>2, <2>3 DEF ScoreWindow, ByRun, history, seen
  <1>5. CASE WriteManifest(p)
    BY <1>5 DEF WriteManifest, Goto, TypeOK, ByRun, OnlyMoves, history, seen, provenance,
       JsonFiles, Disk, ResultFiles
  <1> QED
    BY <1>1, <1>2, <1>3, <1>4, <1>5

\* A durable write keeps what is on the disk, its own file included.
LEMMA WriteByRun ==
    ASSUME TypeOK, NEW p \in Procs, NEW g \in JsonFiles, NEW body \in Bodies,
           NEW next, NEW code, DurableWrite(p, g, body, next, code),
           stage[p] = "write" => Present(disk[g])
    PROVE  /\ ByRun(p) /\ UNCHANGED <<mem, history>>
           /\ \A f \in JsonFiles : Kept(f)
           /\ \A f \in {"resolution", "outcome", "primary"} :
                  Present(disk'[f]) => Present(disk[f]) \/ f = g
           /\ Present(disk["primary"]) => disk'["primary"].body = disk["primary"].body
  <1>1. JsonFiles \subseteq ResultFiles /\ "primary" \in ResultFiles
    BY DEF JsonFiles, ResultFiles
  <1>2. \A f \in ResultFiles :
            /\ Present(disk[f]) => Present(disk'[f]) /\ disk'[f].body = disk[f].body
            /\ Readable(disk[f]) => Readable(disk'[f])
            /\ Present(disk[f]) /\ disk[f].data => disk'[f].data
            /\ Present(disk'[f]) => Present(disk[f]) \/ f = g
    BY <1>1, WriteOnDisk
  <1>3. ByRun(p) /\ UNCHANGED <<mem, history>>
    <2>1. exit' = exit \/ exit' = [exit EXCEPT ![p] = code]
      BY DEF DurableWrite
    <2>2. UNCHANGED <<mem, edited, history>>
      BY DEF DurableWrite
    <2>3. \A q \in Procs \ {p} : exit'[q] = exit[q]
      BY <2>1 DEF TypeOK
    <2> QED
      BY <1>1, <2>2, <2>3, OnlyResultsMove
      DEF ByRun, Standing, history, seen, provenance
  <1> QED
    BY <1>1, <1>2, <1>3 DEF Kept, ResultFiles

\* A step of p keeps what the invariant says of every other process.
LEMMA OthersKept ==
    ASSUME TypeOK, Lasting, VerdictInv, NEW p \in Procs, ByRun(p),
           \A f \in JsonFiles : Kept(f), NEW q \in Procs \ {p}
    PROVE  RunInv(q)'
  <1>1. /\ pc'[q] = pc[q] /\ stage'[q] = stage[q] /\ mem'[q] = mem[q]
        /\ exit'[q] = exit[q] /\ edited' = edited
        /\ q \in revealed' <=> q \in revealed
        /\ q \in evaluated' <=> q \in evaluated
        /\ q \in Standing' <=> q \in Standing
    BY DEF ByRun, OnlyMoves
  <1>2. \A f \in {"resolution", "outcome"} : WholeAndDurable(f) =>
            WholeAndDurable(f)' /\ disk'[f] = disk[f]
    BY DEF Lasting, Permanent, WholeAndDurable, ResultFiles
  <1>3. Kept("resolution") /\ Kept("outcome")
    BY DEF JsonFiles
  <1>4. RunInv(q)
    BY DEF VerdictInv
  <1>5. HistoryOf(q)' /\ SourcesOf(q)'
    BY <1>1, <1>4 DEF RunInv, HistoryOf, SourcesOf, Alive
  <1>6. \A f \in {"resolution", "outcome"} : WritesFile(q, f) => WritesFile(q, f)'
    BY <1>1, <1>3 DEF WritesFile, Kept
  <1>7. ResolutionOf(q)'
    BY <1>1, <1>2, <1>4, <1>6 DEF RunInv, ResolutionOf
  <1>8. OutcomeOf(q)'
    BY <1>1, <1>3, <1>4, <1>6 DEF RunInv, OutcomeOf, WritesFile, Kept
  <1>9. ExitOf(q)'
    BY <1>1, <1>2, <1>4 DEF RunInv, ExitOf
  <1> QED
    BY <1>5, <1>7, <1>8, <1>9 DEF RunInv

(***************************************************************************)
(* Steps that leave the disk and the histories alone.                      *)
(***************************************************************************)
\* What remains to be shown of such a step: what it does to its own process.
LEMMA QuietVerdict ==
    ASSUME TypeOK, Lasting, VerdictInv, NEW p \in Procs, ByRun(p),
           UNCHANGED <<disk, seen>>, RunInv(p)',
           pc[p] \in Concluding \cup Over => UNCHANGED provenance,
           pc[p] \in Concluding \cup Over => pc'[p] \in Concluding \cup Over
    PROVE  VerdictInv'
  <1>1. \A f \in JsonFiles : Kept(f)
    BY DEF Kept
  <1>2. \A q \in Procs : RunInv(q)'
    BY <1>1, OthersKept
  <1>3. \A q \in Procs \ {p} : pc'[q] = pc[q]
    BY DEF ByRun, OnlyMoves
  <1>4. ASSUME NEW q \in Procs, pc[q] \in Concluding \cup Over, q \notin Standing
        PROVE  q \notin Standing'
    BY <1>4 DEF ByRun, Standing, provenance
  <1>5. ArtifactInv'
    BY <1>3, <1>4 DEF VerdictInv, ArtifactInv, WholeAndDurable, seen
  <1> QED
    BY <1>2, <1>5 DEF VerdictInv

\* The checks lead along the order of the try block, and to the labels after
\* the second status check only from clean sources.
LEMMA CheckVerdict ==
    ASSUME TypeOK, Lasting, MarkerInv, VerdictInv, NEW p \in Procs,
           \/ Invoke(p) \/ RequireTimeWindow(p) \/ RequireArtifactsAbsent(p)
           \/ RequireCleanHead(p) \/ RequirePublicFreeze(p) \/ PrepareRuntime(p)
           \/ ReloadAttempt(p) \/ VerifyResolution(p) \/ RequireOnlyResults(p)
           \/ RequireUnchangedDigests(p) \/ VerifyScientificResult(p)
           \/ RequireBeforeDeadline(p) \/ FindOutcome(p)
    PROVE  VerdictInv'
  <1> USE DEF Confirmed, Scored, Opened, Resolved, Seen, Over, Concluding
  <1>1. PICK label \in Labels :
          /\ \/ Pass(p, label)
             \/ /\ PassLoading(p, label)
                /\ label \notin Confirmed /\ pc[p] \notin Concluding
          /\ label \notin {"idle", "outcome", "failure"} /\ pc[p] \notin Over
          /\ pc[p] \in Seen \cup Handler => label \in Seen \cup Handler \cup Over
          /\ pc[p] \in Opened \cup Handler => label \in Opened \cup Handler \cup Over
          /\ label \in Seen => pc[p] \in Seen
          /\ label \in Opened => pc[p] \in Opened
          /\ label \in Resolved => pc[p] \in Resolved
          /\ label \in Scored => pc[p] \in Scored
          /\ label \in Confirmed => \/ pc[p] \in Confirmed
                                    \/ edited = {} /\ pc[p] = "status2"
          /\ pc[p] \in Concluding => label = "release"
          /\ pc[p] \notin WriteLabels
    BY DEF Invoke, RequireTimeWindow, RequireArtifactsAbsent, RequireCleanHead,
           RequirePublicFreeze, PrepareRuntime, ReloadAttempt, VerifyResolution,
           RequireOnlyResults, RequireUnchangedDigests, VerifyScientificResult,
           RequireBeforeDeadline, FindOutcome, Labels, Preflight, TryBlock,
           Handler, Unlocked, WriteLabels
  <1>2. ProcInv(p) /\ RunInv(p)
    BY DEF MarkerInv, VerdictInv
  <1>3. /\ ByRun(p) /\ pc'[p] = label /\ mem' = mem /\ exit' = exit
        /\ stage' = stage /\ UNCHANGED <<disk, seen>> /\ edited' = edited
    BY <1>1, Moves, QuietByRun, LoadingByRun DEF Pass, PassLoading, Advance
  <1>4. stage'[p] = "open"
    BY <1>1, <1>2, <1>3 DEF ProcInv
  <1>5. HistoryOf(p)'
    BY <1>1, <1>2, <1>3 DEF RunInv, HistoryOf, seen
  <1>6. SourcesOf(p)'
    <2>1. pc[p] # "idle" => Alive(p)
      BY <1>1 DEF Alive
    <2>2. CASE UNCHANGED provenance
      <3>1. p \in Standing' => p \in Standing
        BY <2>2 DEF Standing, provenance
      <3> QED
        BY <1>1, <1>2, <1>3, <2>1, <3>1 DEF RunInv, SourcesOf
    <2>3. CASE LoadSources(p) /\ ~UNCHANGED provenance
      BY <1>1, <1>3, <2>3 DEF SourcesOf, LoadSources, Pass
    <2> QED
      BY <1>1, <2>2, <2>3 DEF Pass, PassLoading
  <1>7. ResolutionOf(p)'
    BY <1>1, <1>2, <1>3, <1>4 DEF RunInv, ResolutionOf, WritesFile, WholeAndDurable
  <1>8. OutcomeOf(p)' /\ ExitOf(p)'
    BY <1>1, <1>2, <1>3, <1>4 DEF RunInv, OutcomeOf, ExitOf
  <1> QED
    BY <1>1, <1>3, <1>5, <1>6, <1>7, <1>8, QuietVerdict DEF RunInv, Pass

\* The steps that build an artifact in memory; the outcome is built from a
\* verdict of the gates and a resolution that is whole.
LEMMA BuildVerdict ==
    ASSUME TypeOK, Lasting, MarkerInv, VerdictInv, NEW p \in Procs,
           \/ DigestImplementation(p) \/ BuildAttempt(p) \/ BuildResolution(p)
           \/ BuildOutcome(p) \/ BuildFailure(p)
    PROVE  VerdictInv'
  <1> USE DEF Confirmed, Scored, Opened, Resolved, Seen, Over, Concluding
  <1>1. ProcInv(p) /\ RunInv(p) /\ mem[p] \in Locals /\ NoBody \in Bodies
    BY NoBodyType DEF MarkerInv, VerdictInv, TypeOK
  <1>2. PICK label, locals :
          /\ Compute(p, label, locals)
          /\ <<pc[p], label>> \in {<<"digest", "runtime">>, <<"mark", "attempt">>,
                 <<"build", "check">>, <<"conclude", "outcome">>, <<"handle", "failure">>}
          /\ label = "outcome" =>
                 /\ locals.verdict = mem[p].verdict
                 /\ locals.outcome.verdict = mem[p].verdict
                 /\ locals.outcome.artifact = "whole"
          /\ label = "failure" => locals.outcome.verdict = "FAIL_EXECUTION"
    <2>1. CASE DigestImplementation(p)
      BY <2>1 DEF DigestImplementation
    <2>2. CASE BuildAttempt(p)
      BY <2>2 DEF BuildAttempt
    <2>3. CASE BuildResolution(p)
      BY <2>3 DEF BuildResolution
    <2>4. CASE BuildOutcome(p)
      <3> DEFINE outcome ==
                   [run |-> p, at |-> now, verdict |-> mem[p].verdict,
                    registration |-> edited \cap {"registration"},
                    implementation |-> mem[p].implementation,
                    resolution |-> mem[p].resolution.run,
                    artifact |-> disk["resolution"].form]
                 locals == [mem[p] EXCEPT !.outcome = outcome]
      <3>1. disk["resolution"].form = "whole"
        BY <1>1, <2>4 DEF BuildOutcome, RunInv, ResolutionOf, WholeAndDurable, Readable
      <3>2. /\ locals.verdict = mem[p].verdict
            /\ locals.outcome.verdict = mem[p].verdict
            /\ locals.outcome.artifact = "whole"
        BY <1>1, <3>1 DEF Locals
      <3>3. Compute(p, "outcome", locals) /\ pc[p] = "conclude"
        BY <2>4 DEF BuildOutcome
      <3> HIDE DEF locals
      <3> QED
        BY <3>2, <3>3
    <2>5. CASE BuildFailure(p)
      <3> DEFINE outcome ==
                   [NoBody EXCEPT !.run = p, !.at = now, !.verdict = "FAIL_EXECUTION",
                        !.resolution = mem[p].resolution.run,
                        !.artifact = IF mem[p].resolution.run = NoProc
                                     THEN "absent" ELSE disk["resolution"].form]
                 locals == [mem[p] EXCEPT !.outcome = outcome]
      <3>1. locals.outcome.verdict = "FAIL_EXECUTION"
        BY <1>1 DEF Locals, Bodies
      <3>2. Compute(p, "failure", locals) /\ pc[p] = "handle"
        BY <2>5 DEF BuildFailure
      <3> HIDE DEF locals
      <3> QED
        BY <3>1, <3>2
    <2> QED
      BY <2>1, <2>2, <2>3, <2>4, <2>5
  <1>3. /\ ByRun(p) /\ pc'[p] = label /\ mem'[p] = locals /\ exit' = exit
        /\ stage' = stage /\ UNCHANGED <<disk, history>> /\ edited' = edited
    BY <1>2, Moves, QuietByRun DEF Compute
  <1>4. stage'[p] = "open"
    BY <1>1, <1>2, <1>3 DEF ProcInv, WriteLabels
  <1>5. HistoryOf(p)'
    BY <1>1, <1>2, <1>3 DEF RunInv, HistoryOf, history, seen, provenance, TryBlock, Handler
  <1>6. SourcesOf(p)'
    <2>1. Alive(p) /\ Standing' = Standing
      BY <1>2, <1>3 DEF Alive, Standing, history, provenance
    <2> QED
      BY <1>1, <1>2, <1>3, <2>1 DEF RunInv, SourcesOf
  <1>7. ResolutionOf(p)'
    BY <1>1, <1>2, <1>3, <1>4 DEF RunInv, ResolutionOf, WritesFile, WholeAndDurable
  <1>8. OutcomeOf(p)'
    BY <1>1, <1>2, <1>3, <1>4 DEF RunInv, OutcomeOf, WritesFile
  <1>9. ExitOf(p)'
    BY <1>1, <1>2, <1>3 DEF RunInv, ExitOf
  <1> QED
    BY <1>2, <1>3, <1>5, <1>6, <1>7, <1>8, <1>9, QuietVerdict DEF RunInv, history

\* An exception, a kill and the lock's calls claim nothing; a status of 0 or 2
\* outlives them only at the end of the run.
LEMMA LeaveVerdict ==
    ASSUME TypeOK, Lasting, MarkerInv, VerdictInv, NEW p \in Procs,
           LockStep(p) \/ Throw(p) \/ Kill(p)
    PROVE  VerdictInv'
  <1> USE DEF Confirmed, Scored, Opened, Resolved, Seen, Over, Concluding
  <1>1. ProcInv(p) /\ RunInv(p)
    BY DEF MarkerInv, VerdictInv
  <1>2. ByRun(p) /\ UNCHANGED <<disk, history>> /\ edited' = edited
    BY QuietByRun DEF ByRun
  <1>3. /\ pc'[p] \notin Seen \cup {"failure"} /\ stage'[p] = "open"
        /\ pc[p] \in Seen \cup Handler \cup Over => pc'[p] \in Handler \cup Over
        /\ pc[p] \in Concluding \cup Over => pc'[p] \in Concluding \cup Over
        /\ pc'[p] # "idle" /\ (Alive(p) \/ ~Alive(p)')
        /\ exit'[p] \in {"0", "2"} => exit'[p] = exit[p] /\ pc'[p] \in Over
    <2>1. CASE AcquireLock(p) \/ FindStaleLock(p) \/ ReclaimLock(p)
      <3>1. PICK label \in {"window", "load", "reclaim"} :
                   TakeLock(p, label) \/ Advance(p, label)
        BY <2>1 DEF AcquireLock, FindStaleLock, ReclaimLock, FirstStep, Pass
      <3>2. /\ stage'[p] = stage[p] /\ exit'[p] = exit[p] /\ pc[p] \in {"lock", "reclaim"}
            /\ pc'[p] = label
        BY <2>1, <3>1, Moves
           DEF AcquireLock, FindStaleLock, ReclaimLock, TakeLock, Pass, Advance
      <3>3. stage[p] = "open" /\ exit[p] \notin {"0", "2"}
        BY <1>1, <3>2 DEF ProcInv, WriteLabels, RunInv, ExitOf
      <3> QED
        BY <3>1, <3>2, <3>3 DEF TryBlock, Handler, Alive
    <2>2. CASE RefuseLock(p)
      BY <1>1, <2>2 DEF RefuseLock, TypeOK, ProcInv, WriteLabels, TryBlock, Handler, Alive
    <2>3. CASE ReleaseLock(p)
      BY <1>1, <2>3 DEF ReleaseLock, Goto, TypeOK, ProcInv, WriteLabels, TryBlock,
         Handler, Alive
    <2>4. CASE AbandonLock(p)
      <3>1. PICK code \in {exit[p], "1"} : exit' = [exit EXCEPT ![p] = code]
        BY <2>4 DEF AbandonLock
      <3> QED
        BY <1>1, <2>4, <3>1 DEF AbandonLock, Goto, TypeOK, ProcInv, WriteLabels, TryBlock,
           Handler, Alive
    <2>5. CASE Throw(p)
      <3>1. pc[p] \notin Over
        BY <2>5 DEF Throw, Preflight, TryBlock, Handler, Replaying
      <3>2. /\ pc'[p] = IF pc[p] \in TryBlock THEN "handle" ELSE "release"
            /\ stage'[p] = "open" /\ exit'[p] = "1"
        BY <2>5 DEF Throw, Goto, TypeOK
      <3>3. Alive(p)
        BY <2>5 DEF Throw, Alive, Preflight, TryBlock, Handler, Replaying
      <3> QED
        BY <3>1, <3>2, <3>3 DEF TryBlock, Handler
    <2>6. CASE Kill(p)
      <3>1. pc'[p] = "dead" /\ stage'[p] = "open" /\ exit'[p] = exit[p] /\ Alive(p)
        BY <2>6 DEF Kill, Die, TypeOK
      <3> QED
        BY <3>1 DEF TryBlock
    <2> QED
      BY <2>1, <2>2, <2>3, <2>4, <2>5, <2>6 DEF LockStep
  <1>4. HistoryOf(p)'
    BY <1>1, <1>2, <1>3 DEF RunInv, HistoryOf, history, seen, provenance, TryBlock
  <1>5. SourcesOf(p)'
    <2>1. Standing' = Standing
      BY <1>2 DEF Standing, history, provenance
    <2> QED
      BY <1>1, <1>2, <1>3, <2>1 DEF RunInv, SourcesOf, TryBlock
  <1>6. ResolutionOf(p)'
    BY <1>3 DEF ResolutionOf, TryBlock
  <1>7. OutcomeOf(p)'
    BY <1>3 DEF OutcomeOf, TryBlock
  <1>8. ExitOf(p)'
    BY <1>1, <1>2, <1>3 DEF RunInv, ExitOf, WholeAndDurable
  <1> QED
    BY <1>2, <1>3, <1>4, <1>5, <1>6, <1>7, <1>8, QuietVerdict DEF RunInv, history

(***************************************************************************)
(* Steps of the evaluation.                                                *)
(***************************************************************************)
\* While a marked run has not concluded there is no outcome of anybody: it
\* would be its own.
LEMMA NotConcluded ==
    ASSUME MarkerInv, VerdictInv, NEW p \in Procs, pc[p] \in Marked,
           pc[p] \notin Concluding
    PROVE  ~Present(disk["outcome"])
  <1>1. MarkerOf(p)
    BY DEF MarkerInv, ProcInv
  <1>2. ASSUME Present(disk["outcome"]) PROVE FALSE
    <2>1. MarkerOf(disk["outcome"].body.run)
      BY <1>2 DEF MarkerInv, DiskInv, ResultFiles
    <2>2. disk["outcome"].body.run = p
      BY <1>1, <2>1, MarkerIsSingle
    <2>3. pc[p] \in Over
      BY <1>2, <2>2 DEF VerdictInv, ArtifactInv
    <2> QED
      BY <2>3 DEF Over, Marked, TryBlock, Handler
  <1> QED
    BY <1>2

\* The fetch and the evaluation record what their run sees; only before its
\* sources are confirmed does a run use them.
LEMMA EvaluationVerdict ==
    ASSUME TypeOK, Lasting, MarkerInv, VerdictInv, NEW p \in Procs,
           \/ FetchPulse(p) \/ OpenEvaluation(p)
           \/ CreatePrimaryEvidence(p) \/ ScoreWindow(p) \/ WriteManifest(p)
    PROVE  VerdictInv'
  <1> USE DEF Confirmed, Scored, Opened, Resolved, Seen, Over, Concluding
  <1>1. ProcInv(p) /\ RunInv(p)
    BY DEF MarkerInv, VerdictInv
  <1>2. /\ ByRun(p) /\ exit' = exit /\ stage' = stage /\ edited' = edited
        /\ \A f \in JsonFiles : disk'[f] = disk[f]
    BY EvaluationByRun DEF ByRun
  <1>3. <<pc[p], pc'[p]>> \in {<<"fetch", "build">>, <<"evaluate", "primary">>,
            <<"primary", "score">>, <<"score", "manifest">>, <<"manifest", "verify">>}
    BY DEF FetchPulse, OpenEvaluation, CreatePrimaryEvidence, ScoreWindow, WriteManifest,
       Goto, TypeOK
  <1>4. /\ revealed' = IF pc[p] = "fetch" THEN revealed \cup {p} ELSE revealed
        /\ evaluated' = IF pc[p] = "evaluate" THEN evaluated \cup {p} ELSE evaluated
        /\ p \in Standing' => p \in Standing \/ edited \cap Registered # {}
    BY <1>3 DEF FetchPulse, OpenEvaluation, CreatePrimaryEvidence, ScoreWindow,
       WriteManifest, LoadSources, Standing, history, seen, provenance
  <1>5. /\ pc'[p] = "manifest" => mem'[p].verdict \in GateVerdicts
        /\ pc'[p] = "verify" => mem'[p] = mem[p]
    <2>1. CASE ScoreWindow(p)
      <3>1. PICK verdict \in GateVerdicts : mem' = [mem EXCEPT ![p].verdict = verdict]
        BY <2>1 DEF ScoreWindow
      <3>2. mem[p] \in Locals
        BY DEF TypeOK
      <3>3. mem'[p] = [mem[p] EXCEPT !.verdict = verdict]
        BY <3>1 DEF TypeOK
      <3>4. mem'[p].verdict = verdict
        BY <3>2, <3>3 DEF Locals
      <3>5. pc[p] = "score"
        BY <2>1 DEF ScoreWindow
      <3> QED
        BY <1>3, <3>4, <3>5
    <2> QED
      BY <1>3, <2>1 DEF FetchPulse, OpenEvaluation, CreatePrimaryEvidence, WriteManifest
  <1>6. HistoryOf(p)'
    BY <1>1, <1>3, <1>4 DEF RunInv, HistoryOf, TryBlock, Handler
  <1>7. SourcesOf(p)'
    <2>1. Alive(p)
      BY <1>3 DEF Alive
    <2>2. p \in Standing' => edited \cap Registered # {}
      BY <1>1, <1>4, <2>1 DEF RunInv, SourcesOf
    <2> QED
      BY <1>2, <1>3, <2>2 DEF SourcesOf
  <1>8. ResolutionOf(p)'
    BY <1>1, <1>2, <1>3 DEF RunInv, ResolutionOf, WholeAndDurable, JsonFiles
  <1>9. OutcomeOf(p)'
    BY <1>1, <1>3, <1>5 DEF RunInv, OutcomeOf
  <1>10. ExitOf(p)'
    BY <1>1, <1>2, <1>3 DEF RunInv, ExitOf
  <1>11. \A q \in Procs : RunInv(q)'
    <2>1. \A f \in JsonFiles : Kept(f)
      BY <1>2 DEF Kept
    <2> QED
      BY <1>2, <1>6, <1>7, <1>8, <1>9, <1>10, <2>1, OthersKept DEF RunInv
  <1>12. ~Present(disk["outcome"])
    BY <1>3, NotConcluded DEF Marked, TryBlock, Handler
  <1>13. Present(disk'["primary"]) => disk'["primary"].body.run \in evaluated'
    <2>1. CASE FetchPulse(p) \/ OpenEvaluation(p)
      BY <1>4, <2>1 DEF FetchPulse, OpenEvaluation, VerdictInv, ArtifactInv
    <2>2. CASE CreatePrimaryEvidence(p)
      <3>1. disk'["primary"] = Created([NoBody EXCEPT !.run = p])
        BY <2>2 DEF CreatePrimaryEvidence, TypeOK, Disk, ResultFiles
      <3>2. disk'["primary"].body.run = p
        BY <3>1, NoBodyType DEF Created, Bodies
      <3>3. p \in evaluated
        BY <1>1, <2>2 DEF CreatePrimaryEvidence, RunInv, HistoryOf
      <3> QED
        BY <1>4, <3>2, <3>3
    <2>3. CASE ScoreWindow(p) \/ WriteManifest(p)
      <3>1. disk["primary"] \in FileStates(Bodies) /\ Present(disk["primary"])
        BY <1>1, <2>3 DEF TypeOK, Disk, ResultFiles, ScoreWindow, WriteManifest,
           ProcInv, HasCreated
      <3>2. disk'["primary"].body.run = disk["primary"].body.run
        <4>1. CASE ScoreWindow(p)
          <5>1. PICK verdict \in GateVerdicts :
                    disk' = [disk EXCEPT !["primary"].body.artifact = "partial",
                                         !["primary"].body.verdict = verdict]
            BY <4>1 DEF ScoreWindow
          <5>2. disk'["primary"] =
                    [disk["primary"] EXCEPT !.body.artifact = "partial",
                                            !.body.verdict = verdict]
            BY <5>1 DEF TypeOK, Disk, ResultFiles
          <5> QED
            BY <3>1, <5>2 DEF FileStates, Bodies
        <4>2. CASE WriteManifest(p)
          <5>1. disk'["primary"] =
                    [Filled(disk["primary"]) EXCEPT !.body.artifact = "whole"]
            BY <4>2 DEF WriteManifest, TypeOK, Disk, ResultFiles
          <5> QED
            BY <3>1, <5>1 DEF Filled, FileStates, Bodies
        <4> QED
          BY <2>3, <4>1, <4>2
      <3> QED
        BY <1>4, <3>1, <3>2 DEF VerdictInv, ArtifactInv
    <2> QED
      BY <2>1, <2>2, <2>3
  <1>14. ArtifactInv'
    BY <1>2, <1>4, <1>12, <1>13 DEF VerdictInv, ArtifactInv, JsonFiles
  <1> QED
    BY <1>11, <1>14 DEF VerdictInv

(***************************************************************************)
(* The durable writes.                                                     *)
(***************************************************************************)
\* A run that writes g is at its next label when g is whole and durable.
LEMMA WritesOn ==
    ASSUME DirectoryOpens, TypeOK, NEW p \in Procs, NEW g \in JsonFiles,
           NEW body \in Bodies, NEW next, NEW code,
           DurableWrite(p, g, body, next, code), WritesFile(p, g)
    PROVE  /\ WritesFile(p, g)'
           /\ disk'[g].body = IF stage[p] = "open" THEN body ELSE disk[g].body
           /\ \/ /\ stage'[p] # "open" /\ pc'[p] = pc[p] /\ exit'[p] = exit[p]
                 /\ Present(disk'[g])
              \/ /\ stage'[p] = "open" /\ pc'[p] = next /\ exit'[p] = code
                 /\ stage[p] = "dirsync" /\ WholeAndDurable(g)'
  <1>1. g \in ResultFiles /\ stage[p] \in Stages
    BY DEF JsonFiles, ResultFiles, TypeOK
  <1>2. /\ \/ stage'[p] # "open" /\ pc'[p] = pc[p]
           \/ stage[p] = "dirsync" /\ stage'[p] = "open" /\ pc'[p] = next
        /\ stage[p] = "open" => stage'[p] = "write"
        /\ stage[p] = "write" => stage'[p] = "fsync"
        /\ stage[p] = "fsync" => stage'[p] = "dirsync"
    BY <1>1, OnlyResultsMove
  <1>3. /\ Present(disk[g]) => Present(disk'[g]) /\ disk'[g].body = disk[g].body
        /\ Readable(disk[g]) => Readable(disk'[g])
        /\ Present(disk[g]) /\ disk[g].data => disk'[g].data
        /\ stage[p] = "open" => Present(disk'[g]) /\ disk'[g].body = body
        /\ stage[p] = "write" => Readable(disk'[g])
        /\ stage[p] = "fsync" => disk'[g].data
        /\ stage[p] = "dirsync" /\ Present(disk[g]) => disk'[g].entry
    BY <1>1, WriteOnDisk DEF WritesFile
  <1>4. exit'[p] = IF stage[p] = "dirsync" THEN code ELSE exit[p]
    BY DEF DurableWrite, TypeOK
  <1>5. WritesFile(p, g)'
    BY <1>1, <1>2, <1>3 DEF WritesFile, Stages
  <1>6. stage[p] = "dirsync" => WholeAndDurable(g)' /\ stage'[p] = "open"
    <2>1. stage[p] = "dirsync" => stage'[p] = "open"
      BY DEF DurableWrite, TypeOK
    <2> QED
      BY <1>3, <2>1 DEF WritesFile, WholeAndDurable, Settled
  <1> QED
    BY <1>1, <1>2, <1>3, <1>4, <1>5, <1>6 DEF WritesFile, Stages

\* A write of g by p: what remains to be shown of it is its own run and file.
LEMMA WriteVerdict ==
    ASSUME TypeOK, Lasting, VerdictInv, NEW p \in Procs, ByRun(p),
           UNCHANGED <<mem, history>>, \A f \in JsonFiles : Kept(f),
           NEW g \in JsonFiles, RunInv(p)',
           \A f \in {"resolution", "outcome", "primary"} :
               Present(disk'[f]) => Present(disk[f]) \/ f = g,
           Present(disk["primary"]) => disk'["primary"].body = disk["primary"].body,
           pc[p] \in Concluding \cup Over => pc'[p] \in Concluding \cup Over,
           g # "attempt" /\ ~Present(disk[g]) => disk'[g].body.run = p,
           g = "resolution" => p \in revealed,
           g = "outcome" =>
               /\ pc'[p] \in Concluding \cup Over
               /\ ~Present(disk["outcome"]) =>
                      LET verdict == disk'["outcome"].body.verdict IN
                          /\ verdict \in GateVerdicts \cup {"FAIL_EXECUTION"}
                          /\ verdict \in GateVerdicts =>
                                 /\ p \in (revealed \cap evaluated) \ Standing
                                 /\ WholeAndDurable("resolution")
                                 /\ disk'["outcome"].body.artifact = "whole"
    PROVE  VerdictInv'
  <1>1. \A q \in Procs : RunInv(q)'
    BY OthersKept
  <1>2. WholeAndDurable("resolution") => WholeAndDurable("resolution")'
    BY DEF Lasting, Permanent, WholeAndDurable, ResultFiles
  <1>3. \A q \in Procs \ {p} : pc'[q] = pc[q]
    BY DEF ByRun, OnlyMoves
  <1>4. /\ revealed' = revealed /\ evaluated' = evaluated /\ Standing' = Standing
        /\ Kept("resolution") /\ Kept("outcome")
    BY DEF history, seen, provenance, Standing, JsonFiles
  <1>5. Present(disk'["resolution"]) => disk'["resolution"].body.run \in revealed
    BY <1>4 DEF VerdictInv, ArtifactInv, Kept
  <1>6. Present(disk'["primary"]) => disk'["primary"].body.run \in evaluated
    <2>1. g # "primary"
      BY DEF JsonFiles
    <2> QED
      BY <2>1 DEF VerdictInv, ArtifactInv
  <1>7. ASSUME Present(disk'["outcome"])
        PROVE  LET body == disk'["outcome"].body IN
                   /\ body.run \in Procs /\ pc'[body.run] \in Concluding \cup Over
                   /\ body.verdict \in GateVerdicts \cup {"FAIL_EXECUTION"}
                   /\ body.verdict \in GateVerdicts =>
                          /\ body.run \in (revealed \cap evaluated) \ Standing
                          /\ WholeAndDurable("resolution")'
                          /\ body.artifact = "whole"
    <2>1. CASE Present(disk["outcome"])
      BY <1>2, <1>3, <1>4, <2>1 DEF VerdictInv, ArtifactInv, Kept
    <2>2. CASE ~Present(disk["outcome"])
      BY <1>2, <1>7, <2>2
    <2> QED
      BY <2>1, <2>2
  <1>8. ArtifactInv'
    BY <1>4, <1>5, <1>6, <1>7 DEF ArtifactInv
  <1> QED
    BY <1>1, <1>8 DEF VerdictInv

\* The marker is written before anything is seen.
LEMMA AttemptVerdict ==
    ASSUME TypeOK, Lasting, MarkerInv, VerdictInv, NEW p \in Procs, WriteAttempt(p)
    PROVE  VerdictInv'
  <1> USE DEF Confirmed, Scored, Opened, Resolved, Seen, Over, Concluding
  <1>1. ProcInv(p) /\ RunInv(p) /\ pc[p] = "attempt"
    BY DEF MarkerInv, VerdictInv, WriteAttempt
  <1>2. /\ DurableWrite(p, "attempt", mem[p].attempt, "reload", exit[p])
        /\ mem[p].attempt \in Bodies
    BY DEF WriteAttempt, TypeOK, Locals
  <1>3. /\ ByRun(p) /\ UNCHANGED <<mem, history>>
        /\ \A f \in JsonFiles : Kept(f)
        /\ \A f \in {"resolution", "outcome", "primary"} :
               Present(disk'[f]) => Present(disk[f]) \/ f = "attempt"
        /\ Present(disk["primary"]) => disk'["primary"].body = disk["primary"].body
    <2>1. stage[p] = "write" => Present(disk["attempt"])
      BY <1>1 DEF ProcInv, WritesMarker
    <2> QED
      BY <1>2, <2>1, WriteByRun DEF JsonFiles
  <1>4. pc'[p] \in {"attempt", "reload"} /\ exit'[p] = exit[p]
    BY <1>1, <1>2 DEF DurableWrite, Goto, TypeOK
  <1>5. /\ p \notin revealed /\ p \notin evaluated
        /\ Alive(p) /\ Standing' = Standing
    BY <1>1, <1>3 DEF RunInv, HistoryOf, TryBlock, Handler, Alive, Standing, history,
       provenance
  <1>6. RunInv(p)'
    BY <1>1, <1>3, <1>4, <1>5
    DEF RunInv, HistoryOf, SourcesOf, ResolutionOf, OutcomeOf, ExitOf, TryBlock, history,
        seen, ByRun
  <1> QED
    BY <1>1, <1>3, <1>6, WriteVerdict DEF JsonFiles

\* The resolution is written by the run that has seen the pulse.
LEMMA ResolutionVerdict ==
    ASSUME DirectoryOpens, TypeOK, Lasting, MarkerInv, VerdictInv,
           NEW p \in Procs, WriteResolution(p)
    PROVE  VerdictInv'
  <1> USE DEF Confirmed, Scored, Opened, Resolved, Seen, Over, Concluding
  <1>1. ProcInv(p) /\ RunInv(p) /\ pc[p] = "resolution"
    BY DEF MarkerInv, VerdictInv, WriteResolution
  <1>2. /\ DurableWrite(p, "resolution", mem[p].resolution, "status1", exit[p])
        /\ mem[p].resolution \in Bodies /\ "resolution" \in JsonFiles
        /\ WritesFile(p, "resolution")
    BY <1>1 DEF WriteResolution, TypeOK, Locals, JsonFiles, RunInv, ResolutionOf
  <1>3. /\ ByRun(p) /\ UNCHANGED <<mem, history>>
        /\ \A f \in JsonFiles : Kept(f)
        /\ \A f \in {"resolution", "outcome", "primary"} :
               Present(disk'[f]) => Present(disk[f]) \/ f = "resolution"
        /\ Present(disk["primary"]) => disk'["primary"].body = disk["primary"].body
    BY <1>2, WriteByRun DEF WritesFile
  <1>4. /\ WritesFile(p, "resolution")'
        /\ disk'["resolution"].body =
               IF stage[p] = "open" THEN mem[p].resolution ELSE disk["resolution"].body
        /\ \/ pc'[p] = "resolution" /\ exit'[p] = exit[p]
           \/ /\ pc'[p] = "status1" /\ exit'[p] = exit[p]
              /\ WholeAndDurable("resolution")'
    BY <1>1, <1>2, WritesOn
  <1>5. /\ p \in revealed /\ p \notin evaluated /\ mem[p].resolution.run = p
        /\ Alive(p) /\ Standing' = Standing
    BY <1>1, <1>3 DEF RunInv, HistoryOf, TryBlock, Handler, ProcInv, Alive, Standing,
       history, provenance
  <1>6. ~Present(disk["resolution"]) => disk'["resolution"].body.run = p
    BY <1>2, <1>4, <1>5 DEF WritesFile
  <1>7. HistoryOf(p)' /\ SourcesOf(p)'
    BY <1>1, <1>3, <1>4, <1>5 DEF RunInv, HistoryOf, SourcesOf, TryBlock, history, seen,
       ByRun
  <1>8. ResolutionOf(p)' /\ OutcomeOf(p)'
    BY <1>4 DEF ResolutionOf, OutcomeOf
  <1>9. ExitOf(p)'
    BY <1>1, <1>4 DEF RunInv, ExitOf
  <1> QED
    BY <1>1, <1>2, <1>3, <1>5, <1>6, <1>7, <1>8, <1>9, WriteVerdict DEF RunInv

\* The outcome of the gates is written by the run that earned it, which ends
\* with its status when the write returns.
LEMMA OutcomeVerdict ==
    ASSUME DirectoryOpens, TypeOK, Lasting, MarkerInv, VerdictInv,
           NEW p \in Procs, WriteOutcome(p)
    PROVE  VerdictInv'
  <1> USE DEF Confirmed, Scored, Opened, Resolved, Seen, Over, Concluding
  <1>1. ProcInv(p) /\ RunInv(p) /\ pc[p] = "outcome"
    BY DEF MarkerInv, VerdictInv, WriteOutcome
  <1> DEFINE code == ExitCode(mem[p].verdict)
  <1>2. /\ DurableWrite(p, "outcome", mem[p].outcome, "release", code)
        /\ mem[p].outcome \in Bodies /\ "outcome" \in JsonFiles
        /\ WritesFile(p, "outcome")
    BY <1>1 DEF WriteOutcome, TypeOK, Locals, JsonFiles, RunInv, OutcomeOf
  <1>3. /\ mem[p].verdict \in GateVerdicts /\ mem[p].outcome.verdict = mem[p].verdict
        /\ mem[p].outcome.artifact = "whole" /\ mem[p].outcome.run = p
        /\ p \in revealed /\ p \in evaluated /\ p \notin Standing
        /\ stage[p] # "open" => disk["outcome"].body = mem[p].outcome
        /\ WholeAndDurable("resolution")
    BY <1>1 DEF RunInv, OutcomeOf, HistoryOf, SourcesOf, ResolutionOf, ProcInv, TryBlock
  <1> HIDE DEF code
  <1>4. /\ ByRun(p) /\ UNCHANGED <<mem, history>>
        /\ \A f \in JsonFiles : Kept(f)
        /\ \A f \in {"resolution", "outcome", "primary"} :
               Present(disk'[f]) => Present(disk[f]) \/ f = "outcome"
        /\ Present(disk["primary"]) => disk'["primary"].body = disk["primary"].body
    BY <1>2, WriteByRun DEF WritesFile
  <1>5. /\ WritesFile(p, "outcome")'
        /\ disk'["outcome"].body = mem[p].outcome
        /\ \/ stage'[p] # "open" /\ pc'[p] = "outcome" /\ exit'[p] = exit[p]
           \/ pc'[p] = "release" /\ exit'[p] = code /\ WholeAndDurable("outcome")'
    BY <1>1, <1>2, <1>3, WritesOn
  <1>6. HistoryOf(p)' /\ SourcesOf(p)'
    BY <1>3, <1>4, <1>5
    DEF HistoryOf, SourcesOf, TryBlock, Standing, history, seen, provenance
  <1>7. WholeAndDurable("resolution")'
    BY <1>3 DEF Lasting, Permanent, WholeAndDurable, ResultFiles
  <1>8. ResolutionOf(p)'
    BY <1>5, <1>7 DEF ResolutionOf
  <1>9. OutcomeOf(p)'
    BY <1>3, <1>4, <1>5 DEF OutcomeOf
  <1>10. ExitOf(p)'
    BY <1>1, <1>3, <1>5 DEF RunInv, ExitOf, code
  <1> QED
    BY <1>1, <1>2, <1>3, <1>4, <1>5, <1>6, <1>8, <1>9, <1>10, WriteVerdict DEF RunInv

\* The failure record claims no verdict of the gates, and its writer ends with
\* status 1.
LEMMA FailureVerdict ==
    ASSUME TypeOK, Lasting, MarkerInv, VerdictInv, NEW p \in Procs, WriteFailure(p)
    PROVE  VerdictInv'
  <1> USE DEF Confirmed, Scored, Opened, Resolved, Seen, Over, Concluding
  <1>1. ProcInv(p) /\ RunInv(p) /\ pc[p] = "failure"
    BY DEF MarkerInv, VerdictInv, WriteFailure
  <1>2. /\ DurableWrite(p, "outcome", mem[p].outcome, "release", "1")
        /\ mem[p].outcome \in Bodies /\ "outcome" \in JsonFiles /\ "outcome" \in ResultFiles
        /\ stage[p] # "open" => Present(disk["outcome"])
    BY <1>1 DEF WriteFailure, TypeOK, Locals, JsonFiles, ResultFiles, ProcInv, HasCreated
  <1>3. mem[p].outcome.verdict = "FAIL_EXECUTION" /\ mem[p].outcome.run = p
    BY <1>1 DEF RunInv, OutcomeOf, ProcInv
  <1>4. /\ ByRun(p) /\ UNCHANGED <<mem, history>>
        /\ \A f \in JsonFiles : Kept(f)
        /\ \A f \in {"resolution", "outcome", "primary"} :
               Present(disk'[f]) => Present(disk[f]) \/ f = "outcome"
        /\ Present(disk["primary"]) => disk'["primary"].body = disk["primary"].body
    BY <1>2, WriteByRun
  <1>5. ~Present(disk["outcome"]) => disk'["outcome"].body = mem[p].outcome
    BY <1>2, WriteOnDisk
  <1>6. /\ pc'[p] \in {"failure", "release"}
        /\ exit'[p] \in {exit[p], "1"}
    BY <1>1, <1>2 DEF DurableWrite, Goto, TypeOK
  <1>7. HistoryOf(p)' /\ SourcesOf(p)'
    <2>1. Alive(p)
      BY <1>1 DEF Alive
    <2> QED
      BY <1>1, <1>4, <1>6, <2>1
      DEF RunInv, HistoryOf, SourcesOf, TryBlock, Handler, Standing, history, seen,
          provenance, ByRun
  <1>8. ResolutionOf(p)' /\ OutcomeOf(p)'
    BY <1>3, <1>4, <1>6 DEF ResolutionOf, OutcomeOf
  <1>9. ExitOf(p)'
    BY <1>1, <1>6 DEF RunInv, ExitOf
  <1>10. "FAIL_EXECUTION" \notin GateVerdicts
    BY DEF GateVerdicts
  <1> QED
    BY <1>1, <1>2, <1>3, <1>4, <1>5, <1>6, <1>7, <1>8, <1>9, <1>10, WriteVerdict
    DEF RunInv

(***************************************************************************)
(* The environment, and the theorems.                                      *)
(***************************************************************************)
\* An edit that is taken back stands against no run that lives; a power loss
\* ends every run and can only lose or tear a file.
LEMMA EnvironmentVerdict ==
    ASSUME TypeOK, Lasting, MarkerInv, VerdictInv, Environment \/ UNCHANGED vars
    PROVE  VerdictInv'
  <1>1. CASE Tick \/ Operator \/ UNCHANGED vars
    <2>1. /\ UNCHANGED <<pc, stage, exit, mem, disk, revealed, evaluated>>
          /\ Standing' \subseteq Standing
          /\ \A p \in Standing' \cap LivePids :
                 edited \cap Registered # {} => edited' \cap Registered # {}
      <3>1. CASE UNCHANGED <<control, mem, disk, history>> /\ edited \subseteq edited'
        BY <3>1 DEF control, history, seen, provenance, Standing
      <3>2. ASSUME NEW part \in Parts, Restore(part) PROVE <2>1
        BY <3>2 DEF Restore, control, seen, Standing
      <3> QED
        BY <1>1, <3>1, <3>2 DEF Tick, Operator, Edit, vars
    <2>2. ASSUME NEW p \in Procs PROVE SourcesOf(p)'
      <3>1. Alive(p)' <=> Alive(p)
        BY <2>1 DEF Alive
      <3>2. Alive(p) <=> p \in LivePids
        BY DEF LivePids
      <3> QED
        BY <2>1, <3>1, <3>2 DEF VerdictInv, RunInv, SourcesOf
    <2>3. \A p \in Procs : HistoryOf(p)' /\ ResolutionOf(p)' /\ OutcomeOf(p)' /\ ExitOf(p)'
      BY <2>1 DEF VerdictInv, RunInv, HistoryOf, ResolutionOf, OutcomeOf, ExitOf,
         WritesFile, WholeAndDurable
    <2>4. ArtifactInv'
      BY <2>1 DEF VerdictInv, ArtifactInv, WholeAndDurable
    <2> QED
      BY <2>2, <2>3, <2>4 DEF VerdictInv, RunInv
  <1>2. CASE PowerLoss
    <2>1. \A f \in {"resolution", "outcome"} : WholeAndDurable(f) =>
              WholeAndDurable(f)' /\ disk'[f] = disk[f]
      BY DEF Lasting, Permanent, WholeAndDurable, ResultFiles
    <2>2. \A f \in ResultFiles : Present(disk'[f]) =>
              Present(disk[f]) /\ disk'[f].body = disk[f].body
      BY <1>2 DEF PowerLoss, AfterPowerLoss, AbsentFile, Present, TypeOK, Disk
    <2>3. /\ \A p \in Procs : pc'[p] = IF Alive(p) THEN "dead" ELSE pc[p]
          /\ UNCHANGED <<exit, revealed, evaluated, Standing, edited>>
      BY <1>2 DEF PowerLoss, Die, LivePids, history, seen, provenance, Standing
    <2>4. ASSUME NEW p \in Procs PROVE RunInv(p)'
      <3>1. RunInv(p) /\ pc'[p] \in {"idle", "ended", "dead"}
        BY <2>3 DEF VerdictInv, Alive
      <3>2. HistoryOf(p)'
        BY <2>3, <3>1 DEF RunInv, HistoryOf, Over, Opened, Scored, Confirmed, Seen,
           TryBlock, Handler, Alive
      <3>3. SourcesOf(p)'
        BY <2>3, <3>1 DEF RunInv, SourcesOf, Confirmed, Alive
      <3>4. ResolutionOf(p)' /\ OutcomeOf(p)'
        BY <3>1 DEF ResolutionOf, OutcomeOf, Resolved, Opened, Scored, Confirmed
      <3>5. ExitOf(p)'
        BY <2>1, <2>3, <3>1 DEF RunInv, ExitOf, Over
      <3> QED
        BY <3>2, <3>3, <3>4, <3>5 DEF RunInv
    <2>5. ArtifactInv'
      BY <2>1, <2>2, <2>3 DEF VerdictInv, ArtifactInv, ResultFiles, Concluding, Over
    <2> QED
      BY <2>4, <2>5 DEF VerdictInv
  <1> QED
    BY <1>1, <1>2 DEF Environment

\* Nothing has been seen, written or concluded in the initial state.
LEMMA InitVerdict == Init => VerdictInv
  BY DEF Init, VerdictInv, RunInv, HistoryOf, SourcesOf, ResolutionOf, OutcomeOf, ExitOf,
         ArtifactInv, Standing, Seen, Opened, Scored, Confirmed, Resolved, TryBlock, AbsentFile,
         Present, Disk, ResultFiles

\* Every step preserves the invariant of the verdict.
LEMMA StepVerdict ==
    ASSUME DirectoryOpens, TypeOK, MarkerInv, VerdictInv, [Next]_vars
    PROVE  VerdictInv'
  <1> Lasting
    BY StepLasting
  <1>1. ASSUME NEW p \in Runs, Invoke(p) \/ ProcStep(p) \/ Kill(p) PROVE VerdictInv'
    <2>1. p \in Procs
      BY DEF Procs
    <2> QED
      BY <1>1, <2>1, CheckVerdict, BuildVerdict, LeaveVerdict, EvaluationVerdict,
         AttemptVerdict, ResolutionVerdict, OutcomeVerdict, FailureVerdict
      DEF ProcStep, OneShotStep
  <1> QED
    BY <1>1, EnvironmentVerdict DEF Next

\* Along the try block a run has what its label says: the pulse, a whole and
\* durable resolution, evaluated windows and no edit left in place behind its
\* last check, and every artifact was written by a run that had them.
THEOREM VerdictInvariant == ASSUME DirectoryOpens PROVE Spec => []VerdictInv
  <1>1. Init => VerdictInv
    BY InitVerdict
  <1>2. TypeOK /\ MarkerInv /\ VerdictInv /\ [Next]_vars => VerdictInv'
    BY StepVerdict
  <1> QED
    BY <1>1, <1>2, TypeCorrect, MarkerInvariant, PTL DEF Spec

\* A readable PASS or FAIL_GATES was computed by the run that saw the pulse, on
\* a resolution.json that is whole and durable, and every edited source that
\* run ever loaded was taken back before its last check.
THEOREM VerdictIsEarned == ASSUME DirectoryOpens PROVE Spec => []VerdictEarned
  <1>1. VerdictInv => VerdictEarned
    BY DEF VerdictInv, ArtifactInv, WholeAndDurable, VerdictEarned, Standing, Readable,
       Present
  <1> QED
    BY <1>1, VerdictInvariant, PTL

\* A run that ended with status 0 or 2 left an outcome of its own with the
\* verdict that status stands for, and nothing takes it back.
THEOREM ExitStatusIsDurable == ASSUME DirectoryOpens PROVE Spec => []ExitIsDurable
  <1>1. VerdictInv => ExitIsDurable
    BY DEF VerdictInv, RunInv, ExitOf, WholeAndDurable, ExitIsDurable, Procs
  <1> QED
    BY <1>1, VerdictInvariant, PTL

(***************************************************************************)
(* The refinement: each step of the runner is a step of the suite or       *)
(* leaves the durable state and the histories as they are.                 *)
(***************************************************************************)
\* A file that exists after a step existed before with the same body, or was
\* created by the step and is partial; what is settled stays settled.
FileMoves(f) ==
    /\ Present(disk'[f]) =>
           \/ Present(disk[f]) /\ disk'[f].body = disk[f].body
           \/ disk'[f].form = "partial"
    /\ Settled(disk[f]) => Settled(disk'[f])

\* A durable write moves every file of the directory so.
LEMMA WriteMoves ==
    ASSUME TypeOK, NEW p \in Procs, NEW g \in JsonFiles, NEW body \in Bodies,
           NEW next, NEW code, DurableWrite(p, g, body, next, code),
           stage[p] = "write" => Present(disk[g]), NEW f \in JsonFiles
    PROVE  FileMoves(f)
  <1>1. /\ f \in Disk /\ g \in Disk /\ disk[f] \in FileStates(Bodies)
        /\ disk[g] \in FileStates(Bodies)
    BY DEF TypeOK, JsonFiles, Disk, ResultFiles
  <1>2. CASE Creatable(disk[g]) /\ disk' = [disk EXCEPT ![g] = Created(body)]
    BY <1>1, <1>2 DEF TypeOK, FileMoves, Creatable, Created, Present, Settled
  <1>3. CASE Present(disk[g]) /\ disk' = [disk EXCEPT ![g] = Filled(disk[g])]
    BY <1>1, <1>3 DEF TypeOK, FileMoves, Filled, Present, Settled, FileStates
  <1>4. CASE disk' = [disk EXCEPT ![g] = Synced(disk[g])]
    BY <1>1, <1>4 DEF TypeOK, FileMoves, Synced, Present, Settled, FileStates
  <1>5. CASE disk' = [h \in Disk |->
                        IF DirectoryOpens /\ h \in Directory(g)
                        THEN Entered(disk[h]) ELSE disk[h]]
    <2>1. disk'[f] \in {Entered(disk[f]), disk[f]}
      BY <1>1, <1>5
    <2> QED
      BY <1>1, <2>1 DEF FileMoves, Entered, Present, Settled, FileStates
  <1> QED
    BY <1>2, <1>3, <1>4, <1>5 DEF DurableWrite

\* So does every other step.
LEMMA StepMoves ==
    ASSUME TypeOK, [Next]_vars, MarkerInv, NEW f \in JsonFiles
    PROVE  FileMoves(f)
  <1>1. CASE disk'[f] = disk[f]
    BY <1>1 DEF FileMoves
  <1>2. ASSUME NEW p \in Procs,
               WriteAttempt(p) \/ WriteResolution(p) \/ WriteOutcome(p) \/ WriteFailure(p)
        PROVE  FileMoves(f)
    <2>1. PICK g \in JsonFiles, body \in Bodies :
            /\ \E next, code : DurableWrite(p, g, body, next, code)
            /\ stage[p] = "write" => Present(disk[g])
      <3>1. ProcInv(p) /\ mem[p] \in Locals
        BY DEF MarkerInv, TypeOK
      <3> QED
        BY <1>2, <3>1 DEF WriteAttempt, WriteResolution, WriteOutcome, WriteFailure,
           JsonFiles, Locals, ProcInv, WritesMarker, HasCreated
    <2> QED
      BY <2>1, WriteMoves
  <1>3. ASSUME NEW p \in Procs, OneShotStep(p) PROVE FileMoves(f)
    <2>1. CASE \/ FetchPulse(p) \/ OpenEvaluation(p)
               \/ CreatePrimaryEvidence(p) \/ ScoreWindow(p) \/ WriteManifest(p)
      BY <1>1, <2>1, EvaluationByRun
    <2>2. CASE disk' = disk
      BY <1>1, <2>2
    <2> QED
      BY <1>2, <1>3, <2>1, <2>2
      DEF OneShotStep, RequireTimeWindow, RequireArtifactsAbsent, RequireCleanHead,
          RequirePublicFreeze, DigestImplementation, PrepareRuntime, BuildAttempt,
          ReloadAttempt, BuildResolution, VerifyResolution, RequireOnlyResults,
          RequireUnchangedDigests, VerifyScientificResult, RequireBeforeDeadline,
          BuildOutcome, FindOutcome, BuildFailure, Pass, PassLoading, Advance, Compute
  <1>4. ASSUME NEW p \in Procs, Invoke(p) \/ LockStep(p) \/ Throw(p) \/ Kill(p)
        PROVE  FileMoves(f)
    BY <1>1, <1>4, AroundByRun
  <1>5. CASE PowerLoss
    <2>1. PICK lost \in SUBSET Losable(disk), torn \in SUBSET Tearable(disk) :
              disk' = AfterPowerLoss(disk, NoBody, lost, torn)
      BY <1>5 DEF PowerLoss
    <2>2. f \in DOMAIN disk
      BY DEF TypeOK, JsonFiles, Disk, ResultFiles
    <2>3. Settled(disk[f]) => f \notin lost
      BY <2>1 DEF Losable, Settled
    <2> QED
      BY <2>1, <2>2, <2>3 DEF FileMoves, AfterPowerLoss, AbsentFile, Present, Settled
  <1>6. CASE Tick \/ Operator \/ UNCHANGED vars
    BY <1>1, <1>6 DEF Tick, Operator, Edit, Restore, vars
  <1> QED
    BY <1>3, <1>4, <1>5, <1>6 DEF Next, ProcStep, Environment, Procs

\* The histories change at the fetch and at the start of the evaluation only.
LEMMA HistoryMoves ==
    ASSUME TypeOK, [Next]_vars,
           \A p \in Runs : ~FetchPulse(p) /\ ~OpenEvaluation(p)
    PROVE  revealed' = revealed /\ evaluated' = evaluated
  <1>1. ASSUME NEW p \in Runs, OneShotStep(p)
        PROVE  revealed' = revealed /\ evaluated' = evaluated
    BY <1>1
    DEF OneShotStep, RequireTimeWindow, RequireArtifactsAbsent, RequireCleanHead,
        RequirePublicFreeze, DigestImplementation, PrepareRuntime, BuildAttempt,
        WriteAttempt, ReloadAttempt, BuildResolution, VerifyResolution,
        WriteResolution, RequireOnlyResults, RequireUnchangedDigests,
        CreatePrimaryEvidence, ScoreWindow, WriteManifest, VerifyScientificResult,
        RequireBeforeDeadline, BuildOutcome, WriteOutcome, FindOutcome, BuildFailure,
        WriteFailure, DurableWrite, Pass, PassLoading, Advance, Compute, history, seen,
        provenance
  <1>2. ASSUME NEW p \in Runs, Invoke(p) \/ LockStep(p) \/ Throw(p) \/ Kill(p)
        PROVE  revealed' = revealed /\ evaluated' = evaluated
    BY <1>2, AroundByRun DEF seen, Procs
  <1>3. CASE Environment \/ UNCHANGED vars
    BY <1>3 DEF Environment, Tick, Operator, Edit, Restore, PowerLoss, vars, history,
       seen, provenance
  <1> QED
    BY <1>1, <1>2, <1>3 DEF Next, ProcStep

\* Before the marker's write is durable nothing else is there, and after it the
\* state of the suite is at least ATTEMPT_STARTED.
LEMMA StateOfFiles ==
    ASSUME MarkerInv
    PROVE  /\ Present(disk["outcome"]) => Settled(disk["attempt"])
           /\ Present(disk["resolution"]) => Settled(disk["attempt"])
           /\ WholeAndDurable("outcome") => DurableState = disk["outcome"].body.verdict
           /\ ~WholeAndDurable("outcome") =>
                  DurableState = IF WholeAndDurable("resolution") THEN "BEACON_RESOLVED"
                                 ELSE IF Settled(disk["attempt"]) THEN "ATTEMPT_STARTED"
                                 ELSE "PREREGISTERED"
  BY DEF MarkerInv, DiskInv, MarkerOf, ResultFiles, WholeAndDurable, DurableState

\* The pulse is revealed once, in the state that permits it.
LEMMA RevealRefines ==
    ASSUME MarkerInv, VerdictInv, NEW p \in Runs, FetchPulse(p)
    PROVE  Suite!Reveal(p)
  <1>1. p \in Procs /\ pc[p] = "fetch"
    BY DEF FetchPulse, Procs
  <1>2. MarkerOf(p) /\ ~Present(disk["outcome"])
    <2>1. pc[p] \in Marked /\ pc[p] \notin Concluding
      BY <1>1 DEF Marked, TryBlock, Concluding
    <2> QED
      BY <1>1, <2>1, NotConcluded DEF MarkerInv, ProcInv
  <1>3. revealed = {}
    <2>1. \A q \in revealed : q = p
      BY <1>2, MarkerIsSingle DEF MarkerInv, DiskInv
    <2>2. p \notin revealed
      BY <1>1 DEF VerdictInv, RunInv, HistoryOf, Seen, Over, Handler
    <2> QED
      BY <2>1, <2>2
  <1>4. ~Present(disk["resolution"])
    BY <1>3 DEF VerdictInv, ArtifactInv
  <1>5. DurableState = "ATTEMPT_STARTED"
    BY <1>2, <1>4, StateOfFiles DEF WholeAndDurable, Settled, MarkerOf
  <1>6. DurableState' = DurableState
    BY DEF FetchPulse, DurableState
  <1> QED
    BY <1>3, <1>5, <1>6 DEF FetchPulse, Suite!Reveal

\* The window is evaluated once, by the run that saw the pulse.
LEMMA EvaluateRefines ==
    ASSUME TypeOK, MarkerInv, VerdictInv, NEW p \in Runs, OpenEvaluation(p)
    PROVE  Suite!Evaluate(p)
  <1>1. p \in Procs /\ pc[p] = "evaluate"
    BY DEF OpenEvaluation, Procs
  <1>2. MarkerOf(p) /\ ~Present(disk["outcome"])
    <2>1. pc[p] \in Marked /\ pc[p] \notin Concluding
      BY <1>1 DEF Marked, TryBlock, Concluding
    <2> QED
      BY <1>1, <2>1, NotConcluded DEF MarkerInv, ProcInv
  <1>3. HistoryOf(p) /\ ResolutionOf(p)
    BY <1>1 DEF VerdictInv, RunInv
  <1>4. p \in revealed /\ p \notin evaluated
    BY <1>1, <1>3 DEF HistoryOf, Seen, Opened, Scored, Confirmed, Over, Handler, TryBlock
  <1>5. evaluated = {}
    <2>1. \A q \in evaluated : q \in revealed
      BY DEF TypeOK, VerdictInv, RunInv, HistoryOf
    <2>2. \A q \in revealed : q = p
      BY <1>2, MarkerIsSingle DEF MarkerInv, DiskInv
    <2> QED
      BY <1>4, <2>1, <2>2
  <1>6. DurableState = "BEACON_RESOLVED"
    BY <1>1, <1>2, <1>3, StateOfFiles DEF ResolutionOf, Resolved, WholeAndDurable, Settled
  <1>7. DurableState' = DurableState
    BY DEF OpenEvaluation, DurableState
  <1> QED
    BY <1>4, <1>5, <1>6, <1>7 DEF OpenEvaluation, Suite!Evaluate

\* Every other step moves the durable state along its order, or not at all.
LEMMA DiskRefines ==
    ASSUME TypeOK, MarkerInv, MarkerInv', VerdictInv, VerdictInv', [Next]_vars,
           revealed' = revealed, evaluated' = evaluated
    PROVE  [Suite!Next]_Suite!vars
  <1> DEFINE O == WholeAndDurable("outcome")
             R == WholeAndDurable("resolution")
             A == Settled(disk["attempt"])
             verdict == disk["outcome"].body.verdict
  <1>1. /\ O => O' /\ disk'["outcome"] = disk["outcome"]
        /\ R => R'
    BY StepPermanent DEF Permanent, WholeAndDurable, ResultFiles
  <1>2. FileMoves("attempt") /\ FileMoves("resolution") /\ FileMoves("outcome")
    BY StepMoves DEF JsonFiles
  <1>3. A => A'
    BY <1>2 DEF FileMoves
  <1>4. /\ R \/ Present(disk["resolution"]) \/ Present(disk["outcome"]) => A
        /\ O => DurableState = verdict
        /\ ~O => DurableState = IF R THEN "BEACON_RESOLVED"
                                ELSE IF A THEN "ATTEMPT_STARTED" ELSE "PREREGISTERED"
    BY StateOfFiles DEF WholeAndDurable, Settled
  <1>5. /\ O' => DurableState' = verdict'
        /\ ~O' => DurableState' = IF R' THEN "BEACON_RESOLVED"
                                  ELSE IF A' THEN "ATTEMPT_STARTED" ELSE "PREREGISTERED"
    BY DEF MarkerInv, DiskInv, MarkerOf, ResultFiles, WholeAndDurable, DurableState
  <1>6. O' => /\ Present(disk["outcome"])
              /\ verdict' \in GateVerdicts \cup {"FAIL_EXECUTION"}
              /\ verdict' \in GateVerdicts => R /\ evaluated # {}
    <2>1. O' => Present(disk["outcome"]) /\ disk'["outcome"].body = disk["outcome"].body
      BY <1>2 DEF FileMoves, WholeAndDurable, Readable, Settled
    <2> QED
      BY <2>1 DEF VerdictInv, ArtifactInv
  <1>7. R' => Present(disk["resolution"]) /\ revealed # {}
    <2>1. R' => Present(disk["resolution"])
      BY <1>2 DEF FileMoves, WholeAndDurable, Readable, Settled
    <2> QED
      BY <2>1 DEF VerdictInv, ArtifactInv
  <1> HIDE DEF O, R, A, verdict
  <1>8. CASE O
    BY <1>1, <1>4, <1>5, <1>8 DEF verdict, Suite!vars
  <1>9. CASE ~O /\ O'
    <2>1. DurableState \in {"ATTEMPT_STARTED", "BEACON_RESOLVED"} /\ DurableState' = verdict'
      BY <1>4, <1>5, <1>6, <1>9
    <2>2. CASE verdict' = "FAIL_EXECUTION"
      <3>1. Suite!FailExecution
        BY <2>1, <2>2 DEF Suite!FailExecution
      <3> QED
        BY <3>1 DEF Suite!Next
    <2>3. CASE verdict' \in GateVerdicts
      <3>1. Suite!Conclude(verdict') /\ verdict' \in {"PASS", "FAIL_GATES"}
        BY <1>4, <1>6, <1>9, <2>1, <2>3 DEF Suite!Conclude, GateVerdicts
      <3> QED
        BY <3>1 DEF Suite!Next
    <2> QED
      BY <1>6, <1>9, <2>2, <2>3
  <1>10. CASE ~O /\ ~O' /\ R
    BY <1>1, <1>4, <1>5, <1>10 DEF Suite!vars
  <1>11. CASE ~O /\ ~O' /\ ~R /\ R'
    <2>1. Suite!Resolve
      BY <1>4, <1>5, <1>7, <1>11 DEF Suite!Resolve
    <2> QED
      BY <2>1 DEF Suite!Next
  <1>12. CASE ~O /\ ~O' /\ ~R /\ ~R'
    <2>1. CASE A' = A
      BY <1>4, <1>5, <1>12, <2>1 DEF Suite!vars
    <2>2. CASE ~A /\ A'
      <3>1. Suite!StartAttempt
        BY <1>4, <1>5, <1>12, <2>2 DEF Suite!StartAttempt
      <3> QED
        BY <3>1 DEF Suite!Next
    <2>3. A \in BOOLEAN /\ A' \in BOOLEAN
      BY DEF A, Settled, TypeOK, MarkerInv
    <2> QED
      BY <1>3, <2>1, <2>2, <2>3
  <1> QED
    BY <1>8, <1>9, <1>10, <1>11, <1>12

\* Every step of the runner is a step of the suite, or changes nothing of it.
LEMMA StepRefines ==
    ASSUME TypeOK, MarkerInv, MarkerInv', VerdictInv, VerdictInv', [Next]_vars
    PROVE  [Suite!Next]_Suite!vars
  <1>1. CASE \A p \in Runs : ~FetchPulse(p) /\ ~OpenEvaluation(p)
    BY <1>1, HistoryMoves, DiskRefines
  <1>2. ASSUME NEW p \in Runs, FetchPulse(p) PROVE Suite!Next
    BY <1>2, RevealRefines DEF Suite!Next
  <1>3. ASSUME NEW p \in Runs, OpenEvaluation(p) PROVE Suite!Next
    BY <1>3, EvaluateRefines DEF Suite!Next
  <1> QED
    BY <1>1, <1>2, <1>3

\* An empty results directory is the unstarted suite.
LEMMA InitRefines == Init => Suite!Init
  BY DEF Init, Suite!Init, DurableState, AbsentFile, Readable, Settled, Present, Disk,
     ResultFiles

\* The runner implements the registered suite: whatever is killed, raced or
\* loses power, the durable states are passed in their order, the pulse is
\* revealed and the window evaluated at most once each and only in the state
\* that permits it, and a terminal verdict is final.
THEOREM SuiteIsImplemented == ASSUME DirectoryOpens PROVE Spec => ImplementsSuite
  <1>1. Init => Suite!Init
    BY InitRefines
  <1>2. /\ TypeOK /\ MarkerInv /\ MarkerInv' /\ VerdictInv /\ VerdictInv' /\ [Next]_vars
        => [Suite!Next]_Suite!vars
    BY StepRefines
  <1> QED
    BY <1>1, <1>2, TypeCorrect, MarkerInvariant, VerdictInvariant, PTL
    DEF Spec, ImplementsSuite, Suite!Spec
=============================================================================
