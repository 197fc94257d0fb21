------------------------- MODULE BeaconReadersProofs -------------------------
(***************************************************************************)
(* Theorems about those who read the beacon evidence: the verifier and the *)
(* publication auditor (BeaconAudit), and the regression runner            *)
(* (BeaconRegression).  They hold for any number of runs and replays, any  *)
(* clock and any sequence of kills, power losses and edits, provided the   *)
(* results directory can be opened for its fsync.                          *)
(***************************************************************************)
EXTENDS BeaconAudit, BeaconRegression, BeaconVerdictProofs

(***************************************************************************)
(* The auditor.                                                            *)
(***************************************************************************)
\* The one class that permits another start is given when there is neither a
\* marker nor an outcome.
LEMMA OnlyAbsentIsUnstarted ==
    ASSUME TypeOK
    PROVE  Classification = "NOT_STARTED_PREFLIGHT_REJECTION" <=>
               ~Present(Attempt) /\ ~Present(Outcome)
  <1>1. Outcome.body.verdict \in Verdicts
    BY DEF TypeOK, Outcome, Disk, ResultFiles, FileStates, Bodies
  <1> QED
    BY <1>1 DEF Classification, Incomplete, Concluded, Verdicts, GateVerdicts

\* A terminal class is given on a readable marker and a readable outcome that
\* the verifier accepts.
LEMMA TerminalIsVerified ==
    ASSUME Classification \in TerminalVerdicts
    PROVE  /\ Readable(Attempt) /\ Readable(Outcome)
           /\ EvidenceVerified /\ PrimaryAllowed
           /\ Classification = Outcome.body.verdict
  BY DEF Classification, Incomplete, Concluded, TerminalVerdicts, GateVerdicts

\* Once the pulse has been seen, no crash, race or power loss brings the suite
\* back to the one class that permits another start.
THEOREM RevealIsConsumed == ASSUME DirectoryOpens PROVE Spec => []RevealConsumes
  <1>1. TypeOK /\ MarkerInv => RevealConsumes
    BY OnlyAbsentIsUnstarted
    DEF MarkerInv, DiskInv, MarkerOf, RevealConsumes, Attempt, Settled
  <1> QED
    BY <1>1, TypeCorrect, MarkerInvariant, PTL

\* Whoever has evaluated the window is the one run that has seen the pulse.
LEMMA OneRunEvaluated ==
    ASSUME TypeOK, MarkerInv, VerdictInv, NEW p \in revealed \cap evaluated
    PROVE  revealed = {p} /\ evaluated = {p}
  <1>1. \A q \in revealed : q = p
    BY MarkerIsSingle DEF MarkerInv, DiskInv
  <1>2. \A q \in evaluated : q \in revealed
    BY DEF TypeOK, VerdictInv, RunInv, HistoryOf
  <1> QED
    BY <1>1, <1>2

\* A verdict the auditor publishes was earned: the run that saw the pulse
\* started inside the window, and for PASS or FAIL_GATES it alone saw the pulse,
\* it alone evaluated, and it concluded before the deadline.
THEOREM PublishedIsEarned == ASSUME DirectoryOpens PROVE Spec => []PublishedVerdictEarned
  <1>1. TypeOK /\ MarkerInv /\ VerdictInv => PublishedVerdictEarned
    <2> SUFFICES ASSUME TypeOK, MarkerInv, VerdictInv PROVE PublishedVerdictEarned
      OBVIOUS
    <2> DEFINE run == Outcome.body.run
    <2>1. ASSUME Classification \in TerminalVerdicts
          PROVE  Attempt.body.run = run /\ Attempt.body.at \in Target..Deadline
      BY <2>1, TerminalIsVerified DEF EvidenceVerified, AttemptVerified
    <2>2. ASSUME Classification \in GateVerdicts
          PROVE  /\ revealed = {run} /\ evaluated = {run}
                 /\ Outcome.body.at <= Deadline
      <3>1. /\ Readable(Outcome) /\ EvidenceVerified
            /\ Outcome.body.verdict \in GateVerdicts
        BY <2>2, TerminalIsVerified DEF TerminalVerdicts
      <3>2. Outcome.body.at <= Deadline
        BY <3>1 DEF EvidenceVerified, ScientificVerified, GateVerdicts
      <3>3. run \in revealed \cap evaluated
        BY <3>1 DEF VerdictInv, ArtifactInv, Outcome, Readable, Present
      <3> QED
        BY <3>2, <3>3, OneRunEvaluated
    <2> QED
      BY <2>1, <2>2 DEF PublishedVerdictEarned
  <1> QED
    BY <1>1, TypeCorrect, MarkerInvariant, VerdictInvariant, PTL

(***************************************************************************)
(* Once an outcome is readable, what the readers look at stands still: its *)
(* run writes nothing more, and no other run ever wrote anything.          *)
(***************************************************************************)
Still(f) == disk'[f].form = disk[f].form /\ disk'[f].body = disk[f].body

\* A step of a process: only the run that has not concluded writes.
LEMMA ProcStands ==
    ASSUME TypeOK, MarkerInv, VerdictInv, NEW p \in Procs,
           Invoke(p) \/ ProcStep(p) \/ Kill(p), Readable(Outcome),
           NEW f \in ResultFiles
    PROVE  Still(f)
  <1>1. Present(disk["outcome"]) /\ MarkerOf(disk["outcome"].body.run)
    BY DEF Outcome, Readable, Present, MarkerInv, DiskInv, ResultFiles
  <1>2. /\ ~Creatable(disk["attempt"]) /\ Readable(disk["attempt"])
        /\ f \in Disk /\ disk[f] \in FileStates(Bodies)
    BY <1>1 DEF MarkerOf, Settled, Creatable, TypeOK, Disk
  <1>3. pc[p] \notin Marked \/ pc[p] \in Concluding
    BY <1>1, NotConcluded
  <1>4. CASE WriteAttempt(p) \/ WriteOutcome(p) \/ WriteFailure(p)
    <2>1. PICK g \in {"attempt", "outcome"}, body \in Bodies :
              \E next, code : DurableWrite(p, g, body, next, code)
      BY <1>4 DEF WriteAttempt, WriteOutcome, WriteFailure, TypeOK, Locals
    <2>2. Readable(disk[g]) /\ ~Creatable(disk[g]) /\ g \in Disk
      BY <1>1, <1>2 DEF Outcome, Creatable, Disk, ResultFiles
    <2>3. CASE disk' = [disk EXCEPT ![g] = Filled(disk[g])]
      BY <1>2, <2>2, <2>3 DEF TypeOK, Filled, Readable, Still, FileStates
    <2>4. CASE disk' = [disk EXCEPT ![g] = Synced(disk[g])]
      BY <1>2, <2>2, <2>4 DEF TypeOK, Synced, Still, FileStates
    <2>5. CASE disk' = [h \in Disk |->
                          IF DirectoryOpens /\ h \in Directory(g)
                          THEN Entered(disk[h]) ELSE disk[h]]
      <3>1. disk'[f] \in {Entered(disk[f]), disk[f]}
        BY <1>2, <2>5
      <3> QED
        BY <1>2, <3>1 DEF Still, Entered, FileStates
    <2> QED
      BY <2>1, <2>2, <2>3, <2>4, <2>5 DEF DurableWrite
  <1>5. CASE \/ WriteResolution(p) \/ CreatePrimaryEvidence(p) \/ ScoreWindow(p)
             \/ WriteManifest(p)
    BY <1>3, <1>5 DEF WriteResolution, CreatePrimaryEvidence, ScoreWindow, WriteManifest,
       Marked, TryBlock, Concluding
  <1>6. CASE disk' = disk
    BY <1>6 DEF Still
  <1>7. CASE Invoke(p) \/ LockStep(p) \/ Throw(p) \/ Kill(p)
    BY <1>6, <1>7, AroundByRun
  <1> QED
    BY <1>4, <1>5, <1>6, <1>7
    DEF ProcStep, OneShotStep, RequireTimeWindow, RequireArtifactsAbsent, RequireCleanHead,
        RequirePublicFreeze, DigestImplementation, PrepareRuntime, BuildAttempt,
        ReloadAttempt, FetchPulse, BuildResolution, VerifyResolution, RequireOnlyResults,
        RequireUnchangedDigests, OpenEvaluation, VerifyScientificResult,
        RequireBeforeDeadline, BuildOutcome, FindOutcome, BuildFailure, Pass, PassLoading,
        Advance, Compute

\* So does every step that does not damage a file.
LEMMA EvidenceStands ==
    ASSUME TypeOK, MarkerInv, VerdictInv, [Next]_vars, ~Damage, Readable(Outcome),
           NEW f \in ResultFiles
    PROVE  Still(f)
  <1>1. ASSUME NEW p \in Runs, Invoke(p) \/ ProcStep(p) \/ Kill(p) PROVE Still(f)
    BY <1>1, ProcStands DEF Procs
  <1>2. CASE PowerLoss
    <2>1. f \in DOMAIN disk /\ f \in Disk /\ disk[f] \in FileStates(Bodies)
      BY DEF TypeOK, Disk
    <2>2. PICK lost \in SUBSET Losable(disk), torn \in SUBSET Tearable(disk) :
              disk' = AfterPowerLoss(disk, NoBody, lost, torn)
      BY <1>2 DEF PowerLoss
    <2>3. Present(disk[f]) => Present(disk'[f]) /\ disk'[f].form # "torn"
      BY DEF Damage
    <2>4. CASE f \in lost
      <3>1. Present(disk[f]) /\ ~Present(disk'[f])
        BY <2>1, <2>2, <2>4 DEF Losable, AfterPowerLoss, AbsentFile, Present
      <3> QED
        BY <2>3, <3>1
    <2>5. CASE f \notin lost /\ ~Present(disk[f])
      BY <2>1, <2>2, <2>5 DEF AfterPowerLoss, Still
    <2>6. CASE f \notin lost /\ Present(disk[f])
      <3>1. disk'[f] = [form  |-> IF f \in torn THEN "torn" ELSE disk[f].form,
                        body  |-> disk[f].body, data  |-> TRUE, entry |-> TRUE]
        BY <2>1, <2>2, <2>6 DEF AfterPowerLoss
      <3> QED
        BY <2>3, <2>6, <3>1 DEF Still
    <2> QED
      BY <2>4, <2>5, <2>6
  <1>3. CASE Tick \/ Operator \/ UNCHANGED vars
    BY <1>3 DEF Tick, Operator, Edit, Restore, vars, Still
  <1> QED
    BY <1>1, <1>2, <1>3 DEF Next, Environment

\* The class depends on what the files show, not on what a power loss would
\* preserve of them.
LEMMA ClassOfStanding ==
    ASSUME \A f \in ResultFiles : Still(f)
    PROVE  Classification' = Classification
  <1>1. /\ Attempt'.form = Attempt.form /\ Attempt'.body = Attempt.body
        /\ Resolution'.form = Resolution.form /\ Resolution'.body = Resolution.body
        /\ Primary'.form = Primary.form /\ Primary'.body = Primary.body
        /\ Outcome'.form = Outcome.form /\ Outcome'.body = Outcome.body
    BY DEF Still, ResultFiles, Attempt, Resolution, Primary, Outcome
  <1>2. /\ Present(Attempt)' = Present(Attempt) /\ Readable(Attempt)' = Readable(Attempt)
        /\ Present(Resolution)' = Present(Resolution)
        /\ Readable(Resolution)' = Readable(Resolution)
        /\ Present(Primary)' = Present(Primary) /\ Readable(Primary)' = Readable(Primary)
        /\ Present(Outcome)' = Present(Outcome) /\ Readable(Outcome)' = Readable(Outcome)
    BY <1>1 DEF Present, Readable
  <1>3. AttemptVerified' = AttemptVerified /\ ResolutionVerified' = ResolutionVerified
    BY <1>1, <1>2 DEF AttemptVerified, ResolutionVerified
  <1>4. PrimaryAllowed' = PrimaryAllowed
    BY <1>1, <1>2 DEF PrimaryAllowed
  <1>5. ConsumedSetAllowed' = ConsumedSetAllowed
    BY <1>2, <1>4 DEF ConsumedSetAllowed
  <1>6. FailureVerified' = FailureVerified
    BY <1>1, <1>2, <1>3 DEF FailureVerified
  <1>7. ScientificResultVerified(Outcome.body.run, Outcome.body.verdict)' =
            ScientificResultVerified(Outcome.body.run, Outcome.body.verdict)
    BY <1>1, <1>2 DEF ScientificResultVerified, GatesRecomputed, ManifestNamedBy,
       RetainedIntact, Primary
  <1>8. ScientificVerified' = ScientificVerified
    BY <1>1, <1>3, <1>7 DEF ScientificVerified
  <1>9. EvidenceVerified' = EvidenceVerified
    BY <1>1, <1>3, <1>6, <1>8 DEF EvidenceVerified
  <1>10. Incomplete' = Incomplete /\ Concluded' = Concluded
    BY <1>1, <1>2, <1>3, <1>4, <1>5, <1>9 DEF Incomplete, Concluded
  <1> QED
    BY <1>2, <1>10 DEF Classification

\* A published class only moves forward: unless a power loss takes or tears a
\* file, a terminal verdict stays and a consumed suite stays consumed.
THEOREM ClassOnlyForward == ASSUME DirectoryOpens PROVE Spec => ClassificationForward
  <1>1. ASSUME TypeOK, TypeOK', MarkerInv, VerdictInv, [Next]_vars, ~Damage
        PROVE  /\ Classification \in TerminalVerdicts => Classification' = Classification
               /\ Classification # "NOT_STARTED_PREFLIGHT_REJECTION" =>
                      Classification' # "NOT_STARTED_PREFLIGHT_REJECTION"
    <2>1. ASSUME Classification \in TerminalVerdicts
          PROVE  Classification' = Classification
      BY <1>1, <2>1, TerminalIsVerified, EvidenceStands, ClassOfStanding
    <2>2. ASSUME Classification # "NOT_STARTED_PREFLIGHT_REJECTION"
          PROVE  Classification' # "NOT_STARTED_PREFLIGHT_REJECTION"
      <3>1. Present(Attempt)
        <4>1. Present(Outcome) => Present(Attempt)
          BY <1>1 DEF MarkerInv, DiskInv, MarkerOf, ResultFiles, Settled, Outcome, Attempt
        <4> QED
          BY <1>1, <2>2, <4>1, OnlyAbsentIsUnstarted
      <3>2. Present(Attempt)'
        BY <1>1, <3>1 DEF Damage, Attempt, ResultFiles
      <3>3. disk'["outcome"].body.verdict \in Verdicts
        BY <1>1 DEF TypeOK, Disk, ResultFiles, FileStates, Bodies
      <3> QED
        BY <3>2, <3>3 DEF Classification, Incomplete, Concluded, Outcome, Verdicts,
           GateVerdicts
    <2> QED
      BY <2>1, <2>2
  <1>2. TypeOK /\ TypeOK' /\ MarkerInv /\ VerdictInv /\ [Next]_vars =>
            [~Damage =>
                /\ Classification \in TerminalVerdicts => Classification' = Classification
                /\ Classification # "NOT_STARTED_PREFLIGHT_REJECTION" =>
                       Classification' # "NOT_STARTED_PREFLIGHT_REJECTION"]_disk
    BY <1>1
  <1> QED
    BY <1>2, TypeCorrect, MarkerInvariant, VerdictInvariant, PTL
    DEF Spec, ClassificationForward

(***************************************************************************)
(* What the readers accept.  The invariant follows a run on the way to its *)
(* outcome: when it started, which resolution its artifacts name, and that *)
(* its primary evidence repeats its verdict.                               *)
(***************************************************************************)
Built == {"check", "resolution"} \cup Resolved
Evidenced == {"verify", "status2"} \cup Confirmed

\* A failure record names the resolution that exists, in the form it has.
NamesWhatIs(body) ==
    /\ Present(Resolution) => body.resolution = body.run
    /\ Readable(Resolution) => body.artifact = "whole"
    /\ body.resolution = NoProc => body.artifact = "absent"

StartedOf(p) ==
    /\ pc[p] \in Preflight \ {"window"} => Target <= now
    /\ pc[p] = "attempt" => Target <= mem[p].attempt.at

NamesOf(p) ==
    /\ pc[p] \in Built => mem[p].resolution.run = p
    /\ pc[p] \in Handler /\ Present(Resolution) => mem[p].resolution.run = p
    /\ pc[p] = "outcome" => mem[p].outcome.resolution = p
    /\ pc[p] = "failure" => NamesWhatIs(mem[p].outcome)

EvidenceOf(p) ==
    /\ pc[p] \in {"manifest"} \cup Evidenced => Primary.body.verdict = mem[p].verdict
    /\ pc[p] \in Evidenced => Readable(Primary) /\ Primary.body.artifact = "whole"

\* A scientific outcome names its own run's resolution, and its primary
\* evidence is complete, unless a power loss took or tore it.
RepeatedBy(body) ==
    /\ body.resolution = body.run
    /\ Present(Primary) =>
           /\ Primary.form # "partial"
           /\ Primary.body.verdict = body.verdict /\ Primary.body.artifact = "whole"

FilesInv ==
    /\ Present(Attempt) => Target <= Attempt.body.at
    /\ Present(Resolution) => pc[Resolution.body.run] \in Built \cup Handler \cup Over
    /\ evaluated # {} => WholeAndDurable("resolution")
    /\ Present(Outcome) =>
           /\ Outcome.body.verdict = "FAIL_EXECUTION" => NamesWhatIs(Outcome.body)
           /\ Outcome.body.verdict \in GateVerdicts => RepeatedBy(Outcome.body)

AcceptInv ==
    /\ \A p \in Procs : StartedOf(p) /\ NamesOf(p) /\ EvidenceOf(p)
    /\ FilesInv

\* The invariant says of an undisturbed outcome that the readers accept it, or
\* which of the documented reasons they have not to.
LEMMA AcceptsWhatIsWritten ==
    ASSUME TypeOK, MarkerInv, VerdictInv, AcceptInv
    PROVE  Accepted
  <1> DEFINE body == Outcome.body
  <1> SUFFICES ASSUME Readable(Outcome), Undisturbed,
                      body.verdict \in GateVerdicts => body.at <= Deadline /\ Present(Primary),
                      body.verdict = "FAIL_EXECUTION" => Primary.body.artifact # "partial",
                      body.verdict = "FAIL_EXECUTION" /\ body.resolution # NoProc =>
                          Readable(Resolution)
               PROVE  Classification = body.verdict
    <2>1. Readable(Outcome) => body.verdict \in GateVerdicts \cup {"FAIL_EXECUTION"}
      BY DEF VerdictInv, ArtifactInv, Outcome, Readable, Present
    <2>2. "FAIL_EXECUTION" \notin GateVerdicts
      BY DEF GateVerdicts
    <2>3. body.at \in Nat /\ Deadline \in Nat
      BY TimeAssumption DEF TypeOK, Outcome, Disk, ResultFiles, FileStates, Bodies
    <2> QED
      BY <2>1, <2>2, <2>3 DEF Accepted
  <1>1. /\ Present(Outcome) /\ Present(Attempt) /\ Readable(Attempt)
        /\ body.run = Attempt.body.run
        /\ Present(Resolution) => Resolution.body.run = body.run
        /\ Present(Primary) => Primary.body.run = body.run
    BY DEF Outcome, Attempt, Resolution, Primary, Readable, Present, MarkerInv, DiskInv,
       MarkerOf, ResultFiles
  <1>2. /\ body.verdict \in GateVerdicts \cup {"FAIL_EXECUTION"}
        /\ body.verdict \in GateVerdicts =>
               body.artifact = "whole" /\ WholeAndDurable("resolution")
        /\ body.run \in Procs
    BY <1>1 DEF VerdictInv, ArtifactInv, Outcome
  <1>3. /\ Target <= Attempt.body.at
        /\ body.verdict = "FAIL_EXECUTION" => NamesWhatIs(body)
        /\ body.verdict \in GateVerdicts => RepeatedBy(body)
    BY <1>1 DEF AcceptInv, FilesInv
  <1>4. /\ \A f \in ResultFiles :
               /\ disk[f].form # "torn"
               /\ disk[f].body.registration = {} /\ disk[f].body.implementation = {}
        /\ Attempt.body.at <= Deadline
    BY DEF Undisturbed
  <1>5. AttemptVerified
    <2>1. Attempt.body.at \in Nat
      BY DEF TypeOK, Attempt, Disk, ResultFiles, FileStates, Bodies
    <2> QED
      BY <1>3, <1>4, <2>1, TimeAssumption DEF AttemptVerified, Attempt, ResultFiles
  <1>6. Readable(Resolution) => ResolutionVerified
    BY <1>1, <1>4 DEF ResolutionVerified, Attempt, Resolution, ResultFiles, Readable, Present
  <1>7. Present(Primary) => Readable(Resolution)
    <2>1. Present(Primary) => evaluated # {}
      BY DEF VerdictInv, ArtifactInv, Primary
    <2> QED
      BY <2>1 DEF AcceptInv, FilesInv, WholeAndDurable, Resolution
  <1>8. CASE body.verdict = "FAIL_EXECUTION"
    <2>1. PrimaryAllowed
      BY <1>7, <1>8 DEF PrimaryAllowed
    <2>2. FailureVerified
      <3>1. CASE Present(Resolution)
        <4>1. body.resolution = body.run /\ body.run # NoProc
          BY <1>2, <1>3, <1>8, <3>1, ProcAssumption DEF NamesWhatIs, Procs
        <4>2. Readable(Resolution) /\ body.artifact = "whole"
          BY <1>3, <1>8, <4>1 DEF NamesWhatIs
        <4> QED
          BY <1>1, <1>6, <3>1, <4>1, <4>2 DEF FailureVerified, Readable
      <3>2. CASE ~Present(Resolution)
        <4>1. body.resolution = NoProc
          BY <1>8, <3>2 DEF Readable, Present
        <4> QED
          BY <1>3, <1>8, <3>2, <4>1 DEF FailureVerified, NamesWhatIs
      <3> QED
        BY <3>1, <3>2
    <2> QED
      BY <1>1, <1>5, <1>8, <2>1, <2>2 DEF EvidenceVerified, Classification, Concluded
  <1>9. CASE body.verdict \in GateVerdicts
    <2>1. Present(Primary) /\ body.at <= Deadline /\ RepeatedBy(body)
      BY <1>3, <1>9
    <2>2. Readable(Primary) /\ Readable(Resolution) /\ Present(Resolution)
      <3>1. Primary.form \in Forms /\ Primary.form # "torn"
        BY <1>4 DEF TypeOK, Primary, Disk, ResultFiles, FileStates
      <3> QED
        BY <1>7, <2>1, <3>1 DEF RepeatedBy, Readable, Present, Forms
    <2>3. PrimaryAllowed
      BY <2>1, <2>2 DEF PrimaryAllowed, RepeatedBy
    <2>4. ScientificResultVerified(body.run, body.verdict)
      BY <1>1, <2>1, <2>2 DEF ScientificResultVerified, GatesRecomputed, ManifestNamedBy,
         RetainedIntact, RepeatedBy, Primary
    <2>5. ScientificVerified
      <3>1. /\ Outcome.body.registration = Attempt.body.registration
            /\ Outcome.body.implementation = Attempt.body.implementation
        BY <1>4 DEF Outcome, Attempt, ResultFiles
      <3> QED
        BY <1>1, <1>2, <1>6, <1>9, <2>1, <2>2, <2>4, <3>1 DEF ScientificVerified, RepeatedBy
    <2>6. body.verdict # "FAIL_EXECUTION"
      BY <1>9 DEF GateVerdicts
    <2> QED
      BY <1>1, <1>5, <2>3, <2>5, <2>6 DEF EvidenceVerified, Classification, Concluded
  <1> QED
    BY <1>2, <1>8, <1>9

(***************************************************************************)
(* What a step leaves standing.                                            *)
(***************************************************************************)
\* No other process changes what a file shows while a marked run lives, and
\* nobody but the run that has not concluded changes the resolution or the
\* primary evidence.
LEMMA OnlyMarkedWrites ==
    ASSUME TypeOK, MarkerInv, NEW q \in Procs, Invoke(q) \/ ProcStep(q) \/ Kill(q),
           NEW f \in ResultFiles,
           \/ pc[q] \notin Marked \cup {"attempt"}
           \/ \E p \in Procs \ {q} : pc[p] \in Marked
           \/ f # "attempt" /\ pc[q] = "attempt"
    PROVE  Still(f)
  <1>1. ASSUME pc[q] = "attempt", f = "attempt", NEW p \in Procs \ {q}, pc[p] \in Marked
        PROVE  ~Creatable(disk["attempt"]) /\ stage[q] = "open"
    <2>1. MarkerOf(p) /\ WritesMarker(q)
      BY <1>1 DEF MarkerInv, ProcInv
    <2> QED
      BY <2>1 DEF MarkerOf, WritesMarker, Settled, Creatable
  <1>2. ASSUME NEW p \in Procs \ {q}, pc[p] \in Marked
        PROVE  pc[q] \notin Marked
    BY <1>2, MarkerIsSingle DEF MarkerInv, ProcInv
  <1>3. f \in Disk /\ disk[f] \in FileStates(Bodies) /\ "attempt" \in Disk
    BY DEF TypeOK, Disk, ResultFiles
  <1>4. pc[q] \notin Marked
    BY <1>2 DEF Marked, TryBlock, Handler
  <1>5. CASE WriteAttempt(q)
    <2>1. pc[q] = "attempt" /\ \E body, next, code : DurableWrite(q, "attempt", body, next, code)
      BY <1>5 DEF WriteAttempt
    <2>2. CASE \E g \in {"attempt"} : disk' = [h \in Disk |->
                          IF DirectoryOpens /\ h \in Directory(g)
                          THEN Entered(disk[h]) ELSE disk[h]]
      <3>1. disk'[f] \in {Entered(disk[f]), disk[f]}
        BY <1>3, <2>2
      <3> QED
        BY <1>3, <3>1 DEF Still, Entered, FileStates
    <2>3. CASE f # "attempt" /\ disk' = [disk EXCEPT !["attempt"] = disk'["attempt"]]
      BY <1>3, <2>3 DEF TypeOK, Still
    <2>4. CASE f = "attempt"
      <3>1. stage[q] = "open" /\ ~Creatable(disk["attempt"])
        BY <1>1, <2>1, <2>4 DEF Marked, TryBlock, Handler
      <3> QED
        BY <2>1, <3>1 DEF DurableWrite
    <2> QED
      BY <1>3, <2>1, <2>2, <2>3, <2>4 DEF DurableWrite, TypeOK
  <1>6. CASE disk' = disk
    BY <1>6 DEF Still
  <1>7. CASE Invoke(q) \/ LockStep(q) \/ Throw(q) \/ Kill(q)
    BY <1>6, <1>7, AroundByRun
  <1>8. CASE \/ WriteResolution(q) \/ CreatePrimaryEvidence(q) \/ ScoreWindow(q)
             \/ WriteManifest(q) \/ WriteOutcome(q) \/ WriteFailure(q)
    BY <1>4, <1>8 DEF WriteResolution, CreatePrimaryEvidence, ScoreWindow, WriteManifest,
       WriteOutcome, WriteFailure, Marked, TryBlock, Handler
  <1> QED
    BY <1>5, <1>6, <1>7, <1>8
    DEF ProcStep, OneShotStep, RequireTimeWindow, RequireArtifactsAbsent, RequireCleanHead,
        RequirePublicFreeze, DigestImplementation, PrepareRuntime, BuildAttempt,
        ReloadAttempt, FetchPulse, BuildResolution, VerifyResolution, RequireOnlyResults,
        RequireUnchangedDigests, OpenEvaluation, VerifyScientificResult,
        RequireBeforeDeadline, BuildOutcome, FindOutcome, BuildFailure, Pass, PassLoading,
        Advance, Compute

\* A durable write changes what its own file shows, and no other.
LEMMA WriteStands ==
    ASSUME TypeOK, NEW p, NEW g \in JsonFiles, NEW body, NEW next, NEW code,
           DurableWrite(p, g, body, next, code), NEW f \in ResultFiles \ {g}
    PROVE  Still(f)
  <1>1. f \in Disk /\ g \in Disk /\ disk[f] \in FileStates(Bodies)
    BY DEF TypeOK, Disk, JsonFiles, ResultFiles
  <1>2. CASE disk' = [disk EXCEPT ![g] = disk'[g]]
    BY <1>1, <1>2 DEF TypeOK, Still
  <1>3. CASE disk' = [h \in Disk |-> IF DirectoryOpens /\ h \in Directory(g)
                                    THEN Entered(disk[h]) ELSE disk[h]]
    <2>1. disk'[f] \in {Entered(disk[f]), disk[f]}
      BY <1>1, <1>3
    <2> QED
      BY <1>1, <2>1 DEF Still, Entered, FileStates
  <1> QED
    BY <1>1, <1>2, <1>3 DEF DurableWrite, TypeOK

\* Every step of a process is seen by the others in the files and in its own
\* entries of the histories only, and takes nothing from the files.
LEMMA ProcByRun ==
    ASSUME TypeOK, MarkerInv, NEW p \in Procs, Invoke(p) \/ ProcStep(p) \/ Kill(p)
    PROVE  /\ ByRun(p) /\ now' = now
           /\ \A f \in JsonFiles : Kept(f)
  <1>1. CASE \E label : \/ Pass(p, label) \/ PassLoading(p, label)
                        \/ \E locals : Compute(p, label, locals)
    BY <1>1, QuietByRun, LoadingByRun DEF Pass, PassLoading, Advance, Compute, Kept
  <1>2. CASE Invoke(p) \/ LockStep(p) \/ Throw(p) \/ Kill(p)
    BY <1>2, AroundByRun
    DEF Invoke, LockStep, AcquireLock, FindStaleLock, ReclaimLock, RefuseLock, ReleaseLock,
        AbandonLock, TakeLock, Throw, Kill, Pass, PassLoading, Advance, Kept
  <1>3. CASE \/ FetchPulse(p) \/ OpenEvaluation(p)
             \/ CreatePrimaryEvidence(p) \/ ScoreWindow(p) \/ WriteManifest(p)
    BY <1>3, EvaluationByRun DEF FetchPulse, OpenEvaluation, CreatePrimaryEvidence,
       ScoreWindow, WriteManifest, Kept
  <1>4. CASE WriteAttempt(p) \/ WriteResolution(p) \/ WriteOutcome(p) \/ WriteFailure(p)
    <2>1. PICK g \in JsonFiles, body \in Bodies :
            /\ \E next, code : DurableWrite(p, g, body, next, code)
            /\ stage[p] = "write" => Present(disk[g])
      <3>1. ProcInv(p) /\ mem[p] \in Locals
        BY DEF MarkerInv, TypeOK
      <3> QED
        BY <1>4, <3>1 DEF WriteAttempt, WriteResolution, WriteOutcome, WriteFailure,
           JsonFiles, Locals, ProcInv, WritesMarker, HasCreated
    <2> QED
      BY <2>1, WriteByRun DEF DurableWrite
  <1> QED
    BY <1>1, <1>2, <1>3, <1>4
    DEF ProcStep, OneShotStep, RequireTimeWindow, RequireArtifactsAbsent, RequireCleanHead,
        RequirePublicFreeze, DigestImplementation, PrepareRuntime, BuildAttempt,
        ReloadAttempt, BuildResolution, VerifyResolution, RequireOnlyResults,
        RequireUnchangedDigests, VerifyScientificResult, RequireBeforeDeadline,
        BuildOutcome, FindOutcome, BuildFailure

\* A step of p keeps what the invariant says of every other run.
LEMMA OthersAccepted ==
    ASSUME TypeOK, MarkerInv, AcceptInv, NEW p \in Procs,
           Invoke(p) \/ ProcStep(p) \/ Kill(p), NEW q \in Procs \ {p}
    PROVE  StartedOf(q)' /\ NamesOf(q)' /\ EvidenceOf(q)'
  <1>1. pc'[q] = pc[q] /\ mem'[q] = mem[q] /\ now' = now
    BY ProcByRun DEF ByRun, OnlyMoves
  <1>2. StartedOf(q) /\ NamesOf(q) /\ EvidenceOf(q)
    BY DEF AcceptInv
  <1>3. StartedOf(q)'
    BY <1>1, <1>2 DEF StartedOf
  <1>4. CASE pc[q] \in Marked
    <2>1. Still("resolution") /\ Still("primary")
      BY <1>4, OnlyMarkedWrites DEF ResultFiles
    <2>2. NamesOf(q)'
      BY <1>1, <1>2, <2>1 DEF NamesOf, NamesWhatIs, Still, Resolution, Present, Readable
    <2>3. EvidenceOf(q)'
      BY <1>1, <1>2, <2>1 DEF EvidenceOf, Still, Primary, Readable
    <2> QED
      BY <1>3, <2>2, <2>3
  <1>5. CASE pc[q] \notin Marked
    BY <1>1, <1>3, <1>5 DEF NamesOf, EvidenceOf, Marked, TryBlock, Handler, Built, Resolved,
       Opened, Scored, Confirmed, Evidenced
  <1> QED
    BY <1>4, <1>5

\* Once there is an outcome, the resolution and the primary evidence stand.
LEMMA StandsAfterOutcome ==
    ASSUME TypeOK, MarkerInv, VerdictInv, NEW p \in Procs,
           Invoke(p) \/ ProcStep(p) \/ Kill(p), Present(disk["outcome"]),
           NEW f \in {"resolution", "primary"}
    PROVE  Still(f)
  <1>1. pc[p] \notin Marked \/ pc[p] \in Concluding
    BY NotConcluded
  <1>2. CASE pc[p] \notin Marked
    BY <1>2, OnlyMarkedWrites DEF ResultFiles
  <1>3. CASE WriteOutcome(p) \/ WriteFailure(p)
    BY <1>3, WriteStands DEF WriteOutcome, WriteFailure, JsonFiles, ResultFiles
  <1>4. CASE disk' = disk
    BY <1>4 DEF Still
  <1>5. CASE Invoke(p) \/ LockStep(p) \/ Throw(p) \/ Kill(p)
    BY <1>4, <1>5, AroundByRun
  <1> QED
    BY <1>1, <1>2, <1>3, <1>4, <1>5
    DEF ProcStep, OneShotStep, RequireTimeWindow, RequireArtifactsAbsent, RequireCleanHead,
        RequirePublicFreeze, DigestImplementation, PrepareRuntime, BuildAttempt, WriteAttempt,
        ReloadAttempt, FetchPulse, BuildResolution, VerifyResolution, WriteResolution,
        RequireOnlyResults, RequireUnchangedDigests, OpenEvaluation, CreatePrimaryEvidence,
        ScoreWindow, WriteManifest, VerifyScientificResult, RequireBeforeDeadline,
        BuildOutcome, FindOutcome, BuildFailure, Pass, PassLoading, Advance, Compute,
        Concluding

\* What remains to be shown of a step of p: its own run, and what it creates.
LEMMA StepAccepted ==
    ASSUME TypeOK, MarkerInv, VerdictInv, AcceptInv, [Next]_vars, NEW p \in Procs,
           Invoke(p) \/ ProcStep(p) \/ Kill(p),
           StartedOf(p)', NamesOf(p)', EvidenceOf(p)',
           Present(disk'["attempt"]) =>
               Present(disk["attempt"]) \/ Target <= disk'["attempt"].body.at,
           Present(disk'["resolution"]) =>
               \/ Present(disk["resolution"])
               \/ disk'["resolution"].body.run = p /\ pc'[p] \in Built,
           pc[p] \in Built \cup Handler \cup Over => pc'[p] \in Built \cup Handler \cup Over,
           evaluated' = evaluated \/ WholeAndDurable("resolution"),
           \A body :
               ~Present(disk["outcome"]) /\ Present(disk'["outcome"])
                       /\ disk'["outcome"].body = body =>
                   /\ body.verdict = "FAIL_EXECUTION" => NamesWhatIs(body)'
                   /\ body.verdict \in GateVerdicts => RepeatedBy(body)'
    PROVE  AcceptInv'
  <1>1. \A q \in Procs : StartedOf(q)' /\ NamesOf(q)' /\ EvidenceOf(q)'
    BY OthersAccepted
  <1>2. /\ Kept("attempt") /\ Kept("resolution") /\ Kept("outcome")
        /\ \A q \in Procs \ {p} : pc'[q] = pc[q]
    BY ProcByRun DEF JsonFiles, ByRun, OnlyMoves
  <1>3. Present(Attempt)' => Target <= Attempt'.body.at
    BY <1>2 DEF AcceptInv, FilesInv, Kept, Attempt
  <1>4. Present(Resolution)' => pc'[Resolution'.body.run] \in Built \cup Handler \cup Over
    <2>1. CASE Present(disk["resolution"])
      <3>1. disk["resolution"].body.run \in Procs
        BY <2>1 DEF VerdictInv, ArtifactInv, TypeOK
      <3> QED
        BY <1>2, <2>1, <3>1 DEF AcceptInv, FilesInv, Kept, Resolution
    <2>2. CASE ~Present(disk["resolution"])
      BY <2>2 DEF Resolution
    <2> QED
      BY <2>1, <2>2
  <1>5. evaluated' # {} => WholeAndDurable("resolution")'
    <2>1. WholeAndDurable("resolution") => WholeAndDurable("resolution")'
      BY StepPermanent DEF Permanent, WholeAndDurable, ResultFiles
    <2> QED
      BY <2>1 DEF AcceptInv, FilesInv
  <1>6. Present(Outcome)' =>
            /\ Outcome'.body.verdict = "FAIL_EXECUTION" => NamesWhatIs(Outcome.body)'
            /\ Outcome'.body.verdict \in GateVerdicts => RepeatedBy(Outcome.body)'
    <2>1. CASE Present(disk["outcome"])
      <3>1. Still("resolution") /\ Still("primary") /\ Outcome'.body = Outcome.body
        BY <1>2, <2>1, StandsAfterOutcome DEF Kept, Outcome
      <3>2. NamesWhatIs(Outcome.body) => NamesWhatIs(Outcome.body)'
        BY <3>1 DEF NamesWhatIs, Still, Resolution, Present, Readable
      <3>3. RepeatedBy(Outcome.body) => RepeatedBy(Outcome.body)'
        BY <3>1 DEF RepeatedBy, Still, Primary, Present
      <3> QED
        BY <2>1, <3>1, <3>2, <3>3 DEF AcceptInv, FilesInv, Outcome
    <2>2. CASE ~Present(disk["outcome"])
      BY <2>2 DEF Outcome, NamesWhatIs, RepeatedBy
    <2> QED
      BY <2>1, <2>2
  <1>7. FilesInv'
    BY <1>3, <1>4, <1>5, <1>6 DEF FilesInv
  <1> QED
    BY <1>1, <1>7 DEF AcceptInv

(***************************************************************************)
(* The steps of a run, on its own part of the invariant.                   *)
(***************************************************************************)
\* The checks lead from labels that claim as much; the first one is that the
\* target time has come.
LEMMA CheckAccepted ==
    ASSUME TypeOK, [Next]_vars, MarkerInv, VerdictInv, AcceptInv, NEW p \in Procs,
           \/ Invoke(p) \/ RequireTimeWindow(p) \/ RequireArtifactsAbsent(p)
           \/ RequireCleanHead(p) \/ RequirePublicFreeze(p) \/ PrepareRuntime(p)
           \/ ReloadAttempt(p) \/ VerifyResolution(p) \/ RequireOnlyResults(p)
           \/ RequireUnchangedDigests(p) \/ VerifyScientificResult(p)
           \/ RequireBeforeDeadline(p) \/ FindOutcome(p)
    PROVE  AcceptInv'
  <1> USE DEF Confirmed, Scored, Opened, Resolved, Seen, Over, Concluding, Built, Evidenced
  <1>1. PICK label \in Labels :
          /\ Advance(p, label)
          /\ label \in Preflight \ {"window"} =>
                 pc[p] \in Preflight \ {"window"} \/ Target <= now
          /\ label \notin {"attempt", "manifest", "outcome", "failure"} \cup Handler
          /\ label \in Built => pc[p] \in Built
          /\ label \in Evidenced => pc[p] \in Evidenced
          /\ pc[p] \in Built => label \in Built
          /\ pc[p] \in Handler => label = "release"
          /\ pc[p] \notin Over
    BY DEF Invoke, RequireTimeWindow, RequireArtifactsAbsent, RequireCleanHead,
           RequirePublicFreeze, PrepareRuntime, ReloadAttempt, VerifyResolution,
           RequireOnlyResults, RequireUnchangedDigests, VerifyScientificResult,
           RequireBeforeDeadline, FindOutcome, Pass, PassLoading, Labels, Preflight,
           TryBlock, Handler, Unlocked
  <1>2. /\ pc'[p] = label /\ mem' = mem /\ now' = now
        /\ disk' = disk /\ evaluated' = evaluated
    BY <1>1, Moves DEF Advance, seen
  <1>3. StartedOf(p) /\ NamesOf(p) /\ EvidenceOf(p)
    BY DEF AcceptInv
  <1>4. StartedOf(p)'
    BY <1>1, <1>2, <1>3 DEF StartedOf
  <1>5. NamesOf(p)'
    BY <1>1, <1>2, <1>3 DEF NamesOf
  <1>6. EvidenceOf(p)'
    BY <1>1, <1>2, <1>3 DEF EvidenceOf, Primary
  <1>7. Invoke(p) \/ ProcStep(p)
    BY DEF ProcStep, OneShotStep
  <1> QED
    BY <1>1, <1>2, <1>4, <1>5, <1>6, <1>7, StepAccepted

\* What is built names its run and the resolution that exists.
LEMMA BuildAccepted ==
    ASSUME TypeOK, [Next]_vars, MarkerInv, VerdictInv, AcceptInv, NEW p \in Procs,
           \/ DigestImplementation(p) \/ BuildAttempt(p) \/ BuildResolution(p)
           \/ BuildOutcome(p) \/ BuildFailure(p)
    PROVE  AcceptInv'
  <1> USE DEF Confirmed, Scored, Opened, Resolved, Seen, Over, Concluding, Built, Evidenced
  <1>1. mem[p] \in Locals /\ NoBody \in Bodies /\ NoProc \notin Procs
        /\ StartedOf(p) /\ NamesOf(p) /\ EvidenceOf(p)
    BY NoBodyType, ProcAssumption DEF TypeOK, AcceptInv, Procs
  <1>2. PICK label, locals :
          /\ Compute(p, label, locals)
          /\ <<pc[p], label>> \in {<<"digest", "runtime">>, <<"mark", "attempt">>,
                 <<"build", "check">>, <<"conclude", "outcome">>, <<"handle", "failure">>}
          /\ label = "attempt" => locals.attempt.at = now
          /\ label = "check" => locals.resolution.run = p
          /\ label = "outcome" =>
                 /\ locals.resolution = mem[p].resolution /\ locals.verdict = mem[p].verdict
                 /\ locals.outcome.resolution = mem[p].resolution.run
          /\ label = "failure" =>
                 locals.resolution = mem[p].resolution /\ NamesWhatIs(locals.outcome)
    <2>1. CASE DigestImplementation(p)
      BY <2>1 DEF DigestImplementation
    <2>2. CASE BuildAttempt(p)
      BY <1>1, <2>2 DEF BuildAttempt, Locals, Bodies
    <2>3. CASE BuildResolution(p)
      <3> DEFINE locals == [mem[p] EXCEPT !.resolution =
                                [NoBody EXCEPT !.run = p,
                                     !.registration = edited \cap {"registration"}]]
      <3>1. locals.resolution.run = p
        BY <1>1 DEF Locals, Bodies
      <3>2. Compute(p, "check", locals) /\ pc[p] = "build"
        BY <2>3 DEF BuildResolution
      <3> HIDE DEF locals
      <3> QED
        BY <3>1, <3>2
    <2>4. CASE BuildOutcome(p)
      <3> DEFINE outcome ==
                   [run |-> p, at |-> now, verdict |-> mem[p].verdict,
                    registration |-> edited \cap {"registration"},
                    implementation |-> mem[p].implementation,
                    resolution |-> mem[p].resolution.run,
                    artifact |-> disk["resolution"].form]
                 locals == [mem[p] EXCEPT !.outcome = outcome]
      <3>1. /\ locals.resolution = mem[p].resolution /\ locals.verdict = mem[p].verdict
            /\ locals.outcome.resolution = mem[p].resolution.run
        BY <1>1 DEF Locals
      <3>2. Compute(p, "outcome", locals) /\ pc[p] = "conclude"
        BY <2>4 DEF BuildOutcome
      <3> HIDE DEF locals
      <3> QED
        BY <3>1, <3>2
    <2>5. CASE BuildFailure(p)
      <3> DEFINE outcome ==
                   [NoBody EXCEPT !.run = p, !.at = now, !.verdict = "FAIL_EXECUTION",
                        !.resolution = mem[p].resolution.run,
                        !.artifact = IF mem[p].resolution.run = NoProc
                                     THEN "absent" ELSE disk["resolution"].form]
                 locals == [mem[p] EXCEPT !.outcome = outcome]
      <3>1. locals.resolution = mem[p].resolution /\ locals.outcome = outcome
        BY <1>1 DEF Locals
      <3>2. /\ outcome.run = p /\ outcome.resolution = mem[p].resolution.run
            /\ outcome.artifact = IF mem[p].resolution.run = NoProc
                                  THEN "absent" ELSE disk["resolution"].form
        BY <1>1 DEF Bodies
      <3>3. Compute(p, "failure", locals) /\ pc[p] = "handle"
        BY <2>5 DEF BuildFailure
      <3> HIDE DEF locals, outcome
      <3>4. Present(Resolution) => mem[p].resolution.run = p
        BY <1>1, <3>3 DEF NamesOf, Handler
      <3>5. NamesWhatIs(outcome)
        BY <1>1, <3>2, <3>4 DEF NamesWhatIs, Resolution, Readable, Present
      <3> QED
        BY <3>1, <3>3, <3>5
    <2> QED
      BY <2>1, <2>2, <2>3, <2>4, <2>5
  <1>3. /\ pc'[p] = label /\ mem'[p] = locals /\ now' = now
        /\ disk' = disk /\ evaluated' = evaluated
    BY <1>2, Moves DEF Compute, history, seen, provenance
  <1>4. StartedOf(p)'
    BY <1>1, <1>2, <1>3 DEF StartedOf, Preflight
  <1>5. NamesOf(p)'
    BY <1>1, <1>2, <1>3 DEF NamesOf, NamesWhatIs, Resolution, Handler
  <1>6. EvidenceOf(p)'
    BY <1>1, <1>2, <1>3 DEF EvidenceOf, Primary
  <1>7. ProcStep(p)
    BY DEF ProcStep, OneShotStep
  <1> QED
    BY <1>2, <1>3, <1>4, <1>5, <1>6, <1>7, StepAccepted DEF Handler

\* An exception leads to the handler with the name of the resolution, if there
\* is one; everything else that ends a run claims nothing.
LEMMA LeaveAccepted ==
    ASSUME TypeOK, [Next]_vars, MarkerInv, VerdictInv, AcceptInv, NEW p \in Procs,
           LockStep(p) \/ Throw(p) \/ Kill(p)
    PROVE  AcceptInv'
  <1> USE DEF Confirmed, Scored, Opened, Resolved, Seen, Over, Concluding, Built, Evidenced
  <1>1. StartedOf(p) /\ NamesOf(p) /\ EvidenceOf(p) /\ ProcInv(p)
    BY DEF AcceptInv, MarkerInv
  <1>2. disk' = disk /\ evaluated' = evaluated
    BY QuietByRun DEF history, seen, provenance
  <1>3. /\ pc'[p] \notin (Preflight \ {"window"}) \cup TryBlock \cup {"failure"}
        /\ pc'[p] = "handle" => pc[p] \in TryBlock /\ mem' = mem
        /\ pc[p] \in Built \cup Handler \cup Over => pc'[p] \in Built \cup Handler \cup Over
    <2>1. CASE AcquireLock(p) \/ FindStaleLock(p) \/ ReclaimLock(p)
      <3>1. PICK label \in {"window", "load", "reclaim"} :
                   TakeLock(p, label) \/ Advance(p, label)
        BY <2>1 DEF AcquireLock, FindStaleLock, ReclaimLock, FirstStep, Pass
      <3>2. pc[p] \in {"lock", "reclaim"} /\ pc'[p] = label
        BY <2>1, <3>1, Moves DEF AcquireLock, FindStaleLock, ReclaimLock
      <3> QED
        BY <3>1, <3>2 DEF Preflight, TryBlock, Handler
    <2>2. CASE RefuseLock(p)
      BY <2>2 DEF RefuseLock, TypeOK, Preflight, TryBlock, Handler
    <2>3. CASE ReleaseLock(p) \/ AbandonLock(p)
      BY <2>3 DEF ReleaseLock, AbandonLock, Goto, TypeOK, Preflight, TryBlock, Handler
    <2>4. CASE Throw(p)
      BY <2>4 DEF Throw, Goto, TypeOK, Preflight, TryBlock, Handler
    <2>5. CASE Kill(p)
      BY <2>5 DEF Kill, Die, TypeOK, Preflight, TryBlock, Handler
    <2> QED
      BY <2>1, <2>2, <2>3, <2>4, <2>5 DEF LockStep
  <1>4. StartedOf(p)'
    BY <1>3 DEF StartedOf, Preflight
  <1>5. NamesOf(p)'
    <2>1. ASSUME pc'[p] = "handle", Present(Resolution) PROVE mem[p].resolution.run = p
      <3>1. CASE pc[p] \in Built
        BY <1>1, <3>1 DEF NamesOf
      <3>2. CASE pc[p] \notin Built
        <4>1. pc[p] \in Marked
          BY <1>3, <2>1 DEF Marked
        <4>2. MarkerOf(p) /\ MarkerOf(Resolution.body.run)
          BY <1>1, <2>1, <4>1 DEF ProcInv, MarkerInv, DiskInv, ResultFiles, Resolution
        <4>3. Resolution.body.run = p
          BY <4>2, MarkerIsSingle
        <4>4. pc[p] \in Built \cup Handler \cup Over
          BY <2>1, <4>3 DEF AcceptInv, FilesInv
        <4> QED
          BY <1>3, <2>1, <3>2, <4>4 DEF Handler, TryBlock
      <3> QED
        BY <3>1, <3>2
    <2>2. pc'[p] \notin Built \cup {"outcome", "failure"}
      BY <1>3 DEF TryBlock
    <2> QED
      BY <1>2, <1>3, <2>1, <2>2 DEF NamesOf, Resolution, Present, Handler
  <1>6. EvidenceOf(p)'
    BY <1>3 DEF EvidenceOf, TryBlock
  <1>7. ProcStep(p) \/ Kill(p)
    BY DEF ProcStep
  <1> QED
    BY <1>2, <1>3, <1>4, <1>5, <1>6, <1>7, StepAccepted

\* The evaluation starts on a durable resolution and ends with primary evidence
\* that repeats its verdict.
LEMMA EvaluationAccepted ==
    ASSUME TypeOK, [Next]_vars, MarkerInv, VerdictInv, AcceptInv, NEW p \in Procs,
           \/ FetchPulse(p) \/ OpenEvaluation(p)
           \/ CreatePrimaryEvidence(p) \/ ScoreWindow(p) \/ WriteManifest(p)
    PROVE  AcceptInv'
  <1> USE DEF Confirmed, Scored, Opened, Resolved, Seen, Over, Concluding, Built, Evidenced
  <1>1. /\ StartedOf(p) /\ NamesOf(p) /\ EvidenceOf(p) /\ ProcInv(p) /\ RunInv(p)
        /\ "primary" \in Disk /\ disk["primary"] \in FileStates(Bodies)
    BY DEF AcceptInv, MarkerInv, VerdictInv, TypeOK, Disk, ResultFiles
  <1>2. \A f \in JsonFiles : disk'[f] = disk[f]
    BY EvaluationByRun
  <1>3. <<pc[p], pc'[p]>> \in {<<"fetch", "build">>, <<"evaluate", "primary">>,
            <<"primary", "score">>, <<"score", "manifest">>, <<"manifest", "verify">>}
    BY DEF FetchPulse, OpenEvaluation, CreatePrimaryEvidence, ScoreWindow, WriteManifest,
       Goto, TypeOK
  <1>4. mem'[p].resolution = mem[p].resolution
    <2>1. CASE ScoreWindow(p)
      <3>1. PICK verdict \in GateVerdicts : mem' = [mem EXCEPT ![p].verdict = verdict]
        BY <2>1 DEF ScoreWindow
      <3>2. mem[p] \in Locals /\ mem'[p] = [mem[p] EXCEPT !.verdict = verdict]
        BY <3>1 DEF TypeOK
      <3> QED
        BY <3>2 DEF Locals
    <2>2. CASE mem' = mem
      BY <2>2
    <2> QED
      BY <2>1, <2>2 DEF FetchPulse, OpenEvaluation, CreatePrimaryEvidence, WriteManifest
  <1>5. evaluated' = evaluated \/ WholeAndDurable("resolution")
    <2>1. CASE OpenEvaluation(p)
      BY <1>1, <2>1 DEF OpenEvaluation, RunInv, ResolutionOf
    <2> QED
      BY <2>1 DEF FetchPulse, CreatePrimaryEvidence, ScoreWindow, WriteManifest, history,
         seen, provenance
  <1>6. StartedOf(p)'
    BY <1>3 DEF StartedOf, Preflight
  <1>7. NamesOf(p)'
    BY <1>1, <1>3, <1>4 DEF NamesOf, Handler
  <1>8. EvidenceOf(p)'
    <2>1. CASE pc[p] = "score"
      <3>1. ScoreWindow(p)
        BY <2>1 DEF FetchPulse, OpenEvaluation, CreatePrimaryEvidence, WriteManifest
      <3>2. PICK verdict \in GateVerdicts :
                /\ mem' = [mem EXCEPT ![p].verdict = verdict]
                /\ disk' = [disk EXCEPT !["primary"].body.artifact = "partial",
                                       !["primary"].body.verdict = verdict]
        BY <3>1 DEF ScoreWindow
      <3>3. mem[p] \in Locals /\ mem'[p] = [mem[p] EXCEPT !.verdict = verdict]
        BY <3>2 DEF TypeOK
      <3>4. disk'["primary"] = [disk["primary"] EXCEPT !.body.artifact = "partial",
                                                     !.body.verdict = verdict]
        BY <1>1, <3>2 DEF TypeOK
      <3>5. disk'["primary"].body.verdict = verdict
        BY <1>1, <3>4 DEF FileStates, Bodies
      <3>6. mem'[p].verdict = verdict
        BY <3>3 DEF Locals
      <3> QED
        BY <1>3, <2>1, <3>5, <3>6 DEF EvidenceOf, Primary
    <2>2. CASE pc[p] = "manifest"
      <3>1. WriteManifest(p)
        BY <2>2 DEF FetchPulse, OpenEvaluation, CreatePrimaryEvidence, ScoreWindow
      <3>2. /\ disk'["primary"] = [Filled(disk["primary"]) EXCEPT !.body.artifact = "whole"]
            /\ mem' = mem
        BY <1>1, <3>1 DEF WriteManifest, TypeOK
      <3>3. /\ disk'["primary"].form = "whole" /\ disk'["primary"].body.artifact = "whole"
            /\ disk'["primary"].body.verdict = disk["primary"].body.verdict
        BY <1>1, <3>2 DEF Filled, FileStates, Bodies
      <3>4. disk["primary"].body.verdict = mem[p].verdict
        BY <1>1, <2>2 DEF EvidenceOf, Primary
      <3> QED
        BY <1>3, <2>2, <3>2, <3>3, <3>4 DEF EvidenceOf, Primary, Readable
    <2> QED
      BY <1>3, <2>1, <2>2 DEF EvidenceOf
  <1>9. ProcStep(p)
    BY DEF ProcStep, OneShotStep
  <1>10. pc[p] \in Built \cup Handler \cup Over => pc'[p] \in Built \cup Handler \cup Over
    BY <1>3 DEF Handler
  <1> QED
    BY <1>2, <1>5, <1>6, <1>7, <1>8, <1>9, <1>10, StepAccepted DEF JsonFiles

\* The marker records a start inside the window.
LEMMA AttemptAccepted ==
    ASSUME TypeOK, [Next]_vars, MarkerInv, VerdictInv, AcceptInv, NEW p \in Procs,
           WriteAttempt(p)
    PROVE  AcceptInv'
  <1> USE DEF Confirmed, Scored, Opened, Resolved, Over, Built, Evidenced
  <1>1. /\ ProcInv(p) /\ StartedOf(p) /\ pc[p] = "attempt" /\ mem[p].attempt \in Bodies
        /\ DurableWrite(p, "attempt", mem[p].attempt, "reload", exit[p])
        /\ "attempt" \in JsonFiles \cap ResultFiles
    BY DEF MarkerInv, AcceptInv, WriteAttempt, TypeOK, Locals, JsonFiles, ResultFiles
  <1>2. /\ pc'[p] \in {"attempt", "reload"} /\ mem' = mem /\ now' = now
        /\ evaluated' = evaluated
    BY <1>1 DEF DurableWrite, Goto, TypeOK, history, seen, provenance
  <1>3. Present(disk'["attempt"]) =>
            Present(disk["attempt"]) \/ disk'["attempt"].body = mem[p].attempt
    BY <1>1, WriteOnDisk DEF ProcInv, WritesMarker
  <1>4. /\ disk'["resolution"].form = disk["resolution"].form
        /\ disk'["outcome"].form = disk["outcome"].form
    BY <1>1, WriteStands DEF Still, ResultFiles
  <1>5. StartedOf(p)'
    BY <1>1, <1>2 DEF StartedOf, Preflight
  <1>6. NamesOf(p)' /\ EvidenceOf(p)'
    BY <1>2 DEF NamesOf, EvidenceOf, Handler
  <1>7. ProcStep(p)
    BY DEF ProcStep, OneShotStep
  <1> QED
    BY <1>1, <1>2, <1>3, <1>4, <1>5, <1>6, <1>7, StepAccepted DEF StartedOf, Present, Handler

\* The resolution is in the name of its run.
LEMMA ResolutionAccepted ==
    ASSUME DirectoryOpens, TypeOK, [Next]_vars, MarkerInv, VerdictInv, AcceptInv,
           NEW p \in Procs, WriteResolution(p)
    PROVE  AcceptInv'
  <1> USE DEF Confirmed, Scored, Opened, Resolved, Over, Built, Evidenced
  <1>1. /\ ProcInv(p) /\ NamesOf(p) /\ pc[p] = "resolution" /\ mem[p].resolution \in Bodies
        /\ DurableWrite(p, "resolution", mem[p].resolution, "status1", exit[p])
        /\ "resolution" \in JsonFiles /\ WritesFile(p, "resolution")
    BY DEF MarkerInv, AcceptInv, WriteResolution, TypeOK, Locals, JsonFiles, VerdictInv,
       RunInv, ResolutionOf
  <1>2. /\ pc'[p] \in {"resolution", "status1"} /\ mem' = mem /\ evaluated' = evaluated
    BY <1>1 DEF DurableWrite, Goto, TypeOK, history, seen, provenance
  <1>3. disk'["resolution"].body =
            IF stage[p] = "open" THEN mem[p].resolution ELSE disk["resolution"].body
    BY <1>1, WritesOn
  <1>4. Present(disk["resolution"]) \/ disk'["resolution"].body.run = p
    BY <1>1, <1>3 DEF WritesFile, ProcInv
  <1>5. /\ disk'["attempt"].form = disk["attempt"].form
        /\ disk'["outcome"].form = disk["outcome"].form
    BY <1>1, WriteStands DEF Still, ResultFiles
  <1>6. StartedOf(p)' /\ EvidenceOf(p)'
    BY <1>2 DEF StartedOf, EvidenceOf, Preflight
  <1>7. NamesOf(p)'
    BY <1>1, <1>2 DEF NamesOf, Handler
  <1>8. ProcStep(p)
    BY DEF ProcStep, OneShotStep
  <1> QED
    BY <1>1, <1>2, <1>4, <1>5, <1>6, <1>7, <1>8, StepAccepted DEF Present

\* The outcome names its run's resolution, and the primary evidence repeats it.
LEMMA OutcomeAccepted ==
    ASSUME DirectoryOpens, TypeOK, [Next]_vars, MarkerInv, VerdictInv, AcceptInv,
           NEW p \in Procs, WriteOutcome(p) \/ WriteFailure(p)
    PROVE  AcceptInv'
  <1> USE DEF Confirmed, Scored, Opened, Resolved, Over, Built, Evidenced
  <1>1. /\ ProcInv(p) /\ RunInv(p) /\ NamesOf(p) /\ EvidenceOf(p) /\ mem[p].outcome \in Bodies
        /\ pc[p] \in {"outcome", "failure"} /\ "outcome" \in JsonFiles \cap ResultFiles
        /\ \E code : DurableWrite(p, "outcome", mem[p].outcome, "release", code)
    BY DEF MarkerInv, VerdictInv, AcceptInv, WriteOutcome, WriteFailure, TypeOK, Locals,
       JsonFiles, ResultFiles
  <1>2. /\ pc'[p] \in {pc[p], "release"} /\ mem' = mem /\ evaluated' = evaluated
    BY <1>1 DEF DurableWrite, Goto, TypeOK, history, seen, provenance
  <1>3. /\ Still("attempt") /\ Still("resolution") /\ Still("primary")
    BY <1>1, WriteStands DEF ResultFiles
  <1>4. ~Present(disk["outcome"]) => disk'["outcome"].body = mem[p].outcome
    <2>1. stage[p] # "open" => Present(disk["outcome"])
      BY <1>1 DEF ProcInv, HasCreated
    <2> QED
      BY <1>1, <2>1, WriteOnDisk
  <1>5. StartedOf(p)'
    BY <1>1, <1>2 DEF StartedOf, Preflight
  <1>6. NamesOf(p)'
    BY <1>1, <1>2, <1>3 DEF NamesOf, NamesWhatIs, Still, Resolution, Present, Readable,
       Handler
  <1>7. EvidenceOf(p)'
    BY <1>1, <1>2, <1>3 DEF EvidenceOf, Still, Primary, Readable
  <1>8. /\ mem[p].outcome.verdict = "FAIL_EXECUTION" => NamesWhatIs(mem[p].outcome)
        /\ mem[p].outcome.verdict \in GateVerdicts => RepeatedBy(mem[p].outcome)
    <2>1. CASE pc[p] = "failure"
      BY <1>1, <2>1 DEF NamesOf, RunInv, OutcomeOf, GateVerdicts
    <2>2. CASE pc[p] = "outcome"
      <3>1. /\ mem[p].outcome.resolution = p /\ mem[p].outcome.run = p
            /\ mem[p].outcome.verdict = mem[p].verdict /\ mem[p].verdict \in GateVerdicts
            /\ Primary.body.verdict = mem[p].verdict
            /\ Readable(Primary) /\ Primary.body.artifact = "whole"
        BY <1>1, <2>2 DEF NamesOf, EvidenceOf, ProcInv, RunInv, OutcomeOf
      <3>2. "FAIL_EXECUTION" \notin GateVerdicts
        BY DEF GateVerdicts
      <3> QED
        BY <3>1, <3>2 DEF RepeatedBy, Readable
    <2> QED
      BY <1>1, <2>1, <2>2
  <1>9. ASSUME NEW body, ~Present(disk["outcome"]), disk'["outcome"].body = body
        PROVE  /\ body.verdict = "FAIL_EXECUTION" => NamesWhatIs(body)'
               /\ body.verdict \in GateVerdicts => RepeatedBy(body)'
    <2>1. body = mem[p].outcome
      BY <1>4, <1>9
    <2>2. NamesWhatIs(body) => NamesWhatIs(body)'
      BY <1>3 DEF NamesWhatIs, Still, Resolution, Present, Readable
    <2>3. RepeatedBy(body) => RepeatedBy(body)'
      BY <1>3 DEF RepeatedBy, Still, Primary, Present
    <2> QED
      BY <1>8, <2>1, <2>2, <2>3
  <1>10. ProcStep(p)
    BY DEF ProcStep, OneShotStep
  <1> QED
    BY <1>1, <1>2, <1>3, <1>5, <1>6, <1>7, <1>9, <1>10, StepAccepted
    DEF Present, Still, Handler

\* The clock only advances, and a power loss can only take from what was there.
LEMMA EnvironmentAccepted ==
    ASSUME TypeOK, [Next]_vars, MarkerInv, VerdictInv, AcceptInv,
           Environment \/ UNCHANGED vars
    PROVE  AcceptInv'
  <1>1. CASE Tick \/ Operator \/ UNCHANGED vars
    <2>1. /\ UNCHANGED <<pc, mem, disk, evaluated>>
          /\ now' \in {now, now + 1} /\ now \in Nat /\ Target \in Nat
      BY <1>1, TimeAssumption
      DEF Tick, Operator, Edit, Restore, vars, control, history, seen, provenance, TypeOK
    <2>2. \A p \in Procs : StartedOf(p)'
      BY <2>1 DEF AcceptInv, StartedOf
    <2>3. \A p \in Procs : NamesOf(p)' /\ EvidenceOf(p)'
      BY <2>1 DEF AcceptInv, NamesOf, NamesWhatIs, EvidenceOf, Resolution, Primary
    <2>4. FilesInv'
      BY <2>1 DEF AcceptInv, FilesInv, WholeAndDurable, NamesWhatIs, RepeatedBy, Attempt,
         Resolution, Primary, Outcome
    <2> QED
      BY <2>2, <2>3, <2>4 DEF AcceptInv
  <1>2. CASE PowerLoss
    <2>1. WholeAndDurable("resolution") => WholeAndDurable("resolution")'
      BY StepPermanent DEF Permanent, WholeAndDurable, ResultFiles
    <2>2. \A f \in ResultFiles : Present(disk'[f]) =>
              /\ Present(disk[f]) /\ disk'[f].body = disk[f].body
              /\ disk'[f].form \in {disk[f].form, "torn"}
      BY <1>2 DEF PowerLoss, AfterPowerLoss, AbsentFile, Present, TypeOK, Disk
    <2>3. /\ \A p \in Procs : pc'[p] = IF Alive(p) THEN "dead" ELSE pc[p]
          /\ evaluated' = evaluated
      BY <1>2 DEF PowerLoss, Die, LivePids, history, seen, provenance
    <2>4. ASSUME NEW p \in Procs PROVE StartedOf(p)' /\ NamesOf(p)' /\ EvidenceOf(p)'
      <3>1. pc'[p] \in {"idle", "ended", "dead"}
        BY <2>3 DEF Alive
      <3> QED
        BY <3>1 DEF StartedOf, NamesOf, EvidenceOf, Preflight, Handler, Built, Resolved,
           Opened, Scored, Confirmed, Evidenced
    <2>5. Present(Resolution)' => pc'[Resolution'.body.run] \in Over
      <3>1. ASSUME Present(disk'["resolution"])
            PROVE  pc'[disk["resolution"].body.run] \in Over
        <4>1. /\ disk["resolution"].body.run \in Procs
              /\ pc[disk["resolution"].body.run] \in Built \cup Handler \cup Over
          BY <2>2, <3>1
          DEF ResultFiles, VerdictInv, ArtifactInv, TypeOK, AcceptInv, FilesInv, Resolution
        <4> QED
          BY <2>3, <4>1 DEF Alive, Over, Handler, Built, Resolved, Opened, Scored, Confirmed
      <3> QED
        BY <2>2, <3>1 DEF Resolution, ResultFiles
    <2>6. /\ Present(Resolution)' => Present(Resolution)
          /\ Readable(Resolution)' => Readable(Resolution)
      BY <2>2 DEF Resolution, ResultFiles, Present, Readable
    <2>7. Present(Primary)' =>
              /\ Present(Primary) /\ Primary'.body = Primary.body
              /\ Primary.form # "partial" => Primary'.form # "partial"
      BY <2>2 DEF Primary, ResultFiles, Present
    <2>8. Present(Outcome)' => Present(Outcome) /\ Outcome'.body = Outcome.body
      BY <2>2 DEF Outcome, ResultFiles
    <2>9. Present(Attempt)' => Present(Attempt) /\ Attempt'.body = Attempt.body
      BY <2>2 DEF Attempt, ResultFiles
    <2>10. FilesInv'
      <3>1. Present(Outcome)' /\ Outcome'.body.verdict = "FAIL_EXECUTION" =>
                NamesWhatIs(Outcome.body)'
        BY <2>6, <2>8 DEF AcceptInv, FilesInv, NamesWhatIs
      <3>2. Present(Outcome)' /\ Outcome'.body.verdict \in GateVerdicts =>
                RepeatedBy(Outcome.body)'
        BY <2>7, <2>8 DEF AcceptInv, FilesInv, RepeatedBy
      <3> QED
        BY <2>1, <2>3, <2>5, <2>9, <3>1, <3>2 DEF AcceptInv, FilesInv
    <2> QED
      BY <2>4, <2>10 DEF AcceptInv
  <1> QED
    BY <1>1, <1>2 DEF Environment

\* Nothing is accepted of the initial state.
LEMMA InitAccepted == Init => AcceptInv
  BY DEF Init, AcceptInv, StartedOf, NamesOf, EvidenceOf, FilesInv, Preflight, Handler, Built,
         Resolved, Opened, Scored, Confirmed, Evidenced, AbsentFile, Present, Disk,
         ResultFiles, Attempt, Resolution, Outcome

\* Every step preserves the invariant of what the readers accept.
LEMMA StepAccepts ==
    ASSUME DirectoryOpens, TypeOK, MarkerInv, VerdictInv, AcceptInv, [Next]_vars
    PROVE  AcceptInv'
  <1>1. ASSUME NEW p \in Runs, Invoke(p) \/ ProcStep(p) \/ Kill(p) PROVE AcceptInv'
    <2>1. p \in Procs
      BY DEF Procs
    <2> QED
      BY <1>1, <2>1, CheckAccepted, BuildAccepted, LeaveAccepted, EvaluationAccepted,
         AttemptAccepted, ResolutionAccepted, OutcomeAccepted DEF ProcStep, OneShotStep
  <1> QED
    BY <1>1, EnvironmentAccepted DEF Next

\* The readers accept what an undisturbed run writes: a readable outcome is
\* published with its own verdict, unless for one of the reasons Accepted names.
THEOREM WrittenIsAccepted == ASSUME DirectoryOpens PROVE Spec => []Accepted
  <1>1. Init => AcceptInv
    BY InitAccepted
  <1>2. TypeOK /\ MarkerInv /\ VerdictInv /\ AcceptInv /\ [Next]_vars => AcceptInv'
    BY StepAccepts
  <1>3. TypeOK /\ MarkerInv /\ VerdictInv /\ AcceptInv => Accepted
    BY AcceptsWhatIsWritten
  <1> QED
    BY <1>1, <1>2, <1>3, TypeCorrect, MarkerInvariant, VerdictInvariant, PTL DEF Spec

(***************************************************************************)
(* The regression runner.  The steps of a replay leave every result file   *)
(* and every history alone, so that the invariants of the runs hold beside *)
(* it; and what it repeats was, and stays, the outcome of the marked run.  *)
(***************************************************************************)
\* The verdict of body is that of the outcome of a run that has evaluated; where a
\* power loss took the outcome, that run is over and nobody writes another.
Claim(body) ==
    /\ body.verdict \in GateVerdicts /\ body.run \in evaluated
    /\ IF Present(disk["outcome"])
       THEN disk["outcome"].body.verdict = body.verdict
       ELSE pc[body.run] \in Over

\* What a replay has loaded, is about to write and has written.
ReplayOf(p) ==
    /\ pc[p] \in {"replay", "record"} => Claim(mem[p].outcome) /\ Readable(disk["outcome"])
    /\ pc[p] = "regression" =>
           /\ Claim(mem[p].attempt) /\ mem[p].attempt.artifact = "whole"
           /\ stage[p] # "open" => Present(disk[p])
    /\ Present(disk[p]) => Claim(disk[p].body) /\ disk[p].body.artifact = "whole"

ReplayInv == \A p \in Replays : ReplayOf(p)

\* A replay has a file of its own, beside the result files.
LEMMA ReplayNames ==
    ASSUME NEW p \in Replays
    PROVE  p \in Procs /\ p \in Disk /\ p \notin ResultFiles /\ p \notin Runs
  BY ProcAssumption, FileAssumption DEF Procs, Disk

\* What a step of a replay may do: the files of its own process, and nothing else
\* on the disk.
LEMMA ReplayByRun ==
    ASSUME TypeOK, NEW p \in Replays, ReplayStep(p)
    PROVE  /\ ByRun(p) /\ UNCHANGED history
           /\ \A f \in Disk \ {p} : disk'[f] = disk[f]
  <1>1. p \in Procs /\ p \in Disk /\ p \notin ResultFiles
    BY ReplayNames
  <1>2. CASE \E label : Pass(p, label) \/ (\E locals : Compute(p, label, locals))
    BY <1>1, <1>2, QuietByRun
  <1>3. CASE WriteRegression(p)
    <2>1. DurableWrite(p, p, mem[p].attempt, "release", "0")
      BY <1>3 DEF WriteRegression
    <2>2. ByRun(p)
      BY <1>1, <2>1
      DEF DurableWrite, Goto, TypeOK, ByRun, OnlyMoves, Standing, history, seen, provenance
    <2>3. Directory(p) = {}
      BY <1>1 DEF Directory
    <2>4. \A f \in Disk \ {p} : disk'[f] = disk[f]
      BY <1>1, <2>1, <2>3 DEF DurableWrite, TypeOK
    <2> QED
      BY <2>1, <2>2, <2>4 DEF DurableWrite
  <1>4. CASE LoadTerminalState(p)
    BY <1>2, <1>4, Zenon DEF LoadTerminalState
  <1>5. CASE ReplayWindow(p)
    BY <1>2, <1>5, Zenon DEF ReplayWindow
  <1>6. CASE RecordReplay(p)
    BY <1>2, <1>6, Zenon DEF RecordReplay
  <1> QED
    BY <1>3, <1>4, <1>5, <1>6 DEF ReplayStep

\* The steps of a replay keep every type.
LEMMA ReplayStepType ==
    ASSUME TypeOK, NEW p \in Replays, ReplayStep(p)
    PROVE  TypeOK'
  <1>1. /\ p \in Procs /\ p \in Disk /\ mem[p] \in Locals /\ now \in Nat
        /\ edited \subseteq Parts
        /\ \A f \in ResultFiles : disk[f] \in FileStates(Bodies)
    BY ReplayNames DEF TypeOK, Disk
  <1>2. {"replay", "record", "regression", "release"} \subseteq Labels
    BY DEF Labels, Replaying
  <1>3. CASE LoadTerminalState(p)
    <2> DEFINE locals == [mem[p] EXCEPT !.resolution = disk["resolution"].body,
                                        !.outcome = disk["outcome"].body,
                                        !.implementation = edited \cap Registered]
    <2>1. locals \in Locals
      BY <1>1 DEF Locals, ResultFiles, FileStates
    <2> QED
      BY <1>1, <1>2, <1>3, <2>1, ComputeType DEF LoadTerminalState
  <1>4. CASE ReplayWindow(p)
    BY <1>1, <1>2, <1>4, PassType DEF ReplayWindow
  <1>5. CASE RecordReplay(p)
    <2> DEFINE body == [NoBody EXCEPT !.run = disk["attempt"].body.run, !.at = now,
                            !.implementation = mem[p].implementation,
                            !.verdict = mem[p].outcome.verdict,
                            !.resolution = mem[p].resolution.run,
                            !.artifact = disk["outcome"].form]
    <2>1. disk["attempt"].body \in Bodies /\ disk["outcome"].form \in Forms
      BY <1>1 DEF ResultFiles, FileStates
    <2>2. body \in Bodies
      BY <1>1, <2>1, NoBodyType DEF Bodies, Locals
    <2>3. [mem[p] EXCEPT !.attempt = body] \in Locals
      BY <1>1, <2>2 DEF Locals
    <2> QED
      BY <1>1, <1>2, <1>5, <2>3, ComputeType DEF RecordReplay
  <1>6. CASE WriteRegression(p)
    <2>1. mem[p].attempt \in Bodies /\ "0" \in Codes
      BY <1>1 DEF Locals, Codes
    <2> QED
      BY <1>1, <1>2, <1>6, <2>1, DurableWriteType DEF WriteRegression
  <1> QED
    BY <1>3, <1>4, <1>5, <1>6 DEF ReplayStep

\* Where a step of a replay leads.
LEMMA ReplayMoves ==
    ASSUME TypeOK, MarkerInv, NEW p \in Replays, ReplayStep(p)
    PROVE  /\ pc[p] \in Replaying /\ pc'[p] \in {"replay", "record", "regression", "release"}
           /\ stage'[p] # "open" => pc'[p] = "regression"
           /\ exit'[p] # exit[p] => exit'[p] = "0" /\ pc'[p] = "release"
  <1>1. p \in Procs
    BY ReplayNames
  <1>2. pc[p] \in {"load", "replay", "record"} => stage[p] = "open"
    BY <1>1 DEF MarkerInv, ProcInv, WriteLabels
  <1>3. CASE \E label \in {"replay", "record", "regression"} :
                 /\ pc[p] \in {"load", "replay", "record"}
                 /\ \/ Pass(p, label)
                    \/ \E locals : Compute(p, label, locals)
    BY <1>1, <1>2, <1>3 DEF Pass, PassLoading, Advance, Compute, Goto, TypeOK, Replaying
  <1>4. CASE WriteRegression(p)
    BY <1>1, <1>4 DEF WriteRegression, DurableWrite, Goto, TypeOK, Replaying
  <1>5. CASE LoadTerminalState(p)
    BY <1>3, <1>5, Zenon DEF LoadTerminalState
  <1>6. CASE ReplayWindow(p)
    BY <1>3, <1>6, Zenon DEF ReplayWindow
  <1>7. CASE RecordReplay(p)
    BY <1>3, <1>7, Zenon DEF RecordReplay
  <1> QED
    BY <1>4, <1>5, <1>6, <1>7 DEF ReplayStep

\* The steps of a replay keep what the invariants say of the runs and the results.
LEMMA ReplayStepVerdict ==
    ASSUME TypeOK, MarkerInv, VerdictInv, NEW p \in Replays, ReplayStep(p)
    PROVE  MarkerInv' /\ VerdictInv'
  <1>1. /\ p \in Procs /\ ByRun(p) /\ UNCHANGED history
        /\ \A f \in ResultFiles : disk'[f] = disk[f]
    BY ReplayNames, ReplayByRun DEF Disk
  <1>2. Lasting /\ FilesKept /\ OnlyMoves(p) /\ \A f \in JsonFiles : Kept(f)
    BY <1>1 DEF Lasting, Permanent, FilesKept, ByRun, Kept, JsonFiles, ResultFiles
  <1>3. /\ pc[p] \in Replaying /\ pc'[p] \in {"replay", "record", "regression", "release"}
        /\ stage'[p] # "open" => pc'[p] = "regression"
        /\ exit'[p] # exit[p] => exit'[p] = "0" /\ pc'[p] = "release"
    BY ReplayMoves
  <1>4. ProcInv(p) /\ RunInv(p)
    BY <1>1 DEF MarkerInv, VerdictInv
  <1>5. ProcInv(p)'
    BY <1>3 DEF ProcInv, HasCreated, WriteLabels, Marked, TryBlock, Handler
  <1>6. DiskInv'
    BY <1>1 DEF MarkerInv, DiskInv, MarkerOf, ResultFiles, history, seen, provenance
  <1>7. \A q \in Procs : ProcInv(q)'
    BY <1>1, <1>2, <1>5, OthersUndisturbed DEF MarkerInv
  <1>8. RunInv(p)'
    <2> USE DEF Confirmed, Scored, Opened, Resolved, Seen, Over, TryBlock, Handler, Replaying
    <2>1. p \notin revealed /\ p \notin evaluated
      BY <1>3, <1>4 DEF RunInv, HistoryOf
    <2>2. HistoryOf(p)'
      BY <1>1, <1>3, <2>1 DEF HistoryOf, history, seen
    <2>6. SourcesOf(p)'
      <3>1. Alive(p) /\ Standing' = Standing /\ edited' = edited
        BY <1>1, <1>3 DEF Alive, ByRun, Standing, history, provenance
      <3> QED
        BY <1>3, <1>4, <3>1 DEF RunInv, SourcesOf
    <2>3. ResolutionOf(p)' /\ OutcomeOf(p)'
      BY <1>3 DEF ResolutionOf, OutcomeOf
    <2>4. p \notin Runs
      BY ReplayNames
    <2>5. ExitOf(p)'
      BY <1>3, <1>4, <2>4 DEF RunInv, ExitOf
    <2> QED
      BY <2>2, <2>3, <2>5, <2>6 DEF RunInv
  <1>9. \A q \in Procs : RunInv(q)'
    BY <1>1, <1>2, <1>8, OthersKept
  <1>10. pc[p] \notin Concluding \cup Over
    BY <1>3 DEF Concluding, Over, Replaying
  <1>11. \A q \in Procs \ {p} : pc'[q] = pc[q]
    BY <1>2 DEF OnlyMoves
  <1>12. ArtifactInv'
    BY <1>1, <1>10, <1>11
    DEF VerdictInv, ArtifactInv, WholeAndDurable, ResultFiles, Standing, history, seen,
        provenance
  <1> QED
    BY <1>6, <1>7, <1>9, <1>12 DEF MarkerInv, VerdictInv

\* A replay takes the lock, fails and dies like a run.
LEMMA ReplayLeaves ==
    ASSUME TypeOK, MarkerInv, VerdictInv, NEW p \in Replays,
           Invoke(p) \/ LockStep(p) \/ Throw(p) \/ Kill(p)
    PROVE  TypeOK' /\ MarkerInv' /\ VerdictInv'
  <1>1. p \in Procs /\ disk' = disk
    BY ReplayNames, AroundByRun
  <1>2. Lasting
    BY <1>1 DEF Lasting, Permanent
  <1>3. TypeOK'
    BY <1>1, CheckType, LockType, ThrowType, KillType
  <1>4. MarkerInv'
    BY <1>1, <1>2, CheckMarker, LeaveMarker
  <1>5. VerdictInv'
    BY <1>1, <1>2, CheckVerdict, LeaveVerdict
  <1> QED
    BY <1>3, <1>4, <1>5

\* The invariants of the runs hold beside any number of replays.
LEMMA RegressionStep ==
    ASSUME DirectoryOpens, TypeOK, MarkerInv, VerdictInv, [RegressionNext]_vars
    PROVE  TypeOK' /\ MarkerInv' /\ VerdictInv'
  <1>1. CASE [Next]_vars
    BY <1>1, StepType, StepMarker, StepVerdict
  <1>2. ASSUME NEW p \in Replays, Invoke(p) \/ ReplayProcStep(p) \/ Kill(p)
        PROVE  TypeOK' /\ MarkerInv' /\ VerdictInv'
    BY <1>2, ReplayLeaves, ReplayStepType, ReplayStepVerdict DEF ReplayProcStep
  <1> QED
    BY <1>1, <1>2 DEF RegressionNext

(***************************************************************************)
(* What a replay repeats stays true of the outcome.                        *)
(***************************************************************************)
\* A step of a run keeps the outcome and the replays' files; only the write of an
\* outcome creates one.
LEMMA RunKeeps ==
    ASSUME TypeOK, MarkerInv, NEW p \in Runs, Invoke(p) \/ ProcStep(p) \/ Kill(p)
    PROVE  /\ ByRun(p) /\ Kept("outcome")
           /\ Present(disk'["outcome"]) =>
                  Present(disk["outcome"]) \/ pc[p] \in {"outcome", "failure"}
           /\ \A r \in Replays : disk'[r] = disk[r]
  <1>1. p \in Procs /\ ProcInv(p)
    BY DEF Procs, MarkerInv
  <1>2. CASE /\ ByRun(p) /\ disk'["outcome"] = disk["outcome"]
             /\ \A r \in Replays : disk'[r] = disk[r]
    BY <1>2 DEF Kept
  <1>3. CASE WriteAttempt(p) \/ WriteResolution(p) \/ WriteOutcome(p) \/ WriteFailure(p)
    <2>1. /\ mem[p].attempt \in Bodies /\ mem[p].resolution \in Bodies
          /\ mem[p].outcome \in Bodies
      BY <1>1 DEF TypeOK, Locals
    <2>2. PICK g \in JsonFiles, body \in Bodies :
              /\ \E next, code : DurableWrite(p, g, body, next, code)
              /\ g = "outcome" => pc[p] \in {"outcome", "failure"}
              /\ stage[p] = "write" => Present(disk[g])
      BY <1>1, <1>3, <2>1
      DEF WriteAttempt, WriteResolution, WriteOutcome, WriteFailure, JsonFiles, ProcInv,
          WritesMarker, HasCreated
    <2>3. /\ ByRun(p) /\ Kept("outcome")
          /\ Present(disk'["outcome"]) => Present(disk["outcome"]) \/ g = "outcome"
      BY <1>1, <2>2, WriteByRun DEF JsonFiles
    <2>4. ASSUME NEW r \in Replays PROVE disk'[r] = disk[r]
      <3>1. r \in Disk /\ r \notin ResultFiles /\ g \in ResultFiles
        BY ReplayNames DEF JsonFiles, ResultFiles
      <3>2. r \notin Directory(g) /\ r # g
        BY <3>1 DEF Directory
      <3> QED
        BY <2>2, <3>1, <3>2 DEF DurableWrite, TypeOK
    <2> QED
      BY <2>2, <2>3, <2>4
  <1>4. CASE FetchPulse(p) \/ OpenEvaluation(p)
             \/ CreatePrimaryEvidence(p) \/ ScoreWindow(p) \/ WriteManifest(p)
    <2>1. ByRun(p) /\ disk'["outcome"] = disk["outcome"]
      BY <1>1, <1>4, EvaluationByRun DEF JsonFiles
    <2>2. ASSUME NEW r \in Replays PROVE disk'[r] = disk[r]
      <3>1. r \in Disk /\ r # "primary"
        BY ReplayNames DEF ResultFiles
      <3> QED
        BY <1>4, <3>1
        DEF FetchPulse, OpenEvaluation, CreatePrimaryEvidence, ScoreWindow, WriteManifest,
            TypeOK
    <2> QED
      BY <1>2, <2>1, <2>2
  <1>5. CASE \/ Invoke(p) \/ LockStep(p) \/ Throw(p) \/ Kill(p)
             \/ \E label : \/ Pass(p, label) \/ PassLoading(p, label)
                           \/ \E locals : Compute(p, label, locals)
    BY <1>1, <1>2, <1>5, QuietByRun, LoadingByRun, AroundByRun
  <1>6. CASE DigestImplementation(p) \/ BuildAttempt(p) \/ BuildResolution(p)
             \/ BuildOutcome(p) \/ BuildFailure(p)
    <2>1. \E label, locals : Compute(p, label, locals)
      BY <1>6, Zenon
      DEF DigestImplementation, BuildAttempt, BuildResolution, BuildOutcome, BuildFailure
    <2> QED
      BY <1>5, <2>1
  <1>7. CASE \/ RequireTimeWindow(p) \/ RequireArtifactsAbsent(p)
             \/ RequireCleanHead(p) \/ RequirePublicFreeze(p) \/ PrepareRuntime(p)
             \/ ReloadAttempt(p) \/ VerifyResolution(p) \/ RequireOnlyResults(p)
             \/ RequireUnchangedDigests(p) \/ VerifyScientificResult(p)
             \/ RequireBeforeDeadline(p) \/ FindOutcome(p)
    <2>1. \E label : Pass(p, label) \/ PassLoading(p, label)
      BY <1>7, Zenon
      DEF RequireTimeWindow, RequireArtifactsAbsent, RequireCleanHead, RequirePublicFreeze,
          PrepareRuntime, ReloadAttempt, VerifyResolution, RequireOnlyResults,
          RequireUnchangedDigests, VerifyScientificResult, RequireBeforeDeadline,
          FindOutcome
    <2> QED
      BY <1>5, <2>1
  <1> QED
    BY <1>3, <1>4, <1>5, <1>6, <1>7 DEF ProcStep, OneShotStep


\* A process that is over stays over.
LEMMA OwnStaysOver ==
    ASSUME TypeOK, MarkerInv, NEW p \in Procs, pc[p] \in Over,
           Invoke(p) \/ LockStep(p) \/ Throw(p) \/ Kill(p) \/ OneShotStep(p)
    PROVE  pc'[p] \in Over
  <1>1. CASE LockStep(p)
    BY <1>1 DEF LockStep, AcquireLock, FindStaleLock, ReclaimLock, RefuseLock, ReleaseLock,
       AbandonLock, Goto, TypeOK, Over
  <1>2. CASE Kill(p)
    BY <1>2 DEF Kill, Die, TypeOK, Over
  <1>3. CASE OneShotStep(p)
    BY <1>3
    DEF OneShotStep, RequireTimeWindow, RequireArtifactsAbsent, RequireCleanHead,
        RequirePublicFreeze, DigestImplementation, PrepareRuntime, BuildAttempt,
        WriteAttempt, ReloadAttempt, FetchPulse, BuildResolution, VerifyResolution,
        WriteResolution, RequireOnlyResults, RequireUnchangedDigests, OpenEvaluation,
        CreatePrimaryEvidence, ScoreWindow, WriteManifest, VerifyScientificResult,
        RequireBeforeDeadline, BuildOutcome, WriteOutcome, FindOutcome, BuildFailure,
        WriteFailure, Over
  <1>4. CASE Invoke(p) \/ Throw(p)
    BY <1>4 DEF Invoke, Throw, Preflight, TryBlock, Handler, Replaying, Over
  <1> QED
    BY <1>1, <1>2, <1>3, <1>4

\* A step of a process, a run or a replay, as the other processes see it.
Observed(p) ==
    /\ ByRun(p) /\ Kept("outcome")
    /\ Present(disk'["outcome"]) =>
           Present(disk["outcome"]) \/ pc[p] \in {"outcome", "failure"}
    /\ pc[p] \in Over => pc'[p] \in Over
    /\ \A r \in Replays \ {p} : disk'[r] = disk[r]

\* Every step of a run is one.
LEMMA RunObserved ==
    ASSUME TypeOK, MarkerInv, NEW p \in Runs, Invoke(p) \/ ProcStep(p) \/ Kill(p)
    PROVE  Observed(p)
  <1>1. p \in Procs
    BY DEF Procs
  <1>2. pc[p] \in Over => pc'[p] \in Over
    BY <1>1, OwnStaysOver DEF ProcStep
  <1> QED
    BY <1>2, RunKeeps DEF Observed

\* And every step of a replay.
LEMMA ReplayObserved ==
    ASSUME TypeOK, MarkerInv, NEW p \in Replays,
           Invoke(p) \/ ReplayProcStep(p) \/ Kill(p)
    PROVE  Observed(p)
  <1>1. /\ p \in Procs /\ p # "outcome" /\ "outcome" \in Disk
        /\ \A r \in Replays : r \in Disk
    BY ReplayNames DEF ResultFiles, Disk
  <1>2. CASE ReplayStep(p)
    BY <1>1, <1>2, ReplayByRun, ReplayMoves DEF Observed, Kept, Replaying, Over
  <1>3. CASE Invoke(p) \/ LockStep(p) \/ Throw(p) \/ Kill(p)
    BY <1>1, <1>3, AroundByRun, OwnStaysOver DEF Observed, Kept
  <1> QED
    BY <1>2, <1>3 DEF ReplayProcStep

\* What a replay holds stays true under the step of a process.
LEMMA ClaimStands ==
    ASSUME TypeOK, MarkerInv, VerdictInv, NEW p \in Procs, Observed(p),
           NEW body, Claim(body)
    PROVE  Claim(body)'
  <1>1. /\ body.run \in Procs /\ body.run \in evaluated'
        /\ MarkerOf(body.run)
    BY DEF Claim, TypeOK, Observed, ByRun, VerdictInv, RunInv, HistoryOf, MarkerInv, DiskInv
  <1>2. CASE Present(disk["outcome"])
    BY <1>1, <1>2 DEF Claim, Observed, Kept
  <1>3. CASE ~Present(disk["outcome"])
    <2>1. pc[body.run] \in Over /\ pc'[body.run] \in Over
      BY <1>1, <1>3 DEF Claim, Observed, ByRun, OnlyMoves
    <2>2. ASSUME pc[p] \in {"outcome", "failure"} PROVE FALSE
      <3>1. MarkerOf(p)
        BY <2>2 DEF MarkerInv, ProcInv, Marked, TryBlock, Handler
      <3> QED
        BY <1>1, <2>1, <2>2, <3>1, MarkerIsSingle DEF Over
    <2>3. ~Present(disk'["outcome"])
      BY <1>3, <2>2 DEF Observed
    <2> QED
      BY <1>1, <2>1, <2>3 DEF Claim
  <1> QED
    BY <1>2, <1>3

\* And under a power loss, which ends every run.
LEMMA ClaimSurvives ==
    ASSUME TypeOK, MarkerInv, VerdictInv, PowerLoss, NEW body, Claim(body)
    PROVE  Claim(body)'
  <1>1. body.run \in Procs /\ body.run \in evaluated'
    BY DEF Claim, TypeOK, PowerLoss, history, seen, provenance
  <1>2. Present(disk'["outcome"]) =>
            Present(disk["outcome"]) /\ disk'["outcome"].body = disk["outcome"].body
    BY DEF PowerLoss, AfterPowerLoss, AbsentFile, Present, TypeOK, Disk, ResultFiles
  <1>3. /\ pc'[body.run] \in {"idle", "ended", "dead"}
        /\ pc'[body.run] = "idle" => pc[body.run] = "idle"
    BY <1>1 DEF PowerLoss, Die, LivePids, Alive, TypeOK
  <1>4. pc[body.run] # "idle"
    BY <1>1 DEF Claim, VerdictInv, RunInv, HistoryOf, Opened, Scored, Confirmed, Handler, Over
  <1> QED
    BY <1>1, <1>2, <1>3, <1>4 DEF Claim, Over

\* The other replays do not see the step of a process.
LEMMA OtherReplays ==
    ASSUME TypeOK, MarkerInv, VerdictInv, ReplayInv, NEW p \in Procs, Observed(p),
           NEW r \in Replays \ {p}
    PROVE  ReplayOf(r)'
  <1>1. /\ ReplayOf(r) /\ r \in Procs /\ disk'[r] = disk[r]
        /\ pc'[r] = pc[r] /\ stage'[r] = stage[r] /\ mem'[r] = mem[r]
    BY ReplayNames DEF ReplayInv, Observed, ByRun, OnlyMoves
  <1>2. Readable(disk["outcome"]) => Readable(disk'["outcome"])
    BY DEF Observed, Kept
  <1>3. ASSUME NEW body, Claim(body), body' = body PROVE Claim(body)'
    BY <1>3, ClaimStands
  <1> QED
    BY <1>1, <1>2, <1>3 DEF ReplayOf

\* What a replay loads is what the marked run concluded, what it records is what
\* it loaded, and what it writes is what it recorded.
LEMMA OwnReplay ==
    ASSUME TypeOK, MarkerInv, VerdictInv, ReplayInv, NEW p \in Replays, ReplayStep(p)
    PROVE  ReplayOf(p)'
  <1>1. /\ ReplayOf(p) /\ ProcInv(p) /\ p \in Procs /\ p \in Disk /\ p \notin ResultFiles
        /\ mem[p] \in Locals /\ "outcome" \in Disk /\ p # "outcome"
    BY ReplayNames DEF ReplayInv, MarkerInv, TypeOK, ResultFiles, Disk
  <1>2. Observed(p) /\ disk'["outcome"] = disk["outcome"]
    BY <1>1, ReplayObserved, ReplayByRun DEF ReplayProcStep
  <1>3. ASSUME NEW body, Claim(body) PROVE Claim(body)'
    BY <1>1, <1>2, <1>3, ClaimStands
  <1>4. CASE LoadTerminalState(p)
    <2>1. /\ pc'[p] = "replay" /\ disk' = disk
          /\ mem'[p].outcome = disk["outcome"].body
          /\ Readable(disk["outcome"]) /\ disk["outcome"].body.verdict \in GateVerdicts
      BY <1>1, <1>4 DEF LoadTerminalState, Compute, Goto, TypeOK, Locals
    <2>2. Claim(disk["outcome"].body)
      BY <2>1 DEF Claim, VerdictInv, ArtifactInv, Readable, Present
    <2>3. Claim(disk["outcome"].body)'
      BY <1>3, <2>1, <2>2
    <2>4. Present(disk[p]) => Claim(disk[p].body)'
      BY <1>1, <1>3, <2>1 DEF ReplayOf
    <2> QED
      BY <1>1, <2>1, <2>3, <2>4 DEF ReplayOf
  <1>5. CASE ReplayWindow(p)
    <2>1. pc[p] = "replay" /\ pc'[p] = "record" /\ UNCHANGED <<mem, disk>>
      BY <1>1, <1>5 DEF ReplayWindow, Pass, PassLoading, Advance, Goto, TypeOK
    <2> QED
      BY <1>1, <1>3, <2>1 DEF ReplayOf
  <1>6. CASE RecordReplay(p)
    <2>1. /\ pc[p] = "record" /\ pc'[p] = "regression" /\ disk' = disk
          /\ stage'[p] = stage[p] /\ stage[p] = "open"
          /\ mem'[p].attempt.run = disk["attempt"].body.run
          /\ mem'[p].attempt.verdict = mem[p].outcome.verdict
          /\ mem'[p].attempt.artifact = disk["outcome"].form
          /\ mem'[p].outcome = mem[p].outcome
      BY <1>1, <1>6
      DEF RecordReplay, Compute, Goto, TypeOK, Locals, NoBody, ProcInv, WriteLabels
    <2>2. Claim(mem[p].outcome) /\ Readable(disk["outcome"])
      BY <1>1, <2>1 DEF ReplayOf
    <2>3. MarkerOf(mem[p].outcome.run)
      BY <2>2 DEF Claim, TypeOK, VerdictInv, RunInv, HistoryOf, MarkerInv, DiskInv
    <2>4. mem'[p].attempt.run = mem[p].outcome.run
      BY <2>1, <2>3 DEF MarkerOf
    <2>5. Claim(mem[p].outcome)' => Claim(mem[p].attempt)'
      BY <2>1, <2>4 DEF Claim
    <2>6. Claim(mem[p].outcome)'
      BY <1>3, <2>1, <2>2
    <2>7. Present(disk[p]) => Claim(disk[p].body)' /\ disk[p].body.artifact = "whole"
      BY <1>1, <1>3, <2>1 DEF ReplayOf
    <2> QED
      BY <1>1, <2>1, <2>2, <2>5, <2>6, <2>7 DEF ReplayOf, Readable
  <1>7. CASE WriteRegression(p)
    <2>1. /\ pc[p] = "regression" /\ DurableWrite(p, p, mem[p].attempt, "release", "0")
          /\ mem' = mem /\ Directory(p) = {} /\ disk[p] \in FileStates(Bodies)
      BY <1>1, <1>7 DEF WriteRegression, DurableWrite, Directory, TypeOK
    <2>2. /\ Claim(mem[p].attempt) /\ mem[p].attempt.artifact = "whole"
          /\ stage[p] # "open" => Present(disk[p])
      BY <1>1, <2>1 DEF ReplayOf
    <2>3. /\ pc'[p] \in {"regression", "release"}
          /\ disk'[p].body = IF stage[p] = "open" THEN mem[p].attempt ELSE disk[p].body
          /\ Present(disk'[p])
      BY <1>1, <2>1, <2>2
      DEF DurableWrite, Goto, TypeOK, Created, Filled, Synced, Present, FileStates
    <2>4. Claim(disk'[p].body) /\ disk'[p].body.artifact = "whole"
      BY <1>1, <2>2, <2>3 DEF ReplayOf
    <2> QED
      BY <1>3, <2>1, <2>2, <2>3, <2>4 DEF ReplayOf
  <1> QED
    BY <1>4, <1>5, <1>6, <1>7 DEF ReplayStep

\* A replay that takes the lock, fails or dies has written what it has written.
LEMMA ReplayEnds ==
    ASSUME TypeOK, MarkerInv, VerdictInv, ReplayInv, NEW p \in Replays,
           Invoke(p) \/ LockStep(p) \/ Throw(p) \/ Kill(p)
    PROVE  ReplayOf(p)'
  <1>1. p \in Procs /\ ReplayOf(p)
    BY ReplayNames DEF ReplayInv
  <1>2. Observed(p) /\ disk' = disk
    BY <1>1, ReplayObserved, AroundByRun DEF ReplayProcStep
  <1>3. pc'[p] \notin {"replay", "record", "regression"}
    <2>1. FirstStep(p) \in {"window", "load"}
      BY DEF FirstStep
    <2> QED
      BY <1>1, <2>1
      DEF Invoke, LockStep, AcquireLock, FindStaleLock, ReclaimLock, RefuseLock,
          ReleaseLock, AbandonLock, TakeLock, Pass, PassLoading, Advance, Goto, Throw,
          Kill, Die, TypeOK
  <1>4. Present(disk[p]) => Claim(disk[p].body)'
    BY <1>1, <1>2, ClaimStands DEF ReplayOf
  <1> QED
    BY <1>1, <1>2, <1>3, <1>4 DEF ReplayOf

\* The clock, the operator and a power loss change nothing a replay has written.
LEMMA EnvironmentReplays ==
    ASSUME TypeOK, MarkerInv, VerdictInv, ReplayInv, Environment \/ UNCHANGED vars,
           NEW p \in Replays
    PROVE  ReplayOf(p)'
  <1>1. p \in Procs /\ p \in Disk /\ ReplayOf(p)
    BY ReplayNames DEF ReplayInv
  <1>2. CASE Tick \/ Operator \/ UNCHANGED vars
    <2>1. UNCHANGED <<pc, stage, mem, disk, evaluated>>
      BY <1>2 DEF Tick, Operator, Edit, Restore, vars, control, history, seen, provenance
    <2>2. ASSUME NEW body, Claim(body) PROVE Claim(body)'
      BY <2>1, <2>2 DEF Claim
    <2> QED
      BY <1>1, <2>1, <2>2 DEF ReplayOf
  <1>3. CASE PowerLoss
    <2>1. pc'[p] \in {"idle", "ended", "dead"}
      BY <1>1, <1>3 DEF PowerLoss, Die, LivePids, Alive, TypeOK
    <2>2. Present(disk'[p]) => Present(disk[p]) /\ disk'[p].body = disk[p].body
      BY <1>1, <1>3 DEF PowerLoss, AfterPowerLoss, AbsentFile, Present, TypeOK
    <2>3. Present(disk'[p]) => Claim(disk[p].body)'
      BY <1>1, <1>3, <2>2, ClaimSurvives DEF ReplayOf
    <2> QED
      BY <1>1, <2>1, <2>2, <2>3 DEF ReplayOf
  <1> QED
    BY <1>2, <1>3 DEF Environment

\* Every step beside any number of replays preserves what they repeat.
LEMMA ReplayKept ==
    ASSUME TypeOK, MarkerInv, VerdictInv, ReplayInv, [RegressionNext]_vars
    PROVE  ReplayInv'
  <1>1. ASSUME NEW p \in Runs, Invoke(p) \/ ProcStep(p) \/ Kill(p) PROVE ReplayInv'
    <2>1. p \in Procs /\ p \notin Replays
      BY ProcAssumption DEF Procs
    <2> QED
      BY <1>1, <2>1, RunObserved, OtherReplays DEF ReplayInv
  <1>2. ASSUME NEW p \in Replays, Invoke(p) \/ ReplayProcStep(p) \/ Kill(p)
        PROVE  ReplayInv'
    <2>1. p \in Procs
      BY ReplayNames
    <2>2. ReplayOf(p)'
      BY <1>2, OwnReplay, ReplayEnds DEF ReplayProcStep
    <2> QED
      BY <1>2, <2>1, <2>2, ReplayObserved, OtherReplays DEF ReplayInv
  <1>3. CASE Environment \/ UNCHANGED vars
    BY <1>3, EnvironmentReplays DEF ReplayInv
  <1> QED
    BY <1>1, <1>2, <1>3 DEF RegressionNext, Next

\* Nothing is loaded or written in the initial state.
LEMMA InitReplays == Init => ReplayInv
  <1>1. \A p \in Replays : p \in Procs /\ p \in Disk
    BY ReplayNames
  <1> QED
    BY <1>1 DEF Init, ReplayInv, ReplayOf, AbsentFile, Present

\* The invariants of the runs, and the one of the replays, hold when any number of
\* replays share the lock, the checkout and the results with the runs.
THEOREM RegressionInvariant ==
    ASSUME DirectoryOpens
    PROVE  RegressionSpec => [](TypeOK /\ MarkerInv /\ VerdictInv /\ ReplayInv)
  <1>1. Init => TypeOK /\ MarkerInv /\ VerdictInv /\ ReplayInv
    BY InitType, InitMarker, InitVerdict, InitReplays
  <1>2. TypeOK /\ MarkerInv /\ VerdictInv /\ ReplayInv /\ [RegressionNext]_vars =>
            TypeOK' /\ MarkerInv' /\ VerdictInv' /\ ReplayInv'
    BY RegressionStep, ReplayKept
  <1> QED
    BY <1>1, <1>2, PTL DEF RegressionSpec

\* Every regression file repeats the scientific verdict of the one run that saw
\* the pulse and evaluated the window, and binds a whole outcome file of that run;
\* whatever is killed or loses power, no outcome that says otherwise ever stands
\* beside it.
THEOREM RegressionRepeats ==
    ASSUME DirectoryOpens PROVE RegressionSpec => []RegressionRepeatsVerdict
  <1>1. TypeOK /\ MarkerInv /\ VerdictInv /\ ReplayInv => RegressionRepeatsVerdict
    <2> SUFFICES ASSUME TypeOK, MarkerInv, VerdictInv, ReplayInv, NEW p \in Replays,
                        Present(disk[p])
                 PROVE  /\ disk[p].body.verdict \in GateVerdicts
                        /\ disk[p].body.run = disk["attempt"].body.run
                        /\ disk[p].body.run \in evaluated
                        /\ disk[p].body.artifact = "whole"
                        /\ Present(disk["outcome"]) =>
                               disk["outcome"].body.verdict = disk[p].body.verdict
      BY DEF RegressionRepeatsVerdict
    <2>1. Claim(disk[p].body) /\ disk[p].body.artifact = "whole"
      BY DEF ReplayInv, ReplayOf
    <2>2. MarkerOf(disk[p].body.run)
      BY <2>1 DEF Claim, TypeOK, VerdictInv, RunInv, HistoryOf, MarkerInv, DiskInv
    <2> QED
      BY <2>1, <2>2 DEF Claim, MarkerOf
  <1> QED
    BY <1>1, RegressionInvariant, PTL
=============================================================================
