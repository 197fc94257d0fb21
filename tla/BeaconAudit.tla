----------------------------- MODULE BeaconAudit -----------------------------
(***************************************************************************)
(* What the two readers of the beacon evidence conclude from the results   *)
(* directory: verify_evidence (RealLLM/verify_beacon_evidence.py), run in  *)
(* the frozen tree, and classify_artifacts with the artifact-set checks of *)
(* security/audit_beacon_evidence_ref.py, which publishes one class.  Both *)
(* only read.  They are evaluated in every state of BeaconOneShot, because *)
(* an operator may audit whatever a crash left behind.                     *)
(***************************************************************************)
EXTENDS BeaconOneShot

Attempt == disk["attempt"]
Resolution == disk["resolution"]
Primary == disk["primary"]
Outcome == disk["outcome"]

TerminalVerdicts == GateVerdicts \cup {"FAIL_EXECUTION"}
Classes == TerminalVerdicts \cup
    {"NOT_STARTED_PREFLIGHT_REJECTION", "CONSUMED_INCOMPLETE",
     "CONSUMED_INVALID_EVIDENCE"}

\* Mutant: startedAt is not compared with the registered window.
AttemptVerifiedAnyTime ==
    /\ Attempt.body.registration = {}
    /\ Attempt.body.implementation = {}

\* _verify_attempt_and_freeze: digests equal to the public freeze, started
\* inside the registered window.
AttemptVerified ==
    /\ Attempt.body.registration = {}
    /\ Attempt.body.implementation = {}
    /\ Attempt.body.at \in Target..Deadline

\* _verify_resolution_artifact
ResolutionVerified ==
    /\ Readable(Resolution)
    /\ Resolution.body.run = Attempt.body.run
    /\ Resolution.body.registration = Attempt.body.registration

\* Mutant: every failure is expected to name a resolution.
FailureVerifiedWithResolution ==
    /\ ResolutionVerified
    /\ Outcome.body.resolution = Resolution.body.run
    /\ Outcome.body.artifact = Resolution.form

\* The FAIL_EXECUTION branch of verify_evidence: the outcome names exactly the
\* resolution artifact that exists, or none.
FailureVerified ==
    IF Present(Resolution)
    THEN /\ ResolutionVerified
         /\ Outcome.body.resolution = Resolution.body.run
         /\ Outcome.body.artifact = Resolution.form
    ELSE /\ Outcome.body.resolution = NoProc
         /\ Outcome.body.artifact = "absent"

\* Its scientific branch, with verify_scientific_result.
ScientificVerified ==
    /\ Outcome.body.at <= Deadline
    /\ Outcome.body.registration = Attempt.body.registration
    /\ Outcome.body.implementation = Attempt.body.implementation
    /\ ResolutionVerified
    /\ Outcome.body.resolution = Resolution.body.run
    /\ Outcome.body.artifact = "whole"
    /\ ScientificResultVerified(Outcome.body.run, Outcome.body.verdict)

EvidenceVerified ==
    /\ AttemptVerified
    /\ Outcome.body.run = Attempt.body.run
    /\ IF Outcome.body.verdict = "FAIL_EXECUTION"
       THEN FailureVerified ELSE ScientificVerified

\* _expected_primary_artifact_set: primary evidence needs a readable
\* resolution; if the manifest is there it must parse, else the names must be
\* a prefix of the writer's order.  Which files of a torn directory a power
\* loss spares is not modelled: they are taken to be a set that is allowed.
PrimaryAllowed ==
    Present(Primary) =>
        Readable(Resolution) /\ Primary.body.artifact # "partial"

\* verify_consumed_artifact_set
ConsumedSetAllowed ==
    /\ Present(Resolution) => Readable(Resolution)
    /\ PrimaryAllowed

Incomplete ==
    IF AttemptVerified /\ ConsumedSetAllowed
    THEN "CONSUMED_INCOMPLETE" ELSE "CONSUMED_INVALID_EVIDENCE"

Concluded ==
    IF Readable(Outcome) /\ EvidenceVerified /\ PrimaryAllowed
    THEN Outcome.body.verdict ELSE "CONSUMED_INVALID_EVIDENCE"

Classification ==
    IF ~Present(Attempt)
    THEN IF Present(Outcome) THEN "CONSUMED_INVALID_EVIDENCE"
         ELSE "NOT_STARTED_PREFLIGHT_REJECTION"
    ELSE IF ~Readable(Attempt) THEN "CONSUMED_INVALID_EVIDENCE"
    ELSE IF ~Present(Outcome) THEN Incomplete
    ELSE Concluded

-----------------------------------------------------------------------------
(***************************************************************************)
(* Properties.                                                             *)
(***************************************************************************)
\* Once the pulse has been seen, no crash, race or power loss brings the
\* suite back to the one class that permits another start.
RevealConsumes ==
    revealed # {} => Classification # "NOT_STARTED_PREFLIGHT_REJECTION"

\* A verdict the auditor publishes was earned: the run that saw the pulse
\* started inside the registered window, and for PASS or FAIL_GATES it alone
\* saw the pulse, it alone evaluated, and it concluded before the deadline.
PublishedVerdictEarned ==
    LET run == Outcome.body.run IN
        /\ Classification \in TerminalVerdicts =>
               Attempt.body.run = run /\ Attempt.body.at \in Target..Deadline
        /\ Classification \in GateVerdicts =>
               /\ revealed = {run} /\ evaluated = {run}
               /\ Outcome.body.at <= Deadline

\* The readers accept what an undisturbed run writes: a readable outcome is
\* published with its own verdict unless the marker or the conclusion was
\* late, an edited source was recorded, power was lost, or the run failed
\* between building the resolution and finishing resolution.json (the edge
\* named in docs/BEACON_LAUNCH_RUNBOOK.md:198) or within the write of the
\* primary-evidence manifest (an edge no document names).
Undisturbed ==
    /\ Attempt.body.at <= Deadline
    /\ \A f \in ResultFiles :
           /\ disk[f].form # "torn"
           /\ disk[f].body.registration = {} /\ disk[f].body.implementation = {}
Accepted ==
    LET body == Outcome.body IN
        Readable(Outcome) /\ Undisturbed =>
            \/ Classification = body.verdict
            \/ body.verdict # "FAIL_EXECUTION" /\ body.at > Deadline
            \/ body.verdict # "FAIL_EXECUTION" /\ ~Present(Primary)
            \/ body.verdict = "FAIL_EXECUTION" /\ Primary.body.artifact = "partial"
            \/ /\ body.verdict = "FAIL_EXECUTION" /\ body.resolution # NoProc
               /\ ~Readable(Resolution)

\* A published class only moves forward: unless a file is lost or torn by a
\* power loss, a terminal verdict stays and a consumed suite stays consumed.
Damage == \E f \in ResultFiles :
    Present(disk[f]) /\ (~Present(disk'[f]) \/ (disk'[f].form = "torn"))
ClassificationForward ==
    [][~Damage =>
          /\ Classification \in TerminalVerdicts => Classification' = Classification
          /\ Classification # "NOT_STARTED_PREFLIGHT_REJECTION" =>
                 Classification' # "NOT_STARTED_PREFLIGHT_REJECTION"]_disk
=============================================================================
