# A formal model of the CoreLM benchmark

The repository produces benchmark results that are worth something only if
nobody could have chosen them: a suite is registered in public, a NIST beacon
pulse that did not exist at registration selects the held-out text, one run
evaluates it, and the outcome is published whatever it is. An earlier suite does
the same in two phases, a macOS application repeats a run under a supervising
script, one recorded demonstration of that becomes a signed release, and
outsiders replicate it. In each of these the argument rests on little state (a
few files created exclusively, a lock, a log, a process group, a tag, a draft)
and on code that must be right in every interleaving, crash and power loss.
These modules model that code, TLC checks them on small instances, and TLAPS
proves the safety properties for every instance.

Paths are relative to the repository's root. `PROJECT.json` maps each
definition to its lines.

## 1. Inventory

| part | state | operations | modelled by |
| --- | --- | --- | --- |
| One-shot runner, `RealLLM/run_beacon_one_shot.py` | results directory, lock file, locals, exit status | preflights, marker, pulse, resolution, evaluation, outcome, failure handler, lock and unlock | `BeaconOneShot` |
| Protocol primitives, `RealLLM/beacon_protocol.py` | files of the results directory | `durable_exclusive_write`, digests, public-freeze check, pulse, window selection | `DurableFiles`, `BeaconOneShot`, `WindowSelection`; hashing, certificates and release checks are calls that pass or raise |
| Evaluation, `RealLLM/beacon_evaluation.py`, `benchmark_real_llm.py` | primary-evidence directory | evaluate the window, write containers, metrics and manifest | `BeaconOneShot`, as one unit of evidence; inference and gates are floating point |
| Regression runner, `RealLLM/run_beacon_regression.py` | one file per replay | load terminal state, evaluate again, write record | `BeaconRegression` |
| Verifier and auditor, `RealLLM/verify_beacon_evidence.py`, `security/audit_beacon_evidence_ref.py` | none | verify, classify the directory | `BeaconAudit` |
| Frozen V5 suite, `RealLLM/run_voidtoken_v5_frozen.py`, `verify_voidtoken_v5_evidence.py` | clones, tags, two markers and two results | two phases, public pre-test freeze between them, verification | `V5Frozen`, `V5Evidence` |
| macOS application, `BenchmarkStore.swift`, `RealLLM/app_proof_runner.py` | one supervised worker, its group file, its run directory, its receipt | launch, confirm group, stop, safety watchdog, termination handler, delayed SIGKILL, quit | `BenchmarkApp`; views, logs, bundle checks left out |
| Proof supervision, `run-proof.sh`, `proof_process_groups.sh` | lock, marker, reasons, group files, reports | build, launch, two watchdogs, verification, replay, terminal log, cleanup trap | `ProofSupervisor` |
| Application and local-run verifiers, `security/verify_app_run_evidence.py` and others | reports | judge a run directory | conditions in `ProofSupervisor` |
| Portfolio attempt, `run-automated-portfolio-demo.py`, `security/automated_media.py`, `verify_portfolio_tag_ci.py` | attempt log of the tag, session directory, shared app bundle | admission, reservation, one proof, captures, sealing, receipt | `PortfolioAttempt` |
| Portfolio release, `publication/collect_portfolio_demo.py`, `build_portfolio_release.py`, `verify_portfolio_github_release.py` | collected files, release directory, draft and release on GitHub, saved responses | collect, build, sign, verify, draft, upload, publish, verify logged out | `PortfolioRelease` |
| Linux runtime, `platforms/linux/scripts` | owner-local Python, runtime directory | bootstrap, build, publish by rename | `LinuxRuntime` |
| Independent replication, `tools/independent_replication.py` | bundle at the output path | record, run the command, verify, publish by rename | `Replication` |
| VoidToken codec, freeze and asset preparation, paper and archive builders, supply-chain checks, V5 development phase, historical benchmark | none that outlives a call | sequential generators, readers and numerical code | not modelled (section 8) |

How they interact. The runner, the replay and the auditor share one results
directory; the runner and the replay one lock file. A proof script launches one
application, which launches one worker per run; they see each other through
process ids, signals and files that each writes and the others may read at any
moment. An orchestration starts one proof script, and every orchestration
rebuilds the one app bundle. Collector, builder and publication verifiers hand
files to each other through directories that others can write to, and the last
of them reads saved responses of GitHub. A replication record starts
`run-regression.sh` or `run-proof.sh` and looks for what it left.

What is hard: two invocations past one lock; files checked long before they are
created; a write that dies between open, write, fsync and directory fsync; a
power loss; the clock crossing a deadline between a check and its use; a
checkout, tag, bundle, draft or policy changed between two reads; a failure
handler running on top of a partial write; handlers, watchdogs and signals that
overtake each other; orphans that go on after their parent was killed; readers
that must decide from files alone what happened. `PROJECT.json` lists each at
its line, with the properties about it.

## 2. Modules

```
 DurableFiles ─┬─ BeaconOneShot ──┬── BeaconRegression ─┬─ MCBeaconReaders
               │    │ implements  ├── BeaconAudit ──────┤
               │    ▼             │               BeaconReadersProofs
               │  BeaconSuite     └── BeaconOneShotProofs ── BeaconVerdictProofs
               │                             (BeaconReadersProofs extends it)
               └─ V5Frozen ── V5Evidence ──┬── MCV5Evidence
                                           └── V5Proofs

 WindowSelection ── WindowSelectionProofs
 BenchmarkApp ── ProofSupervisor ── ProofSupervisorProofs
 PortfolioAttempt ── PortfolioRelease ── PortfolioProofs
 LinuxRuntime ── Replication ── ReplicationProofs
```

**DurableFiles** is the life of a file written exclusively and synced: absent,
created empty, filled, fsynced, entered in a synced directory; and what a power
loss may do to each. `Settled` is "synced and entered", `Readable` is "parses".

**BeaconOneShot** is the runner. `pc[p]` names the next call of
`_run_one_shot_locked`, `stage[p]` the next system call inside a durable write,
`mem[p]` the locals, `exit[p]` the status that `main` will report. One action
stands for each call, in the code's order; its guard is the condition under
which the call returns. `Throw(p)` is every exception: before the marker's
write has returned it ends the run, inside the `try` it enters
`_write_execution_failure`, in the handler it ends the run with the attempt
incomplete. `Kill` is any end without `finally`, `PowerLoss` ends all processes
and damages unsynced files, `Tick` is the clock. `Edit` and `Restore` are the
operator, who changes parts of the checkout and takes changes back at any
moment, in the middle of an evaluation too. A call that imports a module or
loads the registration (`LoadSources`) records in `tainted` the run that read an
edited part, and `Restore` records in `reverted` the live ones whose edits are
all gone: two histories that no guard reads. A digest is the set of checkout parts that
differed from the freeze when it was taken; an artifact is the run it belongs
to, its time, its digests and, for an outcome, its verdict and resolution.

**BeaconSuite** is the promise: the registered state sequence of
`BEACON_HELDOUT_PROTOCOL.md:144-157`, over what a power loss cannot take back.
`DurableState` is the refinement mapping, `ImplementsSuite` the refinement.

**BeaconRegression** adds replays: the same lock, a load of the terminal state,
a second evaluation, one record per replay. **BeaconAudit** adds the verifier's
conclusion and `Classification`, the class the auditor would publish in the
current state. Both only read, so they are operators evaluated in every state.

**WindowSelection** is the rejection sampling of
`map_candidate_from_digest_sequence`, the universe of digests a constant (2^512
in the code).

**V5Frozen** has clones (a worktree with a HEAD, sources and four artifacts),
commits (sources and tracked artifacts with their ancestors), local and public
tags, and runs of either phase from the bootstrap that imports the sources to
the exit status. The operator edits, commits, tags, pushes and clones at any
moment. **V5Evidence** is the verifier in a clone with its git metadata.

**BenchmarkApp** is the application and the worker: one action per handler of
the main actor, one per step of the worker that somebody can observe; group
registration, `.worker-process-group`, signals to the leader and to the group,
the handler queued on the main actor, the two seconds before SIGKILL.
**ProofSupervisor** adds the script: lock, marker, build, launch, one turn of a
watchdog, judgement, verification, replay, terminal log, the trap in its steps.

**PortfolioAttempt** is an orchestration of a tag: preflight with the rebuild of
the shared bundle, source confirmation, public answers, local tag trust, the
exclusive log, rename of the session, proof, inspection, the two captures with
the checks of the window's executable, composition, snapshot, receipt; the proof
it starts is a process of its own. **PortfolioRelease** is the operator's
procedure: collector (which recomputes what the session claims), builder (which
validates, copies, signs and verifies what it copied), draft, upload, saved
responses, publication and successor commit. A file's content is the
orchestration that made it, so a mixture of two is visible as such.

**LinuxRuntime** is the bootstrap and the build; **Replication** is a record on
either platform, its command, and what it takes for the command's run.

The eight **…Proofs** modules hold the inductive invariants, the theorems and
the lemmas they rest on (section 6); they add nothing to a specification. The
`MC` modules combine modules for a run (`MCBeaconReaders`) or add the symmetry
of its constants (`MCV5Evidence`).

Operators marked "Mutant" in a comment are faulty variants of the definition
below them; they are part of no specification. Each property was seen to fail
when its mutant takes that definition's place (`PROJECT.json`, "mutants").

## 3. Assumptions

Everywhere: `fsync` is durable (the code does not ask for `F_FULLFSYNC`);
processes may be killed and, where files matter, the machine may lose power at
any step; cryptography, formats and numbers are abstracted to whether the check
accepts.

**Beacon lane.**
- The clock does not go back, and time order beyond the target and the deadline
  does not matter. `Target = Deadline = 1` with `MaxTime = 2` gives a time
  before, inside and after the window.
- The checkout may change and change back between any two steps. A step that
  loads sources reads them at one instant; the code samples the digests at lines
  451, 480 and 503 and keeps no other record of what it loaded. An edit of
  `freeze.json` counts as "other", which the freeze check lets pass: an
  over-approximation.
- A directory fsync makes the entries of all four result files durable; the
  entry of `regressions/` in its parent is never synced. The directory fsync is
  skipped in silence if the directory cannot be opened: `DirectoryOpens` says
  whether that happens, and the runs and the marker's theorems take it as TRUE.
- The lock file is never synced. `shlock` is outside the repository: on a dead
  holder's lock it unlinks and links again, and two callers can both succeed.
  Pids are not reused. The release reads and unlinks
  in two calls (`run_beacon_one_shot.py:274`); they are one step here, because
  while its own pid is in the file its process is alive and shlock leaves it.
- Primary evidence is one unit, never synced. It carries the verdict it
  supports, and the verifier computes the verdict from it again.
- A HEAD that is clean but not the frozen commit is refused in
  `RequireCleanHead` instead of one call later; the digests and artifacts of
  `_assert_normative_state` are read in one step; exit status "1" is every
  failing status; preflights that read only the process's environment are calls
  that pass or raise.

**V5.** Nobody deletes an artifact or moves a tag, which `V5_PROTOCOL.md`
disclaims; a commit is not taken while an artifact is being written; git objects
are durable; a power loss ends all runs; a bootstrap that fails leaves nothing;
`Raise` stands for a kill too; the protocol tag is public from the start. The
byte-identical legacy artifacts and the artifact-only mode of the verifier are
left out.

**Application and proof script.** Pids are not reused while somebody holds them;
SIGTERM ends the application and the Python leader, another process of the
group may ignore it; the two watchdogs are one; a handler of the main actor is
atomic; evidence and result are written in one step, and so are withdrawal of
the registration and exit; SIGKILL strikes a script before its cleanup, not
within it, and a replay orphaned by it is not followed; the application of a
killed script stands for one a user has opened; every invocation has a fresh
challenge. Several runs of one application are explored when only one invocation
is launched.

**Portfolio.** Two commits; origin's main starts at the local head; builds are
numbered, so a rebuild never restores a digest; the append and fsync of an event
is one step, as are PROOF_TERMINAL with REPLAY_VERIFIED and the preflight's
launch and capture; the public answers are fetched in two reads (the refs, the
runs); the state root's own entry is durable; an interrupt, which appends no
ATTEMPT_FAILED, is a kill; the files of a session without a receipt are
forgotten, since every reader starts at the receipt. Five collected files and
the source archive, dependency list, reproduction document, identity and sums
stand for the fourteen assets; keys, signatures and related lab sources are left
out. `Replaced` bounds which files others replace: the video, whose digest the
provenance and the receipt name, and the poster, which a successor commit must
repeat. GitHub is modelled from how the verifiers use it: an immutable release
locks its files, text and tag. The PATCH that publishes repeats the exact body
and tag in the code; here a draft that others edited is published as it is, an
over-approximation. The operator verifies assets downloaded afresh, where the
model compares with the local directory, whose sums the same step has checked.
Deletion of a release, and another that becomes "latest", are not modelled. The
operator stops at a mismatch. The local directory is not edited after the
logged-out verification.

**Runtime and replication.** Two records of one user share machine, clone,
attestation and output path; two builds and two bootstraps on Linux; a killed
record's command goes on; the source a run uses is read at one instant; no power
loss (only the runtime's marker is synced, and the check of a runtime compares
distribution versions, so one torn by a power loss after its rename could be
accepted); whether an attestation is early, late or invalid is data; the rename
of a bundle or a runtime is refused when there is a directory with contents
(`PublishBundle` and `RenameStage` take the operating system's refusal as their
guard), and an empty one that appears at the destination is not modelled. The
macOS `dist/` directory lies outside the seal of the checkout, and the
application that is built there is not modelled.

## 4. Runs

| run | asks | instance | distinct states |
| --- | --- | --- | --- |
| `beacon_one_shot` | `TypeOK`, `SingleReveal`, `ArtifactsShareMarker`, `VerdictEarned`, `ExitIsDurable`, `RevealConsumes`, `PublishedVerdictEarned`, `Accepted`, `ArtifactsPermanent`, `ClassificationForward`, `ImplementsSuite`, `HeldUnlessOvertaken`, `RunsEnd` | 2 runs, no edits, 3 times, fairness | 122,706 |
| `beacon_regression` | `RegressionRepeatsVerdict`, `VerdictEarned`, `Accepted` | 1 run, 1 replay, 1 edited part at a time, 2 times | 1,125,470 |
| `window_selection` | `TypeOK`, `Unbiased`, `FirstAcceptable` | 8 digests, counts 1 to 8, streams of 3 | 8,892 |
| `v5_suite` | `TypeOK`, `SplitOnce`, `HoldoutAfterPass`, `EvidenceEarned`, `EvidenceAccepted`, `ExitIsDurable` | 2 runs, 2 clones, 2 versions, 3 commits, 1 edit; no deadlock check | 809,828 |
| `app_proof` | `TypeOK`, `TerminalEarned`, `NothingLeft`, `NoneForgotten`, `ReceiptFinal`, `ScriptsEnd` | 2 invocations, 2 runs; no deadlock check | 793,359 |
| `portfolio` | `OneProofPerTag`, `WindowOfProof`, `ReceiptEarned`, `AssetsOfOneAttempt`, `ReleasedFromOneAttempt`, `ReleaseStays` | 2 orchestrations, 2 changes, 2 replaceable files; no deadlock check | 1,030,030 |
| `replication` | `BundleOfOneFreshRun`, `RuntimePublishedWhole` | 2 records, 2 builds, 2 changes; no deadlock check | 606,047 |
| `beacon_sources` | `VerdictOnFrozenSources` is violated | 1 run, 1 edited part | |
| `beacon_exit_status` | `ExitOneMeansFailure` is violated | 1 run | |
| `beacon_completion_deadline` | `ConcludesBeforeDeadline` is violated | 1 run | |
| `v5_sources` | `HoldoutUsesSelectionSources` is violated | 2 runs, 1 clone | |
| `app_safety_stop` | `SafetyStopNeverPasses` is violated | 1 invocation, 1 run | |

What the properties say, in short. Beacon: one pulse, one marker, and a verdict
of the run that saw the pulse, on a durable resolution, with no edited source
that it had loaded still in place at its last check; once the process has
reported it, the verdict survives a power loss; the readers conclude nothing
else. The lock is held by whoever works, unless a reclaim overtakes a
live holder. V5: each split is resolved once behind a durable marker, the test
split only after a published passing selection, and the verifier neither accepts
what was not earned nor refuses what undisturbed runs leave. Application: a
terminal log is earned by the run of that very invocation, a receipt is written
once, what an invocation launched is gone after its cleanup (but for what no
published file names), the store never forgets a live worker, and every
invocation ends. Portfolio: one proof per tag, every recorded window is of the
proof's build, a receipt means a verified proof of the admitted source, a built
directory and a verified release are all of one attempt, and the release cannot
change from then on. Replication: a bundle is of the one fresh run of its
record, and the runtime path changes once, to a verified runtime.

**Why these bounds.** A race for a marker, lock, log or path is between two. In
the beacon lane two runs are inside the lock together when both reclaim what a
dead third left, so the lock may hold a dead pid from the start; they also die
holding it and reclaim it from each other. Kills, exceptions and power losses are not bounded there. What a run loads and what it digests is its own
affair, so edits are checked with one run and one replay: every part, edited and
taken back at every moment; the theorems hold for any number of runs and edited
parts together. One replay suffices because replays
share no file. Every count up to the universe is tried in the window selection.
V5 needs a second clone (the artifacts are per clone), a second version of the
sources and three commits: protocol, selection, pre-test freeze. The proof run
has two invocations with an application each, or one whose application starts a
second run while the handler of the first is queued. Two orchestrations suffice
because a third meets a consumed log like the second; two changes by others are
what the longest violation of a mutant takes (a switched policy, then an edited
release; a moved checkout, then a moved tag), and the app bundle is rebuilt
without a bound by the orchestrations themselves. The runs marked "no deadlock
check" model processes that are finitely many and stop.

**Fairness.** The runner's `FairSpec` asks weak fairness of `ProcStep(p)` only:
a call that the run has made returns or raises. urllib, shlock and the memory
probe have timeouts, git and the evaluation are finite, and an exception is
always possible. The proof script's asks it of the scripts and their watchdogs
together: their commands return, and a watchdog reaches its limit at last.
Nothing is asked of the application, of its worker, of the user or of being
spared a kill. The portfolio and the replication state no liveness: a person
runs each step.

**`Accepted` names its exceptions.** The readers accept what the runner wrote
unless: the marker or the conclusion was late (section 5), an edited source was
recorded, power was lost; a failure came between building the resolution and
finishing `resolution.json`, an edge that `docs/BEACON_LAUNCH_RUNBOOK.md:198`
names; or a failure came inside the write of the primary-evidence manifest. No
document names that last edge: the run writes a FAIL_EXECUTION that the auditor
then publishes as CONSUMED_INVALID_EVIDENCE.

## 5. Where documents and code differ

Shown by a run:

1. `beacon_sources`: digests and `git status` are sampled at lines 451, 480 and
   503 of the runner, while modules are imported at 48, 455 and 493 and the
   registration is loaded at `beacon_evaluation.py:339`. A source edited before
   a load and taken back before the next sample leaves a PASS of code that was
   never frozen. Line 379 is to stop the run with "normative implementation
   changed during execution", and `BEACON_HELDOUT_PROTOCOL.md:227` says that a
   complete PASS establishes that the frozen gates pass. What does hold is
   `VerdictEarned`: an edit that stays is found.
2. `beacon_exit_status`: when the durable write of the outcome itself raises
   after all bytes are written, the handler finds "an outcome" and stays silent,
   and the process exits with 1 saying FAIL_EXECUTION while `outcome.json` reads
   PASS. `BEACON_HELDOUT_PROTOCOL.md:191` says 1 means an execution or integrity
   failure.
3. `beacon_completion_deadline`: the deadline is checked, then `finishedAt` is
   read again. Line 168 says crossing the deadline produces a terminal failure.
   The run writes a scientific outcome that the verifier rejects.
4. `v5_sources`: nothing compares the sources of the selection with those of the
   holdout, only each with its own commit. `V5_PROTOCOL.md:177` lists that
   equality among the conditions.
5. `app_safety_stop`: the safety watchdog looks at `task.isRunning` and signals a
   worker that has just ended with status 0; the handler judges the status only,
   clears the forced failure and writes a success receipt.
   `BUILD_AND_VERIFY.md:270` says a safety stop never produces a PASS receipt.

Met while modelling, of the same kind, without a run of their own:

- The beacon runner checks its start window before slow preflights, and
  `startedAt` is read after them and compared with nothing, where line 166 of the
  protocol says it refuses to start after the deadline. The published class is
  right all the same (`PublishedVerdictEarned`).
- `run-proof.sh:229` and `run_beacon_one_shot.py:106` lock two different paths,
  so that the proof of the application and the beacon suite do not exclude each
  other. They share no files.
- A user who quits the application during a proof makes it exit with 0; the
  script then fails on the missing run rather than on the status.
- Group files are looked up by time, so a script also records the groups of an
  application that another one left behind (`proof_process_groups.sh:45`): it
  may stop them, and nothing relies on their being alive.
- `bootstrap-python.sh:345` tests the target and then moves: a second bootstrap
  nests its tree inside the first, every later build refuses the receipt, and
  the tree must be removed by hand.
- `_build_sbom` runs in the working tree and `_validate_sbom` checks only form
  and tag (`build_portfolio_release.py:2826-2863`): a checkout that moves between
  the source check and the signing yields a dependency list of another commit,
  which no later check sees. `AssetsOfOneAttempt` excepts it.
- The rename of a session and the entry of its receipt are never synced: after a
  power loss a consumed tag can be without its session although PASS was printed.
- A preflight of a doomed second orchestration rebuilds the bundle and can so
  make the first one's attempt fail; the tag stays consumed. Safe, but costly.
- An attempt that fails in `write_report` after the last byte leaves a session
  that can be collected beside a log that ends with ATTEMPT_FAILED.
- `_write_new_pair` (`verify_portfolio_github_release.py:1975`) removes the files
  it created on a failure, but not the one whose own write failed.
- `record` leaves its temporary directory behind if a step between the seal and
  the `try` raises.

None contradicts a safety property of section 4.

## 6. Theorems

All are proved by TLAPS for every value of the constants that the named
assumptions allow (`ProcAssumption`: runs and replays are disjoint and neither
NoProc nor Stale is one of them; `TimeAssumption`: times are natural numbers and
the switches Boolean; `FileAssumption`: no replay is named like a result file;
`UniverseAssumption`, `CountAssumption`: a positive universe, counts up to it;
and of V5, application, portfolio and replication that bounds are natural
numbers, `None` is none of the values it stands beside, a version of the sources is
frozen, patched or amended, and `Replaced` is a set
of files).
The number of runs, replays, clones, commits, scripts, orchestrations and
changes is whatever the constants say. `D` marks a theorem under
`DirectoryOpens`, without which the marker can vanish (section 3).

| module | theorem | property |
| --- | --- | --- |
| BeaconOneShotProofs | `TypeCorrect` | `[]TypeOK` |
| | `ArtifactsArePermanent` | `ArtifactsPermanent` |
| | `MarkerInvariant` D | `[]MarkerInv` |
| | `PulseRevealedOnce` D | `[]SingleReveal` |
| | `ArtifactsHaveMarker` D | `[]ArtifactsShareMarker` |
| | `LockIsHeld` | `HeldUnlessOvertaken` |
| BeaconVerdictProofs | `VerdictInvariant` D | `[]VerdictInv` |
| | `VerdictIsEarned` D | `[]VerdictEarned` |
| | `ExitStatusIsDurable` D | `[]ExitIsDurable` |
| | `SuiteIsImplemented` D | `ImplementsSuite` |
| BeaconReadersProofs | `RevealIsConsumed` D | `[]RevealConsumes` |
| | `PublishedIsEarned` D | `[]PublishedVerdictEarned` |
| | `ClassOnlyForward` D | `ClassificationForward` |
| | `WrittenIsAccepted` D | `[]Accepted` |
| | `RegressionInvariant` D | `[](TypeOK /\ MarkerInv /\ VerdictInv /\ ReplayInv)` |
| | `RegressionRepeats` D | `[]RegressionRepeatsVerdict` |
| WindowSelectionProofs | `SelectionIsUnbiased` | `[]Unbiased` |
| | `DrawInvariant` | `[]IInv` |
| | `SelectionIsFirst` | `[]FirstAcceptable` |
| | `IndexIsOfAWindow` | `[]TypeOK` |
| V5Proofs | `Invariant`, `TypeCorrect` | `[]IInv`, `[]TypeOK` |
| | `ResolvesOnce` | `[]SplitOnce` |
| | `ExitAfterResult` | `[]ExitIsDurable` |
| | `SelectionComesFirst` | `[]HoldoutAfterPass` |
| | `ConclusionsAreEarned` | `[]EvidenceEarned` |
| | `TrailInvariant` | `[]TrailInv` |
| | `UndisturbedIsAccepted` | `[]EvidenceAccepted` |
| ProofSupervisorProofs | `Invariant`, `TypeCorrect` | `[]IInv`, `[]TypeOK` |
| | `LeadersAreSupervised` | `[]NoneForgotten` |
| | `OutcomeIsEarned` | `[]TerminalEarned` |
| | `CleanupLeavesNothing` | `[]NothingLeft` |
| | `ReceiptIsFinal` | `ReceiptFinal` |
| PortfolioProofs | `Invariant` | `[]IInv` |
| | `OneProof` | `[]OneProofPerTag` |
| | `WindowIsOfProof` | `[]WindowOfProof` |
| | `ReceiptIsEarned` | `[]ReceiptEarned` |
| | `AssetsAreOfOneAttempt` | `[]AssetsOfOneAttempt` |
| | `ReleasedIsOfOneAttempt` | `[]ReleasedFromOneAttempt` |
| | `ReleaseIsFinal` | `ReleaseStays` |
| ReplicationProofs | `Invariant` | `[]IInv` |
| | `BundleIsOfOneRun` | `[]BundleOfOneFreshRun` |
| | `RuntimeIsWhole` | `RuntimePublishedWhole` |

Every inductive invariant was model-checked on the constants of its component's
run before it was proved. What each adds to the properties, and why it must:

**The marker** (`MarkerInv`). `SingleReveal` is not inductive: it says nothing of
a run that is about to fetch, nor of the file that stops a second one. `MarkerInv`
adds both. Every process that is past the write of its marker, has seen the
pulse or wrote another artifact is the run named in `attempt.json`, and that
file is whole, synced and entered in its directory; a process in the middle of
the write of the marker is its only writer. The exclusive open makes the first
writer the only one, and the two fsyncs come before the process may move on, so
no power loss makes room for a second. The lock is not used: the theorem holds
with any number of runs inside it. `ArtifactsArePermanent` needs `Unsynced`: what
a process is still writing, primary evidence included, was not synced before.
`LockIsHeld` needs the types only. While whoever works holds the lock file
(`Held`), nobody else works, so a step that breaks it must take the file from a
live process, and of all steps only a reclaim can.

**The verdict** (`VerdictInv`). `VerdictEarned` speaks of a file, the sources of a
verdict are what its run loaded at earlier states of the checkout. `VerdictInv`
follows the marked run from one to the other: as long as it lives, an edit that
it loaded and nobody took back (`Standing == tainted \ reverted`) is still in the
checkout, so a run whose digests were clean after its evaluation has none left
(`SourcesOf`), and an edit that comes later is loaded by no later step of that
run; the outcome in its
memory is the one on the disk from the first byte on (`OutcomeOf`), and status 0
or 2 is set only behind the directory's fsync (`ExitOf`).

**The refinement** (`SuiteIsImplemented`). `DurableState` maps a state to what a
power loss cannot take back of it. Initial states map to `PREREGISTERED`, a step either
leaves it or is one step of `BeaconSuite`: the fsync of the directory, or a power
loss that spares what was in the page cache, makes one more artifact durable, and
`MarkerInv` with `VerdictInv` say that they become durable in the suite's order.

**The readers** (`AcceptInv`). Soundness (`PublishedIsEarned`, `RevealIsConsumed`)
follows from the two invariants above. Completeness (`WrittenIsAccepted`) needs the
reverse direction: that a start is not before the target, that the resolution
and the primary evidence name the run and repeat the verdict, and that the
outcome of a failure names exactly what is on the disk, whether complete, partial
or absent. `ClassOnlyForward` rests on the fact that once an outcome is readable
nobody writes: its run has concluded and no other run got past the marker.

**The replays** (`ReplayInv`). The specification with replays has more steps, so the
invariants of the runs are proved again under it: the lemmas behind them ask of
the other processes only that what is whole and durable stays (`Lasting`), which a
replay, writing one file of its own, respects. `RegressionRepeatsVerdict` compares a
file with an outcome that was loaded long before, and an outcome written without
its fsync yet may vanish in between. `ReplayInv` therefore says what a replay has
loaded, is writing or has written: the verdict is that of the outcome if there
is one, and if a power loss took it, its run is over, so that nobody writes
another (`Claim`).

**The draw** (`DrawInv`). Every digest before the counter was rejected. `Unbiased`
needs no induction over the digests: those of a window are an arithmetic
progression, so there is a bijection from `0..(Universe \div count) - 1` onto each
share.

**V5** (`IInv`, `TrailInv`). `IInv` carries the argument of `MarkerInv` to the other
caller of `DurableFiles`, per clone and phase, and adds what a run holds: a run
that resolved its split left a permanent marker, results in any worktree or
commit are what a resolving run has in its memory, a holdout run was admitted
behind a published selection that passed. Commits never change and public tags
never move, which lets all of it survive the operator. `TrailInv` is for the
converse, that the verifier accepts what nobody disturbed: ancestry is transitive
over pushes and clones (`LineInv`), a record names the commit and the sources it
ran on (`OriginInv`, `FilesInv`), a result has its marker (`PairInv`), and a file
that was committed whole is as it was unless it is not whole any more
(`TrackedInv`).

**Application and scripts** (`IInv`). `NothingLeft` speaks of the end of a cleanup,
its reason lies in each step before: what an ended application left alive is
named by a published file (`NamedInv`), a published file is newer than the
script's markers (`SeenInv`), so the sweep records its group before it signals it
(`SweptInv`). `NoneForgotten` is part of the invariant of the store: a late handler
of an earlier run finds another process and returns. `TerminalInv` holds the
script's last judgement together after the watchdog is off.

**Portfolio** (`IInv`). A file's content is the attempt that made it. `AttemptInv`
follows one orchestration: it owns the durable log from its reservation on, its
window's build is between the proof's and the one at the path until they are
compared and equal afterwards, its session holds what its receipt will claim.
`SourcesInv` says that everything in the three directories is of that attempt or
was put there by others, and equal to the sums once built; `GitHubInv` that what
was read of an immutable release is what it is.

**Replication** (`IInv`). A run is by the record that started it and of the source
it read; nothing is run before the challenge exists; a checkout that nobody
touched since the seal is exact. What the bundle is verified for stays true:
runs are added, and of one that is there only the files may change, never who
made it, of which source, commit and challenge (`RunsKept`), while the bundle
holds its own verified copy.

Only model-checked: the liveness properties `RunsEnd` and `ScriptsEnd` (liveness
under fairness is out of this prover's reach).

## 7. Plan

The modules of the plan are written, and every safety property and action
property that the passing runs check is a theorem.

If the code changes, the first candidates for more detail are the primary
evidence file by file (so that the auditor's prefix check is modelled), the
codec's section layout as operators, and the installation in place of the macOS
runtime.

## 8. Not modelled

- Inference, quantisation and the gate arithmetic (floating point); the codec's
  container layout, which has no state.
- Hashing, certificates, signatures, canonical JSON, archive formats, media
  decoding and privacy scans: calls that accept or refuse.
- The Swift views and logs, the capture requests of the application, and
  `build-app.sh` installing the macOS runtime under the proof lock, as well as
  `package-app.sh` and `prepare-offline.sh`.
- Beacon freeze and asset preparation, the V5 development phase, paper and
  archive builders, supply-chain checks, the historical benchmark: sequential
  generators and readers whose state ends with the call.
- Metric PASS and FAIL of a replication, and the network guard and git topology
  of the auditor.
