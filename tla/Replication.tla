---------------------------- MODULE Replication -----------------------------
(***************************************************************************)
(* tools/independent_replication.py: an outsider records one regression    *)
(* run of the public portfolio tag as a bundle.                            *)
(*                                                                         *)
(* A record clones the tag, seals the clone, has its own command run the   *)
(* model from it, takes the run that command has left, verifies it and     *)
(* renames a verified bundle to the output path.  Two records of one user  *)
(* share the machine, the clone they were started from, the attestation    *)
(* file and the output path.  A record that is killed leaves its command   *)
(* running; other hands move the tag, the clone and the attestation, touch *)
(* an execution checkout or a finished run, and use the application.       *)
(*                                                                         *)
(* On Linux the command is run-regression.sh, which builds the runtime     *)
(* (module LinuxRuntime) and writes to a run directory chosen by the       *)
(* record; on macOS it is run-proof.sh (module ProofSupervisor), of which  *)
(* only its lock, its exit and the run it leaves matter here: the record   *)
(* finds the run by comparing the complete runs before and after.          *)
(***************************************************************************)
EXTENDS LinuxRuntime

CONSTANT MaxChanges   \* bound on what other hands change
ASSUME ChangesAssumption == MaxChanges \in Nat

Recorders == Builders
Commits == 1..2

VARIABLES platform, public, clone, attestation, rec, runs, output, changes

vars == <<runtimeVars, platform, public, clone, attestation, rec, runs, output, changes>>

NoRun == 0
NoBundle == [by |-> 0]
NoRecord == [pc |-> "idle", source |-> 0, attestation |-> "none", checkout |-> "none",
             touched |-> FALSE, before |-> {}, run |-> NoRun, bundle |-> NoBundle]

Init ==
    /\ RuntimeInit
    /\ platform \in {"linux", "macos"}
    /\ platform = "macos" => runtime = "absent"
    /\ public = 1
    /\ clone = [commit |-> 1, clean |-> TRUE]
    /\ attestation = "early"
    /\ rec = [r \in Recorders |-> NoRecord]
    /\ runs = <<>>
    /\ output = NoBundle
    /\ changes = 0

(***************************************************************************)
(* Before the run.                                                         *)
(***************************************************************************)
At(r, pc) == rec[r].pc = pc

\* The signed tag is the commit's, in the clone and on the canonical remote.
ReleaseTagStands(commit) == commit = public

\* Every tracked file has the bytes of HEAD, and there is no other file.
ExactCheckout(files) == files = "exact"

\* The clone is clean and exact, and its commit is that of the tag.
SourceIdentity(commit) ==
    clone = [commit |-> commit, clean |-> TRUE] /\ ReleaseTagStands(commit)

AttestationValid(content) == content # "invalid"

StartRecord(r) ==
    /\ At(r, "idle")
    /\ SourceIdentity(clone.commit)
    /\ output = NoBundle
    /\ rec' = [rec EXCEPT ![r].pc = "admitted", ![r].source = clone.commit]
    /\ UNCHANGED <<runtimeVars, platform, public, clone, attestation, runs, output, changes>>

\* From here on the record reads its own copy of the attestation.
SnapshotAttestation(r) ==
    /\ At(r, "admitted")
    /\ AttestationValid(attestation)
    /\ rec' = [rec EXCEPT ![r].pc = "snapshot", ![r].attestation = attestation]
    /\ UNCHANGED <<runtimeVars, platform, public, clone, attestation, runs, output, changes>>

\* The canonical tag is cloned again, and must still be the one admitted.
FreshExecutionCheckout(r) ==
    /\ At(r, "snapshot")
    /\ public = rec[r].source
    /\ rec' = [rec EXCEPT ![r].pc = "cloned", ![r].checkout = "exact"]
    /\ UNCHANGED <<runtimeVars, platform, public, clone, attestation, runs, output, changes>>

CompleteRuns == IF platform = "macos" THEN DOMAIN runs ELSE {}

\* Inodes and change times are taken, then the runs there are, the challenge and the start.
SealCheckout(r) ==
    /\ At(r, "cloned")
    /\ ExactCheckout(rec[r].checkout)
    /\ rec[r].attestation = "early"
    /\ rec' = [rec EXCEPT ![r].pc = "started", ![r].touched = FALSE,
                          ![r].before = CompleteRuns]
    /\ UNCHANGED <<runtimeVars, platform, public, clone, attestation, runs, output, changes>>

(***************************************************************************)
(* The command: run-regression.sh or run-proof.sh.  It refuses a checkout  *)
(* that is not clean, and reads it until the model has run.                *)
(***************************************************************************)
Capture(r) ==
    /\ At(r, "started")
    /\ rec' = [rec EXCEPT ![r].pc = "running"]
    /\ build' = [build EXCEPT ![r].pc = "command"]
    /\ UNCHANGED <<python, runtime, platform, public, clone, attestation, runs, output, changes>>

StartRegression(r) ==
    /\ platform = "linux" /\ rec[r].checkout = "exact"
    /\ Step(r, "command", "resolve")
    /\ UNCHANGED <<python, runtime, platform, public, clone, attestation, rec, runs, output, changes>>

\* run-proof.sh holds a lock, and the build records whether the checkout was dirty.
StartProof(r) ==
    /\ platform = "macos" /\ rec[r].checkout = "exact"
    /\ \A other \in Recorders : build[other].pc # "ready"
    /\ Step(r, "command", "ready")
    /\ UNCHANGED <<python, runtime, platform, public, clone, attestation, rec, runs, output, changes>>

RunOf(r, nonce) == [by |-> r, nonce |-> nonce, commit |-> rec[r].source,
                    source |-> rec[r].checkout, content |-> "own"]

\* The model runs, and the run is verified and completed before the command ends with 0.
LeaveRun(r) ==
    /\ runs' = Append(runs, RunOf(r, IF platform = "macos" THEN r ELSE 0))
    /\ Step(r, "ready", "done")
    /\ UNCHANGED <<python, runtime, platform, public, clone, attestation, rec, output, changes>>

CommandFails(r) ==
    /\ build[r].pc \in {"command", "ready"}
    /\ build' = [build EXCEPT ![r].pc = "failed"]
    /\ UNCHANGED <<python, runtime, platform, public, clone, attestation, rec, runs, output, changes>>

(***************************************************************************)
(* After the run.                                                          *)
(***************************************************************************)
\* Mutant: the bytes are compared, and what was changed and restored is not seen.
SealIntactBytes(r) == ExactCheckout(rec[r].checkout)

\* Nothing was touched since the seal, and the tree is byte for byte the commit's.
SealIntact(r) == ~rec[r].touched /\ ExactCheckout(rec[r].checkout)

\* The one run that was not there before; on Linux the run of the chosen directory.
FreshRuns(r) ==
    IF platform = "macos" THEN CompleteRuns \ rec[r].before
                          ELSE {i \in DOMAIN runs : runs[i].by = r}

TakeRun(r) ==
    /\ At(r, "running")
    /\ build[r].pc = "done"
    /\ SealIntact(r)
    /\ Cardinality(FreshRuns(r)) = 1
    /\ rec' = [rec EXCEPT ![r].pc = "ran", ![r].run = CHOOSE i \in FreshRuns(r) : TRUE]
    /\ UNCHANGED <<runtimeVars, platform, public, clone, attestation, runs, output, changes>>

\* verify_local_app_run.py with the challenge, or verify_primary_evidence.py.
RunVerifies(i, nonce) == runs[i].content = "own" /\ runs[i].nonce = nonce

Nonce(r) == IF platform = "macos" THEN r ELSE 0

\* The verifier itself is of the execution checkout, so the seal is looked at again.
VerifyRun(r) ==
    /\ At(r, "ran")
    /\ RunVerifies(rec[r].run, Nonce(r))
    /\ SealIntact(r)
    /\ rec' = [rec EXCEPT ![r].pc = "verified"]
    /\ UNCHANGED <<runtimeVars, platform, public, clone, attestation, runs, output, changes>>

\* The receipt, or the pre-run contract, names the challenge and the source.
RunContract(r) ==
    /\ runs[rec[r].run].nonce = Nonce(r)
    /\ runs[rec[r].run].commit = rec[r].source

\* The evidence is copied from the run directory as it is now, and listed as copied.
CopiedEvidence(i) == runs[i].content

AssembleBundle(r) ==
    /\ At(r, "verified")
    /\ RunContract(r)
    /\ rec' = [rec EXCEPT ![r].pc = "assembled", ![r].bundle =
                  [by |-> r, commit |-> rec[r].source, nonce |-> Nonce(r), run |-> rec[r].run,
                   content |-> CopiedEvidence(rec[r].run), listed |-> CopiedEvidence(rec[r].run),
                   attestation |-> rec[r].attestation]]
    /\ UNCHANGED <<runtimeVars, platform, public, clone, attestation, runs, output, changes>>

(***************************************************************************)
(* verify_bundle, in the user's clone.                                     *)
(***************************************************************************)
\* The clone is clean, exact and at the commit of the bundle.
CheckoutMatchesSource(b) == clone = [commit |-> b.commit, clean |-> TRUE]

\* Only a macOS execution names a challenge.
ExecutionDocument(b) == (b.nonce = 0) <=> (platform = "linux")

\* The human commitment does not postdate the start.
CommittedBefore(b) == b.attestation = "early"

\* The macOS receipt binds the result, the build's source and the challenge.
MacReceipt(b) ==
    platform = "macos" => runs[b.run].commit = b.commit /\ runs[b.run].nonce = b.nonce

\* The Linux manifest and the pre-run contract name the source.
LinuxReceipt(b) == platform = "linux" => runs[b.run].commit = b.commit

\* SHA256SUMS and the run-file manifest list exactly the files of the bundle.
FilesExact(b) == b.listed = b.content

\* The product verifier accepts the copied evidence again.
EvidenceReverifies(b) == b.content = "own"

VerifyBundle(b) ==
    /\ CheckoutMatchesSource(b) /\ ExecutionDocument(b) /\ CommittedBefore(b)
    /\ FilesExact(b) /\ MacReceipt(b) /\ LinuxReceipt(b) /\ EvidenceReverifies(b)
    /\ ReleaseTagStands(b.commit)

VerifyStagedBundle(r) ==
    /\ At(r, "assembled")
    /\ VerifyBundle(rec[r].bundle)
    /\ rec' = [rec EXCEPT ![r].pc = "staged"]
    /\ UNCHANGED <<runtimeVars, platform, public, clone, attestation, runs, output, changes>>

\* rename fails on the filled directory of another record.
PublishBundle(r) ==
    /\ At(r, "staged")
    /\ output = NoBundle
    /\ output' = rec[r].bundle
    /\ rec' = [rec EXCEPT ![r] = [NoRecord EXCEPT !.pc = "over", !.source = rec[r].source]]
    /\ UNCHANGED <<runtimeVars, platform, public, clone, attestation, runs, changes>>

\* Any exception removes the temporary directory, and ends a command that is captured.
RecordFails(r) ==
    /\ rec[r].pc \notin {"idle", "over"}
    /\ rec' = [rec EXCEPT ![r] = [NoRecord EXCEPT !.pc = "over"]]
    /\ build' = IF build[r].pc \in Building \cup {"command", "ready"}
                THEN [build EXCEPT ![r] = [pc |-> "failed", staged |-> "nothing"]] ELSE build
    /\ UNCHANGED <<python, runtime, platform, public, clone, attestation, runs, output, changes>>

\* A killed record leaves its command, which has a session of its own, and its checkout.
RecordKilled(r) ==
    /\ At(r, "running")
    /\ rec' = [rec EXCEPT ![r].pc = "over", ![r].before = {}]
    /\ UNCHANGED <<runtimeVars, platform, public, clone, attestation, runs, output, changes>>

(***************************************************************************)
(* Other hands.                                                            *)
(***************************************************************************)
Change == changes < MaxChanges /\ changes' = changes + 1

Retag ==
    /\ Change /\ public' = 3 - public
    /\ UNCHANGED <<runtimeVars, platform, clone, attestation, rec, runs, output>>

CloneChanges(commit, clean) ==
    /\ Change /\ clone' = [commit |-> commit, clean |-> clean] /\ clone' # clone
    /\ UNCHANGED <<runtimeVars, platform, public, attestation, rec, runs, output>>

AttestationChanges(content) ==
    /\ Change /\ attestation' = content /\ content # attestation
    /\ UNCHANGED <<runtimeVars, platform, public, clone, rec, runs, output>>

\* A file of the execution checkout is written: changed, or restored.
TouchCheckout(r, content) ==
    /\ Change
    /\ rec[r].checkout \notin {"none", content}
    /\ rec' = [rec EXCEPT ![r].checkout = content, ![r].touched = TRUE]
    /\ UNCHANGED <<runtimeVars, platform, public, clone, attestation, runs, output>>

RunChanges(i) ==
    /\ Change /\ runs[i].content = "own"
    /\ runs' = [runs EXCEPT ![i].content = "changed"]
    /\ UNCHANGED <<runtimeVars, platform, public, clone, attestation, rec, output>>

\* Somebody runs an application of the same source by hand; its nonce is another.
UserRun ==
    /\ Change /\ platform = "macos"
    /\ runs' = Append(runs, [by |-> 0, nonce |-> 0, commit |-> public,
                             source |-> "exact", content |-> "own"])
    /\ UNCHANGED <<runtimeVars, platform, public, clone, attestation, rec, output>>

-----------------------------------------------------------------------------
Record(r) ==
    \/ StartRecord(r) \/ SnapshotAttestation(r) \/ FreshExecutionCheckout(r)
    \/ SealCheckout(r) \/ Capture(r) \/ TakeRun(r) \/ VerifyRun(r) \/ AssembleBundle(r)
    \/ VerifyStagedBundle(r) \/ PublishBundle(r) \/ RecordFails(r) \/ RecordKilled(r)

Command(r) == StartRegression(r) \/ StartProof(r) \/ LeaveRun(r) \/ CommandFails(r)

Runtime ==
    /\ platform = "linux"
    /\ Bootstrap \/ \E b \in Builders : BuildStep(b)
    /\ UNCHANGED <<platform, public, clone, attestation, rec, runs, output, changes>>

OtherHands ==
    \/ Retag
    \/ \E commit \in Commits, clean \in BOOLEAN : CloneChanges(commit, clean)
    \/ \E content \in {"early", "late", "invalid"} : AttestationChanges(content)
    \/ \E r \in Recorders, content \in {"exact", "modified"} : TouchCheckout(r, content)
    \/ \E i \in DOMAIN runs : RunChanges(i)
    \/ UserRun

Next == (\E r \in Recorders : Record(r) \/ Command(r)) \/ Runtime \/ OtherHands

Spec == Init /\ [][Next]_vars
-----------------------------------------------------------------------------
(***************************************************************************)
(* Properties.                                                             *)
(***************************************************************************)
\* A published bundle is of the run its own command has made after the seal, from the
\* unmodified source of the tag, committed to before, and holds that run's evidence as the
\* command left it: whatever orphaned commands, other records and users leave beside it
\* (record, between _worktree_seal and the rename of the bundle).
BundleOfOneFreshRun ==
    output # NoBundle =>
        LET run == runs[output.run] IN
            /\ run.by = output.by
            /\ run.commit = output.commit /\ run.source = "exact"
            /\ output.content = "own"
            /\ output.attestation = "early"

\* The runtime path changes once, from nothing to a runtime that has passed every check,
\* over concurrent, failing and killed builds (publish_runtime; platforms/linux/README.md:
\* "published with one rename only after ... pass verification").
RuntimePublishedWhole ==
    [][(runtime' # runtime) => (runtime = "absent" /\ runtime' = "whole")]_vars
=============================================================================
