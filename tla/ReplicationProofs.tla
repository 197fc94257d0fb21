------------------------- MODULE ReplicationProofs --------------------------
(***************************************************************************)
(* Theorems about the independent replication, for any number of changes   *)
(* by other hands.                                                         *)
(***************************************************************************)
EXTENDS Replication, FiniteSetTheorems, TLAPS

(***************************************************************************)
(* The values that the variables take.                                     *)
(***************************************************************************)
Contents == {"own", "changed"}
Checkouts == {"none", "exact", "modified"}
Attestations == {"none", "early", "late", "invalid"}
RecordStages ==
    {"idle", "admitted", "snapshot", "cloned", "started", "running", "ran", "verified",
     "assembled", "staged", "over"}
BuildStages == {"none", "command", "ready", "done", "failed"} \cup Building
RunRecords ==
    [by: {0} \cup Recorders, nonce: {0} \cup Recorders, commit: Nat, source: Checkouts,
     content: Contents]
Bundles ==
    [by: Recorders, commit: Nat, nonce: {0} \cup Recorders, run: Nat, content: Contents,
     listed: Contents, attestation: Attestations]
RecordEntries ==
    [pc: RecordStages, source: Nat, attestation: Attestations, checkout: Checkouts,
     touched: BOOLEAN, before: SUBSET Nat, run: Nat, bundle: {NoBundle} \cup Bundles]

TypeInv ==
    /\ platform \in {"linux", "macos"}
    /\ public \in Commits
    /\ clone \in [commit: Commits, clean: BOOLEAN]
    /\ attestation \in Attestations
    /\ rec \in [Recorders -> RecordEntries]
    /\ runs \in Seq(RunRecords)
    /\ build \in [Builders -> [pc: BuildStages, staged: {"nothing", "whole", "broken"}]]
    /\ runtime \in {"absent", "foreign", "whole", "broken"}
    /\ output \in {NoBundle} \cup Bundles

(***************************************************************************)
(* The inductive invariant.                                                *)
(***************************************************************************)
BeforeRun == {"idle", "admitted", "snapshot", "cloned", "started"}
Taken == {"ran", "verified", "assembled", "staged"}

\* The command has not been started and has left nothing, before the checkout is sealed
\* and afterwards until it is captured.
NothingRun(r) ==
    rec[r].pc \in BeforeRun =>
        /\ build[r].pc = "none"
        /\ \A i \in DOMAIN runs : runs[i].by # r

\* What nobody has touched since the seal is what was sealed, and so was what the
\* command has read.
SealedSource(r) ==
    rec[r].pc \in {"started", "running"} \cup Taken /\ ~rec[r].touched =>
        /\ rec[r].checkout = "exact"
        /\ \A i \in DOMAIN runs : runs[i].by = r => runs[i].source = "exact"

\* The run that was taken, and what is known of it from step to step.
RunTaken(r) ==
    /\ rec[r].pc \in Taken =>
           /\ rec[r].run \in DOMAIN runs
           /\ platform = "linux" => runs[rec[r].run].by = r
    /\ rec[r].pc \in Taken \ {"ran"} =>
           runs[rec[r].run].by = r /\ runs[rec[r].run].source = "exact"

\* The bundle is of that run, and what was verified of it stays true of it.
BundleOf(b) ==
    /\ b \in Bundles
    /\ b.run \in DOMAIN runs
    /\ runs[b.run].by = b.by /\ runs[b.run].source = "exact"
Verified(b) ==
    BundleOf(b) /\ runs[b.run].commit = b.commit /\ b.content = "own" /\ b.attestation = "early"
BundleAssembled(r) ==
    /\ rec[r].pc \in {"assembled", "staged"} => BundleOf(rec[r].bundle)
    /\ rec[r].pc = "staged" => Verified(rec[r].bundle)

RecordInv(r) == NothingRun(r) /\ SealedSource(r) /\ RunTaken(r) /\ BundleAssembled(r)

\* A challenge is only in a run of the command it was given to.
ChallengeInv ==
    \A i \in DOMAIN runs : runs[i].nonce # 0 => runs[i].nonce = runs[i].by

\* What is about to be renamed to the runtime path has passed every check.
RuntimeInv == \A b \in Builders : build[b].pc \in {"verified", "absent"} => build[b].staged = "whole"

OutputInv == output # NoBundle => Verified(output)

IInv ==
    /\ TypeInv
    /\ \A r \in Recorders : RecordInv(r)
    /\ ChallengeInv /\ RuntimeInv /\ OutputInv

-----------------------------------------------------------------------------
(***************************************************************************)
(* The types.                                                              *)
(***************************************************************************)
\* The initial values.
LEMMA InitTyped == Init => TypeInv
  BY DEF Init, RuntimeInit, TypeInv, Commits, Attestations, NoRecord, NoRun, NoBundle, RecordEntries,
         RecordStages, Checkouts, BuildStages

\* The runs: what is added is the last, and only the content of one that is there changes.
LEMMA LastRun ==
    ASSUME TypeInv, NEW n \in RunRecords
    PROVE  /\ DOMAIN runs = 1..Len(runs) /\ Len(runs) \in Nat
           /\ DOMAIN Append(runs, n) = 1..(Len(runs) + 1)
           /\ \A i \in DOMAIN runs : Append(runs, n)[i] = runs[i]
           /\ Append(runs, n)[Len(runs) + 1] = n
           /\ Append(runs, n) \in Seq(RunRecords)
  BY DEF TypeInv

\* The run a command leaves is one.
LEMMA RunTyped ==
    ASSUME TypeInv, NEW r \in Recorders, NEW nonce \in {0} \cup Recorders
    PROVE  RunOf(r, nonce) \in RunRecords
  BY DEF TypeInv, RecordEntries, RunOf, RunRecords, Contents

\* A step that assembles a bundle of the run it has taken.
LEMMA BundleTyped ==
    ASSUME TypeInv, NEW r \in Recorders, RecordInv(r), AssembleBundle(r)
    PROVE  /\ rec'[r].bundle \in Bundles
           /\ rec'[r].bundle.by = r /\ rec'[r].bundle.run = rec[r].run
<1> DEFINE b == [by |-> r, commit |-> rec[r].source, nonce |-> Nonce(r), run |-> rec[r].run,
                 content |-> CopiedEvidence(rec[r].run), listed |-> CopiedEvidence(rec[r].run),
                 attestation |-> rec[r].attestation]
<1>1. rec[r] \in RecordEntries
  BY DEF TypeInv
<1>2. rec[r].run \in DOMAIN runs
  BY DEF AssembleBundle, At, RecordInv, RunTaken, Taken
<1>3. CopiedEvidence(rec[r].run) \in Contents
  <2>1. runs[rec[r].run] \in RunRecords
    BY <1>2 DEF TypeInv
  <2> QED
    BY <2>1 DEF CopiedEvidence, RunRecords
<1>4. Nonce(r) \in {0} \cup Recorders
  BY DEF Nonce
<1>5. b \in Bundles
  BY <1>1, <1>3, <1>4 DEF Bundles, RecordEntries
<1>6. rec' = [rec EXCEPT ![r].pc = "assembled", ![r].bundle = b]
  BY DEF AssembleBundle
<1>7. rec'[r].bundle = b
  BY <1>6 DEF TypeInv, RecordEntries
<1> QED
  BY <1>5, <1>7

\* The steps of a record.
LEMMA RecordTyped ==
    ASSUME TypeInv, NEW r \in Recorders, RecordInv(r), Record(r)
    PROVE  TypeInv'
<1>1. \A e \in RecordEntries : [rec EXCEPT ![r] = e] \in [Recorders -> RecordEntries]
  BY DEF TypeInv
<1>2. rec[r] \in RecordEntries
  BY DEF TypeInv
<1>3. ASSUME NEW e \in RecordEntries, rec' = [rec EXCEPT ![r] = e],
             UNCHANGED <<platform, public, clone, attestation, runs, build, runtime, output>>
      PROVE  TypeInv'
  BY <1>1, <1>3 DEF TypeInv
<1>4. CASE StartRecord(r)
  <2>1. [rec[r] EXCEPT !.pc = "admitted", !.source = clone.commit] \in RecordEntries
    <3>1. clone.commit \in Nat
      BY DEF TypeInv, Commits
    <3> QED
      BY <1>2, <3>1 DEF RecordEntries, RecordStages
  <2>2. rec' = [rec EXCEPT ![r] = [rec[r] EXCEPT !.pc = "admitted", !.source = clone.commit]]
    BY <1>4 DEF StartRecord, TypeInv
  <2> QED
    BY <1>3, <1>4, <2>1, <2>2 DEF StartRecord, runtimeVars
<1>5. CASE SnapshotAttestation(r)
  <2>1. [rec[r] EXCEPT !.pc = "snapshot", !.attestation = attestation] \in RecordEntries
    BY <1>2 DEF RecordEntries, RecordStages, TypeInv
  <2>2. rec' = [rec EXCEPT ![r] = [rec[r] EXCEPT !.pc = "snapshot", !.attestation = attestation]]
    BY <1>5 DEF SnapshotAttestation, TypeInv
  <2> QED
    BY <1>3, <1>5, <2>1, <2>2 DEF SnapshotAttestation, runtimeVars
<1>6. CASE FreshExecutionCheckout(r)
  <2>1. [rec[r] EXCEPT !.pc = "cloned", !.checkout = "exact"] \in RecordEntries
    BY <1>2 DEF RecordEntries, RecordStages, Checkouts
  <2>2. rec' = [rec EXCEPT ![r] = [rec[r] EXCEPT !.pc = "cloned", !.checkout = "exact"]]
    BY <1>6 DEF FreshExecutionCheckout, TypeInv
  <2> QED
    BY <1>3, <1>6, <2>1, <2>2 DEF FreshExecutionCheckout, runtimeVars
<1>7. CASE SealCheckout(r)
  <2>1. CompleteRuns \subseteq Nat
    BY DEF CompleteRuns, TypeInv
  <2>2. [rec[r] EXCEPT !.pc = "started", !.touched = FALSE, !.before = CompleteRuns] \in RecordEntries
    BY <1>2, <2>1 DEF RecordEntries, RecordStages
  <2>3. rec' = [rec EXCEPT ![r] =
                    [rec[r] EXCEPT !.pc = "started", !.touched = FALSE, !.before = CompleteRuns]]
    BY <1>7 DEF SealCheckout, TypeInv
  <2> QED
    BY <1>3, <1>7, <2>2, <2>3 DEF SealCheckout, runtimeVars
<1>8. CASE Capture(r)
  <2>1. [rec[r] EXCEPT !.pc = "running"] \in RecordEntries
    BY <1>2 DEF RecordEntries, RecordStages
  <2>2. rec' \in [Recorders -> RecordEntries]
    BY <1>8, <2>1 DEF Capture, TypeInv
  <2>3. build' \in [Builders -> [pc: BuildStages, staged: {"nothing", "whole", "broken"}]]
    BY <1>8 DEF Capture, TypeInv, BuildStages
  <2> QED
    BY <1>8, <2>2, <2>3 DEF Capture, TypeInv
<1>9. CASE TakeRun(r)
  <2>1. FreshRuns(r) \subseteq DOMAIN runs /\ DOMAIN runs \subseteq Nat
    BY DEF FreshRuns, CompleteRuns, TypeInv
  <2>2. FreshRuns(r) # {}
    BY <1>9, FS_EmptySet DEF TakeRun
  <2>3. (CHOOSE i \in FreshRuns(r) : TRUE) \in Nat
    BY <2>1, <2>2
  <2>4. PICK j : j = (CHOOSE i \in FreshRuns(r) : TRUE)
                 /\ rec' = [rec EXCEPT ![r].pc = "ran", ![r].run = j]
    BY <1>9 DEF TakeRun
  <2>5. j \in Nat
    BY <2>3, <2>4
  <2>6. [rec[r] EXCEPT !.pc = "ran", !.run = j] \in RecordEntries
    BY <1>2, <2>5 DEF RecordEntries, RecordStages
  <2>7. rec' = [rec EXCEPT ![r] = [rec[r] EXCEPT !.pc = "ran", !.run = j]]
    <3>1. rec \in [Recorders -> RecordEntries]
      BY DEF TypeInv
    <3>2. rec' = [rec EXCEPT ![r].pc = "ran", ![r].run = j]
      BY <2>4
    <3> QED
      BY <3>1, <3>2
  <2> QED
    BY <1>3, <1>9, <2>6, <2>7 DEF TakeRun, runtimeVars
<1>10. CASE VerifyRun(r)
  <2>1. [rec[r] EXCEPT !.pc = "verified"] \in RecordEntries
    BY <1>2 DEF RecordEntries, RecordStages
  <2> QED
    BY <1>3, <1>10, <2>1 DEF VerifyRun, runtimeVars
<1>11. CASE VerifyStagedBundle(r)
  <2>1. [rec[r] EXCEPT !.pc = "staged"] \in RecordEntries
    BY <1>2 DEF RecordEntries, RecordStages
  <2> QED
    BY <1>3, <1>11, <2>1 DEF VerifyStagedBundle, runtimeVars
<1>12. CASE AssembleBundle(r)
  <2>1. rec'[r].bundle \in Bundles
    BY <1>12, BundleTyped
  <2>2. PICK b : rec' = [rec EXCEPT ![r].pc = "assembled", ![r].bundle = b]
    BY <1>12 DEF AssembleBundle
  <2>3. b \in Bundles
    BY <2>1, <2>2 DEF TypeInv, RecordEntries
  <2>4. [rec[r] EXCEPT !.pc = "assembled", !.bundle = b] \in RecordEntries
    BY <1>2, <2>3 DEF RecordEntries, RecordStages
  <2>5. rec' = [rec EXCEPT ![r] = [rec[r] EXCEPT !.pc = "assembled", !.bundle = b]]
    BY <2>2 DEF TypeInv
  <2> QED
    BY <1>3, <1>12, <2>4, <2>5 DEF AssembleBundle, runtimeVars
<1>13. \A s \in Nat : [NoRecord EXCEPT !.pc = "over", !.source = s] \in RecordEntries
  BY DEF NoRecord, NoRun, RecordEntries, RecordStages, Checkouts, Attestations
<1>14. CASE PublishBundle(r)
  <2>1. rec' \in [Recorders -> RecordEntries]
    BY <1>1, <1>2, <1>13, <1>14 DEF PublishBundle, RecordEntries
  <2>2. output' \in {NoBundle} \cup Bundles
    BY <1>2, <1>14 DEF PublishBundle, RecordEntries
  <2> QED
    BY <1>14, <2>1, <2>2 DEF PublishBundle, runtimeVars, TypeInv
<1>15. CASE RecordFails(r)
  <2>1. [NoRecord EXCEPT !.pc = "over"] \in RecordEntries
    BY DEF NoRecord, NoRun, RecordEntries, RecordStages, Checkouts, Attestations
  <2>2. rec' \in [Recorders -> RecordEntries]
    BY <1>1, <1>15, <2>1 DEF RecordFails
  <2>3. build' \in [Builders -> [pc: BuildStages, staged: {"nothing", "whole", "broken"}]]
    BY <1>15 DEF RecordFails, TypeInv, BuildStages
  <2> QED
    BY <1>15, <2>2, <2>3 DEF RecordFails, TypeInv
<1>16. CASE RecordKilled(r)
  <2>1. [rec[r] EXCEPT !.pc = "over", !.before = {}] \in RecordEntries
    BY <1>2 DEF RecordEntries, RecordStages
  <2>2. rec' = [rec EXCEPT ![r] = [rec[r] EXCEPT !.pc = "over", !.before = {}]]
    BY <1>16 DEF RecordKilled, TypeInv
  <2> QED
    BY <1>3, <1>16, <2>1, <2>2 DEF RecordKilled, runtimeVars
<1> QED
  BY <1>4, <1>5, <1>6, <1>7, <1>8, <1>9, <1>10, <1>11, <1>12, <1>14, <1>15, <1>16 DEF Record

\* The command of a record, and the runtime build under it.
LEMMA CommandTyped ==
    ASSUME TypeInv, NEW r \in Recorders, Command(r)
    PROVE  TypeInv'
<1>1. \A s \in BuildStages : [build EXCEPT ![r].pc = s]
          \in [Builders -> [pc: BuildStages, staged: {"nothing", "whole", "broken"}]]
  BY DEF TypeInv, Recorders
<1>2. {"resolve", "ready", "done", "failed"} \subseteq BuildStages
  BY DEF BuildStages, Building
<1>3. CASE StartRegression(r)
  BY <1>1, <1>2, <1>3 DEF StartRegression, Step, TypeInv
<1>4. CASE StartProof(r)
  BY <1>1, <1>2, <1>4 DEF StartProof, Step, TypeInv
<1>5. CASE CommandFails(r)
  BY <1>1, <1>2, <1>5 DEF CommandFails, TypeInv
<1>6. CASE LeaveRun(r)
  <2>1. RunOf(r, IF platform = "macos" THEN r ELSE 0) \in RunRecords
    BY RunTyped
  <2>2. runs' \in Seq(RunRecords)
    BY <1>6, <2>1, LastRun DEF LeaveRun
  <2> QED
    BY <1>1, <1>2, <1>6, <2>2 DEF LeaveRun, Step, TypeInv
<1> QED
  BY <1>3, <1>4, <1>5, <1>6 DEF Command

\* The builds of the runtime.
LEMMA RuntimeTyped ==
    ASSUME TypeInv, RuntimeInv, Runtime
    PROVE  TypeInv'
<1> DEFINE B == [pc: BuildStages, staged: {"nothing", "whole", "broken"}]
<1>1. ASSUME NEW b \in Builders, NEW e \in B, build' = [build EXCEPT ![b] = e],
             runtime' \in {"absent", "foreign", "whole", "broken"}
      PROVE  TypeInv'
  BY <1>1 DEF TypeInv, Runtime
<1>2. ASSUME NEW b \in Builders, NEW s \in BuildStages, build' = [build EXCEPT ![b].pc = s],
             UNCHANGED runtime
      PROVE  TypeInv'
  BY <1>2 DEF TypeInv, Runtime
<1>3. Building \cup {"ready", "failed"} \subseteq BuildStages
  BY DEF BuildStages
<1>4. CASE Bootstrap
  BY <1>4 DEF Bootstrap, BootstrapFindsNone, BootstrapMove, TypeInv, Runtime
<1>5. ASSUME NEW b \in Builders, BuildStep(b)
      PROVE  TypeInv'
  <2>1. runtime \in {"absent", "foreign", "whole", "broken"}
    BY DEF TypeInv
  <2>2. CASE ResolvePython(b)
    BY <1>2, <1>3, <2>2 DEF ResolvePython, Step, Building
  <2>3. CASE InstallStage(b)
    <3>1. PICK content \in {"whole", "broken"} :
              build' = [build EXCEPT ![b] = [pc |-> "staged", staged |-> content]]
      BY <2>3 DEF InstallStage
    <3>2. [pc |-> "staged", staged |-> content] \in B
      BY <1>3 DEF Building
    <3> QED
      BY <1>1, <2>1, <2>3, <3>1, <3>2 DEF InstallStage
  <2>4. CASE InitializeMarker(b)
    BY <1>2, <1>3, <2>4 DEF InitializeMarker, Step, Building
  <2>5. CASE VerifyStage(b)
    BY <1>2, <1>3, <2>5 DEF VerifyStage, Step, Building
  <2>6. CASE FindDestinationAbsent(b)
    BY <1>2, <1>3, <2>6 DEF FindDestinationAbsent, Step, Building
  <2>7. CASE RenameStage(b)
    <3>1. [pc |-> "published", staged |-> "nothing"] \in B
      BY <1>3 DEF Building
    <3>2. runtime' \in {"absent", "foreign", "whole", "broken"}
      BY <2>7 DEF RenameStage, RuntimeInv
    <3> QED
      BY <1>1, <2>7, <3>1, <3>2 DEF RenameStage
  <2>8. CASE UseRuntime(b)
    BY <1>2, <1>3, <2>8 DEF UseRuntime
  <2>9. CASE BuildFails(b)
    <3>1. [pc |-> "failed", staged |-> "nothing"] \in B
      BY <1>3
    <3> QED
      BY <1>1, <2>1, <2>9, <3>1 DEF BuildFails
  <2> QED
    BY <1>5, <2>2, <2>3, <2>4, <2>5, <2>6, <2>7, <2>8, <2>9 DEF BuildStep
<1> QED
  BY <1>4, <1>5 DEF Runtime

\* Other hands.
LEMMA OthersTyped ==
    ASSUME TypeInv, OtherHands
    PROVE  TypeInv'
<1>1. CASE Retag
  BY <1>1 DEF Retag, runtimeVars, TypeInv, Commits
<1>2. CASE \E commit \in Commits, clean \in BOOLEAN : CloneChanges(commit, clean)
  BY <1>2 DEF CloneChanges, runtimeVars, TypeInv
<1>3. CASE \E content \in {"early", "late", "invalid"} : AttestationChanges(content)
  BY <1>3 DEF AttestationChanges, runtimeVars, TypeInv, Attestations
<1>4. CASE \E r \in Recorders, content \in {"exact", "modified"} : TouchCheckout(r, content)
  <2>1. PICK r \in Recorders, content \in {"exact", "modified"} : TouchCheckout(r, content)
    BY <1>4
  <2>2. [rec[r] EXCEPT !.checkout = content, !.touched = TRUE] \in RecordEntries
    BY DEF TypeInv, RecordEntries, Checkouts
  <2>3. rec' = [rec EXCEPT ![r] = [rec[r] EXCEPT !.checkout = content, !.touched = TRUE]]
    BY <2>1 DEF TouchCheckout, TypeInv
  <2>4. rec' \in [Recorders -> RecordEntries]
    BY <2>2, <2>3 DEF TypeInv
  <2> QED
    BY <2>1, <2>4 DEF TouchCheckout, runtimeVars, TypeInv
<1>5. CASE \E i \in DOMAIN runs : RunChanges(i)
  <2>1. PICK i \in DOMAIN runs : RunChanges(i)
    BY <1>5
  <2>2. [runs[i] EXCEPT !.content = "changed"] \in RunRecords
    <3>1. runs[i] \in RunRecords
      BY DEF TypeInv
    <3> QED
      BY <3>1 DEF RunRecords, Contents
  <2>3. runs' = [runs EXCEPT ![i] = [runs[i] EXCEPT !.content = "changed"]]
    BY <2>1 DEF RunChanges, TypeInv
  <2>4. runs' \in Seq(RunRecords)
    BY <2>2, <2>3 DEF TypeInv
  <2> QED
    BY <2>1, <2>4 DEF RunChanges, runtimeVars, TypeInv
<1>6. CASE UserRun
  <2>1. [by |-> 0, nonce |-> 0, commit |-> public, source |-> "exact", content |-> "own"]
            \in RunRecords
    BY DEF TypeInv, RunRecords, Commits, Checkouts, Contents
  <2>2. runs' \in Seq(RunRecords)
    BY <1>6, <2>1, LastRun DEF UserRun
  <2> QED
    BY <1>6, <2>2 DEF UserRun, runtimeVars, TypeInv
<1> QED
  BY <1>1, <1>2, <1>3, <1>4, <1>5, <1>6 DEF OtherHands

-----------------------------------------------------------------------------
(***************************************************************************)
(* The runs.  No step removes one, and none changes whose it is, which     *)
(* commit and source it names and which challenge it carries.              *)
(***************************************************************************)
RunsKept ==
    /\ DOMAIN runs \subseteq DOMAIN runs'
    /\ \A i \in DOMAIN runs :
           /\ runs'[i].by = runs[i].by /\ runs'[i].source = runs[i].source
           /\ runs'[i].commit = runs[i].commit /\ runs'[i].nonce = runs[i].nonce

\* A run that has been added is of a command that was under way, and of the source that
\* command has read.
RunsAdded(r) ==
    \A i \in DOMAIN runs' \ DOMAIN runs :
        runs'[i].by = r => build[r].pc # "none" /\ runs'[i].source = rec[r].checkout

\* What a command leaves: one run of its own record.
LEMMA CommandRuns ==
    ASSUME TypeInv, NEW r \in Recorders, LeaveRun(r)
    PROVE  RunsKept /\ \A p \in Recorders : RunsAdded(p)
<1> DEFINE n == RunOf(r, IF platform = "macos" THEN r ELSE 0)
<1>1. n \in RunRecords
  BY RunTyped
<1>2. runs' = Append(runs, n)
  BY DEF LeaveRun
<1> HIDE DEF n
<1>3. /\ DOMAIN runs = 1..Len(runs) /\ Len(runs) \in Nat
      /\ DOMAIN runs' = 1..(Len(runs) + 1)
      /\ \A i \in DOMAIN runs : runs'[i] = runs[i]
      /\ runs'[Len(runs) + 1] = n
  BY <1>1, <1>2, LastRun
<1>4. RunsKept
  BY <1>3 DEF RunsKept
<1>5. n.by = r /\ n.source = rec[r].checkout
  BY DEF n, RunOf
<1>6. build[r].pc = "ready"
  BY DEF LeaveRun, Step
<1>7. \A p \in Recorders : RunsAdded(p)
  BY <1>3, <1>5, <1>6 DEF RunsAdded
<1> QED
  BY <1>4, <1>7

\* What a user leaves: a run of nobody's record.
LEMMA UserRuns ==
    ASSUME TypeInv, UserRun
    PROVE  RunsKept /\ \A p \in Recorders : RunsAdded(p)
<1> DEFINE n == [by |-> 0, nonce |-> 0, commit |-> public, source |-> "exact", content |-> "own"]
<1>1. n \in RunRecords
  BY DEF TypeInv, RunRecords, Commits, Checkouts, Contents
<1>2. runs' = Append(runs, n)
  BY DEF UserRun
<1>3. n.by = 0
  OBVIOUS
<1> HIDE DEF n
<1>4. /\ DOMAIN runs = 1..Len(runs) /\ Len(runs) \in Nat
      /\ DOMAIN runs' = 1..(Len(runs) + 1)
      /\ \A i \in DOMAIN runs : runs'[i] = runs[i]
      /\ runs'[Len(runs) + 1] = n
  BY <1>1, <1>2, LastRun
<1>5. RunsKept
  BY <1>4 DEF RunsKept
<1>6. \A p \in Recorders : RunsAdded(p)
  BY <1>3, <1>4 DEF RunsAdded, Recorders, Builders
<1> QED
  BY <1>5, <1>6

\* A run that is tampered with keeps everything but its content.
LEMMA ChangedRuns ==
    ASSUME TypeInv, NEW k \in DOMAIN runs, RunChanges(k)
    PROVE  RunsKept /\ \A p \in Recorders : RunsAdded(p)
<1>1. runs' = [runs EXCEPT ![k].content = "changed"]
  BY DEF RunChanges
<1>2. runs[k] \in RunRecords /\ DOMAIN runs' = DOMAIN runs
  BY <1>1 DEF TypeInv
<1>3. \A i \in DOMAIN runs : i # k => runs'[i] = runs[i]
  BY <1>1
<1>4. runs'[k] = [runs[k] EXCEPT !.content = "changed"]
  BY <1>1
<1>5. /\ runs'[k].by = runs[k].by /\ runs'[k].source = runs[k].source
      /\ runs'[k].commit = runs[k].commit /\ runs'[k].nonce = runs[k].nonce
  BY <1>2, <1>4 DEF RunRecords
<1> QED
  BY <1>2, <1>3, <1>5 DEF RunsKept, RunsAdded

\* Every step keeps the runs.
LEMMA RunsStay ==
    ASSUME TypeInv, [Next]_vars
    PROVE  RunsKept /\ \A p \in Recorders : RunsAdded(p)
<1>1. CASE UNCHANGED runs
  BY <1>1 DEF RunsKept, RunsAdded
<1>2. ASSUME NEW r \in Recorders, Record(r)
      PROVE  UNCHANGED runs
  BY <1>2 DEF Record, StartRecord, SnapshotAttestation, FreshExecutionCheckout, SealCheckout,
              Capture, TakeRun, VerifyRun, AssembleBundle, VerifyStagedBundle, PublishBundle,
              RecordFails, RecordKilled
<1>3. ASSUME NEW r \in Recorders, Command(r), ~LeaveRun(r)
      PROVE  UNCHANGED runs
  BY <1>3 DEF Command, StartRegression, StartProof, CommandFails
<1>4. ASSUME OtherHands, ~UserRun, ~\E i \in DOMAIN runs : RunChanges(i)
      PROVE  UNCHANGED runs
  BY <1>4 DEF OtherHands, Retag, CloneChanges, AttestationChanges, TouchCheckout
<1>5. CASE UNCHANGED vars
  BY <1>1, <1>5 DEF vars
<1>6. CASE Runtime
  BY <1>1, <1>6 DEF Runtime
<1>7. CASE OtherHands
  BY <1>1, <1>4, <1>7, UserRuns, ChangedRuns
<1>8. CASE \E r \in Recorders : Record(r) \/ Command(r)
  BY <1>1, <1>2, <1>3, <1>8, CommandRuns
<1> QED
  BY <1>5, <1>6, <1>7, <1>8 DEF Next

\* A bundle stays of the run it is of.
LEMMA BundleKept ==
    ASSUME RunsKept, NEW b, BundleOf(b)
    PROVE  BundleOf(b)' /\ (Verified(b) => Verified(b)')
  BY DEF RunsKept, BundleOf, Verified

-----------------------------------------------------------------------------
(***************************************************************************)
(* What is known of a record.                                              *)
(***************************************************************************)
\* The machine does not change.
LEMMA PlatformStays == [Next]_vars => platform' = platform
<1>1. ASSUME NEW r \in Recorders, Record(r) PROVE platform' = platform
  BY <1>1 DEF Record, StartRecord, SnapshotAttestation, FreshExecutionCheckout, SealCheckout,
              Capture, TakeRun, VerifyRun, AssembleBundle, VerifyStagedBundle, PublishBundle,
              RecordFails, RecordKilled
<1>2. ASSUME NEW r \in Recorders, Command(r) PROVE platform' = platform
  BY <1>2 DEF Command, StartRegression, StartProof, LeaveRun, CommandFails
<1>3. ASSUME OtherHands PROVE platform' = platform
  BY <1>3 DEF OtherHands, Retag, CloneChanges, AttestationChanges, TouchCheckout, RunChanges,
              UserRun
<1> QED
  BY <1>1, <1>2, <1>3 DEF Next, Runtime, vars

\* A step that is not the record's own, its command's included: a command that is under
\* way reads the checkout as it is.
LEMMA RecordFrame ==
    ASSUME TypeInv, NEW p \in Recorders, RecordInv(p), RunsKept, RunsAdded(p),
           platform' = platform, rec'[p] = rec[p],
           build[p].pc = "none" => build'[p].pc = "none"
    PROVE  RecordInv(p)'
<1>1. NothingRun(p)'
  BY DEF RecordInv, NothingRun, RunsKept, RunsAdded
<1>2. SealedSource(p)'
  BY DEF RecordInv, SealedSource, NothingRun, RunsKept, RunsAdded, BeforeRun
<1>3. RunTaken(p)'
  BY DEF RecordInv, RunTaken, RunsKept, Taken
<1>4. BundleAssembled(p)'
  BY BundleKept DEF RecordInv, BundleAssembled, Verified
<1> QED
  BY <1>1, <1>2, <1>3, <1>4 DEF RecordInv

\* A record that is over has nothing to lose.
LEMMA OverRecord ==
    ASSUME NEW p \in Recorders, rec'[p].pc = "over"
    PROVE  RecordInv(p)'
  BY DEF RecordInv, NothingRun, SealedSource, RunTaken, BundleAssembled, BeforeRun, Taken

\* Until it is captured, a command does not exist.
LEMMA PreparationKeeps ==
    ASSUME TypeInv, NEW r \in Recorders, RecordInv(r),
           \/ StartRecord(r) \/ SnapshotAttestation(r) \/ FreshExecutionCheckout(r)
           \/ SealCheckout(r)
    PROVE  RecordInv(r)'
<1>1. UNCHANGED <<runs, build, platform>>
  BY DEF StartRecord, SnapshotAttestation, FreshExecutionCheckout, SealCheckout, runtimeVars
<1>2. rec[r].pc \in BeforeRun /\ rec'[r].pc \in BeforeRun
  BY DEF StartRecord, SnapshotAttestation, FreshExecutionCheckout, SealCheckout, At, BeforeRun,
         TypeInv, RecordEntries
<1>3. build[r].pc = "none" /\ \A i \in DOMAIN runs : runs[i].by # r
  BY <1>2 DEF RecordInv, NothingRun
<1>4. rec'[r].pc = "started" => rec'[r].checkout = "exact"
  <2>1. CASE SealCheckout(r)
    BY <2>1 DEF SealCheckout, ExactCheckout, TypeInv, RecordEntries
  <2>2. CASE StartRecord(r) \/ SnapshotAttestation(r) \/ FreshExecutionCheckout(r)
    BY <2>2 DEF StartRecord, SnapshotAttestation, FreshExecutionCheckout, TypeInv, RecordEntries
  <2> QED
    BY <2>1, <2>2
<1>5. NothingRun(r)'
  BY <1>1, <1>3 DEF NothingRun
<1>6. SealedSource(r)'
  BY <1>1, <1>2, <1>3, <1>4 DEF SealedSource, BeforeRun, Taken
<1>7. RunTaken(r)' /\ BundleAssembled(r)'
  BY <1>2 DEF RunTaken, BundleAssembled, BeforeRun, Taken
<1> QED
  BY <1>5, <1>6, <1>7 DEF RecordInv

\* From the capture on, what was sealed is what the command reads.
LEMMA CaptureKeeps ==
    ASSUME TypeInv, NEW r \in Recorders, RecordInv(r), Capture(r)
    PROVE  RecordInv(r)'
<1>1. rec[r].pc = "started" /\ rec' = [rec EXCEPT ![r].pc = "running"] /\ runs' = runs
  BY DEF Capture, At
<1>2. rec'[r].pc = "running" /\ rec'[r].checkout = rec[r].checkout /\ rec'[r].touched = rec[r].touched
  BY <1>1 DEF TypeInv, RecordEntries
<1> QED
  BY <1>1, <1>2 DEF RecordInv, NothingRun, SealedSource, RunTaken, BundleAssembled, BeforeRun, Taken

\* A step of a record whose command has been started, which touches neither the checkout
\* nor a run: the seal says of the source what it said.
LEMMA SealKept ==
    ASSUME TypeInv, NEW r \in Recorders, RecordInv(r), UNCHANGED runs,
           rec[r].pc \in {"running"} \cup Taken, rec'[r].pc \in Taken,
           rec'[r].checkout = rec[r].checkout, rec'[r].touched = rec[r].touched
    PROVE  NothingRun(r)' /\ SealedSource(r)'
  BY DEF RecordInv, NothingRun, SealedSource, BeforeRun, Taken

\* The run that is taken is there, and on Linux it is the command's own.
LEMMA TakeKeeps ==
    ASSUME TypeInv, NEW r \in Recorders, RecordInv(r), TakeRun(r)
    PROVE  RecordInv(r)'
<1>1. FreshRuns(r) # {} /\ FreshRuns(r) \subseteq DOMAIN runs
  <2>1. FreshRuns(r) # {}
    BY FS_EmptySet DEF TakeRun
  <2>2. FreshRuns(r) \subseteq DOMAIN runs
    BY DEF FreshRuns, CompleteRuns
  <2> QED
    BY <2>1, <2>2
<1>2. PICK j : j = (CHOOSE i \in FreshRuns(r) : TRUE)
               /\ rec' = [rec EXCEPT ![r].pc = "ran", ![r].run = j]
  BY DEF TakeRun
<1>3. j \in FreshRuns(r) /\ j \in DOMAIN runs
  BY <1>1, <1>2
<1>4. /\ rec'[r].pc = "ran" /\ rec'[r].run = j
      /\ rec'[r].checkout = rec[r].checkout /\ rec'[r].touched = rec[r].touched
  BY <1>2 DEF TypeInv, RecordEntries
<1>5. runs' = runs /\ platform' = platform /\ rec[r].pc = "running"
  BY DEF TakeRun, At
<1>6. platform = "linux" => runs[j].by = r
  BY <1>3 DEF FreshRuns
<1>7. NothingRun(r)' /\ SealedSource(r)'
  BY <1>4, <1>5, SealKept DEF Taken
<1>8. RunTaken(r)' /\ BundleAssembled(r)'
  BY <1>3, <1>4, <1>5, <1>6 DEF RunTaken, BundleAssembled, Taken
<1> QED
  BY <1>7, <1>8 DEF RecordInv

\* A run with the record's challenge is its command's, and the seal vouches for its source.
LEMMA VerifyKeeps ==
    ASSUME TypeInv, NEW r \in Recorders, RecordInv(r), ChallengeInv, VerifyRun(r)
    PROVE  RecordInv(r)'
<1>1. rec[r].pc = "ran" /\ rec' = [rec EXCEPT ![r].pc = "verified"] /\ runs' = runs
      /\ platform' = platform
  BY DEF VerifyRun, At
<1>2. /\ rec'[r].pc = "verified" /\ rec'[r].run = rec[r].run
      /\ rec'[r].checkout = rec[r].checkout /\ rec'[r].touched = rec[r].touched
  BY <1>1 DEF TypeInv, RecordEntries
<1>3. rec[r].run \in DOMAIN runs
  BY <1>1 DEF RecordInv, RunTaken, Taken
<1>4. runs[rec[r].run].by = r
  <2>1. CASE platform = "linux"
    BY <1>1, <2>1 DEF RecordInv, RunTaken, Taken
  <2>2. CASE platform = "macos"
    <3>1. runs[rec[r].run].nonce = r /\ r # 0
      BY <2>2 DEF VerifyRun, RunVerifies, Nonce, Recorders, Builders
    <3> QED
      BY <1>3, <3>1 DEF ChallengeInv
  <2> QED
    BY <2>1, <2>2 DEF TypeInv
<1>5. runs[rec[r].run].source = "exact"
  BY <1>1, <1>3, <1>4 DEF VerifyRun, SealIntact, RecordInv, SealedSource, Taken
<1>6. NothingRun(r)' /\ SealedSource(r)'
  BY <1>1, <1>2, SealKept DEF Taken
<1>7. RunTaken(r)' /\ BundleAssembled(r)'
  BY <1>1, <1>2, <1>3, <1>4, <1>5 DEF RunTaken, BundleAssembled, Taken
<1> QED
  BY <1>6, <1>7 DEF RecordInv

\* The bundle is of the run that was verified.
LEMMA AssembleKeeps ==
    ASSUME TypeInv, NEW r \in Recorders, RecordInv(r), AssembleBundle(r)
    PROVE  RecordInv(r)'
<1>1. rec[r].pc = "verified" /\ runs' = runs /\ platform' = platform
  BY DEF AssembleBundle, At
<1>2. /\ rec'[r].bundle \in Bundles
      /\ rec'[r].bundle.by = r /\ rec'[r].bundle.run = rec[r].run
  BY BundleTyped
<1>3. PICK b : rec' = [rec EXCEPT ![r].pc = "assembled", ![r].bundle = b]
  BY DEF AssembleBundle
<1>4. /\ rec'[r].pc = "assembled" /\ rec'[r].run = rec[r].run
      /\ rec'[r].checkout = rec[r].checkout /\ rec'[r].touched = rec[r].touched
  BY <1>3 DEF TypeInv, RecordEntries
<1>5. /\ rec[r].run \in DOMAIN runs /\ runs[rec[r].run].by = r
      /\ runs[rec[r].run].source = "exact"
  BY <1>1 DEF RecordInv, RunTaken, Taken
<1>6. NothingRun(r)' /\ SealedSource(r)'
  BY <1>1, <1>4, SealKept DEF Taken
<1>7. RunTaken(r)'
  BY <1>1, <1>4, <1>5 DEF RunTaken, Taken
<1>8. BundleAssembled(r)'
  BY <1>1, <1>2, <1>4, <1>5 DEF BundleAssembled, BundleOf
<1> QED
  BY <1>6, <1>7, <1>8 DEF RecordInv

\* What verify_bundle accepts is the run's evidence, of the commit the run names.
LEMMA StageKeeps ==
    ASSUME TypeInv, NEW r \in Recorders, RecordInv(r), VerifyStagedBundle(r)
    PROVE  RecordInv(r)'
<1>1. rec[r].pc = "assembled" /\ rec' = [rec EXCEPT ![r].pc = "staged"] /\ runs' = runs
      /\ platform' = platform
  BY DEF VerifyStagedBundle, At
<1>2. /\ rec'[r].pc = "staged" /\ rec'[r].run = rec[r].run /\ rec'[r].bundle = rec[r].bundle
      /\ rec'[r].checkout = rec[r].checkout /\ rec'[r].touched = rec[r].touched
  BY <1>1 DEF TypeInv, RecordEntries
<1>3. BundleOf(rec[r].bundle)
  BY <1>1 DEF RecordInv, BundleAssembled
<1>4. Verified(rec[r].bundle)
  <2>1. VerifyBundle(rec[r].bundle) /\ platform \in {"linux", "macos"}
    BY DEF VerifyStagedBundle, TypeInv
  <2> QED
    BY <1>3, <2>1 DEF VerifyBundle, CommittedBefore, EvidenceReverifies, MacReceipt, LinuxReceipt,
                      Verified
<1>5. NothingRun(r)' /\ SealedSource(r)'
  BY <1>1, <1>2, SealKept DEF Taken
<1>6. RunTaken(r)'
  BY <1>1, <1>2 DEF RecordInv, RunTaken, Taken
<1>7. BundleAssembled(r)'
  BY <1>1, <1>2, <1>3, <1>4 DEF BundleAssembled, BundleOf, Verified
<1> QED
  BY <1>5, <1>6, <1>7 DEF RecordInv

\* A step of a record leaves what is known of it, and of the others.
LEMMA RecordKeeps ==
    ASSUME TypeInv, NEW r \in Recorders, NEW p \in Recorders, RecordInv(r), RecordInv(p),
           ChallengeInv, Next, Record(r)
    PROVE  RecordInv(p)'
<1>1. RunsKept /\ RunsAdded(p) /\ platform' = platform
  BY RunsStay, PlatformStays
<1>2. CASE p # r
  <2>1. rec'[p] = rec[p]
    BY <1>2 DEF Record, StartRecord, SnapshotAttestation, FreshExecutionCheckout, SealCheckout,
                Capture, TakeRun, VerifyRun, AssembleBundle, VerifyStagedBundle, PublishBundle,
                RecordFails, RecordKilled, TypeInv
  <2>2. build'[p] = build[p]
    <3>1. CASE Capture(r)
      BY <1>2, <3>1 DEF Capture, TypeInv, Recorders
    <3>2. CASE RecordFails(r)
      BY <1>2, <3>2 DEF RecordFails, TypeInv, Recorders
    <3> QED
      BY <3>1, <3>2 DEF Record, StartRecord, SnapshotAttestation, FreshExecutionCheckout,
             SealCheckout, TakeRun, VerifyRun, AssembleBundle, VerifyStagedBundle, PublishBundle,
             RecordKilled, runtimeVars
  <2> QED
    BY <1>1, <2>1, <2>2, RecordFrame
<1>3. CASE PublishBundle(r) \/ RecordFails(r) \/ RecordKilled(r)
  <2>1. rec'[r].pc = "over"
    <3>1. CASE PublishBundle(r)
      BY <3>1 DEF PublishBundle, TypeInv, NoRecord
    <3>2. CASE RecordFails(r)
      BY <3>2 DEF RecordFails, TypeInv, NoRecord
    <3>3. CASE RecordKilled(r)
      BY <3>3 DEF RecordKilled, TypeInv, RecordEntries
    <3> QED
      BY <1>3, <3>1, <3>2, <3>3
  <2> QED
    BY <1>2, <2>1, OverRecord
<1> QED
  BY <1>2, <1>3, PreparationKeeps, CaptureKeeps, TakeKeeps, VerifyKeeps, AssembleKeeps, StageKeeps
     DEF Record

\* So does a step of a command, which is under way.
LEMMA CommandKeeps ==
    ASSUME TypeInv, NEW r \in Recorders, NEW p \in Recorders, RecordInv(p), Next, Command(r)
    PROVE  RecordInv(p)'
<1>1. RunsKept /\ RunsAdded(p) /\ platform' = platform
  BY RunsStay, PlatformStays
<1>2. rec' = rec /\ build[r].pc # "none"
  BY DEF Command, StartRegression, StartProof, LeaveRun, CommandFails, Step
<1>3. p # r => build'[p] = build[p]
  BY DEF Command, StartRegression, StartProof, LeaveRun, CommandFails, Step, TypeInv, Recorders
<1> QED
  BY <1>1, <1>2, <1>3, RecordFrame

\* So does a step of a runtime build, which is one of a command.
LEMMA BuildKeeps ==
    ASSUME TypeInv, NEW p \in Recorders, RecordInv(p), Next, Runtime
    PROVE  RecordInv(p)'
<1>1. RunsKept /\ RunsAdded(p) /\ platform' = platform
  BY RunsStay, PlatformStays
<1>2. rec' = rec
  BY DEF Runtime
<1>3. build[p].pc = "none" => build'[p].pc = "none"
  <2>1. CASE Bootstrap
    BY <2>1 DEF Bootstrap, BootstrapFindsNone, BootstrapMove
  <2>2. ASSUME NEW b \in Builders, BuildStep(b)
        PROVE  build[b].pc # "none" /\ (b # p => build'[p] = build[p])
    <3>1. build[b].pc # "none"
      BY <2>2 DEF BuildStep, ResolvePython, InstallStage, InitializeMarker, VerifyStage,
                  FindDestinationAbsent, RenameStage, UseRuntime, BuildFails, Step, Building
    <3>2. b # p => build'[p] = build[p]
      BY <2>2 DEF BuildStep, ResolvePython, InstallStage, InitializeMarker, VerifyStage,
                  FindDestinationAbsent, RenameStage, UseRuntime, BuildFails, Step, TypeInv,
                  Recorders
    <3> QED
      BY <3>1, <3>2
  <2> QED
    BY <2>1, <2>2 DEF Runtime
<1> QED
  BY <1>1, <1>2, <1>3, RecordFrame

\* So do other hands: who touches a checkout breaks its seal.
LEMMA OthersKeep ==
    ASSUME TypeInv, NEW p \in Recorders, RecordInv(p), Next, OtherHands
    PROVE  RecordInv(p)'
<1>1. RunsKept /\ RunsAdded(p) /\ platform' = platform
  BY RunsStay, PlatformStays
<1>2. CASE UNCHANGED <<rec, build>>
  BY <1>1, <1>2, RecordFrame
<1>3. ASSUME NEW r \in Recorders, NEW content \in {"exact", "modified"}, TouchCheckout(r, content)
      PROVE  RecordInv(p)'
  <2>1. UNCHANGED <<runs, build>> /\ rec' = [rec EXCEPT ![r].checkout = content, ![r].touched = TRUE]
    BY <1>3 DEF TouchCheckout, runtimeVars
  <2>2. CASE p # r
    <3>1. rec'[p] = rec[p]
      BY <2>1, <2>2 DEF TypeInv
    <3> QED
      BY <1>1, <2>1, <3>1, RecordFrame
  <2>3. CASE p = r
    <3>1. /\ rec'[p].pc = rec[p].pc /\ rec'[p].touched /\ rec'[p].run = rec[p].run
          /\ rec'[p].bundle = rec[p].bundle
      BY <2>1, <2>3 DEF TypeInv, RecordEntries
    <3>2. NothingRun(p)' /\ SealedSource(p)'
      BY <2>1, <3>1 DEF RecordInv, NothingRun, SealedSource
    <3>3. RunTaken(p)' /\ BundleAssembled(p)'
      BY <1>1, <2>1, <3>1 DEF RecordInv, RunTaken, BundleAssembled, BundleOf, Verified
    <3> QED
      BY <3>2, <3>3 DEF RecordInv
  <2> QED
    BY <2>2, <2>3
<1>4. CASE Retag \/ UserRun
  BY <1>2, <1>4 DEF Retag, UserRun, runtimeVars
<1>5. CASE \E commit \in Commits, clean \in BOOLEAN : CloneChanges(commit, clean)
  BY <1>2, <1>5 DEF CloneChanges, runtimeVars
<1>6. CASE \E content \in {"early", "late", "invalid"} : AttestationChanges(content)
  BY <1>2, <1>6 DEF AttestationChanges, runtimeVars
<1>7. CASE \E i \in DOMAIN runs : RunChanges(i)
  BY <1>2, <1>7 DEF RunChanges, runtimeVars
<1> QED
  BY <1>3, <1>4, <1>5, <1>6, <1>7 DEF OtherHands

-----------------------------------------------------------------------------
(***************************************************************************)
(* The challenges, the runtime and the output.                             *)
(***************************************************************************)
\* A command leaves its own record's challenge, a user none.
LEMMA ChallengeKept ==
    ASSUME TypeInv, ChallengeInv, [Next]_vars
    PROVE  ChallengeInv'
<1>1. RunsKept
  BY RunsStay
<1>2. \A i \in DOMAIN runs' \ DOMAIN runs : runs'[i].nonce # 0 => runs'[i].nonce = runs'[i].by
  <2>1. ASSUME NEW r \in Recorders, LeaveRun(r)
        PROVE  \A i \in DOMAIN runs' \ DOMAIN runs : runs'[i].nonce # 0 => runs'[i].nonce = runs'[i].by
    <3> DEFINE n == RunOf(r, IF platform = "macos" THEN r ELSE 0)
    <3>1. n \in RunRecords /\ runs' = Append(runs, n)
      BY <2>1, RunTyped DEF LeaveRun
    <3>2. n.nonce # 0 => n.nonce = n.by
      BY DEF n, RunOf
    <3> HIDE DEF n
    <3>3. DOMAIN runs = 1..Len(runs) /\ Len(runs) \in Nat /\ DOMAIN runs' = 1..(Len(runs) + 1)
          /\ runs'[Len(runs) + 1] = n
      BY <3>1, LastRun
    <3> QED
      BY <3>2, <3>3
  <2>2. ASSUME UserRun
        PROVE  \A i \in DOMAIN runs' \ DOMAIN runs : runs'[i].nonce # 0 => runs'[i].nonce = runs'[i].by
    <3> DEFINE n == [by |-> 0, nonce |-> 0, commit |-> public, source |-> "exact", content |-> "own"]
    <3>1. n \in RunRecords
      BY DEF TypeInv, RunRecords, Commits, Checkouts, Contents
    <3>2. runs' = Append(runs, n) /\ n.nonce = 0
      BY <2>2 DEF UserRun
    <3> HIDE DEF n
    <3>3. DOMAIN runs = 1..Len(runs) /\ Len(runs) \in Nat /\ DOMAIN runs' = 1..(Len(runs) + 1)
          /\ runs'[Len(runs) + 1] = n
      BY <3>1, <3>2, LastRun
    <3> QED
      BY <3>2, <3>3
  <2>3. CASE DOMAIN runs' = DOMAIN runs
    BY <2>3
  <2>4. ASSUME NEW i \in DOMAIN runs, RunChanges(i)
        PROVE  DOMAIN runs' = DOMAIN runs
    BY <2>4 DEF RunChanges, TypeInv
  <2>5. ASSUME NEW r \in Recorders, Record(r)
        PROVE  UNCHANGED runs
    BY <2>5 DEF Record, StartRecord, SnapshotAttestation, FreshExecutionCheckout, SealCheckout,
                Capture, TakeRun, VerifyRun, AssembleBundle, VerifyStagedBundle, PublishBundle,
                RecordFails, RecordKilled
  <2>6. ASSUME NEW r \in Recorders, Command(r), ~LeaveRun(r)
        PROVE  UNCHANGED runs
    BY <2>6 DEF Command, StartRegression, StartProof, CommandFails
  <2>7. ASSUME OtherHands, ~UserRun, ~\E i \in DOMAIN runs : RunChanges(i)
        PROVE  UNCHANGED runs
    BY <2>7 DEF OtherHands, Retag, CloneChanges, AttestationChanges, TouchCheckout
  <2>8. CASE OtherHands
    BY <2>2, <2>3, <2>4, <2>7, <2>8
  <2>9. CASE \E r \in Recorders : Record(r) \/ Command(r)
    BY <2>1, <2>3, <2>5, <2>6, <2>9
  <2>10. CASE Runtime \/ UNCHANGED vars
    BY <2>3, <2>10 DEF Runtime, vars
  <2> QED
    BY <2>8, <2>9, <2>10 DEF Next
<1> QED
  BY <1>1, <1>2 DEF ChallengeInv, RunsKept

\* A runtime path is only ever reached through the checks of its own staging directory.
LEMMA RuntimeKept ==
    ASSUME TypeInv, RuntimeInv, [Next]_vars
    PROVE  RuntimeInv' /\ (runtime' # runtime => runtime = "absent" /\ runtime' = "whole")
<1> DEFINE Sure == runtime' # runtime => runtime = "absent" /\ runtime' = "whole"
<1>1. ASSUME NEW b \in Builders, \A p \in Builders : p # b => build'[p] = build[p],
             build'[b].pc \in {"verified", "absent"} => build'[b].staged = "whole",
             UNCHANGED runtime
      PROVE  RuntimeInv' /\ Sure
  BY <1>1 DEF RuntimeInv
<1>2. CASE UNCHANGED <<build, runtime>>
  BY <1>2 DEF RuntimeInv
<1>3. ASSUME NEW r \in Recorders, Record(r)
      PROVE  RuntimeInv' /\ Sure
  <2>1. CASE Capture(r)
    BY <1>1, <2>1 DEF Capture, TypeInv, Recorders
  <2>2. CASE RecordFails(r)
    BY <1>1, <1>2, <2>2 DEF RecordFails, TypeInv, Recorders
  <2> QED
    BY <1>2, <1>3, <2>1, <2>2 DEF Record, StartRecord, SnapshotAttestation,
       FreshExecutionCheckout, SealCheckout, TakeRun, VerifyRun, AssembleBundle,
       VerifyStagedBundle, PublishBundle, RecordKilled, runtimeVars
<1>4. ASSUME NEW r \in Recorders, Command(r)
      PROVE  RuntimeInv' /\ Sure
  <2>1. CASE StartRegression(r)
    BY <1>1, <2>1 DEF StartRegression, Step, TypeInv, Recorders
  <2>2. CASE StartProof(r)
    BY <1>1, <2>2 DEF StartProof, Step, TypeInv, Recorders
  <2>3. CASE LeaveRun(r)
    BY <1>1, <2>3 DEF LeaveRun, Step, TypeInv, Recorders
  <2>4. CASE CommandFails(r)
    BY <1>1, <2>4 DEF CommandFails, TypeInv, Recorders
  <2> QED
    BY <1>4, <2>1, <2>2, <2>3, <2>4 DEF Command
<1>5. ASSUME NEW b \in Builders, BuildStep(b)
      PROVE  RuntimeInv' /\ Sure
  <2>1. CASE ResolvePython(b)
    BY <1>1, <2>1 DEF ResolvePython, Step, TypeInv
  <2>2. CASE InstallStage(b)
    BY <1>1, <2>2 DEF InstallStage, TypeInv
  <2>3. CASE InitializeMarker(b)
    BY <1>1, <2>3 DEF InitializeMarker, Step, TypeInv
  <2>4. CASE VerifyStage(b)
    <3>1. build[b].staged = "whole" /\ runtime' = runtime
      BY <2>4 DEF VerifyStage, RuntimeValid, LockedClosure
    <3>2. build'[b].staged = build[b].staged /\ \A p \in Builders : p # b => build'[p] = build[p]
      BY <2>4 DEF VerifyStage, Step, TypeInv
    <3> QED
      BY <1>1, <3>1, <3>2
  <2>5. CASE FindDestinationAbsent(b)
    <3>1. build[b].staged = "whole" /\ runtime' = runtime
      BY <2>5 DEF FindDestinationAbsent, Step, RuntimeInv
    <3>2. build'[b].staged = build[b].staged /\ \A p \in Builders : p # b => build'[p] = build[p]
      BY <2>5 DEF FindDestinationAbsent, Step, TypeInv
    <3> QED
      BY <1>1, <3>1, <3>2
  <2>6. CASE RenameStage(b)
    <3>1. runtime = "absent" /\ runtime' = "whole"
      BY <2>6 DEF RenameStage, RuntimeInv
    <3>2. build' = [build EXCEPT ![b] = [pc |-> "published", staged |-> "nothing"]]
      BY <2>6 DEF RenameStage
    <3> QED
      BY <3>1, <3>2 DEF RuntimeInv, TypeInv
  <2>7. CASE UseRuntime(b)
    BY <1>1, <2>7 DEF UseRuntime, TypeInv
  <2>8. CASE BuildFails(b)
    BY <1>1, <2>8 DEF BuildFails, TypeInv
  <2> QED
    BY <1>5, <2>1, <2>2, <2>3, <2>4, <2>5, <2>6, <2>7, <2>8 DEF BuildStep
<1>6. CASE Runtime
  BY <1>2, <1>5, <1>6 DEF Runtime, Bootstrap, BootstrapFindsNone, BootstrapMove
<1>7. CASE OtherHands
  BY <1>2, <1>7 DEF OtherHands, Retag, CloneChanges, AttestationChanges, TouchCheckout,
                    RunChanges, UserRun, runtimeVars
<1>8. CASE UNCHANGED vars
  BY <1>2, <1>8 DEF vars, runtimeVars
<1> QED
  BY <1>3, <1>4, <1>6, <1>7, <1>8 DEF Next

\* The output path only changes by the publication of a staged bundle where there is none.
LEMMA OutputKept ==
    ASSUME TypeInv, OutputInv, \A r \in Recorders : RecordInv(r), [Next]_vars
    PROVE  OutputInv'
<1>1. RunsKept
  BY RunsStay
<1>2. CASE output' = output
  BY <1>1, <1>2, BundleKept DEF OutputInv, Verified, BundleOf
<1>3. ASSUME NEW r \in Recorders, PublishBundle(r)
      PROVE  OutputInv'
  <2>1. rec[r].pc = "staged" /\ output = NoBundle /\ output' = rec[r].bundle
    BY <1>3 DEF PublishBundle, At
  <2>2. Verified(rec[r].bundle)
    BY <2>1 DEF RecordInv, BundleAssembled
  <2> QED
    BY <1>1, <2>1, <2>2 DEF OutputInv, Verified, BundleOf, RunsKept
<1>4. ASSUME NEW r \in Recorders, Record(r), ~PublishBundle(r)
      PROVE  output' = output
  BY <1>4 DEF Record, StartRecord, SnapshotAttestation, FreshExecutionCheckout, SealCheckout,
              Capture, TakeRun, VerifyRun, AssembleBundle, VerifyStagedBundle, RecordFails,
              RecordKilled
<1>5. ASSUME NEW r \in Recorders, Command(r)
      PROVE  output' = output
  BY <1>5 DEF Command, StartRegression, StartProof, LeaveRun, CommandFails
<1>6. CASE OtherHands
  BY <1>2, <1>6 DEF OtherHands, Retag, CloneChanges, AttestationChanges, TouchCheckout,
                    RunChanges, UserRun
<1>7. CASE Runtime \/ UNCHANGED vars
  BY <1>2, <1>7 DEF Runtime, vars
<1> QED
  BY <1>2, <1>3, <1>4, <1>5, <1>6, <1>7 DEF Next

-----------------------------------------------------------------------------
(***************************************************************************)
(* The theorems.                                                           *)
(***************************************************************************)
\* Nothing has run, and nothing is there.
LEMMA InitInv == Init => IInv
<1> SUFFICES ASSUME Init PROVE IInv
  OBVIOUS
<1>1. TypeInv
  BY InitTyped
<1>2. \A r \in Recorders : RecordInv(r)
  BY DEF Init, RuntimeInit, Recorders, NoRecord, RecordInv, NothingRun, SealedSource, RunTaken,
         BundleAssembled, BeforeRun, Taken
<1>3. ChallengeInv /\ RuntimeInv /\ OutputInv
  BY DEF Init, RuntimeInit, ChallengeInv, RuntimeInv, OutputInv
<1> QED
  BY <1>1, <1>2, <1>3 DEF IInv

\* Every step keeps the inductive invariant.
LEMMA NextInv == IInv /\ [Next]_vars => IInv'
<1> SUFFICES ASSUME IInv, [Next]_vars PROVE IInv'
  OBVIOUS
<1> USE DEF IInv
<1>1. ChallengeInv' /\ RuntimeInv' /\ OutputInv'
  BY ChallengeKept, RuntimeKept, OutputKept
<1>2. CASE UNCHANGED vars
  <2>1. TypeInv'
    BY <1>2 DEF TypeInv, vars, runtimeVars
  <2>2. ASSUME NEW p \in Recorders PROVE RecordInv(p)'
    BY <1>2, RunsStay, RecordFrame DEF vars, runtimeVars
  <2> QED
    BY <1>1, <2>1, <2>2
<1>3. ASSUME NEW r \in Recorders, Record(r) \/ Command(r), Next
      PROVE  TypeInv' /\ \A p \in Recorders : RecordInv(p)'
  BY <1>3, RecordTyped, CommandTyped, RecordKeeps, CommandKeeps
<1>4. CASE Runtime
  BY <1>1, <1>4, RuntimeTyped, BuildKeeps DEF Next
<1>5. CASE OtherHands
  BY <1>1, <1>5, OthersTyped, OthersKeep DEF Next
<1> QED
  BY <1>1, <1>2, <1>3, <1>4, <1>5 DEF Next

\* The inductive invariant holds in every state of every behaviour.
THEOREM Invariant == Spec => []IInv
  BY InitInv, NextInv, PTL DEF Spec

\* BundleOfOneFreshRun: a published bundle is of the run its own command made from the
\* unmodified source of the tag, under every interleaving of two records, their orphaned
\* commands and other hands, however many changes those make (record, verify_bundle).
THEOREM BundleIsOfOneRun == Spec => []BundleOfOneFreshRun
<1>1. IInv => BundleOfOneFreshRun
  BY DEF IInv, OutputInv, Verified, BundleOf, BundleOfOneFreshRun
<1> QED
  BY <1>1, Invariant, PTL

\* RuntimePublishedWhole: over concurrent, failing and killed builds, at most one runtime is
\* renamed to the runtime path, and that one has passed every check (publish_runtime).  It
\* says nothing of the interpreter's tree, which two bootstraps can nest in each other.
THEOREM RuntimeIsWhole == Spec => RuntimePublishedWhole
<1>1. IInv /\ [Next]_vars =>
          [(runtime' # runtime) => (runtime = "absent" /\ runtime' = "whole")]_vars
  BY RuntimeKept DEF IInv
<1> QED
  BY <1>1, Invariant, PTL DEF Spec, RuntimePublishedWhole
=============================================================================
