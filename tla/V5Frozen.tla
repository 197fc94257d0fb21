------------------------------ MODULE V5Frozen ------------------------------
(***************************************************************************)
(* The frozen V5 suite: run_voidtoken_v5_frozen.py, which evaluates each   *)
(* of two phases once, in disposable clones of a public repository, and    *)
(* verify_voidtoken_v5_evidence.py, which reads what was left.             *)
(*                                                                         *)
(* A clone is a worktree with a HEAD.  A commit is a version of the        *)
(* normative sources with the four artifacts it tracks and the commits it  *)
(* descends from.  The operator edits, commits, tags, publishes and clones *)
(* at any moment; runs race, raise and are killed; the machine loses       *)
(* power.  Nobody deletes an artifact or moves a tag, which V5_PROTOCOL.md *)
(* disclaims.                                                              *)
(***************************************************************************)
EXTENDS Integers, Sequences, FiniteSets, DurableFiles

CONSTANTS
    Runs,           \* invocations of the runner
    Clones,         \* clones of the repository
    None,
    Sources,        \* versions of the normative sources
    MaxCommits,     \* bound on the history
    MaxEdits        \* bound on edits of a worktree

ASSUME V5Assumption ==
    /\ None \notin Runs \cup Clones
    /\ "frozen" \in Sources /\ Sources \subseteq {"frozen", "patched", "amended"}
    /\ MaxCommits \in Nat \ {0} /\ MaxEdits \in Nat

Phases == {"selection", "holdout"}
Files == Phases \X {"attempt", "result"}
Attempt(phase) == <<phase, "attempt">>
Result(phase) == <<phase, "result">>

\* registration_sha256 of a version: the registration is one of the normative
\* sources, and a version may change it or not.
Registration(version) == IF version = "amended" THEN "amended" ELSE "registered"

(***************************************************************************)
(* An attempt marker or a phase result: its run, the execution commit, the *)
(* version behind both recorded digests, the run whose selection artifacts *)
(* the pre-test freeze names, whether the measured records meet the gates, *)
(* and the recorded verdict.                                               *)
(***************************************************************************)
Bodies ==
    [run: Runs \cup {None}, commit: 0..MaxCommits, source: Sources,
     selection: Runs \cup {None}, measured: BOOLEAN, pass: BOOLEAN]
NoBody ==
    [run |-> None, commit |-> 0, source |-> "frozen",
     selection |-> None, measured |-> FALSE, pass |-> FALSE]

Locals ==
    [clone: Clones \cup {None}, phase: Phases, loaded: SUBSET Sources, body: Bodies]
NoLocals ==
    [clone |-> None, phase |-> "selection", loaded |-> {}, body |-> NoBody]

\* What git sees of a file.
Content(file) == [form |-> file.form, body |-> file.body]
Contents == [form: Forms, body: Bodies]
Fresh(content) ==
    [form |-> content.form, body |-> content.body,
     data |-> content.form # "absent", entry |-> content.form # "absent"]

VARIABLES
    commits,    \* the history: source, tracked files, ancestors
    public,     \* the tags on origin (0: none)
    tags,       \* the tags of each clone
    head,       \* the HEAD of each clone (0: not cloned)
    source,     \* the normative sources in each worktree
    disk,       \* the artifacts in each worktree
    pc, stage, exit, mem,       \* the runs
    edits,      \* edits made so far
    resolved,   \* history: runs that resolved the split of their phase
    tainted     \* history: runs whose sources changed before they were digested

repository == <<commits, public, tags, head, source>>
control == <<pc, stage, exit>>
vars == <<repository, disk, control, mem, edits, resolved, tainted>>

\* The registration commit, with the selection-protocol tag published.
Untracked == [f \in Files |-> Content(AbsentFile(NoBody))]

Init ==
    /\ commits = <<[source |-> "frozen", files |-> Untracked, line |-> {1}]>>
    /\ public = [p \in Phases |-> IF p = "selection" THEN 1 ELSE 0]
    /\ tags = [c \in Clones |-> public]
    /\ head = [c \in Clones |-> 0]
    /\ source = [c \in Clones |-> "frozen"]
    /\ disk = [c \in Clones |-> [f \in Files |-> AbsentFile(NoBody)]]
    /\ pc = [r \in Runs |-> "idle"]
    /\ stage = [r \in Runs |-> "open"]
    /\ exit = [r \in Runs |-> "none"]
    /\ mem = [r \in Runs |-> NoLocals]
    /\ edits = 0
    /\ resolved = {}
    /\ tainted = {}

-----------------------------------------------------------------------------
(***************************************************************************)
(* Git, as the runner and the verifier ask it.                             *)
(***************************************************************************)
Committed(c, f) == commits[head[c]].files[f]
Unmodified(c, f) == Content(disk[c][f]) = Committed(c, f)

\* git status names nothing but untracked files among those allowed.
CleanExcept(c, allowed) ==
    /\ source[c] = commits[head[c]].source
    /\ \A f \in Files :
           \/ Unmodified(c, f)
           \/ f \in allowed /\ Committed(c, f).form = "absent"

\* The phase's tag is this commit, here and on origin.
PublicTag(c, phase, commit) == tags[c][phase] = commit /\ public[phase] = commit

\* implementation_sha256_at_commit and registration_sha256_at_commit.
RecordedAtCommit(body) ==
    /\ body.commit \in DOMAIN commits
    /\ commits[body.commit].source = body.source

-----------------------------------------------------------------------------
(***************************************************************************)
(* What the runner and the verifier accept.                                *)
(***************************************************************************)
\* compute_confidence_and_verdict: a phase passes if every gate does.
Verdict(measured) == measured

\* A marker's own fields: its digests are those of its execution commit.
AttemptVerified(body) == body.run # None /\ RecordedAtCommit(body)

\* The result belongs to the marker in the same worktree.
MarkerLinked(c, phase, body) ==
    LET marker == disk[c][Attempt(phase)] IN
        /\ Readable(marker) /\ AttemptVerified(marker.body)
        /\ marker.body = [body EXCEPT !.measured = FALSE, !.pass = FALSE]

\* The records of the blocks agree with the baselines, with themselves and with
\* the aggregate, and the recorded verdict is the one they give.
VerdictRecomputed(body) == body.pass = Verdict(body.measured)

\* verify_phase_result
PhaseVerified(c, phase, body) ==
    /\ Registration(body.source) = Registration(source[c])
    /\ RecordedAtCommit(body)
    /\ (phase = "holdout") = (body.selection # None)
    /\ MarkerLinked(c, phase, body)
    /\ VerdictRecomputed(body)

\* Mutant: the verdict of the selection is not looked at.
PretestFrozenAnyVerdict(c, commit) ==
    LET selection == disk[c][Result("selection")] IN
        /\ Readable(selection)
        /\ PhaseVerified(c, "selection", selection.body)
        /\ PublicTag(c, "holdout", commit)
        /\ selection.body.commit \in commits[commit].line

\* _require_public_pretest_freeze, on the worktree's selection artifacts.
PretestFrozen(c, commit) ==
    LET selection == disk[c][Result("selection")] IN
        /\ Readable(selection)
        /\ PhaseVerified(c, "selection", selection.body)
        /\ selection.body.pass
        /\ PublicTag(c, "holdout", commit)
        /\ selection.body.commit \in commits[commit].line
        /\ \A f \in {Result("selection"), Attempt("selection")} :
               Content(disk[c][f]) = commits[commit].files[f]

-----------------------------------------------------------------------------
(***************************************************************************)
(* The steps of a run.                                                     *)
(***************************************************************************)
Running(r) == pc[r] \notin {"idle", "ended"}
Here(r) == mem[r].clone
File(r, name) == disk[Here(r)][<<mem[r].phase, name>>]
Goto(r, label) == pc' = [pc EXCEPT ![r] = label]

\* What a run that ended without a result leaves of itself.
Forget(runs) ==
    /\ mem' = [r \in Runs |-> IF r \in runs \ resolved THEN NoLocals ELSE mem[r]]
    /\ stage' = [r \in Runs |-> IF r \in runs THEN "open" ELSE stage[r]]
    /\ tainted' = tainted \ (runs \ resolved)

Pass(r, label, locals) ==
    /\ Goto(r, label)
    /\ mem' = [mem EXCEPT ![r] = locals]
    /\ UNCHANGED <<repository, disk, stage, exit, edits, resolved, tainted>>

\* _bootstrap_before_repository_imports, run by the script itself: a clean
\* worktree at the phase's public tag.  One that fails leaves nothing behind.
Bootstrap(r) ==
    /\ pc[r] = "idle"
    /\ \E c \in Clones, p \in Phases :
           /\ head[c] # 0
           /\ CleanExcept(c, {})
           /\ PublicTag(c, p, head[c])
           /\ Pass(r, "load", [clone |-> c, phase |-> p, loaded |-> {source[c]},
                               body |-> [NoBody EXCEPT !.commit = head[c]]])

\* The imports below the bootstrap read the worktree's sources; its registration
\* must be the one the loaded runner was built with, and neither artifact exist.
Load(r) ==
    /\ pc[r] = "load"
    /\ LET loaded == mem[r].loaded \cup {source[Here(r)]} IN
           /\ \A version \in loaded :
                  Registration(version) = Registration(source[Here(r)])
           /\ ~Present(File(r, "result")) /\ ~Present(File(r, "attempt"))
           /\ Pass(r, "digest", [mem[r] EXCEPT !.loaded = loaded])

\* A clean HEAD, the bootstrap's commit, and digests equal to that commit's.
DigestSources(r) ==
    /\ pc[r] = "digest"
    /\ CleanExcept(Here(r), {})
    /\ head[Here(r)] = mem[r].body.commit
    /\ commits[mem[r].body.commit].source = source[Here(r)]
    /\ Pass(r, "freeze", [mem[r] EXCEPT !.body.source = source[Here(r)]])

RequirePublicFreeze(r) ==
    /\ pc[r] = "freeze"
    /\ IF mem[r].phase = "selection"
       THEN /\ PublicTag(Here(r), "selection", mem[r].body.commit)
            /\ Pass(r, "attempt", [mem[r] EXCEPT !.body.run = r])
       ELSE /\ PretestFrozen(Here(r), mem[r].body.commit)
            /\ Pass(r, "attempt",
                    [mem[r] EXCEPT !.body.run = r, !.body.selection =
                        disk[Here(r)][Result("selection")].body.run])

\* _exclusive_write, one step for each of its four system calls.
ExclusiveWrite(r, name, next, code) ==
    LET f == <<mem[r].phase, name>>
        Put(file) == disk' = [disk EXCEPT ![Here(r)][f] = file]
        Step(from, to, file) ==
            /\ stage[r] = from
            /\ stage' = [stage EXCEPT ![r] = to]
            /\ Put(file)
            /\ UNCHANGED <<pc, exit>>
    IN  /\ \/ Creatable(File(r, name)) /\ Step("open", "write", Created(mem[r].body))
           \/ Step("write", "fsync", Filled(File(r, name)))
           \/ Step("fsync", "dirsync", Synced(File(r, name)))
           \/ /\ stage[r] = "dirsync"
              /\ stage' = [stage EXCEPT ![r] = "open"]
              /\ disk' = [disk EXCEPT ![Here(r)] =
                             [g \in Files |-> Entered(disk[Here(r)][g])]]
              /\ Goto(r, next)
              /\ exit' = [exit EXCEPT ![r] = code]
        /\ UNCHANGED <<repository, mem, edits, resolved, tainted>>

CreateAttemptMarker(r) ==
    /\ pc[r] = "attempt"
    /\ ExclusiveWrite(r, "attempt", "resolve", "none")

\* The marker's file is hashed again, then the phase's split is resolved.
ResolveModelAndSplit(r) ==
    /\ pc[r] = "resolve"
    /\ Readable(File(r, "attempt")) /\ File(r, "attempt").body = mem[r].body
    /\ resolved' = resolved \cup {r}
    /\ Goto(r, "evaluate")
    /\ UNCHANGED <<repository, disk, stage, exit, mem, edits, tainted>>

\* _assert_execution_unchanged, called once before the result is built and
\* once before it is written.
ExecutionUnchanged(r) ==
    /\ CleanExcept(Here(r), {<<mem[r].phase, "attempt">>})
    /\ head[Here(r)] = mem[r].body.commit
    /\ source[Here(r)] = mem[r].body.source
    /\ RecordedAtCommit(mem[r].body)
    /\ Readable(File(r, "attempt"))
    /\ File(r, "attempt").body =
           [mem[r].body EXCEPT !.measured = FALSE, !.pass = FALSE]
    /\ ~Present(File(r, "result"))

\* The blocks are evaluated, the gates computed, and the execution found
\* unchanged.
EvaluatePhase(r) ==
    /\ pc[r] = "evaluate"
    /\ ExecutionUnchanged(r)
    /\ \E measured \in BOOLEAN :
           Pass(r, "verify", [mem[r] EXCEPT !.body.measured = measured,
                                            !.body.pass = Verdict(measured)])

VerifyComputedResult(r) ==
    /\ pc[r] = "verify"
    /\ PhaseVerified(Here(r), mem[r].phase, mem[r].body)
    /\ ExecutionUnchanged(r)
    /\ Pass(r, "result", mem[r])

\* Mutant: a failed phase reports a status of its own.
ExitCodeThree(body) == IF body.pass THEN "0" ELSE "3"

\* main: 0 for a recorded pass, 2 for a recorded failure.
ExitCode(body) == IF body.pass THEN "0" ELSE "2"

WriteVerifiedResult(r) ==
    /\ pc[r] = "result"
    /\ ExclusiveWrite(r, "result", "ended", ExitCode(mem[r].body))

\* An exception, raised by a check above that does not hold or by any call:
\* main reports 1 and writes nothing.  A kill leaves the same files behind and
\* reports less.  A run that resolved nothing is forgotten.
Raise(r) ==
    /\ Running(r)
    /\ Goto(r, "ended")
    /\ exit' = [exit EXCEPT ![r] = "1"]
    /\ Forget({r})
    /\ UNCHANGED <<repository, disk, edits, resolved>>

-----------------------------------------------------------------------------
(***************************************************************************)
(* The operator and the machine.                                           *)
(***************************************************************************)
Clone(c) ==
    /\ head[c] = 0
    /\ \E p \in Phases :
           /\ public[p] # 0
           /\ head' = [head EXCEPT ![c] = public[p]]
           /\ source' = [source EXCEPT ![c] = commits[public[p]].source]
           /\ tags' = [tags EXCEPT ![c] = public]
           /\ disk' = [disk EXCEPT ![c] =
                         [f \in Files |-> Fresh(commits[public[p]].files[f])]]
    /\ UNCHANGED <<commits, public, control, mem, edits, resolved, tainted>>

\* An edit of the sources before a run has digested them taints it.
Edit(c) ==
    /\ head[c] # 0 /\ edits < MaxEdits
    /\ edits' = edits + 1
    /\ \E version \in Sources \ {source[c]} :
           source' = [source EXCEPT ![c] = version]
    /\ tainted' = tainted \cup
           {r \in Runs : Here(r) = c /\ pc[r] \in
                             {"load", "digest"}}
    /\ UNCHANGED <<commits, public, tags, head, disk, control, mem, resolved>>

\* Everything in the worktree is committed, at a moment when no run is inside
\* the write of a file.
Commit(c) ==
    /\ head[c] # 0 /\ Len(commits) < MaxCommits
    /\ \A r \in Runs : stage[r] = "open"
    /\ ~CleanExcept(c, {})
    /\ commits' = Append(commits,
           [source |-> source[c],
            files |-> [f \in Files |-> Content(disk[c][f])],
            line |-> commits[head[c]].line \cup {Len(commits) + 1}])
    /\ head' = [head EXCEPT ![c] = Len(commits) + 1]
    /\ UNCHANGED <<public, tags, source, disk, control, mem, edits, resolved, tainted>>

\* A tag is set in a clone and pushed, or the push fails.
Tag(c, phase) ==
    /\ head[c] # 0 /\ tags[c][phase] = 0
    /\ tags' = [tags EXCEPT ![c][phase] = head[c]]
    /\ \/ UNCHANGED public
       \/ public[phase] = 0 /\ public' = [public EXCEPT ![phase] = head[c]]
    /\ UNCHANGED <<commits, head, source, disk, control, mem, edits,
                   resolved, tainted>>

\* Every run dies; each clone keeps what was synced.  Git's own objects and
\* the files of a finished clone are taken to be on the medium.
PowerLoss ==
    LET losable == UNION {{c} \X Losable(disk[c]) : c \in Clones}
        tearable == UNION {{c} \X Tearable(disk[c]) : c \in Clones}
        Of(c, pairs) == {f \in Files : <<c, f>> \in pairs}
    IN  /\ losable \cup tearable # {}
        /\ \E lost \in SUBSET losable : \E torn \in SUBSET (tearable \ lost) :
               disk' = [c \in Clones |->
                   AfterPowerLoss(disk[c], NoBody, Of(c, lost), Of(c, torn))]
        /\ pc' = [r \in Runs |-> IF Running(r) THEN "ended" ELSE pc[r]]
        /\ exit' = [r \in Runs |-> IF Running(r) THEN "1" ELSE exit[r]]
        /\ Forget({r \in Runs : Running(r)})
        /\ UNCHANGED <<repository, edits, resolved>>

RunPhase(r) ==
    \/ Bootstrap(r) \/ Load(r) \/ DigestSources(r)
    \/ RequirePublicFreeze(r) \/ CreateAttemptMarker(r)
    \/ ResolveModelAndSplit(r) \/ EvaluatePhase(r)
    \/ VerifyComputedResult(r) \/ WriteVerifiedResult(r)

Operator(c) ==
    \/ Clone(c) \/ Edit(c) \/ Commit(c)
    \/ \E p \in Phases : Tag(c, p)

Next ==
    \/ \E r \in Runs : RunPhase(r) \/ Raise(r)
    \/ \E c \in Clones : Operator(c)
    \/ PowerLoss

Spec == Init /\ [][Next]_vars
=============================================================================
