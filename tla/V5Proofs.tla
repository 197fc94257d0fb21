------------------------------ MODULE V5Proofs ------------------------------
(***************************************************************************)
(* Theorems about the frozen V5 suite, for any number of runs and clones,  *)
(* any history of commits and tags, and any kills and power losses.        *)
(***************************************************************************)
EXTENDS V5Evidence, TLAPS

(***************************************************************************)
(* The inductive invariant, by what each part speaks of.                   *)
(***************************************************************************)
Labels == {"idle", "load", "digest", "freeze", "attempt", "resolve", "evaluate",
           "verify", "result", "ended"}
Stages == {"open", "write", "fsync", "dirsync"}
Versions == [source: Sources, files: [Files -> Contents], line: SUBSET (1..MaxCommits)]
History == 1..Len(commits)

\* Every variable has its type; a tag and a HEAD name commits of the history.
TypeInv ==
    /\ commits \in Seq(Versions) /\ Len(commits) \in 1..MaxCommits
    /\ public \in [Phases -> {0} \cup History]
    /\ tags \in [Clones -> [Phases -> {0} \cup History]]
    /\ head \in [Clones -> {0} \cup History]
    /\ source \in [Clones -> Sources]
    /\ disk \in [Clones -> [Files -> FileStates(Bodies)]]
    /\ pc \in [Runs -> Labels]
    /\ stage \in [Runs -> Stages]
    /\ exit \in [Runs -> {"none", "0", "1", "2"}]
    /\ mem \in [Runs -> Locals]
    /\ resolved \subseteq Runs /\ tainted \subseteq Runs

\* A run that holds a body: it is under way, or it has resolved its split.
Started(r) == pc[r] \notin {"idle", "ended"} \/ r \in resolved
\* Such a run once the freeze it runs under is known to be public.
Admitted(r) == pc[r] \in {"attempt", "resolve"} \/ r \in resolved

\* Where a run can be, and what it knows of the clone and of its commit.
RunInv ==
    \A r \in Runs :
        /\ stage[r] # "open" => pc[r] \in {"attempt", "result"}
        /\ r \in resolved => pc[r] \in {"evaluate", "verify", "result", "ended"}
        /\ pc[r] \in {"evaluate", "verify", "result"} => r \in resolved
        /\ exit[r] \in {"0", "2"} => pc[r] = "ended"
        /\ Started(r) => /\ Here(r) \in Clones /\ head[Here(r)] # 0
                         /\ public[mem[r].phase] # 0
                         /\ mem[r].body.commit = public[mem[r].phase]
        /\ Admitted(r) => mem[r].body.run = r

\* A file that a run is writing is its own, and as far as its stage says.
WriteInv ==
    \A r \in Runs : stage[r] # "open" =>
        /\ File(r, pc[r]).body = mem[r].body
        /\ File(r, pc[r]).form = IF stage[r] = "write" THEN "partial" ELSE "whole"
        /\ stage[r] = "dirsync" => File(r, pc[r]).data

\* A run that is about to resolve its split, or has, left a permanent marker.
MarkerInv ==
    \A r \in Runs : pc[r] = "resolve" \/ r \in resolved =>
        /\ Settled(File(r, "attempt")) /\ Readable(File(r, "attempt"))
        /\ File(r, "attempt").body.run = r

\* A run that reported a verdict left a permanent result that says the same.
ExitInv ==
    \A r \in Runs : exit[r] \in {"0", "2"} =>
        /\ r \in resolved
        /\ Settled(File(r, "result")) /\ Readable(File(r, "result"))
        /\ File(r, "result").body = mem[r].body
        /\ exit[r] = ExitCode(mem[r].body)

\* A result of a phase, in a worktree or in a commit, holds what a run that
\* resolved the split of that phase has in its memory.
HeldBy(phase, body) ==
    /\ body.run \in resolved
    /\ pc[body.run] \in {"result", "ended"}
    /\ mem[body.run].phase = phase
    /\ mem[body.run].body = body
ResultInv ==
    \A p \in Phases :
        /\ \A c \in Clones : LET file == disk[c][Result(p)] IN
               file.form # "absent" => HeldBy(p, file.body)
        /\ \A i \in DOMAIN commits : LET file == commits[i].files[Result(p)] IN
               file.form # "absent" => HeldBy(p, file.body)

\* A holdout run is admitted behind a published selection that passed.
SelectionOf(body) ==
    LET selection == commits[public["holdout"]].files[Result("selection")] IN
        /\ public["holdout"] # 0
        /\ selection.form = "whole" /\ selection.body.pass
        /\ selection.body.run = body.selection
        /\ selection.body.commit \in commits[public["holdout"]].line
HoldoutInv ==
    \A r \in Runs :
        Admitted(r) /\ mem[r].phase = "holdout" => SelectionOf(mem[r].body)

\* What an untainted run has loaded is what it digests.
LoadedInv ==
    \A r \in Runs : r \notin tainted =>
        /\ pc[r] \in {"load", "digest"} => mem[r].loaded = {source[Here(r)]}
        /\ pc[r] = "freeze" \/ Admitted(r) => mem[r].loaded = {mem[r].body.source}

IInv == TypeInv /\ RunInv /\ WriteInv /\ MarkerInv /\ ExitInv /\ ResultInv
        /\ HoldoutInv /\ LoadedInv

(***************************************************************************)
(* Type correctness.                                                       *)
(***************************************************************************)
\* The empty body, variables and file are well typed, and the phases' files
\* are files.
LEMMA Constants ==
    /\ NoBody \in Bodies /\ NoLocals \in Locals
    /\ AbsentFile(NoBody) \in FileStates(Bodies)
    /\ \A p \in Phases : Attempt(p) \in Files /\ Result(p) \in Files
    /\ Untracked \in [Files -> Contents]
  <1>1. NoBody \in Bodies
    BY V5Assumption DEF NoBody, Bodies
  <1>2. NoLocals \in Locals
    BY <1>1 DEF NoLocals, Locals, Phases
  <1>3. AbsentFile(NoBody) \in FileStates(Bodies)
    BY <1>1 DEF AbsentFile, FileStates, Forms
  <1>4. Content(AbsentFile(NoBody)) \in Contents
    BY <1>3 DEF Content, Contents, FileStates
  <1> QED
    BY <1>1, <1>2, <1>3, <1>4 DEF Files, Attempt, Result, Phases, Untracked

\* The steps of _exclusive_write keep a file's record well formed.
LEMMA FileTypes ==
    ASSUME NEW file \in FileStates(Bodies), NEW body \in Bodies
    PROVE  /\ Created(body) \in FileStates(Bodies)
           /\ Filled(file) \in FileStates(Bodies)
           /\ Synced(file) \in FileStates(Bodies)
           /\ Entered(file) \in FileStates(Bodies)
           /\ Content(file) \in Contents
  BY DEF FileStates, Forms, Created, Filled, Synced, Entered, Present, Content, Contents

\* A checked out file is well formed.
LEMMA FreshType ==
    ASSUME NEW content \in Contents
    PROVE  Fresh(content) \in FileStates(Bodies)
  BY DEF Fresh, Contents, FileStates

\* The version at a commit of the history.
LEMMA VersionType ==
    ASSUME TypeInv, NEW i \in History
    PROVE  /\ commits[i] \in Versions
           /\ commits[i].source \in Sources
           /\ commits[i].files \in [Files -> Contents]
           /\ commits[i].line \subseteq 1..MaxCommits
           /\ i \in DOMAIN commits /\ i \in 1..MaxCommits
  <1>1. commits \in Seq(Versions) /\ Len(commits) \in Nat /\ Len(commits) <= MaxCommits
    BY V5Assumption DEF TypeInv
  <1>2. i \in DOMAIN commits /\ i \in 1..MaxCommits
    BY <1>1, V5Assumption DEF History
  <1>3. commits[i] \in Versions
    BY <1>1, <1>2
  <1> QED
    BY <1>2, <1>3 DEF Versions

\* The clone and the phase of a run that has started.
LEMMA StartedType ==
    ASSUME TypeInv, RunInv, NEW r \in Runs, Started(r)
    PROVE  /\ Here(r) \in Clones /\ mem[r].phase \in Phases
           /\ disk[Here(r)] \in [Files -> FileStates(Bodies)]
           /\ \A name \in {"attempt", "result"} :
                  /\ <<mem[r].phase, name>> \in Files
                  /\ File(r, name) \in FileStates(Bodies)
           /\ public[mem[r].phase] \in History
           /\ mem[r].body \in Bodies
  <1>1. Here(r) \in Clones /\ public[mem[r].phase] # 0
    BY DEF RunInv
  <1>2. mem[r] \in Locals
    BY DEF TypeInv
  <1>3. mem[r].phase \in Phases /\ mem[r].body \in Bodies
    BY <1>2 DEF Locals
  <1>4. disk[Here(r)] \in [Files -> FileStates(Bodies)]
    BY <1>1 DEF TypeInv
  <1>5. public[mem[r].phase] \in History
    BY <1>1, <1>3 DEF TypeInv
  <1>6. \A name \in {"attempt", "result"} : <<mem[r].phase, name>> \in Files
    BY <1>3 DEF Files
  <1>7. \A name \in {"attempt", "result"} : File(r, name) \in FileStates(Bodies)
    BY <1>4, <1>6 DEF File
  <1> QED
    BY <1>1, <1>3, <1>4, <1>5, <1>6, <1>7

\* A step that only fills a run's variables, with well-typed values.
LEMMA PassType ==
    ASSUME TypeInv, NEW r \in Runs, NEW label \in Labels, NEW locals \in Locals,
           Pass(r, label, locals)
    PROVE  TypeInv'
  BY DEF TypeInv, Pass, Goto, repository, History

\* The steps of a run that touch no file.
LEMMA CheckType ==
    ASSUME TypeInv, RunInv, NEW r \in Runs,
           \/ Bootstrap(r) \/ Load(r) \/ DigestSources(r) \/ RequirePublicFreeze(r)
           \/ EvaluatePhase(r) \/ VerifyComputedResult(r)
    PROVE  TypeInv'
  <1>1. mem[r] \in Locals /\ mem[r].body \in Bodies /\ mem[r].loaded \in SUBSET Sources
    BY DEF TypeInv, Locals
  <1>2. \A c \in Clones : source[c] \in Sources
    BY DEF TypeInv
  <1>3. CASE Bootstrap(r)
    <2>1. PICK c \in Clones, p \in Phases :
            Pass(r, "load", [clone |-> c, phase |-> p, loaded |-> {source[c]},
                             body |-> [NoBody EXCEPT !.commit = head[c]]])
      BY <1>3 DEF Bootstrap
    <2>2. head[c] \in 0..MaxCommits
      BY V5Assumption DEF TypeInv, History
    <2>3. [NoBody EXCEPT !.commit = head[c]] \in Bodies
      BY <2>2, Constants DEF Bodies
    <2> QED
      BY <1>2, <2>1, <2>3, PassType DEF Labels, Locals
  <1> SUFFICES ASSUME ~Bootstrap(r) PROVE TypeInv'
    BY <1>3
  <1>4. Here(r) \in Clones
    BY DEF RunInv, Started, Load, DigestSources, RequirePublicFreeze, EvaluatePhase,
           VerifyComputedResult
  <1>5. CASE Load(r)
    BY <1>1, <1>2, <1>4, <1>5, PassType DEF Load, Labels, Locals
  <1>6. CASE DigestSources(r)
    <2>1. [mem[r] EXCEPT !.body.source = source[Here(r)]] \in Locals
      BY <1>1, <1>2, <1>4 DEF Locals, Bodies
    <2> QED
      BY <1>6, <2>1, PassType DEF DigestSources, Labels
  <1>7. CASE RequirePublicFreeze(r)
    <2>1. disk[Here(r)][Result("selection")].body.run \in Runs \cup {None}
      BY <1>4, Constants DEF TypeInv, FileStates, Bodies, Phases
    <2>2. /\ [mem[r] EXCEPT !.body.run = r] \in Locals
          /\ [mem[r] EXCEPT !.body.run = r, !.body.selection =
                 disk[Here(r)][Result("selection")].body.run] \in Locals
      BY <1>1, <2>1 DEF Locals, Bodies
    <2> QED
      BY <1>7, <2>2, PassType DEF RequirePublicFreeze, Labels
  <1>8. CASE EvaluatePhase(r)
    <2>1. PICK measured \in BOOLEAN :
            Pass(r, "verify", [mem[r] EXCEPT !.body.measured = measured,
                                             !.body.pass = Verdict(measured)])
      BY <1>8 DEF EvaluatePhase
    <2>2. [mem[r] EXCEPT !.body.measured = measured,
                         !.body.pass = Verdict(measured)] \in Locals
      BY <1>1 DEF Locals, Bodies, Verdict
    <2> QED
      BY <2>1, <2>2, PassType DEF Labels
  <1>9. CASE VerifyComputedResult(r)
    BY <1>1, <1>9, PassType DEF VerifyComputedResult, Labels
  <1> QED
    BY <1>5, <1>6, <1>7, <1>8, <1>9

\* One step of _exclusive_write: where it leaves the run and its file.  The
\* run is past its bootstrap, so its clone exists.
LEMMA WriteCases ==
    ASSUME NEW r \in Runs, NEW name, NEW next, NEW code,
           ExclusiveWrite(r, name, next, code)
    PROVE  LET f == <<mem[r].phase, name>>
               c == Here(r)
               Put(file) == disk' = [disk EXCEPT ![c][f] = file]
           IN  /\ UNCHANGED <<repository, mem, edits, resolved, tainted>>
               /\ \/ /\ stage[r] = "open" /\ stage' = [stage EXCEPT ![r] = "write"]
                     /\ ~Present(disk[c][f]) /\ Put(Created(mem[r].body))
                     /\ UNCHANGED <<pc, exit>>
                  \/ /\ stage[r] = "write" /\ stage' = [stage EXCEPT ![r] = "fsync"]
                     /\ Put(Filled(disk[c][f])) /\ UNCHANGED <<pc, exit>>
                  \/ /\ stage[r] = "fsync" /\ stage' = [stage EXCEPT ![r] = "dirsync"]
                     /\ Put(Synced(disk[c][f])) /\ UNCHANGED <<pc, exit>>
                  \/ /\ stage[r] = "dirsync" /\ stage' = [stage EXCEPT ![r] = "open"]
                     /\ disk' = [disk EXCEPT ![c] =
                                    [g \in Files |-> Entered(disk[c][g])]]
                     /\ pc' = [pc EXCEPT ![r] = next]
                     /\ exit' = [exit EXCEPT ![r] = code]
  BY DEF ExclusiveWrite, File, Creatable, Goto

\* It keeps every type.
LEMMA WriteType ==
    ASSUME TypeInv, RunInv, NEW r \in Runs, Started(r),
           NEW name \in {"attempt", "result"}, NEW next \in Labels,
           NEW code \in {"none", "0", "1", "2"},
           ExclusiveWrite(r, name, next, code)
    PROVE  TypeInv'
  <1> DEFINE f == <<mem[r].phase, name>>
             c == Here(r)
             Put(file) == disk' = [disk EXCEPT ![c][f] = file]
  <1>1. c \in Clones /\ f \in Files /\ mem[r].body \in Bodies
    BY StartedType
  <1>2. \A g \in Files : disk[c][g] \in FileStates(Bodies)
    BY <1>1 DEF TypeInv
  <1>3. disk' \in [Clones -> [Files -> FileStates(Bodies)]]
    <2>1. ASSUME NEW file \in FileStates(Bodies), Put(file)
          PROVE  disk' \in [Clones -> [Files -> FileStates(Bodies)]]
      BY <1>1, <2>1 DEF TypeInv
    <2>2. CASE disk' = [disk EXCEPT ![c] = [g \in Files |-> Entered(disk[c][g])]]
      <3>1. [g \in Files |-> Entered(disk[c][g])] \in [Files -> FileStates(Bodies)]
        BY <1>1, <1>2, FileTypes
      <3> QED
        BY <2>2, <3>1 DEF TypeInv
    <2>3. /\ Created(mem[r].body) \in FileStates(Bodies)
          /\ Filled(disk[c][f]) \in FileStates(Bodies)
          /\ Synced(disk[c][f]) \in FileStates(Bodies)
      BY <1>1, <1>2, FileTypes
    <2> QED
      BY <2>1, <2>2, <2>3, WriteCases
  <1>4. stage' \in [Runs -> Stages] /\ pc' \in [Runs -> Labels]
        /\ exit' \in [Runs -> {"none", "0", "1", "2"}]
    <2>1. stage' \in [Runs -> Stages]
      BY WriteCases DEF TypeInv, Stages
    <2>2. UNCHANGED <<pc, exit>> \/ (pc' = [pc EXCEPT ![r] = next] /\ exit' = [exit EXCEPT ![r] = code])
      BY DEF ExclusiveWrite, Goto
    <2> QED
      BY <2>1, <2>2 DEF TypeInv
  <1> QED
    BY <1>3, <1>4, WriteCases DEF TypeInv, repository, History

\* The end of runs, with what they leave of themselves.
LEMMA ForgetType ==
    ASSUME TypeInv, NEW runs \in SUBSET Runs, Forget(runs)
    PROVE  /\ mem' \in [Runs -> Locals] /\ stage' \in [Runs -> Stages]
           /\ tainted' \subseteq Runs
  BY Constants DEF TypeInv, Forget, Stages

\* A power loss, whatever it loses or tears, keeps a disk well formed.
LEMMA AfterPowerLossType ==
    ASSUME NEW files \in [Files -> FileStates(Bodies)], NEW lost, NEW torn
    PROVE  AfterPowerLoss(files, NoBody, lost, torn) \in [Files -> FileStates(Bodies)]
  BY Constants DEF AfterPowerLoss, FileStates, Forms

\* What a power loss does to each clone.
LEMMA PowerLossDisk ==
    ASSUME TypeInv, PowerLoss, NEW c \in Clones
    PROVE  \E lost \in SUBSET Losable(disk[c]), torn \in SUBSET Tearable(disk[c]) :
               disk'[c] = AfterPowerLoss(disk[c], NoBody, lost, torn)
  <1> DEFINE losable == UNION {{d} \X Losable(disk[d]) : d \in Clones}
             tearable == UNION {{d} \X Tearable(disk[d]) : d \in Clones}
             Of(d, pairs) == {f \in Files : <<d, f>> \in pairs}
  <1>1. \E lost \in SUBSET losable : \E torn \in SUBSET (tearable \ lost) :
            disk' = [d \in Clones |->
                AfterPowerLoss(disk[d], NoBody, Of(d, lost), Of(d, torn))]
    BY Zenon DEF PowerLoss
  <1>2. PICK lost \in SUBSET losable : \E torn \in SUBSET (tearable \ lost) :
            disk' = [d \in Clones |->
                AfterPowerLoss(disk[d], NoBody, Of(d, lost), Of(d, torn))]
    BY <1>1, Zenon
  <1>3. PICK torn \in SUBSET (tearable \ lost) :
            disk' = [d \in Clones |->
                AfterPowerLoss(disk[d], NoBody, Of(d, lost), Of(d, torn))]
    BY <1>2, Zenon
  <1>4. Of(c, lost) \subseteq Losable(disk[c])
    OBVIOUS
  <1>5. Of(c, torn) \subseteq Tearable(disk[c])
    OBVIOUS
  <1>6. disk'[c] = AfterPowerLoss(disk[c], NoBody, Of(c, lost), Of(c, torn))
    BY <1>3, Zenon
  <1> QED
    BY <1>4, <1>5, <1>6

\* The steps that write, raise or resolve.
LEMMA RunType ==
    ASSUME TypeInv, RunInv, NEW r \in Runs,
           \/ CreateAttemptMarker(r) \/ ResolveModelAndSplit(r)
           \/ WriteVerifiedResult(r) \/ Raise(r)
    PROVE  TypeInv'
  <1>1. CASE CreateAttemptMarker(r)
    BY <1>1, WriteType DEF CreateAttemptMarker, Started, Labels
  <1>2. CASE WriteVerifiedResult(r)
    <2>1. ExitCode(mem[r].body) \in {"none", "0", "1", "2"}
      BY DEF ExitCode
    <2> QED
      BY <1>2, <2>1, WriteType DEF WriteVerifiedResult, Started, Labels
  <1>3. CASE ResolveModelAndSplit(r)
    BY <1>3 DEF ResolveModelAndSplit, Goto, TypeInv, Labels, repository, History
  <1>4. CASE Raise(r)
    BY <1>4, ForgetType DEF Raise, Goto, TypeInv, Labels, repository, History
  <1> QED
    BY <1>1, <1>2, <1>3, <1>4

\* The operator's steps: a history that grows keeps what names its commits.
LEMMA OperatorType ==
    ASSUME TypeInv, NEW c \in Clones, Operator(c)
    PROVE  TypeInv'
  <1>1. CASE Clone(c)
    <2>1. PICK p \in Phases :
            /\ public[p] # 0
            /\ head' = [head EXCEPT ![c] = public[p]]
            /\ source' = [source EXCEPT ![c] = commits[public[p]].source]
            /\ tags' = [tags EXCEPT ![c] = public]
            /\ disk' = [disk EXCEPT ![c] =
                          [f \in Files |-> Fresh(commits[public[p]].files[f])]]
      BY <1>1 DEF Clone
    <2>2. public[p] \in History
      BY <2>1 DEF TypeInv
    <2>3. /\ commits[public[p]].source \in Sources
          /\ \A f \in Files : commits[public[p]].files[f] \in Contents
      BY <2>2, VersionType
    <2>4. [f \in Files |-> Fresh(commits[public[p]].files[f])]
              \in [Files -> FileStates(Bodies)]
      BY <2>3, FreshType
    <2> QED
      BY <1>1, <2>1, <2>2, <2>3, <2>4 DEF Clone, TypeInv, control, History
  <1>2. CASE Edit(c)
    BY <1>2 DEF Edit, TypeInv, control, History
  <1>3. CASE Commit(c)
    <2> DEFINE version ==
            [source |-> source[c],
             files |-> [f \in Files |-> Content(disk[c][f])],
             line |-> commits[head[c]].line \cup {Len(commits) + 1}]
    <2>1. head[c] \in History
      BY <1>3 DEF Commit, TypeInv
    <2>2. Len(commits) + 1 \in 1..MaxCommits /\ Len(commits) \in Nat
      BY <1>3, V5Assumption DEF Commit, TypeInv
    <2>3. commits[head[c]].line \subseteq 1..MaxCommits
      BY <2>1, VersionType
    <2>4. \A f \in Files : Content(disk[c][f]) \in Contents
      BY Constants, FileTypes DEF TypeInv
    <2>5. version \in Versions
      BY <2>2, <2>3, <2>4 DEF Versions, TypeInv
    <2> HIDE DEF version
    <2>6. commits' = Append(commits, version)
      BY <1>3 DEF Commit, version
    <2>7. commits' \in Seq(Versions) /\ Len(commits') = Len(commits) + 1
      BY <2>5, <2>6 DEF TypeInv
    <2>8. History \subseteq History' /\ Len(commits) + 1 \in History'
      BY <2>2, <2>7 DEF History
    <2>9. head' \in [Clones -> {0} \cup History']
      BY <1>3, <2>8 DEF Commit, TypeInv
    <2>10. public' \in [Phases -> {0} \cup History']
      BY <1>3, <2>8 DEF Commit, TypeInv
    <2>11. tags' \in [Clones -> [Phases -> {0} \cup History']]
      BY <1>3, <2>8 DEF Commit, TypeInv
    <2> QED
      BY <1>3, <2>2, <2>7, <2>9, <2>10, <2>11 DEF Commit, TypeInv, control
  <1>4. ASSUME NEW p \in Phases, Tag(c, p) PROVE TypeInv'
    <2>1. head[c] \in History
      BY <1>4 DEF Tag, TypeInv
    <2> QED
      BY <1>4, <2>1 DEF Tag, TypeInv, control, History
  <1> QED
    BY <1>1, <1>2, <1>3, <1>4 DEF Operator

\* So does the power loss.
LEMMA PowerLossType ==
    ASSUME TypeInv, PowerLoss
    PROVE  TypeInv'
  <1>1. disk' \in [Clones -> [Files -> FileStates(Bodies)]]
    <2>1. DOMAIN disk' = Clones /\ disk' = [c \in Clones |-> disk'[c]]
      BY DEF PowerLoss
    <2>2. ASSUME NEW c \in Clones PROVE disk'[c] \in [Files -> FileStates(Bodies)]
      <3>1. PICK lost \in SUBSET Losable(disk[c]), torn \in SUBSET Tearable(disk[c]) :
                disk'[c] = AfterPowerLoss(disk[c], NoBody, lost, torn)
        BY PowerLossDisk
      <3>2. disk[c] \in [Files -> FileStates(Bodies)]
        BY DEF TypeInv
      <3> QED
        BY <3>1, <3>2, AfterPowerLossType
    <2> QED
      BY <2>1, <2>2
  <1>2. {r \in Runs : Running(r)} \in SUBSET Runs
    OBVIOUS
  <1> QED
    BY <1>1, <1>2, ForgetType DEF PowerLoss, TypeInv, Labels, repository, History

\* Every step keeps every type.
LEMMA StepType ==
    ASSUME TypeInv, RunInv, [Next]_vars
    PROVE  TypeInv'
  <1>1. CASE UNCHANGED vars
    BY <1>1 DEF vars, repository, control, TypeInv, History
  <1> QED
    BY <1>1, CheckType, RunType, OperatorType, PowerLossType DEF Next, RunPhase

(***************************************************************************)
(* Where a run can be.                                                     *)
(***************************************************************************)
\* What RunInv says of one run.
RunOK(r) ==
    /\ stage[r] # "open" => pc[r] \in {"attempt", "result"}
    /\ r \in resolved => pc[r] \in {"evaluate", "verify", "result", "ended"}
    /\ pc[r] \in {"evaluate", "verify", "result"} => r \in resolved
    /\ exit[r] \in {"0", "2"} => pc[r] = "ended"
    /\ Started(r) => /\ Here(r) \in Clones /\ head[Here(r)] # 0
                     /\ public[mem[r].phase] # 0
                     /\ mem[r].body.commit = public[mem[r].phase]
    /\ Admitted(r) => mem[r].body.run = r

\* A step that leaves a run, the HEADs that exist and the public tags alone
\* keeps it.
LEMMA RunFrame ==
    ASSUME TypeInv, RunInv, NEW r \in Runs,
           pc'[r] = pc[r], stage'[r] = stage[r], exit'[r] = exit[r], mem'[r] = mem[r],
           r \in resolved' <=> r \in resolved,
           \A c \in Clones : head[c] # 0 => head'[c] # 0,
           \A p \in Phases : public[p] # 0 => public'[p] = public[p]
    PROVE  RunOK(r)'
  <1>1. mem[r].phase \in Phases
    BY DEF TypeInv, Locals
  <1> QED
    BY <1>1 DEF RunInv, RunOK, Started, Admitted, Here

\* A check that passes keeps the run's clone, phase and commit, and its body once
\* the run is admitted, but for what was measured.
LEMMA CheckKeeps ==
    ASSUME TypeInv, NEW r \in Runs,
           \/ Load(r) \/ DigestSources(r) \/ RequirePublicFreeze(r)
           \/ EvaluatePhase(r) \/ VerifyComputedResult(r)
    PROVE  /\ Here(r)' = Here(r) /\ mem'[r].phase = mem[r].phase
           /\ mem'[r].body.commit = mem[r].body.commit
           /\ UNCHANGED <<repository, disk, stage, exit, edits, resolved, tainted>>
           /\ \A q \in Runs \ {r} : mem'[q] = mem[q] /\ pc'[q] = pc[q]
           /\ \/ Load(r) /\ pc[r] = "load" /\ pc'[r] = "digest"
              \/ DigestSources(r) /\ pc[r] = "digest" /\ pc'[r] = "freeze"
              \/ /\ RequirePublicFreeze(r) /\ pc[r] = "freeze" /\ pc'[r] = "attempt"
                 /\ mem'[r].body.run = r /\ mem'[r].loaded = mem[r].loaded
                 /\ mem'[r].body.source = mem[r].body.source
              \/ /\ \/ EvaluatePhase(r) /\ pc[r] = "evaluate" /\ pc'[r] = "verify"
                    \/ VerifyComputedResult(r) /\ pc[r] = "verify" /\ pc'[r] = "result"
                 /\ mem'[r].loaded = mem[r].loaded
                 /\ mem'[r].body.run = mem[r].body.run
                 /\ mem'[r].body.source = mem[r].body.source
                 /\ mem'[r].body.selection = mem[r].body.selection
  <1>1. mem[r] \in Locals /\ mem[r].body \in Bodies
    BY DEF TypeInv, Locals
  <1>2. CASE Load(r)
    BY <1>1, <1>2 DEF Load, Pass, Goto, TypeInv, Here, Locals, Bodies
  <1>3. CASE DigestSources(r)
    BY <1>1, <1>3 DEF DigestSources, Pass, Goto, TypeInv, Here, Locals, Bodies
  <1>4. CASE RequirePublicFreeze(r)
    <2>1. PICK selection : Pass(r, "attempt", [mem[r] EXCEPT !.body.run = r,
                                                   !.body.selection = selection])
      <3>1. mem[r].phase = "selection" => Pass(r, "attempt",
                [mem[r] EXCEPT !.body.run = r, !.body.selection = mem[r].body.selection])
        BY <1>1, <1>4 DEF RequirePublicFreeze, Locals, Bodies
      <3> QED
        BY <1>4, <3>1 DEF RequirePublicFreeze
    <2> DEFINE locals == [mem[r] EXCEPT !.body.run = r, !.body.selection = selection]
    <2>2. /\ locals.clone = mem[r].clone /\ locals.phase = mem[r].phase
          /\ locals.loaded = mem[r].loaded /\ locals.body.commit = mem[r].body.commit
          /\ locals.body.run = r /\ locals.body.source = mem[r].body.source
      BY <1>1 DEF Locals, Bodies
    <2>3. Pass(r, "attempt", locals)
      BY <2>1
    <2> HIDE DEF locals
    <2> QED
      BY <1>4, <2>2, <2>3 DEF RequirePublicFreeze, Pass, Goto, TypeInv, Here
  <1>5. CASE EvaluatePhase(r)
    <2>1. PICK measured \in BOOLEAN :
            Pass(r, "verify", [mem[r] EXCEPT !.body.measured = measured,
                                             !.body.pass = Verdict(measured)])
      BY <1>5 DEF EvaluatePhase
    <2> DEFINE locals == [mem[r] EXCEPT !.body.measured = measured,
                                        !.body.pass = Verdict(measured)]
    <2>2. /\ locals.clone = mem[r].clone /\ locals.phase = mem[r].phase
          /\ locals.loaded = mem[r].loaded /\ locals.body.commit = mem[r].body.commit
          /\ locals.body.run = mem[r].body.run /\ locals.body.source = mem[r].body.source
          /\ locals.body.selection = mem[r].body.selection
      BY <1>1 DEF Locals, Bodies
    <2>3. Pass(r, "verify", locals)
      BY <2>1
    <2> HIDE DEF locals
    <2> QED
      BY <1>5, <2>2, <2>3 DEF EvaluatePhase, Pass, Goto, TypeInv, Here
  <1>6. CASE VerifyComputedResult(r)
    BY <1>1, <1>6 DEF VerifyComputedResult, Pass, Goto, TypeInv, Here, Locals, Bodies
  <1> QED
    BY <1>2, <1>3, <1>4, <1>5, <1>6

\* The steps of one run keep RunInv.
LEMMA RunStepRun ==
    ASSUME TypeInv, RunInv, NEW r \in Runs, RunPhase(r) \/ Raise(r)
    PROVE  RunInv'
  <1>1. UNCHANGED <<head, public>>
    BY DEF RunPhase, Raise, Bootstrap, Load, DigestSources, RequirePublicFreeze,
           CreateAttemptMarker, ResolveModelAndSplit, EvaluatePhase, ExclusiveWrite,
           VerifyComputedResult, WriteVerifiedResult, Pass, repository
  <1>2. ASSUME NEW q \in Runs \ {r} PROVE RunOK(q)'
    <2>1. /\ pc'[q] = pc[q] /\ stage'[q] = stage[q] /\ exit'[q] = exit[q]
          /\ mem'[q] = mem[q] /\ (q \in resolved' <=> q \in resolved)
      BY DEF RunPhase, Raise, Bootstrap, Load, DigestSources, RequirePublicFreeze,
           CreateAttemptMarker, ResolveModelAndSplit, EvaluatePhase, ExclusiveWrite,
           VerifyComputedResult, WriteVerifiedResult, Pass, Goto, Forget, TypeInv
    <2> QED
      BY <1>1, <2>1, RunFrame
  <1>3. RunOK(r)'
    <2>1. CASE Bootstrap(r)
      BY <1>1, <2>1 DEF Bootstrap, PublicTag, Pass, Goto, TypeInv, RunInv, RunOK, Started,
         Admitted, Here, Running
    <2>2. CASE Load(r) \/ DigestSources(r)
      BY <1>1, <2>2, CheckKeeps DEF TypeInv, RunInv, RunOK, Started, Admitted, Here
    <2>3. CASE RequirePublicFreeze(r) \/ EvaluatePhase(r) \/ VerifyComputedResult(r)
      BY <1>1, <2>3, CheckKeeps DEF TypeInv, RunInv, RunOK, Started, Admitted, Here
    <2>4. CASE CreateAttemptMarker(r) \/ WriteVerifiedResult(r)
      BY <1>1, <2>4 DEF CreateAttemptMarker, WriteVerifiedResult, ExclusiveWrite, Goto,
         TypeInv, RunInv, RunOK, Started, Admitted, Here
    <2>5. CASE ResolveModelAndSplit(r)
      BY <1>1, <2>5 DEF ResolveModelAndSplit, Goto,
         TypeInv, RunInv, RunOK, Started, Admitted, Here
    <2>6. CASE Raise(r)
      BY <1>1, <2>6 DEF Raise, Running, Forget, Goto,
         TypeInv, RunInv, RunOK, Started, Admitted, Here
    <2> QED
      BY <2>1, <2>2, <2>3, <2>4, <2>5, <2>6 DEF RunPhase
  <1> QED
    BY <1>2, <1>3 DEF RunInv, RunOK

\* What the operator's steps leave alone: the runs, the clones that exist but
\* for their sources, the tags that are public, and the history so far.
LEMMA OperatorKeeps ==
    ASSUME TypeInv, NEW c \in Clones, Operator(c)
    PROVE  /\ UNCHANGED <<control, mem, resolved>>
           /\ \A d \in Clones : head[d] # 0 => head'[d] # 0 /\ disk'[d] = disk[d]
           /\ \A p \in Phases : public[p] # 0 => public'[p] = public[p]
           /\ \A i \in History : i \in History' /\ commits'[i] = commits[i]
  <1>1. CASE Clone(c)
    BY <1>1 DEF Clone, TypeInv, control, History
  <1>2. CASE Edit(c)
    BY <1>2 DEF Edit, TypeInv, control, History
  <1>3. CASE Commit(c)
    <2>1. PICK version : commits' = Append(commits, version)
      BY <1>3 DEF Commit
    <2>2. commits \in Seq(Versions) /\ Len(commits) \in Nat
      BY V5Assumption DEF TypeInv
    <2>3. \A i \in History : i \in History' /\ commits'[i] = commits[i]
      BY <2>1, <2>2 DEF History
    <2>4. \A d \in Clones : head[d] # 0 => head'[d] # 0
      BY <1>3, <2>2 DEF Commit, TypeInv
    <2> QED
      BY <1>3, <2>3, <2>4 DEF Commit, control
  <1>4. ASSUME NEW p \in Phases, Tag(c, p)
        PROVE  /\ UNCHANGED <<control, mem, resolved>>
               /\ \A d \in Clones : head[d] # 0 => head'[d] # 0 /\ disk'[d] = disk[d]
               /\ \A q \in Phases : public[q] # 0 => public'[q] = public[q]
               /\ \A i \in History : i \in History' /\ commits'[i] = commits[i]
    BY <1>4 DEF Tag, TypeInv, control, History
  <1> QED
    BY <1>1, <1>2, <1>3, <1>4 DEF Operator

\* What a power loss leaves of the runs.
LEMMA PowerLossRuns ==
    ASSUME TypeInv, RunInv, PowerLoss, NEW r \in Runs
    PROVE  /\ UNCHANGED <<repository, edits, resolved>>
           /\ pc'[r] \in {"idle", "ended"} /\ stage'[r] = "open"
           /\ pc[r] \in {"idle", "ended"} => pc'[r] = pc[r] /\ exit'[r] = exit[r]
           /\ pc[r] \notin {"idle", "ended"} => pc'[r] = "ended" /\ exit'[r] = "1"
           /\ r \in resolved \/ pc[r] \in {"idle", "ended"} => mem'[r] = mem[r]
           /\ r \in resolved => (r \in tainted' <=> r \in tainted)
  BY DEF PowerLoss, Forget, Running, TypeInv, RunInv

\* Every step keeps RunInv.
LEMMA StepRun ==
    ASSUME TypeInv, RunInv, [Next]_vars
    PROVE  RunInv'
  <1>1. ASSUME NEW c \in Clones, Operator(c) PROVE RunInv'
    <2>1. ASSUME NEW r \in Runs PROVE RunOK(r)'
      BY <1>1, OperatorKeeps, RunFrame DEF control
    <2> QED
      BY <2>1 DEF RunInv, RunOK
  <1>2. CASE PowerLoss
    <2>1. ASSUME NEW r \in Runs PROVE RunOK(r)'
      BY <1>2, PowerLossRuns DEF RunInv, RunOK, Started, Admitted, Here, repository
    <2> QED
      BY <2>1 DEF RunInv, RunOK
  <1>3. CASE UNCHANGED vars
    BY <1>3 DEF vars, repository, control, RunInv, Started, Admitted, Here
  <1> QED
    BY <1>1, <1>2, <1>3, RunStepRun DEF Next

(***************************************************************************)
(* The files that runs write.                                              *)
(***************************************************************************)
\* A file that another write leaves as it was, or only enters its directory.
Kept(old, new) ==
    /\ new.form = old.form /\ new.body = old.body /\ new.data = old.data
    /\ old.entry => new.entry

\* The step of a run that writes: CreateAttemptMarker or WriteVerifiedResult.
Writes(r) == CreateAttemptMarker(r) \/ WriteVerifiedResult(r)

\* The file of that step, and how it goes through the stages.
Own(r) == disk[Here(r)][<<mem[r].phase, pc[r]>>]
Moves(r, old, new) ==
    \/ /\ stage[r] = "open" /\ stage'[r] = "write" /\ old.form = "absent"
       /\ new = Created(mem[r].body)
       /\ pc'[r] = pc[r] /\ exit'[r] = exit[r]
    \/ /\ stage[r] = "write" /\ stage'[r] = "fsync"
       /\ old.form = "partial" /\ old.body = mem[r].body /\ new = Filled(old)
       /\ pc'[r] = pc[r] /\ exit'[r] = exit[r]
    \/ /\ stage[r] = "fsync" /\ stage'[r] = "dirsync"
       /\ old.form = "whole" /\ old.body = mem[r].body /\ new = Synced(old)
       /\ pc'[r] = pc[r] /\ exit'[r] = exit[r]
    \/ /\ stage[r] = "dirsync" /\ stage'[r] = "open"
       /\ old.form = "whole" /\ old.body = mem[r].body /\ old.data
       /\ new = [old EXCEPT !.entry = TRUE]
       /\ \/ pc[r] = "attempt" /\ pc'[r] = "resolve" /\ exit'[r] = "none"
          \/ /\ pc[r] = "result" /\ pc'[r] = "ended"
             /\ exit'[r] = ExitCode(mem[r].body)

\* The file goes through its stages and no other file or run is touched: O_EXCL
\* keeps a writer away from a file that exists, and a file being written is its
\* writer's own.
LEMMA WriteStep ==
    ASSUME TypeInv, RunInv, WriteInv, NEW r \in Runs, Writes(r)
    PROVE  /\ Here(r) \in Clones /\ <<mem[r].phase, pc[r]>> \in Files
           /\ pc[r] \in {"attempt", "result"}
           /\ UNCHANGED <<repository, mem, edits, resolved, tainted>>
           /\ \A q \in Runs \ {r} :
                  pc'[q] = pc[q] /\ stage'[q] = stage[q] /\ exit'[q] = exit[q]
           /\ \A d \in Clones, g \in Files :
                  d # Here(r) \/ g # <<mem[r].phase, pc[r]>> =>
                      Kept(disk[d][g], disk'[d][g])
           /\ Moves(r, Own(r), disk'[Here(r)][<<mem[r].phase, pc[r]>>])
  <1> DEFINE c == Here(r)
             f == <<mem[r].phase, pc[r]>>
             file == disk[c][f]
  <1>1. PICK next, code :
            /\ ExclusiveWrite(r, pc[r], next, code)
            /\ \/ pc[r] = "attempt" /\ next = "resolve" /\ code = "none"
               \/ /\ pc[r] = "result" /\ next = "ended"
                  /\ code = ExitCode(mem[r].body)
    BY DEF Writes, CreateAttemptMarker, WriteVerifiedResult
  <1>2. pc[r] \in {"attempt", "result"}
    BY <1>1
  <1>3. c \in Clones /\ f \in Files /\ \A d \in Clones : disk[d] \in [Files -> FileStates(Bodies)]
    BY <1>2, StartedType DEF Started, TypeInv
  <1>4. \A d \in Clones, g \in Files : disk[d][g] \in FileStates(Bodies)
    BY <1>3
  <1>5. ASSUME NEW new, disk' = [disk EXCEPT ![c][f] = new]
        PROVE  /\ disk'[c][f] = new
               /\ \A d \in Clones, g \in Files :
                      d # c \/ g # f => Kept(disk[d][g], disk'[d][g])
    BY <1>3, <1>5 DEF TypeInv, Kept
  <1>6. ASSUME disk' = [disk EXCEPT ![c] = [g \in Files |-> Entered(disk[c][g])]],
               Present(file)
        PROVE  /\ disk'[c][f] = [file EXCEPT !.entry = TRUE]
               /\ \A d \in Clones, g \in Files : Kept(disk[d][g], disk'[d][g])
    <2>1. disk'[c] = [g \in Files |-> Entered(disk[c][g])]
          /\ \A d \in Clones : d # c => disk'[d] = disk[d]
      BY <1>3, <1>6 DEF TypeInv
    <2>2. \A g \in Files : Kept(disk[c][g], Entered(disk[c][g]))
      BY <1>3, <1>4 DEF Entered, Kept, FileStates
    <2> QED
      <3>1. disk'[c][f] = [file EXCEPT !.entry = TRUE]
        BY <1>3, <1>6, <2>1 DEF Entered
      <3>2. ASSUME NEW d \in Clones, NEW g \in Files PROVE Kept(disk[d][g], disk'[d][g])
        <4>1. CASE d = c
          BY <2>1, <2>2, <4>1
        <4>2. CASE d # c
          BY <2>1, <4>2 DEF Kept
        <4> QED
          BY <4>1, <4>2
      <3> QED
        BY <3>1, <3>2
  <1>7. stage[r] # "open" => /\ file.body = mem[r].body
                             /\ file.form = IF stage[r] = "write" THEN "partial" ELSE "whole"
                             /\ stage[r] = "dirsync" => file.data
    BY DEF WriteInv, File
  <1>8. /\ UNCHANGED <<repository, mem, edits, resolved, tainted>>
        /\ \/ /\ stage[r] = "open" /\ stage' = [stage EXCEPT ![r] = "write"]
              /\ ~Present(file) /\ disk' = [disk EXCEPT ![c][f] = Created(mem[r].body)]
              /\ UNCHANGED <<pc, exit>>
           \/ /\ stage[r] = "write" /\ stage' = [stage EXCEPT ![r] = "fsync"]
              /\ disk' = [disk EXCEPT ![c][f] = Filled(file)] /\ UNCHANGED <<pc, exit>>
           \/ /\ stage[r] = "fsync" /\ stage' = [stage EXCEPT ![r] = "dirsync"]
              /\ disk' = [disk EXCEPT ![c][f] = Synced(file)] /\ UNCHANGED <<pc, exit>>
           \/ /\ stage[r] = "dirsync" /\ stage' = [stage EXCEPT ![r] = "open"]
              /\ disk' = [disk EXCEPT ![c] = [g \in Files |-> Entered(disk[c][g])]]
              /\ \/ /\ pc[r] = "attempt" /\ pc' = [pc EXCEPT ![r] = "resolve"]
                    /\ exit' = [exit EXCEPT ![r] = "none"]
                 \/ /\ pc[r] = "result" /\ pc' = [pc EXCEPT ![r] = "ended"]
                    /\ exit' = [exit EXCEPT ![r] = ExitCode(mem[r].body)]
    BY <1>1, WriteCases
  <1> HIDE DEF c, f, file
  <1>9. \A q \in Runs \ {r} : pc'[q] = pc[q] /\ stage'[q] = stage[q] /\ exit'[q] = exit[q]
    BY <1>8 DEF TypeInv
  <1>10. CASE stage[r] = "open"
    BY <1>2, <1>3, <1>5, <1>8, <1>9, <1>10 DEF Moves, Own, Present, TypeInv, c, f, file
  <1>11. CASE stage[r] = "write"
    BY <1>2, <1>3, <1>5, <1>7, <1>8, <1>9, <1>11 DEF Moves, Own, TypeInv, c, f, file
  <1>12. CASE stage[r] = "fsync"
    BY <1>2, <1>3, <1>5, <1>7, <1>8, <1>9, <1>12 DEF Moves, Own, TypeInv, c, f, file
  <1>13. CASE stage[r] = "dirsync"
    <2>1. Present(file)
      BY <1>7, <1>13 DEF Present
    <2> QED
      BY <1>2, <1>3, <1>6, <1>7, <1>8, <1>9, <1>13, <2>1 DEF Moves, Own, TypeInv, c, f, file
  <1> QED
    BY <1>10, <1>11, <1>12, <1>13 DEF TypeInv, Stages

\* The steps that leave every file and stage, and the variables of a run that
\* writes, alone.
Thinks(r) ==
    \/ Bootstrap(r) \/ Load(r) \/ DigestSources(r) \/ RequirePublicFreeze(r)
    \/ ResolveModelAndSplit(r) \/ EvaluatePhase(r) \/ VerifyComputedResult(r)

\* What they leave alone, and that a run has no attempt marker yet.
LEMMA ThinkKeeps ==
    ASSUME TypeInv, RunInv, NEW r \in Runs, Thinks(r)
    PROVE  /\ UNCHANGED <<repository, disk, stage, exit, edits, tainted>>
           /\ pc[r] \notin {"attempt", "result", "ended"} /\ stage[r] = "open"
           /\ \A q \in Runs \ {r} : mem'[q] = mem[q] /\ pc'[q] = pc[q]
           /\ pc[r] # "idle" =>
                  Here(r)' = Here(r) /\ mem'[r].phase = mem[r].phase
           /\ pc[r] \in {"resolve", "evaluate", "verify"} =>
                  mem'[r].body.run = mem[r].body.run
           /\ resolved \subseteq resolved'
           /\ ~ResolveModelAndSplit(r) => resolved' = resolved
           /\ pc'[r] = "resolve" \/ r \in resolved' =>
                  pc[r] \in {"resolve", "evaluate", "verify"}
  <1>1. CASE Bootstrap(r)
    BY <1>1 DEF Bootstrap, Pass, Goto, TypeInv, RunInv, ResolveModelAndSplit
  <1>2. CASE ResolveModelAndSplit(r)
    BY <1>2 DEF ResolveModelAndSplit, Goto, TypeInv, RunInv, Here
  <1>3. CASE \/ Load(r) \/ DigestSources(r) \/ RequirePublicFreeze(r)
             \/ EvaluatePhase(r) \/ VerifyComputedResult(r)
    BY <1>3, CheckKeeps DEF RunInv, ResolveModelAndSplit
  <1> QED
    BY <1>1, <1>2, <1>3 DEF Thinks

\* Every step keeps the files that runs are writing as their stages say.
LEMMA StepWrite ==
    ASSUME TypeInv, RunInv, WriteInv, [Next]_vars
    PROVE  WriteInv'
  <1> DEFINE WriteOK(r) ==
                 stage[r] # "open" =>
                     /\ File(r, pc[r]).body = mem[r].body
                     /\ File(r, pc[r]).form = IF stage[r] = "write" THEN "partial" ELSE "whole"
                     /\ stage[r] = "dirsync" => File(r, pc[r]).data
  <1>1. ASSUME NEW r \in Runs, Thinks(r) PROVE WriteInv'
    <2>1. ASSUME NEW q \in Runs PROVE WriteOK(q)'
      <3>1. stage' = stage /\ disk' = disk /\ stage[r] = "open"
            /\ (q # r => mem'[q] = mem[q] /\ pc'[q] = pc[q])
        BY <1>1, ThinkKeeps
      <3> QED
        BY <3>1 DEF WriteInv, File, Here
    <2> QED
      BY <2>1 DEF WriteInv
  <1>2. ASSUME NEW r \in Runs, Writes(r) PROVE WriteInv'
    <2>1. mem' = mem /\ Admitted(r) /\ mem[r].body.run = r
      BY <1>2, WriteStep DEF Writes, CreateAttemptMarker, WriteVerifiedResult, Admitted,
         RunInv
    <2>2. WriteOK(r)'
      <3> DEFINE file == disk[Here(r)][<<mem[r].phase, pc[r]>>]
                 new == disk'[Here(r)][<<mem[r].phase, pc[r]>>]
      <3>1. file \in FileStates(Bodies)
        BY <1>2, WriteStep DEF TypeInv
      <3>2. stage'[r] # "open" =>
                /\ new.body = mem[r].body
                /\ new.form = IF stage'[r] = "write" THEN "partial" ELSE "whole"
                /\ stage'[r] = "dirsync" => new.data
                /\ pc'[r] = pc[r]
        <4>1. Moves(r, file, new)
          BY <1>2, WriteStep DEF Own
        <4> HIDE DEF file, new
        <4> QED
          BY <3>1, <4>1 DEF Moves, Created, Filled, Synced, FileStates
      <3> QED
        BY <2>1, <3>2 DEF File, Here
    <2>3. ASSUME NEW q \in Runs \ {r} PROVE WriteOK(q)'
      <3> SUFFICES ASSUME stage[q] # "open" PROVE WriteOK(q)'
        BY <1>2, WriteStep
      <3>1. pc[q] \in {"attempt", "result"} /\ Started(q) /\ Admitted(q)
        BY DEF RunInv, Started, Admitted
      <3>2. Here(q) \in Clones /\ <<mem[q].phase, pc[q]>> \in Files /\ mem[q].body.run = q
        BY <3>1, StartedType DEF RunInv
      <3>3. /\ File(q, pc[q]).body = mem[q].body
            /\ File(q, pc[q]).form = IF stage[q] = "write" THEN "partial" ELSE "whole"
            /\ stage[q] = "dirsync" => File(q, pc[q]).data
        BY DEF WriteInv
      <3>4. CASE Here(q) = Here(r) /\ <<mem[q].phase, pc[q]>> = <<mem[r].phase, pc[r]>>
        <4>1. File(q, pc[q]) = disk[Here(r)][<<mem[r].phase, pc[r]>>]
          BY <3>4 DEF File
        <4>2. \/ File(q, pc[q]).form = "absent"
              \/ File(q, pc[q]).body = mem[r].body
          <5>1. \E new : Moves(r, Own(r), new)
            BY <1>2, WriteStep
          <5> QED
            BY <4>1, <5>1 DEF Moves, Own
        <4> QED
          BY <2>1, <3>2, <3>3, <4>2
      <3>5. CASE Here(q) # Here(r) \/ <<mem[q].phase, pc[q]>> # <<mem[r].phase, pc[r]>>
        <4>1. Kept(File(q, pc[q]), disk'[Here(q)][<<mem[q].phase, pc[q]>>])
          BY <1>2, <3>2, <3>5, WriteStep DEF File
        <4>2. pc'[q] = pc[q] /\ stage'[q] = stage[q]
          BY <1>2, WriteStep
        <4> QED
          BY <2>1, <3>3, <4>1, <4>2 DEF File, Here, Kept
      <3> QED
        BY <3>4, <3>5
    <2> QED
      BY <2>2, <2>3 DEF WriteInv
  <1>3. ASSUME NEW r \in Runs, Raise(r) PROVE WriteInv'
    <2>1. ASSUME NEW q \in Runs PROVE WriteOK(q)'
      BY <1>3 DEF Raise, Goto, Forget, TypeInv, WriteInv, File, Here
    <2> QED
      BY <2>1 DEF WriteInv
  <1>4. ASSUME NEW c \in Clones, Operator(c) PROVE WriteInv'
    <2>1. ASSUME NEW q \in Runs PROVE WriteOK(q)'
      <3> SUFFICES ASSUME stage[q] # "open" PROVE WriteOK(q)'
        BY <1>4, OperatorKeeps DEF control
      <3>1. Here(q) \in Clones /\ head[Here(q)] # 0
        BY DEF RunInv, Started
      <3> QED
        BY <1>4, <3>1, OperatorKeeps DEF WriteInv, File, Here, control
    <2> QED
      BY <2>1 DEF WriteInv
  <1>5. CASE PowerLoss
    BY <1>5, PowerLossRuns DEF WriteInv
  <1>6. CASE UNCHANGED vars
    BY <1>6 DEF vars, control, WriteInv, File, Here
  <1> QED
    BY <1>1, <1>2, <1>3, <1>4, <1>5, <1>6 DEF Next, RunPhase, Thinks, Writes

\* No step changes a file that is whole and on the medium.
LEMMA SettledStays ==
    ASSUME TypeInv, RunInv, WriteInv, [Next]_vars,
           NEW c \in Clones, NEW f \in Files,
           head[c] # 0, Settled(disk[c][f]), Readable(disk[c][f])
    PROVE  disk'[c][f] = disk[c][f]
  <1>1. disk[c][f] \in FileStates(Bodies)
    BY DEF TypeInv
  <1>2. ASSUME NEW r \in Runs, Thinks(r) PROVE disk'[c][f] = disk[c][f]
    BY <1>2, ThinkKeeps
  <1>3. ASSUME NEW r \in Runs, Writes(r) PROVE disk'[c][f] = disk[c][f]
    <2>1. disk'[c][f] \in FileStates(Bodies)
      BY <1>3, StepType DEF TypeInv, Next, RunPhase, Writes
    <2>2. CASE c # Here(r) \/ f # <<mem[r].phase, pc[r]>>
      <3>1. Kept(disk[c][f], disk'[c][f])
        BY <1>3, <2>2, WriteStep
      <3>2. disk'[c][f] = [form |-> disk[c][f].form, body |-> disk[c][f].body,
                           data |-> disk[c][f].data, entry |-> TRUE]
        BY <2>1, <3>1 DEF Kept, FileStates, Settled
      <3> QED
        BY <1>1, <3>2 DEF FileStates, Settled
    <2>3. CASE c = Here(r) /\ f = <<mem[r].phase, pc[r]>>
      BY <1>1, <1>3, <2>3, WriteStep DEF Moves, Own, Settled, Readable, Present, Synced, FileStates
    <2> QED
      BY <2>2, <2>3
  <1>4. ASSUME NEW r \in Runs, Raise(r) PROVE disk'[c][f] = disk[c][f]
    BY <1>4 DEF Raise
  <1>5. ASSUME NEW d \in Clones, Operator(d) PROVE disk'[c][f] = disk[c][f]
    BY <1>5, OperatorKeeps
  <1>6. CASE PowerLoss
    <2>1. PICK lost \in SUBSET Losable(disk[c]), torn \in SUBSET Tearable(disk[c]) :
              disk'[c] = AfterPowerLoss(disk[c], NoBody, lost, torn)
      BY <1>6, PowerLossDisk
    <2>2. f \in DOMAIN disk[c]
      BY DEF TypeInv
    <2>3. f \notin lost /\ f \notin torn
      BY <2>1 DEF Losable, Tearable, Settled
    <2>4. disk'[c][f] = [form |-> disk[c][f].form, body |-> disk[c][f].body,
                         data |-> TRUE, entry |-> TRUE]
      BY <2>1, <2>2, <2>3 DEF AfterPowerLoss, Settled
    <2> QED
      BY <1>1, <2>4 DEF FileStates, Settled
  <1>7. CASE UNCHANGED vars
    BY <1>7 DEF vars
  <1> QED
    BY <1>2, <1>3, <1>4, <1>5, <1>6, <1>7 DEF Next, RunPhase, Thinks, Writes

(***************************************************************************)
(* Markers and results that are permanent.                                 *)
(***************************************************************************)
\* A run that is about to resolve its split, or has, keeps its clone, phase and
\* name; one that has a verdict keeps everything.
LEMMA ResolvedStays ==
    ASSUME TypeInv, RunInv, WriteInv, [Next]_vars, NEW q \in Runs
    PROVE  /\ resolved \subseteq resolved'
           /\ /\ q \in resolved \/ pc[q] = "resolve"
              /\ q \in resolved' \/ pc'[q] = "resolve"
              => Here(q)' = Here(q) /\ mem'[q].phase = mem[q].phase
           /\ q \in resolved /\ pc[q] \in {"result", "ended"} =>
                  mem'[q] = mem[q] /\ pc'[q] \in {"result", "ended"}
           /\ q \in resolved /\ pc[q] = "ended" =>
                  pc'[q] = "ended" /\ exit'[q] = exit[q]
  <1>1. ASSUME NEW r \in Runs, Thinks(r)
        PROVE  /\ resolved \subseteq resolved'
               /\ \/ mem'[q] = mem[q] /\ pc'[q] = pc[q] /\ exit'[q] = exit[q]
                  \/ /\ q = r /\ pc[q] \notin {"result", "ended"}
                     /\ pc[q] # "idle" =>
                            Here(q)' = Here(q) /\ mem'[q].phase = mem[q].phase
    BY <1>1, ThinkKeeps
  <1>2. ASSUME NEW r \in Runs, Writes(r)
        PROVE  /\ resolved' = resolved /\ mem' = mem
               /\ \/ pc'[q] = pc[q] /\ exit'[q] = exit[q]
                  \/ pc[q] = "attempt"
                  \/ pc[q] = "result" /\ pc'[q] \in {"result", "ended"}
    <2>1. Moves(r, Own(r), disk'[Here(r)][<<mem[r].phase, pc[r]>>])
      BY <1>2, WriteStep
    <2>2. /\ pc[r] \in {"attempt", "result"} /\ resolved' = resolved /\ mem' = mem
          /\ q # r => pc'[q] = pc[q] /\ exit'[q] = exit[q]
      BY <1>2, WriteStep
    <2> QED
      BY <2>1, <2>2 DEF Moves
  <1>3. ASSUME NEW r \in Runs, Raise(r)
        PROVE  /\ resolved' = resolved
               /\ \/ mem'[q] = mem[q] /\ pc'[q] = pc[q] /\ exit'[q] = exit[q]
                  \/ /\ q = r /\ pc[q] # "ended" /\ pc'[q] = "ended"
                     /\ q \in resolved => mem'[q] = mem[q]
    BY <1>3 DEF Raise, Running, Goto, Forget, TypeInv
  <1>4. ASSUME NEW c \in Clones, Operator(c)
        PROVE  UNCHANGED <<resolved, mem, pc, exit>>
    BY <1>4, OperatorKeeps DEF control
  <1>5. CASE PowerLoss
    <2>1. /\ resolved' = resolved /\ pc'[q] \in {"idle", "ended"}
          /\ q \in resolved => mem'[q] = mem[q] /\ pc'[q] = "ended"
          /\ pc[q] = "ended" => exit'[q] = exit[q]
      BY <1>5, PowerLossRuns DEF RunInv
    <2> QED
      BY <2>1 DEF Here
  <1>6. CASE UNCHANGED vars
    BY <1>6 DEF vars, control, Here
  <1>7. \A r \in Runs : RunPhase(r) => Thinks(r) \/ Writes(r)
    BY DEF RunPhase, Thinks, Writes
  <1>8. CASE \E r \in Runs : Thinks(r)
    BY <1>1, <1>8 DEF Here, RunInv
  <1>9. CASE \E r \in Runs : Writes(r)
    BY <1>2, <1>9 DEF Here, RunInv
  <1>10. CASE \E r \in Runs : Raise(r)
    BY <1>3, <1>10 DEF Here, RunInv
  <1>11. CASE \E c \in Clones : Operator(c)
    BY <1>4, <1>11 DEF Here
  <1> QED
    BY <1>5, <1>6, <1>7, <1>8, <1>9, <1>10, <1>11 DEF Next

\* Who comes to hold a marker or a verdict, and when.
LEMMA NewHolder ==
    ASSUME TypeInv, RunInv, WriteInv, [Next]_vars, NEW q \in Runs
    PROVE  /\ q \in resolved' => q \in resolved \/ pc[q] = "resolve"
           /\ pc'[q] = "resolve" =>
                  \/ pc[q] = "resolve"
                  \/ Writes(q) /\ pc[q] = "attempt"
           /\ exit'[q] \in {"0", "2"} =>
                  \/ exit'[q] = exit[q]
                  \/ Writes(q) /\ pc[q] = "result" /\ pc'[q] = "ended"
  <1>1. ASSUME NEW r \in Runs, Thinks(r)
        PROVE  /\ exit' = exit
               /\ q \in resolved' => q \in resolved \/ pc[q] = "resolve"
               /\ pc'[q] = "resolve" => pc[q] = "resolve"
    <2>1. CASE ResolveModelAndSplit(r)
      BY <2>1 DEF ResolveModelAndSplit, Goto, TypeInv
    <2>2. CASE ~ResolveModelAndSplit(r)
      <3>1. exit' = exit /\ resolved' = resolved
        BY <1>1, <2>2, ThinkKeeps
      <3>2. pc'[q] = "resolve" => pc[q] = "resolve"
        <4>1. CASE Bootstrap(r)
          BY <4>1 DEF Bootstrap, Pass, Goto, TypeInv
        <4>2. CASE ~Bootstrap(r)
          BY <1>1, <2>2, <4>2, CheckKeeps DEF Thinks
        <4> QED
          BY <4>1, <4>2
      <3> QED
        BY <3>1, <3>2
    <2> QED
      BY <2>1, <2>2
  <1>2. ASSUME NEW r \in Runs, Writes(r)
        PROVE  /\ resolved' = resolved
               /\ q # r => pc'[q] = pc[q] /\ exit'[q] = exit[q]
               /\ pc'[r] = "resolve" => pc[r] = "attempt"
               /\ \/ exit'[r] = exit[r] \/ exit'[r] = "none"
                  \/ pc[r] = "result" /\ pc'[r] = "ended"
    <2>1. Moves(r, Own(r), disk'[Here(r)][<<mem[r].phase, pc[r]>>])
      BY <1>2, WriteStep
    <2>2. pc[r] \in {"attempt", "result"}
      BY <1>2, WriteStep
    <2>3. resolved' = resolved /\ (q # r => pc'[q] = pc[q] /\ exit'[q] = exit[q])
      BY <1>2, WriteStep
    <2> QED
      BY <2>1, <2>2, <2>3 DEF Moves
  <1>3. ASSUME NEW r \in Runs, Raise(r)
        PROVE  /\ resolved' = resolved
               /\ \/ pc'[q] = pc[q] /\ exit'[q] = exit[q]
                  \/ pc'[q] = "ended" /\ exit'[q] = "1"
    BY <1>3 DEF Raise, Goto, TypeInv
  <1>4. ASSUME NEW c \in Clones, Operator(c)
        PROVE  UNCHANGED <<resolved, pc, exit>>
    BY <1>4, OperatorKeeps DEF control
  <1>5. CASE PowerLoss
    BY <1>5, PowerLossRuns
  <1>6. CASE UNCHANGED vars
    BY <1>6 DEF vars, control
  <1>7. \A r \in Runs : RunPhase(r) => Thinks(r) \/ Writes(r)
    BY DEF RunPhase, Thinks, Writes
  <1>8. CASE \E r \in Runs : Thinks(r)
    BY <1>1, <1>8
  <1>9. CASE \E r \in Runs : Writes(r)
    <2>1. PICK r \in Runs : Writes(r)
      BY <1>9
    <2>2. CASE q = r
      BY <1>2, <2>1, <2>2
    <2>3. CASE q # r
      BY <1>2, <2>1, <2>3
    <2> QED
      BY <2>2, <2>3
  <1>10. CASE \E r \in Runs : Raise(r)
    BY <1>3, <1>10
  <1>11. CASE \E c \in Clones : Operator(c)
    BY <1>4, <1>11
  <1> QED
    BY <1>5, <1>6, <1>7, <1>8, <1>9, <1>10, <1>11 DEF Next

\* Every step keeps the markers of the runs that passed theirs.
LEMMA StepMarker ==
    ASSUME TypeInv, RunInv, WriteInv, MarkerInv, [Next]_vars
    PROVE  MarkerInv'
  <1> SUFFICES ASSUME NEW q \in Runs, pc'[q] = "resolve" \/ q \in resolved'
               PROVE  /\ Settled(File(q, "attempt"))' /\ Readable(File(q, "attempt"))'
                      /\ File(q, "attempt")'.body.run = q
    BY DEF MarkerInv
  <1>1. CASE pc[q] = "resolve" \/ q \in resolved
    <2>1. Here(q)' = Here(q) /\ mem'[q].phase = mem[q].phase
      BY <1>1, ResolvedStays
    <2>2. /\ Here(q) \in Clones /\ head[Here(q)] # 0
          /\ <<mem[q].phase, "attempt">> \in Files
      BY <1>1, StartedType DEF RunInv, Started
    <2>3. /\ Settled(File(q, "attempt")) /\ Readable(File(q, "attempt"))
          /\ File(q, "attempt").body.run = q
      BY <1>1 DEF MarkerInv
    <2>4. File(q, "attempt")' = File(q, "attempt")
      BY <2>1, <2>2, <2>3, SettledStays DEF File
    <2> QED
      BY <2>3, <2>4
  <1>2. CASE pc[q] # "resolve" /\ q \notin resolved
    <2>1. Writes(q) /\ pc[q] = "attempt" /\ pc'[q] = "resolve"
      BY <1>2, NewHolder
    <2>2. mem' = mem /\ mem[q].body.run = q
      BY <2>1, WriteStep DEF RunInv, Admitted
    <2>3. /\ Own(q).form = "whole" /\ Own(q).body = mem[q].body /\ Own(q).data
          /\ disk'[Here(q)][<<mem[q].phase, pc[q]>>] = [Own(q) EXCEPT !.entry = TRUE]
      BY <2>1, WriteStep DEF Moves
    <2>4. Own(q) \in FileStates(Bodies)
      BY <2>1, WriteStep DEF Own, TypeInv
    <2>5. File(q, "attempt")' = [Own(q) EXCEPT !.entry = TRUE]
      BY <2>1, <2>2, <2>3 DEF File, Here
    <2> QED
      BY <2>2, <2>3, <2>4, <2>5 DEF Settled, Readable, Present, FileStates
  <1> QED
    BY <1>1, <1>2

\* Every step keeps the results whose runs reported a verdict.
LEMMA StepExit ==
    ASSUME TypeInv, RunInv, WriteInv, ExitInv, [Next]_vars
    PROVE  ExitInv'
  <1> SUFFICES ASSUME NEW q \in Runs, exit'[q] \in {"0", "2"}
               PROVE  /\ q \in resolved'
                      /\ Settled(File(q, "result"))' /\ Readable(File(q, "result"))'
                      /\ File(q, "result")'.body = mem'[q].body
                      /\ exit'[q] = ExitCode(mem'[q].body)
    BY DEF ExitInv
  <1>1. CASE exit'[q] = exit[q]
    <2>1. /\ q \in resolved /\ pc[q] = "ended"
          /\ Settled(File(q, "result")) /\ Readable(File(q, "result"))
          /\ File(q, "result").body = mem[q].body /\ exit[q] = ExitCode(mem[q].body)
      BY <1>1 DEF ExitInv, RunInv
    <2>2. mem'[q] = mem[q] /\ q \in resolved'
      BY <2>1, ResolvedStays
    <2>3. /\ Here(q) \in Clones /\ head[Here(q)] # 0
          /\ <<mem[q].phase, "result">> \in Files
      BY <2>1, StartedType DEF RunInv, Started
    <2>4. File(q, "result")' = File(q, "result")
      BY <2>1, <2>2, <2>3, SettledStays DEF File, Here
    <2> QED
      BY <1>1, <2>1, <2>2, <2>4
  <1>2. CASE exit'[q] # exit[q]
    <2>1. Writes(q) /\ pc[q] = "result" /\ pc'[q] = "ended"
      BY <1>2, NewHolder
    <2>2. mem' = mem /\ resolved' = resolved /\ q \in resolved
      BY <2>1, WriteStep DEF RunInv
    <2>3. /\ Own(q).form = "whole" /\ Own(q).body = mem[q].body /\ Own(q).data
          /\ disk'[Here(q)][<<mem[q].phase, pc[q]>>] = [Own(q) EXCEPT !.entry = TRUE]
          /\ exit'[q] = ExitCode(mem[q].body)
      BY <2>1, WriteStep DEF Moves
    <2>4. Own(q) \in FileStates(Bodies)
      BY <2>1, WriteStep DEF Own, TypeInv
    <2>5. File(q, "result")' = [Own(q) EXCEPT !.entry = TRUE]
      BY <2>1, <2>2, <2>3 DEF File, Here
    <2> QED
      BY <2>2, <2>3, <2>4, <2>5 DEF Settled, Readable, Present, FileStates
  <1> QED
    BY <1>1, <1>2

(***************************************************************************)
(* Results and the runs behind them.                                       *)
(***************************************************************************)
\* What a run has in memory stays what its result says.
LEMMA HeldStays ==
    ASSUME TypeInv, RunInv, WriteInv, [Next]_vars, NEW p, NEW body, HeldBy(p, body)
    PROVE  /\ body.run \in resolved'
           /\ pc'[body.run] \in {"result", "ended"}
           /\ mem'[body.run].phase = p
           /\ mem'[body.run].body = body
  <1>1. /\ body.run \in resolved /\ body.run \in Runs
        /\ pc[body.run] \in {"result", "ended"}
        /\ mem[body.run].phase = p /\ mem[body.run].body = body
    BY DEF HeldBy, TypeInv
  <1> QED
    BY <1>1, ResolvedStays

\* Where the contents of a worktree's result come from: the file was there, a
\* commit holds it, or the run that resolved the split writes it.
LEMMA ResultSource ==
    ASSUME TypeInv, RunInv, WriteInv, [Next]_vars, NEW c \in Clones, NEW p \in Phases,
           disk'[c][Result(p)].form # "absent"
    PROVE  \/ /\ disk[c][Result(p)].form # "absent"
              /\ disk'[c][Result(p)].body = disk[c][Result(p)].body
           \/ \E i \in DOMAIN commits :
                  /\ commits[i].files[Result(p)].form # "absent"
                  /\ disk'[c][Result(p)].body = commits[i].files[Result(p)].body
           \/ \E r \in Runs :
                  /\ Writes(r) /\ pc[r] = "result" /\ mem[r].phase = p
                  /\ disk'[c][Result(p)].body = mem[r].body
  <1>1. Result(p) \in Files /\ disk[c] \in [Files -> FileStates(Bodies)]
    BY Constants DEF TypeInv
  <1>2. CASE disk'[c] = disk[c]
    BY <1>2
  <1>3. ASSUME NEW r \in Runs, Writes(r)
        PROVE  \/ /\ disk[c][Result(p)].form # "absent"
                  /\ disk'[c][Result(p)].body = disk[c][Result(p)].body
               \/ /\ pc[r] = "result" /\ mem[r].phase = p
                  /\ disk'[c][Result(p)].body = mem[r].body
    <2>1. CASE c # Here(r) \/ Result(p) # <<mem[r].phase, pc[r]>>
      <3>1. Kept(disk[c][Result(p)], disk'[c][Result(p)])
        BY <1>1, <1>3, <2>1, WriteStep
      <3> QED
        BY <3>1 DEF Kept
    <2>2. CASE c = Here(r) /\ Result(p) = <<mem[r].phase, pc[r]>>
      <3>1. Moves(r, disk[c][Result(p)], disk'[c][Result(p)])
        BY <1>3, <2>2, WriteStep DEF Own
      <3>2. pc[r] = "result" /\ mem[r].phase = p
        BY <2>2 DEF Result
      <3>3. disk[c][Result(p)] \in FileStates(Bodies)
        BY <1>1
      <3> QED
        BY <3>1, <3>2, <3>3 DEF Moves, Created, Filled, Synced, FileStates
    <2> QED
      BY <2>1, <2>2
  <1>4. ASSUME NEW d \in Clones, Operator(d)
        PROVE  \/ disk'[c] = disk[c]
               \/ \E i \in DOMAIN commits :
                      /\ commits[i].files[Result(p)].form # "absent"
                      /\ disk'[c][Result(p)].body = commits[i].files[Result(p)].body
    <2>1. CASE Clone(d) /\ c = d
      <3>1. PICK q \in Phases : /\ public[q] # 0
                                /\ disk' = [disk EXCEPT ![d] =
                                     [f \in Files |-> Fresh(commits[public[q]].files[f])]]
        BY <2>1 DEF Clone
      <3>2. disk'[c][Result(p)] = Fresh(commits[public[q]].files[Result(p)])
        BY <1>1, <2>1, <3>1 DEF TypeInv
      <3>3. public[q] \in DOMAIN commits
        BY <3>1, VersionType DEF TypeInv
      <3> QED
        BY <3>2, <3>3 DEF Fresh
    <2>2. CASE ~(Clone(d) /\ c = d)
      BY <1>4, <2>2 DEF Operator, Clone, Edit, Commit, Tag, TypeInv
    <2> QED
      BY <2>1, <2>2
  <1>5. CASE PowerLoss
    <2>1. PICK lost, torn : disk'[c] = AfterPowerLoss(disk[c], NoBody, lost, torn)
      BY <1>5, PowerLossDisk
    <2> QED
      BY <1>1, <2>1 DEF AfterPowerLoss, AbsentFile, Present
  <1>6. ASSUME NEW r \in Runs, Thinks(r) \/ Raise(r) PROVE disk'[c] = disk[c]
    BY <1>6, ThinkKeeps DEF Raise
  <1>7. CASE UNCHANGED vars
    BY <1>2, <1>7 DEF vars
  <1>8. \A r \in Runs : RunPhase(r) => Thinks(r) \/ Writes(r)
    BY DEF RunPhase, Thinks, Writes
  <1>9. CASE \E r \in Runs : RunPhase(r) \/ Raise(r)
    BY <1>2, <1>3, <1>6, <1>8, <1>9
  <1>10. CASE \E d \in Clones : Operator(d)
    BY <1>2, <1>4, <1>10
  <1> QED
    BY <1>5, <1>7, <1>9, <1>10 DEF Next

\* A commit that a step adds holds what a worktree held.
LEMMA CommitSource ==
    ASSUME TypeInv, RunInv, [Next]_vars, NEW i \in DOMAIN commits'
    PROVE  \/ i \in DOMAIN commits /\ commits'[i] = commits[i]
           \/ \E c \in Clones :
                  \A f \in Files : commits'[i].files[f] = Content(disk[c][f])
  <1>1. commits \in Seq(Versions) /\ Len(commits) \in Nat
    BY V5Assumption DEF TypeInv
  <1>2. ASSUME NEW c \in Clones, Commit(c)
        PROVE  \/ i \in DOMAIN commits /\ commits'[i] = commits[i]
               \/ \A f \in Files : commits'[i].files[f] = Content(disk[c][f])
    <2>1. PICK version : /\ commits' = Append(commits, version)
                         /\ version.files = [f \in Files |-> Content(disk[c][f])]
      BY <1>2 DEF Commit
    <2>2. \/ i \in DOMAIN commits /\ commits'[i] = commits[i]
          \/ commits'[i] = version
      BY <1>1, <2>1
    <2> QED
      BY <2>1, <2>2
  <1>3. CASE commits' = commits
    BY <1>3
  <1>4. commits' = commits \/ \E c \in Clones : Commit(c)
    <2>1. ASSUME NEW r \in Runs, RunPhase(r) \/ Raise(r) PROVE commits' = commits
      <3>1. CASE Thinks(r)
        BY <3>1, ThinkKeeps DEF repository
      <3>2. CASE CreateAttemptMarker(r) \/ WriteVerifiedResult(r)
        BY <3>2 DEF CreateAttemptMarker, WriteVerifiedResult, ExclusiveWrite, repository
      <3>3. CASE Raise(r)
        BY <3>3 DEF Raise, repository
      <3> QED
        BY <2>1, <3>1, <3>2, <3>3 DEF RunPhase, Thinks
    <2>2. ASSUME NEW c \in Clones, Operator(c), ~Commit(c) PROVE commits' = commits
      BY <2>2 DEF Operator, Clone, Edit, Tag
    <2> QED
      BY <2>1, <2>2 DEF Next, PowerLoss, vars, repository
  <1> QED
    BY <1>2, <1>3, <1>4

\* Every step keeps the runs behind the results.
LEMMA StepResult ==
    ASSUME TypeInv, RunInv, WriteInv, ResultInv, [Next]_vars
    PROVE  ResultInv'
  <1>1. ASSUME NEW c \in Clones, NEW p \in Phases, disk'[c][Result(p)].form # "absent"
        PROVE  HeldBy(p, disk[c][Result(p)].body)'
    <2>1. CASE /\ disk[c][Result(p)].form # "absent"
               /\ disk'[c][Result(p)].body = disk[c][Result(p)].body
      <3>1. HeldBy(p, disk[c][Result(p)].body)
        BY <2>1 DEF ResultInv
      <3> QED
        BY <2>1, <3>1, HeldStays DEF HeldBy
    <2>2. CASE \E i \in DOMAIN commits :
                  /\ commits[i].files[Result(p)].form # "absent"
                  /\ disk'[c][Result(p)].body = commits[i].files[Result(p)].body
      <3>1. PICK i \in DOMAIN commits :
                  /\ HeldBy(p, commits[i].files[Result(p)].body)
                  /\ disk'[c][Result(p)].body = commits[i].files[Result(p)].body
        BY <2>2 DEF ResultInv
      <3> QED
        BY <3>1, HeldStays DEF HeldBy
    <2>3. CASE \E r \in Runs :
                  /\ Writes(r) /\ pc[r] = "result" /\ mem[r].phase = p
                  /\ disk'[c][Result(p)].body = mem[r].body
      <3>1. PICK r \in Runs : /\ Writes(r) /\ pc[r] = "result" /\ mem[r].phase = p
                              /\ disk'[c][Result(p)].body = mem[r].body
        BY <2>3
      <3>2. r \in resolved /\ mem[r].body.run = r
        BY <3>1 DEF RunInv, Admitted
      <3>3. r \in resolved' /\ mem'[r] = mem[r] /\ pc'[r] \in {"result", "ended"}
        BY <3>1, <3>2, ResolvedStays
      <3> QED
        BY <3>1, <3>2, <3>3 DEF HeldBy
    <2> QED
      BY <1>1, <2>1, <2>2, <2>3, ResultSource
  <1>2. ASSUME NEW i \in DOMAIN commits', NEW p \in Phases,
               commits'[i].files[Result(p)].form # "absent"
        PROVE  HeldBy(p, commits[i].files[Result(p)].body)'
    <2>1. CASE i \in DOMAIN commits /\ commits'[i] = commits[i]
      <3>1. HeldBy(p, commits[i].files[Result(p)].body)
        BY <1>2, <2>1 DEF ResultInv
      <3> QED
        BY <2>1, <3>1, HeldStays DEF HeldBy
    <2>2. CASE \E c \in Clones :
                  \A f \in Files : commits'[i].files[f] = Content(disk[c][f])
      <3>1. PICK c \in Clones : commits'[i].files[Result(p)] = Content(disk[c][Result(p)])
        BY <2>2, Constants
      <3>2. /\ HeldBy(p, disk[c][Result(p)].body)
            /\ commits'[i].files[Result(p)].body = disk[c][Result(p)].body
        BY <1>2, <3>1 DEF ResultInv, Content
      <3> QED
        BY <3>2, HeldStays DEF HeldBy
    <2> QED
      BY <2>1, <2>2, CommitSource
  <1> QED
    BY <1>1, <1>2 DEF ResultInv

(***************************************************************************)
(* What a run was admitted with.                                           *)
(***************************************************************************)
\* A step that keeps what a run was admitted with.
SameAdmission(q) ==
    /\ Admitted(q)
    /\ Here(q)' = Here(q) /\ mem'[q].phase = mem[q].phase
    /\ mem'[q].loaded = mem[q].loaded
    /\ mem'[q].body.source = mem[q].body.source
    /\ mem'[q].body.selection = mem[q].body.selection
    /\ q \in tainted => q \in tainted'

\* An admitted run was admitted before, with the same freeze, sources and loaded
\* versions, or it is the one whose freeze was just found public.
LEMMA AdmittedSource ==
    ASSUME TypeInv, RunInv, WriteInv, [Next]_vars, NEW q \in Runs, Admitted(q)'
    PROVE  RequirePublicFreeze(q) \/ SameAdmission(q)
  <1>1. ASSUME Admitted(q), mem'[q] = mem[q], q \in tainted => q \in tainted'
        PROVE  SameAdmission(q)
    BY <1>1 DEF Here, SameAdmission
  <1>2. ASSUME NEW r \in Runs, Thinks(r) PROVE RequirePublicFreeze(q) \/ SameAdmission(q)
    <2>1. CASE r # q
      <3>1. mem'[q] = mem[q] /\ pc'[q] = pc[q] /\ tainted' = tainted
            /\ (q \in resolved' => q \in resolved)
        <4>1. CASE ResolveModelAndSplit(r)
          BY <2>1, <4>1 DEF ResolveModelAndSplit, Goto, TypeInv
        <4>2. CASE ~ResolveModelAndSplit(r)
          BY <1>2, <2>1, <4>2, ThinkKeeps
        <4> QED
          BY <4>1, <4>2
      <3> QED
        BY <1>1, <3>1 DEF Admitted
    <2>2. CASE r = q
      <3>1. CASE Bootstrap(q) \/ Load(q) \/ DigestSources(q)
        <4>1. pc'[q] \notin {"attempt", "resolve"} /\ q \notin resolved'
          <5>1. CASE Bootstrap(q)
            BY <5>1 DEF Bootstrap, Pass, Goto, TypeInv, RunInv
          <5>2. CASE Load(q)
            BY <5>2, CheckKeeps DEF Load, RunInv
          <5>3. CASE DigestSources(q)
            BY <5>3, CheckKeeps DEF DigestSources, RunInv
          <5> QED
            BY <3>1, <5>1, <5>2, <5>3
        <4> QED
          BY <4>1 DEF Admitted
      <3>2. CASE ResolveModelAndSplit(q)
        BY <1>1, <3>2 DEF ResolveModelAndSplit, Admitted
      <3>3. CASE EvaluatePhase(q) \/ VerifyComputedResult(q)
        BY <3>3, CheckKeeps DEF RunInv, Admitted, SameAdmission
      <3> QED
        BY <1>2, <2>2, <3>1, <3>2, <3>3 DEF Thinks
    <2> QED
      BY <2>1, <2>2
  <1>3. ASSUME NEW r \in Runs, Writes(r) PROVE SameAdmission(q)
    <2>1. UNCHANGED <<mem, resolved, tainted>> /\ pc[r] \in {"attempt", "result"}
          /\ (q # r => pc'[q] = pc[q])
      BY <1>3, WriteStep
    <2>2. Admitted(q)
      BY <2>1 DEF Admitted, RunInv
    <2> QED
      BY <1>1, <2>1, <2>2
  <1>4. ASSUME NEW r \in Runs, Raise(r) PROVE SameAdmission(q)
    <2>1. Admitted(q) /\ mem'[q] = mem[q] /\ (q \in tainted => q \in tainted')
      BY <1>4 DEF Raise, Goto, Forget, TypeInv, Admitted
    <2> QED
      BY <1>1, <2>1
  <1>5. ASSUME NEW c \in Clones, Operator(c) PROVE SameAdmission(q)
    <2>1. UNCHANGED <<pc, mem, resolved>>
      BY <1>5, OperatorKeeps DEF control
    <2>2. tainted \subseteq tainted'
      BY <1>5 DEF Operator, Clone, Edit, Commit, Tag
    <2> QED
      BY <1>1, <2>1, <2>2 DEF Admitted
  <1>6. ASSUME PowerLoss PROVE SameAdmission(q)
    <2>1. pc'[q] \in {"idle", "ended"} /\ resolved' = resolved
      BY <1>6, PowerLossRuns
    <2>2. q \in resolved
      BY <2>1 DEF Admitted
    <2>3. mem'[q] = mem[q] /\ (q \in tainted => q \in tainted')
      BY <1>6, <2>2, PowerLossRuns
    <2> QED
      BY <1>1, <2>2, <2>3 DEF Admitted
  <1>7. ASSUME UNCHANGED vars PROVE SameAdmission(q)
    BY <1>1, <1>7 DEF vars, control, Admitted
  <1>8. \A r \in Runs : RunPhase(r) => Thinks(r) \/ Writes(r)
    BY DEF RunPhase, Thinks, Writes
  <1> QED
    BY <1>2, <1>3, <1>4, <1>5, <1>6, <1>7, <1>8 DEF Next

\* A tag that is public, and the commit it names, never change.
LEMMA PublicStays ==
    ASSUME TypeInv, RunInv, WriteInv, [Next]_vars, NEW p \in Phases, public[p] # 0
    PROVE  public'[p] = public[p] /\ commits'[public[p]] = commits[public[p]]
  <1>1. public[p] \in History
    BY DEF TypeInv
  <1>2. ASSUME NEW r \in Runs, RunPhase(r) \/ Raise(r)
        PROVE  UNCHANGED <<commits, public>>
    <2>1. CASE Thinks(r)
      BY <2>1, ThinkKeeps DEF repository
    <2>2. CASE Writes(r)
      BY <2>2, WriteStep DEF repository
    <2>3. CASE Raise(r)
      BY <2>3 DEF Raise, repository
    <2> QED
      BY <1>2, <2>1, <2>2, <2>3 DEF RunPhase, Thinks, Writes
  <1>3. ASSUME NEW c \in Clones, Operator(c)
        PROVE  public'[p] = public[p] /\ commits'[public[p]] = commits[public[p]]
    BY <1>1, <1>3, OperatorKeeps
  <1> QED
    BY <1>2, <1>3 DEF Next, PowerLoss, vars, repository

\* A run that has not digested its sources is left alone by every step but its own:
\* an edit of its worktree taints it.
LEMMA PreparingStays ==
    ASSUME TypeInv, RunInv, WriteInv, [Next]_vars, NEW q \in Runs,
           pc'[q] \in {"load", "digest", "freeze"},
           ~Bootstrap(q), ~Load(q), ~DigestSources(q)
    PROVE  /\ pc'[q] = pc[q] /\ mem'[q] = mem[q]
           /\ q \in tainted => q \in tainted'
           /\ pc[q] \in {"load", "digest"} /\ q \notin tainted' =>
                  source'[Here(q)] = source[Here(q)]
  <1>1. ASSUME NEW r \in Runs, Thinks(r)
        PROVE  UNCHANGED <<source, tainted>> /\ pc'[q] = pc[q] /\ mem'[q] = mem[q]
    <2>1. UNCHANGED <<source, tainted>>
      BY <1>1, ThinkKeeps DEF repository
    <2>2. CASE r = q
      BY <1>1, <2>2, CheckKeeps DEF Thinks, ResolveModelAndSplit, Goto, TypeInv
    <2>3. CASE r # q
      BY <1>1, <2>1, <2>3, ThinkKeeps
    <2> QED
      BY <2>1, <2>2, <2>3
  <1>2. ASSUME NEW r \in Runs, Writes(r)
        PROVE  UNCHANGED <<source, tainted, mem>> /\ pc'[q] = pc[q]
    <2>1. UNCHANGED <<source, tainted, mem>> /\ (q # r => pc'[q] = pc[q])
      BY <1>2, WriteStep DEF repository
    <2>2. Moves(r, Own(r), disk'[Here(r)][<<mem[r].phase, pc[r]>>])
      BY <1>2, WriteStep
    <2> QED
      BY <2>1, <2>2 DEF Moves
  <1>3. ASSUME NEW r \in Runs, Raise(r)
        PROVE  /\ source' = source /\ pc'[q] = pc[q] /\ mem'[q] = mem[q]
               /\ q \in tainted => q \in tainted'
    BY <1>3 DEF Raise, Goto, Forget, TypeInv, repository
  <1>4. ASSUME NEW c \in Clones, Operator(c)
        PROVE  /\ UNCHANGED <<pc, mem>> /\ tainted \subseteq tainted'
               /\ pc[q] \in {"load", "digest"} /\ q \notin tainted' =>
                      source'[Here(q)] = source[Here(q)]
    <2>1. UNCHANGED <<pc, mem>>
      BY <1>4, OperatorKeeps DEF control
    <2>2. tainted \subseteq tainted'
      BY <1>4 DEF Operator, Clone, Edit, Commit, Tag
    <2>3. ASSUME pc[q] \in {"load", "digest"}, q \notin tainted'
          PROVE  source'[Here(q)] = source[Here(q)]
      <3>1. Here(q) \in Clones /\ head[Here(q)] # 0
        BY <2>3 DEF RunInv, Started
      <3> QED
        BY <1>4, <2>3, <3>1 DEF Operator, Clone, Edit, Commit, Tag, TypeInv
    <2> QED
      BY <2>1, <2>2, <2>3
  <1>5. ~PowerLoss
    BY PowerLossRuns
  <1>6. CASE UNCHANGED vars
    BY <1>6 DEF vars, control, repository
  <1>7. \A r \in Runs : RunPhase(r) => Thinks(r) \/ Writes(r)
    BY DEF RunPhase, Thinks, Writes
  <1>8. CASE \E r \in Runs : RunPhase(r) \/ Raise(r)
    BY <1>1, <1>2, <1>3, <1>7, <1>8
  <1>9. CASE \E c \in Clones : Operator(c)
    BY <1>4, <1>9
  <1> QED
    BY <1>5, <1>6, <1>8, <1>9 DEF Next

\* Every step keeps the selections behind the holdout runs.
LEMMA StepHoldout ==
    ASSUME TypeInv, RunInv, WriteInv, HoldoutInv, [Next]_vars
    PROVE  HoldoutInv'
  <1> SUFFICES ASSUME NEW q \in Runs, Admitted(q)', mem'[q].phase = "holdout"
               PROVE  SelectionOf(mem[q].body)'
    BY DEF HoldoutInv
  <1>1. CASE RequirePublicFreeze(q)
    <2> DEFINE selection == disk[Here(q)][Result("selection")]
    <2>1. mem[q].phase = "holdout" /\ UNCHANGED <<commits, public>>
      BY <1>1, CheckKeeps DEF repository
    <2>2. /\ PretestFrozen(Here(q), mem[q].body.commit)
          /\ mem' = [mem EXCEPT ![q] = [mem[q] EXCEPT
                 !.body.run = q, !.body.selection = selection.body.run]]
      BY <1>1, <2>1 DEF RequirePublicFreeze, Pass
    <2>3. mem'[q].body.selection = selection.body.run
      BY <2>2 DEF TypeInv, Locals, Bodies
    <2>4. /\ selection.form = "whole" /\ selection.body.pass
          /\ public["holdout"] = mem[q].body.commit
          /\ selection.body.commit \in commits[mem[q].body.commit].line
          /\ Content(selection) = commits[mem[q].body.commit].files[Result("selection")]
      BY <2>2 DEF PretestFrozen, PublicTag, Readable
    <2>5. public["holdout"] # 0
      BY <1>1, <2>1 DEF RunInv, Started, RequirePublicFreeze
    <2> HIDE DEF selection
    <2> QED
      BY <2>1, <2>3, <2>4, <2>5 DEF SelectionOf, Content
  <1>2. CASE /\ Admitted(q) /\ mem'[q].phase = mem[q].phase
             /\ mem'[q].body.selection = mem[q].body.selection
    <2>1. SelectionOf(mem[q].body) /\ public["holdout"] # 0
      BY <1>2 DEF HoldoutInv, SelectionOf
    <2>2. public'["holdout"] = public["holdout"]
          /\ commits'[public["holdout"]] = commits[public["holdout"]]
      BY <2>1, PublicStays DEF Phases
    <2> QED
      BY <1>2, <2>1, <2>2 DEF SelectionOf
  <1> QED
    BY <1>1, <1>2, AdmittedSource DEF SameAdmission

\* Every step keeps what untainted runs loaded.
LEMMA StepLoaded ==
    ASSUME TypeInv, RunInv, WriteInv, LoadedInv, [Next]_vars
    PROVE  LoadedInv'
  <1> SUFFICES ASSUME NEW q \in Runs, q \notin tainted'
               PROVE  /\ pc'[q] \in {"load", "digest"} =>
                             mem'[q].loaded = {source'[Here(q)']}
                      /\ pc'[q] = "freeze" \/ Admitted(q)' =>
                             mem'[q].loaded = {mem'[q].body.source}
    BY DEF LoadedInv, Here
  <1>1. ASSUME pc'[q] \in {"load", "digest", "freeze"}
        PROVE  /\ pc'[q] \in {"load", "digest"} => mem'[q].loaded = {source'[Here(q)']}
               /\ pc'[q] = "freeze" => mem'[q].loaded = {mem'[q].body.source}
    <2>1. CASE Bootstrap(q)
      BY <1>1, <2>1 DEF Bootstrap, Pass, Goto, TypeInv, Here, repository
    <2>2. CASE Load(q)
      <3>1. /\ pc[q] = "load" /\ tainted' = tainted /\ source' = source
            /\ pc'[q] = "digest" /\ Here(q)' = Here(q)
        BY <2>2, CheckKeeps DEF Load, repository
      <3>3. mem[q].loaded = {source[Here(q)]}
        BY <3>1 DEF LoadedInv
      <3>2. mem'[q].loaded = mem[q].loaded \cup {source[Here(q)]}
        BY <2>2 DEF Load, Pass, TypeInv, Locals
      <3> QED
        BY <3>1, <3>2, <3>3
    <2>3. CASE DigestSources(q)
      <3>1. pc[q] = "digest" /\ tainted' = tainted /\ pc'[q] = "freeze"
        BY <2>3, CheckKeeps DEF DigestSources
      <3>2. mem[q].loaded = {source[Here(q)]}
        BY <3>1 DEF LoadedInv
      <3>3. mem'[q].loaded = mem[q].loaded /\ mem'[q].body.source = source[Here(q)]
        BY <2>3 DEF DigestSources, Pass, TypeInv, Locals, Bodies
      <3> QED
        BY <3>1, <3>2, <3>3
    <2>4. CASE ~Bootstrap(q) /\ ~Load(q) /\ ~DigestSources(q)
      <3>1. pc[q] = pc'[q] /\ mem'[q] = mem[q] /\ (q \in tainted => q \in tainted')
        BY <1>1, <2>4, PreparingStays
      <3>2. pc[q] \in {"load", "digest"} => source'[Here(q)] = source[Here(q)]
        BY <1>1, <2>4, PreparingStays
      <3> QED
        BY <3>1, <3>2 DEF LoadedInv, Here
    <2> QED
      BY <2>1, <2>2, <2>3, <2>4
  <1>2. ASSUME Admitted(q)' PROVE mem'[q].loaded = {mem'[q].body.source}
    <2>1. CASE RequirePublicFreeze(q)
      <3>1. pc[q] = "freeze"
        BY <2>1 DEF RequirePublicFreeze
      <3>2. /\ mem'[q].loaded = mem[q].loaded /\ mem'[q].body.source = mem[q].body.source
            /\ tainted' = tainted
        BY <2>1, <3>1, CheckKeeps
      <3> QED
        BY <3>1, <3>2 DEF LoadedInv
    <2>2. CASE ~RequirePublicFreeze(q)
      BY <1>2, <2>2, AdmittedSource DEF LoadedInv, SameAdmission
    <2> QED
      BY <2>1, <2>2
  <1> QED
    BY <1>1, <1>2

(***************************************************************************)
(* The theorems.                                                           *)
(***************************************************************************)
\* The registration commit, no clone, no run.
LEMMA InitInv == Init => IInv
  <1> SUFFICES ASSUME Init PROVE IInv
    OBVIOUS
  <1>1. commits = <<[source |-> "frozen", files |-> Untracked, line |-> {1}]>>
    BY DEF Init
  <1>2. [source |-> "frozen", files |-> Untracked, line |-> {1}] \in Versions
    BY Constants, V5Assumption DEF Versions
  <1>3. commits \in Seq(Versions) /\ Len(commits) = 1 /\ DOMAIN commits = {1}
    BY <1>1, <1>2
  <1>4. History = {1} /\ Len(commits) \in 1..MaxCommits
    BY <1>3, V5Assumption DEF History
  <1>5. TypeInv
    BY <1>3, <1>4, Constants, V5Assumption DEF Init, TypeInv, Phases, Labels, Stages
  <1>6. \A p \in Phases : commits[1].files[Result(p)].form = "absent"
    BY <1>1, Constants DEF Untracked, Content, AbsentFile
  <1>7. \A c \in Clones, p \in Phases : disk[c][Result(p)].form = "absent"
    BY Constants DEF Init, AbsentFile
  <1>8. ResultInv
    BY <1>3, <1>6, <1>7 DEF ResultInv
  <1>9. RunInv /\ WriteInv /\ MarkerInv /\ ExitInv /\ HoldoutInv /\ LoadedInv
    BY DEF Init, RunInv, WriteInv, MarkerInv, ExitInv, HoldoutInv, LoadedInv, Started,
       Admitted
  <1> QED
    BY <1>5, <1>8, <1>9 DEF IInv

\* Every step keeps the whole invariant.
LEMMA StepInv == IInv /\ [Next]_vars => IInv'
  BY StepType, StepRun, StepWrite, StepMarker, StepExit, StepResult, StepHoldout,
     StepLoaded DEF IInv

\* The invariant of the suite.
THEOREM Invariant == Spec => []IInv
  BY InitInv, StepInv, PTL DEF Spec

\* Every variable keeps its type, and every commit its record.
THEOREM TypeCorrect == Spec => []TypeOK
  <1>1. IInv => TypeOK
    <2> SUFFICES ASSUME IInv PROVE TypeOK
      OBVIOUS
    <2>1. TypeInv
      BY DEF IInv
    <2>2. \A i \in DOMAIN commits : i \in History
      BY <2>1, V5Assumption DEF TypeInv, History
    <2>3. History \subseteq 0..MaxCommits /\ 0 \in 0..MaxCommits
      BY <2>1, V5Assumption DEF TypeInv, History
    <2>4. /\ public \in [Phases -> 0..MaxCommits]
          /\ tags \in [Clones -> [Phases -> 0..MaxCommits]]
          /\ head \in [Clones -> 0..MaxCommits]
      BY <2>1, <2>3 DEF TypeInv
    <2> QED
      BY <2>1, <2>2, <2>4, VersionType DEF TypeInv, TypeOK
  <1> QED
    BY <1>1, Invariant, PTL

\* For any number of runs, clones, kills and power losses: a split is resolved only
\* behind a permanent marker of the run that resolves it, which is one for each
\* phase of a clone because the marker's path is.
THEOREM ResolvesOnce == Spec => []SplitOnce
  <1>1. IInv => SplitOnce
    BY DEF IInv, MarkerInv, SplitOnce, TypeInv
  <1> QED
    BY <1>1, Invariant, PTL

\* An exit status of 0 or 2 is never ahead of the medium, and says what it holds.
THEOREM ExitAfterResult == Spec => []ExitIsDurable
  <1>1. IInv => ExitIsDurable
    BY DEF IInv, ExitInv, RunInv, Admitted, ExitIsDurable
  <1> QED
    BY <1>1, Invariant, PTL

\* The test split is never resolved before a selection that passed, resolved the
\* validation split and was published.
THEOREM SelectionComesFirst == Spec => []HoldoutAfterPass
  <1>1. IInv => HoldoutAfterPass
    <2> SUFFICES ASSUME IInv, NEW r \in resolved, mem[r].phase = "holdout"
                 PROVE  /\ public["holdout"] # 0
                        /\ LET selection == commits[public["holdout"]].files[Result("selection")]
                           IN  /\ selection.form = "whole" /\ selection.body.pass
                               /\ selection.body.run \in resolved \ {r}
                               /\ mem[r].body.selection = selection.body.run
                               /\ selection.body.commit = public["selection"]
                               /\ selection.body.commit
                                      \in commits[public["holdout"]].line
      BY DEF HoldoutAfterPass
    <2> DEFINE selection == commits[public["holdout"]].files[Result("selection")]
    <2>1. TypeInv /\ RunInv /\ ResultInv /\ r \in Runs
      BY DEF IInv, TypeInv
    <2>2. SelectionOf(mem[r].body)
      BY <2>1 DEF IInv, HoldoutInv, Admitted
    <2>3. public["holdout"] \in History /\ "holdout" \in Phases /\ "selection" \in Phases
      BY <2>1, <2>2 DEF SelectionOf, TypeInv, Phases
    <2>4. public["holdout"] \in DOMAIN commits
      BY <2>1, <2>3, VersionType
    <2>5. HeldBy("selection", selection.body)
      BY <2>1, <2>2, <2>3, <2>4 DEF ResultInv, SelectionOf
    <2>6. selection.body.run \in resolved /\ mem[selection.body.run].phase = "selection"
          /\ mem[selection.body.run].body = selection.body
      BY <2>5 DEF HeldBy
    <2>7. selection.body.commit = public["selection"]
      BY <2>1, <2>6 DEF RunInv, Started, TypeInv
    <2> QED
      BY <2>2, <2>6, <2>7 DEF SelectionOf
  <1> QED
    BY <1>1, Invariant, PTL

\* What the verifier concludes was earned by a run, with the sources it recorded
\* unless they changed before it digested them, and hides no resolved split.
THEOREM ConclusionsAreEarned == Spec => []EvidenceEarned
  <1>1. IInv => EvidenceEarned
    <2> SUFFICES ASSUME IInv, NEW c \in Clones, head[c] # 0, NoErrors(c)
                 PROVE  /\ \A p \in Phases :
                               LET r == disk[c][Result(p)].body.run IN
                               Present(disk[c][Result(p)]) =>
                                   /\ r \in resolved
                                   /\ disk[c][Result(p)].body = mem[r].body
                                   /\ r \notin tainted =>
                                          mem[r].loaded = {mem[r].body.source}
                        /\ \A r \in resolved : Here(r) = c =>
                               /\ Status(c) # "registration only"
                               /\ mem[r].phase = "holdout" =>
                                      Status(c) # "selection verified"
      BY DEF EvidenceEarned
    <2>1. TypeInv /\ RunInv /\ ResultInv /\ MarkerInv /\ LoadedInv
      BY DEF IInv
    <2>2. ASSUME NEW p \in Phases, Present(disk[c][Result(p)])
          PROVE  LET r == disk[c][Result(p)].body.run IN
                     /\ r \in resolved
                     /\ disk[c][Result(p)].body = mem[r].body
                     /\ r \notin tainted => mem[r].loaded = {mem[r].body.source}
      <3>1. HeldBy(p, disk[c][Result(p)].body)
        BY <2>1, <2>2 DEF ResultInv, Present
      <3> QED
        BY <2>1, <3>1 DEF HeldBy, LoadedInv, Admitted, TypeInv
    <2>3. ASSUME NEW r \in resolved, Here(r) = c
          PROVE  /\ Status(c) # "registration only"
                 /\ mem[r].phase = "holdout" => Status(c) # "selection verified"
      <3>1. Present(disk[c][<<mem[r].phase, "attempt">>]) /\ mem[r].phase \in Phases
        BY <2>1, <2>3 DEF MarkerInv, Settled, File, TypeInv, Locals
      <3>2. CASE mem[r].phase = "selection"
        BY <3>1, <3>2 DEF Status, Attempt
      <3>3. CASE mem[r].phase = "holdout"
        <4>1. Present(disk[c][Attempt("holdout")])
          BY <3>1, <3>3 DEF Attempt
        <4>2. Status(c) # "selection verified"
          BY <4>1 DEF Status
        <4>3. Status(c) # "registration only"
          <5>1. Status(c) = "registration only" =>
                    ~Present(disk[c][Attempt("holdout")])
            BY DEF NoErrors
          <5> QED
            BY <4>1, <5>1
        <4> QED
          BY <4>2, <4>3
      <3> QED
        BY <3>1, <3>2, <3>3 DEF Phases
    <2> QED
      BY <2>2, <2>3
  <1> QED
    BY <1>1, Invariant, PTL

(***************************************************************************)
(* What the verifier's acceptance rests on: how the history of a clone,    *)
(* its files and the runs behind them belong together.                     *)
(***************************************************************************)
\* A commit descends from itself and from earlier commits.
LineInv == \A i \in History : i \in commits[i].line /\ commits[i].line \subseteq 1..i

\* The marker of a result.
Bare(body) == [body EXCEPT !.measured = FALSE, !.pass = FALSE]

\* What the bodies of a phase's files say: the run, its commit and the sources of
\* that commit, the freeze of a holdout, and a verdict that the measures give.
Recorded(phase, body) ==
    /\ public[phase] # 0 /\ body.commit = public[phase]
    /\ commits[body.commit].source = body.source
    /\ body.run # None
    /\ body.pass = body.measured
    /\ (phase = "holdout") = (body.selection # None)
    /\ phase = "holdout" => SelectionOf(body)

\* What a run will record, as far as it has come, and the commit it runs at.
OriginInv ==
    \A r \in Runs :
        /\ Started(r) => mem[r].body.commit \in commits[head[Here(r)]].line
        /\ pc[r] \in {"load", "digest", "freeze"} => mem[r].body.selection = None
        /\ pc[r] \in {"load", "digest", "freeze", "attempt", "resolve"} =>
               ~mem[r].body.measured /\ ~mem[r].body.pass
        /\ pc[r] = "freeze" \/ Admitted(r) =>
               commits[mem[r].body.commit].source = mem[r].body.source
        /\ Admitted(r) => Recorded(mem[r].phase, mem[r].body)
        /\ pc[r] = "resolve" \/ r \in resolved =>
               File(r, "attempt").body = Bare(mem[r].body)

\* A file is of a run at a commit that the HEAD, or the commit that tracks the
\* file, descends from.
FilesInv ==
    /\ \A c \in Clones, f \in Files : disk[c][f].form # "absent" =>
           /\ head[c] # 0
           /\ Recorded(f[1], disk[c][f].body)
           /\ disk[c][f].body.commit \in commits[head[c]].line
    /\ \A i \in History, f \in Files : commits[i].files[f].form # "absent" =>
           /\ Recorded(f[1], commits[i].files[f].body)
           /\ commits[i].files[f].body.commit \in commits[i].line \ {i}

\* A result has its marker.
PairInv ==
    /\ \A c \in Clones, p \in Phases : disk[c][Result(p)].form # "absent" =>
           /\ Settled(disk[c][Attempt(p)]) /\ Readable(disk[c][Attempt(p)])
           /\ disk[c][Attempt(p)].body = Bare(disk[c][Result(p)].body)
    /\ \A i \in History, p \in Phases : commits[i].files[Result(p)].form # "absent" =>
           /\ commits[i].files[Attempt(p)].form = "whole"
           /\ commits[i].files[Attempt(p)].body = Bare(commits[i].files[Result(p)].body)

\* A file that was committed whole is as it was, or is not whole any more and no
\* run of its phase is there to write it again.
Idle(c, phase) == \A r \in Runs : Here(r) = c /\ mem[r].phase = phase => ~Running(r)
TrackedInv ==
    \A f \in Files :
        /\ \A c \in Clones : head[c] # 0 =>
               \A i \in commits[head[c]].line : commits[i].files[f].form = "whole" =>
                   \/ Content(disk[c][f]) = commits[i].files[f]
                   \/ disk[c][f].form # "whole" /\ Idle(c, f[1])
        /\ \A j \in History : \A i \in commits[j].line :
               commits[i].files[f].form = "whole" =>
                   \/ commits[j].files[f] = commits[i].files[f]
                   \/ commits[j].files[f].form # "whole"

TrailInv == LineInv /\ OriginInv /\ FilesInv /\ PairInv /\ TrackedInv

\* The history only grows.
LEMMA HistoryStays ==
    ASSUME TypeInv, RunInv, WriteInv, [Next]_vars, NEW i \in History
    PROVE  i \in History' /\ commits'[i] = commits[i]
  <1>1. ASSUME NEW r \in Runs, RunPhase(r) \/ Raise(r) PROVE commits' = commits
    <2>1. CASE Thinks(r)
      BY <2>1, ThinkKeeps DEF repository
    <2>2. CASE Writes(r)
      BY <2>2, WriteStep DEF repository
    <2>3. CASE Raise(r)
      BY <2>3 DEF Raise, repository
    <2> QED
      BY <1>1, <2>1, <2>2, <2>3 DEF RunPhase, Thinks, Writes
  <1>2. ASSUME NEW c \in Clones, Operator(c)
        PROVE  i \in History' /\ commits'[i] = commits[i]
    BY <1>2, OperatorKeeps
  <1>3. CASE commits' = commits
    BY <1>3 DEF History
  <1> QED
    BY <1>1, <1>2, <1>3 DEF Next, PowerLoss, vars, repository

\* What Commit adds to the history.
LEMMA CommitAdds ==
    ASSUME TypeInv, NEW c \in Clones, Commit(c)
    PROVE  LET i == Len(commits) + 1 IN
           /\ i \notin History /\ History' = History \cup {i}
           /\ head[c] \in History /\ head' = [head EXCEPT ![c] = i]
           /\ \A k \in History : commits'[k] = commits[k]
           /\ \A f \in Files : commits'[i].files[f] = Content(disk[c][f])
           /\ commits'[i].line = commits[head[c]].line \cup {i}
           /\ UNCHANGED <<disk, mem, pc, stage, resolved, public>>
  <1>1. commits \in Seq(Versions) /\ Len(commits) \in Nat
    BY V5Assumption DEF TypeInv
  <1>2. PICK version : /\ commits' = Append(commits, version)
                       /\ version.files = [f \in Files |-> Content(disk[c][f])]
                       /\ version.line = commits[head[c]].line \cup {Len(commits) + 1}
    BY DEF Commit
  <1>3. /\ Len(commits') = Len(commits) + 1
        /\ \A k \in History : commits'[k] = commits[k]
        /\ commits'[Len(commits) + 1] = version
    BY <1>1, <1>2 DEF History
  <1>4. head[c] \in History /\ head' = [head EXCEPT ![c] = Len(commits) + 1]
    BY DEF Commit, TypeInv
  <1> QED
    BY <1>1, <1>2, <1>3, <1>4 DEF History, Commit, control

\* A commit is in the history, or Commit adds it.
LEMMA NewCommit ==
    ASSUME TypeInv, RunInv, WriteInv, [Next]_vars, NEW i \in History', i \notin History
    PROVE  i = Len(commits) + 1 /\ \E c \in Clones : Commit(c)
  <1>1. CASE \E c \in Clones : Commit(c)
    BY <1>1, CommitAdds
  <1>2. ASSUME commits' = commits PROVE FALSE
    BY <1>2 DEF History
  <1>3. ASSUME NEW r \in Runs, RunPhase(r) \/ Raise(r) PROVE commits' = commits
    <2>1. CASE Thinks(r)
      BY <2>1, ThinkKeeps DEF repository
    <2>2. CASE Writes(r)
      BY <2>2, WriteStep DEF repository
    <2>3. CASE Raise(r)
      BY <2>3 DEF Raise, repository
    <2> QED
      BY <1>3, <2>1, <2>2, <2>3 DEF RunPhase, Thinks, Writes
  <1>4. ASSUME NEW c \in Clones, Operator(c), ~Commit(c) PROVE commits' = commits
    BY <1>4 DEF Operator, Clone, Edit, Tag
  <1> QED
    BY <1>1, <1>2, <1>3, <1>4 DEF Next, PowerLoss, vars, repository

\* The HEAD of a clone moves only when the clone is made or commits.
LEMMA HeadMoves ==
    ASSUME TypeInv, RunInv, WriteInv, [Next]_vars, NEW c \in Clones
    PROVE  head'[c] = head[c] \/ Commit(c) \/ Clone(c)
  <1>1. ASSUME NEW r \in Runs, RunPhase(r) \/ Raise(r) PROVE head' = head
    <2>1. CASE Thinks(r)
      BY <2>1, ThinkKeeps DEF repository
    <2>2. CASE Writes(r)
      BY <2>2, WriteStep DEF repository
    <2>3. CASE Raise(r)
      BY <2>3 DEF Raise, repository
    <2> QED
      BY <1>1, <2>1, <2>2, <2>3 DEF RunPhase, Thinks, Writes
  <1>2. ASSUME NEW d \in Clones, Operator(d)
        PROVE  head'[c] = head[c] \/ Commit(c) \/ Clone(c)
    <2>1. CASE Edit(d) \/ \E p \in Phases : Tag(d, p)
      BY <2>1 DEF Edit, Tag
    <2>2. CASE Commit(d) \/ Clone(d)
      BY <2>2 DEF Commit, Clone, TypeInv
    <2> QED
      BY <1>2, <2>1, <2>2 DEF Operator
  <1> QED
    BY <1>1, <1>2 DEF Next, PowerLoss, vars, repository

\* A clone's HEAD never loses a commit it descends from.
LEMMA LineGrows ==
    ASSUME TypeInv, RunInv, WriteInv, [Next]_vars, NEW c \in Clones, head[c] # 0
    PROVE  /\ head[c] \in History /\ head'[c] # 0
           /\ commits[head[c]].line \subseteq commits'[head'[c]].line
  <1>1. head[c] \in History
    BY DEF TypeInv
  <1>2. CASE head'[c] = head[c]
    BY <1>1, <1>2, HistoryStays
  <1>3. CASE Commit(c)
    <2>1. head'[c] = Len(commits) + 1 /\ Len(commits) \in Nat
      BY <1>3, CommitAdds, V5Assumption DEF TypeInv
    <2> QED
      BY <1>1, <1>3, <2>1, CommitAdds
  <1> QED
    BY <1>1, <1>2, <1>3, HeadMoves DEF Clone

\* What is recorded stays true: the commits and the public tags it names do.
LEMMA RecordedStays ==
    ASSUME TypeInv, RunInv, WriteInv, [Next]_vars, NEW p \in Phases, NEW body,
           Recorded(p, body)
    PROVE  Recorded(p, body)'
  <1>1. public[p] # 0 /\ public'[p] = public[p] /\ commits'[public[p]] = commits[public[p]]
    BY PublicStays DEF Recorded
  <1>2. SelectionOf(body) => SelectionOf(body)'
    <2>1. "holdout" \in Phases
      BY DEF Phases
    <2> QED
      BY <2>1, PublicStays DEF SelectionOf
  <1> QED
    BY <1>1, <1>2 DEF Recorded

\* Every step keeps the order of the history.
LEMMA StepLine ==
    ASSUME TypeInv, RunInv, WriteInv, LineInv, [Next]_vars
    PROVE  LineInv'
  <1> SUFFICES ASSUME NEW i \in History'
               PROVE  i \in commits'[i].line /\ commits'[i].line \subseteq 1..i
    BY DEF LineInv
  <1>1. CASE i \in History
    BY <1>1, HistoryStays DEF LineInv
  <1>2. CASE i \notin History
    <2>1. PICK c \in Clones : Commit(c)
      BY <1>2, NewCommit
    <2>2. /\ i = Len(commits) + 1 /\ head[c] \in History
          /\ commits'[i].line = commits[head[c]].line \cup {i}
      BY <1>2, <2>1, NewCommit, CommitAdds
    <2>3. Len(commits) \in Nat /\ head[c] \in 1..Len(commits)
      BY <2>2, V5Assumption DEF History, TypeInv
    <2>4. commits[head[c]].line \subseteq 1..head[c]
      BY <2>2 DEF LineInv
    <2> QED
      BY <2>2, <2>3, <2>4
  <1> QED
    BY <1>1, <1>2

\* How a step moves a run: by a step of the run that thinks, past the end of a
\* write, to its end, or not at all.
LEMMA RunMove ==
    ASSUME TypeInv, RunInv, WriteInv, [Next]_vars, NEW q \in Runs
    PROVE  \/ Thinks(q)
           \/ /\ q \in resolved' <=> q \in resolved
              /\ \/ mem'[q] = mem[q] /\ pc'[q] = pc[q]
                 \/ /\ Writes(q) /\ pc[q] = "attempt" /\ pc'[q] = "resolve"
                    /\ mem'[q] = mem[q] /\ stage[q] = "dirsync"
                 \/ pc'[q] = "ended" /\ (q \in resolved => mem'[q] = mem[q])
  <1> DEFINE Moved == /\ q \in resolved' <=> q \in resolved
                      /\ \/ mem'[q] = mem[q] /\ pc'[q] = pc[q]
                         \/ /\ Writes(q) /\ pc[q] = "attempt" /\ pc'[q] = "resolve"
                            /\ mem'[q] = mem[q] /\ stage[q] = "dirsync"
                         \/ pc'[q] = "ended" /\ (q \in resolved => mem'[q] = mem[q])
  <1>1. ASSUME NEW r \in Runs, Thinks(r), r # q PROVE Moved
    <2>1. mem'[q] = mem[q] /\ pc'[q] = pc[q]
      BY <1>1, ThinkKeeps
    <2>2. q \in resolved' <=> q \in resolved
      <3>1. CASE ResolveModelAndSplit(r)
        BY <1>1, <3>1 DEF ResolveModelAndSplit
      <3>2. CASE ~ResolveModelAndSplit(r)
        BY <1>1, <3>2, ThinkKeeps
      <3> QED
        BY <3>1, <3>2
    <2> QED
      BY <2>1, <2>2
  <1>2. ASSUME NEW r \in Runs, Writes(r) PROVE Moved
    <2>1. UNCHANGED <<mem, resolved>> /\ (r # q => pc'[q] = pc[q])
      BY <1>2, WriteStep
    <2>2. Moves(r, Own(r), disk'[Here(r)][<<mem[r].phase, pc[r]>>])
      BY <1>2, WriteStep
    <2>3. CASE r = q
      BY <1>2, <2>1, <2>2, <2>3 DEF Moves
    <2> QED
      BY <2>1, <2>3
  <1>3. ASSUME NEW r \in Runs, Raise(r) PROVE Moved
    BY <1>3 DEF Raise, Goto, Forget, TypeInv
  <1>4. ASSUME NEW c \in Clones, Operator(c) PROVE Moved
    BY <1>4, OperatorKeeps DEF control
  <1>5. CASE PowerLoss
    BY <1>5, PowerLossRuns
  <1>6. CASE UNCHANGED vars
    BY <1>6 DEF vars, control
  <1>7. \A r \in Runs : RunPhase(r) => Thinks(r) \/ Writes(r)
    BY DEF RunPhase, Thinks, Writes
  <1> QED
    BY <1>1, <1>2, <1>3, <1>4, <1>5, <1>6, <1>7 DEF Next

\* What OriginInv says of one run.
OriginOf(r) ==
    /\ Started(r) => mem[r].body.commit \in commits[head[Here(r)]].line
    /\ pc[r] \in {"load", "digest", "freeze"} => mem[r].body.selection = None
    /\ pc[r] \in {"load", "digest", "freeze", "attempt", "resolve"} =>
           ~mem[r].body.measured /\ ~mem[r].body.pass
    /\ pc[r] = "freeze" \/ Admitted(r) =>
           commits[mem[r].body.commit].source = mem[r].body.source
    /\ Admitted(r) => Recorded(mem[r].phase, mem[r].body)
    /\ pc[r] = "resolve" \/ r \in resolved =>
           File(r, "attempt").body = Bare(mem[r].body)

\* A run that keeps its memory, and its label or one it had before, keeps its origin.
LEMMA OriginFrame ==
    ASSUME TypeInv, RunInv, WriteInv, MarkerInv, [Next]_vars, NEW q \in Runs,
           OriginOf(q), mem'[q] = mem[q], q \in resolved' <=> q \in resolved,
           \/ pc'[q] = pc[q]
           \/ pc'[q] = "ended" /\ q \in resolved
    PROVE  OriginOf(q)'
  <1>1. mem[q].phase \in Phases /\ Here(q)' = Here(q)
    BY DEF TypeInv, Locals, Here
  <1>2. Started(q)' => Started(q)
    BY DEF Started
  <1>3. Admitted(q)' => Admitted(q)
    BY DEF Admitted
  <1>4. Started(q) => /\ mem[q].body.commit \in History
                      /\ commits'[mem[q].body.commit] = commits[mem[q].body.commit]
                      /\ commits[head[Here(q)]].line
                             \subseteq commits'[head'[Here(q)]].line
    <2>1. SUFFICES ASSUME Started(q)
                   PROVE  /\ mem[q].body.commit \in History
                          /\ commits'[mem[q].body.commit] = commits[mem[q].body.commit]
                          /\ commits[head[Here(q)]].line
                                 \subseteq commits'[head'[Here(q)]].line
      OBVIOUS
    <2>2. /\ Here(q) \in Clones /\ head[Here(q)] # 0 /\ public[mem[q].phase] # 0
          /\ mem[q].body.commit = public[mem[q].phase]
      BY <2>1 DEF RunInv
    <2>3. mem[q].body.commit \in History
      BY <1>1, <2>2 DEF TypeInv
    <2> QED
      BY <2>2, <2>3, HistoryStays, LineGrows
  <1>5. Started(q)' => mem[q].body.commit \in commits'[head'[Here(q)]].line
    BY <1>2, <1>4 DEF OriginOf
  <1>6. pc'[q] = "freeze" \/ Admitted(q)' =>
            commits'[mem[q].body.commit].source = mem[q].body.source
    <2>1. pc'[q] = "freeze" => pc[q] = "freeze" /\ Started(q)
      BY DEF Started
    <2>2. Admitted(q) => Started(q)
      BY DEF Admitted, Started
    <2> QED
      BY <1>3, <1>4, <2>1, <2>2 DEF OriginOf
  <1>7. Admitted(q)' => Recorded(mem[q].phase, mem[q].body)'
    <2>1. SUFFICES ASSUME Admitted(q)' PROVE Recorded(mem[q].phase, mem[q].body)'
      OBVIOUS
    <2>2. Recorded(mem[q].phase, mem[q].body)
      BY <1>3, <2>1 DEF OriginOf
    <2>3. PICK p, body : p = mem[q].phase /\ body = mem[q].body
      OBVIOUS
    <2>4. Recorded(p, body)'
      BY <1>1, <2>2, <2>3, RecordedStays
    <2>5. p = mem'[q].phase /\ body = mem'[q].body
      BY <2>3
    <2> QED
      BY <2>4, <2>5
  <1>8. pc'[q] = "resolve" \/ q \in resolved' => File(q, "attempt")'.body = Bare(mem[q].body)
    <2>1. SUFFICES ASSUME pc[q] = "resolve" \/ q \in resolved
                   PROVE  File(q, "attempt")'.body = Bare(mem[q].body)
      OBVIOUS
    <2>2. /\ Here(q) \in Clones /\ head[Here(q)] # 0
          /\ <<mem[q].phase, "attempt">> \in Files
      BY <2>1, StartedType DEF RunInv, Started
    <2>3. Settled(File(q, "attempt")) /\ Readable(File(q, "attempt"))
      BY <2>1 DEF MarkerInv
    <2>4. File(q, "attempt")' = File(q, "attempt")
      BY <1>1, <2>2, <2>3, SettledStays DEF File
    <2> QED
      BY <2>1, <2>4 DEF OriginOf
  <1> QED
    BY <1>1, <1>5, <1>6, <1>7, <1>8 DEF OriginOf, Bare

\* A check that leaves the run past its bootstrap leaves it at its commit.
LEMMA CheckOrigin ==
    ASSUME TypeInv, RunInv, NEW q \in Runs, OriginOf(q),
           \/ Load(q) \/ DigestSources(q) \/ RequirePublicFreeze(q)
           \/ EvaluatePhase(q) \/ VerifyComputedResult(q)
    PROVE  /\ Started(q) /\ UNCHANGED <<repository, disk, resolved>>
           /\ Here(q)' = Here(q) /\ mem'[q].phase = mem[q].phase
           /\ mem'[q].body.commit = mem[q].body.commit
           /\ mem'[q].body.commit \in commits'[head'[Here(q)]].line
  <1>1. Started(q)
    BY DEF Started, Load, DigestSources, RequirePublicFreeze, EvaluatePhase,
           VerifyComputedResult
  <1> QED
    BY <1>1, CheckKeeps DEF OriginOf, repository

\* The steps before a run is admitted.
LEMMA PreparingOrigin ==
    ASSUME TypeInv, RunInv, LineInv, NEW q \in Runs, OriginOf(q),
           Bootstrap(q) \/ Load(q) \/ DigestSources(q)
    PROVE  OriginOf(q)'
  <1>1. mem[q] \in Locals /\ mem[q].body \in Bodies
    BY DEF TypeInv, Locals
  <1>2. CASE Bootstrap(q)
    <2>1. PICK c \in Clones, p \in Phases :
            /\ head[c] # 0
            /\ Pass(q, "load", [clone |-> c, phase |-> p, loaded |-> {source[c]},
                                body |-> [NoBody EXCEPT !.commit = head[c]]])
      BY <1>2 DEF Bootstrap
    <2>2. /\ mem'[q].clone = c /\ mem'[q].body = [NoBody EXCEPT !.commit = head[c]]
          /\ pc'[q] = "load" /\ resolved' = resolved /\ q \notin resolved
          /\ UNCHANGED <<commits, head>>
      BY <1>2, <2>1 DEF Pass, Goto, TypeInv, repository, Bootstrap, RunInv
    <2>3. head[c] \in History /\ head[c] \in commits[head[c]].line
      BY <2>1 DEF TypeInv, LineInv
    <2> QED
      BY <2>2, <2>3 DEF OriginOf, NoBody, Admitted, Here
  <1>3. CASE Load(q)
    <2>1. mem'[q].body = mem[q].body /\ pc'[q] = "digest" /\ pc[q] = "load"
      BY <1>1, <1>3 DEF Load, Pass, Goto, TypeInv, Locals
    <2>2. q \notin resolved
      BY <2>1 DEF RunInv
    <2> QED
      BY <1>3, <2>1, <2>2, CheckOrigin DEF OriginOf, Admitted
  <1>4. CASE DigestSources(q)
    <2>1. /\ mem'[q].body = [mem[q].body EXCEPT !.source = source[Here(q)]]
          /\ pc'[q] = "freeze" /\ pc[q] = "digest" /\ UNCHANGED commits
          /\ commits[mem[q].body.commit].source = source[Here(q)]
      BY <1>1, <1>4 DEF DigestSources, Pass, Goto, TypeInv, Locals, repository
    <2>2. q \notin resolved
      BY <2>1 DEF RunInv
    <2> QED
      BY <1>1, <1>4, <2>1, <2>2, CheckOrigin DEF OriginOf, Admitted, Bodies
  <1> QED
    BY <1>2, <1>3, <1>4

\* A run is admitted with what its files will say.
LEMMA FreezeOrigin ==
    ASSUME TypeInv, RunInv, HoldoutInv, RunInv', HoldoutInv', NEW q \in Runs,
           OriginOf(q), RequirePublicFreeze(q)
    PROVE  OriginOf(q)'
  <1> DEFINE here == disk[Here(q)][Result("selection")]
  <1>1. mem[q] \in Locals /\ mem[q].body \in Bodies
    BY DEF TypeInv, Locals
  <1>2. /\ pc[q] = "freeze" /\ pc'[q] = "attempt" /\ q \notin resolved
        /\ UNCHANGED <<commits, public, resolved>>
    BY CheckKeeps DEF RequirePublicFreeze, RunInv, repository
  <1>3. CASE mem[q].phase = "selection"
    <2>1. mem'[q].body = [mem[q].body EXCEPT !.run = q]
      BY <1>1, <1>3 DEF RequirePublicFreeze, Pass, TypeInv, Locals
    <2> QED
      BY <1>1, <1>2, <1>3, <2>1, CheckOrigin, V5Assumption
      DEF OriginOf, Recorded, Admitted, Bodies, RunInv, Started
  <1>4. CASE mem[q].phase # "selection"
    <2>0. PretestFrozen(Here(q), mem[q].body.commit)
          /\ mem' = [mem EXCEPT ![q] =
                 [mem[q] EXCEPT !.body.run = q, !.body.selection = here.body.run]]
      BY <1>4 DEF RequirePublicFreeze, Pass
    <2> HIDE DEF here
    <2>1. PretestFrozen(Here(q), mem[q].body.commit)
          /\ mem'[q].body = [mem[q].body EXCEPT !.run = q, !.selection = here.body.run]
      BY <1>1, <2>0 DEF TypeInv, Locals
    <2> USE DEF here
    <2>2. /\ AttemptVerified(disk[Here(q)][Attempt("selection")].body)
          /\ disk[Here(q)][Attempt("selection")].body
                 = [here.body EXCEPT !.measured = FALSE, !.pass = FALSE]
      BY <2>1 DEF PretestFrozen, PhaseVerified, MarkerLinked
    <2>3. here.body \in Bodies
      <3>1. Here(q) \in Clones
        BY CheckOrigin DEF RunInv
      <3> QED
        BY <3>1, Constants DEF TypeInv, FileStates, Phases
    <2>4. here.body.run # None
      BY <2>2, <2>3 DEF AttemptVerified, Bodies
    <2>5. mem[q].phase = "holdout"
      BY <1>1, <1>4 DEF Locals, Phases
    <2>6. SelectionOf(mem[q].body)'
      BY <1>2, <2>5, CheckOrigin DEF HoldoutInv, Admitted
    <2> HIDE DEF here
    <2>7. /\ mem'[q].body.run = q /\ mem'[q].body.selection = here.body.run
          /\ mem'[q].body.source = mem[q].body.source
          /\ mem'[q].body.measured = mem[q].body.measured
          /\ mem'[q].body.pass = mem[q].body.pass
      BY <1>1, <2>1 DEF Bodies
    <2>8. /\ public'[mem'[q].phase] # 0
          /\ mem'[q].body.commit = public'[mem'[q].phase]
      BY <1>2 DEF RunInv, Started
    <2>10. mem'[q].phase = "holdout" /\ mem'[q].body.commit = mem[q].body.commit
      BY <2>5, CheckOrigin
    <2>11. /\ commits[mem[q].body.commit].source = mem[q].body.source
           /\ mem[q].body.pass = mem[q].body.measured
      BY <1>1, <1>2 DEF OriginOf, Bodies
    <2>12. q # None
      BY V5Assumption
    <2>9. Recorded(mem[q].phase, mem[q].body)'
      BY <1>2, <2>4, <2>6, <2>7, <2>8, <2>10, <2>11, <2>12 DEF Recorded
    <2> QED
      BY <1>2, <2>7, <2>9, CheckOrigin DEF OriginOf, Admitted
  <1> QED
    BY <1>3, <1>4

\* The split is resolved behind the run's own marker.
LEMMA ResolveOrigin ==
    ASSUME TypeInv, RunInv, NEW q \in Runs, OriginOf(q), ResolveModelAndSplit(q)
    PROVE  OriginOf(q)'
  <1>1. /\ pc[q] = "resolve" /\ pc'[q] = "evaluate"
        /\ UNCHANGED <<mem, disk, commits, head, public>>
    BY DEF ResolveModelAndSplit, Goto, TypeInv, repository
  <1>2. Admitted(q) /\ Started(q)
    BY <1>1 DEF Admitted, Started
  <1> QED
    BY <1>1, <1>2 DEF OriginOf, Recorded, SelectionOf, Here, File

\* What is measured changes the verdict and nothing else of what is recorded.
LEMMA MeasuredOrigin ==
    ASSUME TypeInv, RunInv, RunInv', HoldoutInv', NEW q \in Runs, OriginOf(q),
           EvaluatePhase(q) \/ VerifyComputedResult(q)
    PROVE  OriginOf(q)'
  <1>1. mem[q] \in Locals /\ mem[q].body \in Bodies
    BY DEF TypeInv, Locals
  <1>2. /\ q \in resolved /\ pc[q] \in {"evaluate", "verify"}
        /\ pc'[q] \in {"verify", "result"} /\ Admitted(q) /\ Admitted(q)'
        /\ UNCHANGED <<commits, public, head, disk, resolved>>
    <2>1. /\ pc[q] \in {"evaluate", "verify"} /\ pc'[q] \in {"verify", "result"}
          /\ UNCHANGED <<commits, public, head, disk, resolved>>
      BY CheckKeeps DEF EvaluatePhase, VerifyComputedResult, repository
    <2>2. q \in resolved
      BY <2>1 DEF RunInv
    <2> QED
      BY <2>1, <2>2 DEF Admitted
  <1>3. \E measured \in BOOLEAN :
            mem'[q].body = [mem[q].body EXCEPT !.measured = measured, !.pass = measured]
    <2>1. CASE EvaluatePhase(q)
      <3>1. PICK measured \in BOOLEAN :
                mem' = [mem EXCEPT ![q] = [mem[q] EXCEPT !.body.measured = measured,
                                                         !.body.pass = measured]]
        BY <2>1 DEF EvaluatePhase, Verdict, Pass
      <3>2. mem'[q].body = [mem[q].body EXCEPT !.measured = measured, !.pass = measured]
        BY <1>1, <3>1 DEF TypeInv, Locals
      <3> QED
        BY <3>2
    <2>2. CASE VerifyComputedResult(q)
      <3>1. mem'[q].body = mem[q].body /\ mem[q].body.pass = mem[q].body.measured
        BY <1>2, <2>2 DEF VerifyComputedResult, Pass, TypeInv, OriginOf, Recorded
      <3>2. mem'[q].body = [mem[q].body EXCEPT !.measured = mem[q].body.measured,
                                               !.pass = mem[q].body.measured]
        BY <1>1, <3>1 DEF Bodies
      <3> QED
        BY <1>1, <3>2 DEF Bodies
    <2> QED
      BY <2>1, <2>2
  <1>4. /\ Bare(mem'[q].body) = Bare(mem[q].body)
        /\ mem'[q].body.pass = mem'[q].body.measured
        /\ mem'[q].body.run = mem[q].body.run
        /\ mem'[q].body.source = mem[q].body.source
        /\ mem'[q].body.selection = mem[q].body.selection
    BY <1>1, <1>3 DEF Bare, Bodies
  <1>5. Recorded(mem[q].phase, mem[q].body)'
    BY <1>2, <1>4, CheckOrigin DEF OriginOf, Recorded, SelectionOf
  <1>6. File(q, "attempt")'.body = Bare(mem'[q].body)
    BY <1>2, <1>4, CheckOrigin DEF OriginOf, File
  <1> QED
    BY <1>2, <1>4, <1>5, <1>6, CheckOrigin DEF OriginOf

\* Every step keeps what the runs record and where it comes from.
LEMMA StepOrigin ==
    ASSUME TypeInv, RunInv, WriteInv, MarkerInv, HoldoutInv, LineInv, OriginInv,
           [Next]_vars
    PROVE  OriginInv'
  <1> SUFFICES ASSUME NEW q \in Runs PROVE OriginOf(q)'
    BY DEF OriginInv, OriginOf
  <1>1. OriginOf(q) /\ RunInv' /\ HoldoutInv'
    BY StepRun, StepHoldout DEF OriginInv, OriginOf
  <1>2. CASE Thinks(q)
    BY <1>1, <1>2, PreparingOrigin, FreezeOrigin, ResolveOrigin, MeasuredOrigin
    DEF Thinks
  <1>3. ASSUME q \in resolved' <=> q \in resolved, mem'[q] = mem[q], pc'[q] = pc[q]
        PROVE  OriginOf(q)'
    BY <1>1, <1>3, OriginFrame
  <1>4. ASSUME q \in resolved' <=> q \in resolved, pc'[q] = "ended",
               q \in resolved => mem'[q] = mem[q]
        PROVE  OriginOf(q)'
    <2>1. CASE q \in resolved
      BY <1>1, <1>4, <2>1, OriginFrame
    <2>2. CASE q \notin resolved
      BY <1>4, <2>2 DEF OriginOf, Started, Admitted
    <2> QED
      BY <2>1, <2>2
  <1>5. ASSUME q \in resolved' <=> q \in resolved, Writes(q), pc[q] = "attempt",
               pc'[q] = "resolve", mem'[q] = mem[q], stage[q] = "dirsync"
        PROVE  OriginOf(q)'
    <2>1. /\ UNCHANGED <<repository, mem>>
          /\ Moves(q, Own(q), disk'[Here(q)][<<mem[q].phase, pc[q]>>])
      BY <1>5, WriteStep
    <2>2. Own(q) \in FileStates(Bodies)
      BY <1>5, WriteStep DEF Own, TypeInv
    <2>3. disk'[Here(q)][<<mem[q].phase, "attempt">>].body = mem[q].body
      BY <1>5, <2>1, <2>2 DEF Moves, FileStates
    <2>4. mem[q].body \in Bodies /\ ~mem[q].body.measured /\ ~mem[q].body.pass
      BY <1>1, <1>5 DEF OriginOf, TypeInv, Locals
    <2>5. mem[q].body = Bare(mem[q].body)
      BY <2>4 DEF Bare, Bodies
    <2>6. File(q, "attempt")'.body = Bare(mem'[q].body)
      BY <1>5, <2>3, <2>5 DEF File, Here
    <2>7. Admitted(q) /\ Started(q) /\ q \notin resolved
      BY <1>5 DEF Admitted, Started, RunInv
    <2>8. UNCHANGED <<commits, head, public, mem>>
      BY <2>1 DEF repository
    <2> QED
      BY <1>1, <1>5, <2>6, <2>7, <2>8 DEF OriginOf, Recorded, SelectionOf, Here
  <1> QED
    BY <1>2, <1>3, <1>4, <1>5, RunMove

(***************************************************************************)
(* How a step changes the contents of a file.                              *)
(***************************************************************************)
\* What a new clone holds.
Cloned(c, p) ==
    /\ p \in Phases /\ public[p] # 0 /\ head'[c] = public[p]
    /\ disk'[c] = [f \in Files |-> Fresh(commits[public[p]].files[f])]

\* A step leaves the contents of a file, or a run whose file it is writes it, or
\* its clone is made, or a power loss takes from it.
LEMMA ContentMoves ==
    ASSUME TypeInv, RunInv, WriteInv, [Next]_vars, NEW c \in Clones, NEW f \in Files
    PROVE  \/ Content(disk'[c][f]) = Content(disk[c][f])
           \/ \E r \in Runs :
                  /\ Writes(r) /\ Here(r) = c /\ f = <<mem[r].phase, pc[r]>>
                  /\ disk'[c][f].body = mem[r].body
                  /\ disk[c][f].form # "whole"
           \/ Clone(c) /\ \E p : Cloned(c, p)
           \/ /\ PowerLoss /\ disk'[c][f].form # "whole"
              /\ disk'[c][f].form # "absent" =>
                     disk[c][f].form # "absent" /\ disk'[c][f].body = disk[c][f].body
  <1>1. disk[c][f] \in FileStates(Bodies)
    BY DEF TypeInv
  <1>2. CASE disk'[c] = disk[c]
    BY <1>2
  <1>3. ASSUME NEW r \in Runs, Writes(r)
        PROVE  \/ Content(disk'[c][f]) = Content(disk[c][f])
               \/ /\ Here(r) = c /\ f = <<mem[r].phase, pc[r]>>
                  /\ disk'[c][f].body = mem[r].body
                  /\ disk[c][f].form # "whole"
    <2>1. CASE c # Here(r) \/ f # <<mem[r].phase, pc[r]>>
      <3>1. Kept(disk[c][f], disk'[c][f])
        BY <1>3, <2>1, WriteStep
      <3> QED
        BY <3>1 DEF Kept, Content
    <2>2. CASE c = Here(r) /\ f = <<mem[r].phase, pc[r]>>
      <3>1. Moves(r, disk[c][f], disk'[c][f])
        BY <1>3, <2>2, WriteStep DEF Own
      <3> QED
        BY <1>1, <2>2, <3>1 DEF Moves, Created, Filled, Synced, FileStates, Content
    <2> QED
      BY <2>1, <2>2
  <1>4. ASSUME NEW d \in Clones, Operator(d)
        PROVE  disk'[c] = disk[c] \/ (Clone(c) /\ \E p : Cloned(c, p))
    <2>1. CASE Clone(d) /\ c = d
      <3>1. PICK p \in Phases :
              /\ public[p] # 0 /\ head' = [head EXCEPT ![d] = public[p]]
              /\ disk' = [disk EXCEPT ![d] =
                            [g \in Files |-> Fresh(commits[public[p]].files[g])]]
        BY <2>1 DEF Clone
      <3>2. Cloned(c, p)
        BY <2>1, <3>1 DEF Cloned, TypeInv
      <3> QED
        BY <2>1, <3>2
    <2>2. CASE ~(Clone(d) /\ c = d)
      BY <1>4, <2>2 DEF Operator, Clone, Edit, Commit, Tag, TypeInv
    <2> QED
      BY <2>1, <2>2
  <1>5. CASE PowerLoss
    <2>1. PICK lost, torn : disk'[c] = AfterPowerLoss(disk[c], NoBody, lost, torn)
      BY <1>5, PowerLossDisk
    <2>2. f \in DOMAIN disk[c]
      BY DEF TypeInv
    <2>3. CASE f \in lost
      BY <1>5, <2>1, <2>2, <2>3 DEF AfterPowerLoss, AbsentFile
    <2>4. CASE f \notin lost /\ ~Present(disk[c][f])
      BY <2>1, <2>2, <2>4 DEF AfterPowerLoss
    <2>5. CASE f \notin lost /\ Present(disk[c][f])
      <3>1. disk'[c][f] = [form |-> IF f \in torn THEN "torn" ELSE disk[c][f].form,
                           body |-> disk[c][f].body, data |-> TRUE, entry |-> TRUE]
        BY <2>1, <2>2, <2>5 DEF AfterPowerLoss
      <3> QED
        BY <1>5, <2>5, <3>1 DEF Present, Content
    <2> QED
      BY <2>3, <2>4, <2>5
  <1>6. ASSUME NEW r \in Runs, Thinks(r) \/ Raise(r) PROVE disk'[c] = disk[c]
    BY <1>6, ThinkKeeps DEF Raise
  <1>7. CASE UNCHANGED vars
    BY <1>2, <1>7 DEF vars
  <1>8. \A r \in Runs : RunPhase(r) => Thinks(r) \/ Writes(r)
    BY DEF RunPhase, Thinks, Writes
  <1>9. CASE \E r \in Runs : RunPhase(r) \/ Raise(r)
    BY <1>2, <1>3, <1>6, <1>8, <1>9
  <1>10. CASE \E d \in Clones : Operator(d)
    BY <1>2, <1>4, <1>10
  <1> QED
    BY <1>5, <1>7, <1>9, <1>10 DEF Next

\* Every step keeps what the files of the worktrees say.
LEMMA StepWorktree ==
    ASSUME TypeInv, RunInv, WriteInv, OriginInv, FilesInv, [Next]_vars,
           NEW c \in Clones, NEW f \in Files, disk'[c][f].form # "absent"
    PROVE  /\ head'[c] # 0
           /\ Recorded(f[1], disk[c][f].body)'
           /\ disk'[c][f].body.commit \in commits'[head'[c]].line
  <1>0. f[1] \in Phases
    BY DEF Files
  <1>1. CASE Clone(c) /\ \E p : Cloned(c, p)
    <2>1. PICK p : Cloned(c, p)
      BY <1>1
    <2>2. public[p] \in History /\ commits' = commits /\ public' = public
      BY <1>1, <2>1 DEF Cloned, TypeInv, Clone
    <2>3. /\ disk'[c][f].body = commits[public[p]].files[f].body
          /\ commits[public[p]].files[f].form # "absent"
      BY <2>1 DEF Cloned, Fresh
    <2>4. /\ Recorded(f[1], commits[public[p]].files[f].body)
          /\ commits[public[p]].files[f].body.commit \in commits[public[p]].line
      BY <2>2, <2>3 DEF FilesInv
    <2>5. head'[c] = public[p] /\ public[p] # 0
      BY <2>1 DEF Cloned
    <2> QED
      BY <2>2, <2>3, <2>4, <2>5 DEF Recorded, SelectionOf
  <1>2. CASE disk[c][f].form # "absent" /\ disk'[c][f].body = disk[c][f].body
    <2>1. /\ head[c] # 0 /\ Recorded(f[1], disk[c][f].body)
          /\ disk[c][f].body.commit \in commits[head[c]].line
      BY <1>2 DEF FilesInv
    <2>2. PICK p, body : p = f[1] /\ body = disk[c][f].body
      OBVIOUS
    <2>3. Recorded(p, body)'
      BY <1>0, <2>1, <2>2, RecordedStays
    <2>4. head'[c] # 0 /\ commits[head[c]].line \subseteq commits'[head'[c]].line
      BY <2>1, LineGrows
    <2>5. p = f[1] /\ body = disk'[c][f].body
      BY <1>2, <2>2
    <2>6. Recorded(f[1], disk[c][f].body)'
      BY <2>3, <2>5
    <2> QED
      BY <1>2, <2>1, <2>4, <2>6
  <1>3. ASSUME NEW r \in Runs, Writes(r), Here(r) = c, f = <<mem[r].phase, pc[r]>>,
               disk'[c][f].body = mem[r].body
        PROVE  /\ head'[c] # 0
               /\ Recorded(f[1], disk[c][f].body)'
               /\ disk'[c][f].body.commit \in commits'[head'[c]].line
    <2>1. UNCHANGED <<commits, head, public, mem>> /\ pc[r] \in {"attempt", "result"}
      BY <1>3, WriteStep DEF repository
    <2>2. Admitted(r) /\ Started(r)
      BY <2>1 DEF Admitted, Started, RunInv
    <2>3. /\ Recorded(mem[r].phase, mem[r].body) /\ head[c] # 0
          /\ mem[r].body.commit \in commits[head[c]].line
      BY <1>3, <2>2 DEF OriginInv, RunInv
    <2>4. f[1] = mem[r].phase
      BY <1>3
    <2> QED
      BY <1>3, <2>1, <2>3, <2>4 DEF Recorded, SelectionOf
  <1>4. Content(disk'[c][f]) = Content(disk[c][f]) =>
            disk[c][f].form # "absent" /\ disk'[c][f].body = disk[c][f].body
    BY DEF Content
  <1>5. \/ Clone(c) /\ \E p : Cloned(c, p)
        \/ disk[c][f].form # "absent" /\ disk'[c][f].body = disk[c][f].body
        \/ \E r \in Runs : /\ Writes(r) /\ Here(r) = c /\ f = <<mem[r].phase, pc[r]>>
                           /\ disk'[c][f].body = mem[r].body
    BY <1>4, ContentMoves
  <1> QED
    BY <1>1, <1>2, <1>3, <1>5

\* Every step keeps what the files say, in the worktrees and in the history.
LEMMA StepFiles ==
    ASSUME TypeInv, RunInv, WriteInv, LineInv, OriginInv, FilesInv, [Next]_vars
    PROVE  FilesInv'
  <1>1. ASSUME NEW i \in History', NEW f \in Files, commits'[i].files[f].form # "absent"
        PROVE  /\ Recorded(f[1], commits[i].files[f].body)'
               /\ commits'[i].files[f].body.commit \in commits'[i].line \ {i}
    <2>0. f[1] \in Phases
      BY DEF Files
    <2>1. \E body : /\ body = commits'[i].files[f].body
                    /\ Recorded(f[1], body)
                    /\ body.commit \in commits'[i].line \ {i}
      <3>1. CASE i \in History
        BY <1>1, <3>1, HistoryStays DEF FilesInv
      <3>2. CASE i \notin History
        <4>1. PICK c \in Clones : Commit(c)
          BY <3>2, NewCommit
        <4>2. /\ i = Len(commits) + 1 /\ head[c] \in History
              /\ commits'[i].files[f] = Content(disk[c][f])
              /\ commits'[i].line = commits[head[c]].line \cup {i}
          BY <3>2, <4>1, NewCommit, CommitAdds
        <4>3. /\ disk[c][f].form # "absent"
              /\ commits'[i].files[f].body = disk[c][f].body
          BY <1>1, <4>2 DEF Content
        <4>4. /\ Recorded(f[1], disk[c][f].body)
              /\ disk[c][f].body.commit \in commits[head[c]].line
          BY <4>3 DEF FilesInv
        <4>5. commits[head[c]].line \subseteq History /\ i \notin History
          <5>1. Len(commits) \in Nat /\ head[c] \in 1..Len(commits)
            BY <4>2, V5Assumption DEF TypeInv, History
          <5>2. commits[head[c]].line \subseteq 1..head[c]
            BY <4>2 DEF LineInv
          <5> QED
            BY <3>2, <5>1, <5>2 DEF History
        <4> QED
          BY <4>2, <4>3, <4>4, <4>5
      <3> QED
        BY <3>1, <3>2
    <2>2. PICK p, body : /\ p = f[1] /\ body = commits'[i].files[f].body
                         /\ Recorded(p, body)
                         /\ body.commit \in commits'[i].line \ {i}
      BY <2>1
    <2>3. Recorded(p, body)'
      BY <2>0, <2>2, RecordedStays
    <2>4. Recorded(f[1], commits[i].files[f].body)'
      BY <2>2, <2>3
    <2> QED
      BY <2>2, <2>4
  <1> QED
    BY <1>1, StepWorktree DEF FilesInv

\* What a clone checks out is on the medium.
LEMMA FreshIsSettled ==
    ASSUME NEW content, content.form = "whole"
    PROVE  Settled(Fresh(content)) /\ Readable(Fresh(content))
  <1>1. (content.form # "absent") = TRUE
    OBVIOUS
  <1>2. Fresh(content) = [form |-> "whole", body |-> content.body,
                          data |-> TRUE, entry |-> TRUE]
    BY <1>1 DEF Fresh
  <1> QED
    BY <1>2 DEF Settled, Present, Readable

\* Every step keeps the markers of the results.
LEMMA StepPair ==
    ASSUME TypeInv, RunInv, WriteInv, MarkerInv, LineInv, OriginInv, FilesInv, PairInv,
           [Next]_vars
    PROVE  PairInv'
  <1>1. ASSUME NEW c \in Clones, NEW p \in Phases, disk'[c][Result(p)].form # "absent"
        PROVE  /\ Settled(disk'[c][Attempt(p)]) /\ Readable(disk'[c][Attempt(p)])
               /\ disk'[c][Attempt(p)].body = Bare(disk'[c][Result(p)].body)
    <2>0. Result(p) \in Files /\ Attempt(p) \in Files
      BY Constants
    <2>1. CASE Clone(c) /\ \E q : Cloned(c, q)
      <3>1. PICK q : Cloned(c, q)
        BY <2>1
      <3>2. public[q] \in History
        BY <3>1 DEF Cloned, TypeInv
      <3>3. /\ disk'[c][Result(p)] = Fresh(commits[public[q]].files[Result(p)])
            /\ disk'[c][Attempt(p)] = Fresh(commits[public[q]].files[Attempt(p)])
        BY <2>0, <3>1 DEF Cloned
      <3>4. /\ commits[public[q]].files[Attempt(p)].form = "whole"
            /\ commits[public[q]].files[Attempt(p)].body
                   = Bare(commits[public[q]].files[Result(p)].body)
        BY <1>1, <3>2, <3>3 DEF PairInv, Fresh
      <3>5. /\ disk'[c][Result(p)].body = commits[public[q]].files[Result(p)].body
            /\ disk'[c][Attempt(p)].body = commits[public[q]].files[Attempt(p)].body
        BY <3>3 DEF Fresh
      <3>6. Settled(disk'[c][Attempt(p)]) /\ Readable(disk'[c][Attempt(p)])
        BY <3>3, <3>4, FreshIsSettled
      <3> QED
        BY <3>4, <3>5, <3>6, Zenon
    <2>2. CASE /\ disk[c][Result(p)].form # "absent"
               /\ disk'[c][Result(p)].body = disk[c][Result(p)].body
      <3>1. /\ Settled(disk[c][Attempt(p)]) /\ Readable(disk[c][Attempt(p)])
            /\ disk[c][Attempt(p)].body = Bare(disk[c][Result(p)].body)
            /\ head[c] # 0
        BY <2>0, <2>2 DEF PairInv, FilesInv
      <3>2. disk'[c][Attempt(p)] = disk[c][Attempt(p)]
        BY <2>0, <3>1, SettledStays
      <3> QED
        BY <2>2, <3>1, <3>2
    <2>3. ASSUME NEW r \in Runs, Writes(r), Here(r) = c,
                 Result(p) = <<mem[r].phase, pc[r]>>,
                 disk'[c][Result(p)].body = mem[r].body
          PROVE  /\ Settled(disk'[c][Attempt(p)]) /\ Readable(disk'[c][Attempt(p)])
                 /\ disk'[c][Attempt(p)].body = Bare(disk'[c][Result(p)].body)
      <3>1. pc[r] = "result" /\ mem[r].phase = p /\ r \in resolved
        BY <2>3 DEF Result, RunInv
      <3>2. /\ Settled(disk[c][Attempt(p)]) /\ Readable(disk[c][Attempt(p)])
            /\ disk[c][Attempt(p)].body = Bare(mem[r].body)
        BY <2>3, <3>1 DEF MarkerInv, OriginInv, File, Attempt
      <3>3. disk'[c][Attempt(p)] = disk[c][Attempt(p)]
        BY <2>0, <3>1, <3>2, <2>3, SettledStays DEF RunInv, Started
      <3> QED
        BY <2>3, <3>2, <3>3
    <2>4. Content(disk'[c][Result(p)]) = Content(disk[c][Result(p)]) =>
              /\ disk[c][Result(p)].form # "absent"
              /\ disk'[c][Result(p)].body = disk[c][Result(p)].body
      BY <1>1 DEF Content
    <2> QED
      BY <1>1, <2>0, <2>1, <2>2, <2>3, <2>4, ContentMoves
  <1>2. ASSUME NEW i \in History', NEW p \in Phases,
               commits'[i].files[Result(p)].form # "absent"
        PROVE  /\ commits'[i].files[Attempt(p)].form = "whole"
               /\ commits'[i].files[Attempt(p)].body
                      = Bare(commits'[i].files[Result(p)].body)
    <2>1. CASE i \in History
      BY <1>2, <2>1, HistoryStays DEF PairInv
    <2>2. CASE i \notin History
      <3>1. PICK c \in Clones : Commit(c)
        BY <2>2, NewCommit
      <3>2. /\ commits'[i].files[Result(p)] = Content(disk[c][Result(p)])
            /\ commits'[i].files[Attempt(p)] = Content(disk[c][Attempt(p)])
        BY <2>2, <3>1, NewCommit, CommitAdds, Constants
      <3> QED
        BY <1>2, <3>2 DEF PairInv, Content, Readable
    <2> QED
      BY <2>1, <2>2
  <1> QED
    BY <1>1, <1>2 DEF PairInv

\* No run comes to a phase at a clone where a file of that phase was committed:
\* the file is of a commit that came after the public one, and the run would be
\* at the public one.
LEMMA IdleStays ==
    ASSUME TypeInv, RunInv, WriteInv, LineInv, FilesInv, [Next]_vars,
           NEW c \in Clones, NEW f \in Files, head[c] # 0, Idle(c, f[1]),
           NEW i \in commits[head[c]].line, commits[i].files[f].form = "whole"
    PROVE  Idle(c, f[1])'
  <1> SUFFICES ASSUME NEW q \in Runs, Here(q)' = c, mem'[q].phase = f[1], Running(q)'
               PROVE  FALSE
    BY DEF Idle, Here
  <1>1. ~(Here(q) = c /\ mem[q].phase = f[1] /\ Running(q))
    BY DEF Idle
  <1>2. CASE Thinks(q) /\ pc[q] # "idle"
    BY <1>1, <1>2, ThinkKeeps DEF Running
  <1>3. CASE Thinks(q) /\ pc[q] = "idle"
    <2>1. Bootstrap(q)
      BY <1>3 DEF Thinks, Load, DigestSources, RequirePublicFreeze,
             ResolveModelAndSplit, EvaluatePhase, VerifyComputedResult
    <2>2. PICK d \in Clones, p \in Phases :
            /\ PublicTag(d, p, head[d])
            /\ Pass(q, "load", [clone |-> d, phase |-> p, loaded |-> {source[d]},
                                body |-> [NoBody EXCEPT !.commit = head[d]]])
      BY <2>1 DEF Bootstrap
    <2>3. d = c /\ p = f[1]
      BY <2>2 DEF Pass, TypeInv, Here
    <2>4. public[f[1]] = head[c]
      BY <2>2, <2>3 DEF PublicTag
    <2>5. Len(commits) \in Nat /\ head[c] \in 1..Len(commits)
      BY V5Assumption DEF TypeInv, History
    <2>6. i \in 1..head[c] /\ i \in History
      BY <2>5 DEF LineInv, History
    <2>7. commits[i].files[f].body.commit = head[c]
          /\ head[c] \in commits[i].line \ {i}
      BY <2>4, <2>6 DEF FilesInv, Recorded
    <2>8. commits[i].line \subseteq 1..i
      BY <2>6 DEF LineInv
    <2> QED
      BY <2>5, <2>6, <2>7, <2>8
  <1>4. CASE mem'[q] = mem[q] /\ (pc'[q] = pc[q] \/ Writes(q))
    BY <1>1, <1>4, WriteStep DEF Here, Running
  <1>5. CASE pc'[q] = "ended"
    BY <1>5 DEF Running
  <1> QED
    BY <1>2, <1>3, <1>4, <1>5, RunMove

\* Every step keeps what was committed whole, or leaves nobody to replace it.
LEMMA StepTrackedDisk ==
    ASSUME TypeInv, RunInv, WriteInv, LineInv, FilesInv, TrackedInv, [Next]_vars,
           NEW c \in Clones, NEW f \in Files, head'[c] # 0,
           NEW i \in commits'[head'[c]].line, commits'[i].files[f].form = "whole"
    PROVE  \/ Content(disk'[c][f]) = commits'[i].files[f]
           \/ disk'[c][f].form # "whole" /\ Idle(c, f[1])'
  <1>1. CASE Clone(c)
    <2>1. PICK p \in Phases :
              /\ public[p] # 0 /\ head' = [head EXCEPT ![c] = public[p]]
              /\ disk' = [disk EXCEPT ![c] =
                            [g \in Files |-> Fresh(commits[public[p]].files[g])]]
      BY <1>1 DEF Clone
    <2>2. /\ public[p] \in History /\ head'[c] = public[p] /\ commits' = commits
          /\ disk'[c][f] = Fresh(commits[public[p]].files[f])
      BY <1>1, <2>1 DEF TypeInv, Clone
    <2>3. commits[public[p]].files[f] \in Contents
      BY <2>2, VersionType
    <2>4. Content(disk'[c][f]) = commits[public[p]].files[f]
      BY <2>2, <2>3 DEF Content, Fresh, Contents
    <2>5. \/ commits[public[p]].files[f] = commits[i].files[f]
          \/ commits[public[p]].files[f].form # "whole"
      BY <2>2 DEF TrackedInv
    <2>6. Idle(c, f[1])'
      <3>1. head[c] = 0 /\ mem' = mem /\ pc' = pc
        BY <1>1 DEF Clone, control
      <3> QED
        BY <3>1 DEF Idle, Running, Here, RunInv, Started
    <2> QED
      BY <2>2, <2>4, <2>5, <2>6 DEF Content
  <1> SUFFICES ASSUME ~Clone(c)
               PROVE  \/ Content(disk'[c][f]) = commits'[i].files[f]
                      \/ disk'[c][f].form # "whole" /\ Idle(c, f[1])'
    BY <1>1
  <1>2. CASE Commit(c) /\ i = Len(commits) + 1
    BY <1>2, CommitAdds
  <1>3. CASE ~(Commit(c) /\ i = Len(commits) + 1)
    <2>1. /\ head[c] # 0 /\ head[c] \in History
          /\ i \in commits[head[c]].line /\ i \in History /\ commits'[i] = commits[i]
      <3>1. head[c] # 0 /\ head[c] \in History
        BY HeadMoves DEF TypeInv, Commit
      <3>2. i \in commits[head[c]].line
        <4>1. CASE Commit(c)
          <5>1. head'[c] = Len(commits) + 1
            BY <4>1, CommitAdds DEF TypeInv
          <5> QED
            BY <1>3, <4>1, <5>1, CommitAdds
        <4>2. CASE ~Commit(c)
          BY <3>1, <4>2, HeadMoves, HistoryStays
        <4> QED
          BY <4>1, <4>2
      <3>3. Len(commits) \in Nat /\ head[c] \in 1..Len(commits)
        BY <3>1, V5Assumption DEF TypeInv, History
      <3>4. i \in History
        BY <3>1, <3>2, <3>3 DEF LineInv, History
      <3> QED
        BY <3>1, <3>2, <3>4, HistoryStays
    <2>2. \/ Content(disk[c][f]) = commits[i].files[f]
          \/ disk[c][f].form # "whole" /\ Idle(c, f[1])
      BY <2>1 DEF TrackedInv
    <2>3. Idle(c, f[1]) => Idle(c, f[1])'
      BY <2>1, IdleStays
    <2>4. CASE Content(disk'[c][f]) = Content(disk[c][f])
      BY <2>1, <2>2, <2>3, <2>4 DEF Content
    <2>5. CASE PowerLoss /\ disk'[c][f].form # "whole"
      <3>1. Idle(c, f[1])'
        BY <2>5, PowerLossRuns DEF Idle, Running
      <3> QED
        BY <2>5, <3>1
    <2>6. ASSUME NEW r \in Runs, Writes(r), Here(r) = c, f = <<mem[r].phase, pc[r]>>,
                 disk[c][f].form # "whole"
          PROVE  FALSE
      <3>1. ~Idle(c, f[1])
        <4>1. Running(r) /\ mem[r].phase = f[1]
          BY <2>6, WriteStep DEF Running
        <4> QED
          BY <2>6, <4>1 DEF Idle
      <3> QED
        BY <2>1, <2>2, <2>6, <3>1 DEF Content
    <2> QED
      BY <2>4, <2>5, <2>6, ContentMoves
  <1> QED
    BY <1>2, <1>3

\* The same for the commits of the history.
LEMMA StepTracked ==
    ASSUME TypeInv, RunInv, WriteInv, LineInv, FilesInv, TrackedInv, [Next]_vars
    PROVE  TrackedInv'
  <1>1. ASSUME NEW f \in Files, NEW j \in History', NEW i \in commits'[j].line,
               commits'[i].files[f].form = "whole"
        PROVE  \/ commits'[j].files[f] = commits'[i].files[f]
               \/ commits'[j].files[f].form # "whole"
    <2>0. \A k \in History : commits[k].line \subseteq History
      BY V5Assumption DEF LineInv, History, TypeInv
    <2>1. CASE j \in History
      BY <1>1, <2>0, <2>1, HistoryStays DEF TrackedInv
    <2>2. CASE j \notin History
      <3>1. PICK c \in Clones : Commit(c)
        BY <2>2, NewCommit
      <3>2. /\ head[c] \in History /\ head[c] # 0
            /\ commits'[j].files[f] = Content(disk[c][f])
            /\ commits'[j].line = commits[head[c]].line \cup {j}
        BY <2>2, <3>1, NewCommit, CommitAdds DEF Commit
      <3>3. CASE i = j
        BY <3>3
      <3>4. CASE i \in commits[head[c]].line
        <4>1. commits'[i] = commits[i]
          BY <2>0, <3>2, <3>4, HistoryStays
        <4>2. \/ Content(disk[c][f]) = commits[i].files[f]
              \/ disk[c][f].form # "whole"
          BY <1>1, <3>2, <3>4, <4>1 DEF TrackedInv
        <4> QED
          BY <3>2, <4>1, <4>2 DEF Content
      <3> QED
        BY <3>2, <3>3, <3>4
    <2> QED
      BY <2>1, <2>2
  <1>2. ASSUME NEW f \in Files, NEW c \in Clones, head'[c] # 0,
               NEW i \in commits'[head'[c]].line, commits'[i].files[f].form = "whole"
        PROVE  \/ Content(disk'[c][f]) = commits'[i].files[f]
               \/ disk'[c][f].form # "whole" /\ Idle(c, f[1])'
    BY <1>2, StepTrackedDisk
  <1> QED
    BY <1>1, <1>2 DEF TrackedInv, Idle, Here, Running

\* At the start nothing is committed but the sources, and nothing runs.
LEMMA InitTrail == Init => TrailInv
  <1> SUFFICES ASSUME Init PROVE TrailInv
    OBVIOUS
  <1>1. /\ commits = <<[source |-> "frozen", files |-> Untracked, line |-> {1}]>>
        /\ History = {1} /\ commits[1].files = Untracked /\ commits[1].line = {1}
    BY DEF Init, History
  <1>2. \A f \in Files : commits[1].files[f].form = "absent"
    BY <1>1 DEF Untracked, Content, AbsentFile
  <1>3. \A c \in Clones, f \in Files : disk[c][f].form = "absent"
    BY DEF Init, AbsentFile
  <1>4. LineInv
    BY <1>1 DEF LineInv
  <1>5. OriginInv
    BY DEF Init, OriginInv, Started, Admitted
  <1>6. FilesInv /\ PairInv
    BY <1>1, <1>2, <1>3, Constants DEF FilesInv, PairInv
  <1>7. TrackedInv
    BY <1>1, <1>2 DEF Init, TrackedInv
  <1> QED
    BY <1>4, <1>5, <1>6, <1>7 DEF TrailInv

\* The trail of commits, files and runs belongs together in every state.
THEOREM TrailInvariant == Spec => []TrailInv
  <1>1. IInv /\ TrailInv /\ [Next]_vars => TrailInv'
    BY StepLine, StepOrigin, StepFiles, StepPair, StepTracked DEF IInv, TrailInv
  <1> QED
    BY <1>1, InitTrail, Invariant, PTL DEF Spec

(***************************************************************************)
(* The verifier accepts what undisturbed runs leave.                       *)
(***************************************************************************)
\* A file of an undisturbed clone is whole, and its phase's tag is its commit.
LEMMA UndisturbedFile ==
    ASSUME TypeInv, FilesInv, NEW c \in Clones, Undisturbed(c),
           NEW f \in Files, Present(disk[c][f])
    PROVE  /\ Readable(disk[c][f]) /\ Unmodified(c, f)
           /\ Recorded(f[1], disk[c][f].body)
           /\ RecordedAtCommit(disk[c][f].body)
           /\ tags[c][f[1]] = disk[c][f].body.commit
           /\ disk[c][f].body.commit \in commits[head[c]].line
           /\ Registration(disk[c][f].body.source) = Registration(source[c])
  <1>1. /\ Recorded(f[1], disk[c][f].body)
        /\ disk[c][f].body.commit \in commits[head[c]].line
    BY DEF FilesInv, Present
  <1>2. f[1] \in Phases
    BY DEF Files
  <1>3. public[f[1]] \in DOMAIN commits
    BY <1>1, <1>2, VersionType DEF TypeInv, Recorded
  <1>4. Unmodified(c, f)
    BY DEF Undisturbed, CleanExcept
  <1> QED
    BY <1>1, <1>3, <1>4 DEF Undisturbed, Recorded, RecordedAtCommit

\* Its results pass every check of their phase, and its markers stand alone.
LEMMA UndisturbedPhase ==
    ASSUME TypeInv, FilesInv, PairInv, NEW c \in Clones, Undisturbed(c), NEW p \in Phases
    PROVE  /\ Present(disk[c][Result(p)]) => PhaseAccepted(c, p)
           /\ Present(disk[c][Attempt(p)]) => StandaloneAttempt(c, p)
  <1>1. /\ Result(p) \in Files /\ Attempt(p) \in Files
        /\ Result(p)[1] = p /\ Attempt(p)[1] = p
    BY Constants DEF Result, Attempt
  <1>2. ASSUME Present(disk[c][Attempt(p)])
        PROVE  /\ Readable(disk[c][Attempt(p)])
               /\ AttemptVerified(disk[c][Attempt(p)].body)
               /\ tags[c][p] = disk[c][Attempt(p)].body.commit
    BY <1>1, <1>2, UndisturbedFile DEF AttemptVerified, Recorded
  <1>3. ASSUME Present(disk[c][Result(p)]) PROVE PhaseAccepted(c, p)
    <2> DEFINE body == disk[c][Result(p)].body
    <2>1. /\ Recorded(p, body) /\ RecordedAtCommit(body)
          /\ tags[c][p] = body.commit
          /\ Registration(body.source) = Registration(source[c])
      BY <1>1, <1>3, UndisturbedFile
    <2>2. /\ Present(disk[c][Attempt(p)])
          /\ disk[c][Attempt(p)].body = [body EXCEPT !.measured = FALSE, !.pass = FALSE]
      BY <1>3 DEF PairInv, Bare, Readable, Present
    <2>3. MarkerLinked(c, p, body)
      BY <1>2, <2>2 DEF MarkerLinked
    <2>4. VerdictRecomputed(body)
      BY <2>1 DEF VerdictRecomputed, Verdict, Recorded
    <2>5. MatchesHead(c, p)
      BY <1>1, <1>3, <2>2, UndisturbedFile DEF MatchesHead
    <2>6. (p = "holdout") = (body.selection # None)
      BY <2>1 DEF Recorded
    <2>7. PhaseVerified(c, p, body)
      BY <2>1, <2>3, <2>4, <2>6 DEF PhaseVerified
    <2> QED
      BY <2>1, <2>4, <2>5, <2>7 DEF PhaseAccepted
  <1> QED
    BY <1>2, <1>3 DEF StandaloneAttempt

\* A file of the holdout comes with the selection that its freeze names, as the
\* public commit holds it.
LEMMA UndisturbedHoldout ==
    ASSUME TypeInv, FilesInv, PairInv, TrackedInv, NEW c \in Clones, Undisturbed(c),
           NEW f \in Files, f[1] = "holdout", Present(disk[c][f])
    PROVE  LET selection == disk[c][Result("selection")] IN
           /\ Present(selection) /\ selection.body.pass
           /\ disk[c][f].body.selection = selection.body.run
           /\ tags[c]["holdout"] # 0
           /\ \A g \in {Result("selection"), Attempt("selection")} :
                  commits[tags[c]["holdout"]].files[g] = Content(disk[c][g])
  <1> DEFINE i == public["holdout"]
  <1>0. "selection" \in Phases /\ "holdout" \in Phases
    BY DEF Phases
  <1>1. /\ Recorded("holdout", disk[c][f].body) /\ i # 0
        /\ tags[c]["holdout"] = i
        /\ i \in commits[head[c]].line /\ SelectionOf(disk[c][f].body)
    BY UndisturbedFile DEF Recorded
  <1>2. i \in History
    BY <1>0, <1>1 DEF TypeInv
  <1>3. commits[i].files[Result("selection")].form = "whole"
    BY <1>1 DEF SelectionOf
  <1>4. commits[i].files[Attempt("selection")].form = "whole"
    BY <1>0, <1>2, <1>3 DEF PairInv
  <1>5. ASSUME NEW g \in Files, commits[i].files[g].form = "whole"
        PROVE  Present(disk[c][g]) /\ commits[i].files[g] = Content(disk[c][g])
    <2>1. Present(disk[c][g]) /\ head[c] # 0
      BY <1>1, <1>5 DEF Undisturbed
    <2>2. disk[c][g].form = "whole"
      BY <2>1, UndisturbedFile DEF Readable
    <2> QED
      BY <1>1, <1>5, <2>1, <2>2 DEF TrackedInv
  <1>6. \A g \in {Result("selection"), Attempt("selection")} :
            Present(disk[c][g]) /\ commits[i].files[g] = Content(disk[c][g])
    BY <1>0, <1>3, <1>4, <1>5, Constants
  <1>7. /\ disk[c][Result("selection")].body.pass
        /\ disk[c][f].body.selection = disk[c][Result("selection")].body.run
    BY <1>1, <1>6 DEF SelectionOf, Content
  <1> QED
    BY <1>1, <1>6, <1>7

\* For any history of runs, commits, clones and power losses: in a clone whose
\* artifacts are committed as they are and that lost none, with its tags and its
\* registration, the verifier finds no error.
THEOREM UndisturbedIsAccepted == Spec => []EvidenceAccepted
  <1>1. IInv /\ TrailInv => EvidenceAccepted
    <2> SUFFICES ASSUME IInv, TrailInv, NEW c \in Clones, Undisturbed(c)
                 PROVE  NoErrors(c)
      BY DEF EvidenceAccepted
    <2>1. TypeInv /\ FilesInv /\ PairInv /\ TrackedInv
      BY DEF IInv, TrailInv
    <2>2. \A p \in Phases : /\ Present(disk[c][Result(p)]) => PhaseAccepted(c, p)
                            /\ Present(disk[c][Attempt(p)]) => StandaloneAttempt(c, p)
      BY <2>1, UndisturbedPhase
    <2>3. /\ "selection" \in Phases /\ "holdout" \in Phases
          /\ \A p \in Phases : Result(p) \in Files /\ Attempt(p) \in Files
      BY Constants DEF Phases
    <2>4. \A f \in Files : Present(disk[c][f]) => Readable(disk[c][f])
      BY <2>1, UndisturbedFile
    <2>5. source[c] = commits[head[c]].source
      BY DEF Undisturbed, CleanExcept
    <2>6. \A f \in {Result("holdout"), Attempt("holdout")} :
              Present(disk[c][f]) =>
                  /\ Present(disk[c][Result("selection")])
                  /\ disk[c][Result("selection")].body.pass
      <3>1. \A f \in {Result("holdout"), Attempt("holdout")} : f \in Files /\ f[1] = "holdout"
        <4>1. Result("holdout")[1] = "holdout" /\ Attempt("holdout")[1] = "holdout"
          BY DEF Result, Attempt
        <4> QED
          BY <2>3, <4>1
      <3> QED
        BY <2>1, <3>1, UndisturbedHoldout
    <2>7. Present(disk[c][Result("holdout")]) => FreezeAccepted(c)
      <3>1. Result("holdout") \in Files /\ Result("holdout")[1] = "holdout"
        BY <2>3 DEF Result
      <3> QED
        BY <2>1, <3>1, UndisturbedHoldout DEF FreezeAccepted
    <2>8. CASE ~Present(disk[c][Result("selection")])
      <3>1. \A f \in {Result("holdout"), Attempt("holdout")} : ~Present(disk[c][f])
        BY <2>6, <2>8
      <3>2. CASE ~Present(disk[c][Attempt("selection")])
        <4>1. Status(c) = "registration only"
          BY <2>8, <3>2 DEF Status
        <4> QED
          BY <2>5, <3>1, <4>1 DEF NoErrors
      <3>3. CASE Present(disk[c][Attempt("selection")])
        <4>1. Status(c) = "selection incomplete"
          BY <2>8, <3>3 DEF Status
        <4>2. StandaloneAttempt(c, "selection")
          BY <2>2, <2>3, <3>3
        <4> QED
          BY <2>5, <3>1, <4>1, <4>2 DEF NoErrors
      <3> QED
        BY <3>2, <3>3
    <2>9. CASE Present(disk[c][Result("selection")])
      <3>1. PhaseAccepted(c, "selection") /\ Readable(disk[c][Result("selection")])
        BY <2>2, <2>3, <2>4, <2>9
      <3>2. CASE ~Present(disk[c][Result("holdout")]) /\ ~Present(disk[c][Attempt("holdout")])
        <4>1. Status(c) = "selection verified"
          BY <2>9, <3>1, <3>2 DEF Status
        <4> QED
          BY <2>5, <3>1, <4>1 DEF NoErrors
      <3>3. CASE ~Present(disk[c][Result("holdout")]) /\ Present(disk[c][Attempt("holdout")])
        <4>1. Status(c) = "holdout incomplete"
          BY <2>9, <3>1, <3>3 DEF Status
        <4>2. StandaloneAttempt(c, "holdout") /\ disk[c][Result("selection")].body.pass
          BY <2>2, <2>3, <2>6, <3>3
        <4> QED
          BY <2>5, <3>1, <4>1, <4>2 DEF NoErrors
      <3>4. CASE Present(disk[c][Result("holdout")])
        <4>1. Readable(disk[c][Result("holdout")])
          BY <2>3, <2>4, <3>4
        <4>2. Status(c) = "holdout verified"
          BY <2>9, <3>1, <3>4, <4>1 DEF Status
        <4>3. /\ PhaseAccepted(c, "holdout") /\ FreezeAccepted(c)
              /\ disk[c][Result("selection")].body.pass
          BY <2>2, <2>3, <2>6, <2>7, <3>4
        <4> QED
          BY <2>5, <3>1, <4>2, <4>3 DEF NoErrors
      <3> QED
        BY <3>2, <3>3, <3>4
    <2> QED
      BY <2>8, <2>9
  <1> QED
    BY <1>1, Invariant, TrailInvariant, PTL
=============================================================================
