-------------------------- MODULE PortfolioAttempt --------------------------
(***************************************************************************)
(* The one automated demonstration of a portfolio tag, as                  *)
(* platforms/macos/scripts/run-automated-portfolio-demo.py drives it: the  *)
(* preflights, the public tag-CI admission, the exclusive attempt log of   *)
(* the tag, the one proof, the two window captures, the sealed media and   *)
(* the automation receipt.                                                 *)
(*                                                                         *)
(* Several orchestrations of the same tag may run at once or one after     *)
(* another; any of them may fail, be killed, or die with the machine.  A   *)
(* proof that was started has a session of its own and outlives its        *)
(* orchestrator.  Around them the checkout moves, tags move, commits are   *)
(* pushed, CI runs end, somebody uses the app, and every orchestration     *)
(* rebuilds the one app bundle they share.                                 *)
(***************************************************************************)
EXTENDS Integers, Sequences, FiniteSets

CONSTANTS
    MaxAttempts,    \* orchestrations that are started
    MaxChanges      \* bound on what others do to the checkout, the tag, main and the runs

ASSUME BoundAssumption == MaxAttempts \in Nat \ {0} /\ MaxChanges \in Nat

VARIABLES
    head,       \* the commit of the clean local checkout (and of origin/main)
    tag,        \* the commit the local signed tag names
    public,     \* what the public API answers: the tag, main, and the tag's CI run
    changes,    \* how often others have changed something
    app,        \* the app bundle at its one path: the build and the commit it is of
    runs,       \* the retained real-model runs, in the order of their creation
    log,        \* the attempt log of the tag, <tag>.jsonl
    att,        \* an orchestration: where it is and what it remembers
    proof,      \* the run-proof.sh an orchestration has started
    session     \* the private directory of an orchestration

envVars == <<head, tag, public, changes>>
attemptVars == <<head, tag, public, changes, app, runs, log, att, proof, session>>

Attempts == 1..MaxAttempts
Commits == {1, 2}

Success == <<"ATTEMPT_STARTED", "PROOF_INVOKED", "PROOF_TERMINAL", "REPLAY_VERIFIED",
             "POST_PROOF_PRESENTATION_SURFACE_READY", "POST_PROOF_PRESENTATION_CAPTURED",
             "SAME_RUN_REOPENED", "RESULT_CAPTURED", "MEDIA_SEALED_FOR_COLLECTION">>
Events == {Success[i] : i \in DOMAIN Success} \cup {"ATTEMPT_FAILED"}

\* No log of the tag; owner 0 is nobody.
NoLog == [owner |-> 0, events |-> <<>>, durable |-> FALSE]

\* What a session keeps: the saved public answers and the local trust receipt, the raw
\* captures with the build each shows, the readiness file, the video and the copied log.
Absent == 0
Segments == {"preflight", "presentation", "result"}
NoAnswers == [tag |-> 0, main |-> 0, ci |-> "none"]
NothingKept == [answers |-> NoAnswers, trust |-> 0, raw |-> [s \in Segments |-> Absent],
                readiness |-> [run |-> 0, build |-> 0],
                video |-> [presentation |-> Absent, result |-> Absent], state |-> <<>>]
NoReport == [run |-> 0, commit |-> 0, build |-> 0, kept |-> NothingKept]
NoSession == [place |-> "none", kept |-> NothingKept, report |-> NoReport]
NotStarted == [pc |-> "idle", commit |-> 0, before |-> {}, run |-> 0, shown |-> 0]

Before == {"staged", "built", "confirmed", "refs read", "runs read", "admitted"}
                            \* no log of its own yet
Reserved == {"reserved", "session", "invoked", "proving", "proved", "presentable", "presenting",
             "surface", "presented", "reopenable", "reopening", "reopened", "captured", "sealed", "snapshot"}
Running == Before \cup {"created"} \cup Reserved

AttemptInit ==
    /\ head = 1 /\ tag = 1
    /\ public = [tag |-> 1, main |-> 1, ci |-> "pending"]
    /\ changes = 0
    /\ app = [build |-> 0, commit |-> 1]
    /\ runs = <<>>
    /\ log = NoLog
    /\ att = [o \in Attempts |-> NotStarted]
    /\ proof = [o \in Attempts |-> "none"]
    /\ session = [o \in Attempts |-> NoSession]

(***************************************************************************)
(* What others do.                                                         *)
(***************************************************************************)
Change == changes < MaxChanges /\ changes' = changes + 1

\* The checkout of main moves to the other commit.
CheckoutMoves ==
    /\ Change
    /\ head' = 3 - head
    /\ UNCHANGED <<tag, public, app, runs, log, att, proof, session>>

\* The local tag is signed again at the checkout's commit.
Retag ==
    /\ Change
    /\ tag # head
    /\ tag' = head
    /\ UNCHANGED <<head, public, app, runs, log, att, proof, session>>

\* The checkout is pushed, with or without the tag.  A tag that moves starts CI anew.
Push(withTag) ==
    /\ Change
    /\ public' = IF withTag /\ public.tag # tag
                 THEN [tag |-> tag, main |-> head, ci |-> "pending"]
                 ELSE [public EXCEPT !.main = head]
    /\ public' # public
    /\ UNCHANGED <<head, tag, app, runs, log, att, proof, session>>

\* The tag's CI run ends, or is run a second time: its attempt is then not the first.
CIEnds(conclusion) ==
    /\ public.ci = "pending" \/ (public.ci = "passed" /\ conclusion = "failed")
    /\ public' = [public EXCEPT !.ci = conclusion]
    /\ UNCHANGED <<head, tag, changes, app, runs, log, att, proof, session>>

\* Somebody uses the app for a run of their own.
UserRun ==
    /\ Change
    /\ runs' = Append(runs, [by |-> 0, build |-> app.build, commit |-> app.commit])
    /\ UNCHANGED <<head, tag, public, app, log, att, proof, session>>

(***************************************************************************)
(* An orchestration, up to the reservation of the tag.                     *)
(***************************************************************************)
Goto(o, pc) == att' = [att EXCEPT ![o].pc = pc]

\* What an orchestration that is over leaves of itself: the run of its receipt.  The files
\* of a session that has no receipt are never read again.
Ended(o, pc) == [NotStarted EXCEPT !.pc = pc, !.commit = att[o].commit, !.run = att[o].run]
Left(s) == IF s.report = NoReport THEN [NoSession EXCEPT !.place = s.place] ELSE s

\* corelm macos build: the shared bundle is replaced by a build of the checkout.
Rebuilt == [build |-> app.build + 1, commit |-> head]

\* The checkout is clean, on main, and the annotated tag names its commit.
SourcePreflight(commit) == head = commit /\ tag = commit

SourceBound(o) ==
    /\ att[o].pc = "idle"
    /\ \A other \in Attempts : other < o => att[other].pc # "idle"     \* numbered as they start
    /\ SourcePreflight(head)
    /\ att' = [att EXCEPT ![o].pc = "staged", ![o].commit = head]
    /\ session' = [session EXCEPT ![o].place = "staging"]
    /\ UNCHANGED <<head, tag, public, changes, app, runs, log, proof>>

\* The capture rehearsed before anything is reserved, of the build at the path.
PreflightCapture(o) == session' = [session EXCEPT ![o].kept.raw["preflight"] = app'.build]

HostAndToolPreflight(o) ==
    /\ att[o].pc = "staged"
    /\ app' = Rebuilt
    /\ PreflightCapture(o)
    /\ Goto(o, "built")
    /\ UNCHANGED <<head, tag, public, changes, runs, log, proof>>

SourceConfirmed(o) ==
    /\ att[o].pc = "built"
    /\ SourcePreflight(att[o].commit)
    /\ Goto(o, "confirmed")
    /\ UNCHANGED <<head, tag, public, changes, app, runs, log, proof, session>>

\* The public answers are fetched one after the other, each refused at once, here in two reads;
\* in between the tag and main may move and the run may be repeated.
Fetches(o, from, answer, to) ==
    /\ att[o].pc = from
    /\ session' = [session EXCEPT ![o].kept.answers = answer]
    /\ Goto(o, to)
    /\ UNCHANGED <<head, tag, public, changes, app, runs, log, proof>>

FetchRefs(o) ==
    /\ public.tag = att[o].commit /\ public.main = att[o].commit
    /\ Fetches(o, "confirmed", [session[o].kept.answers EXCEPT !.tag = public.tag, !.main = public.main],
               "refs read")

\* The run that is looked up is the one of the tag's present commit.
FetchRuns(o) ==
    /\ public.tag = att[o].commit /\ public.ci = "passed"
    /\ Fetches(o, "refs read", [session[o].kept.answers EXCEPT !.ci = public.ci], "runs read")

\* The saved answers: the tag and main name the commit, its first CI run passed.
PublicRefsName(answers, commit) == answers.tag = commit /\ answers.main = commit
FirstRunPassed(answers) == answers.ci = "passed"
TagCIAdmits(answers, commit) == PublicRefsName(answers, commit) /\ FirstRunPassed(answers)

\* What the receipts made of them say: the public tag and its run, and the local tag.
AdmissionReceiptBinds(answers, commit) == answers.tag = commit /\ FirstRunPassed(answers)
TrustReceiptBinds(trust, commit) == trust = commit

\* The local tag is the public one that was read.
LocalTagTrusted(answers, commit) == tag = commit /\ answers.tag = tag

\* The bundle is written if the answers validate again; a write that fails removes it.
BundleWritten(o) == TagCIAdmits(session[o].kept.answers, att[o].commit)

PrepareTagCIReceipt(o) ==
    /\ att[o].pc = "runs read"
    /\ BundleWritten(o)
    /\ AdmissionReceiptBinds(session[o].kept.answers, att[o].commit)
    /\ LocalTagTrusted(session[o].kept.answers, att[o].commit)
    /\ session' = [session EXCEPT ![o].kept.trust = tag]
    /\ Goto(o, "admitted")
    /\ UNCHANGED <<head, tag, public, changes, app, runs, log, proof>>

\* O_CREAT | O_EXCL on <tag>.jsonl: whoever finds it there is refused.
CreateLog(o) ==
    /\ att[o].pc = "admitted"
    /\ log.owner = 0
    /\ log' = [owner |-> o, events |-> <<>>, durable |-> FALSE]
    /\ Goto(o, "created")
    /\ UNCHANGED <<head, tag, public, changes, app, runs, proof, session>>

\* Mutant: the new log and its entry are not synced.
ReserveUnsynced(o) ==
    /\ att[o].pc = "created"
    /\ log' = [log EXCEPT !.events = Append(@, "ATTEMPT_STARTED")]
    /\ Goto(o, "reserved")
    /\ UNCHANGED <<head, tag, public, changes, app, runs, proof, session>>

\* The log and its directory entry are synced, then ATTEMPT_STARTED is appended and synced.
Reserve(o) ==
    /\ att[o].pc = "created"
    /\ log' = [log EXCEPT !.events = Append(@, "ATTEMPT_STARTED"), !.durable = TRUE]
    /\ Goto(o, "reserved")
    /\ UNCHANGED <<head, tag, public, changes, app, runs, proof, session>>

(***************************************************************************)
(* The reserved attempt.  Every event is synced before the next step.      *)
(***************************************************************************)
Appended(event) == [log EXCEPT !.events = Append(@, event)]

\* A step of a reserved attempt that appends one event, and one that keeps nothing else.
Advances(o, from, event, to) ==
    /\ att[o].pc = from
    /\ log' = Appended(event)
    /\ Goto(o, to)
    /\ UNCHANGED <<head, tag, public, changes, app, runs, proof>>

Records(o, from, event, to) == Advances(o, from, event, to) /\ UNCHANGED session

\* staging.rename(output): the parent directory is not synced.
MoveIntoPlace(o) ==
    /\ att[o].pc = "reserved"
    /\ session' = [session EXCEPT ![o].place = "output"]
    /\ att' = [att EXCEPT ![o].pc = "session", ![o].before = DOMAIN runs]
    /\ UNCHANGED <<head, tag, public, changes, app, runs, log, proof>>

RecordInvocation(o) == Records(o, "session", "PROOF_INVOKED", "invoked")

StartProof(o) ==
    /\ att[o].pc = "invoked"
    /\ proof' = [proof EXCEPT ![o] = "running"]
    /\ Goto(o, "proving")
    /\ UNCHANGED <<head, tag, public, changes, app, runs, log, session>>

(***************************************************************************)
(* The proof: run-proof.sh builds the app, the app leaves a run, and the   *)
(* script ends with status 0 only if it has verified a run of its own      *)
(* challenge.  It goes on when its orchestrator is dead.                   *)
(***************************************************************************)
ProofBuilds(o) ==
    /\ proof[o] = "running"
    /\ proof' = [proof EXCEPT ![o] = "built"]
    /\ app' = Rebuilt
    /\ UNCHANGED <<head, tag, public, changes, runs, log, att, session>>

ProofLeavesRun(o) ==
    /\ proof[o] = "built"
    /\ proof' = [proof EXCEPT ![o] = "run"]
    /\ runs' = Append(runs, [by |-> o, build |-> app.build, commit |-> app.commit])
    /\ UNCHANGED <<head, tag, public, changes, app, log, att, session>>

ProofEnds(o, status) ==
    /\ proof[o] \in {"running", "built", "run"}
    /\ status = "verified" => proof[o] = "run"
    /\ proof' = [proof EXCEPT ![o] = status]
    /\ UNCHANGED <<head, tag, public, changes, app, runs, log, att, session>>

\* The one run that is new since the proof was invoked.
NewRun(o, r) == DOMAIN runs \ att[o].before = {r}

\* Mutant: the report is not compared with the confirmed source.
ProofInspectedLoosely(o, r) == runs[r].by = o /\ runs[r].build = app.build

\* The reports, the challenge, the source and the executable all are those of the run.
ProofInspected(o, r) ==
    /\ runs[r].by = o
    /\ runs[r].commit = att[o].commit
    /\ runs[r].build = app.build

InspectProof(o) ==
    /\ att[o].pc = "proving"
    /\ proof[o] = "verified"
    /\ \E r \in DOMAIN runs :
          /\ NewRun(o, r)
          /\ ProofInspected(o, r)
          /\ att' = [att EXCEPT ![o].pc = "proved", ![o].run = r]
    /\ log' = [log EXCEPT !.events = @ \o <<"PROOF_TERMINAL", "REPLAY_VERIFIED">>]
    /\ UNCHANGED <<head, tag, public, changes, app, runs, proof, session>>

\* The bundle at its path is still the one the proof used.
ProofApplication(o) == app.build = runs[att[o].run].build

\* The path is checked, then launched: the window shows the build it holds by then.
CheckApplication(o) ==
    /\ att[o].pc \in {"proved", "presented"}
    /\ ProofApplication(o)
    /\ Goto(o, IF att[o].pc = "proved" THEN "presentable" ELSE "reopenable")
    /\ UNCHANGED <<head, tag, public, changes, app, runs, log, proof, session>>

LaunchApp(o, from, to) ==
    /\ att[o].pc = from
    /\ att' = [att EXCEPT ![o].pc = to, ![o].shown = app.build]
    /\ UNCHANGED <<head, tag, public, changes, app, runs, log, proof, session>>

LaunchPresentation(o) == LaunchApp(o, "presentable", "presenting")
LaunchResult(o) == LaunchApp(o, "reopenable", "reopening")

\* Mutant: the window's executable is not compared with the proof's once it is open.
SurfaceReadyUnchecked(o) ==
    Records(o, "presenting", "POST_PROOF_PRESENTATION_SURFACE_READY", "surface")

SurfaceReady(o) ==
    /\ Records(o, "presenting", "POST_PROOF_PRESENTATION_SURFACE_READY", "surface")
    /\ ProofApplication(o)

\* screencapture of the exact window: the segment shows the build that was launched.
Captured(o, s) == [session EXCEPT ![o].kept.raw[s] = att[o].shown]

CapturePresentation(o) ==
    /\ Advances(o, "surface", "POST_PROOF_PRESENTATION_CAPTURED", "presented")
    /\ ProofApplication(o)
    /\ session' = Captured(o, "presentation")

\* The readiness file of the run it was launched for, and what it must say.
Readiness(r) == [run |-> r, build |-> runs[r].build]
ReadinessBinds(readiness, r) == readiness = Readiness(r)

\* The window shows the proof's app, and the readiness file names the proof's run.
SameRunReopened(o) ==
    /\ Advances(o, "reopening", "SAME_RUN_REOPENED", "reopened")
    /\ ProofApplication(o)
    /\ session' = [session EXCEPT ![o].kept.readiness = Readiness(att[o].run)]

CaptureResult(o) ==
    /\ Advances(o, "reopened", "RESULT_CAPTURED", "captured")
    /\ ProofApplication(o)
    /\ session' = Captured(o, "result")

\* The fixed composition: first the presentation, then the result, nothing else.
Composition(raw) == [presentation |-> raw["presentation"], result |-> raw["result"]]

SealMedia(o) ==
    /\ Advances(o, "captured", "MEDIA_SEALED_FOR_COLLECTION", "sealed")
    /\ session' = [session EXCEPT ![o].kept.video = Composition(session[o].kept.raw)]

\* The nine events in their order, of one run and one admission, and nothing else.
AttemptStateExact(events) == events = Success

SnapshotState(o) ==
    /\ att[o].pc = "sealed"
    /\ AttemptStateExact(log.events)
    /\ session' = [session EXCEPT ![o].kept.state = log.events]
    /\ Goto(o, "snapshot")
    /\ UNCHANGED <<head, tag, public, changes, app, runs, log, proof>>

\* The automation receipt: the run, its source and executable, and a digest of all that is kept.
Report(o) == [run |-> att[o].run, commit |-> att[o].commit, build |-> runs[att[o].run].build,
              kept |-> session[o].kept]

\* A receipt is of a run and of exactly these files.
ReportBinds(report, r, kept) ==
    /\ report.run = r
    /\ report.commit = runs[r].commit /\ report.build = runs[r].build
    /\ report.kept = kept

WriteReport(o) ==
    /\ att[o].pc = "snapshot"
    /\ AttemptStateExact(session[o].kept.state)
    /\ session' = [session EXCEPT ![o].report = Report(o)]
    /\ att' = [att EXCEPT ![o] = Ended(o, "passed")]
    /\ UNCHANGED <<head, tag, public, changes, app, runs, log, proof>>

(***************************************************************************)
(* Failures.  Before the reservation the staging directory is removed and  *)
(* nothing is consumed.  A reservation that fails half way leaves the log. *)
(* After it ATTEMPT_FAILED is appended if that can still be done, the      *)
(* session stays, and a proof that has exceeded its hard timeout is        *)
(* stopped.                                                                *)
(***************************************************************************)
FailBefore(o) ==
    /\ att[o].pc \in Before \cup {"created"}
    /\ att' = [att EXCEPT ![o] = [NotStarted EXCEPT !.pc = "failed"]]
    /\ session' = [session EXCEPT ![o] = NoSession]
    /\ UNCHANGED <<head, tag, public, changes, app, runs, log, proof>>

Unfinished == {"running", "built", "run"}

\* Writing the receipt may fail after its last byte: written is whether it is all there.
FailReserved(o, told, written) ==
    /\ att[o].pc \in Reserved
    /\ written => att[o].pc = "snapshot"
    /\ att' = [att EXCEPT ![o] = Ended(o, "failed")]
    /\ log' = IF told THEN Appended("ATTEMPT_FAILED") ELSE log
    /\ proof' = [proof EXCEPT ![o] = IF @ \in Unfinished THEN "stopped" ELSE @]
    /\ session' = [session EXCEPT ![o] = Left([session[o] EXCEPT !.report = IF written THEN Report(o) ELSE @])]
    /\ UNCHANGED <<head, tag, public, changes, app, runs>>

\* SIGKILL, or an interrupt that no handler of the attempt catches.
Killed(o) ==
    /\ att[o].pc \in Running
    /\ att' = [att EXCEPT ![o] = Ended(o, "dead")]
    /\ session' = [session EXCEPT ![o] = Left(@)]
    /\ UNCHANGED <<head, tag, public, changes, app, runs, log, proof>>

\* The machine loses power: the entry of a log that was not synced may be lost, the rename
\* of a session may be undone, and the entry of its receipt may be missing.
Struck(o, undone, missing) ==
    Left([session[o] EXCEPT !.place = IF o \in undone THEN "staging" ELSE @,
                            !.report = IF o \in missing THEN NoReport ELSE @])

PowerLoss ==
    /\ Change
    /\ \E o \in Attempts : att[o].pc \in Running \cup {"passed"}
    /\ att' = [o \in Attempts |-> IF att[o].pc \in Running THEN Ended(o, "dead") ELSE att[o]]
    /\ proof' = [o \in Attempts |-> IF proof[o] \in Unfinished THEN "stopped" ELSE proof[o]]
    /\ \/ log' = [log EXCEPT !.durable = @ \/ log.owner # 0]
       \/ ~log.durable /\ log' = NoLog
    /\ \E undone \in SUBSET {o \in Attempts : session[o].place = "output"},
          missing \in SUBSET {o \in Attempts : session[o].report # NoReport} :
          session' = [o \in Attempts |-> Struck(o, undone, missing)]
    /\ UNCHANGED <<head, tag, public, app, runs>>

AttemptStep(o) ==
    \/ SourceBound(o) \/ HostAndToolPreflight(o) \/ SourceConfirmed(o)
    \/ FetchRefs(o) \/ FetchRuns(o) \/ PrepareTagCIReceipt(o)
    \/ CreateLog(o) \/ Reserve(o) \/ MoveIntoPlace(o)
    \/ RecordInvocation(o) \/ StartProof(o) \/ InspectProof(o)
    \/ CheckApplication(o)
    \/ LaunchPresentation(o) \/ SurfaceReady(o) \/ CapturePresentation(o)
    \/ LaunchResult(o) \/ SameRunReopened(o) \/ CaptureResult(o)
    \/ SealMedia(o) \/ SnapshotState(o) \/ WriteReport(o)
    \/ FailBefore(o)
    \/ \E told, written \in BOOLEAN : FailReserved(o, told, written)

ProofStep(o) ==
    \/ ProofBuilds(o) \/ ProofLeavesRun(o)
    \/ \E status \in {"verified", "failed"} : ProofEnds(o, status)

Others ==
    \/ CheckoutMoves \/ Retag \/ UserRun
    \/ \E withTag \in BOOLEAN : Push(withTag)
    \/ \E conclusion \in {"passed", "failed"} : CIEnds(conclusion)
    \/ PowerLoss

AttemptNext ==
    \/ \E o \in Attempts : AttemptStep(o) \/ ProofStep(o) \/ Killed(o)
    \/ Others
=============================================================================
