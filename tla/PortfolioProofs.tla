--------------------------- MODULE PortfolioProofs ---------------------------
(***************************************************************************)
(* Theorems about the demonstration and the release of a portfolio tag,    *)
(* for any number of orchestrations and any number of changes by others.   *)
(***************************************************************************)
EXTENDS PortfolioRelease, TLAPS

(***************************************************************************)
(* The values that the variables take.                                     *)
(***************************************************************************)
Commit0 == {0} \cup Commits
Over == {"passed", "failed", "dead"}
ProofStates == {"none", "stopped", "verified", "failed"} \cup Unfinished
RunRecords == [by: {0} \cup Attempts, build: Nat, commit: Commits]
Logs == [owner: {0} \cup Attempts, events: Seq(Events), durable: BOOLEAN]
AttemptRecords ==
    [pc: {"idle"} \cup Running \cup Over, commit: Commit0, before: SUBSET Nat,
     run: Nat, shown: Nat]
Answers == [tag: Commit0, main: Commit0, ci: {"none", "pending", "passed", "failed"}]
KeptFiles ==
    [answers: Answers, trust: Commit0, raw: [Segments -> Int],
     readiness: [run: Nat, build: Nat], video: [presentation: Int, result: Int],
     state: Seq(Events)]
Reports == [run: Nat, commit: Commit0, build: Nat, kept: KeptFiles]
Sessions == [place: {"none", "staging", "output"}, kept: KeptFiles, report: Reports]

AttemptTypes ==
    /\ head \in Commits /\ tag \in Commits
    /\ public \in [tag: Commits, main: Commits, ci: {"pending", "passed", "failed"}]
    /\ app \in [build: Nat, commit: Commits]
    /\ runs \in Seq(RunRecords)
    /\ log \in Logs
    /\ att \in [Attempts -> AttemptRecords]
    /\ proof \in [Attempts -> ProofStates]
    /\ session \in [Attempts -> Sessions]

Contents == Attempts \cup {Foreign, Absent}
FileSets == [Files -> Contents]
Identities == [commit: Commit0, ci: Commit0, demo: Contents]
Mades == [source: Commit0, sbom: Commit0, reproduce: Commit0]
Sums == [files: FileSets, made: Mades, identity: Identities]
Directories == [files: FileSets, made: Mades, identity: Identities, sums: Sums]
Releases ==
    [state: {"none", "draft", "published"}, body: [identity: Identities, sums: Sums],
     files: FileSets, immutable: BOOLEAN]
ReleaseStages ==
    {"none", "collecting", "collected", "validated", "signed", "built", "released",
     "succeeded"} \cup Publishing

ReleaseTypes ==
    /\ stage \in ReleaseStages
    /\ input \in [files: FileSets, evidence: Reports, run: Nat, commit: Commit0]
    /\ staging \in Directories /\ assets \in Directories
    /\ policy \in BOOLEAN
    /\ gh \in Releases
    /\ views \in [policy: BOOLEAN, release: Releases, tag: Commit0]

TypeInv == AttemptTypes /\ ReleaseTypes

(***************************************************************************)
(* The inductive invariant of the attempts.                                *)
(***************************************************************************)
\* How far an orchestration is: it has the log, it has recorded the invocation, it
\* has inspected a proof, it has seen its window, it has captured it.
Holding == {"created"} \cup Reserved
Invoked == Reserved \ {"reserved", "session"}
Proved == Invoked \ {"invoked", "proving"}
Surfaced == Proved \ {"proved", "presentable", "presenting", "reopening"}
PresentationKept == Proved \ {"proved", "presentable", "presenting", "surface"}
ResultKept == {"captured", "sealed", "snapshot"}

Build(o) == runs[att[o].run].build

\* The log of the tag belongs to whoever created it, and is as far as its owner.
LogOf(o) ==
    /\ att[o].pc \in Holding => log.owner = o
    /\ att[o].pc = "created" => log.events = <<>>
    /\ att[o].pc \in {"reserved", "session"} => log.events = <<"ATTEMPT_STARTED">>
    /\ att[o].pc \in Reserved => log.durable
    /\ att[o].pc \in Invoked \/ proof[o] # "none" =>
           /\ log.owner = o /\ log.durable
           /\ Len(log.events) > 1 /\ log.events[2] = "PROOF_INVOKED"

\* The proof an orchestration goes on with was its own, verified, of its source.
ProofOf(o) ==
    att[o].pc \in Proved =>
        /\ proof[o] = "verified"
        /\ att[o].run \in DOMAIN runs
        /\ runs[att[o].run].by = o /\ runs[att[o].run].commit = att[o].commit

\* The window shows a build that is not older than the proof's and not newer than
\* the one at the path: where they are the same, it is the proof's.
WindowOf(o) ==
    /\ att[o].pc \in {"presenting", "reopening"} =>
           Build(o) <= att[o].shown /\ att[o].shown <= app.build
    /\ att[o].pc \in Surfaced => att[o].shown = Build(o)

\* What the session keeps so far.
KeptOf(o) ==
    LET kept == session[o].kept IN
        /\ att[o].pc \in {"admitted"} \cup Holding =>
               TagCIAdmits(kept.answers, att[o].commit) /\ kept.trust = att[o].commit
        /\ att[o].pc \in PresentationKept => kept.raw["presentation"] = Build(o)
        /\ att[o].pc \in ResultKept => kept.raw["result"] = Build(o)
        /\ att[o].pc \in {"sealed", "snapshot"} =>
               kept.video = [presentation |-> Build(o), result |-> Build(o)]
        /\ att[o].pc = "snapshot" => log.events = Success

\* What a receipt means, and that its orchestration is over.
ReportOf(o) ==
    session[o].report # NoReport =>
        LET kept == session[o].report.kept IN
            /\ att[o].pc \in Over /\ att[o].run \in DOMAIN runs
            /\ proof[o] = "verified"
            /\ session[o].report.run = att[o].run
            /\ runs[att[o].run].by = o /\ runs[att[o].run].commit = att[o].commit
            /\ kept.video = [presentation |-> Build(o), result |-> Build(o)]
            /\ TagCIAdmits(kept.answers, att[o].commit) /\ kept.trust = att[o].commit
            /\ log.owner = o /\ log.durable /\ LogComplete

AttemptInv(o) == LogOf(o) /\ ProofOf(o) /\ WindowOf(o) /\ KeptOf(o) /\ ReportOf(o)

\* No run is of a build that is newer than the one at the path.
RunsInv ==
    /\ \A r \in DOMAIN runs : runs[r].build <= app.build
    /\ log.durable => log.owner # 0

AttemptsInv == RunsInv /\ \A o \in Attempts : AttemptInv(o)

(***************************************************************************)
(* The inductive invariant of the release.                                 *)
(***************************************************************************)
Collecting == {"none", "collecting"}

\* What the release relies on of an orchestration that is over.
FinishedOf(o) ==
    /\ att[o].pc \in Over /\ att[o].run \in DOMAIN runs
    /\ log.owner = o /\ log.durable /\ LogComplete

\* Every file that was collected, copied or built is of the one orchestration whose
\* receipt is in the evidence, or was put there by others.
OfOne(o) ==
    /\ FinishedOf(o)
    /\ input.evidence.run = att[o].run
    /\ input.evidence.kept.video = Composition(input.evidence.kept.raw)
    /\ \A f \in Files : /\ input.files[f] \in {o, Foreign}
                        /\ staging.files[f] \in {o, Foreign, Absent}
                        /\ assets.files[f] \in {o, Foreign, Absent}

\* A directory that was verified is all of it.
BuiltOf(o) ==
    /\ \A f \in Files : assets.files[f] = o
    /\ assets.identity = SourceIdentity(runs[att[o].run].commit, o)
    /\ assets.made.source = assets.identity.commit
    /\ assets.sums = Covered(assets)

SourcesInv ==
    /\ stage \in Collecting => staging = NoDirectory /\ assets = NoDirectory
    /\ stage \notin Collecting => \E o \in Attempts : OfOne(o)
    /\ stage = "built" => \E o \in Attempts : OfOne(o) /\ BuiltOf(o)

\* What was read of an immutable release is what it is.
GitHubInv ==
    /\ gh.immutable => stage \in {"published", "logged out", "downloaded", "released", "succeeded"}
    /\ stage \in {"logged out", "downloaded"} /\ views.release.immutable => gh = views.release
    /\ stage = "downloaded" /\ gh.immutable => public.tag = views.tag

\* What a release is once it is verified.
ReleasedOf(o) ==
    /\ FinishedOf(o)
    /\ \A f \in Files : gh.files[f] = o
    /\ public.tag = runs[att[o].run].commit
    /\ gh.body.identity = SourceIdentity(public.tag, o)
ReleasedInv ==
    stage \in {"released", "succeeded"} => gh.immutable /\ \E o \in Attempts : ReleasedOf(o)

IInv == TypeInv /\ AttemptsInv /\ SourcesInv /\ GitHubInv /\ ReleasedInv

-----------------------------------------------------------------------------
(***************************************************************************)
(* The types of the attempts.                                              *)
(***************************************************************************)
\* The nine events are events (Success).
LEMMA SuccessTyped == Success \in Seq(Events)
<1>1. \A i \in DOMAIN Success : Success[i] \in Events
  BY DEF Events
<1>2. Len(Success) = 9 /\ DOMAIN Success = 1..9
  BY DEF Success
<1>3. Success = [i \in 1..9 |-> Success[i]]
  BY DEF Success
<1> QED
  BY <1>1, <1>2, <1>3

\* Every event the handlers append is one of them.
LEMMA EventNames ==
    /\ {"ATTEMPT_STARTED", "PROOF_INVOKED", "PROOF_TERMINAL", "REPLAY_VERIFIED",
        "POST_PROOF_PRESENTATION_SURFACE_READY", "POST_PROOF_PRESENTATION_CAPTURED",
        "SAME_RUN_REOPENED", "RESULT_CAPTURED", "MEDIA_SEALED_FOR_COLLECTION",
        "ATTEMPT_FAILED"} \subseteq Events
<1>1. DOMAIN Success = 1..9
  BY DEF Success
<1>2. {Success[1], Success[2], Success[3], Success[4], Success[5], Success[6], Success[7],
       Success[8], Success[9]} \subseteq Events
  BY <1>1 DEF Events
<1> QED
  BY <1>2 DEF Success, Events

\* A session that is empty, and a receipt that is not there.
LEMMA NothingTyped == NoReport \in Reports /\ NoSession \in Sessions
<1>1. NothingKept \in KeptFiles
  BY DEF NothingKept, KeptFiles, NoAnswers, Answers, Absent, Commit0, Segments
<1>2. NoReport \in Reports
  BY <1>1 DEF NoReport, Reports, Commit0
<1> QED
  BY <1>1, <1>2 DEF NoSession, Sessions

\* The initial values.
LEMMA InitTyped == Init => TypeInv
<1> SUFFICES ASSUME Init PROVE TypeInv
  OBVIOUS
<1>4. NotStarted \in AttemptRecords
  BY DEF NotStarted, AttemptRecords, Commit0
<1>5. NoLog \in Logs
  BY DEF NoLog, Logs
<1>6. AttemptTypes
  BY NothingTyped, <1>4, <1>5
  DEF Init, AttemptInit, AttemptTypes, Commits, RunRecords, ProofStates
<1>7. NoFiles \in FileSets
  BY DEF NoFiles, FileSets, Contents
<1>8. NoIdentity \in Identities /\ NothingMade \in Mades
  BY DEF NoIdentity, Identities, NothingMade, Mades, Commit0, Contents
<1>9. NoSums \in Sums
  BY <1>7, <1>8 DEF NoSums, Sums
<1>10. NoDirectory \in Directories /\ NoRelease \in Releases
  BY <1>7, <1>8, <1>9 DEF NoDirectory, Directories, NoRelease, Releases, NoRequest
<1>11. NoViews \in [policy: BOOLEAN, release: Releases, tag: Commit0]
  BY <1>10 DEF NoViews, Commit0
<1>12. NoInput \in [files: FileSets, evidence: Reports, run: Nat, commit: Commit0]
  BY NothingTyped, <1>7 DEF NoInput, Commit0
<1>13. ReleaseTypes
  BY <1>10, <1>11, <1>12 DEF Init, ReleaseTypes, ReleaseStages
<1> QED
  BY <1>6, <1>13 DEF TypeInv

\* What an orchestration remembers may be replaced.
LEMMA EntryTyped ==
    ASSUME AttemptTypes, NEW o \in Attempts
    PROVE  /\ \A a \in AttemptRecords : [att EXCEPT ![o] = a] \in [Attempts -> AttemptRecords]
           /\ \A pc, x : [att EXCEPT ![o].pc = pc, ![o].commit = x] =
                         [att EXCEPT ![o] = [att[o] EXCEPT !.pc = pc, !.commit = x]]
           /\ \A pc, x : [att EXCEPT ![o].pc = pc, ![o].before = x] =
                         [att EXCEPT ![o] = [att[o] EXCEPT !.pc = pc, !.before = x]]
           /\ \A pc, x : [att EXCEPT ![o].pc = pc, ![o].run = x] =
                         [att EXCEPT ![o] = [att[o] EXCEPT !.pc = pc, !.run = x]]
           /\ \A pc, x : [att EXCEPT ![o].pc = pc, ![o].shown = x] =
                         [att EXCEPT ![o] = [att[o] EXCEPT !.pc = pc, !.shown = x]]
<1>1. att \in [Attempts -> AttemptRecords]
  BY DEF AttemptTypes
<1>2. \A a : DOMAIN [att EXCEPT ![o] = a] = Attempts /\ [att EXCEPT ![o] = a][o] = a
  BY <1>1
<1>3. \A a, b : [[att EXCEPT ![o] = a] EXCEPT ![o] = b] = [att EXCEPT ![o] = b]
  BY <1>1
<1> QED
  BY <1>1, <1>2, <1>3

\* A step of an orchestration goes to one of its places.
LEMMA GotoTyped ==
    ASSUME AttemptTypes, NEW o \in Attempts, NEW pc \in {"idle"} \cup Running \cup Over, Goto(o, pc)
    PROVE  att' \in [Attempts -> AttemptRecords]
  BY DEF AttemptTypes, Goto, AttemptRecords

\* What an orchestration leaves is a session (Left).
LEMMA LeftTyped ==
    ASSUME NEW s \in Sessions PROVE Left(s) \in Sessions
  BY NothingTyped DEF Left, Sessions

\* An orchestration that is over keeps what it was of (Ended).
LEMMA EndedTyped ==
    ASSUME AttemptTypes, NEW o \in Attempts, NEW pc \in Over
    PROVE  Ended(o, pc) \in AttemptRecords
  BY DEF AttemptTypes, Ended, NotStarted, AttemptRecords, Commit0

\* An event that is appended leaves a log (Appended).
LEMMA AppendedTyped ==
    ASSUME AttemptTypes, NEW e \in Events PROVE Appended(e) \in Logs
<1>1. log \in Logs /\ log.events \in Seq(Events) /\ log.owner \in {0} \cup Attempts
  BY DEF AttemptTypes, Logs
<1>2. Append(log.events, e) \in Seq(Events)
  BY <1>1, SMT
<1>3. Appended(e) = [owner |-> log.owner, events |-> Append(log.events, e), durable |-> log.durable]
  <2>1. log = [owner |-> log.owner, events |-> log.events, durable |-> log.durable]
    BY <1>1 DEF Logs
  <2> DEFINE e2 == Append(log.events, e)
  <2>2. [log EXCEPT !.events = e2] = [owner |-> log.owner, events |-> e2, durable |-> log.durable]
    <3> HIDE DEF e2
    <3> QED
      BY <2>1
  <2> QED
    BY <2>2 DEF Appended
<1> QED
  BY <1>1, <1>2, <1>3 DEF Logs

\* Every file of a session may be replaced by one of its kind.
LEMMA KeptTyped ==
    ASSUME AttemptTypes, NEW o \in Attempts
    PROVE  /\ session[o].kept \in KeptFiles
           /\ \A a \in Answers : [session EXCEPT ![o].kept.answers = a] \in [Attempts -> Sessions]
           /\ \A t \in Commit0 : [session EXCEPT ![o].kept.trust = t] \in [Attempts -> Sessions]
           /\ \A s \in Segments, b \in Int :
                  [session EXCEPT ![o].kept.raw[s] = b] \in [Attempts -> Sessions]
           /\ \A n \in [run: Nat, build: Nat] :
                  [session EXCEPT ![o].kept.readiness = n] \in [Attempts -> Sessions]
           /\ \A v \in [presentation: Int, result: Int] :
                  [session EXCEPT ![o].kept.video = v] \in [Attempts -> Sessions]
           /\ \A e \in Seq(Events) : [session EXCEPT ![o].kept.state = e] \in [Attempts -> Sessions]
<1>1. session[o] \in Sessions /\ session[o].kept \in KeptFiles
  BY DEF AttemptTypes, Sessions
<1>2. \A k \in KeptFiles : [session EXCEPT ![o].kept = k] \in [Attempts -> Sessions]
  BY DEF AttemptTypes, Sessions
<1> DEFINE K == session[o].kept
<1>3. /\ \A a \in Answers : [K EXCEPT !.answers = a] \in KeptFiles
      /\ \A t \in Commit0 : [K EXCEPT !.trust = t] \in KeptFiles
      /\ \A s \in Segments, b \in Int : [K EXCEPT !.raw[s] = b] \in KeptFiles
      /\ \A n \in [run: Nat, build: Nat] : [K EXCEPT !.readiness = n] \in KeptFiles
      /\ \A v \in [presentation: Int, result: Int] : [K EXCEPT !.video = v] \in KeptFiles
      /\ \A e \in Seq(Events) : [K EXCEPT !.state = e] \in KeptFiles
  BY <1>1 DEF KeptFiles
<1>4. /\ \A a \in Answers : [session EXCEPT ![o].kept = [K EXCEPT !.answers = a]] \in [Attempts -> Sessions]
      /\ \A t \in Commit0 : [session EXCEPT ![o].kept = [K EXCEPT !.trust = t]] \in [Attempts -> Sessions]
      /\ \A s \in Segments, b \in Int :
             [session EXCEPT ![o].kept = [K EXCEPT !.raw[s] = b]] \in [Attempts -> Sessions]
      /\ \A n \in [run: Nat, build: Nat] :
             [session EXCEPT ![o].kept = [K EXCEPT !.readiness = n]] \in [Attempts -> Sessions]
      /\ \A v \in [presentation: Int, result: Int] :
             [session EXCEPT ![o].kept = [K EXCEPT !.video = v]] \in [Attempts -> Sessions]
      /\ \A e \in Seq(Events) : [session EXCEPT ![o].kept = [K EXCEPT !.state = e]] \in [Attempts -> Sessions]
  BY <1>2, <1>3
<1> QED
  BY <1>1, <1>4

\* The steps of an orchestration that start it and fetch the public answers.
LEMMA AdmissionTyped ==
    ASSUME AttemptTypes, NEW o \in Attempts,
           \/ SourceBound(o) \/ HostAndToolPreflight(o) \/ SourceConfirmed(o)
           \/ FetchRefs(o) \/ FetchRuns(o) \/ PrepareTagCIReceipt(o)
    PROVE  AttemptTypes'
<1>1. CASE SourceBound(o)
  <2>1. [att[o] EXCEPT !.pc = "staged", !.commit = head] \in AttemptRecords
    BY DEF AttemptTypes, AttemptRecords, Running, Before, Commit0
  <2>2. att' \in [Attempts -> AttemptRecords]
    BY <1>1, <2>1, EntryTyped DEF SourceBound, AttemptTypes
  <2>3. session' \in [Attempts -> Sessions]
    BY <1>1 DEF SourceBound, AttemptTypes, Sessions
  <2> QED
    BY <1>1, <2>2, <2>3 DEF SourceBound, AttemptTypes
<1>2. CASE HostAndToolPreflight(o)
  <2>1. att' \in [Attempts -> AttemptRecords]
    BY <1>2, GotoTyped DEF HostAndToolPreflight, Running, Before
  <2>2. app' \in [build: Nat, commit: Commits]
    BY <1>2 DEF HostAndToolPreflight, Rebuilt, AttemptTypes
  <2>3. app'.build \in Int /\ "preflight" \in Segments
    BY <2>2 DEF Segments
  <2>4. session' \in [Attempts -> Sessions]
    BY <1>2, <2>3, KeptTyped DEF HostAndToolPreflight, PreflightCapture
  <2> QED
    BY <1>2, <2>1, <2>2, <2>4 DEF HostAndToolPreflight, AttemptTypes
<1>3. CASE SourceConfirmed(o)
  <2>1. att' \in [Attempts -> AttemptRecords]
    BY <1>3, GotoTyped DEF SourceConfirmed, Running, Before
  <2> QED
    BY <1>3, <2>1 DEF SourceConfirmed, AttemptTypes
<1>4. CASE FetchRefs(o)
  <2>1. att' \in [Attempts -> AttemptRecords]
    BY <1>4, GotoTyped DEF FetchRefs, Fetches, Running, Before
  <2>2. [session[o].kept.answers EXCEPT !.tag = public.tag, !.main = public.main] \in Answers
    BY KeptTyped DEF KeptFiles, Answers, AttemptTypes, Commit0
  <2>3. session' \in [Attempts -> Sessions]
    BY <1>4, <2>2, KeptTyped DEF FetchRefs, Fetches
  <2> QED
    BY <1>4, <2>1, <2>3 DEF FetchRefs, Fetches, AttemptTypes
<1>5. CASE FetchRuns(o)
  <2>1. att' \in [Attempts -> AttemptRecords]
    BY <1>5, GotoTyped DEF FetchRuns, Fetches, Running, Before
  <2>2. [session[o].kept.answers EXCEPT !.ci = public.ci] \in Answers
    BY KeptTyped DEF KeptFiles, Answers, AttemptTypes, Commit0
  <2>3. session' \in [Attempts -> Sessions]
    BY <1>5, <2>2, KeptTyped DEF FetchRuns, Fetches
  <2> QED
    BY <1>5, <2>1, <2>3 DEF FetchRuns, Fetches, AttemptTypes
<1>6. CASE PrepareTagCIReceipt(o)
  <2>1. att' \in [Attempts -> AttemptRecords]
    BY <1>6, GotoTyped DEF PrepareTagCIReceipt, Running, Before
  <2>2. tag \in Commit0
    BY DEF AttemptTypes, Commit0
  <2>3. session' \in [Attempts -> Sessions]
    BY <1>6, <2>2, KeptTyped DEF PrepareTagCIReceipt
  <2> QED
    BY <1>6, <2>1, <2>3 DEF PrepareTagCIReceipt, AttemptTypes
<1> QED
  BY <1>1, <1>2, <1>3, <1>4, <1>5, <1>6

\* The steps from the log of the tag to the proof that was inspected.
LEMMA ReservationTyped ==
    ASSUME AttemptTypes, NEW o \in Attempts,
           \/ CreateLog(o) \/ Reserve(o) \/ MoveIntoPlace(o)
           \/ RecordInvocation(o) \/ StartProof(o) \/ InspectProof(o)
    PROVE  AttemptTypes'
<1>1. CASE CreateLog(o)
  <2>1. att' \in [Attempts -> AttemptRecords]
    BY <1>1, GotoTyped DEF CreateLog, Running
  <2>2. log' \in Logs
    BY <1>1 DEF CreateLog, Logs
  <2> QED
    BY <1>1, <2>1, <2>2 DEF CreateLog, AttemptTypes
<1>2. CASE Reserve(o)
  <2>1. att' \in [Attempts -> AttemptRecords]
    BY <1>2, GotoTyped DEF Reserve, Running, Reserved
  <2>2. Appended("ATTEMPT_STARTED") \in Logs
    BY AppendedTyped, EventNames
  <2>3. log' = [Appended("ATTEMPT_STARTED") EXCEPT !.durable = TRUE]
    BY <1>2 DEF Reserve, Appended, AttemptTypes, Logs
  <2>4. log' \in Logs
    BY <2>2, <2>3 DEF Logs
  <2> QED
    BY <1>2, <2>1, <2>4 DEF Reserve, AttemptTypes
<1>3. CASE MoveIntoPlace(o)
  <2>1. DOMAIN runs \subseteq Nat
    BY DEF AttemptTypes
  <2>2. [att[o] EXCEPT !.pc = "session", !.before = DOMAIN runs] \in AttemptRecords
    BY <2>1 DEF AttemptTypes, AttemptRecords, Running, Reserved
  <2>3. att' \in [Attempts -> AttemptRecords]
    BY <1>3, <2>2, EntryTyped DEF MoveIntoPlace, AttemptTypes
  <2>4. session' \in [Attempts -> Sessions]
    BY <1>3 DEF MoveIntoPlace, AttemptTypes, Sessions
  <2> QED
    BY <1>3, <2>3, <2>4 DEF MoveIntoPlace, AttemptTypes
<1>4. CASE RecordInvocation(o)
  <2>1. att' \in [Attempts -> AttemptRecords]
    BY <1>4, GotoTyped DEF RecordInvocation, Records, Advances, Running, Reserved
  <2>2. log' \in Logs
    BY <1>4, AppendedTyped, EventNames DEF RecordInvocation, Records, Advances
  <2> QED
    BY <1>4, <2>1, <2>2 DEF RecordInvocation, Records, Advances, AttemptTypes
<1>5. CASE StartProof(o)
  <2>1. att' \in [Attempts -> AttemptRecords]
    BY <1>5, GotoTyped DEF StartProof, Running, Reserved
  <2>2. proof' \in [Attempts -> ProofStates]
    BY <1>5 DEF StartProof, AttemptTypes, ProofStates, Unfinished
  <2> QED
    BY <1>5, <2>1, <2>2 DEF StartProof, AttemptTypes
<1>6. CASE InspectProof(o)
  <2>1. PICK r \in DOMAIN runs : att' = [att EXCEPT ![o].pc = "proved", ![o].run = r]
    BY <1>6 DEF InspectProof
  <2>2. r \in Nat
    BY DEF AttemptTypes
  <2>3. [att[o] EXCEPT !.pc = "proved", !.run = r] \in AttemptRecords
    <3>1. att[o] \in AttemptRecords
      BY DEF AttemptTypes
    <3>2. "proved" \in {"idle"} \cup Running \cup Over
      BY DEF Running, Reserved
    <3> QED
      BY <2>2, <3>1, <3>2 DEF AttemptRecords
  <2>4. att' \in [Attempts -> AttemptRecords]
    BY <2>1, <2>3, EntryTyped DEF AttemptTypes
  <2>5. log.events \o <<"PROOF_TERMINAL", "REPLAY_VERIFIED">> \in Seq(Events)
    <3>1. log.events \in Seq(Events) /\ <<"PROOF_TERMINAL", "REPLAY_VERIFIED">> \in Seq(Events)
      BY EventNames DEF AttemptTypes, Logs
    <3> QED
      BY <3>1
  <2>6. log' \in Logs
    BY <1>6, <2>5 DEF InspectProof, AttemptTypes, Logs
  <2> QED
    BY <1>6, <2>4, <2>6 DEF InspectProof, AttemptTypes
<1> QED
  BY <1>1, <1>2, <1>3, <1>4, <1>5, <1>6

\* The run of an orchestration that has inspected a proof is one of the runs.
LEMMA BuildTyped ==
    ASSUME AttemptTypes, NEW o \in Attempts, ProofOf(o), att[o].pc \in Proved
    PROVE  Build(o) \in Nat /\ runs[att[o].run].commit \in Commits
<1>1. att[o].run \in DOMAIN runs
  BY DEF ProofOf
<1>2. runs[att[o].run] \in RunRecords
  BY <1>1 DEF AttemptTypes
<1> QED
  BY <1>2 DEF RunRecords, Build

\* The windows and their captures.
LEMMA WindowsTyped ==
    ASSUME AttemptTypes, NEW o \in Attempts, ProofOf(o),
           \/ CheckApplication(o)
           \/ LaunchPresentation(o) \/ SurfaceReady(o) \/ CapturePresentation(o)
           \/ LaunchResult(o) \/ SameRunReopened(o) \/ CaptureResult(o)
    PROVE  AttemptTypes'
<1>1. CASE CheckApplication(o)
  <2>1. att' \in [Attempts -> AttemptRecords]
    BY <1>1, GotoTyped DEF CheckApplication, Running, Reserved
  <2> QED
    BY <1>1, <2>1 DEF CheckApplication, AttemptTypes
<1>2. ASSUME NEW from, NEW to \in Running, LaunchApp(o, from, to)
      PROVE  AttemptTypes'
  <2>1. app.build \in Nat
    BY DEF AttemptTypes
  <2>2. [att[o] EXCEPT !.pc = to, !.shown = app.build] \in AttemptRecords
    BY <2>1 DEF AttemptTypes, AttemptRecords
  <2>3. att' \in [Attempts -> AttemptRecords]
    BY <1>2, <2>2, EntryTyped DEF LaunchApp, AttemptTypes
  <2> QED
    BY <1>2, <2>3 DEF LaunchApp, AttemptTypes
<1>3. CASE LaunchPresentation(o) \/ LaunchResult(o)
  <2>1. {"presenting", "reopening"} \subseteq Running
    BY DEF Running, Reserved
  <2> QED
    BY <1>2, <1>3, <2>1 DEF LaunchPresentation, LaunchResult
<1>4. ASSUME NEW from, NEW e \in Events, NEW to \in Running, Advances(o, from, e, to),
             session' \in [Attempts -> Sessions]
      PROVE  AttemptTypes'
  <2>1. att' \in [Attempts -> AttemptRecords]
    BY <1>4, GotoTyped DEF Advances
  <2>2. log' \in Logs
    BY <1>4, AppendedTyped DEF Advances
  <2> QED
    BY <1>4, <2>1, <2>2 DEF Advances, AttemptTypes
<1>5. {"surface", "presented", "reopened", "captured"} \subseteq Running
  BY DEF Running, Reserved
<1>6. CASE SurfaceReady(o)
  <2>1. session' \in [Attempts -> Sessions]
    BY <1>6 DEF SurfaceReady, Records, AttemptTypes
  <2> QED
    BY <1>4, <1>5, <1>6, <2>1, EventNames DEF SurfaceReady, Records
<1>7. att[o].shown \in Int /\ {"presentation", "result"} \subseteq Segments
  BY DEF AttemptTypes, AttemptRecords, Segments
<1>8. CASE CapturePresentation(o)
  <2>1. session' \in [Attempts -> Sessions]
    BY <1>7, <1>8, KeptTyped DEF CapturePresentation, Captured
  <2> QED
    BY <1>4, <1>5, <1>8, <2>1, EventNames DEF CapturePresentation
<1>9. CASE CaptureResult(o)
  <2>1. session' \in [Attempts -> Sessions]
    BY <1>7, <1>9, KeptTyped DEF CaptureResult, Captured
  <2> QED
    BY <1>4, <1>5, <1>9, <2>1, EventNames DEF CaptureResult
<1>10. CASE SameRunReopened(o)
  <2>1. att[o].pc \in Proved
    BY <1>10 DEF SameRunReopened, Advances, Proved, Invoked, Reserved
  <2>2. Readiness(att[o].run) \in [run: Nat, build: Nat]
    BY <2>1, BuildTyped DEF Readiness, Build, AttemptTypes, AttemptRecords
  <2>3. session' \in [Attempts -> Sessions]
    BY <1>10, <2>2, KeptTyped DEF SameRunReopened
  <2> QED
    BY <1>4, <1>5, <1>10, <2>3, EventNames DEF SameRunReopened
<1> QED
  BY <1>1, <1>3, <1>6, <1>8, <1>9, <1>10

\* The receipt an orchestration writes once it has inspected its proof.
LEMMA ReportTyped ==
    ASSUME AttemptTypes, NEW o \in Attempts, ProofOf(o), att[o].pc \in Proved
    PROVE  Report(o) \in Reports
<1>1. runs[att[o].run].build \in Nat
  BY BuildTyped DEF Build
<1>2. att[o].run \in Nat /\ att[o].commit \in Commit0
  BY DEF AttemptTypes, AttemptRecords
<1> QED
  BY <1>1, <1>2, KeptTyped DEF Report, Reports

\* The sealed media, the copied log, the receipt, and the failures.
LEMMA EndsTyped ==
    ASSUME AttemptTypes, NEW o \in Attempts, ProofOf(o),
           \/ SealMedia(o) \/ SnapshotState(o) \/ WriteReport(o)
           \/ FailBefore(o) \/ Killed(o)
           \/ \E told, written \in BOOLEAN : FailReserved(o, told, written)
    PROVE  AttemptTypes'
<1>1. CASE SealMedia(o)
  <2>1. att' \in [Attempts -> AttemptRecords]
    BY <1>1, GotoTyped DEF SealMedia, Advances, Running, Reserved
  <2>2. log' \in Logs
    BY <1>1, AppendedTyped, EventNames DEF SealMedia, Advances
  <2>3. Composition(session[o].kept.raw) \in [presentation: Int, result: Int]
    BY KeptTyped DEF Composition, KeptFiles, Segments
  <2>4. session' \in [Attempts -> Sessions]
    BY <1>1, <2>3, KeptTyped DEF SealMedia
  <2> QED
    BY <1>1, <2>1, <2>2, <2>4 DEF SealMedia, Advances, AttemptTypes
<1>2. CASE SnapshotState(o)
  <2>1. att' \in [Attempts -> AttemptRecords]
    BY <1>2, GotoTyped DEF SnapshotState, Running, Reserved
  <2>2. log.events \in Seq(Events)
    BY DEF AttemptTypes, Logs
  <2>3. session' \in [Attempts -> Sessions]
    BY <1>2, <2>2, KeptTyped DEF SnapshotState
  <2> QED
    BY <1>2, <2>1, <2>3 DEF SnapshotState, AttemptTypes
<1>3. CASE WriteReport(o)
  <2>1. att' \in [Attempts -> AttemptRecords]
    <3>1. Ended(o, "passed") \in AttemptRecords
      BY EndedTyped DEF Over
    <3> QED
      BY <1>3, <3>1, EntryTyped DEF WriteReport
  <2>2. Report(o) \in Reports
    BY <1>3, ReportTyped DEF WriteReport, Proved, Invoked, Reserved
  <2>3. session' \in [Attempts -> Sessions]
    BY <1>3, <2>2 DEF WriteReport, AttemptTypes, Sessions
  <2> QED
    BY <1>3, <2>1, <2>3 DEF WriteReport, AttemptTypes
<1>4. CASE FailBefore(o)
  <2>1. [NotStarted EXCEPT !.pc = "failed"] \in AttemptRecords
    BY DEF NotStarted, AttemptRecords, Over, Commit0
  <2>2. att' \in [Attempts -> AttemptRecords]
    BY <1>4, <2>1, EntryTyped DEF FailBefore
  <2>3. session' \in [Attempts -> Sessions]
    BY <1>4, NothingTyped DEF FailBefore, AttemptTypes
  <2> QED
    BY <1>4, <2>2, <2>3 DEF FailBefore, AttemptTypes
<1>5. CASE Killed(o)
  <2>1. Ended(o, "dead") \in AttemptRecords
    BY EndedTyped DEF Over
  <2>2. att' \in [Attempts -> AttemptRecords]
    BY <1>5, <2>1, EntryTyped DEF Killed
  <2>3. session' \in [Attempts -> Sessions]
    BY <1>5, LeftTyped DEF Killed, AttemptTypes
  <2> QED
    BY <1>5, <2>2, <2>3 DEF Killed, AttemptTypes
<1>6. ASSUME NEW told \in BOOLEAN, NEW written \in BOOLEAN, FailReserved(o, told, written)
      PROVE  AttemptTypes'
  <2>1. Ended(o, "failed") \in AttemptRecords
    BY EndedTyped DEF Over
  <2>2. att' \in [Attempts -> AttemptRecords]
    BY <1>6, <2>1, EntryTyped DEF FailReserved
  <2>3. log' \in Logs
    BY <1>6, AppendedTyped, EventNames DEF FailReserved, AttemptTypes
  <2>4. proof' \in [Attempts -> ProofStates]
    BY <1>6 DEF FailReserved, AttemptTypes, ProofStates
  <2> DEFINE kept == IF written THEN Report(o) ELSE session[o].report
  <2>5. session[o] \in Sessions /\ session[o].report \in Reports
    BY DEF AttemptTypes, Sessions
  <2>6. kept \in Reports
    <3>1. written => att[o].pc \in Proved
      BY <1>6 DEF FailReserved, Proved, Invoked, Reserved
    <3> QED
      BY <2>5, <3>1, ReportTyped
  <2>7. [session[o] EXCEPT !.report = kept] \in Sessions
    <3> HIDE DEF kept
    <3> QED
      BY <2>5, <2>6 DEF Sessions
  <2>8. session' = [session EXCEPT ![o] = Left([session[o] EXCEPT !.report = kept])]
    BY <1>6 DEF FailReserved
  <2>9. session' \in [Attempts -> Sessions]
    <3> HIDE DEF kept
    <3> QED
      BY <2>7, <2>8, LeftTyped DEF AttemptTypes
  <2> QED
    BY <1>6, <2>2, <2>3, <2>4, <2>9 DEF FailReserved, AttemptTypes
<1> QED
  BY <1>1, <1>2, <1>3, <1>4, <1>5, <1>6

\* The proofs, whether or not their orchestrations are there.
LEMMA ProofsTyped ==
    ASSUME AttemptTypes, NEW o \in Attempts, ProofStep(o) PROVE AttemptTypes'
<1>1. CASE ProofBuilds(o)
  <2>1. app' \in [build: Nat, commit: Commits]
    BY <1>1 DEF ProofBuilds, Rebuilt, AttemptTypes
  <2> QED
    BY <1>1, <2>1 DEF ProofBuilds, AttemptTypes, ProofStates, Unfinished
<1>2. CASE ProofLeavesRun(o)
  <2>1. [by |-> o, build |-> app.build, commit |-> app.commit] \in RunRecords
    BY DEF AttemptTypes, RunRecords
  <2>2. runs' \in Seq(RunRecords)
    BY <1>2, <2>1 DEF ProofLeavesRun, AttemptTypes
  <2> QED
    BY <1>2, <2>2 DEF ProofLeavesRun, AttemptTypes, ProofStates, Unfinished
<1>3. CASE \E status \in {"verified", "failed"} : ProofEnds(o, status)
  BY <1>3 DEF ProofEnds, AttemptTypes, ProofStates
<1> QED
  BY <1>1, <1>2, <1>3 DEF ProofStep

\* What others do, and a power loss.
LEMMA OthersTyped ==
    ASSUME AttemptTypes, Others PROVE AttemptTypes'
<1>1. CASE CheckoutMoves \/ Retag
  BY <1>1 DEF CheckoutMoves, Retag, AttemptTypes, Commits
<1>2. CASE UserRun
  <2>1. [by |-> 0, build |-> app.build, commit |-> app.commit] \in RunRecords
    BY DEF AttemptTypes, RunRecords
  <2>2. runs' \in Seq(RunRecords)
    BY <1>2, <2>1 DEF UserRun, AttemptTypes
  <2> QED
    BY <1>2, <2>2 DEF UserRun, AttemptTypes
<1>3. CASE \E withTag \in BOOLEAN : Push(withTag)
  <2>1. public' \in [tag: Commits, main: Commits, ci: {"pending", "passed", "failed"}]
    BY <1>3 DEF Push, AttemptTypes
  <2> QED
    BY <1>3, <2>1 DEF Push, AttemptTypes
<1>4. CASE \E conclusion \in {"passed", "failed"} : CIEnds(conclusion)
  <2>1. public' \in [tag: Commits, main: Commits, ci: {"pending", "passed", "failed"}]
    BY <1>4 DEF CIEnds, AttemptTypes
  <2> QED
    BY <1>4, <2>1 DEF CIEnds, AttemptTypes
<1>5. CASE PowerLoss
  <2>1. \A o \in Attempts : Ended(o, "dead") \in AttemptRecords
    BY EndedTyped DEF Over
  <2>2. att' \in [Attempts -> AttemptRecords]
    BY <1>5, <2>1 DEF PowerLoss, AttemptTypes
  <2>3. proof' \in [Attempts -> ProofStates]
    BY <1>5 DEF PowerLoss, AttemptTypes, ProofStates
  <2>4. log' \in Logs
    <3>1. log \in Logs /\ NoLog \in Logs
      BY DEF AttemptTypes, NoLog, Logs
    <3>2. \A b \in BOOLEAN : [log EXCEPT !.durable = b] \in Logs
      BY <3>1 DEF Logs
    <3>3. (log.durable \/ log.owner # 0) \in BOOLEAN
      OBVIOUS
    <3>4. [log EXCEPT !.durable = log.durable \/ log.owner # 0] \in Logs
      BY <3>2, <3>3, Zenon
    <3>5. log' = [log EXCEPT !.durable = log.durable \/ log.owner # 0] \/ log' = NoLog
      BY <1>5, Zenon DEF PowerLoss
    <3> QED
      BY <3>1, <3>4, <3>5, Zenon
  <2>5. PICK undone, missing : session' = [o \in Attempts |-> Struck(o, undone, missing)]
    BY <1>5 DEF PowerLoss
  <2>6. ASSUME NEW o \in Attempts PROVE Struck(o, undone, missing) \in Sessions
    <3>1. session[o] \in Sessions /\ NoReport \in Reports
      BY NothingTyped DEF AttemptTypes
    <3>2. [session[o] EXCEPT !.place = IF o \in undone THEN "staging" ELSE @,
                             !.report = IF o \in missing THEN NoReport ELSE @] \in Sessions
      BY <3>1 DEF Sessions
    <3> QED
      BY <3>2, LeftTyped DEF Struck
  <2>7. session' \in [Attempts -> Sessions]
    BY <2>5, <2>6
  <2> QED
    BY <1>5, <2>2, <2>3, <2>4, <2>7 DEF PowerLoss, AttemptTypes
<1> QED
  BY <1>1, <1>2, <1>3, <1>4, <1>5 DEF Others

\* Every step of the attempts keeps their types.
LEMMA AttemptStepTyped ==
    ASSUME AttemptTypes, \A o \in Attempts : ProofOf(o), AttemptNext PROVE AttemptTypes'
<1>1. ASSUME NEW o \in Attempts, AttemptStep(o) \/ Killed(o) PROVE AttemptTypes'
  BY <1>1, AdmissionTyped, ReservationTyped, WindowsTyped, EndsTyped DEF AttemptStep
<1> QED
  BY <1>1, ProofsTyped, OthersTyped DEF AttemptNext

-----------------------------------------------------------------------------
(***************************************************************************)
(* What a step of one orchestration leaves to the others.                  *)
(***************************************************************************)
Untouched(o) == att'[o] = att[o] /\ proof'[o] = proof[o] /\ session'[o] = session[o]

\* Runs are only added, and a build is only replaced by a newer one.
Grows ==
    /\ app'.build \in Nat /\ app.build <= app'.build
    /\ DOMAIN runs \subseteq DOMAIN runs'
    /\ \A r \in DOMAIN runs : runs'[r] = runs[r]

\* An orchestration nobody touches keeps its invariant, if the log was not its own or is
\* not written.
LEMMA UntouchedInv ==
    ASSUME AttemptTypes, NEW o \in Attempts, AttemptInv(o), Untouched(o), Grows,
           log' = log \/ log.owner # o
    PROVE  AttemptInv(o)'
<1>1. att[o].run \in DOMAIN runs => Build(o)' = Build(o) /\ runs'[att'[o].run] = runs[att[o].run]
  BY DEF Untouched, Grows, Build
<1>2. att[o].pc \in Proved => Build(o) \in Nat /\ att[o].run \in DOMAIN runs
  BY BuildTyped DEF AttemptInv, ProofOf
<1>3. /\ att[o].pc \in Surfaced \cup PresentationKept \cup {"presenting", "reopening"} => att[o].pc \in Proved
      /\ att[o].pc \in ResultKept \cup {"sealed", "snapshot"} => att[o].pc \in Proved
      /\ Proved \subseteq Invoked /\ Invoked \subseteq Reserved /\ Reserved \subseteq Holding
  BY DEF Surfaced, PresentationKept, ResultKept, Proved, Invoked, Reserved, Holding
<1>4. LogOf(o)'
  <2>1. CASE log' = log
    BY <2>1 DEF AttemptInv, LogOf, Untouched
  <2>2. CASE log.owner # o
    <3>1. att[o].pc \notin Holding /\ proof[o] = "none"
      BY <1>3, <2>2 DEF AttemptInv, LogOf
    <3>2. {"created", "reserved", "session"} \subseteq Holding
      BY DEF Holding, Reserved
    <3> QED
      BY <1>3, <3>1, <3>2 DEF LogOf, Untouched
  <2> QED
    BY <2>1, <2>2
<1>5. ProofOf(o)'
  BY <1>1, <1>2 DEF AttemptInv, ProofOf, Untouched, Grows
<1>6. WindowOf(o)'
  <2>1. app.build \in Nat /\ att[o].shown \in Nat
    BY DEF AttemptTypes, AttemptRecords
  <2> QED
    BY <1>1, <1>2, <1>3, <2>1 DEF AttemptInv, WindowOf, Untouched, Grows
<1>7. KeptOf(o)'
  <2>1. att[o].pc = "snapshot" => log' = log
    BY <1>3 DEF AttemptInv, LogOf, Holding, Reserved
  <2> QED
    BY <1>1, <1>2, <1>3, <2>1 DEF AttemptInv, KeptOf, Untouched
<1>8. ReportOf(o)'
  <2>1. session[o].report # NoReport => log' = log /\ att[o].run \in DOMAIN runs
    BY DEF AttemptInv, ReportOf
  <2> QED
    BY <1>1, <2>1 DEF AttemptInv, ReportOf, Untouched, Grows, LogComplete
<1> QED
  BY <1>4, <1>5, <1>6, <1>7, <1>8 DEF AttemptInv

\* A run that is added is the last one.
LEMMA LastRun ==
    ASSUME AttemptTypes, NEW r \in RunRecords
    PROVE  /\ DOMAIN runs = 1..Len(runs) /\ Len(runs) \in Nat
           /\ DOMAIN Append(runs, r) = 1..(Len(runs) + 1)
           /\ \A i \in DOMAIN runs : Append(runs, r)[i] = runs[i]
           /\ Append(runs, r)[Len(runs) + 1] = r
  BY DEF AttemptTypes

\* A step that leaves the bundle and the runs alone.
LEMMA StaysGrown ==
    ASSUME AttemptTypes, UNCHANGED <<app, runs>> PROVE Grows
  BY DEF AttemptTypes, Grows

\* An orchestration and its proof touch nothing of the others, and only write a log that is
\* theirs or nobody's.
LEMMA StepFrame ==
    ASSUME AttemptTypes, NEW o \in Attempts, AttemptInv(o),
           AttemptStep(o) \/ ProofStep(o) \/ Killed(o)
    PROVE  /\ Grows
           /\ \A p \in Attempts \ {o} : Untouched(p) /\ (log' = log \/ log.owner # p)
<1>1. att[o].pc \in Holding => log.owner = o
  BY DEF AttemptInv, LogOf
<1>2. \A p \in Attempts : p # 0
  BY BoundAssumption DEF Attempts
<1>3. CASE SourceBound(o) \/ HostAndToolPreflight(o) \/ SourceConfirmed(o)
  <2>1. Grows
    <3>1. CASE HostAndToolPreflight(o)
      BY <3>1 DEF HostAndToolPreflight, Rebuilt, AttemptTypes, Grows
    <3> QED
      BY <1>3, <3>1, StaysGrown DEF SourceBound, SourceConfirmed
  <2>2. \A p \in Attempts \ {o} : Untouched(p)
    BY <1>3 DEF SourceBound, HostAndToolPreflight, PreflightCapture, SourceConfirmed, Goto,
         AttemptTypes, Untouched
  <2>3. log' = log
    BY <1>3 DEF SourceBound, HostAndToolPreflight, SourceConfirmed
  <2> QED
    BY <2>1, <2>2, <2>3
<1>4. CASE FetchRefs(o) \/ FetchRuns(o) \/ PrepareTagCIReceipt(o)
  <2>1. Grows /\ log' = log
    BY <1>4, StaysGrown DEF FetchRefs, FetchRuns, Fetches, PrepareTagCIReceipt
  <2>2. \A p \in Attempts \ {o} : Untouched(p)
    BY <1>4 DEF FetchRefs, FetchRuns, Fetches, PrepareTagCIReceipt, Goto, AttemptTypes, Untouched
  <2> QED
    BY <2>1, <2>2
<1>5. CASE CreateLog(o) \/ Reserve(o) \/ MoveIntoPlace(o) \/ StartProof(o) \/ InspectProof(o)
  <2>1. Grows
    BY <1>5, StaysGrown DEF CreateLog, Reserve, MoveIntoPlace, StartProof, InspectProof
  <2>2. \A p \in Attempts \ {o} : Untouched(p)
    <3>1. CASE InspectProof(o)
      <4>1. PICK r : att' = [att EXCEPT ![o].pc = "proved", ![o].run = r]
        BY <3>1 DEF InspectProof
      <4> QED
        BY <3>1, <4>1 DEF InspectProof, AttemptTypes, Untouched
    <3>2. CASE CreateLog(o) \/ Reserve(o) \/ MoveIntoPlace(o) \/ StartProof(o)
      BY <3>2 DEF CreateLog, Reserve, MoveIntoPlace, StartProof, Goto, AttemptTypes, Untouched
    <3> QED
      BY <1>5, <3>1, <3>2
  <2>3. log' = log \/ log.owner = 0 \/ log.owner = o
    BY <1>1, <1>5 DEF CreateLog, Reserve, MoveIntoPlace, StartProof, InspectProof, Holding, Reserved
  <2> QED
    BY <1>2, <2>1, <2>2, <2>3
<1>6. ASSUME NEW from \in Reserved, NEW event, NEW to, Advances(o, from, event, to),
             \A p \in Attempts \ {o} : session'[p] = session[p]
      PROVE  /\ Grows
             /\ \A p \in Attempts \ {o} : Untouched(p) /\ log.owner # p
  <2>1. Grows
    BY <1>6, StaysGrown DEF Advances
  <2>2. \A p \in Attempts \ {o} : Untouched(p)
    BY <1>6 DEF Advances, Goto, AttemptTypes, Untouched
  <2>3. log.owner = o
    BY <1>1, <1>6 DEF Advances, Holding
  <2> QED
    BY <2>1, <2>2, <2>3
<1>7. {"session", "presenting", "surface", "reopening", "reopened", "captured"} \subseteq Reserved
  BY DEF Reserved
<1>8. CASE RecordInvocation(o) \/ SurfaceReady(o)
  <2>1. session' = session
    BY <1>8 DEF RecordInvocation, SurfaceReady, Records
  <2> QED
    BY <1>6, <1>7, <1>8, <2>1 DEF RecordInvocation, SurfaceReady, Records
<1>9. CASE CapturePresentation(o) \/ SameRunReopened(o) \/ CaptureResult(o) \/ SealMedia(o)
  <2>1. \A p \in Attempts \ {o} : session'[p] = session[p]
    BY <1>9 DEF CapturePresentation, SameRunReopened, CaptureResult, SealMedia, Captured, AttemptTypes
  <2> QED
    BY <1>6, <1>7, <1>9, <2>1 DEF CapturePresentation, SameRunReopened, CaptureResult, SealMedia
<1>10. CASE CheckApplication(o) \/ LaunchPresentation(o) \/ LaunchResult(o)
  <2>1. Grows /\ log' = log
    BY <1>10, StaysGrown DEF CheckApplication, LaunchPresentation, LaunchResult, LaunchApp
  <2>2. \A p \in Attempts \ {o} : Untouched(p)
    BY <1>10
    DEF CheckApplication, LaunchPresentation, LaunchResult, LaunchApp, Goto, AttemptTypes, Untouched
  <2> QED
    BY <2>1, <2>2
<1>11. CASE SnapshotState(o) \/ WriteReport(o) \/ FailBefore(o) \/ Killed(o)
  <2>1. Grows /\ log' = log
    BY <1>11, StaysGrown DEF SnapshotState, WriteReport, FailBefore, Killed
  <2>2. \A p \in Attempts \ {o} : Untouched(p)
    BY <1>11 DEF SnapshotState, WriteReport, FailBefore, Killed, Goto, AttemptTypes, Untouched
  <2> QED
    BY <2>1, <2>2
<1>12. ASSUME NEW told, NEW written, FailReserved(o, told, written)
       PROVE  /\ Grows
              /\ \A p \in Attempts \ {o} : Untouched(p) /\ log.owner # p
  <2>1. Grows
    BY <1>12, StaysGrown DEF FailReserved
  <2>2. \A p \in Attempts \ {o} : Untouched(p)
    BY <1>12 DEF FailReserved, AttemptTypes, Untouched
  <2>3. log.owner = o
    BY <1>1, <1>12 DEF FailReserved, Holding
  <2> QED
    BY <2>1, <2>2, <2>3
<1>13. CASE ProofStep(o)
  <2>1. Grows
    <3>1. CASE ProofBuilds(o)
      BY <3>1 DEF ProofBuilds, Rebuilt, AttemptTypes, Grows
    <3>2. CASE ProofLeavesRun(o)
      <4>1. [by |-> o, build |-> app.build, commit |-> app.commit] \in RunRecords
        BY DEF AttemptTypes, RunRecords
      <4> QED
        BY <3>2, <4>1, LastRun DEF ProofLeavesRun, AttemptTypes, Grows
    <3>3. CASE \E status \in {"verified", "failed"} : ProofEnds(o, status)
      BY <3>3, StaysGrown DEF ProofEnds
    <3> QED
      BY <1>13, <3>1, <3>2, <3>3 DEF ProofStep
  <2>2. /\ \A p \in Attempts \ {o} : Untouched(p)
        /\ log' = log
    BY <1>13 DEF ProofStep, ProofBuilds, ProofLeavesRun, ProofEnds, AttemptTypes, Untouched
  <2> QED
    BY <2>1, <2>2
<1> QED
  BY <1>3, <1>4, <1>5, <1>8, <1>9, <1>10, <1>11, <1>12, <1>13 DEF AttemptStep

-----------------------------------------------------------------------------
(***************************************************************************)
(* What a step leaves to the orchestration that takes it.                  *)
(***************************************************************************)
\* The places are in order.
LEMMA Places ==
    /\ Proved \subseteq Invoked /\ Invoked \subseteq Reserved /\ Reserved \subseteq Holding
    /\ Surfaced \cup PresentationKept \cup ResultKept \subseteq Proved
    /\ {"presenting", "reopening", "sealed", "snapshot"} \subseteq Proved
    /\ Before \cap Holding = {} /\ Running = Before \cup Holding
    /\ Over \cap Running = {} /\ "idle" \notin Over \cup Running
  BY DEF Surfaced, PresentationKept, ResultKept, Proved, Invoked, Reserved, Holding, Before,
         Running, Over

\* An orchestration that is running has no receipt.
LEMMA NoReceiptYet ==
    ASSUME NEW o \in Attempts, ReportOf(o), att[o].pc \in {"idle"} \cup Running
    PROVE  session[o].report = NoReport
  BY Places DEF ReportOf

\* Until its answers are admitted an orchestration promises nothing.
LEMMA AdmissionInv ==
    ASSUME AttemptTypes, NEW o \in Attempts, AttemptInv(o),
           \/ SourceBound(o) \/ HostAndToolPreflight(o) \/ SourceConfirmed(o)
           \/ FetchRefs(o) \/ FetchRuns(o)
    PROVE  AttemptInv(o)'
<1>1. att'[o].pc \in {"staged", "built", "confirmed", "refs read", "runs read"}
  <2>1. \A pc : Goto(o, pc) => att'[o].pc = pc
    BY DEF Goto, AttemptTypes, AttemptRecords
  <2>2. CASE SourceBound(o)
    BY <2>2 DEF SourceBound, AttemptTypes, AttemptRecords
  <2>3. CASE HostAndToolPreflight(o) \/ SourceConfirmed(o) \/ FetchRefs(o) \/ FetchRuns(o)
    BY <2>1, <2>3 DEF HostAndToolPreflight, SourceConfirmed, FetchRefs, FetchRuns, Fetches
  <2> QED
    BY <2>2, <2>3
<1>2. proof' = proof /\ log' = log
  BY DEF SourceBound, HostAndToolPreflight, SourceConfirmed, FetchRefs, FetchRuns, Fetches
<1>3. session'[o].report = NoReport
  <2>1. att[o].pc \in {"idle"} \cup Running
    BY DEF SourceBound, HostAndToolPreflight, SourceConfirmed, FetchRefs, FetchRuns, Fetches,
           Running, Before
  <2>2. session[o].report = NoReport
    BY <2>1, NoReceiptYet DEF AttemptInv
  <2>3. CASE SourceBound(o)
    BY <2>2, <2>3 DEF SourceBound, AttemptTypes, Sessions
  <2>4. CASE HostAndToolPreflight(o)
    BY <2>2, <2>4 DEF HostAndToolPreflight, PreflightCapture, AttemptTypes, Sessions
  <2>5. CASE SourceConfirmed(o)
    BY <2>2, <2>5 DEF SourceConfirmed
  <2>6. CASE FetchRefs(o) \/ FetchRuns(o)
    <3>1. \A a : [session EXCEPT ![o].kept.answers = a][o].report = session[o].report
      BY DEF AttemptTypes, Sessions
    <3> QED
      BY <2>2, <2>6, <3>1 DEF FetchRefs, FetchRuns, Fetches
  <2> QED
    BY <2>3, <2>4, <2>5, <2>6
<1>4. att'[o].pc \notin {"admitted"} \cup Holding
  BY <1>1 DEF Holding, Reserved
<1>5. LogOf(o)'
  BY <1>2, <1>4, Places DEF AttemptInv, LogOf, Holding, Reserved
<1>6. ProofOf(o)' /\ WindowOf(o)' /\ KeptOf(o)'
  BY <1>4, Places DEF ProofOf, WindowOf, KeptOf
<1>7. ReportOf(o)'
  BY <1>3 DEF ReportOf
<1> QED
  BY <1>5, <1>6, <1>7 DEF AttemptInv

\* The answers that are written down are of the commit, and so is the local tag.
LEMMA AdmittedInv ==
    ASSUME AttemptTypes, NEW o \in Attempts, AttemptInv(o), PrepareTagCIReceipt(o)
    PROVE  AttemptInv(o)'
<1>1. att'[o].pc = "admitted" /\ att'[o].commit = att[o].commit
  BY DEF PrepareTagCIReceipt, Goto, AttemptTypes, AttemptRecords
<1>2. proof' = proof /\ log' = log
  BY DEF PrepareTagCIReceipt
<1>3. session[o].report = NoReport
  BY NoReceiptYet DEF PrepareTagCIReceipt, AttemptInv, Running, Before
<1>4. session'[o].report = NoReport /\ session'[o].kept.trust = tag
      /\ session'[o].kept.answers = session[o].kept.answers
  BY <1>3 DEF PrepareTagCIReceipt, AttemptTypes, Sessions, KeptFiles
<1>5. att'[o].pc \notin Holding
  BY <1>1 DEF Holding, Reserved
<1>6. LogOf(o)'
  BY <1>2, <1>5, Places DEF AttemptInv, LogOf, Holding, Reserved
<1>7. ProofOf(o)' /\ WindowOf(o)'
  BY <1>5, Places DEF ProofOf, WindowOf
<1>8. KeptOf(o)'
  <2>1. TagCIAdmits(session[o].kept.answers, att[o].commit) /\ tag = att[o].commit
    BY DEF PrepareTagCIReceipt, BundleWritten, LocalTagTrusted
  <2> QED
    BY <1>1, <1>4, <1>5, <2>1, Places DEF KeptOf, TagCIAdmits, PublicRefsName, FirstRunPassed
<1>9. ReportOf(o)'
  BY <1>4 DEF ReportOf
<1> QED
  BY <1>6, <1>7, <1>8, <1>9 DEF AttemptInv

\* The log of the tag: created, reserved, and the session moved into its place.
LEMMA ReservationInv ==
    ASSUME AttemptTypes, NEW o \in Attempts, AttemptInv(o),
           CreateLog(o) \/ Reserve(o) \/ MoveIntoPlace(o)
    PROVE  AttemptInv(o)'
<1>1. /\ att'[o].pc \in {"created", "reserved", "session"}
      /\ att'[o].commit = att[o].commit
  BY DEF CreateLog, Reserve, MoveIntoPlace, Goto, AttemptTypes, AttemptRecords
<1>2. att[o].pc \in {"admitted", "created", "reserved"}
  BY DEF CreateLog, Reserve, MoveIntoPlace
<1>3. proof' = proof
  BY DEF CreateLog, Reserve, MoveIntoPlace
<1>4. session[o].report = NoReport
  BY <1>2, NoReceiptYet DEF AttemptInv, Running, Before, Reserved
<1>5. session'[o].report = NoReport /\ session'[o].kept = session[o].kept
  BY <1>4 DEF CreateLog, Reserve, MoveIntoPlace, AttemptTypes, Sessions
<1>6. proof[o] = "none"
  <2>1. proof[o] # "none" => log.owner = o /\ Len(log.events) > 1
    BY DEF AttemptInv, LogOf
  <2>2. CASE CreateLog(o)
    BY <2>1, <2>2, BoundAssumption DEF CreateLog, Attempts
  <2>3. CASE Reserve(o)
    BY <2>1, <2>3 DEF Reserve, AttemptInv, LogOf
  <2>4. CASE MoveIntoPlace(o)
    BY <2>1, <2>4 DEF MoveIntoPlace, AttemptInv, LogOf
  <2> QED
    BY <2>2, <2>3, <2>4
<1>7. att'[o].pc \notin Invoked /\ att'[o].pc \in Holding
  BY <1>1 DEF Invoked, Holding, Reserved
<1>8. LogOf(o)'
  <2>1. CASE CreateLog(o)
    <3>1. att'[o].pc = "created"
      BY <2>1 DEF CreateLog, Goto, AttemptTypes, AttemptRecords
    <3>2. log'.owner = o /\ log'.events = <<>>
      BY <2>1 DEF CreateLog
    <3> QED
      BY <1>3, <1>6, <1>7, <3>1, <3>2 DEF LogOf, Reserved
  <2>2. CASE Reserve(o)
    <3>1. att'[o].pc = "reserved"
      BY <2>2 DEF Reserve, Goto, AttemptTypes, AttemptRecords
    <3>2. log.owner = o /\ log.events = <<>>
      BY <2>2 DEF Reserve, AttemptInv, LogOf, Holding
    <3>3. log'.owner = o /\ log'.durable /\ log'.events = <<"ATTEMPT_STARTED">>
      BY <2>2, <3>2 DEF Reserve, AttemptTypes, Logs
    <3> QED
      BY <1>3, <1>6, <1>7, <3>1, <3>3 DEF LogOf
  <2>3. CASE MoveIntoPlace(o)
    <3>1. att'[o].pc = "session"
      BY <2>3 DEF MoveIntoPlace, AttemptTypes, AttemptRecords
    <3> QED
      BY <1>3, <1>6, <1>7, <2>3, <3>1 DEF MoveIntoPlace, AttemptInv, LogOf, Holding, Reserved
  <2> QED
    BY <2>1, <2>2, <2>3
<1>9. ProofOf(o)' /\ WindowOf(o)'
  BY <1>7, Places DEF ProofOf, WindowOf
<1>10. KeptOf(o)'
  <2>1. att[o].pc \in {"admitted"} \cup Holding
    BY <1>2 DEF Holding, Reserved
  <2> QED
    BY <1>1, <1>5, <1>7, <2>1, Places
    DEF AttemptInv, KeptOf, TagCIAdmits, PublicRefsName, FirstRunPassed
<1>11. ReportOf(o)'
  BY <1>5 DEF ReportOf
<1> QED
  BY <1>8, <1>9, <1>10, <1>11 DEF AttemptInv

\* An event that is appended leaves the first two, once they are there.
LEMMA AppendedEvents ==
    ASSUME AttemptTypes, NEW e
    PROVE  /\ Appended(e).owner = log.owner /\ Appended(e).durable = log.durable
           /\ Appended(e).events = Append(log.events, e)
           /\ Len(log.events) > 1 => /\ Len(Appended(e).events) > 1
                                     /\ Appended(e).events[2] = log.events[2]
           /\ log.events = <<"ATTEMPT_STARTED">> =>
                  Len(Appended(e).events) > 1 /\ Appended(e).events[2] = e
<1>1. log.events \in Seq(Events)
  BY DEF AttemptTypes, Logs
<1>2. /\ Appended(e).owner = log.owner /\ Appended(e).durable = log.durable
      /\ Appended(e).events = Append(log.events, e)
  BY DEF Appended, AttemptTypes, Logs
<1> QED
  BY <1>1, <1>2

\* The invocation is in the log before the proof is started.
LEMMA InvocationInv ==
    ASSUME AttemptTypes, NEW o \in Attempts, AttemptInv(o), RecordInvocation(o) \/ StartProof(o)
    PROVE  AttemptInv(o)'
<1>1. /\ att'[o].pc \in {"invoked", "proving"} /\ att[o].pc \in {"session", "invoked"}
      /\ att'[o].commit = att[o].commit
  BY DEF RecordInvocation, Records, Advances, StartProof, Goto, AttemptTypes, AttemptRecords
<1>2. session[o].report = NoReport /\ session' = session
  BY <1>1, NoReceiptYet
  DEF RecordInvocation, Records, StartProof, AttemptInv, Running, Reserved
<1>3. att[o].pc \in Reserved
  BY <1>1 DEF Reserved
<1>4. log.owner = o /\ log.durable
  BY <1>3, Places DEF AttemptInv, LogOf
<1>5. /\ log'.owner = o /\ log'.durable
      /\ Len(log'.events) > 1 /\ log'.events[2] = "PROOF_INVOKED"
  <2>1. CASE RecordInvocation(o)
    BY <1>4, <2>1, AppendedEvents DEF RecordInvocation, Records, Advances, AttemptInv, LogOf
  <2>2. CASE StartProof(o)
    BY <1>4, <2>2 DEF StartProof, AttemptInv, LogOf, Invoked, Reserved
  <2> QED
    BY <2>1, <2>2
<1>6. LogOf(o)'
  BY <1>1, <1>5 DEF LogOf
<1>7. att'[o].pc \notin Proved /\ att'[o].pc \in Holding
  BY <1>1 DEF Proved, Invoked, Holding, Reserved
<1>8. ProofOf(o)' /\ WindowOf(o)'
  BY <1>7, Places DEF ProofOf, WindowOf
<1>9. KeptOf(o)'
  BY <1>1, <1>2, <1>3, <1>7, Places
  DEF AttemptInv, KeptOf, TagCIAdmits, PublicRefsName, FirstRunPassed
<1>10. ReportOf(o)'
  BY <1>2 DEF ReportOf
<1> QED
  BY <1>6, <1>8, <1>9, <1>10 DEF AttemptInv

\* Whatever is appended after the invocation, the log says that there was one.
LEMMA LogKept ==
    ASSUME AttemptTypes, NEW o \in Attempts, LogOf(o), att[o].pc \in Invoked \/ proof[o] # "none",
           att'[o].pc \in Invoked \cup Over,
           \/ log' = log
           \/ \E e : log' = Appended(e)
           \/ log' = [log EXCEPT !.events = @ \o <<"PROOF_TERMINAL", "REPLAY_VERIFIED">>]
    PROVE  LogOf(o)'
<1>1. /\ log.owner = o /\ log.durable
      /\ Len(log.events) > 1 /\ log.events[2] = "PROOF_INVOKED"
  BY DEF LogOf
<1>2. /\ log'.owner = o /\ log'.durable
      /\ Len(log'.events) > 1 /\ log'.events[2] = "PROOF_INVOKED"
  <2>1. CASE log' = log
    BY <1>1, <2>1
  <2>2. CASE \E e : log' = Appended(e)
    BY <1>1, <2>2, AppendedEvents
  <2>3. CASE log' = [log EXCEPT !.events = @ \o <<"PROOF_TERMINAL", "REPLAY_VERIFIED">>]
    <3>1. log.events \in Seq(Events)
      BY DEF AttemptTypes, Logs
    <3>2. <<"PROOF_TERMINAL", "REPLAY_VERIFIED">> \in Seq(Events)
      BY EventNames
    <3>3. LET e == log.events \o <<"PROOF_TERMINAL", "REPLAY_VERIFIED">> IN
          Len(e) > 1 /\ e[2] = "PROOF_INVOKED"
      BY <1>1, <3>1, <3>2
    <3>4. /\ log'.owner = log.owner /\ log'.durable = log.durable
          /\ log'.events = log.events \o <<"PROOF_TERMINAL", "REPLAY_VERIFIED">>
      BY <2>3 DEF AttemptTypes, Logs
    <3> QED
      BY <1>1, <3>3, <3>4
  <2> QED
    BY <2>1, <2>2, <2>3
<1>3. att'[o].pc \notin {"created", "reserved", "session"}
  BY DEF Invoked, Reserved, Over
<1> QED
  BY <1>2, <1>3 DEF LogOf

\* The proof that is gone on with is verified, was one's own and of the source.
LEMMA InspectionInv ==
    ASSUME AttemptTypes, NEW o \in Attempts, AttemptInv(o), InspectProof(o)
    PROVE  AttemptInv(o)'
<1>1. PICK r \in DOMAIN runs : /\ ProofInspected(o, r)
                               /\ att' = [att EXCEPT ![o].pc = "proved", ![o].run = r]
  BY DEF InspectProof
<1>2. att'[o].pc = "proved" /\ att'[o].run = r /\ att'[o].commit = att[o].commit
  BY <1>1 DEF AttemptTypes, AttemptRecords
<1>3. /\ att[o].pc = "proving" /\ proof[o] = "verified"
      /\ UNCHANGED <<app, runs, proof, session>>
  BY DEF InspectProof
<1>4. att[o].pc \in Invoked /\ att'[o].pc \in Invoked
  BY <1>2, <1>3 DEF Invoked, Reserved
<1>5. session[o].report = NoReport
  BY <1>4, NoReceiptYet, Places DEF AttemptInv
<1>6. LogOf(o)'
  BY <1>4, LogKept DEF InspectProof, AttemptInv
<1>7. ProofOf(o)'
  BY <1>1, <1>2, <1>3 DEF ProofInspected, ProofOf
<1>8. WindowOf(o)'
  BY <1>2 DEF WindowOf, Surfaced
<1>9. KeptOf(o)'
  <2>1. TagCIAdmits(session[o].kept.answers, att[o].commit) /\ session[o].kept.trust = att[o].commit
    BY <1>4, Places DEF AttemptInv, KeptOf
  <2> QED
    BY <1>2, <1>3, <2>1
    DEF KeptOf, TagCIAdmits, PublicRefsName, FirstRunPassed, PresentationKept, ResultKept
<1>10. ReportOf(o)'
  BY <1>3, <1>5 DEF ReportOf
<1> QED
  BY <1>6, <1>7, <1>8, <1>9, <1>10 DEF AttemptInv

\* After it the run, the bundle the script sees and the proof are the same from step to step.
Onwards(o) ==
    \/ CheckApplication(o)
    \/ LaunchPresentation(o) \/ SurfaceReady(o) \/ CapturePresentation(o)
    \/ LaunchResult(o) \/ SameRunReopened(o) \/ CaptureResult(o)
    \/ SealMedia(o) \/ SnapshotState(o)

\* Such a step appends to the log at most, and leaves the answers and the run.
LEMMA OnwardsFacts ==
    ASSUME AttemptTypes, NEW o \in Attempts, AttemptInv(o), Onwards(o)
    PROVE  /\ att[o].pc \in Proved /\ att'[o].pc \in Proved
           /\ att'[o].run = att[o].run /\ att'[o].commit = att[o].commit
           /\ UNCHANGED <<app, runs, proof>>
           /\ Build(o) \in Nat /\ Build(o)' = Build(o)
           /\ session'[o].report = NoReport
           /\ session'[o].kept.answers = session[o].kept.answers
           /\ session'[o].kept.trust = session[o].kept.trust
           /\ LogOf(o)' /\ ProofOf(o)' /\ ReportOf(o)'
<1>1. {"proved", "presentable", "presenting", "surface", "presented", "reopenable", "reopening",
       "reopened", "captured", "sealed", "snapshot"} \subseteq Proved
  BY DEF Proved, Invoked, Reserved
<1>2. att[o].pc \in Proved
  BY <1>1
  DEF Onwards, CheckApplication, LaunchPresentation, SurfaceReady, CapturePresentation, LaunchResult,
      SameRunReopened, CaptureResult, SealMedia, SnapshotState, Records, Advances, LaunchApp
<1>3. \A pc : Goto(o, pc) => /\ att'[o].pc = pc /\ att'[o].shown = att[o].shown
                             /\ att'[o].run = att[o].run /\ att'[o].commit = att[o].commit
  BY DEF Goto, AttemptTypes, AttemptRecords
<1>4. /\ att'[o].pc \in Proved
      /\ att'[o].run = att[o].run /\ att'[o].commit = att[o].commit
  <2>1. CASE LaunchPresentation(o) \/ LaunchResult(o)
    BY <1>1, <2>1 DEF LaunchPresentation, LaunchResult, LaunchApp, AttemptTypes, AttemptRecords
  <2>2. CASE CheckApplication(o) \/ SnapshotState(o)
    BY <1>1, <1>3, <2>2 DEF CheckApplication, SnapshotState
  <2>3. CASE SurfaceReady(o) \/ CapturePresentation(o) \/ SameRunReopened(o) \/ CaptureResult(o)
             \/ SealMedia(o)
    BY <1>1, <1>3, <2>3
    DEF SurfaceReady, CapturePresentation, SameRunReopened, CaptureResult, SealMedia, Records, Advances
  <2> QED
    BY <2>1, <2>2, <2>3 DEF Onwards
<1>5. UNCHANGED <<app, runs, proof>>
  BY DEF Onwards, CheckApplication, LaunchPresentation, SurfaceReady, CapturePresentation,
         LaunchResult, SameRunReopened, CaptureResult, SealMedia, SnapshotState, Records, Advances,
         LaunchApp
<1>6. session[o].report = NoReport
  BY <1>2, NoReceiptYet, Places DEF AttemptInv
<1>7. /\ session'[o].report = session[o].report
      /\ session'[o].kept.answers = session[o].kept.answers
      /\ session'[o].kept.trust = session[o].kept.trust
  <2>1. CASE CheckApplication(o) \/ LaunchPresentation(o) \/ LaunchResult(o) \/ SurfaceReady(o)
    BY <2>1 DEF CheckApplication, LaunchPresentation, LaunchResult, LaunchApp, SurfaceReady, Records
  <2>2. CASE CapturePresentation(o) \/ CaptureResult(o)
    <3>1. PICK s : session' = [session EXCEPT ![o].kept.raw[s] = att[o].shown]
      BY <2>2 DEF CapturePresentation, CaptureResult, Captured
    <3> QED
      BY <3>1 DEF AttemptTypes, Sessions, KeptFiles
  <2>3. CASE SameRunReopened(o)
    BY <2>3 DEF SameRunReopened, AttemptTypes, Sessions, KeptFiles
  <2>4. CASE SealMedia(o)
    BY <2>4 DEF SealMedia, AttemptTypes, Sessions, KeptFiles
  <2>5. CASE SnapshotState(o)
    BY <2>5 DEF SnapshotState, AttemptTypes, Sessions, KeptFiles
  <2> QED
    BY <2>1, <2>2, <2>3, <2>4, <2>5 DEF Onwards
<1>8. log' = log \/ \E e : log' = Appended(e)
  BY DEF Onwards, CheckApplication, LaunchPresentation, SurfaceReady, CapturePresentation,
         LaunchResult, SameRunReopened, CaptureResult, SealMedia, SnapshotState, Records, Advances,
         LaunchApp
<1>9. LogOf(o)'
  BY <1>2, <1>4, <1>8, LogKept, Places DEF AttemptInv
<1>10. Build(o) \in Nat /\ Build(o)' = Build(o)
  BY <1>2, <1>4, <1>5, BuildTyped DEF AttemptInv, Build
<1>11. ProofOf(o)'
  BY <1>2, <1>4, <1>5 DEF AttemptInv, ProofOf
<1>12. ReportOf(o)'
  BY <1>6, <1>7 DEF ReportOf
<1> QED
  BY <1>2, <1>4, <1>5, <1>6, <1>7, <1>9, <1>10, <1>11, <1>12

\* The window shows the proof's build where that is claimed, and the captures keep it.
LEMMA OnwardsInv ==
    ASSUME AttemptTypes, RunsInv, NEW o \in Attempts, AttemptInv(o), Onwards(o)
    PROVE  AttemptInv(o)'
<1> DEFINE b == Build(o)
<1>1. /\ att[o].pc \in Proved /\ att'[o].pc \in Proved
      /\ UNCHANGED <<app, runs>> /\ att'[o].run = att[o].run /\ att'[o].commit = att[o].commit
      /\ b \in Nat /\ Build(o)' = b
      /\ session'[o].kept.answers = session[o].kept.answers
      /\ session'[o].kept.trust = session[o].kept.trust
  BY OnwardsFacts
<1>2. app.build \in Nat /\ att[o].shown \in Nat
  BY DEF AttemptTypes, AttemptRecords
<1>3. b <= app.build
  BY <1>1 DEF AttemptInv, ProofOf, RunsInv, Build
<1>4. \A pc : Goto(o, pc) => att'[o].pc = pc /\ att'[o].shown = att[o].shown
  BY DEF Goto, AttemptTypes, AttemptRecords
<1>5. ProofApplication(o) => app.build = b
  BY DEF ProofApplication, Build
<1>6. TagCIAdmits(session'[o].kept.answers, att'[o].commit) /\ session'[o].kept.trust = att'[o].commit
  BY <1>1, Places DEF AttemptInv, KeptOf
\* What is left to show of the session at each of the places.
<1>7. ASSUME /\ att'[o].pc \in PresentationKept => session'[o].kept.raw["presentation"] = b
             /\ att'[o].pc \in ResultKept => session'[o].kept.raw["result"] = b
             /\ att'[o].pc \in {"sealed", "snapshot"} =>
                    session'[o].kept.video = [presentation |-> b, result |-> b]
             /\ att'[o].pc = "snapshot" => log'.events = Success
      PROVE  KeptOf(o)'
  BY <1>1, <1>6, <1>7 DEF KeptOf, TagCIAdmits, PublicRefsName, FirstRunPassed
<1>8. /\ att[o].pc \in PresentationKept => session[o].kept.raw["presentation"] = b
      /\ att[o].pc \in ResultKept => session[o].kept.raw["result"] = b
      /\ att[o].pc \in {"sealed", "snapshot"} =>
             session[o].kept.video = [presentation |-> b, result |-> b]
  BY DEF AttemptInv, KeptOf
<1>9. /\ att[o].pc \in {"presenting", "reopening"} => b <= att[o].shown /\ att[o].shown <= app.build
      /\ att[o].pc \in Surfaced => att[o].shown = b
  BY DEF AttemptInv, WindowOf
<1>10. ASSUME att'[o].pc \in {"presenting", "reopening"} =>
                  b <= att'[o].shown /\ att'[o].shown <= app.build,
              att'[o].pc \in Surfaced => att'[o].shown = b
       PROVE  WindowOf(o)'
  BY <1>1, <1>10 DEF WindowOf
<1>11. \A s \in Segments : \A x : LET n == [session EXCEPT ![o].kept.raw[s] = x] IN
           /\ n[o].kept.raw[s] = x
           /\ \A t \in Segments \ {s} : n[o].kept.raw[t] = session[o].kept.raw[t]
  BY DEF AttemptTypes, Sessions, KeptFiles
<1> HIDE DEF b
<1>12. CASE CheckApplication(o)
  <2>1. /\ \/ att[o].pc = "proved" /\ att'[o].pc = "presentable"
           \/ att[o].pc = "presented" /\ att'[o].pc = "reopenable"
        /\ att'[o].shown = att[o].shown /\ session' = session
    BY <1>4, <1>12 DEF CheckApplication
  <2>2. WindowOf(o)'
    BY <1>9, <1>10, <2>1 DEF Surfaced, Proved, Invoked, Reserved
  <2>3. KeptOf(o)'
    BY <1>7, <1>8, <2>1 DEF PresentationKept, ResultKept, Proved, Invoked, Reserved
  <2> QED
    BY <2>2, <2>3, OnwardsFacts DEF AttemptInv
<1>13. CASE LaunchPresentation(o) \/ LaunchResult(o)
  <2>1. /\ \/ att[o].pc = "presentable" /\ att'[o].pc = "presenting"
           \/ att[o].pc = "reopenable" /\ att'[o].pc = "reopening"
        /\ att'[o].shown = app.build /\ session' = session
    BY <1>13 DEF LaunchPresentation, LaunchResult, LaunchApp, AttemptTypes, AttemptRecords
  <2>2. WindowOf(o)'
    BY <1>2, <1>3, <1>10, <2>1 DEF Surfaced
  <2>3. KeptOf(o)'
    BY <1>7, <1>8, <2>1 DEF PresentationKept, ResultKept, Proved, Invoked, Reserved
  <2> QED
    BY <2>2, <2>3, OnwardsFacts DEF AttemptInv
\* Where the shown build is the one at the path, it is the proof's.
<1>14. ProofApplication(o) /\ att[o].pc \in {"presenting", "reopening"} => att[o].shown = b
  BY <1>1, <1>2, <1>5, <1>9
<1>15. CASE SurfaceReady(o)
  <2>1. /\ att[o].pc = "presenting" /\ att'[o].pc = "surface"
        /\ att'[o].shown = b /\ session' = session
    BY <1>4, <1>14, <1>15 DEF SurfaceReady, Records, Advances
  <2>2. WindowOf(o)'
    BY <1>10, <2>1
  <2>3. KeptOf(o)'
    BY <1>7, <2>1 DEF PresentationKept, ResultKept
  <2> QED
    BY <2>2, <2>3, OnwardsFacts DEF AttemptInv
<1>16. CASE CapturePresentation(o)
  <2>1. /\ att[o].pc = "surface" /\ att'[o].pc = "presented" /\ att'[o].shown = att[o].shown
        /\ session' = [session EXCEPT ![o].kept.raw["presentation"] = att[o].shown]
    BY <1>4, <1>16 DEF CapturePresentation, Captured, Advances
  <2>2. att[o].shown = b
    BY <1>9, <2>1 DEF Surfaced, Proved, Invoked, Reserved
  <2>3. session'[o].kept.raw["presentation"] = b
    BY <1>11, <2>1, <2>2 DEF Segments
  <2>4. WindowOf(o)' /\ KeptOf(o)'
    BY <1>7, <1>10, <2>1, <2>2, <2>3 DEF ResultKept
  <2> QED
    BY <2>4, OnwardsFacts DEF AttemptInv
<1>17. CASE SameRunReopened(o)
  <2>1. /\ att[o].pc = "reopening" /\ att'[o].pc = "reopened"
        /\ att'[o].shown = b
        /\ session' = [session EXCEPT ![o].kept.readiness = Readiness(att[o].run)]
    BY <1>4, <1>14, <1>17 DEF SameRunReopened, Advances
  <2>2. session'[o].kept.raw = session[o].kept.raw
    BY <2>1 DEF AttemptTypes, Sessions, KeptFiles
  <2>3. WindowOf(o)'
    BY <1>10, <2>1
  <2>4. KeptOf(o)'
    BY <1>7, <1>8, <2>1, <2>2 DEF PresentationKept, ResultKept, Proved, Invoked, Reserved
  <2> QED
    BY <2>3, <2>4, OnwardsFacts DEF AttemptInv
<1>18. CASE CaptureResult(o)
  <2>1. /\ att[o].pc = "reopened" /\ att'[o].pc = "captured" /\ att'[o].shown = att[o].shown
        /\ session' = [session EXCEPT ![o].kept.raw["result"] = att[o].shown]
    BY <1>4, <1>18 DEF CaptureResult, Captured, Advances
  <2>2. att[o].shown = b /\ session[o].kept.raw["presentation"] = b
    BY <1>8, <1>9, <2>1 DEF Surfaced, PresentationKept, Proved, Invoked, Reserved
  <2>3. session'[o].kept.raw["result"] = b /\ session'[o].kept.raw["presentation"] = b
    BY <1>11, <2>1, <2>2 DEF Segments
  <2>4. WindowOf(o)' /\ KeptOf(o)'
    BY <1>7, <1>10, <2>1, <2>2, <2>3
  <2> QED
    BY <2>4, OnwardsFacts DEF AttemptInv
<1>19. CASE SealMedia(o)
  <2>1. /\ att[o].pc = "captured" /\ att'[o].pc = "sealed" /\ att'[o].shown = att[o].shown
        /\ session' = [session EXCEPT ![o].kept.video = Composition(session[o].kept.raw)]
    BY <1>4, <1>19 DEF SealMedia, Advances
  <2>2. /\ att[o].shown = b
        /\ session[o].kept.raw["presentation"] = b /\ session[o].kept.raw["result"] = b
    BY <1>8, <1>9, <2>1 DEF Surfaced, PresentationKept, ResultKept, Proved, Invoked, Reserved
  <2>3. /\ session'[o].kept.raw = session[o].kept.raw
        /\ session'[o].kept.video = [presentation |-> b, result |-> b]
    BY <2>1, <2>2 DEF Composition, AttemptTypes, Sessions, KeptFiles
  <2>4. WindowOf(o)' /\ KeptOf(o)'
    BY <1>7, <1>10, <2>1, <2>2, <2>3
  <2> QED
    BY <2>4, OnwardsFacts DEF AttemptInv
<1>20. CASE SnapshotState(o)
  <2>1. /\ att[o].pc = "sealed" /\ att'[o].pc = "snapshot" /\ att'[o].shown = att[o].shown
        /\ session' = [session EXCEPT ![o].kept.state = log.events]
        /\ log' = log /\ log.events = Success
    BY <1>4, <1>20 DEF SnapshotState, AttemptStateExact
  <2>2. /\ session'[o].kept.raw = session[o].kept.raw
        /\ session'[o].kept.video = session[o].kept.video
    BY <2>1 DEF AttemptTypes, Sessions, KeptFiles
  <2>3. att[o].pc \in Surfaced \cap PresentationKept \cap ResultKept
    BY <2>1 DEF Surfaced, PresentationKept, ResultKept, Proved, Invoked, Reserved
  <2>4. WindowOf(o)' /\ KeptOf(o)'
    BY <1>7, <1>8, <1>9, <1>10, <2>1, <2>2, <2>3
  <2> QED
    BY <2>4, OnwardsFacts DEF AttemptInv
<1> QED
  BY <1>12, <1>13, <1>15, <1>16, <1>17, <1>18, <1>19, <1>20 DEF Onwards

\* An orchestration that ends with its receipt has earned it, also when the write failed
\* after its last byte.
LEMMA ReceiptWritten ==
    ASSUME AttemptTypes, NEW o \in Attempts, AttemptInv(o), att[o].pc = "snapshot",
           NEW pc \in Over, att'[o] = Ended(o, pc), session'[o].report \in {NoReport, Report(o)},
           UNCHANGED runs, proof[o] = "verified" => proof'[o] = "verified",
           log' = log \/ log' = Appended("ATTEMPT_FAILED")
    PROVE  ReportOf(o)'
<1>1. att'[o].pc \in Over /\ att'[o].run = att[o].run /\ att'[o].commit = att[o].commit
  BY DEF Ended, NotStarted
<1>2. att[o].pc \in Reserved /\ att[o].pc \in Proved /\ att[o].pc \in Holding
  BY Places
<1>3. /\ proof'[o] = "verified" /\ att[o].run \in DOMAIN runs
      /\ runs[att[o].run].by = o /\ runs[att[o].run].commit = att[o].commit
  BY <1>2 DEF AttemptInv, ProofOf
<1>4. log.owner = o /\ log.durable /\ log.events = Success
  BY <1>2 DEF AttemptInv, LogOf, KeptOf
<1>5. log'.owner = o /\ log'.durable /\ LogComplete'
  <2>1. CASE log' = log
    BY <1>4, <2>1 DEF LogComplete
  <2>2. CASE log' = Appended("ATTEMPT_FAILED")
    BY <1>4, <2>2, AppendedEvents DEF LogComplete
  <2> QED
    BY <2>1, <2>2
<1>6. LET kept == session[o].kept IN
          /\ kept.video = [presentation |-> Build(o), result |-> Build(o)]
          /\ TagCIAdmits(kept.answers, att[o].commit) /\ kept.trust = att[o].commit
  BY <1>2 DEF AttemptInv, KeptOf
<1>7. Build(o)' = Build(o)
  BY <1>1 DEF Build
<1>8. CASE session'[o].report = Report(o)
  <2>1. session'[o].report.run = att[o].run /\ session'[o].report.kept = session[o].kept
    BY <1>8 DEF Report
  <2> QED
    BY <1>1, <1>3, <1>5, <1>6, <1>7, <2>1
    DEF ReportOf, TagCIAdmits, PublicRefsName, FirstRunPassed
<1>9. CASE session'[o].report = NoReport
  BY <1>9 DEF ReportOf
<1> QED
  BY <1>8, <1>9

\* What is left of a session is its receipt, if it has one.
LEMMA LeftReport ==
    ASSUME NEW s \in Sessions, NEW r \in Reports
    PROVE  /\ Left([s EXCEPT !.report = r]).report = r
           /\ Left(s).report = s.report
  BY DEF Left, NoSession, Sessions

\* An orchestration that ends, of itself or not.
LEMMA EndsInv ==
    ASSUME AttemptTypes, NEW o \in Attempts, AttemptInv(o),
           \/ WriteReport(o) \/ FailBefore(o) \/ Killed(o)
           \/ \E told, written \in BOOLEAN : FailReserved(o, told, written)
    PROVE  AttemptInv(o)'
<1>1. session[o].report = NoReport
  <2>1. att[o].pc \in Running
    BY Places DEF WriteReport, FailBefore, Killed, FailReserved, Running, Reserved
  <2> QED
    BY <2>1, NoReceiptYet DEF AttemptInv
<1>2. session[o] \in Sessions /\ NoReport \in Reports
  BY NothingTyped DEF AttemptTypes
<1>3. ASSUME NEW pc \in Over, att'[o].pc = pc,
             proof'[o] = "none" \/ proof[o] # "none",
             log' = log \/ log' = Appended("ATTEMPT_FAILED"), ReportOf(o)'
      PROVE  AttemptInv(o)'
  <2>1. /\ pc \notin Reserved /\ pc \notin Holding /\ pc \notin Invoked /\ pc \notin Proved
        /\ pc \notin {"created", "reserved", "session", "admitted"}
    BY Places DEF Over, Holding, Reserved
  <2>2. LogOf(o)'
    <3>1. CASE proof[o] # "none"
      BY <1>3, <3>1, LogKept DEF AttemptInv
    <3>2. CASE proof'[o] = "none"
      BY <1>3, <2>1, <3>2 DEF LogOf
    <3> QED
      BY <1>3, <3>1, <3>2
  <2>3. ProofOf(o)' /\ WindowOf(o)' /\ KeptOf(o)'
    BY <1>3, <2>1, Places DEF ProofOf, WindowOf, KeptOf
  <2> QED
    BY <1>3, <2>2, <2>3 DEF AttemptInv
<1>4. CASE WriteReport(o)
  <2>1. /\ att'[o] = Ended(o, "passed") /\ att[o].pc = "snapshot" /\ session'[o].report = Report(o)
        /\ UNCHANGED <<runs, proof, log>>
    BY <1>4 DEF WriteReport, AttemptTypes, Sessions
  <2>2. "passed" \in Over /\ att'[o].pc = "passed"
    BY <2>1 DEF Over, Ended, NotStarted
  <2>3. ReportOf(o)'
    BY <2>1, <2>2, ReceiptWritten
  <2> QED
    BY <1>3, <2>1, <2>2, <2>3
<1>5. CASE FailBefore(o)
  <2>1. att'[o].pc = "failed" /\ session'[o] = NoSession /\ UNCHANGED <<proof, log>>
    BY <1>5 DEF FailBefore, AttemptTypes, NotStarted
  <2>2. ReportOf(o)'
    BY <2>1 DEF ReportOf, NoSession
  <2> QED
    BY <1>3, <2>1, <2>2 DEF Over
<1>6. CASE Killed(o)
  <2>1. att'[o].pc = "dead" /\ session'[o] = Left(session[o]) /\ UNCHANGED <<proof, log>>
    BY <1>6 DEF Killed, AttemptTypes, Ended, NotStarted
  <2>2. ReportOf(o)'
    BY <1>1, <1>2, <2>1, LeftReport DEF ReportOf
  <2> QED
    BY <1>3, <2>1, <2>2 DEF Over
<1>7. ASSUME NEW told \in BOOLEAN, NEW written \in BOOLEAN, FailReserved(o, told, written)
      PROVE  AttemptInv(o)'
  <2>1. /\ att'[o] = Ended(o, "failed") /\ UNCHANGED runs
        /\ proof'[o] = IF proof[o] \in Unfinished THEN "stopped" ELSE proof[o]
        /\ log' = log \/ log' = Appended("ATTEMPT_FAILED")
    BY <1>7 DEF FailReserved, AttemptTypes
  <2>2. "failed" \in Over /\ att'[o].pc = "failed"
    BY <2>1 DEF Over, Ended, NotStarted
  <2>3. ReportOf(o)'
    <3> DEFINE report == IF written THEN Report(o) ELSE session[o].report
    <3>1. session'[o] = Left([session[o] EXCEPT !.report = report])
      BY <1>7 DEF FailReserved, AttemptTypes
    <3>2. CASE written
      <4>1. att[o].pc = "snapshot" /\ report = Report(o)
        BY <1>7, <3>2 DEF FailReserved
      <4>2. Report(o) \in Reports
        BY <4>1, ReportTyped, Places DEF AttemptInv
      <4>3. session'[o].report = Report(o)
        BY <1>2, <3>1, <4>1, <4>2, LeftReport
      <4> QED
        BY <2>1, <2>2, <4>1, <4>3, ReceiptWritten DEF Unfinished
    <3>3. CASE ~written
      <4>1. report = NoReport
        BY <1>1, <3>3
      <4>2. session'[o].report = NoReport
        BY <1>2, <3>1, <4>1, LeftReport
      <4> QED
        BY <4>2 DEF ReportOf
    <3> QED
      BY <3>2, <3>3
  <2> QED
    BY <1>3, <2>1, <2>2, <2>3 DEF Unfinished
<1> QED
  BY <1>4, <1>5, <1>6, <1>7

\* A proof that goes on, with or without its orchestration.
LEMMA ProofInv ==
    ASSUME AttemptTypes, NEW o \in Attempts, AttemptInv(o), ProofStep(o)
    PROVE  AttemptInv(o)'
<1>1. /\ proof[o] \in Unfinished /\ proof'[o] # "none"
      /\ UNCHANGED <<log, att, session>>
  BY DEF ProofStep, ProofBuilds, ProofLeavesRun, ProofEnds, Unfinished, AttemptTypes
<1>2. att[o].pc \notin Proved /\ session[o].report = NoReport
  BY <1>1 DEF Unfinished, AttemptInv, ProofOf, ReportOf
<1>3. LogOf(o)'
  BY <1>1 DEF AttemptInv, LogOf, Unfinished
<1>4. ProofOf(o)' /\ WindowOf(o)'
  BY <1>1, <1>2, Places DEF ProofOf, WindowOf
<1>5. KeptOf(o)'
  <2>1. att[o].pc \notin PresentationKept \cup ResultKept \cup {"sealed", "snapshot"}
    BY <1>2, Places
  <2> QED
    BY <1>1, <2>1 DEF AttemptInv, KeptOf, TagCIAdmits, PublicRefsName, FirstRunPassed
<1>6. ReportOf(o)'
  BY <1>1, <1>2 DEF ReportOf
<1> QED
  BY <1>3, <1>4, <1>5, <1>6 DEF AttemptInv

\* A power loss: only a log that nobody relies on yet is lost.
LEMMA PowerLossInv ==
    ASSUME AttemptTypes, NEW o \in Attempts, AttemptInv(o), PowerLoss
    PROVE  AttemptInv(o)'
<1>1. UNCHANGED <<app, runs>>
  BY DEF PowerLoss
<1>2. att'[o] = IF att[o].pc \in Running THEN Ended(o, "dead") ELSE att[o]
  BY DEF PowerLoss
<1>3. /\ att'[o].pc \notin Running /\ att'[o].run = att[o].run /\ att'[o].commit = att[o].commit
      /\ att[o].pc \in Over => att'[o].pc \in Over
  BY <1>2, Places DEF Ended, NotStarted, Over
<1>4. proof'[o] = IF proof[o] \in Unfinished THEN "stopped" ELSE proof[o]
  BY DEF PowerLoss
<1>5. \/ log'.owner = log.owner /\ log'.events = log.events /\ (log.durable => log'.durable)
      \/ ~log.durable
  <2>1. \/ log' = [log EXCEPT !.durable = log.durable \/ log.owner # 0]
        \/ ~log.durable
    BY Zenon DEF PowerLoss
  <2>2. /\ [log EXCEPT !.durable = log.durable \/ log.owner # 0].owner = log.owner
        /\ [log EXCEPT !.durable = log.durable \/ log.owner # 0].events = log.events
    BY DEF AttemptTypes, Logs
  <2>3. [log EXCEPT !.durable = log.durable \/ log.owner # 0].durable = (log.durable \/ log.owner # 0)
    BY DEF AttemptTypes, Logs
  <2> QED
    BY <2>1, <2>2, <2>3
<1>6. session'[o].report \in {session[o].report, NoReport}
  <2>1. PICK undone, missing : session' = [p \in Attempts |-> Struck(p, undone, missing)]
    BY DEF PowerLoss
  <2>2. session[o] \in Sessions /\ NoReport \in Reports
    BY NothingTyped DEF AttemptTypes
  <2> DEFINE struck == [session[o] EXCEPT !.place = IF o \in undone THEN "staging" ELSE @,
                                          !.report = IF o \in missing THEN NoReport ELSE @]
  <2>3. struck \in Sessions /\ struck.report \in {session[o].report, NoReport}
    BY <2>2 DEF Sessions
  <2>4. session'[o] = Left(struck)
    BY <2>1 DEF Struck
  <2> HIDE DEF struck
  <2> QED
    BY <2>2, <2>3, <2>4, LeftReport
<1>7. LogOf(o)'
  <2>1. att'[o].pc \notin Holding /\ att'[o].pc \notin Invoked /\ att'[o].pc \notin Reserved
        /\ att'[o].pc \notin {"created", "reserved", "session"}
    BY <1>3, Places DEF Holding, Reserved
  <2>2. proof'[o] # "none" => proof[o] # "none"
    BY <1>4 DEF Unfinished
  <2>3. proof[o] # "none" => log'.owner = o /\ log'.durable
                             /\ Len(log'.events) > 1 /\ log'.events[2] = "PROOF_INVOKED"
    BY <1>5 DEF AttemptInv, LogOf
  <2> QED
    BY <2>1, <2>2, <2>3 DEF LogOf
<1>8. ProofOf(o)' /\ WindowOf(o)' /\ KeptOf(o)'
  <2>1. att'[o].pc \notin Proved /\ att'[o].pc \notin {"admitted"} \cup Holding
    BY <1>3, Places DEF Running, Before
  <2> QED
    BY <2>1, Places DEF ProofOf, WindowOf, KeptOf
<1>9. ReportOf(o)'
  <2>1. CASE session'[o].report = NoReport
    BY <2>1 DEF ReportOf
  <2>2. CASE session'[o].report # NoReport
    <3>1. session'[o].report = session[o].report /\ session[o].report # NoReport
      BY <1>6, <2>2
    <3>2. /\ att[o].pc \in Over /\ att[o].run \in DOMAIN runs
          /\ proof[o] = "verified" /\ log.durable
      BY <3>1 DEF AttemptInv, ReportOf
    <3>3. log'.owner = log.owner /\ log'.events = log.events /\ log'.durable
      BY <1>5, <3>2
    <3> QED
      BY <1>1, <1>3, <1>4, <3>1, <3>2, <3>3
      DEF AttemptInv, ReportOf, Build, LogComplete, Unfinished, TagCIAdmits, PublicRefsName,
          FirstRunPassed
  <2> QED
    BY <2>1, <2>2
<1> QED
  BY <1>7, <1>8, <1>9 DEF AttemptInv

\* No run of a build that is newer than the bundle at the path, and a synced log is somebody's.
LEMMA RunsKept ==
    ASSUME AttemptTypes, RunsInv, \A o \in Attempts : AttemptInv(o), AttemptNext
    PROVE  RunsInv'
<1>1. \A r \in DOMAIN runs : runs[r].build \in Nat
  <2>1. \A r \in DOMAIN runs : runs[r] \in RunRecords
    BY DEF AttemptTypes
  <2> QED
    BY <2>1 DEF RunRecords
<1>2. app.build \in Nat
  BY DEF AttemptTypes
<1>3. ASSUME NEW by \in {0} \cup Attempts,
             runs' = Append(runs, [by |-> by, build |-> app.build, commit |-> app.commit]), app' = app
      PROVE  \A r \in DOMAIN runs' : runs'[r].build <= app'.build
  <2>1. [by |-> by, build |-> app.build, commit |-> app.commit] \in RunRecords
    BY DEF AttemptTypes, RunRecords
  <2> QED
    BY <1>2, <1>3, <2>1, LastRun DEF RunsInv
<1>4. ASSUME Grows, runs' = runs PROVE \A r \in DOMAIN runs' : runs'[r].build <= app'.build
  BY <1>1, <1>2, <1>4 DEF Grows, RunsInv
<1>5. ASSUME NEW o \in Attempts, AttemptStep(o) \/ ProofStep(o) \/ Killed(o) PROVE RunsInv'
  <2>1. Grows
    BY <1>5, StepFrame
  <2>2. ProofLeavesRun(o) \/ runs' = runs
    BY <1>5
    DEF AttemptStep, ProofStep, SourceBound, HostAndToolPreflight, SourceConfirmed, FetchRefs,
        FetchRuns, Fetches, PrepareTagCIReceipt, CreateLog, Reserve, MoveIntoPlace, RecordInvocation,
        StartProof, InspectProof, CheckApplication, LaunchPresentation, SurfaceReady,
        CapturePresentation, LaunchResult, SameRunReopened, CaptureResult, SealMedia, SnapshotState,
        WriteReport, FailBefore, FailReserved, Killed, ProofBuilds, ProofEnds, Records, Advances,
        LaunchApp
  <2>3. \A r \in DOMAIN runs' : runs'[r].build <= app'.build
    <3>1. CASE ProofLeavesRun(o)
      BY <1>3, <3>1 DEF ProofLeavesRun
    <3> QED
      BY <1>4, <2>1, <2>2, <3>1
  <2>4. log'.durable => log'.owner # 0
    <3>1. \/ log' = log \/ (log' \in Logs /\ log.owner = o /\ log'.owner = o)
          \/ (log'.durable = FALSE)
      <4>1. att[o].pc \in Holding => log.owner = o
        BY DEF AttemptInv, LogOf
      <4>2. \A e : Appended(e).owner = log.owner
        BY DEF Appended, AttemptTypes, Logs
      <4>3. AttemptTypes'
        BY <1>5, AttemptStepTyped DEF AttemptNext, AttemptInv
      <4>4. log' \in Logs
        BY <4>3 DEF AttemptTypes
      <4>5. CASE CreateLog(o)
        BY <4>5 DEF CreateLog
      <4>6. CASE Reserve(o) \/ InspectProof(o)
        BY <4>1, <4>4, <4>6 DEF Reserve, InspectProof, AttemptTypes, Logs, Holding, Reserved
      <4>7. CASE RecordInvocation(o) \/ SurfaceReady(o) \/ CapturePresentation(o)
                 \/ SameRunReopened(o) \/ CaptureResult(o) \/ SealMedia(o)
        BY <4>1, <4>2, <4>4, <4>7
        DEF RecordInvocation, SurfaceReady, CapturePresentation, SameRunReopened, CaptureResult,
            SealMedia, Records, Advances, Holding, Reserved
      <4>8. CASE \E told, written \in BOOLEAN : FailReserved(o, told, written)
        BY <4>1, <4>2, <4>4, <4>8 DEF FailReserved, Holding
      <4>9. CASE ProofStep(o) \/ Killed(o) \/ WriteReport(o) \/ FailBefore(o)
        BY <4>9
        DEF ProofStep, ProofBuilds, ProofLeavesRun, ProofEnds, Killed, WriteReport, FailBefore
      <4>10. CASE SourceBound(o) \/ HostAndToolPreflight(o) \/ SourceConfirmed(o) \/ FetchRefs(o)
                  \/ FetchRuns(o) \/ PrepareTagCIReceipt(o) \/ MoveIntoPlace(o) \/ StartProof(o)
                  \/ CheckApplication(o) \/ LaunchPresentation(o) \/ LaunchResult(o)
                  \/ SnapshotState(o)
        BY <4>10
        DEF SourceBound, HostAndToolPreflight, SourceConfirmed, FetchRefs, FetchRuns, Fetches,
            PrepareTagCIReceipt, MoveIntoPlace, StartProof, CheckApplication, LaunchPresentation,
            LaunchResult, LaunchApp, SnapshotState
      <4> QED
        BY <1>5, <4>5, <4>6, <4>7, <4>8, <4>9, <4>10 DEF AttemptStep
    <3>2. o # 0
      BY BoundAssumption DEF Attempts
    <3> QED
      BY <3>1, <3>2 DEF RunsInv
  <2> QED
    BY <2>3, <2>4 DEF RunsInv
<1>6. CASE Others
  <2>1. CASE UserRun
    BY <1>3, <2>1 DEF UserRun, RunsInv
  <2>2. CASE PowerLoss
    <3>1. log'.durable => log'.owner # 0
      BY <2>2 DEF PowerLoss, RunsInv, NoLog, AttemptTypes, Logs
    <3> QED
      BY <1>4, <2>2, <3>1, StaysGrown DEF PowerLoss, RunsInv
  <2>3. CASE UNCHANGED <<app, runs, log>>
    BY <2>3 DEF RunsInv
  <2> QED
    BY <1>6, <2>1, <2>2, <2>3 DEF Others, CheckoutMoves, Retag, Push, CIEnds
<1> QED
  BY <1>5, <1>6 DEF AttemptNext

\* What others do, short of a power loss, touches no orchestration and no log.
LEMMA OthersFrame ==
    ASSUME AttemptTypes, Others, ~PowerLoss
    PROVE  Grows /\ log' = log /\ \A o \in Attempts : Untouched(o)
<1>1. log' = log /\ \A o \in Attempts : Untouched(o)
  BY DEF Others, CheckoutMoves, Retag, UserRun, Push, CIEnds, Untouched
<1>2. Grows
  <2>1. CASE UserRun
    <3>1. [by |-> 0, build |-> app.build, commit |-> app.commit] \in RunRecords
      BY DEF AttemptTypes, RunRecords
    <3> QED
      BY <2>1, <3>1, LastRun DEF UserRun, AttemptTypes, Grows
  <2>2. CASE UNCHANGED <<app, runs>>
    BY <2>2, StaysGrown
  <2> QED
    BY <2>1, <2>2 DEF Others, CheckoutMoves, Retag, Push, CIEnds
<1> QED
  BY <1>1, <1>2

\* Every step of the attempts keeps the invariant of every orchestration.
LEMMA AttemptsStep ==
    ASSUME AttemptTypes, AttemptsInv, AttemptNext PROVE AttemptTypes' /\ AttemptsInv'
<1>1. AttemptTypes'
  BY AttemptStepTyped DEF AttemptsInv, AttemptInv
<1>2. RunsInv'
  BY RunsKept DEF AttemptsInv
<1>3. ASSUME NEW o \in Attempts PROVE AttemptInv(o)'
  <2>1. AttemptInv(o) /\ RunsInv
    BY DEF AttemptsInv
  <2>2. ASSUME NEW p \in Attempts, AttemptStep(p) \/ ProofStep(p) \/ Killed(p)
        PROVE  AttemptInv(o)'
    <3>1. CASE p = o
      <4>1. CASE ProofStep(o)
        BY <2>1, <4>1, ProofInv
      <4>2. CASE AttemptStep(o) \/ Killed(o)
        BY <2>1, <4>2, AdmissionInv, AdmittedInv, ReservationInv, InvocationInv, InspectionInv,
           OnwardsInv, EndsInv DEF AttemptStep, Onwards
      <4> QED
        BY <2>2, <3>1, <4>1, <4>2
    <3>2. CASE p # o
      <4>1. AttemptInv(p)
        BY DEF AttemptsInv
      <4>2. Grows /\ Untouched(o) /\ (log' = log \/ log.owner # o)
        BY <2>2, <3>2, <4>1, StepFrame
      <4> QED
        BY <2>1, <4>2, UntouchedInv
    <3> QED
      BY <3>1, <3>2
  <2>3. CASE Others
    <3>1. CASE PowerLoss
      BY <2>1, <3>1, PowerLossInv
    <3>2. CASE ~PowerLoss
      BY <2>1, <2>3, <3>2, OthersFrame, UntouchedInv
    <3> QED
      BY <3>1, <3>2
  <2> QED
    BY <2>2, <2>3 DEF AttemptNext
<1> QED
  BY <1>1, <1>2, <1>3 DEF AttemptsInv

\* An orchestration that is over stays what it was, and so does its log once it is synced.
LEMMA OverStays ==
    ASSUME AttemptTypes, AttemptsInv, AttemptNext, NEW o \in Attempts, att[o].pc \in Over
    PROVE  /\ Grows
           /\ att'[o] = att[o]
           /\ log.owner = o /\ log.durable =>
                  log'.owner = o /\ log'.durable /\ log'.events = log.events
<1>1. att[o].pc \notin Running /\ att[o].pc # "idle"
  BY Places
<1>2. ASSUME NEW p \in Attempts, AttemptStep(p) \/ ProofStep(p) \/ Killed(p)
      PROVE  Grows /\ att'[o] = att[o] /\ (log' = log \/ log.owner # o)
  <2>1. AttemptInv(p)
    BY DEF AttemptsInv
  <2>2. CASE p # o
    BY <1>2, <2>1, <2>2, StepFrame DEF Untouched
  <2>3. CASE p = o
    <3>1. ~AttemptStep(o) /\ ~Killed(o)
      BY <1>1
      DEF AttemptStep, SourceBound, HostAndToolPreflight, SourceConfirmed, FetchRefs, FetchRuns, Fetches,
          PrepareTagCIReceipt, CreateLog, Reserve, MoveIntoPlace, RecordInvocation, StartProof,
          InspectProof, CheckApplication, LaunchPresentation, SurfaceReady, CapturePresentation,
          LaunchResult, SameRunReopened, CaptureResult, SealMedia, SnapshotState, WriteReport,
          FailBefore, FailReserved, Killed, Records, Advances, LaunchApp, Running, Before, Reserved
    <3>2. ProofStep(o)
      BY <1>2, <2>3, <3>1
    <3>3. att' = att /\ log' = log
      BY <3>2 DEF ProofStep, ProofBuilds, ProofLeavesRun, ProofEnds
    <3> QED
      BY <1>2, <2>1, <2>3, <3>3, StepFrame
  <2> QED
    BY <2>2, <2>3
<1>3. CASE Others /\ ~PowerLoss
  BY <1>3, OthersFrame DEF Untouched
<1>4. CASE PowerLoss
  <2>1. Grows /\ att'[o] = att[o]
    BY <1>1, <1>4, StaysGrown DEF PowerLoss
  <2>2. log.durable => log' = [log EXCEPT !.durable = log.durable \/ log.owner # 0]
    BY <1>4, Zenon DEF PowerLoss
  <2>3. log.durable => [log EXCEPT !.durable = log.durable \/ log.owner # 0] = log
    <3>1. log \in Logs
      BY DEF AttemptTypes
    <3>2. log.durable => log.durable = TRUE
      BY <3>1 DEF Logs
    <3>3. log.durable => (log.durable \/ log.owner # 0) = TRUE
      BY Zenon
    <3>4. log.durable => [log EXCEPT !.durable = TRUE] = log
      BY <3>1, <3>2 DEF Logs
    <3> QED
      BY <3>3, <3>4, Zenon
  <2> QED
    BY <2>1, <2>2, <2>3
<1> QED
  BY <1>2, <1>3, <1>4 DEF AttemptNext, Others

-----------------------------------------------------------------------------
(***************************************************************************)
(* The types of the release.                                               *)
(***************************************************************************)
\* The empty values.
LEMMA EmptyTyped ==
    /\ NoFiles \in FileSets /\ NoDirectory \in Directories /\ NoRelease \in Releases
    /\ NoRequest \in [identity: Identities, sums: Sums]
    /\ NoViews \in [policy: BOOLEAN, release: Releases, tag: Commit0]
    /\ NoInput \in [files: FileSets, evidence: Reports, run: Nat, commit: Commit0]
<1>1. NoFiles \in FileSets
  BY DEF NoFiles, FileSets, Contents
<1>2. NoIdentity \in Identities /\ NothingMade \in Mades
  BY DEF NoIdentity, Identities, NothingMade, Mades, Commit0, Contents
<1>3. NoSums \in Sums
  BY <1>1, <1>2 DEF NoSums, Sums
<1>4. NoDirectory \in Directories /\ NoRequest \in [identity: Identities, sums: Sums]
  BY <1>1, <1>2, <1>3 DEF NoDirectory, Directories, NoRequest
<1>5. NoRelease \in Releases
  BY <1>1, <1>4 DEF NoRelease, Releases
<1>6. NoViews \in [policy: BOOLEAN, release: Releases, tag: Commit0]
  BY <1>5 DEF NoViews, Commit0
<1>7. NoInput \in [files: FileSets, evidence: Reports, run: Nat, commit: Commit0]
  BY NothingTyped, <1>1 DEF NoInput, Commit0
<1> QED
  BY <1>1, <1>4, <1>5, <1>6, <1>7

\* The collector.
LEMMA CollectorTyped ==
    ASSUME TypeInv, Collector PROVE ReleaseTypes'
<1>1. ASSUME NEW r \in DOMAIN runs, SealRun(r) PROVE ReleaseTypes'
  <2>1. r \in Nat /\ runs[r].commit \in Commit0
    <3>1. runs[r] \in RunRecords /\ r \in Nat
      BY DEF TypeInv, AttemptTypes
    <3> QED
      BY <3>1 DEF RunRecords, Commit0
  <2>2. input' \in [files: FileSets, evidence: Reports, run: Nat, commit: Commit0]
    BY <1>1, <2>1 DEF SealRun, TypeInv, ReleaseTypes
  <2> QED
    BY <1>1, <2>2 DEF SealRun, TypeInv, ReleaseTypes, ReleaseStages
<1>2. ASSUME NEW o \in Attempts, CollectSnapshot(o) PROVE ReleaseTypes'
  <2>1. [f \in Files |-> o] \in FileSets /\ session[o].report \in Reports
    BY DEF FileSets, Contents, TypeInv, AttemptTypes, Sessions
  <2>2. input' \in [files: FileSets, evidence: Reports, run: Nat, commit: Commit0]
    BY <1>2, <2>1 DEF CollectSnapshot, Collected, TypeInv, ReleaseTypes
  <2> QED
    BY <1>2, <2>2 DEF CollectSnapshot, TypeInv, ReleaseTypes, ReleaseStages
<1>3. CASE CollectionFails
  BY <1>3, EmptyTyped DEF CollectionFails, TypeInv, ReleaseTypes, ReleaseStages
<1> QED
  BY <1>1, <1>2, <1>3 DEF Collector

\* The builder.
LEMMA BuilderTyped ==
    ASSUME TypeInv, Builder PROVE ReleaseTypes'
<1>1. input.files \in FileSets /\ input.commit \in Commit0 /\ staging \in Directories
      /\ head \in Commit0
  BY DEF TypeInv, ReleaseTypes, AttemptTypes, Commit0
<1>2. CASE ValidateInputs
  <2>1. SourceIdentity(input.commit, input.files["provenance"]) \in Identities
    BY <1>1 DEF SourceIdentity, Identities, FileSets, Files
  <2>2. staging' \in Directories
    BY <1>1, <1>2, <2>1 DEF ValidateInputs, Directories
  <2> QED
    BY <1>2, <2>2 DEF ValidateInputs, TypeInv, ReleaseTypes, ReleaseStages
<1>3. CASE CopyAndSign
  <2> DEFINE made == [source |-> SourceArchive(input.commit), sbom |-> Dependencies,
                      reproduce |-> ReproduceDocument(input.commit)]
             copied == [staging EXCEPT !.files = input.files, !.made = made]
             sums == Covered(copied)
  <2>1. made \in Mades
    BY <1>1 DEF SourceArchive, Dependencies, ReproduceDocument, Mades
  <2>2. copied \in Directories
    <3> HIDE DEF made
    <3> QED
      BY <1>1, <2>1 DEF Directories
  <2>3. sums \in Sums
    <3> HIDE DEF copied
    <3> QED
      BY <2>2 DEF Covered, Directories, Sums
  <2>4. staging' = [copied EXCEPT !.sums = sums]
    BY <1>3 DEF CopyAndSign
  <2>5. staging' \in Directories
    <3> HIDE DEF copied, sums
    <3> QED
      BY <2>2, <2>3, <2>4 DEF Directories
  <2> QED
    BY <1>3, <2>5 DEF CopyAndSign, TypeInv, ReleaseTypes, ReleaseStages
<1>4. CASE FinishRelease
  BY <1>1, <1>4, EmptyTyped DEF FinishRelease, TypeInv, ReleaseTypes, ReleaseStages
<1>5. CASE BuildFails
  BY <1>5, EmptyTyped DEF BuildFails, TypeInv, ReleaseTypes, ReleaseStages
<1> QED
  BY <1>2, <1>3, <1>4, <1>5 DEF Builder

\* The verifiers of the publication, and what is done on GitHub.
LEMMA PublicationTyped ==
    ASSUME TypeInv,
           \/ PublicationVerifier
           \/ CreateDraft \/ UploadAssets \/ FetchDraft \/ FetchTagAndPolicy \/ Publish
           \/ FetchRelease \/ FetchTag
    PROVE  ReleaseTypes'
<1>1. /\ assets \in Directories /\ gh \in Releases /\ policy \in BOOLEAN
      /\ views \in [policy: BOOLEAN, release: Releases, tag: Commit0] /\ public.tag \in Commit0
  BY DEF TypeInv, ReleaseTypes, AttemptTypes, Commit0
<1>2. CASE PublicationVerifier
  BY <1>2, EmptyTyped
  DEF PublicationVerifier, CheckPolicy, VerifyEmptyDraft, VerifyDraft, VerifySavedResponses,
      VerifySuccessor, TypeInv, ReleaseTypes, ReleaseStages, Publishing
<1>3. CASE CreateDraft
  <2>1. CreateRequest \in [identity: Identities, sums: Sums]
    BY <1>1 DEF CreateRequest, Directories
  <2>2. gh' \in Releases
    BY <1>3, <2>1, EmptyTyped DEF CreateDraft, PrepareDraft, Releases
  <2>3. views' \in [policy: BOOLEAN, release: Releases, tag: Commit0]
    BY <1>1, <1>3, <2>2 DEF CreateDraft
  <2> QED
    BY <1>3, <2>2, <2>3 DEF CreateDraft, TypeInv, ReleaseTypes, ReleaseStages, Publishing
<1>4. CASE UploadAssets
  <2>1. gh' \in Releases
    BY <1>1, <1>4 DEF UploadAssets, Directories, Releases
  <2> QED
    BY <1>4, <2>1 DEF UploadAssets, TypeInv, ReleaseTypes, ReleaseStages, Publishing
<1>5. CASE Publish
  <2>1. gh' \in Releases
    BY <1>1, <1>5 DEF Publish, Releases
  <2> QED
    BY <1>5, <2>1 DEF Publish, TypeInv, ReleaseTypes, ReleaseStages, Publishing
<1>6. CASE FetchDraft \/ FetchRelease \/ FetchTag \/ FetchTagAndPolicy
  <2>1. views' \in [policy: BOOLEAN, release: Releases, tag: Commit0]
    BY <1>1, <1>6 DEF FetchDraft, FetchRelease, FetchTag, FetchTagAndPolicy
  <2> QED
    BY <1>6, <2>1
    DEF FetchDraft, FetchRelease, FetchTag, FetchTagAndPolicy, TypeInv, ReleaseTypes, ReleaseStages,
        Publishing
<1> QED
  BY <1>2, <1>3, <1>4, <1>5, <1>6

\* What others replace.
LEMMA OtherHandsTyped ==
    ASSUME TypeInv, OtherHands PROVE ReleaseTypes'
<1>1. Foreign \in Contents /\ Absent \in Contents
  BY DEF Contents
<1>2. CASE \E f \in Replaced : ReplaceInput(f)
  <2>1. PICK f \in Replaced : ReplaceInput(f)
    BY <1>2
  <2>2. [input.files EXCEPT ![f] = Foreign] \in FileSets
    BY <1>1 DEF TypeInv, ReleaseTypes, FileSets
  <2>3. input' \in [files: FileSets, evidence: Reports, run: Nat, commit: Commit0]
    BY <2>1, <2>2 DEF ReplaceInput, TypeInv, ReleaseTypes
  <2> QED
    BY <2>1, <2>3 DEF ReplaceInput, TypeInv, ReleaseTypes
<1>3. CASE \E f \in Replaced, content \in {Absent, Foreign} : EditRelease(f, content)
  <2>1. PICK f \in Replaced, content \in {Absent, Foreign} : EditRelease(f, content)
    BY <1>3
  <2>2. [gh.files EXCEPT ![f] = content] \in FileSets
    BY <1>1 DEF TypeInv, ReleaseTypes, FileSets, Releases
  <2>3. gh' \in Releases
    BY <2>1, <2>2 DEF EditRelease, TypeInv, ReleaseTypes, Releases
  <2> QED
    BY <2>1, <2>3 DEF EditRelease, TypeInv, ReleaseTypes
<1>4. CASE \E f \in Replaced : ReplaceAsset(f)
  <2>1. PICK f \in Replaced : ReplaceAsset(f)
    BY <1>4
  <2>2. [assets.files EXCEPT ![f] = Foreign] \in FileSets
    BY <1>1 DEF TypeInv, ReleaseTypes, FileSets, Directories
  <2>3. assets' \in Directories
    BY <2>1, <2>2 DEF ReplaceAsset, TypeInv, ReleaseTypes, Directories
  <2> QED
    BY <2>1, <2>3 DEF ReplaceAsset, TypeInv, ReleaseTypes
<1>5. CASE EditBody
  <2>1. gh' \in Releases
    BY <1>5, EmptyTyped DEF EditBody, TypeInv, ReleaseTypes, Releases
  <2> QED
    BY <1>5, <2>1 DEF EditBody, TypeInv, ReleaseTypes
<1>6. CASE TogglePolicy
  BY <1>6 DEF TogglePolicy, TypeInv, ReleaseTypes
<1>7. CASE \E o \in Attempts, s \in Segments : ReplaceSessionFile(o, s)
  BY <1>7 DEF ReplaceSessionFile, releaseVars, TypeInv, ReleaseTypes
<1> QED
  BY <1>2, <1>3, <1>4, <1>5, <1>6, <1>7 DEF OtherHands

-----------------------------------------------------------------------------
(***************************************************************************)
(* The attempts under the steps of the release.                            *)
(***************************************************************************)
\* A capture that is replaced is one of a session that is over: only its file changes.
LEMMA SessionFileInv ==
    ASSUME TypeInv, AttemptsInv, NEW p \in Attempts, NEW s \in Segments, ReplaceSessionFile(p, s)
    PROVE  AttemptTypes' /\ AttemptsInv'
<1>1. /\ UNCHANGED <<head, tag, public, app, runs, log, att, proof>>
      /\ session' = [session EXCEPT ![p].kept.raw[s] = Foreign]
      /\ session[p].report # NoReport
  BY DEF ReplaceSessionFile
<1>2. AttemptTypes'
  <2>1. Foreign \in Int
    BY DEF Foreign
  <2>2. session' \in [Attempts -> Sessions]
    BY <1>1, <2>1, KeptTyped DEF TypeInv
  <2> QED
    BY <1>1, <2>2 DEF TypeInv, AttemptTypes
<1>3. RunsInv'
  BY <1>1 DEF AttemptsInv, RunsInv
<1>4. ASSUME NEW o \in Attempts PROVE AttemptInv(o)'
  <2>1. AttemptInv(o)
    BY DEF AttemptsInv
  <2>2. CASE o # p
    <3>1. Untouched(o)
      BY <1>1, <2>2 DEF TypeInv, AttemptTypes, Untouched
    <3> QED
      BY <1>1, <2>1, <3>1, StaysGrown, UntouchedInv DEF TypeInv
  <2>3. CASE o = p
    <3>1. att[o].pc \in Over
      BY <1>1, <2>1, <2>3 DEF AttemptInv, ReportOf
    <3>2. session'[o].report = session[o].report
      BY <1>1, <2>3 DEF TypeInv, AttemptTypes, Sessions
    <3>3. LogOf(o)'
      BY <1>1, <2>1 DEF AttemptInv, LogOf
    <3>4. ProofOf(o)' /\ WindowOf(o)' /\ KeptOf(o)'
      <4>1. att[o].pc \notin Proved /\ att[o].pc \notin {"admitted"} \cup Holding
        BY <3>1, Places DEF Running, Before
      <4> QED
        BY <1>1, <4>1, Places DEF ProofOf, WindowOf, KeptOf
    <3>5. ReportOf(o)'
      BY <1>1, <2>1, <3>2
      DEF AttemptInv, ReportOf, Build, LogComplete, TagCIAdmits, PublicRefsName, FirstRunPassed
    <3> QED
      BY <3>3, <3>4, <3>5 DEF AttemptInv
  <2> QED
    BY <2>2, <2>3
<1> QED
  BY <1>2, <1>3, <1>4 DEF AttemptsInv

\* The operator and the other hands leave the attempts alone but for that.
LEMMA OperatorFrame == Operator => UNCHANGED attemptVars
  BY DEF Operator, Collector, SealRun, CollectSnapshot, CollectionFails, Builder, ValidateInputs,
         CopyAndSign, FinishRelease, BuildFails, PublicationVerifier, CheckPolicy, VerifyEmptyDraft,
         VerifyDraft, VerifySavedResponses, VerifySuccessor, CreateDraft, UploadAssets, FetchDraft,
         FetchTagAndPolicy, Publish, FetchRelease, FetchTag

\* The other hands leave the attempts alone but for a capture of a session.
LEMMA OtherHandsFrame ==
    OtherHands =>
        /\ UNCHANGED <<head, tag, public, app, runs, log, att, proof>>
        /\ session' = session \/ \E o \in Attempts, s \in Segments : ReplaceSessionFile(o, s)
  BY DEF OtherHands, ReplaceInput, EditRelease, TogglePolicy, ReplaceSessionFile, ReplaceAsset,
         EditBody, AttemptsOnly

\* Where nothing of the attempts changes, what is known of them stays.
LEMMA SameAttempts ==
    ASSUME AttemptTypes, AttemptsInv, UNCHANGED <<head, tag, public, app, runs, log, att, proof, session>>
    PROVE  AttemptTypes' /\ AttemptsInv'
<1>1. AttemptTypes'
  BY DEF AttemptTypes
<1>2. ASSUME NEW o \in Attempts PROVE AttemptInv(o)'
  BY StaysGrown, UntouchedInv DEF AttemptsInv, Untouched
<1>3. RunsInv'
  BY DEF AttemptsInv, RunsInv
<1> QED
  BY <1>1, <1>2, <1>3 DEF AttemptsInv

\* Every step keeps the types and the invariant of the attempts.
LEMMA TypeStep ==
    ASSUME TypeInv, AttemptsInv, [Next]_vars PROVE TypeInv' /\ AttemptsInv'
<1>1. CASE AttemptNext /\ UNCHANGED releaseVars
  <2>1. ReleaseTypes'
    BY <1>1 DEF releaseVars, TypeInv, ReleaseTypes
  <2> QED
    BY <1>1, <2>1, AttemptsStep DEF TypeInv
<1>2. CASE Operator
  <2>1. ReleaseTypes'
    BY <1>2, CollectorTyped, BuilderTyped, PublicationTyped DEF Operator
  <2>2. AttemptTypes' /\ AttemptsInv'
    BY <1>2, OperatorFrame, SameAttempts DEF attemptVars, TypeInv
  <2> QED
    BY <2>1, <2>2 DEF TypeInv
<1>3. CASE OtherHands
  <2>1. AttemptTypes' /\ AttemptsInv'
    BY <1>3, OtherHandsFrame, SameAttempts, SessionFileInv DEF TypeInv
  <2> QED
    BY <1>3, <2>1, OtherHandsTyped DEF TypeInv
<1>4. CASE UNCHANGED vars
  <2>1. AttemptTypes' /\ AttemptsInv'
    BY <1>4, SameAttempts DEF vars, attemptVars, TypeInv
  <2>2. ReleaseTypes'
    BY <1>4 DEF vars, releaseVars, TypeInv, ReleaseTypes
  <2> QED
    BY <2>1, <2>2 DEF TypeInv
<1> QED
  BY <1>1, <1>2, <1>3, <1>4 DEF Next

-----------------------------------------------------------------------------
(***************************************************************************)
(* The release.                                                            *)
(***************************************************************************)
LEMMA FinishedStays ==
    ASSUME TypeInv, AttemptsInv, Next, NEW o \in Attempts, FinishedOf(o)
    PROVE  FinishedOf(o)' /\ att'[o] = att[o] /\ runs'[att[o].run] = runs[att[o].run]
<1>1. CASE AttemptNext
  <2>1. /\ Grows /\ att'[o] = att[o]
        /\ log'.owner = o /\ log'.durable /\ log'.events = log.events
    BY <1>1, OverStays DEF FinishedOf, TypeInv
  <2> QED
    BY <2>1 DEF FinishedOf, Grows, LogComplete
<1>2. CASE Operator
  BY <1>2, OperatorFrame DEF attemptVars, FinishedOf, LogComplete
<1>3. CASE OtherHands
  BY <1>3, OtherHandsFrame DEF FinishedOf, LogComplete
<1> QED
  BY <1>1, <1>2, <1>3 DEF Next

\* The files stay of the one orchestration as long as only others replace some of them.
LEMMA OfOneStays ==
    ASSUME TypeInv, AttemptsInv, Next, NEW o \in Attempts, OfOne(o),
           input'.evidence = input.evidence,
           \A f \in Files : /\ input'.files[f] \in {o, Foreign}
                            /\ staging'.files[f] \in {o, Foreign, Absent}
                            /\ assets'.files[f] \in {o, Foreign, Absent}
    PROVE  OfOne(o)'
<1>1. FinishedOf(o)
  BY DEF OfOne, FinishedOf
<1>2. FinishedOf(o)' /\ att'[o] = att[o]
  BY <1>1, FinishedStays
<1> QED
  BY <1>2 DEF OfOne, FinishedOf, Composition, LogComplete

\* What is collected is of the session whose receipt was checked.
LEMMA CollectedOfOne ==
    ASSUME TypeInv, AttemptsInv, SourcesInv, NEW o \in Attempts, CollectSnapshot(o)
    PROVE  OfOne(o)'
<1>1. /\ UNCHANGED attemptVars /\ UNCHANGED <<staging, assets>>
      /\ input' = Collected(o) /\ stage = "collecting"
      /\ session[o].report # NoReport
      /\ SessionBinds(session[o].kept, session[o].report, input.run)
  BY DEF CollectSnapshot
<1>2. AttemptInv(o)
  BY DEF AttemptsInv
<1>3. /\ FinishedOf(o) /\ session[o].report.run = att[o].run
  BY <1>1, <1>2 DEF AttemptInv, ReportOf, FinishedOf
<1>4. /\ session[o].report.kept.video = Composition(session[o].report.kept.raw)
  BY <1>1 DEF SessionBinds, ReportBinds, ComposedFromRaw
<1>5. staging = NoDirectory /\ assets = NoDirectory
  BY <1>1 DEF SourcesInv, Collecting
<1>6. input'.evidence = session[o].report /\ \A f \in Files : input'.files[f] = o
  BY <1>1 DEF Collected, TypeInv, ReleaseTypes
<1>7. \A f \in Files : staging'.files[f] = Absent /\ assets'.files[f] = Absent
  BY <1>1, <1>5 DEF NoDirectory, NoFiles
<1>8. FinishedOf(o)' /\ att' = att
  BY <1>1, <1>3 DEF attemptVars, FinishedOf, LogComplete
<1> QED
  BY <1>3, <1>4, <1>6, <1>7, <1>8 DEF OfOne, FinishedOf, Composition, LogComplete

\* A directory that verifies has one content in every file, and the source of its run.
LEMMA VerifiedOfOne ==
    ASSUME TypeInv, NEW o \in Attempts, OfOne(o), NEW directory, VerifyRelease(directory),
           \A f \in Files : directory.files[f] \in {o, Foreign, Absent}
    PROVE  /\ \A f \in Files : directory.files[f] = o
           /\ directory.identity.commit = runs[att[o].run].commit
           /\ directory.identity.ci = directory.identity.commit
           /\ directory.identity.demo = o
           /\ directory.made.source = directory.identity.commit
           /\ directory.sums = Covered(directory)
<1>1. /\ ChecksumsBind(directory) /\ IdentityBinds(directory.identity)
      /\ directory.identity.demo = directory.files["provenance"]
      /\ ValidFiles(directory.files, directory.identity.commit)
      /\ SourceArchiveExact(directory)
  BY DEF VerifyRelease
<1>2. directory.files["evidence"] = directory.files["provenance"]
      /\ directory.files["evidence"] \in Attempts
      /\ runs[input.evidence.run].commit = directory.identity.commit
  BY <1>1 DEF ValidFiles, ValidEvidenceArchive, RetainedReports
<1>3. Foreign \notin Attempts /\ Absent \notin Attempts
  BY BoundAssumption DEF Attempts, Foreign, Absent
<1>4. directory.files["evidence"] = o
  BY <1>2, <1>3 DEF Files
<1>5. \A f \in Files : directory.files[f] = o
  BY <1>1, <1>2, <1>4 DEF ValidFiles, ValidDemoProvenance, ValidRuntimeAssets, Files
<1>6. input.evidence.run = att[o].run
  BY DEF OfOne
<1> QED
  BY <1>1, <1>2, <1>5, <1>6 DEF IdentityBinds, SourceArchiveExact, ChecksumsBind, Files

\* SourcesInv is kept by every step.
LEMMA SourcesStep ==
    ASSUME TypeInv, AttemptsInv, SourcesInv, Next PROVE SourcesInv'
<1>1. \A f \in Files : /\ NoDirectory.files[f] = Absent
                       /\ stage \in Collecting => staging.files[f] = Absent /\ assets.files[f] = Absent
  BY DEF NoDirectory, NoFiles, SourcesInv
\* A step that is none of the collector's leaves the stage after the collection, or where it was.
<1>2. ASSUME stage \notin Collecting, stage' \notin Collecting,
             input'.evidence = input.evidence,
             \A o \in Attempts : OfOne(o) =>
                 \A f \in Files : /\ input'.files[f] \in {o, Foreign}
                                  /\ staging'.files[f] \in {o, Foreign, Absent}
                                  /\ assets'.files[f] \in {o, Foreign, Absent},
             stage' = "built" => stage = "built" /\ assets' = assets
      PROVE  SourcesInv'
  <2>1. \E o \in Attempts : OfOne(o)'
    BY <1>2, OfOneStays DEF SourcesInv
  <2>2. ASSUME stage' = "built" PROVE \E o \in Attempts : OfOne(o)' /\ BuiltOf(o)'
    <3>1. PICK o \in Attempts : OfOne(o) /\ BuiltOf(o)
      BY <1>2, <2>2 DEF SourcesInv
    <3>2. OfOne(o)'
      BY <1>2, <3>1, OfOneStays
    <3>3. FinishedOf(o)
      BY <3>1 DEF OfOne, FinishedOf
    <3>4. att'[o] = att[o] /\ runs'[att[o].run] = runs[att[o].run]
      BY <3>3, FinishedStays
    <3>5. BuiltOf(o)'
      BY <1>2, <2>2, <3>1, <3>4 DEF BuiltOf, SourceIdentity, Covered
    <3> QED
      BY <3>2, <3>5
  <2> QED
    BY <1>2, <2>1, <2>2 DEF SourcesInv
<1>3. CASE UNCHANGED <<stage, input, staging, assets>>
  <2>1. CASE stage \in Collecting
    BY <1>3, <2>1 DEF SourcesInv, Collecting
  <2>2. CASE stage \notin Collecting
    BY <1>2, <1>3, <2>2 DEF OfOne, Collecting
  <2> QED
    BY <2>1, <2>2
<1>4. CASE Collector
  <2>1. CASE \E r \in DOMAIN runs : SealRun(r)
    BY <2>1 DEF SealRun, SourcesInv, Collecting
  <2>2. ASSUME NEW o \in Attempts, CollectSnapshot(o) PROVE SourcesInv'
    <3>1. OfOne(o)'
      BY <2>2, CollectedOfOne
    <3>2. stage' = "collected"
      BY <2>2 DEF CollectSnapshot
    <3> QED
      BY <3>1, <3>2 DEF SourcesInv, Collecting
  <2>3. CASE CollectionFails
    BY <2>3 DEF CollectionFails, SourcesInv, Collecting
  <2> QED
    BY <1>4, <2>1, <2>2, <2>3 DEF Collector
<1>5. CASE ValidateInputs \/ CopyAndSign \/ BuildFails
  <2>1. stage \notin Collecting /\ stage' \notin Collecting /\ stage' # "built"
    BY <1>5 DEF ValidateInputs, CopyAndSign, BuildFails, Collecting
  <2>2. input' = input /\ assets' = assets
    BY <1>5 DEF ValidateInputs, CopyAndSign, BuildFails
  <2>3. staging'.files \in {staging.files, input.files, NoDirectory.files}
    <3>1. CASE ValidateInputs
      BY <3>1 DEF ValidateInputs, TypeInv, ReleaseTypes, Directories
    <3>2. CASE CopyAndSign
      BY <3>2 DEF CopyAndSign, TypeInv, ReleaseTypes, Directories
    <3>3. CASE BuildFails
      BY <3>3 DEF BuildFails
    <3> QED
      BY <1>5, <3>1, <3>2, <3>3
  <2> QED
    BY <1>1, <1>2, <2>1, <2>2, <2>3 DEF OfOne
<1>6. CASE FinishRelease
  <2>1. /\ stage = "signed" /\ stage' = "built" /\ VerifyRelease(staging)
        /\ assets' = staging /\ staging' = NoDirectory /\ input' = input
        /\ UNCHANGED attemptVars
    BY <1>6 DEF FinishRelease
  <2>2. PICK o \in Attempts : OfOne(o)
    BY <2>1 DEF SourcesInv, Collecting
  <2>3. OfOne(o)'
    BY <1>1, <2>1, <2>2, OfOneStays DEF OfOne
  <2>4. /\ \A f \in Files : staging.files[f] = o
        /\ staging.identity.commit = runs[att[o].run].commit
        /\ staging.identity.ci = staging.identity.commit
        /\ staging.identity.demo = o
        /\ staging.made.source = staging.identity.commit
        /\ staging.sums = Covered(staging)
    BY <2>1, <2>2, VerifiedOfOne DEF OfOne
  <2>5. staging.identity = SourceIdentity(runs[att[o].run].commit, o)
    <3>1. staging.identity \in Identities
      BY DEF TypeInv, ReleaseTypes, Directories
    <3> QED
      BY <2>4, <3>1 DEF Identities, SourceIdentity
  <2>6. BuiltOf(o)'
    BY <2>1, <2>4, <2>5 DEF BuiltOf, attemptVars, SourceIdentity, Covered
  <2> QED
    BY <2>1, <2>3, <2>6 DEF SourcesInv, Collecting
<1>7. CASE PublicationVerifier \/ CreateDraft \/ UploadAssets \/ FetchDraft \/ FetchTagAndPolicy
           \/ Publish \/ FetchRelease \/ FetchTag
  <2>1. stage \notin Collecting /\ stage' \notin Collecting /\ stage' # "built"
    BY <1>7
    DEF PublicationVerifier, CheckPolicy, VerifyEmptyDraft, VerifyDraft, VerifySavedResponses,
        VerifySuccessor, CreateDraft, UploadAssets, FetchDraft, FetchTagAndPolicy, Publish,
        FetchRelease, FetchTag, Collecting
  <2>2. UNCHANGED <<input, staging, assets>>
    BY <1>7
    DEF PublicationVerifier, CheckPolicy, VerifyEmptyDraft, VerifyDraft, VerifySavedResponses,
        VerifySuccessor, CreateDraft, UploadAssets, FetchDraft, FetchTagAndPolicy, Publish,
        FetchRelease, FetchTag
  <2> QED
    BY <1>2, <2>1, <2>2 DEF OfOne
<1>8. CASE \E f \in Replaced : ReplaceInput(f)
  <2>1. PICK f \in Replaced : ReplaceInput(f)
    BY <1>8
  <2>2. /\ stage \in {"collected", "validated"}
        /\ input' = [input EXCEPT !.files[f] = Foreign]
        /\ UNCHANGED <<stage, staging, assets>>
    BY <2>1 DEF ReplaceInput
  <2>3. /\ input'.evidence = input.evidence
        /\ \A g \in Files : input'.files[g] \in {input.files[g], Foreign}
    BY <2>2 DEF TypeInv, ReleaseTypes, FileSets
  <2> QED
    BY <1>2, <2>2, <2>3 DEF OfOne, Collecting
<1>9. CASE \E f \in Replaced : ReplaceAsset(f)
  <2>1. PICK f \in Replaced : ReplaceAsset(f)
    BY <1>9
  <2>2. /\ stage \in Publishing /\ assets' = [assets EXCEPT !.files[f] = Foreign]
        /\ UNCHANGED <<stage, staging, input>>
    BY <2>1 DEF ReplaceAsset
  <2>3. \A g \in Files : assets'.files[g] \in {assets.files[g], Foreign}
    BY <2>2 DEF TypeInv, ReleaseTypes, Directories, FileSets
  <2>4. stage \notin Collecting /\ stage # "built"
    BY <2>2 DEF Collecting, Publishing
  <2> QED
    BY <1>2, <2>2, <2>3, <2>4 DEF OfOne
<1>10. CASE AttemptNext /\ UNCHANGED releaseVars
  BY <1>3, <1>10 DEF releaseVars
<1>11. CASE (\E f \in Replaced, content \in {Absent, Foreign} : EditRelease(f, content)) \/ TogglePolicy
            \/ EditBody \/ \E o \in Attempts, s \in Segments : ReplaceSessionFile(o, s)
  BY <1>3, <1>11 DEF EditRelease, TogglePolicy, EditBody, ReplaceSessionFile, releaseVars
<1> QED
  BY <1>4, <1>5, <1>6, <1>7, <1>8, <1>9, <1>10, <1>11 DEF Next, Operator, OtherHands, Builder

\* Nobody changes an immutable release or moves its tag.
LEMMA LockedStays ==
    ASSUME GitHubInv, Next, gh.immutable PROVE gh' = gh /\ public'.tag = public.tag
<1>1. stage \in {"published", "logged out", "downloaded", "released", "succeeded"}
  BY DEF GitHubInv
<1>2. CASE AttemptNext /\ TagLocked /\ UNCHANGED releaseVars
  BY <1>2 DEF TagLocked, releaseVars
<1>3. CASE Operator
  <2>1. public' = public
    BY <1>3, OperatorFrame DEF attemptVars
  <2>2. gh' = gh
    BY <1>1, <1>3
    DEF Operator, Collector, SealRun, CollectSnapshot, CollectionFails, Builder, ValidateInputs,
        CopyAndSign, FinishRelease, BuildFails, PublicationVerifier, CheckPolicy, VerifyEmptyDraft,
        VerifyDraft, VerifySavedResponses, VerifySuccessor, CreateDraft, UploadAssets, FetchDraft,
        FetchTagAndPolicy, Publish, FetchRelease, FetchTag
  <2> QED
    BY <2>1, <2>2
<1>4. CASE OtherHands
  <2>1. public' = public
    BY <1>4, OtherHandsFrame
  <2>2. gh' = gh
    BY <1>4 DEF OtherHands, ReplaceInput, EditRelease, TogglePolicy, ReplaceSessionFile, ReplaceAsset,
         EditBody, releaseVars
  <2> QED
    BY <2>1, <2>2
<1> QED
  BY <1>2, <1>3, <1>4 DEF Next

\* GitHubInv is kept by every step.
LEMMA GitHubStep ==
    ASSUME TypeInv, GitHubInv, Next PROVE GitHubInv'
<1> DEFINE Late == {"published", "logged out", "downloaded", "released", "succeeded"}
<1>1. gh \in Releases /\ views.release \in Releases
  BY DEF TypeInv, ReleaseTypes
<1>2. CASE (AttemptNext /\ TagLocked /\ UNCHANGED releaseVars) \/ OtherHands
  <2>1. /\ UNCHANGED <<stage, views>>
        /\ gh.immutable => gh' = gh
        /\ gh'.immutable = gh.immutable
    <3>1. CASE AttemptNext /\ TagLocked /\ UNCHANGED releaseVars
      BY <3>1 DEF releaseVars
    <3>2. CASE OtherHands
      <4>1. UNCHANGED <<stage, views>>
        BY <3>2 DEF OtherHands, ReplaceInput, EditRelease, TogglePolicy, ReplaceSessionFile,
             ReplaceAsset, EditBody, releaseVars
      <4>2. \/ gh' = gh
            \/ /\ ~gh.immutable
               /\ \E f, content : gh' = [gh EXCEPT !.files[f] = content]
            \/ ~gh.immutable /\ gh' = [gh EXCEPT !.body = NoRequest]
        BY <3>2 DEF OtherHands, ReplaceInput, EditRelease, TogglePolicy, ReplaceSessionFile,
             ReplaceAsset, EditBody, releaseVars
      <4>3. gh'.immutable = gh.immutable
        BY <1>1, <4>2 DEF Releases
      <4> QED
        BY <4>1, <4>2, <4>3
    <3> QED
      BY <1>2, <3>1, <3>2
  <2>2. gh.immutable => public'.tag = public.tag
    BY LockedStays
  <2>3. views.release.immutable /\ stage \in {"logged out", "downloaded"} => gh.immutable
    BY DEF GitHubInv
  <2> QED
    BY <2>1, <2>2, <2>3 DEF GitHubInv
<1>3. CASE Collector \/ Builder \/ CheckPolicy \/ VerifyEmptyDraft \/ VerifyDraft
           \/ CreateDraft \/ UploadAssets \/ FetchDraft \/ FetchTagAndPolicy
  <2>1. stage \notin Late /\ stage' \notin Late
    BY <1>3
    DEF Collector, SealRun, CollectSnapshot, CollectionFails, Builder, ValidateInputs,
        CopyAndSign, FinishRelease, BuildFails, CheckPolicy, VerifyEmptyDraft, VerifyDraft,
        CreateDraft, UploadAssets, FetchDraft, FetchTagAndPolicy
  <2>2. ~gh.immutable
    BY <2>1 DEF GitHubInv
  <2>3. ~gh'.immutable
    <3>1. CASE CreateDraft
      BY <3>1 DEF CreateDraft, PrepareDraft, NoRelease
    <3>2. CASE UploadAssets
      BY <1>1, <2>2, <3>2 DEF UploadAssets, Releases
    <3>3. CASE Collector \/ Builder \/ CheckPolicy \/ VerifyEmptyDraft \/ VerifyDraft
               \/ FetchDraft \/ FetchTagAndPolicy
      BY <2>2, <3>3
      DEF Collector, SealRun, CollectSnapshot, CollectionFails, Builder, ValidateInputs,
          CopyAndSign, FinishRelease, BuildFails, CheckPolicy, VerifyEmptyDraft, VerifyDraft,
          FetchDraft, FetchTagAndPolicy
    <3> QED
      BY <1>3, <3>1, <3>2, <3>3
  <2> QED
    BY <2>1, <2>3 DEF GitHubInv
<1>4. CASE Publish
  BY <1>4 DEF Publish, GitHubInv
<1>5. CASE FetchRelease
  BY <1>1, <1>5 DEF FetchRelease, GitHubInv, TypeInv, ReleaseTypes
<1>6. CASE FetchTag
  <2>1. /\ stage = "logged out" /\ stage' = "downloaded" /\ gh' = gh /\ public' = public
        /\ views' = [views EXCEPT !.tag = public.tag]
    BY <1>6 DEF FetchTag, attemptVars
  <2>2. views'.release = views.release /\ views'.tag = public.tag
    BY <2>1 DEF TypeInv, ReleaseTypes
  <2> QED
    BY <2>1, <2>2 DEF GitHubInv
<1>7. CASE VerifySavedResponses \/ VerifySuccessor
  BY <1>7 DEF VerifySavedResponses, VerifySuccessor, GitHubInv
<1> QED
  BY <1>2, <1>3, <1>4, <1>5, <1>6, <1>7 DEF Next, Operator, PublicationVerifier

\* What is verified without a login is the release of one attempt, and stays it.
LEMMA ReleasedStep ==
    ASSUME TypeInv, AttemptsInv, SourcesInv, GitHubInv, ReleasedInv, Next PROVE ReleasedInv'
<1>1. CASE stage \in {"released", "succeeded"}
  <2>1. PICK o \in Attempts : ReleasedOf(o)
    BY <1>1 DEF ReleasedInv
  <2>2. gh.immutable /\ gh' = gh /\ public'.tag = public.tag
    BY <1>1, LockedStays DEF ReleasedInv
  <2>3. FinishedOf(o)
    BY <2>1 DEF ReleasedOf
  <2>4. att'[o] = att[o] /\ runs'[att[o].run] = runs[att[o].run] /\ FinishedOf(o)'
    BY <2>3, FinishedStays
  <2> QED
    BY <2>1, <2>2, <2>4 DEF ReleasedOf, ReleasedInv, SourceIdentity, FinishedOf, LogComplete
<1>2. CASE stage \notin {"released", "succeeded"} /\ stage' \in {"released", "succeeded"}
  <2>1. VerifySavedResponses
    <3>1. CASE AttemptNext /\ TagLocked /\ UNCHANGED releaseVars
      BY <1>2, <3>1 DEF releaseVars
    <3>2. CASE OtherHands
      BY <1>2, <3>2 DEF OtherHands, ReplaceInput, EditRelease, TogglePolicy, ReplaceSessionFile,
           ReplaceAsset, EditBody, releaseVars
    <3>3. CASE Operator
      BY <1>2, <3>3
      DEF Operator, Collector, SealRun, CollectSnapshot, CollectionFails, Builder, ValidateInputs,
          CopyAndSign, FinishRelease, BuildFails, PublicationVerifier, CheckPolicy, VerifyEmptyDraft,
          VerifyDraft, VerifySuccessor, CreateDraft, UploadAssets, FetchDraft,
          FetchTagAndPolicy, Publish, FetchRelease, FetchTag
    <3> QED
      BY <3>1, <3>2, <3>3 DEF Next
  <2>2. /\ stage = "downloaded" /\ VerifyRelease(assets)
        /\ views.release.immutable
        /\ views.release.files = assets.files /\ views.release.body = CreateRequest
        /\ views.tag = assets.identity.commit
        /\ UNCHANGED attemptVars /\ UNCHANGED gh
    BY <2>1 DEF VerifySavedResponses, VerifiedAssets, ReleaseExact, ApiAssets, AssetRecords, TagVerified
  <2>3. gh = views.release /\ public.tag = views.tag
    BY <2>2 DEF GitHubInv
  <2>4. PICK o \in Attempts : OfOne(o)
    BY <2>2 DEF SourcesInv, Collecting
  <2>5. /\ \A f \in Files : assets.files[f] = o
        /\ assets.identity.commit = runs[att[o].run].commit
        /\ assets.identity.ci = assets.identity.commit
        /\ assets.identity.demo = o
    BY <2>2, <2>4, VerifiedOfOne DEF OfOne
  <2>6. assets.identity = SourceIdentity(public.tag, o)
    <3>1. assets.identity \in Identities
      BY DEF TypeInv, ReleaseTypes, Directories
    <3> QED
      BY <2>2, <2>3, <2>5, <3>1 DEF Identities, SourceIdentity
  <2>7. gh.body.identity = SourceIdentity(public.tag, o)
    BY <2>2, <2>3, <2>6 DEF CreateRequest
  <2>8. FinishedOf(o)
    BY <2>4 DEF OfOne, FinishedOf
  <2> QED
    BY <2>2, <2>3, <2>5, <2>7, <2>8
    DEF attemptVars, ReleasedInv, ReleasedOf, SourceIdentity, FinishedOf, LogComplete
<1>3. CASE stage' \notin {"released", "succeeded"}
  BY <1>3 DEF ReleasedInv
<1> QED
  BY <1>1, <1>2, <1>3

-----------------------------------------------------------------------------
(***************************************************************************)
(* The theorems.                                                           *)
(***************************************************************************)
\* The initial states have the invariant.
LEMMA InitInv == Init => IInv
<1> SUFFICES ASSUME Init PROVE IInv
  OBVIOUS
<1>1. TypeInv
  BY InitTyped
<1>2. ASSUME NEW o \in Attempts PROVE AttemptInv(o)
  <2>1. att[o].pc = "idle" /\ proof[o] = "none" /\ session[o].report = NoReport
    BY DEF Init, AttemptInit, NotStarted, NoSession
  <2>2. "idle" \notin Holding \cup Invoked \cup Proved \cup {"admitted"}
    BY Places DEF Running, Before
  <2> QED
    BY <2>1, <2>2, Places DEF AttemptInv, LogOf, ProofOf, WindowOf, KeptOf, ReportOf, Holding, Reserved
<1>3. RunsInv
  BY DEF Init, AttemptInit, RunsInv, NoLog
<1>4. SourcesInv /\ GitHubInv /\ ReleasedInv
  BY DEF Init, SourcesInv, GitHubInv, ReleasedInv, Collecting, NoRelease
<1> QED
  BY <1>1, <1>2, <1>3, <1>4 DEF IInv, AttemptsInv

\* The invariant is inductive.
LEMMA StepInv == IInv /\ [Next]_vars => IInv'
<1> SUFFICES ASSUME IInv, [Next]_vars PROVE IInv'
  OBVIOUS
<1>1. TypeInv' /\ AttemptsInv'
  BY TypeStep DEF IInv
<1>2. CASE Next
  BY <1>1, <1>2, SourcesStep, GitHubStep, ReleasedStep DEF IInv
<1>3. CASE UNCHANGED vars
  <2>1. \A o \in Attempts : /\ OfOne(o)' <=> OfOne(o)
                            /\ BuiltOf(o)' <=> BuiltOf(o)
                            /\ ReleasedOf(o)' <=> ReleasedOf(o)
    BY <1>3, Zenon
    DEF vars, attemptVars, releaseVars, OfOne, FinishedOf, LogComplete, BuiltOf, ReleasedOf,
        SourceIdentity, Covered, Composition
  <2>2. SourcesInv' /\ GitHubInv' /\ ReleasedInv'
    BY <1>3, <2>1 DEF vars, attemptVars, releaseVars, IInv, SourcesInv, GitHubInv, ReleasedInv
  <2> QED
    BY <1>1, <2>2 DEF IInv
<1> QED
  BY <1>2, <1>3

\* The inductive invariant.
THEOREM Invariant == Spec => []IInv
<1> QED
  BY InitInv, StepInv, PTL DEF Spec

\* The proof of a tag is invoked at most once, by whoever holds its log, and only once the
\* synced log says so: for any number of orchestrations, kills and power losses
\* (AttemptLog.reserve, _execute_reserved_attempt).
THEOREM OneProof == Spec => []OneProofPerTag
<1>1. IInv => OneProofPerTag
  <2> SUFFICES ASSUME IInv, NEW o \in Attempts, proof[o] # "none"
               PROVE  /\ \A other \in Attempts \ {o} : proof[other] = "none"
                      /\ log.owner = o /\ log.durable
                      /\ Len(log.events) > 1 /\ log.events[2] = "PROOF_INVOKED"
    BY DEF OneProofPerTag
  <2>1. \A p \in Attempts : proof[p] # "none" => log.owner = p
    BY DEF IInv, AttemptsInv, AttemptInv, LogOf
  <2> QED
    BY <2>1 DEF IInv, AttemptsInv, AttemptInv, LogOf
<1> QED
  BY <1>1, Invariant, PTL

\* A window that is recorded as ready, captured or reopened shows the build of the verified
\* proof, whatever is built at the shared path meanwhile (_validate_window_executable).
THEOREM WindowIsOfProof == Spec => []WindowOfProof
<1>1. IInv => WindowOfProof
  <2>1. {"surface", "presented", "reopenable", "reopened", "captured", "sealed", "snapshot"}
            \subseteq Surfaced
    BY DEF Surfaced, Proved, Invoked, Reserved
  <2> QED
    BY <2>1 DEF IInv, AttemptsInv, AttemptInv, WindowOf, WindowOfProof, Build
<1> QED
  BY <1>1, Invariant, PTL

\* A receipt is of the one proof, verified, of the admitted source, and its video shows the
\* proof's build in both parts (_execute_reserved_attempt).
THEOREM ReceiptIsEarned == Spec => []ReceiptEarned
<1>1. IInv => ReceiptEarned
  <2> SUFFICES ASSUME IInv, NEW o \in Attempts, session[o].report # NoReport
               PROVE  LET kept == session[o].report.kept
                          build == runs[att[o].run].build
                      IN  /\ proof[o] = "verified"
                          /\ session[o].report.run = att[o].run
                          /\ runs[att[o].run] = [by |-> o, build |-> build, commit |-> att[o].commit]
                          /\ kept.video = [presentation |-> build, result |-> build]
                          /\ TagCIAdmits(kept.answers, att[o].commit) /\ kept.trust = att[o].commit
                          /\ log.owner = o
                          /\ LogComplete
    BY DEF ReceiptEarned
  <2>1. ReportOf(o)
    BY DEF IInv, AttemptsInv, AttemptInv
  <2>2. runs[att[o].run] \in RunRecords
    BY <2>1 DEF ReportOf, IInv, TypeInv, AttemptTypes
  <2>3. runs[att[o].run] =
            [by |-> o, build |-> runs[att[o].run].build, commit |-> att[o].commit]
    BY <2>1, <2>2 DEF ReportOf, RunRecords
  <2> QED
    BY <2>1, <2>3 DEF ReportOf, Build
<1> QED
  BY <1>1, Invariant, PTL

\* A finished release directory is all of one attempt and of its source (build_release,
\* verify_release).
THEOREM AssetsAreOfOneAttempt == Spec => []AssetsOfOneAttempt
<1>1. IInv => AssetsOfOneAttempt
  BY DEF IInv, SourcesInv, OfOne, BuiltOf, AssetsOfOneAttempt
<1> QED
  BY <1>1, Invariant, PTL

\* What passed the logged-out verification is on GitHub the files, the tag and the text of
\* one complete attempt, also after that verification (verify_saved_responses).
THEOREM ReleasedIsOfOneAttempt == Spec => []ReleasedFromOneAttempt
<1>1. IInv => ReleasedFromOneAttempt
  BY DEF IInv, ReleasedInv, ReleasedOf, FinishedOf, ReleasedFromOneAttempt
<1> QED
  BY <1>1, Invariant, PTL

\* From then on no step changes the release or moves its tag (_api_release).
THEOREM ReleaseIsFinal == Spec => ReleaseStays
<1>1. IInv /\ [Next]_vars => [(stage \in {"released", "succeeded"}) =>
                                  (gh' = gh /\ public'.tag = public.tag)]_vars
  <2> SUFFICES ASSUME IInv, Next, stage \in {"released", "succeeded"}
               PROVE  gh' = gh /\ public'.tag = public.tag
    OBVIOUS
  <2> QED
    BY LockedStays DEF IInv, ReleasedInv
<1> QED
  BY <1>1, Invariant, PTL DEF Spec, ReleaseStays
=============================================================================
