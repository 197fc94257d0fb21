-------------------------- MODULE PortfolioRelease --------------------------
(***************************************************************************)
(* From a session of PortfolioAttempt to the public release of its tag:    *)
(* publication/collect_portfolio_demo.py, build_portfolio_release.py and   *)
(* verify_portfolio_github_release.py, in the order the operator of        *)
(* publication/PORTFOLIO_RELEASE.md runs them.  Between two steps of his   *)
(* the files he has collected, the draft on GitHub, the policy of the      *)
(* repository and the checkout may change.                                 *)
(*                                                                         *)
(* A file stands for its content, and a content for the orchestration that *)
(* made it; Foreign is a content of no attempt, Absent is no file.  A      *)
(* release directory has the five collected files, the three made of the   *)
(* source, the signed source identity and the signed SHA256SUMS; keys and  *)
(* signatures are left out.                                                *)
(***************************************************************************)
EXTENDS PortfolioAttempt

CONSTANT Replaced   \* the files that others replace on the way

VARIABLES
    stage,      \* how far the operator is
    input,      \* the collected files, what is in their evidence archive, and the release input
    staging,    \* the release directory while it is being built
    assets,     \* the release directory
    policy,     \* immutable releases are enabled for the repository
    gh,         \* the release on GitHub
    views       \* the API responses the operator has saved

releaseVars == <<stage, input, staging, assets, policy, gh, views>>
vars == <<attemptVars, releaseVars>>

Files == {"video", "poster", "provenance", "evidence", "runtime"}
Foreign == -1

ASSUME ReplacedAssumption == Replaced \subseteq Files

NoFiles == [f \in Files |-> Absent]
NoInput == [files |-> NoFiles, evidence |-> NoReport, run |-> 0, commit |-> 0]
NoIdentity == [commit |-> 0, ci |-> 0, demo |-> Absent]
NothingMade == [source |-> 0, sbom |-> 0, reproduce |-> 0]
NoSums == [files |-> NoFiles, made |-> NothingMade, identity |-> NoIdentity]
NoDirectory == [files |-> NoFiles, made |-> NothingMade, identity |-> NoIdentity, sums |-> NoSums]
NoRequest == [identity |-> NoIdentity, sums |-> NoSums]
NoRelease == [state |-> "none", body |-> NoRequest, files |-> NoFiles, immutable |-> FALSE]
NoViews == [policy |-> FALSE, release |-> NoRelease, tag |-> 0]

Init ==
    /\ AttemptInit
    /\ stage = "none"
    /\ input = NoInput /\ staging = NoDirectory /\ assets = NoDirectory
    /\ policy = TRUE
    /\ gh = NoRelease
    /\ views = NoViews

(***************************************************************************)
(* collect_portfolio_demo.py.                                              *)
(***************************************************************************)
\* Both reports and the terminal log of a verified proof are there.
RunComplete(r) == runs[r].by # 0 /\ proof[runs[r].by] = "verified"

\* The bundle at its path has the executable and the manifests the run's receipt names.
AppOfRun(r) == app.build = runs[r].build

\* The checkout is the exact signed source of the run, the app the one of its receipt.
CollectableRun(r) == SourcePreflight(runs[r].commit) /\ AppOfRun(r)

\* The eight retained responses admit the commit when they are validated again.
AdmissionRecomputed(answers, commit) == TagCIAdmits(answers, commit)

\* The retained captures are decoded again: each is what the receipt says of it.
SegmentsRetained(kept, report) == kept.raw = report.kept.raw

\* The video is decoded again: its frames are those of the receipt.
VideoRetained(kept, report) == kept.video = report.kept.video

\* The captures are composed again: the video and its poster are what comes out.
ComposedFromRaw(kept) == kept.video = Composition(kept.raw)

\* A session is of the run: its receipt binds the run and every file, the answers admit
\* the source, the readiness file names the run, the log has the nine events.
SessionBinds(kept, report, r) ==
    /\ ReadinessBinds(kept.readiness, r)
    /\ ReportBinds(report, r, kept)
    /\ AdmissionRecomputed(kept.answers, runs[r].commit)
    /\ AdmissionReceiptBinds(kept.answers, runs[r].commit)
    /\ TrustReceiptBinds(kept.trust, runs[r].commit)
    /\ SegmentsRetained(kept, report)
    /\ AttemptStateExact(kept.state)
    /\ ComposedFromRaw(kept)
    /\ VideoRetained(kept, report)

\* The run is copied into a private snapshot, which is verified against source and app.
SealRun(r) ==
    /\ stage = "none"
    /\ RunComplete(r)
    /\ CollectableRun(r)
    /\ input' = [input EXCEPT !.run = r, !.commit = runs[r].commit]
    /\ stage' = "collecting"
    /\ UNCHANGED <<attemptVars, staging, assets, policy, gh, views>>

\* The five files made of one session, and the release input that names their source.
Collected(o) == [input EXCEPT !.files = [f \in Files |-> o], !.evidence = session[o].report]

CollectSnapshot(o) ==
    /\ stage = "collecting"
    /\ session[o].place = "output" /\ session[o].report # NoReport
    /\ SessionBinds(session[o].kept, session[o].report, input.run)
    /\ SourcePreflight(input.commit)
    /\ input' = Collected(o)
    /\ stage' = "collected"
    /\ UNCHANGED <<attemptVars, staging, assets, policy, gh, views>>

\* Its staging directory is removed; the collection may be tried again.
CollectionFails ==
    /\ stage = "collecting"
    /\ stage' = "none" /\ input' = NoInput
    /\ UNCHANGED <<attemptVars, staging, assets, policy, gh, views>>

(***************************************************************************)
(* build_portfolio_release.py.                                             *)
(***************************************************************************)
\* The provenance names the digests of the video, the poster and the evidence.
ValidDemoProvenance(files) ==
    \A f \in {"video", "poster", "evidence"} : files[f] = files["provenance"]

\* The runtime assets name the provenance and the automation report.
ValidRuntimeAssets(files) == files["runtime"] = files["provenance"]

\* What is decoded from the video is what the provenance says of it.
ValidVideo(files) == files["video"] = files["provenance"]

\* What the evidence archive holds is checked part by part.  The session: its receipt binds
\* the files beside it.
RetainedSession(e, commit) ==
    /\ e.commit = commit
    /\ AttemptStateExact(e.kept.state)
    /\ ReadinessBinds(e.kept.readiness, e.run)

\* The answers and the trust receipt: they admit the source of the release again.
RetainedAdmission(e, commit) ==
    AdmissionRecomputed(e.kept.answers, commit) /\ TrustReceiptBinds(e.kept.trust, commit)

\* The two proof reports: a verified run of the source.
RetainedReports(e, commit) == RunComplete(e.run) /\ runs[e.run].commit = commit

\* The run itself: it is unpacked, verified again and was built of the source.
RetainedProduct(e, commit) == e.build = runs[e.run].build /\ runs[e.run].commit = commit

ValidEvidenceArchive(files, commit) ==
    /\ files["evidence"] = files["provenance"]
    /\ files["evidence"] \in Attempts
    /\ RetainedSession(input.evidence, commit)
    /\ RetainedReports(input.evidence, commit)
    /\ RetainedProduct(input.evidence, commit)

ValidFiles(files, commit) ==
    /\ ValidDemoProvenance(files) /\ ValidRuntimeAssets(files)
    /\ ValidVideo(files) /\ ValidEvidenceArchive(files, commit)
    /\ RetainedAdmission(input.evidence, commit)

\* The five files of the input are all there.
InputsPresent(files) == \A f \in Files : files[f] # Absent

\* The clean main checkout is the commit, and the annotated signed tag names it.
ReleaseSource(commit) == head = commit /\ tag = commit

\* The identity that is signed: the source, its CI, and the provenance of the demonstration.
SourceIdentity(commit, provenance) == [commit |-> commit, ci |-> commit, demo |-> provenance]
IdentityBinds(identity) == identity.commit \in Commits /\ identity.ci = identity.commit

\* Made of the source: git archive of the commit, the dependencies of the checkout as it is
\* by then, and the instructions to reproduce the commit.
SourceArchive(commit) == commit
Dependencies == head
ReproduceDocument(commit) == commit

\* The archive rebuilds the tree of the signed commit.
SourceArchiveExact(directory) == directory.made.source = directory.identity.commit

\* The lock files and verifiers the runtime file lists are those in the archive.
ManifestBound(directory) == input.evidence.commit = directory.made.source

\* The dependency list is checked for its form and the tag only, not against the archive.
DependenciesValid(directory) == directory.made.sbom \in Commits

\* Exactly the files of a release are there.
FileSetExact(directory) ==
    /\ InputsPresent(directory.files)
    /\ directory.made.source # 0 /\ directory.made.sbom # 0

\* SHA256SUMS covers every other file; each still has the digest it gives.
Covered(directory) ==
    [files |-> directory.files, made |-> directory.made, identity |-> directory.identity]
ChecksumsBind(directory) == directory.sums = Covered(directory)

\* Mutant: the finished directory is not verified again.
VerifyReleaseSkipped(directory) == TRUE

\* verify_release: the exact files, as the sums list them, of one signed identity.
VerifyRelease(directory) ==
    /\ FileSetExact(directory)
    /\ ChecksumsBind(directory)
    /\ IdentityBinds(directory.identity)
    /\ directory.identity.demo = directory.files["provenance"]
    /\ ValidFiles(directory.files, directory.identity.commit)
    /\ SourceArchiveExact(directory) /\ ManifestBound(directory)
    /\ DependenciesValid(directory)
    /\ directory.made.reproduce = ReproduceDocument(directory.identity.commit)

ValidateInputs ==
    /\ stage = "collected"
    /\ ReleaseSource(input.commit)
    /\ InputsPresent(input.files)
    /\ ValidFiles(input.files, input.commit)
    /\ staging' = [staging EXCEPT !.identity = SourceIdentity(input.commit, input.files["provenance"])]
    /\ stage' = "validated"
    /\ UNCHANGED <<attemptVars, input, assets, policy, gh, views>>

\* The files are copied from their paths; the identity is of the provenance read before.
CopyAndSign ==
    /\ stage = "validated"
    /\ LET made == [source |-> SourceArchive(input.commit), sbom |-> Dependencies,
                    reproduce |-> ReproduceDocument(input.commit)]
           copied == [staging EXCEPT !.files = input.files, !.made = made]
       IN  staging' = [copied EXCEPT !.sums = Covered(copied)]
    /\ stage' = "signed"
    /\ UNCHANGED <<attemptVars, input, assets, policy, gh, views>>

FinishRelease ==
    /\ stage = "signed"
    /\ VerifyRelease(staging)
    /\ assets' = staging /\ staging' = NoDirectory
    /\ stage' = "built"
    /\ UNCHANGED <<attemptVars, input, policy, gh, views>>

BuildFails ==
    /\ stage \in {"validated", "signed"}
    /\ staging' = NoDirectory
    /\ stage' = "collected"
    /\ UNCHANGED <<attemptVars, input, assets, policy, gh, views>>

(***************************************************************************)
(* The publication: every verifier reads saved responses, and starts by    *)
(* verifying the assets again.                                             *)
(***************************************************************************)
\* The identity in the directory is one of a portfolio release.
ReleaseIdentity(identity) == identity.commit \in Commits /\ identity.ci = identity.commit

\* Every verifier copies the directory, verifies the copy, and reads names and digests there.
VerifiedAssets == VerifyRelease(assets) /\ ReleaseIdentity(assets.identity)
AssetRecords == assets.files

\* The request names the source and the digest of the sums in its body.
CreateRequest == [identity |-> assets.identity, sums |-> assets.sums]

CheckPolicy ==
    /\ stage = "built"
    /\ policy
    /\ stage' = "policy"
    /\ UNCHANGED <<attemptVars, input, staging, assets, policy, gh, views>>

\* The request is written for the verified assets, and then posted.
PrepareDraft == VerifiedAssets /\ gh' = [NoRelease EXCEPT !.state = "draft", !.body = CreateRequest]

CreateDraft ==
    /\ stage = "policy"
    /\ PrepareDraft
    /\ views' = [views EXCEPT !.release = gh']
    /\ stage' = "created"
    /\ UNCHANGED <<attemptVars, input, staging, assets, policy>>

\* The response is of an empty draft with the body the assets ask for.
EmptyDraft(release) ==
    release = [NoRelease EXCEPT !.state = "draft", !.body = CreateRequest]

VerifyEmptyDraft ==
    /\ stage = "created"
    /\ VerifiedAssets
    /\ EmptyDraft(views.release)
    /\ stage' = "empty" /\ views' = NoViews
    /\ UNCHANGED <<attemptVars, input, staging, assets, policy, gh>>

\* gh release upload without --clobber: a name that is already there is refused.  What others
\* do between two of the files they may as well do after the last.
UploadAssets ==
    /\ stage = "empty"
    /\ gh.state = "draft"
    /\ gh.files = NoFiles
    /\ gh' = [gh EXCEPT !.files = assets.files]
    /\ stage' = "uploaded"
    /\ UNCHANGED <<attemptVars, input, staging, assets, policy, views>>

FetchDraft ==
    /\ stage = "uploaded"
    /\ views' = [views EXCEPT !.release = gh]
    /\ stage' = "fetched"
    /\ UNCHANGED <<attemptVars, input, staging, assets, policy, gh>>

FetchTagAndPolicy ==
    /\ stage = "fetched"
    /\ views' = [views EXCEPT !.tag = public.tag, !.policy = policy]
    /\ stage' = "saved"
    /\ UNCHANGED <<attemptVars, input, staging, assets, policy, gh>>

\* The API lists every asset once, with the digest of the local file, nothing else, and the body.
ApiAssets(release) == release.files = AssetRecords /\ release.body = CreateRequest

\* The tag object the API returns is the signed one of the identity.
TagVerified(commit) == commit = assets.identity.commit

\* The draft has every asset, with the local digests, and nothing else.
DraftExact(release) ==
    release.state = "draft" /\ ~release.immutable /\ ApiAssets(release)

\* Mutant: the immutable flag is not looked at.
ReleaseExactMutable(release) ==
    release.state = "published" /\ ApiAssets(release)

\* Mutant: the assets of the published release are not compared with the local ones.
ReleaseExactUnlisted(release) ==
    release.state = "published" /\ release.immutable

\* The published release likewise, and GitHub reports it immutable.
ReleaseExact(release) ==
    release.state = "published" /\ release.immutable /\ ApiAssets(release)

VerifyDraft ==
    /\ stage = "saved"
    /\ VerifiedAssets
    /\ views.policy
    /\ DraftExact(views.release)
    /\ TagVerified(views.tag)
    /\ stage' = "admitted" /\ views' = NoViews
    /\ UNCHANGED <<attemptVars, input, staging, assets, policy, gh>>

\* PATCH draft:false on the same release id.
Publish ==
    /\ stage = "admitted"
    /\ gh' = [gh EXCEPT !.state = "published", !.immutable = policy]
    /\ stage' = "published"
    /\ UNCHANGED <<attemptVars, input, staging, assets, policy, views>>

FetchRelease ==
    /\ stage = "published"
    /\ views' = [views EXCEPT !.release = gh]
    /\ stage' = "logged out"
    /\ UNCHANGED <<attemptVars, input, staging, assets, policy, gh>>

FetchTag ==
    /\ stage = "logged out"
    /\ views' = [views EXCEPT !.tag = public.tag]
    /\ stage' = "downloaded"
    /\ UNCHANGED <<attemptVars, input, staging, assets, policy, gh>>

VerifySavedResponses ==
    /\ stage = "downloaded"
    /\ VerifiedAssets
    /\ ReleaseExact(views.release)
    /\ TagVerified(views.tag)
    /\ stage' = "released" /\ views' = NoViews
    /\ UNCHANGED <<attemptVars, input, staging, assets, policy, gh>>

\* A successor checkout: what index, files and README are there beside the commit.
Checkouts == [parent : Commits, index : {"HEAD", "other"}, files : {"HEAD", "other"},
              readme : {"presentation", "other"}, poster : Attempts \cup {Foreign}]

IndexExact(c) == c.index = "HEAD"
WorktreeExact(c) == c.files = "HEAD"
ParentExact(c) == c.parent = assets.identity.commit
ReadmeExact(c) == c.readme = "presentation"

\* The clean checkout is the pushed commit right after the release's source.
SuccessorCheckout(c) ==
    /\ head = public.main /\ head # assets.identity.commit
    /\ ParentExact(c)
    /\ IndexExact(c) /\ WorktreeExact(c)

\* The commit after the release carries the released poster and the README made for it.
VerifySuccessor ==
    /\ stage = "released"
    /\ VerifiedAssets
    /\ ReleaseExact(gh)
    /\ TagVerified(public.tag)
    /\ \E c \in Checkouts : SuccessorCheckout(c) /\ ReadmeExact(c) /\ c.poster = assets.files["poster"]
    /\ stage' = "succeeded"
    /\ UNCHANGED <<attemptVars, input, staging, assets, policy, gh, views>>

\* Any mismatch is a hard stop: no step leads on, back or to a second draft.
Publishing == {"policy", "created", "empty", "uploaded", "fetched", "saved", "admitted",
               "published", "logged out", "downloaded"}

(***************************************************************************)
(* What others change: a collected file, the draft or a release that is    *)
(* not immutable, and the policy.                                          *)
(***************************************************************************)
AttemptsOnly == UNCHANGED <<head, tag, public, app, runs, log, att, proof, session>>

ReplaceInput(f) ==
    /\ stage \in {"collected", "validated"}
    /\ Change /\ AttemptsOnly
    /\ input.files[f] # Foreign
    /\ input' = [input EXCEPT !.files[f] = Foreign]
    /\ UNCHANGED <<stage, staging, assets, policy, gh, views>>

\* A retained capture of a session that has its receipt, before the collector is done with it.
ReplaceSessionFile(o, s) ==
    /\ stage \in {"none", "collecting"}
    /\ session[o].report # NoReport /\ session[o].kept.raw[s] # Foreign
    /\ Change
    /\ session' = [session EXCEPT ![o].kept.raw[s] = Foreign]
    /\ UNCHANGED <<head, tag, public, app, runs, log, att, proof, releaseVars>>

ReplaceAsset(f) ==
    /\ stage \in Publishing
    /\ Change /\ AttemptsOnly
    /\ assets.files[f] # Foreign
    /\ assets' = [assets EXCEPT !.files[f] = Foreign]
    /\ UNCHANGED <<stage, input, staging, policy, gh, views>>

EditBody ==
    /\ gh.state # "none" /\ ~gh.immutable
    /\ Change /\ AttemptsOnly
    /\ gh.body # NoRequest
    /\ gh' = [gh EXCEPT !.body = NoRequest]
    /\ UNCHANGED <<stage, input, staging, assets, policy, views>>

EditRelease(f, content) ==
    /\ gh.state # "none" /\ ~gh.immutable
    /\ Change /\ AttemptsOnly
    /\ gh.files[f] # content
    /\ gh' = [gh EXCEPT !.files[f] = content]
    /\ UNCHANGED <<stage, input, staging, assets, policy, views>>

TogglePolicy ==
    /\ Change /\ AttemptsOnly
    /\ policy' = ~policy
    /\ UNCHANGED <<stage, input, staging, assets, gh, views>>

\* An immutable release locks its tag.
TagLocked == gh.immutable => public'.tag = public.tag

Collector ==
    \/ \E r \in DOMAIN runs : SealRun(r)
    \/ \E o \in Attempts : CollectSnapshot(o)
    \/ CollectionFails

Builder == ValidateInputs \/ CopyAndSign \/ FinishRelease \/ BuildFails

PublicationVerifier ==
    \/ CheckPolicy \/ VerifyEmptyDraft \/ VerifyDraft
    \/ VerifySavedResponses \/ VerifySuccessor

Operator ==
    \/ Collector \/ Builder \/ PublicationVerifier
    \/ CreateDraft \/ UploadAssets \/ FetchDraft \/ FetchTagAndPolicy \/ Publish
    \/ FetchRelease \/ FetchTag

OtherHands ==
    \/ \E f \in Replaced : ReplaceInput(f)
    \/ \E f \in Replaced, content \in {Absent, Foreign} : EditRelease(f, content)
    \/ TogglePolicy
    \/ \E o \in Attempts, s \in Segments : ReplaceSessionFile(o, s)
    \/ \E f \in Replaced : ReplaceAsset(f)
    \/ EditBody

Next ==
    \/ AttemptNext /\ TagLocked /\ UNCHANGED releaseVars
    \/ Operator
    \/ OtherHands

Spec == Init /\ [][Next]_vars
-----------------------------------------------------------------------------
(***************************************************************************)
(* Properties.                                                             *)
(***************************************************************************)
\* The proof of a tag is invoked at most once, and only once the log says so for good:
\* over concurrent orchestrations, kills, power losses and tags that move
\* (AttemptLog.reserve and the order of append and Popen in _execute_reserved_attempt).
OneProofPerTag ==
    \A o \in Attempts : proof[o] # "none" =>
        /\ \A other \in Attempts \ {o} : proof[other] = "none"
        /\ log.owner = o /\ log.durable
        /\ Len(log.events) > 1 /\ log.events[2] = "PROOF_INVOKED"

\* Whatever other orchestrations build at the shared path, a window that is recorded as
\* ready, captured or reopened shows the very build the verified proof has run
\* (_validate_window_executable around every capture).
WindowOfProof ==
    \A o \in Attempts :
        att[o].pc \in {"surface", "presented", "reopenable", "reopened", "captured",
                       "sealed", "snapshot"} =>
            att[o].shown = runs[att[o].run].build

\* The nine events of an attempt, and a failure after them at most.
LogComplete == log.events \in {Success, Append(Success, "ATTEMPT_FAILED")}

\* An automation receipt means that the one proof of the tag was verified, was of the
\* source that was admitted and confirmed, that the video shows the executable of the proof in
\* both its parts, and that the log holds the nine events, followed by ATTEMPT_FAILED at most
\* (_execute_reserved_attempt).
ReceiptEarned ==
    \A o \in Attempts : session[o].report # NoReport =>
        LET kept == session[o].report.kept
            build == runs[att[o].run].build
        IN
            /\ proof[o] = "verified"
            /\ session[o].report.run = att[o].run
            /\ runs[att[o].run] = [by |-> o, build |-> build, commit |-> att[o].commit]
            /\ kept.video = [presentation |-> build, result |-> build]
            /\ TagCIAdmits(kept.answers, att[o].commit) /\ kept.trust = att[o].commit
            /\ log.owner = o
            /\ LogComplete

\* A finished release directory is all of one attempt and of its source, also when a file of
\* the session was replaced before the collection, or a collected file after it had been
\* validated; only its dependency list may be of another checkout (build_release).
AssetsOfOneAttempt ==
    stage = "built" =>
        \E o \in Attempts :
            /\ \A f \in Files : assets.files[f] = o
            /\ assets.identity = SourceIdentity(runs[att[o].run].commit, o)
            /\ assets.made.source = assets.identity.commit
            /\ assets.sums = Covered(assets)
            /\ input.evidence.run = att[o].run
            /\ input.evidence.kept.video = Composition(input.evidence.kept.raw)

\* A release that passed the logged-out verification holds on GitHub, whatever was edited
\* there or in the local directory meanwhile, the files of the complete attempt of its tag,
\* and its tag and text name the source of that attempt's proof (verify_saved_responses).
ReleasedFromOneAttempt ==
    stage \in {"released", "succeeded"} =>
        \E o \in Attempts :
            /\ \A f \in Files : gh.files[f] = o
            /\ public.tag = runs[att[o].run].commit
            /\ gh.body.identity = SourceIdentity(public.tag, o)
            /\ log.owner = o
            /\ LogComplete

\* From then on nobody can change its files or move its tag (_api_release: immutable true).
ReleaseStays ==
    [][(stage \in {"released", "succeeded"}) => (gh' = gh /\ public'.tag = public.tag)]_vars
=============================================================================
