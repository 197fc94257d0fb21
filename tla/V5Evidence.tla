----------------------------- MODULE V5Evidence -----------------------------
(***************************************************************************)
(* What verify_voidtoken_v5_evidence.py concludes from a clone, in a clone *)
(* with its git metadata, and the properties of the V5 suite.  It is       *)
(* evaluated in every state: a reader may look while a run is writing, or  *)
(* at what a crash left.                                                   *)
(***************************************************************************)
EXTENDS V5Frozen

Statuses == {"registration only", "selection incomplete", "invalid selection",
             "selection verified", "holdout incomplete", "invalid holdout",
             "holdout verified"}

\* _verify_artifact_matches_head, for the result and the marker of a phase.
MatchesHead(c, phase) == Unmodified(c, Result(phase)) /\ Unmodified(c, Attempt(phase))

\* _verify_standalone_attempt: a marker without a result.
StandaloneAttempt(c, phase) ==
    LET marker == disk[c][Attempt(phase)] IN
        /\ Readable(marker)
        /\ AttemptVerified(marker.body)
        /\ tags[c][phase] = marker.body.commit

\* Mutant: a selection that failed is taken for an error.
PhaseAcceptedIfPassed(c, phase) ==
    LET body == disk[c][Result(phase)].body IN
        /\ PhaseVerified(c, phase, body) /\ body.pass
        /\ MatchesHead(c, phase)
        /\ tags[c][phase] = body.commit

\* The phase's result against its marker, HEAD and the phase's tag, with the
\* second computation of the metrics.
PhaseAccepted(c, phase) ==
    LET body == disk[c][Result(phase)].body IN
        /\ PhaseVerified(c, phase, body)
        /\ VerdictRecomputed(body)
        /\ MatchesHead(c, phase)
        /\ tags[c][phase] = body.commit

\* The pre-test freeze names the selection artifacts of this worktree, and the
\* pre-test tag holds them.
FreezeAccepted(c) ==
    LET selection == disk[c][Result("selection")] IN
        /\ disk[c][Result("holdout")].body.selection = selection.body.run
        /\ tags[c]["holdout"] # 0
        /\ \A f \in {Result("selection"), Attempt("selection")} :
               commits[tags[c]["holdout"]].files[f] = Content(disk[c][f])

\* Mutant: markers without a result are not looked at.
StatusFromResults(c) ==
    IF ~Present(disk[c][Result("selection")]) THEN "registration only"
    ELSE IF ~Present(disk[c][Result("holdout")]) THEN "selection verified"
    ELSE "holdout verified"

\* verify_available_evidence: which of its returns is taken.
Status(c) ==
    LET Has(f) == Present(disk[c][f])
    IN  CASE ~Has(Result("selection")) /\ ~Has(Attempt("selection")) -> "registration only"
          [] ~Has(Result("selection")) /\ Has(Attempt("selection"))  -> "selection incomplete"
          [] OTHER ->
               CASE ~Readable(disk[c][Result("selection")]) -> "invalid selection"
                 [] Readable(disk[c][Result("selection")]) /\ ~Has(Result("holdout")) ->
                      IF Has(Attempt("holdout"))
                      THEN "holdout incomplete" ELSE "selection verified"
                 [] OTHER -> IF Readable(disk[c][Result("holdout")])
                             THEN "holdout verified" ELSE "invalid holdout"

\* verify_available_evidence: it reports no error.
NoErrors(c) ==
    LET NoHoldout == \A f \in {Result("holdout"), Attempt("holdout")} :
                         ~Present(disk[c][f])
        SelectionPassed == disk[c][Result("selection")].body.pass
        status == Status(c)
    IN  /\ source[c] = commits[head[c]].source
        /\ CASE status = "registration only" -> NoHoldout
             [] status = "selection incomplete" ->
                  NoHoldout /\ StandaloneAttempt(c, "selection")
             [] status = "selection verified" -> PhaseAccepted(c, "selection")
             [] status = "holdout incomplete" ->
                  /\ PhaseAccepted(c, "selection") /\ SelectionPassed
                  /\ StandaloneAttempt(c, "holdout")
             [] status = "holdout verified" ->
                  /\ PhaseAccepted(c, "selection") /\ SelectionPassed
                  /\ PhaseAccepted(c, "holdout") /\ FreezeAccepted(c)
             [] OTHER -> FALSE

-----------------------------------------------------------------------------
(***************************************************************************)
(* Properties.                                                             *)
(***************************************************************************)
TypeOK ==
    /\ \A i \in DOMAIN commits : /\ commits[i].source \in Sources
                                 /\ commits[i].line \subseteq 1..MaxCommits
    /\ public \in [Phases -> 0..MaxCommits]
    /\ tags \in [Clones -> [Phases -> 0..MaxCommits]]
    /\ head \in [Clones -> 0..MaxCommits]
    /\ source \in [Clones -> Sources]
    /\ disk \in [Clones -> [Files -> FileStates(Bodies)]]
    /\ exit \in [Runs -> {"none", "0", "1", "2"}]
    /\ mem \in [Runs -> Locals]
    /\ resolved \subseteq Runs /\ tainted \subseteq Runs

\* A split is resolved at most once for each phase of a clone, and only behind
\* a marker that no crash or power loss takes back: run_phase creates the
\* marker exclusively and syncs it before _resolve_model_and_split.
SplitOnce ==
    \A r \in resolved :
        /\ Settled(File(r, "attempt")) /\ Readable(File(r, "attempt"))
        /\ File(r, "attempt").body.run = r

\* The test split is resolved only after a selection run passed and its
\* artifacts were published: the public pre-test tag holds a passing result of
\* a run that resolved the validation split at the public protocol tag, and
\* the freeze names that run (_require_public_pretest_freeze).
HoldoutAfterPass ==
    \A r \in resolved : mem[r].phase = "holdout" =>
        /\ public["holdout"] # 0
        /\ LET selection == commits[public["holdout"]].files[Result("selection")] IN
               /\ selection.form = "whole" /\ selection.body.pass
               /\ selection.body.run \in resolved \ {r}
               /\ mem[r].body.selection = selection.body.run
               /\ selection.body.commit = public["selection"]
               /\ selection.body.commit \in commits[public["holdout"]].line

\* A conclusion of the verifier was earned: the run behind each accepted
\* result resolved its split, measured what the verdict says, and ran the
\* version of the sources it recorded unless they changed under it before it
\* took their digest; and no accepted state hides a split that was resolved in
\* that clone.
EvidenceEarned ==
    \A c \in Clones :
        /\ head[c] # 0
        /\ resolved # {} \/ \E p \in Phases : Present(disk[c][Result(p)])
        /\ NoErrors(c)
        =>
        /\ \A p \in Phases :
               LET r == disk[c][Result(p)].body.run IN
               Present(disk[c][Result(p)]) =>
                   /\ r \in resolved
                   /\ disk[c][Result(p)].body = mem[r].body
                   /\ r \notin tainted => mem[r].loaded = {mem[r].body.source}
        /\ \A r \in resolved : Here(r) = c =>
               /\ Status(c) # "registration only"
               /\ mem[r].phase = "holdout" => Status(c) # "selection verified"

\* The verifier accepts what undisturbed runs leave: in a clone whose
\* artifacts are committed as they are, whose sources are those of HEAD with
\* the registration of the results, and which has the tags, a run that was not
\* cut short inside a write and lost none of what was committed leaves no error.
Undisturbed(c) ==
    /\ head[c] # 0 /\ CleanExcept(c, {})
    /\ \A i \in commits[head[c]].line, f \in Files :
           commits[i].files[f].form = "whole" => Unmodified(c, f) /\ Present(disk[c][f])
    /\ \A f \in Files : Present(disk[c][f]) =>
           /\ Readable(disk[c][f])
           /\ Registration(source[c]) = Registration(disk[c][f].body.source)
           /\ tags[c][f[1]] = public[f[1]]
EvidenceAccepted ==
    \A c \in Clones : Undisturbed(c) => NoErrors(c)

\* Exit status 0 or 2 says that a verdict is recorded: it survives a power
\* loss from the moment the status is known (main, _exclusive_write).
ExitIsDurable ==
    \A r \in Runs : exit[r] \in {"0", "2"} =>
        /\ Settled(File(r, "result")) /\ Readable(File(r, "result"))
        /\ File(r, "result").body.run = r
        /\ exit[r] = ExitCode(File(r, "result").body)

\* V5_PROTOCOL.md:177 lists among the conditions of the holdout that the
\* normative implementation digest equals the selection-time digest.
HoldoutUsesSelectionSources ==
    \A r \in resolved : mem[r].phase = "holdout" =>
        mem[r].body.source = disk[Here(r)][Result("selection")].body.source
=============================================================================
