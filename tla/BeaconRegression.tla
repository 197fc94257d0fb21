--------------------------- MODULE BeaconRegression ---------------------------
(***************************************************************************)
(* The regression runner (RealLLM/run_beacon_regression.py) next to the    *)
(* one-shot runner: it takes the same proof lock, loads the terminal       *)
(* scientific state, evaluates the selected window again without keeping   *)
(* primary evidence, and writes one regression file that repeats the       *)
(* normative verdict.  Each replay writes a file of its own, named by a    *)
(* timestamp and a random challenge.                                       *)
(***************************************************************************)
EXTENDS BeaconOneShot

\* Mutant: any terminal verdict may be replayed.
LoadAnyTerminalState(p) ==
    /\ pc[p] = "load"
    /\ \A f \in {"attempt", "resolution", "outcome"} : Readable(disk[f])
    /\ disk["outcome"].body.run = disk["attempt"].body.run
    /\ disk["outcome"].body.resolution = disk["resolution"].body.run
    /\ Compute(p, "replay",
               [mem[p] EXCEPT !.resolution = disk["resolution"].body,
                              !.outcome = disk["outcome"].body])

\* _load_terminal_scientific_state: three readable artifacts linked by their
\* digests, a scientific verdict, and a resolution that still verifies
\* against the registration in the checkout.
LoadTerminalState(p) ==
    /\ pc[p] = "load"
    /\ \A f \in {"attempt", "resolution", "outcome"} : Readable(disk[f])
    /\ disk["outcome"].body.verdict \in GateVerdicts
    /\ disk["outcome"].body.run = disk["attempt"].body.run
    /\ disk["outcome"].body.resolution = disk["resolution"].body.run
    /\ disk["resolution"].body.registration = edited \cap {"registration"}
    /\ Compute(p, "replay",
               [mem[p] EXCEPT !.resolution = disk["resolution"].body,
                              !.outcome = disk["outcome"].body,
                              !.implementation = edited \cap Registered])

ReplayWindow(p) ==
    /\ pc[p] = "replay"
    /\ Pass(p, "record")

\* The record binds the attempt, resolution and outcome files as they are
\* after the evaluation, and the verdict as it was loaded before it.
RecordReplay(p) ==
    /\ pc[p] = "record"
    /\ Readable(disk["attempt"])
    /\ Present(disk["resolution"]) /\ Present(disk["outcome"])
    /\ Compute(p, "regression",
               [mem[p] EXCEPT !.attempt =
                   [NoBody EXCEPT !.run = disk["attempt"].body.run, !.at = now,
                        !.implementation = mem[p].implementation,
                        !.verdict = mem[p].outcome.verdict,
                        !.resolution = mem[p].resolution.run,
                        !.artifact = disk["outcome"].form]])

WriteRegression(p) ==
    /\ pc[p] = "regression"
    /\ DurableWrite(p, p, mem[p].attempt, "release", "0")

ReplayStep(p) ==
    \/ LoadTerminalState(p) \/ ReplayWindow(p)
    \/ RecordReplay(p) \/ WriteRegression(p)

ReplayProcStep(p) == LockStep(p) \/ ReplayStep(p) \/ Throw(p)

RegressionNext ==
    \/ Next
    \/ \E p \in Replays : Invoke(p) \/ ReplayProcStep(p) \/ Kill(p)

RegressionSpec == Init /\ [][RegressionNext]_vars

-----------------------------------------------------------------------------
(***************************************************************************)
(* Properties.                                                             *)
(***************************************************************************)
\* Every regression file repeats the verdict of a scientific outcome and binds
\* the one attempt whose run saw the pulse; it never follows FAIL_EXECUTION
\* or an incomplete attempt.
RegressionRepeatsVerdict ==
    \A p \in Replays : Present(disk[p]) =>
        /\ disk[p].body.verdict \in GateVerdicts
        /\ disk[p].body.run = disk["attempt"].body.run
        /\ disk[p].body.run \in evaluated
        /\ disk[p].body.artifact = "whole"
        /\ Present(disk["outcome"]) =>
               disk["outcome"].body.verdict = disk[p].body.verdict
=============================================================================
