---------------------------- MODULE BenchmarkApp ----------------------------
(***************************************************************************)
(* The macOS application (BenchmarkStore.swift), the Python worker it      *)
(* spawns (app_proof_runner.py) and the run directory both write.  Each    *)
(* application process is named by the proof script that launches it; the  *)
(* abandoned application of a killed script stands for one its user opened. *)
(*                                                                         *)
(* A handler of the main actor is one action.  Between two handlers the    *)
(* worker, the signals, the termination monitor and the proof scripts run. *)
(* A process id is not reused while somebody holds it.  SIGTERM ends the   *)
(* application and the Python leader, which leave its disposition alone.   *)
(***************************************************************************)
EXTENDS Naturals, FiniteSets

CONSTANTS
    MaxScripts, \* bound: invocations of run-proof.sh, each with its application
    MaxRuns,    \* bound: the runs one application starts when no other does
    None

Scripts == 1 .. MaxScripts
Runs == 1 .. MaxRuns

ASSUME BoundAssumption == MaxScripts \in Nat /\ MaxRuns \in Nat \ {0}
ASSUME NoneAssumption == None \notin Scripts \cup Runs

VARIABLES
    app,         \* the life of each application process
    process,     \* process: the run whose worker the application supervises
    forced,      \* forcedRealLLMFailure: who asked for the end of the run
    failed,      \* errorMessage is set
    verified,    \* realLLMVerified, with its realLLMResult
    handler,     \* the termination handler of each run's Process
    escalating,  \* runs with a SIGKILL scheduled two seconds after a SIGTERM
    owner,       \* the application that started each run
    worker,      \* the leader of each run's process group
    helper,      \* another process of the group is alive
    published,   \* runs whose directory holds .worker-process-group
    disk,        \* what the worker has written: "evidence", "result"
    receipt,     \* app-run-receipt.json
    orphans      \* history: runs that no file named when their application ended

appVars == <<app, process, forced, failed, verified, handler, escalating>>
workVars == <<owner, worker, helper, published, disk>>
benchVars == <<appVars, workVars, receipt, orphans>>

Open == {"starting", "confirming", "polling"}
Ended == {"exit0", "exit1"}
AppStates == {"off"} \cup Open \cup Ended
Grouped == {"grouped", "registered", "written"}
Working == {"spawned"} \cup Grouped
WorkerStates == {"none"} \cup Working \cup {"exit0", "exit1", "killed"}
Requests == {"none", "user", "safety"}
HandlerStates == {"none", "armed", "queued"}
Receipts == {"none", "fail", "pass"}

BenchInit ==
    /\ app = [a \in Scripts |-> "off"]
    /\ process = [a \in Scripts |-> None]
    /\ forced = [a \in Scripts |-> "none"]
    /\ failed = [a \in Scripts |-> FALSE]
    /\ verified = [a \in Scripts |-> FALSE]
    /\ handler = [r \in Runs |-> "none"]
    /\ escalating = {}
    /\ owner = [r \in Runs |-> None]
    /\ worker = [r \in Runs |-> "none"]
    /\ helper = [r \in Runs |-> FALSE]
    /\ published = {}
    /\ disk = [r \in Runs |-> {}]
    /\ receipt = [r \in Runs |-> "none"]
    /\ orphans = {}

-----------------------------------------------------------------------------
(* Processes and signals. *)

RunsOf(a) == {r \in Runs : owner[r] = a}
Leads(r) == worker[r] \in Working
GroupExists(r) == worker[r] \in Grouped \/ helper[r]

\* SIGTERM ends a Python leader; another member of the group may ignore it.
Terminated(S) ==
    /\ worker' = [r \in Runs |-> IF r \in S /\ Leads(r) THEN "killed" ELSE worker[r]]
    /\ \E deaf \in SUBSET {r \in S : helper[r]} :
           helper' = [r \in Runs |-> IF r \in S THEN r \in deaf ELSE helper[r]]
\* SIGKILL to the groups of S.
Killed(S) ==
    /\ worker' = [r \in Runs |-> IF r \in S /\ worker[r] \in Grouped THEN "killed"
                                 ELSE worker[r]]
    /\ helper' = [r \in Runs |-> helper[r] /\ r \notin S]

\* The process of application a ends, and its memory, timers and handlers with it.
AppEnds(a, state) ==
    /\ app' = [app EXCEPT ![a] = state]
    /\ process' = [process EXCEPT ![a] = None]
    /\ forced' = [forced EXCEPT ![a] = "none"]
    /\ failed' = [failed EXCEPT ![a] = FALSE]
    /\ verified' = [verified EXCEPT ![a] = FALSE]
    /\ handler' = [r \in Runs |-> IF owner[r] = a THEN "none" ELSE handler[r]]
    /\ escalating' = escalating \ RunsOf(a)
    /\ orphans' = orphans \cup {r \in RunsOf(a) :
                       (Leads(r) \/ helper[r]) /\ r \notin published}

-----------------------------------------------------------------------------
(* The application. *)

\* The next run directory: its name is a fresh UUID.
Unused(r) == worker[r] = "none" /\ \A q \in 1 .. r - 1 : worker[q] # "none"

\* A resolution or a check before the spawn throws: no run directory is used.
RefuseRun(a) ==
    /\ app[a] \in {"starting", "polling"} /\ process[a] = None
    /\ app' = [app EXCEPT ![a] = "polling"]
    /\ failed' = [failed EXCEPT ![a] = TRUE]
    /\ UNCHANGED <<process, forced, verified, handler, escalating, workVars, receipt,
                   orphans>>

\* runRealLLM as far as task.run: from then on the main actor waits for the
\* worker to lead a group of its own.  A spawn that throws is a worker that
\* raises at once.
RunRealLLM(a, r) ==
    /\ app[a] \in {"starting", "polling"} /\ process[a] = None /\ Unused(r)
    /\ app' = [app EXCEPT ![a] = "confirming"]
    /\ process' = [process EXCEPT ![a] = r]
    /\ forced' = [forced EXCEPT ![a] = "none"]
    /\ failed' = [failed EXCEPT ![a] = FALSE]
    /\ verified' = [verified EXCEPT ![a] = FALSE]
    /\ handler' = [handler EXCEPT ![r] = "armed"]
    /\ owner' = [owner EXCEPT ![r] = a]
    /\ worker' = [worker EXCEPT ![r] = "spawned"]
    /\ UNCHANGED <<escalating, helper, published, disk, receipt, orphans>>

\* getpgid of the worker is its own pid: the safety watchdog starts.
ConfirmWorkerProcessGroup(a) ==
    /\ app[a] = "confirming" /\ worker[process[a]] \in Grouped
    /\ app' = [app EXCEPT ![a] = "polling"]
    /\ UNCHANGED <<process, forced, failed, verified, handler, escalating, workVars,
                   receipt, orphans>>

\* (For a mutant: the launch is given up and the worker left running.)
LaunchFailsWithoutKill(a) ==
    /\ app[a] = "confirming" /\ worker[process[a]] \notin Grouped
    /\ app' = [app EXCEPT ![a] = "polling"]
    /\ process' = [process EXCEPT ![a] = None]
    /\ failed' = [failed EXCEPT ![a] = TRUE]
    /\ receipt' = [receipt EXCEPT ![process[a]] = "fail"]
    /\ UNCHANGED <<forced, verified, handler, escalating, workVars, orphans>>

\* The worker is gone, or led no group within a second: it is killed alone, and
\* the handler is taken back unless it is queued already.
LaunchFails(a) ==
    LET r == process[a] IN
    /\ app[a] = "confirming" /\ worker[r] \notin Grouped
    /\ app' = [app EXCEPT ![a] = "polling"]
    /\ process' = [process EXCEPT ![a] = None]
    /\ failed' = [failed EXCEPT ![a] = TRUE]
    /\ handler' = [handler EXCEPT ![r] = IF @ = "armed" THEN "none" ELSE @]
    /\ worker' = [worker EXCEPT ![r] = IF Leads(r) THEN "killed" ELSE @]
    /\ receipt' = [receipt EXCEPT ![r] = "fail"]
    /\ UNCHANGED <<forced, verified, escalating, owner, helper, published, disk, orphans>>

\* The monitor of Foundation sees the worker's end and queues the handler.
TerminationHandler(r) ==
    /\ handler[r] = "armed" /\ ~Leads(r)
    /\ handler' = [handler EXCEPT ![r] = "queued"]
    /\ UNCHANGED <<app, process, forced, failed, verified, escalating, workVars, receipt,
                   orphans>>

\* verifyRealLLMResult and verifyPrimaryEvidence can only accept what the
\* worker finished; they may still find it wrong.
VerifyRealLLMResult(r) == "result" \in disk[r]
VerifyPrimaryEvidence(r) == "evidence" \in disk[r]
Verifiable(r) == VerifyRealLLMResult(r) /\ VerifyPrimaryEvidence(r)

\* What finishRealLLMRun leaves, for a run that passed or not; the receipt is
\* written last, and a failure to write it is only logged.
Concluded(a, r, passed) ==
    /\ process' = [process EXCEPT ![a] = None]
    /\ forced' = [forced EXCEPT ![a] = "none"]
    /\ failed' = [failed EXCEPT ![a] = @ \/ ~passed]
    /\ verified' = [verified EXCEPT ![a] = passed]
    /\ receipt' \in {receipt, [receipt EXCEPT ![r] = IF passed THEN "pass" ELSE "fail"]}

\* Mutant: the handler of an earlier run is not told apart.
FinishUnguarded(a, r) ==
    /\ app[a] = "polling" /\ owner[r] = a /\ handler[r] = "queued"
    /\ handler' = [handler EXCEPT ![r] = "none"]
    /\ Concluded(a, r, worker[r] = "exit0" /\ Verifiable(r))
    /\ UNCHANGED <<app, escalating, workVars, orphans>>

FinishRealLLMRun(a, r) ==
    /\ app[a] = "polling" /\ owner[r] = a /\ handler[r] = "queued"
    /\ handler' = [handler EXCEPT ![r] = "none"]
    /\ \/ /\ process[a] = r
          /\ \/ worker[r] = "exit0" /\ Verifiable(r) /\ Concluded(a, r, TRUE)
             \/ Concluded(a, r, FALSE)
       \/ /\ process[a] # r
          /\ UNCHANGED <<process, forced, failed, verified, receipt>>
    /\ UNCHANGED <<app, escalating, workVars, orphans>>

\* terminate(task:force:) with SIGTERM, and SIGKILL two seconds later to what is
\* left of the group.
TerminateRun(r) ==
    /\ Terminated({r})
    /\ escalating' = escalating \cup {q \in {r} : helper'[q]}

\* The user presses Stop.
Stop(a) ==
    /\ app[a] = "polling" /\ process[a] # None
    /\ forced' = [forced EXCEPT ![a] = "user"]
    /\ TerminateRun(process[a])
    /\ UNCHANGED <<app, process, failed, verified, handler, owner, published, disk,
                   receipt, orphans>>

\* The safety watchdog: critical memory pressure, or 300 seconds.
AbortRealLLMRun(a) ==
    LET r == process[a] IN
    /\ app[a] = "polling" /\ r # None /\ handler[r] = "armed"
    /\ forced' = [forced EXCEPT ![a] = "safety"]
    /\ TerminateRun(r)
    /\ UNCHANGED <<app, process, failed, verified, handler, owner, published, disk,
                   receipt, orphans>>

\* The delayed SIGKILL goes to the captured group, whatever the store holds now.
ForceKill(r) ==
    /\ r \in escalating /\ app[owner[r]] = "polling"
    /\ escalating' = escalating \ {r}
    /\ Killed({r})
    /\ UNCHANGED <<app, process, forced, failed, verified, handler, owner, published,
                   disk, receipt, orphans>>

\* The user quits: applicationWillTerminate kills the group, and the exit status is 0.
Quit(a) ==
    /\ app[a] \in {"starting", "polling"}
    /\ AppEnds(a, "exit0")
    /\ Killed({process[a]})
    /\ UNCHANGED <<owner, published, disk, receipt>>

\* runAutomatedCompressionProof sees the end of the run and exits.
ExitAutomated(a) ==
    /\ app[a] = "polling" /\ process[a] = None
    /\ \/ ~failed[a] /\ verified[a] /\ AppEnds(a, "exit0")
       \/ AppEnds(a, "exit1")
    /\ UNCHANGED <<workVars, receipt>>

\* After ten minutes it stops the run and exits without waiting.
GiveUp(a) ==
    /\ app[a] = "polling" /\ process[a] # None
    /\ AppEnds(a, "exit1")
    /\ Terminated({process[a]})
    /\ UNCHANGED <<owner, published, disk, receipt>>

-----------------------------------------------------------------------------
(* The worker. *)

WorkerStep(r, from, to) ==
    /\ worker[r] \in from
    /\ worker' = [worker EXCEPT ![r] = to]
    /\ UNCHANGED <<appVars, owner, receipt, orphans>>

EstablishGroup(r) ==
    WorkerStep(r, {"spawned"}, "grouped") /\ UNCHANGED <<helper, published, disk>>
RegisterGroup(r) ==
    /\ WorkerStep(r, {"grouped"}, "registered")
    /\ published' = published \cup {r}
    /\ UNCHANGED <<helper, disk>>
\* The evaluation may leave another process in the group.  Its evidence is
\* closed before the result is written; the evidence alone is worth nothing to
\* any reader, and the two are one step.
WriteResult(r) ==
    /\ WorkerStep(r, {"registered"}, "written")
    /\ disk' = [disk EXCEPT ![r] = {"evidence", "result"}]
    /\ helper' \in {helper, [helper EXCEPT ![r] = TRUE]}
    /\ UNCHANGED published
WorkerReturns(r) ==
    /\ WorkerStep(r, {"written"}, "exit0")
    /\ published' = published \ {r}
    /\ UNCHANGED <<helper, disk>>
WorkerRaises(r) ==
    /\ WorkerStep(r, Working \ {"written"}, "exit1")
    /\ published' = published \ {r}
    /\ UNCHANGED <<helper, disk>>
=============================================================================
