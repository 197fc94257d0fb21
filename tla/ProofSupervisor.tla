--------------------------- MODULE ProofSupervisor ---------------------------
(***************************************************************************)
(* run-proof.sh with proof_process_groups.sh: one invocation builds the    *)
(* application, launches it beside two watchdogs, waits, verifies the run  *)
(* it left, replays it, and writes terminal.log.  Whatever happens, its    *)
(* EXIT trap stops what it launched and removes its lock.                  *)
(*                                                                         *)
(* The two watchdogs differ in the limit they look for and are one here;   *)
(* the reason they write is one flag.  A SIGKILL may end a script at any   *)
(* line and leaves its watchdog, its application and its lock behind.      *)
(***************************************************************************)
EXTENDS BenchmarkApp

VARIABLES
    script,     \* the part of run-proof.sh each invocation is in
    lock,       \* the script whose pid is in .proof-run.lock
    reason,     \* TIMEOUT_REASON or MEMORY_REASON is not empty
    watch,      \* the watchdog
    recorded,   \* SUPERVISED_GROUPS
    since,      \* run directories newer than MARKER
    filesSince, \* published group files newer than MARKER
    chosen,     \* run_directory
    reports     \* proof-reports of each run: none, dir, structural, replay, terminal

scriptVars == <<script, lock, reason, watch, recorded, since, filesSince,
                chosen, reports>>
vars == <<benchVars, scriptVars>>

Active == {"started", "building", "waiting", "verifying", "replaying", "closing"}
Cleaning == {"sweeping", "killing", "grouping", "escalating"}
ScriptStates == {"idle"} \cup Active \cup Cleaning \cup {"done", "crashed"}
WatchStates == {"off", "looping", "killing"}
Dead(s) == script[s] \in {"done", "crashed"}
Watching(s) == script[s] \in Active \cup Cleaning \/ watch[s] # "off"

Init ==
    /\ BenchInit
    /\ script = [s \in Scripts |-> "idle"]
    /\ lock = None
    /\ reason = [s \in Scripts |-> FALSE]
    /\ watch = [s \in Scripts |-> "off"]
    /\ recorded = [s \in Scripts |-> {}]
    /\ since = [s \in Scripts |-> {}]
    /\ filesSince = [s \in Scripts |-> {}]
    /\ chosen = [s \in Scripts |-> None]
    /\ reports = [r \in Runs |-> 0]

-----------------------------------------------------------------------------
(* What a change in a run directory makes newer than the markers. *)

Entries(r) == <<worker[r] # "none", r \in published, disk[r], receipt[r]>>
Touch ==
    /\ since' = [s \in Scripts |->
           IF Watching(s) THEN since[s] \cup {r \in Runs : Entries(r)' # Entries(r)}
           ELSE since[s]]
    /\ filesSince' = [s \in Scripts |->
           IF Watching(s) THEN filesSince[s] \cup (published' \ published)
           ELSE filesSince[s]]

-----------------------------------------------------------------------------
(* Process groups. *)

\* The worker of a run is a descendant while its application lives.
Descendants(s) == {r \in RunsOf(s) : app[s] \in Open /\ Leads(r)}
ProofGroups(s) == {r \in Descendants(s) : worker[r] \in Grouped}
\* (For a mutant: a group is looked up by its leader.)
PublishedLeaders(s) == {r \in since[s] \cap filesSince[s] : r \in published /\ Leads(r)}
PublishedWorkerGroups(s) ==
    {r \in since[s] \cap filesSince[s] : r \in published /\ GroupExists(r)}

-----------------------------------------------------------------------------
(* The script up to the end of the application. *)

Goto(s, pc) == script' = [script EXCEPT ![s] = pc]

\* Bound: an application has one run only when there are several invocations.
Invoked == {s \in Scripts : script[s] # "idle"}
SeveralRuns == \E r \in Runs \ {1} : worker[r] # "none"

\* MARKER is created before anything else.  Invocations are numbered in the
\* order in which they start.
Start(s) ==
    /\ script[s] = "idle" /\ Invoked = 1 .. s - 1
    /\ Invoked = {} \/ ~SeveralRuns
    /\ Goto(s, "started")
    /\ UNCHANGED <<benchVars, lock, reason, watch, recorded, since, filesSince,
                   chosen, reports>>

LockHeld == lock \in {s \in Scripts : ~Dead(s)}

\* shlock: the lock is free, or names a process that is gone.
AcquireLock(s) ==
    /\ script[s] = "started" /\ ~LockHeld
    /\ lock' = s
    /\ Goto(s, "building")
    /\ UNCHANGED <<benchVars, reason, watch, recorded, since, filesSince,
                   chosen, reports>>
RefuseLock(s) ==
    /\ script[s] = "started" /\ LockHeld
    /\ Goto(s, "sweeping")
    /\ UNCHANGED <<benchVars, lock, reason, watch, recorded, since, filesSince,
                   chosen, reports>>

\* The build, the gates and the memory check pass; MARKER is touched again.
Launch(s) ==
    /\ script[s] = "building"
    /\ Goto(s, "waiting")
    /\ app' = [app EXCEPT ![s] = "starting"]
    /\ watch' = [watch EXCEPT ![s] = "looping"]
    /\ since' = [since EXCEPT ![s] = {}]
    /\ filesSince' = [filesSince EXCEPT ![s] = {}]
    /\ UNCHANGED <<process, forced, failed, verified, handler, escalating,
                   workVars, receipt, orphans, lock, reason, recorded, chosen,
                   reports>>

FreshRuns(s) == {r \in since[s] : "result" \in disk[r] /\ receipt[r] # "none"}

\* The application has ended: the watchdogs are stopped, their reasons and the
\* status are judged, and exactly one fresh complete run must be there.
JudgeApplication(s) ==
    /\ script[s] = "waiting" /\ app[s] \in Ended
    /\ watch' = [watch EXCEPT ![s] = "off"]
    /\ \/ /\ ~reason[s] /\ app[s] = "exit0"
          /\ \E r \in FreshRuns(s) :
                 /\ FreshRuns(s) = {r} /\ reports[r] = 0
                 /\ chosen' = [chosen EXCEPT ![s] = r]
                 /\ reports' = [reports EXCEPT ![r] = 1]
          /\ Goto(s, "verifying")
       \/ /\ reason[s] \/ app[s] # "exit0" \/ Cardinality(FreshRuns(s)) # 1
                \/ \E r \in FreshRuns(s) : reports[r] # 0
          /\ Goto(s, "sweeping")
          /\ UNCHANGED <<chosen, reports>>
    /\ UNCHANGED <<benchVars, lock, reason, recorded, since, filesSince>>

-----------------------------------------------------------------------------
(* Verification, replay and the terminal outcome. *)

\* verify_local_app_run.py: a success receipt with this script's challenge, and
\* a result and primary evidence it can recompute.
ReceiptBound(s, r) == receipt[r] = "pass" /\ owner[r] = s
ResultRecomputed(r) == "result" \in disk[r]
PrimaryRecomputed(r) == "evidence" \in disk[r]
\* (For a mutant: any challenge is accepted.)
RunVerifiedAnyChallenge(s, r) ==
    receipt[r] = "pass" /\ ResultRecomputed(r) /\ PrimaryRecomputed(r)
RunVerified(s, r) == ReceiptBound(s, r) /\ ResultRecomputed(r) /\ PrimaryRecomputed(r)

VerifyLocalAppRun(s) ==
    LET r == chosen[s] IN
    /\ script[s] = "verifying"
    /\ \/ /\ RunVerified(s, r)
          /\ reports' = [reports EXCEPT ![r] = 2]
          /\ reason' = [reason EXCEPT ![s] = FALSE]
          /\ watch' = [watch EXCEPT ![s] = "looping"]
          /\ Goto(s, "replaying")
       \/ /\ Goto(s, "sweeping")
          /\ UNCHANGED <<reason, watch, reports>>
    /\ UNCHANGED <<benchVars, lock, recorded, since, filesSince, chosen>>

\* The replay passes and writes its report, or it ends without one.
Replay(s) ==
    /\ script[s] = "replaying"
    /\ reports' \in {reports, [reports EXCEPT ![chosen[s]] = 3]}
    /\ Goto(s, "closing")
    /\ UNCHANGED <<benchVars, lock, reason, watch, recorded, since, filesSince,
                   chosen>>

\* (For a mutant: the outcome is written twice.)
WriteTerminalTwice(s) ==
    /\ script[s] = "closing"
    /\ reports' = [reports EXCEPT ![chosen[s]] = @ + 2]
    /\ Goto(s, "sweeping")
    /\ UNCHANGED <<benchVars, lock, reason, watch, recorded, since, filesSince, chosen>>
WriteTerminalLog(s) ==
    LET r == chosen[s] IN
    /\ script[s] = "closing"
    /\ watch' = [watch EXCEPT ![s] = "off"]
    /\ \/ ~reason[s] /\ reports[r] = 3 /\ reports' = [reports EXCEPT ![r] = 4]
       \/ UNCHANGED reports
    /\ Goto(s, "sweeping")
    /\ UNCHANGED <<benchVars, lock, reason, recorded, since, filesSince, chosen>>

\* set -e, fail, or a signal the trap handles.
Fail(s) ==
    /\ script[s] \in Active \ {"started"}
    /\ Goto(s, "sweeping")
    /\ UNCHANGED <<benchVars, lock, reason, watch, recorded, since, filesSince,
                   chosen, reports>>

-----------------------------------------------------------------------------
(* terminate_proof_tree, by the watchdog or by the cleanup. *)

\* First the groups are recorded and the descendants sent SIGTERM.
TreeTermed(s, groups) ==
    /\ recorded' = [recorded EXCEPT ![s] = @ \cup ProofGroups(s) \cup groups]
    /\ Terminated(Descendants(s))
    /\ UNCHANGED <<appVars, owner, published, disk, receipt, orphans>>
\* Two seconds later what was recorded is sent SIGKILL, and then the application.
TreeKilled(s) ==
    /\ Killed(recorded[s])
    /\ IF app[s] \in Open THEN AppEnds(s, "exit1") ELSE UNCHANGED <<appVars, orphans>>
    /\ UNCHANGED <<owner, published, disk, receipt, recorded>>

\* One turn of a watchdog's loop that finds its limit not reached.
WatchRecords(s) ==
    /\ watch[s] = "looping" /\ (app[s] \in Open \/ script[s] \in {"replaying", "closing"})
    /\ recorded' = [recorded EXCEPT ![s] = @ \cup ProofGroups(s) \cup PublishedWorkerGroups(s)]
    /\ UNCHANGED <<benchVars, script, lock, reason, watch, since, filesSince,
                   chosen, reports>>
\* (For a mutant: the reason is written and nothing terminated.)
WatchReports(s) ==
    /\ watch[s] = "looping" /\ app[s] \in Open
    /\ reason' = [reason EXCEPT ![s] = TRUE]
    /\ watch' = [watch EXCEPT ![s] = "off"]
    /\ UNCHANGED <<benchVars, script, lock, recorded, since, filesSince, chosen, reports>>
\* One that finds it reached while the application runs.
WatchTrips(s) ==
    /\ watch[s] = "looping" /\ app[s] \in Open
    /\ reason' = [reason EXCEPT ![s] = TRUE]
    /\ watch' = [watch EXCEPT ![s] = "killing"]
    /\ TreeTermed(s, PublishedWorkerGroups(s))
    /\ UNCHANGED <<script, lock, since, filesSince, chosen, reports>>
WatchKills(s) ==
    /\ watch[s] = "killing"
    /\ watch' = [watch EXCEPT ![s] = "off"]
    /\ TreeKilled(s)
    /\ UNCHANGED <<script, lock, reason, since, filesSince, chosen, reports>>
\* One that finds it reached during the replay, which has no group of its own.
WatchTripsReplay(s) ==
    /\ watch[s] = "looping" /\ script[s] = "replaying"
    /\ reason' = [reason EXCEPT ![s] = TRUE]
    /\ watch' = [watch EXCEPT ![s] = "off"]
    /\ recorded' = [recorded EXCEPT ![s] = @ \cup PublishedWorkerGroups(s)]
    /\ Killed(recorded'[s])
    /\ Goto(s, "closing")
    /\ UNCHANGED <<appVars, owner, published, disk, receipt, orphans, lock, since,
                   filesSince, chosen, reports>>
\* Its target is gone.
WatchEnds(s) ==
    /\ watch[s] = "looping" /\ app[s] \notin Open
    /\ script[s] \notin {"replaying", "closing"}
    /\ watch' = [watch EXCEPT ![s] = "off"]
    /\ UNCHANGED <<benchVars, script, lock, reason, recorded, since, filesSince,
                   chosen, reports>>

-----------------------------------------------------------------------------
(* cleanup. *)

\* The watchdogs are stopped; a live application is terminated with its tree.
Sweep(s) ==
    /\ script[s] = "sweeping"
    /\ watch' = [watch EXCEPT ![s] = "off"]
    /\ \/ app[s] \in Open /\ TreeTermed(s, {}) /\ Goto(s, "killing")
       \/ /\ app[s] \notin Open /\ Goto(s, "grouping")
          /\ UNCHANGED <<benchVars, recorded>>
    /\ UNCHANGED <<lock, reason, since, filesSince, chosen, reports>>
SweepTree(s) ==
    /\ script[s] = "killing"
    /\ TreeKilled(s)
    /\ Goto(s, "grouping")
    /\ UNCHANGED <<lock, reason, watch, since, filesSince, chosen, reports>>
\* terminate_recorded_groups, and again SIGKILL a second after SIGTERM.
TerminateRecordedGroups(s) ==
    /\ script[s] = "grouping"
    /\ recorded' = [recorded EXCEPT ![s] = @ \cup PublishedWorkerGroups(s)]
    /\ Terminated({r \in recorded'[s] : GroupExists(r)})
    /\ Goto(s, "escalating")
    /\ UNCHANGED <<appVars, owner, published, disk, receipt, orphans, lock, reason, watch,
                   since, filesSince, chosen, reports>>
\* The temporary files and the lock are removed.
ForceKillRecordedGroups(s) ==
    /\ script[s] = "escalating"
    /\ Killed(recorded[s])
    /\ lock' = IF lock = s THEN None ELSE lock
    /\ reason' = [reason EXCEPT ![s] = FALSE]
    /\ recorded' = [recorded EXCEPT ![s] = {}]
    /\ since' = [since EXCEPT ![s] = {}]
    /\ filesSince' = [filesSince EXCEPT ![s] = {}]
    /\ Goto(s, "done")
    /\ UNCHANGED <<appVars, owner, published, disk, receipt, orphans, watch, chosen, reports>>

\* SIGKILL: the trap does not run, and the watchdogs go on.
Crash(s) ==
    /\ script[s] \in Active
    /\ Goto(s, "crashed")
    /\ UNCHANGED <<benchVars, lock, reason, watch, recorded, since, filesSince,
                   chosen, reports>>

-----------------------------------------------------------------------------
AppStep(a) ==
    /\ \/ RefuseRun(a) \/ ConfirmWorkerProcessGroup(a) \/ LaunchFails(a)
       \/ Stop(a) \/ AbortRealLLMRun(a) \/ Quit(a) \/ ExitAutomated(a) \/ GiveUp(a)
       \/ \E r \in Runs : (r = 1 \/ Invoked = {a}) /\ RunRealLLM(a, r)
       \/ \E r \in Runs : FinishRealLLMRun(a, r)
    /\ Touch
    /\ UNCHANGED <<script, lock, reason, watch, recorded, chosen, reports>>
RunStep(r) ==
    /\ \/ TerminationHandler(r) \/ ForceKill(r)
       \/ EstablishGroup(r) \/ RegisterGroup(r) \/ WriteResult(r)
       \/ WorkerReturns(r) \/ WorkerRaises(r)
    /\ Touch
    /\ UNCHANGED <<script, lock, reason, watch, recorded, chosen, reports>>
Cleanup(s) ==
    Sweep(s) \/ SweepTree(s) \/ TerminateRecordedGroups(s)
        \/ ForceKillRecordedGroups(s)
Main(s) ==
    \/ AcquireLock(s) \/ RefuseLock(s) \/ Launch(s) \/ JudgeApplication(s)
    \/ VerifyLocalAppRun(s) \/ Replay(s) \/ WriteTerminalLog(s)
Watchdog(s) ==
    WatchTrips(s) \/ WatchKills(s) \/ WatchTripsReplay(s)

Next ==
    \/ \E s \in Scripts : \/ Start(s) \/ Main(s) \/ Cleanup(s) \/ Fail(s) \/ Crash(s)
                          \/ Watchdog(s) \/ WatchRecords(s) \/ WatchEnds(s)
                          \/ AppStep(s)
    \/ \E r \in Runs : RunStep(r)

Spec == Init /\ [][Next]_vars
\* Every command of a script returns, and a watchdog reaches its limit at last.
\* Nothing is assumed of the application, of its worker or of the user.  The
\* steps of a script and its watchdog are finitely many, so that one fairness
\* for all of them is enough.
FairSpec ==
    Spec /\ WF_vars(\E s \in Scripts : Main(s) \/ Cleanup(s) \/ Watchdog(s))

-----------------------------------------------------------------------------
TypeOK ==
    /\ app \in [Scripts -> AppStates]
    /\ process \in [Scripts -> Runs \cup {None}]
    /\ worker \in [Runs -> WorkerStates]
    /\ handler \in [Runs -> HandlerStates]
    /\ receipt \in [Runs -> Receipts]
    /\ script \in [Scripts -> ScriptStates]
    /\ watch \in [Scripts -> WatchStates]
    /\ lock \in Scripts \cup {None}
    /\ chosen \in [Scripts -> Runs \cup {None}]
    /\ reports \in [Runs -> 0 .. 4]
    /\ escalating \cup published \cup orphans \subseteq Runs

\* terminal.log (run-proof.sh:425) stands in the directory of one run only: a
\* run of the application that this very invocation launched, whose worker
\* ended by itself with status 0, whose receipt says so, and no watchdog had
\* given a reason.  Another invocation's abandoned application, whose run is as
\* fresh, cannot take its place.
TerminalEarned ==
    \A r \in Runs : reports[r] = 4 =>
        /\ chosen[owner[r]] = r /\ ~reason[owner[r]]
        /\ receipt[r] = "pass" /\ worker[r] = "exit0" /\ Verifiable(r)

\* The termination handler queued for a run whose launch was given up reaches a
\* store that may supervise another run: a receipt is written once
\* (the guard of finishRealLLMRun).
ReceiptFinal ==
    [][\A r \in Runs : receipt[r] # "none" => receipt'[r] = receipt[r]]_receipt

\* When an invocation has cleaned up, nothing it launched is alive, but for what
\* no published file named when the application ended and what a leader that
\* ended by itself left in its group (cleanup, terminate_recorded_groups).
NothingLeft ==
    \A s \in Scripts : script[s] = "done" =>
        /\ app[s] \notin Open
        /\ \A r \in RunsOf(s) : Leads(r) \/ helper[r] =>
               r \in orphans \/ worker[r] \in {"exit0", "exit1"}

\* While an application is open, a live leader is the process it supervises: no
\* late handler of an earlier run makes the store forget it, so that Stop, the
\* safety watchdog and Quit reach it (process, finishRealLLMRun).
NoneForgotten ==
    \A r \in Runs : Leads(r) /\ app[owner[r]] \in Open => process[owner[r]] = r

\* Every invocation cleans up in the end, whatever its application, the worker
\* and the user do, unless it is killed: the watchdogs see to it.
ScriptsEnd == <>[](\A s \in Scripts : script[s] = "idle" \/ Dead(s))

\* BUILD_AND_VERIFY.md:270: "A safety stop is a failed proof; it never produces
\* a PASS receipt."
SafetyStopNeverPasses ==
    [][\A r \in Runs : receipt[r] = "none" /\ receipt'[r] = "pass" =>
                        forced[owner[r]] # "safety"]_receipt
=============================================================================
