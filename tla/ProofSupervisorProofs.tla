----------------------- MODULE ProofSupervisorProofs ------------------------
(***************************************************************************)
(* Theorems about the application, its workers and the proof scripts, for  *)
(* any number of invocations and of runs.                                  *)
(***************************************************************************)
EXTENDS ProofSupervisor, TLAPS

(***************************************************************************)
(* The inductive invariant.                                                *)
(***************************************************************************)
\* The values of the variables.
BenchTypes ==
    /\ app \in [Scripts -> AppStates]
    /\ process \in [Scripts -> Runs \cup {None}]
    /\ forced \in [Scripts -> Requests]
    /\ failed \in [Scripts -> BOOLEAN] /\ verified \in [Scripts -> BOOLEAN]
    /\ handler \in [Runs -> HandlerStates]
    /\ owner \in [Runs -> Scripts \cup {None}]
    /\ worker \in [Runs -> WorkerStates]
    /\ helper \in [Runs -> BOOLEAN]
    /\ disk \in [Runs -> SUBSET {"evidence", "result"}]
    /\ receipt \in [Runs -> Receipts]
    /\ escalating \subseteq Runs /\ published \subseteq Runs /\ orphans \subseteq Runs

ScriptTypes ==
    /\ script \in [Scripts -> ScriptStates]
    /\ lock \in Scripts \cup {None}
    /\ reason \in [Scripts -> BOOLEAN]
    /\ watch \in [Scripts -> WatchStates]
    /\ recorded \in [Scripts -> SUBSET Runs]
    /\ since \in [Scripts -> SUBSET Runs]
    /\ filesSince \in [Scripts -> SUBSET Runs]
    /\ chosen \in [Scripts -> Runs \cup {None}]
    /\ reports \in [Runs -> 0 .. 4]

\* A run has an owner as soon as it has a worker, and nothing before.  The handler is
\* queued after the leader's end.
RunInv(r) ==
    /\ worker[r] = "none" => owner[r] = None /\ handler[r] = "none" /\ receipt[r] = "none"
    /\ worker[r] # "none" => owner[r] \in Scripts /\ app[owner[r]] # "off"
    /\ handler[r] = "queued" => ~Leads(r)
    /\ r \in published => worker[r] \notin {"none", "spawned"}

\* The store supervises a run of its own, which has no receipt yet.
StoreInv(a) ==
    /\ process[a] # None => owner[process[a]] = a /\ receipt[process[a]] = "none"
    /\ app[a] = "confirming" => process[a] # None

\* A passing receipt stands beside the status and the files it was given for.
PassEarned ==
    \A r \in Runs : receipt[r] = "pass" => worker[r] = "exit0" /\ Verifiable(r)

\* What is alive in the group of a run whose end is not its leader's own.
Alive(r) == (Leads(r) \/ helper[r]) /\ r \notin orphans /\ worker[r] \notin {"exit0", "exit1"}

\* What an application that has ended left alive is named by a published file.
NamedInv(r) == Alive(r) /\ owner[r] \in Scripts /\ app[owner[r]] \notin Open => r \in published

BenchInv ==
    /\ BenchTypes
    /\ \A r \in Runs : RunInv(r) /\ NamedInv(r)
    /\ \A a \in Scripts : StoreInv(a)
    /\ PassEarned /\ NoneForgotten

\* Where the application of a script is, and the run it has chosen and verified.
ScriptInv(s) ==
    /\ script[s] \in {"idle", "started", "building"} => app[s] = "off"
    /\ script[s] \in {"grouping", "escalating", "done"} => app[s] \notin Open
    /\ script[s] \in {"verifying", "replaying", "closing"} => chosen[s] \in Runs
    /\ script[s] \in {"replaying", "closing"} =>
           owner[chosen[s]] = s /\ receipt[chosen[s]] = "pass"

\* The file of a run is newer than the markers of its script, as long as the script looks.
SeenInv(s) ==
    script[s] \in Active \cup Cleaning =>
        \A r \in RunsOf(s) \cap published : r \in since[s] \cap filesSince[s]

\* What the script is about to kill, and what it has left.
SweptInv(s) ==
    /\ script[s] = "escalating" => \A r \in RunsOf(s) : Alive(r) => r \in recorded[s]
    /\ script[s] = "done" => \A r \in RunsOf(s) : ~Alive(r)

\* The outcome stands once the script cleans up, when no watchdog runs any more.
TerminalInv(r) ==
    reports[r] = 4 =>
        /\ owner[r] \in Scripts
        /\ script[owner[r]] \in Cleaning \cup {"done"} /\ watch[owner[r]] = "off"
        /\ chosen[owner[r]] = r /\ ~reason[owner[r]] /\ receipt[r] = "pass"

IInv ==
    /\ BenchInv /\ ScriptTypes
    /\ \A s \in Scripts : ScriptInv(s) /\ SeenInv(s) /\ SweptInv(s)
    /\ \A r \in Runs : TerminalInv(r)

-----------------------------------------------------------------------------
(***************************************************************************)
(* What every step of an application, of a worker and of a signal keeps.   *)
(***************************************************************************)
\* A receipt stands; a run keeps its owner, and a new one is of an open application; what
\* is dead does not come to life.
RunsKept ==
    \A r \in Runs :
        /\ receipt[r] # "none" => receipt'[r] = receipt[r]
        /\ owner[r] # None => owner'[r] = owner[r]
        /\ owner'[r] # owner[r] => app[owner'[r]] \in Open
        /\ Alive(r)' => Alive(r) \/ owner[r] = None

\* An application that is not open stays as it is.
AppKept(a) == app[a] \notin Open => app'[a] = app[a]

BenchKept == RunsKept /\ \A a \in Scripts : AppKept(a)

\* A signal ends leaders and other members of a group, and starts none.
Calmed ==
    /\ worker' \in [Runs -> WorkerStates] /\ helper' \in [Runs -> BOOLEAN]
    /\ \A r \in Runs :
           /\ worker'[r] # worker[r] => Leads(r) /\ worker'[r] = "killed"
           /\ helper'[r] => helper[r]

\* SIGTERM.
LEMMA TerminatedCalms ==
    ASSUME BenchTypes, NEW S, Terminated(S)
    PROVE  Calmed
<1>1. worker' = [r \in Runs |-> IF r \in S /\ Leads(r) THEN "killed" ELSE worker[r]]
  BY DEF Terminated
<1>2. PICK deaf \in SUBSET {r \in S : helper[r]} :
          helper' = [r \in Runs |-> IF r \in S THEN r \in deaf ELSE helper[r]]
  BY DEF Terminated
<1>3. worker' \in [Runs -> WorkerStates]
  BY <1>1 DEF BenchTypes, WorkerStates
<1>4. helper' \in [Runs -> BOOLEAN]
  <2>1. \A r \in Runs : helper[r] \in BOOLEAN
    BY DEF BenchTypes
  <2>2. ASSUME NEW r \in Runs
        PROVE  (IF r \in S THEN r \in deaf ELSE helper[r]) \in BOOLEAN
    <3>1. (r \in deaf) \in BOOLEAN /\ helper[r] \in BOOLEAN
      BY <2>1
    <3> QED
      BY <3>1, Zenon
  <2> QED
    BY <1>2, <2>2, Zenon
<1>5. \A r \in Runs : worker'[r] # worker[r] => Leads(r) /\ worker'[r] = "killed"
  BY <1>1
<1>6. \A r \in Runs : helper'[r] => helper[r]
  BY <1>2, Zenon
<1> QED
  BY <1>3, <1>4, <1>5, <1>6 DEF Calmed

\* SIGKILL.
LEMMA KilledCalms ==
    ASSUME BenchTypes, NEW S, Killed(S)
    PROVE  Calmed
<1>1. worker' = [r \in Runs |-> IF r \in S /\ worker[r] \in Grouped THEN "killed" ELSE worker[r]]
  BY DEF Killed
<1>2. helper' = [r \in Runs |-> helper[r] /\ r \notin S]
  BY DEF Killed
<1>3. worker' \in [Runs -> WorkerStates]
  BY <1>1 DEF BenchTypes, WorkerStates
<1>4. helper' \in [Runs -> BOOLEAN]
  BY <1>2 DEF BenchTypes
<1>5. \A r \in Runs : worker'[r] # worker[r] => Leads(r) /\ worker'[r] = "killed"
  BY <1>1 DEF Leads, Working
<1>6. \A r \in Runs : helper'[r] => helper[r]
  BY <1>2, Zenon
<1> QED
  BY <1>3, <1>4, <1>5, <1>6 DEF Calmed

\* A signal, and what the store notes of it.
LEMMA CalmedKeeps ==
    ASSUME BenchInv, Calmed, forced' \in [Scripts -> Requests], escalating' \subseteq Runs,
           UNCHANGED <<app, process, failed, verified, handler, owner, published, disk, receipt,
                       orphans>>
    PROVE  BenchInv' /\ BenchKept
<1>1. BenchTypes'
  BY DEF BenchInv, BenchTypes, Calmed
<1>2. \A r \in Runs : /\ worker'[r] = worker[r] \/ (Leads(r) /\ worker'[r] = "killed")
                      /\ Leads(r)' => Leads(r) /\ worker'[r] = worker[r]
                      /\ Alive(r)' => Alive(r)
  BY DEF Calmed, Leads, Working, Grouped, Alive
<1>3. \A r \in Runs : RunInv(r)'
  BY <1>2 DEF BenchInv, RunInv, Leads, Working, Grouped
<1>4. \A r \in Runs : NamedInv(r)'
  BY <1>2 DEF BenchInv, NamedInv
<1>5. \A a \in Scripts : StoreInv(a)'
  BY DEF BenchInv, StoreInv
<1>6. PassEarned'
  BY <1>2 DEF BenchInv, PassEarned, Leads, Working, Grouped, Verifiable, VerifyRealLLMResult,
              VerifyPrimaryEvidence
<1>7. NoneForgotten'
  BY <1>2 DEF BenchInv, NoneForgotten
<1>8. BenchKept
  BY <1>2 DEF BenchKept, AppKept, RunsKept
<1> QED
  BY <1>1, <1>3, <1>4, <1>5, <1>6, <1>7, <1>8 DEF BenchInv

\* An application ends: what it leaves alive and unpublished is an orphan.
LEMMA EndKeeps ==
    ASSUME BenchInv, NEW a \in Scripts, NEW state \in Ended, AppEnds(a, state), app[a] \in Open,
           Calmed, UNCHANGED <<owner, published, disk, receipt>>
    PROVE  BenchInv' /\ BenchKept
<1>1. /\ app' = [app EXCEPT ![a] = state] /\ process' = [process EXCEPT ![a] = None]
      /\ orphans' = orphans \cup {r \in RunsOf(a) : (Leads(r) \/ helper[r]) /\ r \notin published}
      /\ handler' = [r \in Runs |-> IF owner[r] = a THEN "none" ELSE handler[r]]
  BY DEF AppEnds
<1>2. BenchTypes'
  <2>1. app' \in [Scripts -> AppStates] /\ process' \in [Scripts -> Runs \cup {None}]
    BY <1>1 DEF BenchInv, BenchTypes, AppStates
  <2>2. forced' \in [Scripts -> Requests] /\ failed' \in [Scripts -> BOOLEAN]
        /\ verified' \in [Scripts -> BOOLEAN]
    BY DEF AppEnds, BenchInv, BenchTypes, Requests
  <2>3. handler' \in [Runs -> HandlerStates]
    BY <1>1 DEF BenchInv, BenchTypes, HandlerStates
  <2>4. escalating' \subseteq Runs /\ orphans' \subseteq Runs
    BY DEF AppEnds, BenchInv, BenchTypes, RunsOf
  <2> QED
    BY <2>1, <2>2, <2>3, <2>4 DEF BenchInv, BenchTypes, Calmed
<1>3. \A r \in Runs : /\ worker'[r] = worker[r] \/ (Leads(r) /\ worker'[r] = "killed")
                      /\ Leads(r)' => Leads(r) /\ worker'[r] = worker[r]
                      /\ Alive(r)' => Alive(r)
  BY <1>1 DEF Calmed, Leads, Working, Grouped, Alive
<1>4. app'[a] \notin Open /\ app'[a] # "off" /\ process'[a] = None
      /\ \A p \in Scripts : p # a => app'[p] = app[p] /\ process'[p] = process[p]
  BY <1>1 DEF BenchInv, BenchTypes, Open, Ended
<1>5. \A r \in Runs : handler'[r] \in {handler[r], "none"}
  BY <1>1
<1>6. \A r \in Runs : RunInv(r)'
  BY <1>3, <1>4, <1>5 DEF BenchInv, RunInv, Leads, Working, Grouped
<1>7. ASSUME NEW r \in Runs PROVE NamedInv(r)'
  <2>1. CASE owner[r] = a
    BY <1>1, <1>3, <2>1 DEF NamedInv, Alive, RunsOf
  <2>2. CASE owner[r] # a
    BY <1>3, <1>4, <2>2 DEF BenchInv, NamedInv
  <2> QED
    BY <2>1, <2>2
<1>8. \A p \in Scripts : StoreInv(p)'
  BY <1>4 DEF BenchInv, StoreInv, Open
<1>9. PassEarned'
  BY <1>3 DEF BenchInv, PassEarned, Leads, Working, Grouped, Verifiable, VerifyRealLLMResult,
              VerifyPrimaryEvidence
<1>10. NoneForgotten'
  <2>1. ASSUME NEW r \in Runs, Leads(r)', app'[owner'[r]] \in Open PROVE process'[owner'[r]] = r
    <3>1. Leads(r) /\ worker[r] # "none"
      BY <1>3, <2>1 DEF Leads, Working, Grouped
    <3>2. owner[r] \in Scripts /\ owner[r] # a
      BY <1>4, <2>1, <3>1 DEF BenchInv, RunInv
    <3> QED
      BY <1>4, <2>1, <3>1, <3>2 DEF BenchInv, NoneForgotten
  <2> QED
    BY <2>1 DEF NoneForgotten
<1>11. BenchKept
  BY <1>3, <1>4 DEF BenchKept, AppKept, RunsKept
<1> QED
  BY <1>2, <1>6, <1>7, <1>8, <1>9, <1>10, <1>11 DEF BenchInv

-----------------------------------------------------------------------------
(***************************************************************************)
(* The application.                                                        *)
(***************************************************************************)
\* A step of an open application that starts no run: it may end the supervision of a run
\* whose leader is gone and write the receipt that run does not have yet.
LEMMA StoreKeeps ==
    ASSUME BenchInv, BenchTypes', Calmed, NEW a \in Scripts, app[a] \in Open, app'[a] \in Open,
           \A p \in Scripts : p # a => app'[p] = app[p] /\ process'[p] = process[p],
           UNCHANGED <<owner, published, disk, orphans>>,
           \/ process'[a] = process[a]
           \/ process'[a] = None /\ \A r \in Runs : process[a] = r => ~Leads(r)',
           app'[a] = "confirming" => process'[a] # None,
           \A r \in Runs : handler'[r] = handler[r] \/ handler'[r] = "none",
           \A r \in Runs : receipt'[r] # receipt[r] =>
               /\ process[a] = r /\ process'[a] = None
               /\ receipt'[r] = "pass" => worker[r] = "exit0" /\ Verifiable(r)
    PROVE  BenchInv' /\ BenchKept
<1>1. \A r \in Runs : /\ worker'[r] = worker[r] \/ (Leads(r) /\ worker'[r] = "killed")
                      /\ Leads(r)' => Leads(r) /\ worker'[r] = worker[r]
                      /\ Alive(r)' => Alive(r)
  BY DEF Calmed, Leads, Working, Grouped, Alive
<1>2. \A r \in Runs : receipt'[r] # receipt[r] => owner[r] = a /\ receipt[r] = "none"
  BY NoneAssumption DEF BenchInv, StoreInv
<1>3. ASSUME NEW r \in Runs PROVE RunInv(r)'
  <2>1. worker'[r] = "none" => worker[r] = "none" /\ receipt'[r] = receipt[r]
    BY <1>1, <1>2, NoneAssumption DEF BenchInv, RunInv
  <2>2. \A p \in Scripts : app[p] # "off" => app'[p] # "off"
    BY DEF Open
  <2> QED
    BY <1>1, <2>1, <2>2 DEF BenchInv, RunInv, Leads, Working, Grouped
<1>4. \A r \in Runs : NamedInv(r)'
  BY <1>1 DEF BenchInv, NamedInv
<1>5. ASSUME NEW p \in Scripts PROVE StoreInv(p)'
  <2>1. CASE p = a
    BY <1>2, <2>1 DEF BenchInv, BenchTypes, StoreInv
  <2>2. CASE p # a
    <3>1. process[p] # None => owner[process[p]] = p /\ receipt[process[p]] = "none"
          /\ process[p] \in Runs
      BY DEF BenchInv, BenchTypes, StoreInv
    <3> QED
      BY <1>2, <2>2, <3>1 DEF BenchInv, StoreInv
  <2> QED
    BY <2>1, <2>2
<1>6. PassEarned'
  <2>1. ASSUME NEW r \in Runs, receipt'[r] = "pass" PROVE worker[r] = "exit0" /\ Verifiable(r)
    BY <2>1 DEF BenchInv, PassEarned
  <2>2. \A r \in Runs : worker[r] = "exit0" => worker'[r] = "exit0"
    BY <1>1 DEF Leads, Working, Grouped
  <2> QED
    BY <2>1, <2>2 DEF PassEarned, Verifiable, VerifyRealLLMResult, VerifyPrimaryEvidence
<1>7. NoneForgotten'
  <2>1. ASSUME NEW r \in Runs, Leads(r)', app'[owner'[r]] \in Open PROVE process'[owner'[r]] = r
    <3>1. Leads(r) /\ worker[r] # "none"
      BY <1>1, <2>1 DEF Leads, Working, Grouped
    <3>2. owner[r] \in Scripts
      BY <3>1 DEF BenchInv, RunInv
    <3>3. process[owner[r]] = r
      BY <2>1, <3>1, <3>2 DEF BenchInv, NoneForgotten
    <3> QED
      BY <2>1, <3>2, <3>3, NoneAssumption
  <2> QED
    BY <2>1 DEF NoneForgotten
<1>8. BenchKept
  BY <1>1, <1>2 DEF BenchKept, AppKept, RunsKept
<1> QED
  BY <1>3, <1>4, <1>5, <1>6, <1>7, <1>8 DEF BenchInv

\* Nothing happens to the workers.
LEMMA Quiet == BenchTypes /\ UNCHANGED <<worker, helper>> => Calmed
  BY DEF BenchTypes, Calmed

\* A run is refused.
LEMMA RefuseKeeps ==
    ASSUME BenchInv, NEW a \in Scripts, RefuseRun(a)
    PROVE  BenchInv' /\ BenchKept
<1>1. BenchTypes'
  BY DEF BenchInv, BenchTypes, RefuseRun, workVars, AppStates, Open
<1>2. Calmed
  BY Quiet DEF BenchInv, RefuseRun, workVars
<1>3. app'[a] = "polling" /\ app[a] \in Open /\ process' = process
      /\ \A p \in Scripts : p # a => app'[p] = app[p]
  BY DEF RefuseRun, BenchInv, BenchTypes, Open
<1> QED
  BY <1>1, <1>2, <1>3, StoreKeeps DEF RefuseRun, workVars, Open

\* The worker leads a group.
LEMMA ConfirmKeeps ==
    ASSUME BenchInv, NEW a \in Scripts, ConfirmWorkerProcessGroup(a)
    PROVE  BenchInv' /\ BenchKept
<1>1. BenchTypes'
  BY DEF BenchInv, BenchTypes, ConfirmWorkerProcessGroup, workVars, AppStates, Open
<1>2. Calmed
  BY Quiet DEF BenchInv, ConfirmWorkerProcessGroup, workVars
<1>3. app'[a] = "polling" /\ app[a] \in Open /\ process' = process
      /\ \A p \in Scripts : p # a => app'[p] = app[p]
  BY DEF ConfirmWorkerProcessGroup, BenchInv, BenchTypes, Open
<1> QED
  BY <1>1, <1>2, <1>3, StoreKeeps DEF ConfirmWorkerProcessGroup, workVars, Open

\* A launch is given up, and its worker killed.
LEMMA LaunchFailsKeeps ==
    ASSUME BenchInv, NEW a \in Scripts, LaunchFails(a)
    PROVE  BenchInv' /\ BenchKept
<1>1. PICK r \in Runs : r = process[a]
  BY DEF LaunchFails, BenchInv, BenchTypes, StoreInv
<1>2. /\ app[a] = "confirming" /\ app' = [app EXCEPT ![a] = "polling"]
      /\ process' = [process EXCEPT ![a] = None]
      /\ failed' = [failed EXCEPT ![a] = TRUE]
      /\ handler' = [handler EXCEPT ![r] = IF handler[r] = "armed" THEN "none" ELSE handler[r]]
      /\ worker' = [worker EXCEPT ![r] = IF Leads(r) THEN "killed" ELSE worker[r]]
      /\ receipt' = [receipt EXCEPT ![r] = "fail"]
      /\ UNCHANGED <<forced, verified, escalating, owner, helper, published, disk, orphans>>
  BY <1>1 DEF LaunchFails
<1>3. BenchTypes'
  <2>1. worker' \in [Runs -> WorkerStates]
    BY <1>2 DEF BenchInv, BenchTypes, WorkerStates
  <2>2. handler' \in [Runs -> HandlerStates]
    BY <1>2 DEF BenchInv, BenchTypes, HandlerStates
  <2>3. receipt' \in [Runs -> Receipts]
    BY <1>2 DEF BenchInv, BenchTypes, Receipts
  <2>4. app' \in [Scripts -> AppStates] /\ process' \in [Scripts -> Runs \cup {None}]
        /\ failed' \in [Scripts -> BOOLEAN]
    BY <1>2 DEF BenchInv, BenchTypes, AppStates, Open
  <2> QED
    BY <1>2, <2>1, <2>2, <2>3, <2>4 DEF BenchInv, BenchTypes
<1>4. Calmed
  <2>1. \A q \in Runs : worker'[q] # worker[q] => Leads(q) /\ worker'[q] = "killed"
    BY <1>2 DEF BenchInv, BenchTypes
  <2> QED
    BY <1>2, <1>3, <2>1 DEF Calmed, BenchTypes
<1>5. app'[a] = "polling" /\ app[a] \in Open /\ process'[a] = None /\ ~Leads(r)'
      /\ \A p \in Scripts : p # a => app'[p] = app[p] /\ process'[p] = process[p]
  BY <1>2 DEF BenchInv, BenchTypes, Open, Leads, Working, Grouped
<1>6. \A q \in Runs : handler'[q] = handler[q] \/ handler'[q] = "none"
  BY <1>2 DEF BenchInv, BenchTypes
<1>7. \A q \in Runs : receipt'[q] # receipt[q] => q = r /\ receipt'[q] = "fail"
  BY <1>2 DEF BenchInv, BenchTypes
<1> QED
  BY <1>1, <1>2, <1>3, <1>4, <1>5, <1>6, <1>7, StoreKeeps DEF Open

\* The run that is supervised is concluded, or the handler of an earlier one is let pass.
LEMMA FinishKeeps ==
    ASSUME BenchInv, NEW a \in Scripts, NEW r \in Runs, FinishRealLLMRun(a, r)
    PROVE  BenchInv' /\ BenchKept
<1>1. /\ app[a] = "polling" /\ owner[r] = a /\ handler[r] = "queued"
      /\ handler' = [handler EXCEPT ![r] = "none"]
      /\ UNCHANGED <<app, escalating, workVars, orphans>>
  BY DEF FinishRealLLMRun
<1>2. Calmed
  BY <1>1, Quiet DEF BenchInv, workVars
<1>3. ~Leads(r) /\ ~Leads(r)'
  BY <1>1 DEF BenchInv, RunInv, Leads, workVars
<1>4. \A q \in Runs : handler'[q] = handler[q] \/ handler'[q] = "none"
  BY <1>1 DEF BenchInv, BenchTypes
<1>5. handler' \in [Runs -> HandlerStates]
  BY <1>1 DEF BenchInv, BenchTypes, HandlerStates
<1>6. ASSUME process[a] = r, NEW passed \in BOOLEAN, Concluded(a, r, passed),
             passed => worker[r] = "exit0" /\ Verifiable(r)
      PROVE  BenchInv' /\ BenchKept
  <2>1. process' = [process EXCEPT ![a] = None]
        /\ receipt' \in {receipt, [receipt EXCEPT ![r] = IF passed THEN "pass" ELSE "fail"]}
    BY <1>6 DEF Concluded
  <2>2. forced' \in [Scripts -> Requests] /\ verified' \in [Scripts -> BOOLEAN]
    BY <1>6 DEF Concluded, BenchInv, BenchTypes, Requests
  <2>3. failed' \in [Scripts -> BOOLEAN]
    <3>1. failed' = [failed EXCEPT ![a] = failed[a] \/ ~passed]
      BY <1>6 DEF Concluded
    <3>2. (failed[a] \/ ~passed) \in BOOLEAN
      OBVIOUS
    <3> QED
      BY <3>1, <3>2 DEF BenchInv, BenchTypes
  <2>4. receipt' \in [Runs -> Receipts] /\ process' \in [Scripts -> Runs \cup {None}]
    BY <2>1 DEF BenchInv, BenchTypes, Receipts
  <2>5. BenchTypes'
    BY <1>1, <1>5, <2>2, <2>3, <2>4 DEF BenchInv, BenchTypes, workVars
  <2>6. \A q \in Runs : receipt'[q] # receipt[q] => q = r /\ (receipt'[q] = "pass" => passed)
    BY <2>1 DEF BenchInv, BenchTypes
  <2>7. process'[a] = None /\ \A p \in Scripts : p # a => process'[p] = process[p]
    BY <2>1 DEF BenchInv, BenchTypes
  <2> QED
    BY <1>1, <1>2, <1>3, <1>4, <1>6, <2>5, <2>6, <2>7, StoreKeeps DEF workVars, Open
<1>7. CASE process[a] = r /\ worker[r] = "exit0" /\ Verifiable(r) /\ Concluded(a, r, TRUE)
  BY <1>6, <1>7
<1>8. CASE process[a] = r /\ Concluded(a, r, FALSE)
  BY <1>6, <1>8
<1>9. CASE process[a] # r /\ UNCHANGED <<process, forced, failed, verified, receipt>>
  <2>1. BenchTypes'
    BY <1>1, <1>5, <1>9 DEF BenchInv, BenchTypes, workVars
  <2> QED
    BY <1>1, <1>2, <1>4, <1>9, <2>1, StoreKeeps DEF workVars, Open
<1> QED
  BY <1>7, <1>8, <1>9 DEF FinishRealLLMRun

\* A run starts.  The application supervises none, so that none of its runs has a leader.
LEMMA RunKeeps ==
    ASSUME BenchInv, NEW a \in Scripts, NEW r \in Runs, RunRealLLM(a, r)
    PROVE  BenchInv' /\ BenchKept
<1>1. /\ app[a] \in Open /\ process[a] = None /\ worker[r] = "none"
      /\ app' = [app EXCEPT ![a] = "confirming"]
      /\ process' = [process EXCEPT ![a] = r]
      /\ handler' = [handler EXCEPT ![r] = "armed"]
      /\ owner' = [owner EXCEPT ![r] = a]
      /\ worker' = [worker EXCEPT ![r] = "spawned"]
      /\ UNCHANGED <<escalating, helper, published, disk, receipt, orphans>>
  BY DEF RunRealLLM, Unused, Open
<1>2. BenchTypes'
  <2>1. /\ app' \in [Scripts -> AppStates] /\ process' \in [Scripts -> Runs \cup {None}]
        /\ handler' \in [Runs -> HandlerStates] /\ owner' \in [Runs -> Scripts \cup {None}]
        /\ worker' \in [Runs -> WorkerStates]
    BY <1>1 DEF BenchInv, BenchTypes, AppStates, Open, HandlerStates, WorkerStates, Working
  <2>2. forced' \in [Scripts -> Requests] /\ failed' \in [Scripts -> BOOLEAN]
        /\ verified' \in [Scripts -> BOOLEAN]
    BY DEF RunRealLLM, BenchInv, BenchTypes, Requests
  <2> QED
    BY <1>1, <2>1, <2>2 DEF BenchInv, BenchTypes
<1>3. owner[r] = None /\ handler[r] = "none" /\ receipt[r] = "none" /\ r \notin published
  BY <1>1 DEF BenchInv, RunInv
<1>4. /\ app'[a] = "confirming" /\ process'[a] = r /\ owner'[r] = a /\ worker'[r] = "spawned"
      /\ handler'[r] = "armed"
      /\ \A p \in Scripts : p # a => app'[p] = app[p] /\ process'[p] = process[p]
      /\ \A q \in Runs : q # r => /\ handler'[q] = handler[q] /\ owner'[q] = owner[q]
                                  /\ worker'[q] = worker[q]
  BY <1>1 DEF BenchInv, BenchTypes
<1>5. ASSUME NEW q \in Runs PROVE RunInv(q)' /\ NamedInv(q)'
  <2>1. CASE q = r
    BY <1>1, <1>3, <1>4, <2>1 DEF RunInv, NamedInv, Open
  <2>2. CASE q # r
    <3>1. owner[q] = None \/ owner[q] \in Scripts
      BY DEF BenchInv, BenchTypes
    <3>2. owner[q] \in Scripts => (app'[owner[q]] # "off" <=> app[owner[q]] # "off")
                                  /\ (app'[owner[q]] \in Open <=> app[owner[q]] \in Open)
      BY <1>1, <1>4 DEF Open
    <3>3. RunInv(q)'
      BY <1>1, <1>4, <2>2, <3>2 DEF BenchInv, RunInv, Leads
    <3>4. NamedInv(q)'
      BY <1>1, <1>4, <2>2, <3>2 DEF BenchInv, NamedInv, Alive, Leads
    <3> QED
      BY <3>3, <3>4
  <2> QED
    BY <2>1, <2>2
<1>6. ASSUME NEW p \in Scripts PROVE StoreInv(p)'
  <2>1. CASE p = a
    BY <1>1, <1>3, <1>4, <2>1, NoneAssumption DEF StoreInv
  <2>2. CASE p # a
    <3>1. process[p] # None => process[p] \in Runs /\ process[p] # r
      BY <1>3, NoneAssumption DEF BenchInv, BenchTypes, StoreInv
    <3> QED
      BY <1>1, <1>4, <2>2, <3>1 DEF BenchInv, StoreInv
  <2> QED
    BY <2>1, <2>2
<1>7. PassEarned'
  BY <1>1, <1>3, <1>4 DEF BenchInv, PassEarned, Verifiable, VerifyRealLLMResult,
                          VerifyPrimaryEvidence
<1>8. NoneForgotten'
  <2>1. ASSUME NEW q \in Runs, Leads(q)', app'[owner'[q]] \in Open PROVE process'[owner'[q]] = q
    <3>1. CASE q = r
      BY <1>4, <3>1
    <3>2. CASE q # r
      <4>1. Leads(q) /\ owner'[q] = owner[q] /\ worker[q] # "none"
        BY <1>4, <2>1, <3>2 DEF Leads, Working, Grouped
      <4>2. owner[q] \in Scripts
        BY <4>1 DEF BenchInv, RunInv
      <4>3. app[owner[q]] \in Open
        BY <1>1, <1>4, <2>1, <4>1, <4>2
      <4>4. process[owner[q]] = q
        BY <4>1, <4>3 DEF BenchInv, NoneForgotten
      <4> QED
        BY <1>1, <1>4, <4>1, <4>2, <4>4, NoneAssumption
    <3> QED
      BY <3>1, <3>2
  <2> QED
    BY <2>1 DEF NoneForgotten
<1>9. BenchKept
  <2>1. \A p \in Scripts : app[p] \notin Open => app'[p] = app[p]
    BY <1>1, <1>4
  <2>2. \A q \in Runs : /\ receipt'[q] = receipt[q]
                        /\ owner[q] # None => owner'[q] = owner[q]
                        /\ owner'[q] # owner[q] => app[owner'[q]] \in Open
    BY <1>1, <1>3, <1>4
  <2>3. \A q \in Runs : Alive(q)' => Alive(q) \/ owner[q] = None
    BY <1>1, <1>3, <1>4 DEF Alive, Leads
  <2> QED
    BY <2>1, <2>2, <2>3 DEF BenchKept, AppKept, RunsKept
<1> QED
  BY <1>2, <1>5, <1>6, <1>7, <1>8, <1>9 DEF BenchInv

\* Stop, and the safety watchdog.
LEMMA StopKeeps ==
    ASSUME BenchInv, NEW a \in Scripts, Stop(a) \/ AbortRealLLMRun(a)
    PROVE  BenchInv' /\ BenchKept
<1>1. PICK r \in Runs : r = process[a] /\ TerminateRun(r)
  BY DEF Stop, AbortRealLLMRun, BenchInv, BenchTypes
<1>2. Calmed
  BY <1>1, TerminatedCalms DEF TerminateRun, BenchInv
<1>3. escalating' \subseteq Runs
  BY <1>1 DEF TerminateRun, BenchInv, BenchTypes
<1>4. forced' \in [Scripts -> Requests]
  BY DEF Stop, AbortRealLLMRun, BenchInv, BenchTypes, Requests
<1> QED
  BY <1>2, <1>3, <1>4, CalmedKeeps DEF Stop, AbortRealLLMRun

\* The delayed SIGKILL.
LEMMA ForceKillKeeps ==
    ASSUME BenchInv, NEW r \in Runs, ForceKill(r)
    PROVE  BenchInv' /\ BenchKept
<1>1. Calmed
  BY KilledCalms DEF ForceKill, BenchInv
<1>2. forced' \in [Scripts -> Requests] /\ escalating' \subseteq Runs
  BY DEF ForceKill, BenchInv, BenchTypes
<1> QED
  BY <1>1, <1>2, CalmedKeeps DEF ForceKill

\* The three ends of an application.
LEMMA AppEndKeeps ==
    ASSUME BenchInv, NEW a \in Scripts, Quit(a) \/ ExitAutomated(a) \/ GiveUp(a)
    PROVE  BenchInv' /\ BenchKept
<1>1. app[a] \in Open /\ (AppEnds(a, "exit0") \/ AppEnds(a, "exit1"))
  BY DEF Quit, ExitAutomated, GiveUp, Open
<1>2. Calmed
  BY TerminatedCalms, KilledCalms, Quiet DEF Quit, ExitAutomated, GiveUp, BenchInv, workVars
<1>3. UNCHANGED <<owner, published, disk, receipt>>
  BY DEF Quit, ExitAutomated, GiveUp, workVars
<1> QED
  BY <1>1, <1>2, <1>3, EndKeeps DEF Ended

\* Foundation sees the end of a worker.
LEMMA HandlerKeeps ==
    ASSUME BenchInv, NEW r \in Runs, TerminationHandler(r)
    PROVE  BenchInv' /\ BenchKept
<1>1. /\ handler[r] = "armed" /\ ~Leads(r) /\ handler' = [handler EXCEPT ![r] = "queued"]
      /\ UNCHANGED <<app, process, forced, failed, verified, escalating, owner, worker, helper,
                     published, disk, receipt, orphans>>
  BY DEF TerminationHandler, workVars
<1>2. BenchTypes'
  BY <1>1 DEF BenchInv, BenchTypes, HandlerStates
<1>3. \A q \in Runs : q # r => handler'[q] = handler[q]
  BY <1>1 DEF BenchInv, BenchTypes
<1>4. \A q \in Runs : RunInv(q)'
  BY <1>1, <1>3 DEF BenchInv, RunInv, Leads
<1>5. (\A q \in Runs : NamedInv(q)') /\ BenchKept
  BY <1>1 DEF BenchInv, NamedInv, Alive, Leads, BenchKept, AppKept, RunsKept
<1>6. (\A a \in Scripts : StoreInv(a)') /\ PassEarned' /\ NoneForgotten'
  BY <1>1 DEF BenchInv, StoreInv, PassEarned, NoneForgotten, Leads, Verifiable,
              VerifyRealLLMResult, VerifyPrimaryEvidence
<1> QED
  BY <1>2, <1>4, <1>5, <1>6 DEF BenchInv

-----------------------------------------------------------------------------
(***************************************************************************)
(* The workers.                                                            *)
(***************************************************************************)
\* A worker that leads goes on or ends, and only its own files change.
LEMMA WorkerKeeps ==
    ASSUME BenchInv, BenchTypes', NEW r \in Runs, Leads(r),
           worker'[r] \in Working \cup {"exit0", "exit1"}, worker'[r] # "spawned",
           \A q \in Runs : q # r => worker'[q] = worker[q] /\ helper'[q] = helper[q],
           \A q \in Runs : disk[q] \subseteq disk'[q],
           \A q \in Runs : q # r => (q \in published' <=> q \in published),
           worker'[r] \in {"exit0", "exit1"} \/ (r \in published => r \in published'),
           UNCHANGED <<appVars, owner, receipt, orphans>>
    PROVE  BenchInv' /\ BenchKept
<1>1. worker[r] # "none" /\ worker'[r] # "none" /\ worker[r] \notin {"exit0", "exit1"}
  BY DEF Leads, Working, Grouped
<1>2. \A q \in Runs : /\ Leads(q)' => Leads(q)
                      /\ worker[q] = "none" <=> worker'[q] = "none"
                      /\ worker[q] = "exit0" => worker'[q] = "exit0"
                      /\ Alive(q)' => Alive(q)
  BY <1>1 DEF Leads, Alive
<1>3. \A q \in Runs : RunInv(q)'
  BY <1>1, <1>2 DEF BenchInv, RunInv, appVars
<1>4. ASSUME NEW q \in Runs PROVE NamedInv(q)'
  <2>1. Alive(q)' => (q \in published => q \in published')
    BY DEF Alive
  <2> QED
    BY <1>2, <2>1 DEF BenchInv, NamedInv, appVars
<1>5. \A a \in Scripts : StoreInv(a)'
  BY DEF BenchInv, StoreInv, appVars
<1>6. PassEarned'
  BY <1>2 DEF BenchInv, PassEarned, Verifiable, VerifyRealLLMResult, VerifyPrimaryEvidence
<1>7. NoneForgotten'
  BY <1>2 DEF BenchInv, NoneForgotten, appVars
<1>8. BenchKept
  BY <1>2 DEF BenchKept, AppKept, RunsKept, appVars
<1> QED
  BY <1>3, <1>4, <1>5, <1>6, <1>7, <1>8 DEF BenchInv

\* The steps of a worker.
LEMMA WorkersKeep ==
    ASSUME BenchInv, NEW r \in Runs,
           \/ EstablishGroup(r) \/ RegisterGroup(r) \/ WriteResult(r)
           \/ WorkerReturns(r) \/ WorkerRaises(r)
    PROVE  BenchInv' /\ BenchKept
<1>1. ASSUME NEW from, NEW to \in Working \cup {"exit0", "exit1"}, from \subseteq Working,
             to # "spawned", WorkerStep(r, from, to)
      PROVE  /\ Leads(r) /\ worker'[r] = to /\ worker' \in [Runs -> WorkerStates]
             /\ \A q \in Runs : q # r => worker'[q] = worker[q]
             /\ UNCHANGED <<appVars, owner, receipt, orphans>>
  BY <1>1 DEF WorkerStep, Leads, BenchInv, BenchTypes, WorkerStates
<1>2. {"spawned", "grouped", "registered", "written"} = Working
  BY DEF Working, Grouped
<1> DEFINE Went(to) == /\ Leads(r) /\ worker'[r] = to /\ worker' \in [Runs -> WorkerStates]
                       /\ \A q \in Runs : q # r => worker'[q] = worker[q]
                       /\ UNCHANGED <<appVars, owner, receipt, orphans>>
<1>3. CASE EstablishGroup(r)
  <2>1. Went("grouped") /\ UNCHANGED <<helper, published, disk>>
    BY <1>1, <1>2, <1>3 DEF EstablishGroup
  <2>2. BenchTypes'
    BY <2>1 DEF BenchInv, BenchTypes, appVars
  <2> QED
    BY <1>2, <2>1, <2>2, WorkerKeeps
<1>4. CASE RegisterGroup(r)
  <2>1. Went("registered") /\ UNCHANGED <<helper, disk>> /\ published' = published \cup {r}
    BY <1>1, <1>2, <1>4 DEF RegisterGroup
  <2>2. BenchTypes'
    BY <2>1 DEF BenchInv, BenchTypes, appVars
  <2> QED
    BY <1>2, <2>1, <2>2, WorkerKeeps
<1>5. CASE WriteResult(r)
  <2>1. Went("written") /\ published' = published
        /\ disk' = [disk EXCEPT ![r] = {"evidence", "result"}]
        /\ helper' \in {helper, [helper EXCEPT ![r] = TRUE]}
    BY <1>1, <1>2, <1>5 DEF WriteResult
  <2>2. helper' \in [Runs -> BOOLEAN] /\ \A q \in Runs : q # r => helper'[q] = helper[q]
    BY <2>1 DEF BenchInv, BenchTypes
  <2>3. disk' \in [Runs -> SUBSET {"evidence", "result"}]
        /\ \A q \in Runs : disk[q] \subseteq disk'[q]
    BY <2>1 DEF BenchInv, BenchTypes
  <2>4. BenchTypes'
    BY <2>1, <2>2, <2>3 DEF BenchInv, BenchTypes, appVars
  <2> QED
    BY <1>2, <2>1, <2>2, <2>3, <2>4, WorkerKeeps
<1>6. CASE WorkerReturns(r)
  <2>1. Went("exit0") /\ UNCHANGED <<helper, disk>> /\ published' = published \ {r}
    BY <1>1, <1>2, <1>6 DEF WorkerReturns
  <2>2. BenchTypes'
    BY <2>1 DEF BenchInv, BenchTypes, appVars
  <2> QED
    BY <2>1, <2>2, WorkerKeeps
<1>7. CASE WorkerRaises(r)
  <2>1. Went("exit1") /\ UNCHANGED <<helper, disk>> /\ published' = published \ {r}
    BY <1>1, <1>2, <1>7 DEF WorkerRaises
  <2>2. BenchTypes'
    BY <2>1 DEF BenchInv, BenchTypes, appVars
  <2> QED
    BY <2>1, <2>2, WorkerKeeps
<1> QED
  BY <1>3, <1>4, <1>5, <1>6, <1>7

\* Every step of an application.
LEMMA AppStepKeeps ==
    ASSUME BenchInv, NEW a \in Scripts, AppStep(a)
    PROVE  BenchInv' /\ BenchKept
  BY RefuseKeeps, ConfirmKeeps, LaunchFailsKeeps, StopKeeps, AppEndKeeps, RunKeeps, FinishKeeps
     DEF AppStep

\* Every step of a run.
LEMMA RunStepKeeps ==
    ASSUME BenchInv, NEW r \in Runs, RunStep(r)
    PROVE  BenchInv' /\ BenchKept
  BY HandlerKeeps, ForceKillKeeps, WorkersKeep DEF RunStep

-----------------------------------------------------------------------------
(***************************************************************************)
(* The scripts.                                                            *)
(***************************************************************************)
\* A step of a script that leaves the application and the workers alone.
LEMMA BenchStays ==
    ASSUME BenchInv, UNCHANGED benchVars
    PROVE  BenchInv' /\ BenchKept
<1>1. UNCHANGED <<app, process, forced, failed, verified, handler, escalating, owner, worker,
                  helper, published, disk, receipt, orphans>>
  BY DEF benchVars, appVars, workVars
<1>2. Calmed
  BY <1>1, Quiet DEF BenchInv
<1> QED
  BY <1>1, <1>2, CalmedKeeps DEF BenchInv, BenchTypes

\* What is known of a script that takes no step itself.
LEMMA ScriptFrame ==
    ASSUME IInv, RunsKept, NEW p \in Scripts, AppKept(p),
           script'[p] = script[p], chosen'[p] = chosen[p], recorded[p] \subseteq recorded'[p],
           since[p] \subseteq since'[p], filesSince[p] \subseteq filesSince'[p],
           script[p] \in Active \cup Cleaning =>
               published' \ published \subseteq since'[p] \cap filesSince'[p],
           BenchInv'
    PROVE  ScriptInv(p)' /\ SeenInv(p)' /\ SweptInv(p)'
<1>1. ScriptInv(p)'
  <2>1. script[p] \in {"idle", "started", "building"} => app'[p] = "off"
    BY DEF IInv, ScriptInv, AppKept, Open
  <2>2. script[p] \in {"grouping", "escalating", "done"} => app'[p] \notin Open
    BY DEF IInv, ScriptInv, AppKept
  <2>3. script[p] \in {"replaying", "closing"} =>
            owner'[chosen[p]] = p /\ receipt'[chosen[p]] = "pass"
    BY NoneAssumption DEF IInv, ScriptInv, RunsKept
  <2> QED
    BY <2>1, <2>2, <2>3 DEF IInv, ScriptInv
<1>2. SeenInv(p)'
  <2>1. \A r \in published : owner'[r] = owner[r]
    BY NoneAssumption DEF IInv, BenchInv, BenchTypes, RunInv, RunsKept
  <2> QED
    BY <2>1 DEF IInv, SeenInv, RunsOf
<1>3. SweptInv(p)'
  <2>1. ASSUME NEW r \in RunsOf(p)', Alive(r)', script[p] \in {"escalating", "done"}
        PROVE  r \in RunsOf(p) /\ Alive(r)
    <3>1. r \in Runs /\ owner'[r] = p /\ app[p] \notin Open
      BY <2>1 DEF RunsOf, IInv, ScriptInv
    <3>2. owner[r] = p
      BY <3>1 DEF RunsKept
    <3> QED
      BY <2>1, <3>1, <3>2, NoneAssumption DEF RunsOf, RunsKept
  <2> QED
    BY <2>1 DEF IInv, SweptInv
<1> QED
  BY <1>1, <1>2, <1>3

\* What is known of the outcome of a run, when no outcome is written.
LEMMA TerminalKept ==
    ASSUME IInv, RunsKept, NEW s \in Scripts,
           \A p \in Scripts : p # s => /\ script'[p] = script[p] /\ watch'[p] = watch[p]
                                       /\ reason'[p] = reason[p] /\ chosen'[p] = chosen[p],
           script[s] \in Cleaning \cup {"done"} =>
               /\ script'[s] \in Cleaning \cup {"done"} /\ chosen'[s] = chosen[s]
               /\ watch[s] = "off" => watch'[s] = "off" /\ reason'[s] \in {reason[s], FALSE},
           NEW r \in Runs, reports'[r] = 4 => reports[r] = 4
    PROVE  TerminalInv(r)'
<1> SUFFICES ASSUME reports[r] = 4, reports'[r] = 4 PROVE TerminalInv(r)'
  BY DEF TerminalInv
<1>1. /\ owner[r] \in Scripts
      /\ script[owner[r]] \in Cleaning \cup {"done"} /\ watch[owner[r]] = "off"
      /\ chosen[owner[r]] = r /\ ~reason[owner[r]] /\ receipt[r] = "pass"
  BY DEF IInv, TerminalInv
<1>2. owner'[r] = owner[r] /\ receipt'[r] = "pass"
  BY <1>1, NoneAssumption DEF RunsKept
<1>3. /\ script'[owner[r]] \in Cleaning \cup {"done"} /\ watch'[owner[r]] = "off"
      /\ chosen'[owner[r]] = r /\ ~reason'[owner[r]]
  BY <1>1
<1> QED
  BY <1>1, <1>2, <1>3 DEF TerminalInv

\* A script that goes on looks at what it has looked at before.
LEMMA LookingKept ==
    ASSUME IInv, BenchInv', RunsKept, NEW s \in Scripts, script[s] \in Active \cup Cleaning,
           script'[s] \notin {"escalating", "done"},
           since'[s] = since[s], filesSince'[s] = filesSince[s], published' = published
    PROVE  SeenInv(s)' /\ SweptInv(s)'
<1>1. \A r \in published : owner'[r] = owner[r]
  BY NoneAssumption DEF IInv, BenchInv, BenchTypes, RunInv, RunsKept
<1> QED
  BY <1>1 DEF IInv, SeenInv, SweptInv, RunsOf

\* A step of one script, put together.
LEMMA StepOfOne ==
    ASSUME IInv, BenchInv', ScriptTypes', RunsKept, NEW s \in Scripts, published' = published,
           \A p \in Scripts : p # s => /\ script'[p] = script[p] /\ chosen'[p] = chosen[p]
                                       /\ recorded'[p] = recorded[p] /\ since'[p] = since[p]
                                       /\ filesSince'[p] = filesSince[p] /\ AppKept(p),
           ScriptInv(s)', SeenInv(s)', SweptInv(s)', \A r \in Runs : TerminalInv(r)'
    PROVE  IInv'
<1>1. ASSUME NEW p \in Scripts, p # s PROVE ScriptInv(p)' /\ SeenInv(p)' /\ SweptInv(p)'
  BY <1>1, ScriptFrame
<1> QED
  BY <1>1 DEF IInv

\* The script has no run before it has launched its application.
LEMMA NoRunYet ==
    ASSUME IInv, NEW s \in Scripts, script[s] \in {"idle", "started", "building"}
    PROVE  app[s] = "off" /\ \A r \in Runs : owner[r] # s
<1>1. app[s] = "off"
  BY DEF IInv, ScriptInv
<1>2. ASSUME NEW r \in Runs PROVE owner[r] # s
  BY <1>1, NoneAssumption DEF IInv, BenchInv, RunInv
<1> QED
  BY <1>1, <1>2

-----------------------------------------------------------------------------
(***************************************************************************)
(* The steps of applications and workers, which the markers see.           *)
(***************************************************************************)
\* A file that is published while a script looks is newer than both of its markers.
LEMMA TouchSees ==
    ASSUME IInv, Touch, NEW p \in Scripts
    PROVE  /\ since[p] \subseteq since'[p] /\ filesSince[p] \subseteq filesSince'[p]
           /\ script[p] \in Active \cup Cleaning /\ published' \subseteq Runs =>
                  published' \ published \subseteq since'[p] \cap filesSince'[p]
           /\ since' \in [Scripts -> SUBSET Runs]
           /\ published' \subseteq Runs => filesSince' \in [Scripts -> SUBSET Runs]
<1>1. since' = [s \in Scripts |->
          IF Watching(s) THEN since[s] \cup {r \in Runs : Entries(r)' # Entries(r)} ELSE since[s]]
  BY DEF Touch
<1>2. filesSince' = [s \in Scripts |->
          IF Watching(s) THEN filesSince[s] \cup (published' \ published) ELSE filesSince[s]]
  BY DEF Touch
<1>3. \A r \in Runs : r \in published' \ published => Entries(r)' # Entries(r)
  BY DEF Entries
<1>4. since' \in [Scripts -> SUBSET Runs]
  BY <1>1 DEF IInv, ScriptTypes
<1>5. published' \subseteq Runs => filesSince' \in [Scripts -> SUBSET Runs]
  BY <1>2 DEF IInv, ScriptTypes
<1>6. script[p] \in Active \cup Cleaning => Watching(p)
  BY DEF Watching
<1> QED
  BY <1>1, <1>2, <1>3, <1>4, <1>5, <1>6

\* Nothing of a script changes.
LEMMA BenchSteps ==
    ASSUME IInv, BenchInv', BenchKept, Touch,
           UNCHANGED <<script, lock, reason, watch, recorded, chosen, reports>>
    PROVE  IInv'
<1>1. published' \subseteq Runs
  BY DEF BenchInv, BenchTypes
<1>2. ASSUME NEW p \in Scripts PROVE ScriptInv(p)' /\ SeenInv(p)' /\ SweptInv(p)'
  BY <1>1, TouchSees, ScriptFrame DEF BenchKept
<1>3. ASSUME NEW r \in Runs PROVE TerminalInv(r)'
  <2>1. CASE Scripts = {}
    BY <2>1 DEF IInv, TerminalInv
  <2>2. CASE Scripts # {}
    <3>1. PICK s \in Scripts : TRUE
      BY <2>2
    <3> QED
      BY <3>1, TerminalKept DEF BenchKept
  <2> QED
    BY <2>1, <2>2
<1>4. ScriptTypes'
  <2>1. since' \in [Scripts -> SUBSET Runs]
    BY DEF Touch, IInv, ScriptTypes
  <2>2. filesSince' \in [Scripts -> SUBSET Runs]
    BY <1>1 DEF Touch, IInv, ScriptTypes
  <2> QED
    BY <2>1, <2>2 DEF IInv, ScriptTypes
<1> QED
  BY <1>2, <1>3, <1>4 DEF IInv

-----------------------------------------------------------------------------
(***************************************************************************)
(* The steps of the scripts that send no signal.                           *)
(***************************************************************************)
\* Before the launch there is nothing to look at.
LEMMA EarlyKeeps ==
    ASSUME IInv, NEW s \in Scripts, Start(s) \/ AcquireLock(s) \/ RefuseLock(s)
    PROVE  IInv'
<1>1. BenchInv' /\ BenchKept
  BY BenchStays DEF Start, AcquireLock, RefuseLock, IInv
<1>2. /\ script[s] \in {"idle", "started"} /\ script'[s] \in {"started", "building", "sweeping"}
      /\ UNCHANGED <<benchVars, reason, watch, recorded, since, filesSince, chosen, reports>>
      /\ \A p \in Scripts : p # s => script'[p] = script[p]
  BY DEF Start, AcquireLock, RefuseLock, Goto, IInv, ScriptTypes
<1>3. ScriptTypes'
  <2>1. script' \in [Scripts -> ScriptStates]
    BY DEF Start, AcquireLock, RefuseLock, Goto, IInv, ScriptTypes, ScriptStates, Active, Cleaning
  <2>2. lock' \in Scripts \cup {None}
    BY DEF Start, AcquireLock, RefuseLock, IInv, ScriptTypes
  <2> QED
    BY <1>2, <2>1, <2>2 DEF IInv, ScriptTypes
<1>4. /\ app[s] = "off" /\ \A r \in Runs : owner[r] # s
      /\ app' = app /\ owner' = owner /\ published' = published
  BY <1>2, NoRunYet DEF benchVars, appVars, workVars
<1>5. ScriptInv(s)' /\ SeenInv(s)' /\ SweptInv(s)'
  BY <1>2, <1>4 DEF ScriptInv, SeenInv, SweptInv, RunsOf
<1>6. \A r \in Runs : TerminalInv(r)'
  BY <1>1, <1>2, TerminalKept DEF BenchKept, Cleaning
<1> QED
  BY <1>1, <1>2, <1>3, <1>4, <1>5, <1>6, StepOfOne DEF BenchKept

\* The launch.
LEMMA LaunchKeeps ==
    ASSUME IInv, NEW s \in Scripts, Launch(s)
    PROVE  IInv'
<1>1. /\ script[s] = "building" /\ script' = [script EXCEPT ![s] = "waiting"]
      /\ app' = [app EXCEPT ![s] = "starting"]
      /\ watch' = [watch EXCEPT ![s] = "looping"]
      /\ since' = [since EXCEPT ![s] = {}] /\ filesSince' = [filesSince EXCEPT ![s] = {}]
      /\ UNCHANGED <<process, forced, failed, verified, handler, escalating, owner, worker,
                     helper, published, disk, receipt, orphans, lock, reason, recorded, chosen,
                     reports>>
  BY DEF Launch, Goto, workVars
<1>2. app[s] = "off" /\ \A r \in Runs : owner[r] # s
  BY <1>1, NoRunYet
<1>3. app'[s] = "starting" /\ \A p \in Scripts : p # s => app'[p] = app[p]
  BY <1>1 DEF IInv, BenchInv, BenchTypes
<1>4. BenchInv'
  <2>1. BenchTypes'
    BY <1>1 DEF IInv, BenchInv, BenchTypes, AppStates, Open
  <2>2. \A r \in Runs : RunInv(r)' /\ NamedInv(r)'
    BY <1>1, <1>2, <1>3 DEF IInv, BenchInv, RunInv, NamedInv, Leads, Alive
  <2>3. \A a \in Scripts : StoreInv(a)'
    BY <1>1, <1>3 DEF IInv, BenchInv, StoreInv
  <2>4. PassEarned'
    BY <1>1 DEF IInv, BenchInv, PassEarned, Verifiable, VerifyRealLLMResult, VerifyPrimaryEvidence
  <2>5. NoneForgotten'
    <3>1. ASSUME NEW r \in Runs, Leads(r)', app'[owner'[r]] \in Open PROVE process'[owner'[r]] = r
      <4>1. Leads(r) /\ worker[r] # "none"
        BY <1>1, <3>1 DEF Leads, Working, Grouped
      <4>2. owner[r] \in Scripts /\ owner[r] # s
        BY <1>2, <4>1 DEF IInv, BenchInv, RunInv
      <4> QED
        BY <1>1, <1>3, <3>1, <4>1, <4>2 DEF IInv, BenchInv, NoneForgotten
    <3> QED
      BY <3>1 DEF NoneForgotten
  <2> QED
    BY <2>1, <2>2, <2>3, <2>4, <2>5 DEF BenchInv
<1>5. RunsKept
  BY <1>1 DEF RunsKept, Alive, Leads
<1>6. ScriptTypes'
  BY <1>1 DEF IInv, ScriptTypes, ScriptStates, Active, WatchStates
<1>7. /\ script'[s] = "waiting"
      /\ \A p \in Scripts : p # s => /\ script'[p] = script[p] /\ since'[p] = since[p]
                                     /\ filesSince'[p] = filesSince[p] /\ watch'[p] = watch[p]
  BY <1>1 DEF IInv, ScriptTypes
<1>8. ScriptInv(s)' /\ SeenInv(s)' /\ SweptInv(s)'
  BY <1>1, <1>2, <1>7 DEF ScriptInv, SeenInv, SweptInv, RunsOf
<1>9. \A r \in Runs : TerminalInv(r)'
  BY <1>1, <1>5, <1>7, TerminalKept DEF Cleaning
<1>10. \A p \in Scripts : p # s => AppKept(p)
  BY <1>3 DEF AppKept
<1> QED
  BY <1>1, <1>4, <1>5, <1>6, <1>7, <1>8, <1>9, <1>10, StepOfOne

\* A script that is at work goes on, fails or is killed, and writes no outcome.
LEMMA WorkKeeps ==
    ASSUME IInv, NEW s \in Scripts, script[s] \in Active,
           script'[s] \in {"verifying", "replaying", "closing", "sweeping", "crashed", script[s]},
           UNCHANGED <<benchVars, since, filesSince, recorded>>, ScriptTypes',
           \A p \in Scripts : p # s => /\ script'[p] = script[p] /\ watch'[p] = watch[p]
                                       /\ reason'[p] = reason[p] /\ chosen'[p] = chosen[p],
           \A r \in Runs : reports'[r] = 4 => reports[r] = 4,
           ScriptInv(s)'
    PROVE  IInv'
<1>1. BenchInv' /\ BenchKept /\ published' = published
  BY BenchStays DEF IInv, benchVars, workVars
<1>2. script'[s] \notin {"escalating", "done"}
  BY DEF Active
<1>3. SeenInv(s)' /\ SweptInv(s)'
  BY <1>1, <1>2, LookingKept DEF BenchKept
<1>4. \A r \in Runs : TerminalInv(r)'
  <2>1. script[s] \notin Cleaning \cup {"done"}
    BY DEF Active, Cleaning
  <2> QED
    BY <1>1, <2>1, TerminalKept DEF BenchKept
<1> QED
  BY <1>1, <1>3, <1>4, StepOfOne DEF BenchKept

\* The application has ended, and a run is chosen or none is good.
LEMMA JudgeKeeps ==
    ASSUME IInv, NEW s \in Scripts, JudgeApplication(s)
    PROVE  IInv'
<1>1. /\ script[s] = "waiting" /\ watch' = [watch EXCEPT ![s] = "off"]
      /\ UNCHANGED <<benchVars, lock, reason, recorded, since, filesSince>>
  BY DEF JudgeApplication
<1>2. \A p \in Scripts : p # s => watch'[p] = watch[p]
  BY <1>1 DEF IInv, ScriptTypes
<1>3. CASE script' = [script EXCEPT ![s] = "sweeping"] /\ UNCHANGED <<chosen, reports>>
  <2>1. ScriptTypes'
    BY <1>1, <1>3 DEF IInv, ScriptTypes, ScriptStates, Cleaning, WatchStates
  <2>2. script'[s] = "sweeping" /\ \A p \in Scripts : p # s => script'[p] = script[p]
    BY <1>3 DEF IInv, ScriptTypes
  <2> QED
    BY <1>1, <1>2, <1>3, <2>1, <2>2, WorkKeeps DEF Active, ScriptInv
<1>4. ASSUME NEW r \in FreshRuns(s), script' = [script EXCEPT ![s] = "verifying"],
             chosen' = [chosen EXCEPT ![s] = r], reports' = [reports EXCEPT ![r] = 1]
      PROVE  IInv'
  <2>1. r \in Runs
    BY DEF FreshRuns, IInv, ScriptTypes
  <2>2. ScriptTypes'
    BY <1>1, <1>4, <2>1 DEF IInv, ScriptTypes, ScriptStates, Active, WatchStates
  <2>3. /\ script'[s] = "verifying" /\ chosen'[s] = r
        /\ \A p \in Scripts : p # s => script'[p] = script[p] /\ chosen'[p] = chosen[p]
    BY <1>4 DEF IInv, ScriptTypes
  <2>4. \A q \in Runs : reports'[q] = 4 => reports[q] = 4
    BY <1>4 DEF IInv, ScriptTypes
  <2>5. ScriptInv(s)'
    BY <2>1, <2>3 DEF ScriptInv
  <2> QED
    BY <1>1, <1>2, <2>2, <2>3, <2>4, <2>5, WorkKeeps DEF Active
<1> QED
  BY <1>3, <1>4 DEF JudgeApplication, Goto

\* The run that is replayed is one this script's application made and passed.
LEMMA VerifyKeeps ==
    ASSUME IInv, NEW s \in Scripts, VerifyLocalAppRun(s)
    PROVE  IInv'
<1>1. script[s] = "verifying" /\ chosen[s] \in Runs
      /\ UNCHANGED <<benchVars, lock, recorded, since, filesSince, chosen>>
  BY DEF VerifyLocalAppRun, IInv, ScriptInv
<1>2. CASE /\ RunVerified(s, chosen[s]) /\ reports' = [reports EXCEPT ![chosen[s]] = 2]
           /\ reason' = [reason EXCEPT ![s] = FALSE] /\ watch' = [watch EXCEPT ![s] = "looping"]
           /\ script' = [script EXCEPT ![s] = "replaying"]
  <2>1. ScriptTypes'
    BY <1>1, <1>2 DEF IInv, ScriptTypes, ScriptStates, Active, WatchStates
  <2>2. /\ script'[s] = "replaying"
        /\ \A p \in Scripts : p # s => /\ script'[p] = script[p] /\ watch'[p] = watch[p]
                                       /\ reason'[p] = reason[p]
    BY <1>2 DEF IInv, ScriptTypes
  <2>3. \A q \in Runs : reports'[q] = 4 => reports[q] = 4
    BY <1>2 DEF IInv, ScriptTypes
  <2>4. ScriptInv(s)'
    BY <1>1, <1>2, <2>2 DEF ScriptInv, RunVerified, ReceiptBound, benchVars, workVars
  <2> QED
    BY <1>1, <2>1, <2>2, <2>3, <2>4, WorkKeeps DEF Active
<1>3. CASE script' = [script EXCEPT ![s] = "sweeping"] /\ UNCHANGED <<reason, watch, reports>>
  <2>1. ScriptTypes'
    BY <1>1, <1>3 DEF IInv, ScriptTypes, ScriptStates, Cleaning
  <2>2. script'[s] = "sweeping" /\ \A p \in Scripts : p # s => script'[p] = script[p]
    BY <1>3 DEF IInv, ScriptTypes
  <2> QED
    BY <1>1, <1>3, <2>1, <2>2, WorkKeeps DEF Active, ScriptInv
<1> QED
  BY <1>2, <1>3 DEF VerifyLocalAppRun, Goto

\* The replay.
LEMMA ReplayKeeps ==
    ASSUME IInv, NEW s \in Scripts, Replay(s)
    PROVE  IInv'
<1>1. /\ script[s] = "replaying" /\ script' = [script EXCEPT ![s] = "closing"]
      /\ reports' \in {reports, [reports EXCEPT ![chosen[s]] = 3]}
      /\ UNCHANGED <<benchVars, lock, reason, watch, recorded, since, filesSince, chosen>>
  BY DEF Replay, Goto
<1>2. ScriptTypes'
  BY <1>1 DEF IInv, ScriptTypes, ScriptStates, Active
<1>3. script'[s] = "closing" /\ \A p \in Scripts : p # s => script'[p] = script[p]
  BY <1>1 DEF IInv, ScriptTypes
<1>4. \A q \in Runs : reports'[q] = 4 => reports[q] = 4
  BY <1>1 DEF IInv, ScriptTypes
<1>5. ScriptInv(s)'
  BY <1>1, <1>3 DEF IInv, ScriptInv, benchVars, workVars
<1> QED
  BY <1>1, <1>2, <1>3, <1>4, <1>5, WorkKeeps DEF Active

\* A failure, or a SIGKILL of the script.
LEMMA FailKeeps ==
    ASSUME IInv, NEW s \in Scripts, Fail(s) \/ Crash(s)
    PROVE  IInv'
<1>1. /\ script[s] \in Active
      /\ \/ script' = [script EXCEPT ![s] = "sweeping"]
         \/ script' = [script EXCEPT ![s] = "crashed"]
      /\ UNCHANGED <<benchVars, lock, reason, watch, recorded, since, filesSince, chosen, reports>>
  BY DEF Fail, Crash, Goto
<1>2. ScriptTypes'
  BY <1>1 DEF IInv, ScriptTypes, ScriptStates, Cleaning
<1>3. script'[s] \in {"sweeping", "crashed"} /\ \A p \in Scripts : p # s => script'[p] = script[p]
  BY <1>1 DEF IInv, ScriptTypes
<1> QED
  BY <1>1, <1>2, <1>3, WorkKeeps DEF ScriptInv

\* The outcome is written when the watchdog is off and has given no reason.
LEMMA TerminalKeeps ==
    ASSUME IInv, NEW s \in Scripts, WriteTerminalLog(s)
    PROVE  IInv'
<1>1. /\ script[s] = "closing" /\ script' = [script EXCEPT ![s] = "sweeping"]
      /\ watch' = [watch EXCEPT ![s] = "off"]
      /\ \/ ~reason[s] /\ reports[chosen[s]] = 3 /\ reports' = [reports EXCEPT ![chosen[s]] = 4]
         \/ UNCHANGED reports
      /\ UNCHANGED <<benchVars, lock, reason, recorded, since, filesSince, chosen>>
  BY DEF WriteTerminalLog, Goto
<1>2. BenchInv' /\ BenchKept /\ published' = published
  BY <1>1, BenchStays DEF IInv, benchVars, workVars
<1>3. ScriptTypes'
  BY <1>1 DEF IInv, ScriptTypes, ScriptStates, Cleaning, WatchStates
<1>4. /\ script'[s] = "sweeping" /\ watch'[s] = "off"
      /\ \A p \in Scripts : p # s => script'[p] = script[p] /\ watch'[p] = watch[p]
  BY <1>1 DEF IInv, ScriptTypes
<1>5. ScriptInv(s)' /\ SeenInv(s)' /\ SweptInv(s)'
  BY <1>1, <1>2, <1>4, LookingKept DEF ScriptInv, BenchKept, Active
<1>6. ASSUME NEW r \in Runs PROVE TerminalInv(r)'
  <2>1. CASE reports'[r] = reports[r]
    BY <1>1, <1>2, <1>4, <2>1, TerminalKept DEF BenchKept, Cleaning
  <2>2. CASE reports'[r] # reports[r]
    <3>1. r = chosen[s] /\ ~reason[s]
      BY <1>1, <2>2 DEF IInv, ScriptTypes
    <3>2. owner[r] = s /\ receipt[r] = "pass"
      BY <1>1, <3>1 DEF IInv, ScriptInv
    <3> QED
      BY <1>1, <1>4, <3>1, <3>2 DEF TerminalInv, Cleaning, benchVars, workVars
  <2> QED
    BY <2>1, <2>2
<1> QED
  BY <1>1, <1>2, <1>3, <1>4, <1>5, <1>6, StepOfOne DEF BenchKept

\* A turn of the watchdog that finds its limit not reached, or its target gone.
LEMMA TurnKeeps ==
    ASSUME IInv, NEW s \in Scripts, WatchRecords(s) \/ WatchEnds(s)
    PROVE  IInv'
<1>1. /\ watch[s] = "looping"
      /\ UNCHANGED <<benchVars, script, lock, reason, since, filesSince, chosen, reports>>
  BY DEF WatchRecords, WatchEnds
<1>2. BenchInv' /\ BenchKept /\ published' = published /\ orphans' = orphans /\ app' = app
      /\ owner' = owner /\ worker' = worker /\ helper' = helper
  BY <1>1, BenchStays DEF IInv, benchVars, workVars, appVars
<1>3. watch' \in [Scripts -> WatchStates] /\ \A p \in Scripts : p # s => watch'[p] = watch[p]
  BY DEF WatchRecords, WatchEnds, IInv, ScriptTypes, WatchStates
<1>4. /\ recorded' \in [Scripts -> SUBSET Runs]
      /\ \A p \in Scripts : p # s => recorded'[p] = recorded[p]
      /\ recorded[s] \subseteq recorded'[s]
  <2>1. CASE WatchRecords(s)
    <3>1. recorded' =
              [recorded EXCEPT ![s] = recorded[s] \cup ProofGroups(s) \cup PublishedWorkerGroups(s)]
      BY <2>1 DEF WatchRecords
    <3>2. ProofGroups(s) \subseteq Runs /\ PublishedWorkerGroups(s) \subseteq Runs
      BY DEF ProofGroups, Descendants, RunsOf, PublishedWorkerGroups, IInv, ScriptTypes
    <3> QED
      BY <3>1, <3>2 DEF IInv, ScriptTypes
  <2>2. CASE WatchEnds(s)
    BY <2>2 DEF WatchEnds, IInv, ScriptTypes
  <2> QED
    BY <2>1, <2>2
<1>5. ScriptTypes'
  BY <1>1, <1>3, <1>4 DEF IInv, ScriptTypes
<1>6. ScriptInv(s)' /\ SeenInv(s)' /\ SweptInv(s)'
  BY <1>1, <1>2, <1>4, ScriptFrame DEF BenchKept
<1>7. \A r \in Runs : TerminalInv(r)'
  BY <1>1, <1>2, <1>3, TerminalKept DEF BenchKept
<1> QED
  BY <1>1, <1>2, <1>4, <1>5, <1>6, <1>7, StepOfOne DEF BenchKept

-----------------------------------------------------------------------------
(***************************************************************************)
(* The signals of the scripts and of their watchdogs.                      *)
(***************************************************************************)
\* The groups a script can name are runs.
LEMMA GroupsAreRuns ==
    ASSUME IInv, NEW s \in Scripts
    PROVE  ProofGroups(s) \subseteq Runs /\ PublishedWorkerGroups(s) \subseteq Runs
  BY DEF ProofGroups, Descendants, RunsOf, PublishedWorkerGroups, IInv, ScriptTypes

\* What is recorded grows, for this script.
LEMMA Recorded ==
    ASSUME IInv, NEW s \in Scripts, NEW more \in SUBSET Runs,
           recorded' = [recorded EXCEPT ![s] = recorded[s] \cup more]
    PROVE  /\ recorded' \in [Scripts -> SUBSET Runs] /\ recorded'[s] = recorded[s] \cup more
           /\ \A p \in Scripts : p # s => recorded'[p] = recorded[p]
  BY DEF IInv, ScriptTypes

\* The first part of terminate_proof_tree.
LEMMA TreeTermedKeeps ==
    ASSUME IInv, NEW s \in Scripts, NEW groups \in SUBSET Runs, TreeTermed(s, groups)
    PROVE  /\ BenchInv' /\ BenchKept /\ UNCHANGED <<appVars, published>>
           /\ recorded' \in [Scripts -> SUBSET Runs] /\ recorded[s] \subseteq recorded'[s]
           /\ \A p \in Scripts : p # s => recorded'[p] = recorded[p]
<1>1. Calmed
  BY TerminatedCalms DEF TreeTermed, IInv, BenchInv
<1>2. BenchInv' /\ BenchKept
  BY <1>1, CalmedKeeps DEF TreeTermed, appVars, IInv, BenchInv, BenchTypes
<1>3. recorded' = [recorded EXCEPT ![s] = recorded[s] \cup (ProofGroups(s) \cup groups)]
  BY DEF TreeTermed
<1>4. ProofGroups(s) \cup groups \in SUBSET Runs
  BY GroupsAreRuns
<1>5. /\ recorded' \in [Scripts -> SUBSET Runs] /\ recorded[s] \subseteq recorded'[s]
      /\ \A p \in Scripts : p # s => recorded'[p] = recorded[p]
  BY <1>3, <1>4, Recorded
<1> QED
  BY <1>2, <1>5 DEF TreeTermed

\* The second part.
LEMMA TreeKilledKeeps ==
    ASSUME IInv, NEW s \in Scripts, TreeKilled(s)
    PROVE  /\ BenchInv' /\ BenchKept /\ UNCHANGED <<published, recorded>>
           /\ app'[s] \notin Open
<1>1. Calmed /\ UNCHANGED <<owner, published, disk, receipt, recorded>>
  BY KilledCalms DEF TreeKilled, IInv, BenchInv
<1>2. CASE app[s] \in Open
  <2>1. AppEnds(s, "exit1")
    BY <1>2 DEF TreeKilled
  <2>2. BenchInv' /\ BenchKept
    BY <1>1, <1>2, <2>1, EndKeeps DEF Ended, IInv
  <2>3. app'[s] \notin Open
    BY <2>1 DEF AppEnds, IInv, BenchInv, BenchTypes, Open
  <2> QED
    BY <1>1, <2>2, <2>3
<1>3. CASE app[s] \notin Open
  <2>1. UNCHANGED <<appVars, orphans>>
    BY <1>3 DEF TreeKilled
  <2>2. BenchInv' /\ BenchKept
    BY <1>1, <2>1, CalmedKeeps DEF appVars, IInv, BenchInv, BenchTypes
  <2> QED
    BY <1>1, <1>3, <2>1, <2>2 DEF appVars
<1> QED
  BY <1>2, <1>3

\* The watchdog reaches its limit while the application runs.
LEMMA WatchKeeps ==
    ASSUME IInv, NEW s \in Scripts, WatchTrips(s) \/ WatchKills(s)
    PROVE  IInv'
<1>1. /\ watch[s] # "off" /\ UNCHANGED <<script, lock, since, filesSince, chosen, reports>>
      /\ reason' \in [Scripts -> BOOLEAN] /\ \A p \in Scripts : p # s => reason'[p] = reason[p]
      /\ watch' \in [Scripts -> WatchStates] /\ \A p \in Scripts : p # s => watch'[p] = watch[p]
  BY DEF WatchTrips, WatchKills, IInv, ScriptTypes, WatchStates
<1>2. /\ BenchInv' /\ BenchKept /\ published' = published
      /\ recorded' \in [Scripts -> SUBSET Runs] /\ recorded[s] \subseteq recorded'[s]
      /\ \A p \in Scripts : p # s => recorded'[p] = recorded[p]
  <2>1. CASE WatchTrips(s)
    BY <2>1, GroupsAreRuns, TreeTermedKeeps DEF WatchTrips
  <2>2. CASE WatchKills(s)
    BY <2>2, TreeKilledKeeps DEF WatchKills, IInv, ScriptTypes
  <2> QED
    BY <2>1, <2>2
<1>3. ScriptTypes'
  BY <1>1, <1>2 DEF IInv, ScriptTypes
<1>4. ScriptInv(s)' /\ SeenInv(s)' /\ SweptInv(s)'
  BY <1>1, <1>2, ScriptFrame DEF BenchKept
<1>5. \A r \in Runs : TerminalInv(r)'
  BY <1>1, <1>2, TerminalKept DEF BenchKept
<1> QED
  BY <1>1, <1>2, <1>3, <1>4, <1>5, StepOfOne DEF BenchKept

\* It reaches it during the replay.
LEMMA WatchReplayKeeps ==
    ASSUME IInv, NEW s \in Scripts, WatchTripsReplay(s)
    PROVE  IInv'
<1>1. /\ script[s] = "replaying" /\ script' = [script EXCEPT ![s] = "closing"]
      /\ reason' = [reason EXCEPT ![s] = TRUE] /\ watch' = [watch EXCEPT ![s] = "off"]
      /\ recorded' = [recorded EXCEPT ![s] = recorded[s] \cup PublishedWorkerGroups(s)]
      /\ Killed(recorded'[s])
      /\ UNCHANGED <<appVars, owner, published, disk, receipt, orphans, lock, since, filesSince,
                     chosen, reports>>
  BY DEF WatchTripsReplay, Goto
<1>2. BenchInv' /\ BenchKept
  BY <1>1, KilledCalms, CalmedKeeps DEF appVars, IInv, BenchInv, BenchTypes
<1>3. /\ recorded' \in [Scripts -> SUBSET Runs]
      /\ \A p \in Scripts : p # s => recorded'[p] = recorded[p]
  BY <1>1, GroupsAreRuns, Recorded
<1>4. ScriptTypes'
  BY <1>1, <1>3 DEF IInv, ScriptTypes, ScriptStates, Active, WatchStates
<1>5. /\ script'[s] = "closing"
      /\ \A p \in Scripts : p # s => /\ script'[p] = script[p] /\ watch'[p] = watch[p]
                                     /\ reason'[p] = reason[p]
  BY <1>1 DEF IInv, ScriptTypes
<1>6. ScriptInv(s)' /\ SeenInv(s)' /\ SweptInv(s)'
  <2>1. ScriptInv(s)'
    BY <1>1, <1>5 DEF IInv, ScriptInv
  <2> QED
    BY <1>1, <1>2, <1>5, <2>1, LookingKept DEF BenchKept, Active
<1>7. \A r \in Runs : TerminalInv(r)'
  BY <1>1, <1>2, <1>5, TerminalKept DEF BenchKept, Cleaning
<1> QED
  BY <1>1, <1>2, <1>3, <1>4, <1>5, <1>6, <1>7, StepOfOne DEF BenchKept

\* The cleanup up to the groups.
LEMMA SweepKeeps ==
    ASSUME IInv, NEW s \in Scripts, Sweep(s) \/ SweepTree(s)
    PROVE  IInv'
<1>1. /\ script[s] \in {"sweeping", "killing"}
      /\ script' \in {[script EXCEPT ![s] = "killing"], [script EXCEPT ![s] = "grouping"]}
      /\ watch' \in {watch, [watch EXCEPT ![s] = "off"]}
      /\ UNCHANGED <<lock, reason, since, filesSince, chosen, reports>>
  BY DEF Sweep, SweepTree, Goto
<1>2. /\ BenchInv' /\ BenchKept /\ published' = published
      /\ recorded' \in [Scripts -> SUBSET Runs]
      /\ \A p \in Scripts : p # s => recorded'[p] = recorded[p]
      /\ script'[s] = "grouping" => app'[s] \notin Open
  <2>1. CASE Sweep(s) /\ app[s] \in Open /\ TreeTermed(s, {}) /\ Goto(s, "killing")
    BY <2>1, TreeTermedKeeps DEF Goto, IInv, ScriptTypes
  <2>2. CASE app[s] \notin Open /\ UNCHANGED <<benchVars, recorded>>
    BY <2>2, BenchStays DEF IInv, ScriptTypes, benchVars, workVars, appVars
  <2>3. CASE SweepTree(s)
    BY <2>3, TreeKilledKeeps DEF SweepTree, IInv, ScriptTypes
  <2> QED
    BY <2>1, <2>2, <2>3 DEF Sweep
<1>3. ScriptTypes'
  BY <1>1, <1>2 DEF IInv, ScriptTypes, ScriptStates, Cleaning, WatchStates
<1>4. /\ script'[s] \in {"killing", "grouping"} /\ watch'[s] \in {watch[s], "off"}
      /\ \A p \in Scripts : p # s => script'[p] = script[p] /\ watch'[p] = watch[p]
  BY <1>1 DEF IInv, ScriptTypes
<1>5. ScriptInv(s)'
  BY <1>2, <1>4 DEF ScriptInv
<1>6. SeenInv(s)' /\ SweptInv(s)'
  BY <1>1, <1>2, <1>4, LookingKept DEF BenchKept, Cleaning
<1>7. \A r \in Runs : TerminalInv(r)'
  BY <1>1, <1>2, <1>4, TerminalKept DEF BenchKept, Cleaning
<1> QED
  BY <1>1, <1>2, <1>3, <1>4, <1>5, <1>6, <1>7, StepOfOne DEF BenchKept

\* terminate_recorded_groups: what an application that has ended left alive is recorded,
\* because a file that is newer than the markers names it.
LEMMA GroupsKeep ==
    ASSUME IInv, NEW s \in Scripts, TerminateRecordedGroups(s)
    PROVE  IInv'
<1>1. /\ script[s] = "grouping" /\ script' = [script EXCEPT ![s] = "escalating"]
      /\ recorded' = [recorded EXCEPT ![s] = recorded[s] \cup PublishedWorkerGroups(s)]
      /\ Terminated({r \in recorded'[s] : GroupExists(r)})
      /\ UNCHANGED <<appVars, owner, published, disk, receipt, orphans, lock, reason, watch,
                     since, filesSince, chosen, reports>>
  BY DEF TerminateRecordedGroups, Goto
<1>2. BenchInv' /\ BenchKept
  BY <1>1, TerminatedCalms, CalmedKeeps DEF appVars, IInv, BenchInv, BenchTypes
<1>3. /\ recorded' \in [Scripts -> SUBSET Runs]
      /\ recorded'[s] = recorded[s] \cup PublishedWorkerGroups(s)
      /\ \A p \in Scripts : p # s => recorded'[p] = recorded[p]
  BY <1>1, GroupsAreRuns, Recorded
<1>4. ScriptTypes'
  BY <1>1, <1>3 DEF IInv, ScriptTypes, ScriptStates, Cleaning
<1>5. script'[s] = "escalating" /\ \A p \in Scripts : p # s => script'[p] = script[p]
  BY <1>1 DEF IInv, ScriptTypes
<1>6. app[s] \notin Open /\ app' = app
  BY <1>1 DEF IInv, ScriptInv, appVars
<1>7. ScriptInv(s)'
  BY <1>5, <1>6 DEF ScriptInv
<1>8. SeenInv(s)'
  BY <1>1, <1>5 DEF IInv, SeenInv, Cleaning, RunsOf
<1>9. SweptInv(s)'
  <2>1. ASSUME NEW r \in RunsOf(s)', Alive(r)' PROVE r \in recorded'[s]
    <3>1. r \in Runs /\ owner[r] = s
      BY <1>1, <2>1 DEF RunsOf
    <3>2. Alive(r)
      BY <1>2, <2>1, <3>1, NoneAssumption DEF BenchKept, RunsKept
    <3>3. r \in published
      BY <1>6, <3>1, <3>2 DEF IInv, BenchInv, NamedInv
    <3>4. r \in since[s] \cap filesSince[s]
      BY <1>1, <3>1, <3>3 DEF IInv, SeenInv, Cleaning, RunsOf
    <3>5. GroupExists(r)
      BY <3>1, <3>2, <3>3 DEF IInv, BenchInv, RunInv, Alive, Leads, Working, GroupExists
    <3> QED
      BY <1>3, <3>3, <3>4, <3>5 DEF PublishedWorkerGroups
  <2> QED
    BY <1>5, <2>1 DEF SweptInv
<1>10. \A r \in Runs : TerminalInv(r)'
  BY <1>1, <1>2, <1>5, TerminalKept DEF BenchKept, Cleaning
<1> QED
  BY <1>1, <1>2, <1>3, <1>4, <1>5, <1>7, <1>8, <1>9, <1>10, StepOfOne DEF BenchKept

\* The last SIGKILL, and the end.
LEMMA EscalateKeeps ==
    ASSUME IInv, NEW s \in Scripts, ForceKillRecordedGroups(s)
    PROVE  IInv'
<1>1. /\ script[s] = "escalating" /\ script' = [script EXCEPT ![s] = "done"]
      /\ Killed(recorded[s])
      /\ lock' = IF lock = s THEN None ELSE lock
      /\ reason' = [reason EXCEPT ![s] = FALSE] /\ recorded' = [recorded EXCEPT ![s] = {}]
      /\ since' = [since EXCEPT ![s] = {}] /\ filesSince' = [filesSince EXCEPT ![s] = {}]
      /\ UNCHANGED <<appVars, owner, published, disk, receipt, orphans, watch, chosen, reports>>
  BY DEF ForceKillRecordedGroups, Goto
<1>2. BenchInv' /\ BenchKept
  BY <1>1, KilledCalms, CalmedKeeps DEF appVars, IInv, BenchInv, BenchTypes
<1>3. ScriptTypes'
  BY <1>1 DEF IInv, ScriptTypes, ScriptStates
<1>4. /\ script'[s] = "done" /\ reason'[s] = FALSE
      /\ \A p \in Scripts : p # s => /\ script'[p] = script[p] /\ reason'[p] = reason[p]
                                     /\ recorded'[p] = recorded[p] /\ since'[p] = since[p]
                                     /\ filesSince'[p] = filesSince[p]
  BY <1>1 DEF IInv, ScriptTypes
<1>5. app[s] \notin Open /\ app' = app
  BY <1>1 DEF IInv, ScriptInv, appVars
<1>6. ScriptInv(s)' /\ SeenInv(s)'
  BY <1>4, <1>5 DEF ScriptInv, SeenInv, Active, Cleaning
<1>7. SweptInv(s)'
  <2>1. ASSUME NEW r \in RunsOf(s)', Alive(r)' PROVE FALSE
    <3>1. r \in Runs /\ owner[r] = s
      BY <1>1, <2>1 DEF RunsOf
    <3>2. Alive(r)
      BY <1>2, <2>1, <3>1, NoneAssumption DEF BenchKept, RunsKept
    <3>3. r \in published /\ r \in recorded[s]
      BY <1>1, <1>5, <3>1, <3>2 DEF IInv, BenchInv, NamedInv, SweptInv, RunsOf
    <3>4. worker[r] # "spawned"
      BY <3>1, <3>3 DEF IInv, BenchInv, RunInv
    <3>5. ~helper'[r]
      <4>1. helper' = [q \in Runs |-> helper[q] /\ q \notin recorded[s]]
        BY <1>1 DEF Killed
      <4> QED
        BY <3>1, <3>3, <4>1, Zenon
    <3>6. ~Leads(r)'
      BY <1>1, <3>1, <3>3, <3>4 DEF Killed, Leads, Working, Grouped
    <3> QED
      BY <2>1, <3>5, <3>6 DEF Alive
  <2> QED
    BY <1>4, <2>1 DEF SweptInv
<1>8. \A r \in Runs : TerminalInv(r)'
  BY <1>1, <1>2, <1>4, TerminalKept DEF BenchKept, Cleaning
<1> QED
  BY <1>1, <1>2, <1>3, <1>4, <1>6, <1>7, <1>8, StepOfOne DEF BenchKept

-----------------------------------------------------------------------------
(***************************************************************************)
(* The theorems.                                                           *)
(***************************************************************************)
\* Nothing has been started.
LEMMA InitInv == Init => IInv
<1> SUFFICES ASSUME Init PROVE IInv
  OBVIOUS
<1>1. BenchTypes
  BY DEF Init, BenchInit, BenchTypes, AppStates, Requests, HandlerStates, WorkerStates, Receipts
<1>2. ScriptTypes
  BY DEF Init, ScriptTypes, ScriptStates, WatchStates
<1>3. \A r \in Runs : RunInv(r) /\ NamedInv(r)
  BY NoneAssumption DEF Init, BenchInit, RunInv, NamedInv, Leads
<1>4. \A a \in Scripts : StoreInv(a)
  BY DEF Init, BenchInit, StoreInv
<1>5. PassEarned /\ NoneForgotten
  BY DEF Init, BenchInit, PassEarned, NoneForgotten, Leads, Working, Grouped
<1>6. \A s \in Scripts : ScriptInv(s) /\ SeenInv(s) /\ SweptInv(s)
  BY DEF Init, BenchInit, ScriptInv, SeenInv, SweptInv, Active, Cleaning
<1>7. \A r \in Runs : TerminalInv(r)
  BY DEF Init, TerminalInv
<1> QED
  BY <1>1, <1>2, <1>3, <1>4, <1>5, <1>6, <1>7 DEF IInv, BenchInv

\* Every step keeps the inductive invariant.
LEMMA NextInv == IInv /\ [Next]_vars => IInv'
<1> SUFFICES ASSUME IInv, [Next]_vars PROVE IInv'
  OBVIOUS
<1>1. CASE UNCHANGED vars
  <2>1. UNCHANGED benchVars /\ UNCHANGED scriptVars
    BY <1>1 DEF vars
  <2>2. BenchInv' /\ BenchKept
    BY <2>1, BenchStays DEF IInv
  <2>3. ScriptTypes'
    BY <2>1 DEF scriptVars, IInv, ScriptTypes
  <2>4. \A s \in Scripts : ScriptInv(s)' /\ SeenInv(s)' /\ SweptInv(s)'
    BY <2>1, <2>2, ScriptFrame DEF BenchKept, scriptVars, benchVars, workVars
  <2>5. \A r \in Runs : TerminalInv(r)'
    BY <2>1 DEF IInv, TerminalInv, scriptVars, benchVars, workVars
  <2> QED
    BY <2>2, <2>3, <2>4, <2>5 DEF IInv
<1>2. ASSUME NEW s \in Scripts, AppStep(s) PROVE IInv'
  BY <1>2, AppStepKeeps, BenchSteps DEF AppStep, IInv
<1>3. ASSUME NEW r \in Runs, RunStep(r) PROVE IInv'
  BY <1>3, RunStepKeeps, BenchSteps DEF RunStep, IInv
<1>4. ASSUME NEW s \in Scripts, Main(s) PROVE IInv'
  BY <1>4, EarlyKeeps, LaunchKeeps, JudgeKeeps, VerifyKeeps, ReplayKeeps, TerminalKeeps DEF Main
<1>5. ASSUME NEW s \in Scripts, Cleanup(s) PROVE IInv'
  BY <1>5, SweepKeeps, GroupsKeep, EscalateKeeps DEF Cleanup
<1>6. ASSUME NEW s \in Scripts, Watchdog(s) PROVE IInv'
  BY <1>6, WatchKeeps, WatchReplayKeeps DEF Watchdog
<1>7. ASSUME NEW s \in Scripts,
             Start(s) \/ Fail(s) \/ Crash(s) \/ WatchRecords(s) \/ WatchEnds(s)
      PROVE  IInv'
  BY <1>7, EarlyKeeps, FailKeeps, TurnKeeps
<1> QED
  BY <1>1, <1>2, <1>3, <1>4, <1>5, <1>6, <1>7 DEF Next

\* The inductive invariant holds in every state of every behaviour.
THEOREM Invariant == Spec => []IInv
  BY InitInv, NextInv, PTL DEF Spec

\* TypeOK: the variables keep their types.
THEOREM TypeCorrect == Spec => []TypeOK
<1>1. IInv => TypeOK
  BY DEF IInv, BenchInv, BenchTypes, ScriptTypes, TypeOK
<1> QED
  BY <1>1, Invariant, PTL

\* NoneForgotten: while an application is open it supervises every live leader it has
\* started, whatever handlers of earlier runs come late (finishRealLLMRun).
THEOREM LeadersAreSupervised == Spec => []NoneForgotten
<1>1. IInv => NoneForgotten
  BY DEF IInv, BenchInv
<1> QED
  BY <1>1, Invariant, PTL

\* TerminalEarned: terminal.log stands in the directory of a run that this very invocation
\* launched, chose and verified while no watchdog gave a reason (run-proof.sh).
THEOREM OutcomeIsEarned == Spec => []TerminalEarned
<1>1. IInv => TerminalEarned
  BY DEF IInv, BenchInv, TerminalInv, PassEarned, TerminalEarned
<1> QED
  BY <1>1, Invariant, PTL

\* NothingLeft: an invocation that has cleaned up leaves alive only what no published file
\* named when its application ended, or what a leader that ended by itself left behind
\* (cleanup, terminate_recorded_groups).
THEOREM CleanupLeavesNothing == Spec => []NothingLeft
<1>1. ASSUME IInv PROVE NothingLeft
  BY <1>1 DEF IInv, ScriptInv, SweptInv, Alive, RunsOf, NothingLeft
<1> QED
  BY <1>1, Invariant, PTL

\* A step of a script writes no receipt.
LEMMA ScriptsWriteNoReceipt ==
    ASSUME NEW s \in Scripts,
           \/ Start(s) \/ Main(s) \/ Cleanup(s) \/ Fail(s) \/ Crash(s) \/ Watchdog(s)
           \/ WatchRecords(s) \/ WatchEnds(s)
    PROVE  receipt' = receipt
<1>1. CASE Start(s) \/ Fail(s) \/ Crash(s) \/ WatchRecords(s) \/ WatchEnds(s)
  BY <1>1 DEF Start, Fail, Crash, WatchRecords, WatchEnds, benchVars
<1>2. CASE Main(s)
  BY <1>2 DEF Main, AcquireLock, RefuseLock, Launch, JudgeApplication, VerifyLocalAppRun, Replay,
              WriteTerminalLog, benchVars
<1>3. CASE Cleanup(s)
  BY <1>3 DEF Cleanup, Sweep, SweepTree, TerminateRecordedGroups, ForceKillRecordedGroups,
              TreeTermed, TreeKilled, benchVars
<1>4. CASE Watchdog(s)
  BY <1>4 DEF Watchdog, WatchTrips, WatchKills, WatchTripsReplay, TreeTermed, TreeKilled
<1> QED
  BY <1>1, <1>2, <1>3, <1>4

\* ReceiptFinal: a receipt is written once, although the handler of a run whose launch was
\* given up may reach a store that supervises another (the guard of finishRealLLMRun).
THEOREM ReceiptIsFinal == Spec => ReceiptFinal
<1>1. ASSUME IInv, [Next]_vars PROVE \A r \in Runs : receipt[r] # "none" => receipt'[r] = receipt[r]
  <2>1. CASE UNCHANGED vars
    BY <2>1 DEF vars, benchVars
  <2>2. ASSUME NEW s \in Scripts, AppStep(s) PROVE RunsKept
    BY <1>1, <2>2, AppStepKeeps DEF IInv, BenchKept
  <2>3. ASSUME NEW r \in Runs, RunStep(r) PROVE RunsKept
    BY <1>1, <2>3, RunStepKeeps DEF IInv, BenchKept
  <2> QED
    BY <1>1, <2>1, <2>2, <2>3, ScriptsWriteNoReceipt DEF Next, RunsKept
<1>2. IInv /\ [Next]_vars => [\A r \in Runs : receipt[r] # "none" => receipt'[r] = receipt[r]]_receipt
  BY <1>1
<1> QED
  BY <1>2, Invariant, PTL DEF Spec, ReceiptFinal
=============================================================================
