---------------------------- MODULE LinuxRuntime ----------------------------
(***************************************************************************)
(* The owner-local Python and the hash-locked runtime of the Linux contour *)
(* (bootstrap-python.sh, find-python312.sh, build-runtime.sh and           *)
(* runtime_safety.py).                                                     *)
(*                                                                         *)
(* Every build resolves its Python and looks for the runtime at one fixed  *)
(* path.  It uses a runtime that validates, refuses anything else, and     *)
(* where there is none installs one in a private sibling directory, which  *)
(* is verified and renamed into place.  Nothing locks that path: builds    *)
(* run side by side, and each may fail or be killed at any step.           *)
(*                                                                         *)
(* Wheels, file modes, owners and versions are abstracted to whether the   *)
(* checks accept a directory: it is "whole" or it is not.                  *)
(***************************************************************************)
EXTENDS Naturals, Sequences, FiniteSets

Builders == 1..2

VARIABLES python,   \* the owner-local tree, and the bootstraps that found none
          runtime,  \* what is at the runtime path
          build     \* each build: where it is and what it has staged

runtimeVars == <<python, runtime, build>>

\* Steps at which a build is under way.
Building == {"resolve", "look", "staged", "marked", "verified", "absent", "published"}

RuntimeInit ==
    /\ python = [tree |-> "absent", admitted |-> 0]
    /\ runtime \in {"absent", "foreign"}
    /\ build = [b \in Builders |-> [pc |-> "none", staged |-> "nothing"]]

Step(b, from, to) ==
    /\ build[b].pc = from
    /\ build' = [build EXCEPT ![b].pc = to]

(***************************************************************************)
(* bootstrap-python.sh.  The extracted tree is hardened and given its      *)
(* receipt in a staging directory; "[ ! -e TARGET ]" and mv are two steps, *)
(* and mv moves into a directory that has appeared in between.             *)
(***************************************************************************)
BootstrapFindsNone ==
    /\ python.tree = "absent" /\ python.admitted < 2
    /\ python' = [python EXCEPT !.admitted = @ + 1]
    /\ UNCHANGED <<runtime, build>>

BootstrapMove ==
    /\ python.admitted > 0
    /\ python' = [tree |-> IF python.tree = "absent" THEN "whole" ELSE "nested",
                  admitted |-> python.admitted - 1]
    /\ UNCHANGED <<runtime, build>>

\* The receipt binds the count and the digest of every entry of the tree.
ReceiptValid(tree) == tree = "whole"

\* An installed tree must validate; where there is none, another 3.12.13 may be on PATH.
ResolvePython(b) ==
    /\ python.tree = "absent" \/ ReceiptValid(python.tree)
    /\ Step(b, "resolve", "look")
    /\ UNCHANGED <<python, runtime>>

(***************************************************************************)
(* build-runtime.sh.                                                       *)
(***************************************************************************)
\* Owner, mode, marker, Python prefix and version.
OwnedRuntime(directory) == directory \in {"whole", "broken"}

\* pip check, and exactly the distributions of the locks.
LockedClosure(directory) == directory = "whole"

\* Mutant: the marker is enough, the package closure is not compared.
RuntimeValidLoosely(directory) == OwnedRuntime(directory)

RuntimeValid(directory) == OwnedRuntime(directory) /\ LockedClosure(directory)

\* The three installs end with exit 0; what they left is only known to the checks.
InstallStage(b) ==
    /\ runtime = "absent"
    /\ \E content \in {"whole", "broken"} :
           build' = [build EXCEPT ![b] = [pc |-> "staged", staged |-> content]]
    /\ build[b].pc = "look"
    /\ UNCHANGED <<python, runtime>>

InitializeMarker(b) == Step(b, "staged", "marked") /\ UNCHANGED <<python, runtime>>

VerifyStage(b) ==
    /\ RuntimeValid(build[b].staged)
    /\ Step(b, "marked", "verified")
    /\ UNCHANGED <<python, runtime>>

\* publish_runtime looks first and renames then; the rename fails on a filled directory.
FindDestinationAbsent(b) ==
    /\ runtime = "absent"
    /\ Step(b, "verified", "absent")
    /\ UNCHANGED <<python, runtime>>

RenameStage(b) ==
    /\ build[b].pc = "absent" /\ runtime = "absent"
    /\ runtime' = build[b].staged
    /\ build' = [build EXCEPT ![b] = [pc |-> "published", staged |-> "nothing"]]
    /\ UNCHANGED python

\* An existing or a published runtime is validated before it is used.
UseRuntime(b) ==
    /\ build[b].pc \in {"look", "published"}
    /\ RuntimeValid(runtime)
    /\ build' = [build EXCEPT ![b].pc = "ready"]
    /\ UNCHANGED <<python, runtime>>

\* A failing command, a signal or a kill: the staging directory is all that is left.
BuildFails(b) ==
    /\ build[b].pc \in Building
    /\ build' = [build EXCEPT ![b] = [pc |-> "failed", staged |-> "nothing"]]
    /\ UNCHANGED <<python, runtime>>

BuildStep(b) ==
    \/ ResolvePython(b) \/ InstallStage(b) \/ InitializeMarker(b) \/ VerifyStage(b)
    \/ FindDestinationAbsent(b) \/ RenameStage(b) \/ UseRuntime(b) \/ BuildFails(b)

Bootstrap == BootstrapFindsNone \/ BootstrapMove
=============================================================================
