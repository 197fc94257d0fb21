---------------------------- MODULE DurableFiles ----------------------------
(***************************************************************************)
(* The files of the one-shot lanes, as durable_exclusive_write             *)
(* (RealLLM/beacon_protocol.py) leaves them: created with O_EXCL, filled,  *)
(* fsync'ed, then the directory fsync'ed.  A file's record separates what  *)
(* a reader sees now (form, body) from what a power loss would preserve    *)
(* (data, entry), because the code's promises are about both.              *)
(*                                                                         *)
(* form  "absent"   the path does not exist                                *)
(*       "partial"  created, its writer has not written all of it          *)
(*       "whole"    every byte of body is readable                         *)
(*       "torn"     it survived a power loss with bytes missing            *)
(* data  the contents survive a power loss                                 *)
(* entry the directory entry survives a power loss                         *)
(***************************************************************************)
LOCAL INSTANCE Naturals

Forms == {"absent", "partial", "whole", "torn"}

FileStates(Bodies) ==
    [form: Forms, body: Bodies, data: BOOLEAN, entry: BOOLEAN]

AbsentFile(empty) ==
    [form |-> "absent", body |-> empty, data |-> FALSE, entry |-> FALSE]

Present(file) == file.form # "absent"       \* os.path.lexists
Readable(file) == file.form = "whole"       \* parses as the object written
Settled(file) == Present(file) /\ file.data /\ file.entry

(***************************************************************************)
(* The four steps of durable_exclusive_write, on the file itself.          *)
(***************************************************************************)
\* Mutant: the file is opened without O_EXCL.
CreatableAlways(file) == TRUE

Creatable(file) == ~Present(file)       \* O_CREAT | O_EXCL

Created(body) ==
    [form |-> "partial", body |-> body, data |-> FALSE, entry |-> FALSE]

Filled(file) == [file EXCEPT !.form = "whole"]

\* Mutant: the step is left out (no fsync of the file, or of the directory).
NotSynced(file) == file

Synced(file) == [file EXCEPT !.data = TRUE]

Entered(file) == IF Present(file) THEN [file EXCEPT !.entry = TRUE] ELSE file

(***************************************************************************)
(* What may be lost of the files of a disk, and the disk a reboot finds:   *)
(* an entry that was never synced may vanish, contents that were never     *)
(* synced may be torn, and whatever is found afterwards is on the medium.  *)
(***************************************************************************)
Losable(disk) == {f \in DOMAIN disk : Present(disk[f]) /\ ~disk[f].entry}
Tearable(disk) == {f \in DOMAIN disk : Present(disk[f]) /\ ~disk[f].data}

AfterPowerLoss(disk, empty, lost, torn) ==
    [f \in DOMAIN disk |->
        IF f \in lost THEN AbsentFile(empty)
        ELSE IF ~Present(disk[f]) THEN disk[f]
        ELSE [form  |-> IF f \in torn THEN "torn" ELSE disk[f].form,
              body  |-> disk[f].body,
              data  |-> TRUE,
              entry |-> TRUE]]
=============================================================================
