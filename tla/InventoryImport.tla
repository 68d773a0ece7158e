--------------------------- MODULE InventoryImport ---------------------------
(***************************************************************************)
(* import_inventory.py: interactive sessions that build or extend the      *)
(* inventory file the servers read, step by step up to the backup, the     *)
(* temporary file, the rename and the read-back.  Several operators may    *)
(* run a session on the same file at once; a session may be interrupted    *)
(* from the keyboard or killed at any step, and a disk write may fail.     *)
(*                                                                         *)
(* A document is the devices it registers and the (group, member) pairs of *)
(* its [groups] table; credentials and metadata are left out.              *)
(***************************************************************************)
EXTENDS Naturals

CONSTANTS
    Operators,   \* the sessions that may run at once
    Names,       \* what devices and groups may be called
    Groupings,   \* the lists of groups operators type for a device
    Initial,     \* the states the file may be in before any session
    Missing,     \* there is no such file
    Broken,      \* the file is not TOML
    Malformed,   \* it is, but its `groups` is not a table
    Partial,     \* a file of which only a part is written
    None

Document == [devices : SUBSET Names, groups : SUBSET (Names \X Names)]

Unusable == {Missing, Broken, Malformed}

ASSUME ConstantsAssumption ==
    /\ Groupings \subseteq SUBSET Names
    /\ Initial \subseteq Document \cup Unusable
    /\ None \notin Document \cup Unusable \cup {Partial}
    /\ Partial \notin Document \cup Unusable
    /\ Unusable \cap Document = {}

VARIABLES
    file,     \* the inventory file
    bak,      \* its .bak
    temp,     \* per operator, the temporary file of atomic_write
    session   \* per operator, the memory of the session and its last message

vars == <<file, bak, temp, session>>

Empty == [devices |-> {}, groups |-> {}]

Merge(a, b) == [devices |-> a.devices \cup b.devices,
                groups  |-> a.groups \cup b.groups]

Within(a, b) == a.devices \subseteq b.devices /\ a.groups \subseteq b.groups

GroupNames(doc) == {pair[1] : pair \in doc.groups}

\* What load_inventory().describe_groups() accepts: no group bears the name of
\* a device, and every member is registered.
Loads(doc) ==
    /\ doc \notin Unusable
    /\ GroupNames(doc) \cap doc.devices = {}
    /\ \A pair \in doc.groups : pair[2] \in doc.devices

Phases == {"off", "load", "collect", "confirm", "save", "backup", "write",
           "replace", "verify"}

Messages == {"none", "unchanged", "discarded", "invalid", "interrupted",
             "ok", "warning", "error", "failed", "killed"}

Session == [pc      : Phases,
            mode    : {"new", "append", "overwrite"},
            base    : Document,            \* what it read from the file
            doc     : Document,            \* what it will write
            entered : Document,            \* what the operator typed
            wrote   : BOOLEAN,             \* the session has replaced the file
            alone   : BOOLEAN,             \* no other session has overlapped it
            told    : Messages]            \* how the operator was left

Fresh == [pc |-> "off", mode |-> "new", base |-> Empty, doc |-> Empty,
          entered |-> Empty, wrote |-> FALSE, alone |-> TRUE, told |-> "none"]

At(i, phase) == session[i].pc = phase

Go(i, phase) == session' = [session EXCEPT ![i].pc = phase]

\* Leaves the program with a last message; its temporary file is gone.
Exit(i, message) ==
    session' = [session EXCEPT ![i].pc = "off", ![i].told = message]

Init ==
    /\ file \in Initial
    /\ bak = Missing
    /\ temp = [i \in Operators |-> None]
    /\ session = [i \in Operators |-> Fresh]

-----------------------------------------------------------------------------
\* choose_file_mode: "new" without a question when there is no file yet.
ChooseMode(i, mode) ==
    /\ At(i, "off")
    /\ (mode = "new") <=> (file = Missing)
    /\ LET others == {j \in Operators \ {i} : ~At(j, "off")}
       IN  session' = [j \in Operators |->
               IF j = i THEN [Fresh EXCEPT !.pc = "load", !.mode = mode,
                                           !.alone = others = {}]
               ELSE IF j \in others THEN [session[j] EXCEPT !.alone = FALSE]
               ELSE session[j]]
    /\ UNCHANGED <<file, bak, temp>>

\* The operator quits instead, or has no key and does not want plain text.
Quit(i) ==
    /\ At(i, "off") \/ At(i, "load")
    /\ session' = [session EXCEPT ![i] =
                     [Fresh EXCEPT !.told = IF At(i, "off") THEN "unchanged"
                                                            ELSE "discarded"]]
    /\ At(i, "off") => file # Missing
    /\ UNCHANGED <<file, bak, temp>>

\* load_existing_doc in append mode, the encryption key, and the names already
\* taken, which a `groups` that is no table makes fail.
LoadExistingDoc(i) ==
    /\ At(i, "load")
    /\ \/ /\ session[i].mode # "append"
          /\ Go(i, "collect")
       \/ /\ session[i].mode = "append"
          /\ file \notin Unusable
          /\ session' = [session EXCEPT ![i].pc = "collect", ![i].base = file,
                                        ![i].doc = file]
       \/ /\ session[i].mode = "append"
          /\ file \in Unusable
          /\ Exit(i, "invalid")
    /\ UNCHANGED <<file, bak, temp>>

\* validate_device_name: no device or group of the document, or typed before,
\* has the name.
NameIsFree(name, known) == name \notin known.devices \cup GroupNames(known)

\* validate_group_names.
AreNoDevices(groups, names) == groups \cap names = {}

\* Mutant: the groups are not compared with the device's own name.
EnterDeviceInItself(i, name, groups) ==
    LET known == Merge(session[i].doc, session[i].entered)
    IN  /\ At(i, "collect")
        /\ NameIsFree(name, known)
        /\ AreNoDevices(groups, known.devices)
        /\ session' = [session EXCEPT ![i].entered =
               Merge(@, [devices |-> {name}, groups |-> groups \X {name}])]
        /\ UNCHANGED <<file, bak, temp>>

\* prompt_one_device: groups may not bear the name of the device just typed.
EnterDevice(i, name, groups) ==
    LET known == Merge(session[i].doc, session[i].entered)
    IN  /\ At(i, "collect")
        /\ NameIsFree(name, known)
        /\ AreNoDevices(groups, known.devices \cup {name})
        /\ session' = [session EXCEPT ![i].entered =
               Merge(@, [devices |-> {name}, groups |-> groups \X {name}])]
        /\ UNCHANGED <<file, bak, temp>>

\* The operator is done, or interrupts and chooses to keep what was entered.
CollectDevices(i) ==
    /\ At(i, "collect")
    /\ IF session[i].entered.devices = {} THEN Exit(i, "unchanged")
                                          ELSE Go(i, "confirm")
    /\ UNCHANGED <<file, bak, temp>>

\* An interrupt while entering: nothing to keep, or not wanted.
Discard(i) ==
    /\ At(i, "collect")
    /\ Exit(i, "discarded")
    /\ UNCHANGED <<file, bak, temp>>

\* The summary is not confirmed, or the overwriting is not.
Decline(i) ==
    /\ At(i, "confirm")
    /\ Exit(i, "unchanged")
    /\ UNCHANGED <<file, bak, temp>>

\* Mutant: merge_groups is not called.
MergeDevicesOnly(i) ==
    /\ At(i, "confirm")
    /\ session' = [session EXCEPT ![i].pc = "save",
                       ![i].doc.devices = @ \cup session[i].entered.devices]
    /\ UNCHANGED <<file, bak, temp>>

\* merge_devices and merge_groups; their checks repeat those of the prompts.
MergeDevices(i) ==
    /\ At(i, "confirm")
    /\ session' = [session EXCEPT ![i].pc = "save",
                                  ![i].doc = Merge(@, session[i].entered)]
    /\ UNCHANGED <<file, bak, temp>>

-----------------------------------------------------------------------------
\* Mutant: only overwriting is preceded by a backup.
BackupWhenOverwriting(i) ==
    /\ At(i, "save")
    /\ IF session[i].mode = "overwrite" THEN bak' = Partial /\ Go(i, "backup")
                                        ELSE Go(i, "write") /\ UNCHANGED bak
    /\ UNCHANGED <<file, temp>>

\* backup_file truncates the old .bak before it copies the file; a file that is
\* not there needs none.
OpenBackup(i) ==
    /\ At(i, "save")
    /\ \/ file # Missing /\ bak' = Partial /\ Go(i, "backup")
       \/ file = Missing /\ Go(i, "write") /\ UNCHANGED bak
    /\ UNCHANGED <<file, temp>>

CopyBackup(i) ==
    /\ At(i, "backup")
    /\ bak' = file
    /\ Go(i, "write")
    /\ UNCHANGED <<file, temp>>

\* Mutant: the rename does not wait for the content.
RenameFirst(i) ==
    /\ At(i, "write")
    /\ temp' = [temp EXCEPT ![i] = Partial]
    /\ Go(i, "replace")
    /\ UNCHANGED <<file, bak>>

\* Mutant: the inventory file itself is opened for writing.
OpenInPlace(i) ==
    /\ At(i, "write")
    /\ temp[i] = None
    /\ file' = Partial
    /\ temp' = [temp EXCEPT ![i] = Partial]
    /\ UNCHANGED <<bak, session>>

\* atomic_write: mkstemp, then the content, flushed and synced, then the rename.
MakeTemp(i) ==
    /\ At(i, "write")
    /\ temp[i] = None
    /\ temp' = [temp EXCEPT ![i] = Partial]
    /\ UNCHANGED <<file, bak, session>>

WriteTemp(i) ==
    /\ At(i, "write")
    /\ temp[i] = Partial
    /\ temp' = [temp EXCEPT ![i] = session[i].doc]
    /\ Go(i, "replace")
    /\ UNCHANGED <<file, bak>>

Replace(i) ==
    /\ At(i, "replace")
    /\ file' = temp[i]
    /\ temp' = [temp EXCEPT ![i] = None]
    /\ session' = [session EXCEPT ![i].pc = "verify", ![i].wrote = TRUE]
    /\ UNCHANGED bak

\* verify_written_file.  Values encrypted under a key this process does not
\* have make it a warning, whatever else is in the file.
VerifyWrittenFile(i) ==
    /\ At(i, "verify")
    /\ \/ Exit(i, "warning")
       \/ Loads(file) /\ Exit(i, "ok")
       \/ ~Loads(file) /\ Exit(i, "error")
    /\ UNCHANGED <<file, bak, temp>>

-----------------------------------------------------------------------------
\* Mutant: a read-back that fails counts as a write that failed.
AnythingFails(i) ==
    /\ session[i].pc \in {"save", "backup", "write", "replace", "verify"}
    /\ temp' = [temp EXCEPT ![i] = None]
    /\ Exit(i, "failed")
    /\ UNCHANGED <<file, bak>>

\* A write fails: atomic_write removes its temporary file, the exception ends
\* the program.
WriteFails(i) ==
    /\ session[i].pc \in {"save", "backup", "write", "replace"}
    /\ At(i, "save") => file # Missing
    /\ temp' = [temp EXCEPT ![i] = None]
    /\ Exit(i, "failed")
    /\ UNCHANGED <<file, bak>>

\* Ctrl-C outside the entering of devices: main says that the file has not been
\* changed.
Interrupt(i) ==
    /\ session[i].pc \notin {"off", "collect"}
    /\ temp' = [temp EXCEPT ![i] = None]
    /\ Exit(i, "interrupted")
    /\ UNCHANGED <<file, bak>>

\* The process is killed: nothing is cleaned up, and what the system has taken
\* is in the files.  (A loss of power could take the .bak and the rename, neither
\* of which is synced.)  The name of an orphaned temporary file is never used
\* again.
Kill(i) ==
    /\ ~At(i, "off")
    /\ temp' = [temp EXCEPT ![i] = None]
    /\ Exit(i, "killed")
    /\ UNCHANGED <<file, bak>>

Step(i) ==
    \/ \E mode \in {"new", "append", "overwrite"} : ChooseMode(i, mode)
    \/ Quit(i) \/ LoadExistingDoc(i)
    \/ \E name \in Names, groups \in Groupings : EnterDevice(i, name, groups)
    \/ CollectDevices(i) \/ Discard(i) \/ Decline(i) \/ MergeDevices(i)
    \/ OpenBackup(i) \/ CopyBackup(i)
    \/ MakeTemp(i) \/ WriteTemp(i) \/ Replace(i) \/ VerifyWrittenFile(i)
    \/ WriteFails(i) \/ Interrupt(i) \/ Kill(i)

Next == \E i \in Operators : Step(i)

Spec == Init /\ [][Next]_vars

-----------------------------------------------------------------------------
(* What the program promises. *)

TypeOK ==
    /\ file \in Document \cup Unusable
    /\ bak \in Document \cup Unusable \cup {Partial}
    /\ temp \in [Operators -> Document \cup {None, Partial}]
    /\ session \in [Operators -> Session]

\* The inventory file only ever changes from one complete document to another,
\* at the rename of a session, to the document that this session holds, with all
\* that was entered: a server that loads it in the middle of an import, or after
\* an import was killed, reads one version or the next (README.md 67).
FileIsReplacedWhole ==
    [][file' # file =>
          \E i \in Operators :
              /\ session'[i].wrote /\ ~session[i].wrote
              /\ file' = session[i].doc
              /\ Within(session[i].entered, file')]_vars

\* A document that loads stays one: what a session writes over nothing, over a
\* file that is thrown away, or over the loadable document it started from is
\* loadable, whichever names of devices and groups were typed in which order.
SavedFileLoads ==
    \A i \in Operators :
        session[i].wrote /\ Loads(session[i].base) => Loads(session[i].doc)

\* The last message is true: of a session that said the file is unchanged or
\* discarded its input, or that failed, the file is as it was; one that said it
\* saved has saved.
LastMessageIsTrue ==
    \A i \in Operators :
        /\ session[i].told \in {"unchanged", "discarded", "invalid", "failed"} =>
              ~session[i].wrote
        /\ session[i].told \in {"ok", "warning", "error"} => session[i].wrote

\* While a session runs alone, the content that its rename replaces is in the
\* .bak by then, in append mode as well as in overwrite mode (README.md 64),
\* and append mode drops nothing that the file holds, whatever sessions came
\* before it and however they ended.
ReplacedContentIsKept ==
    [][\A i \in Operators :
          file' # file /\ session'[i].wrote /\ ~session[i].wrote
            /\ session[i].alone =>
              /\ file # Missing => bak = file
              /\ session[i].mode = "append" => Within(file, file')]_vars

\* The read-back of a session that ran alone says OK only when the file holds
\* everything that was entered.
VerifiedMeansStored ==
    [][\A i \in Operators :
          session[i].alone /\ session[i].told # "ok" /\ session'[i].told = "ok" =>
              Within(session[i].entered, file)]_vars

-----------------------------------------------------------------------------
(* What the program says and the code does not do. *)

\* import_inventory.py 500: an interrupted session says that the file has not
\* been changed.
InterruptedMeansUnchanged ==
    \A i \in Operators : session[i].told = "interrupted" => ~session[i].wrote
=============================================================================
