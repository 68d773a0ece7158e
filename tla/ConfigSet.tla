------------------------------ MODULE ConfigSet ------------------------------
(***************************************************************************)
(* The tool set_config_commands_and_commit_or_save: a batch of             *)
(* configuration lines is judged and audited line by line, and only then   *)
(* sent to one device in one session that ends in commit() and             *)
(* save_config(), where the platform has them                              *)
(* (Device.send_config_set_and_commit_and_save).                           *)
(*                                                                         *)
(* One call is served at a time (see ShowCommands).  The device, the disk  *)
(* under the audit log and the editor of the inventory are the environment.*)
(***************************************************************************)
EXTENDS CommandPolicy

CONSTANTS
    Devices,      \* every device name an inventory may register
    Commands,     \* the configuration lines a client may send
    Policies,     \* the configuration policies an operator may write
    Batches,      \* the batches clients send
    Inventories,  \* the versions of the inventory file that load
    Unreadable,   \* a version on which loading raises
    None

\* What netmiko offers for a device_type.  commit() raises AttributeError and
\* save_config() raises NotImplementedError where it is missing.
Platforms == [commit : BOOLEAN, save : BOOLEAN]

Inventory == UNION {[S -> Platforms] : S \in SUBSET Devices}

ASSUME ConstantsAssumption ==
    /\ Commands \subseteq Text
    /\ Policies \subseteq Policy
    /\ Batches \subseteq Seq(Commands)
    /\ Inventories \subseteq Inventory
    /\ Unreadable \notin Inventories
    /\ None \notin Devices \cup Platforms

Failures        == {"auth", "timeout", "other"}
Endings         == Failures \cup {"unexpected"}
ConnectionCodes == {"AUTHENTICATION_FAILED", "CONNECTION_TIMEOUT",
                    "CONNECTION_FAILED"}
RefusalCodes    == {"CONFIG_MODE_DISABLED", "EMPTY_CONFIG_COMMANDS", "DENIED",
                    "INVENTORY_UNAVAILABLE", "DEVICE_NOT_FOUND"}
Codes           == ConnectionCodes \cup RefusalCodes
                     \cup {"OK", "AUDIT_WRITE_FAILED", "UNEXPECTED", "NONE"}
States          == {"none", "not_started", "unknown"}

VARIABLES
    enableConfig, \* --enable-config, fixed when the server starts
    policy,       \* config_command_policy, loaded when it starts
    inventory,    \* the inventory file: a version, or Unreadable
    pc,           \* where the thread that serves the call is
    device,       \* the device the call names
    batch,        \* the lines it sends
    lines,        \* the verdicts of the call's command_attempt lines
    platform,     \* the platform of the device the session is opened to
    received,     \* what reached the device in configuration mode
    committed,    \* the device carried out commit()
    saved,        \* the device carried out save_config()
    ending,       \* what the session ended in
    outcome,      \* the connection_outcome line
    reply         \* what the client was answered

deviceVars  == <<received, committed, saved>>
requestVars == <<enableConfig, policy, device, batch>>
vars == <<requestVars, inventory, pc, lines, platform, deviceVars, ending,
          outcome, reply>>

-----------------------------------------------------------------------------
Waiting   == {"idle", "replied", "crashed"}
InSession == {"connect", "config", "commit", "save"}

\* Mutant: an error of no listed class is answered under its own name.
UnlistedFailure(e) ==
    CASE e = "auth"    -> "AUTHENTICATION_FAILED"
      [] e = "timeout" -> "CONNECTION_TIMEOUT"
      [] OTHER         -> e

\* _connection_failure(exc, configuration=True): always "unknown".
ConnectionFailure(e) ==
    CASE e = "auth"    -> "AUTHENTICATION_FAILED"
      [] e = "timeout" -> "CONNECTION_TIMEOUT"
      [] OTHER         -> "CONNECTION_FAILED"

Answer(code, state) ==
    /\ pc' = "replied"
    /\ reply' = [code |-> code, state |-> state]

\* A server starts on a policy whose lists pass (_apply_runtime_config).
Startable == {p \in Policies : WellFormed(p) /\ ValidateCommandLists(p) = {}}

Init ==
    /\ enableConfig \in BOOLEAN
    /\ policy \in Startable
    /\ inventory \in Inventories
    /\ pc = "idle"
    /\ device \in Devices /\ batch = <<>>
    /\ lines = <<>> /\ platform = None
    /\ received = <<>> /\ committed = FALSE /\ saved = FALSE
    /\ ending = "none" /\ outcome = "none"
    /\ reply = [code |-> "NONE", state |-> "none"]

Request(d, b) ==
    /\ pc \in Waiting
    /\ pc' = "judge"
    /\ device' = d /\ batch' = b
    /\ lines' = <<>> /\ platform' = None
    /\ received' = <<>> /\ committed' = FALSE /\ saved' = FALSE
    /\ ending' = "none" /\ outcome' = "none"
    /\ reply' = [code |-> "NONE", state |-> "none"]
    /\ UNCHANGED <<enableConfig, policy, inventory>>

-----------------------------------------------------------------------------
\* The server was not started with --enable-config, or there is nothing to do:
\* one DENIED line for the whole batch.
RefuseBatch ==
    /\ pc = "judge"
    /\ lines = <<>>
    /\ ~enableConfig \/ batch = <<>>
    /\ lines' = <<"DENIED">>
    /\ Answer(IF ~enableConfig THEN "CONFIG_MODE_DISABLED"
                               ELSE "EMPTY_CONFIG_COMMANDS", "not_started")
    /\ UNCHANGED <<requestVars, inventory, platform, deviceVars, ending, outcome>>

Judgement == ValidateConfigCommand(batch[Len(lines) + 1], policy)

\* normalized_commands: what is sent of a batch all of which is allowed.
Normalized == [i \in DOMAIN batch |-> Normalize(batch[i])]

\* Mutant: a denied line is left out of the batch instead of ending the call.
JudgeLineAlone ==
    /\ pc = "judge"
    /\ enableConfig /\ Len(lines) < Len(batch)
    /\ lines' = Append(lines, IF Judgement.allowed THEN "ALLOWED" ELSE "DENIED")
    /\ pc' = IF Len(lines) + 1 = Len(batch) THEN "load" ELSE "judge"
    /\ UNCHANGED <<requestVars, inventory, platform, deviceVars, ending, outcome,
                   reply>>

\* validate_config_command and log_command_attempt for the next line; the
\* first line that is denied ends the call.
JudgeLine ==
    /\ pc = "judge"
    /\ enableConfig /\ Len(lines) < Len(batch)
    /\ \/ /\ Judgement.allowed
          /\ lines' = Append(lines, "ALLOWED")
          /\ pc' = IF Len(lines) + 1 = Len(batch) THEN "load" ELSE "judge"
          /\ UNCHANGED reply
       \/ /\ ~Judgement.allowed
          /\ lines' = Append(lines, "DENIED")
          /\ Answer("DENIED", "not_started")
    /\ UNCHANGED <<requestVars, inventory, platform, deviceVars, ending, outcome>>

\* Mutant: the handler swallows its error, as the standard one does.
AttemptFailsOpen ==
    /\ pc = "judge"
    /\ pc' = "load"
    /\ UNCHANGED <<requestVars, inventory, lines, platform, deviceVars, ending,
                   outcome, reply>>

\* A command_attempt line cannot be written: AuditWriteError("not_started").
AttemptNotLogged ==
    /\ pc = "judge"
    /\ Answer("AUDIT_WRITE_FAILED", "not_started")
    /\ UNCHANGED <<requestVars, inventory, lines, platform, deviceVars, ending,
                   outcome>>

LoadRefused ==
    /\ pc = "load"
    /\ \/ inventory = Unreadable /\ Answer("INVENTORY_UNAVAILABLE", "not_started")
       \/ /\ inventory # Unreadable /\ device \notin DOMAIN inventory
          /\ Answer("DEVICE_NOT_FOUND", "not_started")
    /\ UNCHANGED <<requestVars, inventory, lines, platform, deviceVars, ending,
                   outcome>>

Load ==
    /\ pc = "load"
    /\ inventory # Unreadable /\ device \in DOMAIN inventory
    /\ platform' = inventory[device]
    /\ pc' = "connect"
    /\ UNCHANGED <<requestVars, inventory, lines, deviceVars, ending, outcome,
                   reply>>

-----------------------------------------------------------------------------
\* The session opens.  enable() and the pre_commands run in it; whatever they
\* raise is logged and dropped, so they never end it.
Connect ==
    /\ pc = "connect"
    /\ pc' = "config"
    /\ UNCHANGED <<requestVars, inventory, lines, platform, deviceVars, ending,
                   outcome, reply>>

\* send_config_set, one line after the other.
SendLine ==
    /\ pc = "config"
    /\ Len(received) < Len(batch)
    /\ received' = Append(received, Normalized[Len(received) + 1])
    /\ pc' = IF received' = Normalized THEN "commit" ELSE "config"
    /\ UNCHANGED <<requestVars, inventory, lines, platform, committed, saved,
                   ending, outcome, reply>>

\* Mutant: whatever commit() raises is dropped.
CommitOrNot ==
    /\ pc = "commit"
    /\ committed' \in {FALSE, platform.commit}
    /\ pc' = "save"
    /\ UNCHANGED <<requestVars, inventory, lines, platform, received, saved,
                   ending, outcome, reply>>

\* commit(); where there is none its AttributeError is dropped.
Commit ==
    /\ pc = "commit"
    /\ committed' = platform.commit
    /\ pc' = "save"
    /\ UNCHANGED <<requestVars, inventory, lines, platform, received, saved,
                   ending, outcome, reply>>

\* save_config(); where there is none its NotImplementedError is dropped.
SaveConfig ==
    /\ pc = "save"
    /\ saved' = platform.save
    /\ pc' = "log"
    /\ ending' = "output"
    /\ UNCHANGED <<requestVars, inventory, lines, platform, received, committed,
                   outcome, reply>>

\* Mutant: an error while saving is dropped.
SaveFailureDropped(e) ==
    /\ pc \in InSession
    /\ e = "auth" => pc = "connect"
    /\ ending' = IF pc = "save" THEN "output" ELSE e
    /\ pc' = "log"
    /\ UNCHANGED <<requestVars, inventory, lines, platform, deviceVars, outcome,
                   reply>>

\* Mutant: after a timeout the session is opened again.
ReconnectAfterTimeout(e) ==
    /\ pc \in InSession
    /\ e = "auth" => pc = "connect"
    /\ ending' = e
    /\ pc' = IF e = "timeout" THEN "connect" ELSE "log"
    /\ UNCHANGED <<requestVars, inventory, lines, platform, deviceVars, outcome,
                   reply>>

\* The session fails.  The device may have carried out the step under way.
SessionFails(e) ==
    /\ pc \in InSession
    /\ e = "auth" => pc = "connect"
    /\ received' \in {received} \cup
          IF pc = "config" THEN {Append(received, Normalized[Len(received) + 1])} ELSE {}
    /\ committed' \in {committed, pc = "commit" /\ platform.commit}
    /\ committed => committed'
    /\ saved' \in {FALSE, pc = "save" /\ platform.save}
    /\ ending' = e
    /\ pc' = "log"
    /\ UNCHANGED <<requestVars, inventory, lines, platform, outcome, reply>>

-----------------------------------------------------------------------------
\* Mutant: configuration=True is forgotten.
LogOutcomeOfShow ==
    /\ pc = "log"
    /\ \/ /\ ending = "output"
          /\ outcome' = "SUCCESS"
          /\ Answer("OK", "none")
       \/ /\ ending \in Failures
          /\ outcome' = "CONNECTION_ERROR"
          /\ Answer(ConnectionFailure(ending), "not_completed")
    /\ UNCHANGED <<requestVars, inventory, lines, platform, deviceVars, ending>>

LogOutcome ==
    /\ pc = "log"
    /\ \/ /\ ending = "output"
          /\ outcome' = "SUCCESS"
          /\ Answer("OK", "none")
       \/ /\ ending \in Failures
          /\ outcome' = "CONNECTION_ERROR"
          /\ Answer(ConnectionFailure(ending), "unknown")
    /\ UNCHANGED <<requestVars, inventory, lines, platform, deviceVars, ending>>

\* The connection_outcome line cannot be written: AuditWriteError("unknown").
OutcomeNotLogged ==
    /\ pc = "log"
    /\ ending # "unexpected"
    /\ Answer("AUDIT_WRITE_FAILED", "unknown")
    /\ UNCHANGED <<requestVars, inventory, lines, platform, deviceVars, ending,
                   outcome>>

\* An exception outside CONNECTION_ERRORS, such as the ValueError of a commit()
\* the device rejects, is caught neither by the tool nor by the adapter.
Propagate ==
    /\ pc = "log"
    /\ ending = "unexpected"
    /\ Answer("UNEXPECTED", "none")
    /\ UNCHANGED <<requestVars, inventory, lines, platform, deviceVars, ending,
                   outcome>>

\* The server process dies.
Crash ==
    /\ pc \notin Waiting
    /\ pc' = "crashed"
    /\ UNCHANGED <<requestVars, inventory, lines, platform, deviceVars, ending,
                   outcome, reply>>

EditInventory ==
    /\ inventory' \in (Inventories \cup {Unreadable}) \ {inventory}
    /\ UNCHANGED <<requestVars, pc, lines, platform, deviceVars, ending, outcome,
                   reply>>

SessionEnds == \E e \in Endings : SessionFails(e)

Main == \/ RefuseBatch \/ JudgeLine \/ AttemptNotLogged
        \/ LoadRefused \/ Load
        \/ Connect \/ SendLine \/ Commit \/ SaveConfig \/ SessionEnds
        \/ LogOutcome \/ OutcomeNotLogged \/ Propagate

Next == \/ \E d \in Devices, b \in Batches : Request(d, b)
        \/ Main \/ Crash \/ EditInventory

Spec == Init /\ [][Next]_vars

\* The serving thread runs when it can, and conn_timeout and
\* read_timeout_override end a session whose device stays silent.
FairSpec == Spec /\ WF_vars(Main)

-----------------------------------------------------------------------------
(* What the tool promises. *)

TypeOK ==
    /\ enableConfig \in BOOLEAN
    /\ policy \in Startable
    /\ inventory \in Inventories \cup {Unreadable}
    /\ pc \in {"judge", "load", "log"} \cup InSession \cup Waiting
    /\ device \in Devices
    /\ batch \in Batches \cup {<<>>}
    /\ lines \in Seq({"ALLOWED", "DENIED"})
    /\ platform \in Platforms \cup {None}
    /\ received \in Seq({Normalize(c) : c \in Commands})
    /\ committed \in BOOLEAN /\ saved \in BOOLEAN
    /\ ending \in Endings \cup {"none", "output"}
    /\ outcome \in {"none", "SUCCESS", "CONNECTION_ERROR"}
    /\ reply \in [code : Codes, state : States]

AllAllowed == Len(lines) = Len(batch) /\ \A i \in DOMAIN lines : lines[i] = "ALLOWED"

\* All or nothing: a session is opened only under --enable-config, for a batch
\* that is not empty, of which the policy allows every line and has its ALLOWED line
\* in the audit log; one denied line, or one that cannot be logged, and the
\* device is not contacted (server.py 417-421, README.md 89).
WholeBatchJudgedFirst ==
    platform # None =>
        /\ enableConfig /\ batch # <<>> /\ AllAllowed
        /\ \A i \in DOMAIN batch : ValidateConfigCommand(batch[i], policy).allowed

\* Success is answered, and logged, only for a batch that the device received
\* whole, committed and saved as far as its platform can.
SuccessMeansApplied ==
    reply.code = "OK" \/ outcome = "SUCCESS" =>
        /\ received = Normalized /\ received # <<>>
        /\ platform.commit => committed
        /\ platform.save => saved

\* However a session ends, a part of a batch is never committed or saved, nor
\* is a batch saved whose commit did not happen (inventory.py 184-193).
OnlyWholeBatchIsKept ==
    /\ committed \/ saved => received = Normalized
    /\ saved /\ platform.commit => committed

\* "not_started" is true: the device was not contacted.  The answer and the
\* outcome line agree.
FailureStateIsTrue ==
    /\ reply.state = "not_started" => platform = None /\ received = <<>>
    /\ reply.code \in ConnectionCodes =>
          outcome = "CONNECTION_ERROR" /\ reply.state = "unknown"

\* An operator's lists mean what the documentation says, word by word, whatever
\* blanks and case a client uses: a line is allowed exactly when it holds no
\* unsafe character, no denied entry denotes it and an allowed one does
\* (security.py 3-10, README.md 72-82).  Entries with runs of blanks inside are
\* left out: they are matched as they stand and denote nothing.
VerdictsMeanWhatIsWritten ==
    (\A e \in policy.allowed \cup policy.denied : Tidy(e)) =>
        \A i \in DOMAIN lines \cap DOMAIN batch :
            (lines[i] = "ALLOWED") =
                /\ enableConfig
                /\ Range(batch[i]) \cap Unsafe = {}
                /\ \E e \in policy.allowed : Denotes(e, batch[i])
                /\ \A e \in policy.denied \cup Baseline : ~Denotes(e, batch[i])

\* Whatever the operator allows, no line that reaches a device starts with a
\* word that starts with a baseline command (README.md 106).
BaselineNeverReachesDevice ==
    \A i \in DOMAIN received : \A w \in {Shutdown, Clear} :
        ~IsPrefix(<<w>>, LowerCase(received[i]))

\* The tool implements AuditedExecution: the batch is the command, allowed once
\* its last line is; a device that has received any of it has run it.
Abstract == INSTANCE AuditedExecution WITH
    open    <- pc \notin Waiting,
    verdict <- IF \E i \in DOMAIN lines : lines[i] = "DENIED" THEN "DENIED"
               ELSE IF lines # <<>> /\ Len(lines) = Len(batch) THEN "ALLOWED"
               ELSE "none",
    targets <- IF pc \in InSession \cup {"log"} THEN {device} ELSE {},
    ran     <- [d \in Devices |-> IF d = device /\ received # <<>> THEN 1 ELSE 0]

KeepsThePromise == Abstract!Promise

\* Every call is answered unless its process dies.
EveryCallEnds == pc \notin Waiting ~> pc \in Waiting

-----------------------------------------------------------------------------
(* What the documentation says of the program and the code does not do. *)

\* README.md 272: a failed configuration operation reports "unknown".
FailedConfigReportsUnknown ==
    pc = "replied" /\ received # <<>> /\ reply.code # "OK" =>
        reply.state = "unknown"
=============================================================================
