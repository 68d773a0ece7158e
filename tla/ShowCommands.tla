---------------------------- MODULE ShowCommands ----------------------------
(***************************************************************************)
(* The two tools that run a show command, as one server process executes   *)
(* them: send_command_and_get_output on one device, and                    *)
(* send_command_to_group on a device, a group or 'all' through a bounded   *)
(* thread pool; the audit lines they write (audit.py); and the adapter     *)
(* that turns what they return or raise into the MCP answer                *)
(* (tool_results.py).                                                      *)
(*                                                                         *)
(* FastMCP runs a synchronous tool inline on its event loop, so a process  *)
(* serves one call at a time: `pc` is that one thread.  The pool's workers *)
(* run concurrently with it, one job per device.  The devices, the disk    *)
(* under the audit log and under the saved outputs, and whoever edits the  *)
(* inventory file are the environment.                                     *)
(***************************************************************************)
EXTENDS Naturals, FiniteSets

CONSTANTS
    Devices,      \* every device name an inventory may register
    Groups,       \* every group name an inventory may define
    Hosts,        \* the addresses a device name may stand for
    All,          \* the reserved target "all"
    ErrorName,    \* the name "error", which a device may bear
    Commands,     \* the commands a client may send
    Permitted,    \* those the command policy allows
    Calls,        \* the calls clients make
    Inventories,  \* the versions of the inventory file that load
    Unreadable,   \* a version on which loading raises
    MaxWorkers,   \* --max-workers
    None

Targets == Devices \cup Groups \cup {All}

\* What load_inventory returns; `groups` is defined on the groups in the file.
\* A group may list a name that the same file does not register.  Where
\* `tabled` is false the file's `groups` is no table of lists, on which
\* load_inventory raises; load_config_toml does not look at it.
Inventory == [devices : SUBSET Devices,
              host    : [Devices -> Hosts],
              groups  : UNION {[G -> SUBSET Devices] : G \in SUBSET Groups},
              tabled  : BOOLEAN]

Call == [tool    : {"single", "group"},
         target  : Targets,
         command : Commands,
         save    : BOOLEAN]

ASSUME ConstantsAssumption ==
    /\ IsFiniteSet(Devices)
    /\ Permitted \subseteq Commands
    /\ Calls \subseteq Call
    /\ All \notin Devices      \* Device.__init__ rejects the name
    /\ Inventories \subseteq Inventory
    /\ Unreadable \notin Inventories
    /\ MaxWorkers \in Nat \ {0}
    /\ None \notin Calls \cup Inventories \cup Hosts \cup Devices

-----------------------------------------------------------------------------
\* What the session with a device ends in: output within or beyond
\* output_save_threshold, one of the three classes of CONNECTION_ERRORS, or an
\* exception outside them.
Outputs     == {"short", "long"}
Failures    == {"auth", "timeout", "other"}
Endings     == Outputs \cup Failures \cup {"unexpected"}

ConnectionCodes == {"AUTHENTICATION_FAILED", "CONNECTION_TIMEOUT",
                    "CONNECTION_FAILED"}

\* _execute_show_command returns one of the first two groups and raises one of
\* the third: AuditWriteError, or an exception nothing on the way catches.
GoodItems   == {"OUTPUT", "SAVED"}
FailedItems == ConnectionCodes \cup {"OUTPUT_SAVE_FAILED"}
Raised      == {"AUDIT_WRITE_FAILED", "UNEXPECTED"}
Items       == GoodItems \cup FailedItems \cup Raised

RefusalCodes == {"DENIED", "INVENTORY_UNAVAILABLE", "DEVICE_NOT_FOUND",
                 "TARGET_NOT_FOUND"}
States       == {"none", "not_started", "not_completed", "completed", "unknown"}

Reply == [code  : Items \cup RefusalCodes \cup {"NONE", "ITEMS"},
          state : States,
          items : UNION {[S -> Items] : S \in SUBSET Devices}]

VARIABLES
    inventory,  \* the inventory file: a version, or Unreadable
    pc,         \* where the thread that serves the call is
    call,       \* the call being served, or the last one served
    snapshot,   \* the inventory this call works from
    todo,       \* device names still to be submitted to the pool
    job,        \* per device, the progress of its _execute_show_command
    dialed,     \* per device, the address its session was opened to
    executed,   \* per device, how often the command reached it in this call
    heard,      \* per device, what its session ended in
    item,       \* per device, what its future holds
    collected,  \* devices whose result the serving thread has taken
    raised,     \* the exception that left the pool's with-block
    attempt,    \* the verdict of this call's command_attempt line
    outcome,    \* per device, its connection_outcome line
    reply       \* what the client was answered

jobVars  == <<job, dialed, executed, heard, item, outcome>>
callVars == <<pc, call, snapshot, todo, collected, raised, attempt, reply>>
vars     == <<inventory, callVars, jobVars>>

-----------------------------------------------------------------------------
\* Inventory.get_device_names, for the targets that do not make it raise.
Resolvable(inv, target) ==
    \/ target = All
    \/ target \in inv.devices
    \/ target \in DOMAIN inv.groups /\ inv.groups[target] \subseteq inv.devices

DeviceNames(inv, target) ==
    CASE target = All           -> inv.devices
      [] target \in inv.devices -> {target}
      [] OTHER                  -> inv.groups[target]

\* _connection_failure, for a show command.
ConnectionFailure(ending) ==
    CASE ending = "auth"    -> "AUTHENTICATION_FAILED"
      [] ending = "timeout" -> "CONNECTION_TIMEOUT"
      [] OTHER              -> "CONNECTION_FAILED"

\* Mutant: the audit handler gives every failed write the same state.
ExecutionStateOfAttempt(code) ==
    CASE code \in ConnectionCodes      -> "not_completed"
      [] code = "OUTPUT_SAVE_FAILED"   -> "completed"
      [] code \in RefusalCodes \cup {"AUDIT_WRITE_FAILED"} -> "not_started"
      [] OTHER                         -> "none"

\* The execution_state each ToolFailure carries.
ExecutionState(code) ==
    CASE code \in ConnectionCodes      -> "not_completed"
      [] code = "OUTPUT_SAVE_FAILED"   -> "completed"
      [] code = "AUDIT_WRITE_FAILED"   -> "unknown"
      [] code \in RefusalCodes         -> "not_started"
      [] OTHER                         -> "none"

NoItems == [d \in {} |-> "OUTPUT"]
NoReply == [code |-> "NONE", state |-> "none", items |-> NoItems]

Whole(code) == [code |-> code, state |-> ExecutionState(code), items |-> NoItems]

\* Mutant: any device's failure is taken for the failure of the whole call.
AdapterAnyFailure(results) ==
    LET failed == {d \in DOMAIN results : results[d] \in FailedItems}
    IN  IF failed # {} THEN Whole(results[CHOOSE d \in failed : TRUE])
        ELSE [code |-> "ITEMS", state |-> "none", items |-> results]

\* The adapter on the dict send_command_to_group returns: a failure under the
\* key "error" is taken for the failure of the whole call.
Adapter(results) ==
    IF ErrorName \in DOMAIN results /\ results[ErrorName] \in FailedItems
      THEN Whole(results[ErrorName])
      ELSE [code |-> "ITEMS", state |-> "none", items |-> results]

Waiting == {"idle", "replied", "crashed"}
Active  == {"connecting", "sent", "answered", "saving"}
Running == {d \in Devices : job[d] \in Active}

Answer(r) == pc' = "replied" /\ reply' = r

-----------------------------------------------------------------------------
Init ==
    /\ inventory \in Inventories
    /\ pc = "idle"
    /\ call = None /\ snapshot = None
    /\ todo = {} /\ collected = {}
    /\ job = [d \in Devices |-> "none"]
    /\ dialed = [d \in Devices |-> None]
    /\ executed = [d \in Devices |-> 0]
    /\ heard = [d \in Devices |-> "none"]
    /\ item = [d \in Devices |-> "none"]
    /\ outcome = [d \in Devices |-> "none"]
    /\ raised = "none" /\ attempt = "none"
    /\ reply = NoReply

\* A client calls one of the tools; what this module remembers of the last
\* call is forgotten.
Request(c) ==
    /\ pc \in Waiting
    /\ pc' = "validate"
    /\ call' = c
    /\ snapshot' = None
    /\ todo' = {} /\ collected' = {}
    /\ job' = [d \in Devices |-> "none"]
    /\ dialed' = [d \in Devices |-> None]
    /\ executed' = [d \in Devices |-> 0]
    /\ heard' = [d \in Devices |-> "none"]
    /\ item' = [d \in Devices |-> "none"]
    /\ outcome' = [d \in Devices |-> "none"]
    /\ raised' = "none" /\ attempt' = "none"
    /\ reply' = NoReply
    /\ UNCHANGED inventory

\* Mutant: the denial is logged, its return statement is missing.
DenialWithoutReturn ==
    /\ pc = "validate"
    /\ attempt' = IF call.command \in Permitted THEN "ALLOWED" ELSE "DENIED"
    /\ pc' = "load"
    /\ UNCHANGED <<inventory, call, snapshot, todo, collected, raised, reply,
                   jobVars>>

\* validate_command, then log_command_attempt with its verdict.
LogCommandAttempt ==
    /\ pc = "validate"
    /\ \/ /\ call.command \in Permitted
          /\ attempt' = "ALLOWED"
          /\ pc' = "load"
          /\ UNCHANGED reply
       \/ /\ call.command \notin Permitted
          /\ attempt' = "DENIED"
          /\ Answer(Whole("DENIED"))
    /\ UNCHANGED <<inventory, call, snapshot, todo, collected, raised, jobVars>>

\* Mutant: the handler swallows its error, as the standard one does.
AttemptFailsOpen ==
    /\ pc = "validate"
    /\ pc' = "load"
    /\ UNCHANGED <<inventory, call, snapshot, todo, collected, raised, attempt,
                   reply, jobVars>>

\* The audit line cannot be written: AuditWriteError("not_started").
AttemptNotLogged ==
    /\ pc = "validate"
    /\ Answer([Whole("AUDIT_WRITE_FAILED") EXCEPT !.state = "not_started"])
    /\ UNCHANGED <<inventory, call, snapshot, todo, collected, raised, attempt,
                   jobVars>>

\* load_config_toml for one device, load_inventory for a group.
Loaded == /\ inventory # Unreadable
          /\ call.tool = "group" => inventory.tabled

Refusal ==
    IF ~Loaded THEN "INVENTORY_UNAVAILABLE"
    ELSE IF call.tool = "single" THEN "DEVICE_NOT_FOUND" ELSE "TARGET_NOT_FOUND"

Found == /\ Loaded
         /\ IF call.tool = "single" THEN call.target \in inventory.devices
                                    ELSE Resolvable(inventory, call.target)

LoadRefused ==
    /\ pc = "load"
    /\ ~Found
    /\ Answer(Whole(Refusal))
    /\ UNCHANGED <<inventory, call, snapshot, todo, collected, raised, attempt,
                   jobVars>>

\* send_command_and_get_output: the serving thread runs the job itself.
LoadForOne ==
    /\ pc = "load"
    /\ Found
    /\ call.tool = "single"
    /\ snapshot' = inventory
    /\ pc' = "one"
    /\ job' = [job EXCEPT ![call.target] = "connecting"]
    /\ dialed' = [dialed EXCEPT ![call.target] = inventory.host[call.target]]
    /\ UNCHANGED <<inventory, call, todo, collected, raised, attempt, reply,
                   executed, heard, item, outcome>>

\* send_command_to_group: the pool is opened over the resolved names.
LoadForGroup ==
    /\ pc = "load"
    /\ Found
    /\ call.tool = "group"
    /\ snapshot' = inventory
    /\ todo' = DeviceNames(inventory, call.target)
    /\ pc' = "pool"
    /\ UNCHANGED <<inventory, call, collected, raised, attempt, reply, jobVars>>

Submit(d) ==
    /\ pc = "pool"
    /\ d \in todo
    /\ todo' = todo \ {d}
    /\ job' = [job EXCEPT ![d] = "queued"]
    /\ UNCHANGED <<inventory, pc, call, snapshot, collected, raised, attempt,
                   reply, dialed, executed, heard, item, outcome>>

-----------------------------------------------------------------------------
\* Mutant: the worker reads the inventory again.
StartJobRereads(d) ==
    /\ job[d] = "queued"
    /\ Cardinality(Running) < MaxWorkers
    /\ inventory # Unreadable
    /\ job' = [job EXCEPT ![d] = "connecting"]
    /\ dialed' = [dialed EXCEPT ![d] = inventory.host[d]]
    /\ UNCHANGED <<inventory, callVars, executed, heard, item, outcome>>

\* A worker of the pool takes a job.
StartJob(d) ==
    /\ job[d] = "queued"
    /\ Cardinality(Running) < MaxWorkers
    /\ job' = [job EXCEPT ![d] = "connecting"]
    /\ dialed' = [dialed EXCEPT ![d] = snapshot.host[d]]
    /\ UNCHANGED <<inventory, callVars, executed, heard, item, outcome>>

\* Device.send_command, once its session is open: the command is on the device.
SendCommand(d) ==
    /\ job[d] = "connecting"
    /\ job' = [job EXCEPT ![d] = "sent"]
    /\ executed' = [executed EXCEPT ![d] = @ + 1]
    /\ UNCHANGED <<inventory, callVars, dialed, heard, item, outcome>>

\* The session ends.  Only a command that was sent has output, only a session
\* that never opened fails to authenticate.
SessionEnds(d, ending) ==
    /\ \/ job[d] = "connecting" /\ ending \notin Outputs
       \/ job[d] = "sent" /\ ending # "auth"
    /\ heard' = [heard EXCEPT ![d] = ending]
    /\ IF ending = "unexpected"
         THEN /\ job' = [job EXCEPT ![d] = "done"]
              /\ item' = [item EXCEPT ![d] = "UNEXPECTED"]
         ELSE /\ job' = [job EXCEPT ![d] = "answered"]
              /\ UNCHANGED item
    /\ UNCHANGED <<inventory, callVars, dialed, executed, outcome>>

LogSuccess(d) ==
    /\ job[d] = "answered"
    /\ heard[d] \in Outputs
    /\ outcome' = [outcome EXCEPT ![d] = "SUCCESS"]
    /\ job' = [job EXCEPT ![d] = "saving"]
    /\ UNCHANGED <<inventory, callVars, dialed, executed, heard, item>>

\* Mutant: a command that timed out is tried again.
RetryAfterTimeout(d) ==
    /\ job[d] = "answered"
    /\ heard[d] \in Failures
    /\ outcome' = [outcome EXCEPT ![d] = "CONNECTION_ERROR"]
    /\ IF heard[d] = "timeout"
         THEN job' = [job EXCEPT ![d] = "connecting"] /\ UNCHANGED item
         ELSE /\ job' = [job EXCEPT ![d] = "done"]
              /\ item' = [item EXCEPT ![d] = ConnectionFailure(heard[d])]
    /\ UNCHANGED <<inventory, callVars, dialed, executed, heard>>

LogConnectionError(d) ==
    /\ job[d] = "answered"
    /\ heard[d] \in Failures
    /\ outcome' = [outcome EXCEPT ![d] = "CONNECTION_ERROR"]
    /\ job' = [job EXCEPT ![d] = "done"]
    /\ item' = [item EXCEPT ![d] = ConnectionFailure(heard[d])]
    /\ UNCHANGED <<inventory, callVars, dialed, executed, heard>>

\* Mutant: the job goes on without its outcome line.
OutcomeFailsOpen(d) ==
    /\ job[d] = "answered"
    /\ IF heard[d] \in Outputs
         THEN job' = [job EXCEPT ![d] = "saving"] /\ UNCHANGED item
         ELSE /\ job' = [job EXCEPT ![d] = "done"]
              /\ item' = [item EXCEPT ![d] = ConnectionFailure(heard[d])]
    /\ UNCHANGED <<inventory, callVars, dialed, executed, heard, outcome>>

\* The audit line cannot be written: AuditWriteError("unknown") ends the job.
OutcomeNotLogged(d) ==
    /\ job[d] = "answered"
    /\ job' = [job EXCEPT ![d] = "done"]
    /\ item' = [item EXCEPT ![d] = "AUDIT_WRITE_FAILED"]
    /\ UNCHANGED <<inventory, callVars, dialed, executed, heard, outcome>>

\* Mutant: the worker hands the saving to the pool and waits for it.
SaveInThePool(d) ==
    /\ job[d] = "saving"
    /\ pc = "one" \/ Cardinality(Running) < MaxWorkers
    /\ job' = [job EXCEPT ![d] = "done"]
    /\ \E result \in IF call.save \/ heard[d] = "long"
                       THEN {"SAVED", "OUTPUT_SAVE_FAILED"} ELSE {"OUTPUT"} :
          item' = [item EXCEPT ![d] = result]
    /\ UNCHANGED <<inventory, callVars, dialed, executed, heard, outcome>>

\* _maybe_save_output: on disk when asked for or when too long, and that may fail.
MaybeSaveOutput(d) ==
    /\ job[d] = "saving"
    /\ job' = [job EXCEPT ![d] = "done"]
    /\ \E result \in IF call.save \/ heard[d] = "long"
                       THEN {"SAVED", "OUTPUT_SAVE_FAILED"} ELSE {"OUTPUT"} :
          item' = [item EXCEPT ![d] = result]
    /\ UNCHANGED <<inventory, callVars, dialed, executed, heard, outcome>>

-----------------------------------------------------------------------------
\* as_completed yields only once every job is submitted.
Submitted == DeviceNames(snapshot, call.target)

Collect(d) ==
    /\ pc = "pool"
    /\ todo = {}
    /\ d \in Submitted \ collected
    /\ job[d] = "done"
    /\ \/ /\ item[d] \notin Raised
          /\ collected' = collected \cup {d}
          /\ UNCHANGED <<pc, raised>>
       \/ /\ item[d] \in Raised
          /\ raised' = item[d]
          /\ pc' = "drain"
          /\ UNCHANGED collected
    /\ UNCHANGED <<inventory, call, snapshot, todo, attempt, reply, jobVars>>

\* Mutant: shutdown(wait=False).
PoolAbandoned == TRUE

\* Leaving the with-block waits for every submitted job, queued ones included.
PoolShutDown == \A d \in Submitted : job[d] = "done"

Finish ==
    /\ pc = "pool"
    /\ todo = {}
    /\ collected = Submitted
    /\ PoolShutDown
    /\ Answer(Adapter([d \in collected |-> item[d]]))
    /\ UNCHANGED <<inventory, call, snapshot, todo, collected, raised, attempt,
                   jobVars>>

FinishRaised ==
    /\ pc = "drain"
    /\ PoolShutDown
    /\ Answer(Whole(raised))
    /\ UNCHANGED <<inventory, call, snapshot, todo, collected, raised, attempt,
                   jobVars>>

\* Mutant: the answer does not wait for the session.
AnswerBeforeSession ==
    /\ pc = "one"
    /\ Answer(Whole(item[call.target]))
    /\ UNCHANGED <<inventory, call, snapshot, todo, collected, raised, attempt,
                   jobVars>>

FinishOne ==
    /\ pc = "one"
    /\ job[call.target] = "done"
    /\ Answer(Whole(item[call.target]))
    /\ UNCHANGED <<inventory, call, snapshot, todo, collected, raised, attempt,
                   jobVars>>

-----------------------------------------------------------------------------
\* The server process dies and its memory with it; it is started again before
\* the next call.  What reached the devices and the audit log stays.
Crash ==
    /\ pc \notin Waiting
    /\ pc' = "crashed"
    /\ snapshot' = None
    /\ todo' = {} /\ collected' = {} /\ raised' = "none"
    /\ job' = [d \in Devices |-> "none"]
    /\ heard' = [d \in Devices |-> "none"]
    /\ item' = [d \in Devices |-> "none"]
    /\ UNCHANGED <<inventory, call, attempt, reply, dialed, executed, outcome>>

EditInventory ==
    /\ inventory' \in (Inventories \cup {Unreadable}) \ {inventory}
    /\ UNCHANGED <<callVars, jobVars>>

Main == \/ LogCommandAttempt \/ AttemptNotLogged
        \/ LoadRefused \/ LoadForOne \/ LoadForGroup
        \/ (\E d \in Devices : Submit(d) \/ Collect(d))
        \/ Finish \/ FinishRaised \/ FinishOne

Session(d) == \E ending \in Endings : SessionEnds(d, ending)

Job(d) == \/ StartJob(d) \/ Session(d)
          \/ LogSuccess(d) \/ LogConnectionError(d) \/ OutcomeNotLogged(d)
          \/ MaybeSaveOutput(d)

Next == \/ \E c \in Calls : Request(c)
        \/ Main
        \/ \E d \in Devices : Job(d) \/ SendCommand(d)
        \/ Crash
        \/ EditInventory

Spec == Init /\ [][Next]_vars

\* The serving thread runs when it can; a worker that is free takes a job; and
\* conn_timeout and read_timeout_override end every session, so a job never
\* waits for ever.  Nothing obliges a device to be reached.
Fairness == WF_vars(Main) /\ \A d \in Devices : WF_vars(Job(d))

FairSpec == Spec /\ Fairness
-----------------------------------------------------------------------------
(* What the tools promise. *)

TypeOK ==
    /\ inventory \in Inventories \cup {Unreadable}
    /\ pc \in {"validate", "load", "one", "pool", "drain"} \cup Waiting
    /\ call \in Calls \cup {None}
    /\ snapshot \in Inventories \cup {None}
    /\ todo \in SUBSET Devices
    /\ job \in [Devices -> {"none", "queued", "done"} \cup Active]
    /\ dialed \in [Devices -> Hosts \cup {None}]
    /\ executed \in [Devices -> Nat]
    /\ heard \in [Devices -> Endings \cup {"none"}]
    /\ item \in [Devices -> Items \cup {"none"}]
    /\ collected \in SUBSET Devices
    /\ raised \in Raised \cup {"none"}
    /\ attempt \in {"none", "ALLOWED", "DENIED"}
    /\ outcome \in [Devices -> {"none", "SUCCESS", "CONNECTION_ERROR"}]
    /\ reply \in Reply

\* No session is opened for a command unless its command_attempt line, with
\* the verdict ALLOWED, is already in the audit log (server.py 266-276,
\* 317-326): neither a denial nor a broken audit log lets one through.
AuditedBeforeContact ==
    \A d \in Devices :
        dialed[d] # None => attempt = "ALLOWED" /\ call.command \in Permitted

\* However a call goes (timeouts, failed saves, audit failures, a crash), the
\* command reaches no device twice: nothing in the tools retries.
AtMostOnce == \A d \in Devices : executed[d] <= 1

\* Every session of a call is opened to an address, and on a target list, that
\* one single version of the inventory file gives, however the file is edited
\* while the call runs; and a summary covers exactly that version's targets.
OneInventoryVersion ==
    LET Dialed == {d \in Devices : dialed[d] # None}
    IN  Dialed # {} =>
          \E inv \in Inventories :
            /\ Resolvable(inv, call.target)
            /\ \A d \in Dialed : /\ d \in DeviceNames(inv, call.target)
                                 /\ dialed[d] = inv.host[d]
            /\ pc = "replied" /\ reply.code = "ITEMS" =>
                 DOMAIN reply.items = DeviceNames(inv, call.target)

\* The answer tells a client that `code` is what became of device d.
Says(d, code) ==
    /\ pc = "replied"
    /\ \/ call.tool = "single" /\ call.target = d /\ reply.code = code
       \/ d \in DOMAIN reply.items /\ reply.items[d] = code

\* What the answer says of a device and what the audit log holds agree: output,
\* and the failure to save it, go with a command that ran and a SUCCESS line,
\* a connection error with a CONNECTION_ERROR line of that device.
AnswerMatchesLog ==
    \A d \in Devices, code \in Items :
        Says(d, code) =>
            /\ code \in GoodItems \cup {"OUTPUT_SAVE_FAILED"} =>
                   executed[d] = 1 /\ outcome[d] = "SUCCESS"
            /\ code \in ConnectionCodes => outcome[d] = "CONNECTION_ERROR"

\* execution_state is true: "not_started" is only said when no device was even
\* dialed, "completed" only when the command ran (tool_results.py 31, audit.py
\* 88-92, server.py 243).
TrueExecutionState ==
    pc = "replied" =>
        /\ reply.state = "not_started" => \A d \in Devices : dialed[d] = None
        /\ reply.state = "completed" => \E d \in Devices : executed[d] = 1

\* A partial failure does not discard successful output, as long as no device
\* of the call is named "error".
PartialFailureKeepsOutput ==
    (/\ pc = "replied" /\ raised = "none"
     /\ call.tool = "group" /\ snapshot # None
     /\ ErrorName \notin Submitted)
    => \A d \in Submitted :
           item[d] \in GoodItems => d \in DOMAIN reply.items
                                    /\ reply.items[d] = item[d]

\* Once a call is answered, or its process gone, nothing is sent to a device
\* and nothing logged on its behalf: no worker outlives its call.
QuietAfterAnswer ==
    [][pc' # "validate" /\ pc \in Waiting =>
          UNCHANGED <<dialed, executed, outcome>>]_vars

\* The tools implement AuditedExecution: the call is open while the serving
\* thread works on it, and its targets are those of the snapshot it works from.
Abstract == INSTANCE AuditedExecution WITH
    open    <- pc \notin Waiting,
    verdict <- attempt,
    targets <- IF pc \in {"one", "pool", "drain"} THEN Submitted ELSE {},
    ran     <- executed

KeepsThePromise == Abstract!Promise

\* Every call is answered unless its process dies, with sessions that fail,
\* audit failures and exceptions in the workers.
EveryCallEnds == pc \notin Waiting ~> pc \in Waiting

-----------------------------------------------------------------------------
(* What the documentation says of the program and the code does not do. *)

\* audit.py 9-11 and 29: once the audit log has failed, device execution does
\* not continue.  (The serving thread has the AuditWriteError in hand here.)
ExecutionStopsOnAuditFailure ==
    [][raised = "AUDIT_WRITE_FAILED" =>
          \A d \in Devices : job[d] = "queued" => job'[d] # "connecting"]_vars

\* audit.py 3-5: every command sent to a device has a line written after the
\* connection attempt completes, except where that very write failed.
OutcomeLineForEveryCommand ==
    pc = "replied" =>
        \A d \in Devices :
            executed[d] > 0 /\ item[d] # "AUDIT_WRITE_FAILED" =>
                outcome[d] # "none"

\* README.md 272: partial failure does not discard successful output.
SuccessfulOutputKept ==
    (pc = "replied" /\ raised = "none" /\ call.tool = "group" /\ snapshot # None)
    => \A d \in Submitted :
           item[d] \in GoodItems => d \in DOMAIN reply.items
=============================================================================
