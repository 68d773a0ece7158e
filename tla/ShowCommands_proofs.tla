------------------------- MODULE ShowCommands_proofs -------------------------
(***************************************************************************)
(* Proofs about ShowCommands, for every set of devices, commands and calls,*)
(* every collection of inventory versions and every --max-workers.         *)
(***************************************************************************)
EXTENDS ShowCommands, TLAPS

\* The answer that reports one code for the whole call is an answer.
LEMMA WholeIsReply ==
    ASSUME NEW code \in Items \cup RefusalCodes
    PROVE  /\ Whole(code) \in Reply
           /\ [Whole(code) EXCEPT !.state = "not_started"] \in Reply
<1>1. NoItems \in [{} -> Items]
  BY DEF NoItems
<1>2. NoItems \in UNION {[S -> Items] : S \in SUBSET Devices}
  BY <1>1
<1>3. ExecutionState(code) \in States
  BY DEF ExecutionState, States
<1> QED
  BY <1>2, <1>3 DEF Whole, Reply, States

\* So is the one that stands for "not answered yet".
LEMMA NoReplyIsReply == NoReply \in Reply
<1>1. NoItems \in UNION {[S -> Items] : S \in SUBSET Devices}
  BY DEF NoItems
<1> QED
  BY <1>1 DEF NoReply, Reply, States

\* The adapter turns what the pool collected into an answer.
LEMMA AdapterIsReply ==
    ASSUME NEW S \in SUBSET Devices, NEW results \in [S -> Items]
    PROVE  Adapter(results) \in Reply
<1>1. CASE ErrorName \in DOMAIN results /\ results[ErrorName] \in FailedItems
  BY <1>1, WholeIsReply DEF Adapter, Items
<1>2. CASE ~(ErrorName \in DOMAIN results /\ results[ErrorName] \in FailedItems)
  <2>1. results \in UNION {[T -> Items] : T \in SUBSET Devices}
    OBVIOUS
  <2> QED
    BY <1>2, <2>1 DEF Adapter, Reply, States
<1> QED
  BY <1>1, <1>2

\* What get_device_names returns for a target it resolves are device names.
LEMMA DeviceNamesAreDevices ==
    ASSUME NEW inv \in Inventories, NEW target, Resolvable(inv, target)
    PROVE  DeviceNames(inv, target) \in SUBSET Devices
<1>1. inv \in Inventory
  BY ConstantsAssumption
<1>2. inv.devices \in SUBSET Devices
  BY <1>1 DEF Inventory
<1>3. CASE target = All \/ target \in inv.devices
  BY <1>2, <1>3 DEF DeviceNames
<1>4. CASE ~(target = All \/ target \in inv.devices)
  BY <1>2, <1>4 DEF DeviceNames, Resolvable
<1> QED
  BY <1>3, <1>4

-----------------------------------------------------------------------------
(* Type correctness. *)

Contacting == {"one", "pool", "drain"}

\* The call is bound while it is served; so is the snapshot its targets are
\* read from; a job belongs to a call that has a snapshot; a job that saves
\* has output, and one that is done has left a result in its future.
Bound ==
    /\ pc # "idle" => call \in Calls
    /\ pc \in Contacting =>
          /\ snapshot \in Inventories
          /\ Resolvable(snapshot, call.target)
          /\ Submitted \in SUBSET Devices
          /\ pc = "one" => call.target \in Devices
          /\ pc = "drain" => raised \in Raised
    /\ \A d \in Devices :
          /\ job[d] # "none" => snapshot \in Inventories
          /\ job[d] \in {"saving"} => heard[d] \in Outputs
          /\ job[d] = "done" => item[d] \in Items

TypeInv == TypeOK /\ Bound

\* A server that has just started has every variable in its type.
LEMMA InitTypeInv == Init => TypeInv
<1> SUFFICES ASSUME Init PROVE TypeInv
  OBVIOUS
<1>1. TypeOK
  BY NoReplyIsReply DEF Init, TypeOK, Waiting, Active
<1>2. Bound
  BY DEF Init, Bound, Contacting
<1> QED
  BY <1>1, <1>2 DEF TypeInv

\* Every step keeps the types and the bindings they rest on.
LEMMA NextTypeInv == TypeInv /\ [Next]_vars => TypeInv'
<1> SUFFICES ASSUME TypeInv, [Next]_vars PROVE TypeInv'
  OBVIOUS
<1> USE DEF TypeInv, TypeOK, Bound, Waiting, Active, callVars, jobVars,
            Contacting
<1>1. ASSUME NEW c \in Calls, Request(c) PROVE TypeInv'
  BY <1>1, NoReplyIsReply DEF Request
<1>2. CASE LogCommandAttempt
  <2>1. Whole("DENIED") \in Reply
    BY WholeIsReply DEF RefusalCodes
  <2> QED
    BY <1>2, <2>1 DEF LogCommandAttempt, Answer
<1>3. CASE AttemptNotLogged
  <2>1. [Whole("AUDIT_WRITE_FAILED") EXCEPT !.state = "not_started"] \in Reply
    BY WholeIsReply DEF Items, Raised
  <2> QED
    BY <1>3, <2>1 DEF AttemptNotLogged, Answer
<1>4. CASE LoadRefused
  <2>1. Whole(Refusal) \in Reply
    BY WholeIsReply DEF RefusalCodes, Refusal
  <2> QED
    BY <1>4, <2>1 DEF LoadRefused, Answer
<1>5. CASE LoadForOne
  <2>1. inventory \in Inventories /\ call \in Calls
    BY <1>5 DEF LoadForOne, Found, Loaded
  <2>2. call.target \in inventory.devices
    BY <1>5 DEF LoadForOne, Found, Loaded
  <2>3. inventory.devices \in SUBSET Devices /\ inventory.host \in [Devices -> Hosts]
    BY <2>1, ConstantsAssumption DEF Inventory
  <2>4. Resolvable(inventory, call.target)
    BY <2>2 DEF Resolvable
  <2>5. DeviceNames(inventory, call.target) \in SUBSET Devices
    BY <2>1, <2>4, DeviceNamesAreDevices
  <2>6. TypeOK'
    BY <1>5, <2>1, <2>2, <2>3 DEF LoadForOne
  <2>7. Bound'
    BY <1>5, <2>1, <2>2, <2>3, <2>4, <2>5 DEF LoadForOne, Submitted
  <2> QED
    BY <2>6, <2>7
<1>6. CASE LoadForGroup
  <2>1. inventory \in Inventories /\ Resolvable(inventory, call.target)
    BY <1>6 DEF LoadForGroup, Found, Loaded
  <2>2. DeviceNames(inventory, call.target) \in SUBSET Devices
    BY <2>1, DeviceNamesAreDevices
  <2>3. TypeOK'
    BY <1>6, <2>1, <2>2 DEF LoadForGroup
  <2>4. Bound'
    BY <1>6, <2>1, <2>2 DEF LoadForGroup, Submitted
  <2> QED
    BY <2>3, <2>4
<1>7. ASSUME NEW d \in Devices, Submit(d) PROVE TypeInv'
  BY <1>7 DEF Submit, Submitted
<1>8. ASSUME NEW d \in Devices, Collect(d) PROVE TypeInv'
  BY <1>8 DEF Collect, Submitted
<1>9. CASE Finish
  <2> DEFINE results == [d \in collected |-> item[d]]
  <2>1. \A d \in collected : item[d] \in Items
    BY <1>9 DEF Finish, PoolShutDown
  <2>2. Adapter(results) \in Reply
    BY <2>1, AdapterIsReply
  <2> QED
    BY <1>9, <2>2 DEF Finish, Answer
<1>10. CASE FinishRaised
  <2>1. Whole(raised) \in Reply
    BY <1>10, WholeIsReply DEF FinishRaised, Items
  <2> QED
    BY <1>10, <2>1 DEF FinishRaised, Answer
<1>11. CASE FinishOne
  <2>1. Whole(item[call.target]) \in Reply
    BY <1>11, WholeIsReply DEF FinishOne
  <2> QED
    BY <1>11, <2>1 DEF FinishOne, Answer
<1>12. ASSUME NEW d \in Devices, Job(d) \/ SendCommand(d) PROVE TypeInv'
  <2>1. CASE StartJob(d)
    <3>1. snapshot.host[d] \in Hosts
      BY <2>1, ConstantsAssumption DEF StartJob, Inventory
    <3> QED
      BY <2>1, <3>1 DEF StartJob, Submitted
  <2>2. CASE SendCommand(d)
    BY <2>2 DEF SendCommand, Submitted
  <2>3. ASSUME NEW ending \in Endings, SessionEnds(d, ending) PROVE TypeInv'
    BY <2>3 DEF SessionEnds, Submitted, Items, Raised
  <2>4. CASE LogSuccess(d)
    BY <2>4 DEF LogSuccess, Submitted
  <2>5. CASE LogConnectionError(d)
    BY <2>5 DEF LogConnectionError, Submitted, ConnectionFailure, Items,
                FailedItems, ConnectionCodes
  <2>6. CASE OutcomeNotLogged(d)
    BY <2>6 DEF OutcomeNotLogged, Submitted, Items, Raised
  <2>7. CASE MaybeSaveOutput(d)
    <3>1. PICK result \in {"SAVED", "OUTPUT_SAVE_FAILED", "OUTPUT"} :
             item' = [item EXCEPT ![d] = result]
      BY <2>7 DEF MaybeSaveOutput
    <3>2. result \in Items
      BY DEF Items, GoodItems, FailedItems
    <3> QED
      BY <2>7, <3>1, <3>2 DEF MaybeSaveOutput, Submitted
  <2> QED
    BY <1>12, <2>1, <2>2, <2>3, <2>4, <2>5, <2>6, <2>7 DEF Job, Session
<1>13. CASE Crash
  BY <1>13 DEF Crash
<1>14. CASE EditInventory
  BY <1>14 DEF EditInventory, Submitted
<1>15. CASE UNCHANGED vars
  BY <1>15 DEF vars, Submitted
<1> QED
  BY <1>1, <1>2, <1>3, <1>4, <1>5, <1>6, <1>7, <1>8, <1>9, <1>10, <1>11, <1>12,
     <1>13, <1>14, <1>15 DEF Next, Main

\* Every variable stays in its type, whatever the devices, the editor of the
\* inventory file and the audit log do.
THEOREM TypeCorrect == Spec => []TypeOK
<1>1. Spec => []TypeInv
  BY InitTypeInv, NextTypeInv, PTL DEF Spec
<1>2. TypeInv => TypeOK
  BY DEF TypeInv
<1> QED
  BY <1>1, <1>2, PTL

-----------------------------------------------------------------------------
(* Safety.  A job is tied to the phase of the call it belongs to and to what *)
(* its device has seen:                                                      *)
(*   - before the pool is opened, and once the call is answered, no job is   *)
(*     queued or active (so nothing outlives its call);                      *)
(*   - a job that is queued has not been dialed, one that is connecting has  *)
(*     not sent its command, one that is sent or later has sent it once;     *)
(*   - a result of a given kind goes with the line of that kind.             *)

Approved == attempt = "ALLOWED" /\ call.command \in Permitted

Untouched(d) == dialed[d] = None /\ executed[d] = 0 /\ outcome[d] = "none"

Phases ==
    /\ pc \in {"load"} \cup Contacting => Approved
    /\ pc = "validate" => attempt = "none"
    /\ pc \in {"idle", "validate", "load"} =>
          \A d \in Devices : job[d] = "none" /\ Untouched(d)
    /\ pc \notin Contacting => \A d \in Devices : job[d] \in {"none", "done"}
    /\ pc \in Contacting =>
          \A d \in Devices :
             /\ d \in todo => job[d] = "none" /\ d \in Submitted
             /\ job[d] # "none" => d \in Submitted
    /\ pc = "one" => Submitted = {call.target}
    /\ pc # "pool" => todo = {}

Progress(d) ==
    /\ dialed[d] # None => Approved
    /\ executed[d] <= 1
    /\ pc # "crashed" /\ job[d] \in {"none", "queued"} => Untouched(d)
    /\ job[d] = "connecting" => executed[d] = 0
    /\ job[d] = "sent" => executed[d] = 1
    /\ job[d] = "answered" /\ heard[d] \in Outputs => executed[d] = 1
    /\ job[d] = "saving" => executed[d] = 1 /\ outcome[d] = "SUCCESS"
    /\ job[d] = "done" =>
          /\ item[d] \in GoodItems \cup {"OUTPUT_SAVE_FAILED"} =>
                 executed[d] = 1 /\ outcome[d] = "SUCCESS"
          /\ item[d] \in ConnectionCodes => outcome[d] = "CONNECTION_ERROR"

Safe == Phases /\ \A d \in Devices : Progress(d)

IInv == TypeInv /\ Safe

\* Before the first call no device is touched.
LEMMA InitSafe == Init => Safe
BY DEF Init, Safe, Phases, Progress, Untouched, Contacting

\* Every step keeps what the phase of the call and the progress of each job say.
LEMMA NextSafe == IInv /\ TypeInv' /\ [Next]_vars => Safe'
<1> SUFFICES ASSUME IInv, TypeInv', [Next]_vars PROVE Safe'
  OBVIOUS
<1> USE DEF IInv, Safe, Phases, Progress, Untouched, Approved, Contacting,
            Waiting, Active, callVars, jobVars, TypeInv, TypeOK, Bound
<1>1. ASSUME NEW c \in Calls, Request(c) PROVE Safe'
  BY <1>1 DEF Request
<1>2. CASE LogCommandAttempt
  BY <1>2 DEF LogCommandAttempt, Answer
<1>3. CASE AttemptNotLogged
  BY <1>3 DEF AttemptNotLogged, Answer
<1>4. CASE LoadRefused
  BY <1>4 DEF LoadRefused, Answer
<1>5. CASE LoadForOne
  <2>1. inventory \in Inventories /\ call.target \in inventory.devices
    BY <1>5 DEF LoadForOne, Found, Loaded
  <2>2. call.target \in Devices /\ call.target # All
    BY <1>5, <2>1, ConstantsAssumption DEF LoadForOne
  <2>3. Submitted' = {call.target}
    BY <1>5, <2>1, <2>2 DEF LoadForOne, Submitted, DeviceNames
  <2>4. inventory.host[call.target] \in Hosts
    BY <2>1, <2>2, ConstantsAssumption DEF Inventory
  <2> QED
    BY <1>5, <2>2, <2>3, <2>4 DEF LoadForOne
<1>6. CASE LoadForGroup
  BY <1>6 DEF LoadForGroup, Submitted
<1>7. ASSUME NEW d \in Devices, Submit(d) PROVE Safe'
  BY <1>7 DEF Submit, Submitted
<1>8. ASSUME NEW d \in Devices, Collect(d) PROVE Safe'
  BY <1>8 DEF Collect, Submitted
<1>9. CASE Finish
  BY <1>9 DEF Finish, Answer, PoolShutDown, Submitted
<1>10. CASE FinishRaised
  BY <1>10 DEF FinishRaised, Answer, PoolShutDown, Submitted
<1>11. CASE FinishOne
  BY <1>11 DEF FinishOne, Answer, Submitted
<1>12. ASSUME NEW d \in Devices, Job(d) \/ SendCommand(d) PROVE Safe'
  <2>1. CASE StartJob(d)
    BY <2>1 DEF StartJob, Submitted
  <2>2. CASE SendCommand(d)
    BY <2>2 DEF SendCommand, Submitted
  <2>3. ASSUME NEW ending \in Endings, SessionEnds(d, ending) PROVE Safe'
    BY <2>3 DEF SessionEnds, Submitted, GoodItems, ConnectionCodes
  <2>4. CASE LogSuccess(d)
    BY <2>4 DEF LogSuccess, Submitted
  <2>5. CASE LogConnectionError(d)
    <3>1. ConnectionFailure(heard[d]) \in ConnectionCodes
      BY DEF ConnectionFailure, ConnectionCodes
    <3>2. ConnectionFailure(heard[d]) \notin GoodItems \cup {"OUTPUT_SAVE_FAILED"}
      BY DEF ConnectionFailure, GoodItems
    <3> QED
      BY <2>5, <3>1, <3>2 DEF LogConnectionError, Submitted
  <2>6. CASE OutcomeNotLogged(d)
    BY <2>6 DEF OutcomeNotLogged, Submitted, GoodItems, ConnectionCodes
  <2>7. CASE MaybeSaveOutput(d)
    <3>1. PICK result \in {"SAVED", "OUTPUT_SAVE_FAILED", "OUTPUT"} :
             item' = [item EXCEPT ![d] = result]
      BY <2>7 DEF MaybeSaveOutput
    <3>2. result \notin ConnectionCodes
      BY DEF ConnectionCodes
    <3> QED
      BY <2>7, <3>1, <3>2 DEF MaybeSaveOutput, Submitted
  <2> QED
    BY <1>12, <2>1, <2>2, <2>3, <2>4, <2>5, <2>6, <2>7 DEF Job, Session
<1>13. CASE Crash
  BY <1>13 DEF Crash
<1>14. CASE EditInventory
  BY <1>14 DEF EditInventory, Submitted
<1>15. CASE UNCHANGED vars
  BY <1>15 DEF vars, Submitted
<1> QED
  BY <1>1, <1>2, <1>3, <1>4, <1>5, <1>6, <1>7, <1>8, <1>9, <1>10, <1>11, <1>12,
     <1>13, <1>14, <1>15 DEF Next, Main

\* The inductive invariant: types, bindings, phases and progress hold for ever.
THEOREM Invariance == Spec => []IInv
<1>1. Init => IInv
  BY InitTypeInv, InitSafe DEF IInv
<1>2. IInv /\ [Next]_vars => IInv'
  BY NextTypeInv, NextSafe DEF IInv
<1> QED
  BY <1>1, <1>2, PTL DEF Spec

\* No session without its ALLOWED line in the audit log.
THEOREM AuditedBeforeContactHolds == Spec => []AuditedBeforeContact
<1>1. IInv => AuditedBeforeContact
  BY DEF IInv, Safe, Progress, Approved, AuditedBeforeContact
<1> QED
  BY <1>1, Invariance, PTL

\* No device gets the command of a call twice.
THEOREM AtMostOnceHolds == Spec => []AtMostOnce
<1>1. IInv => AtMostOnce
  BY DEF IInv, Safe, Progress, AtMostOnce
<1> QED
  BY <1>1, Invariance, PTL

\* While no call is served only a client or an editor of the inventory acts.
LEMMA WaitingIsQuiet ==
    ASSUME IInv, Next, pc \in Waiting
    PROVE  (\E c \in Calls : Request(c)) \/ EditInventory
<1>1. \A d \in Devices : job[d] \in {"none", "done"}
  BY DEF IInv, Safe, Phases, Contacting, Waiting
<1>2. ~Main /\ ~Crash
  BY DEF Main, LogCommandAttempt, AttemptNotLogged, LoadRefused, LoadForOne,
         LoadForGroup, Submit, Collect, Finish, FinishRaised, FinishOne,
         Crash, Waiting
<1>3. ~\E d \in Devices : Job(d) \/ SendCommand(d)
  BY <1>1 DEF Job, Session, StartJob, SendCommand, SessionEnds, LogSuccess,
              LogConnectionError, OutcomeNotLogged, MaybeSaveOutput
<1> QED
  BY <1>2, <1>3 DEF Next

\* No worker outlives its call.
THEOREM QuietAfterAnswerHolds == Spec => QuietAfterAnswer
<1> DEFINE Quiet == pc' # "validate" /\ pc \in Waiting =>
                      UNCHANGED <<dialed, executed, outcome>>
<1>1. IInv /\ [Next]_vars => [Quiet]_vars
  <2> SUFFICES ASSUME IInv, Next, pc \in Waiting, pc' # "validate"
               PROVE  UNCHANGED <<dialed, executed, outcome>>
    OBVIOUS
  <2>1. ~\E c \in Calls : Request(c)
    BY DEF Request
  <2>2. EditInventory
    BY <2>1, WaitingIsQuiet
  <2> QED
    BY <2>2 DEF EditInventory, jobVars
<1> QED
  BY <1>1, Invariance, PTL DEF Spec, QuietAfterAnswer

-----------------------------------------------------------------------------
(* What the client is told.  The three properties of the answer need, on top *)
(* of IInv, which tool each phase serves, that no snapshot is taken before   *)
(* the inventory is loaded, and that a session goes where that snapshot says.*)

Course ==
    /\ pc = "one" => call.tool = "single"
    /\ pc \in {"pool", "drain"} => call.tool = "group"
    /\ pc \in {"idle", "validate", "load"} => snapshot = None
    /\ pc \in Contacting =>
          \A d \in Devices : dialed[d] # None => dialed[d] = snapshot.host[d]

Told == /\ AnswerMatchesLog
        /\ TrueExecutionState
        /\ OneInventoryVersion
        /\ PartialFailureKeepsOutput

Answered == Course /\ Told

\* Before the first call nothing has been told.
LEMMA InitAnswered == Init => Answered
BY ConstantsAssumption
   DEF Init, Answered, Course, Told, Contacting, AnswerMatchesLog, Says,
       TrueExecutionState, OneInventoryVersion, PartialFailureKeepsOutput

\* As long as no answer is out, the properties of the answer say one thing: the
\* sessions of the call go where its snapshot says.
LEMMA NothingToldYet ==
    ASSUME IInv, Course, pc \in {"idle", "validate", "load"} \cup Contacting
    PROVE  Told
<1>1. AnswerMatchesLog /\ TrueExecutionState /\ PartialFailureKeepsOutput
  BY DEF AnswerMatchesLog, Says, TrueExecutionState, PartialFailureKeepsOutput,
         Contacting
<1>2. CASE pc \in {"idle", "validate", "load"}
  <2>1. \A d \in Devices : dialed[d] = None
    BY <1>2 DEF IInv, Safe, Phases, Untouched
  <2> QED
    BY <1>1, <2>1 DEF Told, OneInventoryVersion
<1>3. CASE pc \in Contacting
  <2>1. snapshot \in Inventories /\ Resolvable(snapshot, call.target)
    BY <1>3 DEF IInv, TypeInv, Bound
  <2>2. \A d \in Devices : dialed[d] # None => d \in Submitted
    BY <1>3 DEF IInv, Safe, Phases, Progress, Untouched, Contacting
  <2>3. \A d \in Devices : dialed[d] # None => dialed[d] = snapshot.host[d]
    BY <1>3 DEF Course
  <2>4. OneInventoryVersion
    BY <1>3, <2>1, <2>2, <2>3 DEF OneInventoryVersion, Submitted, Contacting
  <2> QED
    BY <1>1, <2>4 DEF Told
<1> QED
  BY <1>2, <1>3

\* Every step keeps the tie between phase, tool, snapshot and sessions.
LEMMA NextCourse == IInv /\ Course /\ [Next]_vars => Course'
<1> SUFFICES ASSUME IInv, Course, [Next]_vars PROVE Course'
  OBVIOUS
<1> USE DEF Course, Contacting, callVars, jobVars
<1>0. dialed \in [Devices -> Hosts \cup {None}] /\ pc \in {"validate", "load"} \cup Contacting \cup Waiting
  BY DEF IInv, TypeInv, TypeOK
<1>1. CASE LoadForOne \/ LoadForGroup
  <2>1. \A d \in Devices : dialed[d] = None
    BY <1>1 DEF LoadForOne, LoadForGroup, IInv, Safe, Phases, Untouched
  <2>2. call \in Calls /\ call.tool \in {"single", "group"}
    BY <1>1, ConstantsAssumption DEF LoadForOne, LoadForGroup, IInv, TypeInv,
                                     Bound, Call
  <2> QED
    BY <1>0, <1>1, <2>1, <2>2 DEF LoadForOne, LoadForGroup
<1>2. ASSUME NEW d \in Devices, StartJob(d) PROVE Course'
  BY <1>0, <1>2 DEF StartJob
<1>3. ASSUME NEW d \in Devices,
             \/ Submit(d) \/ Collect(d) \/ SendCommand(d) \/ Session(d)
             \/ LogSuccess(d) \/ LogConnectionError(d)
             \/ OutcomeNotLogged(d) \/ MaybeSaveOutput(d)
      PROVE  Course'
  BY <1>3 DEF Submit, Collect, SendCommand, Session, SessionEnds, LogSuccess,
              LogConnectionError, OutcomeNotLogged, MaybeSaveOutput
<1>4. CASE \/ \E c \in Calls : Request(c)
           \/ LogCommandAttempt \/ AttemptNotLogged \/ LoadRefused
           \/ Finish \/ FinishRaised \/ FinishOne
           \/ Crash \/ EditInventory \/ UNCHANGED vars
  BY <1>0, <1>4 DEF Request, LogCommandAttempt, AttemptNotLogged, LoadRefused,
              Finish, FinishRaised, FinishOne, Crash, EditInventory, Answer, vars
<1> QED
  BY <1>1, <1>2, <1>3, <1>4 DEF Next, Main, Job

\* A refusal, before any session, is told truly.
LEMMA RefusalIsTrue ==
    ASSUME IInv, Course, pc \in {"validate", "load"},
           pc' = "replied", reply'.items = NoItems,
           reply'.code \in RefusalCodes \cup {"AUDIT_WRITE_FAILED"},
           reply'.state = "not_started",
           UNCHANGED <<call, snapshot, jobVars>>
    PROVE  Told'
<1>1. \A d \in Devices : dialed'[d] = None
  BY DEF IInv, Safe, Phases, Untouched, jobVars
<1>2. snapshot' = None
  BY DEF Course
<1>3. DOMAIN reply'.items = {}
  BY DEF NoItems
<1>4. AnswerMatchesLog'
  BY <1>3 DEF AnswerMatchesLog, Says, RefusalCodes, Items, GoodItems,
              FailedItems, ConnectionCodes, Raised
<1>5. TrueExecutionState'
  BY <1>1 DEF TrueExecutionState
<1>6. OneInventoryVersion'
  BY <1>1 DEF OneInventoryVersion
<1>7. PartialFailureKeepsOutput'
  BY <1>2 DEF PartialFailureKeepsOutput
<1> QED
  BY <1>4, <1>5, <1>6, <1>7 DEF Told

\* The answer to a call that has contacted its devices is true of the sessions'
\* addresses as soon as it lists all targets or none.
LEMMA AnswerOfOneVersion ==
    ASSUME IInv, Course, pc \in Contacting,
           UNCHANGED <<call, snapshot, jobVars>>,
           reply'.code = "ITEMS" => DOMAIN reply'.items = Submitted
    PROVE  OneInventoryVersion'
<1>1. snapshot \in Inventories /\ Resolvable(snapshot, call.target)
  BY DEF IInv, TypeInv, Bound
<1>2. \A d \in Devices : dialed[d] # None => d \in Submitted
  BY DEF IInv, Safe, Phases, Progress, Untouched, Contacting
<1>3. \A d \in Devices : dialed[d] # None => dialed[d] = snapshot.host[d]
  BY DEF Course
<1> QED
  BY <1>1, <1>2, <1>3 DEF OneInventoryVersion, Submitted, jobVars

\* What send_command_to_group answers once every future is collected is true.
LEMMA SummaryIsTrue ==
    ASSUME IInv, Course, Finish
    PROVE  Told'
<1> DEFINE results == [d \in collected |-> item[d]]
<1>1. /\ pc = "pool" /\ call.tool = "group" /\ pc' = "replied"
      /\ reply' = Adapter(results) /\ collected = Submitted
      /\ UNCHANGED <<call, snapshot, raised, jobVars>>
  BY DEF Finish, Answer, Course
<1>2. Submitted \in SUBSET Devices /\ Submitted' = Submitted
  BY <1>1 DEF IInv, TypeInv, Bound, Contacting, Submitted
<1>3. \A d \in Submitted : job[d] = "done" /\ item[d] \in Items
  BY <1>2 DEF Finish, PoolShutDown, IInv, TypeInv, Bound
<1>4. \A d \in Submitted :
        /\ item[d] \in GoodItems \cup {"OUTPUT_SAVE_FAILED"} =>
               executed[d] = 1 /\ outcome[d] = "SUCCESS"
        /\ item[d] \in ConnectionCodes => outcome[d] = "CONNECTION_ERROR"
  BY <1>2, <1>3 DEF IInv, Safe, Progress
<1>5. CASE ErrorName \in DOMAIN results /\ results[ErrorName] \in FailedItems
  <2>1. ErrorName \in Submitted /\ reply' = Whole(item[ErrorName])
    BY <1>1, <1>5 DEF Adapter
  <2>2. /\ DOMAIN reply'.items = {} /\ reply'.code = item[ErrorName]
        /\ reply'.state = ExecutionState(item[ErrorName])
    BY <2>1 DEF Whole, NoItems
  <2>3. item[ErrorName] \in FailedItems
    BY <1>5, <2>1, <1>1
  <2>4. AnswerMatchesLog'
    BY <1>1, <2>2 DEF AnswerMatchesLog, Says
  <2>5. /\ reply'.state # "not_started"
        /\ reply'.state = "completed" => item[ErrorName] = "OUTPUT_SAVE_FAILED"
    BY <2>2, <2>3 DEF ExecutionState, FailedItems, RefusalCodes, ConnectionCodes
  <2>6. TrueExecutionState'
    BY <1>1, <1>2, <1>4, <2>1, <2>5 DEF TrueExecutionState, jobVars
  <2>7. reply'.code # "ITEMS"
    BY <2>2, <2>3 DEF FailedItems, ConnectionCodes
  <2>8. OneInventoryVersion'
    BY <1>1, <2>7, AnswerOfOneVersion DEF Contacting
  <2>9. PartialFailureKeepsOutput'
    BY <1>2, <2>1 DEF PartialFailureKeepsOutput
  <2> QED
    BY <2>4, <2>6, <2>8, <2>9 DEF Told
<1>6. CASE ~(ErrorName \in DOMAIN results /\ results[ErrorName] \in FailedItems)
  <2>1. reply' = [code |-> "ITEMS", state |-> "none", items |-> results]
    BY <1>1, <1>6 DEF Adapter
  <2>2. /\ reply'.code = "ITEMS" /\ reply'.state = "none"
        /\ DOMAIN reply'.items = Submitted
        /\ \A d \in Submitted : reply'.items[d] = item[d]
    BY <1>1, <2>1
  <2>3. AnswerMatchesLog'
    BY <1>1, <1>4, <2>2 DEF AnswerMatchesLog, Says, jobVars
  <2>4. TrueExecutionState'
    BY <2>2 DEF TrueExecutionState
  <2>5. OneInventoryVersion'
    BY <1>1, <2>2, AnswerOfOneVersion DEF Contacting
  <2>6. PartialFailureKeepsOutput'
    BY <1>1, <1>2, <2>2 DEF PartialFailureKeepsOutput, jobVars
  <2> QED
    BY <2>3, <2>4, <2>5, <2>6 DEF Told
<1> QED
  BY <1>5, <1>6

\* So is the answer to a group call that an exception has ended.
LEMMA RaisedIsTrue ==
    ASSUME IInv, Course, FinishRaised
    PROVE  Told'
<1>1. /\ pc = "drain" /\ call.tool = "group" /\ raised \in Raised
      /\ pc' = "replied" /\ reply' = Whole(raised)
      /\ UNCHANGED <<call, snapshot, raised, jobVars>>
  BY DEF FinishRaised, Answer, Course, IInv, TypeInv, Bound, Contacting
<1>2. DOMAIN reply'.items = {} /\ reply'.code = raised
  BY <1>1 DEF Whole, NoItems
<1>3. reply'.state \notin {"not_started", "completed"}
  BY <1>1 DEF Whole, ExecutionState, Raised, ConnectionCodes, RefusalCodes
<1>4. AnswerMatchesLog'
  BY <1>1, <1>2 DEF AnswerMatchesLog, Says
<1>5. TrueExecutionState'
  BY <1>3 DEF TrueExecutionState
<1>6. OneInventoryVersion'
  BY <1>1, <1>2, AnswerOfOneVersion DEF Contacting, Raised
<1>7. PartialFailureKeepsOutput'
  BY <1>1 DEF PartialFailureKeepsOutput, Raised
<1> QED
  BY <1>4, <1>5, <1>6, <1>7 DEF Told

\* And the answer of send_command_and_get_output.
LEMMA SingleAnswerIsTrue ==
    ASSUME IInv, Course, FinishOne
    PROVE  Told'
<1> DEFINE t == call.target
<1>1. /\ pc = "one" /\ call.tool = "single" /\ t \in Devices
      /\ job[t] = "done" /\ item[t] \in Items
      /\ pc' = "replied" /\ reply' = Whole(item[t])
      /\ UNCHANGED <<call, snapshot, jobVars>>
  BY DEF FinishOne, Answer, Course, IInv, TypeInv, Bound, Contacting
<1>2. /\ DOMAIN reply'.items = {} /\ reply'.code = item[t]
      /\ reply'.state = ExecutionState(item[t])
  BY <1>1 DEF Whole, NoItems
<1>3. /\ item[t] \in GoodItems \cup {"OUTPUT_SAVE_FAILED"} =>
             executed[t] = 1 /\ outcome[t] = "SUCCESS"
      /\ item[t] \in ConnectionCodes => outcome[t] = "CONNECTION_ERROR"
  BY <1>1 DEF IInv, Safe, Progress
<1>4. AnswerMatchesLog'
  BY <1>1, <1>2, <1>3 DEF AnswerMatchesLog, Says, jobVars
<1>5. /\ reply'.state # "not_started"
      /\ reply'.state = "completed" => item[t] = "OUTPUT_SAVE_FAILED"
  BY <1>1, <1>2 DEF ExecutionState, Items, GoodItems, FailedItems, Raised,
                    RefusalCodes, ConnectionCodes
<1>6. TrueExecutionState'
  BY <1>1, <1>3, <1>5 DEF TrueExecutionState, jobVars
<1>7. reply'.code # "ITEMS"
  BY <1>1, <1>2 DEF Items, GoodItems, FailedItems, Raised, ConnectionCodes
<1>8. OneInventoryVersion'
  BY <1>1, <1>7, AnswerOfOneVersion DEF Contacting
<1>9. PartialFailureKeepsOutput'
  BY <1>1 DEF PartialFailureKeepsOutput
<1> QED
  BY <1>4, <1>6, <1>8, <1>9 DEF Told

\* Every step keeps the properties of the answer: those that answer by the four
\* lemmas above, those between calls because they change nothing the properties
\* mention, the others because no answer is out after them.
LEMMA NextTold == IInv /\ Answered /\ IInv' /\ Course' /\ [Next]_vars => Told'
<1> SUFFICES ASSUME IInv, Answered, IInv', Course', [Next]_vars PROVE Told'
  OBVIOUS
<1> USE DEF Answered
<1>1. CASE pc' \in {"idle", "validate", "load"} \cup Contacting
  <2>1. (IInv /\ Course /\ pc \in {"idle", "validate", "load"} \cup Contacting
           => Told)'
    BY NothingToldYet, PTL
  <2> QED
    BY <1>1, <2>1
<1>2. CASE pc \in Waiting /\ (EditInventory \/ UNCHANGED vars)
  <2>1. UNCHANGED <<callVars, jobVars>>
    BY <1>2 DEF EditInventory, vars
  <2> QED
    BY <2>1 DEF Told, callVars, jobVars, AnswerMatchesLog, Says,
       TrueExecutionState, OneInventoryVersion, PartialFailureKeepsOutput,
       Submitted
<1>3. CASE pc \notin Waiting /\ pc' = "replied"
  <2>1. CASE (LogCommandAttempt /\ pc' = "replied") \/ AttemptNotLogged \/ LoadRefused
    <3>1. /\ pc \in {"validate", "load"} /\ reply'.items = NoItems
          /\ reply'.code \in RefusalCodes \cup {"AUDIT_WRITE_FAILED"}
          /\ UNCHANGED <<call, snapshot, jobVars>>
      BY <2>1 DEF LogCommandAttempt, AttemptNotLogged, LoadRefused, Answer,
                  Whole, Refusal, RefusalCodes
    <3>2. reply'.state = "not_started"
      BY <2>1 DEF LogCommandAttempt, AttemptNotLogged, LoadRefused, Answer,
                  Whole, Refusal, RefusalCodes, ExecutionState, ConnectionCodes
    <3> QED
      BY <1>3, <3>1, <3>2, RefusalIsTrue
  <2>2. CASE Finish \/ FinishRaised \/ FinishOne
    BY <2>2, SummaryIsTrue, RaisedIsTrue, SingleAnswerIsTrue
  <2>3. (LogCommandAttempt /\ pc' = "replied") \/ AttemptNotLogged \/ LoadRefused
        \/ Finish \/ FinishRaised \/ FinishOne
    BY <1>3 DEF Next, Main, Job, Session, Request, LoadForOne, LoadForGroup,
       Submit, Collect, StartJob, SendCommand, SessionEnds, LogSuccess,
       LogConnectionError, OutcomeNotLogged, MaybeSaveOutput, Crash,
       EditInventory, vars, callVars, Waiting
  <2> QED
    BY <2>1, <2>2, <2>3
<1>4. CASE pc \notin Waiting /\ pc' = "crashed"
  <2>1. Crash
    BY <1>4 DEF Next, Main, Job, Session, Request, LogCommandAttempt,
       AttemptNotLogged, LoadRefused, LoadForOne, LoadForGroup, Finish,
       FinishRaised, FinishOne, Answer, Submit, Collect, StartJob, SendCommand,
       SessionEnds, LogSuccess, LogConnectionError, OutcomeNotLogged,
       MaybeSaveOutput, EditInventory, vars, callVars, Waiting
  <2> QED
    BY <1>4, <2>1 DEF Crash, Told, AnswerMatchesLog, Says, TrueExecutionState,
       OneInventoryVersion, PartialFailureKeepsOutput
<1>5. pc' \in {"idle", "validate", "load", "replied", "crashed"} \cup Contacting
  BY DEF IInv, TypeInv, TypeOK, Waiting, Contacting
<1>6. CASE pc \in Waiting /\ pc' \in {"replied", "crashed"}
  <2>1. ~\E c \in Calls : Request(c)
    BY <1>6 DEF Request
  <2> QED
    BY <1>2, <1>6, <2>1, WaitingIsQuiet
<1> QED
  BY <1>1, <1>3, <1>4, <1>5, <1>6

\* The invariant behind the properties of the answer.
THEOREM AnsweredHolds == Spec => []Answered
<1>1. IInv /\ Answered /\ IInv' /\ [Next]_vars => Answered'
  BY NextCourse, NextTold DEF Answered
<1> QED
  BY <1>1, InitAnswered, Invariance, PTL DEF Spec

\* What the answer says of a device and what the audit log holds agree.
THEOREM AnswerMatchesLogHolds == Spec => []AnswerMatchesLog
<1>1. Answered => AnswerMatchesLog
  BY DEF Answered, Told
<1> QED
  BY <1>1, AnsweredHolds, PTL

\* execution_state is true.
THEOREM TrueExecutionStateHolds == Spec => []TrueExecutionState
<1>1. Answered => TrueExecutionState
  BY DEF Answered, Told
<1> QED
  BY <1>1, AnsweredHolds, PTL

\* A call's sessions and its summary come from one version of the inventory.
THEOREM OneInventoryVersionHolds == Spec => []OneInventoryVersion
<1>1. Answered => OneInventoryVersion
  BY DEF Answered, Told
<1> QED
  BY <1>1, AnsweredHolds, PTL

\* A partial failure keeps the output of the other devices, unless one of the
\* call's devices is named "error".
THEOREM PartialFailureKeepsOutputHolds == Spec => []PartialFailureKeepsOutput
<1>1. Answered => PartialFailureKeepsOutput
  BY DEF Answered, Told
<1> QED
  BY <1>1, AnsweredHolds, PTL

-----------------------------------------------------------------------------
(* The tools implement AuditedExecution. *)

\* Every behaviour of the two tools is one of AuditedExecution: a step of theirs
\* is a step of it or changes nothing it knows.
THEOREM Refinement == Spec => KeepsThePromise
<1>1. Init => Abstract!Start
  BY DEF Init, Abstract!Start, Waiting
<1>2. IInv /\ TypeInv' /\ [Next]_vars => [Abstract!Step]_(Abstract!specVars)
  <2> SUFFICES ASSUME IInv, TypeInv', [Next]_vars
               PROVE  Abstract!Step \/ UNCHANGED Abstract!specVars
    OBVIOUS
  <2> USE DEF Abstract!specVars, callVars, jobVars, Waiting, Submitted
  <2>1. executed \in [Devices -> Nat] /\ executed' \in [Devices -> Nat]
    BY DEF IInv, TypeInv, TypeOK
  <2>2. ASSUME NEW c \in Calls, Request(c) PROVE Abstract!Step
    BY <2>2 DEF Request, Abstract!Step, Abstract!Begin
  <2>3. CASE LogCommandAttempt
    <3>1. attempt = "none"
      BY <2>3 DEF LogCommandAttempt, IInv, Safe, Phases
    <3>2. Abstract!Judge
      BY <2>3, <3>1 DEF LogCommandAttempt, Answer, Abstract!Judge
    <3> QED
      BY <3>2 DEF Abstract!Step
  <2>4. CASE \/ AttemptNotLogged \/ LoadRefused
             \/ Finish \/ FinishRaised \/ FinishOne \/ Crash
    <3>1. Abstract!Close
      BY <2>4 DEF AttemptNotLogged, LoadRefused, Finish, FinishRaised,
                  FinishOne, Crash, Answer, Abstract!Close
    <3> QED
      BY <3>1 DEF Abstract!Step
  <2>5. CASE LoadForOne \/ LoadForGroup
    <3>1. Submitted' \in SUBSET Devices
      BY <2>5 DEF LoadForOne, LoadForGroup, TypeInv, Bound, Contacting
    <3>2. attempt = "ALLOWED"
      BY <2>5 DEF LoadForOne, LoadForGroup, IInv, Safe, Phases, Approved
    <3>3. Abstract!FixTargets
      BY <2>5, <3>1, <3>2 DEF LoadForOne, LoadForGroup, Abstract!FixTargets
    <3> QED
      BY <3>3 DEF Abstract!Step
  <2>6. ASSUME NEW d \in Devices, SendCommand(d) PROVE Abstract!Step
    <3>1. pc \in Contacting /\ d \in Submitted /\ executed[d] = 0
      BY <2>6 DEF SendCommand, IInv, Safe, Phases, Progress
    <3>2. Abstract!Run(d)
      BY <2>1, <2>6, <3>1 DEF SendCommand, Contacting, Abstract!Run
    <3> QED
      BY <3>2 DEF Abstract!Step
  <2>7. ASSUME NEW d \in Devices, Submit(d) \/ Collect(d) \/ Job(d)
        PROVE  UNCHANGED Abstract!specVars
    BY <2>7 DEF Submit, Collect, Job, StartJob, Session, SessionEnds,
                LogSuccess, LogConnectionError, OutcomeNotLogged, MaybeSaveOutput
  <2>8. CASE EditInventory \/ UNCHANGED vars
    BY <2>8 DEF EditInventory, vars
  <2> QED
    BY <2>2, <2>3, <2>4, <2>5, <2>6, <2>7, <2>8 DEF Next, Main
<1>3. IInv => TypeInv
  BY DEF IInv
<1> QED
  BY <1>1, <1>2, <1>3, Invariance, PTL
     DEF Spec, KeepsThePromise, Abstract!Promise
=============================================================================
