-------------------------- MODULE ConfigSet_proofs --------------------------
(***************************************************************************)
(* Proofs about ConfigSet, for every text alphabet, every policy, every    *)
(* set of devices, commands and batches, and every collection of inventory *)
(* versions.                                                               *)
(***************************************************************************)
EXTENDS ConfigSet, CommandPolicy_proofs

-----------------------------------------------------------------------------
(* The inductive invariant of the configuration tool. *)

Permitted(i) == ValidateConfigCommand(batch[i], policy).allowed

\* What has reached the device is a beginning of the batch.
SentSoFar ==
    /\ Len(received) <= Len(batch)
    /\ \A i \in 1..Len(received) : received[i] = Normalized[i]

\* While lines are judged, those judged so far were allowed, and one is left.
Judged ==
    pc = "judge" =>
        /\ lines # <<>> => enableConfig /\ Len(lines) < Len(batch)
        /\ \A i \in 1..Len(lines) : lines[i] = "ALLOWED" /\ Permitted(i)

\* Beyond that, and once a session has been opened, the whole batch was.
Approved ==
    pc \in {"load", "log"} \cup InSession \/ platform # None =>
        /\ enableConfig /\ Len(batch) > 0 /\ Len(lines) = Len(batch)
        /\ \A i \in 1..Len(batch) : lines[i] = "ALLOWED" /\ Permitted(i)

\* How far each phase of the session has come.
Phases ==
    /\ pc \in {"judge", "load"} => platform = None
    /\ pc \in InSession \cup {"log"} => platform # None
    /\ pc = "connect" => received = <<>>
    /\ pc \in {"connect", "config", "commit"} => ~committed /\ ~saved
    /\ pc = "config" => Len(received) < Len(batch)
    /\ pc \in {"commit", "save"} => received = Normalized
    /\ pc = "save" => (committed = platform.commit) /\ ~saved
    /\ pc = "log" <=> (ending # "none" /\ pc \notin Waiting)
    /\ pc \notin Waiting => outcome = "none" /\ reply = [code |-> "NONE", state |-> "none"]
    /\ platform = None => received = <<>> /\ ~committed /\ ~saved /\ ending = "none"

\* What is said about a session, and when it may be said.
Told ==
    /\ ending = "output" =>
          /\ received = Normalized
          /\ committed = platform.commit /\ saved = platform.save
    /\ reply.code = "OK" \/ outcome = "SUCCESS" => ending = "output"
    /\ OnlyWholeBatchIsKept
    /\ FailureStateIsTrue

Course == SentSoFar /\ Judged /\ Approved /\ Phases /\ Told
IInv   == TypeOK /\ Course

Texts == {Normalize(c) : c \in Commands}

\* What is sent of a batch is a sequence as long as the batch.
LEMMA NormalizedIsSeq ==
    ASSUME batch \in Seq(Commands)
    PROVE  /\ Normalized \in Seq(Texts) /\ Len(Normalized) = Len(batch)
           /\ \A i \in 1..Len(batch) : /\ Normalized[i] = Normalize(batch[i])
                                       /\ Normalized[i] \in Texts
<1>1. DOMAIN batch = 1..Len(batch) /\ Len(batch) \in Nat
  OBVIOUS
<1>2. \A i \in 1..Len(batch) : Normalize(batch[i]) \in Texts
  BY <1>1, ElementOfSeq DEF Texts
<1>3. Normalized = [i \in 1..Len(batch) |-> Normalize(batch[i])]
  BY <1>1 DEF Normalized
<1>4. Normalized \in [1..Len(batch) -> Texts]
  BY <1>2, <1>3
<1>5. Normalized \in Seq(Texts)
  BY <1>1, <1>4, SeqDef
<1> QED
  BY <1>1, <1>2, <1>3, <1>5

\* It is that of the same batch.
LEMMA NormalizedKept ==
    ASSUME batch' = batch
    PROVE  Normalized' = Normalized
BY DEF Normalized

\* A batch is a sequence of commands.
LEMMA BatchIsSeq ==
    ASSUME TypeOK
    PROVE  batch \in Seq(Commands) /\ Len(batch) \in Nat
<1>1. batch \in Batches \/ batch = <<>>
  BY DEF TypeOK
<1>2. batch \in Seq(Commands)
  BY <1>1, ConstantsAssumption, EmptySeq
<1> QED
  BY <1>2

\* The next line, sent.
LEMMA OneMoreSent ==
    ASSUME TypeOK, SentSoFar, Len(received) < Len(batch), UNCHANGED batch,
           received' = Append(received, Normalized[Len(received) + 1])
    PROVE  /\ received' \in Seq(Texts) /\ received' # <<>>
           /\ Len(received') = Len(received) + 1
           /\ SentSoFar'
<1>1. received \in Seq(Texts) /\ Len(received) \in Nat
  BY DEF TypeOK, Texts
<1>2. batch \in Seq(Commands) /\ Len(batch) \in Nat
  BY BatchIsSeq
<1> DEFINE x == Normalized[Len(received) + 1]
<1>3. x \in Texts
  BY <1>1, <1>2, NormalizedIsSeq
<1>4. /\ received' \in Seq(Texts) /\ received' # <<>>
      /\ Len(received') = Len(received) + 1
      /\ \A i \in 1..Len(received) : received'[i] = received[i]
      /\ received'[Len(received) + 1] = x
  BY <1>1, <1>3, AppendProperties
<1>5. SentSoFar'
  BY <1>1, <1>2, <1>4, NormalizedKept DEF SentSoFar
<1> QED
  BY <1>4, <1>5

\* The calls start in order.
LEMMA StartsInOrder == Init => IInv
<1> SUFFICES ASSUME Init PROVE IInv
  OBVIOUS
<1>1. TypeOK
  <2>1. reply \in [code : Codes, state : States]
    BY DEF Init, Codes, States
  <2>2. lines \in Seq({"ALLOWED", "DENIED"}) /\ received \in Seq(Texts)
    BY EmptySeq DEF Init
  <2>3. batch \in Batches \cup {<<>>} /\ platform \in Platforms \cup {None}
    BY DEF Init
  <2> QED
    BY <2>1, <2>2, <2>3 DEF Init, TypeOK, Texts, Waiting, Endings
<1>2. SentSoFar
  BY <1>1, BatchIsSeq DEF Init, SentSoFar
<1>3. Judged /\ Approved
  BY DEF Init, Judged, Approved, InSession
<1>4. Phases
  BY DEF Init, Phases, InSession, Waiting
<1>5. Told
  BY DEF Init, Told, OnlyWholeBatchIsKept, FailureStateIsTrue, ConnectionCodes
<1> QED
  BY <1>1, <1>2, <1>3, <1>4, <1>5 DEF IInv, Course

\* A new call forgets the last one.
LEMMA RequestKeeps ==
    ASSUME IInv, NEW d \in Devices, NEW b \in Batches, Request(d, b)
    PROVE  IInv'
<1>1. TypeOK'
  <2>1. reply' \in [code : Codes, state : States]
    BY DEF Request, Codes, States
  <2>2. lines' \in Seq({"ALLOWED", "DENIED"}) /\ received' \in Seq(Texts)
    BY EmptySeq DEF Request
  <2>3. batch' \in Batches \cup {<<>>} /\ platform' \in Platforms \cup {None}
    BY DEF Request
  <2> QED
    BY <2>1, <2>2, <2>3 DEF IInv, TypeOK, Request, Texts, Endings
<1>2. SentSoFar'
  <2>1. Len(batch') \in Nat
    BY ConstantsAssumption DEF Request
  <2> QED
    BY <2>1 DEF Request, SentSoFar
<1>3. Judged' /\ Approved'
  BY DEF Request, Judged, Approved, InSession
<1>4. Phases'
  BY DEF Request, Phases, InSession, Waiting
<1>5. Told'
  BY DEF Request, Told, OnlyWholeBatchIsKept, FailureStateIsTrue, ConnectionCodes
<1> QED
  BY <1>1, <1>2, <1>3, <1>4, <1>5 DEF IInv, Course

\* Judging refuses, or approves line by line; no device is known yet.
LEMMA JudgingKeeps ==
    ASSUME IInv, RefuseBatch \/ JudgeLine \/ AttemptNotLogged
    PROVE  IInv'
<1> USE DEF RefuseBatch, JudgeLine, AttemptNotLogged, Answer, requestVars, deviceVars
<1>0. /\ batch \in Seq(Commands) /\ Len(batch) \in Nat
      /\ lines \in Seq({"ALLOWED", "DENIED"}) /\ Len(lines) \in Nat
      /\ Normalized' = Normalized
  BY BatchIsSeq, NormalizedKept DEF IInv, TypeOK
<1>1. TypeOK'
  <2>1. lines' \in Seq({"ALLOWED", "DENIED"})
    <3>1. CASE RefuseBatch
      BY <3>1
    <3>2. CASE AttemptNotLogged
      BY <3>2, <1>0
    <3>3. CASE JudgeLine
      BY <3>3, <1>0, AppendProperties
    <3> QED
      BY <3>1, <3>2, <3>3
  <2>2. pc' \in {"judge", "load", "replied"} /\ reply' \in [code : Codes, state : States]
    BY DEF IInv, TypeOK, Codes, RefusalCodes, States
  <2> QED
    BY <2>1, <2>2 DEF IInv, TypeOK, Waiting
<1>2. SentSoFar'
  BY <1>0 DEF IInv, Course, SentSoFar
<1>3. pc = "judge" /\ platform = None /\ platform' = None
  BY DEF IInv, Course, Phases
<1>4. Judged' /\ Approved'
  <2>1. CASE RefuseBatch \/ AttemptNotLogged
    BY <1>3, <2>1 DEF Judged, Approved, InSession
  <2>2. CASE JudgeLine /\ ~Judgement.allowed
    BY <1>3, <2>2 DEF Judged, Approved, InSession
  <2>3. CASE JudgeLine /\ Judgement.allowed
    <3>1. /\ Len(lines') = Len(lines) + 1
          /\ \A i \in 1..Len(lines) : lines'[i] = lines[i]
          /\ lines'[Len(lines) + 1] = "ALLOWED"
      BY <1>0, <2>3, AppendProperties
    <3>2. \A i \in 1..Len(lines') : lines'[i] = "ALLOWED" /\ Permitted(i)'
      BY <1>0, <1>3, <2>3, <3>1 DEF IInv, Course, Judged, Permitted, Judgement
    <3> QED
      BY <1>0, <1>3, <2>3, <3>1, <3>2 DEF Judged, Approved, InSession
  <2> QED
    BY <2>1, <2>2, <2>3
<1>5. Phases'
  BY <1>3 DEF IInv, Course, Phases, InSession, Waiting
<1>6. Told'
  BY <1>0, <1>3 DEF IInv, Course, Phases, Waiting, Told, OnlyWholeBatchIsKept,
                    FailureStateIsTrue, ConnectionCodes
<1> QED
  BY <1>1, <1>2, <1>4, <1>5, <1>6 DEF IInv, Course

\* Loading refuses, or finds the device.
LEMMA LoadingKeeps ==
    ASSUME IInv, LoadRefused \/ Load
    PROVE  IInv'
<1> USE DEF LoadRefused, Load, Answer, requestVars, deviceVars
<1>0. Normalized' = Normalized
  BY NormalizedKept
<1>1. TypeOK'
  <2>1. CASE LoadRefused
    BY <2>1 DEF IInv, TypeOK, Waiting, Codes, RefusalCodes, States
  <2>2. CASE Load
    <3>1. inventory \in Inventory
      BY <2>2, ConstantsAssumption DEF IInv, TypeOK
    <3>2. platform' \in Platforms
      BY <2>2, <3>1 DEF Inventory
    <3> QED
      BY <2>2, <3>2 DEF IInv, TypeOK, InSession
  <2> QED
    BY <2>1, <2>2
<1>2. SentSoFar'
  BY <1>0 DEF IInv, Course, SentSoFar
<1>3. Judged' /\ Approved'
  BY DEF IInv, Course, Phases, Judged, Approved, Permitted, InSession
<1>4. Phases'
  <2>1. CASE LoadRefused
    BY <2>1, <1>0 DEF IInv, Course, Phases, InSession, Waiting
  <2>2. CASE Load
    <3>1. platform' # None
      BY <2>2, ConstantsAssumption DEF IInv, TypeOK, Inventory
    <3> QED
      BY <2>2, <3>1, <1>0 DEF IInv, Course, Phases, InSession, Waiting
  <2> QED
    BY <2>1, <2>2
<1>5. Told'
  BY <1>0 DEF IInv, Course, Phases, InSession, Waiting, Told, OnlyWholeBatchIsKept,
              FailureStateIsTrue, ConnectionCodes
<1> QED
  BY <1>1, <1>2, <1>3, <1>4, <1>5 DEF IInv, Course

\* What the session's steps leave alone: the batch and its verdicts.
LEMMA ApprovalKept ==
    ASSUME IInv, pc \in InSession \cup {"log"}, pc' \notin {"judge"},
           UNCHANGED <<enableConfig, policy, batch, lines, platform>>
    PROVE  Judged' /\ Approved'
BY DEF IInv, Course, Judged, Approved, Permitted

\* The session opens; the session commits; the session saves.
LEMMA ConnectKeeps ==
    ASSUME IInv, Connect \/ Commit \/ SaveConfig
    PROVE  IInv'
<1> USE DEF Connect, Commit, SaveConfig, requestVars, deviceVars
<1>0. /\ Normalized' = Normalized
      /\ batch \in Seq(Commands) /\ Len(batch) \in Nat
      /\ platform \in Platforms /\ platform.commit \in BOOLEAN /\ platform.save \in BOOLEAN
  <2>1. platform \in Platforms
    BY DEF IInv, TypeOK, Course, Phases, InSession
  <2> QED
    BY <2>1, NormalizedKept, BatchIsSeq DEF IInv, Platforms
<1>1. TypeOK'
  BY <1>0 DEF IInv, TypeOK, InSession
<1>2. SentSoFar'
  BY <1>0 DEF IInv, Course, SentSoFar
<1>3. Judged' /\ Approved'
  BY ApprovalKept DEF InSession
<1>4. Phases'
  <2>1. CASE Connect
    <3>1. Len(received') < Len(batch')
      BY <2>1, <1>0 DEF IInv, Course, Phases, Approved, InSession
    <3> QED
      BY <2>1, <3>1, <1>0 DEF IInv, Course, Phases, InSession, Waiting
  <2>2. CASE Commit
    BY <2>2, <1>0 DEF IInv, Course, Phases, InSession, Waiting
  <2>3. CASE SaveConfig
    BY <2>3, <1>0 DEF IInv, Course, Phases, InSession, Waiting
  <2> QED
    BY <2>1, <2>2, <2>3
<1>5. Told'
  BY <1>0 DEF IInv, Course, Phases, InSession, Waiting, Told, OnlyWholeBatchIsKept,
              FailureStateIsTrue, ConnectionCodes
<1> QED
  BY <1>1, <1>2, <1>3, <1>4, <1>5 DEF IInv, Course

\* A line is sent, and after the last one the session goes on to commit.
LEMMA SendLineKeeps ==
    ASSUME IInv, SendLine
    PROVE  IInv'
<1> USE DEF SendLine, requestVars, deviceVars
<1>0. /\ Normalized' = Normalized
      /\ batch \in Seq(Commands) /\ Len(batch) \in Nat
      /\ received \in Seq(Texts) /\ Len(received) \in Nat
  BY NormalizedKept, BatchIsSeq DEF IInv, TypeOK, Texts
<1>1. /\ received' \in Seq(Texts) /\ received' # <<>> /\ SentSoFar'
      /\ Len(received') = Len(received) + 1
  BY OneMoreSent DEF IInv, Course
<1>2. TypeOK'
  BY <1>1 DEF IInv, TypeOK, Texts, InSession
<1>3. Len(received') = Len(batch') => received' = Normalized'
  BY <1>0, <1>1, <1>2, NormalizedIsSeq, SeqEqual DEF SentSoFar
<1>4. Judged' /\ Approved'
  BY ApprovalKept DEF InSession
<1>5. Phases'
  BY <1>0, <1>1, <1>3 DEF IInv, Course, Phases, SentSoFar, InSession, Waiting
<1>6. Told'
  BY <1>0, <1>1 DEF IInv, Course, Phases, InSession, Waiting, Told,
              OnlyWholeBatchIsKept, FailureStateIsTrue, ConnectionCodes
<1> QED
  BY <1>1, <1>2, <1>4, <1>5, <1>6 DEF IInv, Course

\* A session fails with the step under way done or not.
LEMMA SessionFailsKeeps ==
    ASSUME IInv, NEW e \in Endings, SessionFails(e)
    PROVE  IInv'
<1> USE DEF SessionFails, requestVars
<1>0. /\ Normalized' = Normalized
      /\ batch \in Seq(Commands) /\ Len(batch) \in Nat
      /\ received \in Seq(Texts) /\ Len(received) \in Nat
      /\ platform \in Platforms /\ platform.commit \in BOOLEAN /\ platform.save \in BOOLEAN
  <2>1. platform \in Platforms
    BY DEF IInv, TypeOK, Course, Phases, InSession
  <2> QED
    BY <2>1, NormalizedKept, BatchIsSeq DEF IInv, TypeOK, Texts, Platforms
<1>1. /\ received' \in Seq(Texts) /\ SentSoFar'
      /\ pc # "config" => received' = received
  <2>1. CASE received' = received
    BY <2>1, <1>0 DEF IInv, Course, SentSoFar
  <2>2. CASE pc = "config" /\ received' = Append(received, Normalized[Len(received) + 1])
    BY <2>2, OneMoreSent DEF IInv, Course, Phases
  <2> QED
    BY <2>1, <2>2
<1>2. committed' \in BOOLEAN /\ saved' \in BOOLEAN
  BY <1>0 DEF IInv, TypeOK
<1>3. TypeOK'
  BY <1>1, <1>2 DEF IInv, TypeOK, Texts
<1>4. Judged' /\ Approved'
  BY ApprovalKept
<1>5. Phases'
  BY <1>0 DEF IInv, Course, Phases, InSession, Waiting, Endings, Failures
<1>6. OnlyWholeBatchIsKept'
  <2>1. committed' => committed \/ pc = "commit"
    BY <1>2
  <2>2. saved' => pc = "save" /\ platform.save
    BY <1>2
  <2>3. committed' \/ saved' => received' = Normalized'
    BY <1>0, <1>1, <2>1, <2>2 DEF IInv, Course, Phases, Told, OnlyWholeBatchIsKept,
                                  InSession
  <2>4. saved' /\ platform'.commit => committed'
    BY <1>0, <2>2 DEF IInv, Course, Phases, InSession
  <2> QED
    BY <2>3, <2>4 DEF OnlyWholeBatchIsKept
<1>7. Told'
  BY <1>0, <1>6 DEF IInv, Course, Phases, InSession, Waiting, Told,
              FailureStateIsTrue, ConnectionCodes, Endings, Failures
<1> QED
  BY <1>1, <1>3, <1>4, <1>5, <1>7 DEF IInv, Course

\* A session that is over is logged and answered as what it was.
LEMMA AnsweringKeeps ==
    ASSUME IInv, LogOutcome \/ OutcomeNotLogged \/ Propagate
    PROVE  IInv'
<1> USE DEF LogOutcome, OutcomeNotLogged, Propagate, Answer, requestVars, deviceVars
<1>0. Normalized' = Normalized
  BY NormalizedKept
<1>1. TypeOK'
  BY DEF IInv, TypeOK, Waiting, ConnectionFailure, Codes, ConnectionCodes, States
<1>2. SentSoFar'
  BY <1>0 DEF IInv, Course, SentSoFar
<1>3. Judged' /\ Approved'
  BY ApprovalKept
<1>4. Phases'
  BY <1>0 DEF IInv, Course, Phases, InSession, Waiting
<1>5. Told'
  BY <1>0 DEF IInv, Course, Phases, InSession, Waiting, Told, OnlyWholeBatchIsKept,
              FailureStateIsTrue, ConnectionCodes, ConnectionFailure, Failures
<1> QED
  BY <1>1, <1>2, <1>3, <1>4, <1>5 DEF IInv, Course

\* Edits, crashes and stuttering touch nothing of a call.
LEMMA EnvironmentKeeps ==
    ASSUME IInv, Crash \/ EditInventory \/ UNCHANGED vars
    PROVE  IInv'
<1> USE DEF Crash, EditInventory, vars, requestVars, deviceVars
<1>0. Normalized' = Normalized
  BY NormalizedKept
<1>1. TypeOK'
  BY DEF IInv, TypeOK, Waiting
<1>2. SentSoFar'
  BY <1>0 DEF IInv, Course, SentSoFar
<1>3. Judged' /\ Approved'
  BY DEF IInv, Course, Judged, Approved, Permitted, InSession
<1>4. Phases'
  BY <1>0 DEF IInv, Course, Phases, InSession, Waiting
<1>5. Told'
  BY <1>0 DEF IInv, Course, Told, OnlyWholeBatchIsKept, FailureStateIsTrue
<1> QED
  BY <1>1, <1>2, <1>3, <1>4, <1>5 DEF IInv, Course

-----------------------------------------------------------------------------
(* What follows. *)

\* The invariant holds throughout: what each phase says about the verdicts, the
\* device and the answer.
THEOREM Invariance == Spec => []IInv
<1>1. Init => IInv
  BY StartsInOrder
<1>2. IInv /\ [Next]_vars => IInv'
  <2> SUFFICES ASSUME IInv, [Next]_vars PROVE IInv'
    OBVIOUS
  <2>1. ASSUME NEW d \in Devices, NEW b \in Batches, Request(d, b) PROVE IInv'
    BY <2>1, RequestKeeps
  <2>2. CASE RefuseBatch \/ JudgeLine \/ AttemptNotLogged
    BY <2>2, JudgingKeeps
  <2>3. CASE LoadRefused \/ Load
    BY <2>3, LoadingKeeps
  <2>4. CASE Connect \/ Commit \/ SaveConfig
    BY <2>4, ConnectKeeps
  <2>5. CASE SendLine
    BY <2>5, SendLineKeeps
  <2>6. CASE SessionEnds
    BY <2>6, SessionFailsKeeps DEF SessionEnds
  <2>7. CASE LogOutcome \/ OutcomeNotLogged \/ Propagate
    BY <2>7, AnsweringKeeps
  <2>8. CASE Crash \/ EditInventory \/ UNCHANGED vars
    BY <2>8, EnvironmentKeeps
  <2> QED
    BY <2>1, <2>2, <2>3, <2>4, <2>5, <2>6, <2>7, <2>8 DEF Next, Main
<1> QED
  BY <1>1, <1>2, PTL DEF Spec

\* A line of the audit log is the verdict on its line of the batch, where there
\* is one; with the tool switched off every line is denied.
Verdicts ==
    \A i \in DOMAIN lines \cap DOMAIN batch :
        lines[i] = "ALLOWED" <=> enableConfig /\ Permitted(i)

LEMMA JudgingGivesVerdicts ==
    ASSUME IInv, Verdicts, JudgeLine
    PROVE  Verdicts'
<1> DEFINE n == Len(lines)
<1>1. /\ batch \in Seq(Commands) /\ Len(batch) \in Nat
      /\ lines \in Seq({"ALLOWED", "DENIED"}) /\ n \in Nat
      /\ DOMAIN lines = 1..n
  BY BatchIsSeq, LenProperties DEF IInv, TypeOK
<1>2. /\ UNCHANGED <<enableConfig, policy, batch>> /\ enableConfig
      /\ \/ Permitted(n + 1) /\ lines' = Append(lines, "ALLOWED")
         \/ ~Permitted(n + 1) /\ lines' = Append(lines, "DENIED")
  BY DEF JudgeLine, Judgement, Permitted, requestVars
<1>3. PICK v \in {"ALLOWED", "DENIED"} :
        lines' = Append(lines, v) /\ (v = "ALLOWED" <=> Permitted(n + 1))
  BY <1>2
<1>4. /\ DOMAIN lines' = 1..(n + 1) /\ lines'[n + 1] = v
      /\ \A i \in 1..n : lines'[i] = lines[i]
  <2>1. /\ lines' \in Seq({"ALLOWED", "DENIED"}) /\ Len(lines') = n + 1
        /\ lines'[n + 1] = v /\ \A i \in 1..n : lines'[i] = lines[i]
    BY <1>1, <1>3, AppendProperties
  <2> QED
    BY <2>1, LenProperties
<1>5. \A i : Permitted(i)' <=> Permitted(i)
  BY <1>2 DEF Permitted
<1> SUFFICES ASSUME NEW i \in DOMAIN lines' \cap DOMAIN batch'
             PROVE  lines'[i] = "ALLOWED" <=> enableConfig' /\ Permitted(i)'
  BY DEF Verdicts
<1>6. i \in DOMAIN batch /\ (i \in 1..n \/ i = n + 1)
  BY <1>1, <1>2, <1>4
<1>7. CASE i \in 1..n
  BY <1>1, <1>2, <1>4, <1>5, <1>6, <1>7 DEF Verdicts
<1>8. CASE i = n + 1
  BY <1>2, <1>3, <1>4, <1>5, <1>8
<1> QED
  BY <1>6, <1>7, <1>8

LEMMA VerdictInvariance == Spec => []Verdicts
<1>1. Init => Verdicts
  BY DEF Init, Verdicts
<1>2. IInv /\ Verdicts /\ [Next]_vars => Verdicts'
  <2> SUFFICES ASSUME IInv, Verdicts, [Next]_vars PROVE Verdicts'
    OBVIOUS
  <2>1. ASSUME NEW d \in Devices, NEW b \in Batches, Request(d, b) PROVE Verdicts'
    BY <2>1 DEF Request, Verdicts
  <2>2. CASE RefuseBatch
    <3>1. /\ lines' = <<"DENIED">> /\ UNCHANGED <<enableConfig, batch>>
          /\ ~enableConfig \/ batch = <<>>
      BY <2>2 DEF RefuseBatch, requestVars
    <3>2. CASE ~enableConfig
      BY <3>1, <3>2 DEF Verdicts
    <3>3. CASE batch = <<>>
      BY <3>1, <3>3 DEF Verdicts
    <3> QED
      BY <3>1, <3>2, <3>3
  <2>3. CASE JudgeLine
    BY <2>3, JudgingGivesVerdicts
  <2>4. ASSUME UNCHANGED <<enableConfig, policy, batch, lines>> PROVE Verdicts'
    BY <2>4 DEF Verdicts, Permitted
  <2>5. CASE AttemptNotLogged \/ LoadRefused \/ Load \/ Connect \/ SendLine
    BY <2>4, <2>5 DEF AttemptNotLogged, LoadRefused, Load, Connect, SendLine, requestVars
  <2>6. CASE Commit \/ SaveConfig \/ SessionEnds
    BY <2>4, <2>6 DEF Commit, SaveConfig, SessionEnds, SessionFails, requestVars
  <2>7. CASE LogOutcome \/ OutcomeNotLogged \/ Propagate \/ Crash \/ EditInventory
    BY <2>4, <2>7 DEF LogOutcome, OutcomeNotLogged, Propagate, Crash, EditInventory, requestVars
  <2>8. CASE UNCHANGED vars
    BY <2>4, <2>8 DEF vars, requestVars
  <2> QED
    BY <2>1, <2>2, <2>3, <2>5, <2>6, <2>7, <2>8 DEF Next, Main
<1> QED
  BY <1>1, <1>2, Invariance, PTL DEF Spec

\* What the documentation says of the lists is what decides every line, for
\* every alphabet, policy and batch (security.py 3-10).
THEOREM VerdictsMeanWhatIsWrittenHolds == Spec => []VerdictsMeanWhatIsWritten
<1>1. IInv /\ Verdicts => VerdictsMeanWhatIsWritten
  <2> SUFFICES ASSUME IInv, Verdicts,
                      \A e \in policy.allowed \cup policy.denied : Tidy(e),
                      NEW i \in DOMAIN lines \cap DOMAIN batch
               PROVE  lines[i] = "ALLOWED" <=>
                         /\ enableConfig
                         /\ Range(batch[i]) \cap Unsafe = {}
                         /\ \E e \in policy.allowed : Denotes(e, batch[i])
                         /\ \A e \in policy.denied \cup Baseline : ~Denotes(e, batch[i])
    BY DEF VerdictsMeanWhatIsWritten
  <2>1. batch[i] \in Text
    <3>1. batch \in Seq(Commands)
      BY BatchIsSeq DEF IInv
    <3>2. i \in 1..Len(batch)
      BY <3>1, LenProperties
    <3>3. batch[i] \in Commands
      BY <3>1, <3>2, ElementOfSeq
    <3> QED
      BY <3>3, ConstantsAssumption
  <2>2. policy \in Policy /\ ValidateCommandLists(policy) = {}
    BY ConstantsAssumption DEF IInv, TypeOK, Startable
  <2>3. Permitted(i) <=> /\ Range(batch[i]) \cap Unsafe = {}
                         /\ \E e \in policy.allowed : Denotes(e, batch[i])
                         /\ \A e \in policy.denied \cup Baseline : ~Denotes(e, batch[i])
    BY <2>1, <2>2, ConfigVerdictsMeanWhatIsWritten DEF Permitted
  <2>4. lines[i] = "ALLOWED" <=> enableConfig /\ Permitted(i)
    BY DEF Verdicts
  <2> QED
    BY <2>3, <2>4
<1> QED
  BY <1>1, Invariance, VerdictInvariance, PTL

\* Every variable stays in its type.
THEOREM TypeCorrect == Spec => []TypeOK
<1>1. IInv => TypeOK
  BY DEF IInv
<1> QED
  BY <1>1, Invariance, PTL

\* All or nothing before contact: no session for a batch that was not allowed
\* and logged line by line (server.py 454-473).
THEOREM WholeBatchJudgedFirstHolds == Spec => []WholeBatchJudgedFirst
<1>1. IInv => WholeBatchJudgedFirst
  <2> SUFFICES ASSUME IInv, platform # None
               PROVE  /\ enableConfig /\ batch # <<>> /\ AllAllowed
                      /\ \A i \in DOMAIN batch : Permitted(i)
    BY DEF WholeBatchJudgedFirst, Permitted
  <2>1. batch \in Seq(Commands) /\ lines \in Seq({"ALLOWED", "DENIED"})
    BY BatchIsSeq DEF IInv, TypeOK
  <2> QED
    BY <2>1 DEF IInv, Course, Approved, AllAllowed
<1> QED
  BY <1>1, Invariance, PTL

\* Success is said only of a batch applied, committed and saved
\* (server.py 482-502).
THEOREM SuccessMeansAppliedHolds == Spec => []SuccessMeansApplied
<1>1. IInv => SuccessMeansApplied
  <2> SUFFICES ASSUME IInv, reply.code = "OK" \/ outcome = "SUCCESS"
               PROVE  /\ received = Normalized /\ received # <<>>
                      /\ platform.commit => committed
                      /\ platform.save => saved
    BY DEF SuccessMeansApplied
  <2>1. ending = "output" /\ received = Normalized
    BY DEF IInv, Course, Told
  <2>2. platform # None
    BY <2>1 DEF IInv, Course, Phases
  <2>3. Len(Normalized) > 0
    BY <2>2, BatchIsSeq, NormalizedIsSeq DEF IInv, Course, Approved
  <2>4. (committed = platform.commit) /\ (saved = platform.save)
    BY <2>1 DEF IInv, Course, Told
  <2> QED
    BY <2>1, <2>3, <2>4
<1> QED
  BY <1>1, Invariance, PTL

\* No part of a batch is committed or saved (inventory.py 184-193).
THEOREM OnlyWholeBatchIsKeptHolds == Spec => []OnlyWholeBatchIsKept
<1>1. IInv => OnlyWholeBatchIsKept
  BY DEF IInv, Course, Told
<1> QED
  BY <1>1, Invariance, PTL

\* "not_started" is true, and the answer agrees with the outcome line.
THEOREM FailureStateIsTrueHolds == Spec => []FailureStateIsTrue
<1>1. IInv => FailureStateIsTrue
  BY DEF IInv, Course, Told
<1> QED
  BY <1>1, Invariance, PTL

\* Whatever policy the operator writes, no baseline command reaches a device
\* (security.py 34-46).
THEOREM BaselineNeverReachesDeviceHolds == Spec => []BaselineNeverReachesDevice
<1>1. IInv => BaselineNeverReachesDevice
  <2> SUFFICES ASSUME IInv, NEW i \in DOMAIN received, NEW w \in {Shutdown, Clear},
                      IsPrefix(<<w>>, LowerCase(received[i]))
               PROVE  FALSE
    BY DEF BaselineNeverReachesDevice
  <2>1. /\ batch \in Seq(Commands) /\ Len(batch) \in Nat
        /\ received \in Seq(Texts) /\ Len(received) \in Nat
    BY BatchIsSeq DEF IInv, TypeOK, Texts
  <2>2. i \in 1..Len(received) /\ i \in 1..Len(batch)
    BY <2>1 DEF IInv, Course, SentSoFar
  <2>3. received[i] = Normalize(batch[i])
    BY <2>1, <2>2, NormalizedIsSeq DEF IInv, Course, SentSoFar
  <2>4. platform # None
    BY <2>1, <2>2 DEF IInv, Course, Phases
  <2>5. ValidateConfigCommand(batch[i], policy).allowed
    BY <2>2, <2>4 DEF IInv, Course, Approved, Permitted
  <2>6. policy \in Policy
    BY ConstantsAssumption DEF IInv, TypeOK, Startable
  <2> QED
    BY <2>3, <2>5, <2>6, BaselineAlwaysDenied
<1> QED
  BY <1>1, Invariance, PTL

\* Whatever reaches a device is itself a line that the policy lets through: what
\* was judged is the client's text, what is sent its normal form
\* (server.py 456-483).
THEOREM OnlyAllowedLinesReachDevices ==
    Spec => [](\A i \in DOMAIN received :
                  enableConfig /\ ValidateConfigCommand(received[i], policy).allowed)
<1> DEFINE Sent == \A i \in DOMAIN received :
                      enableConfig /\ ValidateConfigCommand(received[i], policy).allowed
<1>1. IInv => Sent
  <2> SUFFICES ASSUME IInv, NEW i \in DOMAIN received
               PROVE  enableConfig /\ ValidateConfigCommand(received[i], policy).allowed
    OBVIOUS
  <2>1. /\ batch \in Seq(Commands) /\ Len(batch) \in Nat
        /\ received \in Seq(Texts) /\ Len(received) \in Nat
    BY BatchIsSeq DEF IInv, TypeOK, Texts
  <2>2. i \in 1..Len(received) /\ i \in 1..Len(batch)
    BY <2>1 DEF IInv, Course, SentSoFar
  <2>3. received[i] = Normalize(batch[i])
    BY <2>1, <2>2, NormalizedIsSeq DEF IInv, Course, SentSoFar
  <2>4. batch[i] \in Text
    BY <2>1, <2>2, ElementOfSeq, ConstantsAssumption
  <2>5. platform # None
    BY <2>1, <2>2 DEF IInv, Course, Phases
  <2>6. enableConfig /\ ValidateConfigCommand(batch[i], policy).allowed
    BY <2>2, <2>5 DEF IInv, Course, Approved, Permitted
  <2>7. policy \in Policy
    BY ConstantsAssumption DEF IInv, TypeOK, Startable
  <2> DEFINE q == [policy EXCEPT !.denied = @ \cup Baseline]
             c == batch[i]
  <2>8. \A command : ValidateConfigCommand(command, policy).allowed <=> Reason(command, q) = "ALLOWED"
    BY DEF ValidateConfigCommand, ValidateCommand
  <2>9. Range(c) \cap Unsafe = {}
    BY <2>6, <2>7, ConfigVerdict
  <2> HIDE DEF q, c
  <2>10. Reason(Normalize(c), q) = Reason(c, q)
    BY <2>4, <2>9, SentIsWhatWasJudged DEF c
  <2> QED
    BY <2>3, <2>6, <2>8, <2>10 DEF c
<1> QED
  BY <1>1, Invariance, PTL

\* Every behaviour of the configuration tool is one of AuditedExecution: the last
\* verdict judges the call, opening the session fixes its one target, and the
\* first line that is sent runs it.
THEOREM Refinement == Spec => KeepsThePromise
<1>1. Init => Abstract!Start
  BY DEF Init, Abstract!Start, Waiting, InSession
<1>2. IInv /\ IInv' /\ [Next]_vars => [Abstract!Step]_(Abstract!specVars)
  <2> SUFFICES ASSUME IInv, IInv', [Next]_vars
               PROVE  Abstract!Step \/ UNCHANGED Abstract!specVars
    OBVIOUS
  <2> USE DEF Abstract!specVars, requestVars, deviceVars, Waiting, InSession, Answer
  <2>0. /\ batch \in Seq(Commands) /\ Len(batch) \in Nat
        /\ lines \in Seq({"ALLOWED", "DENIED"}) /\ Len(lines) \in Nat
        /\ DOMAIN lines = 1..Len(lines) /\ device \in Devices
    BY BatchIsSeq DEF IInv, TypeOK
  <2>1. ASSUME NEW d \in Devices, NEW b \in Batches, Request(d, b) PROVE Abstract!Step
    BY <2>1 DEF Request, Abstract!Step, Abstract!Begin
  <2>2. CASE RefuseBatch
    <3>1. Abstract!Judge
      BY <2>0, <2>2 DEF RefuseBatch, Abstract!Judge
    <3> QED
      BY <3>1 DEF Abstract!Step
  <2>3. CASE JudgeLine
    <3>1. /\ pc = "judge"
          /\ lines # <<>> => Len(lines) < Len(batch)
          /\ \A i \in 1..Len(lines) : lines[i] = "ALLOWED"
      BY <2>3 DEF JudgeLine, IInv, Course, Judged
    <3>2. /\ lines' # <<>> /\ DOMAIN lines' = 1..Len(lines) + 1
          /\ Len(lines') = Len(lines) + 1
          /\ \A i \in 1..Len(lines) : lines'[i] = lines[i]
          /\ lines'[Len(lines) + 1] = IF Judgement.allowed THEN "ALLOWED" ELSE "DENIED"
      BY <2>0, <2>3, AppendProperties DEF JudgeLine
    <3>3. CASE Judgement.allowed /\ Len(lines) + 1 # Len(batch)
      BY <2>0, <2>3, <3>1, <3>2, <3>3 DEF JudgeLine
    <3>4. CASE Judgement.allowed /\ Len(lines) + 1 = Len(batch)
      <4>1. /\ ~\E i \in DOMAIN lines : lines[i] = "DENIED"
            /\ ~(lines # <<>> /\ Len(lines) = Len(batch))
        BY <2>0, <3>1
      <4>2. /\ ~\E i \in DOMAIN lines' : lines'[i] = "DENIED"
            /\ lines' # <<>> /\ Len(lines') = Len(batch')
        BY <2>0, <2>3, <3>1, <3>2, <3>4 DEF JudgeLine
      <4>3. pc' = "load" /\ UNCHANGED <<device, received>>
        BY <2>3, <3>4 DEF JudgeLine
      <4>4. Abstract!Judge
        BY <3>1, <4>1, <4>2, <4>3 DEF Abstract!Judge
      <4> QED
        BY <4>4 DEF Abstract!Step
    <3>5. CASE ~Judgement.allowed
      <4>1. Abstract!Judge
        BY <2>0, <2>3, <3>1, <3>2, <3>5 DEF JudgeLine, Abstract!Judge
      <4> QED
        BY <4>1 DEF Abstract!Step
    <3> QED
      BY <3>3, <3>4, <3>5
  <2>4. CASE \/ AttemptNotLogged \/ LoadRefused \/ LogOutcome \/ OutcomeNotLogged
             \/ Propagate \/ Crash
    <3>1. Abstract!Close
      BY <2>4 DEF AttemptNotLogged, LoadRefused, LogOutcome, OutcomeNotLogged,
                  Propagate, Crash, Abstract!Close
    <3> QED
      BY <3>1 DEF Abstract!Step
  <2>5. CASE Load
    <3>1. lines # <<>> /\ Len(lines) = Len(batch) /\ \A i \in 1..Len(lines) : lines[i] = "ALLOWED"
      BY <2>0, <2>5 DEF Load, IInv, Course, Approved
    <3>2. Abstract!FixTargets
      BY <2>0, <2>5, <3>1 DEF Load, Abstract!FixTargets
    <3> QED
      BY <3>2 DEF Abstract!Step
  <2>6. CASE SendLine \/ SessionEnds
    <3>1. pc \in InSession /\ pc' \in InSession \cup {"log"} /\ UNCHANGED <<device, batch, lines>>
      BY <2>6 DEF SendLine, SessionEnds, SessionFails
    <3>2. received' = received \/ (pc = "config" /\ received' # <<>>)
      <4>1. ASSUME pc = "config",
                   received' = Append(received, Normalized[Len(received) + 1])
            PROVE  received' # <<>>
        BY <3>1, <4>1, OneMoreSent DEF IInv, Course, Phases
      <4> QED
        BY <2>6, <4>1 DEF SendLine, SessionEnds, SessionFails
    <3>3. CASE received' = received \/ (received # <<>> /\ received' # <<>>)
      BY <3>1, <3>3
    <3>4. CASE received = <<>> /\ received' # <<>>
      <4>1. PICK d \in Devices : d = device
        BY <2>0
      <4>2. Abstract!Run(d)
        BY <3>1, <3>4, <4>1 DEF Abstract!Run
      <4> QED
        BY <4>2 DEF Abstract!Step
    <3> QED
      BY <3>2, <3>3, <3>4
  <2>7. CASE Connect \/ Commit \/ SaveConfig \/ EditInventory \/ UNCHANGED vars
    BY <2>7 DEF Connect, Commit, SaveConfig, EditInventory, vars
  <2> QED
    BY <2>1, <2>2, <2>3, <2>4, <2>5, <2>6, <2>7 DEF Next, Main
<1> QED
  BY <1>1, <1>2, Invariance, PTL
     DEF Spec, KeepsThePromise, Abstract!Promise
=============================================================================
