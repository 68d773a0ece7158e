----------------------- MODULE InventoryImport_proofs -----------------------
(***************************************************************************)
(* Proofs about InventoryImport, for any number of sessions on one file,   *)
(* any names and any file to begin with: the types, that the inventory     *)
(* file goes from one whole document to the next, that what is saved can   *)
(* be loaded and that the last message is true.                            *)
(***************************************************************************)
EXTENDS InventoryImport, TLAPS

Temporary == Document \cup {None, Partial}

\* What a session remembers fits the step it is at, and its temporary file t.
Sound(s, t) ==
    /\ s.wrote => s.pc \in {"verify", "off"}
    /\ s.pc = "verify" => s.wrote
    /\ s.pc # "off" => s.told = "none"
    /\ s.told \in {"unchanged", "discarded", "invalid", "failed"} => ~s.wrote
    /\ s.told \in {"ok", "warning", "error"} => s.wrote
    /\ s.pc = "load" => s.base = Empty /\ s.doc = Empty /\ s.entered = Empty
    /\ s.pc \in {"collect", "confirm"} =>
          (Loads(s.base) => Loads(Merge(s.doc, s.entered)))
    /\ s.pc \in {"save", "backup", "write", "replace", "verify"} =>
          Within(s.entered, s.doc) /\ (Loads(s.base) => Loads(s.doc))
    /\ s.wrote => (Loads(s.base) => Loads(s.doc))
    /\ s.pc = "replace" => t = s.doc

IInv == TypeOK /\ \A i \in Operators : Sound(session[i], temp[i])

-----------------------------------------------------------------------------
(* Documents. *)

LEMMA EmptyIsSound == Empty \in Document /\ Loads(Empty) /\ Loads(Merge(Empty, Empty))
<1>1. Empty \in Document
  BY DEF Empty, Document
<1>2. Loads(Empty)
  BY <1>1, ConstantsAssumption DEF Empty, Loads, GroupNames
<1>3. Merge(Empty, Empty) = Empty
  BY DEF Merge, Empty
<1> QED
  BY <1>1, <1>2, <1>3

\* merge_devices and merge_groups keep all that either document has.
LEMMA MergeKeepsBoth ==
    ASSUME NEW a \in Document, NEW b \in Document
    PROVE  /\ Merge(a, b) \in Document
           /\ Within(a, Merge(a, b)) /\ Within(b, Merge(a, b))
BY DEF Document, Merge, Within

LEMMA MergeWithEmpty ==
    ASSUME NEW a \in Document
    PROVE  Merge(a, Empty) = a
BY DEF Document, Merge, Empty

\* One more device, under a name that nothing has and in groups that are no
\* devices, leaves a document that loads one that loads.
LEMMA OneMoreDevice ==
    ASSUME NEW doc \in Document, NEW entered \in Document,
           NEW name \in Names, NEW groups \in SUBSET Names,
           name \notin Merge(doc, entered).devices \cup GroupNames(Merge(doc, entered)),
           groups \cap (Merge(doc, entered).devices \cup {name}) = {}
    PROVE  LET more == Merge(entered, [devices |-> {name}, groups |-> groups \X {name}])
           IN  /\ more \in Document
               /\ Loads(Merge(doc, entered)) => Loads(Merge(doc, more))
<1> DEFINE known == Merge(doc, entered)
           new   == [devices |-> {name}, groups |-> groups \X {name}]
           more  == Merge(entered, new)
           all   == Merge(doc, more)
<1>1. new \in Document
  BY DEF Document
<1>2. more \in Document /\ all \in Document /\ known \in Document
  BY <1>1, MergeKeepsBoth
<1>3. all.devices = known.devices \cup {name} /\ all.groups = known.groups \cup (groups \X {name})
  BY DEF Merge
<1>4. SUFFICES ASSUME Loads(known) PROVE Loads(all)
  BY <1>2
<1>5. \A pair \in groups \X {name} : pair[1] \in groups /\ pair[2] = name
  OBVIOUS
<1>6. GroupNames(all) \cap all.devices = {}
  <2>1. ASSUME NEW pair \in all.groups PROVE pair[1] \notin all.devices
    <3>1. CASE pair \in known.groups
      <4>1. pair[1] \in GroupNames(known)
        BY <3>1 DEF GroupNames
      <4>2. pair[1] \notin known.devices
        BY <4>1, <1>4 DEF Loads
      <4> QED
        BY <4>1, <4>2, <1>3
    <3>2. CASE pair \in groups \X {name}
      BY <3>2, <1>5, <1>3
    <3> QED
      BY <2>1, <3>1, <3>2, <1>3
  <2> QED
    BY <2>1 DEF GroupNames
<1>7. \A pair \in all.groups : pair[2] \in all.devices
  BY <1>3, <1>4, <1>5 DEF Loads
<1>8. all \notin Unusable
  BY <1>2, ConstantsAssumption
<1> QED
  BY <1>6, <1>7, <1>8 DEF Loads

-----------------------------------------------------------------------------
(* The inductive invariant. *)

LEMMA FreshIsSound ==
    ASSUME NEW t
    PROVE  Fresh \in Session /\ Sound(Fresh, t)
BY EmptyIsSound DEF Fresh, Session, Phases, Messages, Sound

LEMMA StartsSound == Init => IInv
<1> SUFFICES ASSUME Init PROVE IInv
  OBVIOUS
<1>1. \A i \in Operators : session[i] = Fresh
  BY DEF Init
<1>2. session \in [Operators -> Session]
  BY FreshIsSound DEF Init
<1>3. file \in Document \cup Unusable /\ bak \in Document \cup Unusable \cup {Partial}
  BY ConstantsAssumption DEF Init, Unusable
<1>4. temp \in [Operators -> Temporary]
  BY DEF Init, Temporary
<1>5. \A i \in Operators : Sound(session[i], temp[i])
  BY <1>1, FreshIsSound
<1> QED
  BY <1>2, <1>3, <1>4, <1>5 DEF IInv, TypeOK, Temporary

\* A step of one session that leaves it sound leaves them all sound.
LEMMA OneSession ==
    ASSUME IInv, NEW i \in Operators, NEW r \in Session, NEW t \in Temporary,
           Sound(r, t),
           session' = [session EXCEPT ![i] = r],
           temp' = [temp EXCEPT ![i] = t],
           file' \in Document \cup Unusable,
           bak' \in Document \cup Unusable \cup {Partial}
    PROVE  IInv'
<1>1. session' \in [Operators -> Session] /\ temp' \in [Operators -> Temporary]
  BY DEF IInv, TypeOK, Temporary
<1>2. ASSUME NEW j \in Operators PROVE Sound(session'[j], temp'[j])
  <2>1. CASE j = i
    <3>1. session'[j] = r /\ temp'[j] = t
      BY <2>1 DEF IInv, TypeOK, Temporary
    <3> QED
      BY <3>1
  <2>2. CASE j # i
    <3>1. session'[j] = session[j] /\ temp'[j] = temp[j]
      BY <2>2 DEF IInv, TypeOK, Temporary
    <3>2. Sound(session[j], temp[j])
      BY DEF IInv
    <3> QED
      BY <3>1, <3>2
  <2> QED
    BY <2>1, <2>2
<1> QED
  BY <1>1, <1>2 DEF IInv, TypeOK, Temporary

\* A session that has not written leaves with a message that is true of that,
\* or with one that says nothing of the file.
LEMMA LeavesUnwritten ==
    ASSUME NEW s \in Session, NEW t, NEW u, Sound(s, t), s.pc \notin {"off", "verify"},
           NEW message \in {"unchanged", "discarded", "invalid", "failed",
                            "interrupted", "killed"}
    PROVE  LET r == [s EXCEPT !.pc = "off", !.told = message]
           IN  r \in Session /\ Sound(r, u)
BY DEF Session, Phases, Messages, Sound

LEMMA ChooseModeKeeps ==
    ASSUME IInv, NEW i \in Operators, NEW mode \in {"new", "append", "overwrite"},
           ChooseMode(i, mode)
    PROVE  IInv'
<1>1. session \in [Operators -> Session]
  BY DEF IInv, TypeOK
<1>2. ASSUME NEW j \in Operators
      PROVE  session'[j] \in Session /\ Sound(session'[j], temp[j])
  <2> DEFINE others == {k \in Operators \ {i} : ~At(k, "off")}
             mine   == [Fresh EXCEPT !.pc = "load", !.mode = mode, !.alone = others = {}]
  <2>1. CASE j = i
    <3>1. session'[j] = mine
      BY <2>1 DEF ChooseMode
    <3>2. PICK b \in BOOLEAN : b = (others = {})
      OBVIOUS
    <3>3. mine = [Fresh EXCEPT !.pc = "load", !.mode = mode, !.alone = b]
      BY <3>2
    <3>4. [Fresh EXCEPT !.pc = "load", !.mode = mode, !.alone = b] \in Session
      BY FreshIsSound DEF Session, Phases
    <3>5. Sound([Fresh EXCEPT !.pc = "load", !.mode = mode, !.alone = b], temp[j])
      BY DEF Fresh, Sound
    <3> QED
      BY <3>1, <3>3, <3>4, <3>5
  <2>2. CASE j # i
    <3>1. session'[j] = session[j] \/ session'[j] = [session[j] EXCEPT !.alone = FALSE]
      BY <2>2 DEF ChooseMode
    <3>2. session[j] \in Session /\ Sound(session[j], temp[j])
      BY <1>1 DEF IInv
    <3>3. [session[j] EXCEPT !.alone = FALSE] \in Session
      BY <3>2 DEF Session
    <3>4. Sound([session[j] EXCEPT !.alone = FALSE], temp[j])
      BY <3>2 DEF Session, Sound
    <3> QED
      BY <3>1, <3>2, <3>3, <3>4
  <2> QED
    BY <2>1, <2>2
<1>3. DOMAIN session' = Operators /\ session' = [j \in Operators |-> session'[j]]
  BY DEF ChooseMode
<1>4. session' \in [Operators -> Session]
  BY <1>2, <1>3
<1>5. UNCHANGED <<file, bak, temp>>
  BY DEF ChooseMode
<1>6. TypeOK'
  BY <1>4, <1>5 DEF IInv, TypeOK
<1> QED
  BY <1>2, <1>5, <1>6 DEF IInv

\* Up to the confirmation nothing is on the disk.
LEMMA EnteringKeeps ==
    ASSUME IInv, NEW i \in Operators,
           \/ Quit(i) \/ LoadExistingDoc(i)
           \/ \E name \in Names, groups \in Groupings : EnterDevice(i, name, groups)
           \/ CollectDevices(i) \/ Discard(i) \/ Decline(i) \/ MergeDevices(i)
    PROVE  IInv'
<1> DEFINE s == session[i]
           t == temp[i]
<1>1. s \in Session /\ Sound(s, t) /\ t \in Temporary
  BY DEF IInv, TypeOK, Temporary
<1>2. UNCHANGED <<file, bak, temp>> /\ temp' = [temp EXCEPT ![i] = t]
  BY DEF Quit, LoadExistingDoc, EnterDevice, CollectDevices, Discard, Decline,
         MergeDevices, IInv, TypeOK
<1>3. file' \in Document \cup Unusable /\ bak' \in Document \cup Unusable \cup {Partial}
  BY <1>2 DEF IInv, TypeOK
<1>4. SUFFICES \E r \in Session : Sound(r, t) /\ session' = [session EXCEPT ![i] = r]
  BY <1>1, <1>2, <1>3, OneSession
<1>5. ASSUME NEW message \in {"unchanged", "discarded", "invalid", "failed",
                              "interrupted", "killed"},
             Exit(i, message), s.pc \notin {"off", "verify"}
      PROVE  \E r \in Session : Sound(r, t) /\ session' = [session EXCEPT ![i] = r]
  <2> DEFINE r == [s EXCEPT !.pc = "off", !.told = message]
  <2>1. session' = [session EXCEPT ![i] = r]
    BY <1>5 DEF Exit, IInv, TypeOK
  <2>2. r \in Session /\ Sound(r, t)
    BY <1>1, <1>5, LeavesUnwritten
  <2> QED
    BY <2>1, <2>2
<1>6. ASSUME NEW phase \in Phases, Go(i, phase)
      PROVE  LET r == [s EXCEPT !.pc = phase]
             IN  r \in Session /\ session' = [session EXCEPT ![i] = r]
  BY <1>1, <1>6 DEF Go, IInv, TypeOK, Session
<1>7. CASE Quit(i)
  <2>1. PICK message \in {"unchanged", "discarded"} :
            session' = [session EXCEPT ![i] = [Fresh EXCEPT !.told = message]]
    BY <1>7 DEF Quit
  <2>2. [Fresh EXCEPT !.told = message] \in Session
    BY FreshIsSound DEF Session, Messages
  <2>3. Sound([Fresh EXCEPT !.told = message], t)
    BY DEF Fresh, Sound
  <2> QED
    BY <2>1, <2>2, <2>3
<1>8. CASE LoadExistingDoc(i)
  <2>1. s.pc = "load"
    BY <1>8 DEF LoadExistingDoc, At
  <2>2. CASE Go(i, "collect")
    <3>1. "collect" \in Phases
      BY DEF Phases
    <3>2. Sound([s EXCEPT !.pc = "collect"], t)
      BY <1>1, <2>1, EmptyIsSound DEF Sound, Session
    <3> QED
      BY <1>6, <2>2, <3>1, <3>2
  <2>3. CASE file \notin Unusable /\ session' = [session EXCEPT ![i].pc = "collect",
                 ![i].base = file, ![i].doc = file]
    <3> DEFINE r == [s EXCEPT !.pc = "collect", !.base = file, !.doc = file]
    <3>1. session' = [session EXCEPT ![i] = r]
      BY <2>3 DEF IInv, TypeOK
    <3>2. file \in Document
      BY <2>3 DEF IInv, TypeOK
    <3>3. r \in Session
      BY <1>1, <3>2 DEF Session, Phases
    <3>4. Merge(file, Empty) = file
      BY <3>2, MergeWithEmpty
    <3>5. Sound(r, t)
      BY <1>1, <2>1, <3>4 DEF Sound, Session
    <3> QED
      BY <3>1, <3>3, <3>5
  <2>4. CASE Exit(i, "invalid")
    BY <1>5, <2>1, <2>4
  <2> QED
    BY <1>8, <2>2, <2>3, <2>4 DEF LoadExistingDoc
<1>9. CASE \E name \in Names, groups \in Groupings : EnterDevice(i, name, groups)
  <2>1. PICK name \in Names, groups \in Groupings : EnterDevice(i, name, groups)
    BY <1>9
  <2> DEFINE new  == [devices |-> {name}, groups |-> groups \X {name}]
             more == Merge(s.entered, new)
             r    == [s EXCEPT !.entered = more]
  <2>2. s.pc = "collect" /\ session' = [session EXCEPT ![i] = r]
    BY <2>1 DEF EnterDevice, At, IInv, TypeOK
  <2>3. s.doc \in Document /\ s.entered \in Document /\ groups \in SUBSET Names
    BY <1>1, ConstantsAssumption DEF Session
  <2>4. /\ name \notin Merge(s.doc, s.entered).devices \cup GroupNames(Merge(s.doc, s.entered))
        /\ groups \cap (Merge(s.doc, s.entered).devices \cup {name}) = {}
    BY <2>1 DEF EnterDevice, NameIsFree, AreNoDevices
  <2>5. more \in Document /\ (Loads(Merge(s.doc, s.entered)) => Loads(Merge(s.doc, more)))
    BY <2>3, <2>4, OneMoreDevice
  <2>6. r \in Session
    BY <1>1, <2>5 DEF Session
  <2>7. Sound(r, t)
    BY <1>1, <2>2, <2>5 DEF Sound, Session
  <2> QED
    BY <2>2, <2>6, <2>7
<1>10. CASE CollectDevices(i)
  <2>1. s.pc = "collect" /\ (Exit(i, "unchanged") \/ Go(i, "confirm"))
    BY <1>10 DEF CollectDevices, At
  <2>2. CASE Exit(i, "unchanged")
    BY <1>5, <2>1, <2>2
  <2>3. CASE Go(i, "confirm")
    <3>1. "confirm" \in Phases
      BY DEF Phases
    <3>2. Sound([s EXCEPT !.pc = "confirm"], t)
      BY <1>1, <2>1 DEF Sound, Session
    <3> QED
      BY <1>6, <2>3, <3>1, <3>2
  <2> QED
    BY <2>1, <2>2, <2>3
<1>11. CASE Discard(i) \/ Decline(i)
  <2>1. s.pc \in {"collect", "confirm"} /\ (Exit(i, "discarded") \/ Exit(i, "unchanged"))
    BY <1>11 DEF Discard, Decline, At
  <2> QED
    BY <1>5, <2>1
<1>12. CASE MergeDevices(i)
  <2> DEFINE r == [s EXCEPT !.pc = "save", !.doc = Merge(s.doc, s.entered)]
  <2>1. s.pc = "confirm" /\ session' = [session EXCEPT ![i] = r]
    BY <1>12 DEF MergeDevices, At, IInv, TypeOK
  <2>2. Merge(s.doc, s.entered) \in Document /\ Within(s.entered, Merge(s.doc, s.entered))
    BY <1>1, MergeKeepsBoth DEF Session
  <2>3. r \in Session
    BY <1>1, <2>2 DEF Session, Phases
  <2>4. Sound(r, t)
    BY <1>1, <2>1, <2>2 DEF Sound, Session
  <2> QED
    BY <2>1, <2>3, <2>4
<1> QED
  BY <1>7, <1>8, <1>9, <1>10, <1>11, <1>12

\* From the backup to the read-back: only the rename touches the file, and what
\* it puts there is the document of the session.
LEMMA SavingKeeps ==
    ASSUME IInv, NEW i \in Operators,
           \/ OpenBackup(i) \/ CopyBackup(i)
           \/ MakeTemp(i) \/ WriteTemp(i) \/ Replace(i) \/ VerifyWrittenFile(i)
    PROVE  IInv'
<1> DEFINE s == session[i]
           t == temp[i]
<1>1. s \in Session /\ Sound(s, t) /\ t \in Temporary
  BY DEF IInv, TypeOK, Temporary
<1>2. temp = [temp EXCEPT ![i] = t] /\ session = [session EXCEPT ![i] = s]
  BY DEF IInv, TypeOK
<1>3. /\ file \in Document \cup Unusable
      /\ bak \in Document \cup Unusable \cup {Partial}
  BY DEF IInv, TypeOK
<1>4. Partial \in Temporary /\ None \in Temporary /\ s.doc \in Temporary
  BY <1>1 DEF Temporary, Session
<1>5. ASSUME NEW phase \in {"backup", "write", "replace"}
      PROVE  [s EXCEPT !.pc = phase] \in Session
  BY <1>1 DEF Session, Phases
<1>6. CASE OpenBackup(i)
  <2>1. PICK phase \in {"backup", "write"} : Go(i, phase) /\ s.pc = "save"
    BY <1>6 DEF OpenBackup, At
  <2>2. Sound([s EXCEPT !.pc = phase], t)
    BY <1>1, <2>1 DEF Sound, Session
  <2>3. session' = [session EXCEPT ![i] = [s EXCEPT !.pc = phase]]
    BY <2>1 DEF Go, IInv, TypeOK
  <2>4. UNCHANGED <<file, temp>> /\ bak' \in Document \cup Unusable \cup {Partial}
    BY <1>3, <1>6 DEF OpenBackup
  <2> QED
    BY <1>1, <1>2, <1>3, <1>5, <2>2, <2>3, <2>4, OneSession
<1>7. CASE CopyBackup(i)
  <2>1. Go(i, "write") /\ s.pc = "backup" /\ UNCHANGED <<file, temp>> /\ bak' = file
    BY <1>7 DEF CopyBackup, At
  <2>2. Sound([s EXCEPT !.pc = "write"], t)
    BY <1>1, <2>1 DEF Sound, Session
  <2>3. session' = [session EXCEPT ![i] = [s EXCEPT !.pc = "write"]]
    BY <2>1 DEF Go, IInv, TypeOK
  <2> QED
    BY <1>1, <1>2, <1>3, <1>5, <2>1, <2>2, <2>3, OneSession
<1>8. CASE MakeTemp(i)
  <2>1. s.pc = "write" /\ temp' = [temp EXCEPT ![i] = Partial] /\ UNCHANGED <<file, bak, session>>
    BY <1>8 DEF MakeTemp, At
  <2>2. Sound(s, Partial)
    BY <1>1, <2>1 DEF Sound
  <2> QED
    BY <1>1, <1>2, <1>3, <1>4, <2>1, <2>2, OneSession
<1>9. CASE WriteTemp(i)
  <2>1. /\ s.pc = "write" /\ temp' = [temp EXCEPT ![i] = s.doc]
        /\ Go(i, "replace") /\ UNCHANGED <<file, bak>>
    BY <1>9 DEF WriteTemp, At
  <2>2. Sound([s EXCEPT !.pc = "replace"], s.doc)
    BY <1>1, <2>1 DEF Sound, Session
  <2>3. session' = [session EXCEPT ![i] = [s EXCEPT !.pc = "replace"]]
    BY <2>1 DEF Go, IInv, TypeOK
  <2> QED
    BY <1>3, <1>4, <1>5, <2>1, <2>2, <2>3, OneSession
<1>10. CASE Replace(i)
  <2> DEFINE r == [s EXCEPT !.pc = "verify", !.wrote = TRUE]
  <2>1. /\ s.pc = "replace" /\ temp' = [temp EXCEPT ![i] = None]
        /\ file' = t /\ bak' = bak /\ session' = [session EXCEPT ![i] = r]
    BY <1>10 DEF Replace, At, IInv, TypeOK
  <2>2. t = s.doc /\ s.doc \in Document
    BY <1>1, <2>1 DEF Sound, Session
  <2>3. r \in Session
    BY <1>1 DEF Session, Phases
  <2>4. Sound(r, None)
    BY <1>1, <2>1 DEF Sound, Session
  <2> QED
    BY <1>3, <1>4, <2>1, <2>2, <2>3, <2>4, OneSession
<1>11. CASE VerifyWrittenFile(i)
  <2>1. PICK message \in {"ok", "warning", "error"} : Exit(i, message) /\ s.pc = "verify"
    BY <1>11 DEF VerifyWrittenFile, At
  <2> DEFINE r == [s EXCEPT !.pc = "off", !.told = message]
  <2>2. session' = [session EXCEPT ![i] = r]
    BY <2>1 DEF Exit, IInv, TypeOK
  <2>3. r \in Session
    BY <1>1 DEF Session, Phases, Messages
  <2>4. Sound(r, t)
    BY <1>1, <2>1 DEF Sound, Session
  <2> QED
    BY <1>1, <1>2, <1>3, <1>11, <2>2, <2>3, <2>4, OneSession DEF VerifyWrittenFile
<1> QED
  BY <1>6, <1>7, <1>8, <1>9, <1>10, <1>11

\* However a session ends before its time, it says no more than is true.
LEMMA EndingKeeps ==
    ASSUME IInv, NEW i \in Operators, WriteFails(i) \/ Interrupt(i) \/ Kill(i)
    PROVE  IInv'
<1> DEFINE s == session[i]
<1>1. s \in Session /\ Sound(s, temp[i]) /\ None \in Temporary
  BY DEF IInv, TypeOK, Temporary
<1>2. PICK message \in {"failed", "interrupted", "killed"} :
          /\ Exit(i, message) /\ temp' = [temp EXCEPT ![i] = None]
          /\ s.pc # "off" /\ UNCHANGED <<file, bak>>
          /\ message = "failed" => s.pc # "verify"
  BY DEF WriteFails, Interrupt, Kill, At
<1> DEFINE r == [s EXCEPT !.pc = "off", !.told = message]
<1>3. session' = [session EXCEPT ![i] = r]
  BY <1>2 DEF Exit, IInv, TypeOK
<1>4. r \in Session /\ Sound(r, None)
  BY <1>1, <1>2 DEF Session, Phases, Messages, Sound
<1>5. file \in Document \cup Unusable /\ bak \in Document \cup Unusable \cup {Partial}
  BY DEF IInv, TypeOK
<1> QED
  BY <1>1, <1>2, <1>3, <1>4, <1>5, OneSession

LEMMA StepKeeps ==
    ASSUME IInv, NEW i \in Operators, Step(i)
    PROVE  IInv'
BY ChooseModeKeeps, EnteringKeeps, SavingKeeps, EndingKeeps DEF Step

\* What is always true of the sessions, the file and the temporary files.
THEOREM Invariance == Spec => []IInv
<1>1. IInv /\ [Next]_vars => IInv'
  <2> SUFFICES ASSUME IInv, [Next]_vars PROVE IInv'
    OBVIOUS
  <2>1. CASE Next
    BY <2>1, StepKeeps DEF Next
  <2>2. CASE UNCHANGED vars
    BY <2>2 DEF vars, IInv, TypeOK
  <2> QED
    BY <2>1, <2>2
<1> QED
  BY <1>1, StartsSound, PTL DEF Spec

\* The variables keep their types: the inventory file is never a part of a
\* document.
THEOREM TypeCorrect == Spec => []TypeOK
<1>1. IInv => TypeOK
  BY DEF IInv
<1> QED
  BY <1>1, Invariance, PTL

\* What a session writes over nothing or over a file that loads can be loaded.
THEOREM SavedFileLoadsHolds == Spec => []SavedFileLoads
<1>1. IInv => SavedFileLoads
  BY DEF IInv, Sound, SavedFileLoads
<1> QED
  BY <1>1, Invariance, PTL

\* A session that said the file is as it was has not replaced it, and one that
\* said it saved has.
THEOREM LastMessageIsTrueHolds == Spec => []LastMessageIsTrue
<1>1. IInv => LastMessageIsTrue
  BY DEF IInv, Sound, LastMessageIsTrue
<1> QED
  BY <1>1, Invariance, PTL

-----------------------------------------------------------------------------
(* The rename, and a session that runs alone. *)

\* Only the rename of a session touches the file.
LEMMA OnlyReplace ==
    ASSUME IInv, NEW i \in Operators, Step(i), ~Replace(i)
    PROVE  file' = file
BY DEF Step, ChooseMode, Quit, LoadExistingDoc, EnterDevice, CollectDevices, Discard,
       Decline, MergeDevices, OpenBackup, CopyBackup, MakeTemp, WriteTemp,
       VerifyWrittenFile, WriteFails, Interrupt, Kill

\* What the rename does.
LEMMA ReplaceWrites ==
    ASSUME IInv, NEW i \in Operators, Replace(i)
    PROVE  /\ At(i, "replace") /\ bak' = bak
           /\ session'[i].wrote /\ ~session[i].wrote
           /\ file' = session[i].doc /\ Within(session[i].entered, session[i].doc)
           /\ \A j \in Operators \ {i} : session'[j] = session[j]
<1>1. session[i] \in Session /\ Sound(session[i], temp[i])
  BY DEF IInv, TypeOK
<1>2. /\ At(i, "replace") /\ file' = temp[i] /\ bak' = bak
      /\ session' = [session EXCEPT ![i] = [session[i] EXCEPT !.pc = "verify", !.wrote = TRUE]]
  BY DEF Replace, IInv, TypeOK
<1>3. session'[i] = [session[i] EXCEPT !.pc = "verify", !.wrote = TRUE]
  BY <1>2 DEF IInv, TypeOK
<1>4. session'[i].wrote
  BY <1>1, <1>3 DEF Session
<1>5. \A j \in Operators \ {i} : session'[j] = session[j]
  BY <1>2 DEF IInv, TypeOK
<1> QED
  BY <1>1, <1>2, <1>4, <1>5 DEF Sound, At

\* The inventory file changes only from one whole document to another, at the
\* rename of a session that was confirmed, and to what the session entered.
THEOREM FileIsReplacedWholeHolds == Spec => FileIsReplacedWhole
<1>1. IInv /\ [Next]_vars =>
        [file' # file =>
            \E i \in Operators :
                /\ session'[i].wrote /\ ~session[i].wrote
                /\ file' = session[i].doc
                /\ Within(session[i].entered, file')]_vars
  <2> SUFFICES ASSUME IInv, Next, file' # file
               PROVE  \E i \in Operators :
                          /\ session'[i].wrote /\ ~session[i].wrote
                          /\ file' = session[i].doc
                          /\ Within(session[i].entered, file')
    BY DEF vars
  <2>1. PICK i \in Operators : Step(i)
    BY DEF Next
  <2>2. Replace(i)
    BY <2>1, OnlyReplace
  <2> QED
    BY <2>2, ReplaceWrites
<1> QED
  BY <1>1, Invariance, PTL DEF Spec, FileIsReplacedWhole

\* While no other session has overlapped this one, none is on its way, and what
\* this one holds of the file, in its memory or in the .bak, is the file.
Solitary(i) ==
    session[i].alone /\ ~At(i, "off") =>
        /\ \A j \in Operators \ {i} : At(j, "off")
        /\ session[i].pc \in {"write", "replace"} => file = Missing \/ bak = file
        /\ session[i].mode = "append" /\ session[i].pc \in {"collect", "confirm"} =>
              session[i].doc = file
        /\ session[i].mode = "append"
           /\ session[i].pc \in {"save", "backup", "write", "replace"} =>
              Within(file, session[i].doc)
        /\ session[i].pc = "verify" => Within(session[i].entered, file)

\* Another session that is off does not come in its way unnoticed.
LEMMA OthersStaySolitary ==
    ASSUME IInv, NEW i \in Operators, NEW k \in Operators \ {i}, Step(i), Solitary(k)
    PROVE  Solitary(k)'
<1>1. session[i] \in Session /\ session[k] \in Session /\ session \in [Operators -> Session]
  BY DEF IInv, TypeOK
<1>2. SUFFICES ASSUME session'[k].alone, ~At(k, "off")'
               PROVE  Solitary(k)'
  BY DEF Solitary
<1>3. CASE \E mode \in {"new", "append", "overwrite"} : ChooseMode(i, mode)
  <2>1. At(k, "off") => session'[k] = session[k]
    BY <1>3 DEF ChooseMode
  <2>2. ~At(k, "off") => session'[k] = [session[k] EXCEPT !.alone = FALSE]
    BY <1>3 DEF ChooseMode
  <2>3. FALSE
    BY <1>1, <1>2, <2>1, <2>2 DEF At, Session
  <2> QED
    BY <2>3
<1>4. CASE ~\E mode \in {"new", "append", "overwrite"} : ChooseMode(i, mode)
  <2>1. session'[k] = session[k] /\ \A j \in Operators \ {i} : session'[j] = session[j]
    BY <1>1, <1>4 DEF Step, Quit, LoadExistingDoc, EnterDevice, CollectDevices, Discard,
       Decline, MergeDevices, OpenBackup, CopyBackup, MakeTemp, WriteTemp, Replace,
       VerifyWrittenFile, WriteFails, Interrupt, Kill, Go, Exit
  <2>2. session[k].alone /\ ~At(k, "off")
    BY <1>2, <2>1 DEF At
  <2>3. At(i, "off")
    BY <2>2 DEF Solitary
  <2>4. Quit(i)
    BY <1>4, <2>3 DEF Step, Quit, LoadExistingDoc, EnterDevice, CollectDevices, Discard,
       Decline, MergeDevices, OpenBackup, CopyBackup, MakeTemp, WriteTemp, Replace,
       VerifyWrittenFile, WriteFails, Interrupt, Kill, At
  <2>5. UNCHANGED <<file, bak>> /\ At(i, "off")'
    <3>1. PICK message \in Messages : session' = [session EXCEPT ![i] = [Fresh EXCEPT !.told = message]]
      BY <2>4 DEF Quit, Messages
    <3>2. session'[i] = [Fresh EXCEPT !.told = message]
      BY <1>1, <3>1
    <3> QED
      BY <2>4, <3>2 DEF Quit, At, Fresh
  <2>6. \A j \in Operators \ {k} : At(j, "off")'
    BY <2>1, <2>2, <2>5 DEF Solitary, At
  <2> QED
    BY <2>1, <2>2, <2>5, <2>6 DEF Solitary, At
<1> QED
  BY <1>3, <1>4

\* A session stays true to the file while it is alone.
LEMMA StaysSolitary ==
    ASSUME IInv, NEW i \in Operators, Step(i), Solitary(i)
    PROVE  Solitary(i)'
<1> DEFINE s == session[i]
<1>1. s \in Session /\ session \in [Operators -> Session] /\ Sound(s, temp[i])
  BY DEF IInv, TypeOK
<1>2. SUFFICES ASSUME session'[i].alone, ~At(i, "off")'
               PROVE  Solitary(i)'
  BY DEF Solitary
<1>3. CASE \E mode \in {"new", "append", "overwrite"} : ChooseMode(i, mode)
  <2>1. PICK mode \in {"new", "append", "overwrite"} : ChooseMode(i, mode)
    BY <1>3
  <2> DEFINE others == {k \in Operators \ {i} : ~At(k, "off")}
  <2>2. session'[i] = [Fresh EXCEPT !.pc = "load", !.mode = mode, !.alone = others = {}]
    BY <2>1 DEF ChooseMode
  <2>3. session'[i].alone = (others = {}) /\ session'[i].pc = "load"
    BY <2>2 DEF Fresh
  <2>4. \A j \in Operators \ {i} : At(j, "off")
    BY <1>2, <2>3
  <2>5. \A j \in Operators \ {i} : session'[j] = session[j]
    BY <2>1, <2>4 DEF ChooseMode
  <2> QED
    BY <2>3, <2>4, <2>5 DEF Solitary, At
<1>4. ASSUME \A j \in Operators \ {i} : session'[j] = session[j],
             NEW r \in Session, session' = [session EXCEPT ![i] = r],
             r.alone = s.alone, s.pc # "off"
      PROVE  /\ session'[i] = r /\ s.alone
             /\ \A j \in Operators \ {i} : At(j, "off")'
  BY <1>1, <1>2, <1>4 DEF Solitary, At
<1>5. ASSUME NEW message \in Messages, Exit(i, message)
      PROVE  FALSE
  <2>1. session'[i].pc = "off"
    BY <1>1, <1>5 DEF Exit, Session
  <2> QED
    BY <1>2, <2>1 DEF At
<1>6. ASSUME NEW phase \in Phases \ {"off"}, Go(i, phase), s.pc # "off", UNCHANGED <<file, bak>>,
             phase \in {"backup", "write", "replace", "confirm"} \/ s.mode # "append",
             phase \in {"write", "replace"} => file = Missing \/ bak = file \/ s.pc = "write",
             phase = "verify" => s.pc = "verify",
             phase = "confirm" => s.pc = "collect",
             phase \in {"backup", "write", "replace"} => s.pc \in {"save", "backup", "write"}
      PROVE  Solitary(i)'
  <2> DEFINE r == [s EXCEPT !.pc = phase]
  <2>1. session' = [session EXCEPT ![i] = r]
    BY <1>6 DEF Go, IInv, TypeOK
  <2>2. r \in Session /\ r.alone = s.alone
    BY <1>1 DEF Session
  <2>3. \A j \in Operators \ {i} : session'[j] = session[j]
    BY <1>1, <2>1
  <2>4. session'[i] = r /\ s.alone /\ \A j \in Operators \ {i} : At(j, "off")'
    BY <1>4, <1>6, <2>1, <2>2, <2>3
  <2>5. r.pc = phase /\ r.mode = s.mode /\ r.doc = s.doc /\ r.entered = s.entered
    BY <1>1 DEF Session
  <2> QED
    BY <1>6, <2>4, <2>5 DEF Solitary, At, Phases
<1>7. CASE Quit(i)
  <2>1. PICK message \in Messages : session' = [session EXCEPT ![i] = [Fresh EXCEPT !.told = message]]
    BY <1>7 DEF Quit, Messages
  <2>2. session'[i].pc = "off"
    BY <1>1, <2>1 DEF Fresh
  <2> QED
    BY <1>2, <2>2 DEF At
<1>8. CASE LoadExistingDoc(i)
  <2>1. s.pc = "load" /\ UNCHANGED <<file, bak>>
    BY <1>8 DEF LoadExistingDoc, At
  <2>2. CASE s.mode # "append" /\ Go(i, "collect")
    BY <1>6, <2>1, <2>2 DEF Phases
  <2>3. CASE /\ file \notin Unusable
             /\ session' = [session EXCEPT ![i].pc = "collect", ![i].base = file,
                                           ![i].doc = file]
    <3> DEFINE r == [s EXCEPT !.pc = "collect", !.base = file, !.doc = file]
    <3>1. session' = [session EXCEPT ![i] = r]
      BY <2>3 DEF IInv, TypeOK
    <3>2. file \in Document
      BY <2>3 DEF IInv, TypeOK
    <3>3. r \in Session /\ r.alone = s.alone
      BY <1>1, <3>2 DEF Session, Phases
    <3>4. \A j \in Operators \ {i} : session'[j] = session[j]
      BY <1>1, <3>1
    <3>5. session'[i] = r /\ s.alone /\ \A j \in Operators \ {i} : At(j, "off")'
      BY <1>4, <2>1, <3>1, <3>3, <3>4
    <3>6. r.pc = "collect" /\ r.doc = file
      BY <1>1 DEF Session
    <3> QED
      BY <2>1, <3>5, <3>6 DEF Solitary, At
  <2>4. ~Exit(i, "invalid")
    BY <1>5 DEF Messages
  <2> QED
    BY <1>8, <2>2, <2>3, <2>4 DEF LoadExistingDoc
<1>9. CASE \E name \in Names, groups \in Groupings : EnterDevice(i, name, groups)
  <2>1. PICK name \in Names, groups \in Groupings : EnterDevice(i, name, groups)
    BY <1>9
  <2> DEFINE more == Merge(s.entered, [devices |-> {name}, groups |-> groups \X {name}])
             r    == [s EXCEPT !.entered = more]
  <2>2. s.pc = "collect" /\ session' = [session EXCEPT ![i] = r] /\ UNCHANGED <<file, bak>>
    BY <2>1 DEF EnterDevice, At, IInv, TypeOK
  <2>3. session'[i] = r /\ \A j \in Operators \ {i} : session'[j] = session[j]
    BY <1>1, <2>2
  <2>4. r.pc = s.pc /\ r.mode = s.mode /\ r.doc = s.doc /\ r.alone = s.alone
    BY <1>1 DEF Session
  <2>5. s.alone /\ ~At(i, "off")
    BY <1>2, <2>2, <2>3, <2>4 DEF At
  <2> QED
    BY <2>2, <2>3, <2>4, <2>5 DEF Solitary, At
<1>10. CASE CollectDevices(i)
  <2>1. Go(i, "confirm") /\ s.pc = "collect" /\ UNCHANGED <<file, bak>>
    BY <1>5, <1>10 DEF CollectDevices, At, Messages
  <2> QED
    BY <1>6, <2>1 DEF Phases
<1>11. CASE Discard(i) \/ Decline(i) \/ VerifyWrittenFile(i) \/ WriteFails(i) \/ Interrupt(i) \/ Kill(i)
  BY <1>5, <1>11 DEF Discard, Decline, VerifyWrittenFile, WriteFails, Interrupt, Kill, Messages
<1>12. CASE MergeDevices(i)
  <2> DEFINE r == [s EXCEPT !.pc = "save", !.doc = Merge(s.doc, s.entered)]
  <2>1. s.pc = "confirm" /\ session' = [session EXCEPT ![i] = r] /\ UNCHANGED <<file, bak>>
    BY <1>12 DEF MergeDevices, At, IInv, TypeOK
  <2>2. session'[i] = r /\ \A j \in Operators \ {i} : session'[j] = session[j]
    BY <1>1, <2>1
  <2>3. r.pc = "save" /\ r.mode = s.mode /\ r.doc = Merge(s.doc, s.entered) /\ r.alone = s.alone
    BY <1>1 DEF Session
  <2>4. s.alone /\ ~At(i, "off")
    BY <1>2, <2>1, <2>2, <2>3 DEF At
  <2>5. Within(s.doc, Merge(s.doc, s.entered))
    BY <1>1, MergeKeepsBoth DEF Session
  <2> QED
    BY <2>1, <2>2, <2>3, <2>4, <2>5 DEF Solitary, At
<1>13. CASE OpenBackup(i)
  <2>1. s.pc = "save" /\ UNCHANGED file
    BY <1>13 DEF OpenBackup, At
  <2>2. CASE file = Missing /\ Go(i, "write") /\ UNCHANGED bak
    BY <1>6, <2>1, <2>2 DEF Phases
  <2>3. CASE Go(i, "backup")
    <3> DEFINE r == [s EXCEPT !.pc = "backup"]
    <3>1. session' = [session EXCEPT ![i] = r]
      BY <2>3 DEF Go, IInv, TypeOK
    <3>2. session'[i] = r /\ \A j \in Operators \ {i} : session'[j] = session[j]
      BY <1>1, <3>1
    <3>3. r.pc = "backup" /\ r.mode = s.mode /\ r.doc = s.doc /\ r.alone = s.alone
      BY <1>1 DEF Session
    <3>4. s.alone /\ ~At(i, "off")
      BY <1>2, <2>1, <3>2, <3>3 DEF At
    <3> QED
      BY <2>1, <3>2, <3>3, <3>4 DEF Solitary, At
  <2> QED
    BY <1>13, <2>2, <2>3 DEF OpenBackup
<1>14. CASE CopyBackup(i)
  <2>1. s.pc = "backup" /\ UNCHANGED file /\ bak' = file /\ Go(i, "write")
    BY <1>14 DEF CopyBackup, At
  <2> DEFINE r == [s EXCEPT !.pc = "write"]
  <2>2. session' = [session EXCEPT ![i] = r]
    BY <2>1 DEF Go, IInv, TypeOK
  <2>3. session'[i] = r /\ \A j \in Operators \ {i} : session'[j] = session[j]
    BY <1>1, <2>2
  <2>4. r.pc = "write" /\ r.mode = s.mode /\ r.doc = s.doc /\ r.alone = s.alone
    BY <1>1 DEF Session
  <2>5. s.alone /\ ~At(i, "off")
    BY <1>2, <2>1, <2>3, <2>4 DEF At
  <2> QED
    BY <2>1, <2>3, <2>4, <2>5 DEF Solitary, At
<1>15. CASE MakeTemp(i)
  BY <1>15 DEF MakeTemp, Solitary, At
<1>16. CASE WriteTemp(i)
  <2>1. s.pc = "write" /\ UNCHANGED <<file, bak>> /\ Go(i, "replace")
    BY <1>16 DEF WriteTemp, At
  <2> QED
    BY <1>6, <2>1 DEF Phases
<1>17. CASE Replace(i)
  <2>1. /\ file' = s.doc /\ Within(s.entered, s.doc) /\ At(i, "replace")
        /\ \A j \in Operators \ {i} : session'[j] = session[j]
    BY <1>17, ReplaceWrites
  <2> DEFINE r == [s EXCEPT !.pc = "verify", !.wrote = TRUE]
  <2>2. session'[i] = r
    BY <1>1, <1>17 DEF Replace
  <2>3. r.pc = "verify" /\ r.entered = s.entered /\ r.alone = s.alone
    BY <1>1 DEF Session
  <2>4. s.alone /\ ~At(i, "off")
    BY <1>2, <2>1, <2>2, <2>3 DEF At
  <2> QED
    BY <2>1, <2>2, <2>3, <2>4 DEF Solitary, At
<1> QED
  BY <1>3, <1>7, <1>8, <1>9, <1>10, <1>11, <1>12, <1>13, <1>14, <1>15, <1>16, <1>17 DEF Step

LEMMA EverSolitary == Spec => [](\A i \in Operators : Solitary(i))
<1> DEFINE All == \A i \in Operators : Solitary(i)
<1>1. Init => All
  BY DEF Init, Solitary, At, Fresh
<1>2. IInv /\ All /\ [Next]_vars => All'
  <2> SUFFICES ASSUME IInv, All, [Next]_vars PROVE All'
    OBVIOUS
  <2>1. CASE Next
    <3>1. PICK i \in Operators : Step(i)
      BY <2>1 DEF Next
    <3>2. Solitary(i)'
      BY <3>1, StaysSolitary
    <3>3. ASSUME NEW k \in Operators \ {i} PROVE Solitary(k)'
      BY <3>1, OthersStaySolitary
    <3> QED
      BY <3>2, <3>3
  <2>2. CASE UNCHANGED vars
    BY <2>2 DEF vars, Solitary, At
  <2> QED
    BY <2>1, <2>2
<1> HIDE DEF All
<1>3. Spec => []All
  BY <1>1, <1>2, Invariance, PTL DEF Spec
<1> QED
  BY <1>3 DEF All

\* While a session runs alone, what its rename replaces is in the .bak, and in
\* append mode the new file holds all that the old one did.
THEOREM ReplacedContentIsKeptHolds == Spec => ReplacedContentIsKept
<1> DEFINE All == \A i \in Operators : Solitary(i)
           Kept == \A i \in Operators :
                      file' # file /\ session'[i].wrote /\ ~session[i].wrote
                        /\ session[i].alone =>
                          /\ file # Missing => bak = file
                          /\ session[i].mode = "append" => Within(file, file')
<1>1. IInv /\ All /\ [Next]_vars => [Kept]_vars
  <2> SUFFICES ASSUME IInv, All, Next,
                      NEW k \in Operators, file' # file,
                      session'[k].wrote, ~session[k].wrote, session[k].alone
               PROVE  /\ file # Missing => bak = file
                      /\ session[k].mode = "append" => Within(file, file')
    BY DEF vars
  <2>1. PICK i \in Operators : Step(i)
    BY DEF Next
  <2>2. Replace(i)
    BY <2>1, OnlyReplace
  <2>3. k = i
    BY <2>2, ReplaceWrites
  <2>4. At(k, "replace") /\ file' = session[k].doc
    BY <2>2, <2>3, ReplaceWrites
  <2>5. Solitary(k)
    OBVIOUS
  <2> QED
    BY <2>4, <2>5 DEF Solitary, At
<1>2. Spec => []All
  BY EverSolitary
<1>3. ReplacedContentIsKept <=> [][Kept]_vars
  BY DEF ReplacedContentIsKept
<1> HIDE DEF All, Kept
<1> QED
  BY <1>1, <1>2, <1>3, Invariance, PTL DEF Spec

\* When a session that ran alone says OK, all that was entered is in the file.
THEOREM VerifiedMeansStoredHolds == Spec => VerifiedMeansStored
<1> DEFINE All == \A i \in Operators : Solitary(i)
           Stored == \A i \in Operators :
                        session[i].alone /\ session[i].told # "ok" /\ session'[i].told = "ok" =>
                            Within(session[i].entered, file)
<1>1. IInv /\ All /\ [Next]_vars => [Stored]_vars
  <2> SUFFICES ASSUME IInv, All, Next, NEW k \in Operators,
                      session[k].alone, session[k].told # "ok", session'[k].told = "ok"
               PROVE  Within(session[k].entered, file)
    BY DEF vars
  <2>1. PICK i \in Operators : Step(i)
    BY DEF Next
  <2>2. session[k] \in Session /\ session \in [Operators -> Session]
    BY DEF IInv, TypeOK
  <2>3. VerifyWrittenFile(k)
    <3>1. CASE \E mode \in {"new", "append", "overwrite"} : ChooseMode(i, mode)
      <4>1. CASE k = i
        <5>1. PICK mode \in {"new", "append", "overwrite"} : ChooseMode(i, mode)
          BY <3>1
        <5> DEFINE others == {j \in Operators \ {i} : ~At(j, "off")}
        <5>2. session'[k] = [Fresh EXCEPT !.pc = "load", !.mode = mode, !.alone = others = {}]
          BY <4>1, <5>1 DEF ChooseMode
        <5>3. session'[k].told = "none"
          BY <5>2 DEF Fresh
        <5> QED
          BY <5>3
      <4>2. CASE k # i
        <5>1. session'[k] = session[k] \/ session'[k] = [session[k] EXCEPT !.alone = FALSE]
          BY <3>1, <4>2 DEF ChooseMode
        <5> QED
          BY <2>2, <5>1 DEF Session
      <4> QED
        BY <4>1, <4>2
    <3>2. CASE \E name \in Names, groups \in Groupings : EnterDevice(i, name, groups)
      BY <2>2, <3>2 DEF EnterDevice, Session
    <3>3. CASE Quit(i)
      <4>1. PICK message \in {"unchanged", "discarded"} :
                session' = [session EXCEPT ![i] = [Fresh EXCEPT !.told = message]]
        BY <3>3 DEF Quit
      <4> QED
        BY <2>2, <4>1 DEF Fresh
    <3>4. ASSUME NEW phase, Go(i, phase) PROVE FALSE
      BY <2>2, <3>4 DEF Go, Session
    <3>5. ASSUME NEW message, message # "ok", Exit(i, message) PROVE FALSE
      BY <2>2, <3>5 DEF Exit, Session
    <3>6. CASE LoadExistingDoc(i)
      <4>1. session' = [session EXCEPT ![i].pc = "collect", ![i].base = file, ![i].doc = file]
        BY <3>4, <3>5, <3>6 DEF LoadExistingDoc
      <4> QED
        BY <2>2, <4>1 DEF Session
    <3>7. CASE MergeDevices(i) \/ MakeTemp(i) \/ Replace(i)
      BY <2>2, <3>7 DEF MergeDevices, MakeTemp, Replace, Session
    <3>8. CASE \/ CollectDevices(i) \/ Discard(i) \/ Decline(i) \/ OpenBackup(i)
               \/ CopyBackup(i) \/ WriteTemp(i) \/ WriteFails(i) \/ Interrupt(i) \/ Kill(i)
      BY <3>4, <3>5, <3>8 DEF CollectDevices, Discard, Decline, OpenBackup, CopyBackup,
                              WriteTemp, WriteFails, Interrupt, Kill
    <3>9. CASE VerifyWrittenFile(i)
      <4>1. k = i
        BY <2>2, <3>9 DEF VerifyWrittenFile, Exit
      <4> QED
        BY <3>9, <4>1
    <3> QED
      BY <2>1, <3>1, <3>2, <3>3, <3>6, <3>7, <3>8, <3>9 DEF Step
  <2>4. Solitary(k) /\ session[k].pc = "verify"
    BY <2>3 DEF VerifyWrittenFile, At
  <2> QED
    BY <2>4 DEF Solitary, At
<1>2. Spec => []All
  BY EverSolitary
<1>3. VerifiedMeansStored <=> [][Stored]_vars
  BY DEF VerifiedMeansStored
<1> HIDE DEF All, Stored
<1> QED
  BY <1>1, <1>2, <1>3, Invariance, PTL DEF Spec
=============================================================================
