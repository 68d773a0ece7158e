------------------------- MODULE OutputStore_proofs -------------------------
(***************************************************************************)
(* Proofs about OutputStore, for every number of savers, clients, commands *)
(* and lines, and every page size.                                         *)
(***************************************************************************)
EXTENDS OutputStore, Subsequences_proofs, SequenceTheorems, TLAPS

\* A writer's file is there, its name has not been returned, and nobody else
\* writes it.
Owned ==
    /\ \A s \in Savers :
          /\ saver[s].pc # "idle" => saver[s].name \in Names
          /\ saver[s].pc = "writing" =>
                Exists(saver[s].name) /\ saved[saver[s].name] = None
    /\ OneWriterPerFile

\* A client that reads a saved output has the lines before its offset, and there
\* are more unless the output is empty.
Paging ==
    \A c \in Clients :
        LET r == client[c]
        IN  /\ r.pc = "reading" => r.name \in Names
            /\ r.whole =>
                  /\ r.name \in Names /\ saved[r.name] # None
                  /\ r.got = [i \in 1..r.offset |-> i]
                  /\ r.pc = "reading" =>
                        r.offset < saved[r.name] \/ (r.offset = 0 /\ saved[r.name] = 0)
                  /\ r.pc = "done" => r.offset = saved[r.name]
                  /\ r.pc # "failed"

IInv == TypeOK /\ Owned /\ SavedStaysWhole /\ Paging

\* No output has more lines than can be numbered.
LEMMA Lengths ==
    /\ 0..MaxLines \subseteq Nat /\ None \notin 0..MaxLines
    /\ \A n \in Names : n # None
BY ConstantsAssumption

\* The lines of a page, behind those before its offset, are the lines up to its
\* end.
LEMMA PageContinues ==
    ASSUME NEW offset \in 0..MaxLines, NEW end \in 0..MaxLines, offset <= end
    PROVE  /\ Page(offset, end) \in Seq(1..MaxLines)
           /\ [i \in 1..offset |-> i] \o Page(offset, end) = [i \in 1..end |-> i]
<1> DEFINE Lines(n) == [i \in 1..n |-> i]
<1>1. offset \in Nat /\ end \in Nat /\ MaxLines \in Nat /\ end - offset \in Nat
  BY ConstantsAssumption
<1>2. Page(offset, end) \in [1..(end - offset) -> 1..MaxLines]
  BY <1>1 DEF Page
<1>3. Page(offset, end) \in Seq(1..MaxLines) /\ Len(Page(offset, end)) = end - offset
  BY <1>1, <1>2, SeqDef DEF Page
<1>4. \A n \in 0..MaxLines : Lines(n) \in Seq(1..MaxLines) /\ Len(Lines(n)) = n
  <2>1. \A n \in 0..MaxLines : Lines(n) \in [1..n -> 1..MaxLines] /\ n \in Nat
    BY <1>1
  <2> QED
    BY <2>1, SeqDef
<1> DEFINE both == Lines(offset) \o Page(offset, end)
<1>5. /\ both \in Seq(1..MaxLines) /\ Len(both) = end
      /\ \A i \in 1..Len(both) : both[i] = IF i <= offset THEN Lines(offset)[i]
                                          ELSE Page(offset, end)[i - offset]
  BY <1>1, <1>3, <1>4, ConcatProperties
<1>6. \A i \in 1..end : both[i] = Lines(end)[i]
  BY <1>1, <1>5 DEF Page
<1>7. both = Lines(end)
  BY <1>4, <1>5, <1>6, SeqEqual
<1> QED
  BY <1>3, <1>7

-----------------------------------------------------------------------------
\* The directory starts empty.
LEMMA StartsEmpty == Init => IInv
<1> SUFFICES ASSUME Init PROVE IInv
  OBVIOUS
<1>1. TypeOK
  <2>1. <<>> \in Seq(1..MaxLines) /\ 0 \in 0..MaxLines /\ 0 \in 0..MaxTime
    BY ConstantsAssumption, EmptySeq
  <2> QED
    BY <2>1 DEF Init, TypeOK, Saver, Client
<1>2. Owned /\ SavedStaysWhole /\ Paging
  BY DEF Init, Owned, OneWriterPerFile, SavedStaysWhole, Paging
<1> QED
  BY <1>1, <1>2 DEF IInv

\* Types.
LEMMA TypeStep ==
    ASSUME IInv, [Next]_vars
    PROVE  TypeOK'
<1> USE ConstantsAssumption
<1>0. TypeOK
  BY DEF IInv
<1> USE DEF TypeOK
<1>1. CASE Tick
  BY <1>0, <1>1 DEF Tick
<1>2. ASSUME NEW s \in Savers, NEW cmd \in Commands, NEW size \in 0..MaxLines,
             StampName(s, cmd, size)
      PROVE  TypeOK'
  <2>1. AnyRandom \in Randoms
    BY DEF AnyRandom
  <2>2. [cmd |-> cmd, time |-> clock, rand |-> AnyRandom] \in Names
    BY <1>0, <2>1 DEF Names
  <2> QED
    BY <1>0, <1>2, <2>2 DEF StampName, Saver
<1>3. ASSUME NEW s \in Savers, MakeFile(s)
      PROVE  TypeOK'
  <2>1. PICK rand \in Randoms : MakeFile(s)!3!(rand)
    BY <1>3 DEF MakeFile
  <2>2. saver[s].pc # "idle" /\ saver[s].name \in Names
    BY <1>3 DEF MakeFile, IInv, Owned
  <2>3. [saver[s].name EXCEPT !.rand = rand] \in Names
    BY <2>2 DEF Names
  <2>4. saver' \in [Savers -> Saver]
    BY <1>0, <2>1, <2>3 DEF Saver
  <2>5. files' \in [Names -> 0..MaxLines \cup {None}]
    BY <1>0, <2>1, <2>3
  <2> QED
    BY <1>0, <1>3, <2>4, <2>5 DEF MakeFile
<1>4. ASSUME NEW s \in Savers, WriteSome(s)
      PROVE  TypeOK'
  <2>1. /\ saver[s] \in Saver /\ saver[s].size \in 0..MaxLines
        /\ saver[s].name \in Names /\ files[saver[s].name] \in 0..MaxLines
    BY <1>0, <1>4 DEF WriteSome, Saver, IInv, Owned, Exists
  <2> QED
    BY <1>0, <1>4, <2>1 DEF WriteSome
<1>5. ASSUME NEW s \in Savers, ReturnName(s) \/ SaveFails(s) \/ Kill(s)
      PROVE  TypeOK'
  BY <1>0, <1>5 DEF ReturnName, SaveFails, Kill, Saver
<1>6. ASSUME NEW c \in Clients, NEW name \in Names, Choose(c, name)
      PROVE  TypeOK'
  <2>1. <<>> \in Seq(1..MaxLines) /\ 0 \in 0..MaxLines
    BY EmptySeq
  <2> QED
    BY <1>0, <1>6, <2>1 DEF Choose, Client
<1>7. ASSUME NEW c \in Clients, NEW limit \in Limits, ReadPage(c, limit)
      PROVE  TypeOK'
  <2> DEFINE r     == client[c]
             total == files[r.name]
             end   == PageEnd(r.offset, limit, total)
  <2>1. r \in Client /\ r.name \in Names /\ total \in 0..MaxLines /\ limit \in Nat \ {0}
    BY <1>0, <1>7 DEF ReadPage, IInv, Paging, Exists
  <2>2. CASE client' = [client EXCEPT ![c].pc = "done"] \/ client' = [client EXCEPT ![c].pc = "failed"]
    <3>1. [r EXCEPT !.pc = "done"] \in Client /\ [r EXCEPT !.pc = "failed"] \in Client
      BY <2>1 DEF Client
    <3>2. \/ client' = [client EXCEPT ![c] = [r EXCEPT !.pc = "done"]]
          \/ client' = [client EXCEPT ![c] = [r EXCEPT !.pc = "failed"]]
      BY <1>0, <2>2
    <3>3. client' \in [Clients -> Client]
      BY <1>0, <3>1, <3>2
    <3>4. UNCHANGED <<clock, files, saver, saved>>
      BY <1>7 DEF ReadPage
    <3> QED
      BY <1>0, <3>3, <3>4
  <2>3. CASE /\ r.offset < total
             /\ client' = [client EXCEPT
                     ![c].got = @ \o Page(r.offset, end),
                     ![c].offset = end,
                     ![c].pc = IF end < total THEN "reading" ELSE "done"]
    <3>1. r.offset \in 0..MaxLines /\ end \in 0..MaxLines /\ r.offset <= end
      BY <2>1, <2>3 DEF PageEnd, Client
    <3>2. r.got \o Page(r.offset, end) \in Seq(1..MaxLines)
      BY <2>1, <3>1, PageContinues, ConcatProperties DEF Client
    <3>3. client' = [client EXCEPT ![c] =
                        [r EXCEPT !.got = @ \o Page(r.offset, end), !.offset = end,
                                  !.pc = IF end < total THEN "reading" ELSE "done"]]
      BY <1>0, <2>3
    <3>4. [r EXCEPT !.got = @ \o Page(r.offset, end), !.offset = end,
                    !.pc = IF end < total THEN "reading" ELSE "done"] \in Client
      BY <2>1, <3>1, <3>2 DEF Client
    <3>5. client' \in [Clients -> Client]
      BY <1>0, <3>3, <3>4
    <3> QED
      BY <1>0, <1>7, <3>5 DEF ReadPage
  <2> QED
    BY <1>7, <2>2, <2>3 DEF ReadPage
<1>8. ASSUME NEW c \in Clients, ReadGone(c)
      PROVE  TypeOK'
  BY <1>0, <1>8 DEF ReadGone, Client
<1>9. CASE UNCHANGED vars
  BY <1>0, <1>9 DEF vars
<1> QED
  BY <1>1, <1>2, <1>3, <1>4, <1>5, <1>6, <1>7, <1>8, <1>9 DEF Next

\* Savers keep to their own files.
LEMMA SaverStep ==
    ASSUME IInv, [Next]_vars
    PROVE  Owned' /\ SavedStaysWhole'
<1>0. TypeOK /\ Owned /\ SavedStaysWhole
  BY DEF IInv
<1>1. CASE UNCHANGED <<files, saver, saved>>
  BY <1>0, <1>1 DEF Owned, OneWriterPerFile, SavedStaysWhole, Exists
<1>2. ASSUME NEW s \in Savers, NEW cmd \in Commands, NEW size \in 0..MaxLines,
             StampName(s, cmd, size)
      PROVE  Owned' /\ SavedStaysWhole'
  <2>1. AnyRandom \in Randoms
    BY ConstantsAssumption DEF AnyRandom
  <2>2. [cmd |-> cmd, time |-> clock, rand |-> AnyRandom] \in Names
    BY <1>0, <2>1 DEF TypeOK, Names
  <2>3. /\ saver'[s].pc = "named" /\ saver'[s].name \in Names
        /\ \A t \in Savers \ {s} : saver'[t] = saver[t]
    BY <1>0, <1>2, <2>2 DEF StampName, TypeOK
  <2> QED
    BY <1>0, <1>2, <2>3 DEF StampName, Owned, OneWriterPerFile, SavedStaysWhole, Exists
<1>3. ASSUME NEW s \in Savers, MakeFile(s)
      PROVE  Owned' /\ SavedStaysWhole'
  <2>1. PICK rand \in Randoms : MakeFile(s)!3!(rand)
    BY <1>3 DEF MakeFile
  <2> DEFINE name == [saver[s].name EXCEPT !.rand = rand]
  <2>2. name \in Names /\ ~Exists(name) /\ UNCHANGED saved
    BY <1>0, <1>3, <2>1 DEF MakeFile, Owned, Names
  <2>3. saved[name] = None
    BY <1>0, <2>2 DEF SavedStaysWhole, Exists
  <2>4. /\ saver'[s].pc = "writing" /\ saver'[s].name = name
        /\ \A t \in Savers \ {s} : saver'[t] = saver[t]
    BY <1>0, <2>1 DEF TypeOK, Saver
  <2>5. files'[name] = 0 /\ \A n \in Names \ {name} : files'[n] = files[n]
    BY <1>0, <2>1, <2>2 DEF TypeOK
  <2>6. \A t \in Savers : saver[t].pc = "writing" => saver[t].name # name
    BY <1>0, <2>2 DEF Owned
  <2> HIDE DEF name
  <2>7. SavedStaysWhole'
    BY <1>0, <2>2, <2>3, <2>5 DEF SavedStaysWhole
  <2>8. Owned'
    BY <1>0, <2>2, <2>3, <2>4, <2>5, <2>6, Lengths, ConstantsAssumption
       DEF Owned, OneWriterPerFile, Exists
  <2> QED
    BY <2>7, <2>8
<1>4. ASSUME NEW s \in Savers, WriteSome(s)
      PROVE  Owned' /\ SavedStaysWhole'
  <2> DEFINE name == saver[s].name
  <2>1. name \in Names /\ saved[name] = None /\ UNCHANGED <<saver, saved>>
    BY <1>0, <1>4 DEF WriteSome, Owned
  <2>2. /\ files'[name] # None /\ \A n \in Names \ {name} : files'[n] = files[n]
    <3>1. files[name] \in 0..MaxLines /\ saver[s].size \in 0..MaxLines
      BY <1>0, <1>4 DEF WriteSome, Owned, Exists, TypeOK, Saver
    <3> QED
      BY <1>0, <1>4, <2>1, <3>1, ConstantsAssumption DEF WriteSome, TypeOK
  <2> QED
    BY <1>0, <2>1, <2>2 DEF Owned, OneWriterPerFile, SavedStaysWhole, Exists
<1>5. ASSUME NEW s \in Savers, ReturnName(s) \/ SaveFails(s)
      PROVE  Owned' /\ SavedStaysWhole'
  <2> DEFINE name == saver[s].name
  <2>1. /\ name \in Names /\ saved[name] = None
        /\ \A t \in Savers \ {s} : saver[t].pc = "writing" => saver[t].name # name
    BY <1>0, <1>5 DEF ReturnName, SaveFails, Owned, OneWriterPerFile
  <2>2. saver'[s].pc = "idle" /\ \A t \in Savers \ {s} : saver'[t] = saver[t]
    BY <1>0, <1>5 DEF ReturnName, SaveFails, TypeOK, Saver
  <2>3. \A n \in Names \ {name} : files'[n] = files[n] /\ saved'[n] = saved[n]
    BY <1>0, <1>5 DEF ReturnName, SaveFails, TypeOK
  <2>4. saved'[name] # None => files'[name] = saved'[name]
    BY <1>0, <1>5, <2>1 DEF ReturnName, SaveFails, TypeOK
  <2> HIDE DEF name
  <2>5. SavedStaysWhole'
    BY <1>0, <2>3, <2>4 DEF SavedStaysWhole
  <2>6. Owned'
    BY <1>0, <2>1, <2>2, <2>3 DEF Owned, OneWriterPerFile, Exists
  <2> QED
    BY <2>5, <2>6
<1>6. ASSUME NEW s \in Savers, Kill(s)
      PROVE  Owned' /\ SavedStaysWhole'
  <2>1. saver'[s].pc = "idle" /\ \A t \in Savers \ {s} : saver'[t] = saver[t]
    BY <1>0, <1>6 DEF Kill, TypeOK, Saver
  <2>2. UNCHANGED <<files, saved>>
    BY <1>6 DEF Kill
  <2>3. SavedStaysWhole'
    BY <1>0, <2>2 DEF SavedStaysWhole
  <2>4. Owned'
    BY <1>0, <2>1, <2>2 DEF Owned, OneWriterPerFile, Exists
  <2> QED
    BY <2>3, <2>4
<1>7. ASSUME \/ Tick \/ UNCHANGED vars
             \/ \E c \in Clients : \/ \E name \in Names : Choose(c, name)
                                   \/ \E limit \in Limits : ReadPage(c, limit)
                                   \/ ReadGone(c)
      PROVE  Owned' /\ SavedStaysWhole'
  <2>1. UNCHANGED <<files, saver, saved>>
    BY <1>7 DEF vars, Tick, Choose, ReadPage, ReadGone
  <2> QED
    BY <1>1, <2>1
<1> QED
  BY <1>2, <1>3, <1>4, <1>5, <1>6, <1>7 DEF Next

\* A name that has been returned stays returned, with its length.
LEMMA SavedStays ==
    ASSUME IInv, [Next]_vars, NEW name \in Names, saved[name] # None
    PROVE  saved'[name] = saved[name]
<1>1. ASSUME NEW s \in Savers, ReturnName(s)
      PROVE  saved'[name] = saved[name]
  BY <1>1 DEF ReturnName, IInv, TypeOK, Owned
<1> QED
  BY <1>1 DEF Next, vars, Tick, Choose, ReadPage, ReadGone, StampName, MakeFile,
              WriteSome, SaveFails, Kill

\* A client is where its last page left it.
LEMMA ClientStep ==
    ASSUME IInv, [Next]_vars
    PROVE  Paging'
<1>0. TypeOK /\ SavedStaysWhole /\ Paging
  BY DEF IInv
<1> DEFINE Kept(c) == client'[c] = client[c]
           Fits(c) == /\ client'[c].pc = "reading" => client'[c].name \in Names
                      /\ client'[c].whole =>
                            /\ client'[c].name \in Names /\ saved'[client'[c].name] # None
                            /\ client'[c].got = [i \in 1..client'[c].offset |-> i]
                            /\ client'[c].pc = "reading" =>
                                  \/ client'[c].offset < saved'[client'[c].name]
                                  \/ client'[c].offset = 0 /\ saved'[client'[c].name] = 0
                            /\ client'[c].pc = "done" => client'[c].offset = saved'[client'[c].name]
                            /\ client'[c].pc # "failed"
<1>1. ASSUME NEW c \in Clients, Kept(c) PROVE Fits(c)
  BY <1>0, <1>1, SavedStays DEF Paging
<1>2. ASSUME NEW c \in Clients, NEW name \in Names, Choose(c, name)
      PROVE  Fits(c) /\ \A o \in Clients \ {c} : Kept(o)
  <2>1. /\ client'[c] = [pc |-> "reading", name |-> name, whole |-> saved[name] # None,
                        offset |-> 0, got |-> <<>>]
        /\ \A o \in Clients \ {c} : Kept(o)
    BY <1>0, <1>2 DEF Choose, TypeOK
  <2>2. <<>> = [i \in 1..0 |-> i]
    OBVIOUS
  <2>3. saved[name] # None => saved[name] \in 0..MaxLines
    BY <1>0 DEF TypeOK
  <2>4. UNCHANGED saved
    BY <1>2 DEF Choose
  <2>5. /\ client'[c].pc = "reading" /\ client'[c].name = name
        /\ client'[c].offset = 0 /\ client'[c].got = [i \in 1..0 |-> i]
    BY <2>1, <2>2
  <2>7. client'[c].whole = (saved[name] # None)
    <3>1. PICK w \in BOOLEAN : w = (saved[name] # None)
      OBVIOUS
    <3>2. client'[c] = [pc |-> "reading", name |-> name, whole |-> w,
                        offset |-> 0, got |-> <<>>]
      BY <2>1, <3>1, Zenon
    <3>3. client'[c].whole = w
      BY <3>2
    <3> QED
      BY <3>1, <3>3, Zenon
  <2>6. saved[name] # None => 0 < saved[name] \/ saved[name] = 0
    BY <2>3, ConstantsAssumption
  <2> QED
    BY <2>1, <2>4, <2>5, <2>6, <2>7
<1>3. ASSUME NEW c \in Clients, NEW limit \in Limits, ReadPage(c, limit)
      PROVE  Fits(c) /\ \A o \in Clients \ {c} : Kept(o)
  <2> DEFINE r     == client[c]
             total == files[r.name]
             end   == PageEnd(r.offset, limit, total)
  <2>1. /\ r \in Client /\ r.pc = "reading" /\ r.name \in Names
        /\ total \in 0..MaxLines /\ r.offset \in 0..MaxLines
        /\ limit \in Nat \ {0} /\ UNCHANGED saved
    BY <1>0, <1>3, ConstantsAssumption DEF ReadPage, Paging, Exists, TypeOK, Client
  <2>2. r.whole => /\ saved[r.name] = total /\ saved[r.name] # None
                   /\ r.got = [i \in 1..r.offset |-> i]
                   /\ r.offset < total \/ (r.offset = 0 /\ total = 0)
    BY <1>0, <2>1 DEF Paging, SavedStaysWhole
  <2>3. \A o \in Clients \ {c} : Kept(o)
    BY <1>0, <1>3 DEF ReadPage, TypeOK
  <2>4. CASE total = 0 /\ client' = [client EXCEPT ![c].pc = "done"]
    <3>1. client'[c] = [r EXCEPT !.pc = "done"]
      BY <1>0, <2>4 DEF TypeOK
    <3>2. /\ client'[c].pc = "done" /\ client'[c].name = r.name
          /\ client'[c].whole = r.whole /\ client'[c].offset = r.offset
          /\ client'[c].got = r.got
      BY <2>1, <3>1 DEF Client
    <3>3. r.whole => r.offset = 0 /\ saved[r.name] = 0
      BY <2>1, <2>2, <2>4, Lengths
    <3> QED
      BY <2>1, <2>2, <2>3, <3>2, <3>3
  <2>5. CASE /\ r.offset < total
             /\ client' = [client EXCEPT
                     ![c].got = @ \o Page(r.offset, end),
                     ![c].offset = end,
                     ![c].pc = IF end < total THEN "reading" ELSE "done"]
    <3>1. end \in 0..MaxLines /\ r.offset <= end /\ end <= total /\ end > r.offset
      BY <2>1, <2>5, ConstantsAssumption DEF PageEnd
    <3>2. /\ client'[c].pc = IF end < total THEN "reading" ELSE "done"
          /\ client'[c].name = r.name /\ client'[c].whole = r.whole
          /\ client'[c].offset = end /\ client'[c].got = r.got \o Page(r.offset, end)
      BY <1>0, <2>1, <2>5 DEF TypeOK, Client
    <3>3. ASSUME r.whole PROVE client'[c].got = [i \in 1..end |-> i]
      <4>1. client'[c].got = [i \in 1..r.offset |-> i] \o Page(r.offset, end)
        BY <2>2, <3>2, <3>3
      <4>2. [i \in 1..r.offset |-> i] \o Page(r.offset, end) = [i \in 1..end |-> i]
        BY <2>1, <3>1, PageContinues
      <4> QED
        BY <4>1, <4>2
    <3> HIDE DEF end
    <3>4. end < total \/ end = total
      BY <2>1, <3>1, Lengths
    <3> QED
      BY <2>1, <2>2, <2>3, <3>2, <3>3, <3>4
  <2>6. CASE /\ total > 0 /\ r.offset >= total
             /\ client' = [client EXCEPT ![c].pc = "failed"]
    <3>1. ~r.whole
      BY <2>1, <2>2, <2>6, Lengths
    <3>2. client'[c].pc = "failed" /\ client'[c].whole = r.whole
      BY <1>0, <2>1, <2>6 DEF TypeOK, Client
    <3> QED
      BY <2>3, <3>1, <3>2
  <2> QED
    BY <1>3, <2>4, <2>5, <2>6 DEF ReadPage
<1>4. ASSUME NEW c \in Clients, ReadGone(c)
      PROVE  Fits(c) /\ \A o \in Clients \ {c} : Kept(o)
  <2>1. ~client[c].whole
    BY <1>0, <1>4 DEF ReadGone, Paging, SavedStaysWhole, Exists
  <2>2. /\ client'[c].pc = "failed" /\ client'[c].whole = client[c].whole
        /\ \A o \in Clients \ {c} : Kept(o)
    BY <1>0, <1>4 DEF ReadGone, TypeOK, Client
  <2> QED
    BY <2>1, <2>2
<1>5. CASE UNCHANGED client
  BY <1>1, <1>5 DEF Paging
<1>6. (\A c \in Clients : Fits(c)) => Paging'
  BY DEF Paging
<1> HIDE DEF Fits, Kept
<1> QED
  BY <1>1, <1>2, <1>3, <1>4, <1>5, <1>6
     DEF Next, vars, Tick, StampName, MakeFile, WriteSome, ReturnName, SaveFails, Kill

-----------------------------------------------------------------------------
(* The listing. *)

\* The parts of a name are numbers.
LEMMA NameParts ==
    ASSUME NEW n \in Names
    PROVE  n.cmd \in Nat /\ n.time \in Nat /\ n.rand \in Nat
<1>1. n.cmd \in Commands /\ n.time \in 0..MaxTime /\ n.rand \in Randoms
  BY DEF Names
<1>2. Commands \subseteq Nat /\ 0..MaxTime \subseteq Nat /\ Randoms \subseteq Nat
  BY ConstantsAssumption
<1> QED
  BY <1>1, <1>2

\* File names are ordered strictly and totally as strings.
LEMMA AboveIsTotal ==
    ASSUME NEW x \in Names, NEW y \in Names, NEW z \in Names
    PROVE  /\ ~Above(x, x)
           /\ Above(x, y) /\ Above(y, z) => Above(x, z)
           /\ x = y \/ Above(x, y) \/ Above(y, x)
<1>1. \A n \in {x, y, z} : n.cmd \in Nat /\ n.time \in Nat /\ n.rand \in Nat
  BY NameParts
<1>2. x.cmd = y.cmd /\ x.time = y.time /\ x.rand = y.rand => x = y
  BY DEF Names
<1> QED
  BY <1>1, <1>2 DEF Above

\* So any finite set of them can be listed in descending order: the place of a
\* name is the number of names that are not below it.
LEMMA CanBeSorted ==
    ASSUME NEW S \in SUBSET Names, IsFiniteSet(S)
    PROVE  \E listing \in [1..Cardinality(S) -> S] :
              \A i, j \in DOMAIN listing : i < j => Above(listing[i], listing[j])
<1> DEFINE NotBelow(n) == {m \in S : m = n \/ Above(m, n)}
           n == Cardinality(S)
           place == [x \in S |-> Cardinality(NotBelow(x))]
<1>0. n \in Nat
  BY FS_CardinalityType
<1>1. \A x \in S : NotBelow(x) \in SUBSET S /\ x \in NotBelow(x)
  OBVIOUS
<1>2. \A x \in S : IsFiniteSet(NotBelow(x)) /\ Cardinality(NotBelow(x)) \in 1..n
  <2> SUFFICES ASSUME NEW x \in S
               PROVE  IsFiniteSet(NotBelow(x)) /\ Cardinality(NotBelow(x)) \in 1..n
    OBVIOUS
  <2>1. NotBelow(x) \in SUBSET S /\ NotBelow(x) # {}
    BY <1>1
  <2> HIDE DEF NotBelow
  <2>2. IsFiniteSet(NotBelow(x)) /\ Cardinality(NotBelow(x)) <= n
    BY <2>1, FS_Subset
  <2>3. Cardinality(NotBelow(x)) \in Nat /\ Cardinality(NotBelow(x)) # 0
    BY <2>1, <2>2, FS_CardinalityType, FS_EmptySet
  <2> QED
    BY <1>0, <2>2, <2>3
<1>3. \A x, y \in S : Above(x, y) => Cardinality(NotBelow(x)) < Cardinality(NotBelow(y))
  <2> SUFFICES ASSUME NEW x \in S, NEW y \in S, Above(x, y)
               PROVE  Cardinality(NotBelow(x)) < Cardinality(NotBelow(y))
    OBVIOUS
  <2>1. y \in NotBelow(y) /\ y \notin NotBelow(x)
    BY AboveIsTotal
  <2>2. \A z \in NotBelow(x) : z \in NotBelow(y)
    BY AboveIsTotal
  <2>3. IsFiniteSet(NotBelow(y))
    BY <1>2
  <2> HIDE DEF NotBelow
  <2>4. NotBelow(x) \in SUBSET NotBelow(y) /\ NotBelow(x) # NotBelow(y)
    BY <2>1, <2>2
  <2> QED
    BY <2>3, <2>4, FewerElements
<1>4. /\ place \in [S -> 1..n]
      /\ \A x \in S : place[x] \in Nat
      /\ \A x, y \in S : Above(x, y) => place[x] < place[y]
  BY <1>0, <1>2, <1>3
<1> HIDE DEF place, NotBelow
<1>5. \A x, y \in S : place[x] = place[y] => x = y
  <2> SUFFICES ASSUME NEW x \in S, NEW y \in S, x # y
               PROVE  place[x] # place[y]
    OBVIOUS
  <2>1. Above(x, y) \/ Above(y, x)
    BY AboveIsTotal
  <2> QED
    BY <1>4, <2>1
<1>6. \A k \in 1..n : \E x \in S : place[x] = k
  BY <1>4, <1>5, InjectionReachesAll
<1> DEFINE listing == [k \in 1..n |-> CHOOSE x \in S : place[x] = k]
<1>7. listing \in [1..n -> S] /\ \A k \in 1..n : place[listing[k]] = k
  BY <1>6
<1> HIDE DEF listing
<1>8. ASSUME NEW i \in 1..n, NEW j \in 1..n, i < j
      PROVE  Above(listing[i], listing[j])
  <2>1. listing[i] \in S /\ listing[j] \in S /\ place[listing[i]] = i /\ place[listing[j]] = j
    BY <1>7
  <2>2. ~Above(listing[j], listing[i])
    <3>1. Above(listing[j], listing[i]) => place[listing[j]] < place[listing[i]]
      BY <1>4, <2>1
    <3> QED
      BY <1>0, <1>8, <2>1, <3>1
  <2>3. listing[i] # listing[j]
    BY <1>0, <1>8, <2>1
  <2> QED
    BY <2>1, <2>2, <2>3, AboveIsTotal
<1>9. DOMAIN listing = 1..n
  BY <1>7
<1> QED
  BY <1>7, <1>8, <1>9

\* There are finitely many files at any time: each is made by a step of its own.
LEMMA FilesStayFinite ==
    ASSUME IsFiniteSet(OnDisk), IInv, [Next]_vars
    PROVE  IsFiniteSet(OnDisk)'
<1>0. OnDisk' = {name \in Names : files'[name] # None}
  BY DEF OnDisk, Exists
<1>1. \A name : OnDisk' \in SUBSET (OnDisk \cup {name}) => IsFiniteSet(OnDisk)'
  <2>1. \A name : IsFiniteSet(OnDisk \cup {name})
    BY FS_AddElement
  <2> QED
    BY <2>1, FS_Subset
<1>2. CASE UNCHANGED files
  <2>1. OnDisk' = OnDisk
    BY <1>0, <1>2 DEF OnDisk, Exists
  <2> QED
    BY <2>1
<1>3. ASSUME NEW s \in Savers, MakeFile(s) \/ WriteSome(s) \/ SaveFails(s)
      PROVE  IsFiniteSet(OnDisk)'
  <2>1. PICK name, lines : files' = [files EXCEPT ![name] = lines]
    BY <1>3 DEF MakeFile, WriteSome, SaveFails
  <2>2. files \in [Names -> 0..MaxLines \cup {None}]
    BY DEF IInv, TypeOK
  <2>3. \A other \in Names : other # name => files'[other] = files[other]
    BY <2>1, <2>2
  <2>4. \A other \in OnDisk' : other \in OnDisk \cup {name}
    BY <1>0, <2>3 DEF OnDisk, Exists
  <2> QED
    BY <1>1, <2>4
<1> QED
  BY <1>2, <1>3
     DEF Next, vars, Tick, StampName, ReturnName, Kill, Choose, ReadPage, ReadGone

-----------------------------------------------------------------------------
\* The invariant holds throughout.
THEOREM Invariance == Spec => []IInv
<1>1. Init => IInv
  BY StartsEmpty
<1>2. IInv /\ [Next]_vars => IInv'
  BY TypeStep, SaverStep, ClientStep DEF IInv
<1> QED
  BY <1>1, <1>2, PTL DEF Spec

\* Every variable stays in its type.
THEOREM TypeCorrect == Spec => []TypeOK
<1>1. IInv => TypeOK
  BY DEF IInv
<1> QED
  BY <1>1, Invariance, PTL

\* Two savers never write one file (output_store.py 102-107).
THEOREM OneWriterPerFileHolds == Spec => []OneWriterPerFile
<1>1. IInv => OneWriterPerFile
  BY DEF IInv, Owned
<1> QED
  BY <1>1, Invariance, PTL

\* A file whose name has been returned holds the whole output from then on,
\* whatever other savers do and however they fail (output_store.py 108-114).
THEOREM SavedStaysWholeHolds == Spec => []SavedStaysWhole
<1>1. IInv => SavedStaysWhole
  BY DEF IInv
<1> QED
  BY <1>1, Invariance, PTL

\* The length of an output that has been returned never changes.
THEOREM SavedForGood ==
    Spec => [][\A name \in Names : saved[name] # None => saved'[name] = saved[name]]_vars
<1>1. IInv /\ [Next]_vars =>
        [\A name \in Names : saved[name] # None => saved'[name] = saved[name]]_vars
  BY SavedStays
<1> QED
  BY <1>1, Invariance, PTL DEF Spec

\* Whatever page sizes a client asks for, following the offsets through a saved
\* output gives it every line once and in order (output_store.py 185-202).
THEOREM PagesGiveEveryLineOnceHolds == Spec => []PagesGiveEveryLineOnce
<1>1. IInv => PagesGiveEveryLineOnce
  BY DEF IInv, Paging, PagesGiveEveryLineOnce
<1> QED
  BY <1>1, Invariance, PTL

\* The listing of a device holds each of its files once, in the order of the
\* names as strings (output_store.py 123-130).
THEOREM ListingIsWhole ==
    Spec => [](/\ Range(list_outputs) = OnDisk /\ IsInjective(list_outputs)
               /\ \A i, j \in DOMAIN list_outputs :
                     i < j => Above(list_outputs[i], list_outputs[j]))
<1> DEFINE Whole == /\ Range(list_outputs) = OnDisk /\ IsInjective(list_outputs)
                    /\ \A i, j \in DOMAIN list_outputs :
                          i < j => Above(list_outputs[i], list_outputs[j])
<1>1. Init => IsFiniteSet(OnDisk)
  <2>1. Init => OnDisk = {}
    BY DEF Init, OnDisk, Exists
  <2> QED
    BY <2>1, FS_EmptySet
<1>2. IsFiniteSet(OnDisk) /\ IInv /\ [Next]_vars => IsFiniteSet(OnDisk)'
  BY FilesStayFinite
<1>3. IsFiniteSet(OnDisk) => Whole
  <2> SUFFICES ASSUME IsFiniteSet(OnDisk) PROVE Whole
    OBVIOUS
  <2> DEFINE n == Cardinality(OnDisk)
  <2>1. OnDisk \in SUBSET Names /\ n \in Nat
    BY FS_CardinalityType DEF OnDisk
  <2>2. /\ list_outputs \in [1..n -> OnDisk]
        /\ \A i, j \in DOMAIN list_outputs : i < j => Above(list_outputs[i], list_outputs[j])
    BY <2>1, CanBeSorted DEF list_outputs
  <2> HIDE DEF n
  <2>3. \A i, j \in 1..n : list_outputs[i] = list_outputs[j] => i = j
    <3> SUFFICES ASSUME NEW i \in 1..n, NEW j \in 1..n, i < j
                 PROVE  list_outputs[i] # list_outputs[j]
      BY <2>1
    <3>1. Above(list_outputs[i], list_outputs[j]) /\ list_outputs[i] \in Names
      BY <2>1, <2>2
    <3> QED
      BY <3>1, AboveIsTotal
  <2>4. list_outputs \in Injection(1..n, OnDisk)
    BY <2>2, <2>3, Fun_IsInj
  <2>5. IsFiniteSet(1..n) /\ Cardinality(1..n) = n
    BY <2>1, FS_Interval
  <2>6. list_outputs \in Surjection(1..n, OnDisk)
    BY <2>4, <2>5, FS_Injection DEF n
  <2>7. Range(list_outputs) = OnDisk
    BY <2>6, Fun_SurjectionProperties
  <2> QED
    BY <2>2, <2>3, <2>7 DEF IsInjective
<1> QED
  BY <1>1, <1>2, <1>3, Invariance, PTL DEF Spec
=============================================================================
