----------------------- MODULE InventoryLookup_proofs -----------------------
(***************************************************************************)
(* Proofs about InventoryLookup, for every inventory file that parses:     *)
(* what the name of a target stands for, what is described of devices and  *)
(* groups, and what a search finds.                                        *)
(***************************************************************************)
EXTENDS InventoryLookup, Subsequences_proofs, SequenceTheorems

\* A file from which load_inventory makes an inventory.
Loaded(doc) == IsDocument(doc) /\ doc.groups # NoTable

\* The entries are numbered from 1 on, and their names differ.
LEMMA Entries ==
    ASSUME NEW doc, IsDocument(doc)
    PROVE  /\ Len(doc.entries) \in Nat
           /\ DOMAIN doc.entries = 1..Len(doc.entries)
           /\ \A i \in DOMAIN doc.entries : /\ doc.entries[i] \in Entry
                                            /\ doc.entries[i].name \in Names
           /\ \A i, j \in DOMAIN doc.entries :
                 doc.entries[i].name = doc.entries[j].name => i = j
<1>1. doc.entries \in Seq(Entry)
  BY DEF IsDocument
<1>2. IsInjective([i \in DOMAIN doc.entries |-> doc.entries[i].name])
  BY DEF IsDocument
<1>3. /\ Len(doc.entries) \in Nat /\ DOMAIN doc.entries = 1..Len(doc.entries)
      /\ \A i \in DOMAIN doc.entries : doc.entries[i] \in Entry
  BY <1>1, LenProperties, ElementOfSeq
<1>4. \A e \in Entry : e.name \in Names
  BY DEF Entry
<1>5. \A i, j \in DOMAIN doc.entries :
        doc.entries[i].name = doc.entries[j].name => i = j
  BY <1>2 DEF IsInjective
<1> QED
  BY <1>3, <1>4, <1>5

\* DeviceNames by the numbers of the entries.
LEMMA DeviceNamesAre ==
    ASSUME NEW doc, IsDocument(doc)
    PROVE  /\ DeviceNames(doc) = {doc.entries[i].name : i \in DOMAIN doc.entries}
           /\ DeviceNames(doc) \subseteq Names
<1>1. \A e : e \in Range(doc.entries) <=> \E i \in DOMAIN doc.entries : e = doc.entries[i]
  BY DEF Range
<1>2. DeviceNames(doc) = {doc.entries[i].name : i \in DOMAIN doc.entries}
  BY <1>1 DEF DeviceNames
<1> QED
  BY <1>2, Entries

\* list(dict.fromkeys(names)) keeps every name, once (inventory.py 342).
LEMMA RepeatsGo ==
    ASSUME NEW S, NEW names \in Seq(S)
    PROVE  /\ Range(WithoutRepeats(names)) = Range(names)
           /\ IsInjective(WithoutRepeats(names))
<1> DEFINE firsts == {i \in DOMAIN names : \A j \in 1..(i - 1) : names[j] # names[i]}
<1>1. Len(names) \in Nat /\ DOMAIN names = 1..Len(names)
  BY LenProperties
<1>2. firsts \in SUBSET Nat /\ firsts \in SUBSET (1..Len(names)) /\ DOMAIN names \subseteq Nat
  BY <1>1
<1>3. IsFiniteSet(firsts)
  BY <1>1, <1>2, Places
<1>4. WithoutRepeats(names) = Subsequence(names, firsts)
  BY DEF WithoutRepeats
<1>5. \A i, j \in firsts : names[i] = names[j] => i = j
  <2> SUFFICES ASSUME NEW i \in firsts, NEW j \in firsts, i < j
               PROVE  names[i] # names[j]
    BY <1>2
  <2>1. i \in 1..(j - 1)
    BY <1>1
  <2> QED
    BY <2>1
<1>6. {names[i] : i \in firsts} = Range(names)
  <2>1. \A i \in DOMAIN names : \E f \in firsts : names[f] = names[i]
    <3> SUFFICES ASSUME NEW i \in DOMAIN names
                 PROVE  \E f \in firsts : names[f] = names[i]
      OBVIOUS
    <3> DEFINE same == {j \in DOMAIN names : names[j] = names[i]}
    <3>1. same \in SUBSET Nat /\ same # {}
      BY <1>2
    <3>2. PICK f \in same : \A j \in same : f <= j
      BY <3>1, LeastNumber
    <3>3. \A j \in 1..(f - 1) : j \in DOMAIN names /\ ~(f <= j)
      BY <1>1
    <3> QED
      BY <3>2, <3>3
  <2> QED
    BY <2>1 DEF Range
<1> HIDE DEF firsts
<1>7. firsts \in SUBSET Nat
  BY <1>2
<1>8. /\ Range(Subsequence(names, firsts)) = {names[i] : i \in firsts}
      /\ (\A i, j \in firsts : names[i] = names[j] => i = j)
            => IsInjective(Subsequence(names, firsts))
  BY <1>3, <1>7, SubsequenceHolds
<1> QED
  BY <1>4, <1>5, <1>6, <1>8

\* What a group lists are names, in a sequence.
LEMMA Members ==
    ASSUME NEW doc, Loaded(doc), NEW g \in DOMAIN doc.groups
    PROVE  g \in Names /\ doc.groups[g] \in Seq(Names)
<1>1. DOMAIN doc.groups \subseteq Names /\ Range(doc.groups) \subseteq Seq(Names)
  BY DEF Loaded, IsDocument
<1>2. doc.groups[g] \in Range(doc.groups)
  BY DEF Range
<1> QED
  BY <1>1, <1>2

\* However a target names its devices, each of them is named once, and all are
\* devices of the file.
THEOREM TargetNamesOnce ==
    ASSUME NEW doc, Loaded(doc), NEW target, Resolves(doc, target)
    PROVE  /\ IsInjective(GetDeviceNames(doc, target))
           /\ Range(GetDeviceNames(doc, target)) \subseteq DeviceNames(doc)
<1> DEFINE names == GetDeviceNames(doc, target)
<1>0. IsDocument(doc)
  BY DEF Loaded
<1>1. CASE target = All
  <2>1. names = [i \in DOMAIN doc.entries |-> doc.entries[i].name]
    BY <1>1 DEF GetDeviceNames
  <2>2. IsInjective(names)
    BY <1>0, <2>1 DEF IsDocument
  <2>3. Range(names) = DeviceNames(doc)
    BY <1>0, <2>1, DeviceNamesAre DEF Range
  <2> QED
    BY <2>2, <2>3
<1>2. CASE target # All /\ target \in DeviceNames(doc)
  <2>1. names = <<target>>
    BY <1>2 DEF GetDeviceNames
  <2>2. DOMAIN <<target>> = {1} /\ <<target>>[1] = target
    OBVIOUS
  <2> QED
    BY <1>2, <2>1, <2>2 DEF IsInjective, Range
<1>3. CASE target # All /\ target \notin DeviceNames(doc)
  <2>1. target \in DOMAIN doc.groups /\ Range(doc.groups[target]) \subseteq DeviceNames(doc)
    BY <1>3 DEF Resolves
  <2>2. names = WithoutRepeats(doc.groups[target])
    BY <1>3 DEF GetDeviceNames
  <2> QED
    BY <2>1, <2>2, Members, RepeatsGo
<1> QED
  BY <1>1, <1>2, <1>3

\* A group of a file that can be described stands for the devices listed in it.
LEMMA GroupStandsForMembers ==
    ASSUME NEW doc, Loaded(doc), Describable(doc), NEW g \in DOMAIN doc.groups
    PROVE  /\ Resolves(doc, g) /\ g # All /\ g \notin DeviceNames(doc)
           /\ Range(GetDeviceNames(doc, g)) = Range(doc.groups[g])
           /\ Range(doc.groups[g]) \subseteq DeviceNames(doc)
<1>1. Resolves(doc, g) /\ g # All /\ g \notin DeviceNames(doc)
  BY DEF Describable
<1>2. GetDeviceNames(doc, g) = WithoutRepeats(doc.groups[g])
  BY <1>1 DEF GetDeviceNames
<1>3. Range(GetDeviceNames(doc, g)) = Range(doc.groups[g])
  BY <1>2, Members, RepeatsGo
<1>4. Range(doc.groups[g]) \subseteq DeviceNames(doc)
  BY <1>1 DEF Resolves
<1> QED
  BY <1>1, <1>3, <1>4

\* A device is described under its name, with the groups that list it.
LEMMA Descriptions ==
    ASSUME NEW doc, Loaded(doc), Describable(doc)
    PROVE  LET all == DescribeDevices(doc)
           IN  /\ DOMAIN all = DOMAIN doc.entries
               /\ \A i \in DOMAIN doc.entries :
                     /\ all[i].name = doc.entries[i].name
                     /\ all[i].groups = {g \in DOMAIN doc.groups :
                                           doc.entries[i].name \in Range(doc.groups[g])}
<1> DEFINE groups == DescribeGroups(doc)
<1>1. DOMAIN groups = DOMAIN doc.groups
      /\ \A g \in DOMAIN doc.groups : groups[g] = GetDeviceNames(doc, g)
  BY DEF DescribeGroups
<1>2. \A g \in DOMAIN doc.groups : Range(groups[g]) = Range(doc.groups[g])
  BY <1>1, GroupStandsForMembers
<1> HIDE DEF groups
<1>3. DescribeDevices(doc) =
        [i \in DOMAIN doc.entries |->
           [name |-> doc.entries[i].name, site |-> doc.entries[i].site,
            tags |-> doc.entries[i].tags,
            groups |-> {g \in DOMAIN groups : doc.entries[i].name \in Range(groups[g])}]]
  BY DEF DescribeDevices, groups
<1> QED
  BY <1>1, <1>2, <1>3

\* A search finds the described devices that match, each once.
LEMMA SearchFinds ==
    ASSUME NEW doc, Loaded(doc), Describable(doc), NEW query
    PROVE  LET found   == FindDevices(doc, query)
               matches == {d.name : d \in {x \in Range(DescribeDevices(doc)) : Found(query, x)}}
           IN  /\ Len(found) \in Nat /\ DOMAIN found = 1..Len(found)
               /\ {found[i].name : i \in DOMAIN found} = matches
               /\ matches \subseteq DeviceNames(doc)
               /\ \A i, j \in DOMAIN found : found[i].name = found[j].name => i = j
               /\ IsFiniteSet(matches) /\ Cardinality(matches) = Len(found)
<1> DEFINE all     == DescribeDevices(doc)
           hits    == {i \in DOMAIN all : Found(query, all[i])}
           found   == FindDevices(doc, query)
           matches == {d.name : d \in {x \in Range(all) : Found(query, x)}}
           n       == Cardinality(hits)
<1>1. /\ DOMAIN all = DOMAIN doc.entries
      /\ \A i \in DOMAIN all : all[i].name = doc.entries[i].name
  BY Descriptions
<1>2. /\ Len(doc.entries) \in Nat /\ DOMAIN doc.entries = 1..Len(doc.entries)
      /\ \A i, j \in DOMAIN doc.entries : doc.entries[i].name = doc.entries[j].name => i = j
  BY Entries DEF Loaded
<1>3. matches = {all[i].name : i \in hits}
  BY DEF Range
<1>4. matches \subseteq DeviceNames(doc)
  BY <1>1, <1>3, DeviceNamesAre DEF Loaded
<1>5. found = Subsequence(all, hits)
  BY DEF FindDevices
<1>6. \A i, j \in hits : all[i].name = all[j].name => i = j
  BY <1>1, <1>2
<1> HIDE DEF all, matches, found
<1>7. hits \in SUBSET (1..Len(doc.entries)) /\ hits \in SUBSET Nat
  BY <1>1, <1>2
<1> HIDE DEF hits
<1>8. IsFiniteSet(hits) /\ n \in Nat
  BY <1>2, <1>7, Places
<1>9. found = [k \in 1..n |-> all[Nth(hits, k)]]
  BY <1>5 DEF Subsequence
<1>10. /\ \A k \in 1..n : Nth(hits, k) \in hits /\ Rank(hits, Nth(hits, k)) = k
       /\ \A i \in hits : Rank(hits, i) \in 1..n /\ Nth(hits, Rank(hits, i)) = i
  BY <1>7, <1>8, NthIsInverse, RankIsMonotone
<1> HIDE DEF n
<1>11. DOMAIN found = 1..n /\ \A k \in 1..n : found[k] = all[Nth(hits, k)]
  BY <1>9
<1>12. Len(found) = n
  BY <1>8, <1>9
<1>13. {found[k].name : k \in 1..n} = matches
  BY <1>3, <1>10, <1>11
<1>14. \A k, m \in 1..n : found[k].name = found[m].name => k = m
  <2> SUFFICES ASSUME NEW k \in 1..n, NEW m \in 1..n, found[k].name = found[m].name
               PROVE  k = m
    OBVIOUS
  <2>1. Nth(hits, k) = Nth(hits, m)
    BY <1>6, <1>10, <1>11
  <2> QED
    BY <1>10, <2>1
<1>15. IsFiniteSet(matches) /\ Cardinality(matches) = n
  <2> DEFINE f == [k \in 1..n |-> found[k].name]
  <2>1. f \in Bijection(1..n, matches)
    <3>1. f \in [1..n -> matches]
      BY <1>13
    <3>2. \A t \in matches : \E k \in 1..n : f[k] = t
      BY <1>13
    <3>3. \A a, b \in 1..n : f[a] = f[b] => a = b
      BY <1>14
    <3> QED
      BY <3>1, <3>2, <3>3, Fun_IsBij
  <2>2. IsFiniteSet(1..n) /\ Cardinality(1..n) = n
    BY <1>8, FS_Interval
  <2> QED
    BY <2>1, <2>2, FS_Bijection DEF ExistsBijection
<1> QED
  BY <1>4, <1>8, <1>11, <1>12, <1>13, <1>14, <1>15 DEF all, matches, found

\* A search for nothing but a group matches the devices listed in the groups
\* whose names, folded, are what was asked for.
LEMMA GroupSearch ==
    ASSUME NEW doc, Loaded(doc), Describable(doc), NEW query,
           query.group # None, query.site = None, query.tag = None,
           Wanted(query.needle) = Empty
    PROVE  {d.name : d \in {x \in Range(DescribeDevices(doc)) : Found(query, x)}}
             = UNION {Range(GetDeviceNames(doc, g)) :
                        g \in {h \in DOMAIN doc.groups : Fold[h] = Wanted(query.group)}}
<1> DEFINE all   == DescribeDevices(doc)
           named == {h \in DOMAIN doc.groups : Fold[h] = Wanted(query.group)}
<1>1. /\ DOMAIN all = DOMAIN doc.entries
      /\ \A i \in DOMAIN all :
            /\ all[i].name = doc.entries[i].name
            /\ all[i].groups = {h \in DOMAIN doc.groups :
                                  doc.entries[i].name \in Range(doc.groups[h])}
  BY Descriptions
<1> HIDE DEF all
<1>2. \A i \in DOMAIN all :
        Found(query, all[i]) <=> \E h \in all[i].groups : Fold[h] = Wanted(query.group)
  BY DEF Found
<1>3. \A i \in DOMAIN all :
        Found(query, all[i]) <=> \E h \in named : doc.entries[i].name \in Range(doc.groups[h])
  BY <1>1, <1>2
<1>4. \A h \in named :
        /\ Range(doc.groups[h]) \subseteq {doc.entries[i].name : i \in DOMAIN doc.entries}
        /\ Range(GetDeviceNames(doc, h)) = Range(doc.groups[h])
  BY GroupStandsForMembers, DeviceNamesAre DEF Loaded
<1> HIDE DEF named
<1>5. {d.name : d \in {x \in Range(all) : Found(query, x)}}
        = {all[i].name : i \in {j \in DOMAIN all : Found(query, all[j])}}
  BY DEF Range
<1>6. {all[i].name : i \in {j \in DOMAIN all : Found(query, all[j])}}
        = UNION {Range(doc.groups[h]) : h \in named}
  BY <1>1, <1>3, <1>4
<1>7. UNION {Range(GetDeviceNames(doc, h)) : h \in named}
        = UNION {Range(doc.groups[h]) : h \in named}
  BY <1>4
<1> QED
  BY <1>5, <1>6, <1>7 DEF all, named
=============================================================================
