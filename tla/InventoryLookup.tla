--------------------------- MODULE InventoryLookup ---------------------------
(***************************************************************************)
(* inventory.py 198-367 and credential_crypto.py: what loads of an         *)
(* inventory file, what the discovery tools describe of it, and which      *)
(* devices the name of a target stands for.                                *)
(*                                                                         *)
(* A document is what the TOML parser made of the file: the device tables  *)
(* in their order, whether [default] is a table, and the [groups] table.   *)
(* A table counts as sound when it makes a Device: known fields, no        *)
(* other name, a platform netmiko has, metadata of the right types.        *)
(***************************************************************************)
EXTENDS Naturals, FiniteSets, Sequences, SequencesExt, Subsequences

CONSTANTS
    Names,       \* names of devices and groups; All among them
    All,         \* "all"
    Terms,       \* sites and tags; Empty where a device has no site
    Texts,       \* names, terms and whatever clients type
    Empty,       \* the empty text
    Keys,        \* encryption keys
    Malformed,   \* a key that is not one
    Trim,        \* str.strip() of a text
    Fold,        \* str.casefold() of a text
    Within,      \* the pairs <<p, x>> where p occurs in the text x
    Unreadable,  \* a file that is missing or no TOML
    NoTable,     \* groups that are not a table of arrays of strings
    None

ASSUME NamesAssumption ==
    /\ All \in Names /\ None \notin Keys
    /\ Malformed \notin Keys \cup {None}
    /\ Names \cup Terms \cup {Empty} \subseteq Texts /\ None \notin Texts
    /\ Trim \in [Texts -> Texts] /\ Fold \in [Texts -> Texts]

Entry == [name : Names, sound : BOOLEAN, sealed : Keys \cup {None},
          keyFile : {"none", "present", "missing", "odd"},
          site : Terms, tags : SUBSET Terms]

\* What find_devices is asked for: a parameter that is not given is None.
Query == [needle : Texts, site : Texts \cup {None}, group : Texts \cup {None},
          tag : Texts \cup {None}]

IsDocument(doc) ==
    /\ doc.defaults \in BOOLEAN
    /\ doc.entries \in Seq(Entry)
    /\ IsInjective([i \in DOMAIN doc.entries |-> doc.entries[i].name])
    /\ \/ doc.groups = NoTable
       \/ DOMAIN doc.groups \subseteq Names /\ Range(doc.groups) \subseteq Seq(Names)

-----------------------------------------------------------------------------
\* decrypt_value: a field sealed with the key of the process, or not at all.
Decrypts(sealed, key) == sealed \in {None, key}

\* _parse_devices, as load_config_toml calls it.
DevicesParse(file, key) ==
    /\ file # Unreadable
    /\ file.defaults
    /\ \A e \in Range(file.entries) : e.sound /\ e.name # All /\ Decrypts(e.sealed, key)

\* load_inventory: devices and groups of one version of the file.
InventoryLoads(file, key) == DevicesParse(file, key) /\ file.groups # NoTable

DeviceNames(doc) == {e.name : e \in Range(doc.entries)}

\* Mutant: the members as they are listed.
AsListed(names) == names

\* list(dict.fromkeys(names))
WithoutRepeats(names) ==
    Subsequence(names, {i \in DOMAIN names : \A j \in 1..(i - 1) : names[j] # names[i]})

Resolves(doc, target) ==
    \/ target = All
    \/ target \in DeviceNames(doc)
    \/ target \in DOMAIN doc.groups /\ Range(doc.groups[target]) \subseteq DeviceNames(doc)

\* get_device_names of a target that resolves: devices come before groups.
GetDeviceNames(doc, target) ==
    IF target = All THEN [i \in DOMAIN doc.entries |-> doc.entries[i].name]
    ELSE IF target \in DeviceNames(doc) THEN <<target>>
    ELSE WithoutRepeats(doc.groups[target])

\* Mutant: only the members are checked, not the name of the group.
DescribableMembers(doc) == \A g \in DOMAIN doc.groups : Resolves(doc, g)

\* Where describe_groups raises nothing.
Describable(doc) ==
    \A g \in DOMAIN doc.groups :
        g # All /\ g \notin DeviceNames(doc) /\ Resolves(doc, g)

DescribeGroups(doc) == [g \in DOMAIN doc.groups |-> GetDeviceNames(doc, g)]

\* Mutant: a device keeps one group, not a list of them.
DescribeWithOneGroup(doc) ==
    LET groups == DescribeGroups(doc)
        Of(e)  == {g \in DOMAIN groups : e.name \in Range(groups[g])}
        Describe(e) == [name |-> e.name, site |-> e.site, tags |-> e.tags,
                        groups |-> IF Of(e) = {} THEN {} ELSE {CHOOSE g \in Of(e) : TRUE}]
    IN  [i \in DOMAIN doc.entries |-> Describe(doc.entries[i])]

DescribeDevices(doc) ==
    LET groups == DescribeGroups(doc)
        Describe(e) == [name |-> e.name, site |-> e.site, tags |-> e.tags,
                        groups |-> {g \in DOMAIN groups : e.name \in Range(groups[g])}]
    IN  [i \in DOMAIN doc.entries |-> Describe(doc.entries[i])]

\* What a client types is stripped and folded; what the file holds is folded
\* only.
Wanted(text) == Fold[Trim[text]]

\* The filters of find_devices on one described device; role and environment
\* work as site does.
Found(query, device) ==
    /\ query.site = None \/ Fold[device.site] = Wanted(query.site)
    /\ query.group = None \/ \E g \in device.groups : Fold[g] = Wanted(query.group)
    /\ query.tag = None \/ \E t \in device.tags : Fold[t] = Wanted(query.tag)
    /\ \/ Wanted(query.needle) = Empty
       \/ \E x \in {device.name, device.site} \cup device.groups \cup device.tags :
             <<Wanted(query.needle), Fold[x]>> \in Within

FindDevices(doc, query) ==
    LET all == DescribeDevices(doc)
    IN  Subsequence(all, {i \in DOMAIN all : Found(query, all[i])})
=============================================================================
