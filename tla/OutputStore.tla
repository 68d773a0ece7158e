----------------------------- MODULE OutputStore -----------------------------
(***************************************************************************)
(* output_store.py: command outputs saved as files of one device's         *)
(* directory, listed, and read page by page.  Several savers run at once   *)
(* (the workers of a group call, and the server processes that share one   *)
(* --output-dir), each interleaved with the clients that list and read;    *)
(* a write may fail and a saver may die at any step.                       *)
(*                                                                         *)
(* A file name is the command, the time and the random part mkstemp adds,  *)
(* which is how names compare as strings.  Commands are numbered in that   *)
(* order.  Of a content only the number of its lines is kept.              *)
(***************************************************************************)
EXTENDS Naturals, Sequences, SequencesExt

CONSTANTS
    Savers,     \* threads that save an output
    Clients,    \* clients that list and page
    Commands,   \* a set of numbers
    MaxTime,    \* bound: the clock stops here
    Randoms,    \* what mkstemp draws from: a set of numbers
    MaxLines,   \* bound: the longest output
    MaxFiles,   \* bound: the files in the directory at a time
    Limits,     \* the page sizes clients ask for
    None

Names == [cmd : Commands, time : 0..MaxTime, rand : Randoms]

ASSUME ConstantsAssumption ==
    /\ Commands \subseteq Nat
    /\ Randoms \subseteq Nat /\ Randoms # {}
    /\ Limits \subseteq Nat \ {0}
    /\ MaxTime \in Nat /\ MaxLines \in Nat /\ MaxFiles \in Nat
    /\ None \notin Names \cup Nat

VARIABLES
    clock,    \* the time, as file names tell it
    files,    \* per name, the lines of it on disk; None where no file is
    saver,    \* per saver, where it is, the name it writes, its output's length
    saved,    \* per name that save_output returned, the length of its output
    client    \* per client, what it is reading and has been given so far

vars == <<clock, files, saver, saved, client>>

Saver  == [pc : {"idle", "named", "writing"}, name : Names \cup {None},
           size : 0..MaxLines]
Client == [pc     : {"idle", "reading", "done", "failed"},
           name   : Names \cup {None},
           whole  : BOOLEAN,            \* the name had been returned by then
           offset : 0..MaxLines,
           got    : Seq(1..MaxLines)]   \* the lines received, by number

Exists(name) == files[name] # None
OnDisk       == {name \in Names : Exists(name)}

Init ==
    /\ clock = 0
    /\ files = [name \in Names |-> None]
    /\ saver = [s \in Savers |-> [pc |-> "idle", name |-> None, size |-> 0]]
    /\ saved = [name \in Names |-> None]
    /\ client = [c \in Clients |-> [pc |-> "idle", name |-> None,
                                    whole |-> FALSE, offset |-> 0, got |-> <<>>]]

Tick == /\ clock < MaxTime
        /\ clock' = clock + 1
        /\ UNCHANGED <<files, saver, saved, client>>

-----------------------------------------------------------------------------
AnyRandom == CHOOSE rand \in Randoms : TRUE

\* save_output, up to the timestamp in the name.
StampName(s, cmd, size) ==
    /\ saver[s].pc = "idle"
    /\ saver' = [saver EXCEPT ![s] =
           [pc |-> "named", size |-> size,
            name |-> [cmd |-> cmd, time |-> clock, rand |-> AnyRandom]]]
    /\ UNCHANGED <<clock, files, saved, client>>

\* Mutant: the file is opened whether it exists or not.
MakeFileOver(s) ==
    /\ saver[s].pc = "named"
    /\ Cardinality(OnDisk) < MaxFiles
    /\ \E rand \in Randoms :
          LET name == [saver[s].name EXCEPT !.rand = rand]
          IN  /\ files' = [files EXCEPT ![name] = 0]
              /\ saver' = [saver EXCEPT ![s].pc = "writing", ![s].name = name]
    /\ UNCHANGED <<clock, saved, client>>

\* mkstemp adds the random part and creates the file exclusively: it draws again
\* when the name exists.
MakeFile(s) ==
    /\ saver[s].pc = "named"
    /\ Cardinality(OnDisk) < MaxFiles
    /\ \E rand \in Randoms :
          LET name == [saver[s].name EXCEPT !.rand = rand]
          IN  /\ ~Exists(name)
              /\ files' = [files EXCEPT ![name] = 0]
              /\ saver' = [saver EXCEPT ![s].pc = "writing", ![s].name = name]
    /\ UNCHANGED <<clock, saved, client>>

\* The buffered writer brings more of the output to disk.
WriteSome(s) ==
    /\ saver[s].pc = "writing"
    /\ \E n \in files[saver[s].name] + 1 .. saver[s].size :
          files' = [files EXCEPT ![saver[s].name] = n]
    /\ UNCHANGED <<clock, saver, saved, client>>

\* Mutant: the name is returned before the file is closed.
ReturnNameEarly(s) ==
    /\ saver[s].pc = "writing"
    /\ saved' = [saved EXCEPT ![saver[s].name] = saver[s].size]
    /\ saver' = [saver EXCEPT ![s].pc = "idle", ![s].name = None]
    /\ UNCHANGED <<clock, files, client>>

\* The file is closed and its name returned.
ReturnName(s) ==
    /\ saver[s].pc = "writing"
    /\ files[saver[s].name] = saver[s].size
    /\ saved' = [saved EXCEPT ![saver[s].name] = saver[s].size]
    /\ saver' = [saver EXCEPT ![s].pc = "idle", ![s].name = None]
    /\ UNCHANGED <<clock, files, client>>

\* A write fails: the file is removed again, the exception goes to the tool.
SaveFails(s) ==
    /\ saver[s].pc = "writing"
    /\ files' = [files EXCEPT ![saver[s].name] = None]
    /\ saver' = [saver EXCEPT ![s].pc = "idle", ![s].name = None]
    /\ UNCHANGED <<clock, saved, client>>

\* The process is killed: what is on disk stays.
Kill(s) ==
    /\ saver[s].pc # "idle"
    /\ saver' = [saver EXCEPT ![s].pc = "idle", ![s].name = None]
    /\ UNCHANGED <<clock, files, saved, client>>

-----------------------------------------------------------------------------
\* The names as strings: command first, then time, then the random part.
Above(x, y) ==
    \/ x.cmd > y.cmd
    \/ x.cmd = y.cmd /\ x.time > y.time
    \/ x.cmd = y.cmd /\ x.time = y.time /\ x.rand > y.rand

\* sorted(..., reverse=True).
list_outputs ==
    CHOOSE listing \in [1..Cardinality(OnDisk) -> OnDisk] :
        \A i, j \in DOMAIN listing : i < j => Above(listing[i], listing[j])

\* A client asks for a file it was told of or found in a listing.
Choose(c, name) ==
    /\ client[c].pc # "reading"
    /\ Exists(name)
    /\ client' = [client EXCEPT ![c] =
           [pc |-> "reading", name |-> name, whole |-> saved[name] # None,
            offset |-> 0, got |-> <<>>]]
    /\ UNCHANGED <<clock, files, saver, saved>>

\* Mutant: a page may end behind the end of the file.
PageEndUnbounded(offset, limit, total) == offset + limit

\* One past the last line of a page, lines counted from 0.
PageEnd(offset, limit, total) ==
    IF offset + limit < total THEN offset + limit ELSE total

\* Mutant: the line at `end` belongs to the page as well.
PageAndOne(offset, end) == [i \in 1 .. end + 1 - offset |-> offset + i]

\* lines[offset:end].
Page(offset, end) == [i \in 1 .. end - offset |-> offset + i]

\* read_output: the whole file is read again for every page; the header of a
\* page names the offset of the next one as long as there is one.
ReadPage(c, limit) ==
    LET r     == client[c]
        total == files[r.name]
        end   == PageEnd(r.offset, limit, total)
    IN  /\ r.pc = "reading"
        /\ Exists(r.name)
        /\ \/ /\ total = 0
              /\ client' = [client EXCEPT ![c].pc = "done"]
           \/ /\ r.offset < total
              /\ client' = [client EXCEPT
                     ![c].got = @ \o Page(r.offset, end),
                     ![c].offset = end,
                     ![c].pc = IF end < total THEN "reading" ELSE "done"]
           \/ /\ total > 0 /\ r.offset >= total
              /\ client' = [client EXCEPT ![c].pc = "failed"]
        /\ UNCHANGED <<clock, files, saver, saved>>

\* The file has been removed in between: OUTPUT_NOT_FOUND.
ReadGone(c) ==
    /\ client[c].pc = "reading"
    /\ ~Exists(client[c].name)
    /\ client' = [client EXCEPT ![c].pc = "failed"]
    /\ UNCHANGED <<clock, files, saver, saved>>

Next ==
    \/ Tick
    \/ \E s \in Savers :
          \/ \E cmd \in Commands, size \in 0..MaxLines : StampName(s, cmd, size)
          \/ MakeFile(s) \/ WriteSome(s) \/ ReturnName(s)
          \/ SaveFails(s) \/ Kill(s)
    \/ \E c \in Clients :
          \/ \E name \in Names : Choose(c, name)
          \/ \E limit \in Limits : ReadPage(c, limit)
          \/ ReadGone(c)

Spec == Init /\ [][Next]_vars

-----------------------------------------------------------------------------
(* What the store promises. *)

TypeOK ==
    /\ clock \in 0..MaxTime
    /\ files \in [Names -> 0..MaxLines \cup {None}]
    /\ saver \in [Savers -> Saver]
    /\ saved \in [Names -> 0..MaxLines \cup {None}]
    /\ client \in [Clients -> Client]

\* A file whose name the tool has returned holds the whole output from then on:
\* no other saver overwrites, cuts or removes it, whatever they save at the
\* same instant and however they fail (output_store.py 102-113).
SavedStaysWhole ==
    \A name \in Names : saved[name] # None => files[name] = saved[name]

\* Two savers never write one file.
OneWriterPerFile ==
    \A s, t \in Savers :
        saver[s].pc = "writing" /\ saver[t].pc = "writing"
          /\ saver[s].name = saver[t].name => s = t

\* A client that follows the offsets through a saved file, with whatever page
\* sizes and whatever is saved meanwhile, is given every line of it exactly
\* once, in order, and is never told that an offset is out of range.
PagesGiveEveryLineOnce ==
    \A c \in Clients :
        LET r == client[c]
        IN  r.whole => /\ r.pc # "failed"
                       /\ r.pc = "done" => r.got = [i \in 1..saved[r.name] |-> i]

-----------------------------------------------------------------------------
(* What the documentation says of the program and the code does not do. *)

\* output_store.py 118, server.py 372-373: filenames are listed newest first.
NewestFirst ==
    LET listing == list_outputs
    IN  \A i, j \in DOMAIN listing : i < j => listing[i].time >= listing[j].time
=============================================================================
