# netmiko MCP server: verification project

TLA+ models of the netmiko MCP server, the TLC runs that check them and the
TLAPS proofs about them. Line numbers refer to the files of the repository.

Check a run with `tlc -config <cfg> <module>`, a proof with `tlapm <module>`;
`PROJECT.json` lists every run with its module, configuration and properties,
maps every definition to the lines it models, and gives for every property a
*mutant*: a plausible bug, defined next to the definition it breaks, that makes
the run fail.

## 1. The system

An MCP server gives a language model a handful of tools over network devices.
An operator starts it (`main.py`) with an inventory file, a command policy and
an audit log; clients call its tools over stdio or SSE.

| Component | State it keeps | Operations | What makes it correct |
|---|---|---|---|
| Show tools, `server.py` 180-364 | none between calls; a thread pool inside a group call | `send_command_and_get_output`, `send_command_to_group`, `_execute_show_command` | nothing reaches a device unjudged and unlogged; one inventory version per call; nothing twice; answer, audit log and device agree; nothing outlives its call; every call ends |
| Configuration tool, `server.py` 412-502 | `enable_config` | `set_config_commands_and_commit_or_save` | the batch is all or nothing before contact, only whole batches are kept after it; success means applied, committed, saved; a failure claims nothing |
| Device session, `inventory.py` 149-195 | none | `send_command`, `send_config_set_and_commit_and_save` | order of lines, commit and save; which errors end a session |
| Audit log, `audit.py` | an append-only file | `log_command_attempt`, `log_connection_outcome` | fails closed, and says truthfully whether execution had begun |
| Tool results, `tool_results.py` | none | `ToolFailure`, `structured_tool` | every outcome is answered as what it is |
| Inventory, `inventory.py` 198-367 | a file that others rewrite | `load_inventory`, `get_device_names`, `describe_groups`, `find_devices` | devices, groups and addresses of one version; unknown members refused |
| Output store, `output_store.py` | files per device | `save_output`, `list_outputs`, `read_output` | no saver disturbs another's file; paging loses and repeats nothing |
| Inventory import, `import_inventory.py`, `inventory_builder.py` | the inventory file, its `.bak`, a temporary file | an interactive session | the file is replaced whole or not at all, still loads, and the last message is true |
| Discovery tools, `server.py` 118-177, 366-389 | none | `get_network_device_list`, `get_network_group_list`, `find_network_devices`, `list_device_outputs` | what is shown is what a command is executed on; an ambiguous search says so |
| Command policy, `security.py` | two lists of patterns | `load_command_policies`, `validate_command`, `validate_config_command` | an entry means what is documented, deny wins, the baseline cannot be allowed |
| Credential encryption, `credential_crypto.py` | a key in the environment | `encrypt_value`, `decrypt_value` | a sealed field opens under its own key only |
| HTTP access, `http_auth.py`, `main.py` 160-193 | token, subnets | one check per request | no request passes unchecked |
| Start-up and doctor, `main.py`, `diagnostics.py` | settings | `main`, `run_diagnostics` | the server starts only as configured; what doctor finds in order starts and is usable |

**How they interact.** FastMCP runs a synchronous tool inline on its event loop,
so one process serves one call at a time. A tool asks the policy, writes the
verdict to the audit log, loads the inventory (again on every call), opens
sessions, writes an outcome line per session, may save the output through the
output store, and returns a value that `structured_tool` turns into the answer.
`send_command_to_group` does the part from the session to the saved output in a
thread pool. The import program shares only the inventory file with the server;
several server processes may share one output directory.

**What is hard.** The pool's workers interleave and fail one by one, in the
session, in the audit log or on disk; an exception of one of them ends the call
but not the other workers. The inventory changes under running calls. Sessions
time out when a command may or may not have run. A batch of configuration lines
can fail after any of them, in commit or in save. Processes die between a
command and its audit line, between a backup and a rename. Files are edited
between the steps of a start, between doctor and the start, and between a
discovery and the command sent to what it showed. `PROJECT.json` lists
these hazards, each at its line and with the properties that cover it.

## 2. The modules

| Module | Models | Run by |
|---|---|---|
| `AuditedExecution` | abstract: what every executing tool promises | (implemented by the next two) |
| `ShowCommands` | the two show tools, the pool, the audit lines, the adapter | `MCShowCommands` |
| `CommandPolicy` | normalisation, patterns, verdicts, the baseline | (used by `ConfigSet`, `ServerLife`) |
| `ConfigSet` | the configuration tool and its session, on a policy | `MCConfigSet` |
| `InventoryLookup` | what loads of an inventory, what is described and found, what a target stands for | (used by `ServerLife`) |
| `ServerLife` | operator, doctor, start-up, HTTP gate, discovery and the way to execution | `MCServerLife` |
| `InventoryImport` | concurrent import sessions down to the rename | `MCInventoryImport` |
| `OutputStore` | concurrent savers, listing and paging clients | `MCOutputStore` |
| `Subsequences` | the part of a sequence at given places (used by `CommandPolicy`, `InventoryLookup`) | |
| `ShowCommands_proofs`, `CommandPolicy_proofs`, `ConfigSet_proofs`, `InventoryLookup_proofs`, `ServerLife_proofs`, `InventoryImport_proofs`, `OutputStore_proofs`, `Subsequences_proofs` | theorems about the module each is named after | TLAPS |

### AuditedExecution

A call is opened, judged once, given one set of targets, runs its command at
most once on each of them, and is closed; after that nothing happens on its
behalf. Four variables: `open`, `verdict`, `targets`, `ran`. `ShowCommands` and
`ConfigSet` both carry a refinement mapping (`Abstract`) and the property
`KeepsThePromise`.

### ShowCommands

`pc` is the thread that serves the call: `validate`, `load`, then `one` (the
thread runs the session itself) or `pool` (submitting and collecting), `drain`
(an exception has left the `with` block and its exit waits for the workers),
and `replied`. `job[d]` is the progress of `_execute_show_command` for device
`d`: `queued`, `connecting`, `sent`, `answered`, `saving`, `done`. `item[d]` is
what the future holds; `attempt` and `outcome[d]` are the call's audit lines;
`dialed`, `executed` are what the devices saw. The environment picks what a
session ends in (output, each class of `CONNECTION_ERRORS`, or an exception
outside them), whether an audit write or a save fails, when the inventory file
changes (to another version or to one that does not load), and when the process
dies. Abstracted: text of commands and outputs (an output is short or longer
than `output_save_threshold`), textfsm, the policy (a set `Permitted`: which
commands it holds is the business of `CommandPolicy`).

### CommandPolicy

Texts are sequences of *fragments*: the stem or the ending of a word, a piece of
white space, the glob sign. Matching compares whole texts and beginnings only, so
nothing finer is needed, and "mtu*" can be told from "mtu *". `Normalize` and
`Strip` do what `" ".join(text.split())` and `strip()` do, on the places of a text
that are not white space (`Ink`) and those that stay (`Kept`); `Matches` is one round
of `_matches_any` (the regular expression of an accepted glob is a common
beginning), `InvalidGlobs` and `WellFormed` what start-up refuses. `Denotes` is
the reference: the meaning of an entry, word by word, as the module's and the
README's text give it. `str.lower()` is the constant `Lower`, of which it is assumed
that it keeps the glob sign and white space and makes neither of anything else, as
`str.lower()` does. `ConfigSet` loads any startable policy and judges with it.

### ConfigSet

`pc` goes through `judge` (once per line), `load`, the session (`connect`,
`config`, `commit`, `save`), `log`. `received` is what the device took, line by
line; a session that fails may or may not have carried out the step under way.
A platform has `commit()` or not and `save_config()` or not: the code drops the
AttributeError of the one and the NotImplementedError of the other.

### InventoryLookup

A document is what the TOML parser made of the file: the device tables in their
order, whether `[default]` is a table, the `[groups]` table. A device table is
`sound` or not, which stands for the checks of single fields; its sealed fields
name the key they were sealed with. `Describable` is where `describe_groups`
raises nothing, `GetDeviceNames` the list a target stands for, `FindDevices` the
search, over name, site, groups and tags (role, environment, host name and
description are compared in the same two ways). `dict.fromkeys` and the search
keep places of a sequence (`Subsequences`), which can be reasoned about where the
library's selections and folds cannot. `strip()`, `casefold()` and the occurrence
of a needle in a text are constants, `Trim`, `Fold` and `Within`. What a client
types is stripped and folded (`Wanted`), what the file holds is folded only.

### ServerLife

`world` is what the operator may edit: inventory, commands file, audit log,
output directory at any time, key and token (environment of a process) only
while no server runs. `options` is the command line. `Doctor` takes
`ReportOk` of the two and sets `vouched`, which any edit clears. `main()` is a
sequence of phases, `policies`, `audit`, `inventory` and on SSE `app` and `run`,
each of which reads the world as it is by then and may fail with a reason of its
own; `host` is the reason when the host refuses address and port, whatever for. Up, `Knock` is an HTTP request at the gate and `Call` one over stdio; each
tool is an action that answers from the file as it is then. `shown` remembers
which names the last discovery showed and for which devices, until the file
changes. A group call ends here when its pool is open; `ShowCommands` takes it
from there. `list_device_outputs` answers with the devices of its target, or with
one of its two failures (`Unlistable`) where a directory is refused or cannot be
read; the names it lists are `list_outputs` of `OutputStore`.

### InventoryImport

Per operator one session record, with the document read (`base`), the document
to write (`doc`), the devices typed (`entered`) and the last message (`told`).
Opening and filling the backup are two steps, as are creating and filling the
temporary file; the rename is one. A document is its device names and its
(group, member) pairs; a group without members is therefore not represented,
nor are credentials and metadata. A session can be interrupted, a write can
fail, the process can be killed at every step. A process that is killed loses
nothing the system has taken; the machine losing power is not modelled, for the
`.bak` (`inventory_builder.py` 298-302) and the directory after the rename (314)
are not synced. `alone` records, for the
properties only, whether another session has overlapped.

### OutputStore

A file name is (command, time, random part); of a content only the number of
lines is kept, which grows as the writer's buffer is flushed. Savers are threads
of any process that shares the directory. A client follows the offsets the
headers name, with a page size of its choice each time. `list_outputs` is the
one sequence that `sorted` can return: every file once, by descending name. Checks of path
components change no state and are taken as passed.

## 3. Runs

Passing runs (all safety is checked under the full environment described above):

| Run | Instance | Distinct states | What it shows |
|---|---|---|---|
| `show_group` | 3 devices (one named `error`), 1 group, 2 workers, 4 file versions, 6 calls | 1.6 M | the safety properties of the show tools and the refinement |
| `show_live` | 2 devices, 1 worker | 66 k | every call ends |
| `config` | 2 devices, 3 file versions covering the four kinds of platform, 21 policies, 18 batches of 14 lines | 50 k | safety, refinement and termination of the configuration tool; what policies mean |
| `server` | 15 inventories, 5 commands files, 4 logs, 4 kinds of key, 12 command lines, 15 requests, 7 searches with 4 limits | 165 k | doctor against start-up, the gate, discovery against execution |
| `import_sessions` | 2 concurrent sessions, 2 names, any groups, 5 initial files | 2.0 M | the import's promises |
| `outputs` | 2 savers, 1 client, 4 names, 2 files at a time, 3 lines, pages of 1 or 2 | 1.8 M | the store's promises |

*Why the bounds are enough.* Three devices over two workers are the smallest
pool in which one job queues while two run, and in which one can fail, one
succeed and one be queued at once. Calls follow one another without limit, so
whatever one leaves behind meets the next. The inventory versions differ in
addresses, in membership, in a group that no longer resolves, and in a file whose
`groups` is no table (which only `load_inventory` refuses). The batches
contain an empty one, a repeated line, and a denied line at either end. Two
names are enough for every collision of a device with a group, and for a
session to add a device to an inventory that has one. Three lines with pages of
1 and 2 give full, short and exactly filled last pages. The counters that grow
with time are bounded: the clock by `MaxTime`, outputs by `MaxLines`, files in a
directory by `MaxFiles`; nothing else is.
The policies hold one entry of each kind alone, each kind of denied entry against
a broad allowed one, and a mixed pair; the lines put blanks, case, glob signs and
white space where an entry could be missed or met by accident.
The worlds of `server` differ from a working base in one thing at a time, sealed
and open credentials meeting every kind of key: an operator goes back to the base
between two deviations, so any two of them follow each other while no two meet,
and each disagreement of two checks shows by itself. There is an inventory
for every way of not loading, not being describable, or not decrypting, one
in which only case and one in which only blanks tell two groups apart, and one
with a repeated member.
Servers, savers and sessions do not stop in any of these models, so deadlock is
checked everywhere.

*Fairness.* `show_live` and `config` assume weak fairness of the serving thread,
and `show_live` also of each job. That is what the code gives: threads are
scheduled, a free worker takes a queued job, and `conn_timeout` and
`read_timeout_override` (`inventory.py` 129-136) end a session whose device
stays silent. Nothing is assumed of the environment: sending the command, edits
and crashes are not fair.

Violation runs, each a statement of the repository that the code does not keep:

| Run | Statement | What the code does |
|---|---|---|
| `show_audit_stop` | `audit.py` 29: "Audit logging failed; device execution must not continue." | one worker's audit write fails; leaving the pool waits for the queued jobs, which open their sessions and run (`server.py` 346-362) |
| `show_two_lines` | `audit.py` 3-5: every command sent produces two lines | an exception outside `CONNECTION_ERRORS`, such as the EOFError of a Telnet session the device closes, leaves only the first (`server.py` 218-234) |
| `show_error_name` | `README.md` 272: partial failure does not discard successful output | a failing device named `error` is taken for the failure of the call (`tool_results.py` 75) |
| `config_unknown` | `README.md` 272: failed configuration operations report `unknown` | an exception outside `CONNECTION_ERRORS` after lines were sent, from `send_config_set` or from `commit()` (its ValueError), ends the call with no execution state (`server.py` 490) |
| `import_interrupt` | `import_inventory.py` 500: "the file has not been changed" | said also after the rename |
| `outputs_newest` | `output_store.py` 118, `server.py` 372: newest first | the command sorts before the time (`output_store.py` 123-130) |

Seen while modelling and covered by no run: an output whose saver was killed is
listed like a whole one; an entry of a policy with two blanks inside matches no
command, since commands are normalised and entries are not
(`VerdictsMeanWhatIsWritten` speaks of policies without such entries); doctor cannot
see that the audit log belongs to another account, whose mode the start then fails
to set, or that the host will refuse the address and the port, because the address
is not its own, the port needs privileges or another process has it
(`ReadyMeansStarts` excepts the two); two overlapping import sessions lose updates
(the document is read at `import_inventory.py` 430 and written back at 393), of
which no document speaks and which is why `ReplacedContentIsKept` and
`VerifiedMeansStored` have a session that runs alone as their premise.

Seen too: a search strips what it is asked for but not the names in the file
(`inventory.py` 284-295, 305). The loader and doctor accept a group `" edge "`,
discovery shows it and commands to it run, but a search by exactly that name finds
nothing, or the devices of a group `"edge"`, where `README.md` 144 says
"case-insensitive exact matching". `SearchAgreesWithTargets` therefore speaks of the
groups that a search understands its text to name (`Named`), and `server` has an
inventory with both of these groups, and a tag with a blank.

## 4. Proofs

`ShowCommands_proofs` proves, for all devices, groups, inventories, calls and
numbers of workers that satisfy `ConstantsAssumption` (finitely many devices, at
least one worker, no device named "all", and the typing of the rest):

- `TypeCorrect`: `Spec => []TypeOK`.
- `Invariance`: the inductive invariant `IInv`.
- `AuditedBeforeContactHolds`, `AtMostOnceHolds`, `QuietAfterAnswerHolds`,
  `AnswerMatchesLogHolds`, `TrueExecutionStateHolds`, `OneInventoryVersionHolds`,
  `PartialFailureKeepsOutputHolds`: the safety properties of the same names, which are all that `show_group` checks.
- `Refinement`: `Spec => KeepsThePromise`.

*Argument.* None of the properties is inductive. `TypeOK` needs `Bound`: that a
call in progress is one of `Calls`, that the snapshot its workers read is a
version of the file on which its target resolves, and that a finished job has
left a result in its future. Safety needs `Phases`, which ties each phase of the
serving thread to what jobs may be doing (outside `one`, `pool` and `drain` no
job is queued or active, which is the whole reason nothing outlives its call),
and `Progress`, which ties each job's position to the number of times its
command has been sent (`AtMostOnce` would not survive `SendCommand` without
"connecting means not sent yet"). That at most `MaxWorkers` jobs run at a time is
the library's promise and a guard of `StartJob`; no property claims it. The four properties of the answer are proved
together (`Answered`): `Course` adds which tool each phase serves and that a
session goes to the address in the call's snapshot; the actions that answer are
then shown to tell the truth one by one (`RefusalIsTrue`, `SummaryIsTrue`,
`RaisedIsTrue`, `SingleAnswerIsTrue`), and nothing they speak of changes until
the next request (`WaitingIsQuiet`). The refinement uses `IInv` to know that a
`SendCommand` happens on a target, the first time, while the call is open.

`ConfigSet_proofs` proves, for all devices, policies, batches and inventories:
`TypeCorrect`, `WholeBatchJudgedFirstHolds`, `SuccessMeansAppliedHolds`,
`OnlyWholeBatchIsKeptHolds`, `FailureStateIsTrueHolds`,
`BaselineNeverReachesDeviceHolds`, `VerdictsMeanWhatIsWrittenHolds` and
`Refinement` (`Spec => KeepsThePromise`). The invariant ties what
the device has received to a beginning of the batch (`SentSoFar`), the verdicts
given so far to that batch (`Judged`, `Approved`), each phase of the session to
what has been committed and saved (`Phases`), and the answer to the ending
(`Told`). That every line of the audit log is the verdict on its line of the batch
(`Verdicts`) is a second invariant; what a verdict means comes from the next module.
`OnlyAllowedLinesReachDevices` adds that a line is let through as it is sent, not
only as the client spelt it.

`CommandPolicy_proofs` proves, for every alphabet, policy and command, what a
verdict is about:

- `EntriesMeanWhatIsWritten`: an entry that start-up accepts and that is written
  with single blanks matches, place by place, the commands it denotes word by word.
- `ConfigVerdictsMeanWhatIsWritten`: hence a configuration line is allowed exactly
  when it is safe, an allowed entry denotes it and no denied or baseline entry does.
- `SpellingDoesNotMatter`: two safe spellings of the same words get the same
  verdict, whatever entries the lists hold, those with runs of blanks included.
- `SentIsWhatWasJudged`: the normalised command, which is what the device gets,
  would have got the verdict of the command that was judged.
- `BaselineAlwaysDenied`: no policy lets a line through that starts with a
  baseline word.

Texts and their words are enumerated differently on the two sides, so the proof
goes through places. `WordsOfNormal` says that normalising moves every letter of
every word to its place in the normal form, in order; `NormalIsSingle` that the
normal form has single blanks. Of two texts with single blanks, one begins like
the other exactly when their words do: `WordsGivePrefix` looks at the first place
where the texts differ, and asks which word it is in and how many begin before it;
`PrefixGivesWords` is the converse, and `WordsBegin` translates to the words
themselves. Case is dealt with last: it moves no white space, so it commutes with
normalising (`LowerNormal`).

Statements about all sequences would be proved by induction, which is out of
reach here. `Subsequences_proofs` goes without: the number of a place is a
cardinality (`Rank`), the place of a number its inverse (`Nth`), and that the two
enumerate a finite set in order (`RankIsMonotone`, `NthIsInverse`, `MonotoneImage`)
follows from the cardinalities of subsets and from the least element of a set of
numbers.

`OutputStore_proofs` proves, for any number of savers, clients, names, lines and
page sizes: `TypeCorrect`, `OneWriterPerFileHolds`, `SavedStaysWholeHolds`,
`SavedForGood` (no step changes a file once its name was returned),
`PagesGiveEveryLineOnceHolds` and `ListingIsWhole` (the sorted listing exists and
holds every file once: the rank of a file is the number of those not above it). The invariant says that a file that is not saved
has at most one owner, who is writing it (`Owned`), and that a client has read a
beginning of its output and no more (`Paging`).

`InventoryImport_proofs` proves, for any number of sessions on one file, all six
properties of `import_sessions`. `Sound` ties what a session remembers to the step
it is at: before the confirmation nothing is on the disk and the document merged
with what was entered loads if the base did (`OneMoreDevice` is where the checks
of the prompts are needed), from then on it contains what was entered, and only
a session at its read-back has replaced the file. The two properties about a session that
runs alone need a second invariant, `Solitary`: no other session is on its way,
and the file is what the session read or has in the `.bak`.

`ServerLife_proofs` proves, for all files, environments, command lines and
requests: `TypeCorrect`, `ReadyMeansStartsHolds`, `ReadyMeansUsableHolds`,
`RunsOnlyAsConfiguredHolds`, `GateIsTightHolds`, `ShownNamesRunHolds`,
`EachTargetOnceHolds`, `SearchAgreesWithTargetsHolds` and
`AmbiguityIsNeverHiddenHolds`. `Course` says what each phase
of the start has made sure of, `Vouching` that what doctor found in order still
is (written as `InOrder`, a function of files and options, so that it can be
compared before and after a step), and `Admitted` that whose request is at a tool
came through the gate. `LookupInv` adds what discovery has told: `ShownRight`, that
names shown since the last edit resolve to the devices they were shown with, and
`AnswerRight`, that the last answer is what its tool computes of the file as it
still is. What the tools compute is `InventoryLookup_proofs`: `TargetNamesOnce`
(a target names each of its devices once) and, for the search, that it keeps each
match once and in its order, so that its length counts the matches. `GroupSearch`
is the search by a group: it matches what is listed in the groups whose folded
names are what was wanted.

All proofs use the named assumptions of the modules and nothing else; TLC
evaluates these assumptions in every run.

*Only model-checked:* `EveryCallEnds` of `ShowCommands` and of `ConfigSet`
(liveness under fairness is beyond this prover). Every other property of a passing
run is stated by a theorem. The violation runs need no proof.

## 5. Not modelled

- The arithmetic of Fernet, and `--generate-key` and `--encrypt-value`, which
  print a value and end.
- The JSON text of audit lines and answers, the texts and warnings of doctor.
- The validation and the wording of single fields, in the inventory loader (one
  attribute, `sound`) and in the import prompts; passwords and metadata there.
- Path checks of the output store, which change no state.
- Where exactly the line count of an output passes `output_save_threshold`.
- Packaging and continuous integration, which hold no program logic.

What is left out changes no state and takes part in no order of events; it is
the kind of code that the repository's unit tests reach.

## 6. Plan

1. Done: all modules of section 2 with their runs, and the proofs of section 4.
2. Worth adding where the code grows: a run in which the server of `ServerLife`
   and the sessions of `InventoryImport` share one file, once either of them
   keeps state across versions of it; larger pools in `show_group`.
3. Proofs: every safety property of the runs is a theorem; a property added to a
   run should get its theorem with it.
