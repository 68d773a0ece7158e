----------------------------- MODULE ServerLife -----------------------------
(***************************************************************************)
(* The life of a server: an operator edits files, environment and options, *)
(* may ask --doctor about them (diagnostics.py), starts the server, which  *)
(* checks them again in its own code and order (main.py), and clients look *)
(* devices up and have commands run on what they were shown.               *)
(*                                                                         *)
(* What a command does once its targets are known is ShowCommands; here it *)
(* ends when the pool is open.                                             *)
(***************************************************************************)
EXTENDS Integers, InventoryLookup, CommandPolicy

CONSTANTS
    Unusable,  \* a commands file that is missing or no TOML with four lists of texts
    Worlds,    \* the files and the environment an operator may set up
    Options,   \* the command lines
    Queries,   \* the searches of the clients
    Limits,    \* and the limits they set
    Callers    \* HTTP requests: Authorization headers and client address

\* A commands file is Unusable, or two policies.
NoPolicy  == [allowed |-> {}, denied |-> {}]
DenyAll   == [show |-> NoPolicy, config |-> NoPolicy]
Versions  == ({w.commands : w \in Worlds} \ {Unusable}) \cup {DenyAll}

\* The audit log is a file of the server's account, one it may write but does
\* not own, one yet to be created, or none it can open.
Logs == {"own", "foreign", "absent", "closed"}

World == [inventory : {w.inventory : w \in Worlds},
          commands  : {w.commands : w \in Worlds},
          log : Logs, outputs : BOOLEAN,
          key : Keys \cup {None, Malformed}, token : BOOLEAN]

\* What each part of a world may be.
Variants == [part \in {"inventory", "commands", "log", "outputs", "key", "token"} |->
               {w[part] : w \in Worlds}]

\* bind: an address inside --allowed-subnet, one outside, or one of them does
\* not parse.
CommandLine == [commandsFile : BOOLEAN, sse : BOOLEAN, noAuth : BOOLEAN,
                bind : {"inside", "outside", "broken"}, port : Int,
                workers : Int, threshold : Int]

Caller == [headers : Seq({"right", "wrong", "otherScheme"}),
           address : {"inside", "outside", "none"}]

ASSUME ServerAssumption ==
    /\ \A w \in Worlds : w.inventory = Unreadable \/ IsDocument(w.inventory)
    /\ \A w \in Worlds : w.commands \in {Unusable} \cup [show : Policy, config : Policy]
    /\ Worlds \subseteq World
    /\ Options \subseteq CommandLine /\ Callers \subseteq Caller
    /\ Queries \subseteq Query
    /\ Limits \subseteq Int

VARIABLES
    world,    \* files and environment, one of Worlds
    options,  \* the command line
    phase,    \* "down", a step of main(), "up" or "failed"
    failure,  \* what the start ended in
    server,   \* command_policy and config_command_policy
    vouched,  \* doctor found no error and nothing was edited since
    caller,   \* the HTTP request being served (SSE)
    shown,    \* the names shown to clients, and the devices they stood for
    answer    \* the last answer

vars == <<world, options, phase, failure, server, vouched, caller, shown, answer>>

Starting == {"policies", "audit", "inventory", "app", "run"}
NoAnswer == [tool |-> "none"]

Init ==
    /\ world \in Worlds /\ options \in Options
    /\ phase = "down" /\ failure = "none"
    /\ server = DenyAll
    /\ vouched = FALSE /\ caller = None
    /\ shown = <<>> /\ answer = NoAnswer

-----------------------------------------------------------------------------
(* The environment. *)

\* A file changes at any time, a variable or the command line of a process only
\* before it starts.
EditWorld ==
    \E part \in DOMAIN world : \E new \in Variants[part] \ {world[part]} :
        /\ part \in {"key", "token"} => phase = "down"
        /\ world' = [world EXCEPT ![part] = new]
        /\ world' \in Worlds
        /\ vouched' = FALSE
        /\ shown' = <<>> /\ answer' = NoAnswer
        /\ UNCHANGED <<options, phase, failure, server, caller>>

EditOptions ==
    /\ phase = "down"
    /\ options' \in Options \ {options}
    /\ vouched' = FALSE
    /\ UNCHANGED <<world, phase, failure, server, caller, shown, answer>>

\* The process ends, or is ended.
Exit ==
    /\ phase # "down"
    /\ phase' = "down" /\ failure' = "none"
    /\ server' = DenyAll
    /\ caller' = None /\ shown' = <<>> /\ answer' = NoAnswer
    /\ UNCHANGED <<world, options, vouched>>

-----------------------------------------------------------------------------
(* --doctor *)

\* load_command_policies and validate_command_lists, as both programs call them.
CommandsLoad ==
    options.commandsFile =>
        /\ world.commands # Unusable
        /\ \A p \in {world.commands.show, world.commands.config} :
              WellFormed(p) /\ ValidateCommandLists(p) = {}

LoadedPolicies ==
    IF options.commandsFile THEN world.commands ELSE DenyAll

\* Mutant: doctor loads the inventory as the start does.
DevicesChecked ==
    DevicesParse(world.inventory, world.key)

\* _inventory_checks
InventoryChecked ==
    /\ InventoryLoads(world.inventory, world.key)
    /\ Describable(world.inventory)
    /\ \A e \in Range(world.inventory.entries) : e.keyFile \in {"none", "present"}

\* What a port may be, a number of 16 bits.
Ports == 0..65535

LimitsChecked == options.workers >= 1 /\ options.threshold >= 0

\* Mutant: the address and the port are left to the start.
AddressUnchecked ==
    options.sse => options.noAuth \/ world.token

HttpChecked ==
    options.sse =>
        /\ options.bind = "inside"
        /\ options.port \in Ports \ {0}
        /\ options.noAuth \/ world.token

\* run_diagnostics reports no error.
ReportOk ==
    /\ world.key # Malformed
    /\ InventoryChecked
    /\ CommandsLoad
    /\ world.log # "closed" /\ world.outputs
    /\ LimitsChecked
    /\ HttpChecked

Doctor ==
    /\ phase = "down"
    /\ vouched' = ReportOk
    /\ UNCHANGED <<world, options, phase, failure, server, caller, shown, answer>>

-----------------------------------------------------------------------------
(* main() *)

\* Mutant: the error is noted and the start goes on.
NoteOnly(reason) ==
    /\ phase' = "up"
    /\ failure' = reason

Fail(reason) ==
    /\ phase' = "failed"
    /\ failure' = reason

Start ==
    /\ phase = "down"
    /\ phase' = "policies"
    /\ UNCHANGED <<world, options, failure, server, vouched, caller, shown, answer>>

\* Mutant: each policy is read from the file for itself.
LoadPoliciesApart ==
    /\ phase = "policies"
    /\ \/ /\ CommandsLoad
          /\ \E later \in Versions :
                server' = [show |-> LoadedPolicies.show, config |-> later.config]
          /\ phase' = "audit" /\ UNCHANGED failure
       \/ /\ ~CommandsLoad
          /\ Fail("policies") /\ UNCHANGED server
    /\ UNCHANGED <<world, options, vouched, caller, shown, answer>>

\* _apply_runtime_config up to the policies: one reading of one version.
LoadPolicies ==
    /\ phase = "policies"
    /\ \/ /\ CommandsLoad
          /\ server' = LoadedPolicies
          /\ phase' = "audit" /\ UNCHANGED failure
       \/ /\ ~CommandsLoad
          /\ Fail("policies") /\ UNCHANGED server
    /\ UNCHANGED <<world, options, vouched, caller, shown, answer>>

\* configure_audit_logger creates the file and its directory where it has to,
\* and sets its mode, which only the owner may.
OpenAuditLog ==
    /\ phase = "audit"
    /\ world' = [world EXCEPT !.log = IF @ = "absent" THEN "own" ELSE @]
    /\ CASE world.log = "closed"  -> Fail("audit")
         [] world.log = "foreign" -> Fail("chmod")
         [] OTHER                 -> phase' = "inventory" /\ UNCHANGED failure
    /\ UNCHANGED <<options, server, vouched, caller, shown, answer>>

LoadConfigToml ==
    /\ phase = "inventory"
    /\ \/ /\ DevicesParse(world.inventory, world.key)
          /\ phase' = (IF options.sse THEN "app" ELSE "up") /\ UNCHANGED failure
       \/ /\ ~DevicesParse(world.inventory, world.key)
          /\ Fail("inventory")
    /\ UNCHANGED <<world, options, server, vouched, caller, shown, answer>>

BuildSseApp ==
    /\ phase = "app"
    /\ \/ /\ options.bind # "inside"
          /\ Fail("bind")
       \/ /\ options.bind = "inside" /\ ~(options.noAuth \/ world.token)
          /\ Fail("token")
       \/ /\ options.bind = "inside" /\ (options.noAuth \/ world.token)
          /\ phase' = "run" /\ UNCHANGED failure
    /\ UNCHANGED <<world, options, server, vouched, caller, shown, answer>>

\* uvicorn.run: 0 takes a free port.  The host may refuse address and port for
\* reasons of its own: the address is not one of its addresses, the port needs
\* privileges, another process has it.
RunUvicorn ==
    /\ phase = "run"
    /\ \/ options.port \in Ports /\ phase' = "up" /\ UNCHANGED failure
       \/ options.port \in Ports /\ Fail("host")
       \/ options.port \notin Ports /\ Fail("port")
    /\ UNCHANGED <<world, options, server, vouched, caller, shown, answer>>

Boot == LoadPolicies \/ OpenAuditLog \/ LoadConfigToml \/ BuildSseApp \/ RunUvicorn

-----------------------------------------------------------------------------
(* Requests over HTTP, and the tools. *)

Authorized(request) ==
    options.noAuth \/ (request.headers # <<>> /\ Head(request.headers) = "right")

\* Mutant: the subnet is looked at before the token.
GateSubnetFirst(request) ==
    IF request.address # "inside" THEN "HTTP_403"
    ELSE IF ~Authorized(request) THEN "HTTP_401" ELSE "passed"

\* BearerTokenMiddleware around restrict_subnet; of several Authorization
\* headers the first decides.
Gate(request) ==
    IF ~Authorized(request) THEN "HTTP_401"
    ELSE IF request.address # "inside" THEN "HTTP_403" ELSE "passed"

Knock(request) ==
    /\ phase = "up" /\ options.sse
    /\ caller' = request
    /\ answer' = [tool |-> "http", code |-> Gate(request)]
    /\ UNCHANGED <<world, options, phase, failure, server, vouched, shown>>

\* The client of stdio is one, and trusted.
Call ==
    /\ phase = "up" /\ ~options.sse
    /\ answer' = [tool |-> "stdio", code |-> "passed"]
    /\ UNCHANGED <<world, options, phase, failure, server, vouched, caller, shown>>

\* A request is at a tool.
Serving == phase = "up" /\ answer # NoAnswer /\ answer.code = "passed"

Loads     == InventoryLoads(world.inventory, world.key)
Discovers == Loads /\ Describable(world.inventory)

Reply(tool, code, names) == [tool |-> tool, code |-> code, names |-> names]

Tell(reply, names) ==
    /\ answer' = reply
    /\ shown' = names
    /\ UNCHANGED <<world, options, phase, failure, server, vouched, caller>>

\* Each name the descriptions show, with the devices it is shown to stand for.
ShownIn(descriptions) ==
    LET devices == {d.name : d \in Range(descriptions)}
        groups  == UNION {d.groups : d \in Range(descriptions)}
    IN  [n \in devices \cup groups |->
            IF n \in devices THEN {n}
            ELSE {d.name : d \in {x \in Range(descriptions) : n \in x.groups}}]

NamesOf(descriptions) == [i \in DOMAIN descriptions |-> descriptions[i].name]

ListDevices ==
    /\ Serving
    /\ \/ Discovers /\ LET all == DescribeDevices(world.inventory)
                        IN  Tell(Reply("devices", "OK", NamesOf(all)), ShownIn(all))
       \/ ~Discovers /\ Tell(Reply("devices", "INVENTORY_UNAVAILABLE", <<>>), shown)

ListGroups ==
    /\ Serving
    /\ \/ Discovers /\ LET all == DescribeGroups(world.inventory)
                        IN  Tell(Reply("groups", "OK", <<>>), [g \in DOMAIN all |-> Range(all[g])])
       \/ ~Discovers /\ Tell(Reply("groups", "INVENTORY_UNAVAILABLE", <<>>), shown)

\* Mutant: whether to ask is decided on the page, not on the matches.
SelectionOnPage(query, matches, limit) ==
    LET page == SubSeq(matches, 1, Min({limit, Len(matches)}))
    IN  [tool |-> "find", code |-> "OK", names |-> NamesOf(page), query |-> query,
         total |-> Len(matches), truncated |-> Len(matches) > limit,
         selection |-> Len(page) > 1]

Page(query, matches, limit) ==
    LET page == SubSeq(matches, 1, Min({limit, Len(matches)}))
    IN  [tool |-> "find", code |-> "OK", names |-> NamesOf(page), query |-> query,
         total |-> Len(matches), truncated |-> Len(matches) > limit,
         selection |-> Len(matches) > 1]

FindNetworkDevices(query, limit) ==
    /\ Serving
    /\ \/ limit \notin 1..100
          /\ Tell(Reply("find", "INVALID_SEARCH_LIMIT", <<>>), shown)
       \/ /\ limit \in 1..100 /\ ~Discovers
          /\ Tell(Reply("find", "INVENTORY_UNAVAILABLE", <<>>), shown)
       \/ /\ limit \in 1..100 /\ Discovers
          /\ LET page == Page(query, FindDevices(world.inventory, query), limit)
             IN  Tell(page, [n \in Range(page.names) |-> {n}])

Unlistable == {"UNSAFE_OUTPUT_PATH", "OUTPUT_READ_FAILED"}

About(target, tool, code, names) ==
    [tool |-> tool, target |-> target, code |-> code, names |-> names]

\* send_command_to_group, for a command that is allowed, up to the pool, which
\* takes no size below one.
SendCommandToGroup(target) ==
    /\ Serving
    /\ LET doc == world.inventory
       IN  Tell(IF ~Loads THEN About(target, "run", "INVENTORY_UNAVAILABLE", <<>>)
                ELSE IF ~Resolves(doc, target) THEN About(target, "run", "TARGET_NOT_FOUND", <<>>)
                ELSE IF options.workers < 1 THEN About(target, "run", "UNEXPECTED", <<>>)
                ELSE About(target, "run", "OK", GetDeviceNames(doc, target)), shown)

\* list_device_outputs: an unknown target is an unusable inventory to it.  The
\* directory of one device may have a name or a place that is refused, or not be
\* readable; then nothing is listed for any.
ListDeviceOutputs(target) ==
    /\ Serving
    /\ \/ /\ ~(Loads /\ Resolves(world.inventory, target))
          /\ Tell(About(target, "outputs", "INVENTORY_UNAVAILABLE", <<>>), shown)
       \/ /\ Loads /\ Resolves(world.inventory, target)
          /\ LET names == GetDeviceNames(world.inventory, target)
             IN  \/ Tell(About(target, "outputs", "OK", names), shown)
                 \/ /\ names # <<>>
                    /\ \E code \in Unlistable :
                          Tell(About(target, "outputs", code, <<>>), shown)

Tool == \/ ListDevices \/ ListGroups
        \/ \E q \in Queries, l \in Limits : FindNetworkDevices(q, l)
        \/ \E t \in Names : SendCommandToGroup(t) \/ ListDeviceOutputs(t)

Next == \/ EditWorld \/ EditOptions \/ Doctor \/ Start \/ Boot \/ Exit
        \/ (\E r \in Callers : Knock(r)) \/ Call \/ Tool

Spec == Init /\ [][Next]_vars

-----------------------------------------------------------------------------
(* What the programs promise. *)

Tools == {"devices", "groups", "find", "run", "outputs"}
Codes == {"OK", "INVENTORY_UNAVAILABLE", "INVALID_SEARCH_LIMIT", "TARGET_NOT_FOUND",
          "UNEXPECTED", "HTTP_401", "HTTP_403", "passed"} \cup Unlistable

TypeOK ==
    /\ world \in World /\ options \in Options
    /\ phase \in {"down", "up", "failed"} \cup Starting
    /\ (failure # "none") = (phase = "failed")
    /\ server \in Versions
    /\ vouched \in BOOLEAN
    /\ caller \in Callers \cup {None}
    /\ \A n \in DOMAIN shown : n \in Names /\ shown[n] \subseteq Names
    /\ answer = NoAnswer \/ (answer.tool \in Tools \cup {"http", "stdio"} /\ answer.code \in Codes)

\* A start whose settings doctor found in order, unchanged since, fails only for
\* what doctor does not try: to set the mode of a log of another owner, and to
\* listen on its address and port, which the host may refuse (README.md 175-183).
ReadyMeansStarts ==
    vouched => failure \in {"none", "chmod", "host"}

\* And once it is up, while nothing is edited, every tool can read the
\* inventory, every name in it is a target, and the pool of a group call opens.
ReadyMeansUsable ==
    vouched /\ answer # NoAnswer
            /\ answer.code \in {"INVENTORY_UNAVAILABLE", "TARGET_NOT_FOUND", "UNEXPECTED"} =>
        /\ answer.tool \in {"run", "outputs"}
        /\ answer.target \notin {All} \cup DeviceNames(world.inventory)
                                    \cup DOMAIN world.inventory.groups

\* A server that is up works on the two policies of one version of the commands
\* file, however it was edited meanwhile, whose lists and globs were accepted;
\* on SSE it listens inside its subnets, with a token unless told otherwise
\* (security.py 83, README.md 91).
RunsOnlyAsConfigured ==
    phase = "up" =>
        /\ server \in Versions
        /\ \A p \in {server.show, server.config} :
              WellFormed(p) /\ ValidateCommandLists(p) = {}
        /\ ~options.commandsFile => server = DenyAll
        /\ options.sse => options.bind = "inside" /\ (options.noAuth \/ world.token)

\* No tool answers an HTTP request from outside the subnets or, unless told
\* otherwise, without the token; and who has not shown the token is not told
\* whether its address would do.
GateIsTight ==
    options.sse /\ answer # NoAnswer =>
        /\ answer.tool \in Tools =>
              /\ caller.address = "inside"
              /\ options.noAuth \/ "right" \in Range(caller.headers)
        /\ answer.code = "HTTP_403" =>
              options.noAuth \/ "right" \in Range(caller.headers)

\* A group is shown to stand for the devices the file lists in it; and a name a
\* discovery tool has shown is a target: while the file stays as it is, a command
\* sent to it goes to exactly the devices it was shown to stand for
\* (server.py 127-130, 150-154).
ShownNamesRun ==
    /\ answer = Reply("groups", "OK", <<>>) =>
          shown = [g \in DOMAIN world.inventory.groups |-> Range(world.inventory.groups[g])]
    /\ (/\ answer # NoAnswer /\ answer.tool \in {"run", "outputs"}
        /\ answer.target \in DOMAIN shown) =>
            \/ answer.code = "OK" /\ Range(answer.names) = shown[answer.target]
            \/ answer.code = "UNEXPECTED" /\ options.workers < 1
            \/ answer.tool = "outputs" /\ answer.code \in Unlistable

\* A device listed twice in a group, or reached in whatever way, is executed on
\* once (README.md 136).
EachTargetOnce ==
    answer # NoAnswer /\ answer.tool \in {"run", "outputs"} =>
        IsInjective(answer.names)

\* The last answer is a whole search for nothing but a group.
SearchedGroup ==
    /\ answer # NoAnswer /\ answer.tool = "find" /\ answer.code = "OK"
    /\ ~answer.truncated
    /\ answer.query.group # None /\ Wanted(answer.query.needle) = Empty
    /\ answer.query.site = None /\ answer.query.tag = None

\* The groups a search understands a text to name: case and the blanks around
\* what was typed do not count, blanks around the name in the file do.
Named(doc, text) == {g \in DOMAIN doc.groups : Fold[g] = Wanted(text)}

\* A search by a group finds the devices that commands to the groups so named
\* go to, and no other, whatever other groups those devices are in: searching by
\* the name of a group without blanks at its ends misses none of its devices
\* (README.md 144).  A group with such blanks is a target and no search names it.
SearchAgreesWithTargets ==
    SearchedGroup =>
        LET doc == world.inventory
        IN  Range(answer.names) = UNION {Range(GetDeviceNames(doc, g)) :
                                           g \in Named(doc, answer.query.group)}

\* Unless the client is asked to select, one device at most matches; unless the
\* answer says that it is cut off, it names every match (README.md 145-146).
AmbiguityIsNeverHidden ==
    answer # NoAnswer /\ answer.tool = "find" /\ answer.code = "OK" =>
        LET matches == {d.name : d \in {x \in Range(DescribeDevices(world.inventory)) :
                                          Found(answer.query, x)}}
        IN  /\ ~answer.selection => Cardinality(matches) <= 1
            /\ ~answer.truncated => Range(answer.names) = matches
            /\ answer.total = Cardinality(matches)
=============================================================================
