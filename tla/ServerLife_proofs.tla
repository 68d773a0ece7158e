-------------------------- MODULE ServerLife_proofs --------------------------
(***************************************************************************)
(* Proofs about ServerLife, for any files, command lines and requests:     *)
(* what doctor vouches for, what a server that is up works on, and who is  *)
(* answered over HTTP.                                                     *)
(***************************************************************************)
EXTENDS ServerLife, InventoryLookup_proofs

Accepted(p) == WellFormed(p) /\ ValidateCommandLists(p) = {}

\* The types, but for the names shown.
Typed ==
    /\ world \in World /\ options \in Options
    /\ phase \in {"down", "up", "failed"} \cup Starting
    /\ (failure # "none") <=> (phase = "failed")
    /\ server \in Versions
    /\ vouched \in BOOLEAN
    /\ caller \in Callers \cup {None}
    /\ answer = NoAnswer \/ (answer.tool \in Tools \cup {"http", "stdio"} /\ answer.code \in Codes)

\* What each step of the start has made sure of.
Course ==
    /\ phase \in {"audit", "inventory", "app", "run", "up"} =>
          /\ Accepted(server.show) /\ Accepted(server.config)
          /\ ~options.commandsFile => server = DenyAll
    /\ phase \in {"app", "run"} => options.sse
    /\ phase \in {"run", "up"} /\ options.sse =>
          options.bind = "inside" /\ (options.noAuth \/ world.token)
    /\ phase # "up" => answer = NoAnswer

\* What ReportOk says, of files and environment w and command line o.
InOrder(w, o) ==
    /\ w.key # Malformed
    /\ InventoryLoads(w.inventory, w.key)
    /\ Describable(w.inventory)
    /\ \A e \in Range(w.inventory.entries) : e.keyFile \in {"none", "present"}
    /\ o.commandsFile =>
          /\ w.commands # Unusable
          /\ \A p \in {w.commands.show, w.commands.config} :
                WellFormed(p) /\ ValidateCommandLists(p) = {}
    /\ w.log # "closed" /\ w.outputs
    /\ o.workers >= 1 /\ o.threshold >= 0
    /\ o.sse =>
          /\ o.bind = "inside"
          /\ o.port \in Ports \ {0}
          /\ o.noAuth \/ w.token

\* What doctor found in order still is.
Vouching == vouched => InOrder(world, options)

ShowedToken == options.noAuth \/ "right" \in Range(caller.headers)

\* Whose request is at a tool, or has been, came through the gate.
Admitted ==
    options.sse /\ answer # NoAnswer =>
        /\ answer.tool \in Tools \/ answer.code = "passed" =>
              caller.address = "inside" /\ ShowedToken
        /\ answer.code = "HTTP_403" => ShowedToken

IInv == Typed /\ Course /\ Vouching /\ Admitted /\ ReadyMeansStarts /\ ReadyMeansUsable

-----------------------------------------------------------------------------
LEMMA ReportIsInOrder == ReportOk <=> InOrder(world, options)
BY Zenon DEF ReportOk, InOrder, InventoryChecked, CommandsLoad, LimitsChecked, HttpChecked

\* A server without a commands file permits nothing, which is well formed.
LEMMA DenyAllIsAccepted == Accepted(DenyAll.show) /\ Accepted(DenyAll.config)
BY DEF Accepted, DenyAll, NoPolicy, WellFormed, ValidateCommandLists, InvalidGlobs

LEMMA StartsRight == Init => IInv
<1> SUFFICES ASSUME Init PROVE IInv
  OBVIOUS
<1>1. world \in World /\ DenyAll \in Versions
  BY ServerAssumption DEF Init, Versions
<1>2. Typed
  BY <1>1 DEF Init, Typed
<1> QED
  BY <1>2 DEF Init, IInv, Course, Vouching, Admitted, ReadyMeansStarts, ReadyMeansUsable

\* Edits, doctor and the end of the process.
LEMMA OperatorKeeps ==
    ASSUME IInv, EditWorld \/ EditOptions \/ Doctor \/ Start \/ Exit
    PROVE  IInv'
<1>1. CASE EditWorld
  <2>1. /\ vouched' = FALSE /\ answer' = NoAnswer /\ world' \in World
        /\ UNCHANGED <<options, phase, failure, server, caller>>
    BY <1>1, ServerAssumption DEF EditWorld
  <2>2. phase # "down" => world'.token = world.token
    BY <1>1 DEF EditWorld, IInv, Typed, World
  <2>3. Typed'
    BY <2>1 DEF IInv, Typed
  <2>4. Course'
    BY <2>1, <2>2 DEF IInv, Course
  <2> QED
    BY <2>1, <2>3, <2>4 DEF IInv, Vouching, Admitted, ReadyMeansStarts, ReadyMeansUsable
<1>2. CASE EditOptions
  <2>1. /\ vouched' = FALSE /\ phase = "down" /\ answer = NoAnswer /\ options' \in Options
        /\ UNCHANGED <<world, phase, failure, server, caller, answer>>
    BY <1>2 DEF EditOptions, IInv, Course
  <2>2. Typed' /\ Course'
    BY <2>1 DEF IInv, Typed, Course
  <2> QED
    BY <2>1, <2>2 DEF IInv, Vouching, Admitted, ReadyMeansStarts, ReadyMeansUsable
<1>3. CASE Doctor
  <2>1. /\ phase = "down" /\ answer = NoAnswer /\ failure = "none"
        /\ UNCHANGED <<world, options, phase, failure, server, caller, answer>>
    BY <1>3 DEF Doctor, IInv, Course, Typed
  <2>2. vouched' = ReportOk /\ ReportOk \in BOOLEAN
    BY <1>3 DEF Doctor, ReportOk
  <2>3. vouched' \in BOOLEAN /\ (vouched' => InOrder(world, options))
    BY <2>2, ReportIsInOrder
  <2>4. Vouching'
    BY <2>1, <2>3 DEF Vouching
  <2>5. Typed' /\ Course' /\ Admitted'
    BY <2>1, <2>3 DEF IInv, Typed, Course, Admitted
  <2> QED
    BY <2>1, <2>4, <2>5 DEF IInv, ReadyMeansStarts, ReadyMeansUsable
<1>4. CASE Start
  <2>1. /\ phase = "down" /\ answer = NoAnswer /\ phase' = "policies"
        /\ UNCHANGED <<world, options, failure, server, vouched, caller, answer>>
    BY <1>4 DEF Start, IInv, Course
  <2>2. Typed' /\ Course' /\ Admitted'
    BY <2>1 DEF IInv, Typed, Starting, Course, Admitted
  <2>3. Vouching'
    BY <2>1 DEF IInv, Vouching
  <2> QED
    BY <2>1, <2>2, <2>3 DEF IInv, ReadyMeansStarts, ReadyMeansUsable
<1>5. CASE Exit
  <2>1. /\ phase' = "down" /\ failure' = "none" /\ server' = DenyAll
        /\ caller' = None /\ answer' = NoAnswer /\ UNCHANGED <<world, options, vouched>>
    BY <1>5 DEF Exit
  <2>2. Typed' /\ Course' /\ Admitted'
    BY <2>1 DEF IInv, Typed, Versions, Course, Admitted
  <2>3. Vouching'
    BY <2>1 DEF IInv, Vouching
  <2> QED
    BY <2>1, <2>2, <2>3 DEF IInv, ReadyMeansStarts, ReadyMeansUsable
<1> QED
  BY <1>1, <1>2, <1>3, <1>4, <1>5

\* What doctor looked at is not touched by a step that leaves the files and the
\* command line alone.
LEMMA StillVouched ==
    ASSUME Vouching, UNCHANGED <<world, options, vouched>>
    PROVE  Vouching'
BY DEF Vouching

\* A step of the start that keeps the rest keeps the answers, of which there
\* are none.
LEMMA NoAnswerYet ==
    ASSUME IInv, phase \in Starting, UNCHANGED <<options, vouched, caller, answer>>,
           Typed', Course', Vouching', ReadyMeansStarts'
    PROVE  IInv'
<1>1. answer' = NoAnswer
  BY DEF IInv, Course, Starting
<1> QED
  BY <1>1 DEF IInv, Admitted, ReadyMeansUsable

\* A start that fails, for a reason that doctor vouches against or cannot see.
LEMMA FailKeeps ==
    ASSUME IInv, phase \in Starting, UNCHANGED <<options, vouched, caller, answer, server>>,
           world' \in World, Vouching', NEW reason, reason # "none", Fail(reason),
           vouched => reason \in {"chmod", "host"}
    PROVE  IInv'
<1>1. phase' = "failed" /\ failure' = reason /\ answer' = NoAnswer
  BY DEF Fail, IInv, Course, Starting
<1>2. Typed'
  BY <1>1 DEF IInv, Typed
<1>3. Course'
  BY <1>1 DEF Course
<1>4. ReadyMeansStarts'
  BY <1>1 DEF ReadyMeansStarts
<1> QED
  BY <1>2, <1>3, <1>4, NoAnswerYet

\* main() fails only where doctor reports an error, but for what doctor does not see.
LEMMA BootKeeps ==
    ASSUME IInv, Boot
    PROVE  IInv'
<1>1. phase \in Starting => failure = "none" /\ answer = NoAnswer
  BY DEF Starting, IInv, Typed, Course
<1>2. vouched => InOrder(world, options)
  BY DEF IInv, Vouching
<1>3. world \in World
  BY DEF IInv, Typed
<1>4. CASE LoadPolicies
  <2>1. phase = "policies" /\ phase \in Starting
    BY <1>4 DEF LoadPolicies, Starting
  <2>2. UNCHANGED <<world, options, vouched, caller, answer>>
    BY <1>4 DEF LoadPolicies
  <2>3. Vouching'
    BY <2>2, StillVouched DEF IInv
  <2>4. CASE CommandsLoad /\ server' = LoadedPolicies /\ phase' = "audit" /\ UNCHANGED failure
    <3>1. server' \in Versions
      <4>1. CASE options.commandsFile
        <5>1. server' = world.commands /\ world.commands # Unusable
          BY <2>4, <4>1 DEF LoadedPolicies, CommandsLoad
        <5>2. world.commands \in {w.commands : w \in Worlds}
          BY <1>3 DEF World
        <5> QED
          BY <5>1, <5>2 DEF Versions
      <4>2. CASE ~options.commandsFile
        BY <2>4, <4>2 DEF LoadedPolicies, Versions
      <4> QED
        BY <4>1, <4>2
    <3>2. Accepted(server'.show) /\ Accepted(server'.config)
      <4>1. CASE options.commandsFile
        BY <2>4, <4>1 DEF LoadedPolicies, CommandsLoad, Accepted
      <4>2. CASE ~options.commandsFile
        BY <2>4, <4>2, DenyAllIsAccepted DEF LoadedPolicies
      <4> QED
        BY <4>1, <4>2
    <3>3. ~options.commandsFile => server' = DenyAll
      BY <2>4 DEF LoadedPolicies
    <3>4. failure' = "none"
      BY <1>1, <2>1, <2>4
    <3>5. Typed'
      BY <2>2, <2>4, <3>1, <3>4 DEF IInv, Typed, Starting
    <3>6. Course'
      BY <1>1, <2>1, <2>2, <2>4, <3>2, <3>3 DEF Course
    <3>7. ReadyMeansStarts'
      BY <3>4 DEF ReadyMeansStarts
    <3> QED
      BY <2>1, <2>2, <2>3, <3>5, <3>6, <3>7, NoAnswerYet
  <2>5. CASE ~CommandsLoad /\ Fail("policies") /\ UNCHANGED server
    <3>1. InOrder(world, options) => CommandsLoad
      BY Zenon DEF InOrder, CommandsLoad
    <3> QED
      BY <1>2, <1>3, <2>1, <2>2, <2>3, <2>5, <3>1, FailKeeps
  <2> QED
    BY <1>4, <2>4, <2>5 DEF LoadPolicies
<1>5. CASE OpenAuditLog
  <2>1. phase = "audit" /\ phase \in Starting
    BY <1>5 DEF OpenAuditLog, Starting
  <2>2. UNCHANGED <<server, options, vouched, caller, answer>>
    BY <1>5 DEF OpenAuditLog
  <2>3. PICK log \in Logs : /\ world' = [world EXCEPT !.log = log]
                            /\ log = "closed" => world.log = "closed"
    <3> DEFINE log == IF world.log = "absent" THEN "own" ELSE world.log
    <3>1. world' = [world EXCEPT !.log = log]
      BY <1>5 DEF OpenAuditLog
    <3>2. log \in Logs /\ (log = "closed" => world.log = "closed")
      BY <1>3 DEF World, Logs
    <3> QED
      BY <3>1, <3>2
  <2>4. /\ world' \in World /\ world'.inventory = world.inventory
        /\ world'.commands = world.commands /\ world'.key = world.key
        /\ world'.outputs = world.outputs /\ world'.token = world.token
        /\ world'.log = log
    BY <1>3, <2>3 DEF World
  <2>5. Vouching'
    <3>1. InOrder(world, options) => InOrder(world', options)
      <4>1. ASSUME InOrder(world, options) PROVE world.log # "closed" /\ world.outputs
        BY <4>1 DEF InOrder
      <4>2. ASSUME InOrder(world, options) PROVE world'.log # "closed" /\ world'.outputs
        BY <2>3, <2>4, <4>1, <4>2
      <4> QED
        BY <2>4, <4>2, Zenon DEF InOrder
    <3> QED
      BY <1>2, <2>2, <3>1 DEF Vouching
  <2>6. \/ world.log = "closed" /\ Fail("audit")
        \/ Fail("chmod")
        \/ phase' = "inventory" /\ UNCHANGED failure
    BY <1>5 DEF OpenAuditLog
  <2>7. CASE world.log = "closed" /\ Fail("audit")
    <3>1. ~vouched
      BY <1>2, <2>7 DEF InOrder
    <3> QED
      BY <2>1, <2>2, <2>4, <2>5, <2>7, <3>1, FailKeeps
  <2>8. CASE Fail("chmod")
    BY <2>1, <2>2, <2>4, <2>5, <2>8, FailKeeps
  <2>9. CASE phase' = "inventory" /\ UNCHANGED failure
    <3>1. failure' = "none"
      BY <1>1, <2>1, <2>9
    <3>2. Typed'
      BY <2>2, <2>4, <2>9, <3>1 DEF IInv, Typed, Starting
    <3>3. Course'
      BY <1>1, <2>1, <2>2, <2>4, <2>9 DEF IInv, Course
    <3> QED
      BY <2>1, <2>2, <2>5, <3>1, <3>2, <3>3, NoAnswerYet DEF ReadyMeansStarts
  <2> QED
    BY <2>6, <2>7, <2>8, <2>9
<1>6. ASSUME phase \in {"inventory", "app", "run"}, phase' \in {"app", "run", "up"},
             UNCHANGED <<world, options, server, failure, vouched, caller, answer>>, Course'
      PROVE  IInv'
  <2>1. failure' = "none" /\ phase \in Starting
    BY <1>1, <1>6 DEF Starting
  <2>2. Typed'
    BY <1>6, <2>1 DEF IInv, Typed, Starting
  <2>3. Vouching'
    BY <1>6, StillVouched DEF IInv
  <2> QED
    BY <1>6, <2>1, <2>2, <2>3, NoAnswerYet DEF ReadyMeansStarts
<1>7. CASE LoadConfigToml
  <2>1. phase = "inventory" /\ phase \in Starting
    BY <1>7 DEF LoadConfigToml, Starting
  <2>2. UNCHANGED <<world, options, server, vouched, caller, answer>>
    BY <1>7 DEF LoadConfigToml
  <2>3. \/ phase' \in {"app", "up"} /\ (phase' = "app" <=> options.sse) /\ UNCHANGED failure
        \/ ~DevicesParse(world.inventory, world.key) /\ Fail("inventory")
    BY <1>7 DEF LoadConfigToml
  <2>4. CASE phase' \in {"app", "up"} /\ (phase' = "app" <=> options.sse) /\ UNCHANGED failure
    <3>1. Course'
      BY <1>1, <2>1, <2>2, <2>4 DEF IInv, Course
    <3> QED
      BY <1>6, <2>1, <2>2, <2>4, <3>1
  <2>5. CASE ~DevicesParse(world.inventory, world.key) /\ Fail("inventory")
    <3>1. ~vouched
      BY <1>2, <2>5 DEF InOrder, InventoryLoads
    <3>2. Vouching'
      BY <2>2, StillVouched DEF IInv
    <3> QED
      BY <1>3, <2>1, <2>2, <2>5, <3>1, <3>2, FailKeeps
  <2> QED
    BY <2>3, <2>4, <2>5
<1>8. CASE BuildSseApp
  <2>1. phase = "app" /\ phase \in Starting
    BY <1>8 DEF BuildSseApp, Starting
  <2>2. UNCHANGED <<world, options, server, vouched, caller, answer>>
    BY <1>8 DEF BuildSseApp
  <2>3. options.sse
    BY <2>1 DEF IInv, Course
  <2>4. Vouching'
    BY <2>2, StillVouched DEF IInv
  <2>5. CASE options.bind # "inside" /\ Fail("bind")
    <3>1. ~vouched
      BY <1>2, <2>3, <2>5 DEF InOrder
    <3> QED
      BY <1>3, <2>1, <2>2, <2>4, <2>5, <3>1, FailKeeps
  <2>6. CASE ~(options.noAuth \/ world.token) /\ Fail("token")
    <3>1. ~vouched
      BY <1>2, <2>3, <2>6 DEF InOrder
    <3> QED
      BY <1>3, <2>1, <2>2, <2>4, <2>6, <3>1, FailKeeps
  <2>7. CASE /\ options.bind = "inside" /\ (options.noAuth \/ world.token)
             /\ phase' = "run" /\ UNCHANGED failure
    <3>1. Course'
      BY <1>1, <2>1, <2>2, <2>7 DEF IInv, Course
    <3> QED
      BY <1>6, <2>1, <2>2, <2>7, <3>1
  <2> QED
    BY <1>8, <2>5, <2>6, <2>7 DEF BuildSseApp
<1>9. CASE RunUvicorn
  <2>1. phase = "run" /\ phase \in Starting
    BY <1>9 DEF RunUvicorn, Starting
  <2>2. UNCHANGED <<world, options, server, vouched, caller, answer>>
    BY <1>9 DEF RunUvicorn
  <2>3. options.sse
    BY <2>1 DEF IInv, Course
  <2>4. Vouching'
    BY <2>2, StillVouched DEF IInv
  <2>5. CASE phase' = "up" /\ UNCHANGED failure
    <3>1. Course'
      BY <1>1, <2>1, <2>2, <2>5 DEF IInv, Course
    <3> QED
      BY <1>6, <2>1, <2>2, <2>5, <3>1
  <2>6. CASE Fail("host")
    BY <1>3, <2>1, <2>2, <2>4, <2>6, FailKeeps
  <2>7. CASE options.port \notin Ports /\ Fail("port")
    <3>1. ~vouched
      BY <1>2, <2>3, <2>7 DEF InOrder
    <3> QED
      BY <1>3, <2>1, <2>2, <2>4, <2>7, <3>1, FailKeeps
  <2> QED
    BY <1>9, <2>5, <2>6, <2>7 DEF RunUvicorn
<1> QED
  BY <1>4, <1>5, <1>7, <1>8, <1>9 DEF Boot

-----------------------------------------------------------------------------
\* BearerTokenMiddleware lets through what shows the token and comes from the
\* subnet; its 403 is for those who have shown the token.
LEMMA GateLets ==
    ASSUME NEW request \in Callers
    PROVE  /\ Gate(request) \in {"HTTP_401", "HTTP_403", "passed"}
           /\ Gate(request) = "passed" => request.address = "inside"
           /\ Gate(request) \in {"HTTP_403", "passed"} =>
                 options.noAuth \/ "right" \in Range(request.headers)
<1>1. request.headers \in Seq({"right", "wrong", "otherScheme"})
  BY ServerAssumption DEF Caller
<1>2. Authorized(request) => options.noAuth \/ "right" \in Range(request.headers)
  <2> SUFFICES ASSUME request.headers # <<>>, Head(request.headers) = "right"
               PROVE  "right" \in Range(request.headers)
    BY DEF Authorized
  <2>1. 1 \in DOMAIN request.headers /\ Head(request.headers) = request.headers[1]
    BY <1>1
  <2> QED
    BY <2>1 DEF Range
<1> QED
  BY <1>2 DEF Gate

\* A request or a call comes in.
LEMMA ArrivalKeeps ==
    ASSUME IInv, (\E r \in Callers : Knock(r)) \/ Call
    PROVE  IInv'
<1>1. UNCHANGED <<world, options, phase, failure, server, vouched>> /\ phase = "up"
  BY DEF Knock, Call
<1>2. Course' /\ ReadyMeansStarts'
  BY <1>1 DEF IInv, Course, ReadyMeansStarts
<1>3. Vouching'
  BY <1>1, StillVouched DEF IInv
<1>4. CASE \E r \in Callers : Knock(r)
  <2>1. PICK r \in Callers : Knock(r)
    BY <1>4
  <2>2. caller' = r /\ answer' = [tool |-> "http", code |-> Gate(r)]
    BY <2>1 DEF Knock
  <2>3. answer'.tool = "http" /\ answer'.code = Gate(r)
    BY <2>2
  <2>4. answer'.code \in {"HTTP_401", "HTTP_403", "passed"}
    BY <2>3, GateLets
  <2>5. Typed'
    BY <1>1, <2>2, <2>3, <2>4 DEF IInv, Typed, Codes
  <2>6. Admitted'
    BY <1>1, <2>2, <2>3, GateLets DEF Admitted, ShowedToken, Tools
  <2>7. ReadyMeansUsable'
    BY <2>4 DEF ReadyMeansUsable
  <2> QED
    BY <1>2, <1>3, <2>5, <2>6, <2>7 DEF IInv
<1>5. CASE Call
  <2>1. /\ answer' = [tool |-> "stdio", code |-> "passed"] /\ caller' = caller
        /\ ~options.sse
    BY <1>5 DEF Call
  <2>2. Typed'
    BY <1>1, <2>1 DEF IInv, Typed, Codes
  <2>3. Admitted' /\ ReadyMeansUsable'
    BY <1>1, <2>1 DEF Admitted, ReadyMeansUsable
  <2> QED
    BY <1>2, <1>3, <2>2, <2>3 DEF IInv
<1> QED
  BY <1>4, <1>5

\* An inventory that doctor found in order can be read and described, and every
\* group in it, as well as every device, is a target.
LEMMA VouchedInventory ==
    ASSUME InOrder(world, options)
    PROVE  /\ Loads /\ Discovers
           /\ \A target \in {All} \cup DeviceNames(world.inventory)
                                  \cup DOMAIN world.inventory.groups :
                 Resolves(world.inventory, target)
<1>1. Loads /\ Discovers
  BY DEF InOrder, Loads, Discovers
<1>2. \A target \in DOMAIN world.inventory.groups : Resolves(world.inventory, target)
  BY DEF InOrder, Describable
<1> QED
  BY <1>1, <1>2 DEF Resolves

Bad == {"INVENTORY_UNAVAILABLE", "TARGET_NOT_FOUND", "UNEXPECTED"}

\* What the tools answer.
LEMMA ToolAnswers ==
    ASSUME Tool, options \in Options
    PROVE  /\ Serving
           /\ UNCHANGED <<world, options, phase, failure, server, vouched, caller>>
           /\ answer'.tool \in Tools /\ answer'.code \in Codes \ {"passed", "HTTP_403"}
           /\ InOrder(world, options) /\ answer'.code \in Bad =>
                 /\ answer'.tool \in {"run", "outputs"}
                 /\ answer'.target \notin {All} \cup DeviceNames(world.inventory)
                                             \cup DOMAIN world.inventory.groups
<1>1. CASE ListDevices
  <2>1. PICK code, list, names :
            /\ Tell(Reply("devices", code, list), names) /\ Serving
            /\ code = "OK" \/ (code = "INVENTORY_UNAVAILABLE" /\ ~Discovers)
    BY <1>1, Zenon DEF ListDevices
  <2> QED
    BY <2>1, VouchedInventory DEF Tell, Reply, Tools, Codes, Bad
<1>2. CASE ListGroups
  <2>1. PICK code, names :
            /\ Tell(Reply("groups", code, <<>>), names) /\ Serving
            /\ code = "OK" \/ (code = "INVENTORY_UNAVAILABLE" /\ ~Discovers)
    BY <1>2, Zenon DEF ListGroups
  <2> QED
    BY <2>1, VouchedInventory DEF Tell, Reply, Tools, Codes, Bad
<1>3. ASSUME NEW query \in Queries, NEW limit \in Limits, FindNetworkDevices(query, limit)
      PROVE  /\ Serving
             /\ UNCHANGED <<world, options, phase, failure, server, vouched, caller>>
             /\ answer'.tool \in Tools /\ answer'.code \in Codes \ {"passed", "HTTP_403"}
             /\ InOrder(world, options) => answer'.code \notin Bad
  <2>1. CASE \E names : Tell(Reply("find", "INVALID_SEARCH_LIMIT", <<>>), names)
    BY <1>3, <2>1 DEF FindNetworkDevices, Tell, Reply, Tools, Codes, Bad
  <2>2. CASE ~Discovers /\ \E names : Tell(Reply("find", "INVENTORY_UNAVAILABLE", <<>>), names)
    BY <1>3, <2>2, VouchedInventory DEF FindNetworkDevices, Tell, Reply, Tools, Codes, Bad
  <2>3. CASE \E names, matches : Tell(Page(query, matches, limit), names)
    BY <1>3, <2>3 DEF FindNetworkDevices, Tell, Page, Tools, Codes, Bad
  <2> QED
    BY <1>3, <2>1, <2>2, <2>3, Zenon DEF FindNetworkDevices
<1>4. ASSUME NEW target \in Names, SendCommandToGroup(target)
      PROVE  /\ Serving
             /\ UNCHANGED <<world, options, phase, failure, server, vouched, caller>>
             /\ answer'.tool = "run" /\ answer'.code \in Codes \ {"passed", "HTTP_403"}
             /\ answer'.target = target
             /\ answer'.code \in Bad =>
                   ~Loads \/ ~Resolves(world.inventory, target) \/ options.workers < 1
  <2>1. PICK code, names :
            /\ Tell(About(target, "run", code, names), shown) /\ Serving
            /\ code \in {"OK"} \cup Bad
            /\ code \in Bad =>
                  ~Loads \/ ~Resolves(world.inventory, target) \/ options.workers < 1
    BY <1>4 DEF SendCommandToGroup, Bad
  <2> QED
    BY <2>1 DEF Tell, About, Codes, Bad
<1>5. ASSUME NEW target \in Names, ListDeviceOutputs(target)
      PROVE  /\ Serving
             /\ UNCHANGED <<world, options, phase, failure, server, vouched, caller>>
             /\ answer'.tool = "outputs" /\ answer'.code \in Codes \ {"passed", "HTTP_403"}
             /\ answer'.target = target
             /\ answer'.code \in Bad => ~Loads \/ ~Resolves(world.inventory, target)
  <2>1. PICK code, names :
            /\ Tell(About(target, "outputs", code, names), shown) /\ Serving
            /\ code \in {"OK", "INVENTORY_UNAVAILABLE"} \cup Unlistable
            /\ code \in Bad => ~Loads \/ ~Resolves(world.inventory, target)
    BY <1>5 DEF ListDeviceOutputs, Bad, Unlistable
  <2> QED
    BY <2>1 DEF Tell, About, Codes, Bad, Unlistable
<1>6. CASE \E target \in Names : SendCommandToGroup(target) \/ ListDeviceOutputs(target)
  <2>1. PICK target \in Names : SendCommandToGroup(target) \/ ListDeviceOutputs(target)
    BY <1>6
  <2>2. InOrder(world, options) => ~(options.workers < 1)
    <3>1. options.workers \in Int
      BY ServerAssumption DEF CommandLine
    <3>2. InOrder(world, options) => options.workers >= 1
      BY DEF InOrder
    <3> QED
      BY <3>1, <3>2
  <2> QED
    BY <1>4, <1>5, <2>1, <2>2, VouchedInventory DEF Tools
<1> QED
  BY <1>1, <1>2, <1>3, <1>6 DEF Tool

\* An answer of a tool is given to whom the gate let through.
LEMMA ToolKeeps ==
    ASSUME IInv, Tool
    PROVE  IInv'
<1>1. options \in Options
  BY DEF IInv, Typed
<1>2. UNCHANGED <<world, options, phase, failure, server, vouched, caller>> /\ Serving
  BY <1>1, ToolAnswers
<1>3. answer'.tool \in Tools /\ answer'.code \in Codes \ {"passed", "HTTP_403"}
  BY <1>1, ToolAnswers
<1>4. Typed'
  BY <1>2, <1>3 DEF IInv, Typed
<1>5. Course' /\ ReadyMeansStarts'
  BY <1>2 DEF IInv, Course, ReadyMeansStarts, Serving
<1>6. Vouching'
  BY <1>2, StillVouched DEF IInv
<1>7. Admitted'
  <2>1. answer # NoAnswer /\ answer.code = "passed"
    BY <1>2 DEF Serving
  <2>2. options.sse => caller.address = "inside" /\ ShowedToken
    BY <2>1 DEF IInv, Admitted
  <2>3. ShowedToken => ShowedToken'
    BY <1>2 DEF ShowedToken
  <2> QED
    BY <1>2, <1>3, <2>2, <2>3 DEF Admitted
<1>8. ReadyMeansUsable'
  <2>1. vouched => InOrder(world, options)
    BY DEF IInv, Vouching
  <2>2. vouched /\ answer'.code \in Bad =>
          /\ answer'.tool \in {"run", "outputs"}
          /\ answer'.target \notin {All} \cup DeviceNames(world.inventory)
                                      \cup DOMAIN world.inventory.groups
    BY <1>1, <2>1, ToolAnswers
  <2> QED
    BY <1>2, <2>2 DEF ReadyMeansUsable, Bad
<1> QED
  BY <1>4, <1>5, <1>6, <1>7, <1>8 DEF IInv

\* What is always true of an operator, a server and its clients.
THEOREM Invariance == Spec => []IInv
<1>1. IInv /\ [Next]_vars => IInv'
  <2> SUFFICES ASSUME IInv, [Next]_vars PROVE IInv'
    OBVIOUS
  <2>1. CASE Next
    BY <2>1, OperatorKeeps, BootKeeps, ArrivalKeeps, ToolKeeps DEF Next
  <2>2. CASE UNCHANGED vars
    <3>1. UNCHANGED <<world, options, phase, failure, server, vouched, caller, answer>>
      BY <2>2 DEF vars
    <3>2. Vouching' /\ ReadyMeansStarts'
      BY <3>1, StillVouched DEF IInv, ReadyMeansStarts
    <3>3. Typed' /\ Course'
      BY <3>1 DEF IInv, Typed, Course
    <3>4. Admitted'
      BY <3>1 DEF IInv, Admitted, ShowedToken
    <3>5. ReadyMeansUsable'
      BY <3>1 DEF IInv, ReadyMeansUsable
    <3> QED
      BY <3>2, <3>3, <3>4, <3>5 DEF IInv
  <2> QED
    BY <2>1, <2>2
<1> QED
  BY <1>1, StartsRight, PTL DEF Spec

\* A start that doctor found in order fails only for what doctor cannot see,
\* whatever the files, the environment and the command line.
THEOREM ReadyMeansStartsHolds == Spec => []ReadyMeansStarts
<1>1. IInv => ReadyMeansStarts
  BY DEF IInv
<1> QED
  BY <1>1, Invariance, PTL

\* And then every tool reads the inventory, every name in it is a target and the
\* pool of a group call opens.
THEOREM ReadyMeansUsableHolds == Spec => []ReadyMeansUsable
<1>1. IInv => ReadyMeansUsable
  BY DEF IInv
<1> QED
  BY <1>1, Invariance, PTL

\* A server that is up works on the policies of one version of the commands file
\* that was accepted whole, and on SSE inside its subnets and behind its token.
THEOREM RunsOnlyAsConfiguredHolds == Spec => []RunsOnlyAsConfigured
<1>1. IInv => RunsOnlyAsConfigured
  <2> SUFFICES ASSUME IInv, phase = "up" PROVE RunsOnlyAsConfigured
    BY DEF RunsOnlyAsConfigured
  <2>1. server \in Versions
    BY DEF IInv, Typed
  <2>2. Accepted(server.show) /\ Accepted(server.config)
        /\ (~options.commandsFile => server = DenyAll)
        /\ (options.sse => options.bind = "inside" /\ (options.noAuth \/ world.token))
    BY DEF IInv, Course
  <2> QED
    BY <2>1, <2>2 DEF RunsOnlyAsConfigured, Accepted
<1> QED
  BY <1>1, Invariance, PTL

\* Over HTTP, tools answer only requests from inside that show the token, and
\* who does not show it is not told whether its address would do.
THEOREM GateIsTightHolds == Spec => []GateIsTight
<1>1. IInv => GateIsTight
  BY DEF IInv, Admitted, ShowedToken, GateIsTight
<1> QED
  BY <1>1, Invariance, PTL
-----------------------------------------------------------------------------
(* What clients are shown of the inventory. *)

\* A name that was shown is a target, and shown with the devices it stands for.
ShownRight ==
    \A n \in DOMAIN shown :
        /\ n \in Names /\ Discovers /\ Resolves(world.inventory, n)
        /\ shown[n] = Range(GetDeviceNames(world.inventory, n))

\* What an answer says of the inventory as it is: groups with the members the
\* file lists, targets with the devices they stand for, a page of the matches.
AnswerRight ==
    /\ answer = Reply("groups", "OK", <<>>) =>
          shown = [g \in DOMAIN world.inventory.groups |-> Range(world.inventory.groups[g])]
    /\ answer.tool \in {"run", "outputs"} =>
          /\ IsInjective(answer.names)
          /\ answer.target \in DOMAIN shown =>
                \/ answer.code = "OK" /\ Range(answer.names) = shown[answer.target]
                \/ answer.code = "UNEXPECTED" /\ options.workers < 1
                \/ answer.tool = "outputs" /\ answer.code \in Unlistable
    /\ answer.tool = "find" /\ answer.code = "OK" =>
          /\ Discovers
          /\ \E query \in Queries, limit \in 1..100 :
                answer = Page(query, FindDevices(world.inventory, query), limit)

\* An inventory that loads is a document; a discovery tool can describe it too.
LEMMA WhatLoads ==
    ASSUME world \in World, Loads
    PROVE  /\ Loaded(world.inventory) /\ All \notin DeviceNames(world.inventory)
           /\ Discovers => Describable(world.inventory)
<1>1. InventoryLoads(world.inventory, world.key)
  BY DEF Loads
<1>2. world.inventory # Unreadable /\ world.inventory.groups # NoTable
  BY <1>1 DEF InventoryLoads, DevicesParse
<1>3. \E w \in Worlds : world.inventory = w.inventory
  BY DEF World
<1>4. All \notin DeviceNames(world.inventory)
  BY <1>1 DEF InventoryLoads, DevicesParse, DeviceNames
<1> QED
  BY <1>2, <1>3, <1>4, ServerAssumption DEF Loaded, Discovers

\* As long as the inventory, the key and the command line stay as they are, and
\* nothing more is shown, an answer stays right.
LEMMA StaysRight ==
    ASSUME ShownRight, AnswerRight, shown' = shown, answer' = answer,
           world'.inventory = world.inventory, world'.key = world.key,
           options' = options \/ answer = NoAnswer
    PROVE  ShownRight' /\ AnswerRight'
<1>1. Discovers' <=> Discovers
  BY DEF Discovers, Loads
<1>2. ShownRight'
  BY <1>1 DEF ShownRight
<1>3. CASE answer = NoAnswer
  <2>1. answer'.tool = "none"
    BY <1>3 DEF NoAnswer
  <2> QED
    BY <1>2, <2>1 DEF AnswerRight, Reply
<1>4. CASE options' = options
  <2> DEFINE doc == world.inventory
  <2>1. answer = Reply("groups", "OK", <<>>) =>
           shown = [g \in DOMAIN doc.groups |-> Range(doc.groups[g])]
    BY DEF AnswerRight
  <2>2. answer.tool \in {"run", "outputs"} =>
          /\ IsInjective(answer.names)
          /\ answer.target \in DOMAIN shown =>
                \/ answer.code = "OK" /\ Range(answer.names) = shown[answer.target]
                \/ answer.code = "UNEXPECTED" /\ options.workers < 1
                \/ answer.tool = "outputs" /\ answer.code \in Unlistable
    BY DEF AnswerRight
  <2>3. answer.tool = "find" /\ answer.code = "OK" =>
          /\ Discovers'
          /\ \E query \in Queries, limit \in 1..100 :
                answer = Page(query, FindDevices(doc, query), limit)
    BY <1>1 DEF AnswerRight
  <2>4. doc = world'.inventory
    OBVIOUS
  <2> HIDE DEF doc
  <2> QED
    BY <1>2, <1>4, <2>1, <2>2, <2>3, <2>4, Zenon DEF AnswerRight
<1> QED
  BY <1>2, <1>3, <1>4

\* Everything but the tools: what was shown stays or is forgotten.
LEMMA OthersKeepRight ==
    ASSUME IInv, ShownRight, AnswerRight,
           \/ EditWorld \/ EditOptions \/ Doctor \/ Start \/ Boot \/ Exit
           \/ (\E r \in Callers : Knock(r)) \/ Call
    PROVE  ShownRight' /\ AnswerRight'
<1>1. CASE EditWorld \/ Exit
  <2>1. shown' = <<>> /\ answer' = NoAnswer
    BY <1>1 DEF EditWorld, Exit
  <2>2. DOMAIN shown' = {}
    BY <2>1
  <2>3. answer'.tool = "none"
    BY <2>1 DEF NoAnswer
  <2> QED
    BY <2>2, <2>3 DEF ShownRight, AnswerRight, Reply
<1>2. CASE EditOptions
  <2>1. answer = NoAnswer /\ UNCHANGED <<world, shown, answer>>
    BY <1>2 DEF EditOptions, IInv, Course
  <2> QED
    BY <2>1, StaysRight
<1>3. CASE Doctor \/ Start \/ (Boot /\ ~OpenAuditLog)
  <2>1. UNCHANGED <<world, options, shown, answer>>
    <3>1. (Doctor \/ Start \/ LoadPolicies) => UNCHANGED <<world, options, shown, answer>>
      BY Zenon DEF Doctor, Start, LoadPolicies
    <3>2. (LoadConfigToml \/ BuildSseApp \/ RunUvicorn)
             => UNCHANGED <<world, options, shown, answer>>
      BY Zenon DEF LoadConfigToml, BuildSseApp, RunUvicorn
    <3> QED
      BY <1>3, <3>1, <3>2 DEF Boot
  <2> QED
    BY <2>1, StaysRight
<1>4. CASE OpenAuditLog
  <2>1. UNCHANGED <<options, shown, answer>>
    BY <1>4, Zenon DEF OpenAuditLog
  <2>2. \E log : world' = [world EXCEPT !.log = log]
    BY <1>4 DEF OpenAuditLog
  <2>3. world'.inventory = world.inventory /\ world'.key = world.key
    BY <2>2 DEF IInv, Typed, World
  <2> QED
    BY <2>1, <2>3, StaysRight
<1>5. CASE (\E r \in Callers : Knock(r)) \/ Call
  <2>1. /\ UNCHANGED <<world, options, shown>>
        /\ answer'.tool \in {"http", "stdio"}
    BY <1>5 DEF Knock, Call
  <2>2. ShownRight'
    BY <2>1 DEF ShownRight, Discovers, Loads
  <2> QED
    BY <2>1, <2>2 DEF AnswerRight, Reply
<1> QED
  BY <1>1, <1>2, <1>3, <1>4, <1>5

\* A name is shown by list_devices with the devices it stands for as a target.
LEMMA DevicesShowTargets ==
    ASSUME NEW doc, Loaded(doc), Describable(doc), All \notin DeviceNames(doc)
    PROVE  LET names == ShownIn(DescribeDevices(doc))
           IN  \A n \in DOMAIN names : /\ n \in Names /\ Resolves(doc, n)
                                       /\ names[n] = Range(GetDeviceNames(doc, n))
<1> DEFINE all     == DescribeDevices(doc)
           devices == {d.name : d \in Range(all)}
           groups  == UNION {d.groups : d \in Range(all)}
           names   == ShownIn(all)
           holds(n) == {d.name : d \in {x \in Range(all) : n \in x.groups}}
<1>1. /\ DOMAIN all = DOMAIN doc.entries
      /\ \A i \in DOMAIN all :
            /\ all[i].name = doc.entries[i].name
            /\ all[i].groups = {h \in DOMAIN doc.groups :
                                  doc.entries[i].name \in Range(doc.groups[h])}
  BY Descriptions
<1>2. DeviceNames(doc) = {doc.entries[i].name : i \in DOMAIN doc.entries}
      /\ DeviceNames(doc) \subseteq Names
  BY DeviceNamesAre DEF Loaded
<1> HIDE DEF all
<1>3. \A d : d \in Range(all) <=> \E i \in DOMAIN all : d = all[i]
  BY DEF Range
<1>4. names = [n \in devices \cup groups |-> IF n \in devices THEN {n} ELSE holds(n)]
  BY DEF ShownIn
<1>5. devices = DeviceNames(doc)
  BY <1>1, <1>2, <1>3
<1>6. \A n \in groups : n \in DOMAIN doc.groups
  BY <1>1, <1>3
<1>7. \A n \in DOMAIN doc.groups : holds(n) = Range(doc.groups[n])
  <2> SUFFICES ASSUME NEW n \in DOMAIN doc.groups PROVE holds(n) = Range(doc.groups[n])
    OBVIOUS
  <2>1. holds(n) = {doc.entries[i].name :
                      i \in {j \in DOMAIN doc.entries :
                               doc.entries[j].name \in Range(doc.groups[n])}}
    BY <1>1, <1>3
  <2>2. Range(doc.groups[n]) \subseteq DeviceNames(doc)
    BY GroupStandsForMembers
  <2> QED
    BY <1>2, <2>1, <2>2
<1>8. \A n \in devices : /\ n \in Names /\ Resolves(doc, n)
                         /\ {n} = Range(GetDeviceNames(doc, n))
  <2> SUFFICES ASSUME NEW n \in devices
               PROVE  /\ n \in Names /\ Resolves(doc, n)
                      /\ {n} = Range(GetDeviceNames(doc, n))
    OBVIOUS
  <2>1. n \in DeviceNames(doc) /\ n # All /\ n \in Names
    BY <1>2, <1>5
  <2>2. GetDeviceNames(doc, n) = <<n>> /\ Resolves(doc, n)
    BY <2>1 DEF GetDeviceNames, Resolves
  <2>3. Range(<<n>>) = {n}
    BY DEF Range
  <2> QED
    BY <2>1, <2>2, <2>3
<1>9. \A n \in groups : /\ n \in Names /\ Resolves(doc, n)
                        /\ holds(n) = Range(GetDeviceNames(doc, n))
  BY <1>6, <1>7, GroupStandsForMembers, Members
<1> HIDE DEF devices, groups, names, holds
<1>10. \A n \in DOMAIN names : /\ n \in Names /\ Resolves(doc, n)
                               /\ names[n] = Range(GetDeviceNames(doc, n))
  BY <1>4, <1>8, <1>9
<1> QED
  BY <1>10 DEF names, all

\* A page says how many devices match, and names them all unless it is cut off.
LEMMA PageNames ==
    ASSUME NEW query, NEW matches, NEW limit \in Nat,
           Len(matches) \in Nat, DOMAIN matches = 1..Len(matches)
    PROVE  LET page == Page(query, matches, limit)
               all  == {matches[i].name : i \in DOMAIN matches}
           IN  /\ Range(page.names) \subseteq all
               /\ ~page.truncated => Range(page.names) = all
               /\ page.total = Len(matches) /\ (page.selection <=> Len(matches) > 1)
               /\ page.query = query
<1> DEFINE n    == Min({limit, Len(matches)})
           part == SubSeq(matches, 1, n)
           page == Page(query, matches, limit)
<1>1. n \in Nat /\ n <= Len(matches) /\ (limit >= Len(matches) => n = Len(matches))
  <2>1. \E x \in {limit, Len(matches)} : \A y \in {limit, Len(matches)} : x <= y
    OBVIOUS
  <2>2. n \in {limit, Len(matches)} /\ \A y \in {limit, Len(matches)} : n <= y
    BY <2>1 DEF Min
  <2> QED
    BY <2>2
<1>2. 1..n \subseteq DOMAIN matches /\ (limit >= Len(matches) => 1..n = DOMAIN matches)
  <2> DEFINE m == Len(matches)
  <2>1. m \in Nat /\ DOMAIN matches = 1..m
    OBVIOUS
  <2> HIDE DEF m, n
  <2>2. m \in Nat /\ n \in Nat /\ n <= m /\ (limit >= m => n = m)
    BY <1>1 DEF m
  <2>3. 1..n \subseteq 1..m
    BY <2>2
  <2> QED
    BY <2>1, <2>2, <2>3 DEF m
<1> HIDE DEF n
<1>3. part = [i \in 1..n |-> matches[i]]
  <2>1. \A i \in 1..n : matches[i] \in Range(matches)
    BY <1>2, Zenon DEF Range
  <2>2. /\ Len(part) = n /\ part \in Seq(Range(matches))
        /\ \A i \in 1..n : part[i] = matches[i]
    BY <1>1, <2>1, SubSeqProperties
  <2> QED
    BY <2>2, LenProperties
<1>4. page = [tool |-> "find", code |-> "OK", names |-> NamesOf(part), query |-> query,
              total |-> Len(matches), truncated |-> Len(matches) > limit,
              selection |-> Len(matches) > 1]
  BY DEF Page, n
<1> HIDE DEF part, page
<1>5. NamesOf(part) = [i \in 1..n |-> matches[i].name]
  BY <1>3 DEF NamesOf
<1>6. Range(page.names) = {matches[i].name : i \in 1..n}
  BY <1>4, <1>5 DEF Range
<1>7. ~page.truncated => 1..n = DOMAIN matches
  <2>1. page.truncated <=> Len(matches) > limit
    BY <1>4
  <2>2. Len(matches) > limit \/ limit >= Len(matches)
    OBVIOUS
  <2> QED
    BY <1>2, <2>1, <2>2, Zenon
<1>8. /\ page.total = Len(matches) /\ (page.selection <=> Len(matches) > 1)
      /\ page.query = query
  BY <1>4
<1> QED
  BY <1>2, <1>6, <1>7, <1>8, Zenon DEF page

\* A page names devices of the file, each of which is a target of its own.
LEMMA PageShowsTargets ==
    ASSUME world \in World, Discovers, NEW query, NEW limit \in 1..100
    PROVE  \A n \in Range(Page(query, FindDevices(world.inventory, query), limit).names) :
              /\ n \in Names /\ Resolves(world.inventory, n)
              /\ {n} = Range(GetDeviceNames(world.inventory, n))
<1> DEFINE doc   == world.inventory
           found == FindDevices(doc, query)
<1>1. Loaded(doc) /\ Describable(doc) /\ All \notin DeviceNames(doc)
  BY WhatLoads DEF Discovers
<1>2. /\ Len(found) \in Nat /\ DOMAIN found = 1..Len(found)
      /\ {found[i].name : i \in DOMAIN found} \subseteq DeviceNames(doc)
  BY <1>1, SearchFinds
<1>3. DeviceNames(doc) \subseteq Names
  BY <1>1, DeviceNamesAre DEF Loaded
<1>4. limit \in Nat
  OBVIOUS
<1> HIDE DEF doc, found
<1>5. Range(Page(query, found, limit).names) \subseteq DeviceNames(doc)
  <2>1. Range(Page(query, found, limit).names) \subseteq {found[i].name : i \in DOMAIN found}
    BY <1>2, <1>4, PageNames
  <2> QED
    BY <1>2, <2>1
<1>6. \A n \in DeviceNames(doc) : /\ n \in Names /\ Resolves(doc, n)
                                  /\ {n} = Range(GetDeviceNames(doc, n))
  <2> SUFFICES ASSUME NEW n \in DeviceNames(doc)
               PROVE  Resolves(doc, n) /\ {n} = Range(GetDeviceNames(doc, n))
    BY <1>3
  <2>1. GetDeviceNames(doc, n) = <<n>> /\ Resolves(doc, n)
    BY <1>1 DEF GetDeviceNames, Resolves
  <2>2. Range(<<n>>) = {n}
    BY DEF Range
  <2> QED
    BY <2>1, <2>2
<1> QED
  BY <1>5, <1>6 DEF doc, found

\* What a tool tells is all that changes.
LEMMA TellKeeps ==
    ASSUME NEW reply, NEW names, Tell(reply, names),
           \A n \in DOMAIN names :
              /\ n \in Names /\ Discovers /\ Resolves(world.inventory, n)
              /\ names[n] = Range(GetDeviceNames(world.inventory, n))
    PROVE  /\ answer' = reply /\ shown' = names /\ world' = world /\ options' = options
           /\ ShownRight'
<1>1. answer' = reply /\ shown' = names /\ UNCHANGED <<world, options>>
  BY DEF Tell
<1> QED
  BY <1>1, Zenon DEF ShownRight, Discovers, Loads

\* The discovery tools show names with the devices they stand for.
LEMMA DiscoveryKeepsRight ==
    ASSUME IInv, ShownRight, ListDevices \/ ListGroups
    PROVE  ShownRight' /\ AnswerRight'
<1> DEFINE doc == world.inventory
<1>1. world \in World
  BY DEF IInv, Typed
<1>2. Discovers => Loads
  BY DEF Discovers
<1>3. CASE ListDevices
  <2> DEFINE all == DescribeDevices(doc)
  <2>1. PICK code, list, names :
            /\ Tell(Reply("devices", code, list), names)
            /\ names = shown \/ (Discovers /\ names = ShownIn(all))
    BY <1>3, Zenon DEF ListDevices
  <2>2. Discovers => \A n \in DOMAIN ShownIn(all) :
           /\ n \in Names /\ Discovers /\ Resolves(doc, n)
           /\ ShownIn(all)[n] = Range(GetDeviceNames(doc, n))
    BY <1>1, <1>2, WhatLoads, DevicesShowTargets
  <2> HIDE DEF all, doc
  <2>3. \A n \in DOMAIN names : /\ n \in Names /\ Discovers /\ Resolves(doc, n)
                                /\ names[n] = Range(GetDeviceNames(doc, n))
    BY <2>1, <2>2 DEF ShownRight, doc
  <2>4. ShownRight' /\ answer' = Reply("devices", code, list)
    BY <2>1, <2>3, TellKeeps DEF doc
  <2>5. answer'.tool = "devices"
    BY <2>4 DEF Reply
  <2> QED
    BY <2>4, <2>5 DEF AnswerRight, Reply
<1>4. CASE ListGroups
  <2> DEFINE all    == DescribeGroups(doc)
             stands == [g \in DOMAIN all |-> Range(all[g])]
  <2>1. PICK code, names :
            /\ Tell(Reply("groups", code, <<>>), names)
            /\ \/ code # "OK" /\ names = shown
               \/ Discovers /\ names = stands
    BY <1>4 DEF ListGroups
  <2>2. Discovers =>
           /\ stands = [g \in DOMAIN doc.groups |-> Range(doc.groups[g])]
           /\ \A n \in DOMAIN stands : /\ n \in Names /\ Resolves(doc, n)
                                       /\ stands[n] = Range(GetDeviceNames(doc, n))
    <3> SUFFICES ASSUME Discovers
                 PROVE  /\ stands = [g \in DOMAIN doc.groups |-> Range(doc.groups[g])]
                        /\ \A n \in DOMAIN stands :
                              /\ n \in Names /\ Resolves(doc, n)
                              /\ stands[n] = Range(GetDeviceNames(doc, n))
      OBVIOUS
    <3>1. \A g \in DOMAIN doc.groups :
             /\ g \in Names /\ Resolves(doc, g)
             /\ Range(GetDeviceNames(doc, g)) = Range(doc.groups[g])
      BY <1>1, <1>2, WhatLoads, GroupStandsForMembers, Members
    <3>2. stands = [g \in DOMAIN doc.groups |-> Range(GetDeviceNames(doc, g))]
      BY DEF DescribeGroups
    <3> HIDE DEF doc, stands
    <3> QED
      BY <3>1, <3>2
  <2> HIDE DEF all, stands, doc
  <2>3. \A n \in DOMAIN names : /\ n \in Names /\ Discovers /\ Resolves(doc, n)
                                /\ names[n] = Range(GetDeviceNames(doc, n))
    BY <2>1, <2>2 DEF ShownRight, doc
  <2>4. /\ ShownRight' /\ answer' = Reply("groups", code, <<>>)
        /\ shown' = names /\ world' = world
    BY <2>1, <2>3, TellKeeps DEF doc
  <2>5. answer'.tool = "groups" /\ answer'.code = code
    BY <2>4 DEF Reply
  <2>6. code = "OK" => shown' = [g \in DOMAIN world'.inventory.groups |->
                                   Range(world'.inventory.groups[g])]
    BY <2>1, <2>2, <2>4 DEF doc
  <2>7. answer' = Reply("groups", "OK", <<>>) => code = "OK"
    BY <2>5 DEF Reply
  <2> QED
    BY <2>4, <2>5, <2>6, <2>7 DEF AnswerRight
<1> QED
  BY <1>3, <1>4

\* A search answers with a page of what it finds.
LEMMA SearchKeepsRight ==
    ASSUME IInv, ShownRight, NEW query \in Queries, NEW limit \in Limits,
           FindNetworkDevices(query, limit)
    PROVE  ShownRight' /\ AnswerRight'
<1> DEFINE page == Page(query, FindDevices(world.inventory, query), limit)
<1>1. CASE \E code \in {"INVALID_SEARCH_LIMIT", "INVENTORY_UNAVAILABLE"} :
              Tell(Reply("find", code, <<>>), shown)
  <2>1. PICK code \in {"INVALID_SEARCH_LIMIT", "INVENTORY_UNAVAILABLE"} :
            Tell(Reply("find", code, <<>>), shown)
    BY <1>1
  <2>2. ShownRight' /\ answer' = Reply("find", code, <<>>)
    BY <2>1, TellKeeps DEF ShownRight
  <2>3. answer'.tool = "find" /\ answer'.code # "OK"
    BY <2>2 DEF Reply
  <2> QED
    BY <2>2, <2>3 DEF AnswerRight, Reply
<1>2. CASE /\ limit \in 1..100 /\ Discovers
           /\ Tell(page, [n \in Range(page.names) |-> {n}])
  <2>1. world \in World
    BY DEF IInv, Typed
  <2>2. \A n \in Range(page.names) : /\ n \in Names /\ Resolves(world.inventory, n)
                                     /\ {n} = Range(GetDeviceNames(world.inventory, n))
    BY <1>2, <2>1, PageShowsTargets
  <2>3. page.tool = "find"
    BY DEF Page
  <2> HIDE DEF page
  <2>4. ShownRight' /\ answer' = page /\ world' = world
    BY <1>2, <2>2, TellKeeps
  <2>5. Discovers'
    BY <1>2, <2>4 DEF Tell, Discovers, Loads
  <2>6. answer'.tool = "find"
    BY <2>3, <2>4
  <2>7. answer' = Page(query, FindDevices(world'.inventory, query), limit)
    BY <2>4 DEF page
  <2>8. \E q \in Queries, l \in 1..100 :
           answer' = Page(q, FindDevices(world'.inventory, q), l)
    BY <1>2, <2>7, Zenon
  <2>9. answer' # Reply("groups", "OK", <<>>) /\ answer'.tool \notin {"run", "outputs"}
    BY <2>6 DEF Reply
  <2> QED
    BY <2>4, <2>5, <2>8, <2>9, Zenon DEF AnswerRight
<1> QED
  BY <1>1, <1>2, Zenon DEF FindNetworkDevices

\* A command, or a listing of outputs, goes to each device of its target once,
\* and where the target was shown, to the devices it was shown with.
LEMMA TargetsKeepRight ==
    ASSUME IInv, ShownRight, NEW target \in Names,
           SendCommandToGroup(target) \/ ListDeviceOutputs(target)
    PROVE  ShownRight' /\ AnswerRight'
<1> DEFINE doc == world.inventory
<1>1. PICK tool, code, names :
          /\ tool \in {"run", "outputs"}
          /\ Tell(About(target, tool, code, names), shown)
          /\ \/ /\ names = <<>> /\ code # "OK"
                /\ \/ ~Loads \/ ~Resolves(doc, target)
                   \/ code = "UNEXPECTED" /\ options.workers < 1
                   \/ tool = "outputs" /\ code \in Unlistable
             \/ /\ Loads /\ Resolves(doc, target)
                /\ code = "OK" /\ names = GetDeviceNames(doc, target)
  <2>1. CASE SendCommandToGroup(target)
    BY <2>1 DEF SendCommandToGroup
  <2>2. CASE ListDeviceOutputs(target)
    BY <2>2 DEF ListDeviceOutputs, Unlistable
  <2> QED
    BY <2>1, <2>2
<1>2. /\ ShownRight' /\ answer' = About(target, tool, code, names)
      /\ shown' = shown /\ options' = options
  BY <1>1, TellKeeps DEF ShownRight
<1>3. /\ answer'.tool = tool /\ tool \in {"run", "outputs"} /\ answer'.code = code
      /\ answer'.target = target /\ answer'.names = names
  BY <1>1, <1>2 DEF About
<1>4. IsInjective(names)
  <2>1. CASE names = <<>>
    BY <2>1 DEF IsInjective
  <2>2. CASE Loads /\ Resolves(doc, target) /\ names = GetDeviceNames(doc, target)
    BY <2>2, WhatLoads, TargetNamesOnce DEF IInv, Typed
  <2> QED
    BY <1>1, <2>1, <2>2
<1>5. target \in DOMAIN shown =>
         \/ code = "OK" /\ Range(names) = shown[target]
         \/ code = "UNEXPECTED" /\ options.workers < 1
         \/ tool = "outputs" /\ code \in Unlistable
  <2>1. target \in DOMAIN shown =>
           /\ Loads /\ Resolves(doc, target)
           /\ shown[target] = Range(GetDeviceNames(doc, target))
    BY DEF ShownRight, Discovers
  <2> HIDE DEF doc
  <2> QED
    BY <1>1, <2>1
<1>6. answer' # Reply("groups", "OK", <<>>) /\ answer'.tool # "find"
  BY <1>3 DEF Reply
<1> QED
  BY <1>2, <1>3, <1>4, <1>5, <1>6 DEF AnswerRight

\* What is always true, with what clients are shown and answered.
LookupInv == IInv /\ ShownRight /\ AnswerRight

THEOREM LookupInvariance == Spec => []LookupInv
<1>1. Init /\ IInv => LookupInv
  BY DEF Init, LookupInv, ShownRight, AnswerRight, NoAnswer, Reply
<1>2. LookupInv /\ IInv' /\ [Next]_vars => LookupInv'
  <2> SUFFICES ASSUME LookupInv, IInv', [Next]_vars PROVE ShownRight' /\ AnswerRight'
    BY DEF LookupInv
  <2>1. IInv /\ ShownRight /\ AnswerRight
    BY DEF LookupInv
  <2>2. CASE Tool
    BY <2>1, <2>2, DiscoveryKeepsRight, SearchKeepsRight, TargetsKeepRight DEF Tool
  <2>3. CASE UNCHANGED vars
    BY <2>1, <2>3, StaysRight DEF vars
  <2> QED
    BY <2>1, <2>2, <2>3, OthersKeepRight DEF Next
<1> QED
  BY <1>1, <1>2, Invariance, PTL DEF Spec

\* The types hold, and only names are ever shown, for names.
THEOREM TypeCorrect == Spec => []TypeOK
<1>1. LookupInv => TypeOK
  <2> SUFFICES ASSUME LookupInv PROVE TypeOK
    OBVIOUS
  <2>1. Typed
    BY DEF LookupInv, IInv
  <2>2. \A n \in DOMAIN shown : n \in Names /\ shown[n] \subseteq Names
    <3> SUFFICES ASSUME NEW n \in DOMAIN shown PROVE n \in Names /\ shown[n] \subseteq Names
      OBVIOUS
    <3>1. /\ n \in Names /\ Loads /\ Resolves(world.inventory, n)
          /\ shown[n] = Range(GetDeviceNames(world.inventory, n))
      BY DEF LookupInv, ShownRight, Discovers
    <3>2. Loaded(world.inventory)
      BY <2>1, <3>1, WhatLoads DEF Typed
    <3>3. shown[n] \subseteq DeviceNames(world.inventory)
      BY <3>1, <3>2, TargetNamesOnce
    <3> QED
      BY <3>1, <3>2, <3>3, DeviceNamesAre DEF Loaded
  <2> QED
    BY <2>1, <2>2 DEF Typed, TypeOK
<1> QED
  BY <1>1, LookupInvariance, PTL

\* Whatever the inventory and however it is edited: while it stays as it is, a
\* command to a name that was shown goes to exactly the devices it was shown
\* with, and a group is shown with what the file lists in it.
THEOREM ShownNamesRunHolds == Spec => []ShownNamesRun
<1>1. LookupInv => ShownNamesRun
  BY DEF LookupInv, AnswerRight, ShownNamesRun
<1> QED
  BY <1>1, LookupInvariance, PTL

\* A device is executed on once, however often a group lists it.
THEOREM EachTargetOnceHolds == Spec => []EachTargetOnce
<1>1. LookupInv => EachTargetOnce
  BY DEF LookupInv, AnswerRight, EachTargetOnce
<1> QED
  BY <1>1, LookupInvariance, PTL

\* The names of the devices that a search matches.
MatchNames(doc, query) ==
    {d.name : d \in {x \in Range(DescribeDevices(doc)) : Found(query, x)}}

\* The page of a search, over what it matches.
LEMMA PageOfMatches ==
    ASSUME world \in World, Discovers, NEW query, NEW limit \in 1..100, NEW page,
           page = Page(query, FindDevices(world.inventory, query), limit)
    PROVE  /\ page.query = query
           /\ ~page.selection => Cardinality(MatchNames(world.inventory, query)) <= 1
           /\ ~page.truncated => Range(page.names) = MatchNames(world.inventory, query)
           /\ page.total = Cardinality(MatchNames(world.inventory, query))
<1> DEFINE doc     == world.inventory
           found   == FindDevices(doc, query)
           matches == MatchNames(doc, query)
           all     == {found[i].name : i \in DOMAIN found}
           n       == Len(found)
<1>1. Loaded(doc) /\ Describable(doc)
  BY WhatLoads DEF Discovers
<1>2. /\ n \in Nat /\ DOMAIN found = 1..n
      /\ all = matches /\ Cardinality(matches) = n
  BY <1>1, SearchFinds DEF MatchNames
<1>3. limit \in Nat
  OBVIOUS
<1> HIDE DEF found, matches
<1>4. /\ ~page.truncated => Range(page.names) = all
      /\ page.total = n /\ (page.selection <=> n > 1)
      /\ page.query = query
  BY <1>2, <1>3, PageNames DEF found
<1> HIDE DEF all, n, doc
<1>5. ~page.selection => n <= 1
  BY <1>2, <1>4
<1> QED
  BY <1>2, <1>4, <1>5 DEF matches, doc

\* A search by a group finds exactly the devices that commands to the groups so
\* named go to, whatever the inventory, the folding and the stripping.
THEOREM SearchAgreesWithTargetsHolds == Spec => []SearchAgreesWithTargets
<1>1. LookupInv => SearchAgreesWithTargets
  <2> DEFINE doc   == world.inventory
             goals == UNION {Range(GetDeviceNames(doc, g)) : g \in Named(doc, answer.query.group)}
  <2> SUFFICES ASSUME LookupInv, SearchedGroup
               PROVE  Range(answer.names) = goals
    BY DEF SearchAgreesWithTargets
  <2>1. /\ answer.tool = "find" /\ answer.code = "OK" /\ ~answer.truncated
        /\ answer.query.group # None /\ Wanted(answer.query.needle) = Empty
        /\ answer.query.site = None /\ answer.query.tag = None
    BY DEF SearchedGroup
  <2>2. Discovers /\ world \in World
    BY <2>1 DEF LookupInv, AnswerRight, IInv, Typed
  <2>3. PICK query \in Queries, limit \in 1..100 :
            answer = Page(query, FindDevices(doc, query), limit)
    BY <2>1 DEF LookupInv, AnswerRight
  <2>4. Loaded(doc) /\ Describable(doc)
    BY <2>2, WhatLoads DEF Discovers
  <2>5. answer.query = query /\ Range(answer.names) = MatchNames(doc, query)
    BY <2>1, <2>2, <2>3, PageOfMatches
  <2>6. goals = UNION {Range(GetDeviceNames(doc, g)) :
                         g \in {h \in DOMAIN doc.groups : Fold[h] = Wanted(query.group)}}
    BY <2>5 DEF Named
  <2> HIDE DEF doc, goals
  <2>7. MatchNames(doc, query) = goals
    BY <2>1, <2>4, <2>5, <2>6, GroupSearch DEF MatchNames
  <2> QED
    BY <2>5, <2>7
<1> QED
  BY <1>1, LookupInvariance, PTL

\* A search that does not ask to select has one match at most, and one that does
\* not say it is cut off names every match, whatever the inventory.
THEOREM AmbiguityIsNeverHiddenHolds == Spec => []AmbiguityIsNeverHidden
<1>1. LookupInv => AmbiguityIsNeverHidden
  <2> DEFINE matches == MatchNames(world.inventory, answer.query)
  <2> SUFFICES ASSUME LookupInv, answer.tool = "find", answer.code = "OK"
               PROVE  /\ ~answer.selection => Cardinality(matches) <= 1
                      /\ ~answer.truncated => Range(answer.names) = matches
                      /\ answer.total = Cardinality(matches)
    BY DEF AmbiguityIsNeverHidden, MatchNames
  <2>1. Discovers /\ world \in World
    BY DEF LookupInv, AnswerRight, IInv, Typed
  <2>2. PICK query \in Queries, limit \in 1..100 :
            answer = Page(query, FindDevices(world.inventory, query), limit)
    BY DEF LookupInv, AnswerRight
  <2>3. /\ answer.query = query
        /\ ~answer.selection => Cardinality(MatchNames(world.inventory, query)) <= 1
        /\ ~answer.truncated => Range(answer.names) = MatchNames(world.inventory, query)
        /\ answer.total = Cardinality(MatchNames(world.inventory, query))
    BY <2>1, <2>2, PageOfMatches
  <2> QED
    BY <2>3
<1> QED
  BY <1>1, LookupInvariance, PTL
=============================================================================
