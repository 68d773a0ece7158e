----------------------------- MODULE MCConfigSet -----------------------------
(***************************************************************************)
(* Instances of ConfigSet for TLC.                                         *)
(***************************************************************************)
EXTENDS ConfigSet

CONSTANTS r1, r2

\* "IP" is "ip" in capitals, "mtu" can go on as "mtus"; a tab is white space
\* and unsafe.
MCFragments == {"ip", "IP", "mtu", "s", "no", "shutdown", "SHUTDOWN", "clear",
                " ", "TAB", "*"}
MCSpaces == {" ", "TAB"}
MCUnsafe == {"TAB", "*"}
MCLower  == [f \in MCFragments |-> CASE f = "IP" -> "ip"
                                      [] f = "SHUTDOWN" -> "shutdown"
                                      [] OTHER -> f]

ip   == <<"ip">>
mtu  == <<"mtu">>
b    == <<" ">>
star == <<"*">>
shut == <<"shutdown">>

\* Each kind of entry, as itself, in capitals and between blanks; bare, double
\* and inner glob signs; a blank entry; an entry that no command can match.
MCEntries == { ip, <<"IP">> \o b \o mtu, b \o ip \o b \o star, ip \o star,
               ip \o b \o mtu \o star \o b, star, ip \o star \o star,
               ip \o star \o mtu, b, ip \o b \o b \o mtu,
               shut \o star }

Lists(allowed, denied) == [allowed |-> allowed, denied |-> denied]

MCPolicies ==
    {Lists({e}, {}) : e \in MCEntries}
    \cup {Lists({ip \o star}, {e}) : e \in MCEntries \ {shut \o star, ip, ip \o star}}
    \cup { Lists({}, {}),
           Lists({ip \o b \o star, shut, <<"clear">> \o star, <<"no">> \o b \o star},
                 {ip \o b \o mtu}) }

MCCommands ==
    { ip, b, ip \o b \o mtu, ip \o b \o b \o mtu,
      b \o ip \o b \o <<"mtu", "s">>, <<"IP">> \o b \o mtu \o b \o mtu,
      ip \o mtu, ip \o b \o star, <<"ip", "TAB", "mtu">>,
      shut, b \o <<"SHUTDOWN">> \o b \o mtu, <<"shutdown", "s">>,
      <<"clear", " ", "mtu">>, <<"no", " ", "shutdown">> }

\* Nothing, every line alone, and lines together with a denied one first or last.
MCBatches ==
    {<<>>} \cup {<<c>> : c \in MCCommands}
    \cup { <<ip, ip, ip \o b \o mtu>>, <<ip \o b \o b \o mtu, shut>>, <<shut, ip>> }

P(commit, save) == [commit |-> commit, save |-> save]

\* IOS saves, Junos commits, some do both, some neither; a version of the file
\* without r2, and one that gives r1 another platform.
MCInventories ==
    { [d \in {r1, r2} |-> IF d = r1 THEN P(FALSE, TRUE) ELSE P(TRUE, FALSE)],
      [d \in {r1} |-> P(TRUE, TRUE)],
      [d \in {r1, r2} |-> P(FALSE, FALSE)] }
=============================================================================
