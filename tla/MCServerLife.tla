---------------------------- MODULE MCServerLife ----------------------------
(***************************************************************************)
(* Instances of ServerLife for TLC.                                        *)
(***************************************************************************)
EXTENDS ServerLife

\* Two devices and a missing one; groups of which only case or blanks tell two
\* apart; "r" occurs in the names of the devices and of one group.
MCNames  == {"r1", "r2", "r3", "core", "CORE", "edge", " edge ", "all"}
MCTerms  == {"", "Tokyo", "bgp", " bgp"}
MCTexts  == MCNames \cup MCTerms \cup {" ", "tokyo", "BGP ", "BGP", "bgp ", "r", " r "}
MCTrim   == [x \in MCTexts |->
                CASE x = " edge " -> "edge" [] x = " bgp" -> "bgp" [] x = "BGP " -> "BGP"
                  [] x = " "      -> ""     [] x = " r "  -> "r"   [] OTHER      -> x]
MCFold   == [x \in MCTexts |->
                CASE x = "CORE" -> "core" [] x = "Tokyo" -> "tokyo"
                  [] x = "BGP"  -> "bgp"  [] x = "BGP "  -> "bgp " [] OTHER -> x]
MCWithin == {<<"r", "r1">>, <<"r", "r2">>, <<"r", "core">>}

E(n, site, tags) == [name |-> n, sound |-> TRUE, sealed |-> None, keyFile |-> "none",
                     site |-> site, tags |-> tags]
R1 == E("r1", "Tokyo", {"bgp"})
R2 == E("r2", "", {})

Doc(entries, groups) == [defaults |-> TRUE, entries |-> entries, groups |-> groups]
NoGroups == [g \in {} |-> <<>>]
OneGroup(g, members) == [x \in {g} |-> members]
TwoGroups(g, one, h, other) == [x \in {g, h} |-> IF x = g THEN one ELSE other]

Good   == Doc(<<R1, R2>>, TwoGroups("core", <<"r2", "r1", "r2">>, "edge", <<"r1">>))
Sealed == Doc(<<[R1 EXCEPT !.sealed = "k1"], R2>>, OneGroup("core", <<"r1">>))

\* Sound documents, and every way for one not to be.
MCDocuments ==
    { Good, Sealed, Unreadable,
      Doc(<<R2, R1>>, TwoGroups("core", <<"r1">>, "CORE", <<"r2">>)),
      Doc(<<R1, E("r2", "", {" bgp"})>>, TwoGroups(" edge ", <<"r2">>, "edge", <<"r1">>)),
      Doc(<<>>, NoGroups),
      Doc(<<R1, R2>>, OneGroup("r1", <<"r2">>)),
      Doc(<<R1, R2>>, OneGroup("core", <<"r1", "r3">>)),
      Doc(<<R1>>, OneGroup("all", <<"r1">>)),
      Doc(<<R1, R2>>, NoTable),
      Doc(<<R1, E("all", "", {})>>, NoGroups),
      Doc(<<[R1 EXCEPT !.sound = FALSE]>>, NoGroups),
      Doc(<<[R1 EXCEPT !.keyFile = "missing"], R2>>, NoGroups),
      Doc(<<[R1 EXCEPT !.keyFile = "odd"]>>, NoGroups),
      [Good EXCEPT !.defaults = FALSE] }

MCFragments  == {"show", " ", "*", "shutdown", "clear"}
MCLower      == [f \in MCFragments |-> f]
Only(entry) == [allowed |-> {entry}, denied |-> {}]

MCCommandFiles ==
    { Unusable,
      [show |-> Only(<<"show", "*">>), config |-> NoPolicy],
      [show |-> Only(<<"show">>), config |-> Only(<<"clear">>)],
      [show |-> Only(<<"show">>), config |-> Only(<<"*">>)],
      [show |-> Only(<<" ">>), config |-> NoPolicy] }

Base == [inventory |-> Good, commands |-> [show |-> Only(<<"show", "*">>), config |-> NoPolicy],
         log |-> "absent", outputs |-> TRUE, key |-> None, token |-> TRUE]

\* One thing at a time unlike the base; every inventory without a key, and sealed
\* and open credentials with every key.
MCWorlds ==
    {[Base EXCEPT !.inventory = d] : d \in MCDocuments}
    \cup {[Base EXCEPT !.inventory = d, !.key = k] : d \in {Good, Sealed},
                                                    k \in {"k1", "k2", Malformed}}
    \cup {[Base EXCEPT !.commands = c] : c \in MCCommandFiles}
    \cup {[Base EXCEPT !.log = l] : l \in Logs}
    \cup {[Base EXCEPT !.outputs = FALSE], [Base EXCEPT !.token = FALSE]}

Stdio == [commandsFile |-> TRUE, sse |-> FALSE, noAuth |-> FALSE, bind |-> "inside",
          port |-> 10000, workers |-> 1, threshold |-> 0]
Sse   == [Stdio EXCEPT !.sse = TRUE]

MCOptions ==
    { Stdio, [Stdio EXCEPT !.commandsFile = FALSE], [Stdio EXCEPT !.workers = 0],
      [Stdio EXCEPT !.threshold = -1], [Stdio EXCEPT !.bind = "broken"],
      Sse, [Sse EXCEPT !.noAuth = TRUE], [Sse EXCEPT !.bind = "outside"],
      [Sse EXCEPT !.bind = "broken"], [Sse EXCEPT !.port = 0],
      [Sse EXCEPT !.port = 65535], [Sse EXCEPT !.port = 65536] }

AnyDevice == [needle |-> "", site |-> None, tag |-> None, group |-> None]
MCQueries == { AnyDevice, [AnyDevice EXCEPT !.needle = " r "],
               [AnyDevice EXCEPT !.site = " ", !.needle = "r"],
               [AnyDevice EXCEPT !.group = "CORE"], [AnyDevice EXCEPT !.group = "edge"],
               [AnyDevice EXCEPT !.group = " edge ", !.needle = " "],
               [AnyDevice EXCEPT !.tag = "BGP ", !.needle = "r"] }
MCLimits  == {0, 1, 100, 101}

Headers   == {<<>>, <<"right">>, <<"wrong">>, <<"otherScheme">>, <<"wrong", "right">>}
MCCallers == [headers : Headers, address : {"inside", "outside", "none"}]
=============================================================================
