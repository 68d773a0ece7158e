--------------------------- MODULE MCShowCommands ---------------------------
(***************************************************************************)
(* Instances of ShowCommands for TLC.                                      *)
(***************************************************************************)
EXTENDS ShowCommands

CONSTANTS r1, r2, error, core, h1, h2, show, reload

MCHost(a, b, c) == [d \in Devices |-> CASE d = r1 -> a [] d = r2 -> b [] OTHER -> c]

MCFile(devices, host, members, tabled) ==
    [devices |-> devices, host |-> host, groups |-> [g \in {core} |-> members],
     tabled |-> tabled]

\* Four versions of one file: complete; r1 and "error" re-addressed and "error"
\* no longer in the group; r2 gone but still a member of the group, which does
\* not resolve any more; `groups` no table.
MCInventories ==
    { MCFile(Devices, MCHost(h1, h1, h1), Devices, TRUE),
      MCFile(Devices, MCHost(h2, h1, h2), Devices \ {error}, TRUE),
      MCFile(Devices \ {r2}, MCHost(h1, h1, h2), Devices, TRUE),
      MCFile(Devices, MCHost(h1, h1, h1), {}, FALSE) }

MCCall(tool, target, command, save) ==
    [tool |-> tool, target |-> target, command |-> command, save |-> save]

\* A denied command, a device by itself through either tool, the group with and
\* without save_output, everything.
MCCalls ==
    { c \in { MCCall("single", r1, reload, FALSE), MCCall("single", r1, show, TRUE),
              MCCall("single", core, show, FALSE), MCCall("group", error, show, FALSE),
              MCCall("group", core, show, FALSE), MCCall("group", All, show, TRUE) } :
        c.target \in Targets }
=============================================================================
