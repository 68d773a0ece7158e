-------------------------- MODULE AuditedExecution --------------------------
(***************************************************************************)
(* What every executing tool of the server promises a network: a call is   *)
(* judged once and the verdict recorded; only an allowed call may touch    *)
(* devices, those of one target set fixed before the first contact; each   *)
(* of them gets the command at most once; and once the call is closed      *)
(* (answered, or its process gone) nothing more happens on its behalf.     *)
(***************************************************************************)
EXTENDS Naturals

CONSTANT Devices

VARIABLES
    open,     \* a call is being served
    verdict,  \* what the audit log says of it
    targets,  \* the devices it may touch
    ran       \* per device, how often the command reached it

specVars == <<open, verdict, targets, ran>>

Start ==
    /\ open = FALSE
    /\ verdict = "none"
    /\ targets = {}
    /\ ran = [d \in Devices |-> 0]

Begin ==
    /\ ~open
    /\ open' = TRUE
    /\ verdict' = "none"
    /\ targets' = {}
    /\ ran' = [d \in Devices |-> 0]

\* A denied call is closed with its denial.
Judge ==
    /\ open
    /\ verdict = "none"
    /\ \/ verdict' = "ALLOWED" /\ open' = TRUE
       \/ verdict' = "DENIED" /\ open' = FALSE
    /\ UNCHANGED <<targets, ran>>

FixTargets ==
    /\ open
    /\ verdict = "ALLOWED"
    /\ targets = {}
    /\ \E T \in SUBSET Devices : targets' = T
    /\ UNCHANGED <<open, verdict, ran>>

Run(d) ==
    /\ open
    /\ d \in targets
    /\ ran[d] = 0
    /\ ran' = [ran EXCEPT ![d] = 1]
    /\ UNCHANGED <<open, verdict, targets>>

Close ==
    /\ open
    /\ open' = FALSE
    /\ targets' = {}
    /\ UNCHANGED <<verdict, ran>>

Step == Begin \/ Judge \/ FixTargets \/ (\E d \in Devices : Run(d)) \/ Close

Promise == Start /\ [][Step]_specVars
=============================================================================
