--------------------------- MODULE SessionContract ---------------------------
(* What `netlaglab run` promises of one Session, without Supervisor, helper or *)
(* messages: the host is changed before the program runs and restored only    *)
(* after it has ended; the program runs once; the user is told one outcome,   *)
(* whose result is what became of the program, and which is called clean only *)
(* if the program's result is known and the host is as it was.                *)
EXTENDS WorkloadStatus

VARIABLES
    program,   \* not_run, running or over
    result,    \* how the program ended
    host,      \* untouched, changed, restored, or left with residue
    told       \* the outcome the user was told

contractVars == <<program, result, host, told>>

Untold == [told |-> FALSE, result |-> NoStatus, clean |-> FALSE]

\* What may be said of the program: nothing, that it could not be started, or
\* its own result.
Truthful(r) ==
    \/ r = NoStatus
    \/ r.kind = "start_failure" /\ program = "not_run"
    \/ r = result /\ program = "over"

ContractInit ==
    /\ program = "not_run"
    /\ result = NoStatus
    /\ host = "untouched"
    /\ told = Untold

ChangeHost ==
    /\ host = "untouched"
    /\ host' \in {"changed", "restored", "left"}   \* a failed change is rolled back
    /\ UNCHANGED <<program, result, told>>

RunProgram ==
    /\ program = "not_run" /\ host = "changed"
    /\ program' = "running"
    /\ UNCHANGED <<result, host, told>>

ProgramEnds ==
    /\ program = "running"
    /\ program' = "over"
    /\ result' \in ExitedStatuses \cup SignaledStatuses
    /\ UNCHANGED <<host, told>>

RestoreHost ==
    /\ host = "changed" /\ program # "running"
    /\ host' \in {"restored", "left"}
    /\ UNCHANGED <<program, result, told>>

Tell(r, clean) ==
    /\ told = Untold
    /\ Truthful(r)
    /\ clean => r # NoStatus /\ host \in {"untouched", "restored"}
    /\ told' = [told |-> TRUE, result |-> r, clean |-> clean]
    /\ UNCHANGED <<program, result, host>>

Results == {NoStatus} \cup ExitedStatuses \cup SignaledStatuses
           \cup [kind : {"start_failure"}, value : {126, 127}]

ContractNext ==
    \/ ChangeHost \/ RunProgram \/ ProgramEnds \/ RestoreHost
    \/ \E r \in Results, clean \in BOOLEAN : Tell(r, clean)

ContractSpec == ContractInit /\ [][ContractNext]_contractVars
=============================================================================
