--------------------------- MODULE ExternalCommand ---------------------------
(***************************************************************************)
(* What the helper relies on when it runs an external command: the program *)
(* is executed once or not at all, it is over when the call returns, and   *)
(* the result does not claim what did not happen.  Exit, signal and        *)
(* timeout are facts of transport: they do not tell whether the program    *)
(* has had its effect.                                                     *)
(***************************************************************************)
VARIABLES
    call,      \* idle, or running
    program,   \* none: not executed (yet); running; ok, error or signal: over
    result     \* what the last call returned

commandVars == <<call, program, result>>

CommandInit == call = "idle" /\ program = "none" /\ result = "none"

BeginCall ==
    /\ call = "idle"
    /\ call' = "running" /\ program' = "none" /\ result' = "none"

\* The deadline had passed, or there were no resources.
RefuseCall ==
    /\ call = "idle"
    /\ program' = "none" /\ result' \in {"timeout", "system_failure"}
    /\ UNCHANGED call

Execute ==
    /\ call = "running" /\ program = "none"
    /\ program' = "running"
    /\ UNCHANGED <<call, result>>

ProgramEnds ==
    /\ call = "running" /\ program = "running"
    /\ program' \in {"ok", "error", "signal"}
    /\ UNCHANGED <<call, result>>

\* Fault: a call may return while its program still runs.
ReturnableEarly(r) == r \in {"timeout", "system_failure"} \/ program # "running"

Returnable(r) ==
    /\ program # "running"
    /\ \/ r \in {"timeout", "system_failure"}
       \/ r = "success" /\ program = "ok"
       \/ r = "nonzero_exit" /\ program = "error"
       \/ r = "signal" /\ program = "signal"
       \/ r = "exec_failure" /\ program = "none"

ReturnResult ==
    /\ call = "running"
    /\ \E r \in {"success", "nonzero_exit", "signal", "timeout", "exec_failure", "system_failure"} :
         Returnable(r) /\ result' = r
    /\ call' = "idle"
    /\ UNCHANGED program

CommandNext == BeginCall \/ RefuseCall \/ Execute \/ ProgramEnds \/ ReturnResult

CommandSpec == CommandInit /\ [][CommandNext]_commandVars
=============================================================================
