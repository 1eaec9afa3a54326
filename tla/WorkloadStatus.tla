--------------------------- MODULE WorkloadStatus ---------------------------
(***************************************************************************)
(* How a Workload can end: WorkloadStatus of src/workload_process.hpp, the *)
(* two kinds of result the helper decodes from waitpid() and the           *)
(* Supervisor reports.                                                     *)
(***************************************************************************)
EXTENDS Naturals

CONSTANTS
    ExitCodes,   \* the exit codes a Workload may end with
    Signals      \* the signals a Workload may be killed by

ASSUME ExitCodesAssumption == ExitCodes \subseteq 0..255
ASSUME SignalsAssumption == Signals \subseteq 1..127

NoStatus == [kind |-> "none", value |-> 0]
ExitedStatuses == [kind : {"exited"}, value : ExitCodes]
SignaledStatuses == [kind : {"signaled"}, value : Signals]
=============================================================================
