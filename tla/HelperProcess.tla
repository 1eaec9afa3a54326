--------------------------- MODULE HelperProcess ----------------------------
(***************************************************************************)
(* The privileged helper from its READY frame to its exit: the tail of     *)
(* run_helper() and supervise_workload() of src/helper_main.cpp and        *)
(* run_helper_session() of src/helper_session.cpp, with the Workload       *)
(* process it owns and the socket that joins it to the Supervisor.         *)
(*                                                                         *)
(* The Network Environment appears by what the helper learns of it (see    *)
(* NetworkEnvironment for the transaction itself): it is prepared or not,  *)
(* and its cleanup succeeds or not.                                        *)
(***************************************************************************)
EXTENDS ControlPlane, WorkloadStatus

CONSTANTS
    Unsupported,   \* the settings the helper refuses (bandwidth)
    Completions,   \* what shaping may do to a change: applied, restored, unknown
    MaxFaults      \* how many system calls or processes may fail

ASSUME UnsupportedAssumption == Unsupported \subseteq Settings
ASSUME CompletionsAssumption == Completions \subseteq {"applied", "restored", "unknown"}
ASSUME MaxFaultsAssumption == MaxFaults \in Nat

VARIABLES
    (* the socket *)
    frames,     \* helper -> Supervisor, not yet read
    commands,   \* Supervisor -> helper, not yet read
    supOpen,    \* the Supervisor holds its end
    helperOpen, \* the helper holds its end
    (* the helper process *)
    helper,     \* where it is
    runtime,    \* HelperRuntimeConversation
    todo,       \* the accepted commands the for loop has still to carry out
    report,     \* the frame it is about to send, or its final result
    status,     \* supervision_status, or the failure's standing
    profile,    \* confirmed_ of the profile adapter, which is what is applied
    env,        \* the Network Environment
    (* the Workload process *)
    work,       \* none, running, terminated, killed, zombie, reaped
    ended,      \* how it ended
    faults      \* failures so far

socketVars == <<frames, commands, supOpen, helperOpen>>
workVars == <<work, ended>>
helperVars == <<helper, runtime, todo, report, status, profile, env>>

Alive == work \in {"running", "terminated", "killed"}
HelperDone == helper \in {"exited", "dead"}

HelperInit ==
    /\ frames = <<>> /\ commands = <<>> /\ supOpen = TRUE /\ helperOpen = TRUE
    /\ helper = "send_ready" /\ runtime = RuntimeInit /\ todo = <<>>
    /\ report = Frame("READY") /\ status = 0
    /\ profile = UnrestrictedProfile /\ env = "none"
    /\ work = "none" /\ ended = NoStatus
    /\ faults = 0

(* send_socket_text(): fails exactly when the other end is closed. *)
SendFrame(f) == frames' = IF supOpen THEN Append(frames, f) ELSE frames

Fault == faults < MaxFaults /\ faults' = faults + 1

-----------------------------------------------------------------------------
(* Process exit: the kernel closes the socket.  Between fork() and execve() *)
(* the Workload asks for SIGKILL at the helper's death (PR_SET_PDEATHSIG),  *)
(* then changes its group and user, which makes the kernel forget that: it  *)
(* outlives a helper that dies.  Only where the invoking user is root is    *)
(* nothing changed, and it is killed.                                       *)

OrphanedWorkload ==
    CASE Alive -> {work, "killed"}
      [] work = "zombie" -> {"reaped"}   \* by init
      [] OTHER -> {work}

Exit(code) ==
    /\ helper' = "exited"
    /\ status' = code
    /\ helperOpen' = FALSE

HelperDies ==
    /\ ~HelperDone
    /\ helper' = "dead"
    /\ helperOpen' = FALSE
    /\ work' \in OrphanedWorkload
    /\ UNCHANGED <<frames, commands, supOpen, runtime, todo, report, status,
                   profile, env, ended>>

-----------------------------------------------------------------------------
(* Start *)

SendReady ==
    /\ helper = "send_ready"
    /\ IF supOpen
         THEN SendFrame(report) /\ helper' = "read_start" /\ UNCHANGED <<status, helperOpen>>
         ELSE Exit(125) /\ UNCHANGED frames
    /\ UNCHANGED <<commands, supOpen, runtime, todo, report, profile, env, workVars, faults>>

(* Standard descriptors and START block; end of stream ends the helper. *)
ReadStart ==
    /\ helper = "read_start"
    /\ \/ /\ commands # <<>>
          /\ commands' = Tail(commands)
          /\ helper' = "prepare"
          /\ UNCHANGED <<status, helperOpen>>
       \/ /\ commands = <<>> /\ ~supOpen
          /\ Exit(125)
          /\ UNCHANGED commands
    /\ UNCHANGED <<frames, supOpen, runtime, todo, report, profile, env, workVars, faults>>

(* operations.prepare(); a failed preparation has been rolled back (or not) *)
(* before the failure is reported.                                          *)
Prepare ==
    /\ helper = "prepare"
    /\ \/ /\ env' = "prepared"
          /\ helper' = "launch"
          /\ UNCHANGED <<report, status, faults>>
       \/ /\ Fault
          /\ env' \in {"clean", "residual"}
          /\ status' \in {0, 125}
          /\ env' = "residual" => status' = 125
          /\ report' = ValueFrame("START_FAILED", 125)
          /\ helper' = "report_failed"
    /\ UNCHANGED <<socketVars, runtime, todo, profile, workVars>>

(* operations.launch(): a child that runs the program, or the code of what  *)
(* went wrong.                                                              *)
Launch ==
    /\ helper = "launch"
    /\ \/ /\ work' = "running"
          /\ helper' = "report_active"
          /\ UNCHANGED <<report, faults>>
       \/ /\ Fault
          /\ \E code \in {125, 126, 127} : report' = ValueFrame("START_FAILED", code)
          /\ helper' = "report_failed"
          /\ UNCHANGED work
    /\ UNCHANGED <<socketVars, runtime, todo, status, profile, env, ended>>

ReportFailed ==
    /\ helper = "report_failed"
    /\ SendFrame(report)
    /\ status' = IF supOpen THEN status ELSE 125
    /\ helper' = IF env = "prepared" THEN "cleanup" ELSE "report_cleanup"
    /\ report' = Frame(IF status = 0 THEN "CLEANUP_OK" ELSE "CLEANUP_FAILED")
    /\ UNCHANGED <<commands, supOpen, helperOpen, runtime, todo, profile, env, workVars, faults>>

ReportActive ==
    /\ helper = "report_active"
    /\ SendFrame(Frame("ACTIVE"))
    /\ helper' = IF supOpen THEN "poll_workload" ELSE "stop_workload"
    /\ status' = IF supOpen THEN 0 ELSE 125
    /\ UNCHANGED <<commands, supOpen, helperOpen, runtime, todo, report, profile, env,
                   workVars, faults>>

-----------------------------------------------------------------------------
(* supervise_workload() *)

(* workload.poll(): a finished Workload is reaped and its status is the     *)
(* last thing the loop sends.                                               *)
PollWorkload ==
    /\ helper = "poll_workload"
    /\ \/ /\ work = "zombie"
          /\ work' = "reaped"
          /\ SendFrame(ValueFrame(IF ended.kind = "exited" THEN "WORKLOAD_EXITED"
                                  ELSE "WORKLOAD_SIGNALED", ended.value))
          /\ runtime' = [runtime EXCEPT !.finished = TRUE, !.pending = NoChange]
          /\ status' = IF supOpen THEN 0 ELSE 125
          /\ helper' = "cleanup"
          /\ UNCHANGED faults
       \/ /\ Alive
          /\ helper' = "poll_supervisor"
          /\ UNCHANGED <<frames, runtime, status, work, faults>>
       \/ /\ Fault      \* waitpid() failed
          /\ helper' = "stop_workload"
          /\ status' = 125
          /\ UNCHANGED <<frames, runtime, work>>
    /\ UNCHANGED <<commands, supOpen, helperOpen, todo, report, profile, env, ended>>

\* Fault: it is ignored.
IgnoreLoss == helper' = "poll_workload" /\ UNCHANGED status

(* A Supervisor that closed its end has been lost. *)
LoseSupervisor == helper' = "stop_workload" /\ status' = 125

(* poll() and one read of everything the Supervisor has written.  The 100   *)
(* ms timeout matters only when the Workload has ended meanwhile.           *)
PollSupervisor ==
    /\ helper = "poll_supervisor"
    /\ LET received == ReceiveCommands(runtime, commands)
       IN  \/ /\ commands # <<>>
              /\ commands' = <<>>
              /\ runtime' = received.h
              /\ IF received.h.valid
                   THEN /\ todo' = received.commands
                        /\ helper' = "commands"
                        /\ UNCHANGED <<frames, status>>
                   ELSE /\ SendFrame(Frame("ERROR INVALID_RUNTIME_COMMAND"))
                        /\ helper' = "stop_workload"
                        /\ status' = 125
                        /\ UNCHANGED todo
           \/ /\ commands = <<>> /\ ~supOpen
              /\ LoseSupervisor
              /\ UNCHANGED <<frames, commands, runtime, todo>>
           \/ /\ commands = <<>> /\ supOpen /\ work = "zombie"
              /\ helper' = "poll_workload"
              /\ UNCHANGED <<frames, commands, runtime, todo, status>>
    /\ UNCHANGED <<supOpen, helperOpen, report, profile, env, workVars, faults>>

(* NetworkEnvironmentProfileChangeAdapter::apply(): what may come of it.    *)
(* An unsupported setting is refused, a change that changes nothing is      *)
(* confirmed without being applied.                                         *)
Outcomes(change) ==
    IF change.setting \in Unsupported THEN {"restored"}
    ELSE IF ApplyProfileChange(profile, change) = profile THEN {"applied"}
    ELSE Completions

(* The loop over the accepted commands. *)
CarryOutChange ==
    /\ helper = "commands" /\ todo # <<>> /\ Head(todo).change # NoChange
    /\ \E completion \in Outcomes(Head(todo).change) :
         LET done == CompleteProfileChange(runtime, completion)
         IN  /\ runtime' = done.h
             /\ profile' = IF completion = "applied"
                             THEN ApplyProfileChange(profile, Head(todo).change)
                             ELSE profile
             /\ SendFrame(done.reply)
    /\ todo' = IF supOpen THEN Tail(todo) ELSE <<>>
    /\ helper' = IF supOpen THEN "commands" ELSE "stop_workload"
    /\ status' = IF supOpen THEN status ELSE 125
    /\ UNCHANGED <<commands, supOpen, helperOpen, report, env, workVars, faults>>

CarryOutStop ==
    /\ helper = "commands" /\ todo # <<>> /\ Head(todo).change = NoChange
    /\ \/ /\ work' = CASE ~Alive -> work
                       [] Alive /\ Head(todo).type = "KILL" -> "killed"
                       [] Alive /\ Head(todo).type # "KILL" ->
                             IF work = "killed" THEN work ELSE "terminated"
          /\ todo' = Tail(todo)
          /\ UNCHANGED <<frames, helper, status, faults>>
       \/ /\ Fault      \* kill() failed
          /\ SendFrame(Frame("ERROR STOP_FAILED"))
          /\ todo' = <<>>
          /\ helper' = "stop_workload"
          /\ status' = 125
          /\ UNCHANGED work
    /\ UNCHANGED <<commands, supOpen, helperOpen, runtime, report, profile, env, ended>>

CommandsDone ==
    /\ helper = "commands" /\ todo = <<>>
    /\ helper' = "poll_workload"
    /\ UNCHANGED <<socketVars, runtime, todo, report, status, profile, env, workVars, faults>>

(* stop_after_supervisor_loss(): SIGTERM, a grace period, SIGKILL, and the  *)
(* Workload is reaped in every case.                                        *)
StopWorkload ==
    /\ helper = "stop_workload"
    /\ work' = IF work = "running" THEN "terminated" ELSE work
    /\ helper' = "stop_grace"
    /\ UNCHANGED <<socketVars, runtime, todo, report, status, profile, env, ended, faults>>

\* Fault: SIGKILL is taken for the end of the Workload.
StopGraceUnreaped ==
    /\ helper = "stop_grace"
    /\ \/ work = "zombie" /\ work' = "reaped"
       \/ work = "terminated" /\ work' = "killed"
    /\ helper' = "cleanup"
    /\ UNCHANGED <<socketVars, runtime, todo, report, status, profile, env, ended, faults>>

StopGrace ==
    /\ helper = "stop_grace"
    /\ \/ /\ work = "zombie"
          /\ work' = "reaped"
          /\ helper' = "cleanup"
       \/ /\ work = "terminated"
          /\ work' = "killed"
          /\ UNCHANGED helper
    /\ UNCHANGED <<socketVars, runtime, todo, report, status, profile, env, ended, faults>>

-----------------------------------------------------------------------------
\* Fault: what the cleanup left behind is not reported.
CleanupHushed ==
    /\ helper = "cleanup"
    /\ env' \in {"clean", "residual"}
    /\ report' = Frame("CLEANUP_OK")
    /\ helper' = "report_cleanup"
    /\ UNCHANGED <<socketVars, runtime, todo, status, profile, workVars, faults>>

(* cleanup_prepared(): a failure is reported even if the retry removed      *)
(* everything that was left.                                                *)
Cleanup ==
    /\ helper = "cleanup"
    /\ \/ /\ env' = "clean"
          /\ report' = Frame("CLEANUP_OK")
          /\ UNCHANGED <<status, faults>>
       \/ /\ Fault
          /\ env' \in {"clean", "residual"}
          /\ report' = Frame("CLEANUP_FAILED")
          /\ status' = 125
    /\ helper' = "report_cleanup"
    /\ UNCHANGED <<socketVars, runtime, todo, profile, workVars>>

ReportCleanup ==
    /\ helper = "report_cleanup"
    /\ SendFrame(report)
    /\ status' = IF supOpen THEN status ELSE 125
    /\ helper' = "exit"
    /\ UNCHANGED <<commands, supOpen, helperOpen, runtime, todo, report, profile, env,
                   workVars, faults>>

HelperExits ==
    /\ helper = "exit"
    /\ Exit(status)
    /\ UNCHANGED <<frames, commands, supOpen, runtime, todo, report, profile, env,
                   workVars, faults>>

HelperStep ==
    \/ SendReady \/ ReadStart \/ Prepare \/ Launch \/ ReportFailed \/ ReportActive
    \/ PollWorkload \/ PollSupervisor \/ CarryOutChange \/ CarryOutStop \/ CommandsDone
    \/ StopWorkload \/ StopGrace \/ Cleanup \/ ReportCleanup \/ HelperExits

-----------------------------------------------------------------------------
(* The Workload, which may end at any time, and must end once it has been   *)
(* killed.  A Workload whose helper is gone is reaped by init.              *)

WorkloadEnds ==
    /\ work \in {"running", "terminated"}
    /\ work' = IF HelperDone THEN "reaped" ELSE "zombie"
    /\ ended' \in ExitedStatuses \cup SignaledStatuses
    /\ UNCHANGED <<socketVars, helperVars, faults>>

WorkloadKilled ==
    /\ work = "killed"
    /\ work' = IF HelperDone THEN "reaped" ELSE "zombie"
    /\ ended' \in SignaledStatuses
    /\ UNCHANGED <<socketVars, helperVars, faults>>
=============================================================================
