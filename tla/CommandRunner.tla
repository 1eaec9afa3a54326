---------------------------- MODULE CommandRunner ----------------------------
(***************************************************************************)
(* run_command_impl() of src/network_environment/command_runner.cpp: one   *)
(* external command of the helper (ip, tc, nft, ufw, firewall-cmd) with a  *)
(* deadline.  The parent drains the pipes, asks waitpid() without waiting, *)
(* looks at the clock and polls; past the deadline it kills and reaps.     *)
(*                                                                         *)
(* stdout and stderr are treated alike and are one pipe here, of which     *)
(* only whether it holds something is kept; what is captured of it is      *)
(* bounded and left out.  A child that exists can be killed and waited     *)
(* for, so the errors of kill() and waitpid() do not occur.                *)
(***************************************************************************)
EXTENDS Naturals

CONSTANTS
    ReadsPerCycle,   \* reads of a pipe before the clock is looked at again (16)
    MaxChatter,      \* bound: writes of a process the command left behind
    MaxFaults        \* bound: system calls that fail

ASSUME RunnerAssumption ==
    ReadsPerCycle \in Nat \ {0} /\ MaxChatter \in Nat /\ MaxFaults \in Nat

VARIABLES
    runner,    \* where run_command_impl() is
    child,     \* none, setup, failing, running, killed, zombie or reaped
    ended,     \* how the child ended: none, ok, error, signal, setup
    note,      \* the message of a child that could not exec
    heard,     \* the parent has seen the end of the failure pipe
    output,    \* the output pipe holds something
    writers,   \* who holds the writing end of the output pipe
    reads,     \* reads in this cycle
    expired,   \* the deadline of the caller has passed
    result,    \* CommandResult of the last command
    ran,       \* (history) execve() took place
    chatter,   \* writes left to the process left behind
    faults     \* failures so far

runnerVars == <<runner, child, ended, note, heard, output, writers, reads, expired, result,
                ran, chatter, faults>>

RunnerInit ==
    /\ runner = "idle" /\ child = "none" /\ ended = "none" /\ note = "none"
    /\ heard = FALSE /\ output = FALSE /\ writers = {} /\ reads = 0
    /\ expired = FALSE /\ result = "none" /\ ran = FALSE
    /\ chatter = MaxChatter /\ faults = 0

Fault == faults < MaxFaults /\ faults' = faults + 1

-----------------------------------------------------------------------------
(* The parent *)

(* The pipes are closed on every return. *)
Return(r) ==
    /\ runner' = "idle" /\ result' = r
    /\ heard' = FALSE /\ output' = FALSE /\ writers' = {} /\ reads' = 0

(* Everything before the loop.  An expired deadline starts no child.        *)
StartCommand ==
    /\ runner = "idle"
    /\ note' = "none" /\ ended' = "none" /\ ran' = FALSE
    /\ \/ /\ ~expired
          /\ runner' = "drain" /\ child' = "setup"
          /\ writers' = {"child"} /\ result' = "none"
          /\ UNCHANGED <<heard, output, reads, faults>>
       \/ /\ expired /\ Return("timeout") /\ UNCHANGED faults
          /\ child' = "none"
       \/ /\ ~expired /\ Return("system_failure") /\ Fault     \* pipe2, fcntl, fork
          /\ child' = "none"
    /\ UNCHANGED <<expired, chatter>>

(* drain_output(..., false): so many reads at most, however fast the        *)
(* command writes.                                                          *)
ReadOutput ==
    /\ runner = "drain" /\ output /\ reads < ReadsPerCycle
    /\ output' = FALSE
    /\ reads' = reads + 1
    /\ UNCHANGED <<runner, child, ended, note, heard, writers, expired, result, ran, chatter, faults>>

\* Fault: the command is read for as long as it writes.
DrainedWhenEmpty == ~output

Drained == ~output \/ reads = ReadsPerCycle

(* drain_child_failure() ends the drain. *)
StopReading ==
    /\ runner = "drain" /\ Drained
    /\ runner' = "wait"
    /\ heard' = (child # "setup")
    /\ UNCHANGED <<child, ended, note, output, writers, reads, expired, result, ran, chatter, faults>>

(* read() or poll() fails: terminate_and_reap(), and the error is returned. *)
CallFails ==
    /\ runner \in {"drain", "poll"}
    /\ Fault
    /\ runner' = "kill"
    /\ result' = "system_failure"
    /\ UNCHANGED <<child, ended, note, heard, output, writers, reads, expired, ran, chatter>>

(* waitpid(WNOHANG) *)
Wait ==
    /\ runner = "wait"
    /\ IF child = "zombie" THEN child' = "reaped" /\ runner' = "drain_all"
                           ELSE runner' = "clock" /\ UNCHANGED child
    /\ UNCHANGED <<ended, note, heard, output, writers, reads, expired, result, ran, chatter, faults>>

LookAtClock ==
    /\ runner = "clock"
    /\ IF expired THEN runner' = "kill" /\ result' = "timeout"
                  ELSE runner' = "poll" /\ UNCHANGED result
    /\ UNCHANGED <<child, ended, note, heard, output, writers, reads, expired, ran, chatter, faults>>

(* poll() returns for output, for the end of a pipe that is still watched,  *)
(* at the deadline, and after 1 ms when no pipe is left.                    *)
PollReturns == output \/ writers = {} \/ expired \/ (child # "setup" /\ ~heard)

Poll ==
    /\ runner = "poll" /\ PollReturns
    /\ runner' = "drain"
    /\ reads' = 0
    /\ UNCHANGED <<child, ended, note, heard, output, writers, expired, result, ran, chatter, faults>>

\* Fault: the command is killed and not waited for.
KillAndLeave ==
    /\ runner = "kill"
    /\ Return(result)
    /\ UNCHANGED <<child, ended, note, expired, ran, chatter, faults>>

(* terminate_and_reap(): kill(), then waitpid() that waits. *)
Kill ==
    /\ runner = "kill"
    /\ child' = IF child = "zombie" THEN child ELSE "killed"
    /\ runner' = "reap"
    /\ UNCHANGED <<ended, note, heard, output, writers, reads, expired, result, ran, chatter, faults>>

Reap ==
    /\ runner = "reap" /\ child = "zombie"
    /\ child' = "reaped"
    /\ IF result = "timeout"
         THEN runner' = "drain_all" /\ UNCHANGED <<heard, output, writers, reads, result>>
         ELSE Return(result)
    /\ UNCHANGED <<ended, note, expired, ran, chatter, faults>>

\* Fault: the failure pipe is not looked at once the child is reaped.
VerdictOfStatus ==
    CASE result = "timeout" -> "timeout"
      [] result # "timeout" /\ ended = "ok" -> "success"
      [] result # "timeout" /\ ended = "signal" -> "signal"
      [] OTHER -> "nonzero_exit"

(* What the child wrote to the failure pipe comes first, then its status.   *)
Verdict ==
    CASE result = "timeout" -> "timeout"
      [] result # "timeout" /\ note # "none" -> note
      [] result # "timeout" /\ note = "none" ->
            CASE ended = "ok" -> "success"
              [] ended = "signal" -> "signal"
              [] OTHER -> "nonzero_exit"

(* drain_output(..., true): until the pipe is empty, then the result. *)
DrainAll ==
    /\ runner = "drain_all"
    /\ IF output THEN output' = FALSE /\ UNCHANGED <<runner, heard, writers, reads, result>>
                 ELSE Return(Verdict)
    /\ UNCHANGED <<child, ended, note, expired, ran, chatter, faults>>

DrainAllFails ==
    /\ runner = "drain_all"
    /\ Fault
    /\ Return(IF result = "timeout" THEN "timeout" ELSE "system_failure")
    /\ UNCHANGED <<child, ended, note, expired, ran, chatter>>

RunnerStep ==
    \/ ReadOutput \/ StopReading \/ Wait \/ LookAtClock \/ Poll \/ Kill \/ Reap \/ DrainAll

-----------------------------------------------------------------------------
(* The child, and what it leaves behind *)

ChildVarsOnly == UNCHANGED <<runner, heard, reads, expired, result, faults>>

ChildExecs ==
    /\ child = "setup"
    /\ child' = "running"
    /\ ran' = TRUE
    /\ ChildVarsOnly /\ UNCHANGED <<ended, note, output, writers, chatter>>

(* report_child_failure_and_exit(): dup2() or setns() failed, or execve().  *)
ChildCannotExec ==
    /\ child = "setup"
    /\ note' \in {"system_failure", "exec_failure"}
    /\ child' = "failing"
    /\ ChildVarsOnly /\ UNCHANGED <<ended, output, writers, ran, chatter>>

ProgramWrites ==
    /\ child = "running" /\ ~output
    /\ output' = TRUE
    /\ ChildVarsOnly /\ UNCHANGED <<child, ended, note, writers, ran, chatter>>

ProgramForks ==
    /\ child = "running" /\ "descendant" \notin writers
    /\ writers' = writers \cup {"descendant"}
    /\ ChildVarsOnly /\ UNCHANGED <<child, ended, note, output, ran, chatter>>

ChildEnds ==
    /\ \/ child = "running" /\ ended' \in {"ok", "error", "signal"}
       \/ child = "failing" /\ ended' = "setup"
       \/ child = "killed" /\ ended' = "signal"
    /\ child' = "zombie"
    /\ writers' = writers \ {"child"}
    /\ ChildVarsOnly /\ UNCHANGED <<note, output, ran, chatter>>

DescendantWrites ==
    /\ "descendant" \in writers /\ ~output /\ chatter > 0
    /\ output' = TRUE
    /\ chatter' = chatter - 1
    /\ ChildVarsOnly /\ UNCHANGED <<child, ended, note, writers, ran>>

DescendantEnds ==
    /\ "descendant" \in writers
    /\ writers' = writers \ {"descendant"}
    /\ ChildVarsOnly /\ UNCHANGED <<child, ended, note, output, ran, chatter>>

ChildStep ==
    \/ ChildExecs \/ ChildCannotExec \/ ProgramWrites \/ ProgramForks \/ ChildEnds
    \/ DescendantWrites \/ DescendantEnds

Tick ==
    /\ ~expired
    /\ expired' = TRUE
    /\ UNCHANGED <<runner, child, ended, note, heard, output, writers, reads, result, ran,
                   chatter, faults>>

(* The next operation of the caller has a deadline of its own. *)
NewDeadline ==
    /\ runner = "idle" /\ expired
    /\ expired' = FALSE
    /\ UNCHANGED <<runner, child, ended, note, heard, output, writers, reads, result, ran,
                   chatter, faults>>

RunnerNext ==
    StartCommand \/ RunnerStep \/ CallFails \/ DrainAllFails \/ ChildStep
    \/ Tick \/ NewDeadline

(* The helper runs, the clock runs, and what has been killed ends.  Nothing *)
(* is assumed of a command, and no call has to fail.                        *)
RunnerSpec ==
    /\ RunnerInit /\ [][RunnerNext]_runnerVars
    /\ WF_runnerVars(RunnerStep)
    /\ WF_runnerVars(Tick)
    /\ WF_runnerVars(child = "killed" /\ ChildEnds)

-----------------------------------------------------------------------------
(* Properties *)

(* No command outlives its call: whatever fails and however late it is, the *)
(* child has been waited for when the caller goes on.                       *)
NoChildOutlivesCommand == runner = "idle" => child \in {"none", "reaped"}

(* Every call returns, although a command may hang, write for ever, or      *)
(* leave a process behind that holds its output open.                       *)
CommandReturns == runner # "idle" ~> runner = "idle"

(* The runner keeps the contract that the transactions rely on. *)
Command == INSTANCE ExternalCommand WITH
    call <- IF runner = "idle" THEN "idle" ELSE "running",
    program <- CASE ~ran -> "none"
                 [] ran /\ child \in {"running", "killed"} -> "running"
                 [] OTHER -> ended,
    result <- IF runner = "idle" THEN result ELSE "none"

ImplementsCommand == Command!CommandSpec
=============================================================================
