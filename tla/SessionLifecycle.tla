-------------------------- MODULE SessionLifecycle --------------------------
(***************************************************************************)
(* The blocking Session lifecycle of the Supervisor,                       *)
(* run_session_lifecycle() in src/session_lifecycle.cpp.                   *)
(*                                                                         *)
(* The lifecycle consumes one typed event at a time from a LifecycleAdapter*)
(* and calls the adapter back to send stop requests, to reap the launcher, *)
(* to finalize and to publish.  Every operation is an action that takes    *)
(* the event (and the result of the adapter call) as a parameter, so that  *)
(* a module that models the adapter can conjoin its own half of the step.  *)
(* LcSpec at the end closes the system with an adapter that may return any *)
(* event at any time.                                                      *)
(***************************************************************************)
EXTENDS Naturals, Sequences, WorkloadStatus

CONSTANT MaxFailures    \* bound on the length of the failure list (LcSpec only)

ASSUME MaxFailuresAssumption == MaxFailures \in Nat

VARIABLES
    lc,         \* where the function is: its State, or one of the final calls
    stopStage,  \* StopStage: how far stop escalation has gone
    workload,   \* SessionOutcome::workload
    failures,   \* SessionOutcome::infrastructure_failures
    stops       \* the stop requests handed to the helper so far

lcVars == <<lc, stopStage, workload, failures, stops>>

-----------------------------------------------------------------------------
(* Data *)

States == {"waiting_for_activation", "active", "waiting_for_cleanup"}
FinalCalls == {"reap_launcher", "finalize", "publish_outcome"}
StopStages == {"none", "interrupt_grace", "terminate_grace", "kill_requested"}

InfrastructureFailures ==
    {"start", "conversation", "cleanup", "profile_state", "stop_request",
     "invalid_event", "launcher_reaping", "supervisor_cleanup"}

NoResult == NoStatus
WorkloadResults ==
    [kind : {"start_failure"}, value : {126, 127}] \cup ExitedStatuses \cup SignaledStatuses

Event(k) == [kind |-> k, value |-> 0]
LifecycleEvents ==
    {Event(k) : k \in {"activated", "controller_lost", "conversation_lost",
                       "cleanup_failed", "cleanup_succeeded",
                       "profile_state_unknown", "terminal_interrupt",
                       "stop_requested", "deadline_expired"}}
    \cup [kind : {"activation_failed"}, value : {125, 126, 127}]
    \cup [kind : {"workload_exited"}, value : ExitCodes]
    \cup [kind : {"workload_signaled"}, value : Signals]

\* Fault: the interrupt grace period is never given a deadline.
DeadlineOfTermOnly == stopStage = "terminate_grace"

DeadlineActive == stopStage \in {"interrupt_grace", "terminate_grace"}

(* The event kinds each state of the loop has a rule for; any other kind   *)
(* falls through to invalid_event at the bottom of the loop.               *)
Expected ==
    {"controller_lost", "conversation_lost", "cleanup_failed"} \cup
    CASE lc = "waiting_for_activation" -> {"activated", "activation_failed"}
      [] lc = "active" ->
            {"profile_state_unknown", "terminal_interrupt", "stop_requested",
             "workload_exited", "workload_signaled"}
            \cup (IF DeadlineActive THEN {"deadline_expired"} ELSE {})
      [] OTHER -> {"terminal_interrupt", "stop_requested", "cleanup_succeeded"}

Fail(f) == failures' = Append(failures, f)

-----------------------------------------------------------------------------
(* Operations *)

LcInit ==
    /\ lc = "begin"
    /\ stopStage = "none"
    /\ workload = NoResult
    /\ failures = <<>>
    /\ stops = <<>>

(* adapter.begin(): wait for READY, then send descriptors and START block. *)
Begin(ok) ==
    /\ lc = "begin"
    /\ IF ok THEN lc' = "waiting_for_activation" /\ UNCHANGED failures
             ELSE lc' = "reap_launcher" /\ Fail("start")
    /\ UNCHANGED <<stopStage, workload, stops>>

(* Events that are skipped: a lost Controller at any time, and stop         *)
(* triggers once the Workload is over or a stop is under way.               *)
Ignored(e) ==
    \/ e.kind = "controller_lost"
    \/ lc = "waiting_for_cleanup" /\ e.kind \in {"terminal_interrupt", "stop_requested"}
    \/ lc = "active" /\ e.kind = "terminal_interrupt" /\ stopStage = "kill_requested"
    \/ lc = "active" /\ e.kind = "stop_requested" /\ stopStage # "none"

Ignore(e) == Ignored(e) /\ UNCHANGED lcVars

(* Events that end the loop with a failure, and the one that ends it well. *)
LeaveLoop(e) ==
    /\ \/ e.kind \in {"conversation_lost", "cleanup_failed"}
       \/ lc = "waiting_for_cleanup" /\ e.kind = "cleanup_succeeded"
       \/ e.kind \notin Expected
    /\ lc' = "reap_launcher"
    /\ CASE e.kind = "conversation_lost" -> Fail("conversation")
         [] e.kind = "cleanup_failed" -> Fail("cleanup")
         [] e.kind = "cleanup_succeeded" /\ e.kind \in Expected -> UNCHANGED failures
         [] OTHER -> Fail("invalid_event")
    /\ UNCHANGED <<stopStage, workload, stops>>

Activate(e) ==
    /\ lc = "waiting_for_activation"
    /\ e.kind = "activated"
    /\ lc' = "active"
    /\ UNCHANGED <<stopStage, workload, failures, stops>>

FailActivation(e) ==
    /\ lc = "waiting_for_activation"
    /\ e.kind = "activation_failed"
    /\ lc' = "waiting_for_cleanup"
    /\ IF e.value \in {126, 127}
         THEN /\ workload' = [kind |-> "start_failure", value |-> e.value]
              /\ UNCHANGED failures
         ELSE Fail("start") /\ UNCHANGED workload
    /\ UNCHANGED <<stopStage, stops>>

(* adapter.request_stop(signal), whose success is `sent`; `before` is the   *)
(* failure list the request is made with.                                   *)
RequestStop(signal, stage, before, sent) ==
    /\ IF sent
         THEN /\ stops' = Append(stops, signal)
              /\ stopStage' = stage
              /\ failures' = before
              /\ UNCHANGED lc
         ELSE /\ failures' = Append(before, "stop_request")
              /\ lc' = "reap_launcher"
              /\ UNCHANGED <<stops, stopStage>>
    /\ UNCHANGED workload

\* Fault: the stop is left to the user.
UnknownProfileRecorded(e, sent) ==
    /\ lc = "active"
    /\ e.kind = "profile_state_unknown"
    /\ Fail("profile_state")
    /\ UNCHANGED <<lc, stopStage, workload, stops>>

UnknownProfile(e, sent) ==
    /\ lc = "active"
    /\ e.kind = "profile_state_unknown"
    /\ IF stopStage = "none"
         THEN RequestStop("TERM", "terminate_grace", Append(failures, "profile_state"), sent)
         ELSE Fail("profile_state") /\ UNCHANGED <<lc, stopStage, workload, stops>>

FirstInterrupt(e) ==
    /\ lc = "active"
    /\ e.kind = "terminal_interrupt"
    /\ stopStage = "none"
    /\ stopStage' = "interrupt_grace"
    /\ UNCHANGED <<lc, workload, failures, stops>>

\* Fault: also when SIGKILL has been requested.
RepeatedInterruptAlways(e, sent) ==
    /\ lc = "active"
    /\ e.kind = "terminal_interrupt"
    /\ stopStage # "none"
    /\ RequestStop("KILL", "kill_requested", failures, sent)

RepeatedInterrupt(e, sent) ==
    /\ lc = "active"
    /\ e.kind = "terminal_interrupt"
    /\ DeadlineActive
    /\ RequestStop("KILL", "kill_requested", failures, sent)

StopRequested(e, sent) ==
    /\ lc = "active"
    /\ e.kind = "stop_requested"
    /\ stopStage = "none"
    /\ RequestStop("TERM", "terminate_grace", failures, sent)

DeadlineExpired(e, sent) ==
    /\ lc = "active"
    /\ e.kind = "deadline_expired"
    /\ \/ /\ stopStage = "interrupt_grace"
          /\ RequestStop("TERM", "terminate_grace", failures, sent)
       \/ /\ stopStage = "terminate_grace"
          /\ RequestStop("KILL", "kill_requested", failures, sent)

\* Fault: a signal is reported as an exit code.
WorkloadFinishedExited(e) ==
    /\ lc = "active"
    /\ e.kind \in {"workload_exited", "workload_signaled"}
    /\ workload' = [kind |-> "exited", value |-> e.value]
    /\ lc' = "waiting_for_cleanup"
    /\ stopStage' = "none"
    /\ UNCHANGED <<failures, stops>>

WorkloadFinished(e) ==
    /\ lc = "active"
    /\ e.kind \in {"workload_exited", "workload_signaled"}
    /\ workload' = [kind |-> IF e.kind = "workload_exited" THEN "exited" ELSE "signaled",
                    value |-> e.value]
    /\ lc' = "waiting_for_cleanup"
    /\ stopStage' = "none"
    /\ UNCHANGED <<failures, stops>>

(* One turn of the loop with the event adapter.wait() returned. *)
Handle(e, sent) ==
    /\ lc \in States
    /\ \/ Ignore(e)
       \/ LeaveLoop(e)
       \/ Activate(e)
       \/ FailActivation(e)
       \/ UnknownProfile(e, sent)
       \/ FirstInterrupt(e)
       \/ RepeatedInterrupt(e, sent)
       \/ StopRequested(e, sent)
       \/ DeadlineExpired(e, sent)
       \/ WorkloadFinished(e)

(* The three calls after the loop, made whatever the loop ended with. *)
ReapLauncher(ok) ==
    /\ lc = "reap_launcher"
    /\ lc' = "finalize"
    /\ IF ok THEN UNCHANGED failures ELSE Fail("launcher_reaping")
    /\ UNCHANGED <<stopStage, workload, stops>>

Finalize(ok) ==
    /\ lc = "finalize"
    /\ lc' = "publish_outcome"
    /\ IF ok THEN UNCHANGED failures ELSE Fail("supervisor_cleanup")
    /\ UNCHANGED <<stopStage, workload, stops>>

PublishOutcome ==
    /\ lc = "publish_outcome"
    /\ lc' = "done"
    /\ UNCHANGED <<stopStage, workload, failures, stops>>

(* session_exit_status() of src/session_presentation.cpp: what `netlaglab   *)
(* run` returns for the outcome.                                            *)
ExitStatus ==
    IF failures # <<>> \/ workload = NoResult THEN 125
    ELSE IF workload.kind = "signaled" THEN 128 + workload.value
    ELSE workload.value

-----------------------------------------------------------------------------
(* The lifecycle with an unconstrained adapter.  wait() reports an expired *)
(* deadline only when it was called with one.                               *)

WaitReturns(e) ==
    /\ e.kind = "deadline_expired" => DeadlineActive
    /\ e.kind = "profile_state_unknown" => Len(failures) < MaxFailures

LcHandle == \E e \in LifecycleEvents, sent \in BOOLEAN : WaitReturns(e) /\ Handle(e, sent)

LcNext ==
    \/ \E ok \in BOOLEAN : Begin(ok) \/ ReapLauncher(ok) \/ Finalize(ok)
    \/ LcHandle
    \/ PublishOutcome

LcSpec == LcInit /\ [][LcNext]_lcVars

-----------------------------------------------------------------------------
(* Properties *)

(* Every variable of run_session_lifecycle() has its declared type. *)
LcTypeOK ==
    /\ lc \in {"begin", "done"} \cup States \cup FinalCalls
    /\ stopStage \in StopStages
    /\ workload \in WorkloadResults \cup {NoResult}
    /\ failures \in Seq(InfrastructureFailures)
    /\ stops \in Seq({"TERM", "KILL"})

(* A loop that ended without any failure ended with a known Workload        *)
(* result: no path through run_session_lifecycle() reports a clean Session  *)
(* whose Workload result is missing.                                        *)
CleanMeansResult ==
    lc \in FinalCalls \cup {"done"} /\ failures = <<>> => workload # NoResult

(* Stop escalation never goes back, never repeats a request and never skips *)
(* from nothing to SIGKILL except on a second Ctrl-C: what has been sent to *)
(* the helper is determined by the stage while the Workload is active.      *)
StopsFollowStage ==
    lc = "active" =>
      CASE stopStage \in {"none", "interrupt_grace"} -> stops = <<>>
        [] stopStage = "terminate_grace" -> stops = <<"TERM">>
        [] OTHER -> stops \in {<<"KILL">>, <<"TERM", "KILL">>}

(* An unknown profile state is never merely recorded: as long as the        *)
(* Workload runs after it, a stop is under way.                             *)
UnknownProfileStops ==
    lc = "active" /\ failures # <<>> => stopStage # "none"

(* A Workload result, once known, survives every later failure, and no      *)
(* failure is ever taken off the list.                                      *)
OutcomeOnlyGrows ==
    [][ /\ workload # NoResult => workload' = workload
        /\ Len(failures') >= Len(failures)
        /\ SubSeq(failures', 1, Len(failures)) = failures ]_lcVars

(* No stop request is sent outside the active state, so none can reach a    *)
(* helper that has not activated the Workload or has already reported its   *)
(* end; and at most one request is sent per event.                          *)
StopOnlyWhileActive ==
    [][ stops' # stops =>
          /\ lc = "active" /\ lc' = "active"
          /\ stopStage # "kill_requested"
          /\ \E s \in {"TERM", "KILL"} : stops' = Append(stops, s) ]_lcVars
=============================================================================
