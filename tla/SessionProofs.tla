---------------------------- MODULE SessionProofs ----------------------------
(***************************************************************************)
(* Proofs about the Session: its lifecycle for every adapter (LcSpec of    *)
(* SessionLifecycle) and the composition of Session, for every set of      *)
(* Changes, Lines, exit codes and signals and every bound.                 *)
(*                                                                         *)
(*   1. run_session_lifecycle() alone: LcInv                               *)
(*   2. the helper, its Workload and the Network Environment: HelperInv    *)
(*   3. the conversation: one read of frames, one frame at a time          *)
(*   4. the control plane: what each event makes of a state, and what a    *)
(*      batch of actions may contain                                       *)
(*   5. the adapter: what the execution of a batch, and each of its        *)
(*      callers, makes of an adapter (GoodAndLate)                         *)
(*   6. the Session: SessionInv, one lemma for each group of actions       *)
(*   7. what follows of it: the theorems, and the two refinements          *)
(***************************************************************************)
EXTENDS SessionProperties, SequenceTheorems, TLAPS

(* Nothing has happened before the Workload is active: no result, no        *)
(* failure, no stop.                                                        *)
QuietBeforeActive ==
    lc \in {"begin", "waiting_for_activation"} =>
        stops = <<>> /\ stopStage = "none" /\ failures = <<>> /\ workload = NoResult

(* While the Workload is active its result is not known. *)
NoResultWhileActive == lc = "active" => workload = NoResult

(* The cleanup state is entered with a result or with a failure. *)
CleanupHasReason ==
    lc = "waiting_for_cleanup" => workload # NoResult \/ failures # <<>>

(* The inductive invariant of run_session_lifecycle(). *)
LcInv ==
    /\ LcTypeOK
    /\ QuietBeforeActive
    /\ NoResultWhileActive
    /\ CleanupHasReason
    /\ CleanMeansResult
    /\ StopsFollowStage
    /\ UnknownProfileStops

(* Appending to a sequence keeps its prefix and never yields the empty      *)
(* sequence: what push_back() does to infrastructure_failures.              *)
LEMMA AppendFacts ==
    ASSUME NEW S, NEW s \in Seq(S), NEW e \in S
    PROVE  /\ Append(s, e) \in Seq(S)
           /\ Append(s, e) # <<>>
           /\ Len(Append(s, e)) = Len(s) + 1
  BY AppendProperties

(* The stop requests of a complete escalation, one push at a time. *)
LEMMA StopTuples ==
    /\ Append(<<>>, "TERM") = <<"TERM">>
    /\ Append(<<>>, "KILL") = <<"KILL">>
    /\ Append(<<"TERM">>, "KILL") = <<"TERM", "KILL">>
  <1> DEFINE R == {"TERM", "KILL"}
  <1>1. ASSUME NEW r \in R PROVE Append(<<>>, r) = <<r>>
    <2>1. /\ Append(<<>>, r) \in Seq(R) /\ <<r>> \in Seq(R)
          /\ Len(Append(<<>>, r)) = 1 /\ Append(<<>>, r)[1] = r
          /\ Len(<<r>>) = 1 /\ <<r>>[1] = r
      OBVIOUS
    <2>2. \A i \in 1..1 : i = 1
      OBVIOUS
    <2> QED
      BY <2>1, <2>2, SeqEqual
  <1>2. Append(<<"TERM">>, "KILL") = <<"TERM", "KILL">>
    <2> DEFINE s == Append(<<"TERM">>, "KILL")
               t == <<"TERM", "KILL">>
    <2>1. s \in Seq(R) /\ t \in Seq(R) /\ Len(s) = 2 /\ Len(t) = 2
      OBVIOUS
    <2>2. s[1] = "TERM" /\ s[2] = "KILL" /\ t[1] = "TERM" /\ t[2] = "KILL"
      OBVIOUS
    <2>3. \A i \in 1..2 : i = 1 \/ i = 2
      OBVIOUS
    <2> HIDE DEF s, t
    <2>4. \A i \in 1..Len(s) : s[i] = t[i]
      BY <2>1, <2>2, <2>3
    <2>5. s = t
      BY <2>1, <2>4, SeqEqual
    <2> QED
      BY <2>5 DEF s, t
  <1> QED
    BY <1>1, <1>2

(* The initial state of the lifecycle satisfies the invariant. *)
LEMMA LcInitInv == LcInit => LcInv
  BY DEF LcInit, LcInv, LcTypeOK, QuietBeforeActive, NoResultWhileActive,
         CleanupHasReason, CleanMeansResult, StopsFollowStage,
         UnknownProfileStops, States, FinalCalls, StopStages

(* A stop request made in the active state keeps the invariant when the     *)
(* request extends the earlier ones as the new stage prescribes.            *)
LEMMA RequestStopInv ==
    ASSUME LcInv, lc = "active", NEW signal \in {"TERM", "KILL"},
           NEW stage \in {"terminate_grace", "kill_requested"},
           NEW before \in Seq(InfrastructureFailures), NEW sent \in BOOLEAN,
           IF stage = "terminate_grace" THEN Append(stops, signal) = <<"TERM">>
           ELSE Append(stops, signal) \in {<<"KILL">>, <<"TERM", "KILL">>},
           RequestStop(signal, stage, before, sent)
    PROVE  LcInv'
  <1> USE DEF LcInv, LcTypeOK, States, FinalCalls, StopStages
  <1>1. Append(before, "stop_request") \in Seq(InfrastructureFailures) \ {<<>>}
    BY AppendFacts DEF InfrastructureFailures
  <1>2. Append(stops, signal) \in Seq({"TERM", "KILL"})
    BY AppendFacts
  <1>3. LcTypeOK'
    BY <1>1, <1>2 DEF RequestStop
  <1>4. (QuietBeforeActive /\ NoResultWhileActive /\ CleanupHasReason)'
    BY DEF RequestStop, QuietBeforeActive, NoResultWhileActive, CleanupHasReason
  <1>5. (CleanMeansResult /\ UnknownProfileStops)'
    BY <1>1 DEF RequestStop, CleanMeansResult, UnknownProfileStops
  <1>6. StopsFollowStage'
    BY DEF RequestStop, StopsFollowStage
  <1> QED
    BY <1>3, <1>4, <1>5, <1>6

(* One turn of the loop preserves it, whatever event wait() returned. *)
LEMMA HandleInv ==
    ASSUME LcInv, NEW e \in LifecycleEvents, NEW sent \in BOOLEAN, Handle(e, sent)
    PROVE  LcInv'
  <1> USE DEF LcInv, LcTypeOK, QuietBeforeActive, NoResultWhileActive,
              CleanupHasReason, CleanMeansResult, StopsFollowStage,
              UnknownProfileStops, States, FinalCalls, StopStages,
              InfrastructureFailures
  <1>11. \A f, g \in InfrastructureFailures :
           /\ Append(failures, f) \in Seq(InfrastructureFailures) \ {<<>>}
           /\ Append(Append(failures, f), g) \in Seq(InfrastructureFailures) \ {<<>>}
    BY AppendFacts
  <1>0. lc \in States
    BY DEF Handle
  <1>1. CASE Ignore(e)
    BY <1>1 DEF Ignore, lcVars
  <1>2. CASE LeaveLoop(e)
    <2>1. /\ lc' = "reap_launcher" /\ UNCHANGED <<stopStage, workload, stops>>
          /\ \/ lc = "waiting_for_cleanup" /\ failures' = failures
             \/ \E f \in InfrastructureFailures : failures' = Append(failures, f)
      BY <1>0, <1>2 DEF LeaveLoop, Fail, Expected
    <2>2. \/ lc = "waiting_for_cleanup" /\ failures' = failures
          \/ failures' \in Seq(InfrastructureFailures) \ {<<>>}
      BY <1>11, <2>1
    <2>3. QED
      BY <1>0, <2>1, <2>2
  <1>3. CASE Activate(e)
    BY <1>3 DEF Activate
  <1>4. CASE FailActivation(e)
    <2>1. CASE e.value \in {126, 127}
      <3>1. workload' \in WorkloadResults /\ workload' # NoResult
        BY <1>4, <2>1 DEF FailActivation, WorkloadResults, NoResult, NoStatus, ExitedStatuses, SignaledStatuses
      <3> QED
        BY <1>4, <2>1, <3>1 DEF FailActivation
    <2>2. CASE e.value \notin {126, 127}
      BY <1>11, <1>4, <2>2 DEF FailActivation, Fail
    <2> QED
      BY <2>1, <2>2
  <1>5. CASE UnknownProfile(e, sent)
    <2>1. CASE stopStage = "none"
      <3>1. Append(failures, "profile_state") \in Seq(InfrastructureFailures)
        BY <1>11
      <3>2. lc = "active" /\ Append(stops, "TERM") = <<"TERM">>
        BY <1>5, <2>1, StopTuples DEF UnknownProfile
      <3> QED
        BY <1>5, <2>1, <3>1, <3>2, RequestStopInv DEF UnknownProfile
    <2>2. CASE stopStage # "none"
      BY <1>11, <1>5, <2>2 DEF UnknownProfile, Fail
    <2> QED
      BY <2>1, <2>2
  <1>6. CASE FirstInterrupt(e)
    BY <1>6 DEF FirstInterrupt
  <1>7. CASE RepeatedInterrupt(e, sent)
    <2>1. lc = "active" /\ Append(stops, "KILL") \in {<<"KILL">>, <<"TERM", "KILL">>}
      BY <1>7, StopTuples DEF RepeatedInterrupt, DeadlineActive
    <2> QED
      BY <1>7, <2>1, RequestStopInv DEF RepeatedInterrupt
  <1>8. CASE StopRequested(e, sent)
    <2>1. lc = "active" /\ Append(stops, "TERM") = <<"TERM">>
      BY <1>8, StopTuples DEF StopRequested
    <2> QED
      BY <1>8, <2>1, RequestStopInv DEF StopRequested
  <1>9. CASE DeadlineExpired(e, sent)
    <2>1. CASE stopStage = "interrupt_grace"
      <3>1. lc = "active" /\ Append(stops, "TERM") = <<"TERM">>
        BY <1>9, <2>1, StopTuples DEF DeadlineExpired
      <3> QED
        BY <1>9, <2>1, <3>1, RequestStopInv DEF DeadlineExpired
    <2>2. CASE stopStage = "terminate_grace"
      <3>1. lc = "active" /\ Append(stops, "KILL") = <<"TERM", "KILL">>
        BY <1>9, <2>2, StopTuples DEF DeadlineExpired
      <3> QED
        BY <1>9, <2>2, <3>1, RequestStopInv DEF DeadlineExpired
    <2> QED
      BY <1>9, <2>1, <2>2 DEF DeadlineExpired
  <1>10. CASE WorkloadFinished(e)
    BY <1>10 DEF WorkloadFinished, WorkloadResults, NoResult, NoStatus, ExitedStatuses, SignaledStatuses, LifecycleEvents, Event
  <1> QED
    BY <1>1, <1>2, <1>3, <1>4, <1>5, <1>6, <1>7, <1>8, <1>9, <1>10 DEF Handle

(* Every operation of the lifecycle preserves the invariant. *)
LEMMA LcNextInv == LcInv /\ [LcNext]_lcVars => LcInv'
  <1> USE DEF LcInv, LcTypeOK, QuietBeforeActive, NoResultWhileActive,
              CleanupHasReason, CleanMeansResult, StopsFollowStage,
              UnknownProfileStops, States, FinalCalls, StopStages,
              InfrastructureFailures
  <1> SUFFICES ASSUME LcInv, [LcNext]_lcVars PROVE LcInv'
    OBVIOUS
  <1>0. \A f, g \in InfrastructureFailures :
           /\ Append(failures, f) \in Seq(InfrastructureFailures) \ {<<>>}
           /\ Append(Append(failures, f), g) \in Seq(InfrastructureFailures) \ {<<>>}
    BY AppendFacts
  <1>1. ASSUME NEW ok \in BOOLEAN, Begin(ok) PROVE LcInv'
    BY <1>0, <1>1 DEF Begin, Fail
  <1>2. ASSUME NEW ok \in BOOLEAN, ReapLauncher(ok) PROVE LcInv'
    BY <1>2 DEF ReapLauncher, Fail
  <1>3. ASSUME NEW ok \in BOOLEAN, Finalize(ok) PROVE LcInv'
    BY <1>3 DEF Finalize, Fail
  <1>4. CASE PublishOutcome
    BY <1>4 DEF PublishOutcome
  <1>5. ASSUME NEW e \in LifecycleEvents, NEW sent \in BOOLEAN, Handle(e, sent)
        PROVE  LcInv'
    BY <1>5, HandleInv
  <1>6. CASE UNCHANGED lcVars
    BY <1>6 DEF lcVars
  <1> QED
    BY <1>1, <1>2, <1>3, <1>4, <1>5, <1>6 DEF LcNext, LcHandle

(* The invariant holds throughout. *)
LEMMA LcInvariant == LcSpec => []LcInv
  BY LcInitInv, LcNextInv, PTL DEF LcSpec

(* Type correctness of the lifecycle. *)
THEOREM LcTypeCorrect == LcSpec => []LcTypeOK
  <1>1. LcInv => LcTypeOK
    BY DEF LcInv
  <1> QED
    BY LcInvariant, <1>1, PTL

(* No path reports a clean Session without a Workload result. *)
THEOREM CleanSessionsHaveAResult == LcSpec => []CleanMeansResult
  <1>1. LcInv => CleanMeansResult
    BY DEF LcInv
  <1> QED
    BY LcInvariant, <1>1, PTL

(* Stop escalation is one-directional, whatever the adapter does. *)
THEOREM StopEscalationIsOrdered == LcSpec => []StopsFollowStage
  <1>1. LcInv => StopsFollowStage
    BY DEF LcInv
  <1> QED
    BY LcInvariant, <1>1, PTL

(* After an unknown profile state a running Workload is being stopped. *)
THEOREM UnknownProfileLeadsToStop == LcSpec => []UnknownProfileStops
  <1>1. LcInv => UnknownProfileStops
    BY DEF LcInv
  <1> QED
    BY LcInvariant, <1>1, PTL

(* What is appended to a sequence leaves it as a prefix. *)
LEMMA AppendKeeps ==
    ASSUME NEW S, NEW s \in Seq(S), NEW x \in S
    PROVE  /\ Append(s, x) \in Seq(S)
           /\ Len(Append(s, x)) = Len(s) + 1 /\ Len(Append(s, x)) >= Len(s)
           /\ SubSeq(Append(s, x), 1, Len(s)) = s
  OBVIOUS

LEMMA AppendTwiceKeeps ==
    ASSUME NEW S, NEW s \in Seq(S), NEW x \in S, NEW y \in S
    PROVE  /\ Len(Append(Append(s, x), y)) >= Len(s)
           /\ SubSeq(Append(Append(s, x), y), 1, Len(s)) = s
  OBVIOUS

(* Results and failures are never discarded by a later step. *)
THEOREM OutcomesAreKept == LcSpec => OutcomeOnlyGrows
  <1> DEFINE Grows == /\ workload # NoResult => workload' = workload
                      /\ Len(failures') >= Len(failures)
                      /\ SubSeq(failures', 1, Len(failures)) = failures
  <1>1. LcInv /\ [LcNext]_lcVars => [Grows]_lcVars
    <2> SUFFICES ASSUME LcInv, LcNext PROVE Grows
      OBVIOUS
    <2> USE DEF LcInv, LcTypeOK, QuietBeforeActive, NoResultWhileActive,
                InfrastructureFailures
    <2>0. SubSeq(failures, 1, Len(failures)) = failures /\ Len(failures) \in Nat
      OBVIOUS
    <2>1. ASSUME failures' = failures \/ \E f \in InfrastructureFailures :
                    \/ failures' = Append(failures, f)
                    \/ \E g \in InfrastructureFailures :
                          failures' = Append(Append(failures, f), g)
          PROVE  /\ Len(failures') >= Len(failures)
                 /\ SubSeq(failures', 1, Len(failures)) = failures
      <3>1. CASE failures' = failures
        BY <2>0, <3>1
      <3>2. CASE \E f \in InfrastructureFailures : failures' = Append(failures, f)
        BY <3>2, AppendKeeps
      <3>3. CASE \E f, g \in InfrastructureFailures :
                   failures' = Append(Append(failures, f), g)
        BY <3>3, AppendTwiceKeeps
      <3>4. QED
        BY <2>1, <3>1, <3>2, <3>3
    <2>2. ASSUME NEW ok \in BOOLEAN, Begin(ok) \/ ReapLauncher(ok) \/ Finalize(ok)
          PROVE  Grows
      BY <2>1, <2>2 DEF Begin, ReapLauncher, Finalize, Fail
    <2>3. CASE PublishOutcome
      BY <2>1, <2>3 DEF PublishOutcome
    <2>4. ASSUME NEW e \in LifecycleEvents, NEW sent \in BOOLEAN, Handle(e, sent)
          PROVE  Grows
      <3>1. CASE Ignore(e)
        BY <2>1, <3>1 DEF Ignore, lcVars
      <3>2. CASE LeaveLoop(e)
        BY <2>1, <3>2 DEF LeaveLoop, Fail
      <3>3. CASE Activate(e) \/ FirstInterrupt(e) \/ WorkloadFinished(e)
        BY <2>1, <3>3 DEF Activate, FirstInterrupt, WorkloadFinished
      <3>4. CASE FailActivation(e)
        BY <2>1, <3>4 DEF FailActivation, Fail
      <3>5. CASE UnknownProfile(e, sent)
        BY <2>1, <3>5 DEF UnknownProfile, RequestStop, Fail
      <3>6. CASE RepeatedInterrupt(e, sent) \/ StopRequested(e, sent)
        BY <2>1, <3>6 DEF RepeatedInterrupt, StopRequested, RequestStop
      <3>7. CASE DeadlineExpired(e, sent)
        BY <2>1, <3>7 DEF DeadlineExpired, RequestStop
      <3> QED
        BY <2>4, <3>1, <3>2, <3>3, <3>4, <3>5, <3>6, <3>7 DEF Handle
    <2> QED
      BY <2>2, <2>3, <2>4 DEF LcNext, LcHandle
  <1> QED
    BY LcInvariant, <1>1, PTL DEF LcSpec, OutcomeOnlyGrows

(* A stop request leaves the Supervisor only while the Workload is active,  *)
(* never after SIGKILL was requested, and one at a time.                    *)
THEOREM StopsAreSentWhileActive == LcSpec => StopOnlyWhileActive
  <1> DEFINE OneStop == /\ lc = "active" /\ lc' = "active"
                        /\ stopStage # "kill_requested"
                        /\ \E s \in {"TERM", "KILL"} : stops' = Append(stops, s)
             Silent == stops' # stops => OneStop
  <1>1. [LcNext]_lcVars => [Silent]_lcVars
    <2> SUFFICES ASSUME LcNext PROVE Silent
      OBVIOUS
    <2>1. ASSUME NEW ok \in BOOLEAN, Begin(ok) \/ ReapLauncher(ok) \/ Finalize(ok)
          PROVE  Silent
      BY <2>1 DEF Begin, ReapLauncher, Finalize
    <2>2. CASE PublishOutcome
      BY <2>2 DEF PublishOutcome
    <2>3. ASSUME NEW e \in LifecycleEvents, NEW sent \in BOOLEAN, Handle(e, sent)
          PROVE  Silent
      <3>1. CASE Ignore(e) \/ LeaveLoop(e) \/ Activate(e) \/ FailActivation(e)
        BY <3>1 DEF Ignore, LeaveLoop, Activate, FailActivation, lcVars
      <3>2. CASE FirstInterrupt(e) \/ WorkloadFinished(e)
        BY <3>2 DEF FirstInterrupt, WorkloadFinished
      <3>3. CASE UnknownProfile(e, sent)
        BY <3>3 DEF UnknownProfile, RequestStop
      <3>4. CASE RepeatedInterrupt(e, sent)
        BY <3>4 DEF RepeatedInterrupt, DeadlineActive, RequestStop
      <3>5. CASE StopRequested(e, sent) \/ DeadlineExpired(e, sent)
        BY <3>5 DEF StopRequested, DeadlineExpired, RequestStop
      <3> QED
        BY <2>3, <3>1, <3>2, <3>3, <3>4, <3>5 DEF Handle
    <2> QED
      BY <2>1, <2>2, <2>3 DEF LcNext, LcHandle
  <1> QED
    BY <1>1, PTL DEF LcSpec, StopOnlyWhileActive

-----------------------------------------------------------------------------
(* The helper, its Workload and the Network Environment *)

(* What each place of the helper knows of the Workload and of the          *)
(* environment, and when its status can still be that of a success.         *)
HelperInv ==
    /\ helper \in HelperStates
    /\ env \in {"none", "prepared", "clean", "residual"}
    /\ work \in {"none", "running", "terminated", "killed", "zombie", "reaped"}
    /\ ended \in {NoStatus} \cup ExitedStatuses \cup SignaledStatuses
    /\ status \in {0, 125}
    /\ helper \in {"send_ready", "read_start", "prepare"} => work = "none" /\ env = "none"
    /\ helper = "launch" => work = "none" /\ env = "prepared"
    /\ helper = "report_failed" => work = "none" /\ env # "none"
    /\ helper \in {"report_active", "poll_workload", "poll_supervisor", "commands",
                   "stop_workload"} =>
          env = "prepared" /\ work \in {"running", "terminated", "killed", "zombie"}
    /\ helper = "stop_grace" =>
          env = "prepared" /\ work \in {"terminated", "killed", "zombie"}
    /\ helper = "cleanup" => env = "prepared" /\ work \in {"none", "reaped"}
    /\ helper \in {"report_cleanup", "exit"} =>
          env \in {"clean", "residual"} /\ work \in {"none", "reaped"}
    /\ helper = "exited" => env # "prepared" /\ work \in {"none", "reaped"}
    /\ env \in {"clean", "residual"} => work \in {"none", "reaped"}
    /\ env = "residual" /\ helper # "dead" => status = 125
    /\ work = "none" <=> ended = NoStatus /\ ~Alive
    /\ helperOpen = ~HelperDone

(* A helper that dies leaves its Workload alone, or dying, or to init. *)
LEMMA Orphaned ==
    ASSUME HelperDies
    PROVE  \/ work' = work
           \/ Alive /\ work' = "killed"
           \/ work = "zombie" /\ work' = "reaped"
<1>1. CASE Alive
    BY <1>1 DEF HelperDies, OrphanedWorkload
<1>2. CASE ~Alive
    BY <1>2 DEF HelperDies, OrphanedWorkload
<1>3. QED
    BY <1>1, <1>2

LEMMA HelperFrame ==
    [SessionNext]_vars =>
        \/ HelperStep \/ WorkloadKilled \/ WorkloadEnds \/ HelperDies
        \/ UNCHANGED <<helperOpen, helperVars, workVars>>
<1> SUFFICES ASSUME [SessionNext]_vars,
                    ~(HelperStep \/ WorkloadKilled \/ WorkloadEnds \/ HelperDies)
             PROVE  UNCHANGED <<helperOpen, helperVars, workVars>>
    OBVIOUS
<1> USE DEF socketVars
<1>1. CASE BeginSession \/ Poll \/ ReadHelper \/ HelperError \/ ReadSignals \/ Accept
    BY <1>1 DEF BeginSession, Poll, ReadHelper, HelperError, ReadSignals, Accept
<1>2. CASE ReadClient \/ ReadClientEnd \/ SkipClient \/ HandleEvent \/ Expire
    BY <1>2 DEF ReadClient, ReadClientEnd, SkipClient, HandleEvent, Expire, Lifecycle
<1>3. CASE CloseHelperSocket \/ Reap \/ TerminateLauncher \/ KillLauncher \/ FinalizeSession
           \/ Publish
    BY <1>3 DEF CloseHelperSocket, Reap, TerminateLauncher, KillLauncher, FinalizeSession, Publish
<1>4. CASE Connect \/ CloseController \/ SendLine \/ PressCtrlC \/ SupervisorDies
    BY <1>4 DEF Connect, CloseController, SendLine, PressCtrlC, SupervisorDies, HelperUnchanged
<1>5. CASE UNCHANGED vars
    BY <1>5 DEF vars
<1>6. QED
    BY <1>1, <1>2, <1>3, <1>4, <1>5
       DEF SessionNext, SupervisorStep, World, HelperProcessStep, WorkloadDies, HelperCrashes

LEMMA HelperInit1 == SessionInit => HelperInv
BY DEF SessionInit, HelperInit, HelperInv, HelperStates, HelperDone, Alive, NoStatus

LEMMA HelperInvStep == HelperInv /\ [SessionNext]_vars => HelperInv'
<1> SUFFICES ASSUME HelperInv, [SessionNext]_vars PROVE HelperInv'
    OBVIOUS
<1> USE DEF HelperInv, HelperStates, HelperDone, Alive, Exit, workVars
<1>0. NoStatus \notin ExitedStatuses \cup SignaledStatuses
    BY DEF NoStatus, ExitedStatuses, SignaledStatuses
<1>1. CASE SendReady \/ ReadStart
    BY <1>1 DEF SendReady, ReadStart
<1>2. CASE Prepare \/ Launch
    BY <1>2 DEF Prepare, Launch, socketVars
<1>3. CASE ReportFailed \/ ReportActive
    BY <1>3 DEF ReportFailed, ReportActive
<1>4. CASE PollWorkload \/ PollSupervisor
    <2>1. CASE PollWorkload
        BY <2>1 DEF PollWorkload
    <2>2. CASE PollSupervisor
        <3>1. /\ helper = "poll_supervisor"
              /\ helper' \in {"commands", "stop_workload", "poll_workload"}
              /\ status' \in {0, 125} /\ UNCHANGED <<helperOpen, env, work, ended>>
            BY <2>2 DEF PollSupervisor, LoseSupervisor
        <3>2. QED
            BY ONLY <3>1, HelperInv DEF HelperInv, HelperStates, HelperDone, Alive
    <2>3. QED
        BY <1>4, <2>1, <2>2
<1>5. CASE CarryOutChange \/ CarryOutStop \/ CommandsDone
    <2>1. CASE CarryOutChange
        <3>1. /\ helper = "commands" /\ helper' \in {"commands", "stop_workload"}
              /\ status' \in {0, 125} /\ UNCHANGED <<helperOpen, env, work, ended>>
            BY <2>1 DEF CarryOutChange
        <3>2. QED
            BY ONLY <3>1, HelperInv DEF HelperInv, HelperStates, HelperDone, Alive
    <2>2. CASE CarryOutStop
        <3>1. /\ helper = "commands" /\ status' \in {0, 125}
              /\ UNCHANGED <<helperOpen, env, ended>>
              /\ \/ helper' = helper /\ (work' = work \/ (Alive /\ work' \in {"terminated", "killed"}))
                 \/ helper' = "stop_workload" /\ work' = work
            BY <2>2 DEF CarryOutStop
        <3>2. QED
            BY ONLY <3>1, HelperInv DEF HelperInv, HelperStates, HelperDone, Alive
    <2>3. CASE CommandsDone
        BY <2>3 DEF CommandsDone, socketVars
    <2>4. QED
        BY <1>5, <2>1, <2>2, <2>3
<1>6. CASE StopWorkload \/ StopGrace
    <2>1. CASE StopWorkload
        BY <2>1 DEF StopWorkload, socketVars
    <2>2. CASE StopGrace
        BY <2>2 DEF StopGrace, socketVars
    <2>3. QED
        BY <1>6, <2>1, <2>2
<1>7. CASE Cleanup \/ ReportCleanup \/ HelperExits
    <2>1. CASE Cleanup
        BY <2>1 DEF Cleanup, socketVars
    <2>2. CASE ReportCleanup
        BY <2>2 DEF ReportCleanup
    <2>3. CASE HelperExits
        BY <2>3 DEF HelperExits
    <2>4. QED
        BY <1>7, <2>1, <2>2, <2>3
<1>8. CASE WorkloadKilled \/ WorkloadEnds
    BY <1>0, <1>8 DEF WorkloadKilled, WorkloadEnds, helperVars, socketVars
<1>9. CASE HelperDies
    <2>1. /\ helper' = "dead" /\ helperOpen' = FALSE
          /\ UNCHANGED <<env, ended, status>>
        BY <1>9 DEF HelperDies
    <2>2. (work = "none" <=> ended = NoStatus /\ ~Alive)'
        BY <1>9, <2>1, Orphaned
    <2>3. (helperOpen = ~HelperDone)'
        BY <2>1
    <2>4. /\ (env \in {"clean", "residual"} => work \in {"none", "reaped"})'
          /\ work' \in {"none", "running", "terminated", "killed", "zombie", "reaped"}
        BY <1>9, <2>1, Orphaned
    <2>5. QED
        BY <2>1, <2>2, <2>3, <2>4
<1>10. CASE UNCHANGED <<helperOpen, helperVars, workVars>>
    BY <1>10 DEF helperVars
<1>11. QED
    BY <1>1, <1>2, <1>3, <1>4, <1>5, <1>6, <1>7, <1>8, <1>9, <1>10, HelperFrame DEF HelperStep

(* The helper takes the Network Environment down, and exits by itself, only *)
(* when its Workload has been reaped, whatever is lost or killed.           *)
THEOREM EnvironmentOutlivesWorkload == SessionSpec => []WorkloadBeforeEnvironment
<1>1. HelperInv => WorkloadBeforeEnvironment
    BY DEF HelperInv, WorkloadBeforeEnvironment
<1>2. QED
    BY <1>1, HelperInit1, HelperInvStep, PTL DEF SessionSpec

-----------------------------------------------------------------------------
(* The conversation with the helper *)

FramesOf(types, values) == [type : types, value : values]
HelperFrames ==
    FramesOf({"READY", "ACTIVE", "PROFILE_OK", "PROFILE_FAILED", "PROFILE_STATE_UNKNOWN",
              "CLEANUP_OK", "CLEANUP_FAILED", "ERROR INVALID_RUNTIME_COMMAND",
              "ERROR STOP_FAILED"}, {0})
    \cup FramesOf({"START_FAILED"}, {125, 126, 127})
    \cup FramesOf({"WORKLOAD_EXITED"}, ExitCodes)
    \cup FramesOf({"WORKLOAD_SIGNALED"}, Signals)

Conversations == [state : ConversationStates, pending : Changes \cup {NoChange}]

EventsOf(kinds, values, changes) == [kind : kinds, value : values, change : changes]
HelperEvents ==
    EventsOf({"applied", "restored", "profile_state_unknown"}, {0}, Changes)
    \cup EventsOf({"ready", "activated", "cleanup_succeeded", "cleanup_failed",
                   "conversation_lost"}, {0}, Changes \cup {NoChange})
    \cup EventsOf({"activation_failed"}, {125, 126, 127}, Changes \cup {NoChange})
    \cup EventsOf({"workload_exited"}, ExitCodes, Changes \cup {NoChange})
    \cup EventsOf({"workload_signaled"}, Signals, Changes \cup {NoChange})

(* The step of the fold in ReceiveFrames. *)
ReceiveNext(r, f) ==
    IF r.conv.state = "failed" THEN r
    ELSE LET s == ReceiveFrame(r.conv, f)
         IN  [conv |-> s.conv, events |-> Append(r.events, s.event)]

RF == INSTANCE Folding WITH Op <- ReceiveNext

LEMMA ReceiveFramesIsFold ==
    ASSUME NEW conv, NEW fs
    PROVE  ReceiveFrames(conv, fs) = RF!Fold([conv |-> conv, events |-> <<>>], fs)
BY DEF ReceiveFrames, ReceiveNext, FoldLeft, MapThenFoldSet, RF!Fold, RF!Largest, Max

(* The legal frames, each with the states it is legal in and what comes of  *)
(* it; any other frame loses the conversation.                              *)
Legal(c, f, e, type, from, to, kind) ==
    /\ f.type = type /\ c.state \in from /\ e.conv = [state |-> to, pending |-> NoChange]
    /\ e.event = HelperEvent(kind, f.value, c.pending)

Answer(c, f, e, type, to, kind) ==
    c.pending # NoChange /\ Legal(c, f, e, type, {"active"}, to, kind)

FrameRules(c, f, e) ==
    \/ Answer(c, f, e, "PROFILE_OK", "active", "applied")
    \/ Answer(c, f, e, "PROFILE_FAILED", "active", "restored")
    \/ Answer(c, f, e, "PROFILE_STATE_UNKNOWN", "profile_state_unknown", "profile_state_unknown")
    \/ Legal(c, f, e, "READY", {"waiting_for_ready"}, "waiting_for_activation", "ready")
    \/ Legal(c, f, e, "ACTIVE", {"waiting_for_activation"}, "active", "activated")
    \/ Legal(c, f, e, "START_FAILED", {"waiting_for_activation"}, "waiting_for_cleanup",
             "activation_failed")
    \/ Legal(c, f, e, "WORKLOAD_EXITED", {"active", "profile_state_unknown"},
             "waiting_for_cleanup", "workload_exited")
    \/ Legal(c, f, e, "WORKLOAD_SIGNALED", {"active", "profile_state_unknown"},
             "waiting_for_cleanup", "workload_signaled")
    \/ Legal(c, f, e, "CLEANUP_OK", {"waiting_for_cleanup"}, "finished", "cleanup_succeeded")
    \/ Legal(c, f, e, "CLEANUP_FAILED", {"waiting_for_cleanup"}, "finished", "cleanup_failed")
    \/ /\ e.conv = [state |-> "failed", pending |-> NoChange]
       /\ e.event = HelperEvent("conversation_lost", 0, NoChange)

LEMMA FrameByFrame == ASSUME NEW c, NEW f PROVE FrameRules(c, f, ReceiveFrame(c, f))
<1> DEFINE e == ReceiveFrame(c, f)
           Becomes(to, kind) ==
               e = [conv |-> [state |-> to, pending |-> NoChange],
                    event |-> HelperEvent(kind, f.value, c.pending)]
           Lost == e = [conv |-> [state |-> "failed", pending |-> NoChange],
                        event |-> HelperEvent("conversation_lost", 0, NoChange)]
<1>1. f.type = "PROFILE_OK" =>
          IF c.state = "active" /\ c.pending # NoChange THEN Becomes("active", "applied") ELSE Lost
    BY DEF ReceiveFrame
<1>2. f.type = "PROFILE_FAILED" =>
          IF c.state = "active" /\ c.pending # NoChange THEN Becomes("active", "restored") ELSE Lost
    BY DEF ReceiveFrame
<1>3. f.type = "PROFILE_STATE_UNKNOWN" =>
          IF c.state = "active" /\ c.pending # NoChange THEN Becomes("profile_state_unknown", "profile_state_unknown") ELSE Lost
    BY DEF ReceiveFrame
<1>4. f.type = "READY" =>
          IF c.state = "waiting_for_ready" THEN Becomes("waiting_for_activation", "ready") ELSE Lost
    BY DEF ReceiveFrame
<1>5. f.type = "ACTIVE" =>
          IF c.state = "waiting_for_activation" THEN Becomes("active", "activated") ELSE Lost
    BY DEF ReceiveFrame
<1>6. f.type = "START_FAILED" =>
          IF c.state = "waiting_for_activation" THEN Becomes("waiting_for_cleanup", "activation_failed") ELSE Lost
    BY DEF ReceiveFrame
<1>7. f.type = "WORKLOAD_EXITED" =>
          IF c.state \in {"active", "profile_state_unknown"} THEN Becomes("waiting_for_cleanup", "workload_exited") ELSE Lost
    BY DEF ReceiveFrame
<1>8. f.type = "WORKLOAD_SIGNALED" =>
          IF c.state \in {"active", "profile_state_unknown"} THEN Becomes("waiting_for_cleanup", "workload_signaled") ELSE Lost
    BY DEF ReceiveFrame
<1>9. f.type = "CLEANUP_OK" =>
          IF c.state = "waiting_for_cleanup" THEN Becomes("finished", "cleanup_succeeded") ELSE Lost
    BY DEF ReceiveFrame
<1>10. f.type = "CLEANUP_FAILED" =>
          IF c.state = "waiting_for_cleanup" THEN Becomes("finished", "cleanup_failed") ELSE Lost
    BY DEF ReceiveFrame
<1>11. f.type \notin {"PROFILE_OK", "PROFILE_FAILED", "PROFILE_STATE_UNKNOWN", "READY", "ACTIVE",
                     "START_FAILED", "WORKLOAD_EXITED", "WORKLOAD_SIGNALED", "CLEANUP_OK",
                     "CLEANUP_FAILED"} => Lost
    BY DEF ReceiveFrame
<1>15. SUFFICES FrameRules(c, f, e)
    OBVIOUS
<1> HIDE DEF e
<1>12. CASE Lost
    BY <1>12 DEF FrameRules
<1>13. CASE ~Lost
    BY <1>1, <1>2, <1>3, <1>4, <1>5, <1>6, <1>7, <1>8, <1>9, <1>10, <1>11, <1>13
       DEF FrameRules, Answer, Legal
<1>14. QED
    BY <1>12, <1>13

LEMMA EventIsOf ==
    ASSUME NEW K, NEW V, NEW C, NEW k \in K, NEW v \in V, NEW c \in C
    PROVE  HelperEvent(k, v, c) \in EventsOf(K, V, C)
BY DEF HelperEvent, EventsOf

LEMMA ReceiveFrameTypes ==
    ASSUME NEW c \in Conversations, NEW f \in HelperFrames
    PROVE  /\ ReceiveFrame(c, f).conv \in Conversations
           /\ ReceiveFrame(c, f).event \in HelperEvents
<1> DEFINE e == ReceiveFrame(c, f)
<1>1. FrameRules(c, f, e)
    BY FrameByFrame
<1> HIDE DEF e
<1>2. e.conv \in Conversations
    <2>1. \A st \in ConversationStates : [state |-> st, pending |-> NoChange] \in Conversations
        BY DEF Conversations
    <2>2. \E st \in ConversationStates : e.conv = [state |-> st, pending |-> NoChange]
        BY <1>1 DEF FrameRules, Answer, Legal, ConversationStates
    <2>3. QED
        BY <2>1, <2>2
<1>3. e.event \in HelperEvents
    <2>1. c.pending \in Changes \cup {NoChange}
        BY DEF Conversations
    <2>2. CASE e.event = HelperEvent("conversation_lost", 0, NoChange)
        BY <2>2 DEF HelperEvent, HelperEvents, EventsOf
    <2>3. CASE e.event # HelperEvent("conversation_lost", 0, NoChange)
        <3>1. PICK k : e.event = HelperEvent(k, f.value, c.pending)
                       /\ <<f.type, k>> \in {<<"PROFILE_OK", "applied">>, <<"PROFILE_FAILED", "restored">>,
                             <<"PROFILE_STATE_UNKNOWN", "profile_state_unknown">>, <<"READY", "ready">>,
                             <<"ACTIVE", "activated">>, <<"START_FAILED", "activation_failed">>,
                             <<"WORKLOAD_EXITED", "workload_exited">>,
                             <<"WORKLOAD_SIGNALED", "workload_signaled">>,
                             <<"CLEANUP_OK", "cleanup_succeeded">>,
                             <<"CLEANUP_FAILED", "cleanup_failed">>}
                       /\ (k \in {"applied", "restored", "profile_state_unknown"} =>
                             c.pending \in Changes)
            BY <1>1, <2>1, <2>3 DEF FrameRules, Answer, Legal
        <3> USE DEF HelperFrames, FramesOf
        <3>2. CASE k \in {"applied", "restored", "profile_state_unknown"}
            <4>1. f.value = 0
                BY <3>1, <3>2
            <4>2. QED
                <5>1. HelperEvent(k, f.value, c.pending)
                      \in EventsOf({"applied", "restored", "profile_state_unknown"}, {0}, Changes)
                    BY <3>1, <3>2, <4>1, EventIsOf
                <5>2. QED
                    BY <3>1, <5>1 DEF HelperEvents
        <3>3. CASE k \in {"ready", "activated", "cleanup_succeeded", "cleanup_failed"}
            <4>1. f.value = 0
                BY <3>1, <3>3
            <4>2. QED
                <5>1. HelperEvent(k, f.value, c.pending)
                      \in EventsOf({"ready", "activated", "cleanup_succeeded", "cleanup_failed",
                                    "conversation_lost"}, {0},
                                   Changes \cup {NoChange})
                    BY <2>1, <3>3, <4>1, EventIsOf
                <5>2. QED
                    BY <3>1, <5>1 DEF HelperEvents
        <3>4. CASE k = "activation_failed"
            <4>1. f.value \in {125, 126, 127}
                BY <3>1, <3>4
            <4>2. QED
                <5>1. HelperEvent(k, f.value, c.pending)
                      \in EventsOf({"activation_failed"}, {125, 126, 127},
                                   Changes \cup {NoChange})
                    <6> DEFINE K == {"activation_failed"}
                               V == {125, 126, 127}
                               C == Changes \cup {NoChange}
                    <6>1. k \in K
                        BY <3>4
                    <6>2. f.value \in V /\ c.pending \in C
                        BY <2>1, <4>1
                    <6> HIDE DEF K, V, C
                    <6>3. HelperEvent(k, f.value, c.pending) \in EventsOf(K, V, C)
                        BY ONLY <6>1, <6>2, EventIsOf
                    <6>4. QED
                        BY ONLY <6>3 DEF K, V, C
                <5>2. EventsOf({"activation_failed"}, {125, 126, 127}, Changes \cup {NoChange})
                      \subseteq HelperEvents
                    BY DEF HelperEvents
                <5>3. QED
                    BY <3>1, <5>1, <5>2
        <3>5. CASE k = "workload_exited"
            <4>1. f.value \in ExitCodes
                BY <3>1, <3>5
            <4>2. QED
                <5>1. HelperEvent(k, f.value, c.pending)
                      \in EventsOf({"workload_exited"}, ExitCodes,
                                   Changes \cup {NoChange})
                    BY <2>1, <3>5, <4>1, EventIsOf
                <5>2. QED
                    BY <3>1, <5>1 DEF HelperEvents
        <3>6. CASE k = "workload_signaled"
            <4>1. f.value \in Signals
                BY <3>1, <3>6
            <4>2. QED
                <5>1. HelperEvent(k, f.value, c.pending)
                      \in EventsOf({"workload_signaled"}, Signals,
                                   Changes \cup {NoChange})
                    BY <2>1, <3>6, <4>1, EventIsOf
                <5>2. QED
                    BY <3>1, <5>1 DEF HelperEvents
        <3>7. QED
            BY <3>1, <3>2, <3>3, <3>4, <3>5, <3>6
    <2>4. QED
        BY <2>2, <2>3
<1>4. QED
    BY <1>2, <1>3 DEF e

(* The frames of one read, one at a time: the events are those of the first *)
(* frames, up to and including one that fails the conversation.             *)
OneByOne(conv, fs, received, cv) ==
    /\ cv[0] = conv
    /\ received.conv \in Conversations
    /\ received.events \in Seq(HelperEvents)
    /\ Len(received.events) <= Len(fs)
    /\ fs # <<>> /\ conv.state # "failed" => received.events # <<>>
    /\ received.conv = cv[Len(received.events)]
    /\ \A j \in 1 .. Len(received.events) :
          /\ cv[j - 1] \in Conversations /\ cv[j - 1].state # "failed" /\ cv[j] \in Conversations
          /\ cv[j] = ReceiveFrame(cv[j - 1], fs[j]).conv
          /\ received.events[j] = ReceiveFrame(cv[j - 1], fs[j]).event

LEMMA FramesOneByOne ==
    ASSUME NEW conv \in Conversations, NEW fs \in Seq(HelperFrames)
    PROVE  \E cv : OneByOne(conv, fs, ReceiveFrames(conv, fs), cv)
<1> DEFINE n == Len(fs)
           b == [conv |-> conv, events |-> <<>>]
<1>1. PICK v : RF!IsTrace(b, fs, v) /\ RF!Fold(b, fs) = v[n]
    BY RF!FoldTrace
<1>2. n \in Nat /\ v[0] = b /\ \A i \in 0 .. n - 1 : v[i + 1] = ReceiveNext(v[i], fs[i + 1])
    BY <1>1 DEF RF!IsTrace
<1> DEFINE cv == [i \in 0 .. n |-> v[i].conv]
           Typed(i) == v[i].conv \in Conversations /\ v[i].events \in Seq(HelperEvents)
           Counted(i) ==
               /\ Len(v[i].events) <= i
               /\ v[i].conv.state # "failed" => Len(v[i].events) = i
               /\ fs # <<>> /\ conv.state # "failed" /\ i # 0 => v[i].events # <<>>
               /\ cv[i] = cv[Len(v[i].events)]
           From(j, e) ==
               /\ cv[j - 1] \in Conversations /\ cv[j - 1].state # "failed" /\ cv[j] \in Conversations
               /\ cv[j] = ReceiveFrame(cv[j - 1], fs[j]).conv
               /\ e = ReceiveFrame(cv[j - 1], fs[j]).event
           W == {i \in 0 .. n : Typed(i) /\ Counted(i)
                                /\ \A j \in 1 .. Len(v[i].events) : From(j, v[i].events[j])}
<1>3. 0 \in W
    <2>1. 0 \in 0 .. n /\ v[0].conv = conv /\ v[0].events = <<>> /\ Len(v[0].events) = 0
        BY <1>2
    <2>2. Typed(0)
        BY <2>1
    <2>3. Counted(0)
        BY <2>1
    <2>4. \A j \in 1 .. Len(v[0].events) : From(j, v[0].events[j])
        BY <2>1
    <2>5. QED
        BY <2>1, <2>2, <2>3, <2>4
<1>4. ASSUME NEW i \in 0 .. n - 1, i \in W PROVE i + 1 \in W
    <2>1. /\ i \in Nat /\ i \in 0 .. n /\ i + 1 \in 0 .. n /\ i + 1 \in 1 .. n /\ (i + 1) - 1 = i
          /\ i + 1 # 0 /\ fs # <<>>
        BY <1>2
    <2>2. fs[i + 1] \in HelperFrames
        BY <2>1
    <2>3. v[i + 1] = ReceiveNext(v[i], fs[i + 1])
        BY <1>2
    <2>4. Typed(i) /\ Counted(i) /\ \A j \in 1 .. Len(v[i].events) : From(j, v[i].events[j])
        BY <1>4
    <2>5. cv[i] = v[i].conv /\ cv[i + 1] = v[i + 1].conv
        BY <2>1
    <2> HIDE DEF W, cv, n
    <2>6. CASE v[i].conv.state = "failed"
        <3>1. v[i + 1] = v[i]
            BY <2>3, <2>6 DEF ReceiveNext
        <3>2. i # 0 \/ conv.state = "failed"
            BY <1>2, <2>6
        <3>3. Typed(i + 1)
            BY <2>4, <3>1
        <3>9. Len(v[i].events) \in Nat /\ Len(v[i].events) <= i + 1
            BY <2>1, <2>4
        <3>10. Counted(i + 1)
            BY <2>4, <2>5, <2>6, <3>1, <3>2, <3>9
        <3>4. \A j \in 1 .. Len(v[i + 1].events) : From(j, v[i + 1].events[j])
            BY <2>4, <3>1
        <3>5. QED
            BY <2>1, <3>3, <3>4, <3>10 DEF W
    <2>7. CASE v[i].conv.state # "failed"
        <3> DEFINE s == ReceiveFrame(v[i].conv, fs[i + 1])
        <3>1. v[i + 1] = [conv |-> s.conv, events |-> Append(v[i].events, s.event)]
            BY <2>3, <2>7 DEF ReceiveNext
        <3>2. s.conv \in Conversations /\ s.event \in HelperEvents
            BY <2>2, <2>4, ReceiveFrameTypes
        <3>3. /\ v[i + 1].conv = s.conv /\ v[i + 1].events = Append(v[i].events, s.event)
              /\ Len(v[i].events) = i
            BY <2>4, <2>7, <3>1
        <3> HIDE DEF s
        <3>4. /\ v[i + 1].events \in Seq(HelperEvents) /\ Len(v[i + 1].events) = i + 1
              /\ v[i + 1].events # <<>> /\ v[i + 1].events[i + 1] = s.event
              /\ \A j \in 1 .. i : v[i + 1].events[j] = v[i].events[j]
            BY <2>1, <2>4, <3>2, <3>3
        <3>5. Typed(i + 1) /\ Counted(i + 1)
            BY <2>1, <3>2, <3>3, <3>4
        <3>6. From(i + 1, v[i + 1].events[i + 1])
            BY <2>1, <2>4, <2>5, <2>7, <3>2, <3>3, <3>4 DEF s
        <3>7. ASSUME NEW j \in 1 .. i + 1 PROVE From(j, v[i + 1].events[j])
            <4>1. CASE j = i + 1
                BY <3>6, <4>1
            <4>2. CASE j # i + 1
                <5>1. j \in 1 .. i
                    BY <2>1, <4>2
                <5>2. From(j, v[i].events[j])
                    BY <2>4, <3>3, <5>1
                <5>3. QED
                    BY <3>4, <5>1, <5>2
            <4>3. QED
                BY <4>1, <4>2
        <3>8. QED
            BY <2>1, <3>4, <3>5, <3>7 DEF W
    <2>8. QED
        BY <2>6, <2>7
<1>5. n \in 0 .. n
    BY <1>2
<1> HIDE DEF W
<1>6. n \in W
    BY <1>2, <1>3, <1>4, <1>5, RF!CountingUp
<1>7. ReceiveFrames(conv, fs) = v[n]
    BY <1>1, ReceiveFramesIsFold
<1>8. /\ Typed(n) /\ Counted(n) /\ \A j \in 1 .. Len(v[n].events) : From(j, v[n].events[j])
    BY <1>5, <1>6 DEF W
<1>11. cv[0] = conv /\ cv[n] = v[n].conv /\ (fs # <<>> => n # 0)
    <2>1. 0 \in 0 .. n /\ n \in 0 .. n
        BY <1>2
    <2>2. QED
        BY <1>2, <2>1
<1> HIDE DEF cv, n
<1>9. OneByOne(conv, fs, v[n], cv)
    BY <1>8, <1>11 DEF OneByOne, n
<1>10. QED
    BY <1>7, <1>9

-----------------------------------------------------------------------------
(* The control plane *)

Values == {Unrestricted} \cup {c.value : c \in Changes}
Profiles == [Settings -> Values]

Texts == [text : {"none", "ATTACHED", "DETACHED", "HELP", "STATUS", "STOPPING",
                  "PROFILE_CHANGED", "ERROR profile", "ERROR stopping", "ERROR parse",
                  "ERROR too long", "ERROR too many"},
          change : Changes \cup {NoChange}, profile : Profiles]

Flights == {NoFlight} \cup [change : Changes, reply : Nat, unexecuted : BOOLEAN]

Queues == Seq([cmd : ControllerCommands, gen : Nat])
ControlPlanes ==
    [queue : Queues, inflight : Flights,
     confirmed : Profiles, gen : Nat, attached : BOOLEAN, stopping : BOOLEAN,
     terminal : BOOLEAN, failed : BOOLEAN]

(* The actions of a batch: what a command or a result may lead to, and the  *)
(* one that fails the Session.                                              *)
PlainActions == [type : {"stop", "disconnect", "send"}, text : Texts, change : {NoChange}]
Dispatches == [type : {"dispatch"}, text : Texts, change : Changes]
BatchActions == PlainActions \cup Dispatches

IsDispatch(a) == a.type = "dispatch"
EndsInDispatch(acts) == acts # <<>> /\ IsDispatch(acts[Len(acts)])

(* A batch with a change has it as its last action. *)
InOrder(acts) ==
    /\ acts \in Seq(BatchActions)
    /\ \A i \in 1 .. Len(acts) : IsDispatch(acts[i]) => i = Len(acts)

StopsFirst(acts) == acts # <<>> /\ acts[1].type = "stop"

LEMMA ActionTypes ==
    /\ UnrestrictedProfile \in Profiles
    /\ \A t \in {"stop", "disconnect"} : Action(t) \in PlainActions
    /\ \A t \in Texts : Send(t) \in PlainActions
    /\ \A c \in Changes : Dispatch(c) \in Dispatches
<1>1. UnrestrictedProfile \in Profiles
    BY DEF UnrestrictedProfile, Profiles, Values
<1>2. Text("none") \in Texts
    BY <1>1 DEF Text, Texts
<1>3. QED
    BY <1>1, <1>2 DEF Action, Send, Dispatch, PlainActions, Dispatches

LEMMA TextTypes ==
    /\ \A t \in {"ATTACHED", "DETACHED", "HELP", "STOPPING", "ERROR stopping", "ERROR parse",
                 "ERROR too long", "ERROR too many"} : Text(t) \in Texts
    /\ \A p \in Profiles : StatusText(p) \in Texts
    /\ \A c \in Changes : \A t \in {"PROFILE_CHANGED", "ERROR profile"} : ReplyText(t, c) \in Texts
BY ActionTypes DEF Text, StatusText, ReplyText, Texts

LEMMA JoinFacts ==
    ASSUME NEW X, NEW s \in Seq(X), NEW p \in Seq(X)
    PROVE  /\ s \o p \in Seq(X) /\ Len(s \o p) = Len(s) + Len(p)
           /\ \A i \in 1 .. Len(s) : (s \o p)[i] = s[i]
           /\ \A i \in 1 .. Len(p) : (s \o p)[Len(s) + i] = p[i]
OBVIOUS

(* append_before_dispatch() keeps the order and adds what it is given. *)
LEMMA AppendBefore ==
    ASSUME NEW acts, InOrder(acts), NEW a \in PlainActions
    PROVE  LET t == AppendBeforeDispatch(acts, a)
           IN  /\ InOrder(t) /\ t # <<>>
               /\ EndsInDispatch(t) <=> EndsInDispatch(acts)
               /\ EndsInDispatch(t) => t[Len(t)] = acts[Len(acts)]
               /\ StopsFirst(acts) => StopsFirst(t)
<1> DEFINE n == Len(acts)
           t == AppendBeforeDispatch(acts, a)
<1>1. n \in Nat /\ acts \in Seq(BatchActions) /\ a \in BatchActions /\ ~IsDispatch(a)
    BY DEF InOrder, BatchActions, PlainActions, IsDispatch
<1>2. CASE EndsInDispatch(acts)
    <2>1. t = Front(acts) \o <<a, acts[n]>> /\ n # 0
        BY <1>1, <1>2 DEF AppendBeforeDispatch, EndsInDispatch, IsDispatch, Last
    <2>2. Front(acts) \in Seq(BatchActions) /\ Len(Front(acts)) = n - 1
          /\ \A i \in 1 .. n - 1 : Front(acts)[i] = acts[i]
        BY <1>1, <2>1 DEF Front
    <2>3. acts[n] \in BatchActions
        BY <1>1, <2>1
    <2>4. /\ t \in Seq(BatchActions) /\ Len(t) = n + 1 /\ t[n] = a /\ t[n + 1] = acts[n]
          /\ \A i \in 1 .. n - 1 : t[i] = acts[i]
        <3> DEFINE fr == Front(acts)
                   pr == <<a, acts[n]>>
        <3>1. pr \in Seq(BatchActions) /\ Len(pr) = 2 /\ pr[1] = a /\ pr[2] = acts[n]
            BY <1>1, <2>3
        <3>2. fr \in Seq(BatchActions) /\ Len(fr) = n - 1 /\ n - 1 \in Nat
              /\ \A i \in 1 .. n - 1 : fr[i] = acts[i]
            BY <1>1, <2>1, <2>2
        <3>3. t = fr \o pr
            BY <2>1
        <3> HIDE DEF fr, pr, t
        <3>4. t \in Seq(BatchActions) /\ Len(t) = Len(fr) + Len(pr)
              /\ (\A i \in 1 .. Len(fr) : t[i] = fr[i])
              /\ (\A i \in 1 .. Len(pr) : t[Len(fr) + i] = pr[i])
            <4>1. /\ fr \o pr \in Seq(BatchActions) /\ Len(fr \o pr) = Len(fr) + Len(pr)
                  /\ \A i \in 1 .. Len(fr) : (fr \o pr)[i] = fr[i]
                  /\ \A i \in 1 .. Len(pr) : (fr \o pr)[Len(fr) + i] = pr[i]
                <5>1. fr \in Seq(BatchActions) /\ pr \in Seq(BatchActions)
                    BY <3>1, <3>2
                <5>2. QED
                    BY <5>1, JoinFacts
            <4>2. QED
                BY <3>3, <4>1
        <3>5. (n - 1) + 1 = n /\ (n - 1) + 2 = n + 1 /\ 1 \in 1 .. 2 /\ 2 \in 1 .. 2
            BY <1>1
        <3>6. QED
            BY <3>1, <3>2, <3>4, <3>5
    <2> HIDE DEF t
    <2>5. \A i \in 1 .. n - 1 : ~IsDispatch(acts[i])
        BY <1>1 DEF InOrder
    <2>6. ASSUME NEW i \in 1 .. Len(t), IsDispatch(t[i]) PROVE i = Len(t)
        <3>1. i \in 1 .. n - 1 \/ i = n \/ i = n + 1
            BY <1>1, <2>4
        <3>2. QED
            BY <1>1, <2>4, <2>5, <2>6, <3>1
    <2>7. InOrder(t) /\ t # <<>>
        BY <1>1, <2>4, <2>6 DEF InOrder
    <2>8. EndsInDispatch(t) /\ t[Len(t)] = acts[n]
        BY <1>2, <2>4, <2>7 DEF EndsInDispatch
    <2>9. ASSUME StopsFirst(acts) PROVE StopsFirst(t)
        <3>1. n # 1
            BY <1>2, <2>9 DEF StopsFirst, EndsInDispatch, IsDispatch
        <3>2. 1 \in 1 .. n - 1
            <4>1. n # 0
                BY <2>1
            <4>2. \A k \in Nat : k # 0 /\ k # 1 => 1 \in 1 .. k - 1
                OBVIOUS
            <4>3. QED
                BY <1>1, <3>1, <4>1, <4>2
        <3>3. QED
            BY <2>4, <2>7, <2>9, <3>2 DEF StopsFirst
    <2>10. QED
        BY <1>2, <2>7, <2>8, <2>9 DEF t
<1>3. CASE ~EndsInDispatch(acts)
    <2>1. t = Append(acts, a)
        BY <1>1, <1>3 DEF AppendBeforeDispatch, EndsInDispatch, IsDispatch, Last
    <2>2. /\ t \in Seq(BatchActions) /\ Len(t) = n + 1 /\ t[n + 1] = a
          /\ \A i \in 1 .. n : t[i] = acts[i]
        BY <1>1, <2>1
    <2> HIDE DEF t
    <2>3. \A i \in 1 .. n : ~IsDispatch(acts[i])
        BY <1>1, <1>3 DEF InOrder, EndsInDispatch
    <2>4. InOrder(t) /\ t # <<>>
        BY <1>1, <2>2, <2>3 DEF InOrder
    <2>5. ~EndsInDispatch(t)
        BY <1>1, <2>2 DEF EndsInDispatch
    <2>6. StopsFirst(acts) => StopsFirst(t)
        BY <1>1, <2>2, <2>4 DEF StopsFirst
    <2>7. QED
        BY <1>3, <2>4, <2>5, <2>6 DEF t
<1>4. QED
    BY <1>2, <1>3

(* A dispatch that is taken out again leaves the other actions, in order. *)
KeepAction(kept, a) == IF a.type = "dispatch" THEN kept ELSE Append(kept, a)
KA == INSTANCE Folding WITH Op <- KeepAction

LEMMA NoDispatchLeft ==
    ASSUME NEW acts \in Seq(BatchActions)
    PROVE  /\ WithoutDispatch(acts) \in Seq(PlainActions)
           /\ StopsFirst(acts) => StopsFirst(WithoutDispatch(acts))
<1> DEFINE n == Len(acts)
           T == [i \in 0 .. n |-> {t \in Seq(PlainActions) :
                                     i # 0 /\ StopsFirst(acts) => StopsFirst(t)}]
<1>1. n \in Nat /\ <<>> \in T[0]
    OBVIOUS
<1>2. ASSUME NEW i \in 1 .. n, NEW t \in T[i - 1] PROVE KeepAction(t, acts[i]) \in T[i]
    <2>1. /\ i - 1 \in 0 .. n /\ i \in 0 .. n /\ t \in Seq(PlainActions)
          /\ (i - 1 # 0 /\ StopsFirst(acts) => StopsFirst(t)) /\ acts[i] \in BatchActions
        BY <1>1
    <2>2. CASE IsDispatch(acts[i])
        <3>1. KeepAction(t, acts[i]) = t
            BY <2>2 DEF KeepAction, IsDispatch
        <3>2. i = 1 => ~StopsFirst(acts)
            BY <2>2 DEF StopsFirst, IsDispatch
        <3>3. QED
            BY <2>1, <3>1, <3>2
    <2>3. CASE ~IsDispatch(acts[i])
        <3>1. KeepAction(t, acts[i]) = Append(t, acts[i]) /\ acts[i] \in PlainActions
            BY <2>1, <2>3 DEF KeepAction, IsDispatch, BatchActions, Dispatches
        <3>2. Append(t, acts[i]) \in Seq(PlainActions) /\ Append(t, acts[i]) # <<>>
              /\ (t # <<>> => Append(t, acts[i])[1] = t[1])
              /\ (t = <<>> => Append(t, acts[i])[1] = acts[i])
            BY <2>1, <3>1
        <3>3. t = <<>> /\ StopsFirst(acts) => i = 1
            BY <1>1, <2>1 DEF StopsFirst
        <3>4. StopsFirst(acts) => StopsFirst(Append(t, acts[i]))
            <4>1. CASE t = <<>>
                BY <3>2, <3>3, <4>1 DEF StopsFirst
            <4>2. CASE t # <<>>
                <5>1. i # 1 => (StopsFirst(acts) => StopsFirst(t))
                    BY <2>1
                <5>2. QED
                    BY <3>2, <4>2, <5>1 DEF StopsFirst
            <4>3. QED
                BY <4>1, <4>2
        <3>5. QED
            BY <2>1, <3>1, <3>2, <3>4
    <2>4. QED
        BY <2>2, <2>3
<1> HIDE DEF T
<1>3. KA!Fold(<<>>, acts) \in T[n]
    BY <1>1, <1>2, KA!FoldAdvances
<1>4. WithoutDispatch(acts) = KA!Fold(<<>>, acts)
    BY DEF WithoutDispatch, KeepAction, FoldLeft, MapThenFoldSet, KA!Fold, KA!Largest, Max
<1>5. WithoutDispatch(acts) \in Seq(PlainActions)
      /\ (n # 0 /\ StopsFirst(acts) => StopsFirst(WithoutDispatch(acts)))
    BY <1>1, <1>3, <1>4 DEF T
<1>6. QED
    BY <1>5 DEF StopsFirst

(* Fields of the control plane that no command changes, ... *)
Kept(c0, c) ==
    /\ c.terminal = c0.terminal /\ c.failed = c0.failed /\ c.gen = c0.gen
    /\ c.confirmed = c0.confirmed
(* ... a change in flight with or without someone to tell, ... *)
SameFlight(f, g) == g = f \/ (f # NoFlight /\ g = [f EXCEPT !.reply = 0])

(* ... and the batches that come of commands: what is in flight was before, *)
(* or is the last action; who has asked for a stop has it first.            *)
Batches(c0) ==
    {s \in [cp : ControlPlanes, acts : Seq(BatchActions)] :
       /\ InOrder(s.acts)
       /\ s.cp.inflight.unexecuted <=> EndsInDispatch(s.acts)
       /\ s.cp.inflight.unexecuted =>
             ~s.cp.stopping /\ s.acts[Len(s.acts)].change = s.cp.inflight.change
       /\ Kept(c0, s.cp)
       /\ c0.stopping => s.cp.stopping
       /\ s.cp.attached => c0.attached
       /\ s.cp.stopping /\ ~c0.stopping => StopsFirst(s.acts)
       /\ IF InFlight(c0) THEN SameFlight(c0.inflight, s.cp.inflight)
                          ELSE s.cp.inflight = NoFlight \/ s.cp.inflight.unexecuted}

LEMMA FlightTypes ==
    ASSUME NEW f \in Flights
    PROVE  /\ f.change \in Changes \cup {NoChange} /\ f.reply \in Nat /\ f.unexecuted \in BOOLEAN
           /\ f # NoFlight <=> f.change \in Changes
           /\ f # NoFlight => f \in [change : Changes, reply : Nat, unexecuted : BOOLEAN]
           /\ f.unexecuted => f # NoFlight
<1>1. CASE f = NoFlight
    <2>1. f.change = NoChange /\ f.reply = 0 /\ f.unexecuted = FALSE
        BY <1>1 DEF NoFlight
    <2>2. ~f.unexecuted
        BY <2>1
    <2>3. f.unexecuted \in BOOLEAN
        BY <2>1
    <2>4. QED
        BY <1>1, <2>1, <2>2, <2>3, NoChangeAssumption
<1>2. CASE f # NoFlight
    <2>1. f \in [change : Changes, reply : Nat, unexecuted : BOOLEAN]
        BY <1>2 DEF Flights
    <2>2. QED
        BY <1>2, <2>1
<1>3. QED
    BY <1>1, <1>2

LEMMA CancelledFlight ==
    ASSUME NEW f \in Flights, f # NoFlight
    PROVE  LET g == [f EXCEPT !.reply = 0]
           IN  /\ g \in Flights /\ g # NoFlight /\ g.change = f.change
               /\ g.unexecuted = f.unexecuted /\ g.reply = 0
<1>1. f \in [change : Changes, reply : Nat, unexecuted : BOOLEAN]
    BY FlightTypes
<1>2. [f EXCEPT !.reply = 0] \in [change : Changes, reply : Nat, unexecuted : BOOLEAN]
    BY <1>1
<1>3. QED
    BY <1>1, <1>2, FlightTypes DEF Flights

(* Which fields an operator of the control plane changes. *)
OnlyFlightQueue(c, d, flight, queue) ==
    /\ d \in ControlPlanes /\ d.inflight = flight /\ d.queue = queue /\ Kept(c, d)

LEMMA Cancel ==
    ASSUME NEW c \in ControlPlanes
    PROVE  LET d == CancelReply(c)
           IN  /\ OnlyFlightQueue(c, d, d.inflight, c.queue)
               /\ SameFlight(c.inflight, d.inflight)
               /\ InFlight(c) <=> InFlight(d)
               /\ d.inflight.unexecuted = c.inflight.unexecuted
               /\ d.inflight.change = c.inflight.change
               /\ InFlight(c) => d.inflight.reply = 0
               /\ d.attached = c.attached /\ d.stopping = c.stopping
<1> USE DEF OnlyFlightQueue, SameFlight, InFlight, Kept
<1>1. CASE InFlight(c)
    <2>1. c.inflight \in Flights /\ c.inflight # NoFlight
        BY <1>1 DEF ControlPlanes
    <2> DEFINE g == [c.inflight EXCEPT !.reply = 0]
    <2>2. /\ g \in Flights /\ g # NoFlight /\ g.change = c.inflight.change
          /\ g.unexecuted = c.inflight.unexecuted /\ g.reply = 0
        BY <2>1, CancelledFlight
    <2>3. CancelReply(c) = [c EXCEPT !.inflight = g]
        BY <1>1 DEF CancelReply, ControlPlanes
    <2> HIDE DEF g
    <2>4. [c EXCEPT !.inflight = g] \in ControlPlanes
        BY <2>2 DEF ControlPlanes
    <2>5. [c EXCEPT !.inflight = g].inflight = g
        BY DEF ControlPlanes
    <2>6. CancelReply(c).inflight = g
        BY <2>3, <2>5
    <2>7. Kept(c, CancelReply(c)) /\ CancelReply(c).queue = c.queue
          /\ CancelReply(c).attached = c.attached /\ CancelReply(c).stopping = c.stopping
        BY <2>3 DEF ControlPlanes
    <2>8. g = c.inflight \/ (c.inflight # NoFlight /\ g = [c.inflight EXCEPT !.reply = 0])
        BY <2>1 DEF g
    <2>9. CancelReply(c) \in ControlPlanes
        BY <2>3, <2>4
    <2>10. QED
        BY <1>1, <2>1, <2>2, <2>6, <2>7, <2>8, <2>9
<1>2. CASE ~InFlight(c)
    <2>1. CancelReply(c) = c
        BY <1>2 DEF CancelReply
    <2>2. OnlyFlightQueue(c, c, c.inflight, c.queue) /\ SameFlight(c.inflight, c.inflight)
        OBVIOUS
    <2>3. QED
        BY ONLY <1>2, <2>1, <2>2 DEF InFlight
<1>3. QED
    BY <1>1, <1>2

LEMMA Disconnected ==
    ASSUME NEW c \in ControlPlanes
    PROVE  LET d == DisconnectController(c)
           IN  /\ OnlyFlightQueue(c, d, d.inflight, <<>>)
               /\ SameFlight(c.inflight, d.inflight)
               /\ InFlight(c) <=> InFlight(d)
               /\ d.inflight.unexecuted = c.inflight.unexecuted
               /\ d.inflight.change = c.inflight.change
               /\ ~d.attached /\ d.stopping = c.stopping
<1> DEFINE c1 == [c EXCEPT !.attached = FALSE, !.queue = <<>>]
<1>1. /\ c1 \in ControlPlanes /\ c1.inflight = c.inflight /\ c1.queue = <<>> /\ ~c1.attached
      /\ c1.stopping = c.stopping /\ Kept(c, c1)
    <2> DEFINE d == [c EXCEPT !.attached = FALSE]
    <2>1. d \in ControlPlanes
        BY DEF ControlPlanes
    <2>2. /\ d.inflight = c.inflight /\ ~d.attached
          /\ d.stopping = c.stopping /\ Kept(c, d)
        BY DEF ControlPlanes, Kept
    <2>3. c1 = [d EXCEPT !.queue = <<>>]
        OBVIOUS
    <2> HIDE DEF d, c1
    <2>4. c1 \in ControlPlanes
        <3>1. <<>> \in Queues
            BY DEF Queues
        <3>2. QED
            BY <2>1, <2>3, <3>1 DEF ControlPlanes
    <2>5. /\ c1.inflight = d.inflight /\ c1.queue = <<>> /\ c1.attached = d.attached
          /\ c1.stopping = d.stopping /\ Kept(d, c1)
        BY <2>1, <2>3 DEF ControlPlanes, Kept
    <2>6. QED
        BY <2>2, <2>4, <2>5 DEF Kept
<1>2. DisconnectController(c) = CancelReply(c1)
    BY DEF DisconnectController
<1> HIDE DEF c1
<1>3. QED
    BY <1>1, <1>2, Cancel DEF OnlyFlightQueue, Kept, InFlight

LEMMA SayKeeps ==
    ASSUME NEW c0, NEW s \in Batches(c0), NEW t \in Texts
    PROVE  Say(s, t) \in Batches(c0) /\ Say(s, t).cp = s.cp
<1> DEFINE acts == AppendBeforeDispatch(s.acts, Send(t))
<1>1. Say(s, t) = [cp |-> s.cp, acts |-> acts]
    BY DEF Say, Batches
<1>2. Send(t) \in PlainActions /\ InOrder(s.acts)
    BY ActionTypes DEF Batches
<1>3. /\ InOrder(acts) /\ acts # <<>> /\ (EndsInDispatch(acts) <=> EndsInDispatch(s.acts))
      /\ (EndsInDispatch(acts) => acts[Len(acts)] = s.acts[Len(s.acts)])
      /\ (StopsFirst(s.acts) => StopsFirst(acts))
    BY <1>2, AppendBefore
<1> HIDE DEF acts
<1>4. acts \in Seq(BatchActions)
    BY <1>3 DEF InOrder
<1>5. QED
    BY <1>1, <1>3, <1>4 DEF Batches

LEMMA SayAndDisconnectKeeps ==
    ASSUME NEW c0, NEW s \in Batches(c0), NEW t \in Texts
    PROVE  SayAndDisconnect(s, t) \in Batches(c0) /\ SayAndDisconnect(s, t).cp.queue = <<>>
           /\ ~SayAndDisconnect(s, t).cp.attached
<1> DEFINE said == Say(s, t)
           acts == AppendBeforeDispatch(said.acts, Action("disconnect"))
           d == DisconnectController(said.cp)
<1>1. said \in Batches(c0)
    BY SayKeeps
<1>2. SayAndDisconnect(s, t) = [cp |-> d, acts |-> acts]
    BY DEF SayAndDisconnect
<1> HIDE DEF said
<1>3. Action("disconnect") \in PlainActions /\ InOrder(said.acts) /\ said.cp \in ControlPlanes
    BY <1>1, ActionTypes DEF Batches
<1>4. /\ InOrder(acts) /\ acts # <<>> /\ (EndsInDispatch(acts) <=> EndsInDispatch(said.acts))
      /\ (EndsInDispatch(acts) => acts[Len(acts)] = said.acts[Len(said.acts)])
      /\ (StopsFirst(said.acts) => StopsFirst(acts))
    BY <1>3, AppendBefore
<1>5. /\ OnlyFlightQueue(said.cp, d, d.inflight, <<>>)
      /\ SameFlight(said.cp.inflight, d.inflight)
      /\ InFlight(said.cp) <=> InFlight(d)
      /\ d.inflight.unexecuted = said.cp.inflight.unexecuted
      /\ d.inflight.change = said.cp.inflight.change
      /\ ~d.attached /\ d.stopping = said.cp.stopping
    BY <1>3, Disconnected
<1> HIDE DEF acts, d
<1>6. acts \in Seq(BatchActions)
    BY <1>4 DEF InOrder
<1>7. IF InFlight(c0) THEN SameFlight(c0.inflight, d.inflight)
                      ELSE d.inflight = NoFlight \/ d.inflight.unexecuted
    BY <1>1, <1>5 DEF Batches, SameFlight, InFlight
<1>8. [cp |-> d, acts |-> acts] \in Batches(c0)
    BY <1>1, <1>4, <1>5, <1>6, <1>7 DEF Batches, OnlyFlightQueue, Kept
<1>9. QED
    BY <1>2, <1>5, <1>8 DEF OnlyFlightQueue

LEMMA SameFlightAgain ==
    ASSUME NEW f \in Flights, NEW g, NEW h, SameFlight(f, g), SameFlight(g, h)
    PROVE  SameFlight(f, h)
<1>1. CASE f = NoFlight
    BY <1>1 DEF SameFlight
<1>2. CASE f # NoFlight
    <2>1. f \in [change : Changes, reply : Nat, unexecuted : BOOLEAN]
        BY <1>2, FlightTypes
    <2>2. [[f EXCEPT !.reply = 0] EXCEPT !.reply = 0] = [f EXCEPT !.reply = 0]
        BY <2>1
    <2>3. QED
        BY <1>2, <2>2 DEF SameFlight
<1>3. QED
    BY <1>1, <1>2

(* The control plane before a batch: what was dispatched has been executed. *)
Settled(c) == c \in ControlPlanes /\ ~c.inflight.unexecuted

LEMMA SettledFlight ==
    ASSUME NEW c0, Settled(c0), NEW s \in Batches(c0)
    PROVE  InFlight(c0) => InFlight(s.cp) /\ ~s.cp.inflight.unexecuted
<1>1. c0.inflight \in Flights
    BY DEF Settled, ControlPlanes
<1>2. ASSUME InFlight(c0) PROVE InFlight(s.cp) /\ ~s.cp.inflight.unexecuted
    <2>1. SameFlight(c0.inflight, s.cp.inflight)
        BY <1>2 DEF Batches
    <2>2. QED
        BY <1>1, <1>2, <2>1, CancelledFlight DEF SameFlight, InFlight, Settled
<1>3. QED
    BY <1>2

(* What enter_stopping() puts first stays before everything else. *)
LEMMA StopFirstFacts ==
    ASSUME NEW c0, NEW s \in Batches(c0)
    PROVE  LET first == StopFirst(s)
           IN  /\ InOrder(first)
               /\ EndsInDispatch(first) <=> EndsInDispatch(s.acts)
               /\ ~c0.stopping => StopsFirst(first)
<1> DEFINE first == StopFirst(s)
<1>1. CASE s.cp.stopping
    <2>1. first = s.acts
        BY <1>1 DEF StopFirst
    <2>2. QED
        BY <1>1, <2>1 DEF Batches
<1>2. CASE ~s.cp.stopping
    <2> DEFINE one == <<Action("stop")>>
               acts == s.acts
    <2>1. first = one \o acts
        BY <1>2 DEF StopFirst
    <2>2. Action("stop") \in PlainActions
        BY ActionTypes
    <2>3. /\ one \in Seq(BatchActions) /\ Len(one) = 1 /\ one[1] = Action("stop")
          /\ one[1].type = "stop" /\ ~IsDispatch(one[1])
        BY <2>2 DEF BatchActions, Action, IsDispatch
    <2>4. acts \in Seq(BatchActions) /\ Len(acts) \in Nat
          /\ \A i \in 1 .. Len(acts) : IsDispatch(acts[i]) => i = Len(acts)
        BY DEF Batches, InOrder
    <2> HIDE DEF one, acts, first
    <2>5. /\ one \o acts \in Seq(BatchActions) /\ Len(one \o acts) = Len(one) + Len(acts)
          /\ \A i \in 1 .. Len(one) : (one \o acts)[i] = one[i]
          /\ \A i \in 1 .. Len(acts) : (one \o acts)[Len(one) + i] = acts[i]
        BY <2>3, <2>4, JoinFacts
    <2>6. /\ first \in Seq(BatchActions) /\ Len(first) = 1 + Len(acts) /\ first[1] = one[1]
          /\ \A i \in 1 .. Len(acts) : first[1 + i] = acts[i]
        BY <2>1, <2>3, <2>5
    <2>7. ASSUME NEW i \in 1 .. Len(first), IsDispatch(first[i]) PROVE i = Len(first)
        <3>1. i # 1
            BY <2>3, <2>6, <2>7
        <3>2. i - 1 \in 1 .. Len(acts) /\ 1 + (i - 1) = i
            BY <2>4, <2>6, <3>1
        <3>3. IsDispatch(acts[i - 1])
            BY <2>6, <2>7, <3>2
        <3>4. QED
            BY <2>4, <2>6, <3>2, <3>3
    <2>8. InOrder(first) /\ first # <<>>
        BY <2>4, <2>6, <2>7 DEF InOrder
    <2>9. StopsFirst(first)
        BY <2>3, <2>6, <2>8 DEF StopsFirst
    <2>10. EndsInDispatch(first) <=> EndsInDispatch(acts)
        <3>1. CASE acts = <<>>
            <4>1. Len(acts) = 0
                BY <3>1
            <4>2. QED
                BY <2>3, <2>6, <3>1, <4>1 DEF EndsInDispatch
        <3>2. CASE acts # <<>>
            <4>1. Len(acts) \in 1 .. Len(acts)
                BY <2>4, <3>2
            <4>2. first[Len(first)] = acts[Len(acts)]
                BY <2>6, <4>1
            <4>3. QED
                BY <2>8, <3>2, <4>2 DEF EndsInDispatch
        <3>3. QED
            BY <3>1, <3>2
    <2>11. QED
        BY <2>8, <2>9, <2>10 DEF first, acts
<1>3. QED
    BY <1>1, <1>2

LEMMA EnterStoppingKeeps ==
    ASSUME NEW c0, Settled(c0), NEW s \in Batches(c0)
    PROVE  /\ EnterStopping(s) \in Batches(c0)
           /\ EnterStopping(s).cp.queue = <<>> /\ EnterStopping(s).cp.stopping
           /\ EnterStopping(s).cp.attached = s.cp.attached
<1> DEFINE first == StopFirst(s)
           drop == s.cp.inflight.unexecuted
           acts == IF drop THEN WithoutDispatch(first) ELSE first
           c1 == [s.cp EXCEPT !.stopping = TRUE, !.queue = <<>>]
           c2 == CancelReply(c1)
           c3 == IF drop THEN [c2 EXCEPT !.inflight = NoFlight] ELSE c2
           r == [cp |-> c3, acts |-> acts]
<1>1. EnterStopping(s) = Say(r, Text("STOPPING"))
    BY DEF EnterStopping
<1>2. s.cp \in ControlPlanes /\ c0.inflight \in Flights /\ s.cp.inflight \in Flights
    BY DEF Batches, Settled, ControlPlanes
<1>3. /\ c1 \in ControlPlanes /\ c1.inflight = s.cp.inflight /\ c1.queue = <<>>
      /\ c1.stopping /\ c1.attached = s.cp.attached /\ Kept(s.cp, c1)
    <2> DEFINE d == [s.cp EXCEPT !.stopping = TRUE]
    <2>1. d \in ControlPlanes
        BY <1>2 DEF ControlPlanes
    <2>2. /\ d.inflight = s.cp.inflight /\ d.stopping
          /\ d.attached = s.cp.attached /\ Kept(s.cp, d)
        BY <1>2 DEF ControlPlanes, Kept
    <2>3. c1 = [d EXCEPT !.queue = <<>>] /\ <<>> \in Queues
        BY DEF Queues
    <2> HIDE DEF d, c1
    <2>4. c1 \in ControlPlanes
        BY <2>1, <2>3 DEF ControlPlanes
    <2>5. /\ c1.inflight = d.inflight /\ c1.queue = <<>> /\ c1.attached = d.attached
          /\ c1.stopping = d.stopping /\ Kept(d, c1)
        BY <2>1, <2>3 DEF ControlPlanes, Kept
    <2>6. QED
        BY <2>2, <2>4, <2>5 DEF Kept
<1> HIDE DEF c1
<1>4. /\ OnlyFlightQueue(c1, c2, c2.inflight, c1.queue) /\ SameFlight(c1.inflight, c2.inflight)
      /\ c2.inflight.unexecuted = c1.inflight.unexecuted
      /\ c2.attached = c1.attached /\ c2.stopping = c1.stopping
      /\ (InFlight(c1) <=> InFlight(c2))
    BY <1>3, Cancel
<1> HIDE DEF c2
<1>5. /\ c3 \in ControlPlanes /\ c3.queue = <<>> /\ c3.stopping /\ c3.attached = s.cp.attached
      /\ Kept(s.cp, c3) /\ c3.inflight = IF drop THEN NoFlight ELSE c2.inflight
    <2>1. NoFlight \in Flights
        BY DEF Flights
    <2>2. /\ c2 \in ControlPlanes /\ c2.queue = <<>> /\ c2.stopping /\ c2.attached = s.cp.attached
          /\ Kept(s.cp, c2)
        BY <1>3, <1>4 DEF OnlyFlightQueue, Kept
    <2>3. [c2 EXCEPT !.inflight = NoFlight] \in ControlPlanes
        BY <2>1, <2>2 DEF ControlPlanes
    <2>4. LET d == [c2 EXCEPT !.inflight = NoFlight]
          IN  d.queue = c2.queue /\ d.stopping = c2.stopping /\ d.attached = c2.attached
              /\ Kept(c2, d) /\ d.inflight = NoFlight
        BY <2>2 DEF ControlPlanes, Kept
    <2>5. QED
        BY <2>2, <2>3, <2>4 DEF Kept
<1>6. ~c3.inflight.unexecuted
    <2>1. ~NoFlight.unexecuted
        BY DEF NoFlight
    <2>2. QED
        BY <1>3, <1>4, <1>5, <2>1
<1>7. /\ InOrder(first) /\ (EndsInDispatch(first) <=> EndsInDispatch(s.acts))
      /\ (~c0.stopping => StopsFirst(first)) /\ (drop <=> EndsInDispatch(s.acts))
    <2>1. drop <=> EndsInDispatch(s.acts)
        BY DEF Batches
    <2>2. QED
        BY <2>1, StopFirstFacts
<1> HIDE DEF first
<1>8. /\ InOrder(acts) /\ ~EndsInDispatch(acts) /\ (~c0.stopping => StopsFirst(acts))
    <2>1. CASE drop
        <3>1. first \in Seq(BatchActions)
            BY <1>7 DEF InOrder
        <3>2. acts \in Seq(PlainActions) /\ (StopsFirst(first) => StopsFirst(acts))
            BY <2>1, <3>1, NoDispatchLeft
        <3> HIDE DEF acts
        <3>3. \A i \in 1 .. Len(acts) : acts[i] \in PlainActions /\ ~IsDispatch(acts[i])
            <4>1. \A a \in PlainActions : ~IsDispatch(a)
                BY DEF PlainActions, IsDispatch
            <4>2. \A i \in 1 .. Len(acts) : acts[i] \in PlainActions
                BY <3>2
            <4>3. QED
                BY <4>1, <4>2
        <3>4. acts \in Seq(BatchActions) /\ Len(acts) \in Nat
            BY <3>2 DEF BatchActions
        <3>5. acts # <<>> => Len(acts) \in 1 .. Len(acts)
            BY <3>4
        <3>6. QED
            BY <1>7, <3>2, <3>3, <3>4, <3>5 DEF InOrder, EndsInDispatch
    <2>2. CASE ~drop
        BY <1>7, <2>2
    <2>3. QED
        BY <2>1, <2>2
<1>9. IF InFlight(c0) THEN SameFlight(c0.inflight, c3.inflight)
                      ELSE c3.inflight = NoFlight
    <2>1. CASE InFlight(c0)
        <3>1. ~drop /\ SameFlight(c0.inflight, s.cp.inflight)
            BY <2>1, SettledFlight DEF Batches
        <3>2. c3.inflight = c2.inflight /\ SameFlight(s.cp.inflight, c2.inflight)
            BY <1>3, <1>4, <1>5, <3>1
        <3>3. QED
            BY <1>2, <2>1, <3>1, <3>2, SameFlightAgain
    <2>2. CASE ~InFlight(c0)
        <3>1. s.cp.inflight = NoFlight \/ drop
            BY <2>2 DEF Batches
        <3>2. QED
            BY <1>3, <1>4, <1>5, <2>2, <3>1 DEF InFlight
    <2>3. QED
        BY <2>1, <2>2
<1>10. Kept(c0, s.cp) /\ (s.cp.attached => c0.attached)
    BY DEF Batches
<1> HIDE DEF acts, c3
<1>11. acts \in Seq(BatchActions)
    BY <1>8 DEF InOrder
<1>12. r \in [cp : ControlPlanes, acts : Seq(BatchActions)] /\ r.cp = c3 /\ r.acts = acts
    BY <1>5, <1>11
<1> HIDE DEF r
<1>13. r \in Batches(c0)
    BY <1>5, <1>6, <1>8, <1>9, <1>10, <1>12 DEF Batches, Kept
<1>14. Text("STOPPING") \in Texts
    BY TextTypes
<1>15. QED
    BY <1>1, <1>5, <1>12, <1>13, <1>14, SayKeeps

(* process_command(): the batch stays in order, and the queue of the        *)
(* connection within its limit; it grows only behind a change in flight.    *)
QueueGrows(s, t) ==
    /\ Len(t.cp.queue) <= Len(s.cp.queue) \/ Len(t.cp.queue) <= QueueLimit
    /\ ~InFlight(s.cp) => Len(t.cp.queue) <= Len(s.cp.queue)

LEMMA ProcessCommandKeeps ==
    ASSUME NEW c0, Settled(c0), NEW s \in Batches(c0), NEW cmd \in ControllerCommands
    PROVE  /\ ProcessCommand(s, cmd) \in Batches(c0)
           /\ QueueGrows(s, ProcessCommand(s, cmd))
<1> DEFINE t == ProcessCommand(s, cmd)
<1>1. /\ s.cp \in ControlPlanes /\ s = [cp |-> s.cp, acts |-> s.acts]
      /\ s.cp.queue \in Queues /\ Len(s.cp.queue) \in Nat /\ s.cp.gen \in Nat
      /\ s.cp.inflight \in Flights /\ Len(<<>>) = 0 /\ s.cp.confirmed \in Profiles
    BY DEF Batches, ControlPlanes, Queues
<1>2. /\ cmd.type \in {"change", "help", "status", "stop", "detach"}
      /\ cmd.type = "change" => cmd.change \in Changes
    BY DEF ControllerCommands, SetCommand, PlainCommand
<1>3. CASE cmd.type = "stop"
    <2>1. t = EnterStopping(s)
        BY <1>3 DEF ProcessCommand
    <2>2. EnterStopping(s) \in Batches(c0) /\ EnterStopping(s).cp.queue = <<>>
        BY EnterStoppingKeeps
    <2>3. QED
        BY <1>1, <2>1, <2>2 DEF QueueGrows
<1>4. CASE cmd.type = "change" /\ s.cp.stopping
    <2>1. t = Say(s, Text("ERROR stopping"))
        BY <1>4 DEF ProcessCommand
    <2>2. Text("ERROR stopping") \in Texts
        BY TextTypes
    <2>3. t \in Batches(c0) /\ t.cp = s.cp
        BY <2>1, <2>2, SayKeeps
    <2>4. QED
        BY <1>1, <2>3 DEF QueueGrows
<1>5. CASE cmd.type # "stop" /\ InFlight(s.cp) /\ ~s.cp.stopping
    <2>1. CASE QueueFull(s)
        <3>1. t = SayAndDisconnect(s, Text("ERROR too many"))
            BY <1>5, <2>1 DEF ProcessCommand
        <3>2. Text("ERROR too many") \in Texts
            BY TextTypes
        <3>3. t \in Batches(c0) /\ t.cp.queue = <<>>
            BY <3>1, <3>2, SayAndDisconnectKeeps
        <3>4. QED
            BY <1>1, <3>3 DEF QueueGrows
    <2>2. CASE ~QueueFull(s)
        <3> DEFINE q == Append(s.cp.queue, [cmd |-> cmd, gen |-> s.cp.gen])
                   c == [s.cp EXCEPT !.queue = q]
        <3>1. t = [s EXCEPT !.cp.queue = q]
            BY <1>5, <2>2 DEF ProcessCommand
        <3>2. q \in Queues /\ Len(q) = Len(s.cp.queue) + 1
            BY <1>1 DEF Queues
        <3>3. Len(q) <= QueueLimit
            BY <1>1, <2>2, <3>2, QueueLimitAssumption DEF QueueFull
        <3>4. t = [cp |-> c, acts |-> s.acts]
            BY <1>1, <3>1
        <3> HIDE DEF q
        <3>5. c \in ControlPlanes
            BY <1>1, <3>2 DEF ControlPlanes
        <3>6. /\ c.queue = q /\ c.inflight = s.cp.inflight /\ c.attached = s.cp.attached
              /\ c.stopping = s.cp.stopping /\ Kept(s.cp, c)
            BY <1>1 DEF ControlPlanes, Kept
        <3> HIDE DEF c, t
        <3>7. t \in Batches(c0)
            BY <3>4, <3>5, <3>6 DEF Batches, Kept
        <3>8. QED
            BY <1>5, <3>3, <3>4, <3>6, <3>7 DEF QueueGrows, t
    <2>3. QED
        BY <2>1, <2>2
<1>6. CASE /\ cmd.type # "stop" /\ ~(cmd.type = "change" /\ s.cp.stopping)
           /\ ~(InFlight(s.cp) /\ ~s.cp.stopping)
    <2>1. CASE cmd.type = "help"
        <3>1. t = Say(s, Text("HELP"))
            BY <1>6, <2>1 DEF ProcessCommand
        <3>2. Text("HELP") \in Texts
            BY TextTypes
        <3>3. QED
            BY <1>1, <3>1, <3>2, SayKeeps DEF QueueGrows
    <2>2. CASE cmd.type = "status"
        <3>1. t = Say(s, StatusText(s.cp.confirmed))
            BY <1>6, <2>2 DEF ProcessCommand
        <3>2. StatusText(s.cp.confirmed) \in Texts
            BY <1>1, TextTypes
        <3>3. QED
            BY <1>1, <3>1, <3>2, SayKeeps DEF QueueGrows
    <2>3. CASE cmd.type = "detach"
        <3>1. t = SayAndDisconnect(s, Text("DETACHED"))
            BY <1>6, <2>3 DEF ProcessCommand
        <3>2. Text("DETACHED") \in Texts
            BY TextTypes
        <3>3. t \in Batches(c0) /\ t.cp.queue = <<>>
            BY <3>1, <3>2, SayAndDisconnectKeeps
        <3>4. QED
            BY <1>1, <3>3 DEF QueueGrows
    <2>4. CASE cmd.type = "change"
        <3> DEFINE f == [change |-> cmd.change, reply |-> s.cp.gen, unexecuted |-> TRUE]
                   c == [s.cp EXCEPT !.inflight = f]
                   a == Dispatch(cmd.change)
                   acts == Append(s.acts, a)
        <3>1. ~s.cp.stopping /\ ~InFlight(s.cp)
            BY <1>6, <2>4
        <3>2. t = [cp |-> c, acts |-> acts]
            BY <1>6, <2>4 DEF ProcessCommand
        <3>3. f \in Flights /\ f.unexecuted /\ f.change = cmd.change
            BY <1>1, <1>2, <2>4 DEF Flights
        <3> HIDE DEF f
        <3>4. c \in ControlPlanes
            BY <1>1, <3>3 DEF ControlPlanes
        <3>5. /\ c.inflight = f /\ c.queue = s.cp.queue /\ c.attached = s.cp.attached
              /\ c.stopping = s.cp.stopping /\ Kept(s.cp, c)
            BY <1>1 DEF ControlPlanes, Kept
        <3>6. a \in Dispatches /\ a.type = "dispatch" /\ a.change = cmd.change
            BY <1>2, <2>4, ActionTypes DEF Dispatch
        <3>7. ~s.cp.inflight.unexecuted /\ ~EndsInDispatch(s.acts) /\ InOrder(s.acts)
            <4>1. ~s.cp.inflight.unexecuted
                BY <1>1, <3>1, FlightTypes DEF InFlight
            <4>2. QED
                BY <4>1 DEF Batches
        <3>8. ~InFlight(c0)
            BY <3>1, SettledFlight
        <3>9. s.acts \in Seq(BatchActions) /\ a \in BatchActions
            BY <3>6 DEF Batches, BatchActions
        <3> HIDE DEF a, c, t
        <3>10. /\ acts \in Seq(BatchActions) /\ Len(acts) = Len(s.acts) + 1
               /\ acts[Len(acts)] = a /\ acts # <<>>
               /\ \A i \in 1 .. Len(s.acts) : acts[i] = s.acts[i]
            BY <3>9
        <3>11. InOrder(acts)
            <4>1. \A i \in 1 .. Len(s.acts) : ~IsDispatch(s.acts[i])
                BY <3>7 DEF InOrder, EndsInDispatch
            <4>2. Len(s.acts) \in Nat
                BY <3>9
            <4> HIDE DEF acts
            <4>3. \A i \in 1 .. Len(acts) : i = Len(acts) \/ i \in 1 .. Len(s.acts)
                BY <3>10, <4>2
            <4>4. QED
                BY <3>10, <4>1, <4>3 DEF InOrder
        <3>12. StopsFirst(s.acts) => StopsFirst(acts)
            <4>1. s.acts # <<>> => 1 \in 1 .. Len(s.acts)
                BY <3>9
            <4>2. QED
                BY <3>10, <4>1 DEF StopsFirst
        <3>13. EndsInDispatch(acts)
            BY <3>6, <3>10 DEF EndsInDispatch, IsDispatch
        <3> HIDE DEF acts
        <3>14. /\ t.cp = c /\ t.acts = acts /\ t \in [cp : ControlPlanes, acts : Seq(BatchActions)]
            BY <3>2, <3>4, <3>10
        <3>15. /\ Kept(c0, s.cp) /\ (c0.stopping => s.cp.stopping) /\ (s.cp.attached => c0.attached)
            BY DEF Batches
        <3>16. t \in Batches(c0)
            BY <3>1, <3>3, <3>5, <3>6, <3>8, <3>10, <3>11, <3>12, <3>13, <3>14, <3>15
               DEF Batches, Kept
        <3>17. QED
            BY <1>1, <3>5, <3>14, <3>16 DEF QueueGrows, t
    <2>5. QED
        BY <1>2, <1>6, <2>1, <2>2, <2>3, <2>4
<1>7. QED
    BY <1>2, <1>3, <1>4, <1>5, <1>6

(* The state of a control plane that has nothing to execute yet, and what   *)
(* of another one it shares.                                                *)
Same(c, d) ==
    /\ d.failed = c.failed /\ d.terminal = c.terminal /\ d.stopping = c.stopping

LEMMA EmptyBatch ==
    ASSUME NEW c0, Settled(c0), NEW acts \in Seq(PlainActions), Len(acts) <= 1
    PROVE  [cp |-> c0, acts |-> acts] \in Batches(c0)
<1> DEFINE s == [cp |-> c0, acts |-> acts]
<1>1. \A a \in PlainActions : ~IsDispatch(a) /\ a \in BatchActions
    BY DEF PlainActions, IsDispatch, BatchActions
<1>2. Len(acts) \in Nat /\ acts \in Seq(BatchActions) /\ \A i \in 1 .. Len(acts) : acts[i] \in PlainActions
    BY DEF BatchActions
<1>3. InOrder(acts) /\ ~EndsInDispatch(acts)
    <2>1. acts # <<>> => Len(acts) \in 1 .. Len(acts)
        BY <1>2
    <2>2. QED
        BY <1>1, <1>2, <2>1 DEF InOrder, EndsInDispatch
<1>4. c0 \in ControlPlanes /\ ~c0.inflight.unexecuted
    BY DEF Settled
<1>5. s \in [cp : ControlPlanes, acts : Seq(BatchActions)] /\ s.cp = c0 /\ s.acts = acts
    BY <1>2, <1>4
<1> HIDE DEF s
<1>6. IF InFlight(c0) THEN SameFlight(c0.inflight, s.cp.inflight)
                      ELSE s.cp.inflight = NoFlight \/ s.cp.inflight.unexecuted
    BY <1>5 DEF InFlight, SameFlight
<1>7. s \in Batches(c0)
    BY <1>3, <1>4, <1>5, <1>6 DEF Batches, Kept
<1>8. QED
    BY <1>7 DEF s

LEMMA ExecutedFacts ==
    ASSUME NEW c \in ControlPlanes
    PROVE  LET d == Executed(c)
           IN  /\ Settled(d) /\ OnlyFlightQueue(c, d, d.inflight, c.queue) /\ Same(c, d)
               /\ d.attached = c.attached /\ (InFlight(d) <=> InFlight(c))
               /\ d.inflight.change = c.inflight.change /\ d.inflight.reply = c.inflight.reply
<1>1. c.inflight \in Flights
    BY DEF ControlPlanes
<1>2. CASE InFlight(c)
    <2> DEFINE f == [c.inflight EXCEPT !.unexecuted = FALSE]
               d == [c EXCEPT !.inflight = f]
    <2>1. c.inflight \in [change : Changes, reply : Nat, unexecuted : BOOLEAN]
        BY <1>1, <1>2, FlightTypes DEF InFlight
    <2>2. Executed(c) = d
        BY <1>2 DEF Executed, ControlPlanes
    <2>3. /\ f \in [change : Changes, reply : Nat, unexecuted : BOOLEAN] /\ ~f.unexecuted
          /\ f.change = c.inflight.change /\ f.reply = c.inflight.reply
        BY <2>1
    <2>4. f \in Flights /\ f # NoFlight
        BY <2>3, FlightTypes DEF Flights
    <2> HIDE DEF f
    <2>5. d \in ControlPlanes
        BY <2>4 DEF ControlPlanes
    <2>6. /\ d.inflight = f /\ d.queue = c.queue /\ d.attached = c.attached
          /\ Kept(c, d) /\ Same(c, d)
        BY DEF ControlPlanes, Kept, Same
    <2> HIDE DEF d
    <2>7. QED
        BY <1>2, <2>2, <2>3, <2>4, <2>5, <2>6 DEF Settled, OnlyFlightQueue, InFlight
<1>3. CASE ~InFlight(c)
    <2>1. Executed(c) = c
        BY <1>3 DEF Executed
    <2>2. ~c.inflight.unexecuted
        BY <1>1, <1>3, FlightTypes DEF InFlight
    <2>3. Settled(c) /\ OnlyFlightQueue(c, c, c.inflight, c.queue) /\ Same(c, c)
        BY <2>2 DEF Settled, OnlyFlightQueue, Same, Kept
    <2>4. QED
        BY ONLY <1>3, <2>1, <2>3 DEF InFlight
<1>4. QED
    BY <1>2, <1>3

(* One line, and the lines of one read. *)
PL == INSTANCE Folding WITH Op <- ProcessLine

LEMMA ProcessLineKeeps ==
    ASSUME NEW c0, Settled(c0), NEW s \in Batches(c0), NEW l \in ControllerLines
    PROVE  ProcessLine(s, l) \in Batches(c0) /\ QueueGrows(s, ProcessLine(s, l))
<1>1. s.cp.queue \in Queues /\ Len(s.cp.queue) \in Nat /\ Len(<<>>) = 0
    BY DEF Batches, ControlPlanes, Queues
<1>2. CASE ~s.cp.attached \/ l.type = "empty"
    <2>1. ProcessLine(s, l) = s
        BY <1>2 DEF ProcessLine
    <2>2. QueueGrows(s, s)
        BY <1>1 DEF QueueGrows
    <2>3. QED
        BY <2>1, <2>2
<1>3. CASE s.cp.attached /\ l.type = "invalid"
    <2>1. ProcessLine(s, l) = Say(s, Text("ERROR parse")) /\ Text("ERROR parse") \in Texts
        BY <1>3, TextTypes DEF ProcessLine
    <2>2. ProcessLine(s, l) \in Batches(c0) /\ ProcessLine(s, l).cp = s.cp
        BY <2>1, SayKeeps
    <2>3. QED
        BY <1>1, <2>2 DEF QueueGrows
<1>4. CASE s.cp.attached /\ l.type = "oversized"
    <2>1. /\ ProcessLine(s, l) = SayAndDisconnect(s, Text("ERROR too long"))
          /\ Text("ERROR too long") \in Texts
        BY <1>4, TextTypes DEF ProcessLine
    <2>2. ProcessLine(s, l) \in Batches(c0) /\ ProcessLine(s, l).cp.queue = <<>>
        BY <2>1, SayAndDisconnectKeeps
    <2>3. QED
        BY <1>1, <2>2 DEF QueueGrows
<1>5. CASE s.cp.attached /\ l.type \notin {"empty", "invalid", "oversized"}
    <2>1. ProcessLine(s, l) = ProcessCommand(s, l)
        BY <1>5 DEF ProcessLine
    <2>2. l \in ControllerCommands
        BY <1>5 DEF ControllerLines, PlainCommand
    <2>3. QED
        BY <2>1, <2>2, ProcessCommandKeeps
<1>6. QED
    BY <1>2, <1>3, <1>4, <1>5

LEMMA HandleBytesFacts ==
    ASSUME NEW c \in ControlPlanes, Len(c.queue) <= QueueLimit, NEW ls \in Seq(ControllerLines)
    PROVE  /\ HandleBytes(c, ls) \in Batches(Executed(c))
           /\ Len(HandleBytes(c, ls).cp.queue) <= QueueLimit
<1> DEFINE c0 == Executed(c)
           b == [cp |-> c0, acts |-> <<>>]
           T == {s \in Batches(c0) : Len(s.cp.queue) <= QueueLimit}
<1>1. Settled(c0) /\ c0.queue = c.queue
    BY ExecutedFacts DEF OnlyFlightQueue
<1>2. b \in T
    <2>1. <<>> \in Seq(PlainActions) /\ Len(<<>>) <= 1
        OBVIOUS
    <2>2. QED
        BY <1>1, <2>1, EmptyBatch
<1>3. CASE ~c.attached \/ c.terminal \/ c.failed
    BY <1>2, <1>3 DEF HandleBytes
<1>4. CASE ~(~c.attached \/ c.terminal \/ c.failed)
    <2>1. HandleBytes(c, ls) = FoldLeft(ProcessLine, b, ls)
        BY <1>4 DEF HandleBytes
    <2>2. FoldLeft(ProcessLine, b, ls) = PL!Fold(b, ls)
        BY DEF FoldLeft, MapThenFoldSet, PL!Fold, PL!Largest, Max
    <2> HIDE DEF c0, b
    <2>3. ASSUME NEW i \in 1 .. Len(ls), NEW s \in T PROVE ProcessLine(s, ls[i]) \in T
        <3>1. s \in Batches(c0) /\ ls[i] \in ControllerLines /\ Len(s.cp.queue) <= QueueLimit
            OBVIOUS
        <3>2. ProcessLine(s, ls[i]) \in Batches(c0) /\ QueueGrows(s, ProcessLine(s, ls[i]))
            BY <1>1, <3>1, ProcessLineKeeps
        <3>3. \A t \in Batches(c0) : Len(t.cp.queue) \in Nat
            BY DEF Batches, ControlPlanes, Queues
        <3>4. QED
            BY <3>1, <3>2, <3>3, QueueLimitAssumption DEF QueueGrows
    <2> HIDE DEF T
    <2>4. PL!Fold(b, ls) \in T
        BY <1>2, <2>3, PL!FoldStaysIn
    <2>5. QED
        BY <2>1, <2>2, <2>4 DEF T, c0
<1>5. QED
    BY <1>3, <1>4

(* What the queue holds goes through process_command() in order, or stays.  *)
DrainNext(r, q) ==
    CASE r.cp.attached /\ InFlight(r.cp) ->
            [r EXCEPT !.cp.queue = Append(@, q)]
      [] r.cp.attached /\ ~InFlight(r.cp) /\ q.gen = r.cp.gen ->
            ProcessCommand(r, q.cmd)
      [] OTHER -> r

DQ == INSTANCE Folding WITH Op <- DrainNext

LEMMA ElementOf ==
    ASSUME NEW X, NEW q \in Seq(X)
    PROVE  Len(q) \in Nat /\ \A i \in 1 .. Len(q) : q[i] \in X
OBVIOUS

LEMMA DrainQueueFacts ==
    ASSUME NEW c0, Settled(c0), NEW s \in Batches(c0), Len(s.cp.queue) <= QueueLimit
    PROVE  DrainQueue(s) \in Batches(c0) /\ Len(DrainQueue(s).cp.queue) <= QueueLimit
<1> DEFINE c == [s.cp EXCEPT !.queue = <<>>]
           b == [cp |-> c, acts |-> s.acts]
           queue == s.cp.queue
           T == [i \in 0 .. Len(queue) |-> {r \in Batches(c0) : Len(r.cp.queue) <= i}]
<1>1. /\ s.cp \in ControlPlanes /\ s = [cp |-> s.cp, acts |-> s.acts]
      /\ queue \in Queues /\ queue \in Seq([cmd : ControllerCommands, gen : Nat])
      /\ Len(queue) \in Nat /\ Len(<<>>) = 0 /\ <<>> \in Queues
    BY DEF Batches, ControlPlanes, Queues
<1>2. DrainQueue(s) = DQ!Fold(b, queue)
    <2>1. b = [s EXCEPT !.cp.queue = <<>>]
        BY <1>1
    <2> HIDE DEF b
    <2>2. QED
        BY <2>1 DEF DrainQueue, DrainNext, FoldLeft, MapThenFoldSet, DQ!Fold, DQ!Largest, Max
<1>3. b \in T[0]
    <2>1. c \in ControlPlanes
        BY <1>1 DEF ControlPlanes
    <2>2. /\ c.queue = <<>> /\ c.inflight = s.cp.inflight /\ c.attached = s.cp.attached
          /\ c.stopping = s.cp.stopping /\ Kept(s.cp, c)
        BY <1>1 DEF ControlPlanes, Kept
    <2> HIDE DEF c
    <2>3. b \in Batches(c0)
        BY <2>1, <2>2 DEF Batches, Kept
    <2>4. b.cp.queue = <<>>
        BY <2>2
    <2>5. QED
        BY <1>1, <2>3, <2>4
<1>9. \A i \in 1 .. Len(queue) : queue[i] \in [cmd : ControllerCommands, gen : Nat]
    BY <1>1, ElementOf
<1> HIDE DEF b, queue
<1>4. ASSUME NEW i \in 1 .. Len(queue), NEW r \in T[i - 1] PROVE DrainNext(r, queue[i]) \in T[i]
    <2> DEFINE q == queue[i]
    <2>1. /\ i - 1 \in 0 .. Len(queue) /\ i \in 0 .. Len(queue) /\ r \in Batches(c0)
          /\ Len(r.cp.queue) <= i - 1
        BY <1>1
    <2>2. q \in [cmd : ControllerCommands, gen : Nat]
        BY <1>9
    <2>3. /\ r.cp \in ControlPlanes /\ r = [cp |-> r.cp, acts |-> r.acts] /\ r.cp.queue \in Queues
          /\ Len(r.cp.queue) \in Nat
        BY <2>1 DEF Batches, ControlPlanes, Queues
    <2> HIDE DEF q
    <2>4. CASE r.cp.attached /\ InFlight(r.cp)
        <3> DEFINE p == Append(r.cp.queue, q)
                   d == [r.cp EXCEPT !.queue = p]
        <3>1. p \in Queues /\ Len(p) = Len(r.cp.queue) + 1
            BY <2>2, <2>3 DEF Queues
        <3>2. DrainNext(r, q) = [cp |-> d, acts |-> r.acts]
            BY <2>3, <2>4 DEF DrainNext
        <3> HIDE DEF p
        <3>3. d \in ControlPlanes
            BY <2>3, <3>1 DEF ControlPlanes
        <3>4. /\ d.queue = p /\ d.inflight = r.cp.inflight /\ d.attached = r.cp.attached
              /\ d.stopping = r.cp.stopping /\ Kept(r.cp, d)
            BY <2>3 DEF ControlPlanes, Kept
        <3> HIDE DEF d
        <3>5. DrainNext(r, q) \in Batches(c0)
            BY <2>1, <3>2, <3>3, <3>4 DEF Batches, Kept
        <3>6. DrainNext(r, q).cp.queue = p
            BY <3>2, <3>4
        <3>7. Len(p) <= i
            BY <2>1, <2>3, <3>1
        <3>8. QED
            BY <2>1, <3>5, <3>6, <3>7 DEF q
    <2>5. CASE r.cp.attached /\ ~InFlight(r.cp) /\ q.gen = r.cp.gen
        <3>1. DrainNext(r, q) = ProcessCommand(r, q.cmd)
            BY <2>5 DEF DrainNext
        <3>2. DrainNext(r, q) \in Batches(c0) /\ QueueGrows(r, DrainNext(r, q))
            BY <2>1, <2>2, <3>1, ProcessCommandKeeps
        <3>3. Len(DrainNext(r, q).cp.queue) \in Nat
            BY <3>2 DEF Batches, ControlPlanes, Queues
        <3>4. Len(DrainNext(r, q).cp.queue) <= i
            BY <2>1, <2>3, <2>5, <3>2, <3>3 DEF QueueGrows
        <3>5. QED
            BY <2>1, <3>2, <3>4 DEF q
    <2>6. CASE /\ ~(r.cp.attached /\ InFlight(r.cp))
               /\ ~(r.cp.attached /\ ~InFlight(r.cp) /\ q.gen = r.cp.gen)
        <3>1. DrainNext(r, q) = r
            BY <2>6 DEF DrainNext
        <3>2. Len(r.cp.queue) <= i
            BY <2>1, <2>3
        <3>3. QED
            BY <2>1, <3>1, <3>2 DEF q
    <2>7. QED
        BY <2>4, <2>5, <2>6
<1> HIDE DEF T
<1>5. DQ!Fold(b, queue) \in T[Len(queue)]
    BY <1>1, <1>3, <1>4, DQ!FoldAdvances
<1>6. DrainQueue(s) \in Batches(c0) /\ Len(DrainQueue(s).cp.queue) <= Len(queue)
    BY <1>1, <1>2, <1>5 DEF T
<1>7. Len(DrainQueue(s).cp.queue) \in Nat
    BY <1>6 DEF Batches, ControlPlanes, Queues
<1>8. QED
    BY <1>1, <1>6, <1>7, QueueLimitAssumption DEF queue

-----------------------------------------------------------------------------
(* What handle() returns for any event: a batch in order, or the one action *)
(* that fails the Session, and that only once; who is newly stopping asks   *)
(* for the stop first.                                                      *)
Handling(c, s) ==
    /\ s.cp \in ControlPlanes /\ Len(s.cp.queue) <= QueueLimit
    /\ \/ InOrder(s.acts) /\ s.cp.failed = c.failed
       \/ s.acts = <<Action("fail_session")>> /\ ~c.failed /\ s.cp.failed
    /\ s.cp.stopping => c.stopping \/ StopsFirst(s.acts)

LEMMA BatchIsHandling ==
    ASSUME NEW c, NEW c0, Settled(c0), NEW s \in Batches(c0), Len(s.cp.queue) <= QueueLimit,
           c0.failed = c.failed, c0.stopping = c.stopping
    PROVE  Handling(c, s)
BY DEF Handling, Batches, Kept

LEMMA SilentIsHandling ==
    ASSUME NEW c, NEW d \in ControlPlanes, d.failed = c.failed, d.stopping = c.stopping,
           Len(d.queue) <= QueueLimit
    PROVE  Handling(c, [cp |-> d, acts |-> <<>>])
<1>1. InOrder(<<>>)
    BY DEF InOrder
<1>2. QED
    BY <1>1 DEF Handling

LEMMA EmptyQueue == Len(<<>>) = 0 /\ <<>> \in Queues /\ Len(<<>>) <= QueueLimit
BY QueueLimitAssumption DEF Queues

LEMMA HandleAttachedFacts ==
    ASSUME NEW c \in ControlPlanes, Len(c.queue) <= QueueLimit
    PROVE  Handling(c, HandleAttached(c))
<1> DEFINE e == Executed(c)
           d == [e EXCEPT !.gen = @ + 1]
           d2 == [d EXCEPT !.attached = TRUE]
<1>1. Settled(e) /\ e.queue = c.queue /\ Same(c, e)
    BY ExecutedFacts DEF OnlyFlightQueue
<1>2. HandleAttached(c) = [cp |-> d2, acts |-> <<Send(Text("ATTACHED"))>>]
    BY DEF HandleAttached
<1> HIDE DEF e
<1>3. d \in ControlPlanes /\ d.queue = e.queue /\ d.inflight = e.inflight /\ Same(e, d)
    BY <1>1 DEF Settled, ControlPlanes, Same
<1> HIDE DEF d
<1>4. d2 \in ControlPlanes /\ d2.queue = d.queue /\ d2.inflight = d.inflight /\ Same(d, d2)
    BY <1>3 DEF ControlPlanes, Same
<1> HIDE DEF d2
<1>5. Settled(d2) /\ d2.queue = c.queue /\ Same(c, d2)
    BY <1>1, <1>3, <1>4 DEF Settled, Same
<1>6. <<Send(Text("ATTACHED"))>> \in Seq(PlainActions) /\ Len(<<Send(Text("ATTACHED"))>>) <= 1
    <2>1. Send(Text("ATTACHED")) \in PlainActions
        BY ActionTypes, TextTypes
    <2>2. QED
        BY <2>1
<1>7. HandleAttached(c) \in Batches(d2)
    BY <1>2, <1>5, <1>6, EmptyBatch
<1>8. HandleAttached(c).cp = d2
    BY <1>2
<1>9. QED
    BY <1>5, <1>7, <1>8, BatchIsHandling DEF Same

LEMMA HandleDisconnectedFacts ==
    ASSUME NEW c \in ControlPlanes
    PROVE  Handling(c, HandleDisconnected(c)) /\ HandleDisconnected(c).acts = <<>>
<1> DEFINE e == Executed(c)
           d == DisconnectController(e)
<1>1. Settled(e) /\ Same(c, e) /\ e \in ControlPlanes
    BY ExecutedFacts DEF Settled
<1>2. d \in ControlPlanes /\ d.queue = <<>> /\ Same(e, d)
    BY <1>1, Disconnected DEF OnlyFlightQueue, Kept, Same
<1>3. HandleDisconnected(c) = [cp |-> d, acts |-> <<>>]
    BY DEF HandleDisconnected
<1> HIDE DEF e, d
<1>4. QED
    BY <1>1, <1>2, <1>3, EmptyQueue, SilentIsHandling DEF Same

LEMMA HandleWriteFailedFacts ==
    ASSUME NEW c \in ControlPlanes
    PROVE  LET d == HandleWriteFailed(c).cp
           IN  d \in ControlPlanes /\ d.queue = <<>> /\ Same(c, d) /\ ~d.attached
<1> DEFINE e == IF c.inflight.unexecuted THEN [c EXCEPT !.inflight = NoFlight] ELSE c
<1>1. e \in ControlPlanes /\ Same(c, e)
    BY DEF ControlPlanes, Flights, Same
<1>2. HandleWriteFailed(c).cp = DisconnectController(e)
    BY DEF HandleWriteFailed
<1> HIDE DEF e
<1>3. QED
    BY <1>1, <1>2, Disconnected DEF OnlyFlightQueue, Kept, Same

(* The three events that forget the queue and whom to tell. *)
LEMMA ForgetFacts ==
    ASSUME NEW c \in ControlPlanes, NEW d \in ControlPlanes, d.queue = <<>>
    PROVE  LET e == CancelReply(d)
           IN  e \in ControlPlanes /\ Len(e.queue) <= QueueLimit /\ Same(d, e)
BY Cancel, EmptyQueue DEF OnlyFlightQueue, Kept, Same

LEMMA HandleStoppingFacts ==
    ASSUME NEW c \in ControlPlanes
    PROVE  LET d == HandleStopping(c).cp
           IN  /\ Handling(d, HandleStopping(c)) /\ HandleStopping(c).acts = <<>>
               /\ d.failed = c.failed /\ d.stopping /\ d.terminal = c.terminal
<1> DEFINE e == Executed(c)
           e1 == [e EXCEPT !.stopping = TRUE]
           e2 == [e1 EXCEPT !.queue = <<>>]
           d == CancelReply(e2)
<1>1. e \in ControlPlanes /\ Same(c, e)
    BY ExecutedFacts DEF Settled
<1>2. HandleStopping(c) = [cp |-> d, acts |-> <<>>]
    BY DEF HandleStopping
<1> HIDE DEF e
<1>3. /\ e1 \in ControlPlanes /\ e1.stopping /\ e1.failed = e.failed
      /\ e1.terminal = e.terminal
    BY <1>1 DEF ControlPlanes
<1> HIDE DEF e1
<1>4. e2 \in ControlPlanes /\ e2.queue = <<>> /\ Same(e1, e2)
    BY <1>3, EmptyQueue DEF ControlPlanes, Same
<1> HIDE DEF e2
<1>5. d \in ControlPlanes /\ Len(d.queue) <= QueueLimit /\ Same(e2, d)
    BY <1>4, ForgetFacts
<1> HIDE DEF d
<1>6. Handling(d, [cp |-> d, acts |-> <<>>])
    BY <1>5, SilentIsHandling
<1>7. d.failed = c.failed /\ d.stopping /\ d.terminal = c.terminal
    BY <1>1, <1>3, <1>4, <1>5 DEF Same
<1>8. HandleStopping(c).cp = d /\ HandleStopping(c).acts = <<>>
    BY <1>2
<1>9. QED
    BY <1>2, <1>6, <1>7, <1>8

LEMMA HandleTerminalFacts ==
    ASSUME NEW c \in ControlPlanes
    PROVE  /\ Handling(c, HandleTerminal(c)) /\ HandleTerminal(c).acts = <<>>
           /\ HandleTerminal(c).cp.terminal
<1> DEFINE e == Executed(c)
           e1 == [e EXCEPT !.terminal = TRUE]
           e2 == [e1 EXCEPT !.queue = <<>>]
           d == CancelReply(e2)
<1>1. e \in ControlPlanes /\ Same(c, e)
    BY ExecutedFacts DEF Settled
<1>2. HandleTerminal(c) = [cp |-> d, acts |-> <<>>]
    BY DEF HandleTerminal
<1> HIDE DEF e
<1>3. /\ e1 \in ControlPlanes /\ e1.terminal /\ e1.failed = e.failed
      /\ e1.stopping = e.stopping
    BY <1>1 DEF ControlPlanes
<1> HIDE DEF e1
<1>4. e2 \in ControlPlanes /\ e2.queue = <<>> /\ Same(e1, e2)
    BY <1>3, EmptyQueue DEF ControlPlanes, Same
<1> HIDE DEF e2
<1>5. d \in ControlPlanes /\ Len(d.queue) <= QueueLimit /\ Same(e2, d)
    BY <1>4, ForgetFacts
<1> HIDE DEF d
<1>6. d.failed = c.failed /\ d.stopping = c.stopping /\ d.terminal
    BY <1>1, <1>3, <1>4, <1>5 DEF Same
<1>7. QED
    BY <1>2, <1>5, <1>6, SilentIsHandling

LEMMA HandleStateUnknownFacts ==
    ASSUME NEW c \in ControlPlanes, Len(c.queue) <= QueueLimit
    PROVE  Handling(c, HandleStateUnknown(c))
<1> DEFINE e == Executed(c)
           e1 == [e EXCEPT !.failed = TRUE]
           e2 == [e1 EXCEPT !.queue = <<>>]
           d == CancelReply(e2)
<1>1. e \in ControlPlanes /\ Same(c, e) /\ e.queue = c.queue
    BY ExecutedFacts DEF Settled, OnlyFlightQueue
<1>2. CASE c.failed
    <2>1. HandleStateUnknown(c) = [cp |-> e, acts |-> <<>>]
        BY <1>2 DEF HandleStateUnknown
    <2> HIDE DEF e
    <2>2. QED
        BY <1>1, <2>1, SilentIsHandling DEF Same
<1>3. CASE ~c.failed
    <2>1. HandleStateUnknown(c) = [cp |-> d, acts |-> <<Action("fail_session")>>]
        BY <1>3 DEF HandleStateUnknown
    <2> HIDE DEF e
    <2>2. /\ e1 \in ControlPlanes /\ e1.failed /\ e1.stopping = e.stopping
        BY <1>1 DEF ControlPlanes
    <2> HIDE DEF e1
    <2>3. e2 \in ControlPlanes /\ e2.queue = <<>> /\ Same(e1, e2)
        BY <2>2, EmptyQueue DEF ControlPlanes, Same
    <2> HIDE DEF e2
    <2>4. d \in ControlPlanes /\ Len(d.queue) <= QueueLimit /\ Same(e2, d)
        BY <2>3, ForgetFacts
    <2> HIDE DEF d
    <2>5. d.failed /\ d.stopping = c.stopping
        BY <1>1, <2>2, <2>3, <2>4 DEF Same
    <2>6. QED
        BY <1>3, <2>1, <2>4, <2>5 DEF Handling
<1>4. QED
    BY <1>2, <1>3

LEMMA ApplyIsProfile ==
    ASSUME NEW p \in Profiles, NEW change \in Changes
    PROVE  ApplyProfileChange(p, change) \in Profiles
BY ChangesAssumption DEF ApplyProfileChange, Profiles, Values

(* The control plane once the result of its change is known. *)
Landed(c, result, change) ==
    [Executed(c) EXCEPT !.inflight = NoFlight, !.confirmed = Confirmed(@, result, change)]

LEMMA LandedFacts ==
    ASSUME NEW c \in ControlPlanes, NEW result, NEW change \in Changes
    PROVE  LET d == Landed(c, result, change)
           IN  /\ Settled(d) /\ d.queue = c.queue /\ d.inflight = NoFlight /\ Same(c, d)
               /\ d.confirmed = Confirmed(c.confirmed, result, change)
               /\ d.attached = c.attached /\ d.gen = c.gen
<1> DEFINE e == Executed(c)
           e1 == [e EXCEPT !.inflight = NoFlight]
           p == Confirmed(c.confirmed, result, change)
           d == [e1 EXCEPT !.confirmed = p]
<1>1. /\ e \in ControlPlanes /\ Same(c, e) /\ e.queue = c.queue /\ e.attached = c.attached
      /\ e.confirmed = c.confirmed /\ e.gen = c.gen
    BY ExecutedFacts DEF Settled, OnlyFlightQueue, Kept
<1>2. p \in Profiles
    BY ApplyIsProfile DEF Confirmed, ControlPlanes
<1>3. Landed(c, result, change) = d
    BY <1>1 DEF Landed, ControlPlanes
<1> HIDE DEF e, p
<1>4. /\ e1 \in ControlPlanes /\ e1.inflight = NoFlight /\ Same(e, e1) /\ e1.queue = e.queue
      /\ e1.attached = e.attached /\ e1.confirmed = e.confirmed /\ e1.gen = e.gen
    BY <1>1 DEF ControlPlanes, Flights, Same
<1> HIDE DEF e1
<1>5. /\ d \in ControlPlanes /\ d.inflight = NoFlight /\ Same(e1, d) /\ d.queue = e1.queue
      /\ d.attached = e1.attached /\ d.confirmed = p /\ d.gen = e1.gen
    BY <1>2, <1>4 DEF ControlPlanes, Same
<1> HIDE DEF d
<1>6. Settled(d) /\ Same(c, d)
    BY <1>1, <1>4, <1>5 DEF Settled, NoFlight, Same
<1>7. QED
    BY <1>1, <1>3, <1>4, <1>5, <1>6 DEF p

(* A result that is not that of the change in flight fails the Session,     *)
(* unless it is over or has failed already; any other one lands, is told    *)
(* to who has asked, and lets the queue advance.                            *)
LEMMA HandleResultFacts ==
    ASSUME NEW c \in ControlPlanes, Len(c.queue) <= QueueLimit,
           NEW result \in {"applied", "restored"}, NEW change \in Changes
    PROVE  LET s == HandleResult(c, result, change)
           IN  /\ Handling(c, s)
               /\ c.inflight.change = change =>
                     s \in Batches(Landed(c, result, change))
               /\ c.inflight.change # change /\ (c.terminal \/ c.failed) =>
                     s = [cp |-> Executed(c), acts |-> <<>>]
<1> DEFINE e == Executed(c)
           d == Landed(c, result, change)
           s == HandleResult(c, result, change)
           answer == IF Answerable(e)
                       THEN <<Send(ReplyText(IF result = "applied" THEN "PROFILE_CHANGED"
                                             ELSE "ERROR profile", change))>>
                       ELSE <<>>
           reply == [cp |-> d, acts |-> answer]
<1>1. /\ e \in ControlPlanes /\ Same(c, e) /\ e.queue = c.queue
      /\ e.inflight.change = c.inflight.change
    BY ExecutedFacts DEF Settled, OnlyFlightQueue
<1>2. Settled(d) /\ d.queue = c.queue /\ Same(c, d)
    BY LandedFacts
<1>3. /\ e.inflight.change # change /\ (e.terminal \/ e.failed) => s = [cp |-> e, acts |-> <<>>]
      /\ e.inflight.change # change /\ ~(e.terminal \/ e.failed) =>
            s = [cp |-> [e EXCEPT !.failed = TRUE, !.queue = <<>>],
                 acts |-> <<Action("fail_session")>>]
      /\ e.inflight.change = change => s = IF e.terminal \/ e.failed THEN reply ELSE DrainQueue(reply)
    BY DEF HandleResult, Landed
<1>4. answer \in Seq(PlainActions) /\ Len(answer) <= 1
    <2> DEFINE t == IF result = "applied" THEN "PROFILE_CHANGED" ELSE "ERROR profile"
    <2>1. ReplyText(t, change) \in Texts
        <3>1. t \in {"PROFILE_CHANGED", "ERROR profile"}
            OBVIOUS
        <3>2. QED
            BY <3>1, TextTypes
    <2>2. Send(ReplyText(t, change)) \in PlainActions
        BY <2>1, ActionTypes
    <2> HIDE DEF t
    <2>3. /\ <<Send(ReplyText(t, change))>> \in Seq(PlainActions)
          /\ Len(<<Send(ReplyText(t, change))>>) <= 1
        BY <2>2
    <2>4. <<>> \in Seq(PlainActions) /\ Len(<<>>) <= 1
        OBVIOUS
    <2>5. QED
        BY <2>3, <2>4 DEF t
<1> HIDE DEF answer, d, e, s
<1>5. reply \in Batches(d) /\ reply.cp = d
    BY <1>2, <1>4, EmptyBatch
<1> HIDE DEF reply
<1>6. DrainQueue(reply) \in Batches(d) /\ Len(DrainQueue(reply).cp.queue) <= QueueLimit
    BY <1>2, <1>5, DrainQueueFacts
<1>7. CASE e.inflight.change = change
    <2>1. s \in Batches(d) /\ Len(s.cp.queue) <= QueueLimit
        BY <1>2, <1>3, <1>5, <1>6, <1>7
    <2>2. Handling(c, s)
        BY <1>2, <2>1, BatchIsHandling DEF Same
    <2>3. QED
        BY <1>1, <1>7, <2>1, <2>2 DEF d, s
<1>8. CASE e.inflight.change # change /\ (e.terminal \/ e.failed)
    <2>1. s = [cp |-> e, acts |-> <<>>]
        BY <1>3, <1>8
    <2>2. Handling(c, s)
        BY <1>1, <2>1, SilentIsHandling DEF Same
    <2>3. QED
        BY <1>1, <1>8, <2>1, <2>2 DEF d, s, e
<1>9. CASE e.inflight.change # change /\ ~(e.terminal \/ e.failed)
    <2> DEFINE f == [e EXCEPT !.failed = TRUE]
               f2 == [f EXCEPT !.queue = <<>>]
    <2>1. f \in ControlPlanes /\ f.failed /\ f.stopping = e.stopping
        BY <1>1 DEF ControlPlanes
    <2>2. f2 = [e EXCEPT !.failed = TRUE, !.queue = <<>>]
        OBVIOUS
    <2> HIDE DEF f
    <2>3. f2 \in ControlPlanes /\ f2.failed /\ f2.stopping = e.stopping /\ f2.queue = <<>>
        BY <2>1, EmptyQueue DEF ControlPlanes
    <2>4. s = [cp |-> f2, acts |-> <<Action("fail_session")>>]
        BY <1>3, <1>9, <2>2
    <2> HIDE DEF f2
    <2>5. ~c.failed /\ c.stopping = e.stopping /\ c.terminal = e.terminal
        BY <1>1, <1>9 DEF Same
    <2>6. Handling(c, s)
        BY <2>3, <2>4, <2>5, EmptyQueue DEF Handling
    <2>7. QED
        BY <1>1, <1>9, <2>5, <2>6 DEF d, s
<1>10. QED
    BY <1>7, <1>8, <1>9

-----------------------------------------------------------------------------
(* The adapter *)

AdapterEvents == LifecycleEvents \ {Event("deadline_expired")}

(* The events that a batch may hand to the lifecycle, and an adapter whose  *)
(* pending events are all in P.                                             *)
BatchEvents == {Event(k) : k \in {"stop_requested", "conversation_lost", "profile_state_unknown"}}

Adapters(P) ==
    [cp : {c \in ControlPlanes : Len(c.queue) <= QueueLimit}, hasCp : BOOLEAN,
     conv : Conversations, client : {"none", "open", "closed"}, pending : Seq(P),
     activated : BOOLEAN, finished : BOOLEAN, listening : BOOLEAN,
     outbox : Seq({ChangeCommand(c) : c \in Changes}), texts : Seq(Texts),
     halted : BOOLEAN, helperOpen : BOOLEAN, socketFails : BOOLEAN]

(* What a batch does not touch. *)
SameSession(x, y) ==
    /\ y.hasCp = x.hasCp /\ y.activated = x.activated /\ y.finished = x.finished
    /\ y.listening = x.listening /\ y.helperOpen = x.helperOpen
    /\ y.socketFails = x.socketFails /\ y.conv.state = x.conv.state

FailSession == Action("fail_session")

LEMMA PushFacts ==
    ASSUME NEW P, NEW x \in Adapters(P), NEW k, NEW v, [kind |-> k, value |-> v] \in P
    PROVE  LET y == Push(x, k, v)
           IN  /\ y \in Adapters(P) /\ SameSession(x, y)
               /\ y.pending = Append(x.pending, [kind |-> k, value |-> v])
               /\ y.cp = x.cp /\ y.conv = x.conv /\ y.client = x.client
               /\ y.outbox = x.outbox /\ y.texts = x.texts /\ y.halted = x.halted
<1> DEFINE p == Append(x.pending, [kind |-> k, value |-> v])
           y == [x EXCEPT !.pending = p]
<1>1. p \in Seq(P)
    BY DEF Adapters
<1>2. Push(x, k, v) = y
    BY DEF Push
<1> HIDE DEF p
<1>3. y \in Adapters(P)
    BY <1>1 DEF Adapters
<1>4. SameSession(x, y) /\ y.pending = p
    BY DEF Adapters, SameSession
<1>5. /\ y.cp = x.cp /\ y.conv = x.conv /\ y.client = x.client
      /\ y.outbox = x.outbox /\ y.texts = x.texts /\ y.halted = x.halted
    BY DEF Adapters
<1>6. QED
    BY <1>2, <1>3, <1>4, <1>5 DEF p

LEMMA WriteFailedFacts ==
    ASSUME NEW P, NEW x \in Adapters(P)
    PROVE  LET y == WriteFailed(x)
           IN  /\ y \in Adapters(P) /\ SameSession(x, y)
               /\ y.pending = x.pending /\ y.conv = x.conv /\ y.outbox = x.outbox
               /\ y.texts = x.texts /\ y.halted /\ y.client = "none"
               /\ y.cp = HandleWriteFailed(x.cp).cp /\ Same(x.cp, y.cp)
<1> DEFINE c == HandleWriteFailed(x.cp).cp
           x1 == [x EXCEPT !.client = "none"]
           x2 == [x1 EXCEPT !.cp = c]
           y == [x2 EXCEPT !.halted = TRUE]
<1>1. /\ x.cp \in ControlPlanes /\ c \in ControlPlanes /\ c.queue = <<>> /\ Same(x.cp, c)
      /\ Len(c.queue) <= QueueLimit
    BY HandleWriteFailedFacts, EmptyQueue DEF Adapters
<1>2. WriteFailed(x) = y
    BY DEF WriteFailed
<1> HIDE DEF c
<1>3. /\ x1 \in Adapters(P) /\ SameSession(x, x1) /\ x1.client = "none"
      /\ x1.pending = x.pending /\ x1.conv = x.conv /\ x1.outbox = x.outbox
      /\ x1.texts = x.texts
    BY DEF Adapters, SameSession
<1> HIDE DEF x1
<1>4. x2 \in Adapters(P)
    BY <1>1, <1>3 DEF Adapters
<1>5. /\ SameSession(x1, x2) /\ x2.client = x1.client /\ x2.cp = c
      /\ x2.pending = x1.pending /\ x2.conv = x1.conv /\ x2.outbox = x1.outbox
      /\ x2.texts = x1.texts
    BY <1>3 DEF Adapters, SameSession
<1> HIDE DEF x2
<1>6. /\ y \in Adapters(P) /\ SameSession(x2, y) /\ y.client = x2.client /\ y.cp = x2.cp
      /\ y.pending = x2.pending /\ y.conv = x2.conv /\ y.outbox = x2.outbox
      /\ y.texts = x2.texts /\ y.halted
    BY <1>4 DEF Adapters, SameSession
<1> HIDE DEF y
<1>7. SameSession(x, y)
    BY <1>3, <1>5, <1>6 DEF SameSession
<1>8. QED
    BY <1>1, <1>2, <1>3, <1>5, <1>6, <1>7 DEF c

(* One action of a batch. *)
Executing(x, a, y) ==
    /\ SameSession(x, y) /\ Same(x.cp, y.cp)
    /\ y.cp = x.cp \/ (y.cp = HandleWriteFailed(x.cp).cp /\ y.halted /\ y.client = "none"
                       /\ a.type = "send")
    /\ \/ y.pending = x.pending
       \/ y.pending = Append(x.pending, Event("stop_requested")) /\ a.type = "stop"
       \/ y.pending = Append(x.pending, Event("conversation_lost")) /\ y.halted /\ IsDispatch(a)
       \/ y.pending = Append(x.pending, Event("profile_state_unknown")) /\ a.type = "fail_session"
    /\ a.type = "stop" /\ ~x.halted => y.pending = Append(x.pending, Event("stop_requested"))
    /\ x.halted => y = x
    /\ ~IsDispatch(a) => y.conv = x.conv /\ y.outbox = x.outbox
    /\ IsDispatch(a) =>
          /\ y.conv = x.conv \/ (/\ CanBeginProfileChange(x.conv)
                                 /\ y.conv = BeginProfileChange(x.conv, a.change))
          /\ y.outbox = x.outbox \/ (/\ CanDispatch(x) /\ ~x.halted
                                     /\ y.conv = BeginProfileChange(x.conv, a.change)
                                     /\ y.outbox = Append(x.outbox, ChangeCommand(a.change)))

LEMMA SamePlane == ASSUME NEW c PROVE Same(c, c)
BY DEF Same

LEMMA SameAdapter == ASSUME NEW x PROVE SameSession(x, x)
BY DEF SameSession

LEMMA ExecuteFacts ==
    ASSUME NEW P, BatchEvents \subseteq P, NEW x \in Adapters(P),
           NEW a \in BatchActions \cup {FailSession}
    PROVE  Execute(x, a) \in Adapters(P) /\ Executing(x, a, Execute(x, a))
<1> DEFINE y == Execute(x, a)
<1>1. \A k \in {"stop_requested", "conversation_lost", "profile_state_unknown"} :
          [kind |-> k, value |-> 0] \in P /\ [kind |-> k, value |-> 0] = Event(k)
    BY DEF BatchEvents, Event
<1>2. a.type \in {"stop", "disconnect", "send", "dispatch", "fail_session"}
    BY DEF BatchActions, PlainActions, Dispatches, FailSession, Action
<1>3. CASE x.halted
    <2>1. y = x
        BY <1>3 DEF Execute
    <2> HIDE DEF y
    <2>2. Executing(x, a, x)
        BY <1>3, SamePlane, SameAdapter DEF Executing
    <2>3. QED
        BY <2>1, <2>2 DEF y
<1>4. CASE ~x.halted /\ a.type = "stop"
    <2>1. y = Push(x, "stop_requested", 0)
        BY <1>4 DEF Execute
    <2> HIDE DEF y
    <2>2. [kind |-> "stop_requested", value |-> 0] \in P
        BY <1>1
    <2>3. /\ y \in Adapters(P) /\ SameSession(x, y) /\ y.cp = x.cp /\ y.conv = x.conv
          /\ y.outbox = x.outbox
          /\ y.pending = Append(x.pending, [kind |-> "stop_requested", value |-> 0])
        BY <2>1, <2>2, PushFacts
    <2>4. Executing(x, a, y)
        BY <1>4, <2>3, SamePlane DEF Executing, IsDispatch, Event
    <2>5. QED
        BY <2>3, <2>4 DEF y
<1>5. CASE ~x.halted /\ a.type = "fail_session"
    <2>1. y = Push(x, "profile_state_unknown", 0)
        BY <1>5 DEF Execute
    <2> HIDE DEF y
    <2>2. [kind |-> "profile_state_unknown", value |-> 0] \in P
        BY <1>1
    <2>3. /\ y \in Adapters(P) /\ SameSession(x, y) /\ y.cp = x.cp /\ y.conv = x.conv
          /\ y.outbox = x.outbox
          /\ y.pending = Append(x.pending, [kind |-> "profile_state_unknown", value |-> 0])
        BY <2>1, <2>2, PushFacts
    <2>4. Executing(x, a, y)
        BY <1>5, <2>3, SamePlane DEF Executing, IsDispatch, Event
    <2>5. QED
        BY <2>3, <2>4 DEF y
<1>6. CASE ~x.halted /\ a.type = "disconnect"
    <2>1. y = [x EXCEPT !.client = "none"]
        BY <1>6 DEF Execute
    <2>2. y \in Adapters(P) /\ SameSession(x, y)
        BY <2>1 DEF Adapters, SameSession
    <2>3. y.cp = x.cp /\ y.pending = x.pending /\ y.conv = x.conv /\ y.outbox = x.outbox
        BY <2>1 DEF Adapters
    <2> HIDE DEF y
    <2>4. Executing(x, a, y)
        BY <1>6, <2>2, <2>3, SamePlane DEF Executing, IsDispatch
    <2>5. QED
        BY <2>2, <2>4 DEF y
<1>7. CASE ~x.halted /\ a.type = "send" /\ x.client = "open"
    <2> DEFINE t == Append(x.texts, a.text)
    <2>1. y = [x EXCEPT !.texts = t]
        BY <1>7 DEF Execute
    <2>2. t \in Seq(Texts)
        <3>1. a.text \in Texts
            BY <1>7 DEF BatchActions, PlainActions, Dispatches, FailSession, Action
        <3>2. QED
            BY <3>1 DEF Adapters
    <2> HIDE DEF t
    <2>3. y \in Adapters(P)
        BY <2>1, <2>2 DEF Adapters
    <2>4. /\ SameSession(x, y) /\ y.cp = x.cp /\ y.pending = x.pending /\ y.conv = x.conv
          /\ y.outbox = x.outbox
        BY <2>1 DEF Adapters, SameSession
    <2> HIDE DEF y
    <2>5. Executing(x, a, y)
        BY <1>7, <2>4, SamePlane DEF Executing, IsDispatch
    <2>6. QED
        BY <2>3, <2>5 DEF y
<1>8. CASE ~x.halted /\ a.type = "send" /\ x.client # "open"
    <2>1. y = WriteFailed(x)
        BY <1>8 DEF Execute
    <2> HIDE DEF y
    <2>2. /\ y \in Adapters(P) /\ SameSession(x, y) /\ Same(x.cp, y.cp)
          /\ y.cp = HandleWriteFailed(x.cp).cp /\ y.halted /\ y.client = "none"
          /\ y.pending = x.pending /\ y.conv = x.conv /\ y.outbox = x.outbox
        BY <2>1, WriteFailedFacts
    <2>3. Executing(x, a, y)
        BY <1>8, <2>2 DEF Executing, IsDispatch
    <2>4. QED
        BY <2>2, <2>3 DEF y
<1>9. CASE ~x.halted /\ a.type = "dispatch"
    <2> DEFINE conv == IF CanBeginProfileChange(x.conv)
                         THEN BeginProfileChange(x.conv, a.change) ELSE x.conv
               begun == [x EXCEPT !.conv = conv]
               out == Append(x.outbox, ChangeCommand(a.change))
               sent == [begun EXCEPT !.outbox = out]
               lost == Push(begun, "conversation_lost", 0)
               halt == [lost EXCEPT !.halted = TRUE]
    <2>1. a.change \in Changes
        BY <1>9 DEF BatchActions, PlainActions, Dispatches, FailSession, Action
    <2>2. conv \in Conversations
        BY <2>1 DEF BeginProfileChange, Conversations, Adapters
    <2>3. out \in Seq({ChangeCommand(c) : c \in Changes})
        BY <2>1 DEF Adapters
    <2>4. [x EXCEPT !.conv = x.conv] = x
        BY DEF Adapters
    <2>5. y = IF CanDispatch(x) THEN sent ELSE halt
        <3>1. begun = IF CanBeginProfileChange(x.conv)
                        THEN [x EXCEPT !.conv = BeginProfileChange(@, a.change)] ELSE x
            BY <2>4
        <3> HIDE DEF begun, conv
        <3>2. begun.outbox = x.outbox
            BY DEF begun, Adapters
        <3>3. QED
            BY <1>9, <3>1, <3>2 DEF Execute
    <2>6. /\ conv = x.conv \/ (/\ CanBeginProfileChange(x.conv)
                               /\ conv = BeginProfileChange(x.conv, a.change))
          /\ CanDispatch(x) => conv = BeginProfileChange(x.conv, a.change)
        BY DEF CanDispatch
    <2> HIDE DEF y, conv, out
    <2>7. begun \in Adapters(P)
        BY <2>2 DEF Adapters
    <2>12. conv.state = x.conv.state
        BY <2>6 DEF BeginProfileChange, Adapters, Conversations
    <2>8. /\ SameSession(x, begun) /\ begun.cp = x.cp /\ begun.pending = x.pending
          /\ begun.conv = conv /\ begun.outbox = x.outbox
        BY <2>12 DEF Adapters, SameSession
    <2> HIDE DEF begun
    <2>9. CASE CanDispatch(x)
        <3>1. y = sent
            BY <2>5, <2>9
        <3>2. sent \in Adapters(P)
            BY <2>3, <2>7 DEF Adapters
        <3>3. /\ SameSession(begun, sent) /\ sent.cp = begun.cp /\ sent.pending = begun.pending
              /\ sent.conv = begun.conv /\ sent.outbox = out
            BY <2>7 DEF Adapters, SameSession
        <3> HIDE DEF sent
        <3>4. SameSession(x, sent)
            BY <2>8, <3>3 DEF SameSession
        <3>5. Executing(x, a, sent)
            BY <1>9, <2>6, <2>8, <2>9, <3>3, <3>4, SamePlane DEF Executing, IsDispatch, out
        <3>6. QED
            BY <3>1, <3>2, <3>5 DEF y
    <2>10. CASE ~CanDispatch(x)
        <3>1. y = halt
            BY <2>5, <2>10
        <3>2. [kind |-> "conversation_lost", value |-> 0] \in P
            BY <1>1
        <3>3. /\ lost \in Adapters(P) /\ SameSession(begun, lost) /\ lost.cp = begun.cp
              /\ lost.conv = begun.conv /\ lost.outbox = begun.outbox
              /\ lost.pending = Append(begun.pending, [kind |-> "conversation_lost", value |-> 0])
            BY <2>7, <3>2, PushFacts
        <3> HIDE DEF lost
        <3>4. /\ halt \in Adapters(P) /\ SameSession(lost, halt) /\ halt.cp = lost.cp
              /\ halt.conv = lost.conv /\ halt.outbox = lost.outbox
              /\ halt.pending = lost.pending /\ halt.halted
            BY <3>3 DEF Adapters, SameSession
        <3> HIDE DEF halt
        <3>5. SameSession(x, halt)
            BY <2>8, <3>3, <3>4 DEF SameSession
        <3>6. Executing(x, a, halt)
            BY <1>9, <2>6, <2>8, <2>10, <3>3, <3>4, <3>5, SamePlane DEF Executing, IsDispatch, Event
        <3>7. QED
            BY <3>1, <3>4, <3>6 DEF y
    <2>11. QED
        BY <2>9, <2>10
<1>10. QED
    BY <1>2, <1>3, <1>4, <1>5, <1>6, <1>7, <1>8, <1>9

(* What every step of the adapter keeps: at most one unknown profile is     *)
(* handed to the lifecycle or has been recorded by it, and only if the      *)
(* control plane has failed; who is shown as stopping has a stop under way  *)
(* or a stop among the pending events.                                      *)
IsUnknown(e) == e.kind = "profile_state_unknown"
UnknownOnce(x, recorded) ==
    /\ \A i, j \in 1 .. Len(x.pending) :
          IsUnknown(x.pending[i]) /\ IsUnknown(x.pending[j]) => i = j
    /\ \A i \in 1 .. Len(x.pending) : IsUnknown(x.pending[i]) => x.cp.failed /\ ~recorded
    /\ recorded => x.cp.failed

StopKinds == {"stop_requested", "terminal_interrupt", "conversation_lost"}
HasStop(p) == \E i \in 1 .. Len(p) : p[i].kind \in StopKinds
StopKept(x, underWay) == x.cp.stopping => underWay \/ HasStop(x.pending)

GoodAdapters(P, recorded, underWay) ==
    {x \in Adapters(P) : UnknownOnce(x, recorded) /\ StopKept(x, underWay)}

LEMMA PendingFacts ==
    ASSUME NEW p, NEW e, NEW X, p \in Seq(X)
    PROVE  LET q == Append(p, e)
           IN  /\ Len(p) \in Nat /\ Len(q) = Len(p) + 1 /\ q[Len(q)] = e
               /\ \A i \in 1 .. Len(p) : q[i] = p[i]
               /\ \A i \in 1 .. Len(q) : i \in 1 .. Len(p) \/ i = Len(q)
               /\ HasStop(q) <=> HasStop(p) \/ e.kind \in StopKinds
<1> DEFINE q == Append(p, e)
<1>1. Len(p) \in Nat /\ Len(q) = Len(p) + 1 /\ q[Len(p) + 1] = e /\ \A i \in 1 .. Len(p) : q[i] = p[i]
    OBVIOUS
<1> HIDE DEF q
<1>2. \A i \in 1 .. Len(q) : i \in 1 .. Len(p) \/ i = Len(q)
    BY <1>1
<1>3. Len(q) \in 1 .. Len(q) /\ (\A i \in 1 .. Len(p) : i \in 1 .. Len(q))
    BY <1>1
<1>4. HasStop(q) <=> HasStop(p) \/ e.kind \in StopKinds
    BY <1>1, <1>2, <1>3 DEF HasStop
<1>5. QED
    BY <1>1, <1>2, <1>4 DEF q

(* Another event is no harm to the first, unless it is an unknown profile;  *)
(* the first unknown profile is no harm either.                             *)
LEMMA PendingUnknown ==
    ASSUME NEW X, NEW x, x.pending \in Seq(X), NEW e, NEW y, y.pending = Append(x.pending, e),
           NEW recorded \in BOOLEAN
    PROVE  /\ ~IsUnknown(e) /\ y.cp.failed = x.cp.failed /\ UnknownOnce(x, recorded) =>
                 UnknownOnce(y, recorded)
           /\ ~x.cp.failed /\ UnknownOnce(x, recorded) /\ y.cp.failed => UnknownOnce(y, recorded)
<1> DEFINE p == x.pending
           q == y.pending
<1>1. /\ Len(p) \in Nat /\ Len(q) = Len(p) + 1 /\ q[Len(q)] = e
      /\ \A i \in 1 .. Len(p) : q[i] = p[i]
      /\ \A i \in 1 .. Len(q) : i \in 1 .. Len(p) \/ i = Len(q)
    BY PendingFacts
<1> HIDE DEF p, q
<1>2. ASSUME ~IsUnknown(e), y.cp.failed = x.cp.failed, UnknownOnce(x, recorded)
      PROVE  UnknownOnce(y, recorded)
    <2>1. \A i \in 1 .. Len(q) : IsUnknown(q[i]) => i \in 1 .. Len(p) /\ IsUnknown(p[i])
        BY <1>1, <1>2
    <2>2. QED
        BY <1>2, <2>1 DEF UnknownOnce, p, q
<1>3. ASSUME ~x.cp.failed, UnknownOnce(x, recorded), y.cp.failed
      PROVE  UnknownOnce(y, recorded)
    <2>1. ~recorded /\ \A i \in 1 .. Len(p) : ~IsUnknown(p[i])
        BY <1>3 DEF UnknownOnce, p
    <2>2. \A i \in 1 .. Len(q) : IsUnknown(q[i]) => i = Len(q)
        BY <1>1, <2>1
    <2>3. QED
        BY <1>3, <2>1, <2>2 DEF UnknownOnce, q
<1>4. QED
    BY <1>2, <1>3

LEMMA FirstUnknown ==
    ASSUME NEW X, NEW recorded \in BOOLEAN, NEW x, NEW y, NEW e,
           x.pending \in Seq(X), y.pending = Append(x.pending, e),
           ~x.cp.failed, UnknownOnce(x, recorded), y.cp.failed
    PROVE  UnknownOnce(y, recorded)
BY PendingUnknown

(* One action of a batch on an adapter. *)
LEMMA ExecutingKeeps ==
    ASSUME NEW P, BatchEvents \subseteq P, NEW x \in Adapters(P), NEW recorded \in BOOLEAN,
           NEW a \in BatchActions \cup {FailSession}, UnknownOnce(x, recorded),
           a.type = "fail_session" => FALSE
    PROVE  LET y == Execute(x, a)
           IN  /\ y \in Adapters(P) /\ UnknownOnce(y, recorded) /\ Executing(x, a, y)
               /\ HasStop(x.pending) => HasStop(y.pending)
               /\ a.type = "stop" /\ ~x.halted => HasStop(y.pending)
<1> DEFINE y == Execute(x, a)
<1>1. y \in Adapters(P) /\ Executing(x, a, y) /\ x.pending \in Seq(P)
    BY ExecuteFacts DEF Adapters
<1> HIDE DEF y
<1>2. Same(x.cp, y.cp)
    BY <1>1 DEF Executing
<1>3. CASE y.pending = x.pending
    <2>1. UnknownOnce(y, recorded)
        BY <1>2, <1>3 DEF UnknownOnce, Same
    <2>2. a.type = "stop" /\ ~x.halted => y.pending = Append(x.pending, Event("stop_requested"))
        BY <1>1 DEF Executing
    <2>3. a.type = "stop" /\ ~x.halted => HasStop(y.pending)
        <3>1. Event("stop_requested").kind \in StopKinds
            BY DEF Event, StopKinds
        <3> DEFINE e == Event("stop_requested")
        <3>2. a.type = "stop" /\ ~x.halted => y.pending = Append(x.pending, e)
            BY <2>2
        <3> HIDE DEF e
        <3>3. HasStop(Append(x.pending, e))
            BY <1>1, <3>1, PendingFacts DEF e
        <3>4. QED
            BY <3>2, <3>3
    <2>4. QED
        BY <1>1, <1>3, <2>1, <2>3 DEF y
<1>4. CASE y.pending # x.pending
    <2>1. PICK e : y.pending = Append(x.pending, e) /\ e.kind \in StopKinds /\ ~IsUnknown(e)
        <3>1. \/ y.pending = Append(x.pending, Event("stop_requested"))
              \/ y.pending = Append(x.pending, Event("conversation_lost"))
            BY <1>1, <1>4 DEF Executing
        <3>2. \A k \in {"stop_requested", "conversation_lost"} :
                  Event(k).kind \in StopKinds /\ ~IsUnknown(Event(k))
            BY DEF Event, StopKinds, IsUnknown
        <3>3. QED
            BY <3>1, <3>2
    <2>2. HasStop(y.pending)
        BY <1>1, <2>1, PendingFacts
    <2>3. UnknownOnce(y, recorded)
        BY <1>1, <1>2, <2>1, PendingUnknown DEF Same
    <2>4. QED
        BY <1>1, <2>2, <2>3 DEF y
<1>5. QED
    BY <1>3, <1>4

EX == INSTANCE Folding WITH Op <- Execute

(* A whole batch.  A handler may show a connection as stopping only when a  *)
(* stop is under way, was pending, or is asked for first.                   *)
LEMMA ExecuteActionsKeeps ==
    ASSUME NEW P, BatchEvents \subseteq P, NEW recorded \in BOOLEAN, NEW underWay \in BOOLEAN,
           NEW x \in GoodAdapters(P, recorded, underWay), NEW s, NEW c, Handling(c, s),
           c.failed = x.cp.failed, c.stopping => x.cp.stopping \/ underWay
    PROVE  LET y == ExecuteActions(x, s)
           IN  /\ y \in GoodAdapters(P, recorded, underWay) /\ SameSession(x, y)
               /\ Same(s.cp, y.cp)
<1> DEFINE b0 == [x EXCEPT !.cp = s.cp]
           b == [b0 EXCEPT !.halted = FALSE]
           acts == s.acts
           n == Len(acts)
           y == ExecuteActions(x, s)
<1>1. ExecuteActions(x, s) = EX!Fold(b, acts)
    BY DEF ExecuteActions, FoldLeft, MapThenFoldSet, EX!Fold, EX!Largest, Max
<1>2. /\ x \in Adapters(P) /\ UnknownOnce(x, recorded) /\ StopKept(x, underWay)
      /\ x.pending \in Seq(P)
    BY DEF GoodAdapters, Adapters
<1>3. b0 \in Adapters(P)
    BY <1>2 DEF Handling, Adapters
<1>4. SameSession(x, b0) /\ b0.pending = x.pending /\ b0.cp = s.cp
    BY <1>2 DEF Adapters, SameSession
<1> HIDE DEF b0
<1>5. b \in Adapters(P) /\ SameSession(b0, b) /\ b.pending = b0.pending /\ b.cp = b0.cp /\ ~b.halted
    BY <1>3 DEF Adapters, SameSession
<1> HIDE DEF b
<1>6. SameSession(x, b) /\ Same(s.cp, b.cp)
    BY <1>4, <1>5, SamePlane DEF SameSession
<1> HIDE DEF acts, y
<1>7. CASE InOrder(acts) /\ s.cp.failed = c.failed
    <2> DEFINE T == [i \in 0 .. n |->
                       {z \in Adapters(P) :
                          /\ SameSession(x, z) /\ Same(s.cp, z.cp) /\ UnknownOnce(z, recorded)
                          /\ HasStop(x.pending) => HasStop(z.pending)
                          /\ i # 0 /\ StopsFirst(acts) => HasStop(z.pending)
                          /\ i = 0 => ~z.halted}]
    <2>1. acts \in Seq(BatchActions) /\ n \in Nat
        BY <1>7 DEF InOrder
    <2>2. b \in T[0]
        <3>1. UnknownOnce(b, recorded)
            BY <1>2, <1>4, <1>5, <1>7 DEF UnknownOnce
        <3>2. QED
            BY <1>4, <1>5, <1>6, <2>1, <3>1
    <2>3. ASSUME NEW i \in 1 .. n, NEW z \in T[i - 1] PROVE Execute(z, acts[i]) \in T[i]
        <3> DEFINE a == acts[i]
                   w == Execute(z, a)
        <3>1. /\ i - 1 \in 0 .. n /\ i \in 0 .. n /\ z \in Adapters(P) /\ SameSession(x, z)
              /\ Same(s.cp, z.cp) /\ UnknownOnce(z, recorded)
              /\ (HasStop(x.pending) => HasStop(z.pending))
              /\ (i - 1 # 0 /\ StopsFirst(acts) => HasStop(z.pending))
              /\ (i - 1 = 0 => ~z.halted)
            BY <2>1
        <3>2. a \in BatchActions /\ a.type # "fail_session"
            <4>1. a \in BatchActions
                BY <2>1, ElementOf
            <4>2. QED
                BY <4>1 DEF BatchActions, PlainActions, Dispatches
        <3>3. i = 1 /\ StopsFirst(acts) => a.type = "stop"
            BY DEF StopsFirst
        <3> HIDE DEF a
        <3>4. /\ w \in Adapters(P) /\ UnknownOnce(w, recorded) /\ Executing(z, a, w)
              /\ (HasStop(z.pending) => HasStop(w.pending))
              /\ (a.type = "stop" /\ ~z.halted => HasStop(w.pending))
            BY <3>1, <3>2, ExecutingKeeps
        <3> HIDE DEF w
        <3>5. SameSession(x, w) /\ Same(s.cp, w.cp)
            BY <3>1, <3>4 DEF Executing, SameSession, Same
        <3>6. StopsFirst(acts) => HasStop(w.pending)
            BY <3>1, <3>3, <3>4
        <3>7. i # 0
            OBVIOUS
        <3>8. w \in T[i]
            BY <3>1, <3>4, <3>5, <3>6, <3>7
        <3>9. QED
            BY <3>8 DEF w, a
    <2> HIDE DEF T
    <2>4. EX!Fold(b, acts) \in T[n]
        BY <2>1, <2>2, <2>3, EX!FoldAdvances
    <2>5. /\ y \in Adapters(P) /\ SameSession(x, y) /\ Same(s.cp, y.cp) /\ UnknownOnce(y, recorded)
          /\ (HasStop(x.pending) => HasStop(y.pending))
          /\ (n # 0 /\ StopsFirst(acts) => HasStop(y.pending))
        BY <1>1, <2>1, <2>4 DEF T, y
    <2>6. StopsFirst(acts) => n # 0
        BY <2>1 DEF StopsFirst
    <2>7. s.cp.stopping => c.stopping \/ StopsFirst(acts)
        BY DEF Handling, acts
    <2>8. StopKept(y, underWay)
        BY <1>2, <2>5, <2>6, <2>7 DEF StopKept, Same
    <2>9. QED
        BY <2>5, <2>8 DEF GoodAdapters, y
<1>8. CASE acts = <<FailSession>> /\ ~c.failed /\ s.cp.failed
    <2> DEFINE T == [i \in 0 .. 1 |->
                       {z \in Adapters(P) :
                          /\ SameSession(x, z) /\ Same(s.cp, z.cp)
                          /\ (HasStop(x.pending) => HasStop(z.pending))
                          /\ (i = 0 => ~z.halted /\ z.pending = x.pending)
                          /\ (i # 0 => UnknownOnce(z, recorded))}]
    <2>1. acts \in Seq({FailSession}) /\ Len(acts) = 1 /\ acts[1] = FailSession
        BY <1>8
    <2>2. b \in T[0]
        BY <1>4, <1>5, <1>6
    <2>3. ASSUME NEW i \in 1 .. Len(acts), NEW z \in T[i - 1] PROVE Execute(z, acts[i]) \in T[i]
        <3> DEFINE w == Execute(z, FailSession)
        <3>1. i = 1 /\ acts[i] = FailSession
            BY <2>1
        <3>2. /\ z \in Adapters(P) /\ SameSession(x, z) /\ Same(s.cp, z.cp) /\ ~z.halted
              /\ z.pending = x.pending
            BY <3>1
        <3>3. w = Push(z, "profile_state_unknown", 0)
            BY <3>2 DEF Execute, FailSession, Action
        <3>4. [kind |-> "profile_state_unknown", value |-> 0] \in P
            BY DEF BatchEvents, Event
        <3> HIDE DEF w
        <3>5. /\ w \in Adapters(P) /\ SameSession(z, w) /\ w.cp = z.cp
              /\ w.pending = Append(z.pending, [kind |-> "profile_state_unknown", value |-> 0])
            BY <3>2, <3>3, <3>4, PushFacts
        <3>6. SameSession(x, w) /\ Same(s.cp, w.cp)
            BY <3>2, <3>5 DEF SameSession
        <3>7. UnknownOnce(w, recorded)
            <4>1. w.cp.failed /\ ~x.cp.failed
                BY <1>8, <3>6 DEF Same
            <4>2. w.pending = Append(x.pending, [kind |-> "profile_state_unknown", value |-> 0])
                BY <3>2, <3>5
            <4>3. QED
                BY <1>2, <4>1, <4>2, FirstUnknown
        <3>8. HasStop(x.pending) => HasStop(w.pending)
            BY <1>2, <3>2, <3>5, PendingFacts
        <3>9. w \in T[1]
            <4>1. 1 \in 0 .. 1 /\ 1 # 0
                OBVIOUS
            <4>2. QED
                BY <3>5, <3>6, <3>7, <3>8, <4>1
        <3>10. QED
            BY <3>1, <3>9 DEF w
    <2> HIDE DEF T
    <2>4. EX!Fold(b, acts) \in T[1]
        BY <2>1, <2>2, <2>3, EX!FoldAdvances
    <2>5. /\ y \in Adapters(P) /\ SameSession(x, y) /\ Same(s.cp, y.cp) /\ UnknownOnce(y, recorded)
          /\ (HasStop(x.pending) => HasStop(y.pending))
        BY <1>1, <2>4 DEF T, y
    <2>6. ~StopsFirst(acts)
        BY <2>1 DEF StopsFirst, FailSession, Action
    <2>7. s.cp.stopping => c.stopping
        BY <2>6 DEF Handling, acts
    <2>8. StopKept(y, underWay)
        BY <1>2, <2>5, <2>7 DEF StopKept, Same
    <2>9. QED
        BY <2>5, <2>8 DEF GoodAdapters, y
<1>9. QED
    BY <1>7, <1>8 DEF Handling, acts, FailSession

(* The events the adapter makes of nothing but their kind, and those that   *)
(* carry a result of the helper.                                            *)
PlainEvents ==
    {Event(k) : k \in {"activated", "controller_lost", "conversation_lost", "cleanup_failed",
                       "cleanup_succeeded", "profile_state_unknown", "terminal_interrupt",
                       "stop_requested"}}
ResultKinds == {"activation_failed", "workload_exited", "workload_signaled"}

(* The assumptions on P, recorded and underWay of the lemmas below. *)
Setting(P, recorded, underWay) ==
    PlainEvents \subseteq P /\ recorded \in BOOLEAN /\ underWay \in BOOLEAN

LEMMA SettingFacts ==
    ASSUME NEW P, NEW recorded, NEW underWay, Setting(P, recorded, underWay)
    PROVE  /\ BatchEvents \subseteq P
           /\ \A k \in {"activated", "controller_lost", "conversation_lost", "cleanup_failed",
                        "cleanup_succeeded", "terminal_interrupt"} :
                 [kind |-> k, value |-> 0] \in P
BY DEF Setting, PlainEvents, BatchEvents, Event

LEMMA GoodPush ==
    ASSUME NEW P, NEW recorded, NEW underWay, NEW x, NEW k, NEW v,
           Setting(P, recorded, underWay), x \in Adapters(P), UnknownOnce(x, recorded),
           StopKept(x, underWay) \/ k \in StopKinds,
           [kind |-> k, value |-> v] \in P, k # "profile_state_unknown"
    PROVE  /\ Push(x, k, v) \in GoodAdapters(P, recorded, underWay)
           /\ Push(x, k, v).cp = x.cp /\ SameSession(x, Push(x, k, v))
<1> DEFINE e == [kind |-> k, value |-> v]
           y == Push(x, k, v)
<1>1. /\ y \in Adapters(P) /\ y.pending = Append(x.pending, e) /\ y.cp = x.cp
      /\ SameSession(x, y)
    BY PushFacts
<1>2. x.pending \in Seq(P) /\ recorded \in BOOLEAN
    BY DEF Adapters, Setting
<1>3. ~IsUnknown(e) /\ e.kind = k
    BY DEF IsUnknown
<1> HIDE DEF e, y
<1>4. UnknownOnce(y, recorded)
    BY <1>1, <1>2, <1>3, PendingUnknown
<1>5. HasStop(y.pending) <=> HasStop(x.pending) \/ k \in StopKinds
    BY <1>1, <1>2, <1>3, PendingFacts
<1>6. StopKept(y, underWay)
    BY <1>1, <1>5 DEF StopKept
<1>7. QED
    BY <1>1, <1>4, <1>6 DEF GoodAdapters, y

(* A change of fields that neither property is about. *)
LEMMA GoodChange ==
    ASSUME NEW P, NEW recorded, NEW underWay, NEW x \in GoodAdapters(P, recorded, underWay),
           NEW y \in Adapters(P), y.pending = x.pending, y.cp.failed = x.cp.failed,
           y.cp.stopping = x.cp.stopping
    PROVE  y \in GoodAdapters(P, recorded, underWay)
BY DEF GoodAdapters, UnknownOnce, StopKept

(* The control plane is made when the Workload is active. *)
LEMMA ActivatedKeeps ==
    ASSUME NEW P, NEW recorded, NEW underWay, NEW x, NEW e,
           Setting(P, recorded, underWay), x \in GoodAdapters(P, recorded, underWay),
           e.kind = "activated", ~x.cp.failed
    PROVE  /\ HelperEventStep(x, e) \in GoodAdapters(P, recorded, underWay)
           /\ HelperEventStep(x, e).conv.state = x.conv.state
<1> DEFINE m0 == [x EXCEPT !.cp = ControlPlaneInit]
           made == [m0 EXCEPT !.hasCp = TRUE]
           l0 == [made EXCEPT !.listening = TRUE]
           l == [l0 EXCEPT !.activated = TRUE]
<1>1. HelperEventStep(x, e) = IF x.socketFails THEN Push(made, "conversation_lost", 0)
                                               ELSE Push(l, "activated", 0)
    BY DEF HelperEventStep
<1>2. /\ ControlPlaneInit \in ControlPlanes /\ ControlPlaneInit.queue = <<>>
      /\ ~ControlPlaneInit.failed /\ ~ControlPlaneInit.stopping
    BY ActionTypes, EmptyQueue DEF ControlPlaneInit, ControlPlanes, Flights
<1>3. x \in Adapters(P) /\ UnknownOnce(x, recorded)
    BY DEF GoodAdapters
<1>4. ControlPlaneInit \in {c \in ControlPlanes : Len(c.queue) <= QueueLimit}
    BY <1>2, EmptyQueue
<1>5. m0 \in Adapters(P) /\ m0.cp = ControlPlaneInit /\ m0.pending = x.pending
      /\ m0.conv = x.conv
    BY <1>3, <1>4 DEF Adapters
<1> HIDE DEF m0
<1>6. made \in Adapters(P) /\ made.cp = ControlPlaneInit /\ made.pending = x.pending
      /\ made.conv = x.conv
    BY <1>5 DEF Adapters
<1> HIDE DEF made
<1>7. l0 \in Adapters(P) /\ l0.cp = ControlPlaneInit /\ l0.pending = x.pending
      /\ l0.conv = x.conv
    BY <1>6 DEF Adapters
<1> HIDE DEF l0
<1>8. l \in Adapters(P) /\ l.cp = ControlPlaneInit /\ l.pending = x.pending
      /\ l.conv = x.conv
    BY <1>7 DEF Adapters
<1> HIDE DEF l
<1>9. ASSUME NEW y, y \in Adapters(P), y.cp = ControlPlaneInit, y.pending = x.pending
      PROVE  UnknownOnce(y, recorded) /\ StopKept(y, underWay)
    BY <1>2, <1>3, <1>9 DEF UnknownOnce, StopKept
<1>10. /\ [kind |-> "conversation_lost", value |-> 0] \in P
       /\ [kind |-> "activated", value |-> 0] \in P
    BY SettingFacts
<1>11. /\ Push(made, "conversation_lost", 0) \in GoodAdapters(P, recorded, underWay)
       /\ Push(made, "conversation_lost", 0).conv.state = x.conv.state
    BY <1>6, <1>9, <1>10, GoodPush DEF SameSession
<1>12. /\ Push(l, "activated", 0) \in GoodAdapters(P, recorded, underWay)
       /\ Push(l, "activated", 0).conv.state = x.conv.state
    BY <1>8, <1>9, <1>10, GoodPush DEF SameSession
<1>13. QED
    BY <1>1, <1>11, <1>12

(* Any other event of the helper. *)
LEMMA HelperEventKeeps ==
    ASSUME NEW P, NEW recorded, NEW underWay, NEW x, NEW e,
           Setting(P, recorded, underWay), x \in GoodAdapters(P, recorded, underWay),
           e \in HelperEvents, e.kind # "activated",
           e.kind \in ResultKinds => [kind |-> e.kind, value |-> e.value] \in P
    PROVE  /\ HelperEventStep(x, e) \in GoodAdapters(P, recorded, underWay)
           /\ e.kind = "ready" => HelperEventStep(x, e).cp = x.cp
           /\ HelperEventStep(x, e).conv.state = x.conv.state
<1> DEFINE y == HelperEventStep(x, e)
<1>1. /\ x \in Adapters(P) /\ UnknownOnce(x, recorded) /\ StopKept(x, underWay)
      /\ x.cp \in ControlPlanes /\ Len(x.cp.queue) <= QueueLimit
    BY DEF GoodAdapters, Adapters
<1>2. recorded \in BOOLEAN /\ underWay \in BOOLEAN /\ BatchEvents \subseteq P
      /\ [kind |-> "conversation_lost", value |-> 0] \in P
    BY SettingFacts DEF Setting
<1>3. /\ e.kind \in ResultKinds \cup {"applied", "restored", "profile_state_unknown", "ready",
                       "cleanup_succeeded", "cleanup_failed", "conversation_lost"}
      /\ e.kind \in {"applied", "restored"} => e.change \in Changes
      /\ e.kind \in {"cleanup_succeeded", "cleanup_failed", "conversation_lost"} => e.value = 0
    BY DEF HelperEvents, EventsOf, ResultKinds
<1>4. CASE e.kind = "ready"
    <2>1. y = Push(x, "conversation_lost", 0)
        BY <1>4 DEF HelperEventStep
    <2>2. QED
        BY <1>1, <1>2, <1>4, <2>1, GoodPush DEF SameSession
<1>5. CASE e.kind \in {"applied", "restored"}
    <2> DEFINE s == HandleResult(x.cp, e.kind, e.change)
    <2>1. y = ExecuteActions(x, s)
        BY <1>5 DEF HelperEventStep
    <2>2. Handling(x.cp, s)
        BY <1>1, <1>3, <1>5, HandleResultFacts
    <2> HIDE DEF s
    <2>3. y \in GoodAdapters(P, recorded, underWay) /\ y.conv.state = x.conv.state
        BY <1>2, <2>1, <2>2, ExecuteActionsKeeps DEF SameSession
    <2>4. QED
        BY <1>5, <2>3
<1>6. CASE e.kind = "profile_state_unknown"
    <2> DEFINE s == HandleStateUnknown(x.cp)
    <2>1. y = ExecuteActions(x, s)
        BY <1>6 DEF HelperEventStep
    <2>2. Handling(x.cp, s)
        BY <1>1, HandleStateUnknownFacts
    <2> HIDE DEF s
    <2>3. y \in GoodAdapters(P, recorded, underWay) /\ y.conv.state = x.conv.state
        BY <1>2, <2>1, <2>2, ExecuteActionsKeeps DEF SameSession
    <2>4. QED
        BY <1>6, <2>3
<1>7. CASE e.kind \in {"workload_exited", "workload_signaled"}
    <2> DEFINE s == HandleTerminal(x.cp)
               z == ExecuteActions(x, s)
               z1 == [z EXCEPT !.finished = TRUE]
               z2 == [z1 EXCEPT !.activated = FALSE]
    <2>1. y = Push(z2, e.kind, e.value)
        BY <1>7 DEF HelperEventStep
    <2>2. Handling(x.cp, s)
        BY <1>1, HandleTerminalFacts
    <2> HIDE DEF s
    <2>3. z \in GoodAdapters(P, recorded, underWay) /\ z.conv.state = x.conv.state
        BY <1>2, <2>2, ExecuteActionsKeeps DEF SameSession
    <2> HIDE DEF z
    <2>4. z \in Adapters(P)
        BY <2>3 DEF GoodAdapters
    <2>5. z1 \in Adapters(P) /\ z1.pending = z.pending /\ z1.cp = z.cp /\ z1.conv = z.conv
        BY <2>4 DEF Adapters
    <2> HIDE DEF z1
    <2>6. z2 \in Adapters(P) /\ z2.pending = z.pending /\ z2.cp = z.cp /\ z2.conv = z.conv
        BY <2>5 DEF Adapters
    <2> HIDE DEF z2
    <2>7. z2 \in GoodAdapters(P, recorded, underWay)
        BY <2>3, <2>6, GoodChange
    <2>8. [kind |-> e.kind, value |-> e.value] \in P /\ e.kind # "profile_state_unknown"
        BY <1>7 DEF ResultKinds
    <2>9. UnknownOnce(z2, recorded) /\ StopKept(z2, underWay)
        BY <2>7 DEF GoodAdapters
    <2>10. y \in GoodAdapters(P, recorded, underWay) /\ y.conv.state = z2.conv.state
        BY <2>1, <2>6, <2>8, <2>9, GoodPush DEF SameSession
    <2>11. QED
        BY <1>7, <2>3, <2>6, <2>10
<1>8. CASE e.kind \in {"activation_failed", "cleanup_succeeded", "cleanup_failed", "conversation_lost"}
    <2>1. y = Push(x, e.kind, e.value)
        BY <1>8 DEF HelperEventStep
    <2>2. [kind |-> e.kind, value |-> e.value] \in P
        BY <1>3, <1>8, SettingFacts DEF ResultKinds
    <2>3. e.kind # "profile_state_unknown"
        BY <1>8
    <2>4. y \in GoodAdapters(P, recorded, underWay) /\ y.conv.state = x.conv.state
        BY <1>1, <2>1, <2>2, <2>3, GoodPush DEF SameSession
    <2>5. QED
        BY <1>8, <2>4
<1>9. QED
    BY <1>3, <1>4, <1>5, <1>6, <1>7, <1>8 DEF ResultKinds

(* Before the Workload is active there is no control plane that could have  *)
(* failed.                                                                  *)
Early(conv) == conv.state \in {"waiting_for_ready", "waiting_for_activation"}
FailsLate(x) == Early(x.conv) => ~x.cp.failed

(* The event that a frame with a result becomes. *)
ResultOf(f) ==
    [kind |-> CASE f.type = "START_FAILED" -> "activation_failed"
                [] f.type = "WORKLOAD_EXITED" -> "workload_exited"
                [] f.type = "WORKLOAD_SIGNALED" -> "workload_signaled"
                [] OTHER -> "none",
     value |-> f.value]
ResultFrames == {"START_FAILED", "WORKLOAD_EXITED", "WORKLOAD_SIGNALED"}
ResultsIn(P, fs) == \A i \in 1 .. Len(fs) : fs[i].type \in ResultFrames => ResultOf(fs[i]) \in P

HS == INSTANCE Folding WITH Op <- HelperEventStep

(* One event of a read, the j-th, with the frame and the conversation it    *)
(* comes of.                                                                *)
LEMMA OneEventKeeps ==
    ASSUME NEW P, NEW recorded, NEW underWay, NEW x, NEW c, NEW f,
           Setting(P, recorded, underWay), x \in GoodAdapters(P, recorded, underWay),
           f \in HelperFrames, c \in Conversations,
           f.type \in ResultFrames => ResultOf(f) \in P,
           Early(c) => ~x.cp.failed
    PROVE  LET y == HelperEventStep(x, ReceiveFrame(c, f).event)
           IN  /\ y \in GoodAdapters(P, recorded, underWay)
               /\ y.conv.state = x.conv.state
               /\ Early(ReceiveFrame(c, f).conv) => ~y.cp.failed
<1> DEFINE e == ReceiveFrame(c, f).event
           d == ReceiveFrame(c, f).conv
           y == HelperEventStep(x, e)
<1>1. FrameRules(c, f, ReceiveFrame(c, f)) /\ e \in HelperEvents
    BY FrameByFrame, ReceiveFrameTypes
<1>2. e.kind = "activated" => c.state = "waiting_for_activation"
    BY <1>1 DEF FrameRules, Answer, Legal, HelperEvent
<1>3. Early(d) => Early(c) /\ e.kind = "ready"
    BY <1>1 DEF FrameRules, Answer, Legal, HelperEvent, Early
<1>4. e.kind \in ResultKinds => [kind |-> e.kind, value |-> e.value] \in P
    <2>1. e.kind \in ResultKinds => f.type \in ResultFrames /\ e.value = f.value
                                    /\ e.kind = ResultOf(f).kind
        BY <1>1 DEF FrameRules, Answer, Legal, HelperEvent, ResultKinds, ResultFrames, ResultOf
    <2>2. ResultOf(f) = [kind |-> ResultOf(f).kind, value |-> f.value]
        BY DEF ResultOf
    <2>3. QED
        BY <2>1, <2>2
<1> HIDE DEF e, d
<1>5. CASE e.kind = "activated"
    <2>1. ~x.cp.failed
        BY <1>2, <1>5 DEF Early
    <2>2. y \in GoodAdapters(P, recorded, underWay) /\ y.conv.state = x.conv.state
        BY <1>5, <2>1, ActivatedKeeps
    <2>3. ~Early(d)
        BY <1>3, <1>5
    <2>4. QED
        BY <2>2, <2>3 DEF d, e
<1>6. CASE e.kind # "activated"
    <2>4. e \in HelperEvents
        BY <1>1
    <2> HIDE DEF y
    <2>1. /\ y \in GoodAdapters(P, recorded, underWay) /\ y.conv.state = x.conv.state
          /\ e.kind = "ready" => y.cp = x.cp
        BY <1>4, <1>6, <2>4, HelperEventKeeps DEF y
    <2>2. Early(d) => ~y.cp.failed
        BY <1>3, <2>1
    <2>3. QED
        BY <2>1, <2>2 DEF d, e, y
<1>7. QED
    BY <1>5, <1>6

(* read_helper_events() on the frames of one read. *)
LEMMA ReadFramesKeeps ==
    ASSUME NEW P, NEW recorded, NEW underWay, NEW x, NEW fs,
           Setting(P, recorded, underWay), x \in GoodAdapters(P, recorded, underWay),
           FailsLate(x), fs \in Seq(HelperFrames), fs # <<>>, ResultsIn(P, fs)
    PROVE  /\ ReadHelperEvents(x, fs) \in GoodAdapters(P, recorded, underWay)
           /\ FailsLate(ReadHelperEvents(x, fs))
<1> DEFINE r == ReceiveFrames(x.conv, fs)
           b == [x EXCEPT !.conv = r.conv]
           es == r.events
           n == Len(es)
           y == ReadHelperEvents(x, fs)
<1>1. x \in Adapters(P) /\ x.conv \in Conversations
    BY DEF GoodAdapters, Adapters
<1>2. PICK cv : OneByOne(x.conv, fs, r, cv)
    BY <1>1, FramesOneByOne
<1>3. y = HS!Fold(b, es)
    BY DEF ReadHelperEvents, FoldLeft, MapThenFoldSet, HS!Fold, HS!Largest, Max
<1> HIDE DEF r, y
<1>4. b \in Adapters(P) /\ b.pending = x.pending /\ b.cp = x.cp /\ b.conv = r.conv
    BY <1>1, <1>2 DEF Adapters, OneByOne
<1> HIDE DEF b
<1>5. b \in GoodAdapters(P, recorded, underWay)
    BY <1>4, GoodChange
<1> DEFINE T == [i \in 0 .. n |-> {z \in GoodAdapters(P, recorded, underWay) :
                                     z.conv.state = r.conv.state /\ (Early(cv[i]) => ~z.cp.failed)}]
<1>6. es \in Seq(HelperEvents) /\ n \in Nat /\ n <= Len(fs) /\ r.conv = cv[n] /\ cv[0] = x.conv
    BY <1>2 DEF OneByOne
<1>7. b \in T[0]
    BY <1>4, <1>5, <1>6 DEF FailsLate
<1>8. ASSUME NEW i \in 1 .. n, NEW z \in T[i - 1] PROVE HelperEventStep(z, es[i]) \in T[i]
    <2> DEFINE c == cv[i - 1]
               f == fs[i]
    <2>1. /\ i - 1 \in 0 .. n /\ i \in 0 .. n /\ z \in GoodAdapters(P, recorded, underWay)
          /\ z.conv.state = r.conv.state /\ (Early(c) => ~z.cp.failed)
        BY <1>6
    <2>2. c \in Conversations /\ cv[i] = ReceiveFrame(c, f).conv /\ es[i] = ReceiveFrame(c, f).event
        BY <1>2 DEF OneByOne
    <2>3. f \in HelperFrames /\ (f.type \in ResultFrames => ResultOf(f) \in P)
        <3>1. i \in 1 .. Len(fs)
            BY <1>6
        <3>2. QED
            BY <3>1, ElementOf DEF ResultsIn
    <2> HIDE DEF c, f
    <2> DEFINE w == HelperEventStep(z, ReceiveFrame(c, f).event)
    <2>4. /\ w \in GoodAdapters(P, recorded, underWay) /\ w.conv.state = z.conv.state
          /\ Early(ReceiveFrame(c, f).conv) => ~w.cp.failed
        BY <2>1, <2>2, <2>3, OneEventKeeps
    <2> HIDE DEF w
    <2>5. w \in T[i]
        BY <2>1, <2>2, <2>4
    <2>6. QED
        BY <2>2, <2>5 DEF w
<1> HIDE DEF T
<1>9. HS!Fold(b, es) \in T[n]
    BY <1>6, <1>7, <1>8, HS!FoldAdvances
<1>10. /\ y \in GoodAdapters(P, recorded, underWay) /\ y.conv.state = r.conv.state
       /\ Early(r.conv) => ~y.cp.failed
    BY <1>3, <1>6, <1>9 DEF T
<1>11. QED
    BY <1>10 DEF FailsLate, Early, y

(* The end of the stream. *)
LEMMA ReadEndKeeps ==
    ASSUME NEW P, NEW recorded, NEW underWay, NEW x,
           Setting(P, recorded, underWay), x \in GoodAdapters(P, recorded, underWay),
           FailsLate(x)
    PROVE  /\ ReadHelperEvents(x, <<>>) \in GoodAdapters(P, recorded, underWay)
           /\ FailsLate(ReadHelperEvents(x, <<>>))
<1> DEFINE r == PeerClosed(x.conv)
           b == [x EXCEPT !.conv = r.conv]
           lost == HelperEvent("conversation_lost", 0, NoChange)
           y == ReadHelperEvents(x, <<>>)
           T == {z \in GoodAdapters(P, recorded, underWay) : FailsLate(z)}
<1>1. x \in Adapters(P) /\ x.conv \in Conversations
    BY DEF GoodAdapters, Adapters
<1>2. /\ r.conv \in Conversations /\ (r.conv = x.conv \/ r.conv.state = "failed")
      /\ r.events \in Seq({lost})
    <2>1. CASE x.conv.state \in {"failed", "finished"}
        BY <1>1, <2>1 DEF PeerClosed
    <2>2. CASE x.conv.state \notin {"failed", "finished"}
        <3>1. r = [conv |-> [state |-> "failed", pending |-> NoChange], events |-> <<lost>>]
            BY <2>2 DEF PeerClosed
        <3>2. [state |-> "failed", pending |-> NoChange] \in Conversations
            BY DEF Conversations, ConversationStates
        <3> HIDE DEF r, lost
        <3>3. <<lost>> \in Seq({lost})
            OBVIOUS
        <3>4. QED
            BY <3>1, <3>2, <3>3
    <2>3. QED
        BY <2>1, <2>2
<1>3. y = HS!Fold(b, r.events)
    BY DEF ReadHelperEvents, FoldLeft, MapThenFoldSet, HS!Fold, HS!Largest, Max
<1>4. lost.kind = "conversation_lost" /\ lost.value = 0
    BY DEF HelperEvent
<1> HIDE DEF r, y, lost
<1>5. b \in Adapters(P) /\ b.pending = x.pending /\ b.cp = x.cp /\ b.conv = r.conv
    BY <1>1, <1>2 DEF Adapters
<1> HIDE DEF b
<1>6. b \in T
    BY <1>2, <1>5, GoodChange DEF FailsLate, Early
<1>7. ASSUME NEW i \in 1 .. Len(r.events), NEW z \in T PROVE HelperEventStep(z, r.events[i]) \in T
    <2>1. r.events[i] = lost
        BY <1>2
    <2>2. HelperEventStep(z, lost) = Push(z, "conversation_lost", 0)
        BY <1>4 DEF HelperEventStep
    <2>3. /\ z \in Adapters(P) /\ UnknownOnce(z, recorded) /\ StopKept(z, underWay) /\ FailsLate(z)
          /\ [kind |-> "conversation_lost", value |-> 0] \in P
        BY SettingFacts DEF GoodAdapters
    <2> DEFINE w == Push(z, "conversation_lost", 0)
    <2>4. w \in GoodAdapters(P, recorded, underWay) /\ w.cp = z.cp /\ SameSession(z, w)
        BY <2>3, GoodPush
    <2> HIDE DEF w
    <2>5. w \in T
        BY <2>3, <2>4 DEF FailsLate, Early, SameSession
    <2>6. QED
        BY <2>1, <2>2, <2>5 DEF w
<1> HIDE DEF T
<1>8. HS!Fold(b, r.events) \in T
    BY <1>2, <1>6, <1>7, HS!FoldStaysIn
<1>9. QED
    BY <1>3, <1>8 DEF T, y

(* take_interrupt_count(), one marker. *)
InterruptNext(r, i) ==
    Push(IF r.hasCp THEN ExecuteActions(r, HandleStopping(r.cp)) ELSE r, "terminal_interrupt", 0)

TI == INSTANCE Folding WITH Op <- InterruptNext

GoodAndLate(P, recorded, underWay) ==
    {x \in GoodAdapters(P, recorded, underWay) : FailsLate(x)}

LEMMA InterruptKeeps ==
    ASSUME NEW P, NEW recorded, NEW underWay, NEW r, NEW i,
           Setting(P, recorded, underWay), r \in GoodAndLate(P, recorded, underWay)
    PROVE  InterruptNext(r, i) \in GoodAndLate(P, recorded, underWay)
<1> DEFINE z == IF r.hasCp THEN ExecuteActions(r, HandleStopping(r.cp)) ELSE r
           y == Push(z, "terminal_interrupt", 0)
<1>1. /\ r \in Adapters(P) /\ r \in GoodAdapters(P, recorded, underWay) /\ FailsLate(r)
      /\ UnknownOnce(r, recorded) /\ r.cp \in ControlPlanes
    BY DEF GoodAndLate, GoodAdapters, Adapters
<1>2. /\ BatchEvents \subseteq P /\ recorded \in BOOLEAN /\ TRUE \in BOOLEAN
      /\ [kind |-> "terminal_interrupt", value |-> 0] \in P
    BY SettingFacts DEF Setting
<1>3. r \in GoodAdapters(P, recorded, TRUE)
    BY <1>1 DEF GoodAdapters, StopKept
<1>4. /\ z \in Adapters(P) /\ UnknownOnce(z, recorded)
      /\ z.cp.failed = r.cp.failed /\ z.conv.state = r.conv.state
    <2>1. CASE r.hasCp
        <3> DEFINE s == HandleStopping(r.cp)
        <3>1. Handling(s.cp, s) /\ s.cp.failed = r.cp.failed
            BY <1>1, HandleStoppingFacts
        <3> HIDE DEF s
        <3> DEFINE w == ExecuteActions(r, s)
        <3>2. w \in GoodAdapters(P, recorded, TRUE) /\ SameSession(r, w) /\ Same(s.cp, w.cp)
            BY <1>2, <1>3, <3>1, ExecuteActionsKeeps
        <3> HIDE DEF w
        <3>3. z = w
            BY <2>1 DEF w, s
        <3> HIDE DEF z
        <3>4. QED
            BY <3>1, <3>2, <3>3 DEF GoodAdapters, Same, SameSession
    <2>2. CASE ~r.hasCp
        BY <1>1, <2>2
    <2>3. QED
        BY <2>1, <2>2
<1> HIDE DEF z
<1>5. "terminal_interrupt" \in StopKinds
    BY DEF StopKinds
<1>6. y \in GoodAdapters(P, recorded, underWay) /\ y.cp = z.cp /\ SameSession(z, y)
    BY <1>2, <1>4, <1>5, GoodPush
<1> HIDE DEF y
<1>7. FailsLate(y)
    BY <1>1, <1>4, <1>6 DEF FailsLate, Early, SameSession
<1>8. y = InterruptNext(r, i)
    BY DEF InterruptNext, y, z
<1>9. QED
    BY <1>6, <1>7, <1>8 DEF GoodAndLate

LEMMA TakeInterruptsKeeps ==
    ASSUME NEW P, NEW recorded, NEW underWay, NEW x, NEW count,
           Setting(P, recorded, underWay), x \in GoodAndLate(P, recorded, underWay), count \in Nat
    PROVE  TakeInterrupts(x, count) \in GoodAndLate(P, recorded, underWay)
<1> DEFINE q == [i \in 1 .. count |-> i]
           T == GoodAndLate(P, recorded, underWay)
<1>1. CASE x.finished
    BY <1>1 DEF TakeInterrupts
<1>2. CASE ~x.finished
    <2>1. TakeInterrupts(x, count) = TI!Fold(x, q)
        BY <1>2 DEF TakeInterrupts, InterruptNext, FoldLeft, MapThenFoldSet, TI!Fold,
                    TI!Largest, Max
    <2>2. q \in Seq(Nat)
        OBVIOUS
    <2> HIDE DEF q
    <2>3. \A i \in 1 .. Len(q) : \A r \in T : InterruptNext(r, q[i]) \in T
        BY InterruptKeeps
    <2> HIDE DEF T
    <2>4. TI!Fold(x, q) \in T
        BY <2>2, <2>3, TI!FoldStaysIn DEF T
    <2>5. QED
        BY <2>1, <2>4 DEF T
<1>3. QED
    BY <1>1, <1>2

(* A batch that no stop is in. *)
LEMMA HandledKeeps ==
    ASSUME NEW P, NEW recorded, NEW underWay, NEW x, NEW s,
           Setting(P, recorded, underWay), x \in GoodAndLate(P, recorded, underWay),
           Handling(x.cp, s), s.cp.failed = x.cp.failed
    PROVE  ExecuteActions(x, s) \in GoodAndLate(P, recorded, underWay)
<1> DEFINE y == ExecuteActions(x, s)
<1>1. x \in GoodAdapters(P, recorded, underWay) /\ FailsLate(x)
    BY DEF GoodAndLate
<1>2. BatchEvents \subseteq P /\ recorded \in BOOLEAN /\ underWay \in BOOLEAN
    BY SettingFacts DEF Setting
<1>3. y \in GoodAdapters(P, recorded, underWay) /\ SameSession(x, y) /\ Same(s.cp, y.cp)
    BY <1>1, <1>2, ExecuteActionsKeeps
<1> HIDE DEF y
<1>4. FailsLate(y)
    BY <1>1, <1>3 DEF FailsLate, Early, Same, SameSession
<1>5. QED
    BY <1>3, <1>4 DEF GoodAndLate, y

LEMMA AcceptKeeps ==
    ASSUME NEW P, NEW recorded, NEW underWay, NEW x, NEW peer,
           Setting(P, recorded, underWay), x \in GoodAndLate(P, recorded, underWay),
           peer \in {"none", "open", "closed"}
    PROVE  AcceptController(x, peer) \in GoodAndLate(P, recorded, underWay)
<1> DEFINE z == [x EXCEPT !.client = peer]
           s == HandleAttached(z.cp)
<1>1. x \in GoodAdapters(P, recorded, underWay) /\ FailsLate(x) /\ x \in Adapters(P)
    BY DEF GoodAndLate, GoodAdapters
<1>2. z \in Adapters(P) /\ z.pending = x.pending /\ z.cp = x.cp /\ z.conv = x.conv
    BY <1>1 DEF Adapters
<1>3. AcceptController(x, peer) = IF x.client # "none" THEN x ELSE ExecuteActions(z, HandleAttached(x.cp))
    BY DEF AcceptController
<1> HIDE DEF z
<1>4. z \in GoodAndLate(P, recorded, underWay)
    BY <1>1, <1>2, GoodChange DEF GoodAndLate, FailsLate
<1>5. z.cp \in ControlPlanes /\ Len(z.cp.queue) <= QueueLimit
    BY <1>2 DEF Adapters
<1>6. Handling(z.cp, s) /\ s.cp.failed = z.cp.failed
    <2>1. Handling(z.cp, s)
        BY <1>5, HandleAttachedFacts
    <2>2. s.acts = <<Send(Text("ATTACHED"))>>
        BY DEF HandleAttached
    <2>3. Send(Text("ATTACHED")) # Action("fail_session")
        BY DEF Send, Action
    <2> HIDE DEF s
    <2>4. s.acts # <<Action("fail_session")>>
        BY <2>2, <2>3
    <2>5. QED
        BY <2>1, <2>4 DEF Handling
<1> HIDE DEF s
<1>7. ExecuteActions(z, s) \in GoodAndLate(P, recorded, underWay)
    BY <1>4, <1>6, HandledKeeps
<1>8. QED
    BY <1>2, <1>3, <1>7 DEF s

LEMMA BytesKeep ==
    ASSUME NEW P, NEW recorded, NEW underWay, NEW x, NEW ls,
           Setting(P, recorded, underWay), x \in GoodAndLate(P, recorded, underWay),
           ls \in Seq(ControllerLines)
    PROVE  ControllerBytes(x, ls) \in GoodAndLate(P, recorded, underWay)
<1> DEFINE c == x.cp
           s == HandleBytes(c, ls)
           e == Executed(c)
<1>1. c \in ControlPlanes /\ Len(c.queue) <= QueueLimit
    BY DEF GoodAndLate, GoodAdapters, Adapters
<1>2. ControllerBytes(x, ls) = ExecuteActions(x, s)
    BY DEF ControllerBytes
<1> HIDE DEF c
<1>3. s \in Batches(e) /\ Len(s.cp.queue) <= QueueLimit
    BY <1>1, HandleBytesFacts
<1>4. Settled(e) /\ Same(c, e)
    BY <1>1, ExecutedFacts
<1> HIDE DEF s, e
<1>5. Handling(c, s)
    BY <1>3, <1>4, BatchIsHandling DEF Same
<1>6. s.cp.failed = c.failed
    BY <1>3, <1>4 DEF Batches, Kept, Same
<1>7. QED
    BY <1>2, <1>5, <1>6, HandledKeeps DEF c

LEMMA GoneKeeps ==
    ASSUME NEW P, NEW recorded, NEW underWay, NEW x,
           Setting(P, recorded, underWay), x \in GoodAndLate(P, recorded, underWay)
    PROVE  ControllerGone(x) \in GoodAndLate(P, recorded, underWay)
<1> DEFINE d == HandleDisconnected(x.cp).cp
           z1 == [x EXCEPT !.cp = d]
           z == [z1 EXCEPT !.client = "none"]
           y == Push(z, "controller_lost", 0)
<1>1. x \in GoodAdapters(P, recorded, underWay) /\ FailsLate(x) /\ x \in Adapters(P)
    BY DEF GoodAndLate, GoodAdapters
<1>2. x.cp \in ControlPlanes
    BY <1>1 DEF Adapters
<1>3. d \in ControlPlanes /\ Len(d.queue) <= QueueLimit /\ d.failed = x.cp.failed
      /\ d.stopping = x.cp.stopping
    <2>1. /\ Settled(Executed(x.cp)) /\ Same(x.cp, Executed(x.cp))
        BY <1>2, ExecutedFacts
    <2>2. d = DisconnectController(Executed(x.cp))
        BY DEF HandleDisconnected
    <2>3. Executed(x.cp) \in ControlPlanes
        BY <2>1 DEF Settled
    <2> HIDE DEF d
    <2>4. d \in ControlPlanes /\ d.queue = <<>> /\ Same(Executed(x.cp), d)
        BY <2>2, <2>3, Disconnected DEF OnlyFlightQueue, Kept, Same
    <2>5. QED
        BY <2>1, <2>4, EmptyQueue DEF Same
<1>4. ControllerGone(x) = y
    BY DEF ControllerGone
<1> HIDE DEF d
<1>5. z1 \in Adapters(P) /\ z1.pending = x.pending /\ z1.cp = d /\ z1.conv = x.conv
    BY <1>1, <1>3 DEF Adapters
<1> HIDE DEF z1
<1>6. z \in Adapters(P) /\ z.pending = x.pending /\ z.cp = d /\ z.conv = x.conv
    BY <1>5 DEF Adapters
<1> HIDE DEF z
<1>7. z \in GoodAdapters(P, recorded, underWay)
    BY <1>1, <1>3, <1>6, GoodChange
<1>8. /\ UnknownOnce(z, recorded) /\ StopKept(z, underWay)
      /\ [kind |-> "controller_lost", value |-> 0] \in P
    BY <1>7, SettingFacts DEF GoodAdapters
<1>9. y \in GoodAdapters(P, recorded, underWay) /\ y.cp = z.cp /\ SameSession(z, y)
    BY <1>6, <1>8, GoodPush
<1> HIDE DEF y
<1>10. FailsLate(y)
    BY <1>1, <1>3, <1>6, <1>9 DEF FailsLate, Early, SameSession
<1>11. QED
    BY <1>4, <1>9, <1>10 DEF GoodAndLate

-----------------------------------------------------------------------------
(* The Session *)

StopCommands == {StopCommand(s) : s \in {"TERM", "KILL"}}
ChangeCommands == {ChangeCommand(c) : c \in Changes}
HelperCommands == {StartBlock} \cup StopCommands \cup ChangeCommands

(* What the helper says of its Workload, what the adapter makes of it, and  *)
(* what the lifecycle has recorded, is true from then on.                   *)
NeverRan == work = "none" /\ helper \notin {"send_ready", "read_start", "prepare", "launch"}
EndedAs(kind, value) == work = "reaped" /\ ended = [kind |-> kind, value |-> value]

TrueFrames ==
    {f \in HelperFrames :
       /\ f.type = "START_FAILED" => NeverRan
       /\ f.type = "WORKLOAD_EXITED" => EndedAs("exited", f.value)
       /\ f.type = "WORKLOAD_SIGNALED" => EndedAs("signaled", f.value)}
TrueEvents ==
    {e \in AdapterEvents :
       /\ e.kind = "activation_failed" => NeverRan
       /\ e.kind = "workload_exited" => EndedAs("exited", e.value)
       /\ e.kind = "workload_signaled" => EndedAs("signaled", e.value)}
WorkloadIsTrue ==
    \/ workload = NoResult
    \/ workload.kind = "start_failure" /\ NeverRan
    \/ workload = ended /\ work = "reaped"

(* What is on its way between the two processes. *)
MessageInv ==
    /\ frames \in Seq(TrueFrames)
    /\ commands \in Seq(HelperCommands) /\ todo \in Seq(HelperCommands)
    /\ report \in HelperFrames
    /\ helper = "send_ready" => report = Frame("READY")
    /\ helper = "report_failed" => report \in TrueFrames
    /\ helper = "report_cleanup" => report \in {Frame("CLEANUP_OK"), Frame("CLEANUP_FAILED")}
    /\ profile \in Profiles

(* What the user and the Controllers may do. *)
WorldInv ==
    /\ lines \in Seq(Lines) /\ waiting \in {"none", "open", "closed"} /\ interrupts \in Nat
    /\ reap \in {"no", "natural", "terminated", "killed", "orphaned"}

(* The adapter: its events are true, an unknown profile is noticed once and *)
(* not before there is a control plane, and no stop is forgotten.           *)
Has(f) == \E i \in 1 .. Len(failures) : failures[i] = f
UnderWay ==
    stopStage # "none" \/ lc \notin {"begin", "waiting_for_activation", "active"}
AdapterInv == ad \in GoodAndLate(TrueEvents, Has("profile_state"), UnderWay)

(* Every failure is recorded once. *)
FailuresInv ==
    /\ OutcomeCanBePublished
    /\ lc = "active" => failures \in {<<>>, <<"profile_state">>}
    /\ lc = "waiting_for_cleanup" => failures \in {<<>>, <<"profile_state">>, <<"start">>}
    /\ lc \in {"begin", "reap_launcher"} \cup States => ~Has("launcher_reaping")
    /\ lc \notin {"publish_outcome", "done"} => ~Has("supervisor_cleanup")

(* A Session that is clean when the launcher has been reaped had a helper   *)
(* that succeeded.                                                          *)
HelperSucceeded ==
    lc \in {"finalize", "publish_outcome", "done"} /\ failures = <<>> =>
        helper = "exited" /\ status = 0

SessionInv ==
    /\ LcInv /\ HelperInv /\ MessageInv /\ WorldInv /\ AdapterInv /\ FailuresInv
    /\ WorkloadIsTrue /\ HelperSucceeded

(* What is true of the Workload stays true. *)
LEMMA TruthLasts ==
    HelperInv /\ [SessionNext]_vars =>
        /\ NeverRan => NeverRan'
        /\ work = "reaped" => work' = "reaped" /\ ended' = ended
<1> SUFFICES ASSUME HelperInv, [SessionNext]_vars
             PROVE  /\ NeverRan => NeverRan'
                    /\ work = "reaped" => work' = "reaped" /\ ended' = ended
    OBVIOUS
<1>1. CASE UNCHANGED <<helperOpen, helperVars, workVars>>
    BY <1>1 DEF helperVars, workVars, NeverRan
<1>2. CASE WorkloadKilled \/ WorkloadEnds \/ HelperDies
    <2>1. CASE WorkloadKilled \/ WorkloadEnds
        BY <2>1 DEF WorkloadKilled, WorkloadEnds, helperVars, workVars, NeverRan, Alive, HelperInv
    <2>2. CASE HelperDies
        <3>1. helper' = "dead" /\ UNCHANGED <<env, ended>>
            BY <2>2 DEF HelperDies
        <3>2. QED
            BY <2>2, <3>1, Orphaned DEF NeverRan, Alive, HelperInv
    <2>3. QED
        BY <1>2, <2>1, <2>2
<1>3. CASE HelperStep
    <2> USE DEF NeverRan, HelperInv, workVars
    <2>1. CASE SendReady \/ ReadStart \/ Prepare \/ Launch
        BY <2>1 DEF SendReady, ReadStart, Prepare, Launch, Exit
    <2>2. CASE ReportFailed \/ ReportActive \/ PollSupervisor \/ CarryOutChange \/ CommandsDone
        BY <2>2 DEF ReportFailed, ReportActive, PollSupervisor, LoseSupervisor, CarryOutChange, CommandsDone
    <2>3. CASE PollWorkload \/ CarryOutStop
        BY <2>3 DEF PollWorkload, CarryOutStop, Alive
    <2>4. CASE StopWorkload \/ StopGrace
        BY <2>4 DEF StopWorkload, StopGrace
    <2>5. CASE Cleanup \/ ReportCleanup \/ HelperExits
        BY <2>5 DEF Cleanup, ReportCleanup, HelperExits, Exit
    <2>6. QED
        BY <1>3, <2>1, <2>2, <2>3, <2>4, <2>5 DEF HelperStep
<1>4. QED
    BY <1>1, <1>2, <1>3, HelperFrame

LEMMA TruthGrows ==
    ASSUME HelperInv, [SessionNext]_vars
    PROVE  TrueFrames \subseteq TrueFrames' /\ TrueEvents \subseteq TrueEvents'
<1>1. /\ NeverRan => NeverRan'
      /\ \A k, v : EndedAs(k, v) => EndedAs(k, v)'
    BY TruthLasts DEF EndedAs
<1>2. TrueFrames \subseteq TrueFrames'
    BY <1>1 DEF TrueFrames
<1>3. TrueEvents \subseteq TrueEvents'
    BY <1>1 DEF TrueEvents
<1>4. QED
    BY <1>2, <1>3

LEMMA SeqGrows == ASSUME NEW P, NEW Q, P \subseteq Q, NEW s \in Seq(P) PROVE s \in Seq(Q)
OBVIOUS

LEMMA GoodGrows ==
    ASSUME NEW P, NEW Q, NEW recorded, NEW underWay, NEW x, P \subseteq Q,
           x \in GoodAndLate(P, recorded, underWay)
    PROVE  x \in GoodAndLate(Q, recorded, underWay)
<1>1. x \in Adapters(Q)
    <2>1. x.pending \in Seq(Q) /\ x \in Adapters(P)
        BY SeqGrows DEF GoodAndLate, GoodAdapters, Adapters
    <2>2. QED
        BY <2>1 DEF Adapters
<1>2. QED
    BY <1>1 DEF GoodAndLate, GoodAdapters

(* The lemmas about the adapter apply to what is true. *)
LEMMA TrueSetting == Setting(TrueEvents, Has("profile_state"), UnderWay)
<1>1. PlainEvents \subseteq TrueEvents
    <2>1. PlainEvents \subseteq AdapterEvents
        BY DEF PlainEvents, AdapterEvents, LifecycleEvents, Event
    <2>2. \A e \in PlainEvents : e.kind \notin ResultKinds
        BY DEF PlainEvents, Event, ResultKinds
    <2>3. QED
        BY <2>1, <2>2 DEF TrueEvents, ResultKinds
<1>2. Has("profile_state") \in BOOLEAN /\ UnderWay \in BOOLEAN
    BY DEF Has, UnderWay
<1>3. QED
    BY <1>1, <1>2 DEF Setting

(* Frames that are true give events that are. *)
LEMMA TrueResults ==
    ASSUME NEW fs \in Seq(TrueFrames)
    PROVE  fs \in Seq(HelperFrames) /\ ResultsIn(TrueEvents, fs)
<1>1. TrueFrames \subseteq HelperFrames
    BY DEF TrueFrames
<1>2. ASSUME NEW f \in TrueFrames, f.type \in ResultFrames PROVE ResultOf(f) \in TrueEvents
    <2>1. /\ f.type = "START_FAILED" => f.value \in {125, 126, 127} /\ NeverRan
          /\ f.type = "WORKLOAD_EXITED" => f.value \in ExitCodes /\ EndedAs("exited", f.value)
          /\ f.type = "WORKLOAD_SIGNALED" => f.value \in Signals /\ EndedAs("signaled", f.value)
        BY DEF TrueFrames, HelperFrames, FramesOf
    <2>2. CASE f.type = "START_FAILED"
        <3> DEFINE e == [kind |-> "activation_failed", value |-> f.value]
        <3>1. ResultOf(f) = e
            BY <2>2 DEF ResultOf
        <3>2. e \in AdapterEvents
            BY <2>1, <2>2 DEF AdapterEvents, LifecycleEvents, Event
        <3>3. QED
            BY <2>1, <2>2, <3>1, <3>2 DEF TrueEvents
    <2>3. CASE f.type = "WORKLOAD_EXITED"
        <3> DEFINE e == [kind |-> "workload_exited", value |-> f.value]
        <3>1. ResultOf(f) = e
            BY <2>3 DEF ResultOf
        <3>2. e \in AdapterEvents
            BY <2>1, <2>3 DEF AdapterEvents, LifecycleEvents, Event
        <3>3. QED
            BY <2>1, <2>3, <3>1, <3>2 DEF TrueEvents
    <2>4. CASE f.type = "WORKLOAD_SIGNALED"
        <3> DEFINE e == [kind |-> "workload_signaled", value |-> f.value]
        <3>1. ResultOf(f) = e
            BY <2>4 DEF ResultOf
        <3>2. e \in AdapterEvents
            BY <2>1, <2>4 DEF AdapterEvents, LifecycleEvents, Event
        <3>3. QED
            BY <2>1, <2>4, <3>1, <3>2 DEF TrueEvents
    <2>5. QED
        BY <1>2, <2>2, <2>3, <2>4 DEF ResultFrames
<1>3. \A i \in 1 .. Len(fs) : fs[i] \in TrueFrames
    BY ElementOf
<1>4. QED
    BY <1>1, <1>2, <1>3, SeqGrows DEF ResultsIn

-----------------------------------------------------------------------------
(* Steps that leave the lifecycle, the helper and the Workload alone *)

LEMMA SupervisorSide ==
    ASSUME SessionInv, UNCHANGED <<lcVars, helperVars, workVars>>, HelperInv', WorldInv',
           frames' \in Seq(TrueFrames), commands' \in Seq(HelperCommands),
           ad' \in GoodAndLate(TrueEvents, Has("profile_state"), UnderWay)
    PROVE  SessionInv'
<1> USE DEF SessionInv
<1>1. /\ TrueFrames' = TrueFrames /\ TrueEvents' = TrueEvents
      /\ Has("profile_state")' = Has("profile_state") /\ UnderWay' = UnderWay
    BY DEF TrueFrames, TrueEvents, NeverRan, EndedAs, Has, UnderWay, lcVars, helperVars, workVars
<1>2. LcInv'
    BY DEF LcInv, LcTypeOK, QuietBeforeActive, NoResultWhileActive, CleanupHasReason,
           CleanMeansResult, StopsFollowStage, UnknownProfileStops, lcVars
<1>3. FailuresInv'
    BY DEF FailuresInv, OutcomeCanBePublished, Has, lcVars
<1>4. WorkloadIsTrue' /\ HelperSucceeded'
    BY DEF WorkloadIsTrue, HelperSucceeded, NeverRan, lcVars, helperVars, workVars
<1>5. AdapterInv'
    BY <1>1 DEF AdapterInv
<1>6. MessageInv'
    BY <1>1 DEF MessageInv, helperVars
<1>7. QED
    BY <1>2, <1>3, <1>4, <1>5, <1>6

(* A change of fields that nothing is said about. *)
LEMMA FieldsChange ==
    ASSUME NEW P, NEW recorded, NEW underWay, NEW x, NEW y,
           x \in GoodAndLate(P, recorded, underWay), y \in Adapters(P),
           y.pending = x.pending, y.cp = x.cp, y.conv = x.conv
    PROVE  y \in GoodAndLate(P, recorded, underWay)
<1>1. x \in GoodAdapters(P, recorded, underWay) /\ FailsLate(x)
    BY DEF GoodAndLate
<1>2. y \in GoodAdapters(P, recorded, underWay)
    BY <1>1, GoodChange
<1>3. FailsLate(y)
    BY <1>1 DEF FailsLate
<1>4. QED
    BY <1>2, <1>3 DEF GoodAndLate

LEMMA NowKeeps ==
    ASSUME HelperInv, AdapterInv, NEW fails \in BOOLEAN
    PROVE  Now(fails) \in GoodAndLate(TrueEvents, Has("profile_state"), UnderWay)
<1> DEFINE P == TrueEvents
           y1 == [ad EXCEPT !.helperOpen = helperOpen]
           y == [y1 EXCEPT !.socketFails = fails]
<1>1. ad \in Adapters(P)
    BY DEF AdapterInv, GoodAndLate, GoodAdapters
<1>2. helperOpen \in BOOLEAN
    BY DEF HelperInv, HelperDone
<1>3. Now(fails) = y
    BY DEF Now
<1> HIDE DEF P
<1>4. y1 \in Adapters(P) /\ y1.pending = ad.pending /\ y1.cp = ad.cp /\ y1.conv = ad.conv
    BY <1>1, <1>2 DEF Adapters
<1> HIDE DEF y1
<1>5. y \in Adapters(P) /\ y.pending = ad.pending /\ y.cp = ad.cp /\ y.conv = ad.conv
    BY <1>4 DEF Adapters
<1> HIDE DEF y
<1>6. QED
    BY <1>3, <1>5, FieldsChange DEF AdapterInv, P

LEMMA InstallKeeps ==
    ASSUME NEW x, NEW asked, Install(x, asked), commands \in Seq(HelperCommands),
           x \in GoodAndLate(TrueEvents, Has("profile_state"), UnderWay)
    PROVE  /\ ad' \in GoodAndLate(TrueEvents, Has("profile_state"), UnderWay)
           /\ commands' \in Seq(HelperCommands)
<1> DEFINE P == TrueEvents
           y1 == [x EXCEPT !.outbox = <<>>]
           y2 == [y1 EXCEPT !.texts = <<>>]
           y3 == [y2 EXCEPT !.halted = FALSE]
           y4 == [y3 EXCEPT !.helperOpen = TRUE]
           y5 == [y4 EXCEPT !.socketFails = FALSE]
           Like(y) == y \in Adapters(P) /\ y.pending = x.pending /\ y.cp = x.cp /\ y.conv = x.conv
<1>1. x \in Adapters(P)
    BY DEF GoodAndLate, GoodAdapters
<1>2. ad' = y5 /\ commands' = commands \o x.outbox
    BY DEF Install
<1> HIDE DEF P
<1>13. <<>> \in Seq({ChangeCommand(c) : c \in Changes}) /\ <<>> \in Seq(Texts)
    OBVIOUS
<1>3. Like(y1)
    BY <1>1, <1>13 DEF Adapters
<1> HIDE DEF y1
<1>4. Like(y2)
    BY <1>3, <1>13 DEF Adapters
<1> HIDE DEF y2
<1>5. Like(y3)
    BY <1>4 DEF Adapters
<1> HIDE DEF y3
<1>6. Like(y4)
    BY <1>5 DEF Adapters
<1> HIDE DEF y4
<1>7. Like(y5)
    BY <1>6 DEF Adapters
<1> HIDE DEF y5
<1>8. ad' \in GoodAndLate(TrueEvents, Has("profile_state"), UnderWay)
    BY <1>2, <1>7, FieldsChange DEF P
<1>9. x.outbox \in Seq(ChangeCommands)
    BY <1>1 DEF Adapters, ChangeCommands
<1>10. ChangeCommands \subseteq HelperCommands
    BY DEF HelperCommands
<1>11. x.outbox \in Seq(HelperCommands)
    BY <1>9, <1>10, SeqGrows
<1>12. QED
    BY <1>2, <1>8, <1>11

(* One event more for the lifecycle. *)
LEMMA PushKeeps ==
    ASSUME AdapterInv
    PROVE  Push(ad, "conversation_lost", 0)
             \in GoodAndLate(TrueEvents, Has("profile_state"), UnderWay)
<1> DEFINE y == Push(ad, "conversation_lost", 0)
           R == Has("profile_state")
<1>1. /\ ad \in Adapters(TrueEvents) /\ UnknownOnce(ad, R) /\ StopKept(ad, UnderWay)
      /\ FailsLate(ad)
    BY DEF AdapterInv, GoodAndLate, GoodAdapters
<1>2. Setting(TrueEvents, R, UnderWay)
    BY TrueSetting
<1>3. [kind |-> "conversation_lost", value |-> 0] \in TrueEvents
    BY <1>2, SettingFacts
<1> HIDE DEF R
<1>4. y \in GoodAdapters(TrueEvents, R, UnderWay) /\ y.cp = ad.cp /\ SameSession(ad, y)
    BY <1>1, <1>2, <1>3, GoodPush
<1> HIDE DEF y
<1>5. FailsLate(y)
    BY <1>1, <1>4 DEF FailsLate, Early, SameSession
<1>6. QED
    BY <1>4, <1>5 DEF GoodAndLate, y, R

LEMMA ReadStepsKeep ==
    ASSUME SessionInv, HelperInv', ReadHelper \/ HelperError \/ ReadSignals \/ Accept
    PROVE  SessionInv'
<1> DEFINE G == GoodAndLate(TrueEvents, Has("profile_state"), UnderWay)
<1>1. HelperInv /\ AdapterInv /\ MessageInv /\ WorldInv /\ ad \in G
    BY DEF SessionInv, AdapterInv
<1>2. Setting(TrueEvents, Has("profile_state"), UnderWay)
    BY TrueSetting
<1>3. commands \in Seq(HelperCommands) /\ frames \in Seq(TrueFrames)
    BY <1>1 DEF MessageInv
<1>4. \A fails \in BOOLEAN : Now(fails) \in G
    BY <1>1, NowKeeps
<1> HIDE DEF G
<1>5. CASE ReadHelper
    <2>1. PICK fails \in BOOLEAN : Install(ReadHelperEvents(Now(fails), frames), <<>>)
        BY <1>5 DEF ReadHelper
    <2> DEFINE x == Now(fails)
               R == Has("profile_state")
    <2>2. x \in GoodAdapters(TrueEvents, R, UnderWay) /\ FailsLate(x)
        BY <1>4 DEF G, GoodAndLate
    <2>3. frames \in Seq(HelperFrames) /\ ResultsIn(TrueEvents, frames)
        BY <1>3, TrueResults
    <2> HIDE DEF x, R
    <2>4. /\ ReadHelperEvents(x, frames) \in GoodAdapters(TrueEvents, R, UnderWay)
          /\ FailsLate(ReadHelperEvents(x, frames))
        <3>1. CASE frames = <<>>
            BY <1>2, <2>2, <3>1, ReadEndKeeps DEF R
        <3>2. CASE frames # <<>>
            BY <1>2, <2>2, <2>3, <3>2, ReadFramesKeeps DEF R
        <3>3. QED
            BY <3>1, <3>2
    <2>5. ReadHelperEvents(x, frames) \in G
        BY <2>4 DEF G, GoodAndLate, R
    <2>6. ad' \in G /\ commands' \in Seq(HelperCommands)
        BY <1>3, <2>1, <2>5, InstallKeeps DEF G, x
    <2>7. /\ UNCHANGED <<lcVars, helperVars, workVars, reap, waiting, interrupts>>
          /\ frames' = <<>> /\ lines' = IF ad'.client = "none" THEN <<>> ELSE lines
        BY <1>5 DEF ReadHelper
    <2>8. WorldInv'
        <3>3. lines \in Seq(Lines) /\ <<>> \in Seq(Lines)
            BY <1>1 DEF WorldInv
        <3>1. lines' \in Seq(Lines)
            BY <2>7, <3>3
        <3>2. QED
            BY <1>1, <2>7, <3>1 DEF WorldInv
    <2>9. frames' \in Seq(TrueFrames)
        BY <2>7
    <2>10. QED
        BY <2>6, <2>7, <2>8, <2>9, SupervisorSide DEF G
<1>6. CASE HelperError
    <2>1. /\ UNCHANGED <<lcVars, socketVars, helperVars, workVars, reap, worldVars>>
          /\ ad' = Push(ad, "conversation_lost", 0)
        BY <1>6 DEF HelperError
    <2>2. ad' \in G
        BY <1>1, <2>1, PushKeeps DEF G
    <2>3. WorldInv' /\ commands' = commands /\ frames' = frames
        BY <1>1, <2>1 DEF WorldInv, worldVars, socketVars
    <2>4. QED
        BY <1>3, <2>1, <2>2, <2>3, SupervisorSide DEF G
<1>7. CASE ReadSignals
    <2> DEFINE x == TakeInterrupts(Now(FALSE), interrupts)
    <2>1. /\ UNCHANGED <<lcVars, socketVars, helperVars, workVars, reap, lines, waiting>>
          /\ interrupts' = 0 /\ ad' = [x EXCEPT !.helperOpen = TRUE]
        BY <1>7 DEF ReadSignals
    <2>2. Now(FALSE) \in G /\ interrupts \in Nat
        BY <1>1, <1>4 DEF WorldInv
    <2>3. x \in G
        BY <1>2, <2>2, TakeInterruptsKeeps DEF G
    <2> HIDE DEF x
    <2>4. /\ ad' \in Adapters(TrueEvents) /\ ad'.pending = x.pending /\ ad'.cp = x.cp
          /\ ad'.conv = x.conv
        <3> DEFINE P == TrueEvents
        <3>1. x \in Adapters(P)
            BY <2>3 DEF G, GoodAndLate, GoodAdapters
        <3> HIDE DEF P
        <3>2. ad' \in Adapters(P) /\ ad'.pending = x.pending /\ ad'.cp = x.cp /\ ad'.conv = x.conv
            BY <2>1, <3>1 DEF Adapters
        <3>3. QED
            BY <3>2 DEF P
    <2>5. ad' \in G
        BY <2>3, <2>4, FieldsChange DEF G
    <2>6. WorldInv' /\ commands' = commands /\ frames' = frames
        BY <1>1, <2>1 DEF WorldInv, socketVars
    <2>7. QED
        BY <1>3, <2>1, <2>5, <2>6, SupervisorSide DEF G
<1>8. CASE Accept
    <2>1. /\ UNCHANGED <<lcVars, frames, helperVars, workVars, reap, lines, interrupts>>
          /\ \/ Install(AcceptController(Now(FALSE), waiting), <<>>) /\ waiting' = "none"
             \/ ad' = Push(ad, "conversation_lost", 0) /\ UNCHANGED <<commands, waiting>>
             \/ UNCHANGED <<ad, commands, waiting>>
        BY <1>8 DEF Accept
    <2>2. ad' \in G /\ commands' \in Seq(HelperCommands)
        <3>1. CASE Install(AcceptController(Now(FALSE), waiting), <<>>)
            <4>1. waiting \in {"none", "open", "closed"} /\ Now(FALSE) \in G
                BY <1>1, <1>4 DEF WorldInv
            <4>2. AcceptController(Now(FALSE), waiting) \in G
                BY <1>2, <4>1, AcceptKeeps DEF G
            <4>3. QED
                BY <1>3, <3>1, <4>2, InstallKeeps DEF G
        <3>2. CASE ad' = Push(ad, "conversation_lost", 0) /\ UNCHANGED <<commands, waiting>>
            BY <1>1, <1>3, <3>2, PushKeeps DEF G
        <3>3. QED
            BY <1>1, <1>3, <2>1, <3>1, <3>2
    <2>3. WorldInv'
        BY <1>1, <2>1 DEF WorldInv
    <2>4. QED
        BY <1>3, <2>1, <2>2, <2>3, SupervisorSide DEF G
<1>9. QED
    BY <1>5, <1>6, <1>7, <1>8

LEMMA ClientStepsKeep ==
    ASSUME SessionInv, HelperInv', ReadClient \/ ReadClientEnd \/ CloseController
    PROVE  SessionInv'
<1> DEFINE G == GoodAndLate(TrueEvents, Has("profile_state"), UnderWay)
<1>1. HelperInv /\ AdapterInv /\ MessageInv /\ WorldInv /\ ad \in G
    BY DEF SessionInv, AdapterInv
<1>2. Setting(TrueEvents, Has("profile_state"), UnderWay)
    BY TrueSetting
<1>3. commands \in Seq(HelperCommands) /\ frames \in Seq(TrueFrames)
    BY <1>1 DEF MessageInv
<1>4. Now(FALSE) \in G
    BY <1>1, NowKeeps
<1> HIDE DEF G
<1>5. CASE ReadClient
    <2>1. /\ UNCHANGED <<lcVars, frames, helperVars, workVars, reap, waiting, interrupts>>
          /\ lines' = <<>> /\ Install(ControllerBytes(Now(FALSE), lines), Asked(lines))
        BY <1>5 DEF ReadClient
    <2>2. lines \in Seq(ControllerLines)
        BY <1>1, LinesAssumption, SeqGrows DEF WorldInv
    <2>3. ControllerBytes(Now(FALSE), lines) \in G
        BY <1>2, <1>4, <2>2, BytesKeep DEF G
    <2>4. ad' \in G /\ commands' \in Seq(HelperCommands)
        BY <1>3, <2>1, <2>3, InstallKeeps DEF G
    <2>5. WorldInv'
        BY <1>1, <2>1 DEF WorldInv
    <2>6. QED
        BY <1>3, <2>1, <2>4, <2>5, SupervisorSide DEF G
<1>6. CASE ReadClientEnd
    <2>1. /\ UNCHANGED <<lcVars, frames, helperVars, workVars, reap, waiting, interrupts>>
          /\ lines' = <<>> /\ Install(ControllerGone(Now(FALSE)), <<>>)
        BY <1>6 DEF ReadClientEnd
    <2>2. ControllerGone(Now(FALSE)) \in G
        BY <1>2, <1>4, GoneKeeps DEF G
    <2>3. ad' \in G /\ commands' \in Seq(HelperCommands)
        BY <1>3, <2>1, <2>2, InstallKeeps DEF G
    <2>4. WorldInv'
        BY <1>1, <2>1 DEF WorldInv
    <2>5. QED
        BY <1>3, <2>1, <2>3, <2>4, SupervisorSide DEF G
<1>7. CASE CloseController
    <2>1. /\ UNCHANGED <<lcVars, socketVars, helperVars, workVars, reap, lines, interrupts>>
          /\ \/ waiting' = "closed" /\ UNCHANGED ad
             \/ ad' = [ad EXCEPT !.client = "closed"] /\ UNCHANGED waiting
        BY <1>7 DEF CloseController, HelperUnchanged
    <2>2. CASE UNCHANGED ad
        <3>1. WorldInv' /\ commands' = commands /\ frames' = frames
            BY <1>1, <2>1 DEF WorldInv, socketVars
        <3>2. QED
            BY <1>1, <1>3, <2>1, <2>2, <3>1, SupervisorSide DEF G
    <2>3. CASE ad' = [ad EXCEPT !.client = "closed"]
        <3>1. /\ ad' \in Adapters(TrueEvents) /\ ad'.pending = ad.pending /\ ad'.cp = ad.cp
              /\ ad'.conv = ad.conv
            <4> DEFINE P == TrueEvents
            <4>1. ad \in Adapters(P)
                BY <1>1 DEF G, GoodAndLate, GoodAdapters
            <4> HIDE DEF P
            <4>2. ad' \in Adapters(P) /\ ad'.pending = ad.pending /\ ad'.cp = ad.cp
                  /\ ad'.conv = ad.conv
                BY <2>3, <4>1 DEF Adapters
            <4>3. QED
                BY <4>2 DEF P
        <3>2. ad' \in G
            BY <1>1, <3>1, FieldsChange DEF G
        <3>3. WorldInv' /\ commands' = commands /\ frames' = frames
            BY <1>1, <2>1 DEF WorldInv, socketVars
        <3>4. QED
            BY <1>3, <2>1, <3>2, <3>3, SupervisorSide DEF G
    <2>4. QED
        BY <2>1, <2>2, <2>3
<1>8. QED
    BY <1>5, <1>6, <1>7

LEMMA QuietStepsKeep ==
    ASSUME SessionInv, HelperInv',
           \/ Poll \/ SkipClient \/ Connect \/ SendLine \/ PressCtrlC \/ SupervisorDies
           \/ CloseHelperSocket \/ KillLauncher \/ UNCHANGED vars
    PROVE  SessionInv'
<1>1. HelperInv /\ AdapterInv /\ MessageInv /\ WorldInv
    BY DEF SessionInv
<1>2. commands \in Seq(HelperCommands) /\ frames \in Seq(TrueFrames)
    BY <1>1 DEF MessageInv
<1>3. UNCHANGED <<lcVars, helperVars, workVars, frames, commands, ad>>
    <2> USE DEF socketVars
    <2>1. CASE Poll \/ SkipClient
        BY <2>1 DEF Poll, SkipClient
    <2>2. CASE Connect \/ SendLine \/ PressCtrlC
        BY <2>2 DEF Connect, SendLine, PressCtrlC, HelperUnchanged, SupervisorUnchanged, supVars
    <2>3. CASE SupervisorDies \/ CloseHelperSocket \/ KillLauncher
        BY <2>3 DEF SupervisorDies, CloseHelperSocket, KillLauncher
    <2>4. CASE UNCHANGED vars
        BY <2>4 DEF vars, supVars
    <2>5. QED
        BY <2>1, <2>2, <2>3, <2>4
<1>4. WorldInv'
    <2> USE DEF worldVars, WorldInv
    <2>1. CASE Poll \/ SkipClient
        BY <1>1, <2>1 DEF Poll, SkipClient
    <2>2. CASE Connect
        BY <1>1, <2>2 DEF Connect, SupervisorUnchanged, supVars
    <2>3. CASE SendLine
        <3>1. UNCHANGED <<reap, waiting, interrupts>> /\ \E l \in Lines : lines' = Append(lines, l)
            BY <2>3 DEF SendLine, SupervisorUnchanged, supVars
        <3>2. QED
            BY <1>1, <3>1
    <2>4. CASE PressCtrlC
        BY <1>1, <2>4 DEF PressCtrlC, SupervisorUnchanged, supVars
    <2>5. CASE SupervisorDies \/ CloseHelperSocket \/ KillLauncher
        BY <1>1, <2>5 DEF SupervisorDies, CloseHelperSocket, KillLauncher
    <2>6. CASE UNCHANGED vars
        BY <1>1, <2>6 DEF vars, supVars
    <2>7. QED
        BY <2>1, <2>2, <2>3, <2>4, <2>5, <2>6
<1>5. ad' \in GoodAndLate(TrueEvents, Has("profile_state"), UnderWay)
    BY <1>1, <1>3 DEF AdapterInv
<1>6. QED
    BY <1>2, <1>3, <1>4, <1>5, SupervisorSide

-----------------------------------------------------------------------------
(* Steps of the lifecycle *)

Within(s, f) == \E i \in 1 .. Len(s) : s[i] = f
Distinct(s) == \A i, j \in 1 .. Len(s) : s[i] = s[j] => i = j

LEMMA OneMore ==
    ASSUME NEW X, NEW s \in Seq(X), NEW f \in X
    PROVE  /\ Append(s, f) \in Seq(X)
           /\ \A g : Within(Append(s, f), g) <=> Within(s, g) \/ g = f
           /\ Distinct(s) /\ ~Within(s, f) => Distinct(Append(s, f))
<1> DEFINE t == Append(s, f)
           n == Len(s)
<1>1. /\ n \in Nat /\ t \in Seq(X) /\ Len(t) = n + 1 /\ t[n + 1] = f
      /\ \A i \in 1 .. n : t[i] = s[i]
    OBVIOUS
<1>2. \A i \in 1 .. n + 1 : i \in 1 .. n \/ i = n + 1
    BY <1>1
<1>3. \A i \in 1 .. n : i \in 1 .. n + 1 /\ n + 1 \in 1 .. n + 1
    BY <1>1
<1>5. n + 1 \in 1 .. n + 1
    BY <1>1
<1> HIDE DEF t
<1>4. \A g : Within(t, g) <=> Within(s, g) \/ g = f
    BY <1>1, <1>2, <1>3, <1>5 DEF Within
<1>6. ASSUME Distinct(s), ~Within(s, f) PROVE Distinct(t)
    <2> SUFFICES ASSUME NEW i \in 1 .. n + 1, NEW j \in 1 .. n + 1, t[i] = t[j] PROVE i = j
        BY <1>1 DEF Distinct
    <2>1. CASE i \in 1 .. n /\ j \in 1 .. n
        BY <1>1, <1>6, <2>1 DEF Distinct
    <2>2. CASE i = n + 1 /\ j \in 1 .. n
        BY <1>1, <1>6, <2>2 DEF Within
    <2>3. CASE j = n + 1 /\ i \in 1 .. n
        BY <1>1, <1>6, <2>3 DEF Within
    <2>4. QED
        BY <1>2, <2>1, <2>2, <2>3
<1>7. QED
    BY <1>1, <1>4, <1>6 DEF t

LEMMA ShortLists ==
    /\ \A g : ~Within(<<>>, g)
    /\ Distinct(<<>>)
    /\ \A f, g : Within(<<f>>, g) <=> g = f
    /\ \A f : Distinct(<<f>>)
<1>1. Len(<<>>) = 0 /\ 1 .. 0 = {}
    OBVIOUS
<1>2. \A f : Len(<<f>>) = 1 /\ <<f>>[1] = f
    OBVIOUS
<1>3. 1 .. 1 = {1}
    OBVIOUS
<1>4. QED
    BY <1>1, <1>2, <1>3 DEF Within, Distinct

(* What one event may add to the failures. *)
LoopFailures == {"conversation", "cleanup", "invalid_event", "stop_request"}

FailsWith(e) ==
    \/ failures' = failures
    \/ lc' = "reap_launcher" /\ \E f \in LoopFailures : failures' = Append(failures, f)
    \/ /\ IsUnknown(e) /\ lc = "active" /\ failures = <<>>
       /\ \/ lc' = "active" /\ failures' = Append(failures, "profile_state")
          \/ /\ lc' = "reap_launcher"
             /\ failures' = Append(Append(failures, "profile_state"), "stop_request")
    \/ /\ lc = "waiting_for_activation" /\ lc' = "waiting_for_cleanup" /\ failures = <<>>
       /\ failures' = Append(failures, "start")

(* What comes of one event besides. *)
Moves ==
    \/ lc' = lc \/ lc' = "reap_launcher"
    \/ lc = "waiting_for_activation" /\ lc' \in {"active", "waiting_for_cleanup"}
    \/ lc = "active" /\ lc' = "waiting_for_cleanup"

Results(e) ==
    \/ workload' = workload
    \/ /\ e.kind = "activation_failed" /\ e.value \in {126, 127}
       /\ workload' = [kind |-> "start_failure", value |-> e.value]
    \/ e.kind = "workload_exited" /\ workload' = [kind |-> "exited", value |-> e.value]
    \/ e.kind = "workload_signaled" /\ workload' = [kind |-> "signaled", value |-> e.value]

LEMMA HandleCases ==
    ASSUME LcInv, FailuresInv, NEW e \in LifecycleEvents, NEW sent \in BOOLEAN, Handle(e, sent),
           IsUnknown(e) => ~Has("profile_state")
    PROVE  /\ lc \in States /\ Moves /\ Results(e) /\ FailsWith(e)
           /\ stops' = stops \/ \E s \in {"TERM", "KILL"} : stops' = Append(stops, s)
           /\ UnderWay => UnderWay'
           /\ e.kind \in StopKinds => UnderWay'
<1>1. /\ lc \in States
      /\ lc = "waiting_for_activation" => failures = <<>> /\ stopStage = "none"
      /\ stopStage \in StopStages
    BY DEF Handle, LcInv, QuietBeforeActive, LcTypeOK
<1>2. lc = "active" /\ IsUnknown(e) => failures = <<>>
    <2>1. SUFFICES ASSUME lc = "active", IsUnknown(e), failures = <<"profile_state">> PROVE FALSE
        BY DEF FailuresInv
    <2>2. Within(failures, "profile_state")
        BY <2>1, ShortLists
    <2>3. QED
        BY <2>1, <2>2 DEF Has, Within
<1> USE DEF States, UnderWay
<1>3. CASE Ignore(e)
    <2>1. UNCHANGED <<lc, failures, stops, workload, stopStage>>
        BY <1>3 DEF Ignore, lcVars
    <2>2. e.kind \in StopKinds => UnderWay
        BY <1>1, <1>3 DEF Ignore, Ignored, StopKinds
    <2>3. QED
        BY <1>1, <2>1, <2>2 DEF Moves, Results, FailsWith
<1>4. CASE LeaveLoop(e)
    <2>1. /\ lc' = "reap_launcher" /\ UNCHANGED <<stopStage, workload, stops>>
          /\ failures' = failures \/ \E f \in LoopFailures : failures' = Append(failures, f)
        <3>1. /\ e.kind = "conversation_lost" => failures' = Append(failures, "conversation")
              /\ e.kind = "cleanup_failed" => failures' = Append(failures, "cleanup")
              /\ e.kind = "cleanup_succeeded" /\ e.kind \in Expected => failures' = failures
              /\ ~(e.kind = "conversation_lost") /\ ~(e.kind = "cleanup_failed")
                 /\ ~(e.kind = "cleanup_succeeded" /\ e.kind \in Expected)
                   => failures' = Append(failures, "invalid_event")
            BY <1>4 DEF LeaveLoop, Fail
        <3>2. lc' = "reap_launcher" /\ UNCHANGED <<stopStage, workload, stops>>
            BY <1>4 DEF LeaveLoop
        <3>3. QED
            BY <3>1, <3>2 DEF LoopFailures
    <2>2. QED
        BY <1>1, <2>1 DEF Moves, Results, FailsWith
<1>5. CASE Activate(e)
    BY <1>1, <1>5 DEF Activate, Moves, Results, FailsWith, StopKinds
<1>6. CASE FailActivation(e)
    BY <1>1, <1>6 DEF FailActivation, Fail, Moves, Results, FailsWith, StopKinds
<1>7. CASE UnknownProfile(e, sent)
    BY <1>1, <1>2, <1>7
       DEF UnknownProfile, RequestStop, Fail, Moves, Results, FailsWith, StopKinds, IsUnknown
<1>8. CASE FirstInterrupt(e)
    BY <1>1, <1>8 DEF FirstInterrupt, Moves, Results, FailsWith, StopKinds
<1>9. CASE RepeatedInterrupt(e, sent)
    BY <1>1, <1>9
       DEF RepeatedInterrupt, RequestStop, Moves, Results, FailsWith, StopKinds, LoopFailures
<1>10. CASE StopRequested(e, sent)
    BY <1>1, <1>10
       DEF StopRequested, RequestStop, Moves, Results, FailsWith, StopKinds, LoopFailures
<1>11. CASE DeadlineExpired(e, sent)
    BY <1>1, <1>11
       DEF DeadlineExpired, RequestStop, Moves, Results, FailsWith, StopKinds, LoopFailures
<1>12. CASE WorkloadFinished(e)
    <2>1. /\ lc = "active" /\ lc' = "waiting_for_cleanup" /\ UNCHANGED <<failures, stops>>
          /\ e.kind \in {"workload_exited", "workload_signaled"}
        BY <1>12 DEF WorkloadFinished
    <2>2. workload' = [kind |-> IF e.kind = "workload_exited" THEN "exited" ELSE "signaled",
                       value |-> e.value]
        BY <1>12 DEF WorkloadFinished
    <2>3. Results(e)
        BY <2>1, <2>2 DEF Results
    <2>4. QED
        BY <1>1, <2>1, <2>3 DEF Moves, FailsWith, StopKinds
<1>13. QED
    BY <1>3, <1>4, <1>5, <1>6, <1>7, <1>8, <1>9, <1>10, <1>11, <1>12 DEF Handle

LEMMA HandleFailures ==
    ASSUME LcInv, FailuresInv, NEW e \in LifecycleEvents, NEW sent \in BOOLEAN, Handle(e, sent),
           IsUnknown(e) => ~Has("profile_state")
    PROVE  /\ FailuresInv'
           /\ Has("profile_state") => Has("profile_state")'
           /\ Has("profile_state")' => Has("profile_state") \/ IsUnknown(e)
<1>1. lc \in States /\ Moves /\ FailsWith(e)
    BY HandleCases
<1>2. /\ \A g : Has(g) <=> Within(failures, g)
      /\ \A g : Has(g)' <=> Within(failures', g)
      /\ OutcomeCanBePublished <=> Distinct(failures)
      /\ OutcomeCanBePublished' <=> Distinct(failures')
    <2>1. failures \in Seq(InfrastructureFailures) /\ failures' \in Seq(InfrastructureFailures)
        BY HandleInv DEF LcInv, LcTypeOK
    <2>2. DOMAIN failures = 1 .. Len(failures) /\ DOMAIN failures' = 1 .. Len(failures')
        BY <2>1
    <2>3. QED
        BY <2>2 DEF Has, Within, OutcomeCanBePublished, Distinct
<1>3. failures \in {<<>>, <<"profile_state">>, <<"start">>}
    BY <1>1 DEF FailuresInv, LcInv, QuietBeforeActive, States
<1>4. /\ lc' \in States \cup {"reap_launcher"}
      /\ "launcher_reaping" \notin LoopFailures /\ "supervisor_cleanup" \notin LoopFailures
      /\ "profile_state" \notin LoopFailures
      /\ \A f \in LoopFailures : ~Has(f)
      /\ failures \in Seq(InfrastructureFailures) /\ LoopFailures \subseteq InfrastructureFailures
      /\ "profile_state" \in InfrastructureFailures /\ "start" \in InfrastructureFailures
    <2>1. \A f \in LoopFailures : ~Has(f)
        BY <1>2, <1>3, ShortLists DEF LoopFailures
    <2>2. QED
        BY <1>1, <2>1 DEF Moves, States, LoopFailures, InfrastructureFailures, LcInv, LcTypeOK
<1>5. ~Has("launcher_reaping") /\ ~Has("supervisor_cleanup")
    BY <1>1 DEF FailuresInv, States
<1>6. CASE failures' = failures
    <2>1. OutcomeCanBePublished' /\ \A g : Has(g)' <=> Has(g)
        BY <1>2, <1>6 DEF FailuresInv
    <2>2. /\ lc' = "active" => failures' \in {<<>>, <<"profile_state">>}
          /\ lc' = "waiting_for_cleanup" => failures' \in {<<>>, <<"profile_state">>, <<"start">>}
        BY <1>1, <1>3, <1>6 DEF FailuresInv, Moves, LcInv, QuietBeforeActive, States
    <2>3. QED
        BY <1>4, <1>5, <2>1, <2>2 DEF FailuresInv
<1>7. CASE lc' = "reap_launcher" /\ \E f \in LoopFailures : failures' = Append(failures, f)
    <2>1. PICK f \in LoopFailures : failures' = Append(failures, f)
        BY <1>7
    <2>2. Distinct(failures') /\ \A g : Has(g)' <=> Has(g) \/ g = f
        BY <1>2, <1>4, <2>1, OneMore DEF FailuresInv
    <2>3. QED
        BY <1>2, <1>4, <1>5, <1>7, <2>2 DEF FailuresInv
<1>8. CASE /\ IsUnknown(e) /\ lc = "active" /\ failures = <<>>
           /\ lc' = "active" /\ failures' = Append(failures, "profile_state")
    <2>1. failures' = <<"profile_state">>
        BY <1>8
    <2>2. Distinct(failures') /\ \A g : Has(g)' <=> g = "profile_state"
        BY <1>2, <2>1, ShortLists
    <2>3. ~Has("profile_state")
        BY <1>8
    <2>4. QED
        BY <1>2, <1>8, <2>1, <2>2, <2>3 DEF FailuresInv
<1>9. CASE /\ IsUnknown(e) /\ lc = "active" /\ failures = <<>> /\ lc' = "reap_launcher"
           /\ failures' = Append(Append(failures, "profile_state"), "stop_request")
    <2> DEFINE s == Append(failures, "profile_state")
    <2>1. s = <<"profile_state">> /\ s \in Seq(InfrastructureFailures)
        BY <1>4, <1>9
    <2>5. failures' = Append(s, "stop_request") /\ "stop_request" \in InfrastructureFailures
        BY <1>9 DEF InfrastructureFailures
    <2> HIDE DEF s
    <2>2. Distinct(s) /\ \A g : Within(s, g) <=> g = "profile_state"
        BY <2>1, ShortLists
    <2>3. "stop_request" # "profile_state"
        OBVIOUS
    <2>4. Distinct(failures') /\ \A g : Has(g)' <=> g = "profile_state" \/ g = "stop_request"
        <3> DEFINE t == Append(s, "stop_request")
        <3>1. Distinct(t) /\ \A g : Within(t, g) <=> Within(s, g) \/ g = "stop_request"
            BY <2>1, <2>2, <2>3, <2>5, OneMore
        <3>2. failures' = t
            BY <2>5
        <3> HIDE DEF t
        <3>3. QED
            BY <1>2, <2>2, <3>1, <3>2
    <2>6. QED
        BY <1>2, <1>9, <2>4 DEF FailuresInv
<1>10. CASE /\ lc = "waiting_for_activation" /\ lc' = "waiting_for_cleanup" /\ failures = <<>>
            /\ failures' = Append(failures, "start")
    <2>1. failures' = <<"start">>
        BY <1>10
    <2>2. Distinct(failures') /\ \A g : Has(g)' <=> g = "start"
        BY <1>2, <2>1, ShortLists
    <2>3. \A g : ~Has(g)
        BY <1>2, <1>10, ShortLists
    <2>4. QED
        BY <1>2, <1>10, <2>1, <2>2, <2>3 DEF FailuresInv
<1>11. QED
    BY <1>1, <1>6, <1>7, <1>8, <1>9, <1>10 DEF FailsWith

(* The lifecycle's half of a step. *)
LEMMA LifecycleKeeps ==
    ASSUME SessionInv, HelperInv', NEW e \in LifecycleEvents, Lifecycle(e),
           IsUnknown(e) => ~Has("profile_state"),
           e.kind \in ResultKinds => e \in TrueEvents,
           ad' \in GoodAndLate(TrueEvents, Has("profile_state")', UnderWay')
    PROVE  SessionInv'
<1>1. /\ LcInv /\ FailuresInv /\ MessageInv /\ WorldInv /\ WorkloadIsTrue
      /\ Handle(e, helperOpen) /\ helperOpen \in BOOLEAN
    BY DEF SessionInv, Lifecycle, HelperInv, HelperDone
<1>2. /\ UNCHANGED <<frames, helperVars, workVars, reap, worldVars>>
      /\ commands' = IF stops' # stops THEN Append(commands, StopCommand(Last(stops'))) ELSE commands
    BY DEF Lifecycle
<1>3. LcInv' /\ FailuresInv'
    BY <1>1, HandleInv, HandleFailures
<1>4. /\ Results(e) /\ Moves /\ lc \in States
      /\ stops' = stops \/ \E s \in {"TERM", "KILL"} : stops' = Append(stops, s)
    BY <1>1, HandleCases
<1>5. TrueFrames' = TrueFrames /\ TrueEvents' = TrueEvents /\ (NeverRan' <=> NeverRan)
    BY <1>2 DEF TrueFrames, TrueEvents, NeverRan, EndedAs, helperVars, workVars
<1>6. MessageInv'
    <2>1. commands' \in Seq(HelperCommands)
        <3>1. CASE stops' = stops
            BY <1>1, <1>2, <3>1 DEF MessageInv
        <3>2. CASE stops' # stops
            <4>1. PICK s \in {"TERM", "KILL"} : stops' = Append(stops, s)
                BY <1>4, <3>2
            <4>2. Last(stops') = s
                BY <1>1, <4>1 DEF Last, LcInv, LcTypeOK
            <4>3. StopCommand(s) \in HelperCommands
                BY DEF HelperCommands, StopCommands
            <4>4. commands' = Append(commands, StopCommand(s)) /\ commands \in Seq(HelperCommands)
                BY <1>1, <1>2, <3>2, <4>2 DEF MessageInv
            <4>5. QED
                BY <4>3, <4>4
        <3>3. QED
            BY <3>1, <3>2
    <2>2. QED
        BY <1>1, <1>2, <1>5, <2>1 DEF MessageInv, helperVars
<1>7. WorldInv'
    BY <1>1, <1>2 DEF WorldInv, worldVars
<1>8. WorkloadIsTrue'
    <2>1. CASE workload' = workload
        BY <1>1, <1>2, <1>5, <2>1 DEF WorkloadIsTrue, workVars
    <2>2. CASE e.kind = "activation_failed" /\ workload' = [kind |-> "start_failure", value |-> e.value]
        <3>1. NeverRan
            BY <2>2 DEF ResultKinds, TrueEvents
        <3>2. workload'.kind = "start_failure"
            BY <2>2
        <3>3. QED
            BY <1>5, <3>1, <3>2 DEF WorkloadIsTrue
    <2>3. CASE e.kind = "workload_exited" /\ workload' = [kind |-> "exited", value |-> e.value]
        <3>1. EndedAs("exited", e.value)
            BY <2>3 DEF ResultKinds, TrueEvents
        <3>2. QED
            BY <1>2, <2>3, <3>1 DEF WorkloadIsTrue, EndedAs, workVars
    <2>4. CASE e.kind = "workload_signaled" /\ workload' = [kind |-> "signaled", value |-> e.value]
        <3>1. EndedAs("signaled", e.value)
            BY <2>4 DEF ResultKinds, TrueEvents
        <3>2. QED
            BY <1>2, <2>4, <3>1 DEF WorkloadIsTrue, EndedAs, workVars
    <2>5. QED
        BY <1>4, <2>1, <2>2, <2>3, <2>4 DEF Results
<1>9. HelperSucceeded'
    BY <1>4 DEF HelperSucceeded, Moves, States
<1>10. AdapterInv'
    BY <1>5 DEF AdapterInv
<1>11. QED
    BY <1>3, <1>6, <1>7, <1>8, <1>9, <1>10 DEF SessionInv

LEMMA TailFacts ==
    ASSUME NEW X, NEW p \in Seq(X), p # <<>>
    PROVE  /\ Head(p) \in X /\ Head(p) = p[1] /\ 1 \in 1 .. Len(p)
           /\ Tail(p) \in Seq(X) /\ Len(Tail(p)) = Len(p) - 1
           /\ \A i \in 1 .. Len(Tail(p)) :
                 Tail(p)[i] = p[i + 1] /\ i + 1 \in 1 .. Len(p) /\ i + 1 # 1
           /\ \A i \in 1 .. Len(p) : i # 1 => i - 1 \in 1 .. Len(Tail(p)) /\ Tail(p)[i - 1] = p[i]
<1>1. Len(p) \in Nat /\ Len(p) # 0
    OBVIOUS
<1>2. Head(p) \in X /\ Head(p) = p[1] /\ Tail(p) \in Seq(X) /\ Len(Tail(p)) = Len(p) - 1
    OBVIOUS
<1>3. \A i \in 1 .. Len(p) - 1 : Tail(p)[i] = p[i + 1]
    OBVIOUS
<1>4. QED
    BY <1>1, <1>2, <1>3

LEMMA EventStepsKeep ==
    ASSUME SessionInv, HelperInv', HandleEvent \/ Expire
    PROVE  SessionInv'
<1> DEFINE R == Has("profile_state")
           R1 == Has("profile_state")'
           U == UnderWay
           U1 == UnderWay'
<1>1. LcInv /\ FailuresInv /\ helperOpen \in BOOLEAN
    BY DEF SessionInv, HelperInv, HelperDone
<1>2. ad \in GoodAndLate(TrueEvents, R, U)
    BY DEF SessionInv, AdapterInv
<1>9. TrueEvents \subseteq LifecycleEvents
    BY DEF TrueEvents, AdapterEvents
<1> DEFINE P == TrueEvents
<1> HIDE DEF P
<1>3. /\ ad \in Adapters(P) /\ UnknownOnce(ad, R) /\ StopKept(ad, U) /\ FailsLate(ad)
      /\ ad.pending \in Seq(P)
    BY <1>2 DEF GoodAndLate, GoodAdapters, Adapters, P
<1>4. CASE HandleEvent
    <2> DEFINE p == ad.pending
               e == Head(p)
    <2>1. p # <<>> /\ Lifecycle(e) /\ ad' = [ad EXCEPT !.pending = Tail(@)]
        BY <1>4 DEF HandleEvent
    <2>2. ad' \in Adapters(P) /\ ad'.pending = Tail(p) /\ ad'.cp = ad.cp /\ ad'.conv = ad.conv
        <3>1. Tail(p) \in Seq(P)
            BY <1>3, <2>1, TailFacts
        <3>2. QED
            BY <1>3, <2>1, <3>1 DEF Adapters
    <2>3. e \in P /\ e \in LifecycleEvents /\ Handle(e, helperOpen)
        BY <1>3, <1>9, <2>1, TailFacts DEF Lifecycle, P
    <2> HIDE DEF e
    <2>4. e = p[1] /\ 1 \in 1 .. Len(p) /\ p \in Seq(P)
        BY <1>3, <2>1, TailFacts DEF e
    <2>5. IsUnknown(e) => ~R /\ ad.cp.failed
        BY <1>3, <2>4 DEF UnknownOnce
    <2>6. (U => U1) /\ (e.kind \in StopKinds => U1) /\ (R => R1) /\ (R1 => R \/ IsUnknown(e))
        BY <1>1, <2>3, <2>5, HandleCases, HandleFailures
    <2> DEFINE t == Tail(p)
    <2>7. /\ \A i \in 1 .. Len(t) : t[i] = p[i + 1] /\ i + 1 \in 1 .. Len(p) /\ i + 1 # 1 /\ i \in Nat
          /\ \A i \in 1 .. Len(p) : i # 1 => i - 1 \in 1 .. Len(t) /\ t[i - 1] = p[i]
        BY <2>1, <2>4, TailFacts
    <2>8. ad'.pending = t
        BY <2>2
    <2> HIDE DEF t, R, R1, U, U1
    <2>9. UnknownOnce(ad', R1)
        <3>1. R1 => ad.cp.failed
            BY <1>3, <2>5, <2>6 DEF UnknownOnce
        <3>2. ASSUME NEW i \in 1 .. Len(t), IsUnknown(t[i]) PROVE ad.cp.failed /\ ~R1
            <4>1. IsUnknown(p[i + 1]) /\ i + 1 \in 1 .. Len(p) /\ i + 1 # 1
                BY <2>7, <3>2
            <4>2. ad.cp.failed /\ ~R /\ ~IsUnknown(p[1])
                BY <1>3, <2>4, <4>1 DEF UnknownOnce
            <4>3. QED
                BY <2>4, <2>6, <4>2
        <3>3. ASSUME NEW i \in 1 .. Len(t), NEW j \in 1 .. Len(t), IsUnknown(t[i]), IsUnknown(t[j])
              PROVE  i = j
            <4>1. /\ IsUnknown(p[i + 1]) /\ i + 1 \in 1 .. Len(p) /\ i \in Nat
                  /\ IsUnknown(p[j + 1]) /\ j + 1 \in 1 .. Len(p) /\ j \in Nat
                BY <2>7, <3>3
            <4>2. i + 1 = j + 1
                BY <1>3, <4>1 DEF UnknownOnce
            <4>3. QED
                BY <4>1, <4>2
        <3>4. QED
            BY <2>2, <2>8, <3>1, <3>2, <3>3 DEF UnknownOnce
    <2>10. StopKept(ad', U1)
        <3>1. SUFFICES ASSUME ad.cp.stopping, ~U1 PROVE HasStop(t)
            BY <2>2, <2>8 DEF StopKept
        <3>2. PICK i \in 1 .. Len(p) : p[i].kind \in StopKinds
            BY <1>3, <2>6, <3>1 DEF StopKept, HasStop
        <3>3. i # 1
            BY <2>4, <2>6, <3>1, <3>2
        <3>4. QED
            BY <2>7, <3>2, <3>3 DEF HasStop
    <2>11. FailsLate(ad')
        BY <1>3, <2>2 DEF FailsLate
    <2>12. ad' \in GoodAndLate(P, R1, U1)
        BY <2>2, <2>9, <2>10, <2>11 DEF GoodAndLate, GoodAdapters
    <2>13. Lifecycle(e) /\ e \in TrueEvents
        BY <2>1, <2>3 DEF e, P
    <2>14. QED
        BY <2>3, <2>5, <2>12, <2>13, LifecycleKeeps DEF P, R, R1, U1
<1>5. CASE Expire
    <2> DEFINE e == Event("deadline_expired")
    <2>1. Lifecycle(e) /\ ad' = ad
        BY <1>5 DEF Expire
    <2>2. e \in LifecycleEvents /\ ~IsUnknown(e) /\ e.kind \notin ResultKinds
        BY DEF LifecycleEvents, IsUnknown, Event, ResultKinds
    <2> HIDE DEF e
    <2>3. Handle(e, helperOpen)
        BY <2>1 DEF Lifecycle
    <2>4. (U => U1) /\ (R <=> R1)
        BY <1>1, <2>2, <2>3, HandleCases, HandleFailures
    <2> HIDE DEF R, R1, U, U1
    <2>5. UnknownOnce(ad', R1) /\ StopKept(ad', U1)
        BY <1>3, <2>1, <2>4 DEF UnknownOnce, StopKept
    <2>6. ad' \in GoodAndLate(P, R1, U1)
        BY <1>3, <2>1, <2>5 DEF GoodAndLate, GoodAdapters, FailsLate
    <2>7. QED
        BY <2>1, <2>2, <2>6, LifecycleKeeps DEF P, R1, U1
<1>6. QED
    BY <1>4, <1>5

(* The steps before and after the loop. *)
Stage == \E ok \in BOOLEAN : Begin(ok) \/ ReapLauncher(ok) \/ Finalize(ok) \/ PublishOutcome

StageFailure(f) ==
    \/ f = "start" /\ lc = "begin" /\ lc' = "reap_launcher"
    \/ f = "launcher_reaping" /\ lc = "reap_launcher" /\ lc' = "finalize"
    \/ f = "supervisor_cleanup" /\ lc = "finalize" /\ lc' = "publish_outcome"

LEMMA StageFacts ==
    ASSUME LcInv, FailuresInv, Stage
    PROVE  /\ LcInv' /\ FailuresInv' /\ (UnderWay => UnderWay')
           /\ Has("profile_state")' <=> Has("profile_state")
           /\ failures' = <<>> => failures = <<>>
           /\ UNCHANGED workload
<1>1. PICK ok \in BOOLEAN : Begin(ok) \/ ReapLauncher(ok) \/ Finalize(ok) \/ PublishOutcome
    BY DEF Stage
<1>2. LcInv'
    BY <1>1, LcNextInv DEF LcNext
<1>3. /\ UNCHANGED <<stopStage, workload>>
      /\ \/ lc = "begin" /\ lc' = "waiting_for_activation" /\ failures' = failures
         \/ lc = "publish_outcome" /\ lc' = "done" /\ failures' = failures
         \/ lc = "reap_launcher" /\ lc' = "finalize" /\ failures' = failures
         \/ lc = "finalize" /\ lc' = "publish_outcome" /\ failures' = failures
         \/ \E f \in InfrastructureFailures : StageFailure(f) /\ failures' = Append(failures, f)
    BY <1>1 DEF Begin, ReapLauncher, Finalize, PublishOutcome, Fail, StageFailure,
                InfrastructureFailures
<1>4. UnderWay => UnderWay'
    BY <1>3 DEF UnderWay, StageFailure
<1>5. /\ \A g : Has(g) <=> Within(failures, g)
      /\ \A g : Has(g)' <=> Within(failures', g)
      /\ OutcomeCanBePublished <=> Distinct(failures)
      /\ OutcomeCanBePublished' <=> Distinct(failures')
      /\ failures \in Seq(InfrastructureFailures)
    <2>1. failures \in Seq(InfrastructureFailures) /\ failures' \in Seq(InfrastructureFailures)
        BY <1>2 DEF LcInv, LcTypeOK
    <2>2. DOMAIN failures = 1 .. Len(failures) /\ DOMAIN failures' = 1 .. Len(failures')
        BY <2>1
    <2>3. QED
        BY <2>1, <2>2 DEF Has, Within, OutcomeCanBePublished, Distinct
<1>6. CASE failures' = failures
    <2>1. \A g : Has(g)' <=> Has(g)
        BY <1>5, <1>6
    <2>2. /\ OutcomeCanBePublished'
          /\ lc' = "waiting_for_activation" \/ lc' \in {"finalize", "publish_outcome", "done"}
          /\ lc' \notin {"publish_outcome", "done"} => lc \notin {"publish_outcome", "done"}
          /\ lc' = "waiting_for_activation" => lc = "begin"
        BY <1>3, <1>5, <1>6 DEF FailuresInv, StageFailure
    <2>3. FailuresInv'
        BY <2>1, <2>2 DEF FailuresInv, States
    <2>4. QED
        BY <1>2, <1>3, <1>4, <1>6, <2>1, <2>3
<1>7. ASSUME NEW f \in InfrastructureFailures, StageFailure(f), failures' = Append(failures, f)
      PROVE  FailuresInv' /\ (Has("profile_state")' <=> Has("profile_state")) /\ failures' # <<>>
    <2>1. ~Has(f)
        <3>1. CASE lc = "begin"
            <4>1. failures = <<>>
                BY <3>1 DEF LcInv, QuietBeforeActive
            <4>2. QED
                BY <1>5, <4>1, ShortLists
        <3>2. CASE lc # "begin"
            BY <1>7, <3>2 DEF StageFailure, FailuresInv
        <3>3. QED
            BY <3>1, <3>2
    <2>2. Distinct(failures') /\ \A g : Has(g)' <=> Has(g) \/ g = f
        BY <1>5, <1>7, <2>1, OneMore DEF FailuresInv
    <2>3. lc' = "reap_launcher" => ~Has("launcher_reaping")
        BY <1>7 DEF StageFailure, FailuresInv
    <2>4. lc \notin {"publish_outcome", "done"} => ~Has("supervisor_cleanup")
        BY DEF FailuresInv
    <2>5. FailuresInv'
        <3>1. lc' \notin {"active", "waiting_for_cleanup", "begin"} \cup States
            BY <1>7 DEF StageFailure, States
        <3>2. lc' = "reap_launcher" => ~Has("launcher_reaping")'
            BY <1>7, <2>2, <2>3 DEF StageFailure
        <3>3. lc' \notin {"publish_outcome", "done"} => ~Has("supervisor_cleanup")'
            BY <1>7, <2>2, <2>4 DEF StageFailure
        <3>4. QED
            BY <1>5, <2>2, <3>1, <3>2, <3>3 DEF FailuresInv
    <2>6. f # "profile_state"
        BY <1>7 DEF StageFailure
    <2>7. failures' # <<>>
        BY <1>5, <1>7
    <2>8. QED
        BY <2>2, <2>5, <2>6, <2>7
<1>8. QED
    BY <1>2, <1>3, <1>4, <1>6, <1>7

LEMMA StageKeeps ==
    ASSUME SessionInv, HelperInv', Stage, UNCHANGED <<helperVars, workVars, reap, interrupts>>,
           frames' \in Seq(TrueFrames), commands' \in Seq(HelperCommands),
           waiting' \in {"none", waiting}, lines' = lines \/ lines' = <<>>, HelperSucceeded',
           ad' \in Adapters(TrueEvents), ad'.pending = ad.pending, ad'.cp = ad.cp,
           Early(ad'.conv) => Early(ad.conv)
    PROVE  SessionInv'
<1> DEFINE R == Has("profile_state")
           R1 == Has("profile_state")'
           U == UnderWay
           U1 == UnderWay'
<1>1. LcInv' /\ FailuresInv' /\ (U => U1) /\ (R1 <=> R) /\ UNCHANGED workload
    BY StageFacts DEF SessionInv
<1>2. /\ ad \in Adapters(TrueEvents) /\ UnknownOnce(ad, R) /\ StopKept(ad, U) /\ FailsLate(ad)
      /\ WorldInv /\ MessageInv /\ WorkloadIsTrue
    BY DEF SessionInv, AdapterInv, GoodAndLate, GoodAdapters
<1>3. /\ TrueFrames' = TrueFrames /\ TrueEvents' = TrueEvents /\ (NeverRan' <=> NeverRan)
    BY DEF TrueFrames, TrueEvents, NeverRan, EndedAs, helperVars, workVars
<1>4. AdapterInv'
    <2> HIDE DEF R, R1, U, U1
    <2>1. UnknownOnce(ad', R1) /\ StopKept(ad', U1) /\ FailsLate(ad')
        BY <1>1, <1>2 DEF UnknownOnce, StopKept, FailsLate
    <2>2. ad' \in GoodAndLate(TrueEvents, R1, U1)
        BY <2>1 DEF GoodAndLate, GoodAdapters
    <2>3. QED
        BY <1>3, <2>2 DEF AdapterInv, R1, U1
<1>5. MessageInv'
    BY <1>2, <1>3 DEF MessageInv, helperVars
<1>6. WorldInv'
    <2>1. lines \in Seq(Lines) /\ <<>> \in Seq(Lines)
        BY <1>2 DEF WorldInv
    <2>2. lines' \in Seq(Lines)
        BY <2>1
    <2>3. waiting' \in {"none", "open", "closed"} /\ UNCHANGED <<interrupts, reap>>
        BY <1>2 DEF WorldInv
    <2>4. QED
        BY <1>2, <2>2, <2>3 DEF WorldInv
<1>7. WorkloadIsTrue'
    BY <1>1, <1>2, <1>3 DEF WorkloadIsTrue, workVars
<1>8. QED
    BY <1>1, <1>4, <1>5, <1>6, <1>7 DEF SessionInv

(* The conversation never goes back. *)
LEMMA EarlyBefore ==
    ASSUME NEW conv \in Conversations, NEW fs \in Seq(HelperFrames)
    PROVE  /\ ReceiveFrames(conv, fs).conv \in Conversations
           /\ Early(ReceiveFrames(conv, fs).conv) => Early(conv)
<1> DEFINE E == Early(conv)
           T == {r \in [conv : Conversations, events : Seq(HelperEvents)] : Early(r.conv) => E}
           b == [conv |-> conv, events |-> <<>>]
<1>1. b \in T
    OBVIOUS
<1>2. ASSUME NEW i \in 1 .. Len(fs), NEW r \in T PROVE ReceiveNext(r, fs[i]) \in T
    <2> DEFINE f == fs[i]
               s == ReceiveFrame(r.conv, f)
    <2>1. f \in HelperFrames /\ r.conv \in Conversations /\ r.events \in Seq(HelperEvents)
        OBVIOUS
    <2>2. s.conv \in Conversations /\ s.event \in HelperEvents /\ FrameRules(r.conv, f, s)
        BY <2>1, ReceiveFrameTypes, FrameByFrame
    <2>3. ReceiveNext(r, f) = IF r.conv.state = "failed" THEN r
                              ELSE [conv |-> s.conv, events |-> Append(r.events, s.event)]
        BY DEF ReceiveNext
    <2> HIDE DEF s, f
    <2>4. Early(s.conv) => Early(r.conv)
        <3>1. s.conv.state = "waiting_for_ready" => FALSE
            BY <2>2 DEF FrameRules, Answer, Legal
        <3>2. s.conv.state = "waiting_for_activation" => r.conv.state = "waiting_for_ready"
            BY <2>2 DEF FrameRules, Answer, Legal
        <3>3. QED
            BY <3>1, <3>2 DEF Early
    <2>5. Append(r.events, s.event) \in Seq(HelperEvents)
        BY <2>1, <2>2
    <2> HIDE DEF E
    <2>6. ReceiveNext(r, f) \in T
        BY <2>2, <2>3, <2>4, <2>5
    <2>7. QED
        BY <2>6 DEF f
<1> HIDE DEF T
<1>3. RF!Fold(b, fs) \in T
    BY <1>1, <1>2, RF!FoldStaysIn
<1>4. ReceiveFrames(conv, fs) \in T
    BY <1>3, ReceiveFramesIsFold
<1>5. QED
    BY <1>4 DEF T

LEMMA StageStepsKeep ==
    ASSUME SessionInv, HelperInv', BeginSession \/ Reap \/ FinalizeSession \/ Publish
    PROVE  SessionInv'
<1> DEFINE P == TrueEvents
<1>1. ad \in Adapters(P) /\ WorldInv /\ LcInv /\ HelperSucceeded
    BY DEF SessionInv, AdapterInv, GoodAndLate, GoodAdapters
<1>2. commands \in Seq(HelperCommands) /\ frames \in Seq(TrueFrames) /\ <<>> \in Seq(TrueFrames)
    BY DEF SessionInv, MessageInv
<1> HIDE DEF P
<1>3. CASE BeginSession
    <2> DEFINE received == IF frames # <<>> THEN ReceiveFrames(ad.conv, frames)
                                            ELSE PeerClosed(ad.conv)
    <2>1. /\ \E ok \in BOOLEAN : Begin(ok)
          /\ ad' = [ad EXCEPT !.conv = received.conv]
          /\ commands' = commands \/ commands' = Append(commands, StartBlock)
          /\ frames' = <<>> /\ UNCHANGED <<helperVars, workVars, reap, worldVars>>
          /\ lc' \notin {"finalize", "publish_outcome", "done"}
        <3>1. PICK ok : Begin(ok) /\ ok \in BOOLEAN
            BY <1>3 DEF BeginSession
        <3>2. lc' \notin {"finalize", "publish_outcome", "done"}
            BY <3>1 DEF Begin
        <3>3. QED
            BY <1>3, <3>1, <3>2 DEF BeginSession
    <2>2. received.conv \in Conversations /\ (Early(received.conv) => Early(ad.conv))
        <3>1. ad.conv \in Conversations /\ frames \in Seq(HelperFrames)
            BY <1>1, <1>2, TrueResults DEF Adapters
        <3>2. CASE frames # <<>>
            BY <3>1, <3>2, EarlyBefore
        <3>3. CASE frames = <<>>
            BY <3>1, <3>3 DEF PeerClosed, Early, Conversations, ConversationStates
        <3>4. QED
            BY <3>2, <3>3
    <2> HIDE DEF received
    <2>3. ad' \in Adapters(P) /\ ad'.pending = ad.pending /\ ad'.cp = ad.cp /\ ad'.conv = received.conv
        BY <1>1, <2>1, <2>2 DEF Adapters
    <2>4. commands' \in Seq(HelperCommands)
        <3>1. StartBlock \in HelperCommands
            BY DEF HelperCommands
        <3>2. QED
            BY <1>2, <2>1, <3>1
    <2>5. Stage /\ HelperSucceeded'
        BY <2>1 DEF Stage, HelperSucceeded
    <2>6. waiting' \in {"none", waiting} /\ lines' = lines /\ UNCHANGED <<reap, interrupts>>
        BY <2>1 DEF worldVars
    <2>7. QED
        BY <1>2, <2>1, <2>2, <2>3, <2>4, <2>5, <2>6, StageKeeps DEF P
<1>4. CASE Reap
    <2> DEFINE ok == reap = "natural" /\ helper = "exited" /\ status = 0
    <2>1. ReapLauncher(ok) /\ UNCHANGED <<frames, commands, helperVars, workVars, reap, ad, worldVars>>
        BY <1>4 DEF Reap, socketVars, supVars
    <2>2. Stage
        <3>1. ok \in BOOLEAN
            OBVIOUS
        <3>2. QED
            BY <2>1, <3>1 DEF Stage
    <2>3. failures' = <<>> => ok
        BY <1>1, <2>1 DEF ReapLauncher, Fail, LcInv, LcTypeOK
    <2>4. HelperSucceeded'
        BY <2>1, <2>3 DEF HelperSucceeded, helperVars
    <2>5. waiting' \in {"none", waiting} /\ lines' = lines /\ UNCHANGED interrupts
        BY <2>1 DEF worldVars
    <2>6. QED
        BY <1>1, <1>2, <2>1, <2>2, <2>4, <2>5, StageKeeps DEF P
<1>5. CASE FinalizeSession
    <2>1. /\ \E ok \in BOOLEAN : Finalize(ok)
          /\ ad' = [ad EXCEPT !.listening = FALSE] /\ waiting' = "none"
          /\ UNCHANGED <<frames, commands, helperVars, workVars, reap, lines, interrupts>>
        BY <1>5 DEF FinalizeSession, socketVars
    <2>2. Stage
        BY <2>1 DEF Stage
    <2>3. lc = "finalize" /\ (failures' = <<>> => failures = <<>>)
        BY <2>1, <2>2, StageFacts DEF Finalize, SessionInv
    <2>4. HelperSucceeded'
        BY <1>1, <2>1, <2>3 DEF HelperSucceeded, helperVars
    <2>5. ad' \in Adapters(P) /\ ad'.pending = ad.pending /\ ad'.cp = ad.cp /\ ad'.conv = ad.conv
        BY <1>1, <2>1 DEF Adapters
    <2>6. QED
        BY <1>2, <2>1, <2>2, <2>4, <2>5, StageKeeps DEF P
<1>6. CASE Publish
    <2>1. /\ PublishOutcome /\ ad' = [ad EXCEPT !.client = "none"] /\ lines' = <<>>
          /\ UNCHANGED <<frames, commands, helperVars, workVars, reap, waiting, interrupts>>
        BY <1>6 DEF Publish, socketVars
    <2>2. Stage
        BY <2>1 DEF Stage
    <2>3. lc = "publish_outcome" /\ failures' = failures
        BY <2>1 DEF PublishOutcome
    <2>4. HelperSucceeded'
        BY <1>1, <2>1, <2>3 DEF HelperSucceeded, helperVars
    <2>5. ad' \in Adapters(P) /\ ad'.pending = ad.pending /\ ad'.cp = ad.cp /\ ad'.conv = ad.conv
        BY <1>1, <2>1 DEF Adapters
    <2>6. QED
        BY <1>2, <2>1, <2>2, <2>4, <2>5, StageKeeps DEF P
<1>7. QED
    BY <1>3, <1>4, <1>5, <1>6

-----------------------------------------------------------------------------
(* Steps of the helper and of the Workload *)

\* The step of the fold in ReceiveCommands.
CommandNext(r, cmd) ==
    IF ~r.h.valid THEN r
    ELSE LET s == ReceiveCommand(r.h, cmd)
         IN  [h |-> s.h, commands |-> r.commands \o s.commands]

RC == INSTANCE Folding WITH Op <- CommandNext

(* The helper accepts only what it has been sent. *)
LEMMA AcceptedCommands ==
    ASSUME NEW h, NEW X, NEW cmds \in Seq(X)
    PROVE  ReceiveCommands(h, cmds).commands \in Seq(X)
<1> DEFINE b == [h |-> h, commands |-> <<>>]
           n == Len(cmds)
<1>1. ReceiveCommands(h, cmds) = RC!Fold(b, cmds)
    BY DEF ReceiveCommands, CommandNext, FoldLeft, MapThenFoldSet, RC!Fold, RC!Largest, Max
<1>2. PICK v : RC!IsTrace(b, cmds, v) /\ RC!Fold(b, cmds) = v[n]
    BY RC!FoldTrace
<1>3. n \in Nat /\ v[0] = b /\ \A i \in 0 .. n - 1 : v[i + 1] = CommandNext(v[i], cmds[i + 1])
    BY <1>2 DEF RC!IsTrace
<1> DEFINE W == {i \in 0 .. n : v[i].commands \in Seq(X)}
<1>8. 0 \in 0 .. n /\ n \in 0 .. n /\ <<>> \in Seq(X)
    BY <1>3
<1>9. v[0].commands = <<>>
    BY <1>3
<1>4. 0 \in W
    BY <1>8, <1>9
<1>5. ASSUME NEW i \in 0 .. n - 1, i \in W PROVE i + 1 \in W
    <2> DEFINE r == v[i]
               cmd == cmds[i + 1]
    <2>1. cmd \in X /\ i + 1 \in 0 .. n /\ r.commands \in Seq(X) /\ v[i + 1] = CommandNext(r, cmd)
        BY <1>3, <1>5
    <2> HIDE DEF r, cmd
    <2>2. ReceiveCommand(r.h, cmd).commands \in {<<>>, <<cmd>>}
        BY DEF ReceiveCommand
    <2>3. ReceiveCommand(r.h, cmd).commands \in Seq(X)
        <3>1. <<>> \in Seq(X) /\ <<cmd>> \in Seq(X)
            BY <2>1
        <3>2. QED
            BY <2>2, <3>1
    <2>4. CommandNext(r, cmd).commands \in Seq(X)
        <3>1. CASE ~r.h.valid
            BY <2>1, <3>1 DEF CommandNext
        <3>2. CASE r.h.valid
            <4>1. CommandNext(r, cmd).commands = r.commands \o ReceiveCommand(r.h, cmd).commands
                BY <3>2 DEF CommandNext
            <4>2. QED
                BY <2>1, <2>3, <4>1
        <3>3. QED
            BY <3>1, <3>2
    <2>5. QED
        BY <2>1, <2>4
<1> HIDE DEF W
<1>6. n \in W
    BY <1>3, <1>4, <1>5, <1>8, RC!CountingUp
<1>7. QED
    BY <1>1, <1>2, <1>6 DEF W

LEMMA HelperSide ==
    ASSUME SessionInv, HelperInv', [SessionNext]_vars,
           UNCHANGED <<lcVars, ad, worldVars>>, reap' \in {reap, "terminated"}, MessageInv',
           helper = "exited" => UNCHANGED <<helper, status>>
    PROVE  SessionInv'
<1>1. /\ LcInv /\ HelperInv /\ WorldInv /\ AdapterInv /\ FailuresInv /\ WorkloadIsTrue
      /\ HelperSucceeded
    BY DEF SessionInv
<1>2. LcInv'
    BY <1>1 DEF LcInv, LcTypeOK, QuietBeforeActive, NoResultWhileActive, CleanupHasReason,
           CleanMeansResult, StopsFollowStage, UnknownProfileStops, lcVars
<1>3. FailuresInv'
    BY <1>1 DEF FailuresInv, OutcomeCanBePublished, Has, lcVars
<1>4. AdapterInv'
    <2>1. Has("profile_state")' = Has("profile_state") /\ UnderWay' = UnderWay /\ ad' = ad
        BY DEF Has, UnderWay, lcVars
    <2>2. TrueEvents \subseteq TrueEvents'
        BY <1>1, TruthGrows
    <2>3. ad \in GoodAndLate(TrueEvents, Has("profile_state"), UnderWay)
        BY <1>1 DEF AdapterInv
    <2> DEFINE P == TrueEvents
               Q == TrueEvents'
               R == Has("profile_state")
               U == UnderWay
    <2> HIDE DEF P, Q, R, U
    <2>4. P \subseteq Q /\ ad \in GoodAndLate(P, R, U)
        BY <2>2, <2>3 DEF P, Q, R, U
    <2>5. ad \in GoodAndLate(Q, R, U)
        BY <2>4, GoodGrows
    <2>6. QED
        BY <2>1, <2>5 DEF AdapterInv, Q, R, U
<1>5. WorldInv'
    BY <1>1 DEF WorldInv, worldVars
<1>6. WorkloadIsTrue'
    BY <1>1, TruthLasts DEF WorkloadIsTrue, lcVars
<1>7. HelperSucceeded'
    BY <1>1 DEF HelperSucceeded, lcVars
<1>8. QED
    BY <1>2, <1>3, <1>4, <1>5, <1>6, <1>7 DEF SessionInv

(* What the helper may send at any time. *)
LEMMA PlainFrames ==
    \A t \in {"READY", "ACTIVE", "PROFILE_OK", "PROFILE_FAILED", "PROFILE_STATE_UNKNOWN",
              "CLEANUP_OK", "CLEANUP_FAILED", "ERROR INVALID_RUNTIME_COMMAND",
              "ERROR STOP_FAILED"} :
        Frame(t) \in HelperFrames /\ Frame(t) \in TrueFrames /\ Frame(t) \in TrueFrames'
<1> DEFINE T == {"READY", "ACTIVE", "PROFILE_OK", "PROFILE_FAILED", "PROFILE_STATE_UNKNOWN",
                 "CLEANUP_OK", "CLEANUP_FAILED", "ERROR INVALID_RUNTIME_COMMAND",
                 "ERROR STOP_FAILED"}
<1>1. ASSUME NEW t \in T
      PROVE  Frame(t) \in HelperFrames /\ Frame(t) \in TrueFrames /\ Frame(t) \in TrueFrames'
    <2> DEFINE f == Frame(t)
    <2>1. f = [type |-> t, value |-> 0]
        BY DEF Frame
    <2> HIDE DEF f
    <2>2. f \in HelperFrames
        BY <2>1 DEF HelperFrames, FramesOf
    <2>3. f.type = t
        BY <2>1
    <2>4. f.type \notin {"START_FAILED", "WORKLOAD_EXITED", "WORKLOAD_SIGNALED"}
        BY <2>3
    <2>5. f \in TrueFrames /\ f \in TrueFrames'
        BY <2>2, <2>4 DEF TrueFrames
    <2>6. QED
        BY <2>2, <2>5 DEF f
<1>2. QED
    BY <1>1

LEMMA SendKeeps ==
    ASSUME HelperInv, MessageInv, [SessionNext]_vars, NEW f, f \in TrueFrames', SendFrame(f)
    PROVE  frames' \in Seq(TrueFrames')
<1> DEFINE Q == TrueFrames'
<1>1. frames \in Seq(TrueFrames) /\ TrueFrames \subseteq Q
    BY TruthGrows DEF MessageInv
<1> HIDE DEF Q
<1>2. frames \in Seq(Q) /\ f \in Q
    BY <1>1, SeqGrows DEF Q
<1>3. frames' = IF supOpen THEN Append(frames, f) ELSE frames
    BY DEF SendFrame
<1>4. frames' \in Seq(Q)
    BY <1>2, <1>3
<1>5. QED
    BY <1>4 DEF Q

LEMMA FramesLast ==
    ASSUME HelperInv, MessageInv, [SessionNext]_vars
    PROVE  frames \in Seq(TrueFrames')
<1> DEFINE Q == TrueFrames'
<1>1. frames \in Seq(TrueFrames) /\ TrueFrames \subseteq Q
    BY TruthGrows DEF MessageInv
<1> HIDE DEF Q
<1>2. frames \in Seq(Q)
    BY <1>1, SeqGrows
<1>3. QED
    BY <1>2 DEF Q

LEMMA StartSpeaks ==
    ASSUME HelperInv, MessageInv, [SessionNext]_vars,
           SendReady \/ ReadStart \/ Prepare \/ Launch \/ ReportFailed \/ ReportActive
    PROVE  MessageInv'
<1> DEFINE Q == TrueFrames'
<1>1. /\ frames \in Seq(Q) /\ \A f \in Q : SendFrame(f) => frames' \in Seq(Q)
      /\ Frame("READY") \in Q /\ Frame("ACTIVE") \in Q /\ Frame("CLEANUP_OK") \in HelperFrames
      /\ Frame("CLEANUP_FAILED") \in HelperFrames
    BY FramesLast, SendKeeps, PlainFrames
<1>2. /\ commands \in Seq(HelperCommands) /\ todo \in Seq(HelperCommands)
      /\ report \in HelperFrames /\ profile \in Profiles
      /\ helper = "send_ready" => report = Frame("READY")
      /\ helper = "report_failed" => report \in Q
    BY TruthGrows DEF MessageInv
<1>3. \A code \in {125, 126, 127} :
          /\ ValueFrame("START_FAILED", code) \in HelperFrames
          /\ NeverRan' => ValueFrame("START_FAILED", code) \in Q
    <2>1. SUFFICES ASSUME NEW code \in {125, 126, 127}
                   PROVE  /\ ValueFrame("START_FAILED", code) \in HelperFrames
                          /\ NeverRan' => ValueFrame("START_FAILED", code) \in Q
        OBVIOUS
    <2> DEFINE f == ValueFrame("START_FAILED", code)
    <2>2. f = [type |-> "START_FAILED", value |-> code]
        BY DEF ValueFrame
    <2> HIDE DEF f
    <2>3. f \in HelperFrames /\ f.type = "START_FAILED"
        BY <2>2 DEF HelperFrames, FramesOf
    <2>4. NeverRan' => f \in Q
        BY <2>3 DEF TrueFrames
    <2>5. QED
        BY <2>3, <2>4 DEF f
<1> HIDE DEF Q
<1>4. SUFFICES /\ frames' \in Seq(Q)
               /\ commands' \in Seq(HelperCommands) /\ todo' \in Seq(HelperCommands)
               /\ report' \in HelperFrames
               /\ helper' = "send_ready" => report' = Frame("READY")
               /\ helper' = "report_failed" => report' \in Q
               /\ helper' = "report_cleanup" =>
                     report' \in {Frame("CLEANUP_OK"), Frame("CLEANUP_FAILED")}
               /\ profile' \in Profiles
    BY DEF MessageInv, Q
<1>5. CASE SendReady
    <2>1. /\ UNCHANGED <<commands, todo, report, profile>> /\ helper' \in {"read_start", "exited"}
          /\ SendFrame(Frame("READY")) \/ frames' = frames
        BY <1>2, <1>5 DEF SendReady, Exit
    <2>2. QED
        BY <1>1, <1>2, <2>1
<1>6. CASE ReadStart
    <2>1. /\ UNCHANGED <<frames, todo, report, profile>> /\ helper' \in {"prepare", "exited"}
          /\ commands' = commands \/ (commands # <<>> /\ commands' = Tail(commands))
        BY <1>6 DEF ReadStart, Exit
    <2>2. commands' \in Seq(HelperCommands)
        BY <1>2, <2>1
    <2>3. QED
        BY <1>1, <1>2, <2>1, <2>2
<1>7. CASE Prepare \/ Launch
    <2>1. /\ UNCHANGED <<frames, commands, todo, profile>>
          /\ \/ helper' \in {"launch", "report_active"} /\ report' = report
             \/ /\ helper' = "report_failed" /\ work' = work
                /\ \E code \in {125, 126, 127} : report' = ValueFrame("START_FAILED", code)
        BY <1>7 DEF Prepare, Launch, socketVars, workVars
    <2>2. helper \in {"prepare", "launch"} /\ work = "none"
        BY <1>7 DEF Prepare, Launch, HelperInv
    <2>3. helper' = "report_failed" => NeverRan'
        BY <2>1, <2>2 DEF NeverRan
    <2>4. QED
        BY <1>1, <1>2, <1>3, <2>1, <2>3
<1>8. CASE ReportFailed
    <2>1. /\ UNCHANGED <<commands, todo, profile>> /\ helper' \in {"cleanup", "report_cleanup"}
          /\ SendFrame(report) /\ report \in Q
          /\ report' \in {Frame("CLEANUP_OK"), Frame("CLEANUP_FAILED")}
        BY <1>2, <1>8 DEF ReportFailed
    <2>2. QED
        BY <1>1, <1>2, <2>1
<1>9. CASE ReportActive
    <2>1. /\ UNCHANGED <<commands, todo, report, profile>> /\ SendFrame(Frame("ACTIVE"))
          /\ helper' \in {"poll_workload", "stop_workload"}
        BY <1>9 DEF ReportActive
    <2>2. QED
        BY <1>1, <1>2, <2>1
<1>10. QED
    BY <1>5, <1>6, <1>7, <1>8, <1>9

LEMMA LoopSpeaks ==
    ASSUME HelperInv, MessageInv, [SessionNext]_vars,
           PollWorkload \/ PollSupervisor \/ CarryOutChange \/ CarryOutStop \/ CommandsDone
    PROVE  MessageInv'
<1> DEFINE Q == TrueFrames'
<1>1. /\ frames \in Seq(Q) /\ \A f \in Q : SendFrame(f) => frames' \in Seq(Q)
      /\ \A t \in {"PROFILE_OK", "PROFILE_FAILED", "PROFILE_STATE_UNKNOWN",
                   "ERROR INVALID_RUNTIME_COMMAND", "ERROR STOP_FAILED"} : Frame(t) \in Q
    BY FramesLast, SendKeeps, PlainFrames
<1>2. /\ commands \in Seq(HelperCommands) /\ todo \in Seq(HelperCommands)
      /\ report \in HelperFrames /\ profile \in Profiles
    BY DEF MessageInv
<1> HIDE DEF Q
<1>4. SUFFICES /\ frames' \in Seq(Q)
               /\ commands' \in Seq(HelperCommands) /\ todo' \in Seq(HelperCommands)
               /\ report' = report /\ helper' \notin {"send_ready", "report_failed", "report_cleanup"}
               /\ profile' \in Profiles
    BY <1>2 DEF MessageInv, Q
<1>5. CASE PollWorkload
    <2>1. /\ UNCHANGED <<commands, todo, report, profile, ended>>
          /\ helper' \in {"cleanup", "poll_supervisor", "stop_workload"}
        BY <1>5 DEF PollWorkload
    <2> DEFINE f == ValueFrame(IF ended.kind = "exited" THEN "WORKLOAD_EXITED"
                               ELSE "WORKLOAD_SIGNALED", ended.value)
    <2>2. frames' = frames \/ (SendFrame(f) /\ work' = "reaped" /\ work = "zombie")
        BY <1>5 DEF PollWorkload
    <2>3. ASSUME work' = "reaped", work = "zombie" PROVE f \in Q
        <3>1. ended # NoStatus
            BY <2>3 DEF HelperInv, Alive
        <3>2. ended \in ExitedStatuses \cup SignaledStatuses
            BY <3>1 DEF HelperInv
        <3>3. CASE ended \in ExitedStatuses
            <4>1. ended = [kind |-> "exited", value |-> ended.value] /\ ended.value \in ExitCodes
                BY <3>3 DEF ExitedStatuses
            <4>2. f = [type |-> "WORKLOAD_EXITED", value |-> ended.value]
                BY <4>1 DEF ValueFrame
            <4> HIDE DEF f
            <4>3. f \in HelperFrames
                BY <4>1, <4>2 DEF HelperFrames, FramesOf
            <4>5. f.type = "WORKLOAD_EXITED" /\ f.value = ended.value /\ ended' = ended
                BY <2>1, <4>2
            <4>6. work' = "reaped" /\ ended' = [kind |-> "exited", value |-> f.value]
                BY <2>3, <4>1, <4>5
            <4>7. QED
                BY <4>3, <4>5, <4>6 DEF Q, TrueFrames, EndedAs
        <3>4. CASE ended \in SignaledStatuses
            <4>1. ended = [kind |-> "signaled", value |-> ended.value] /\ ended.value \in Signals
                BY <3>4 DEF SignaledStatuses
            <4>2. f = [type |-> "WORKLOAD_SIGNALED", value |-> ended.value]
                BY <4>1 DEF ValueFrame
            <4> HIDE DEF f
            <4>3. f \in HelperFrames
                BY <4>1, <4>2 DEF HelperFrames, FramesOf
            <4>5. f.type = "WORKLOAD_SIGNALED" /\ f.value = ended.value /\ ended' = ended
                BY <2>1, <4>2
            <4>6. work' = "reaped" /\ ended' = [kind |-> "signaled", value |-> f.value]
                BY <2>3, <4>1, <4>5
            <4>7. QED
                BY <4>3, <4>5, <4>6 DEF Q, TrueFrames, EndedAs
        <3>5. QED
            BY <3>2, <3>3, <3>4
    <2> HIDE DEF f
    <2>4. frames' \in Seq(Q)
        BY <1>1, <2>2, <2>3
    <2>5. QED
        BY <1>2, <2>1, <2>4
<1>6. CASE PollSupervisor
    <2>1. /\ UNCHANGED <<report, profile>>
          /\ helper' \in {"commands", "stop_workload", "poll_workload"}
          /\ commands' = commands \/ commands' = <<>>
          /\ todo' = todo \/ todo' = ReceiveCommands(runtime, commands).commands
          /\ frames' = frames \/ SendFrame(Frame("ERROR INVALID_RUNTIME_COMMAND"))
        BY <1>6 DEF PollSupervisor, LoseSupervisor
    <2>2. ReceiveCommands(runtime, commands).commands \in Seq(HelperCommands)
        BY <1>2, AcceptedCommands
    <2>3. <<>> \in Seq(HelperCommands)
        OBVIOUS
    <2>4. QED
        BY <1>1, <1>2, <2>1, <2>2, <2>3
<1>7. CASE CarryOutChange
    <2>1. /\ todo # <<>> /\ Head(todo).change # NoChange
          /\ UNCHANGED <<commands, report>> /\ helper' \in {"commands", "stop_workload"}
          /\ todo' = IF supOpen THEN Tail(todo) ELSE <<>>
        BY <1>7 DEF CarryOutChange
    <2>2. PICK completion :
             /\ profile' = IF completion = "applied"
                             THEN ApplyProfileChange(profile, Head(todo).change) ELSE profile
             /\ SendFrame(CompleteProfileChange(runtime, completion).reply)
        BY <1>7 DEF CarryOutChange
    <2>3. Head(todo).change \in Changes
        <3>1. Head(todo) \in HelperCommands
            BY <1>2, <2>1
        <3>2. \A c \in HelperCommands : c.change # NoChange => c.change \in Changes
            BY DEF HelperCommands, StartBlock, StopCommands, StopCommand, ChangeCommands, ChangeCommand
        <3>3. QED
            BY <2>1, <3>1, <3>2
    <2>4. profile' \in Profiles
        BY <1>2, <2>2, <2>3, ApplyIsProfile
    <2>5. CompleteProfileChange(runtime, completion).reply \in
              {Frame("PROFILE_OK"), Frame("PROFILE_FAILED"), Frame("PROFILE_STATE_UNKNOWN")}
        BY DEF CompleteProfileChange
    <2>6. frames' \in Seq(Q)
        BY <1>1, <2>2, <2>5
    <2>7. todo' \in Seq(HelperCommands)
        BY <1>2, <2>1
    <2>8. QED
        BY <1>2, <2>1, <2>4, <2>6, <2>7
<1>8. CASE CarryOutStop
    <2>1. /\ todo # <<>> /\ UNCHANGED <<commands, report, profile>>
          /\ helper' = helper \/ helper' = "stop_workload"
          /\ helper = "commands"
          /\ todo' = Tail(todo) \/ todo' = <<>>
          /\ frames' = frames \/ SendFrame(Frame("ERROR STOP_FAILED"))
        BY <1>8 DEF CarryOutStop
    <2>6. todo \in Seq(HelperCommands) /\ todo # <<>>
        BY <1>2, <2>1
    <2>5. Tail(todo) \in Seq(HelperCommands) /\ <<>> \in Seq(HelperCommands)
        BY ONLY <2>6, TailFacts
    <2>2. todo' \in Seq(HelperCommands)
        BY <2>1, <2>5
    <2>3. frames' \in Seq(Q)
        BY <1>1, <2>1
    <2>4. QED
        BY <1>2, <2>1, <2>2, <2>3
<1>9. CASE CommandsDone
    BY <1>1, <1>2, <1>9 DEF CommandsDone, socketVars
<1>10. QED
    BY <1>5, <1>6, <1>7, <1>8, <1>9

LEMMA EndSpeaks ==
    ASSUME HelperInv, MessageInv, [SessionNext]_vars,
           \/ StopWorkload \/ StopGrace \/ Cleanup \/ ReportCleanup \/ HelperExits
           \/ WorkloadEnds \/ WorkloadKilled \/ HelperDies
    PROVE  MessageInv'
<1> DEFINE Q == TrueFrames'
           Final == {Frame("CLEANUP_OK"), Frame("CLEANUP_FAILED")}
<1>1. /\ frames \in Seq(Q) /\ \A f \in Q : SendFrame(f) => frames' \in Seq(Q)
      /\ Final \subseteq Q /\ Final \subseteq HelperFrames
    BY FramesLast, SendKeeps, PlainFrames
<1>2. /\ commands \in Seq(HelperCommands) /\ todo \in Seq(HelperCommands)
      /\ report \in HelperFrames /\ profile \in Profiles
      /\ helper = "send_ready" => report = Frame("READY")
      /\ helper = "report_failed" => report \in Q
      /\ helper = "report_cleanup" => report \in Final
    BY TruthGrows DEF MessageInv
<1> HIDE DEF Q, Final
<1>3. SUFFICES /\ frames' \in Seq(Q)
               /\ UNCHANGED <<commands, todo, profile>>
               /\ report' \in HelperFrames
               /\ helper' = "send_ready" => report' = Frame("READY")
               /\ helper' = "report_failed" => report' \in Q
               /\ helper' = "report_cleanup" => report' \in Final
    BY <1>2 DEF MessageInv, Q, Final
<1>4. CASE StopWorkload \/ StopGrace
    <2>1. /\ UNCHANGED <<frames, commands, todo, report, profile>>
          /\ helper' \in {"stop_grace", "cleanup"}
        BY <1>4 DEF StopWorkload, StopGrace, socketVars
    <2>2. QED
        BY <1>1, <1>2, <2>1
<1>5. CASE Cleanup
    <2>1. /\ UNCHANGED <<frames, commands, todo, profile>> /\ helper' = "report_cleanup"
          /\ report' \in Final
        BY <1>5 DEF Cleanup, socketVars, Final
    <2>2. QED
        BY <1>1, <1>2, <2>1
<1>6. CASE ReportCleanup
    <2>1. /\ UNCHANGED <<commands, todo, report, profile>> /\ helper' = "exit" /\ SendFrame(report)
          /\ report \in Final
        BY <1>2, <1>6 DEF ReportCleanup
    <2>2. QED
        BY <1>1, <1>2, <2>1
<1>7. CASE HelperExits \/ HelperDies
    <2>1. UNCHANGED <<frames, commands, todo, report, profile>> /\ helper' \in {"exited", "dead"}
        BY <1>7 DEF HelperExits, HelperDies, Exit
    <2>2. QED
        BY <1>1, <1>2, <2>1
<1>8. CASE WorkloadEnds \/ WorkloadKilled
    <2>1. UNCHANGED <<frames, commands, todo, report, profile, helper>>
        BY <1>8 DEF WorkloadEnds, WorkloadKilled, socketVars, helperVars
    <2>2. QED
        BY <1>1, <1>2, <2>1
<1>9. QED
    BY <1>4, <1>5, <1>6, <1>7, <1>8

LEMMA HelperStepsKeep ==
    ASSUME SessionInv, HelperInv', [SessionNext]_vars,
           \/ HelperProcessStep \/ WorkloadDies \/ TerminateLauncher \/ HelperCrashes
           \/ (WorkloadEnds /\ OthersUnchanged)
    PROVE  SessionInv'
<1>1. HelperInv /\ MessageInv /\ WorldInv /\ AdapterInv
    BY DEF SessionInv
<1>2. MessageInv'
    <2>1. CASE HelperStep
        BY <1>1, <2>1, StartSpeaks, LoopSpeaks, EndSpeaks DEF HelperStep
    <2>2. CASE WorkloadEnds \/ WorkloadKilled \/ HelperDies
        BY <1>1, <2>2, EndSpeaks
    <2>3. CASE UNCHANGED <<socketVars, helperVars, workVars>>
        BY <1>1, <2>3 DEF MessageInv, TrueFrames, NeverRan, EndedAs, socketVars, helperVars, workVars
    <2>4. QED
        BY <2>1, <2>2, <2>3 DEF HelperProcessStep, WorkloadDies, TerminateLauncher, HelperCrashes
<1>3. helper = "exited" => UNCHANGED <<helper, status>>
    <2> SUFFICES ASSUME helper = "exited" PROVE UNCHANGED <<helper, status>>
        OBVIOUS
    <2>1. ~HelperStep /\ ~HelperDies
        BY DEF HelperStep, SendReady, ReadStart, Prepare, Launch, ReportFailed, ReportActive,
               PollWorkload, PollSupervisor, CarryOutChange, CarryOutStop, CommandsDone,
               StopWorkload, StopGrace, Cleanup, ReportCleanup, HelperExits, HelperDies, HelperDone
    <2>2. QED
        BY <2>1 DEF HelperProcessStep, WorkloadDies, TerminateLauncher, HelperCrashes,
                    WorkloadEnds, WorkloadKilled, helperVars
<1>4. UNCHANGED <<lcVars, ad, worldVars>> /\ reap' \in {reap, "terminated"}
    BY DEF HelperProcessStep, WorkloadDies, HelperCrashes, TerminateLauncher, OthersUnchanged,
           SupervisorUnchanged, supVars
<1>5. QED
    BY <1>2, <1>3, <1>4, HelperSide

-----------------------------------------------------------------------------
(* The invariant of the Session *)

LEMMA SessionInit1 == SessionInit => SessionInv
<1> SUFFICES ASSUME SessionInit PROVE SessionInv
    OBVIOUS
<1>1. LcInv
    BY LcInitInv DEF SessionInit
<1>2. HelperInv
    BY HelperInit1
<1>3. failures = <<>> /\ lc = "begin" /\ workload = NoResult
    BY DEF SessionInit, LcInit
<1>4. \A g : ~Has(g)
    BY <1>3, ShortLists DEF Has, Within
<1>5. FailuresInv
    <2>1. OutcomeCanBePublished
        BY <1>3 DEF OutcomeCanBePublished
    <2>2. QED
        BY <1>3, <1>4, <2>1 DEF FailuresInv
<1>6. WorkloadIsTrue /\ HelperSucceeded
    BY <1>3 DEF WorkloadIsTrue, HelperSucceeded
<1>7. WorldInv
    BY DEF SessionInit, WorldInv
<1>8. MessageInv
    <2>1. /\ frames = <<>> /\ commands = <<>> /\ todo = <<>> /\ report = Frame("READY")
          /\ helper = "send_ready" /\ profile = UnrestrictedProfile
        BY DEF SessionInit, HelperInit
    <2>2. report \in HelperFrames /\ profile \in Profiles
        BY <2>1, PlainFrames, ActionTypes
    <2>3. frames \in Seq(TrueFrames)
        BY <2>1
    <2>4. QED
        BY <2>1, <2>2, <2>3 DEF MessageInv
<1>9. AdapterInv
    <2> DEFINE P == TrueEvents
    <2> HIDE DEF P
    <2>1. ad = AdapterInit
        BY DEF SessionInit
    <2>2. ControlPlaneInit \in ControlPlanes
        BY ActionTypes, EmptyQueue DEF ControlPlaneInit, ControlPlanes, Flights
    <2>3. ConversationInit \in Conversations
        BY DEF ConversationInit, Conversations, ConversationStates
    <2>4. /\ ControlPlaneInit.queue = <<>> /\ ~ControlPlaneInit.failed
          /\ ~ControlPlaneInit.stopping
        BY DEF ControlPlaneInit
    <2>5. ControlPlaneInit \in {c \in ControlPlanes : Len(c.queue) <= QueueLimit}
        BY <2>2, <2>4, EmptyQueue
    <2>6. ad \in Adapters(P) /\ ad.pending = <<>> /\ ad.cp = ControlPlaneInit
        <3>1. <<>> \in Seq(P) /\ <<>> \in Seq({ChangeCommand(c) : c \in Changes}) /\ <<>> \in Seq(Texts)
            OBVIOUS
        <3>2. QED
            BY <2>1, <2>3, <2>5, <3>1 DEF AdapterInit, Adapters
    <2>7. UnknownOnce(ad, Has("profile_state")) /\ StopKept(ad, UnderWay) /\ FailsLate(ad)
        BY <1>4, <2>4, <2>6 DEF UnknownOnce, StopKept, FailsLate
    <2>8. QED
        BY <2>6, <2>7 DEF AdapterInv, GoodAndLate, GoodAdapters, P
<1>10. QED
    BY <1>1, <1>2, <1>5, <1>6, <1>7, <1>8, <1>9 DEF SessionInv

LEMMA SessionStep1 == SessionInv /\ [SessionNext]_vars => SessionInv'
<1> SUFFICES ASSUME SessionInv, [SessionNext]_vars PROVE SessionInv'
    OBVIOUS
<1>1. HelperInv'
    BY HelperInvStep DEF SessionInv
<1>2. CASE ReadHelper \/ HelperError \/ ReadSignals \/ Accept
    BY <1>1, <1>2, ReadStepsKeep
<1>3. CASE ReadClient \/ ReadClientEnd \/ CloseController
    BY <1>1, <1>3, ClientStepsKeep
<1>4. CASE \/ Poll \/ SkipClient \/ Connect \/ SendLine \/ PressCtrlC \/ SupervisorDies
           \/ CloseHelperSocket \/ KillLauncher \/ UNCHANGED vars
    BY <1>1, <1>4, QuietStepsKeep
<1>5. CASE HandleEvent \/ Expire
    BY <1>1, <1>5, EventStepsKeep
<1>6. CASE BeginSession \/ Reap \/ FinalizeSession \/ Publish
    BY <1>1, <1>6, StageStepsKeep
<1>7. CASE \/ HelperProcessStep \/ WorkloadDies \/ TerminateLauncher \/ HelperCrashes
           \/ (WorkloadEnds /\ OthersUnchanged)
    BY <1>1, <1>7, HelperStepsKeep
<1>8. QED
    BY <1>2, <1>3, <1>4, <1>5, <1>6, <1>7 DEF SessionNext, SupervisorStep, World

LEMMA SessionInvariant == SessionSpec => []SessionInv
BY SessionInit1, SessionStep1, PTL DEF SessionSpec

(* Every variable of the two processes has its declared type, every pending *)
(* event is one that run_session_lifecycle() knows, and no connection       *)
(* queues more than the limit of controller_control_plane.cpp.              *)
THEOREM SessionTypeCorrect == SessionSpec => []SessionTypeOK
<1>1. SessionInv => SessionTypeOK
    <2> SUFFICES ASSUME SessionInv PROVE SessionTypeOK
        OBVIOUS
    <2>1. /\ LcTypeOK /\ HelperInv /\ profile \in Profiles
          /\ reap \in {"no", "natural", "terminated", "killed", "orphaned"}
        BY DEF SessionInv, LcInv, MessageInv, WorldInv
    <2>2. ad \in Adapters(TrueEvents)
        BY DEF SessionInv, AdapterInv, GoodAndLate, GoodAdapters
    <2>3. TrueEvents \subseteq LifecycleEvents
        BY DEF TrueEvents, AdapterEvents
    <2> DEFINE P == TrueEvents
    <2> HIDE DEF P
    <2>4. /\ ad.conv \in Conversations /\ ad.client \in {"none", "open", "closed"}
          /\ ad.pending \in Seq(P) /\ Len(ad.cp.queue) <= QueueLimit
        BY <2>2 DEF Adapters, P
    <2>5. \A i \in DOMAIN ad.pending : ad.pending[i] \in LifecycleEvents
        <3>1. \A i \in 1 .. Len(ad.pending) : ad.pending[i] \in P
            BY <2>4, ElementOf
        <3>2. DOMAIN ad.pending = 1 .. Len(ad.pending)
            BY <2>4
        <3>3. QED
            BY <2>3, <3>1, <3>2 DEF P
    <2>6. ad.conv.state \in ConversationStates
        BY <2>4 DEF Conversations
    <2>7. QED
        BY <2>1, <2>4, <2>5, <2>6 DEF SessionTypeOK, HelperInv, Profiles, Values
<1>2. QED
    BY <1>1, SessionInvariant, PTL

(* A Session without a failure is one whose helper exited by itself with 0  *)
(* after its Workload was reaped and its environment removed, and exit      *)
(* status 0 is that of the Workload: run_session_lifecycle() and            *)
(* reap_helper_launcher() let nothing else be called clean.                 *)
THEOREM CleanSessionsAreComplete == SessionSpec => []CleanSessionIsComplete
<1>1. SessionInv => CleanSessionIsComplete
    <2> SUFFICES ASSUME SessionInv, lc = "done", failures = <<>>
                 PROVE  /\ helper = "exited" /\ status = 0
                        /\ env \in {"none", "clean"}
                        /\ work \in {"none", "reaped"}
                        /\ ExitStatus = 0 => ended = [kind |-> "exited", value |-> 0]
        BY DEF CleanSessionIsComplete
    <2>1. helper = "exited" /\ status = 0
        BY DEF SessionInv, HelperSucceeded
    <2>2. env \in {"none", "clean"} /\ work \in {"none", "reaped"}
        BY <2>1 DEF SessionInv, HelperInv
    <2>3. ASSUME ExitStatus = 0 PROVE ended = [kind |-> "exited", value |-> 0]
        <3>1. workload # NoResult /\ workload \in WorkloadResults
            BY DEF SessionInv, LcInv, LcTypeOK, CleanMeansResult
        <3>2. ExitStatus = IF workload.kind = "signaled" THEN 128 + workload.value
                           ELSE workload.value
            BY <3>1 DEF ExitStatus
        <3>3. /\ workload.kind = "start_failure" => workload.value \in {126, 127}
              /\ workload.kind = "signaled" => workload.value \in Signals
              /\ workload.kind = "exited" => workload = [kind |-> "exited", value |-> workload.value]
              /\ workload.kind \in {"start_failure", "signaled", "exited"}
            BY <3>1 DEF WorkloadResults, ExitedStatuses, SignaledStatuses
        <3>4. workload.kind = "exited" /\ workload.value = 0
            <4>1. workload.kind # "start_failure"
                BY <2>3, <3>2, <3>3
            <4>2. ASSUME workload.kind = "signaled" PROVE FALSE
                <5>1. workload.value \in 1 .. 127
                    BY <3>3, <4>2, SignalsAssumption
                <5>2. 128 + workload.value = 0
                    BY <2>3, <3>2, <4>2
                <5>3. \A n \in 1 .. 127 : 128 + n # 0
                    OBVIOUS
                <5>4. QED
                    BY ONLY <5>1, <5>2, <5>3
            <4>3. workload.kind = "exited"
                BY <3>3, <4>1, <4>2
            <4>4. QED
                BY <2>3, <3>2, <4>3
        <3>5. workload = ended
            BY <3>1, <3>4 DEF SessionInv, WorkloadIsTrue
        <3>6. QED
            BY <3>3, <3>4, <3>5
    <2>4. QED
        BY <2>1, <2>2, <2>3
<1>2. QED
    BY <1>1, SessionInvariant, PTL

(* No failure is recorded twice, so serialize_session_outcome() accepts     *)
(* every outcome: the unknown profile is noticed by helper, conversation    *)
(* and control plane, and is handed to the lifecycle once.                  *)
THEOREM OutcomesCanBePublished == SessionSpec => []OutcomeCanBePublished
<1>1. SessionInv => OutcomeCanBePublished
    BY DEF SessionInv, FailuresInv
<1>2. QED
    BY <1>1, SessionInvariant, PTL

(* A stop that the control plane has accepted is under way in the           *)
(* lifecycle, or is among the pending events of the adapter: neither a      *)
(* batch that is given up nor an event that is ignored drops it.            *)
THEOREM AcceptedStopsAreKept == SessionSpec => []AcceptedStopIsKept
<1>1. SessionInv => AcceptedStopIsKept
    <2> SUFFICES ASSUME SessionInv, ad.cp.stopping, lc = "active", stopStage = "none"
                 PROVE  \E i \in DOMAIN ad.pending :
                            ad.pending[i].kind \in {"stop_requested", "terminal_interrupt",
                                                    "conversation_lost"}
        BY DEF AcceptedStopIsKept
    <2> DEFINE P == TrueEvents
    <2>1. StopKept(ad, UnderWay) /\ ad \in Adapters(P)
        BY DEF SessionInv, AdapterInv, GoodAndLate, GoodAdapters
    <2> HIDE DEF P
    <2>2. ~UnderWay
        BY DEF UnderWay
    <2>3. HasStop(ad.pending)
        BY <2>1, <2>2 DEF StopKept
    <2>4. DOMAIN ad.pending = 1 .. Len(ad.pending)
        BY <2>1 DEF Adapters
    <2>5. QED
        BY <2>3, <2>4 DEF HasStop, StopKinds
<1>2. QED
    BY <1>1, SessionInvariant, PTL

-----------------------------------------------------------------------------
(* Refinement *)

(* Every event that wait() returns is one that LcSpec allows. *)
LEMMA EventIsAllowed ==
    ASSUME SessionInv, MaxFailures >= 2, NEW e \in LifecycleEvents, NEW sent \in BOOLEAN,
           Handle(e, sent), IsUnknown(e) => ~Has("profile_state"),
           e.kind = "deadline_expired" => DeadlineActive
    PROVE  LcNext
<1>1. lc \in States
    BY DEF Handle
<1>2. failures \in {<<>>, <<"profile_state">>, <<"start">>}
    BY <1>1 DEF SessionInv, FailuresInv, LcInv, QuietBeforeActive, States
<1>3. Len(failures) < MaxFailures
    <2>1. Len(<<>>) = 0 /\ Len(<<"profile_state">>) = 1 /\ Len(<<"start">>) = 1
        OBVIOUS
    <2>2. Len(failures) \in {0, 1}
        BY <1>2, <2>1
    <2>3. \A m, n \in Nat : m >= 2 /\ n \in {0, 1} => n < m
        OBVIOUS
    <2>4. QED
        BY <2>2, <2>3, MaxFailuresAssumption
<1>4. WaitReturns(e)
    BY <1>3 DEF WaitReturns
<1>5. QED
    BY <1>4 DEF LcNext, LcHandle

LEMMA LifecycleStep ==
    ASSUME MaxFailures >= 2, SessionInv, [SessionNext]_vars
    PROVE  [LcNext]_lcVars
<1>1. CASE HandleEvent
    <2> DEFINE p == ad.pending
               e == Head(p)
    <2>1. p # <<>> /\ Handle(e, helperOpen)
        BY <1>1 DEF HandleEvent, Lifecycle
    <2>2. p \in Seq(TrueEvents) /\ UnknownOnce(ad, Has("profile_state"))
        BY DEF SessionInv, AdapterInv, GoodAndLate, GoodAdapters, Adapters
    <2>3. e \in TrueEvents /\ e = p[1] /\ 1 \in 1 .. Len(p)
        <3> DEFINE P == TrueEvents
        <3> HIDE DEF P
        <3>1. p \in Seq(P)
            BY <2>2 DEF P
        <3>2. e \in P /\ e = p[1] /\ 1 \in 1 .. Len(p)
            BY <2>1, <3>1, TailFacts
        <3>3. QED
            BY <3>2 DEF P
    <2> HIDE DEF e
    <2>4. e \in LifecycleEvents /\ e.kind # "deadline_expired"
        BY <2>3 DEF TrueEvents, AdapterEvents, LifecycleEvents, Event
    <2>5. IsUnknown(e) => ~Has("profile_state")
        BY <2>2, <2>3 DEF UnknownOnce
    <2>6. helperOpen \in BOOLEAN
        BY DEF SessionInv, HelperInv, HelperDone
    <2>7. QED
        BY <2>1, <2>4, <2>5, <2>6, EventIsAllowed DEF e
<1>2. CASE Expire
    <2> DEFINE e == Event("deadline_expired")
    <2>1. DeadlineActive /\ Handle(e, helperOpen)
        BY <1>2 DEF Expire, Lifecycle
    <2>2. e \in LifecycleEvents /\ ~IsUnknown(e)
        BY DEF LifecycleEvents, Event, IsUnknown
    <2>3. helperOpen \in BOOLEAN
        BY DEF SessionInv, HelperInv, HelperDone
    <2> HIDE DEF e
    <2>4. QED
        BY <2>1, <2>2, <2>3, EventIsAllowed
<1>3. CASE BeginSession \/ Reap \/ FinalizeSession \/ Publish
    <2>1. CASE BeginSession
        <3>1. PICK ok : ok \in BOOLEAN /\ Begin(ok)
            BY <2>1 DEF BeginSession
        <3>2. QED
            BY <3>1 DEF LcNext
    <2>2. CASE Reap
        <3> DEFINE ok == reap = "natural" /\ helper = "exited" /\ status = 0
        <3>1. ReapLauncher(ok) /\ ok \in BOOLEAN
            BY <2>2 DEF Reap
        <3>2. QED
            BY <3>1 DEF LcNext
    <2>3. CASE FinalizeSession \/ Publish
        BY <2>3 DEF FinalizeSession, Publish, LcNext
    <2>4. QED
        BY <1>3, <2>1, <2>2, <2>3
<1>4. CASE UNCHANGED lcVars
    BY <1>4
<1>5. HandleEvent \/ Expire \/ BeginSession \/ Reap \/ FinalizeSession \/ Publish
      \/ UNCHANGED lcVars
    <2>1. CASE Poll \/ ReadHelper \/ HelperError \/ ReadSignals \/ Accept \/ ReadClient
               \/ ReadClientEnd \/ SkipClient
        BY <2>1 DEF Poll, ReadHelper, HelperError, ReadSignals, Accept, ReadClient,
                    ReadClientEnd, SkipClient
    <2>2. CASE CloseHelperSocket \/ TerminateLauncher \/ KillLauncher
        BY <2>2 DEF CloseHelperSocket, TerminateLauncher, KillLauncher
    <2>3. CASE HelperProcessStep \/ WorkloadDies \/ World
        BY <2>3 DEF HelperProcessStep, WorkloadDies, World, OthersUnchanged, SupervisorUnchanged,
                    Connect, CloseController, SendLine, PressCtrlC, SupervisorDies, HelperCrashes
    <2>4. CASE UNCHANGED vars
        BY <2>4 DEF vars
    <2>5. QED
        BY <2>1, <2>2, <2>3, <2>4 DEF SessionNext, SupervisorStep
<1>6. QED
    BY <1>1, <1>2, <1>3, <1>4, <1>5

(* The lifecycle of the Session is that of SessionLifecycle: the production *)
(* adapter returns no event that the unconstrained one does not.  The bound *)
(* on the failures, which no code has, must leave room for two.             *)
THEOREM SessionRefinesLifecycle == MaxFailures >= 2 /\ SessionSpec => ImplementsLifecycle
<1>1. SessionInit => LcInit
    BY DEF SessionInit
<1>2. MaxFailures >= 2 /\ SessionInv /\ [SessionNext]_vars => [LcNext]_lcVars
    BY LifecycleStep
<1>3. SUFFICES ASSUME MaxFailures >= 2 PROVE SessionSpec => ImplementsLifecycle
    OBVIOUS
<1>4. SessionInv /\ [SessionNext]_vars => [LcNext]_lcVars
    BY <1>2, <1>3
<1>5. QED
    BY <1>1, <1>4, SessionInvariant, PTL DEF SessionSpec, ImplementsLifecycle, LcSpec

(* The contract's view of a state, named. *)
Program == CASE work = "none" -> "not_run" [] Alive -> "running" [] OTHER -> "over"
Host == CASE env = "none" -> "untouched" [] env = "prepared" -> "changed"
          [] env = "clean" -> "restored" [] OTHER -> "left"
Told == [told |-> lc = "done", result |-> IF lc = "done" THEN workload ELSE NoStatus,
         clean |-> lc = "done" /\ failures = <<>>]

ContractStep == [Contract!ContractNext]_<<Program, ended, Host, Told>>

LEMMA ViewFacts ==
    /\ Program = "not_run" <=> work = "none"
    /\ Program = "running" <=> Alive
    /\ Program = "over" <=> work # "none" /\ ~Alive
    /\ env = "none" => Host = "untouched"
    /\ env = "prepared" => Host = "changed"
    /\ env = "clean" => Host = "restored"
    /\ env = "residual" => Host = "left"
BY DEF Program, Host, Alive

(* The actions of the contract, in the view. *)
LEMMA ContractActions ==
    /\ Host = "untouched" /\ Host' \in {"changed", "restored", "left"}
       /\ UNCHANGED <<Program, ended, Told>> => Contract!ContractNext
    /\ Program = "not_run" /\ Host = "changed" /\ Program' = "running"
       /\ UNCHANGED <<ended, Host, Told>> => Contract!ContractNext
    /\ Program = "running" /\ Program' = "over" /\ ended' \in ExitedStatuses \cup SignaledStatuses
       /\ UNCHANGED <<Host, Told>> => Contract!ContractNext
    /\ Host = "changed" /\ Program # "running" /\ Host' \in {"restored", "left"}
       /\ UNCHANGED <<Program, ended, Told>> => Contract!ContractNext
BY DEF Contract!ContractNext, Contract!ChangeHost, Contract!RunProgram, Contract!ProgramEnds,
       Contract!RestoreHost, Program, Host, Told, ExitedStatuses, SignaledStatuses,
       Contract!ExitedStatuses, Contract!SignaledStatuses

(* A step of the helper or of the Workload, about which the user is not     *)
(* told.                                                                    *)
LEMMA HelperRefines ==
    ASSUME HelperInv, HelperStep \/ WorkloadKilled \/ WorkloadEnds \/ HelperDies, Told' = Told
    PROVE  ContractStep
<1> DEFINE Still == UNCHANGED <<Program, ended, Host>>
<1>1. HelperInv
    OBVIOUS
<1>2. CASE Prepare
    <2>1. env = "none" /\ env' \in {"prepared", "clean", "residual"} /\ UNCHANGED workVars
        BY <1>2 DEF Prepare, HelperInv
    <2>2. Host = "untouched" /\ Host' \in {"changed", "restored", "left"} /\ UNCHANGED <<Program, ended>>
        BY <2>1 DEF Program, Host, Alive, workVars
    <2>3. QED
        BY <2>2, ContractActions DEF ContractStep
<1>3. CASE Launch
    <2>1. /\ work = "none" /\ env = "prepared" /\ UNCHANGED <<env, ended>>
          /\ work' = "running" \/ work' = work
        BY <1>3 DEF Launch, HelperInv
    <2>2. CASE work' = "running"
        <3>1. /\ Program = "not_run" /\ Host = "changed" /\ Program' = "running"
              /\ UNCHANGED <<ended, Host>>
            BY <2>1, <2>2 DEF Program, Host, Alive
        <3>2. QED
            BY <3>1, ContractActions DEF ContractStep
    <2>3. CASE work' = work
        <3>1. Still
            BY <2>1, <2>3 DEF Program, Host, Alive
        <3>2. QED
            BY <3>1 DEF ContractStep
    <2>4. QED
        BY <2>1, <2>2, <2>3
<1>4. CASE Cleanup
    <2>1. /\ env = "prepared" /\ env' \in {"clean", "residual"} /\ UNCHANGED workVars
          /\ work \in {"none", "reaped"}
        BY <1>4 DEF Cleanup, HelperInv
    <2>2. /\ Host = "changed" /\ Program # "running" /\ Host' \in {"restored", "left"}
          /\ UNCHANGED <<Program, ended>>
        BY <2>1 DEF Program, Host, Alive, workVars
    <2>3. QED
        BY <2>2, ContractActions DEF ContractStep
<1>5. CASE WorkloadKilled \/ WorkloadEnds
    <2>1. /\ work \in {"running", "terminated", "killed"} /\ work' \in {"zombie", "reaped"}
          /\ ended' \in ExitedStatuses \cup SignaledStatuses /\ UNCHANGED env
        BY <1>5 DEF WorkloadKilled, WorkloadEnds, helperVars
    <2>2. Program = "running" /\ Program' = "over" /\ UNCHANGED Host
        BY <2>1 DEF Program, Host, Alive
    <2>3. QED
        BY <2>1, <2>2, ContractActions DEF ContractStep
<1>6. CASE HelperDies
    <2>1. UNCHANGED <<env, ended>>
        BY <1>6 DEF HelperDies
    <2>2. Still
        BY <1>6, <2>1, Orphaned DEF Program, Host, Alive
    <2>3. QED
        BY <2>2 DEF ContractStep
<1>7. CASE SendReady \/ ReadStart \/ ReportFailed \/ ReportActive \/ PollSupervisor
           \/ CarryOutChange \/ CommandsDone \/ ReportCleanup \/ HelperExits
    <2>1. UNCHANGED <<env, work, ended>>
        BY <1>7 DEF SendReady, ReadStart, ReportFailed, ReportActive, PollSupervisor,
                    CarryOutChange, CommandsDone, ReportCleanup, HelperExits, workVars
    <2>2. Still
        BY <2>1 DEF Program, Host, Alive
    <2>3. QED
        BY <2>2 DEF ContractStep
<1>8. CASE PollWorkload \/ CarryOutStop \/ StopWorkload \/ StopGrace
    <2>1. /\ UNCHANGED <<env, ended>>
          /\ \/ work' = work
             \/ work = "zombie" /\ work' = "reaped"
             \/ Alive /\ work' \in {"killed", "terminated"}
        BY <1>8 DEF PollWorkload, CarryOutStop, StopWorkload, StopGrace, Alive
    <2>2. Still
        BY <2>1 DEF Program, Host, Alive
    <2>3. QED
        BY <2>2 DEF ContractStep
<1>9. QED
    BY <1>2, <1>3, <1>4, <1>5, <1>6, <1>7, <1>8 DEF HelperStep

(* The user is told when the outcome is published, and never again. *)
LEMMA PublishTells ==
    ASSUME SessionInv, Publish
    PROVE  ContractStep
<1>1. /\ lc = "publish_outcome" /\ lc' = "done" /\ UNCHANGED <<workload, failures, helperVars, workVars>>
    BY DEF Publish, PublishOutcome
<1>2. UNCHANGED <<Program, ended, Host>>
    BY <1>1 DEF Program, Host, Alive, helperVars, workVars
<1> DEFINE clean == failures = <<>>
<1>3. Told = Contract!Untold
    BY <1>1 DEF Told, Contract!Untold, NoStatus, Contract!NoStatus
<1>4. Told' = [told |-> TRUE, result |-> workload, clean |-> clean]
    <2>1. /\ (lc' = "done") = TRUE
          /\ (IF lc' = "done" THEN workload' ELSE NoStatus) = workload
          /\ (lc' = "done" /\ failures' = <<>>) = clean
        BY <1>1
    <2>2. QED
        BY <2>1 DEF Told
<1>5. Contract!Truthful(workload)
    <2>1. \/ workload = NoStatus
          \/ workload.kind = "start_failure" /\ Program = "not_run"
          \/ workload = ended /\ Program = "over"
        BY DEF SessionInv, WorkloadIsTrue, NeverRan, NoResult, Program, Alive
    <2>2. QED
        BY <2>1 DEF Contract!Truthful, Program, NoStatus, Contract!NoStatus
<1>6. clean => workload # NoStatus /\ Host \in {"untouched", "restored"}
    <2>1. clean => workload # NoStatus
        BY <1>1 DEF SessionInv, LcInv, CleanMeansResult, FinalCalls, NoResult
    <2>2. clean => env \in {"none", "clean"}
        BY <1>1 DEF SessionInv, HelperSucceeded, HelperInv
    <2>3. QED
        BY <2>1, <2>2 DEF Host
<1>7. workload \in Contract!Results
    BY DEF SessionInv, LcInv, LcTypeOK, WorkloadResults, NoResult, Contract!Results,
           NoStatus, Contract!NoStatus, ExitedStatuses, Contract!ExitedStatuses,
           SignaledStatuses, Contract!SignaledStatuses
<1>8. clean \in BOOLEAN
    OBVIOUS
<1> HIDE DEF clean
<1>9. Contract!Tell(workload, clean)
    BY <1>2, <1>3, <1>4, <1>5, <1>6
       DEF Contract!Tell, Program, Host, Told, NoStatus, Contract!NoStatus
<1>10. Contract!ContractNext
    BY <1>7, <1>8, <1>9 DEF Contract!ContractNext
<1>11. QED
    BY <1>10 DEF ContractStep

(* Every step of the Session is one of the contract, or none. *)
LEMMA ContractHolds ==
    ASSUME SessionInv, [SessionNext]_vars
    PROVE  ContractStep
<1>1. CASE \/ HelperProcessStep \/ WorkloadDies \/ HelperCrashes \/ TerminateLauncher
           \/ (WorkloadEnds /\ OthersUnchanged)
    <2>1. UNCHANGED lcVars
        BY <1>1 DEF HelperProcessStep, WorkloadDies, HelperCrashes, TerminateLauncher,
                    OthersUnchanged, SupervisorUnchanged
    <2>2. Told' = Told
        BY <2>1 DEF Told, lcVars
    <2>3. CASE HelperStep \/ WorkloadKilled \/ WorkloadEnds \/ HelperDies
        BY <2>2, <2>3, HelperRefines DEF SessionInv
    <2>4. CASE UNCHANGED <<helperVars, workVars>>
        BY <2>2, <2>4 DEF ContractStep, Program, Host, Alive, helperVars, workVars
    <2>5. QED
        BY <1>1, <2>3, <2>4 DEF HelperProcessStep, WorkloadDies, HelperCrashes, TerminateLauncher
<1>2. CASE Publish
    BY <1>2, PublishTells
<1>3. ASSUME UNCHANGED <<helperVars, workVars>>, (lc # "done" /\ lc' # "done") \/ UNCHANGED lcVars
      PROVE  ContractStep
    <2>1. UNCHANGED <<Program, ended, Host>>
        BY <1>3 DEF Program, Host, Alive, helperVars, workVars
    <2>2. Told' = Told
        BY <1>3 DEF Told, lcVars
    <2>3. QED
        BY <2>1, <2>2 DEF ContractStep
<1>4. CASE HandleEvent \/ Expire
    <2>1. PICK e, sent : Handle(e, sent)
        BY <1>4 DEF HandleEvent, Expire, Lifecycle
    <2>2. lc # "done" /\ lc' # "done"
        BY <2>1 DEF Handle, Ignore, LeaveLoop, Activate, FailActivation, UnknownProfile,
                    FirstInterrupt, RepeatedInterrupt, StopRequested, DeadlineExpired,
                    WorkloadFinished, RequestStop, States, lcVars
    <2>3. UNCHANGED <<helperVars, workVars>>
        BY <1>4 DEF HandleEvent, Expire, Lifecycle
    <2>4. QED
        BY <1>3, <2>2, <2>3
<1>5. CASE BeginSession \/ Reap \/ FinalizeSession
    <2>1. UNCHANGED <<helperVars, workVars>>
        BY <1>5 DEF BeginSession, Reap, FinalizeSession
    <2>2. \E ok \in BOOLEAN : Begin(ok) \/ ReapLauncher(ok) \/ Finalize(ok)
        <3>1. CASE BeginSession
            <4>1. PICK ok : ok \in BOOLEAN /\ Begin(ok)
                BY <3>1 DEF BeginSession
            <4>2. QED
                BY <4>1
        <3>2. CASE Reap
            <4> DEFINE ok == reap = "natural" /\ helper = "exited" /\ status = 0
            <4>1. ReapLauncher(ok) /\ ok \in BOOLEAN
                BY <3>2 DEF Reap
            <4>2. QED
                BY <4>1
        <3>3. CASE FinalizeSession
            BY <3>3 DEF FinalizeSession
        <3>4. QED
            BY <1>5, <3>1, <3>2, <3>3
    <2>3. lc # "done" /\ lc' # "done"
        BY <2>2 DEF Begin, ReapLauncher, Finalize
    <2>4. QED
        BY <1>3, <2>1, <2>3
<1>6. CASE \/ Poll \/ ReadHelper \/ HelperError \/ ReadSignals \/ Accept \/ ReadClient
           \/ ReadClientEnd \/ SkipClient \/ CloseHelperSocket \/ KillLauncher
    BY <1>3, <1>6 DEF Poll, ReadHelper, HelperError, ReadSignals, Accept, ReadClient,
                      ReadClientEnd, SkipClient, CloseHelperSocket, KillLauncher
<1>7. CASE Connect \/ CloseController \/ SendLine \/ PressCtrlC \/ SupervisorDies
    BY <1>3, <1>7 DEF Connect, CloseController, SendLine, PressCtrlC, SupervisorDies,
                      SupervisorUnchanged, HelperUnchanged
<1>8. CASE UNCHANGED vars
    BY <1>3, <1>8 DEF vars
<1>9. QED
    BY <1>1, <1>2, <1>4, <1>5, <1>6, <1>7, <1>8 DEF SessionNext, SupervisorStep, World

(* Whatever crashes, is lost or is stopped, a Session does nothing that the *)
(* contract of `netlaglab run` does not allow: run_session_lifecycle(), the *)
(* adapter and the helper together implement SessionContract.               *)
THEOREM SessionKeepsContract == SessionSpec => ImplementsContract
<1>1. SessionInit => Contract!ContractInit
    <2> SUFFICES ASSUME SessionInit PROVE Contract!ContractInit
        OBVIOUS
    <2>1. work = "none" /\ ended = NoStatus /\ env = "none" /\ lc # "done"
        BY DEF SessionInit, HelperInit, LcInit
    <2>2. Told = Contract!Untold
        BY <2>1 DEF Told, Contract!Untold, NoStatus, Contract!NoStatus
    <2>3. Program = "not_run" /\ ended = Contract!NoStatus /\ Host = "untouched"
        <3>1. Program = "not_run" /\ Host = "untouched"
            BY <2>1, ViewFacts
        <3>2. ended = Contract!NoStatus
            BY <2>1 DEF NoStatus, Contract!NoStatus
        <3>3. QED
            BY <3>1, <3>2
    <2>4. QED
        BY <2>2, <2>3 DEF Contract!ContractInit, Program, Host, Told
<1>2. SessionInv /\ [SessionNext]_vars => [Contract!ContractNext]_Contract!contractVars
    BY ContractHolds DEF ContractStep, Contract!contractVars, Program, Host, Told
<1>3. QED
    BY <1>1, <1>2, SessionInvariant, PTL
       DEF SessionSpec, ImplementsContract, Contract!ContractSpec
=============================================================================
