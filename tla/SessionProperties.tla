------------------------- MODULE SessionProperties --------------------------
(***************************************************************************)
(* What a Session promises, stated over the composition in Session.        *)
(***************************************************************************)
EXTENDS Session

-----------------------------------------------------------------------------
(* Types *)

HelperStates ==
    {"send_ready", "read_start", "prepare", "launch", "report_failed", "report_active",
     "poll_workload", "poll_supervisor", "commands", "stop_workload", "stop_grace",
     "cleanup", "report_cleanup", "exit", "exited", "dead"}
ConversationStates ==
    {"waiting_for_ready", "waiting_for_activation", "active", "profile_state_unknown",
     "waiting_for_cleanup", "finished", "failed"}

(* Every variable of the two processes has its declared type, no event is   *)
(* handed to the lifecycle that it does not know, and the queue of a        *)
(* connection never exceeds its limit.                                      *)
SessionTypeOK ==
    /\ LcTypeOK
    /\ helper \in HelperStates
    /\ env \in {"none", "prepared", "clean", "residual"}
    /\ work \in {"none", "running", "terminated", "killed", "zombie", "reaped"}
    /\ ended \in {NoStatus} \cup ExitedStatuses \cup SignaledStatuses
    /\ profile \in [Settings -> {Unrestricted} \cup {c.value : c \in Changes}]
    /\ ad.conv.state \in ConversationStates
    /\ ad.client \in {"none", "open", "closed"}
    /\ \A i \in DOMAIN ad.pending : ad.pending[i] \in LifecycleEvents
    /\ Len(ad.cp.queue) <= QueueLimit
    /\ reap \in {"no", "natural", "terminated", "killed", "orphaned"}

-----------------------------------------------------------------------------
(* Outcome *)

(* A Session without a failure (exit status: that of the Workload) is one   *)
(* whose helper exited by itself with 0, after its Workload was reaped and  *)
(* everything it had set up was removed, and exit status 0 is that of the   *)
(* Workload; however events, crashes, signals and stop requests interleave. *)
CleanSessionIsComplete ==
    lc = "done" /\ failures = <<>> =>
        /\ helper = "exited" /\ status = 0
        /\ env \in {"none", "clean"}
        /\ work \in {"none", "reaped"}
        /\ ExitStatus = 0 => ended = [kind |-> "exited", value |-> 0]

(* The helper exits by itself only when its Workload is gone and its        *)
(* Network Environment is not left in place, and it takes the environment   *)
(* down only when the Workload has been reaped.                             *)
WorkloadBeforeEnvironment ==
    /\ helper = "exited" => work \in {"none", "reaped"} /\ env # "prepared"
    /\ env \in {"clean", "residual"} => work \in {"none", "reaped"}

(* The outcome can always be published: the serializer refuses one that     *)
(* names a failure twice, and the Controller would be left without an       *)
(* answer.  Every failure is recorded once, although an unknown profile is  *)
(* noticed by the helper, the conversation and the control plane.           *)
OutcomeCanBePublished ==
    \A i, j \in DOMAIN failures : failures[i] = failures[j] => i = j

-----------------------------------------------------------------------------
(* Conversation with the helper *)

(* The Supervisor never sends the helper a command that it must refuse: no  *)
(* change after a stop, and none while another is pending, although stops   *)
(* come from three places (a Controller, Ctrl-C, an unknown profile).       *)
HelperNeverRefuses == runtime.valid

ChangesIn(cmds) == Cardinality({i \in DOMAIN cmds : cmds[i].change # NoChange})
Replies == {"PROFILE_OK", "PROFILE_FAILED", "PROFILE_STATE_UNKNOWN"}
RepliesIn(fs) == Cardinality({i \in DOMAIN fs : fs[i].type \in Replies})

(* A Profile Change is in one place at a time: written, accepted by the     *)
(* helper, or answered; and while the conversation is active the Supervisor *)
(* knows of it.                                                             *)
ChangeIsInOnePlace ==
    LET places == ChangesIn(commands) + ChangesIn(todo) + RepliesIn(frames)
    IN  /\ places <= 1
        /\ places = 1 /\ ad.conv.state = "active" => ad.conv.pending # NoChange
        /\ ad.conv.state = "active" /\ ad.conv.pending # NoChange =>
              ad.cp.inflight.change = ad.conv.pending

(* The profile the Supervisor shows is the one in force: equal when nothing *)
(* is in flight, and one change away at most when something is.             *)
ProfileAgreement ==
    ad.hasCp /\ ~ad.cp.failed =>
        IF InFlight(ad.cp)
          THEN profile \in {ad.cp.confirmed,
                            ApplyProfileChange(ad.cp.confirmed, ad.cp.inflight.change)}
          ELSE profile = ad.cp.confirmed

-----------------------------------------------------------------------------
(* Controllers *)

(* Every text a Controller gets answers the oldest of its lines that is to  *)
(* be answered next: no answer is out of order, none is for the command of  *)
(* an earlier connection, none is sent after the Workload has ended.        *)
RepliesInOrder == ~misreplied

(* No command is forgotten: what the attached Controller is still owed is   *)
(* the change in flight, if it is its own, and the queue, in that order;    *)
(* and the control plane agrees with the adapter on who is attached.        *)
NoCommandIsLost ==
    ad.hasCp /\ lc # "done" =>
      /\ ad.cp.attached <=> ad.client # "none"
      /\ ad.cp.attached /\ ~ad.cp.terminal /\ ~ad.cp.failed =>
           owed = (IF InFlight(ad.cp) /\ ad.cp.inflight.reply = ad.cp.gen
                     THEN <<SetCommand(ad.cp.inflight.change)>> ELSE <<>>)
                  \o [i \in DOMAIN ad.cp.queue |-> ad.cp.queue[i].cmd]

(* A stop that has been acknowledged, to a Controller or by showing the     *)
(* Session as stopping, is never dropped: the lifecycle has it or will get  *)
(* it with a pending event.                                                 *)
AcceptedStopIsKept ==
    ad.cp.stopping /\ lc = "active" =>
        \/ stopStage # "none"
        \/ \E i \in DOMAIN ad.pending :
              ad.pending[i].kind \in {"stop_requested", "terminal_interrupt",
                                      "conversation_lost"}

-----------------------------------------------------------------------------
(* Refinement: the lifecycle in the Session is the lifecycle of             *)
(* SessionLifecycle.  The adapter returns only events it allows, and an     *)
(* expired deadline only in a grace period; what is proved of LcSpec holds  *)
(* of the Session.                                                          *)
ImplementsLifecycle == LcSpec

(* What the processes and their messages amount to is the contract: the     *)
(* program is the Workload process, the host the Network Environment, and   *)
(* the user is told when the outcome is published.                          *)
Contract == INSTANCE SessionContract WITH
    program <- CASE work = "none" -> "not_run"
                 [] Alive -> "running"
                 [] OTHER -> "over",
    result <- ended,
    host <- CASE env = "none" -> "untouched"
              [] env = "prepared" -> "changed"
              [] env = "clean" -> "restored"
              [] OTHER -> "left",
    told <- [told |-> lc = "done",
             result |-> IF lc = "done" THEN workload ELSE NoStatus,
             clean |-> lc = "done" /\ failures = <<>>]

(* Whatever crashes, is lost or is stopped, the Session does nothing that   *)
(* the contract does not allow.                                             *)
ImplementsContract == Contract!ContractSpec

-----------------------------------------------------------------------------
(* Liveness *)

(* A stop, once begun, ends the Session, even if the Workload ignores       *)
(* SIGTERM, the helper dies, or the conversation is lost.                   *)
StopEndsSession ==
    alive /\ lc = "active" /\ stopStage # "none" ~> lc = "done" \/ ~alive

(* A Workload that has ended ends the Session, whatever commands and        *)
(* answers are on their way then, and whoever comes and goes; unless the    *)
(* Supervisor stays in the read of a Controller that never sends anything,  *)
(* which it took in the cycle in which it lost another (session.cpp:347).   *)
EndOfWorkloadEndsSession ==
    <>[]BlockedOnController \/ (ended # NoStatus ~> lc = "done" \/ ~alive)

(* When the Supervisor is lost the helper ends, and has stopped and reaped  *)
(* the Workload by then, unless it is killed as well: no orphaned root      *)
(* process, and no Workload without a helper that was not killed.           *)
LossOfSupervisorEndsHelper ==
    ~alive ~> HelperDone /\ (helper = "exited" => work \in {"none", "reaped"})

-----------------------------------------------------------------------------
(* Statements of the documentation that the code does not keep *)

(* With no fault anywhere, and a helper that is still there, the helper     *)
(* conversation is never lost, however its frames are divided among reads.  *)
(* (The adapter drains the queue after PROFILE_OK although the conversation *)
(* has already consumed a WORKLOAD_EXITED of the same read.)                *)
HealthyConversationIsKept ==
    helperOpen => \A i \in DOMAIN failures : failures[i] # "conversation"

(* A Workload whose helper dies unexpectedly is sent SIGKILL by that, or    *)
(* has ended before.  (Its request for a signal at the death of its parent  *)
(* is lost when it changes its user, before it runs the program.)           *)
WorkloadDiesWithHelper == helper = "dead" => work \notin {"running", "terminated"}
=============================================================================
