-------------------------- MODULE LifecycleAdapter --------------------------
(***************************************************************************)
(* What ProductionLifecycleAdapter of src/session.cpp does with the events *)
(* of one poll() cycle, and execute_control_plane_actions() of             *)
(* src/control_plane_action_executor.cpp, as operators on the record       *)
(*                                                                         *)
(*   cp, hasCp   the control plane, and whether it exists yet              *)
(*   conv        the helper conversation                                   *)
(*   client      the Controller's descriptor: none, open, or closed by     *)
(*               the peer                                                  *)
(*   pending     pending_events_, for the lifecycle                        *)
(*   activated, finished, listening                                        *)
(*               activated_, workload_finished_, listening_socket_         *)
(*                                                                         *)
(* and, for the duration of one step only,                                 *)
(*                                                                         *)
(*   outbox      what the step writes to the helper                        *)
(*   texts       what the step sends to the Controller                     *)
(*   halted      whether the batch was given up                            *)
(*   helperOpen  whether the helper still holds its end                    *)
(*   socketFails whether control.sock cannot be created                    *)
(***************************************************************************)
EXTENDS ControlPlane

AdapterInit ==
    [cp |-> ControlPlaneInit, hasCp |-> FALSE, conv |-> ConversationInit,
     client |-> "none", pending |-> <<>>,
     activated |-> FALSE, finished |-> FALSE, listening |-> FALSE,
     outbox |-> <<>>, texts |-> <<>>, halted |-> FALSE,
     helperOpen |-> TRUE, socketFails |-> FALSE]

\* Fault: an event loses the value it carries.
PushWithoutValue(x, kind, value) ==
    [x EXCEPT !.pending = Append(@, [kind |-> kind, value |-> 0])]

\* Fault: there is room for one pending event, and a second one is dropped.
PushIntoOneSlot(x, kind, value) ==
    IF x.pending = <<>> THEN [x EXCEPT !.pending = <<[kind |-> kind, value |-> value]>>] ELSE x

Push(x, kind, value) ==
    [x EXCEPT !.pending = Append(@, [kind |-> kind, value |-> value])]

-----------------------------------------------------------------------------
(* execute_control_plane_actions(): strictly in order, up to the first      *)
(* failure.  A text that cannot be sent drops the Controller; a change that *)
(* cannot be sent loses the conversation.                                   *)

WriteFailed(x) ==
    [x EXCEPT !.client = "none", !.cp = HandleWriteFailed(@).cp, !.halted = TRUE]

CanDispatch(x) == CanBeginProfileChange(x.conv) /\ x.helperOpen

Execute(x, a) ==
    CASE x.halted -> x
      [] ~x.halted /\ a.type = "stop" -> Push(x, "stop_requested", 0)
      [] ~x.halted /\ a.type = "fail_session" -> Push(x, "profile_state_unknown", 0)
      [] ~x.halted /\ a.type = "disconnect" -> [x EXCEPT !.client = "none"]
      [] ~x.halted /\ a.type = "send" ->
            IF x.client = "open" THEN [x EXCEPT !.texts = Append(@, a.text)]
                                 ELSE WriteFailed(x)
      [] ~x.halted /\ a.type = "dispatch" ->
            LET begun == IF CanBeginProfileChange(x.conv)
                           THEN [x EXCEPT !.conv = BeginProfileChange(@, a.change)] ELSE x
            IN  IF CanDispatch(x)
                  THEN [begun EXCEPT !.outbox = Append(@, ChangeCommand(a.change))]
                  ELSE [Push(begun, "conversation_lost", 0) EXCEPT !.halted = TRUE]

(* handle() and the execution of its batch. *)
ExecuteActions(x, handled) ==
    FoldLeft(Execute, [x EXCEPT !.cp = handled.cp, !.halted = FALSE], handled.acts)

-----------------------------------------------------------------------------
(* read_helper_events(): the conversation has already consumed the whole    *)
(* read when its first event is acted upon.                                 *)

HelperEventStep(x, e) ==
    CASE e.kind = "ready" -> Push(x, "conversation_lost", 0)
      [] e.kind = "activated" ->
            LET made == [x EXCEPT !.cp = ControlPlaneInit, !.hasCp = TRUE]
            IN  IF x.socketFails THEN Push(made, "conversation_lost", 0)
                ELSE Push([made EXCEPT !.listening = TRUE, !.activated = TRUE], "activated", 0)
      [] e.kind \in {"applied", "restored"} ->
            ExecuteActions(x, HandleResult(x.cp, e.kind, e.change))
      [] e.kind = "profile_state_unknown" ->
            ExecuteActions(x, HandleStateUnknown(x.cp))
      [] e.kind \in {"workload_exited", "workload_signaled"} ->
            Push([ExecuteActions(x, HandleTerminal(x.cp))
                    EXCEPT !.finished = TRUE, !.activated = FALSE], e.kind, e.value)
      [] OTHER -> Push(x, e.kind, e.value)

\* Fault: the lifecycle hears of an unknown profile from the adapter as well.
ReadHelperEventsTwice(x, frames) ==
    LET received == IF frames # <<>> THEN ReceiveFrames(x.conv, frames)
                                     ELSE PeerClosed(x.conv)
    IN  FoldLeft(LAMBDA r, e :
                    IF e.kind = "profile_state_unknown"
                      THEN Push(HelperEventStep(r, e), e.kind, 0) ELSE HelperEventStep(r, e),
                 [x EXCEPT !.conv = received.conv], received.events)

(* frames is the data read; an empty read is the end of the stream. *)
ReadHelperEvents(x, frames) ==
    LET received == IF frames # <<>> THEN ReceiveFrames(x.conv, frames)
                                     ELSE PeerClosed(x.conv)
    IN  FoldLeft(HelperEventStep, [x EXCEPT !.conv = received.conv], received.events)

(* take_interrupt_count(): every marker is a Session stop and an interrupt  *)
(* event, unless the Workload is already over.                              *)
TakeInterrupts(x, count) ==
    IF x.finished THEN x
    ELSE FoldLeft(LAMBDA r, i :
                    Push(IF r.hasCp THEN ExecuteActions(r, HandleStopping(r.cp)) ELSE r,
                         "terminal_interrupt", 0),
                  x, [i \in 1..count |-> i])

(* accept_controller(): a second Controller is told so and closed. *)
AcceptController(x, peer) ==
    IF x.client # "none" THEN x
    ELSE ExecuteActions([x EXCEPT !.client = peer], HandleAttached(x.cp))

ControllerBytes(x, lines) == ExecuteActions(x, HandleBytes(x.cp, lines))

ControllerGone(x) ==
    Push([x EXCEPT !.cp = HandleDisconnected(@).cp, !.client = "none"], "controller_lost", 0)
=============================================================================
