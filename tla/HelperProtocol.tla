--------------------------- MODULE HelperProtocol ---------------------------
(***************************************************************************)
(* The two ends of the Supervisor/helper conversation after the START      *)
(* block, src/helper_protocol.cpp: SupervisorHelperConversation on the     *)
(* Supervisor's side and HelperRuntimeConversation on the helper's.  Both  *)
(* are fed the frames of one read() together, so they are folds over a     *)
(* sequence of frames.  A frame is the record of one line of text; the     *)
(* text itself, and the splitting of bytes into lines, are abstracted.     *)
(***************************************************************************)
EXTENDS Naturals, Sequences, SequencesExt

CONSTANTS
    Changes,   \* the Profile Changes a Controller can ask for
    NoChange   \* std::nullopt in place of a ProfileChange

ASSUME NoChangeAssumption == NoChange \notin Changes

-----------------------------------------------------------------------------
(* Frames *)

Frame(t) == [type |-> t, value |-> 0]
ValueFrame(t, v) == [type |-> t, value |-> v]

StartBlock == [type |-> "START", change |-> NoChange]
StopCommand(signal) == [type |-> signal, change |-> NoChange]
ChangeCommand(c) == [type |-> "PROFILE_CHANGE", change |-> c]

HelperEvent(k, v, c) == [kind |-> k, value |-> v, change |-> c]

-----------------------------------------------------------------------------
(* SupervisorHelperConversation *)

ConversationInit == [state |-> "waiting_for_ready", pending |-> NoChange]

(* begin_profile_change(): a change may be sent only in the active state    *)
(* and only when none is pending.                                           *)
CanBeginProfileChange(c) == c.state = "active" /\ c.pending = NoChange

BeginProfileChange(c, change) == [c EXCEPT !.pending = change]

(* One line of receive_bytes().  Every accepted line ends any pending       *)
(* change; a line that starts with "ERROR " and a line that is not legal in *)
(* the state both fail the conversation.                                    *)
ReceiveFrame(c, f) ==
    LET Answered(t) == c.state = "active" /\ c.pending # NoChange /\ f.type = t
        To(state, kind) == [conv  |-> [state |-> state, pending |-> NoChange],
                            event |-> HelperEvent(kind, f.value, c.pending)]
    IN  CASE Answered("PROFILE_OK") -> To("active", "applied")
          [] Answered("PROFILE_FAILED") -> To("active", "restored")
          [] Answered("PROFILE_STATE_UNKNOWN") ->
                 To("profile_state_unknown", "profile_state_unknown")
          [] c.state = "waiting_for_ready" /\ f.type = "READY" ->
                 To("waiting_for_activation", "ready")
          [] c.state = "waiting_for_activation" /\ f.type = "ACTIVE" ->
                 To("active", "activated")
          [] c.state = "waiting_for_activation" /\ f.type = "START_FAILED" ->
                 To("waiting_for_cleanup", "activation_failed")
          [] c.state \in {"active", "profile_state_unknown"}
             /\ f.type = "WORKLOAD_EXITED" ->
                 To("waiting_for_cleanup", "workload_exited")
          [] c.state \in {"active", "profile_state_unknown"}
             /\ f.type = "WORKLOAD_SIGNALED" ->
                 To("waiting_for_cleanup", "workload_signaled")
          [] c.state = "waiting_for_cleanup" /\ f.type = "CLEANUP_OK" ->
                 To("finished", "cleanup_succeeded")
          [] c.state = "waiting_for_cleanup" /\ f.type = "CLEANUP_FAILED" ->
                 To("finished", "cleanup_failed")
          [] OTHER -> [conv  |-> [state |-> "failed", pending |-> NoChange],
                       event |-> HelperEvent("conversation_lost", 0, NoChange)]

(* receive_bytes() on the frames of one read: the whole read is parsed      *)
(* before the caller sees the first event, and nothing after a failure.     *)
ReceiveFrames(conv, frames) ==
    FoldLeft(LAMBDA r, f :
                IF r.conv.state = "failed" THEN r
                ELSE LET s == ReceiveFrame(r.conv, f)
                     IN  [conv |-> s.conv, events |-> Append(r.events, s.event)],
             [conv |-> conv, events |-> <<>>], frames)

\* Fault: always silent.
PeerClosedSilently(conv) == [conv |-> conv, events |-> <<>>]

(* peer_closed(): end of stream is silent only after the final frame. *)
PeerClosed(conv) ==
    IF conv.state \in {"failed", "finished"}
      THEN [conv |-> conv, events |-> <<>>]
      ELSE [conv |-> [state |-> "failed", pending |-> NoChange],
            events |-> <<HelperEvent("conversation_lost", 0, NoChange)>>]

-----------------------------------------------------------------------------
(* HelperRuntimeConversation *)

RuntimeInit ==
    [valid |-> TRUE, pending |-> NoChange, stopping |-> FALSE,
     unknown |-> FALSE, finished |-> FALSE]

(* One line of receive_bytes(): a change after an unknown state is skipped, *)
(* a change while one is pending or after a stop is an invalid command.     *)
ReceiveCommand(h, cmd) ==
    LET isChange == cmd.change # NoChange
        refused  == \/ h.finished
                    \/ isChange /\ h.pending # NoChange
                    \/ isChange /\ h.stopping
    IN  IF isChange /\ h.unknown THEN [h |-> h, commands |-> <<>>]
        ELSE IF refused THEN [h |-> [h EXCEPT !.valid = FALSE], commands |-> <<>>]
        ELSE [h |-> IF isChange THEN [h EXCEPT !.pending = cmd.change]
                                ELSE [h EXCEPT !.stopping = TRUE],
              commands |-> <<cmd>>]

(* receive_bytes() on the commands of one read. *)
ReceiveCommands(h, cmds) ==
    FoldLeft(LAMBDA r, cmd :
                IF ~r.h.valid THEN r
                ELSE LET s == ReceiveCommand(r.h, cmd)
                     IN  [h |-> s.h, commands |-> r.commands \o s.commands],
             [h |-> h, commands |-> <<>>], cmds)

(* complete_profile_change(): the reply for a completion, and the state     *)
(* after it.  The caller has a pending change.                              *)
CompleteProfileChange(h, completion) ==
    [h |-> [h EXCEPT !.pending = NoChange, !.unknown = @ \/ completion = "unknown"],
     reply |-> CASE completion = "applied" -> Frame("PROFILE_OK")
                 [] completion = "restored" -> Frame("PROFILE_FAILED")
                 [] OTHER -> Frame("PROFILE_STATE_UNKNOWN")]
=============================================================================
