---------------------------- MODULE ControlPlane ----------------------------
(***************************************************************************)
(* ControllerControlPlane of src/controller_control_plane.cpp: one event   *)
(* in, one ordered batch of actions out.  The state is a record, handle()  *)
(* a pure operator, so that the module that executes the batch (see        *)
(* LifecycleAdapter) composes with it exactly as the C++ does.             *)
(*                                                                         *)
(* A Controller command is the record parse_controller_command() yields; a *)
(* Network Profile is a function from settings to values and a Profile     *)
(* Change a record [setting, value], `reset` being a change to Unrestricted*)
(* of that setting.                                                        *)
(***************************************************************************)
EXTENDS HelperProtocol

CONSTANTS
    Settings,     \* the (direction, setting) pairs of a Network Profile
    Unrestricted, \* the unrestricted value of every setting
    QueueLimit    \* commands a connection may queue (32 in the code)

ASSUME QueueLimitAssumption == QueueLimit \in Nat
ASSUME ChangesAssumption == \A c \in Changes : c.setting \in Settings

UnrestrictedProfile == [s \in Settings |-> Unrestricted]

(* apply_profile_change(): the one named setting changes, nothing else. *)
ApplyProfileChange(p, c) == [p EXCEPT ![c.setting] = c.value]

-----------------------------------------------------------------------------
(* Controller commands and control-plane actions *)

PlainCommand(t) == [type |-> t, change |-> NoChange]
SetCommand(c) == [type |-> "change", change |-> c]

ControllerCommands ==
    {SetCommand(c) : c \in Changes}
    \cup {PlainCommand(t) : t \in {"help", "status", "stop", "detach"}}

(* What a line of the byte stream may be: a command, or none. *)
ControllerLines ==
    ControllerCommands \cup {PlainCommand(t) : t \in {"invalid", "oversized", "empty"}}

(* The answer a text gives: its kind, the change it is about, the profile   *)
(* a status shows.                                                          *)
Text(t) == [text |-> t, change |-> NoChange, profile |-> UnrestrictedProfile]
ReplyText(t, c) == [Text(t) EXCEPT !.change = c]
StatusText(p) == [Text("STATUS") EXCEPT !.profile = p]

Send(t) == [type |-> "send", text |-> t, change |-> NoChange]
Action(t) == [type |-> t, text |-> Text("none"), change |-> NoChange]
Dispatch(c) == [type |-> "dispatch", text |-> Text("none"), change |-> c]

(* append_before_dispatch(): a dispatch is always the last action. *)
AppendBeforeDispatch(acts, a) ==
    IF acts # <<>> /\ Last(acts).type = "dispatch"
      THEN Front(acts) \o <<a, Last(acts)>>
      ELSE Append(acts, a)

-----------------------------------------------------------------------------
(* State *)

NoFlight == [change |-> NoChange, reply |-> 0, unexecuted |-> FALSE]
InFlight(cp) == cp.inflight # NoFlight

(* The object ActivatedEvent creates.  Connection generations start at 1,   *)
(* so reply = 0 is an empty reply_generation.                               *)
ControlPlaneInit ==
    [queue |-> <<>>, inflight |-> NoFlight, confirmed |-> UnrestrictedProfile,
     gen |-> 0, attached |-> FALSE, stopping |-> FALSE, terminal |-> FALSE,
     failed |-> FALSE]

CancelReply(cp) ==
    IF InFlight(cp) THEN [cp EXCEPT !.inflight.reply = 0] ELSE cp

\* Fault: the change in flight is forgotten.
DisconnectAndForget(cp) ==
    [cp EXCEPT !.attached = FALSE, !.queue = <<>>, !.inflight = NoFlight]

(* disconnect_controller() *)
DisconnectController(cp) ==
    CancelReply([cp EXCEPT !.attached = FALSE, !.queue = <<>>])

-----------------------------------------------------------------------------
(* Commands.  s is [cp, acts]: the state and the batch built so far.        *)

Say(s, t) == [s EXCEPT !.acts = AppendBeforeDispatch(@, Send(t))]

SayAndDisconnect(s, t) ==
    LET said == Say(s, t)
    IN  [cp   |-> DisconnectController(said.cp),
         acts |-> AppendBeforeDispatch(said.acts, Action("disconnect"))]

\* Fault: the request waits for the answers of the batch.
StopLast(s) ==
    IF s.cp.stopping THEN s.acts ELSE Append(s.acts, Action("stop"))

WithoutDispatch(acts) ==
    FoldLeft(LAMBDA kept, a : IF a.type = "dispatch" THEN kept ELSE Append(kept, a),
             <<>>, acts)

(* enter_stopping(): the stop request goes to the front of the batch, and a *)
(* dispatch that the same batch has scheduled is taken out again.           *)
StopFirst(s) ==
    IF s.cp.stopping THEN s.acts ELSE <<Action("stop")>> \o s.acts

EnterStopping(s) ==
    LET first == StopFirst(s)
        drop  == s.cp.inflight.unexecuted
        acts  == IF drop THEN WithoutDispatch(first) ELSE first
        cp    == CancelReply([s.cp EXCEPT !.stopping = TRUE, !.queue = <<>>])
    IN  Say([cp   |-> IF drop THEN [cp EXCEPT !.inflight = NoFlight] ELSE cp,
             acts |-> acts], Text("STOPPING"))

\* Fault: one too many.
QueueOverfull(s) == Len(s.cp.queue) > QueueLimit

(* process_command() *)
QueueFull(s) == Len(s.cp.queue) >= QueueLimit

ProcessCommand(s, cmd) ==
    CASE cmd.type = "stop" -> EnterStopping(s)
      [] cmd.type = "change" /\ s.cp.stopping -> Say(s, Text("ERROR stopping"))
      [] cmd.type # "stop" /\ InFlight(s.cp) /\ ~s.cp.stopping ->
            IF QueueFull(s)
              THEN SayAndDisconnect(s, Text("ERROR too many"))
              ELSE [s EXCEPT !.cp.queue = Append(@, [cmd |-> cmd, gen |-> s.cp.gen])]
      [] OTHER ->
            CASE cmd.type = "help" -> Say(s, Text("HELP"))
              [] cmd.type = "status" -> Say(s, StatusText(s.cp.confirmed))
              [] cmd.type = "change" ->
                    [cp   |-> [s.cp EXCEPT !.inflight =
                                 [change |-> cmd.change, reply |-> s.cp.gen,
                                  unexecuted |-> TRUE]],
                     acts |-> Append(s.acts, Dispatch(cmd.change))]
              [] cmd.type = "detach" -> SayAndDisconnect(s, Text("DETACHED"))

\* Fault: whatever follows an answer is dropped.
DrainOne(s) ==
    FoldLeft(LAMBDA r, q : IF r.acts # <<>> THEN r ELSE ProcessCommand(r, q.cmd),
             [s EXCEPT !.cp.queue = <<>>], s.cp.queue)

(* drain_queue(): commands leave the queue until one of them is in flight   *)
(* or the connection is gone.  A command of another generation is skipped.  *)
DrainQueue(s) ==
    FoldLeft(LAMBDA r, q :
                CASE r.cp.attached /\ InFlight(r.cp) ->
                        [r EXCEPT !.cp.queue = Append(@, q)]
                  [] r.cp.attached /\ ~InFlight(r.cp) /\ q.gen = r.cp.gen ->
                        ProcessCommand(r, q.cmd)
                  [] OTHER -> r,
             [s EXCEPT !.cp.queue = <<>>], s.cp.queue)

(* One complete line of the byte stream; once the connection has been       *)
(* dropped the rest of the buffer is gone.  "invalid" stands for every      *)
(* parse error but command_too_long, "oversized" for that one.              *)
ProcessLine(s, line) ==
    CASE ~s.cp.attached \/ line.type = "empty" -> s
      [] s.cp.attached /\ line.type = "invalid" -> Say(s, Text("ERROR parse"))
      [] s.cp.attached /\ line.type = "oversized" ->
            SayAndDisconnect(s, Text("ERROR too long"))
      [] OTHER -> ProcessCommand(s, line)

-----------------------------------------------------------------------------
(* handle(), one operator per event.  Each returns [cp, acts].  Every event *)
(* but a write failure shows that the last batch was executed completely.   *)

Executed(cp) == IF InFlight(cp) THEN [cp EXCEPT !.inflight.unexecuted = FALSE] ELSE cp

HandleAttached(cp) ==
    [cp   |-> [Executed(cp) EXCEPT !.gen = @ + 1, !.attached = TRUE],
     acts |-> <<Send(Text("ATTACHED"))>>]

HandleDisconnected(cp) == [cp |-> DisconnectController(Executed(cp)), acts |-> <<>>]

HandleWriteFailed(cp) ==
    [cp   |-> DisconnectController(IF cp.inflight.unexecuted
                                     THEN [cp EXCEPT !.inflight = NoFlight] ELSE cp),
     acts |-> <<>>]

\* Fault: changes stay welcome after Ctrl-C.
StoppingUnnoticed(cp) ==
    [cp |-> CancelReply([Executed(cp) EXCEPT !.queue = <<>>]), acts |-> <<>>]

HandleStopping(cp) ==
    [cp   |-> CancelReply([Executed(cp) EXCEPT !.stopping = TRUE, !.queue = <<>>]),
     acts |-> <<>>]

HandleTerminal(cp) ==
    [cp   |-> CancelReply([Executed(cp) EXCEPT !.terminal = TRUE, !.queue = <<>>]),
     acts |-> <<>>]

HandleStateUnknown(cp) ==
    IF cp.failed THEN [cp |-> Executed(cp), acts |-> <<>>]
    ELSE [cp   |-> CancelReply([Executed(cp) EXCEPT !.failed = TRUE, !.queue = <<>>]),
          acts |-> <<Action("fail_session")>>]

\* Fault: a later connection gets the result too.
AnyConnection(c) == ~c.terminal /\ ~c.stopping /\ c.attached

(* Whom a result may be reported to: the connection that asked for it. *)
Answerable(c) ==
    ~c.terminal /\ ~c.stopping /\ c.attached /\ c.inflight.reply = c.gen

\* Fault: a refused change is confirmed too.
ConfirmedAnyway(p, result, change) == ApplyProfileChange(p, change)

Confirmed(p, result, change) ==
    IF result = "applied" THEN ApplyProfileChange(p, change) ELSE p

HandleResult(cp, result, change) ==
    LET c      == Executed(cp)
        landed == [c EXCEPT !.inflight = NoFlight,
                            !.confirmed = Confirmed(@, result, change)]
        answer == IF Answerable(c)
                    THEN <<Send(ReplyText(IF result = "applied" THEN "PROFILE_CHANGED"
                                          ELSE "ERROR profile", change))>>
                    ELSE <<>>
        reply  == [cp |-> landed, acts |-> answer]
    IN  CASE c.inflight.change # change /\ (c.terminal \/ c.failed) ->
                [cp |-> c, acts |-> <<>>]
          [] c.inflight.change # change /\ ~(c.terminal \/ c.failed) ->
                [cp   |-> [c EXCEPT !.failed = TRUE, !.queue = <<>>],
                 acts |-> <<Action("fail_session")>>]
          [] OTHER -> IF c.terminal \/ c.failed THEN reply ELSE DrainQueue(reply)

HandleBytes(cp, lines) ==
    IF ~cp.attached \/ cp.terminal \/ cp.failed
      THEN [cp |-> Executed(cp), acts |-> <<>>]
      ELSE FoldLeft(ProcessLine, [cp |-> Executed(cp), acts |-> <<>>], lines)
=============================================================================
