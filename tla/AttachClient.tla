----------------------------- MODULE AttachClient -----------------------------
(***************************************************************************)
(* `netlaglab attach` (src/attach_client.cpp): the loop that reads the     *)
(* user's lines and the Supervisor's answers, over a stream socket of      *)
(* bounded room, against what the Supervisor does with one Controller.     *)
(*                                                                         *)
(* The unit of both streams is a line: which lines arrive in one read is   *)
(* open, and half a line waits in a buffer for its other half.  "set"      *)
(* stands for the commands answered by one line (stop too), "status" for   *)
(* those answered by a block (help too).                                   *)
(***************************************************************************)
EXTENDS SessionOutcome, SequencesExt

CONSTANTS
    Kinds,     \* kinds of lines the user types
    Outcomes,  \* outcomes the Session may have
    Room,      \* lines each direction of the socket holds
    ReadMax,   \* lines one read takes (4096 bytes)
    MaxLines,  \* bound: lines the user types
    MaxFaults  \* bound: deaths of the Supervisor and failures of the client's calls

ASSUME KindsAssumption == Kinds \subseteq {"set", "status", "detach"}
ASSUME OutcomesAssumption ==
    \A o \in Outcomes : /\ o = Outcome(o.workload, o.failures)
                       /\ o.failures \in Seq(Range(o.failures))
                       /\ Serializable(o)
ASSUME RoomAssumption ==
    Room \in Nat \ {0} /\ ReadMax \in Nat \ {0} /\ MaxLines \in Nat /\ MaxFaults \in Nat

VARIABLES
    client,     \* where run_attached_controller_impl() is, or "connect", "done"
    events,     \* revents of the last poll()
    tosend,     \* what a send has yet to put into the socket
    readStdin,  \* read_stdin
    midline,    \* the input sent so far does not end with a newline
    block,      \* the block being read: none, status or outcome
    parser,     \* lines of the Session Outcome received
    ending,     \* why the client ended
    reported    \* the Session Outcome it reported

clientVars == <<client, events, tosend, readStdin, midline, block, parser, ending, reported>>

VARIABLES
    requests,   \* lines on the way to the Supervisor
    responses,  \* lines on the way to the client
    link        \* none, queued, open; closed or reset by the Supervisor

VARIABLES
    server,     \* the Supervisor: poll, handle, send, publish or gone
    received,   \* lines it has read and not yet handled
    answers,    \* what it has yet to send
    partial,    \* the line it has received half of
    over,       \* the Workload has ended
    published,  \* the outcome of the Session
    delivered   \* the last answer went into the socket: none, detached, outcome

serverVars == <<server, received, answers, partial, over, published, delivered>>

VARIABLES
    input,      \* lines typed and not yet read
    inputEnd,   \* end-of-file on standard input
    typed,      \* lines typed so far
    asked,      \* a detach has been typed
    undone,     \* lines typed, before any detach, that are not yet carried out
    faults

userVars == <<input, inputEnd, typed, asked, undone, faults>>
wireVars == <<requests, responses, link>>
vars == <<clientVars, serverVars, wireVars, userVars>>

Init ==
    /\ client = "connect" /\ events = {} /\ tosend = <<>> /\ readStdin = TRUE
    /\ midline = FALSE /\ block = "none" /\ parser = <<>> /\ ending = "none"
    /\ reported = NoOutcome
    /\ requests = <<>> /\ responses = <<>> /\ link = "none"
    /\ server = "poll" /\ received = <<>> /\ answers = <<>> /\ partial = "none" /\ over = FALSE
    /\ published = NoOutcome /\ delivered = "none"
    /\ input = <<>> /\ inputEnd = FALSE /\ typed = 0 /\ asked = FALSE /\ undone = 0
    /\ faults = 0

(* How many lines a read may return. *)
Readable(stream) == {n \in 1..ReadMax : n <= Len(stream)}

Fault == faults < MaxFaults /\ faults' = faults + 1

-----------------------------------------------------------------------------
(* The client *)

End(why) == client' = "done" /\ ending' = why /\ events' = {}

(* attach_to_session(): the socket is found and connected to, or not. *)
Connect ==
    /\ client = "connect"
    /\ IF server = "gone"
         THEN End("no_session") /\ UNCHANGED link
         ELSE client' = "poll" /\ link' = "queued" /\ UNCHANGED <<ending, events>>
    /\ UNCHANGED <<tosend, readStdin, midline, block, parser, reported,
                   requests, responses, serverVars, userVars>>

Lost == link \in {"closed", "reset"}

Revents ==
    {e \in {"socket", "error", "stdin"} :
       CASE e = "socket" -> responses # <<>> \/ Lost
         [] e = "error" -> link = "reset"
         [] OTHER -> readStdin /\ (input # <<>> \/ inputEnd)}

Poll ==
    /\ client = "poll"
    /\ Revents # {}
    /\ events' = Revents
    /\ client' = IF "socket" \in Revents THEN "socket" ELSE "stdin"
    /\ UNCHANGED <<tosend, readStdin, midline, block, parser, ending, reported,
                   wireVars, serverVars, userVars>>

(* One line of handle_supervisor_response_line().  The first line of a      *)
(* Session Outcome hands the rest of the buffer to its parser.              *)
HandleLine(s, line) ==
    CASE s.ending # "none" -> s
      [] s.ending = "none" /\ s.block = "outcome" -> [s EXCEPT !.parser = Append(@, line)]
      [] OTHER ->
            CASE line.kind = "BEGIN" -> [s EXCEPT !.block = "outcome", !.parser = <<line>>]
              [] s.block = "status" /\ line.kind # "BEGIN" ->
                    IF line.kind = "STATUS_END" THEN [s EXCEPT !.block = "none"] ELSE s
              [] OTHER ->
                    CASE line.kind = "STATUS_BEGIN" -> [s EXCEPT !.block = "status"]
                      [] line.kind = "DETACHED" -> [s EXCEPT !.ending = "detached"]
                      [] line.kind = "ERROR attached" -> [s EXCEPT !.ending = "refused"]
                      [] line.kind \in {"ATTACHED", "PROFILE_CHANGED", "ERROR"} -> s
                      [] OTHER -> [s EXCEPT !.ending = "invalid"]

(* ControllerSessionOutcomeParser::receive(), once for every read. *)
Receive(s) ==
    CASE s.block = "outcome" /\ s.ending = "none" /\ Malformed(s.parser) ->
            [s EXCEPT !.ending = "invalid"]
      [] s.block = "outcome" /\ s.ending = "none" /\ ~Malformed(s.parser)
             /\ Complete(s.parser) ->
            [s EXCEPT !.ending = "outcome", !.reported = Parsed(s.parser)]
      [] OTHER -> s

HandleResponses(lines) ==
    Receive(FoldLeft(HandleLine,
        [block |-> block, parser |-> parser, ending |-> ending, reported |-> reported],
        lines))

(* read_and_handle_supervisor_responses().  What was sent before the        *)
(* connection was lost is read before the loss is seen; one read, and then  *)
(* an error of the socket is the end.                                       *)
Verdict(s) ==
    IF s.ending = "none" /\ "error" \in events THEN "socket_error" ELSE s.ending

\* Fault: the loss of the connection is looked at first.
HasAnswerUntilLost == responses # <<>> /\ ~Lost

HasAnswer == responses # <<>>

ReadResponses ==
    /\ client = "socket" /\ HasAnswer
    /\ \E n \in Readable(responses) :
         LET s == HandleResponses(SubSeq(responses, 1, n))
         IN  /\ responses' = SubSeq(responses, n + 1, Len(responses))
             /\ block' = s.block /\ parser' = s.parser /\ reported' = s.reported
             /\ ending' = Verdict(s)
             /\ client' = CASE Verdict(s) # "none" -> "done"
                           [] Verdict(s) = "none" /\ "stdin" \in events -> "stdin"
                           [] OTHER -> "poll"
    /\ events' = {}
    /\ UNCHANGED <<tosend, readStdin, midline, requests, link, serverVars, userVars>>

ReadEnd ==
    /\ client = "socket" /\ ~HasAnswer
    /\ End(IF link = "reset" THEN "read_failed" ELSE "eof")
    /\ UNCHANGED <<tosend, readStdin, midline, block, parser, reported,
                   wireVars, serverVars, userVars>>

\* Fault: a hangup of standard input is its end, whatever is left to read.
InputAtEndByHangup == inputEnd

InputAtEnd == inputEnd /\ input = <<>>

\* Fault: the detach follows what was typed directly.
FinalTextUnseparated == <<Marker("detach")>>

FinalText ==
    IF midline THEN <<Marker("newline"), Marker("detach")>> ELSE <<Marker("detach")>>

ReadInput ==
    /\ client = "stdin" /\ ~InputAtEnd
    /\ \E n \in Readable(input) :
         /\ tosend' = SubSeq(input, 1, n)
         /\ input' = SubSeq(input, n + 1, Len(input))
    /\ client' = "send" /\ events' = {}
    /\ UNCHANGED <<readStdin, midline, block, parser, ending, reported,
                   wireVars, serverVars, inputEnd, typed, asked, undone, faults>>

(* End-of-file asks for a detach once. *)
ReadInputEnd ==
    /\ client = "stdin" /\ InputAtEnd
    /\ tosend' = FinalText
    /\ readStdin' = FALSE
    /\ client' = "send" /\ events' = {}
    /\ UNCHANGED <<midline, block, parser, ending, reported,
                   wireVars, serverVars, userVars>>

(* send_socket_text() waits for room; the answers are not read meanwhile. *)
SendLine ==
    /\ client = "send" /\ ~Lost /\ Len(requests) < Room
    /\ requests' = Append(requests, Head(tosend))
    /\ tosend' = Tail(tosend)
    /\ midline' = (Head(tosend).value = "half")
    /\ client' = IF Tail(tosend) = <<>> THEN "poll" ELSE "send"
    /\ UNCHANGED <<events, readStdin, block, parser, ending, reported,
                   responses, link, serverVars, userVars>>

SendFails ==
    /\ client = "send" /\ Lost
    /\ End("send_failed")
    /\ UNCHANGED <<tosend, readStdin, midline, block, parser, reported,
                   wireVars, serverVars, userVars>>

(* poll() or read() fails. *)
CallFails ==
    /\ client \in {"poll", "socket", "stdin"}
    /\ Fault
    /\ End("failed")
    /\ UNCHANGED <<tosend, readStdin, midline, block, parser, reported,
                   wireVars, serverVars, input, inputEnd, typed, asked, undone>>

ClientStep ==
    \/ Connect \/ Poll \/ ReadResponses \/ ReadEnd
    \/ ReadInput \/ ReadInputEnd \/ SendLine \/ SendFails

-----------------------------------------------------------------------------
(* The Supervisor, as one Controller sees it *)

(* A connection closed with lines unread is reset. *)
CloseLink == link' = IF requests = <<>> THEN "closed" ELSE "reset"

(* accept4(): the Controller is attached, or another one is already. *)
Accept ==
    /\ server = "poll" /\ link = "queued"
    /\ server' = "send" /\ link' = "open"
    /\ answers' \in {<<Marker("ATTACHED")>>, <<Marker("ERROR attached")>>}
    /\ UNCHANGED <<received, partial, over, published, delivered, clientVars, requests,
                   responses, userVars>>

(* The answers to one complete line. *)
AnswersTo(kind) ==
    CASE kind = "set" -> {<<Marker("PROFILE_CHANGED")>>, <<Marker("ERROR")>>}
      [] kind = "status" -> {<<Marker("STATUS_BEGIN"), Marker("STATUS_END")>>}
      [] kind = "detach" -> {<<Marker("DETACHED")>>}
      [] OTHER -> {<<Marker("ERROR")>>}

(* A line and its newline may arrive apart; text that follows half a line   *)
(* becomes part of it.                                                      *)
CompletedLine(l) ==
    CASE l.value = "half" -> "none"
      [] l.value # "half" /\ partial = "none" -> l.kind
      [] OTHER -> IF l.kind = "newline" THEN partial ELSE "invalid"

ReadRequests ==
    /\ server = "poll" /\ link = "open" /\ requests # <<>>
    /\ \E n \in Readable(requests) :
         /\ received' = SubSeq(requests, 1, n)
         /\ requests' = SubSeq(requests, n + 1, Len(requests))
    /\ server' = "handle"
    /\ UNCHANGED <<answers, partial, over, published, delivered, clientVars, responses, link,
                   userVars>>

Idle(rest) == IF rest = <<>> THEN "poll" ELSE "handle"

HandleRequest ==
    /\ server = "handle"
    /\ LET kind == CompletedLine(Head(received))
       IN  IF kind = "none"
             THEN /\ partial' = Head(received).kind
                  /\ server' = Idle(Tail(received))
                  /\ UNCHANGED <<answers, undone>>
             ELSE /\ partial' = "none"
                  /\ server' = "send"
                  /\ answers' \in AnswersTo(kind)
                  /\ undone' = IF kind \in {"set", "status"} THEN undone - 1 ELSE undone
    /\ received' = Tail(received)
    /\ UNCHANGED <<over, published, delivered, clientVars, wireVars,
                   input, inputEnd, typed, asked, faults>>

(* execute_control_plane_actions(), publish_outcome(): a blocking send, and *)
(* nothing else happens in the Supervisor meanwhile.                        *)
SendAnswer ==
    /\ server \in {"send", "publish"} /\ answers # <<>>
    /\ client # "done" /\ Len(responses) < Room
    /\ responses' = Append(responses, Head(answers))
    /\ answers' = Tail(answers)
    /\ delivered' = CASE Head(answers).kind = "DETACHED" -> "detached"
                      [] Head(answers).kind = "END" -> "outcome"
                      [] OTHER -> delivered
    /\ IF Head(answers).kind \in {"DETACHED", "ERROR attached"}
         THEN CloseLink /\ server' = "poll" /\ received' = <<>>
         ELSE /\ UNCHANGED <<link, received>>
              /\ server' = IF server = "send" /\ Tail(answers) = <<>>
                             THEN Idle(received) ELSE server
    /\ UNCHANGED <<partial, over, published, clientVars, requests, userVars>>

(* The Controller is gone: the write fails, or the read finds the end.      *)
ControllerGone ==
    /\ client = "done" /\ link = "open"
    /\ server \in {"poll", "send"}
    /\ CloseLink
    /\ server' = "poll" /\ received' = <<>> /\ answers' = <<>>
    /\ UNCHANGED <<partial, over, published, delivered, clientVars, requests, responses,
                   userVars>>

(* Lines are no longer read; finalize() closes the listening socket, and    *)
(* publish_outcome() sends the block to the Controller that is attached.    *)
Finish ==
    /\ server = "poll" /\ over
    /\ published' \in Outcomes
    /\ IF link = "open" THEN /\ server' = "publish"
                             /\ answers' = Serialize(published')
                             /\ UNCHANGED link
                        ELSE /\ server' = "gone"
                             /\ link' = IF link = "queued" THEN "reset" ELSE link
                             /\ UNCHANGED answers
    /\ UNCHANGED <<received, partial, over, delivered, clientVars, requests, responses,
                   userVars>>

Published ==
    /\ server = "publish" /\ (answers = <<>> \/ client = "done")
    /\ server' = "gone"
    /\ CloseLink
    /\ UNCHANGED <<received, answers, partial, over, published, delivered, clientVars,
                   requests, responses, userVars>>

ServerStep ==
    Accept \/ ReadRequests \/ HandleRequest \/ SendAnswer \/ ControllerGone \/ Finish \/ Published

-----------------------------------------------------------------------------
(* The user, the Workload and the kernel *)

(* The last line before end-of-file may lack its newline. *)
Type ==
    /\ ~inputEnd /\ client # "done" /\ typed < MaxLines
    /\ \E k \in Kinds, v \in {"none", "half"} :
         /\ input' = Append(input, Line(k, v))
         /\ inputEnd' = (v = "half")
         /\ asked' = (asked \/ k = "detach")
         /\ undone' = IF asked \/ k = "detach" THEN undone ELSE undone + 1
    /\ typed' = typed + 1
    /\ UNCHANGED <<clientVars, serverVars, wireVars, faults>>

EndInput ==
    /\ ~inputEnd /\ client # "done"
    /\ inputEnd' = TRUE
    /\ UNCHANGED <<clientVars, serverVars, wireVars, input, typed, asked, undone, faults>>

WorkloadEnds ==
    /\ ~over /\ server # "gone"
    /\ over' = TRUE
    /\ UNCHANGED <<server, received, answers, partial, published, delivered, clientVars,
                   wireVars, userVars>>

SupervisorDies ==
    /\ server # "gone"
    /\ Fault
    /\ server' = "gone"
    /\ CASE link = "queued" -> link' = "reset"
         [] link = "open" -> CloseLink
         [] OTHER -> UNCHANGED link
    /\ UNCHANGED <<received, answers, partial, over, published, delivered, clientVars, requests, responses,
                   input, inputEnd, typed, asked, undone>>

Next == ClientStep \/ CallFails \/ ServerStep \/ Type \/ EndInput \/ WorkloadEnds \/ SupervisorDies

(* Both programs run; nothing is assumed of the user and of the Workload,   *)
(* and no call has to fail.                                                 *)
Spec == Init /\ [][Next]_vars /\ WF_vars(ClientStep) /\ WF_vars(ServerStep)

-----------------------------------------------------------------------------
(* Properties *)

(* What `netlaglab attach` reports is what happened: a Session Outcome is   *)
(* the one that was published, with every failure, however the block was    *)
(* divided among reads; a detach was confirmed (attach_client.cpp, the      *)
(* response lines, controller_session_outcome.cpp).                         *)
ReportIsTrue ==
    /\ ending = "outcome" => reported = published /\ delivered = "outcome"
    /\ ending = "detached" => delivered = "detached"
    /\ ending # "invalid"

(* When the client says that the stream ended without an answer, there was  *)
(* none: a complete Session Outcome or DETACHED that was sent before the    *)
(* close has been read (docs/cli.md on the unknown result).                 *)
LossMeansNoAnswer ==
    ending \in {"eof", "read_failed"} => delivered = "none"

(* A script that is piped into the client is carried out before the client  *)
(* reports that it has detached at the end of its input: no line is         *)
(* dropped, overtaken by the detach or joined with it.                      *)
ScriptIsCarriedOut == ending = "detached" => undone = 0

(* Both ends wait for room, and neither reads. *)
Jammed ==
    /\ client = "send" /\ Len(requests) = Room /\ ~Lost
    /\ server \in {"send", "publish"} /\ answers # <<>> /\ Len(responses) = Room

(* At the end of its input the client ends: it is answered, or it learns    *)
(* that the Session is gone.  The one exception is a jam.                   *)
EndOfInputEndsAttach == inputEnd ~> (client = "done" \/ Jammed)
=============================================================================
