------------------------ MODULE SessionChangeProofs ------------------------
(***************************************************************************)
(* Theorems about a Profile Change on its way through Session: the helper  *)
(* refuses nothing it is sent, a change is in one place at a time, and the *)
(* profile that the Supervisor shows is the one in force; for any          *)
(* Controllers, lines, settings, completions, crashes and bounds.          *)
(*                                                                         *)
(* The invariant is ChangeInvariant, on top of SessionInv of               *)
(* SessionProofs.  First come the moves of the adapter, which are what     *)
(* every step of the Supervisor but a read of the helper's frames comes to *)
(* (they confirm nothing and dispatch at most one change), then such a     *)
(* read, event by event, then the lifecycle and the steps of the helper.   *)
(***************************************************************************)
EXTENDS SessionProofs, FiniteSetTheorems

-----------------------------------------------------------------------------
(* No batch asks for a stop without the control plane being shown as        *)
(* stopping.                                                                *)
NoStop(acts) == \A i \in 1 .. Len(acts) : acts[i].type # "stop"
StopIsShown(s) == s.cp.stopping \/ NoStop(s.acts)

(* What is put in front of a batch comes first, and the rest follows. *)
LEMMA FrontFacts ==
    ASSUME NEW X, NEW s \in Seq(X), s # <<>>
    PROVE  /\ Front(s) \in Seq(X) /\ Len(Front(s)) = Len(s) - 1
           /\ \A i \in 1 .. Len(s) - 1 : Front(s)[i] = s[i]
<1>1. Len(s) \in Nat /\ Len(s) # 0
    OBVIOUS
<1> DEFINE n == Len(s) - 1
<1>2. n \in 0 .. Len(s) /\ n \in Nat
    BY <1>1
<1>3. Front(s) = SubSeq(s, 1, n)
    BY DEF Front
<1> HIDE DEF n
<1>4. \A i \in 1 .. n : i \in 1 .. Len(s) /\ s[i] \in X
    BY <1>1, <1>2
<1>5. SubSeq(s, 1, n) \in Seq(X) /\ Len(SubSeq(s, 1, n)) = n
    BY <1>1, <1>2, <1>4
<1>6. \A i \in 1 .. n : SubSeq(s, 1, n)[i] = s[i]
    BY <1>1, <1>2, <1>4
<1>7. QED
    BY <1>3, <1>5, <1>6 DEF n

(* A batch behind another asks for a stop if one of the two does. *)
LEMMA AppendBeforeNoStop ==
    ASSUME NEW acts, InOrder(acts), NoStop(acts), NEW a \in PlainActions, a.type # "stop"
    PROVE  NoStop(AppendBeforeDispatch(acts, a))
<1> DEFINE n == Len(acts)
           t == AppendBeforeDispatch(acts, a)
<1>1. n \in Nat /\ acts \in Seq(BatchActions) /\ a \in BatchActions
    BY DEF InOrder, BatchActions, PlainActions
<1>2. CASE acts # <<>> /\ Last(acts).type = "dispatch"
    <2> DEFINE fr == Front(acts)
               pr == <<a, acts[n]>>
    <2>1. t = fr \o pr /\ n # 0
        BY <1>1, <1>2 DEF AppendBeforeDispatch, Last
    <2>10. /\ Front(acts) \in Seq(BatchActions) /\ Len(Front(acts)) = n - 1
          /\ \A i \in 1 .. n - 1 : Front(acts)[i] = acts[i]
        BY <1>1, <1>2, FrontFacts
    <2>2. fr \in Seq(BatchActions) /\ Len(fr) = n - 1 /\ \A i \in 1 .. n - 1 : fr[i] = acts[i]
        BY <2>10
    <2>3. acts[n] \in BatchActions /\ n \in 1 .. n
        BY <1>1, <2>1
    <2>4. pr \in Seq(BatchActions) /\ Len(pr) = 2 /\ pr[1] = a /\ pr[2] = acts[n]
        BY <1>1, <2>3
    <2> HIDE DEF fr, pr, t
    <2>5. /\ Len(t) = Len(fr) + Len(pr)
          /\ \A i \in 1 .. Len(fr) : t[i] = fr[i]
          /\ \A i \in 1 .. Len(pr) : t[Len(fr) + i] = pr[i]
        <3>1. /\ Len(fr \o pr) = Len(fr) + Len(pr)
              /\ \A i \in 1 .. Len(fr) : (fr \o pr)[i] = fr[i]
              /\ \A i \in 1 .. Len(pr) : (fr \o pr)[Len(fr) + i] = pr[i]
            <4>1. fr \in Seq(BatchActions) /\ pr \in Seq(BatchActions)
                BY <2>2, <2>4
            <4>2. QED
                BY ONLY <4>1, JoinFacts
        <3>2. QED
            BY ONLY <2>1, <3>1
    <2>6. (n - 1) + 1 = n /\ (n - 1) + 2 = n + 1 /\ 1 \in 1 .. 2 /\ 2 \in 1 .. 2
        BY <1>1
    <2>7. \A i \in 1 .. Len(t) : i \in 1 .. n - 1 \/ i = n \/ i = n + 1
        BY <1>1, <2>2, <2>4, <2>5
    <2>8. t[n] = a /\ t[n + 1] = acts[n] /\ \A i \in 1 .. n - 1 : i \in 1 .. n /\ t[i] = acts[i]
        BY <1>1, <2>2, <2>4, <2>5, <2>6
    <2>9. QED
        BY <2>3, <2>7, <2>8 DEF NoStop, t
<1>3. CASE ~(acts # <<>> /\ Last(acts).type = "dispatch")
    <2>1. t = Append(acts, a)
        BY <1>3 DEF AppendBeforeDispatch
    <2>2. /\ Len(t) = n + 1 /\ t[n + 1] = a /\ \A i \in 1 .. n : t[i] = acts[i]
        BY <1>1, <2>1
    <2> HIDE DEF t
    <2>3. \A i \in 1 .. Len(t) : i \in 1 .. n \/ i = n + 1
        BY <1>1, <2>2
    <2>4. QED
        BY <2>2, <2>3 DEF NoStop, t
<1>4. QED
    BY <1>2, <1>3

(* say() only adds texts. *)
LEMMA SayShows ==
    ASSUME NEW c0, NEW s \in Batches(c0), NEW t \in Texts, StopIsShown(s)
    PROVE  StopIsShown(Say(s, t))
<1> DEFINE acts == AppendBeforeDispatch(s.acts, Send(t))
<1>1. Say(s, t) = [cp |-> s.cp, acts |-> acts]
    BY DEF Say, Batches
<1>2. Send(t) \in PlainActions /\ InOrder(s.acts) /\ Send(t).type = "send"
    BY ActionTypes DEF Batches, Send
<1>3. NoStop(s.acts) => NoStop(acts)
    BY <1>2, AppendBeforeNoStop
<1> HIDE DEF acts
<1>4. QED
    BY <1>1, <1>3 DEF StopIsShown

(* So does an answer that ends the connection. *)
LEMMA SayAndDisconnectShows ==
    ASSUME NEW c0, NEW s \in Batches(c0), NEW t \in Texts, StopIsShown(s)
    PROVE  StopIsShown(SayAndDisconnect(s, t))
<1> DEFINE said == Say(s, t)
           acts == AppendBeforeDispatch(said.acts, Action("disconnect"))
           d == DisconnectController(said.cp)
<1>1. said \in Batches(c0) /\ StopIsShown(said)
    BY SayKeeps, SayShows
<1>2. SayAndDisconnect(s, t) = [cp |-> d, acts |-> acts]
    BY DEF SayAndDisconnect
<1> HIDE DEF said
<1>3. /\ Action("disconnect") \in PlainActions /\ Action("disconnect").type = "disconnect"
      /\ InOrder(said.acts) /\ said.cp \in ControlPlanes
    BY <1>1, ActionTypes DEF Batches, Action
<1>4. NoStop(said.acts) => NoStop(acts)
    BY <1>3, AppendBeforeNoStop
<1>5. d.stopping = said.cp.stopping
    BY <1>3, Disconnected
<1> HIDE DEF acts, d
<1>6. QED
    BY <1>1, <1>2, <1>4, <1>5 DEF StopIsShown

(* process_command(): a stop is asked for only by what also shows it. *)
LEMMA ProcessCommandShows ==
    ASSUME NEW c0, Settled(c0), NEW s \in Batches(c0), NEW cmd \in ControllerCommands,
           StopIsShown(s)
    PROVE  StopIsShown(ProcessCommand(s, cmd))
<1> DEFINE t == ProcessCommand(s, cmd)
<1>1. s.cp \in ControlPlanes /\ s = [cp |-> s.cp, acts |-> s.acts] /\ s.cp.confirmed \in Profiles
      /\ s.acts \in Seq(BatchActions)
    BY DEF Batches, ControlPlanes
<1>2. /\ cmd.type \in {"change", "help", "status", "stop", "detach"}
      /\ cmd.type = "change" => cmd.change \in Changes
    BY DEF ControllerCommands, SetCommand, PlainCommand
<1>3. \/ t = EnterStopping(s)
      \/ \E u \in {"ERROR stopping", "HELP"} : t = Say(s, Text(u))
      \/ t = Say(s, StatusText(s.cp.confirmed))
      \/ \E u \in {"ERROR too many", "DETACHED"} : t = SayAndDisconnect(s, Text(u))
      \/ t = [s EXCEPT !.cp.queue = Append(@, [cmd |-> cmd, gen |-> s.cp.gen])]
      \/ /\ cmd.type = "change"
         /\ t = [cp |-> [s.cp EXCEPT !.inflight =
                           [change |-> cmd.change, reply |-> s.cp.gen, unexecuted |-> TRUE]],
                 acts |-> Append(s.acts, Dispatch(cmd.change))]
    BY <1>2 DEF ProcessCommand
<1> HIDE DEF t
<1>4. CASE t = EnterStopping(s)
    BY <1>4, EnterStoppingKeeps DEF StopIsShown, t
<1>5. ASSUME NEW u \in {"ERROR stopping", "HELP"}, t = Say(s, Text(u)) PROVE StopIsShown(t)
    <2>1. Text(u) \in Texts
        BY TextTypes
    <2>2. QED
        BY <1>5, <2>1, SayShows
<1>6. CASE t = Say(s, StatusText(s.cp.confirmed))
    <2>1. StatusText(s.cp.confirmed) \in Texts
        BY <1>1, TextTypes
    <2>2. QED
        BY <1>6, <2>1, SayShows DEF t
<1>7. ASSUME NEW u \in {"ERROR too many", "DETACHED"}, t = SayAndDisconnect(s, Text(u))
      PROVE StopIsShown(t)
    <2>1. Text(u) \in Texts
        BY TextTypes
    <2>2. QED
        BY <1>7, <2>1, SayAndDisconnectShows
<1>8. CASE t = [s EXCEPT !.cp.queue = Append(@, [cmd |-> cmd, gen |-> s.cp.gen])]
    <2>1. t.acts = s.acts /\ t.cp.stopping = s.cp.stopping
        BY <1>1, <1>8 DEF ControlPlanes
    <2>2. QED
        BY <2>1 DEF StopIsShown, t
<1>9. CASE /\ cmd.type = "change"
           /\ t = [cp |-> [s.cp EXCEPT !.inflight =
                             [change |-> cmd.change, reply |-> s.cp.gen, unexecuted |-> TRUE]],
                   acts |-> Append(s.acts, Dispatch(cmd.change))]
    <2> DEFINE a == Dispatch(cmd.change)
    <2>1. a \in BatchActions /\ a.type = "dispatch"
        BY <1>2, <1>9, ActionTypes DEF Dispatch, BatchActions
    <2>2. t.cp.stopping = s.cp.stopping /\ t.acts = Append(s.acts, a)
        BY <1>1, <1>9 DEF ControlPlanes
    <2> HIDE DEF a
    <2>3. /\ Len(t.acts) = Len(s.acts) + 1 /\ t.acts[Len(s.acts) + 1] = a /\ Len(s.acts) \in Nat
          /\ \A i \in 1 .. Len(s.acts) : t.acts[i] = s.acts[i]
        BY <1>1, <2>1, <2>2
    <2>4. \A i \in 1 .. Len(t.acts) : i \in 1 .. Len(s.acts) \/ i = Len(s.acts) + 1
        BY <2>3
    <2>5. NoStop(s.acts) => NoStop(t.acts)
        BY <2>1, <2>3, <2>4 DEF NoStop
    <2>6. QED
        BY <2>2, <2>5 DEF StopIsShown, t
<1>10. QED
    BY <1>3, <1>4, <1>5, <1>6, <1>7, <1>8, <1>9 DEF t

(* So it is for all lines of one read, *)
LEMMA HandleBytesShows ==
    ASSUME NEW c \in ControlPlanes, NEW ls \in Seq(ControllerLines)
    PROVE  StopIsShown(HandleBytes(c, ls))
<1> DEFINE c0 == Executed(c)
           b == [cp |-> c0, acts |-> <<>>]
           T == {s \in Batches(c0) : StopIsShown(s)}
<1>1. Settled(c0)
    BY ExecutedFacts
<1>2. b \in T
    <2>1. <<>> \in Seq(PlainActions) /\ Len(<<>>) <= 1 /\ 1 .. Len(<<>>) = {}
        OBVIOUS
    <2>2. b \in Batches(c0) /\ b.acts = <<>>
        BY <1>1, <2>1, EmptyBatch
    <2> HIDE DEF b
    <2>3. QED
        BY <2>1, <2>2 DEF StopIsShown, NoStop
<1>3. CASE ~c.attached \/ c.terminal \/ c.failed
    BY <1>2, <1>3 DEF HandleBytes
<1>4. CASE ~(~c.attached \/ c.terminal \/ c.failed)
    <2>1. HandleBytes(c, ls) = FoldLeft(ProcessLine, b, ls)
        BY <1>4 DEF HandleBytes
    <2>2. FoldLeft(ProcessLine, b, ls) = PL!Fold(b, ls)
        BY DEF FoldLeft, MapThenFoldSet, PL!Fold, PL!Largest, Max
    <2> HIDE DEF c0, b
    <2>3. ASSUME NEW i \in 1 .. Len(ls), NEW s \in T PROVE ProcessLine(s, ls[i]) \in T
        <3> DEFINE l == ls[i]
        <3>1. s \in Batches(c0) /\ l \in ControllerLines /\ StopIsShown(s)
            OBVIOUS
        <3> HIDE DEF l
        <3>2. ProcessLine(s, l) \in Batches(c0)
            BY <1>1, <3>1, ProcessLineKeeps
        <3>3. \/ ProcessLine(s, l) = s
              \/ ProcessLine(s, l) = Say(s, Text("ERROR parse"))
              \/ ProcessLine(s, l) = SayAndDisconnect(s, Text("ERROR too long"))
              \/ l \in ControllerCommands /\ ProcessLine(s, l) = ProcessCommand(s, l)
            <4>1. l.type \notin {"empty", "invalid", "oversized"} => l \in ControllerCommands
                BY <3>1 DEF ControllerLines, PlainCommand
            <4>2. QED
                BY <4>1 DEF ProcessLine
        <3>4. Text("ERROR parse") \in Texts /\ Text("ERROR too long") \in Texts
            BY TextTypes
        <3>5. StopIsShown(ProcessLine(s, l))
            BY <1>1, <3>1, <3>3, <3>4, SayShows, SayAndDisconnectShows, ProcessCommandShows
        <3>6. QED
            BY <3>2, <3>5 DEF l
    <2> HIDE DEF T
    <2>4. PL!Fold(b, ls) \in T
        BY <1>2, <2>3, PL!FoldStaysIn
    <2>5. QED
        BY <2>1, <2>2, <2>4 DEF T
<1>5. QED
    BY <1>3, <1>4

(* for the queue behind a result, *)
LEMMA DrainQueueShows ==
    ASSUME NEW c0, Settled(c0), NEW s \in Batches(c0), StopIsShown(s)
    PROVE  StopIsShown(DrainQueue(s))
<1> DEFINE c == [s.cp EXCEPT !.queue = <<>>]
           b == [cp |-> c, acts |-> s.acts]
           queue == s.cp.queue
           T == {r \in Batches(c0) : StopIsShown(r)}
<1>1. /\ s.cp \in ControlPlanes /\ s = [cp |-> s.cp, acts |-> s.acts]
      /\ queue \in Seq([cmd : ControllerCommands, gen : Nat]) /\ <<>> \in Queues
    BY DEF Batches, ControlPlanes, Queues
<1>2. DrainQueue(s) = DQ!Fold(b, queue)
    <2>1. b = [s EXCEPT !.cp.queue = <<>>]
        BY <1>1
    <2> HIDE DEF b
    <2>2. QED
        BY <2>1 DEF DrainQueue, DrainNext, FoldLeft, MapThenFoldSet, DQ!Fold, DQ!Largest, Max
<1>3. b \in T
    <2>1. c \in ControlPlanes
        BY <1>1 DEF ControlPlanes
    <2>2. /\ c.inflight = s.cp.inflight /\ c.attached = s.cp.attached
          /\ c.stopping = s.cp.stopping /\ Kept(s.cp, c)
        BY <1>1 DEF ControlPlanes, Kept
    <2> HIDE DEF c
    <2>3. b \in Batches(c0)
        BY <2>1, <2>2 DEF Batches, Kept
    <2>4. b.cp.stopping = s.cp.stopping /\ b.acts = s.acts
        BY <2>2
    <2> HIDE DEF b
    <2>5. QED
        BY <2>3, <2>4 DEF StopIsShown
<1>4. \A i \in 1 .. Len(queue) : queue[i] \in [cmd : ControllerCommands, gen : Nat]
    BY <1>1, ElementOf
<1> HIDE DEF b, queue
<1>5. ASSUME NEW i \in 1 .. Len(queue), NEW r \in T PROVE DrainNext(r, queue[i]) \in T
    <2> DEFINE q == queue[i]
    <2>1. r \in Batches(c0) /\ StopIsShown(r)
        OBVIOUS
    <2>2. q \in [cmd : ControllerCommands, gen : Nat]
        BY <1>4
    <2>3. /\ r.cp \in ControlPlanes /\ r = [cp |-> r.cp, acts |-> r.acts] /\ r.cp.queue \in Queues
        BY <2>1 DEF Batches, ControlPlanes
    <2> HIDE DEF q
    <2>4. CASE r.cp.attached /\ InFlight(r.cp)
        <3> DEFINE p == Append(r.cp.queue, q)
                   d == [r.cp EXCEPT !.queue = p]
        <3>1. p \in Queues
            BY <2>2, <2>3 DEF Queues
        <3>2. DrainNext(r, q) = [cp |-> d, acts |-> r.acts]
            BY <2>3, <2>4 DEF DrainNext
        <3> HIDE DEF p
        <3>3. d \in ControlPlanes
            BY <2>3, <3>1 DEF ControlPlanes
        <3>4. /\ d.inflight = r.cp.inflight /\ d.attached = r.cp.attached
              /\ d.stopping = r.cp.stopping /\ Kept(r.cp, d)
            BY <2>3 DEF ControlPlanes, Kept
        <3> HIDE DEF d
        <3>5. DrainNext(r, q) \in Batches(c0)
            BY <2>1, <3>2, <3>3, <3>4 DEF Batches, Kept
        <3>6. StopIsShown(DrainNext(r, q))
            BY <2>1, <3>2, <3>4 DEF StopIsShown
        <3>7. QED
            BY <3>5, <3>6 DEF q
    <2>5. CASE r.cp.attached /\ ~InFlight(r.cp) /\ q.gen = r.cp.gen
        <3>1. DrainNext(r, q) = ProcessCommand(r, q.cmd)
            BY <2>5 DEF DrainNext
        <3>2. q.cmd \in ControllerCommands
            BY <2>2
        <3>3. DrainNext(r, q) \in Batches(c0) /\ StopIsShown(DrainNext(r, q))
            BY <2>1, <3>1, <3>2, ProcessCommandKeeps, ProcessCommandShows
        <3>4. QED
            BY <3>3 DEF q
    <2>6. CASE /\ ~(r.cp.attached /\ InFlight(r.cp))
               /\ ~(r.cp.attached /\ ~InFlight(r.cp) /\ q.gen = r.cp.gen)
        <3>1. DrainNext(r, q) = r
            BY <2>6 DEF DrainNext
        <3>2. QED
            BY <2>1, <3>1 DEF q
    <2>7. QED
        BY <2>4, <2>5, <2>6
<1> HIDE DEF T
<1>6. DQ!Fold(b, queue) \in T
    BY <1>1, <1>3, <1>5, DQ!FoldStaysIn
<1>7. QED
    BY <1>2, <1>6 DEF T

(* and for the result itself. *)
LEMMA HandleResultShows ==
    ASSUME NEW c \in ControlPlanes, Len(c.queue) <= QueueLimit,
           NEW result \in {"applied", "restored"}, NEW change \in Changes,
           c.inflight.change = change
    PROVE  StopIsShown(HandleResult(c, result, change))
<1> DEFINE e == Executed(c)
           d == Landed(c, result, change)
           s == HandleResult(c, result, change)
           t == IF result = "applied" THEN "PROFILE_CHANGED" ELSE "ERROR profile"
           answer == IF Answerable(e) THEN <<Send(ReplyText(t, change))>> ELSE <<>>
           reply == [cp |-> d, acts |-> answer]
<1>1. e.inflight.change = change
    BY ExecutedFacts
<1>2. Settled(d)
    BY LandedFacts
<1>3. s = IF e.terminal \/ e.failed THEN reply ELSE DrainQueue(reply)
    BY <1>1 DEF HandleResult, Landed
<1>4. answer \in Seq(PlainActions) /\ Len(answer) <= 1 /\ NoStop(answer)
    <2>1. ReplyText(t, change) \in Texts
        <3>1. t \in {"PROFILE_CHANGED", "ERROR profile"}
            OBVIOUS
        <3> HIDE DEF t
        <3>2. QED
            BY <3>1, TextTypes
    <2> DEFINE a == Send(ReplyText(t, change))
    <2>2. a \in PlainActions /\ a.type = "send"
        BY <2>1, ActionTypes DEF Send
    <2>3. answer = <<a>> \/ answer = <<>>
        OBVIOUS
    <2> HIDE DEF t, a, answer
    <2>4. <<a>> \in Seq(PlainActions) /\ Len(<<a>>) = 1 /\ <<a>>[1] = a
        BY <2>2
    <2>5. <<>> \in Seq(PlainActions) /\ Len(<<>>) = 0
        OBVIOUS
    <2>6. NoStop(<<a>>) /\ NoStop(<<>>)
        BY <2>2, <2>4, <2>5 DEF NoStop
    <2>7. CASE answer = <<a>>
        BY <2>4, <2>6, <2>7
    <2>8. CASE answer = <<>>
        BY <2>5, <2>6, <2>8
    <2>9. QED
        BY <2>3, <2>7, <2>8
<1> HIDE DEF answer, d, e, s
<1>5. reply \in Batches(d) /\ reply.acts = answer
    BY <1>2, <1>4, EmptyBatch
<1> HIDE DEF reply
<1>6. StopIsShown(reply)
    BY <1>4, <1>5 DEF StopIsShown
<1>7. StopIsShown(DrainQueue(reply))
    BY <1>2, <1>5, <1>6, DrainQueueShows
<1>8. QED
    BY <1>3, <1>6, <1>7 DEF s

(* A write failure keeps what is in flight, unless it was in this batch. *)
LEMMA WriteFailedFlight ==
    ASSUME NEW c \in ControlPlanes
    PROVE  LET d == HandleWriteFailed(c).cp
           IN  /\ d.confirmed = c.confirmed /\ d.stopping = c.stopping
               /\ ~c.inflight.unexecuted => d.inflight.change = c.inflight.change
<1> DEFINE e == IF c.inflight.unexecuted THEN [c EXCEPT !.inflight = NoFlight] ELSE c
<1>1. /\ e \in ControlPlanes /\ e.confirmed = c.confirmed /\ e.stopping = c.stopping
      /\ ~c.inflight.unexecuted => e = c
    BY DEF ControlPlanes, Flights
<1>2. HandleWriteFailed(c).cp = DisconnectController(e)
    BY DEF HandleWriteFailed
<1> HIDE DEF e
<1>3. QED
    BY <1>1, <1>2, Disconnected DEF OnlyFlightQueue, Kept

(* What a batch does to the conversation: nothing, or the change that it    *)
(* has put in flight is begun.                                              *)
Quiet(x, y) == y.conv = x.conv /\ y.outbox = x.outbox

Dispatched(x, y) ==
    /\ ~y.cp.stopping /\ y.cp.inflight.change \in Changes
    /\ CanBeginProfileChange(x.conv)
    /\ y.conv = BeginProfileChange(x.conv, y.cp.inflight.change)
    /\ y.outbox \in {x.outbox, Append(x.outbox, ChangeCommand(y.cp.inflight.change))}

(* The events that y has and x has not are of the kinds K. *)
Adds(x, y, K) ==
    \A i \in 1 .. Len(y.pending) :
        \/ y.pending[i].kind \in K
        \/ \E j \in 1 .. Len(x.pending) : y.pending[i] = x.pending[j]

(* How the lists of pending events grow. *)
LEMMA AddsNothing ==
    ASSUME NEW x, NEW y, NEW K, y.pending = x.pending
    PROVE  Adds(x, y, K)
BY DEF Adds

LEMMA AddsOne ==
    ASSUME NEW X, NEW x, NEW y, NEW z, NEW K, NEW e, y.pending \in Seq(X), Adds(x, y, K),
           z.pending = Append(y.pending, e), e.kind \in K
    PROVE  Adds(x, z, K)
<1>1. /\ \A i \in 1 .. Len(y.pending) : z.pending[i] = y.pending[i]
      /\ z.pending[Len(z.pending)] = e
      /\ \A i \in 1 .. Len(z.pending) : i \in 1 .. Len(y.pending) \/ i = Len(z.pending)
    BY PendingFacts
<1>2. QED
    BY <1>1 DEF Adds

LEMMA AddsMore ==
    ASSUME NEW x, NEW y, NEW z, NEW K, Adds(x, y, K), Adds(y, z, K)
    PROVE  Adds(x, z, K)
BY DEF Adds

Asks(cp) == {"conversation_lost"} \cup (IF cp.stopping THEN {"stop_requested"} ELSE {})

(* The effect of a batch that starts from the control plane c0.             *)
Batched(c0, x, y) ==
    /\ SameSession(x, y)
    /\ y.cp.confirmed = c0.confirmed
    /\ c0.stopping => y.cp.stopping
    /\ InFlight(c0) => y.cp.inflight.change = c0.inflight.change /\ Quiet(x, y)
    /\ Quiet(x, y) \/ Dispatched(x, y)
    /\ Adds(x, y, Asks(y.cp))

(* execute() of control_plane_action_executor.cpp, whatever fails in the    *)
(* batch: at most one change is dispatched, and every event for the         *)
(* lifecycle is one that the batch accounts for.                            *)
LEMMA BatchMoves ==
    ASSUME NEW P, BatchEvents \subseteq P, NEW x \in Adapters(P), NEW c0, Settled(c0),
           NEW s \in Batches(c0), StopIsShown(s), Len(s.cp.queue) <= QueueLimit
    PROVE  ExecuteActions(x, s) \in Adapters(P) /\ Batched(c0, x, ExecuteActions(x, s))
<1> DEFINE b0 == [x EXCEPT !.cp = s.cp]
           b == [b0 EXCEPT !.halted = FALSE]
           acts == s.acts
           n == Len(acts)
           y == ExecuteActions(x, s)
           K == Asks(s.cp)
           hwf == HandleWriteFailed(s.cp).cp
<1>1. ExecuteActions(x, s) = EX!Fold(b, acts)
    BY DEF ExecuteActions, FoldLeft, MapThenFoldSet, EX!Fold, EX!Largest, Max
<1>2. /\ s.cp \in ControlPlanes /\ acts \in Seq(BatchActions) /\ n \in Nat /\ InOrder(acts)
      /\ s.cp.inflight \in Flights
    BY DEF Batches, ControlPlanes
<1>3. b0 \in Adapters(P) /\ SameSession(x, b0) /\ b0.pending = x.pending /\ b0.cp = s.cp
      /\ b0.conv = x.conv /\ b0.outbox = x.outbox
    BY <1>2 DEF Adapters, SameSession
<1> HIDE DEF b0
<1>4. /\ b \in Adapters(P) /\ SameSession(b0, b) /\ b.pending = b0.pending /\ b.cp = b0.cp
      /\ b.conv = b0.conv /\ b.outbox = b0.outbox
    BY <1>3 DEF Adapters, SameSession
<1> HIDE DEF b
<1>5. SameSession(x, b)
    BY <1>3, <1>4 DEF SameSession
<1> HIDE DEF acts, y, n, K, hwf
<1> DEFINE Sent(z) == /\ z.cp = s.cp /\ EndsInDispatch(acts) /\ CanBeginProfileChange(x.conv)
                      /\ z.conv = BeginProfileChange(x.conv, acts[n].change)
                      /\ z.outbox \in {x.outbox, Append(x.outbox, ChangeCommand(acts[n].change))}
           Holds(z) == /\ z \in Adapters(P) /\ SameSession(x, z) /\ Adds(x, z, K)
                       /\ z.cp = s.cp \/ (z.halted /\ z.cp = hwf)
           T == [i \in 0 .. n |-> {z \in Adapters(P) : Holds(z)
                                      /\ (Quiet(x, z) \/ (i = n /\ Sent(z)))}]
<1>6. b \in T[0]
    <2>1. Quiet(x, b)
        BY <1>3, <1>4 DEF Quiet
    <2>2. Adds(x, b, K)
        BY <1>3, <1>4, AddsNothing
    <2>3. b.cp = s.cp /\ 0 \in 0 .. n
        BY <1>2, <1>3, <1>4 DEF n
    <2>4. QED
        BY <1>4, <1>5, <2>1, <2>2, <2>3
<1>7. ASSUME NEW i \in 1 .. n, NEW z \in T[i - 1] PROVE Execute(z, acts[i]) \in T[i]
    <2> DEFINE a == acts[i]
               w == Execute(z, a)
    <2>0. n \in Nat
        BY <1>2 DEF n
    <2>1. /\ i - 1 \in 0 .. n /\ i \in 0 .. n /\ i - 1 # n
        BY <2>0
    <2>2. Holds(z) /\ Quiet(x, z)
        BY <2>1
    <2>3. /\ a \in BatchActions /\ a.type # "fail_session"
          /\ IsDispatch(a) => i = n /\ EndsInDispatch(acts)
        <3>1. a \in BatchActions
            BY <1>2, ElementOf DEF n
        <3>2. acts # <<>> /\ (IsDispatch(a) => i = n)
            BY <1>2 DEF InOrder, n
        <3>3. QED
            BY <3>1, <3>2 DEF BatchActions, PlainActions, Dispatches, EndsInDispatch, n
    <2>4. a.type = "stop" => s.cp.stopping
        BY <1>2 DEF StopIsShown, NoStop, acts, n
    <2> HIDE DEF a
    <2>5. w \in Adapters(P) /\ Executing(z, a, w)
        BY <2>2, <2>3, ExecuteFacts
    <2> HIDE DEF w
    <2>6. SameSession(x, w)
        BY <2>2, <2>5 DEF Executing, SameSession
    <2>7. w.cp = s.cp \/ (w.halted /\ w.cp = hwf)
        <3>1. CASE z.halted
            BY <2>2, <2>5, <3>1 DEF Executing
        <3>2. CASE ~z.halted
            BY <2>2, <2>5, <3>2 DEF Executing, hwf
        <3>3. QED
            BY <3>1, <3>2
    <2>8. Adds(x, w, K)
        <3>1. \/ w.pending = z.pending
              \/ \E e : w.pending = Append(z.pending, e) /\ e.kind \in K
            <4>1. \/ w.pending = z.pending
                  \/ w.pending = Append(z.pending, Event("stop_requested")) /\ a.type = "stop"
                  \/ w.pending = Append(z.pending, Event("conversation_lost"))
                BY <2>3, <2>5 DEF Executing
            <4>2. CASE w.pending = Append(z.pending, Event("stop_requested")) /\ a.type = "stop"
                BY <2>4, <4>2 DEF Event, K, Asks
            <4>3. CASE w.pending = Append(z.pending, Event("conversation_lost"))
                BY <4>3 DEF Event, K, Asks
            <4>4. QED
                BY ONLY <4>1, <4>2, <4>3
        <3>2. z.pending \in Seq(P)
            BY <2>2 DEF Adapters
        <3>3. CASE w.pending = z.pending
            BY <2>2, <3>3 DEF Adds
        <3>4. CASE \E e : w.pending = Append(z.pending, e) /\ e.kind \in K
            BY <2>2, <3>2, <3>4, AddsOne
        <3>5. QED
            BY <3>1, <3>3, <3>4
    <2>9. Quiet(x, w) \/ (i = n /\ Sent(w))
        <3>1. CASE ~IsDispatch(a) \/ z.halted
            BY <2>2, <2>5, <3>1 DEF Executing, Quiet
        <3>2. CASE IsDispatch(a) /\ ~z.halted
            <4>1. i = n /\ EndsInDispatch(acts) /\ a = acts[n]
                BY <2>3, <3>2 DEF a
            <4>2. z.cp = s.cp /\ w.cp = s.cp
                BY <2>2, <2>5, <3>2 DEF Executing, IsDispatch
            <4>3. z.conv = x.conv /\ z.outbox = x.outbox
                BY <2>2 DEF Quiet
            <4>4. CASE w.conv = z.conv /\ w.outbox = z.outbox
                BY <4>3, <4>4 DEF Quiet
            <4>5. CASE ~(w.conv = z.conv /\ w.outbox = z.outbox)
                <5>1. /\ CanBeginProfileChange(z.conv)
                      /\ w.conv = BeginProfileChange(z.conv, a.change)
                      /\ \/ w.outbox = z.outbox
                         \/ w.outbox = Append(z.outbox, ChangeCommand(a.change))
                    BY <2>5, <3>2, <4>5 DEF Executing, CanDispatch
                <5>2. QED
                    BY <4>1, <4>2, <4>3, <5>1
            <4>6. QED
                BY <4>4, <4>5
        <3>3. QED
            BY <3>1, <3>2
    <2>10. w \in T[i]
        BY <2>1, <2>5, <2>6, <2>7, <2>8, <2>9
    <2>11. QED
        BY <2>10 DEF w, a
<1> HIDE DEF T
<1>8. EX!Fold(b, acts) \in T[n]
    BY <1>2, <1>6, <1>7, EX!FoldAdvances DEF n
<1>9. y \in Adapters(P) /\ Holds(y) /\ (Quiet(x, y) \/ Sent(y))
    <2>1. n \in 0 .. n
        BY <1>2 DEF n
    <2>2. QED
        BY <1>1, <1>8, <2>1 DEF T, y
<1>10. /\ hwf.confirmed = s.cp.confirmed /\ hwf.stopping = s.cp.stopping
       /\ ~s.cp.inflight.unexecuted => hwf.inflight.change = s.cp.inflight.change
    BY <1>2, WriteFailedFlight DEF hwf
<1>11. /\ y.cp.confirmed = s.cp.confirmed /\ y.cp.stopping = s.cp.stopping
       /\ ~s.cp.inflight.unexecuted => y.cp.inflight.change = s.cp.inflight.change
    BY <1>9, <1>10
<1>12. s.cp.confirmed = c0.confirmed /\ (c0.stopping => s.cp.stopping)
    BY DEF Batches, Kept
<1>13. InFlight(c0) => ~s.cp.inflight.unexecuted /\ s.cp.inflight.change = c0.inflight.change
    <2>1. c0.inflight \in Flights
        BY DEF Settled, ControlPlanes
    <2>2. InFlight(c0) => SameFlight(c0.inflight, s.cp.inflight)
        BY DEF Batches
    <2>3. QED
        BY <2>1, <2>2, CancelledFlight, SettledFlight DEF SameFlight, InFlight
<1>14. Sent(y) => Dispatched(x, y) /\ ~InFlight(c0)
    <2>1. EndsInDispatch(acts) => /\ s.cp.inflight.unexecuted /\ ~s.cp.stopping
                                  /\ acts[n].change = s.cp.inflight.change
        BY DEF Batches, acts, n
    <2>2. s.cp.inflight.unexecuted => s.cp.inflight.change \in Changes
        BY <1>2, FlightTypes
    <2>3. QED
        BY <1>13, <2>1, <2>2 DEF Dispatched
<1>15. Adds(x, y, Asks(y.cp))
    BY <1>9, <1>11 DEF K, Asks
<1>16. QED
    BY <1>9, <1>11, <1>12, <1>13, <1>14, <1>15 DEF Batched, y

(* The kinds of events that the adapter may have for the lifecycle at any   *)
(* time: those of a stop only when the control plane shows it.              *)
Says(y) ==
    {"conversation_lost", "controller_lost"}
    \cup (IF y.cp.stopping THEN {"stop_requested"} ELSE {})
    \cup (IF y.cp.stopping \/ ~y.hasCp THEN {"terminal_interrupt"} ELSE {})

(* What the adapter does of its own, without a word of the helper: it keeps *)
(* the confirmed profile and what is in flight.                             *)
SameStanding(x, y) ==
    y.hasCp = x.hasCp /\ y.activated = x.activated /\ y.conv.state = x.conv.state

Moved(x, y) ==
    /\ SameStanding(x, y)
    /\ y.cp.confirmed = x.cp.confirmed
    /\ x.cp.stopping => y.cp.stopping
    /\ InFlight(x.cp) => y.cp.inflight.change = x.cp.inflight.change /\ Quiet(x, y)
    /\ Quiet(x, y) \/ Dispatched(x, y)
    /\ ~x.hasCp => y.cp = x.cp /\ y.client = x.client
    /\ Adds(x, y, Says(y))

(* The control plane after an event of which the batch comes.               *)
Continues(c, d) ==
    /\ Settled(d) /\ d.confirmed = c.confirmed /\ d.inflight.change = c.inflight.change
    /\ c.stopping => d.stopping

(* More kinds of events may be added than are. *)
LEMMA AddsWider ==
    ASSUME NEW x, NEW y, NEW K, NEW L, K \subseteq L, Adds(x, y, K)
    PROVE  Adds(x, y, L)
BY DEF Adds

(* A flight that is there carries a change. *)
LEMMA FlightOfChange ==
    ASSUME NEW c \in ControlPlanes
    PROVE  InFlight(c) <=> c.inflight.change \in Changes
<1>1. c.inflight \in Flights
    BY DEF ControlPlanes
<1>2. QED
    BY <1>1, FlightTypes DEF InFlight

(* A batch whose control plane continues the one before moves the adapter   *)
(* on.                                                                      *)
LEMMA ContinueMoves ==
    ASSUME NEW P, BatchEvents \subseteq P, NEW x \in Adapters(P), x.hasCp, NEW d,
           Continues(x.cp, d), NEW s \in Batches(d), StopIsShown(s), Len(s.cp.queue) <= QueueLimit
    PROVE  Moved(x, ExecuteActions(x, s))
<1> DEFINE y == ExecuteActions(x, s)
<1>1. Settled(d)
    BY DEF Continues
<1>2. Batched(d, x, y)
    BY <1>1, BatchMoves
<1> HIDE DEF y
<1>3. x.cp \in ControlPlanes /\ d \in ControlPlanes
    BY <1>1 DEF Adapters, Settled
<1>4. InFlight(x.cp) => InFlight(d)
    BY <1>3, FlightOfChange DEF Continues
<1>5. Adds(x, y, Says(y))
    <2>1. Asks(y.cp) \subseteq Says(y)
        BY DEF Asks, Says
    <2>2. QED
        BY <1>2, <2>1, AddsWider DEF Batched
<1>6. QED
    BY <1>2, <1>4, <1>5 DEF Batched, Moved, Continues, SameSession, SameStanding, y

(* The handlers of the control plane continue it: once a dispatch is        *)
(* executed,                                                                *)
LEMMA ExecutedContinues ==
    ASSUME NEW c \in ControlPlanes
    PROVE  Continues(c, Executed(c))
BY ExecutedFacts DEF Continues, OnlyFlightQueue, Kept, Same

(* when a Controller attaches, *)
LEMMA AttachedContinues ==
    ASSUME NEW c \in ControlPlanes, Len(c.queue) <= QueueLimit
    PROVE  LET s == HandleAttached(c)
           IN  /\ Continues(c, s.cp) /\ s \in Batches(s.cp) /\ StopIsShown(s)
               /\ Len(s.cp.queue) <= QueueLimit
<1> DEFINE e == Executed(c)
           d == [e EXCEPT !.gen = @ + 1]
           d2 == [d EXCEPT !.attached = TRUE]
           a == Send(Text("ATTACHED"))
           acts == <<a>>
           s == HandleAttached(c)
<1>1. Continues(c, e) /\ e.queue = c.queue
    BY ExecutedContinues, ExecutedFacts DEF OnlyFlightQueue
<1>2. s = [cp |-> d2, acts |-> acts]
    BY DEF HandleAttached
<1> HIDE DEF e
<1>3. /\ d \in ControlPlanes /\ d.queue = e.queue /\ d.inflight = e.inflight
      /\ d.confirmed = e.confirmed /\ d.stopping = e.stopping
    BY <1>1 DEF Continues, Settled, ControlPlanes
<1> HIDE DEF d
<1>4. /\ d2 \in ControlPlanes /\ d2.queue = d.queue /\ d2.inflight = d.inflight
      /\ d2.confirmed = d.confirmed /\ d2.stopping = d.stopping
    BY <1>3 DEF ControlPlanes
<1> HIDE DEF d2
<1>5. Continues(c, d2) /\ Settled(d2) /\ d2.queue = c.queue
    BY <1>1, <1>3, <1>4 DEF Continues, Settled
<1>6. a \in PlainActions /\ a.type = "send"
    BY ActionTypes, TextTypes DEF Send
<1> HIDE DEF a
<1>7. acts \in Seq(PlainActions) /\ Len(acts) = 1 /\ acts[1] = a
    BY <1>6
<1> HIDE DEF acts, s
<1>8. s \in Batches(d2) /\ s.cp = d2 /\ s.acts = acts
    <2>1. Len(acts) <= 1
        BY <1>7
    <2>2. [cp |-> d2, acts |-> acts] \in Batches(d2)
        BY <1>5, <1>7, <2>1, EmptyBatch
    <2>3. QED
        BY <1>2, <2>2
<1>9. StopIsShown(s)
    <2>1. \A i \in 1 .. Len(acts) : i = 1
        BY <1>7
    <2>2. NoStop(acts)
        BY <1>6, <1>7, <2>1 DEF NoStop
    <2>3. QED
        BY <1>8, <2>2 DEF StopIsShown
<1>10. QED
    BY <1>5, <1>8, <1>9 DEF s

(* Ctrl-C, the end of the Workload, and an unknown profile: the queue is    *)
(* forgotten, and whom to tell.                                             *)
LEMMA SilentBatch ==
    ASSUME NEW d, Settled(d), Len(d.queue) <= QueueLimit
    PROVE  LET s == [cp |-> d, acts |-> <<>>]
           IN  s \in Batches(d) /\ StopIsShown(s) /\ Len(s.cp.queue) <= QueueLimit
<1>1. <<>> \in Seq(PlainActions) /\ Len(<<>>) <= 1 /\ 1 .. Len(<<>>) = {}
    OBVIOUS
<1>2. [cp |-> d, acts |-> <<>>] \in Batches(d)
    BY <1>1, EmptyBatch
<1>3. NoStop(<<>>)
    BY <1>1 DEF NoStop
<1>4. QED
    BY <1>2, <1>3 DEF StopIsShown

(* when a reply is cancelled, *)
LEMMA CancelContinues ==
    ASSUME NEW c, NEW d, Continues(c, d), d.queue = <<>>
    PROVE  LET e == CancelReply(d)
           IN  Continues(c, e) /\ Len(e.queue) <= QueueLimit /\ e.stopping = d.stopping
<1> DEFINE e == CancelReply(d)
<1>1. d \in ControlPlanes /\ ~d.inflight.unexecuted
    BY DEF Continues, Settled
<1>2. /\ OnlyFlightQueue(d, e, e.inflight, d.queue) /\ e.inflight.unexecuted = d.inflight.unexecuted
      /\ e.inflight.change = d.inflight.change /\ e.stopping = d.stopping
    BY <1>1, Cancel
<1> HIDE DEF e
<1>3. QED
    BY <1>1, <1>2, EmptyQueue DEF OnlyFlightQueue, Kept, Continues, Settled, e

(* when a stop begins, *)
LEMMA StoppingContinues ==
    ASSUME NEW c \in ControlPlanes
    PROVE  LET s == HandleStopping(c)
           IN  /\ Continues(c, s.cp) /\ s \in Batches(s.cp) /\ StopIsShown(s)
               /\ Len(s.cp.queue) <= QueueLimit /\ s.cp.stopping
<1> DEFINE e == Executed(c)
           e1 == [e EXCEPT !.stopping = TRUE]
           e2 == [e1 EXCEPT !.queue = <<>>]
           d == CancelReply(e2)
           s == HandleStopping(c)
<1>1. Continues(c, e)
    BY ExecutedContinues
<1>2. s = [cp |-> d, acts |-> <<>>]
    BY DEF HandleStopping
<1> HIDE DEF e
<1>3. Continues(c, e1) /\ e1.stopping
    BY <1>1 DEF Continues, Settled, ControlPlanes
<1> HIDE DEF e1
<1>4. Continues(c, e2) /\ e2.stopping /\ e2.queue = <<>>
    BY <1>3, EmptyQueue DEF Continues, Settled, ControlPlanes
<1> HIDE DEF e2
<1>5. Continues(c, d) /\ Len(d.queue) <= QueueLimit /\ d.stopping
    BY <1>4, CancelContinues
<1> HIDE DEF d
<1>6. QED
    BY <1>2, <1>5, SilentBatch DEF Continues

(* when the Workload has ended, *)
LEMMA TerminalContinues ==
    ASSUME NEW c \in ControlPlanes
    PROVE  LET s == HandleTerminal(c)
           IN  /\ Continues(c, s.cp) /\ s \in Batches(s.cp) /\ StopIsShown(s)
               /\ Len(s.cp.queue) <= QueueLimit
<1> DEFINE e == Executed(c)
           e1 == [e EXCEPT !.terminal = TRUE]
           e2 == [e1 EXCEPT !.queue = <<>>]
           d == CancelReply(e2)
           s == HandleTerminal(c)
<1>1. Continues(c, e)
    BY ExecutedContinues
<1>2. s = [cp |-> d, acts |-> <<>>]
    BY DEF HandleTerminal
<1> HIDE DEF e
<1>3. Continues(c, e1)
    BY <1>1 DEF Continues, Settled, ControlPlanes
<1> HIDE DEF e1
<1>4. Continues(c, e2) /\ e2.queue = <<>>
    BY <1>3, EmptyQueue DEF Continues, Settled, ControlPlanes
<1> HIDE DEF e2
<1>5. Continues(c, d) /\ Len(d.queue) <= QueueLimit
    BY <1>4, CancelContinues
<1> HIDE DEF d
<1>6. QED
    BY <1>2, <1>5, SilentBatch DEF Continues

(* An unknown profile fails the Session, once.                              *)
LEMMA UnknownContinues ==
    ASSUME NEW c \in ControlPlanes, Len(c.queue) <= QueueLimit
    PROVE  LET s == HandleStateUnknown(c)
           IN  /\ Continues(c, s.cp) /\ Len(s.cp.queue) <= QueueLimit
               /\ s.acts \in {<<>>, <<FailSession>>} /\ s = [cp |-> s.cp, acts |-> s.acts]
<1> DEFINE e == Executed(c)
           e1 == [e EXCEPT !.failed = TRUE]
           e2 == [e1 EXCEPT !.queue = <<>>]
           d == CancelReply(e2)
           s == HandleStateUnknown(c)
<1>1. Continues(c, e) /\ e.queue = c.queue
    BY ExecutedContinues, ExecutedFacts DEF OnlyFlightQueue
<1>2. s = IF c.failed THEN [cp |-> e, acts |-> <<>>] ELSE [cp |-> d, acts |-> <<FailSession>>]
    BY DEF HandleStateUnknown, FailSession
<1> HIDE DEF e
<1>3. Continues(c, e1)
    BY <1>1 DEF Continues, Settled, ControlPlanes
<1> HIDE DEF e1
<1>4. Continues(c, e2) /\ e2.queue = <<>>
    BY <1>3, EmptyQueue DEF Continues, Settled, ControlPlanes
<1> HIDE DEF e2
<1>5. Continues(c, d) /\ Len(d.queue) <= QueueLimit
    BY <1>4, CancelContinues
<1> HIDE DEF d, s
<1>6. QED
    BY <1>1, <1>2, <1>5 DEF s

-----------------------------------------------------------------------------
(* The steps of the adapter that are not the helper's word.                 *)
LEMMA PushMoves ==
    ASSUME NEW P, NEW x, NEW y \in Adapters(P), Moved(x, y), NEW k, k \in Says(y),
           [kind |-> k, value |-> 0] \in P
    PROVE  Moved(x, Push(y, k, 0))
<1> DEFINE z == Push(y, k, 0)
           e == [kind |-> k, value |-> 0]
<1>1. /\ SameSession(y, z) /\ z.pending = Append(y.pending, e) /\ z.cp = y.cp /\ z.conv = y.conv
      /\ z.client = y.client /\ z.outbox = y.outbox
    BY PushFacts
<1>2. y.pending \in Seq(P) /\ e.kind = k
    BY DEF Adapters
<1> HIDE DEF z, e
<1>3. Says(z) = Says(y)
    BY <1>1 DEF Says, SameSession
<1>4. Adds(x, z, Says(y))
    <2>1. Adds(x, y, Says(y))
        BY DEF Moved
    <2>2. QED
        BY <1>1, <1>2, <2>1, AddsOne
<1>5. Quiet(x, y) => Quiet(x, z)
    BY <1>1 DEF Quiet
<1>6. Dispatched(x, y) => Dispatched(x, z)
    BY <1>1 DEF Dispatched
<1>7. SameStanding(x, z)
    BY <1>1 DEF Moved, SameSession, SameStanding
<1>8. QED
    BY <1>1, <1>3, <1>4, <1>5, <1>6, <1>7 DEF Moved, z

(* Doing nothing is a move, and two moves are one. *)
LEMMA StaysMoved == ASSUME NEW x PROVE Moved(x, x)
BY AddsNothing DEF Moved, Quiet, SameStanding

LEMMA MovedTwice ==
    ASSUME NEW x, NEW y, NEW z, Moved(x, y), Quiet(x, y), Moved(y, z), Quiet(y, z),
           x.cp \in ControlPlanes, y.cp \in ControlPlanes
    PROVE  Moved(x, z) /\ Quiet(x, z)
<1>1. Quiet(x, z)
    BY DEF Quiet
<1>2. SameStanding(x, z)
    BY DEF Moved, SameStanding
<1>3. Says(y) \subseteq Says(z)
    BY DEF Moved, Says, SameStanding
<1>4. Adds(x, z, Says(z))
    <2>1. Adds(x, y, Says(z))
        BY <1>3, AddsWider DEF Moved
    <2>2. QED
        BY <2>1, AddsMore DEF Moved
<1>5. InFlight(x.cp) => InFlight(y.cp)
    BY FlightOfChange DEF Moved
<1>6. QED
    BY <1>1, <1>2, <1>4, <1>5 DEF Moved, SameStanding

(* The handlers of one ready descriptor are moves. *)
LEMMA AcceptMoves ==
    ASSUME NEW P, BatchEvents \subseteq P, NEW x \in Adapters(P), x.hasCp,
           NEW peer \in {"none", "open", "closed"}
    PROVE  Moved(x, AcceptController(x, peer))
<1> DEFINE z == [x EXCEPT !.client = peer]
           s == HandleAttached(z.cp)
           y == ExecuteActions(z, s)
<1>1. /\ z \in Adapters(P) /\ z.pending = x.pending /\ z.cp = x.cp /\ z.conv = x.conv
      /\ z.outbox = x.outbox /\ z.hasCp /\ SameSession(x, z)
    BY DEF Adapters, SameSession
<1>2. AcceptController(x, peer) =
          IF x.client # "none" THEN x
          ELSE ExecuteActions(z, HandleAttached(x.cp))
    BY DEF AcceptController
<1> HIDE DEF z
<1>3. z.cp \in ControlPlanes /\ Len(z.cp.queue) <= QueueLimit
    BY <1>1 DEF Adapters
<1>4. /\ Continues(z.cp, s.cp) /\ s \in Batches(s.cp) /\ StopIsShown(s)
      /\ Len(s.cp.queue) <= QueueLimit
    BY <1>3, AttachedContinues
<1> HIDE DEF s
<1>5. Moved(z, y)
    BY <1>1, <1>4, ContinueMoves
<1> HIDE DEF y
<1>6. Moved(x, y)
    <2>1. Quiet(z, y) => Quiet(x, y)
        BY <1>1 DEF Quiet
    <2>2. Dispatched(z, y) => Dispatched(x, y)
        BY <1>1 DEF Dispatched
    <2>3. Adds(z, y, Says(y)) => Adds(x, y, Says(y))
        BY <1>1 DEF Adds
    <2>4. SameStanding(z, y) => SameStanding(x, y)
        BY <1>1 DEF SameStanding, SameSession
    <2>5. QED
        BY <1>1, <1>5, <2>1, <2>2, <2>3, <2>4 DEF Moved
<1>7. QED
    BY <1>1, <1>2, <1>6, StaysMoved DEF y, s

LEMMA BytesMove ==
    ASSUME NEW P, BatchEvents \subseteq P, NEW x \in Adapters(P), x.hasCp,
           NEW ls \in Seq(ControllerLines)
    PROVE  Moved(x, ControllerBytes(x, ls))
<1> DEFINE c == x.cp
           s == HandleBytes(c, ls)
           d == Executed(c)
<1>1. c \in ControlPlanes /\ Len(c.queue) <= QueueLimit
    BY DEF Adapters
<1>2. ControllerBytes(x, ls) = ExecuteActions(x, s)
    BY DEF ControllerBytes
<1>3. s \in Batches(d) /\ Len(s.cp.queue) <= QueueLimit /\ StopIsShown(s)
    BY <1>1, HandleBytesFacts, HandleBytesShows
<1>4. Continues(x.cp, d)
    BY <1>1, ExecutedContinues
<1> HIDE DEF s, d, c
<1>5. QED
    BY <1>2, <1>3, <1>4, ContinueMoves

LEMMA GoneMoves ==
    ASSUME NEW P, PlainEvents \subseteq P, NEW x \in Adapters(P), x.hasCp
    PROVE  Moved(x, ControllerGone(x))
<1> DEFINE c == x.cp
           e == Executed(c)
           d == DisconnectController(e)
           z1 == [x EXCEPT !.cp = d]
           z == [z1 EXCEPT !.client = "none"]
<1>1. c \in ControlPlanes
    BY DEF Adapters
<1>2. Continues(c, e)
    BY <1>1, ExecutedContinues
<1>3. HandleDisconnected(c).cp = d
    BY DEF HandleDisconnected
<1>4. z = [x EXCEPT !.cp = HandleDisconnected(@).cp, !.client = "none"]
    BY <1>3
<1> HIDE DEF e
<1>5. e \in ControlPlanes
    BY <1>2 DEF Continues, Settled
<1>6. /\ d \in ControlPlanes /\ d.queue = <<>> /\ d.confirmed = c.confirmed
      /\ d.inflight.change = c.inflight.change /\ (c.stopping => d.stopping)
    BY <1>2, <1>5, Disconnected DEF Continues, OnlyFlightQueue, Kept
<1> HIDE DEF d, c
<1>7. /\ z1 \in Adapters(P) /\ SameSession(x, z1) /\ z1.cp = d /\ z1.conv = x.conv
      /\ z1.outbox = x.outbox /\ z1.pending = x.pending
    BY <1>6, EmptyQueue DEF Adapters, SameSession
<1> HIDE DEF z1
<1>8. /\ z \in Adapters(P) /\ SameSession(x, z) /\ z.cp = d /\ z.conv = x.conv
      /\ z.outbox = x.outbox /\ z.pending = x.pending
    BY <1>7 DEF Adapters, SameSession
<1>9. ControllerGone(x) = Push(z, "controller_lost", 0)
    BY <1>4 DEF ControllerGone
<1> HIDE DEF z
<1>10. Moved(x, z)
    BY <1>6, <1>8, AddsNothing DEF Moved, Quiet, SameSession, SameStanding, c
<1>11. "controller_lost" \in Says(z) /\ [kind |-> "controller_lost", value |-> 0] \in P
    BY DEF Says, PlainEvents, Event
<1>12. QED
    BY <1>8, <1>9, <1>10, <1>11, PushMoves

(* So are the markers of Ctrl-C, one by one and all together. *)
LEMMA InterruptMoves ==
    ASSUME NEW P, PlainEvents \subseteq P, BatchEvents \subseteq P, NEW r \in Adapters(P), NEW i
    PROVE  Moved(r, InterruptNext(r, i)) /\ Quiet(r, InterruptNext(r, i))
<1> DEFINE z == IF r.hasCp THEN ExecuteActions(r, HandleStopping(r.cp)) ELSE r
           y == Push(z, "terminal_interrupt", 0)
<1>1. [kind |-> "terminal_interrupt", value |-> 0] \in P
    BY DEF PlainEvents, Event
<1>2. z \in Adapters(P) /\ Moved(r, z) /\ (r.hasCp => z.cp.stopping) /\ Quiet(r, z)
    <2>1. CASE r.hasCp
        <3> DEFINE s == HandleStopping(r.cp)
                   w == ExecuteActions(r, s)
                   d == s.cp
        <3>1. r.cp \in ControlPlanes
            BY DEF Adapters
        <3>2. /\ Continues(r.cp, d) /\ s \in Batches(d) /\ StopIsShown(s)
              /\ Len(s.cp.queue) <= QueueLimit /\ d.stopping /\ Settled(d)
            BY <3>1, StoppingContinues DEF Continues
        <3>3. s.acts = <<>> /\ s.cp = d
            BY DEF HandleStopping
        <3> HIDE DEF s, d
        <3>4. Moved(r, w) /\ Batched(d, r, w)
            BY <2>1, <3>2, ContinueMoves, BatchMoves
        <3>5. w.cp.stopping
            BY <3>2, <3>4 DEF Batched
        <3>6. w = [[r EXCEPT !.cp = d] EXCEPT !.halted = FALSE]
            <4>1. w = EX!Fold([[r EXCEPT !.cp = d] EXCEPT !.halted = FALSE], <<>>)
                BY <3>3 DEF ExecuteActions, FoldLeft, MapThenFoldSet, EX!Fold, EX!Largest, Max
            <4> DEFINE b == [[r EXCEPT !.cp = d] EXCEPT !.halted = FALSE]
            <4> HIDE DEF w, b
            <4>2. <<>> \in Seq({}) /\ 1 .. Len(<<>>) = {} /\ b \in {b}
                OBVIOUS
            <4>3. EX!Fold(b, <<>>) \in {b}
                BY <4>2, EX!FoldStaysIn
            <4>4. QED
                BY <4>1, <4>3 DEF b
        <3>7. w \in Adapters(P)
            <4>1. d \in ControlPlanes /\ Len(d.queue) <= QueueLimit
                BY <3>2, <3>3 DEF Settled
            <4>2. [r EXCEPT !.cp = d] \in Adapters(P)
                BY <4>1 DEF Adapters
            <4>3. QED
                BY <3>6, <4>2 DEF Adapters
        <3>8. Quiet(r, w)
            BY <3>5, <3>4 DEF Moved, Dispatched
        <3> HIDE DEF w
        <3>9. z = w
            BY <2>1 DEF w, s
        <3>10. QED
            BY <3>4, <3>5, <3>7, <3>8, <3>9
    <2>2. CASE ~r.hasCp
        BY <2>2, StaysMoved DEF Quiet
    <2>3. QED
        BY <2>1, <2>2
<1>3. InterruptNext(r, i) = y
    BY DEF InterruptNext
<1> HIDE DEF z
<1>4. "terminal_interrupt" \in Says(z)
    BY <1>2 DEF Says, Moved, SameStanding
<1>5. Moved(r, y)
    BY <1>1, <1>2, <1>4, PushMoves
<1>6. Quiet(r, y)
    BY <1>1, <1>2, PushFacts DEF Quiet
<1>7. QED
    BY <1>3, <1>5, <1>6

LEMMA InterruptsMove ==
    ASSUME NEW P, NEW recorded, NEW underWay, NEW x, NEW count,
           Setting(P, recorded, underWay), x \in GoodAndLate(P, recorded, underWay), count \in Nat
    PROVE  LET y == TakeInterrupts(x, count)
           IN  Moved(x, y) /\ Quiet(x, y)
<1> DEFINE q == [i \in 1 .. count |-> i]
           G == GoodAndLate(P, recorded, underWay)
           T == {r \in G : Moved(x, r) /\ Quiet(x, r)}
<1>1. CASE x.finished
    BY <1>1, StaysMoved DEF TakeInterrupts, Quiet
<1>2. CASE ~x.finished
    <2>1. TakeInterrupts(x, count) = TI!Fold(x, q)
        BY <1>2 DEF TakeInterrupts, InterruptNext, FoldLeft, MapThenFoldSet, TI!Fold,
                    TI!Largest, Max
    <2>2. q \in Seq(Nat)
        OBVIOUS
    <2> HIDE DEF q
    <2>3. PlainEvents \subseteq P /\ BatchEvents \subseteq P
        BY SettingFacts DEF Setting
    <2>4. \A r \in G : r \in Adapters(P) /\ r.cp \in ControlPlanes
        BY DEF GoodAndLate, GoodAdapters, Adapters
    <2>5. ASSUME NEW i \in 1 .. Len(q), NEW r \in T PROVE InterruptNext(r, q[i]) \in T
        <3> DEFINE y == InterruptNext(r, q[i])
        <3>1. y \in G
            BY InterruptKeeps
        <3>2. Moved(r, y) /\ Quiet(r, y)
            BY <2>3, <2>4, InterruptMoves
        <3> HIDE DEF y
        <3>3. Moved(x, y) /\ Quiet(x, y)
            BY <2>4, <3>2, MovedTwice
        <3>4. QED
            BY <3>1, <3>3 DEF y
    <2>6. x \in T
        BY StaysMoved DEF Quiet
    <2> HIDE DEF T
    <2>7. TI!Fold(x, q) \in T
        BY <2>2, <2>5, <2>6, TI!FoldStaysIn
    <2>8. QED
        BY <2>1, <2>7 DEF T
<1>3. QED
    BY <1>1, <1>2

-----------------------------------------------------------------------------
(* The inductive invariant: where a Profile Change is. *)
HasChange(cmds) == \E i \in 1 .. Len(cmds) : cmds[i].change # NoChange
LeadsWith(cmds, c) ==
    \A i \in 1 .. Len(cmds) : cmds[i].change # NoChange => i = 1 /\ cmds[i].change = c
IsReply(f) == f.type \in Replies
HasReply(fs) == \E i \in 1 .. Len(fs) : IsReply(fs[i])
OneReply(fs) == \A i, j \in 1 .. Len(fs) : IsReply(fs[i]) /\ IsReply(fs[j]) => i = j

Launched == work # "none"

(* What an event that waits for the lifecycle means. *)
Means(x, launched, e) ==
    /\ e.kind = "stop_requested" => x.cp.stopping
    /\ e.kind = "terminal_interrupt" => x.cp.stopping \/ ~x.hasCp
    /\ e.kind = "profile_state_unknown" => x.hasCp /\ x.conv.state # "active"
    /\ e.kind = "activated" => x.hasCp /\ launched

(* The conversation, the control plane and the pending events of the        *)
(* adapter: there is a control plane once the helper has said ACTIVE, and   *)
(* the change the conversation waits for is the one in flight.              *)
Linked(x, launched) ==
    /\ Early(x.conv) => ~x.hasCp
    /\ x.conv.state \in {"active", "profile_state_unknown"} => x.hasCp /\ launched
    /\ ~x.hasCp => x.cp = ControlPlaneInit /\ x.client = "none" /\ ~x.activated
    /\ x.conv.pending # NoChange =>
          x.conv.state = "active" /\ x.cp.inflight.change = x.conv.pending
    /\ \A i \in 1 .. Len(x.pending) : Means(x, launched, x.pending[i])

(* The profile shown against the profile p in force. *)
Balanced(cp, p) ==
    IF InFlight(cp) THEN p \in {cp.confirmed, ApplyProfileChange(cp.confirmed, cp.inflight.change)}
                    ELSE p = cp.confirmed

Underway == HasChange(commands) \/ HasChange(todo) \/ HasReply(frames)

(* The way to the helper and back.  A change leads the commands it is with: *)
(* it is written only when nothing is unread, which is why stops never      *)
(* precede it.  Until it is carried out the profile is the confirmed one;   *)
(* its reply says which of the two it has become.                           *)
ChannelInv ==
    /\ LeadsWith(commands, ad.cp.inflight.change) /\ LeadsWith(todo, ad.cp.inflight.change)
    /\ OneReply(frames)
    /\ HasReply(frames) => InFlight(ad.cp) /\ ~HasChange(commands) /\ ~HasChange(todo)
    /\ HasChange(commands) => ~HasChange(todo)
    /\ Underway /\ ad.conv.state = "active" => ad.conv.pending # NoChange
    /\ HasChange(commands) \/ HasChange(todo) => profile = ad.cp.confirmed
    /\ \A i \in 1 .. Len(frames) : IsReply(frames[i]) =>
          profile = IF frames[i].type = "PROFILE_OK"
                      THEN ApplyProfileChange(ad.cp.confirmed, ad.cp.inflight.change)
                      ELSE ad.cp.confirmed

(* Before the Workload is launched only the START block is on its way; what *)
(* is written later without a change is a stop the lifecycle has asked for. *)
Starting == {"send_ready", "read_start", "exited", "dead"}
StartInv ==
    /\ ~Launched => commands \in {<<>>, <<StartBlock>>}
    /\ ~Launched /\ helper \notin Starting => commands = <<>>
    /\ Launched => \A i \in 1 .. Len(commands) :
          commands[i].change = NoChange => commands[i] # StartBlock /\ stops # <<>>
    /\ lc = "begin" => commands = <<>> /\ helper \in Starting /\ ~Launched
    /\ lc = "active" => ad.hasCp /\ Launched
    /\ \A i \in 1 .. Len(frames) : frames[i].type = "ACTIVE" => Launched

(* The helper's own conversation: valid, and pending only for the change it *)
(* is about to carry out.                                                   *)
Runtimes ==
    [valid : BOOLEAN, pending : Changes \cup {NoChange}, stopping : BOOLEAN, unknown : BOOLEAN,
     finished : BOOLEAN]
RuntimeInv ==
    /\ runtime \in Runtimes /\ runtime.valid
    /\ runtime.finished => helper \in {"cleanup", "report_cleanup", "exit", "exited", "dead"}
    /\ helper \notin {"commands", "dead"} => todo = <<>>
    /\ runtime.pending # NoChange => todo # <<>> /\ todo[1].change = runtime.pending
    /\ HasChange(commands) => ~runtime.stopping
    /\ runtime.stopping => stops # <<>>
    /\ helper = "report_failed" => report.type = "START_FAILED"

(* Once the lifecycle stops the Session, no change is dispatched any more.  *)
StopsInv ==
    stopStage # "none" \/ stops # <<>> =>
        ad.hasCp /\ (ad.cp.stopping \/ ad.conv.state # "active")

(* A cycle starts with no event pending and leaves no command unwritten.    *)
CycleInv == ("helper" \in ready => ad.pending = <<>>) /\ ad.outbox = <<>>

ChangeInvariant ==
    /\ Linked(ad, Launched) /\ Balanced(ad.cp, profile) /\ ChannelInv /\ StartInv /\ RuntimeInv
    /\ StopsInv /\ CycleInv

-----------------------------------------------------------------------------
(* The steps of the adapter by itself. *)
LEMMA LinkedMoves ==
    ASSUME NEW x, NEW y, NEW L, Linked(x, L), Moved(x, y), x.conv \in Conversations,
           x.cp \in ControlPlanes
    PROVE  Linked(y, L)
<1>1. SameStanding(x, y) /\ (Quiet(x, y) \/ (Dispatched(x, y) /\ ~InFlight(x.cp)))
    <2>1. Dispatched(x, y) => ~Quiet(x, y)
        BY NoChangeAssumption DEF Dispatched, Quiet, CanBeginProfileChange, BeginProfileChange,
                                  Conversations
    <2>2. QED
        BY <2>1 DEF Moved
<1>2. y.conv.pending # NoChange =>
         y.conv.state = "active" /\ y.cp.inflight.change = y.conv.pending
    <2>1. CASE Quiet(x, y)
        <3>1. x.conv.pending # NoChange => x.conv.pending \in Changes
            BY DEF Conversations
        <3>2. x.conv.pending # NoChange => InFlight(x.cp)
            BY <3>1, FlightOfChange DEF Linked
        <3>3. QED
            BY <2>1, <3>2 DEF Quiet, Moved, Linked
    <2>2. CASE Dispatched(x, y)
        BY <2>2 DEF Dispatched, CanBeginProfileChange, BeginProfileChange, Conversations
    <2>3. QED
        BY <1>1, <2>1, <2>2
<1>3. ASSUME NEW i \in 1 .. Len(y.pending) PROVE Means(y, L, y.pending[i])
    <2>1. CASE y.pending[i].kind \in Says(y)
        BY <2>1 DEF Says, Means
    <2>2. CASE \E j \in 1 .. Len(x.pending) : y.pending[i] = x.pending[j]
        <3>1. Means(x, L, y.pending[i])
            BY <2>2 DEF Linked
        <3>2. QED
            BY <1>1, <3>1 DEF Means, Moved, SameStanding
    <2>3. QED
        BY <2>1, <2>2 DEF Moved, Adds
<1>4. ~y.hasCp => y.cp = ControlPlaneInit /\ y.client = "none" /\ ~y.activated
    BY <1>1 DEF Linked, Moved, SameStanding
<1>5. QED
    BY <1>1, <1>2, <1>3, <1>4 DEF Linked, SameStanding, Early

LEMMA LinkedFields ==
    ASSUME NEW x, NEW y, NEW L, Linked(x, L), y.cp = x.cp, y.hasCp = x.hasCp, y.conv = x.conv,
           y.client = x.client, y.activated = x.activated, y.pending = x.pending
    PROVE  Linked(y, L)
BY DEF Linked, Means

(* and the shown profile, because it confirms nothing. *)
LEMMA BalancedMoves ==
    ASSUME NEW x, NEW y, NEW p, Balanced(x.cp, p), Moved(x, y), x.cp \in ControlPlanes,
           y.cp \in ControlPlanes
    PROVE  Balanced(y.cp, p)
<1>1. InFlight(x.cp) => InFlight(y.cp)
    BY FlightOfChange DEF Moved
<1>2. QED
    BY <1>1 DEF Balanced, Moved

(* Without a change in flight there is none on its way. *)
LEMMA NothingUnderway ==
    ASSUME ChannelInv, ~InFlight(ad.cp)
    PROVE  ~HasChange(commands) /\ ~HasChange(todo) /\ ~HasReply(frames)
BY DEF ChannelInv, InFlight, NoFlight, HasChange, LeadsWith

(* Nothing was on its way to the helper that it would have to refuse a      *)
(* change for.                                                              *)
LEMMA FreeToDispatch ==
    ASSUME ChangeInvariant, ~HasChange(commands), ad.conv.state = "active", ~ad.cp.stopping,
           commands \in Seq(HelperCommands)
    PROVE  commands = <<>> /\ Launched /\ ~runtime.stopping
<1>1. Launched /\ stops = <<>>
    BY DEF ChangeInvariant, Linked, StopsInv
<1>3. \A i \in 1 .. Len(commands) : FALSE
    BY <1>1 DEF ChangeInvariant, StartInv, HasChange
<1>4. QED
    BY <1>1, <1>3 DEF ChangeInvariant, RuntimeInv

(* A move without a dispatch leaves the channel as it is; *)
LEMMA QuietChannel ==
    ASSUME ChannelInv, NEW y, ad.cp \in ControlPlanes, y.cp \in ControlPlanes, Moved(ad, y),
           Quiet(ad, y), ad'.cp = y.cp, ad'.conv = y.conv,
           UNCHANGED <<commands, todo, frames, profile>>
    PROVE  ChannelInv'
<1>1. /\ InFlight(ad.cp) => InFlight(ad'.cp) /\ ad'.cp.inflight.change = ad.cp.inflight.change
      /\ ad'.cp.confirmed = ad.cp.confirmed /\ ad'.conv = ad.conv
    BY FlightOfChange DEF Moved, Quiet
<1>2. InFlight(ad.cp) \/ (~HasChange(commands) /\ ~HasChange(todo) /\ ~HasReply(frames))
    BY NothingUnderway
<1>3. CASE InFlight(ad.cp)
    BY <1>1, <1>3 DEF ChannelInv, Underway
<1>4. CASE ~HasChange(commands) /\ ~HasChange(todo) /\ ~HasReply(frames)
    <2>1. \A c : LeadsWith(commands, c) /\ LeadsWith(todo, c)
        BY <1>4 DEF HasChange, LeadsWith
    <2>2. \A i \in 1 .. Len(frames) : ~IsReply(frames[i])
        BY <1>4 DEF HasReply
    <2>3. OneReply(frames)
        BY <2>2 DEF OneReply
    <2>4. QED
        BY <1>4, <2>1, <2>2, <2>3 DEF ChannelInv, Underway
<1>5. QED
    BY <1>2, <1>3, <1>4

(* one with a dispatch writes to a socket that holds nothing. *)
LEMMA DispatchChannel ==
    ASSUME ChannelInv, NEW c \in Changes, ~InFlight(ad.cp), Balanced(ad.cp, profile),
           commands = <<>>, ad'.cp.inflight.change = c, ad'.cp.confirmed = ad.cp.confirmed,
           ad'.conv.pending = c, commands' \in {<<>>, <<ChangeCommand(c)>>},
           UNCHANGED <<todo, frames, profile>>
    PROVE  ChannelInv'
<1>1. ~HasChange(todo) /\ ~HasReply(frames)
    BY NothingUnderway
<1>2. \A d : LeadsWith(todo, d)
    BY <1>1 DEF HasChange, LeadsWith
<1>3. \A i \in 1 .. Len(frames) : ~IsReply(frames[i])
    BY <1>1 DEF HasReply
<1>4. OneReply(frames)
    BY <1>3 DEF OneReply
<1>5. LeadsWith(commands', c)
    <2>1. Len(<<>>) = 0 /\ Len(<<ChangeCommand(c)>>) = 1
          /\ <<ChangeCommand(c)>>[1].change = c
        BY DEF ChangeCommand
    <2>2. \A i \in 1 .. 1 : i = 1
        OBVIOUS
    <2>3. \A i \in 1 .. 0 : FALSE
        OBVIOUS
    <2>4. QED
        BY <2>1, <2>2, <2>3 DEF LeadsWith
<1>6. profile = ad.cp.confirmed
    BY DEF Balanced
<1>7. c # NoChange
    BY NoChangeAssumption
<1>8. QED
    BY <1>1, <1>2, <1>3, <1>4, <1>5, <1>6, <1>7 DEF ChannelInv, Underway

(* An adapter step of the Supervisor that is a move keeps the invariant. *)
LEMMA AdapterStep ==
    ASSUME SessionInv, ChangeInvariant, NEW y \in Adapters(TrueEvents), Moved(ad, y),
           ad'.cp = y.cp, ad'.conv = y.conv, ad'.hasCp = y.hasCp, ad'.client = y.client,
           ad'.activated = y.activated, ad'.pending = y.pending, ad'.outbox = <<>>,
           commands' = commands \o y.outbox, UNCHANGED <<frames, helperVars, workVars, lcVars>>,
           "helper" \notin ready', lc \in States
    PROVE  ChangeInvariant'
<1> USE DEF helperVars, workVars, lcVars
<1>1. /\ ad \in Adapters(TrueEvents) /\ ad.cp \in ControlPlanes /\ y.cp \in ControlPlanes
      /\ ad.conv \in Conversations /\ commands \in Seq(HelperCommands)
      /\ ad.outbox = <<>> /\ Launched' = Launched
    BY DEF SessionInv, AdapterInv, GoodAndLate, GoodAdapters, Adapters, MessageInv,
           ChangeInvariant, CycleInv, Launched
<1>2. Linked(ad', Launched)
    <2>1. Linked(y, Launched)
        BY <1>1, LinkedMoves DEF ChangeInvariant
    <2>2. QED
        BY <2>1, LinkedFields
<1>3. Balanced(ad'.cp, profile)
    BY <1>1, BalancedMoves DEF ChangeInvariant
<1>4. /\ StopsInv' /\ CycleInv' /\ (lc = "active" => ad'.hasCp)
    BY DEF ChangeInvariant, StopsInv, CycleInv, Moved, SameStanding, StartInv
<1>5. ChannelInv' /\ StartInv' /\ RuntimeInv'
    <2>1. CASE Quiet(ad, y)
        <3>1. commands' = commands
            <4>1. commands \o <<>> = commands
                BY <1>1
            <4>2. QED
                BY <1>1, <2>1, <4>1 DEF Quiet
        <3>2. ChannelInv'
            BY <1>1, <2>1, <3>1, QuietChannel DEF ChangeInvariant
        <3>3. StartInv' /\ RuntimeInv'
            BY <1>1, <1>4, <3>1 DEF ChangeInvariant, StartInv, RuntimeInv
        <3>4. QED
            BY <3>2, <3>3
    <2>2. CASE ~Quiet(ad, y)
        <3> DEFINE c == y.cp.inflight.change
        <3>1. Dispatched(ad, y) /\ ~InFlight(ad.cp) /\ c \in Changes
            BY <2>2 DEF Moved, Dispatched
        <3>2. ad.conv.state = "active" /\ ~ad.cp.stopping
            BY <3>1 DEF Dispatched, CanBeginProfileChange, Moved
        <3>3. commands = <<>> /\ Launched /\ ~runtime.stopping
            <4>1. ~HasChange(commands)
                BY <3>1, NothingUnderway DEF ChangeInvariant
            <4>2. QED
                BY <1>1, <3>1, <3>2, <4>1, FreeToDispatch
        <3>4. commands' \in {<<>>, <<ChangeCommand(c)>>}
            <4>1. y.outbox \in {<<>>, Append(<<>>, ChangeCommand(c))}
                BY <1>1, <3>1 DEF Dispatched
            <4>2. <<>> \o <<>> = <<>> /\ Append(<<>>, ChangeCommand(c)) = <<ChangeCommand(c)>>
                  /\ <<>> \o <<ChangeCommand(c)>> = <<ChangeCommand(c)>>
                OBVIOUS
            <4>3. QED
                BY <3>3, <4>1, <4>2
        <3>5. ad'.conv.pending = c
            BY <1>1, <3>1 DEF Dispatched, BeginProfileChange, Conversations
        <3>6. ChannelInv'
            BY <3>1, <3>3, <3>4, <3>5, DispatchChannel DEF ChangeInvariant, Moved
        <3>7. \A i \in 1 .. Len(commands') : commands'[i].change # NoChange
            <4>1. \A i \in 1 .. Len(<<ChangeCommand(c)>>) : <<ChangeCommand(c)>>[i].change = c
                BY DEF ChangeCommand
            <4>2. \A i \in 1 .. Len(<<>>) : FALSE
                OBVIOUS
            <4>3. QED
                BY <3>1, <3>4, <4>1, <4>2, NoChangeAssumption
        <3>8. StartInv'
            BY <1>1, <1>4, <3>3, <3>7 DEF ChangeInvariant, StartInv, States
        <3>9. RuntimeInv'
            BY <1>1, <3>3 DEF ChangeInvariant, RuntimeInv
        <3>10. QED
            BY <3>6, <3>8, <3>9
    <2>3. QED
        BY <2>1, <2>2
<1>6. QED
    BY <1>1, <1>2, <1>3, <1>4, <1>5 DEF ChangeInvariant

(* The helper's descriptor is handled before all others of its cycle. *)
LEMMA TurnOrder ==
    ASSUME NEW r \in {"helper_err", "signals", "listener", "client_in", "client_hup"}, Turn(r)
    PROVE  "helper" \notin ready /\ lc \in States
<1> DEFINE order == <<"helper", "helper_err", "signals", "listener", "client_in", "client_hup">>
<1>1. \A i, j \in 1 .. 6 : order[i] = r /\ j < i => order[j] \notin ready
    BY DEF Turn
<1>2. PICK i \in 2 .. 6 : order[i] = r
    <2>1. /\ order[2] = "helper_err" /\ order[3] = "signals" /\ order[4] = "listener"
          /\ order[5] = "client_in" /\ order[6] = "client_hup"
        OBVIOUS
    <2> HIDE DEF order
    <2>2. 2 \in 2 .. 6 /\ 3 \in 2 .. 6 /\ 4 \in 2 .. 6 /\ 5 \in 2 .. 6 /\ 6 \in 2 .. 6
        OBVIOUS
    <2>3. QED
        BY <2>1, <2>2
<1>3. order[1] = "helper"
    OBVIOUS
<1> HIDE DEF order
<1>4. i \in 1 .. 6 /\ 1 \in 1 .. 6 /\ 1 < i
    BY <1>2
<1>5. "helper" \notin ready
    BY <1>1, <1>2, <1>3, <1>4
<1>6. QED
    BY <1>5 DEF Turn

(* The fields that the invariant is about. *)
SameFields(x, y) ==
    /\ y.cp = x.cp /\ y.conv = x.conv /\ y.hasCp = x.hasCp /\ y.client = x.client
    /\ y.activated = x.activated /\ y.pending = x.pending

(* What Install keeps of the adapter, and what Now does. *)
LEMMA InstallFields ==
    ASSUME NEW P, NEW x \in Adapters(P), NEW asked, Install(x, asked)
    PROVE  SameFields(x, ad') /\ ad'.outbox = <<>> /\ commands' = commands \o x.outbox
<1> DEFINE y1 == [x EXCEPT !.outbox = <<>>]
           y2 == [y1 EXCEPT !.texts = <<>>]
           y3 == [y2 EXCEPT !.halted = FALSE]
           y4 == [y3 EXCEPT !.helperOpen = TRUE]
           y5 == [y4 EXCEPT !.socketFails = FALSE]
           Like(y) == y \in Adapters(P) /\ SameFields(x, y) /\ y.outbox = <<>>
<1>2. ad' = y5 /\ commands' = commands \o x.outbox
    BY DEF Install
<1>13. <<>> \in Seq({ChangeCommand(c) : c \in Changes}) /\ <<>> \in Seq(Texts)
    OBVIOUS
<1>3. Like(y1)
    BY <1>13 DEF Adapters, SameFields
<1> HIDE DEF y1
<1>4. Like(y2)
    BY <1>3, <1>13 DEF Adapters, SameFields
<1> HIDE DEF y2
<1>5. Like(y3)
    BY <1>4 DEF Adapters, SameFields
<1> HIDE DEF y3
<1>6. Like(y4)
    BY <1>5 DEF Adapters, SameFields
<1> HIDE DEF y4
<1>7. Like(y5)
    BY <1>6 DEF Adapters, SameFields
<1> HIDE DEF y5
<1>8. QED
    BY <1>2, <1>7

LEMMA NowFields ==
    ASSUME NEW P, ad \in Adapters(P), NEW fails \in BOOLEAN
    PROVE  SameFields(ad, Now(fails)) /\ Now(fails).outbox = ad.outbox
<1> DEFINE y1 == [ad EXCEPT !.helperOpen = helperOpen]
           y == [y1 EXCEPT !.socketFails = fails]
<1>1. Now(fails) = y
    BY DEF Now
<1>2. /\ SameFields(ad, y1) /\ y1.outbox = ad.outbox
      /\ y1 = [f \in DOMAIN ad |-> IF f = "helperOpen" THEN helperOpen ELSE ad[f]]
      /\ DOMAIN y1 = DOMAIN ad
    BY DEF Adapters, SameFields
<1> HIDE DEF y1
<1>3. SameFields(y1, y) /\ y.outbox = y1.outbox
    BY <1>2 DEF Adapters, SameFields
<1> HIDE DEF y
<1>4. QED
    BY <1>1, <1>2, <1>3 DEF SameFields

(* Moves from equal adapters to equal adapters. *)
LEMMA MovedFrom ==
    ASSUME NEW x, NEW y, SameFields(ad, x), x.outbox = ad.outbox, Moved(x, y)
    PROVE  Moved(ad, y)
<1>1. Quiet(x, y) => Quiet(ad, y)
    BY DEF Quiet, SameFields
<1>2. Dispatched(x, y) => Dispatched(ad, y)
    BY DEF Dispatched, SameFields
<1>3. Adds(x, y, Says(y)) => Adds(ad, y, Says(y))
    BY DEF Adds, SameFields
<1>4. SameStanding(x, y) => SameStanding(ad, y)
    BY DEF SameStanding, SameFields
<1>5. QED
    BY <1>1, <1>2, <1>3, <1>4 DEF Moved, SameFields

(* A step of the adapter that is installed, and one that only has an event. *)
LEMMA InstallStep ==
    ASSUME SessionInv, ChangeInvariant, NEW y \in Adapters(TrueEvents), NEW asked,
           Moved(Now(FALSE), y), Install(y, asked),
           UNCHANGED <<frames, helperVars, workVars, lcVars>>, "helper" \notin ready',
           lc \in States
    PROVE  ChangeInvariant'
<1> DEFINE P == TrueEvents
<1>1. ad \in Adapters(P)
    BY DEF SessionInv, AdapterInv, GoodAndLate, GoodAdapters
<1> HIDE DEF P
<1>2. Moved(ad, y)
    BY <1>1, NowFields, MovedFrom
<1>3. SameFields(y, ad') /\ ad'.outbox = <<>> /\ commands' = commands \o y.outbox
    BY InstallFields
<1>4. QED
    BY <1>2, <1>3, AdapterStep DEF SameFields

LEMMA EventStep ==
    ASSUME SessionInv, ChangeInvariant, ad' = Push(ad, "conversation_lost", 0),
           UNCHANGED <<commands, frames, helperVars, workVars, lcVars>>, "helper" \notin ready',
           lc \in States
    PROVE  ChangeInvariant'
<1> DEFINE P == TrueEvents
           y == Push(ad, "conversation_lost", 0)
<1>1. ad \in Adapters(P) /\ commands \in Seq(HelperCommands) /\ ad.outbox = <<>>
    BY DEF SessionInv, AdapterInv, GoodAndLate, GoodAdapters, MessageInv, ChangeInvariant, CycleInv
<1>2. [kind |-> "conversation_lost", value |-> 0] \in P
    BY TrueSetting, SettingFacts
<1>3. "conversation_lost" \in Says(ad)
    BY DEF Says
<1> HIDE DEF P
<1>4. y \in Adapters(P) /\ y.outbox = <<>>
    BY <1>1, <1>2, PushFacts
<1>7. Moved(ad, y)
    <2>1. Moved(ad, ad)
        BY StaysMoved
    <2>2. ad \in Adapters(P)
        BY <1>1
    <2>3. QED
        BY ONLY <1>2, <1>3, <2>1, <2>2, PushMoves DEF y
<1> HIDE DEF y
<1>5. commands' = commands \o y.outbox
    <2>1. commands \o <<>> = commands
        BY <1>1
    <2>2. QED
        BY <1>4, <2>1
<1>6. QED
    BY <1>4, <1>5, <1>7, AdapterStep DEF P, y

LEMMA MovingSteps ==
    ASSUME SessionInv, ChangeInvariant,
           HelperError \/ ReadSignals \/ Accept \/ ReadClient \/ ReadClientEnd
    PROVE  ChangeInvariant'
<1> DEFINE P == TrueEvents
           x == Now(FALSE)
           G == GoodAndLate(TrueEvents, Has("profile_state"), UnderWay)
<1>1. HelperInv /\ AdapterInv /\ MessageInv /\ WorldInv /\ ad \in Adapters(P)
    BY DEF SessionInv, AdapterInv, GoodAndLate, GoodAdapters
<1>2. /\ Setting(P, Has("profile_state"), UnderWay) /\ BatchEvents \subseteq P
      /\ PlainEvents \subseteq P
    BY TrueSetting, SettingFacts DEF Setting
<1>3. x \in G /\ x \in Adapters(P)
    BY <1>1, NowKeeps DEF GoodAndLate, GoodAdapters
<1> HIDE DEF P, G
<1>4. x.hasCp = ad.hasCp
    BY <1>1, NowFields DEF SameFields
<1> HIDE DEF x
<1>5. CASE HelperError
    <2>1. "helper" \notin ready /\ lc \in States
        BY <1>5, TurnOrder DEF HelperError
    <2>2. QED
        BY <1>5, <2>1, EventStep DEF HelperError, Handled, socketVars
<1>6. CASE ReadSignals
    <2> DEFINE y == TakeInterrupts(x, interrupts)
    <2>1. "helper" \notin ready /\ lc \in States
        BY <1>6, TurnOrder DEF ReadSignals
    <2>2. /\ UNCHANGED <<lcVars, socketVars, helperVars, workVars>> /\ ready' = ready \ {"signals"}
          /\ ad' = [y EXCEPT !.helperOpen = TRUE]
        BY <1>6 DEF ReadSignals, Handled, x
    <2>3. interrupts \in Nat
        BY <1>1 DEF WorldInv
    <2>4. y \in G /\ Moved(x, y) /\ Quiet(x, y)
        BY <1>2, <1>3, <2>3, TakeInterruptsKeeps, InterruptsMove DEF G, P
    <2> HIDE DEF y
    <2>5. y \in Adapters(P)
        BY <2>4 DEF G, P, GoodAndLate, GoodAdapters
    <2>6. Moved(ad, y) /\ y.outbox = <<>>
        <3>1. SameFields(ad, x) /\ x.outbox = ad.outbox
            BY <1>1, NowFields DEF x
        <3>2. ad.outbox = <<>>
            BY DEF ChangeInvariant, CycleInv
        <3>3. QED
            BY <2>4, <3>1, <3>2, MovedFrom DEF Quiet
    <2>7. SameFields(y, ad') /\ ad'.outbox = y.outbox
        BY <2>2, <2>5 DEF SameFields, Adapters
    <2>8. commands' = commands \o y.outbox
        <3>1. commands \o <<>> = commands
            BY <1>1 DEF MessageInv
        <3>2. QED
            BY <2>2, <2>6, <3>1 DEF socketVars
    <2>9. "helper" \notin ready' /\ UNCHANGED frames
        BY <2>1, <2>2 DEF socketVars
    <2>10. QED
        BY <2>1, <2>2, <2>5, <2>6, <2>7, <2>8, <2>9, AdapterStep DEF SameFields, P
<1>7. CASE Accept
    <2>1. "helper" \notin ready /\ lc \in States
        BY <1>7, TurnOrder DEF Accept
    <2>2. /\ UNCHANGED <<lcVars, frames, helperVars, workVars>> /\ ready' = ready \ {"listener"}
          /\ \/ Install(AcceptController(x, waiting), <<>>) /\ ad.activated
             \/ ad' = Push(ad, "conversation_lost", 0) /\ UNCHANGED commands
             \/ UNCHANGED <<ad, commands>>
        BY <1>7 DEF Accept, Handled, x
    <2>3. CASE Install(AcceptController(x, waiting), <<>>) /\ ad.activated
        <3> DEFINE y == AcceptController(x, waiting)
        <3>1. waiting \in {"none", "open", "closed"} /\ x.hasCp
            BY <1>1, <1>4, <2>3 DEF WorldInv, ChangeInvariant, Linked
        <3>2. y \in G /\ Moved(x, y)
            BY <1>2, <1>3, <3>1, AcceptKeeps, AcceptMoves DEF G, P
        <3> HIDE DEF y
        <3>3. y \in Adapters(P)
            BY <3>2 DEF G, P, GoodAndLate, GoodAdapters
        <3>4. QED
            BY <2>1, <2>2, <2>3, <3>2, <3>3, InstallStep DEF P, x, y
    <2>4. CASE ad' = Push(ad, "conversation_lost", 0) /\ UNCHANGED commands
        BY <2>1, <2>2, <2>4, EventStep
    <2>5. CASE UNCHANGED <<ad, commands>>
        <3>1. "helper" \notin ready'
            BY <2>1, <2>2
        <3>2. Moved(ad, ad) /\ commands \o <<>> = commands /\ ad.outbox = <<>>
            BY <1>1, StaysMoved DEF MessageInv, ChangeInvariant, CycleInv
        <3>3. QED
            BY <1>1, <2>1, <2>2, <2>5, <3>1, <3>2, AdapterStep DEF P
    <2>6. QED
        BY <2>2, <2>3, <2>4, <2>5
<1>8. CASE ReadClient
    <2> DEFINE y == ControllerBytes(x, lines)
    <2>1. "helper" \notin ready /\ lc \in States /\ ad.client # "none"
        BY <1>8, TurnOrder DEF ReadClient, ClientIgnored
    <2>2. /\ UNCHANGED <<lcVars, frames, helperVars, workVars>> /\ Install(y, Asked(lines))
          /\ ready' = ready \/ ready' = ready \ {"client_in"}
        BY <1>8 DEF ReadClient, Handled, x
    <2>3. lines \in Seq(ControllerLines)
        BY <1>1, LinesAssumption, SeqGrows DEF WorldInv
    <2>4. x.hasCp
        BY <1>4, <2>1 DEF ChangeInvariant, Linked
    <2>5. y \in G /\ Moved(x, y)
        BY <1>2, <1>3, <2>3, <2>4, BytesKeep, BytesMove DEF G, P
    <2> HIDE DEF y
    <2>6. y \in Adapters(P)
        BY <2>5 DEF G, P, GoodAndLate, GoodAdapters
    <2>7. QED
        BY <2>1, <2>2, <2>5, <2>6, InstallStep DEF P, x
<1>9. CASE ReadClientEnd
    <2> DEFINE y == ControllerGone(x)
    <2>1. "helper" \notin ready /\ lc \in States /\ ad.client # "none"
        BY <1>9, TurnOrder DEF ReadClientEnd, ClientIgnored
    <2>2. /\ UNCHANGED <<lcVars, frames, helperVars, workVars>> /\ Install(y, <<>>)
          /\ ready' = ready \ {"client_in", "client_hup"}
        BY <1>9 DEF ReadClientEnd, x
    <2>4. x.hasCp
        BY <1>4, <2>1 DEF ChangeInvariant, Linked
    <2>5. y \in G /\ Moved(x, y)
        BY <1>2, <1>3, <2>4, GoneKeeps, GoneMoves DEF G, P
    <2> HIDE DEF y
    <2>6. y \in Adapters(P)
        BY <2>5 DEF G, P, GoodAndLate, GoodAdapters
    <2>7. QED
        BY <2>1, <2>2, <2>5, <2>6, InstallStep DEF P, x
<1>10. QED
    BY <1>5, <1>6, <1>7, <1>8, <1>9

-----------------------------------------------------------------------------
(* Steps that leave the conversation alone. *)
LEMMA StandStill ==
    ASSUME ChangeInvariant, UNCHANGED <<frames, commands, helperVars, workVars, stops, stopStage>>,
           lc' = lc \/ lc' \notin {"begin", "active"}, ad'.outbox = <<>>,
           ad'.cp = ad.cp, ad'.conv = ad.conv, ad'.hasCp = ad.hasCp,
           ad'.activated = ad.activated, ad'.pending = ad.pending,
           ad'.client = ad.client \/ ad'.client = "none" \/ ad.hasCp,
           "helper" \in ready' => ad.pending = <<>>
    PROVE  ChangeInvariant'
<1> USE DEF helperVars, workVars
<1>1. Launched' = Launched
    BY DEF Launched
<1>2. Linked(ad', Launched) /\ Balanced(ad'.cp, profile)
    BY DEF ChangeInvariant, Linked, Means
<1>3. ChannelInv'
    BY DEF ChangeInvariant, ChannelInv, Underway
<1>4. StartInv'
    BY <1>1 DEF ChangeInvariant, StartInv
<1>5. RuntimeInv' /\ StopsInv' /\ CycleInv'
    BY DEF ChangeInvariant, RuntimeInv, StopsInv, CycleInv
<1>6. QED
    BY <1>1, <1>2, <1>3, <1>4, <1>5 DEF ChangeInvariant

LEMMA StillSteps ==
    ASSUME SessionInv, ChangeInvariant,
           \/ Poll \/ SkipClient \/ Connect \/ SendLine \/ PressCtrlC \/ SupervisorDies
           \/ CloseHelperSocket \/ KillLauncher \/ UNCHANGED vars
           \/ CloseController \/ Reap \/ FinalizeSession \/ Publish
    PROVE  ChangeInvariant'
<1> USE DEF socketVars
<1> DEFINE P == TrueEvents
<1>0. ad \in Adapters(P)
    BY DEF SessionInv, AdapterInv, GoodAndLate, GoodAdapters
<1> HIDE DEF P
<1>1. /\ ad.outbox = <<>> /\ ("helper" \in ready => ad.pending = <<>>)
      /\ (ad.client # "none" => ad.hasCp)
    BY DEF ChangeInvariant, CycleInv, Linked
<1>2. CASE Poll
    BY <1>1, <1>2, StandStill DEF Poll, Waiting, lcVars
<1>3. CASE SkipClient
    <2>1. ready' \subseteq ready /\ UNCHANGED <<lcVars, socketVars, helperVars, workVars, ad>>
        BY <1>3 DEF SkipClient, Handled
    <2>2. QED
        BY <1>1, <2>1, StandStill DEF lcVars
<1>4. CASE Connect \/ SendLine \/ PressCtrlC
    BY <1>1, <1>4, StandStill DEF Connect, SendLine, PressCtrlC, HelperUnchanged,
                               SupervisorUnchanged, supVars, lcVars
<1>5. CASE SupervisorDies \/ CloseHelperSocket \/ KillLauncher
    BY <1>1, <1>5, StandStill DEF SupervisorDies, CloseHelperSocket, KillLauncher, lcVars
<1>6. CASE UNCHANGED vars
    BY <1>1, <1>6, StandStill DEF vars, supVars, lcVars
<1>7. CASE CloseController
    <2>1. /\ UNCHANGED <<lcVars, socketVars, helperVars, workVars, ready>>
          /\ \/ UNCHANGED ad
             \/ ad.client = "open" /\ ad' = [ad EXCEPT !.client = "closed"]
        BY <1>7 DEF CloseController, HelperUnchanged
    <2>2. CASE UNCHANGED ad
        BY <1>1, <2>1, <2>2, StandStill DEF lcVars
    <2>3. CASE ad.client = "open" /\ ad' = [ad EXCEPT !.client = "closed"]
        <3>1. /\ ad'.outbox = ad.outbox /\ ad'.cp = ad.cp /\ ad'.conv = ad.conv
              /\ ad'.hasCp = ad.hasCp /\ ad'.activated = ad.activated /\ ad'.pending = ad.pending
            BY <1>0, <2>3 DEF Adapters
        <3>2. QED
            BY <1>1, <2>1, <2>3, <3>1, StandStill DEF lcVars
    <2>4. QED
        BY <2>1, <2>2, <2>3
<1>8. CASE Reap
    BY <1>1, <1>8, StandStill DEF Reap, ReapLauncher, supVars
<1>9. CASE FinalizeSession
    <2>1. /\ UNCHANGED <<socketVars, helperVars, workVars, ready, stops, stopStage>>
          /\ lc' = "publish_outcome" /\ ad' = [ad EXCEPT !.listening = FALSE]
        BY <1>9 DEF FinalizeSession, Finalize
    <2>2. /\ ad'.outbox = ad.outbox /\ ad'.cp = ad.cp /\ ad'.conv = ad.conv
          /\ ad'.hasCp = ad.hasCp /\ ad'.activated = ad.activated /\ ad'.pending = ad.pending
          /\ ad'.client = ad.client
        BY <1>0, <2>1 DEF Adapters
    <2>3. QED
        BY <1>1, <2>1, <2>2, StandStill
<1>10. CASE Publish
    <2>1. /\ UNCHANGED <<socketVars, helperVars, workVars, ready, stops, stopStage>>
          /\ lc' = "done" /\ ad' = [ad EXCEPT !.client = "none"]
        BY <1>10 DEF Publish, PublishOutcome
    <2>2. /\ ad'.outbox = ad.outbox /\ ad'.cp = ad.cp /\ ad'.conv = ad.conv
          /\ ad'.hasCp = ad.hasCp /\ ad'.activated = ad.activated /\ ad'.pending = ad.pending
          /\ ad'.client = "none"
        BY <1>0, <2>1 DEF Adapters
    <2>3. QED
        BY <1>1, <2>1, <2>2, StandStill
<1>11. QED
    BY <1>2, <1>3, <1>4, <1>5, <1>6, <1>7, <1>8, <1>9, <1>10

-----------------------------------------------------------------------------
(* What the helper says, event by event.  The conversation c is the one     *)
(* after the last event that was handled.                                   *)
Past(c) == ~Early(c) /\ c.state # "active"

(* What one frame does to the conversation. *)
LEMMA FrameMoves ==
    ASSUME NEW c, NEW f
    PROVE  LET d == ReceiveFrame(c, f).conv
               e == ReceiveFrame(c, f).event
           IN  /\ Early(d) => Early(c)
               /\ Past(c) => Past(d)
               /\ d.pending = NoChange
               /\ e.kind \in {"applied", "restored"} =>
                     /\ c.state = "active" /\ c.pending # NoChange /\ d.state = "active"
                     /\ e.change = c.pending
                     /\ f.type = IF e.kind = "applied" THEN "PROFILE_OK" ELSE "PROFILE_FAILED"
               /\ e.kind = "profile_state_unknown" =>
                     c.state = "active" /\ c.pending # NoChange /\ Past(d)
               /\ e.kind = "activated" => Early(c) /\ f.type = "ACTIVE"
               /\ d.state = "active" => e.kind \in {"applied", "restored", "activated"}
               /\ d.state = "profile_state_unknown" => c.state = "active"
               /\ e.kind \in {"workload_exited", "workload_signaled"} =>
                     c.state \in {"active", "profile_state_unknown"}
<1> DEFINE r == ReceiveFrame(c, f)
<1>1. FrameRules(c, f, r)
    BY FrameByFrame
<1> HIDE DEF r
<1>2. r.conv.pending = NoChange
    BY <1>1 DEF FrameRules, Answer, Legal
<1>3. (Early(r.conv) => Early(c)) /\ (Past(c) => Past(r.conv))
    BY <1>1 DEF FrameRules, Answer, Legal, Early, Past
<1>4. /\ r.event.kind \in {"applied", "restored"} =>
           /\ c.state = "active" /\ c.pending # NoChange /\ r.conv.state = "active"
           /\ r.event.change = c.pending
           /\ f.type = IF r.event.kind = "applied" THEN "PROFILE_OK" ELSE "PROFILE_FAILED"
      /\ r.event.kind = "profile_state_unknown" =>
           c.state = "active" /\ c.pending # NoChange /\ Past(r.conv)
    BY <1>1 DEF FrameRules, Answer, Legal, HelperEvent, Past, Early
<1>5. /\ r.event.kind = "activated" => Early(c) /\ f.type = "ACTIVE"
      /\ r.conv.state = "active" => r.event.kind \in {"applied", "restored", "activated"}
      /\ r.conv.state = "profile_state_unknown" => c.state = "active"
      /\ r.event.kind \in {"workload_exited", "workload_signaled"} =>
           c.state \in {"active", "profile_state_unknown"}
    BY <1>1 DEF FrameRules, Answer, Legal, HelperEvent, Early
<1>6. QED
    BY <1>2, <1>3, <1>4, <1>5 DEF r

Meant(z, c, L, e) ==
    /\ e.kind = "stop_requested" => z.cp.stopping
    /\ e.kind # "terminal_interrupt"
    /\ e.kind = "profile_state_unknown" => z.hasCp /\ Past(c)
    /\ e.kind = "activated" => z.hasCp /\ L

Bare(z) == ~z.hasCp => z.cp = ControlPlaneInit /\ z.client = "none" /\ ~z.activated
Stands(z, c, L) ==
    /\ Early(c) => ~z.hasCp
    /\ c.state \in {"active", "profile_state_unknown"} => z.hasCp /\ L
    /\ Bare(z)
    /\ \A i \in 1 .. Len(z.pending) : Meant(z, c, L, z.pending[i])

Stays(z, w) ==
    /\ w.conv = z.conv /\ w.outbox = z.outbox
    /\ w.cp.inflight.change = z.cp.inflight.change /\ w.cp.confirmed = z.cp.confirmed
    /\ z.cp.stopping => w.cp.stopping
    /\ z.hasCp => w.hasCp

(* The conversation moves on, and then the adapter. *)
LEMMA ConversationStands ==
    ASSUME NEW z, NEW c, NEW f, NEW L, Stands(z, c, L),
           ReceiveFrame(c, f).event.kind # "activated"
    PROVE  Stands(z, ReceiveFrame(c, f).conv, L)
<1> DEFINE d == ReceiveFrame(c, f).conv
<1>1. /\ Early(d) => Early(c)
      /\ Past(c) => Past(d)
      /\ d.state \in {"active", "profile_state_unknown"} => c.state = "active"
    BY FrameMoves
<1> HIDE DEF d
<1>2. QED
    BY <1>1 DEF Stands, Meant, d

(* whatever else the adapter does, *)
LEMMA AdapterStands ==
    ASSUME NEW z, NEW w, NEW c, NEW L, NEW K, Stands(z, c, L), w.hasCp = z.hasCp,
           z.hasCp \/ (w.cp = z.cp /\ w.client = z.client),
           w.activated = z.activated \/ ~w.activated,
           z.cp.stopping => w.cp.stopping, Adds(z, w, K),
           \A i \in 1 .. Len(w.pending) : w.pending[i].kind \in K => Meant(w, c, L, w.pending[i])
    PROVE  Stands(w, c, L)
<1>1. ASSUME NEW i \in 1 .. Len(w.pending) PROVE Meant(w, c, L, w.pending[i])
    BY DEF Adds, Stands, Meant
<1>2. QED
    BY <1>1 DEF Stands, Bare

(* whatever is pushed, *)
LEMMA PushStands ==
    ASSUME NEW P, NEW z \in Adapters(P), NEW c, NEW L, Stands(z, c, L), NEW k, NEW v,
           [kind |-> k, value |-> v] \in P, Meant(z, c, L, [kind |-> k, value |-> v])
    PROVE  Stands(Push(z, k, v), c, L) /\ Stays(z, Push(z, k, v)) /\ Push(z, k, v) \in Adapters(P)
<1> DEFINE w == Push(z, k, v)
           e == [kind |-> k, value |-> v]
<1>1. /\ w \in Adapters(P) /\ SameSession(z, w) /\ w.pending = Append(z.pending, e)
      /\ w.cp = z.cp /\ w.conv = z.conv /\ w.client = z.client /\ w.outbox = z.outbox
    BY PushFacts
<1>2. z.pending \in Seq(P)
    BY DEF Adapters
<1>5. Meant(z, c, L, e)
    OBVIOUS
<1> HIDE DEF w, e
<1>3. Stays(z, w)
    BY <1>1 DEF Stays, SameSession
<1>4. Stands(w, c, L)
    <2>1. ASSUME NEW i \in 1 .. Len(w.pending) PROVE Meant(w, c, L, w.pending[i])
        <3>1. CASE i \in 1 .. Len(z.pending)
            <4>1. w.pending[i] = z.pending[i]
                BY <1>1, <1>2, <3>1, PendingFacts
            <4>2. QED
                BY <1>1, <3>1, <4>1 DEF Stands, Meant, SameSession
        <3>2. CASE i = Len(w.pending)
            <4>1. w.pending[i] = e
                BY <1>1, <1>2, <3>2, PendingFacts
            <4>2. QED
                BY <1>1, <1>5, <4>1 DEF Meant, SameSession
        <3>3. QED
            BY <1>1, <1>2, <3>1, <3>2, PendingFacts
    <2>2. QED
        BY <1>1, <2>1 DEF Stands, Bare, SameSession
<1>6. QED
    BY <1>1, <1>3, <1>4 DEF w

(* A batch without an action, and one that only fails the Session. *)
LEMMA SilentExecution ==
    ASSUME NEW P, NEW z \in Adapters(P), NEW s, s.acts = <<>>, s.cp \in ControlPlanes,
           Len(s.cp.queue) <= QueueLimit
    PROVE  LET w == ExecuteActions(z, s)
           IN  /\ w \in Adapters(P) /\ SameSession(z, w) /\ w.pending = z.pending /\ w.cp = s.cp
               /\ w.conv = z.conv /\ w.outbox = z.outbox /\ w.client = z.client
<1> DEFINE d == s.cp
           b1 == [z EXCEPT !.cp = d]
           b == [b1 EXCEPT !.halted = FALSE]
           w == ExecuteActions(z, s)
<1>1. w = EX!Fold(b, <<>>)
    BY DEF ExecuteActions, FoldLeft, MapThenFoldSet, EX!Fold, EX!Largest, Max
<1>2. /\ b1 \in Adapters(P) /\ SameSession(z, b1) /\ b1.pending = z.pending /\ b1.cp = d
      /\ b1.conv = z.conv /\ b1.outbox = z.outbox /\ b1.client = z.client
    BY DEF Adapters, SameSession
<1> HIDE DEF b1
<1>3. /\ b \in Adapters(P) /\ SameSession(b1, b) /\ b.pending = b1.pending /\ b.cp = b1.cp
      /\ b.conv = b1.conv /\ b.outbox = b1.outbox /\ b.client = b1.client
    BY <1>2 DEF Adapters, SameSession
<1> HIDE DEF b, w, d
<1>4. <<>> \in Seq({}) /\ 1 .. Len(<<>>) = {} /\ b \in {b}
    OBVIOUS
<1>5. EX!Fold(b, <<>>) \in {b}
    BY <1>4, EX!FoldStaysIn
<1>6. QED
    BY <1>1, <1>2, <1>3, <1>5 DEF SameSession, w, d

(* and when it ends the control plane. *)
LEMMA UnknownExecution ==
    ASSUME NEW P, BatchEvents \subseteq P, NEW z \in Adapters(P), NEW s,
           s.acts = <<FailSession>>, s.cp \in ControlPlanes, Len(s.cp.queue) <= QueueLimit
    PROVE  LET w == ExecuteActions(z, s)
           IN  /\ w \in Adapters(P) /\ SameSession(z, w) /\ w.cp = s.cp
               /\ w.pending = Append(z.pending, Event("profile_state_unknown"))
               /\ w.conv = z.conv /\ w.outbox = z.outbox /\ w.client = z.client
<1> DEFINE d == s.cp
           a == FailSession
           acts == <<a>>
           b1 == [z EXCEPT !.cp = d]
           b == [b1 EXCEPT !.halted = FALSE]
           v == Push(b, "profile_state_unknown", 0)
           w == ExecuteActions(z, s)
<1>1. w = EX!Fold(b, acts)
    BY DEF ExecuteActions, FoldLeft, MapThenFoldSet, EX!Fold, EX!Largest, Max
<1>2. /\ b1 \in Adapters(P) /\ SameSession(z, b1) /\ b1.pending = z.pending /\ b1.cp = d
      /\ b1.conv = z.conv /\ b1.outbox = z.outbox /\ b1.client = z.client
    BY DEF Adapters, SameSession
<1> HIDE DEF b1
<1>3. /\ b \in Adapters(P) /\ SameSession(b1, b) /\ b.pending = b1.pending /\ b.cp = b1.cp
      /\ b.conv = b1.conv /\ b.outbox = b1.outbox /\ b.client = b1.client /\ ~b.halted
    BY <1>2 DEF Adapters, SameSession
<1> HIDE DEF b
<1>4. Execute(b, a) = v
    <2>1. a.type = "fail_session"
        BY DEF FailSession, Action
    <2>2. QED
        BY <1>3, <2>1 DEF Execute
<1>5. Event("profile_state_unknown") = [kind |-> "profile_state_unknown", value |-> 0]
      /\ Event("profile_state_unknown") \in P
    BY DEF BatchEvents, Event
<1>6. /\ v \in Adapters(P) /\ SameSession(b, v) /\ v.cp = b.cp /\ v.conv = b.conv
      /\ v.pending = Append(b.pending, Event("profile_state_unknown"))
      /\ v.outbox = b.outbox /\ v.client = b.client
    BY <1>3, <1>5, PushFacts
<1> HIDE DEF w, d, v, a
<1>7. acts \in Seq({a}) /\ Len(acts) = 1 /\ acts[1] = a
    OBVIOUS
<1> HIDE DEF acts
<1> DEFINE T == [i \in 0 .. 1 |-> IF i = 0 THEN {b} ELSE {v}]
<1>8. T[0] = {b} /\ T[1] = {v}
    BY DEF T
<1>9. ASSUME NEW i \in 1 .. Len(acts), NEW y \in T[i - 1] PROVE Execute(y, acts[i]) \in T[i]
    <2>1. i = 1 /\ i - 1 = 0
        BY <1>7
    <2>2. QED
        BY <1>4, <1>7, <1>8, <2>1
<1> HIDE DEF T
<1>10. EX!Fold(b, acts) \in T[1]
    BY <1>7, <1>8, <1>9, EX!FoldAdvances
<1>11. w = v
    BY <1>1, <1>8, <1>10
<1>12. QED
    BY <1>2, <1>3, <1>6, <1>11 DEF SameSession, w, d

(* The events without a value. *)
LEMMA PlainPairs ==
    ASSUME NEW P, PlainEvents \subseteq P
    PROVE  \A k \in {"activated", "controller_lost", "conversation_lost", "cleanup_failed",
                     "cleanup_succeeded", "profile_state_unknown", "terminal_interrupt",
                     "stop_requested"} : [kind |-> k, value |-> 0] \in P
BY DEF PlainEvents, Event

(* The one event that makes the control plane. *)
LEMMA ActivatedStands ==
    ASSUME NEW P, PlainEvents \subseteq P, NEW z \in Adapters(P), NEW c, NEW d, NEW L,
           Stands(z, c, L), Early(c), ~Early(d), L, NEW e, e.kind = "activated"
    PROVE  LET w == HelperEventStep(z, e)
           IN  w \in Adapters(P) /\ Stands(w, d, L) /\ Stays(z, w) /\ w.cp = ControlPlaneInit
<1> DEFINE m0 == [z EXCEPT !.cp = ControlPlaneInit]
           made == [m0 EXCEPT !.hasCp = TRUE]
           l0 == [made EXCEPT !.listening = TRUE]
           l == [l0 EXCEPT !.activated = TRUE]
           Like(y) == /\ y \in Adapters(P) /\ y.cp = ControlPlaneInit /\ y.pending = z.pending
                      /\ y.conv = z.conv /\ y.outbox = z.outbox
<1>1. HelperEventStep(z, e) = IF z.socketFails THEN Push(made, "conversation_lost", 0)
                                               ELSE Push(l, "activated", 0)
    BY DEF HelperEventStep
<1>2. ~z.hasCp /\ z.cp = ControlPlaneInit
    BY DEF Stands, Bare
<1>3. Like(m0)
    BY <1>2 DEF Adapters
<1> HIDE DEF m0
<1>4. Like(made) /\ made.hasCp
    BY <1>3 DEF Adapters
<1> HIDE DEF made
<1>5. Like(l0) /\ l0.hasCp
    BY <1>4 DEF Adapters
<1> HIDE DEF l0
<1>6. Like(l) /\ l.hasCp
    BY <1>5 DEF Adapters
<1> HIDE DEF l
<1>7. ASSUME NEW y, Like(y), y.hasCp PROVE Stands(y, d, L) /\ Stays(z, y)
    <2>1. ASSUME NEW i \in 1 .. Len(y.pending) PROVE Meant(y, d, L, y.pending[i])
        BY <1>2, <1>7 DEF Stands, Meant
    <2>2. QED
        BY <1>2, <1>7, <2>1 DEF Stands, Stays, Bare
<1>8. ASSUME NEW y, NEW k, Like(y), y.hasCp, k \in {"conversation_lost", "activated"}
      PROVE  /\ Push(y, k, 0) \in Adapters(P) /\ Stands(Push(y, k, 0), d, L)
             /\ Stays(z, Push(y, k, 0)) /\ Push(y, k, 0).cp = ControlPlaneInit
    <2> DEFINE q == Push(y, k, 0)
    <2>1. Stands(y, d, L) /\ Stays(z, y)
        BY <1>7, <1>8
    <2>2. [kind |-> k, value |-> 0] \in P
        BY <1>8, PlainPairs
    <2>3. Meant(y, d, L, [kind |-> k, value |-> 0])
        BY <1>8 DEF Meant
    <2>4. Stands(q, d, L) /\ Stays(y, q) /\ q \in Adapters(P)
        BY <1>8, <2>1, <2>2, <2>3, PushStands
    <2>5. q.cp = y.cp
        BY <1>8, <2>2, PushFacts
    <2> HIDE DEF q
    <2>6. QED
        BY <1>8, <2>1, <2>4, <2>5 DEF Stays, q
<1>9. /\ Push(made, "conversation_lost", 0) \in Adapters(P)
      /\ Stands(Push(made, "conversation_lost", 0), d, L)
      /\ Stays(z, Push(made, "conversation_lost", 0))
      /\ Push(made, "conversation_lost", 0).cp = ControlPlaneInit
    BY <1>4, <1>8
<1>10. /\ Push(l, "activated", 0) \in Adapters(P) /\ Stands(Push(l, "activated", 0), d, L)
       /\ Stays(z, Push(l, "activated", 0)) /\ Push(l, "activated", 0).cp = ControlPlaneInit
    BY <1>6, <1>8
<1>11. QED
    BY <1>1, <1>9, <1>10

(* The events that the control plane does not answer. *)
LEMMA PlainEventStands ==
    ASSUME NEW P, PlainEvents \subseteq P, NEW z \in Adapters(P), NEW c, NEW L, Stands(z, c, L),
           NEW e \in HelperEvents,
           e.kind \in {"ready", "activation_failed", "cleanup_succeeded", "cleanup_failed",
                       "conversation_lost"},
           e.kind \in ResultKinds => [kind |-> e.kind, value |-> e.value] \in P
    PROVE  LET w == HelperEventStep(z, e)
           IN  w \in Adapters(P) /\ Stands(w, c, L) /\ Stays(z, w)
<1>1. e.kind \in {"cleanup_succeeded", "cleanup_failed", "conversation_lost"} => e.value = 0
    BY DEF HelperEvents, EventsOf
<1>2. CASE e.kind = "ready"
    <2>1. HelperEventStep(z, e) = Push(z, "conversation_lost", 0)
        BY <1>2 DEF HelperEventStep
    <2>2. Meant(z, c, L, [kind |-> "conversation_lost", value |-> 0])
        BY DEF Meant
    <2>3. [kind |-> "conversation_lost", value |-> 0] \in P
        BY PlainPairs
    <2>4. QED
        BY <2>1, <2>2, <2>3, PushStands
<1>3. CASE e.kind # "ready"
    <2> DEFINE k == e.kind
               v == e.value
    <2>1. HelperEventStep(z, e) = Push(z, k, v)
        BY <1>3 DEF HelperEventStep
    <2>2. Meant(z, c, L, [kind |-> k, value |-> v])
        BY <1>3 DEF Meant
    <2>3. [kind |-> k, value |-> v] \in P
        <3>1. CASE k = "activation_failed"
            BY <3>1 DEF ResultKinds
        <3>2. CASE k # "activation_failed"
            <4>1. v = 0 /\ k \in {"cleanup_succeeded", "cleanup_failed", "conversation_lost"}
                BY <1>1, <1>3, <3>2
            <4> HIDE DEF k, v
            <4>2. QED
                BY <4>1, PlainPairs
        <3>3. QED
            BY <3>1, <3>2
    <2> HIDE DEF k, v
    <2>4. QED
        BY <2>1, <2>2, <2>3, PushStands
<1>4. QED
    BY <1>2, <1>3

(* The Workload has ended. *)
LEMMA EndEventStands ==
    ASSUME NEW P, NEW z \in Adapters(P), z.hasCp, NEW c, NEW L, Stands(z, c, L),
           NEW e, e.kind \in {"workload_exited", "workload_signaled"},
           [kind |-> e.kind, value |-> e.value] \in P
    PROVE  LET w == HelperEventStep(z, e)
           IN  w \in Adapters(P) /\ Stands(w, c, L) /\ Stays(z, w)
<1> DEFINE s == HandleTerminal(z.cp)
           y == ExecuteActions(z, s)
           y1 == [y EXCEPT !.finished = TRUE]
           y2 == [y1 EXCEPT !.activated = FALSE]
           w == HelperEventStep(z, e)
           k == e.kind
           v == e.value
           Like(u) == /\ u \in Adapters(P) /\ u.cp = s.cp /\ u.pending = z.pending
                      /\ u.conv = z.conv /\ u.outbox = z.outbox /\ u.client = z.client
                      /\ u.hasCp = z.hasCp
<1>1. w = Push(y2, k, v)
    BY DEF HelperEventStep
<1>2. Continues(z.cp, s.cp) /\ Len(s.cp.queue) <= QueueLimit /\ s.acts = <<>>
    <2>1. z.cp \in ControlPlanes
        BY DEF Adapters
    <2>2. s.acts = <<>>
        BY DEF HandleTerminal
    <2>3. QED
        BY <2>1, <2>2, TerminalContinues
<1> HIDE DEF s
<1>3. Like(y) /\ y.activated = z.activated
    <2>1. s.cp \in ControlPlanes
        BY <1>2 DEF Continues, Settled
    <2>2. /\ y \in Adapters(P) /\ SameSession(z, y) /\ y.pending = z.pending /\ y.cp = s.cp
          /\ y.conv = z.conv /\ y.outbox = z.outbox /\ y.client = z.client
        BY <1>2, <2>1, SilentExecution
    <2> HIDE DEF y
    <2>3. QED
        BY <2>2 DEF SameSession
<1> HIDE DEF y
<1>4. Like(y1) /\ y1.activated = z.activated
    BY <1>3 DEF Adapters
<1> HIDE DEF y1
<1>5. Like(y2) /\ ~y2.activated
    BY <1>4 DEF Adapters
<1> HIDE DEF y2
<1>6. Stays(z, y2)
    BY <1>2, <1>5 DEF Stays, Continues
<1>7. Stands(y2, c, L)
    <2>1. ASSUME NEW i \in 1 .. Len(y2.pending) PROVE Meant(y2, c, L, y2.pending[i])
        BY <1>5, <1>6 DEF Stands, Meant, Stays
    <2>2. QED
        BY <1>5, <2>1 DEF Stands, Bare
<1>8. Meant(y2, c, L, [kind |-> k, value |-> v]) /\ [kind |-> k, value |-> v] \in P
    BY DEF Meant
<1> HIDE DEF w, k, v
<1>9. w \in Adapters(P) /\ Stands(w, c, L) /\ Stays(y2, w)
    BY <1>1, <1>5, <1>7, <1>8, PushStands
<1>10. QED
    BY <1>6, <1>9 DEF Stays, w

(* The profile has become unknown. *)
LEMMA UnknownEventStands ==
    ASSUME NEW P, BatchEvents \subseteq P, NEW z \in Adapters(P), z.hasCp, NEW c, NEW L,
           Stands(z, c, L), Past(c), NEW e, e.kind = "profile_state_unknown"
    PROVE  LET w == HelperEventStep(z, e)
           IN  w \in Adapters(P) /\ Stands(w, c, L) /\ Stays(z, w)
<1> DEFINE s == HandleStateUnknown(z.cp)
           w == ExecuteActions(z, s)
<1>1. HelperEventStep(z, e) = w
    BY DEF HelperEventStep
<1>2. /\ Continues(z.cp, s.cp) /\ Len(s.cp.queue) <= QueueLimit
      /\ s.acts \in {<<>>, <<FailSession>>} /\ s.cp \in ControlPlanes
    <2>1. z.cp \in ControlPlanes /\ Len(z.cp.queue) <= QueueLimit
        BY DEF Adapters
    <2>2. QED
        BY <2>1, UnknownContinues DEF Continues, Settled
<1> HIDE DEF s
<1>3. /\ w \in Adapters(P) /\ SameSession(z, w) /\ w.cp = s.cp /\ w.conv = z.conv
      /\ w.outbox = z.outbox /\ w.client = z.client
      /\ w.pending \in {z.pending, Append(z.pending, Event("profile_state_unknown"))}
    <2>1. CASE s.acts = <<>>
        BY <1>2, <2>1, SilentExecution
    <2>2. CASE s.acts = <<FailSession>>
        BY <1>2, <2>2, UnknownExecution
    <2>3. QED
        BY <1>2, <2>1, <2>2
<1> HIDE DEF w
<1>4. Stays(z, w)
    BY <1>2, <1>3 DEF Stays, Continues, SameSession
<1>5. ASSUME NEW i \in 1 .. Len(w.pending) PROVE Meant(w, c, L, w.pending[i])
    <2>1. z.pending \in Seq(P)
        BY DEF Adapters
    <2>2. \/ i \in 1 .. Len(z.pending) /\ w.pending[i] = z.pending[i]
          \/ w.pending[i] = Event("profile_state_unknown")
        BY <1>3, <2>1, PendingFacts
    <2>3. Meant(w, c, L, Event("profile_state_unknown"))
        BY <1>4 DEF Meant, Event, Stays
    <2>4. CASE i \in 1 .. Len(z.pending) /\ w.pending[i] = z.pending[i]
        <3>1. Meant(z, c, L, z.pending[i])
            BY <2>4 DEF Stands
        <3>2. QED
            BY <1>4, <2>4, <3>1 DEF Meant, Stays
    <2>5. QED
        BY <2>2, <2>3, <2>4
<1>6. Stands(w, c, L)
    BY <1>3, <1>5 DEF Stands, Bare, SameSession
<1>7. QED
    BY <1>1, <1>3, <1>4, <1>6

(* The change has been answered: what is queued may be begun at once.       *)
LEMMA ReplyEventStands ==
    ASSUME NEW P, BatchEvents \subseteq P, NEW z \in Adapters(P), z.hasCp, NEW c, NEW L,
           Stands(z, c, L), NEW e \in HelperEvents, e.kind \in {"applied", "restored"},
           e.change = z.cp.inflight.change
    PROVE  LET w == HelperEventStep(z, e)
           IN  /\ w \in Adapters(P) /\ Stands(w, c, L)
               /\ w.hasCp /\ (z.cp.stopping => w.cp.stopping)
               /\ w.cp.confirmed = Confirmed(z.cp.confirmed, e.kind, e.change)
               /\ w.conv.state = z.conv.state /\ (Quiet(z, w) \/ Dispatched(z, w))
<1> DEFINE ch == e.change
           s == HandleResult(z.cp, e.kind, ch)
           d == Landed(z.cp, e.kind, ch)
           w == ExecuteActions(z, s)
<1>1. HelperEventStep(z, e) = w
    BY DEF HelperEventStep
<1>2. z.cp \in ControlPlanes /\ Len(z.cp.queue) <= QueueLimit /\ ch \in Changes
    BY DEF Adapters, HelperEvents, EventsOf
<1>3. /\ s \in Batches(d) /\ StopIsShown(s) /\ Len(s.cp.queue) <= QueueLimit
    BY <1>2, HandleResultFacts, HandleResultShows DEF Handling
<1>4. Settled(d) /\ d.confirmed = Confirmed(z.cp.confirmed, e.kind, ch)
      /\ d.stopping = z.cp.stopping
    BY <1>2, LandedFacts DEF Same
<1> HIDE DEF s, d
<1>6. w \in Adapters(P) /\ Batched(d, z, w)
    BY <1>3, <1>4, BatchMoves
<1> HIDE DEF w, ch
<1>7. Stands(w, c, L)
    <2>1. ASSUME NEW i \in 1 .. Len(w.pending), w.pending[i].kind \in Asks(w.cp)
          PROVE  Meant(w, c, L, w.pending[i])
        BY <2>1 DEF Asks, Meant
    <2>2. w.hasCp = z.hasCp /\ w.activated = z.activated /\ (z.cp.stopping => w.cp.stopping)
        BY <1>4, <1>6 DEF Batched, SameSession
    <2>3. Adds(z, w, Asks(w.cp))
        BY <1>6 DEF Batched
    <2>4. QED
        BY <2>1, <2>2, <2>3, AdapterStands
<1>8. QED
    BY <1>1, <1>4, <1>6, <1>7 DEF Batched, SameSession, ch

(* Every event but a reply leaves what is in flight. *)
LEMMA EventStands ==
    ASSUME NEW P, PlainEvents \subseteq P, BatchEvents \subseteq P, NEW z \in Adapters(P),
           NEW c \in Conversations, NEW L, Stands(z, c, L), NEW f \in HelperFrames,
           f.type \in ResultFrames => ResultOf(f) \in P, f.type = "ACTIVE" => L,
           ReceiveFrame(c, f).event.kind \notin {"applied", "restored"}
    PROVE  LET w == HelperEventStep(z, ReceiveFrame(c, f).event)
               d == ReceiveFrame(c, f).conv
           IN  /\ w \in Adapters(P) /\ Stands(w, d, L) /\ Stays(z, w)
               /\ d.state = "active" => w.cp = ControlPlaneInit
<1> DEFINE e == ReceiveFrame(c, f).event
           d == ReceiveFrame(c, f).conv
           w == HelperEventStep(z, e)
<1>1. /\ e.kind = "profile_state_unknown" => c.state = "active" /\ Past(d)
      /\ e.kind = "activated" => Early(c) /\ f.type = "ACTIVE"
      /\ d.state = "active" => e.kind = "activated"
      /\ e.kind \in {"workload_exited", "workload_signaled"} =>
            c.state \in {"active", "profile_state_unknown"}
    BY FrameMoves
<1>2. FrameRules(c, f, ReceiveFrame(c, f)) /\ e \in HelperEvents
    BY FrameByFrame, ReceiveFrameTypes
<1>3. e.kind = "activated" => ~Early(d)
    BY <1>2 DEF FrameRules, Answer, Legal, HelperEvent, Early
<1>4. e.kind \in ResultKinds => [kind |-> e.kind, value |-> e.value] \in P
    <2>1. e.kind \in ResultKinds => f.type \in ResultFrames /\ e.value = f.value
                                    /\ e.kind = ResultOf(f).kind
        BY <1>2 DEF FrameRules, Answer, Legal, HelperEvent, ResultKinds, ResultFrames, ResultOf
    <2>2. ResultOf(f) = [kind |-> ResultOf(f).kind, value |-> f.value]
        BY DEF ResultOf
    <2>3. QED
        BY <2>1, <2>2
<1>5. e.kind \in ResultKinds \cup {"activated", "profile_state_unknown", "ready",
                   "cleanup_succeeded", "cleanup_failed", "conversation_lost"}
    BY <1>2 DEF HelperEvents, EventsOf, ResultKinds
<1>6. e.kind # "activated" => Stands(z, d, L)
    BY ConversationStands
<1>7. c.state \in {"active", "profile_state_unknown"} => z.hasCp
    BY DEF Stands
<1> HIDE DEF e, d, w
<1>8. CASE e.kind = "activated"
    <2>1. Early(c) /\ ~Early(d) /\ L
        BY <1>1, <1>3, <1>8
    <2>2. w \in Adapters(P) /\ Stands(w, d, L) /\ Stays(z, w) /\ w.cp = ControlPlaneInit
        BY <1>8, <2>1, ActivatedStands DEF w
    <2>3. QED
        BY <2>2 DEF w, d, e
<1>9. CASE e.kind = "profile_state_unknown"
    <2>1. w \in Adapters(P) /\ Stands(w, d, L) /\ Stays(z, w)
        BY <1>1, <1>6, <1>7, <1>9, UnknownEventStands DEF w
    <2>2. QED
        BY <1>1, <1>9, <2>1 DEF w, d, e
<1>10. CASE e.kind \in {"workload_exited", "workload_signaled"}
    <2>1. [kind |-> e.kind, value |-> e.value] \in P
        BY <1>4, <1>10 DEF ResultKinds
    <2>2. w \in Adapters(P) /\ Stands(w, d, L) /\ Stays(z, w)
        BY <1>1, <1>6, <1>7, <1>10, <2>1, EndEventStands DEF w
    <2>3. QED
        BY <1>1, <1>10, <2>2 DEF w, d, e
<1>11. CASE e.kind \in {"ready", "activation_failed", "cleanup_succeeded", "cleanup_failed",
                        "conversation_lost"}
    <2>1. w \in Adapters(P) /\ Stands(w, d, L) /\ Stays(z, w)
        BY <1>2, <1>4, <1>6, <1>11, PlainEventStands DEF w
    <2>2. QED
        BY <1>1, <1>11, <2>1 DEF w, d, e
<1>12. QED
    BY <1>5, <1>8, <1>9, <1>10, <1>11 DEF ResultKinds

(* What the adapter has after a read, x before it.  Either the change in    *)
(* flight is still the same, or it has been answered and perhaps another    *)
(* one begun.                                                               *)
Begun(x, conv, z) ==
    LET ch == z.cp.inflight.change
    IN  /\ ch \in Changes /\ ~x.cp.stopping /\ CanBeginProfileChange(conv)
        /\ z.conv = BeginProfileChange(conv, ch)
        /\ z.outbox \in {<<>>, Append(<<>>, ChangeCommand(ch))}

Unanswered(x, z) ==
    /\ z.cp.inflight.change = x.cp.inflight.change /\ z.cp.confirmed = x.cp.confirmed
    /\ z.outbox = <<>>

HeadAnswered(x, f, conv, z) ==
    /\ f.type \in {"PROFILE_OK", "PROFILE_FAILED"}
    /\ x.conv.state = "active" /\ x.conv.pending # NoChange
    /\ z.cp.confirmed = IF f.type = "PROFILE_OK"
                          THEN ApplyProfileChange(x.cp.confirmed, x.conv.pending)
                          ELSE x.cp.confirmed
    /\ (z.conv = conv /\ z.outbox = <<>>) \/ Begun(x, conv, z)

Grown(x, z) == (x.hasCp => z.hasCp) /\ (x.cp.stopping => z.cp.stopping)

Heard(x, fs, L, y) ==
    /\ Stands(y, y.conv, L) /\ Grown(x, y) /\ (Past(x.conv) => Past(y.conv))
    /\ \/ /\ Unanswered(x, y) /\ y.conv.pending = NoChange
          /\ y.conv.state = "active" => ~InFlight(y.cp)
       \/ /\ fs # <<>>
          /\ \E conv \in Conversations : conv.pending = NoChange /\ HeadAnswered(x, fs[1], conv, y)

(* What was answered stays answered by the frames that follow. *)
LEMMA AnsweredStays ==
    ASSUME NEW x, NEW f, NEW conv, NEW z, NEW w, HeadAnswered(x, f, conv, z), Stays(z, w)
    PROVE  HeadAnswered(x, f, conv, w)
BY DEF HeadAnswered, Stays, Begun

(* A set of adapters that a read does not leave: it depends on the control  *)
(* plane and on what is said to the Controller, and holds what an event of  *)
(* the helper makes of its members.                                         *)
Carries(P, O) ==
    /\ O \subseteq Adapters(P)
    /\ \A z \in O : \A w \in Adapters(P) :
          w.cp = z.cp /\ w.client = z.client /\ w.texts = z.texts => w \in O
    /\ \A z \in O : \A e \in HelperEvents :
          /\ HelperEventStep(z, e) \in Adapters(P)
          /\ e.kind = "activated" => ~z.hasCp /\ Bare(z)
          /\ e.kind \in {"applied", "restored"} => e.change = z.cp.inflight.change
          => HelperEventStep(z, e) \in O

(* One read: it answers the change in flight by its first frame, or         *)
(* nothing.                                                                 *)
LEMMA ReadMoves ==
    ASSUME NEW P, PlainEvents \subseteq P, BatchEvents \subseteq P, NEW x \in Adapters(P),
           NEW O, Carries(P, O), x \in O,
           NEW fs \in Seq(HelperFrames), fs # <<>>, ResultsIn(P, fs), NEW L,
           Stands(x, x.conv, L), x.outbox = <<>>,
           x.conv.pending # NoChange =>
              x.conv.state = "active" /\ x.cp.inflight.change = x.conv.pending,
           \A i \in 1 .. Len(fs) : fs[i].type = "ACTIVE" => L
    PROVE  LET y == ReadHelperEvents(x, fs)
           IN  y \in Adapters(P) /\ Heard(x, fs, L, y) /\ y \in O
<1> DEFINE r == ReceiveFrames(x.conv, fs)
           b == [x EXCEPT !.conv = r.conv]
           es == r.events
           n == Len(es)
           y == ReadHelperEvents(x, fs)
<1>1. x.conv \in Conversations
    BY DEF Adapters
<1>2. PICK cv : OneByOne(x.conv, fs, r, cv)
    BY <1>1, FramesOneByOne
<1>3. y = HS!Fold(b, es)
    BY DEF ReadHelperEvents, FoldLeft, MapThenFoldSet, HS!Fold, HS!Largest, Max
<1> HIDE DEF r, y
<1>4. /\ b \in Adapters(P) /\ b.pending = x.pending /\ b.cp = x.cp /\ b.conv = r.conv
      /\ b.outbox = x.outbox /\ b.hasCp = x.hasCp /\ b.client = x.client
      /\ b.activated = x.activated /\ b.texts = x.texts
    BY <1>1, <1>2 DEF Adapters, OneByOne
<1> HIDE DEF b
<1>5. /\ es \in Seq(HelperEvents) /\ n \in Nat /\ n <= Len(fs) /\ r.conv = cv[n] /\ cv[0] = x.conv
    BY <1>2 DEF OneByOne
<1>6. Stands(b, x.conv, L) /\ Grown(x, b) /\ Unanswered(x, b) /\ b \in O
    <2>1. Stands(b, x.conv, L) /\ Grown(x, b) /\ Unanswered(x, b)
        BY <1>4 DEF Stands, Meant, Bare, Grown, Unanswered
    <2>2. b \in O
        BY <1>4 DEF Carries
    <2>3. QED
        BY <2>1, <2>2
<1> DEFINE Common(i, z) == /\ z \in Adapters(P) /\ Stands(z, cv[i], L) /\ Grown(x, z)
                           /\ z.conv.state = r.conv.state /\ (Past(x.conv) => Past(cv[i]))
                           /\ cv[i].pending = NoChange /\ z \in O
           Old(i, z) == /\ Unanswered(x, z) /\ z.conv = r.conv
                        /\ cv[i].state = "active" => ~InFlight(z.cp)
           T == [i \in 0 .. n |-> IF i = 0 THEN {b}
                   ELSE {z \in Adapters(P) : Common(i, z)
                           /\ (Old(i, z) \/ HeadAnswered(x, fs[1], r.conv, z))}]
<1>7. ASSUME NEW i \in 1 .. n
      PROVE  /\ fs[i] \in HelperFrames /\ cv[i - 1] \in Conversations
             /\ cv[i] = ReceiveFrame(cv[i - 1], fs[i]).conv
             /\ es[i] = ReceiveFrame(cv[i - 1], fs[i]).event /\ es[i] \in HelperEvents
             /\ (fs[i].type \in ResultFrames => ResultOf(fs[i]) \in P)
             /\ (fs[i].type = "ACTIVE" => L)
             /\ cv[i].pending = NoChange /\ (Past(cv[i - 1]) => Past(cv[i]))
    <2>1. i \in 1 .. Len(fs)
        BY <1>5
    <2>2. /\ fs[i] \in HelperFrames /\ (fs[i].type \in ResultFrames => ResultOf(fs[i]) \in P)
          /\ (fs[i].type = "ACTIVE" => L)
        BY <2>1, ElementOf DEF ResultsIn
    <2>3. /\ cv[i - 1] \in Conversations /\ cv[i] = ReceiveFrame(cv[i - 1], fs[i]).conv
          /\ es[i] = ReceiveFrame(cv[i - 1], fs[i]).event
        BY <1>2 DEF OneByOne
    <2>4. cv[i].pending = NoChange /\ (Past(cv[i - 1]) => Past(cv[i]))
        BY <2>3, FrameMoves
    <2>5. es[i] \in HelperEvents
        BY <2>2, <2>3, ReceiveFrameTypes
    <2>6. QED
        BY <2>2, <2>3, <2>4, <2>5
<1>8. b \in T[0]
    BY <1>5
<1>9. ASSUME NEW i \in 1 .. n, NEW z \in T[i - 1] PROVE HelperEventStep(z, es[i]) \in T[i]
    <2> DEFINE c == cv[i - 1]
               d == cv[i]
               f == fs[i]
               e == es[i]
               w == HelperEventStep(z, e)
    <2>0. i \in 0 .. n /\ i - 1 \in 0 .. n /\ i # 0 /\ i \in Nat /\ (i - 1 = 0 => i = 1)
        BY <1>5
    <2>1. /\ f \in HelperFrames /\ c \in Conversations /\ d = ReceiveFrame(c, f).conv
          /\ e = ReceiveFrame(c, f).event /\ e \in HelperEvents
          /\ (f.type \in ResultFrames => ResultOf(f) \in P) /\ (f.type = "ACTIVE" => L)
          /\ d.pending = NoChange /\ (Past(c) => Past(d))
        BY <1>7
    <2>2. /\ z \in Adapters(P) /\ Stands(z, c, L) /\ Grown(x, z) /\ z.conv.state = r.conv.state
          /\ (Past(x.conv) => Past(c)) /\ z \in O
        <3>1. CASE i - 1 = 0
            BY <1>4, <1>5, <1>6, <2>0, <3>1
        <3>2. CASE i - 1 # 0
            BY <2>0, <3>2
        <3>3. QED
            BY <3>1, <3>2
    <2>3. i - 1 = 0 => z = b /\ c = x.conv /\ f = fs[1]
        BY <1>5, <2>0
    <2>4. i - 1 # 0 => c.pending = NoChange /\ (Old(i - 1, z) \/ HeadAnswered(x, fs[1], r.conv, z))
        BY <2>0
    <2>5. w \in T[i] <=> w \in Adapters(P) /\ Common(i, w)
                         /\ (Old(i, w) \/ HeadAnswered(x, fs[1], r.conv, w))
        BY <2>0
    <2> HIDE DEF T, c, d, f, e, w
    <2>9. ASSUME w \in Adapters(P), e.kind \in {"applied", "restored"} =>
                                       e.change = z.cp.inflight.change
          PROVE  w \in O
        <3>1. e.kind = "activated" => Early(c)
            BY <2>1, FrameMoves
        <3>2. e.kind = "activated" => ~z.hasCp /\ Bare(z)
            BY <2>2, <3>1 DEF Stands
        <3>3. QED
            BY <2>1, <2>2, <2>9, <3>2 DEF Carries, w
    <2>6. CASE e.kind \notin {"applied", "restored"}
        <3>1. /\ w \in Adapters(P) /\ Stands(w, d, L) /\ Stays(z, w)
              /\ d.state = "active" => w.cp = ControlPlaneInit
            BY <2>1, <2>2, <2>6, EventStands DEF w
        <3>2. Common(i, w)
            <4>1. w \in O
                BY <2>6, <2>9, <3>1
            <4>2. QED
                BY <2>1, <2>2, <3>1, <4>1 DEF Grown, Stays, d
        <3>3. Unanswered(x, z) /\ z.conv = r.conv => Old(i, w)
            BY <3>1 DEF Unanswered, Stays, InFlight, ControlPlaneInit, d
        <3>4. HeadAnswered(x, fs[1], r.conv, z) => HeadAnswered(x, fs[1], r.conv, w)
            BY <3>1, AnsweredStays
        <3>5. (Unanswered(x, z) /\ z.conv = r.conv) \/ HeadAnswered(x, fs[1], r.conv, z)
            BY <1>4, <1>6, <2>3, <2>4
        <3>6. QED
            BY <2>5, <3>1, <3>2, <3>3, <3>4, <3>5 DEF w, e
    <2>7. CASE e.kind \in {"applied", "restored"}
        <3>1. /\ c.state = "active" /\ c.pending # NoChange /\ e.change = c.pending
              /\ f.type = IF e.kind = "applied" THEN "PROFILE_OK" ELSE "PROFILE_FAILED"
            BY <2>1, <2>7, FrameMoves
        <3>2. z = b /\ c = x.conv /\ f = fs[1]
            BY <2>3, <2>4, <3>1
        <3>3. e.change = z.cp.inflight.change /\ e.change = x.conv.pending
            BY <1>4, <3>1, <3>2
        <3>4. Stands(z, d, L)
            BY <2>1, <2>2, <2>7, ConversationStands
        <3>5. z.hasCp
            BY <2>2, <3>1 DEF Stands
        <3>6. /\ w \in Adapters(P) /\ Stands(w, d, L)
              /\ w.hasCp /\ (z.cp.stopping => w.cp.stopping)
              /\ w.cp.confirmed = Confirmed(z.cp.confirmed, e.kind, e.change)
              /\ w.conv.state = z.conv.state /\ (Quiet(z, w) \/ Dispatched(z, w))
            BY <2>1, <2>2, <2>7, <3>3, <3>4, <3>5, ReplyEventStands DEF w
        <3>7. Common(i, w)
            <4>1. Grown(x, w)
                BY <2>2, <3>6 DEF Grown
            <4>2. w \in O
                BY <2>9, <3>3, <3>6
            <4>3. QED
                BY <2>1, <2>2, <3>6, <4>1, <4>2 DEF d
        <3>8. w.cp.confirmed = IF f.type = "PROFILE_OK"
                                 THEN ApplyProfileChange(x.cp.confirmed, x.conv.pending)
                                 ELSE x.cp.confirmed
            BY <1>4, <2>7, <3>1, <3>2, <3>3, <3>6 DEF Confirmed
        <3>9. Dispatched(z, w) => Begun(x, r.conv, w)
            BY <1>4, <3>2, <3>6 DEF Dispatched, Begun
        <3>10. Quiet(z, w) => w.conv = r.conv /\ w.outbox = <<>>
            BY <1>4, <3>2 DEF Quiet
        <3>11. HeadAnswered(x, fs[1], r.conv, w)
            BY <2>7, <3>1, <3>2, <3>6, <3>8, <3>9, <3>10 DEF HeadAnswered
        <3>12. QED
            BY <2>5, <3>6, <3>7, <3>11 DEF w, e
    <2>8. QED
        BY <2>6, <2>7
<1> HIDE DEF T
<1>10. HS!Fold(b, es) \in T[n]
    BY <1>5, <1>8, <1>9, HS!FoldAdvances
<1>11. CASE n = 0
    <2>1. y = b /\ r.conv = x.conv
        BY <1>3, <1>5, <1>10, <1>11 DEF T
    <2>2. x.conv.state = "failed"
        <3>1. es = <<>>
            BY <1>5, <1>11
        <3>2. QED
            BY <1>2, <3>1 DEF OneByOne
    <2>3. Unanswered(x, y) /\ y.conv.pending = NoChange /\ y.conv.state # "active"
        BY <1>4, <1>6, <2>1, <2>2
    <2>4. QED
        BY <1>4, <1>6, <2>1, <2>3 DEF Heard, y
<1>12. CASE n # 0
    <2>1. /\ y \in Adapters(P) /\ Common(n, y) /\ (Old(n, y) \/ HeadAnswered(x, fs[1], r.conv, y))
        BY <1>3, <1>5, <1>10, <1>12 DEF T
    <2>2. Stands(y, y.conv, L) /\ (Past(x.conv) => Past(y.conv))
        BY <1>5, <2>1 DEF Stands, Meant, Early, Past
    <2>3. Old(n, y) => Unanswered(x, y) /\ y.conv.pending = NoChange
                       /\ (y.conv.state = "active" => ~InFlight(y.cp))
        BY <1>5, <2>1
    <2>4. r.conv.pending = NoChange /\ r.conv \in Conversations
        BY <1>2, <1>5, <2>1 DEF OneByOne
    <2>5. QED
        BY <2>1, <2>2, <2>3, <2>4 DEF Heard, y
<1>13. QED
    BY <1>11, <1>12

(* The end of the stream answers nothing. *)
LEMMA ReadEndMoves ==
    ASSUME NEW P, PlainEvents \subseteq P, NEW x \in Adapters(P), NEW L,
           NEW O, Carries(P, O), x \in O,
           Stands(x, x.conv, L), x.outbox = <<>>,
           x.conv.pending # NoChange => x.conv.state = "active"
    PROVE  LET y == ReadHelperEvents(x, <<>>)
           IN  y \in Adapters(P) /\ Heard(x, <<>>, L, y) /\ y \in O
<1> DEFINE r == PeerClosed(x.conv)
           b == [x EXCEPT !.conv = r.conv]
           lost == HelperEvent("conversation_lost", 0, NoChange)
           y == ReadHelperEvents(x, <<>>)
           es == r.events
           z == Push(b, "conversation_lost", 0)
<1>1. x.conv \in Conversations
    BY DEF Adapters
<1>2. y = HS!Fold(b, es)
    BY DEF ReadHelperEvents, FoldLeft, MapThenFoldSet, HS!Fold, HS!Largest, Max
<1>3. \/ x.conv.state \in {"failed", "finished"} /\ r.conv = x.conv /\ es = <<>>
      \/ r.conv = [state |-> "failed", pending |-> NoChange] /\ es = <<lost>>
    BY DEF PeerClosed
<1>4. [state |-> "failed", pending |-> NoChange] \in Conversations
    BY DEF Conversations, ConversationStates
<1>5. HelperEventStep(b, lost) = z
    BY DEF HelperEventStep, lost, HelperEvent
<1> HIDE DEF r, y, es, lost, z
<1>6. r.conv \in Conversations
    BY <1>1, <1>3, <1>4
<1>7. /\ b \in Adapters(P) /\ b.pending = x.pending /\ b.cp = x.cp /\ b.conv = r.conv
      /\ b.outbox = x.outbox /\ b.hasCp = x.hasCp /\ b.client = x.client
      /\ b.activated = x.activated /\ b \in O
    <2>1. /\ b \in Adapters(P) /\ b.pending = x.pending /\ b.cp = x.cp /\ b.conv = r.conv
          /\ b.outbox = x.outbox /\ b.hasCp = x.hasCp /\ b.client = x.client
          /\ b.activated = x.activated /\ b.texts = x.texts
        BY <1>6 DEF Adapters
    <2> HIDE DEF b
    <2>2. QED
        BY <2>1 DEF Carries
<1> HIDE DEF b
<1>8. CASE x.conv.state \in {"failed", "finished"} /\ r.conv = x.conv /\ es = <<>>
    <2>1. <<>> \in Seq({}) /\ 1 .. Len(<<>>) = {} /\ b \in {b}
        OBVIOUS
    <2>2. HS!Fold(b, <<>>) \in {b}
        BY <2>1, HS!FoldStaysIn
    <2>3. y = b
        BY <1>2, <1>8, <2>2
    <2>4. Stands(b, b.conv, L) /\ Grown(x, b) /\ Unanswered(x, b)
        BY <1>7, <1>8 DEF Stands, Meant, Bare, Grown, Unanswered
    <2>5. b.conv.pending = NoChange /\ b.conv.state # "active" /\ b.conv = x.conv
        BY <1>7, <1>8
    <2>6. QED
        BY <1>7, <2>3, <2>4, <2>5 DEF Heard, y
<1>9. CASE r.conv = [state |-> "failed", pending |-> NoChange] /\ es = <<lost>>
    <2>1. <<lost>> \in Seq({lost}) /\ Len(<<lost>>) = 1 /\ <<lost>>[1] = lost
        OBVIOUS
    <2> DEFINE T == [i \in 0 .. 1 |-> IF i = 0 THEN {b} ELSE {z}]
    <2>2. T[0] = {b} /\ T[1] = {z}
        BY DEF T
    <2>3. ASSUME NEW i \in 1 .. Len(es), NEW q \in T[i - 1] PROVE HelperEventStep(q, es[i]) \in T[i]
        <3>1. i = 1 /\ i - 1 = 0
            BY <1>9, <2>1
        <3>2. QED
            BY <1>5, <1>9, <2>1, <2>2, <3>1
    <2> HIDE DEF T
    <2>4. y = z
        <3>1. HS!Fold(b, es) \in T[Len(es)]
            BY <1>9, <2>1, <2>2, <2>3, HS!FoldAdvances
        <3>2. QED
            BY <1>2, <1>9, <2>1, <2>2, <3>1
    <2>5. Stands(b, b.conv, L) /\ Past(b.conv)
        BY <1>7, <1>9 DEF Stands, Meant, Bare, Past, Early
    <2>6. Meant(b, b.conv, L, [kind |-> "conversation_lost", value |-> 0])
        BY DEF Meant
    <2>7. [kind |-> "conversation_lost", value |-> 0] \in P
        BY PlainPairs
    <2>8. Stands(z, b.conv, L) /\ Stays(b, z) /\ z \in Adapters(P)
        BY <1>7, <2>5, <2>6, <2>7, PushStands DEF z
    <2>9. z.conv = b.conv /\ b.conv.pending = NoChange /\ b.conv.state # "active"
        BY <1>7, <1>9, <2>8 DEF Stays
    <2>10. Grown(x, z) /\ Unanswered(x, z)
        BY <1>7, <2>8 DEF Grown, Unanswered, Stays
    <2>11. z \in O
        <3>1. z.cp = b.cp /\ z.client = b.client /\ z.texts = b.texts
            BY <1>7, <2>7, PushFacts DEF z
        <3>2. QED
            BY <1>7, <2>8, <3>1 DEF Carries
    <2>12. QED
        BY <2>4, <2>5, <2>8, <2>9, <2>10, <2>11 DEF Heard, y
<1>10. QED
    BY <1>3, <1>8, <1>9

(* The invariant before and after a read. *)
LEMMA LinkedIsStanding ==
    ASSUME NEW x, NEW L, Linked(x, L), x.pending = <<>>
    PROVE  Stands(x, x.conv, L)
<1>1. \A i \in 1 .. Len(<<>>) : FALSE
    OBVIOUS
<1>2. QED
    BY <1>1 DEF Linked, Stands, Bare

LEMMA HeardFields ==
    ASSUME NEW x, NEW z, NEW y, NEW fs, NEW L, Heard(x, fs, L, y), SameFields(z, x)
    PROVE  Heard(z, fs, L, y)
BY DEF Heard, SameFields, Grown, Unanswered, HeadAnswered, Begun

(* What the helper has said is installed. *)
LEMMA HeardLinked ==
    ASSUME NEW x, NEW fs, NEW L, NEW y, Heard(x, fs, L, y), Linked(x, L), NEW z, SameFields(y, z)
    PROVE  Linked(z, L)
<1>1. y.conv.pending # NoChange =>
         y.conv.state = "active" /\ y.cp.inflight.change = y.conv.pending
    BY DEF Heard, HeadAnswered, Begun, CanBeginProfileChange, BeginProfileChange, Conversations
<1>2. ASSUME NEW i \in 1 .. Len(y.pending) PROVE Means(y, L, y.pending[i])
    BY DEF Heard, Stands, Meant, Means, Past
<1>3. Linked(y, L)
    BY <1>1, <1>2 DEF Heard, Stands, Linked, Bare
<1>4. QED
    BY <1>3, LinkedFields DEF SameFields

(* The channel when nothing is left in it, *)
LEMMA EmptyChannel ==
    ASSUME frames' = <<>>, todo' = todo, ~HasChange(commands'), ~HasChange(todo)
    PROVE  ChannelInv'
<1>1. \A c : LeadsWith(commands', c) /\ LeadsWith(todo', c)
    BY DEF HasChange, LeadsWith
<1>2. \A i \in 1 .. Len(<<>>) : FALSE
    OBVIOUS
<1>3. OneReply(frames') /\ ~HasReply(frames')
    BY <1>2 DEF OneReply, HasReply
<1>4. \A i \in 1 .. Len(frames') : FALSE
    BY <1>2
<1>5. ~HasChange(todo')
    OBVIOUS
<1>6. QED
    BY <1>1, <1>3, <1>4, <1>5 DEF ChannelInv, Underway

(* and when the next change has been written. *)
LEMMA BegunChannel ==
    ASSUME frames' = <<>>, todo' = todo, ~HasChange(todo), NEW c \in Changes,
           commands' \in {<<>>, <<ChangeCommand(c)>>}, ad'.cp.inflight.change = c,
           ad'.conv.pending = c, profile' = ad'.cp.confirmed
    PROVE  ChannelInv'
<1>1. \A d : LeadsWith(todo', d)
    BY DEF HasChange, LeadsWith
<1>2. \A i \in 1 .. Len(<<>>) : FALSE
    OBVIOUS
<1>3. OneReply(frames') /\ ~HasReply(frames')
    BY <1>2 DEF OneReply, HasReply
<1>4. \A i \in 1 .. Len(frames') : FALSE
    BY <1>2
<1>5. LeadsWith(commands', c)
    <2>1. Len(<<ChangeCommand(c)>>) = 1 /\ <<ChangeCommand(c)>>[1].change = c
        BY DEF ChangeCommand
    <2>2. \A i \in 1 .. 1 : i = 1
        OBVIOUS
    <2>3. QED
        BY <1>2, <2>1, <2>2 DEF LeadsWith
<1>6. c # NoChange /\ ~HasChange(todo')
    BY NoChangeAssumption
<1>7. QED
    BY <1>1, <1>3, <1>4, <1>5, <1>6 DEF ChannelInv, Underway

(* A read that answers nothing. *)
LEMMA UnansweredChannel ==
    ASSUME ChannelInv, NEW y, ad.cp \in ControlPlanes, y.cp \in ControlPlanes, Unanswered(ad, y),
           y.conv.state = "active" => ~InFlight(y.cp),
           ad'.cp = y.cp, ad'.conv = y.conv, frames' = <<>>, UNCHANGED <<commands, todo, profile>>
    PROVE  ChannelInv'
<1>1. InFlight(ad.cp) <=> InFlight(y.cp)
    BY FlightOfChange DEF Unanswered
<1>2. CASE ~InFlight(ad.cp)
    <2>1. ~HasChange(commands') /\ ~HasChange(todo)
        BY <1>2, NothingUnderway
    <2>2. QED
        BY <2>1, EmptyChannel
<1>3. CASE InFlight(ad.cp)
    <2>1. \A i \in 1 .. Len(<<>>) : FALSE
        OBVIOUS
    <2>2. OneReply(frames') /\ ~HasReply(frames') /\ \A i \in 1 .. Len(frames') : FALSE
        BY <2>1 DEF OneReply, HasReply
    <2>3. ad'.conv.state # "active"
        BY <1>1, <1>3
    <2>4. /\ LeadsWith(commands', ad'.cp.inflight.change)
          /\ LeadsWith(todo', ad'.cp.inflight.change)
          /\ HasChange(commands') => ~HasChange(todo')
          /\ HasChange(commands') \/ HasChange(todo') => profile' = ad'.cp.confirmed
        BY DEF ChannelInv, Unanswered
    <2>5. QED
        BY <2>2, <2>3, <2>4 DEF ChannelInv
<1>4. QED
    BY <1>2, <1>3

(* A read of the helper's frames keeps the invariant. *)
LEMMA HeardStep ==
    ASSUME SessionInv, ChangeInvariant, NEW y, y.cp \in ControlPlanes,
           Heard(ad, frames, Launched, y),
           SameFields(y, ad'), ad'.outbox = <<>>, commands' = commands \o y.outbox, frames' = <<>>,
           UNCHANGED <<helperVars, workVars, lcVars>>, "helper" \notin ready', lc \in States
    PROVE  ChangeInvariant'
<1> USE DEF helperVars, workVars, lcVars
<1>1. /\ ad.cp \in ControlPlanes /\ ad.conv \in Conversations
      /\ commands \in Seq(HelperCommands) /\ Launched' = Launched
    BY DEF SessionInv, AdapterInv, GoodAndLate, GoodAdapters, Adapters, MessageInv, Launched
<1>2. ad'.cp = y.cp /\ ad'.conv = y.conv /\ ad'.hasCp = y.hasCp
    BY DEF SameFields
<1>3. Linked(ad', Launched) /\ Grown(ad, y) /\ (Past(ad.conv) => Past(y.conv))
    BY HeardLinked DEF ChangeInvariant, Heard
<1>4. StopsInv' /\ CycleInv' /\ (lc = "active" => ad'.hasCp)
    <2>1. Early(ad.conv) => ~ad.hasCp
        BY DEF ChangeInvariant, Linked
    <2>2. StopsInv'
        BY <1>2, <1>3, <2>1 DEF ChangeInvariant, StopsInv, Grown, Past
    <2>3. QED
        BY <1>2, <1>3, <2>2 DEF CycleInv, ChangeInvariant, StartInv, Grown
<1>5. \A i \in 1 .. Len(frames') : FALSE
    OBVIOUS
<1>6. ASSUME commands' = commands PROVE StartInv' /\ RuntimeInv'
    BY <1>1, <1>2, <1>4, <1>5, <1>6 DEF ChangeInvariant, StartInv, RuntimeInv, States
<1>7. y.outbox = <<>> => commands' = commands
    <2>1. commands \o <<>> = commands
        BY <1>1
    <2>2. QED
        BY <2>1
<1>8. CASE Unanswered(ad, y) /\ y.conv.pending = NoChange
           /\ (y.conv.state = "active" => ~InFlight(y.cp))
    <2>1. commands' = commands
        BY <1>7, <1>8 DEF Unanswered
    <2>2. ChannelInv'
        BY <1>1, <1>2, <1>8, <2>1, UnansweredChannel DEF ChangeInvariant
    <2>3. InFlight(ad.cp) <=> InFlight(y.cp)
        BY <1>1, <1>8, FlightOfChange DEF Unanswered
    <2>4. Balanced(ad'.cp, profile)
        BY <1>2, <1>8, <2>3 DEF ChangeInvariant, Balanced, Unanswered
    <2>5. QED
        BY <1>1, <1>3, <1>4, <1>6, <2>1, <2>2, <2>4 DEF ChangeInvariant
<1>9. CASE frames # <<>> /\ \E conv \in Conversations :
              conv.pending = NoChange /\ HeadAnswered(ad, frames[1], conv, y)
    <2>1. PICK conv \in Conversations :
              conv.pending = NoChange /\ HeadAnswered(ad, frames[1], conv, y)
        BY <1>9
    <2>2. 1 \in 1 .. Len(frames) /\ IsReply(frames[1])
        <3>1. frames \in Seq(TrueFrames)
            BY DEF SessionInv, MessageInv
        <3>2. 1 \in 1 .. Len(frames)
            BY <1>9, <3>1
        <3>3. QED
            BY <2>1, <3>2 DEF IsReply, Replies, HeadAnswered
    <2>3. ~HasChange(commands) /\ ~HasChange(todo) /\ ad.cp.inflight.change = ad.conv.pending
          /\ ad.conv.state = "active"
        BY <2>1, <2>2 DEF ChangeInvariant, ChannelInv, HasReply, Linked, HeadAnswered
    <2>4. profile = y.cp.confirmed
        BY <2>1, <2>2, <2>3 DEF ChangeInvariant, ChannelInv, HeadAnswered
    <2>5. Balanced(ad'.cp, profile)
        BY <1>2, <2>4 DEF Balanced
    <2>6. CASE y.conv = conv /\ y.outbox = <<>>
        <3>1. commands' = commands
            BY <1>7, <2>6
        <3>2. ChannelInv'
            BY <2>3, <3>1, EmptyChannel
        <3>3. QED
            BY <1>1, <1>3, <1>4, <1>6, <2>5, <3>1, <3>2 DEF ChangeInvariant
    <2>7. CASE Begun(ad, conv, y)
        <3> DEFINE c == y.cp.inflight.change
        <3>1. c \in Changes /\ ~ad.cp.stopping /\ y.conv.pending = c
            BY <2>7 DEF Begun, BeginProfileChange, Conversations
        <3>2. commands = <<>> /\ Launched /\ ~runtime.stopping
            BY <1>1, <2>3, <3>1, FreeToDispatch
        <3>3. commands' \in {<<>>, <<ChangeCommand(c)>>}
            <4>1. y.outbox \in {<<>>, Append(<<>>, ChangeCommand(c))}
                BY <2>7 DEF Begun
            <4>2. <<>> \o <<>> = <<>> /\ Append(<<>>, ChangeCommand(c)) = <<ChangeCommand(c)>>
                  /\ <<>> \o <<ChangeCommand(c)>> = <<ChangeCommand(c)>>
                OBVIOUS
            <4>3. QED
                BY <3>2, <4>1, <4>2
        <3>4. ad'.cp.inflight.change = c /\ ad'.conv.pending = c
            BY <1>2, <3>1
        <3>5. ChannelInv'
            BY <1>2, <2>3, <2>4, <3>1, <3>3, <3>4, BegunChannel
        <3>6. \A i \in 1 .. Len(commands') : commands'[i].change # NoChange
            <4>1. \A i \in 1 .. Len(<<ChangeCommand(c)>>) : <<ChangeCommand(c)>>[i].change = c
                BY DEF ChangeCommand
            <4>2. \A i \in 1 .. Len(<<>>) : FALSE
                OBVIOUS
            <4>3. QED
                BY <3>1, <3>3, <4>1, <4>2, NoChangeAssumption
        <3>7. StartInv'
            BY <1>1, <1>4, <1>5, <3>2, <3>6 DEF ChangeInvariant, StartInv, States
        <3>8. RuntimeInv'
            BY <1>1, <3>2 DEF ChangeInvariant, RuntimeInv
        <3>9. QED
            BY <1>1, <1>3, <1>4, <2>5, <3>5, <3>7, <3>8 DEF ChangeInvariant
    <2>8. QED
        BY <2>1, <2>6, <2>7 DEF HeadAnswered
<1>10. QED
    BY <1>8, <1>9 DEF Heard

LEMMA WhatIsHeard ==
    ASSUME SessionInv, ChangeInvariant, "helper" \in ready, NEW fails \in BOOLEAN,
           NEW O, Carries(TrueEvents, O), Now(fails) \in O
    PROVE  LET y == ReadHelperEvents(Now(fails), frames)
           IN  y \in Adapters(TrueEvents) /\ Heard(Now(fails), frames, Launched, y) /\ y \in O
<1> DEFINE P == TrueEvents
           x == Now(fails)
           y == ReadHelperEvents(x, frames)
<1>1. HelperInv /\ AdapterInv /\ MessageInv /\ ad \in Adapters(P) /\ frames \in Seq(TrueFrames)
    BY DEF SessionInv, AdapterInv, GoodAndLate, GoodAdapters, MessageInv
<1>2. BatchEvents \subseteq P /\ PlainEvents \subseteq P
    BY TrueSetting, SettingFacts DEF Setting
<1>3. x \in Adapters(P)
    BY <1>1, NowKeeps DEF GoodAndLate, GoodAdapters
<1>4. frames \in Seq(HelperFrames) /\ ResultsIn(P, frames)
    BY <1>1, TrueResults
<1>5. Carries(P, O)
    OBVIOUS
<1> HIDE DEF P
<1>6. SameFields(ad, x) /\ x.outbox = ad.outbox
    BY <1>1, NowFields
<1> HIDE DEF x
<1>7. /\ x.outbox = <<>> /\ Linked(x, Launched) /\ x.pending = <<>>
      /\ \A i \in 1 .. Len(frames) : frames[i].type = "ACTIVE" => Launched
    <2>1. Linked(ad, Launched) /\ ad.pending = <<>> /\ ad.outbox = <<>>
          /\ \A i \in 1 .. Len(frames) : frames[i].type = "ACTIVE" => Launched
        BY DEF ChangeInvariant, CycleInv, StartInv
    <2>2. Linked(x, Launched)
        BY <1>6, <2>1, LinkedFields DEF SameFields
    <2>3. QED
        BY <1>6, <2>1, <2>2 DEF SameFields
<1>8. Stands(x, x.conv, Launched)
    BY <1>7, LinkedIsStanding
<1>9. x.conv.pending # NoChange =>
         x.conv.state = "active" /\ x.cp.inflight.change = x.conv.pending
    BY <1>7 DEF Linked
<1>10. x \in O
    BY DEF x
<1>11. y \in Adapters(P) /\ Heard(x, frames, Launched, y) /\ y \in O
    <2>1. CASE frames = <<>>
        <3> DEFINE e == ReadHelperEvents(x, <<>>)
        <3>1. e \in Adapters(P) /\ Heard(x, <<>>, Launched, e) /\ e \in O
            BY <1>2, <1>3, <1>5, <1>7, <1>8, <1>9, <1>10, ReadEndMoves
        <3>2. QED
            BY <2>1, <3>1
    <2>2. CASE frames # <<>>
        BY <1>2, <1>3, <1>4, <1>5, <1>7, <1>8, <1>9, <1>10, <2>2, ReadMoves
    <2>3. QED
        BY <2>1, <2>2
<1>12. QED
    BY <1>11 DEF x, P

LEMMA ReadHelperStep ==
    ASSUME SessionInv, ChangeInvariant, ReadHelper
    PROVE  ChangeInvariant'
<1> DEFINE P == TrueEvents
<1>1. HelperInv /\ AdapterInv /\ ad \in Adapters(P)
    BY DEF SessionInv, AdapterInv, GoodAndLate, GoodAdapters
<1>2. /\ "helper" \in ready /\ lc \in States /\ frames' = <<>> /\ ready' = ready \ {"helper"}
      /\ UNCHANGED <<helperVars, workVars, lcVars>>
    BY DEF ReadHelper, Turn, Handled
<1>3. PICK fails \in BOOLEAN : Install(ReadHelperEvents(Now(fails), frames), <<>>)
    BY DEF ReadHelper
<1> DEFINE x == Now(fails)
           y == ReadHelperEvents(x, frames)
<1>4. x \in Adapters(P)
    BY <1>1, NowKeeps DEF GoodAndLate, GoodAdapters
<1>5. Carries(P, Adapters(P))
    <2> HIDE DEF P
    <2>1. QED
        BY DEF Carries
<1>6. y \in Adapters(P) /\ Heard(x, frames, Launched, y)
    <2> DEFINE O == Adapters(P)
    <2>1. Carries(TrueEvents, O) /\ Now(fails) \in O
        BY <1>4, <1>5
    <2> HIDE DEF O
    <2>2. QED
        BY <1>2, <2>1, WhatIsHeard
<1> HIDE DEF P
<1>7. SameFields(ad, x)
    BY <1>1, NowFields
<1> HIDE DEF y
<1>8. Install(y, <<>>)
    BY <1>3 DEF y, x
<1> HIDE DEF x
<1>9. SameFields(y, ad') /\ ad'.outbox = <<>> /\ commands' = commands \o y.outbox
    BY <1>6, <1>8, InstallFields
<1>10. Heard(ad, frames, Launched, y) /\ y.cp \in ControlPlanes
    BY <1>6, <1>7, HeardFields DEF Adapters
<1>11. QED
    BY <1>2, <1>9, <1>10, HeardStep

-----------------------------------------------------------------------------
(* The lifecycle: what one event may start. *)
LEMMA HandlePaths ==
    ASSUME NEW e, NEW sent, Handle(e, sent)
    PROVE  /\ lc \in States /\ lc' # "begin"
           /\ lc' = "active" => lc = "active" \/ e.kind = "activated"
           /\ \/ stops' = stops
              \/ lc = "active" /\ \E s \in {"TERM", "KILL"} : stops' = Append(stops, s)
           /\ stopStage' # "none" \/ stops' # stops =>
                 \/ stopStage # "none"
                 \/ /\ lc = "active"
                    /\ e.kind \in {"terminal_interrupt", "stop_requested", "profile_state_unknown"}
<1>1. lc \in States
    BY DEF Handle
<1> USE DEF States
<1>2. CASE Ignore(e)
    BY <1>1, <1>2 DEF Ignore, lcVars
<1>3. CASE LeaveLoop(e)
    BY <1>1, <1>3 DEF LeaveLoop
<1>4. CASE Activate(e) \/ FailActivation(e)
    BY <1>1, <1>4 DEF Activate, FailActivation
<1>5. CASE UnknownProfile(e, sent)
    BY <1>1, <1>5 DEF UnknownProfile, RequestStop
<1>6. CASE FirstInterrupt(e)
    BY <1>1, <1>6 DEF FirstInterrupt
<1>7. CASE RepeatedInterrupt(e, sent)
    BY <1>1, <1>7 DEF RepeatedInterrupt, RequestStop
<1>8. CASE StopRequested(e, sent)
    BY <1>1, <1>8 DEF StopRequested, RequestStop
<1>9. CASE DeadlineExpired(e, sent)
    BY <1>1, <1>9 DEF DeadlineExpired, RequestStop
<1>10. CASE WorkloadFinished(e)
    BY <1>1, <1>10 DEF WorkloadFinished
<1>11. QED
    BY <1>2, <1>3, <1>4, <1>5, <1>6, <1>7, <1>8, <1>9, <1>10 DEF Handle

(* What is put at the end leaves the first one first. *)
LEMMA AppendedFirst ==
    ASSUME NEW X, NEW s \in Seq(X), NEW c \in X
    PROVE  /\ Append(s, c) \in Seq(X) /\ Append(s, c) # <<>>
           /\ s # <<>> => Append(s, c)[1] = s[1]
<1>1. Append(s, c) \in Seq(X) /\ Len(Append(s, c)) = Len(s) + 1 /\ Len(s) \in Nat
    OBVIOUS
<1>2. Append(s, c) # <<>>
    BY <1>1
<1>3. ASSUME s # <<>> PROVE Append(s, c)[1] = s[1]
    <2>1. 1 \in 1 .. Len(s)
        BY <1>3
    <2>2. QED
        BY <2>1
<1>4. QED
    BY <1>1, <1>2, <1>3

(* A command that carries no change, sent after the others. *)
LEMMA SentLast ==
    ASSUME NEW X, NEW s \in Seq(X), NEW c \in X, c.change = NoChange
    PROVE  /\ HasChange(Append(s, c)) <=> HasChange(s)
           /\ \A d : LeadsWith(s, d) => LeadsWith(Append(s, c), d)
           /\ \A i \in 1 .. Len(Append(s, c)) :
                 Append(s, c)[i] = c \/ \E j \in 1 .. Len(s) : Append(s, c)[i] = s[j]
<1> DEFINE t == Append(s, c)
           n == Len(s)
<1>1. /\ n \in Nat /\ Len(t) = n + 1 /\ t[n + 1] = c
      /\ \A i \in 1 .. n : t[i] = s[i]
    OBVIOUS
<1>2. /\ \A i \in 1 .. n + 1 : i \in 1 .. n \/ i = n + 1
      /\ \A i \in 1 .. n : i \in 1 .. n + 1
    BY <1>1
<1> HIDE DEF t
<1>3. HasChange(t) <=> HasChange(s)
    BY <1>1, <1>2 DEF HasChange
<1>4. \A d : LeadsWith(s, d) => LeadsWith(t, d)
    BY <1>1, <1>2 DEF LeadsWith
<1>5. \A i \in 1 .. Len(t) : t[i] = c \/ \E j \in 1 .. Len(s) : t[i] = s[j]
    BY <1>1, <1>2
<1>6. QED
    BY <1>3, <1>4, <1>5 DEF t

(* One event that the lifecycle handles. *)
LEMMA LifecycleStands ==
    ASSUME SessionInv, ChangeInvariant, NEW e, Lifecycle(e), Means(ad, Launched, e),
           ready = {}, ad'.outbox = ad.outbox,
           ad'.cp = ad.cp, ad'.conv = ad.conv, ad'.hasCp = ad.hasCp,
           ad'.activated = ad.activated, ad'.client = ad.client,
           \A i \in 1 .. Len(ad'.pending) : \E j \in 1 .. Len(ad.pending) :
              ad'.pending[i] = ad.pending[j]
    PROVE  ChangeInvariant'
<1>1. /\ Handle(e, helperOpen)
      /\ commands' = IF stops' # stops THEN Append(commands, StopCommand(Last(stops')))
                                       ELSE commands
      /\ UNCHANGED <<frames, helperVars, workVars, ready>>
    BY DEF Lifecycle
<1> USE DEF helperVars, workVars
<1>2. /\ lc \in States /\ lc' # "begin"
      /\ lc' = "active" => lc = "active" \/ e.kind = "activated"
      /\ \/ stops' = stops
         \/ lc = "active" /\ \E s \in {"TERM", "KILL"} : stops' = Append(stops, s)
      /\ stopStage' # "none" \/ stops' # stops =>
            \/ stopStage # "none"
            \/ /\ lc = "active"
               /\ e.kind \in {"terminal_interrupt", "stop_requested", "profile_state_unknown"}
    BY <1>1, HandlePaths
<1>3. /\ stops \in Seq({"TERM", "KILL"}) /\ commands \in Seq(HelperCommands)
      /\ ad.outbox = <<>> /\ Launched' = Launched
      /\ lc = "active" => ad.hasCp /\ Launched
    BY <1>1 DEF SessionInv, LcInv, LcTypeOK, MessageInv, ChangeInvariant, CycleInv, StartInv,
                Launched
<1>4. Linked(ad', Launched) /\ Balanced(ad'.cp, profile) /\ CycleInv'
    <2>1. Linked(ad, Launched) /\ Balanced(ad.cp, profile)
        BY DEF ChangeInvariant
    <2>2. \A i \in 1 .. Len(ad'.pending) : Means(ad', Launched, ad'.pending[i])
        <3>1. SUFFICES ASSUME NEW i \in 1 .. Len(ad'.pending)
                       PROVE  Means(ad', Launched, ad'.pending[i])
            OBVIOUS
        <3>2. PICK j \in 1 .. Len(ad.pending) : ad'.pending[i] = ad.pending[j]
            OBVIOUS
        <3>3. Means(ad, Launched, ad.pending[j])
            BY <2>1 DEF Linked
        <3>4. QED
            BY <3>2, <3>3 DEF Means
    <2>3. Linked(ad', Launched)
        BY <2>1, <2>2 DEF Linked
    <2>4. QED
        BY <1>1, <1>3, <2>1, <2>3 DEF CycleInv
<1>5. stops # <<>> => stops' # <<>>
    BY <1>2, <1>3
<1>6. StopsInv'
    <2>1. ASSUME stopStage' # "none" \/ stops' # <<>>, stopStage = "none", stops = <<>>
          PROVE  ad.hasCp /\ (ad.cp.stopping \/ ad.conv.state # "active")
        <3>1. /\ lc = "active"
              /\ e.kind \in {"terminal_interrupt", "stop_requested", "profile_state_unknown"}
            BY <1>2, <2>1
        <3>2. QED
            BY <1>3, <3>1 DEF Means
    <2>2. QED
        BY <2>1 DEF ChangeInvariant, StopsInv
<1>7. CASE stops' = stops
    <2>1. commands' = commands
        BY <1>1, <1>7
    <2>2. ChannelInv' /\ RuntimeInv'
        BY <1>1, <1>7, <2>1 DEF ChangeInvariant, ChannelInv, Underway, RuntimeInv
    <2>3. StartInv'
        BY <1>1, <1>2, <1>3, <1>7, <2>1 DEF ChangeInvariant, StartInv, Means, States
    <2>4. QED
        BY <1>3, <1>4, <1>6, <2>2, <2>3, <1>1 DEF ChangeInvariant
<1>8. CASE stops' # stops
    <2>1. PICK s \in {"TERM", "KILL"} : lc = "active" /\ stops' = Append(stops, s)
        BY <1>2, <1>8
    <2> DEFINE c == StopCommand(s)
    <2>2. Last(stops') = s
        BY <1>3, <2>1 DEF Last
    <2>3. commands' = Append(commands, c) /\ stops' # <<>>
        BY <1>1, <1>3, <1>8, <2>1, <2>2
    <2>4. c.change = NoChange /\ c # StartBlock
        BY DEF StopCommand, StartBlock
    <2>5. c \in HelperCommands
        BY DEF HelperCommands, StopCommands
    <2> HIDE DEF c
    <2>6. /\ HasChange(commands') <=> HasChange(commands)
          /\ \A d : LeadsWith(commands, d) => LeadsWith(commands', d)
          /\ \A i \in 1 .. Len(commands') :
                commands'[i] = c \/ \E j \in 1 .. Len(commands) : commands'[i] = commands[j]
        BY <1>3, <2>3, <2>4, <2>5, SentLast
    <2>7. ChannelInv' /\ RuntimeInv'
        BY <1>1, <1>5, <2>6 DEF ChangeInvariant, ChannelInv, Underway, RuntimeInv
    <2>8. \A i \in 1 .. Len(commands') :
             commands'[i].change = NoChange => commands'[i] # StartBlock
        BY <1>3, <2>1, <2>4, <2>6 DEF ChangeInvariant, StartInv
    <2>9. StartInv'
        BY <1>1, <1>2, <1>3, <2>1, <2>3, <2>8 DEF ChangeInvariant, StartInv, States
    <2>10. QED
        BY <1>3, <1>4, <1>6, <2>7, <2>9, <1>1 DEF ChangeInvariant
<1>9. QED
    BY <1>7, <1>8

LEMMA LifecycleSteps ==
    ASSUME SessionInv, ChangeInvariant, HandleEvent \/ Expire
    PROVE  ChangeInvariant'
<1> DEFINE P == TrueEvents
<1>1. ad \in Adapters(P)
    BY DEF SessionInv, AdapterInv, GoodAndLate, GoodAdapters
<1> HIDE DEF P
<1>2. ad.pending \in Seq(P)
    BY <1>1 DEF Adapters
<1>3. CASE HandleEvent
    <2> DEFINE p == ad.pending
               e == Head(p)
               t == Tail(p)
    <2>1. p # <<>> /\ Lifecycle(e) /\ ad' = [ad EXCEPT !.pending = Tail(@)] /\ ready = {}
        BY <1>3 DEF HandleEvent
    <2>2. /\ e = p[1] /\ 1 \in 1 .. Len(p)
          /\ \A i \in 1 .. Len(t) : t[i] = p[i + 1] /\ i + 1 \in 1 .. Len(p)
        BY <1>2, <2>1, TailFacts
    <2>3. /\ ad'.outbox = ad.outbox /\ ad'.cp = ad.cp /\ ad'.conv = ad.conv
          /\ ad'.hasCp = ad.hasCp /\ ad'.activated = ad.activated /\ ad'.client = ad.client
          /\ ad'.pending = t
        BY <1>1, <2>1 DEF Adapters
    <2>4. Means(ad, Launched, e)
        BY <2>2 DEF ChangeInvariant, Linked
    <2> HIDE DEF e, t
    <2>5. \A i \in 1 .. Len(ad'.pending) : \E j \in 1 .. Len(ad.pending) :
             ad'.pending[i] = ad.pending[j]
        BY <2>2, <2>3
    <2>6. QED
        BY <2>1, <2>3, <2>4, <2>5, LifecycleStands
<1>4. CASE Expire
    <2> DEFINE e == Event("deadline_expired")
    <2>1. Lifecycle(e) /\ ad' = ad /\ ready = {}
        BY <1>4 DEF Expire, Waiting
    <2>2. Means(ad, Launched, e)
        BY DEF Means, Event
    <2> HIDE DEF e
    <2>3. QED
        BY <2>1, <2>2, LifecycleStands
<1>5. QED
    BY <1>3, <1>4

(* No read of the first frames makes the conversation active, as long as the *)
(* helper has not said ACTIVE.                                               *)
LEMMA NotYetActive ==
    ASSUME NEW conv \in Conversations, NEW fs \in Seq(HelperFrames), conv.pending = NoChange,
           conv.state \notin {"active", "profile_state_unknown"},
           \A i \in 1 .. Len(fs) : fs[i].type # "ACTIVE"
    PROVE  LET c == ReceiveFrames(conv, fs).conv
           IN  c.pending = NoChange /\ c.state \notin {"active", "profile_state_unknown"}
<1> DEFINE T == {r \in [conv : Conversations, events : Seq(HelperEvents)] :
                    r.conv.pending = NoChange
                    /\ r.conv.state \notin {"active", "profile_state_unknown"}}
           b == [conv |-> conv, events |-> <<>>]
<1>1. b \in T
    <2>1. <<>> \in Seq(HelperEvents)
        OBVIOUS
    <2>2. QED
        BY <2>1
<1>2. ASSUME NEW i \in 1 .. Len(fs), NEW r \in T PROVE ReceiveNext(r, fs[i]) \in T
    <2> DEFINE f == fs[i]
               s == ReceiveFrame(r.conv, f)
    <2>1. f \in HelperFrames /\ f.type # "ACTIVE" /\ r.conv \in Conversations
          /\ r.events \in Seq(HelperEvents)
          /\ r.conv.state \notin {"active", "profile_state_unknown"}
        OBVIOUS
    <2>2. s.conv \in Conversations /\ s.event \in HelperEvents
        BY <2>1, ReceiveFrameTypes
    <2>3. /\ s.conv.pending = NoChange
          /\ s.event.kind \in {"applied", "restored"} => r.conv.state = "active"
          /\ s.event.kind = "activated" => f.type = "ACTIVE"
          /\ s.conv.state = "active" => s.event.kind \in {"applied", "restored", "activated"}
          /\ s.conv.state = "profile_state_unknown" => r.conv.state = "active"
        BY FrameMoves
    <2>4. ReceiveNext(r, f) = IF r.conv.state = "failed" THEN r
                              ELSE [conv |-> s.conv, events |-> Append(r.events, s.event)]
        BY DEF ReceiveNext
    <2> HIDE DEF s, f
    <2>5. s.conv.state \notin {"active", "profile_state_unknown"}
        BY <2>1, <2>3
    <2>6. Append(r.events, s.event) \in Seq(HelperEvents)
        BY <2>1, <2>2
    <2>7. ReceiveNext(r, f) \in T
        BY <2>2, <2>3, <2>4, <2>5, <2>6
    <2>8. QED
        BY <2>7 DEF f
<1> HIDE DEF T
<1>3. RF!Fold(b, fs) \in T
    BY <1>1, <1>2, RF!FoldStaysIn
<1>4. ReceiveFrames(conv, fs) \in T
    BY <1>3, ReceiveFramesIsFold
<1>5. QED
    BY <1>4 DEF T

(* begin() leaves an early conversation, or a lost one. *)
LEMMA BeginStep ==
    ASSUME SessionInv, ChangeInvariant, BeginSession
    PROVE  ChangeInvariant'
<1> DEFINE P == TrueEvents
           received == IF frames # <<>> THEN ReceiveFrames(ad.conv, frames) ELSE PeerClosed(ad.conv)
           c == received.conv
<1>1. ad \in Adapters(P) /\ ad.conv \in Conversations /\ frames \in Seq(HelperFrames)
    <2>1. ad \in Adapters(P) /\ frames \in Seq(TrueFrames)
        BY DEF SessionInv, AdapterInv, GoodAndLate, GoodAdapters, MessageInv
    <2>2. QED
        BY <2>1, TrueResults DEF Adapters
<1> HIDE DEF P
<1>2. /\ lc = "begin" /\ ad' = [ad EXCEPT !.conv = c] /\ frames' = <<>>
      /\ lc' \in {"waiting_for_activation", "reap_launcher"}
      /\ commands' = commands \/ commands' = Append(commands, StartBlock)
      /\ UNCHANGED <<helperVars, workVars, ready, stops, stopStage>>
    BY DEF BeginSession, Begin
<1> USE DEF helperVars, workVars
<1>3. /\ commands = <<>> /\ helper \in Starting /\ ~Launched /\ Launched' = Launched
      /\ \A i \in 1 .. Len(frames) : frames[i].type # "ACTIVE"
    BY <1>2 DEF ChangeInvariant, StartInv, Launched
<1>4. /\ ad.conv.pending = NoChange /\ ad.conv.state \notin {"active", "profile_state_unknown"}
      /\ Early(ad.conv) => ~ad.hasCp
    BY <1>3 DEF ChangeInvariant, Linked
<1>5. /\ c \in Conversations /\ c.pending = NoChange
      /\ c.state \notin {"active", "profile_state_unknown"}
      /\ Early(c) => Early(ad.conv)
    <2>1. CASE frames # <<>>
        BY <1>1, <1>3, <1>4, <2>1, NotYetActive, EarlyBefore
    <2>2. CASE frames = <<>>
        BY <1>1, <1>4, <2>2 DEF PeerClosed, Early, Conversations, ConversationStates
    <2>3. QED
        BY <2>1, <2>2
<1> HIDE DEF received, c
<1>6. /\ ad'.outbox = ad.outbox /\ ad'.cp = ad.cp /\ ad'.conv = c /\ ad'.hasCp = ad.hasCp
      /\ ad'.activated = ad.activated /\ ad'.client = ad.client /\ ad'.pending = ad.pending
    BY <1>1, <1>2, <1>5 DEF Adapters
<1>7. Linked(ad', Launched) /\ Balanced(ad'.cp, profile)
    <2>1. \A i \in 1 .. Len(ad'.pending) : Means(ad', Launched, ad'.pending[i])
        BY <1>5, <1>6 DEF ChangeInvariant, Linked, Means
    <2>2. QED
        BY <1>4, <1>5, <1>6, <2>1 DEF ChangeInvariant, Linked
<1>8. /\ commands' \in {<<>>, <<StartBlock>>}
      /\ ~HasChange(commands') /\ \A d : LeadsWith(commands', d)
    <2>1. Append(<<>>, StartBlock) = <<StartBlock>>
        OBVIOUS
    <2>2. Len(<<StartBlock>>) = 1 /\ <<StartBlock>>[1].change = NoChange
        BY DEF StartBlock
    <2>3. \A i \in 1 .. 1 : i = 1
        OBVIOUS
    <2>4. \A i \in 1 .. Len(<<>>) : FALSE
        OBVIOUS
    <2>5. \A i \in 1 .. Len(<<StartBlock>>) : <<StartBlock>>[i].change = NoChange
        BY <2>2, <2>3
    <2>6. commands' \in {<<>>, <<StartBlock>>}
        BY <1>2, <1>3, <2>1
    <2>7. QED
        BY <2>4, <2>5, <2>6 DEF HasChange, LeadsWith
<1>9. ChannelInv'
    <2>1. \A i \in 1 .. Len(<<>>) : FALSE
        OBVIOUS
    <2>2. OneReply(frames') /\ ~HasReply(frames') /\ \A i \in 1 .. Len(frames') : FALSE
        BY <1>2, <2>1 DEF OneReply, HasReply
    <2>3. LeadsWith(todo', ad'.cp.inflight.change) /\ todo' = todo /\ profile' = profile
        BY <1>2, <1>6 DEF ChangeInvariant, ChannelInv
    <2>4. QED
        BY <1>5, <1>6, <1>8, <2>2, <2>3 DEF ChangeInvariant, ChannelInv, Underway
<1>10. StartInv'
    <2>1. \A i \in 1 .. Len(<<>>) : FALSE
        OBVIOUS
    <2>2. \A i \in 1 .. Len(frames') : FALSE
        BY <1>2, <2>1
    <2>3. QED
        BY <1>2, <1>3, <1>8, <2>2 DEF StartInv
<1>11. RuntimeInv' /\ StopsInv' /\ CycleInv'
    BY <1>2, <1>5, <1>6, <1>8 DEF ChangeInvariant, RuntimeInv, StopsInv, CycleInv
<1>12. QED
    BY <1>2, <1>3, <1>7, <1>9, <1>10, <1>11 DEF ChangeInvariant

-----------------------------------------------------------------------------
(* The helper's side: what it accepts of one read. *)
Accepted(h, cmds, r) ==
    /\ r.h \in Runtimes /\ r.h.valid /\ ~r.h.finished
    /\ r.h.pending # NoChange =>
          r.commands # <<>> /\ r.commands[1].change = r.h.pending
    /\ HasChange(r.commands) => HasChange(cmds)
    /\ r.h.stopping => h.stopping \/ \E j \in 1 .. Len(cmds) : cmds[j].change = NoChange

(* A command that need not be refused is accepted, or skipped, *)
LEMMA AcceptsOne ==
    ASSUME NEW h \in Runtimes, h.valid, ~h.finished, NEW cmd \in HelperCommands,
           cmd.change # NoChange => h.pending = NoChange /\ ~h.stopping
    PROVE  LET s == ReceiveCommand(h, cmd)
           IN  /\ s.h \in Runtimes /\ s.h.valid /\ ~s.h.finished
               /\ \/ cmd.change # NoChange /\ s.h = h /\ s.commands = <<>>
                  \/ /\ cmd.change # NoChange /\ s.h.pending = cmd.change
                     /\ s.h.stopping = h.stopping /\ s.commands = <<cmd>>
                  \/ /\ cmd.change = NoChange /\ s.h.pending = h.pending
                     /\ s.commands = <<cmd>>
<1> DEFINE s == ReceiveCommand(h, cmd)
<1>1. cmd.change \in Changes \cup {NoChange}
    BY DEF HelperCommands, StartBlock, StopCommands, StopCommand, ChangeCommands, ChangeCommand
<1>2. CASE cmd.change # NoChange /\ h.unknown
    <2>1. s = [h |-> h, commands |-> <<>>]
        BY <1>2 DEF ReceiveCommand
    <2>2. QED
        BY <1>2, <2>1
<1>3. CASE cmd.change # NoChange /\ ~h.unknown
    <2>1. s = [h |-> [h EXCEPT !.pending = cmd.change], commands |-> <<cmd>>]
        BY <1>3 DEF ReceiveCommand
    <2> DEFINE g == [h EXCEPT !.pending = cmd.change]
    <2>2. /\ g \in Runtimes /\ g.valid /\ ~g.finished /\ g.pending = cmd.change
          /\ g.stopping = h.stopping
        BY <1>1 DEF Runtimes
    <2> HIDE DEF g
    <2>3. s.h = g /\ s.commands = <<cmd>>
        BY <2>1 DEF g
    <2> HIDE DEF s
    <2>4. QED
        BY <1>3, <2>2, <2>3 DEF s
<1>4. CASE cmd.change = NoChange
    <2>1. s = [h |-> [h EXCEPT !.stopping = TRUE], commands |-> <<cmd>>]
        BY <1>4 DEF ReceiveCommand
    <2> DEFINE g == [h EXCEPT !.stopping = TRUE]
    <2>2. g \in Runtimes /\ g.valid /\ ~g.finished /\ g.pending = h.pending
        BY <1>1 DEF Runtimes
    <2> HIDE DEF g
    <2>3. s.h = g /\ s.commands = <<cmd>>
        BY <2>1 DEF g
    <2> HIDE DEF s
    <2>4. QED
        BY <1>4, <2>2, <2>3 DEF s
<1>5. QED
    BY <1>2, <1>3, <1>4

(* and so are all of one read. *)
LEMMA AcceptsAll ==
    ASSUME NEW h \in Runtimes, h.valid, ~h.finished, h.pending = NoChange,
           NEW cmds \in Seq(HelperCommands), NEW c, LeadsWith(cmds, c),
           HasChange(cmds) => ~h.stopping
    PROVE  LET r == ReceiveCommands(h, cmds)
           IN  Accepted(h, cmds, r) /\ LeadsWith(r.commands, c)
<1> DEFINE b == [h |-> h, commands |-> <<>>]
           n == Len(cmds)
           N == \E j \in 1 .. n : cmds[j].change = NoChange
           H == HasChange(cmds)
           A(r) == /\ r.h.valid /\ ~r.h.finished
                   /\ r.h.pending # NoChange =>
                         r.commands # <<>> /\ r.commands[1].change = r.h.pending
                   /\ HasChange(r.commands) => H
                   /\ r.h.stopping => h.stopping \/ N
                   /\ LeadsWith(r.commands, c)
           T == [i \in 0 .. n |-> {r \in [h : Runtimes, commands : Seq(HelperCommands)] :
                                      A(r) /\ (i = 0 => r = b)}]
<1>0. n \in Nat /\ \A i \in 1 .. n : i - 1 \in 0 .. n /\ i \in 0 .. n /\ i # 0
    OBVIOUS
<1>1. b \in T[0]
    <2>1. <<>> \in Seq(HelperCommands) /\ \A i \in 1 .. Len(<<>>) : FALSE
        OBVIOUS
    <2>2. ~HasChange(<<>>) /\ LeadsWith(<<>>, c)
        BY <2>1 DEF HasChange, LeadsWith
    <2> HIDE DEF N, H
    <2>3. A(b) /\ b \in [h : Runtimes, commands : Seq(HelperCommands)]
        BY <2>1, <2>2
    <2> HIDE DEF A, b
    <2>4. 0 \in 0 .. n
        BY <1>0
    <2>5. QED
        BY <2>3, <2>4
<1>2. ASSUME NEW i \in 1 .. n, NEW r \in T[i - 1] PROVE CommandNext(r, cmds[i]) \in T[i]
    <2> DEFINE cmd == cmds[i]
               s == ReceiveCommand(r.h, cmd)
               v == [h |-> s.h, commands |-> r.commands \o s.commands]
    <2>1. /\ cmd \in HelperCommands
          /\ cmd.change # NoChange => H /\ i = 1 /\ cmd.change = c
          /\ cmd.change = NoChange => N
        BY DEF HasChange, LeadsWith
    <2> HIDE DEF cmd, A, N, H, b
    <2>2. r \in [h : Runtimes, commands : Seq(HelperCommands)] /\ A(r) /\ (i = 1 => r = b)
        BY <1>0
    <2>3. r.h \in Runtimes /\ r.commands \in Seq(HelperCommands)
        BY <2>2
    <2>4. i = 1 => r.commands = <<>> /\ r.h = h
        BY <2>2 DEF b
    <2>5. /\ r.h.valid /\ ~r.h.finished
          /\ r.h.pending # NoChange => r.commands # <<>> /\ r.commands[1].change = r.h.pending
          /\ HasChange(r.commands) => H
          /\ r.h.stopping => h.stopping \/ N
          /\ LeadsWith(r.commands, c)
        BY <2>2 DEF A
    <2>6. cmd.change # NoChange => r.h.pending = NoChange /\ ~r.h.stopping
        BY <2>1, <2>4 DEF H
    <2>7. /\ s.h \in Runtimes /\ s.h.valid /\ ~s.h.finished
          /\ \/ cmd.change # NoChange /\ s.h = r.h /\ s.commands = <<>>
             \/ /\ cmd.change # NoChange /\ s.h.pending = cmd.change
                /\ s.h.stopping = r.h.stopping /\ s.commands = <<cmd>>
             \/ /\ cmd.change = NoChange /\ s.h.pending = r.h.pending
                /\ s.commands = <<cmd>>
        BY <2>1, <2>3, <2>5, <2>6, AcceptsOne
    <2> HIDE DEF s
    <2>8. CommandNext(r, cmd) = v
        BY <2>5 DEF CommandNext, v, s
    <2>9. v.h = s.h /\ v.commands = r.commands \o s.commands
        OBVIOUS
    <2>10. v = [h |-> v.h, commands |-> v.commands]
        OBVIOUS
    <2> HIDE DEF v
    <2>11. A(v) /\ v.commands \in Seq(HelperCommands)
        <3>1. CASE cmd.change # NoChange /\ s.h = r.h /\ s.commands = <<>>
            <4>1. r.commands \o <<>> = r.commands
                BY <2>3
            <4>2. v.commands = r.commands /\ v.h = r.h
                BY <2>9, <3>1, <4>1
            <4>3. QED
                BY <2>3, <2>5, <4>2 DEF A
        <3>2. CASE /\ cmd.change # NoChange /\ s.h.pending = cmd.change
                   /\ s.h.stopping = r.h.stopping /\ s.commands = <<cmd>>
            <4>1. r.commands = <<>> /\ <<>> \o <<cmd>> = <<cmd>>
                BY <2>1, <2>4, <3>2
            <4>2. v.commands = <<cmd>>
                BY <2>9, <3>2, <4>1
            <4>3. /\ <<cmd>> \in Seq(HelperCommands) /\ Len(<<cmd>>) = 1 /\ <<cmd>>[1] = cmd
                  /\ <<cmd>> # <<>>
                BY <2>1
            <4>4. \A j \in 1 .. 1 : j = 1
                OBVIOUS
            <4>5. LeadsWith(v.commands, c)
                BY <2>1, <3>2, <4>2, <4>3, <4>4 DEF LeadsWith
            <4>6. QED
                BY <2>1, <2>5, <2>7, <2>9, <3>2, <4>2, <4>3, <4>5 DEF A
        <3>3. CASE /\ cmd.change = NoChange /\ s.h.pending = r.h.pending
                   /\ s.commands = <<cmd>>
            <4>1. v.commands = Append(r.commands, cmd)
                <5>1. r.commands \o <<cmd>> = Append(r.commands, cmd)
                    BY <2>1, <2>3
                <5>2. QED
                    BY <2>9, <3>3, <5>1
            <4>2. /\ HasChange(v.commands) <=> HasChange(r.commands)
                  /\ LeadsWith(v.commands, c)
                BY <2>1, <2>3, <2>5, <3>3, <4>1, SentLast
            <4>3. /\ v.commands \in Seq(HelperCommands) /\ v.commands # <<>>
                  /\ r.commands # <<>> => v.commands[1] = r.commands[1]
                <5>1. r.commands \in Seq(HelperCommands) /\ cmd \in HelperCommands
                    BY <2>1, <2>3
                <5>2. QED
                    BY <4>1, <5>1, AppendedFirst
            <4>4. N
                BY <2>1, <3>3
            <4>5. QED
                BY <2>5, <2>7, <2>9, <3>3, <4>2, <4>3, <4>4 DEF A
        <3>4. QED
            BY <2>7, <3>1, <3>2, <3>3
    <2>12. v \in [h : Runtimes, commands : Seq(HelperCommands)]
        BY <2>7, <2>9, <2>10, <2>11
    <2>13. v \in T[i]
        BY <1>0, <2>11, <2>12
    <2>14. QED
        BY <2>8, <2>13 DEF cmd
<1> HIDE DEF T
<1>3. RC!Fold(b, cmds) \in T[n]
    BY <1>1, <1>2, RC!FoldAdvances
<1>4. ReceiveCommands(h, cmds) = RC!Fold(b, cmds)
    BY DEF ReceiveCommands, CommandNext, FoldLeft, MapThenFoldSet, RC!Fold, RC!Largest, Max
<1> DEFINE r == ReceiveCommands(h, cmds)
<1>5. r \in T[n] /\ n \in 0 .. n
    BY <1>0, <1>3, <1>4
<1> HIDE DEF r, A
<1>6. r \in [h : Runtimes, commands : Seq(HelperCommands)] /\ A(r)
    BY <1>5 DEF T
<1>7. r.h \in Runtimes
    BY <1>6
<1>8. Accepted(h, cmds, r) /\ LeadsWith(r.commands, c)
    BY <1>6, <1>7 DEF A, Accepted
<1>9. QED
    BY <1>8 DEF r

(* A frame after the others. *)
LEMMA SaidLast ==
    ASSUME NEW X, NEW s \in Seq(X), NEW f
    PROVE  LET t == Append(s, f)
               n == Len(s)
           IN  /\ Len(t) = n + 1 /\ t[n + 1] = f /\ n + 1 \in 1 .. Len(t)
               /\ \A i \in 1 .. n : t[i] = s[i] /\ i \in 1 .. Len(t)
               /\ \A i \in 1 .. Len(t) : i \in 1 .. n \/ i = n + 1
<1> DEFINE t == Append(s, f)
           n == Len(s)
<1>1. n \in Nat /\ Len(t) = n + 1 /\ t[n + 1] = f /\ \A i \in 1 .. n : t[i] = s[i]
    OBVIOUS
<1> HIDE DEF t, n
<1>2. n + 1 \in 1 .. n + 1 /\ \A i \in 1 .. n : i \in 1 .. n + 1
    BY <1>1
<1>3. \A i \in 1 .. n + 1 : i \in 1 .. n \/ i = n + 1
    BY <1>1
<1>4. QED
    BY <1>1, <1>2, <1>3 DEF t, n

(* One that is no reply, and one that is. *)
LEMMA SaidNoReply ==
    ASSUME NEW X, NEW s \in Seq(X), NEW f, ~IsReply(f)
    PROVE  LET t == Append(s, f)
           IN  /\ OneReply(s) => OneReply(t)
               /\ HasReply(t) <=> HasReply(s)
               /\ \A i \in 1 .. Len(t) : t[i] = f \/ \E j \in 1 .. Len(s) : t[i] = s[j]
<1> DEFINE t == Append(s, f)
           n == Len(s)
<1>1. /\ Len(t) = n + 1 /\ t[n + 1] = f /\ n + 1 \in 1 .. Len(t)
      /\ \A i \in 1 .. n : t[i] = s[i] /\ i \in 1 .. Len(t)
      /\ \A i \in 1 .. Len(t) : i \in 1 .. n \/ i = n + 1
    BY SaidLast
<1> HIDE DEF t
<1>2. OneReply(s) => OneReply(t)
    <2> SUFFICES ASSUME OneReply(s), NEW i \in 1 .. Len(t), NEW j \in 1 .. Len(t),
                        IsReply(t[i]), IsReply(t[j])
                 PROVE  i = j
        BY DEF OneReply
    <2>1. i \in 1 .. n /\ j \in 1 .. n
        BY <1>1
    <2>2. QED
        BY <1>1, <2>1 DEF OneReply
<1>3. HasReply(t) <=> HasReply(s)
    BY <1>1 DEF HasReply
<1>4. \A i \in 1 .. Len(t) : t[i] = f \/ \E j \in 1 .. Len(s) : t[i] = s[j]
    BY <1>1
<1>5. QED
    BY <1>2, <1>3, <1>4 DEF t

LEMMA SaidReply ==
    ASSUME NEW X, NEW s \in Seq(X), NEW f, IsReply(f), ~HasReply(s)
    PROVE  LET t == Append(s, f)
           IN  /\ OneReply(t)
               /\ \A i \in 1 .. Len(t) :
                     (t[i] = f) \/ (~IsReply(t[i]) /\ \E j \in 1 .. Len(s) : t[i] = s[j])
<1> DEFINE t == Append(s, f)
           n == Len(s)
<1>1. /\ Len(t) = n + 1 /\ t[n + 1] = f /\ n + 1 \in 1 .. Len(t)
      /\ \A i \in 1 .. n : t[i] = s[i] /\ i \in 1 .. Len(t)
      /\ \A i \in 1 .. Len(t) : i \in 1 .. n \/ i = n + 1
    BY SaidLast
<1> HIDE DEF t
<1>2. \A i \in 1 .. n : ~IsReply(t[i])
    BY <1>1 DEF HasReply
<1>3. OneReply(t)
    BY <1>1, <1>2 DEF OneReply
<1>4. QED
    BY <1>1, <1>2, <1>3 DEF t

-----------------------------------------------------------------------------
(* Steps of the helper's side *)
LEMMA HelperStands ==
    ASSUME ChangeInvariant, UNCHANGED <<ad, stopStage, stops, ready>>, Launched => Launched',
           Balanced(ad.cp, profile'), ChannelInv', StartInv', RuntimeInv'
    PROVE  ChangeInvariant'
<1>1. Linked(ad, Launched')
    BY DEF ChangeInvariant, Linked, Means
<1>2. StopsInv' /\ CycleInv'
    BY DEF ChangeInvariant, StopsInv, CycleInv
<1>3. QED
    BY <1>1, <1>2 DEF ChangeInvariant

(* What the helper says that is not a reply. *)
Speaks ==
    \/ frames' = frames
    \/ \E f : /\ frames' = Append(frames, f) /\ ~IsReply(f)
              /\ f.type = "ACTIVE" => Launched'

(* Such a frame leaves the channel as it is. *)
LEMMA SpeaksOn ==
    ASSUME ChannelInv, frames \in Seq(TrueFrames), Speaks, Launched => Launched',
           \A i \in 1 .. Len(frames) : frames[i].type = "ACTIVE" => Launched,
           UNCHANGED <<ad, commands, todo, profile>>
    PROVE  ChannelInv' /\ \A i \in 1 .. Len(frames') : frames'[i].type = "ACTIVE" => Launched'
<1>1. CASE frames' = frames
    BY <1>1 DEF ChannelInv, Underway
<1>2. CASE frames' # frames
    <2>1. PICK f : /\ frames' = Append(frames, f) /\ ~IsReply(f)
                   /\ f.type = "ACTIVE" => Launched'
        BY <1>2 DEF Speaks
    <2>2. /\ OneReply(frames) => OneReply(frames')
          /\ HasReply(frames') <=> HasReply(frames)
          /\ \A i \in 1 .. Len(frames') :
                frames'[i] = f \/ \E j \in 1 .. Len(frames) : frames'[i] = frames[j]
        BY <2>1, SaidNoReply
    <2>3. \A i \in 1 .. Len(frames') : frames'[i].type = "ACTIVE" => Launched'
        BY <2>1, <2>2
    <2>4. \A i \in 1 .. Len(frames') : IsReply(frames'[i]) =>
             \E j \in 1 .. Len(frames) : frames'[i] = frames[j]
        BY <2>1, <2>2
    <2>5. \A i \in 1 .. Len(frames') : IsReply(frames'[i]) =>
             profile = IF frames'[i].type = "PROFILE_OK"
                         THEN ApplyProfileChange(ad.cp.confirmed, ad.cp.inflight.change)
                         ELSE ad.cp.confirmed
        BY <2>4 DEF ChannelInv
    <2>6. ChannelInv'
        BY <2>2, <2>5 DEF ChannelInv, Underway
    <2>7. QED
        BY <2>3, <2>6
<1>3. QED
    BY <1>1, <1>2

Ending == {"cleanup", "report_cleanup", "exit", "exited", "dead"}
Holding == {"commands", "dead"}

(* Steps that have nothing to do with a change. *)
LEMMA PlainHelperStep ==
    ASSUME SessionInv, ChangeInvariant, UNCHANGED <<ad, lcVars, ready, commands, todo, profile>>,
           Speaks, Launched => Launched', Launched' => Launched \/ helper = "launch",
           helper \in Starting => helper' \in Starting,
           helper \in Ending => helper' \in Ending,
           helper \in Holding /\ todo # <<>> => helper' \in Holding,
           helper' = "report_failed" => report'.type = "START_FAILED",
           \/ runtime' = runtime
           \/ /\ runtime' = [runtime EXCEPT !.finished = TRUE, !.pending = NoChange]
              /\ helper' \in Ending
    PROVE  ChangeInvariant'
<1> USE DEF lcVars
<1>1. /\ ChannelInv /\ StartInv /\ RuntimeInv /\ Balanced(ad.cp, profile)
      /\ frames \in Seq(TrueFrames)
    BY DEF ChangeInvariant, SessionInv, MessageInv
<1>2. ChannelInv' /\ \A i \in 1 .. Len(frames') : frames'[i].type = "ACTIVE" => Launched'
    BY <1>1, SpeaksOn DEF StartInv
<1>3. StartInv'
    <2>1. /\ helper' \notin Starting => helper \notin Starting
          /\ helper = "launch" => helper \notin Starting
        BY DEF Starting
    <2>2. ~Launched /\ Launched' => commands = <<>> /\ \A i \in 1 .. Len(commands) : FALSE
        <3>1. \A i \in 1 .. Len(<<>>) : FALSE
            OBVIOUS
        <3>2. QED
            BY <1>1, <2>1, <3>1 DEF StartInv
    <2>3. Launched' => \A i \in 1 .. Len(commands) :
             commands[i].change = NoChange => commands[i] # StartBlock /\ stops # <<>>
        BY <1>1, <2>2 DEF StartInv
    <2>4. lc = "begin" => commands = <<>> /\ helper' \in Starting /\ ~Launched'
        BY <1>1, <2>1 DEF StartInv
    <2>5. ~Launched' => commands \in {<<>>, <<StartBlock>>}
        BY <1>1 DEF StartInv
    <2>6. ~Launched' /\ helper' \notin Starting => commands = <<>>
        BY <1>1, <2>1 DEF StartInv
    <2>7. lc = "active" => ad.hasCp /\ Launched'
        BY <1>1 DEF StartInv
    <2>8. QED
        BY <1>2, <2>3, <2>4, <2>5, <2>6, <2>7 DEF StartInv
<1>4. RuntimeInv'
    <2>1. helper' \notin Holding => todo = <<>>
        BY <1>1 DEF RuntimeInv, Holding
    <2>2. CASE runtime' = runtime
        <3>1. runtime.finished => helper' \in Ending
            BY <1>1 DEF RuntimeInv, Ending
        <3>2. QED
            BY <1>1, <2>1, <2>2, <3>1 DEF RuntimeInv, Ending, Holding
    <2>3. CASE /\ runtime' = [runtime EXCEPT !.finished = TRUE, !.pending = NoChange]
               /\ helper' \in Ending
        <3>1. /\ runtime' \in Runtimes /\ runtime'.valid /\ runtime'.finished
              /\ runtime'.pending = NoChange /\ runtime'.stopping = runtime.stopping
            BY <1>1, <2>3 DEF RuntimeInv, Runtimes
        <3>2. QED
            BY <1>1, <2>1, <2>3, <3>1 DEF RuntimeInv, Ending, Holding
    <2>4. QED
        BY <2>2, <2>3
<1>5. QED
    BY <1>1, <1>2, <1>3, <1>4, HelperStands

(* Frames that are no reply. *)
LEMMA PlainSaid ==
    ASSUME NEW f, SendFrame(f), f.type \notin Replies, f.type = "ACTIVE" => Launched'
    PROVE  Speaks
BY DEF SendFrame, Speaks, IsReply

(* The steps of the helper, first those up to the Workload, *)
LEMMA StartOfHelper ==
    ASSUME SessionInv, ChangeInvariant, OthersUnchanged,
           SendReady \/ Prepare \/ Launch \/ ReportFailed \/ ReportActive
    PROVE  ChangeInvariant'
<1> USE DEF socketVars, workVars, lcVars, supVars, Launched, Starting, Ending, Holding
<1>1. UNCHANGED <<ad, lcVars, ready>>
    BY DEF OthersUnchanged, SupervisorUnchanged
<1>2. HelperInv /\ MessageInv
    BY DEF SessionInv
<1>3. CASE SendReady
    <2>1. UNCHANGED <<commands, todo, profile, work, runtime>> /\ helper' \in Starting
          /\ helper = "send_ready" /\ (SendFrame(report) \/ frames' = frames)
        BY <1>3 DEF SendReady, Exit
    <2>2. report = Frame("READY") /\ Frame("READY").type = "READY"
        BY <1>2, <2>1 DEF MessageInv, Frame
    <2>3. Speaks
        BY <2>1, <2>2, PlainSaid DEF Speaks, Replies
    <2>4. QED
        BY <1>1, <2>1, <2>3, PlainHelperStep
<1>4. CASE Prepare
    <2>1. /\ UNCHANGED <<commands, todo, profile, work, runtime, frames>> /\ helper = "prepare"
          /\ \/ helper' = "launch"
             \/ report' = ValueFrame("START_FAILED", 125) /\ helper' = "report_failed"
        BY <1>4 DEF Prepare
    <2>2. Speaks
        BY <2>1 DEF Speaks
    <2>3. helper' = "report_failed" => report'.type = "START_FAILED"
        BY <2>1 DEF ValueFrame
    <2>4. QED
        BY <1>1, <2>1, <2>2, <2>3, PlainHelperStep
<1>5. CASE Launch
    <2>1. /\ UNCHANGED <<commands, todo, profile, runtime, frames>> /\ helper = "launch"
          /\ work' \in {"running", work}
          /\ \/ helper' = "report_active"
             \/ /\ \E code \in {125, 126, 127} : report' = ValueFrame("START_FAILED", code)
                /\ helper' = "report_failed"
        BY <1>5 DEF Launch
    <2>2. Speaks
        BY <2>1 DEF Speaks
    <2>3. helper' = "report_failed" => report'.type = "START_FAILED"
        BY <2>1 DEF ValueFrame
    <2>4. QED
        BY <1>1, <2>1, <2>2, <2>3, PlainHelperStep
<1>6. CASE ReportFailed
    <2>1. UNCHANGED <<commands, todo, profile, runtime, work>> /\ helper = "report_failed"
          /\ SendFrame(report) /\ helper' \in {"cleanup", "report_cleanup"}
        BY <1>6 DEF ReportFailed
    <2>2. report.type = "START_FAILED"
        BY <2>1 DEF ChangeInvariant, RuntimeInv
    <2>3. Speaks
        BY <2>1, <2>2, PlainSaid DEF Replies
    <2>4. QED
        BY <1>1, <2>1, <2>3, PlainHelperStep
<1>7. CASE ReportActive
    <2>1. UNCHANGED <<commands, todo, profile, runtime, work>> /\ helper = "report_active"
          /\ SendFrame(Frame("ACTIVE")) /\ work # "none"
          /\ helper' \in {"poll_workload", "stop_workload"}
        BY <1>2, <1>7 DEF ReportActive, HelperInv
    <2>2. Frame("ACTIVE").type = "ACTIVE"
        BY DEF Frame
    <2>3. Speaks
        BY <2>1, <2>2, PlainSaid DEF Replies
    <2>4. QED
        BY <1>1, <2>1, <2>3, PlainHelperStep
<1>8. QED
    BY <1>3, <1>4, <1>5, <1>6, <1>7

(* then those that carry out no command, *)
LEMMA EndOfHelper ==
    ASSUME SessionInv, ChangeInvariant, UNCHANGED <<ad, lcVars, ready>>,
           \/ CommandsDone \/ StopWorkload \/ StopGrace \/ Cleanup \/ ReportCleanup \/ HelperExits
           \/ WorkloadEnds \/ WorkloadKilled \/ HelperDies \/ PollWorkload
    PROVE  ChangeInvariant'
<1> USE DEF socketVars, workVars, helperVars, lcVars, Launched, Starting, Ending, Holding
<1>2. HelperInv /\ MessageInv
    BY DEF SessionInv
<1>3. CASE CommandsDone
    <2>1. UNCHANGED <<commands, todo, profile, runtime, frames, work>> /\ helper = "commands"
          /\ helper' = "poll_workload" /\ todo = <<>>
        BY <1>3 DEF CommandsDone
    <2>2. Speaks
        BY <2>1 DEF Speaks
    <2>3. QED
        BY <2>1, <2>2, PlainHelperStep
<1>4. CASE StopWorkload \/ StopGrace
    <2>1. /\ UNCHANGED <<commands, todo, profile, runtime, frames>>
          /\ helper \in {"stop_workload", "stop_grace"} /\ helper' \in {"stop_grace", "cleanup"}
          /\ work' \in {work, "terminated", "reaped", "killed"} /\ work # "none"
        BY <1>2, <1>4 DEF StopWorkload, StopGrace, HelperInv
    <2>2. Speaks
        BY <2>1 DEF Speaks
    <2>3. QED
        BY <2>1, <2>2, PlainHelperStep
<1>5. CASE Cleanup
    <2>1. UNCHANGED <<commands, todo, profile, runtime, frames, work>> /\ helper = "cleanup"
          /\ helper' = "report_cleanup"
        BY <1>5 DEF Cleanup
    <2>2. Speaks
        BY <2>1 DEF Speaks
    <2>3. QED
        BY <2>1, <2>2, PlainHelperStep
<1>6. CASE ReportCleanup
    <2>1. UNCHANGED <<commands, todo, profile, runtime, work>> /\ helper = "report_cleanup"
          /\ helper' = "exit" /\ SendFrame(report)
        BY <1>6 DEF ReportCleanup
    <2>2. report.type \in {"CLEANUP_OK", "CLEANUP_FAILED"}
        BY <1>2, <2>1 DEF MessageInv, Frame
    <2>3. Speaks
        BY <2>1, <2>2, PlainSaid DEF Replies
    <2>4. QED
        BY <2>1, <2>3, PlainHelperStep
<1>7. CASE HelperExits
    <2>1. UNCHANGED <<commands, todo, profile, runtime, frames, work>> /\ helper = "exit"
          /\ helper' = "exited"
        BY <1>7 DEF HelperExits, Exit
    <2>2. Speaks
        BY <2>1 DEF Speaks
    <2>3. QED
        BY <2>1, <2>2, PlainHelperStep
<1>8. CASE WorkloadEnds \/ WorkloadKilled
    <2>1. UNCHANGED <<commands, todo, profile, runtime, frames, helper, report>>
          /\ work # "none" /\ work' # "none"
        BY <1>8 DEF WorkloadEnds, WorkloadKilled
    <2>2. Speaks
        BY <2>1 DEF Speaks
    <2>3. helper = "report_failed" => report.type = "START_FAILED"
        BY DEF ChangeInvariant, RuntimeInv
    <2>4. QED
        BY <2>1, <2>2, <2>3, PlainHelperStep
<1>9. CASE HelperDies
    <2>1. UNCHANGED <<commands, todo, profile, runtime, frames>> /\ helper' = "dead"
          /\ (work # "none" <=> work' # "none")
        BY <1>9, Orphaned DEF HelperDies, Alive
    <2>2. Speaks
        BY <2>1 DEF Speaks
    <2>3. QED
        BY <2>1, <2>2, PlainHelperStep
<1>10. CASE PollWorkload
    <2>1. /\ UNCHANGED <<commands, todo, profile>> /\ helper = "poll_workload"
          /\ helper' \in {"cleanup", "poll_supervisor", "stop_workload"}
          /\ work # "none" /\ work' # "none"
        BY <1>2, <1>10 DEF PollWorkload, HelperInv
    <2> DEFINE f == ValueFrame(IF ended.kind = "exited" THEN "WORKLOAD_EXITED"
                               ELSE "WORKLOAD_SIGNALED", ended.value)
    <2>2. \/ UNCHANGED <<frames, runtime>>
          \/ /\ runtime' = [runtime EXCEPT !.finished = TRUE, !.pending = NoChange]
             /\ helper' = "cleanup" /\ SendFrame(f)
        BY <1>10 DEF PollWorkload
    <2>3. f.type \in {"WORKLOAD_EXITED", "WORKLOAD_SIGNALED"}
        BY DEF ValueFrame
    <2> HIDE DEF f
    <2>4. Speaks
        BY <2>2, <2>3, PlainSaid DEF Speaks, Replies
    <2>5. \/ runtime' = runtime
          \/ /\ runtime' = [runtime EXCEPT !.finished = TRUE, !.pending = NoChange]
             /\ helper' \in Ending
        BY <2>2
    <2>6. QED
        BY <2>1, <2>4, <2>5, PlainHelperStep
<1>11. QED
    BY <1>3, <1>4, <1>5, <1>6, <1>7, <1>8, <1>9, <1>10

(* Commands that leave the socket, or the list of the helper. *)
LEMMA ReadStartStep ==
    ASSUME SessionInv, ChangeInvariant, UNCHANGED <<ad, lcVars, ready>>, ReadStart
    PROVE  ChangeInvariant'
<1> USE DEF socketVars, workVars, lcVars, Launched
<1>1. /\ UNCHANGED <<todo, profile, runtime, frames, work, report>> /\ helper = "read_start"
      /\ \/ commands # <<>> /\ commands' = Tail(commands) /\ helper' = "prepare"
         \/ commands' = commands /\ helper' = "exited"
    BY DEF ReadStart, Exit
<1>2. work = "none" /\ commands \in {<<>>, <<StartBlock>>} /\ ~runtime.finished
    BY <1>1 DEF SessionInv, HelperInv, ChangeInvariant, StartInv, RuntimeInv
<1>3. CASE commands' = commands /\ helper' = "exited"
    <2>1. Speaks
        BY <1>1 DEF Speaks
    <2>2. QED
        BY <1>1, <1>3, <2>1, PlainHelperStep DEF Starting, Ending, Holding
<1>4. CASE commands # <<>> /\ commands' = Tail(commands) /\ helper' = "prepare"
    <2>1. Tail(<<StartBlock>>) = <<>> /\ \A i \in 1 .. Len(<<>>) : FALSE
        OBVIOUS
    <2>2. commands' = <<>> /\ lc # "begin"
        BY <1>2, <1>4, <2>1 DEF ChangeInvariant, StartInv
    <2>3. ~HasChange(commands') /\ \A d : LeadsWith(commands', d)
        BY <2>1, <2>2 DEF HasChange, LeadsWith
    <2>4. ChannelInv'
        BY <1>1, <2>3 DEF ChangeInvariant, ChannelInv, Underway
    <2>5. StartInv'
        BY <1>1, <1>2, <2>2 DEF ChangeInvariant, StartInv
    <2>6. todo = <<>>
        BY <1>1 DEF ChangeInvariant, RuntimeInv
    <2>7. RuntimeInv'
        BY <1>1, <1>2, <1>4, <2>3, <2>6 DEF ChangeInvariant, RuntimeInv
    <2>8. QED
        BY <1>1, <2>4, <2>5, <2>7, HelperStands DEF ChangeInvariant
<1>5. QED
    BY <1>1, <1>3, <1>4

(* run_helper_session(): what is read is accepted, *)
LEMMA PollSupervisorStep ==
    ASSUME SessionInv, ChangeInvariant, UNCHANGED <<ad, lcVars, ready>>, PollSupervisor
    PROVE  ChangeInvariant'
<1> USE DEF socketVars, workVars, lcVars, Launched
<1> DEFINE received == ReceiveCommands(runtime, commands)
           c == ad.cp.inflight.change
<1>1. /\ UNCHANGED <<profile, work>> /\ helper = "poll_supervisor"
      /\ \/ /\ commands # <<>> /\ commands' = <<>> /\ runtime' = received.h
            /\ received.h.valid =>
                  todo' = received.commands /\ helper' = "commands" /\ frames' = frames
         \/ /\ UNCHANGED <<frames, commands, runtime, todo>>
            /\ helper' \in {"stop_workload", "poll_workload"}
    BY DEF PollSupervisor, LoseSupervisor
<1>2. /\ work # "none" /\ commands \in Seq(HelperCommands) /\ todo = <<>>
      /\ runtime \in Runtimes /\ runtime.valid /\ ~runtime.finished
      /\ LeadsWith(commands, c) /\ (HasChange(commands) => ~runtime.stopping)
    BY <1>1 DEF SessionInv, HelperInv, MessageInv, ChangeInvariant, RuntimeInv, ChannelInv
<1>3. runtime.pending = NoChange
    BY <1>2 DEF ChangeInvariant, RuntimeInv
<1>4. CASE UNCHANGED <<frames, commands, runtime, todo>>
           /\ helper' \in {"stop_workload", "poll_workload"}
    <2>1. Speaks
        BY <1>4 DEF Speaks
    <2>2. QED
        BY <1>1, <1>4, <2>1, PlainHelperStep DEF Starting, Ending, Holding
<1>5. CASE /\ commands # <<>> /\ commands' = <<>> /\ runtime' = received.h
           /\ received.h.valid =>
                 todo' = received.commands /\ helper' = "commands" /\ frames' = frames
    <2>1. Accepted(runtime, commands, received) /\ LeadsWith(received.commands, c)
        BY <1>2, <1>3, AcceptsAll
    <2> HIDE DEF received
    <2>2. todo' = received.commands /\ helper' = "commands" /\ frames' = frames
          /\ runtime' = received.h /\ commands' = <<>>
        BY <1>5, <2>1 DEF Accepted
    <2>3. /\ runtime' \in Runtimes /\ runtime'.valid /\ ~runtime'.finished
          /\ runtime'.pending # NoChange => todo' # <<>> /\ todo'[1].change = runtime'.pending
          /\ HasChange(todo') => HasChange(commands)
          /\ runtime'.stopping =>
                runtime.stopping \/ \E j \in 1 .. Len(commands) : commands[j].change = NoChange
          /\ LeadsWith(todo', c)
        BY <2>1, <2>2 DEF Accepted
    <2>4. \A i \in 1 .. Len(<<>>) : FALSE
        OBVIOUS
    <2>5. ~HasChange(commands') /\ \A d : LeadsWith(commands', d)
        BY <2>2, <2>4 DEF HasChange, LeadsWith
    <2>6. ChannelInv'
        BY <1>1, <2>2, <2>3, <2>5 DEF ChangeInvariant, ChannelInv, Underway
    <2>7. runtime'.stopping => stops # <<>>
        BY <1>2, <2>3 DEF ChangeInvariant, RuntimeInv, StartInv
    <2>8. RuntimeInv'
        BY <2>2, <2>3, <2>5, <2>7 DEF RuntimeInv
    <2>9. StartInv'
        BY <1>1, <1>2, <2>2, <2>4 DEF ChangeInvariant, StartInv
    <2>10. QED
        BY <1>1, <2>6, <2>8, <2>9, HelperStands DEF ChangeInvariant
<1>6. QED
    BY <1>1, <1>4, <1>5

(* Nothing is left of a change behind the one at the front. *)
LEMMA AfterTheFirst ==
    ASSUME NEW s \in Seq(HelperCommands), s # <<>>, NEW c, LeadsWith(s, c)
    PROVE  /\ \A d : LeadsWith(Tail(s), d)
           /\ ~HasChange(Tail(s))
           /\ 1 \in 1 .. Len(s) /\ Head(s) = s[1] /\ Head(s) \in HelperCommands
<1> DEFINE t == Tail(s)
<1>1. /\ \A i \in 1 .. Len(t) : t[i] = s[i + 1] /\ i + 1 \in 1 .. Len(s) /\ i + 1 # 1
      /\ 1 \in 1 .. Len(s) /\ Head(s) = s[1] /\ Head(s) \in HelperCommands
    BY TailFacts
<1> HIDE DEF t
<1>2. \A i \in 1 .. Len(t) : t[i].change = NoChange
    BY <1>1 DEF LeadsWith
<1>3. (\A d : LeadsWith(t, d)) /\ ~HasChange(t)
    BY <1>2 DEF LeadsWith, HasChange
<1>4. QED
    BY <1>1, <1>3 DEF t

(* a change is carried out and answered, *)
LEMMA CarryOutChangeStep ==
    ASSUME SessionInv, ChangeInvariant, UNCHANGED <<ad, lcVars, ready>>, CarryOutChange
    PROVE  ChangeInvariant'
<1> USE DEF socketVars, workVars, lcVars, Launched
<1> DEFINE c == Head(todo).change
           d == ad.cp.inflight.change
           confirmed == ad.cp.confirmed
<1>1. /\ helper = "commands" /\ todo # <<>> /\ c # NoChange
      /\ UNCHANGED <<commands, report, work>>
      /\ todo' = IF supOpen THEN Tail(todo) ELSE <<>>
      /\ helper' = IF supOpen THEN "commands" ELSE "stop_workload"
    BY DEF CarryOutChange
<1>2. PICK completion :
         /\ runtime' = CompleteProfileChange(runtime, completion).h
         /\ profile' = IF completion = "applied" THEN ApplyProfileChange(profile, c) ELSE profile
         /\ SendFrame(CompleteProfileChange(runtime, completion).reply)
    BY DEF CarryOutChange
<1> DEFINE f == CompleteProfileChange(runtime, completion).reply
<1>3. /\ IsReply(f) /\ (f.type = "PROFILE_OK" <=> completion = "applied")
      /\ f.type # "ACTIVE"
    BY DEF CompleteProfileChange, Frame, IsReply, Replies
<1>4. /\ todo \in Seq(HelperCommands) /\ commands \in Seq(HelperCommands)
      /\ frames \in Seq(TrueFrames) /\ work # "none"
    BY <1>1 DEF SessionInv, MessageInv, HelperInv
<1>5. /\ ChannelInv /\ StartInv /\ RuntimeInv /\ Balanced(ad.cp, profile)
    BY DEF ChangeInvariant
<1>6. /\ \A e : LeadsWith(Tail(todo), e)
      /\ ~HasChange(Tail(todo))
      /\ 1 \in 1 .. Len(todo) /\ Head(todo) = todo[1]
    BY <1>1, <1>4, <1>5, AfterTheFirst DEF ChannelInv
<1>7. HasChange(todo) /\ c = d
    BY <1>1, <1>5, <1>6 DEF HasChange, ChannelInv, LeadsWith
<1>8. /\ profile = confirmed /\ ~HasChange(commands) /\ ~HasReply(frames)
      /\ InFlight(ad.cp) /\ (ad.conv.state = "active" => ad.conv.pending # NoChange)
    BY <1>5, <1>7, NothingUnderway DEF ChannelInv, Underway
<1>9. /\ (\A e : LeadsWith(todo', e)) /\ ~HasChange(todo')
    <2>1. \A i \in 1 .. Len(<<>>) : FALSE
        OBVIOUS
    <2>2. (\A e : LeadsWith(<<>>, e)) /\ ~HasChange(<<>>)
        BY <2>1 DEF LeadsWith, HasChange
    <2>3. QED
        BY <1>1, <1>6, <2>2
<1>10. /\ runtime' \in Runtimes /\ runtime'.valid /\ runtime'.pending = NoChange
       /\ runtime'.finished = runtime.finished /\ runtime'.stopping = runtime.stopping
    <2> DEFINE g == [runtime EXCEPT !.pending = NoChange, !.unknown = @ \/ completion = "unknown"]
    <2>1. runtime' = g
        BY <1>2 DEF CompleteProfileChange
    <2>2. runtime \in Runtimes /\ runtime.valid
        BY <1>5 DEF RuntimeInv
    <2>3. /\ g \in Runtimes /\ g.valid = runtime.valid /\ g.pending = NoChange
          /\ g.finished = runtime.finished /\ g.stopping = runtime.stopping
        BY <2>2 DEF Runtimes
    <2>4. QED
        BY <2>1, <2>2, <2>3
<1> HIDE DEF f
<1>11. profile' = IF completion = "applied" THEN ApplyProfileChange(confirmed, d) ELSE confirmed
    BY <1>2, <1>7, <1>8
<1>12. Balanced(ad.cp, profile')
    BY <1>8, <1>11 DEF Balanced
<1>13. frames' = frames \/ frames' = Append(frames, f)
    BY <1>2 DEF SendFrame, f
<1>14. /\ OneReply(frames')
       /\ \A i \in 1 .. Len(frames') :
             (frames'[i] = f)
             \/ (~IsReply(frames'[i]) /\ \E j \in 1 .. Len(frames) : frames'[i] = frames[j])
    <2>1. CASE frames' = frames
        BY <1>5, <1>8, <2>1 DEF ChannelInv, HasReply
    <2>2. CASE frames' = Append(frames, f)
        BY <1>3, <1>4, <1>8, <2>2, SaidReply
    <2>3. QED
        BY <1>13, <2>1, <2>2
<1>15. ChannelInv'
    <2>1. ~HasChange(commands') /\ LeadsWith(commands', d)
        BY <1>1, <1>5, <1>8 DEF ChannelInv
    <2>2. \A i \in 1 .. Len(frames') : IsReply(frames'[i]) =>
             profile' = IF frames'[i].type = "PROFILE_OK"
                          THEN ApplyProfileChange(confirmed, d) ELSE confirmed
        BY <1>3, <1>11, <1>14
    <2>3. QED
        BY <1>8, <1>9, <1>14, <2>1, <2>2 DEF ChannelInv, Underway
<1>16. StartInv'
    <2>1. \A i \in 1 .. Len(frames') : frames'[i].type = "ACTIVE" => Launched
        BY <1>3, <1>5, <1>14 DEF StartInv
    <2>2. QED
        BY <1>1, <1>4, <1>5, <2>1 DEF StartInv
<1>17. RuntimeInv'
    BY <1>1, <1>5, <1>8, <1>10 DEF RuntimeInv
<1>18. QED
    BY <1>1, <1>12, <1>15, <1>16, <1>17, HelperStands

(* and a stop is carried out. *)
LEMMA CarryOutStopStep ==
    ASSUME SessionInv, ChangeInvariant, UNCHANGED <<ad, lcVars, ready>>, CarryOutStop
    PROVE  ChangeInvariant'
<1> USE DEF socketVars, workVars, lcVars, Launched
<1>1. /\ helper = "commands" /\ todo # <<>> /\ Head(todo).change = NoChange
      /\ UNCHANGED <<commands, report, runtime, profile>>
      /\ \/ todo' = Tail(todo) /\ UNCHANGED <<frames, helper>>
         \/ todo' = <<>> /\ helper' = "stop_workload" /\ SendFrame(Frame("ERROR STOP_FAILED"))
      /\ work' \in {work, "killed", "terminated"}
    BY DEF CarryOutStop, Alive
<1>2. /\ todo \in Seq(HelperCommands) /\ frames \in Seq(TrueFrames)
      /\ ChannelInv /\ StartInv /\ RuntimeInv /\ Balanced(ad.cp, profile)
      /\ work # "none" /\ work' # "none"
    BY <1>1 DEF SessionInv, MessageInv, ChangeInvariant, HelperInv
<1>3. /\ (\A e : LeadsWith(todo', e)) /\ ~HasChange(todo')
    <2>1. \A i \in 1 .. Len(<<>>) : FALSE
        OBVIOUS
    <2>2. (\A e : LeadsWith(<<>>, e)) /\ ~HasChange(<<>>)
        BY <2>1 DEF LeadsWith, HasChange
    <2>3. (\A e : LeadsWith(Tail(todo), e)) /\ ~HasChange(Tail(todo))
        BY <1>1, <1>2, AfterTheFirst DEF ChannelInv
    <2>4. QED
        BY <1>1, <2>2, <2>3
<1>4. runtime.pending = NoChange
    <2>1. Head(todo) = todo[1]
        BY <1>1, <1>2, TailFacts
    <2>2. QED
        BY <1>1, <1>2, <2>1 DEF RuntimeInv
<1>5. Speaks
    <2>1. Frame("ERROR STOP_FAILED").type = "ERROR STOP_FAILED"
        BY DEF Frame
    <2>2. QED
        BY <1>1, <2>1, PlainSaid DEF Speaks, Replies
<1>6. \A i \in 1 .. Len(frames') : frames'[i].type = "ACTIVE" => Launched'
    BY <1>2
<1>7. ChannelInv'
    <2>1. CASE frames' = frames
        BY <1>1, <1>2, <1>3, <2>1 DEF ChannelInv, Underway
    <2>2. CASE frames' # frames
        <3>1. PICK f : frames' = Append(frames, f) /\ ~IsReply(f)
            BY <1>5, <2>2 DEF Speaks
        <3>2. /\ OneReply(frames) => OneReply(frames')
              /\ HasReply(frames') <=> HasReply(frames)
              /\ \A i \in 1 .. Len(frames') :
                    frames'[i] = f \/ \E j \in 1 .. Len(frames) : frames'[i] = frames[j]
            BY <1>2, <3>1, SaidNoReply
        <3>3. \A i \in 1 .. Len(frames') : IsReply(frames'[i]) =>
                 \E j \in 1 .. Len(frames) : frames'[i] = frames[j]
            BY <3>1, <3>2
        <3>4. \A i \in 1 .. Len(frames') : IsReply(frames'[i]) =>
                 profile = IF frames'[i].type = "PROFILE_OK"
                             THEN ApplyProfileChange(ad.cp.confirmed, ad.cp.inflight.change)
                             ELSE ad.cp.confirmed
            BY <1>2, <3>3 DEF ChannelInv
        <3>5. QED
            BY <1>1, <1>2, <1>3, <3>2, <3>4 DEF ChannelInv, Underway
    <2>3. QED
        BY <2>1, <2>2
<1>8. StartInv'
    <2>1. \A i \in 1 .. Len(frames') : frames'[i].type = "ACTIVE" => Launched
        <3>1. CASE frames' = frames
            BY <1>2, <3>1 DEF StartInv
        <3>2. QED
            BY <1>2
    <2>2. QED
        BY <1>1, <1>2, <2>1 DEF StartInv
<1>9. RuntimeInv'
    BY <1>1, <1>2, <1>4 DEF RuntimeInv
<1>10. QED
    BY <1>1, <1>2, <1>7, <1>8, <1>9, HelperStands

(* All of them. *)
LEMMA HelperSideSteps ==
    ASSUME SessionInv, ChangeInvariant,
           \/ HelperProcessStep \/ WorkloadDies \/ TerminateLauncher \/ HelperCrashes
           \/ (WorkloadEnds /\ OthersUnchanged)
    PROVE  ChangeInvariant'
<1>1. UNCHANGED <<ad, lcVars, ready>>
    BY DEF HelperProcessStep, WorkloadDies, TerminateLauncher, HelperCrashes, OthersUnchanged,
           SupervisorUnchanged, supVars
<1>2. CASE HelperProcessStep
    <2>1. HelperStep /\ OthersUnchanged
        BY <1>2 DEF HelperProcessStep
    <2>2. QED
        BY <1>1, <2>1, StartOfHelper, EndOfHelper, ReadStartStep, PollSupervisorStep,
           CarryOutChangeStep, CarryOutStopStep DEF HelperStep
<1>3. CASE WorkloadDies \/ HelperCrashes \/ (WorkloadEnds /\ OthersUnchanged)
    BY <1>1, <1>3, EndOfHelper DEF WorkloadDies, HelperCrashes
<1>4. CASE TerminateLauncher
    <2>1. HelperDies \/ UNCHANGED <<socketVars, helperVars, workVars>>
        BY <1>4 DEF TerminateLauncher
    <2>2. CASE UNCHANGED <<socketVars, helperVars, workVars>>
        BY <1>1, <2>2, StandStill DEF ChangeInvariant, CycleInv, socketVars, lcVars
    <2>3. QED
        BY <1>1, <2>1, <2>2, EndOfHelper
<1>5. QED
    BY <1>2, <1>3, <1>4

-----------------------------------------------------------------------------
(* The invariant holds at the start, and every step keeps it. *)
LEMMA ChangeInit == SessionInit => ChangeInvariant
<1> SUFFICES ASSUME SessionInit PROVE ChangeInvariant
    OBVIOUS
<1>1. /\ lc = "begin" /\ stopStage = "none" /\ stops = <<>>
      /\ frames = <<>> /\ commands = <<>> /\ todo = <<>>
      /\ helper = "send_ready" /\ runtime = RuntimeInit /\ profile = UnrestrictedProfile
      /\ work = "none" /\ ready = {} /\ ad = AdapterInit
    BY DEF SessionInit, LcInit, HelperInit
<1>2. /\ ad.cp = ControlPlaneInit /\ ~ad.hasCp /\ ad.conv = ConversationInit
      /\ ad.client = "none" /\ ad.pending = <<>> /\ ~ad.activated /\ ad.outbox = <<>>
    BY <1>1 DEF AdapterInit
<1>3. /\ ad.conv.state = "waiting_for_ready" /\ ad.conv.pending = NoChange
      /\ ~InFlight(ad.cp) /\ ad.cp.confirmed = UnrestrictedProfile
    BY <1>2 DEF ConversationInit, ControlPlaneInit, InFlight
<1>4. \A i \in 1 .. Len(<<>>) : FALSE
    OBVIOUS
<1>5. Linked(ad, Launched) /\ Balanced(ad.cp, profile)
    BY <1>1, <1>2, <1>3, <1>4 DEF Linked, Balanced
<1>6. /\ ~HasChange(<<>>) /\ (\A d : LeadsWith(<<>>, d)) /\ OneReply(<<>>) /\ ~HasReply(<<>>)
    BY <1>4 DEF HasChange, LeadsWith, OneReply, HasReply
<1>7. ChannelInv
    BY <1>1, <1>4, <1>6 DEF ChannelInv, Underway
<1>8. StartInv
    BY <1>1, <1>4 DEF StartInv, Starting, Launched
<1>9. RuntimeInv
    <2>1. RuntimeInit \in Runtimes /\ RuntimeInit.valid /\ ~RuntimeInit.finished
          /\ RuntimeInit.pending = NoChange /\ ~RuntimeInit.stopping
        BY DEF RuntimeInit, Runtimes
    <2>2. QED
        BY <1>1, <1>6, <2>1 DEF RuntimeInv
<1>10. StopsInv /\ CycleInv
    BY <1>1, <1>2 DEF StopsInv, CycleInv
<1>11. QED
    BY <1>5, <1>7, <1>8, <1>9, <1>10 DEF ChangeInvariant

(* Every step keeps it. *)
LEMMA ChangeStep == SessionInv /\ ChangeInvariant /\ [SessionNext]_vars => ChangeInvariant'
<1> SUFFICES ASSUME SessionInv, ChangeInvariant, [SessionNext]_vars PROVE ChangeInvariant'
    OBVIOUS
<1>1. CASE HelperError \/ ReadSignals \/ Accept \/ ReadClient \/ ReadClientEnd
    BY <1>1, MovingSteps
<1>2. CASE ReadHelper
    BY <1>2, ReadHelperStep
<1>3. CASE \/ Poll \/ SkipClient \/ Connect \/ SendLine \/ PressCtrlC \/ SupervisorDies
           \/ CloseHelperSocket \/ KillLauncher \/ UNCHANGED vars
           \/ CloseController \/ Reap \/ FinalizeSession \/ Publish
    BY <1>3, StillSteps
<1>4. CASE HandleEvent \/ Expire
    BY <1>4, LifecycleSteps
<1>5. CASE BeginSession
    BY <1>5, BeginStep
<1>6. CASE \/ HelperProcessStep \/ WorkloadDies \/ TerminateLauncher \/ HelperCrashes
           \/ (WorkloadEnds /\ OthersUnchanged)
    BY <1>6, HelperSideSteps
<1>7. QED
    BY <1>1, <1>2, <1>3, <1>4, <1>5, <1>6 DEF SessionNext, SupervisorStep, World

LEMMA ChangeIsTracked == SessionSpec => [](SessionInv /\ ChangeInvariant)
<1>1. SessionInit => SessionInv /\ ChangeInvariant
    BY SessionInit1, ChangeInit
<1>2. SessionInv /\ ChangeInvariant /\ [SessionNext]_vars => (SessionInv /\ ChangeInvariant)'
    BY SessionStep1, ChangeStep
<1>3. QED
    BY <1>1, <1>2, PTL DEF SessionSpec

(* The Supervisor never sends the helper a command that it must refuse: no  *)
(* change after a stop and none while another is pending, whatever order    *)
(* Controllers, Ctrl-C and an unknown profile stop the Session in.          *)
THEOREM HelperRefusesNothing == SessionSpec => []HelperNeverRefuses
<1>1. SessionInv /\ ChangeInvariant => HelperNeverRefuses
    BY DEF ChangeInvariant, RuntimeInv, HelperNeverRefuses
<1>2. QED
    BY <1>1, ChangeIsTracked, PTL

(* At most one index: the set of them has none or one. *)
LEMMA OneIndex ==
    ASSUME NEW S, \A i, j \in S : i = j
    PROVE  /\ Cardinality(S) \in {0, 1}
           /\ Cardinality(S) = 0 <=> S = {}
<1>1. Cardinality({}) = 0
    BY FS_EmptySet
<1>2. CASE S = {}
    BY <1>1, <1>2
<1>3. CASE S # {}
    <2>1. PICK k : k \in S
        BY <1>3
    <2>2. S = {k}
        BY <2>1
    <2>3. Cardinality(S) = 1
        BY <2>2, FS_Singleton
    <2>4. QED
        BY <1>3, <2>3
<1>4. QED
    BY <1>2, <1>3

(* The counts of the property, from the indices. *)
LEMMA CountChanges ==
    ASSUME NEW X, NEW s \in Seq(X), NEW c, LeadsWith(s, c)
    PROVE  /\ ChangesIn(s) \in {0, 1}
           /\ ChangesIn(s) = 0 <=> ~HasChange(s)
<1> DEFINE S == {i \in DOMAIN s : s[i].change # NoChange}
<1>1. DOMAIN s = 1 .. Len(s)
    OBVIOUS
<1>2. \A i, j \in S : i = j
    BY <1>1 DEF LeadsWith
<1>3. S = {} <=> ~HasChange(s)
    BY <1>1 DEF HasChange
<1>4. ChangesIn(s) = Cardinality(S)
    BY DEF ChangesIn
<1> HIDE DEF S
<1>5. QED
    BY <1>2, <1>3, <1>4, OneIndex

LEMMA CountReplies ==
    ASSUME NEW X, NEW s \in Seq(X), OneReply(s)
    PROVE  /\ RepliesIn(s) \in {0, 1}
           /\ RepliesIn(s) = 0 <=> ~HasReply(s)
<1> DEFINE S == {i \in DOMAIN s : s[i].type \in Replies}
<1>1. DOMAIN s = 1 .. Len(s)
    OBVIOUS
<1>2. \A i, j \in S : i = j
    BY <1>1 DEF OneReply, IsReply
<1>3. S = {} <=> ~HasReply(s)
    BY <1>1 DEF HasReply, IsReply
<1>4. RepliesIn(s) = Cardinality(S)
    BY DEF RepliesIn
<1> HIDE DEF S
<1>5. QED
    BY <1>2, <1>3, <1>4, OneIndex

(* A Profile Change is in one place at a time: written and not yet read,    *)
(* accepted by the helper, or answered and not yet heard; and while the     *)
(* conversation is active the Supervisor knows which it is.                 *)
THEOREM ChangeHasOnePlace == SessionSpec => []ChangeIsInOnePlace
<1>1. SessionInv /\ ChangeInvariant => ChangeIsInOnePlace
    <2> SUFFICES ASSUME SessionInv, ChangeInvariant PROVE ChangeIsInOnePlace
        OBVIOUS
    <2>1. /\ frames \in Seq(TrueFrames) /\ commands \in Seq(HelperCommands)
          /\ todo \in Seq(HelperCommands) /\ ChannelInv
        BY DEF SessionInv, MessageInv, ChangeInvariant
    <2>2. /\ ChangesIn(commands) \in {0, 1} /\ (ChangesIn(commands) = 0 <=> ~HasChange(commands))
          /\ ChangesIn(todo) \in {0, 1} /\ (ChangesIn(todo) = 0 <=> ~HasChange(todo))
        BY <2>1, CountChanges DEF ChannelInv
    <2>3. RepliesIn(frames) \in {0, 1} /\ (RepliesIn(frames) = 0 <=> ~HasReply(frames))
        BY <2>1, CountReplies DEF ChannelInv
    <2>4. /\ HasReply(frames) => ~HasChange(commands) /\ ~HasChange(todo)
          /\ HasChange(commands) => ~HasChange(todo)
          /\ Underway /\ ad.conv.state = "active" => ad.conv.pending # NoChange
        BY <2>1 DEF ChannelInv
    <2>5. ad.conv.pending # NoChange => ad.cp.inflight.change = ad.conv.pending
        BY DEF ChangeInvariant, Linked
    <2> DEFINE a == ChangesIn(commands)
               b == ChangesIn(todo)
               d == RepliesIn(frames)
    <2> HIDE DEF a, b, d
    <2>6. a \in {0, 1} /\ b \in {0, 1} /\ d \in {0, 1}
        BY <2>2, <2>3 DEF a, b, d
    <2>7. /\ d = 1 => a = 0 /\ b = 0
          /\ a = 1 => b = 0
          /\ (a = 1 \/ b = 1 \/ d = 1) <=> Underway
        BY <2>2, <2>3, <2>4 DEF a, b, d, Underway
    <2>8. a + b + d <= 1 /\ (a + b + d = 1 => Underway)
        BY <2>6, <2>7
    <2>9. QED
        BY <2>4, <2>5, <2>8 DEF ChangeIsInOnePlace, a, b, d
<1>2. QED
    BY <1>1, ChangeIsTracked, PTL

(* The profile the Supervisor shows is the one in force: equal to what the  *)
(* helper has applied when no change is in flight, and one change away at   *)
(* most when one is, for any Controllers, stops, crashes and completions.   *)
THEOREM ProfilesAgree == SessionSpec => []ProfileAgreement
<1>1. SessionInv /\ ChangeInvariant => ProfileAgreement
    BY DEF ChangeInvariant, Balanced, ProfileAgreement
<1>2. QED
    BY <1>1, ChangeIsTracked, PTL
=============================================================================
