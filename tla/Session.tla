------------------------------ MODULE Session -------------------------------
(***************************************************************************)
(* One Session of `netlaglab run`: the Supervisor (run_session() of        *)
(* src/session.cpp, its lifecycle and its adapter), the privileged helper, *)
(* the Workload, and Controllers that attach, send commands and go away.   *)
(*                                                                         *)
(* The Supervisor is one thread.  One poll() cycle is the action Poll,     *)
(* which records the revents, followed by one action for each descriptor   *)
(* that was ready, in the order of the code; only when the cycle is over   *)
(* does the lifecycle get the first pending event.  The other processes    *)
(* run in between.                                                         *)
(***************************************************************************)
EXTENDS SessionLifecycle, HelperProcess, LifecycleAdapter

CONSTANTS
    Lines,              \* the lines a Controller may send
    MaxLines,           \* bound: lines sent in the Session
    MaxConnections,     \* bound: Controllers that connect
    MaxInterrupts,      \* bound: Ctrl-C
    SupervisorMayDie    \* whether the Supervisor process may be lost

ASSUME SessionBoundsAssumption ==
    /\ MaxLines \in Nat /\ MaxConnections \in Nat /\ MaxInterrupts \in Nat
    /\ SupervisorMayDie \in BOOLEAN
ASSUME LinesAssumption == Lines \subseteq ControllerLines

VARIABLES
    ad,          \* the adapter, see LifecycleAdapter
    ready,       \* the revents of this cycle that are still to be handled
    alive,       \* the Supervisor process exists
    reap,        \* how far reap_helper_launcher() is
    lines,       \* lines the attached Controller has sent, not yet read
    waiting,     \* a connection in the backlog of control.sock
    interrupts,  \* markers in the signal pipe
    used,        \* how much of each bound has been used
    owed,        \* (history) lines read from this connection, not yet answered
    misreplied   \* (history) a text answered no line, or not the next one

supVars == <<ad, ready, alive, reap>>
worldVars == <<lines, waiting, interrupts, used>>
historyVars == <<owed, misreplied>>
vars == <<lcVars, socketVars, helperVars, workVars, faults, supVars, worldVars, historyVars>>

SessionInit ==
    /\ LcInit /\ HelperInit
    /\ ad = AdapterInit /\ ready = {} /\ alive = TRUE /\ reap = "no"
    /\ lines = <<>> /\ waiting = "none" /\ interrupts = 0
    /\ used = [lines |-> 0, connections |-> 0, interrupts |-> 0]
    /\ owed = <<>> /\ misreplied = FALSE

-----------------------------------------------------------------------------
(* History: what the attached Controller has asked for and is still owed.   *)
(* Ordinary commands are answered in order; a parse error is answered at    *)
(* once; STOPPING answers a stop and cancels what was asked before it.      *)

\* An empty line asks for nothing.
Asked(read) ==
    FoldLeft(LAMBDA asked, l : IF l.type = "empty" THEN asked ELSE Append(asked, l),
             <<>>, read)

IndexOf(s, types) ==
    LET is == {i \in DOMAIN s : s[i].type \in types}
    IN  IF is = {} THEN 0 ELSE CHOOSE i \in is : \A j \in is : i <= j

Answers(text, line) ==
    CASE text.text \in {"PROFILE_CHANGED", "ERROR profile"} ->
            line.type = "change" /\ line.change = text.change
      [] text.text = "ERROR stopping" -> line.type = "change"
      [] text.text = "STATUS" -> line.type = "status"
      [] text.text = "HELP" -> line.type = "help"
      [] text.text = "DETACHED" -> line.type = "detach"
      [] OTHER -> FALSE

Observe(r, text) ==
    LET i == CASE text.text = "STOPPING" -> IndexOf(r.owed, {"stop"})
               [] text.text \in {"ERROR parse", "ERROR too long"} ->
                     IndexOf(r.owed, {"invalid", "oversized"})
               [] text.text = "ERROR too many" -> Len(r.owed)
               [] OTHER -> IF r.owed # <<>> /\ Answers(text, Head(r.owed)) THEN 1 ELSE 0
    IN  CASE text.text = "ATTACHED" -> [r EXCEPT !.ok = @ /\ r.owed = <<>>]
          [] text.text # "ATTACHED" /\ i = 0 -> [r EXCEPT !.ok = FALSE]
          [] text.text \in {"STOPPING", "ERROR too many"} /\ i # 0 ->
                [r EXCEPT !.owed = SubSeq(@, i + 1, Len(@))]
          [] OTHER -> [r EXCEPT !.owed = RemoveAt(@, i)]

-----------------------------------------------------------------------------
(* The Supervisor *)

Now(fails) == [ad EXCEPT !.helperOpen = helperOpen, !.socketFails = fails]

(* The effect of an adapter step that has read `asked` from the Controller. *)
Install(x, asked) ==
    LET seen == FoldLeft(Observe, [owed |-> owed \o asked, ok |-> TRUE], x.texts)
        over == x.client = "none" \/ x.cp.terminal \/ x.cp.failed
    IN  /\ ad' = [x EXCEPT !.outbox = <<>>, !.texts = <<>>, !.halted = FALSE,
                           !.helperOpen = TRUE, !.socketFails = FALSE]
        /\ commands' = commands \o x.outbox
        /\ owed' = IF over THEN <<>> ELSE seen.owed
        /\ misreplied' = (misreplied \/ ~seen.ok)

(* begin(): the first read must be READY and nothing else. *)
BeginSession ==
    /\ alive /\ lc = "begin"
    /\ frames # <<>> \/ ~helperOpen
    /\ LET received == IF frames # <<>> THEN ReceiveFrames(ad.conv, frames)
                                        ELSE PeerClosed(ad.conv)
           isReady  == Len(received.events) = 1 /\ received.events[1].kind = "ready"
           ok       == isReady /\ helperOpen
       IN  /\ Begin(ok)
           /\ ad' = [ad EXCEPT !.conv = received.conv]
           /\ commands' = IF ok THEN Append(commands, StartBlock) ELSE commands
    /\ frames' = <<>>
    /\ UNCHANGED <<supOpen, helperOpen, helperVars, workVars, faults, ready, alive, reap,
                   worldVars, historyVars>>

Waiting == alive /\ lc \in States /\ ad.pending = <<>> /\ ready = {}

Revents ==
    {r \in {"helper", "helper_err", "signals", "listener", "client_in", "client_hup"} :
       CASE r = "helper" -> frames # <<>> \/ ~helperOpen
         [] r = "helper_err" -> ~helperOpen /\ commands # <<>>
         [] r = "signals" -> interrupts > 0
         [] r = "listener" -> ad.listening /\ waiting # "none"
         [] r = "client_in" -> ad.client = "closed" \/ (ad.client = "open" /\ lines # <<>>)
         [] OTHER -> ad.client = "closed"}

Poll ==
    /\ Waiting
    /\ Revents # {}
    /\ ready' = Revents
    /\ UNCHANGED <<lcVars, socketVars, helperVars, workVars, faults, ad, alive, reap,
                   worldVars, historyVars>>

Turn(r) ==
    LET order == <<"helper", "helper_err", "signals", "listener", "client_in", "client_hup">>
    IN  /\ alive /\ lc \in States /\ r \in ready
        /\ \A i, j \in DOMAIN order : order[i] = r /\ j < i => order[j] \notin ready

Handled(r) == ready' = ready \ {r}

ReadHelper ==
    /\ Turn("helper")
    /\ \E fails \in BOOLEAN :
         /\ IF fails THEN Fault /\ \E i \in DOMAIN frames : frames[i].type = "ACTIVE"
                     ELSE UNCHANGED faults
         /\ Install(ReadHelperEvents(Now(fails), frames), <<>>)
    /\ frames' = <<>>
    /\ Handled("helper")
    /\ lines' = IF ad'.client = "none" THEN <<>> ELSE lines
    /\ UNCHANGED <<lcVars, supOpen, helperOpen, helperVars, workVars, alive, reap,
                   waiting, interrupts, used>>

(* POLLERR: the helper closed its end with commands unread. *)
HelperError ==
    /\ Turn("helper_err")
    /\ ad' = Push(ad, "conversation_lost", 0)
    /\ Handled("helper_err")
    /\ UNCHANGED <<lcVars, socketVars, helperVars, workVars, faults, alive, reap,
                   worldVars, historyVars>>

ReadSignals ==
    /\ Turn("signals")
    /\ LET x == TakeInterrupts(Now(FALSE), interrupts)
       IN  /\ ad' = [x EXCEPT !.helperOpen = TRUE]
           /\ owed' = IF x.cp.stopping THEN <<>> ELSE owed
    /\ interrupts' = 0
    /\ Handled("signals")
    /\ UNCHANGED <<lcVars, socketVars, helperVars, workVars, faults, alive, reap,
                   lines, waiting, used, misreplied>>

Accept ==
    /\ Turn("listener")
    /\ IF ad.activated
         THEN \/ /\ Install(AcceptController(Now(FALSE), waiting), <<>>)
                 /\ waiting' = "none"
                 /\ UNCHANGED faults
              \/ /\ Fault      \* accept4() failed
                 /\ ad' = Push(ad, "conversation_lost", 0)
                 /\ UNCHANGED <<commands, owed, misreplied, waiting>>
         ELSE UNCHANGED <<ad, commands, owed, misreplied, waiting, faults>>
    /\ Handled("listener")
    /\ UNCHANGED <<lcVars, frames, supOpen, helperOpen, helperVars, workVars, alive, reap,
                   lines, interrupts, used>>

(* The client's descriptor is read when the cycle began with it readable:   *)
(* once, or up to the end of the stream when it began with a hangup.        *)
ClientIgnored == ad.finished \/ ad.client = "none"

ReadClient ==
    /\ Turn("client_in")
    /\ ~ClientIgnored
    /\ lines # <<>>
    /\ LET x == ControllerBytes(Now(FALSE), lines)
       IN  /\ Install(x, Asked(lines))
           /\ IF "client_hup" \in ready /\ x.client # "none" THEN UNCHANGED ready
                                                            ELSE Handled("client_in")
    /\ lines' = <<>>
    /\ UNCHANGED <<lcVars, frames, supOpen, helperOpen, helperVars, workVars, faults,
                   alive, reap, waiting, interrupts, used>>

ReadClientEnd ==
    /\ \/ Turn("client_in") /\ ~ClientIgnored /\ lines = <<>> /\ ad.client = "closed"
       \/ Turn("client_hup") /\ ad.client # "none"
    /\ Install(ControllerGone(Now(FALSE)), <<>>)
    /\ ready' = ready \ {"client_in", "client_hup"}
    /\ lines' = <<>>
    /\ UNCHANGED <<lcVars, frames, supOpen, helperOpen, helperVars, workVars, faults,
                   alive, reap, waiting, interrupts, used>>

SkipClient ==
    /\ \/ Turn("client_in") /\ ClientIgnored /\ Handled("client_in")
       \/ Turn("client_hup") /\ ad.client = "none" /\ Handled("client_hup")
    /\ UNCHANGED <<lcVars, socketVars, helperVars, workVars, faults, ad, alive, reap,
                   worldVars, historyVars>>

(* The lifecycle handles one event; a stop request goes to the helper if it *)
(* is still there.                                                          *)
Lifecycle(e) ==
    /\ Handle(e, helperOpen)
    /\ commands' = IF stops' # stops THEN Append(commands, StopCommand(Last(stops')))
                                     ELSE commands
    /\ UNCHANGED <<frames, supOpen, helperOpen, helperVars, workVars, faults, ready, alive,
                   reap, worldVars, historyVars>>

HandleEvent ==
    /\ alive /\ lc \in States /\ ready = {} /\ ad.pending # <<>>
    /\ Lifecycle(Head(ad.pending))
    /\ ad' = [ad EXCEPT !.pending = Tail(@)]

(* The deadline is looked at before poll() is called. *)
Expire ==
    /\ Waiting /\ DeadlineActive
    /\ Lifecycle(Event("deadline_expired"))
    /\ UNCHANGED ad

(* reap_helper_launcher().  The launcher ends with the helper; a signal to  *)
(* it may end the helper, end only the launcher, or not be permitted.       *)
CloseHelperSocket ==
    /\ alive /\ lc = "reap_launcher" /\ reap = "no"
    /\ supOpen' = FALSE
    /\ reap' = "natural"
    /\ UNCHANGED <<lcVars, frames, commands, helperOpen, helperVars, workVars, faults, ad,
                   ready, alive, worldVars, historyVars>>

Reap ==
    /\ alive /\ reap # "no"
    /\ reap = "orphaned" \/ HelperDone
    /\ ReapLauncher(reap = "natural" /\ helper = "exited" /\ status = 0)
    /\ UNCHANGED <<socketVars, helperVars, workVars, faults, supVars, worldVars, historyVars>>

TerminateLauncher ==
    /\ alive /\ lc = "reap_launcher" /\ reap = "natural" /\ ~HelperDone
    /\ reap' = "terminated"
    /\ HelperDies \/ UNCHANGED <<socketVars, helperVars, workVars>>
    /\ UNCHANGED <<lcVars, faults, ad, ready, alive, worldVars, historyVars>>

KillLauncher ==
    /\ alive /\ lc = "reap_launcher" /\ reap = "terminated" /\ ~HelperDone
    /\ reap' \in {"killed", "orphaned"}
    /\ UNCHANGED <<lcVars, socketVars, helperVars, workVars, faults, ad, ready, alive,
                   worldVars, historyVars>>

FinalizeSession ==
    /\ alive
    /\ \/ Finalize(TRUE) /\ UNCHANGED faults
       \/ Finalize(FALSE) /\ Fault
    /\ ad' = [ad EXCEPT !.listening = FALSE]
    /\ waiting' = "none"
    /\ UNCHANGED <<socketVars, helperVars, workVars, ready, alive, reap, lines, interrupts,
                   used, historyVars>>

Publish ==
    /\ alive
    /\ PublishOutcome
    /\ ad' = [ad EXCEPT !.client = "none"]
    /\ lines' = <<>> /\ owed' = <<>>
    /\ UNCHANGED <<socketVars, helperVars, workVars, faults, ready, alive, reap, waiting,
                   interrupts, used, misreplied>>

SupervisorStep ==
    \/ BeginSession \/ Poll \/ ReadHelper \/ HelperError \/ ReadSignals \/ Accept
    \/ ReadClient \/ ReadClientEnd \/ SkipClient \/ HandleEvent
    \/ CloseHelperSocket \/ Reap \/ TerminateLauncher \/ KillLauncher
    \/ FinalizeSession \/ Publish

-----------------------------------------------------------------------------
(* The world *)

Use(what, bound) == used[what] < bound /\ used' = [used EXCEPT ![what] = @ + 1]

SupervisorUnchanged == UNCHANGED <<lcVars, supVars>>
HelperUnchanged == UNCHANGED <<socketVars, helperVars, workVars, faults>>

Connect ==
    /\ ad.listening /\ waiting = "none" /\ alive
    /\ Use("connections", MaxConnections)
    /\ waiting' = "open"
    /\ SupervisorUnchanged /\ HelperUnchanged
    /\ UNCHANGED <<lines, interrupts, historyVars>>

(* A Controller ends before it is accepted, or while it is attached. *)
CloseController ==
    /\ alive
    /\ \/ /\ waiting = "open"
          /\ waiting' = "closed"
          /\ UNCHANGED ad
       \/ /\ ad.client = "open"
          /\ ad' = [ad EXCEPT !.client = "closed"]
          /\ UNCHANGED waiting
    /\ HelperUnchanged
    /\ UNCHANGED <<lcVars, ready, alive, reap, lines, interrupts, used, historyVars>>

SendLine ==
    /\ ad.client = "open" /\ alive /\ lc \in States
    /\ Use("lines", MaxLines)
    /\ \E l \in Lines : lines' = Append(lines, l)
    /\ SupervisorUnchanged /\ HelperUnchanged
    /\ UNCHANGED <<waiting, interrupts, historyVars>>

PressCtrlC ==
    /\ alive /\ lc \in States \cup {"begin"}
    /\ Use("interrupts", MaxInterrupts)
    /\ interrupts' = interrupts + 1
    /\ SupervisorUnchanged /\ HelperUnchanged
    /\ UNCHANGED <<lines, waiting, historyVars>>

SupervisorDies ==
    /\ SupervisorMayDie /\ alive /\ lc # "done"
    /\ alive' = FALSE
    /\ supOpen' = FALSE
    /\ UNCHANGED <<lcVars, frames, commands, helperOpen, helperVars, workVars, faults,
                   ad, ready, reap, worldVars, historyVars>>

HelperCrashes ==
    /\ Fault
    /\ HelperDies
    /\ SupervisorUnchanged
    /\ UNCHANGED <<worldVars, historyVars>>

OthersUnchanged == SupervisorUnchanged /\ UNCHANGED <<worldVars, historyVars>>

HelperProcessStep == HelperStep /\ OthersUnchanged
WorkloadDies == WorkloadKilled /\ OthersUnchanged

World ==
    \/ Connect \/ CloseController \/ SendLine \/ PressCtrlC
    \/ SupervisorDies \/ HelperCrashes
    \/ WorkloadEnds /\ OthersUnchanged

SessionNext ==
    SupervisorStep \/ Expire \/ HelperProcessStep \/ WorkloadDies \/ World

(* The Supervisor, the helper and the kernel run; the grace periods end.    *)
(* Nothing is assumed of Controllers, of the user, or of a Workload that    *)
(* has not been killed.  Each is weak fairness, WF_vars of the action, with *)
(* ENABLED written out as the state predicate it amounts to: what the       *)
(* process can be blocked on.                                               *)

\* read() on a blocking socket whose peer has sent nothing; EINTR is retried.
BlockedOnController ==
    Turn("client_in") /\ ~ClientIgnored /\ lines = <<>> /\ ad.client = "open"

SupervisorBlocked ==
    \/ lc = "begin" /\ frames = <<>> /\ helperOpen
    \/ Waiting /\ Revents = {}
    \/ BlockedOnController
    \/ lc = "reap_launcher" /\ reap = "killed" /\ ~HelperDone

HelperBlocked ==
    \/ helper = "read_start" /\ commands = <<>> /\ supOpen
    \/ helper = "poll_supervisor" /\ commands = <<>> /\ supOpen /\ work # "zombie"
    \/ helper = "stop_grace" /\ work = "killed"

SupervisorCanMove == alive /\ lc # "done" /\ ~SupervisorBlocked
HelperCanMove == ~HelperDone /\ ~HelperBlocked

Fairness ==
    /\ []<>~SupervisorCanMove \/ []<><<SupervisorStep>>_vars
    /\ []<>~(Waiting /\ DeadlineActive) \/ []<><<Expire>>_vars
    /\ []<>~HelperCanMove \/ []<><<HelperProcessStep>>_vars
    /\ []<>(work # "killed") \/ []<><<WorkloadDies>>_vars

SessionSpec == SessionInit /\ [][SessionNext]_vars /\ Fairness
=============================================================================
