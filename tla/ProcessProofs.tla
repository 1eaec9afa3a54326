---------------------------- MODULE ProcessProofs ----------------------------
(***************************************************************************)
(* Theorems about processes: the Supervisor and the helper of a Session,   *)
(* from start to end (SessionStart), and the child of an external command  *)
(* (CommandRunner).  They share nothing, and each part is about one of     *)
(* them.                                                                   *)
(***************************************************************************)
EXTENDS SessionStart, CommandRunner, TLAPS

-----------------------------------------------------------------------------
(* Part 1: SessionStart, for any number of Sessions and of killed           *)
(* processes: a Supervisor and a helper that have found each other belong   *)
(* together, and an active Session's control.sock is its own.               *)

(* The Supervisors that have taken session.lock and still live.             *)
Locked ==
    {"spawn", "connect", "inspect", "authenticate", "await_ready", "await_active",
     "active", "reaping"}

SupervisorTypeOK == supervisor \in [Sessions -> Locked \cup {"not_run", "lock", "gone"}]
HelperDomains == DOMAIN helper = Sessions /\ DOMAIN link = Sessions /\ DOMAIN peer = Sessions

(* Mutual exclusion: a Supervisor past flock() holds the lock, whatever the *)
(* helpers that probe it do.                                                *)
LockIsHeld == \A s \in Sessions :
    supervisor[s] \in Locked => lock = Holder("supervisor", s)

(* OwnHelperOnly, in two halves that disturb each other nowhere: what the   *)
(* Supervisor has found, and whom the helper has accepted, from its check   *)
(* on ("serve").                                                            *)
OwnHelperFound == \A s \in Sessions :
    supervisor[s] \in {"await_ready", "await_active", "active"} => link[s] = s

OwnSupervisorAccepted == \A s \in Sessions :
    helper[s] \in {"serve", "ready", "context", "prepare", "work", "clean_up"} => peer[s] = s

(* The inductive invariant.  ControlSocketIsOurs needs LockIsHeld: nobody   *)
(* else can remove the name.                                                *)
StInv == /\ SupervisorTypeOK
         /\ HelperDomains
         /\ LockIsHeld
         /\ OwnHelperFound
         /\ OwnSupervisorAccepted
         /\ ControlSocketIsOurs

StepOf(s) ==
    \/ Run(s) \/ Sudo(s) \/ EndWorkload(s)
    \/ SupervisorStep(s) \/ HelperStep(s)
    \/ SupervisorKilled(s) \/ HelperKilled(s)

-----------------------------------------------------------------------------
(* Nothing runs, nothing is connected. *)
LEMMA StInvInit == StInit => StInv
BY DEF StInit, StInv, SupervisorTypeOK, HelperDomains, LockIsHeld, OwnHelperFound,
   OwnSupervisorAccepted, ControlSocketIsOurs, Locked

(* No two Supervisors hold the lock, and no helper holds it as one.         *)
LEMMA HolderFacts ==
    /\ \A s, t \in Sessions : Holder("supervisor", s) = Holder("supervisor", t) => s = t
    /\ \A s, t \in Sessions : Holder("helper", s) # Holder("supervisor", t)
    /\ \A s \in Sessions : Holder("supervisor", s) # NoOne
<1>1. \A s, t \in Sessions : Holder("supervisor", s) = Holder("supervisor", t) => s = t
    BY DEF Holder
<1>2. \A s, t \in Sessions : Holder("helper", s) # Holder("supervisor", t)
    BY DEF Holder
<1>3. \A s \in Sessions : Holder("supervisor", s) # NoOne
    BY StartAssumption DEF Holder, Sessions
<1>4. QED
    BY <1>1, <1>2, <1>3

(* What the helper's steps, and the world's, leave alone. *)
LEMMA HelperStepFrame ==
    ASSUME NEW s \in Sessions,
           Sudo(s) \/ EndWorkload(s) \/ HelperStep(s) \/ HelperKilled(s) \/ TerminateLauncher(s)
    PROVE  /\ UNCHANGED <<supervisor, link, controlName>>
           /\ lock' = lock \/ lock \in {NoOne, Holder("helper", s)}
<1> USE DEF Helper, HelperLeaves, HelperEnds, Uninvolved, Apart, sockets
<1>1. CASE Sudo(s) \/ EndWorkload(s) \/ HelperKilled(s) \/ TerminateLauncher(s)
    BY <1>1 DEF Sudo, EndWorkload, HelperKilled, TerminateLauncher
<1>2. CASE MonitorSupervisor(s) \/ ProbeLock(s) \/ ReleaseLock(s) \/ LookForStale(s)
    BY <1>2 DEF MonitorSupervisor, ProbeLock, ReleaseLock, LookForStale
<1>3. CASE RemoveStale(s) \/ Bind(s) \/ GiveToUser(s) \/ Listen(s)
    BY <1>3 DEF RemoveStale, Bind, GiveToUser, Listen
<1>4. CASE AcceptSupervisor(s) \/ CheckPeer(s) \/ RemoveListener(s) \/ SendReady(s)
    BY <1>4 DEF AcceptSupervisor, CheckPeer, RemoveListener, SendReady
<1>5. CASE ReceiveContext(s) \/ PrepareEnvironment(s) \/ LoseSupervisor(s) \/ CleanUp(s)
    BY <1>5 DEF ReceiveContext, PrepareEnvironment, LoseSupervisor, CleanUp
<1>6. QED
    BY <1>1, <1>2, <1>3, <1>4, <1>5 DEF HelperStep

(* The steps of a Supervisor but for the one that only ends its helper.     *)
OwnStep(s) ==
    \/ Run(s) \/ TakeLock(s) \/ Spawn(s) \/ Connect(s) \/ ConnectFails(s) \/ GiveUpSearch(s)
    \/ InspectName(s) \/ Authenticate(s) \/ ReceiveReady(s) \/ NoReady(s)
    \/ Publish(s) \/ LeaveSession(s) \/ Finish(s) \/ SupervisorKilled(s)

(* A step of one Supervisor moves that one: it takes the lock when nobody   *)
(* has it, or goes on with it, or ends and gives up what it holds.          *)
LEMMA OwnStepMoves ==
    ASSUME SupervisorTypeOK, NEW s \in Sessions, OwnStep(s)
    PROVE  /\ SupervisorTypeOK'
           /\ \A t \in Sessions \ {s} : supervisor'[t] = supervisor[t]
           /\ \/ supervisor'[s] \notin Locked
                 /\ lock' = (IF lock = Holder("supervisor", s) THEN NoOne ELSE lock)
              \/ supervisor'[s] \notin Locked /\ UNCHANGED lock
              \/ supervisor[s] \in Locked /\ UNCHANGED lock
              \/ lock = NoOne /\ lock' = Holder("supervisor", s)
<1> USE DEF SupervisorTypeOK, Locked
<1>1. CASE Run(s) \/ TakeLock(s)
    BY <1>1 DEF Run, TakeLock, Supervisor, Exit
<1>2. CASE Spawn(s) \/ Connect(s) \/ ReceiveReady(s) \/ Publish(s)
    BY <1>2 DEF Spawn, Connect, ReceiveReady, Publish, Supervisor
<1>3. CASE ConnectFails(s) \/ GiveUpSearch(s) \/ NoReady(s)
    BY <1>3 DEF ConnectFails, GiveUpSearch, NoReady, Refuse, Supervisor
<1>4. CASE LeaveSession(s)
    BY <1>4 DEF LeaveSession, Refuse, Supervisor
<1>5. CASE InspectName(s) \/ Authenticate(s)
    BY <1>5 DEF InspectName, Authenticate, Refuse, Supervisor
<1>6. CASE Finish(s) \/ SupervisorKilled(s)
    BY <1>6 DEF Finish, SupervisorKilled, Exit
<1>7. QED
    BY <1>1, <1>2, <1>3, <1>4, <1>5, <1>6 DEF OwnStep

(* flock() is exclusive.                                                    *)
LEMMA LockStep ==
    ASSUME SupervisorTypeOK, LockIsHeld, NEW s \in Sessions, StepOf(s)
    PROVE  SupervisorTypeOK' /\ LockIsHeld'
<1>1. CASE OwnStep(s)
    <2>1. SupervisorTypeOK'
        BY <1>1, OwnStepMoves
    <2>2. ASSUME NEW t \in Sessions, supervisor'[t] \in Locked
          PROVE  lock' = Holder("supervisor", t)
        <3>1. CASE t = s
            BY <1>1, <2>2, <3>1, OwnStepMoves DEF LockIsHeld
        <3>2. CASE t # s
            BY <1>1, <2>2, <3>2, OwnStepMoves, HolderFacts DEF LockIsHeld
        <3>3. QED
            BY <3>1, <3>2
    <2>3. QED
        BY <2>1, <2>2 DEF LockIsHeld
<1>2. CASE Sudo(s) \/ EndWorkload(s) \/ HelperStep(s) \/ HelperKilled(s) \/ TerminateLauncher(s)
    <2>1. UNCHANGED supervisor /\ (lock' = lock \/ lock \in {NoOne, Holder("helper", s)})
        BY <1>2, HelperStepFrame
    <2>2. QED
        BY <2>1, HolderFacts DEF SupervisorTypeOK, LockIsHeld
<1>3. QED
    BY <1>1, <1>2 DEF StepOf, SupervisorStep, OwnStep

(* The name control.sock is published and removed by the holder of the lock *)
(* only.                                                                    *)
LEMMA ControlSocketStep ==
    ASSUME SupervisorTypeOK, LockIsHeld, ControlSocketIsOurs, NEW s \in Sessions, StepOf(s)
    PROVE  ControlSocketIsOurs'
<1> USE DEF SupervisorTypeOK, ControlSocketIsOurs
<1>1. CASE Authenticate(s)
    <2>1. lock = Holder("supervisor", s)
        BY <1>1 DEF Authenticate, LockIsHeld, Locked
    <2>2. \A t \in Sessions : supervisor[t] = "active" => t = s
        BY <2>1, HolderFacts DEF LockIsHeld, Locked
    <2>3. QED
        BY <1>1, <2>2 DEF Authenticate, Refuse, Supervisor
<1>2. CASE Publish(s)
    <2>1. lock = Holder("supervisor", s)
        BY <1>2 DEF Publish, Supervisor, LockIsHeld, Locked
    <2>2. \A t \in Sessions : supervisor[t] = "active" => t = s
        BY <2>1, HolderFacts DEF LockIsHeld, Locked
    <2>3. QED
        BY <1>2, <2>2 DEF Publish, Supervisor
<1>3. CASE Finish(s)
    BY <1>3 DEF Finish, Exit
<1>4. CASE Run(s) \/ TakeLock(s) \/ Spawn(s) \/ Connect(s) \/ ReceiveReady(s)
    BY <1>4 DEF Run, TakeLock, Spawn, Connect, ReceiveReady, Supervisor, Exit
<1>5. CASE ConnectFails(s) \/ GiveUpSearch(s) \/ InspectName(s) \/ NoReady(s) \/ LeaveSession(s)
    BY <1>5 DEF ConnectFails, GiveUpSearch, InspectName, NoReady, LeaveSession, Refuse, Supervisor
<1>6. CASE SupervisorKilled(s)
    BY <1>6 DEF SupervisorKilled, Exit
<1>7. CASE Sudo(s) \/ EndWorkload(s) \/ HelperStep(s) \/ HelperKilled(s) \/ TerminateLauncher(s)
    BY <1>7, HelperStepFrame
<1>8. QED
    BY <1>1, <1>2, <1>3, <1>4, <1>5, <1>6, <1>7 DEF StepOf, SupervisorStep

-----------------------------------------------------------------------------
(* Only connecting changes where a Supervisor's connection leads, and the   *)
(* check that lets it go on is that of the peer.                            *)
LEMMA OwnHelperFoundStep ==
    ASSUME SupervisorTypeOK, HelperDomains, OwnHelperFound, NEW s \in Sessions, StepOf(s)
    PROVE  OwnHelperFound'
<1> USE DEF SupervisorTypeOK, HelperDomains, OwnHelperFound
<1>1. CASE Run(s) \/ TakeLock(s) \/ Spawn(s) \/ Connect(s)
    BY <1>1 DEF Run, TakeLock, Spawn, Connect, Supervisor, Exit
<1>2. CASE ConnectFails(s) \/ GiveUpSearch(s) \/ InspectName(s) \/ NoReady(s)
    BY <1>2 DEF ConnectFails, GiveUpSearch, InspectName, NoReady, Refuse, Supervisor
<1>3. CASE Authenticate(s)
    BY <1>3 DEF Authenticate, OwnPeer, Refuse, Supervisor
<1>4. CASE ReceiveReady(s) \/ Publish(s) \/ LeaveSession(s)
    BY <1>4 DEF ReceiveReady, Publish, LeaveSession, Refuse, Supervisor
<1>5. CASE Finish(s) \/ SupervisorKilled(s)
    BY <1>5 DEF Finish, SupervisorKilled, Exit
<1>6. CASE Sudo(s) \/ EndWorkload(s) \/ HelperStep(s) \/ HelperKilled(s) \/ TerminateLauncher(s)
    BY <1>6, HelperStepFrame
<1>7. QED
    BY <1>1, <1>2, <1>3, <1>4, <1>5, <1>6 DEF StepOf, SupervisorStep

(* Only accepting changes whom a helper serves, and its check comes after.  *)
LEMMA OwnSupervisorAcceptedStep ==
    ASSUME HelperDomains, OwnSupervisorAccepted, NEW s \in Sessions, StepOf(s)
    PROVE  HelperDomains' /\ OwnSupervisorAccepted'
<1> USE DEF HelperDomains, OwnSupervisorAccepted, Helper, HelperLeaves, HelperEnds,
            Uninvolved, Apart, sockets
<1>1. CASE Run(s) \/ TakeLock(s) \/ Connect(s) \/ ConnectFails(s) \/ GiveUpSearch(s)
    BY <1>1 DEF Run, TakeLock, Connect, ConnectFails, GiveUpSearch
<1>2. CASE InspectName(s) \/ Authenticate(s) \/ ReceiveReady(s) \/ NoReady(s) \/ Publish(s)
    BY <1>2 DEF InspectName, Authenticate, ReceiveReady, NoReady, Publish
<1>3. CASE LeaveSession(s) \/ Finish(s) \/ SupervisorKilled(s)
    BY <1>3 DEF LeaveSession, Finish, SupervisorKilled
<1>4. CASE Spawn(s) \/ TerminateLauncher(s)
    BY <1>4 DEF Spawn, TerminateLauncher
<1>5. CASE Sudo(s) \/ EndWorkload(s) \/ HelperKilled(s)
    BY <1>5 DEF Sudo, EndWorkload, HelperKilled
<1>6. CASE MonitorSupervisor(s) \/ ProbeLock(s) \/ ReleaseLock(s) \/ LookForStale(s)
    BY <1>6 DEF MonitorSupervisor, ProbeLock, ReleaseLock, LookForStale
<1>7. CASE RemoveStale(s) \/ Bind(s) \/ GiveToUser(s) \/ Listen(s)
    BY <1>7 DEF RemoveStale, Bind, GiveToUser, Listen
<1>8. CASE AcceptSupervisor(s)
    BY <1>8 DEF AcceptSupervisor
<1>9. CASE SendReady(s) \/ ReceiveContext(s) \/ PrepareEnvironment(s)
    BY <1>9 DEF SendReady, ReceiveContext, PrepareEnvironment
<1>10. CASE LoseSupervisor(s) \/ CleanUp(s)
    BY <1>10 DEF LoseSupervisor, CleanUp
<1>11. CASE CheckPeer(s) \/ RemoveListener(s)
    BY <1>11 DEF CheckPeer, RemoveListener
<1>12. QED
    BY <1>1, <1>2, <1>3, <1>4, <1>5, <1>6, <1>7, <1>8, <1>9, <1>10, <1>11
    DEF StepOf, SupervisorStep, HelperStep

-----------------------------------------------------------------------------
(* The steps, conjunct by conjunct. *)
LEMMA StInvStep == StInv /\ [StNext]_stVars => StInv'
<1> SUFFICES ASSUME StInv, [StNext]_stVars PROVE StInv'
    OBVIOUS
<1>1. ASSUME NEW s \in Sessions, StepOf(s) PROVE StInv'
    BY <1>1, LockStep, ControlSocketStep, OwnHelperFoundStep, OwnSupervisorAcceptedStep DEF StInv
<1>2. CASE UNCHANGED stVars
    BY <1>2 DEF stVars, sockets, StInv, SupervisorTypeOK, HelperDomains, LockIsHeld,
       OwnHelperFound, OwnSupervisorAccepted, ControlSocketIsOurs
<1>3. QED
    BY <1>1, <1>2 DEF StNext, StepOf

(* The invariant of the specification. *)
LEMMA StInvariant == StSpec => []StInv
BY StInvInit, StInvStep, PTL DEF StSpec

(* Whoever was killed when, and whatever is left listening: a Supervisor    *)
(* that goes on has its own helper, and a helper that serves has its own    *)
(* Supervisor (wait_for_helper_connection, run_helper).                     *)
THEOREM StartsWithOwnHelper == StSpec => []OwnHelperOnly
<1>1. StInv => OwnHelperOnly
    BY DEF StInv, OwnHelperFound, OwnSupervisorAccepted, OwnHelperOnly
<1>2. QED
    BY <1>1, StInvariant, PTL

(* session.lock is held by one Supervisor, from run_session()'s flock() to  *)
(* the end of its process.                                                  *)
THEOREM SessionLockIsExclusive == StSpec => []LockIsHeld
<1>1. StInv => LockIsHeld
    BY DEF StInv
<1>2. QED
    BY <1>1, StInvariant, PTL

(* The name control.sock of an active Session is never taken from it        *)
(* (SocketPathOwner under session.lock).                                    *)
THEOREM ControlSocketIsKept == StSpec => []ControlSocketIsOurs
<1>1. StInv => ControlSocketIsOurs
    BY DEF StInv
<1>2. QED
    BY <1>1, StInvariant, PTL

-----------------------------------------------------------------------------
(* LeftoversDoNoHarm.  A start that is alone and that nothing kills holds    *)
(* session.lock, so nobody else launches a helper or connects until it is    *)
(* decided; its helper then takes every step in time.                        *)

(* A Supervisor that has not launched its helper has none, is not counted    *)
(* among those that were alone, and has not been refused.                    *)
NotLaunchedYet ==
    /\ alone \subseteq Sessions
    /\ \A s \in Sessions :
          supervisor[s] \in {"not_run", "lock", "spawn"} => helper[s] = "none" /\ s \notin alone

RefusedAtTheEnd ==
    /\ DOMAIN why = Sessions
    /\ \A s \in Sessions : supervisor[s] \notin {"reaping", "gone"} => why[s] = "none"

(* What the kernel holds for a process goes with it.                         *)
ListenersOnly ==
    /\ DOMAIN backlog = Sessions /\ socketName \in Sessions \cup {NoOne}
    /\ \A h \in Sessions : ~Listening(h) => backlog[h] = <<>>

HostLockIsInUse ==
    /\ hostLock \in Sessions \cup {NoOne}
    /\ \A h \in Sessions : hostLock = h => helper[h] \in {"work", "clean_up"}

(* A start that nothing disturbs, until it is decided.                       *)
Undisturbed(s) ==
    /\ s \in alone \ harmed
    /\ supervisor[s] \in {"connect", "inspect", "authenticate", "await_ready", "await_active"}

OnlyItsHelper(s) == \A t \in Sessions \ {s} : ~HelperRuns(t)

NameIsSettled(s) ==
    /\ helper[s] \in {"remove_stale", "chown"} => socketName # NoOne
    /\ helper[s] = "bind" => socketName = NoOne

OnlyItsSupervisor(s) ==
    /\ backlog[s] \in Seq({s})
    /\ helper[s] = "check" => peer[s] = s

(* Where its helper can be at each of its own stages: never at its end.      *)
BeforeAccept ==
    {"prompt", "monitor", "probe", "look", "remove_stale", "bind", "chown", "listen", "accept"}

InStep(s) ==
    /\ supervisor[s] = "connect" => helper[s] \in BeforeAccept /\ backlog[s] = <<>>
    /\ supervisor[s] \in {"inspect", "authenticate", "await_ready"} =>
           link[s] = s /\ helper[s] \in {"accept", "check", "serve", "ready", "context"}
    /\ supervisor[s] = "await_active" =>
           \/ helper[s] \in {"context", "prepare"}
           \/ helper[s] \in {"work", "clean_up", "gone"} /\ s \in activated

StartInv == NotLaunchedYet /\ RefusedAtTheEnd /\ ListenersOnly /\ HostLockIsInUse
InTime(s) == OnlyItsHelper(s) /\ NameIsSettled(s) /\ OnlyItsSupervisor(s) /\ InStep(s)
AloneInv == \A s \in Sessions : Undisturbed(s) => InTime(s)
HarmInv == StartInv /\ AloneInv /\ LeftoversDoNoHarm

(* What holds of every start: each step keeps it. *)
LEMMA StartInvStep ==
    ASSUME StInv, StartInv, NEW s \in Sessions, StepOf(s)
    PROVE  StartInv'
<1> USE DEF StartInv, NotLaunchedYet, RefusedAtTheEnd, ListenersOnly, HostLockIsInUse,
            StInv, SupervisorTypeOK, HelperDomains, Listening, HelperRuns,
            Helper, HelperLeaves, HelperEnds, Uninvolved, Apart, sockets, history,
            Supervisor, Refuse, Exit
<1>0. NoOne \notin Sessions
    BY StartAssumption DEF Sessions
<1>1. CASE Run(s) \/ TakeLock(s)
    BY <1>1 DEF Run, TakeLock
<1>2. CASE Spawn(s)
    BY <1>2 DEF Spawn
<1>3. CASE Connect(s)
    <2>1. /\ socketName \in Sessions => Listening(socketName)
          /\ backlog' = [backlog EXCEPT ![socketName] = Append(@, s)]
          /\ UNCHANGED <<helper, socketName, hostLock, why, alone>>
        BY <1>3 DEF Connect, Reachable
    <2>2. ListenersOnly'
        BY <2>1
    <2>3. QED
        BY <1>3, <2>1, <2>2 DEF Connect
<1>4. CASE ConnectFails(s) \/ GiveUpSearch(s) \/ InspectName(s) \/ Authenticate(s)
    BY <1>4 DEF ConnectFails, GiveUpSearch, InspectName, Authenticate
<1>5. CASE ReceiveReady(s) \/ NoReady(s) \/ Publish(s) \/ LeaveSession(s)
    BY <1>5 DEF ReceiveReady, NoReady, Publish, LeaveSession
<1>6. CASE TerminateLauncher(s) \/ HelperKilled(s) \/ Sudo(s)
    BY <1>0, <1>6 DEF TerminateLauncher, HelperKilled, Sudo
<1>7. CASE Finish(s) \/ SupervisorKilled(s)
    BY <1>7 DEF Finish, SupervisorKilled
<1>8. CASE MonitorSupervisor(s) \/ ProbeLock(s) \/ ReleaseLock(s) \/ LookForStale(s)
    BY <1>0, <1>8 DEF MonitorSupervisor, ProbeLock, ReleaseLock, LookForStale
<1>9. CASE RemoveStale(s) \/ Bind(s) \/ GiveToUser(s) \/ Listen(s)
    BY <1>0, <1>9 DEF RemoveStale, Bind, GiveToUser, Listen
<1>10. CASE AcceptSupervisor(s) \/ CheckPeer(s) \/ RemoveListener(s)
    BY <1>0, <1>10 DEF AcceptSupervisor, CheckPeer, RemoveListener
<1>11. CASE SendReady(s) \/ ReceiveContext(s) \/ PrepareEnvironment(s)
    BY <1>0, <1>11 DEF SendReady, ReceiveContext, PrepareEnvironment
<1>12. CASE LoseSupervisor(s) \/ EndWorkload(s) \/ CleanUp(s)
    BY <1>0, <1>12 DEF LoseSupervisor, EndWorkload, CleanUp
<1>13. QED
    BY <1>1, <1>2, <1>3, <1>4, <1>5, <1>6, <1>7, <1>8, <1>9, <1>10, <1>11, <1>12
    DEF StepOf, SupervisorStep, HelperStep

(* What the history remembers: a start is counted when it launches.         *)
LEMMA HistoryStep ==
    ASSUME NEW s \in Sessions, StepOf(s)
    PROVE  /\ harmed \subseteq harmed'
           /\ alone' = alone \/ (Spawn(s) /\ alone' \subseteq alone \cup {s})
BY DEF StepOf, Run, Sudo, EndWorkload, SupervisorStep, HelperStep, SupervisorKilled,
   HelperKilled, TakeLock, Spawn, Connect, ConnectFails, GiveUpSearch, InspectName,
   Authenticate, ReceiveReady, NoReady, Publish, LeaveSession, TerminateLauncher, Finish,
   MonitorSupervisor, ProbeLock, ReleaseLock, LookForStale, RemoveStale, Bind, GiveToUser,
   Listen, AcceptSupervisor, CheckPeer, RemoveListener, SendReady, ReceiveContext,
   PrepareEnvironment, LoseSupervisor, CleanUp, Uninvolved, Apart, history

(* While a start is undisturbed the others can only come and be turned away. *)
LEMMA OthersStandBy ==
    ASSUME StInv, HarmInv, NEW s \in Sessions, Undisturbed(s),
           NEW t \in Sessions \ {s}, StepOf(t)
    PROVE  /\ UNCHANGED <<helper, socketName, backlog, peer, link, activated, alone>>
           /\ supervisor'[s] = supervisor[s] /\ why'[s] = why[s]
<1>1. lock = Holder("supervisor", s)
    BY DEF Undisturbed, StInv, LockIsHeld, Locked
<1>2. supervisor[t] \notin Locked
    BY <1>1, HolderFacts DEF StInv, LockIsHeld
<1>3. ~HelperRuns(t)
    BY DEF HarmInv, AloneInv, InTime, OnlyItsHelper
<1>4. ~SupervisorStep(t) \/ TakeLock(t)
    BY <1>2 DEF SupervisorStep, Spawn, Connect, ConnectFails, GiveUpSearch, InspectName,
       Authenticate, ReceiveReady, NoReady, Publish, LeaveSession, TerminateLauncher, Finish,
       Supervisor, Refuse, Locked
<1>5. ~HelperStep(t)
    BY <1>3 DEF HelperStep, MonitorSupervisor, ProbeLock, ReleaseLock, LookForStale,
       RemoveStale, Bind, GiveToUser, Listen, AcceptSupervisor, CheckPeer, RemoveListener,
       SendReady, ReceiveContext, PrepareEnvironment, LoseSupervisor, CleanUp,
       Helper, HelperLeaves, HelperRuns
<1>6. ~Sudo(t) /\ ~EndWorkload(t) /\ ~HelperKilled(t)
    BY <1>3 DEF Sudo, EndWorkload, HelperKilled, Helper, HelperLeaves, HelperRuns
<1>7. Run(t) \/ TakeLock(t) \/ SupervisorKilled(t)
    BY <1>4, <1>5, <1>6 DEF StepOf
<1>8. QED
    BY <1>7 DEF Run, TakeLock, SupervisorKilled, Supervisor, Exit, sockets, history,
       StInv, SupervisorTypeOK, HarmInv, StartInv, RefusedAtTheEnd

(* The launch: whoever is counted as alone has met no other helper.         *)
LEMMA LaunchedAlone ==
    ASSUME StInv, StartInv, NEW s \in Sessions, Spawn(s), Undisturbed(s)'
    PROVE  InTime(s)'
<1> USE DEF StInv, SupervisorTypeOK, HelperDomains, StartInv
<1>1. \A h \in Sessions : ~HelperRuns(h)
    BY DEF Spawn, Supervisor, NotLaunchedYet, Undisturbed
<1>2. /\ helper' = [helper EXCEPT ![s] = "prompt"]
      /\ supervisor'[s] = "connect"
      /\ UNCHANGED <<backlog, socketName, peer, link, activated>>
    BY DEF Spawn, Supervisor, sockets
<1>3. backlog[s] = <<>>
    BY <1>1 DEF ListenersOnly, Listening, HelperRuns
<1>4. QED
    BY <1>1, <1>2, <1>3 DEF InTime, OnlyItsHelper, NameIsSettled, OnlyItsSupervisor, InStep,
       BeforeAccept, HelperRuns

(* The Supervisor's own steps.                                              *)
LEMMA SupervisorInTime ==
    ASSUME StInv, HarmInv, NEW s \in Sessions, Undisturbed(s), Undisturbed(s)', OwnStep(s)
    PROVE  InTime(s)'
<1> USE DEF StInv, SupervisorTypeOK, HelperDomains, HarmInv, StartInv, Supervisor, sockets
<1>0. InTime(s)
    BY DEF AloneInv
<1>1. CASE Connect(s)
    <2>1. socketName \in Sessions /\ Listening(socketName)
        BY <1>1 DEF Connect, Reachable, ListenersOnly
    <2>2. socketName = s /\ Listening(s)
        BY <1>0, <2>1 DEF Listening, InTime, OnlyItsHelper, HelperRuns
    <2>3. helper[s] = "accept" /\ backlog[s] = <<>>
        BY <1>0, <1>1, <2>2 DEF Connect, InTime, InStep, BeforeAccept, Listening
    <2>4. /\ backlog'[s] = Append(backlog[s], s)
          /\ supervisor'[s] = "inspect" /\ link'[s] = s
          /\ UNCHANGED <<helper, socketName, peer, activated>>
        BY <1>1, <2>2 DEF Connect, ListenersOnly
    <2>5. backlog'[s] \in Seq({s})
        BY <1>0, <2>4 DEF InTime, OnlyItsSupervisor
    <2>6. QED
        BY <1>0, <2>3, <2>4, <2>5 DEF InTime, OnlyItsHelper, NameIsSettled, OnlyItsSupervisor,
           InStep, HelperRuns
<1>2. CASE InspectName(s) \/ Authenticate(s) \/ ReceiveReady(s)
    BY <1>0, <1>2 DEF InspectName, Authenticate, ReceiveReady, Refuse, Undisturbed, InTime,
       OnlyItsHelper, NameIsSettled, OnlyItsSupervisor, InStep, HelperRuns
<1>3. Connect(s) \/ InspectName(s) \/ Authenticate(s) \/ ReceiveReady(s)
    BY DEF OwnStep, Undisturbed, Run, TakeLock, Spawn, ConnectFails, GiveUpSearch, NoReady,
       Publish, LeaveSession, Finish, SupervisorKilled, Refuse, Exit
<1>4. QED
    BY <1>1, <1>2, <1>3

(* The helper's steps: it meets no name and no lock of another, and only     *)
(* its own Supervisor connects.                                             *)
LEMMA HelperInTime ==
    ASSUME StInv, HarmInv, NEW s \in Sessions, Undisturbed(s), Undisturbed(s)',
           Sudo(s) \/ EndWorkload(s) \/ HelperStep(s) \/ HelperKilled(s) \/ TerminateLauncher(s)
    PROVE  InTime(s)'
<1> USE DEF StInv, HelperDomains, HarmInv, StartInv, ListenersOnly, Helper, HelperLeaves,
            HelperEnds, Uninvolved, Apart, sockets
<1>0. InTime(s) /\ lock = Holder("supervisor", s) /\ s # NoOne
    BY StartAssumption DEF AloneInv, Undisturbed, LockIsHeld, Locked, Sessions
<1>1. ~HungUp(s) /\ Alive(s) /\ <<>> \in Seq({s})
    BY DEF Undisturbed, HungUp, Alive
<1>2. \A t \in Sessions \ {s} : helper'[t] = helper[t]
    BY DEF Sudo, EndWorkload, HelperKilled, TerminateLauncher, HelperStep, MonitorSupervisor,
       ProbeLock, ReleaseLock, LookForStale, RemoveStale, Bind, GiveToUser, Listen,
       AcceptSupervisor, CheckPeer, RemoveListener, SendReady, ReceiveContext,
       PrepareEnvironment, LoseSupervisor, CleanUp
<1>3. OnlyItsHelper(s)'
    BY <1>0, <1>2 DEF InTime, OnlyItsHelper, HelperRuns
<1> USE DEF InTime, NameIsSettled, OnlyItsSupervisor, InStep, BeforeAccept
<1>4. ~HelperKilled(s) /\ ~TerminateLauncher(s)
    BY DEF HelperKilled, TerminateLauncher, Undisturbed
<1>5. CASE Sudo(s)
    BY <1>0, <1>3, <1>5 DEF Sudo, Undisturbed
<1>6. CASE MonitorSupervisor(s)
    BY <1>0, <1>1, <1>3, <1>6 DEF MonitorSupervisor
<1>7. CASE ProbeLock(s)
    <2>1. lock # NoOne
        BY <1>0, HolderFacts
    <2>2. QED
        BY <1>0, <1>3, <1>7, <2>1 DEF ProbeLock
<1>8. CASE ReleaseLock(s)
    BY <1>0, <1>8 DEF ReleaseLock, Undisturbed
<1>9. CASE LookForStale(s)
    BY <1>0, <1>3, <1>9 DEF LookForStale
<1>10. CASE RemoveStale(s)
    BY <1>0, <1>3, <1>10 DEF RemoveStale
<1>11. CASE Bind(s)
    BY <1>0, <1>3, <1>11 DEF Bind
<1>12. CASE GiveToUser(s)
    BY <1>0, <1>3, <1>12 DEF GiveToUser
<1>13. CASE Listen(s)
    BY <1>0, <1>3, <1>13 DEF Listen
<1>14. CASE AcceptSupervisor(s)
    <2>1. ~SupervisorDeathSeen(s)
        BY <1>1 DEF SupervisorDeathSeen
    <2>2. /\ backlog[s] # <<>> /\ helper[s] = "accept" /\ helper'[s] = "check"
          /\ peer'[s] = Head(backlog[s]) /\ backlog'[s] = Tail(backlog[s])
          /\ UNCHANGED <<supervisor, link, activated, socketName>>
        BY <1>14, <2>1 DEF AcceptSupervisor
    <2>3. peer'[s] = s /\ backlog'[s] \in Seq({s})
        <3>1. \A q \in Seq({s}) : q # <<>> => Head(q) = s /\ Tail(q) \in Seq({s})
            OBVIOUS
        <3>2. QED
            BY <1>0, <2>2, <3>1
    <2>4. QED
        BY <1>0, <1>3, <2>2, <2>3 DEF Undisturbed
<1>15. CASE CheckPeer(s)
    BY <1>0, <1>1, <1>3, <1>15 DEF CheckPeer
<1>16. CASE RemoveListener(s)
    BY <1>0, <1>1, <1>3, <1>16 DEF RemoveListener, Undisturbed
<1>17. CASE SendReady(s) \/ ReceiveContext(s)
    BY <1>0, <1>1, <1>3, <1>17 DEF SendReady, ReceiveContext, Undisturbed
<1>18. CASE PrepareEnvironment(s)
    <2>1. hostLock = NoOne
        BY <1>0, <1>18 DEF PrepareEnvironment, HostLockIsInUse, OnlyItsHelper, HelperRuns
    <2>2. QED
        BY <1>0, <1>3, <1>18, <2>1 DEF PrepareEnvironment, Undisturbed
<1>19. CASE LoseSupervisor(s) \/ EndWorkload(s) \/ CleanUp(s)
    BY <1>0, <1>1, <1>3, <1>19 DEF LoseSupervisor, EndWorkload, CleanUp, Undisturbed
<1>20. QED
    BY <1>4, <1>5, <1>6, <1>7, <1>8, <1>9, <1>10, <1>11, <1>12, <1>13, <1>14, <1>15, <1>16,
       <1>17, <1>18, <1>19 DEF HelperStep

(* Why a start is refused: the steps that say so, for one that is counted.  *)
LEMMA RefusalStep ==
    ASSUME StInv, HarmInv, NEW s \in Sessions, StepOf(s), s \in alone' \ harmed'
    PROVE  why'[s] \in {"none", "not_permitted", "bad_path"}
<1> USE DEF StInv, SupervisorTypeOK, HarmInv, StartInv, RefusedAtTheEnd, Supervisor, Refuse
<1>0. /\ s \notin harmed
      /\ s \in alone => why[s] \in {"none", "not_permitted", "bad_path"}
    BY HistoryStep DEF LeftoversDoNoHarm
<1>1. CASE UNCHANGED <<why, alone>>
    BY <1>0, <1>1
<1>2. CASE Spawn(s)
    BY <1>2 DEF Spawn
<1>3. CASE TakeLock(s)
    <2>1. s \notin alone'
        BY <1>3 DEF TakeLock, NotLaunchedYet, history
    <2>2. QED
        BY <2>1
<1>4. CASE ConnectFails(s)
    <2>1. socketName \notin handed
        BY <1>4 DEF ConnectFails, Reachable, Retryable
    <2>2. QED
        BY <1>4, <2>1 DEF ConnectFails
<1>5. CASE InspectName(s)
    BY <1>5 DEF InspectName
<1>6. CASE GiveUpSearch(s) \/ Authenticate(s) \/ NoReady(s) \/ LeaveSession(s)
    <2>1. CASE supervisor[s] = "active"
        BY <1>0, <1>6, <2>1 DEF GiveUpSearch, Authenticate, NoReady, LeaveSession, history
    <2>2. CASE supervisor[s] # "active"
        <3>1. Undisturbed(s)
            BY <1>0, <1>6, <2>2 DEF GiveUpSearch, Authenticate, NoReady, LeaveSession, history,
               Undisturbed
        <3>2. InStep(s)
            BY <3>1 DEF AloneInv, InTime
        <3>3. UNCHANGED why
            BY <1>6, <2>2, <3>2 DEF GiveUpSearch, LauncherEnded, Authenticate, OwnPeer, NoReady,
               LeaveSession, InStep, BeforeAccept
        <3>4. s \in alone
            BY <3>1 DEF Undisturbed
        <3>5. QED
            BY <1>0, <3>3, <3>4
    <2>3. QED
        BY <2>1, <2>2
<1>7. QED
    BY <1>1, <1>2, <1>3, <1>4, <1>5, <1>6 DEF StepOf, Run, Sudo, EndWorkload, SupervisorStep,
       HelperStep, SupervisorKilled, HelperKilled, Connect, ReceiveReady, Publish,
       TerminateLauncher, Finish, MonitorSupervisor, ProbeLock, ReleaseLock, LookForStale,
       RemoveStale, Bind, GiveToUser, Listen, AcceptSupervisor, CheckPeer, RemoveListener,
       SendReady, ReceiveContext, PrepareEnvironment, LoseSupervisor, CleanUp, Uninvolved,
       Apart, history

(* The steps of one start, seen from every start that is alone.             *)
LEMMA HarmInvStep ==
    ASSUME StInv, HarmInv, NEW s \in Sessions, StepOf(s)
    PROVE  HarmInv'
<1>1. StartInv'
    BY StartInvStep DEF HarmInv
<1>2. ASSUME NEW u \in Sessions, u # s, u \in alone' \ harmed'
      PROVE  u \in alone \ harmed
    BY <1>2, HistoryStep
<1>3. ASSUME NEW u \in Sessions, u # s
      PROVE  supervisor'[u] = supervisor[u] /\ why'[u] = why[u]
    <2>1. supervisor'[u] = supervisor[u]
        BY <1>3, OwnStepMoves, HelperStepFrame DEF StInv, StepOf, SupervisorStep, OwnStep
    <2>2. why'[u] = why[u]
        BY <1>3 DEF HarmInv, StartInv, RefusedAtTheEnd, Refuse,
           StepOf, Run, Sudo, EndWorkload, SupervisorStep, HelperStep, SupervisorKilled,
           HelperKilled, TakeLock, Spawn, Connect, ConnectFails, GiveUpSearch, InspectName,
           Authenticate, ReceiveReady, NoReady, Publish, LeaveSession, TerminateLauncher, Finish,
           MonitorSupervisor, ProbeLock, ReleaseLock, LookForStale, RemoveStale, Bind,
           GiveToUser, Listen, AcceptSupervisor, CheckPeer, RemoveListener, SendReady,
           ReceiveContext, PrepareEnvironment, LoseSupervisor, CleanUp, Uninvolved, Apart
    <2>3. QED
        BY <2>1, <2>2
<1>4. ASSUME NEW u \in Sessions, u # s, Undisturbed(u)'
      PROVE  InTime(u)'
    <2>1. Undisturbed(u)
        BY <1>2, <1>3, <1>4 DEF Undisturbed
    <2>2. InTime(u)
        BY <2>1 DEF HarmInv, AloneInv
    <2>3. /\ UNCHANGED <<helper, socketName, backlog, peer, link, activated, alone>>
          /\ supervisor'[u] = supervisor[u]
        BY <1>4, <2>1, OthersStandBy
    <2>4. QED
        BY <2>2, <2>3 DEF InTime, OnlyItsHelper, NameIsSettled, OnlyItsSupervisor, InStep,
           HelperRuns
<1>5. ASSUME Undisturbed(s)'
      PROVE  InTime(s)'
    <2>1. CASE Spawn(s)
        BY <1>5, <2>1, LaunchedAlone DEF HarmInv
    <2>2. CASE OwnStep(s) /\ ~Spawn(s)
        <3>1. s \in alone \ harmed
            BY <1>5, <2>2, HistoryStep DEF Undisturbed
        <3>2. supervisor[s] \notin {"not_run", "lock", "gone", "reaping", "active"}
            BY <1>5, <2>2, <3>1 DEF HarmInv, StartInv, NotLaunchedYet, StInv, SupervisorTypeOK,
               OwnStep, Run, TakeLock, Connect, ConnectFails, GiveUpSearch, InspectName,
               Authenticate, ReceiveReady, NoReady, Publish, LeaveSession, Finish,
               SupervisorKilled, Supervisor, Refuse, Exit, Undisturbed, Alive
        <3>3. Undisturbed(s)
            BY <3>1, <3>2 DEF Undisturbed, HarmInv, StartInv, NotLaunchedYet, StInv,
               SupervisorTypeOK, Locked
        <3>4. QED
            BY <1>5, <2>2, <3>3, SupervisorInTime
    <2>3. CASE Sudo(s) \/ EndWorkload(s) \/ HelperStep(s) \/ HelperKilled(s)
               \/ TerminateLauncher(s)
        <3>1. UNCHANGED supervisor
            BY <2>3, HelperStepFrame
        <3>2. s \in alone
            BY <1>5, <3>1, HistoryStep DEF Undisturbed, Spawn, Supervisor, StInv,
               SupervisorTypeOK
        <3>3. Undisturbed(s)
            BY <1>5, <3>1, <3>2, HistoryStep DEF Undisturbed
        <3>4. QED
            BY <1>5, <2>3, <3>3, HelperInTime
    <2>4. QED
        BY <2>1, <2>2, <2>3 DEF StepOf, SupervisorStep, OwnStep
<1>6. AloneInv'
    BY <1>4, <1>5 DEF AloneInv
<1>7. LeftoversDoNoHarm'
    <2>1. ASSUME NEW u \in alone' \ harmed'
          PROVE  why'[u] \in {"none", "not_permitted", "bad_path"}
        <3>0. u \in Sessions
            BY <1>1, <2>1 DEF StartInv, NotLaunchedYet
        <3>1. CASE u = s
            BY <2>1, <3>1, RefusalStep
        <3>2. CASE u # s
            BY <1>2, <1>3, <2>1, <3>0, <3>2 DEF HarmInv, LeftoversDoNoHarm
        <3>3. QED
            BY <3>1, <3>2
    <2>2. QED
        BY <2>1 DEF LeftoversDoNoHarm
<1>8. QED
    BY <1>1, <1>6, <1>7 DEF HarmInv

(* What earlier Sessions left, wherever their processes were killed, does    *)
(* not stop a start that has met none of their helpers (run_session,         *)
(* run_helper).                                                             *)
THEOREM LeftoversAreHarmless == StSpec => []LeftoversDoNoHarm
<1>1. StInit => HarmInv
    BY StartAssumption DEF Sessions, StInit, HarmInv, StartInv, AloneInv, NotLaunchedYet,
       RefusedAtTheEnd, ListenersOnly, HostLockIsInUse, Undisturbed, LeftoversDoNoHarm
<1>2. StInv /\ HarmInv /\ [StNext]_stVars => HarmInv'
    <2> SUFFICES ASSUME StInv, HarmInv, [StNext]_stVars PROVE HarmInv'
        OBVIOUS
    <2>1. CASE UNCHANGED stVars
        BY <2>1 DEF stVars, sockets, history, HarmInv, StartInv, AloneInv, NotLaunchedYet,
           RefusedAtTheEnd, ListenersOnly, Listening, HostLockIsInUse, Undisturbed,
           LeftoversDoNoHarm, InTime, OnlyItsHelper, HelperRuns, NameIsSettled,
           OnlyItsSupervisor, InStep
    <2>2. ASSUME NEW s \in Sessions, StepOf(s) PROVE HarmInv'
        BY <2>2, HarmInvStep
    <2>3. QED
        BY <2>1, <2>2 DEF StNext, StepOf
<1>3. HarmInv => LeftoversDoNoHarm
    BY DEF HarmInv
<1>4. QED
    BY <1>1, <1>2, <1>3, StInvariant, PTL DEF StSpec

-----------------------------------------------------------------------------
(* Part 2: CommandRunner, for every limit on reads, on the output of        *)
(* processes left behind, and on failing system calls: no child outlives    *)
(* its call, and the runner implements ExternalCommand.                     *)

Looping == {"drain", "wait", "clock", "poll"}
Failures == {"system_failure", "exec_failure"}

(* What the parent knows of its child where it is, and how its result stands *)
(* there: nothing while it loops, the reason of the kill after that.         *)
ParentKnowsChild ==
    /\ runner \in Looping \cup {"idle", "kill", "reap", "drain_all"}
    /\ runner = "idle" => child \in {"none", "reaped"}
    /\ runner \in Looping => child \in {"setup", "failing", "running", "zombie"} /\ result = "none"
    /\ runner = "kill" => /\ child \in {"setup", "failing", "running", "zombie"}
                          /\ result \in {"timeout", "system_failure"}
    /\ runner = "reap" => /\ child \in {"killed", "zombie"}
                          /\ result \in {"timeout", "system_failure"}
    /\ runner = "drain_all" => child = "reaped" /\ result \in {"none", "timeout"}

(* What a child has done by each state of its life. *)
ChildHistory ==
    /\ ended \in {"none", "ok", "error", "signal", "setup"}
    /\ note \in {"none"} \cup Failures
    /\ ran \in BOOLEAN
    /\ child \in {"none", "setup"} => ~ran /\ note = "none"
    /\ child = "failing" => ~ran /\ note # "none"
    /\ child = "running" => ran
    /\ child \in {"setup", "failing", "running"} => ended = "none"
    /\ child \in {"zombie", "reaped"} => ended # "none"
    /\ ran => note = "none"
    /\ ran => ended # "setup"
    /\ ended \in {"ok", "error"} => ran

(* A child that ended before it executed anything, and was not killed, has  *)
(* left a message: there is no status to be believed.                       *)
StatusIsItsOwn ==
    (runner \in Looping /\ child = "zombie") \/ (runner = "drain_all" /\ result = "none")
        => ran \/ note # "none"

RunnerInv == ParentKnowsChild /\ ChildHistory /\ StatusIsItsOwn

-----------------------------------------------------------------------------
(* Before the first command there is no child. *)
LEMMA RunnerInvInit == RunnerInit => RunnerInv
BY DEF RunnerInit, RunnerInv, ParentKnowsChild, ChildHistory, StatusIsItsOwn, Looping, Failures

(* Each step of the parent, of the child, and of the clock keeps what is    *)
(* known of the child.                                                      *)
LEMMA RunnerInvStep == RunnerInv /\ [RunnerNext]_runnerVars => RunnerInv'
<1> SUFFICES ASSUME RunnerInv, [RunnerNext]_runnerVars PROVE RunnerInv'
    OBVIOUS
<1> USE DEF RunnerInv, ParentKnowsChild, ChildHistory, StatusIsItsOwn, Looping, Failures
<1>1. CASE StartCommand
    BY <1>1 DEF StartCommand, Return
<1>2. CASE ReadOutput \/ StopReading
    BY <1>2 DEF ReadOutput, StopReading
<1>3. CASE Wait
    BY <1>3 DEF Wait
<1>4. CASE LookAtClock \/ Poll
    BY <1>4 DEF LookAtClock, Poll
<1>5. CASE Kill
    BY <1>5 DEF Kill
<1>6. CASE Reap
    BY <1>6 DEF Reap, Return
<1>7. CASE DrainAll
    BY <1>7 DEF DrainAll, Return
<1>8. CASE DrainAllFails
    BY <1>8 DEF DrainAllFails, Return
<1>9. CASE CallFails
    BY <1>9 DEF CallFails
<1>10. CASE ChildExecs
    BY <1>10 DEF ChildExecs, ChildVarsOnly
<1>11. CASE ChildCannotExec
    BY <1>11 DEF ChildCannotExec, ChildVarsOnly
<1>12. CASE ChildEnds
    BY <1>12 DEF ChildEnds, ChildVarsOnly
<1>13. CASE ProgramWrites \/ ProgramForks \/ DescendantWrites \/ DescendantEnds
    BY <1>13 DEF ProgramWrites, ProgramForks, DescendantWrites, DescendantEnds, ChildVarsOnly
<1>14. CASE Tick \/ NewDeadline
    BY <1>14 DEF Tick, NewDeadline
<1>15. CASE UNCHANGED runnerVars
    BY <1>15 DEF runnerVars
<1>16. QED
    BY <1>1, <1>2, <1>3, <1>4, <1>5, <1>6, <1>7, <1>8, <1>9, <1>10, <1>11, <1>12, <1>13, <1>14,
       <1>15
    DEF RunnerNext, RunnerStep, ChildStep

(* The invariant of the specification. *)
LEMMA RunnerInvariant == RunnerSpec => []RunnerInv
BY RunnerInvInit, RunnerInvStep, PTL DEF RunnerSpec

(* Whatever fails and however late it is, run_command() goes back to its    *)
(* caller only with a child that has been waited for.                       *)
THEOREM ChildIsReaped == RunnerSpec => []NoChildOutlivesCommand
<1>1. RunnerInv => NoChildOutlivesCommand
    BY DEF RunnerInv, ParentKnowsChild, NoChildOutlivesCommand
<1>2. QED
    BY <1>1, RunnerInvariant, PTL

-----------------------------------------------------------------------------
(* The refinement.  A call is under way while the parent is not idle, and   *)
(* the program is what has become of a child that executed it.              *)

(* What the refinement mapping takes for the state of the program.          *)
Program == CASE ~ran -> "none"
             [] ran /\ child \in {"running", "killed"} -> "running"
             [] OTHER -> ended

(* A child that has ended is not a program that runs. *)
LEMMA EndedIsOver ==
    RunnerInv /\ child \in {"none", "zombie", "reaped"} => Program # "running"
BY DEF RunnerInv, ChildHistory, Program

Results == {"success", "nonzero_exit", "signal", "timeout", "exec_failure", "system_failure"}

(* The result that the runner composes of a reaped child is one that the    *)
(* contract lets it return.                                                 *)
LEMMA VerdictIsReturnable ==
    ASSUME RunnerInv, runner = "drain_all"
    PROVE  Verdict \in Results /\ Command!Returnable(Verdict)
<1> USE DEF Results
<1>1. child = "reaped" /\ result \in {"none", "timeout"}
    BY DEF RunnerInv, ParentKnowsChild
<1>2. Program # "running"
    BY <1>1, EndedIsOver
<1>3. CASE result = "timeout"
    BY <1>2, <1>3 DEF Verdict, Command!Returnable, Program
<1>4. CASE result = "none" /\ note # "none"
    BY <1>1, <1>2, <1>4 DEF Verdict, Command!Returnable, Program, RunnerInv, ChildHistory, Failures
<1>5. CASE result = "none" /\ note = "none"
    BY <1>1, <1>2, <1>5 DEF Verdict, Command!Returnable, Program, RunnerInv, ChildHistory,
       StatusIsItsOwn
<1>6. QED
    BY <1>1, <1>3, <1>4, <1>5

(* Every step of the runner is a step of the contract, or none. *)
LEMMA RunnerStepKeepsContract ==
    RunnerInv /\ RunnerInv' /\ [RunnerNext]_runnerVars
        => [Command!CommandNext]_(Command!commandVars)
<1> SUFFICES ASSUME RunnerInv, RunnerInv', [RunnerNext]_runnerVars
             PROVE  Command!CommandNext \/ UNCHANGED Command!commandVars
    OBVIOUS
<1> USE DEF RunnerInv, ParentKnowsChild, ChildHistory, Looping
<1>1. CASE StartCommand
    BY <1>1 DEF StartCommand, Return, Command!CommandNext, Command!BeginCall, Command!RefuseCall
<1>2. CASE ReadOutput \/ StopReading
    BY <1>2 DEF ReadOutput, StopReading, Command!commandVars
<1>3. CASE Wait
    BY <1>3 DEF Wait, Command!commandVars
<1>4. CASE LookAtClock \/ Poll
    BY <1>4 DEF LookAtClock, Poll, Command!commandVars
<1>5. CASE Kill
    BY <1>5 DEF Kill, Command!commandVars
<1>6. CASE Reap
    BY <1>6, EndedIsOver DEF Reap, Return, Program, Command!commandVars, Command!CommandNext,
       Command!ReturnResult, Command!Returnable
<1>7. CASE DrainAll
    <2>1. runner = "drain_all" /\ Verdict \in Results /\ Command!Returnable(Verdict)
        BY <1>7, VerdictIsReturnable DEF DrainAll
    <2>2. CASE output
        BY <1>7, <2>2 DEF DrainAll, Command!commandVars
    <2>3. CASE ~output
        BY <1>7, <2>1, <2>3 DEF DrainAll, Return, Results, Command!CommandNext,
           Command!ReturnResult
    <2>4. QED
        BY <2>2, <2>3
<1>8. CASE DrainAllFails
    BY <1>8, EndedIsOver DEF DrainAllFails, Return, Program, Command!CommandNext,
       Command!ReturnResult, Command!Returnable
<1>9. CASE CallFails
    BY <1>9 DEF CallFails, Command!commandVars
<1>10. CASE ChildExecs
    BY <1>10 DEF ChildExecs, ChildVarsOnly, Command!CommandNext, Command!Execute
<1>11. CASE ChildCannotExec
    BY <1>11 DEF ChildCannotExec, ChildVarsOnly, Command!commandVars
<1>12. CASE ChildEnds
    BY <1>12 DEF ChildEnds, ChildVarsOnly, Command!commandVars, Command!CommandNext,
       Command!ProgramEnds
<1>13. CASE ProgramWrites \/ ProgramForks \/ DescendantWrites \/ DescendantEnds
    BY <1>13 DEF ProgramWrites, ProgramForks, DescendantWrites, DescendantEnds, ChildVarsOnly,
       Command!commandVars
<1>14. CASE Tick \/ NewDeadline
    BY <1>14 DEF Tick, NewDeadline, Command!commandVars
<1>15. CASE UNCHANGED runnerVars
    BY <1>15 DEF runnerVars, Command!commandVars
<1>16. QED
    BY <1>1, <1>2, <1>3, <1>4, <1>5, <1>6, <1>7, <1>8, <1>9, <1>10, <1>11, <1>12, <1>13, <1>14,
       <1>15 DEF RunnerNext, RunnerStep, ChildStep

(* The runner keeps the contract that the transactions of the helper rely   *)
(* on: the program runs once or not at all, is over when the call returns,  *)
(* and the result claims nothing that did not happen.                       *)
THEOREM RunnerImplementsCommand == RunnerSpec => ImplementsCommand
<1>1. RunnerInit => Command!CommandInit
    BY DEF RunnerInit, Command!CommandInit
<1>2. QED
    BY <1>1, RunnerInvariant, RunnerStepKeepsContract, PTL
    DEF RunnerSpec, ImplementsCommand, Command!CommandSpec

=============================================================================
