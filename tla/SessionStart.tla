---------------------------- MODULE SessionStart -----------------------------
(***************************************************************************)
(* How `netlaglab run` gets its helper: run_session() takes session.lock,  *)
(* starts sudo and looks for helper.sock; run_helper() checks who launched *)
(* it, publishes helper.sock, accepts one connection, takes the name away  *)
(* again and answers READY.  Several Sessions of one user follow one       *)
(* another, and processes are killed anywhere, so that names, locks and    *)
(* whole helpers of an earlier Session are met by a later one.  What       *)
(* happens inside a Session that has started is the module Session.        *)
(***************************************************************************)
EXTENDS Naturals, Sequences

CONSTANTS
    MaxSessions,   \* bound: times the program is run
    MaxKills,      \* bound: Supervisors and helpers killed
    NoOne          \* nobody, nothing

ASSUME StartAssumption ==
    /\ MaxSessions \in Nat \ {0} /\ MaxKills \in Nat
    /\ NoOne \notin 1 .. MaxSessions
    /\ \A s \in 1 .. MaxSessions : NoOne \notin {<<"supervisor", s>>, <<"helper", s>>}

Sessions == 1 .. MaxSessions
listen_backlog == 1

VARIABLES
    supervisor,   \* where the Supervisor of each Session is
    helper,       \* where its helper is; "prompt": sudo has not run it yet
    why,          \* why a start was refused
    lock,         \* session.lock: who holds it, and as what
    hostLock,     \* host.lock: the helper that holds it
    socketName,   \* helper.sock: the helper whose socket has this name
    handed,       \* sockets that fchownat() has given to the user
    link,         \* the helper each Supervisor's connection leads to
    backlog,      \* connections each listener has not accepted
    peer,         \* the Supervisor whose connection each helper has accepted
    activated,    \* helpers that have sent ACTIVE
    controlName,  \* control.sock: the Supervisor whose socket has this name
    alone,        \* (history) Sessions that took the lock when no helper of
                  \* another was left
    harmed,       \* (history) Sessions one of whose processes was killed, or
                  \* to which sudo refused a helper
    kills

stVars == <<supervisor, helper, why, lock, hostLock, socketName, handed, link,
            backlog, peer, activated, controlName, alone, harmed, kills>>

sockets == <<socketName, handed, backlog, peer>>
history == <<alone, harmed, kills>>

StInit ==
    /\ supervisor = [s \in Sessions |-> "not_run"]
    /\ helper = [s \in Sessions |-> "none"]
    /\ why = [s \in Sessions |-> "none"]
    /\ lock = NoOne /\ hostLock = NoOne
    /\ socketName = NoOne /\ handed = {}
    /\ link = [s \in Sessions |-> NoOne]
    /\ backlog = [s \in Sessions |-> <<>>]
    /\ peer = [s \in Sessions |-> NoOne]
    /\ activated = {} /\ controlName = NoOne
    /\ alone = {} /\ harmed = {} /\ kills = 0

Holder(role, s) == <<role, s>>
Alive(s) == supervisor[s] \notin {"not_run", "gone"}
HelperRuns(s) == helper[s] \notin {"none", "gone"}
Listening(h) == helper[h] \in {"accept", "check", "serve", "leave"}

\* The Supervisor has closed its end of the connection, or is gone.
HungUp(s) == supervisor[s] \in {"reaping", "gone"}

-----------------------------------------------------------------------------
(* The Supervisor *)

Supervisor(s, from, to) ==
    supervisor[s] = from /\ supervisor' = [supervisor EXCEPT ![s] = to]

Refuse(s, from, reason) ==
    Supervisor(s, from, "reaping") /\ why' = [why EXCEPT ![s] = reason]

\* The end of the process closes its descriptors; flock() goes with them.
Exit(s) ==
    /\ supervisor' = [supervisor EXCEPT ![s] = "gone"]
    /\ lock' = IF lock = Holder("supervisor", s) THEN NoOne ELSE lock

Run(s) ==
    /\ \A t \in Sessions : t < s => supervisor[t] # "not_run"
    /\ Supervisor(s, "not_run", "lock")
    /\ UNCHANGED <<helper, why, lock, hostLock, sockets, link, activated, controlName, history>>

\* Fault: what is left of control.sock is removed before the lock is held.
TakeLockLast(s) ==
    /\ controlName' = NoOne
    /\ IF lock = NoOne
         THEN /\ Supervisor(s, "lock", "spawn") /\ lock' = Holder("supervisor", s)
              /\ UNCHANGED why
         ELSE /\ supervisor[s] = "lock" /\ Exit(s)
              /\ why' = [why EXCEPT ![s] = "busy"]
    /\ UNCHANGED <<helper, hostLock, sockets, link, activated, history>>

(* flock() does not wait: whoever finds the lock held gives up. *)
TakeLock(s) ==
    /\ IF lock = NoOne
         THEN /\ Supervisor(s, "lock", "spawn") /\ lock' = Holder("supervisor", s)
              /\ UNCHANGED why
         ELSE /\ supervisor[s] = "lock" /\ Exit(s)
              /\ why' = [why EXCEPT ![s] = "busy"]
    /\ UNCHANGED <<helper, hostLock, sockets, link, activated, controlName, history>>

Spawn(s) ==
    /\ Supervisor(s, "spawn", "connect")
    /\ helper' = [helper EXCEPT ![s] = "prompt"]
    /\ alone' = IF \E h \in Sessions : HelperRuns(h) THEN alone ELSE alone \cup {s}
    /\ UNCHANGED <<why, lock, hostLock, sockets, link, activated, controlName, harmed, kills>>

Reachable == socketName # NoOne /\ socketName \in handed /\ Listening(socketName)

\* Fault: only a missing name is waited for.
RetryableIfAbsent == socketName = NoOne

\* ENOENT, or ECONNREFUSED from a name without a listener.
Retryable == socketName = NoOne \/ (socketName \in handed /\ ~Listening(socketName))

Connect(s) ==
    /\ Reachable /\ Len(backlog[socketName]) <= listen_backlog
    /\ Supervisor(s, "connect", "inspect")
    /\ link' = [link EXCEPT ![s] = socketName]
    /\ backlog' = [backlog EXCEPT ![socketName] = Append(@, s)]
    /\ UNCHANGED <<helper, why, lock, hostLock, socketName, handed, peer, controlName, activated, history>>

(* Any other failure ends the start: EACCES, from a socket that is still    *)
(* root's.                                                                  *)
ConnectFails(s) ==
    /\ ~Reachable /\ ~Retryable
    /\ Refuse(s, "connect", IF socketName \in handed THEN "not_connected" ELSE "not_permitted")
    /\ UNCHANGED <<helper, lock, hostLock, sockets, link, activated, controlName, history>>

\* Fault: the launcher is not asked about.
LauncherUnasked(s) == FALSE

LauncherEnded(s) == helper[s] = "gone"

(* Between two attempts the launcher is asked about; while it lives, the    *)
(* search goes on, and changes nothing.                                     *)
GiveUpSearch(s) ==
    /\ Retryable /\ LauncherEnded(s)
    /\ Refuse(s, "connect", "no_launcher")
    /\ UNCHANGED <<helper, lock, hostLock, sockets, link, activated, controlName, history>>

(* lstat() on the name, after the connection has been made: the name may be *)
(* gone, or name another socket.                                            *)
InspectName(s) ==
    /\ IF socketName # NoOne /\ socketName \in handed
         THEN Supervisor(s, "inspect", "authenticate") /\ UNCHANGED why
         ELSE Refuse(s, "inspect", "bad_path")
    /\ UNCHANGED <<helper, lock, hostLock, sockets, link, activated, controlName, history>>

\* Fault: any process of root will do.
RootPeer(s) == helper[link[s]] # "gone"

(* The process that listens there is one of ours, found through /proc.      *)
OwnPeer(s) == link[s] = s /\ helper[s] # "gone"

Authenticate(s) ==
    /\ supervisor[s] = "authenticate"
    /\ IF OwnPeer(s)
         THEN Supervisor(s, "authenticate", "await_ready") /\ controlName' = NoOne
              /\ UNCHANGED why
         ELSE Refuse(s, "authenticate", "bad_peer") /\ UNCHANGED controlName
    /\ UNCHANGED <<helper, lock, hostLock, sockets, link, activated, history>>

\* READY is answered with the descriptors and the start block.
ReceiveReady(s) ==
    /\ Supervisor(s, "await_ready", "await_active")
    /\ helper[link[s]] = "context" /\ peer[link[s]] = s
    /\ UNCHANGED <<helper, why, lock, hostLock, sockets, link, activated, controlName, history>>

\* The connection ends before READY.
NoReady(s) ==
    /\ Refuse(s, "await_ready", "no_ready")
    /\ helper[link[s]] = "gone"
    /\ UNCHANGED <<helper, lock, hostLock, sockets, link, activated, controlName, history>>

Publish(s) ==
    /\ s \in activated /\ controlName = NoOne
    /\ Supervisor(s, "await_active", "active")
    /\ controlName' = s
    /\ UNCHANGED <<helper, why, lock, hostLock, sockets, link, activated, history>>

(* The Session is over, or its environment could not be prepared. *)
LeaveSession(s) ==
    /\ helper[s] = "gone"
    /\ \/ s \notin activated /\ Refuse(s, "await_active", "no_environment")
       \/ Supervisor(s, "active", "reaping") /\ UNCHANGED why
    /\ UNCHANGED <<helper, lock, hostLock, sockets, link, activated, controlName, history>>

(* A process that ends gives up its locks and its listener, not the names.  *)
HelperEnds(h) ==
    /\ helper' = [helper EXCEPT ![h] = "gone"]
    /\ lock' = IF lock = Holder("helper", h) THEN NoOne ELSE lock
    /\ hostLock' = IF hostLock = h THEN NoOne ELSE hostLock
    /\ backlog' = [backlog EXCEPT ![h] = <<>>]

(* reap_helper_launcher(): after 2 s sudo is sent SIGTERM, and passes it on *)
(* to a helper that does not handle it.                                     *)
TerminateLauncher(s) ==
    /\ supervisor[s] = "reaping" /\ HelperRuns(s)
    /\ HelperEnds(s)
    /\ UNCHANGED <<supervisor, why, socketName, handed, link, activated, peer, controlName, history>>

(* The launcher is reaped, control.sock removed when it is ours.            *)
Finish(s) ==
    /\ supervisor[s] = "reaping" /\ ~HelperRuns(s)
    /\ Exit(s)
    /\ controlName' = IF controlName = s THEN NoOne ELSE controlName
    /\ UNCHANGED <<helper, why, hostLock, sockets, link, activated, history>>

SupervisorStep(s) ==
    \/ TakeLock(s) \/ Spawn(s) \/ Connect(s) \/ ConnectFails(s) \/ GiveUpSearch(s)
    \/ InspectName(s) \/ Authenticate(s) \/ ReceiveReady(s) \/ NoReady(s)
    \/ Publish(s) \/ LeaveSession(s) \/ TerminateLauncher(s) \/ Finish(s)

-----------------------------------------------------------------------------
(* The helper *)

Helper(h, from, to) == helper[h] = from /\ helper' = [helper EXCEPT ![h] = to]

HelperLeaves(h, from) == helper[h] = from /\ HelperEnds(h)

Apart == UNCHANGED <<supervisor, why, link, controlName, history>>
Uninvolved == Apart /\ UNCHANGED activated

\* The password is entered, or refused.
Sudo(h) ==
    /\ \/ Helper(h, "prompt", "monitor") /\ UNCHANGED <<lock, hostLock, backlog, harmed>>
       \/ HelperLeaves(h, "prompt") /\ harmed' = harmed \cup {h}
    /\ UNCHANGED <<supervisor, why, link, activated, controlName, alone, kills, socketName, handed, peer>>

(* pidfd_open() and the start time: the Supervisor that launched it lives.  *)
MonitorSupervisor(h) ==
    /\ \/ Alive(h) /\ Helper(h, "monitor", "probe") /\ UNCHANGED <<lock, hostLock, backlog>>
       \/ ~Alive(h) /\ HelperLeaves(h, "monitor")
    /\ Uninvolved /\ UNCHANGED <<socketName, handed, peer>>

(* session.lock must be held by somebody: the helper tries to take it, and  *)
(* one that can holds it until it has left.                                 *)
ProbeLock(h) ==
    /\ IF lock = NoOne
         THEN Helper(h, "probe", "release") /\ lock' = Holder("helper", h)
         ELSE Helper(h, "probe", "look") /\ UNCHANGED lock
    /\ Uninvolved /\ UNCHANGED <<hostLock, sockets>>

ReleaseLock(h) ==
    HelperLeaves(h, "release") /\ Uninvolved /\ UNCHANGED <<socketName, handed, peer>>

(* remove_stale(): look at the name, then unlink whatever it names; a name  *)
(* that vanished in between is a failure.                                   *)
LookForStale(h) ==
    /\ Helper(h, "look", IF socketName = NoOne THEN "bind" ELSE "remove_stale")
    /\ Uninvolved /\ UNCHANGED <<lock, hostLock, sockets>>

RemoveStale(h) ==
    /\ IF socketName = NoOne
         THEN HelperLeaves(h, "remove_stale") /\ UNCHANGED socketName
         ELSE /\ Helper(h, "remove_stale", "bind") /\ UNCHANGED <<lock, hostLock, backlog>>
              /\ socketName' = NoOne
    /\ Uninvolved /\ UNCHANGED <<handed, peer>>

\* EADDRINUSE, when another helper was faster.
Bind(h) ==
    /\ IF socketName = NoOne
         THEN /\ Helper(h, "bind", "chown") /\ UNCHANGED <<lock, hostLock, backlog>>
              /\ socketName' = h
         ELSE HelperLeaves(h, "bind") /\ UNCHANGED socketName
    /\ Uninvolved /\ UNCHANGED <<handed, peer>>

(* fchownat() goes by the name too. *)
GiveToUser(h) ==
    /\ IF socketName = NoOne
         THEN HelperLeaves(h, "chown") /\ UNCHANGED handed
         ELSE /\ Helper(h, "chown", "listen") /\ UNCHANGED <<lock, hostLock, backlog>>
              /\ handed' = handed \cup {socketName}
    /\ Uninvolved /\ UNCHANGED <<socketName, peer>>

Listen(h) ==
    /\ Helper(h, "listen", "accept")
    /\ Uninvolved /\ UNCHANGED <<lock, hostLock, sockets>>

\* Fault: only the listener is polled.
SupervisorDeathUnseen(h) == FALSE

SupervisorDeathSeen(h) == ~Alive(h)

(* poll() on the listener and on the Supervisor's pidfd, which goes first.  *)
AcceptSupervisor(h) ==
    /\ \/ SupervisorDeathSeen(h) /\ Helper(h, "accept", "leave") /\ UNCHANGED <<backlog, peer>>
       \/ /\ ~SupervisorDeathSeen(h) /\ backlog[h] # <<>>
          /\ Helper(h, "accept", "check")
          /\ peer' = [peer EXCEPT ![h] = Head(backlog[h])]
          /\ backlog' = [backlog EXCEPT ![h] = Tail(@)]
    /\ Uninvolved /\ UNCHANGED <<lock, hostLock, socketName, handed>>

(* SO_PEERCRED names the Supervisor that launched it, and /proc its groups. *)
CheckPeer(h) ==
    /\ Helper(h, "check", IF peer[h] = h /\ Alive(h) THEN "serve" ELSE "leave")
    /\ Uninvolved /\ UNCHANGED <<lock, hostLock, sockets>>

(* cleanup_helper_listener(): the listener is closed, and the name unlinked *)
(* whatever it names by now.                                                *)
RemoveListener(h) ==
    /\ \/ /\ Helper(h, "serve", "ready") /\ backlog' = [backlog EXCEPT ![h] = <<>>]
          /\ UNCHANGED <<lock, hostLock>>
       \/ HelperLeaves(h, "leave")
    /\ socketName' = NoOne
    /\ Uninvolved /\ UNCHANGED <<handed, peer>>

SendReady(h) ==
    /\ IF HungUp(h)
         THEN HelperLeaves(h, "ready")
         ELSE Helper(h, "ready", "context") /\ UNCHANGED <<lock, hostLock, backlog>>
    /\ Uninvolved /\ UNCHANGED <<socketName, handed, peer>>

\* The descriptors and the start block, or the end of the connection.
ReceiveContext(h) ==
    /\ \/ /\ supervisor[h] = "await_active"
          /\ Helper(h, "context", "prepare") /\ UNCHANGED <<lock, hostLock, backlog>>
       \/ HungUp(h) /\ HelperLeaves(h, "context")
    /\ Uninvolved /\ UNCHANGED <<socketName, handed, peer>>

(* host.lock is not waited for either: the environment of an earlier        *)
(* Session is still there while its helper holds it.                        *)
PrepareEnvironment(h) ==
    /\ IF hostLock = NoOne
         THEN /\ Helper(h, "prepare", "work") /\ hostLock' = h
              /\ activated' = activated \cup {h} /\ UNCHANGED <<lock, backlog>>
         ELSE HelperLeaves(h, "prepare") /\ UNCHANGED activated
    /\ Apart /\ UNCHANGED <<socketName, handed, peer>>

\* The connection ends.
LoseSupervisor(h) ==
    /\ HungUp(h) /\ Helper(h, "work", "clean_up")
    /\ Uninvolved /\ UNCHANGED <<lock, hostLock, sockets>>

\* The Workload ends, or is stopped.
EndWorkload(h) ==
    /\ Helper(h, "work", "clean_up")
    /\ Uninvolved /\ UNCHANGED <<lock, hostLock, sockets>>

CleanUp(h) ==
    HelperLeaves(h, "clean_up") /\ Uninvolved /\ UNCHANGED <<socketName, handed, peer>>

HelperStep(h) ==
    \/ MonitorSupervisor(h) \/ ProbeLock(h) \/ ReleaseLock(h) \/ LookForStale(h)
    \/ RemoveStale(h) \/ Bind(h) \/ GiveToUser(h) \/ Listen(h) \/ AcceptSupervisor(h)
    \/ CheckPeer(h) \/ RemoveListener(h) \/ SendReady(h) \/ ReceiveContext(h)
    \/ PrepareEnvironment(h) \/ LoseSupervisor(h) \/ CleanUp(h)

-----------------------------------------------------------------------------
(* Processes that are killed: SIGKILL, or Ctrl-C before the helper ignores  *)
(* it.  Nothing of theirs is cleaned up but what the kernel takes back.     *)

KillOne == kills < MaxKills /\ kills' = kills + 1

SupervisorKilled(s) ==
    /\ Alive(s) /\ KillOne /\ Exit(s)
    /\ harmed' = harmed \cup {s}
    /\ UNCHANGED <<helper, why, hostLock, sockets, link, activated, controlName, alone>>

HelperKilled(h) ==
    /\ HelperRuns(h) /\ KillOne /\ HelperEnds(h)
    /\ harmed' = harmed \cup {h}
    /\ UNCHANGED <<supervisor, why, socketName, handed, link, activated, peer, controlName, alone>>

-----------------------------------------------------------------------------
StNext == \E s \in Sessions :
    \/ Run(s) \/ Sudo(s) \/ EndWorkload(s)
    \/ SupervisorStep(s) \/ HelperStep(s)
    \/ SupervisorKilled(s) \/ HelperKilled(s)

(* Processes that can go on do, and after 2 s a launcher is terminated.     *)
(* Nobody has to run the program or enter a password, no Workload has to    *)
(* end, nothing has to be killed.                                           *)
StSpec ==
    /\ StInit /\ [][StNext]_stVars
    /\ \A s \in Sessions : WF_stVars(SupervisorStep(s)) /\ WF_stVars(HelperStep(s))

-----------------------------------------------------------------------------
(* Properties *)

(* A Supervisor that waits for READY, or has gone on from there, has its    *)
(* own helper at the other end of helper.sock, never one that an earlier    *)
(* Supervisor left listening; and a helper past its check has its own       *)
(* Supervisor (wait_for_helper_connection, run_helper).                     *)
OwnHelperOnly == \A s \in Sessions :
    /\ supervisor[s] \in {"await_ready", "await_active", "active"} => link[s] = s
    /\ helper[s] \in {"ready", "context", "prepare", "work", "clean_up"} => peer[s] = s

(* While a Session is active, control.sock names its socket, whoever else   *)
(* starts, fails to start, or has died before: names are removed under the  *)
(* lock only.                                                               *)
ControlSocketIsOurs == \A s \in Sessions : supervisor[s] = "active" => controlName = s

(* What earlier Sessions left behind, wherever their processes were killed, *)
(* does not stop one that starts when they are gone.  Refused starts are    *)
(* those whose search came between bind() and fchownat() (or met a socket   *)
(* left there), or looked at the name when the helper had already taken     *)
(* it away.                                                                 *)
LeftoversDoNoHarm == \A s \in alone \ harmed :
    why[s] \in {"none", "not_permitted", "bad_path"}

(* A helper whose Supervisor is gone goes too, wherever it is, and the host *)
(* lock with it; only sudo may still wait for a password.                   *)
LoneHelperLeaves == \A h \in Sessions :
    supervisor[h] = "gone" ~> helper[h] \in {"none", "prompt", "gone"}

(* Two that wait for each other: the helper listens, but its name was       *)
(* removed by the helper of an earlier Session.                             *)
Stranded(s) == supervisor[s] = "connect" /\ helper[s] = "accept" /\ socketName # s

(* Every start is decided once sudo has run the helper: the Session is      *)
(* active or refused.  The exception needs the helper of an earlier Session *)
(* that was still about.                                                    *)
StartIsDecided == \A s \in Sessions :
    (supervisor[s] = "connect" /\ helper[s] # "prompt")
        ~> (supervisor[s] \in {"active", "reaping", "gone"} \/ (Stranded(s) /\ s \notin alone))
=============================================================================
