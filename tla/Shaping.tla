------------------------------- MODULE Shaping -------------------------------
(***************************************************************************)
(* Traffic shaping in the helper: NetworkEnvironmentProfileChangeAdapter   *)
(* ::apply(), PreparedNetworkEnvironment::set_direction_settings() and the *)
(* set_settings() transaction over tc, which reads the root qdisc before   *)
(* and after, rolls back, and answers applied, restored or unknown.  Its   *)
(* commands keep the contract of ExternalCommand, and all have the one     *)
(* deadline of the change.  Another administrator may change the qdiscs    *)
(* meanwhile.                                                              *)
(***************************************************************************)
EXTENDS ExternalCommand, Naturals

CONSTANTS
    Dirs,             \* outbound (nll-app in the namespace), inbound (nll-host)
    Settings,         \* complete settings of a direction; 0 is unrestricted
    Unrepresentable,  \* those the kernel cannot hold: a loss that rounds to 0
    NotKnown,         \* the settings of a direction are not known any more
    Foreign,          \* a root qdisc of another kind or handle
    MaxChanges,       \* bound: changes asked for
    MaxIntrusions,    \* bound: changes made by the other administrator
    MaxFailing        \* bound: queries and calls that fail

ASSUME ShapingAssumption ==
    /\ Dirs # {}
    /\ 0 \in Settings /\ Unrepresentable \subseteq Settings \ {0}
    /\ NotKnown \notin Settings /\ Foreign \notin Settings
    /\ MaxChanges \in Nat /\ MaxIntrusions \in Nat /\ MaxFailing \in Nat

VARIABLES
    at,          \* where set_settings() is
    dir,         \* the direction being changed
    requested,   \* its new settings
    command,     \* the tc command under way: its operation and settings
    acted,       \* the command has had its effect
    tc,          \* the root qdisc of each device: 0 is noqueue, a setting is
                 \* our netem (handle 4e4c:) with it
    owner,       \* outbound_settings and inbound_settings of the environment
    confirmed,   \* the confirmed profile of the adapter
    intruded,    \* (history) directions whose qdisc was changed by others since
                 \* it was last seen to be right
    expired,     \* the deadline of the change has passed
    used         \* changes, intrusions and faults so far

shVars == <<at, dir, requested, command, acted, tc, owner, confirmed, intruded, expired, used>>
vars == <<commandVars, shVars>>

Netem == Settings \ (Unrepresentable \cup {0})
NoCommand == [op |-> "none", to |-> 0]

ShInit ==
    /\ CommandInit
    /\ at = "idle" /\ requested = 0
    /\ dir = CHOOSE d \in Dirs : TRUE
    /\ command = NoCommand /\ acted = FALSE
    /\ tc = [d \in Dirs |-> 0] /\ owner = [d \in Dirs |-> 0]
    /\ confirmed = [d \in Dirs |-> 0]
    /\ intruded = {} /\ expired = FALSE
    /\ used = [changes |-> 0, intrusions |-> 0, faults |-> 0]

Use(what, bound) == used[what] < bound /\ used' = [used EXCEPT ![what] = @ + 1]
Fault == Use("faults", MaxFailing)

-----------------------------------------------------------------------------
(* The kernel: a command names our handle, so `change` and `del` have no    *)
(* effect on a qdisc of somebody else, nor where there is none, and `add`   *)
(* needs the default; `replace`, which takes what is there, is not used.    *)

Kernel(c, q) ==
    CASE c.op = "add" /\ q = 0 -> c.to
      [] c.op = "change" /\ q \in Netem -> c.to
      [] c.op = "del" /\ q \in Netem -> 0
      [] c.op = "replace" -> c.to
      [] OTHER -> q

QueryFails == IF expired THEN UNCHANGED used ELSE Fault

(* A qdisc query gives the root, or nothing: it failed or came too late.    *)
Inspect(seen) ==
    \/ ~expired /\ seen = tc[dir] /\ UNCHANGED used
    \/ seen = NotKnown /\ QueryFails

-----------------------------------------------------------------------------
(* set_direction_settings() and the adapter: what an answer leaves behind   *)

\* Local variables, and a result that has been used.
Forget ==
    /\ expired' = FALSE
    /\ IF program # "running"
         THEN /\ command' = NoCommand /\ acted' = FALSE
              /\ program' = "none" /\ result' = "none"
         ELSE UNCHANGED <<command, acted, program, result>>
    /\ UNCHANGED call

Answer(v) ==
    /\ at' = "idle" /\ requested' = 0
    /\ owner' = CASE v = "applied" -> [owner EXCEPT ![dir] = requested]
                  [] v = "unknown" -> [owner EXCEPT ![dir] = NotKnown]
                  [] OTHER -> owner
    /\ confirmed' = IF v = "applied" THEN [confirmed EXCEPT ![dir] = requested] ELSE confirmed
    /\ Forget

Seen == intruded' = intruded \ {dir}
Unseen == UNCHANGED intruded

(* No command is started past the deadline, or when there are no resources. *)
Run(c) ==
    \/ /\ ~expired /\ BeginCall
       /\ command' = c /\ acted' = FALSE
       /\ UNCHANGED used
    \/ /\ RefuseCall /\ (result' = "timeout" <=> expired)
       /\ IF expired THEN UNCHANGED used ELSE Fault
       /\ UNCHANGED <<command, acted>>

\* Fault: a qdisc is replaced, whatever it is.
OpToReplace(s, existing) == [op |-> IF s = 0 THEN "del" ELSE "replace", to |-> s]

OpTo(s, existing) == [op |-> CASE s = 0 -> "del"
                               [] s # 0 /\ existing = 0 -> "add"
                               [] OTHER -> "change",
                      to |-> s]

-----------------------------------------------------------------------------
(* The transaction *)

(* A change that changes nothing is applied, one of a setting that is not   *)
(* supported (bandwidth) is refused, and one of a direction whose settings  *)
(* are not known is unknown: the host is not looked at.                     *)
Ask(d, s) ==
    /\ at = "idle" /\ Use("changes", MaxChanges)
    /\ s # confirmed[d] /\ owner[d] # NotKnown
    /\ at' = "observe" /\ dir' = d /\ requested' = s
    /\ UNCHANGED <<commandVars, command, acted, tc, owner, confirmed, intruded, expired>>

Continue(p) == at' = p /\ UNCHANGED <<requested, owner, confirmed>>
NothingRun == UNCHANGED <<commandVars, command, acted, expired>>
Rest == UNCHANGED <<dir, tc>>

(* observe_veth(): the pair is still the one that was proven. *)
ObserveVeth ==
    /\ at = "observe"
    /\ \/ QueryFails /\ Answer("unknown")
       \/ /\ ~expired /\ UNCHANGED used
          /\ IF requested \in Unrepresentable THEN Answer("restored")
                                              ELSE Continue("before") /\ NothingRun
    /\ UNCHANGED intruded /\ Rest

(* The qdisc must be the confirmed one. *)
InspectBefore ==
    /\ at = "before"
    /\ \E seen \in Settings \cup {Foreign, NotKnown} :
         /\ Inspect(seen)
         /\ IF seen = owner[dir] THEN Continue("run") /\ NothingRun /\ Seen
                                 ELSE Answer("unknown") /\ Unseen
    /\ Rest

(* tc must be found. *)
RunRequested ==
    /\ at = "run"
    /\ \/ Run(OpTo(requested, owner[dir])) /\ Continue("after") /\ UNCHANGED expired
       \/ Fault /\ Answer("restored")
    /\ Unseen /\ Rest

\* Fault: the result of the command is believed.
BelieveCommand ==
    /\ at = "after" /\ call = "idle"
    /\ Answer(IF result = "success" THEN "applied" ELSE "restored") /\ Seen
    /\ UNCHANGED used /\ Rest

(* Whatever the command answered, the qdisc is read again. *)
InspectAfter ==
    /\ at = "after" /\ call = "idle"
    /\ \E seen \in Settings \cup {Foreign, NotKnown} :
         \/ /\ seen \in {requested, owner[dir]}
            /\ Inspect(seen)
            /\ Answer(IF seen = requested THEN "applied" ELSE "restored") /\ Seen
         \/ /\ seen \in {Foreign, NotKnown}
            /\ Inspect(seen)
            /\ Answer("unknown") /\ Unseen
         \/ /\ seen \in Settings \ {requested, owner[dir]}     \* ours, but neither
            /\ ~expired /\ seen = tc[dir]
            /\ Run(OpTo(owner[dir], seen)) /\ Continue("roll_back") /\ Unseen
            /\ UNCHANGED expired
    /\ Rest

\* Fault: a rollback that did not work is tried again.
RollBackAgain ==
    /\ at = "roll_back" /\ call = "idle"
    /\ \E seen \in Settings \cup {Foreign, NotKnown} :
         \/ seen = owner[dir] /\ Inspect(seen) /\ Answer("restored") /\ Seen
         \/ seen = NotKnown /\ Inspect(seen) /\ Answer("unknown") /\ Unseen
         \/ /\ seen \notin {owner[dir], NotKnown}
            /\ ~expired /\ seen = tc[dir]
            /\ Run(OpTo(owner[dir], seen)) /\ Continue("roll_back") /\ Unseen
            /\ UNCHANGED expired
    /\ Rest

InspectRollback ==
    /\ at = "roll_back" /\ call = "idle"
    /\ \E seen \in Settings \cup {Foreign, NotKnown} :
         /\ Inspect(seen)
         /\ IF seen = owner[dir] THEN Answer("restored") /\ Seen
                                 ELSE Answer("unknown") /\ Unseen
    /\ Rest

Transaction ==
    \/ ObserveVeth \/ InspectBefore \/ RunRequested \/ InspectAfter \/ InspectRollback

-----------------------------------------------------------------------------
(* The command, and the world *)

CommandStep ==
    /\ Execute \/ ProgramEnds
    /\ UNCHANGED shVars

CommandReturns ==
    /\ ReturnResult
    /\ UNCHANGED shVars

(* tc changes the qdisc at some moment while it runs, or never. *)
CommandActs ==
    /\ program = "running" /\ ~acted
    /\ tc' = [tc EXCEPT ![dir] = Kernel(command, @)]
    /\ acted' = TRUE
    /\ UNCHANGED <<commandVars, at, dir, requested, command, owner, confirmed, intruded,
                   expired, used>>

Timeout ==
    /\ ~expired /\ at # "idle"
    /\ expired' = TRUE
    /\ UNCHANGED <<commandVars, at, dir, requested, command, acted, tc, owner, confirmed,
                   intruded, used>>

(* Another administrator puts something else in the place of a qdisc. *)
Intrude(d, q) ==
    /\ q # tc[d]
    /\ Use("intrusions", MaxIntrusions)
    /\ tc' = [tc EXCEPT ![d] = q]
    /\ intruded' = intruded \cup {d}
    /\ UNCHANGED <<commandVars, at, dir, requested, command, acted, owner, confirmed, expired>>

Asks == \E d \in Dirs, s \in Settings : Ask(d, s)
Intrusion == \E d \in Dirs, q \in Netem \cup {0, Foreign} : Intrude(d, q)

ShNext ==
    \/ Asks \/ Transaction \/ CommandStep \/ CommandReturns \/ CommandActs
    \/ Timeout \/ Intrusion

(* The helper runs, and a call returns (CommandReturns of CommandRunner).   *)
ShFairness == WF_vars(Transaction) /\ WF_vars(CommandStep \/ CommandReturns)

ShSpec == ShInit /\ [][ShNext]_vars /\ ShFairness

-----------------------------------------------------------------------------
(* Properties *)

(* What the helper believes of a direction is in force, whatever failed,    *)
(* was late or had to be rolled back: between changes, the qdisc of a       *)
(* direction nobody else has touched is that of its settings, and these are *)
(* the ones confirmed to the Supervisor.                                    *)
ConfirmedIsInForce ==
    \A d \in Dirs :
        (at = "idle" \/ d # dir) /\ owner[d] # NotKnown =>
            /\ d \notin intruded => tc[d] = owner[d]
            /\ confirmed[d] = owner[d]

(* A qdisc of somebody else is never changed, even when it appears between  *)
(* the inspection and the command.                                          *)
ForeignIsLeftAlone ==
    [][\A d \in Dirs : tc[d] = Foreign /\ tc'[d] # Foreign => used'.intrusions # used.intrusions]_vars

(* Once the state of a direction is unknown nothing more is done to it: no  *)
(* later change, and no command that was given up, reaches its qdisc.       *)
UnknownIsLeftAlone ==
    [][\A d \in Dirs : owner[d] = NotKnown /\ tc'[d] # tc[d] => used'.intrusions # used.intrusions]_vars

(* Every change is answered, however its commands hang.                     *)
ChangeIsAnswered == at # "idle" ~> at = "idle"
=============================================================================
