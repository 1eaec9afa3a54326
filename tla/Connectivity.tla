---------------------------- MODULE Connectivity ----------------------------
(* The host-wide half of a Session's Network Environment: the recovery        *)
(* journal, the NAT table and the firewall exception that the helper installs *)
(* with configure_connectivity, removes with remove_connectivity and, when a  *)
(* helper died in between, removes at the next Session's preflight.           *)
(*                                                                            *)
(* Every Session draws a fresh recovery token; here the token is the number   *)
(* of the Session.  A command or a journal access is one step: it may succeed,*)
(* fail without effect or fail after its effect (a timeout, a lost reply).    *)
EXTENDS Naturals

CONSTANTS
    MaxSessions,   \* bound: Sessions started one after the other
    Backends,      \* firewall managers the host may run; "nftables" is none
    Disabling,     \* managers the administrator may switch off and on
    MaxFaults,     \* bound: failing commands and journal accesses
    MaxCrashes     \* bound: deaths of the helper

ASSUME ConnectivityAssumption ==
    /\ MaxSessions \in Nat
    /\ Backends \subseteq {"nftables", "ufw", "firewalld"}

Tokens == 1..MaxSessions
NoRecord == [token |-> 0, backend |-> "none", phase |-> "none"]
Record(t, b, p) == [token |-> t, backend |-> b, phase |-> p]
Records == {NoRecord} \cup [token : Tokens, backend : Backends,
                            phase : {"intent", "applied", "removing"}]

VARIABLES
    journal,     \* the recovery record on disk
    table,       \* tokens whose NAT table exists
    exception,   \* token -> how much of its firewall exception exists
    manager,     \* the firewall manager of the host
    enabled,     \* whether that manager is running
    pc,          \* where the helper is
    session,     \* token of the current or last Session
    handle,      \* ProductionConnectivityHandle: what removal knows
    purpose,     \* why removal runs: preflight, or a cleanup pass by number
    troubled,    \* a step of this Session's helper failed for outside reasons
    faults, crashes

host == <<table, exception, manager, enabled>>
bounds == <<session, crashes>>
cnVars == <<journal, table, exception, manager, enabled, pc, session, handle,
            purpose, troubled, faults, crashes>>

NoHandle == [token |-> 0, backend |-> "none", firewall |-> FALSE, zone |-> FALSE]
Reconciling == 0
CleanupPasses == {1, 2, 3}   \* cleanup, ResidualCleanup::retry, destructor

CnInit ==
    /\ journal = NoRecord
    /\ table = {}
    /\ exception = [t \in Tokens |-> "absent"]
    /\ manager \in Backends
    /\ enabled = TRUE
    /\ pc = "idle"
    /\ session = 0
    /\ handle = NoHandle
    /\ purpose = Reconciling
    /\ troubled = FALSE
    /\ faults = 0
    /\ crashes = 0

Fails == /\ faults < MaxFaults
         /\ faults' = faults + 1
         /\ troubled' = TRUE
Works == UNCHANGED <<faults, troubled>>
Active == IF enabled THEN manager ELSE "nftables"

\* write_recovery_record: the rename may have taken place when it reports failure.
Written(record) == Works /\ journal' = record
NotWritten(record) == Fails /\ journal' \in {journal, record}

-----------------------------------------------------------------------------
(* Preflight under the host lock: reconcile_pending_state.                    *)

StartSession ==
    /\ pc = "idle"
    /\ session < MaxSessions
    /\ session' = session + 1
    /\ pc' = "preflight"
    /\ troubled' = FALSE
    /\ UNCHANGED <<journal, host, handle, purpose, faults, crashes>>

\* Preflight rebuilds the handle of an earlier Session from its record alone.
RecoveredHandle(r) ==
    [token |-> r.token, backend |-> r.backend,
     firewall |-> r.backend # "nftables", zone |-> FALSE]

ReconcilePendingState ==
    /\ pc = "preflight"
    /\ \/ journal = NoRecord /\ pc' = "configure" /\ Works
          /\ UNCHANGED <<handle, purpose>>
       \/ /\ journal # NoRecord
          /\ handle' = RecoveredHandle(journal)
          /\ purpose' = Reconciling
          /\ pc' = "remove"
          /\ Works
       \/ pc' = "refused" /\ Fails /\ UNCHANGED <<handle, purpose>>
    /\ UNCHANGED <<journal, host, bounds>>

-----------------------------------------------------------------------------
(* configure_connectivity.                                                    *)

\* A failure once the handle exists rolls back: the first cleanup pass.
RollBack == pc' = "remove" /\ purpose' = 1
Proceed(next) == pc' = next /\ UNCHANGED purpose

WriteIntent ==
    /\ pc = "configure"
    /\ LET record == Record(session, Active, "intent") IN
       \/ journal = NoRecord /\ Written(record) /\ pc' = "table"
          /\ handle' = [token |-> session, backend |-> Active,
                        firewall |-> FALSE, zone |-> FALSE]
       \* No handle survives a failure, even when the rename took place.
       \/ journal = NoRecord /\ NotWritten(record) /\ pc' = "left" /\ UNCHANGED handle
       \/ /\ Fails \/ (journal # NoRecord /\ Works)
          /\ pc' = "left"
          /\ UNCHANGED <<journal, handle>>
    /\ UNCHANGED <<host, purpose, bounds>>

AddTable ==
    /\ pc = "table"
    /\ \/ Works /\ table' = table \cup {session} /\ Proceed("rule")
       \/ Fails /\ table' \in {table, table \cup {session}} /\ RollBack
    /\ UNCHANGED <<journal, exception, manager, enabled, handle, bounds>>

\* The chain and the masquerading rule live inside the table.
AddChainAndRule ==
    /\ pc = "rule"
    /\ \/ Works /\ Proceed(IF handle.backend = "nftables" THEN "applied" ELSE "exception")
       \/ Fails /\ RollBack
    /\ handle' = IF pc' = "exception"
                 THEN [handle EXCEPT !.firewall = TRUE, !.zone = handle.backend = "firewalld"]
                 ELSE handle
    /\ UNCHANGED <<journal, host, bounds>>

\* UFW takes one command; a firewalld policy is created, zoned and completed.
NextExtent(extent) ==
    CASE extent = "absent" -> IF handle.backend = "ufw" THEN "complete" ELSE "created"
      [] extent = "created" -> "zoned"
      [] OTHER -> "complete"

\* The command of a manager that is switched off meanwhile is refused (firewalld)
\* or leaves a rule its status does not show (UFW).
Managed == Active = handle.backend

AddException ==
    /\ pc = "exception"
    /\ LET next == NextExtent(exception[session])
           done == [exception EXCEPT ![session] = next]
       IN  \/ /\ Managed /\ Works /\ exception' = done
              /\ Proceed(IF next = "complete" THEN "applied" ELSE "exception")
           \/ Managed /\ Fails /\ exception' \in {exception, done} /\ RollBack
           \/ /\ ~Managed /\ Works /\ RollBack
              /\ exception' = IF handle.backend = "ufw" THEN done ELSE exception
    /\ UNCHANGED <<journal, table, manager, enabled, handle, bounds>>

WriteApplied ==
    /\ pc = "applied"
    /\ LET record == [journal EXCEPT !.phase = "applied"] IN
       \/ Written(record) /\ Proceed("active")
       \/ NotWritten(record) /\ RollBack
    /\ UNCHANGED <<host, handle, bounds>>

\* The Session ends, whatever its result: PreparedNetworkEnvironment::cleanup.
EndSession ==
    /\ pc = "active"
    /\ pc' = "remove"
    /\ purpose' = 1
    /\ UNCHANGED <<journal, host, handle, troubled, faults, bounds>>

-----------------------------------------------------------------------------
(* remove_connectivity: one pass of the explicit cleanup, of its single retry *)
(* and of the destructor, or the reconciliation at preflight.                 *)

\* The proof survives a failed pass, so the next one starts over.
GiveUpPass ==
    IF purpose = Reconciling
    THEN pc' = "refused" /\ UNCHANGED purpose
    ELSE IF purpose + 1 \in CleanupPasses
         THEN pc' = "remove" /\ purpose' = purpose + 1
         ELSE pc' = "left" /\ UNCHANGED purpose

\* A record that cannot be read, or is not ours, makes identity unconfirmed: no
\* later pass may remove anything.
LoseProof == /\ pc' = IF purpose = Reconciling THEN "refused" ELSE "left"
             /\ UNCHANGED purpose

\* Fault: a half-removed record is not taken up again.
OursUnlessRemoving ==
    journal = NoRecord \/ (journal.token = handle.token /\ journal.phase # "removing")

OursOrEmpty == journal = NoRecord
               \/ (journal.token = handle.token /\ journal.backend = handle.backend)

MarkRemoving ==
    /\ pc = "remove"
    /\ LET record == Record(handle.token, handle.backend, "removing") IN
       \/ ~OursOrEmpty /\ Works /\ LoseProof /\ UNCHANGED journal
       \/ Fails /\ LoseProof /\ UNCHANGED journal
       \/ OursOrEmpty /\ Written(record) /\ Proceed("exception_removal")
       \/ OursOrEmpty /\ NotWritten(record) /\ GiveUpPass
    /\ UNCHANGED <<host, handle, bounds>>

Gone == [exception EXCEPT ![handle.token] = "absent"]

\* What the manager shows: nothing while it is switched off.
Shown == Managed /\ exception[handle.token] # "absent"

\* firewalld_policy_matches with allow_incomplete: an ingress zone must be the
\* one the handle remembers.
Recognised == handle.backend # "firewalld" \/ handle.zone
              \/ exception[handle.token] = "created"

\* Fault: a failed removal is passed over.
RemoveExceptionOrNot ==
    /\ pc = "exception_removal"
    /\ Works \/ Fails
    /\ exception' \in {Gone} \cup IF faults' > faults THEN {exception} ELSE {}
    /\ Proceed("table_removal")
    /\ UNCHANGED <<journal, table, manager, enabled, handle, bounds>>

RemoveException ==
    /\ pc = "exception_removal"
    /\ \/ ~(handle.firewall /\ Shown) /\ Works /\ Proceed("table_removal")
          /\ UNCHANGED exception
       \/ handle.firewall /\ Shown /\ ~Recognised /\ Works /\ GiveUpPass
          /\ UNCHANGED exception
       \/ handle.firewall /\ Shown /\ Recognised /\ Works /\ exception' = Gone
          /\ Proceed("table_removal")
       \/ handle.firewall /\ Fails /\ GiveUpPass
          /\ exception' \in {exception, IF Shown /\ Recognised THEN Gone ELSE exception}
    /\ UNCHANGED <<journal, table, manager, enabled, handle, bounds>>

\* Fault: a failed removal is passed over.
RemoveTableOrNot ==
    /\ pc = "table_removal"
    /\ Works \/ Fails
    /\ table' \in {table \ {handle.token}} \cup IF faults' > faults THEN {table} ELSE {}
    /\ Proceed("clear")
    /\ UNCHANGED <<journal, exception, manager, enabled, handle, bounds>>

RemoveTable ==
    /\ pc = "table_removal"
    /\ \/ Works /\ table' = table \ {handle.token} /\ Proceed("clear")
       \/ Fails /\ table' \in {table, table \ {handle.token}} /\ GiveUpPass
    /\ UNCHANGED <<journal, exception, manager, enabled, handle, bounds>>

ClearRecord ==
    /\ pc = "clear"
    /\ \/ Works /\ journal' = NoRecord
          /\ Proceed(IF purpose = Reconciling THEN "configure" ELSE "removed")
       \/ Fails /\ journal' \in {journal, NoRecord} /\ GiveUpPass
    /\ UNCHANGED <<host, handle, bounds>>

\* The helper exits: normally at the end of its work, or by dying anywhere.
LeaveHost ==
    /\ pc' = "idle"
    /\ handle' = NoHandle
    /\ purpose' = Reconciling
    /\ UNCHANGED <<journal, host, session, troubled, faults>>

Exit == pc \in {"refused", "left", "removed"} /\ LeaveHost /\ UNCHANGED crashes

Crash == /\ pc \notin {"idle", "refused", "left", "removed"}
         /\ crashes < MaxCrashes
         /\ crashes' = crashes + 1
         /\ LeaveHost

\* firewalld forgets a runtime policy when it stops; UFW keeps its rules.
SwitchManager ==
    /\ manager \in Disabling
    /\ enabled' = ~enabled
    /\ exception' = IF manager = "firewalld" THEN [t \in Tokens |-> "absent"] ELSE exception
    /\ UNCHANGED <<journal, table, manager, pc, handle, purpose, troubled, faults, bounds>>

CnNext ==
    \/ StartSession \/ ReconcilePendingState
    \/ WriteIntent \/ AddTable \/ AddChainAndRule \/ AddException \/ WriteApplied
    \/ EndSession
    \/ MarkRemoving \/ RemoveException \/ RemoveTable \/ ClearRecord
    \/ Exit \/ Crash \/ SwitchManager

CnSpec == CnInit /\ [][CnNext]_cnVars

-----------------------------------------------------------------------------
OnHost(t) == t \in table \/ exception[t] # "absent"

\* Recovery evidence: whatever failed or crashed, a NAT table or a firewall
\* exception left on the host is named by the journal record, so the next
\* Session can find it (write order in configure_connectivity, clear order in
\* remove_connectivity).
JournalCoversHost == \A t \in Tokens : OnHost(t) => journal.token = t

\* An interrupted Session is reconciled before the next one creates host
\* resources: while a Session configures or runs, no other Session's table or
\* exception is on the host.
RecoveredBeforeUse ==
    pc \in {"table", "rule", "exception", "applied", "active"} =>
        \A t \in Tokens \ {session} : ~OnHost(t)

\* Preflight refuses a Session only because something outside failed during it,
\* never because of what an earlier helper's death left to reconcile
\* (reconcile_pending_state).
RecoveryIsPossible == pc = "refused" => troubled

\* The same, but for what a firewalld policy leaves: the zone it applies to is
\* not in the record.
RecoveryIsPossibleWithoutPolicy ==
    pc = "refused" => troubled \/ handle.backend = "firewalld"
============================================================================
