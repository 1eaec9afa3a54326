----------------------------- MODULE HostProofs -----------------------------
(***************************************************************************)
(* Theorems about the two transactions that last as long as the Session:   *)
(* Connectivity and Shaping.  They share nothing, and each part is about   *)
(* one of them.                                                            *)
(***************************************************************************)
EXTENDS Connectivity, Shaping, TLAPS

-----------------------------------------------------------------------------
(* Part 1: Connectivity, for any number of Sessions, failures and crashes:  *)
(* what a helper left on the host is named by the journal, and is gone      *)
(* before the next Session installs anything.  UFW is not switched off      *)
(* meanwhile: it keeps its rules while its status shows none, so that       *)
(* remove_connectivity() would clear the record too early.                  *)

UfwStaysOn == "ufw" \notin Disabling

Managers == {"none", "nftables", "ufw", "firewalld"}
Installing == {"table", "rule", "exception", "applied", "active"}
Removing == {"exception_removal", "table_removal", "clear"}

CnTypeCorrect ==
    /\ journal \in [token : Nat, backend : Managers,
                    phase : {"none", "intent", "applied", "removing"}]
    /\ journal = NoRecord \/ journal.token \in Tokens
    /\ table \subseteq Tokens
    /\ exception \in [Tokens -> {"absent", "created", "zoned", "complete"}]
    /\ manager \in Backends /\ enabled \in BOOLEAN
    /\ session \in 0 .. MaxSessions
    /\ pc # "idle" => session \in Tokens
    /\ handle \in [token : Nat, backend : Managers, firewall : BOOLEAN, zone : BOOLEAN]

(* Only a manager that may be switched off is ever off.                     *)
OffIsAllowed == enabled \/ manager \in Disabling

(* A firewall exception is shown by the manager that the record names.      *)
ExceptionsAreShown == \A t \in Tokens :
    exception[t] # "absent" =>
        enabled /\ manager # "nftables" /\ journal.backend = manager

(* While it installs, the helper's record and handle are those of its       *)
(* Session; while it removes, the record is that of the handle.             *)
RecordIsOurs ==
    /\ pc \in Installing =>
           journal.token = session /\ handle.token = session /\ journal.backend = handle.backend
    /\ pc = "exception" => handle.backend # "nftables" /\ handle.firewall
    /\ pc \in Installing => handle.backend \in {"nftables", manager}
    /\ pc \in Removing => journal.token = handle.token /\ journal.backend = handle.backend
    /\ pc \in Removing \cup {"remove"} => handle.token \in Tokens

(* A handle knows of the exception that there is.                           *)
HandleKnowsException ==
    pc \in Installing \cup Removing \cup {"remove"} =>
        (handle.token \in Tokens /\ exception[handle.token] # "absent" => handle.firewall)

(* The removals are done in order, and the record is cleared last.          *)
RemovedInOrder ==
    /\ pc \in {"table_removal", "clear"} => exception[handle.token] = "absent"
    /\ pc = "clear" => handle.token \notin table

CnInv ==
    /\ CnTypeCorrect /\ OffIsAllowed /\ JournalCoversHost
    /\ ExceptionsAreShown /\ RecordIsOurs /\ HandleKnowsException /\ RemovedInOrder

-----------------------------------------------------------------------------
(* An empty host, and no record.                                            *)
LEMMA CnInvInit == CnInit => CnInv
BY ConnectivityAssumption DEF CnInit, CnInv, CnTypeCorrect, OffIsAllowed, JournalCoversHost,
   ExceptionsAreShown, RecordIsOurs, HandleKnowsException, RemovedInOrder, OnHost, Tokens,
   NoRecord, NoHandle, Managers, Installing, Removing

(* Without a record there is nothing on the host.                           *)
LEMMA EmptyJournal ==
    ASSUME CnInv, journal = NoRecord
    PROVE  table = {} /\ \A t \in Tokens : exception[t] = "absent"
BY DEF CnInv, CnTypeCorrect, JournalCoversHost, OnHost, NoRecord, Tokens

(* A handle that knows of no exception yet.                                 *)
LEMMA FreshHandle ==
    ASSUME NEW t \in Nat, NEW b \in Managers
    PROVE  [token |-> t, backend |-> b, firewall |-> FALSE, zone |-> FALSE]
               \in [token : Nat, backend : Managers, firewall : BOOLEAN, zone : BOOLEAN]
OBVIOUS

(* Preflight, and the end of a helper.                                      *)
LEMMA PreflightKeepsInv ==
    ASSUME CnInv, StartSession \/ ReconcilePendingState \/ EndSession \/ Exit \/ Crash
    PROVE  CnInv'
<1> USE DEF CnInv, CnTypeCorrect, OffIsAllowed, JournalCoversHost, ExceptionsAreShown,
            RecordIsOurs, HandleKnowsException, RemovedInOrder, OnHost, Installing, Removing, host
<1>1. CASE StartSession
    BY <1>1, ConnectivityAssumption DEF StartSession, Tokens
<1>2. CASE ReconcilePendingState
    <2>1. UNCHANGED <<journal, table, exception, manager, enabled, session>> /\ pc = "preflight"
        BY <1>2 DEF ReconcilePendingState, bounds
    <2>2. CASE UNCHANGED handle /\ pc' \in {"configure", "refused"}
        BY <2>1, <2>2
    <2>3. CASE journal # NoRecord /\ handle' = RecoveredHandle(journal) /\ pc' = "remove"
        <3>1. /\ handle' \in [token : Nat, backend : Managers, firewall : BOOLEAN,
                              zone : BOOLEAN]
              /\ handle'.token = journal.token /\ handle'.token \in Tokens
              /\ handle'.firewall = (journal.backend # "nftables")
            BY <2>3 DEF RecoveredHandle, Tokens
        <3>2. QED
            BY <2>1, <2>3, <3>1
    <2>4. QED
        BY <1>2, <2>2, <2>3 DEF ReconcilePendingState
<1>3. CASE EndSession
    BY <1>3 DEF EndSession, bounds
<1>4. CASE Exit \/ Crash
    <2>1. UNCHANGED <<journal, table, exception, manager, enabled, session>> /\ pc' = "idle"
        BY <1>4 DEF Exit, Crash, LeaveHost
    <2>2. handle' \in [token : Nat, backend : Managers, firewall : BOOLEAN, zone : BOOLEAN]
        <3>1. "none" \in Managers /\ 0 \in Nat
            BY DEF Managers
        <3>2. NoHandle \in [token : Nat, backend : Managers, firewall : BOOLEAN, zone : BOOLEAN]
            BY <3>1, FreshHandle DEF NoHandle
        <3>3. handle' = NoHandle
            BY <1>4 DEF Exit, Crash, LeaveHost
        <3>4. QED
            BY <3>2, <3>3
    <2>3. CnTypeCorrect'
        BY <2>1, <2>2 DEF Tokens, NoRecord
    <2>4. JournalCoversHost' /\ ExceptionsAreShown' /\ OffIsAllowed'
        BY <2>1
    <2>5. RecordIsOurs' /\ HandleKnowsException' /\ RemovedInOrder'
        BY <2>1
    <2>6. QED
        BY <2>3, <2>4, <2>5
<1>5. QED
    BY <1>1, <1>2, <1>3, <1>4

(* The record is written while the host is empty.                           *)
LEMMA WriteIntentKeepsInv ==
    ASSUME CnInv, WriteIntent
    PROVE  CnInv'
<1> USE DEF CnInv, CnTypeCorrect, OffIsAllowed, JournalCoversHost, ExceptionsAreShown,
            RecordIsOurs, HandleKnowsException, RemovedInOrder, OnHost, Installing, Removing, host
<1> DEFINE record == Record(session, Active, "intent")
<1>1. /\ record \in [token : Nat, backend : Managers,
                     phase : {"none", "intent", "applied", "removing"}]
      /\ record.token \in Tokens /\ record.token = session
      /\ record.backend = Active /\ Active \in {"nftables", manager}
    BY ConnectivityAssumption DEF WriteIntent, Record, Active, Managers, Tokens
<1>2. journal' # journal => journal = NoRecord /\ journal' = record
    BY DEF WriteIntent, Written, NotWritten
<1>3. \/ pc' = "left" /\ UNCHANGED handle
      \/ /\ pc' = "table" /\ journal = NoRecord /\ journal' = record
         /\ handle' = [token |-> session, backend |-> Active, firewall |-> FALSE, zone |-> FALSE]
    BY DEF WriteIntent, Written
<1>4. UNCHANGED <<table, exception, manager, enabled, session>>
    BY DEF WriteIntent, bounds
<1>5. journal' # journal => table = {} /\ \A t \in Tokens : exception[t] = "absent"
    BY <1>2, EmptyJournal
<1>6. pc = "configure"
    BY DEF WriteIntent
<1> HIDE DEF record
<1>7. CASE pc' = "left" /\ UNCHANGED <<handle, journal>>
    BY <1>4, <1>6, <1>7
<1>8. CASE journal' = record /\ table = {} /\ (\A t \in Tokens : exception[t] = "absent")
    <2>0. session \in Nat /\ Active \in Managers
        BY <1>1, ConnectivityAssumption DEF Managers
    <2>1. \/ pc' = "left" /\ UNCHANGED handle
          \/ /\ pc' = "table"
             /\ handle' \in [token : Nat, backend : Managers, firewall : BOOLEAN,
                             zone : BOOLEAN]
             /\ handle'.token = session /\ handle'.backend = Active
        <3>1. CASE UNCHANGED handle
            BY <1>3, <3>1
        <3>2. CASE handle' = [token |-> session, backend |-> Active, firewall |-> FALSE,
                              zone |-> FALSE]
            BY <1>3, <2>0, <3>2, FreshHandle
        <3>3. QED
            BY <1>3, <3>1, <3>2
    <2>2. QED
        BY <1>1, <1>4, <1>6, <1>8, <2>1 DEF Tokens, NoRecord
<1>9. CASE journal' # journal
    BY <1>2, <1>5, <1>8, <1>9
<1>10. CASE journal' = journal /\ pc' = "table"
    BY <1>3, <1>8, <1>10, EmptyJournal
<1>11. QED
    BY <1>3, <1>7, <1>9, <1>10

(* Tables, rules and exceptions are those of the Session the record names.  *)
LEMMA InstallingKeepsInv ==
    ASSUME CnInv, UfwStaysOn, AddTable \/ AddChainAndRule \/ AddException \/ WriteApplied
    PROVE  CnInv'
<1> USE DEF CnInv, CnTypeCorrect, OffIsAllowed, JournalCoversHost, ExceptionsAreShown,
            RecordIsOurs, HandleKnowsException, RemovedInOrder, OnHost, Installing, Removing, host,
            RollBack, Proceed, bounds
<1>1. CASE AddTable
    <2>1. /\ pc = "table" /\ pc' \in {"rule", "remove"}
          /\ table' \in {table, table \cup {session}}
          /\ UNCHANGED <<journal, exception, manager, enabled, handle, session>>
        BY <1>1 DEF AddTable
    <2>2. session \in Tokens /\ journal.token = session /\ handle.token = session
        BY <2>1
    <2>3. CnTypeCorrect' /\ OffIsAllowed' /\ JournalCoversHost'
        BY <2>1, <2>2 DEF NoRecord, Tokens
    <2>4. ExceptionsAreShown' /\ RecordIsOurs' /\ HandleKnowsException' /\ RemovedInOrder'
        BY <2>1, <2>2
    <2>5. QED
        BY <2>3, <2>4
<1>2. CASE AddChainAndRule
    <2>1. /\ pc = "rule" /\ pc' \in {"applied", "exception", "remove"}
          /\ handle' \in [token : Nat, backend : Managers, firewall : BOOLEAN, zone : BOOLEAN]
          /\ handle'.token = handle.token /\ handle'.backend = handle.backend
          /\ pc' = "exception" => handle'.firewall
          /\ pc' # "exception" => handle' = handle
        BY <1>2 DEF AddChainAndRule
    <2>2. pc' = "exception" => handle.backend # "nftables"
        BY <1>2 DEF AddChainAndRule
    <2>3. UNCHANGED <<journal, table, exception, manager, enabled, session>>
        BY <1>2 DEF AddChainAndRule
    <2>4. CnTypeCorrect' /\ OffIsAllowed' /\ JournalCoversHost' /\ ExceptionsAreShown'
        BY <2>1, <2>3 DEF NoRecord, Tokens
    <2>5. RecordIsOurs' /\ HandleKnowsException' /\ RemovedInOrder'
        BY <2>1, <2>2, <2>3
    <2>6. QED
        BY <2>4, <2>5
<1>3. CASE AddException
    <2>1. exception' # exception => Managed
        BY <1>3 DEF AddException, Managed, Active, UfwStaysOn
    <2>2. Managed => enabled /\ manager # "nftables" /\ journal.backend = manager
        BY <1>3 DEF AddException, Managed, Active
    <2>3. \/ exception' = exception
          \/ exception' = [exception EXCEPT ![session] = NextExtent(exception[session])]
        BY <1>3 DEF AddException
    <2>4. NextExtent(exception[session]) \in {"absent", "created", "zoned", "complete"}
        BY DEF NextExtent
    <2>5. pc' \in {"applied", "exception", "remove"} /\ pc = "exception"
        BY <1>3 DEF AddException
    <2>6. UNCHANGED <<journal, table, manager, enabled, handle, session>>
        BY <1>3 DEF AddException
    <2>7. QED
        BY <2>1, <2>2, <2>3, <2>4, <2>5, <2>6
<1>4. CASE WriteApplied
    <2>1. \/ journal' = journal
          \/ journal' = [journal EXCEPT !.phase = "applied"]
        BY <1>4 DEF WriteApplied, Written, NotWritten
    <2>2. pc = "applied" /\ pc' \in {"active", "remove"}
        BY <1>4 DEF WriteApplied
    <2>3. journal' = NoRecord \/ journal'.token \in Tokens
        BY <2>1, <2>2 DEF NoRecord
    <2>4. QED
        BY <1>4, <2>1, <2>2, <2>3 DEF WriteApplied
<1>5. QED
    BY <1>1, <1>2, <1>3, <1>4

(* Removal: the record is marked before, and cleared after everything else. *)
LEMMA RemovalKeepsInv ==
    ASSUME CnInv, MarkRemoving \/ RemoveException \/ RemoveTable \/ ClearRecord
    PROVE  CnInv'
<1> USE DEF CnInv, CnTypeCorrect, OffIsAllowed, JournalCoversHost, ExceptionsAreShown,
            RecordIsOurs, HandleKnowsException, RemovedInOrder, OnHost, Installing, Removing, host,
            Proceed, bounds, GiveUpPass, LoseProof
<1>1. CASE MarkRemoving
    <2> DEFINE record == Record(handle.token, handle.backend, "removing")
    <2>1. /\ record \in [token : Nat, backend : Managers,
                         phase : {"none", "intent", "applied", "removing"}]
          /\ record.token = handle.token /\ record.backend = handle.backend
          /\ handle.token \in Tokens
        BY <1>1 DEF MarkRemoving, Record
    <2>2. /\ journal' # journal => journal' = record /\ OursOrEmpty
          /\ pc' = "exception_removal" => journal' = record
          /\ pc' \in {"exception_removal", "remove", "refused", "left"} /\ pc = "remove"
        BY <1>1 DEF MarkRemoving, Written, NotWritten
    <2>3. OursOrEmpty => \/ table = {} /\ \A t \in Tokens : exception[t] = "absent"
                         \/ journal.token = handle.token /\ journal.backend = handle.backend
        BY EmptyJournal DEF OursOrEmpty
    <2>4. UNCHANGED <<table, exception, manager, enabled, session, handle>>
        BY <1>1 DEF MarkRemoving
    <2> HIDE DEF record
    <2>5. QED
        BY <2>1, <2>2, <2>3, <2>4
<1>2. CASE RemoveException
    <2>1. exception' \in {exception, Gone}
        BY <1>2 DEF RemoveException
    <2>2. Gone = [exception EXCEPT ![handle.token] = "absent"] /\ handle.token \in Tokens
        BY <1>2 DEF Gone, RemoveException
    <2>3. pc' = "table_removal" => exception'[handle.token] = "absent"
        <3>1. ~(handle.firewall /\ Shown) => exception[handle.token] = "absent"
            BY <1>2 DEF RemoveException, Shown, Managed, Active
        <3>2. QED
            BY <1>2, <2>2, <3>1 DEF RemoveException
    <2>4. QED
        BY <1>2, <2>1, <2>2, <2>3 DEF RemoveException
<1>3. CASE RemoveTable
    BY <1>3 DEF RemoveTable
<1>4. CASE ClearRecord
    <2>1. table \subseteq {} /\ \A t \in Tokens : exception[t] = "absent"
        BY <1>4 DEF ClearRecord
    <2>2. QED
        BY <1>4, <2>1 DEF ClearRecord, NoRecord, Managers
<1>5. QED
    BY <1>1, <1>2, <1>3, <1>4

(* A manager that is switched off takes its exceptions with it.             *)
LEMMA SwitchKeepsInv ==
    ASSUME CnInv, UfwStaysOn, SwitchManager
    PROVE  CnInv'
<1>1. manager \in {"nftables", "firewalld"}
    BY ConnectivityAssumption DEF SwitchManager, UfwStaysOn, CnInv, CnTypeCorrect
<1>2. \A t \in Tokens : exception'[t] = "absent"
    BY <1>1 DEF SwitchManager, CnInv, CnTypeCorrect, ExceptionsAreShown
<1>3. exception' \in [Tokens -> {"absent", "created", "zoned", "complete"}]
    BY DEF SwitchManager, CnInv, CnTypeCorrect
<1>4. QED
    BY <1>2, <1>3 DEF SwitchManager, bounds, CnInv, CnTypeCorrect, OffIsAllowed,
       JournalCoversHost, ExceptionsAreShown, RecordIsOurs, HandleKnowsException,
       RemovedInOrder, OnHost, Installing, Removing

(* The invariant of the specification.                                      *)
LEMMA CnInvariant ==
    ASSUME UfwStaysOn
    PROVE  CnSpec => []CnInv
<1>1. CnInv /\ [CnNext]_cnVars => CnInv'
    <2> SUFFICES ASSUME CnInv, [CnNext]_cnVars PROVE CnInv'
        OBVIOUS
    <2>1. CASE UNCHANGED cnVars
        BY <2>1 DEF cnVars, CnInv, CnTypeCorrect, OffIsAllowed, JournalCoversHost,
           ExceptionsAreShown, RecordIsOurs, HandleKnowsException, RemovedInOrder, OnHost
    <2>2. CASE CnNext
        BY <2>2, PreflightKeepsInv, WriteIntentKeepsInv, InstallingKeepsInv, RemovalKeepsInv,
           SwitchKeepsInv DEF CnNext
    <2>3. QED
        BY <2>1, <2>2
<1>2. QED
    BY <1>1, CnInvInit, PTL DEF CnSpec

-----------------------------------------------------------------------------
(* Recovery evidence: whatever failed or crashed, and however often, what   *)
(* is on the host is named by the record on disk.                           *)
THEOREM JournalNamesWhatIsLeft ==
    ASSUME UfwStaysOn
    PROVE  CnSpec => []JournalCoversHost
<1>1. CnInv => JournalCoversHost
    BY DEF CnInv
<1>2. QED
    BY <1>1, CnInvariant, PTL

(* A Session installs nothing until what earlier ones left is gone.         *)
THEOREM RecoveryPrecedesUse ==
    ASSUME UfwStaysOn
    PROVE  CnSpec => []RecoveredBeforeUse
<1>1. CnInv => RecoveredBeforeUse
    BY DEF CnInv, RecordIsOurs, JournalCoversHost, RecoveredBeforeUse, Installing
<1>2. QED
    BY <1>1, CnInvariant, PTL

-----------------------------------------------------------------------------
(* Why preflight refuses.  While it reconciles, the record is the one its    *)
(* handle was rebuilt from; a pass of a Session's own cleanup never becomes  *)
(* a reconciliation.                                                         *)
ReconcilingItsRecord ==
    /\ purpose \in {Reconciling} \cup CleanupPasses
    /\ pc = "remove" /\ purpose = Reconciling => OursOrEmpty

RefusalInv == ReconcilingItsRecord /\ RecoveryIsPossibleWithoutPolicy

(* Only a pass of the removal, or a journal that cannot be read, refuses.   *)
LEMMA RefusalKeptOutsideRemoval ==
    ASSUME RefusalInv,
           \/ StartSession \/ ReconcilePendingState \/ WriteIntent \/ AddTable
           \/ AddChainAndRule \/ AddException \/ WriteApplied \/ EndSession
           \/ Exit \/ Crash \/ SwitchManager
    PROVE  RefusalInv'
<1> USE DEF RefusalInv, ReconcilingItsRecord, RecoveryIsPossibleWithoutPolicy,
            Reconciling, CleanupPasses, bounds, host
<1>1. CASE StartSession \/ EndSession
    BY <1>1 DEF StartSession, EndSession
<1>2. CASE ReconcilePendingState
    <2>1. CASE pc' = "configure" /\ UNCHANGED purpose
        BY <2>1
    <2>2. CASE handle' = RecoveredHandle(journal) /\ purpose' = Reconciling /\ pc' = "remove"
        <3>1. journal' = journal
            BY <1>2 DEF ReconcilePendingState
        <3>2. handle'.token = journal.token /\ handle'.backend = journal.backend
            BY <2>2 DEF RecoveredHandle
        <3>3. QED
            BY <2>2, <3>1, <3>2 DEF OursOrEmpty
    <2>3. CASE pc' = "refused" /\ Fails /\ UNCHANGED purpose
        BY <2>3 DEF Fails
    <2>4. QED
        BY <1>2, <2>1, <2>2, <2>3 DEF ReconcilePendingState
<1>3. CASE WriteIntent
    BY <1>3 DEF WriteIntent
<1>4. CASE AddTable \/ AddChainAndRule \/ AddException \/ WriteApplied
    <2>1. pc' # "refused" /\ (pc' = "remove" => purpose' = 1)
        BY <1>4 DEF AddTable, AddChainAndRule, AddException, WriteApplied, RollBack, Proceed
    <2>2. purpose' \in {purpose, 1}
        BY <1>4 DEF AddTable, AddChainAndRule, AddException, WriteApplied, RollBack, Proceed
    <2>3. QED
        BY <2>1, <2>2
<1>5. CASE Exit \/ Crash
    BY <1>5 DEF Exit, Crash, LeaveHost
<1>6. CASE SwitchManager
    BY <1>6 DEF SwitchManager, OursOrEmpty
<1>7. QED
    BY <1>1, <1>2, <1>3, <1>4, <1>5, <1>6

(* A removal of preflight gives up because a step failed, or because of a   *)
(* policy whose zone the record does not name.                              *)
LEMMA RefusalKeptByRemoval ==
    ASSUME RefusalInv, MarkRemoving \/ RemoveException \/ RemoveTable \/ ClearRecord
    PROVE  RefusalInv'
<1> USE DEF RefusalInv, ReconcilingItsRecord, RecoveryIsPossibleWithoutPolicy,
            Reconciling, CleanupPasses
<1> DEFINE Blamed == troubled' \/ handle'.backend = "firewalld"
<1>1. \/ pc' \notin {"remove", "refused"} /\ UNCHANGED purpose
      \/ GiveUpPass /\ Blamed
      \/ LoseProof /\ (Blamed \/ ~OursOrEmpty) /\ pc = "remove"
    <2>1. CASE MarkRemoving
        BY <2>1 DEF MarkRemoving, NotWritten, Proceed, Fails
    <2>2. CASE RemoveException
        <3>1. ~Recognised => handle'.backend = "firewalld"
            BY <2>2 DEF RemoveException, Recognised
        <3>2. Fails => troubled'
            BY DEF Fails
        <3>3. QED
            BY <2>2, <3>1, <3>2 DEF RemoveException, Proceed
    <2>3. CASE RemoveTable \/ ClearRecord
        BY <2>3 DEF RemoveTable, ClearRecord, Proceed, Fails
    <2>4. QED
        BY <2>1, <2>2, <2>3
<1>2. CASE pc' \notin {"remove", "refused"} /\ UNCHANGED purpose
    BY <1>2
<1>3. CASE GiveUpPass /\ Blamed
    BY <1>3 DEF GiveUpPass
<1>4. CASE LoseProof /\ (Blamed \/ ~OursOrEmpty) /\ pc = "remove"
    BY <1>4 DEF LoseProof
<1>5. QED
    BY <1>1, <1>2, <1>3, <1>4

(* What a dead helper left never makes preflight refuse the next Session:   *)
(* it refuses when a step of its own failed, or over a firewalld policy.    *)
THEOREM RefusalHasACause == CnSpec => []RecoveryIsPossibleWithoutPolicy
<1>1. CnInit => RefusalInv
    BY DEF CnInit, RefusalInv, ReconcilingItsRecord, RecoveryIsPossibleWithoutPolicy
<1>2. RefusalInv /\ [CnNext]_cnVars => RefusalInv'
    <2> SUFFICES ASSUME RefusalInv, [CnNext]_cnVars PROVE RefusalInv'
        OBVIOUS
    <2>1. CASE UNCHANGED cnVars
        BY <2>1 DEF cnVars, RefusalInv, ReconcilingItsRecord, OursOrEmpty,
           RecoveryIsPossibleWithoutPolicy
    <2>2. CASE CnNext
        BY <2>2, RefusalKeptOutsideRemoval, RefusalKeptByRemoval DEF CnNext
    <2>3. QED
        BY <2>1, <2>2
<1>3. RefusalInv => RecoveryIsPossibleWithoutPolicy
    BY DEF RefusalInv
<1>4. QED
    BY <1>1, <1>2, <1>3, PTL DEF CnSpec

-----------------------------------------------------------------------------
(* Part 2: Shaping, for any directions, settings and bounds: what is        *)
(* confirmed is in force, and neither a foreign qdisc nor a direction whose *)
(* state is unknown is touched.                                             *)

Known == Settings \cup {NotKnown}

ShTypeOK ==
    /\ at \in {"idle", "observe", "before", "run", "after", "roll_back"}
    /\ dir \in Dirs
    /\ requested \in Settings
    /\ command.op \in {"none", "add", "change", "del"}
    /\ owner \in [Dirs -> Known]
    /\ confirmed \in [Dirs -> Settings]
    /\ DOMAIN tc = Dirs
    /\ used \in [changes : Nat, intrusions : Nat, faults : Nat]

(* A program runs only inside a call, a call only inside a change, and a    *)
(* change only of a direction whose settings are known.                     *)
CommandsBelongToChanges ==
    /\ call \in {"idle", "running"}
    /\ program = "running" => call = "running"
    /\ call = "running" => at \in {"after", "roll_back"}
    /\ at # "idle" => owner[dir] # NotKnown

(* Helper and environment agree on the settings of every known direction.   *)
ConfirmedIsOwner == \A d \in Dirs : owner[d] # NotKnown => confirmed[d] = owner[d]

(* The qdisc is that of the settings wherever no command of this change may *)
(* have reached it.                                                         *)
SettledIsInForce == \A d \in Dirs :
    (at \in {"idle", "observe", "before", "run"} \/ d # dir) /\ owner[d] # NotKnown
        /\ d \notin intruded => tc[d] = owner[d]

ShInv == ShTypeOK /\ CommandsBelongToChanges /\ ConfirmedIsOwner /\ SettledIsInForce

-----------------------------------------------------------------------------
(* Both directions start without a limit, and nothing is asked for.         *)
LEMMA ShInvInit == ShInit => ShInv
<1> SUFFICES ASSUME ShInit PROVE ShInv
    OBVIOUS
<1>1. dir \in Dirs
    BY ShapingAssumption DEF ShInit
<1>2. QED
    BY <1>1, ShapingAssumption DEF ShInit, ShInv, ShTypeOK, CommandsBelongToChanges,
       ConfirmedIsOwner, SettledIsInForce, CommandInit, NoCommand, Known

(* What Answer leaves behind: the change is over, and no program runs.      *)
LEMMA AnswerEnds ==
    ASSUME ShInv, call = "idle", NEW v \in {"applied", "restored", "unknown"}, Answer(v)
    PROVE  /\ at' = "idle" /\ requested' = 0
           /\ call' = "idle" /\ program' # "running"
           /\ command'.op \in {"none", "add", "change", "del"}
           /\ owner' \in [Dirs -> Known] /\ confirmed' \in [Dirs -> Settings]
           /\ \A d \in Dirs \ {dir} : owner'[d] = owner[d] /\ confirmed'[d] = confirmed[d]
           /\ owner'[dir] # NotKnown => confirmed'[dir] = owner'[dir]
           /\ v = "applied" => owner'[dir] = requested
           /\ v = "restored" => owner'[dir] = owner[dir]
           /\ v = "unknown" => owner'[dir] = NotKnown
<1> USE DEF ShInv, ShTypeOK, CommandsBelongToChanges, ConfirmedIsOwner, Known
<1>1. at' = "idle" /\ requested' = 0 /\ call' = "idle"
    BY DEF Answer, Forget
<1>2. program' # "running" /\ command'.op \in {"none", "add", "change", "del"}
    BY DEF Answer, Forget, NoCommand
<1>3. CASE v = "applied"
    BY <1>1, <1>2, <1>3, ShapingAssumption DEF Answer
<1>4. CASE v = "restored"
    BY <1>1, <1>2, <1>4 DEF Answer
<1>5. CASE v = "unknown"
    BY <1>1, <1>2, <1>5 DEF Answer
<1>6. QED
    BY <1>3, <1>4, <1>5

(* The end of a change keeps the invariant when the qdisc is seen to be     *)
(* what the answer says, or has not been touched, or the answer is unknown. *)
LEMMA AnswerKeepsInv ==
    ASSUME ShInv, call = "idle", NEW v \in {"applied", "restored", "unknown"}, Answer(v),
           UNCHANGED <<dir, tc>>, used' \in [changes : Nat, intrusions : Nat, faults : Nat],
           \A d \in Dirs \ {dir} : d \in intruded <=> d \in intruded',
           v = "applied" => tc[dir] = requested,
           v = "restored" => dir \in intruded' \/ tc[dir] = owner[dir]
    PROVE  ShInv'
<1> USE AnswerEnds DEF ShInv, ShTypeOK
<1>1. ShTypeOK'
    BY ShapingAssumption
<1>2. CommandsBelongToChanges'
    BY DEF CommandsBelongToChanges
<1>3. ConfirmedIsOwner'
    BY DEF ConfirmedIsOwner
<1>4. SettledIsInForce'
    BY DEF SettledIsInForce
<1>5. QED
    BY <1>1, <1>2, <1>3, <1>4

(* Counting keeps the counters numbers.                                     *)
LEMMA UsedType ==
    ASSUME ShTypeOK,
           \/ Fault \/ QueryFails \/ UNCHANGED used
           \/ Use("changes", MaxChanges) \/ Use("intrusions", MaxIntrusions)
    PROVE  used' \in [changes : Nat, intrusions : Nat, faults : Nat]
BY DEF ShTypeOK, Fault, QueryFails, Use

(* A query that answers gives the qdisc that is there.                      *)
LEMMA InspectFacts ==
    ASSUME ShTypeOK, NEW seen, Inspect(seen)
    PROVE  /\ seen # NotKnown => seen = tc[dir]
           /\ used' \in [changes : Nat, intrusions : Nat, faults : Nat]
BY UsedType DEF Inspect

(* A command is started, or refused, and is one of ours.                    *)
LEMMA RunFacts ==
    ASSUME ShInv, NEW s, NEW existing, Run(OpTo(s, existing))
    PROVE  /\ call' \in {"idle", "running"} /\ program' # "running"
           /\ command'.op \in {"none", "add", "change", "del"}
           /\ used' \in [changes : Nat, intrusions : Nat, faults : Nat]
<1>1. OpTo(s, existing).op \in {"add", "change", "del"}
    BY DEF OpTo
<1>2. used' \in [changes : Nat, intrusions : Nat, faults : Nat]
    BY UsedType DEF Run, ShInv
<1>3. QED
    BY <1>1, <1>2 DEF Run, BeginCall, RefuseCall, ShInv, ShTypeOK, CommandsBelongToChanges

(* A command under way, or about to be, keeps what is known: of the         *)
(* direction being changed nothing is claimed until it is read again.       *)
LEMMA RunKeepsInv ==
    ASSUME ShInv, at # "idle", NEW s, NEW existing, Run(OpTo(s, existing)),
           NEW p \in {"after", "roll_back"}, Continue(p), UNCHANGED <<dir, tc, intruded>>
    PROVE  ShInv'
<1> USE RunFacts DEF ShInv, Continue
<1>1. ShTypeOK'
    BY DEF ShTypeOK
<1>2. CommandsBelongToChanges'
    BY DEF CommandsBelongToChanges
<1>3. ConfirmedIsOwner'
    BY DEF ConfirmedIsOwner
<1>4. SettledIsInForce'
    BY DEF SettledIsInForce
<1>5. QED
    BY <1>1, <1>2, <1>3, <1>4

-----------------------------------------------------------------------------
(* One lemma for each step of the transaction.                              *)
LEMMA AskKeepsInv ==
    ASSUME ShInv, NEW d \in Dirs, NEW s \in Settings, Ask(d, s)
    PROVE  ShInv'
<1>1. used' \in [changes : Nat, intrusions : Nat, faults : Nat]
    BY UsedType DEF Ask, ShInv
<1>2. QED
    BY <1>1 DEF Ask, ShInv, ShTypeOK, CommandsBelongToChanges, ConfirmedIsOwner,
       SettledIsInForce, commandVars

(* Nothing has been run: restored is true.                                  *)
LEMMA ObserveVethKeepsInv == ASSUME ShInv, ObserveVeth PROVE ShInv'
<1>1. call = "idle" /\ UNCHANGED <<dir, tc, intruded>>
    BY DEF ObserveVeth, ShInv, CommandsBelongToChanges, Rest
<1>2. dir \in intruded' \/ tc[dir] = owner[dir]
    BY <1>1 DEF ObserveVeth, ShInv, ShTypeOK, CommandsBelongToChanges, SettledIsInForce
<1>3. used' \in [changes : Nat, intrusions : Nat, faults : Nat]
    BY UsedType DEF ObserveVeth, ShInv
<1>4. CASE Answer("unknown") \/ Answer("restored")
    BY <1>1, <1>2, <1>3, <1>4, AnswerKeepsInv
<1>5. CASE Continue("before") /\ NothingRun
    BY <1>1, <1>3, <1>5 DEF ObserveVeth, Continue, NothingRun, commandVars, ShInv, ShTypeOK,
       CommandsBelongToChanges, ConfirmedIsOwner, SettledIsInForce
<1>6. QED
    BY <1>4, <1>5 DEF ObserveVeth

(* The qdisc that is seen to be right is right, whoever has been at it.     *)
LEMMA InspectBeforeKeepsInv == ASSUME ShInv, InspectBefore PROVE ShInv'
<1>1. call = "idle" /\ UNCHANGED <<dir, tc>> /\ at = "before" /\ owner[dir] # NotKnown
    BY DEF InspectBefore, ShInv, CommandsBelongToChanges, Rest
<1>2. PICK seen \in Settings \cup {Foreign, NotKnown} :
        /\ Inspect(seen)
        /\ IF seen = owner[dir] THEN Continue("run") /\ NothingRun /\ Seen
                                ELSE Answer("unknown") /\ Unseen
    BY DEF InspectBefore
<1>3. /\ seen # NotKnown => seen = tc[dir]
      /\ used' \in [changes : Nat, intrusions : Nat, faults : Nat]
    BY <1>2, InspectFacts DEF ShInv
<1>4. CASE seen = owner[dir]
    <2>1. tc[dir] = owner[dir] /\ Continue("run") /\ NothingRun /\ Seen
        BY <1>1, <1>2, <1>3, <1>4
    <2>2. QED
        BY <1>1, <1>3, <2>1 DEF Continue, NothingRun, Seen, commandVars, ShInv, ShTypeOK,
           CommandsBelongToChanges, ConfirmedIsOwner, SettledIsInForce
<1>5. CASE seen # owner[dir]
    BY <1>1, <1>2, <1>3, <1>5, AnswerKeepsInv DEF Unseen
<1>6. QED
    BY <1>4, <1>5

(* tc is run, or not found.                                                 *)
LEMMA RunRequestedKeepsInv == ASSUME ShInv, RunRequested PROVE ShInv'
<1>1. call = "idle" /\ UNCHANGED <<dir, tc, intruded>> /\ at = "run"
    BY DEF RunRequested, ShInv, CommandsBelongToChanges, Rest, Unseen
<1>2. dir \in intruded' \/ tc[dir] = owner[dir]
    BY <1>1 DEF ShInv, ShTypeOK, CommandsBelongToChanges, SettledIsInForce
<1>3. CASE Run(OpTo(requested, owner[dir])) /\ Continue("after")
    BY <1>1, <1>3, RunKeepsInv
<1>4. CASE Fault /\ Answer("restored")
    <2>1. used' \in [changes : Nat, intrusions : Nat, faults : Nat]
        BY <1>4, UsedType DEF ShInv
    <2>2. QED
        BY <1>1, <1>2, <1>4, <2>1, AnswerKeepsInv
<1>5. QED
    BY <1>3, <1>4 DEF RunRequested

(* Whatever the command did, the answer is what is seen.                    *)
LEMMA InspectAfterKeepsInv == ASSUME ShInv, InspectAfter PROVE ShInv'
<1>1. call = "idle" /\ UNCHANGED <<dir, tc>> /\ at = "after" /\ owner[dir] # NotKnown
    BY DEF InspectAfter, ShInv, CommandsBelongToChanges, Rest
<1>2. PICK seen \in Settings \cup {Foreign, NotKnown} :
         \/ /\ seen \in {requested, owner[dir]}
            /\ Inspect(seen)
            /\ Answer(IF seen = requested THEN "applied" ELSE "restored") /\ Seen
         \/ /\ seen \in {Foreign, NotKnown}
            /\ Inspect(seen)
            /\ Answer("unknown") /\ Unseen
         \/ /\ Run(OpTo(owner[dir], seen)) /\ Continue("roll_back") /\ Unseen
    BY DEF InspectAfter
<1>3. CASE /\ seen \in {requested, owner[dir]}
           /\ Inspect(seen)
           /\ Answer(IF seen = requested THEN "applied" ELSE "restored") /\ Seen
    <2>1. /\ seen = tc[dir]
          /\ used' \in [changes : Nat, intrusions : Nat, faults : Nat]
        BY <1>1, <1>3, InspectFacts, ShapingAssumption DEF ShInv, ShTypeOK
    <2>2. CASE seen = requested
        BY <1>1, <1>3, <2>1, <2>2, AnswerKeepsInv DEF Seen
    <2>3. CASE seen # requested
        BY <1>1, <1>3, <2>1, <2>3, AnswerKeepsInv DEF Seen
    <2>4. QED
        BY <2>2, <2>3
<1>4. CASE seen \in {Foreign, NotKnown} /\ Inspect(seen) /\ Answer("unknown") /\ Unseen
    BY <1>1, <1>4, InspectFacts, AnswerKeepsInv DEF Unseen, ShInv
<1>5. CASE Run(OpTo(owner[dir], seen)) /\ Continue("roll_back") /\ Unseen
    BY <1>1, <1>5, RunKeepsInv DEF Unseen
<1>6. QED
    BY <1>2, <1>3, <1>4, <1>5

(* The same after the rollback.                                             *)
LEMMA InspectRollbackKeepsInv == ASSUME ShInv, InspectRollback PROVE ShInv'
<1>1. call = "idle" /\ UNCHANGED <<dir, tc>> /\ at = "roll_back" /\ owner[dir] # NotKnown
    BY DEF InspectRollback, ShInv, CommandsBelongToChanges, Rest
<1>2. PICK seen \in Settings \cup {Foreign, NotKnown} :
         /\ Inspect(seen)
         /\ IF seen = owner[dir] THEN Answer("restored") /\ Seen
                                 ELSE Answer("unknown") /\ Unseen
    BY DEF InspectRollback
<1>3. /\ seen # NotKnown => seen = tc[dir]
      /\ used' \in [changes : Nat, intrusions : Nat, faults : Nat]
    BY <1>2, InspectFacts DEF ShInv
<1>4. CASE seen = owner[dir]
    BY <1>1, <1>2, <1>3, <1>4, AnswerKeepsInv DEF Seen
<1>5. CASE seen # owner[dir]
    BY <1>1, <1>2, <1>3, <1>5, AnswerKeepsInv DEF Unseen
<1>6. QED
    BY <1>4, <1>5

(* The command and the world: a qdisc changes under a command, of which     *)
(* nothing is claimed, or is marked as touched by others.                   *)
LEMMA WorldKeepsInv ==
    ASSUME ShInv, CommandStep \/ CommandReturns \/ CommandActs \/ Timeout \/ Intrusion
    PROVE  ShInv'
<1> USE DEF ShInv, ShTypeOK, CommandsBelongToChanges, ConfirmedIsOwner, SettledIsInForce
<1>1. CASE CommandStep
    BY <1>1 DEF CommandStep, Execute, ProgramEnds, shVars
<1>2. CASE CommandReturns
    BY <1>2 DEF CommandReturns, ReturnResult, Returnable, shVars
<1>3. CASE CommandActs
    BY <1>3 DEF CommandActs, commandVars
<1>4. CASE Timeout
    BY <1>4 DEF Timeout, commandVars
<1>5. CASE Intrusion
    <2>1. PICK d \in Dirs, q \in Netem \cup {0, Foreign} : Intrude(d, q)
        BY <1>5 DEF Intrusion
    <2>2. used' \in [changes : Nat, intrusions : Nat, faults : Nat]
        BY <2>1, UsedType DEF Intrude
    <2>3. QED
        BY <2>1, <2>2 DEF Intrude, commandVars
<1>6. QED
    BY <1>1, <1>2, <1>3, <1>4, <1>5

(* The invariant of the specification. *)
LEMMA ShInvariant == ShSpec => []ShInv
<1>1. ShInv /\ [ShNext]_vars => ShInv'
    <2> SUFFICES ASSUME ShInv, [ShNext]_vars PROVE ShInv'
        OBVIOUS
    <2>1. CASE Asks
        BY <2>1, AskKeepsInv DEF Asks
    <2>2. CASE Transaction
        BY <2>2, ObserveVethKeepsInv, InspectBeforeKeepsInv, RunRequestedKeepsInv,
           InspectAfterKeepsInv, InspectRollbackKeepsInv DEF Transaction
    <2>3. CASE CommandStep \/ CommandReturns \/ CommandActs \/ Timeout \/ Intrusion
        BY <2>3, WorldKeepsInv
    <2>4. CASE UNCHANGED vars
        BY <2>4 DEF vars, shVars, commandVars, ShInv, ShTypeOK, CommandsBelongToChanges,
           ConfirmedIsOwner, SettledIsInForce
    <2>5. QED
        BY <2>1, <2>2, <2>3, <2>4 DEF ShNext
<1>2. QED
    BY <1>1, ShInvInit, PTL DEF ShSpec

-----------------------------------------------------------------------------
(* The settings that the helper keeps and confirms to the Supervisor are    *)
(* those of the qdisc, whatever failed or was late, unless another          *)
(* administrator has been there.                                            *)
THEOREM ConfirmedSettingsAreInForce == ShSpec => []ConfirmedIsInForce
<1>1. ShInv => ConfirmedIsInForce
    BY DEF ShInv, ConfirmedIsOwner, SettledIsInForce, ConfirmedIsInForce
<1>2. QED
    BY <1>1, ShInvariant, PTL

(* Only a command of ours and another administrator change a qdisc, and a   *)
(* command of ours only that of the direction being changed.                *)
LEMMA WhoChangesQdiscs ==
    ASSUME ShInv, [ShNext]_vars
    PROVE  \/ UNCHANGED tc
           \/ CommandActs
           \/ used'.intrusions # used.intrusions
<1>1. CASE Intrusion
    <2>1. used.intrusions \in Nat /\ used \in [changes : Nat, intrusions : Nat, faults : Nat]
        BY DEF ShInv, ShTypeOK
    <2>2. used' = [used EXCEPT !["intrusions"] = @ + 1]
        BY <1>1 DEF Intrusion, Intrude, Use
    <2>3. QED
        BY <2>1, <2>2
<1>2. CASE Asks \/ Transaction
    BY <1>2 DEF Asks, Ask, Transaction, ObserveVeth, InspectBefore, RunRequested, InspectAfter,
       InspectRollback, Rest
<1>3. CASE CommandStep \/ CommandReturns \/ Timeout \/ UNCHANGED vars
    BY <1>3 DEF CommandStep, CommandReturns, Timeout, vars, shVars
<1>4. QED
    BY <1>1, <1>2, <1>3 DEF ShNext

(* A command names our handle, so that a foreign root qdisc is left alone   *)
(* even when it appears between the inspection and the command.             *)
THEOREM ForeignQdiscsAreLeftAlone == ShSpec => ForeignIsLeftAlone
<1> DEFINE OnlyByOthers == \A d \in Dirs :
               tc[d] = Foreign /\ tc'[d] # Foreign => used'.intrusions # used.intrusions
<1>1. ShInv /\ [ShNext]_vars => [OnlyByOthers]_vars
    <2> SUFFICES ASSUME ShInv, [ShNext]_vars, NEW d \in Dirs, tc[d] = Foreign, tc'[d] # Foreign
                 PROVE  used'.intrusions # used.intrusions
        OBVIOUS
    <2>1. Foreign \notin Netem /\ Foreign # 0
        BY ShapingAssumption DEF Netem
    <2>2. CASE CommandActs
        <3>1. command.op \in {"none", "add", "change", "del"}
            BY DEF ShInv, ShTypeOK
        <3>2. Kernel(command, Foreign) = Foreign
            BY <2>1, <3>1 DEF Kernel
        <3>3. tc' = [tc EXCEPT ![dir] = Kernel(command, @)]
            BY <2>2 DEF CommandActs
        <3>4. QED
            BY <3>2, <3>3 DEF ShInv, ShTypeOK
    <2>3. QED
        BY <2>2, WhoChangesQdiscs
<1>2. QED
    BY <1>1, ShInvariant, PTL DEF ShSpec, ForeignIsLeftAlone

(* A direction that has been given up is given up: no change is begun, and  *)
(* no command of an earlier one is still about.                             *)
THEOREM UnknownDirectionsAreLeftAlone == ShSpec => UnknownIsLeftAlone
<1> DEFINE OnlyByOthers == \A d \in Dirs :
               owner[d] = NotKnown /\ tc'[d] # tc[d] => used'.intrusions # used.intrusions
<1>1. ShInv /\ [ShNext]_vars => [OnlyByOthers]_vars
    <2> SUFFICES ASSUME ShInv, [ShNext]_vars, NEW d \in Dirs, owner[d] = NotKnown,
                        tc'[d] # tc[d]
                 PROVE  used'.intrusions # used.intrusions
        OBVIOUS
    <2>1. CASE CommandActs
        BY <2>1 DEF CommandActs, ShInv, ShTypeOK, CommandsBelongToChanges
    <2>2. QED
        BY <2>1, WhoChangesQdiscs
<1>2. QED
    BY <1>1, ShInvariant, PTL DEF ShSpec, UnknownIsLeftAlone
=============================================================================
