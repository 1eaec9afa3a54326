------------------------- MODULE NetworkEnvironment -------------------------
(* The ownership transaction of one Session's Network Environment: the helper *)
(* creates the namespace "netlaglab" and the veth pair nll-host/nll-app, moves*)
(* one end, configures both and installs the host connectivity; a failure     *)
(* rolls the proven prefix back, the end of the Session cleans all of it up.  *)
(* An ownership proof is the identity the kernel gave the object; another     *)
(* administrator (the rival) may remove objects and create others of the same *)
(* names.  A command and the queries that reconcile its result are one step.  *)
EXTENDS Integers

CONSTANTS
    MaxFaults,       \* bound: failing commands, failing queries, late deadlines
    MaxRival,        \* bound: interventions of the rival
    Preemptions      \* whether the rival may act while the transaction sets up

Absent == 0
Elsewhere == -1     \* home of a pair with an end in neither of the two namespaces
HostEnds == 0       \* home of a pair with both ends in the host namespace
NoPair == [id |-> Absent, home |-> HostEnds]
MaxObjects == MaxRival + 2
Ids == 1..MaxObjects

NoRoot == [state |-> "none", id |-> Absent]
Unconfirmed == [state |-> "unconfirmed", id |-> Absent]
Proof(state, id) == [state |-> state, id |-> id]

VARIABLES
    ns,            \* identity behind the name netlaglab, or Absent
    pair,          \* identity behind nll-host/nll-app and where nll-app is
    connectivity,  \* whether a NAT table or a firewall exception is installed
    made,          \* objects created so far, by anybody
    mine,          \* those the helper's own commands created
    lost,          \* kernel namespaces a descendant of the Workload keeps alive
    namespace_root, veth_root, connectivity_root,   \* OwnerState
    pc,
    pass,          \* cleanup pass: 1 explicit, 2 retry, 3 destructor
    late,          \* the deadline of the running transaction has passed
    failed,        \* failures the explicit pass reported
    report,        \* what the helper tells the Supervisor
    faults, rivals,
    preempts       \* whether the rival may act during set-up, see SettingUp

kernel == <<ns, pair, connectivity, made, mine, lost>>
roots == <<namespace_root, veth_root, connectivity_root>>
neVars == <<ns, pair, connectivity, made, mine, lost, namespace_root, veth_root,
            connectivity_root, pc, pass, late, failed, report, faults, rivals, preempts>>

NeInit ==
    /\ ns = Absent
    /\ pair = NoPair
    /\ connectivity = FALSE
    /\ made = 0
    /\ mine = {}
    /\ lost \in BOOLEAN
    /\ namespace_root = NoRoot
    /\ veth_root = NoRoot
    /\ connectivity_root = NoRoot
    /\ pc = "preflight"
    /\ pass = 0
    /\ late = FALSE
    /\ failed = FALSE
    /\ report = "none"
    /\ faults = 0
    /\ rivals = 0
    /\ preempts \in Preemptions

Fails == faults < MaxFaults /\ faults' = faults + 1
Works == UNCHANGED faults

-----------------------------------------------------------------------------
(* prepare_network_environment.                                               *)

\* Any failure, an expired setup deadline among them: cleanup_state of what is
\* proven so far.
PreparationFailure == pc' = "cleanup" /\ pass' = 1
Continue(next) == pc' = next /\ UNCHANGED pass

Preflight ==
    /\ pc = "preflight"
    /\ \/ ns = Absent /\ pair = NoPair /\ Works /\ Continue("namespace")
       \/ (ns # Absent \/ pair # NoPair) /\ Works /\ PreparationFailure
       \/ Fails /\ PreparationFailure
    /\ UNCHANGED <<kernel, roots, late, failed, report, rivals>>

\* What the command leaves behind: it creates only under a free name.
Created(next) == mine' = mine \cup {next} /\ made' = next
NotCreated == UNCHANGED <<mine, made>>

\* Fault: a failed query is taken for absence.
TrustedObservations(o) == {o} \cup IF faults' > faults THEN {NoRoot} ELSE {}

\* The query after the command may fail too: present but unidentified.
Observations(o) == {o} \cup IF faults' > faults THEN {Unconfirmed} ELSE {}

ObservedNs(seen) == IF seen = Absent THEN NoRoot ELSE Proof("proven", seen)

create_namespace ==
    /\ pc = "namespace"
    /\ \/ /\ ns = Absent /\ Works /\ Created(made + 1)
          /\ ns' = made + 1
          /\ namespace_root' = ObservedNs(ns')
          /\ Continue("veth")
       \/ /\ \/ ns = Absent /\ Fails
                /\ \/ Created(made + 1) /\ ns' = made + 1
                   \/ NotCreated /\ UNCHANGED ns
             \/ ns # Absent /\ Works /\ NotCreated /\ UNCHANGED ns
          /\ namespace_root' \in Observations(ObservedNs(ns'))
          /\ PreparationFailure
    /\ UNCHANGED <<pair, connectivity, lost, veth_root, connectivity_root,
                   late, failed, report, rivals>>

\* Only a complete pair in the host namespace proves anything.
ObservedHostPair(seen) ==
    IF seen = NoPair THEN NoRoot
    ELSE IF seen.home = HostEnds THEN Proof("host", seen.id)
    ELSE Unconfirmed

create_veth ==
    /\ pc = "veth"
    /\ LET fresh == [id |-> made + 1, home |-> HostEnds] IN
       \/ /\ pair = NoPair /\ Works /\ Created(made + 1)
          /\ pair' = fresh
          /\ veth_root' = ObservedHostPair(pair')
          /\ Continue("move")
       \/ /\ \/ pair = NoPair /\ Fails
                /\ \/ Created(made + 1) /\ pair' = fresh
                   \/ NotCreated /\ UNCHANGED pair
             \/ pair # NoPair /\ Works /\ NotCreated /\ UNCHANGED pair
          /\ veth_root' \in Observations(ObservedHostPair(pair'))
          /\ PreparationFailure
    /\ UNCHANGED <<ns, connectivity, lost, namespace_root, connectivity_root,
                   late, failed, report, rivals>>

\* Where the pair is found decides the proof: placed in the exact namespace
\* (its identities are taken as observed), still in the host with the identity
\* proven before, gone, or unconfirmed.
ObservedMove(seen) ==
    IF seen = NoPair THEN NoRoot
    ELSE IF seen.home = namespace_root.id THEN Proof("placed", seen.id)
    ELSE IF seen.home = HostEnds /\ seen.id = veth_root.id THEN veth_root
    ELSE Unconfirmed

\* The command names nll-app, whichever pair that is now.
MoveEffect == IF pair.id # Absent /\ pair.home = HostEnds
              THEN [pair EXCEPT !.home = namespace_root.id] ELSE pair

move_peer ==
    /\ pc = "move"
    /\ \/ Works /\ pair' = MoveEffect /\ veth_root' = ObservedMove(pair')
       \/ Fails /\ pair' \in {pair, MoveEffect}
          /\ veth_root' \in {ObservedMove(pair'), Unconfirmed}
    /\ IF faults' = faults /\ pair' # pair THEN Continue("configure") ELSE PreparationFailure
    /\ UNCHANGED <<ns, connectivity, made, mine, lost, namespace_root, connectivity_root,
                   late, failed, report, rivals>>

\* Addresses, links and the route: contained in what is proven already.
configure ==
    /\ pc = "configure"
    /\ \/ Works /\ Continue("connectivity")
       \/ Fails /\ PreparationFailure
    /\ UNCHANGED <<kernel, roots, late, failed, report, rivals>>

\* Module Connectivity has the detail; here: a proof as soon as anything may be
\* installed, and nothing but a journal record (kept for later) without one.
configure_connectivity ==
    /\ pc = "connectivity"
    /\ \/ Works /\ Continue("prepared") /\ connectivity' = TRUE
          /\ connectivity_root' = Proof("proven", Absent)
       \/ Fails /\ PreparationFailure
          /\ \/ connectivity' \in BOOLEAN /\ connectivity_root' = Proof("proven", Absent)
             \/ UNCHANGED <<connectivity, connectivity_root>>
    /\ UNCHANGED <<ns, pair, made, mine, lost, namespace_root, veth_root,
                   late, failed, report, rivals>>

EndOfSession ==
    /\ pc = "prepared"
    /\ PreparationFailure
    /\ UNCHANGED <<kernel, roots, late, failed, report, faults, rivals>>

-----------------------------------------------------------------------------
(* cleanup_state: connectivity, pair, namespace, and the pair once more when  *)
(* the namespace went.  Each step is skipped without a proof or when late.    *)

Failure == failed' = (failed \/ pass = 1)
NoFailure == UNCHANGED failed
\* Fault: unconfirmed state as well.
AnythingDeletable(root) == root # NoRoot

Deletable(root) == root.state \in {"proven", "host", "placed"}

BeginPass ==
    /\ pc = "cleanup"
    /\ late' = FALSE
    /\ IF Unconfirmed \in {namespace_root, veth_root, connectivity_root}
       THEN Failure ELSE NoFailure      \* began_with_unconfirmed
    /\ Continue("remove_connectivity")
    /\ UNCHANGED <<kernel, roots, report, faults, rivals>>

DeadlinePasses ==
    /\ pc \in {"remove_connectivity", "remove_veth", "remove_namespace", "recheck_veth"}
    /\ ~late
    /\ Fails
    /\ late' = TRUE
    /\ UNCHANGED <<kernel, roots, pc, pass, failed, report, rivals>>

\* The step that removal of a root takes when there is nothing it may touch.
Skip(root) ==
    /\ ~Deletable(root) \/ late
    /\ Works
    /\ IF Deletable(root) THEN Failure ELSE NoFailure

remove_connectivity ==
    /\ pc = "remove_connectivity"
    /\ \/ Skip(connectivity_root) /\ UNCHANGED <<connectivity, connectivity_root>>
       \/ /\ Deletable(connectivity_root) /\ ~late
          /\ \/ Works /\ NoFailure /\ connectivity' = FALSE /\ connectivity_root' = NoRoot
             \/ Fails /\ Failure /\ connectivity' \in {connectivity, FALSE}
                /\ connectivity_root' \in {connectivity_root, Unconfirmed}
    /\ Continue("remove_veth")
    /\ UNCHANGED <<ns, pair, made, mine, lost, namespace_root, veth_root,
                   late, report, rivals>>

\* observe_veth: a placed pair is looked for in the proven namespace; without
\* that proof only the absence of both host names can be told.
Located == CASE veth_root.state = "host" -> pair.home = HostEnds
             [] OTHER -> namespace_root.state = "proven" /\ pair.home = namespace_root.id
\* Fault: identities are not compared.
MatchesName == pair # NoPair /\ Located

MatchesProof == pair # NoPair /\ Located /\ pair.id = veth_root.id

remove_proven_veth ==
    \/ pair = NoPair /\ Works /\ NoFailure /\ veth_root' = NoRoot /\ UNCHANGED pair
    \/ MatchesProof /\ Works /\ NoFailure /\ veth_root' = NoRoot /\ pair' = NoPair
    \/ /\ pair # NoPair /\ ~MatchesProof
       /\ Works /\ Failure /\ veth_root' = Unconfirmed /\ UNCHANGED pair
    \/ /\ Fails   \* a query fails, or the deletion does and its result is observed
       /\ \/ Failure /\ veth_root' = Unconfirmed
             /\ pair' \in {pair, IF MatchesProof THEN NoPair ELSE pair}
          \/ MatchesProof /\ Failure /\ UNCHANGED <<pair, veth_root>>
          \/ MatchesProof /\ NoFailure /\ pair' = NoPair /\ veth_root' = NoRoot

remove_veth ==
    /\ pc = "remove_veth"
    /\ \/ Skip(veth_root) /\ UNCHANGED <<pair, veth_root>>
       \/ Deletable(veth_root) /\ ~late /\ remove_proven_veth
    /\ Continue("remove_namespace")
    /\ UNCHANGED <<ns, connectivity, made, mine, lost, namespace_root, connectivity_root,
                   late, report, rivals>>

\* The name goes; the proof, and with it the descriptor, only on success or
\* when identity is lost.
remove_namespace ==
    /\ pc = "remove_namespace"
    /\ \/ Skip(namespace_root) /\ UNCHANGED <<ns, namespace_root>> /\ Continue("pass_end")
       \/ /\ Deletable(namespace_root) /\ ~late
          /\ \/ /\ ns \in {Absent, namespace_root.id} /\ Works /\ NoFailure
                /\ ns' = Absent /\ namespace_root' = NoRoot
             \/ /\ ns \notin {Absent, namespace_root.id} /\ Works /\ Failure
                /\ namespace_root' = Unconfirmed /\ UNCHANGED ns
             \/ /\ Fails /\ Failure
                /\ \/ namespace_root' = Unconfirmed
                      /\ ns' \in {ns, IF ns = namespace_root.id THEN Absent ELSE ns}
                   \/ ns = namespace_root.id /\ UNCHANGED <<ns, namespace_root>>
             \/ /\ ns = namespace_root.id /\ Fails /\ NoFailure
                /\ ns' = Absent /\ namespace_root' = NoRoot
          /\ Continue(IF namespace_root' = NoRoot /\ Deletable(veth_root)
                      THEN "recheck_veth" ELSE "pass_end")
    /\ UNCHANGED <<pair, connectivity, made, mine, lost, veth_root, connectivity_root,
                   late, report, rivals>>

recheck_veth ==
    /\ pc = "recheck_veth"
    /\ \/ Skip(veth_root) /\ UNCHANGED <<pair, veth_root>>
       \/ Deletable(veth_root) /\ ~late /\ remove_proven_veth
    /\ Continue("pass_end")
    /\ UNCHANGED <<ns, connectivity, made, mine, lost, namespace_root, connectivity_root,
                   late, report, rivals>>

has_residual == {namespace_root, veth_root, connectivity_root} # {NoRoot}

\* cleanup_prepared and cleanup_failed_preparation: one retry of a residual,
\* then its destructor; only a first pass without failure or residual succeeds.
EndPass ==
    /\ pc = "pass_end"
    /\ failed' = (failed \/ has_residual)
    /\ IF has_residual /\ pass < 3
       THEN pc' = "cleanup" /\ pass' = pass + 1 /\ UNCHANGED report
       ELSE /\ pc' = "reported"
            /\ report' = IF failed' THEN "cleanup_failed" ELSE "cleanup_succeeded"
            /\ UNCHANGED pass
    /\ UNCHANGED <<kernel, roots, late, faults, rivals>>

HelperStep ==
    \/ Preflight \/ create_namespace \/ create_veth \/ move_peer \/ configure
    \/ configure_connectivity \/ EndOfSession
    \/ BeginPass \/ remove_connectivity \/ remove_veth \/ remove_namespace
    \/ recheck_veth \/ EndPass

-----------------------------------------------------------------------------
(* The kernel and the rival.                                                  *)

\* A namespace without name and descriptor goes, and the pair in it, unless a
\* descendant of the Workload stays in it.
KernelReapsNamespace ==
    /\ pair.home \in Ids
    /\ ns # pair.home
    /\ namespace_root.id # pair.home
    /\ ~lost
    /\ pair' = NoPair
    /\ UNCHANGED <<ns, connectivity, made, mine, lost, roots, pc, pass, late, failed,
                   report, faults, rivals>>

SettingUp == pc \in {"namespace", "veth", "move"}

RivalNamespace ==
    \/ ns = Absent /\ ns' = made + 1 /\ made' = made + 1
    \/ ns # Absent /\ ns' = Absent /\ UNCHANGED made

RivalPair ==
    \/ pair = NoPair /\ made' = made + 1
       /\ \E home \in {HostEnds, Elsewhere} : pair' = [id |-> made + 1, home |-> home]
    \/ pair # NoPair /\ pair' = NoPair /\ UNCHANGED made

RivalStep ==
    /\ rivals < MaxRival
    /\ SettingUp => preempts
    /\ rivals' = rivals + 1
    /\ \/ RivalNamespace /\ UNCHANGED pair
       \/ RivalPair /\ UNCHANGED ns
    /\ UNCHANGED <<connectivity, mine, lost, roots, pc, pass, late, failed, report, faults>>

NeNext ==
    /\ HelperStep \/ DeadlinePasses \/ KernelReapsNamespace \/ RivalStep
    /\ UNCHANGED preempts

NeSpec == NeInit /\ [][NeNext]_neVars

-----------------------------------------------------------------------------
\* A helper that reports its cleanup as successful left no object of its own on
\* the host, whatever failed or was replaced on the way (cleanup_state,
\* cleanup_prepared, cleanup_failed_preparation).
CleanReportMeansClean ==
    report = "cleanup_succeeded" =>
        /\ ns \notin mine
        /\ pair.id \notin mine
        /\ ~connectivity

RemovesOwn == /\ ns' # ns /\ ns # Absent => ns \in mine
              /\ pair' = NoPair /\ pair # NoPair => pair.id \in mine

\* The helper removes only objects its own commands created: another
\* administrator's namespace or pair of the same name is left untouched,
\* provided that nobody takes the names between the preflight that found them
\* free and the commands that create under them.  (An object that appears there
\* is proven by the query after the failed creation, and rolled back.)
OnlyOwnObjectsRemovedAfterSetup == [][HelperStep /\ ~preempts => RemovesOwn]_neVars

\* Identity-unconfirmed state never regains deletion authority and never
\* disappears from the books: the root stays unconfirmed to the end, and the
\* end is not a success.
UnconfirmedIsFinal ==
    [][/\ namespace_root = Unconfirmed => namespace_root' = Unconfirmed
       /\ veth_root = Unconfirmed => veth_root' = Unconfirmed
       /\ connectivity_root = Unconfirmed => connectivity_root' = Unconfirmed
       /\ report' = "cleanup_succeeded" =>
             Unconfirmed \notin {namespace_root, veth_root, connectivity_root}]_neVars
=============================================================================
