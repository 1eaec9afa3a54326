---------------------- MODULE NetworkEnvironmentProofs ----------------------
(***************************************************************************)
(* Theorems about NetworkEnvironment, for any number of failures, late     *)
(* deadlines and acts of the rival: a report of success is true, what is   *)
(* unconfirmed stays so, and once set up only own objects are removed.     *)
(***************************************************************************)
EXTENDS NetworkEnvironment, TLAPS

States == {"none", "proven", "host", "placed", "unconfirmed"}
Roots == [state : States, id : Nat]

NeTypeCorrect ==
    /\ made \in Nat /\ mine \subseteq 1 .. made
    /\ ns \in Nat /\ ns <= made
    /\ pair \in [id : Nat, home : Int] /\ pair.id <= made
    /\ pair.id = Absent => pair = NoPair
    /\ namespace_root \in Roots /\ veth_root \in Roots /\ connectivity_root \in Roots
    /\ connectivity \in BOOLEAN /\ failed \in BOOLEAN

(* Roots come to exist in the order of the set-up.                          *)
RootsInOrder ==
    /\ pc \in {"preflight", "namespace"} => namespace_root = NoRoot
    /\ pc \in {"preflight", "namespace", "veth"} => veth_root = NoRoot
    /\ pc = "move" => veth_root.state = "host"
    /\ pc \in {"preflight", "namespace", "veth", "move", "configure", "connectivity"} =>
           connectivity_root = NoRoot

(* An object of ours, or an installed exception, has a root.                *)
OwnObjectsHaveRoots ==
    /\ ns \in mine => namespace_root # NoRoot
    /\ pair.id \in mine => veth_root # NoRoot
    /\ connectivity => connectivity_root # NoRoot

(* Success is reported when every root is gone, and nothing follows it.     *)
SuccessIsLast ==
    /\ report # "none" => pc = "reported"
    /\ report = "cleanup_succeeded" =>
           namespace_root = NoRoot /\ veth_root = NoRoot /\ connectivity_root = NoRoot

(* Where nobody interferes with the set-up, what a root proves is ours.     *)
ProofsAreOwn ==
    ~preempts =>
        /\ pc = "namespace" => ns = Absent
        /\ pc \in {"namespace", "veth"} => pair = NoPair
        /\ pc = "move" => pair = NoPair \/ pair.id \in mine
        /\ Deletable(namespace_root) => namespace_root.id \in mine
        /\ Deletable(veth_root) => veth_root.id \in mine

NeInv ==
    /\ NeTypeCorrect /\ RootsInOrder /\ OwnObjectsHaveRoots /\ SuccessIsLast /\ ProofsAreOwn

-----------------------------------------------------------------------------
(* Nothing is made, and nothing is proven.                                  *)
LEMMA NeInvInit == NeInit => NeInv
<1> SUFFICES ASSUME NeInit PROVE NeInv
    OBVIOUS
<1>1. NoRoot \in Roots /\ ~Deletable(NoRoot)
    BY DEF NoRoot, Roots, States, Deletable, Absent
<1>2. NoPair \in [id : Nat, home : Int] /\ NoPair.id = 0
    BY DEF NoPair, Absent, HostEnds
<1>3. NeTypeCorrect
    <2>1. made \in Nat /\ mine \subseteq 1 .. made /\ ns \in Nat /\ ns <= made
        BY DEF NeInit, Absent
    <2>2. pair \in [id : Nat, home : Int] /\ pair.id <= made /\ (pair.id = Absent => pair = NoPair)
        BY <1>2 DEF NeInit
    <2>3. QED
        BY <1>1, <2>1, <2>2 DEF NeInit, NeTypeCorrect
<1>4. RootsInOrder /\ OwnObjectsHaveRoots /\ SuccessIsLast /\ ProofsAreOwn
    BY <1>1, <1>2 DEF NeInit, RootsInOrder, OwnObjectsHaveRoots, SuccessIsLast, ProofsAreOwn
<1>5. QED
    BY <1>3, <1>4 DEF NeInv

(* Proofs are roots, of a state other than none.                            *)
LEMMA RootsOfProofs ==
    /\ NoRoot \in Roots /\ Unconfirmed \in Roots /\ NoRoot # Unconfirmed
    /\ ~Deletable(NoRoot) /\ ~Deletable(Unconfirmed)
    /\ \A s \in {"proven", "host", "placed"}, i \in Nat :
           /\ Proof(s, i) \in Roots /\ Proof(s, i) # NoRoot /\ Proof(s, i) # Unconfirmed
           /\ Proof(s, i).state = s /\ Proof(s, i).id = i
BY DEF NoRoot, Unconfirmed, Roots, States, Absent, Deletable, Proof

LEMMA PreflightKeepsInv ==
    ASSUME NeInv, Preflight \/ configure \/ EndOfSession, UNCHANGED preempts
    PROVE  NeInv'
<1> USE DEF NeInv, NeTypeCorrect, RootsInOrder, OwnObjectsHaveRoots, SuccessIsLast,
            ProofsAreOwn, Deletable, kernel, roots, PreparationFailure, Continue
<1>1. CASE Preflight
    BY <1>1 DEF Preflight
<1>2. CASE configure
    BY <1>2 DEF configure
<1>3. CASE EndOfSession
    BY <1>3 DEF EndOfSession
<1>4. QED
    BY <1>1, <1>2, <1>3

(* Identities are never used again.                                         *)
LEMMA MadeGrows ==
    ASSUME made \in Nat, mine \subseteq 1 .. made, Created(made + 1) \/ NotCreated
    PROVE  made' \in Nat /\ mine' \subseteq 1 .. made' /\ made <= made'
<1>1. CASE Created(made + 1)
    BY <1>1 DEF Created
<1>2. CASE NotCreated
    BY <1>2 DEF NotCreated
<1>3. QED
    BY <1>1, <1>2

(* A namespace is proven under the identity that the query finds.           *)
LEMMA CreateNamespaceKeepsInv ==
    ASSUME NeInv, create_namespace, UNCHANGED preempts
    PROVE  NeInv'
<1> USE DEF NeInv, NeTypeCorrect
<1>1. /\ \/ Created(made + 1) /\ ns' = made + 1 /\ ns = Absent
         \/ NotCreated /\ ns' = ns /\ (ns # Absent \/ pc' = "cleanup")
      /\ namespace_root' \in {ObservedNs(ns'), Unconfirmed}
      /\ pc = "namespace" /\ pc' \in {"veth", "cleanup"}
      /\ UNCHANGED <<pair, connectivity, veth_root, connectivity_root, failed, report>>
    BY DEF create_namespace, Observations, Continue, PreparationFailure
<1>2. /\ made' \in Nat /\ mine' \subseteq 1 .. made' /\ made <= made'
      /\ ns' \in Nat /\ ns' <= made'
    BY <1>1, MadeGrows DEF Created, NotCreated
<1>3. ObservedNs(ns') \in Roots /\ (ObservedNs(ns') = NoRoot <=> ns' = Absent)
    BY <1>2, RootsOfProofs DEF ObservedNs
<1>4. Deletable(namespace_root') => namespace_root'.id = ns' /\ ns' # Absent
    BY <1>1, <1>2, RootsOfProofs DEF ObservedNs
<1>5. NeTypeCorrect'
    BY <1>1, <1>2, <1>3, RootsOfProofs DEF NoPair
<1>6. RootsInOrder' /\ SuccessIsLast'
    BY <1>1 DEF RootsInOrder, SuccessIsLast
<1>7. OwnObjectsHaveRoots'
    <2>1. Absent \notin mine' /\ (pair.id \in mine' => pair.id \in mine)
        BY <1>1, <1>2 DEF Created, NotCreated, Absent
    <2>2. QED
        BY <1>1, <1>3, <2>1, RootsOfProofs DEF OwnObjectsHaveRoots
<1>8. ProofsAreOwn'
    BY <1>1, <1>4, RootsOfProofs DEF ProofsAreOwn, RootsInOrder, Created, NotCreated
<1>9. QED
    BY <1>5, <1>6, <1>7, <1>8

(* So is a pair, as long as both of its ends are in the host namespace.     *)
LEMMA CreateVethKeepsInv ==
    ASSUME NeInv, create_veth, UNCHANGED preempts
    PROVE  NeInv'
<1> USE DEF NeInv, NeTypeCorrect
<1> DEFINE fresh == [id |-> made + 1, home |-> HostEnds]
<1>1. /\ \/ Created(made + 1) /\ pair' = fresh /\ pair = NoPair
         \/ NotCreated /\ pair' = pair /\ (pair # NoPair \/ pc' = "cleanup")
      /\ veth_root' \in {ObservedHostPair(pair'), Unconfirmed}
      /\ pc = "veth" /\ pc' \in {"move", "cleanup"}
      /\ pc' = "move" => pair' = fresh /\ veth_root' = ObservedHostPair(pair')
      /\ UNCHANGED <<ns, connectivity, namespace_root, connectivity_root, failed, report>>
    BY DEF create_veth, Observations, Continue, PreparationFailure
<1>2. /\ made' \in Nat /\ mine' \subseteq 1 .. made' /\ made <= made'
      /\ pair' \in [id : Nat, home : Int] /\ pair'.id <= made'
      /\ pair'.id = Absent => pair' = NoPair
    <2>1. fresh \in [id : Nat, home : Int] /\ fresh.id = made + 1
        BY DEF HostEnds
    <2>2. CASE Created(made + 1) /\ pair' = fresh
        BY <2>1, <2>2, MadeGrows DEF Created, Absent
    <2>3. CASE NotCreated /\ pair' = pair
        BY <2>3, MadeGrows DEF NotCreated
    <2>4. QED
        BY <1>1, <2>2, <2>3
<1>3. /\ ObservedHostPair(pair') \in Roots
      /\ ObservedHostPair(pair') = NoRoot <=> pair' = NoPair
      /\ Deletable(ObservedHostPair(pair')) =>
             pair' # NoPair /\ ObservedHostPair(pair').id = pair'.id
    BY <1>2, RootsOfProofs DEF ObservedHostPair
<1>4. pc' = "move" => veth_root'.state = "host" /\ pair'.id \in mine'
    <2>1. fresh.home = HostEnds /\ fresh.id # 0 /\ fresh # NoPair
        BY DEF NoPair, Absent
    <2>2. CASE pc' = "move"
        BY <1>1, <1>2, <2>1, <2>2, RootsOfProofs DEF ObservedHostPair, Created, NotCreated,
           NoPair, Absent
    <2>3. QED
        BY <2>2
<1>5. NeTypeCorrect'
    BY <1>1, <1>2, <1>3, RootsOfProofs
<1>6. RootsInOrder' /\ SuccessIsLast'
    BY <1>1, <1>4 DEF RootsInOrder, SuccessIsLast
<1>7. OwnObjectsHaveRoots'
    <2>1. NoPair.id \notin mine' /\ (ns \in mine' => ns \in mine)
        BY <1>1, <1>2 DEF Created, NotCreated, Absent, NoPair
    <2>2. QED
        BY <1>1, <1>3, <2>1, RootsOfProofs DEF OwnObjectsHaveRoots
<1>8. ProofsAreOwn'
    BY <1>1, <1>3, <1>4, RootsOfProofs DEF ProofsAreOwn, RootsInOrder, Created, NotCreated
<1>9. QED
    BY <1>5, <1>6, <1>7, <1>8

(* The move leaves a proof of what is found, or none.                       *)
LEMMA MovePeerKeepsInv ==
    ASSUME NeInv, move_peer, UNCHANGED preempts
    PROVE  NeInv'
<1> USE DEF NeInv, NeTypeCorrect
<1>1. /\ pair' \in {pair, MoveEffect}
      /\ veth_root' \in {ObservedMove(pair'), Unconfirmed}
      /\ pc = "move" /\ pc' \in {"configure", "cleanup"}
      /\ UNCHANGED <<ns, connectivity, made, mine, namespace_root, connectivity_root, failed, report>>
    BY DEF move_peer, Continue, PreparationFailure
<1>2. /\ pair' \in [id : Nat, home : Int] /\ pair'.id = pair.id
      /\ pair'.id = Absent => pair' = NoPair
    BY <1>1 DEF MoveEffect, Roots
<1>3. /\ ObservedMove(pair') \in Roots
      /\ ObservedMove(pair') = NoRoot => pair' = NoPair
      /\ Deletable(ObservedMove(pair')) => pair' # NoPair /\ ObservedMove(pair').id = pair'.id
    <2>1. veth_root.state = "host" /\ veth_root # NoRoot
        BY <1>1 DEF RootsInOrder, NoRoot
    <2>2. QED
        BY <1>2, <2>1, RootsOfProofs DEF ObservedMove
<1>4. NeTypeCorrect'
    BY <1>1, <1>2, <1>3, RootsOfProofs
<1>5. RootsInOrder' /\ SuccessIsLast'
    BY <1>1 DEF RootsInOrder, SuccessIsLast
<1>6. OwnObjectsHaveRoots'
    <2>1. NoPair.id \notin mine
        BY DEF Absent, NoPair
    <2>2. QED
        BY <1>1, <1>3, <2>1, RootsOfProofs DEF OwnObjectsHaveRoots
<1>7. ProofsAreOwn'
    <2>1. pair' # NoPair => pair # NoPair
        BY <1>2 DEF NoPair
    <2>2. Deletable(veth_root') /\ pair # NoPair => veth_root'.id = pair.id
        BY <1>1, <1>2, <1>3, RootsOfProofs
    <2>3. Deletable(veth_root') => pair' # NoPair
        BY <1>1, <1>3, RootsOfProofs
    <2>4. QED
        BY <1>1, <2>1, <2>2, <2>3 DEF ProofsAreOwn
<1>8. QED
    BY <1>4, <1>5, <1>6, <1>7

(* An exception that may be installed has a root.                           *)
LEMMA ConnectivityKeepsInv ==
    ASSUME NeInv, configure_connectivity \/ remove_connectivity, UNCHANGED preempts
    PROVE  NeInv'
<1>1. Proof("proven", Absent) \in Roots /\ Proof("proven", Absent) # NoRoot
    BY RootsOfProofs DEF Absent
<1>2. failed' \in BOOLEAN
    BY DEF configure_connectivity, remove_connectivity, Skip, Failure, NoFailure, NeInv,
       NeTypeCorrect
<1>3. /\ UNCHANGED <<ns, pair, made, mine, namespace_root, veth_root, report>>
      /\ \/ pc = "connectivity" /\ pc' \in {"prepared", "cleanup"}
         \/ pc = "remove_connectivity" /\ pc' = "remove_veth"
      /\ \/ UNCHANGED <<connectivity, connectivity_root>>
         \/ connectivity' \in BOOLEAN /\ connectivity_root' = Proof("proven", Absent)
         \/ connectivity' = FALSE /\ connectivity_root' = NoRoot
         \/ /\ connectivity' \in {connectivity, FALSE} /\ Deletable(connectivity_root)
            /\ connectivity_root' \in {connectivity_root, Unconfirmed}
    BY DEF configure_connectivity, remove_connectivity, Skip, Continue, PreparationFailure
<1>4. NeTypeCorrect'
    <2>1. connectivity' \in BOOLEAN
        BY <1>3 DEF NeInv, NeTypeCorrect
    <2>2. connectivity_root' \in Roots
        <3>1. connectivity_root' \in {connectivity_root, NoRoot, Unconfirmed,
                                      Proof("proven", Absent)}
            BY <1>3
        <3>2. QED
            BY <1>1, <3>1, RootsOfProofs DEF NeInv, NeTypeCorrect
    <2>3. UNCHANGED <<ns, pair, made, mine, namespace_root, veth_root>>
        BY <1>3
    <2>4. QED
        BY <1>2, <2>1, <2>2, <2>3 DEF NeInv, NeTypeCorrect
<1>5. RootsInOrder' /\ SuccessIsLast' /\ ProofsAreOwn'
    BY <1>3 DEF NeInv, RootsInOrder, SuccessIsLast, ProofsAreOwn
<1>6. OwnObjectsHaveRoots'
    <2>1. connectivity' => connectivity_root' # NoRoot
        BY <1>1, <1>3, RootsOfProofs DEF NeInv, NeTypeCorrect, OwnObjectsHaveRoots
    <2>2. QED
        BY <1>3, <2>1 DEF NeInv, OwnObjectsHaveRoots
<1>7. QED
    BY <1>4, <1>5, <1>6 DEF NeInv

-----------------------------------------------------------------------------
(* remove_proven_veth() gives up the root with the pair, or as unconfirmed. *)
LEMMA RemovedPair ==
    ASSUME NeInv, remove_proven_veth
    PROVE  /\ pair' \in {pair, NoPair}
           /\ veth_root' \in {veth_root, NoRoot, Unconfirmed}
           /\ veth_root' = NoRoot /\ veth_root # NoRoot => pair' = NoPair
           /\ pair' # pair => pair.id = veth_root.id
           /\ failed' \in BOOLEAN
<1>1. failed' \in BOOLEAN
    BY DEF remove_proven_veth, Failure, NoFailure, NeInv, NeTypeCorrect
<1>2. pair' \in {pair, NoPair} /\ veth_root' \in {veth_root, NoRoot, Unconfirmed}
    BY DEF remove_proven_veth
<1>3. veth_root' = NoRoot /\ veth_root # NoRoot => pair' = NoPair
    BY RootsOfProofs DEF remove_proven_veth
<1>4. pair' # pair => pair.id = veth_root.id
    BY DEF remove_proven_veth, MatchesProof
<1>5. QED
    BY <1>1, <1>2, <1>3, <1>4

LEMMA RemoveVethKeepsInv ==
    ASSUME NeInv, remove_veth \/ recheck_veth, UNCHANGED preempts
    PROVE  NeInv'
<1>1. /\ pc \in {"remove_veth", "recheck_veth"} /\ pc' \in {"remove_namespace", "pass_end"}
      /\ UNCHANGED <<ns, connectivity, made, mine, namespace_root, connectivity_root, report>>
      /\ \/ UNCHANGED <<pair, veth_root>> /\ failed' \in BOOLEAN
         \/ Deletable(veth_root) /\ remove_proven_veth
    BY DEF remove_veth, recheck_veth, Skip, Failure, NoFailure, Continue, NeInv, NeTypeCorrect
<1>2. /\ pair' \in {pair, NoPair} /\ failed' \in BOOLEAN
      /\ veth_root' \in {veth_root, NoRoot, Unconfirmed}
      /\ veth_root' = NoRoot /\ veth_root # NoRoot => pair' = NoPair
    BY <1>1, RemovedPair
<1>3. NoPair \in [id : Nat, home : Int] /\ NoPair.id = 0
    BY DEF NoPair, Absent, HostEnds
<1>4. NeTypeCorrect'
    BY <1>1, <1>2, <1>3, RootsOfProofs DEF NeInv, NeTypeCorrect
<1>5. RootsInOrder' /\ SuccessIsLast' /\ ProofsAreOwn'
    BY <1>1, <1>2, RootsOfProofs DEF NeInv, RootsInOrder, SuccessIsLast, ProofsAreOwn
<1>6. OwnObjectsHaveRoots'
    BY <1>1, <1>2, <1>3, RootsOfProofs DEF NeInv, NeTypeCorrect, OwnObjectsHaveRoots
<1>7. QED
    BY <1>4, <1>5, <1>6 DEF NeInv

(* remove_namespace() gives up the root with the name, or as unconfirmed.   *)
LEMMA RemovedNamespace ==
    ASSUME NeInv, remove_namespace
    PROVE  /\ pc = "remove_namespace" /\ pc' \in {"recheck_veth", "pass_end"}
           /\ UNCHANGED <<pair, connectivity, made, mine, veth_root, connectivity_root, report>>
           /\ ns' \in {ns, Absent} /\ namespace_root' \in {namespace_root, NoRoot, Unconfirmed}
           /\ namespace_root' = NoRoot /\ namespace_root # NoRoot => ns' = Absent
           /\ ns' # ns => ns = namespace_root.id /\ Deletable(namespace_root)
           /\ namespace_root' # namespace_root => Deletable(namespace_root)
           /\ failed' \in BOOLEAN
<1>1. failed' \in BOOLEAN
    BY DEF remove_namespace, Skip, Failure, NoFailure, NeInv, NeTypeCorrect
<1>2. /\ pc = "remove_namespace" /\ pc' \in {"recheck_veth", "pass_end"}
      /\ UNCHANGED <<pair, connectivity, made, mine, veth_root, connectivity_root, report>>
    BY DEF remove_namespace, Continue
<1>3. \/ UNCHANGED <<ns, namespace_root>>
      \/ /\ Deletable(namespace_root)
         /\ \/ ns \in {Absent, namespace_root.id} /\ ns' = Absent /\ namespace_root' = NoRoot
            \/ namespace_root' = Unconfirmed
                  /\ (ns' = ns \/ (ns' = Absent /\ ns = namespace_root.id))
    <2>1. CASE UNCHANGED <<ns, namespace_root>>
        BY <2>1
    <2>2. CASE /\ Deletable(namespace_root)
               /\ ns \in {Absent, namespace_root.id} /\ ns' = Absent /\ namespace_root' = NoRoot
        BY <2>2
    <2>3. CASE /\ Deletable(namespace_root) /\ namespace_root' = Unconfirmed
               /\ ns' \in {ns, IF ns = namespace_root.id THEN Absent ELSE ns}
        BY <2>3
    <2>4. \/ UNCHANGED <<ns, namespace_root>>
          \/ Deletable(namespace_root) /\ ns \in {Absent, namespace_root.id}
                /\ ns' = Absent /\ namespace_root' = NoRoot
          \/ Deletable(namespace_root) /\ namespace_root' = Unconfirmed /\ UNCHANGED ns
          \/ Deletable(namespace_root) /\ namespace_root' = Unconfirmed
                /\ ns' \in {ns, IF ns = namespace_root.id THEN Absent ELSE ns}
        BY Zenon DEF remove_namespace
    <2>5. QED
        BY <2>1, <2>2, <2>3, <2>4
<1>4. QED
    BY <1>1, <1>2, <1>3, RootsOfProofs

LEMMA RemoveNamespaceKeepsInv ==
    ASSUME NeInv, remove_namespace, UNCHANGED preempts
    PROVE  NeInv'
<1>1. Absent = 0
    BY DEF Absent
<1>2. NeTypeCorrect'
    <2>1. ns' \in Nat /\ ns' <= made'
        BY <1>1, RemovedNamespace DEF NeInv, NeTypeCorrect
    <2>2. namespace_root' \in Roots
        BY RemovedNamespace, RootsOfProofs DEF NeInv, NeTypeCorrect
    <2>3. QED
        BY <2>1, <2>2, RemovedNamespace DEF NeInv, NeTypeCorrect
<1>3. RootsInOrder' /\ SuccessIsLast' /\ ProofsAreOwn'
    BY RemovedNamespace, RootsOfProofs DEF NeInv, RootsInOrder, SuccessIsLast, ProofsAreOwn
<1>4. OwnObjectsHaveRoots'
    BY <1>1, RemovedNamespace, RootsOfProofs DEF NeInv, NeTypeCorrect, OwnObjectsHaveRoots
<1>5. QED
    BY <1>2, <1>3, <1>4 DEF NeInv

(* The passes, and the report at the end of the last.                       *)
LEMMA PassKeepsInv ==
    ASSUME NeInv, BeginPass \/ DeadlinePasses \/ EndPass, UNCHANGED preempts
    PROVE  NeInv'
<1> USE DEF NeInv, NeTypeCorrect, RootsInOrder, OwnObjectsHaveRoots, SuccessIsLast,
            ProofsAreOwn, kernel, roots, Continue
<1>1. CASE BeginPass
    BY <1>1 DEF BeginPass, Failure, NoFailure
<1>2. CASE DeadlinePasses
    BY <1>2 DEF DeadlinePasses
<1>3. CASE EndPass
    <2>1. has_residual \in BOOLEAN
        BY DEF has_residual
    <2>2. ~has_residual =>
              namespace_root = NoRoot /\ veth_root = NoRoot /\ connectivity_root = NoRoot
        BY DEF has_residual
    <2>3. /\ pc = "pass_end" /\ UNCHANGED <<ns, pair, connectivity, made, mine, roots>>
          /\ failed' = (failed \/ has_residual)
          /\ \/ pc' = "cleanup" /\ UNCHANGED report
             \/ pc' = "reported" /\ (report' = "cleanup_succeeded" => ~failed')
        BY <1>3 DEF EndPass
    <2>4. QED
        BY <2>1, <2>2, <2>3
<1>4. QED
    BY <1>1, <1>2, <1>3

(* The kernel and the rival make or remove objects that are not ours.       *)
LEMMA OthersKeepInv ==
    ASSUME NeInv, KernelReapsNamespace \/ RivalStep, UNCHANGED preempts
    PROVE  NeInv'
<1>1. /\ UNCHANGED <<connectivity, mine, roots, pc, failed, report>>
      /\ \/ UNCHANGED <<ns, pair, made>>
         \/ ns' = Absent /\ UNCHANGED <<pair, made>> /\ (SettingUp => preempts)
         \/ ns = Absent /\ ns' = made + 1 /\ made' = made + 1 /\ UNCHANGED pair
               /\ (SettingUp => preempts)
         \/ pair' = NoPair /\ UNCHANGED <<ns, made>>
         \/ /\ made' = made + 1 /\ UNCHANGED ns /\ (SettingUp => preempts)
            /\ \E home \in {HostEnds, Elsewhere} : pair' = [id |-> made + 1, home |-> home]
    BY DEF KernelReapsNamespace, RivalStep, RivalNamespace, RivalPair
<1>2. NoPair \in [id : Nat, home : Int] /\ NoPair.id = 0 /\ Absent = 0
    BY DEF NoPair, Absent, HostEnds
<1>3. \A home \in {HostEnds, Elsewhere} :
          [id |-> made + 1, home |-> home] \in [id : Nat, home : Int]
    BY DEF NeInv, NeTypeCorrect, HostEnds, Elsewhere
<1>4. made' \in Nat /\ made <= made' /\ mine' \subseteq 1 .. made' /\ made + 1 \notin mine
    BY <1>1 DEF NeInv, NeTypeCorrect
<1>5. NeTypeCorrect'
    BY <1>1, <1>2, <1>3, <1>4 DEF NeInv, NeTypeCorrect, roots
<1>6. RootsInOrder' /\ SuccessIsLast'
    BY <1>1 DEF NeInv, RootsInOrder, SuccessIsLast, roots
<1>7. OwnObjectsHaveRoots'
    BY <1>1, <1>2, <1>4 DEF NeInv, NeTypeCorrect, OwnObjectsHaveRoots, roots
<1>8. ProofsAreOwn'
    BY <1>1 DEF NeInv, ProofsAreOwn, roots, SettingUp, Deletable
<1>9. QED
    BY <1>5, <1>6, <1>7, <1>8 DEF NeInv

(* The invariant of the specification.                                      *)
LEMMA NeInvariant == NeSpec => []NeInv
<1>1. NeInv /\ [NeNext]_neVars => NeInv'
    <2> SUFFICES ASSUME NeInv, [NeNext]_neVars PROVE NeInv'
        OBVIOUS
    <2>1. CASE UNCHANGED neVars
        BY <2>1 DEF neVars, NeInv, NeTypeCorrect, RootsInOrder, OwnObjectsHaveRoots,
           SuccessIsLast, ProofsAreOwn, Deletable
    <2>2. CASE NeNext
        BY <2>2, PreflightKeepsInv, CreateNamespaceKeepsInv, CreateVethKeepsInv,
           MovePeerKeepsInv, ConnectivityKeepsInv, RemoveVethKeepsInv,
           RemoveNamespaceKeepsInv, PassKeepsInv, OthersKeepInv DEF NeNext, HelperStep
    <2>3. QED
        BY <2>1, <2>2
<1>2. QED
    BY <1>1, NeInvInit, PTL DEF NeSpec

-----------------------------------------------------------------------------
(* A success is reported only of a host without objects and exceptions that *)
(* the helper's own commands made.                                          *)
THEOREM CleanReportsAreTrue == NeSpec => []CleanReportMeansClean
<1>1. NeInv => CleanReportMeansClean
    BY DEF NeInv, OwnObjectsHaveRoots, SuccessIsLast, CleanReportMeansClean
<1>2. QED
    BY <1>1, NeInvariant, PTL

(* Nothing regains the authority to delete that an unconfirmed identity has *)
(* taken away, and no success is reported of it.                            *)
THEOREM UnconfirmedStays == NeSpec => UnconfirmedIsFinal
<1> DEFINE Stays ==
        /\ namespace_root = Unconfirmed => namespace_root' = Unconfirmed
        /\ veth_root = Unconfirmed => veth_root' = Unconfirmed
        /\ connectivity_root = Unconfirmed => connectivity_root' = Unconfirmed
        /\ report' = "cleanup_succeeded" =>
               Unconfirmed \notin {namespace_root, veth_root, connectivity_root}
<1>1. NeInv /\ NeInv' /\ [NeNext]_neVars => [Stays]_neVars
    <2> SUFFICES ASSUME NeInv, NeInv', NeNext PROVE Stays
        OBVIOUS
    <2>1. CASE BeginPass \/ DeadlinePasses \/ KernelReapsNamespace \/ RivalStep \/ Preflight
               \/ configure \/ EndOfSession
        <3>1. UNCHANGED <<roots, report>>
            BY <2>1 DEF BeginPass, DeadlinePasses, KernelReapsNamespace, RivalStep, Preflight,
               configure, EndOfSession
        <3>2. QED
            BY <3>1, RootsOfProofs DEF roots, NeInv, SuccessIsLast
    <2>2. CASE EndPass
        <3>1. UNCHANGED roots
            BY <2>2 DEF EndPass
        <3>2. QED
            BY <3>1, RootsOfProofs DEF roots, NeInv, SuccessIsLast
    <2>3. CASE create_namespace \/ create_veth \/ move_peer
        <3>1. UNCHANGED <<report, connectivity_root>>
            BY <2>3 DEF create_namespace, create_veth, move_peer
        <3>2. \/ namespace_root = NoRoot /\ UNCHANGED veth_root
              \/ veth_root # Unconfirmed /\ UNCHANGED namespace_root
            BY <2>3, RootsOfProofs DEF create_namespace, create_veth, move_peer, NeInv,
               RootsInOrder, Unconfirmed
        <3>3. report # "cleanup_succeeded"
            BY <2>3 DEF create_namespace, create_veth, move_peer, NeInv, SuccessIsLast
        <3>4. QED
            BY <3>1, <3>2, <3>3, RootsOfProofs
    <2>4. CASE configure_connectivity \/ remove_connectivity
        <3>1. UNCHANGED <<report, namespace_root, veth_root>> /\ report # "cleanup_succeeded"
            BY <2>4 DEF configure_connectivity, remove_connectivity, NeInv, SuccessIsLast
        <3>2. connectivity_root # Unconfirmed \/ UNCHANGED connectivity_root
            BY <2>4, RootsOfProofs DEF configure_connectivity, remove_connectivity, Skip, NeInv,
               RootsInOrder
        <3>3. QED
            BY <3>1, <3>2
    <2>5. CASE remove_veth \/ recheck_veth
        <3>1. UNCHANGED <<report, namespace_root, connectivity_root>>
              /\ report # "cleanup_succeeded"
            BY <2>5 DEF remove_veth, recheck_veth, NeInv, SuccessIsLast
        <3>2. veth_root # Unconfirmed \/ UNCHANGED veth_root
            BY <2>5, RootsOfProofs DEF remove_veth, recheck_veth
        <3>3. QED
            BY <3>1, <3>2
    <2>6. CASE remove_namespace
        <3>1. report # "cleanup_succeeded"
            BY <2>6 DEF remove_namespace, NeInv, SuccessIsLast
        <3>2. QED
            BY <2>6, <3>1, RemovedNamespace, RootsOfProofs
    <2>7. QED
        BY <2>1, <2>2, <2>3, <2>4, <2>5, <2>6 DEF NeNext, HelperStep
<1>2. QED
    BY <1>1, NeInvariant, PTL DEF NeSpec, UnconfirmedIsFinal

(* Where nobody takes the names while they are set up, the helper removes   *)
(* only what its own commands created, however often others replace it.     *)
THEOREM OnlyOwnObjectsAreRemoved == NeSpec => OnlyOwnObjectsRemovedAfterSetup
<1>1. NeInv /\ [NeNext]_neVars => [HelperStep /\ ~preempts => RemovesOwn]_neVars
    <2> SUFFICES ASSUME NeInv, HelperStep, ~preempts PROVE RemovesOwn
        OBVIOUS
    <2>1. CASE Preflight \/ configure \/ configure_connectivity \/ EndOfSession \/ BeginPass
               \/ remove_connectivity \/ EndPass
        BY <2>1 DEF Preflight, configure, configure_connectivity, EndOfSession, BeginPass,
           remove_connectivity, EndPass, kernel, RemovesOwn
    <2>2. CASE create_namespace
        BY <2>2 DEF create_namespace, RemovesOwn
    <2>3. CASE create_veth
        BY <2>3 DEF create_veth, RemovesOwn
    <2>4. CASE move_peer
        <3>1. UNCHANGED ns /\ pair'.id = pair.id
            BY <2>4 DEF move_peer, MoveEffect, NeInv, NeTypeCorrect
        <3>2. QED
            BY <3>1 DEF RemovesOwn, NeInv, NeTypeCorrect, NoPair
    <2>5. CASE remove_veth \/ recheck_veth
        <3>1. /\ UNCHANGED ns
              /\ UNCHANGED pair \/ (Deletable(veth_root) /\ remove_proven_veth)
            BY <2>5 DEF remove_veth, recheck_veth
        <3>2. QED
            BY <3>1, RemovedPair DEF RemovesOwn, NeInv, ProofsAreOwn
    <2>6. CASE remove_namespace
        BY <2>6, RemovedNamespace DEF RemovesOwn, NeInv, ProofsAreOwn
    <2>7. QED
        BY <2>1, <2>2, <2>3, <2>4, <2>5, <2>6 DEF HelperStep
<1>2. QED
    BY <1>1, NeInvariant, PTL DEF NeSpec, OnlyOwnObjectsRemovedAfterSetup
=============================================================================
