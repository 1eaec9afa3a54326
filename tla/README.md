# TLA+ models of NetLagLab

NetLagLab runs one program (the *Workload*) in a network namespace whose traffic
it shapes. `netlaglab run` is the unprivileged *Supervisor*; it starts a
privileged *helper* through sudo, which prepares the Network Environment,
launches the Workload, supervises it and cleans up; `netlaglab attach` is a
*Controller* that connects to the Supervisor and changes the Network Profile
while the Workload runs. This directory holds a TLA+ model of what these
processes do to one another and to the host, checked with TLC and, where that
is said below, proved with TLAPS. The source is C++ under `src/`;
`PROJECT.json` maps every definition to the lines it stands for.

## Inventory

| Part (source) | State | Operations | Interacts with | Hard behaviour | What makes it correct |
|---|---|---|---|---|---|
| Session start (`session.cpp` before the loop, `helper_main.cpp`, `helper_process.cpp`, `session_socket.cpp`) | two locks, the names `helper.sock` and `control.sock`, where both processes are | take locks, launch, bind, publish and remove names, connect, check peers | earlier Sessions of the same user, sudo | processes killed anywhere, what they leave behind, names that change under a search | each Session has its own helper and its own socket; leftovers do no harm; every start is decided |
| Session lifecycle (`session_lifecycle.cpp`) | loop state, stop stage, result, failures | one handler per event, final calls | adapter (`begin`, `wait`, `request_stop`, `reap_launcher`, `finalize`, `publish_outcome`) | stop escalation, illegal events, failures that accumulate | a clean outcome has a result; stops escalate in order and only while active; nothing recorded is forgotten |
| Lifecycle adapter (`session.cpp`) | conversation, pending events, attached client, control plane, deadline | one `poll()` cycle, descriptor by descriptor | all of the Supervisor; sockets; signal pipe | one thread, several descriptors ready at once, several frames or lines per read | every event reaches its owner, in order |
| Control plane (`controller_control_plane.cpp`) | command queue, change in flight, confirmed profile, connection generation, stopping / terminal / failed | one handler per event, a batch of actions each | executor, lifecycle, helper conversation | answers that outlive their Controller, stop racing a change, queue limit | every answer goes to the line it is for; no command or stop is lost; the shown profile is the one in force |
| Action executor (`control_plane_action_executor.cpp`) | none | execute a batch in order | control plane, conversation, client socket | a write that fails in the middle of a batch | the batch's stop and dispatch are not lost |
| Helper protocol (`helper_protocol.cpp`) | conversation state and pending change, at both ends | feed bytes, begin and complete a change, peer closed | adapter, helper | coalesced frames, change against stop | the helper is never sent what it must refuse |
| Helper session (`helper_session.cpp`, `helper_main.cpp`) | place in `run_helper_session`, supervision status, runtime conversation | prepare, launch, supervise, stop, clean up, report | Supervisor's socket, Workload, Network Environment | crash anywhere, Supervisor lost anywhere, command while the Workload ends | the Workload is reaped before its environment goes; reports are true |
| Workload and launcher processes (`workload_process.cpp`, `helper_process.cpp`) | process states | launch, poll, signal, reap | kernel | grace periods, parent death | no orphan |
| Network Environment (`network_environment.cpp`) | three ownership roots: namespace, veth pair, connectivity | eleven set-up stages, rollback, three cleanup passes | kernel objects under fixed names, other administrators | partial failure, lost identity, expired deadline | only own objects are removed; a clean report is true |
| Traffic shaping (`set_settings()` in `network_environment.cpp`, the profile adapter of `helper_session.cpp`, `linux_production_platform.cpp`) | settings of both directions, confirmed profile, one change | inspect, run tc, inspect again, roll back | the command runner, root qdiscs, other administrators | commands that fail, come late or act halfway | what is confirmed is in force; nothing foreign or unknown is touched |
| Command runner (`command_runner.cpp`) | one child process, two pipes, a deadline | spawn, drain, poll, kill, reap | kernel, external programs | hanging, flooding or forking commands, a failed exec, failing system calls | every call returns, with its child reaped and an honest result |
| Host connectivity and journal (`network_environment.cpp`, `recovery_journal.cpp`) | recovery record, NAT table, firewall exception | configure, remove, reconcile | nft, UFW, firewalld, disk | crash between any two steps, writes that fail after taking effect | what is on the host is in the journal; recovery precedes use |
| Attach client and Session Outcome (`attach_client.cpp`, `controller_session_outcome.cpp`) | revents, what is still to be sent, the block being read, end of input | read lines, send, read answers, detach, report | the Supervisor over a stream socket | divided and coalesced blocks, end of input in the middle of a line, two blocking sends | it reports what happened; a piped script is carried out |
| Preflight, inventories, context, resolver view, paths, process status | none that lasts | queries | kernel, files | | one outcome, or not modelled, see below |

Interaction in one picture: a Controller's line is read by the adapter, handed
to the control plane, which returns a batch of actions; the executor carries
the batch out (text to the Controller, a change or a stop to the helper); the
helper carries out commands, runs external programs for them and reports
frames; the adapter feeds the frames to the conversation, the resulting events
to the control plane and, as lifecycle events, to the lifecycle, which alone
decides when the Session is over.

## Modules

| Module | Models | Correspondence |
|---|---|---|
| `SessionStart` | `run_session()` up to the loop, `run_helper()` up to READY and the START block, over several Sessions | one action per system call that another process can get before; locks, names and sockets are variables of the host |
| `WorkloadStatus` | `struct WorkloadStatus` | ranges of exit codes and signals, the constants `ExitCodes`, `Signals` |
| `SessionLifecycle` | `run_session_lifecycle()` | `lc` is the loop state or the call it is in, `stopStage`, `stops` (requests sent), `workload` and `failures` (the outcome); one operator per `if` of the loop; `Handle(e, sent)` is one iteration |
| `HelperProtocol` | both conversation classes | pure operators, folds over the frames of one read |
| `ControlPlane` | `ControllerControlPlane` | pure operators on a record; `Handle...` operators per event return state and batch |
| `LifecycleAdapter` | `ProductionLifecycleAdapter` without the descriptors, the executor | pure operators on the record `ad` |
| `HelperProcess` | `run_helper_session()`, `supervise_workload()`, the Workload process, the two socket directions | one action per blocking call or command of the helper |
| `Session` | the whole of one Session that has started | `Poll` records the revents, one action per ready descriptor follows in the order of the code; helper, kernel, user and Controllers run in between |
| `SessionContract` | what one Session promises | abstract specification, five actions |
| `SessionProperties` | the properties of `Session`, the refinement mapping | |
| `SessionOutcome` | the Session Outcome block: serializer and parser | operators over lines |
| `AttachClient` | `run_attached_controller_impl()` and the Supervisor's end of its connection | one action per system call; two streams with room for a few lines |
| `ExternalCommand` | what a caller may rely on when it runs a program | abstract specification, five actions |
| `CommandRunner` | `run_command_impl()`, its child and what the child leaves behind | one action per system call of the parent, one per thing the child does |
| `Shaping` | `set_settings()`, the profile adapter, tc and another administrator | the places of the transaction; its commands are those of `ExternalCommand`, which it EXTENDS |
| `Connectivity` | `configure_connectivity`, `remove_connectivity`, `reconcile_pending_state` and the journal, over several Sessions | a command or a journal access is one step with three outcomes: done, failed without effect, failed after its effect |
| `NetworkEnvironment` | `prepare_network_environment()`, `cleanup_state()` and the passes over it | actions keep the functions' names; objects have identities, a rival administrator removes and creates objects of the same names |
| `MCSession`, `MCAttachClient` | values for TLC | |
| `SessionProofs` | theorems about `SessionLifecycle` alone, `Session` and its two refinements | |
| `SessionChangeProofs` | theorems about a Profile Change on its way through `Session`, on top of `SessionProofs` | |
| `SessionReplyProofs` | theorems about what the Controllers of `Session` are told, on top of `SessionChangeProofs` | |
| `NetworkEnvironmentProofs`, `AttachClientProofs` | theorems about the module they are named after | |
| `ProcessProofs` | theorems about `SessionStart` (part 1) and about `CommandRunner` (part 2) | |
| `HostProofs` | theorems about `Connectivity` (part 1) and about `Shaping` (part 2) | |
| `Folding` | lemmas on `FoldLeft` for any operator, instantiated by the proofs about loops over lines, frames, events and actions | |

`Session` EXTENDS `SessionLifecycle`, `HelperProcess` and `LifecycleAdapter`
(which extend `ControlPlane` and `HelperProtocol`). `SessionStart` ends where
`Session` begins. `NetworkEnvironment` sees connectivity as one object;
`Connectivity` has its detail; `HelperProcess` sees the environment as a whole
(`none`, `prepared`, `clean`, `residual`) and a Profile Change by its verdict
(applied, restored, unknown), which `Shaping` has in detail. `AttachClient`
abstracts the Supervisor to what one Controller sees of it.

What is abstracted: the text of frames, lines and answers (a frame is a record,
an answer its kind and what it shows), numeric values of settings (in `Session`
a setting has the values 0 and 1, one setting is unsupported; in `Shaping` a
setting is a number, one of which the kernel cannot represent), durations (a
deadline may expire whenever it is armed), identities and recovery tokens
(numbers), addresses and routes (one step that works or fails). The unit of both
streams in `AttachClient` is a line: how many arrive in one read is open, and
half a line may be left in a buffer.

Definitions preceded by a comment "Fault:" are variants of the code that no
specification uses. Each is a plausible mistake, and `PROJECT.json` names the
property that finds it when it takes the place of the definition below it.

## Runs

Passing runs:

| Run | Shows |
|---|---|
| `session_control` | One Controller, any two of ten lines, two Ctrl-C: the requests sent are those of the stop stage (`StopsFollowStage`); an unknown profile always means a stop (`UnknownProfileStops`); the helper never sees a command it must refuse; a Profile Change is in one place at a time; Supervisor and helper agree on the profile up to the change in flight; what a Controller is owed is exactly the change in flight and the queue; an acknowledged stop is kept; the outcome can always be serialized |
| `session_reattach` | Two Controllers, three lines of four kinds, of which one read may take several: every text answers the next line of the connection it is sent to, the queue keeps its limit, and the end of the Workload ends the Session, also when a detach is queued behind a change, unless the Supervisor stays in the read of a Controller that says nothing |
| `session_failures` | One failure or crash anywhere, loss of the Supervisor, a Ctrl-C, a stop: the outcome is complete and true, the Workload goes before its environment, every stop and every end of the Workload ends the Session, loss of the Supervisor ends the helper; and the Session refines `LcSpec` and `SessionContract` |
| `connectivity` | Three Sessions, four failures, two crashes, three firewall backends: `JournalCoversHost`, recovery before use; recovery is refused only for outside reasons, firewalld excepted |
| `environment` | Three failures or late deadlines, two acts of the rival: a report of success means nothing of the Session is left that the helper knows of; what is unconfirmed is never touched again; once set up, only objects of proven identity are removed |
| `command` | One external command after another that hangs, floods its output, cannot be executed or leaves a process behind, two failing system calls, a deadline: every call returns, its child is reaped, and the runner refines `ExternalCommand` |
| `shaping` | Three changes of two directions while tc fails, is late or acts halfway, and somebody else changes a qdisc once: what is confirmed is in force, a foreign qdisc and a direction given up are left alone, every change is answered |
| `attach` | A script of up to two lines, typed or piped, small socket buffers, one death or failing call: the client reports what happened, says "no answer" only when there was none, carries the script out and ends |
| `start` | Two Sessions of one user, two of their processes killed anywhere: each has its own helper and its own socket, leftovers do not stop a start, a lone helper leaves, every start is decided |

Runs that refute a statement of the documentation, each with a finding in
`PROJECT.json`:

| Run | What happens |
|---|---|
| `coalesced` | `PROFILE_OK` and `WORKLOAD_EXITED` in one read, with a second change queued: the queue is drained into a conversation that is already past `active`, and a healthy Session ends with a conversation failure |
| `orphaned_workload` | the helper is killed: the Workload, whose parent-death signal was cleared when it changed its user, goes on running |
| `connectivity_firewalld` | a crash with a zoned firewalld policy: the handle rebuilt from the record has no zone, so the policy is taken for a foreign one, now and in every later preflight |

Deadlock is not checked: a Session ends, and the bounded world stops acting.
That nothing waits for ever where it should not is what the liveness properties
of `session_failures`, `session_reattach`, `command`, `shaping`, `attach` and
`start` say.

### What the properties except, and what the models show besides

* `EndOfInputEndsAttach` excepts `Jammed`: client and Supervisor both send on
  blocking sockets (`session.cpp:160-162`) and read nothing meanwhile, so with
  both directions full each waits for the other. `docs/cli.md:100-102` describes
  the client's blocking; the model finds the state.
* `StartIsDecided` excepts `Stranded`: the helper of an earlier, dead Session
  unlinks `helper.sock` by path and may hit the new helper's name. The new
  helper then waits to be connected to, its Supervisor for a name. The exception
  is confined to Sessions that started while such a helper was still about.
* `LeftoversDoNoHarm` excepts two windows: a connection attempt between `bind()`
  and `fchownat()` is refused for lack of permission, and a name that is taken
  away between connecting and `lstat()` is reported as a bad path.
* A stop that is handled after the helper reported the end of the Workload
  (`session_lifecycle.cpp:113`) is sent to a helper that has gone; the Session
  fails and the Workload's status is not reported. The Session ends and its
  outcome claims nothing untrue, which is what the properties say.
* `EndOfWorkloadEndsSession` excepts a Supervisor that stays in
  `BlockedOnController` for ever: the revents recorded for one Controller are
  applied to the one accepted in the same cycle (`session.cpp:347`), whose
  blocking socket is then read before it has sent anything. The first Controller
  must be lost before, in the same cycle, by a queued detach or a failed write.
  While the new one stays silent the Supervisor notices nothing, neither the end
  of the Workload nor a Ctrl-C nor a deadline; a byte from it, or its end,
  releases the Supervisor. `docs/architecture/session-lifecycle.md:116-117` ("The
  same loop observes the helper conversation and Controller endpoints") knows no
  such state. Without the exception TLC refutes the property in
  `session_reattach`, with no fault anywhere. `StopEndsSession` needs none: once the Session stops,
  the queue is empty and an answer to a change is not said any more, so that the
  read of the helper's frames loses no Controller.
* `LossOfSupervisorEndsHelper` claims a reaped Workload only of a helper that
  exits by itself. A helper that is killed leaves its Workload behind
  (`OrphanedWorkload`): the child asks for SIGKILL at its parent's death
  (`workload_process.cpp:315`), and the kernel forgets that when it changes its
  user (355-361). Only where the invoking user is root is nothing changed, and
  the Workload killed; the model allows both. A helper that is killed between
  the child's `fork()` and the reading of its first report is one that is killed
  just before or just after `Launch`. `orphaned_workload` refutes what the
  documentation says.
* UFW that is disabled when its exception is removed shows no rule, so that the
  record is cleared and the rule is back when UFW is enabled again
  (`network_environment.cpp:1729`). `connectivity` leaves UFW enabled, and the
  theorems assume it (`UfwStaysOn`).
* An object of the same name that appears between preflight and creation is
  taken for the helper's own by the query after the failed creation and is
  rolled back (`network_environment.cpp:710`).
  `OnlyOwnObjectsRemovedAfterSetup` is about the behaviours without that.
* The documentation places READY, and the removal of `helper.sock`, after the
  host lock; the code does both before it (`helper_main.cpp`), and so does
  `SessionStart`.

### Bounds, and why they are enough

* `MaxFailures` = 4 (lifecycle): an unconstrained adapter could report an unknown
  profile for ever, so that event alone is cut off when four failures are listed;
  the conversation of the real adapter reports it once, which leaves room for the
  failure that ends the loop and for the two final calls. The runs drive the
  lifecycle with the real adapter; the theorems of part 1 are about any.
  `CleanMeansResult` is among those; for the composed Session it follows with
  `SessionRefinesLifecycle`.
* `session_control`: `MaxLines` = 2 with three different changes (a new value, the
  old one, an unsupported setting), status, stop, detach, help, an invalid, an
  oversized and an empty line: each pair of commands, in one read or two, with
  the answers and two Ctrl-C in between (the second asks for SIGKILL, or comes
  after it). A third line is in `session_reattach`.
* `session_reattach`: `QueueLimit` = 1 stands for 32: with three lines one is in
  flight, one queued and one over the limit. A second connection is what stale
  answers and stale revents need, and a detach among the lines, queued behind a
  change, loses a Controller while the next one waits. How the Workload ends makes
  no difference to that: it ends by a signal.
* `session_failures`: `MaxFaults` = 1, one failure or crash at every place, one
  stop line and one Ctrl-C (two stops escalate); the environment's repeated
  failures are the subject of the modules below it. One connection is enough
  there: no property of it is about what is said to a second one.
* `connectivity`: `MaxSessions` = 3, `MaxCrashes` = 2, `MaxFaults` = 4: a Session
  that crashes, one whose reconciliation crashes or fails, one that comes after.
  A failed write, a failed removal and its failed retries need four faults.
  `Disabling` are the managers the administrator switches off during a run;
  firewalld forgets its runtime policies when it stops, so it is among them.
* `environment`: `MaxFaults` = 3, `MaxRival` = 2: a failure in set-up, in the
  explicit pass and in the retry; an object removed and another put in its place.
  `Preemptions`: whether the rival may act between preflight and the end of
  the move.
* `command`: `ReadsPerCycle` = 2 stands for 16; two writes of a process left
  behind, two failing calls. `MaxChatter` is also an assumption: after the child
  is reaped the runner reads until its pipe is empty, without looking at the
  clock, so a descendant that wrote without pause would hold it for as long.
* `shaping`: settings 0 to 3 (3 cannot be represented), two directions, three
  changes: one that is applied, one that goes wrong, one after that, on the same
  or the other direction; one intrusion and one failing query or call. Commands
  that fail, or come late, are not bounded.
* `attach`: `Room` = 2 and `ReadMax` = 2 lines: an outcome of five lines is
  divided and fills the socket; a script of two lines; two outcomes, a clean one
  and one with a failure; one failure.
* `start`: two Sessions and two kills: an earlier Session whose Supervisor, whose
  helper, or both are killed at every place, and the one that follows.

### Fairness

`SessionSpec` assumes weak fairness of the Supervisor's steps, of its armed
deadline, of the helper's steps, and of the end of a process that was sent
SIGKILL. The first and third are that the operating system schedules a process
that is not blocked; the second is that time passes; the last is what SIGKILL
means. The conjuncts of `Fairness` are WF written out with a state predicate in
place of ENABLED (`SupervisorCanMove`, `HelperCanMove`,
`Waiting /\ DeadlineActive`), which TLC evaluates far faster; on the instance of
`session_failures` these predicates were compared with ENABLED of the actions in
all of its 322,756 states and coincide; on one with two
Controllers, a change and a detach, in every state in which a Controller is read
or the Supervisor is said to be blocked. The helper's grace period of 5 s in
`stop_after_supervisor_loss` and the two of `reap_helper_launcher` end by the
fairness of their process.

The other specifications state WF of actions. `CommandRunner`: the helper runs,
the clock runs, and a killed child ends; not that a command ends. `Shaping`: the
transaction goes on, and a call returns, which is `CommandReturns`, checked in
`command`. `AttachClient`: both programs run. `SessionStart`: each Supervisor and
each helper that can go on does, and the grace period of 2 s after which the
launcher is terminated ends. Nothing is ever assumed of a
Controller, of the user, of a password being entered, of a Workload that has not
been killed, of the rival, or of failures.

### Refinements

* `Session` implements `LcSpec` (its `lc`, `stopStage`, `stops`, `workload` and
  `failures` are those of the lifecycle) and, with the mapping in
  `SessionProperties`, `SessionContract`. Both are checked, with their stutters,
  in `session_failures`, and proved.
* `CommandRunner` implements `ExternalCommand`; checked in `command` and proved.
  `Shaping` uses `ExternalCommand` in the place of the runner, so that its
  commands can do all, and only, what the runner allows.

## Proofs

Theorems hold for every value of the constants that satisfies the named
assumptions (exit codes and signals are subsets of the ranges of the wire
format, bounds are natural numbers, settings, marks and tokens are told apart,
`Lines` are things that a line can be, `LinesAssumption`). They do not use
fairness.

### `SessionProofs`, part 1: the lifecycle with any adapter

The events are unconstrained in `LcSpec`: `LcTypeCorrect`,
`CleanSessionsHaveAResult`, `StopEscalationIsOrdered`,
`UnknownProfileLeadsToStop` (invariants), `OutcomesAreKept` and
`StopsAreSentWhileActive` (action properties). `CleanMeansResult` alone is not
inductive: the loop may be left by `cleanup_succeeded`, which records nothing, so
one needs that the cleanup state is entered with a result or a failure
(`CleanupHasReason`); that in turn needs that activation starts from nothing
(`QuietBeforeActive`). That outcomes are kept needs that a result is not known
while the Workload is active (`NoResultWhileActive`), because `WorkloadFinished`
assigns it.

### `SessionProofs`, parts 2 to 7: the composed Session

For any set of lines and changes, any number of lines, connections, interrupts
and faults, and reads of any length: `SessionTypeCorrect`,
`EnvironmentOutlivesWorkload`, `CleanSessionsAreComplete`, `OutcomesCanBePublished`,
`AcceptedStopsAreKept`, and that the Session implements the lifecycle
(`SessionRefinesLifecycle`) and its contract (`SessionKeepsContract`). All but
`EnvironmentOutlivesWorkload`, for which `HelperInv` suffices, come from one
inductive invariant, `SessionInv`:

* `HelperInv`: what each place of the helper knows of the Workload, of the
  environment and of its exit status. The environment is taken down only at
  places that are reached with a reaped Workload, also after a loss of the
  Supervisor, and a residue makes the status 125.
* `MessageInv`, `TrueFrames`: the frames on their way are true when they are
  read, not only when they are written. A frame that reports the end of the
  Workload is sent after the Workload was reaped, and what it ended with never
  changes afterwards.
* `AdapterInv`, that is membership in `GoodAndLate`: the control plane's and the
  conversation's types, pending events that are true (`TrueEvents`), a queue
  within its limit, one pending `profile_state_unknown` at most and none once
  the failure is recorded (`UnknownOnce`), and for a control plane that is
  stopping a pending stop or a stop that is under way (`UnderWay`).
* `FailuresInv`: which failures may be recorded by which state. No failure can be
  recorded twice because the loop leaves on the first one other than an unknown
  profile, and because of `UnknownOnce`.
* `WorkloadIsTrue`: the result in the outcome is what the Workload ended with.
* `HelperSucceeded`: past the reaping of the launcher without a failure, the
  helper has exited with 0.
* `LcInv` and `WorldInv` (types of the lines, the reaping and the user).

The argument goes from the inside out. Part 3 is about one read of frames
(`OneByOne`: a read is a sequence of single frames, each consumed by a
conversation that had not failed), and what each frame makes of a conversation
(`FrameRules`). Part 4 takes the control plane one event at a time
(`Handling`): a batch has one dispatch at most, its last action (`InOrder`), and
one that accepts a stop begins with it (`StopsFirst`), which is why a write that
fails later in the batch cannot lose it. Part 5 takes the execution of a batch one
action at a time (`Executing`), then every caller of it, and shows that each leads
from one adapter of `GoodAndLate` to another. Part 6 has one lemma for each group
of the Session's actions.

`SessionRefinesLifecycle` says `MaxFailures >= 2`: that constant bounds `LcSpec`
alone (`WaitReturns`), whose adapter might report an unknown profile for ever. The
real adapter's Session has one failure recorded at most while its loop runs, so
that the bound is never in the way.

### `SessionChangeProofs`: a Profile Change on its way

`HelperRefusesNothing` (`HelperNeverRefuses`), `ChangeHasOnePlace`
(`ChangeIsInOnePlace`) and `ProfilesAgree` (`ProfileAgreement`), under the same
assumptions as the theorems of the composed Session. None of the three is
inductive; each of them needs the others, through `ChangeInvariant`:

* `Linked`: the conversation against the control plane. There is a control plane
  once the helper has said ACTIVE, the change the conversation waits for is the
  one in flight, and a stop that waits for the lifecycle comes from a control
  plane that is stopping or from a conversation that is not active any more.
* `ChannelInv`: where the change is. Commands, what the helper has read, and
  frames hold it once between them. A change leads the commands it is written
  with (`LeadsWith`): it is dispatched only by an active conversation without a
  pending change, hence after every earlier command has been read, and stops come
  behind it. Until it is carried out the profile in force is the confirmed one,
  and a reply that is not yet read says which profile is in force
  (also when its read is coalesced with the end of the Workload).
* `Balanced`: the shown profile against the one in force, without the exception
  that `ProfileAgreement` makes for a failed control plane.
* `RuntimeInv`: the helper's own conversation is valid, and its pending change is
  the first of the commands it has read. It is stopping only if the lifecycle has
  sent a stop.
* `StopsInv`: once the lifecycle stops the Session, the control plane is stopping
  or the conversation is not active, so that no change is dispatched after a stop
  has been written. This is why the helper refuses nothing.
* `StartInv` (before the Workload is launched only the START block is on its way)
  and `CycleInv` (a cycle of `poll()` starts without events that the lifecycle has
  not had; what a step writes is written when the step is over).

All steps of the adapter but a read of the helper's frames confirm nothing and
dispatch one change at most (`Moved`, proved for a batch, then for the bytes of a
Controller, signals and connections). A read of frames is taken event by event
along `OneByOne` of part 3: the reply can only be the first frame of the read,
because the change it answers was pending when the read began, and the queue that
it drains may dispatch the next one (`HeadAnswered`); what the rest of the same
read does to the conversation has then happened already.

### `SessionReplyProofs`: what the Controllers are told

`AnswersComeInOrder` (`RepliesInOrder`) and `EveryCommandIsKept`
(`NoCommandIsLost`), under the same assumptions. The two are one invariant,
`OwedInv`: the history `owed`, which `Observe` keeps of the lines read and the
texts sent, equals the `Debt` of the control plane, that is the change in flight
if the attached connection asked for it, and then the queue. Neither half can do
without the other: whether a text is in order depends on what is owed, and what is
owed is known only if every text before it took the right line away.

`OwedInv` needs `Sound` of the control plane: the queue is of the connection there
is (`gen`) and holds no stop, without a change in flight it is empty, and nobody is
to be told anything once nobody is attached or the Session stops. It also needs
that the listener is not ready without a Controller that waits, since an accepted
connection starts with nothing owed.

The argument follows the way of a text:

* The ledger. `Seen` reads a batch action by action, as `Observe` reads texts, and
  notes when the connection is closed. Only a stop and the refusals of malformed
  lines and of a full queue look past the first line owed (`Ordinary` are the
  other texts); of those it is shown where the line is that they answer.
* The control plane. `Balance(s, o)` says that the batch and the state `s` answer
  `o`: whatever else has been asked for, each text answers what is next, and the
  rest is `StillOwed`, unless the connection is closed. It is kept by one line,
  hence by a read of lines (`InBalance`), and by the answer to a change with the
  queue that it drains, up to the next change that is dispatched.
* The adapter. The execution of a batch, one action at a time (`Telling`), turns a
  batch that `Settles` into texts that do (`Owes`). A write that fails forgets the
  connection together with what it was owed, and the rest of the batch is then not
  said at all.
* The reads. A read of the helper's frames is taken event by event with the argument
  of `SessionChangeProofs` (`Carries`: any property of the adapter that every
  event keeps is kept by the read), because the answer to the change in flight
  may come in the middle of it.
* The steps of `Session`. Those that talk to the Controller (accepting, reading,
  losing it, the signals, the helper's frames) settle what they owe; publishing
  and leaving owe nothing; the others change nothing of it (`QuietSteps`).

### The other components

`AttachClientProofs`: `AttachReportIsTrue`, `AttachLossMeansNoAnswer` and
`AttachCarriesOutTheScript`, for any script and outcome, any room in the socket
buffers and any length of a read. Both arguments need where every line is. The
answers are one sequence (`Stream`), whichever of the socket and the Supervisor
holds them, and a published outcome is what the client has read of it followed by
what it has not (`Reading`); the parser takes no part of a serialized outcome for
malformed (`PartOfBlock`). The lines of the user are one sequence too
(`Pipeline`), in which the detach comes after every line that is counted as not
yet carried out (`CountIsTrue`).

`ProcessProofs`, part 2: `ChildIsReaped` and `RunnerImplementsCommand`. Returning is
safe only if every place from which the runner returns knows what has become of
the child (`ParentKnowsChild`); the refinement also needs that a child that was
executed has a history that agrees with `ran` (`ChildHistory`) and that the
status that is read is that of the child (`StatusIsItsOwn`).

`ProcessProofs`, part 1: `StartsWithOwnHelper`, `SessionLockIsExclusive`,
`ControlSocketIsKept`, `LeftoversAreHarmless`. The two halves of `OwnHelperOnly`
are inductive by themselves: both sides compare identities at one step, and a
connection never changes its other end. That `control.sock` is kept needs the
lock: whoever removes or binds the name holds it (`LockIsHeld`), which a helper
that probes the lock must not break. That leftovers do no harm holds for any
number of earlier Sessions: a start that is alone and that nothing kills holds
`session.lock`, so nobody else launches a helper or connects until it is decided,
and its helper takes every step in time (`InTime`).

`HostProofs`, part 2: `ConfirmedSettingsAreInForce`, `ForeignQdiscsAreLeftAlone`,
`UnknownDirectionsAreLeftAlone`. The qdisc of the direction under change is known
only up to the first command (`SettledIsInForce`); afterwards the answer is
given by what is read, with no command left running
(`CommandsBelongToChanges`, from the contract of `ExternalCommand`), so that
reading and keeping cannot be separated by a late effect.

`HostProofs`, part 1, provided that UFW is not switched off: `JournalNamesWhatIsLeft`
and `RecoveryPrecedesUse`, for any number of Sessions, failures and crashes.
`JournalCoversHost` is not inductive: clearing the record is safe only after both
removals (`RemovedInOrder`), a removal that finds nothing to do must be right
about it, for which the manager must show what there is (`ExceptionsAreShown`)
and the handle know of it (`HandleKnowsException`), also when it was rebuilt from
the record; and the record must be that of the handle (`RecordIsOurs`).
`RefusalHasACause` holds with UFW switched off as well: a Session is refused only
when a step of its own failed or over a firewalld policy; it needs that a
reconciliation works on the handle of its record (`ReconcilingItsRecord`).

`NetworkEnvironmentProofs`, for any number of failures and acts of the rival:
`CleanReportsAreTrue`, `UnconfirmedStays`, `OnlyOwnObjectsAreRemoved`. An own
object always has a root (`OwnObjectsHaveRoots`), a success has none left
(`SuccessIsLast`), roots come in the order of the set-up (`RootsInOrder`), and
without interference during it a proof is of an own object (`ProofsAreOwn`).

### Loops

The code's loops over frames, lines, events and actions are folds. `Folding`
proves about `FoldLeft` what the proofs need of a loop: its result is the last of
a sequence of values, each made from the one before by one element (`FoldTrace`),
so that what holds of the first value and is kept by one turn holds of the result
(`FoldStaysIn`, `FoldAdvances`). The module has the loop's body as a CONSTANT operator and is
instantiated with the body at hand; its induction uses a smallest counterexample
(`WFMin` over the natural numbers), because a theorem with an operator for a
hypothesis cannot be instantiated by the provers. Filters are written as folds as
well (`WithoutDispatch`), since the provers know nothing of `SelectSeq`.

### Only model-checked, not proved

* The liveness properties `StopEndsSession`, `EndOfWorkloadEndsSession`,
  `LossOfSupervisorEndsHelper`, `CommandReturns`, `ChangeIsAnswered`,
  `EndOfInputEndsAttach`, `LoneHelperLeaves` and `StartIsDecided`: liveness under
  fairness and ENABLED are beyond the proof system's backends.

Every invariant, action property and refinement that a run expects to hold is
stated by a theorem.

## Not modelled, and why

* Netlink and tool output decoders (`link_inventory.cpp`, `qdisc_inventory.cpp`
  and most of `linux_production_platform.cpp`): functions over bytes without a
  state that lasts. The transactions use their verdict.
* The Workload context and the resolver view: read and checked once, before
  anything else acts.
* `process_status.cpp` and `main.cpp`; the checks of owner and mode of
  directories; the argument lists of commands; address selection and the checks
  of tools and subnets in preflight, which are one outcome.
* The byte-level parser of the START block and the passing of descriptors: one
  message, which is well-formed or not.
* Printed text, and the outcome line of an older Supervisor that the client still
  understands.
* Check and command of one removal are one step, so the window between querying a
  name and deleting it is not examined (`network_environment.cpp:1341`).
* What a command does whose helper was killed: it has no parent-death signal
  (`command_runner.cpp`), so it may act for a moment after the crash. In
  `Connectivity` its effect comes before the crash or not at all.
* A qdisc of another kind that somebody puts under the helper's own handle:
  `tc qdisc del` names the handle and not the kind (`network_environment.cpp:946`).
  In `Shaping` a command that names the handle does not hit a foreign qdisc.
* `LossMeansNoAnswer` is about connections whose end is read. Where the client
  gives up on an error of its socket or of a send it prints the same text
  without having read what was sent.
* A send of the client that fails after the Supervisor has delivered the outcome
  and closed leaves the outcome unread (`attach_client.cpp:284`); no property
  forbids it, and the report "unknown" is not untrue.

## Plan

Done: the start of a Session, the Session and its contract, the command runner
and its contract, shaping, the ownership transaction, connectivity with the
journal, the attach client with the outcome, and the proofs above.

Next, in this order:

1. The START block parser with its limits, as operators against a reference
   definition.
2. A composition of `AttachClient` with `Session` in the place of its abstract
   Supervisor.
