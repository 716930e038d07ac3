# A verification project for go-musical-packets

go-musical-packets turns network packets into MIDI notes. Capture, mapping,
MIDI output, a peer protocol between instances, and a management API with a
hot-reloadable configuration run concurrently in one process. This directory
holds TLA+ models of its stateful parts, TLC configurations that check them,
and TLAPS proofs.

## 1. The system

| Part | State | Operations | Talks to |
|---|---|---|---|
| MIDI scheduler, `internal/midi/scheduler.go` | active notes with generation and timer, rate window, closed flag | Write, timer callback `stop`, Panic, Close | manager (Send) under the operation gate |
| MIDI manager and runtime, `manager.go`, `runtime.go` | selected output and device, last enumeration, gate, closed flag | Send, reconcile (poll), transition, Run/stop, Panic, Close | native driver in a helper process, scheduler |
| MIDI helper, `process.go`, `helper.go` | child process, request in flight | Devices, Open, Send, Close with timeouts | RtMidi |
| Pipeline, `internal/pipeline` | packet and note queue, three goroutines | capture, processPacket, processNotes, shutdown | source, registry, selector, mapper, sink |
| Policy controller, `internal/app/policy.go` | published snapshot: revision, configuration, selector, pending revision, overlay, state | Update, Mutate, StageRestart, CancelRestart, ReplaceMute/Solo | repository, pipeline (reads the snapshot) |
| File repository, `internal/config/repository.go` | the file, advisory lock | Read, Replace, Rollback | file system, other writers |
| Flow registry, `internal/flow/registry.go` | flows by last-seen time | Observe, Expire, snapshots | pipeline, management |
| Flow selector, `selector.go` | compiled rules | Evaluate | pipeline |
| Peer edge, `internal/peer/edge.go` | note queue, session, backoff, heartbeat | Write, Run, runSession | peer host over WebSocket |
| Peer host, `host.go` | sessions, nodes with generation, duplicate cache | ServeHTTP, register, acceptNote, disconnect, Close | edges, MIDI runtime |
| Note stream, `internal/uistream` | subscriptions with bounded queues | Subscribe, Publish, Close | browsers |
| Supervisor, `internal/app/app.go` | which component runs, readiness | start, supervise, ordered shutdown | all |
| Replay, `app/replay.go` | pacing clock | Next, supervise | pipeline |
| Management API and backend, `managementapi/`, `app/management*.go` | revision tokens issued | Status, config, rules, flows, MIDI, peers | controller, runtime, registry |
| Music mapper, `internal/music` | none (pure) | Map | pipeline |
| Capture, metrics, web UI, command line | no protocol state | | |

The hard behaviours:

* **Concurrency.** Note timers, packet-triggered notes, operator panics, the
  device poll and shutdown meet at the operation gate; three pipeline
  goroutines meet at two channels; management requests meet at
  `Controller.mu`, and other programs at the configuration file.
* **Failure.** Any MIDI send may fail after it took effect; any step of a file
  replacement may fail; the process may be killed, the machine may lose power.
* **Ordering.** The queues' closing order, the reset of an output before or
  after its publication, the shutdown order of the supervisor.
* **Timeouts and time.** Late timer callbacks, the rate window, heartbeats,
  reconnect backoff, stale and repeated peer notes.

What makes each part correct: no note hangs and no limit is exceeded (MIDI);
every packet is accounted for once, in order, and capture never blocks
(pipeline); the controller state is true of the file, nothing is lost or mixed
between generations, and a crash leaves a complete document (policy and
repository); a note is played at most once and a late disconnect cannot hurt a
new session (peer); bounded memory and least-recently-seen eviction (registry);
a fixed order of shutdown whatever fails first (supervisor). `PROJECT.json`
lists the hazards line by line.

## 2. Modules

| Module | Content |
|---|---|
| `MidiRuntime` | scheduler, manager, gate, and the synthesizers behind the ports |
| `VoiceBank` | abstract specification of what a listener of the selected output hears |
| `MCMidiRuntime` | instances: stable ports, ports that are renumbered, one port |
| `MidiRuntimeProof` | theorems about `MidiRuntime` |
| `Pipeline`, `PipelineProof` | the processor and its queues; theorems about it |
| `FlowPath`, `MCFlowPath`, `FlowPathProof` | one packet through capture, registry, selector, safety rules and mapper; frames, policies and overlays to try; theorems about it |
| `PolicyController`, `MCPolicyController` | controller and repository on one file; two environments |
| `Management`, `MCManagement`, `ManagementProof` | the management API and backend, on top of `PolicyController`; requests and edits to try; theorems about both |
| `PeerHost`, `PeerHostProof` | the host side of the peer protocol; theorems about it |
| `PeerEdge`, `PeerEdgeProof` | the edge side, with its connection and the reading loop of the host; theorems about it |
| `NoteStream`, `NoteStreamProof` | the hub that feeds browsers, its publishers and handlers; theorems about it |
| `Supervisor`, `SupervisorProof` | start, supervision and shutdown of a service and of a replay; theorems about it |

`Management` extends `PolicyController`: a request that is admitted starts one of
its operations and each step of the transaction is a step of that module. The
other modules meet at narrow seams, each an outcome in one and the result of the
other: the decision of `Pipeline.Process` is what `FlowPath` computes; the
overlays and policies of `FlowPath` are what `Management` publishes;
`Supervisor` closes the MIDI runtime before it cancels the manager, which
`MidiRuntime.ManagerStop` assumes; the sink of `PeerHost` is `MidiRuntime`.

Definitions whose comment begins with "Mutant:" are deliberate bugs. Each takes
the place of a definition to show that a property notices it; no specification
uses them.

### MidiRuntime

`active`, `recent`, `nextGen` and `closed` are the scheduler's fields; `output`
and `device` the manager's. A timer of the Go runtime is in `timers` until it
expires, then its callback is in `fired` until it gets the gate; only the first
can be prevented by `Timer.Stop`. `sounding` is the state of each synthesizer
and `faulty` the ports on which a send failed since their last complete reset.

An operation that holds the gate is one step, because nothing else sends and
the poll reads the output either before or after it. Two operations are split:
an accepted `Write` (`WriteAccept`, then `WriteNoteOn`), since time passes and
the poll may reset a newly opened port in between, and a transition
(`CommitReset`, `CommitReplace`). The poll itself is `Discover`, then one of
`SelectNothing`, `SelectCurrent` and `SelectOther`, then the commit; it runs
without the gate up to the commit. `SelectOther` opens by number in a *second*
enumeration, as the helper processes do.

Assumptions: a send that returns nil took effect; one that fails may have taken
effect or not. `ManagerStop` needs `closed`, because both `supervise` and
`shutdownStartup` in app.go call `Runtime.Close` before they cancel the manager.
`Snapshot`, `discoveryOK` and `Ready` are left out: nothing here reads them.
Velocities and metrics are left out.

### Pipeline

One variable per queue and per goroutine; `capPc`, `packetPc` and `notePc` say
where each goroutine is. A Go `select` with several ready cases takes any of
them, which is why a worker may go on after cancellation. What the registry,
the selector and the mapper decide is a choice of `Process`: dropped, silent, or
a note. The note worker's sink may accept or reject.

### PolicyController

A *document* is the content of the file: a configuration (a rule value, a value
of the mapping defaults, a value of everything that needs a restart) and a byte
form. Its revision is a digest of its bytes, so the document stands for its own
revision. A hand-written form exists so that a no-op replacement (equal
configuration, other bytes) can happen. `outcomes` is the set of contents the
file may have after a power loss: a rename adds to it, a directory sync reduces
it to the new document.

`pc` walks one operation under `Controller.mu` through reading, comparing,
writing the temporary file, rechecking, renaming and publishing, so foreign
writes, kills and power loss fall between any two. `Failed` stands for every
error that is not a conflict (cancellation, lock, size, mode, input and
output) and leads to `Verify`, which is `markPersistenceUncertainty`. Most
refused requests change nothing and have no action; one whose token is unknown
names the empty revision (`None`), which `Reconcile` refuses. Two history variables serve the
properties: `drift` (the file was written since the controller last looked) and
`acked` (the last change acknowledged without a warning).

`world` is chosen once, in `Init`, from the constant `Worlds`: whether writers
ignore the advisory lock (`rogue`), whether publication may fail
(`applyMayFail`), and which of `kill` and `power` happen. The hook the shipped
program installs cannot fail; the code handles a failing one and its tests inject
it. `MCPolicyController` has two worlds: rogue editors with kills, and honest
writers with failing publication and power loss. `InSync` is claimed where
publication cannot fail: reconciling while it fails is the one case in which
rollback restores a document that is not the active one and still reports
`ready`. `NoLostUpdate`, `MutationKeepsEdits` and `RollbackIsExact` are claimed
among writers that take the lock; the repository promises nothing to others.

### Management

A client has at most one request at a time. Its record holds what the handler has
read so far, because the operation is split exactly where the code does not hold
`Controller.mu`: `Load` (readiness, active snapshot), `Prepare` (pending
configuration, token, placeholders), then `EnterRefused`, `EnterAdmitted` or
`EnterOverlay` under the lock, the steps of the transaction (`Transact`), and
`Respond`, which issues the ETag. A token is a keyed digest, so a document stands
for its own token; `known` is the bounded table that turns tokens back into
revisions and `issued` what clients have ever been given. `Verdict` lists the
reasons for a refusal in the order the code tests them. One cold field stands for
the three write-only secrets, another for everything else that needs a restart.
Failing publication and crashes are left to `PolicyController`.

### FlowPath

The path is sequential, on the goroutine of `processPacket`; what varies is the
timestamp of each frame (any, also earlier than the last), the policy and overlay
at each packet, and the readers of the registry between any two steps. The heap
is modelled as the sequence it keeps ordered, with an explicit `Place` (a flow is
taken out and put in front of the first younger one), so that a missing fix-up
shows. `RecentSnapshots` takes the order in which the Go map is iterated as an
argument and the property quantifies over all orders; `Scan` is its loop, which
keeps the newest so far, and the page is what it kept, sorted. `Collect` is the
loop that sorts rules into tiers and notes into a scale. Hashes are
abstract: a flow ID is an injective function of the key, and the draws for mode
and root are arithmetic on it. The logarithm of the velocity is the table
`Loudness`. The safety rules are built and compiled as app.go and policy.go do,
with reserved names made unique against the rules of the user.

### PeerHost

One handler goroutine per WebSocket. A connection is used once, so a handler is
named by its connection and `pc` says where it is between `beginSession` and
`endSession`. `sessionCount`, `sessions`, `nodes`, `generation`, `duplicates`
and `dupOrder` are the fields of `Host`; `inbound` is the count in
`PeerObserver`. Every section under `Host.mu` is one step and so is every call
between two of them that others can see, which is where the races are: the
hello and the registration, the registration and the report to the observer,
the clock reading and the duplicate check, the sink and the record, the lock of
`disconnect` and its report.

`Pruned` is the set of outcomes of `pruneNodesLocked`, because the sort is not
stable and map order is random. The duplicate check keeps map and order apart,
as the code does, since their agreement is what is to be shown. `up` holds the
connections that neither side has ended; a handler notices only when it reads.
Two history variables serve the properties: `took` and `admitted`.

Left out: what a node shows besides its state and accepted total, the checks
before the upgrade, notes refused for origin or age (they change only those
totals), and pings, which change the time of last activity. Sink.Write is an
outcome; that it is the MIDI runtime of the first module is left to a
composition.

### PeerEdge

`Run` is the loop `dial`, `select`, `write`, `over`, `backoff`; a session has a
connection with bounded buffers each way, a reader goroutine and its channel of
one message. A write waits for room: none of them has a deadline. A write that
fails may have delivered its message. A reader of an ended session stays until
its read fails or the whole edge stops, so all sessions have their own state.
`Host` is the loop of `ServeHTTP` as an edge sees it: it answers pings and may
reject notes, close, or stop reading. Whether a note is stale and when timers
fire is nondeterministic. Events refused by `validateEvent` never enter the queue,
so the later check of `NoteFromEvent` cannot fail and has no action.

### NoteStream

Publishers hold the read lock while they visit the subscriptions, one atomic
channel operation at a time (`Offer`, `Discard`, `Retry`); subscribing and closing
take the write lock. A handler is a loop over a ticker, a drain, `TakeDrops`,
`totals` and a write that may fail. Histories (`offered`, `shown`, `told`, `base`,
`author`) serve the accounting.

### Supervisor

One module for `RunWithOptionsAndDependencies` and `RunReplayWithDependencies`:
`conf` is any configuration that `Validate` accepts, as far as it decides which
components exist. Every starting step may fail. A component goroutine ends by
itself or after its cancel function was called, with any error it can return; an
error is the set of its leaves, of which the `normalize` functions remove the
expected ones. That the manager and the edge may end unasked is more than the
code does; `supervise` has a case for it, so it is modelled.

## 3. Runs

| Run | Shows | States |
|---|---|---|
| `midi_stable` | timers, silence, hanging notes, rate and refinement of `VoiceBank`, with stable port numbers | 811,554 |
| `midi_liveness` | every note ends, or its output is abandoned | 15,986 |
| `midi_hanging` | violation: a note survives a transition | |
| `pipeline` | accounting, order, draining, termination, capture never waits | 62,216 |
| `policy` | the controller tells the truth, one generation, cold fields fixed, no lost update, exact rollback, power loss | 1,319,274 |
| `peer_host` | sessions, nodes, limits, duplicate cache; Close returns, lost sessions end | 460,283 |
| `supervisor` | nothing left behind, order of shutdown, exact result, Run returns | 48,131 |
| `note_stream` | notes shown or counted, in order; nobody waits | 212,194 |
| `peer_edge` | delivery at most once, reconnection, shutdown, heartbeat | 367,785 |
| `peer_wedged` | violation: a host that stops reading leaves a ping pending | |
| `flow_path` | registry, safety rules and mapping under any timestamps | 283,151 |
| `management` | commits, answers and shutdown with two clients | 214,440 |

Some properties are conjunctions of named parts, each stated with its comment in
the module: `SnapshotsSound` and `SurvivesPowerLoss` (PolicyController),
`RegistrySound` and `CacheSound` (PeerHost), `StopsInOrder` (Supervisor),
`DeliverySound` and `NobodyWaits` (NoteStream), `DeliverySound` (PeerEdge),
`RegistrySound`, `NoFeedback` and `MappingSound` (FlowPath), `CommitsSound`,
`AnswersTrue` and `ShutdownClean` (Management).

Bounds and why they are enough:

* MIDI: two synthesizers (a transition needs an old and a new one), two
  channels with one pitch (a partial reset must be able to silence one and miss
  the other), three notes (a voice, its retrigger and one more against the
  limits), two durations (a callback late or early against a retrigger), a
  window of two ticks with two notes (so that the window slides). `Horizon` and
  `MaxNotes` bound the clock and the generations; the theorems have no need of
  them beyond being numbers.
* Pipeline: capacities 2 and 1, five packets: each queue fills, drains and
  fills again while the other is full.
* Policy: two values of the rules, the defaults and the restart-required part, one
  configuration in two byte forms. No counter is needed: the state space is
  finite, so the run covers operation sequences of any length over these values.
* Management: two clients, two requests in flight or one after the other, one
  foreign edit, a table of two tokens, so that a third document makes it forget
  one. The reads (config, pending, status, validate) are not bounded.
* Flow path: five conversations against a capacity of two, timestamps 1 to 4
  around a TTL of 3, three packets of a flow; lengths below, at and above what the
  formulas clip; policies with disabled, pinned, catch-all and reserved rules.
* Peer host: two edges and two connections against limits of one (a session and
  its replacement, or a stranger), one note per edge, TTL 1; `MaxTime` 2 is just
  beyond the TTL and `MaxAdmitted` 2 allows the repetition that must not happen.
  A third connection is covered by the theorems, which hold for any number.
* Peer edge: a queue of one, two notes and two sessions, so that a note meets a
  full queue, a failing write and a second session; a backoff from 2 to 3, so that
  doubling meets its limit. A link of four holds everything that two notes and a
  pending ping can put on it: there the heartbeat works. `peer_wedged` has a link
  of one.
* Note stream: two publishers, one viewer, a buffer of one and three notes: both
  publishers meet the full buffer at once and one goes on. Viewers do not
  interact except through the lock.
* Supervisor: all configurations; one request in flight, which may outlast the
  drain.

Fairness. `midi_liveness` assumes that time passes, expired timers fire, and a
goroutine that holds the gate goes on (weak fairness), and that a waiting
callback is not overtaken for ever (strong fairness per callback: receivers of a
Go channel are served in arrival order). Nothing is assumed of polls, operators
or replugs. `pipeline` assumes only that the capture loop runs, which contains
that `source.Next` returns (it takes the context); `Terminates` adds, as its
premise, that the workers run and that `Sink.Write` returns, which
docs/pipeline.md demands of sinks. `peer_host` assumes that a handler goes on
where it needs no frame of its edge: the handshake has a timeout, and a read
from a connection that is gone fails at the latest after `hostIdleTimeout`. An
edge may keep a healthy connection busy for ever. `peer_edge` assumes that the
edge's goroutines run, that a dial ends once the context is cancelled, and that a
`select` does not ignore its ticker or its context for ever while other cases are
ready (strong fairness: Go chooses among ready cases at random); nothing is
assumed of the host or the network. `note_stream` assumes that publishers and
handlers run; a write that blocks ends at the latest when the lifecycle context it
was given is cancelled, and no property depends on its ending before.
`supervisor` assumes that the supervising goroutine runs, the first discovery
ends, and a cancelled component ends, which the other models show of theirs.
`management` assumes that handlers run, the mutex is handed over, and file
operations return.

Findings. (1) `midi_hanging`: after a renumbering the newly opened output can be
the synthesizer in use; it is reset before the gate is taken, a note starts, the
reset of the old output fails, and the note is left on the published output.
(2) `peer_wedged`: notes and pings are written without a deadline, in the loop that
also serves the ticker. When the host stops reading and the connection is full,
the pending ping is neither answered nor timed out, and the session is not
replaced until the operating system gives up the connection.

Observations that are not runs, for whoever changes this code:

* `ReportedDeviceIsOpen` fails with `ShiftingLists`: a device is selected in one
  enumeration and opened by number in the next (manager.go:222).
* `FallbackSilencesChannel` fails: a failed Note Off closes the output, so the
  fallback that docs/midi.md:20 promises reaches no device; the reset when an
  output is opened again does the work.
* `GaugeSettles` fails: connections are reported outside the registry's lock. A
  registers, B of the same edge replaces it and disconnects (clamped at zero), then
  A reports "connected" (metrics.go:112). Only a metric is wrong.
* Publishers of the hub may drop a *new* note when a second one refills the buffer
  between `Discard` and `Retry`; it is counted.
* A token that was forgotten is answered with 412 and may carry the very ETag that
  the client sent. docs/management-api.md:71 and 162 say that validation names the
  active revision; the code names the pending one when there is one.
* A pending configuration that is cancelled and staged again with the same bytes
  has the same revision, so a request prepared before is accepted after it.
* While the controller is out of sync, a placeholder resolves to the active secret
  and not to the one in the edited file.
* A note is named by origin, flow and packet number (mapper.go:95). A flow that was
  evicted and returns numbers its packets from one, and a host suppresses those
  names while its cache is fresh.
* The peer protocol carries whole milliseconds; an edge refuses a note whose
  duration has a fraction (protocol.go:224).
* The address an edge excludes from capture is resolved once, at the start
  (runtime_peer.go:108); a lookup ended by cancellation is reported as a failed
  start.

## 4. Proofs

Some invariants are proved and no longer repeated in a run: the type invariants of
`MidiRuntime` and `Pipeline`, `PolyphonyBound`, `NoLayeredNote`,
`ReportedDeviceIsOpen`, `NothingInFlight` and `QuietAfterClose`.

All theorems hold for every value of the constants that satisfies the named
assumptions of the module; those are limits that the constructors enforce.

**MidiRuntimeProof.** `TypeCorrect`, then `TimersStayOwned`: its invariant adds
that generations never exceed `nextGen`, so that a fresh timer cannot share one,
and that expired callbacks carry generations already used; without that, a
retrigger could meet an old callback of its own generation.
`OnlyActiveNotesSound` needs what `sounding` may hold in the middle of a
transition and of an accepted write. `PolyphonyBounded` needs finiteness of the
set of voices and that an accepted note leaves room for itself. `RateBounded`
relates `recent` to `played`: the window is always a suffix of the history, and
what was pruned is too old to matter. `NoHangingNotes`,
`ReportedDevicesAreOpen`, `NoLayeredNotes` and `RuntimeImplementsVoiceBank`
assume `StablePorts`, which says that no replug gives a known number to another
name; `midi_hanging` shows that the assumption is needed for the first.
The refinement maps what is heard on the selected output to `VoiceBank`.

**PipelineProof.** The inductive invariant joins the types, the accounting
equation, an invariant of the shutdown order (a queue is closed only when its
producer is done), one that keeps packets in a line from the source over the
queues to the sink, and the prefix relation between mapped and offered notes.
From it follow `PacketsConserved`, `NothingLost`, `NotesInOrder` and
`FiniteSourceDrains`. TLC checks the invariant too.

**PeerHostProof.** The inductive invariant `Inv` has five parts. `Inv1`: types,
what a handler knows where it is, the session counter, and the cache. The cache
part says that `dupOrder` is a suffix of the admitted notes and that what fell
out of it was pushed out by `DuplicateCapacity` others or is older than the TTL
*now*; it holds although entries carry times read before the lock, because such
a time is never in the future. `SessionInv`: the tracked sessions are the
handlers between track and untrack. `NodeInv`: generations are unique, so a
node's generation names one handler, and the node is connected exactly while
that handler is registered and has no successor. `AbsentInv`: a removed node has
no generation, so no late handler finds its own. `RegistryBound`. `TypeCorrect`,
`NodesFollowNewest`, `RegistryBounded`, `AcceptedAreTaken`,
`CloseReachesSessions`, `CacheIsIndexed`, `RepeatsSuppressed` and
`QuietOnceClosed` follow, and from them `RegistryStaysSound` and
`CacheStaysSound`, the properties of the run. The bounds `MaxTime` and `MaxAdmitted` are arbitrary
numbers there.

**ManagementProof, on `PolicyController`.** `Inv` joins the types, what the operation in progress
knows (`OpTyped`, `OpSound`), `FileHeld` (among writers that take the lock the
file stays what it was when compared), `LastLook` (while nothing foreign was
written the published state fits the file, except between the rename and the
publication, when the file is ahead), `SurvivesPowerLoss` and `Unacked` (a rename
ends the acknowledgement of the change before it, without which `AckedSurvives`
would not survive a rename that is not synced yet). The three invariants of the
run follow; the four action properties follow from the invariant and one step.
`Bad # Torn` is assumed: a file that is rejected and one that is torn are told
apart by `SurvivesPowerLoss`.

**ManagementProof, on `Management`.** `ManagementImplementsController`: each step of the API is a
step of `PolicyController` or leaves its variables alone, so `Inv` is an invariant
here too. The operation of a request whose token was forgotten names the empty
revision, which is why `PolicyController.Next` admits `None` as expected revision.
`ManagementInv` adds: tokens name documents; the client inside is the one that
holds the lock and, after the cancellation, the one that held it then; what a
handler has prepared is what was sent, with set secrets resolved
(`RequestSound`); the operation in progress is the one the holder asked for
(`Performs`); a request that changed the file is on its way to an `ok`
(`WroteInv`); what is staged has the active secret (`PendingInv`, needed because a
placeholder resolves against the pending configuration). What each mutation does
to the list of rules (`CreateAsAsked`, `ReplaceAsAsked`, `DeleteAsAsked`,
`ReorderAsAsked`) is proved by indices, not by induction. The theorems are
`ClientsAreToldTheTruth`, `SecretsStay`, `CancellationAdmitsNothing` (the safety
half of `ShutdownClean`) and `CommitsDoWhatWasAsked`. The last one assumes that no
world has writers that ignore the lock; `NoLostUpdate` is false among those.
Assumptions: rules are lists without repeated identities, requests were decoded,
and a mutation that `Validated` accepts gives valid rules (`RulesAssumption`,
`RequestsAssumption`; TLC evaluates them on the requests of the run). A transaction
whose publication fails stays where it is in `Management`; what becomes of it is in
`PolicyController`.

**SupervisorProof.** `TasksInv` says for each goroutine between which steps it can
be alive, `ThingsInv` the same for what is open, `StartInv` that nothing has gone
wrong before the first reason to stop. `ResultInv` says that the error so far is
the troubles met so far plus what was learnt from joined components, and that a
component that still runs has no outcome; `ResultExact`, which speaks of the
return only, needs it at every step.

**NoteStreamProof.** For the accounting: publishers visit a subscription at most
once per note, clients are the viewers between Subscribe and Close, and
`CountInv`: what a viewer was offered, what came before it, and what publishers
have counted but still wait to hand out are different notes, so the sum is at
most `notes`. That makes the total of a batch cover the batch. `Publishers` is
assumed finite, being goroutines. `BrowsersSeeOrder` needs `FreshInv`: a viewer
holds no later note of a publisher than the one that publisher is handing out,
and none as late while it is still owed that one.

**PeerEdgeProof.** `PlaceInv` puts all notes in one line: what arrived is behind
what is on the wire of the same session, that behind the hand, that behind the
queue, and all of a later session behind all of an earlier one. A failing write may
have delivered its note; since the note has left the hand it cannot be sent again,
so `ReceivedOnce` holds although the edge does not know. `Accounted` is inductive
with the types.

**FlowPathProof.** The registry, the selector and the mapper loop over lists, and
the model folds over them. What a fold computes is proved without an induction
theorem that takes an operator: a *set* of numbers that is not empty has a least
member, since `<` on the naturals is well founded (`LeastNatural`,
`SetInduction`), and `Recursion` says from this that a fold runs along its list
one element at a time. So `CollectIs` gives the members and the order of a tier
and of a scale, `ScanIs` says that a scan in any order keeps the newest flows
(`KeepNewest` is its step), and `PageIs` that sorting them gives one page.

`Heap(flows, oldest)` says that the list is sorted by the order of
`entryHeap.Less` and has the flows of the map as its elements; `HeapPlace`,
`HeapSame` and `HeapDrop` say that an update, a late packet that changes no time,
and a removal keep it. The inductive invariant adds to it what is true of the
packet in hand. `ExpiredInv`: after expiry, which empties the front of the heap
and relies on its order, no flow is TTL older than the packet. `ObservedInv`: so
the pause that `Observe` measured is shorter than the TTL, which `GapWithinTTL`
needs two steps later. `NoteInv`: a note is what some policy and overlay make of
the packet. `RegistrySoundAlways` and `RemovalsExactAlways` follow from the
registry's part.

For `NoFeedbackAlways`: `UniqueRuleID` finds a free name, because there are more
candidates than rules; so the rules of the safety tier have distinct names, the
selector accepts them, and each packet of the own ports meets one of them before
any rule of the user. For `MappingSoundAlways`: a scale is strictly rising and in
range, and the mirror image of a packet adds another offset modulo the length of
the scale (`ModShift`). Of a flow ID the proofs use only that it is a number
determined by the key, so they do not rest on the digest being injective.
Assumptions: frames hold numbers or a missing address (`FramesAssumption`), ports
and peer addresses are numbers, the logarithm is tabled for the lengths that
occur, and a configuration has a list of rules with the fields of the Go structs
(`PoliciesAssumption`). Policies need not be valid: packets meet the `Published`
ones only, each with the selector compiled from it.

TLC has checked the inductive invariants as well, on the instances of the runs (the
one of `PolicyController` on that of `Management`, and the heap of `FlowPath` with
the equality of the two sets in place of the equivalence for every `x`).

**Only model-checked.** Liveness under fairness (`NotesEnd`, `Terminates`,
`CaptureNeverBlocks`, `CloseTerminates`, `LostSessionsEnd`, `Returns`,
`NobodyWaits`, `Stops`, `KeepsTrying`, `PingSettles`, the second half of
`ShutdownClean`), which the prover does not handle.

## 5. Not modelled, and the plan

`PROJECT.json` gives the reason for each part left out.

* The MIDI helper process: its outcomes are choices in `MidiRuntime`; framing,
  timeouts and the life of the child process are not modelled.
* The pacing of a replay, which only delays packets.
* Requests of the management API that are calls of another module (audition and
  panic are `MidiRuntime`) or listings without state (interfaces, peers).
* What rejects a request or a message before it has any effect: size limits, JSON
  and YAML checks, loopback and origin tests, the frames of the peer protocol.
  This is sequential code with table tests.
* Metrics other than the one gauge of `PeerHost`, capture drivers, the command
  line and the web application: counters and plain input and output.

Next, in this order:

1. `PeerLink`, the composition of `PeerEdge` and `PeerHost`, with names of notes
   from `FlowPath`; abstract specification: each note is played at most once, in
   the order of its edge.
2. `MidiProcess`: the helper's requests and timeouts, shown to implement the send
   outcomes that `MidiRuntime` assumes; the pacing of a replay.
