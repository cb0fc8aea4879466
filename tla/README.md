# A TLA+ model of fez

fez is a command line program that manages a Linux host through
`cockpit-bridge`. One invocation parses its arguments, spawns a bridge (on this
host, or over ssh), performs one capability by D-Bus calls through it, prints an
envelope and exits. fez keeps nothing between invocations. It has two threads:
the main one, and one that reads the bridge's stdout.

What is hard about it is therefore not its own concurrency but the other side's.
The bridge multiplexes channels, may answer late, out of order, with an error on
either of two layers, or never, and may die at any moment; the daemons behind it
keep working on a call after fez has given up on it; and a mutation that takes
several calls can stop between any two of them. The models are about these.

All source paths below are relative to the crate's `src/`.

## Inventory

| Component | State | Operations | Hard part | Correct when |
|---|---|---|---|---|
| Bridge client (`protocol/connection.rs`, `client.rs`, `frame.rs`, `message.rs`, `lib.rs`) | frame queue, reader thread, channel counter, cookie counter, `escalated` | `connect`, `dbus_open*`, `dbus_call`, `dbus_call_collect`, `stream_*`, `metrics_collect`, drop | late, lost and foreign frames; deadline per frame; death of the bridge; SIGPIPE | a caller gets the outcome of its own call, whole, or an error; every call ends |
| Escalation (`client.rs` `escalate`) | `escalated` | `superuser_bridges`, `superuser_start` | a mechanism that succeeds after its start timed out | at most one root peer, only a permitted one; a denial is final |
| Audit (`audit.rs`) | none (writes records) | `run_audited` | death between the two records; an error that is not one | nothing before the attempt record; `ok` only when all is done |
| Service mutations (`capabilities/services/mutations.rs`, `mod.rs`) | none | eight mutations | up to three calls per mutation; systemd's stale cache | the gates hold; a success is one; a refusal is final |
| Package mutations (`capabilities/package/`) | dnf5daemon session, PackageKit transactions (remote) | install, remove, upgrade | two backends; a plan that goes stale or cannot be read whole; sessions to close | guardrails hold; one backend; no session left |
| Safety policies (`safety.rs`) | none | predicates on units, packages, firewall changes | what a policy is shown is older than the change it allows | each policy refuses what it should |
| Firewall (`capabilities/firewall/`) | runtime and permanent configuration (remote) | add, remove, set-default, reload, confirm, panic, status | two configurations read by seven calls and compared, while others change them | the session stays reachable; a reload discards nothing unseen |
| Power (`capabilities/system/power.rs`) | none | reboot, poweroff, suspend | the bridge goes with the host | gate and audit as for services |
| DNS (`capabilities/dns/`) | none | status, query, flush | two services; links that vanish | flush audited; fallback on absence only |
| Reads: packages, network, storage, services, journal, system, sessions, firmware, subscription, firewall | none | 35 commands: list, then ask about each | objects that come and go between two calls; interfaces an object lacks; odd replies; pages | nothing missed, nothing invented; an error says what is the case |
| Errors and envelope (`error.rs`, `envelope.rs`) | none | error → code → exit code | absent service against failed call | documented exit codes |
| Transports (`transport/`) | none | build the command line | quoting, options | spawns the intended bridge |
| CLI, schema, guide | none | declarations, static documents | - | - |
| `bin/fake_bridge` | - | test double of the bridge | - | - |

Components meet in one place: every capability calls the bridge client, and every
mutation wraps its calls in the audit trail and escalates once per connection.

## Modules

    BridgeCall  <---implements---  BridgeClient              (BridgeClientProofs,
        ^                                                     BridgeQueueProofs)
        | INSTANCE
    Escalation                                               (EscalationProofs)
        ^
        | INSTANCE
    ServiceMutation  PackageMutation  Firewall  HostCall     (ServiceMutationProofs,
        |                 |              |         |          PackageMutationProofs)
        +-----------------+--------------+---------+---implement--->  AuditedMutation
                                         |         |
    DeviceReads  SystemReads             +----+----+
    SoftwareReads   (programs)                |
        |                                     v
    ReadPrograms --> Reads ----------->   Dispatch           (DispatchProofs, ReadsProofs)

`BridgeCall` is the contract between the two layers: what a capability may rely
on when it makes a D-Bus call. `BridgeClient` is shown to implement it, and the
mutations are modelled on top of it, so each of them is checked against every
behaviour the real client has (loss, late execution, death by signal), without
carrying its queues along.

**BridgeCall.** `ran[k]`: what the service did with call `k`; `answer[k]`: what
the caller was told. A call is sent at most once, performed at most once and
possibly after its caller gave up; the answer is the outcome of that very call
or "failed", which says nothing. Writing to a bridge that is gone kills fez.

**BridgeClient.** The main thread (`client`, `cur`, `nextOp`, `next_channel`,
`ops`), the reader thread (`reader`), the pipe and the mpsc queue between them
(`pipe`, `rx`), and the bridge with the services behind it. One action per way an
operation starts (`Call`, `OpenAndRun`, ...), per receiving loop
(`RecvInit`, `RecvCall`, `RecvCollect`, `RecvStream`, `RecvMetrics`), for the
per-frame deadline (`RecvTimeout`), for the closed queue (`RecvDisconnected`) and
for the reader (`ReaderForward`, `ReaderEof`). A frame is a record: the layer
(control or data), its channel, the operation it belongs to, its verdict. The
operators named `...Verdict` and `...Takes` are the bodies of the `match` blocks
of the receiving loops. The services, the bridge's routing and its faults
(unparsable data, unparsable control, framing errors, exit) are external, and nothing is assumed of
them but that the bridge is FIFO and addresses a reply with the cookie it was
given.

**Escalation.** `escalate()`: the read of `Bridges`, the choice of candidates
(`FEZ_ESCALATION`, the safe list, the bridge's order), and one `Start` after the
other. `esc` is where it stands, `rest` the candidates left.

**AuditedMutation.** What the trail promises for every subsystem: no step of the
mutation before the attempt record, at most one result, `ok` only when all steps
are done. It deliberately promises nothing about `error`.

**ServiceMutation.** From the parsed request to the exit: the unit's name
(`validate_unit`), protected-unit policy, dry run, prompt, attempt record, connection, escalation, the one to three
systemd calls of the operation, result record. systemd's `file` (enabled on disk)
and `cached` (its `UnitFileState` until `Reload`) are the state the properties are about.

**PackageMutation.** dnf5daemon first (session, stage, resolve, guard,
transaction, close), PackageKit when dnf5daemon is absent (Resolve, Simulate,
guard, execute, each in a transaction of its own). `world` is the plan the
request comes to on the host as it is at the moment, and it changes at any time;
`goal` is the plan a daemon has reported, `plan` the one fez looked at, `applied`
the one carried out. A daemon can leave the host at any moment (`DaemonLeaves`); `unknown` are
the calls the bus then refused with ServiceUnknown, which is all that fez knows of it. So
`DependencyMissing` can also come from the `CreateTransaction` behind the attempt record, and
`RefusalIsFinal` says that even then no transaction was run and no result claims one. A plan is a set of items; `ParsePlan` and `PlanFrom` are the
removals `parse_plan` and `plan_from` read in it, which drop an item that does
not decode, and differ about the version an upgrade replaces.
`CheckRemovalPlan` is `check_removal_plan` with its cascade limit.

**Firewall.** The mutations of `mutations.rs` and `status`. `Script` is the
sequence of calls a command makes. `told` is what fez read in firewalld's replies, without the
entries of an unexpected shape, all of them if the reply is not a list (`told.dropped`);
`runtime`, `permanent`, `default` and `panic` are firewalld's own state, which
`Interfere` and `ChangeDefault` change between any two calls (another program,
another fez, the end of a `--timeout`). `Drift` is `compute_drift`, `Risky` what the guards
refuse without `--force`. A permanent configuration that may not be read
(`config.info`) sets `unreadable`, which `reload` takes for drift. `cut` and
`discarded` record the harm the guards are there to prevent, and `touched` what others
changed after fez had read it. No guard can know of that or of what was dropped from a reply,
and the properties except both (`Missed`). A `getDefaultZone` of another type than a string is not modelled: fez
would ask for the zone "", which firewalld refuses. The session comes in through `Carrier` in the zone
`req.home`.

**HostCall.** The mutations made by one call: `power.rs` (gate, capability query,
escalation, call, a bridge that dies with the host) and `dns/flush.rs`.

**Reads.** Every read command has the same form: some calls, one of which lists
objects, then calls about each object. `ReadSteps` is the vocabulary for writing
a command down (which call, which troubles it deals with, which properties
its decoder insists on, what is kept, when it stops); `DeviceReads` (storage,
network, DNS), `SystemReads` (system, sessions, firmware, subscription, services,
journal) and `SoftwareReads` (packages on both backends, firewall) are the
commands; `Reads` runs one of them against a host. Every `?`, `match` and
`filter_map` of the code is a choice in one of the programs: a `?` is a trouble the
program does not mention, which becomes what `errors` says (`ServiceMapped`,
`AbsentMapped` and `FirewallMapped` are `map_service_unknown`,
`map_absent_service` and `map_fw_error`); a `continue` is `"skip"`; an
`unwrap_or_default` is `"without"` or `"empty"`. The host may be without the
service or lose it between two calls, refuse any call, reply with a shape that was not expected, or
never; objects come and go between two calls, and a reference can lead to one that is gone or of another
kind, which `storage show` shrugs off and `network` does not (`Strays`). `ProgramsFit` says what every program keeps to (which
troubles may lead to another service, be passed over or be taken for an empty reply, and where); the table of
programs has no parameters, so TLC decides it once and for all, as `ProgramsAssumption` of `Dispatch`.

**Dispatch.** One invocation, dispatched to `Firewall`, `HostCall` or `Reads`
(`dispatch.rs`), which share its `stage`, `exit` and calls. What holds
of every command (the trail, the refusals, the end) is stated once there.
`ServiceMutation` and `PackageMutation` are checked on their own: they share no
state with the others, and an invocation runs one command.

The modules named `MC...` give the constants values. A definition whose comment
starts "Mutant of" is a plausible slip in the definition below it, kept to show
that a property would notice it; no behaviour of the system uses it.

## Runs

| Run | Question | Bounds |
|---|---|---|
| `client_calls` | Does every caller get its own answer, whole, with every fault of the bridge; is `BridgeCall` implemented? | handshake and 2 operations on one channel, a queue of 3 frames, 1 noise frame, every fault |
| `client_streams` | Do streams, metrics and calls on two channels keep apart; does every operation end? | handshake and 2 operations, 2 channels, 3 items per stream (a metrics meta message and two batches), two close problems and a normal close, bridge exit |
| `client_timeout` (violation) | Does a timeout mean that nothing answered? | a collecting call |
| `escalation` | Who becomes root, and does it end? | every list over two safe mechanisms and one unsafe, every override |
| `service` | Gates, order of calls, truth of success and refusal, audit, end | eight mutations, all flags, names valid or not, two mechanisms |
| `package` | Guardrails, one backend, closed sessions, truth of success, audit, end | every combination of installed daemons and flags, either daemon leaving at any time; five plans (harmless, upgrade of a protected package, obsoleting one, cascade, unreadable), any of them at any time |
| `package_dryrun` (violation) | Does a dry run apply the guardrails? | as `package` |
| `package_trail` (violation) | Does an attempt get its result? | as `package` |
| `dispatch` | Firewall, power, DNS flush and every read: does fez cut itself off or discard work it could have seen; do pages, listings and errors tell the truth; audit, refusals, end | see below |
| `firewall_reload` (violation) | Is a reload refused whenever it would lose work? | the firewall part of `dispatch` |
| `journal_newest` (violation) | Are the entries shown the newest? | the reads of `dispatch` |
| `storage_bytes` (violation) | Is `NotFound` the absence of the device? | the reads of `dispatch` |

Why the bounds are enough. A frame can be mistaken for another one only across
two operations, two channels or two paths; two operations after the handshake
with reused and fresh channels have all of them. A queue of two or three frames
holds a late reply, the frame waited for and one that comes after it. The
escalation has no state but the list and the calls, and three mechanisms give every
order of an unsafe one among two safe ones. A service mutation has at most three
calls and each exists once; a package mutation likewise. `MaxNoise` and `MaxItems`
bound what a bridge may write, and with them the "chatter" that restarts the
per-frame deadline. In `package` a limit of one makes a cascade of two packages, and
each plan is one verdict of the guardrails or one way around them.

In `dispatch` there are two zones (the default one and another; a command names at
most one), the service that carries the session, one other port and one kind of item
that `compute_drift` does not look at. `MaxChanges` is 1: the comparison
goes wrong, if at all, by one change between two of its reads, and a change that
undoes another leaves less to be wrong about. The start configurations are without drift, with it in what is
compared, and with it in what is not. Add, remove, ports, services and masquerading are one shape of
command in the code and in the model. A read has at most three objects, of which the first may be
odd or lack an interface; `MaxMoves` is 1, one object that comes or goes at any moment.
The hosts have at first none of the services, the first choice of each command, or the fallbacks
only; any of those a command uses leaves at any moment, and none comes back, because what fez said of an
absent service is about the time it asked. `Word` is 8, so that `offset + limit` wraps; no length comes near it
otherwise. One escalation mechanism is enough here: `escalation` varies them.

Fairness. `FairSpec` assumes weak fairness of the client only: of the main thread
and the reader thread in `BridgeClient`, whose deadline (`recv_timeout`) makes a
step possible whenever nothing arrives, and of the capability's own steps in the
other modules, where a waiting call can always fail, which is what
`OperationEnds` shows of the client. Nothing is assumed of the bridge, of a
mechanism or of a daemon. Note what `OperationEnds` leans on: the deadline is per frame, so a
bridge that writes frames for ever, each within 30 seconds, is outside the bounds, and
the code has no answer to it. A stream opened to follow the journal has no end of its own and is
not among the commands of `Reads`.

### What the violations show

* `client_timeout`: `dbus_call_collect` skips error replies. A transaction
  method that is refused is waited for until the deadline and reported as
  "The bridge did not respond before the deadline".
* `package_dryrun`: both backends return the dry run's plan before
  `check_removal_plan`; `docs/reference/dry-run.md` promises exit 10.
* `package_trail`: PackageKit's `mutate` creates the execution's transaction with
  `?` between the attempt record and the code that writes the result record.
* `firewall_reload`: `has_drift` compares the services, ports and masquerading of the
  default zone. Uncommitted changes elsewhere, or of another kind, are lost by a reload
  that `docs/reference/firewall.md` says is refused. What the guard does look at, it
  looks at properly: `ReloadKeeps` and `DriftSeen` hold.
* `journal_newest`: `journalctl --lines N+1` gives the newest entries oldest first, and
  `truncate(N)` drops the last of them, which is the newest entry there is.
* `storage_bytes`: `decode_ay_path` knows the byte array as a JSON array only;
  as base64 every device has an empty path, and `storage show` finds none.

### What the models show besides

Behaviour that contradicts no property checked, or that is outside of what the runs
claim, but that a reader of the code should know of.

* An `error` record does not mean that the operation is over or undone: the daemon
  may perform a call after fez has recorded its timeout (`AuditedMutation` allows it,
  and needs to).
* PackageKit resolves anew for the execution, so the plan that passed the guardrails
  need not be the one carried out; `GuardHolds` claims it for dnf5daemon only. Even
  there it claims that nothing protected leaves the host only of a plan whose items all decode.
  Nothing in fez holds against either, so neither hazard has a property.
  An upgrade of a protected package is a removal for dnf5daemon ("Replaced") and is none
  for PackageKit. `docs/reference/packages.md` lists fewer protected packages than `safety.rs`.
* A write to a bridge that is gone kills fez by SIGPIPE (`lib.rs:68`), without envelope
  or result record; every mutation has that outcome, `killed`, and `AttemptEnds` and
  `InvocationEnds` promise nothing about the trail then.
* An entry of a firewalld reply that does not decode is dropped without a word (`firewall/zone.rs:50-55`,
  `firewall/mod.rs:282-291`), so `reload` takes a drift it could not read for none.
* A D-Bus error of the read of `Bridges` ends as `dbus-error`, where the escalation
  documents `access-denied`. A closed channel that was not authorised or not supported, and a malformed
  reply, end with the exit code of a missing target (`error.rs:199-222`).
* `--dry-run` is not looked at by the firewall's mutations, the power actions and the DNS flush.
* `--offset` plus `--limit` beyond the machine word panics in a build with overflow checks,
  past `close_session` (`PageExact` allows exactly that), and with `--limit 0` the
  `next_offset` never advances.
* A reply of an unexpected shape is often taken for an empty one (`getZones`, `Rpm.list`,
  device lists, `LaxStep` and `Lax` in the programs), and the command says that nothing is there.
* An object that vanishes between its listing and its read ends `storage list`,
  `network list`, `system sessions` and `firmware upgrades` with its error, and is passed
  over by `dns status`. A session without an object path is left out without a word.
* `services status` asks `GetUnit`, so a unit that exists but is not loaded is "not found".
  `journal --boot` with a word that is no number means the current boot.
* `packages upgrade` without names, which `cli.rs:389` says upgrades everything, asks PackageKit to
  resolve no names, so that the answer is `NotFound` when nothing comes of it (`packagekit.rs:617`).
  The doc comment at `packagekit.rs:604` gives `DangerousTransaction` exit 8, `error.rs:216` gives it 10.
* Over `--host`, the port of the remote sshd is unknown to `session_ports`.

## Proofs

`BridgeClientProofs`, checked by TLAPS for every value of the constants:

* `TypeCorrect`: `Spec => []TypeOK`.
* `AnswersAreOwn`: `Spec => []AnswerIsOwn`. A D-Bus operation's outcome is what the
  service did with that operation. Not inductive: a reply in the queue could say
  anything. The strengthening says of every frame in the pipe and in the queue
  that what it says of operation `k` agrees with `ran[k]`, that only operations
  already started have frames, and that the operation waited for is the only
  pending one. That is exactly what cookies and channel numbers are for.
* `Implements`: `Spec => Contract`, the refinement of `BridgeCall`. It rests on
  the two theorems above: a step that settles an operation maps to `Return` or
  `Fail`, a write to `Send` or `SendKills`, a service's work to `Perform`, and all
  else to a stutter.

`BridgeQueueProofs` extends it to what operations gather and to what the queue holds:

* `CollectionsAreWhole` (`CollectedWhole`), `SamplesStayBounded` (`SamplesBounded`), `ClosesAreOwners`
  (`CloseReportedByOwner`) and `AnswersAreKept` (`AnswerKept`). The argument sees the pipe and the
  queue as one sequence, `queue`, to which the bridge appends and from which the client takes; the reader thread
  leaves it alone. `FramesOwned` says of every frame in it something about an operation or a channel
  that stays true: a frame rides on the channel of its operation, a close says what became of its
  channel. `Sequenced` says of the operation that is waiting that the sequence holds just the items it has not taken,
  each once and in order, with the marker of the end behind them. `Results` is what the outcomes
  then are, and `AnswersQueued` that a reply written and not yet read is in the sequence, unless the framing
  broke. `Channels` underlies all of them: numbers are given once, and only D-Bus operations share a channel.

Their assumptions are `BoundsAssumption` (the bounds are numbers) and `KindsAssumption` (the
kinds of operations and faults are those the code knows, and no problem code is called like a state of a
channel).

`EscalationProofs`, for every set of mechanisms, list and override:

* `TypeCorrect`, `ConsentKept` (`RootByConsent`), `PeerIsOne` (`OneRootPeer`),
  `PeerIsBest` (`BestPeer`) and `DenialIsFinal` (`DeniedIsFinal`). None of the four
  properties is inductive: each speaks of what the bridge has done, or may still do,
  with calls fez no longer waits for. The strengthening `Inv` says that of
  all mechanisms asked to start every one but the first of `rest` has refused
  (`OneInHand`), that what was asked was permitted (`Consent`), and that without an
  override `rest` is the tail of the bridge's list, every safe mechanism before it
  having refused (`PassedRefused`). A mechanism whose start timed out stays the
  one in hand for ever, and that is why giving up instead of going on to the next
  mechanism is what makes `OneRootPeer` true.

The only assumption is `MechanismsAssumption`: the safe mechanisms are mechanisms,
a list names no mechanism twice, and no mechanism is called `off`, `Bridges` or
nothing.

`ServiceMutationProofs`, for every list of mechanisms and every override:

* `TypeCorrect`, `GatesHold` (`Gated`), `RefusalsAreFinal` (`RefusalIsFinal`), `LoadsFirst`
  (`LoadedFirst`), `SuccessHolds` (`SuccessIsReal`) and `AuditHolds` (`ImplementsAudit`, the refinement of
  `AuditedMutation`). The strengthening has a part for each argument: which
  gates a stage lies behind (`GatesFirst`), that systemd's calls are made one after the other behind the
  root peer, each after those before it were performed (`PeerThere`, `InOrder`), that the trail is as
  long as the stage says (`OnRecord`), and what has become of the unit (`InEffect`): once the
  call on the unit files was performed `file` has the requested value, and once `Reload` was, `cached`
  has it too. `InEffect` is about what was performed and not about what was answered, because a call
  may be performed late; that the next one is only sent after an answer keeps them in order.

`PackageMutationProofs`, for every list of mechanisms, override, set of plans, set of protected names and
cascade limit:

* `TypeCorrect`, `RefusalsAreFinal`, `GuardsHold` (`GuardHolds`), `OneBackendServes` (`OneBackend`),
  `SessionsClose` (`SessionClosed`), `SuccessHolds` (`SuccessIsReal`) and `AuditHolds`. The
  argument is about paths: the two backends are two sequences of calls with `open_session` in common
  (`Reached`, `Paths`). `OnPath` says that whatever was sent lies on the path to the call
  fez is at, and that PackageKit's path is taken only where the bus did not know dnf5daemon, which is gone for good; `InTurn` ties the trail and the exit to the
  place; `Guarded` says that the calls that change packages were sent beyond the guardrails and on
  record; `AsPlanned` that the plan shown is the session's goal and the goal is what was applied.
  `WorldChanges` can interfere with none of it, because the goal is fixed by `resolve`.
  `LegibleLeaving` carries the verdict from what fez read to what leaves the host.

Their assumptions are `CallsAssumption` (no mechanism is called like a method),
`EscalationAssumption` (as above) and, for packages, `PlansAssumption` (plans are finite sets of
items, no plan is called "none"). TLC evaluates all of them in the runs.

`DispatchProofs`, for every set of zones, items, carriers, configurations and requests, and however often other
programs change the configurations (`MaxChanges` is any number):

* `DriftIsSeen` (`DriftSeen`), `SessionStays` (`SessionKept`), `ReloadsKeep` (`ReloadKeeps`),
  `RefusalsAreFinal` (`RefusalIsFinal`) and `AuditHolds` (`ImplementsAudit`), from `Invariance`. For the firewall,
  `InOrder` says that the calls are sent in the order of `Script` and that those behind were answered;
  `Gated` that the change is sent as a root peer, beyond the guard and with nothing the guard refuses;
  `OnRecord` which records are written at which stage; `Applied` that nothing is lost before fez
  makes its change. None of it would do without `Accurate`, which is about the reads one by one: what
  a read told of an item is still so, or the item was `touched` since or dropped from the reply. With `InOrder` it carries the verdict of
  the guard, which looked at seven replies of different ages, to the moment of the change, and
  shows where it cannot be carried: exactly the items that were `Missed`, which the properties except.
  `HcInv` is the corresponding invariant of the power actions and the flush, and a read never
  writes a record.

`ReadsProofs`, for every query, set of services present at first, word size, whichever services leave, and however often objects (at most three,
as in the runs) come and go (`MaxMoves` is any number):

* `TypesHold` (`TypeOK`), `ListingsAreFaithful` (`Faithful`), `PagesAreExact` (`PageExact`) and `ReadErrorsAreReal`
  (`ErrorsAreReal`). The proofs never look at the table of programs: they hold of every program that
  `ProgramsFit` describes, and so of any command added to the table later that keeps to it. The argument
  follows an object. `Hosted` is what is known of the host (a service that was passed
  over was absent and stays so), `Placed` where the command can stand, `Replied` that a reply says what was so when it
  was made, `Kept` that what is kept was there and, once it was looked at, asked for. `Complete` is the
  heart: from the listing on, an object that was there all the time and is asked for is still to be asked about, at hand,
  kept, excused, or a reply could not be read. `Concluded` says what an outcome means, and
  is carried through the closing of the session. A named object that is absent when it is
  asked about may have appeared by the end of the command, so `NotFound` can only be said to mean that it was not there
  all the time; an earlier form of `Replied` that said more was refuted in the proof.
  `PagesAreExact` is arithmetic: of a sum modulo `Word`, and of ranks in a set of at
  most three rows, which is what `Objects` allows.

Their assumptions are `AreasAssumption`, `FirewallAssumption` and `ReadsAssumption` (names do not
coincide, configurations and queries are of the right form) and `ProgramsAssumption`.

With these, every safety property and every refinement that a passing run checks is a theorem.
Only model-checked: the properties under fairness (`OperationEnds`, `EscalationEnds`, `AttemptEnds`,
`InvocationEnds`), because the prover has no rule for `ENABLED`; and `ProgramsFit`, a formula without constants or variables
about the table of programs, which TLC evaluates.

## Not modelled, and why

* The bytes of a frame, JSON decoding and variants: a frame is a record, an
  unparsable one a kind of its own; a property decodes or it does not.
* The bridge's stderr: a thread of its own reads and drops it, so it cannot block the
  bridge and changes nothing the client sees.
* The encoding of audit records and their sinks: writing them is best effort
  by the documentation, and what is promised is their order.
* Rendering, envelopes, human tables, schema, guide, help, CLI declarations: no state and no order.
* Transports: they build one command line; the process is the external bridge.
* `logs --follow`: as a stream it is an operation of `BridgeClient`; its loop does not end.
* The arithmetic of the metrics (rates of counters).
* The fake bridge: a test double, of which the external part of `BridgeClient` is the general form.
* The protected patterns: a set of the names that they match.

Left to do, in this order:

1. More than three objects in `Reads`. The proofs about listings do not count objects; those about pages
   do, and would need lemmas about the ranks in a finite set in place of a case distinction.
2. The sinks and the encoding of audit records, the sizes in a plan and the arithmetic of the metrics, as pure operators.
3. A longer chain of interference than one change in the run `dispatch`, which its size does not allow; the
   theorems hold for any number of changes.
