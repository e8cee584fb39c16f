# Verification of jebao-flow-engine

jebao-flow-engine is a daemon (`jebao-flowd`) that keeps the desired state of
aquarium pumps and pump groups, accepts commands over MQTT, observes the real
pumps over their LAN protocol, and publishes both to Home Assistant. This
directory holds TLA+ models of it, the TLC configurations that check them on
small instances, and TLAPS proofs of the main properties for every
configuration.

## 1. Inventory

### Components

| component | state it keeps | operations | talks to |
|---|---|---|---|
| Group control service `mqtt/service.py` | one payload per group and per device, two logs of answered requests, dirty sets and an event, last published time per device | `apply`, `apply_device`, `record_observer_event`, `wait_for_updates`, snapshots | adapter (calls), observer (callback) |
| MQTT adapter `mqtt/client.py` | a connection with a command consumer and a publisher task, a back-off | `run`, `_run_connected`, `_consume`, `_publish_observer_updates` | broker, service |
| Read-only observer `devices/observer.py` | one worker task per resolved device, last states, the offline set, a journal | `run`, `_reconcile`, `_observe_device`, `_report_state`, `_report_offline`, `resolve_device_bindings` | discovery, LAN devices, service |
| LAN device adapter `devices/lan.py` | last sent values, time of the last command, a lock | `connect`, `get_state`, `write_target`, `set_*` | session |
| Gizwits session and codec `protocol/session.py`, `codec.py` | a stream, authenticated flag, sequence number | `connect`, `authenticate`, `read_raw_state`, `send_raw_control`, `heartbeat` | the pump |
| Schemas, profiles, schedules `protocol/schema.py`, `profiles.py`, `schedule.py` | none (pure) | decoding of bit fields and of schedule slots | LAN device adapter |
| Flow patterns `patterns/*`, `groups/calculator.py`, `safety/limits.py` | none (pure) | the power of each member at a time | service |
| Configuration `config.py` | none after start-up | validators | all |
| Daemon `app.py` | the two top-level tasks and the stop event | `serve` | adapter, observer |
| Home Assistant integration `custom_components/jebao_flow` | cached retained states, results, listeners | MQTT callbacks, command helpers, entities | broker |
| Lovelace cards `frontend/jebao-flow-card.js` | rendering only | | Home Assistant |

### Interaction

Everything in the daemon runs on one asyncio thread. The service's methods
contain no `await`, so each of them is atomic; what interleaves is their order:
the command consumer calls `apply` and `apply_device`, one worker per pump calls
`record_observer_event`, and the publisher task drains the dirty sets through
`wait_for_updates` and publishes retained snapshots with `await`s in between.
Commands arrive with QoS 1, so they can be repeated. Nothing is persisted: a
restart begins from the configuration with revision 0.

### What is hard

- Desired and observed state meet in one record. An observation recomputes a
  group's status and rebuilds its members, a command does the latter only.
- Control of a device passes between its groups and its own override.
- The publisher sleeps on an event while others add to what it has to publish.
- Lost connections, late answers, cancelled tasks (adapter, observer, session).
- Caches: the last sent values of a pump, the client's copies of retained topics.
- Clients see the daemon through retained topics only, over restarts that begin at
  revision 0, with another configuration or another mode; subscriptions are made one
  by one, and Home Assistant rebuilds the entry while messages arrive.
- The first top-level task that ends has to end the other, in any state it is in.
- What a pump says is bytes whose meaning depends on its product: bit groups that
  cross a byte, slots of the schedule, and a product key that may be configured wrongly.

### What makes each component correct

- Service: emergency stop holds until it is cleared; observer mode is read-only;
  overrides survive everything but a forcing command; powers stay within limits;
  a request is carried out once while it is remembered; views agree with the
  records they copy; no observed change is lost before the publisher.
- Adapter: after any sequence of lost connections the retained topics become the
  service's state; a retained revision never goes back while the daemon lives;
  availability is offline when nobody serves, but for the ends §5 tells of.
- Observer: at most one session per pump, no report after an unmapped one, a
  reachable pump is polled again, stop ends every worker; no two devices bound to
  one endpoint (an address with a product key); offline and recovered journal records
  alternate wherever none is missing.
- LAN device: a write that returns normally was verified by a read-back made after
  the pump took it, or was already in force; a call ends whatever the pump does.
- Session: an acknowledgement belongs to its control; the login belongs to the
  connection.
- Daemon: an end of `serve`, and of the process, is seen by clients; a task that ends
  or a signal ends `serve`; the daemon keeps the contract its clients rely on.
- Home Assistant: no retained message is missed, each entity is added once and every
  one that should exist is, and each command is answered or lost for a known reason.
- Schemas, schedule, control: a foreign pump is not read as if it were the configured
  one, the schedule is shown whole, a control changes what was asked for and nothing else.

The hazards, with their lines and the properties that would notice, are listed in
`PROJECT.json`.

## 2. Plan

| order | module | models | state |
|---|---|---|---|
| 1 | `GroupControl`, `GroupControlProperties`, `MCGroupControl`, `GroupControlProofs`, `GroupControlSafetyProofs` | the service | done |
| 2 | `StateSource`, `StateMirror`, `MqttAdapter`, `MCMqttAdapter`, `MqttAdapterProofs` | the connection cycle, the consumer and publisher tasks and the broker's retained topics over `StateSource`, which the service implements; `StateMirror` is what clients are promised | done |
| 3 | `Bindings`, `Observer`, `MCObserver`, `ObserverProofs` | `resolve_device_bindings`; reconcile, workers, journal, stop | done |
| 4 | `GizwitsSession`, `LanDevice`, `MCLanDevice`, `LanDeviceProofs` | exchanges with late, unsolicited and torn frames; verified writes and the cache of sent values on top of them | done |
| 5 | `DaemonTopics`, `Contract`, `Daemon`, `MCDaemon`, `DaemonProofs` | the retained topics; what clients can see of the daemon; `serve` with its tasks, signals, kills and restarts, which implements that contract | done |
| 6 | `HomeAssistant`, `MCHomeAssistant`, `HomeAssistantProofs` | the client over the contract: set-up and unload, caches, discovery of entities, commands and results | done |
| 7 | `Datapoints`, `Schedules`, `Readings`, `MCReadings`, `ReadingsProofs` | the products' datapoints, reading and writing them, the schedule; what the observer and a write make of the pump behind a binding; the proofs are also those of `Bindings` | done |
| 8 | `Codec` | the frames of `protocol/codec.py`: writing, decoding, reading them from a stream; its proofs are in `LanDeviceProofs`, its samples in `MCLanDevice` | done |
| 9 | pump clock in `Schedules`, the waveforms of `patterns/*` | | open, see "Not modelled" |

Which module composes which: `MqttAdapter` EXTENDS `StateSource` and takes its
actions for what `apply`, `apply_device`, `record_observer_event` and
`wait_for_updates` do to the published states. `GroupControl` is shown to implement
`StateSource` (`ImplementsSource`, checked in the run `shared` and proved), so what is
shown of the adapter holds for the real service. `Observer` takes the results of
discovery from a set `Bindings` in which no endpoint occurs twice, which the module
`Bindings` proves of `resolve_device_bindings`. `Readings` EXTENDS `Bindings` with the
pump behind a binding and INSTANCEs `Schedules`, which EXTENDS `Datapoints`. `Contract`
states what clients can see of the daemon; `Daemon` implements it, fairness included
(`ImplementsContract`, with `link` mapped to the state of `serve` and of the adapter's
task), and `HomeAssistant` EXTENDS it, so that the client relies on nothing else.

## 3. The model of the service

`GroupControl.tla` follows `mqtt/service.py` method by method.

| code | model |
|---|---|
| `_states`, `_device_states` | `groupStates`, `deviceStates` |
| `_results`, `_device_results` (ordered dicts) | `results`, `deviceResults` (sequences, oldest first) |
| `_dirty_devices`, `_dirty_groups`, `_update_event` | `dirtyDevices`, `dirtyGroups`, `updateEvent` |
| `_last_published_seen_at` | `lastPublished` (0 for None) |
| `__init__`, `_initial_state`, `_initial_device_state` | `Init` |
| `apply` | `ApplyRejected`, `ApplyAccepted` with `GroupVerdict`, `Commanded`, `SyncGroupDevices`, `RefreshGroupMembers` |
| `apply_device` | `ApplyDeviceRejected`, `ApplyDeviceResume`, `ApplyDeviceOverride` with `DeviceVerdict`, `StoreDevice` |
| `record_observer_event` | `RecordReadout`, `RecordAbsence` with `StoreObservation`, `RefreshGroupObservation` |
| `wait_for_updates` | `WaitForUpdates` |
| `_calculate_targets`, `PatternCalculator`, `member_target`, `clamp_enabled_power` | `CalculateTargets` and the operators before it |

A repeated request that is remembered, and a readout that is not newer than the
last one, return early and change nothing: they are steps that leave every
variable unchanged, so no action is needed for them.

Abstractions. The observed power, mode and frequency are one value (`reading`),
the observed attributes and the schedule without its clock another
(`configuration`): the code only compares them for equality. Period and
transition only feed the waveform. A time-varying pattern is sampled at
`time.monotonic()` on every call, so each call may return any power of the active
range, and the three calls of one command may differ; `constant` is exact,
including the gain in hundredths and the half-up rounding. Time stamps are small
numbers; 0 stands for None. `Reporting` names the devices the observer reports on
in an instance, so that a run about commands need not enumerate readouts. An
operator named as a mutant in its comment is a plausible bug, kept beside the
definition it would replace; the specification never uses it.

Bounds, all in guards of actions: `MaxRevision` ends the revision counters,
`MaxTime` the time stamps; `MaxDedup` is the log's cap (512 in the code), chosen
as 1 or 2 so that eviction happens. Removing the bounds adds no kind of step:
the proofs hold for every value of them.

## 4. The models of adapter, observer, LAN device, daemon and client

`StateSource` abstracts the service to a version per state topic (the `revision` of
its payload), the dirty topics and the event. A command moves the versions of the
group and of the members that follow it, or of the device and its groups, and leaves
announcing to its caller; an observation moves and announces them, a heartbeat only
announces them. `GroupCommanded`, `DeviceCommanded`, `Observed`, `Refreshed` and
`Drained` are its actions. `StateMirror` promises clients that a retained state never
goes back and never shows a version the daemon did not have.

`MqttAdapter.tla` follows `mqtt/client.py`. A task's step runs from one `await` to the
next; a publish with QoS 1 returns when it was acknowledged, so a task that has a
message in `queue` waits.

| code | model |
|---|---|
| `run`: the loop, `MqttError`, back-off; an error that is none | `phase`, `Connect`, `Lost`, `TimedOut`, `Retry`, `Leave`; `ConsumerFails` |
| `_run_connected`: availability, snapshots, tasks, goodbye | `Connect`, `Greeted`, `PublishSnapshot` (with `captured`, the tuples of snapshots), `StartServing`, `BeginClose`, `Close` |
| `_publish_observer_updates` | `TakeUpdate`, `Publish("publisher")`; `todo` and `lead` are its two loops |
| `_consume`, `_consume_device` | `ConsumeGroup`, `ConsumeDevice`, `ConsumeRepeated`, `Publish("consumer")`, `ConsumerFails`; `accepted`, the kinds of command an accepted one of which is remembered |
| the library and the broker (external) | `queue`, `Deliver`, `retained`, `availability`, `willArmed`, `PublishWill` |

The messages of a connection arrive in order. A lost connection loses what is on its
way and leaves the will with the broker; a time-out of the library raises the same
error while the connection stands, so that the client disconnects in order and the
broker drops the will. The same happens when the consumer fails: `ConsumeRepeated`
answers a request that was accepted before and is repeated for a group or device there is
none of, since the deduplication comes before the check of the topic; `snapshot` then raises
`KeyError`, which `run` does not catch (`ConsumerFails`, with `lead` "unknown" for what the
consumer is about to look up). In both cases (`silent`) availability can stay "online" until the next
connection, which is why `OnlineIsGuarded` and `StopEndsOffline` except them. A refused or
unreadable command and a repeated request share the action `ConsumeRepeated`. Subscriptions
and the constant `system/config` topic belong to the step that publishes availability.

`Bindings.tla` is the loop of `resolve_device_bindings`, one configuration a step, from
every set of answers a discovery can collect (at most one per vendor id and address).

`Observer.tla` follows `ReadOnlyObserver`.

| code | model |
|---|---|
| `_workers` | `endpoint` (the endpoint of the entry), `pc` (the await its task is in), `cancelled` |
| an open connection of a worker | `session` |
| `_last_states`, `_offline` | `seen` (the devices with an entry), `offline` |
| `run` | `Rescan`, `End`, `Ended` |
| `_reconcile` | `Discover`, `DiscoveryFailed`, `Settle`, `Dismiss`, `Joined`, `Reconciled`, one device a step with an await between `Dismiss` and `Joined` |
| `_observe_device` | `Begin`, `Connected`, `Read`, `Polled`, `Fail`, `Closed`, `Interrupted` |
| `_report_state`, `_report_offline` | `Read` with `LineFor`, `Fail` |
| `JsonlObservationJournal.append` | `note` (the line in the append), `Written`, `Dropped`, `Postponed` in `Noted` and `Interrupted`, `Straggles`, `journal`, `late` |

An append returns whether or not its line was written, since an `OSError` is only logged.
A cancellation is raised at the await the task is in; an append that waited for the lock or
for a thread is dropped, and one that was running in its thread goes on without the lock and
without anybody waiting, so that its line may come after later ones, or fail. `journal` has
what the last line of a device tells, or "gap" from a line that was dropped or may be late
to the next one written in its place, unless a line is still late (`late`); a line cut
short by a full disk counts as dropped. A readout differs from the last one or does not:
more of its value decides nothing. Lengths of delays and the doubling back-off are left out: a
wait ends some time, or when stop is set.

While `_reconcile` moves workers, a pump that took over another one's address is
polled there by its new worker before the old one is dismissed; `OneDevicePerEndpoint`
therefore speaks of the time outside `_reconcile`.

`GizwitsSession.tla` has the steps of `protocol/session.py` as operators and the pump
and its transport as external actions; `LanDevice.tla` EXTENDS it with the calls of
`devices/lan.py`. `_io_lock` admits one call at a time, so one `pc` names the await the
call is in.

| code | model |
|---|---|
| `_reader`, `_writer` and the TCP stream | `link`, `torn`, `requests`, `replies` |
| `_authenticated`, `_sequence`, the frames an exchange passed over | `authenticated`, `sequence`, `skipped` |
| `GizwitsSession.connect`, `disconnect` | `Open`, `Drop` |
| `_exchange` | `Send`, `Take`, `Skip`, `GiveUp` |
| `_last_sent_values`; `_last_command_at` | `sent`; `recent`, the minimum interval is not over |
| `connect`: `authenticate` and its two exchanges | `Connect`, `Opened`, `GotPasscode`, `GotLogin` |
| `disconnect` | `Disconnect`, `Closed` |
| `get_state` | `GetState`, `GotState` |
| `_apply_changes` with `_respect_command_interval` and the read-backs | `Write`, `Paused`, `Acked`, `Delayed`, `Verified` |
| time-outs, cancellations, errors at any await | `ExchangeFails`, `WaitFails`, `Fails` |
| the pump (external) | `pump`, `told`, `handled`, `admitted`; `Handle`, `Report`, `ChangedByOthers`, `Break` |

`Codec.tla` is the layer below: `EncodeVarint`, `DecodeVarint`, `EncodeFrame`,
`DecodeFrame` and `ReadFrame` on sequences of octets, with `Failure(kind)` for what raises.
The stream of `read_frame` is one that brings its data and is then closed; `ReadFrame`
gives the frame and what it leaves in the stream. A length need not be the shortest one to
be accepted, so a frame decoded and encoded again may have other octets; nothing in the
program does that. That frames stay apart in a stream and that a torn one is a lost
connection (`FramesKeepApart`, `TornIsLost`) is why `GizwitsSession` may take a stream for
a sequence of frames. Both are proved for every frame; `MCLanDevice` has TLC
evaluate them for frames on both sides of a length of another octet, cut at every place.

An exchange that gives up leaves its answer to come, or a torn frame in the stream;
a later exchange may find the beginning of a frame again after bytes it could not
read (`GiveUp`). The pump answers in order, ignores what it likes, acknowledges a
control whether or not it does what it says, reports on its own and changes its values
by its own schedule. It takes what a connection brings before that connection is
closed. `told` is what the controls it took said, which is all a cache of sent values
can know. `handled` in a reply and `unsure` are history. Datapoints, limits and the
bytes of a control are left to a set `Changes` of dictionaries; a target that its
validation refuses, and every write while hardware writes are locked, changes nothing
and is no step. `heartbeat` is left out, since nothing calls it.

`DaemonTopics.tla` has the retained topics and their payloads, which the next three
modules share. A state is told by its revision and by the process it comes from, since a
revision begins at 0 with every process; `system/config` stands for the configuration it
is a function of; `Junk` is a payload somebody else published. `Contract.tla` says what a
client can see of the daemon, step by step, and leaves open what makes it happen.

`Daemon.tla` follows `app.py`, with the adapter in coarse steps (a publish with its
acknowledgement; `MqttAdapter` has the fine ones) and the observer seen from outside.

| code | model |
|---|---|
| `main`, `serve`: the three tasks, `asyncio.wait` for the first of them | `Start`, `Signal`, `Waken` |
| `asyncio.gather` of the others, raising what failed | `Gathered` with `Leave` |
| the ends of the observer's `run` | `ObserverReturns`, `ObserverFails` |
| the adapter's `run` and `_run_connected` | `Connect`, `SayOnline`, `SayConfig`, `SaySnapshot`, `StartServing`, `SayOffline`, `Lost`, `TimedOut`, `AdapterReturns`, `AdapterFails` (before a connection), `ConsumerFails` (on one) |
| its consumer and publisher; the service's revisions | `Consume`, `Show`; `Move` |
| the broker, clients and the system (external) | `PublishWill`, `Ask`, `Kill` |

`HomeAssistant.tla` follows `custom_components/jebao_flow`. Home Assistant and the broker
are external: messages of one topic arrive in order, those of different topics in any
order.

| code | model |
|---|---|
| `online`, `system_config`, `group_states` and `device_states`, `last_results` of `JebaoFlowRuntime` | `online`, `systemConfig`, `states`, `lastResults` |
| `async_setup_entry`, `async_start`, the forwarding to platforms, `async_unload_entry` | `Setup`, `Subscribe` (one subscription a step), `SetUpPlatform`, `Unload` |
| `_receive_*` with `_notify` | `ReceiveAvailability`, `ReceiveSystemConfig`, `ReceiveState`, `ReceiveResult` with `Log` |
| the factories of the six platforms and their `discover` | `Factory`, `Fresh`, `New`, `Discover`, `known`, `entities` |
| `available` of the entities, `async_group_command`, `async_device_command` | `Available`, `Command` |
| Home Assistant and the broker (external) | `inbox`, `answers`, `Forward`, `Retained`, `Reconnect`, `Disturb` |

`rejected` and `lost` are history: entities added a second time, and requests that
disappeared with a connection, a process or an entry or were pushed out of the log. Unloading is one step. A publish that repeats what the
broker retains changes nothing at a client and is not forwarded. That `resume_group` also
asks for the device's control mode is left out.

`Datapoints.tla`, `Schedules.tla` and `Readings.tla` have the data.

| code | model |
|---|---|
| `profiles.py`: the schemas of five products | `DCPumpPro`, `DosingPump`, `LocalWavemaker`, `AquariumPump`, `LocalWavemakerPro`, built with `Bool`, `Enum`, `UInt8`, `Faults` |
| `schema.py`: `decode_status`, `_decode_attribute` | `Fits`, `Values`, `Value`, `Word` |
| `control.py`: `build_control_payload`, `_place_value` | `Payload`, `Requestable`, `Placed` |
| `schedule.py` | `Specs`, `Unused`, `WallClock`, `Decodable`, `Schedule` |
| `sensor.py`: `_is_schedule_time`, `_schedule_entries`, `_invalid_schedule_slots` | `ScheduleTime`, `Shown` |
| `lan.py`: `get_state`, `_target_changes`; `create_read_only_lan_device` | `GetState`, `TargetChanges`; `Meet`, `Control` |
| the pump (external) | `Obeyed`, `Statuses`, `Behind` |

A value with a name is given by its index, and a status by its bytes that are not 0. A
binding made from a configured address and product key was never answered by a pump, so
that `Behind` allows any product there; what was answered is what it says it is.
`Control` is considered for the product that is configured only: a control for another
product would be sent, since `_apply_changes` reads nothing before it sends.

## 5. Runs

Deadlock is checked in `lan`, where a pump can always be changed by others. It is not
checked elsewhere: those models stop where a bound is used up, and the adapter, the
observer and the daemon end after stop.

| run | instance | question |
|---|---|---|
| `commands` | two pumps in a group with gains of 100 and 50 and a return pump in none, every command, two request ids, a log of one, the group configured with a power outside its limits | what a group shows of its members, the limits of powers, an emergency stop refused only as configured |
| `shared` | two groups that share a device, commands and readouts together, three request ids, a log of two | what each leaves of the other's fields; overrides; locks across groups; a request takes effect once while it is remembered; results are ordered; the service implements `StateSource` |
| `observer_mode` | readouts, absences and heartbeats of two pumps, a pattern that is not implemented, refused commands, also to an unknown group | change stamps, freshness, queueing; no desired value moves |
| `adapter` | one group of two devices, versions up to 1, one lost connection and one time-out, a consumer that fails, fair | no update is forgotten, retained states are ordered, availability is guarded; the retained states become current; stop ends with availability offline |
| `workers` | two pumps at their endpoints, or the first gone and the second at its endpoint, two discoveries, two failures, lines dropped or late, fair | one session per device and per endpoint; the order of the journal lines where none is missing; a bound pump is read again and again; stop ends everything |
| `readings` | four configured pumps with ids, MACs, addresses and product keys in conflict, every subset of ten answers; behind a binding any product allowed, with nothing set, with every kind of slot and bit set, or out of range | no endpoint twice, unbound for a reason; no foreign pump misread; the schedule shown whole; a control exact |
| `lan` | one datapoint with two values, up to two frames under way when a call begins, one frame passed over, two read-backs, two controls, fair | read-backs are new, the cache holds what the pump was told, the login belongs to the connection, every call ends |
| `daemon` | two processes with either of two configuration files, one group and one device with revisions up to 1, two broken connections, one command, fair | an end is seen, one task's end ends the others, `Contract` is implemented with its fairness |
| `client` | one device, the platforms switch and sensor, two processes with either of two configuration files, one broken connection, two commands, a log of one, and one trouble: an unload, a reconnect or a foreign payload | nothing missed, each entity once and all of them, every command accounted for |
| `emergency_release` | violation | an observation releases an emergency stop |
| `emergency_shared` | violation | a command to one group starts a device of a stopped one |
| `lan_stale` | violation | a write is left out although the pump was told otherwise |

Two members are the smallest group with a degraded state and with one member
overridden while the other is not; two groups sharing one device are the smallest
overlap; the return pump of `commands` is the smallest equipment outside every group, and
the gain of 50 makes rounding and clamping differ between members. A log of one or two
entries with one request id more gives a repeated request, an eviction and a repeated
request after its eviction. Powers range over a few values on both sides of the limits.
`MaxTime` 3 with a heartbeat of 2 gives a readout before, at and after the
heartbeat's due time.

For the adapter, one group with two devices has both kinds of topics and a scope with
several topics in it; `MaxVersion` 1 already gives a topic an old and a new state, so that
a snapshot can be outdated and an order be wrong; `MaxLosses` and `MaxTimeouts` 1 break
one connection at every point in either way. The consumer fails without a bound, since that
ends the adapter. For the observer, two devices and two endpoints are the fewest with which
one takes over another's address while that one leaves; `MaxScans` 2 counts the discoveries
that change something, so that the devices move there and back; `MaxFailures` 2 gives two
outages, or one and a discovery that fails; `MaxLate` 1 a line that comes after a later one.
Dropped lines are not bounded.

For the LAN device, one datapoint with two values tells a stale value from a new one;
`MaxFlight` 2 lets a call begin with one late answer or report under way, and more
frames gather during it; two controls give an old and a new acknowledgement; `MaxSkipped` 1 and
`Attempts` 2 give the last and an earlier case of each. The proofs hold for every value.

Two processes and two configuration files give every change of mode in a restart, in
either direction, and two broken connections a kill after a lost connection. For the
client, a device that exists in both modes but has a control in one of them only is the
smallest entity that appears late; one platform with status entities and one with
controls are the two kinds there are. Revisions stay at 0 there, since the process already
tells an old state from a new one; a log of one and two commands push a result out, and
a repeated result then meets a log with and without it. One trouble unloads the entry or
breaks its connection at every point. The proofs about the client hold for all
platforms, things, revisions and bounds.

In `readings`, the statuses hold every slot the decoder tells apart: unused in both ways, a mix of both,
valid with 24:00 as an end and as a start, minutes out of range, modes out of range, a selector that
is no flag, the first and the last slot of the table; all bits of the first two bytes and
the last one are set in one status and clear in another, so that a bit written to a wrong
place shows.

Fairness. The service has none of its own: it is called. `FairSpec` of the adapter asks
that each of its tasks runs when it can (asyncio's loop is fair to ready tasks), that
the broker acknowledges what reaches it, and that it publishes the will of a dead
session (the keep-alive). `FairSpec` of the observer asks that reconcile and each
worker run when they can: connects and reads end because the session has time-outs, and
waits have lengths. `FairSpec` of the LAN device asks that the step of a call is taken
(its time-outs and sleeps end whatever it waits for) and that the minimum interval ends;
nothing is asked of the pump. `FairSpec` of the daemon asks that `serve`, the adapter's
task, the consumer and an observer that was stopped run when they can (the event loop is fair to
ready tasks; that the real ones do end is `StopEndsOffline` and `StopEnds`), and that the
broker ends dead sessions; `FairContract` promises clients that a living process connects,
answers, and is seen to be gone. No fairness is asked of losses, failures, commands, reports or
stop; losses and failures are bounded, so that progress is claimed for the time after
the last one.

Every property has a mutant in `PROJECT.json`: an operator of the model changed
as a plausible bug would change it, under which TLC finds the property violated.

### What the violations show

1. **An observation ends an emergency stop.** `_refresh_group_observation`
   (`service.py:727`) writes the observed status over `emergency_stop`, so the
   next readout, or the loss of a member, removes the lock: `apply` and
   `apply_device` accept commands again although nobody cleared the emergency.
   README.md:114 and PROJECT_CONTEXT.md:66 say the opposite. The pumps stay off
   until a command comes; `EmergencyHoldsOwnMembers` is proved.
2. **A shared device escapes.** The configuration allows a device in two groups;
   `apply` looks at the commanded group only.
3. **A write can be left out although it is not in force.** `_apply_changes` enters a
   value in `_last_sent_values` when a read-back agrees, and nothing takes it out when a
   later write fails after it was sent. After a verified A and a B that timed out, the
   next write of A returns at `lan.py:235` without sending, and the pump keeps B. As long
   as no write failed, the theorem `CacheIsCurrent` says the cache is right.

Other behaviour met while modelling. An emergency stop is refused when a group is enabled
and its power lies outside its limits, which a configuration may have from the start
(`groups/models.py:82`) and, by the theorem `StopRefused`, no command leads to. When a
line of the journal cannot be written, or `_reconcile` cancels a worker in its append, the
line is missing or late and the next worker finds the outage already noted, because `_report_offline`
and `_report_state` move `_offline` and `_last_states` first; `JournalAlternates` says that
the lines make sense again after that. The minimum command interval is counted from the
last acknowledged control, so it is not kept after a control without an
acknowledgement, nor after a reconnect. One late acknowledgement makes every later
control on that connection fail its sequence check, until an exchange passes it over or
the adapter reconnects. A cached value is trusted although the pump's own schedule or
another application may have changed it since. A group
command sets `enabled` of every member to the group's flag, also for a member
configured as disabled (its power is 0), while `resume_group` uses the member's
flag; a command to a group does not refresh the other groups of a shared device;
device limits are not applied to group targets here, they are left to the LAN
adapter; the adapter's back-off is reset only when `_run_connected` returns, which it
does only after stop, so it stays at its maximum after a few lost connections.

Of the daemon: `apply` and `apply_device` look for the `request_id` before they look for the
group or device (`service.py:306`, `420`), so that an accepted request repeated on the topic
of one that is not there is answered "accepted"; `client.py:164` or `208` then raises
`KeyError`, the adapter's task fails and `serve` ends with it. As the client closes the
connection in order, the broker drops the will, nobody publishes "offline", and clients go
on seeing "online" until the daemon is started again. `EndIsSeen` and `OnlineIsGuarded`
name this end and a time-out as their exceptions, and `Contract` has it as its step `Fail`. Other
errors than `MqttError` are in the model before a connection is made only. `last_results` is
filled and read by nobody. Of the client: the configuration that an older process left retained decides until
the new one's arrives, so that control entities can be created although the daemon that
is starting is in observer mode (`docs/observer-mode.md:8` speaks of the daemon, which
refuses their commands); entities are never removed, those of a mode that ended become
unavailable, those of groups and devices that left the configuration stay available
because their retained states remain; limits of a number are those at its discovery; the
states an older process left are shown as current until the new process publishes its
own. Of the data: a pump that reports a power or frequency above 100 fails every read and
counts as offline; that a foreign product is noticed rests on the five lengths of a status
being different, and nothing is checked before a control is sent to it; a dosing pump's
schedule sensor never has a value, as its layout is unknown.

## 6. Proofs

`GroupControlProofs.tla` types the operators and proves `TypeCorrect`.
`GroupControlSafetyProofs.tla` proves the safety properties. They hold for every
set of groups and devices, every configuration the validators accept, every set
of commands and every bound, from the five named assumptions of `GroupControl`:
None differs from every value, the bounds are naturals, the groups' members are
configured devices (finite in number) and `FirstGroup` is one of a device's
groups, the configuration has the types and the order of limits its validators
demand, and commands are bodies of the command models.

The argument. `TypeOK` is inductive by itself; besides the types it says that the
limits of a group stay ordered, that a device is standalone exactly when no group
holds it, and that control mode never holds an unimplemented pattern, which
`CalculateTargets` needs. `StepKinds` then splits every step into four kinds: no
change of groups and devices, an accepted group command (`AcceptedCommand` says
what it did to each device), an accepted device command (`DeviceCommand`), and an
observation (`ObservationKeeps`: no observation changes what a device was told or
a group's desired values). Each safety invariant is inductive relative to
`TypeOK`, by one lemma per kind of step. `PowersLimited` needs, in addition, that
a member view is rebuilt from targets of the group's present limits whenever it
changes (`Rebuilt`). `ViewsAgree` needs that the device record and the view both hold
the one power of a constant pattern (`Agrees`), since any later rebuild computes it
again; `ViewsCurrent` needs that a step which skips the refresh of a group changed no
observed value of a member; `ChangesStamped` follows the stamps through each kind of step
(`StampsMove`). `StopRefused` rests on the stronger invariant (`Bounded`) that a group holds
what it was configured with, or, if it is enabled, a power within its limits.

The end of that module proves that the service implements `StateSource`
under the mapping of payload revisions to versions: each accepted command and each
observation is shown to move the revisions of its scope by one and no others. That
revisions only grow keeps the remembered results in order (`ResultsInOrder`).

`MqttAdapterProofs.tla` assumes only that the bounds are naturals and that members are
devices. `TypeOK` is inductive. `Shape` says which task may have what under way in
which phase: each task at most one message, only `run` publishes before the tasks are
started, the will is armed while a connection stands, and a connection is closed only
once "offline" was acknowledged; `AvailabilityGuarded` follows. `Ordered` says that for
each topic the retained version, the versions in the queue and the service's version
are in this order. It is inductive only with `Fresh`: while a connection starts, no
topic still to be published is under way, and a snapshot taken before is at least as
new as the broker's copy and outdated only where the topic is dirty. `NothingForgotten`
is inductive relative to these, and the refinement of `StateMirror` follows: a delivery
shows a newer version or repeats the old one, everything else leaves the copies alone.

The first part of `ReadingsProofs.tla` is about `resolve_device_bindings`. Its type
invariant says that the claimed endpoints are exactly those of the bindings; the loop then
never binds an endpoint twice, and a device is bound
only through `Matches`. `UnboundExplained` needs `ClaimsBound` besides: a vendor id is
claimed only together with the endpoint of its device, so that a device found taken by
its id was bound to one configured before.

The second part is about what is read and written, for every status of bytes and every
target; that statuses are bytes is an assumption (`ReadingsAssumption`), and
`ReadingsType` shows that a pump which obeys controls keeps to it. The argument climbs
in steps. Division with remainder gives what a field of a number is and that writing one
leaves the fields above and below alone (`FieldWritten`); the powers of 2 up to 16
turn fields into bits (`BitsWritten`, `BitsKept`); bytes and the two-byte group turn bits
into datapoints (`ValueWritten`, `ValueKept`, `CellsKept`). `Payload` and `Obeyed` are
folds over a set of datapoints: `FoldExists` shows that the recursion of the fold has a
solution and `FoldWrites` that a fold over datapoints which share no bit leaves each with its
value and all others, and all bytes outside, as they were. One lemma for each product that can be
controlled (`DCPumpProLaidOut`, ...) shows that its datapoints share no bit, are told
apart by their ids, can hold all that can be requested, and lie before the schedule if they can
be written. `ControlWrites` puts these together, `ControlChangesOnlyWhatWasAsked`
reads it as values by name and as slots. `ReadByOwnSchema` rests on the five lengths of a
status being different (`SizesDiffer`); `ScheduleReachesClient` on the validation of a
slot being no weaker in the daemon than in Home Assistant.

These are proofs by induction over sets of any size. An induction theorem with an operator for a
parameter cannot be used here, but that a set of naturals has a least element can be proved
without one (`LeastNat`, from the well-foundedness of `<`): the size of the least set of
which the claim fails leads to the contradiction.

`ObserverProofs.tla` rests on the assumption that no discovery binds an endpoint twice.
Outside reconcile every entry of `_workers` has the endpoint of the last bindings
(`Assigned`), whence `EndpointsExclusive` by way of `SessionsExclusive`.
`JournalConsistent` needs the stronger `JournalTells`, which relates `_offline` and
`_last_states` to the last line, unless there is a gap, or to the line in the append.

`LanDeviceProofs.tla` splits every step into four kinds by what it does to the frames
under way (`StepKinds`): frames are dropped or a harmless one is sent, the pump answers or
reports, a control is sent, the pump takes one. `ControlsOrdered` and `RepliesOrdered` say
that controls reach the pump in the order of their numbers and that replies come back in
the order they were made; with them `ReadBackIsNew` is inductive, since an
acknowledgement with the present number leaves no older reply behind it.
`CacheIsCurrent` needs `WriteTold` (the control of the write under way says what the
write changes) and `SureCache` (while the cache is sure and not empty, no other control is on
its way). `LoginAdmitted` needs that only a pump that admitted a login has accepted one
(`LoginTold`). The assumptions are that None is no value, `Changes` are dictionaries of
values, the bounds are naturals and there is at least one read-back.

The last part of `LanDeviceProofs.tla` is about `Codec` and rests on no assumption: the
digits of a length in base 128 add up to it (`Septets`), all its octets but the last say
that another one follows (`EncodedLength`), so `DecodeVarint` stops where `EncodeVarint`
did wherever the length stands and whatever follows (`DecodedLength`), and does not stop at
all in one that is cut off (`TornLength`). `Begins` says of data that it goes as a frame
does, as far as it goes; `EndOfFrame` and `NoEndYet` say what `FrameEnd` makes of it.

`HomeAssistantProofs.tla` assumes that groups, devices and payloads are told apart, that
configurations list groups and devices that exist, and that the bounds are naturals
(`TopicsAssumption`, `ContractAssumption`, `HomeAssistantAssumption`). `TypeOK` is
inductive. `AddedOnce` needs `Owned`: an entity belongs to something its platform
knows already. `Discovered` needs `Covered`: a platform that is set up knows all the
configuration gives it an entity of, and has one of everything it knows. For `NothingMissed`, every step either leaves a topic and its inbox alone, puts the
new retained message at the end of the inbox, or takes the first message out of it; the copy and the inbox are
then followed by their last message (`UpToDate`), and an unloaded entry has no
subscriptions (`Idle`). `RequestsAccounted` needs that the queue of commands holds each once and none that
was answered (`QueueInv`), so that what leaves the queue is exactly what was answered or lost.

`DaemonProofs.tla` assumes that topics and payloads are told apart, that configurations list
groups and devices that exist, and that the bounds are naturals (`TopicsAssumption`,
`DaemonAssumption`). `EndSeen` needs `WillGuards`: the will is armed while a connection
stands, and also while availability is "online", unless the last connection was closed in
order after a time-out or by a consumer that failed. `ContractKept` says that each step of `serve`, its tasks, the clients and
the broker is a step of `Contract` or changes nothing that clients can see. It needs
`ContractInv`: no state published by this process is ahead of the state it has (`NotAhead`),
nobody's commands wait without a connection, and what a new connection has yet to publish
belongs to the configuration it has published.

| theorem | property |
|---|---|
| `TypeCorrect` | `TypeOK` |
| `EmergencyHolds` | `EmergencyHoldsOwnMembers` |
| `EmergencyLocks` | `EmergencyLocksDevices` |
| `ReadOnly` | `ObserverModeReadOnly` |
| `Wakeup` | `NoLostWakeup` |
| `Freshness` | `PublishedFreshness` |
| `StandaloneLimits` | `StandaloneWithinDeviceLimits` |
| `StopRefused` | `StopRefusedOnlyAsConfigured` |
| `PowersLimited` | `GroupPowersWithinLimits` |
| `DesiredFresh` | `DesiredChangesOnlyByFreshRequest` |
| `OverridesKept` | `OverrideKept` |
| `ViewsAgree`, `ViewsCurrent` | `MemberViewAgrees`, `GroupViewCurrent` |
| `ChangesQueued`, `ChangesStamped` | `ObservedChangeIsQueued`, `ChangeStamped` |
| `RefinesSource`, `ResultsInOrder` | `ImplementsSource`, `ResultRevisionsOrdered` |
| `AdapterType` | `TypeOK` of `MqttAdapter` |
| `AvailabilityGuarded` | `OnlineIsGuarded` |
| `UpdatesRemembered` | `NothingForgotten` |
| `AdapterMirrors` | `ImplementsMirror` |
| `BindingsType`, `BoundOnce`, `OwnIdentity` | `TypeOK` of `Bindings`, `EndpointBoundOnce`, `OnlyOwnIdentity` |
| `UnboundExplained` | `UnboundForAReason` |
| `ObserverType`, `SessionsExclusive` | `TypeOK` of `Observer`, `OneSession` |
| `EndpointsExclusive`, `JournalConsistent` | `OneDevicePerEndpoint`, `JournalAlternates` |
| `LanType`, `ReadBackNew` | `TypeOK` of `LanDevice`, `ReadBackIsNew` |
| `CacheIsCurrent`, `LoginAdmitted` | `CacheCurrent`, `AdmittedByPump` |
| `FramesStayApart`, `TornFramesAreLost` | `FramesKeepApart`, `TornIsLost` of `Codec` |
| `ReadingsType`, `ReadByOwnSchema` | types of `Readings`, `NeverMisread` |
| `ScheduleReachesClient` | `ScheduleShown` |
| `ControlChangesOnlyWhatWasAsked` | `ControlIsExact` |
| `DaemonType`, `EndSeen` | `TypeOK` of `Daemon`, `EndIsSeen` |
| `ContractKept` | the safety part of `ImplementsContract` |
| `ClientType` | `TypeOK` of `HomeAssistant` |
| `EntitiesOnce`, `EverythingDiscovered` | `AddedOnce`, `Discovered` |
| `TopicsFollowed`, `CommandsAccounted` | `NothingMissed`, `RequestsAccounted` |

The type invariants, `NoLostWakeup`, `StandaloneWithinDeviceLimits` and
`OnlyOwnIdentity` are proved for every instance and in no run.

Every safety and action property of a passing run has a theorem. Only model-checked: the
liveness properties `Converges`, `StopEndsOffline`, `BoundIsPolled`, `StopEnds`, `CallsEnd`
and `ServeEnds`, and the fairness part of `ImplementsContract`; liveness under fairness
and ENABLED are out of the prover's reach and stay with TLC.

## 7. Not modelled

- The decoding of discovery datagrams and the layouts of the passcode and login payloads.
  `heartbeat` has no caller. That a torn frame in a stream that goes on makes the exchanges
  fail is in `GizwitsSession`; which octets a later read takes for the beginning of a frame
  is left open there.
- The waveforms of `patterns/*` use sines of real numbers, outside TLC's and the provers'
  arithmetic; their final clamp is in the model, and any power of the range is allowed.
- The pump's own clock in a status, which is shown and nothing else, and the byte types
  (`UINT16`, `BINARY`) no product uses. The mode codes of the products and their names are
  taken as the profiles have them.
- Parsing and formatting of JSON and YAML. The validators of `config.py` are named
  assumptions of `GroupControl`.
- `cli.py` (sequential diagnostics), `--check-config`, logging, the file operations of the
  journal, the lengths of delays.
- The registry and the managers (constructors over dictionaries) and the simulator (a test
  double of the LAN adapter).
- Of Home Assistant, what entities render of a state, their limits and icons, and the
  config flow; the Lovelace cards, which render and call services.
