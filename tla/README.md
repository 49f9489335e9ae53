# Formal model of portal300

portal300 opens and locks the doors of shackspace. A user logs in over ssh, the
login shell runs `portal-trigger`, which asks `portal-daemon`; the daemon talks
over MQTT to two motor locks (doors B2 and C2), to the door opener of the
building (doors B and C, the "Busch interface") and to a status display (the
"API endpoint"). The repository also holds the Blender add-on in which the
building was measured as a point cloud, the largest program in it. This
directory holds TLA+ modules of the parts that carry the logic, TLC
configurations that check them on small instances, and TLAPS proofs.

## Inventory

Paths are below `src/`; "the add-on" is
`scripts/calibration/space_view3d_point_cloud_visualizer.py`.

| Part | Source | State | Operations | What makes it correct |
|---|---|---|---|---|
| Door controller, state machine | `firmware/door-control/main/state-machine.c` | door reading, logic state, `unsafe_action`, two relays | `sm_change_door_state`, `sm_send_event` | one relay at most, released when its state ends; an unsafe open never locks again; an open door is not locked; every process ends |
| Door controller, timeout task | `door-control.c` `statemachine_setTimeout`, `statemachine_triggerTimeout` | task handle, event bit | start, replace, cancel, fire | a waiting process has a timeout; a cancelled one is not delivered |
| Door controller, smoothing | `door-control.c` `get_door_state` and the array of samples | circular array, index | sample, test | stable means: the latest samples are equal |
| Door controller, main loop | `door-control.c` `app_main` and callbacks, `io.c` | event bits, refresh counter, button level | boot, collect bits, serve each, sample and publish | no button release lost; the published status converges |
| Daemon, state machine | `software/src/state-machine.c` | state, the two doors, last shack state | `sm_apply_event` | every operation is timed, and ends |
| Daemon, client table | `portal-daemon.c` `add_ipc_client` ff. | entries, id counter | add, remove, remove by flag, find | ids unique, others kept |
| Daemon, signal ring | `portal-daemon.c` `push_signal`, `pop_signal` | two arrays, offset, size | push, pop | a bounded queue |
| Daemon, main loop | `portal-daemon.c` `main`, `mqtt-client.c`, `ipc.c`, `log.c` | poll table, timer, MQTT connection, shutdown flag | handle a signal, sync, poll, serve a descriptor, stop | waiters get an answer; refusals reach the one who asked; the table polls the connection there is; processes are released; a stop request stops it |
| portal-trigger | `software/src/portal-trigger.c` | one connection | connect, send one request, read until end of file | it terminates |
| The portal as a whole | daemon, two controllers, broker | all of the above, and time | | the timeouts of the parts fit together; "locked" means locked |
| Busch interface | `firmware/busch-interface/main` | two flags set by callbacks, the pulse | open, bell, connect, reset | no command and no bell is swallowed |
| API endpoint | `firmware/api-endpoint/main/api-endpoint.c` | last serial signal, tick counts, retries | read the serial line, push | the state reaches the API in time |
| MQTT wrapper | `firmware/common/portal-io` | connection | publish with QoS 0 | part of the controllers |
| Certificate converter | `firmware/make-cheader.py` | | text to C literal | the compiler reads back the text |
| Add-on, shaders of a cloud | `PCVManager.render`, `update`, shader switches, filters | cache entry, properties, GPU batches | redraw, switch, filter, undo | the batch is that of the data; the cloud is drawn by somebody |
| Add-on, clouds, edits, sequences | `PCVManager`, `PCVSequence`, operators | cache, object properties, helper meshes, sequences, handlers | load, draw, erase, join, generate, edit, play, reopen | what is drawn can be erased; handlers run; edits give back what they took; the frame's file is shown |
| Add-on, simplification | `PCV_OT_filter_simplify.resample` | candidates, pool | sample | distinct samples, no point lost that was looked at |
| Add-on, PLY files | `PlyPointCloudReader`, `BinPlyPointCloudWriter` | header, files | read, replace a file | the vertices are read; a crash loses no file |
| Add-on, rendering | `PCV_OT_render`, `PCV_OT_render_animation` | settings of the scene | render, animate | settings are given back |
| Scripts, certificates, Ethernet, mock door, mqtt-c, the add-on's samplers, instancers, GLSL and panels | | | | not modelled, see below |

How they interact. The daemon is one thread around `poll`. Its state machine is
called from the MQTT callback, the timer and the IPC clients, and answers with
signals that go through a ring buffer and are acted on at the top of the next
round. Door controllers have a main task, a timeout task, an interrupt handler
and the MQTT task; the last three only set bits in an event group that the main
task collects. Between daemon and doors there is MQTT: commands with QoS 2,
status with QoS 0 and repeated. In the add-on, Blender calls operators, property
callbacks, the draw handler and the frame handler, one at a time but in any
order; they meet in `PCVManager.cache` and in the properties of objects, which
undo and reopening replace behind their back.

What is hard here: the delay between an event and the handling of its signals;
the fixed order in which one round serves descriptors, or bits; timeouts that
fire while they are being replaced; table entries that move; processes that
leave while the daemon writes to them; connections found closed in a place
where nobody looks; restarts; timeouts in one part that must outlast those in
another; data on the GPU, indexes and saved identifiers that outlive what they
refer to. `PROJECT.json` lists these hazards line by line.

## Modules

| | Modules | Relation |
|---|---|---|
| Door | `DoorTimer` - `DoorStateMachine` - `DoorControl` - `DoorControlProofs` | each extends the one before; `DoorControl` also extends `DoorSensor` |
| | `DoorService` | abstract specification; `DoorControl` implements it (`ImplementsService`) |
| | `DoorServiceProofs` | extends `DoorControlProofs` |
| | `SmoothSensor` | implements `DoorSensor` (`ArrayIsRunLength`) |
| Daemon | `PortalStateMachine`, `IpcTable` - `PortalDaemon` - `MCPortalDaemon` | the last adds the symmetry of processes |
| | `IpcTableProofs` | extends `IpcTable` |
| | `PortalDaemonProofs` | extends `PortalDaemon` and `IpcTableProofs` |
| | `SignalRing` | implements `SignalQueue` (`RingIsQueue`) |
| Portal | `Portal` | `PortalStateMachine` and two instances of `DoorService` |
| | `PortalProofs` | extends `Portal` |
| Firmware | `BuschInterface`, `ApiEndpoint` | |
| | `MCParts` | table, ring, array, Busch interface and endpoint side by side; a behaviour is one of a single part |
| | `PartsProofs` | about ring, array, Busch interface and endpoint |
| Add-on | `PCVShading`, `PCVClouds`, `PCVSimplify`, `PCVFiles`, `PCVRender` | |
| | `PCVCloudsProofs` | extends `PCVClouds` |
| | `PCVProofs` | about the other four, and `CHeader` |
| Converter | `CHeader` | |
| | `MCClouds` | the six modules above side by side, likewise |

### Door controller

* `DoorTimer`. `timeout_task` is the handle with the task's progress:
  `none`, `waiting` in `vTaskDelay`, `fired` between setting the bit and
  clearing the handle. `statemachine_setTimeout` deletes the task but leaves
  the bit. It tests the handle and reads it again without a lock; the second
  disjunct is the outcome in which the task cleared it in between and
  `vTaskDelete(NULL)` deletes the main task (`alive` becomes `FALSE`).
* `DoorStateMachine`. `set_state` with the callbacks it makes (`io_of`,
  `signals_of`, the timeout), then one operator per `switch` of
  `sm_change_door_state` and of `sm_send_event`. `request` is a history
  variable. `DOOR_FAULT` does not occur: `get_door_state` returns it only
  together with `value_sane = false`.
* `DoorSensor` keeps the latest sample and the length of the run of equal ones;
  `SmoothSensor` has the circular array of the source, which starts with four
  different states, and the loop that compares its elements.
* `DoorControl`. `Boot` is the boot loop; `WaitBits` is `xEventGroupWaitBits`;
  `ServeButton`, `ServeTimeout`, `ServeRequest` serve the collected bits in the
  order of the source (`Before`); `SampleDoor` is the rest of the loop.
  `ButtonPublishFails` and `StatusPublishFails` are the two `abort` calls; lost
  QoS 0 messages, aborts and resets are bounded by `MaxFaults`. `RequestArrives`,
  `ButtonEdge`, `ResetArrives`, `TimeoutTask` and `DoorMoves` are the other
  tasks and the world, and may happen between any two steps of the main task.
* `DoorService`. Door, latest reading, the running request with its stage
  (idle, opening, entry, closing, locking) and the last published status.
  Relays, tasks, bits, sampling and the button are gone. `StageOf` in
  `DoorControl` is the refinement mapping: the state in which a relay is pressed
  and the one that waits for its effect are one stage.

### Daemon

* `PortalStateMachine` is `sm_apply_event` as a function that gives the next
  machine and the signals in order; the chain of early returns is `Reaction`
  and the operators below it.
* `IpcTable` is the dynamic part of the poll table. `next_free_id` is what the
  loop of `fetch_next_client_id` ends with, for an id space of any size;
  `Garbage` is what the entry being filled may hold while that loop already
  counts it. `remove_rounds` is `remove_all_ipc_clients` round by round.
* `SignalRing` has the arrays, `offset` and `size` of the source; `SignalQueue`
  is the bounded sequence that `PortalDaemon` uses.
* `PortalDaemon`. `pc` and `index` are the place in `main`: `drain` (pop and
  handle signals), `sync` (the `mqtt_client_sync` before `poll`), `poll`, and
  `serve` with `pfd_index`. One action serves one descriptor, the whole handler
  with everything it calls. `log_hits_dead_client` is the case in which a log
  message is forwarded to a process that has left: the failed write is logged
  and forwarded to the same process again until the stack is used up, so every
  handler that logs has an outcome `Dies("crashed")`. `link` and `mqtt_fd` tell
  apart what the connection is and what the table holds for it. SIGINT and
  SIGTERM interrupt `poll` (`PollInterrupted`) or, one instruction earlier, only
  set the flag that is read after the next round (`SigTerm`, `Stop`). After a
  crash the socket in `/tmp` is left behind and `bind` fails, so only `exited`
  leads to `Restart`.

### Portal

An event of the daemon is handled with all its signals in one step and its
commands arrive before the next event; a movement is read at once. These delays
are what `PortalDaemon` and `DoorControl` are about; here they are much shorter
than the unit of time, twenty seconds. In that unit the daemon waits 6, an
opening 1, an entry 3, a closing 2 (thirty seconds rounded up) and a locking 1.
Status messages may be lost, controllers and daemon may restart, the user may
force or reset. `smooth` marks the behaviours in which nothing of this happens
and in which everybody does in time what the portal waits for; in them every
controller is heard in every unit, as its forced update comes every ten seconds.

### Busch interface and API endpoint

`BuschInterface` has the two flags, set by callbacks and cleared by
compare-and-swap in the main loop, and the pulse during which the loop sleeps.
`ApiEndpoint` has the serial line (good lines, lines that are too long or
unknown), tick counts modulo `TickSpace`, the schedule of pushes and what the
wireless connection does until its retries are used up.

### Add-on and converter

* `PCVShading`: one cloud. `ci` is its entry in `PCVManager.cache`, `props` the
  properties of its object. Of a batch, the number of its points, the settings
  it was built for and whether the arrays are still those it was filled from.
  `render` is one redraw, with the place in which Python raises; `Command` is
  what users do between redraws: switches with the callbacks they cause,
  filters, selection, undo.
* `PCVClouds`: many clouds. The uuid is a number; entries, objects, helper meshes
  and sequences refer to each other by uuid or name as in the source, so removed
  and renamed objects and reopened files leave references that lead nowhere.
* `PCVSimplify`: pool, candidates and the index arithmetic; which candidate is
  most distant is open.
* `PCVFiles`: a header as a sequence of elements with count and size, the records
  and bytes that each reader takes for vertices. What was read is the empty list,
  an array, or the single record that `np.genfromtxt` makes of one line (`squeezed`);
  only an array comes through the rest of the constructor (`loads`). An export in
  its steps (write, remove, rename) with crashes between them.
* `PCVRender`: what a render borrows from the scene, and each path on which it
  ends.
* `CHeader`: characters as classes (control characters, which `\x` writes in one
  byte, and those beyond ASCII, which are several bytes in the file and decoded
  before the script sees them, among them); line ends as Python reads them, the
  escapes as the compiler reads them.

## Runs

A passing run ends with no error; a violation run checks one statement of a
comment or document of the repository that the code does not keep.

| Run | Checks | Bounds |
|---|---|---|
| `DoorSafety` | `TypeOK`, `RelaysFollowState`, `TimeoutPending`, `UnsafeOpenNeverRelocks`, `ReleaseSeen`, `NeverLocksAnOpenDoor`, `ImplementsService` | all inputs in any number, one fault, forced update in every round; one sample makes a stable reading, as smoothing only delays what the machine hears and the door moves at will |
| `DoorLive` | `ProcessEnds`, `StatusConverges` | two samples for a stable reading, forced update every second round, one fault, requests to close and to open |
| `DoorStaleTimeout` | violates `CancelledTimeoutNotSent` | safe open only |
| `Portal` | `TimeoutFinal`, `CooperationSucceeds`, `LockedIsLocked` | all requests and events, one status message under way (the daemon handles one before the next is sent or lost) |
| `Parts` | `IdsUnique`, `OthersKept`, `RingIsQueue`, `ArrayIsRunLength`, `NothingSwallowed`, `PushedInTime` | three entries, four processes, eight ids; ring of three; array of eight as in the source; 24 ticks, period 4, delays up to 2, two retries: all counters wrap many times |
| `DaemonUsers` | `OperationTimed`, `RefusalMeetsRequester`, `WaitersHaveAnswer` | two processes, two entries, all nine MQTT events, one message per sync, ring of 64 (never full here) |
| `DaemonFailures` | `TypeOK`, `ConnectionPolled` | two processes, a ring of three that overflows, one connection that is lost or only half made, requests that publish or report |
| `DaemonEnds` | `OperationEnds`, `ClientsReleased`, `ShutdownEnds` | two processes, one entry: the table is full; two door events; SIGTERM at any time |
| `DaemonMqttFd` | violates `MqttFdDefined` | one lost connection |
| `DaemonEarlyTimeout` | violates `TimeoutNotEarly` | two messages per sync |
| `Clouds` | shading: `BatchCurrent`, `ShaderChoice`, `RedrawShows`; clouds: `DrawnOwned`, `Handled`, `EditRestores`, `EditIndexes`, `FrameShown`; simplification: `SamplesDistinct`, `OnlyGapsMissing`; files: `VerticesRead`, `NothingLost`; rendering: `RenderRestores`; converter: `HeaderDenotes` | one point, five sets of shaders that a user switches between; two objects, three names, two uuids, three frames, sequences of no or two files; pools up to nine points with three candidates; headers of three elements; two frames; four characters |
| `CloudsSizes` | violates `SizesRecovered` | the shaders with sizes |

Deadlock is checked for the door, the portal and the parts. The daemon's runs
turn it off: a daemon that has crashed stays down, because the socket it left
behind keeps the next one from binding. `Clouds` turns it off because a
sampling ends, and headers and texts have a longest instance.

Why the bounds are enough: two processes are what a meeting of requests takes,
and two entries what moving the last one takes. Every operation of the daemon's
state machine sends at most four signals, so in one round with two clients, one
message in each sync and the timer a ring of 64 is never full, and one of three
is. In the controller nothing depends on numbers larger than "stable or not" and
"forced or not", and the proofs hold for all of them. The portal has the doors
it really has. A batch is compared with the cloud by count, so one point and
none are the cases; shaders interact through shared keys of the entry and
through callbacks, and the five sets hold one pair each that share something,
and a shader of every kind. Two objects suffice for a cloud that takes the place
of another, a join, a removed and a renamed object. A pool of nine with slices of
three has full, partial and empty slices, and candidates that come back.

What the violations show:

* `CancelledTimeoutNotSent`: the timeout task sets its bit just before the main
  task replaces it; the bit is delivered to the next state, which ends early (a
  button press, or the wait for the bolt).
* `MqttFdDefined`: the sync before `poll` may find the connection closed and
  closes the socket; the poll table keeps the number. The daemon then exits and
  is started again.
* `TimeoutNotEarly`: MQTT is served before the timer. If an operation ends and a
  button starts another in that round, the old timer times out the new one.
* `SizesRecovered`: the shaders with a size per point keep it as integers
  (`sizes`) or as floats (`sizesf`), each only one of the two. After a switch
  "try to recover already generated data" looks for the other key and raises
  `KeyError` in every redraw.

Two descriptions in the add-on promise more than the code keeps; the properties of the
passing runs say what does hold:

* "Simplify point cloud to exact number of evenly distributed samples, all loaded
  points are processed" (line 6270). Between two slices of candidates one point is
  stepped over (`last_used += 1 + candidates`) and never looked at again, and when the
  rest is used up `resample` returns with fewer samples (6348): of nine points, with
  three candidates and eight samples wanted, seven come out. The description of the
  number itself (line 10193) admits that fewer may come. `OnlyGapsMissing` says
  exactly which points are missing then.
* "other shaders will be overrided until disabled" (line 10429), of the colour
  adjustment. The callbacks of depth, normal and position switch off every shader but
  this one; a user who switches one of them on while the colour adjustment is on gets
  both drawn. `ShaderChoice` excepts these three and no other.

Other behaviour of the code that the models contain and no property states:
forced opening and reset without a connection fail an assertion in
`mqtt_client_publish` (`NotConnectedAssertion`); signals queued by the sync before
`poll` wait until a descriptor is ready; a connection whose first publish or
subscribe fails is never tried again (`ConnectionPolled` says that no other one is
left out of the poll table); a door that is unlocked while the relay
is still pressed changes in a state that ignores changes, and the controller later
signals an error; a controller that waits for somebody to enter refuses a lock
command and the daemon does not repeat it; the daemon never acts on the reset
topic; `reset_runtime` does nothing after a file was reopened.

Exceptions written into properties:

* `ClientsReleased` and `WaitersHaveAnswer` except clients of an opening that
  ended with nobody entering. The daemon logs `SIGNAL_UNLOCK_TIMEOUT` and
  disconnects nobody for it, and the later `SIGNAL_LOCK_SUCCESSFUL` disconnects
  those who wait for `LOCKED`; the one who asked to open stays connected.
* `ProcessEnds` and `TimeoutPending` except a main task that has deleted itself.
* `LockedIsLocked` and `CooperationSucceeds` are about `smooth` behaviours: after
  a lost status message the daemon may believe a door locked that is not.
* `PushedInTime` until a tick count wraps: afterwards pushes come in every round,
  or not for a whole range of the counter.
* `EditIndexes` except a sequence of the cloud that is edited; `FrameShown` except
  sequences behind a cyclic one in the dictionary, which get the frame that was
  counted down for it; `VerticesRead` for files with one block of vertices, which
  comes first (others are read wrongly in both formats), and a text with one vertex,
  which is not loaded at all: `len` of a record without a dimension is a `TypeError`
  (line 1076); `NothingLost` for one crash (a second one, in the next export, can
  meet the only whole file under the temporary name); `RenderRestores` except
  colour depth and frame after a render that failed; `HeaderDenotes` except
  quotes, backslashes, characters beyond ASCII, and control characters before a
  hexadecimal digit.
* `ShaderChoice` except the colour adjustment together with depth, normal or
  position, and `OnlyGapsMissing` except the points between the slices (both above).

### Fairness

`DoorControl!FairSpec`: weak fairness of the main task, which never blocks longer
than 100 ms or a beep, and of the timeout task, whose delay ends. Nothing is
assumed of the door, the users or the network; `StatusConverges` is conditional
on a door that stays as it is.

`PortalDaemon!FairSpec`: weak fairness of the daemon and of its timer. That the
daemon leaves `poll` again rests on door controllers that repeat their status
(`FORCED_STATUS_UPDATE_PERIOD`), on the reconnect timer when there is no
connection, and on timers that expire; `ShutdownEnds` needs exactly this, as a
signal just before `poll` does not wake it. Nothing is assumed of clients.

### Mutants

Every property of a passing run has a mutated definition (`Mut...`, placed before
the definition it replaces) under which TLC finds it violated: a relay not
released, a timeout not restarted, an open door locked at once, a forced update
left out, an id taken without a look at the table, the other door opened safely, a
batch not rebuilt, a file removed too early, and so on.

## Proofs

Every theorem holds for all values of the constants that satisfy the `ASSUME` of
their module (`SensorAssumption`, `LoopAssumption`, `TableAssumption`,
`DaemonAssumption`, `RingAssumption`, `ArrayAssumption`, `EndpointAssumption`,
`PortalAssumption`, `ShadingAssumption`, `CloudsAssumption`, `SimplifyAssumption`,
`FilesAssumption`, `RenderAssumption`, `HeaderAssumption`); TLC evaluates each of them for the values
of its runs. Bounds such as `MaxFaults` or `MaxInbox` are therefore bounds of the
model checking only. Of the properties that the passing runs check, all are theorems
but the five of liveness.

| Module | Theorems (the property, where the name differs) |
|---|---|
| `DoorControlProofs` | `DoorInvariant`, `TypeCorrect` (`TypeOK`), `RelaysSafe` (`RelaysFollowState`), `TimeoutSafe` (`TimeoutPending`), `UnsafeSafe` (`UnsafeOpenNeverRelocks`), `ButtonSafe` (`ReleaseSeen`), `LockSafe` (`NeverLocksAnOpenDoor`), `StatusInTime` (no run: `RoundsBounded`, `StatusComesNearer`), `ProcessesMoveOn` (no run: `ProcessMovesOn`) |
| `DoorServiceProofs` | `ControllerImplementsService` (`ImplementsService`) |
| `IpcTableProofs` | `TableSafe`, `IdsAlwaysUnique` (`IdsUnique`), `OthersAlwaysKept` (`OthersKept`), `RemoveAll` |
| `PortalDaemonProofs` | `DaemonInvariant`, `DaemonTypes` (`TypeOK`), `OperationIsTimed` (`OperationTimed`), `RefusalsMeetRequester` (`RefusalMeetsRequester`), `WaitersAreAnswered` (`WaitersHaveAnswer`), `ConnectionsArePolled` (`ConnectionPolled`), `OperationsMoveOn` (no run: `OperationMovesOn`) |
| `PortalProofs` | `TimeoutsAreFinal` (`TimeoutFinal`), `RequestsSucceed` (`CooperationSucceeds`), `LockedShackIsLocked` (`LockedIsLocked`) |
| `PartsProofs` | `BuschSwallowsNothing` (`NothingSwallowed`), `RingImplementsQueue` (`RingIsQueue`), `ArrayImplementsRun` (`ArrayIsRunLength`), `EndpointPushesInTime` (`PushedInTime`) |
| `PCVProofs` | `RendersRestore` (`RenderRestores`), `ExportsLoseNothing` (`NothingLost`), `SamplesAreDistinct` (`SamplesDistinct`), `OnlyGapsAreMissing` (`OnlyGapsMissing`), `BatchesAreCurrent` (`BatchCurrent`), `ShadersAreChosen` (`ShaderChoice`), `RedrawsShow` (`RedrawShows`), `VerticesAreRead` (`VerticesRead`), `HeadersDenote` (`HeaderDenotes`) |
| `PCVCloudsProofs` | `DrawnCloudsAreOwned` (`DrawnOwned`), `WaitingIsHandled` (`Handled`), `EditsRestore` (`EditRestores`), `EditIndexesAreRight` (`EditIndexes`), `FramesAreShown` (`FrameShown`) |

### Door

The invariants are not inductive by themselves. `UnsafeOpenNeverRelocks` speaks
of the request that is served, the code looks at `unsafe_action`; `FlagOfRequest`
links the two in the states of an opening. After `WAIT_FOR_OPEN` the door is locked
without a look at the sensor; `WaitsForOpening` (the door is not known to be open
in that state) is why that is safe, and it holds because `WAIT_FOR_OPEN` is left
as soon as the door opens. `BitsServedAtWork` says that bits are collected only
while they are being served, without which a restart of the loop would lose a
timeout or an edge; `BootsIdle` that the state machine is idle until the boot
loop is done. One lemma per operation of the state machine
(`ChangeMachine`, `TimeoutMachine`, `RequestMachine`) rests on `Entering`, what
`set_state` does; `DoorStep` has one step per action.

The refinement maps the controller to the record that `Portal` uses (`View`: door,
reading, stage, request, published status). Beyond `DoorInv` it needs
`KindOfProcess`, that a process knows the request it serves. One lemma per
handler names the step of the service that it is (`ViewStep`); everything the
tasks, the sensor and the bits do in between leaves the view alone.

### Daemon

The heart of the table is `NextIdIsFree`: the ids in use, the one just given out
and the garbage are fewer than the ids (two ids more than entries; 2^32 and 29 in
the code), so the search of `fetch_next_client_id` ends, with an id nobody has.
`Distance` orders the ids by how many increments away they are, and a set of
naturals that is not empty has a least element (`LeastNatural`). `RemoveAll` is
about the loop of `remove_all_ipc_clients` as a whole; `remove_rounds` is a
recursive function, and what holds after each of its rounds is proved for the least
round at which it would not.

`DaemonInv` is the conjunction of six parts. `TableOK` has the unique ids.
`MachineOK` has `OperationTimed`, and that a daemon that has ended keeps no
process. `LoopOK` has the place in the loop and `ConnectionPolled`, which is inductive
with it. `PeersOK` gives each connected process one place, in the queue of the
listener or in the table, so that a message reaches one client. `RefusalOK` says
from where to where in the loop a refusal can be queued: no client is accepted
meanwhile, which is why none that came later can have its id. `WaitersOK` says that
whoever waits for something waits for errors as well: a timeout reaches everybody.
What the main loop relies on when the state machine reacts is `Reacts`, proved once
for every state and event; the loop's own proof does not open the state machine
again.

### Portal

`TimeoutFinal` rests on `TimesInv`, whatever fails: a request that ends with a
locked door has just started the daemon's timer, and what a controller still needs
(`Ahead`) is less than what is left of that timer. The other two are about smooth
behaviours, in which nothing fails and everybody acts in time. `SmoothInv` says what
messages under way may say: the last one about a door is its position (`KnowsDoor`),
and during a process the order of the ones before it is limited (`OpeningDoor`,
`LockingDoor`), for any number of messages. `FirstDoor`, `SecondDoor` and `FollowsUp`
tell how far the two doors are when the daemon opens the shack.

### Firmware parts

* Busch interface: `NothingSwallowed` is inductive as it stands.
* Ring: `RingInv` keeps the offsets inside the arrays; the cells from `read_offset`
  on are the queue, and a push or a pop changes it at the right end, by
  arithmetic modulo the number of cells.
* Array: the number of latest samples that agree (`IsRun`) is one that exists and is
  unique; a push makes it one longer, or one.
* Endpoint: silence so far and time until the next update make at most a period
  (`EndpointInv`).

### Point cloud add-on and converter

* `RenderInv` and `FilesInv` say what is saved, or on disk, at each place in the
  operator; `SimplifyInv` that samples and `unused_pool` are different points, which
  the slices have passed, and that they are all of those but the gaps (`Covered`;
  lemma `SliceMeets`: a slice holds every point up to the next gap).
* `ShadingInv` has the entry of the cache (`EntryOK`: the batch of the default
  shader has the length and the lighting that the entry says), the switches (`PropsOK`) and
  the link between object and entry. `IsDrawing` and `GoesOn` describe what one
  shader of `render` does to its entry; the loop over the shaders is a recursive
  function and is proved for the first shader that would break it.
* `CloudsInv`: uuids of objects name their entries (`NamesMean`), entries and links
  are owned (`EntriesOwned`, `LinksOwned`), handlers run (`HandlersRun`), meshes of
  edits belong to a cloud (`MeshesOwned`), and `EditIndexes`. `IsChange` is what one
  operator may do to them, with one lemma per operator. `RoundOK` is the loop invariant
  of `PCVSequence.handler`, which removes items from the list it walks.
* What a file or a string is made of are pieces put together by `FlattenSeq`.
  `IsFlat` says what has been put together up to each piece, `Follows` that the
  first places of the whole are the places of what was put together so far; so a
  piece is found at its place (`FlatPiece`), whatever comes after it.
* Reader of PLY files: with vertices first and in one block (`OneBlock`), either loop
  reads for the first element and passes by the others (`BinaryReads`, `AsciiReads`);
  the body begins with the records of that element, in lines and in bytes, so they
  are what is read (`ReadFirst`), and squeezed in the text format.
* Converter: reading the lines keeps what `HeaderDenotes` asks of the text
  (`LinesRead`, `Separated`); that a carriage return disappears, or becomes a line
  feed, cannot bring a digit next to an escape. Each character is written as one or
  two tokens, which are compiled back to it (`Written`, `CompilesBack`).

Recursive functions (`remove_rounds`, `draw_extras`, `HandlerLoop`, `_data_binary`,
`_data_ascii`, the one inside `FlattenSeq`) are handled
alike: that the function exists, and what holds of its values, is proved by looking
at the least argument that contradicts it (`LeastNatural`, `LeastOf`).

### Only model-checked

Liveness (`ProcessEnds`, `StatusConverges`, `OperationEnds`, `ClientsReleased`,
`ShutdownEnds`): fairness is out of the prover's reach. What three of them need
besides the scheduling is proved, as action properties:

* `StatusConverges`: `StatusInTime`. `RoundsLeft`, the samples that a stable reading
  still needs plus the rounds until the forced update, is bounded; every round in
  which nothing fails lowers it or publishes the position of the door, and no other
  step raises it.
* `ProcessEnds`: `TimeoutSafe` (a timeout is coming) and `ProcessesMoveOn` (each one
  that is served lowers `StepsLeft`, and nothing raises it again).
* `OperationEnds`: `OperationIsTimed` and `OperationsMoveOn` (the timeout is started
  again only when the operation enters its second stage).

## Not modelled

* Samplers, instancers, GLSL programs and panels of the add-on: numerical
  geometry, generated meshes and layout, with no state that outlives a call.
  Also the operators of its debug panel, `generate_volume`, duplicated objects and
  names that are used again, the types and byte orders of PLY properties; clipping
  from a camera has the effect of clipping from a bounding box.
* Ethernet start-up (calls into ESP-IDF in sequence), the mock door (answers every
  command at once), key import and administration (shell around sqlite and gpg),
  certificates (openssl), the vendored mqtt-c (its effect is in `PortalDaemon`).
* Of the daemon: nick names and the text of messages, `device_status`, the command
  line, durations (except in `Portal`), a client that does not read and blocks the
  daemon's write (`ipc.c:51`), the descriptor left open when the serial device
  cannot be configured (`portal-daemon.c:1451`), the arithmetic of loop times
  (`portal-daemon.c:736`), descriptor numbers (a closed MQTT descriptor that is
  reused for an IPC client), the log line of a full ring, a failing
  `timerfd_settime`.
* Of the firmware: `xEventGroupSetBits` called in an interrupt (`io.c:54`), whose
  outcome is FreeRTOS's; a failing `xTaskCreate`; set-up of MQTT, TLS and clock.

## Plan

Every safety property of the passing runs is proved. What is left is housekeeping:
lemmas that are proved per module and could be shared (counting in sequences after
`RemoveAt`, least counterexamples of recursive functions), and the parts listed under
"Not modelled" if they come to keep state.
