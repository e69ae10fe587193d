# Verification of the RTSP viewer

TLA+ models of the multi-channel RTSP viewer in this repository, checked with TLC, and theorems about them, checked with TLAPS.
Every definition is translated from the code under `src/`; `PROJECT.json` maps each one to its lines, lists the runs, the hazards they aim at, and the findings.
Paths below are relative to the repository's own `src/` directory unless they start with `docs/`.

## 1. The system

The viewer shows, records and supervises up to a few dozen RTSP cameras. It runs these threads:

- the **UI thread** (Qt): windows, tiles, renderers, a 33 ms poll of the frame slots;
- one **control thread** (`ControlExecutor`): a task queue and a tick once a second; every change of a channel's state happens here;
- one **decode thread per open source** (`FfmpegStreamSource::run`): opens, reads, decodes, publishes frames, serves the recorder;
- one **writer thread per open recording** (`FfmpegRecorder`);
- one **relay worker thread** (`RelayCoordinator`) that watches the external relay server MediaMTX, plus a small pool for snapshots.

| Component | State | Operations | Talks to |
|---|---|---|---|
| Connection state machine (`domain/connection`) | state, attempts, four timers | nine inputs and the tick | returns OpenSource / CloseSource to the controller |
| Channel controller, stream health (`app/ChannelController`, `domain/health`) | machine, stages, reason, `m_sourceAlive` | commands, source events, tick, relay health | opens and closes the source; publishes snapshots |
| Marshalling proxy (`app/MarshallingStreamSource.h`) | proxy, its detached flag | open, close, event posting | decode thread → control queue |
| Control executor (`infra/system/ControlExecutor`) | queue, busy flag, next tick | post, drain, run, destroy | everything |
| Channel manager, channel file (`app/ChannelManager`, `infra/persist`) | configurations, controllers, `channels.json` | restore, add, remove, update, swap, move, reorder | controllers, file |
| Recording controller (`app/RecordingController`) | per channel intent, state, age, error counts | toggle, edges, tick, removal | a latch and a pending path that the decode thread reads |
| Recording service (`FfmpegStreamSource::serviceRecording`) | latch, path, recorder | per packet | recorder, files |
| Recorder (`infra/ffmpeg/FfmpegRecorder`) | packet queue, stop flag, the container and its file | start, writePacket, stop, the writer's loop | decode thread and its own writer thread |
| Frame slot, tiles, renderers (`LatestSurfaceSlot`, `ui/grid`, `ui/render`) | jitter FIFO, handles, cursors, pending and in-flight frames | publish, clear, take, present, paint | decode, control and UI thread |
| Relay coordinator, supervisor, service managers (`ui/relay`, `app/RelaySupervisor`, `infra/relay`) | list, streak, cooldown, config file | start, updateChannels, poll, restart | MediaMTX, which outlives the viewer |
| Window, list panel, grid (`ui/shell`, `ui/channels`, `ui/grid`) | lists and states as last told, rows, tiles, cached layout, tabs, the open menu or dialog | three slots for lists, snapshots and recordings; buttons, drags, menus | control queue one way, Qt's event queue the other |
| Start and teardown (`ui/main.cpp`) | pointers the tick and the callbacks use | wiring, aboutToQuit, teardown | everything |

What is hard here: events of a session that arrive after its close; a control thread that joins decode threads while the queues of others wait;
two threads that share a recording request; handles with owners on three threads; retry timers that must neither be lost nor survive their cycle;
a window that works on lists which may be replaced while its menus and dialogs run an event loop of their own;
restarts of the program over a file and over an external process that lives on; a teardown that must outwait every thread.
`PROJECT.json` lists forty such hazards at their lines, with the properties that cover them or the reason none does.

What makes each part correct, in a sentence: a connection is retried for ever, at the promised pace; only the current session is heard; a source has a thread exactly while its session lives;
a recording's request is the one shown, its file is closed and never overwritten; handles are returned exactly once and frames shown in order;
what a recorder accepted and did not drop is in its file; the window shows what is once the queues are empty, except that the row of a channel shows Idle from each list until the next snapshot; a drop reaches the channel the user saw, and so does a confirmed removal, except where the code reads across a nested event loop (the "-" button, the name in the menu of the list, a tile deleted under its menu);
channels survive a restart and keep distinct places; the relay is not restarted without cause and comes back when it is needed; what a task closes does not make other channels look silent; the program ends, with no task left over.
Three such statements the repository makes and the code does not keep; each has a run that shows it (section 5).

## 2. The modules

| Module | Models | Composed of |
|---|---|---|
| `ConnectionStateMachine` | every input of the class, as an operator from the members to a transition | |
| `ReconnectPolicy` | *abstract*: what a channel's reconnecting promises its operator | |
| `Connection` | one machine driven by every input in every order; implements `ReconnectPolicy` | `ConnectionStateMachine`, `INSTANCE ReconnectPolicy` |
| `ChannelController` | the handlers of the controller, with the stage marks | `ConnectionStateMachine` |
| `Session` | one channel at run time: controller, queue, control thread, proxy, decode thread, tile; implements `Connection` | `ChannelController`, `INSTANCE Connection` |
| `Recording` | one channel's recording over control, decode and writer thread | the connection as the phases of `ReconnectPolicy` |
| `ControlLoop` | the executor shared by N channels, commands, teardown of the program | |
| `Channels` | the manager and its file over several runs of the program | |
| `Surface` | the slot, two views, their renderers, the handles | |
| `Relay` | coordinator, supervisor, service managers, MediaMTX, over several runs of the viewer | |
| `Recorder` | one `FfmpegRecorder`: decode thread, bounded queue, writer thread, every call of FFmpeg that may fail | |
| `GridLayout` | the geometry of the grid, as operators: columns, rows, the cell of each channel, the cell under a point | |
| `Shell` | window, list panel, grid and dialogs, with the two queues between them and the control thread | `GridLayout` |
| `ConnectionProofs`, `SessionProofs`, `RecorderProofs`, `RecordingProofs`, `RelayProofs`, `SurfaceProofs` | theorems | each extends its module |
| `ChannelsProofs` | theorems about `Channels` and `ControlLoop` | extends both; what both would define is called `Loop...` in `ControlLoop` |
| `ShellProofs` | theorems about `Shell` and `GridLayout` | extends `Shell` |
| `MC*` | instances for TLC | |

So there are two refinements in a chain: `Session` implements `Connection` (run `session`), and `Connection` implements `ReconnectPolicy` (run `connection`). Both are proved.

How state and actions correspond to the code:

- **Time.** A `TimePoint` member is an age or a remaining time in units, and `-1` where the code has `nullopt`. `Elapse`/`Aged` lets a unit pass. In `Connection` and `Session` the tick may come at any moment, also late.
- **Handlers.** A handler that runs to its end on the control thread is one action. One that closes a source is cut at the join, as the decode thread goes on meanwhile: `closeThenConnect` and its like in `Session`, `tickJoin`, `error`, `restart` and `teardown` in `ControlLoop`, `closeFor...` in `Recording`.
- **Decode thread.** `Session` has a program point for each stretch between two looks at `m_stop`. `passed` says that a look may have been made before the close, so that one more event is posted: the check-then-post of `FfmpegStreamSource.cpp:294`.
- **Detach.** The proxy's `close` detaches after the join; `Detached` marks what is queued. The field `session` of a task is a mark of the model only, it lets the properties tell an old event from a new one.
- **Recording.** `sink` holds the members that both threads use under the mutex, `recorder` what the decode thread owns alone. `serviceRecording` is cut wherever the code gives up the mutex: `wanted`, `path`, `startFailed`.
- **Control loop.** Packets of one channel in the queue are one task, in the place of the last. The teardown has a point for every statement of `main` that another thread can notice, up to the destruction of the recordings, the manager and the executor, in this order.
- **Channels.** A task of the control thread, its save included, is one action. `lag` counts the changes since the last save that worked.
- **Surface.** Taking a frame and presenting it are two actions of the UI thread, as the mutex is not held between them. `refs` is the reference count kept by the graphics library; `lost` counts the handles a destroyed renderer took with it.
- **Recorder.** The steps are those of the mutex `m_qMu` and of the condition variable. `decoder` and `writer` are the points where the two threads are, among them those inside a call of FFmpeg on the container, which are outside the lock: a header or a trailer being written, a packet being muxed. A notification that meets no sleeping writer is lost, as in the code. A packet is its number and whether it is a keyframe. `accepted` is a mark of the model: all that ever went into the queue of this segment. `Recording` keeps its coarser view of the recorder, open or not and failed or not.
- **Shell.** `tasks` is the queue of the executor, `events` Qt's queue of calls and signals to the UI thread; a task, and the delivery of an event, is one action. A menu or a dialog is a state, `dialog`: until it ends the user reaches nothing else, but events are delivered, from its nested event loop. It holds what the code holds meanwhile (a row, an id, a pointer to a tile), and `late` says whether a list has come since that makes what is still to be read another thing than what was read before (`Outdates`). An id beyond the end of a vector is any id. The connection of a channel is Idle, Streaming or between (`Down`), which is what the window tells apart: the alarm asks for Streaming, and a list writes Idle into every row. `ChannelManager` and `RecordingController` are reduced to what they publish, in the order they publish it.
- **Relay.** A task of the worker thread is one step. MediaMTX boots, answers, hangs, crashes and reloads on its own: external, modelled from what the code expects of it. Both platforms are in the model, chosen in `Init`.

## 3. The runs

| Run | States | Shows |
|---|---|---|
| `connection` | 2,209 | All inputs in all orders under the **shipped constants** (30 retries, 5 s, 60 s, 3 s, 5 s, 10 s): timers follow the state, the source follows the state, the policy is implemented, silence is noticed, sessions without data wear out the fast retries. |
| `session` | 236,794 | With a command of any kind: through the proxy only the current session is heard, no thread outlives its session, the diagnosis explains the state, the whole implements `Connection`; attempts end, closes end, waits end. |
| `recording` | 1,364,008 | A request never outlives its segment, an open file has the recorder that will close it; through drops, slow mode, URL changes, mode switches, removal and re-adding, failing starts and full disks. A stop reaches the file; on a disk that stays full the recording gives up. |
| `control_loop` | 107,368 | Two channels, closes as long as the stall timeout: the closes of tasks make no channel that sends look old to the next tick; when drain has returned no task is queued or running, every source is closed and no tick has the recordings; the teardown ends. Nothing is said of a tick that has the manager: see `manager_outlives_ticks`. |
| `channels` | 80,007 | From five first files: distinct cells and places, restarts find what was there, controllers fit configurations, a later file is never touched, connections are disturbed by a change of their own address only. |
| `surface` | 1,037,616 | Two views: every handle has exactly its owners, frames are taken in order and without gaps. |
| `relay` | 929,109 | Two channels, two runs of the viewer: running relays are replaced only after three silent polls, and not by a changed list, restarts keep their distance, the file follows the list, the relay serves again and again. |
| `recorder` | 120,216 | Two segments of a queue of two: what was accepted and not dropped reaches the file in order, the threads are never in the container at once, a file begins with a keyframe, `stop` comes back. |
| `shell` | 3,986,168 | Two channels and a third to be added: with empty queues the window shows what is, but for rows a list has set to Idle; the recording marks agree; the tick of the elapsed times runs when a tile records; tiles sit in the cells a drop finds; a confirmed removal removes what was named, but for the "-" button and the name in the menu of the list when a list came meanwhile, and a tile that was deleted under its menu. |
| `recording_overwrites` | | *violation*, see findings |
| `one_stalls_others` | | *violation*: three channels, of which two fall silent and the third is closed with them |
| `manager_outlives_ticks` | | *violation*: a tick goes on with the manager after it is destroyed |

Every module states its type invariant. Among the runs is only that of `Surface`, where it holds the bound of the queue; the others can be added to a `.cfg` by name. All but that of `ControlLoop` are proved, on their own (`TypeCorrect`) or as a part of the inductive invariant. `SlowModeIsEarned` is proved too (`GiveUpIsEarned`).

### Bounds, and why they are enough

- `connection` needs none: the members are bounded by the policies themselves.
- `session`: every timeout is 1 and one retry is allowed, so each branch of the machine is a few steps away; the true values are checked in `connection`. `MaxQueue = 2` lets two events of the decode thread or the tile wait in addition to the command, so that events of an old and of a new session can be in the queue together. One command of any kind comes at any moment, over the machine's own closes and reopenings; that the safety holds for any number of commands is proved (`SessionProofs`), that the channel is live after more than one is not checked.
- `recording`: five paths, since at most that many are referred to at a time (entry, pending, open recorder, two finished); two disk errors and one failed start in a row, a window, a grace and a longest segment of one unit, so that each limit is reached within a few steps, with every way a source can be closed. `ErrorsSurface` holds, which `FullDiskGivesUp` needs: on a full disk a write fails before the window for a healthy segment is over. The two safety properties are proved with and without it and for all limits.
- `control_loop`: two channels, closes of up to two units and a stall timeout of two: one close alone is as long as a channel may be silent, so that a tick which judged before the packets are heard would fail at once. `one_stalls_others` takes three channels and closes of one unit, the least with which the closes of one tick can add up to the timeout (with two channels and these closes there is no counterexample); with the shipped constants it takes eleven closes of the 1 s a TEARDOWN may last (`FfmpegStreamSource.cpp:413`) against 10 s. `manager_outlives_ticks` needs one channel and no command.
- `channels`: two channels allowed out of three ids, so that the limit, the reuse of an id and a file with one channel too many occur; four cells, one of them always free; one failed save in a row.
- `surface`: a FIFO of two (the default of `ChannelSourceFactory`), four frames so that an eviction, a clear and a refill happen, one close or fallback.
- `relay`: the shipped threshold of three polls, a cooldown of two, two changes, two faults, two runs.
- `recorder`: a queue of two instead of 60 fills after two packets; six packets overrun it several times, in one segment or after a second start, with every choice of keyframes. `RecorderAssumption` asks for a queue of at least two: with room for one packet only, the keyframe a file begins with would be dropped for what follows it.
- `shell`: two inputs of the user, of any kind, and one change that comes by itself. Two suffice for a command to meet the dialog of another, for an id to be freed and given again, and for a list to overtake a drag. Two viewports, of which one makes the columns fall into other rows, and the choice between Auto and one column, so that a layout can be stale in each way; what holds of the geometry for all sizes is proved.

Deadlock is checked except in `surface`, `relay`, `shell` and `recorder`, where the bounds on frames, runs, changes, inputs and packets end the behaviour, and a viewer that has quit may stay down.

### Fairness

- `Connection`: the tick comes and time goes by; the executor ticks every second as long as its thread runs.
- `Session`: the control thread serves its queue and ticks; the decode thread gets on, because the sockets are given a timeout and the interrupt callback ends a blocking call once `m_stop` is set and the grace for the TEARDOWN is over (`FfmpegStreamSource::interruptCb`). Nothing is assumed of cameras, users or the relay.
- `Recording`: in addition, a stream delivers keyframes again and again (strong fairness of `WriteKeyframe` alone) and a write to a full disk fails in the end.
- `ControlLoop`: both threads run, joins end, time goes by. Tasks are taken to run faster than they come, which the code does not promise; no liveness of the ticks is stated for that reason.
- `Recorder`: the writer thread runs, and so does the decode thread once it is in `stop`; calls of FFmpeg return. Nothing says that packets or a stop come.
- `Shell`: none; no liveness is stated. That the queues empty is the business of the event loops.
- `Relay`: the worker serves its queue and its timer; MediaMTX comes up when launched and reads a changed file; launchd keeps it alive.

## 4. The proofs

All safety invariants the passing runs check are theorems, but for `ConfirmationHolds`, and so are both refinements and every action property.
Each theorem holds for every value of the constants that satisfies the named assumptions of the module; every one of these is evaluated by TLC in a run.
The pattern is the same throughout: `IInv`, the inductive invariant; one lemma per action, `Init => IInv`, `IInv /\ [Next]_vars => IInv'`; and `Invariance`, from which the other theorems follow.

`ConnectionProofs` (551 obligations), for every policy with `PolicyAssumption` (every delay at least one unit), and any set of reported reasons:

- `Invariance`: `Inv == TypeOK /\ TimersFollowState /\ SourceFollowsState /\ SlowModeIsEarned` is inductive. None of the four is on its own: that a wait has its timer needs the type of the members, that slow mode is earned needs the bound on the attempts in a fast wait, that the source follows needs the state each transition came from. `TypeCorrect`, `TimersAreConsistent`, `SourceIsConsistent` and `GiveUpIsEarned` are its consequences.
- `PolicyIsImplemented`: `Spec => ReconnectPolicy!Spec` under the mapping `Phase`, `RetriesLeft`, `m.retryAt`; every step is a step of the policy or a stutter.
- The argument goes by the operators, since every input is one: the `...Shape` lemmas say what each returns, member by member; `...Sound` that it keeps `Sound` (the invariant without the variables) and that the returned action fits the move; `...Refines` which abstract step it is. `StepInv` and `StepRefines` then have one case per action.

`SessionProofs` (1570 obligations), for every policy, any open errors but `None`, any number of tasks and commands:

- The lemmas of `ConnectionProofs` are instantiated for the machine inside the controller. Above them come the handlers of the controller (each keeps the controller `Well` and is one transition of the machine), above these the actions of the threads.
- `NoGhosts`, `OldEventsAreUnheard`, `DiagnosisFits`: `NoGhostSession`, `OnlyThisSessionIsHeard`, `HealthExplainsState`. The first two need each other, and both need what holds inside a close: the thread has been told to stop and `m_sourceAlive` is down, so nothing of it is heard once it has been joined and its events are detached. `TasksOK` says that a task which is not detached is of this session. The diagnosis needs `Well`, which says which stages a state may have; that a failure has a reason is why `OpenErrors` must not hold `None` (the code never reports it).
- `ChannelIsConnection`: `Session` implements `Connection`, step by step. With `PolicyIsImplemented` the reconnect policy holds for a whole channel.

`ChannelsProofs` (2460 obligations), for any settings and limits and, as `FilesAssumption` says, any first file that is missing, damaged, of a later version, or readable with ids, cells and places all different:

- `PlacesStayApart`, `RestartIsSafe`, `ConnectionsFit`, `TypeCorrect`. Places stay apart because each operation chooses them so: the first free number, a swap, a rank. That a restart brings everything back needs the invariant that they are apart: `configs` sorts by cell, and only cells that differ put every channel into the file exactly once (`ConfigsHaveAll`, `SavedIsRead`).
- `NobodyElseIsCut`: an operation touches the controllers of channels whose address changes and no other.
- `LaterFileIsSafe`: a file of a later version is never written. It rests on `RefuseIsSet`: a run on such a file refuses its saves.
- `DrainIsFinal`, about `ControlLoop`, for any number of channels, commands, and any length of a join: `DrainLeavesNothing`, which is about the tasks, the sources and the recordings; of a tick with the manager there is nothing to prove. `DrainInv` follows the teardown task from the queue (`Queued`: the last that is no event, so all that comes after it are events of channels) through `disconnectAll` (`Closing`: the channels before the one at hand are closed, and only the others have events left) to the end (`Over`: every source is closed, hence nobody posts). What makes it work is order: a close keeps the rest of the queue in order (`LeftInOrder`).
- `TicksHearAll`, about `ControlLoop` too, for any number of channels and any length of a close: `TicksBeginHeard`. `HeardInv` says that a channel that is up and whose camera sends has been heard since time last went by, or that a packet of it, or the error that will close it, waits in the queue or is being handled; an empty queue and a free control thread leave only the first.

`RecorderProofs` (1176 obligations), for any queue length of at least two, any number of packets and segments:

- `OneThreadMuxes`: `ContainerIsNotShared`. It is not inductive: that the writer finds a header needs that no packet is queued before there is one, and that a start finds neither an old writer nor an old packet needs what a stop leaves behind. `ThreadsAgree` is the strengthening.
- `NoPacketIsLost`: `NothingIsLost`, with `Numbered` (no number is used twice, the newest packet is the one being handed over) and `HandedOver` (the writer ends only on a stop and an empty queue).
- `KeyframeComesFirst`: `FileBeginsWithKeyframe`. `KeyIsNext` follows the keyframe from the decode thread through the queue and the writer's hand; it survives a full queue because a keyframe gives way only when all that is queued are keyframes, and then one of these comes next.
- `TypeCorrect`: the queue keeps its bound.

`RecordingProofs` (639 obligations), for every set of closes, every limit, and at least five paths, so that a fresh one can always be named (`PathAssumption`):

- `RequestsFollowTheEntry` and `OpenFilesHaveOwners`. `RequestFollowsEntry` speaks of moments without a handler under way; a segment begins and rolls over in two steps, between which the decode thread may take the request back. `Requested` says what holds of a request at every point of every handler.

`SurfaceProofs` (968 obligations), for any finite set of views, any depth and number of frames:

- `HandlesAreBalanced`, `TypeCorrect`: the count of each handle is the number of its owners. A step moves a handle from one owner to another; that this fits the count needs that nobody holds it twice, hence that the frames of the slot are new to every view: `SlotInOrder`, `ViewInOrder`, `HandInOrder`.
- `TakesAreInOrder`, `TakesAreSmoothEver`: the two action properties, from the same invariant.

`RelayProofs` (368 obligations), for every threshold and cooldown, any channels, changes, runs and faults:

- `FileIsCurrent`, `ShieldAlwaysHolds`, `TypeCorrect`. The counters of the worker and the ghosts that count what happened are related by `Counted`: the code never counts more silent polls, and never a shorter time since the last restart, than there were.

`ShellProofs` (3398 obligations), for any number of channels, any viewports with the code's choice of columns, and any length of the two queues:

- `WindowCatchesUp`, `RecordingShown`, `TickIsRight`, `TilesAreFound`, `TypeCorrect`, from `IInv`. An event is a function of the view (`After`), and the events in the queue lead, one after the other, from the view that is shown to the one that holds (`EventsLead`). A step of the control thread publishes an event that leads one view further, a delivery takes the first away; with none left the two are the same. That a deleted tile never leaves the tick running is owed to `removeRequested`, which ends the recording before it sends the list.
- `WordsAreTrue`, a second invariant, over `IInv`: the last snapshot on the way to a channel is its state, and with none on the way its tile and its row show the last they were told, or what a list made them (`ToldInv`). It rests on the order in which a task publishes: for a new channel the list comes first, then the snapshot, or the row would never hear of it. `WindowCatchesUp` takes from it what it says of rows and tiles.
- `EveryIndexHasACell`: the rows `relayout` asks for hold every `gridIndex` in use, so no channel is ever moved to a foreign cell or left out by the fallback of the code.
- `DropHitsShownCell`: `relayout` and `cellIndexAt` invert each other: a point inside a shown cell is found in that cell. The argument is `DivOfSum`, once for the columns and once for the rows.

Three things shape the modules so that they can be proved about. Sorting is by rank (`AtRank`, `Nth`: the number of members before one), since nothing can be proved of a sort that is recursive or an arbitrary choice; `RanksAreNumbers` says that ranks are 0, 1, 2 and so on, each once. Where a proof by induction would be natural, a least or a greatest counterexample is taken instead (`LeastNumber`, `GreatestNumber`), because the induction theorems of the library take an operator as a parameter, which no installed prover can instantiate. And no module a theorem is about declares a recursive operator.

Model-checked only:

- Liveness: `SilenceIsNoticed`, `FakeSessionsWearOut`, `AttemptsEnd`, `ClosingEnds`, `WaitsEnd`, `StopStops`, `FullDiskGivesUp`, `TeardownEnds`, `RelayServes`, `StopReturns`. Fairness and `ENABLED` are out of the prover's reach.
- `Shell!ConfirmationHolds`: a menu keeps an id, and the id removed is the one kept. A theorem would add to the run only that the number of inputs does not matter.
- The type of `ControlLoop` is proved as far as `DrainInv` needs it (`LoopTyped`), without the bounds of the ages and of the joins.

## 5. Findings

- **`recording_overwrites`** (code). Only the edges into a fast wait withdraw a recording request. A session that ends in slow mode, or through a changed URL, leaves latch and path standing, and the next session opens the same path again and truncates the segment that `main.cpp:331` says is never overwritten.

- **`one_stalls_others`** (code). `tickAll` (`ChannelManager.cpp:219`) joins the decode threads of the channels it closes, one after the other, while the packets of the others wait in the queue of the same thread, and takes the time anew for each. When the closes of one tick add up to the stall timeout, a channel whose camera sends is closed as silent: its failure was that of others, against `ChannelManager.h:15`. It takes many channels falling silent at once; the closes of tasks, as after an error, never do it (`TicksBeginHeard`, proved).
- **`manager_outlives_ticks`** (code). `drain` waits for tasks, not for a tick in progress, because `m_busy` is not set around `onTick` (`ControlExecutor.cpp:32`). A tick that has loaded the manager may run on while `main` returns and destroys it; the executor, whose destructor joins the thread, is declared before the manager and destroyed after it. `main.cpp:612` says the teardown does not depend on these lifetimes.
- **Restart of the relay** (comment, found in `relay`). `RelayCoordinator.h:25`, `RelayCoordinator.cpp:86`, `docs/m4-stress-1h-report.md:35` and `docs/tech-debt.md:130` say that a changed configuration restarts the relay. The services compare the path of the file at most, never its content (`LaunchdRelayService.cpp:60`, `WindowsRelayService.cpp:91`), so a changed list never replaces a running relay; MediaMTX has to reload the file. `ShieldHolds` states what the code does.
- **Rows say Idle** (comment, found in `shell`). A list sets every row to the text and colour of Idle, and `ChannelListPanel.cpp:250` says that a snapshot soon overwrites it. A controller publishes changes only: a camera that has not answered since it was connected gives none until the next attempt, up to 60 s later, and its row shows Idle meanwhile though the channel has failed. `QuietMeansCurrent` makes this exception.

Met on the way, without a run of their own:

- Switching a channel's relay mode clears its slot and restarts its numbering, while the tile keeps its cursor (`LatestSurfaceSlot.h:134`): the tile shows nothing new until the new source has published as many frames as the old one had.
- The "-" button keeps a row over the confirmation dialog and reads its channel afterwards (`ChannelListPanel.cpp:234`). When a list arrives meanwhile, it removes another channel than the one named, or reads beyond the end of the vector. The menu of the list reads the name in the same way (line 201).
- The menu of a tile holds the tile over its own event loop, and a list that arrives deletes the tile (`GridView.cpp:498`): what is chosen then is read from freed memory.
- `openFullscreenTab` does not ask whether the channel still exists (`MainWindow.cpp:563`): a menu that was open during its removal opens a tab that nothing will close but the user.
- `FfmpegRecorder.h:42` says that whole groups of pictures are dropped from a full queue; the code drops one packet at a time, so that the rest of its group is written without it.
- The last column absorbs the pixels the division leaves over (`GridView.cpp:351`), but `cellIndexAt` counts without them: at the right edge of a wide cell a drop may be ignored.
- `pollHealth` returns early while no channel uses the relay and keeps the count of failures (`RelayCoordinator.cpp:54`).
- No cooldown follows the first start of the relay (`RelayCoordinator.cpp:33`): three polls may find it booting and restart it.
- An RGBA frame pending when an NV12 frame is drawn stays pending, and is drawn over the newer one later (`RhiVideoRenderer.cpp:452`).
- The queue of the executor has no bound, and tasks go before ticks (`ControlExecutor.cpp:22` and 42).
- A painted-frame report goes by channel id and past the proxy, and `m_sourceAlive` cannot tell sessions apart: one of an earlier session marks every stage of a channel that is still connecting (`main.cpp:163`, against `MarshallingStreamSource.h:13`).
- A recording that fell back to Idle in the reconcile branch keeps the retry gate down, so that nothing starts it again on a stream that stays up (`RecordingController.cpp:268`, against the comment at 275).
- `docs/2026-06-12-new-viewer-design.md:164` clears the attempts on a presented frame; the code also clears them after three seconds of packets.
- `restore` drops entries beyond the limit or with another scheme, while `main.cpp:553` builds the relay's list from the file without these filters: the relay may pull from a device no channel shows, until the first change.
- A request made while the decode thread handles a failed start is wiped with the failed one (`FfmpegStreamSource.cpp:171`).
- The renderer's destructor returns neither its pending nor its in-flight handle, on purpose (`RhiVideoRenderer.h:66`).

## 6. Not modelled, and why

- Pixels, formats, colour conversion, shaders, GPU bridges and the opt-in D3D11 conversion: data, or calls whose behaviour the code does not determine. That a frame has a handle, or that mapping it fails, is a choice.
- Toasts, the file panel, the log panel, the forms of the dialogs, the info dialog, the numbers of the status bar, the placeholders of empty cells, and the strip of pixels the last column absorbs: nothing reads them back. What a form sends to the control thread is an input of `Shell`.
- In `Shell` a tile that a list deletes under its own menu keeps its values; what else freed memory may hold is outside of any model.
- The traffic counters of snapshots, the resource monitor, the soak log: nothing reads them back.
- Texts: file names (only that no path is given out twice), the relay's YAML, HTTP answers (only what they decide), names of channels.
- Restarts and crashes of the decode thread's libraries; two viewers at the same time.

## 7. The plan

Modelled, in this order: `ConnectionStateMachine`/`Connection`/`ReconnectPolicy`; `ChannelController`/`Session`; `Recording`; `ControlLoop`; `Channels`; `Surface`; `Relay`; `Recorder` and `GridLayout`; `Shell`.

Proved: every safety invariant of the passing runs but one, both refinements of the chain, and the action properties named in section 4.

Next, by module:

1. `FilePanel`, which lists and deletes files while one of them is being recorded, over the snapshot of the file system it shows.
2. The teardown of the relay's worker, with the race of `main.cpp:313`, composed into `ControlLoop`.
3. `Recording` over `Recorder`: the abstract recorder of the one as the specification of the other.

Next, by theorem:

1. `Recorder` implements the recorder `Recording` sees, once the third module above states it.
2. `ControlLoop!LoopTypeOK`, with the bounds, and `FailuresStayApart` for `(N - 1) * JoinTime < StallTimeout`, for which `TicksHearAll` is the first half.
3. Safety halves of the liveness properties: that a sleeping drain is always owed a signal (`TeardownEnds`), that a waiting `stop` has a writer that will end (`StopReturns`).
