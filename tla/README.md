# mac-phoenix in TLA+

mac-phoenix is two programs. **MacPhoenix** emulates a Macintosh: a web server
process, and an emulator process beside it that it talks to over shared memory
and sockets. **Executor** runs Macintosh programs in a browser tab
(`executor/web`), with a Go server (`executor/server`) that keeps the disks and
what the tab changes on them. This directory models the parts of both whose
correctness depends on the order of events: processes that stop, tabs that take
control from each other, memory two sides write at once.

## Inventory

| Part | State | Operations | With whom | What is hard |
|---|---|---|---|---|
| Overlay store (`overlay.go`) | a log file per key, its index in memory, staging files | get/load, put, stage, remove, since/readBlock/done, merge, drop, maybeCompact | tabs (HTTP), the library's images | stops between any two writes; downloads that read without the mutex; resets found again by comparing commits |
| Tab sessions (`session.go`) | holder, handing, seen, screen | beat, release, putScreen, getScreen | tabs | leases, a handover in several steps |
| The tab's side of control (`main.js`, `worker.js`) | control, the Worker, its lock, timers | watch, take, takeControl, lostControl, start, saveAndStop, storeLast | sessions, Web Locks | timers against timers, tabs that die |
| The tab's sync (`sync.js`, `overlay.js`) | blocks changed and not yet up | overlayDown, overlayUp, beacons | overlay store, volumes | a retry after 409, a page that goes in the middle |
| Claim (`claim.go`) | the browser that has the server | claim, check | every request | a server that restarts |
| Relay (`relay.go`) | sockets, connections, credit windows, lookups | open, data, credit, close | a tab's WebSocket, the network | counters on every error path, windows that must not stall |
| Library, volumes, settings, logs | files | list, read, write | tabs | atomic writes |
| Bridge slot (`guest_bridge.h`, `IPCBridgeSlot`, `BridgeAgent.c`) | one request, one reply, four ids | request, AGENT_HELLO, NEXT, REPLY, reset | HTTP threads, the guest's agent | both sides write shared memory; two timeouts; agents that die |
| Emulator subprocess (`emulator_subprocess.cpp`, `ipc_client.cpp`) | the child's process and pid, its mapped memory and sockets, the last exit, three mutexes | start, stop, reset, reap_if_dead, is_running, connect, disconnect | HTTP threads, the restart watcher, encoder, audio reader, child | a child that dies at any moment, noticed by whoever asks; memory unmapped under its readers; locks taken in two orders |
| Frames (`video_ipc_ppc.cpp`, `ipc_protocol.h`, `video_encoder_thread.cpp`, `webrtc_server.cpp`) | the triple buffer in shared memory, its counter, the previous frame, the peers and what they have seen | refresh, copy, diff, send, connect, reset | guest, tick thread, encoder thread, viewers | lock-free sharing, diffs against what was sent, a child replaced in the middle |
| Input (`webrtc_server.cpp`, `control_ipc_child.cpp`, `adb.cpp`) | buttons held, messages in the socket, the mouse's mode and position, two rings, an interrupt flag | input messages, ADBKey*, ADBMouse*, ADBSetRelMouseMode, ADBInterrupt | viewers, worker thread, CPU thread | lock-free rings, a flag that must not be lost, a mode and a position two threads write under a lock that is empty |
| Time Manager (`timer.cpp`, `timer_unix.cpp`) | a list of descriptors, the tasks' records in the Mac, wakeup_time | InsTime, RmvTime, PrimeTime, TimerInterrupt, the timer thread | guest, CPU thread | a walk whose routines change the list; a thread asleep past its time |
| VideoOutput, AudioOutput | triple buffer; ring | submit/wait/release; submit/read | CPU thread, encoders | a writer that laps its reader; a full ring |
| Network bridge (`net-bridge`, Rust) | DHCP leases, proxied connections | frames in and out | the guest's network stack | tables at their limits |
| Mac devices, CPUs, Executor's core | the machine | | | vendored, or defined by the Mac's ROM |

The properties each one owes: the *overlay store* loses no version it answered
and invents none, whenever the server stops, and gives a tab exactly the
version it names; *control*: a tab that takes over reads the store once the one
before has saved and let go, and nobody waits for a dead tab for ever; the *bridge slot*: a reply is for the request it
answers, a request is run whole and once; the *relay*: counters come back to
0 and a window never stalls both ends; the *subprocess*: a stop leaves no
child, nobody reads memory that is gone, and no threads wait for each other for
ever; the *frames*: a viewer sees whole pictures in order and does not stay
behind; the *input*: the Mac ends with what the viewer holds; the *Time
Manager*: a task whose time has come is run.

`PROJECT.json` lists the hazards at their lines, with the properties that
watch them or why none does yet.

## Modules

| Module | What it is |
|---|---|
| `OverlayLog` | the records of an overlay's file and pure operators on them: `Load`, `Committed`, `Compacted` |
| `Overlay` | the store for one key: object, files, downloads, uploads, merges, stops |
| `OverlaySpec` | what the store promises: a sequence of whole versions |
| `OverlayLogProofs` | lemmas about `OverlayLog`: what `Load` makes of a log that is longer, cut short or compacted |
| `OverlayProofs` | proofs about `Overlay`, that it implements `OverlaySpec` among them |
| `TabSessions` | the server's sessions, with callers that may call anything |
| `TabControl` | the tabs, in time, on top of `TabSessions` |
| `TabControlProofs` | proofs about both |
| `BridgeSlot` | the slot, the host's `request()` and the agent |
| `BridgeSlotProofs` | proofs about it |
| `EmulatorSubprocess` | the child process as the server sees it: lifecycle, locks, the threads that read its memory |
| `EmulatorSubprocessProofs` | proofs about it |
| `FrameSpec` | what the video stream promises |
| `FrameStream` | the stream itself: guest, triple buffer, encoder, peers |
| `FrameStreamProofs` | proofs about it, the refinement's safety among them |
| `TimeManager` | the Mac's Time Manager with its thread |
| `TimeManagerProofs` | proofs about it |
| `InputPath` | a click, a key or a move from the viewer to the Mac |
| `InputPathProofs` | proofs about it |
| `MC*` | instances for TLC |

An operator whose comment begins with "Mutant:" is a faulty variant of the
definition after it. It is used to see that a property notices the fault.

### Overlay

`o` is `struct overlay` (`book` are the fields load fills in), `files` the two
places its log can be. Everything that holds `o.mu` from beginning to end (put,
remove, merge, drop, a download's `since` and `done`) is one step; `ReadBlock`s
come in between. A commit's outcomes are computed as a set (`CommitTo`): done,
refused because the file can't be made, failed and cut off again, and each with
the compaction that ends a commit, done, failed, or done with a file that can't be
opened again. `Faults` names what can fail. `create` tries the object's path and
then its fallback, and the first may fail for a moment. A reopening that fails
(fault `"reopen"`, overlay.go:421-424) leaves an object without a file and with
the old file's index; it breaks the store's promises, so it is in a configuration of its
own (`MCOverlayReopen.cfg`), and the run `overlay` has all the other faults. `CrashIn...` stop the server
part-way through a commit, a create or a merge. Offsets are positions of records
in the log: a record cut short at the end reads, in `load`, like one that is not
there. A block's content is the version that wrote it, so blocks of different
uploads differ. A compaction writes the blocks in the order of their numbers
(`InOrder`; maybeCompact's `sort.Slice`), and block numbers are naturals, which is
what `OverlayAssumption` says of `Bodies` (they are `uint32`s).

The web tab downloads once, from version 0 (`sync.js`, overlayDown). The API
also gives the blocks since a version, with a reset flag, and the server's tests
use it so; `Since` has both.

The history variables `store` (the last version there was) and `view[t].was`
(what the overlay had at the version a tab was told) are what the properties
compare with. `store` is also the refinement mapping: `IsStore` says that
`Overlay` implements `OverlaySpec`.

Left out: a request that goes on with an object a merge or drop has taken out of
the map (one object in the model), two faults in a row (a Truncate that fails
after a failed write, an old log that can't be opened again after a rename that
failed), bits that rot (the log has no checksum), the name's JSON and `size`.
When a merge stops half-way, the image's id, and so its key, is another; the model
follows the old key only, and `StartAnew` resets `store` and `view` there: that an
answered version is lost in that way (hazards at overlay.go:568 and :584) is not
seen by `Durable`.

### TabSessions and TabControl

Each request of `session.go` prunes first, then acts, under one mutex: one
step. `seen` holds ages instead of times. In `TabControl` time passes in `Tick`,
which waits for every tab that has something due (`OnTime`): this is how "a
Worker's timers run on time" is said. A tab that only watches is never due: a
background page's timers may be held back for as long as the browser likes.
`lock` is the Web Lock the Worker holds while it lives, or `NoLocks` where the
page isn't a secure context (plain HTTP on a LAN). Both are initial states.

What the code bounds by a timer has that bound: beats every 2 s, saves of at most
3 s, HANDOVER of 6 s, 5 s for the lock, a lease of 10 s. `TimingAssumption` is what
the proofs need of these five and is true of the code's values, which are the
ones the runs use. What the code does not bound takes any time: the page's fetches
before its Worker starts (phase `starting`, ended by `DisksFetched`) and the Worker's
boot (`loading`). In these, and in the save of a restart, a tab sends no beat that
the page hears. It finds out late that control was taken, or that its lease ran
out. So what holds is narrower than "one tab on the store": a tab that *runs* is waited
for (`RunningIsWaitedFor`), and one that boots or restarts is not (`NewOneWaits`,
violated in `tabs_take`). Assumed of the surroundings: requests are answered, and
a beacon of a tab that is still open arrives before its next request.

### BridgeSlot

The request's bytes are two words, each written and copied in a step of its own,
so that the guest can copy one word of a request and one of the next. The reply
is what was run. The host's two waits may time out at any moment (the code's
times, 3 to 15 s and more, are longer than anything that is certain of a guest).
The guest's steps within one trap call can't be interrupted by the guest itself:
`Leaves` needs the agent to be between calls. `MaxBoots` bounds resets, quits
and deaths together. Lengths matter only against the agent's static buffer
(`Small`) and the one it makes for a bigger request. Left out: STATE and
front_app, the launcher's and the demo's selectors, requests over 1 MB (refused
before they touch the slot), the wrap of `next_id`, and a child process that
starts again with another slot.

### EmulatorSubprocess

A child is a number; `child_process`, `child_pid`, `shm` and `ipc_shm_atom` name
the one each member refers to. `start()` holds `lifecycle_mutex_` only, and other
threads' reaps go on beside it; `stop()` holds both mutexes; a reader is in
`readers` while it holds `g_ipc_shm_mutex` shared, and `Disconnect`, the exclusive
holder, waits for `readers = {}`. Each call is cut where another thread can see or
change what it uses. QProcess, without an event loop, reports a dead child as
running until some thread's `waitForFinished` collected it: `qt_running`. What
`reap_if_dead` reads from a QProcess that start() has just replaced is undefined
in the code while there is none (`SaidExit` of 0: either code). Once there is one it
says status 0, a guest that shut down, as long as it runs: `exit_code` is what was
recorded, `exit_child` (history) of which child. The watcher looks at the code, as
main.cpp does. The power-off watcher (main.cpp:935-946) is the same loop with
another code, and ends the server; it is not a thread of the model, and
`ExitIsOfTheDead` says of the record what it needs.

`handle_status` and a bare `is_running()` are the pollers' calls, the latter also
the watcher's. `ReadersMapped` speaks of the readers that hold the lock: the
`is_running()` of other callers, and `shm()` in handlers without it, dereference
the memory with nothing to keep it mapped.
`SocketsFail` unmaps without the lock, as the code does (ipc_client.cpp:176).
`connected` is false then, which the audio reader and `is_running()` look at
first, and the encoder's pointer is null. `handle_status` does not: between `shm()` and its reads (`q_read`)
the memory can go when a start finds the sockets not there yet, and
`ReadersMapped` leaves these reads out. `OnlyStatusDeadlocks` speaks of the three
mutexes of the module: WebRTC's `peers_mutex_`, and a thread that takes
`g_ipc_shm_mutex` shared a second time while a writer waits, are not in it. Left
out: `start_error_`, the log tail.

### FrameStream and FrameSpec

A picture is two halves, a half's value the number of times the guest drew it; a
copy takes a step for each half, so a torn picture is one with halves of two
frames. `published` is the history of different pictures the child completed
(the one history variable), and `shown` its entry the encoder sent last.
`ShowsWhatIsPublished` is `FrameSpec`'s whole specification, fairness included,
with `shown`, `published` and `connected` for its variables.

`frame_count` grows for ever in the code. Here it stops at `MaxCount`, and what it
is compared with (`last_count`, `fc0`) goes down by one instead, so that the
differences, which are all the encoder uses, stay right. `MaxLaps` bounds how
often in a row the child completes two frames during one copy: with no bound a
viewer stays behind for ever, which no code that copies without a lock can
exclude. With `MaxLaps = 1` and two attempts the encoder retries and never gives
up after the last attempt (the code has four). A replaced child starts with
`Zeroed` buffers, at another address or the same. The server's VideoOutput is
filled and emptied by one thread, so it is one bit, `vo_fresh`.

Left out: H.264 and VP9 (their frames depend on the codec's state), changes of
codec and resolution, an encoder that fails, strips (a full frame goes out in one
step), the cursor's image, and a WebSocket that closes as a frame is sent to it.

### TimeManager

Time is in milliseconds up to `MaxTime`; a delay beyond that is `Far`. What the
code does with `wakeup_time_lock` held is one step, and the signal sent after
unlocking another, so that the thread can wake in between. `vclock` chooses
between the thread and the CPU thread's polling of the virtual clock. A routine
is guest code: any Time Manager calls, on any task, also on the ones the walk is
at or comes to next. A walk that saved a descriptor that was freed goes on
anywhere in the list (`Freed`), and `NoTaskLost` holds even so, because
`WalkEnds` looks for the next wakeup over the whole list. A descriptor's wakeup
that was never written is anything (0 or `Far`). Of `tmCount` the model has what
PrimeTime reads there, its upper half, and of extended tasks only, since nothing
reads another's. `Place` is `find_desc`, which
gives the first descriptor of a task, and `Without` is `free_desc`, which
takes it out.

Left out: `dequeue_tm` and `enqueue_tm` (the Mac's own queue, which the code keeps
for programs that look at it), `TimerExit`, a task whose `tmAddr` is 0, the BeOS
and Mach variants.

### InputPath

A position is a number, a relative move a delta that is 1 or, with one that takes
it back, 0. `mouse_lock` is taken in adb.cpp, but B2_lock_mutex and B2_unlock_mutex,
as linked, are empty (platform_null.cpp:215-223), so nothing in it is atomic: the
worker's path through `process_binary_input` has a step for the mode, one for the
0 that follows a change of it, one that stores a position or reads what a delta is
added to, one that stores the sum, and one for each flag; `ADBInterrupt`'s has one
that reads the position, one that tests the mode, one that stores the 0, one for
the mode it reads again, and one for each event it drains. What the two threads
make of the position is in `MCInputPathMouse.cfg` and `MCInputPathCursor.cfg`; the
buttons and keys don't depend on it. `skipped` remembers an
interrupt that came before the Mac had started: the code clears the flag and does
not look at the rings, so that input waits for the next one.

`MaxPending` keeps the rings from filling, as they do when a Mac that keeps up
takes its interrupts: a full ring reads as empty in the code and all of it is
lost (a hazard without a property). Left out: Executor's input hooks, the
in-process mode, the child's commands, a message that comes in two parts
(drain_control_socket drops them), and what the ROM's ADB handlers do with an
event. A viewer's buttons are remembered in a static (`ipc_buttons`), which here
is the viewer's own; a release while no child is connected is lost in the code,
and the model has one child.

## Runs

| Run | Instance | Shows |
|---|---|---|
| `overlay` | 1 download beside the uploads, 2 blocks (one of them in the image), 3 versions, 1 staged record, compaction from 1 superseded block, all faults but `"reopen"`; 1,265,470 states | `MemoryIsDisk`, `Durable`, `ViewIsVersion`, `IsStore`, `TypeOK` |
| `overlay_loads` | the same | violated: a stop in `create` leaves a file without its head, refused ever after |
| `tabs` | 2 tabs, the code's times in seconds; 141,712 states | `RunningIsWaitedFor`, `ScreenIsHolders`, `ControlMoves`, `AbandonedIsTaken`, `TakerStarts`, `TabsOK` |
| `tabs_take` | the same | violated: a tab that boots or restarts is still on the store when the one that took over starts |
| `bridge` | 3 requests of 1, 2 and 3 with a static buffer of 1, 1 boot; about 213,000 states | `ReplyIsOwn`, `TakenIsWhole`, `OnceAndWhole`, `Served`, `TypeOK` |
| `bridge_no_room` | the same | violated: the answer to a request there is no room for is another's |
| `subprocess` | 1 HTTP thread, 1 status poller, watcher, encoder, audio reader, 2 children; 1,645,659 states | `AtomMapped`, `ReadersMapped`, `OnlyStatusDeadlocks`, `StopLeavesNone`, `StopNotRecorded`, `TypeOK` |
| `subprocess_stop` | the same | violated: a stop and a status request wait for each other |
| `timer` | 2 tasks, one of them extended and primed with 0 or 1, the other with 1, the clock up to 2, with and without the virtual clock; 452,261 states | `Armed`, `ThreadInTime`, `NoTaskLost`, `TypeOK` |
| `frames` | 1 viewer, 2 children, 1 drawing each, counts up to 2, 2 attempts, 1 lap; 1,228,274 states | `CanvasIsPrev`, `ShowsWhatIsPublished` (the refinement), `TypeOK` |
| `frames_connect` | the same | violated: a viewer whose keyframe was sent before it was added gets none |
| `input` | 1 button, 1 key, 1 position and relative moves, 2 messages in the socket, 2 clicks or keys on their way; 712,331 states | `InStep`, `Delivered`, `TypeOK` |

Five more configurations are for the questions where the code does not do what a
proof or a run assumes. TLC finds each property violated, in seconds:

| Configuration | Module | Violated |
|---|---|---|
| `MCOverlayReopen.cfg` | `MCOverlay` | `NoneLost`: an upload answered after a reopening that failed is lost at the next start; the proofs assume `Reopens` |
| `MCTabControl3.cfg` | `MCTabControl` | `RunningIsWaitedFor`, of three tabs: the second starts before the first has let go; the proof assumes `TwoTabs` |
| `MCEmulatorSubprocessExit.cfg` | `MCEmulatorSubprocess` | `ExitIsOfTheDead`: a child that runs is recorded as ended with status 0 |
| `MCInputPathMouse.cfg` | `MCInputPath` | `PositionKept`: the CPU thread's 0 overwrites a position |
| `MCInputPathCursor.cfg` | `MCInputPath` | `CursorFollows`: the same position again, after a relative move, does not move the cursor |

Why the bounds are enough. *Overlay*: three versions are a base, a reset and
an upload after it, which is what it takes for a compaction to carry blocks of
two versions and a reset older than the last commit; two blocks let one be
superseded while the other lives; one download meets every order of uploads,
compactions and Reverts between its blocks (downloads meet each other only in
`readers`). *Tabs*: a tick is a second of the code's, two tabs take turns without end. Three are needed for a take
during a handover, which is `MCTabControl3.cfg`. *Bridge*: three requests are one given
up, one whose copy is torn by it, and one after; the sizes are one that fits,
one that needs a buffer, one that needs a bigger one than was made.
*Subprocess*: two children are the one that dies and the one whose start meets
the first one's reap; a second HTTP thread would only wait for
`lifecycle_mutex_`, and the second caller of `start()` is there in the watcher.
*Timer*: two tasks are the one whose routine runs and the one it removes,
installs or primes. `NoTaskLost` asks of tasks primed for before the clock's end, so the
clock goes on past the delay: a task primed at 0 for 1 is due while time still
passes, and one that is not run then is lost and not only late. Priming with 0
is a case of its own for an extended task only. *Frames*: one drawing in the middle of a copy makes two halves differ; a
second child makes the old picture, the old count and the old address stale; a
count of 2 is the smallest at which a lap (two frames during one copy) and a
counter that restarted show. Viewers meet only in `g_request_keyframe`, which one
viewer already shares with the encoder. *Input*: a position beside relative moves
makes the mode change both ways; two messages let one be in work and one be waiting; a message
changes one button, so a second button adds no case.

`CHECK_DEADLOCK FALSE` where the system may stop: the bounded ones when their
versions, requests, children or time are used up, two closed tabs, and the
subprocess in the ring the run is about. `frames` and `input` never stop and are
checked for it.

**Fairness.** `Overlay` has none. `TabControl`: the clock, the timers of a tab
(weakly fair), a beacon's arrival or loss; none for clicks, closing and sending
screens. `BridgeSlot`: the guest's CPU runs on (`WF(GuestStep)`), nothing about
the host's timeouts. `TimeManager`: the clock, the thread, the CPU thread's own
steps; strong fairness for taking an interrupt, for a routine's return and for
the virtual clock's poll, which the guest's calls disable for a moment again and
again. `FrameStream`: the tick thread refreshes at 60 Hz whether or not anything
changed, the encoder's waits have timeouts of 16 ms, and a connect handler goes on
to add its peer; nothing about drawing, stopping, starting, or viewers.
`InputPath`: the worker polls its socket and the Mac takes its interrupts; the
viewer need not do anything. `EmulatorSubprocess` has none: what it checks is
safety, deadlocks included.

### What the violations say

1 to 5 are of the runs (2 with `tabs_take` and `MCTabControl3.cfg`), 6 to 9 of the
other configurations.

1. `create` (overlay.go:251) makes the file and then writes its head. A server
   that stops in between leaves an empty file; `load` answers "not an overlay"
   from then on, for reads and uploads alike. The head comment says a write cut
   short is dropped.
2. `takeControl` (main.js:895) waits while the answer says `handing`. That is
   said only to the holder, so a tab that loses control again while it waits
   stops waiting and starts. With Web Locks its Worker waits for the first one's
   lock; without them two tabs are on the store.
   The quicker way to two tabs on the store is in the run `tabs_take`: the first is still
   booting, or restarts. It will hear of the take at its Worker's first beat, and
   nothing bounds when that is; the second waits 6 s (HANDOVER), and with Web Locks
   another 5 s, and starts.
3. `poll_v2` (BridgeAgent.c:1487), out of memory, asks NEXT with no room and
   replies. NEXT takes nothing then, and the reply has the id of the request
   before. The host waits out its take timeout.
4. `stop()` (emulator_subprocess.cpp:498-514) holds `reap_mutex_` and waits in
   `disconnect()` for the readers of the shared memory. `handle_status`
   (api_handlers.cpp:511-512) is one, and in it `is_running()` waits for
   `reap_mutex_`. A status request in that moment, and the page polls for it,
   hangs both, with the lifecycle mutex held. The comment in `stop()` says that
   readers finish. `OnlyStatusDeadlocks` shows that it is the only such ring.
5. `create_peer_connection` (webrtc_server.cpp:486) asks for a keyframe before the
   viewer is in `peers_` (:409). When the encoder takes the request in between,
   the whole frame goes to the others, and as long as the screen is still,
   nothing is sent and nothing asks again: the viewer sees an empty canvas.
6. `maybeCompact` (overlay.go:421-424) sets `o.f` to nil when the new file can't be
   opened. For an overlay made since the server started, which has a fallback, the
   next upload goes to a new file in DATA and is answered; a restart finds the
   file beside the image first and doesn't have it.
7. `start()` replaces `child_process_` without `reap_mutex_`. A poller's reap that
   found the old child dead (emulator_subprocess.cpp:547-566) goes on with the new
   one's QProcess: it records an exit with status 0, and takes the new child's pid
   away. An Executor server under `exit_with_guest` ends on that (main.cpp:940).
8. `ADBInterrupt` (adb.cpp:354-355) tests the mode and then zeroes the position, and
   the worker may have stored an absolute one in between: the cursor goes to the
   corner. mouse_lock is there for it and is empty.
9. `old_mouse_x` (adb.cpp:399) is the last absolute position. After a relative move
   the same position again is taken for no move, and the click after it lands
   elsewhere.

## Proofs

TLAPS proves, for all constants that meet the `ASSUME`s:

* `TypeCorrect`, `ScreenCorrect`, `ControlCorrect`: of `SpecSessions`, the
  server with any callers. `ScreenIsHolders` is inductive with the type: a beat
  that finds no holder finds, because of prune, no screen either (`PruneFacts`).
  `ControlMoves` needs no invariant but the type.
* `TabsAreCallers`: every step of `TabControl` is a call of `TabSessions`, a
  tick or no step of it, so `Spec => SpecSessions`; `TabsScreen` follows.
* `TabsCorrect`: `TabsOK` for any number of tabs. `RunningIsWaitedForCorrect`:
  `RunningIsWaitedFor` for two tabs at most, with Web Locks or without, for any times
  that `TimingAssumption` allows and boots of any length.
  It assumes `TwoTabs`, because it is false of three (`MCTabControl3.cfg`). The
  invariant adds to the type that no tab is late (`OnTimeInv`), that no release of a
  tab that has not let go is on its way (`SaidInv`), that a tab which ran is known
  to the server, as holder or as the one handing over, and within its lease
  (`RanInv`), and, the heart of it, that once control was taken from a tab that ran
  the other waits, and has waited no longer than the first has gone on since it
  lost control (`PairInv`). It waits for `Handover`, and the first, which hears of
  it within a beat and saves within `Save`, is done before that.
* `SlotTypeCorrect`, `ReplyCorrect`, `TakenCorrect`, `OnceCorrect`: of `BridgeSlot`,
  for any number of clients, any sizes, any number of boots. The inductive
  invariant is `TypeOK /\ HostInv /\ GuestInv /\ ReplyIsOwn`. `ReplyIsOwn` alone
  isn't inductive: that a reply with the current id is the current request's
  needs that the guest ran a whole copy of it, which needs that no word of the
  slot changes while the host waits (`HostInv`), and that a guest whose copy
  carries the current id copied it after it was posted, and so whole (`GuestInv`).
  Ids that were given up are smaller than `id`; a guest that holds one may have
  copied anything. `OnceAndWhole` adds `OnceInv`: while nothing was given up before
  it was taken, the agent's NEXT is of the request in the slot, a request is not
  run before it is taken, and the copy to be run is a whole one of a request
  that was not run yet.
* `SubprocessTypeCorrect`, `AtomCorrect`, `ReadersCorrect`, `StopLeavesNoneCorrect`,
  `StopNotRecordedCorrect`, `OnlyStatusDeadlocksCorrect`: of `EmulatorSubprocess`,
  for any number of HTTP threads, pollers and children. The invariant says where a
  thread can be in which call (`CallInv`), that a mutex's holder is the one thread
  past its lock_guard (`LockInv`), that a published pointer and one a reader took
  are those of a connected client, and none is published while a start connects
  or a stop disconnects (`MapInv`), and that a live child is the QProcess's
  (`ChildInv`). `OnlyStatusDeadlocks` needs nothing beyond it: in a ring
  the locks are waited for in one order, except where a stop that holds
  `reap_mutex_` waits for a reader.
* `TimeTypeCorrect`, `ArmedCorrect`, `ThreadInTimeCorrect`: of `TimeManager`, for any
  tasks, delays and length of time. `ListInv` is what `Armed` needs: an active task
  in the list has a wakeup that was written, as has the one PrimeTime is about to
  make active. That the walk's end finds the next wakeup is `SmallestNat`: of the
  active tasks' wakeups there is a smallest.
* `FrameTypeCorrect`, `CanvasCorrect`, `StreamRefines`: of `FrameStream`, for any
  number of viewers, frames, children and attempts. `StreamRefines` is the safety
  half of `ShowsWhatIsPublished`: a step of the stream is one of `FrameSpec`'s or
  none. Its invariant has the argument for the triple buffer without a lock
  (`CopyInv`): the buffer the encoder copies from is not the one being written,
  unless two more frames have been counted since, in which case the copy is
  thrown away. `WriteInv` and `PubInv` say that what is published is in the order
  of drawing and what is ready is published, so a copy that is kept is a
  published picture, not before the last one sent (`Follows`).
* `InputTypeCorrect`, `InStepCorrect`: of `InputPath`, for any
  buttons, keys, positions and sizes. What the events on their way will make of
  the Mac would be a recursion over the ring and the socket; instead `Chain` says
  that there are states in between, each of which follows from the one before
  by one event, and lemmas extend a chain at its end and shorten it at its front.
  `FlowInv` ties the Mac, the rings, the message in work, the socket and the
  viewer into one chain, `IrqInv` says that an event in a ring has its interrupt
  on the way, and `RoomInv` that the rings do not overflow, which rests on
  `MaxPending` (a Mac that keeps up) and on nothing else.

* `OverlayTypeCorrect`, `MemoryIsDiskCorrect`, `DurableCorrect`, `ViewCorrect` and
  the refinement `StoreCorrect`: of `Overlay`, for any downloads, uploads, names,
  versions and faults but one. They assume `Reopens`, that a compacted file just
  put in place can be opened; without it they are false (`MCOverlayReopen.cfg`).
  `OverlayLogProofs` has what they need of a log of any
  length: `Load` after a commit is what `Committed` makes of the book in memory
  (`CommitLoads`: the step from the log's own account of resets, which compares
  one commit's with the one before, to the flag commit was called with); records
  without a commit after the end change nothing (`LoadTail`); cutting them off
  changes nothing either (`LoadCut`); and the compacted log loads as the book it
  was made from, each block with its version and content (`CompactLoads`). None
  of it is by induction: `Load` is defined by the places of the last commit and of
  the last reset, and the lemmas say where those are. That a finite set of
  block numbers has an order (`OrderExists`) comes from the smallest number of
  elements of a set without one.
  The invariant of `OverlayProofs` has, beside the types: the object's file is
  the only one, it ends with a commit, and the object has the book of it, or no
  file is made at all (`FileInv`); the object's book and log, or the disk's when
  there is no object, give the store's last version (`StoreInv`); what a tab has
  of a version is still to be found in the last one, among the blocks no newer
  than it, unless there was a reset since (`Seen`, in `ViewInv`); and the blocks a
  download has still to read are in the log where it looks for them, with the
  content they had (`ReqInv`). The last one is why a compaction must wait for
  the readers, and it is what a commit keeps by only ever appending. The proof
  has a lemma for each action, and each also says that the step is one of
  `OverlaySpec`'s or none (`StoreSteps`), which is the refinement.

Each of these invariants was checked by TLC on the instances of the runs (for
`RunningIsWaitedFor` with several sets of times) before it was proved; of `Overlay`'s, all but
`Types`, whose sets are infinite.

Only model-checked: the liveness properties (`AbandonedIsTaken`, `TakerStarts`,
`Served`, `NoTaskLost`, `Delivered`, the fairness of `FrameSpec`). They need fairness
and ENABLED, which the prover can't do. Every invariant and action property of a
passing run, and the safety of both refinements, are proved.

## Plan

Done: the overlay store, control of the tabs, the bridge slot, the subprocess, the
frames, the Time Manager, the input; and the proofs of their safety properties.

To model next: the tab's uploads and beacons (`sync.js`) with `TabControl` and
`OverlaySpec`; two objects of one key in the overlay store; the relay's credit
windows; the audio ring; the network bridge's leases.

## Not modelled

The CPUs and Executor's core (vendored or generated, by far most of the lines of
the repository, without concurrency of their own that a small model would show);
the disks, Ethernet, serial and SCSI (their contract is the Mac ROM's, which is not
here); codecs and WebRTC (libraries); static files, formatting and UI.
