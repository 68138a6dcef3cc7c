# kui-1 in TLA+

Specifications of the parts of kui-1 whose correctness depends on the order in which things
happen, with TLC configurations that check them on small instances and TLAPS proofs of
what matters most for every instance.

kui-1 is the software of a net-bar client: a user-interface framework with its own message
loop, timers, services and animations (`client/kui/kuibase`), a game menu built on it
(`client/kmenu`), the distribution of task archives between a channel server and its
clients and the network code underneath (`public/kcore`), a second network library on asio
(`public/src/common/network`), and a program that updates the client (`client/ktask`).
Paths below are relative to `src/`; `kuibase` stands for `client/kui/kuibase`.

## 1. Inventory

### HMI kernel: message lists and kernel thread (`kuibase/BaseProject/Framework/CMain.cpp`)

*State.* Four message lists (input, service, timer, unknown), the number of the active one,
the event `m_waitObject`, the stop flag `m_bPrepareStop`, and the dirty flag of `ENV`.
*Operations.* `pushMessage`, from any thread: append under the lock, then notify after the
unlock; a render message goes to the active list and is dropped if that list ends in one.
`run`: wait, test the stop flag, pop and handle until the lists are empty, push a render
message if the screen is dirty. `deleteMessageByID` takes out what a stopped timer has
sent. `quitHMI` clears the lists and asks the thread to stop.
*Hard.* The notify outside the lock against the event reset after the wait; coalescing by
the tail of one list; priorities; the stop flag that is tested between bursts only; the
deletion of the kernel object at the end.
*Correct when* the thread never sleeps on work, a dirty screen is always repainted, input is
handled whatever else arrives, and a request to quit takes effect.

### HMI kernel: timers (`kuibase/Platform/Timer`)

*State.* Per timer `m_bRunning`, `m_uiCurrentCount`, `m_uiRepeatCount`; in `CTimerManager`
the array of bare `CTimer` pointers and the events of its thread.
*Operations.* `start`, `stop`, `setRepeatCount` and the destructor, from handlers on the
kernel thread; the scan, on the timer thread, which holds the lock of the array and pushes
`CMsgTimer` messages into the kernel; `stop` and `start` of the whole manager, when the
game menu loses and gets the focus.
*Hard.* `m_bRunning` and the counts are shared without a lock; a counted timer switches
itself off on the timer thread after it has pushed its completion, and stays registered.
*Correct when* a stopped or destroyed timer is never heard of again, a running one is
driven and not twice, a completion comes last, and nothing undoes a restart.

### Threads and events (`kuibase/Platform/Thread`)

`CThread` (a running flag, a stop flag, `m_waitQuit`) and `CWaitObject`, a manual-reset event
whose `wait` is `WaitForSingleObject` followed by `ResetEvent`.

### Services (`kuibase/BaseProject/Service`)

A `CServiceAdaptor` owns a thread, a queue of invoke messages and the service object; a call
gets an identifier from a static counter and its result comes back to the kernel as a
service message. *Hard*: shutdown against a call being queued; the unsynchronised counter.

### Screens, main frame and message boxes (`CBaseMainFrame.cpp`, `CBaseScreen.cpp`, `CWgtMessageBox.cpp`)

*State.* The stack of screens with the home screen at the bottom, the screen that is coming and the one that
is going, whether the latter is to be destroyed, one screen that waits for its deletion, the lock and the
visibility of each screen, `m_timerScreen`; of a message box its lock, the flags of its two animations and its timer.
*Operations.* A screen is entered or left; an application has its screens removed, or all have when
the home screen is shown or another application is switched to; the timer completes a change; `destroy()` ends it all. A
box is shown, its buttons are pressed and released, it is closed by the application, or disappears after some seconds.
*Hard.* Decisions by `isRunning()`, which is FALSE while the completion waits in a list; changes that overtake one
another; one timer of the box for three purposes, told apart by flags when the completion is taken; a lock that is read when a button is
pressed and not when it is released.
*Correct when* nothing refers to a screen that is gone, at rest the top screen alone can be seen and touched, a screen
that is left is removed, a box that has answered takes no new touch for another answer, and goes.
Popups (`CBasePopup.cpp`) have animations of the same kind, but those of every popup in the repository are compiled
out.

### Channel distribution (`public/kcore/CchannelMgr.cpp`, `channelsvr.cpp`, `channelclt.cpp`)

*State.* Of the server the list from the data centre, the local list, what is still to be downloaded, and the archives in memory
with their tags; of a client the list it was given, the archive it is downloading with its buffer, and the plugs it has started.
*Operations.* The server's thread asks the data centre for the list every two hours, downloads the archives that are new or
changed and deletes those that are gone; the network module hands list and archives to the clients, block by block. A client
connects, asks for the list, downloads, unpacks and starts the plugs. Both can be stopped at any moment.
*Hard.* The local list is replaced before its archives are there; an archive may be replaced in the middle of a download;
answers carry no number and a request may be given up on; the exit event is seen between any two steps.
*Correct when* a client unpacks only whole archives, the list names only archives the server has, a failed download is made good,
and a stop returns and leaves nothing.

### Completion-port network module (`public/kcore/knet.cpp`)

*State.* The listening socket, the port, the threads (one that posts accepts, two workers for
every processor), the map from sockets to connections, and one block (`AYNCRESULT`) for each
connection with its buffers, lengths and its one asynchronous operation.
*Operations.* `Start`, `Stop`; the accept thread posts accepts in batches of ten; a worker
takes a completion and runs `OnAccpet`, `OnRecevie`, `OnSend` or `OnClose`, which ask the callback
(the log server and the channel server) and post the next operation on the same block.
*Hard.* Any worker may handle any block, and frees it itself; the callback knows connections by
socket values that are used again; packages arrive and leave in parts; `Stop` comes at any
moment.
*Correct when* a block has one owner at a time, the callback is told of every connection once
when it opens and once when it closes, a package is read and answered whole, and `Stop`
returns and leaves no thread.

### asio network library (`public/src/common/network`)

A client with request and response under a timeout and a heartbeat, and a server with a pool of
services and idle timers. *Hard*: an answer that races the timeout, a timer that fires after
its session has been used.

### Update (`client/ktask/kupdate.cpp`)

*State.* The files of the client, the copies of some of them in the system's directories, the download directory, and the list of what is to be
replaced.
*Operations.* Once in each process: ask for the index of the release, compare, download what differs in blocks, replace one
file after the other (delete, copy, and if the file is in use move it away and copy again), copy drivers and libraries for the system, and
start the process again if a file in use was replaced.
*Hard.* A failure or a crash between any two steps, of which nothing is rolled back; releases that change
meanwhile; second copies that are compared (drivers) or not (libraries).
*Correct when* a reported success is the release, the two copies of a file agree, what runs is what is installed, and the next starts
repair what an earlier one left.

### The rest

Controls, gestures and hit areas (one handler on the kernel thread, geometry), the
animation interpolators, the containers, caches and strings of kuibase, two render
engines, logging, the Windows service wrapper, the game menu itself, and vendored libraries
(asio, libiconv, jsoncpp, giflib, freetype, libpng, zlib, OpenGL ES headers).
`PROJECT.json` lists each part with its status, and under `hazards` what is hard to test, line
by line.

## 2. What is modelled

| module | what it is |
|---|---|
| `MessageQueue` | the lists of `CMain` as values: push with coalescing, pop by priority, deletion by identifier, each one critical section of the code |
| `HmiKernel` | kernel thread, timer thread and producers: every step of `CMain::run`, `CTimerManager::run`, `CTimer`, `CThread` and `CWaitObject` that another thread can see |
| `TimerContract` | the abstract specification: what a timer promises its owner |
| `HmiKernelProperties` | the type invariant and the properties of the kernel |
| `HmiKernelMC` | values of the constants for TLC |
| `MessageQueueProofs` | lemmas about the operators on lists |
| `HmiKernelProofs` | type correctness |
| `HmiKernelHandshakeProofs` | wake-ups, shutdown and repaints |
| `HmiKernelTimerProofs` | the timers, and the refinement of `TimerContract` |
| `NetModule` | `CNetModule`: start and stop, accept thread, workers, the handlers and the operations they post |
| `NetModuleProperties`, `NetModuleMC` | its type invariant and properties; its symmetries for TLC |
| `NetModuleProofs` | its safety properties |
| `TaskProtocol` | what server and client of the channel say to each other, and the connection |
| `TaskServer`, `TaskClient` | `CchannelMgr` with `Cchannelsvr`; `Cchannelclt` |
| `TaskDistribution` | the two composed over the connection, and the fairness |
| `TaskDistributionProperties`, `TaskDistributionProofs` | type invariant and properties; their proofs |
| `AnimationTimer` | a counted `CTimer` as its owner on the kernel thread meets it, in five states |
| `ScreenStack`, `MessageBox` | the screens of `CBaseMainFrame`; `CWgtMessageBox`; with their properties |
| `MainFrame` | the two composed on one kernel thread, and the fairness |
| `MainFrameProofs` | the message box for every number of screens |
| `UpdateFiles` | which files a machine takes, and where they go |
| `SoftUpdate`, `SoftUpdateProofs` | the update, with crashes and releases; its proofs |

The five systems (kernel, network module, task distribution, main frame, update) are modelled apart. The main frame relies on
a timer that the kernel implements: `AnimationTimer` is what `HmiKernel` leaves of a counted timer whose owner
keeps `StopFirst`. The task server relies on the network module for one thing, that each request gets one answer, in order.

### How `HmiKernel` corresponds to the code

One action is one critical section, one access to a field two threads share, or one call on
an event. The program counters name the places:

* `mpc`, the kernel thread: `init`; `wait`, `woken`, `test` (the wait, the `ResetEvent`, the
  stop flag at `CMain.cpp:255-262`); `pop`, `handling`, `dirtytest` (264-285); inside a
  handler `startAdd`, `startNotify` (`CTimer::start`), `stopRemove`, `stopDelete`
  (`CTimer::stop`), `join` (waiting for the timer thread), `quitFlag` (`quitHMI`);
  `stopping`, `joinExit`, `exited` (289-315).
* `tpc`, the timer thread: `wait`, `woken`, `test`, `sleep` (`CTimerManager.cpp:124-138`), `lock`,
  `scan` and, for the timer at `idx`, `count`, `send`, `notify` or `notifyLast`, `complete`
  (`CTimer.cpp:77-110`), then `ending`, `ended`, `off` (`CThread.cpp:69-78`). The lock of the
  manager is held from `scan` to the end of the round: that is `Scanning`, and `AddTimer` and
  `RemoveTimer` wait for it.
* `ppc`, a producer: between the two halves of `pushMessage` (`notify`) or inside `quitHMI`
  (`quitFlag`, `quitNotify`).

A handler is application code. It is modelled by the calls it can make into the kernel, in
any order and at most `MaxOps` of them. `initialize` and `onStartup` are such a handler too
(`Startup`). The delay of a timer is a free choice of the timer thread (`TNotDue`, `TDue`): no
property depends on time. Reading a timer that has been deleted is a free choice too.
`armed` is a history variable: start() was called and no stop() has returned since.

`StopFirst` is the discipline every owner of a timer in the repository keeps: stop() before
setRepeatCount(), start() and destruction, unless the timer repeats for ever
(`CBasePopup.cpp:197-200` and `225-228`, `CBaseMainFrame.cpp:482-485`, `CAnimationPlayer.cpp:116-119`,
`CWgtMessageBox.cpp:455-458`). The properties of timers are stated under it; one run drops it.

### How `NetModule` corresponds to the code

* `stop` follows the calls of `Start` and `Stop`: `created`, `running`, `closed` (the listener is closed,
  `knet.cpp:112-118`), `waiting` (the exit event is set and the packets are posted, 119-126), `stopped`.
* `apc` is the accept thread: `wait` (451), `post` (inside `PostAcceptRequest`), `gone`; `failed` if `_beginthreadex` could not create it, which
  `Start` does not notice (`knet.cpp:99-108`). So also of a worker. `Joinable` says whether `WaitForMultipleObjects` can wait for all of them.
* `wpc[w]` is a worker: `get` (475), the event it handles (`ACCEPT`, `RECEIVE`, `SEND`), `first` (between the
  unlock in `OnAccpet` and its `PostRecvRequest`, 358-360), the parts of `OnClose`: `close` (421-429), `inform`
  (433), `closesocket` (435), `delete` (438), and `gone`. `wblk[w]` is the block it works with.
* `blk[b].phase` says who has a block: nobody (`none`, the address is free), the system (`pending`), the port
  (`queued`), a worker (`held`), or nobody who will ever give it back (`leaked`). The lengths are the fields
  `recvlength`, `buffer.len`, `totallength`, `sendlength` of the code. `declared` is the length in the header
  of the request, `reply` and `delivered` are history: the length of the reply and how much of it the system took.
* `client` is `m_mapClient`, `locker` the worker that keeps `m_lockClient` beyond one step: a refused connection
  is closed inside the lock of `OnAccpet` (a recursive lock). `known[s]` counts OnAccept calls of the callback less
  OnClose calls.

Bytes are counted and not kept. The operations of the system (`AcceptCompletes`, `ReceiveCompletes`,
`SendCompletes`) take any length up to the one asked for; a completion of 0 bytes is the end of a
connection or an error. The port gives out completions in any order, which contains its own. A send
or receive that cannot be posted goes on to `OnClose` as in the code. Lengths are `DWORD`s: `SendRest`
computes modulo `DWORD`. Addresses of blocks and values of sockets are reused as soon as they are free.

### How `TaskServer` and `TaskClient` correspond to the code

* `smain` is `StartchannelMgr` and `StopchannelMgr` (`CchannelMgr.cpp:35-102`): `running`, `netstopped` (the network module has stopped),
  `joining` (`m_hExited` is set), `stopped`. `spc` is the thread (180-240): `round` (asking the data centre), `check`, `delete`, `down`, `gone`. The event
  is tested between those steps: that is `Step`.
* `fromIdc`, `local`, `need` and `archive` are `m_arAllTaskListFromIdc`, `m_arAllTaskListLocal`, `m_arNeedDownTaskList` and `m_mapTaskZip`; of a task only its
  version is kept, of an archive version and tag. The md5 of the list is what tells versions apart after a download (`Matches`).
  `clock` counts archives: the code takes the time in seconds for the tag, and the model assumes that no two archives are made within one second and
  the clock is not set back.
* `cmain` and `cpc` are the same of the client (`channelclt.cpp:97-209`): `connect`, `style` and `list` (the two requests), `next`, `block`, `unpack`.
  `buf` is the buffer of the download as the sequence of blocks copied into it, `plugs` the libraries that run.
* `asked` and `answers` are the connection. A request is given up on after ten seconds (`GivenUp`), and its answer stays for the next one
  (`kcore.cpp:1651-1691`): `late` counts how often.

The handler of a request is one action (`OnReceive`), which takes `m_csTaskZip` in the code. Two attempts at a download are one outcome.

### How `ScreenStack` and `MessageBox` correspond to the code

Everything here runs on the kernel thread, one handler after the other; only the timer thread runs beside it. A
handler is therefore one action, and is written as a function from the frame to the frame (`InnerStop`, `AddScreen`, `RemoveScreen`, `InnerStart`,
`CompleteScreenAnimation`; `StartShow`, `StartHide`, `DestroyBox`), composed as the code composes its calls. `showHomeScreen` and
`switchToApplication` are the exception: they remove any number of screens before they start the animation, and so are a sequence of steps
(`switching`) during which no other handler runs. Whether there is an animation is a free choice of the application (`startScreenAnimation`).
The home screen is shown in the initial state (`kmenu/framework/CMainFrame.cpp:100-105`). `left` and `missed` are
history: which screens leave() was called for, and whether a change began while the completion of the earlier one was
queued. `revived` is the same for a box, and `answers` counts calls of the application.

A button of a box is touched in two steps. `PressButton` is `CComponent::addCursor`, which reads the lock (`CComponent.cpp:597`); `ReleaseButton` is
`removeCursor` in the state TS_PRESS (762-877) with `onTouchPressRelease` of the button and `onBtn...TchRel` of the box (`CWgtMessageBox.cpp:392-420`), none of which reads
it. `held` has the buttons between the two. A press that became a move, a long or a double press ends without an answer (`ReleaseMoved`): the button does
nothing at those releases. `late` is history, the held buttons that were pressed after the box had answered.

### How `SoftUpdate` corresponds to the code

`pc` follows `AfxExecuteSoftUpdate` (`kupdate.cpp:610-649`): `started`; `download` and `block` (273-351); `install` (the loop of `UpdateFile`, 454-608);
`delete`, `copy`, `rename`, `recopy` (`ForceUpdateFile`, 373-452), run for the application's copy and again for the system's copy of a library;
`driver` (522-545); `reboot`; `done` (the main loop calls the update once in a process, `ktask.cpp:3671-3678`); `off`. `disk` maps places to contents: a version of a
file, nothing, or something torn. A download is torn if a release comes between its blocks (`LastBlock`), and may be if one came before them: its length is the
size in the index (`kupdate.cpp:289`). A missing and an empty file have the same CRC (0) and are both `Gone`. `list` is `gFileInfoList`. A copy that fails leaves what was there,
nothing, or a torn file. `due` and `renamed` are history. `Crash` ends the process or the machine at any step.

### What is left out

Of the task distribution: the reports to the log server, the content of archives and of config.xml, plugs that are processes, and two clients at
once (a client meets another one only through the archive, which no client changes).

Of the main frame: popups, input panels and overlays other than message boxes, several boxes at once, geometry and drawing. The callbacks of a box do
not destroy it. No application in the repository shows a message box; the framework offers it.

Of the update: time stamps, protection of files by `hy_PortFile`, Wow64 redirection, the `.~tmp` names of files moved away (deleted at the next
start), collisions of CRCs, the handles of downloads that fail, and a write that the system cuts short without an error: it would go unnoticed, since
`kupdate.cpp:312` compares `dwByteWrite` with itself. The file names in `UpdateFiles` are those the code tells apart.

Of the network module: `GetPeerInfo` (it only reads, and relies on `MapAccurate`), socket options and
`acktime`, a module without a callback, a second `Start`. `Stop` walks the map without its lock (146-156): against workers that a failed wait has left running
that is undefined, and it is one step here; the object is deleted after it, which is not modelled either.

Of the kernel: the content of messages (only class, timer and status are kept), time, drawing, what screens
and controls do, the listeners of `ENV`, and the deletion of `CMain` by `startHMI` once its
thread is gone: producers act until then. MT_SCREEN_TOUCH, MT_HARD_KEY, MT_GESTURE and
MT_SCREEN share one list in the code and are one class here.

## 3. The runs

| run | what it asks | bounds |
|---|---|---|
| `kernel_messages` | no wake-up, repaint or registered timer is lost | two producers, one timer with count 1, one call per handler, one message per list from outside |
| `kernel_countdown` | types; completions come last; a restart is never undone; the timer thread is joined | one timer with count 0, 1 or 2, focus changes, two messages per list |
| `kernel_timers` | nothing refers to a stopped or destroyed timer; no timer is registered twice; the kernel implements `TimerContract` | two timers, symmetric, count 1 |
| `kernel_liveness` | input is handled; quitting completes | one timer, focus changes, fair threads |
| `kernel_focus_restart` | violated: a registered running timer that nothing drives | focus changes |
| `kernel_restart_without_stop` | violated: the timer thread undoes a restart | `StopFirst` off |
| `net_safety` | one owner per block, paired callbacks, an accurate map, receives that fit; what may still happen after a Stop | two blocks, sockets and workers, symmetric; sends in parts; threads that cannot be created |
| `net_liveness` | Stop returns; a whole request is answered | two blocks and sockets, one worker, whole sends, fair threads |
| `net_partial_send` | violated: a reply is taken as sent before all of it was | one block, socket and worker; sends in parts |
| `task_distribution` | whole archives; the list against the archives; failures made good; stops | two tasks and versions, two blocks, one change at the data centre, one start of the server, one late answer |
| `main_frame` | dangling screens; the screen at rest; locked boxes; second answers; what goes, goes | two screens over the home screen, one message box at a time, one button |
| `soft_update` | success against the release; second copies; restarts; recovery | a program, a driver of both widths and a library; two releases; all eight kinds of machine; crashes and failures without bound |

*Bounds.* `MaxOps` is the number of kernel calls of one handler: 1 is enough for every interleaving
of two calls because handlers follow each other without a gap (input is always available),
and the run that needs two calls in one handler has 2. `MaxQueue` stops producers and the
timer thread, never a render message or a handler's own work in progress; with 1 a list
already holds a message and a render message behind it, with 2 two ticks of a timer.
`MaxCount` stops the count above every repeat count, where the code only asks whether it is
above. Addresses of timers are reused after destruction, as an allocator does.

In the network module a header has 2 bytes and a buffer 3 (`HeaderLength`, `MaxLength`), so that a package
can be cut inside its header, end with it, exceed it, or fill the buffer, which the code refuses. `DWORD` is 16,
well above every sum of lengths, so that only a negative difference wraps. Two sockets and two
blocks let a value be used again while its former owner is still being closed, and two workers do that
closing at the same time. `AcceptBatch` is 10 in the code and at most 2 here: a batch ends early when
sockets run out, as it does when the system has no more. `WaitLimit` is the number of objects the system waits
for at once; the runs are within it, and meet the failing wait by threads that could not be created, which it fails for in the same way. The theorems
hold on both sides of the limit.

In the distribution two blocks are the least that can come from two archives, and one change at the data centre is enough to replace an archive in
the middle of a download by a client, or to make a download of the server differ from the list. Two tasks show a late block taken for a block of the other task; with the server started once
the run covers one life, and the theorems cover any number. In the main frame three screens are enough for a change that overtakes
another one and for a screen removed from under the top. A box has up to three buttons; with one the box answers by itself, by the application or by the button, in any
order, and the release of a second one does what that of the first does (two buttons were checked once, in 254,016 states; `NoAnswerAfter` holds for any number). The update's names hold one file of each treatment: compared only, with a driver's second
copy under the same and under another name, and with a library's second copy; two releases give an old, a new and a mixed state.

*Fairness.* The kernel thread and the timer thread are scheduled (weak fairness of `MainStep`
and `TimerStep`), and so is a producer inside a call (`PContinue`); nothing makes a producer
begin one. `AddTimer` and `RemoveTimer` get strong fairness: they need a lock that the timer thread
gives up in every round and sleeps without (`CTimerManager.cpp:133`), so a waiting thread gets
it. No fairness is assumed of any single handler call: weak fairness of the whole
thread ends a handler because `MaxOps` bounds it.

`QuitCompletes` has a condition because the code has it: the stop flag is tested when the
lists have been emptied, and producers that never pause can keep them from running dry.

For the network module: `Stop` and the accept thread are scheduled, and so is a worker inside a handler
(weak fairness of `StopStep`, `AcceptThread`, `Handle`). The port serves in order, so a completion, or a packet of `Stop`,
that stays queued is taken some time even if workers are often busy: strong fairness of `Dequeue` and
`WorkerEnds`, which other workers can disable in between. Peers are under no
fairness, and neither is the system: a pending operation may stay pending, and `Stop` returns all the same.

For the distribution: both threads run and a stop goes on (weak fairness), and a round and the download of a task succeed now and then (strong
fairness: they are tried again every two hours). Nobody has to start, to stop, or to change anything. For the main frame: a handler returns and the timer thread ticks (weak fairness);
the completion is taken time and again between two changes (strong fairness of `OnTimerComplete` and `BoxComplete`), since an application that changes screens without a pause
cuts every animation short. For the update: the program goes on and the machine is turned off and on again (weak fairness of
`Start \/ Update \/ Shutdown`); `Recovers` starts from the last disturbance.

*Findings.* Three runs end in a violation. Stopping and starting the timer manager on focus
changes can use up the notification the timer thread leaves itself: the restarted thread
then waits while running timers are registered, until some timer is added
(`kernel_focus_restart`). And a timer given a new count and started again by the handler of its
completion, without stop(), may be switched off by the timer thread, which is still at the
end of the old round (`kernel_restart_without_stop`). In the network module a send that
completes in parts is continued with the wrong length, because the bytes sent are taken off the total and added to
the offset, and both enter the length of the rest (`knet.cpp:269-272`, `net_partial_send`): the reply is cut,
or the length wraps around and the send fails.

Seen while modelling, and no violation of a stated promise: a failed `AcceptEx` loses its block
(`knet.cpp:257`), `Stop` loses the blocks that are pending or queued and leaves open the sockets of accepts
that have not completed, and with more than 31 processors, or with a thread that could not be created, `Stop` does not wait for its threads,
since `WaitForMultipleObjects` refuses more than 64 handles and the handle 0, and its result is not read (`knet.cpp:126`). `StopLeavesNobody` says what may still happen then:
a worker ends the handler it was in, on its one connection, and the accept thread loses a free block.

In the task distribution an answer that comes after its request was given up on is taken for the answer of the next one: a late answer about the log style
is read as an empty list of tasks, with which the client's thread ends, and a late block is copied into the buffer of the next
archive, which is then unpacked (`WholeArchive` is stated for connections without late answers). An archive whose unpacking fails in the
middle is run all the same (`channelclt.cpp:418-428`). The socket of a connection that is tried again is not closed (106). A client that is told to exit reports
the download it has just cut short (310). Processes started for plugs are never stopped.

In the main frame a change that begins while the completion of the earlier one is queued does not complete it: the screen that was leaving stays
visible or on the stack (`missed`). `destroy()` of a message box at the same point of its show animation brings it back, and a box whose hide
animation has style 0 can be touched while it goes. A button that is held when the seconds of the box end answers all the same when it is released: `m_onCancel` has been called by
then and the box is fading, and the release calls, say, `m_onOk`. In these three cases the application is called twice; `NoNewAnswer` says that it is in no other.

The update compares the system's copy of a driver with the index, but not that of a library (229-267): an update that ends between the two copies
of `kres` or `kshut` leaves the system's copy old until the next release of that file (`due`). The copy of a driver for the system may fail unnoticed (541). What was
downloaded is not compared with its CRC: a release in the middle of a download is installed torn, and found at the next start.
A process that has replaced a file in use and then fails goes on without a restart.

## 4. The proofs

The theorems on the kernel are about its `Spec`, for every set of timers and producers, every bound, and with and without
focus changes, from the assumptions on the constants that `MessageQueue` and `HmiKernel` name
(`NoTimerAssumption`, `KernelAssumption`).

* `TypeCorrect`: `[]TypeOK`. The part that is not bookkeeping says that the index of the timer
  thread stays inside the array while a timer is processed; it holds because the array
  changes only when nobody scans.
* `NeverSleepsOnWork`, `TimerThreadGone`, `NoRepaintForgotten`, from the inductive invariant `Handshakes`:
  `ThreadRuns` and `EndsJoined` tie the running flag, the quit event and both program counters together,
  `StartupFirst` says what is true before the first wait, `PushAnnounced` and `StopAnnounced` say of every list
  that is not empty, and of the stop flag, who has notified or will. `NoLostWakeup` alone is not
  inductive: it says nothing of a thread that has been woken and is about to reset the event.
* `StoppedTimersSilent`, `DestroyedTimersForgotten`, `RunningTimersRegistered`, `RestartNeverUndone` and
  `KernelImplementsContract`, from `TimerInv` and under `StopFirst`: who is registered, queued or running is
  armed, who is armed is alive, a timer being stopped is off, a timer that repeats for ever
  runs while it is armed, and a completion is under way only when the count is used up. The refinement maps
  `armed` to the armed timers and `pending` to those with a message in a list; every action is a step of the
  contract or a stutter.
* `NothingAfterCompletion`, also under `StopFirst`, from `Completions`: a timer whose completion is queued has used up its count, and when the
  timer thread is about to send for it again it has counted beyond, so that it sends no second completion. `CompletionIsLast` alone says nothing of the
  counts, and a scan begun before the completion could add to the list behind it.
* `TimersAreDriven`, from `Driven`: a timer thread that waits without a signal has an empty array, unless `addTimer` is still to notify it. It assumes that there are no
  focus changes; with them it is false, as the run `kernel_focus_restart` shows.
* `MessagesInOrder`, of every step: a list loses its head to the kernel thread, has a message put behind it, loses the messages of one timer that is stopped, or is cleared by the quit;
  what the kernel thread takes is the head of the first list, in the order of urgency, that is not empty. So messages of a list are handled in the order they were pushed in, each once.
* `MessageQueueProofs` has the facts about the lists these need: what push, pop and deletion keep, add and
  remove, and that the rest is in the old order. The recursive function in `Kept` is reasoned about with `SetInduction` (a set of naturals with 0 and closed
  under successor is `Nat`), which is derived there from the theorems on well-founded relations: it needs no operator
  parameter.

The theorems on the network module hold for every set of blocks, sockets and (finitely many) workers and all lengths
with `HeaderLength < MaxLength` and no overflow of a sum (`NoneAssumption`, `WorkersAssumption`, `LengthAssumption`):

* `NetTypeCorrect`, `OneOwner`, `CallbackCallsPaired`, `ReceivesFit`, `StopJoins` (an action property: what a step after Stop may
  touch) and `MapIsAccurate`, all from the inductive invariant `NetInv`. `MapIsAccurate` holds at every moment of `Stop`, and after it if the wait could not fail: a worker that a failed wait
  has left works on a block of which the map knows nothing any more. `SocketsOwned` says that a socket that is open
  for a block belongs to no other; `PortRegistered` and `WorkerRegistered` tie the place of a block to whether
  the map has it, which is what makes `OnClose` run its callback exactly once; `MapOwned` is the converse;
  `BufferDivided` and `ReceivedFits` bound the receives; `NoThreads` is the state before `Start` and after `Stop`.
  `SingleOwner` carries itself; `CallbackPaired` does not: that a socket value is accepted anew only after its former
  connection has been reported closed needs all of the parts before.
* `WholeWithoutParts`: if a send completes whole or with nothing (`PartialSends = FALSE`), `RepliesWhole` holds, which the run `net_partial_send` refutes for sends in parts. `SendInv` follows
  a reply from `SendNew` to its completion and excludes the branch of `OnSend` that computes the rest.

The theorems on the task distribution hold for any tasks, versions and number of blocks, any changes and any number of starts and stops
(`BlocksAssumption`, `ServerAssumption`, `ClientAssumption`), from `TaskInv`:

* `TaskTypeCorrect`, and `ListNamesArchives`, `NothingLeft` and the action property `PlugsFromWhole` from `RoundInv` and `ThreadInv`. `ListAgrees` is about the
  moment between two rounds; `RoundInv` says what is true in the middle of one: what is not in `need` has its archive, what is in `need` is in the version of the data centre's list.
* `UnpacksWhole` from `LinkInv` and `TagInv`. `LinkInv` says that while no answer has come late the connection holds the one request, or the one answer that meets it, or is
  broken: answers need no numbers then. `TagInv` says that a tag stands for one version of a task, in the archive and in every block on its way;
  a new archive has a tag above all of them.
* `AnswersMeet` is the part of `LinkInv` on requests and answers. `ServedUntilReplaced`, of every step: the archive of a task changes only with the stop, with a list without
  the task, or for a later archive of the listed version. It needs `DeletesByNewList` (the clean-up goes by the local list, which is then that of the data centre) and `TagInv`.

The theorems on the main frame hold for any screens (`ScreensAssumption`) and for every order of handlers and timer threads:

* `FrameTyped`, `PointersLive` and `RestShowsTop`, from `FrameInvariant`. `NothingDangles` and `TopAtRest` are not inductive: that removing a screen leaves no pointer to it needs that no
  screen is on the stack twice, that the home screen is at the bottom and stays there, that the screens an animation is about are on the stack, and
  that, unless a change has missed a completion, the animation that goes on ends with one screen to be seen. How a screen is taken from the stack is
  written with `SubSeq`, about which the provers can reason.
* On the message box, whatever the screens do, from `BoxInv`: `LocksEnd` and `NoAnswerAfter`. A box that has given its answer is on its way out, locked and hiding, but for
  style 0 and a box brought back, so that none of its buttons can be pressed any more; what is released after that was held before.

On the update, for any set of the names that the code tells apart, any number of releases and every kind of machine (`NamesAssumption`, `MaxVersionAssumption`), from `UpdateInv`:
`UpdateTypeCorrect`, `SuccessMeansCurrent`, `CopiesAgree`, `RestartsWhenReplaced`. `FetchedInv` says what the download directory holds, `IndexInv` what the loop has still to do,
`PlaceInv` which of the two places it is at, and `InstalledInv` that what is off the list is installed. All rest on `NoSharedPlace`: no two files that one machine takes go to
the same place, although drivers lose their 64 and libraries change their names.
`PlacesHoldTheirFile` and, of every step, `NoWriteGoesBack` add what is in the places in the middle of an update, or after one that was broken off: from `FreshDownloads`, by which what is in the download directory
is torn or at least as new as the index of this update. A release in the middle of the downloads makes it newer, never older.

Every safety property that a passing run checks is stated by a theorem. Only model-checked, because the prover has no rules for fairness and `ENABLED`, are the liveness properties
`InputEventuallyHandled` and `QuitCompletes` of the kernel, `StopReturns` and `RequestAnswered` of the network module, `ServesCurrent` and `StopsReturn` of the task distribution, `LeftIsRemoved` and
`BoxGoes` of the main frame, and `Recovers` of the update. The three runs that end in a violation show the place where the code does not do what it says; two of their properties are theorems
under the hypothesis that excludes that case (`TimersAreDriven`, `WholeWithoutParts`), and the third, `RunningUntilDone`, is one under `StopFirst` (`RestartNeverUndone`).

## 5. Not modelled, and what is left

* *Services* (`CServiceAdaptor.cpp`, `CBaseService.cpp`): no application in the repository has one, and the call that would initialize them is commented out
  (`CBaseMainFrame.cpp:636`). In `HmiKernel` a service is a producer.
* *The asio library* (`public/src/common/network`): only the test program beside it uses it. What goes wrong in it (the hazards name the lines) depends on the order of handlers in
  the io service, so a model would be one of asio as much as of this code.
* *Popups, controls, gestures, animations*: one handler each, geometry and interpolation; popups have no animation in this repository.
* *Other tasks of the client* (`ktask.cpp`, `kshut.cpp`), *logging, the Windows service, drawing*: calls into the system without a rule of their own over several steps.
* *Containers and caches*: only what the kernel uses of them.
* *The deletion of `CMain`* by `startHMI`: what a producer does with a freed object is undefined.

Theorems that would add something: that the kernel carries out the timers of the screens and the message box as `AnimationTimer` takes it for granted (the main frame and the kernel are separate models), that a
client of the task server and the server as a whole implement a store of archives, and that the update implements an atomic replacement but for the two cases of `due` and torn downloads.
