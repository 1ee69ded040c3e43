# A verification project for the programmable load's daemons

The repository is the Linux side of a programmable electronic load: a Yocto
layer whose own code is four C++ programs and a shared library, about 13 000
lines, plus a boot splash. An STM32MP1 runs them; its Cortex-M4 does the
measuring and talks to Linux over rpmsg.

This directory holds TLA+ modules that model those programs, TLC
configurations that check them on small instances, and proofs, checked by
TLAPS, that hold for every value of the constants.

`COMMON`, `LOADD`, `PINB`, `GUI` and `SPLASH` below stand for
`src/recipes-pl/pl-common/files`, `src/recipes-pl/pl-loadd/files/src`,
`src/recipes-pl/pl-pinballd/files/src/daemon`, `src/recipes-pl/pl-gui/files/src`
and `src/recipes-custom/boot-splash/files/src`.

## 1. Inventory

### How the parts talk to each other

    touch, buttons, LEDs           M4 firmware          confd
        | I2C, polling timers        | rpmsg: control,     | AF_UNIX stream
        v                            v        confd        v
     pinballd                      loadd ------------------+
        | AF_UNIX SOCK_SEQPACKET     | AF_UNIX SOCK_SEQPACKET
        +------------+---------------+
                     v
      clients of pl-common's ClientBase (the GUI, and whoever else)

Each daemon has one thread in one libevent loop, so a callback is atomic with
respect to every other one. What is concurrent is everything around it:
clients, the M4, confd, the controllers on the I2C bus, systemd. Each read,
write event, timer and signal can come in any order, and what a callback
queued leaves later.

### Components

| component | state | operations | what is hard | what makes it correct |
|---|---|---|---|---|
| pinballd RPC server (`PINB/Rpc`) | map of clients by descriptor, subscription flags, output buffers | accept, read (configuration, indicator, no-op), event, release, broadcast | descriptors are reused; a constructor throws half way; one exception ends the daemon; packets share records | map and descriptors agree; clients are independent; only wanted packets are sent; who hung up is released |
| pinballd process (`PINB/main.cpp`, `EventLoop.cpp`, unit file) | run flag, where `main()` is | start, probe, run, terminate | exceptions through libevent's C frames, the status systemd sees, signals before the loop | everything held is closed; a restart begins clean; a signal ends it whenever it comes |
| client library (`COMMON/src/Rpc/ClientBase.cpp`) | socket, bufferevent, tag counter | connect, send, read, event | several packets in one record; end of the connection while requests are outstanding | packets are handled in order, at most once |
| FT6336 touch driver (`PINB/drivers/touch`) | data flags, id-to-bank table, positions | poll, decode, clear, broadcast | two reads of fingers that move on, two views of the same touches, an uninitialised array and an unchecked index, a failing bus | what is broadcast is what the fingers do |
| confd proxy (`LOADD/ConfdEpHandler.cpp`) | socket, flag for a new one, output buffer | rpmsg read, confd read, confd event, reconnect | confd goes away at any moment, by EOF or reset | requests and replies in order, once; service resumes |
| loadd RPC server (`LOADD/RpcServer.cpp`) | map of clients by bufferevent address, input buffers | accept, read, abort, event, broadcast | addresses are reused; records below the watermark; errors | map and clients agree; only offenders are closed |
| control endpoint (`LOADD/ControlEpHandler.cpp`) | its bufferevent | rpmsg read, event | what is forwarded and what is dropped | broadcasts reach every client, in order |
| loadd start-up and coprocessor (`LOADD/main.cpp`, `Coprocessor.*`) | M4 state, rpmsg endpoints, handlers | load, start, connect channels, stop | a failure at every step; the order of destructors; a kill | the M4 is not left running; the loop starts with everything in place |
| watchdogs (`Watchdog.cpp` of both daemons, unit file) | a persistent timer in the loop | start, notify | the timer waits while a callback runs; systemd's clock does not | a daemon that hangs is restarted, one that works is not |
| direct buttons (`PINB/drivers/button`) | last and current bit per button | poll, compare, send | an exception between send and update | every edge is told once |
| PCA9535 expander (`PINB/drivers/gpio`) | cached registers | configure, set, get, write, read | cache and chip can differ; a mask that is zero | cache equals chip |
| indicators (`PINB/LedManager`, `drivers/led/Pca9955`) | LED maps, brightness | set indicator, colour, brightness | a request applied half way | an indicator shows the last accepted value |
| hardware probe (`PINB/Probulator.cpp`, `DriverList.h`, `Utils/Base32.h`) | PROM address, revision, serial number, drivers | scan, read, parse, register, write PROM | the order of keys and of drivers, text longer than its room | the board is known before a driver is made |
| NT35510 display (`PINB/drivers/lcd`) | the chip's registers, page, sleep | a list of words over SPI | words lost half way; a chip that remembers an earlier process | in service every register has its value |
| GUI framebuffer, renderer (`GUI/Gui`) | two buffers, pending flips, callback lists | draw, request flip, page flip, vblank | drawing and scan-out interleave; callbacks remove callbacks | nobody draws on what is shown |
| GUI RPC clients (`GUI/Rpc`) | callback maps, tokens | subscribe, process events | a callback changes the map it runs from | callbacks run once per event |
| GUI process and screens | shared state, widgets | start, stop, update | requests at shut-down | - |
| boot splash (`SPLASH`) | progress, message, what is to be redrawn, clients | draw, accept, read, quit | a signal between test and `select()`, descriptors that leak, flags of what has changed | the splash ends when told; it shows what it was told last |
| logging, configuration, CBOR helpers | - | look-ups | - | - |
| u-boot configuration PROM | - | read at boot | - | - |
| kernel and device-tree patches, recipes, images | build metadata | - | - | - |

`PROJECT.json` names the sources of each under `components`, and under
`hazards` everything in them that is hard to test, each at the line where it
bites, with the properties that would notice.

## 2. Modules

| module | models | state and actions |
|---|---|---|
| `RpcSocket` | kernel and libevent, as both servers use them: backlog, records, output buffers, EOF, reset, broken pipe | external; one operator per system call or libevent event |
| `Records` | a record is one `writev()` of all that was queued | pure: `Joined`, the packets (for the display: the words) of a run of records |
| `PinballServer` (on `RpcSocket`) | `PINB/Rpc/Server.cpp`, `Client.cpp`, `main.cpp`, `EventLoop.cpp` | `clients`, `sockFd`, `wants` are the members of the same meaning; `AcceptClient`, `ReleaseClient`, `BevRead`, `BevEvent`, `BroadcastRaw` the functions; `Listen`, `ProbeSucceeds`, `ProbeFails`, `HandleTermination`, `LoopFails` the course of `main()`; `SystemdRestart` the unit |
| `PinballRpc` (on `PinballServer`) | server and client library together | `ClientBevRead` is `ClientBase::bevRead()`; history variables `due` and `handled` |
| `EventFeed` | nothing in the code: the promise of a broadcast feed | abstract specification of both daemons' broadcasts |
| `Ft6336` | `PINB/drivers/touch/Ft6336.cpp` | `hasData`, `touchIds`, `touchPos` are the members; `UpdateTouchState` is the timer callback. Its two bus transactions are steps of their own, between which fingers come, move and lift: `ReadStatus`, then `ReadBanks` with decoding, clearing and sending, or `ReadLifted` when the first read finds no point |
| `ConfdProxy` | `LOADD/ConfdEpHandler.cpp` | `needsNewSocket`, `confdSocket` are the members, `reading` and `writing` what is enabled on `confdBev`; one action per callback |
| `LoaddServer` (on `RpcSocket`) | `LOADD/RpcServer.cpp`, `ControlEpHandler.cpp`, `ClientBase::bevRead()` | `clients`, `bev`, `inBuf`; one action per callback |
| `Framebuffer` | `GUI/Gui/Framebuffer.cpp` | `currentFb`, `backbuffer` are the members, `content` the two pictures; what the kernel does with a flip is `Vblank` |
| `Gui` (on `Framebuffer`) | `GUI/main.cpp`, `EventLoop.cpp`, `Gui/Renderer.*`, the two screens, `Rpc/LoaddClient.cpp`, `Rpc/PinballClient.cpp` | `pc` is where `main()` is, `view` the root view controller, `timerCount` and `label` members of the screens; one action per callback, with daemons that stop and start |
| `Drawer` | `SPLASH/splash/Drawer.cpp` | `progress`, `progressString` are the members, `dirty` the set of the flags that are up, `bar` and `text` what is on the screen |
| `BootSplash` (on `RpcSocket` and `Drawer`) | `SPLASH/splash/main.cpp`, `RpcListener.cpp`, `SPLASH/remotelib` | `clientSockets`, `gRun` have the names of the code; a turn of the loop is cut where a signal makes a difference: at the test of `gRun`, before `select()`, in it |
| `Pca9535` | `PINB/drivers/gpio/Pca9535.cpp` | `cfgPort`, `outputPort` are the cached registers, `chipCfg`, `chipOut` the chip's |
| `Pca9955` | `PINB/drivers/led/Pca9955.cpp`, `PINB/LedManager.cpp` | `channels` is the LED map, `pwm` the chip |
| `FrontPanel` (on both) | `PINB/Probulator.cpp`, `drivers/DriverList.h`, `drivers/button/Direct.cpp`, `Client::updateIndicators()` | the drivers the ID PROM lists are made step by step (`todo`, `ops`), each step may fail; then polls and requests |
| `Watchdog` | `Watchdog.cpp` of `COMMON` and `PINB`, the turns of `EventLoop.cpp` | `timer` is the persistent event, `quiet` systemd's clock, `turn` how long the present turn has lasted, `queued` whether the event is among its callbacks, `before` (history) the turn before; a tick passes inside a turn or between two |
| `IdProm` | `PINB/Utils/Base32.h` | pure: `Encode` and `Decode`, one turn of the loops (`EncodeTurn`, `ReadChar`) at a time |
| `Nt35510` | `PINB/drivers/lcd/Nt35510.cpp` | the words the constructor sends, and `Received`, what the chip makes of one |
| `PinballBoot` (on `FrontPanel` and these three) | `PINB/main.cpp`, `Probulator.cpp`, `pinballd.service` | `main` is where `main()` is, `unit` what systemd has for it; `key` the place in the PROM's map, `hwRevision`, `hwSerial` the probe's members. Each step may throw, hang, be killed or get a signal |
| `LoaddBoot` | `LOADD/main.cpp`, `Coprocessor.*` | `pc` is where `main()` is; one action per step of it, each of which may throw; `Unwind` runs the destructors |
| `MC*` | - | small sets and model values for TLC |
| `*Proofs` | - | theorems, lemmas and proofs |
| `InductionLemmas` (on `Records` and `IdProm`) | - | lemmas about the recursive functions, for data of any length |

Composition: `RpcSocket` is the connection both servers share. `PinballRpc`
joins server and client library, `LoaddServer` joins control endpoint, server
and client library; both are shown to implement `EventFeed`
(`INSTANCE EventFeed WITH last <- ..., transit <- ..., seen <- ...`, where
`transit` is the packets in the output buffer and in the kernel). `LoaddBoot`
is the frame in which `LoaddServer` and `ConfdProxy` live; `Ft6336` and the
button poll of `FrontPanel` are the callers of `BroadcastRaw`. `FrontPanel`
puts three drivers on one expander, as the probe does, and `PinballBoot` runs
that panel in the daemon systemd supervises: every step of it is a step of
`FrontPanel` or none of its business (`BootImplementsPanel`), so what is proved
of the panel holds under watchdog, signals and restarts. `BootSplash` uses the
same sockets as the daemons, with requests for packets; `Gui` is the process
around `Framebuffer`, with each daemon reduced to whether it is there and what
it sends.

Data is abstracted to what properties tell apart. A broadcast is its number
and, in pinballd, its type; a request is what it does to the server; a touch
position is opaque; a picture is the number of the measurement it shows. CBOR,
names, log messages and pixels are left out.
Definitions introduced by "Mutant of ..." are variations of the one after them
with a plausible bug; no specification uses them, they are there to see that a
property notices.

## 3. What the runs show

| run | instance | shows |
|---|---|---|
| `pinball_server` | 2 connections, 2 descriptors, 2 packet types, 6 kinds of request, 1 broadcast | `FdTable`, `OneClientPerStep`, `HungUpReleased` |
| `pinball_feed` | 2 connections over 1 descriptor, 3 broadcasts | `ImplementsFeed`: no broadcast handled twice or out of order |
| `pinball_loss` (counterexample) | 2 broadcasts | `EveryBroadcastHandled` fails: two broadcasts in one record, the second is lost |
| `touch` | 2 fingers, 2 positions, any initial table; an empty bank gives an id it may have kept, or an invalid one | `NoPhantomTouch`, `TracksFirstFinger`, `LiftReported` |
| `confd` | 4 requests, 2 crashes | `RequestsInOrder`, `RepliesInOrder`, `FlagMeansClosed`, `ServedUntilFirstCrash` |
| `confd_replies` (counterexample) | 1 crash | `RepliesRead` fails: reading is never enabled again |
| `loadd_server` | 2 connections, 2 addresses, 3 broadcasts and other packets | `ClientTable`, `OnlyOffendersClosed`, `ImplementsFeed` |
| `loadd_boot` | 2 kills | `M4NotOrphaned`, `LoopReady` |
| `gui` | 2 measurements, 1 fault or kill, daemons stopping and starting | `FlipChain`: there is always exactly one flip under way; `MeasurementShown`, `InputHandled`, `LampsAfterTest`, `ConsoleBack` |
| `splash` | 3 clients over 2 descriptors, signals, a bar of 2 columns | `SocketsOpen`, `OnlyDeadForgotten`, `Painted`, `QuitEnds` |
| `panel` | pinballd under systemd with 6 boards, 2 buttons and 2 output pins, 3 channels, 2 indicators; a watchdog interval of 2 | the probe: `BoardKnown`; the panel: `PanelReady`, `IndicatorsShown`, `NoGhostPress`, `ReleaseTold` |
| `supervision` | the same daemon with 2 boards and a watchdog interval of 6 | the unit: `NoFalseAlarm`, `HangRecovered`, `TerminationHeeded`, `NeverGivesUp` |

Each passing run also checks its module's type invariant, but for `loadd_boot`
and `gui`, where it is only proved, `pinball_feed`, whose server is that of
`pinball_server`, and `panel`, whose type invariant is in `supervision`.

### Bounds, and why they are enough

* **Connections: 2.** Each is dialled at most once, so two are what it takes
  for a reuse (the second gets the first one's descriptor or address) and for
  an interference (two at a time). One descriptor may also leak. The
  theorems of section 5 are about any number.
* **`UpCap`, `DownCap`, `Backlog`, `RpmsgCap`: 1 or 2.** A queue of one
  already has all its states: empty, full, and full with more waiting in the
  output buffer. `pinball_feed` has two records of down-stream queue, so that
  a record of several packets can stand before and behind another one.
* **`MaxBcast`.** Three in `pinball_feed` make every division of a run into
  records; in `loadd_server` they
  put a record of two before and behind a single one.
* **Sizes of requests against `Header` = 2.** 1 is below the watermark, two of
  them reach it, 2 is at it.
* **`MaxReq` = 4, `MaxCrash` = 2.** After the first crash comes a connection
  that is never read, after the second one that is never replaced; four
  requests put one before, between and after.
* **`MaxMeas` = 2, `MaxFaults` = 1, `InCap` = 2.** Two pictures tell an old
  one from a new one in each of the two buffers; one refused call or kill at
  every place there is, with a restart after it; two user events are one that
  goes to the screen before or behind one that does not.
* **`Conns` = 3, `Fds` = 2 in `splash`.** Two clients can use up the
  descriptors while a third one waits.
* **`Columns` = 2, `Percents` = {3}, `Texts` = {1}.** Progress beyond the end of
  the bar, against the 0 it starts with; a message against none. That the
  screen is right for every other value is proved (`PaintedCorrect`).
* **`Half` = 3 in `supervision`, 1 in `panel`.** With 3, two turns that are each
  shorter than half the interval (2 ticks) are together longer than it, which is
  what it takes to expire the watchdog without a long turn; one turn can also
  last for all of the interval. The proof of `NoFalseAlarm` is for any interval.
  In `panel` the watchdog only has to be able to end the process anywhere.
* **A late timer (`TickStart`).** Start-up may take any time; once the timer is
  late by more than a period, it does not matter by how much.
* **Two boards in `supervision`.** One with every driver, so that start-up can
  hang or be cut short in each, and one whose PROM stops it with an exception.
* **Six boards.** The keys of the PROM before and behind the drivers, both
  ways to give a serial number in either order (one of them an error), all
  drivers, some and none, in orders that work and in one that does not. Serial
  numbers of 1, 3 and 4 bytes leave a different rest of bits.
* **`Cuts`: 20, 36 and all but one word.** The display's constructor is
  interrupted while it reads, between two pages, and before the last word.
* **Pins 0, 1, 7, 8.** Both halves of the expander's registers, with a button
  and an output in the same half. The LED maps are a good one, one with a
  channel given twice, and one with an indicator named twice and an empty list.
* **`MaxLevel` = 1.** On and off are enough to see whose value a channel has.
* **`MaxKills` = 2.** A kill finds the M4 running; the second one finds what the
  start after the first left.
* **Positions: 2.** Enough to tell a position that is still true from one that
  is not.
* **`Garbage` = {0, 1, 7, 255}.** Either point, neither, and the value that
  means none.
* **`EmptyIds`.** A bank without a finger gives an id it may have kept (bank 1
  never holds id 0, as banks are filled in the order of ids) or 15, which is
  outside of the table.

Deadlock is checked in `gui`, whose environment never rests. In the other runs
it is not: those systems may stop, in an exit no one restarts, with all
connections used up, or with nothing left to do.

### Fairness, and what justifies it

* libevent calls every active callback in each turn of its loop, so the read,
  write and event callbacks are weakly fair, each on its own. Nothing is
  assumed of clients, fingers, signals or the M4.
* The timers of the touch driver, of the button poll and of the version screen
  are persistent, so `UpdateTouchState`, `UpdateButtonState` and
  `TimerCallback` are weakly fair; for the touch driver this also says that a
  poll goes on from its first read to its second.
* The display has a vertical blanking (`Scanout`).
* The splash's process runs: the steps of its one loop are weakly fair
  together; a `select()` with nothing to read is not enabled.
* `SystemdRestart` is weakly fair for an exit status other than 0 and for an
  abort: `Restart=on-failure` in `pinballd.service`. So are, in `PinballBoot`,
  the restart, the passing of time (`Tick`) and the two kills of systemd's
  (`WatchdogExpires`, `StartTimeout`).
* `Poll` and `Terminate` of `PinballBoot` are strongly fair: each turn of the
  loop serves every event that is due, but a turn may begin with another
  callback, and between turns is the only place to begin one. Nothing makes a
  turn end (`TurnEnds`), the watchdog's callback run (`TellSystemd`) or start-up
  go on: a hang is a legal behaviour, and what `HangRecovered` is about.
* `LoaddServer` has no fairness: its run is about safety only.
* confd answers what it reads, and is started again some time after it
  stopped. (The counterexample of `confd_replies` needs exactly this: with
  confd back and answering, the replies are still never read.)

### Assumptions about what is not in the repository

* One `writev()` on a `SOCK_SEQPACKET` socket is one record, and one
  `bufferevent` read takes one record. libevent's output buffer is handed over
  whole.
* Closing a socket with unread data makes the other end read `ECONNRESET`.
* `SIGPIPE` is ignored, systemd's default for services (`IgnoreSIGPIPE=`).
* `bufferevent_setfd()` enables nothing, and libevent stops reading after EOF
  or an error.
* remoteproc refuses a firmware name unless the M4 is offline, and stopping
  the M4 removes its rpmsg devices. A new endpoint takes the lowest number.
* A page flip takes effect at the next vertical blanking and then leaves its
  event; a second request before that is refused.
* A signal interrupts a `select()` that blocks, and only that.
* An exception that leaves a callback either reaches the catch in `main()` or
  cannot pass libevent's C frames and aborts; models have both.
* After EOF the library's descriptor is no socket: writing a request fails.
* systemd counts SIGTERM, SIGINT and SIGHUP as a clean end, kills a unit that is
  not ready in time, and finds five seconds between restarts
  (`RestartSec`) slow enough for its start limit.
* libevent tests its timers once in a turn of the loop, at the start, before it
  calls anything back. An event that is due then is called back in that turn,
  before or behind the others; one that falls due while callbacks run waits for
  the next turn. A persistent timer is added again relative to the time it was
  due, or to the start of the turn when that has passed by then.
* NT35510: commands from 0xb000 on have a register on each page, everything is
  kept until a reset, and a word that is cut short is dropped.
* Base32's buffers have 32 bits and only the low ones are looked at again; the
  model drops the others at once.
* The progress a splash client sends is a number: `remotelib`'s one caller
  passes 0 to 1.
* PCA9535: a configuration bit of 1 is an input, both registers are ones after
  power-on, reading gives the level at the pin, and a pin driven from two
  sides reads as either. Both panel chips keep their registers while daemons
  restart. The ID PROM lists a driver once.
* The FT6336 gives a new finger the lowest free id and fills its register banks
  in the order of ids. What one bus transaction reads is consistent, what two
  read is not. A bank without a finger holds what was in it before, or an
  invalid id.
* `touchIds[id] = point` with an id of 2 to 15 writes one byte behind the array:
  on padding, on the timer's pointer (used only by the destructor), behind the
  object, or on the byte with the two flags. The model has all of these, with
  the process ended by the write as `PollThrows`; that byte also holds the
  transform of the axes, whose effect on positions is left out.

## 4. Where code and documentation disagree

Two of these have a run, listed under `findings` with the lines: lost
broadcasts (`pinball_loss`) and replies after a reconnection (`confd_replies`).

Others were met while modelling and have no run.

pinballd:

* `touchIds` has no initialiser and the constructor does not write it
  (`Ft6336.h:128`). With a 1 in its first entry: two fingers come, the first
  lifts, a poll reads the other's bank (id 1, point 0), that one lifts, and the
  next poll, which finds no point, clears the flag of the wrong entry and tells
  of a touch, against the comment at `Ft6336.cpp:345`. It ends with the first
  bank read that has id 0, so `NoPhantomTouch` is about what comes after it.
* `PinMode::Input` is 0 (`GpioChip.h:18`), so `mode & PinMode::Input` at
  `Pca9535.cpp:46` never holds and the button pins become outputs, driven low,
  while `Direct.cpp:48` says inputs. `Configured` of `Pca9535` does the same.
* A second finger that is left alone is told as absent (`Ft6336.cpp:289`; the
  comment at 345 says that null means not touched).
* The touch id, of four bits, is an unchecked index into a table of two
  (`Ft6336.cpp:324`), and the count of points and the points are read in two
  transactions (236, 259). When a finger lifts between them its bank is decoded
  all the same, and a touch that is over is told until the next poll.
* The watchdog's timer is half the interval, but an event that falls due in one
  turn of the loop waits for the callbacks of the next: two turns in a row that
  together take half of the interval can let it expire. `NoFalseAlarm` says
  that nothing less can.
* `main()` falls off its end after an exception from the event loop: status 0,
  which `Restart=on-failure` does not restart (`main.cpp:222`). `NeverGivesUp`
  says that this and a signal are the only ways to stay down.
* A serial number in an EEPROM of its own is turned into as many characters as
  it has bytes, where Base32 needs eight for five: the end of it is missing
  (`Probulator.cpp`). `BoardKnown` says which bits are exact.
* The LED driver listed before the display dereferences an expander that is
  not there (`NullExpander`).
* A LED map may name a channel of 16 or more, which indexes a `bitset`
  unchecked.
* `writeIdprom()` counts the page offset into the length.
* `RpcTypes.h` describes the broadcast flag as `1 << 7` and defines it as
  `1 << 1`.

loadd:

* `main()` declares the coprocessor before the server, so on its `return 1`
  the event base is freed before the handlers' bufferevents.
* A handler's descriptor is closed twice, by the handler and by the
  coprocessor (`ControlEpHandler.cpp:43`, `ConfdEpHandler.cpp:71`,
  `Coprocessor.cpp:211`).
* `ConfdEpHandler` lowers `needsNewSocket` before it dials; if that fails the
  flag stays down. `handleConfdEvent()` only logs an error, so a connection
  that confd reset is not replaced.
* `initRpc()` destroys leftover endpoints, but after a kill `loadFirmware()`
  has failed before it gets there.

GUI and splash:

* `HomeScreen.h` speaks of a calculated wattage; nothing updates its label.
* `PageFlipHandler()` flips to the buffer the last flip asked for, so from the
  first event on it draws into the one on screen (`Framebuffer.cpp:417`, 475).
* `main()`'s last requests to pinballd are outside of its `try`, against the
  comment at `main.cpp:50`; with pinballd gone the terminal stays graphical.
  A constructor that throws after it took the terminal leaves it, too.
* The clients do not connect again; user events wait for a page flip, while
  `Renderer.h` speaks of an event source.
* The splash's `select()` has no timeout: a signal between the test of `gRun`
  and the call is lost (`RpcListener.cpp:110`).
* `Drawer::draw()` raises the banner's flag where it lowers the others, so the
  banner is painted with every change and the flag never falls.
* A client that hung up keeps its descriptor in the splash. With none left
  `accept()` throws on every turn, before any client is handled, and requests
  to quit go unheard (`Deaf`).

## 5. Proofs

Checked by TLAPS, for every number of connections, descriptors, addresses,
positions, requests, crashes, indicators and channels, and for serial numbers
and tables of register values of any length. They rest on the constants' assumptions
(`SocketAssumption`, `ServerAssumption`, `TouchAssumption`, `ProxyAssumption`,
`LoaddAssumption`, `PanelAssumption`, `PinsAssumption`, `LedAssumption`,
`WatchdogAssumption`, `BootAssumption`, `DisplayAssumption`, `SplashAssumption`,
`DrawerAssumption`, `GuiAssumption`), which TLC evaluates in the runs, and on nothing else.

| module | theorem | argument |
|---|---|---|
| `PinballServerProofs` | `TypeCorrect` | inductive as it stands; one lemma per action |
| | `FdTableCorrect` | `FdInv` = `TypeOK`, `Backlogged`, `FdTable`. `FdTable` alone is not inductive: accepting must not find the connection in the map already, so one in the backlog is there once and not open, and one never dialled has no server's end. `LowestFreeIsFree` is the well-foundedness of descriptor numbers. |
| | `OneClientCorrect` | from the types alone: each callback is about one connection, and `releaseClient()` closes the one that called it; accepting closes none, broadcasting changes none |
| | `FeedImplemented` | `PinballRpc` implements `EventFeed`, with one lemma per kind of step: a broadcast publishes to those that want it, handing the buffer to the kernel moves nothing (the packets of a run of records are the same wherever it is cut), a read handles the first packet of the first record and drops its rest, a release or an exit loses the output buffer, a suffix. `NoEmptyRecord` is what the read needs beside the types |
| | `BroadcastsInOrder` | what the feed is for: `OrderInv`, that what was handled and what is on its way are in the order of publication (`FeedOrder`), is kept by each step of `EventFeed`, and so by each of the program's |
| `Ft6336Proofs` | `TypeCorrect` | inductive |
| | `TracksCorrect` | `FirstFingerRead`: with finger 0 down when the banks are read, and no fewer fingers than were counted, decoding overwrites every cached field the broadcast reads, so nothing older matters: no garbage, no stray id, no finger that came or went between the two reads |
| | `PhantomFree` | for any garbage and any ids of empty banks. `EntrySound`: once the entry of touch 0 has been written it names point 0 or none. Decoding and clearing keep that (`DecodeKeepsEntry`, `ClearKeepsEntry`), and then the two clears of a poll without points leave nothing to report (`LiftClears`). Before that write the claim is false (section 4) |
| `ConfdProxyProofs` | `TypeCorrect`, `FlagCorrect` | inductive |
| | `RequestsInOrderCorrect` | `OrderInv`: the concatenation of everything on its way, with the number of the next request behind it, is increasing. Each step moves a head, appends the next, or drops a part; lemmas on increasing concatenations say each keeps the order. |
| | `RepliesInOrderCorrect` | `ReplyInv`: the replies on their way are increasing, and each is to a request that confd served and lies between what the M4 has and what confd serves next (`Covered`). It needs `OrderInv`: confd's next request is later than all it served |
| `LoaddProofs` | `TypeCorrect` | `TypeInv` adds that no record is empty, which the client's read needs |
| | `ClientTableCorrect` | `TableInv`, the same strengthening as for pinballd, for addresses |
| | `ListenersKept` | `OnlyOffendersClosed` follows from the map: erasing by address closes the connection the callback is about |
| | `FeedImplemented`, `BroadcastsInOrder` | as for pinballd, with every client the server has as a subscriber |
| | `BootTypeCorrect`, `M4NotOrphanedCorrect`, `LoopReadyCorrect` | `Stages` fixes for each place of `main()` what the coprocessor and its endpoints are, `Devices` which rpmsg devices exist while the M4 runs, and `Excused` that an M4 which runs with no process goes back to a kill or to a refused stop. A kill may leave any of them, so the next start is proved from any |
| `BootSplashProofs` | `TypeCorrect` | inductive |
| | `PaintedCorrect` | `ScreenInv`: a part that is not flagged shows its value, and where the loop waits nothing is flagged. `BarIsReference`: one drawing leaves nothing of the old bar, whatever the progress |
| | `SocketsOpenCorrect`, `OnlyDeadForgottenCorrect` | `TableInv`, the daemons' strengthening for a set of descriptors that is never shrunk by a client that hung up |
| `PinballBootProofs` | `IndicatorsCorrect` | `ShownInv`: from the LED driver's constructor on each channel is the k-th of one indicator, for one k (`Disjoint`), and nothing has been asked for before the loop. The chip is cleared when the map is read; `AppliedIsAsked` says that a request reaches its own channels only, which `Disjoint` makes unambiguous; however the process ends, no indicator has a channel any more |
| | `PanelEnabledCorrect`, `PressesAreReal` | `PinInv`. `Registers`: what the expander cached is what the chip has, for each register written once (`InStep`), and the only pin ever driven high is the display's reset. `Making`: what is left to do is the rest of one driver's steps (`At`), and what the ones before have done is done (`Progress`), so no driver undoes another's pins. `Driven`: with the buttons made the reset line is an output and high, with the LEDs made their enable is an output and low. As no output but the reset is ever high, a button reads high only when it is pressed |
| | `BootImplementsPanel` | a refinement, by identity on the panel's variables: a step of the daemon is a step of the panel or leaves it alone. `BootPressesAreReal`, `BootPanelEnabled`, `BootIndicatorsCorrect` follow |
| | `NoFalseAlarmCorrect` | `WatchInv`: the event falls due before systemd has heard nothing for half of the interval. What comes on top is the rest of the turn it fell due in and the turn that calls it back, which is what `before` and `turn` count; an event that is due is queued from the start of a turn on |
| | `NeverGivesUpCorrect` | `UnitInv`: while there is a process systemd has the unit started; then every end of it is one that restarts, or is excused |
| | `BootTypeCorrect` | `PinInv` has the registers' types, `WatchInv` the watchdog's; `PanelTypes` and `ProbeTypes` the rest. `AppliedLevels`: whatever is asked of the indicators, every channel keeps a level |
| | `BoardKnownCorrect` | `KeysRead` follows the pass over the keys: what is known is what the keys before the next one say, and the drivers wait for all of them. `ProbeTypes` has where the serial number is from: the PROM's own text, or what Base32 made of an EEPROM's bytes, and `DecodesEncoded` says how much of them that is |
| | `PanelReadyCorrect` | `PanelEnabledCorrect` for the expander, `DisplayInv` for the controller: between its reset and the first word it is as after a reset, and after the last word it is ready. Between the two nothing is claimed: an interrupted process leaves it anyhow, and only the next reset matters. `AllReceived` is an induction over the words: after any number of them each register sent so far is `Held`, on the page it is meant for |
| `InductionLemmas` | (lemmas only) | `UpTo` is induction stated over a set, from the least element of a set of naturals; `Iteration` gives a recursion over `0 .. n` its function and its values. From these `JoinedHead`, `JoinedThrees` and the others on `Joined`, and `DecodesEncoded`: for bytes of any number, decoding what was encoded into that many characters gives the bytes whose bits all went in. `OrderPublish`, `OrderHandle` and `OrderHangup` are the steps of a feed on one subscriber's packets |
| `GuiProofs` | `TypeCorrect` | needs `LampsInv` for the timer's count |
| | `FlipChainCorrect` | `FlipInv`: a flip is either with the kernel or an event to be read, never both, and one is there unless a call was refused. In this form it is inductive |
| | `ConsoleCorrect` | `ConsoleInv` follows the terminal through `main()`: once it is in graphics mode and the connection is lost, the loss is remembered |
| | `LampsCorrect` | `LampsInv`: after the k-th step of the test the indicators lit are the k-th set (`After`), because the first step names all of them |

Only model-checked: what needs fairness or ENABLED, which the prover does not
reach: `HungUpReleased`, `LiftReported`, `ServedUntilFirstCrash`, `ReleaseTold`,
`HangRecovered`, `TerminationHeeded`, `MeasurementShown`, `InputHandled` and
`QuitEnds`. Every invariant, action property and refinement of the passing runs
is proved.

The library's induction theorems take an operator as a parameter, which the
installed provers cannot instantiate, so the proofs use `UpTo` in their place:
the formula to be proved becomes a set, and a least number outside of it is
contradicted.

## 6. Not modelled, and why

* **Memory.** Output buffers have no limit in the code and none here, but for
  the number of broadcasts; running out of memory is not a behaviour.
* **An M4 left running.** A kill of loadd leaves the M4 on, and the next start
  fails at `loadFirmware()`. `LoaddBoot` has these behaviours, but nothing in the
  code promises that a start recovers, so no property asks for it.
* **A crash of the M4.** The code has no step that answers it: the event of
  the old channel is logged.
* **CBOR and logging.** Look-ups over a library's values; each module has the
  outcomes (accepted, absent, thrown) as inputs.
* **u-boot PROM, kernel patches, recipes.** Straight-line writes to the
  environment, other projects' code, build metadata. loadd's unit file is not in
  the repository, so whether systemd supervises its watchdog is not known.
* **Layout.** Pixels, fonts and widgets; a library outside the repository does
  most of it, and the screens keep no state but what `Gui` has.
* **Code without a caller.** The ID PROM writer (`writeIdprom()`, with the length
  of its first page), `replyTo()` and `send()` of loadd's server, the global
  brightness.
* **Tags of requests.** No client of the library waits for the answer to a
  request, so nothing depends on which request an answer is for; the end of a
  connection and a request after it are in `Gui`.
* **FT6336's constructor and coordinate transform**, register reads without
  effect and a reflection of the axes.

## 7. Plan

The daemons, the drivers behind them, start-up and supervision, the GUI and the
splash are modelled. What would add most next:

1. `PinballUi`: touches and buttons from the poll to the GUI's callbacks, as
   one feed of states: the screen ends with what the fingers do. Composes
   `Ft6336`, `FrontPanel` and `PinballRpc`, in the place of the separate runs
   where it shows more than they do.
2. `RpcClient`: `LoaddClient`'s tokens and callbacks that change the map they run
   from, once a screen registers more than one.
3. A unit file for loadd, when there is one: `LoaddBoot` with `Watchdog`, as
   `PinballBoot` is `FrontPanel` with it.

Theorems worth proving next: the safety part of the liveness properties (that
what they wait for is not undone before it is seen), and that
`EveryBroadcastHandled` does hold where the cause of its counterexample is
absent: with one packet to a record.
