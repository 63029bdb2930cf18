# Doritrack: TLA+ models of the phone, the host and the launcher

Doritrack turns an Android phone into a six-lane touch controller. The phone
sends complete contact snapshots over UDP to a native host written in Rust,
which replays them as lane keys (uinput on Linux, SendInput on Windows) or as
synthetic touches. A Tauri launcher starts the host and prepares the network.
This directory models the path from the finger to the key, the pairing that
precedes it, and the processes and network policies around it; TLC checks the
models on small instances, and TLAPS proves the central safety properties of most
of them for every size.

## 1. Inventory

| Component | State | Operations | Talks to | What is hard | What makes it correct |
|---|---|---|---|---|---|
| Receive window (`protocol.rs`, `OrderedFrames`) | session, cursor, ring of 256 frames, "fresh session required" | `push`, `next_ready`, `commit_ready`, `require_fresh_session` | both protocol hosts | loss, repetition, reordering; ring slot reuse; a repaired CANCEL of an abandoned session | each frame once, in order, from sequence zero; a left session stays left |
| v5 gameplay session (`V5Transport.java`, `v5_host.rs`, `input.rs`, `bin/host.rs`) | phone: generation, channel, queue, retained snapshot; host: connection, window, ACK memory, held input | handshake, HELLO, pipelined CANCEL, frames, ACK, PING/PONG, aborts, watchdogs, release | UDP, the sink, the receive window | everything concurrent: two peers, four watchdogs, a path that drops anything, a sink that refuses | ACK means applied; no key outlives its session; the host ends up mirroring the fingers |
| v5 send queue (`V5SendQueue.java`) | ring of 256 unacknowledged frames, send times | `add`, `next`, `nanosUntilSend`, `removeFirst` | writer thread | repairs against fresh frames | the window bound; every frame is repaired |
| v5 record channel (`v5.rs`, `V5Protocol.java`) | packet counter, replay bitmap | seal, open | both peers | shifts across words, counter exhaustion, order of checks | opened once, nonce never reused, nothing fresh refused |
| v5 pairing (`v5_host.rs`, `V5Transport.java`) | exchange, commitment, reveal, comparison, approval, both stores | XX handshake, probe, SAS, confirm, approve, save, complete | credentials, user on both sides | late and repeated datagrams; last message lost, one side has stored the peer | stored only after comparison and approval; the phone stores only what the host stored |
| Lane keyboard (`keyboard/*.rs`) | pointer lanes, holds, believed and real key state, planned frame, spacer queue | `accept`, `service`, `cancel_all`, OS submission | commit loop, OS | partial and torn writes, retries, edges waiting in time | keys follow fingers; no gap in a slide; no stuck key |
| Native touch (`touch.rs`) | pointer slots | `accept`, `cancel_all` | Windows | partial injection | contacts follow the snapshot |
| Host controller (`bin/host.rs`) | options, phase, metrics, stop flag | v4/v5 controllers, pairing, status, commands on stdin | all of the host | stop during any step, end of stdin | input released before listening or exiting; no host outlives its launcher |
| Legacy v4 (`network.rs`, `UdpTransport.java`) | peer, session, adapter, window kept across connections | discovery, pinning, frames, ACK, watchdogs | same sink, same window | no authentication, restart of either side, a replugged cable | as for v5, within one tether adapter |
| USB tether detection (`tether.rs`, `tether_policy/mod.rs`) | none | OS queries | host | - | - |
| Windows route policy (`tether_policy/windows.rs`) | default-route flag, routes, recovery journal | capture, apply, verify, protect, restore, recover | Windows, other hosts, launcher | death between any two of journal, flag and route changes; DHCP meanwhile | the journal covers the damage; originals are originals; orphans are undone |
| NetworkManager policy (`linux_network_manager.rs`) | stored and applied never-default of both families | status, ensure_enabled, set_enabled, rollback | NetworkManager, kernel | a call that fails after its effect; other clients | a reported success or restore is one; nothing unread is overwritten |
| Launcher (`tauri-launcher`) | runtime, phase, mailbox of the readers, pairing flags | start, stop, pair, approve, forget, quit | host's stdin and stdout, credentials | exit races, late lines, a killed child | no orphan host, no stuck key, approvals reach their own window |
| Credentials (`credentials.rs`, `CredentialStore.java`) | identity, pinned peer | load, save, authorize, forget | pairing, launcher | interrupted save | what the launcher shows agrees with the file |
| Phone life cycle (`V5Transport.java`, `MainActivity.java`) | transports, generations, threads, posted callbacks, reconnect timer | `open`, `startPairing`, `close`, resume, pause, reconnect | session | late threads and callbacks of an old generation | an old thread never ends a new session; no socket is forgotten; a lost session is reopened |
| Touch surface (`TrackpadView.java`, `PressureFilter.java`) | contacts, gate per pointer | touch events | `offerFrame` | hysteresis | a contact is admitted once |
| Network binding, metrics, diagnostics | counters, sockets | queries, recording | - | - | observation only |

How they interact: the UI thread of the phone calls `offerFrame`, which queues
under one lock; the writer thread seals and sends; the control thread performs
the handshake and handles host controls; the watchdog thread closes a session
that fails. The host is one loop: wait for an IK request, serve the connection,
release the input. Within a connection it receives a record, pushes a frame
into the window, commits every ready frame to the sink, and only then sends a
cumulative ACK. The launcher sees the host's process and its status lines only.

The hazards this code has, each at its line, are listed in `PROJECT.json`
together with the properties that cover them.

## 2. Modules

| Module | Models | Used by |
|---|---|---|
| `OrderedFrames` | `protocol.rs`: the receive window, each method an operator on a window value | `V5Session`, `LegacyV4` |
| `V5Session` | phone session, host controller and the UDP path, composed over `OrderedFrames` | `MCV5Session`, `V5SessionProofs` |
| `FrameStream` | abstract: one stream per session, consumed in order, confirmed after consumption | refined by `V5Session` (`StreamSpec`) |
| `KeyboardPlan` | `plan_into` and what it calls: snapshot to key transitions | `RepressSpacer` |
| `RepressSpacer` | the re-press spacing beta | `KeyboardSink` |
| `KeyboardSink` | `KeyboardSink`, the uinput and SendInput submission below it, the retry loops of `input.rs` above it, the OS key state | `MCKeyboardSink` |
| `ReplayWindow`, `RecordChannel` | replay bitmap; packet numbers and order of the receive checks | - |
| `Pairing` | both sides of the first pairing, their users, the command thread and the credential stores | - |
| `PhoneLifecycle` | `MainActivity`, the transports it makes and their threads | - |
| `Launcher` | the launcher's commands and reader threads, its children, the credential file | - |
| `RoutePolicy` | `tether_policy/windows.rs` for several hosts and the launcher, one step per Windows call | `MCRoutePolicy` |
| `NetworkManagerPolicy` | `linux_network_manager.rs`, one step per D-Bus or kernel call | - |
| `LegacyV4` | protocol v4: phone, host and the legacy loop of `run()`, over `OrderedFrames` | `MCLegacyV4` |
| `V5SessionProofs`, `RecordChannelProofs`, `PairingProofs`, `PhoneLifecycleProofs`, `LauncherProofs`, `NetworkManagerProofs`, `RoutePolicyProofs`, `LegacyV4Proofs` | the proofs about the module each is named after (`NetworkManagerProofs`: `NetworkManagerPolicy`) | - |

The `MC` modules hold only instances of constants. A
definition marked "Mutant of" is a deliberate bug that `PROJECT.json` pairs with
the property that must notice it; no specification uses it.

### V5Session

Phone variables are fields of `V5Transport`: `link` and `generation` summarise
`running`/`generation`, `channel` the installed `V5Protocol.Channel`, `log` and
`head` the send queue together with its history (`nextSequence` is the length of
the log, `highestAcknowledged` is `head - 1`), `retained` the latest snapshot.
`hostReady` also stands for `sessionStarted`: the code sets both in the same
synchronized block. The generation number serves as exchange id and session id,
both of which the code draws at random. Host variables are the
locals of `run_v5_controller` and `serve_gameplay_inner`: `phase` is where the
loop stands, `exchange` and `cached` are the cached handshake, `held` is what
the OS holds down. `committed` records what the sink accepted and is read only
by the properties.

* `process_gameplay_frame` is several steps: `HostTouch` pushes, `HostCommit`
  accepts one frame, `HostAck` or `HostSkipAck` ends it. A stop request or a
  sink failure can fall between two commits.
* `commit_ready` failing is `HostSinkRefuses`: the OS may have taken part of the
  frame (`Partial`). `EndSession` does what `serve_gameplay` does on the way
  out, in its order: notify, forget the window, then (`HostReleases`) release.
  The first release inside `serve_gameplay` and the retries of the controller
  loop are one repeated action.
* `toHost` and `toPhone` are the sets of datagrams that may still arrive. A
  datagram is not removed when it is taken, so it may arrive again and in any
  order; `Lose` removes one for good. One sealed record is in
  truth opened once only, which is `RecordChannel`'s subject; here a second
  arrival stands for the redundant copy or the repair, which are new records.
* Records carry the connection they were sealed for. A record of another
  connection does not open and is dropped by both peers, so no action takes it.
* Handling a PONG or a repeated HELLO only refreshes a timestamp on the phone,
  and is a stutter here. `NoProtocolError` covers the checks made on them.
* Time is abstracted: a watchdog may fire at any check. See the fairness section
  for when that costs a fault. Faults and lost datagrams draw on one budget, so
  that a run with both bounds at one explores every single mishap. A touch
  beyond `MaxTouches` is paid for from it too: with nothing else going wrong, it
  overflows the queue.

### KeyboardSink

The sink is one record, `sink`, holding `state`, `pressed` (what it believes), the
planned frame, the spacer, `unsynced` (uinput's `PendingWrite`) and `down` (what
the OS really holds). A call that reaches the OS is a set of results, one for
each number of events the OS may take; on uinput a write may also end between a
key event and its SYN_REPORT. `job` is the call the host repeats, with
`service_deferred`, `commit_ready` and `cancel_with_deadline` as the loops
around it. `EndSession` is the serve loop ending for a reason of its own.
`Variants` are the sinks of a run: over uinput or SendInput, with or without
the spacer; the choice is made in the initial state.

`RepressSpacer` keeps instants relative to now, saturated where the code can no
longer tell them apart (an edge overdue by more than the gap, an emission older
than the gap). The clock is an integer, so calls within a tick share an instant.
Contacts of a snapshot are in pointer-id order. Positions are lane numbers with
one position beyond each edge, which `lane_for` clamps.

### RecordChannel

A word of the bitmap is the set of its set bits. The AEAD is ideal: a record
opens if and only if it is undamaged and of this connection. The Rust code is
mapped; `V5Protocol.Channel` is its twin in Java.

### Pairing

`host` is the pairing process (`pair`, `persist_pairing_if_authorized` and the
command thread of `bin/host.rs`), `phone[p]` the thread of `runInitialPairing`, both as
a program counter with the flags their loops test. A channel is the exchange id
that a phone drew and the window that answered it: with an ideal handshake and
hash this pair decides keys, commitments and lane pattern. `net` keeps every
datagram, so loss, repetition, reordering and the periodic retransmission need
no actions of their own. The exception is the completion, the one step nobody
retransmits: the host sends three copies and is gone, and `CompletionLost` takes
them out of `net`. The phone then waits until its deadline (`PhoneExpires`), and
the host's record is one-sided. `store` is the host's file and `pinned` the phone's.
Approving early or late, cancelling, closing the window, a mistyped pattern, a
failing save, a time-out and `forget_phone` are actions. `MaxFault` pays for what
ends an exchange and for users who do not follow the ceremony: who approve before
the phone has confirmed, or press Pair or Forget while a phone still waits for the
completion (`UnlessHasty`). A late copy of a probe that locks a window costs
a fault as well. `hist` records what people did and what was lost, and is read
only by the properties.

`BothPaired` is about the runs without a fault: a phone and the host have stored
each other at some time, unless the completion of every window was lost. That is
as much as the code can promise (`PROTOCOL_V5.md:251`), and it says that the
one-sided record of a lost completion does not stand in the way of pairing again.

### PhoneLifecycle

`ui` is what `MainActivity` keeps, `obj` its `V5Transport` objects, `session[s]`
one call of `open()` or `startPairing()`: which object and generation it belongs
to, and where each of its threads is. Blocks under `lifecycleLock` are one step,
everything else may interleave; a callback is posted to the UI thread and may
arrive after the session that posted it. `sockets` and `keys` are the open
sockets and channels, whoever refers to them. `OpenReturns` is the end of
`open()` on the UI thread, which may refuse (unreadable credentials, a writer
that started too late).

### Launcher

`ui` is `HostState`, `mail` the mailbox the reader threads fill, `child[i]` the
processes with their pipes. Each command holds the state's lock and reaps first,
so it is one step; lines, exits and kills come between commands. A command that
finds its child ended waits for the readers, so it is taken when the pipe is
empty (`Joined`). `Setup` starts
another instance of the launcher after the first is gone, and finds children of
the earlier one still dying. On Windows a killed child leaves its keys down until
the launcher reaps it and saving credentials has a moment with a truncated file.

### RoutePolicy

`flag`, `routes`, `lease`, `present` and `mac` are Windows' state of the one
tether interface, `journal` the registry entries, `port` the UDP socket whose
binding serialises hosts, `loc[p]` the stack of a process: its captured
snapshots, the work list of a restore and where in `capture_family`, `apply`,
`verify`, `protect` or `recover` it stands. Every call that changes Windows is a
step; every such step and the query for the owner of an entry may fail (`CallFails`),
and every process may die (`Crash`). In `Route` the one failure is then spent, so that a
query that fails over a dead host's entry is in the theorems and not in the run.
`Windows` lets a route appear, a lease end or a new one arrive, the user enable default routes
and the adapter go and come back. `owned` and `removed` are history variables:
the families whose flag a host set, and the routes a host deleted, that nobody has
put back.

### NetworkManagerPolicy

`profile` holds the stored connections, `active` the applied one, each a pair of
never-default flags and a version; `op` is the launcher's call with the target it
read. A call that fails may have had its effect, as a D-Bus time-out may.
`Others` are another client, a reconnect, a replug and a router that adds a
default route; `calm` says that none of them came between.

### LegacyV4

The records of `UdpTransport` (`phone`), of `UdpHost`, `UdpConnection` and the
legacy loop (`host`) and the receive window, which the loop keeps across
connections and which nothing authenticates. One number is the session id, the
nonce and the port of an `open()`. A datagram carries the adapter it arrives on;
`Replug` makes a new adapter. The host may restart with an empty window while the
phone's session goes on.

## 3. Runs

| Run | Question | Bounds and why they are enough |
|---|---|---|
| `V5Session` | frames once and in order, ACK covers commits, input never outlives its session, no session comes back, no protocol error, the send window fits the ring, refinement of `FrameStream` | two sessions and two connections (a leftover needs a predecessor), ring and window of 2 with a queue of 3, so that window, ring and queue limits differ, the queue overflows when a third touch comes instead of a fault, and the ring wraps; one fault anywhere; frames that differ are symmetric |
| `V5Recovery` | the host ends up holding what the fingers hold | three sessions: one to break, one that meets leftovers, one to succeed; one fault, or any one datagram, handshake included, lost for good, so each repair is needed by some behaviour; or a second touch, which the queue of two drops, with acknowledgements and heartbeats behind it |
| `V5Abort` | is the input released when an abort reaches the phone? | violated, see findings |
| `Keys` | belief and OS agree, keys follow fingers, no gap in slides, shared lanes stay down, re-presses wait, no key sticks in the end | uinput without and with the spacer and SendInput with it; two fingers (sharing, swapping, crossing), three lanes (a slide crosses one), three frames, positions beyond both edges, a pressure-gated contact, one torn or short write anywhere |
| `KeysRetry` | does a retry finish a torn emission? | violated, see findings |
| `RecordChannel` | opened once, nothing fresh refused, nonce never reused | twelve attempts through a window of three words of three bits: shifts inside a word, across words, by whole words and past the window; the counter reaches its end |
| `Pairing` | nothing stored without comparison and approval, the phone stores only after the host; users who follow the ceremony, and repeat it after a lost completion, end up paired | two phones that race for a window, two windows and three attempts, so that datagrams of an old exchange meet a new one, and a lost completion is followed by a second window; two commands per window (an early approval, then a cancel); three faults |
| `PhoneLifecycle` | no socket forgotten, an old thread never ends a newer session, no lost session stays lost | two transports and three sessions: an old thread of the same object and of a replaced one; two callbacks waiting; one refused open; a control thread and the watchdog, the writer being the watchdog's twin in life cycle |
| `Launcher` | approvals reach their own window, nothing left behind, the pairing shown agrees with the file, orphans stop, stops finish | two children (the second meets leftovers of the first), two launcher instances, one kill anywhere, Windows, where kills leave keys behind |
| `Route` | the journal covers the damage, originals are originals, a quiet stop restores, orphans are undone | two hosts and the launcher at once, two gateways, both initial flags, one event of Windows or the user and one death or failing call between any two calls; deadlock is checked |
| `NetworkManager` | success and restore are what they say, nothing unread is overwritten | every initial combination of the flags; two failing calls, so that a step and its rollback both fail; one event of another actor |
| `LegacyV4` | held input follows the session, one adapter per window, retired frames were applied | two sessions of two frames through a ring of 2; one mishap anywhere: watchdog, refused call, repeated datagram, replug or host restart |

Where `CHECK_DEADLOCK FALSE` is said (all but `Route`), the system really stops:
a stopped host, a phone whose user left, a call that returned; and named bounds
(`MaxFrames`, `MaxTouches`, `MaxAttempt`, ...) end every other behaviour. The
type invariants of the modules document their state; `V5Session`'s is also
checked by its run, and those of all modules with proofs are proved (`TypeCorrect`).

### Fairness

`FairSpec` of `V5Session` assumes what the threads and loops do: the phone
reopens (reconnect timer), resends its request, repairs the first frame of its
window, and its watchdog closes a session whose host is gone or whose queue
overflowed; the host serves, repairs HELLO while no session is joined, finishes
its commit loop, releases and exits. Strong fairness stands for the path: a
datagram sent again and again gets through, and is then handled, although the
opportunity comes and goes. `HostFails` for a vanished phone is strongly fair
because the deadlines are checked on every turn of the loop, also when stale
records keep it busy for a while. A watchdog that fires at a healthy peer, a
refused OS call, an interface change and a late handshake duplicate spend the
budget `MaxFaults`; without one, nothing could be promised, as with a link that
fails forever. A watchdog that fires because the peer really left is free.

In `KeyboardSink` the loops call again, the serve loop comes by and time passes.
A failed call costs a fault unless it fails whatever the OS does, in which case
the loop runs into its 8 ms deadline and cancels. Where an assumption is about
being somewhere again and again rather than about one action, it is written
`[]<>P`:

* `Pairing`: both loops keep taking what has arrived and repeat their step until
  the next one is seen, all but the completion; a phone's deadline passes; and the
  users open a window, press Pair, enter the pattern and approve. Only steps that
  cost no fault are fair, so nothing that may go wrong has to.
* `PhoneLifecycle`: the UI thread works off its queue and returns from `open()`,
  a delayed runnable runs, and a thread that has failed reports it.
* `Launcher`: a child takes its next step, and the window polls `host_status`
  while it shows a child that is gone (the timer of the web page).
* `Route`: a process that is inside a call goes on, no host runs for ever, the
  launcher is opened again, the phone plugged in again and an address leased
  again. Without the last three nobody is there to undo what a dead host left, or
  nothing to undo it on.

## 4. Proofs

Eight modules hold proofs that TLAPS checks for every value of the constants, under
the named assumptions of the modules they extend: bounds are natural numbers, ring,
window and word sizes are positive, the send window fits the ring, `NoTouch` is a
snapshot and markers such as `Partial` and `NoFrame` are not. None of the
properties below is inductive. Each module defines an `IInv` that is,
proves `Init => IInv` and `IInv /\ [Next]_vars => IInv'` with one lemma or step per
action, and derives the listed theorems. Every `IInv` was also checked with TLC on
the bounds of its run.

**`V5SessionProofs`** begins with lemmas on `push` and `commit_ready` of
`OrderedFrames`, of which `PushWellFormed` and `CommitReadyWellFormed` are results of
their own: a buffered frame sits in the slot of its sequence, inside the window, and
belongs to the window's session. `LegacyV4Proofs`, about the other user of the
window, has its own copy of the five lemmas it needs. The theorems about the session are
`TypeCorrect` (only complete snapshots are queued, buffered
and committed), `Order` (`AppliedInOrder`), `Acknowledgement`
(`AckedMeansApplied`), `NoResumption` (`SessionNeverResumed`, an action property)
and `HeldCorrect` (`HeldFollowsSession`). `IInv` adds to them:

* `PhoneInv`: logs are empty until the session's HELLO, and a channel is a
  connection the host answered;
* `ToHostInv`: a TOUCH in flight carries a frame of its session's log, and is
  `Settled`: if its session has commits, then the record belongs to a connection
  before the current one, or the window is still in that session, or the host
  serves nobody. This is what forbids a repaired CANCEL to restart a session,
  although the window itself has no memory of sessions it left: only a fresh
  connection brings the host back, and old records do not open there;
* `ToPhoneInv`: an ACK in flight counts commits of its session;
* `WindowInv`: in a session, the cursor counts the commits and the ring holds
  frames of the log; outside, the window is empty and requires a fresh start.

A second invariant, `WInv`, extends the first by what a record tells about its
sender: every connection answers one exchange of the phone (`BindingInv`, with an
existential function from connections to sessions that no variable holds); the
window is in the session of its connection (`RingInv`); a frame in flight is less
than a send window past the commits of its session (`SendInv`), because the phone
sends within a window of its first unacknowledged frame and an ACK follows the
commit; a PING belongs to a session the host owns and a PONG answers a PING
that was sent (`PingInv`, `ReplyInv`). From it follow `NoNewFrameDropped`
(`RingNeverDropsNewFrames`), `ProtocolErrorFree` (`NoProtocolError`) and
`ImplementsStream`: `Spec => StreamSpec`, the refinement of `FrameStream`, step by
step.

**`RecordChannelProofs`**: `FreshNonces` (`NonceIsFresh`), `NeverTwice`
(`OpenedOnce`) and `ExactWindow` (`WindowIsExact`), for any word size and number of
words. `Numbering` ties a record's number to the attempt that sealed it; `Memory`
says that below the highest number the bitmap is exactly the set of records opened
and above it nothing was opened. The work is in the lemmas about the shift, which
moves bits inside and across words.

**`PairingProofs`**: `StoredAfterHost` (`PhoneStoresAfterHost`), `ComparedBeforeSaved`
(`SavedMeansCompared`) and `ApprovedBeforeSaved` (`SavedMeansApproved`, an action
property), for any number of phones, windows, attempts, commands and faults, over
USB or Wi-Fi. `HostKnows` and `PhoneOwns` say what the two programs know at each place,
`NetTells` that a confirmation or completion in flight was sent after what it
announces, `Ceremony` that the history is in order, `PinnedOwned` that a stored
host answered this phone's own exchange.

**`PhoneLifecycleProofs`**: `NeverForgotten` (`NothingForgotten`) and
`OnlyItsOwnEnds` (`EndsByItsOwn`, an action property), for any number of transports, sessions
and helper threads. `SessionInv`: an object and a generation name one session;
`ObjectInv`: what a transport has installed comes from the session it is in;
`ResourceInv`: what is open is installed; `UiInv`: the activity keeps the busy
transport; `PostInv`: a callback that ends a pairing finds its transport idle,
since a transport that pairs has one session only.

**`LauncherProofs`**: `ApprovalReachesItsWindow` (`ApprovalForThisWindow`),
`LeavesNothingBehind` (`NothingLeftBehind`) and `PairingShownIsStored`
(`PairedAgreesWithStore`), for any number of children, launches and kills, on
Windows and Linux. `SpawnInv`: children are numbered in the order of the launchers
that started them, and only the last may be alive; `StageInv`: what a process has
said fits how far it came; `BehindInv`: the running launcher has let go of its other
children; `ApproveInv`: an approval is on offer only for the window that confirmed;
`PairedInv`: the word of a completed window is in the pipe, the mailbox or the
state. The interesting step is a window of an earlier launcher that saves late:
its order in `SpawnInv` shows that the running launcher cannot yet have a completed
window of its own.

**`NetworkManagerProofs`**: `RestoredIsOriginal` (`RestoredMeansOriginal`),
`OkIsApplied` (`OkMeansApplied`) and `NothingOverwritten` (`OthersPreserved`, an
action property), for any number of failing calls and events. `PlaceInv` says which call belongs to which phase,
`VersionInv` that a version number that is still current vouches for the values
read with it, `WantInv` that a rollback writes what was read at the beginning, and
`CalmInv`, while nobody interferes, that what was read is still so and
that a rollback without an error has put back what it passed.

**`RoutePolicyProofs`**: what hosts and the launcher do to one adapter, for any
number of hosts and families, deaths, failing calls and events, in any order.

* Whatever happens: `TypeCorrect`; `FlagCovered`, the flag half of
  `JournalCoversDamage` (`FlagInJournal`): a flag that a host set, dead or alive, is
  in the journal as one to clear; `OneTransaction`: a family never has two entries;
  `OriginalKept` (`OriginalIsOriginal`, an action property); `UserFlagUntouched`: no
  step clears a flag the user set or leaves one the policy set as the user's.
* While nothing happens outside, however many processes die and calls fail:
  `DeathsCovered`, all of `JournalCoversDamage`, routes included, whether or not the
  gateway of the family can be read.
* When nothing dies or fails either: `CalmStopRestores` (`StopRestores`), for any
  number of hosts that serve, stop and take turns.

There are three layers. `IInv` holds always. `KnownInv`: every entry in the journal
or in the memory of a process tells the user's own setting of the flag. That is why it
does not matter that a process works with entries it read long ago. `CoverInv`: a set flag
has an entry that nobody is about to forget, so that of two processes that undo the
same dead host none forgets what the other has still to clear. `OneEntry`, and per
process `Fits` (what it is doing fits how it came to do it), `Owns` (it undoes its
own entries or a dead host's, and captures and serves only with the port bound) and
`Finishes` (a family is captured only when nothing of it is left in the journal).
`QuietInv` is about the routes: `RoutesHeld`, an entry names all the routes a family
has or would have but for the policy (`Reach`), and `KnowsRoutes`, no process
remembers a leased route the family does not have, an undo will put back what it can
and reports the rest, and an entry is forgotten only when nothing is missing.
`CalmInv` adds that what is damaged is `Pending` in the hands of a living host, whose
last pass (`LastPass`) takes all it has, and that an undo leaves nothing (`Undoes`).
The last two were checked with TLC on two hosts with an IPv4 and an IPv6 family, one
of them unreadable, and on three hosts with one family, with one death or failure
(`QuietInv` with up to three).

**`LegacyV4Proofs`**: `HeldCorrect` (`HeldFollowsSession`), `OneAdapter`
(`OneAdapterPerWindow`) and `Acknowledgement` (`AckedMeansApplied`). `NetInv` and
`PhoneInv` say what datagrams and the phone know of applied frames as long as the
host has not restarted, `WindowInv` that the ring holds what the phone said,
`HostInv` that between frames the OS holds what the frame before the cursor said,
`SeenInv` that a window is fed through one adapter, and `BudgetInv` relates the
adapter to the replugs.

Proving changed the models in four places, none of them in what the code does.
`Resolved` of `NetworkManagerPolicy` and `Submissions` of `KeyboardSink` had CASE
expressions with overlapping guards, where TLA+ leaves the choice open and TLC takes
the first; the guards are now disjoint. `Launcher` folded the last lines of an ended child
into the state at once; now the readers pass them on one by one before the child is
reaped, as `reap_child`, which joins them, does. `RoutePolicy` merged partial
records into a process's state with `@@`; a step now names the fields it changes, every
field has a type, and the history is two variables instead of one.

Only model-checked:

* liveness (`EventuallyMirrors`, `KeysSettle`, `BothPaired`, `Reconnects`,
  `OrphanStops`, `StopFinishes`, `OrphansRecovered`), which needs fairness;
* the keyboard (`BeliefMatchesOs`, `KeysFollowFingers`, `SlideHasNoGap`,
  `SharedLaneStaysDown`, `RepressWaits`): planning and submission fold over contacts, lanes
  and events, and what a fold computes for every input needs an induction the
  installed provers cannot instantiate;
* the routes half of `JournalCoversDamage` when the network changes meanwhile. The
  run `Route` shows it for one event anywhere; it is not a theorem, because with two
  events it is false (see the observation on `windows.rs:593` below). The flag half
  holds for any number of events (`FlagCovered`).

## 5. Findings

* `V5Abort`. A comment in `V5Transport.handleHostControl` says of a host abort
  that "the host already released input". `serve_gameplay` sends the abort first
  and releases afterwards, and the release may be refused. The consequence is
  small: the phone starts a new handshake, which the host answers only after
  the release.
* `KeysRetry`. A comment in `KeyboardSink::accept_at` says that the retry's flush
  finishes a partial emission. On uinput, after an odd write, the retry must begin
  with the unsynchronized transition, but an edge that waits ahead of it in the
  spacer's queue may have become due, and then every retry is refused until
  the stall timeout cancels the session's input. `KeysSettle` of the run `Keys`
  shows that the cancellation repairs the key state.

Observed while modelling, without a run of their own. Each is excluded from the
passing runs by the bound or condition named, so that the runs say something
about everything else:

* `windows.rs:763`: the gateway that a restored route must match is read from the
  adapter's IPv4 configuration only, so a deleted IPv6 default route stays
  unconfirmed, and is not recreated unless another one through it has appeared. `Route` has the IPv4 family only; `FamilyOrder` and `Readable` are
  the parameters that bring the other one in.
* `windows.rs:753`: a default route that a user added by hand, to a gateway that no
  lease names, is deleted and then counts as stale, so it is not restored. `Route`
  has `Leases = Gateways`.
* `windows.rs:593`: `restore_snapshot` judges the captured gateway stale from the
  lease it reads, and only later clears the flag and forgets the entry. If a lease
  for that gateway arrives in between, while the flag still keeps Windows from
  making its default route, the route is made by neither and nothing remembers it. It
  takes two changes of the lease around one undo; `Route` has `MaxEnv = 1`.
* `V5Transport.java:1167`: a late second copy of HOST_SAS_COMMITMENT ends the phone's
  exchange, although `PROTOCOL_V5.md:135` says that a retransmitted step is still the
  same attempt.
  In `Pairing` it costs a fault (`PhoneUnexpected`).
* `v5_host.rs:215`: the last loop of `pair()` remembers an approval that comes before
  the phone has confirmed, and one that `wait_for_application` did not get to
  drop before the pattern. `SavedMeansApproved` asks for any approval of the
  window; what keeps an early one away is the launcher's button
  (`ApprovalForThisWindow`).
* `V5Transport.java:316`: after the queue overflowed and before the watchdog's next turn,
  acknowledgements may make room, and the session goes on with later frames behind the
  dropped one, although the comment says that the snapshot is reconstructed only after
  a fresh handshake. In `V5Recovery` this happens (a heartbeat), and the session ends all the same.
* `credentials.rs:205`: the file is truncated and written in place. A host that dies in
  between leaves a file that `load` rejects. `PairedAgreesWithStore` admits that file.
* `windows.rs:1845`: an owner whose PID now belongs to a process that may not be queried
  makes recovery fail, not defer, for as long as that process runs. In `RoutePolicy`
  such a query fails within `MaxFail`.
* `protocol.rs:405` against `PROTOCOL_V4.md:198`: in v4 a late start frame of a session
  the host has given up revives it. `LegacyV4` promises nothing about a given-up
  session beyond `HeldFollowsSession`.
* `protocol.rs:406` against `PROTOCOL_V4.md:9`: a restarted v4 host takes up a session
  in its middle and its cumulative ACK covers frames it never applied.
  `AckedMeansApplied` of `LegacyV4` is conditional on no restart.
* `linux_network_manager.rs:494`: when the check of the device after the profile was
  updated itself fails, `set_enabled` returns that error without rolling back; the result is then
  neither `ok` nor `restored`.
* `linux_network_manager.rs:623` against `LINUX_SETUP.md:175`: the rollback recognises
  its own changes by their values, so the same values set by another client
  meanwhile are undone too. `RestoredMeansOriginal` is conditional on `calm`.
* `MainActivity.java:163`: a late `onConnectionChanged(false)` of an old transport
  shows "Reconnecting" over a connected pad until the next callback. This is
  display only and not part of the model's state.

## 6. Not modelled, and the plan

Not modelled for good: drawing and layout, key names and device setup, OS
queries (the classification in `tether.rs`, `V5NetworkBinding`), codecs of headers
and payloads, cryptography inside Noise and the AEAD, option parsing, string and
registry encodings, window management and elevation, metrics and diagnostics,
which only observe.

Left for later:

1. `V5SendQueue`: the repair schedule of `next()` and `nanosUntilSend()`, with
   starvation of fresh frames and of repairs as its questions.
2. `Watchdogs`: the 32 ms, 64 ms, 2 s and 8 ms deadlines on one clock. The other
   modules let a watchdog fire at any check.
3. `TouchInjector` as a second sink behind the same commit loop; the hysteresis
   of `PressureFilter`.

Theorems worth proving next: for the keyboard, lemmas about single edges of
`RepressSpacer` that need no fold.
