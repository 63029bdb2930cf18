------------------------------ MODULE V5Session ------------------------------
(***************************************************************************)
(* Protocol-v5 gameplay: the phone's V5Transport, the host's controller    *)
(* (run_v5_controller around accept_remembered and serve_gameplay) and the *)
(* UDP path between them.                                                  *)
(*                                                                         *)
(* Each remembered-peer IK handshake makes a connection with keys of its   *)
(* own; a record is only opened by the peer that holds the same keys, so   *)
(* every record carries the connection it was sealed for and no action     *)
(* takes a record of another connection.  The path loses, repeats and      *)
(* reorders datagrams: toHost and toPhone are the datagrams that may still *)
(* arrive, taking one does not remove it, and Lose drops one.  (That one   *)
(* sealed record is opened only once is the subject of the replay window,  *)
(* not of this module: repairs of a frame are new records.)                *)
(*                                                                         *)
(* Time is not modelled: a watchdog may fire whenever the code checks it.  *)
(* A watchdog, a refused OS call, an interface change or a late duplicate  *)
(* of a handshake that disturbs a healthy peer costs one fault of the      *)
(* budget MaxFaults; one that fires because the peer is really gone is     *)
(* free, since the code does not run out of timers.  A touch beyond        *)
(* MaxTouches draws on the same budget: that is how the queue overflows.   *)
(***************************************************************************)
EXTENDS OrderedFrames, Sequences

CONSTANTS
  NoTouch,          \* the snapshot without a touching contact
  Partial,          \* the OS took some, not all, of a frame's events
  SendWindow,       \* RECEIVE_WINDOW advertised in every host control (128)
  QueueCapacity,    \* MAX_HOST_WINDOW, the frames the phone retains (256)
  MaxGenerations,   \* bound: sessions the phone may open
  MaxConnections,   \* bound: handshakes the host may answer
  MaxTouches,       \* bound: snapshots the touch screen delivers without a fault
  MaxFrames,        \* bound: frames of one session, heartbeats included
  MaxPings,         \* bound: idle pings of one session
  MaxFaults,        \* bound: faults of a healthy link, losses and extra touches included
  MaxLosses         \* bound: datagrams the path drops for good

ASSUME TouchAssumption == NoTouch \in Touch /\ Partial \notin Touch
ASSUME SizeAssumption ==
  /\ SendWindow \in Nat \ {0} /\ QueueCapacity \in Nat \ {0}
  /\ SendWindow <= RingSize
ASSUME BoundAssumption ==
  /\ MaxGenerations \in Nat /\ MaxConnections \in Nat /\ MaxTouches \in Nat
  /\ MaxFrames \in Nat \ {0} /\ MaxPings \in Nat /\ MaxFaults \in Nat
  /\ MaxLosses \in Nat

VARIABLES
  link,        \* phone: "closed", "searching", "connected" or "quit"
  generation,  \* phone: number of the open session; exchange id and session id
  channel,     \* phone: connection of the installed channel, 0 for none
  hostReady,   \* phone: HELLO was handled, hence also sessionStarted
  log,         \* phone: per generation, the snapshots enqueued as frames 0, 1, ...
  head,        \* phone: first unacknowledged sequence (highestAcknowledged + 1)
  retained,    \* phone: latest complete contact snapshot
  overflowed,  \* phone: queueOverflowed
  nextPingId,  \* phone
  phase,       \* host: where the controller loop is
  connection,  \* host: number of handshakes answered = current connection
  exchange,    \* host: the phone exchange the current connection answers
  ordered,     \* host: the receive window
  cached,      \* host: cached_handshake still holds the answer to exchange
  progressed,  \* host: the commit loop in progress committed a frame
  lastAck,     \* host: cumulative ACK sent last on this connection
  held,        \* host: what the OS holds down for us
  committed,   \* host: per session, the snapshots the sink accepted, in order
  stopping,    \* host: SHUTDOWN_REQUESTED
  toHost, toPhone,
  touches, faults, losses

phoneVars == <<link, generation, channel, hostReady, log, head, retained, overflowed, nextPingId>>
hostVars == <<phase, connection, exchange, cached, ordered, progressed, lastAck, held, committed, stopping>>
netVars == <<toHost, toPhone, losses>>
vars == <<phoneVars, hostVars, netVars, touches, faults>>

Generations == 1 .. MaxGenerations
NeverAcked == -2
Phases == {"waiting", "accepted", "serving", "committing", "ending", "stopped"}

(* Record headers: type, connection keys, session id, logical id, payload. *)
Record(type, conn, session, id, touch) ==
  [type |-> type, conn |-> conn, session |-> session, id |-> id, touch |-> touch]
PhoneTypes == {"IK_MESSAGE_1", "TOUCH", "PING", "PHONE_ABORT"}
HostTypes == {"IK_CONTINUE", "HELLO", "ACK", "PONG", "HOST_ABORT"}
Records(types) == [type : types, conn : Nat, session : Nat, id : Int, touch : Touch]

PhoneTypeOK ==
  /\ link \in {"closed", "searching", "connected", "quit"}
  /\ generation \in 0 .. MaxGenerations
  /\ channel \in Nat
  /\ hostReady \in BOOLEAN
  /\ log \in [Generations -> Seq(Touch)]
  /\ head \in Nat
  /\ retained \in Touch
  /\ overflowed \in BOOLEAN
  /\ nextPingId \in Nat

HostTypeOK ==
  /\ phase \in Phases
  /\ connection \in Nat
  /\ exchange \in Nat
  /\ cached \in BOOLEAN
  /\ ordered \in Window
  /\ progressed \in BOOLEAN
  /\ lastAck \in Int
  /\ held \in Touch \cup {Partial}
  /\ committed \in [Generations -> Seq(Touch)]
  /\ stopping \in BOOLEAN

NetTypeOK ==
  /\ toHost \subseteq Records(PhoneTypes)
  /\ toPhone \subseteq Records(HostTypes)
  /\ touches \in Nat
  /\ faults \in Nat
  /\ losses \in Nat

(* Only complete snapshots are ever queued, buffered or committed.         *)
TypeOK == PhoneTypeOK /\ HostTypeOK /\ NetTypeOK

------------------------------------------------------------------------------
(* Who is still there, as an omniscient observer sees it.                  *)
HostLeft == connection # channel \/ phase \notin {"accepted", "serving", "committing"}
PhoneLeft == connection # channel /\ ~(link = "searching" /\ generation = exchange)

(* Spends a fault unless the event is free.                                *)
Fault(free) ==
  IF free THEN UNCHANGED faults ELSE faults + losses < MaxFaults /\ faults' = faults + 1

ToHost(m) == toHost' = toHost \cup {m} /\ UNCHANGED <<toPhone, losses>>
ToPhone(m) == toPhone' = toPhone \cup {m} /\ UNCHANGED <<toHost, losses>>

Init ==
  /\ link = "closed" /\ generation = 0 /\ channel = 0 /\ hostReady = FALSE
  /\ log = [g \in Generations |-> <<>>] /\ head = 0 /\ retained = NoTouch
  /\ overflowed = FALSE /\ nextPingId = 0
  /\ phase = "waiting" /\ connection = 0 /\ exchange = 0 /\ cached = FALSE
  /\ ordered = NewWindow
  /\ progressed = FALSE /\ lastAck = NeverAcked /\ held = NoTouch
  /\ committed = [g \in Generations |-> <<>>] /\ stopping = FALSE
  /\ toHost = {} /\ toPhone = {} /\ touches = 0 /\ faults = 0 /\ losses = 0

------------------------------------------------------------------------------
(* The phone.                                                              *)

NextSequence == Len(log[generation])
Pending == NextSequence - head

(* Mutant of Enqueue: a full queue drops the frame and keeps quiet.        *)
EnqueueDropsQuietly(touch) ==
  /\ log' = IF Pending >= QueueCapacity THEN log
            ELSE [log EXCEPT ![generation] = Append(log[generation], touch)]
  /\ UNCHANGED overflowed

(* enqueueFrameLocked(): a full queue drops the frame and says so.         *)
Enqueue(touch) ==
  IF Pending >= QueueCapacity
  THEN overflowed' = TRUE /\ UNCHANGED log
  ELSE /\ log' = [log EXCEPT ![generation] = Append(log[generation], touch)]
       /\ UNCHANGED overflowed

(* open(): Start, or the reconnect timer of MainActivity.                  *)
PhoneOpen ==
  /\ link = "closed" /\ generation < MaxGenerations
  /\ link' = "searching" /\ generation' = generation + 1
  /\ UNCHANGED <<channel, hostReady, log, head, retained, overflowed, nextPingId,
                 hostVars, netVars, touches, faults>>

(* establishRemembered(): (re)send IK message 1 of this attempt.           *)
PhoneSearch ==
  /\ link = "searching"
  /\ ToHost(Record("IK_MESSAGE_1", 0, generation, 0, NoTouch))
  /\ UNCHANGED <<phoneVars, hostVars, touches, faults>>

(* establishRemembered(): the answer to this attempt installs a channel.   *)
PhoneContinue(m) ==
  /\ link = "searching" /\ m.type = "IK_CONTINUE" /\ m.session = generation
  /\ link' = "connected" /\ channel' = m.conn
  /\ UNCHANGED <<generation, hostReady, log, head, retained, overflowed, nextPingId,
                 hostVars, netVars, touches, faults>>

(* Mutant of PhoneHello: fingers already down are not reconstructed.       *)
PhoneHelloCancelOnly(m) ==
  /\ link = "connected" /\ m.type = "HELLO" /\ m.conn = channel /\ ~hostReady
  /\ hostReady' = TRUE /\ head' = 0
  /\ log' = [log EXCEPT ![generation] = <<NoTouch>>]
  /\ UNCHANGED <<link, generation, channel, retained, overflowed, nextPingId,
                 hostVars, netVars, touches, faults>>

(* handleHostControl(), first HELLO: queue the session-start CANCEL and,   *)
(* while a contact is down, the reconstruction behind it.                  *)
PhoneHello(m) ==
  /\ link = "connected" /\ m.type = "HELLO" /\ m.conn = channel /\ ~hostReady
  /\ hostReady' = TRUE /\ head' = 0
  /\ log' = [log EXCEPT ![generation] =
                IF retained = NoTouch THEN <<NoTouch>> ELSE <<NoTouch, retained>>]
  /\ UNCHANGED <<link, generation, channel, retained, overflowed, nextPingId,
                 hostVars, netVars, touches, faults>>

(* handleHostControl(), ACK: retire the acknowledged frames.               *)
PhoneAck(m) ==
  /\ link = "connected" /\ m.type = "ACK" /\ m.conn = channel
  /\ hostReady /\ m.session = generation
  /\ m.id >= head /\ m.id < NextSequence
  /\ head' = m.id + 1
  /\ UNCHANGED <<link, generation, channel, hostReady, log, retained, overflowed, nextPingId,
                 hostVars, netVars, touches, faults>>

(* offerFrame(): always retain, enqueue once the session started.          *)
OfferFrame(touch) ==
  /\ link # "quit" /\ Fault(touches < MaxTouches)
  /\ touches' = touches + 1
  /\ retained' = touch
  /\ IF link = "connected" /\ hostReady THEN Enqueue(touch)
     ELSE UNCHANGED <<log, overflowed>>
  /\ UNCHANGED <<link, generation, channel, hostReady, head, nextPingId,
                 hostVars, netVars>>

(* maybeEnqueueHeartbeatLocked().                                          *)
WriterHeartbeat ==
  /\ link = "connected" /\ hostReady /\ retained # NoTouch /\ Pending = 0
  /\ NextSequence < MaxFrames
  /\ Enqueue(retained)
  /\ UNCHANGED <<link, generation, channel, hostReady, head, retained, nextPingId,
                 hostVars, netVars, touches, faults>>

(* Mutant of Sendable: the advertised window is ignored.                   *)
SendableWholeQueue(n) == head <= n /\ n < NextSequence

(* The frames writerLoop() may select: the first hostWindow of the queue.  *)
Sendable(n) == head <= n /\ n < NextSequence /\ n < head + SendWindow

(* writerLoop(): an immediate copy or a repair of frame n.                 *)
WriterSend(n) ==
  /\ link = "connected" /\ hostReady /\ Sendable(n)
  /\ ToHost(Record("TOUCH", channel, generation, n, log[generation][n + 1]))
  /\ UNCHANGED <<phoneVars, hostVars, touches, faults>>

(* Mutant of WriterPing: PING before the first ACK.                        *)
WriterPingAtOnce ==
  /\ link = "connected" /\ hostReady
  /\ retained = NoTouch /\ nextPingId < MaxPings
  /\ nextPingId' = nextPingId + 1
  /\ ToHost(Record("PING", channel, generation, nextPingId, NoTouch))
  /\ UNCHANGED <<link, generation, channel, hostReady, log, head, retained, overflowed,
                 hostVars, touches, faults>>

(* writerLoop(): an idle PING, once the host is known to own the session.  *)
WriterPing ==
  /\ link = "connected" /\ hostReady
  /\ retained = NoTouch /\ Pending = 0 /\ head > 0
  /\ nextPingId < MaxPings
  /\ nextPingId' = nextPingId + 1
  /\ ToHost(Record("PING", channel, generation, nextPingId, NoTouch))
  /\ UNCHANGED <<link, generation, channel, hostReady, log, head, retained, overflowed,
                 hostVars, touches, faults>>

(* closeInternal(): reset, and tell the host when there is a channel.      *)
CloseSession(newLink) ==
  /\ link' = newLink /\ channel' = 0 /\ hostReady' = FALSE /\ head' = 0
  /\ overflowed' = FALSE /\ nextPingId' = 0
  /\ IF channel = 0 THEN UNCHANGED netVars
     ELSE ToHost(Record("PHONE_ABORT", channel, 0, 0, NoTouch))
  /\ UNCHANGED <<generation, log, retained, hostVars, touches>>

(* The host's abort ends the session at once.                              *)
PhoneHostAbort(m) ==
  /\ link = "connected" /\ m.type = "HOST_ABORT" /\ m.conn = channel
  /\ CloseSession("closed") /\ UNCHANGED faults

(* checkHostTimeout(), the handshake and HELLO deadlines, a lost interface *)
(* or a failed send.                                                       *)
PhoneFails ==
  /\ link \in {"searching", "connected"}
  /\ Fault(link = "connected" /\ (overflowed \/ HostLeft))
  /\ CloseSession("closed")

(* The user leaves the pad: stopCurrent() closes and nothing reopens.      *)
PhoneQuit ==
  /\ link # "quit"
  /\ CloseSession("quit") /\ UNCHANGED faults

------------------------------------------------------------------------------
(* The host.                                                               *)

phoneUnchanged == UNCHANGED <<phoneVars, touches>>

(* accept_remembered(): answer an IK message 1.  A request the phone no    *)
(* longer waits on is a late duplicate.                                    *)
HostAccept(m) ==
  /\ phase = "waiting" /\ m.type = "IK_MESSAGE_1" /\ connection < MaxConnections
  /\ Fault(link = "searching" /\ m.session = generation)
  /\ phase' = "accepted" /\ connection' = connection + 1 /\ exchange' = m.session
  /\ cached' = TRUE
  /\ ToPhone(Record("IK_CONTINUE", connection + 1, m.session, 0, NoTouch))
  /\ UNCHANGED <<ordered, progressed, lastAck, held, committed, stopping>>
  /\ phoneUnchanged

(* run_v5_controller(): the interface changed after authentication.        *)
HostRevalidateFails ==
  /\ phase = "accepted" /\ Fault(FALSE)
  /\ phase' = "waiting"
  /\ UNCHANGED <<connection, exchange, cached, ordered, progressed, lastAck, held, committed, stopping,
                 netVars>>
  /\ phoneUnchanged

(* serve_gameplay() up to its loop: a fresh window and the first HELLO.    *)
HostServe ==
  /\ phase = "accepted"
  /\ phase' = "serving" /\ ordered' = RequireFreshSession
  /\ progressed' = FALSE /\ lastAck' = NeverAcked
  /\ ToPhone(Record("HELLO", connection, NoSession, NoAck, NoTouch))
  /\ UNCHANGED <<connection, exchange, cached, held, committed, stopping, faults>>
  /\ phoneUnchanged

(* Mutant of HostRepairHello: HELLO is repaired only once it is not needed. *)
HostRepairHelloLate ==
  /\ phase = "serving" /\ ordered.session # NoSession /\ ~stopping
  /\ ToPhone(Record("HELLO", connection, NoSession, NoAck, NoTouch))
  /\ UNCHANGED <<hostVars, faults>>
  /\ phoneUnchanged

(* serve_gameplay_inner(): repair HELLO until sequence zero arrives.       *)
HostRepairHello ==
  /\ phase = "serving" /\ ordered.session = NoSession /\ ~stopping
  /\ ToPhone(Record("HELLO", connection, NoSession, NoAck, NoTouch))
  /\ UNCHANGED <<hostVars, faults>>
  /\ phoneUnchanged

(* receive_record_into(): the cached answer to a repeated IK message 1.    *)
HostResendContinue(m) ==
  /\ phase = "serving" /\ ~stopping /\ cached
  /\ m.type = "IK_MESSAGE_1" /\ m.session = exchange
  /\ ToPhone(Record("IK_CONTINUE", connection, exchange, 0, NoTouch))
  /\ UNCHANGED <<hostVars, faults>>
  /\ phoneUnchanged

(* decode_touch_payload(): only sequence zero starts a session.            *)
FrameOf(m) ==
  [session |-> m.session, sequence |-> m.id, start |-> m.id = 0, touch |-> m.touch]

(* process_gameplay_frame() up to its commit loop.  The branch that fails  *)
(* on a second session is unreachable: see NoProtocolError.                *)
HostTouch(m) ==
  /\ phase = "serving" /\ ~stopping /\ m.type = "TOUCH" /\ m.conn = connection
  /\ ordered.session \in {NoSession, m.session}
  /\ ordered' = Push(ordered, FrameOf(m))
  /\ cached' = FALSE /\ phase' = "committing" /\ progressed' = FALSE
  /\ UNCHANGED <<connection, exchange, lastAck, held, committed, stopping, netVars, faults>>
  /\ phoneUnchanged

(* commit_ready(): the sink accepts the next frame, then the cursor moves. *)
HostCommit ==
  /\ phase = "committing" /\ NextReady(ordered)
  /\ held' = HeadFrame(ordered).touch
  /\ committed' = [committed EXCEPT ![ordered.session] =
                      Append(committed[ordered.session], HeadFrame(ordered).touch)]
  /\ ordered' = CommitReady(ordered) /\ progressed' = TRUE
  /\ UNCHANGED <<phase, connection, exchange, cached, lastAck, stopping, netVars, faults>>
  /\ phoneUnchanged

(* notify_session_end() and the require_fresh_session() after it; the      *)
(* release of the input follows in "ending".                               *)
EndSession ==
  /\ phase' = "ending" /\ ordered' = RequireFreshSession
  /\ UNCHANGED <<connection, exchange, cached, progressed, lastAck, committed, stopping>>
NotifyEnd == ToPhone(Record("HOST_ABORT", connection, ordered.session, 0, NoTouch))

(* Mutant of HostSinkRefuses: a partial submission counts as a commit.     *)
HostSinkPartlyCommits ==
  /\ phase = "committing" /\ NextReady(ordered) /\ Fault(FALSE)
  /\ held' = Partial
  /\ committed' = [committed EXCEPT ![ordered.session] =
                      Append(committed[ordered.session], Partial)]
  /\ ordered' = CommitReady(ordered) /\ progressed' = TRUE
  /\ UNCHANGED <<phase, connection, exchange, cached, lastAck, stopping, netVars>>
  /\ phoneUnchanged

(* commit_ready(): the OS kept refusing the frame, or took part of it.     *)
HostSinkRefuses ==
  /\ phase = "committing" /\ NextReady(ordered) /\ Fault(FALSE)
  /\ {held, HeadFrame(ordered).touch} # {NoTouch}   \* else nothing is submitted
  /\ held' \in {held, Partial}
  /\ EndSession /\ NotifyEnd
  /\ phoneUnchanged

(* process_gameplay_frame() after its commit loop: acknowledge ...         *)
HostAck ==
  /\ phase = "committing" /\ ~NextReady(ordered) /\ ordered.session # NoSession
  /\ phase' = "serving" /\ lastAck' = AcknowledgedSequence(ordered)
  /\ ToPhone(Record("ACK", connection, ordered.session, AcknowledgedSequence(ordered), NoTouch))
  /\ UNCHANGED <<connection, exchange, cached, ordered, progressed, held, committed, stopping, faults>>
  /\ phoneUnchanged

(* ... unless there is no session yet, or the same ACK just left.          *)
HostSkipAck ==
  /\ phase = "committing" /\ ~NextReady(ordered)
  /\ \/ ordered.session = NoSession
     \/ ~progressed /\ lastAck = AcknowledgedSequence(ordered)
  /\ phase' = "serving"
  /\ UNCHANGED <<connection, exchange, cached, ordered, progressed, lastAck, held, committed, stopping,
                 netVars, faults>>
  /\ phoneUnchanged

(* serve_gameplay_inner(): answer an idle PING of the owned session.       *)
HostPing(m) ==
  /\ phase = "serving" /\ ~stopping /\ m.type = "PING" /\ m.conn = connection
  /\ m.session = ordered.session
  /\ ToPhone(Record("PONG", connection, m.session, m.id, NoTouch))
  /\ cached' = FALSE
  /\ UNCHANGED <<phase, connection, exchange, ordered, progressed, lastAck, held, committed, stopping,
                 faults>>
  /\ phoneUnchanged

(* serve_gameplay_inner(): the phone said goodbye; no abort goes back.     *)
HostPhoneAbort(m) ==
  /\ phase = "serving" /\ ~stopping /\ m.type = "PHONE_ABORT" /\ m.conn = connection
  /\ EndSession
  /\ UNCHANGED <<held, netVars, faults>>
  /\ phoneUnchanged

(* serve_gameplay_inner(): the session-start deadline, the 32 ms active or *)
(* 2 s idle silence, a changed interface or a failed send.                 *)
HostFails ==
  /\ phase = "serving" /\ Fault(PhoneLeft)
  /\ EndSession /\ NotifyEnd
  /\ UNCHANGED held
  /\ phoneUnchanged

(* serve_gameplay_inner(): the loop sees the stop request.                 *)
HostStops ==
  /\ phase = "serving" /\ stopping
  /\ EndSession /\ NotifyEnd
  /\ UNCHANGED <<held, faults>>
  /\ phoneUnchanged

(* Mutant of HostReleases: recovery goes on with the same connection.      *)
HostReleasesInPlace ==
  /\ phase = "ending"
  /\ held' = NoTouch /\ phase' = IF stopping THEN "stopped" ELSE "serving"
  /\ UNCHANGED <<connection, exchange, cached, ordered, progressed, lastAck, committed, stopping,
                 netVars, faults>>
  /\ phoneUnchanged

(* cancel_with_deadline() of serve_gameplay() and of the controller loop:  *)
(* the OS releases everything ...                                          *)
HostReleases ==
  /\ phase = "ending"
  /\ held' = NoTouch /\ phase' = IF stopping THEN "stopped" ELSE "waiting"
  /\ UNCHANGED <<connection, exchange, cached, ordered, progressed, lastAck, committed, stopping,
                 netVars, faults>>
  /\ phoneUnchanged

(* Mutant of HostReleaseRefused: listen again with input still down.       *)
HostReleaseGivesUp ==
  /\ phase = "ending" /\ held # NoTouch /\ Fault(FALSE)
  /\ held' \in {held, Partial}
  /\ phase' = IF stopping THEN "stopped" ELSE "waiting"
  /\ UNCHANGED <<connection, exchange, cached, ordered, progressed, lastAck, committed, stopping,
                 netVars>>
  /\ phoneUnchanged

(* ... or refuses, and the controller retries before it listens again; a   *)
(* stopping controller gives up with the error.                            *)
HostReleaseRefused ==
  /\ phase = "ending" /\ held # NoTouch /\ Fault(FALSE)
  /\ held' \in {held, Partial}
  /\ phase' = IF stopping THEN "stopped" ELSE "ending"
  /\ UNCHANGED <<connection, exchange, cached, ordered, progressed, lastAck, committed, stopping, netVars>>
  /\ phoneUnchanged

(* run_v5_controller(): the outer loop sees the stop request.              *)
HostExit ==
  /\ phase = "waiting" /\ stopping
  /\ phase' = "stopped"
  /\ UNCHANGED <<connection, exchange, cached, ordered, progressed, lastAck, held, committed, stopping,
                 netVars, faults>>
  /\ phoneUnchanged

(* stdin or a signal sets SHUTDOWN_REQUESTED.                              *)
RequestStop ==
  /\ ~stopping /\ stopping' = TRUE
  /\ UNCHANGED <<phase, connection, exchange, cached, ordered, progressed, lastAck, held, committed,
                 netVars, faults>>
  /\ phoneUnchanged

------------------------------------------------------------------------------
Lose ==
  /\ losses < MaxLosses /\ faults + losses < MaxFaults /\ losses' = losses + 1
  /\ \/ \E m \in toHost : toHost' = toHost \ {m} /\ UNCHANGED toPhone
     \/ \E m \in toPhone : toPhone' = toPhone \ {m} /\ UNCHANGED toHost
  /\ UNCHANGED <<phoneVars, hostVars, touches, faults>>

PhoneNext ==
  \/ PhoneOpen \/ PhoneSearch \/ PhoneFails \/ PhoneQuit
  \/ \E m \in toPhone : PhoneContinue(m) \/ PhoneHello(m) \/ PhoneAck(m) \/ PhoneHostAbort(m)
  \/ \E touch \in Touch : OfferFrame(touch)
  \/ WriterHeartbeat \/ WriterPing
  \/ \E n \in 0 .. MaxFrames + MaxTouches + MaxFaults : WriterSend(n)

HostNext ==
  \/ \E m \in toHost : HostAccept(m) \/ HostTouch(m) \/ HostPing(m) \/ HostPhoneAbort(m)
                       \/ HostResendContinue(m)
  \/ HostRevalidateFails \/ HostServe \/ HostRepairHello
  \/ HostCommit \/ HostSinkRefuses \/ HostAck \/ HostSkipAck
  \/ HostFails \/ HostStops \/ HostReleases \/ HostReleaseRefused \/ HostExit \/ RequestStop

Next == PhoneNext \/ HostNext \/ Lose

Spec == Init /\ [][Next]_vars

------------------------------------------------------------------------------
(* Safety.                                                                 *)

(* What the sink accepted in a session is a prefix of what the phone       *)
(* queued in it: every frame once, in order, starting at sequence zero,    *)
(* whatever the path lost, repeated or reordered.                          *)
AppliedInOrder ==
  \A g \in Generations :
    /\ Len(committed[g]) <= Len(log[g])
    /\ \A i \in 1 .. Len(committed[g]) : committed[g][i] = log[g][i]

(* The phone retires a frame only after the host's sink accepted it: an    *)
(* ACK covers commits, not arrivals, and never another session's.          *)
AckedMeansApplied == hostReady => head <= Len(committed[generation])

(* A frame at or after the cursor that reaches the serving host always     *)
(* finds its slot: the phone's send window never outruns the ring and no   *)
(* stale frame blocks a slot, so push() drops duplicates only.             *)
RingNeverDropsNewFrames ==
  \A m \in toHost :
    (/\ m.type = "TOUCH" /\ m.conn = connection
     /\ phase \in {"serving", "committing"} /\ m.session = ordered.session
     /\ m.id >= ordered.next)
    => Push(ordered, FrameOf(m)).buffered[SlotOf(m.id)] = FrameOf(m)

(* The OS holds exactly the last snapshot committed in the session being   *)
(* served, and nothing while no session is: input of an abandoned session  *)
(* never survives into the wait for the next one.                          *)
HeldFollowsSession ==
  /\ phase \in {"waiting", "accepted"} => held = NoTouch
  /\ phase \in {"serving", "committing"} =>
       held = IF ordered.session = NoSession \/ ordered.next = 0 THEN NoTouch
              ELSE committed[ordered.session][ordered.next]

(* Between correct peers the branches that treat an authenticated record   *)
(* as a protocol error are unreachable, although the phone pipelines live  *)
(* input behind the CANCEL: no frame of a second session, no PING before   *)
(* the host owns the session, no ACK or PONG of another session.           *)
NoProtocolError ==
  /\ \A m \in toHost :
       (phase = "serving" /\ m.conn = connection) =>
         /\ m.type = "TOUCH" => ordered.session \in {NoSession, m.session}
         /\ m.type = "PING" => ordered.session = m.session
  /\ \A m \in toPhone :
       (link = "connected" /\ m.conn = channel) =>
         /\ m.type = "ACK" => hostReady /\ m.session = generation /\ m.id < NextSequence
         /\ m.type = "PONG" => hostReady /\ m.session = generation /\ m.id < nextPingId

(* A session is joined at its beginning and never again: after the host    *)
(* left it, delayed or repaired frames, the CANCEL included, cannot bring  *)
(* it back to life.                                                        *)
SessionNeverResumed ==
  [][\A g \in Generations :
       ordered.session # g /\ ordered'.session = g => committed[g] = <<>>]_vars

(* The comment in handleHostControl() on a host abort: "The host already   *)
(* released input; restart now".                                           *)
AbortMeansReleased ==
  \A m \in toPhone :
    link = "connected" /\ m.type = "HOST_ABORT" /\ m.conn = channel => held = NoTouch

(* The protocol implements the stream that FrameStream describes.          *)
Stream == INSTANCE FrameStream WITH
  Item <- Touch, Session <- Generations, Nobody <- NoSession,
  produced <- log, consumed <- committed,
  producing <- IF hostReady THEN generation ELSE NoSession,
  consuming <- ordered.session,
  confirmed <- head
StreamSpec == Stream!Spec

------------------------------------------------------------------------------
(* Liveness.  The phone reopens, resends its request, repairs every frame  *)
(* of its window and notices a dead host; the host repairs HELLO, handles  *)
(* what keeps arriving, notices a dead phone and retries the release.  A   *)
(* datagram that is sent again and again gets through eventually.          *)
PhoneProgress == \E m \in toPhone : PhoneContinue(m) \/ PhoneHello(m) \/ PhoneAck(m)
HostProgress ==
  \E m \in toHost :
    \/ link = "searching" /\ m.session = generation /\ HostAccept(m)
    \/ m.id = head /\ HostTouch(m)

Fairness ==
  /\ WF_vars(PhoneOpen) /\ WF_vars(PhoneSearch)
  /\ WF_vars(PhoneFails /\ (overflowed \/ HostLeft))
  /\ WF_vars(WriterSend(head))
  /\ SF_vars(PhoneProgress) /\ SF_vars(HostProgress)
  /\ SF_vars(\E m \in toHost : HostResendContinue(m))
  /\ WF_vars(HostServe) /\ WF_vars(HostRepairHello)
  /\ WF_vars(HostCommit) /\ SF_vars(HostAck) /\ WF_vars(HostSkipAck)
  /\ SF_vars(HostFails /\ PhoneLeft) /\ WF_vars(HostStops)
  /\ WF_vars(HostReleases) /\ WF_vars(HostExit)

FairSpec == Spec /\ Fairness

(* Once the screen is quiet and the link has had its last fault, the host  *)
(* holds exactly what the fingers hold, for good: the snapshot survives    *)
(* abandoned sessions, and a phone that left does not keep a key down.     *)
EventuallyMirrors ==
  <>[](phase = "stopped" \/ held = IF link = "quit" THEN NoTouch ELSE retained)
==============================================================================
