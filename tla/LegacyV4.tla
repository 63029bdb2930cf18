------------------------------- MODULE LegacyV4 -------------------------------
(***************************************************************************)
(* The legacy protocol v4 over a USB tether: the phone's UdpTransport, the *)
(* host's UdpHost and UdpConnection, and the legacy loop of run() around   *)
(* serve_connection().  Nothing is authenticated: the host knows the phone *)
(* by its address, its session id and the tether adapter it was found on.  *)
(*                                                                         *)
(* Every open() of the phone draws a session id and a nonce and binds a    *)
(* new port, so one number stands for the three.  `adapter' is the present *)
(* identity of the tether: a replugged cable makes another one, and every  *)
(* datagram carries the adapter it arrives on (IP_PKTINFO).                *)
(*                                                                         *)
(* The path loses, reorders and repeats: a datagram waits in a set until   *)
(* it is taken, lost or dropped, and a taken one stays at the cost of a    *)
(* duplicate.  Time is not modelled: a watchdog may fire when the code     *)
(* checks it, at the cost of a fault unless the silence is real.           *)
(***************************************************************************)
EXTENDS OrderedFrames, Sequences, FiniteSets

CONSTANTS
  NoTouch,       \* the snapshot without a touching contact
  Partial,       \* the OS took some, not all, of a frame's events
  HostWindow,    \* RECEIVE_WINDOW of every control record
  MaxSessions,   \* bound: open() calls of the phone
  MaxTouches,    \* bound: snapshots the touch screen delivers
  MaxFrames,     \* bound: frames of a session before heartbeats stop
  MaxInFlight,   \* bound: datagrams from the phone that are under way
  MaxTrouble     \* bound, together: watchdogs, refused OS calls and failed sends of a
                 \* healthy link, repeated datagrams, replugged cables, host restarts

ASSUME SizeAssumption == HostWindow \in 1 .. RingSize
ASSUME TouchAssumption == NoTouch \in Touch /\ Partial \notin Touch
ASSUME BoundAssumption ==
  {MaxSessions, MaxTouches, MaxFrames, MaxInFlight, MaxTrouble} \subseteq Nat

VARIABLES
  phone,    \* link, session, the pinned host, hostReady, first unacknowledged, retained
  log,      \* per session, the snapshots queued as frames 0, 1, ...
  host,     \* phase, connection (session, via), hello_session, has_active_input, stop flag
  ordered,  \* the receive window, kept across connections
  applied,  \* history: per session, the sequences the sink accepted
  seen,     \* history: the adapters the frames of the current window came from
  adapter, toHost, toPhone,
  spent     \* how much of each bound is used

vars == <<phone, log, host, ordered, applied, seen, adapter, toHost, toPhone, spent>>
histories == <<applied, seen>>
phoneSide == <<phone, log>>
hostSide == <<host, ordered, histories>>

Sessions == 1 .. MaxSessions
Adapters == 1 .. (MaxTrouble + 1)
Nowhere == 0
Troubles == {"faults", "duplicates", "replugs", "restarts"}

Hello(s, via) == [kind |-> "HELLO", session |-> s, sequence |-> 0, touch |-> NoTouch, via |-> via]
FrameRecord(s, n, via) ==
  [kind |-> "FRAME", session |-> s, sequence |-> n, touch |-> log[s][n + 1], via |-> via]
Answer(kind, s, ack) == [kind |-> kind, session |-> s, ack |-> ack]

TypeOK ==
  /\ phone \in [link : {"closed", "open", "quit"}, session : 0 .. MaxSessions,
                pinned : {Nowhere} \cup Adapters, ready : BOOLEAN, head : Nat, retained : Touch]
  /\ log \in [Sessions -> Seq(Touch)]
  /\ host \in [phase : {"outer", "discovery", "found", "serving", "committing", "failed", "stopped"},
               session : 0 .. MaxSessions, via : {Nowhere} \cup Adapters,
               hello : 0 .. MaxSessions, held : Touch \cup {Partial}, stopping : BOOLEAN]
  /\ ordered \in Window
  /\ applied \in [Sessions -> SUBSET Nat] /\ seen \subseteq Adapters
  /\ adapter \in Adapters
  /\ toHost \subseteq [kind : {"HELLO", "FRAME"}, session : Sessions, sequence : Nat,
                       touch : Touch, via : Adapters]
  /\ toPhone \subseteq [kind : {"FOUND", "HELLO", "ACK"}, session : Sessions, ack : Int]
  /\ spent \in [Troubles \cup {"touches"} -> Nat]

Init ==
  /\ phone = [link |-> "closed", session |-> 0, pinned |-> Nowhere, ready |-> FALSE,
              head |-> 0, retained |-> NoTouch]
  /\ log = [s \in Sessions |-> <<>>]
  /\ host = [phase |-> "outer", session |-> NoSession, via |-> Nowhere, hello |-> NoSession,
             held |-> NoTouch, stopping |-> FALSE]
  /\ ordered = NewWindow
  /\ applied = [s \in Sessions |-> {}] /\ seen = {}
  /\ adapter = 1 /\ toHost = {} /\ toPhone = {}
  /\ spent = [b \in Troubles \cup {"touches"} |-> 0]

Count(kind) == spent' = [spent EXCEPT ![kind] = @ + 1]

(* One more of a bounded kind of event, or nothing when it is free.        *)
Spend(kind) ==
  /\ spent.faults + spent.duplicates + spent.replugs + spent.restarts < MaxTrouble
  /\ Count(kind)
Fault(free) == IF free THEN UNCHANGED spent ELSE Spend("faults")

(* What is left of a set of datagrams once m is taken from it.             *)
Taken(net, rest, m) ==
  \/ rest = net \ {m} /\ UNCHANGED spent
  \/ rest = net /\ Spend("duplicates")

------------------------------------------------------------------------------
(* The phone.                                                              *)

NextSequence == Len(log[phone.session])
Pending == NextSequence - phone.head

(* Mutant of PhoneOpen: beginSessionLocked() keeps the old readiness.      *)
PhoneOpenStaysReady ==
  /\ phone.link = "closed" /\ phone.session < MaxSessions
  /\ phone' = [phone EXCEPT !.link = "open", !.session = @ + 1, !.pinned = Nowhere,
                            !.ready = TRUE, !.head = 0]
  /\ log' = [log EXCEPT ![phone.session + 1] = <<NoTouch>>]
  /\ UNCHANGED <<hostSide, adapter, toHost, toPhone, spent>>

(* open(): a new socket, a new session, and its session-start CANCEL.      *)
PhoneOpen ==
  /\ phone.link = "closed" /\ phone.session < MaxSessions
  /\ phone' = [phone EXCEPT !.link = "open", !.session = @ + 1, !.pinned = Nowhere,
                            !.ready = FALSE, !.head = 0]
  /\ log' = [log EXCEPT ![phone.session + 1] = <<NoTouch>>]
  /\ UNCHANGED <<hostSide, adapter, toHost, toPhone, spent>>

(* The phone repeats what it sends, so a datagram that finds no room now   *)
(* is sent another time.                                                   *)
ToHost(m) == Cardinality(toHost) < MaxInFlight /\ toHost' = toHost \cup {m}

(* sendDiscovery(): a hello on every tether interface, every 500 ms.       *)
SendDiscovery ==
  /\ phone.link = "open"
  /\ ToHost(Hello(phone.session, adapter))
  /\ UNCHANGED <<phoneSide, hostSide, adapter, toPhone, spent>>

(* controlLoop(): a discovery answer to this session pins its sender.      *)
PhoneFindsHost(m) ==
  /\ phone.link = "open" /\ m.kind = "FOUND" /\ m.session = phone.session
  /\ phone.pinned \in {Nowhere, adapter}
  /\ phone' = [phone EXCEPT !.pinned = adapter]
  /\ Taken(toPhone, toPhone', m)
  /\ UNCHANGED <<log, hostSide, adapter, toHost>>

(* acknowledgeLocked(): the head of the queue after a cumulative ACK.      *)
Acknowledged(ack) ==
  IF ack >= phone.head /\ ack < NextSequence THEN ack + 1 ELSE phone.head

(* handleControl(): the first record opens the window, all retire frames.  *)
PhoneControl(m) ==
  /\ phone.link = "open" /\ phone.pinned = adapter
  /\ m.kind \in {"HELLO", "ACK"} /\ m.session = phone.session
  /\ phone' = [phone EXCEPT !.ready = TRUE, !.head = Acknowledged(m.ack)]
  /\ Taken(toPhone, toPhone', m)
  /\ UNCHANGED <<log, hostSide, adapter, toHost>>

(* offerFrame(): always retain; queue unless the socket is restarting.     *)
OfferFrame(touch) ==
  /\ phone.link # "quit" /\ spent.touches < MaxTouches /\ Count("touches")
  /\ phone' = [phone EXCEPT !.retained = touch]
  /\ IF phone.link = "open"
     THEN log' = [log EXCEPT ![phone.session] = Append(@, touch)]
     ELSE UNCHANGED log
  /\ UNCHANGED <<hostSide, adapter, toHost, toPhone>>

(* maybeEnqueueHeartbeatLocked(): the snapshot again, once all is acked.   *)
Heartbeat ==
  /\ phone.link = "open" /\ phone.ready /\ phone.retained # NoTouch /\ Pending = 0
  /\ NextSequence < MaxFrames
  /\ log' = [log EXCEPT ![phone.session] = Append(@, phone.retained)]
  /\ UNCHANGED <<phone, hostSide, adapter, toHost, toPhone, spent>>

(* nextPacketToWriteLocked(): one frame until the host is known, then a    *)
(* window of them; a packet is due now, or again after 2 ms.               *)
Writable(n) ==
  n \in phone.head .. (NextSequence - 1)
  /\ n < phone.head + (IF phone.ready THEN HostWindow ELSE 1)

(* writerLoop(): send or repeat a frame to the pinned host.  (A copy that  *)
(* the path loses at once is one that the model does not add.)             *)
WriterSend(n) ==
  /\ phone.link = "open" /\ phone.pinned = adapter /\ Writable(n)
  /\ ToHost(FrameRecord(phone.session, n, adapter))
  /\ UNCHANGED <<phoneSide, hostSide, adapter, toPhone, spent>>

(* closeInternal(): the socket, the pin and the queue go.                  *)
Closed(link) ==
  phone' = [phone EXCEPT !.link = link, !.pinned = Nowhere, !.ready = FALSE, !.head = 0]

(* No acknowledgement can come any more: the host refuses the session, or  *)
(* the pinned address went with the cable.                                 *)
Unanswerable ==
  \/ phone.pinned \notin {Nowhere, adapter}
  \/ /\ host.phase \in {"serving", "committing"} /\ host.session = phone.session
     /\ ordered.requires /\ phone.head > 0

(* Frames of gameplay wait, or a finger is down: hasActiveDataPathLocked(). *)
ActivePath == phone.retained # NoTouch \/ (Pending > 0 /\ NextSequence > 1)

(* checkHostTimeout(), failSession(): the session is given up whole.       *)
PhoneTimesOut ==
  /\ phone.link = "open"
  /\ Fault(Unanswerable /\ (ActivePath \/ phone.pinned # adapter))
  /\ Closed("closed")
  /\ UNCHANGED <<log, hostSide, adapter, toHost, toPhone>>

(* The user leaves the pad: close() and no restart.                        *)
PhoneQuits ==
  /\ phone.link # "quit" /\ Closed("quit")
  /\ UNCHANGED <<log, hostSide, adapter, toHost, toPhone, spent>>

------------------------------------------------------------------------------
(* The host: discovery.                                                    *)

phoneStays == UNCHANGED <<phoneSide, adapter>>

(* require_fresh_session() on a window that may be in the middle of one.   *)
GiveUpWindow ==
  ordered' = RequireFreshSession /\ seen' = {} /\ UNCHANGED applied

(* Mutant of HostSearches: discovery starts with input still down.         *)
HostSearchesAtOnce ==
  /\ host.phase = "outer" /\ ~host.stopping
  /\ host' = [host EXCEPT !.phase = "discovery"]
  /\ UNCHANGED <<ordered, histories, toHost, toPhone, spent>> /\ phoneStays

(* run(): held input is released before the host looks for a phone.        *)
HostSearches ==
  /\ host.phase = "outer" /\ ~host.stopping
  /\ host' = [host EXCEPT !.phase = "discovery", !.held = NoTouch]
  /\ UNCHANGED <<ordered, histories, toHost, toPhone, spent>> /\ phoneStays

(* ... and the loop turns until the OS lets go, which refused before.      *)
HostReleaseRefused ==
  /\ host.phase = "outer" /\ ~host.stopping /\ host.held # NoTouch
  /\ \E held \in {host.held, Partial} : host' = [host EXCEPT !.held = held]
  /\ UNCHANGED <<ordered, histories, toHost, toPhone, spent>> /\ phoneStays

(* current_tether_binding(): the sender sits behind the one tether there   *)
(* is; verify_peer(): it is still the adapter the connection was bound to. *)
Classified(m) == m.via = adapter
PeerVerified == host.via = adapter

(* connect_if(): a hello from the tether is answered and its sender pinned. *)
HostConnects(m) ==
  /\ host.phase = "discovery" /\ m.kind = "HELLO" /\ Classified(m)
  /\ host' = [host EXCEPT !.phase = "found", !.session = m.session, !.via = m.via]
  /\ toPhone' = toPhone \cup {Answer("FOUND", m.session, NoAck)}
  /\ Taken(toHost, toHost', m)
  /\ UNCHANGED <<ordered, histories>> /\ phoneStays

(* revalidate_peer() agrees: serve_connection() with fresh control state.  *)
HostServes ==
  /\ host.phase = "found" /\ PeerVerified
  /\ host' = [host EXCEPT !.phase = "serving", !.hello = NoSession]
  /\ UNCHANGED <<ordered, histories, toHost, toPhone, spent>> /\ phoneStays

(* revalidate_peer() finds another adapter; Windows' protect_peer() may    *)
(* also fail on a good one.                                                *)
HostRejectsPeer ==
  /\ host.phase = "found" /\ Fault(~PeerVerified)
  /\ host' = [host EXCEPT !.phase = "outer"]
  /\ UNCHANGED <<ordered, histories, toHost, toPhone>> /\ phoneStays

------------------------------------------------------------------------------
(* The host: serve_connection().                                           *)

(* Mutant of Arrives: read() does not look at the ingress interface.       *)
ArrivesAnywhere(m) == host.phase = "serving" /\ ~host.stopping

(* read(): what it does not skip for coming from another adapter.          *)
Arrives(m) == host.phase = "serving" /\ ~host.stopping /\ m.via = host.via

(* read() and take_session_changed(): a hello is heard while no input is   *)
(* down; another session means a new window and a new HELLO.               *)
HostHearsHello(m) ==
  /\ Arrives(m) /\ m.kind = "HELLO" /\ host.held = NoTouch /\ PeerVerified
  /\ host' = [host EXCEPT !.session = m.session,
                          !.hello = IF m.session = host.session THEN @ ELSE NoSession]
  /\ IF m.session = host.session THEN UNCHANGED <<ordered, histories>> ELSE GiveUpWindow
  /\ toPhone' = toPhone \cup {Answer("FOUND", m.session, NoAck)}
  /\ Taken(toHost, toHost', m) /\ phoneStays

(* read(): verify_peer() fails for a hello, and so does the connection.    *)
HostDoubtsHello(m) ==
  /\ Arrives(m) /\ m.kind = "HELLO" /\ host.held = NoTouch /\ ~PeerVerified
  /\ host' = [host EXCEPT !.phase = "failed"]
  /\ Taken(toHost, toHost', m)
  /\ UNCHANGED <<ordered, histories, toPhone>> /\ phoneStays

FrameOf(m) ==
  [session |-> m.session, sequence |-> m.sequence, start |-> m.sequence = 0, touch |-> m.touch]

(* read() and process_decoded_frame() up to the commit loop.               *)
HostHearsFrame(m) ==
  /\ Arrives(m) /\ m.kind = "FRAME" /\ m.session = host.session
  /\ ordered' = Push(ordered, FrameOf(m))
  /\ seen' = IF Refuses(ordered, FrameOf(m)) THEN seen
             ELSE (IF ordered.session = m.session THEN seen ELSE {}) \cup {m.via}
  /\ host' = [host EXCEPT !.phase = "committing"]
  /\ Taken(toHost, toHost', m)
  /\ UNCHANGED <<applied, toPhone>> /\ phoneStays

(* connect_if() and read() take and skip what they cannot use.             *)
HostSkips(m) ==
  /\ \/ host.phase = "discovery" /\ (m.kind = "FRAME" \/ ~Classified(m))
     \/ host.phase = "serving" /\ m.via # host.via
     \/ host.phase = "serving" /\ m.kind = "HELLO" /\ host.held # NoTouch
     \/ host.phase = "serving" /\ m.kind = "FRAME" /\ m.session # host.session
  /\ toHost' = toHost \ {m}
  /\ UNCHANGED <<hostSide, toPhone, spent>> /\ phoneStays

(* commit_ready(): the sink takes the frame under the cursor ...           *)
HostCommits ==
  /\ host.phase = "committing" /\ NextReady(ordered)
  /\ host' = [host EXCEPT !.held = HeadFrame(ordered).touch]
  /\ applied' = [applied EXCEPT ![ordered.session] = @ \cup {ordered.next}]
  /\ ordered' = CommitReady(ordered)
  /\ UNCHANGED <<seen, toHost, toPhone, spent>> /\ phoneStays

(* ... or keeps refusing it, perhaps after some of its events.             *)
HostSinkRefuses ==
  /\ host.phase = "committing" /\ NextReady(ordered) /\ Spend("faults")
  /\ {host.held, HeadFrame(ordered).touch} # {NoTouch}
  /\ \E held \in {host.held, Partial} :
       host' = [host EXCEPT !.phase = "failed", !.held = held]
  /\ UNCHANGED <<ordered, histories, toHost, toPhone>> /\ phoneStays

(* process_decoded_frame() after the commit loop: HELLO first, then ACKs,  *)
(* for duplicates too.                                                     *)
HostAnswers ==
  /\ host.phase = "committing" /\ ~NextReady(ordered) /\ ordered.session = host.session
  /\ host' = [host EXCEPT !.phase = "serving", !.hello = ordered.session]
  /\ toPhone' = toPhone \cup
       {Answer(IF host.hello = ordered.session THEN "ACK" ELSE "HELLO", ordered.session,
              AcknowledgedSequence(ordered))}
  /\ UNCHANGED <<ordered, histories, toHost, spent>> /\ phoneStays

(* A refused frame gets no answer.                                         *)
HostIsSilent ==
  /\ host.phase = "committing" /\ ~NextReady(ordered) /\ ordered.session # host.session
  /\ host' = [host EXCEPT !.phase = "serving"]
  /\ UNCHANGED <<ordered, histories, toHost, toPhone, spent>> /\ phoneStays

(* The 32 ms watchdog while input is down, the 2 s one while it is not, a  *)
(* failed receive or a failed answer.                                      *)
PhoneSilent ==
  phone.link # "open" \/ phone.session # host.session \/ phone.pinned # host.via
HostTimesOut ==
  /\ host.phase = "serving" /\ ~host.stopping /\ Fault(PhoneSilent)
  /\ host' = [host EXCEPT !.phase = "failed"]
  /\ UNCHANGED <<ordered, histories, toHost, toPhone>> /\ phoneStays

(* Mutant of HostRecovers: the window survives the failed connection.      *)
HostRecoversWindow ==
  /\ host.phase = "failed" /\ ~host.stopping
  /\ \/ host' = [host EXCEPT !.phase = "outer", !.held = NoTouch] /\ UNCHANGED spent
     \/ /\ host.held # NoTouch /\ Spend("faults")
        /\ \E held \in {host.held, Partial} :
             host' = [host EXCEPT !.phase = "outer", !.held = held]
  /\ UNCHANGED <<ordered, histories, toHost, toPhone>> /\ phoneStays

(* run(): after an error the window is given up and the input released, or *)
(* the release is left to the loop.                                        *)
HostRecovers ==
  /\ host.phase = "failed" /\ ~host.stopping
  /\ GiveUpWindow
  /\ \/ host' = [host EXCEPT !.phase = "outer", !.held = NoTouch] /\ UNCHANGED spent
     \/ /\ host.held # NoTouch /\ Spend("faults")
        /\ \E held \in {host.held, Partial} :
             host' = [host EXCEPT !.phase = "outer", !.held = held]
  /\ UNCHANGED <<toHost, toPhone>> /\ phoneStays

(* run(): the stop request is seen at the loop heads and after an error.   *)
HostStops ==
  /\ host.phase \in {"outer", "discovery", "serving", "failed"} /\ host.stopping
  /\ \/ host' = [host EXCEPT !.phase = "stopped", !.held = NoTouch] /\ UNCHANGED spent
     \/ /\ host.held # NoTouch /\ Spend("faults")
        /\ host' = [host EXCEPT !.phase = "stopped"]
  /\ UNCHANGED <<ordered, histories, toHost, toPhone>> /\ phoneStays

(* A tether policy that cannot be refreshed or a tether with a default     *)
(* route is fatal: the process ends, and the sink's Drop releases.         *)
HostPolicyFails ==
  /\ host.phase \in {"outer", "discovery"} /\ ~host.stopping /\ Spend("faults")
  /\ host' = [host EXCEPT !.phase = "stopped", !.held = NoTouch]
  /\ UNCHANGED <<ordered, histories, toHost, toPhone>> /\ phoneStays

(* stdin or a signal sets SHUTDOWN_REQUESTED.                              *)
RequestStop ==
  /\ ~host.stopping /\ host.phase # "stopped"
  /\ host' = [host EXCEPT !.stopping = TRUE]
  /\ UNCHANGED <<ordered, histories, toHost, toPhone, spent>> /\ phoneStays

(* The launcher starts the host again after a clean stop.                  *)
HostStarts ==
  /\ host.phase = "stopped" /\ host.held = NoTouch /\ Spend("restarts")
  /\ host' = [host EXCEPT !.phase = "outer", !.session = NoSession, !.via = Nowhere,
                          !.hello = NoSession, !.stopping = FALSE]
  /\ ordered' = NewWindow /\ seen' = {}
  /\ UNCHANGED <<applied, toHost, toPhone>> /\ phoneStays

------------------------------------------------------------------------------
(* The cable is pulled and plugged: another adapter; the addresses, and so *)
(* the phone's pin, may survive.  A datagram is lost.                      *)
Replug ==
  /\ Spend("replugs") /\ adapter' = adapter + 1
  /\ \/ phone' = [phone EXCEPT !.pinned = IF @ = adapter THEN adapter + 1 ELSE @]
     \/ phone.pinned = adapter /\ UNCHANGED phone
  /\ UNCHANGED <<log, hostSide, toHost, toPhone>>

Lose ==
  /\ Spend("faults")
  /\ \/ \E m \in toHost : toHost' = toHost \ {m} /\ UNCHANGED toPhone
     \/ \E m \in toPhone : toPhone' = toPhone \ {m} /\ UNCHANGED toHost
  /\ UNCHANGED <<phoneSide, hostSide, adapter>>

PhoneNext ==
  \/ PhoneOpen \/ SendDiscovery \/ Heartbeat \/ PhoneTimesOut \/ PhoneQuits
  \/ \E m \in toPhone : PhoneFindsHost(m) \/ PhoneControl(m)
  \/ \E touch \in Touch : OfferFrame(touch)
  \/ \E n \in 0 .. (MaxFrames + MaxTouches) : phone.link = "open" /\ WriterSend(n)

HostNext ==
  \/ HostSearches \/ HostReleaseRefused \/ HostServes \/ HostRejectsPeer
  \/ \E m \in toHost : HostConnects(m) \/ HostHearsHello(m) \/ HostDoubtsHello(m)
                       \/ HostHearsFrame(m) \/ HostSkips(m)
  \/ HostCommits \/ HostSinkRefuses \/ HostAnswers \/ HostIsSilent \/ HostTimesOut
  \/ HostRecovers \/ HostStops \/ HostPolicyFails \/ RequestStop \/ HostStarts

Next == PhoneNext \/ HostNext \/ Replug \/ Lose

Spec == Init /\ [][Next]_vars

------------------------------------------------------------------------------
(* Nothing is down while the host looks for a phone, and while it serves   *)
(* one the OS holds exactly what the phone's session said at the cursor:   *)
(* process_decoded_frame() never leaves a gap or a frame of another        *)
(* session under the fingers, across reconnects and restarts.              *)
HeldFollowsSession ==
  /\ host.phase \in {"discovery", "found"} => host.held = NoTouch
  /\ host.phase = "serving" =>
       host.held = IF ordered.session = NoSession THEN NoTouch
                   ELSE log[ordered.session][ordered.next]

(* The window that gathers a session's frames is fed through one tether    *)
(* adapter: after a replug its frames cannot join, although the session    *)
(* and the addresses may be the same (read(), binding_accepts_ingress()).  *)
OneAdapterPerWindow == Cardinality(seen) <= 1

(* Android retains each frame until the sink accepted it: what             *)
(* acknowledgeLocked() retired, the host applied, unless a restarted host  *)
(* took up the session in its middle.                                      *)
AckedMeansApplied ==
  phone.link = "open" /\ spent.restarts = 0 => 0 .. (phone.head - 1) \subseteq applied[phone.session]
==============================================================================
