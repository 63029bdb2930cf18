---------------------------- MODULE OrderedFrames ----------------------------
(***************************************************************************)
(* The host's receive window (native-host/src/protocol.rs, OrderedFrames): *)
(* a ring of buffered frames in front of a cursor, bound to one phone      *)
(* session.  The window is a value, and each method is an operator from a  *)
(* window to a window, so that the V5 and the V4 hosts share it.           *)
(*                                                                         *)
(* Option<u64> session ids are natural numbers with NoSession for None     *)
(* (both phones draw non-zero ids); Option<TouchFrame> is a frame or       *)
(* NoFrame.                                                                *)
(***************************************************************************)
EXTENDS Integers

CONSTANTS
  Touch,      \* the complete contact snapshots a frame can carry
  NoFrame,    \* an empty slot of the ring
  RingSize    \* MAX_REORDERED_FRAMES: 256 in the code

NoSession == 0
SessionIds == Nat \ {NoSession}

(* A decoded touch frame, reduced to what the window and the sink look at. *)
Frame == [session : SessionIds, sequence : Nat, start : BOOLEAN, touch : Touch]

ASSUME RingAssumption == RingSize \in Nat \ {0}
ASSUME NoFrameAssumption == NoFrame \notin Frame

Slots == 0 .. (RingSize - 1)
SlotOf(sequence) == sequence % RingSize

Window == [session : Nat, next : Nat, buffered : [Slots -> Frame \cup {NoFrame}],
           requires : BOOLEAN]

EmptyRing == [i \in Slots |-> NoFrame]

NewWindow ==
  [session |-> NoSession, next |-> 0, buffered |-> EmptyRing, requires |-> FALSE]

BeginSession(f) ==
  [session |-> f.session, next |-> f.sequence, buffered |-> EmptyRing, requires |-> FALSE]

RequireFreshSession ==
  [session |-> NoSession, next |-> 0, buffered |-> EmptyRing, requires |-> TRUE]

(* Mutant of Refuses: push() forgets requires_session_start.               *)
RefusesOnlyOtherSessions(w, f) == ~f.start /\ w.session \notin {NoSession, f.session}

(* push() returns early: a fresh session is required and this frame does   *)
(* not start one, or the frame belongs to another session.                 *)
Refuses(w, f) ==
  /\ ~f.start
  /\ w.requires \/ w.session \notin {NoSession, f.session}

(* Mutant of Joined: a repeated session start begins its session again.    *)
JoinedAgain(w, f) == IF w.session = f.session /\ ~f.start THEN w ELSE BeginSession(f)

(* The window push() works on once the frame's session is settled.         *)
Joined(w, f) == IF w.session = f.session THEN w ELSE BeginSession(f)

Fits(w, f) ==
  /\ f.sequence >= w.next
  /\ f.sequence - w.next < RingSize
  /\ w.buffered[SlotOf(f.sequence)] = NoFrame

Buffered(w, f) ==
  [session |-> w.session, next |-> w.next, requires |-> w.requires,
   buffered |-> [w.buffered EXCEPT ![SlotOf(f.sequence)] = f]]

Push(w, f) ==
  IF Refuses(w, f) THEN w
  ELSE IF Fits(Joined(w, f), f) THEN Buffered(Joined(w, f), f)
  ELSE Joined(w, f)

(* next_ready(): the frame under the cursor, when it is there.             *)
HeadFrame(w) == w.buffered[SlotOf(w.next)]
NextReady(w) == HeadFrame(w) # NoFrame /\ HeadFrame(w).sequence = w.next

(* commit_ready() after the sink accepted HeadFrame(w).                    *)
CommitReady(w) ==
  [session |-> w.session, next |-> w.next + 1, requires |-> w.requires,
   buffered |-> [w.buffered EXCEPT ![SlotOf(w.next)] = NoFrame]]

(* Mutant of AcknowledgedSequence: the sequence expected next.             *)
AcknowledgedExpected(w) == w.next

(* acknowledged_sequence(), with -1 for None.                              *)
NoAck == -1
AcknowledgedSequence(w) == w.next - 1
==============================================================================
