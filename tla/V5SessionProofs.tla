--------------------------- MODULE V5SessionProofs ---------------------------
(***************************************************************************)
(* Safety of protocol-v5 gameplay for every number of sessions, frames,    *)
(* faults and losses and every ring and window size: the inductive         *)
(* invariant of V5Session and what follows from it.  A second invariant,   *)
(* on top of the first, says what every record in flight tells about its   *)
(* sender; from it, the ring always has room for a new frame, no record    *)
(* between correct peers is a protocol error, and the protocol implements  *)
(* the stream of FrameStream.                                              *)
(***************************************************************************)
EXTENDS V5Session, TLAPS

------------------------------------------------------------------------------
(* The receive window: what its methods preserve, for every ring size.     *)

(* BeginSession yields a window.                                           *)
LEMMA BeginSessionType == ASSUME NEW f \in Frame PROVE BeginSession(f) \in Window
  BY DEF BeginSession, Window, EmptyRing, Frame, SessionIds

(* A sequence number has a slot.                                           *)
LEMMA SlotOfType == ASSUME NEW n \in Nat PROVE SlotOf(n) \in Slots
  BY RingAssumption DEF SlotOf, Slots

(* push() yields a window.                                                 *)
LEMMA PushType == ASSUME NEW w \in Window, NEW f \in Frame PROVE Push(w, f) \in Window
<1>1. Joined(w, f) \in Window
  BY BeginSessionType DEF Joined
<1>2. SlotOf(f.sequence) \in Slots
  BY SlotOfType DEF Frame
<1>3. ASSUME NEW v \in Window PROVE Buffered(v, f) \in Window
  <2>1. [v.buffered EXCEPT ![SlotOf(f.sequence)] = f] \in [Slots -> Frame \cup {NoFrame}]
    BY <1>2 DEF Window
  <2> QED BY <2>1 DEF Buffered, Window
<1> QED BY <1>1, <1>3 DEF Push

(* commit_ready() yields a window.                                         *)
LEMMA CommitReadyType == ASSUME NEW w \in Window PROVE CommitReady(w) \in Window
<1>1. [w.buffered EXCEPT ![SlotOf(w.next)] = NoFrame] \in [Slots -> Frame \cup {NoFrame}]
  BY DEF Window
<1> QED BY <1>1 DEF CommitReady, Window

(* A frame that starts no session leaves a window that waits for a start   *)
(* alone.                                                                  *)
LEMMA PushWaits ==
  ASSUME NEW w, NEW f, w.requires, ~f.start
  PROVE Push(w, f) = w
  BY DEF Push, Refuses

(* A session start taken by a window without a session: the cursor is on   *)
(* that frame and the ring holds nothing else.                             *)
LEMMA PushStarts ==
  ASSUME NEW w \in Window, w.session = NoSession, NEW f \in Frame, f.start
  PROVE /\ Push(w, f).session = f.session
        /\ Push(w, f).next = f.sequence
        /\ \A i \in Slots : Push(w, f).buffered[i] \in {NoFrame, f}
<1>1. Joined(w, f) = BeginSession(f) /\ ~Refuses(w, f)
  BY DEF Joined, Refuses, Frame, SessionIds
<1>2. SlotOf(f.sequence) \in Slots
  BY SlotOfType DEF Frame
<1> QED BY <1>1, <1>2 DEF Push, BeginSession, Buffered, EmptyRing

(* A frame of the session in progress moves neither session nor cursor and *)
(* can only be added.                                                      *)
LEMMA PushAdds ==
  ASSUME NEW w \in Window, NEW f \in Frame, w.session = f.session
  PROVE /\ Push(w, f).session = w.session
        /\ Push(w, f).next = w.next
        /\ \A i \in Slots : Push(w, f).buffered[i] \in {w.buffered[i], f}
<1>1. SlotOf(f.sequence) \in Slots
  BY SlotOfType DEF Frame
<1> QED BY <1>1 DEF Push, Joined, Buffered, Window

------------------------------------------------------------------------------
(* The ring's own invariant: a buffered frame belongs to the window's      *)
(* session, lies at most RingSize - 1 past the cursor and sits in its      *)
(* slot.                                                                   *)
WellFormed(w) ==
  \A i \in Slots :
    w.buffered[i] # NoFrame =>
      /\ w.buffered[i].session = w.session
      /\ w.buffered[i].sequence \in w.next .. (w.next + RingSize - 1)
      /\ SlotOf(w.buffered[i].sequence) = i

(* Two sequences less than a ring apart in the same slot are the same:     *)
(* multiples of the ring size are a ring apart.                            *)
LEMMA SameSlot ==
  ASSUME NEW n \in Nat, NEW a \in n .. (n + RingSize - 1), NEW b \in n .. (n + RingSize - 1),
         SlotOf(a) = SlotOf(b)
  PROVE a = b
<1>1. RingSize \in Nat /\ RingSize > 0
  BY RingAssumption
<1> DEFINE p == a \div RingSize
           q == b \div RingSize
           r == a % RingSize
<1>2. /\ a \in Nat /\ b \in Nat /\ p \in Nat /\ q \in Nat /\ r \in Nat
      /\ a = p * RingSize + r /\ b = q * RingSize + r
  <2>1. a \in Nat /\ b \in Nat
    BY <1>1
  <2>2. \A d \in Nat : /\ d \div RingSize \in Nat /\ d % RingSize \in Nat
                       /\ d = (d \div RingSize) * RingSize + (d % RingSize)
    BY <1>1
  <2> QED BY <2>1, <2>2 DEF SlotOf
<1>3. -RingSize < a - b /\ a - b < RingSize
  BY <1>1
<1> HIDE DEF p, q, r
<1>4. ASSUME NEW x \in Nat, NEW y \in Nat, x < y
      PROVE  x * RingSize + RingSize <= y * RingSize
             /\ x * RingSize \in Nat /\ y * RingSize \in Nat
  <2>1. PICK k \in Nat : y = x + 1 + k
    <3>1. y - x - 1 \in Nat /\ y = x + 1 + (y - x - 1)
      BY <1>4
    <3> QED BY <3>1
  <2>2. y * RingSize = x * RingSize + RingSize + k * RingSize
    BY <1>1, <2>1
  <2>3. k * RingSize \in Nat /\ x * RingSize \in Nat /\ y * RingSize \in Nat
    BY <1>1, <2>1
  <2> QED BY <1>1, <2>2, <2>3
<1>5. ~(p < q) /\ ~(q < p)
  BY <1>1, <1>2, <1>3, <1>4
<1> QED BY <1>2, <1>5

(* push() keeps the ring well formed.                                      *)
THEOREM PushWellFormed ==
  ASSUME NEW w \in Window, WellFormed(w), NEW f \in Frame
  PROVE WellFormed(Push(w, f))
<1>1. SlotOf(f.sequence) \in Slots
  BY SlotOfType DEF Frame
<1>2. WellFormed(Joined(w, f)) /\ Joined(w, f).session = f.session
  BY DEF Joined, WellFormed, BeginSession, EmptyRing
<1>3. Joined(w, f) \in Window
  BY BeginSessionType DEF Joined
<1>4. ASSUME NEW v \in Window, WellFormed(v), v.session = f.session, Fits(v, f)
      PROVE WellFormed(Buffered(v, f))
  <2>1. f.sequence \in v.next .. (v.next + RingSize - 1)
    BY <1>4, RingAssumption DEF Fits, Window, Frame
  <2> QED BY <1>1, <1>4, <2>1 DEF WellFormed, Buffered, Window
<1> QED BY <1>2, <1>3, <1>4 DEF Push

(* commit_ready() keeps the ring well formed: what is left lies past the   *)
(* new cursor.                                                             *)
THEOREM CommitReadyWellFormed ==
  ASSUME NEW w \in Window, WellFormed(w)
  PROVE WellFormed(CommitReady(w))
<1> SUFFICES ASSUME NEW i \in Slots, CommitReady(w).buffered[i] # NoFrame
             PROVE /\ CommitReady(w).buffered[i].session = w.session
                   /\ CommitReady(w).buffered[i].sequence \in (w.next + 1) .. (w.next + RingSize)
                   /\ SlotOf(CommitReady(w).buffered[i].sequence) = i
  BY RingAssumption DEF WellFormed, CommitReady, Window
<1>1. SlotOf(w.next) \in Slots
  BY SlotOfType DEF Window
<1>2. i # SlotOf(w.next) /\ CommitReady(w).buffered[i] = w.buffered[i]
  BY <1>1 DEF CommitReady, Window
<1>3. w.buffered[i] \in Frame
  BY <1>2 DEF Window
<1>4. w.buffered[i].sequence # w.next
  BY <1>2, <1>3 DEF WellFormed
<1> QED BY <1>2, <1>3, <1>4, RingAssumption DEF WellFormed, Frame, Window

------------------------------------------------------------------------------
(* The inductive invariant.                                                *)

Served == phase \in {"serving", "committing"}

(* A session's log is empty until its HELLO; a channel is one of the       *)
(* connections the host answered; a ready phone saw that host serving.     *)
PhoneInv ==
  /\ link \in {"searching", "connected"} => generation \in Generations
  /\ hostReady => link = "connected"
  /\ link = "connected" => channel \in 1 .. connection
  /\ link # "connected" => channel = 0
  /\ ~hostReady => head = 0
  /\ \A g \in Generations :
       g > generation \/ (g = generation /\ link \in {"searching", "connected"} /\ ~hostReady)
       => log[g] = <<>>
  /\ hostReady => log[generation] # <<>>
  /\ hostReady /\ channel = connection => phase # "accepted"

(* Whatever was committed for session g, reached over connection c, was    *)
(* committed on an earlier connection or on the current one.               *)
Settled(g, c) ==
  committed[g] # <<>> =>
    \/ c < connection
    \/ ordered.session = g
    \/ phase \in {"waiting", "ending", "stopped"}

TouchRecord(m) ==
  /\ m.session \in Generations
  /\ m.id \in 0 .. (Len(log[m.session]) - 1)
  /\ m.touch = log[m.session][m.id + 1]
  /\ m.conn \in 1 .. connection
  /\ m.conn = connection => phase # "accepted"
  /\ Settled(m.session, m.conn)

ToHostInv == \A m \in toHost : m.type = "TOUCH" => TouchRecord(m)

ToPhoneInv ==
  \A m \in toPhone :
    /\ m.type = "IK_CONTINUE" => m.conn \in 1 .. connection
    /\ m.type = "HELLO" => /\ m.conn \in 1 .. connection
                           /\ m.conn = connection => phase # "accepted"
    /\ m.type = "ACK" => /\ m.session \in Generations
                         /\ m.id < Len(committed[m.session])

(* The window is idle outside a session; inside one, the cursor counts the *)
(* commits and the ring holds frames of the phone's log.                   *)
WindowInv ==
  /\ phase = "accepted" \/ Served => connection > 0
  /\ ~Served => ordered.session = NoSession
  /\ Served /\ ordered.session = NoSession => ordered.requires /\ ordered.buffered = EmptyRing
  /\ ordered.session # NoSession =>
       /\ ordered.session \in Generations
       /\ Len(committed[ordered.session]) = ordered.next
       /\ \A i \in Slots :
            ordered.buffered[i] # NoFrame =>
              /\ ordered.buffered[i].sequence < Len(log[ordered.session])
              /\ ordered.buffered[i].touch = log[ordered.session][ordered.buffered[i].sequence + 1]

CommitInv ==
  /\ AppliedInOrder
  /\ AckedMeansApplied
  /\ hostReady => Settled(generation, channel)

IInv == TypeOK /\ PhoneInv /\ ToHostInv /\ ToPhoneInv /\ WindowInv /\ CommitInv

------------------------------------------------------------------------------
(* Steps of the phone's log.                                               *)

LogExtends ==
  \A g \in Generations :
    /\ Len(log[g]) <= Len(log'[g])
    /\ \A i \in 1 .. Len(log[g]) : log'[g][i] = log[g][i]

(* The window serve_gameplay() starts from is a window.                    *)
LEMMA FreshWindowType == NewWindow \in Window /\ RequireFreshSession \in Window
  BY DEF NewWindow, RequireFreshSession, Window, EmptyRing, NoSession

(* The marker for "no ACK sent yet" is an integer.                         *)
LEMMA NeverAckedType == NeverAcked \in Int
  BY DEF NeverAcked

(* enqueueFrameLocked() only appends to the session's log.                 *)
LEMMA EnqueueExtends ==
  ASSUME PhoneTypeOK, generation \in Generations, NEW touch \in Touch, Enqueue(touch)
  PROVE /\ log' \in [Generations -> Seq(Touch)]
        /\ LogExtends
        /\ \A g \in Generations : g # generation => log'[g] = log[g]
        /\ overflowed' \in BOOLEAN
<1>1. CASE UNCHANGED log /\ overflowed' = TRUE
  BY <1>1 DEF PhoneTypeOK, LogExtends
<1>2. CASE UNCHANGED overflowed
           /\ log' = [log EXCEPT ![generation] = Append(log[generation], touch)]
  <2>1. log[generation] \in Seq(Touch)
    BY DEF PhoneTypeOK
  <2>2. /\ Append(log[generation], touch) \in Seq(Touch)
        /\ Len(Append(log[generation], touch)) = Len(log[generation]) + 1
        /\ \A i \in 1 .. Len(log[generation]) :
             Append(log[generation], touch)[i] = log[generation][i]
    BY <2>1
  <2>3. \A g \in Generations : g # generation => log'[g] = log[g]
    BY <1>2 DEF PhoneTypeOK
  <2>4. log'[generation] = Append(log[generation], touch)
    BY <1>2 DEF PhoneTypeOK
  <2>5. \A g \in Generations : Len(log[g]) \in Nat
    BY DEF PhoneTypeOK
  <2>6. LogExtends
    BY <2>2, <2>3, <2>4, <2>5 DEF LogExtends
  <2> QED BY <1>2, <2>2, <2>3, <2>6 DEF PhoneTypeOK
<1> QED BY <1>1, <1>2 DEF Enqueue

(* Frames in flight, frames in the ring and commits stay frames of the log *)
(* when the log grows.                                                     *)
LEMMA ExtendsKeeps ==
  ASSUME IInv, LogExtends, log' \in [Generations -> Seq(Touch)],
         UNCHANGED <<hostVars, toHost>>
  PROVE ToHostInv' /\ WindowInv' /\ AppliedInOrder'
<1> USE DEF IInv, TypeOK, hostVars
<1>0. \A g \in Generations : Len(log[g]) \in Nat /\ Len(committed[g]) \in Nat
  BY DEF PhoneTypeOK, HostTypeOK
<1>1. ToHostInv'
  <2> SUFFICES ASSUME NEW m \in toHost, m.type = "TOUCH" PROVE TouchRecord(m)'
    BY DEF ToHostInv
  <2>1. TouchRecord(m)
    BY DEF ToHostInv
  <2>2. m.id + 1 \in 1 .. Len(log[m.session])
    BY <1>0, <2>1 DEF TouchRecord
  <2>3. m.id \in 0 .. (Len(log'[m.session]) - 1) /\ m.touch = log'[m.session][m.id + 1]
    BY <1>0, <2>1, <2>2 DEF LogExtends, TouchRecord
  <2> QED BY <2>1, <2>3 DEF TouchRecord, Settled
<1>2. WindowInv'
  <2>1. ASSUME ordered.session # NoSession, NEW i \in Slots, ordered.buffered[i] # NoFrame
        PROVE /\ ordered.buffered[i].sequence < Len(log'[ordered.session])
              /\ ordered.buffered[i].touch
                   = log'[ordered.session][ordered.buffered[i].sequence + 1]
    <3>1. ordered.buffered[i].sequence \in Nat
      BY <2>1 DEF HostTypeOK, Window, Frame
    <3>2. /\ ordered.session \in Generations
          /\ ordered.buffered[i].sequence < Len(log[ordered.session])
          /\ ordered.buffered[i].touch
               = log[ordered.session][ordered.buffered[i].sequence + 1]
      BY <2>1 DEF WindowInv
    <3>3. ordered.buffered[i].sequence + 1 \in 1 .. Len(log[ordered.session])
      BY <1>0, <3>1, <3>2
    <3>4. Len(log'[ordered.session]) \in Nat
      BY <3>2
    <3> QED BY <1>0, <3>1, <3>2, <3>3, <3>4 DEF LogExtends
  <2> QED BY <2>1 DEF WindowInv, Served
<1>3. AppliedInOrder'
  BY <1>0 DEF LogExtends, CommitInv, AppliedInOrder
<1> QED BY <1>1, <1>2, <1>3

------------------------------------------------------------------------------
(* The invariant is inductive: one step per action.                        *)

(* A TOUCH record of the served connection either waits, starts the window *)
(* on a session the host has committed nothing of, or joins the window's   *)
(* own session without moving its cursor.                                  *)
LEMMA TouchEffect ==
  ASSUME IInv, NEW m \in toHost, HostTouch(m)
  PROVE /\ TouchRecord(m) /\ m.session # NoSession
        /\ FrameOf(m) \in Frame
        /\ ordered' \in Window
        /\ \/ ordered' = ordered
           \/ /\ ordered.session = NoSession /\ ordered'.session = m.session /\ ordered'.next = 0
              /\ \A i \in Slots : ordered'.buffered[i] \in {NoFrame, FrameOf(m)}
           \/ /\ ordered.session = m.session /\ ordered'.session = m.session
              /\ ordered'.next = ordered.next
              /\ \A i \in Slots : ordered'.buffered[i] \in {ordered.buffered[i], FrameOf(m)}
        /\ ordered.session = NoSession => committed[m.session] = <<>>
<1> USE DEF IInv, TypeOK
<1>1. phase = "serving" /\ TouchRecord(m) /\ m.conn = connection
  BY DEF HostTouch, ToHostInv
<1>2. FrameOf(m) \in Frame /\ FrameOf(m).session = m.session
  BY <1>1 DEF FrameOf, Frame, TouchRecord, NetTypeOK, Records, Generations, SessionIds, NoSession
<1>3. ordered \in Window /\ ordered' = Push(ordered, FrameOf(m)) /\ ordered' \in Window
  BY <1>2, PushType DEF HostTouch, HostTypeOK
<1>4. \/ ordered' = ordered
      \/ /\ ordered.session = NoSession /\ ordered'.session = m.session /\ ordered'.next = 0
         /\ \A i \in Slots : ordered'.buffered[i] \in {NoFrame, FrameOf(m)}
      \/ /\ ordered.session = m.session /\ ordered'.session = m.session
         /\ ordered'.next = ordered.next
         /\ \A i \in Slots : ordered'.buffered[i] \in {ordered.buffered[i], FrameOf(m)}
  <2>1. CASE ordered.session = m.session
    BY <1>2, <1>3, <2>1, PushAdds
  <2>2. CASE ordered.session = NoSession /\ m.id = 0
    BY <1>2, <1>3, <2>2, PushStarts DEF FrameOf
  <2>3. CASE ordered.session = NoSession /\ m.id # 0
    <3>1. ordered.requires /\ ~FrameOf(m).start
      BY <1>1, <2>3 DEF WindowInv, Served, FrameOf
    <3> QED BY <1>3, <3>1, PushWaits
  <2> QED BY <2>1, <2>2, <2>3 DEF HostTouch
<1>5. m.session \in Generations /\ m.session # NoSession
  BY <1>1 DEF TouchRecord, Generations, NoSession
<1>6. ordered.session = NoSession => committed[m.session] = <<>>
  BY <1>1, <1>5 DEF TouchRecord, Settled, HostTypeOK
<1> QED BY <1>1, <1>2, <1>3, <1>4, <1>5, <1>6

(* Every action of either peer, the path or the OS keeps the invariant.    *)
LEMMA IInvNext == IInv /\ [Next]_vars => IInv'
<1> SUFFICES ASSUME IInv, [Next]_vars PROVE IInv'
  OBVIOUS
<1> USE DEF IInv, TypeOK, phoneVars, hostVars, netVars, phoneUnchanged, ToHost, ToPhone, Record
<1>1. ASSUME PhoneOpen PROVE IInv'
  <2>1. PhoneTypeOK'
    BY <1>1, BoundAssumption DEF PhoneOpen, PhoneTypeOK
  <2>2. HostTypeOK'
    BY <1>1 DEF PhoneOpen, HostTypeOK, Phases
  <2>3. NetTypeOK'
    BY <1>1 DEF PhoneOpen, NetTypeOK
  <2>4. PhoneInv'
    BY <1>1, BoundAssumption DEF PhoneOpen, PhoneInv, PhoneTypeOK, Generations
  <2>5. ToHostInv'
    BY <1>1 DEF PhoneOpen, ToHostInv, TouchRecord, Settled
  <2>6. ToPhoneInv'
    BY <1>1 DEF PhoneOpen, ToPhoneInv
  <2>7. WindowInv'
    BY <1>1 DEF PhoneOpen, WindowInv, Served
  <2>8. CommitInv'
    BY <1>1 DEF PhoneOpen, CommitInv, AppliedInOrder, AckedMeansApplied,
      PhoneInv
  <2> QED BY <2>1, <2>2, <2>3, <2>4, <2>5, <2>6, <2>7, <2>8
<1>2. ASSUME PhoneSearch PROVE IInv'
  <2>1. PhoneTypeOK'
    BY <1>2 DEF PhoneSearch, PhoneTypeOK
  <2>2. HostTypeOK'
    BY <1>2 DEF PhoneSearch, HostTypeOK, Phases
  <2>3. NetTypeOK'
    BY <1>2, TouchAssumption DEF PhoneSearch, NetTypeOK, PhoneTypeOK, Records,
      PhoneTypes
  <2>4. PhoneInv'
    BY <1>2 DEF PhoneSearch, PhoneInv
  <2>5. ToHostInv'
    BY <1>2 DEF PhoneSearch, ToHostInv, TouchRecord, Settled
  <2>6. ToPhoneInv'
    BY <1>2 DEF PhoneSearch, ToPhoneInv
  <2>7. WindowInv'
    BY <1>2 DEF PhoneSearch, WindowInv, Served
  <2>8. CommitInv'
    BY <1>2 DEF PhoneSearch, CommitInv, AppliedInOrder, AckedMeansApplied,
      Settled
  <2> QED BY <2>1, <2>2, <2>3, <2>4, <2>5, <2>6, <2>7, <2>8
<1>3. ASSUME PhoneFails PROVE IInv'
  <2>1. PhoneTypeOK'
    BY <1>3 DEF PhoneFails, CloseSession, Fault, PhoneTypeOK
  <2>2. HostTypeOK'
    BY <1>3 DEF PhoneFails, CloseSession, Fault, HostTypeOK, Phases
  <2>3. NetTypeOK'
    BY <1>3, TouchAssumption DEF PhoneFails, CloseSession, Fault, NetTypeOK,
      PhoneTypeOK, Records, PhoneTypes
  <2>4. PhoneInv'
    BY <1>3 DEF PhoneFails, CloseSession, Fault, PhoneInv
  <2>5. ToHostInv'
    BY <1>3 DEF PhoneFails, CloseSession, Fault, ToHostInv, TouchRecord,
      Settled
  <2>6. ToPhoneInv'
    BY <1>3 DEF PhoneFails, CloseSession, Fault, ToPhoneInv
  <2>7. WindowInv'
    BY <1>3 DEF PhoneFails, CloseSession, Fault, WindowInv, Served
  <2>8. CommitInv'
    BY <1>3 DEF PhoneFails, CloseSession, Fault, CommitInv, AppliedInOrder,
      AckedMeansApplied, Settled
  <2> QED BY <2>1, <2>2, <2>3, <2>4, <2>5, <2>6, <2>7, <2>8
<1>4. ASSUME PhoneQuit PROVE IInv'
  <2>1. PhoneTypeOK'
    BY <1>4 DEF PhoneQuit, CloseSession, PhoneTypeOK
  <2>2. HostTypeOK'
    BY <1>4 DEF PhoneQuit, CloseSession, HostTypeOK, Phases
  <2>3. NetTypeOK'
    BY <1>4, TouchAssumption DEF PhoneQuit, CloseSession, NetTypeOK,
      PhoneTypeOK, Records, PhoneTypes
  <2>4. PhoneInv'
    BY <1>4 DEF PhoneQuit, CloseSession, PhoneInv
  <2>5. ToHostInv'
    BY <1>4 DEF PhoneQuit, CloseSession, ToHostInv, TouchRecord, Settled
  <2>6. ToPhoneInv'
    BY <1>4 DEF PhoneQuit, CloseSession, ToPhoneInv
  <2>7. WindowInv'
    BY <1>4 DEF PhoneQuit, CloseSession, WindowInv, Served
  <2>8. CommitInv'
    BY <1>4 DEF PhoneQuit, CloseSession, CommitInv, AppliedInOrder,
      AckedMeansApplied, Settled
  <2> QED BY <2>1, <2>2, <2>3, <2>4, <2>5, <2>6, <2>7, <2>8
<1>5. ASSUME NEW m \in toPhone, PhoneContinue(m) PROVE IInv'
  <2>1. PhoneTypeOK'
    BY <1>5 DEF PhoneContinue, PhoneTypeOK, NetTypeOK, Records
  <2>2. HostTypeOK'
    BY <1>5 DEF PhoneContinue, HostTypeOK, Phases
  <2>3. NetTypeOK'
    BY <1>5 DEF PhoneContinue, NetTypeOK
  <2>4. PhoneInv'
    BY <1>5 DEF PhoneContinue, PhoneInv, ToPhoneInv
  <2>5. ToHostInv'
    BY <1>5 DEF PhoneContinue, ToHostInv, TouchRecord, Settled
  <2>6. ToPhoneInv'
    BY <1>5 DEF PhoneContinue, ToPhoneInv
  <2>7. WindowInv'
    BY <1>5 DEF PhoneContinue, WindowInv, Served
  <2>8. CommitInv'
    BY <1>5 DEF PhoneContinue, CommitInv, AppliedInOrder, AckedMeansApplied,
      PhoneInv
  <2> QED BY <2>1, <2>2, <2>3, <2>4, <2>5, <2>6, <2>7, <2>8
<1>6. ASSUME NEW m \in toPhone, PhoneHello(m) PROVE IInv'
  <2>1. generation \in Generations /\ log[generation] = <<>>
    BY <1>6 DEF PhoneHello, PhoneInv, PhoneTypeOK, Generations
  <2>2. /\ \A g \in Generations : g # generation => log'[g] = log[g]
        /\ log'[generation] \in Seq(Touch) /\ log'[generation] # <<>>
    BY <1>6, <2>1, TouchAssumption DEF PhoneHello, PhoneTypeOK
  <2>3. log' \in [Generations -> Seq(Touch)]
    BY <1>6, <2>1, <2>2 DEF PhoneHello, PhoneTypeOK
  <2>4. LogExtends
    BY <1>6, <2>1, <2>2, <2>3 DEF LogExtends, PhoneTypeOK
  <2>5. ToHostInv' /\ WindowInv' /\ AppliedInOrder'
    BY <1>6, <2>3, <2>4, ExtendsKeeps DEF PhoneHello
  <2>6. committed[generation] = <<>>
    BY <1>6, <2>1 DEF CommitInv, AppliedInOrder, HostTypeOK
  <2>7. PhoneTypeOK'
    BY <1>6, <2>3 DEF PhoneHello, PhoneTypeOK
  <2>8. HostTypeOK'
    BY <1>6 DEF PhoneHello, HostTypeOK, Phases
  <2>9. NetTypeOK'
    BY <1>6 DEF PhoneHello, NetTypeOK
  <2>10. PhoneInv'
    BY <1>6, <2>1, <2>2 DEF PhoneHello, PhoneInv, ToPhoneInv, PhoneTypeOK,
      Generations
  <2>11. ToHostInv'
    BY <2>5
  <2>12. ToPhoneInv'
    BY <1>6 DEF PhoneHello, ToPhoneInv
  <2>13. WindowInv'
    BY <2>5
  <2>14. CommitInv'
    BY <1>6, <2>5, <2>6 DEF PhoneHello, CommitInv, AckedMeansApplied, Settled
  <2> QED BY <2>7, <2>8, <2>9, <2>10, <2>11, <2>12, <2>13, <2>14
<1>7. ASSUME NEW m \in toPhone, PhoneAck(m) PROVE IInv'
  <2>1. m.id \in Int /\ m.id < Len(committed[generation])
    BY <1>7 DEF PhoneAck, NetTypeOK, Records, ToPhoneInv
  <2>2. PhoneTypeOK'
    BY <1>7, <2>1 DEF PhoneAck, NextSequence, PhoneTypeOK
  <2>3. HostTypeOK'
    BY <1>7 DEF PhoneAck, NextSequence, HostTypeOK, Phases
  <2>4. NetTypeOK'
    BY <1>7 DEF PhoneAck, NextSequence, NetTypeOK
  <2>5. PhoneInv'
    BY <1>7 DEF PhoneAck, NextSequence, PhoneInv
  <2>6. ToHostInv'
    BY <1>7 DEF PhoneAck, NextSequence, ToHostInv, TouchRecord, Settled
  <2>7. ToPhoneInv'
    BY <1>7 DEF PhoneAck, NextSequence, ToPhoneInv
  <2>8. WindowInv'
    BY <1>7 DEF PhoneAck, NextSequence, WindowInv, Served
  <2>9. CommitInv'
    BY <1>7, <2>1 DEF PhoneAck, NextSequence, CommitInv, AppliedInOrder,
      AckedMeansApplied, Settled, PhoneInv, PhoneTypeOK, HostTypeOK
  <2> QED BY <2>2, <2>3, <2>4, <2>5, <2>6, <2>7, <2>8, <2>9
<1>8. ASSUME NEW m \in toPhone, PhoneHostAbort(m) PROVE IInv'
  <2>1. PhoneTypeOK'
    BY <1>8 DEF PhoneHostAbort, CloseSession, PhoneTypeOK
  <2>2. HostTypeOK'
    BY <1>8 DEF PhoneHostAbort, CloseSession, HostTypeOK, Phases
  <2>3. NetTypeOK'
    BY <1>8, TouchAssumption DEF PhoneHostAbort, CloseSession, NetTypeOK,
      Records, PhoneTypes
  <2>4. PhoneInv'
    BY <1>8 DEF PhoneHostAbort, CloseSession, PhoneInv
  <2>5. ToHostInv'
    BY <1>8 DEF PhoneHostAbort, CloseSession, ToHostInv, TouchRecord, Settled
  <2>6. ToPhoneInv'
    BY <1>8 DEF PhoneHostAbort, CloseSession, ToPhoneInv
  <2>7. WindowInv'
    BY <1>8 DEF PhoneHostAbort, CloseSession, WindowInv, Served
  <2>8. CommitInv'
    BY <1>8 DEF PhoneHostAbort, CloseSession, CommitInv, AppliedInOrder,
      AckedMeansApplied, Settled
  <2> QED BY <2>1, <2>2, <2>3, <2>4, <2>5, <2>6, <2>7, <2>8
<1>9. ASSUME NEW touch \in Touch, OfferFrame(touch) PROVE IInv'
  <2>1. link = "connected" /\ hostReady => generation \in Generations
    BY <1>9 DEF PhoneInv
  <2>2. /\ log' \in [Generations -> Seq(Touch)] /\ LogExtends /\ overflowed' \in BOOLEAN
        /\ \A g \in Generations : log'[g] = log[g] \/ (g = generation /\ link = "connected" /\ hostReady)
    BY <1>9, <2>1, EnqueueExtends DEF OfferFrame, PhoneTypeOK, LogExtends
  <2>3. ToHostInv' /\ WindowInv' /\ AppliedInOrder'
    BY <1>9, <2>2, ExtendsKeeps DEF OfferFrame
  <2>4. hostReady => log'[generation] # <<>>
    BY <1>9, <2>2 DEF LogExtends, PhoneInv, PhoneTypeOK, Generations
  <2>5. PhoneTypeOK'
    BY <1>9, <2>2 DEF OfferFrame, PhoneTypeOK
  <2>6. HostTypeOK'
    BY <1>9 DEF OfferFrame, HostTypeOK, Phases
  <2>7. NetTypeOK'
    BY <1>9 DEF OfferFrame, Fault, NetTypeOK
  <2>8. PhoneInv'
    BY <1>9, <2>2, <2>4 DEF OfferFrame, PhoneInv
  <2>9. ToHostInv'
    BY <2>3
  <2>10. ToPhoneInv'
    BY <1>9 DEF OfferFrame, ToPhoneInv
  <2>11. WindowInv'
    BY <2>3
  <2>12. CommitInv'
    BY <1>9, <2>3 DEF OfferFrame, CommitInv, AckedMeansApplied, Settled
  <2> QED BY <2>5, <2>6, <2>7, <2>8, <2>9, <2>10, <2>11, <2>12
<1>10. ASSUME WriterHeartbeat PROVE IInv'
  <2>1. generation \in Generations /\ retained \in Touch
    BY <1>10 DEF WriterHeartbeat, PhoneInv, PhoneTypeOK
  <2>2. /\ log' \in [Generations -> Seq(Touch)] /\ LogExtends /\ overflowed' \in BOOLEAN
        /\ \A g \in Generations : g # generation => log'[g] = log[g]
    BY <1>10, <2>1, EnqueueExtends DEF WriterHeartbeat
  <2>3. ToHostInv' /\ WindowInv' /\ AppliedInOrder'
    BY <1>10, <2>2, ExtendsKeeps DEF WriterHeartbeat
  <2>4. hostReady => log'[generation] # <<>>
    BY <1>10, <2>2 DEF LogExtends, PhoneInv, PhoneTypeOK, Generations
  <2>5. PhoneTypeOK'
    BY <1>10, <2>2 DEF WriterHeartbeat, PhoneTypeOK
  <2>6. HostTypeOK'
    BY <1>10 DEF WriterHeartbeat, HostTypeOK, Phases
  <2>7. NetTypeOK'
    BY <1>10 DEF WriterHeartbeat, NetTypeOK
  <2>8. PhoneInv'
    BY <1>10, <2>2, <2>4 DEF WriterHeartbeat, PhoneInv
  <2>9. ToHostInv'
    BY <2>3
  <2>10. ToPhoneInv'
    BY <1>10 DEF WriterHeartbeat, ToPhoneInv
  <2>11. WindowInv'
    BY <2>3
  <2>12. CommitInv'
    BY <1>10, <2>3 DEF WriterHeartbeat, CommitInv, AckedMeansApplied, Settled
  <2> QED BY <2>5, <2>6, <2>7, <2>8, <2>9, <2>10, <2>11, <2>12
<1>11. ASSUME WriterPing PROVE IInv'
  <2>1. PhoneTypeOK'
    BY <1>11 DEF WriterPing, PhoneTypeOK
  <2>2. HostTypeOK'
    BY <1>11 DEF WriterPing, HostTypeOK, Phases
  <2>3. NetTypeOK'
    BY <1>11 DEF WriterPing, NetTypeOK, PhoneTypeOK, Records, PhoneTypes
  <2>4. PhoneInv'
    BY <1>11 DEF WriterPing, PhoneInv
  <2>5. ToHostInv'
    BY <1>11 DEF WriterPing, ToHostInv, TouchRecord, Settled
  <2>6. ToPhoneInv'
    BY <1>11 DEF WriterPing, ToPhoneInv
  <2>7. WindowInv'
    BY <1>11 DEF WriterPing, WindowInv, Served
  <2>8. CommitInv'
    BY <1>11 DEF WriterPing, CommitInv, AppliedInOrder, AckedMeansApplied,
      Settled
  <2> QED BY <2>1, <2>2, <2>3, <2>4, <2>5, <2>6, <2>7, <2>8
<1>12. ASSUME NEW n \in 0 .. MaxFrames + MaxTouches + MaxFaults, WriterSend(n) PROVE IInv'
  <2>1. generation \in Generations /\ n \in Nat /\ n < Len(log[generation])
    BY <1>12, BoundAssumption DEF WriterSend, Sendable, NextSequence,
      PhoneInv, PhoneTypeOK
  <2>2. log[generation][n + 1] \in Touch
    BY <1>12, <2>1 DEF PhoneTypeOK
  <2>3. channel \in 1 .. connection /\ Settled(generation, channel)
        /\ (channel = connection => phase # "accepted")
    BY <1>12 DEF WriterSend, PhoneInv, CommitInv
  <2>4. PhoneTypeOK'
    BY <1>12 DEF WriterSend, Sendable, NextSequence, PhoneTypeOK
  <2>5. HostTypeOK'
    BY <1>12 DEF WriterSend, Sendable, NextSequence, HostTypeOK, Phases
  <2>6. NetTypeOK'
    BY <1>12, <2>1, <2>2 DEF WriterSend, Sendable, NextSequence, NetTypeOK,
      Records, PhoneTypes, PhoneTypeOK, Generations
  <2>7. PhoneInv'
    BY <1>12 DEF WriterSend, Sendable, NextSequence, PhoneInv
  <2>8. ToHostInv'
    BY <1>12, <2>1, <2>3 DEF WriterSend, Sendable, NextSequence, ToHostInv,
      TouchRecord, Settled, PhoneTypeOK, Generations
  <2>9. ToPhoneInv'
    BY <1>12 DEF WriterSend, Sendable, NextSequence, ToPhoneInv
  <2>10. WindowInv'
    BY <1>12 DEF WriterSend, Sendable, NextSequence, WindowInv, Served
  <2>11. CommitInv'
    BY <1>12 DEF WriterSend, Sendable, NextSequence, CommitInv,
      AppliedInOrder, AckedMeansApplied, Settled
  <2> QED BY <2>4, <2>5, <2>6, <2>7, <2>8, <2>9, <2>10, <2>11
<1>13. ASSUME NEW m \in toHost, HostAccept(m) PROVE IInv'
  <2>1. PhoneTypeOK'
    BY <1>13 DEF HostAccept, Fault, PhoneTypeOK
  <2>2. HostTypeOK'
    BY <1>13 DEF HostAccept, HostTypeOK, Phases, NetTypeOK, Records
  <2>3. NetTypeOK'
    BY <1>13, TouchAssumption DEF HostAccept, Fault, NetTypeOK, HostTypeOK,
      Records, HostTypes
  <2>4. PhoneInv'
    BY <1>13 DEF HostAccept, PhoneInv, HostTypeOK
  <2>5. ToHostInv'
    BY <1>13 DEF HostAccept, Fault, ToHostInv, TouchRecord, Settled,
      HostTypeOK
  <2>6. ToPhoneInv'
    BY <1>13 DEF HostAccept, ToPhoneInv, HostTypeOK
  <2>7. WindowInv'
    BY <1>13 DEF HostAccept, WindowInv, Served, HostTypeOK
  <2>8. CommitInv'
    BY <1>13 DEF HostAccept, CommitInv, AppliedInOrder, AckedMeansApplied,
      Settled, PhoneInv, HostTypeOK
  <2> QED BY <2>1, <2>2, <2>3, <2>4, <2>5, <2>6, <2>7, <2>8
<1>14. ASSUME NEW m \in toHost, HostTouch(m) PROVE IInv'
  <2>1. /\ phase = "serving" /\ phase' = "committing"
        /\ TouchRecord(m) /\ m.conn = connection
        /\ UNCHANGED <<log, committed, connection, toHost, toPhone, generation, channel, hostReady, head>>
    BY <1>14 DEF HostTouch, ToHostInv
  <2>3. ordered' \in Window
    BY <1>14, TouchEffect
  <2>4. \/ ordered' = ordered
        \/ /\ ordered.session = NoSession /\ ordered'.session = m.session /\ ordered'.next = 0
           /\ \A i \in Slots : ordered'.buffered[i] \in {NoFrame, FrameOf(m)}
        \/ /\ ordered.session = m.session /\ ordered'.session = m.session
           /\ ordered'.next = ordered.next
           /\ \A i \in Slots : ordered'.buffered[i] \in {ordered.buffered[i], FrameOf(m)}
    BY <1>14, TouchEffect
  <2>5. m.session \in Generations /\ m.session # NoSession
    BY <1>14, <2>1, TouchEffect DEF TouchRecord
  <2>6. ordered.session # NoSession => ordered'.session = ordered.session
    BY <2>4
  <2>7. ordered.session = NoSession => committed[m.session] = <<>>
    BY <1>14, TouchEffect
  <2>8. PhoneTypeOK' /\ HostTypeOK' /\ NetTypeOK'
    BY <1>14, <2>3 DEF HostTouch, PhoneTypeOK, HostTypeOK, Phases, NetTypeOK
  <2>9. PhoneInv' /\ ToPhoneInv'
    BY <1>14 DEF HostTouch, PhoneInv, ToPhoneInv
  <2>10. \A g \in Generations, c \in Nat : Settled(g, c) => Settled(g, c)'
    BY <2>1, <2>6 DEF Settled, Generations, NoSession
  <2>11. ToHostInv'
    BY <2>1, <2>10 DEF ToHostInv, TouchRecord, NetTypeOK, Records
  <2>12. WindowInv'
    <3>1. CASE ordered' = ordered
      BY <2>1, <3>1 DEF WindowInv, Served
    <3>2. CASE ordered' # ordered
      <4>1. /\ ordered'.session = m.session
            /\ \A i \in Slots : ordered'.buffered[i] # NoFrame =>
                 \/ ordered.session = m.session /\ ordered'.buffered[i] = ordered.buffered[i]
                 \/ ordered'.buffered[i] = FrameOf(m)
        BY <2>4, <3>2
      <4>2. Len(committed[m.session]) = ordered'.next
        BY <2>4, <2>5, <2>7, <3>2 DEF WindowInv
      <4>3. /\ FrameOf(m).sequence < Len(log[m.session])
            /\ FrameOf(m).touch = log[m.session][FrameOf(m).sequence + 1]
        BY <2>1 DEF FrameOf, TouchRecord, PhoneTypeOK
      <4>4. ASSUME NEW i \in Slots, ordered'.buffered[i] # NoFrame
            PROVE /\ ordered'.buffered[i].sequence < Len(log[m.session])
                  /\ ordered'.buffered[i].touch
                       = log[m.session][ordered'.buffered[i].sequence + 1]
        BY <2>5, <4>1, <4>3, <4>4 DEF WindowInv
      <4> QED BY <2>1, <2>5, <4>1, <4>2, <4>4 DEF WindowInv, Served
    <3> QED BY <3>1, <3>2
  <2>13. CommitInv'
    BY <1>14, <2>1, <2>10 DEF HostTouch, CommitInv, AppliedInOrder, AckedMeansApplied, PhoneInv, PhoneTypeOK
  <2> QED BY <2>8, <2>9, <2>11, <2>12, <2>13
<1>15. ASSUME NEW m \in toHost, HostPing(m) PROVE IInv'
  <2>1. PhoneTypeOK'
    BY <1>15 DEF HostPing, PhoneTypeOK
  <2>2. HostTypeOK'
    BY <1>15 DEF HostPing, HostTypeOK, Phases
  <2>3. NetTypeOK'
    BY <1>15, TouchAssumption DEF HostPing, NetTypeOK, Records, HostTypes
  <2>4. PhoneInv'
    BY <1>15 DEF HostPing, PhoneInv
  <2>5. ToHostInv'
    BY <1>15 DEF HostPing, ToHostInv, TouchRecord, Settled
  <2>6. ToPhoneInv'
    BY <1>15 DEF HostPing, ToPhoneInv
  <2>7. WindowInv'
    BY <1>15 DEF HostPing, WindowInv, Served
  <2>8. CommitInv'
    BY <1>15 DEF HostPing, CommitInv, AppliedInOrder, AckedMeansApplied,
      Settled
  <2> QED BY <2>1, <2>2, <2>3, <2>4, <2>5, <2>6, <2>7, <2>8
<1>16. ASSUME NEW m \in toHost, HostPhoneAbort(m) PROVE IInv'
  <2>1. PhoneTypeOK'
    BY <1>16 DEF HostPhoneAbort, EndSession, PhoneTypeOK
  <2>2. HostTypeOK'
    BY <1>16, FreshWindowType DEF HostPhoneAbort, EndSession, HostTypeOK,
      Phases, NeverAcked
  <2>3. NetTypeOK'
    BY <1>16 DEF HostPhoneAbort, EndSession, NetTypeOK
  <2>4. PhoneInv'
    BY <1>16 DEF HostPhoneAbort, EndSession, PhoneInv
  <2>5. ToHostInv'
    BY <1>16 DEF HostPhoneAbort, EndSession, ToHostInv, TouchRecord, Settled
  <2>6. ToPhoneInv'
    BY <1>16 DEF HostPhoneAbort, EndSession, ToPhoneInv
  <2>7. WindowInv'
    BY <1>16 DEF HostPhoneAbort, EndSession, WindowInv, Served,
      RequireFreshSession
  <2>8. CommitInv'
    BY <1>16 DEF HostPhoneAbort, EndSession, CommitInv, AppliedInOrder,
      AckedMeansApplied, Settled
  <2> QED BY <2>1, <2>2, <2>3, <2>4, <2>5, <2>6, <2>7, <2>8
<1>17. ASSUME NEW m \in toHost, HostResendContinue(m) PROVE IInv'
  <2>1. PhoneTypeOK'
    BY <1>17 DEF HostResendContinue, PhoneTypeOK
  <2>2. HostTypeOK'
    BY <1>17 DEF HostResendContinue, HostTypeOK, Phases
  <2>3. NetTypeOK'
    BY <1>17, TouchAssumption DEF HostResendContinue, NetTypeOK, HostTypeOK,
      Records, HostTypes
  <2>4. PhoneInv'
    BY <1>17 DEF HostResendContinue, PhoneInv
  <2>5. ToHostInv'
    BY <1>17 DEF HostResendContinue, ToHostInv, TouchRecord, Settled
  <2>6. ToPhoneInv'
    BY <1>17 DEF HostResendContinue, ToPhoneInv, HostTypeOK, WindowInv, Served
  <2>7. WindowInv'
    BY <1>17 DEF HostResendContinue, WindowInv, Served
  <2>8. CommitInv'
    BY <1>17 DEF HostResendContinue, CommitInv, AppliedInOrder,
      AckedMeansApplied, Settled
  <2> QED BY <2>1, <2>2, <2>3, <2>4, <2>5, <2>6, <2>7, <2>8
<1>18. ASSUME HostRevalidateFails PROVE IInv'
  <2>1. PhoneTypeOK'
    BY <1>18 DEF HostRevalidateFails, Fault, PhoneTypeOK
  <2>2. HostTypeOK'
    BY <1>18 DEF HostRevalidateFails, Fault, HostTypeOK, Phases
  <2>3. NetTypeOK'
    BY <1>18 DEF HostRevalidateFails, Fault, NetTypeOK
  <2>4. PhoneInv'
    BY <1>18 DEF HostRevalidateFails, Fault, PhoneInv
  <2>5. ToHostInv'
    BY <1>18 DEF HostRevalidateFails, Fault, ToHostInv, TouchRecord, Settled
  <2>6. ToPhoneInv'
    BY <1>18 DEF HostRevalidateFails, Fault, ToPhoneInv
  <2>7. WindowInv'
    BY <1>18 DEF HostRevalidateFails, Fault, WindowInv, Served
  <2>8. CommitInv'
    BY <1>18 DEF HostRevalidateFails, Fault, CommitInv, AppliedInOrder,
      AckedMeansApplied, Settled
  <2> QED BY <2>1, <2>2, <2>3, <2>4, <2>5, <2>6, <2>7, <2>8
<1>19. ASSUME HostServe PROVE IInv'
  <2>1. PhoneTypeOK'
    BY <1>19 DEF HostServe, PhoneTypeOK
  <2>2. HostTypeOK'
    BY <1>19, FreshWindowType, NeverAckedType DEF HostServe, HostTypeOK,
      Phases
  <2>3. NetTypeOK'
    BY <1>19, TouchAssumption DEF HostServe, NetTypeOK, HostTypeOK, Records,
      HostTypes, NoSession, NoAck
  <2>4. PhoneInv'
    BY <1>19 DEF HostServe, PhoneInv
  <2>5. ToHostInv'
    BY <1>19 DEF HostServe, ToHostInv, TouchRecord, Settled,
      RequireFreshSession, WindowInv, Served
  <2>6. ToPhoneInv'
    BY <1>19 DEF HostServe, ToPhoneInv, HostTypeOK, WindowInv
  <2>7. WindowInv'
    BY <1>19 DEF HostServe, WindowInv, RequireFreshSession
  <2>8. CommitInv'
    BY <1>19 DEF HostServe, CommitInv, AppliedInOrder, AckedMeansApplied,
      Settled, PhoneInv, HostTypeOK
  <2> QED BY <2>1, <2>2, <2>3, <2>4, <2>5, <2>6, <2>7, <2>8
<1>20. ASSUME HostRepairHello PROVE IInv'
  <2>1. PhoneTypeOK'
    BY <1>20 DEF HostRepairHello, PhoneTypeOK
  <2>2. HostTypeOK'
    BY <1>20 DEF HostRepairHello, HostTypeOK, Phases
  <2>3. NetTypeOK'
    BY <1>20, TouchAssumption DEF HostRepairHello, NetTypeOK, HostTypeOK,
      Records, HostTypes, NoAck, Window
  <2>4. PhoneInv'
    BY <1>20 DEF HostRepairHello, PhoneInv
  <2>5. ToHostInv'
    BY <1>20 DEF HostRepairHello, ToHostInv, TouchRecord, Settled
  <2>6. ToPhoneInv'
    BY <1>20 DEF HostRepairHello, ToPhoneInv, HostTypeOK, WindowInv, Served
  <2>7. WindowInv'
    BY <1>20 DEF HostRepairHello, WindowInv, Served
  <2>8. CommitInv'
    BY <1>20 DEF HostRepairHello, CommitInv, AppliedInOrder,
      AckedMeansApplied, Settled
  <2> QED BY <2>1, <2>2, <2>3, <2>4, <2>5, <2>6, <2>7, <2>8
<1>21. ASSUME HostCommit PROVE IInv'
  <2> DEFINE s == ordered.session
             f == HeadFrame(ordered)
  <2>1. ordered \in Window /\ SlotOf(ordered.next) \in Slots
    BY SlotOfType DEF HostTypeOK, Window
  <2>2. f \in Frame /\ f.sequence = ordered.next
    BY <1>21, <2>1 DEF HostCommit, NextReady, HeadFrame, Window
  <2>3. s \in Generations /\ s # NoSession
    BY <1>21, <2>1, <2>2, NoFrameAssumption
    DEF HostCommit, HeadFrame, WindowInv, Served, EmptyRing, Generations, NoSession
  <2>4. /\ Len(committed[s]) = ordered.next /\ ordered.next < Len(log[s])
        /\ f.touch = log[s][ordered.next + 1]
    BY <2>1, <2>2, <2>3, NoFrameAssumption DEF WindowInv, HeadFrame
  <2>5. /\ committed' \in [Generations -> Seq(Touch)]
        /\ Len(committed'[s]) = ordered.next + 1
        /\ \A i \in 1 .. (ordered.next + 1) : committed'[s][i] = log[s][i]
        /\ \A g \in Generations : g # s => committed'[g] = committed[g]
    <3>1. committed[s] \in Seq(Touch) /\ f.touch \in Touch
      BY <2>2, <2>3 DEF HostTypeOK, Frame
    <3>2. /\ Append(committed[s], f.touch) \in Seq(Touch)
          /\ Len(Append(committed[s], f.touch)) = Len(committed[s]) + 1
          /\ Append(committed[s], f.touch)[Len(committed[s]) + 1] = f.touch
          /\ \A i \in 1 .. Len(committed[s]) :
               Append(committed[s], f.touch)[i] = committed[s][i]
      BY <3>1
    <3>3. /\ committed'[s] = Append(committed[s], f.touch)
          /\ \A g \in Generations : g # s => committed'[g] = committed[g]
          /\ committed' \in [Generations -> Seq(Touch)]
      BY <1>21, <2>3, <3>2 DEF HostCommit, HostTypeOK
    <3>4. \A i \in 1 .. Len(committed[s]) : committed[s][i] = log[s][i]
      BY <2>3 DEF CommitInv, AppliedInOrder
    <3>5. ordered.next \in Nat
      BY <2>1 DEF Window
    <3>6. \A i \in 1 .. (ordered.next + 1) : i \in 1 .. ordered.next \/ i = ordered.next + 1
      BY <3>5
    <3> HIDE DEF s, f
    <3> QED BY <2>4, <3>2, <3>3, <3>4, <3>5, <3>6
  <2>6. /\ ordered' = CommitReady(ordered) /\ ordered' \in Window
        /\ ordered'.session = s /\ ordered'.next = ordered.next + 1
        /\ \A i \in Slots : ordered'.buffered[i] \in {NoFrame, ordered.buffered[i]}
    BY <1>21, <2>1, CommitReadyType DEF HostCommit, CommitReady, Window
  <2>7. \A g \in Generations : Len(committed[g]) \in Nat /\ Len(committed[g]) <= Len(committed'[g])
    <3>1. \A g \in Generations : Len(committed[g]) \in Nat
      BY DEF HostTypeOK
    <3> QED BY <2>3, <2>4, <2>5, <3>1
  <2>8. \A g \in Generations, c \in Nat : Settled(g, c) => Settled(g, c)'
    BY <1>21, <2>5, <2>6 DEF HostCommit, Settled
  <2>9. PhoneTypeOK' /\ HostTypeOK' /\ NetTypeOK'
    BY <1>21, <2>2, <2>5, <2>6 DEF HostCommit, PhoneTypeOK, HostTypeOK, NetTypeOK, Frame
  <2>10. PhoneInv'
    BY <1>21 DEF HostCommit, PhoneInv
  <2>11. ToPhoneInv'
    BY <1>21, <2>5, <2>7 DEF HostCommit, ToPhoneInv, NetTypeOK, Records, HostTypeOK
  <2>12. ToHostInv'
    BY <1>21, <2>8 DEF HostCommit, ToHostInv, TouchRecord, NetTypeOK, Records
  <2>13. WindowInv'
    BY <1>21, <2>3, <2>5, <2>6 DEF HostCommit, WindowInv, Served
  <2>14. AppliedInOrder'
    BY <1>21, <2>1, <2>4, <2>5 DEF HostCommit, CommitInv, AppliedInOrder, Window, PhoneTypeOK
  <2>15. AckedMeansApplied'
    BY <1>21, <2>7, <2>5 DEF HostCommit, CommitInv, AckedMeansApplied, PhoneInv, PhoneTypeOK, HostTypeOK
  <2>16. CommitInv'
    BY <1>21, <2>8, <2>14, <2>15 DEF HostCommit, CommitInv, PhoneInv, PhoneTypeOK
  <2> QED BY <2>9, <2>10, <2>11, <2>12, <2>13, <2>16
<1>22. ASSUME HostSinkRefuses PROVE IInv'
  <2>1. faults' \in Nat
    BY <1>22 DEF HostSinkRefuses, Fault, NetTypeOK
  <2>2. PhoneTypeOK'
    BY <1>22 DEF HostSinkRefuses, EndSession, NotifyEnd, PhoneTypeOK
  <2>3. HostTypeOK'
    BY <1>22, FreshWindowType DEF HostSinkRefuses, EndSession, NotifyEnd,
      HostTypeOK, Phases, NeverAcked
  <2>4. NetTypeOK'
    BY <1>22, <2>1, TouchAssumption DEF HostSinkRefuses, EndSession,
      NotifyEnd, NetTypeOK, HostTypeOK, Records, HostTypes, Window
  <2>5. PhoneInv'
    BY <1>22 DEF HostSinkRefuses, EndSession, NotifyEnd, PhoneInv
  <2>6. ToHostInv'
    BY <1>22 DEF HostSinkRefuses, EndSession, NotifyEnd, ToHostInv,
      TouchRecord, Settled
  <2>7. ToPhoneInv'
    BY <1>22 DEF HostSinkRefuses, EndSession, NotifyEnd, ToPhoneInv
  <2>8. WindowInv'
    BY <1>22 DEF HostSinkRefuses, EndSession, WindowInv, Served,
      RequireFreshSession
  <2>9. CommitInv'
    BY <1>22 DEF HostSinkRefuses, EndSession, NotifyEnd, CommitInv,
      AppliedInOrder, AckedMeansApplied, Settled
  <2> QED BY <2>2, <2>3, <2>4, <2>5, <2>6, <2>7, <2>8, <2>9
<1>23. ASSUME HostAck PROVE IInv'
  <2>1. PhoneTypeOK'
    BY <1>23 DEF HostAck, AcknowledgedSequence, PhoneTypeOK
  <2>2. HostTypeOK'
    BY <1>23 DEF HostAck, AcknowledgedSequence, HostTypeOK, Phases
  <2>3. NetTypeOK'
    BY <1>23, TouchAssumption DEF HostAck, AcknowledgedSequence, NetTypeOK,
      HostTypeOK, Records, HostTypes, Window
  <2>4. PhoneInv'
    BY <1>23 DEF HostAck, AcknowledgedSequence, PhoneInv
  <2>5. ToHostInv'
    BY <1>23 DEF HostAck, AcknowledgedSequence, ToHostInv, TouchRecord,
      Settled
  <2>6. ToPhoneInv'
    BY <1>23 DEF HostAck, AcknowledgedSequence, ToPhoneInv, WindowInv
  <2>7. WindowInv'
    BY <1>23 DEF HostAck, AcknowledgedSequence, WindowInv, Served
  <2>8. CommitInv'
    BY <1>23 DEF HostAck, AcknowledgedSequence, CommitInv, AppliedInOrder,
      AckedMeansApplied, Settled
  <2> QED BY <2>1, <2>2, <2>3, <2>4, <2>5, <2>6, <2>7, <2>8
<1>24. ASSUME HostSkipAck PROVE IInv'
  <2>1. PhoneTypeOK'
    BY <1>24 DEF HostSkipAck, PhoneTypeOK
  <2>2. HostTypeOK'
    BY <1>24 DEF HostSkipAck, HostTypeOK, Phases
  <2>3. NetTypeOK'
    BY <1>24 DEF HostSkipAck, NetTypeOK
  <2>4. PhoneInv'
    BY <1>24 DEF HostSkipAck, PhoneInv
  <2>5. ToHostInv'
    BY <1>24 DEF HostSkipAck, ToHostInv, TouchRecord, Settled
  <2>6. ToPhoneInv'
    BY <1>24 DEF HostSkipAck, ToPhoneInv
  <2>7. WindowInv'
    BY <1>24 DEF HostSkipAck, WindowInv, Served
  <2>8. CommitInv'
    BY <1>24 DEF HostSkipAck, CommitInv, AppliedInOrder, AckedMeansApplied,
      Settled
  <2> QED BY <2>1, <2>2, <2>3, <2>4, <2>5, <2>6, <2>7, <2>8
<1>25. ASSUME HostFails PROVE IInv'
  <2>1. PhoneTypeOK'
    BY <1>25 DEF HostFails, EndSession, NotifyEnd, Fault, PhoneTypeOK
  <2>2. HostTypeOK'
    BY <1>25, FreshWindowType DEF HostFails, EndSession, NotifyEnd, Fault,
      HostTypeOK, Phases, NeverAcked
  <2>3. NetTypeOK'
    BY <1>25, TouchAssumption DEF HostFails, NotifyEnd, Fault, NetTypeOK,
      HostTypeOK, Records, HostTypes, Window
  <2>4. PhoneInv'
    BY <1>25 DEF HostFails, EndSession, NotifyEnd, Fault, PhoneInv
  <2>5. ToHostInv'
    BY <1>25 DEF HostFails, EndSession, NotifyEnd, Fault, ToHostInv,
      TouchRecord, Settled
  <2>6. ToPhoneInv'
    BY <1>25 DEF HostFails, EndSession, NotifyEnd, Fault, ToPhoneInv
  <2>7. WindowInv'
    BY <1>25 DEF HostFails, EndSession, WindowInv, Served, RequireFreshSession
  <2>8. CommitInv'
    BY <1>25 DEF HostFails, EndSession, NotifyEnd, Fault, CommitInv,
      AppliedInOrder, AckedMeansApplied, Settled
  <2> QED BY <2>1, <2>2, <2>3, <2>4, <2>5, <2>6, <2>7, <2>8
<1>26. ASSUME HostStops PROVE IInv'
  <2>1. PhoneTypeOK'
    BY <1>26 DEF HostStops, EndSession, NotifyEnd, PhoneTypeOK
  <2>2. HostTypeOK'
    BY <1>26, FreshWindowType DEF HostStops, EndSession, NotifyEnd,
      HostTypeOK, Phases, NeverAcked
  <2>3. NetTypeOK'
    BY <1>26, TouchAssumption DEF HostStops, NotifyEnd, NetTypeOK, HostTypeOK,
      Records, HostTypes, Window
  <2>4. PhoneInv'
    BY <1>26 DEF HostStops, EndSession, NotifyEnd, PhoneInv
  <2>5. ToHostInv'
    BY <1>26 DEF HostStops, EndSession, NotifyEnd, ToHostInv, TouchRecord,
      Settled
  <2>6. ToPhoneInv'
    BY <1>26 DEF HostStops, EndSession, NotifyEnd, ToPhoneInv
  <2>7. WindowInv'
    BY <1>26 DEF HostStops, EndSession, WindowInv, Served, RequireFreshSession
  <2>8. CommitInv'
    BY <1>26 DEF HostStops, EndSession, NotifyEnd, CommitInv, AppliedInOrder,
      AckedMeansApplied, Settled
  <2> QED BY <2>1, <2>2, <2>3, <2>4, <2>5, <2>6, <2>7, <2>8
<1>27. ASSUME HostReleases PROVE IInv'
  <2>1. PhoneTypeOK'
    BY <1>27 DEF HostReleases, PhoneTypeOK
  <2>2. HostTypeOK'
    BY <1>27, TouchAssumption DEF HostReleases, HostTypeOK, Phases
  <2>3. NetTypeOK'
    BY <1>27 DEF HostReleases, NetTypeOK
  <2>4. PhoneInv'
    BY <1>27 DEF HostReleases, PhoneInv
  <2>5. ToHostInv'
    BY <1>27 DEF HostReleases, ToHostInv, TouchRecord, Settled
  <2>6. ToPhoneInv'
    BY <1>27 DEF HostReleases, ToPhoneInv
  <2>7. WindowInv'
    BY <1>27 DEF HostReleases, WindowInv, Served
  <2>8. CommitInv'
    BY <1>27 DEF HostReleases, CommitInv, AppliedInOrder, AckedMeansApplied,
      Settled
  <2> QED BY <2>1, <2>2, <2>3, <2>4, <2>5, <2>6, <2>7, <2>8
<1>28. ASSUME HostReleaseRefused PROVE IInv'
  <2>1. PhoneTypeOK'
    BY <1>28 DEF HostReleaseRefused, Fault, PhoneTypeOK
  <2>2. HostTypeOK'
    BY <1>28 DEF HostReleaseRefused, Fault, HostTypeOK, Phases
  <2>3. NetTypeOK'
    BY <1>28 DEF HostReleaseRefused, Fault, NetTypeOK
  <2>4. PhoneInv'
    BY <1>28 DEF HostReleaseRefused, Fault, PhoneInv
  <2>5. ToHostInv'
    BY <1>28 DEF HostReleaseRefused, Fault, ToHostInv, TouchRecord, Settled
  <2>6. ToPhoneInv'
    BY <1>28 DEF HostReleaseRefused, Fault, ToPhoneInv
  <2>7. WindowInv'
    BY <1>28 DEF HostReleaseRefused, Fault, WindowInv, Served
  <2>8. CommitInv'
    BY <1>28 DEF HostReleaseRefused, Fault, CommitInv, AppliedInOrder,
      AckedMeansApplied, Settled
  <2> QED BY <2>1, <2>2, <2>3, <2>4, <2>5, <2>6, <2>7, <2>8
<1>29. ASSUME HostExit PROVE IInv'
  <2>1. PhoneTypeOK'
    BY <1>29 DEF HostExit, PhoneTypeOK
  <2>2. HostTypeOK'
    BY <1>29 DEF HostExit, HostTypeOK, Phases
  <2>3. NetTypeOK'
    BY <1>29 DEF HostExit, NetTypeOK
  <2>4. PhoneInv'
    BY <1>29 DEF HostExit, PhoneInv
  <2>5. ToHostInv'
    BY <1>29 DEF HostExit, ToHostInv, TouchRecord, Settled
  <2>6. ToPhoneInv'
    BY <1>29 DEF HostExit, ToPhoneInv
  <2>7. WindowInv'
    BY <1>29 DEF HostExit, WindowInv, Served
  <2>8. CommitInv'
    BY <1>29 DEF HostExit, CommitInv, AppliedInOrder, AckedMeansApplied,
      Settled
  <2> QED BY <2>1, <2>2, <2>3, <2>4, <2>5, <2>6, <2>7, <2>8
<1>30. ASSUME RequestStop PROVE IInv'
  <2>1. PhoneTypeOK'
    BY <1>30 DEF RequestStop, PhoneTypeOK
  <2>2. HostTypeOK'
    BY <1>30 DEF RequestStop, HostTypeOK, Phases
  <2>3. NetTypeOK'
    BY <1>30 DEF RequestStop, NetTypeOK
  <2>4. PhoneInv'
    BY <1>30 DEF RequestStop, PhoneInv
  <2>5. ToHostInv'
    BY <1>30 DEF RequestStop, ToHostInv, TouchRecord, Settled
  <2>6. ToPhoneInv'
    BY <1>30 DEF RequestStop, ToPhoneInv
  <2>7. WindowInv'
    BY <1>30 DEF RequestStop, WindowInv, Served
  <2>8. CommitInv'
    BY <1>30 DEF RequestStop, CommitInv, AppliedInOrder, AckedMeansApplied,
      Settled
  <2> QED BY <2>1, <2>2, <2>3, <2>4, <2>5, <2>6, <2>7, <2>8
<1>31. ASSUME Lose PROVE IInv'
  <2>1. PhoneTypeOK'
    BY <1>31 DEF Lose, PhoneTypeOK
  <2>2. HostTypeOK'
    BY <1>31 DEF Lose, HostTypeOK, Phases
  <2>3. NetTypeOK'
    BY <1>31 DEF Lose, NetTypeOK
  <2>4. PhoneInv'
    BY <1>31 DEF Lose, PhoneInv
  <2>5. ToHostInv'
    BY <1>31 DEF Lose, ToHostInv, TouchRecord, Settled
  <2>6. ToPhoneInv'
    BY <1>31 DEF Lose, ToPhoneInv
  <2>7. WindowInv'
    BY <1>31 DEF Lose, WindowInv, Served
  <2>8. CommitInv'
    BY <1>31 DEF Lose, CommitInv, AppliedInOrder, AckedMeansApplied, Settled
  <2> QED BY <2>1, <2>2, <2>3, <2>4, <2>5, <2>6, <2>7, <2>8
<1>32. ASSUME UNCHANGED vars PROVE IInv'
  <2>1. TypeOK'
    BY <1>32 DEF vars, PhoneTypeOK, HostTypeOK, NetTypeOK
  <2>2. PhoneInv' /\ ToPhoneInv' /\ WindowInv'
    BY <1>32 DEF vars, PhoneInv, ToPhoneInv, WindowInv, Served
  <2>3. ToHostInv' /\ CommitInv'
    BY <1>32 DEF vars, ToHostInv, TouchRecord, Settled, CommitInv, AppliedInOrder, AckedMeansApplied
  <2> QED BY <2>1, <2>2, <2>3
<1> QED
  BY <1>1, <1>2, <1>3, <1>4, <1>5, <1>6, <1>7, <1>8, <1>9, <1>10, <1>11,
     <1>12, <1>13, <1>14, <1>15, <1>16, <1>17, <1>18, <1>19, <1>20, <1>21,
     <1>22, <1>23, <1>24, <1>25, <1>26, <1>27, <1>28, <1>29, <1>30, <1>31,
     <1>32 DEF Next, PhoneNext, HostNext

(* The initial state satisfies the invariant.                              *)
LEMMA IInvInit == Init => IInv
<1> SUFFICES ASSUME Init PROVE IInv
  OBVIOUS
<1> USE DEF Init
<1>1. TypeOK
  <2>0. 0 \in 0 .. MaxGenerations /\ [g \in Generations |-> <<>>] \in [Generations -> Seq(Touch)]
    BY BoundAssumption
  <2>1. PhoneTypeOK
    BY <2>0, TouchAssumption DEF PhoneTypeOK
  <2>2. HostTypeOK
    BY <2>0, TouchAssumption, FreshWindowType, NeverAckedType DEF HostTypeOK, Phases
  <2>3. NetTypeOK
    BY DEF NetTypeOK
  <2> QED BY <2>1, <2>2, <2>3 DEF TypeOK
<1>2. PhoneInv
  BY DEF PhoneInv, Generations
<1>3. ToHostInv /\ ToPhoneInv
  BY DEF ToHostInv, ToPhoneInv
<1>4. WindowInv
  BY DEF WindowInv, Served, NewWindow, NoSession
<1>5. CommitInv
  BY DEF CommitInv, AppliedInOrder, AckedMeansApplied, Generations
<1> QED BY <1>1, <1>2, <1>3, <1>4, <1>5 DEF IInv

(* The inductive invariant holds in every reachable state.                 *)
THEOREM Invariance == Spec => []IInv
  BY IInvInit, IInvNext, PTL DEF Spec

(* Every variable keeps its type; in particular no partial submission is   *)
(* ever queued, buffered or committed.                                     *)
THEOREM TypeCorrect == Spec => []TypeOK
<1>1. IInv => TypeOK
  BY DEF IInv
<1> QED BY <1>1, Invariance, PTL

(* What the sink accepted is a prefix of what the phone queued.            *)
THEOREM Order == Spec => []AppliedInOrder
<1>1. IInv => AppliedInOrder
  BY DEF IInv, CommitInv
<1> QED BY <1>1, Invariance, PTL

(* The phone retires no frame the sink has not accepted.                   *)
THEOREM Acknowledgement == Spec => []AckedMeansApplied
<1>1. IInv => AckedMeansApplied
  BY DEF IInv, CommitInv
<1> QED BY <1>1, Invariance, PTL
(* A step joins a session only while nothing of it is committed.           *)
LEMMA JoinStep ==
  IInv /\ [Next]_vars =>
    \A g \in Generations : ordered.session # g /\ ordered'.session = g => committed[g] = <<>>
<1> SUFFICES ASSUME IInv, [Next]_vars, NEW g \in Generations,
                    ordered.session # g, ordered'.session = g
             PROVE committed[g] = <<>>
  OBVIOUS
<1>1. g # NoSession
  BY DEF Generations, NoSession
<1>2. ASSUME UNCHANGED hostVars PROVE FALSE
  BY <1>2 DEF hostVars
<1>3. ASSUME ordered' = RequireFreshSession PROVE FALSE
  BY <1>1, <1>3 DEF RequireFreshSession
<1>4. ASSUME HostCommit PROVE FALSE
  BY <1>4 DEF HostCommit, CommitReady
<1>5. ASSUME NEW m \in toHost, HostTouch(m) PROVE committed[g] = <<>>
  BY <1>5, TouchEffect
<1>6. CASE PhoneNext \/ Lose \/ UNCHANGED vars
  <2>1. UNCHANGED hostVars
    BY <1>6 DEF PhoneNext, Lose, vars, PhoneOpen, PhoneSearch, PhoneContinue, PhoneHello,
      PhoneAck, OfferFrame, WriterHeartbeat, WriterSend, WriterPing, CloseSession,
      PhoneHostAbort, PhoneFails, PhoneQuit
  <2> QED BY <1>2, <2>1
<1>7. CASE HostNext
  <2>1. ASSUME UNCHANGED ordered PROVE FALSE
    BY <2>1
  <2>2. ASSUME NEW m \in toHost,
               HostAccept(m) \/ HostPing(m) \/ HostResendContinue(m)
        PROVE FALSE
    BY <2>1, <2>2 DEF HostAccept, HostPing, HostResendContinue, hostVars
  <2>3. ASSUME NEW m \in toHost, HostPhoneAbort(m) PROVE FALSE
    BY <1>3, <2>3 DEF HostPhoneAbort, EndSession
  <2>4. CASE HostServe \/ HostSinkRefuses \/ HostFails \/ HostStops
    BY <1>3, <2>4 DEF HostServe, HostSinkRefuses, HostFails, HostStops, EndSession
  <2>5. CASE \/ HostRevalidateFails \/ HostRepairHello \/ HostAck \/ HostSkipAck
             \/ HostReleases \/ HostReleaseRefused \/ HostExit \/ RequestStop
    BY <2>1, <2>5 DEF HostRevalidateFails, HostRepairHello, HostAck, HostSkipAck,
      HostReleases, HostReleaseRefused, HostExit, RequestStop, hostVars
  <2> QED BY <1>4, <1>5, <1>7, <2>2, <2>3, <2>4, <2>5 DEF HostNext
<1> QED BY <1>6, <1>7 DEF Next

(* Once left, a session is never resumed: whatever of it is delayed or     *)
(* repaired, the window joins only sessions it has committed nothing of.   *)
THEOREM NoResumption == Spec => SessionNeverResumed
<1>1. IInv /\ [Next]_vars =>
        [\A g \in Generations :
           ordered.session # g /\ ordered'.session = g => committed[g] = <<>>]_vars
  BY JoinStep
<1> QED BY <1>1, Invariance, PTL DEF Spec, SessionNeverResumed
(* A step keeps the OS in step with the session being served.              *)
LEMMA HeldStep == IInv /\ HeldFollowsSession /\ [Next]_vars => HeldFollowsSession'
<1> SUFFICES ASSUME IInv, HeldFollowsSession, [Next]_vars PROVE HeldFollowsSession'
  OBVIOUS
<1>1. ASSUME UNCHANGED <<phase, ordered, held, committed>> PROVE HeldFollowsSession'
  BY <1>1 DEF HeldFollowsSession
<1>2. ASSUME phase' \in {"ending", "stopped"} PROVE HeldFollowsSession'
  BY <1>2 DEF HeldFollowsSession
<1>3. ASSUME phase \in {"waiting", "accepted"}, phase' \in {"waiting", "accepted"}, UNCHANGED held
      PROVE HeldFollowsSession'
  BY <1>3 DEF HeldFollowsSession
<1>4. ASSUME {phase, phase'} \subseteq {"serving", "committing"},
             UNCHANGED <<ordered, held, committed>>
      PROVE HeldFollowsSession'
  BY <1>4 DEF HeldFollowsSession
<1>5. ASSUME HostServe PROVE HeldFollowsSession'
  BY <1>5 DEF HostServe, HeldFollowsSession, RequireFreshSession
<1>6. ASSUME HostReleases PROVE HeldFollowsSession'
  BY <1>6 DEF HostReleases, HeldFollowsSession
<1>7. ASSUME NEW m \in toHost, HostTouch(m) PROVE HeldFollowsSession'
  <2>1. phase = "serving" /\ phase' = "committing" /\ UNCHANGED <<held, committed>>
    BY <1>7 DEF HostTouch
  <2>2. \/ ordered' = ordered
        \/ ordered.session = NoSession /\ ordered'.next = 0
        \/ ordered'.session = ordered.session /\ ordered'.next = ordered.next
    BY <1>7, TouchEffect
  <2> QED BY <2>1, <2>2 DEF HeldFollowsSession
<1>8. ASSUME HostCommit PROVE HeldFollowsSession'
  <2> DEFINE s == ordered.session
             touch == HeadFrame(ordered).touch
  <2>1. /\ phase = "committing" /\ phase' = "committing" /\ held' = touch
        /\ committed' = [committed EXCEPT ![s] = Append(committed[s], touch)]
        /\ ordered' = CommitReady(ordered)
    BY <1>8 DEF HostCommit
  <2>2. ordered \in Window /\ committed \in [Generations -> Seq(Touch)]
    BY DEF IInv, TypeOK, HostTypeOK
  <2>3. s # NoSession
    <3>1. HeadFrame(ordered) # NoFrame /\ SlotOf(ordered.next) \in Slots
      BY <1>8, <2>2, SlotOfType DEF HostCommit, NextReady, Window
    <3>2. ordered.buffered # EmptyRing
      BY <3>1 DEF HeadFrame, EmptyRing
    <3> QED BY <2>1, <3>2 DEF IInv, WindowInv, Served
  <2>4. s \in Generations /\ committed[s] \in Seq(Touch) /\ Len(committed[s]) = ordered.next
    BY <2>2, <2>3 DEF IInv, WindowInv
  <2>5. ordered'.session = s /\ ordered'.next = ordered.next + 1
    BY <2>1 DEF CommitReady
  <2>6. touch \in Touch
    <3>1. HeadFrame(ordered) \in Frame
      BY <1>8, <2>2, SlotOfType DEF HostCommit, NextReady, HeadFrame, Window
    <3> QED BY <3>1 DEF Frame
  <2>7. committed'[s] = Append(committed[s], touch)
    BY <2>1, <2>2, <2>4
  <2>8. committed'[s][ordered'.next] = touch
    BY <2>4, <2>5, <2>6, <2>7
  <2>9. ordered'.next # 0
    BY <2>2, <2>5 DEF Window
  <2> QED BY <2>1, <2>3, <2>5, <2>8, <2>9 DEF HeldFollowsSession
<1>9. CASE PhoneNext \/ Lose \/ UNCHANGED vars
  <2>1. UNCHANGED hostVars
    BY <1>9 DEF PhoneNext, Lose, vars, PhoneOpen, PhoneSearch, PhoneContinue, PhoneHello,
      PhoneAck, OfferFrame, WriterHeartbeat, WriterSend, WriterPing, CloseSession,
      PhoneHostAbort, PhoneFails, PhoneQuit
  <2> QED BY <1>1, <2>1 DEF hostVars
<1>10. CASE HostNext
  <2>1. ASSUME NEW m \in toHost, HostAccept(m) PROVE HeldFollowsSession'
    BY <1>3, <2>1 DEF HostAccept
  <2>2. ASSUME NEW m \in toHost, HostPing(m) \/ HostResendContinue(m)
        PROVE HeldFollowsSession'
    BY <1>1, <2>2 DEF HostPing, HostResendContinue, hostVars
  <2>3. ASSUME NEW m \in toHost, HostPhoneAbort(m) PROVE HeldFollowsSession'
    BY <1>2, <2>3 DEF HostPhoneAbort, EndSession
  <2>4. CASE HostSinkRefuses \/ HostFails \/ HostStops
    BY <1>2, <2>4 DEF HostSinkRefuses, HostFails, HostStops, EndSession
  <2>5. CASE HostReleaseRefused \/ HostExit
    BY <1>2, <2>5 DEF HostReleaseRefused, HostExit
  <2>6. CASE HostRevalidateFails
    BY <1>3, <2>6 DEF HostRevalidateFails
  <2>7. CASE HostRepairHello \/ RequestStop
    BY <1>1, <2>7 DEF HostRepairHello, RequestStop, hostVars
  <2>8. CASE HostAck \/ HostSkipAck
    BY <1>4, <2>8 DEF HostAck, HostSkipAck
  <2> QED BY <1>5, <1>6, <1>7, <1>8, <1>10, <2>1, <2>2, <2>3, <2>4, <2>5, <2>6, <2>7, <2>8
       DEF HostNext
<1> QED BY <1>9, <1>10 DEF Next

(* The OS holds exactly the last snapshot committed in the served session, *)
(* and nothing between sessions, however the release before it failed.     *)
THEOREM HeldCorrect == Spec => []HeldFollowsSession
<1>1. Init => HeldFollowsSession
  BY DEF Init, HeldFollowsSession
<1> QED BY <1>1, HeldStep, Invariance, PTL DEF Spec

------------------------------------------------------------------------------
(* The second invariant: the records in flight.                            *)

Number(m) == m.conn \in 1 .. connection

(* A connection answers one exchange of the phone: what either side ever   *)
(* sends under its keys is about that session.                             *)
Bound(answered) ==
  /\ connection > 0 => answered[connection] = exchange
  /\ link = "connected" => answered[channel] = generation
  /\ \A m \in toHost : m.type \in {"TOUCH", "PING"} =>
       Number(m) /\ answered[m.conn] = m.session
  /\ \A m \in toPhone : m.type \in {"IK_CONTINUE", "ACK", "PONG"} =>
       Number(m) /\ answered[m.conn] = m.session

BindingInv ==
  /\ \A m \in toHost : m.type = "IK_MESSAGE_1" => m.session \in Generations
  /\ \E answered \in [1 .. connection -> Generations] : Bound(answered)

(* The window owns the session of its connection, and its ring is in order.*)
RingInv ==
  /\ ordered.session # NoSession => ordered.session = exchange /\ ~ordered.requires
  /\ WellFormed(ordered)
  /\ \A i \in Slots : ordered.buffered[i] # NoFrame =>
       (ordered.buffered[i].start <=> ordered.buffered[i].sequence = 0)

(* A frame in flight is less than a send window past what the host         *)
(* committed of its session.                                               *)
SendInv ==
  \A m \in toHost : m.type = "TOUCH" => m.id < Len(committed[m.session]) + SendWindow

(* A PING leaves a phone whose session the host owns, with an id the phone *)
(* has drawn on this channel.                                              *)
PingInv ==
  \A m \in toHost : m.type = "PING" =>
    /\ m.session \in Generations /\ committed[m.session] # <<>>
    /\ Settled(m.session, m.conn)
    /\ link = "connected" /\ m.conn = channel => m.id < nextPingId

(* An answer is about a session that the phone has started.                *)
ReplyInv ==
  /\ ordered.session # NoSession => log[ordered.session] # <<>>
  /\ \A m \in toPhone : m.type \in {"ACK", "PONG"} =>
       m.session \in Generations /\ log[m.session] # <<>>
  /\ \A m \in toPhone :
       m.type = "PONG" /\ link = "connected" /\ m.conn = channel => m.id < nextPingId

WInv == IInv /\ BindingInv /\ RingInv /\ SendInv /\ PingInv /\ ReplyInv

------------------------------------------------------------------------------
(* What every step of the system does to the logs and to the records.      *)

CommitsExtend == \A g \in Generations : Len(committed[g]) <= Len(committed'[g])

(* Lengths are numbers.                                                    *)
LEMMA Lengths ==
  ASSUME IInv
  PROVE  \A g \in Generations : Len(log[g]) \in Nat /\ Len(committed[g]) \in Nat
  BY DEF IInv, TypeOK, PhoneTypeOK, HostTypeOK

(* A session's log and its commits only grow.                              *)
LEMMA Grows ==
  ASSUME IInv, [Next]_vars
  PROVE  LogExtends /\ CommitsExtend
<1>0. \A g \in Generations : Len(log[g]) \in Nat /\ Len(committed[g]) \in Nat
  BY Lengths
<1>1. CommitsExtend
  <2>1. ASSUME UNCHANGED committed PROVE CommitsExtend
    BY <1>0, <2>1 DEF CommitsExtend
  <2>2. ASSUME HostCommit PROVE CommitsExtend
    <3> DEFINE s == ordered.session
               touch == HeadFrame(ordered).touch
    <3>1. committed \in [Generations -> Seq(Touch)]
      BY DEF IInv, TypeOK, HostTypeOK
    <3>2. committed' = [committed EXCEPT ![s] = Append(committed[s], touch)]
      BY <2>2 DEF HostCommit
    <3> HIDE DEF s, touch
    <3>3. s \in Generations =>
            committed'[s] = Append(committed[s], touch) /\ committed[s] \in Seq(Touch)
      BY <3>1, <3>2
    <3>4. s \in Generations => Len(committed'[s]) = Len(committed[s]) + 1
      BY <3>3
    <3>5. \A g \in Generations : g # s => committed'[g] = committed[g]
      BY <3>1, <3>2
    <3> QED BY <1>0, <3>4, <3>5 DEF CommitsExtend
  <2>3. ~HostCommit => UNCHANGED committed
    BY DEF Next, PhoneNext, HostNext, Lose, vars, hostVars, PhoneOpen, PhoneSearch, PhoneContinue, PhoneHello, PhoneAck, OfferFrame,
      WriterHeartbeat, WriterSend, WriterPing, CloseSession, PhoneHostAbort, PhoneFails, PhoneQuit,
      HostAccept, HostTouch, HostPing, HostPhoneAbort, HostResendContinue,
      HostRevalidateFails, HostServe, HostRepairHello, HostSinkRefuses, HostAck,
      HostSkipAck, HostFails, HostStops, HostReleases, HostReleaseRefused, HostExit,
      RequestStop, EndSession
  <2> QED BY <2>1, <2>2, <2>3
<1>2. LogExtends
  <2>1. ASSUME UNCHANGED log PROVE LogExtends
    BY <1>0, <2>1 DEF LogExtends
  <2>2. ASSUME NEW m \in toPhone, PhoneHello(m) PROVE LogExtends
    <3>1. generation \in Generations /\ log[generation] = <<>>
      BY <2>2 DEF PhoneHello, IInv, PhoneInv
    <3>2. \A g \in Generations : g # generation => log'[g] = log[g]
      BY <2>2 DEF PhoneHello, IInv, TypeOK, PhoneTypeOK
    <3>3. log'[generation] \in Seq(Touch)
      BY <2>2, <3>1, TouchAssumption DEF PhoneHello, IInv, TypeOK, PhoneTypeOK
    <3>4. Len(log'[generation]) >= 0 /\ Len(log[generation]) = 0
      BY <3>1, <3>3
    <3> QED BY <1>0, <3>2, <3>4 DEF LogExtends
  <2>3. ASSUME NEW touch \in Touch, OfferFrame(touch) PROVE LogExtends
    BY <2>1, <2>3, EnqueueExtends DEF OfferFrame, IInv, TypeOK, PhoneInv
  <2>4. ASSUME WriterHeartbeat PROVE LogExtends
    <3>1. generation \in Generations /\ retained \in Touch
      BY <2>4 DEF WriterHeartbeat, IInv, TypeOK, PhoneInv, PhoneTypeOK
    <3> QED BY <2>4, <3>1, EnqueueExtends DEF WriterHeartbeat, IInv, TypeOK
  <2>5. \/ \E m \in toPhone : PhoneHello(m)
        \/ \E touch \in Touch : OfferFrame(touch)
        \/ WriterHeartbeat
        \/ UNCHANGED log
    <3>1. CASE PhoneNext
      BY <3>1 DEF PhoneNext, phoneVars, PhoneOpen, PhoneSearch, PhoneContinue, PhoneAck,
        WriterSend, WriterPing, CloseSession, PhoneHostAbort, PhoneFails, PhoneQuit
    <3>2. CASE HostNext \/ Lose \/ UNCHANGED vars
      BY <3>2 DEF HostNext, Lose, vars, phoneVars, phoneUnchanged, HostAccept, HostTouch,
        HostPing, HostPhoneAbort, HostResendContinue, HostRevalidateFails, HostServe,
        HostRepairHello, HostCommit, HostSinkRefuses, HostAck, HostSkipAck, HostFails,
        HostStops, HostReleases, HostReleaseRefused, HostExit, RequestStop
    <3> QED BY <3>1, <3>2 DEF Next
  <2> QED BY <2>1, <2>2, <2>3, <2>4, <2>5
<1> QED BY <1>1, <1>2

(* A started session stays started and a committed one stays committed.    *)
LEMMA StaysStarted ==
  ASSUME IInv, IInv', [Next]_vars, NEW g \in Generations
  PROVE  /\ log[g] # <<>> => log'[g] # <<>>
         /\ committed[g] # <<>> => committed'[g] # <<>>
<1>1. /\ log[g] \in Seq(Touch) /\ log'[g] \in Seq(Touch)
      /\ committed[g] \in Seq(Touch) /\ committed'[g] \in Seq(Touch)
  BY DEF IInv, TypeOK, PhoneTypeOK, HostTypeOK
<1>2. Len(log[g]) <= Len(log'[g]) /\ Len(committed[g]) <= Len(committed'[g])
  BY Grows DEF LogExtends, CommitsExtend
<1> QED BY <1>1, <1>2

------------------------------------------------------------------------------
(* The parts of the invariant, one lemma each.                             *)

(* The receive window: only a session start binds it, to the exchange of   *)
(* its connection; the ring stays in order.                                *)
LEMMA RingStep ==
  ASSUME WInv, [Next]_vars
  PROVE  RingInv'
<1>1. ASSUME UNCHANGED <<ordered, exchange>> PROVE RingInv'
  BY <1>1 DEF WInv, RingInv, WellFormed
<1>2. ASSUME ordered' = RequireFreshSession PROVE RingInv'
  BY <1>2 DEF RequireFreshSession, EmptyRing, RingInv, WellFormed
<1>3. ASSUME NEW m \in toHost, HostAccept(m) PROVE RingInv'
  <2>1. ordered.session = NoSession /\ UNCHANGED ordered
    BY <1>3 DEF HostAccept, WInv, IInv, WindowInv, Served
  <2> QED BY <2>1 DEF WInv, RingInv, WellFormed
<1>4. ASSUME NEW m \in toHost, HostTouch(m) PROVE RingInv'
  <2> DEFINE f == FrameOf(m)
  <2>1. /\ ordered \in Window /\ f \in Frame /\ f.session = m.session
        /\ (f.start <=> f.sequence = 0)
    BY <1>4, TouchEffect DEF WInv, IInv, TypeOK, HostTypeOK, FrameOf
  <2>2. ordered' = Push(ordered, f) /\ m.conn = connection /\ exchange' = exchange
    BY <1>4 DEF HostTouch
  <2>3. WellFormed(ordered')
    BY <2>1, <2>2, PushWellFormed DEF WInv, RingInv
  <2>4. m.session = exchange
    <3>1. m.type = "TOUCH" /\ connection > 0
      BY <1>4 DEF HostTouch, WInv, IInv, WindowInv, Served
    <3> QED BY <2>2, <3>1 DEF WInv, BindingInv, Bound
  <2>5. ordered'.session # NoSession => ordered'.session = exchange /\ ~ordered'.requires
    <3>1. CASE ordered.session = m.session
      <4>1. ordered' = ordered \/ ordered' = Buffered(ordered, f)
        BY <2>1, <2>2, <3>1 DEF Push, Joined
      <4> QED BY <2>4, <3>1, <4>1 DEF Buffered, WInv, RingInv
    <3>2. CASE ordered.session # m.session /\ Refuses(ordered, f)
      BY <2>2, <2>4, <3>2 DEF Push, WInv, RingInv
    <3>3. CASE ordered.session # m.session /\ ~Refuses(ordered, f)
      <4>1. ordered' \in {BeginSession(f), Buffered(BeginSession(f), f)}
        BY <2>1, <2>2, <3>3 DEF Push, Joined
      <4> QED BY <2>1, <2>4, <4>1 DEF Buffered, BeginSession
    <3> QED BY <3>1, <3>2, <3>3
  <2>6. ASSUME NEW i \in Slots, ordered'.buffered[i] # NoFrame
        PROVE  ordered'.buffered[i].start <=> ordered'.buffered[i].sequence = 0
    <3>1. ordered'.buffered[i] = ordered.buffered[i] \/ ordered'.buffered[i] = f
      BY <1>4, <2>6, TouchEffect DEF WInv
    <3> QED BY <2>1, <2>6, <3>1 DEF WInv, RingInv
  <2> QED BY <2>2, <2>3, <2>5, <2>6 DEF RingInv
<1>5. ASSUME HostCommit PROVE RingInv'
  <2>1. ordered \in Window /\ ordered' = CommitReady(ordered) /\ exchange' = exchange
    BY <1>5 DEF HostCommit, WInv, IInv, TypeOK, HostTypeOK
  <2>2. WellFormed(ordered')
    BY <2>1, CommitReadyWellFormed DEF WInv, RingInv
  <2>3. /\ ordered'.session = ordered.session /\ ordered'.requires = ordered.requires
        /\ \A i \in Slots : ordered'.buffered[i] \in {NoFrame, ordered.buffered[i]}
    BY <2>1 DEF CommitReady, Window
  <2> QED BY <2>1, <2>2, <2>3 DEF WInv, RingInv
<1>6. \/ UNCHANGED <<ordered, exchange>>
      \/ ordered' = RequireFreshSession
      \/ \E m \in toHost : HostAccept(m) \/ HostTouch(m)
      \/ HostCommit
  <2>1. CASE PhoneNext \/ Lose \/ UNCHANGED vars
    BY <2>1 DEF PhoneNext, Lose, vars, hostVars, PhoneOpen, PhoneSearch, PhoneContinue, PhoneHello, PhoneAck, OfferFrame,
      WriterHeartbeat, WriterSend, WriterPing, CloseSession, PhoneHostAbort, PhoneFails, PhoneQuit
  <2>2. CASE HostNext
    BY <2>2 DEF HostNext, hostVars, HostPing, HostPhoneAbort, HostResendContinue,
      HostRevalidateFails, HostServe, HostRepairHello, HostSinkRefuses, HostAck, HostSkipAck,
      HostFails, HostStops, HostReleases, HostReleaseRefused, HostExit, RequestStop, EndSession
  <2> QED BY <2>1, <2>2 DEF Next
<1> QED BY <1>1, <1>2, <1>3, <1>4, <1>5, <1>6

(* What a step puts into the path towards the host.                        *)
LEMMA PhoneSends ==
  ASSUME IInv, [Next]_vars, NEW m \in toHost', m \notin toHost
  PROVE  /\ UNCHANGED <<hostVars, log, link, generation, channel>> \/ m.type = "PHONE_ABORT"
         /\ \/ /\ m.type = "IK_MESSAGE_1" /\ m.session = generation /\ generation \in Generations
            \/ m.type = "PHONE_ABORT"
            \/ /\ m.type = "TOUCH" /\ m.conn = channel /\ m.session = generation
               /\ hostReady /\ m.id < head + SendWindow
            \/ /\ m.type = "PING" /\ m.conn = channel /\ m.session = generation
               /\ hostReady /\ head > 0 /\ m.id = nextPingId /\ nextPingId' = nextPingId + 1
<1> USE DEF ToHost, Record
<1>1. CASE PhoneSearch
  BY <1>1 DEF PhoneSearch, phoneVars, IInv, PhoneInv
<1>2. CASE \E n \in 0 .. MaxFrames + MaxTouches + MaxFaults : WriterSend(n)
  BY <1>2 DEF WriterSend, Sendable, phoneVars
<1>3. CASE WriterPing
  BY <1>3 DEF WriterPing
<1>4. CASE PhoneFails \/ PhoneQuit \/ \E r \in toPhone : PhoneHostAbort(r)
  BY <1>4 DEF PhoneFails, PhoneQuit, PhoneHostAbort, CloseSession, netVars
<1>5. CASE \/ PhoneOpen \/ WriterHeartbeat \/ \E touch \in Touch : OfferFrame(touch)
           \/ \E r \in toPhone : PhoneContinue(r) \/ PhoneHello(r) \/ PhoneAck(r)
  BY <1>5 DEF PhoneOpen, WriterHeartbeat, OfferFrame, PhoneContinue, PhoneHello, PhoneAck, netVars
<1>6. CASE HostNext \/ Lose \/ UNCHANGED vars
  BY <1>6 DEF HostNext, Lose, vars, netVars, ToPhone, HostAccept, HostTouch,
    HostPing, HostPhoneAbort, HostResendContinue, HostRevalidateFails, HostServe,
    HostRepairHello, HostCommit, HostSinkRefuses, HostAck, HostSkipAck, HostFails,
    HostStops, HostReleases, HostReleaseRefused, HostExit, RequestStop, NotifyEnd
<1> QED BY <1>1, <1>2, <1>3, <1>4, <1>5, <1>6 DEF Next, PhoneNext

(* What a step puts into the path towards the phone.                       *)
LEMMA HostSends ==
  ASSUME IInv, [Next]_vars, NEW m \in toPhone', m \notin toPhone
  PROVE  /\ UNCHANGED phoneVars
         /\ \/ m.type \in {"HELLO", "HOST_ABORT"}
            \/ /\ m.type = "IK_CONTINUE" /\ m.conn = connection' /\ m.session = exchange'
               /\ connection' > 0
            \/ /\ m.type = "ACK" /\ m.conn = connection /\ m.session = ordered.session
               /\ ordered.session # NoSession /\ Served
               /\ UNCHANGED <<connection, exchange, ordered>>
            \/ /\ m.type = "PONG" /\ m.conn = connection /\ m.session = ordered.session
               /\ UNCHANGED <<connection, exchange, ordered>>
               /\ \E r \in toHost : /\ r.type = "PING" /\ r.conn = m.conn
                                    /\ r.session = m.session /\ r.id = m.id
<1> USE DEF ToPhone, Record, phoneUnchanged
<1>1. CASE \E r \in toHost : HostAccept(r)
  <2>1. connection \in Nat
    BY DEF IInv, TypeOK, HostTypeOK
  <2> QED BY <1>1, <2>1 DEF HostAccept
<1>2. CASE \E r \in toHost : HostResendContinue(r)
  <2>1. phase = "serving" => connection > 0
    BY DEF IInv, WindowInv, Served
  <2> QED BY <1>2, <2>1 DEF HostResendContinue, hostVars
<1>3. CASE \E r \in toHost : HostPing(r)
  BY <1>3 DEF HostPing
<1>4. CASE HostAck
  BY <1>4 DEF HostAck, Served
<1>5. CASE HostServe \/ HostRepairHello \/ HostSinkRefuses \/ HostFails \/ HostStops
  <2>1. CASE HostServe \/ HostRepairHello
    BY <1>5, <2>1 DEF HostServe, HostRepairHello
  <2>2. ASSUME NotifyEnd, phoneUnchanged
        PROVE  UNCHANGED phoneVars /\ m.type = "HOST_ABORT"
    BY <2>2 DEF NotifyEnd
  <2>3. CASE HostSinkRefuses \/ HostFails \/ HostStops
    BY <2>2, <2>3 DEF HostSinkRefuses, HostFails, HostStops
  <2> QED BY <1>5, <2>1, <2>3
<1>6. CASE \/ \E r \in toHost : HostTouch(r) \/ HostPhoneAbort(r)
           \/ HostRevalidateFails \/ HostCommit \/ HostSkipAck \/ HostReleases
           \/ HostReleaseRefused \/ HostExit \/ RequestStop
  BY <1>6 DEF HostTouch, HostPhoneAbort, HostRevalidateFails, HostCommit, HostSkipAck,
    HostReleases, HostReleaseRefused, HostExit, RequestStop, netVars
<1>7. CASE PhoneNext \/ Lose \/ UNCHANGED vars
  BY <1>7 DEF PhoneNext, Lose, vars, netVars, ToHost, PhoneOpen, PhoneSearch, PhoneContinue, PhoneHello, PhoneAck, OfferFrame,
      WriterHeartbeat, WriterSend, WriterPing, CloseSession, PhoneHostAbort, PhoneFails, PhoneQuit
<1> QED BY <1>1, <1>2, <1>3, <1>4, <1>5, <1>6, <1>7 DEF Next, HostNext

(* A connected phone keeps its channel and session, or has just installed  *)
(* the answer to its own exchange.                                         *)
LEMMA PhoneMoves ==
  ASSUME IInv, [Next]_vars, link' = "connected"
  PROVE  \/ UNCHANGED <<link, channel, generation>> /\ nextPingId' \in {nextPingId, nextPingId + 1}
         \/ /\ link = "searching" /\ UNCHANGED <<generation, log, connection, exchange, toHost, toPhone>>
            /\ \E m \in toPhone : m.type = "IK_CONTINUE" /\ m.session = generation /\ m.conn = channel'
<1>1. CASE \E m \in toPhone : PhoneContinue(m)
  BY <1>1 DEF PhoneContinue, hostVars, netVars
<1>2. CASE PhoneOpen \/ PhoneFails \/ PhoneQuit \/ \E m \in toPhone : PhoneHostAbort(m)
  BY <1>2 DEF PhoneOpen, PhoneFails, PhoneQuit, PhoneHostAbort, CloseSession
<1>3. CASE \/ PhoneSearch \/ WriterHeartbeat \/ WriterPing
           \/ \E m \in toPhone : PhoneHello(m) \/ PhoneAck(m)
           \/ \E touch \in Touch : OfferFrame(touch)
           \/ \E n \in 0 .. MaxFrames + MaxTouches + MaxFaults : WriterSend(n)
  BY <1>3 DEF PhoneSearch, WriterHeartbeat, WriterPing, PhoneHello, PhoneAck, OfferFrame,
    WriterSend, phoneVars
<1>4. CASE HostNext \/ Lose \/ UNCHANGED vars
  BY <1>4 DEF HostNext, Lose, vars, phoneVars, phoneUnchanged, HostAccept, HostTouch,
    HostPing, HostPhoneAbort, HostResendContinue, HostRevalidateFails, HostServe,
    HostRepairHello, HostCommit, HostSinkRefuses, HostAck, HostSkipAck, HostFails,
    HostStops, HostReleases, HostReleaseRefused, HostExit, RequestStop
<1> QED BY <1>1, <1>2, <1>3, <1>4 DEF Next, PhoneNext

(* Only accept_remembered() starts a connection.                           *)
LEMMA Connects ==
  ASSUME [Next]_vars
  PROVE  \/ UNCHANGED <<connection, exchange>>
         \/ \E m \in toHost : HostAccept(m)
<1>1. CASE PhoneNext \/ Lose \/ UNCHANGED vars
  BY <1>1 DEF PhoneNext, Lose, vars, hostVars, PhoneOpen, PhoneSearch, PhoneContinue, PhoneHello, PhoneAck, OfferFrame,
      WriterHeartbeat, WriterSend, WriterPing, CloseSession, PhoneHostAbort, PhoneFails, PhoneQuit
<1>2. CASE HostNext
  BY <1>2 DEF HostNext, hostVars, HostTouch, HostPing, HostPhoneAbort, HostResendContinue,
    HostRevalidateFails, HostServe, HostRepairHello, HostCommit, HostSinkRefuses, HostAck,
    HostSkipAck, HostFails, HostStops, HostReleases, HostReleaseRefused, HostExit, RequestStop,
    EndSession
<1> QED BY <1>1, <1>2 DEF Next

(* The binding of connections to sessions only grows.                      *)
LEMMA BindingStep ==
  ASSUME WInv, [Next]_vars
  PROVE  BindingInv'
<1> USE DEF WInv
<1>1. PICK answered \in [1 .. connection -> Generations] : Bound(answered)
  BY DEF BindingInv
<1>2. connection \in Nat /\ (link = "connected" => channel \in 1 .. connection)
  BY DEF IInv, TypeOK, HostTypeOK, PhoneInv
<1>3. ASSUME NEW m \in toHost', m.type = "IK_MESSAGE_1" PROVE m.session \in Generations
  BY <1>3, PhoneSends DEF BindingInv
<1>4. ASSUME NEW r \in toHost, HostAccept(r)
      PROVE  \E f \in [1 .. connection' -> Generations] : Bound(f)'
  <2>1. /\ connection' = connection + 1 /\ exchange' = r.session /\ r.session \in Generations
        /\ UNCHANGED <<link, channel, generation, toHost>>
        /\ toPhone' = toPhone \cup {Record("IK_CONTINUE", connection + 1, r.session, 0, NoTouch)}
    BY <1>4 DEF HostAccept, phoneUnchanged, phoneVars, ToPhone, BindingInv
  <2>2. PICK f \in [1 .. connection' -> Generations] :
          /\ f[connection'] = exchange'
          /\ \A c \in 1 .. connection : c \in 1 .. connection' /\ f[c] = answered[c]
    <3> DEFINE g == [c \in 1 .. connection' |-> IF c = connection' THEN r.session ELSE answered[c]]
    <3>1. /\ g \in [1 .. connection' -> Generations]
          /\ g[connection'] = exchange'
          /\ \A c \in 1 .. connection : c \in 1 .. connection' /\ g[c] = answered[c]
      BY <1>1, <1>2, <2>1
    <3> QED BY <3>1
  <2>3. link' = "connected" => f[channel'] = generation'
    BY <1>1, <1>2, <2>1, <2>2 DEF Bound
  <2>4. \A m \in toHost' : m.type \in {"TOUCH", "PING"} =>
          m.conn \in 1 .. connection' /\ f[m.conn] = m.session
    BY <1>1, <2>1, <2>2 DEF Bound, Number
  <2>5. \A m \in toPhone' : m.type \in {"IK_CONTINUE", "ACK", "PONG"} =>
          m.conn \in 1 .. connection' /\ f[m.conn] = m.session
    BY <1>1, <1>2, <2>1, <2>2 DEF Bound, Number, Record
  <2>6. Bound(f)'
    BY <2>2, <2>3, <2>4, <2>5 DEF Bound, Number
  <2> QED BY <2>2, <2>6
<1>5. ASSUME UNCHANGED <<connection, exchange>> PROVE Bound(answered)'
  <2>1. link' = "connected" => answered[channel'] = generation'
    BY <1>1, PhoneMoves DEF Bound
  <2>2. ASSUME NEW m \in toHost', m.type \in {"TOUCH", "PING"}
        PROVE  m.conn \in 1 .. connection /\ answered[m.conn] = m.session
    <3>1. CASE m \in toHost
      BY <1>1, <2>2, <3>1 DEF Bound, Number
    <3>2. CASE m \notin toHost
      <4>1. m.conn = channel /\ m.session = generation /\ hostReady
        BY <2>2, <3>2, PhoneSends
      <4>2. link = "connected"
        BY <4>1 DEF IInv, PhoneInv
      <4> QED BY <1>1, <1>2, <4>1, <4>2 DEF Bound
    <3> QED BY <3>1, <3>2
  <2>3. ASSUME NEW m \in toPhone', m.type \in {"IK_CONTINUE", "ACK", "PONG"}
        PROVE  m.conn \in 1 .. connection /\ answered[m.conn] = m.session
    <3>1. CASE m \in toPhone
      BY <1>1, <2>3, <3>1 DEF Bound, Number
    <3>2. CASE m \notin toPhone /\ m.type = "IK_CONTINUE"
      BY <1>1, <1>2, <1>5, <3>2, HostSends DEF Bound
    <3>3. CASE m \notin toPhone /\ m.type = "ACK"
      <4>1. m.conn = connection /\ m.session = exchange /\ connection > 0
        BY <3>3, HostSends DEF RingInv, IInv, WindowInv
      <4> QED BY <1>1, <1>2, <4>1 DEF Bound
    <3>4. CASE m \notin toPhone /\ m.type = "PONG"
      BY <1>1, <3>4, HostSends DEF Bound, Number
    <3> QED BY <2>3, <3>1, <3>2, <3>3, <3>4
  <2> QED BY <1>1, <1>5, <2>1, <2>2, <2>3 DEF Bound, Number
<1>6. ASSUME UNCHANGED <<connection, exchange>>
      PROVE  \E f \in [1 .. connection' -> Generations] : Bound(f)'
  BY <1>1, <1>5, <1>6
<1> QED BY <1>3, <1>4, <1>6, Connects DEF BindingInv

(* The send window follows the acknowledgements, which follow the commits. *)
LEMMA SendStep ==
  ASSUME WInv, IInv', [Next]_vars
  PROVE  SendInv'
<1> USE DEF WInv
<1> SUFFICES ASSUME NEW m \in toHost', m.type = "TOUCH"
             PROVE  m.id < Len(committed'[m.session]) + SendWindow
  BY DEF SendInv
<1>1. m.id \in Int /\ SendWindow \in Nat /\ m.session \in Generations
  BY SizeAssumption DEF IInv, TypeOK, NetTypeOK, Records, ToHostInv, TouchRecord
<1>2. /\ Len(committed[m.session]) \in Nat /\ Len(committed'[m.session]) \in Nat
      /\ Len(committed[m.session]) <= Len(committed'[m.session])
  BY <1>1, Lengths, Grows DEF CommitsExtend, IInv, TypeOK, HostTypeOK
<1>3. CASE m \in toHost
  BY <1>1, <1>2, <1>3 DEF SendInv
<1>4. CASE m \notin toHost
  <2>1. hostReady /\ m.session = generation /\ m.id < head + SendWindow
    BY <1>4, PhoneSends
  <2>2. head \in Nat /\ head <= Len(committed[m.session])
    BY <2>1 DEF IInv, TypeOK, PhoneTypeOK, CommitInv, AckedMeansApplied
  <2> QED BY <1>1, <1>2, <2>1, <2>2
<1> QED BY <1>3, <1>4

(* What was committed for a session stays where Settled says.              *)
LEMMA SettledStays ==
  ASSUME IInv, [Next]_vars, NEW g \in Generations, committed[g] # <<>>,
         NEW c \in Nat, c <= connection, Settled(g, c)
  PROVE  Settled(g, c)'
<1>1. connection \in Nat /\ g # NoSession /\ (~Served => ordered.session = NoSession)
  BY DEF IInv, TypeOK, HostTypeOK, Generations, NoSession, WindowInv
<1>2. CASE c < connection
  <2>1. connection' \in {connection, connection + 1}
    BY Connects DEF HostAccept
  <2> QED BY <1>1, <1>2, <2>1 DEF Settled
<1>3. CASE UNCHANGED <<phase, connection, ordered>>
  BY <1>3 DEF Settled
<1>4. CASE phase' \in {"waiting", "ending", "stopped"}
  BY <1>4 DEF Settled
<1>5. ASSUME NEW m \in toHost, HostAccept(m) PROVE Settled(g, c)'
  BY <1>1, <1>5 DEF HostAccept, Settled
<1>6. ASSUME HostServe PROVE Settled(g, c)'
  <2>1. c < connection
    BY <1>1, <1>6 DEF HostServe, Settled, Served
  <2> QED BY <1>2, <2>1
<1>7. ASSUME NEW m \in toHost, HostTouch(m) PROVE Settled(g, c)'
  <2>1. ordered.session = g \/ c < connection
    BY <1>7 DEF HostTouch, Settled
  <2>2. CASE ordered.session = g
    <3>1. ordered'.session = g
      BY <1>1, <1>7, <2>2, TouchEffect
    <3> QED BY <3>1 DEF Settled
  <2> QED BY <1>2, <2>1, <2>2
<1>8. ASSUME HostCommit PROVE Settled(g, c)'
  BY <1>2, <1>8 DEF HostCommit, CommitReady, Settled
<1>9. ASSUME phase \in {"serving", "committing"}, phase' \in {"serving", "committing"},
             UNCHANGED <<ordered, connection>>
      PROVE  Settled(g, c)'
  BY <1>9 DEF Settled
<1>10. CASE PhoneNext \/ Lose \/ UNCHANGED vars
  <2>1. UNCHANGED hostVars
    BY <1>10 DEF PhoneNext, Lose, vars, PhoneOpen, PhoneSearch, PhoneContinue, PhoneHello, PhoneAck, OfferFrame,
      WriterHeartbeat, WriterSend, WriterPing, CloseSession, PhoneHostAbort, PhoneFails, PhoneQuit
  <2> QED BY <1>3, <2>1 DEF hostVars
<1>11. CASE HostNext
  <2>1. ASSUME NEW m \in toHost, HostPing(m) \/ HostResendContinue(m) PROVE Settled(g, c)'
    BY <1>3, <2>1 DEF HostPing, HostResendContinue, hostVars
  <2>2. ASSUME NEW m \in toHost, HostPhoneAbort(m) PROVE Settled(g, c)'
    BY <1>4, <2>2 DEF HostPhoneAbort, EndSession
  <2>3. CASE HostSinkRefuses \/ HostFails \/ HostStops
    BY <1>4, <2>3 DEF HostSinkRefuses, HostFails, HostStops, EndSession
  <2>4. CASE HostRevalidateFails \/ HostReleases \/ HostReleaseRefused \/ HostExit
    BY <1>4, <2>4 DEF HostRevalidateFails, HostReleases, HostReleaseRefused, HostExit
  <2>5. CASE HostRepairHello \/ RequestStop
    BY <1>3, <2>5 DEF HostRepairHello, RequestStop, hostVars
  <2>6. CASE HostAck \/ HostSkipAck
    BY <1>9, <2>6 DEF HostAck, HostSkipAck
  <2> QED BY <1>5, <1>6, <1>7, <1>8, <1>11, <2>1, <2>2, <2>3, <2>4, <2>5, <2>6 DEF HostNext
<1> QED BY <1>10, <1>11 DEF Next

(* A ping or its answer cannot be older than the channel of a phone that   *)
(* is connected: the numbers on a channel are below the next one.          *)
LEMMA PingNumbers ==
  ASSUME WInv, [Next]_vars, link' = "connected", NEW m, m.conn = channel', m.id \in Int,
         m.session \in Generations, log[m.session] # <<>>,
         \A answered \in [1 .. connection -> Generations] :
            Bound(answered) => answered[m.conn] = m.session,
         link = "connected" /\ m.conn = channel => m.id < nextPingId
  PROVE  m.id < nextPingId'
<1> USE DEF WInv
<1>1. nextPingId \in Nat
  BY DEF IInv, TypeOK, PhoneTypeOK
<1>2. CASE UNCHANGED <<link, channel, generation>> /\ nextPingId' \in {nextPingId, nextPingId + 1}
  BY <1>1, <1>2
<1>3. ASSUME NEW k \in toPhone, k.type = "IK_CONTINUE", k.session = generation, k.conn = channel',
             link = "searching"
      PROVE  FALSE
  <2>1. PICK answered \in [1 .. connection -> Generations] : Bound(answered)
    BY DEF BindingInv
  <2>2. answered[channel'] = generation /\ answered[channel'] = m.session
    BY <1>3, <2>1 DEF Bound
  <2>3. log[generation] = <<>>
    BY <1>3, <2>2 DEF IInv, PhoneInv
  <2> QED BY <2>2, <2>3
<1> QED BY <1>2, <1>3, PhoneMoves

(* Pings in flight.                                                        *)
LEMMA PingStep ==
  ASSUME WInv, IInv', [Next]_vars
  PROVE  PingInv'
<1> USE DEF WInv
<1> SUFFICES ASSUME NEW m \in toHost', m.type = "PING"
             PROVE  /\ m.session \in Generations /\ committed'[m.session] # <<>>
                    /\ Settled(m.session, m.conn)'
                    /\ link' = "connected" /\ m.conn = channel' => m.id < nextPingId'
  BY DEF PingInv
<1>0. m.id \in Int /\ m.conn \in Nat
  BY DEF IInv, TypeOK, NetTypeOK, Records
<1>1. CASE m \in toHost
  <2>1. /\ m.session \in Generations /\ committed[m.session] # <<>> /\ Settled(m.session, m.conn)
        /\ link = "connected" /\ m.conn = channel => m.id < nextPingId
    BY <1>1 DEF PingInv
  <2>2. m.conn <= connection
    <3>1. connection \in Nat /\ Number(m)
      BY <1>1 DEF BindingInv, Bound, IInv, TypeOK, HostTypeOK
    <3> QED BY <3>1 DEF Number
  <2>3. log[m.session] # <<>>
    <3>1. Len(committed[m.session]) <= Len(log[m.session])
      BY <2>1 DEF IInv, CommitInv, AppliedInOrder
    <3>2. committed[m.session] \in Seq(Touch) /\ log[m.session] \in Seq(Touch)
      BY <2>1 DEF IInv, TypeOK, PhoneTypeOK, HostTypeOK
    <3> QED BY <2>1, <3>1, <3>2
  <2>4. committed'[m.session] # <<>>
    BY <2>1, StaysStarted
  <2>5. Settled(m.session, m.conn)'
    BY <1>0, <2>1, <2>2, SettledStays
  <2>6. \A answered \in [1 .. connection -> Generations] :
           Bound(answered) => answered[m.conn] = m.session
    BY <1>1 DEF Bound
  <2>7. link' = "connected" /\ m.conn = channel' => m.id < nextPingId'
    BY <1>0, <2>1, <2>3, <2>6, PingNumbers
  <2> QED BY <2>1, <2>4, <2>5, <2>7
<1>2. CASE m \notin toHost
  <2>1. /\ UNCHANGED <<hostVars, link, generation, channel>>
        /\ m.conn = channel /\ m.session = generation /\ hostReady /\ head > 0
        /\ m.id = nextPingId /\ nextPingId' = nextPingId + 1
    BY <1>2, PhoneSends
  <2>2. generation \in Generations /\ nextPingId \in Nat /\ head \in Nat
    BY <2>1 DEF IInv, TypeOK, PhoneTypeOK, PhoneInv
  <2>3. committed[generation] \in Seq(Touch) /\ head <= Len(committed[generation])
    BY <2>1, <2>2 DEF IInv, TypeOK, HostTypeOK, CommitInv, AckedMeansApplied
  <2>4. committed[generation] # <<>>
    BY <2>1, <2>2, <2>3
  <2>5. Settled(generation, channel)
    BY <2>1 DEF IInv, CommitInv
  <2>6. UNCHANGED <<committed, connection, ordered, phase>>
    BY <2>1 DEF hostVars
  <2> QED BY <2>1, <2>2, <2>4, <2>5, <2>6 DEF Settled
<1> QED BY <1>1, <1>2

(* Answers in flight.                                                      *)
LEMMA ReplyStep ==
  ASSUME WInv, IInv', [Next]_vars
  PROVE  ReplyInv'
<1> USE DEF WInv
<1>1. ordered'.session # NoSession => log'[ordered'.session] # <<>>
  <2>1. CASE ordered'.session = ordered.session
    <3>1. ordered.session # NoSession =>
            ordered.session \in Generations /\ log[ordered.session] # <<>>
      BY DEF IInv, WindowInv, ReplyInv
    <3> QED BY <2>1, <3>1, StaysStarted
  <2>2. CASE \E m \in toHost : HostTouch(m)
    <3>1. PICK m \in toHost : HostTouch(m)
      BY <2>2
    <3>2. /\ TouchRecord(m)
          /\ ordered'.session = ordered.session \/ ordered'.session = m.session
      BY <3>1, TouchEffect
    <3>3. m.session \in Generations /\ log[m.session] # <<>>
      <4>1. m.session \in Generations /\ m.id \in 0 .. (Len(log[m.session]) - 1)
        BY <3>2 DEF TouchRecord
      <4>2. log[m.session] \in Seq(Touch)
        BY <4>1 DEF IInv, TypeOK, PhoneTypeOK
      <4> QED BY <4>1, <4>2
    <3> QED BY <2>1, <3>2, <3>3, StaysStarted
  <2>3. CASE ordered' = RequireFreshSession
    BY <2>3 DEF RequireFreshSession
  <2>4. \/ ordered'.session = ordered.session
        \/ ordered' = RequireFreshSession
        \/ \E m \in toHost : HostTouch(m)
    <3>1. CASE PhoneNext \/ Lose \/ UNCHANGED vars
      BY <3>1 DEF PhoneNext, Lose, vars, hostVars, PhoneOpen, PhoneSearch, PhoneContinue, PhoneHello, PhoneAck, OfferFrame,
      WriterHeartbeat, WriterSend, WriterPing, CloseSession, PhoneHostAbort, PhoneFails, PhoneQuit
    <3>2. ASSUME HostCommit PROVE ordered'.session = ordered.session
      BY <3>2 DEF HostCommit, CommitReady
    <3>3. CASE HostNext
      BY <3>2, <3>3 DEF HostNext, hostVars, HostAccept, HostPing, HostPhoneAbort,
        HostResendContinue, HostRevalidateFails, HostServe, HostRepairHello, HostSinkRefuses,
        HostAck, HostSkipAck, HostFails, HostStops, HostReleases, HostReleaseRefused, HostExit,
        RequestStop, EndSession
    <3> QED BY <3>1, <3>3 DEF Next
  <2> QED BY <2>1, <2>2, <2>3, <2>4
<1>2. ASSUME NEW m \in toPhone', m.type \in {"ACK", "PONG"}
      PROVE  /\ m.session \in Generations /\ log'[m.session] # <<>>
             /\ m.type = "PONG" /\ link' = "connected" /\ m.conn = channel' => m.id < nextPingId'
  <2>0. m.id \in Int
    BY DEF IInv, TypeOK, NetTypeOK, Records
  <2>1. CASE m \in toPhone
    <3>1. /\ m.session \in Generations /\ log[m.session] # <<>>
          /\ m.type = "PONG" /\ link = "connected" /\ m.conn = channel => m.id < nextPingId
      BY <1>2, <2>1 DEF ReplyInv
    <3>2. \A answered \in [1 .. connection -> Generations] :
             Bound(answered) => answered[m.conn] = m.session
      BY <1>2, <2>1 DEF Bound
    <3>3. m.type = "PONG" /\ link' = "connected" /\ m.conn = channel' => m.id < nextPingId'
      BY <2>0, <3>1, <3>2, PingNumbers
    <3> QED BY <3>1, <3>3, StaysStarted
  <2>2. CASE m \notin toPhone
    <3>1. UNCHANGED phoneVars /\ m.session = ordered.session
      BY <1>2, <2>2, HostSends
    <3>2. ordered.session # NoSession
      <4>1. CASE m.type = "ACK"
        BY <2>2, <4>1, HostSends
      <4>2. CASE m.type = "PONG"
        <5>1. PICK r \in toHost : r.type = "PING" /\ r.session = m.session
          BY <2>2, <4>2, HostSends
        <5> QED BY <3>1, <5>1 DEF PingInv, Generations, NoSession
      <4> QED BY <1>2, <4>1, <4>2
    <3>3. m.session \in Generations /\ log[m.session] # <<>>
      BY <3>1, <3>2 DEF IInv, WindowInv, ReplyInv
    <3>4. m.type = "PONG" /\ link = "connected" /\ m.conn = channel => m.id < nextPingId
      <4> SUFFICES ASSUME m.type = "PONG", link = "connected", m.conn = channel
                   PROVE  m.id < nextPingId
        OBVIOUS
      <4>1. PICK r \in toHost : r.type = "PING" /\ r.conn = m.conn /\ r.id = m.id
        BY <2>2, HostSends
      <4> QED BY <4>1 DEF PingInv
    <3> QED BY <3>1, <3>3, <3>4 DEF phoneVars
  <2> QED BY <2>1, <2>2
<1> QED BY <1>1, <1>2 DEF ReplyInv

------------------------------------------------------------------------------
(* The invariant and what follows from it.                                 *)

(* Nothing has been sent yet.                                              *)
LEMMA WInvInit == Init => WInv
<1> SUFFICES ASSUME Init PROVE WInv
  OBVIOUS
<1>1. IInv
  BY IInvInit
<1>2. BindingInv
  <2>1. connection = 0 /\ link = "closed" /\ toHost = {} /\ toPhone = {}
    BY DEF Init
  <2>2. [c \in 1 .. 0 |-> 1] \in [1 .. connection -> Generations]
    BY <2>1
  <2>3. \A answered : Bound(answered)
    BY <2>1 DEF Bound
  <2> QED BY <2>1, <2>2, <2>3 DEF BindingInv
<1>3. RingInv
  BY DEF Init, NewWindow, EmptyRing, RingInv, WellFormed
<1>4. SendInv /\ PingInv /\ ReplyInv
  BY DEF Init, NewWindow, SendInv, PingInv, ReplyInv
<1> QED BY <1>1, <1>2, <1>3, <1>4 DEF WInv

(* Every step keeps every part.                                            *)
LEMMA WInvNext == WInv /\ [Next]_vars => WInv'
<1> SUFFICES ASSUME WInv, [Next]_vars PROVE WInv'
  OBVIOUS
<1>1. IInv'
  BY IInvNext DEF WInv
<1> QED BY <1>1, BindingStep, RingStep, SendStep, PingStep, ReplyStep DEF WInv

(* The invariant holds in every reachable state.                           *)
THEOREM WireInvariance == Spec => []WInv
  BY WInvInit, WInvNext, PTL DEF Spec

(* push() drops duplicates only: whatever the ring and the window sizes,   *)
(* as long as the phone's window is at most the ring, a frame at or after  *)
(* the cursor finds its slot free or holding itself.                       *)
THEOREM NoNewFrameDropped == Spec => []RingNeverDropsNewFrames
<1>1. ASSUME WInv PROVE RingNeverDropsNewFrames
  <2> USE DEF WInv
  <2> SUFFICES ASSUME NEW m \in toHost, m.type = "TOUCH", m.conn = connection,
                      phase \in {"serving", "committing"}, m.session = ordered.session,
                      m.id >= ordered.next
               PROVE  Push(ordered, FrameOf(m)).buffered[SlotOf(m.id)] = FrameOf(m)
    BY DEF RingNeverDropsNewFrames
  <2> DEFINE f == FrameOf(m)
             slot == SlotOf(m.id)
             old == ordered.buffered[slot]
  <2>1. TouchRecord(m)
    BY <1>1 DEF IInv, ToHostInv
  <2>2. m.session \in Generations /\ m.id \in Nat /\ m.session # NoSession
    BY <1>1, <2>1 DEF TouchRecord, Generations, NoSession, IInv, TypeOK, NetTypeOK, Records
  <2>3. /\ f = [session |-> m.session, sequence |-> m.id, start |-> m.id = 0, touch |-> m.touch]
        /\ f.session = m.session /\ f.sequence = m.id /\ (f.start <=> m.id = 0)
        /\ f.touch = m.touch
    BY DEF FrameOf
  <2>4. /\ ordered \in Window /\ ordered.next \in Nat /\ slot \in Slots
        /\ ordered.next = Len(committed[m.session]) /\ ~ordered.requires
    BY <1>1, <2>2, SlotOfType DEF IInv, TypeOK, HostTypeOK, WindowInv, RingInv, Window
  <2>5. m.id \in ordered.next .. (ordered.next + RingSize - 1)
    BY <1>1, <2>2, <2>4, SizeAssumption, RingAssumption DEF SendInv
  <2>6. ~Refuses(ordered, f) /\ Joined(ordered, f) = ordered
    BY <2>3, <2>4 DEF Refuses, Joined
  <2>7. CASE old = NoFrame
    <3>1. Fits(ordered, f)
      BY <2>2, <2>3, <2>4, <2>5, <2>7, RingAssumption DEF Fits
    <3>2. Push(ordered, f) = Buffered(ordered, f)
      BY <2>6, <3>1 DEF Push
    <3> QED BY <2>3, <2>4, <3>2 DEF Buffered, Window
  <2>8. CASE old # NoFrame
    <3>1. old \in Frame
      BY <2>4, <2>8 DEF Window
    <3>2. /\ old.session = ordered.session /\ SlotOf(old.sequence) = slot
          /\ old.sequence \in ordered.next .. (ordered.next + RingSize - 1)
      BY <1>1, <2>4, <2>8 DEF RingInv, WellFormed
    <3>3. old.sequence = m.id
      BY <2>4, <2>5, <3>2, SameSlot
    <3>4. old.touch = log[m.session][m.id + 1] /\ (old.start <=> m.id = 0)
      BY <1>1, <2>2, <2>4, <2>8, <3>3 DEF IInv, WindowInv, RingInv
    <3>5. m.touch = log[m.session][m.id + 1]
      BY <2>1 DEF TouchRecord
    <3>6. old.start \in BOOLEAN /\ (m.id = 0) \in BOOLEAN
      BY <3>1 DEF Frame
    <3>7. old = [session |-> m.session, sequence |-> m.id, start |-> m.id = 0, touch |-> m.touch]
      BY <3>1, <3>2, <3>3, <3>4, <3>5, <3>6 DEF Frame
    <3>8. Push(ordered, f) = ordered
      <4>1. ~Fits(ordered, f)
        BY <2>3, <2>8 DEF Fits
      <4> QED BY <2>6, <4>1 DEF Push
    <3> QED BY <2>3, <3>7, <3>8
  <2> QED BY <2>7, <2>8
<1> QED BY <1>1, WireInvariance, PTL

(* Between correct peers no authenticated record takes a branch that ends  *)
(* the session with a protocol error, however late or repeated it is.      *)
THEOREM ProtocolErrorFree == Spec => []NoProtocolError
<1>1. ASSUME WInv PROVE NoProtocolError
  <2> USE DEF WInv
  <2>0. PICK answered \in [1 .. connection -> Generations] : Bound(answered)
    BY <1>1 DEF BindingInv
  <2>1. ASSUME NEW m \in toHost, phase = "serving", m.conn = connection, m.type = "TOUCH"
        PROVE  ordered.session \in {NoSession, m.session}
    <3>1. connection > 0
      BY <1>1, <2>1 DEF IInv, WindowInv, Served
    <3> QED BY <1>1, <2>0, <2>1, <3>1 DEF Bound, RingInv
  <2>2. ASSUME NEW m \in toHost, phase = "serving", m.conn = connection, m.type = "PING"
        PROVE  ordered.session = m.session
    <3>1. Settled(m.session, m.conn) /\ committed[m.session] # <<>> /\ connection \in Nat
      BY <1>1, <2>2 DEF PingInv, IInv, TypeOK, HostTypeOK
    <3> QED BY <2>2, <3>1 DEF Settled
  <2>3. ASSUME NEW m \in toPhone, link = "connected", m.conn = channel, m.type \in {"ACK", "PONG"}
        PROVE  hostReady /\ m.session = generation /\ generation \in Generations
    <3>1. m.session = generation
      BY <2>0, <2>3 DEF Bound
    <3>2. m.session \in Generations /\ log[m.session] # <<>>
      BY <1>1, <2>3 DEF ReplyInv
    <3> QED BY <1>1, <2>3, <3>1, <3>2 DEF IInv, PhoneInv
  <2>4. ASSUME NEW m \in toPhone, link = "connected", m.conn = channel, m.type = "ACK"
        PROVE  m.id < NextSequence
    <3>1. m.session = generation /\ generation \in Generations /\ m.id \in Int
      BY <1>1, <2>3, <2>4 DEF IInv, TypeOK, NetTypeOK, Records
    <3>2. m.id < Len(committed[generation])
      BY <1>1, <2>4, <3>1 DEF IInv, ToPhoneInv
    <3>3. Len(committed[generation]) <= Len(log[generation])
      BY <1>1, <3>1 DEF IInv, CommitInv, AppliedInOrder
    <3>4. Len(committed[generation]) \in Nat /\ Len(log[generation]) \in Nat
      BY <1>1, <3>1, Lengths
    <3> QED BY <3>1, <3>2, <3>3, <3>4 DEF NextSequence
  <2>5. ASSUME NEW m \in toPhone, link = "connected", m.conn = channel, m.type = "PONG"
        PROVE  m.id < nextPingId
    BY <1>1, <2>5 DEF ReplyInv
  <2> QED BY <2>1, <2>2, <2>3, <2>4, <2>5 DEF NoProtocolError
<1> QED BY <1>1, WireInvariance, PTL

------------------------------------------------------------------------------
(* The refinement: every step of the protocol is a step of the stream.     *)

(* The session the phone feeds.                                            *)
Producing == IF hostReady THEN generation ELSE NoSession

(* The initial states of the protocol are initial states of the stream.    *)
LEMMA StreamInit == Init => Stream!Init
  BY DEF Init, NewWindow, Stream!Init

(* A step that touches neither log, nor commits, nor who feeds or consumes *)
(* what is a stutter.                                                      *)
LEMMA StreamStutter ==
  ASSUME UNCHANGED <<log, committed, head>>, ordered'.session = ordered.session,
         Producing' = Producing
  PROVE  UNCHANGED Stream!vars
  BY DEF Stream!vars, Producing

(* Every action of the phone and of the host maps to a step of the stream  *)
(* or to a stutter.                                                        *)
LEMMA StreamStep == IInv /\ [Next]_vars => [Stream!Next]_(Stream!vars)
<1> SUFFICES ASSUME IInv, [Next]_vars PROVE [Stream!Next]_(Stream!vars)
  OBVIOUS
<1>0. /\ generation \in Nat /\ log \in [Generations -> Seq(Touch)]
      /\ committed \in [Generations -> Seq(Touch)] /\ ordered \in Window /\ head \in Nat
      /\ hostReady \in BOOLEAN
  BY DEF IInv, TypeOK, PhoneTypeOK, HostTypeOK, Generations
<1>ready. hostReady => generation \in Generations /\ generation # NoSession
  BY DEF IInv, PhoneInv, Generations, NoSession
<1>1. ASSUME NEW m \in toPhone, PhoneHello(m) PROVE Stream!Next
  <2>1. /\ generation \in Generations /\ log[generation] = <<>> /\ ~hostReady /\ head = 0
        /\ hostReady' = TRUE /\ UNCHANGED <<generation, head, committed, ordered>>
        /\ log' = [log EXCEPT ![generation] =
                     IF retained = NoTouch THEN <<NoTouch>> ELSE <<NoTouch, retained>>]
    BY <1>1 DEF PhoneHello, IInv, PhoneInv, hostVars
  <2>2. NoTouch \in Touch /\ retained \in Touch
    BY TouchAssumption DEF IInv, TypeOK, PhoneTypeOK
  <2>3. Stream!Open(generation)
    BY <2>1, <2>2 DEF Stream!Open
  <2> QED BY <2>1, <2>3 DEF Stream!Next
<1>2. ASSUME NEW touch \in Touch, Enqueue(touch), hostReady,
             UNCHANGED <<hostReady, generation, head, committed, ordered>>
      PROVE  [Stream!Next]_(Stream!vars)
  <2>1. CASE UNCHANGED log
    BY <1>2, <2>1, StreamStutter DEF Producing
  <2>2. CASE log' = [log EXCEPT ![generation] = Append(log[generation], touch)]
    <3>1. Stream!Produce(touch)
      BY <1>2, <1>ready, <2>2 DEF Stream!Produce
    <3> QED BY <3>1 DEF Stream!Next
  <2> QED BY <1>2, <2>1, <2>2 DEF Enqueue
<1>3. ASSUME NEW m \in toPhone, PhoneAck(m) PROVE Stream!Next
  <2>1. /\ hostReady /\ m.session = generation /\ m.id >= head /\ head' = m.id + 1
        /\ UNCHANGED <<hostReady, generation, log, committed, ordered>>
    BY <1>3 DEF PhoneAck, hostVars
  <2>2. generation \in Generations /\ m.id \in Int /\ m.id < Len(committed[generation])
    BY <1>3, <1>ready, <2>1 DEF PhoneAck, IInv, TypeOK, NetTypeOK, Records, ToPhoneInv
  <2>3. Len(committed[generation]) \in Nat
    BY <2>2, Lengths
  <2>4. head' \in (head + 1) .. Len(committed[generation])
    BY <1>0, <2>1, <2>2, <2>3
  <2>5. Stream!Confirm
    BY <1>ready, <2>1, <2>4 DEF Stream!Confirm
  <2> QED BY <2>5 DEF Stream!Next
<1>4. ASSUME NEW newLink, CloseSession(newLink) PROVE [Stream!Next]_(Stream!vars)
  <2>1. hostReady' = FALSE /\ head' = 0 /\ UNCHANGED <<log, committed, ordered>>
    BY <1>4 DEF CloseSession, hostVars
  <2>2. CASE hostReady
    <3>1. Stream!Close
      BY <1>ready, <2>1, <2>2 DEF Stream!Close
    <3> QED BY <3>1 DEF Stream!Next
  <2>3. CASE ~hostReady
    <3>1. head = 0
      BY <2>3 DEF IInv, PhoneInv
    <3> QED BY <2>1, <2>3, <3>1, StreamStutter DEF Producing
  <2> QED BY <2>2, <2>3
<1>5. CASE PhoneNext
  <2>1. ASSUME NEW m \in toPhone, PhoneContinue(m) \/ PhoneHostAbort(m)
        PROVE  [Stream!Next]_(Stream!vars)
    <3>1. CASE PhoneContinue(m)
      BY <3>1, StreamStutter DEF PhoneContinue, hostVars, Producing
    <3>2. CASE PhoneHostAbort(m)
      BY <1>4, <3>2 DEF PhoneHostAbort
    <3> QED BY <2>1, <3>1, <3>2
  <2>2. CASE PhoneOpen
    <3>1. ~hostReady
      BY <2>2 DEF PhoneOpen, IInv, PhoneInv
    <3> QED BY <2>2, <3>1, StreamStutter DEF PhoneOpen, hostVars, Producing
  <2>3. CASE PhoneFails \/ PhoneQuit
    BY <1>4, <2>3 DEF PhoneFails, PhoneQuit
  <2>4. CASE PhoneSearch \/ WriterPing \/ \E n \in 0 .. MaxFrames + MaxTouches + MaxFaults : WriterSend(n)
    BY <2>4, StreamStutter DEF PhoneSearch, WriterPing, WriterSend, phoneVars, hostVars, Producing
  <2>5. ASSUME NEW touch \in Touch, OfferFrame(touch) PROVE [Stream!Next]_(Stream!vars)
    <3>1. UNCHANGED <<hostReady, generation, head, committed, ordered>>
      BY <2>5 DEF OfferFrame, hostVars
    <3>2. CASE link = "connected" /\ hostReady
      BY <1>2, <2>5, <3>1, <3>2 DEF OfferFrame
    <3>3. CASE ~(link = "connected" /\ hostReady)
      BY <2>5, <3>1, <3>3, StreamStutter DEF OfferFrame, Producing
    <3> QED BY <3>2, <3>3
  <2>6. CASE WriterHeartbeat
    <3>1. retained \in Touch
      BY DEF IInv, TypeOK, PhoneTypeOK
    <3> QED BY <1>2, <2>6, <3>1 DEF WriterHeartbeat, hostVars
  <2> QED BY <1>1, <1>3, <1>5, <2>1, <2>2, <2>3, <2>4, <2>5, <2>6 DEF PhoneNext
<1>6. ASSUME NEW m \in toHost, HostTouch(m) PROVE [Stream!Next]_(Stream!vars)
  <2>1. UNCHANGED <<hostReady, generation, head, log, committed>>
    BY <1>6 DEF HostTouch, phoneUnchanged, phoneVars
  <2>2. /\ TouchRecord(m)
        /\ \/ ordered'.session = ordered.session
           \/ ordered.session = NoSession /\ ordered'.session = m.session
        /\ ordered.session = NoSession => committed[m.session] = <<>>
    BY <1>6, TouchEffect
  <2>3. CASE ordered'.session = ordered.session
    BY <2>1, <2>3, StreamStutter DEF Producing
  <2>4. CASE ordered.session = NoSession /\ ordered'.session = m.session
    <3>1. m.session \in Generations /\ m.id \in 0 .. (Len(log[m.session]) - 1)
      BY <2>2 DEF TouchRecord
    <3>2. log[m.session] # <<>>
      BY <1>0, <3>1
    <3>3. Stream!Join(m.session)
      BY <2>1, <2>2, <2>4, <3>1, <3>2 DEF Stream!Join
    <3> QED BY <3>1, <3>3 DEF Stream!Next
  <2> QED BY <2>2, <2>3, <2>4
<1>7. ASSUME HostCommit PROVE Stream!Next
  <2> DEFINE s == ordered.session
             f == HeadFrame(ordered)
  <2>1. /\ committed' = [committed EXCEPT ![s] = Append(committed[s], f.touch)]
        /\ ordered' = CommitReady(ordered)
        /\ UNCHANGED <<hostReady, generation, head, log>>
    BY <1>7 DEF HostCommit, phoneUnchanged, phoneVars
  <2>2. SlotOf(ordered.next) \in Slots /\ f # NoFrame /\ f.sequence = ordered.next /\ Served
    BY <1>0, <1>7, SlotOfType DEF HostCommit, NextReady, Window, Served
  <2>3. s # NoSession
    <3>1. ordered.buffered # EmptyRing
      BY <2>2 DEF HeadFrame, EmptyRing
    <3> QED BY <2>2, <3>1 DEF IInv, WindowInv
  <2>4. /\ s \in Generations /\ Len(committed[s]) = ordered.next
        /\ ordered.next < Len(log[s]) /\ f.touch = log[s][ordered.next + 1]
    BY <2>2, <2>3 DEF IInv, WindowInv, HeadFrame
  <2>5. ordered'.session = s
    BY <2>1 DEF CommitReady
  <2> HIDE DEF s, f
  <2>6. Stream!Consume
    BY <2>1, <2>3, <2>4, <2>5 DEF Stream!Consume, s
  <2> QED BY <2>6 DEF Stream!Next
<1>8. ASSUME ordered' = RequireFreshSession, UNCHANGED <<phoneVars, committed>>
      PROVE  [Stream!Next]_(Stream!vars)
  <2>1. ordered'.session = NoSession /\ UNCHANGED <<hostReady, generation, head, log, committed>>
    BY <1>8 DEF RequireFreshSession, phoneVars
  <2>2. CASE ordered.session = NoSession
    BY <2>1, <2>2, StreamStutter DEF Producing
  <2>3. CASE ordered.session # NoSession
    <3>1. Stream!Leave
      BY <2>1, <2>3 DEF Stream!Leave
    <3> QED BY <3>1 DEF Stream!Next
  <2> QED BY <2>2, <2>3
<1>9. ASSUME UNCHANGED <<phoneVars, committed, ordered>> PROVE [Stream!Next]_(Stream!vars)
  BY <1>9, StreamStutter DEF phoneVars, Producing
<1>10. CASE HostNext
  <2>1. ASSUME NEW m \in toHost, HostAccept(m) \/ HostPing(m) \/ HostResendContinue(m)
        PROVE  [Stream!Next]_(Stream!vars)
    BY <1>9, <2>1 DEF HostAccept, HostPing, HostResendContinue, hostVars, phoneUnchanged
  <2>2. ASSUME NEW m \in toHost, HostPhoneAbort(m) PROVE [Stream!Next]_(Stream!vars)
    BY <1>8, <2>2 DEF HostPhoneAbort, EndSession, phoneUnchanged
  <2>3. CASE HostServe \/ HostSinkRefuses \/ HostFails \/ HostStops
    BY <1>8, <2>3 DEF HostServe, HostSinkRefuses, HostFails, HostStops, EndSession, phoneUnchanged
  <2>4. CASE \/ HostRevalidateFails \/ HostRepairHello \/ HostAck \/ HostSkipAck
             \/ HostReleases \/ HostReleaseRefused \/ HostExit \/ RequestStop
    BY <1>9, <2>4 DEF HostRevalidateFails, HostRepairHello, HostAck, HostSkipAck,
      HostReleases, HostReleaseRefused, HostExit, RequestStop, hostVars, phoneUnchanged
  <2> QED BY <1>6, <1>7, <1>10, <2>1, <2>2, <2>3, <2>4 DEF HostNext
<1>11. CASE Lose \/ UNCHANGED vars
  BY <1>9, <1>11 DEF Lose, vars, hostVars
<1> QED BY <1>5, <1>10, <1>11 DEF Next

(* Protocol-v5 gameplay implements FrameStream: through loss, duplication, *)
(* reordering, abandoned sessions and refused submissions, the host        *)
(* consumes one session at a time, in order, each frame once, and the      *)
(* phone is told only of what was consumed.                                *)
THEOREM ImplementsStream == Spec => StreamSpec
<1>1. Init => Stream!Init
  BY StreamInit
<1>2. IInv /\ [Next]_vars => [Stream!Next]_(Stream!vars)
  BY StreamStep
<1> QED BY <1>1, <1>2, Invariance, PTL DEF Spec, StreamSpec, Stream!Spec

=============================================================================
