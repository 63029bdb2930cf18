---------------------------- MODULE RecordChannel ----------------------------
(***************************************************************************)
(* One direction of an authenticated v5 connection: the sender's packet    *)
(* numbers (seal_into) and the receiver's order of checks (open_in_place,  *)
(* openLocked) over a path that repeats, reorders and damages datagrams.   *)
(* The AEAD is ideal: a record opens if and only if it is undamaged.       *)
(***************************************************************************)
EXTENDS ReplayWindow, FiniteSets

CONSTANTS
  LastPacket,   \* u64::MAX in the code: the number that is never used
  MaxAttempts   \* bound: records the sender tries to seal

ASSUME PacketAssumption == LastPacket \in Nat /\ MaxAttempts \in Nat

VARIABLES
  nextPacket,   \* sender: next_packet_number
  attempts,     \* sender: seal attempts so far, which names the payloads
  wire,         \* records sealed so far; each may arrive any number of times
  replay,       \* receiver: the window
  opened        \* receiver: the sealed records opened, with their count

vars == <<nextPacket, attempts, wire, replay, opened>>

Init ==
  /\ nextPacket = 0 /\ attempts = 0 /\ wire = {}
  /\ replay = NewReplay
  /\ opened = [a \in 1 .. MaxAttempts |-> 0]

(* Mutant of Seal: the number is used up only if the send succeeds too.    *)
SealRollsBack ==
  /\ attempts < MaxAttempts /\ nextPacket < LastPacket
  /\ attempts' = attempts + 1
  /\ wire' = wire \cup {[number |-> nextPacket, attempt |-> attempts + 1]}
  /\ nextPacket' \in {nextPacket, nextPacket + 1}
  /\ UNCHANGED <<replay, opened>>

(* seal_into(): the number is burnt before anything can fail.              *)
Seal ==
  /\ attempts < MaxAttempts /\ nextPacket < LastPacket
  /\ attempts' = attempts + 1 /\ nextPacket' = nextPacket + 1
  /\ \/ wire' = wire \cup {[number |-> nextPacket, attempt |-> attempts + 1]}
     \/ UNCHANGED wire                       \* the record is too large
  /\ UNCHANGED <<replay, opened>>

(* Mutant of Open: the window moves before the tag is checked.             *)
OpenCommitsFirst(record, intact) ==
  /\ WouldAccept(replay, record.number)
  /\ replay' = Commit(replay, record.number)
  /\ opened' = IF intact THEN [opened EXCEPT ![record.attempt] = @ + 1] ELSE opened
  /\ UNCHANGED <<nextPacket, attempts, wire>>

(* open_in_place(): replay check, tag, and only then the window moves.     *)
Open(record, intact) ==
  /\ WouldAccept(replay, record.number) /\ intact
  /\ replay' = Commit(replay, record.number)
  /\ opened' = [opened EXCEPT ![record.attempt] = @ + 1]
  /\ UNCHANGED <<nextPacket, attempts, wire>>

Next == Seal \/ \E record \in wire, intact \in BOOLEAN : Open(record, intact)

Spec == Init /\ [][Next]_vars

------------------------------------------------------------------------------
(* Types; the last packet number is never used for a record, so the        *)
(* counter of seal_into() does not wrap.                                   *)
TypeOK ==
  /\ nextPacket \in 0 .. LastPacket /\ attempts \in 0 .. MaxAttempts
  /\ wire \subseteq [number : 0 .. (LastPacket - 1), attempt : 1 .. MaxAttempts]
  /\ replay \in [highest : {NoPacket} \cup (0 .. (LastPacket - 1)),
                 words : [WordIndex -> SUBSET Bits]]
  /\ opened \in [1 .. MaxAttempts -> Nat]

(* No record is opened twice, however the path repeats and reorders: the   *)
(* bitmap survives every shift across its words.                           *)
OpenedOnce == \A a \in 1 .. MaxAttempts : opened[a] <= 1

(* A nonce names one record: failed attempts do not bring a number back.   *)
NonceIsFresh == \A r, s \in wire : r.number = s.number => r = s

(* The window refuses exactly the packets already opened and those too old *)
(* to tell: a fresh record inside the window is never mistaken for a       *)
(* replay, and a damaged datagram does not move the window.                *)
WindowIsExact ==
  \A r \in wire :
    WouldAccept(replay, r.number) <=>
      opened[r.attempt] = 0 /\ replay.highest - r.number < WindowBits
==============================================================================
