---------------------------- MODULE KeyboardPlan ----------------------------
(***************************************************************************)
(* From one complete contact snapshot to lane-key transitions              *)
(* (native-host/src/keyboard/mod.rs, plan_into and what it calls).         *)
(*                                                                         *)
(* A frame is a snapshot of contacts, a frame that releases everything     *)
(* (session start, CANCEL or not locked) or an empty heartbeat.  Contacts  *)
(* are in the order of their pointer ids, which is Android's order; action *)
(* is the action pointer and down says that the action is its ACTION_DOWN. *)
(***************************************************************************)
EXTENDS Integers, Sequences, SequencesExt

CONSTANTS
  Pointers,    \* pointer ids
  LaneCount    \* lane keys

ASSUME PointersAssumption == Pointers \subseteq Nat
ASSUME LaneAssumption == LaneCount \in Nat \ {0}

Lanes == 0 .. (LaneCount - 1)
NoLane == -1
NoPointer == -1

(* x is a contact's position in lane widths; -1 and LaneCount lie outside  *)
(* the play area.                                                          *)
Contact == [x : -1 .. LaneCount, touching : BOOLEAN, suppressed : BOOLEAN]
KeyFrame == [kind : {"snapshot", "release", "heartbeat"}, action : Pointers \cup {NoPointer},
             down : BOOLEAN, contacts : UNION {[P -> Contact] : P \in SUBSET Pointers}]

KeyboardState == [lanes : [Pointers -> Lanes \cup {NoLane}], suppressed : [Pointers -> BOOLEAN],
                  holds : [Lanes -> Nat]]
EmptyState == [lanes |-> [p \in Pointers |-> NoLane], suppressed |-> [p \in Pointers |-> FALSE],
               holds |-> [l \in Lanes |-> 0]]

KeyChange == [lane : Lanes, down : BOOLEAN, touch : BOOLEAN]
Press(lane, touch) == [lane |-> lane, down |-> TRUE, touch |-> touch]
Lift(lane) == [lane |-> lane, down |-> FALSE, touch |-> FALSE]

(* lane_for(): clamp to the edges.                                         *)
LaneFor(x) == CASE x < 0 -> 0 [] x >= LaneCount -> LaneCount - 1 [] OTHER -> x

------------------------------------------------------------------------------
(* A plan in progress: the next state and the transitions so far.          *)

AcquireLane(plan, lane, touch) ==
  [plan EXCEPT !.holds[lane] = @ + 1,
               !.changes = IF plan.holds[lane] = 0 THEN Append(@, Press(lane, touch)) ELSE @]

ReleaseLane(plan, lane) ==
  IF plan.holds[lane] = 0 THEN plan
  ELSE [plan EXCEPT !.holds[lane] = @ - 1,
                    !.changes = IF plan.holds[lane] = 1 THEN Append(@, Lift(lane)) ELSE @]

(* Mutant of SlideStep: the lane is left before the next one is entered.   *)
SlideStepWithGap(plan, from, to) == AcquireLane(ReleaseLane(plan, from), to, FALSE)

SlideStep(plan, from, to) == ReleaseLane(AcquireLane(plan, to, FALSE), from)

(* move_pointer(): land, or slide through every lane on the way.           *)
MovePointer(plan, p, destination) ==
  LET current == plan.lanes[p]
      sign == IF destination > current THEN 1 ELSE -1
      steps == [i \in 1 .. sign * (destination - current) |-> current + sign * i]
      moved == IF current = NoLane THEN AcquireLane(plan, destination, TRUE)
               ELSE FoldLeft(LAMBDA acc, to : SlideStep(acc, to - sign, to), plan, steps)
  IN [moved EXCEPT !.lanes[p] = destination]

ReleasePointer(plan, p) ==
  IF plan.lanes[p] = NoLane THEN plan
  ELSE [ReleaseLane(plan, plan.lanes[p]) EXCEPT !.lanes[p] = NoLane]

ApplyContact(plan, p, contact) ==
  IF contact.touching /\ ~contact.suppressed THEN MovePointer(plan, p, LaneFor(contact.x))
  ELSE ReleasePointer(plan, p)

InOrder(P) == SetToSortSeq(P, <)

(* Mutant of Interpreted: pointers missing from the snapshot keep lanes.   *)
InterpretedAsDelta(state, frame) ==
  LET present == DOMAIN frame.contacts
      start == [lanes |-> state.lanes, holds |-> state.holds, changes |-> <<>>]
  IN FoldLeft(LAMBDA acc, p : ApplyContact(acc, p, frame.contacts[p]), start, InOrder(present))

(* The action pointer first, then the other contacts, then the pointers    *)
(* the snapshot no longer mentions.                                        *)
Interpreted(state, frame) ==
  LET present == DOMAIN frame.contacts
      first == present \cap {frame.action}
      start == [lanes |-> state.lanes, holds |-> state.holds, changes |-> <<>>]
      applied == FoldLeft(LAMBDA acc, p : ApplyContact(acc, p, frame.contacts[p]), start,
                          InOrder(first) \o InOrder(present \ first))
  IN FoldLeft(ReleasePointer, applied, InOrder(Pointers \ present))

(* Mutant of Kept: every transition of the iteration reaches the OS.       *)
KeptAll(before, after, changes) == changes

(* A lane owned before and after the frame keeps its key.                  *)
Kept(before, after, changes) ==
  SelectSeq(changes, LAMBDA c : before[c.lane] = 0 \/ after[c.lane] = 0)

(* A finger that lands (or passes its pressure gate) on a lane held since  *)
(* before the frame: a repeat press, or a release and a press.             *)
Represses(state, after, frame, split) ==
  LET new(p) == /\ (frame.down /\ p = frame.action) \/ state.suppressed[p]
                /\ state.lanes[p] = NoLane
                /\ after[p] # NoLane /\ state.holds[after[p]] > 0
      edges(p) == IF split THEN <<Lift(after[p]), Press(after[p], TRUE)>>
                  ELSE <<Press(after[p], TRUE)>>
  IN FoldLeft(LAMBDA acc, p : acc \o edges(p), <<>>,
              InOrder({p \in DOMAIN frame.contacts : new(p)}))

Plan(state, frame, split) ==
  LET plan == Interpreted(state, frame)
      gated(p) == /\ p \in DOMAIN frame.contacts
                  /\ frame.contacts[p].touching /\ frame.contacts[p].suppressed
  IN [next |-> [lanes |-> plan.lanes, suppressed |-> [p \in Pointers |-> gated(p)],
                holds |-> plan.holds],
      changes |-> Kept(state.holds, plan.holds, plan.changes)
                  \o Represses(state, plan.lanes, frame, split)]
=============================================================================
