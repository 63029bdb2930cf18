---------------------------- MODULE RepressSpacer ----------------------------
(***************************************************************************)
(* The beta that separates same-lane key edges                             *)
(* (native-host/src/keyboard/mod.rs, RepressSpacer).                       *)
(*                                                                         *)
(* Instants are relative to now and saturate where the code cannot tell    *)
(* them apart: an edge is due in `due` ticks, never later remembered than  *)
(* -Gap, and the last emission of a lane is `age` ticks ago, at most Gap.  *)
(***************************************************************************)
EXTENDS KeyboardPlan, FiniteSets

CONSTANT Gap   \* the spacing in ticks

ASSUME GapAssumption == Gap \in Nat

MaxWaitingEdges == 3
NeverEmitted == [age |-> Gap, spaced |-> FALSE, touch |-> FALSE, ever |-> FALSE]

Edge == [change : KeyChange, due : -Gap .. (MaxWaitingEdges * Gap), spaced : BOOLEAN]
Emission == [age : 0 .. Gap, spaced : BOOLEAN, touch : BOOLEAN, ever : BOOLEAN]
Spacer == [queue : Seq(Edge), last : [Lanes -> Emission]]

NewSpacer == [queue |-> <<>>, last |-> [l \in Lanes |-> NeverEmitted]]

Larger(x, y) == IF x >= y THEN x ELSE y

WaitingOf(queue, lane) == {i \in DOMAIN queue : queue[i].change.lane = lane}
NewestOf(queue, lane) ==
  CHOOSE i \in WaitingOf(queue, lane) : \A j \in WaitingOf(queue, lane) : j <= i

NeedsGap(previousSpaced, previousTouch, change) ==
  change.down \/ previousSpaced \/ previousTouch

Scheduled(change, due, spaced) == [change |-> change, due |-> due, spaced |-> spaced]

(* An edge behind another waiting edge of its lane.                        *)
Behind(previous, change) ==
  IF NeedsGap(previous.spaced, previous.change.touch, change)
  THEN Scheduled(change, Larger(previous.due + Gap, 0), TRUE)
  ELSE Scheduled(change, Larger(previous.due, 0), FALSE)

(* The first waiting edge of its lane.                                     *)
After(emission, change) ==
  IF emission.ever /\ NeedsGap(emission.spaced, emission.touch, change) /\ emission.age < Gap
  THEN Scheduled(change, Gap - emission.age, TRUE)
  ELSE Scheduled(change, 0, FALSE)

(* Mutant of Enqueue: the newest waiting edge stays.                       *)
EnqueueDropsNewest(s, change, osPressed) ==
  LET waiting == WaitingOf(s.queue, change.lane)
      newest == s.queue[NewestOf(s.queue, change.lane)]
      scheduledDown == IF waiting = {} THEN osPressed ELSE newest.change.down
  IN IF scheduledDown = change.down \/ Cardinality(waiting) >= MaxWaitingEdges THEN s
     ELSE [s EXCEPT !.queue = Append(@, IF waiting = {} THEN After(s.last[change.lane], change)
                                         ELSE Behind(newest, change))]

(* enqueue(): an edge that changes nothing is dropped, one too many cancels *)
(* the newest waiting edge of the lane.                                    *)
Enqueue(s, change, osPressed) ==
  LET waiting == WaitingOf(s.queue, change.lane)
      newest == s.queue[NewestOf(s.queue, change.lane)]
      scheduledDown == IF waiting = {} THEN osPressed ELSE newest.change.down
  IN CASE scheduledDown = change.down -> s
       [] scheduledDown # change.down /\ Cardinality(waiting) >= MaxWaitingEdges ->
            [s EXCEPT !.queue = RemoveAt(@, NewestOf(@, change.lane))]
       [] OTHER ->
            [s EXCEPT !.queue = Append(@, IF waiting = {} THEN After(s.last[change.lane], change)
                                           ELSE Behind(newest, change))]

(* Mutant of Ready: a release may overtake a waiting press.                *)
ReadyOvertakes(queue, selected, i) ==
  LET earlier == WaitingOf(queue, queue[i].change.lane) \cap (1 .. (i - 1))
  IN /\ queue[i].due <= 0
     /\ earlier \subseteq selected
     /\ queue[i].spaced => earlier = {}

(* flush(): whether edge i joins the batch, given the earlier ones that do. *)
Ready(queue, selected, i) ==
  LET earlier == WaitingOf(queue, queue[i].change.lane) \cap (1 .. (i - 1))
  IN /\ queue[i].due <= 0
     /\ earlier \subseteq selected
     /\ queue[i].spaced => earlier = {}
     /\ \/ queue[i].change.down
        \/ \A j \in 1 .. (i - 1) : queue[j].change.down => j \in selected

Selected(queue) ==
  FoldLeft(LAMBDA acc, i : IF Ready(queue, acc, i) THEN acc \cup {i} ELSE acc,
           {}, [i \in 1 .. Len(queue) |-> i])

Batch(queue) ==
  LET indices == SetToSortSeq(Selected(queue), <)
  IN [k \in DOMAIN indices |-> queue[indices[k]].change]

(* Mutant of NoteRelease: a cancelled key leaves no trace.                 *)
NoteReleaseNot(s, lane) == s

(* flush() after the OS took the first n edges of the batch.  A late flush *)
(* restarts the gap of a spaced edge whose lane was emitted just now.      *)
Emitted(s, n) ==
  LET taken == {SetToSortSeq(Selected(s.queue), <)[k] : k \in 1 .. n}
      lanes == {s.queue[i].change.lane : i \in taken}
      latest(l) == s.queue[CHOOSE i \in taken : /\ s.queue[i].change.lane = l
                                                /\ \A j \in taken :
                                                     s.queue[j].change.lane = l => j <= i]
      left == SetToSortSeq(DOMAIN s.queue \ taken, <)
      last == [l \in Lanes |->
                 IF l \in lanes
                 THEN [age |-> 0, spaced |-> latest(l).spaced,
                       touch |-> latest(l).change.touch, ever |-> TRUE]
                 ELSE s.last[l]]
      kept(e) == IF e.spaced /\ last[e.change.lane].ever /\ last[e.change.lane].age = 0
                 THEN [e EXCEPT !.due = Larger(@, Gap)] ELSE e
  IN IF n = 0 THEN s
     ELSE [queue |-> [k \in DOMAIN left |-> kept(s.queue[left[k]])], last |-> last]

(* note_release().                                                         *)
NoteRelease(s, lane) ==
  [s EXCEPT !.last[lane] = [age |-> 0, spaced |-> FALSE, touch |-> FALSE, ever |-> TRUE]]

(* One tick of the clock.                                                  *)
Elapse(s) ==
  [queue |-> [i \in DOMAIN s.queue |-> [s.queue[i] EXCEPT !.due = Larger(@ - 1, -Gap)]],
   last |-> [l \in Lanes |-> [s.last[l] EXCEPT !.age = IF @ < Gap THEN @ + 1 ELSE Gap]]]
==============================================================================
