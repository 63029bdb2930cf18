---------------------------- MODULE KeyboardSink ----------------------------
(***************************************************************************)
(* The lane-key sink (native-host/src/keyboard/mod.rs, KeyboardSink) over  *)
(* uinput (keyboard/linux.rs, KeySink) or SendInput (keyboard/windows.rs), *)
(* driven the way input.rs drives it: a frame is offered again until the   *)
(* sink takes it or its deadline passes, and then everything is cancelled. *)
(*                                                                         *)
(* The sink is a value; a call that reaches the OS has a set of results,   *)
(* one for each number of events the OS may take.                          *)
(***************************************************************************)
EXTENDS RepressSpacer

CONSTANTS
  Variants,    \* the sinks a host may be started with
  MaxFrames,   \* bound: frames offered
  MaxFaults,   \* bound: incomplete OS writes
  Frames       \* the frames the phone may send

(* spaced: there is a spacer; uinput: the sink of Linux, where a key event *)
(* and its SYN_REPORT can part.                                            *)
Variant == [spaced : BOOLEAN, uinput : BOOLEAN]

ASSUME VariantsAssumption == Variants \subseteq Variant
ASSUME KeyBoundAssumption == MaxFrames \in Nat /\ MaxFaults \in Nat
ASSUME FramesAssumption == Frames \subseteq KeyFrame

VARIABLES
  sink,      \* the sink and the OS behind it
  job,       \* what the host is doing: a call it repeats until it succeeds
  shown,     \* contacts of the last snapshot accepted since the last release
  quiet,     \* ticks since the OS last saw an edge of each lane, up to Gap
  frames, faults

vars == <<sink, job, shown, quiet, frames, faults>>

NoChange == [lane |-> NoLane, down |-> FALSE, touch |-> FALSE]
Cleanup == [lane |-> NoLane, down |-> TRUE, touch |-> FALSE]   \* CleanupSync
Idle == [kind |-> "idle"]
Serving == [kind |-> "service"]
Cancelling == [kind |-> "cancel"]
Nothing == [p \in {} |-> [x |-> 0, touching |-> FALSE, suppressed |-> FALSE]]

SinkType ==
  [variant : Variants, state : KeyboardState, pressed : [Lanes -> BOOLEAN],
   planned : BOOLEAN,            \* pending.sequence is the frame on offer
   next : KeyboardState, changes : Seq(KeyChange), applied : Nat,
   spacer : Spacer,
   unsynced : KeyChange \cup {NoChange, Cleanup},   \* KeySink::pending
   down : [Lanes -> BOOLEAN]]    \* the OS's key state

NewSink(variant) ==
  [variant |-> variant, state |-> EmptyState, pressed |-> [l \in Lanes |-> FALSE], planned |-> FALSE,
   next |-> EmptyState, changes |-> <<>>, applied |-> 0, spacer |-> NewSpacer,
   unsynced |-> NoChange, down |-> [l \in Lanes |-> FALSE]]

Spacing == sink.variant.spaced
Result(s, ok) == [sink |-> s, ok |-> ok]

(* The ? operator: go on with Op after success, return an error as it is.  *)
Then(results, Op(_)) == UNION {IF r.ok THEN Op(r.sink) ELSE {r} : r \in results}

(* The OS after the first n of these transitions.                          *)
Applied(keys, changes, n) ==
  [l \in Lanes |->
     LET mine == {i \in 1 .. n : changes[i].lane = l}
     IN IF mine = {} THEN keys[l]
        ELSE changes[CHOOSE i \in mine : \A j \in mine : j <= i].down]

(* KeySink::submit(): how many transitions the OS took, and the one whose  *)
(* SYN_REPORT is missing.  Nothing is taken while a cancellation sync is   *)
(* missing, or if the retry does not begin with the missing one.           *)
Accepted(s, changes, n, odd) ==
  [accepted |-> n, unsynced |-> IF odd THEN changes[n + 1] ELSE NoChange,
   down |-> Applied(s.down, changes, n + (IF odd THEN 1 ELSE 0))]
Refused(s) == [accepted |-> 0, unsynced |-> s.unsynced, down |-> s.down]

(* SendInput takes a prefix; a uinput write may also end before the        *)
(* SYN_REPORT of a transition.                                             *)
SendInput(s, changes) == {Accepted(s, changes, n, FALSE) : n \in 0 .. Len(changes)}
UinputWrite(s, changes) ==
  SendInput(s, changes) \cup {Accepted(s, changes, n, TRUE) : n \in 0 .. (Len(changes) - 1)}

Submissions(s, changes) ==
  LET all == IF s.variant.uinput THEN UinputWrite(s, changes) ELSE SendInput(s, changes)
  IN CASE s.unsynced = NoChange -> all
       [] s.unsynced # NoChange /\ (s.unsynced = Cleanup \/ Head(changes) # s.unsynced) ->
            {Refused(s)}
       [] OTHER -> {Refused(s)} \cup {r \in all : r.accepted >= 1}

Written(s, r) == [s EXCEPT !.unsynced = r.unsynced, !.down = r.down]

(* Mutant of Discards: an unsynchronised press is only synchronised.       *)
DiscardsSyncOnly(s) ==
  IF s.unsynced = NoChange THEN {Result(s, TRUE)}
  ELSE {Result(s, FALSE), Result([s EXCEPT !.unsynced = NoChange], TRUE)}

(* KeySink::discard_pending(): compensate an unsynchronised press, then    *)
(* synchronise.                                                            *)
Discards(s) ==
  LET released == [s.down EXCEPT ![s.unsynced.lane] = FALSE]
  IN CASE s.unsynced = NoChange -> {Result(s, TRUE)}
       [] s.unsynced \in KeyChange /\ s.unsynced.down ->
            {Result(s, FALSE),
             Result([s EXCEPT !.down = released, !.unsynced = Cleanup], FALSE),
             Result([s EXCEPT !.down = released, !.unsynced = NoChange], TRUE)}
       [] OTHER -> {Result(s, FALSE), Result([s EXCEPT !.unsynced = NoChange], TRUE)}

(* RepressSpacer::flush(), called by service() and accept().               *)
Flushes(s) ==
  LET batch == Batch(s.spacer.queue)
      flushed(r) == [Written(s, r) EXCEPT !.pressed = Applied(@, batch, r.accepted),
                                          !.spacer = Emitted(@, r.accepted)]
  IN IF batch = <<>> THEN {Result(s, TRUE)}
     ELSE {Result(flushed(r), r.accepted = Len(batch)) : r \in Submissions(s, batch)}

(* release_all_with(): forget what is planned or waiting, lift every       *)
(* pressed key.                                                            *)
Releases(s) ==
  LET lanes == SetToSortSeq({l \in Lanes : s.pressed[l]}, <)
      lifts == [k \in DOMAIN lanes |-> Lift(lanes[k])]
      cleared == [s EXCEPT !.planned = FALSE, !.applied = 0, !.changes = lifts,
                           !.spacer.queue = <<>>]
      noted(n) == FoldLeft(NoteRelease, cleared.spacer, SubSeq(lanes, 1, n))
      lifted(r) == [Written(cleared, r) EXCEPT
                      !.pressed = Applied(@, lifts, r.accepted),
                      !.spacer = IF s.variant.spaced THEN noted(r.accepted) ELSE @,
                      !.state = IF r.accepted = Len(lifts) THEN EmptyState ELSE @]
  IN IF lifts = <<>> THEN {Result([cleared EXCEPT !.state = EmptyState], TRUE)}
     ELSE {Result(lifted(r), r.accepted = Len(lifts)) : r \in Submissions(s, lifts)}

(* Mutant of ReleaseAll: the unsynchronised transition is forgotten.       *)
ReleaseAllKeepsTorn(s) == Releases([s EXCEPT !.unsynced = NoChange])

(* release_all(), and accept() of a frame that releases.                   *)
ReleaseAll(s) == Then(Discards(s), Releases)

(* accept(): plan a frame once, however often it is offered.               *)
Plans(s, frame) ==
  IF s.planned THEN {Result(s, TRUE)}
  ELSE {Result([s EXCEPT !.planned = TRUE, !.next = plan.next, !.changes = plan.changes,
                         !.applied = 0], TRUE) : plan \in {Plan(s.state, frame, s.variant.spaced)}}

(* The frame is done: its state becomes the sink's.                        *)
Finishes(s) == {Result([s EXCEPT !.state = s.next, !.next = s.state, !.planned = FALSE], TRUE)}

(* accept() without a spacer: submit what is left of the plan.             *)
Direct(s) ==
  LET rest == SubSeq(s.changes, s.applied + 1, Len(s.changes))
      done(r) == [Written(s, r) EXCEPT !.pressed = Applied(@, rest, r.accepted),
                                       !.applied = @ + r.accepted]
  IN IF rest = <<>> THEN {Result(s, TRUE)}
     ELSE {Result(done(r), r.accepted = Len(rest)) : r \in Submissions(s, rest)}

(* accept() with a spacer: queue what is left of the plan, then flush.     *)
Queues(s) ==
  {Result([s EXCEPT
     !.applied = Len(s.changes),
     !.spacer = FoldLeft(LAMBDA acc, c : Enqueue(acc, c, s.pressed[c.lane]), @,
                         SubSeq(s.changes, s.applied + 1, Len(s.changes)))], TRUE)}
Submits(s) == IF s.variant.spaced THEN Then(Queues(s), Flushes) ELSE Direct(s)

Accept(s, frame) ==
  CASE frame.kind = "release" -> ReleaseAll(s)
    [] frame.kind = "heartbeat" -> Flushes(s)
    [] OTHER -> LET Begin(t) == Plans(t, frame)
                IN Then(Then(Then(Flushes(s), Begin), Submits), Finishes)

------------------------------------------------------------------------------
(* The host's loops.                                                       *)

Init ==
  /\ sink \in {NewSink(v) : v \in Variants} /\ job = Idle /\ shown = Nothing
  /\ quiet = [l \in Lanes |-> Gap] /\ frames = 0 /\ faults = 0

(* A call that fails is repeated until its deadline has passed.  Each      *)
(* failure the OS is to blame for costs a fault; a call that fails         *)
(* whatever the OS does is repeated in vain and runs into the deadline.    *)
Calls(results, retry) ==
  \E all \in {results} : \E r \in all :
    /\ sink' = r.sink
    /\ quiet' = [l \in Lanes |-> IF r.sink.down[l] # sink.down[l] THEN 0 ELSE quiet[l]]
    /\ IF r.ok THEN job' = Idle /\ UNCHANGED faults
       ELSE IF \A q \in all : ~q.ok THEN job' = Cancelling /\ UNCHANGED faults
       ELSE job' \in {retry, Cancelling} /\ faults < MaxFaults /\ faults' = faults + 1

(* commit_ready(): the next frame is ready.                                *)
Offer(frame) ==
  /\ job = Idle /\ frames < MaxFrames
  /\ frame.down => ~(frame.action \in DOMAIN shown /\ shown[frame.action].touching)
  /\ job' = [kind |-> "accept", frame |-> frame] /\ frames' = frames + 1
  /\ UNCHANGED <<sink, shown, quiet, faults>>

(* commit_ready(): one sink.accept().                                      *)
Commit ==
  /\ job.kind = "accept"
  /\ Calls(Accept(sink, job.frame), job)
  /\ shown' = CASE job' # Idle \/ job.frame.kind = "heartbeat" -> shown
                [] job' = Idle /\ job.frame.kind = "snapshot" -> job.frame.contacts
                [] OTHER -> Nothing
  /\ UNCHANGED frames

(* service_deferred(): emit waiting edges that are due.                    *)
ServiceDue == job = Serving \/ (job = Idle /\ Batch(sink.spacer.queue) # <<>>)

Service ==
  /\ ServiceDue
  /\ Calls(Flushes(sink), Serving)
  /\ UNCHANGED <<shown, frames>>

(* The session ends: its input must be cancelled.                          *)
EndSession ==
  /\ job = Idle /\ shown # Nothing
  /\ job' = Cancelling
  /\ UNCHANGED <<sink, shown, quiet, frames, faults>>

(* cancel_with_deadline(), repeated by the controller until it succeeds.   *)
Cancel ==
  /\ job = Cancelling
  /\ Calls(ReleaseAll(sink), Cancelling)
  /\ shown' = IF job' = Idle THEN Nothing ELSE shown
  /\ UNCHANGED frames

(* Time passes while something waits for it.                               *)
Tick ==
  /\ Spacing
  /\ sink' = [sink EXCEPT !.spacer = Elapse(@)]
  /\ quiet' = [l \in Lanes |-> IF quiet[l] < Gap THEN quiet[l] + 1 ELSE Gap]
  /\ <<sink, quiet>>' # <<sink, quiet>>
  /\ UNCHANGED <<job, shown, frames, faults>>

Next == (\E frame \in Frames : Offer(frame)) \/ Commit \/ Service \/ EndSession \/ Cancel \/ Tick

Spec == Init /\ [][Next]_vars

(* The loops go on calling, so that no call stays due for ever unless it   *)
(* keeps failing, and time passes.                                         *)
Failing == []<><<faults' # faults>>_vars

Fairness ==
  /\ []<>(job.kind # "accept") \/ Failing
  /\ []<>(job # Cancelling) \/ Failing
  /\ []<>~ServiceDue \/ Failing
  /\ WF_vars(Tick)

FairSpec == Spec /\ Fairness

------------------------------------------------------------------------------
(* Types, with the instants of the spacer in their saturated ranges: no    *)
(* edge is ever scheduled further ahead than MAX_WAITING_EDGES gaps.       *)
TypeOK ==
  /\ sink \in SinkType /\ quiet \in [Lanes -> 0 .. Gap]
  /\ job \in {Idle, Serving, Cancelling} \cup [kind : {"accept"}, frame : Frames]
  /\ faults \in 0 .. MaxFaults /\ frames \in 0 .. MaxFrames

Releasing == job = Cancelling \/ (job.kind = "accept" /\ job.frame.kind = "release")

(* What the sink believes pressed is what the OS holds down, but for the   *)
(* lane whose SYN_REPORT is missing, through every partial write and       *)
(* retry; a key that is down is never one that a release would miss.       *)
BeliefMatchesOs ==
  \A l \in Lanes :
    l # sink.unsynced.lane =>
      /\ sink.down[l] => sink.pressed[l]
      /\ ~Releasing => sink.down[l] = sink.pressed[l]

(* The lanes a snapshot asks for.                                          *)
Asked(contacts) ==
  {LaneFor(contacts[p].x) : p \in {q \in DOMAIN contacts :
     contacts[q].touching /\ ~contacts[q].suppressed}}

(* Where lane l will be when every waiting edge is out.                    *)
ScheduledDown(l) ==
  IF WaitingOf(sink.spacer.queue, l) = {} THEN sink.pressed[l]
  ELSE sink.spacer.queue[NewestOf(sink.spacer.queue, l)].change.down

(* Between frames the keys down, or scheduled to be, are exactly the lanes *)
(* under the fingers of the last snapshot accepted: no key sticks and none *)
(* is forgotten when fingers share, swap and cross lanes.                  *)
KeysFollowFingers ==
  job = Idle => {l \in Lanes : ScheduledDown(l)} = Asked(shown)

(* "A slide never has a no-key gap": a finger that stays down through a    *)
(* snapshot has some key down wherever in its slide a partial write        *)
(* stopped, and between frames too, unless a landing press is still being  *)
(* spaced.                                                                 *)
SlideHasNoGap ==
  (\/ /\ job.kind = "accept" /\ sink.planned
      /\ \E p \in Pointers : sink.state.lanes[p] # NoLane /\ sink.next.lanes[p] # NoLane
   \/ job = Idle /\ Asked(shown) # {})
  => \/ \E l \in Lanes : sink.down[l]
     \/ \E i \in DOMAIN sink.spacer.queue :
          sink.spacer.queue[i].change.down /\ sink.spacer.queue[i].change.touch

(* A lane owned before and after a snapshot keeps its key down while the   *)
(* snapshot is applied, whichever fingers own it (without the spacer).     *)
SharedLaneStaysDown ==
  job.kind = "accept" /\ sink.planned /\ ~Spacing =>
    \A l \in Lanes : sink.state.holds[l] > 0 /\ sink.next.holds[l] > 0 => sink.down[l]

(* The OS sees a press of a lane only Gap after the last edge it saw of    *)
(* it, whether that edge came from a frame, a late flush or a cancelled    *)
(* session (SendInput: no write is torn).                                  *)
RepressWaits ==
  [][Spacing /\ ~sink.variant.uinput =>
     \A l \in Lanes : ~sink.down[l] /\ sink'.down[l] => quiet[l] = Gap]_vars

(* "the retry's flush finishes it" (accept_at): after a torn write the     *)
(* next batch begins with the transition that still lacks its SYN_REPORT.  *)
RetryFinishes ==
  sink.unsynced \in KeyChange /\ job.kind = "accept" /\ job.frame.kind = "snapshot" =>
    LET batch == Batch(sink.spacer.queue) IN batch # <<>> /\ Head(batch) = sink.unsynced

(* Every accepted snapshot reaches the OS: when frames and faults run out, *)
(* the OS holds the lanes the last snapshot asked for.                     *)
KeysSettle == <>[]({l \in Lanes : sink.down[l]} = Asked(shown))
=============================================================================
