--------------------------- MODULE PhoneLifecycle ---------------------------
(***************************************************************************)
(* The life cycle of the phone's transport: MainActivity, which lives on   *)
(* the UI thread, the V5Transport objects it makes, and the threads that   *)
(* every open() or startPairing() of one starts.  A thread knows the       *)
(* generation it was started for; lifecycleLock makes each of the guarded  *)
(* blocks (closeInternal, installBinding, installChannel) one step.        *)
(*                                                                         *)
(* A session is one call of open() or startPairing(): its number stands    *)
(* also for the socket and for the record channel its threads create.      *)
(* Session and object numbers are given out in order.                      *)
(***************************************************************************)
EXTENDS Naturals, Sequences

CONSTANTS
  Helpers,       \* the threads of open() besides the control thread: writer, watchdog
  MaxSessions,   \* bound: open() and startPairing() calls that start threads
  MaxObjects,    \* bound: V5Transport objects
  MaxPosts,      \* bound: callbacks that wait for the UI thread
  MaxRefusals    \* bound: unreadable credentials and writers that start too late

ASSUME LifecycleAssumption ==
  {MaxSessions, MaxObjects, MaxPosts, MaxRefusals} \subseteq Nat /\ "control" \notin Helpers

None == 0
Sessions == 1 .. MaxSessions
Objects == 1 .. MaxObjects
Roles == {"control"} \cup Helpers   \* a pairing thread has the control role

VARIABLES
  ui,        \* MainActivity: transport, playing, reconnectScheduled, whether
             \* reconnectRunnable waits (delayed) and the UI thread is in open()
  obj,       \* the V5Transport objects; made ones have a generation above 0
  session,   \* per session: its object, its generation, where its threads are
  sockets, keys,   \* the sessions whose socket, whose channel is open
  posts,     \* what runOnUiThread() queued, in order
  refusals

vars == <<ui, obj, session, sockets, keys, posts, refusals>>

NewObject == [running |-> FALSE, pairing |-> FALSE, generation |-> 0,
              binding |-> None, channel |-> None]
NoSession == [of |-> None, generation |-> 0, at |-> [r \in Roles |-> "off"]]

Init ==
  /\ ui = [transport |-> None, playing |-> FALSE,
           scheduled |-> FALSE, delayed |-> FALSE, opening |-> FALSE]
  /\ obj = [o \in Objects |-> NewObject]
  /\ session = [s \in Sessions |-> NoSession]
  /\ sockets = {} /\ keys = {}
  /\ posts = <<>> /\ refusals = 0

Unused(s) == session[s].of = None
Exhausted == \A s \in Sessions : ~Unused(s)
NextUnused == CHOOSE s \in Sessions : Unused(s) /\ \A q \in 1 .. (s - 1) : ~Unused(q)
Fresh(o) == obj[o].generation = 0 /\ \A q \in 1 .. (o - 1) : obj[q].generation > 0

Active(s) ==
  LET t == obj[session[s].of]
  IN t.generation = session[s].generation /\ (t.running \/ t.pairing)

------------------------------------------------------------------------------
(* closeInternal() of an object: the fields go at once; socket and channel *)
(* are closed here or, when there are both, by a thread that first sends   *)
(* the authenticated boundary and has nothing else to do.                  *)

Ended(t) == [t EXCEPT !.running = FALSE, !.pairing = FALSE, !.generation = @ + 1,
                      !.binding = None, !.channel = None]

Disposes(t) == sockets' = sockets \ {t.binding} /\ keys' = keys \ {t.channel}

CloseInternal(o) == obj' = [obj EXCEPT ![o] = Ended(@)] /\ Disposes(obj[o])

------------------------------------------------------------------------------
(* The threads of a session.                                               *)

Goto(s, r, pc) == session' = [session EXCEPT ![s].at[r] = pc]
At(s, pc) == session[s].at["control"] = pc

(* A thread whose generation is over closes what it has just made, or is   *)
(* refused by closeInternal(), and ends: nothing that anyone sees.         *)

(* Mutant of OpenBinding: the generation is not checked.                   *)
OpenBindingAnyway(s) ==
  /\ At(s, "start") /\ Goto(s, "control", "handshake")
  /\ obj' = [obj EXCEPT ![session[s].of].binding = s]
  /\ sockets' = sockets \cup {s}
  /\ UNCHANGED <<ui, keys, posts, refusals>>

(* V5NetworkBinding.open() and installBinding().                           *)
OpenBinding(s) ==
  /\ At(s, "start") /\ Active(s) /\ Goto(s, "control", "handshake")
  /\ obj' = [obj EXCEPT ![session[s].of].binding = s]
  /\ sockets' = sockets \cup {s}
  /\ UNCHANGED <<ui, keys, posts, refusals>>

(* establishRemembered() or the Noise XX exchange of a pairing, and        *)
(* installChannel().                                                       *)
Establish(s) ==
  /\ At(s, "handshake") /\ Active(s) /\ Goto(s, "control", "serve")
  /\ obj' = [obj EXCEPT ![session[s].of].channel = s]
  /\ keys' = keys \cup {s}
  /\ UNCHANGED <<ui, sockets, posts, refusals>>

Pairing(s) == \A h \in Helpers : session[s].at[h] = "off"

Connection(connected) == [kind |-> "connection", connected |-> connected, from |-> None]

(* runOnUiThread() on another thread.                                      *)
Posts(message) == Len(posts) < MaxPosts /\ posts' = Append(posts, message)

(* handleHostControl(): the first HELLO makes the session ready.  The      *)
(* listener hears of it after queueLock is released, perhaps too late.     *)
BecomesReady(s) ==
  /\ At(s, "serve") /\ ~Pairing(s) /\ Goto(s, "control", "live")
  /\ Posts(Connection(TRUE))
  /\ UNCHANGED <<ui, obj, sockets, keys, refusals>>

(* Where a thread may meet an exception, a timeout or the end of its work. *)
Breakable == {"start", "handshake", "serve", "live"}

(* Mutant of Fail: closeInternal() ends whatever runs.                     *)
FailUnmatched(s, r) ==
  /\ session[s].at[r] \in Breakable
  /\ CloseInternal(session[s].of) /\ Goto(s, r, "post")
  /\ UNCHANGED <<ui, posts, refusals>>

(* failGameplay() and closeSession(): whoever is first of the generation   *)
(* ends it and will report.                                                *)
Fail(s, r) ==
  /\ session[s].at[r] \in Breakable /\ Active(s)
  /\ CloseInternal(session[s].of) /\ Goto(s, r, "post")
  /\ UNCHANGED <<ui, posts, refusals>>

(* onConnectionChanged(false), onPairingComplete() or onPairingFailed().   *)
Report(s, r) ==
  /\ session[s].at[r] = "post" /\ Goto(s, r, "done")
  /\ Posts(IF Pairing(s) THEN [kind |-> "pairing", connected |-> FALSE, from |-> session[s].of]
           ELSE Connection(FALSE))
  /\ UNCHANGED <<ui, obj, sockets, keys, refusals>>

------------------------------------------------------------------------------
(* The UI thread.  It does nothing else while open() awaits the writer.    *)

Responsive == ~ui.opening
Running(o) == o # None /\ obj[o].running

(* scheduleReconnect() and cancelReconnect() on the activity u.            *)
ScheduleReconnect(u, running) ==
  IF ~u.playing \/ u.scheduled \/ u.transport = None \/ running THEN u
  ELSE [u EXCEPT !.scheduled = TRUE, !.delayed = TRUE]
CancelReconnect(u) == [u EXCEPT !.scheduled = FALSE, !.delayed = FALSE]

(* A session of object o is started: open() after its checks, startPairing(). *)
Start(o, running, started) ==
  /\ ~Exhausted
  /\ obj' = [obj EXCEPT ![o] = [Ended(obj[o]) EXCEPT !.generation = @ + 1,
                                !.running = running, !.pairing = ~running]]
  /\ Disposes(obj[o])
  /\ session' = [session EXCEPT ![NextUnused] =
       [of |-> o, generation |-> obj[o].generation + 2,
        at |-> [r \in Roles |-> IF r \in started THEN
                                  IF r = "control" THEN "start" ELSE "live"
                                ELSE "off"]]]

(* open() on the activity u: refused for want of credentials, or started.  *)
Open(o, u) ==
  \/ /\ refusals < MaxRefusals /\ refusals' = refusals + 1
     /\ CloseInternal(o) /\ UNCHANGED session
     /\ ui' = ScheduleReconnect(u, FALSE)
  \/ /\ Start(o, TRUE, Roles) /\ UNCHANGED refusals
     /\ ui' = [u EXCEPT !.opening = TRUE]

(* The rest of open() and what every caller does with its result.  A       *)
(* session that ended meanwhile and a writer that is late are closed.      *)
OpenReturns ==
  /\ ui.opening
  /\ LET u == [ui EXCEPT !.opening = FALSE] IN
     \/ Running(ui.transport) /\ ui' = u /\ UNCHANGED <<obj, sockets, keys, refusals>>
     \/ /\ IF Running(ui.transport) THEN refusals < MaxRefusals /\ refusals' = refusals + 1
           ELSE UNCHANGED refusals
        /\ CloseInternal(ui.transport) /\ ui' = ScheduleReconnect(u, FALSE)
  /\ UNCHANGED <<session, posts>>

(* onStartRequested() and onPairRequested() on the setup screen.           *)
Setup == Responsive /\ ~ui.playing /\ ui.transport = None

StartPlaying ==
  /\ Setup
  /\ \E o \in Objects : Fresh(o) /\ Open(o, [ui EXCEPT !.transport = o, !.playing = TRUE])
  /\ UNCHANGED posts

StartPairing ==
  /\ Setup
  /\ \E o \in Objects : /\ Fresh(o) /\ Start(o, FALSE, {"control"})
                        /\ ui' = [ui EXCEPT !.transport = o]
  /\ UNCHANGED <<posts, refusals>>

(* onPairCancelled(), onBackPressed() and onDestroy(): stopCurrent().  A   *)
(* destroyed activity is one in which the user does nothing any more.      *)
Stop ==
  /\ Responsive /\ ui.transport # None /\ CloseInternal(ui.transport)
  /\ ui' = [CancelReconnect(ui) EXCEPT !.transport = None, !.playing = FALSE]
  /\ UNCHANGED <<session, posts, refusals>>

OnResume ==
  /\ Responsive /\ ui.playing /\ ~Running(ui.transport)
  /\ Open(ui.transport, ui)
  /\ UNCHANGED posts

(* Mutant of ReconnectRunnable: the runnable keeps reconnectScheduled.     *)
ReconnectRunnableOnce ==
  /\ Responsive /\ ui.delayed
  /\ LET u == [ui EXCEPT !.delayed = FALSE] IN
     \/ Running(ui.transport) /\ ui' = u /\ UNCHANGED <<obj, session, sockets, keys, refusals>>
     \/ ~Running(ui.transport) /\ Open(ui.transport, u)
  /\ UNCHANGED posts

(* reconnectRunnable; stopCurrent() takes it away with the transport.      *)
ReconnectRunnable ==
  /\ Responsive /\ ui.delayed
  /\ LET u == [ui EXCEPT !.scheduled = FALSE, !.delayed = FALSE] IN
     \/ Running(ui.transport) /\ ui' = u /\ UNCHANGED <<obj, session, sockets, keys, refusals>>
     \/ ~Running(ui.transport) /\ Open(ui.transport, u)
  /\ UNCHANGED posts

(* The runnable of onConnectionChanged(): it asks the present transport.   *)
ConnectionChanged(connected) ==
  IF ~ui.playing \/ ui.transport = None THEN ui
  ELSE IF connected /\ Running(ui.transport) THEN CancelReconnect(ui)
  ELSE ScheduleReconnect(ui, Running(ui.transport))

(* Mutant of PairingEnded: the listener does not know its owner.           *)
PairingEndedForAny(owner) ==
  IF ~ui.playing THEN [ui EXCEPT !.transport = None] ELSE ui

(* update() of pairingListenerFor(owner).                                  *)
PairingEnded(owner) ==
  IF ui.transport = owner /\ ~ui.playing THEN [ui EXCEPT !.transport = None] ELSE ui

HandlePost ==
  /\ Responsive /\ posts # <<>> /\ posts' = Tail(posts)
  /\ ui' = IF Head(posts).kind = "pairing" THEN PairingEnded(Head(posts).from)
           ELSE ConnectionChanged(Head(posts).connected)
  /\ UNCHANGED <<obj, session, sockets, keys, refusals>>

User == StartPlaying \/ StartPairing \/ OnResume \/ Stop

Next ==
  \/ User \/ OpenReturns \/ ReconnectRunnable \/ HandlePost
  \/ \E s \in Sessions :
       \/ OpenBinding(s) \/ Establish(s) \/ BecomesReady(s)
       \/ \E r \in Roles : Fail(s, r) \/ Report(s, r)

Spec == Init /\ [][Next]_vars

(* The UI thread works off its queue and its timers, open() waits at most  *)
(* WRITER_READY_TIMEOUT_MILLIS, and a thread that ended a session gets to  *)
(* its callback.  Each step is enabled until it is taken, so that this is  *)
(* the weak fairness of HandlePost, ReconnectRunnable, OpenReturns, Report.*)
Fairness ==
  /\ []<>(posts = <<>>) /\ []<>(~ui.delayed \/ Exhausted) /\ []<>Responsive
  /\ []<>(\A s \in Sessions, r \in Roles : session[s].at[r] # "post")

FairSpec == Spec /\ Fairness

------------------------------------------------------------------------------
TypeOK ==
  /\ ui \in [transport : {None} \cup Objects, playing : BOOLEAN,
             scheduled : BOOLEAN, delayed : BOOLEAN, opening : BOOLEAN]
  /\ obj \in [Objects -> [running : BOOLEAN, pairing : BOOLEAN, generation : Nat,
                          binding : {None} \cup Sessions, channel : {None} \cup Sessions]]
  /\ session \in [Sessions -> [of : {None} \cup Objects, generation : Nat,
       at : [Roles -> Breakable \cup {"off", "post", "done"}]]]
  /\ sockets \subseteq Sessions /\ keys \subseteq Sessions
  /\ posts \in Seq([kind : {"connection", "pairing"}, connected : BOOLEAN,
                    from : {None} \cup Objects])
  /\ refusals \in Nat

(* No socket and no channel is forgotten, whenever a session is closed or  *)
(* replaced: an open one is installed in an active transport, and that     *)
(* transport is the one the activity will close.                           *)
NothingForgotten ==
  \A s \in Sessions :
    LET t == obj[session[s].of]
        held == Active(s) /\ ui.transport = session[s].of
    IN /\ s \in sockets => held /\ t.binding = s
       /\ s \in keys => held /\ t.channel = s

(* A late failure of an old generation never closes the session that a     *)
(* newer one opened (closeInternal, requireMatch): a session ends by a     *)
(* step of the UI thread or of one of its own threads.                     *)
EndsByItsOwn ==
  [][\A o \in Objects :
       obj[o].running /\ obj'[o].generation # obj[o].generation =>
         \/ ui' # ui
         \/ \E s \in Sessions : /\ session[s].of = o /\ session'[s] # session[s]
                                /\ session[s].generation = obj[o].generation]_vars

(* While the user plays, a session that was lost is opened again: no order *)
(* of callbacks, timers and resumes loses the reconnect.                   *)
Reconnects ==
  []<>(Running(ui.transport) \/ ~ui.playing \/ Exhausted)
=============================================================================
