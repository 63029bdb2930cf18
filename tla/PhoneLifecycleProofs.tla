------------------------ MODULE PhoneLifecycleProofs ------------------------
(***************************************************************************)
(* Theorems about the phone's life cycle, for every number of sessions,    *)
(* transports and queued callbacks: whatever order the UI thread and the   *)
(* threads of old and new generations run in, no socket and no channel is  *)
(* forgotten and no session is ended by a thread of another one.           *)
(***************************************************************************)
EXTENDS PhoneLifecycle, TLAPS

Busy(o) == obj[o].running \/ obj[o].pairing

(* Sessions are used in order; a used one has an object, a generation of   *)
(* its own among that object's, and is not newer than the object.          *)
SessionInv ==
  /\ \E k \in 0 .. MaxSessions : \A s \in Sessions : Unused(s) <=> s > k
  /\ \A s \in Sessions : Unused(s) => \A r \in Roles : session[s].at[r] = "off"
  /\ \A s \in Sessions : ~Unused(s) =>
       session[s].generation \in 1 .. obj[session[s].of].generation
  /\ \A s, q \in Sessions :
       ~Unused(s) /\ session[s].of = session[q].of /\ session[s].generation = session[q].generation
       => s = q

(* What a transport has installed comes from the session it is in, whose   *)
(* control thread is past the installation.                                *)
ObjectInv ==
  \A o \in Objects :
    /\ obj[o].binding # None =>
         /\ session[obj[o].binding].of = o /\ Busy(o) /\ ~At(obj[o].binding, "start")
         /\ session[obj[o].binding].generation = obj[o].generation
    /\ obj[o].channel # None =>
         /\ session[obj[o].channel].of = o /\ Busy(o)
         /\ ~At(obj[o].channel, "start") /\ ~At(obj[o].channel, "handshake")
         /\ session[obj[o].channel].generation = obj[o].generation

(* What is open is installed.                                              *)
ResourceInv ==
  /\ \A s \in sockets : ~Unused(s) /\ obj[session[s].of].binding = s
  /\ \A s \in keys : ~Unused(s) /\ obj[session[s].of].channel = s

(* The activity keeps the transport that is busy, has one while it plays   *)
(* and waits for a reconnect only while it plays.                          *)
UiInv ==
  /\ \A o \in Objects : Busy(o) => ui.transport = o
  /\ ui.playing \/ ui.opening => ui.transport \in Objects
  /\ ui.delayed \/ ui.opening => ui.playing

(* A callback that ends a pairing finds its transport idle: a transport    *)
(* that pairs has one session only.                                        *)
PostInv ==
  /\ \A i \in DOMAIN posts : posts[i].from # None =>
       /\ obj[posts[i].from].generation > 0
       /\ ui.transport = posts[i].from /\ ~ui.playing => ~Busy(posts[i].from)
  /\ \A s \in Sessions : ~Unused(s) /\ (\E r \in Roles : session[s].at[r] = "post") =>
       (ui.transport = session[s].of /\ ~ui.playing => ~Busy(session[s].of))

IInv == TypeOK /\ SessionInv /\ ObjectInv /\ ResourceInv /\ UiInv /\ PostInv

------------------------------------------------------------------------------
(* The sets that TypeOK gives to the activity, a transport, a session, a   *)
(* callback.                                                               *)
Activity == [transport : {None} \cup Objects, playing : BOOLEAN,
             scheduled : BOOLEAN, delayed : BOOLEAN, opening : BOOLEAN]
Transport == [running : BOOLEAN, pairing : BOOLEAN, generation : Nat,
              binding : {None} \cup Sessions, channel : {None} \cup Sessions]
Threads == [of : {None} \cup Objects, generation : Nat,
            at : [Roles -> Breakable \cup {"off", "post", "done"}]]

Message == [kind : {"connection", "pairing"}, connected : BOOLEAN, from : {None} \cup Objects]

(* None is neither a transport nor a session: both are counted from 1.     *)
LEMMA NoneIsNobody == None \notin Objects /\ None \notin Sessions
BY LifecycleAssumption DEF None, Objects, Sessions

(* Types, in the names of this module.                                     *)
LEMMA Types ==
    ASSUME IInv
    PROVE  /\ ui \in Activity /\ obj \in [Objects -> Transport]
           /\ session \in [Sessions -> Threads]
           /\ \A s \in Sessions : ~Unused(s) => session[s].of \in Objects
           /\ "control" \in Roles
BY DEF IInv, TypeOK, Activity, Transport, Threads, Unused, Roles

(* What closeInternal() leaves in the fields of a transport, and what      *)
(* Start() makes of that.                                                  *)
LEMMA EndedIs ==
    ASSUME NEW t \in Transport, NEW running
    PROVE  /\ Ended(t) = [running |-> FALSE, pairing |-> FALSE, generation |-> t.generation + 1,
                          binding |-> None, channel |-> None]
           /\ Ended(t) \in Transport
           /\ [Ended(t) EXCEPT !.generation = @ + 1, !.running = running, !.pairing = ~running]
              = [running |-> running, pairing |-> ~running, generation |-> t.generation + 2,
                 binding |-> None, channel |-> None]
<1>1. Ended(t) = [running |-> FALSE, pairing |-> FALSE, generation |-> t.generation + 1,
                  binding |-> None, channel |-> None]
  <2>1. PICK v, w, g, b, c :
          v = FALSE /\ w = FALSE /\ g = t.generation + 1 /\ b = None /\ c = None
    BY Zenon
  <2>2. Ended(t) = [t EXCEPT !.running = v, !.pairing = w, !.generation = g,
                             !.binding = b, !.channel = c]
    BY <2>1, Zenon DEF Ended
  <2>3. [t EXCEPT !.running = v]
        = [running |-> v, pairing |-> t.pairing, generation |-> t.generation,
           binding |-> t.binding, channel |-> t.channel]
    BY DEF Transport
  <2>4. [[running |-> v, pairing |-> t.pairing, generation |-> t.generation,
          binding |-> t.binding, channel |-> t.channel] EXCEPT !.pairing = w]
        = [running |-> v, pairing |-> w, generation |-> t.generation,
           binding |-> t.binding, channel |-> t.channel]
    OBVIOUS
  <2>5. [[running |-> v, pairing |-> w, generation |-> t.generation,
          binding |-> t.binding, channel |-> t.channel] EXCEPT !.generation = g]
        = [running |-> v, pairing |-> w, generation |-> g,
           binding |-> t.binding, channel |-> t.channel]
    OBVIOUS
  <2>6. [[running |-> v, pairing |-> w, generation |-> g,
          binding |-> t.binding, channel |-> t.channel] EXCEPT !.binding = b]
        = [running |-> v, pairing |-> w, generation |-> g,
           binding |-> b, channel |-> t.channel]
    OBVIOUS
  <2>7. [[running |-> v, pairing |-> w, generation |-> g,
          binding |-> b, channel |-> t.channel] EXCEPT !.channel = c]
        = [running |-> v, pairing |-> w, generation |-> g,
           binding |-> b, channel |-> c]
    OBVIOUS
  <2>8. Ended(t) = [running |-> v, pairing |-> w, generation |-> g, binding |-> b, channel |-> c]
    BY <2>2, <2>3, <2>4, <2>5, <2>6, <2>7, Zenon
  <2> QED
    BY <2>1, <2>8, Zenon
<1>2. t.generation + 1 \in Nat /\ (t.generation + 1) + 1 = t.generation + 2
  BY DEF Transport
<1>4. Ended(t).generation + 1 = t.generation + 2
  BY <1>1, <1>2
<1>5. [Ended(t) EXCEPT !.generation = @ + 1, !.running = running, !.pairing = ~running]
      = [running |-> running, pairing |-> ~running, generation |-> t.generation + 2,
         binding |-> None, channel |-> None]
  <2>1. PICK v, w, y, h, b, c :
          /\ v = FALSE /\ w = FALSE /\ y = ~running /\ h = t.generation + 2 /\ b = None /\ c = None
    BY Zenon
  <2>2. PICK g : g = t.generation + 1
    OBVIOUS
  <2>3. Ended(t) = [running |-> v, pairing |-> w, generation |-> g, binding |-> b, channel |-> c]
    BY <1>1, <2>1, <2>2, Zenon
  <2>4. [Ended(t) EXCEPT !.generation = h, !.running = running, !.pairing = y]
        = [running |-> running, pairing |-> y, generation |-> h, binding |-> b, channel |-> c]
    <3>1. [[running |-> v, pairing |-> w, generation |-> g, binding |-> b, channel |-> c]
             EXCEPT !.generation = h]
          = [running |-> v, pairing |-> w, generation |-> h, binding |-> b, channel |-> c]
      OBVIOUS
    <3>2. [[running |-> v, pairing |-> w, generation |-> h, binding |-> b, channel |-> c]
             EXCEPT !.running = running]
          = [running |-> running, pairing |-> w, generation |-> h, binding |-> b, channel |-> c]
      OBVIOUS
    <3>3. [[running |-> running, pairing |-> w, generation |-> h, binding |-> b, channel |-> c]
             EXCEPT !.pairing = y]
          = [running |-> running, pairing |-> y, generation |-> h, binding |-> b, channel |-> c]
      OBVIOUS
    <3> QED
      BY <2>3, <3>1, <3>2, <3>3, Zenon
  <2> QED
    BY <2>1, <2>4, <1>4, Zenon
<1> QED
  BY <1>1, <1>2, <1>5 DEF Transport

(* What a step of the threads does to the sessions while none is started:  *)
(* their place and generation stay, and none goes back before a point it   *)
(* has passed.                                                             *)
Advance ==
  /\ session' \in [Sessions -> Threads]
  /\ \A s \in Sessions :
       /\ session'[s].of = session[s].of /\ session'[s].generation = session[s].generation
       /\ session'[s].at["control"] \in {"start", "handshake"} =>
            session'[s].at["control"] = session[s].at["control"]
       /\ session[s].of = None => session'[s] = session[s]

(* Closing a transport, at any time and by whomever, keeps what is said of *)
(* sessions, transports and resources: closeInternal() disposes of exactly *)
(* what the transport had installed.                                       *)
LEMMA Closes ==
    ASSUME IInv, NEW o \in Objects, CloseInternal(o), Advance
    PROVE  /\ obj' \in [Objects -> Transport]
           /\ sockets' \subseteq Sessions /\ keys' \subseteq Sessions
           /\ SessionInv' /\ ObjectInv' /\ ResourceInv'
           /\ ~Busy(o)'
           /\ \A q \in Objects : q # o => obj'[q] = obj[q]
           /\ obj'[o].generation > obj[o].generation
<1> USE Types, NoneIsNobody
<1>0. obj[o] \in Transport
  OBVIOUS
<1>1. obj'[o] = [running |-> FALSE, pairing |-> FALSE, generation |-> obj[o].generation + 1,
                 binding |-> None, channel |-> None]
  BY <1>0, EndedIs DEF CloseInternal
<1>2. \A q \in Objects : q # o => obj'[q] = obj[q]
  BY DEF CloseInternal
<1>3. obj' \in [Objects -> Transport]
  BY <1>0, EndedIs DEF CloseInternal
<1>4. sockets' = sockets \ {obj[o].binding} /\ keys' = keys \ {obj[o].channel}
  BY DEF CloseInternal, Disposes
<1>5. ~Busy(o)' /\ obj'[o].generation > obj[o].generation
  BY <1>0, <1>1 DEF Busy, Transport
<1>6. \A q \in Objects : obj[q].generation \in Nat /\ obj'[q].generation \in Nat
                         /\ obj'[q].generation >= obj[q].generation
  BY <1>2, <1>3, <1>5 DEF Transport
<1>7. SessionInv'
  <2>1. \A s \in Sessions : Unused(s)' <=> Unused(s)
    BY DEF Advance, Unused
  <2>2. \E k \in 0 .. MaxSessions : \A s \in Sessions : Unused(s)' <=> s > k
    BY <2>1 DEF IInv, SessionInv
  <2>3. \A s \in Sessions : Unused(s)' => \A r \in Roles : session'[s].at[r] = "off"
    BY <2>1 DEF IInv, SessionInv, Advance, Unused
  <2>4. \A s \in Sessions : ~Unused(s)' =>
          session'[s].generation \in 1 .. obj'[session'[s].of].generation
    BY <2>1, <1>6 DEF IInv, SessionInv, Advance
  <2>5. \A s, q \in Sessions :
          ~Unused(s)' /\ session'[s].of = session'[q].of
            /\ session'[s].generation = session'[q].generation => s = q
    BY <2>1 DEF IInv, SessionInv, Advance
  <2> QED
    BY <2>2, <2>3, <2>4, <2>5 DEF SessionInv
<1>8. ObjectInv'
  <2> SUFFICES ASSUME NEW q \in Objects
               PROVE  /\ obj'[q].binding # None =>
                           /\ session'[obj'[q].binding].of = q /\ Busy(q)'
                           /\ session'[obj'[q].binding].at["control"] # "start"
                           /\ session'[obj'[q].binding].generation = obj'[q].generation
                      /\ obj'[q].channel # None =>
                           /\ session'[obj'[q].channel].of = q /\ Busy(q)'
                           /\ session'[obj'[q].channel].at["control"] # "start"
                           /\ session'[obj'[q].channel].at["control"] # "handshake"
                           /\ session'[obj'[q].channel].generation = obj'[q].generation
    BY DEF ObjectInv, At
  <2>1. CASE q = o
    BY <2>1, <1>1
  <2>2. CASE q # o
    <3>1. obj'[q] = obj[q] /\ (Busy(q)' <=> Busy(q))
      BY <2>2, <1>2 DEF Busy
    <3>2. obj[q].binding \in {None} \cup Sessions /\ obj[q].channel \in {None} \cup Sessions
      BY DEF Transport
    <3> QED
      BY <3>1, <3>2 DEF IInv, ObjectInv, At, Advance
  <2> QED
    BY <2>1, <2>2
<1>9. ResourceInv'
  <2>1. ASSUME NEW s \in sockets'
        PROVE  ~Unused(s)' /\ obj'[session'[s].of].binding = s
    <3>1. s \in sockets /\ s # obj[o].binding /\ s \in Sessions
      BY <1>4 DEF IInv, TypeOK
    <3>2. ~Unused(s) /\ obj[session[s].of].binding = s
      BY <3>1 DEF IInv, ResourceInv
    <3> QED
      BY <3>1, <3>2, <1>2 DEF Advance, Unused
  <2>2. ASSUME NEW s \in keys'
        PROVE  ~Unused(s)' /\ obj'[session'[s].of].channel = s
    <3>1. s \in keys /\ s # obj[o].channel /\ s \in Sessions
      BY <1>4 DEF IInv, TypeOK
    <3>2. ~Unused(s) /\ obj[session[s].of].channel = s
      BY <3>1 DEF IInv, ResourceInv
    <3> QED
      BY <3>1, <3>2, <1>2 DEF Advance, Unused
  <2> QED
    BY <2>1, <2>2 DEF ResourceInv
<1>10. sockets' \subseteq Sessions /\ keys' \subseteq Sessions
  BY <1>4 DEF IInv, TypeOK
<1> QED
  BY <1>2, <1>3, <1>5, <1>7, <1>8, <1>9, <1>10

(* The session that Start() uses is the first one that was never used.     *)
LEMMA FirstUnused ==
    ASSUME IInv, ~Exhausted
    PROVE  \E k \in 0 .. MaxSessions :
             /\ NextUnused = k + 1 /\ NextUnused \in Sessions
             /\ \A s \in Sessions : Unused(s) <=> s > k
<1>1. PICK k \in 0 .. MaxSessions : \A s \in Sessions : Unused(s) <=> s > k
  BY DEF IInv, SessionInv
<1>2. MaxSessions \in Nat
  BY LifecycleAssumption
<1>3. k + 1 \in Sessions
  BY <1>1, <1>2 DEF Exhausted, Sessions
<1>4. Unused(k + 1) /\ \A q \in 1 .. ((k + 1) - 1) : ~Unused(q)
  BY <1>1, <1>2, <1>3 DEF Sessions
<1>5. /\ NextUnused \in Sessions /\ Unused(NextUnused)
      /\ \A q \in 1 .. (NextUnused - 1) : ~Unused(q)
  BY <1>3, <1>4 DEF NextUnused
<1>6. NextUnused > k
  BY <1>1, <1>5
<1>7. ~(k + 1 < NextUnused)
  BY <1>4, <1>5, <1>2, <1>3 DEF Sessions
<1>8. NextUnused = k + 1
  BY <1>5, <1>6, <1>7, <1>2 DEF Sessions
<1> QED
  BY <1>1, <1>5, <1>8

(* Starting a session on a transport, whatever the transport was in: the   *)
(* old one is closed first, and the new generation is not that of any      *)
(* thread that still runs.                                                 *)
LEMMA Starts ==
    ASSUME IInv, NEW o \in Objects, NEW running \in BOOLEAN, NEW started \in SUBSET Roles,
           Start(o, running, started)
    PROVE  /\ obj' \in [Objects -> Transport] /\ session' \in [Sessions -> Threads]
           /\ sockets' \subseteq Sessions /\ keys' \subseteq Sessions
           /\ SessionInv' /\ ObjectInv' /\ ResourceInv'
           /\ \A q \in Objects : q # o => obj'[q] = obj[q]
           /\ obj'[o].generation > obj[o].generation
           /\ \A s \in Sessions : \/ session'[s] = session[s]
                                  \/ /\ session'[s].of = o
                                     /\ \A r \in Roles : session'[s].at[r] # "post"
<1> USE Types, NoneIsNobody
<1>0k. PICK k \in 0 .. MaxSessions :
         /\ NextUnused = k + 1 /\ NextUnused \in Sessions
         /\ \A s \in Sessions : Unused(s) <=> s > k
  BY FirstUnused DEF Start
<1> DEFINE n == k + 1
<1>0. NextUnused = n /\ n = k + 1 /\ n \in Sessions /\ \A s \in Sessions : Unused(s) <=> s > k
  BY <1>0k
<1>1. obj[o] \in Transport
  OBVIOUS
<1> DEFINE new == [running |-> running, pairing |-> ~running, generation |-> obj[o].generation + 2,
                   binding |-> None, channel |-> None]
           at == [r \in Roles |-> IF r \in started THEN
                                    IF r = "control" THEN "start" ELSE "live"
                                  ELSE "off"]
           row == [of |-> o, generation |-> obj[o].generation + 2, at |-> at]
<1>2. obj' = [obj EXCEPT ![o] = new]
  <2>1. [Ended(obj[o]) EXCEPT !.generation = @ + 1, !.running = running, !.pairing = ~running]
        = new
    BY <1>1, EndedIs, Zenon
  <2> HIDE DEF new
  <2> QED
    BY <2>1, Zenon DEF Start
<1>3. obj[o].generation + 2 \in Nat
  BY <1>1 DEF Transport
<1>4. new \in Transport
  BY <1>3 DEF Transport
<1>5. row \in Threads
  <2>1. at \in [Roles -> Breakable \cup {"off", "post", "done"}]
    BY DEF Breakable
  <2> QED
    BY <2>1, <1>3 DEF Threads
<1>6. session' = [session EXCEPT ![n] = row]
  BY <1>0 DEF Start
<1>7. obj' \in [Objects -> Transport] /\ session' \in [Sessions -> Threads]
  BY <1>2, <1>4, <1>5, <1>6
<1>8. obj'[o] = new /\ \A q \in Objects : q # o => obj'[q] = obj[q]
  BY <1>2
<1>9. session'[n] = row /\ \A s \in Sessions : s # n => session'[s] = session[s]
  BY <1>0, <1>6
<1>10. row.of = o /\ row.generation = obj[o].generation + 2 /\ row.at = at
       /\ \A r \in Roles : at[r] # "post" /\ at[r] \in {"start", "live", "off"}
  OBVIOUS
<1>11. sockets' = sockets \ {obj[o].binding} /\ keys' = keys \ {obj[o].channel}
  BY DEF Start, Disposes
<1>12. \A q \in Objects : obj[q].generation \in Nat /\ obj'[q].generation \in Nat
                         /\ obj'[q].generation >= obj[q].generation
  BY <1>1, <1>7, <1>8, <1>3 DEF Transport
<1>13. obj'[o].generation = obj[o].generation + 2 /\ obj'[o].generation > obj[o].generation
  BY <1>1, <1>8 DEF Transport
<1>14. Unused(n) /\ ~Unused(n)' /\ \A s \in Sessions : s # n => (Unused(s)' <=> Unused(s))
  <2>1. Unused(n)
    BY <1>0, LifecycleAssumption DEF Sessions
  <2>2. ~Unused(n)'
    BY <1>9, <1>10 DEF Unused
  <2>3. \A s \in Sessions : s # n => (Unused(s)' <=> Unused(s))
    BY <1>9 DEF Unused
  <2> QED
    BY <2>1, <2>2, <2>3
<1> HIDE DEF at, row, new, n
<1>15. SessionInv'
  <2>1. \E j \in 0 .. MaxSessions : \A s \in Sessions : Unused(s)' <=> s > j
    <3>1. k + 1 \in 0 .. MaxSessions
      BY <1>0, LifecycleAssumption DEF Sessions
    <3>2. ASSUME NEW s \in Sessions PROVE Unused(s)' <=> s > k + 1
      <4>1. CASE s = n
        BY <4>1, <1>0, <1>14, LifecycleAssumption DEF Sessions
      <4>2. CASE s # n
        BY <4>2, <1>0, <1>14, LifecycleAssumption DEF Sessions
      <4> QED
        BY <4>1, <4>2
    <3> QED
      BY <3>1, <3>2
  <2>2. \A s \in Sessions : Unused(s)' => \A r \in Roles : session'[s].at[r] = "off"
    BY <1>9, <1>14 DEF IInv, SessionInv, Unused
  <2>3. \A s \in Sessions : ~Unused(s)' =>
          session'[s].generation \in 1 .. obj'[session'[s].of].generation
    <3>1. ASSUME NEW s \in Sessions, s # n, ~Unused(s)
          PROVE  session'[s].generation \in 1 .. obj'[session'[s].of].generation
      BY <3>1, <1>9, <1>12 DEF IInv, SessionInv
    <3>2. session'[n].generation \in 1 .. obj'[session'[n].of].generation
      BY <1>9, <1>10, <1>13, <1>1 DEF Transport
    <3> QED
      BY <3>1, <3>2, <1>14
  <2>4. \A s, q \in Sessions :
          ~Unused(s)' /\ session'[s].of = session'[q].of
            /\ session'[s].generation = session'[q].generation => s = q
    <3>1. ASSUME NEW s \in Sessions, s # n, session'[s].of = o
          PROVE  session'[s].generation # obj[o].generation + 2
      <4>1. session[s].of = o /\ ~Unused(s) /\ session'[s] = session[s]
        BY <3>1, <1>9 DEF Unused
      <4>2. session[s].generation \in 1 .. obj[o].generation
        BY <4>1 DEF IInv, SessionInv
      <4> QED
        BY <4>1, <4>2, <1>1 DEF Transport
    <3>2. ASSUME NEW s \in Sessions, NEW q \in Sessions, s # n, q # n, ~Unused(s)',
                 session'[s].of = session'[q].of, session'[s].generation = session'[q].generation
          PROVE  s = q
      BY <3>2, <1>9, <1>14 DEF IInv, SessionInv
    <3> QED
      BY <3>1, <3>2, <1>9, <1>10
  <2> QED
    BY <2>1, <2>2, <2>3, <2>4 DEF SessionInv
<1>16. ObjectInv'
  <2> SUFFICES ASSUME NEW q \in Objects
               PROVE  /\ obj'[q].binding # None =>
                           /\ session'[obj'[q].binding].of = q /\ Busy(q)'
                           /\ session'[obj'[q].binding].at["control"] # "start"
                           /\ session'[obj'[q].binding].generation = obj'[q].generation
                      /\ obj'[q].channel # None =>
                           /\ session'[obj'[q].channel].of = q /\ Busy(q)'
                           /\ session'[obj'[q].channel].at["control"] # "start"
                           /\ session'[obj'[q].channel].at["control"] # "handshake"
                           /\ session'[obj'[q].channel].generation = obj'[q].generation
    BY DEF ObjectInv, At
  <2>1. CASE q = o
    BY <2>1, <1>8 DEF new
  <2>2. CASE q # o
    <3>1. obj'[q] = obj[q] /\ (Busy(q)' <=> Busy(q))
      BY <2>2, <1>8 DEF Busy
    <3>2. obj[q].binding \in {None} \cup Sessions /\ obj[q].channel \in {None} \cup Sessions
      BY DEF Transport
    <3>3. (obj[q].binding # None => obj[q].binding # n) /\ (obj[q].channel # None => obj[q].channel # n)
      BY <1>14 DEF IInv, ObjectInv, Unused
    <3> QED
      BY <3>1, <3>2, <3>3, <1>9 DEF IInv, ObjectInv, At
  <2> QED
    BY <2>1, <2>2
<1>17. ResourceInv'
  <2>1. ASSUME NEW s \in sockets'
        PROVE  ~Unused(s)' /\ obj'[session'[s].of].binding = s
    <3>1. s \in sockets /\ s # obj[o].binding /\ s \in Sessions
      BY <1>11 DEF IInv, TypeOK
    <3>2. ~Unused(s) /\ obj[session[s].of].binding = s
      BY <3>1 DEF IInv, ResourceInv
    <3> QED
      BY <3>1, <3>2, <1>8, <1>9, <1>14
  <2>2. ASSUME NEW s \in keys'
        PROVE  ~Unused(s)' /\ obj'[session'[s].of].channel = s
    <3>1. s \in keys /\ s # obj[o].channel /\ s \in Sessions
      BY <1>11 DEF IInv, TypeOK
    <3>2. ~Unused(s) /\ obj[session[s].of].channel = s
      BY <3>1 DEF IInv, ResourceInv
    <3> QED
      BY <3>1, <3>2, <1>8, <1>9, <1>14
  <2> QED
    BY <2>1, <2>2 DEF ResourceInv
<1>18. sockets' \subseteq Sessions /\ keys' \subseteq Sessions
  BY <1>11 DEF IInv, TypeOK
<1>19. \A s \in Sessions : \/ session'[s] = session[s]
                           \/ /\ session'[s].of = o
                              /\ \A r \in Roles : session'[s].at[r] # "post"
  BY <1>9, <1>10
<1> QED
  BY <1>7, <1>8, <1>13, <1>15, <1>16, <1>17, <1>18, <1>19

------------------------------------------------------------------------------
(* The assignments of the activity stay in its type.                       *)
LEMMA Edits ==
    ASSUME NEW u \in Activity, NEW a \in {None} \cup Objects,
           NEW x \in BOOLEAN, NEW y \in BOOLEAN
    PROVE  /\ [u EXCEPT !.scheduled = x, !.delayed = y] \in Activity
           /\ [u EXCEPT !.transport = a, !.playing = x] \in Activity
           /\ [u EXCEPT !.transport = a] \in Activity
           /\ [u EXCEPT !.delayed = x] \in Activity
           /\ [u EXCEPT !.opening = x] \in Activity
<1>1. ASSUME NEW e \in Activity PROVE [e EXCEPT !.scheduled = x] \in Activity
  BY DEF Activity
<1>2. ASSUME NEW e \in Activity PROVE [e EXCEPT !.delayed = y] \in Activity
  BY DEF Activity
<1>3. [u EXCEPT !.scheduled = x, !.delayed = y] \in Activity
  BY <1>1, <1>2, Zenon
<1>4. ASSUME NEW e \in Activity PROVE [e EXCEPT !.transport = a] \in Activity
  BY DEF Activity
<1>5. ASSUME NEW e \in Activity PROVE [e EXCEPT !.playing = x] \in Activity
  BY DEF Activity
<1>6. [u EXCEPT !.transport = a, !.playing = x] \in Activity
  BY <1>4, <1>5, Zenon
<1>7. [u EXCEPT !.opening = x] \in Activity
  BY DEF Activity
<1>8. [u EXCEPT !.delayed = x] \in Activity
  BY DEF Activity
<1> QED
  BY <1>3, <1>4, <1>6, <1>7, <1>8

(* scheduleReconnect() touches its two flags only, and delays a reconnect  *)
(* only while the user plays.                                              *)
LEMMA Schedules ==
    ASSUME NEW u \in Activity, NEW running \in BOOLEAN, NEW v, v = ScheduleReconnect(u, running)
    PROVE  /\ v \in Activity /\ v.transport = u.transport
           /\ v.playing = u.playing /\ v.opening = u.opening
           /\ v.delayed => u.delayed \/ u.playing
<1>1. CASE v = u
  BY <1>1
<1>2. CASE v # u
  <2>1. u.playing /\ v = [u EXCEPT !.scheduled = TRUE, !.delayed = TRUE]
    BY <1>2 DEF ScheduleReconnect
  <2>2. v \in Activity
    BY <2>1, Edits, Zenon DEF Activity
  <2> QED
    BY <2>1, <2>2 DEF Activity
<1> QED
  BY <1>1, <1>2

(* cancelReconnect() clears its two flags only.                            *)
LEMMA Cancels ==
    ASSUME NEW u \in Activity, NEW v, v = CancelReconnect(u)
    PROVE  /\ v \in Activity /\ v.transport = u.transport
           /\ v.playing = u.playing /\ v.opening = u.opening /\ ~v.delayed
<1>1. v = [u EXCEPT !.scheduled = FALSE, !.delayed = FALSE]
  BY DEF CancelReconnect
<1>2. v \in Activity
  BY <1>1, Edits, Zenon
<1> QED
  BY <1>1, <1>2 DEF Activity

(* A step that queues no callback keeps what is said of callbacks, unless  *)
(* it makes a transport busy that the activity holds without playing, and  *)
(* then only if that transport is new.                                     *)
LEMMA PostsKeep ==
    ASSUME IInv,
           \A i \in DOMAIN posts' : \E j \in DOMAIN posts : posts'[i] = posts[j],
           obj' \in [Objects -> Transport], session' \in [Sessions -> Threads],
           \A o \in Objects : obj'[o].generation >= obj[o].generation,
           \A o \in Objects : ui'.transport = o /\ ~ui'.playing /\ Busy(o)' =>
             (ui.transport = o /\ ~ui.playing /\ Busy(o)) \/ obj[o].generation = 0,
           \A s \in Sessions : (\E r \in Roles : session'[s].at[r] = "post") =>
             session'[s] = session[s]
    PROVE  PostInv'
<1> USE Types, NoneIsNobody
<1>0. \A o \in Objects : obj[o].generation \in Nat /\ obj'[o].generation \in Nat
  BY DEF Transport
<1>1. ASSUME NEW i \in DOMAIN posts', posts'[i].from # None
      PROVE  /\ obj'[posts'[i].from].generation > 0
             /\ ui'.transport = posts'[i].from /\ ~ui'.playing =>
                  ~(obj'[posts'[i].from].running \/ obj'[posts'[i].from].pairing)
  <2>1. PICK j \in DOMAIN posts : posts'[i] = posts[j]
    OBVIOUS
  <2>2. PICK o \in Objects : posts[j].from = o
    <3>1. posts \in Seq(Message)
      BY DEF IInv, TypeOK, Message
    <3>2. posts[j] \in Message
      BY <3>1
    <3> QED
      BY <1>1, <2>1, <3>2 DEF Message
  <2>3. obj[o].generation > 0 /\ (ui.transport = o /\ ~ui.playing => ~Busy(o))
    BY <2>1, <2>2 DEF IInv, PostInv
  <2>4. obj'[o].generation > 0
    BY <2>3, <1>0
  <2>5. ui'.transport = o /\ ~ui'.playing => ~Busy(o)'
    BY <2>3, <1>0
  <2>6. posts'[i].from = o
    BY <2>1, <2>2
  <2> QED
    BY <2>4, <2>5, <2>6 DEF Busy
<1>2. ASSUME NEW s \in Sessions, ~Unused(s)', \E r \in Roles : session'[s].at[r] = "post"
      PROVE  ui'.transport = session'[s].of /\ ~ui'.playing =>
               ~(obj'[session'[s].of].running \/ obj'[session'[s].of].pairing)
  <2>1. session'[s] = session[s] /\ ~Unused(s)
    BY <1>2 DEF Unused
  <2>2. PICK o \in Objects : session[s].of = o
    BY <2>1
  <2>3. ui.transport = o /\ ~ui.playing => ~Busy(o)
    BY <1>2, <2>1, <2>2 DEF IInv, PostInv
  <2>4. obj[o].generation # 0
    BY <2>1, <2>2, <1>0 DEF IInv, SessionInv
  <2>5. ui'.transport = o /\ ~ui'.playing => ~Busy(o)'
    BY <2>3, <2>4
  <2> QED
    BY <2>1, <2>2, <2>5 DEF Busy
<1> QED
  BY <1>1, <1>2 DEF PostInv, Busy

(* What the parts of an activity step add up to.                           *)
LEMMA Settles ==
    ASSUME IInv, ui' \in Activity, obj' \in [Objects -> Transport],
           session' \in [Sessions -> Threads], sockets' \subseteq Sessions, keys' \subseteq Sessions,
           posts' = posts \/ (posts' = Tail(posts) /\ posts # <<>>), refusals' \in Nat,
           SessionInv', ObjectInv', ResourceInv', UiInv', PostInv'
    PROVE  IInv'
<1>1. posts \in Seq(Message) /\ posts' \in Seq(Message)
  <2>1. posts \in Seq(Message)
    BY DEF IInv, TypeOK, Message
  <2> QED
    BY <2>1
<1>2. TypeOK'
  BY <1>1 DEF TypeOK, Activity, Transport, Threads, Message
<1> QED
  BY <1>2 DEF IInv

(* Neither the sessions nor the queue of callbacks move.                   *)
LEMMA Rests ==
    ASSUME IInv
    PROVE  /\ UNCHANGED session => Advance
           /\ UNCHANGED session => \A s \in Sessions : session'[s] = session[s]
           /\ UNCHANGED posts => \A i \in DOMAIN posts' : \E j \in DOMAIN posts : posts'[i] = posts[j]
BY Types DEF Advance

(* open(): whether it is refused or starts a session, when the user plays  *)
(* and no other transport is busy.                                         *)
LEMMA Opens ==
    ASSUME IInv, NEW o \in Objects, NEW u \in Activity, u.transport = o, u.playing,
           Open(o, u), UNCHANGED posts, \A q \in Objects : q # o => ~Busy(q)
    PROVE  IInv'
<1> USE Types, NoneIsNobody
<1>0. \A q \in Objects : obj[q].generation \in Nat
  BY DEF Transport
<1>1. CASE /\ refusals < MaxRefusals /\ refusals' = refusals + 1
           /\ CloseInternal(o) /\ UNCHANGED session
           /\ ui' = ScheduleReconnect(u, FALSE)
  <2>1. Advance
    BY <1>1, Rests
  <2>2. /\ obj' \in [Objects -> Transport]
        /\ sockets' \subseteq Sessions /\ keys' \subseteq Sessions
        /\ SessionInv' /\ ObjectInv' /\ ResourceInv' /\ ~Busy(o)'
        /\ \A q \in Objects : q # o => obj'[q] = obj[q]
        /\ obj'[o].generation > obj[o].generation
    BY <1>1, <2>1, Closes
  <2>3. ui' \in Activity /\ ui'.transport = o /\ ui'.playing
    BY <1>1, Schedules
  <2>4. UiInv'
    <3>1. \A q \in Objects : ~Busy(q)'
      BY <2>2 DEF Busy
    <3> QED
      BY <2>3, <3>1 DEF UiInv
  <2>5. PostInv'
    <3>1. \A q \in Objects : obj'[q].generation >= obj[q].generation
      BY <2>2, <1>0 DEF Transport
    <3> QED
      BY <1>1, <2>2, <2>3, <3>1, PostsKeep, Rests
  <2>6. refusals' \in Nat /\ session' \in [Sessions -> Threads]
    BY <1>1 DEF IInv, TypeOK
  <2> QED
    BY <2>2, <2>3, <2>4, <2>5, <2>6, Settles
<1>2. CASE /\ Start(o, TRUE, Roles) /\ UNCHANGED refusals
           /\ ui' = [u EXCEPT !.opening = TRUE]
  <2>2. /\ obj' \in [Objects -> Transport] /\ session' \in [Sessions -> Threads]
        /\ sockets' \subseteq Sessions /\ keys' \subseteq Sessions
        /\ SessionInv' /\ ObjectInv' /\ ResourceInv'
        /\ \A q \in Objects : q # o => obj'[q] = obj[q]
        /\ obj'[o].generation > obj[o].generation
        /\ \A s \in Sessions : \/ session'[s] = session[s]
                               \/ /\ session'[s].of = o
                                  /\ \A r \in Roles : session'[s].at[r] # "post"
    <3>1. Start(o, TRUE, Roles) /\ TRUE \in BOOLEAN /\ Roles \in SUBSET Roles
      BY <1>2
    <3> QED
      BY <3>1, Starts
  <2>3. ui' \in Activity
    BY <1>2, Edits, Zenon
  <2>4. ui'.transport = o /\ ui'.playing
    BY <1>2 DEF Activity
  <2>5. UiInv'
    <3>1. \A q \in Objects : q # o => ~Busy(q)'
      BY <2>2 DEF Busy
    <3> QED
      BY <2>4, <3>1 DEF UiInv
  <2>6. PostInv'
    <3>1. \A q \in Objects : obj'[q].generation >= obj[q].generation
      BY <2>2, <1>0 DEF Transport
    <3> QED
      BY <1>2, <2>2, <2>4, <3>1, PostsKeep, Rests
  <2>7. refusals' \in Nat
    BY <1>2 DEF IInv, TypeOK
  <2> QED
    BY <2>2, <2>3, <2>5, <2>6, <2>7, Settles
<1> QED
  BY <1>1, <1>2 DEF Open

------------------------------------------------------------------------------
(* A thread of a used session that goes on moves nothing else.             *)
LEMMA Goes ==
    ASSUME IInv, NEW s \in Sessions, NEW r \in Roles, ~Unused(s),
           NEW pc \in {"handshake", "serve", "live", "post", "done"}, Goto(s, r, pc)
    PROVE  /\ session' \in [Sessions -> Threads]
           /\ \A q \in Sessions : q # s => session'[q] = session[q]
           /\ session'[s].of = session[s].of /\ session'[s].generation = session[s].generation
           /\ session'[s].at[r] = pc
           /\ \A q \in Roles : q # r => session'[s].at[q] = session[s].at[q]
<1> USE Types
<1>1. session' = [session EXCEPT ![s].at[r] = pc]
  BY DEF Goto
<1>2. session[s] \in Threads /\ session[s].at \in [Roles -> Breakable \cup {"off", "post", "done"}]
  BY DEF Threads
<1>3. pc \in Breakable \cup {"off", "post", "done"}
  BY DEF Breakable
<1>4. [session[s].at EXCEPT ![r] = pc] \in [Roles -> Breakable \cup {"off", "post", "done"}]
  BY <1>2, <1>3
<1>5. [session[s] EXCEPT !.at = [session[s].at EXCEPT ![r] = pc]] \in Threads
  BY <1>2, <1>4 DEF Threads
<1>6. session' = [session EXCEPT ![s] = [session[s] EXCEPT !.at = [session[s].at EXCEPT ![r] = pc]]]
  BY <1>1
<1>7. session' \in [Sessions -> Threads]
  BY <1>5, <1>6
<1> QED
  BY <1>2, <1>6, <1>7 DEF Threads

(* A thread that goes on without touching its transport.                   *)
LEMMA Walks ==
    ASSUME IInv, NEW s \in Sessions, NEW r \in Roles, ~Unused(s),
           NEW pc \in {"live", "post", "done"}, Goto(s, r, pc)
    PROVE  /\ Advance
           /\ UNCHANGED <<obj, sockets, keys>> => SessionInv' /\ ObjectInv' /\ ResourceInv'
<1> USE Types, NoneIsNobody
<1>1. Advance
  <2>1. \A q \in Sessions :
          session'[q].at["control"] = session[q].at["control"] \/ session'[q].at["control"] = pc
    BY Goes
  <2> QED
    BY <2>1, Goes DEF Advance, Unused
<1>2. ASSUME UNCHANGED <<obj, sockets, keys>> PROVE SessionInv' /\ ObjectInv' /\ ResourceInv'
  <2>1. \A q \in Sessions : Unused(q)' <=> Unused(q)
    BY <1>1 DEF Advance, Unused
  <2>2. SessionInv'
    <3>1. \E k \in 0 .. MaxSessions : \A q \in Sessions : Unused(q)' <=> q > k
      BY <2>1 DEF IInv, SessionInv
    <3>2. \A q \in Sessions : Unused(q)' => \A x \in Roles : session'[q].at[x] = "off"
      BY <2>1, <1>1 DEF IInv, SessionInv, Advance, Unused
    <3>3. \A q \in Sessions : ~Unused(q)' =>
            session'[q].generation \in 1 .. obj'[session'[q].of].generation
      BY <1>2, <2>1, <1>1 DEF IInv, SessionInv, Advance
    <3>4. \A p, q \in Sessions :
            ~Unused(p)' /\ session'[p].of = session'[q].of
              /\ session'[p].generation = session'[q].generation => p = q
      BY <2>1, <1>1 DEF IInv, SessionInv, Advance
    <3> QED
      BY <3>1, <3>2, <3>3, <3>4 DEF SessionInv
  <2>3. ObjectInv'
    <3> SUFFICES ASSUME NEW q \in Objects
                 PROVE  /\ obj[q].binding # None =>
                             /\ session'[obj[q].binding].of = q /\ Busy(q)
                             /\ session'[obj[q].binding].at["control"] # "start"
                             /\ session'[obj[q].binding].generation = obj[q].generation
                        /\ obj[q].channel # None =>
                             /\ session'[obj[q].channel].of = q /\ Busy(q)
                             /\ session'[obj[q].channel].at["control"] # "start"
                             /\ session'[obj[q].channel].at["control"] # "handshake"
                             /\ session'[obj[q].channel].generation = obj[q].generation
      BY <1>2 DEF ObjectInv, At, Busy
    <3>1. obj[q].binding \in {None} \cup Sessions /\ obj[q].channel \in {None} \cup Sessions
      BY DEF Transport
    <3> QED
      BY <3>1, <1>1 DEF IInv, ObjectInv, At, Advance
  <2>4. ResourceInv'
    <3>1. sockets \subseteq Sessions /\ keys \subseteq Sessions
      BY DEF IInv, TypeOK
    <3> QED
      BY <3>1, <1>1, <1>2 DEF IInv, ResourceInv, Advance, Unused
  <2> QED
    BY <2>2, <2>3, <2>4
<1> QED
  BY <1>1, <1>2

(* A thread that goes on and queues a callback: onConnectionChanged(), or  *)
(* the end of a pairing, for a transport that has a generation and is idle.*)
LEMMA Calls ==
    ASSUME IInv, NEW s \in Sessions, NEW r \in Roles, ~Unused(s),
           NEW pc \in {"live", "done"}, Goto(s, r, pc),
           NEW m \in Message, posts' = Append(posts, m),
           UNCHANGED <<ui, obj, sockets, keys, refusals>>,
           m.from # None => /\ obj[m.from].generation > 0
                            /\ ui.transport = m.from /\ ~ui.playing => ~Busy(m.from)
    PROVE  IInv'
<1> USE Types, NoneIsNobody
<1>1. SessionInv' /\ ObjectInv' /\ ResourceInv'
  BY Walks
<1>2. UiInv'
  BY DEF IInv, UiInv, Busy
<1>3. posts \in Seq(Message)
  BY DEF IInv, TypeOK, Message
<1>4. posts' \in Seq(Message)
  BY <1>3
<1>5. TypeOK'
  BY <1>4, Goes DEF IInv, TypeOK, Threads, Message
<1>6. PostInv'
  <2>1. ASSUME NEW i \in DOMAIN posts', posts'[i].from # None
        PROVE  /\ obj'[posts'[i].from].generation > 0
               /\ ui'.transport = posts'[i].from /\ ~ui'.playing =>
                    ~(obj'[posts'[i].from].running \/ obj'[posts'[i].from].pairing)
    <3>1. CASE i \in DOMAIN posts
      <4>1. posts'[i] = posts[i]
        BY <3>1, <1>3
      <4> QED
        BY <2>1, <3>1, <4>1 DEF IInv, PostInv, Busy
    <3>2. CASE i \notin DOMAIN posts
      <4>1. posts'[i] = m
        BY <3>2, <1>3
      <4> QED
        BY <2>1, <4>1 DEF Busy
    <3> QED
      BY <3>1, <3>2
  <2>2. ASSUME NEW q \in Sessions, ~Unused(q)', \E x \in Roles : session'[q].at[x] = "post"
        PROVE  ui'.transport = session'[q].of /\ ~ui'.playing =>
                 ~(obj'[session'[q].of].running \/ obj'[session'[q].of].pairing)
    <3>1. session'[q].of = session[q].of /\ \E x \in Roles : session[q].at[x] = "post"
      BY <2>2, Goes
    <3> QED
      BY <2>2, <3>1 DEF IInv, PostInv, Busy, Unused
  <2> QED
    BY <2>1, <2>2 DEF PostInv, Busy
<1> QED
  BY <1>1, <1>2, <1>5, <1>6 DEF IInv

(* What a thread of the present generation knows of its transport.         *)
LEMMA Mine ==
    ASSUME IInv, NEW s \in Sessions, Active(s), NEW r \in Roles, session[s].at[r] # "off"
    PROVE  /\ ~Unused(s) /\ session[s].of \in Objects
           /\ obj[session[s].of].generation = session[s].generation
           /\ Busy(session[s].of)
           /\ \A q \in Sessions :
                session[q].of = session[s].of /\ session[q].generation = session[s].generation
                => q = s
BY Types DEF IInv, SessionInv, Active, Busy

(* Whatever a thread installs in its transport, sessions, activity and     *)
(* callbacks stay as they should: neither a generation nor who is busy     *)
(* changes.                                                                *)
LEMMA Installs ==
    ASSUME IInv, NEW s \in Sessions, ~Unused(s), NEW pc \in {"handshake", "serve"},
           Goto(s, "control", pc), UNCHANGED <<ui, posts>>, obj' \in [Objects -> Transport],
           \A q \in Objects : obj'[q].generation = obj[q].generation /\ (Busy(q)' <=> Busy(q))
    PROVE  SessionInv' /\ UiInv' /\ PostInv'
<1> USE Types, NoneIsNobody
<1>1. SessionInv'
  <2>1. \A q \in Sessions : Unused(q)' <=> Unused(q)
    BY Goes DEF Unused
  <2>3. \E k \in 0 .. MaxSessions : \A q \in Sessions : Unused(q)' <=> q > k
    BY <2>1 DEF IInv, SessionInv
  <2>4. \A q \in Sessions : Unused(q)' => \A x \in Roles : session'[q].at[x] = "off"
    BY <2>1, Goes DEF IInv, SessionInv
  <2>5. \A q \in Sessions : ~Unused(q)' =>
          session'[q].generation \in 1 .. obj'[session'[q].of].generation
    BY <2>1, Goes DEF IInv, SessionInv
  <2>6. \A p, q \in Sessions :
          ~Unused(p)' /\ session'[p].of = session'[q].of
            /\ session'[p].generation = session'[q].generation => p = q
    BY <2>1, Goes DEF IInv, SessionInv
  <2> QED
    BY <2>3, <2>4, <2>5, <2>6 DEF SessionInv
<1>2. UiInv'
  BY DEF IInv, UiInv
<1>3. PostInv'
  <2>1. \A q \in Objects : obj'[q].generation >= obj[q].generation /\ (Busy(q)' => Busy(q))
    BY DEF Transport
  <2>2. ASSUME NEW q \in Sessions, NEW r \in Roles, session'[q].at[r] = "post"
        PROVE  session[q].at[r] = "post" /\ session[q].of = session'[q].of
    BY <2>2, Goes
  <2>3. ASSUME NEW i \in DOMAIN posts, posts[i].from # None
        PROVE  /\ obj'[posts[i].from].generation > 0
               /\ ui.transport = posts[i].from /\ ~ui.playing =>
                    ~(obj'[posts[i].from].running \/ obj'[posts[i].from].pairing)
    <3>1. PICK q \in Objects : posts[i].from = q
      <4>1. posts \in Seq(Message)
        BY DEF IInv, TypeOK, Message
      <4>2. posts[i] \in Message
        BY <4>1
      <4> QED
        BY <2>3, <4>2 DEF Message
    <3> QED
      BY <2>3, <3>1 DEF IInv, PostInv, Busy
  <2>4. ASSUME NEW q \in Sessions, ~Unused(q)', \E r \in Roles : session'[q].at[r] = "post"
        PROVE  ui.transport = session'[q].of /\ ~ui.playing =>
                 ~(obj'[session'[q].of].running \/ obj'[session'[q].of].pairing)
    <3>1. ~Unused(q) /\ session[q].of = session'[q].of /\ \E r \in Roles : session[q].at[r] = "post"
      BY <2>2, <2>4 DEF Unused
    <3> QED
      BY <2>1, <3>1 DEF IInv, PostInv, Busy
  <2> QED
    BY <2>3, <2>4 DEF PostInv, Busy
<1> QED
  BY <1>1, <1>2, <1>3

(* installBinding(): the transport had no socket of another session, and   *)
(* no channel yet.                                                         *)
LEMMA Binds ==
    ASSUME IInv, NEW s \in Sessions, OpenBinding(s)
    PROVE  IInv'
<1> USE Types, NoneIsNobody
<1> DEFINE o == session[s].of
<1>1. At(s, "start") /\ Active(s) /\ Goto(s, "control", "handshake")
  BY DEF OpenBinding
<1>2. /\ ~Unused(s) /\ o \in Objects /\ obj[o].generation = session[s].generation /\ Busy(o)
      /\ \A q \in Sessions : session[q].of = o /\ session[q].generation = session[s].generation
                             => q = s
  BY <1>1, Mine DEF At
<1>3. PICK me \in Objects : me = o
  BY <1>2
<1>4. /\ obj' = [obj EXCEPT ![me] = [obj[me] EXCEPT !.binding = s]]
      /\ sockets' = sockets \cup {s} /\ UNCHANGED <<ui, keys, posts, refusals>>
  BY <1>3 DEF OpenBinding
<1>5. /\ session' \in [Sessions -> Threads]
      /\ \A q \in Sessions : q # s => session'[q] = session[q]
      /\ session'[s].of = me /\ session'[s].generation = session[s].generation
      /\ session'[s].at["control"] = "handshake"
      /\ \A r \in Roles : r # "control" => session'[s].at[r] = session[s].at[r]
  BY <1>1, <1>2, <1>3, Goes
<1>6. /\ obj' \in [Objects -> Transport]
      /\ \A q \in Objects : q # me => obj'[q] = obj[q]
      /\ obj'[me].binding = s /\ obj'[me].channel = obj[me].channel
      /\ obj'[me].generation = obj[me].generation /\ (Busy(me)' <=> Busy(me))
  <2>1. [obj[me] EXCEPT !.binding = s] \in Transport
    BY DEF Transport
  <2> QED
    BY <1>4, <2>1 DEF Transport, Busy
<1>7. /\ session[s].of = me /\ obj[me].generation = session[s].generation /\ Busy(me)
      /\ session[s].at["control"] = "start"
      /\ \A q \in Sessions : session[q].of = me /\ session[q].generation = obj[me].generation => q = s
  BY <1>1, <1>2, <1>3 DEF At
<1> HIDE DEF o
<1>8. obj[me].channel = None /\ obj[me].binding = None
  <2>1. obj[me].channel \in {None} \cup Sessions /\ obj[me].binding \in {None} \cup Sessions
    BY DEF Transport
  <2> QED
    BY <2>1, <1>7 DEF IInv, ObjectInv, At
<1>9. ObjectInv'
  <2> SUFFICES ASSUME NEW q \in Objects
               PROVE  /\ obj'[q].binding # None =>
                           /\ session'[obj'[q].binding].of = q /\ Busy(q)'
                           /\ session'[obj'[q].binding].at["control"] # "start"
                           /\ session'[obj'[q].binding].generation = obj'[q].generation
                      /\ obj'[q].channel # None =>
                           /\ session'[obj'[q].channel].of = q /\ Busy(q)'
                           /\ session'[obj'[q].channel].at["control"] # "start"
                           /\ session'[obj'[q].channel].at["control"] # "handshake"
                           /\ session'[obj'[q].channel].generation = obj'[q].generation
    BY DEF ObjectInv, At
  <2>1. CASE q = me
    BY <2>1, <1>5, <1>6, <1>7, <1>8
  <2>2. CASE q # me
    <3>1. obj'[q] = obj[q] /\ (Busy(q)' <=> Busy(q))
      BY <2>2, <1>6 DEF Busy
    <3>2. obj[q].binding \in {None} \cup Sessions /\ obj[q].channel \in {None} \cup Sessions
      BY DEF Transport
    <3>3. (obj[q].binding # None => obj[q].binding # s) /\ (obj[q].channel # None => obj[q].channel # s)
      BY <2>2, <1>7 DEF IInv, ObjectInv
    <3> QED
      BY <3>1, <3>2, <3>3, <1>5 DEF IInv, ObjectInv, At
  <2> QED
    BY <2>1, <2>2
<1>10. ResourceInv'
  <2>0. sockets \subseteq Sessions /\ keys \subseteq Sessions
    BY DEF IInv, TypeOK
  <2>1. ASSUME NEW q \in sockets'
        PROVE  ~Unused(q)' /\ obj'[session'[q].of].binding = q
    <3>1. CASE q = s
      BY <3>1, <1>5, <1>6 DEF Unused
    <3>2. CASE q # s
      <4>1. q \in sockets /\ q \in Sessions /\ session'[q] = session[q]
        BY <3>2, <2>0, <1>4, <1>5
      <4>2. ~Unused(q) /\ obj[session[q].of].binding = q
        BY <4>1 DEF IInv, ResourceInv
      <4> QED
        BY <4>1, <4>2, <1>6, <1>8 DEF Unused
    <3> QED
      BY <3>1, <3>2
  <2>2. ASSUME NEW q \in keys'
        PROVE  ~Unused(q)' /\ obj'[session'[q].of].channel = q
    <3>1. q \in keys /\ q \in Sessions /\ session'[q].of = session[q].of
      BY <2>0, <1>4, <1>5, <1>7
    <3>2. ~Unused(q) /\ obj[session[q].of].channel = q
      BY <3>1 DEF IInv, ResourceInv
    <3> QED
      BY <3>1, <3>2, <1>6 DEF Unused
  <2> QED
    BY <2>1, <2>2 DEF ResourceInv
<1>11. SessionInv' /\ UiInv' /\ PostInv'
  <2>1. \A q \in Objects : obj'[q].generation = obj[q].generation /\ (Busy(q)' <=> Busy(q))
    BY <1>6 DEF Busy
  <2> QED
    BY <2>1, <1>1, <1>2, <1>4, <1>6, Installs
<1>12. sockets' \subseteq Sessions /\ keys' \subseteq Sessions /\ refusals' \in Nat
  BY <1>4 DEF IInv, TypeOK
<1> QED
  BY <1>4, <1>5, <1>6, <1>9, <1>10, <1>11, <1>12, Settles

(* installChannel(): the transport had no channel of another session.      *)
LEMMA Attaches ==
    ASSUME IInv, NEW s \in Sessions, Establish(s)
    PROVE  IInv'
<1> USE Types, NoneIsNobody
<1> DEFINE o == session[s].of
<1>1. At(s, "handshake") /\ Active(s) /\ Goto(s, "control", "serve")
  BY DEF Establish
<1>2. /\ ~Unused(s) /\ o \in Objects /\ obj[o].generation = session[s].generation /\ Busy(o)
      /\ \A q \in Sessions : session[q].of = o /\ session[q].generation = session[s].generation
                             => q = s
  BY <1>1, Mine DEF At
<1>3. PICK me \in Objects : me = o
  BY <1>2
<1>4. /\ obj' = [obj EXCEPT ![me] = [obj[me] EXCEPT !.channel = s]]
      /\ keys' = keys \cup {s} /\ UNCHANGED <<ui, sockets, posts, refusals>>
  BY <1>3 DEF Establish
<1>5. /\ session' \in [Sessions -> Threads]
      /\ \A q \in Sessions : q # s => session'[q] = session[q]
      /\ session'[s].of = me /\ session'[s].generation = session[s].generation
      /\ session'[s].at["control"] = "serve"
      /\ \A r \in Roles : r # "control" => session'[s].at[r] = session[s].at[r]
  BY <1>1, <1>2, <1>3, Goes
<1>6. /\ obj' \in [Objects -> Transport]
      /\ \A q \in Objects : q # me => obj'[q] = obj[q]
      /\ obj'[me].channel = s /\ obj'[me].binding = obj[me].binding
      /\ obj'[me].generation = obj[me].generation /\ (Busy(me)' <=> Busy(me))
  <2>1. [obj[me] EXCEPT !.channel = s] \in Transport
    BY DEF Transport
  <2> QED
    BY <1>4, <2>1 DEF Transport, Busy
<1>7. /\ session[s].of = me /\ obj[me].generation = session[s].generation /\ Busy(me)
      /\ session[s].at["control"] = "handshake"
      /\ \A q \in Sessions : session[q].of = me /\ session[q].generation = obj[me].generation => q = s
  BY <1>1, <1>2, <1>3 DEF At
<1> HIDE DEF o
<1>8. obj[me].channel = None /\ obj[me].binding \in {None, s}
  <2>1. obj[me].channel \in {None} \cup Sessions /\ obj[me].binding \in {None} \cup Sessions
    BY DEF Transport
  <2> QED
    BY <2>1, <1>7 DEF IInv, ObjectInv, At
<1>9. ObjectInv'
  <2> SUFFICES ASSUME NEW q \in Objects
               PROVE  /\ obj'[q].binding # None =>
                           /\ session'[obj'[q].binding].of = q /\ Busy(q)'
                           /\ session'[obj'[q].binding].at["control"] # "start"
                           /\ session'[obj'[q].binding].generation = obj'[q].generation
                      /\ obj'[q].channel # None =>
                           /\ session'[obj'[q].channel].of = q /\ Busy(q)'
                           /\ session'[obj'[q].channel].at["control"] # "start"
                           /\ session'[obj'[q].channel].at["control"] # "handshake"
                           /\ session'[obj'[q].channel].generation = obj'[q].generation
    BY DEF ObjectInv, At
  <2>1. CASE q = me
    BY <2>1, <1>5, <1>6, <1>7, <1>8
  <2>2. CASE q # me
    <3>1. obj'[q] = obj[q] /\ (Busy(q)' <=> Busy(q))
      BY <2>2, <1>6 DEF Busy
    <3>2. obj[q].binding \in {None} \cup Sessions /\ obj[q].channel \in {None} \cup Sessions
      BY DEF Transport
    <3>3. (obj[q].binding # None => obj[q].binding # s) /\ (obj[q].channel # None => obj[q].channel # s)
      BY <2>2, <1>7 DEF IInv, ObjectInv
    <3> QED
      BY <3>1, <3>2, <3>3, <1>5 DEF IInv, ObjectInv, At
  <2> QED
    BY <2>1, <2>2
<1>10. ResourceInv'
  <2>0. sockets \subseteq Sessions /\ keys \subseteq Sessions
    BY DEF IInv, TypeOK
  <2>1. ASSUME NEW q \in keys'
        PROVE  ~Unused(q)' /\ obj'[session'[q].of].channel = q
    <3>1. CASE q = s
      BY <3>1, <1>5, <1>6 DEF Unused
    <3>2. CASE q # s
      <4>1. q \in keys /\ q \in Sessions /\ session'[q] = session[q]
        BY <3>2, <2>0, <1>4, <1>5
      <4>2. ~Unused(q) /\ obj[session[q].of].channel = q
        BY <4>1 DEF IInv, ResourceInv
      <4> QED
        BY <4>1, <4>2, <1>6, <1>8 DEF Unused
    <3> QED
      BY <3>1, <3>2
  <2>2. ASSUME NEW q \in sockets'
        PROVE  ~Unused(q)' /\ obj'[session'[q].of].binding = q
    <3>1. q \in sockets /\ q \in Sessions /\ session'[q].of = session[q].of
      BY <2>0, <1>4, <1>5, <1>7
    <3>2. ~Unused(q) /\ obj[session[q].of].binding = q
      BY <3>1 DEF IInv, ResourceInv
    <3> QED
      BY <3>1, <3>2, <1>6 DEF Unused
  <2> QED
    BY <2>1, <2>2 DEF ResourceInv
<1>11. SessionInv' /\ UiInv' /\ PostInv'
  <2>1. \A q \in Objects : obj'[q].generation = obj[q].generation /\ (Busy(q)' <=> Busy(q))
    BY <1>6 DEF Busy
  <2> QED
    BY <2>1, <1>1, <1>2, <1>4, <1>6, Installs
<1>12. sockets' \subseteq Sessions /\ keys' \subseteq Sessions /\ refusals' \in Nat
  BY <1>4 DEF IInv, TypeOK
<1> QED
  BY <1>4, <1>5, <1>6, <1>9, <1>10, <1>11, <1>12, Settles

------------------------------------------------------------------------------
(* Nothing is used, installed or queued at the start.                      *)
LEMMA IInvInit == Init => IInv
<1> SUFFICES ASSUME Init PROVE IInv
  OBVIOUS
<1> USE DEF Init
<1>0. /\ \A o \in Objects : obj[o] = NewObject
      /\ \A s \in Sessions : session[s] = NoSession
  OBVIOUS
<1>1. TypeOK
  <2>1. ui \in Activity
    BY DEF Activity, None
  <2>2. NewObject \in Transport /\ NoSession \in Threads
    BY DEF NewObject, NoSession, Transport, Threads, None
  <2>3. posts \in Seq(Message)
    OBVIOUS
  <2>4. obj \in [Objects -> Transport] /\ session \in [Sessions -> Threads]
    BY <2>2
  <2> QED
    BY <2>1, <2>3, <2>4 DEF TypeOK, Activity, Transport, Threads, Message
<1>2. SessionInv
  <2>1. \A s \in Sessions : Unused(s) /\ \A r \in Roles : session[s].at[r] = "off"
    BY <1>0 DEF Unused, NoSession
  <2>2. 0 \in 0 .. MaxSessions /\ \A s \in Sessions : Unused(s) <=> s > 0
    BY <2>1, LifecycleAssumption DEF Sessions
  <2> QED
    BY <2>1, <2>2 DEF SessionInv
<1>3. ObjectInv /\ ResourceInv
  BY <1>0 DEF ObjectInv, ResourceInv, NewObject, None
<1>4. UiInv
  BY <1>0 DEF UiInv, Busy, NewObject
<1>5. PostInv
  BY <1>0 DEF PostInv, Unused, NoSession
<1> QED
  BY <1>1, <1>2, <1>3, <1>4, <1>5 DEF IInv

(* Every step of the activity and of every thread keeps the invariant.     *)
LEMMA IInvNext == IInv /\ [Next]_vars => IInv'
<1> SUFFICES ASSUME IInv, [Next]_vars PROVE IInv'
  OBVIOUS
<1> USE Types, NoneIsNobody
<1>0. \A q \in Objects : obj[q].generation \in Nat
  BY DEF Transport
<1>1. ASSUME StartPlaying PROVE IInv'
  <2>1. PICK o \in Objects : Fresh(o) /\ Open(o, [ui EXCEPT !.transport = o, !.playing = TRUE])
    BY <1>1 DEF StartPlaying
  <2> DEFINE u == [ui EXCEPT !.transport = o, !.playing = TRUE]
  <2>2. u \in Activity
    BY Edits, Zenon
  <2>3. u.transport = o /\ u.playing
    BY DEF Activity
  <2>4. \A q \in Objects : ~Busy(q)
    BY <1>1 DEF StartPlaying, Setup, IInv, UiInv
  <2>5. UNCHANGED posts
    BY <1>1 DEF StartPlaying
  <2> HIDE DEF u
  <2> QED
    BY <2>1, <2>2, <2>3, <2>4, <2>5, Opens DEF u
<1>2. ASSUME StartPairing PROVE IInv'
  <2>1. PICK o \in Objects : /\ Fresh(o) /\ Start(o, FALSE, {"control"})
                             /\ ui' = [ui EXCEPT !.transport = o]
    BY <1>2 DEF StartPairing
  <2>2. /\ obj' \in [Objects -> Transport] /\ session' \in [Sessions -> Threads]
        /\ sockets' \subseteq Sessions /\ keys' \subseteq Sessions
        /\ SessionInv' /\ ObjectInv' /\ ResourceInv'
        /\ \A q \in Objects : q # o => obj'[q] = obj[q]
        /\ obj'[o].generation > obj[o].generation
        /\ \A s \in Sessions : \/ session'[s] = session[s]
                               \/ /\ session'[s].of = o
                                  /\ \A r \in Roles : session'[s].at[r] # "post"
    <3>1. Start(o, FALSE, {"control"}) /\ FALSE \in BOOLEAN /\ {"control"} \in SUBSET Roles
      BY <2>1
    <3> QED
      BY <3>1, Starts
  <2>3. ui' \in Activity
    BY <2>1, Edits, Zenon
  <2>4. /\ ui'.transport = o /\ ui'.playing = ui.playing
        /\ ui'.delayed = ui.delayed /\ ui'.opening = ui.opening
    BY <2>1 DEF Activity
  <2>5. ~ui.playing /\ ~ui.opening /\ \A q \in Objects : ~Busy(q)
    BY <1>2 DEF StartPairing, Setup, Responsive, IInv, UiInv
  <2>6. \A q \in Objects : q # o => ~Busy(q)'
    BY <2>2, <2>5 DEF Busy
  <2>7. UiInv'
    BY <2>4, <2>5, <2>6 DEF UiInv, IInv
  <2>8. PostInv'
    <3>1. obj[o].generation = 0
      BY <2>1 DEF Fresh
    <3>2. \A q \in Objects : obj'[q].generation >= obj[q].generation
      BY <2>2, <1>0 DEF Transport
    <3>3. \A i \in DOMAIN posts' : \E j \in DOMAIN posts : posts'[i] = posts[j]
      BY <1>2 DEF StartPairing
    <3> QED
      BY <2>2, <2>4, <2>6, <3>1, <3>2, <3>3, PostsKeep
  <2>9. posts' = posts /\ refusals' \in Nat
    BY <1>2 DEF StartPairing, IInv, TypeOK
  <2> QED
    BY <2>2, <2>3, <2>7, <2>8, <2>9, Settles
<1>3. ASSUME OnResume PROVE IInv'
  <2>1. ui.playing /\ Open(ui.transport, ui) /\ UNCHANGED posts
    BY <1>3 DEF OnResume
  <2>2. ui.transport \in Objects /\ \A q \in Objects : q # ui.transport => ~Busy(q)
    BY <2>1 DEF IInv, UiInv
  <2> QED
    BY <2>1, <2>2, Opens
<1>4. ASSUME ui.transport # None, CloseInternal(ui.transport), UNCHANGED <<session, posts>>,
             refusals' \in Nat, ui' \in Activity,
             ui'.transport \in {None, ui.transport},
             ui'.playing => ui.playing /\ ui'.transport = ui.transport, ~ui'.opening,
             ui'.delayed => ui'.playing
      PROVE  IInv'
  <2>1. PICK o \in Objects : ui.transport = o
    BY <1>4 DEF Activity
  <2>2. /\ obj' \in [Objects -> Transport]
        /\ sockets' \subseteq Sessions /\ keys' \subseteq Sessions
        /\ SessionInv' /\ ObjectInv' /\ ResourceInv' /\ ~Busy(o)'
        /\ \A q \in Objects : q # o => obj'[q] = obj[q]
        /\ obj'[o].generation > obj[o].generation
    BY <1>4, <2>1, Rests, Closes
  <2>3. \A q \in Objects : ~Busy(q)'
    BY <2>1, <2>2 DEF IInv, UiInv, Busy
  <2>4. UiInv'
    BY <1>4, <2>1, <2>3 DEF UiInv
  <2>5. PostInv'
    <3>1. \A q \in Objects : obj'[q].generation >= obj[q].generation
      BY <2>2, <1>0 DEF Transport
    <3>2. session' \in [Sessions -> Threads] /\ \A s \in Sessions : session'[s] = session[s]
      BY <1>4
    <3> QED
      BY <1>4, <2>2, <2>3, <3>1, <3>2, Rests, PostsKeep
  <2>6. session' \in [Sessions -> Threads]
    BY <1>4
  <2> QED
    BY <1>4, <2>2, <2>4, <2>5, <2>6, Settles
<1>5. ASSUME Stop PROVE IInv'
  <2>1. PICK c : c = CancelReconnect(ui)
    OBVIOUS
  <2>2. c \in Activity
    BY <2>1, Cancels
  <2>2d. ~c.delayed /\ ~c.opening
    BY <1>5, <2>1, Cancels DEF Stop, Responsive
  <2>3. ui' = [c EXCEPT !.transport = None, !.playing = FALSE]
    BY <1>5, <2>1 DEF Stop
  <2>4. ui' \in Activity
    BY <2>2, <2>3, Edits, Zenon
  <2>5. ui'.transport = None /\ ~ui'.playing /\ ~ui'.delayed /\ ~ui'.opening
    BY <2>2, <2>2d, <2>3 DEF Activity
  <2>6. /\ ui.transport # None /\ CloseInternal(ui.transport) /\ UNCHANGED <<session, posts>>
        /\ refusals' \in Nat
    BY <1>5 DEF Stop, IInv, TypeOK
  <2> QED
    BY <1>4, <2>4, <2>5, <2>6
<1>6. ASSUME ui' \in Activity, UNCHANGED <<obj, session, sockets, keys, refusals>>,
             posts' = posts \/ (posts' = Tail(posts) /\ posts # <<>>),
             ui'.transport = ui.transport \/
               (ui'.transport = None /\ ~ui'.playing /\ \A q \in Objects : ~Busy(q)),
             ui'.playing = ui.playing, ui'.opening => ui.opening,
             ui'.delayed => ui.playing, ui'.opening => ui'.transport = ui.transport
      PROVE  IInv'
  <2>1. UiInv'
    BY <1>6 DEF IInv, UiInv, Busy
  <2>2. \A i \in DOMAIN posts' : \E j \in DOMAIN posts : posts'[i] = posts[j]
    <3>1. posts \in Seq(Message)
      BY DEF IInv, TypeOK, Message
    <3>2. CASE posts' = posts
      BY <3>2
    <3>3. CASE posts' = Tail(posts) /\ posts # <<>>
      <4>1. ASSUME NEW i \in DOMAIN posts' PROVE i + 1 \in DOMAIN posts /\ posts'[i] = posts[i + 1]
        BY <3>1, <3>3
      <4> QED
        BY <4>1
    <3> QED
      BY <1>6, <3>2, <3>3
  <2>3. PostInv'
    <3>1. \A q \in Objects : obj'[q].generation >= obj[q].generation /\ (Busy(q)' => Busy(q))
      BY <1>6, <1>0 DEF Busy
    <3>2. \A q \in Objects : ui'.transport = q /\ ~ui'.playing /\ Busy(q)' =>
            ui.transport = q /\ ~ui.playing /\ Busy(q)
      BY <1>6, <3>1
    <3>3. \A s \in Sessions : session'[s] = session[s]
      BY <1>6
    <3>4. obj' \in [Objects -> Transport] /\ session' \in [Sessions -> Threads]
      BY <1>6
    <3> QED
      BY <2>2, <3>1, <3>2, <3>3, <3>4, PostsKeep
  <2>4. SessionInv' /\ ObjectInv' /\ ResourceInv'
    BY <1>6 DEF IInv, SessionInv, ObjectInv, ResourceInv, Unused, At, Busy
  <2>5. /\ obj' \in [Objects -> Transport] /\ session' \in [Sessions -> Threads]
        /\ sockets' \subseteq Sessions /\ keys' \subseteq Sessions /\ refusals' \in Nat
    BY <1>6 DEF IInv, TypeOK
  <2> QED
    BY <1>6, <2>1, <2>3, <2>4, <2>5, Settles
<1>7. ASSUME OpenReturns PROVE IInv'
  <2>1. PICK u : u = [ui EXCEPT !.opening = FALSE]
    OBVIOUS
  <2>2. u \in Activity
    BY <2>1, Edits, Zenon
  <2>3. /\ u.transport = ui.transport /\ u.playing = ui.playing
        /\ u.delayed = ui.delayed /\ ~u.opening
    BY <2>1 DEF Activity
  <2>4. ui.playing /\ ui.transport \in Objects /\ UNCHANGED <<session, posts>>
    BY <1>7 DEF OpenReturns, IInv, UiInv
  <2>5. CASE ui' = u /\ UNCHANGED <<obj, sockets, keys, refusals>>
    BY <1>6, <2>2, <2>3, <2>4, <2>5
  <2>6. CASE /\ IF Running(ui.transport) THEN refusals < MaxRefusals /\ refusals' = refusals + 1
                ELSE UNCHANGED refusals
             /\ CloseInternal(ui.transport) /\ ui' = ScheduleReconnect(u, FALSE)
    <3>1. /\ ui' \in Activity /\ ui'.transport = u.transport
          /\ ui'.playing = u.playing /\ ui'.opening = u.opening
      BY <2>2, <2>6, Schedules
    <3>2. refusals' \in Nat
      BY <2>6 DEF IInv, TypeOK
    <3> QED
      BY <1>4, <2>3, <2>4, <2>6, <3>1, <3>2
  <2> QED
    BY <1>7, <2>1, <2>5, <2>6 DEF OpenReturns
<1>8. ASSUME ReconnectRunnable PROVE IInv'
  <2>1. PICK u : u = [ui EXCEPT !.scheduled = FALSE, !.delayed = FALSE]
    OBVIOUS
  <2>2. u \in Activity
    BY <2>1, Edits, Zenon
  <2>3. /\ u.transport = ui.transport /\ u.playing = ui.playing
        /\ ~u.delayed /\ u.opening = ui.opening
    BY <2>1 DEF Activity
  <2>4. /\ ui.playing /\ ui.transport \in Objects /\ UNCHANGED posts
        /\ \A q \in Objects : q # ui.transport => ~Busy(q)
    BY <1>8 DEF ReconnectRunnable, IInv, UiInv
  <2>5. CASE ui' = u /\ UNCHANGED <<obj, session, sockets, keys, refusals>>
    BY <1>6, <2>2, <2>3, <2>4, <2>5
  <2>6. CASE Open(ui.transport, u)
    BY <2>2, <2>3, <2>4, <2>6, Opens
  <2> QED
    BY <1>8, <2>1, <2>5, <2>6 DEF ReconnectRunnable
<1>9. ASSUME HandlePost PROVE IInv'
  <2>1. /\ posts' = Tail(posts) /\ posts # <<>> /\ ~ui.opening
        /\ UNCHANGED <<obj, session, sockets, keys, refusals>>
    BY <1>9 DEF HandlePost, Responsive
  <2>2. CASE ui' = ui
    BY <1>6, <2>1, <2>2 DEF IInv, UiInv
  <2>3. CASE \E running \in BOOLEAN : ui' = ScheduleReconnect(ui, running)
    <3>1. PICK running \in BOOLEAN : ui' = ScheduleReconnect(ui, running)
      BY <2>3
    <3>2. /\ ui' \in Activity /\ ui'.transport = ui.transport /\ ui'.playing = ui.playing
          /\ ui'.opening = ui.opening /\ (ui'.delayed => ui.delayed \/ ui.playing)
      BY <3>1, Schedules
    <3>3. ui.delayed => ui.playing
      BY DEF IInv, UiInv
    <3> QED
      BY <1>6, <2>1, <3>2, <3>3
  <2>4. CASE ui' = CancelReconnect(ui)
    BY <1>6, <2>1, <2>4, Cancels
  <2>5. CASE \E o : o = Head(posts).from /\ ui.transport = o /\ ~ui.playing
                    /\ ui' = [ui EXCEPT !.transport = None]
    <3>1. PICK o : o = Head(posts).from /\ ui.transport = o /\ ~ui.playing
                    /\ ui' = [ui EXCEPT !.transport = None]
      BY <2>5
    <3>2. posts \in Seq(Message)
      BY DEF IInv, TypeOK, Message
    <3>3. 1 \in DOMAIN posts /\ Head(posts) = posts[1]
      BY <3>2, <2>1
    <3>4. \A q \in Objects : ~Busy(q)
      BY <3>1, <3>3 DEF IInv, UiInv, PostInv
    <3>5. ui' \in Activity
      BY <3>1, Edits, Zenon
    <3>6. /\ ui'.transport = None /\ ui'.playing = ui.playing
          /\ ui'.delayed = ui.delayed /\ ui'.opening = ui.opening
      BY <3>1 DEF Activity
    <3>7. ui.delayed => ui.playing
      BY DEF IInv, UiInv
    <3> QED
      BY <1>6, <2>1, <3>1, <3>4, <3>5, <3>6, <3>7
  <2>6. \/ ui' = ui
        \/ \E running \in BOOLEAN : ui' = ScheduleReconnect(ui, running)
        \/ ui' = CancelReconnect(ui)
        \/ \E o : /\ o = Head(posts).from /\ ui.transport = o /\ ~ui.playing
                  /\ ui' = [ui EXCEPT !.transport = None]
    <3>1. Running(ui.transport) \in BOOLEAN
      BY DEF Running, Transport, Activity
    <3>2. CASE ui' = PairingEnded(Head(posts).from)
      BY <3>2 DEF PairingEnded
    <3>3. CASE ui' = ConnectionChanged(Head(posts).connected)
      BY <3>1, <3>3 DEF ConnectionChanged
    <3> QED
      BY <1>9, <3>2, <3>3 DEF HandlePost
  <2> QED
    BY <2>2, <2>3, <2>4, <2>5, <2>6
<1>10. ASSUME NEW s \in Sessions, BecomesReady(s) PROVE IInv'
  <2>1. Connection(TRUE) \in Message /\ Connection(TRUE).from = None
    BY DEF Connection, Message
  <2>2. ~Unused(s)
    BY <1>10 DEF BecomesReady, At, IInv, SessionInv
  <2>3. /\ Goto(s, "control", "live") /\ posts' = Append(posts, Connection(TRUE))
        /\ UNCHANGED <<ui, obj, sockets, keys, refusals>>
    BY <1>10 DEF BecomesReady, Posts
  <2> QED
    BY <2>1, <2>2, <2>3, Calls
<1>11. ASSUME NEW s \in Sessions, NEW r \in Roles, Fail(s, r) PROVE IInv'
  <2>1. session[s].at[r] \in Breakable /\ Active(s)
    BY <1>11 DEF Fail
  <2>2. PICK o \in Objects : o = session[s].of
    BY <2>1, Mine DEF Breakable
  <2>3. ~Unused(s) /\ CloseInternal(o) /\ Goto(s, r, "post") /\ UNCHANGED <<ui, posts, refusals>>
    BY <1>11, <2>1, <2>2, Mine DEF Fail, Breakable
  <2>4. Advance
    BY <2>3, Walks
  <2>5. /\ obj' \in [Objects -> Transport]
        /\ sockets' \subseteq Sessions /\ keys' \subseteq Sessions
        /\ SessionInv' /\ ObjectInv' /\ ResourceInv' /\ ~Busy(o)'
        /\ \A q \in Objects : q # o => obj'[q] = obj[q]
        /\ obj'[o].generation > obj[o].generation
    BY <2>3, <2>4, Closes
  <2>6. \A q \in Objects : obj'[q].generation >= obj[q].generation /\ (Busy(q)' => Busy(q))
    BY <2>5, <1>0 DEF Busy, Transport
  <2>7. UiInv'
    BY <2>3, <2>6 DEF IInv, UiInv
  <2>8. PostInv'
    <3>1. ASSUME NEW i \in DOMAIN posts, posts[i].from # None
          PROVE  /\ obj'[posts[i].from].generation > 0
                 /\ ui.transport = posts[i].from /\ ~ui.playing =>
                      ~(obj'[posts[i].from].running \/ obj'[posts[i].from].pairing)
      <4>1. PICK q \in Objects : posts[i].from = q
        <5>1. posts \in Seq(Message)
          BY DEF IInv, TypeOK, Message
        <5>2. posts[i] \in Message
          BY <5>1
        <5> QED
          BY <3>1, <5>2 DEF Message
      <4>2. obj[q].generation > 0 /\ (ui.transport = q /\ ~ui.playing => ~Busy(q))
        BY <3>1, <4>1 DEF IInv, PostInv
      <4>3. obj'[q].generation > 0
        BY <4>2, <2>5, <2>6, <1>0 DEF Transport
      <4>4. ui.transport = q /\ ~ui.playing => ~(obj'[q].running \/ obj'[q].pairing)
        BY <4>2, <2>6 DEF Busy
      <4> QED
        BY <4>1, <4>3, <4>4
    <3>2. ASSUME NEW q \in Sessions, ~Unused(q)', \E x \in Roles : session'[q].at[x] = "post"
          PROVE  ui.transport = session'[q].of /\ ~ui.playing =>
                   ~(obj'[session'[q].of].running \/ obj'[session'[q].of].pairing)
      <4>1. CASE q = s
        BY <4>1, <2>2, <2>4, <2>5 DEF Advance, Busy
      <4>2. CASE q # s
        <5>1. session'[q] = session[q] /\ ~Unused(q)
          BY <3>2, <4>2, <2>3, Goes DEF Unused
        <5>2. PICK p \in Objects : session[q].of = p
          BY <5>1
        <5>3. ui.transport = p /\ ~ui.playing => ~Busy(p)
          BY <3>2, <5>1, <5>2 DEF IInv, PostInv
        <5>4. ui.transport = p /\ ~ui.playing => ~(obj'[p].running \/ obj'[p].pairing)
          BY <5>3, <2>6 DEF Busy
        <5> QED
          BY <5>1, <5>2, <5>4
      <4> QED
        BY <4>1, <4>2
    <3> QED
      BY <3>1, <3>2, <2>3 DEF PostInv, Busy
  <2>9. ui' \in Activity /\ posts' = posts /\ refusals' \in Nat /\ session' \in [Sessions -> Threads]
    BY <2>3, <2>4 DEF Advance, IInv, TypeOK
  <2> QED
    BY <2>5, <2>7, <2>8, <2>9, Settles
<1>12. ASSUME NEW s \in Sessions, NEW r \in Roles, Report(s, r) PROVE IInv'
  <2>1. /\ session[s].at[r] = "post" /\ Goto(s, r, "done")
        /\ UNCHANGED <<ui, obj, sockets, keys, refusals>>
    BY <1>12 DEF Report
  <2>2. ~Unused(s)
    BY <2>1 DEF IInv, SessionInv
  <2>3. PICK o \in Objects : o = session[s].of
    BY <2>2
  <2>4. CASE posts' = Append(posts, Connection(FALSE))
    <3>1. Connection(FALSE) \in Message /\ Connection(FALSE).from = None
      BY DEF Connection, Message
    <3> QED
      BY <2>1, <2>2, <2>4, <3>1, Calls
  <2>5. CASE posts' = Append(posts, [kind |-> "pairing", connected |-> FALSE, from |-> o])
    <3>1. PICK m : m = [kind |-> "pairing", connected |-> FALSE, from |-> o]
      OBVIOUS
    <3>2. m \in Message /\ m.from = o
      BY <3>1 DEF Message
    <3>3. obj[o].generation > 0
      BY <2>2, <2>3, <1>0 DEF IInv, SessionInv
    <3>4. ui.transport = o /\ ~ui.playing => ~Busy(o)
      BY <2>1, <2>2, <2>3 DEF IInv, PostInv
    <3> QED
      BY <2>1, <2>2, <2>5, <3>1, <3>2, <3>3, <3>4, Calls
  <2> QED
    BY <1>12, <2>3, <2>4, <2>5 DEF Report, Posts
<1>13. ASSUME UNCHANGED vars PROVE IInv'
  <2>1. ui' \in Activity /\ posts' = posts /\ UNCHANGED <<ui, obj, session, sockets, keys, refusals>>
    BY <1>13 DEF vars
  <2> QED
    BY <1>6, <2>1 DEF IInv, UiInv
<1> QED
  BY <1>1, <1>2, <1>3, <1>5, <1>7, <1>8, <1>9, <1>10, <1>11, <1>12, <1>13, Binds, Attaches
  DEF Next, User

------------------------------------------------------------------------------
(* The inductive invariant holds throughout.                               *)
THEOREM Invariance == Spec => []IInv
<1> QED
  BY IInvInit, IInvNext, PTL DEF Spec

(* The fields of MainActivity and of every V5Transport keep their types.   *)
THEOREM TypeCorrect == Spec => []TypeOK
<1>1. IInv => TypeOK
  BY DEF IInv
<1> QED
  BY <1>1, Invariance, PTL

(* closeInternal(), installBinding() and installChannel() leave no socket  *)
(* and no channel behind, whatever the order of user actions, callbacks,   *)
(* timers and threads: one that is open is installed in the busy transport *)
(* that the activity holds, and so stopCurrent() will find it.             *)
THEOREM NeverForgotten == Spec => []NothingForgotten
<1>1. ASSUME IInv PROVE NothingForgotten
  <2>1. ASSUME NEW s \in Sessions, s \in sockets
        PROVE  Active(s) /\ ui.transport = session[s].of /\ obj[session[s].of].binding = s
    <3>1. /\ ~Unused(s) /\ session[s].of \in Objects /\ obj[session[s].of].binding = s
          /\ s # None
      BY <1>1, <2>1, Types, NoneIsNobody DEF IInv, ResourceInv
    <3> QED
      BY <1>1, <3>1 DEF IInv, ObjectInv, UiInv, Active, Busy
  <2>2. ASSUME NEW s \in Sessions, s \in keys
        PROVE  Active(s) /\ ui.transport = session[s].of /\ obj[session[s].of].channel = s
    <3>1. /\ ~Unused(s) /\ session[s].of \in Objects /\ obj[session[s].of].channel = s
          /\ s # None
      BY <1>1, <2>2, Types, NoneIsNobody DEF IInv, ResourceInv
    <3> QED
      BY <1>1, <3>1 DEF IInv, ObjectInv, UiInv, Active, Busy
  <2> QED
    BY <2>1, <2>2 DEF NothingForgotten
<1> QED
  BY <1>1, Invariance, PTL

(* closeInternal() ends a running session only for the UI thread or for a  *)
(* thread of that very generation; a late failure of an older session, of  *)
(* the same transport or of another one, ends nothing.                     *)
THEOREM OnlyItsOwnEnds == Spec => EndsByItsOwn
<1> DEFINE Own == \A o \in Objects :
             obj[o].running /\ obj'[o].generation # obj[o].generation =>
               \/ ui' # ui
               \/ \E s \in Sessions : /\ session[s].of = o /\ session'[s] # session[s]
                                      /\ session[s].generation = obj[o].generation
<1>1. ASSUME IInv, [Next]_vars PROVE Own
  <2> SUFFICES ASSUME NEW o \in Objects, obj[o].running, obj'[o].generation # obj[o].generation
               PROVE  \/ ui' # ui
                      \/ \E s \in Sessions : /\ session[s].of = o /\ session'[s] # session[s]
                                             /\ session[s].generation = obj[o].generation
    OBVIOUS
  <2> USE <1>1, Types, NoneIsNobody
  <2>1. ui.transport = o /\ Running(ui.transport)
    BY DEF IInv, UiInv, Busy, Running
  <2>2. CASE StartPlaying \/ StartPairing \/ OnResume
    BY <2>1, <2>2 DEF StartPlaying, StartPairing, OnResume, Setup
  <2>3. CASE Stop
    <3>1. ui'.transport = None
      <4>1. PICK c : c = CancelReconnect(ui) /\ c \in Activity
        BY Cancels
      <4>2. ui' = [c EXCEPT !.transport = None, !.playing = FALSE]
        BY <2>3, <4>1 DEF Stop
      <4> QED
        BY <4>1, <4>2 DEF Activity
    <3> QED
      BY <2>1, <3>1
  <2>4. CASE OpenReturns
    <3>1. PICK u : u = [ui EXCEPT !.opening = FALSE]
      OBVIOUS
    <3>2. u \in Activity
      BY <3>1, Edits, Zenon
    <3>3. ~u.opening
      BY <3>1 DEF Activity
    <3>4. ui' = ScheduleReconnect(u, FALSE) => ~ui'.opening
      BY <3>2, <3>3, Schedules
    <3>5. ui.opening /\ (ui' = u \/ ui' = ScheduleReconnect(u, FALSE))
      BY <2>4, <3>1 DEF OpenReturns
    <3> QED
      BY <3>3, <3>4, <3>5
  <2>5. CASE ReconnectRunnable
    BY <2>1, <2>5 DEF ReconnectRunnable
  <2>6. CASE HandlePost
    BY <2>6 DEF HandlePost
  <2>7. ASSUME NEW s \in Sessions, OpenBinding(s) \/ Establish(s) PROVE FALSE
    <3>1. \/ obj' = [obj EXCEPT ![session[s].of].binding = s]
          \/ obj' = [obj EXCEPT ![session[s].of].channel = s]
      BY <2>7 DEF OpenBinding, Establish
    <3>2. obj'[o].generation = obj[o].generation
      BY <3>1 DEF Transport
    <3> QED
      BY <3>2
  <2>8. ASSUME NEW s \in Sessions, NEW r \in Roles, BecomesReady(s) \/ Report(s, r) PROVE FALSE
    BY <2>8 DEF BecomesReady, Report
  <2>9. ASSUME NEW s \in Sessions, NEW r \in Roles, Fail(s, r)
        PROVE  /\ session[s].of = o /\ session'[s] # session[s]
               /\ session[s].generation = obj[o].generation
    <3>1. session[s].at[r] \in Breakable /\ Active(s) /\ Goto(s, r, "post")
      BY <2>9 DEF Fail
    <3>2. ~Unused(s) /\ session[s].of \in Objects
          /\ obj[session[s].of].generation = session[s].generation
      BY <3>1, Mine DEF Breakable
    <3>3. session'[s].at[r] = "post"
      BY <3>1, <3>2, Goes
    <3>4. session[s].of = o
      BY <2>9, <3>2 DEF Fail, CloseInternal
    <3> QED
      BY <3>1, <3>2, <3>3, <3>4 DEF Breakable
  <2>10. CASE UNCHANGED vars
    BY <2>10 DEF vars
  <2>11. "control" \in Roles
    OBVIOUS
  <2> QED
    BY <2>2, <2>3, <2>4, <2>5, <2>6, <2>7, <2>8, <2>9, <2>10, <2>11 DEF Next, User
<1>2. [Next]_vars /\ IInv => [Own]_vars
  BY <1>1
<1> QED
  BY <1>2, Invariance, PTL DEF Spec, EndsByItsOwn
=============================================================================
