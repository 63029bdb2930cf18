-------------------------- MODULE RoutePolicyProofs --------------------------
(***************************************************************************)
(* Proofs about the Windows route policy, for any number of hosts, any     *)
(* families and gateways and any number of deaths, failing calls and       *)
(* events: the user's own flag is never touched nor mistaken for a host's, *)
(* a flag a host set is in the journal, and transactions do not overlap.   *)
(* While nothing happens outside, whatever dies and whatever fails, routes *)
(* are covered as well; if nothing dies or fails, a stop restores all.     *)
(***************************************************************************)
EXTENDS RoutePolicy, TLAPS

EntriesOf(s) == {s[i].entry : i \in DOMAIN s}

HasCur(l) == l.pc \in {"undo", "forget", "persist", "apply", "delete"}

\* What a process remembers of the journal, its own entries and others'.
Held(l) == UNION {EntriesOf(l.snaps), EntriesOf(l.work), EntriesOf(l.keep)}

Current(l) == IF HasCur(l) THEN {l.cur.entry} ELSE {}

Known(l) == UNION {l.queue, Held(l), Current(l)}

\* DisableDefaultRoutes is set, and not by a host.
UserFlag(f) == flag[f] /\ ~owned[f]

\* An entry tells the user's own flag, and was written by a host that ran.
Genuine(e) == (e.flag <=> UserFlag(e.family)) /\ loc[e.owner].pc # "off"

KnownInv ==
    /\ \A f \in Families : owned[f] => flag[f]
    /\ \A e \in journal : Genuine(e)
    /\ \A p \in Procs : \A e \in Known(loc[p]) : Genuine(e)

\* What a process is doing fits how it came to do it.
Fits(l) ==
    /\ l.pc \in {"off", "dead"} => l.mode = "start"
    /\ l.pc = "recover" => l.mode \in {"start", "capture"}
    /\ l.pc \in {"undo", "forget"} => l.mode # "serve"
    /\ l.pc = "restore" => l.mode = "rollback"
    /\ l.pc \in {"loop", "listen", "serving"} => l.mode = "serve"
    /\ l.pc \in {"verify", "protect", "capture", "persist", "apply", "delete"}
         => l.mode = "capture"
    /\ l.mode = "start" => l.snaps = <<>> /\ l.work = <<>> /\ l.keep = <<>>
    /\ HasCur(l) => l.cur \in Snap
    /\ l.mode = "capture" => l.txn <= Len(l.snaps) /\ l.fi > 0
    /\ l.mode = "capture" /\ l.pc \notin {"verify", "protect"} => l.fi <= Len(FamilyOrder)
    /\ l.pc \in {"apply", "delete"} => l.cur.entry \in EntriesOf(l.snaps)
    /\ l.pc = "persist" => l.cur.entry.family = FamilyOrder[l.fi]

\* A process undoes its own entries or a dead host's, has what it serves with in
\* the journal, and holds the port while it captures and serves.
Owns(p, l) ==
    /\ p = Launcher => l.mode = "start" /\ l.pc # "dead"
    /\ \A e \in Held(l) : e.owner = p
    /\ HasCur(l) /\ (l.mode = "rollback" \/ l.pc \notin {"undo", "forget"})
         => l.cur.entry.owner = p
    /\ l.pc \in {"undo", "forget"} /\ l.mode # "rollback"
         => loc[l.cur.entry.owner].pc = "dead"
    /\ l.mode \in {"serve", "capture"} => EntriesOf(l.snaps) \subseteq journal
    /\ l.mode = "capture" \/ l.pc = "serving" => port = p

\* A family is captured when nothing of it is left in the journal.
Finishes(l) ==
    l.mode = "capture" =>
      /\ l.pc \in {"recover", "undo", "forget"} /\ l.bad = {}
           => Entries(FamilyOrder[l.fi]) \subseteq l.queue \cup Current(l)
      /\ l.pc \in {"capture", "persist"} => Entries(FamilyOrder[l.fi]) = {}

ProcInv(p) == Fits(loc[p]) /\ Owns(p, loc[p]) /\ Finishes(loc[p])

Forgetting(e) == \E p \in Procs : loc[p].pc = "forget" /\ loc[p].cur.entry = e

\* A flag that a host set has an entry that nobody is about to forget.
CoverInv == \A f \in Families : owned[f] => \E e \in Entries(f) : ~Forgetting(e)

\* A family has one transaction at a time.
OneEntry == \A d, e \in journal : d.family = e.family => d = e

IInv == TypeOK /\ KnownInv /\ CoverInv /\ OneEntry /\ \A p \in Procs : ProcInv(p)

-----------------------------------------------------------------------------
\* The entries of a sequence of snapshots.
LEMMA SnapEntries ==
    ASSUME NEW s \in Seq(Snap)
    PROVE  EntriesOf(<<>>) = {} /\ EntriesOf(s) \subseteq Entry
<1>9. Len(s) \in Nat /\ DOMAIN s = 1 .. Len(s)
  OBVIOUS
<1>1. DOMAIN <<>> = {}
  OBVIOUS
<1>2. ASSUME NEW i \in DOMAIN s PROVE s[i].entry \in Entry
  <2>1. s[i] \in Snap
    BY <1>9
  <2> QED
    BY <2>1 DEF Snap
<1> QED
  BY <1>1, <1>2 DEF EntriesOf

\* One snapshot more at the end.
LEMMA AppendSnap ==
    ASSUME NEW s \in Seq(Snap), NEW x \in Snap
    PROVE  Append(s, x) \in Seq(Snap) /\ EntriesOf(Append(s, x)) = EntriesOf(s) \cup {x.entry}
<1>9. Len(s) \in Nat /\ DOMAIN s = 1 .. Len(s)
  OBVIOUS
<1>1. Append(s, x) \in Seq(Snap) /\ DOMAIN Append(s, x) = 1 .. (Len(s) + 1)
  BY <1>9
<1>2. Append(s, x)[Len(s) + 1] = x /\ \A i \in 1 .. Len(s) : Append(s, x)[i] = s[i]
  BY <1>9
<1>3. 1 .. (Len(s) + 1) = (1 .. Len(s)) \cup {Len(s) + 1}
  BY <1>9
<1> QED
  BY <1>9, <1>1, <1>2, <1>3 DEF EntriesOf

\* One snapshot more in front.
LEMMA PushSnap ==
    ASSUME NEW s \in Seq(Snap), NEW x \in Snap
    PROVE  <<x>> \o s \in Seq(Snap) /\ EntriesOf(<<x>> \o s) = EntriesOf(s) \cup {x.entry}
<1>9. Len(s) \in Nat /\ DOMAIN s = 1 .. Len(s)
  OBVIOUS
<1>0. PICK u : u = <<x>> \o s
  OBVIOUS
<1>1. u \in Seq(Snap) /\ DOMAIN u = 1 .. (Len(s) + 1)
  BY <1>9, <1>0
<1>2. u[1] = x /\ \A i \in 1 .. Len(s) : u[i + 1] = s[i] /\ i + 1 \in 1 .. (Len(s) + 1)
  BY <1>9, <1>0
<1>3. \A i \in 1 .. (Len(s) + 1) : i = 1 \/ (i - 1 \in 1 .. Len(s) /\ u[i] = s[i - 1])
  BY <1>9, <1>0
<1>4. 1 \in 1 .. (Len(s) + 1)
  BY <1>9
<1>5. ASSUME NEW e, e \in EntriesOf(u) PROVE e \in EntriesOf(s) \cup {x.entry}
  <2>1. PICK i \in 1 .. (Len(s) + 1) : e = u[i].entry
    BY <1>1, <1>5 DEF EntriesOf
  <2> QED
    BY <1>9, <1>2, <1>3, <2>1 DEF EntriesOf
<1>6. ASSUME NEW e, e \in EntriesOf(s) \cup {x.entry} PROVE e \in EntriesOf(u)
  <2>1. CASE e = x.entry
    BY <1>1, <1>2, <1>4, <2>1 DEF EntriesOf
  <2>2. CASE e \in EntriesOf(s)
    <3>1. PICK i \in 1 .. Len(s) : e = s[i].entry
      BY <1>9, <2>2 DEF EntriesOf
    <3> QED
      BY <1>1, <1>2, <3>1 DEF EntriesOf
  <2> QED
    BY <1>6, <2>1, <2>2
<1> QED
  BY <1>0, <1>1, <1>5, <1>6

\* Two sequences of snapshots joined.
LEMMA JoinSnaps ==
    ASSUME NEW s \in Seq(Snap), NEW t \in Seq(Snap)
    PROVE  s \o t \in Seq(Snap) /\ EntriesOf(s \o t) = EntriesOf(s) \cup EntriesOf(t)
<1>9. Len(s) \in Nat /\ DOMAIN s = 1 .. Len(s) /\ Len(t) \in Nat /\ DOMAIN t = 1 .. Len(t)
  OBVIOUS
<1>0. PICK u : u = s \o t
  OBVIOUS
<1>1. u \in Seq(Snap) /\ DOMAIN u = 1 .. (Len(s) + Len(t))
  BY <1>9, <1>0
<1>2. \A i \in 1 .. Len(s) : u[i] = s[i] /\ i \in 1 .. (Len(s) + Len(t))
  BY <1>9, <1>0
<1>3. \A i \in 1 .. Len(t) : u[Len(s) + i] = t[i] /\ Len(s) + i \in 1 .. (Len(s) + Len(t))
  BY <1>9, <1>0
<1>4. \A i \in 1 .. (Len(s) + Len(t)) :
          \/ i \in 1 .. Len(s)
          \/ (i - Len(s) \in 1 .. Len(t) /\ u[i] = t[i - Len(s)])
  BY <1>9, <1>0
<1>5. ASSUME NEW e, e \in EntriesOf(u) PROVE e \in EntriesOf(s) \cup EntriesOf(t)
  <2>1. PICK i \in 1 .. (Len(s) + Len(t)) : e = u[i].entry
    BY <1>1, <1>5 DEF EntriesOf
  <2> QED
    BY <1>9, <1>2, <1>4, <2>1 DEF EntriesOf
<1>6. ASSUME NEW e, e \in EntriesOf(s) \cup EntriesOf(t) PROVE e \in EntriesOf(u)
  <2>1. CASE e \in EntriesOf(s)
    BY <1>9, <1>1, <1>2, <2>1 DEF EntriesOf
  <2>2. CASE e \in EntriesOf(t)
    <3>1. PICK i \in 1 .. Len(t) : e = t[i].entry
      BY <1>9, <2>2 DEF EntriesOf
    <3> QED
      BY <1>1, <1>3, <3>1 DEF EntriesOf
  <2> QED
    BY <1>6, <2>1, <2>2
<1> QED
  BY <1>0, <1>1, <1>5, <1>6

\* A sequence of snapshots split in two.
LEMMA SplitSnaps ==
    ASSUME NEW s \in Seq(Snap), NEW k \in 0 .. Len(s)
    PROVE  /\ SubSeq(s, 1, k) \in Seq(Snap) /\ SubSeq(s, k + 1, Len(s)) \in Seq(Snap)
           /\ k = 0 => SubSeq(s, 1, k) = <<>>
           /\ EntriesOf(SubSeq(s, 1, k)) \cup EntriesOf(SubSeq(s, k + 1, Len(s))) = EntriesOf(s)
<1>9. Len(s) \in Nat /\ DOMAIN s = 1 .. Len(s)
  OBVIOUS
<1>0. PICK u, v : u = SubSeq(s, 1, k) /\ v = SubSeq(s, k + 1, Len(s))
  OBVIOUS
<1>1. u \in Seq(Snap) /\ DOMAIN u = 1 .. k /\ \A i \in 1 .. k : u[i] = s[i] /\ i \in 1 .. Len(s)
  BY <1>9, <1>0
<1>2. /\ v \in Seq(Snap) /\ DOMAIN v = 1 .. (Len(s) - k)
      /\ \A i \in 1 .. (Len(s) - k) : v[i] = s[i + k] /\ i + k \in 1 .. Len(s)
  BY <1>9, <1>0
<1>3. \A i \in 1 .. Len(s) : i \in 1 .. k \/ (i - k \in 1 .. (Len(s) - k) /\ v[i - k] = s[i])
  BY <1>9, <1>0
<1>4. ASSUME NEW e, e \in EntriesOf(u) \cup EntriesOf(v) PROVE e \in EntriesOf(s)
  <2>1. CASE e \in EntriesOf(u)
    BY <1>9, <1>1, <2>1 DEF EntriesOf
  <2>2. CASE e \in EntriesOf(v)
    <3>1. PICK i \in 1 .. (Len(s) - k) : e = v[i].entry
      BY <1>2, <2>2 DEF EntriesOf
    <3> QED
      BY <1>9, <1>2, <3>1 DEF EntriesOf
  <2> QED
    BY <1>4, <2>1, <2>2
<1>5. ASSUME NEW e, e \in EntriesOf(s) PROVE e \in EntriesOf(u) \cup EntriesOf(v)
  <2>1. PICK i \in 1 .. Len(s) : e = s[i].entry
    BY <1>9, <1>5 DEF EntriesOf
  <2> QED
    BY <1>1, <1>2, <1>3, <2>1 DEF EntriesOf
<1> QED
  BY <1>0, <1>1, <1>2, <1>4, <1>5

\* The last of a sequence of snapshots and the rest.
LEMMA LastSnap ==
    ASSUME NEW s \in Seq(Snap), Len(s) > 0
    PROVE  /\ s[Len(s)] \in Snap /\ SubSeq(s, 1, Len(s) - 1) \in Seq(Snap)
           /\ EntriesOf(s) = EntriesOf(SubSeq(s, 1, Len(s) - 1)) \cup {s[Len(s)].entry}
<1>1. Len(s) \in Nat /\ Len(s) - 1 \in 0 .. Len(s) /\ Len(s) \in 1 .. Len(s) /\ (Len(s) - 1) + 1 = Len(s)
  OBVIOUS
<1>2. PICK v : v = SubSeq(s, Len(s), Len(s))
  OBVIOUS
<1>3. DOMAIN v = {1} /\ v[1] = s[Len(s)] /\ s[Len(s)] \in Snap
  BY <1>1, <1>2
<1>4. EntriesOf(v) = {s[Len(s)].entry}
  BY <1>3 DEF EntriesOf
<1>5. PICK k \in 0 .. Len(s) : k = Len(s) - 1
  BY <1>1
<1>6. /\ SubSeq(s, 1, k) \in Seq(Snap)
      /\ EntriesOf(SubSeq(s, 1, k)) \cup EntriesOf(SubSeq(s, k + 1, Len(s))) = EntriesOf(s)
  BY <1>3, <1>5, SplitSnaps
<1> QED
  BY <1>1, <1>2, <1>3, <1>4, <1>5, <1>6

\* Changing one field of what a process is doing.
LEMMA LocalEdits ==
    ASSUME NEW l \in Local
    PROVE  /\ \A x \in Steps : [l EXCEPT !.pc = x] \in Local
           /\ \A x \in {"start", "capture", "serve", "rollback"} : [l EXCEPT !.mode = x] \in Local
           /\ \A x \in BOOLEAN : [l EXCEPT !.again = x] \in Local
           /\ \A x \in SUBSET {"Deferred", "OwnerStillRunning"} : [l EXCEPT !.bad = x] \in Local
           /\ \A x \in SUBSET Entry : [l EXCEPT !.queue = x] \in Local
           /\ \A x \in Seq(Snap) : [l EXCEPT !.snaps = x] \in Local
           /\ \A x \in Seq(Snap) : [l EXCEPT !.work = x] \in Local
           /\ \A x \in Seq(Snap) : [l EXCEPT !.keep = x] \in Local
           /\ \A x \in Nat : [l EXCEPT !.txn = x] \in Local
           /\ \A x \in Nat : [l EXCEPT !.fi = x] \in Local
           /\ \A x \in Nat : [l EXCEPT !.bind = x] \in Local
           /\ \A x \in Snap : [l EXCEPT !.cur = x] \in Local
           /\ \A x \in SUBSET Gateways : [l EXCEPT !.avail = x] \in Local
           /\ \A x \in SUBSET Gateways : [l EXCEPT !.unconf = x] \in Local
           /\ \A x \in SUBSET Gateways : [l EXCEPT !.made = x] \in Local
<1>1. ASSUME NEW x \in Steps PROVE [l EXCEPT !.pc = x] \in Local
  BY DEF Local
<1>2. ASSUME NEW x \in {"start", "capture", "serve", "rollback"} PROVE [l EXCEPT !.mode = x] \in Local
  BY DEF Local
<1>3. ASSUME NEW x \in BOOLEAN PROVE [l EXCEPT !.again = x] \in Local
  BY DEF Local
<1>4. ASSUME NEW x \in SUBSET {"Deferred", "OwnerStillRunning"} PROVE [l EXCEPT !.bad = x] \in Local
  BY DEF Local
<1>5. ASSUME NEW x \in SUBSET Entry PROVE [l EXCEPT !.queue = x] \in Local
  BY DEF Local
<1>6. ASSUME NEW x \in Seq(Snap) PROVE [l EXCEPT !.snaps = x] \in Local
  BY DEF Local
<1>7. ASSUME NEW x \in Seq(Snap) PROVE [l EXCEPT !.work = x] \in Local
  BY DEF Local
<1>8. ASSUME NEW x \in Seq(Snap) PROVE [l EXCEPT !.keep = x] \in Local
  BY DEF Local
<1>9. ASSUME NEW x \in Nat PROVE [l EXCEPT !.txn = x] \in Local
  BY DEF Local
<1>10. ASSUME NEW x \in Nat PROVE [l EXCEPT !.fi = x] \in Local
  BY DEF Local
<1>11. ASSUME NEW x \in Nat PROVE [l EXCEPT !.bind = x] \in Local
  BY DEF Local
<1>12. ASSUME NEW x \in Snap PROVE [l EXCEPT !.cur = x] \in Local
  BY DEF Local
<1>13. ASSUME NEW x \in SUBSET Gateways PROVE [l EXCEPT !.avail = x] \in Local
  BY DEF Local
<1>14. ASSUME NEW x \in SUBSET Gateways PROVE [l EXCEPT !.unconf = x] \in Local
  BY DEF Local
<1>15. ASSUME NEW x \in SUBSET Gateways PROVE [l EXCEPT !.made = x] \in Local
  BY DEF Local
<1> QED
  BY <1>1, <1>2, <1>3, <1>4, <1>5, <1>6, <1>7, <1>8, <1>9, <1>10, <1>11, <1>12, <1>13, <1>14, <1>15

-----------------------------------------------------------------------------
\* rollback_suffix() takes the snapshots from its start on as its work.
LEMMA RollbackLocal ==
    ASSUME NEW l \in Local, NEW start \in 0 .. Len(l.snaps), NEW again \in BOOLEAN
    PROVE  /\ Rollback(l, start, again) \in Local
           /\ Rollback(l, start, again).pc = "restore"
           /\ Rollback(l, start, again).mode = "rollback"
           /\ Rollback(l, start, again).again = again
           /\ Rollback(l, start, again).queue = l.queue
           /\ start = 0 => Rollback(l, start, again).snaps = <<>>
           /\ Held(Rollback(l, start, again)) = EntriesOf(l.snaps)
           /\ EntriesOf(Rollback(l, start, again).snaps) \cup EntriesOf(Rollback(l, start, again).work)
                = EntriesOf(l.snaps)
<1>0. PICK r : r = Rollback(l, start, again)
  OBVIOUS
<1>1. l.snaps \in Seq(Snap)
  BY DEF Local
<1>2. PICK front \in Seq(Snap) : front = SubSeq(l.snaps, 1, start)
  BY <1>1, SplitSnaps
<1>3. PICK back \in Seq(Snap) : back = SubSeq(l.snaps, start + 1, Len(l.snaps))
  BY <1>1, SplitSnaps
<1>4. EntriesOf(front) \cup EntriesOf(back) = EntriesOf(l.snaps) /\ (start = 0 => front = <<>>)
  BY <1>1, <1>2, <1>3, SplitSnaps
<1>5. PICK none \in Seq(Snap) : none = <<>>
  <2>1. <<>> \in Seq(Snap)
    OBVIOUS
  <2> QED
    BY <2>1
<1>6. PICK a : a = [l EXCEPT !.pc = "restore"]
  OBVIOUS
<1>7. PICK b : b = [a EXCEPT !.mode = "rollback"]
  OBVIOUS
<1>8. PICK c : c = [b EXCEPT !.again = again]
  OBVIOUS
<1>9. PICK d : d = [c EXCEPT !.work = back]
  OBVIOUS
<1>10. PICK e : e = [d EXCEPT !.snaps = front]
  OBVIOUS
<1>11. r = [e EXCEPT !.keep = none]
  BY <1>0, <1>2, <1>3, <1>5, <1>6, <1>7, <1>8, <1>9, <1>10 DEF Rollback
<1>12. a \in Local
  <2>1. "restore" \in Steps
    BY DEF Steps
  <2> QED
    BY <1>6, <2>1, LocalEdits, Zenon
<1>13. b \in Local
  BY <1>7, <1>12, LocalEdits
<1>14. c \in Local
  BY <1>8, <1>13, LocalEdits, Zenon
<1>15. d \in Local
  BY <1>9, <1>14, LocalEdits, Zenon
<1>16. e \in Local
  BY <1>10, <1>15, LocalEdits, Zenon
<1>17. r \in Local
  BY <1>11, <1>16, LocalEdits, Zenon
<1>18. /\ r.pc = "restore" /\ r.mode = "rollback" /\ r.again = again /\ r.queue = l.queue
       /\ r.snaps = front /\ r.work = back /\ r.keep = <<>>
  BY <1>5, <1>6, <1>7, <1>8, <1>9, <1>10, <1>11, <1>12, <1>13, <1>14, <1>15, <1>16 DEF Local
<1>19. EntriesOf(r.keep) = {}
  BY <1>1, <1>18, SnapEntries
<1> QED
  BY <1>0, <1>4, <1>17, <1>18, <1>19 DEF Held

\* A process that is gone holds nothing.
LEMMA GoneLocal ==
    ASSUME NEW p
    PROVE  /\ Gone(p) \in Local /\ Gone(p).pc = (IF p = Launcher THEN "off" ELSE "dead")
           /\ Gone(p).mode = "start" /\ Gone(p).queue = {}
           /\ Gone(p).snaps = <<>> /\ Gone(p).work = <<>> /\ Gone(p).keep = <<>>
           /\ Held(Gone(p)) = {} /\ Known(Gone(p)) = {}
           /\ Idle \in Local /\ Known(Idle) = {} /\ Held(Idle) = {}
<1>1. Idle \in Local
  BY DEF Idle, Local, Steps, NoSnap
<1>2. PICK x \in Steps : x = IF p = Launcher THEN "off" ELSE "dead"
  BY DEF Steps
<1>3. PICK g : g = Gone(p)
  OBVIOUS
<1>4. g = [Idle EXCEPT !.pc = x]
  BY <1>2, <1>3 DEF Gone
<1>5. g \in Local
  BY <1>1, <1>4, LocalEdits, Zenon
<1>6. /\ g.pc = x /\ g.mode = "start" /\ g.queue = {} /\ g.snaps = <<>> /\ g.work = <<>>
      /\ g.keep = <<>>
  BY <1>4 DEF Idle
<1>7. /\ Idle.pc = "off" /\ Idle.queue = {} /\ Idle.snaps = <<>> /\ Idle.work = <<>>
      /\ Idle.keep = <<>>
  BY DEF Idle
<1>8. EntriesOf(<<>>) = {}
  BY SnapEntries, <1>1 DEF Local
<1>9. ~HasCur(g) /\ ~HasCur(Idle)
  BY <1>2, <1>6, <1>7 DEF HasCur
<1>10. Held(g) = {} /\ Held(Idle) = {}
  BY <1>6, <1>7, <1>8 DEF Held
<1>11. Known(g) = {} /\ Known(Idle) = {}
  BY <1>6, <1>7, <1>9, <1>10 DEF Known, Current
<1> QED
  BY <1>1, <1>2, <1>3, <1>5, <1>6, <1>10, <1>11

\* What is missing of an entry, and of which kind, is a set of its routes.
LEMMA MissingType ==
    ASSUME NEW e \in Entry, NEW class
    PROVE  Missing(e, class) \subseteq e.routes /\ Missing(e, class) \in SUBSET Gateways
  BY DEF Missing, MissingOriginals, Entry

\* A plan changes what is being undone and nothing the process holds.
LEMMA PlanLocal ==
    ASSUME NEW l \in Local, NEW s \in Snap
    PROVE  /\ UndoPlan(l, s) \in Local /\ UndoPlan(l, s).pc = "undo" /\ UndoPlan(l, s).cur = s
           /\ UndoPlan(l, s).mode = l.mode /\ UndoPlan(l, s).again = l.again
           /\ UndoPlan(l, s).bad = l.bad /\ UndoPlan(l, s).queue = l.queue
           /\ UndoPlan(l, s).snaps = l.snaps /\ UndoPlan(l, s).work = l.work
           /\ UndoPlan(l, s).keep = l.keep
           /\ UndoPlan(l, s).txn = l.txn /\ UndoPlan(l, s).fi = l.fi
           /\ UndoPlan(l, s).made = {}
           /\ UndoPlan(l, s).avail = Missing(s.entry, "Available")
           /\ UndoPlan(l, s).unconf = Missing(s.entry, "Unconfirmed")
<1>0. PICK r : r = UndoPlan(l, s)
  OBVIOUS
<1>1. s.entry \in Entry
  BY DEF Snap
<1>2. PICK x \in SUBSET Gateways : x = Missing(s.entry, "Available")
  BY <1>1, MissingType
<1>3. PICK y \in SUBSET Gateways : y = Missing(s.entry, "Unconfirmed")
  BY <1>1, MissingType
<1>4. PICK none \in SUBSET Gateways : none = {}
  OBVIOUS
<1>6. PICK a : a = [l EXCEPT !.pc = "undo"]
  OBVIOUS
<1>7. PICK b : b = [a EXCEPT !.cur = s]
  OBVIOUS
<1>8. PICK c : c = [b EXCEPT !.made = none]
  OBVIOUS
<1>9. PICK d : d = [c EXCEPT !.avail = x]
  OBVIOUS
<1>11. r = [d EXCEPT !.unconf = y]
  BY <1>0, <1>2, <1>3, <1>4, <1>6, <1>7, <1>8, <1>9 DEF UndoPlan
<1>12. a \in Local
  <2>1. "undo" \in Steps
    BY DEF Steps
  <2> QED
    BY <1>6, <2>1, LocalEdits, Zenon
<1>13. b \in Local
  BY <1>7, <1>12, LocalEdits, Zenon
<1>14. c \in Local
  BY <1>8, <1>13, LocalEdits, Zenon
<1>15. d \in Local
  BY <1>9, <1>14, LocalEdits, Zenon
<1>17. r \in Local
  BY <1>11, <1>15, LocalEdits, Zenon
<1>18. /\ r.pc = "undo" /\ r.cur = s /\ r.mode = l.mode /\ r.again = l.again /\ r.bad = l.bad
       /\ r.queue = l.queue /\ r.snaps = l.snaps /\ r.work = l.work /\ r.keep = l.keep
       /\ r.txn = l.txn /\ r.fi = l.fi /\ r.made = {} /\ r.avail = x /\ r.unconf = y
  BY <1>4, <1>6, <1>7, <1>8, <1>9, <1>11, <1>12, <1>13, <1>14, <1>15 DEF Local
<1> QED
  BY <1>0, <1>2, <1>3, <1>17, <1>18

\* An error return ends the process or makes it undo what it holds.
LEMMA FailLocal ==
    ASSUME TypeOK, NEW p \in Procs, ProcInv(p), Fail(p), loc[p].pc \notin {"off", "dead"},
           loc[p].mode = "rollback" => HasCur(loc[p])
    PROVE  \E l \in Local :
             /\ Goto(p, l)
             /\ l = Gone(p) \/ (p \in Hosts /\ l.pc = "restore" /\ l.mode = "rollback")
             /\ Fits(l) /\ Known(l) \subseteq Known(loc[p])
             /\ \A e \in Held(l) : e.owner = p
<1>1. loc[p] \in Local /\ Fits(loc[p]) /\ Owns(p, loc[p])
  BY DEF TypeOK, ProcInv
<1>2. CASE loc[p].mode = "start"
  <2>1. Goto(p, Gone(p))
    BY <1>2, Zenon DEF Fail, Exit
  <2>2. /\ Gone(p) \in Local /\ Held(Gone(p)) = {} /\ Known(Gone(p)) = {}
        /\ Gone(p).mode = "start" /\ Gone(p).pc \in {"off", "dead"}
        /\ Gone(p).snaps = <<>> /\ Gone(p).work = <<>> /\ Gone(p).keep = <<>>
    BY GoneLocal
  <2>3. Fits(Gone(p))
    BY <2>2 DEF Fits, HasCur
  <2> QED
    BY <2>1, <2>2, <2>3
<1>3. CASE loc[p].mode \in {"capture", "serve"}
  <2>1. p \in Hosts
    BY <1>1, <1>3 DEF Owns, Procs
  <2>2. PICK start \in 0 .. Len(loc[p].snaps), again \in BOOLEAN : Goto(p, Rollback(loc[p], start, again))
    <3>1. Len(loc[p].snaps) \in Nat /\ loc[p].txn \in Nat
      BY <1>1 DEF Local
    <3>2. CASE loc[p].mode = "capture"
      <4>1. loc[p].txn \in 0 .. Len(loc[p].snaps)
        BY <1>1, <3>1, <3>2 DEF Fits
      <4>2. Goto(p, Rollback(loc[p], loc[p].txn, TRUE))
        BY <3>2 DEF Fail
      <4> QED
        BY <4>1, <4>2
    <3>3. CASE loc[p].mode = "serve"
      <4>1. 0 \in 0 .. Len(loc[p].snaps)
        BY <3>1
      <4>2. Goto(p, Rollback(loc[p], 0, FALSE))
        BY <3>3 DEF Fail
      <4> QED
        BY <4>1, <4>2
    <3> QED
      BY <1>3, <3>2, <3>3
  <2>3. PICK l \in Local : l = Rollback(loc[p], start, again)
    BY <1>1, RollbackLocal
  <2>4. /\ l.pc = "restore" /\ l.mode = "rollback" /\ l.queue = loc[p].queue
        /\ Held(l) = EntriesOf(loc[p].snaps)
    BY <1>1, <2>3, RollbackLocal
  <2>5. Fits(l) /\ ~HasCur(l)
    BY <2>4 DEF Fits, HasCur
  <2>6. EntriesOf(loc[p].snaps) \subseteq Held(loc[p])
    BY DEF Held
  <2>7. Known(l) \subseteq Known(loc[p])
    BY <2>4, <2>5, <2>6 DEF Known, Current
  <2>8. \A e \in Held(l) : e.owner = p
    BY <1>1, <2>4, <2>6 DEF Owns
  <2> QED
    BY <2>1, <2>2, <2>3, <2>4, <2>5, <2>7, <2>8
<1>4. CASE loc[p].mode = "rollback"
  <2>1. p \in Hosts
    BY <1>1, <1>4 DEF Owns, Procs
  <2>2. loc[p].cur \in Snap /\ loc[p].keep \in Seq(Snap) /\ HasCur(loc[p])
    BY <1>1, <1>4 DEF Fits, Local
  <2>3. PICK k \in Seq(Snap) : k = <<loc[p].cur>> \o loc[p].keep
    BY <2>2, PushSnap
  <2>4. EntriesOf(k) = EntriesOf(loc[p].keep) \cup {loc[p].cur.entry}
    BY <2>2, <2>3, PushSnap
  <2>5. PICK a : a = [loc[p] EXCEPT !.pc = "restore"]
    OBVIOUS
  <2>6. PICK l : l = [a EXCEPT !.keep = k]
    OBVIOUS
  <2>7. a \in Local
    <3>1. "restore" \in Steps
      BY DEF Steps
    <3> QED
      BY <1>1, <2>5, <3>1, LocalEdits, Zenon
  <2>8. l \in Local
    BY <2>6, <2>7, LocalEdits, Zenon
  <2>9. Goto(p, l)
    BY <1>4, <2>3, <2>5, <2>6 DEF Fail
  <2>10. /\ l.pc = "restore" /\ l.mode = "rollback" /\ l.queue = loc[p].queue
         /\ l.snaps = loc[p].snaps /\ l.work = loc[p].work /\ l.keep = k
    BY <1>1, <1>4, <2>5, <2>6, <2>7 DEF Local
  <2>11. Fits(l) /\ ~HasCur(l)
    BY <2>10 DEF Fits, HasCur
  <2>12. Held(l) = Held(loc[p]) \cup {loc[p].cur.entry}
    BY <2>4, <2>10 DEF Held
  <2>13. Known(l) \subseteq Known(loc[p])
    BY <2>2, <2>10, <2>11, <2>12 DEF Known, Current
  <2>14. \A e \in Held(l) : e.owner = p
    BY <1>1, <1>4, <2>2, <2>12 DEF Owns
  <2> QED
    BY <2>1, <2>8, <2>9, <2>10, <2>11, <2>13, <2>14
<1> QED
  BY <1>1, <1>2, <1>3, <1>4 DEF Local

-----------------------------------------------------------------------------
\* What a step of one process leaves the others: they are where they were, and
\* nothing they count on has changed.
LEMMA Others ==
    ASSUME IInv, NEW p \in Procs, NEW l \in Local, Goto(p, l),
           loc[p].pc # "dead", p \in Hosts => l.pc # "off",
           \A f \in Families : UserFlag(f)' <=> UserFlag(f),
           \A e \in journal \ journal' : e.owner = p \/ loc[e.owner].pc = "dead",
           \A e \in journal' \ journal : port = p,
           \A q \in Procs \ {p} : port = q => port' = q
    PROVE  /\ loc' \in [Procs -> Local] /\ loc'[p] = l
           /\ \A q \in Procs \ {p} : loc'[q] = loc[q] /\ ProcInv(q)'
           /\ \A e \in Entry : Genuine(e) => Genuine(e)'
<1>1. loc \in [Procs -> Local] /\ Hosts \subseteq Procs /\ Launcher \notin Hosts
      /\ \A q \in Procs : ProcInv(q)
  BY PolicyAssumption DEF IInv, TypeOK, Procs
<1>2. loc' \in [Procs -> Local] /\ loc'[p] = l /\ \A q \in Procs \ {p} : loc'[q] = loc[q]
  BY <1>1 DEF Goto
<1>3. ASSUME NEW e \in Entry, Genuine(e) PROVE Genuine(e)'
  <2>1. e.owner \in Hosts /\ e.family \in Families
    BY DEF Entry
  <2>2. loc'[e.owner].pc # "off"
    BY <1>1, <1>2, <1>3, <2>1 DEF Genuine
  <2> QED
    BY <1>3, <2>1, <2>2 DEF Genuine
<1>4. ASSUME NEW q \in Procs \ {p} PROVE ProcInv(q)'
  <2>0. loc'[q] = loc[q] /\ q \in Procs /\ loc[q] \in Local /\ Fits(loc[q]) /\ Owns(q, loc[q]) /\ Finishes(loc[q])
    BY <1>1, <1>2 DEF ProcInv
  <2>1. Fits(loc[q])'
    BY <2>0 DEF Fits, HasCur
  <2>2. Owns(q, loc[q])'
    <3>1. /\ q = Launcher => loc'[q].mode = "start" /\ loc'[q].pc # "dead"
          /\ \A e \in Held(loc'[q]) : e.owner = q
      BY <2>0 DEF Owns
    <3>2. HasCur(loc'[q]) /\ (loc'[q].mode = "rollback" \/ loc'[q].pc \notin {"undo", "forget"})
            => loc'[q].cur.entry.owner = q
      BY <2>0 DEF Owns
    <3>3. ASSUME loc'[q].pc \in {"undo", "forget"}, loc'[q].mode # "rollback"
          PROVE  loc'[loc'[q].cur.entry.owner].pc = "dead"
      <4>1. loc[q].cur.entry.owner \in Procs
        <5>1. loc[q].cur \in Snap
          BY <2>0, <3>3 DEF Fits, HasCur
        <5> QED
          BY <1>1, <5>1 DEF Snap, Entry
      <4>2. loc[loc[q].cur.entry.owner].pc = "dead"
        BY <2>0, <3>3 DEF Owns
      <4> QED
        BY <1>2, <2>0, <4>1, <4>2
    <3>4. ASSUME loc'[q].mode \in {"serve", "capture"} PROVE EntriesOf(loc'[q].snaps) \subseteq journal'
      <4>1. loc[q].pc # "dead"
        BY <2>0, <3>4 DEF Fits
      <4>2. ASSUME NEW e \in EntriesOf(loc[q].snaps) PROVE e \in journal'
        <5>1. e \in journal /\ e.owner = q
          BY <2>0, <3>4 DEF Owns, Held
        <5> QED
          BY <4>1, <5>1
      <4> QED
        BY <2>0, <4>2
    <3>5. loc'[q].mode = "capture" \/ loc'[q].pc = "serving" => port' = q
      BY <2>0 DEF Owns
    <3> QED
      BY <3>1, <3>2, <3>3, <3>4, <3>5 DEF Owns, Held, EntriesOf, HasCur
  <2>3. Finishes(loc[q])'
    <3>1. ASSUME loc[q].mode = "capture" PROVE \A f : Entries(f)' \subseteq Entries(f)
      <4>1. port = q
        BY <2>0, <3>1 DEF Owns
      <4>2. journal' \subseteq journal
        BY <4>1
      <4> QED
        BY <4>2 DEF Entries
    <3> QED
      BY <2>0, <3>1 DEF Finishes, Current, HasCur
  <2> QED
    BY <2>1, <2>2, <2>3 DEF ProcInv
<1> QED
  BY <1>2, <1>3, <1>4

\* All that a process knows of are entries.
LEMMA KnownType ==
    ASSUME NEW l \in Local, Fits(l)
    PROVE  Known(l) \subseteq Entry /\ Held(l) \subseteq Entry
<1>1. l.queue \subseteq Entry /\ l.snaps \in Seq(Snap) /\ l.work \in Seq(Snap) /\ l.keep \in Seq(Snap)
  BY DEF Local
<1>2. Held(l) \subseteq Entry
  <2>1. /\ EntriesOf(l.snaps) \subseteq Entry /\ EntriesOf(l.work) \subseteq Entry
        /\ EntriesOf(l.keep) \subseteq Entry
    BY <1>1, SnapEntries
  <2> QED
    BY <2>1 DEF Held
<1>3. Current(l) \subseteq Entry
  BY DEF Current, Fits, Snap
<1> QED
  BY <1>1, <1>2, <1>3 DEF Known

\* A running host's entry is forgotten by nobody but itself.
LEMMA NotForgotten ==
    ASSUME IInv, NEW p \in Procs, loc[p].pc \notin {"dead", "forget"}, NEW e, e.owner = p
    PROVE  ~Forgetting(e)
<1>1. SUFFICES ASSUME NEW q \in Procs, loc[q].pc = "forget", loc[q].cur.entry = e PROVE FALSE
  BY DEF Forgetting
<1>2. Owns(q, loc[q])
  BY DEF IInv, ProcInv
<1>3. loc[q].mode # "rollback"
  BY <1>1, <1>2 DEF Owns, HasCur
<1> QED
  BY <1>1, <1>2, <1>3 DEF Owns

\* The invariant after a step of one process that forgets nothing.
LEMMA Grows ==
    ASSUME IInv, TablesOK', NEW p \in Procs, NEW l \in Local, Goto(p, l),
           loc[p].pc # "dead", p \in Hosts => l.pc # "off", l.pc # "forget",
           \A f \in Families : /\ UserFlag(f)' <=> UserFlag(f)
                               /\ owned'[f] => flag'[f]
                               /\ owned'[f] => owned[f] \/ \E e \in Entries(f) : ~Forgetting(e),
           journal \subseteq journal',
           \A e \in journal' \ journal : port = p /\ Genuine(e),
           \A q \in Procs \ {p} : port = q => port' = q,
           Fits(l), \A e \in Known(l) : Genuine(e), Owns(p, l)', Finishes(l)', OneEntry'
    PROVE  IInv'
<1>1. /\ loc' \in [Procs -> Local] /\ loc'[p] = l
      /\ \A q \in Procs \ {p} : loc'[q] = loc[q] /\ ProcInv(q)'
      /\ \A e \in Entry : Genuine(e) => Genuine(e)'
  BY Others
<1>2. TypeOK'
  BY <1>1 DEF TypeOK
<1>3. KnownInv'
  <2>1. \A e \in journal' : Genuine(e)'
    BY <1>1 DEF IInv, TablesOK, KnownInv
  <2>2. ASSUME NEW q \in Procs, NEW e \in Known(loc'[q]) PROVE Genuine(e)'
    <3>1. CASE q = p
      BY <1>1, <2>2, <3>1, KnownType
    <3>2. CASE q # p
      <4>1. e \in Known(loc[q]) /\ loc[q] \in Local /\ Fits(loc[q])
        BY <1>1, <2>2, <3>2 DEF IInv, TypeOK, ProcInv
      <4> QED
        BY <1>1, <4>1, KnownType DEF IInv, KnownInv
    <3> QED
      BY <3>1, <3>2
  <2> QED
    BY <2>1, <2>2 DEF KnownInv, Known, Held, Current, HasCur, EntriesOf
<1>4. CoverInv'
  <2>1. ASSUME NEW f \in Families, owned'[f] PROVE \E e \in Entries(f)' : ~Forgetting(e)'
    <3>1. PICK e \in Entries(f) : ~Forgetting(e)
      BY <2>1 DEF IInv, CoverInv
    <3>2. ~Forgetting(e)'
      BY <1>1, <3>1 DEF Forgetting
    <3> QED
      BY <3>1, <3>2 DEF Entries
  <2> QED
    BY <2>1 DEF CoverInv
<1>6. ProcInv(p)'
  BY <1>1 DEF ProcInv, Fits, HasCur, Finishes, Current, Entries, Owns, Held, EntriesOf
<1> QED
  BY <1>1, <1>2, <1>3, <1>4, <1>6 DEF IInv

\* The invariant after a step of one process that leaves the journal alone.
LEMMA Quiet ==
    ASSUME IInv, TablesOK', NEW p \in Procs, NEW l \in Local, Goto(p, l),
           loc[p].pc # "dead", p \in Hosts => l.pc # "off", l.pc # "forget",
           \A f \in Families : /\ UserFlag(f)' <=> UserFlag(f)
                               /\ owned'[f] => flag'[f]
                               /\ owned'[f] => owned[f] \/ \E e \in Entries(f) : ~Forgetting(e),
           journal' = journal,
           \A q \in Procs \ {p} : port = q => port' = q,
           Fits(l), \A e \in Known(l) : Genuine(e), Owns(p, l)', Finishes(l)
    PROVE  IInv'
<1>1. Finishes(l)' /\ OneEntry'
  BY DEF Finishes, Entries, IInv, OneEntry
<1>2. journal \subseteq journal' /\ \A e \in journal' \ journal : port = p /\ Genuine(e)
  OBVIOUS
<1> QED
  BY <1>1, <1>2, Grows

\* Flags that nobody touched.
LEMMA FlagsKept ==
    ASSUME IInv, flag' = flag, owned' = owned
    PROVE  \A f \in Families : /\ UserFlag(f)' <=> UserFlag(f)
                               /\ owned'[f] => flag'[f]
                               /\ owned'[f] => owned[f] \/ \E e \in Entries(f) : ~Forgetting(e)
  BY DEF IInv, KnownInv, UserFlag

\* The invariant after an error return that leaves the journal alone.
LEMMA FailKeeps ==
    ASSUME IInv, TablesOK', NEW p \in Procs, Fail(p), loc[p].pc \notin {"off", "dead"},
           loc[p].mode = "rollback" => HasCur(loc[p]),
           \A f \in Families : /\ UserFlag(f)' <=> UserFlag(f)
                               /\ owned'[f] => flag'[f]
                               /\ owned'[f] => owned[f] \/ \E e \in Entries(f) : ~Forgetting(e),
           journal' = journal, port' = port
    PROVE  IInv'
<1>1. TypeOK /\ ProcInv(p) /\ Launcher \notin Hosts
  BY PolicyAssumption DEF IInv
<1>2. PICK l \in Local :
         /\ Goto(p, l)
         /\ l = Gone(p) \/ (p \in Hosts /\ l.pc = "restore" /\ l.mode = "rollback")
         /\ Fits(l) /\ Known(l) \subseteq Known(loc[p])
         /\ \A e \in Held(l) : e.owner = p
  BY <1>1, FailLocal
<1>3. /\ p \in Hosts => l.pc \in {"dead", "restore"}
      /\ p = Launcher => l.pc = "off" /\ l.mode = "start"
      /\ l.mode \in {"start", "rollback"} /\ l.pc \in {"off", "dead", "restore"}
  BY <1>1, <1>2, GoneLocal DEF Procs
<1>4. Owns(p, l)' /\ Finishes(l)
  BY <1>2, <1>3 DEF Owns, HasCur, Finishes, Held, EntriesOf
<1>5. \A e \in Known(l) : Genuine(e)
  BY <1>2 DEF IInv, KnownInv
<1> QED
  BY <1>2, <1>3, <1>4, <1>5, Quiet

\* The invariant after the end of a process, with or without cleanup.
LEMMA ExitKeeps ==
    ASSUME IInv, TablesOK', NEW p \in Procs, Exit(p), loc[p].pc # "dead",
           UNCHANGED <<flag, journal, owned>>,
           \A q \in Procs \ {p} : port = q => port' = q
    PROVE  IInv'
<1>1. /\ Gone(p) \in Local /\ Gone(p).pc = (IF p = Launcher THEN "off" ELSE "dead")
      /\ Gone(p).mode = "start" /\ Held(Gone(p)) = {} /\ Known(Gone(p)) = {}
      /\ Gone(p).snaps = <<>> /\ Gone(p).work = <<>> /\ Gone(p).keep = <<>>
  BY GoneLocal
<1>2. PICK l \in Local : l = Gone(p)
  BY <1>1
<1>3. /\ p \in Hosts => l.pc = "dead"
      /\ p = Launcher => l.pc = "off"
      /\ l.pc \in {"off", "dead"} /\ l.mode = "start" /\ Held(l) = {} /\ Known(l) = {}
      /\ l.snaps = <<>> /\ l.work = <<>> /\ l.keep = <<>>
  BY <1>1, <1>2, PolicyAssumption
<1>4. Fits(l) /\ Owns(p, l)' /\ Finishes(l) /\ Goto(p, l)
  BY <1>2, <1>3 DEF Fits, Owns, HasCur, Finishes, Held, EntriesOf, Exit
<1>5. \A e \in Known(l) : Genuine(e)
  BY <1>3
<1> QED
  BY <1>3, <1>4, <1>5, Quiet, FlagsKept

-----------------------------------------------------------------------------
\* Creating a missing route again.
LEMMA UndoRouteKeeps == ASSUME IInv, NEW p \in Procs, UndoRoute(p) PROVE IInv'
<1>1. /\ loc[p] \in Local /\ Fits(loc[p]) /\ Owns(p, loc[p]) /\ Finishes(loc[p]) /\ TablesOK
      /\ loc[p].pc = "undo" /\ UNCHANGED <<osvars, flag, journal, port, owned, left>>
  BY DEF IInv, TypeOK, ProcInv, UndoRoute
<1>2. loc[p].cur.entry.family \in Families /\ loc[p].cur.entry.owner \in Procs
  <2>1. loc[p].cur \in Snap
    BY <1>1 DEF Fits, HasCur
  <2> QED
    BY <2>1 DEF Snap, Entry, Procs
<1>3. PICK g \in loc[p].avail :
        \/ /\ present
           /\ routes' = [routes EXCEPT ![loc[p].cur.entry.family] = @ \cup {g}]
           /\ removed' = [removed EXCEPT ![loc[p].cur.entry.family] = @ \ {g}]
           /\ Goto(p, [loc[p] EXCEPT !.avail = loc[p].avail \ {g}, !.made = loc[p].made \cup {g}])
        \/ Fail(p) /\ UNCHANGED <<routes, removed>>
  BY DEF UndoRoute
<1>4. g \in Gateways /\ loc[p].avail \ {g} \in SUBSET Gateways /\ loc[p].made \cup {g} \in SUBSET Gateways
  BY <1>1 DEF Local
<1>5. TablesOK'
  BY <1>1, <1>2, <1>3, <1>4 DEF TablesOK, osvars
<1>6. CASE Fail(p) /\ UNCHANGED <<routes, removed>>
  BY <1>1, <1>5, <1>6, FailKeeps, FlagsKept DEF HasCur
<1>7. CASE Goto(p, [loc[p] EXCEPT !.avail = loc[p].avail \ {g}, !.made = loc[p].made \cup {g}])
  <2>1. PICK a : a = [loc[p] EXCEPT !.avail = loc[p].avail \ {g}]
    OBVIOUS
  <2>2. PICK l : l = [a EXCEPT !.made = loc[p].made \cup {g}]
    OBVIOUS
  <2>3. a \in Local
    BY <1>1, <1>4, <2>1, LocalEdits, Zenon
  <2>4. l \in Local
    BY <1>4, <2>2, <2>3, LocalEdits, Zenon
  <2>5. Goto(p, l)
    BY <1>7, <2>1, <2>2
  <2>6. /\ l.pc = "undo" /\ l.mode = loc[p].mode /\ l.queue = loc[p].queue /\ l.snaps = loc[p].snaps
        /\ l.work = loc[p].work /\ l.keep = loc[p].keep /\ l.cur = loc[p].cur /\ l.bad = loc[p].bad
        /\ l.txn = loc[p].txn /\ l.fi = loc[p].fi
    BY <1>1, <2>1, <2>2, <2>3 DEF Local
  <2>7. Known(l) = Known(loc[p]) /\ Held(l) = Held(loc[p]) /\ HasCur(l) /\ HasCur(loc[p]) /\ Fits(l)
        /\ Current(l) = Current(loc[p])
    BY <1>1, <2>6 DEF Known, Held, Current, HasCur, Fits
  <2>8. Finishes(l)
    BY <1>1, <2>6, <2>7 DEF Finishes
  <2>9. Owns(p, l)'
    <3>1. l.mode # "rollback" => loc'[l.cur.entry.owner].pc = "dead"
      <4>1. l.mode # "rollback" => loc[l.cur.entry.owner].pc = "dead"
        BY <1>1, <2>6 DEF Owns
      <4> QED
        BY <1>1, <1>2, <2>5, <2>6, <4>1 DEF Goto, IInv, TypeOK
    <3> QED
      BY <1>1, <2>6, <2>7, <3>1 DEF Owns, Held, EntriesOf, HasCur
  <2>10. \A e \in Known(l) : Genuine(e)
    BY <2>7 DEF IInv, KnownInv
  <2> QED
    BY <1>1, <1>5, <2>4, <2>5, <2>6, <2>7, <2>8, <2>9, <2>10, Quiet, FlagsKept
<1> QED
  BY <1>3, <1>6, <1>7

\* A step of a host that undoes what it holds.
LEMMA RollbackStep ==
    ASSUME IInv, TablesOK', NEW p \in Hosts, loc[p].pc \notin {"off", "dead"},
           NEW l \in Local, Goto(p, l), l.mode = "rollback", l.pc \in {"restore", "undo"},
           l.pc = "undo" => l.cur \in Snap,
           Known(l) \subseteq Known(loc[p]),
           \A e \in Held(l) \cup Current(l) : e.owner = p,
           UNCHANGED <<flag, journal, owned>>,
           \A q \in Procs \ {p} : port = q => port' = q
    PROVE  IInv'
<1>1. p \in Procs /\ p # Launcher
  BY PolicyAssumption DEF Procs
<1>2. Fits(l) /\ Finishes(l)
  BY DEF Fits, HasCur, Finishes
<1>3. Owns(p, l)'
  BY <1>1 DEF Owns, Held, EntriesOf, HasCur, Current
<1>4. \A e \in Known(l) : Genuine(e)
  BY <1>1 DEF IInv, KnownInv
<1> QED
  BY <1>1, <1>2, <1>3, <1>4, Quiet, FlagsKept

\* A step of a host that serves or captures with what it has.
LEMMA ServeStep ==
    ASSUME IInv, TablesOK', NEW p \in Procs, loc[p].mode \in {"serve", "capture"},
           NEW l \in Local, Goto(p, l), l.mode \in {"serve", "capture"},
           l.pc \notin {"undo", "forget"}, l.snaps = loc[p].snaps, Fits(l),
           Held(l) = Held(loc[p]), HasCur(l) => l.cur.entry.owner = p,
           l.mode = "capture" \/ l.pc = "serving" => port' = p,
           \A q \in Procs \ {p} : port = q => port' = q,
           \A e \in Known(l) : Genuine(e), Finishes(l), journal' = journal,
           \A f \in Families : /\ UserFlag(f)' <=> UserFlag(f)
                               /\ owned'[f] => flag'[f]
                               /\ owned'[f] => owned[f] \/ \E e \in Entries(f) : ~Forgetting(e)
    PROVE  IInv'
<1>1. ProcInv(p)
  BY DEF IInv
<1>2. loc[p].pc # "dead" /\ l.pc \notin {"off", "dead"} /\ p # Launcher
  BY <1>1 DEF ProcInv, Fits, Owns
<1>3. EntriesOf(l.snaps) \subseteq journal /\ \A e \in Held(l) : e.owner = p
  BY <1>1 DEF ProcInv, Owns
<1>4. Owns(p, l)'
  BY <1>2, <1>3 DEF Owns, Held, EntriesOf, HasCur
<1> QED
  BY <1>2, <1>4, Quiet

\* rollback_suffix() turns to the next snapshot.
LEMMA RestoreSnapshotKeeps == ASSUME IInv, NEW p \in Hosts, RestoreSnapshot(p) PROVE IInv'
<1>1. /\ p \in Procs /\ loc[p] \in Local /\ Fits(loc[p]) /\ Owns(p, loc[p]) /\ TablesOK
      /\ loc[p].pc = "restore" /\ loc[p].mode = "rollback" /\ ~HasCur(loc[p]) /\ Len(loc[p].work) > 0
      /\ UNCHANGED <<osvars, flag, routes, journal, port, owned, removed, left>>
  BY DEF IInv, TypeOK, ProcInv, RestoreSnapshot, Procs, Fits, HasCur
<1>2. loc[p].work \in Seq(Snap) /\ loc[p].keep \in Seq(Snap)
  BY <1>1 DEF Local
<1>3. PICK w \in Seq(Snap) : w = SubSeq(loc[p].work, 1, Len(loc[p].work) - 1)
  BY <1>1, <1>2, LastSnap
<1>4. PICK s \in Snap : s = loc[p].work[Len(loc[p].work)]
  BY <1>1, <1>2, LastSnap
<1>5. EntriesOf(loc[p].work) = EntriesOf(w) \cup {s.entry}
  BY <1>1, <1>2, <1>3, <1>4, LastSnap
<1>6. PICK a : a = [loc[p] EXCEPT !.work = w]
  OBVIOUS
<1>7. a \in Local
  BY <1>1, <1>6, LocalEdits, Zenon
<1>8. /\ a.pc = "restore" /\ a.mode = "rollback" /\ a.queue = loc[p].queue /\ a.snaps = loc[p].snaps
      /\ a.work = w /\ a.keep = loc[p].keep
  BY <1>1, <1>6, <1>7 DEF Local
<1>9. TablesOK'
  BY <1>1 DEF TablesOK, osvars
<1>10. \/ Goto(p, UndoPlan(a, s))
       \/ Goto(p, [a EXCEPT !.keep = <<s>> \o a.keep])
  BY <1>3, <1>4, <1>6 DEF RestoreSnapshot
<1>11. CASE Goto(p, UndoPlan(a, s))
  <2>1. PICK l \in Local : l = UndoPlan(a, s)
    BY <1>7, PlanLocal
  <2>2. /\ l.pc = "undo" /\ l.mode = "rollback" /\ l.cur = s /\ l.queue = loc[p].queue
        /\ l.snaps = loc[p].snaps /\ l.work = w /\ l.keep = loc[p].keep
    BY <1>7, <1>8, <2>1, PlanLocal
  <2>3. Held(l) \cup Current(l) = Held(loc[p])
    BY <1>5, <2>2 DEF Held, Current, HasCur
  <2>4. Known(l) \subseteq Known(loc[p])
    BY <2>2, <2>3 DEF Known
  <2>5. \A e \in Held(l) \cup Current(l) : e.owner = p
    BY <1>1, <2>3 DEF Owns
  <2> QED
    BY <1>1, <1>9, <1>11, <2>1, <2>2, <2>4, <2>5, RollbackStep
<1>12. CASE Goto(p, [a EXCEPT !.keep = <<s>> \o a.keep])
  <2>1. PICK k \in Seq(Snap) : k = <<s>> \o a.keep
    BY <1>2, <1>8, PushSnap
  <2>2. EntriesOf(k) = EntriesOf(loc[p].keep) \cup {s.entry}
    BY <1>2, <1>8, <2>1, PushSnap
  <2>3. PICK l : l = [a EXCEPT !.keep = k]
    OBVIOUS
  <2>4. l \in Local
    BY <1>7, <2>3, LocalEdits, Zenon
  <2>5. /\ l.pc = "restore" /\ l.mode = "rollback" /\ l.queue = loc[p].queue
        /\ l.snaps = loc[p].snaps /\ l.work = w /\ l.keep = k
    BY <1>7, <1>8, <2>3 DEF Local
  <2>6. Held(l) = Held(loc[p]) /\ Current(l) = {}
    BY <1>5, <2>2, <2>5 DEF Held, Current, HasCur
  <2>7. Known(l) \subseteq Known(loc[p])
    BY <2>5, <2>6 DEF Known
  <2>8. \A e \in Held(l) \cup Current(l) : e.owner = p
    BY <1>1, <2>6 DEF Owns
  <2>9. Goto(p, l)
    BY <1>12, <2>1, <2>3
  <2> QED
    BY <1>1, <1>9, <2>4, <2>5, <2>7, <2>8, <2>9, RollbackStep
<1> QED
  BY <1>10, <1>11, <1>12

\* The end of a pass over the snapshots.
LEMMA RollbackEndsKeeps == ASSUME IInv, NEW p \in Hosts, RollbackEnds(p) PROVE IInv'
<1>1. /\ p \in Procs /\ loc[p] \in Local /\ Fits(loc[p]) /\ Owns(p, loc[p]) /\ TablesOK
      /\ loc[p].pc = "restore" /\ loc[p].mode = "rollback" /\ loc[p].work = <<>>
      /\ UNCHANGED <<osvars, flag, routes, journal, owned, removed, left>>
      /\ port' = IF port = p THEN NoProc ELSE port
  BY DEF IInv, TypeOK, ProcInv, RollbackEnds, Procs, Fits
<1>2. TablesOK' /\ \A q \in Procs \ {p} : port = q => port' = q
  BY <1>1 DEF TablesOK, osvars
<1>3. CASE Exit(p)
  BY <1>1, <1>2, <1>3, ExitKeeps
<1>4. CASE Goto(p, [loc[p] EXCEPT !.again = FALSE, !.work = loc[p].snaps \o loc[p].keep,
                                  !.snaps = <<>>, !.keep = <<>>])
  <2>1. loc[p].snaps \in Seq(Snap) /\ loc[p].keep \in Seq(Snap)
    BY <1>1 DEF Local
  <2>2. PICK w \in Seq(Snap) : w = loc[p].snaps \o loc[p].keep
    BY <2>1, JoinSnaps
  <2>3. /\ EntriesOf(w) = EntriesOf(loc[p].snaps) \cup EntriesOf(loc[p].keep)
        /\ EntriesOf(<<>>) = {}
    BY <2>1, <2>2, JoinSnaps, SnapEntries
  <2>4. PICK none \in Seq(Snap) : none = <<>>
    <3>1. <<>> \in Seq(Snap)
      OBVIOUS
    <3> QED
      BY <3>1
  <2>5. PICK no \in BOOLEAN : no = FALSE
    OBVIOUS
  <2>6. PICK a : a = [loc[p] EXCEPT !.again = no]
    OBVIOUS
  <2>7. PICK b : b = [a EXCEPT !.work = w]
    OBVIOUS
  <2>8. PICK c : c = [b EXCEPT !.snaps = none]
    OBVIOUS
  <2>9. PICK l : l = [c EXCEPT !.keep = none]
    OBVIOUS
  <2>10. a \in Local
    BY <1>1, <2>6, LocalEdits, Zenon
  <2>11. b \in Local
    BY <2>7, <2>10, LocalEdits, Zenon
  <2>12. c \in Local
    BY <2>8, <2>11, LocalEdits, Zenon
  <2>13. l \in Local
    BY <2>9, <2>12, LocalEdits, Zenon
  <2>14. Goto(p, l)
    BY <1>4, <2>2, <2>4, <2>5, <2>6, <2>7, <2>8, <2>9
  <2>15. /\ l.pc = "restore" /\ l.mode = "rollback" /\ l.queue = loc[p].queue
         /\ l.snaps = <<>> /\ l.work = w /\ l.keep = <<>>
    <3>1. a.pc = "restore" /\ a.mode = "rollback" /\ a.queue = loc[p].queue
      BY <1>1, <2>6 DEF Local
    <3>2. b.pc = "restore" /\ b.mode = "rollback" /\ b.queue = loc[p].queue /\ b.work = w
      BY <2>7, <2>10, <3>1 DEF Local
    <3>3. /\ c.pc = "restore" /\ c.mode = "rollback" /\ c.queue = loc[p].queue /\ c.work = w
          /\ c.snaps = none
      BY <2>8, <2>11, <3>2 DEF Local
    <3> QED
      BY <2>4, <2>9, <2>12, <3>3 DEF Local
  <2>16. Held(l) \subseteq Held(loc[p]) /\ Current(l) = {}
    BY <2>3, <2>15 DEF Held, Current, HasCur
  <2>17. Known(l) \subseteq Known(loc[p])
    BY <2>15, <2>16 DEF Known
  <2>18. \A e \in Held(l) \cup Current(l) : e.owner = p
    BY <1>1, <2>16 DEF Owns
  <2> QED
    BY <1>1, <1>2, <2>13, <2>14, <2>15, <2>17, <2>18, RollbackStep
<1> QED
  BY <1>3, <1>4 DEF RollbackEnds

\* A host is told to stop.
LEMMA StopKeeps == ASSUME IInv, NEW p \in Hosts, Stop(p) PROVE IInv'
<1>1. /\ p \in Procs /\ loc[p] \in Local /\ Fits(loc[p]) /\ Owns(p, loc[p]) /\ TablesOK
      /\ loc[p].pc \in {"loop", "listen"}
      /\ UNCHANGED <<osvars, flag, routes, journal, port, owned, removed, left>>
  BY DEF IInv, TypeOK, ProcInv, Stop, Procs
<1>2. TablesOK'
  BY <1>1 DEF TablesOK, osvars
<1>3. PICK again \in BOOLEAN : Goto(p, Rollback(loc[p], 0, again))
  BY DEF Stop
<1>4. 0 \in 0 .. Len(loc[p].snaps)
  BY <1>1 DEF Local
<1>5. PICK l \in Local : l = Rollback(loc[p], 0, again)
  BY <1>1, <1>4, RollbackLocal
<1>6. /\ l.pc = "restore" /\ l.mode = "rollback" /\ l.queue = loc[p].queue
      /\ Held(l) = EntriesOf(loc[p].snaps)
  BY <1>1, <1>4, <1>5, RollbackLocal
<1>7. Current(l) = {} /\ Held(l) \subseteq Held(loc[p])
  BY <1>6 DEF Current, HasCur, Held
<1>8. Known(l) \subseteq Known(loc[p]) /\ \A e \in Held(l) \cup Current(l) : e.owner = p
  BY <1>1, <1>6, <1>7 DEF Known, Owns
<1> QED
  BY <1>1, <1>2, <1>3, <1>5, <1>6, <1>8, RollbackStep

\* Errors and ends: an unconfirmed gateway, a failing call, a death.
LEMMA FailuresKeep ==
    ASSUME IInv, NEW p \in Procs, UndoUnconfirmed(p) \/ CallFails(p) \/ Crash(p)
    PROVE  IInv'
<1>1. loc[p] \in Local /\ Fits(loc[p]) /\ TablesOK
  BY DEF IInv, TypeOK, ProcInv
<1>2. CASE UndoUnconfirmed(p)
  <2>1. TablesOK' /\ loc[p].pc = "undo" /\ Fail(p) /\ UNCHANGED <<flag, journal, port, owned>>
    BY <1>1, <1>2 DEF UndoUnconfirmed, TablesOK, osvars
  <2> QED
    BY <2>1, FailKeeps, FlagsKept DEF HasCur
<1>3. ASSUME NEW what \in {"env", "fail"}, Spend(what) PROVE left' \in [env : Nat, fail : Nat]
  BY <1>1, <1>3 DEF TablesOK, Spend
<1>4. CASE CallFails(p)
  <2>1. TablesOK' /\ Fail(p) /\ UNCHANGED <<flag, journal, port, owned>>
    BY <1>1, <1>3, <1>4 DEF CallFails, TablesOK, osvars
  <2>2. loc[p].pc \in {"undo", "forget", "apply", "delete", "persist", "loop", "verify", "recover"}
    BY <1>4 DEF CallFails
  <2>3. loc[p].pc \notin {"off", "dead"} /\ (loc[p].mode = "rollback" => HasCur(loc[p]))
    BY <1>1, <2>2 DEF Fits, HasCur
  <2> QED
    BY <2>1, <2>3, FailKeeps, FlagsKept
<1>5. CASE Crash(p)
  <2>1. TablesOK' /\ Exit(p) /\ UNCHANGED <<flag, journal, owned>> /\ loc[p].pc # "dead"
        /\ \A q \in Procs \ {p} : port = q => port' = q
    BY <1>1, <1>3, <1>5 DEF Crash, TablesOK, osvars, ProcessOwnerIsRunning
  <2> QED
    BY <2>1, ExitKeeps
<1> QED
  BY <1>2, <1>4, <1>5

\* A process starts, and reads the journal.
LEMMA PersistedPoliciesKeeps == ASSUME IInv, NEW p \in Procs, PersistedPolicies(p) PROVE IInv'
<1>1. /\ loc[p] \in Local /\ Fits(loc[p]) /\ Owns(p, loc[p]) /\ TablesOK
      /\ loc[p].pc = "off" /\ loc[p].mode = "start"
      /\ UNCHANGED <<osvars, flag, routes, journal, port, owned, removed, left>>
  BY DEF IInv, TypeOK, ProcInv, PersistedPolicies, Fits
<1>2. TablesOK'
  BY <1>1 DEF TablesOK, osvars
<1>3. PICK twice \in BOOLEAN : twice = (p # Launcher)
  OBVIOUS
<1>4. PICK known \in SUBSET Entry : known = journal
  BY <1>1 DEF TablesOK
<1>5. PICK none \in SUBSET {"Deferred", "OwnerStillRunning"} : none = {}
  OBVIOUS
<1>6. PICK a : a = [loc[p] EXCEPT !.pc = "recover"]
  OBVIOUS
<1>7. PICK b : b = [a EXCEPT !.mode = "start"]
  OBVIOUS
<1>8. PICK c : c = [b EXCEPT !.again = twice]
  OBVIOUS
<1>9. PICK d : d = [c EXCEPT !.bad = none]
  OBVIOUS
<1>10. PICK l : l = [d EXCEPT !.queue = known]
  OBVIOUS
<1>11. a \in Local
  <2>1. "recover" \in Steps
    BY DEF Steps
  <2> QED
    BY <1>1, <1>6, <2>1, LocalEdits, Zenon
<1>12. b \in Local
  BY <1>7, <1>11, LocalEdits
<1>13. c \in Local
  BY <1>8, <1>12, LocalEdits, Zenon
<1>14. d \in Local
  BY <1>9, <1>13, LocalEdits, Zenon
<1>15. l \in Local
  BY <1>10, <1>14, LocalEdits, Zenon
<1>16. Goto(p, l)
  BY <1>3, <1>4, <1>5, <1>6, <1>7, <1>8, <1>9, <1>10 DEF PersistedPolicies
<1>17. /\ l.pc = "recover" /\ l.mode = "start" /\ l.queue = journal
       /\ l.snaps = <<>> /\ l.work = <<>> /\ l.keep = <<>>
  <2>1. a.pc = "recover" /\ a.snaps = <<>> /\ a.work = <<>> /\ a.keep = <<>>
    BY <1>1, <1>6 DEF Local, Fits
  <2>2. b.pc = "recover" /\ b.mode = "start" /\ b.snaps = <<>> /\ b.work = <<>> /\ b.keep = <<>>
    BY <1>7, <1>11, <2>1 DEF Local
  <2>3. d.pc = "recover" /\ d.mode = "start" /\ d.snaps = <<>> /\ d.work = <<>> /\ d.keep = <<>>
    BY <1>8, <1>9, <1>12, <1>13, <2>2 DEF Local
  <2> QED
    BY <1>4, <1>10, <1>14, <2>3 DEF Local
<1>18. Fits(l) /\ Finishes(l) /\ Current(l) = {}
  BY <1>17 DEF Fits, HasCur, Finishes, Current
<1>19. Held(l) = {}
  BY <1>17, <1>1, SnapEntries DEF Held, Local
<1>20. Owns(p, l)'
  BY <1>17, <1>19 DEF Owns, HasCur, Held, EntriesOf
<1>21. \A e \in Known(l) : Genuine(e)
  BY <1>17, <1>18, <1>19 DEF Known, IInv, KnownInv
<1> QED
  BY <1>1, <1>2, <1>15, <1>16, <1>17, <1>18, <1>20, <1>21, Quiet, FlagsKept

\* recover_policy() on one entry: deferred, refused, or planned.
LEMMA RecoverPolicyKeeps == ASSUME IInv, NEW p \in Procs, RecoverPolicy(p) PROVE IInv'
<1>1. /\ loc[p] \in Local /\ Fits(loc[p]) /\ Owns(p, loc[p]) /\ Finishes(loc[p]) /\ TablesOK
      /\ loc[p].pc = "recover" /\ loc[p].mode \in {"start", "capture"}
      /\ UNCHANGED <<osvars, flag, routes, journal, port, owned, removed, left>>
  BY DEF IInv, TypeOK, ProcInv, RecoverPolicy, Fits
<1>2. TablesOK'
  BY <1>1 DEF TablesOK, osvars
<1>3. PICK e \in loc[p].queue :
        \/ Goto(p, [[loc[p] EXCEPT !.queue = loc[p].queue \ {e}]
                     EXCEPT !.bad = [loc[p] EXCEPT !.queue = loc[p].queue \ {e}].bad \cup {"Deferred"}])
        \/ Goto(p, [[loc[p] EXCEPT !.queue = loc[p].queue \ {e}]
                     EXCEPT !.bad = [loc[p] EXCEPT !.queue = loc[p].queue \ {e}].bad
                                      \cup {"OwnerStillRunning"}])
        \/ /\ ~ProcessOwnerIsRunning(e.owner)
           /\ Goto(p, UndoPlan([loc[p] EXCEPT !.queue = loc[p].queue \ {e}],
                               [entry |-> e, mac |-> mac]))
  BY DEF RecoverPolicy
<1>4. PICK rest \in SUBSET Entry : rest = loc[p].queue \ {e}
  BY <1>1 DEF Local
<1>5. e \in Entry /\ e \in Known(loc[p]) /\ rest \subseteq Known(loc[p]) /\ Genuine(e)
  BY <1>1, <1>3, <1>4 DEF Local, Known, IInv, KnownInv
<1>6. PICK a : a = [loc[p] EXCEPT !.queue = rest]
  OBVIOUS
<1>7. a \in Local
  BY <1>1, <1>6, LocalEdits, Zenon
<1>8. /\ a.pc = "recover" /\ a.mode = loc[p].mode /\ a.queue = rest /\ a.snaps = loc[p].snaps
      /\ a.work = loc[p].work /\ a.keep = loc[p].keep /\ a.bad = loc[p].bad
      /\ a.txn = loc[p].txn /\ a.fi = loc[p].fi
  BY <1>1, <1>6 DEF Local
<1>9. ASSUME NEW why \in {"Deferred", "OwnerStillRunning"}, Goto(p, [a EXCEPT !.bad = a.bad \cup {why}])
      PROVE  IInv'
  <2>1. PICK worse \in SUBSET {"Deferred", "OwnerStillRunning"} : worse = a.bad \cup {why}
    BY <1>7 DEF Local
  <2>2. PICK l : l = [a EXCEPT !.bad = worse]
    OBVIOUS
  <2>3. l \in Local
    BY <1>7, <2>2, LocalEdits, Zenon
  <2>4. /\ l.pc = "recover" /\ l.mode = loc[p].mode /\ l.queue = rest /\ l.snaps = loc[p].snaps
        /\ l.work = loc[p].work /\ l.keep = loc[p].keep /\ l.bad # {}
        /\ l.txn = loc[p].txn /\ l.fi = loc[p].fi
    BY <1>7, <1>8, <2>1, <2>2 DEF Local
  <2>5. Held(l) = Held(loc[p]) /\ Current(l) = {} /\ ~HasCur(l) /\ Fits(l) /\ Finishes(l)
    BY <1>1, <2>4 DEF Held, Current, HasCur, Fits, Finishes
  <2>6. \A x \in Known(l) : Genuine(x)
    BY <1>5, <2>4, <2>5 DEF Known, IInv, KnownInv
  <2>7. Owns(p, l)'
    BY <1>1, <2>4, <2>5 DEF Owns, HasCur, Held, EntriesOf
  <2>8. Goto(p, l)
    BY <1>9, <2>1, <2>2
  <2> QED
    BY <1>1, <1>2, <2>3, <2>4, <2>5, <2>6, <2>7, <2>8, Quiet, FlagsKept
<1>10. ASSUME ~ProcessOwnerIsRunning(e.owner), Goto(p, UndoPlan(a, [entry |-> e, mac |-> mac]))
       PROVE  IInv'
  <2>1. PICK s \in Snap : s = [entry |-> e, mac |-> mac]
    BY <1>1, <1>5 DEF Snap, TablesOK
  <2>2. s.entry = e
    BY <2>1
  <2>3. PICK l \in Local : l = UndoPlan(a, s)
    BY <1>7, PlanLocal
  <2>4. /\ l.pc = "undo" /\ l.cur = s /\ l.mode = loc[p].mode /\ l.queue = rest
        /\ l.snaps = loc[p].snaps /\ l.work = loc[p].work /\ l.keep = loc[p].keep
        /\ l.bad = loc[p].bad /\ l.txn = loc[p].txn /\ l.fi = loc[p].fi
    BY <1>7, <1>8, <2>3, PlanLocal
  <2>5. Held(l) = Held(loc[p]) /\ Current(l) = {e} /\ HasCur(l) /\ Fits(l)
    BY <1>1, <2>2, <2>4 DEF Held, Current, HasCur, Fits
  <2>6. Finishes(l)
    BY <1>1, <1>4, <2>4, <2>5 DEF Finishes, Current, HasCur
  <2>7. \A x \in Known(l) : Genuine(x)
    BY <1>5, <2>4, <2>5 DEF Known, IInv, KnownInv
  <2>8. loc[e.owner].pc = "dead" /\ e.owner \in Procs /\ e.owner # p
    BY <1>1, <1>5, <1>10 DEF ProcessOwnerIsRunning, Genuine, Entry, Procs
  <2>9. Goto(p, l)
    BY <1>10, <2>1, <2>3
  <2>10. loc'[e.owner].pc = "dead"
    BY <2>8, <2>9 DEF Goto, IInv, TypeOK
  <2>11. Owns(p, l)'
    BY <1>1, <2>2, <2>4, <2>5, <2>10 DEF Owns, HasCur, Held, EntriesOf
  <2> QED
    BY <1>1, <1>2, <2>4, <2>5, <2>6, <2>7, <2>9, <2>11, Quiet, FlagsKept
<1> QED
  BY <1>3, <1>4, <1>6, <1>9, <1>10

\* What recover_orphaned_policy() reports decides what comes next.
LEMMA RecoveryOutcomeKeeps == ASSUME IInv, NEW p \in Procs, RecoveryOutcome(p) PROVE IInv'
<1>1. /\ loc[p] \in Local /\ Fits(loc[p]) /\ Owns(p, loc[p]) /\ Finishes(loc[p]) /\ TablesOK
      /\ loc[p].pc = "recover" /\ loc[p].mode \in {"start", "capture"} /\ loc[p].queue = {}
      /\ UNCHANGED <<osvars, flag, routes, journal, port, owned, removed, left>>
  BY DEF IInv, TypeOK, ProcInv, RecoveryOutcome, Fits
<1>2. TablesOK'
  BY <1>1 DEF TablesOK, osvars
<1>3. ~HasCur(loc[p]) /\ Known(loc[p]) = Held(loc[p]) /\ Held(loc[p]) \subseteq Known(loc[p])
  BY <1>1 DEF HasCur, Known, Current
<1>4. CASE Exit(p)
  BY <1>1, <1>2, <1>4, ExitKeeps
<1>5. CASE Fail(p)
  BY <1>1, <1>2, <1>5, FailKeeps, FlagsKept
<1>6. CASE loc[p].mode = "start" /\ Goto(p, [loc[p] EXCEPT !.again = FALSE, !.bad = {}, !.queue = journal])
  <2>1. PICK no \in BOOLEAN : no = FALSE
    OBVIOUS
  <2>2. PICK none \in SUBSET {"Deferred", "OwnerStillRunning"} : none = {}
    OBVIOUS
  <2>3. PICK known \in SUBSET Entry : known = journal
    BY <1>1 DEF TablesOK
  <2>4. PICK a : a = [loc[p] EXCEPT !.again = no]
    OBVIOUS
  <2>5. PICK b : b = [a EXCEPT !.bad = none]
    OBVIOUS
  <2>6. PICK l : l = [b EXCEPT !.queue = known]
    OBVIOUS
  <2>7. a \in Local
    BY <1>1, <2>4, LocalEdits, Zenon
  <2>8. b \in Local
    BY <2>5, <2>7, LocalEdits, Zenon
  <2>9. l \in Local
    BY <2>6, <2>8, LocalEdits, Zenon
  <2>10. Goto(p, l)
    BY <1>6, <2>1, <2>2, <2>3, <2>4, <2>5, <2>6
  <2>11. /\ l.pc = "recover" /\ l.mode = "start" /\ l.queue = journal
         /\ l.snaps = loc[p].snaps /\ l.work = loc[p].work /\ l.keep = loc[p].keep
    BY <1>1, <1>6, <2>3, <2>4, <2>5, <2>6, <2>7, <2>8 DEF Local
  <2>12. Fits(l) /\ Finishes(l) /\ Current(l) = {} /\ Held(l) = Held(loc[p])
    BY <1>1, <1>6, <2>11 DEF Fits, HasCur, Finishes, Current, Held
  <2>13. Owns(p, l)'
    BY <1>1, <1>6, <2>11, <2>12 DEF Owns, HasCur, Held, EntriesOf
  <2>14. \A e \in Known(l) : Genuine(e)
    BY <1>3, <2>11, <2>12 DEF Known, IInv, KnownInv
  <2> QED
    BY <1>1, <1>2, <2>9, <2>10, <2>11, <2>12, <2>13, <2>14, Quiet, FlagsKept
<1>7. CASE /\ loc[p].mode = "start" /\ p # Launcher
           /\ Goto(p, [loc[p] EXCEPT !.pc = "loop", !.mode = "serve"])
  <2>1. PICK a : a = [loc[p] EXCEPT !.pc = "loop"]
    OBVIOUS
  <2>2. PICK l : l = [a EXCEPT !.mode = "serve"]
    OBVIOUS
  <2>3. a \in Local
    <3>1. "loop" \in Steps
      BY DEF Steps
    <3> QED
      BY <1>1, <2>1, <3>1, LocalEdits, Zenon
  <2>4. l \in Local
    BY <2>2, <2>3, LocalEdits
  <2>5. Goto(p, l)
    BY <1>7, <2>1, <2>2
  <2>6. /\ l.pc = "loop" /\ l.mode = "serve" /\ l.queue = {}
        /\ l.snaps = loc[p].snaps /\ l.work = loc[p].work /\ l.keep = loc[p].keep
    BY <1>1, <2>1, <2>2, <2>3 DEF Local
  <2>7. Fits(l) /\ Finishes(l) /\ Current(l) = {} /\ Held(l) = Held(loc[p])
    BY <2>6 DEF Fits, HasCur, Finishes, Current, Held
  <2>8. EntriesOf(l.snaps) = {}
    BY <1>1, <1>7, <2>6, SnapEntries DEF Fits, Local
  <2>9. Owns(p, l)'
    BY <1>1, <1>7, <2>6, <2>7, <2>8 DEF Owns, HasCur, Held, EntriesOf
  <2>10. \A e \in Known(l) : Genuine(e)
    BY <1>3, <2>6, <2>7 DEF Known, IInv, KnownInv
  <2> QED
    BY <1>1, <1>2, <2>4, <2>5, <2>6, <2>7, <2>9, <2>10, Quiet, FlagsKept
<1>8. CASE loc[p].mode = "capture" /\ loc[p].bad = {} /\ Goto(p, [loc[p] EXCEPT !.pc = "capture"])
  <2>1. PICK l : l = [loc[p] EXCEPT !.pc = "capture"]
    OBVIOUS
  <2>2. l \in Local
    <3>1. "capture" \in Steps
      BY DEF Steps
    <3> QED
      BY <1>1, <2>1, <3>1, LocalEdits, Zenon
  <2>3. /\ l.pc = "capture" /\ l.mode = "capture" /\ l.queue = {} /\ l.snaps = loc[p].snaps
        /\ l.work = loc[p].work /\ l.keep = loc[p].keep /\ l.txn = loc[p].txn /\ l.fi = loc[p].fi
    BY <1>1, <1>8, <2>1 DEF Local
  <2>4. Fits(l) /\ Current(l) = {} /\ Held(l) = Held(loc[p]) /\ ~HasCur(l)
    BY <1>1, <1>8, <2>3 DEF Fits, HasCur, Current, Held
  <2>5. Entries(FamilyOrder[l.fi]) = {}
    BY <1>1, <1>3, <1>8, <2>3 DEF Finishes, Current
  <2>6. Finishes(l)
    BY <2>3, <2>5 DEF Finishes
  <2>7. \A e \in Known(l) : Genuine(e)
    BY <1>3, <2>3, <2>4 DEF Known, IInv, KnownInv
  <2>8. Goto(p, l) /\ port' = p
    BY <1>1, <1>8, <2>1 DEF Owns
  <2> QED
    BY <1>1, <1>2, <1>8, <2>2, <2>3, <2>4, <2>6, <2>7, <2>8, ServeStep, FlagsKept
<1> QED
  BY <1>4, <1>5, <1>6, <1>7, <1>8 DEF RecoveryOutcome

\* Moving on to another step and nothing else.
LEMMA PcMove ==
    ASSUME NEW a \in Local, NEW x \in Steps
    PROVE  \E l \in Local :
             /\ l = [a EXCEPT !.pc = x]
             /\ l.pc = x /\ l.mode = a.mode /\ l.again = a.again /\ l.bad = a.bad /\ l.queue = a.queue
             /\ l.snaps = a.snaps /\ l.work = a.work /\ l.keep = a.keep /\ l.txn = a.txn
             /\ l.fi = a.fi /\ l.cur = a.cur /\ l.avail = a.avail /\ l.unconf = a.unconf
             /\ l.made = a.made /\ Held(l) = Held(a)
<1>1. PICK l : l = [a EXCEPT !.pc = x]
  OBVIOUS
<1>2. l \in Local
  BY <1>1, LocalEdits, Zenon
<1>3. /\ l.pc = x /\ l.mode = a.mode /\ l.again = a.again /\ l.bad = a.bad /\ l.queue = a.queue
      /\ l.snaps = a.snaps /\ l.work = a.work /\ l.keep = a.keep /\ l.txn = a.txn
      /\ l.fi = a.fi /\ l.cur = a.cur /\ l.avail = a.avail /\ l.unconf = a.unconf
      /\ l.made = a.made
  BY <1>1 DEF Local
<1>4. Held(l) = Held(a)
  BY <1>3 DEF Held
<1> QED
  BY <1>1, <1>2, <1>3, <1>4

\* verify_enforced_snapshot() sets flags of families that are in the journal.
LEMMA VerifyFlags ==
    ASSUME IInv, NEW p \in Procs, loc[p].pc \notin {"dead", "forget"}, NEW S \in Seq(Snap),
           EntriesOf(S) \subseteq journal, \A e \in EntriesOf(S) : e.owner = p, VerifyEnforced(S)
    PROVE  /\ flag' \in [Families -> BOOLEAN] /\ owned' \in [Families -> BOOLEAN]
           /\ \A f \in Families : /\ UserFlag(f)' <=> UserFlag(f)
                                  /\ owned'[f] => flag'[f]
                                  /\ owned'[f] => owned[f] \/ \E e \in Entries(f) : ~Forgetting(e)
<1>1. flag \in [Families -> BOOLEAN] /\ owned \in [Families -> BOOLEAN] /\ KnownInv
  BY DEF IInv, TypeOK, TablesOK
<1>2. /\ flag' = [f \in Families |-> flag[f] \/ f \in Touched(S)]
      /\ owned' = [f \in Families |-> owned[f] \/ (f \in Touched(S) /\ ~flag[f])]
  BY DEF VerifyEnforced
<1>3. flag' \in [Families -> BOOLEAN] /\ owned' \in [Families -> BOOLEAN]
  BY <1>2, Zenon
<1>4. ASSUME NEW f \in Families
      PROVE  /\ flag'[f] <=> flag[f] \/ f \in Touched(S)
             /\ owned'[f] <=> owned[f] \/ (f \in Touched(S) /\ ~flag[f])
  BY <1>2, Zenon
<1>5. ASSUME NEW f \in Touched(S) PROVE \E e \in Entries(f) : ~Forgetting(e)
  <2>1. PICK k \in DOMAIN S : f = S[k].entry.family
    BY <1>5 DEF Touched, SnapFamily
  <2>2. S[k].entry \in EntriesOf(S)
    BY <2>1 DEF EntriesOf
  <2>3. S[k].entry \in Entries(f) /\ S[k].entry.owner = p
    BY <2>1, <2>2 DEF Entries
  <2> QED
    BY <2>3, NotForgotten
<1>6. ASSUME NEW f \in Families
      PROVE  /\ UserFlag(f)' <=> UserFlag(f)
             /\ owned'[f] => flag'[f]
             /\ owned'[f] => owned[f] \/ \E e \in Entries(f) : ~Forgetting(e)
  <2>1. owned[f] => flag[f]
    BY <1>1 DEF KnownInv
  <2>2. UserFlag(f)' <=> flag'[f] /\ ~owned'[f]
    BY DEF UserFlag
  <2>3. UserFlag(f) <=> flag[f] /\ ~owned[f]
    BY DEF UserFlag
  <2> QED
    BY <1>4, <1>5, <2>1, <2>2, <2>3, Zenon
<1> QED
  BY <1>3, <1>6

\* refresh() before the host listens again.
LEMMA RefreshKeeps == ASSUME IInv, NEW p \in Procs, Refresh(p) PROVE IInv'
<1>1. /\ loc[p] \in Local /\ Fits(loc[p]) /\ Owns(p, loc[p]) /\ TablesOK
      /\ loc[p].pc = "loop" /\ loc[p].mode = "serve" /\ loc[p].snaps \in Seq(Snap)
      /\ UNCHANGED <<osvars, routes, journal, port, removed, left>>
  BY DEF IInv, TypeOK, ProcInv, Refresh, Fits, Local
<1>2. EntriesOf(loc[p].snaps) \subseteq journal /\ \A e \in EntriesOf(loc[p].snaps) : e.owner = p
  BY <1>1 DEF Owns, Held
<1>3. VerifyEnforced(loc[p].snaps) \/ UNCHANGED <<flag, owned>>
  BY DEF Refresh
<1>4. /\ flag' \in [Families -> BOOLEAN] /\ owned' \in [Families -> BOOLEAN]
      /\ \A f \in Families : /\ UserFlag(f)' <=> UserFlag(f)
                             /\ owned'[f] => flag'[f]
                             /\ owned'[f] => owned[f] \/ \E e \in Entries(f) : ~Forgetting(e)
  <2>1. CASE VerifyEnforced(loc[p].snaps)
    BY <1>1, <1>2, <2>1, VerifyFlags
  <2>2. CASE UNCHANGED <<flag, owned>>
    BY <1>1, <2>2, FlagsKept DEF TablesOK
  <2> QED
    BY <1>3, <2>1, <2>2
<1>5. TablesOK'
  BY <1>1, <1>4 DEF TablesOK, osvars
<1>6. CASE Fail(p)
  BY <1>1, <1>4, <1>5, <1>6, FailKeeps
<1>7. CASE Goto(p, [loc[p] EXCEPT !.pc = "listen"])
  <2>1. PICK l \in Local :
          /\ l = [loc[p] EXCEPT !.pc = "listen"]
          /\ l.pc = "listen" /\ l.mode = loc[p].mode /\ l.queue = loc[p].queue
          /\ l.snaps = loc[p].snaps /\ Held(l) = Held(loc[p])
    <3>1. "listen" \in Steps
      BY DEF Steps
    <3> QED
      BY <1>1, <3>1, PcMove
  <2>2. Fits(l) /\ ~HasCur(l) /\ Finishes(l) /\ Known(l) \subseteq Known(loc[p])
    BY <1>1, <2>1 DEF Fits, HasCur, Finishes, Known, Current
  <2>3. \A e \in Known(l) : Genuine(e)
    BY <2>2 DEF IInv, KnownInv
  <2> QED
    BY <1>1, <1>4, <1>5, <1>7, <2>1, <2>2, <2>3, ServeStep
<1> QED
  BY <1>6, <1>7 DEF Refresh

\* protect_interface_inner() on what is protected already.
LEMMA VerifyProtectedKeeps == ASSUME IInv, NEW p \in Procs, VerifyProtected(p) PROVE IInv'
<1>1. /\ loc[p] \in Local /\ Fits(loc[p]) /\ Owns(p, loc[p]) /\ TablesOK
      /\ loc[p].pc = "verify" /\ loc[p].mode = "capture" /\ loc[p].snaps \in Seq(Snap)
      /\ UNCHANGED <<osvars, routes, journal, port, removed, left>>
  BY DEF IInv, TypeOK, ProcInv, VerifyProtected, Fits, Local
<1>2. EntriesOf(loc[p].snaps) \subseteq journal /\ \A e \in EntriesOf(loc[p].snaps) : e.owner = p
  BY <1>1 DEF Owns, Held
<1>3. VerifyEnforced(loc[p].snaps) \/ UNCHANGED <<flag, owned>>
  BY DEF VerifyProtected
<1>4. /\ flag' \in [Families -> BOOLEAN] /\ owned' \in [Families -> BOOLEAN]
      /\ \A f \in Families : /\ UserFlag(f)' <=> UserFlag(f)
                             /\ owned'[f] => flag'[f]
                             /\ owned'[f] => owned[f] \/ \E e \in Entries(f) : ~Forgetting(e)
  <2>1. CASE VerifyEnforced(loc[p].snaps)
    BY <1>1, <1>2, <2>1, VerifyFlags
  <2>2. CASE UNCHANGED <<flag, owned>>
    BY <1>1, <2>2, FlagsKept DEF TablesOK
  <2> QED
    BY <1>3, <2>1, <2>2
<1>5. TablesOK'
  BY <1>1, <1>4 DEF TablesOK, osvars
<1>6. CASE Fail(p)
  BY <1>1, <1>4, <1>5, <1>6, FailKeeps
<1>7. CASE Goto(p, [loc[p] EXCEPT !.pc = "protect"])
  <2>1. PICK l \in Local :
          /\ l = [loc[p] EXCEPT !.pc = "protect"]
          /\ l.pc = "protect" /\ l.mode = loc[p].mode /\ l.queue = loc[p].queue
          /\ l.snaps = loc[p].snaps /\ l.txn = loc[p].txn /\ l.fi = loc[p].fi /\ Held(l) = Held(loc[p])
    <3>1. "protect" \in Steps
      BY DEF Steps
    <3> QED
      BY <1>1, <3>1, PcMove
  <2>2. Fits(l) /\ ~HasCur(l) /\ Finishes(l) /\ Known(l) \subseteq Known(loc[p])
    BY <1>1, <2>1 DEF Fits, HasCur, Finishes, Known, Current
  <2>3. (\A e \in Known(l) : Genuine(e)) /\ port' = p
    BY <1>1, <2>2 DEF IInv, KnownInv, Owns
  <2> QED
    BY <1>1, <1>4, <1>5, <1>7, <2>1, <2>2, <2>3, ServeStep
<1> QED
  BY <1>6, <1>7 DEF VerifyProtected

\* The port is bound, found silent, or given up after serving.
LEMMA PortStepsKeep ==
    ASSUME IInv, NEW p \in Hosts, Accept(p) \/ AcceptTimesOut(p) \/ ServingEnds(p)
    PROVE  IInv'
<1>1. /\ p \in Procs /\ loc[p] \in Local /\ Fits(loc[p]) /\ Owns(p, loc[p]) /\ TablesOK
      /\ loc[p].pc \in {"listen", "serving"} /\ loc[p].mode = "serve"
      /\ loc[p].snaps \in Seq(Snap) /\ Len(loc[p].snaps) \in Nat
      /\ UNCHANGED <<osvars, flag, routes, journal, owned, removed, left>>
  <2>1. loc[p] \in Local /\ Fits(loc[p]) /\ Owns(p, loc[p]) /\ TablesOK /\ p \in Procs
    BY DEF IInv, TypeOK, ProcInv, Procs
  <2>2. loc[p].pc \in {"listen", "serving"}
        /\ UNCHANGED <<osvars, flag, routes, journal, owned, removed, left>>
    BY DEF Accept, AcceptTimesOut, ServingEnds
  <2>3. loc[p].snaps \in Seq(Snap)
    BY <2>1 DEF Local
  <2> QED
    BY <2>1, <2>2, <2>3 DEF Fits
<1>2. CASE Accept(p)
  <2>1. port = NoProc /\ port' = p /\ TablesOK'
    BY <1>1, <1>2 DEF Accept, TablesOK, osvars
  <2>2. PICK m \in Nat : m = mac
    BY <1>1 DEF TablesOK
  <2>3. PICK n \in Nat : n = Len(loc[p].snaps)
    BY <1>1
  <2>4. PICK one \in Nat : one = 1
    OBVIOUS
  <2>5. PICK a : a = [loc[p] EXCEPT !.pc = "verify"]
    OBVIOUS
  <2>6. PICK b : b = [a EXCEPT !.mode = "capture"]
    OBVIOUS
  <2>7. PICK c : c = [b EXCEPT !.bind = m]
    OBVIOUS
  <2>8. PICK d : d = [c EXCEPT !.txn = n]
    OBVIOUS
  <2>9. PICK l : l = [d EXCEPT !.fi = one]
    OBVIOUS
  <2>10. a \in Local
    <3>1. "verify" \in Steps
      BY DEF Steps
    <3> QED
      BY <1>1, <2>5, <3>1, LocalEdits, Zenon
  <2>11. b \in Local
    BY <2>6, <2>10, LocalEdits
  <2>12. c \in Local
    BY <2>7, <2>11, LocalEdits, Zenon
  <2>13. d \in Local
    BY <2>8, <2>12, LocalEdits, Zenon
  <2>14. l \in Local
    BY <2>9, <2>13, LocalEdits, Zenon
  <2>15. Goto(p, l)
    BY <1>2, <2>2, <2>3, <2>4, <2>5, <2>6, <2>7, <2>8, <2>9 DEF Accept
  <2>16. /\ l.pc = "verify" /\ l.mode = "capture" /\ l.queue = loc[p].queue /\ l.snaps = loc[p].snaps
         /\ l.work = loc[p].work /\ l.keep = loc[p].keep /\ l.txn = n /\ l.fi = 1
    <3>1. /\ a.pc = "verify" /\ a.queue = loc[p].queue /\ a.snaps = loc[p].snaps
          /\ a.work = loc[p].work /\ a.keep = loc[p].keep
      BY <1>1, <2>5 DEF Local
    <3>2. /\ b.pc = "verify" /\ b.mode = "capture" /\ b.queue = loc[p].queue
          /\ b.snaps = loc[p].snaps /\ b.work = loc[p].work /\ b.keep = loc[p].keep
      BY <2>6, <2>10, <3>1 DEF Local
    <3>3. /\ c.pc = "verify" /\ c.mode = "capture" /\ c.queue = loc[p].queue
          /\ c.snaps = loc[p].snaps /\ c.work = loc[p].work /\ c.keep = loc[p].keep
      BY <2>7, <2>11, <3>2 DEF Local
    <3>4. /\ d.pc = "verify" /\ d.mode = "capture" /\ d.queue = loc[p].queue
          /\ d.snaps = loc[p].snaps /\ d.work = loc[p].work /\ d.keep = loc[p].keep /\ d.txn = n
      BY <2>8, <2>12, <3>3 DEF Local
    <3> QED
      BY <2>4, <2>9, <2>13, <3>4 DEF Local
  <2>17. Fits(l) /\ ~HasCur(l) /\ Finishes(l) /\ Held(l) = Held(loc[p])
    BY <1>1, <2>3, <2>16 DEF Fits, HasCur, Finishes, Held
  <2>18. \A e \in Known(l) : Genuine(e)
    <3>1. Known(l) \subseteq Known(loc[p])
      BY <2>16, <2>17 DEF Known, Current
    <3> QED
      BY <1>1, <3>1 DEF IInv, KnownInv
  <2>19. \A q \in Procs \ {p} : port = q => port' = q
    BY <2>1, PolicyAssumption DEF Procs
  <2> QED
    BY <1>1, <2>1, <2>14, <2>15, <2>16, <2>17, <2>18, <2>19, ServeStep, FlagsKept
<1>3. CASE AcceptTimesOut(p) \/ ServingEnds(p)
  <2>1. /\ TablesOK' /\ Goto(p, [loc[p] EXCEPT !.pc = "loop"])
        /\ \A q \in Procs \ {p} : port = q => port' = q
    <3>1. CASE AcceptTimesOut(p)
      BY <1>1, <3>1 DEF AcceptTimesOut, TablesOK, osvars
    <3>2. CASE ServingEnds(p)
      BY <1>1, <3>2 DEF ServingEnds, TablesOK, osvars, Owns
    <3> QED
      BY <1>3, <3>1, <3>2
  <2>2. PICK l \in Local :
          /\ l = [loc[p] EXCEPT !.pc = "loop"]
          /\ l.pc = "loop" /\ l.mode = loc[p].mode /\ l.queue = loc[p].queue
          /\ l.snaps = loc[p].snaps /\ Held(l) = Held(loc[p])
    <3>1. "loop" \in Steps
      BY DEF Steps
    <3> QED
      BY <1>1, <3>1, PcMove
  <2>3. Fits(l) /\ ~HasCur(l) /\ Finishes(l) /\ Known(l) \subseteq Known(loc[p])
    BY <1>1, <2>2 DEF Fits, HasCur, Finishes, Known, Current
  <2>4. \A e \in Known(l) : Genuine(e)
    BY <1>1, <2>3 DEF IInv, KnownInv
  <2> QED
    BY <1>1, <2>1, <2>2, <2>3, <2>4, ServeStep, FlagsKept
<1> QED
  BY <1>2, <1>3

\* The next family: protected already, to be recovered first, or none is left.
LEMMA CaptureRecoversKeeps == ASSUME IInv, NEW p \in Procs, CaptureRecovers(p) PROVE IInv'
<1>1. /\ loc[p] \in Local /\ Fits(loc[p]) /\ Owns(p, loc[p]) /\ TablesOK
      /\ loc[p].pc = "protect" /\ loc[p].mode = "capture"
      /\ UNCHANGED <<osvars, flag, routes, journal, port, owned, removed, left>>
  BY DEF IInv, TypeOK, ProcInv, CaptureRecovers, Fits
<1>2. TablesOK' /\ port = p
  BY <1>1 DEF TablesOK, osvars, Owns
<1>3. /\ loc[p].fi \in Nat /\ loc[p].fi > 0 /\ loc[p].fi + 1 \in Nat /\ loc[p].fi + 1 > 0
      /\ Len(FamilyOrder) \in Nat
  BY <1>1, PolicyAssumption DEF Local, Fits
<1>4. \A e \in Held(loc[p]) \cup loc[p].queue \cup journal : Genuine(e)
  BY DEF IInv, KnownInv, Known
<1>5. \/ Goto(p, [loc[p] EXCEPT !.pc = "serving", !.mode = "serve"])
      \/ Goto(p, [loc[p] EXCEPT !.fi = loc[p].fi + 1])
      \/ /\ ~(loc[p].fi > Len(FamilyOrder))
         /\ Goto(p, [loc[p] EXCEPT !.pc = "recover", !.bad = {},
                                   !.queue = {e \in journal : e.family = FamilyOrder[loc[p].fi]}])
      \/ Fail(p)
  BY DEF CaptureRecovers
<1>6. CASE Fail(p)
  BY <1>1, <1>2, <1>6, FailKeeps, FlagsKept
<1>7. CASE Goto(p, [loc[p] EXCEPT !.pc = "serving", !.mode = "serve"])
  <2>1. PICK a : a = [loc[p] EXCEPT !.pc = "serving"]
    OBVIOUS
  <2>2. PICK l : l = [a EXCEPT !.mode = "serve"]
    OBVIOUS
  <2>3. a \in Local
    <3>1. "serving" \in Steps
      BY DEF Steps
    <3> QED
      BY <1>1, <2>1, <3>1, LocalEdits, Zenon
  <2>4. l \in Local /\ Goto(p, l)
    BY <1>7, <2>1, <2>2, <2>3, LocalEdits
  <2>5. /\ l.pc = "serving" /\ l.mode = "serve" /\ l.queue = loc[p].queue
        /\ l.snaps = loc[p].snaps /\ l.work = loc[p].work /\ l.keep = loc[p].keep
    BY <1>1, <2>1, <2>2, <2>3 DEF Local
  <2>6. Fits(l) /\ Finishes(l) /\ ~HasCur(l) /\ Held(l) = Held(loc[p])
    BY <2>5 DEF Fits, HasCur, Finishes, Held
  <2>7. \A e \in Known(l) : Genuine(e)
    BY <1>4, <2>5, <2>6 DEF Known, Current
  <2> QED
    BY <1>1, <1>2, <2>4, <2>5, <2>6, <2>7, ServeStep, FlagsKept
<1>8. CASE Goto(p, [loc[p] EXCEPT !.fi = loc[p].fi + 1])
  <2>1. PICK l : l = [loc[p] EXCEPT !.fi = loc[p].fi + 1]
    OBVIOUS
  <2>2. l \in Local
    BY <1>1, <1>3, <2>1, LocalEdits, Zenon
  <2>3. /\ l.pc = "protect" /\ l.mode = "capture" /\ l.queue = loc[p].queue /\ l.txn = loc[p].txn
        /\ l.snaps = loc[p].snaps /\ l.work = loc[p].work /\ l.keep = loc[p].keep
        /\ l.fi = loc[p].fi + 1
    BY <1>1, <2>1 DEF Local
  <2>4. Fits(l) /\ Finishes(l) /\ ~HasCur(l) /\ Held(l) = Held(loc[p])
    BY <1>1, <1>3, <2>3 DEF Fits, HasCur, Finishes, Held
  <2>5. \A e \in Known(l) : Genuine(e)
    BY <1>4, <2>3, <2>4 DEF Known, Current
  <2> QED
    BY <1>1, <1>2, <1>8, <2>1, <2>2, <2>3, <2>4, <2>5, ServeStep, FlagsKept
<1>9. CASE /\ ~(loc[p].fi > Len(FamilyOrder))
           /\ Goto(p, [loc[p] EXCEPT !.pc = "recover", !.bad = {},
                                     !.queue = {e \in journal : e.family = FamilyOrder[loc[p].fi]}])
  <2>1. PICK none \in SUBSET {"Deferred", "OwnerStillRunning"} : none = {}
    OBVIOUS
  <2>2. PICK old \in SUBSET Entry : old = {e \in journal : e.family = FamilyOrder[loc[p].fi]}
    BY <1>1 DEF TablesOK
  <2>3. PICK a : a = [loc[p] EXCEPT !.pc = "recover"]
    OBVIOUS
  <2>4. PICK b : b = [a EXCEPT !.bad = none]
    OBVIOUS
  <2>5. PICK l : l = [b EXCEPT !.queue = old]
    OBVIOUS
  <2>6. a \in Local
    <3>1. "recover" \in Steps
      BY DEF Steps
    <3> QED
      BY <1>1, <2>3, <3>1, LocalEdits, Zenon
  <2>7. b \in Local
    BY <2>4, <2>6, LocalEdits, Zenon
  <2>8. l \in Local
    BY <2>5, <2>7, LocalEdits, Zenon
  <2>9. Goto(p, l)
    BY <1>9, <2>1, <2>2, <2>3, <2>4, <2>5
  <2>10. /\ l.pc = "recover" /\ l.mode = "capture" /\ l.queue = old /\ l.txn = loc[p].txn
         /\ l.snaps = loc[p].snaps /\ l.work = loc[p].work /\ l.keep = loc[p].keep
         /\ l.fi = loc[p].fi
    BY <1>1, <2>3, <2>4, <2>5, <2>6, <2>7 DEF Local
  <2>11. Fits(l) /\ ~HasCur(l) /\ Held(l) = Held(loc[p])
    BY <1>1, <1>3, <1>9, <2>10 DEF Fits, HasCur, Held
  <2>12. Finishes(l)
    BY <2>2, <2>10 DEF Finishes, Entries
  <2>13. \A e \in Known(l) : Genuine(e)
    BY <1>4, <2>2, <2>10, <2>11 DEF Known, Current
  <2> QED
    BY <1>1, <1>2, <2>8, <2>9, <2>10, <2>11, <2>12, <2>13, ServeStep, FlagsKept
<1> QED
  BY <1>5, <1>6, <1>7, <1>8, <1>9

\* capture_family() reads a flag that no host has set.
LEMMA CaptureFamilyKeeps == ASSUME IInv, NEW p \in Procs, CaptureFamily(p) PROVE IInv'
<1>1. /\ loc[p] \in Local /\ Fits(loc[p]) /\ Owns(p, loc[p]) /\ Finishes(loc[p]) /\ TablesOK
      /\ loc[p].pc = "capture" /\ loc[p].mode = "capture"
      /\ UNCHANGED <<osvars, flag, routes, journal, port, owned, removed, left>>
  BY DEF IInv, TypeOK, ProcInv, CaptureFamily, Fits
<1>2. TablesOK' /\ port = p /\ p \in Hosts
  BY <1>1 DEF TablesOK, osvars, Owns, Procs
<1>3. CASE Fail(p)
  BY <1>1, <1>2, <1>3, FailKeeps, FlagsKept
<1>4. CASE Goto(p, [loc[p] EXCEPT !.pc = "persist",
                      !.cur = [entry |-> [owner |-> p, family |-> FamilyOrder[loc[p].fi],
                                          flag |-> flag[FamilyOrder[loc[p].fi]],
                                          routes |-> DefaultRoutes(FamilyOrder[loc[p].fi])],
                               mac |-> mac]])
  <2>1. PICK f \in Families : f = FamilyOrder[loc[p].fi]
    <3>1. loc[p].fi \in 1 .. Len(FamilyOrder)
      BY <1>1, PolicyAssumption DEF Fits, Local
    <3> QED
      BY <3>1, PolicyAssumption
  <2>2. PICK e : e = [owner |-> p, family |-> f, flag |-> flag[f], routes |-> routes[f]]
    OBVIOUS
  <2>3. e \in Entry
    BY <1>1, <1>2, <2>2 DEF Entry, TablesOK
  <2>4. PICK s : s = [entry |-> e, mac |-> mac]
    OBVIOUS
  <2>5. s \in Snap /\ s.entry = e
    BY <1>1, <2>3, <2>4 DEF Snap, TablesOK
  <2>6. PICK a : a = [loc[p] EXCEPT !.pc = "persist"]
    OBVIOUS
  <2>7. PICK l : l = [a EXCEPT !.cur = s]
    OBVIOUS
  <2>8. a \in Local
    <3>1. "persist" \in Steps
      BY DEF Steps
    <3> QED
      BY <1>1, <2>6, <3>1, LocalEdits, Zenon
  <2>9. l \in Local
    BY <2>5, <2>7, <2>8, LocalEdits, Zenon
  <2>10. Goto(p, l)
    BY <1>4, <2>1, <2>2, <2>4, <2>6, <2>7 DEF DefaultRoutes
  <2>11. /\ l.pc = "persist" /\ l.mode = "capture" /\ l.queue = loc[p].queue /\ l.txn = loc[p].txn
         /\ l.snaps = loc[p].snaps /\ l.work = loc[p].work /\ l.keep = loc[p].keep
         /\ l.fi = loc[p].fi /\ l.cur = s
    BY <1>1, <2>6, <2>7, <2>8 DEF Local
  <2>12. e.owner = p /\ e.family = f /\ e.flag = flag[f]
    BY <2>2
  <2>13. Fits(l) /\ HasCur(l) /\ Held(l) = Held(loc[p]) /\ Current(l) = {e}
    BY <1>1, <2>1, <2>5, <2>11, <2>12 DEF Fits, HasCur, Held, Current
  <2>14. Entries(f) = {}
    BY <1>1, <2>1 DEF Finishes
  <2>15. Finishes(l)
    BY <2>1, <2>11, <2>14 DEF Finishes
  <2>16. ~owned[f]
    BY <2>14 DEF IInv, CoverInv
  <2>17. Genuine(e)
    BY <1>1, <2>12, <2>16 DEF Genuine, UserFlag
  <2>18. \A x \in Known(l) : Genuine(x)
    <3>1. Known(l) \subseteq Known(loc[p]) \cup {e}
      BY <2>11, <2>13 DEF Known
    <3> QED
      BY <2>17, <3>1 DEF IInv, KnownInv
  <2>19. l.cur.entry.owner = p
    BY <2>5, <2>11, <2>12
  <2> QED
    BY <1>1, <1>2, <2>9, <2>10, <2>11, <2>13, <2>15, <2>18, <2>19, ServeStep, FlagsKept
<1> QED
  BY <1>3, <1>4 DEF CaptureFamily

\* Setting the flag of a family whose entry is written.
LEMMA ApplyFlagKeeps == ASSUME IInv, NEW p \in Procs, ApplyFlag(p) PROVE IInv'
<1>1. /\ loc[p] \in Local /\ Fits(loc[p]) /\ Owns(p, loc[p]) /\ TablesOK
      /\ loc[p].pc = "apply" /\ loc[p].mode = "capture" /\ loc[p].cur \in Snap
      /\ UNCHANGED <<osvars, routes, journal, port, removed, left>>
  BY DEF IInv, TypeOK, ProcInv, ApplyFlag, Fits, HasCur
<1>2. port = p /\ loc[p].cur.entry \in journal /\ loc[p].cur.entry.owner = p
  BY <1>1 DEF Owns, Fits, HasCur
<1>3. PICK e \in Entry : e = loc[p].cur.entry
  BY <1>1 DEF Snap
<1>4. PICK f \in Families : f = e.family
  BY DEF Entry
<1>5. \/ /\ flag' = [flag EXCEPT ![f] = TRUE]
         /\ owned' = [owned EXCEPT ![f] = @ \/ ~flag[f]]
         /\ Goto(p, [loc[p] EXCEPT !.pc = "delete", !.avail = e.routes])
      \/ Fail(p) /\ UNCHANGED <<flag, owned>>
  BY <1>3, <1>4 DEF ApplyFlag
<1>6. CASE Fail(p) /\ UNCHANGED <<flag, owned>>
  <2>1. TablesOK'
    BY <1>1, <1>6 DEF TablesOK, osvars
  <2> QED
    BY <1>1, <1>6, <2>1, FailKeeps, FlagsKept
<1>7. CASE /\ flag' = [flag EXCEPT ![f] = TRUE]
           /\ owned' = [owned EXCEPT ![f] = @ \/ ~flag[f]]
           /\ Goto(p, [loc[p] EXCEPT !.pc = "delete", !.avail = e.routes])
  <2>1. flag \in [Families -> BOOLEAN] /\ owned \in [Families -> BOOLEAN]
    BY <1>1 DEF TablesOK
  <2>2. flag' \in [Families -> BOOLEAN] /\ owned' \in [Families -> BOOLEAN]
    BY <1>7, <2>1
  <2>3. TablesOK'
    BY <1>1, <2>2 DEF TablesOK, osvars
  <2>4. ASSUME NEW g \in Families
        PROVE  /\ UserFlag(g)' <=> UserFlag(g)
               /\ owned'[g] => flag'[g]
               /\ owned'[g] => owned[g] \/ \E x \in Entries(g) : ~Forgetting(x)
    <3>1. CASE g = f
      <4>1. flag'[f] /\ (owned'[f] <=> owned[f] \/ ~flag[f])
        BY <1>7, <2>1
      <4>2. owned[f] => flag[f]
        BY DEF IInv, KnownInv
      <4>3. e \in Entries(f) /\ ~Forgetting(e)
        BY <1>1, <1>2, <1>3, <1>4, NotForgotten DEF Entries
      <4>4. (UserFlag(f)' <=> flag'[f] /\ ~owned'[f]) /\ (UserFlag(f) <=> flag[f] /\ ~owned[f])
        BY DEF UserFlag
      <4> QED
        BY <3>1, <4>1, <4>2, <4>3, <4>4
    <3>2. CASE g # f
      <4>1. flag'[g] = flag[g] /\ owned'[g] = owned[g]
        BY <1>7, <2>1, <3>2
      <4> QED
        BY <4>1 DEF UserFlag, IInv, KnownInv
    <3> QED
      BY <3>1, <3>2
  <2>5. e.routes \in SUBSET Gateways
    BY DEF Entry
  <2>6. PICK a : a = [loc[p] EXCEPT !.pc = "delete"]
    OBVIOUS
  <2>7. PICK l : l = [a EXCEPT !.avail = e.routes]
    OBVIOUS
  <2>8. a \in Local
    <3>1. "delete" \in Steps
      BY DEF Steps
    <3> QED
      BY <1>1, <2>6, <3>1, LocalEdits, Zenon
  <2>9. l \in Local
    BY <2>5, <2>7, <2>8, LocalEdits, Zenon
  <2>10. Goto(p, l)
    BY <1>7, <2>6, <2>7
  <2>11. /\ l.pc = "delete" /\ l.mode = "capture" /\ l.queue = loc[p].queue /\ l.txn = loc[p].txn
         /\ l.snaps = loc[p].snaps /\ l.work = loc[p].work /\ l.keep = loc[p].keep
         /\ l.fi = loc[p].fi /\ l.cur = loc[p].cur
    BY <1>1, <2>6, <2>7, <2>8 DEF Local
  <2>12. Fits(l) /\ HasCur(l) /\ Held(l) = Held(loc[p]) /\ Finishes(l)
    BY <1>1, <2>11 DEF Fits, HasCur, Held, Finishes
  <2>13. \A x \in Known(l) : Genuine(x)
    <3>1. Known(l) \subseteq Known(loc[p])
      BY <1>1, <2>11, <2>12 DEF Known, Current, HasCur
    <3> QED
      BY <3>1 DEF IInv, KnownInv
  <2> QED
    BY <1>1, <1>2, <2>3, <2>4, <2>9, <2>10, <2>11, <2>12, <2>13, ServeStep
<1> QED
  BY <1>5, <1>6, <1>7

\* Deleting one captured route.
LEMMA ApplyDeleteKeeps == ASSUME IInv, NEW p \in Procs, ApplyDelete(p) PROVE IInv'
<1>1. /\ loc[p] \in Local /\ Fits(loc[p]) /\ Owns(p, loc[p]) /\ TablesOK
      /\ loc[p].pc = "delete" /\ loc[p].mode = "capture" /\ loc[p].cur \in Snap
      /\ UNCHANGED <<osvars, flag, journal, port, owned, left>>
  BY DEF IInv, TypeOK, ProcInv, ApplyDelete, Fits, HasCur
<1>2. port = p /\ loc[p].cur.entry.owner = p /\ loc[p].cur.entry.family \in Families
  BY <1>1 DEF Owns, HasCur, Snap, Entry
<1>3. PICK g \in loc[p].avail :
        \/ /\ routes' = [routes EXCEPT ![loc[p].cur.entry.family] = @ \ {g}]
           /\ removed' = [removed EXCEPT ![loc[p].cur.entry.family] = @ \cup {g}]
           /\ Goto(p, [loc[p] EXCEPT !.avail = loc[p].avail \ {g}])
        \/ Fail(p) /\ UNCHANGED <<routes, removed>>
  BY DEF ApplyDelete
<1>4. g \in Gateways /\ loc[p].avail \ {g} \in SUBSET Gateways
  BY <1>1 DEF Local
<1>5. TablesOK'
  BY <1>1, <1>2, <1>3, <1>4 DEF TablesOK, osvars
<1>6. CASE Fail(p)
  BY <1>1, <1>5, <1>6, FailKeeps, FlagsKept
<1>7. CASE Goto(p, [loc[p] EXCEPT !.avail = loc[p].avail \ {g}])
  <2>1. PICK l : l = [loc[p] EXCEPT !.avail = loc[p].avail \ {g}]
    OBVIOUS
  <2>2. l \in Local
    BY <1>1, <1>4, <2>1, LocalEdits, Zenon
  <2>3. /\ l.pc = "delete" /\ l.mode = "capture" /\ l.queue = loc[p].queue /\ l.txn = loc[p].txn
        /\ l.snaps = loc[p].snaps /\ l.work = loc[p].work /\ l.keep = loc[p].keep
        /\ l.fi = loc[p].fi /\ l.cur = loc[p].cur
    BY <1>1, <2>1 DEF Local
  <2>4. Fits(l) /\ HasCur(l) /\ Held(l) = Held(loc[p]) /\ Finishes(l)
    BY <1>1, <2>3 DEF Fits, HasCur, Held, Finishes
  <2>5. \A x \in Known(l) : Genuine(x)
    <3>1. Known(l) \subseteq Known(loc[p])
      BY <1>1, <2>3, <2>4 DEF Known, Current, HasCur
    <3> QED
      BY <3>1 DEF IInv, KnownInv
  <2> QED
    BY <1>1, <1>2, <1>5, <1>7, <2>1, <2>2, <2>3, <2>4, <2>5, ServeStep, FlagsKept
<1> QED
  BY <1>3, <1>6, <1>7

\* The family is verified once its routes are gone.
LEMMA ApplyVerifyKeeps == ASSUME IInv, NEW p \in Procs, ApplyVerify(p) PROVE IInv'
<1>1. /\ loc[p] \in Local /\ Fits(loc[p]) /\ Owns(p, loc[p]) /\ TablesOK
      /\ loc[p].pc = "delete" /\ loc[p].mode = "capture" /\ loc[p].cur \in Snap
      /\ UNCHANGED <<osvars, routes, journal, port, removed, left>>
  BY DEF IInv, TypeOK, ProcInv, ApplyVerify, Fits, HasCur
<1>2. port = p /\ loc[p].cur.entry \in journal /\ loc[p].cur.entry.owner = p
  BY <1>1 DEF Owns, Fits, HasCur
<1>3. PICK S \in Seq(Snap) : S = <<loc[p].cur>>
  <2>1. <<loc[p].cur>> \in Seq(Snap)
    BY <1>1
  <2> QED
    BY <2>1
<1>4. EntriesOf(S) = {loc[p].cur.entry}
  <2>1. DOMAIN S = {1} /\ S[1] = loc[p].cur
    BY <1>3
  <2> QED
    BY <2>1 DEF EntriesOf
<1>5. VerifyEnforced(S) \/ UNCHANGED <<flag, owned>>
  BY <1>3 DEF ApplyVerify
<1>6. /\ flag' \in [Families -> BOOLEAN] /\ owned' \in [Families -> BOOLEAN]
      /\ \A f \in Families : /\ UserFlag(f)' <=> UserFlag(f)
                             /\ owned'[f] => flag'[f]
                             /\ owned'[f] => owned[f] \/ \E e \in Entries(f) : ~Forgetting(e)
  <2>1. CASE VerifyEnforced(S)
    BY <1>1, <1>2, <1>4, <2>1, VerifyFlags
  <2>2. CASE UNCHANGED <<flag, owned>>
    BY <1>1, <2>2, FlagsKept DEF TablesOK
  <2> QED
    BY <1>5, <2>1, <2>2
<1>7. TablesOK'
  BY <1>1, <1>6 DEF TablesOK, osvars
<1>8. CASE Fail(p)
  BY <1>1, <1>6, <1>7, <1>8, FailKeeps
<1>9. CASE Goto(p, [loc[p] EXCEPT !.pc = "protect", !.fi = loc[p].fi + 1])
  <2>1. loc[p].fi + 1 \in Nat /\ loc[p].fi + 1 > 0
    BY <1>1 DEF Local
  <2>2. PICK a : a = [loc[p] EXCEPT !.pc = "protect"]
    OBVIOUS
  <2>3. PICK l : l = [a EXCEPT !.fi = loc[p].fi + 1]
    OBVIOUS
  <2>4. a \in Local
    <3>1. "protect" \in Steps
      BY DEF Steps
    <3> QED
      BY <1>1, <2>2, <3>1, LocalEdits, Zenon
  <2>5. l \in Local
    BY <2>1, <2>3, <2>4, LocalEdits, Zenon
  <2>6. /\ l.pc = "protect" /\ l.mode = "capture" /\ l.queue = loc[p].queue /\ l.txn = loc[p].txn
        /\ l.snaps = loc[p].snaps /\ l.work = loc[p].work /\ l.keep = loc[p].keep
        /\ l.fi = loc[p].fi + 1
    BY <1>1, <2>2, <2>3, <2>4 DEF Local
  <2>7. Fits(l) /\ ~HasCur(l) /\ Held(l) = Held(loc[p]) /\ Finishes(l)
    BY <1>1, <2>1, <2>6 DEF Fits, HasCur, Held, Finishes
  <2>8. \A x \in Known(l) : Genuine(x)
    <3>1. Known(l) \subseteq Known(loc[p])
      BY <2>6, <2>7 DEF Known, Current
    <3> QED
      BY <3>1 DEF IInv, KnownInv
  <2>9. Goto(p, l)
    BY <1>9, <2>2, <2>3
  <2> QED
    BY <1>1, <1>2, <1>6, <1>7, <2>5, <2>6, <2>7, <2>8, <2>9, ServeStep
<1> QED
  BY <1>8, <1>9 DEF ApplyVerify

\* The entry is written while the journal has none of its family.
LEMMA PersistPolicyKeeps == ASSUME IInv, NEW p \in Procs, PersistPolicy(p) PROVE IInv'
<1>1. /\ loc[p] \in Local /\ Fits(loc[p]) /\ Owns(p, loc[p]) /\ Finishes(loc[p]) /\ TablesOK
      /\ loc[p].pc = "persist" /\ loc[p].mode = "capture" /\ loc[p].cur \in Snap
      /\ journal' = journal \cup {loc[p].cur.entry}
      /\ UNCHANGED <<osvars, flag, routes, port, owned, removed>>
  BY DEF IInv, TypeOK, ProcInv, PersistPolicy, Fits, HasCur
<1>2. PICK e \in Entry : e = loc[p].cur.entry
  BY <1>1 DEF Snap
<1>3. port = p /\ e.owner = p /\ Entries(e.family) = {} /\ Genuine(e)
  BY <1>1, <1>2 DEF Owns, Finishes, Fits, HasCur, IInv, KnownInv, Known, Current
<1>4. journal \subseteq journal' /\ \A x \in journal' \ journal : port = p /\ Genuine(x)
  BY <1>1, <1>2, <1>3
<1>5. OneEntry'
  BY <1>1, <1>2, <1>3 DEF OneEntry, IInv, Entries
<1>6. \A f \in Families : /\ UserFlag(f)' <=> UserFlag(f)
                          /\ owned'[f] => flag'[f]
                          /\ owned'[f] => owned[f] \/ \E x \in Entries(f) : ~Forgetting(x)
  BY <1>1, FlagsKept
<1>7. left' \in [env : Nat, fail : Nat]
  BY <1>1 DEF PersistPolicy, TablesOK, Spend
<1>8. TablesOK'
  BY <1>1, <1>2, <1>7 DEF TablesOK, osvars
<1>9. CASE Fail(p)
  <2>1. TypeOK /\ ProcInv(p) /\ Launcher \notin Hosts
    BY PolicyAssumption DEF IInv
  <2>2. PICK l \in Local :
           /\ Goto(p, l)
           /\ l = Gone(p) \/ (p \in Hosts /\ l.pc = "restore" /\ l.mode = "rollback")
           /\ Fits(l) /\ Known(l) \subseteq Known(loc[p])
           /\ \A x \in Held(l) : x.owner = p
    BY <1>1, <1>9, <2>1, FailLocal
  <2>3. /\ p \in Hosts => l.pc \in {"dead", "restore"}
        /\ p = Launcher => l.pc = "off" /\ l.mode = "start"
        /\ l.mode \in {"start", "rollback"} /\ l.pc \in {"off", "dead", "restore"}
    BY <2>1, <2>2, GoneLocal DEF Procs
  <2>4. Owns(p, l)' /\ Finishes(l)'
    BY <2>2, <2>3 DEF Owns, HasCur, Finishes, Held, EntriesOf
  <2>5. \A x \in Known(l) : Genuine(x)
    BY <2>2 DEF IInv, KnownInv
  <2> QED
    BY <1>1, <1>4, <1>5, <1>6, <1>8, <2>2, <2>3, <2>4, <2>5, Grows
<1>10. CASE Goto(p, [loc[p] EXCEPT !.pc = "apply", !.snaps = Append(loc[p].snaps, loc[p].cur)])
  <2>1. loc[p].snaps \in Seq(Snap) /\ Len(loc[p].snaps) \in Nat
    BY <1>1 DEF Local
  <2>2. PICK s \in Seq(Snap) : s = Append(loc[p].snaps, loc[p].cur)
    BY <1>1, <2>1, AppendSnap
  <2>3. EntriesOf(s) = EntriesOf(loc[p].snaps) \cup {e} /\ Len(s) = Len(loc[p].snaps) + 1
    BY <1>1, <1>2, <2>1, <2>2, AppendSnap
  <2>4. PICK a : a = [loc[p] EXCEPT !.pc = "apply"]
    OBVIOUS
  <2>5. PICK l : l = [a EXCEPT !.snaps = s]
    OBVIOUS
  <2>6. a \in Local
    <3>1. "apply" \in Steps
      BY DEF Steps
    <3> QED
      BY <1>1, <2>4, <3>1, LocalEdits, Zenon
  <2>7. l \in Local
    BY <2>5, <2>6, LocalEdits, Zenon
  <2>8. Goto(p, l)
    BY <1>10, <2>2, <2>4, <2>5
  <2>9. /\ l.pc = "apply" /\ l.mode = "capture" /\ l.queue = loc[p].queue /\ l.txn = loc[p].txn
        /\ l.snaps = s /\ l.work = loc[p].work /\ l.keep = loc[p].keep
        /\ l.fi = loc[p].fi /\ l.cur = loc[p].cur
    BY <1>1, <2>4, <2>5, <2>6 DEF Local
  <2>10. HasCur(l) /\ Held(l) = Held(loc[p]) \cup {e} /\ Finishes(l)'
    BY <1>1, <2>3, <2>9 DEF HasCur, Held, Finishes
  <2>11. Fits(l)
    <3>1. l.txn <= Len(l.snaps)
      BY <1>1, <2>1, <2>3, <2>9 DEF Fits, Local
    <3> QED
      BY <1>1, <1>2, <2>3, <2>9, <3>1 DEF Fits, HasCur
  <2>12. \A x \in Known(l) : Genuine(x)
    <3>1. Known(l) \subseteq Known(loc[p])
      BY <1>1, <1>2, <2>9, <2>10 DEF Known, Current, HasCur
    <3> QED
      BY <3>1 DEF IInv, KnownInv
  <2>13. Owns(p, l)'
    <3>1. EntriesOf(l.snaps) \subseteq journal'
      BY <1>1, <1>2, <2>3, <2>9 DEF Owns
    <3>2. \A x \in Held(l) : x.owner = p
      BY <1>1, <1>3, <2>10 DEF Owns
    <3> QED
      BY <1>1, <1>2, <1>3, <2>9, <3>1, <3>2 DEF Owns, HasCur, Held, EntriesOf
  <2> QED
    BY <1>1, <1>4, <1>5, <1>6, <1>8, <2>7, <2>8, <2>9, <2>11, <2>12, <2>13, <2>10, Grows
<1> QED
  BY <1>9, <1>10 DEF PersistPolicy

\* Clearing the flag that the entry says is to be cleared.
LEMMA UndoFlagKeeps == ASSUME IInv, NEW p \in Procs, UndoFlag(p) PROVE IInv'
<1>1. /\ loc[p] \in Local /\ Fits(loc[p]) /\ Owns(p, loc[p]) /\ Finishes(loc[p]) /\ TablesOK
      /\ loc[p].pc = "undo" /\ loc[p].cur \in Snap /\ HasCur(loc[p])
      /\ UNCHANGED <<osvars, routes, journal, port, removed, left>>
  BY DEF IInv, TypeOK, ProcInv, UndoFlag, Fits, HasCur
<1>2. PICK e \in Entry : e = loc[p].cur.entry
  BY <1>1 DEF Snap
<1>3. PICK f \in Families : f = e.family
  BY DEF Entry
<1>4. \/ /\ flag' = [flag EXCEPT ![f] = @ /\ ~ShouldRestoreOwnedFlag(flag[f], e.flag)]
         /\ owned' = [owned EXCEPT ![f] = @ /\ ~ShouldRestoreOwnedFlag(flag[f], e.flag)]
         /\ Goto(p, [loc[p] EXCEPT !.pc = "forget"])
      \/ Fail(p) /\ UNCHANGED <<flag, owned>>
  BY <1>2, <1>3 DEF UndoFlag
<1>5. CASE Fail(p) /\ UNCHANGED <<flag, owned>>
  <2>1. TablesOK'
    BY <1>1, <1>5 DEF TablesOK, osvars
  <2> QED
    BY <1>1, <1>5, <2>1, FailKeeps, FlagsKept
<1>6. CASE /\ flag' = [flag EXCEPT ![f] = @ /\ ~ShouldRestoreOwnedFlag(flag[f], e.flag)]
           /\ owned' = [owned EXCEPT ![f] = @ /\ ~ShouldRestoreOwnedFlag(flag[f], e.flag)]
           /\ Goto(p, [loc[p] EXCEPT !.pc = "forget"])
  <2>1. flag \in [Families -> BOOLEAN] /\ owned \in [Families -> BOOLEAN] /\ (owned[f] => flag[f])
    BY <1>1 DEF TablesOK, IInv, KnownInv
  <2>2. Genuine(e) /\ (UserFlag(f) <=> flag[f] /\ ~owned[f])
    BY <1>1, <1>2 DEF IInv, KnownInv, Known, Current, UserFlag
  <2>3. /\ flag' \in [Families -> BOOLEAN] /\ owned' \in [Families -> BOOLEAN]
        /\ flag'[f] <=> flag[f] /\ e.flag
        /\ owned'[f] <=> owned[f] /\ ~(flag[f] /\ ~e.flag)
    BY <1>6, <2>1 DEF ShouldRestoreOwnedFlag
  <2>4. \A g \in Families \ {f} : flag'[g] = flag[g] /\ owned'[g] = owned[g]
    BY <1>6, <2>1
  <2>5. ~owned'[f]
    BY <1>3, <2>1, <2>2, <2>3 DEF Genuine
  <2>6. \A g \in Families : (UserFlag(g)' <=> UserFlag(g)) /\ (owned'[g] => flag'[g])
    <3>1. UserFlag(f)' <=> UserFlag(f)
      BY <1>3, <2>1, <2>2, <2>3, <2>5 DEF Genuine, UserFlag
    <3>2. ASSUME NEW g \in Families \ {f}
          PROVE  (UserFlag(g)' <=> UserFlag(g)) /\ (owned'[g] => flag'[g])
      BY <2>4 DEF UserFlag, IInv, KnownInv
    <3> QED
      BY <2>5, <3>1, <3>2
  <2>7. TablesOK'
    BY <1>1, <2>3 DEF TablesOK, osvars
  <2>8. PICK l \in Local :
          /\ l = [loc[p] EXCEPT !.pc = "forget"]
          /\ l.pc = "forget" /\ l.mode = loc[p].mode /\ l.bad = loc[p].bad /\ l.queue = loc[p].queue
          /\ l.snaps = loc[p].snaps /\ l.work = loc[p].work /\ l.keep = loc[p].keep
          /\ l.txn = loc[p].txn /\ l.fi = loc[p].fi /\ l.cur = loc[p].cur /\ Held(l) = Held(loc[p])
    <3>1. "forget" \in Steps
      BY DEF Steps
    <3> QED
      BY <1>1, <3>1, PcMove
  <2>9. Goto(p, l)
    BY <1>6, <2>8
  <2>10. /\ loc' \in [Procs -> Local] /\ loc'[p] = l
         /\ \A q \in Procs \ {p} : loc'[q] = loc[q] /\ ProcInv(q)'
         /\ \A x \in Entry : Genuine(x) => Genuine(x)'
    BY <1>1, <2>6, <2>8, <2>9, Others
  <2>11. HasCur(l) /\ Current(l) = Current(loc[p]) /\ Fits(l) /\ Known(l) = Known(loc[p])
    BY <1>1, <2>8 DEF HasCur, Current, Fits, Known
  <2>12. KnownInv'
    <3>1. \A x \in journal' : Genuine(x)'
      BY <1>1, <2>10 DEF IInv, TablesOK, KnownInv
    <3>2. ASSUME NEW q \in Procs, NEW x \in Known(loc'[q]) PROVE Genuine(x)'
      <4>1. x \in Known(loc[q]) /\ loc[q] \in Local /\ Fits(loc[q])
        BY <2>10, <2>11, <3>2 DEF IInv, TypeOK, ProcInv
      <4> QED
        BY <2>10, <4>1, KnownType DEF IInv, KnownInv
    <3> QED
      BY <2>6, <3>1, <3>2 DEF KnownInv, Known, Held, Current, HasCur, EntriesOf
  <2>13. CoverInv'
    <3>1. ASSUME NEW g \in Families, owned'[g] PROVE \E x \in Entries(g)' : ~Forgetting(x)'
      <4>1. g # f /\ owned[g]
        BY <2>4, <2>5, <3>1
      <4>2. PICK x \in Entries(g) : ~Forgetting(x)
        BY <4>1 DEF IInv, CoverInv
      <4>3. x # e
        BY <1>3, <4>1, <4>2 DEF Entries
      <4>4. ~Forgetting(x)'
        <5>1. SUFFICES ASSUME NEW q \in Procs, loc'[q].pc = "forget", loc'[q].cur.entry = x PROVE FALSE
          BY DEF Forgetting
        <5>2. CASE q = p
          BY <1>2, <2>8, <2>10, <4>3, <5>1, <5>2
        <5>3. CASE q # p
          BY <2>10, <4>2, <5>1, <5>3 DEF Forgetting
        <5> QED
          BY <5>2, <5>3
      <4> QED
        BY <1>1, <4>2, <4>4 DEF Entries
    <3> QED
      BY <3>1 DEF CoverInv
  <2>14. ProcInv(p)'
    <3>1. Finishes(l)'
      BY <1>1, <2>8, <2>11 DEF Finishes, Entries
    <3>2. Owns(p, l)'
      <4>1. l.mode # "rollback" => loc'[l.cur.entry.owner].pc = "dead"
        <5>1. ASSUME l.mode # "rollback" PROVE loc[e.owner].pc = "dead" /\ e.owner \in Procs /\ e.owner # p
          BY <1>1, <1>2, <2>8, <5>1 DEF Owns, Entry, Procs
        <5> QED
          BY <1>2, <2>8, <2>10, <5>1
      <4> QED
        BY <1>1, <2>8, <2>11, <4>1 DEF Owns, HasCur, Held, EntriesOf
    <3> QED
      BY <2>10, <2>11, <3>1, <3>2
         DEF ProcInv, Fits, HasCur, Finishes, Current, Entries, Owns, Held, EntriesOf
  <2>15. OneEntry'
    BY <1>1 DEF IInv, OneEntry
  <2> QED
    BY <2>7, <2>10, <2>12, <2>13, <2>14, <2>15 DEF IInv, TypeOK
<1> QED
  BY <1>4, <1>5, <1>6

\* The entry is forgotten last.
LEMMA RemovePolicyValueKeeps == ASSUME IInv, NEW p \in Procs, RemovePolicyValue(p) PROVE IInv'
<1>1. /\ loc[p] \in Local /\ Fits(loc[p]) /\ Owns(p, loc[p]) /\ Finishes(loc[p]) /\ TablesOK
      /\ loc[p].pc = "forget" /\ loc[p].cur \in Snap /\ HasCur(loc[p]) /\ loc[p].mode # "serve"
      /\ journal' = journal \ {loc[p].cur.entry}
      /\ UNCHANGED <<osvars, flag, routes, port, owned, removed, left>>
  BY DEF IInv, TypeOK, ProcInv, RemovePolicyValue, Fits, HasCur
<1>2. PICK e \in Entry : e = loc[p].cur.entry
  BY <1>1 DEF Snap
<1>3. TablesOK'
  BY <1>1 DEF TablesOK, osvars
<1>4. PICK x \in Steps : x = IF loc[p].mode = "rollback" THEN "restore" ELSE "recover"
  BY DEF Steps
<1>5. PICK l \in Local :
        /\ l = [loc[p] EXCEPT !.pc = x]
        /\ l.pc = x /\ l.mode = loc[p].mode /\ l.bad = loc[p].bad /\ l.queue = loc[p].queue
        /\ l.snaps = loc[p].snaps /\ l.work = loc[p].work /\ l.keep = loc[p].keep
        /\ l.txn = loc[p].txn /\ l.fi = loc[p].fi /\ Held(l) = Held(loc[p])
  BY <1>1, PcMove
<1>6. Goto(p, l)
  BY <1>4, <1>5 DEF RemovePolicyValue
<1>7. e.owner = p \/ loc[e.owner].pc = "dead"
  BY <1>1, <1>2 DEF Owns
<1>8. \A f \in Families : (UserFlag(f)' <=> UserFlag(f)) /\ (owned'[f] => flag'[f])
  BY <1>1, FlagsKept
<1>9. /\ loc' \in [Procs -> Local] /\ loc'[p] = l
      /\ \A q \in Procs \ {p} : loc'[q] = loc[q] /\ ProcInv(q)'
      /\ \A y \in Entry : Genuine(y) => Genuine(y)'
  <2>1. loc[p].pc # "dead" /\ l.pc # "off"
    BY <1>1, <1>4, <1>5
  <2>2. \A y \in journal \ journal' : y.owner = p \/ loc[y.owner].pc = "dead"
    BY <1>1, <1>2, <1>7
  <2>3. \A y \in journal' \ journal : port = p
    BY <1>1
  <2>4. \A q \in Procs \ {p} : port = q => port' = q
    BY <1>1
  <2> QED
    BY <1>6, <1>8, <2>1, <2>2, <2>3, <2>4, Others
<1>10. ~HasCur(l) /\ Fits(l) /\ Known(l) \subseteq Known(loc[p])
  <2>1. ~HasCur(l) /\ Known(l) \subseteq Known(loc[p])
    BY <1>1, <1>4, <1>5 DEF HasCur, Known, Current
  <2>2. \/ l.pc = "restore" /\ l.mode = "rollback"
        \/ l.pc = "recover" /\ l.mode \in {"start", "capture"}
    BY <1>1, <1>4, <1>5 DEF Local
  <2>3. Fits(l)
    BY <1>1, <1>5, <2>1, <2>2 DEF Fits, HasCur
  <2> QED
    BY <2>1, <2>3
<1>11. KnownInv'
  <2>1. \A y \in journal' : Genuine(y)'
    BY <1>1, <1>9 DEF IInv, TablesOK, KnownInv
  <2>2. ASSUME NEW q \in Procs, NEW y \in Known(loc'[q]) PROVE Genuine(y)'
    <3>1. y \in Known(loc[q]) /\ loc[q] \in Local /\ Fits(loc[q])
      BY <1>9, <1>10, <2>2 DEF IInv, TypeOK, ProcInv
    <3> QED
      BY <1>9, <3>1, KnownType DEF IInv, KnownInv
  <2> QED
    BY <1>8, <2>1, <2>2 DEF KnownInv, Known, Held, Current, HasCur, EntriesOf
<1>12. CoverInv'
  <2>1. ASSUME NEW f \in Families, owned'[f] PROVE \E y \in Entries(f)' : ~Forgetting(y)'
    <3>1. PICK y \in Entries(f) : ~Forgetting(y)
      BY <1>1, <2>1 DEF IInv, CoverInv
    <3>2. y # e
      BY <1>1, <1>2, <3>1 DEF Forgetting
    <3>3. ~Forgetting(y)'
      BY <1>4, <1>5, <1>9, <3>1 DEF Forgetting
    <3> QED
      BY <1>1, <1>2, <3>1, <3>2, <3>3 DEF Entries
  <2> QED
    BY <2>1 DEF CoverInv
<1>13. ProcInv(p)'
  <2>1. Finishes(l)'
    <3>1. \A f : Entries(f)' = Entries(f) \ {e}
      BY <1>1, <1>2 DEF Entries
    <3> QED
      BY <1>1, <1>2, <1>4, <1>5, <1>10, <3>1 DEF Finishes, Current
  <2>2. Owns(p, l)'
    <3>1. ASSUME l.mode \in {"serve", "capture"} PROVE EntriesOf(l.snaps) \subseteq journal'
      <4>1. loc[e.owner].pc = "dead"
        BY <1>1, <1>2, <1>5, <3>1 DEF Owns
      <4>2. \A y \in EntriesOf(l.snaps) : y \in journal /\ y.owner = p
        BY <1>1, <1>5, <3>1 DEF Owns, Held
      <4> QED
        BY <1>1, <1>2, <4>1, <4>2
    <3> QED
      BY <1>1, <1>4, <1>5, <1>10, <3>1 DEF Owns, HasCur, Held, EntriesOf
  <2> QED
    BY <1>9, <1>10, <2>1, <2>2
       DEF ProcInv, Fits, HasCur, Finishes, Current, Entries, Owns, Held, EntriesOf
<1>14. OneEntry'
  BY <1>1 DEF IInv, OneEntry
<1> QED
  BY <1>3, <1>9, <1>11, <1>12, <1>13, <1>14 DEF IInv, TypeOK

-----------------------------------------------------------------------------
\* What happens outside the processes leaves them, the journal and the port.
LEMMA OutsideKeeps ==
    ASSUME IInv, TablesOK', UNCHANGED <<loc, journal, port>>,
           \A f \in Families : (UserFlag(f)' <=> UserFlag(f)) /\ (owned'[f] => owned[f] /\ flag'[f])
    PROVE  IInv'
<1>1. TypeOK'
  BY DEF IInv, TypeOK
<1>2. \A e \in Entry : Genuine(e) => Genuine(e)'
  BY DEF Genuine, Entry
<1>3. KnownInv'
  <2>1. \A e \in journal' : Genuine(e)'
    BY <1>2 DEF IInv, TypeOK, TablesOK, KnownInv
  <2>2. ASSUME NEW q \in Procs, NEW e \in Known(loc[q]) PROVE Genuine(e)'
    <3>1. loc[q] \in Local /\ Fits(loc[q])
      BY DEF IInv, TypeOK, ProcInv
    <3> QED
      BY <1>2, <2>2, <3>1, KnownType DEF IInv, KnownInv
  <2> QED
    BY <2>1, <2>2 DEF KnownInv, Known, Held, Current, HasCur, EntriesOf
<1>4. CoverInv' /\ OneEntry'
  BY DEF IInv, CoverInv, OneEntry, Entries, Forgetting
<1>5. \A p \in Procs : ProcInv(p)'
  BY DEF IInv, ProcInv, Fits, HasCur, Finishes, Current, Entries, Owns, Held, EntriesOf
<1> QED
  BY <1>1, <1>3, <1>4, <1>5 DEF IInv

\* Windows, the phone and the user.
LEMMA WindowsKeeps == ASSUME IInv, Windows PROVE IInv'
<1>1. TablesOK /\ UNCHANGED <<loc, journal, port>>
  BY DEF IInv, TypeOK, Windows, RouteAppears, NewLease, LeaseExpires, UserEnables, Unplug, PlugIn
<1>2. ASSUME Spend("env") PROVE left' \in [env : Nat, fail : Nat]
  BY <1>1, <1>2 DEF TablesOK, Spend
<1>3. CASE UserEnables
  <2>1. PICK f \in Families : /\ owned[f]
                              /\ flag' = [flag EXCEPT ![f] = FALSE]
                              /\ owned' = [owned EXCEPT ![f] = FALSE]
    BY <1>3 DEF UserEnables
  <2>2. UNCHANGED <<osvars, routes, removed>> /\ left' \in [env : Nat, fail : Nat]
    BY <1>2, <1>3 DEF UserEnables
  <2>3. flag' \in [Families -> BOOLEAN] /\ owned' \in [Families -> BOOLEAN]
        /\ ~flag'[f] /\ ~owned'[f]
        /\ \A g \in Families \ {f} : flag'[g] = flag[g] /\ owned'[g] = owned[g]
    BY <1>1, <2>1 DEF TablesOK
  <2>4. TablesOK'
    BY <1>1, <2>2, <2>3 DEF TablesOK, osvars
  <2>5. ASSUME NEW g \in Families
        PROVE  (UserFlag(g)' <=> UserFlag(g)) /\ (owned'[g] => owned[g] /\ flag'[g])
    <3>1. CASE g = f
      BY <2>1, <2>3, <3>1 DEF UserFlag
    <3>2. CASE g # f
      BY <2>3, <3>2 DEF UserFlag, IInv, KnownInv
    <3> QED
      BY <3>1, <3>2
  <2> QED
    BY <1>1, <2>4, <2>5, OutsideKeeps
<1>4. CASE ~UserEnables
  <2>1. flag' = flag /\ owned' = owned
    BY <1>4 DEF Windows, RouteAppears, NewLease, LeaseExpires, Unplug, PlugIn
  <2>2. \A f \in Families : (UserFlag(f)' <=> UserFlag(f)) /\ (owned'[f] => owned[f] /\ flag'[f])
    BY <2>1 DEF UserFlag, IInv, KnownInv
  <2>3. TablesOK'
    <3>1. CASE RouteAppears
      <4>1. /\ routes' \in [Families -> SUBSET Gateways] /\ removed' \in [Families -> SUBSET Gateways]
            /\ UNCHANGED osvars
        BY <1>1, <3>1 DEF RouteAppears, TablesOK, Superseded
      <4> QED
        BY <1>1, <1>2, <2>1, <3>1, <4>1 DEF RouteAppears, TablesOK, osvars
    <3>2. CASE NewLease
      <4>1. PICK f \in Families, g \in Leases :
               /\ IF lease[f] = {} THEN UNCHANGED left ELSE Spend("env")
               /\ lease' = [lease EXCEPT ![f] = {g}]
               /\ routes' = [routes EXCEPT ![f] = (@ \ lease[f]) \cup (IF flag[f] THEN {} ELSE {g})]
               /\ removed' = [removed EXCEPT ![f] = (@ \cap {g}) \ routes'[f]]
        BY <3>2 DEF NewLease
      <4>2. g \in Gateways
        BY PolicyAssumption
      <4>3. lease' \in [Families -> SUBSET Leases] /\ routes' \in [Families -> SUBSET Gateways]
            /\ removed' \in [Families -> SUBSET Gateways]
        BY <1>1, <4>1, <4>2 DEF TablesOK
      <4>4. left' \in [env : Nat, fail : Nat]
        BY <1>1, <1>2, <4>1 DEF TablesOK
      <4> QED
        BY <1>1, <2>1, <3>2, <4>3, <4>4 DEF NewLease, TablesOK
    <3>3. CASE LeaseExpires
      <4>1. lease' \in [Families -> SUBSET Leases] /\ routes' \in [Families -> SUBSET Gateways]
        BY <1>1, <3>3 DEF LeaseExpires, TablesOK
      <4> QED
        BY <1>1, <1>2, <2>1, <3>3, <4>1 DEF LeaseExpires, TablesOK
    <3>4. CASE Unplug
      BY <1>1, <1>2, <2>1, <3>4 DEF Unplug, TablesOK
    <3>5. CASE PlugIn
      <4>1. routes' \in [Families -> SUBSET Gateways]
        BY <1>1, <3>5, PolicyAssumption DEF PlugIn, TablesOK
      <4>2. removed' \in [Families -> SUBSET Gateways]
        BY <1>1, <3>5 DEF PlugIn, TablesOK
      <4> QED
        BY <1>1, <2>1, <3>5, <4>1, <4>2 DEF PlugIn, TablesOK
    <3> QED
      BY <1>4, <3>1, <3>2, <3>3, <3>4, <3>5 DEF Windows
  <2> QED
    BY <1>1, <2>2, <2>3, OutsideKeeps
<1> QED
  BY <1>3, <1>4

\* Every process is off, the journal is empty and no flag is a host's.
LEMMA InitIInv == Init => IInv
<1> SUFFICES ASSUME Init PROVE IInv
  OBVIOUS
<1>1. \A p \in Procs : loc[p] = Idle
  BY DEF Init
<1>2. Idle \in Local /\ Known(Idle) = {} /\ Held(Idle) = {}
  BY GoneLocal
<1>3. TypeOK
  <2>1. (CHOOSE g \in Leases : TRUE) \in Leases
    BY PolicyAssumption
  <2>2. flag \in [Families -> BOOLEAN]
    BY PolicyAssumption DEF Init
  <2>3. left \in [env : Nat, fail : Nat]
    BY PolicyAssumption DEF Init
  <2>4. lease \in [Families -> SUBSET Leases]
    BY <2>1 DEF Init
  <2>5. TablesOK
    BY <2>2, <2>3, <2>4 DEF Init, TablesOK
  <2>6. loc \in [Procs -> Local]
    BY <1>2 DEF Init
  <2> QED
    BY <2>5, <2>6 DEF TypeOK
<1>4. KnownInv /\ CoverInv /\ OneEntry
  BY <1>1, <1>2 DEF Init, KnownInv, CoverInv, OneEntry
<1>5. ASSUME NEW p \in Procs PROVE ProcInv(p)
  <2>1. /\ Idle.pc = "off" /\ Idle.mode = "start" /\ Idle.snaps = <<>>
        /\ Idle.work = <<>> /\ Idle.keep = <<>>
    BY DEF Idle
  <2>2. Fits(Idle) /\ Owns(p, Idle) /\ Finishes(Idle)
    BY <1>2, <2>1 DEF Fits, HasCur, Owns, Finishes
  <2> QED
    BY <1>1, <2>2 DEF ProcInv
<1> QED
  BY <1>3, <1>4, <1>5 DEF IInv

\* Nothing changes.
LEMMA StutterKeeps == ASSUME IInv, UNCHANGED vars PROVE IInv'
<1>1. TablesOK' /\ UNCHANGED <<loc, journal, port>>
  BY DEF IInv, TypeOK, TablesOK, vars
<1>2. \A f \in Families : (UserFlag(f)' <=> UserFlag(f)) /\ (owned'[f] => owned[f] /\ flag'[f])
  BY DEF vars, UserFlag, IInv, KnownInv
<1> QED
  BY <1>1, <1>2, OutsideKeeps

\* Every step of a process, of Windows and of the user keeps the invariant.
LEMMA NextIInv == IInv /\ [Next]_vars => IInv'
<1> SUFFICES ASSUME IInv, [Next]_vars PROVE IInv'
  OBVIOUS
<1>1. Hosts \subseteq Procs
  BY DEF Procs
<1>2. ASSUME NEW p \in Procs,
             PersistedPolicies(p) \/ Recover(p) \/ Undo(p) \/ CallFails(p)
      PROVE  IInv'
  BY <1>2, PersistedPoliciesKeeps, RecoverPolicyKeeps, RecoveryOutcomeKeeps, UndoRouteKeeps,
     UndoFlagKeeps, RemovePolicyValueKeeps, FailuresKeep DEF Recover, Undo
<1>3. ASSUME NEW p \in Hosts, Restore(p) \/ Crash(p) PROVE IInv'
  BY <1>1, <1>3, RestoreSnapshotKeeps, RollbackEndsKeeps, FailuresKeep DEF Restore
<1>4. ASSUME NEW p \in Hosts, Protect(p) PROVE IInv'
  BY <1>1, <1>4, VerifyProtectedKeeps, CaptureRecoversKeeps, CaptureFamilyKeeps,
     PersistPolicyKeeps, ApplyFlagKeeps, ApplyDeleteKeeps, ApplyVerifyKeeps DEF Protect
<1>5. ASSUME NEW p \in Hosts, Serve(p) PROVE IInv'
  BY <1>1, <1>5, RefreshKeeps, PortStepsKeep, StopKeeps DEF Serve
<1> QED
  BY <1>2, <1>3, <1>4, <1>5, WindowsKeeps, StutterKeeps DEF Next

\* The invariant holds in every reachable state.
LEMMA Invariance == Spec => []IInv
  BY InitIInv, NextIInv, PTL DEF Spec

-----------------------------------------------------------------------------
\* TypeOK: every record a process holds, every journal entry and every table
\* has its type, whatever dies, fails or happens outside.
THEOREM TypeCorrect == Spec => []TypeOK
  BY Invariance, PTL DEF IInv

\* FlagInJournal: a flag that a host set, dead or alive, is in the journal as
\* one to clear; apply_snapshot() persists first, restore_snapshot() forgets last.
THEOREM FlagCovered == Spec => []FlagInJournal
<1>1. IInv => FlagInJournal
  BY DEF IInv, CoverInv, KnownInv, Genuine, UserFlag, FlagInJournal, Entries
<1> QED
  BY <1>1, Invariance, PTL

\* OneEntry: the journal never has two entries of one family, so that no second
\* host can record what the first one did as the user's configuration.
THEOREM OneTransaction == Spec => []OneEntry
  BY Invariance, PTL DEF IInv

\* OriginalIsOriginal: an entry that says the flag was the user's own is never
\* written while a host's flag is set; capture_family() recovers before it reads.
THEOREM OriginalKept == Spec => OriginalIsOriginal
<1>1. IInv /\ IInv' /\ [Next]_vars => [\A e \in journal' \ journal : e.flag => ~owned[e.family]]_vars
  <2> SUFFICES ASSUME IInv, IInv', [Next]_vars, NEW e \in journal' \ journal, e.flag
               PROVE  ~owned[e.family]
    OBVIOUS
  <2>1. PICK p \in Procs : PersistPolicy(p)
    BY DEF Next, vars, osvars, Windows, PersistedPolicies, Recover, RecoverPolicy, RecoveryOutcome,
       Undo, UndoRoute, UndoUnconfirmed, UndoFlag, RemovePolicyValue, CallFails, Restore,
       RestoreSnapshot, RollbackEnds, Protect, VerifyProtected, CaptureRecovers, CaptureFamily,
       ApplyFlag, ApplyDelete, ApplyVerify, Serve, Refresh, Accept, AcceptTimesOut, ServingEnds,
       Stop, Crash, RouteAppears, NewLease, LeaseExpires, UserEnables, Unplug, PlugIn, Procs
  <2>2. e = loc[p].cur.entry /\ loc[p].pc = "persist" /\ owned' = owned
    BY <2>1 DEF PersistPolicy
  <2>3. Genuine(e)
    BY <2>2 DEF IInv, KnownInv, Known, Current, HasCur
  <2> QED
    BY <2>3 DEF Genuine, UserFlag
<1> QED
  BY <1>1, Invariance, PTL DEF Spec, OriginalIsOriginal

-----------------------------------------------------------------------------
\* A flag that the user set stays, one that the user did not set is not left
\* behind as the user's: hosts only set and clear what they own.
LEMMA UserFlagStep ==
    ASSUME IInv, [Next]_vars PROVE \A f \in Families : UserFlag(f)' <=> UserFlag(f)
<1>0. /\ flag \in [Families -> BOOLEAN] /\ owned \in [Families -> BOOLEAN]
      /\ \A f \in Families : owned[f] => flag[f]
  BY DEF IInv, TypeOK, TablesOK, KnownInv
<1>1. CASE flag' = flag /\ owned' = owned
  BY <1>1 DEF UserFlag
<1>2. ASSUME NEW S, VerifyEnforced(S) PROVE \A f \in Families : UserFlag(f)' <=> UserFlag(f)
  BY <1>0, <1>2 DEF VerifyEnforced, UserFlag
<1>3. ASSUME NEW p \in Procs, ApplyFlag(p) PROVE \A f \in Families : UserFlag(f)' <=> UserFlag(f)
  <2>1. loc[p].cur.entry.family \in Families
    <3>1. Fits(loc[p]) /\ loc[p].pc = "apply"
      BY <1>3 DEF IInv, ProcInv, ApplyFlag
    <3> QED
      BY <3>1 DEF Fits, HasCur, Snap, Entry
  <2>2. CASE UNCHANGED <<flag, owned>>
    BY <2>2 DEF UserFlag
  <2>3. CASE /\ flag' = [flag EXCEPT ![loc[p].cur.entry.family] = TRUE]
             /\ owned' = [owned EXCEPT ![loc[p].cur.entry.family] = @ \/ ~flag[loc[p].cur.entry.family]]
    BY <1>0, <2>1, <2>3 DEF UserFlag
  <2> QED
    BY <1>3, <2>2, <2>3 DEF ApplyFlag
<1>4. ASSUME NEW p \in Procs, UndoFlag(p) PROVE \A f \in Families : UserFlag(f)' <=> UserFlag(f)
  <2>1. PICK e \in Entry : e = loc[p].cur.entry /\ Genuine(e)
    <3>1. Fits(loc[p]) /\ HasCur(loc[p])
      BY <1>4 DEF IInv, ProcInv, UndoFlag, HasCur
    <3> QED
      BY <3>1 DEF Fits, Snap, IInv, KnownInv, Known, Current
  <2>2. PICK g \in Families : g = e.family
    BY DEF Entry
  <2>3. CASE UNCHANGED <<flag, owned>>
    BY <2>3 DEF UserFlag
  <2>4. CASE /\ flag' = [flag EXCEPT ![g] = @ /\ ~ShouldRestoreOwnedFlag(flag[g], e.flag)]
             /\ owned' = [owned EXCEPT ![g] = @ /\ ~ShouldRestoreOwnedFlag(flag[g], e.flag)]
    <3>1. /\ flag'[g] <=> flag[g] /\ e.flag
          /\ owned'[g] <=> owned[g] /\ ~(flag[g] /\ ~e.flag)
          /\ \A f \in Families \ {g} : flag'[f] = flag[f] /\ owned'[f] = owned[f]
      BY <1>0, <2>4 DEF ShouldRestoreOwnedFlag
    <3>2. UserFlag(g)' <=> UserFlag(g)
      BY <1>0, <2>1, <2>2, <3>1 DEF Genuine, UserFlag
    <3> QED
      BY <3>1, <3>2 DEF UserFlag
  <2> QED
    BY <1>4, <2>1, <2>2, <2>3, <2>4 DEF UndoFlag
<1>5. CASE UserEnables
  <2>1. PICK g \in Families : /\ owned[g]
                              /\ flag' = [flag EXCEPT ![g] = FALSE]
                              /\ owned' = [owned EXCEPT ![g] = FALSE]
    BY <1>5 DEF UserEnables
  <2> QED
    BY <1>0, <2>1 DEF UserFlag
<1>6. ASSUME NEW p \in Procs, Refresh(p) \/ VerifyProtected(p) \/ ApplyVerify(p)
      PROVE  (flag' = flag /\ owned' = owned) \/ \E S : VerifyEnforced(S)
  BY <1>6 DEF Refresh, VerifyProtected, ApplyVerify
<1>7. \/ flag' = flag /\ owned' = owned
      \/ UserEnables
      \/ \E p \in Procs : UndoFlag(p) \/ ApplyFlag(p) \/ Refresh(p) \/ VerifyProtected(p) \/ ApplyVerify(p)
  BY DEF Next, vars, Windows, PersistedPolicies, Recover, RecoverPolicy, RecoveryOutcome,
     Undo, UndoRoute, UndoUnconfirmed, RemovePolicyValue, CallFails, Restore,
     RestoreSnapshot, RollbackEnds, Protect, CaptureRecovers, CaptureFamily, PersistPolicy,
     ApplyDelete, Serve, Accept, AcceptTimesOut, ServingEnds,
     Stop, Crash, RouteAppears, NewLease, LeaseExpires, Unplug, PlugIn, Procs
<1> QED
  BY <1>1, <1>2, <1>3, <1>4, <1>5, <1>6, <1>7

UserFlagKept == [][\A f \in Families : UserFlag(f)' <=> UserFlag(f)]_vars

\* UserFlagKept: no step of a host, a recovery or a crash changes whether an
\* interface has a DisableDefaultRoutes that the user set (should_restore_owned_flag()).
THEOREM UserFlagUntouched == Spec => UserFlagKept
<1>1. IInv /\ [Next]_vars => [\A f \in Families : UserFlag(f)' <=> UserFlag(f)]_vars
  BY UserFlagStep
<1> QED
  BY <1>1, Invariance, PTL DEF Spec, UserFlagKept
-----------------------------------------------------------------------------
\* What a rollback may still restore; what it could not is kept for its last pass.
InHand(l) ==
    IF l.mode # "rollback" THEN {}
    ELSE EntriesOf(l.work) \cup (IF l.pc = "undo" THEN Current(l) ELSE {})

Pending(l) == EntriesOf(l.snaps) \cup InHand(l)

\* The last rollback of a host takes all that it has.
LastPass(l) == l.mode = "rollback" /\ ~l.again => l.snaps = <<>>

\* A step that leads to l learns nothing but the journal and gives nothing up.
Moves(p, l) ==
    /\ l.pc \notin {"undo", "forget", "persist"}
    /\ Known(l) \subseteq Known(loc[p]) \cup journal
    /\ LastPass(loc[p]) => LastPass(l) /\ Pending(loc[p]) \subseteq Pending(l)

\* Where a step leads is what the process does next.
LEMMA Arrives ==
    ASSUME IInv, IInv', NEW p \in Procs, NEW x, Goto(p, x)
    PROVE  loc[p] \in Local /\ ProcInv(p) /\ x \in Local /\ loc'[p] = x
  BY DEF IInv, TypeOK, Goto

\* A process that keeps its snapshots and does not roll back.
LEMMA KeepMoves ==
    ASSUME NEW p \in Procs, NEW l, loc[p].mode # "rollback", l.mode # "rollback",
           l.pc \notin {"undo", "forget", "persist"},
           l.snaps = loc[p].snaps, l.work = loc[p].work, l.keep = loc[p].keep,
           l.queue \subseteq loc[p].queue \cup journal,
           HasCur(l) => l.cur.entry \in Known(loc[p])
    PROVE  Moves(p, l)
<1>1. LastPass(l) /\ Pending(l) = Pending(loc[p])
  BY DEF LastPass, Pending, InHand
<1>2. Known(l) \subseteq Known(loc[p]) \cup journal
  BY DEF Known, Held, Current
<1> QED
  BY <1>1, <1>2 DEF Moves

\* A process that ends with nothing to restore.
LEMMA ExitMoves ==
    ASSUME NEW p \in Procs, LastPass(loc[p]) => Pending(loc[p]) = {}
    PROVE  Moves(p, Gone(p))
<1>1. PICK l : l = Gone(p)
  OBVIOUS
<1>2. l.mode = "start" /\ l.pc \in {"off", "dead"} /\ Known(l) = {}
  BY <1>1, GoneLocal
<1> QED
  BY <1>1, <1>2 DEF Moves, LastPass

\* A rollback is to restore all that the host has.
LEMMA RollbackPending ==
    ASSUME NEW l \in Local, NEW start \in 0 .. Len(l.snaps), NEW again \in BOOLEAN
    PROVE  Pending(Rollback(l, start, again)) = EntriesOf(l.snaps)
<1>1. PICK r : r = Rollback(l, start, again)
  OBVIOUS
<1>2. r.pc = "restore" /\ r.mode = "rollback"
  BY <1>1, RollbackLocal
<1>3. EntriesOf(r.snaps) \cup EntriesOf(r.work) = EntriesOf(l.snaps)
  <2>1. EntriesOf(Rollback(l, start, again).snaps) \cup EntriesOf(Rollback(l, start, again).work)
          = EntriesOf(l.snaps)
    BY RollbackLocal
  <2> QED
    BY <1>1, <2>1
<1> QED
  BY <1>1, <1>2, <1>3 DEF Pending, InHand

\* A host that begins to roll back gives nothing up.
LEMMA RollbackMoves ==
    ASSUME NEW p \in Procs, loc[p] \in Local, loc[p].mode # "rollback",
           NEW start \in 0 .. Len(loc[p].snaps), NEW again \in BOOLEAN, start = 0 \/ again = TRUE
    PROVE  Moves(p, Rollback(loc[p], start, again))
<1>1. PICK l : l = Rollback(loc[p], start, again)
  OBVIOUS
<1>2. l.pc = "restore" /\ l.mode = "rollback" /\ l.queue = loc[p].queue
  BY <1>1, RollbackLocal
<1>3. Held(l) = EntriesOf(loc[p].snaps) /\ (start = 0 => l.snaps = <<>>)
  BY <1>1, RollbackLocal
<1>4. start # 0 => l.again = TRUE
  BY <1>1 DEF Rollback, Local
<1>5. LastPass(l)
  BY <1>3, <1>4 DEF LastPass
<1>6. Pending(l) = EntriesOf(loc[p].snaps)
  BY <1>1, RollbackPending
<1>7. Pending(loc[p]) = EntriesOf(loc[p].snaps)
  BY DEF Pending, InHand
<1>8. Known(l) \subseteq Known(loc[p])
  BY <1>2, <1>3 DEF Known, Held, Current, HasCur
<1> QED
  BY <1>1, <1>2, <1>5, <1>6, <1>7, <1>8 DEF Moves

\* An error return gives nothing up, except what a rollback had in hand.
LEMMA FailMoves ==
    ASSUME IInv, IInv', NEW p \in Procs, Fail(p), loc[p].pc \notin {"off", "dead"},
           loc[p].mode = "rollback" => HasCur(loc[p])
    PROVE  /\ loc[p].mode # "rollback" => Moves(p, loc'[p])
           /\ \E l \in Local :
                /\ Goto(p, l) /\ loc'[p] = l
                /\ l.pc \notin {"undo", "forget", "persist"}
                /\ Known(l) \subseteq Known(loc[p]) \cup journal
                /\ LastPass(loc[p]) => LastPass(l)
                /\ LastPass(loc[p]) =>
                     \A e \in Pending(loc[p]) : e \in Pending(l) \/ e = loc[p].cur.entry
<1>1. /\ Fits(loc[p]) /\ loc[p] \in Local /\ loc[p].snaps \in Seq(Snap)
      /\ Len(loc[p].snaps) \in Nat /\ loc[p].txn \in Nat
  BY DEF IInv, TypeOK, ProcInv, Local
<1>2. \A x : Goto(p, x) => loc'[p] = x /\ loc'[p] \in Local
  BY Arrives
<1>3. ASSUME NEW x, Goto(p, x), Moves(p, x), loc[p].mode # "rollback"
      PROVE  /\ loc[p].mode # "rollback" => Moves(p, loc'[p])
             /\ \E l \in Local :
                  /\ Goto(p, l) /\ loc'[p] = l
                  /\ l.pc \notin {"undo", "forget", "persist"}
                  /\ Known(l) \subseteq Known(loc[p]) \cup journal
                  /\ LastPass(loc[p]) => LastPass(l)
                  /\ LastPass(loc[p]) =>
                       \A e \in Pending(loc[p]) : e \in Pending(l) \/ e = loc[p].cur.entry
  BY <1>2, <1>3 DEF Moves
<1>4. CASE loc[p].mode = "start"
  <2>1. Goto(p, Gone(p))
    BY <1>4 DEF Fail, Exit
  <2>2. Pending(loc[p]) = {}
    BY <1>1, <1>4, SnapEntries DEF Fits, Pending, InHand
  <2>3. Moves(p, Gone(p))
    BY <2>2, ExitMoves
  <2> QED
    BY <1>3, <1>4, <2>1, <2>3
<1>5. CASE loc[p].mode = "capture"
  <2>1. loc[p].txn \in 0 .. Len(loc[p].snaps) /\ TRUE \in BOOLEAN
    BY <1>1, <1>5 DEF Fits
  <2>2. Goto(p, Rollback(loc[p], loc[p].txn, TRUE))
    BY <1>5 DEF Fail
  <2>3. Moves(p, Rollback(loc[p], loc[p].txn, TRUE))
    BY <1>1, <1>5, <2>1, RollbackMoves
  <2> QED
    BY <1>3, <1>5, <2>2, <2>3
<1>6. CASE loc[p].mode = "serve"
  <2>1. 0 \in 0 .. Len(loc[p].snaps) /\ FALSE \in BOOLEAN
    BY <1>1
  <2>2. Goto(p, Rollback(loc[p], 0, FALSE))
    BY <1>6 DEF Fail
  <2>3. Moves(p, Rollback(loc[p], 0, FALSE))
    BY <1>1, <1>6, <2>1, RollbackMoves
  <2> QED
    BY <1>3, <1>6, <2>2, <2>3
<1>7. CASE loc[p].mode = "rollback"
  <2>1. PICK k \in Seq(Snap) : /\ k = <<loc[p].cur>> \o loc[p].keep
                               /\ EntriesOf(k) = EntriesOf(loc[p].keep) \cup {loc[p].cur.entry}
    <3>1. loc[p].cur \in Snap /\ loc[p].keep \in Seq(Snap)
      BY <1>1, <1>7 DEF Fits, Local
    <3> QED
      BY <3>1, PushSnap
  <2>2. PICK l : l = [loc[p] EXCEPT !.pc = "restore", !.keep = k]
    OBVIOUS
  <2>3. Goto(p, l)
    BY <1>7, <2>1, <2>2 DEF Fail
  <2>4. /\ l.pc = "restore" /\ l.mode = "rollback" /\ l.again = loc[p].again /\ l.queue = loc[p].queue
        /\ l.snaps = loc[p].snaps /\ l.work = loc[p].work /\ l.keep = k
    BY <1>1, <1>7, <2>2 DEF Local
  <2>5. Current(loc[p]) = {loc[p].cur.entry}
    BY <1>7 DEF Current
  <2>6. Known(l) \subseteq Known(loc[p])
    <3>1. Held(l) = Held(loc[p]) \cup {loc[p].cur.entry}
      BY <2>1, <2>4 DEF Held
    <3>2. Current(l) = {}
      BY <2>4 DEF Current, HasCur
    <3> QED
      BY <2>4, <2>5, <3>1, <3>2 DEF Known
  <2>7. LastPass(loc[p]) => LastPass(l)
    BY <1>7, <2>4 DEF LastPass
  <2>8. \A e \in Pending(loc[p]) : e \in Pending(l) \/ e = loc[p].cur.entry
    BY <1>7, <2>4, <2>5 DEF Pending, InHand
  <2> QED
    BY <1>2, <1>7, <2>3, <2>4, <2>6, <2>7, <2>8
<1> QED
  BY <1>1, <1>4, <1>5, <1>6, <1>7 DEF Local

\* The steps that leave the routes and the journal alone, and plan nothing.
LEMMA QuietMoves ==
    ASSUME IInv, IInv', NEW p \in Procs,
           \/ PersistedPolicies(p) \/ RecoveryOutcome(p) \/ Refresh(p) \/ VerifyProtected(p)
           \/ ApplyVerify(p) \/ ApplyFlag(p) \/ CaptureRecovers(p)
           \/ Accept(p) \/ AcceptTimesOut(p) \/ ServingEnds(p) \/ Stop(p) \/ RollbackEnds(p)
    PROVE  Moves(p, loc'[p])
<1>1. /\ loc[p] \in Local /\ Fits(loc[p]) /\ loc[p].snaps \in Seq(Snap)
      /\ loc[p].keep \in Seq(Snap) /\ Len(loc[p].snaps) \in Nat
  BY DEF IInv, TypeOK, ProcInv, Local
<1>2. ASSUME NEW x, Goto(p, x), loc[p].mode # "rollback", x.mode # "rollback",
             x.pc \notin {"undo", "forget", "persist"},
             x.snaps = loc[p].snaps, x.work = loc[p].work, x.keep = loc[p].keep,
             x.queue \subseteq loc[p].queue \cup journal,
             HasCur(x) => x.cur.entry \in Known(loc[p])
      PROVE  Moves(p, loc'[p])
  BY <1>2, Arrives, KeepMoves
<1>3. ASSUME NEW x \in Steps, x \notin {"undo", "forget", "persist", "apply", "delete"},
             loc[p].mode # "rollback", Goto(p, [loc[p] EXCEPT !.pc = x])
      PROVE  Moves(p, loc'[p])
  <2>1. PICK l : l = [loc[p] EXCEPT !.pc = x]
    OBVIOUS
  <2>2. /\ l.pc = x /\ l.mode = loc[p].mode /\ l.queue = loc[p].queue /\ l.snaps = loc[p].snaps
        /\ l.work = loc[p].work /\ l.keep = loc[p].keep
    BY <1>1, <2>1 DEF Local
  <2>3. ~HasCur(l)
    BY <1>3, <2>2 DEF HasCur
  <2> QED
    BY <1>2, <1>3, <2>1, <2>2, <2>3
<1>4. ASSUME Exit(p), loc[p].mode = "start" PROVE Moves(p, loc'[p])
  <2>1. Pending(loc[p]) = {}
    BY <1>1, <1>4, SnapEntries DEF Fits, Pending, InHand
  <2>2. loc'[p] = Gone(p)
    BY <1>4, Arrives DEF Exit
  <2> QED
    BY <2>1, <2>2, ExitMoves
<1>5. ASSUME Fail(p), loc[p].mode \in {"serve", "capture"} PROVE Moves(p, loc'[p])
  <2>1. loc[p].pc \notin {"off", "dead"}
    BY <1>1, <1>5 DEF Fits
  <2> QED
    BY <1>5, <2>1, FailMoves
<1>6. CASE PersistedPolicies(p)
  <2>1. PICK x : x = [loc[p] EXCEPT !.pc = "recover", !.mode = "start", !.again = p # Launcher,
                                    !.bad = {}, !.queue = journal]
    OBVIOUS
  <2>2. /\ x.mode = "start" /\ x.pc = "recover" /\ x.snaps = loc[p].snaps /\ x.work = loc[p].work
        /\ x.keep = loc[p].keep /\ x.queue = journal
    BY <1>1, <2>1 DEF Local
  <2>3. Goto(p, x) /\ loc[p].mode # "rollback" /\ ~HasCur(x)
    BY <1>1, <1>6, <2>1, <2>2 DEF PersistedPolicies, Fits, HasCur
  <2> QED
    BY <1>2, <2>2, <2>3
<1>7. CASE RecoveryOutcome(p)
  <2>1. loc[p].pc = "recover" /\ loc[p].mode \in {"start", "capture"}
    BY <1>1, <1>7 DEF RecoveryOutcome, Fits
  <2>2. CASE Goto(p, [loc[p] EXCEPT !.again = FALSE, !.bad = {}, !.queue = journal])
    <3>1. PICK x : x = [loc[p] EXCEPT !.again = FALSE, !.bad = {}, !.queue = journal]
      OBVIOUS
    <3>2. /\ x.mode = loc[p].mode /\ x.pc = loc[p].pc /\ x.snaps = loc[p].snaps
          /\ x.work = loc[p].work /\ x.keep = loc[p].keep /\ x.queue = journal
      BY <1>1, <3>1 DEF Local
    <3>3. ~HasCur(x)
      BY <2>1, <3>2 DEF HasCur
    <3> QED
      BY <1>2, <2>1, <2>2, <3>1, <3>2, <3>3
  <2>3. CASE Goto(p, [loc[p] EXCEPT !.pc = "loop", !.mode = "serve"])
    <3>1. PICK x : x = [loc[p] EXCEPT !.pc = "loop", !.mode = "serve"]
      OBVIOUS
    <3>2. /\ x.mode = "serve" /\ x.pc = "loop" /\ x.snaps = loc[p].snaps
          /\ x.work = loc[p].work /\ x.keep = loc[p].keep /\ x.queue = loc[p].queue
      BY <1>1, <3>1 DEF Local
    <3>3. ~HasCur(x)
      BY <3>2 DEF HasCur
    <3> QED
      BY <1>2, <2>1, <2>3, <3>1, <3>2, <3>3
  <2>4. CASE Goto(p, [loc[p] EXCEPT !.pc = "capture"])
    <3>1. "capture" \in Steps
      BY DEF Steps
    <3> QED
      BY <1>3, <2>1, <2>4, <3>1
  <2> QED
    BY <1>4, <1>5, <1>7, <2>2, <2>3, <2>4 DEF RecoveryOutcome
<1>8. CASE Refresh(p) \/ VerifyProtected(p) \/ ApplyVerify(p)
  <2>1. loc[p].mode \in {"serve", "capture"} /\ "listen" \in Steps /\ "protect" \in Steps
    BY <1>1, <1>8 DEF Refresh, VerifyProtected, ApplyVerify, Fits, Steps
  <2>2. CASE Goto(p, [loc[p] EXCEPT !.pc = "protect", !.fi = loc[p].fi + 1])
    <3>1. PICK x : x = [loc[p] EXCEPT !.pc = "protect", !.fi = loc[p].fi + 1]
      OBVIOUS
    <3>2. /\ x.mode = loc[p].mode /\ x.pc = "protect" /\ x.snaps = loc[p].snaps
          /\ x.work = loc[p].work /\ x.keep = loc[p].keep /\ x.queue = loc[p].queue
      BY <1>1, <3>1 DEF Local
    <3>3. ~HasCur(x)
      BY <3>2 DEF HasCur
    <3> QED
      BY <1>2, <2>1, <2>2, <3>1, <3>2, <3>3
  <2> QED
    BY <1>3, <1>5, <1>8, <2>1, <2>2 DEF Refresh, VerifyProtected, ApplyVerify
<1>9. CASE ApplyFlag(p)
  <2>1. loc[p].mode = "capture" /\ loc[p].pc = "apply" /\ loc[p].cur.entry \in Known(loc[p])
    BY <1>1, <1>9 DEF ApplyFlag, Fits, Known, Current, HasCur
  <2>2. CASE Goto(p, [loc[p] EXCEPT !.pc = "delete", !.avail = loc[p].cur.entry.routes])
    <3>1. PICK x : x = [loc[p] EXCEPT !.pc = "delete", !.avail = loc[p].cur.entry.routes]
      OBVIOUS
    <3>2. /\ x.mode = loc[p].mode /\ x.pc = "delete" /\ x.snaps = loc[p].snaps /\ x.cur = loc[p].cur
          /\ x.work = loc[p].work /\ x.keep = loc[p].keep /\ x.queue = loc[p].queue
      BY <1>1, <3>1 DEF Local
    <3> QED
      BY <1>2, <2>1, <2>2, <3>1, <3>2
  <2> QED
    BY <1>5, <1>9, <2>1, <2>2 DEF ApplyFlag
<1>10. CASE CaptureRecovers(p)
  <2>1. loc[p].pc = "protect" /\ loc[p].mode = "capture"
    BY <1>1, <1>10 DEF CaptureRecovers, Fits
  <2>2. CASE Goto(p, [loc[p] EXCEPT !.pc = "serving", !.mode = "serve"])
    <3>1. PICK x : x = [loc[p] EXCEPT !.pc = "serving", !.mode = "serve"]
      OBVIOUS
    <3>2. /\ x.mode = "serve" /\ x.pc = "serving" /\ x.snaps = loc[p].snaps
          /\ x.work = loc[p].work /\ x.keep = loc[p].keep /\ x.queue = loc[p].queue
      BY <1>1, <3>1 DEF Local
    <3>3. ~HasCur(x)
      BY <3>2 DEF HasCur
    <3> QED
      BY <1>2, <2>1, <2>2, <3>1, <3>2, <3>3
  <2>3. CASE Goto(p, [loc[p] EXCEPT !.fi = loc[p].fi + 1])
    <3>1. PICK x : x = [loc[p] EXCEPT !.fi = loc[p].fi + 1]
      OBVIOUS
    <3>2. /\ x.mode = "capture" /\ x.pc = "protect" /\ x.snaps = loc[p].snaps
          /\ x.work = loc[p].work /\ x.keep = loc[p].keep /\ x.queue = loc[p].queue
      BY <1>1, <2>1, <3>1 DEF Local
    <3>3. ~HasCur(x)
      BY <3>2 DEF HasCur
    <3> QED
      BY <1>2, <2>1, <2>3, <3>1, <3>2, <3>3
  <2>4. CASE Goto(p, [loc[p] EXCEPT !.pc = "recover", !.bad = {},
                                    !.queue = {e \in journal : e.family = FamilyOrder[loc[p].fi]}])
    <3>1. PICK x : x = [loc[p] EXCEPT !.pc = "recover", !.bad = {},
                                    !.queue = {e \in journal : e.family = FamilyOrder[loc[p].fi]}]
      OBVIOUS
    <3>2. /\ x.mode = "capture" /\ x.pc = "recover" /\ x.snaps = loc[p].snaps
          /\ x.work = loc[p].work /\ x.keep = loc[p].keep /\ x.queue \subseteq journal
      BY <1>1, <2>1, <3>1 DEF Local
    <3>3. ~HasCur(x)
      BY <3>2 DEF HasCur
    <3> QED
      BY <1>2, <2>1, <2>4, <3>1, <3>2, <3>3
  <2> QED
    BY <1>5, <1>10, <2>1, <2>2, <2>3, <2>4 DEF CaptureRecovers
<1>11. CASE Accept(p)
  <2>1. PICK x : x = [loc[p] EXCEPT !.pc = "verify", !.mode = "capture", !.bind = mac,
                                    !.txn = Len(loc[p].snaps), !.fi = 1]
    OBVIOUS
  <2>2. /\ x.mode = "capture" /\ x.pc = "verify" /\ x.snaps = loc[p].snaps
        /\ x.work = loc[p].work /\ x.keep = loc[p].keep /\ x.queue = loc[p].queue
    BY <1>1, <2>1 DEF Local
  <2>3. Goto(p, x) /\ loc[p].mode = "serve" /\ ~HasCur(x)
    BY <1>1, <1>11, <2>1, <2>2 DEF Accept, Fits, HasCur
  <2> QED
    BY <1>2, <2>2, <2>3
<1>12. CASE AcceptTimesOut(p) \/ ServingEnds(p)
  <2>1. Goto(p, [loc[p] EXCEPT !.pc = "loop"]) /\ loc[p].mode = "serve" /\ "loop" \in Steps
    BY <1>1, <1>12 DEF AcceptTimesOut, ServingEnds, Fits, Steps
  <2> QED
    BY <1>3, <2>1
<1>13. CASE Stop(p)
  <2>1. PICK again \in BOOLEAN : Goto(p, Rollback(loc[p], 0, again))
    BY <1>13 DEF Stop
  <2>2. 0 \in 0 .. Len(loc[p].snaps) /\ loc[p].mode = "serve"
    BY <1>1, <1>13 DEF Stop, Fits
  <2>3. Moves(p, Rollback(loc[p], 0, again))
    BY <1>1, <2>2, RollbackMoves
  <2> QED
    BY <2>1, <2>3, Arrives
<1>14. CASE RollbackEnds(p)
  <2>1. loc[p].mode = "rollback" /\ loc[p].pc = "restore" /\ loc[p].work = <<>> /\ EntriesOf(<<>>) = {}
    BY <1>1, <1>14, SnapEntries DEF RollbackEnds, Fits
  <2>2. Pending(loc[p]) = EntriesOf(loc[p].snaps)
    BY <2>1 DEF Pending, InHand
  <2>3. CASE Exit(p) /\ ~loc[p].again
    <3>1. LastPass(loc[p]) => Pending(loc[p]) = {}
      BY <2>1, <2>2, <2>3 DEF LastPass
    <3>2. loc'[p] = Gone(p)
      BY <2>3, Arrives DEF Exit
    <3> QED
      BY <3>1, <3>2, ExitMoves
  <2>4. CASE Goto(p, [loc[p] EXCEPT !.again = FALSE, !.work = loc[p].snaps \o loc[p].keep,
                                    !.snaps = <<>>, !.keep = <<>>])
    <3>1. PICK w \in Seq(Snap) : w = loc[p].snaps \o loc[p].keep
      BY <1>1, JoinSnaps
    <3>2. EntriesOf(w) = EntriesOf(loc[p].snaps) \cup EntriesOf(loc[p].keep)
      BY <1>1, <3>1, JoinSnaps
    <3>3. PICK l : l = [loc[p] EXCEPT !.again = FALSE, !.work = w, !.snaps = <<>>, !.keep = <<>>]
      OBVIOUS
    <3>4. loc'[p] = l
      BY <2>4, <3>1, <3>3, Arrives
    <3>5. /\ l.pc = "restore" /\ l.mode = "rollback" /\ l.queue = loc[p].queue
          /\ l.work = w /\ l.snaps = <<>> /\ l.keep = <<>>
      BY <1>1, <2>1, <3>3 DEF Local
    <3>6. Held(l) \subseteq Held(loc[p]) /\ ~HasCur(l)
      BY <2>1, <3>2, <3>5 DEF Held, HasCur
    <3>7. LastPass(l) /\ Known(l) \subseteq Known(loc[p])
      BY <3>5, <3>6 DEF LastPass, Known, Current
    <3>8. Pending(loc[p]) \subseteq Pending(l)
      BY <2>2, <3>2, <3>5 DEF Pending, InHand
    <3>9. l.pc \notin {"undo", "forget", "persist"}
      BY <3>5
    <3> QED
      BY <3>4, <3>7, <3>8, <3>9 DEF Moves
  <2> QED
    BY <1>14, <2>3, <2>4 DEF RollbackEnds
<1> QED
  BY <1>6, <1>7, <1>8, <1>9, <1>10, <1>11, <1>12, <1>13, <1>14

\* What a process plans to undo: a snapshot that it knows of.
Planned(p, l) ==
    /\ l.pc = "undo" /\ l.cur \in Snap /\ l.made = {}
    /\ l.avail = Missing(l.cur.entry, "Available")
    /\ l.unconf = Missing(l.cur.entry, "Unconfirmed")
    /\ Known(l) \subseteq Known(loc[p])
    /\ LastPass(loc[p]) => LastPass(l) /\ Pending(loc[p]) \subseteq Pending(l)

\* A plan is made from what a process knows.
LEMMA PlanKnows ==
    ASSUME NEW p \in Procs, NEW a \in Local, NEW s \in Snap, LastPass(loc[p]) => LastPass(a),
           s.entry \in Known(loc[p]), a.queue \subseteq Known(loc[p]), Held(a) \subseteq Known(loc[p]),
           \A e \in Pending(loc[p]) :
             \/ e \in EntriesOf(a.snaps)
             \/ a.mode = "rollback" /\ e \in EntriesOf(a.work) \cup {s.entry}
    PROVE  Planned(p, UndoPlan(a, s))
<1>1. PICK l : l = UndoPlan(a, s)
  OBVIOUS
<1>2. /\ l.pc = "undo" /\ l.cur = s /\ l.mode = a.mode /\ l.again = a.again /\ l.queue = a.queue
      /\ l.snaps = a.snaps /\ l.work = a.work /\ l.keep = a.keep /\ l.made = {}
      /\ l.avail = Missing(s.entry, "Available") /\ l.unconf = Missing(s.entry, "Unconfirmed")
  BY <1>1, PlanLocal
<1>3. LastPass(a) => LastPass(l)
  BY <1>2 DEF LastPass
<1>4. Current(l) = {s.entry} /\ Held(l) = Held(a)
  BY <1>2 DEF Current, HasCur, Held
<1>5. Known(l) \subseteq Known(loc[p])
  BY <1>2, <1>4 DEF Known
<1>6. Pending(loc[p]) \subseteq Pending(l)
  BY <1>2, <1>4 DEF Pending, InHand
<1> QED
  BY <1>1, <1>2, <1>3, <1>5, <1>6 DEF Planned

\* While the adapter is there, a rollback and a recovery of a dead host's entry
\* go on with a plan.
LEMMA Plans ==
    ASSUME IInv, IInv', present, NEW p \in Procs, RecoverPolicy(p) \/ RestoreSnapshot(p)
    PROVE  Moves(p, loc'[p]) \/ Planned(p, loc'[p])
<1>1. /\ loc[p] \in Local /\ Fits(loc[p]) /\ TablesOK
      /\ loc[p].snaps \in Seq(Snap) /\ loc[p].work \in Seq(Snap)
  BY DEF IInv, TypeOK, ProcInv, Local
<1>2. CASE RestoreSnapshot(p)
  <2>1. loc[p].mode = "rollback" /\ loc[p].pc = "restore" /\ Len(loc[p].work) > 0
    BY <1>1, <1>2 DEF RestoreSnapshot, Fits
  <2>2. PICK w \in Seq(Snap) : w = SubSeq(loc[p].work, 1, Len(loc[p].work) - 1)
    BY <1>1, <2>1, LastSnap
  <2>3. PICK s \in Snap : s = loc[p].work[Len(loc[p].work)]
    BY <1>1, <2>1, LastSnap
  <2>4. EntriesOf(loc[p].work) = EntriesOf(w) \cup {s.entry}
    BY <1>1, <2>1, <2>2, <2>3, LastSnap
  <2>5. PICK a : a = [loc[p] EXCEPT !.work = w]
    OBVIOUS
  <2>6. a \in Local
    BY <1>1, <2>5, LocalEdits, Zenon
  <2>7. /\ a.mode = "rollback" /\ a.again = loc[p].again /\ a.queue = loc[p].queue
        /\ a.snaps = loc[p].snaps /\ a.work = w /\ a.keep = loc[p].keep
    BY <1>1, <2>1, <2>5 DEF Local
  <2>8. loc'[p] = UndoPlan(a, s)
    BY <1>2, <2>2, <2>3, <2>5, Arrives DEF RestoreSnapshot, AdapterFound
  <2>9. LastPass(loc[p]) => LastPass(a)
    BY <2>1, <2>7 DEF LastPass
  <2>10. Held(loc[p]) = Held(a) \cup {s.entry}
    BY <2>4, <2>7 DEF Held
  <2>11. s.entry \in Known(loc[p]) /\ a.queue \subseteq Known(loc[p]) /\ Held(a) \subseteq Known(loc[p])
    BY <2>7, <2>10 DEF Known
  <2>12. Pending(loc[p]) = UNION {EntriesOf(a.snaps), EntriesOf(a.work), {s.entry}}
    BY <2>1, <2>4, <2>7 DEF Pending, InHand
  <2> QED
    BY <2>6, <2>7, <2>8, <2>9, <2>11, <2>12, PlanKnows
<1>3. CASE RecoverPolicy(p)
  <2>1. loc[p].pc = "recover" /\ loc[p].mode \in {"start", "capture"}
    BY <1>1, <1>3 DEF RecoverPolicy, Fits
  <2>2. PICK e \in loc[p].queue :
           LET l == [loc[p] EXCEPT !.queue = loc[p].queue \ {e}] IN
           \/ Goto(p, [l EXCEPT !.bad = l.bad \cup {"OwnerStillRunning"}])
           \/ Goto(p, UndoPlan(l, [entry |-> e, mac |-> mac]))
    BY <1>3 DEF RecoverPolicy, AdapterFound
  <2>3. PICK a : a = [loc[p] EXCEPT !.queue = loc[p].queue \ {e}]
    OBVIOUS
  <2>4. e \in Entry /\ loc[p].queue \ {e} \in SUBSET Entry
    BY <1>1 DEF Local
  <2>5. a \in Local
    BY <1>1, <2>3, <2>4, LocalEdits, Zenon
  <2>6. /\ a.pc = "recover" /\ a.mode = loc[p].mode /\ a.again = loc[p].again
        /\ a.queue = loc[p].queue \ {e} /\ a.snaps = loc[p].snaps /\ a.work = loc[p].work
        /\ a.keep = loc[p].keep
    BY <1>1, <2>1, <2>3 DEF Local
  <2>7. CASE Goto(p, [a EXCEPT !.bad = a.bad \cup {"OwnerStillRunning"}])
    <3>1. PICK l : l = [a EXCEPT !.bad = a.bad \cup {"OwnerStillRunning"}]
      OBVIOUS
    <3>2. /\ l.pc = "recover" /\ l.mode = loc[p].mode /\ l.queue \subseteq loc[p].queue
          /\ l.snaps = loc[p].snaps /\ l.work = loc[p].work /\ l.keep = loc[p].keep
      BY <2>5, <2>6, <3>1 DEF Local
    <3>3. ~HasCur(l)
      BY <3>2 DEF HasCur
    <3>4. loc'[p] = l
      BY <2>7, <3>1, Arrives
    <3> QED
      BY <2>1, <3>2, <3>3, <3>4, KeepMoves
  <2>8. CASE Goto(p, UndoPlan(a, [entry |-> e, mac |-> mac]))
    <3>1. PICK s \in Snap : s = [entry |-> e, mac |-> mac]
      BY <1>1, <2>4 DEF Snap, TablesOK
    <3>2. s.entry = e /\ loc'[p] = UndoPlan(a, s)
      BY <2>8, <3>1, Arrives
    <3>3. LastPass(a)
      BY <2>1, <2>6 DEF LastPass
    <3>4. Held(a) = Held(loc[p])
      BY <2>6 DEF Held
    <3>5. e \in Known(loc[p]) /\ a.queue \subseteq Known(loc[p]) /\ Held(a) \subseteq Known(loc[p])
      BY <2>2, <2>6, <3>4 DEF Known
    <3>6. Pending(loc[p]) = EntriesOf(a.snaps)
      BY <2>1, <2>6 DEF Pending, InHand
    <3> QED
      BY <2>5, <3>1, <3>2, <3>3, <3>5, <3>6, PlanKnows
  <2> QED
    BY <2>2, <2>3, <2>7, <2>8
<1> QED
  BY <1>2, <1>3

-----------------------------------------------------------------------------
\* The routes the adapter has, or would have but for the policy.
Reach(f) == routes[f] \cup (removed[f] \cap lease[f])

\* The entry of a family names the routes it has and the ones it lost.
RoutesHeld(f) ==
    /\ removed[f] \cap routes[f] = {}
    /\ \A e \in Entries(f) : Reach(f) \subseteq e.routes /\ e.routes \cap lease[f] \subseteq Reach(f)
    /\ removed[f] \cap lease[f] # {} => Entries(f) # {}

\* What a process knows of the routes of a family fits what the family has.
KnowsRoutes(f, l) ==
    /\ \A e \in Known(l) : e.family = f => e.routes \cap lease[f] \subseteq Reach(f)
    /\ l.pc = "persist" /\ l.cur.entry.family = f => Reach(f) \subseteq l.cur.entry.routes
    /\ l.pc = "undo" /\ l.cur.entry.family = f => l.avail \subseteq lease[f] \cap Reach(f)
    /\ l.pc = "undo" /\ l.cur.entry \in Entries(f) =>
         removed[f] \cap lease[f] \subseteq l.avail \cup l.unconf
    /\ l.pc = "forget" /\ l.cur.entry \in Entries(f) => removed[f] \cap lease[f] = {}

QuietTables ==
    /\ present /\ \A f \in Families : lease[f] # {}
    /\ \A f \in Families : RoutesHeld(f) /\ \A p \in Procs : KnowsRoutes(f, loc[p])

\* While nothing happens outside the processes, whatever fails or dies.
QuietInv == left.env <= MaxEnv /\ (left.env = MaxEnv => QuietTables)

\* What one process is undoing or forgetting is no running host's but its own.
LEMMA NotMine ==
    ASSUME IInv, NEW p \in Procs, NEW q \in Procs \ {p}, loc[p].pc # "dead",
           loc[q].pc \in {"undo", "forget"}
    PROVE  loc[q].cur.entry.owner # p
  BY DEF IInv, ProcInv, Owns, HasCur

\* A step of one process keeps the routes in the journal when it removes only
\* routes of a family whose entry it owns, and forgets no entry that is needed.
LEMMA QuietStep ==
    ASSUME IInv, IInv', QuietTables, NEW p \in Procs, NEW l, loc'[p] = l, Goto(p, l), loc[p].pc # "dead",
           UNCHANGED <<present, lease>>,
           \A f \in Families :
             /\ Reach(f)' \subseteq Reach(f) /\ Reach(f) \cap lease[f] \subseteq Reach(f)'
             /\ removed'[f] \cap routes'[f] = {}
             /\ removed'[f] \subseteq removed[f] \/ \E e \in Entries(f) : e.owner = p
             /\ removed'[f] \cap lease[f] # {} => Entries(f) \subseteq Entries(f)'
             /\ \A e \in Entries(f)' \ Entries(f) :
                  /\ e.owner = p
                  /\ Reach(f) \subseteq e.routes /\ e.routes \cap lease[f] \subseteq Reach(f)
             /\ KnowsRoutes(f, l)'
    PROVE  QuietTables'
<1>1. /\ loc \in [Procs -> Local] /\ loc' \in [Procs -> Local]
      /\ \A q \in Procs \ {p} : loc'[q] = loc[q]
  BY DEF IInv, TypeOK, Goto
<1>2. present' /\ (\A f \in Families : lease'[f] # {})
  BY DEF QuietTables
<1>3. ASSUME NEW f \in Families PROVE RoutesHeld(f)'
  <2>1. /\ RoutesHeld(f) /\ Reach(f)' \subseteq Reach(f) /\ Reach(f) \cap lease[f] \subseteq Reach(f)'
        /\ lease'[f] = lease[f] /\ removed'[f] \cap routes'[f] = {}
    BY DEF QuietTables
  <2>2. ASSUME NEW e \in Entries(f)'
        PROVE  Reach(f)' \subseteq e.routes /\ e.routes \cap lease[f] \subseteq Reach(f)'
    <3>1. Reach(f) \subseteq e.routes /\ e.routes \cap lease[f] \subseteq Reach(f)
      BY <2>1, <2>2 DEF RoutesHeld
    <3> QED
      BY <2>1, <3>1
  <2>3. removed'[f] \cap lease'[f] # {} => Entries(f)' # {}
    BY <2>1 DEF RoutesHeld
  <2> QED
    BY <2>1, <2>2, <2>3 DEF RoutesHeld
<1>4. ASSUME NEW f \in Families, NEW q \in Procs PROVE KnowsRoutes(f, loc[q])'
  <2>1. CASE q = p
    BY <1>1, <2>1 DEF KnowsRoutes, Known, Held, Current, HasCur, EntriesOf
  <2>2. CASE q # p
    <3>1. /\ loc'[q] = loc[q] /\ KnowsRoutes(f, loc[q])
          /\ Reach(f)' \subseteq Reach(f) /\ Reach(f) \cap lease[f] \subseteq Reach(f)'
          /\ lease'[f] = lease[f]
      BY <1>1, <2>2 DEF QuietTables
    <3>2. \A e \in Known(loc[q]) : e.family = f => e.routes \cap lease'[f] \subseteq Reach(f)'
      <4>1. \A e \in Known(loc[q]) : e.family = f => e.routes \cap lease[f] \subseteq Reach(f)
        BY <3>1 DEF KnowsRoutes
      <4> QED
        BY <3>1, <4>1
    <3>3. loc[q].pc = "persist" /\ loc[q].cur.entry.family = f => Reach(f)' \subseteq loc[q].cur.entry.routes
      BY <3>1 DEF KnowsRoutes
    <3>4. loc[q].pc = "undo" /\ loc[q].cur.entry.family = f => loc[q].avail \subseteq lease'[f] \cap Reach(f)'
      <4>1. loc[q].pc = "undo" /\ loc[q].cur.entry.family = f => loc[q].avail \subseteq lease[f] \cap Reach(f)
        BY <3>1 DEF KnowsRoutes
      <4> QED
        BY <3>1, <4>1
    <3>5. ASSUME loc[q].pc \in {"undo", "forget"}, loc[q].cur.entry \in Entries(f)'
          PROVE  loc[q].cur.entry \in Entries(f) /\ removed'[f] \subseteq removed[f]
      <4>1. loc[q].cur.entry.owner # p
        BY <2>2, <3>5, NotMine
      <4>2. loc[q].cur.entry \in Entries(f)
        BY <3>5, <4>1
      <4>3. \A e \in Entries(f) : e = loc[q].cur.entry
        BY <4>2 DEF IInv, OneEntry, Entries
      <4> QED
        BY <4>1, <4>2, <4>3
    <3>6. loc[q].pc = "undo" /\ loc[q].cur.entry \in Entries(f)' =>
            removed'[f] \cap lease'[f] \subseteq loc[q].avail \cup loc[q].unconf
      <4>1. loc[q].pc = "undo" /\ loc[q].cur.entry \in Entries(f) =>
              removed[f] \cap lease[f] \subseteq loc[q].avail \cup loc[q].unconf
        BY <3>1 DEF KnowsRoutes
      <4> QED
        BY <3>1, <3>5, <4>1
    <3>7. loc[q].pc = "forget" /\ loc[q].cur.entry \in Entries(f)' => removed'[f] \cap lease'[f] = {}
      <4>1. loc[q].pc = "forget" /\ loc[q].cur.entry \in Entries(f) => removed[f] \cap lease[f] = {}
        BY <3>1 DEF KnowsRoutes
      <4> QED
        BY <3>1, <3>5, <4>1
    <3> QED
      BY <3>1, <3>2, <3>3, <3>4, <3>6, <3>7
         DEF KnowsRoutes, Known, Held, Current, HasCur, EntriesOf
  <2> QED
    BY <2>1, <2>2
<1> QED
  BY <1>2, <1>3, <1>4 DEF QuietTables

\* A step that leaves the routes and the journal alone and learns nothing new.
LEMMA QuietLearns ==
    ASSUME IInv, IInv', QuietTables, NEW p \in Procs, NEW l, loc'[p] = l, Goto(p, l), loc[p].pc # "dead",
           UNCHANGED <<present, lease, routes, removed, journal>>,
           l.pc \notin {"undo", "forget", "persist"},
           Known(l) \subseteq Known(loc[p]) \cup journal
    PROVE  QuietTables'
<1>1. ASSUME NEW f \in Families
      PROVE  /\ Reach(f)' = Reach(f) /\ Entries(f)' = Entries(f)
             /\ removed'[f] \cap routes'[f] = {} /\ removed'[f] = removed[f]
             /\ KnowsRoutes(f, l)'
  <2>1. Reach(f)' = Reach(f) /\ Entries(f)' = Entries(f) /\ lease'[f] = lease[f]
    BY DEF Reach, Entries
  <2>2. RoutesHeld(f) /\ KnowsRoutes(f, loc[p])
    BY DEF QuietTables
  <2>3. \A e \in Known(l) : e.family = f => e.routes \cap lease[f] \subseteq Reach(f)
    BY <2>2 DEF KnowsRoutes, RoutesHeld, Entries
  <2>4. KnowsRoutes(f, l)'
    BY <2>1, <2>3 DEF KnowsRoutes, Known, Held, Current, HasCur, EntriesOf
  <2> QED
    BY <2>1, <2>2, <2>4 DEF RoutesHeld
<1> QED
  BY <1>1, QuietStep

\* Every step of a process is somewhere to go on from.
LEMMA StepsOn ==
    ASSUME IInv, IInv', NEW p \in Procs, NEW x, Goto(p, x)
    PROVE  \E l : Goto(p, l) /\ loc'[p] = l
  BY Arrives


\* What a plan finds missing of a family is still its lease, or the lease cannot
\* be read; it misses nothing that the entry of the family names.
LEMMA MissingOfFamily ==
    ASSUME NEW f \in Families, NEW e \in Entry, e.family = f, lease[f] # {},
           e.routes \cap lease[f] \subseteq Reach(f)
    PROVE  /\ Missing(e, "Available") \subseteq lease[f] \cap Reach(f)
           /\ f \in Readable => Missing(e, "Unconfirmed") = {}
           /\ Reach(f) \subseteq e.routes /\ removed[f] \cap routes[f] = {}
                => removed[f] \cap lease[f] \subseteq Missing(e, "Available") \cup Missing(e, "Unconfirmed")
<1>1. ConfiguredGateways(f) = (IF f \in Readable THEN lease[f] ELSE {}) /\ DefaultRoutes(f) = routes[f]
  BY DEF ConfiguredGateways, DefaultRoutes
<1>2. \A g \in MissingOriginals(e) : g \in e.routes /\ g \notin routes[f]
  BY <1>1 DEF MissingOriginals
<1>3. ASSUME Reach(f) \subseteq e.routes, removed[f] \cap routes[f] = {}
      PROVE  removed[f] \cap lease[f] \subseteq MissingOriginals(e)
  BY <1>1, <1>3 DEF Reach, MissingOriginals
<1>4. CASE f \in Readable
  <2>1. ASSUME NEW g \in MissingOriginals(e)
        PROVE  ClassifyCapturedGateway(g, routes[f], lease[f]) =
                 IF g \in lease[f] THEN "Available" ELSE "Stale"
    BY <1>2, <2>1 DEF ClassifyCapturedGateway
  <2>2. Missing(e, "Available") = {g \in MissingOriginals(e) : g \in lease[f]}
    BY <1>1, <1>4, <2>1 DEF Missing
  <2>3. Missing(e, "Unconfirmed") = {}
    BY <1>1, <1>4, <2>1 DEF Missing
  <2> QED
    BY <1>2, <1>3, <2>2, <2>3
<1>5. CASE f \notin Readable
  <2>1. ASSUME NEW g \in MissingOriginals(e)
        PROVE  ClassifyCapturedGateway(g, routes[f], {}) = "Unconfirmed"
    BY <1>2, <2>1 DEF ClassifyCapturedGateway
  <2>2. Missing(e, "Available") = {} /\ Missing(e, "Unconfirmed") = MissingOriginals(e)
    BY <1>1, <1>5, <2>1 DEF Missing
  <2> QED
    BY <1>3, <1>5, <2>2
<1> QED
  BY <1>4, <1>5

\* A plan knows what it is to create.
LEMMA QuietPlan ==
    ASSUME IInv, IInv', QuietTables, NEW p \in Procs, NEW l, loc'[p] = l, Goto(p, l), loc[p].pc # "dead",
           UNCHANGED <<present, lease, routes, removed, journal>>, Planned(p, l)
    PROVE  QuietTables'
<1>1. PICK e \in Entry : e = l.cur.entry
  BY DEF Planned, Snap
<1>2. /\ l.pc = "undo" /\ l.avail = Missing(e, "Available") /\ l.unconf = Missing(e, "Unconfirmed")
      /\ Known(l) \subseteq Known(loc[p]) /\ e \in Known(l)
  BY <1>1 DEF Planned, Known, Current, HasCur
<1>3. ASSUME NEW f \in Families
      PROVE  /\ Reach(f)' = Reach(f) /\ Entries(f)' = Entries(f)
             /\ removed'[f] \cap routes'[f] = {} /\ removed'[f] = removed[f]
             /\ KnowsRoutes(f, l)'
  <2>1. Reach(f)' = Reach(f) /\ Entries(f)' = Entries(f) /\ lease'[f] = lease[f] /\ removed'[f] = removed[f]
    BY DEF Reach, Entries
  <2>2. RoutesHeld(f) /\ KnowsRoutes(f, loc[p]) /\ lease[f] # {}
    BY DEF QuietTables
  <2>3. \A d \in Known(l) : d.family = f => d.routes \cap lease[f] \subseteq Reach(f)
    BY <1>2, <2>2 DEF KnowsRoutes
  <2>4. e.family = f => l.avail \subseteq lease[f] \cap Reach(f)
    BY <1>2, <2>2, <2>3, MissingOfFamily
  <2>5. e \in Entries(f) => removed[f] \cap lease[f] \subseteq l.avail \cup l.unconf
    BY <1>2, <2>2, <2>3, MissingOfFamily DEF RoutesHeld, Entries
  <2>6. KnowsRoutes(f, l)'
    BY <1>1, <1>2, <2>1, <2>3, <2>4, <2>5 DEF KnowsRoutes, Known, Held, Current, HasCur, EntriesOf
  <2> QED
    BY <2>1, <2>2, <2>6 DEF RoutesHeld
<1> QED
  BY <1>3, QuietStep

\* An error return learns nothing.
LEMMA QuietFail ==
    ASSUME IInv, IInv', QuietTables, NEW p \in Procs, Fail(p), loc[p].pc \notin {"off", "dead"},
           loc[p].mode = "rollback" => HasCur(loc[p]),
           UNCHANGED <<present, lease, routes, removed, journal>>
    PROVE  QuietTables'
<1>1. PICK l : /\ Goto(p, l) /\ loc'[p] = l
               /\ l.pc \notin {"undo", "forget", "persist"}
               /\ Known(l) \subseteq Known(loc[p]) \cup journal
  BY FailMoves
<1> QED
  BY <1>1, QuietLearns

\* The steps that leave the routes and the journal alone.
LEMMA QuietLeaves ==
    ASSUME IInv, IInv', QuietTables, NEW p \in Procs,
           \/ PersistedPolicies(p) \/ RecoveryOutcome(p) \/ Refresh(p) \/ VerifyProtected(p)
           \/ ApplyVerify(p) \/ ApplyFlag(p) \/ CaptureRecovers(p)
           \/ Accept(p) \/ AcceptTimesOut(p) \/ ServingEnds(p) \/ Stop(p) \/ RollbackEnds(p)
           \/ RecoverPolicy(p) \/ RestoreSnapshot(p)
    PROVE  QuietTables'
<1>1. UNCHANGED <<present, lease, routes, removed, journal>> /\ loc[p].pc # "dead"
  BY DEF PersistedPolicies, RecoveryOutcome, Refresh, VerifyProtected, ApplyVerify, ApplyFlag,
         CaptureRecovers, Accept, AcceptTimesOut, ServingEnds, Stop, RollbackEnds, RecoverPolicy,
         RestoreSnapshot, osvars
<1>2. Moves(p, loc'[p]) \/ Planned(p, loc'[p])
  BY QuietMoves, Plans DEF QuietTables
<1>3. \E l : Goto(p, l)
  BY DEF PersistedPolicies, RecoveryOutcome, Refresh, VerifyProtected, ApplyVerify, ApplyFlag,
         CaptureRecovers, Accept, AcceptTimesOut, ServingEnds, Stop, RollbackEnds, RecoverPolicy,
         RestoreSnapshot, Fail, Exit
<1>4. PICK l : Goto(p, l) /\ loc'[p] = l
  BY <1>3, StepsOn
<1>5. CASE Moves(p, l)
  BY <1>1, <1>4, <1>5, QuietLearns DEF Moves
<1>6. CASE Planned(p, l)
  BY <1>1, <1>4, <1>6, QuietPlan
<1> QED
  BY <1>2, <1>4, <1>5, <1>6

\* A process that dies, or that a call or an unconfirmed gateway stops.
LEMMA QuietFails ==
    ASSUME IInv, IInv', QuietTables, NEW p \in Procs, UndoUnconfirmed(p) \/ CallFails(p) \/ Crash(p)
    PROVE  QuietTables'
<1>1. UNCHANGED <<present, lease, routes, removed, journal>>
  BY DEF UndoUnconfirmed, CallFails, Crash, osvars
<1>2. CASE UndoUnconfirmed(p) \/ CallFails(p)
  <2>1. /\ Fail(p) /\ Fits(loc[p])
        /\ loc[p].pc \in {"undo", "forget", "apply", "delete", "persist", "loop", "verify", "recover"}
    BY <1>2 DEF UndoUnconfirmed, CallFails, IInv, ProcInv
  <2>2. loc[p].pc \notin {"off", "dead"} /\ (loc[p].mode = "rollback" => HasCur(loc[p]))
    BY <2>1 DEF Fits, HasCur
  <2> QED
    BY <1>1, <2>1, <2>2, QuietFail
<1>3. CASE Crash(p)
  <2>1. PICK l : l = Gone(p)
    OBVIOUS
  <2>2. Goto(p, l) /\ loc[p].pc # "dead"
    BY <1>3, <2>1 DEF Crash, Exit, ProcessOwnerIsRunning
  <2>3. loc'[p] = l /\ l.pc \in {"off", "dead"} /\ Known(l) = {}
    BY <2>1, <2>2, GoneLocal, Arrives
  <2> QED
    BY <1>1, <2>2, <2>3, QuietLearns
<1> QED
  BY <1>2, <1>3

\* An undo creates a route that the adapter is missing.
LEMMA QuietUndoRoute ==
    ASSUME IInv, IInv', QuietTables, NEW p \in Procs, UndoRoute(p) PROVE QuietTables'
<1>1. /\ loc[p] \in Local /\ present /\ TablesOK /\ loc[p].pc = "undo"
      /\ UNCHANGED <<present, lease, journal>>
  BY DEF IInv, TypeOK, QuietTables, UndoRoute, osvars
<1>2. PICK x : x = loc[p].cur.entry.family
  OBVIOUS
<1>3. PICK g \in loc[p].avail :
        /\ routes' = [routes EXCEPT ![x] = @ \cup {g}]
        /\ removed' = [removed EXCEPT ![x] = @ \ {g}]
        /\ Goto(p, [loc[p] EXCEPT !.avail = loc[p].avail \ {g}, !.made = loc[p].made \cup {g}])
  BY <1>1, <1>2 DEF UndoRoute
<1>4. PICK l : l = [loc[p] EXCEPT !.avail = loc[p].avail \ {g}, !.made = loc[p].made \cup {g}]
  OBVIOUS
<1>5. Goto(p, l) /\ loc'[p] = l
  BY <1>3, <1>4, Arrives
<1>6. /\ l.pc = "undo" /\ l.queue = loc[p].queue /\ l.snaps = loc[p].snaps /\ l.work = loc[p].work
      /\ l.keep = loc[p].keep /\ l.cur = loc[p].cur
      /\ l.avail = loc[p].avail \ {g} /\ l.unconf = loc[p].unconf
  BY <1>1, <1>4 DEF Local
<1>7. Known(l) = Known(loc[p])
  BY <1>1, <1>6 DEF Known, Held, Current, HasCur
<1>8. ASSUME NEW f \in Families
      PROVE  /\ Reach(f)' = Reach(f) /\ Entries(f)' = Entries(f)
             /\ removed'[f] \cap routes'[f] = {} /\ removed'[f] \subseteq removed[f]
             /\ KnowsRoutes(f, l)'
  <2>1. RoutesHeld(f) /\ KnowsRoutes(f, loc[p]) /\ lease'[f] = lease[f] /\ Entries(f)' = Entries(f)
    BY <1>1 DEF QuietTables, Entries
  <2>2. CASE x # f
    <3>1. routes'[f] = routes[f] /\ removed'[f] = removed[f]
      BY <1>1, <1>3, <2>2 DEF TablesOK
    <3>2. Reach(f)' = Reach(f)
      BY <2>1, <3>1 DEF Reach
    <3>3. l.cur.entry.family # f
      BY <1>2, <1>6, <2>2
    <3>4. \A e \in Known(l) : e.family = f => e.routes \cap lease[f] \subseteq Reach(f)
      BY <1>7, <2>1 DEF KnowsRoutes
    <3>5. KnowsRoutes(f, l)'
      BY <1>6, <2>1, <3>2, <3>3, <3>4 DEF KnowsRoutes, Known, Held, Current, HasCur, EntriesOf, Entries
    <3> QED
      BY <2>1, <3>1, <3>2, <3>5 DEF RoutesHeld
  <2>3. CASE x = f
    <3>1. routes'[f] = routes[f] \cup {g} /\ removed'[f] = removed[f] \ {g}
      BY <1>1, <1>3, <2>3 DEF TablesOK
    <3>2. loc[p].avail \subseteq lease[f] \cap Reach(f)
      BY <1>1, <1>2, <2>1, <2>3 DEF KnowsRoutes
    <3>3. Reach(f)' = Reach(f)
      BY <1>3, <2>1, <3>1, <3>2 DEF Reach
    <3>4. \A e \in Known(l) : e.family = f => e.routes \cap lease[f] \subseteq Reach(f)
      BY <1>7, <2>1 DEF KnowsRoutes
    <3>5. ASSUME l.cur.entry \in Entries(f)
          PROVE  removed'[f] \cap lease[f] \subseteq l.avail \cup l.unconf
      <4>1. removed[f] \cap lease[f] \subseteq loc[p].avail \cup loc[p].unconf
        BY <1>1, <1>6, <2>1, <3>5 DEF KnowsRoutes
      <4> QED
        BY <1>6, <3>1, <4>1
    <3>6. l.avail \subseteq lease[f] \cap Reach(f)
      BY <1>6, <3>2
    <3>7. KnowsRoutes(f, l)'
      BY <1>6, <2>1, <3>3, <3>4, <3>5, <3>6 DEF KnowsRoutes, Known, Held, Current, HasCur, EntriesOf
    <3> QED
      BY <2>1, <3>1, <3>3, <3>7 DEF RoutesHeld
  <2> QED
    BY <2>2, <2>3
<1> QED
  BY <1>1, <1>5, <1>8, QuietStep

\* The flag is restored when every route that the policy deleted is back.
LEMMA QuietUndoFlag ==
    ASSUME IInv, IInv', QuietTables, NEW p \in Procs, UndoFlag(p) PROVE QuietTables'
<1>1. /\ loc[p] \in Local /\ loc[p].pc = "undo" /\ HasCur(loc[p])
      /\ loc[p].avail = {} /\ loc[p].unconf = {}
      /\ UNCHANGED <<present, lease, routes, removed, journal>>
  BY DEF IInv, TypeOK, UndoFlag, osvars, HasCur
<1>2. CASE Fail(p)
  BY <1>1, <1>2, QuietFail
<1>3. CASE Goto(p, [loc[p] EXCEPT !.pc = "forget"])
  <2>1. PICK l : l = [loc[p] EXCEPT !.pc = "forget"]
    OBVIOUS
  <2>2. Goto(p, l) /\ loc'[p] = l
    BY <1>3, <2>1, Arrives
  <2>3. /\ l.pc = "forget" /\ l.queue = loc[p].queue /\ l.snaps = loc[p].snaps
        /\ l.work = loc[p].work /\ l.keep = loc[p].keep /\ l.cur = loc[p].cur
    BY <1>1, <2>1 DEF Local
  <2>4. Known(l) = Known(loc[p])
    BY <1>1, <2>3 DEF Known, Held, Current, HasCur
  <2>5. ASSUME NEW f \in Families
        PROVE  /\ Reach(f)' = Reach(f) /\ Entries(f)' = Entries(f)
               /\ removed'[f] \cap routes'[f] = {} /\ removed'[f] = removed[f]
               /\ KnowsRoutes(f, l)'
    <3>1. /\ RoutesHeld(f) /\ KnowsRoutes(f, loc[p]) /\ lease'[f] = lease[f] /\ removed'[f] = removed[f]
          /\ Entries(f)' = Entries(f) /\ Reach(f)' = Reach(f)
      BY <1>1 DEF QuietTables, Entries, Reach
    <3>2. \A d \in Known(l) : d.family = f => d.routes \cap lease[f] \subseteq Reach(f)
      BY <2>4, <3>1 DEF KnowsRoutes
    <3>3. l.cur.entry \in Entries(f) => removed[f] \cap lease[f] = {}
      BY <1>1, <2>3, <3>1 DEF KnowsRoutes
    <3>4. KnowsRoutes(f, l)'
      BY <2>3, <3>1, <3>2, <3>3 DEF KnowsRoutes, Known, Held, Current, HasCur, EntriesOf
    <3> QED
      BY <1>1, <3>1, <3>4 DEF RoutesHeld
  <2> QED
    BY <1>1, <2>2, <2>5, QuietStep
<1> QED
  BY <1>2, <1>3 DEF UndoFlag

\* An entry is forgotten when no route of its family is missing.
LEMMA QuietForget ==
    ASSUME IInv, IInv', QuietTables, NEW p \in Procs, RemovePolicyValue(p) PROVE QuietTables'
<1>1. /\ loc[p] \in Local /\ loc[p].pc = "forget" /\ HasCur(loc[p])
      /\ UNCHANGED <<present, lease, routes, removed>>
      /\ journal' = journal \ {loc[p].cur.entry}
  BY DEF IInv, TypeOK, RemovePolicyValue, osvars, HasCur
<1>2. PICK x \in {"restore", "recover"} : x = IF loc[p].mode = "rollback" THEN "restore" ELSE "recover"
  OBVIOUS
<1>3. PICK l : l = [loc[p] EXCEPT !.pc = x]
  OBVIOUS
<1>4. Goto(p, l) /\ loc'[p] = l
  BY <1>2, <1>3, Arrives DEF RemovePolicyValue
<1>5. /\ l.pc = x /\ l.queue = loc[p].queue /\ l.snaps = loc[p].snaps
      /\ l.work = loc[p].work /\ l.keep = loc[p].keep
  BY <1>1, <1>3 DEF Local
<1>6. Known(l) \subseteq Known(loc[p])
  BY <1>2, <1>5 DEF Known, Held, Current, HasCur
<1>7. ASSUME NEW f \in Families
      PROVE  /\ Reach(f)' = Reach(f) /\ removed'[f] \cap routes'[f] = {} /\ removed'[f] = removed[f]
             /\ Entries(f)' \subseteq Entries(f)
             /\ removed'[f] \cap lease[f] # {} => Entries(f) \subseteq Entries(f)'
             /\ KnowsRoutes(f, l)'
  <2>1. /\ RoutesHeld(f) /\ KnowsRoutes(f, loc[p]) /\ lease'[f] = lease[f] /\ removed'[f] = removed[f]
        /\ Entries(f)' = Entries(f) \ {loc[p].cur.entry} /\ Reach(f)' = Reach(f)
    BY <1>1 DEF QuietTables, Entries, Reach
  <2>2. removed[f] \cap lease[f] # {} => loc[p].cur.entry \notin Entries(f)
    BY <1>1, <2>1 DEF KnowsRoutes
  <2>3. \A e \in Known(l) : e.family = f => e.routes \cap lease[f] \subseteq Reach(f)
    BY <1>6, <2>1 DEF KnowsRoutes
  <2>4. KnowsRoutes(f, l)'
    BY <1>2, <1>5, <2>1, <2>3 DEF KnowsRoutes, Known, Held, Current, HasCur, EntriesOf
  <2> QED
    BY <1>1, <2>1, <2>2, <2>4 DEF RoutesHeld
<1>8. ASSUME NEW f \in Families, NEW e \in Entries(f)' \ Entries(f) PROVE FALSE
  BY <1>7, <1>8
<1> QED
  BY <1>1, <1>4, <1>7, <1>8, QuietStep

\* What a capture reads is all that the adapter has of the family.
LEMMA QuietCapture ==
    ASSUME IInv, IInv', QuietTables, NEW p \in Procs, CaptureFamily(p) PROVE QuietTables'
<1>1. /\ loc[p] \in Local /\ Fits(loc[p]) /\ Finishes(loc[p]) /\ loc[p].pc = "capture"
      /\ loc[p].mode = "capture"
      /\ UNCHANGED <<present, lease, routes, removed, journal>>
  BY DEF IInv, TypeOK, ProcInv, CaptureFamily, osvars, Fits
<1>2. PICK x : x = FamilyOrder[loc[p].fi]
  OBVIOUS
<1>3. CASE Fail(p)
  BY <1>1, <1>3, QuietFail
<1>4. CASE Goto(p, [loc[p] EXCEPT !.pc = "persist",
                       !.cur = [entry |-> [owner |-> p, family |-> x, flag |-> flag[x],
                                           routes |-> DefaultRoutes(x)], mac |-> mac]])
  <2>1. PICK e : e = [owner |-> p, family |-> x, flag |-> flag[x], routes |-> DefaultRoutes(x)]
    OBVIOUS
  <2>2. PICK s : s = [entry |-> e, mac |-> mac]
    OBVIOUS
  <2>3. PICK l : l = [loc[p] EXCEPT !.pc = "persist", !.cur = s]
    OBVIOUS
  <2>4. Goto(p, l) /\ loc'[p] = l
    BY <1>4, <2>1, <2>2, <2>3, Arrives
  <2>5. /\ l.pc = "persist" /\ l.queue = loc[p].queue /\ l.snaps = loc[p].snaps
        /\ l.work = loc[p].work /\ l.keep = loc[p].keep /\ l.cur.entry = e
        /\ e.family = x /\ e.routes = routes[x]
    BY <1>1, <2>1, <2>2, <2>3 DEF Local, DefaultRoutes
  <2>6. Known(l) \subseteq Known(loc[p]) \cup {e}
    BY <2>5 DEF Known, Held, Current, HasCur
  <2>7. ASSUME NEW f \in Families
        PROVE  /\ Reach(f)' = Reach(f) /\ Entries(f)' = Entries(f)
               /\ removed'[f] \cap routes'[f] = {} /\ removed'[f] = removed[f]
               /\ KnowsRoutes(f, l)'
    <3>1. /\ RoutesHeld(f) /\ KnowsRoutes(f, loc[p]) /\ lease'[f] = lease[f] /\ removed'[f] = removed[f]
          /\ Entries(f)' = Entries(f) /\ Reach(f)' = Reach(f)
      BY <1>1 DEF QuietTables, Entries, Reach
    <3>2. x = f => Reach(f) = routes[f]
      <4>1. ASSUME x = f PROVE Reach(f) = routes[f]
        <5>1. Entries(f) = {}
          BY <1>1, <1>2, <4>1 DEF Finishes
        <5> QED
          BY <3>1, <5>1 DEF RoutesHeld, Reach
      <4> QED
        BY <4>1
    <3>3. \A d \in Known(l) : d.family = f => d.routes \cap lease[f] \subseteq Reach(f)
      <4>1. \A d \in Known(loc[p]) : d.family = f => d.routes \cap lease[f] \subseteq Reach(f)
        BY <3>1 DEF KnowsRoutes
      <4>2. x = f => e.routes \cap lease[f] \subseteq Reach(f)
        BY <2>5, <3>2
      <4> QED
        BY <2>5, <2>6, <4>1, <4>2
    <3>4. KnowsRoutes(f, l)'
      BY <2>5, <3>1, <3>2, <3>3 DEF KnowsRoutes, Known, Held, Current, HasCur, EntriesOf
    <3> QED
      BY <1>1, <3>1, <3>4 DEF RoutesHeld
  <2> QED
    BY <1>1, <2>4, <2>7, QuietStep
<1> QED
  BY <1>2, <1>3, <1>4 DEF CaptureFamily

\* The entry that is written says all there is to restore, also when the call
\* fails after it was written.
LEMMA QuietPersist ==
    ASSUME IInv, IInv', QuietTables, NEW p \in Procs, PersistPolicy(p) PROVE QuietTables'
<1>1. /\ loc[p] \in Local /\ Owns(p, loc[p]) /\ loc[p].pc = "persist"
      /\ loc[p].mode = "capture" /\ HasCur(loc[p]) /\ loc[p].cur \in Snap
      /\ UNCHANGED <<present, lease, routes, removed>>
      /\ journal' = journal \cup {loc[p].cur.entry}
  BY DEF IInv, TypeOK, ProcInv, PersistPolicy, osvars, Fits, HasCur
<1>2. PICK e : e = loc[p].cur.entry
  OBVIOUS
<1>3. e \in Known(loc[p]) /\ e.owner = p
  BY <1>1, <1>2 DEF Known, Current, HasCur, Owns
<1>4. \E l : /\ Goto(p, l) /\ loc'[p] = l /\ l.pc \notin {"undo", "forget", "persist"}
             /\ Known(l) \subseteq Known(loc[p]) \cup journal
  <2>1. CASE Fail(p)
    BY <1>1, <2>1, FailMoves
  <2>2. CASE Goto(p, [loc[p] EXCEPT !.pc = "apply", !.snaps = Append(loc[p].snaps, loc[p].cur)])
    <3>1. loc[p].snaps \in Seq(Snap)
      BY <1>1 DEF Local
    <3>2. PICK s \in Seq(Snap) : s = Append(loc[p].snaps, loc[p].cur)
      BY <1>1, <3>1, AppendSnap
    <3>3. EntriesOf(s) = EntriesOf(loc[p].snaps) \cup {e}
      BY <1>1, <1>2, <3>1, <3>2, AppendSnap
    <3>4. PICK l : l = [loc[p] EXCEPT !.pc = "apply", !.snaps = s]
      OBVIOUS
    <3>5. Goto(p, l) /\ loc'[p] = l
      BY <2>2, <3>2, <3>4, Arrives
    <3>6. /\ l.pc = "apply" /\ l.queue = loc[p].queue /\ l.snaps = s
          /\ l.work = loc[p].work /\ l.keep = loc[p].keep /\ l.cur = loc[p].cur
      BY <1>1, <3>4 DEF Local
    <3>7. Known(l) = Known(loc[p])
      BY <1>1, <1>2, <3>3, <3>6 DEF Known, Held, Current, HasCur
    <3> QED
      BY <3>5, <3>6, <3>7
  <2> QED
    BY <2>1, <2>2 DEF PersistPolicy
<1>5. PICK l : /\ Goto(p, l) /\ loc'[p] = l /\ l.pc \notin {"undo", "forget", "persist"}
               /\ Known(l) \subseteq Known(loc[p]) \cup journal
  BY <1>4
<1>6. ASSUME NEW f \in Families
      PROVE  /\ Reach(f)' = Reach(f) /\ Entries(f) \subseteq Entries(f)'
             /\ removed'[f] \cap routes'[f] = {} /\ removed'[f] = removed[f]
             /\ \A d \in Entries(f)' \ Entries(f) :
                  /\ d.owner = p
                  /\ Reach(f) \subseteq d.routes /\ d.routes \cap lease[f] \subseteq Reach(f)
             /\ KnowsRoutes(f, l)'
  <2>1. /\ RoutesHeld(f) /\ KnowsRoutes(f, loc[p]) /\ lease'[f] = lease[f] /\ removed'[f] = removed[f]
        /\ Entries(f) \subseteq Entries(f)' /\ Reach(f)' = Reach(f)
    BY <1>1 DEF QuietTables, Entries, Reach
  <2>2. \A d \in Known(l) : d.family = f => d.routes \cap lease[f] \subseteq Reach(f)
    BY <1>5, <2>1 DEF KnowsRoutes, RoutesHeld, Entries
  <2>3. KnowsRoutes(f, l)'
    BY <1>5, <2>1, <2>2 DEF KnowsRoutes, Known, Held, Current, HasCur, EntriesOf
  <2>4. \A d \in Entries(f)' \ Entries(f) : d = e /\ e.family = f
    BY <1>1, <1>2 DEF Entries
  <2>5. e.family = f => Reach(f) \subseteq e.routes /\ e.routes \cap lease[f] \subseteq Reach(f)
    BY <1>1, <1>2, <1>3, <2>1 DEF KnowsRoutes
  <2> QED
    BY <1>1, <1>3, <2>1, <2>3, <2>4, <2>5 DEF RoutesHeld
<1> QED
  BY <1>1, <1>5, <1>6, QuietStep

\* A host deletes only routes that its entry in the journal names.
LEMMA QuietDelete ==
    ASSUME IInv, IInv', QuietTables, NEW p \in Procs, ApplyDelete(p) PROVE QuietTables'
<1>1. /\ loc[p] \in Local /\ Fits(loc[p]) /\ Owns(p, loc[p]) /\ loc[p].pc = "delete"
      /\ loc[p].mode = "capture" /\ TablesOK /\ HasCur(loc[p]) /\ loc[p].cur \in Snap
      /\ UNCHANGED <<present, lease, journal>>
  BY DEF IInv, TypeOK, ProcInv, ApplyDelete, osvars, Fits, HasCur
<1>2. PICK e \in Entry : e = loc[p].cur.entry
  BY <1>1 DEF Snap
<1>3. PICK x \in Families : x = e.family
  BY DEF Entry
<1>4. e \in Entries(x) /\ e.owner = p
  <2>1. e \in EntriesOf(loc[p].snaps)
    BY <1>1, <1>2 DEF Fits
  <2>2. e \in journal /\ e.owner = p
    BY <1>1, <2>1 DEF Owns, Held
  <2> QED
    BY <1>3, <2>2 DEF Entries
<1>5. CASE Fail(p) /\ UNCHANGED <<routes, removed>>
  BY <1>1, <1>5, QuietFail
<1>6. CASE \E g \in loc[p].avail :
             /\ routes[x] = loc[p].avail
             /\ routes' = [routes EXCEPT ![x] = @ \ {g}]
             /\ removed' = [removed EXCEPT ![x] = @ \cup {g}]
             /\ Goto(p, [loc[p] EXCEPT !.avail = loc[p].avail \ {g}])
  <2>1. PICK g \in routes[x] :
             /\ routes' = [routes EXCEPT ![x] = @ \ {g}]
             /\ removed' = [removed EXCEPT ![x] = @ \cup {g}]
             /\ Goto(p, [loc[p] EXCEPT !.avail = loc[p].avail \ {g}])
    BY <1>6
  <2>2. PICK l : l = [loc[p] EXCEPT !.avail = loc[p].avail \ {g}]
    OBVIOUS
  <2>3. Goto(p, l) /\ loc'[p] = l
    BY <2>1, <2>2, Arrives
  <2>4. /\ l.pc = "delete" /\ l.queue = loc[p].queue /\ l.snaps = loc[p].snaps
        /\ l.work = loc[p].work /\ l.keep = loc[p].keep /\ l.cur = loc[p].cur
    BY <1>1, <2>2 DEF Local
  <2>5. Known(l) = Known(loc[p])
    BY <1>1, <2>4 DEF Known, Held, Current, HasCur
  <2>6. /\ routes'[x] = routes[x] \ {g} /\ removed'[x] = removed[x] \cup {g}
        /\ \A f \in Families \ {x} : routes'[f] = routes[f] /\ removed'[f] = removed[f]
    BY <1>1, <2>1 DEF TablesOK
  <2>7. ASSUME NEW f \in Families
        PROVE  /\ Reach(f)' \subseteq Reach(f) /\ Reach(f) \cap lease[f] \subseteq Reach(f)'
               /\ Entries(f)' = Entries(f) /\ removed'[f] \cap routes'[f] = {}
               /\ removed'[f] \subseteq removed[f] \/ \E d \in Entries(f) : d.owner = p
               /\ KnowsRoutes(f, l)'
    <3>1. /\ RoutesHeld(f) /\ KnowsRoutes(f, loc[p]) /\ lease'[f] = lease[f]
          /\ Entries(f)' = Entries(f)
      BY <1>1 DEF QuietTables, Entries
    <3>2. /\ Reach(f)' \subseteq Reach(f) /\ Reach(f) \cap lease[f] \subseteq Reach(f)'
          /\ removed'[f] \cap routes'[f] = {}
      <4>1. CASE f = x
        BY <2>1, <2>6, <3>1, <4>1 DEF Reach, RoutesHeld
      <4>2. CASE f # x
        BY <2>6, <3>1, <4>2 DEF Reach, RoutesHeld
      <4> QED
        BY <4>1, <4>2
    <3>3. \A d \in Known(l) : d.family = f => d.routes \cap lease[f] \subseteq Reach(f)'
      <4>1. \A d \in Known(l) : d.family = f => d.routes \cap lease[f] \subseteq Reach(f)
        BY <2>5, <3>1 DEF KnowsRoutes
      <4> QED
        BY <3>2, <4>1
    <3>4. KnowsRoutes(f, l)'
      BY <2>4, <3>1, <3>3 DEF KnowsRoutes, Known, Held, Current, HasCur, EntriesOf
    <3>5. removed'[f] \subseteq removed[f] \/ \E d \in Entries(f) : d.owner = p
      BY <1>4, <2>6
    <3> QED
      BY <3>1, <3>2, <3>4, <3>5
  <2> QED
    BY <1>1, <2>3, <2>7, QuietStep
<1>7. \E g \in loc[p].avail :
        \/ /\ routes[x] = loc[p].avail
           /\ routes' = [routes EXCEPT ![x] = @ \ {g}]
           /\ removed' = [removed EXCEPT ![x] = @ \cup {g}]
           /\ Goto(p, [loc[p] EXCEPT !.avail = loc[p].avail \ {g}])
        \/ Fail(p) /\ UNCHANGED <<routes, removed>>
  BY <1>2, <1>3 DEF ApplyDelete, DefaultRoutes
<1> QED
  BY <1>5, <1>6, <1>7

\* Every step that is not an event outside the processes.
LEMMA QuietNext ==
    ASSUME IInv, IInv', QuietTables, ~Spend("env"), Next PROVE QuietTables'
<1>1. Hosts \subseteq Procs
  BY DEF Procs
<1>2. ASSUME NEW p \in Procs, PersistedPolicies(p) \/ Recover(p) \/ Undo(p) \/ CallFails(p)
      PROVE  QuietTables'
  BY <1>2, QuietLeaves, QuietFails, QuietUndoRoute, QuietUndoFlag, QuietForget DEF Recover, Undo
<1>3. ASSUME NEW p \in Hosts, Restore(p) \/ Protect(p) \/ Serve(p) \/ Crash(p) PROVE QuietTables'
  <2>1. CASE Restore(p)
    BY <1>1, <2>1, QuietLeaves DEF Restore
  <2>2. CASE Protect(p)
    BY <1>1, <2>2, QuietLeaves, QuietCapture, QuietPersist, QuietDelete DEF Protect
  <2>3. CASE Serve(p)
    BY <1>1, <2>3, QuietLeaves DEF Serve
  <2>4. CASE Crash(p)
    BY <1>1, <2>4, QuietFails
  <2> QED
    BY <1>3, <2>1, <2>2, <2>3, <2>4
<1>4. ~Windows
  BY DEF Windows, RouteAppears, NewLease, LeaseExpires, UserEnables, Unplug, PlugIn, QuietTables
<1> QED
  BY <1>2, <1>3, <1>4 DEF Next

\* What a step spends.
LEMMA Spends ==
    ASSUME [Next]_vars
    PROVE  left' = left \/ Spend("env") \/ Spend("fail")
  BY DEF Next, vars, Windows, PersistedPolicies, Recover, RecoverPolicy, RecoveryOutcome,
     Undo, UndoRoute, UndoUnconfirmed, UndoFlag, RemovePolicyValue, CallFails, Restore,
     RestoreSnapshot, RollbackEnds, Protect, VerifyProtected, CaptureRecovers, CaptureFamily,
     PersistPolicy, ApplyFlag, ApplyDelete, ApplyVerify, Serve, Refresh, Accept, AcceptTimesOut,
     ServingEnds, Stop, Crash, RouteAppears, NewLease, LeaseExpires, UserEnables, Unplug, PlugIn

\* The routes stay in the journal until something happens outside.
LEMMA QuietInvStep == IInv /\ IInv' /\ QuietInv /\ [Next]_vars => QuietInv'
<1> SUFFICES ASSUME IInv, IInv', QuietInv, [Next]_vars PROVE QuietInv'
  OBVIOUS
<1>1. left \in [env : Nat, fail : Nat] /\ MaxEnv \in Nat /\ left.env <= MaxEnv
  BY PolicyAssumption DEF IInv, TypeOK, TablesOK, QuietInv
<1>2. CASE Spend("env")
  <2>1. left'.env = left.env - 1
    BY <1>1, <1>2 DEF Spend
  <2> QED
    BY <1>1, <2>1 DEF QuietInv
<1>3. CASE ~Spend("env")
  <2>1. left' = left \/ Spend("fail")
    BY <1>3, Spends
  <2>2. left'.env = left.env
    BY <1>1, <2>1 DEF Spend
  <2>3. CASE left.env # MaxEnv
    BY <1>1, <2>2, <2>3 DEF QuietInv
  <2>4. CASE left.env = MaxEnv
    <3>1. QuietTables
      BY <2>4 DEF QuietInv
    <3>2. CASE Next
      BY <1>1, <1>3, <2>2, <3>1, <3>2, QuietNext DEF QuietInv
    <3>3. CASE UNCHANGED vars
      BY <1>1, <2>2, <3>1, <3>3
         DEF vars, QuietInv, QuietTables, RoutesHeld, KnowsRoutes, Reach,
             Entries, Current, HasCur, Known, Held, EntriesOf
    <3> QED
      BY <3>2, <3>3
  <2> QED
    BY <2>3, <2>4
<1> QED
  BY <1>2, <1>3

\* Nothing is removed and every family has its lease.
LEMMA QuietInit == Init => QuietInv
<1> SUFFICES ASSUME Init PROVE QuietInv
  OBVIOUS
<1>1. left.env <= MaxEnv
  BY PolicyAssumption DEF Init
<1>2. \A p \in Procs : loc[p] = Idle /\ Known(loc[p]) = {} /\ loc[p].pc = "off"
  BY GoneLocal DEF Init, Idle
<1>3. ASSUME NEW f \in Families
      PROVE  RoutesHeld(f) /\ \A p \in Procs : KnowsRoutes(f, loc[p])
  <2>1. removed[f] = {} /\ Entries(f) = {}
    BY DEF Init, Entries
  <2> QED
    BY <1>2, <2>1 DEF RoutesHeld, KnowsRoutes
<1>4. present /\ (\A f \in Families : lease[f] # {})
  BY DEF Init
<1> QED
  BY <1>1, <1>3, <1>4 DEF QuietInv, QuietTables

LEMMA QuietInvariance == Spec => []QuietInv
  BY QuietInit, QuietInvStep, Invariance, PTL DEF Spec

\* JournalCoversDamage for any number of deaths and failing calls at any point:
\* while Windows and the user leave the adapter alone, what the policy did to a
\* family, whether or not its gateway can be read, is in the journal (persist()
\* before apply, remove_policy_value() after restore_snapshot()).
THEOREM DeathsCovered == Spec => [](left.env = MaxEnv => JournalCoversDamage)
<1>1. ASSUME IInv, FlagInJournal, QuietInv, left.env = MaxEnv PROVE JournalCoversDamage
  <2>1. ASSUME NEW f \in Families
        PROVE  removed[f] \cap lease[f] \subseteq UNION {e.routes : e \in Entries(f)}
    <3>1. RoutesHeld(f)
      BY <1>1 DEF QuietInv, QuietTables
    <3>2. CASE removed[f] \cap lease[f] = {}
      BY <3>2
    <3>3. CASE removed[f] \cap lease[f] # {}
      <4>1. PICK e \in Entries(f) : Reach(f) \subseteq e.routes
        BY <3>1, <3>3 DEF RoutesHeld
      <4>2. removed[f] \cap lease[f] \subseteq e.routes
        BY <4>1 DEF Reach
      <4> QED
        BY <4>2
    <3> QED
      BY <3>2, <3>3
  <2> QED
    BY <1>1, <2>1 DEF JournalCoversDamage, RoutesInJournal
<1> QED
  BY <1>1, Invariance, FlagCovered, QuietInvariance, PTL

-----------------------------------------------------------------------------
\* Nothing failed, nothing died, and Windows and the user did nothing.
Calm == left = [env |-> MaxEnv, fail |-> MaxFail]

\* What of the policy is still to be undone.
Damaged(f) == owned[f] \/ removed[f] \cap lease[f] # {}

\* An undo of a readable family has a gateway for every route, and a rollback
\* leaves nothing of the family.
Undoes(f, l) ==
    /\ l.pc = "undo" /\ l.cur.entry.family = f => l.unconf = {}
    /\ l.pc = "undo" /\ l.mode = "rollback" /\ l.cur.entry \in Entries(f) => l.made \subseteq routes[f]
    /\ l.pc = "forget" /\ l.mode = "rollback" /\ l.cur.entry \in Entries(f) => ~Damaged(f)

\* What is damaged is in the hands of a host that will restore it.
CalmTables ==
    /\ \A p \in Procs : LastPass(loc[p])
    /\ \A f \in Families \cap Readable :
         /\ Damaged(f) => \E h \in Hosts : \E e \in Entries(f) : e \in Pending(loc[h])
         /\ \A p \in Procs : Undoes(f, loc[p])

CalmInv == left.fail <= MaxFail /\ (Calm => CalmTables)

\* A step of one process stays restorable when it damages only a family whose
\* entry it holds, and gives up no entry that is needed.
LEMMA CalmStep ==
    ASSUME IInv, IInv', CalmTables, NEW p \in Procs, NEW l, loc'[p] = l, Goto(p, l), LastPass(l),
           UNCHANGED lease,
           \A f \in Families \cap Readable :
             /\ \/ (owned'[f] => owned[f]) /\ removed'[f] \subseteq removed[f]
                \/ \E e \in Entries(f) \cap Entries(f)' : e.owner = p /\ e \in Pending(l)
             /\ routes[f] \subseteq routes'[f] \/ \E e \in Entries(f) : e.owner = p
             /\ Damaged(f)' => \A e \in Entries(f) :
                                  e \in Entries(f)' /\ (e \in Pending(loc[p]) => e \in Pending(l))
             /\ \A e \in Entries(f)' \ Entries(f) : e.owner = p
             /\ Undoes(f, l)'
    PROVE  CalmTables'
<1>1. /\ loc \in [Procs -> Local] /\ loc' \in [Procs -> Local]
      /\ \A q \in Procs \ {p} : loc'[q] = loc[q]
  BY DEF IInv, TypeOK, Goto
<1>2. ASSUME NEW q \in Procs PROVE LastPass(loc'[q])
  BY <1>1 DEF CalmTables
<1>3. ASSUME NEW f \in Families \cap Readable, Damaged(f)'
      PROVE  \E h \in Hosts : \E e \in Entries(f)' : e \in Pending(loc'[h])
  <2>1. CASE Damaged(f)
    <3>1. PICK h \in Hosts, e \in Entries(f) : e \in Pending(loc[h])
      BY <2>1 DEF CalmTables
    <3>2. e \in Entries(f)' /\ (h = p => e \in Pending(l))
      BY <1>3, <3>1
    <3>3. e \in Pending(loc'[h])
      BY <1>1, <3>1, <3>2 DEF Procs
    <3> QED
      BY <3>2, <3>3
  <2>2. CASE ~Damaged(f)
    <3>1. ~((owned'[f] => owned[f]) /\ removed'[f] \subseteq removed[f])
      BY <1>3, <2>2 DEF Damaged
    <3>2. PICK e \in Entries(f) \cap Entries(f)' : e.owner = p /\ e \in Pending(l)
      BY <3>1
    <3>3. p \in Hosts
      BY <3>2 DEF Entries, Entry, IInv, TypeOK, TablesOK
    <3> QED
      BY <3>2, <3>3
  <2> QED
    BY <2>1, <2>2
<1>4. ASSUME NEW f \in Families \cap Readable, NEW q \in Procs PROVE Undoes(f, loc[q])'
  <2>1. CASE q = p
    BY <2>1 DEF Undoes
  <2>2. CASE q # p
    <3>1. loc'[q] = loc[q] /\ Undoes(f, loc[q]) /\ Owns(q, loc[q])
      BY <1>1, <2>2 DEF CalmTables, IInv, ProcInv
    <3>2. ASSUME loc[q].mode = "rollback", loc[q].pc \in {"undo", "forget"},
                 loc[q].cur.entry \in Entries(f)'
          PROVE  /\ loc[q].cur.entry \in Entries(f) /\ routes[f] \subseteq routes'[f]
                 /\ Damaged(f)' => Damaged(f)
      <4>1. loc[q].cur.entry.owner = q
        BY <3>1, <3>2 DEF Owns, HasCur
      <4>2. loc[q].cur.entry \in Entries(f)
        BY <2>2, <3>2, <4>1
      <4>3. \A e \in Entries(f) : e = loc[q].cur.entry
        BY <4>2 DEF IInv, OneEntry, Entries
      <4>4. (owned'[f] => owned[f]) /\ removed'[f] \subseteq removed[f]
        BY <2>2, <4>1, <4>3
      <4>5. Damaged(f)' => Damaged(f)
        BY <4>4 DEF Damaged
      <4> QED
        BY <2>2, <4>1, <4>2, <4>3, <4>5
    <3>3. loc[q].pc = "undo" /\ loc[q].mode = "rollback" /\ loc[q].cur.entry \in Entries(f)' =>
            loc[q].made \subseteq routes'[f]
      BY <3>1, <3>2 DEF Undoes
    <3>4. loc[q].pc = "forget" /\ loc[q].mode = "rollback" /\ loc[q].cur.entry \in Entries(f)' =>
            ~(Damaged(f)')
      BY <3>1, <3>2 DEF Undoes
    <3> QED
      BY <3>1, <3>3, <3>4 DEF Undoes
  <2> QED
    BY <2>1, <2>2
<1> QED
  BY <1>2, <1>3, <1>4 DEF CalmTables, LastPass, Pending, InHand, EntriesOf, Current, HasCur, Undoes

\* Only a running host has something to restore, and it is its own.
LEMMA PendingOwned ==
    ASSUME IInv, NEW h \in Procs, NEW e \in Pending(loc[h])
    PROVE  e.owner = h /\ loc[h].pc \notin {"off", "dead"}
<1>1. Fits(loc[h]) /\ Owns(h, loc[h]) /\ loc[h].snaps \in Seq(Snap)
  BY DEF IInv, TypeOK, ProcInv, Local
<1>2. loc[h].mode # "start"
  <2>1. ASSUME loc[h].mode = "start" PROVE FALSE
    BY <1>1, <2>1, SnapEntries DEF Fits, Pending, InHand
  <2> QED
    BY <2>1
<1>3. loc[h].pc \notin {"off", "dead"}
  BY <1>1, <1>2 DEF Fits
<1>4. CASE e \in Held(loc[h])
  BY <1>1, <1>3, <1>4 DEF Owns
<1>5. CASE e \notin Held(loc[h])
  <2>1. e \in Current(loc[h]) /\ loc[h].mode = "rollback" /\ HasCur(loc[h])
    BY <1>5 DEF Pending, InHand, Held, HasCur
  <2> QED
    BY <1>1, <1>3, <2>1 DEF Owns, Current
<1> QED
  BY <1>4, <1>5

\* A host asserts the flag again only where it has an entry of its own.
LEMMA TouchedOwned ==
    ASSUME IInv, NEW p \in Procs, loc[p].mode \in {"serve", "capture"}, NEW S,
           EntriesOf(S) \subseteq EntriesOf(loc[p].snaps), VerifyEnforced(S) \/ owned' = owned
    PROVE  \A f \in Families :
             (owned'[f] => owned[f]) \/ \E e \in Entries(f) : e.owner = p /\ e \in EntriesOf(loc[p].snaps)
<1>1. SUFFICES ASSUME NEW f \in Families, owned'[f], ~owned[f]
               PROVE  \E e \in Entries(f) : e.owner = p /\ e \in EntriesOf(loc[p].snaps)
  OBVIOUS
<1>2. f \in Touched(S)
  BY <1>1 DEF VerifyEnforced
<1>3. PICK k \in DOMAIN S : f = S[k].entry.family
  BY <1>2 DEF Touched, SnapFamily
<1>4. PICK e : e = S[k].entry
  OBVIOUS
<1>5. e \in EntriesOf(loc[p].snaps)
  BY <1>4 DEF EntriesOf
<1>6. Owns(p, loc[p])
  BY DEF IInv, ProcInv
<1>7. e \in journal /\ e.owner = p
  BY <1>5, <1>6 DEF Owns, Held
<1> QED
  BY <1>3, <1>4, <1>5, <1>7 DEF Entries

\* A calm step that moves on keeps what it has to restore.
LEMMA CalmMoves ==
    ASSUME IInv, IInv', CalmTables, NEW p \in Procs, NEW x, Goto(p, x), Moves(p, loc'[p]),
           UNCHANGED <<lease, routes, removed, journal>>,
           \A f \in Families :
             (owned'[f] => owned[f]) \/ \E e \in Entries(f) : e.owner = p /\ e \in EntriesOf(loc[p].snaps)
    PROVE  CalmTables'
<1>1. PICK l : Goto(p, l) /\ loc'[p] = l
  BY StepsOn
<1>2. /\ LastPass(l) /\ Pending(loc[p]) \subseteq Pending(l)
      /\ l.pc \notin {"undo", "forget", "persist"}
  BY <1>1 DEF Moves, CalmTables
<1>3. EntriesOf(loc[p].snaps) \subseteq Pending(l)
  BY <1>2 DEF Pending
<1>4. ASSUME NEW f \in Families
      PROVE  /\ \/ (owned'[f] => owned[f]) /\ removed'[f] \subseteq removed[f]
                \/ \E e \in Entries(f) \cap Entries(f)' : e.owner = p /\ e \in Pending(l)
             /\ routes[f] \subseteq routes'[f] /\ Entries(f)' = Entries(f)
             /\ \A e \in Entries(f) : e \in Pending(loc[p]) => e \in Pending(l)
             /\ Undoes(f, l)'
  <2>1. Entries(f)' = Entries(f) /\ routes'[f] = routes[f] /\ removed'[f] = removed[f]
    BY DEF Entries
  <2>2. Undoes(f, l)'
    BY <1>2 DEF Undoes
  <2> QED
    BY <1>2, <1>3, <2>1, <2>2
<1> QED
  BY <1>1, <1>2, <1>4, CalmStep

\* A calm plan confirms the gateways of a readable family.
LEMMA CalmPlanned ==
    ASSUME IInv, IInv', QuietTables, CalmTables, NEW p \in Procs, NEW x, Goto(p, x), Planned(p, loc'[p]),
           UNCHANGED <<lease, routes, removed, journal, owned>>
    PROVE  CalmTables'
<1>1. PICK l : Goto(p, l) /\ loc'[p] = l
  BY StepsOn
<1>2. PICK e \in Entry : e = l.cur.entry
  BY <1>1 DEF Planned, Snap
<1>3. /\ l.pc = "undo" /\ l.unconf = Missing(e, "Unconfirmed") /\ l.made = {}
      /\ e \in Known(loc[p]) /\ LastPass(l) /\ Pending(loc[p]) \subseteq Pending(l)
  BY <1>1, <1>2 DEF Planned, Known, Current, HasCur, CalmTables
<1>4. ASSUME NEW f \in Families \cap Readable
      PROVE  /\ (owned'[f] => owned[f]) /\ removed'[f] \subseteq removed[f]
             /\ routes[f] \subseteq routes'[f] /\ Entries(f)' = Entries(f)
             /\ \A d \in Entries(f) : d \in Pending(loc[p]) => d \in Pending(l)
             /\ Undoes(f, l)'
  <2>1. /\ Entries(f)' = Entries(f) /\ routes'[f] = routes[f] /\ removed'[f] = removed[f]
        /\ owned'[f] = owned[f]
    BY DEF Entries
  <2>2. KnowsRoutes(f, loc[p]) /\ lease[f] # {}
    BY DEF QuietTables
  <2>3. e.family = f => l.unconf = {}
    BY <1>3, <2>2, MissingOfFamily DEF KnowsRoutes
  <2>4. Undoes(f, l)'
    BY <1>2, <1>3, <2>3 DEF Undoes
  <2> QED
    BY <1>3, <2>1, <2>4
<1> QED
  BY <1>1, <1>3, <1>4, CalmStep

\* An error return of a calm run leaves no family without its rollback.
LEMMA CalmFail ==
    ASSUME IInv, IInv', CalmTables, NEW p \in Procs, Fail(p), loc[p].pc \notin {"off", "dead"},
           UNCHANGED <<lease, routes, removed, journal, owned>>,
           loc[p].mode = "rollback" =>
             HasCur(loc[p]) /\ \A f \in Families \cap Readable : loc[p].cur.entry \notin Entries(f)
    PROVE  CalmTables'
<1>1. PICK l : /\ Goto(p, l) /\ loc'[p] = l
               /\ l.pc \notin {"undo", "forget", "persist"}
               /\ LastPass(loc[p]) => LastPass(l)
               /\ LastPass(loc[p]) => \A e \in Pending(loc[p]) : e \in Pending(l) \/ e = loc[p].cur.entry
  BY FailMoves
<1>2. CASE loc[p].mode # "rollback"
  <2>1. Moves(p, loc'[p])
    BY <1>2, FailMoves
  <2> QED
    BY <1>1, <2>1, CalmMoves
<1>3. CASE loc[p].mode = "rollback"
  <2>1. LastPass(l) /\ \A e \in Pending(loc[p]) : e \in Pending(l) \/ e = loc[p].cur.entry
    BY <1>1 DEF CalmTables
  <2>2. ASSUME NEW f \in Families \cap Readable
        PROVE  /\ (owned'[f] => owned[f]) /\ removed'[f] \subseteq removed[f]
               /\ routes[f] \subseteq routes'[f] /\ Entries(f)' = Entries(f)
               /\ \A d \in Entries(f) : d \in Pending(loc[p]) => d \in Pending(l)
               /\ Undoes(f, l)'
    <3>1. /\ Entries(f)' = Entries(f) /\ routes'[f] = routes[f] /\ removed'[f] = removed[f]
          /\ owned'[f] = owned[f]
      BY DEF Entries
    <3>2. Undoes(f, l)'
      BY <1>1 DEF Undoes
    <3> QED
      BY <1>3, <2>1, <3>1, <3>2
  <2> QED
    BY <1>1, <2>1, <2>2, CalmStep
<1> QED
  BY <1>2, <1>3

\* The calm steps that leave the routes and the journal alone.
LEMMA CalmLeaves ==
    ASSUME IInv, IInv', QuietTables, CalmTables, NEW p \in Procs,
           \/ PersistedPolicies(p) \/ RecoveryOutcome(p) \/ CaptureRecovers(p)
           \/ Accept(p) \/ AcceptTimesOut(p) \/ ServingEnds(p) \/ Stop(p) \/ RollbackEnds(p)
           \/ RecoverPolicy(p) \/ RestoreSnapshot(p)
    PROVE  CalmTables'
<1>1. UNCHANGED <<lease, routes, removed, journal, owned>>
  BY DEF PersistedPolicies, RecoveryOutcome, CaptureRecovers, Accept, AcceptTimesOut, ServingEnds,
         Stop, RollbackEnds, RecoverPolicy, RestoreSnapshot, osvars
<1>2. Moves(p, loc'[p]) \/ Planned(p, loc'[p])
  BY QuietMoves, Plans DEF QuietTables
<1>3. \E l : Goto(p, l)
  BY DEF PersistedPolicies, RecoveryOutcome, CaptureRecovers, Accept, AcceptTimesOut, ServingEnds,
         Stop, RollbackEnds, RecoverPolicy, RestoreSnapshot, Fail, Exit
<1>4. \A f \in Families : owned'[f] => owned[f]
  BY <1>1
<1> QED
  BY <1>1, <1>2, <1>3, <1>4, CalmMoves, CalmPlanned

\* The calm steps that set a flag: of what the host holds.
LEMMA CalmEnforces ==
    ASSUME IInv, IInv', CalmTables, NEW p \in Procs,
           Refresh(p) \/ VerifyProtected(p) \/ ApplyVerify(p) \/ ApplyFlag(p)
    PROVE  CalmTables'
<1>1. /\ loc[p] \in Local /\ Fits(loc[p]) /\ Owns(p, loc[p]) /\ TablesOK
      /\ loc[p].pc \in {"loop", "verify", "delete", "apply"}
      /\ UNCHANGED <<lease, routes, removed, journal>>
  BY DEF IInv, TypeOK, ProcInv, Refresh, VerifyProtected, ApplyVerify, ApplyFlag, osvars
<1>2. loc[p].mode \in {"serve", "capture"} /\ Moves(p, loc'[p])
  BY <1>1, QuietMoves DEF Fits
<1>3. \E l : Goto(p, l)
  BY DEF Refresh, VerifyProtected, ApplyVerify, ApplyFlag, Fail, Exit
<1>4. \A f \in Families :
        (owned'[f] => owned[f]) \/ \E e \in Entries(f) : e.owner = p /\ e \in EntriesOf(loc[p].snaps)
  <2>1. CASE Refresh(p) \/ VerifyProtected(p)
    <3>1. VerifyEnforced(loc[p].snaps) \/ owned' = owned
      BY <2>1 DEF Refresh, VerifyProtected
    <3> QED
      BY <1>2, <3>1, TouchedOwned
  <2>2. CASE ApplyVerify(p)
    <3>1. VerifyEnforced(<<loc[p].cur>>) \/ owned' = owned
      BY <2>2 DEF ApplyVerify
    <3>2. loc[p].cur.entry \in EntriesOf(loc[p].snaps)
      BY <1>1, <2>2 DEF Fits, ApplyVerify
    <3>3. EntriesOf(<<loc[p].cur>>) \subseteq EntriesOf(loc[p].snaps)
      <4>1. PICK s : s = <<loc[p].cur>>
        OBVIOUS
      <4>2. DOMAIN s = {1} /\ s[1] = loc[p].cur
        BY <4>1
      <4>3. EntriesOf(s) = {loc[p].cur.entry}
        BY <4>2 DEF EntriesOf
      <4> QED
        BY <3>2, <4>1, <4>3
    <3> QED
      BY <1>2, <3>1, <3>3, TouchedOwned
  <2>3. CASE ApplyFlag(p)
    <3>1. PICK e : e = loc[p].cur.entry
      OBVIOUS
    <3>2. e \in EntriesOf(loc[p].snaps)
      BY <1>1, <2>3, <3>1 DEF ApplyFlag, Fits
    <3>3. e \in journal /\ e.owner = p
      BY <1>1, <1>2, <3>2 DEF Owns, Held
    <3>4. \A f \in Families : f # e.family => owned'[f] = owned[f]
      BY <1>1, <2>3, <3>1 DEF ApplyFlag, TablesOK
    <3> QED
      BY <3>2, <3>3, <3>4 DEF Entries
  <2> QED
    BY <2>1, <2>2, <2>3
<1> QED
  BY <1>1, <1>2, <1>3, <1>4, CalmMoves

\* A calm undo creates a route.
LEMMA CalmUndoRoute ==
    ASSUME IInv, IInv', QuietTables, CalmTables, NEW p \in Procs, UndoRoute(p) PROVE CalmTables'
<1>1. /\ loc[p] \in Local /\ present /\ TablesOK /\ loc[p].pc = "undo"
      /\ UNCHANGED <<lease, journal, owned>>
  BY DEF IInv, TypeOK, QuietTables, UndoRoute, osvars
<1>2. PICK x : x = loc[p].cur.entry.family
  OBVIOUS
<1>3. PICK g \in loc[p].avail :
        /\ routes' = [routes EXCEPT ![x] = @ \cup {g}]
        /\ removed' = [removed EXCEPT ![x] = @ \ {g}]
        /\ Goto(p, [loc[p] EXCEPT !.avail = loc[p].avail \ {g}, !.made = loc[p].made \cup {g}])
  BY <1>1, <1>2 DEF UndoRoute
<1>4. PICK l : l = [loc[p] EXCEPT !.avail = loc[p].avail \ {g}, !.made = loc[p].made \cup {g}]
  OBVIOUS
<1>5. Goto(p, l) /\ loc'[p] = l
  BY <1>3, <1>4, Arrives
<1>6. /\ l.pc = "undo" /\ l.mode = loc[p].mode /\ l.again = loc[p].again
      /\ l.snaps = loc[p].snaps /\ l.work = loc[p].work /\ l.cur = loc[p].cur
      /\ l.made = loc[p].made \cup {g} /\ l.unconf = loc[p].unconf
  BY <1>1, <1>4 DEF Local
<1>7. LastPass(l) /\ Pending(l) = Pending(loc[p])
  BY <1>1, <1>6 DEF LastPass, Pending, InHand, Current, HasCur, CalmTables
<1>8. ASSUME NEW f \in Families \cap Readable
      PROVE  /\ (owned'[f] => owned[f]) /\ removed'[f] \subseteq removed[f]
             /\ routes[f] \subseteq routes'[f] /\ Entries(f)' = Entries(f)
             /\ Undoes(f, l)'
  <2>1. Entries(f)' = Entries(f) /\ owned'[f] = owned[f] /\ Undoes(f, loc[p])
    BY <1>1 DEF Entries, CalmTables
  <2>2. CASE x # f
    <3>1. routes'[f] = routes[f] /\ removed'[f] = removed[f]
      BY <1>1, <1>3, <2>2 DEF TablesOK
    <3>2. l.cur.entry.family # f
      BY <1>2, <1>6, <2>2
    <3>3. Undoes(f, l)'
      BY <1>6, <2>1, <3>2 DEF Undoes, Entries
    <3> QED
      BY <2>1, <3>1, <3>3
  <2>3. CASE x = f
    <3>1. routes'[f] = routes[f] \cup {g} /\ removed'[f] = removed[f] \ {g}
      BY <1>1, <1>3, <2>3 DEF TablesOK
    <3>2. Undoes(f, l)'
      BY <1>1, <1>6, <2>1, <3>1 DEF Undoes
    <3> QED
      BY <2>1, <3>1, <3>2
  <2> QED
    BY <2>2, <2>3
<1> QED
  BY <1>1, <1>5, <1>7, <1>8, CalmStep

\* No gateway of a readable family is unconfirmed.
LEMMA CalmUnconfirmed ==
    ASSUME IInv, IInv', CalmTables, NEW p \in Procs, UndoUnconfirmed(p) PROVE CalmTables'
<1>1. /\ loc[p].pc = "undo" /\ loc[p].unconf # {} /\ Fail(p) /\ HasCur(loc[p])
      /\ UNCHANGED <<lease, routes, removed, journal, owned>>
  BY DEF UndoUnconfirmed, HasCur, osvars
<1>2. ASSUME NEW f \in Families \cap Readable PROVE loc[p].cur.entry \notin Entries(f)
  BY <1>1 DEF CalmTables, Undoes, Entries
<1> QED
  BY <1>1, <1>2, CalmFail

\* A calm undo of one's own entry leaves nothing of the family's damage.
LEMMA CalmUndoFlag ==
    ASSUME IInv, IInv', QuietTables, CalmTables, NEW p \in Procs, UndoFlag(p) PROVE CalmTables'
<1>1. /\ loc[p] \in Local /\ Fits(loc[p]) /\ present /\ TablesOK /\ loc[p].pc = "undo"
      /\ loc[p].avail = {} /\ loc[p].unconf = {} /\ HasCur(loc[p]) /\ loc[p].cur \in Snap
      /\ UNCHANGED <<lease, routes, removed, journal>>
  BY DEF IInv, TypeOK, ProcInv, QuietTables, UndoFlag, osvars, Fits, HasCur
<1>2. PICK e \in Entry : e = loc[p].cur.entry
  BY <1>1 DEF Snap
<1>3. PICK x \in Families : x = e.family
  BY DEF Entry
<1>4. CASE Fail(p) /\ owned' = owned /\ ~(loc[p].made \subseteq routes[x])
  <2>1. ASSUME NEW f \in Families \cap Readable, loc[p].mode = "rollback"
        PROVE  loc[p].cur.entry \notin Entries(f)
    <3>1. Undoes(f, loc[p])
      BY DEF CalmTables
    <3> QED
      BY <1>1, <1>2, <1>3, <1>4, <2>1, <3>1 DEF Undoes, Entries
  <2> QED
    BY <1>1, <1>4, <2>1, CalmFail
<1>5. CASE /\ owned' = [owned EXCEPT ![x] = @ /\ ~ShouldRestoreOwnedFlag(flag[x], e.flag)]
           /\ Goto(p, [loc[p] EXCEPT !.pc = "forget"])
  <2>1. Genuine(e) /\ (owned[x] => flag[x])
    BY <1>1, <1>2 DEF IInv, KnownInv, Known, Current
  <2>2. /\ owned'[x] <=> owned[x] /\ ~(flag[x] /\ ~e.flag)
        /\ \A f \in Families \ {x} : owned'[f] = owned[f]
    BY <1>1, <1>5 DEF ShouldRestoreOwnedFlag, TablesOK
  <2>3. ~owned'[x]
    BY <1>3, <2>1, <2>2 DEF Genuine, UserFlag
  <2>4. PICK l : l = [loc[p] EXCEPT !.pc = "forget"]
    OBVIOUS
  <2>5. Goto(p, l) /\ loc'[p] = l
    BY <1>5, <2>4, Arrives
  <2>6. /\ l.pc = "forget" /\ l.mode = loc[p].mode /\ l.again = loc[p].again
        /\ l.snaps = loc[p].snaps /\ l.work = loc[p].work /\ l.cur = loc[p].cur
    BY <1>1, <2>4 DEF Local
  <2>7. \A d \in Pending(loc[p]) : d \in Pending(l) \/ (loc[p].mode = "rollback" /\ d = e)
    BY <1>2, <2>6 DEF Pending, InHand, Current
  <2>8. LastPass(l)
    BY <2>6 DEF LastPass, CalmTables
  <2>9. ASSUME NEW f \in Families \cap Readable
        PROVE  /\ (owned'[f] => owned[f]) /\ removed'[f] \subseteq removed[f]
               /\ routes[f] \subseteq routes'[f] /\ Entries(f)' = Entries(f)
               /\ Damaged(f)' => \A d \in Entries(f) : d \in Pending(loc[p]) => d \in Pending(l)
               /\ Undoes(f, l)'
    <3>1. /\ Undoes(f, loc[p]) /\ KnowsRoutes(f, loc[p]) /\ Entries(f)' = Entries(f)
          /\ routes'[f] = routes[f] /\ removed'[f] = removed[f] /\ lease'[f] = lease[f]
      BY <1>1 DEF CalmTables, QuietTables, Entries
    <3>2. owned'[f] => owned[f]
      BY <2>2, <2>3
    <3>3. loc[p].mode = "rollback" /\ e \in Entries(f) => ~Damaged(f)'
      <4>1. ASSUME loc[p].mode = "rollback", e \in Entries(f) PROVE ~Damaged(f)'
        <5>1. f = x /\ removed[f] \cap lease[f] \subseteq {}
          BY <1>1, <1>2, <1>3, <3>1, <4>1 DEF KnowsRoutes, Entries
        <5> QED
          BY <2>3, <3>1, <5>1 DEF Damaged
      <4> QED
        BY <4>1
    <3>4. Undoes(f, l)'
      BY <1>2, <2>6, <3>1, <3>3 DEF Undoes
    <3> QED
      BY <2>7, <3>1, <3>2, <3>3, <3>4
  <2> QED
    BY <1>1, <2>5, <2>8, <2>9, CalmStep
<1> QED
  BY <1>1, <1>2, <1>3, <1>4, <1>5 DEF UndoFlag, AdapterFound, DefaultRoutes

\* A calm run forgets an entry when nothing is left to undo of its family.
LEMMA CalmForget ==
    ASSUME IInv, IInv', CalmTables, NEW p \in Procs, RemovePolicyValue(p) PROVE CalmTables'
<1>1. /\ loc[p] \in Local /\ Owns(p, loc[p]) /\ loc[p].pc = "forget" /\ HasCur(loc[p])
      /\ UNCHANGED <<lease, routes, removed, owned>>
      /\ journal' = journal \ {loc[p].cur.entry}
  BY DEF IInv, TypeOK, ProcInv, RemovePolicyValue, osvars, HasCur
<1>2. PICK x \in {"restore", "recover"} : x = IF loc[p].mode = "rollback" THEN "restore" ELSE "recover"
  OBVIOUS
<1>3. PICK l : l = [loc[p] EXCEPT !.pc = x]
  OBVIOUS
<1>4. Goto(p, l) /\ loc'[p] = l
  BY <1>2, <1>3, Arrives DEF RemovePolicyValue
<1>5. /\ l.pc = x /\ l.mode = loc[p].mode /\ l.again = loc[p].again
      /\ l.snaps = loc[p].snaps /\ l.work = loc[p].work
  BY <1>1, <1>3 DEF Local
<1>6. LastPass(l) /\ Pending(l) = Pending(loc[p])
  BY <1>1, <1>2, <1>5 DEF LastPass, CalmTables, Pending, InHand
<1>7. ASSUME NEW f \in Families \cap Readable
      PROVE  /\ (owned'[f] => owned[f]) /\ removed'[f] \subseteq removed[f]
             /\ routes[f] \subseteq routes'[f]
             /\ Entries(f)' \subseteq Entries(f) /\ (Damaged(f)' => Entries(f) \subseteq Entries(f)')
             /\ Undoes(f, l)'
  <2>1. /\ Undoes(f, loc[p]) /\ (Damaged(f)' <=> Damaged(f))
        /\ Entries(f)' = Entries(f) \ {loc[p].cur.entry}
    BY <1>1 DEF CalmTables, Entries, Damaged
  <2>2. ASSUME Damaged(f), loc[p].cur.entry \in Entries(f) PROVE FALSE
    <3>1. loc[p].mode # "rollback"
      BY <1>1, <2>1, <2>2 DEF Undoes
    <3>2. loc[loc[p].cur.entry.owner].pc = "dead"
      BY <1>1, <3>1 DEF Owns
    <3>3. PICK h \in Hosts, e \in Entries(f) : e \in Pending(loc[h])
      BY <2>2 DEF CalmTables
    <3>4. e = loc[p].cur.entry
      BY <2>2, <3>3 DEF IInv, OneEntry, Entries
    <3>5. e.owner = h /\ loc[h].pc \notin {"off", "dead"}
      BY <3>3, PendingOwned DEF Procs
    <3> QED
      BY <3>2, <3>4, <3>5
  <2>3. Undoes(f, l)'
    BY <1>2, <1>5 DEF Undoes
  <2> QED
    BY <1>1, <2>1, <2>2, <2>3
<1>8. ASSUME NEW f \in Families \cap Readable, NEW e \in Entries(f)' \ Entries(f) PROVE FALSE
  BY <1>7, <1>8
<1> QED
  BY <1>1, <1>4, <1>6, <1>7, <1>8, CalmStep

\* A calm capture reads, and does nothing yet.
LEMMA CalmCapture ==
    ASSUME IInv, IInv', CalmTables, NEW p \in Procs, CaptureFamily(p) PROVE CalmTables'
<1>1. /\ loc[p] \in Local /\ loc[p].mode = "capture" /\ loc[p].pc = "capture"
      /\ UNCHANGED <<lease, routes, removed, journal, owned>>
  BY DEF IInv, TypeOK, ProcInv, CaptureFamily, osvars, Fits
<1>2. CASE Fail(p)
  BY <1>1, <1>2, CalmFail
<1>3. CASE \E s : Goto(p, [loc[p] EXCEPT !.pc = "persist", !.cur = s])
  <2>1. PICK s : Goto(p, [loc[p] EXCEPT !.pc = "persist", !.cur = s])
    BY <1>3
  <2>2. PICK l : l = [loc[p] EXCEPT !.pc = "persist", !.cur = s]
    OBVIOUS
  <2>3. Goto(p, l) /\ loc'[p] = l
    BY <2>1, <2>2, Arrives
  <2>4. l.pc = "persist" /\ l.mode = "capture" /\ l.snaps = loc[p].snaps
    BY <1>1, <2>2 DEF Local
  <2>5. LastPass(l) /\ Pending(l) = Pending(loc[p])
    BY <1>1, <2>4 DEF LastPass, Pending, InHand
  <2>6. ASSUME NEW f \in Families
        PROVE  /\ (owned'[f] => owned[f]) /\ removed'[f] \subseteq removed[f]
               /\ routes[f] \subseteq routes'[f] /\ Entries(f)' = Entries(f)
               /\ Undoes(f, l)'
    BY <1>1, <2>4 DEF Entries, Undoes
  <2> QED
    BY <1>1, <2>3, <2>5, <2>6, CalmStep
<1> QED
  BY <1>2, <1>3 DEF CaptureFamily

\* What a calm run writes to the journal is in its owner's hands.
LEMMA CalmPersist ==
    ASSUME IInv, IInv', CalmTables, ~Spend("fail"), NEW p \in Procs, PersistPolicy(p) PROVE CalmTables'
<1>1. /\ loc[p] \in Local /\ Owns(p, loc[p]) /\ loc[p].pc = "persist" /\ HasCur(loc[p])
      /\ loc[p].mode = "capture" /\ loc[p].cur \in Snap /\ loc[p].snaps \in Seq(Snap)
      /\ UNCHANGED <<lease, routes, removed, owned>>
      /\ journal' = journal \cup {loc[p].cur.entry}
  BY DEF IInv, TypeOK, ProcInv, PersistPolicy, osvars, Fits, HasCur, Local
<1>2. PICK s \in Seq(Snap) : s = Append(loc[p].snaps, loc[p].cur)
  BY <1>1, AppendSnap
<1>3. EntriesOf(s) = EntriesOf(loc[p].snaps) \cup {loc[p].cur.entry}
  BY <1>1, <1>2, AppendSnap
<1>4. PICK l : l = [loc[p] EXCEPT !.pc = "apply", !.snaps = s]
  OBVIOUS
<1>5. Goto(p, l) /\ loc'[p] = l
  BY <1>2, <1>4, Arrives DEF PersistPolicy
<1>6. l.pc = "apply" /\ l.mode = "capture" /\ l.snaps = s
  BY <1>1, <1>4 DEF Local
<1>7. LastPass(l) /\ \A d \in Pending(loc[p]) : d \in Pending(l)
  BY <1>1, <1>3, <1>6 DEF LastPass, Pending, InHand
<1>8. loc[p].cur.entry.owner = p
  BY <1>1 DEF Owns
<1>9. ASSUME NEW f \in Families
      PROVE  /\ (owned'[f] => owned[f]) /\ removed'[f] \subseteq removed[f]
             /\ routes[f] \subseteq routes'[f] /\ Entries(f) \subseteq Entries(f)'
             /\ \A e \in Entries(f)' \ Entries(f) : e.owner = p
             /\ Undoes(f, l)'
  BY <1>1, <1>6, <1>8 DEF Entries, Undoes
<1> QED
  BY <1>1, <1>5, <1>7, <1>9, CalmStep

\* A calm run deletes a route of a family whose entry it holds.
LEMMA CalmDelete ==
    ASSUME IInv, IInv', CalmTables, NEW p \in Procs, ApplyDelete(p) PROVE CalmTables'
<1>1. /\ loc[p] \in Local /\ Fits(loc[p]) /\ Owns(p, loc[p]) /\ loc[p].pc = "delete"
      /\ loc[p].mode = "capture" /\ TablesOK
      /\ UNCHANGED <<lease, journal, owned>>
  BY DEF IInv, TypeOK, ProcInv, ApplyDelete, osvars, Fits
<1>2. PICK e : e = loc[p].cur.entry
  OBVIOUS
<1>3. e \in EntriesOf(loc[p].snaps) /\ e \in Entries(e.family) /\ e.owner = p
  <2>1. e \in EntriesOf(loc[p].snaps)
    BY <1>1, <1>2 DEF Fits
  <2> QED
    BY <1>1, <2>1 DEF Owns, Held, Entries
<1>4. CASE Fail(p) /\ UNCHANGED <<routes, removed>>
  BY <1>1, <1>4, CalmFail
<1>5. CASE \E g : /\ routes' = [routes EXCEPT ![e.family] = @ \ {g}]
                  /\ removed' = [removed EXCEPT ![e.family] = @ \cup {g}]
                  /\ Goto(p, [loc[p] EXCEPT !.avail = loc[p].avail \ {g}])
  <2>1. PICK g : /\ routes' = [routes EXCEPT ![e.family] = @ \ {g}]
                 /\ removed' = [removed EXCEPT ![e.family] = @ \cup {g}]
                 /\ Goto(p, [loc[p] EXCEPT !.avail = loc[p].avail \ {g}])
    BY <1>5
  <2>2. PICK l : l = [loc[p] EXCEPT !.avail = loc[p].avail \ {g}]
    OBVIOUS
  <2>3. Goto(p, l) /\ loc'[p] = l
    BY <2>1, <2>2, Arrives
  <2>4. l.pc = "delete" /\ l.mode = "capture" /\ l.snaps = loc[p].snaps
    BY <1>1, <2>2 DEF Local
  <2>5. LastPass(l) /\ Pending(l) = Pending(loc[p]) /\ e \in Pending(l)
    BY <1>1, <1>3, <2>4 DEF LastPass, Pending, InHand
  <2>6. \A f \in Families \ {e.family} : routes'[f] = routes[f] /\ removed'[f] = removed[f]
    BY <1>1, <2>1 DEF TablesOK
  <2>7. ASSUME NEW f \in Families \cap Readable
        PROVE  /\ \/ (owned'[f] => owned[f]) /\ removed'[f] \subseteq removed[f]
                  \/ \E d \in Entries(f) \cap Entries(f)' : d.owner = p /\ d \in Pending(l)
               /\ routes[f] \subseteq routes'[f] \/ \E d \in Entries(f) : d.owner = p
               /\ Entries(f)' = Entries(f)
               /\ Undoes(f, l)'
    <3>1. Entries(f)' = Entries(f) /\ owned'[f] = owned[f]
      BY <1>1 DEF Entries
    <3>2. Undoes(f, l)'
      BY <2>4 DEF Undoes
    <3> QED
      BY <1>3, <2>5, <2>6, <3>1, <3>2
  <2> QED
    BY <1>1, <2>3, <2>5, <2>7, CalmStep
<1> QED
  BY <1>2, <1>4, <1>5 DEF ApplyDelete

\* Every step that spends no bound is a step of a process that keeps it.
LEMMA CalmNext ==
    ASSUME IInv, IInv', QuietTables, CalmTables, ~Spend("env"), ~Spend("fail"), Next PROVE CalmTables'
<1>1. Hosts \subseteq Procs
  BY DEF Procs
<1>2. ASSUME NEW p \in Procs, PersistedPolicies(p) \/ Recover(p) \/ Undo(p) \/ CallFails(p)
      PROVE  CalmTables'
  BY <1>2, CalmLeaves, CalmUndoRoute, CalmUnconfirmed, CalmUndoFlag, CalmForget
     DEF Recover, Undo, CallFails
<1>3. ASSUME NEW p \in Hosts, Restore(p) \/ Protect(p) \/ Serve(p) \/ Crash(p) PROVE CalmTables'
  <2>1. CASE Restore(p)
    BY <1>1, <2>1, CalmLeaves DEF Restore
  <2>2. CASE Protect(p)
    BY <1>1, <2>2, CalmLeaves, CalmEnforces, CalmCapture, CalmPersist, CalmDelete DEF Protect
  <2>3. CASE Serve(p)
    BY <1>1, <2>3, CalmLeaves, CalmEnforces DEF Serve
  <2>4. CASE Crash(p)
    BY <2>4 DEF Crash
  <2> QED
    BY <1>3, <2>1, <2>2, <2>3, <2>4
<1>4. ~Windows
  BY DEF Windows, RouteAppears, NewLease, LeaseExpires, UserEnables, Unplug, PlugIn, QuietTables
<1> QED
  BY <1>2, <1>3, <1>4 DEF Next

\* A calm run stays restorable, and a run that is not calm never is again.
LEMMA CalmInvStep == IInv /\ IInv' /\ QuietInv /\ CalmInv /\ [Next]_vars => CalmInv'
<1> SUFFICES ASSUME IInv, IInv', QuietInv, CalmInv, [Next]_vars PROVE CalmInv'
  OBVIOUS
<1>1. left' = left \/ Spend("env") \/ Spend("fail")
  BY Spends
<1>2. /\ left \in [env : Nat, fail : Nat] /\ MaxEnv \in Nat /\ MaxFail \in Nat
      /\ left.env <= MaxEnv /\ left.fail <= MaxFail
  BY PolicyAssumption DEF IInv, TypeOK, TablesOK, QuietInv, CalmInv
<1>3. ASSUME NEW what \in {"env", "fail"}, Spend(what) PROVE left'.fail <= MaxFail /\ ~Calm'
  <2>1. left' = [left EXCEPT ![what] = @ - 1] /\ left[what] > 0
    BY <1>3 DEF Spend
  <2>2. \/ left'.env = left.env - 1 /\ left'.fail = left.fail
        \/ left'.env = left.env /\ left'.fail = left.fail - 1
    BY <1>2, <2>1
  <2>3. left'.fail <= MaxFail /\ (left'.env # MaxEnv \/ left'.fail # MaxFail)
    BY <1>2, <2>2
  <2> QED
    BY <2>3 DEF Calm
<1>4. CASE left' = left /\ Calm
  <2>1. CalmTables /\ QuietTables /\ ~Spend("env") /\ ~Spend("fail")
    BY <1>2, <1>4 DEF CalmInv, QuietInv, Calm, Spend
  <2>2. CASE Next
    BY <1>4, <2>1, <2>2, CalmNext DEF CalmInv
  <2>3. CASE UNCHANGED vars
    BY <1>4, <2>1, <2>3
       DEF vars, CalmInv, CalmTables, LastPass, Undoes, Damaged,
           Entries, Pending, InHand, Current, HasCur, EntriesOf
  <2> QED
    BY <2>2, <2>3
<1>5. CASE left' = left /\ ~Calm
  BY <1>5 DEF CalmInv, Calm
<1> QED
  BY <1>1, <1>3, <1>4, <1>5 DEF CalmInv

\* Nothing is damaged.
LEMMA CalmInit == Init => CalmInv
<1> SUFFICES ASSUME Init PROVE CalmInv
  OBVIOUS
<1>1. left.fail <= MaxFail
  BY PolicyAssumption DEF Init
<1>2. \A p \in Procs : loc[p].pc = "off" /\ loc[p].mode = "start"
  BY DEF Init, Idle
<1>3. ASSUME NEW f \in Families
      PROVE  ~Damaged(f) /\ \A p \in Procs : Undoes(f, loc[p])
  <2>1. owned[f] = FALSE /\ removed[f] = {}
    BY DEF Init
  <2> QED
    BY <1>2, <2>1 DEF Damaged, Undoes
<1> QED
  BY <1>1, <1>2, <1>3 DEF CalmInv, CalmTables, LastPass

\* StopRestores: when nothing failed and nothing happened, a stopped policy has
\* put back the flag and the leased route of a family whose gateway it can read
\* (restore_snapshot() reached for every snapshot by rollback_suffix() or Drop).
THEOREM CalmStopRestores == Spec => []StopRestores
<1>1. IInv /\ CalmInv => StopRestores
  <2> SUFFICES ASSUME IInv, CalmInv, Calm, \A h \in Hosts : ~ProcessOwnerIsRunning(h),
                      NEW f \in Families \cap Readable
               PROVE  ~Damaged(f)
    BY DEF StopRestores, Calm, Damaged
  <2>1. ASSUME Damaged(f) PROVE FALSE
    <3>1. PICK h \in Hosts, e \in Entries(f) : e \in Pending(loc[h])
      BY <2>1 DEF CalmInv, CalmTables
    <3>2. loc[h].pc \notin {"off", "dead"}
      BY <3>1, PendingOwned DEF Procs
    <3> QED
      BY <3>2 DEF ProcessOwnerIsRunning
  <2> QED
    BY <2>1
<1>2. Spec => []CalmInv
  BY CalmInit, CalmInvStep, Invariance, QuietInvariance, PTL DEF Spec
<1> QED
  BY <1>1, <1>2, Invariance, PTL
=============================================================================
