--------------------------- MODULE LauncherProofs ---------------------------
(***************************************************************************)
(* Proofs about the launcher: approvals reach their own window, nothing is *)
(* left behind, and the pairing shown agrees with the file, for any number *)
(* of children, launches and kills, on either system.                      *)
(***************************************************************************)
EXTENDS Launcher, TLAPS

\* A child printed this line and no reader has passed it on yet.
Said(i, line) == line \in Range(child[i].stdout)

\* Children are numbered as they were started, by ever later launchers; the last
\* one only may be alive, since the port is taken.
SpawnInv ==
    /\ up => launch > 0
    /\ \A i \in Children : i > spawned => child[i] = NoChild
    /\ \A i \in Children : i <= spawned => child[i].pc # "none" /\ child[i].of \in 1 .. launch
    /\ \A i, j \in Children : i <= j /\ j <= spawned => child[i].of <= child[j].of
    /\ \A i \in Children : Alive(i) => i = spawned
    /\ ui.runtime # NoRuntime => /\ up /\ ui.runtime <= spawned
                                 /\ child[ui.runtime].of = launch

\* What a process has said and kept fits how far it came: it confirms before it
\* completes, and only a controller that died on Windows leaves keys.
Consistent(p) ==
    /\ p.stage # "waiting" => p.kind = "Pairing"
    /\ p.pc = "saving" => p.stage = "confirmed"
    /\ p.stage = "complete" => p.pc = "exit0"
    /\ "CONFIRMED" \in Range(p.stdout) => p.stage \in {"confirmed", "complete"}
    /\ "COMPLETE" \in Range(p.stdout) => p.stage = "complete"
    /\ p.keys => p.kind = "Controller"
    /\ p.pc \in {"exit0", "exit1"} /\ p.keys => OnWindows /\ p.pc = "exit1"
    /\ "approve" \in Range(p.stdin) => p.stage \in {"confirmed", "complete"}

StageInv == \A i \in Children : Consistent(child[i])

\* The running launcher has let go of its other children.
BehindInv ==
    up => \A i \in Children : child[i].of = launch /\ i # ui.runtime => ~Alive(i) /\ ~child[i].keys

\* An approval is on offer only for the window that confirmed.
ApproveInv ==
    ui.runtime # NoRuntime /\ (ui.approve \/ mail.approve = "yes") =>
        child[ui.runtime].stage \in {"confirmed", "complete"}

\* The word of a completed window is on its way: in the pipe, in the mailbox or
\* in the state; and whoever heard it can rely on the file.
PairedInv ==
    /\ ui.runtime = NoRuntime => mail = NoMail
    /\ ui.paired \/ mail.complete => store # "none"
    /\ ui.runtime # NoRuntime /\ Said(ui.runtime, "COMPLETE") => store # "none"
    /\ up /\ store = "paired" /\ (\E i \in Children : child[i].stage = "complete" /\ child[i].of = launch)
       => \/ ui.paired
          \/ mail.complete
          \/ ui.runtime # NoRuntime /\ Said(ui.runtime, "COMPLETE")

IInv == TypeOK /\ SpawnInv /\ StageInv /\ BehindInv /\ ApproveInv /\ PairedInv

-----------------------------------------------------------------------------
\* What is in a pipe after a line is written or read.
LEMMA Appending ==
    ASSUME NEW S, NEW s \in Seq(S), NEW e \in S
    PROVE  /\ Append(s, e) \in Seq(S)
           /\ \A x : x \in Range(Append(s, e)) <=> x \in Range(s) \/ x = e
<1>1. Append(s, e) \in Seq(S) /\ DOMAIN s = 1 .. Len(s) /\ DOMAIN Append(s, e) = 1 .. (Len(s) + 1)
      /\ Len(s) \in Nat
  OBVIOUS
<1>2. Append(s, e)[Len(s) + 1] = e /\ \A k \in 1 .. Len(s) : Append(s, e)[k] = s[k]
  OBVIOUS
<1>3. ASSUME NEW x, x \in Range(Append(s, e)) PROVE x \in Range(s) \/ x = e
  <2>1. PICK k \in 1 .. (Len(s) + 1) : x = Append(s, e)[k]
    BY <1>1, <1>3 DEF Range
  <2>2. k \in 1 .. Len(s) \/ k = Len(s) + 1
    BY <1>1
  <2> QED
    BY <1>1, <1>2, <2>1, <2>2 DEF Range
<1>4. ASSUME NEW x, x \in Range(s) \/ x = e PROVE x \in Range(Append(s, e))
  BY <1>1, <1>2, <1>4 DEF Range
<1> QED
  BY <1>1, <1>3, <1>4

\* What is in a pipe after its first line is read.
LEMMA Heading ==
    ASSUME NEW S, NEW s \in Seq(S), s # <<>>
    PROVE  /\ Tail(s) \in Seq(S) /\ Head(s) \in S
           /\ \A x : x \in Range(s) <=> x \in Range(Tail(s)) \/ x = Head(s)
<1>1. /\ Tail(s) \in Seq(S) /\ Len(s) \in Nat /\ Len(s) > 0 /\ Head(s) = s[1]
      /\ DOMAIN s = 1 .. Len(s) /\ DOMAIN Tail(s) = 1 .. (Len(s) - 1)
  OBVIOUS
<1>2. \A k \in 1 .. (Len(s) - 1) : Tail(s)[k] = s[k + 1]
  OBVIOUS
<1>3. ASSUME NEW x, x \in Range(s) PROVE x \in Range(Tail(s)) \/ x = Head(s)
  <2>1. PICK k \in 1 .. Len(s) : x = s[k]
    BY <1>1, <1>3 DEF Range
  <2>2. CASE k = 1
    BY <1>1, <2>1, <2>2
  <2>3. CASE k # 1
    <3>1. k - 1 \in 1 .. (Len(s) - 1) /\ (k - 1) + 1 = k
      BY <1>1, <2>3
    <3>2. Tail(s)[k - 1] = x
      BY <1>2, <2>1, <3>1
    <3> QED
      BY <1>1, <3>1, <3>2 DEF Range
  <2> QED
    BY <2>2, <2>3
<1>4. ASSUME NEW x, x \in Range(Tail(s)) \/ x = Head(s) PROVE x \in Range(s)
  <2>1. CASE x = Head(s)
    BY <1>1, <2>1 DEF Range
  <2>2. CASE x \in Range(Tail(s))
    <3>1. PICK k \in 1 .. (Len(s) - 1) : x = Tail(s)[k]
      BY <1>1, <2>2 DEF Range
    <3>2. k + 1 \in 1 .. Len(s) /\ x = s[k + 1]
      BY <1>1, <1>2, <3>1
    <3> QED
      BY <1>1, <3>2 DEF Range
  <2> QED
    BY <1>4, <2>1, <2>2
<1>5. Head(s) \in S
  BY <1>1
<1> QED
  BY <1>1, <1>3, <1>4, <1>5

\* An empty pipe holds no line.
LEMMA Silent == \A x : x \notin Range(<<>>)
BY DEF Range

\* A launcher that leaves writes "q", or nothing.
LEMMA Joining ==
    ASSUME NEW s \in Seq({"approve", "q"}), NEW t \in {<<>>, <<"q">>}
    PROVE  /\ s \o t \in Seq({"approve", "q"})
           /\ "approve" \in Range(s \o t) => "approve" \in Range(s)
<1>1. CASE t = <<>>
  BY <1>1
<1>2. CASE t = <<"q">>
  <2>1. s \o t = Append(s, "q")
    BY <1>2
  <2> QED
    BY <2>1, Appending
<1> QED
  BY <1>1, <1>2

\* Types, in the names of this module.
LEMMA Types ==
    ASSUME IInv
    PROVE  /\ ui \in Interfaces /\ mail \in Mailboxes /\ child \in [Children -> Processes]
           /\ spawned \in Nat /\ spawned <= MaxChild /\ launch \in Nat /\ MaxChild \in Nat
           /\ store \in {"none", "paired", "torn"} /\ up \in BOOLEAN
           /\ ui.runtime # NoRuntime => ui.runtime \in Children
           /\ \A i \in Children : child[i] \in Processes
BY LauncherAssumption DEF IInv, TypeOK, Interfaces

\* Changing one field of a process.
LEMMA ProcessEdits ==
    ASSUME NEW p \in Processes
    PROVE  /\ \A x \in {"Controller", "Pairing"} : [p EXCEPT !.kind = x] \in Processes
           /\ \A x \in {"run", "saving", "exit0", "exit1"} : [p EXCEPT !.pc = x] \in Processes
           /\ \A x \in 0 .. MaxLaunch : [p EXCEPT !.of = x] \in Processes
           /\ \A x \in BOOLEAN : [p EXCEPT !.keys = x] \in Processes
           /\ \A x \in BOOLEAN : [p EXCEPT !.eof = x] \in Processes
           /\ \A x \in Seq({"approve", "q"}) : [p EXCEPT !.stdin = x] \in Processes
           /\ \A x \in Seq(Lines) : [p EXCEPT !.stdout = x] \in Processes
           /\ \A x \in BOOLEAN : [p EXCEPT !.fatal = x] \in Processes
           /\ \A x \in {"shown", "confirmed", "complete"} : [p EXCEPT !.stage = x] \in Processes
           /\ \A x \in 0 .. MaxLine : [p EXCEPT !.lines = x] \in Processes
<1>1. ASSUME NEW x \in {"Controller", "Pairing"} PROVE [p EXCEPT !.kind = x] \in Processes
  BY DEF Processes
<1>2. ASSUME NEW x \in {"run", "saving", "exit0", "exit1"} PROVE [p EXCEPT !.pc = x] \in Processes
  BY DEF Processes
<1>3. ASSUME NEW x \in 0 .. MaxLaunch PROVE [p EXCEPT !.of = x] \in Processes
  BY DEF Processes
<1>4. ASSUME NEW x \in BOOLEAN PROVE [p EXCEPT !.keys = x] \in Processes
  BY DEF Processes
<1>5. ASSUME NEW x \in BOOLEAN PROVE [p EXCEPT !.eof = x] \in Processes
  BY DEF Processes
<1>6. ASSUME NEW x \in Seq({"approve", "q"}) PROVE [p EXCEPT !.stdin = x] \in Processes
  BY DEF Processes
<1>7. ASSUME NEW x \in Seq(Lines) PROVE [p EXCEPT !.stdout = x] \in Processes
  BY DEF Processes
<1>8. ASSUME NEW x \in BOOLEAN PROVE [p EXCEPT !.fatal = x] \in Processes
  BY DEF Processes
<1>9. ASSUME NEW x \in {"shown", "confirmed", "complete"} PROVE [p EXCEPT !.stage = x] \in Processes
  BY DEF Processes
<1>10. ASSUME NEW x \in 0 .. MaxLine PROVE [p EXCEPT !.lines = x] \in Processes
  BY DEF Processes
<1> QED
  BY <1>1, <1>2, <1>3, <1>4, <1>5, <1>6, <1>7, <1>8, <1>9, <1>10

\* Changing one field of the launcher's state.
LEMMA InterfaceEdits ==
    ASSUME NEW u \in Interfaces
    PROVE  /\ \A x \in {NoRuntime} \cup Children : [u EXCEPT !.runtime = x] \in Interfaces
           /\ \A x \in Phases : [u EXCEPT !.phase = x] \in Interfaces
           /\ \A x \in BOOLEAN : [u EXCEPT !.stopping = x] \in Interfaces
           /\ \A x \in BOOLEAN : [u EXCEPT !.paired = x] \in Interfaces
           /\ \A x \in BOOLEAN : [u EXCEPT !.pattern = x] \in Interfaces
           /\ \A x \in BOOLEAN : [u EXCEPT !.approve = x] \in Interfaces
<1>1. ASSUME NEW x \in {NoRuntime} \cup Children PROVE [u EXCEPT !.runtime = x] \in Interfaces
  BY DEF Interfaces
<1>2. ASSUME NEW x \in Phases PROVE [u EXCEPT !.phase = x] \in Interfaces
  BY DEF Interfaces
<1>3. ASSUME NEW x \in BOOLEAN PROVE [u EXCEPT !.stopping = x] \in Interfaces
  BY DEF Interfaces
<1>4. ASSUME NEW x \in BOOLEAN PROVE [u EXCEPT !.paired = x] \in Interfaces
  BY DEF Interfaces
<1>5. ASSUME NEW x \in BOOLEAN PROVE [u EXCEPT !.pattern = x] \in Interfaces
  BY DEF Interfaces
<1>6. ASSUME NEW x \in BOOLEAN PROVE [u EXCEPT !.approve = x] \in Interfaces
  BY DEF Interfaces
<1> QED
  BY <1>1, <1>2, <1>3, <1>4, <1>5, <1>6

-----------------------------------------------------------------------------
\* What the mailbox does to the state.
LEMMA Applies ==
    ASSUME NEW u \in Interfaces, NEW m \in Mailboxes
    PROVE  /\ ApplyOutput(u, m) \in Interfaces /\ ApplyOutput(u, m).runtime = u.runtime
           /\ ApplyOutput(u, m).paired <=> u.paired \/ m.complete
           /\ ApplyOutput(u, m).approve => u.approve \/ m.approve = "yes"
<1>0. PICK v : v = ApplyOutput(u, m)
  OBVIOUS
<1>1. PICK phase \in Phases : phase = IF m.fatal THEN "Fatal"
                        ELSE IF m.phase # "" /\ ~u.stopping THEN m.phase ELSE u.phase
  BY DEF Phases, Interfaces, Mailboxes, Statuses
<1>2. PICK pattern \in BOOLEAN : pattern = (u.pattern \/ m.pattern)
  BY Zenon DEF Interfaces, Mailboxes
<1>3. PICK approve \in BOOLEAN : approve = IF m.complete \/ m.approve = "no" THEN FALSE
                                           ELSE (u.approve \/ m.approve = "yes")
  BY Zenon DEF Interfaces, Mailboxes
<1>4. PICK paired \in BOOLEAN : paired = (u.paired \/ m.complete)
  BY Zenon DEF Interfaces, Mailboxes
<1>5. PICK a : a = [u EXCEPT !.phase = phase]
  OBVIOUS
<1>6. PICK b : b = [a EXCEPT !.pattern = pattern]
  OBVIOUS
<1>7. PICK c : c = [b EXCEPT !.approve = approve]
  OBVIOUS
<1>8. a \in Interfaces
  BY <1>5, InterfaceEdits, Zenon
<1>9. b \in Interfaces
  BY <1>6, <1>8, InterfaceEdits, Zenon
<1>10. c \in Interfaces
  BY <1>7, <1>9, InterfaceEdits, Zenon
<1>11. v = [c EXCEPT !.paired = paired]
  BY <1>0, <1>1, <1>2, <1>3, <1>4, <1>5, <1>6, <1>7 DEF ApplyOutput, Interfaces
<1>12. v \in Interfaces
  BY <1>10, <1>11, InterfaceEdits, Zenon
<1>13. v.runtime = u.runtime /\ v.paired = paired /\ v.approve = approve
  BY <1>5, <1>6, <1>7, <1>8, <1>9, <1>10, <1>11 DEF Interfaces
<1> QED
  BY <1>0, <1>3, <1>4, <1>12, <1>13, Zenon

\* Route recovery changes the phase only.
LEMMA Recovers ==
    ASSUME NEW u \in Interfaces, NEW o
    PROVE  /\ ApplyRouteRecovery(u, o) \in Interfaces
           /\ ApplyRouteRecovery(u, o).runtime = u.runtime
           /\ ApplyRouteRecovery(u, o).paired = u.paired
           /\ ApplyRouteRecovery(u, o).approve = u.approve
<1>0. PICK v : v = ApplyRouteRecovery(u, o)
  OBVIOUS
<1>1. PICK phase \in Phases : v = [u EXCEPT !.phase = phase]
  BY <1>0 DEF ApplyRouteRecovery, Phases, Interfaces
<1>2. v \in Interfaces
  BY <1>1, InterfaceEdits, Zenon
<1> QED
  BY <1>0, <1>1, <1>2 DEF Interfaces

\* What every command sees after reaping: a child that is alive stays, one that
\* ended is let go, and nothing the mailbox held is lost.
LEMMA Reaps ==
    ASSUME IInv, up, Joined, NEW o
    PROVE  /\ Reap(o) \in Interfaces
           /\ \/ Reap(o).runtime = ui.runtime /\ (ui.runtime # NoRuntime => Alive(ui.runtime))
              \/ /\ Reap(o).runtime = NoRuntime /\ ui.runtime # NoRuntime
                 /\ ~Alive(ui.runtime) /\ Exited(ui.runtime)
           /\ Reap(o).paired <=> ui.paired \/ mail.complete
           /\ ui.runtime # NoRuntime /\ Reap(o).approve => ui.approve \/ mail.approve = "yes"
<1> USE Types
<1>1. CASE ui.runtime = NoRuntime
  <2>1. Reap(o) = ui
    BY <1>1 DEF Reap
  <2>2. mail = NoMail
    BY <1>1 DEF IInv, PairedInv
  <2>3. ~mail.complete
    BY <2>2, Zenon DEF NoMail
  <2> QED
    BY <1>1, <2>1, <2>3
<1>2. CASE ui.runtime # NoRuntime /\ Alive(ui.runtime)
  <2>1. Reap(o) = ApplyOutput(ui, mail)
    BY <1>2 DEF Reap
  <2> QED
    BY <1>2, <2>1, Applies
<1>3. CASE ui.runtime # NoRuntime /\ ~Alive(ui.runtime)
  <2>1. PICK fatal \in BOOLEAN : fatal = child[ui.runtime].fatal
    BY <1>3 DEF Processes
  <2>2. PICK m : m = [mail EXCEPT !.fatal = fatal]
    OBVIOUS
  <2>3. m \in Mailboxes /\ m.complete = mail.complete /\ m.approve = mail.approve
    BY <2>2 DEF Mailboxes
  <2>4. PICK a : a = ApplyOutput(ui, m)
    OBVIOUS
  <2>5. /\ a \in Interfaces
        /\ a.paired <=> ui.paired \/ mail.complete
        /\ a.approve => ui.approve \/ mail.approve = "yes"
    BY <2>3, <2>4, Applies
  <2>6. PICK phase \in Phases : phase = IF child[ui.runtime].pc = "exit0" THEN "Ready" ELSE "Fatal"
    BY DEF Phases
  <2>7. PICK stopping \in BOOLEAN : stopping = FALSE
    OBVIOUS
  <2>8. PICK b : b = [a EXCEPT !.runtime = NoRuntime]
    OBVIOUS
  <2>9. PICK c : c = [b EXCEPT !.stopping = stopping]
    OBVIOUS
  <2>10. PICK d : d = [c EXCEPT !.phase = phase]
    OBVIOUS
  <2>11. b \in Interfaces
    BY <2>5, <2>8, InterfaceEdits
  <2>12. c \in Interfaces
    BY <2>9, <2>11, InterfaceEdits, Zenon
  <2>13. d \in Interfaces
    BY <2>10, <2>12, InterfaceEdits, Zenon
  <2>14. d.runtime = NoRuntime /\ d.paired = a.paired /\ d.approve = a.approve
    BY <2>5, <2>8, <2>9, <2>10, <2>11, <2>12, <2>13 DEF Interfaces
  <2>15. d = [a EXCEPT !.runtime = NoRuntime, !.stopping = FALSE,
                       !.phase = IF child[ui.runtime].pc = "exit0" THEN "Ready" ELSE "Fatal"]
    BY <2>6, <2>7, <2>8, <2>9, <2>10, Zenon
  <2>16. Reap(o) = ApplyRouteRecovery(d, o)
    BY <1>3, <2>1, <2>2, <2>4, <2>15, Zenon DEF Reap, Collected
  <2>17. Exited(ui.runtime)
    BY <1>3 DEF IInv, SpawnInv, Exited, Alive, Processes
  <2> QED
    BY <1>3, <2>5, <2>13, <2>14, <2>16, <2>17, Recovers
<1> QED
  BY <1>1, <1>2, <1>3

\* Two states of a process that differ in its standard input at most, and in
\* keys that were taken from it.
Alike(p, q) ==
    /\ p.kind = q.kind /\ p.pc = q.pc /\ p.of = q.of /\ p.stdout = q.stdout
    /\ p.stage = q.stage /\ (p.keys => q.keys)

\* Reaping takes the keys of the child that is let go and nothing else.
LEMMA ReapedIs ==
    ASSUME IInv
    PROVE  /\ ReapedChild \in [Children -> Processes]
           /\ \A i \in Children : Alike(ReapedChild[i], child[i]) /\ Consistent(ReapedChild[i])
           /\ \A i \in Children : child[i] = NoChild => ReapedChild[i] = NoChild
           /\ ui.runtime # NoRuntime /\ Exited(ui.runtime) => ~ReapedChild[ui.runtime].keys
<1> USE Types
<1>1. CASE ~(ui.runtime # NoRuntime /\ Exited(ui.runtime))
  <2>1. ReapedChild = child
    BY <1>1 DEF ReapedChild
  <2> QED
    BY <1>1, <2>1 DEF Alike, IInv, StageInv
<1>2. CASE ui.runtime # NoRuntime /\ Exited(ui.runtime)
  <2>1. PICK i \in Children : i = ui.runtime
    BY <1>2
  <2>2. PICK keys \in BOOLEAN : keys = (child[i].keys /\ ~(OnWindows /\ child[i].pc = "exit1"))
    BY LauncherAssumption, Zenon DEF Processes
  <2>3. PICK eof \in BOOLEAN : eof = TRUE
    OBVIOUS
  <2>4. PICK a : a = [child[i] EXCEPT !.keys = keys]
    OBVIOUS
  <2>5. PICK p : p = [a EXCEPT !.eof = eof]
    OBVIOUS
  <2>6. a \in Processes
    BY <2>4, ProcessEdits, Zenon
  <2>7. p \in Processes
    BY <2>5, <2>6, ProcessEdits, Zenon
  <2>8. /\ p.kind = child[i].kind /\ p.pc = child[i].pc /\ p.of = child[i].of
        /\ p.stdin = child[i].stdin /\ p.stdout = child[i].stdout
        /\ p.stage = child[i].stage /\ p.keys = keys
    BY <2>4, <2>5, <2>6, <2>7 DEF Processes
  <2>9. ReapedChild = [child EXCEPT ![i] = p]
    BY <1>2, <2>1, <2>2, <2>3, <2>4, <2>5, Zenon DEF ReapedChild
  <2>10. ReapedChild \in [Children -> Processes] /\ ReapedChild[i] = p
         /\ \A j \in Children : j # i => ReapedChild[j] = child[j]
    BY <2>7, <2>9
  <2>11. Consistent(child[i]) /\ child[i].pc \in {"exit0", "exit1"}
    BY <1>2, <2>1 DEF IInv, StageInv, Exited
  <2>12. ~p.keys
    BY <2>2, <2>8, <2>11, Zenon DEF Consistent
  <2>13. Alike(p, child[i]) /\ Consistent(p)
    BY <2>8, <2>11, <2>12 DEF Alike, Consistent
  <2>14. \A j \in Children : j # i => Alike(ReapedChild[j], child[j]) /\ Consistent(ReapedChild[j])
    BY <2>10 DEF Alike, IInv, StageInv
  <2>15. child[i] # NoChild
    BY <2>11 DEF NoChild
  <2> QED
    BY <2>1, <2>10, <2>12, <2>13, <2>14, <2>15
<1> QED
  BY <1>1, <1>2

-----------------------------------------------------------------------------
\* What a command may make of the state it found after reaping.
Follows(v, u) ==
    /\ v \in Interfaces /\ v.runtime = u.runtime
    /\ v.approve => u.approve
    /\ v.paired => u.paired \/ store = "paired"
    /\ u.paired => v.paired

\* The mailbox has been emptied into the state.
LEMMA Emptied ==
    /\ NoMail \in Mailboxes /\ ~NoMail.complete /\ NoMail.approve # "yes"
<1>1. NoMail \in Mailboxes
  BY DEF NoMail, Mailboxes
<1>2. ~NoMail.complete
  BY Zenon DEF NoMail
<1>3. NoMail.approve # "yes"
  BY DEF NoMail
<1> QED
  BY <1>1, <1>2, <1>3

\* A command that starts no process may take the keys of the child it lets go and
\* write to the one it keeps; this is all right for everything but the pairing.
LEMMA Serves ==
    ASSUME IInv, up, Joined, NEW o, mail' = NoMail, ui' \in Interfaces,
           ui'.runtime = Reap(o).runtime, ui'.approve => Reap(o).approve,
           child' \in [Children -> Processes],
           \A i \in Children : Alike(child'[i], child[i]) /\ Consistent(child'[i]),
           \A i \in Children : child[i] = NoChild => child'[i] = NoChild,
           ui.runtime # NoRuntime /\ Exited(ui.runtime) => ~child'[ui.runtime].keys,
           UNCHANGED <<spawned, launch, up>>
    PROVE  SpawnInv' /\ StageInv' /\ BehindInv' /\ ApproveInv'
<1> USE Types
<1>1. /\ \/ ui'.runtime = ui.runtime /\ (ui.runtime # NoRuntime => Alive(ui.runtime))
         \/ /\ ui'.runtime = NoRuntime /\ ui.runtime # NoRuntime
            /\ ~Alive(ui.runtime) /\ Exited(ui.runtime)
      /\ Reap(o).paired <=> ui.paired \/ mail.complete
      /\ ui.runtime # NoRuntime /\ Reap(o).approve => ui.approve \/ mail.approve = "yes"
  BY Reaps
<1>2. \A i \in Children : Alike(child'[i], child[i]) /\ Consistent(child'[i])
  OBVIOUS
<1>3. SpawnInv'
  <2>1. \A i \in Children : Alive(i)' <=> Alive(i)
    BY <1>2 DEF Alive, Alike
  <2>2. ui'.runtime # NoRuntime => ui'.runtime = ui.runtime
    BY <1>1
  <2> QED
    BY <1>2, <2>1, <2>2 DEF IInv, SpawnInv, Alike
<1>4. StageInv'
  BY <1>2 DEF StageInv
<1>5. BehindInv'
  <2>1. SUFFICES ASSUME NEW i \in Children, child'[i].of = launch', i # ui'.runtime
                 PROVE  ~Alive(i)' /\ ~child'[i].keys
    BY DEF BehindInv
  <2>2. (Alive(i)' <=> Alive(i)) /\ (child'[i].keys => child[i].keys) /\ child[i].of = launch
    BY <1>2, <2>1 DEF Alive, Alike
  <2>3. CASE i = ui.runtime
    <3>1. ~Alive(ui.runtime) /\ Exited(ui.runtime) /\ ui.runtime # NoRuntime
      BY <1>1, <2>1, <2>3
    <3> QED
      BY <1>2, <2>2, <2>3, <3>1
  <2>4. CASE i # ui.runtime
    BY <2>2, <2>4 DEF IInv, BehindInv
  <2> QED
    BY <2>3, <2>4
<1>6. ApproveInv'
  <2>1. SUFFICES ASSUME ui'.runtime # NoRuntime, ui'.approve \/ mail'.approve = "yes"
                 PROVE  child'[ui'.runtime].stage \in {"confirmed", "complete"}
    BY DEF ApproveInv
  <2>2. Reap(o).approve
    BY <2>1, Emptied
  <2>3. ui'.runtime = ui.runtime /\ ui.runtime # NoRuntime
    BY <1>1, <2>1
  <2>4. child[ui.runtime].stage \in {"confirmed", "complete"}
    BY <1>1, <2>2, <2>3 DEF IInv, ApproveInv
  <2> QED
    BY <1>2, <2>3, <2>4 DEF Alike
<1> QED
  BY <1>3, <1>4, <1>5, <1>6

\* A command that starts no process and leaves the file alone.
LEMMA Commands ==
    ASSUME IInv, up, Joined, NEW o, Follows(ui', Reap(o)), mail' = NoMail,
           child' \in [Children -> Processes],
           \A i \in Children : Alike(child'[i], child[i]) /\ Consistent(child'[i]),
           \A i \in Children : child[i] = NoChild => child'[i] = NoChild,
           ui.runtime # NoRuntime /\ Exited(ui.runtime) => ~child'[ui.runtime].keys,
           UNCHANGED <<spawned, store, launch, up, kills>>
    PROVE  IInv'
<1> USE Types
<1>1. /\ \/ ui'.runtime = ui.runtime /\ (ui.runtime # NoRuntime => Alive(ui.runtime))
         \/ /\ ui'.runtime = NoRuntime /\ ui.runtime # NoRuntime
            /\ ~Alive(ui.runtime) /\ Exited(ui.runtime)
      /\ Reap(o).paired <=> ui.paired \/ mail.complete
      /\ ui.runtime # NoRuntime /\ Reap(o).approve => ui.approve \/ mail.approve = "yes"
  BY Reaps DEF Follows
<1>2. \A i \in Children : Alike(child'[i], child[i]) /\ Consistent(child'[i])
  OBVIOUS
<1>3. TypeOK'
  BY <1>2, Emptied DEF Follows, IInv, TypeOK
<1>4. SpawnInv' /\ StageInv' /\ BehindInv' /\ ApproveInv'
  BY Serves DEF Follows
<1>5. PairedInv'
  <2>1. ui'.paired => store # "none"
    BY <1>1 DEF Follows, IInv, PairedInv
  <2>2. \A i \in Children : (Said(i, "COMPLETE")' <=> Said(i, "COMPLETE"))
                            /\ child'[i].stage = child[i].stage /\ child'[i].of = child[i].of
    BY <1>2 DEF Said, Alike
  <2>3. ui'.runtime # NoRuntime /\ Said(ui.runtime, "COMPLETE")' => store # "none"
    <3>1. SUFFICES ASSUME ui'.runtime # NoRuntime, Said(ui.runtime, "COMPLETE")' PROVE store # "none"
      OBVIOUS
    <3>2. ui'.runtime = ui.runtime
      BY <1>1, <3>1
    <3>3. Said(ui.runtime, "COMPLETE")
      BY <1>2, <3>1, <3>2 DEF Said, Alike
    <3> QED
      BY <3>1, <3>2, <3>3 DEF IInv, PairedInv
  <2>4. ASSUME store = "paired", NEW i \in Children, child'[i].stage = "complete", child'[i].of = launch
        PROVE  ui'.paired \/ (ui'.runtime # NoRuntime /\ Said(ui.runtime, "COMPLETE")')
    <3>1. \/ ui.paired
          \/ mail.complete
          \/ ui.runtime # NoRuntime /\ Said(ui.runtime, "COMPLETE")
      BY <2>2, <2>4 DEF IInv, PairedInv
    <3>2. CASE ui.paired \/ mail.complete
      BY <1>1, <3>2 DEF Follows
    <3>3. CASE ui.runtime # NoRuntime /\ Said(ui.runtime, "COMPLETE")
      <4>1. Alive(ui.runtime)
        BY <3>3, Silent DEF Joined, Said
      <4>2. ui'.runtime = ui.runtime
        BY <1>1, <4>1
      <4> QED
        BY <1>2, <3>3, <4>2 DEF Said, Alike
    <3> QED
      BY <3>1, <3>2, <3>3
  <2> QED
    BY <2>1, <2>3, <2>4, Emptied DEF PairedInv
<1> QED
  BY <1>3, <1>4, <1>5 DEF IInv

\* ... or it does nothing beyond reaping.
LEMMA Refuses ==
    ASSUME IInv, up, Joined, NEW o, Follows(ui', Reap(o)), child' = ReapedChild, mail' = NoMail,
           UNCHANGED <<spawned, store, launch, up, kills>>
    PROVE  IInv'
BY ReapedIs, Commands

\* ... or it writes a line to a child that is alive: an approval only to a window
\* that has confirmed.
LEMMA Writes ==
    ASSUME IInv, up, Joined, NEW o, Follows(ui', Reap(o)), mail' = NoMail,
           Reap(o).runtime # NoRuntime, NEW line \in {"approve", "q"},
           line = "approve" => child[ui.runtime].stage \in {"confirmed", "complete"},
           child' = [child EXCEPT ![Reap(o).runtime].stdin = Append(@, line)],
           UNCHANGED <<spawned, store, launch, up, kills>>
    PROVE  IInv'
<1> USE Types
<1>1. Reap(o).runtime = ui.runtime /\ ui.runtime # NoRuntime /\ Alive(ui.runtime)
  BY Reaps
<1>2. PICK i \in Children : i = ui.runtime
  BY <1>1
<1>3. PICK s : s = Append(child[i].stdin, line)
  OBVIOUS
<1>4. /\ s \in Seq({"approve", "q"})
      /\ "approve" \in Range(s) => "approve" \in Range(child[i].stdin) \/ line = "approve"
  <2>1. child[i].stdin \in Seq({"approve", "q"})
    BY DEF Processes
  <2> QED
    BY <1>3, <2>1, Appending
<1>5. PICK p : p = [child[i] EXCEPT !.stdin = s]
  OBVIOUS
<1>6. p \in Processes
  BY <1>4, <1>5, ProcessEdits, Zenon
<1>7. /\ p.kind = child[i].kind /\ p.pc = child[i].pc /\ p.of = child[i].of
      /\ p.stdin = s /\ p.stdout = child[i].stdout /\ p.stage = child[i].stage
      /\ p.keys = child[i].keys
  BY <1>5, <1>6 DEF Processes
<1>8. child' = [child EXCEPT ![i] = p]
  BY <1>1, <1>2, <1>3, <1>5
<1>9. /\ child' \in [Children -> Processes] /\ child'[i] = p
      /\ \A j \in Children : j # i => child'[j] = child[j]
  BY <1>6, <1>8
<1>10. Consistent(child[i]) /\ child[i].pc \in {"run", "saving"}
  BY <1>1, <1>2 DEF IInv, StageInv, Alive
<1>11. Alike(p, child[i]) /\ Consistent(p)
  BY <1>2, <1>4, <1>7, <1>10 DEF Alike, Consistent
<1>12. \A j \in Children : j # i => Alike(child'[j], child[j]) /\ Consistent(child'[j])
  BY <1>9 DEF Alike, IInv, StageInv
<1>13. child[i] # NoChild /\ ~Exited(ui.runtime)
  BY <1>2, <1>10 DEF NoChild, Exited
<1>14. /\ \A j \in Children : Alike(child'[j], child[j]) /\ Consistent(child'[j])
       /\ \A j \in Children : child[j] = NoChild => child'[j] = NoChild
  BY <1>9, <1>11, <1>12, <1>13
<1> QED
  BY <1>9, <1>13, <1>14, Commands

\* A command that starts a process, which needs the port.
LEMMA Spawns ==
    ASSUME IInv, up, Joined, NEW o, NEW v, Follows(v, Reap(o)), Reap(o).runtime = NoRuntime,
           PortFree, NEW kind \in {"Controller", "Pairing"}, NEW phase \in Phases,
           SpawnRuntime(v, kind, phase), mail' = NoMail, UNCHANGED <<store, launch, up, kills>>
    PROVE  IInv'
<1> USE Types
<1>1. /\ ui.runtime # NoRuntime => Exited(ui.runtime)
      /\ Reap(o).paired <=> ui.paired \/ mail.complete
  BY Reaps
<1>2. /\ ReapedChild \in [Children -> Processes]
      /\ \A i \in Children : Alike(ReapedChild[i], child[i]) /\ Consistent(ReapedChild[i])
      /\ \A i \in Children : child[i] = NoChild => ReapedChild[i] = NoChild
      /\ ui.runtime # NoRuntime /\ Exited(ui.runtime) => ~ReapedChild[ui.runtime].keys
  BY ReapedIs
<1>3. PICK n \in Children : n = spawned + 1
  BY DEF SpawnRuntime, Children
<1>4. PICK p : /\ p \in Processes /\ p.kind = kind /\ p.pc = "run" /\ p.of = launch /\ ~p.keys
               /\ p.stdin = <<>> /\ p.stdout = <<>> /\ p.stage = "waiting"
               /\ p = [NoChild EXCEPT !.kind = kind, !.pc = "run", !.of = launch]
  <2>1. NoChild \in Processes /\ NoChild.keys = FALSE /\ NoChild.stdin = <<>> /\ NoChild.stdout = <<>>
        /\ NoChild.stage = "waiting"
    BY LauncherAssumption DEF NoChild, Processes
  <2>2. PICK a : a = [NoChild EXCEPT !.kind = kind]
    OBVIOUS
  <2>3. PICK b : b = [a EXCEPT !.pc = "run"]
    OBVIOUS
  <2>4. PICK p : p = [b EXCEPT !.of = launch]
    OBVIOUS
  <2>5. a \in Processes
    BY <2>1, <2>2, ProcessEdits, Zenon
  <2>6. b \in Processes
    BY <2>3, <2>5, ProcessEdits
  <2>7. launch \in 0 .. MaxLaunch
    BY DEF IInv, TypeOK
  <2>8. p \in Processes
    BY <2>4, <2>6, <2>7, ProcessEdits, Zenon
  <2>9. p.kind = kind /\ p.pc = "run" /\ p.of = launch /\ p.keys = NoChild.keys
        /\ p.stdin = NoChild.stdin /\ p.stdout = NoChild.stdout /\ p.stage = NoChild.stage
    BY <2>1, <2>2, <2>3, <2>4, <2>5, <2>6, <2>8 DEF Processes
  <2>10. p = [NoChild EXCEPT !.kind = kind, !.pc = "run", !.of = launch]
    BY <2>2, <2>3, <2>4, Zenon
  <2> QED
    BY <2>1, <2>8, <2>9, <2>10
<1>5. child' = [ReapedChild EXCEPT ![n] = p] /\ spawned' = n
  BY <1>3, <1>4 DEF SpawnRuntime
<1>6. /\ child' \in [Children -> Processes] /\ child'[n] = p
      /\ \A i \in Children : i # n => child'[i] = ReapedChild[i]
  BY <1>2, <1>4, <1>5
<1>7. ui' \in Interfaces /\ ui'.runtime = n /\ ui'.paired = v.paired /\ ~ui'.approve
  <2>1. PICK no \in BOOLEAN : no = FALSE
    OBVIOUS
  <2>2. PICK a : a = [v EXCEPT !.runtime = n]
    OBVIOUS
  <2>3. PICK b : b = [a EXCEPT !.phase = phase]
    OBVIOUS
  <2>4. PICK c : c = [b EXCEPT !.stopping = no]
    OBVIOUS
  <2>5. PICK d : d = [c EXCEPT !.pattern = no]
    OBVIOUS
  <2>6. ui' = [d EXCEPT !.approve = no]
    BY <1>3, <2>1, <2>2, <2>3, <2>4, <2>5, Zenon DEF SpawnRuntime
  <2>7. a \in Interfaces
    BY <2>2, InterfaceEdits DEF Follows
  <2>8. b \in Interfaces
    BY <2>3, <2>7, InterfaceEdits, Zenon
  <2>9. c \in Interfaces
    BY <2>4, <2>8, InterfaceEdits, Zenon
  <2>10. d \in Interfaces
    BY <2>5, <2>9, InterfaceEdits, Zenon
  <2>11. ui' \in Interfaces
    BY <2>6, <2>10, InterfaceEdits, Zenon
  <2>12. ui'.runtime = n /\ ui'.paired = v.paired /\ ui'.approve = no
    BY <2>2, <2>3, <2>4, <2>5, <2>6, <2>7, <2>8, <2>9, <2>10, <2>11 DEF Interfaces, Follows
  <2> QED
    BY <2>1, <2>11, <2>12, Zenon
<1>8. \A i \in Children : i # n => ~Alive(i)'
  BY <1>2, <1>6 DEF Alive, Alike, PortFree
<1>9. TypeOK'
  BY <1>3, <1>5, <1>6, <1>7, Emptied DEF IInv, TypeOK, Children
<1>10. SpawnInv'
  <2>1. launch > 0 /\ launch' = launch
    BY DEF IInv, SpawnInv
  <2>2. \A i \in Children : i > n => child'[i] = NoChild
    BY <1>2, <1>3, <1>6 DEF IInv, SpawnInv, Children
  <2>3. \A i \in Children : i <= spawned => child'[i].pc # "none" /\ child'[i].of = child[i].of
                                            /\ child[i].of \in 1 .. launch
    <3>1. SUFFICES ASSUME NEW i \in Children, i <= spawned
                   PROVE  /\ child'[i].pc # "none" /\ child'[i].of = child[i].of
                          /\ child[i].of \in 1 .. launch
      OBVIOUS
    <3>2. child[i].pc # "none" /\ child[i].of \in 1 .. launch
      BY <3>1 DEF IInv, SpawnInv
    <3>3. i # n
      BY <1>3, <3>1 DEF Children
    <3> QED
      BY <1>2, <1>6, <3>2, <3>3 DEF Alike
  <2>4. \A i \in Children : i <= n => child'[i].pc # "none" /\ child'[i].of \in 1 .. launch
    <3>1. SUFFICES ASSUME NEW i \in Children, i <= n
                   PROVE  child'[i].pc # "none" /\ child'[i].of \in 1 .. launch
      OBVIOUS
    <3>2. CASE i = n
      <4>1. child'[i].pc = "run" /\ child'[i].of = launch
        BY <1>4, <1>6, <3>2
      <4> QED
        BY <2>1, <4>1
    <3>3. CASE i # n
      <4>1. i <= spawned
        BY <1>3, <3>1, <3>3 DEF Children
      <4> QED
        BY <2>3, <4>1
    <3> QED
      BY <3>2, <3>3
  <2>5. \A i, j \in Children : i <= j /\ j <= n => child'[i].of <= child'[j].of
    <3>1. SUFFICES ASSUME NEW i \in Children, NEW j \in Children, i <= j, j <= n
                   PROVE  child'[i].of <= child'[j].of
      OBVIOUS
    <3>2. CASE j = n
      <4>1. child'[j].of = launch /\ child'[i].of \in 1 .. launch
        BY <1>4, <1>6, <2>4, <3>1, <3>2
      <4> QED
        BY <4>1
    <3>3. CASE j # n
      <4>1. j <= spawned /\ i <= spawned
        BY <1>3, <3>1, <3>3 DEF Children
      <4> QED
        BY <2>3, <3>1, <4>1 DEF IInv, SpawnInv
    <3> QED
      BY <3>2, <3>3
  <2> QED
    BY <1>4, <1>5, <1>6, <1>7, <1>8, <2>1, <2>2, <2>4, <2>5 DEF SpawnInv, Children
<1>11. StageInv'
  <2>1. Consistent(p)
    BY <1>4, Silent DEF Consistent
  <2> QED
    BY <1>2, <1>6, <2>1 DEF StageInv
<1>12. BehindInv'
  <2>1. SUFFICES ASSUME NEW i \in Children, child'[i].of = launch, i # n
                 PROVE  ~child'[i].keys
    BY <1>7, <1>8 DEF BehindInv
  <2>2. (child'[i].keys => child[i].keys) /\ child[i].of = launch
    BY <1>2, <1>6, <2>1 DEF Alike
  <2>3. CASE i = ui.runtime
    <3>1. ui.runtime # NoRuntime
      BY <2>3, LauncherAssumption DEF Children, NoRuntime
    <3> QED
      BY <1>1, <1>2, <1>6, <2>1, <2>3, <3>1
  <2>4. CASE i # ui.runtime
    BY <2>2, <2>4 DEF IInv, BehindInv
  <2> QED
    BY <2>3, <2>4
<1>13. ApproveInv'
  BY <1>7, Emptied DEF ApproveInv
<1>14. PairedInv'
  <2>1. ui'.runtime # NoRuntime
    BY <1>7, LauncherAssumption DEF Children, NoRuntime
  <2>2. ui'.paired => store # "none"
    BY <1>1, <1>7 DEF Follows, IInv, PairedInv
  <2>3. ~Said(ui.runtime, "COMPLETE")'
    BY <1>4, <1>6, <1>7, Silent DEF Said
  <2>4. ASSUME store = "paired", NEW i \in Children, child'[i].stage = "complete", child'[i].of = launch
        PROVE  ui'.paired
    <3>0. child'[n].stage = "waiting"
      BY <1>4, <1>6
    <3>1. i # n /\ child[i].stage = "complete" /\ child[i].of = launch
      BY <1>2, <1>6, <2>4, <3>0 DEF Alike
    <3>2. ui.runtime # NoRuntime => ~Said(ui.runtime, "COMPLETE")
      BY <1>1, Silent DEF Joined, Said, Exited, Alive
    <3>3. ui.paired \/ mail.complete
      BY <2>4, <3>1, <3>2 DEF IInv, PairedInv
    <3> QED
      BY <1>1, <1>7, <3>3 DEF Follows
  <2> QED
    BY <2>1, <2>2, <2>3, <2>4, Emptied DEF PairedInv
<1> QED
  BY <1>9, <1>10, <1>11, <1>12, <1>13, <1>14 DEF IInv

-----------------------------------------------------------------------------
\* What reaping leaves is among what a command may leave.
LEMMA Stays ==
    ASSUME IInv, up, Joined, NEW o
    PROVE  /\ Follows(Reap(o), Reap(o))
           /\ Follows(ApplyRouteRecovery(Reap(o), o), Reap(o))
<1>1. Reap(o) \in Interfaces
  BY Reaps
<1> QED
  BY <1>1, Recovers DEF Follows

\* A start for v5 takes the phone for paired only if it is.
LEMMA StartFollows ==
    ASSUME IInv, up, Joined, NEW o, NEW legacy \in BOOLEAN, CanStart(Reap(o), legacy)
    PROVE  Follows(Starting(Reap(o), o, legacy), Reap(o))
<1>1. PICK u : u = Reap(o)
  OBVIOUS
<1>2. u \in Interfaces
  BY <1>1, Reaps
<1>3. PICK paired \in BOOLEAN : paired = (u.paired \/ ~legacy)
  BY <1>2, Zenon DEF Interfaces
<1>4. PICK a : a = [u EXCEPT !.paired = paired]
  OBVIOUS
<1>5. a \in Interfaces
  BY <1>2, <1>4, InterfaceEdits, Zenon
<1>6. a.runtime = u.runtime /\ a.approve = u.approve /\ a.paired = paired
  BY <1>2, <1>4, <1>5 DEF Interfaces
<1>7. Starting(u, o, legacy) = ApplyRouteRecovery(a, o)
  BY <1>3, <1>4 DEF Starting
<1>8. PICK v : v = Starting(u, o, legacy)
  OBVIOUS
<1>9. v \in Interfaces /\ v.runtime = u.runtime /\ v.approve = u.approve /\ v.paired = paired
  BY <1>5, <1>6, <1>7, <1>8, Recovers
<1>10. legacy \/ u.paired \/ store = "paired"
  BY <1>1 DEF CanStart
<1>11. (v.paired => u.paired \/ store = "paired") /\ (u.paired => v.paired)
  BY <1>3, <1>9, <1>10, Zenon
<1>12. Follows(v, u)
  BY <1>9, <1>11 DEF Follows
<1> QED
  BY <1>1, <1>8, <1>12

\* start_host: refused, or a controller is started.
LEMMA StartKeeps == ASSUME IInv, StartHost PROVE IInv'
<1>1. up /\ Joined /\ mail' = NoMail /\ UNCHANGED <<store, launch, up, kills>>
  BY DEF StartHost, Command
<1>2. PICK o \in Outcomes : StartBody(Reap(o), o)
  BY DEF StartHost, Command
<1>3. PICK legacy \in BOOLEAN :
        \/ ~CanStart(Reap(o), legacy) /\ Refuse(Reap(o))
        \/ CanStart(Reap(o), legacy) /\ Refuse(Starting(Reap(o), o, legacy))
        \/ /\ CanStart(Reap(o), legacy) /\ Recovered(o) /\ PortFree
           /\ SpawnRuntime(Starting(Reap(o), o, legacy), "Controller", "Waiting")
  BY <1>2 DEF StartBody
<1>4. CASE Refuse(Reap(o))
  BY <1>1, <1>4, Stays, Refuses DEF Refuse
<1>5. CASE CanStart(Reap(o), legacy) /\ Refuse(Starting(Reap(o), o, legacy))
  BY <1>1, <1>5, StartFollows, Refuses DEF Refuse
<1>6. CASE /\ CanStart(Reap(o), legacy) /\ PortFree
           /\ SpawnRuntime(Starting(Reap(o), o, legacy), "Controller", "Waiting")
  <2>1. Follows(Starting(Reap(o), o, legacy), Reap(o)) /\ Reap(o).runtime = NoRuntime
    BY <1>1, <1>6, StartFollows DEF CanStart
  <2>2. "Waiting" \in Phases
    BY DEF Phases
  <2> QED
    BY <1>1, <1>6, <2>1, <2>2, Spawns
<1> QED
  BY <1>3, <1>4, <1>5, <1>6

\* begin_pairing: refused, or a pairing window is started.
LEMMA PairKeeps == ASSUME IInv, BeginPairing PROVE IInv'
<1>1. up /\ Joined /\ mail' = NoMail /\ UNCHANGED <<store, launch, up, kills>>
  BY DEF BeginPairing, Command
<1>2. PICK o \in Outcomes : PairBody(Reap(o), o)
  BY DEF BeginPairing, Command
<1>3. CASE Refuse(Reap(o))
  BY <1>1, <1>3, Stays, Refuses DEF Refuse
<1>4. CASE Refuse(ApplyRouteRecovery(Reap(o), o))
  BY <1>1, <1>4, Stays, Refuses DEF Refuse
<1>5. CASE /\ Reap(o).runtime = NoRuntime /\ PortFree
           /\ SpawnRuntime(ApplyRouteRecovery(Reap(o), o), "Pairing", "Pairing")
  <2>1. "Pairing" \in Phases
    BY DEF Phases
  <2> QED
    BY <1>1, <1>5, <2>1, Stays, Spawns
<1> QED
  BY <1>2, <1>3, <1>4, <1>5 DEF PairBody

\* approve_pairing: the approval that is on offer belongs to the current window.
LEMMA ApproveKeeps == ASSUME IInv, ApprovePairing PROVE IInv'
<1>1. up /\ Joined /\ mail' = NoMail /\ UNCHANGED <<store, launch, up, kills>>
  BY DEF ApprovePairing, Command
<1>2. PICK o \in Outcomes : ApproveBody(Reap(o), o)
  BY DEF ApprovePairing, Command
<1>3. CASE Refuse(Reap(o))
  BY <1>1, <1>3, Stays, Refuses DEF Refuse
<1>4. CASE CanApprove(Reap(o)) /\ Write(Reap(o), "approve", [Reap(o) EXCEPT !.approve = FALSE])
  <2>1. Reap(o) \in Interfaces /\ Reap(o).approve /\ Reap(o).runtime # NoRuntime
    BY <1>1, <1>4, Reaps DEF CanApprove
  <2>2. PICK no \in BOOLEAN : no = FALSE
    OBVIOUS
  <2>3. ui' = [Reap(o) EXCEPT !.approve = no]
    BY <1>4, <2>2, Zenon DEF Write
  <2>4. ui' \in Interfaces
    BY <2>1, <2>3, InterfaceEdits, Zenon
  <2>5. ui'.runtime = Reap(o).runtime /\ ui'.paired = Reap(o).paired
    BY <2>1, <2>3, <2>4 DEF Interfaces
  <2>6. Follows(ui', Reap(o))
    BY <2>1, <2>4, <2>5 DEF Follows
  <2>7. child[ui.runtime].stage \in {"confirmed", "complete"}
    BY <1>1, <2>1, Reaps DEF IInv, ApproveInv
  <2> QED
    BY <1>1, <1>4, <2>1, <2>6, <2>7, Writes DEF Write
<1> QED
  BY <1>2, <1>3, <1>4 DEF ApproveBody

\* stop_host: a line for the child that is alive.
LEMMA StopKeeps == ASSUME IInv, StopHost PROVE IInv'
<1>1. up /\ Joined /\ mail' = NoMail /\ UNCHANGED <<store, launch, up, kills>>
  BY DEF StopHost, Command
<1>2. PICK o \in Outcomes : StopBody(Reap(o), o)
  BY DEF StopHost, Command
<1>3. CASE Refuse(Reap(o))
  BY <1>1, <1>3, Stays, Refuses DEF Refuse
<1>4. CASE /\ Reap(o).runtime # NoRuntime
           /\ Write(Reap(o), "q", [Reap(o) EXCEPT !.stopping = TRUE, !.phase = "Stopping"])
  <2>1. Reap(o) \in Interfaces
    BY <1>1, Reaps
  <2>2. PICK yes \in BOOLEAN : yes = TRUE
    OBVIOUS
  <2>3. PICK phase \in Phases : phase = "Stopping"
    BY DEF Phases
  <2>4. PICK a : a = [Reap(o) EXCEPT !.stopping = yes]
    OBVIOUS
  <2>5. ui' = [a EXCEPT !.phase = phase]
    BY <1>4, <2>2, <2>3, <2>4, Zenon DEF Write
  <2>6. a \in Interfaces
    BY <2>1, <2>4, InterfaceEdits, Zenon
  <2>7. ui' \in Interfaces
    BY <2>5, <2>6, InterfaceEdits, Zenon
  <2>8. ui'.runtime = Reap(o).runtime /\ ui'.paired = Reap(o).paired /\ ui'.approve = Reap(o).approve
    BY <2>1, <2>4, <2>5, <2>6, <2>7 DEF Interfaces
  <2>9. Follows(ui', Reap(o))
    BY <2>7, <2>8 DEF Follows
  <2> QED
    BY <1>1, <1>4, <2>9, Writes DEF Write
<1> QED
  BY <1>2, <1>3, <1>4 DEF StopBody

\* host_status only reaps.
LEMMA PollKeeps == ASSUME IInv, HostStatus PROVE IInv'
BY Stays, Refuses DEF HostStatus, Command, PollBody, Refuse

\* Forgetting the phone takes back what is shown together with the file.
LEMMA ForgetKeeps == ASSUME IInv, ForgetDevice PROVE IInv'
<1>1. up /\ Joined /\ mail' = NoMail /\ UNCHANGED <<launch, up, kills>>
  BY DEF ForgetDevice, Command
<1>2. PICK o \in Outcomes : ForgetBody(Reap(o), o)
  BY DEF ForgetDevice, Command
<1>3. CASE Refuse(Reap(o)) /\ UNCHANGED store
  BY <1>1, <1>3, Stays, Refuses DEF Refuse
<1>4. CASE /\ CanForget(Reap(o)) /\ store' = "none" /\ child' = ReapedChild /\ UNCHANGED spawned
           /\ ui' = [Reap(o) EXCEPT !.paired = FALSE, !.pattern = FALSE, !.approve = FALSE,
                                    !.phase = "Ready"]
  <2>1. Reap(o) \in Interfaces /\ Reap(o).runtime = NoRuntime
    BY <1>1, <1>4, Reaps DEF CanForget
  <2>2. PICK no \in BOOLEAN : no = FALSE
    OBVIOUS
  <2>3. PICK phase \in Phases : phase = "Ready"
    BY DEF Phases
  <2>4. PICK a : a = [Reap(o) EXCEPT !.paired = no]
    OBVIOUS
  <2>5. PICK b : b = [a EXCEPT !.pattern = no]
    OBVIOUS
  <2>6. PICK c : c = [b EXCEPT !.approve = no]
    OBVIOUS
  <2>7. ui' = [c EXCEPT !.phase = phase]
    BY <1>4, <2>2, <2>3, <2>4, <2>5, <2>6, Zenon
  <2>8. a \in Interfaces
    BY <2>1, <2>4, InterfaceEdits, Zenon
  <2>9. b \in Interfaces
    BY <2>5, <2>8, InterfaceEdits, Zenon
  <2>10. c \in Interfaces
    BY <2>6, <2>9, InterfaceEdits, Zenon
  <2>11. ui' \in Interfaces
    BY <2>7, <2>10, InterfaceEdits, Zenon
  <2>12. ui'.runtime = NoRuntime /\ ui'.paired = no /\ ui'.approve = no
    BY <2>1, <2>4, <2>5, <2>6, <2>7, <2>8, <2>9, <2>10, <2>11 DEF Interfaces
  <2>13. ~ui'.paired /\ ~ui'.approve
    BY <2>2, <2>12, Zenon
  <2>14. SpawnInv' /\ StageInv' /\ BehindInv' /\ ApproveInv'
    BY <1>1, <1>4, <2>1, <2>11, <2>12, <2>13, ReapedIs, Serves
  <2>15. TypeOK'
    BY <1>1, <1>4, <2>11, Emptied, ReapedIs DEF IInv, TypeOK
  <2>16. PairedInv'
    BY <1>1, <1>4, <2>12, <2>13, Emptied DEF PairedInv
  <2> QED
    BY <2>14, <2>15, <2>16 DEF IInv
<1> QED
  BY <1>2, <1>3, <1>4 DEF ForgetBody

\* The state of a launcher that has just started.
LEMMA FreshIs ==
    /\ Fresh \in Interfaces /\ Fresh.runtime = NoRuntime /\ ~Fresh.paired /\ ~Fresh.approve
<1>1. Fresh \in Interfaces /\ Fresh.runtime = NoRuntime
  BY DEF Fresh, Interfaces, Phases
<1>2. ~Fresh.paired /\ ~Fresh.approve
  BY Zenon DEF Fresh
<1> QED
  BY <1>1, <1>2

\* The launcher leaves, with or without a last word to its child.
LEMMA QuitKeeps == ASSUME IInv, NEW line \in {<<>>, <<"q">>}, Quit(line) PROVE IInv'
<1> USE Types
<1>1. /\ up' = FALSE /\ ui' = Fresh /\ mail' = NoMail /\ UNCHANGED <<spawned, store, launch, kills>>
      /\ child' = IF ui.runtime = NoRuntime THEN child
                  ELSE [child EXCEPT ![ui.runtime] =
                          [child[ui.runtime] EXCEPT !.stdin = child[ui.runtime].stdin \o line, !.eof = TRUE]]
  BY DEF Quit
<1>2. /\ child' \in [Children -> Processes]
      /\ \A i \in Children : Alike(child'[i], child[i]) /\ Consistent(child'[i])
      /\ \A i \in Children : child[i] = NoChild => child'[i] = NoChild
  <2>1. CASE ui.runtime = NoRuntime
    BY <1>1, <2>1 DEF Alike, IInv, StageInv
  <2>2. CASE ui.runtime # NoRuntime
    <3>1. PICK i \in Children : i = ui.runtime
      BY <2>2
    <3>2. PICK s : s = child[i].stdin \o line
      OBVIOUS
    <3>3. /\ s \in Seq({"approve", "q"})
          /\ "approve" \in Range(s) => "approve" \in Range(child[i].stdin)
      <4>1. child[i].stdin \in Seq({"approve", "q"})
        BY DEF Processes
      <4> QED
        BY <3>2, <4>1, Joining
    <3>4. PICK eof \in BOOLEAN : eof = TRUE
      OBVIOUS
    <3>5. PICK a : a = [child[i] EXCEPT !.stdin = s]
      OBVIOUS
    <3>6. PICK p : p = [a EXCEPT !.eof = eof]
      OBVIOUS
    <3>7. a \in Processes
      BY <3>3, <3>5, ProcessEdits, Zenon
    <3>8. p \in Processes
      BY <3>6, <3>7, ProcessEdits, Zenon
    <3>9. /\ p.kind = child[i].kind /\ p.pc = child[i].pc /\ p.of = child[i].of
          /\ p.stdin = s /\ p.stdout = child[i].stdout /\ p.stage = child[i].stage
          /\ p.keys = child[i].keys
      BY <3>5, <3>6, <3>7, <3>8 DEF Processes
    <3>10. child' = [child EXCEPT ![i] = p]
      BY <1>1, <2>2, <3>1, <3>2, <3>4, <3>5, <3>6, Zenon
    <3>11. /\ child' \in [Children -> Processes] /\ child'[i] = p
           /\ \A j \in Children : j # i => child'[j] = child[j]
      BY <3>8, <3>10
    <3>12. Alike(p, child[i]) /\ Consistent(p)
      <4>1. Consistent(child[i])
        BY DEF IInv, StageInv
      <4> QED
        BY <3>3, <3>9, <4>1 DEF Alike, Consistent
    <3>13. \A j \in Children : j # i => Alike(child'[j], child[j]) /\ Consistent(child'[j])
      BY <3>11 DEF Alike, IInv, StageInv
    <3>14. child[i] # NoChild
      <4>1. child[i].pc # "none"
        BY <2>2, <3>1 DEF IInv, SpawnInv
      <4> QED
        BY <4>1 DEF NoChild
    <3> QED
      BY <3>11, <3>12, <3>13, <3>14
  <2> QED
    BY <2>1, <2>2
<1>3. TypeOK'
  BY <1>1, <1>2, Emptied, FreshIs DEF IInv, TypeOK
<1>4. SpawnInv'
  <2>1. \A i \in Children : Alive(i)' <=> Alive(i)
    BY <1>2 DEF Alive, Alike
  <2> QED
    BY <1>1, <1>2, <2>1, FreshIs DEF IInv, SpawnInv, Alike
<1>5. StageInv'
  BY <1>2 DEF StageInv
<1>6. BehindInv' /\ ApproveInv'
  BY <1>1, FreshIs DEF BehindInv, ApproveInv
<1>7. PairedInv'
  BY <1>1, FreshIs, Emptied DEF PairedInv
<1> QED
  BY <1>3, <1>4, <1>5, <1>6, <1>7 DEF IInv

\* Another launcher starts and reads the file.
LEMMA SetupKeeps == ASSUME IInv, Setup PROVE IInv'
<1> USE Types
<1>1. /\ ~up /\ launch < MaxLaunch /\ up' = TRUE /\ launch' = launch + 1
      /\ UNCHANGED <<mail, child, spawned, store, kills>>
  BY DEF Setup
<1>2. ui.runtime = NoRuntime /\ mail = NoMail
  BY <1>1 DEF IInv, SpawnInv, PairedInv
<1>3. ui' \in Interfaces /\ ui'.runtime = NoRuntime /\ (ui'.paired => store = "paired")
  <2>1. PICK o \in Outcomes :
          ui' = IF Unreadable(store) THEN [ApplyRouteRecovery(Fresh, o) EXCEPT !.phase = "Fatal"]
                ELSE [ApplyRouteRecovery(Fresh, o) EXCEPT !.paired = (store = "paired")]
    BY DEF Setup
  <2>2. PICK r : r = ApplyRouteRecovery(Fresh, o)
    OBVIOUS
  <2>3. r \in Interfaces /\ r.runtime = NoRuntime /\ ~r.paired
    BY <2>2, FreshIs, Recovers
  <2>4. CASE Unreadable(store)
    <3>1. PICK phase \in Phases : phase = "Fatal"
      BY DEF Phases
    <3>2. ui' = [r EXCEPT !.phase = phase]
      BY <2>1, <2>2, <2>4, <3>1
    <3>3. ui' \in Interfaces
      BY <2>3, <3>2, InterfaceEdits, Zenon
    <3>4. ui'.runtime = r.runtime /\ ui'.paired = r.paired
      BY <2>3, <3>2, <3>3 DEF Interfaces
    <3> QED
      BY <2>3, <3>3, <3>4
  <2>5. CASE ~Unreadable(store)
    <3>1. PICK paired \in BOOLEAN : paired = (store = "paired")
      OBVIOUS
    <3>2. ui' = [r EXCEPT !.paired = paired]
      BY <2>1, <2>2, <2>5, <3>1, Zenon
    <3>3. ui' \in Interfaces
      BY <2>3, <3>2, InterfaceEdits, Zenon
    <3>4. ui'.runtime = r.runtime /\ ui'.paired = paired
      BY <2>3, <3>2, <3>3 DEF Interfaces
    <3> QED
      BY <2>3, <3>1, <3>3, <3>4, Zenon
  <2> QED
    BY <2>4, <2>5
<1>4. TypeOK'
  BY <1>1, <1>3, LauncherAssumption DEF IInv, TypeOK
<1>5. \A i \in Children : child[i].of <= launch /\ child[i].of # launch'
  <2>1. \A i \in Children : i > spawned => child[i].of = 0
    BY DEF IInv, SpawnInv, NoChild
  <2>2. \A i \in Children : i <= spawned => child[i].of \in 1 .. launch
    BY DEF IInv, SpawnInv
  <2> QED
    BY <1>1, <2>1, <2>2 DEF Children
<1>6. SpawnInv'
  <2>1. \A i \in Children : Alive(i)' <=> Alive(i)
    BY <1>1 DEF Alive
  <2>2. \A i \in Children : i <= spawned => child[i].of \in 1 .. (launch + 1)
    BY DEF IInv, SpawnInv
  <2> QED
    BY <1>1, <1>3, <2>1, <2>2 DEF IInv, SpawnInv
<1>7. StageInv'
  BY <1>1 DEF IInv, StageInv
<1>8. BehindInv' /\ ApproveInv'
  BY <1>1, <1>3, <1>5 DEF BehindInv, ApproveInv
<1>9. PairedInv'
  BY <1>1, <1>2, <1>3, <1>5, Emptied DEF PairedInv
<1> QED
  BY <1>4, <1>6, <1>7, <1>8, <1>9 DEF IInv

\* What a line does to the mailbox.
LEMMA Parses ==
    ASSUME NEW m \in Mailboxes, NEW line \in Lines
    PROVE  /\ ParseHostOutputLine(m, line) \in Mailboxes
           /\ ParseHostOutputLine(m, line).approve = "yes" => m.approve = "yes" \/ line = "CONFIRMED"
           /\ ParseHostOutputLine(m, line).complete <=> m.complete \/ line = "COMPLETE"
<1>1. PICK yes \in BOOLEAN : yes = TRUE
  OBVIOUS
<1>2. PICK r : r = ParseHostOutputLine(m, line)
  OBVIOUS
<1>3. CASE line = "PATTERN"
  <2>1. r = [m EXCEPT !.pattern = yes]
    BY <1>1, <1>2, <1>3 DEF ParseHostOutputLine
  <2>2. r \in Mailboxes /\ r.approve = m.approve /\ r.complete = m.complete
    BY <2>1 DEF Mailboxes
  <2> QED
    BY <1>2, <1>3, <2>2
<1>4. CASE line = "CONFIRMED"
  <2>1. r = [m EXCEPT !.approve = "yes"]
    BY <1>2, <1>4 DEF ParseHostOutputLine
  <2>2. r \in Mailboxes /\ r.complete = m.complete
    BY <2>1 DEF Mailboxes
  <2> QED
    BY <1>2, <1>4, <2>2
<1>5. CASE line = "COMPLETE"
  <2>1. PICK a : a = [m EXCEPT !.complete = yes]
    OBVIOUS
  <2>2. a \in Mailboxes
    BY <2>1 DEF Mailboxes
  <2>3. r = [a EXCEPT !.approve = "no"]
    BY <1>1, <1>2, <1>5, <2>1 DEF ParseHostOutputLine
  <2>4. r \in Mailboxes /\ r.approve = "no" /\ r.complete = yes
    BY <2>1, <2>2, <2>3 DEF Mailboxes
  <2>5. r.complete
    BY <1>1, <2>4, Zenon
  <2> QED
    BY <1>2, <1>5, <2>4, <2>5
<1>6. CASE line \in Statuses
  <2>1. r = [m EXCEPT !.phase = line]
    BY <1>2, <1>6 DEF ParseHostOutputLine, Statuses
  <2>2. r \in Mailboxes /\ r.approve = m.approve /\ r.complete = m.complete
    BY <1>6, <2>1 DEF Mailboxes
  <2>3. line # "COMPLETE"
    BY <1>6 DEF Statuses
  <2> QED
    BY <1>2, <2>2, <2>3
<1> QED
  BY <1>3, <1>4, <1>5, <1>6 DEF Lines

\* A reader passes a line on: what it said moves from the pipe to the mailbox.
LEMMA ReadKeeps == ASSUME IInv, ReadLine PROVE IInv'
<1> USE Types
<1>1. /\ up /\ ui.runtime # NoRuntime /\ UNCHANGED <<ui, spawned, store, launch, up, kills>>
      /\ child[ui.runtime].stdout # <<>>
      /\ mail' = ParseHostOutputLine(mail, Head(child[ui.runtime].stdout))
      /\ child' = [child EXCEPT ![ui.runtime].stdout = Tail(@)]
  BY DEF ReadLine
<1>2. PICK i \in Children : i = ui.runtime
  BY <1>1
<1>3. PICK line : line = Head(child[i].stdout)
  OBVIOUS
<1>4. PICK s : s = Tail(child[i].stdout)
  OBVIOUS
<1>5. /\ s \in Seq(Lines) /\ line \in Lines
      /\ \A x : x \in Range(child[i].stdout) <=> x \in Range(s) \/ x = line
  <2>1. child[i].stdout \in Seq(Lines)
    BY DEF Processes
  <2> QED
    BY <1>1, <1>2, <1>3, <1>4, <2>1, Heading
<1>6. PICK p : p = [child[i] EXCEPT !.stdout = s]
  OBVIOUS
<1>7. p \in Processes
  BY <1>5, <1>6, ProcessEdits, Zenon
<1>8. /\ p.kind = child[i].kind /\ p.pc = child[i].pc /\ p.of = child[i].of
      /\ p.stdin = child[i].stdin /\ p.stdout = s /\ p.stage = child[i].stage
      /\ p.keys = child[i].keys
  BY <1>6, <1>7 DEF Processes
<1>9. child' = [child EXCEPT ![i] = p]
  BY <1>1, <1>2, <1>4, <1>6
<1>10. /\ child' \in [Children -> Processes] /\ child'[i] = p
       /\ \A j \in Children : j # i => child'[j] = child[j]
  BY <1>7, <1>9
<1>11. /\ mail' \in Mailboxes
       /\ mail'.approve = "yes" => mail.approve = "yes" \/ line = "CONFIRMED"
       /\ mail'.complete <=> mail.complete \/ line = "COMPLETE"
  BY <1>1, <1>2, <1>3, <1>5, Parses
<1>12. Consistent(child[i])
  BY DEF IInv, StageInv
<1>13. TypeOK'
  BY <1>1, <1>10, <1>11 DEF IInv, TypeOK
<1>14. \A j \in Children : /\ child'[j].pc = child[j].pc /\ child'[j].of = child[j].of
                           /\ child'[j].stage = child[j].stage /\ child'[j].keys = child[j].keys
  BY <1>8, <1>10
<1>15. SpawnInv'
  <2>1. \A j \in Children : Alive(j)' <=> Alive(j)
    BY <1>14 DEF Alive
  <2>2. \A j \in Children : j > spawned => child'[j] = NoChild
    <3>1. i <= spawned
      BY <1>1, <1>2 DEF IInv, SpawnInv
    <3> QED
      BY <1>10, <3>1 DEF IInv, SpawnInv, Children
  <2> QED
    BY <1>1, <1>14, <2>1, <2>2 DEF IInv, SpawnInv
<1>16. StageInv'
  <2>1. Consistent(p)
    BY <1>5, <1>8, <1>12 DEF Consistent
  <2> QED
    BY <1>10, <2>1 DEF IInv, StageInv
<1>17. BehindInv'
  BY <1>1, <1>14 DEF IInv, BehindInv, Alive
<1>18. ApproveInv'
  <2>1. line = "CONFIRMED" => child[i].stage \in {"confirmed", "complete"}
    BY <1>5, <1>12 DEF Consistent
  <2> QED
    BY <1>1, <1>2, <1>11, <1>14, <2>1 DEF IInv, ApproveInv
<1>19. PairedInv'
  <2>1. Said(ui.runtime, "COMPLETE") <=> "COMPLETE" \in Range(s) \/ line = "COMPLETE"
    BY <1>2, <1>5 DEF Said
  <2>2. Said(ui.runtime, "COMPLETE")' <=> "COMPLETE" \in Range(s)
    BY <1>1, <1>2, <1>8, <1>10 DEF Said
  <2> QED
    BY <1>1, <1>11, <1>14, <2>1, <2>2 DEF IInv, PairedInv
<1> QED
  BY <1>13, <1>15, <1>16, <1>17, <1>18, <1>19 DEF IInv

-----------------------------------------------------------------------------
\* A step of a living child, which is the last one: what it owes to everything but
\* the pairing.
LEMMA ChildMoves ==
    ASSUME IInv, NEW i \in Children, Alive(i), NEW p \in Processes, child' = [child EXCEPT ![i] = p],
           UNCHANGED <<ui, mail, spawned, launch, up>>, kills' \in 0 .. MaxKill,
           p.pc # "none", p.of = child[i].of, Consistent(p),
           child[i].stage = "confirmed" => p.stage \in {"confirmed", "complete"}
    PROVE  /\ SpawnInv' /\ StageInv' /\ BehindInv' /\ ApproveInv'
           /\ child' \in [Children -> Processes] /\ child'[i] = p
           /\ \A j \in Children : j # i => child'[j] = child[j]
<1> USE Types
<1>1. /\ child' \in [Children -> Processes] /\ child'[i] = p
      /\ \A j \in Children : j # i => child'[j] = child[j]
  OBVIOUS
<1>2. i = spawned
  BY DEF IInv, SpawnInv
<1>3. \A j \in Children : child'[j].of = child[j].of
  BY <1>1
<1>4. SpawnInv'
  <2>1. \A j \in Children : Alive(j)' => Alive(j)
    BY <1>1 DEF Alive
  <2>2. \A j \in Children : j > spawned => child'[j] = NoChild
    BY <1>1, <1>2 DEF IInv, SpawnInv, Children
  <2>3. \A j \in Children : j <= spawned => child'[j].pc # "none"
    BY <1>1 DEF IInv, SpawnInv
  <2> QED
    BY <1>3, <2>1, <2>2, <2>3 DEF IInv, SpawnInv
<1>5. StageInv'
  BY <1>1 DEF IInv, StageInv
<1>6. BehindInv'
  <2>1. up /\ child[i].of = launch => i = ui.runtime
    BY DEF IInv, BehindInv
  <2> QED
    BY <1>1, <1>3, <2>1 DEF IInv, BehindInv, Alive
<1>7. ApproveInv'
  <2>1. Consistent(child[i]) /\ child[i].stage # "complete"
    BY DEF IInv, StageInv, Consistent, Alive
  <2>2. CASE ui.runtime = i
    BY <1>1, <2>1, <2>2 DEF IInv, ApproveInv
  <2>3. CASE ui.runtime # i
    BY <1>1, <2>3 DEF IInv, ApproveInv
  <2> QED
    BY <2>2, <2>3
<1> QED
  BY <1>1, <1>4, <1>5, <1>6, <1>7

\* A step that completes no pairing: the file stays or is torn for a moment.
LEMMA ChildKeeps ==
    ASSUME IInv, NEW i \in Children, Alive(i), NEW p \in Processes, child' = [child EXCEPT ![i] = p],
           UNCHANGED <<ui, mail, spawned, launch, up>>, kills' \in 0 .. MaxKill,
           p.pc # "none", p.of = child[i].of, Consistent(p),
           child[i].stage = "confirmed" => p.stage \in {"confirmed", "complete"},
           p.stage # "complete", store' = store \/ store' = "torn"
    PROVE  IInv'
<1> USE Types
<1>1. /\ SpawnInv' /\ StageInv' /\ BehindInv' /\ ApproveInv'
      /\ child' \in [Children -> Processes] /\ child'[i] = p
      /\ \A j \in Children : j # i => child'[j] = child[j]
  BY ChildMoves
<1>2. TypeOK'
  BY <1>1 DEF IInv, TypeOK
<1>3. "COMPLETE" \notin Range(p.stdout) /\ "COMPLETE" \notin Range(child[i].stdout)
      /\ child[i].stage # "complete"
  BY DEF IInv, StageInv, Consistent, Alive
<1>4. ui.runtime # NoRuntime => (Said(ui.runtime, "COMPLETE")' <=> Said(ui.runtime, "COMPLETE"))
  BY <1>1, <1>3 DEF Said
<1>5. \A j \in Children : child'[j].stage = "complete" /\ child'[j].of = launch =>
                           child[j].stage = "complete" /\ child[j].of = launch
  BY <1>1
<1>6. PairedInv'
  BY <1>4, <1>5 DEF IInv, PairedInv
<1> QED
  BY <1>1, <1>2, <1>6 DEF IInv

\* A child leaves: with its own cleanup, or on Windows perhaps without.
LEMMA LeaveKeeps ==
    ASSUME IInv, NEW i \in Children, Alive(i), NEW code \in {"exit0", "exit1"},
           NEW fatal \in BOOLEAN, NEW keys \in BOOLEAN, keys => code = "exit1",
           Leave(i, code, fatal, keys), UNCHANGED <<ui, mail, spawned, store, launch, up>>,
           kills' \in 0 .. MaxKill
    PROVE  IInv'
<1> USE Types
<1>1. PICK held \in BOOLEAN : held = (child[i].keys /\ keys /\ OnWindows)
  BY LauncherAssumption, Zenon DEF Processes
<1>2. PICK a : a = [child[i] EXCEPT !.pc = code]
  OBVIOUS
<1>3. PICK b : b = [a EXCEPT !.fatal = fatal]
  OBVIOUS
<1>4. PICK p : p = [b EXCEPT !.keys = held]
  OBVIOUS
<1>5. a \in Processes
  BY <1>2, ProcessEdits
<1>6. b \in Processes
  BY <1>3, <1>5, ProcessEdits, Zenon
<1>7. p \in Processes
  BY <1>4, <1>6, ProcessEdits, Zenon
<1>8. /\ p.kind = child[i].kind /\ p.pc = code /\ p.of = child[i].of
      /\ p.stdin = child[i].stdin /\ p.stdout = child[i].stdout /\ p.stage = child[i].stage
      /\ p.keys = held
  BY <1>2, <1>3, <1>4, <1>5, <1>6, <1>7 DEF Processes
<1>9. child' = [child EXCEPT ![i] = p]
  BY <1>1, <1>2, <1>3, <1>4, Zenon DEF Leave
<1>10. Consistent(child[i]) /\ child[i].pc \in {"run", "saving"}
  BY DEF IInv, StageInv, Alive
<1>11. p.keys => child[i].keys /\ OnWindows /\ p.pc = "exit1"
  BY <1>1, <1>8, Zenon
<1>12. p.stage # "complete" /\ p.pc # "none"
  BY <1>8, <1>10 DEF Consistent
<1>13. Consistent(p)
  BY <1>8, <1>10, <1>11, <1>12 DEF Consistent
<1> QED
  BY <1>7, <1>8, <1>9, <1>12, <1>13, ChildKeeps

\* A controller reports its status and may hold keys or release them.
LEMMA StatusKeeps == ASSUME IInv, NEW i \in Children, ChildStatus(i) PROVE IInv'
<1> USE Types
<1>1. /\ child[i].kind = "Controller" /\ child[i].pc = "run" /\ child[i].lines < MaxLine
      /\ UNCHANGED <<ui, mail, spawned, store, launch, up, kills>>
  BY DEF ChildStatus
<1>2. PICK s \in Statuses :
        child' = [child EXCEPT ![i] = [child[i] EXCEPT
                    !.stdout = Append(child[i].stdout, s), !.lines = child[i].lines + 1,
                    !.keys = (s = "Connected")]]
  BY DEF ChildStatus
<1>3. PICK out : out = Append(child[i].stdout, s)
  OBVIOUS
<1>4. out \in Seq(Lines) /\ \A x : x \in Range(out) <=> x \in Range(child[i].stdout) \/ x = s
  <2>1. child[i].stdout \in Seq(Lines) /\ s \in Lines
    BY DEF Processes, Lines
  <2> QED
    BY <1>3, <2>1, Appending
<1>5. PICK lines \in 0 .. MaxLine : lines = child[i].lines + 1
  <2>1. child[i].lines \in 0 .. MaxLine
    BY DEF Processes
  <2> QED
    BY <1>1, <2>1, LauncherAssumption
<1>6. PICK held \in BOOLEAN : held = (s = "Connected")
  OBVIOUS
<1>7. PICK a : a = [child[i] EXCEPT !.stdout = out]
  OBVIOUS
<1>8. PICK b : b = [a EXCEPT !.lines = lines]
  OBVIOUS
<1>9. PICK p : p = [b EXCEPT !.keys = held]
  OBVIOUS
<1>10. a \in Processes
  BY <1>4, <1>7, ProcessEdits, Zenon
<1>11. b \in Processes
  BY <1>8, <1>10, ProcessEdits, Zenon
<1>12. p \in Processes
  BY <1>9, <1>11, ProcessEdits, Zenon
<1>13. /\ p.kind = child[i].kind /\ p.pc = child[i].pc /\ p.of = child[i].of
       /\ p.stdin = child[i].stdin /\ p.stdout = out /\ p.stage = child[i].stage
  BY <1>7, <1>8, <1>9, <1>10, <1>11, <1>12 DEF Processes
<1>14. child' = [child EXCEPT ![i] = p]
  BY <1>2, <1>3, <1>5, <1>6, <1>7, <1>8, <1>9, Zenon
<1>15. Consistent(child[i]) /\ s \notin {"CONFIRMED", "COMPLETE"}
  BY DEF IInv, StageInv, Statuses
<1>16. Consistent(p) /\ p.stage # "complete" /\ p.pc # "none"
  BY <1>1, <1>4, <1>13, <1>15 DEF Consistent
<1>17. Alive(i) /\ kills' \in 0 .. MaxKill
  BY <1>1 DEF Alive, IInv, TypeOK
<1> QED
  BY <1>1, <1>12, <1>13, <1>14, <1>16, <1>17, ChildKeeps

\* A pairing window says how far it is.
LEMMA PairLineKeeps ==
    ASSUME IInv, NEW i \in Children, NEW from, NEW to, NEW line, PairLine(i, from, to, line),
           \/ from = "waiting" /\ to = "shown" /\ line = "PATTERN"
           \/ from = "shown" /\ to = "confirmed" /\ line = "CONFIRMED"
    PROVE  IInv'
<1> USE Types
<1>1. /\ child[i].kind = "Pairing" /\ child[i].pc = "run" /\ child[i].stage = from
      /\ child' = [child EXCEPT ![i] = [child[i] EXCEPT
                     !.stage = to, !.stdout = Append(child[i].stdout, line)]]
      /\ UNCHANGED <<ui, mail, spawned, store, launch, up, kills>>
  BY DEF PairLine
<1>2. PICK out : out = Append(child[i].stdout, line)
  OBVIOUS
<1>3. out \in Seq(Lines) /\ \A x : x \in Range(out) <=> x \in Range(child[i].stdout) \/ x = line
  <2>1. child[i].stdout \in Seq(Lines) /\ line \in Lines
    BY DEF Processes, Lines
  <2> QED
    BY <1>2, <2>1, Appending
<1>4. PICK a : a = [child[i] EXCEPT !.stage = to]
  OBVIOUS
<1>5. PICK p : p = [a EXCEPT !.stdout = out]
  OBVIOUS
<1>6. a \in Processes
  BY <1>4, ProcessEdits
<1>7. p \in Processes
  BY <1>3, <1>5, <1>6, ProcessEdits, Zenon
<1>8. /\ p.kind = child[i].kind /\ p.pc = child[i].pc /\ p.of = child[i].of
      /\ p.stdin = child[i].stdin /\ p.stdout = out /\ p.stage = to /\ p.keys = child[i].keys
  BY <1>4, <1>5, <1>6, <1>7 DEF Processes
<1>9. child' = [child EXCEPT ![i] = p]
  BY <1>1, <1>2, <1>4, <1>5, Zenon
<1>10. Consistent(child[i])
  BY DEF IInv, StageInv
<1>11. Consistent(p) /\ p.stage # "complete" /\ p.pc # "none"
  BY <1>1, <1>3, <1>8, <1>10 DEF Consistent
<1>12. Alive(i) /\ kills' \in 0 .. MaxKill
  BY <1>1 DEF Alive, IInv, TypeOK
<1> QED
  BY <1>1, <1>7, <1>8, <1>9, <1>11, <1>12, ChildKeeps

\* The window reads the approval and begins to save.
LEMMA SavesKeeps == ASSUME IInv, NEW i \in Children, ChildSaves(i) PROVE IInv'
<1> USE Types
<1>1. /\ child[i].pc = "run" /\ child[i].stage = "confirmed" /\ child[i].stdin # <<>>
      /\ store' = store \/ store' = "torn"
      /\ child' = [child EXCEPT ![i] = [child[i] EXCEPT
                     !.pc = "saving", !.stdin = Tail(child[i].stdin)]]
      /\ UNCHANGED <<ui, mail, spawned, launch, up, kills>>
  BY DEF ChildSaves
<1>2. PICK in : in = Tail(child[i].stdin)
  OBVIOUS
<1>3. in \in Seq({"approve", "q"})
  BY <1>1, <1>2 DEF Processes
<1>4. PICK a : a = [child[i] EXCEPT !.pc = "saving"]
  OBVIOUS
<1>5. PICK p : p = [a EXCEPT !.stdin = in]
  OBVIOUS
<1>6. a \in Processes
  BY <1>4, ProcessEdits
<1>7. p \in Processes
  BY <1>3, <1>5, <1>6, ProcessEdits, Zenon
<1>8. /\ p.kind = child[i].kind /\ p.pc = "saving" /\ p.of = child[i].of
      /\ p.stdout = child[i].stdout /\ p.stage = "confirmed" /\ p.keys = child[i].keys
  BY <1>1, <1>4, <1>5, <1>6, <1>7 DEF Processes
<1>9. child' = [child EXCEPT ![i] = p]
  BY <1>1, <1>2, <1>4, <1>5, Zenon
<1>10. Consistent(child[i])
  BY DEF IInv, StageInv
<1>11. Consistent(p)
  BY <1>1, <1>8, <1>10 DEF Consistent
<1>12. Alive(i) /\ kills' \in 0 .. MaxKill
  BY <1>1 DEF Alive, IInv, TypeOK
<1> QED
  BY <1>1, <1>7, <1>8, <1>9, <1>11, <1>12, ChildKeeps

\* The save succeeds.  If the window is an older launcher's, the running one has no
\* child yet that could have completed.
LEMMA SavedKeeps == ASSUME IInv, NEW i \in Children, ChildSaved(i) PROVE IInv'
<1> USE Types
<1>1. /\ child[i].pc = "saving" /\ store' = "paired"
      /\ child' = [child EXCEPT ![i] = [child[i] EXCEPT !.pc = "exit0", !.stage = "complete",
                     !.stdout = Append(child[i].stdout, "COMPLETE")]]
      /\ UNCHANGED <<ui, mail, spawned, launch, up, kills>>
  BY DEF ChildSaved
<1>2. PICK out : out = Append(child[i].stdout, "COMPLETE")
  OBVIOUS
<1>3. out \in Seq(Lines) /\ "COMPLETE" \in Range(out)
  <2>1. child[i].stdout \in Seq(Lines) /\ "COMPLETE" \in Lines
    BY DEF Processes, Lines
  <2> QED
    BY <1>2, <2>1, Appending
<1>4. PICK a : a = [child[i] EXCEPT !.pc = "exit0"]
  OBVIOUS
<1>5. PICK b : b = [a EXCEPT !.stage = "complete"]
  OBVIOUS
<1>6. PICK p : p = [b EXCEPT !.stdout = out]
  OBVIOUS
<1>7. a \in Processes
  BY <1>4, ProcessEdits
<1>8. b \in Processes
  BY <1>5, <1>7, ProcessEdits
<1>9. p \in Processes
  BY <1>3, <1>6, <1>8, ProcessEdits, Zenon
<1>10. /\ p.kind = child[i].kind /\ p.pc = "exit0" /\ p.of = child[i].of /\ p.stdout = out
       /\ p.stage = "complete" /\ p.keys = child[i].keys
  BY <1>4, <1>5, <1>6, <1>7, <1>8, <1>9 DEF Processes
<1>11. child' = [child EXCEPT ![i] = p]
  BY <1>1, <1>2, <1>4, <1>5, <1>6, Zenon
<1>12. Consistent(child[i])
  BY DEF IInv, StageInv
<1>13. Consistent(p)
  BY <1>1, <1>10, <1>12 DEF Consistent
<1>14. Alive(i) /\ kills' \in 0 .. MaxKill
  BY <1>1 DEF Alive, IInv, TypeOK
<1>15. /\ SpawnInv' /\ StageInv' /\ BehindInv' /\ ApproveInv'
       /\ child' \in [Children -> Processes] /\ child'[i] = p
       /\ \A j \in Children : j # i => child'[j] = child[j]
  BY <1>1, <1>9, <1>10, <1>11, <1>13, <1>14, ChildMoves
<1>16. TypeOK'
  BY <1>1, <1>15 DEF IInv, TypeOK
<1>17. PairedInv'
  <2>1. ASSUME up, NEW j \in Children, child'[j].stage = "complete", child'[j].of = launch
        PROVE  ui.runtime # NoRuntime /\ Said(ui.runtime, "COMPLETE")'
    <3>1. i = spawned /\ child'[i].of = child[i].of
      BY <1>10, <1>14, <1>15 DEF IInv, SpawnInv
    <3>2. child'[j].of = child[j].of
      BY <1>15, <3>1
    <3>3. j <= spawned
      <4>1. launch > 0 /\ child[j].of = launch
        BY <2>1, <3>2 DEF IInv, SpawnInv
      <4>2. child[j] # NoChild
        BY <4>1 DEF NoChild
      <4> QED
        BY <4>2 DEF IInv, SpawnInv, Children
    <3>4. child[j].of <= child[i].of /\ child[i].of \in 1 .. launch
      BY <3>1, <3>3 DEF IInv, SpawnInv
    <3>5. child[i].of = launch
      BY <2>1, <3>2, <3>4
    <3>6. i = ui.runtime
      BY <1>14, <2>1, <3>5 DEF IInv, BehindInv
    <3>7. ui.runtime # NoRuntime
      BY <3>6 DEF Children, NoRuntime
    <3> QED
      BY <1>1, <1>3, <1>10, <1>15, <3>6, <3>7 DEF Said
  <2> QED
    BY <1>1, <2>1 DEF IInv, PairedInv
<1> QED
  BY <1>15, <1>16, <1>17 DEF IInv

\* A child that was told to stop leaves.
LEMMA StopsKeeps == ASSUME IInv, NEW i \in Children, ChildStops(i) PROVE IInv'
<1>1. /\ Alive(i) /\ UNCHANGED <<ui, mail, spawned, store, launch, up>> /\ kills' \in 0 .. MaxKill
      /\ Leave(i, "exit0", FALSE, FALSE) \/ Leave(i, "exit1", TRUE, TRUE)
  BY DEF ChildStops, Alive, IInv, TypeOK
<1> QED
  BY <1>1, LeaveKeeps

\* A child fails or is killed.
LEMMA DiesKeeps == ASSUME IInv, NEW i \in Children, ChildFails(i) \/ ChildKilled(i) PROVE IInv'
<1>1. /\ Alive(i) /\ UNCHANGED <<ui, mail, spawned, store, launch, up>>
      /\ \E fatal, held \in BOOLEAN : Leave(i, "exit1", fatal, held)
  BY DEF ChildFails, ChildKilled, Alive
<1>2. kills' \in 0 .. MaxKill
  <2>1. kills > 0 /\ kills' = kills - 1 /\ kills \in 0 .. MaxKill /\ MaxKill \in Nat
    BY LauncherAssumption DEF ChildFails, ChildKilled, IInv, TypeOK
  <2> QED
    BY <2>1
<1> QED
  BY <1>1, <1>2, LeaveKeeps

\* All steps of a child.
LEMMA ChildrenKeep ==
    ASSUME IInv, NEW i \in Children,
           \/ ChildStatus(i)
           \/ ChildSteps(i)
           \/ ChildFails(i)
           \/ ChildKilled(i)
           \/ ChildPattern(i)
           \/ ChildConfirmed(i)
    PROVE  IInv'
<1>1. CASE ChildStatus(i)
  BY <1>1, StatusKeeps
<1>2. CASE ChildSteps(i)
  BY <1>2, StopsKeeps, SavesKeeps, SavedKeeps DEF ChildSteps
<1>3. CASE ChildFails(i) \/ ChildKilled(i)
  BY <1>3, DiesKeeps
<1>4. CASE ChildPattern(i)
  BY <1>4, PairLineKeeps DEF ChildPattern
<1>5. CASE ChildConfirmed(i)
  BY <1>5, PairLineKeeps DEF ChildConfirmed
<1> QED
  BY <1>1, <1>2, <1>3, <1>4, <1>5

-----------------------------------------------------------------------------
\* Initially no launcher runs and no child was started; the file may be there.
LEMMA IInvInit == Init => IInv
<1> SUFFICES ASSUME Init PROVE IInv
  OBVIOUS
<1>1. /\ ui = Fresh /\ mail = NoMail /\ child = [i \in Children |-> NoChild]
      /\ spawned = 0 /\ launch = 0 /\ up = FALSE /\ store \in {"none", "paired"} /\ kills = MaxKill
  BY DEF Init
<1>2. NoChild \in Processes
  BY LauncherAssumption DEF NoChild, Processes
<1>3. TypeOK
  <2>1. {MaxChild, MaxLaunch, MaxKill} \subseteq Nat /\ up \in BOOLEAN
    BY <1>1, LauncherAssumption
  <2>2. spawned \in 0 .. MaxChild /\ launch \in 0 .. MaxLaunch /\ kills \in 0 .. MaxKill
    BY <1>1, <2>1
  <2>3. child \in [Children -> Processes]
    BY <1>1, <1>2
  <2> QED
    BY <1>1, <2>1, <2>2, <2>3, Emptied, FreshIs DEF TypeOK
<1>4. SpawnInv
  BY <1>1, FreshIs, LauncherAssumption DEF SpawnInv, Children, Alive, NoChild
<1>5. StageInv
  <2>1. Consistent(NoChild)
    <3>1. ~NoChild.keys
      BY Zenon DEF NoChild
    <3>2. NoChild.stage = "waiting" /\ NoChild.pc = "none" /\ NoChild.stdout = <<>> /\ NoChild.stdin = <<>>
      BY DEF NoChild
    <3> QED
      BY <3>1, <3>2, Silent DEF Consistent
  <2> QED
    BY <1>1, <2>1 DEF StageInv
<1>6. BehindInv /\ ApproveInv /\ PairedInv
  BY <1>1, FreshIs, Emptied DEF BehindInv, ApproveInv, PairedInv
<1> QED
  BY <1>3, <1>4, <1>5, <1>6 DEF IInv

\* Every command, every line and every step of a child keeps the invariant.
LEMMA IInvNext == IInv /\ [Next]_vars => IInv'
<1> SUFFICES ASSUME IInv, [Next]_vars PROVE IInv'
  OBVIOUS
<1>1. CASE StartHost
  BY <1>1, StartKeeps
<1>2. CASE BeginPairing
  BY <1>2, PairKeeps
<1>3. CASE ApprovePairing
  BY <1>3, ApproveKeeps
<1>4. CASE StopHost
  BY <1>4, StopKeeps
<1>5. CASE ForgetDevice
  BY <1>5, ForgetKeeps
<1>6. CASE HostStatus
  BY <1>6, PollKeeps
<1>7. CASE Quit(<<"q">>) \/ Quit(<<>>)
  BY <1>7, QuitKeeps
<1>8. CASE Setup
  BY <1>8, SetupKeeps
<1>9. CASE ReadLine
  BY <1>9, ReadKeeps
<1>10. CASE \E i \in Children :
              \/ ChildStatus(i) \/ ChildSteps(i) \/ ChildFails(i) \/ ChildKilled(i)
              \/ ChildPattern(i) \/ ChildConfirmed(i)
  BY <1>10, ChildrenKeep
<1>11. CASE UNCHANGED vars
  <2>1. UNCHANGED <<ui, mail, child, spawned, store, launch, up, kills>>
    BY <1>11 DEF vars
  <2>2. TypeOK' /\ StageInv' /\ ApproveInv' /\ BehindInv'
    BY <2>1 DEF IInv, TypeOK, StageInv, ApproveInv, BehindInv, Alive
  <2>3. SpawnInv'
    BY <2>1 DEF IInv, SpawnInv, Alive
  <2>4. PairedInv'
    BY <2>1 DEF IInv, PairedInv, Said
  <2> QED
    BY <2>2, <2>3, <2>4 DEF IInv
<1> QED
  BY <1>1, <1>2, <1>3, <1>4, <1>5, <1>6, <1>7, <1>8, <1>9, <1>10, <1>11 DEF Next

\* The invariant holds in every state of every behaviour.
THEOREM Invariance == Spec => []IInv
BY IInvInit, IInvNext, PTL DEF Spec

\* Every variable of the launcher keeps its type.
THEOREM TypeCorrect == Spec => []TypeOK
<1>1. IInv => TypeOK
  BY DEF IInv
<1> QED
  BY <1>1, Invariance, PTL

\* An approval that the user gave is only ever in the pipe of a pairing window
\* whose phone has confirmed the pattern (approve_pairing).
THEOREM ApprovalReachesItsWindow == Spec => []ApprovalForThisWindow
<1>1. IInv => ApprovalForThisWindow
  BY DEF IInv, StageInv, Consistent, ApprovalForThisWindow
<1> QED
  BY <1>1, Invariance, PTL

\* A launcher that shows no runtime has neither a living child nor keys of one that
\* died (reap_child, start_host, begin_pairing).
THEOREM LeavesNothingBehind == Spec => []NothingLeftBehind
<1>1. IInv => NothingLeftBehind
  BY DEF IInv, BehindInv, NothingLeftBehind, Children, NoRuntime
<1> QED
  BY <1>1, Invariance, PTL

\* What the launcher shows about the pairing agrees with the file, whoever forgot,
\* saved or completed meanwhile (forget_device, apply_output).
THEOREM PairingShownIsStored == Spec => []PairedAgreesWithStore
<1>1. IInv => PairedAgreesWithStore
  <2>1. SUFFICES ASSUME IInv PROVE PairedAgreesWithStore
    OBVIOUS
  <2>2. ui.runtime = NoRuntime => ~mail.complete
    BY <2>1, Emptied DEF IInv, PairedInv
  <2> QED
    BY <2>1, <2>2 DEF IInv, PairedInv, PairedAgreesWithStore
<1> QED
  BY <1>1, Invariance, PTL
=============================================================================
