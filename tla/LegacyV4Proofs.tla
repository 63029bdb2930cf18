--------------------------- MODULE LegacyV4Proofs ---------------------------
(***************************************************************************)
(* Theorems about the legacy protocol, for every ring and window size,     *)
(* every number of sessions and any amount of trouble: the OS holds what   *)
(* the phone's session said, a window is fed through one adapter, and what *)
(* the phone retires was applied.                                          *)
(***************************************************************************)
EXTENDS LegacyV4, TLAPS, FiniteSetTheorems

------------------------------------------------------------------------------
(* The receive window, as legacy v4 uses it.                               *)

(* BeginSession yields a window.                                           *)
LEMMA BeginSessionType == ASSUME NEW f \in Frame PROVE BeginSession(f) \in Window
  BY DEF BeginSession, Window, EmptyRing, Frame, SessionIds

(* A sequence number has a slot.                                           *)
LEMMA SlotOfType == ASSUME NEW n \in Nat PROVE SlotOf(n) \in Slots
  BY RingAssumption DEF SlotOf, Slots

(* push() yields a window.                                                 *)
LEMMA PushType == ASSUME NEW w \in Window, NEW f \in Frame PROVE Push(w, f) \in Window
<1>1. Joined(w, f) \in Window
  BY BeginSessionType DEF Joined
<1>2. SlotOf(f.sequence) \in Slots
  BY SlotOfType DEF Frame
<1>3. ASSUME NEW v \in Window PROVE Buffered(v, f) \in Window
  <2>1. [v.buffered EXCEPT ![SlotOf(f.sequence)] = f] \in [Slots -> Frame \cup {NoFrame}]
    BY <1>2 DEF Window
  <2> QED BY <2>1 DEF Buffered, Window
<1> QED BY <1>1, <1>3 DEF Push

(* commit_ready() yields a window.                                         *)
LEMMA CommitReadyType == ASSUME NEW w \in Window PROVE CommitReady(w) \in Window
<1>1. [w.buffered EXCEPT ![SlotOf(w.next)] = NoFrame] \in [Slots -> Frame \cup {NoFrame}]
  BY DEF Window
<1> QED BY <1>1 DEF CommitReady, Window

(* A frame of the session in progress moves neither session nor cursor and *)
(* can only be added.                                                      *)
LEMMA PushAdds ==
  ASSUME NEW w \in Window, NEW f \in Frame, w.session = f.session
  PROVE /\ Push(w, f).session = w.session
        /\ Push(w, f).next = w.next
        /\ \A i \in Slots : Push(w, f).buffered[i] \in {w.buffered[i], f}
<1>1. SlotOf(f.sequence) \in Slots
  BY SlotOfType DEF Frame
<1> QED BY <1>1 DEF Push, Joined, Buffered, Window

------------------------------------------------------------------------------
(* The inductive invariant.                                                *)

(* The bound on trouble is kept, and a replug is the one way to another    *)
(* adapter.                                                                *)
BudgetInv ==
  /\ spent.faults + spent.duplicates + spent.replugs + spent.restarts <= MaxTrouble
  /\ adapter = spent.replugs + 1

(* Sessions are those the phone has opened.                                *)
Opened == 1 .. phone.session

(* What frame n of session s said.                                         *)
Said(s, n, touch) == s \in Opened /\ n < Len(log[s]) /\ touch = log[s][n + 1]

(* The phone sends past frame 0 only after the host applied frame 0, and   *)
(* what it retired was applied.                                            *)
PhoneInv ==
  /\ phone.link = "open" => phone.session \in Opened
  /\ phone.link = "open" /\ spent.restarts = 0 =>
       /\ 0 .. (phone.head - 1) \subseteq applied[phone.session]
       /\ phone.ready => 0 \in applied[phone.session]

(* A datagram under way names an opened session, a frame carries what its  *)
(* session said, and an answer covers frames that were applied.            *)
NetInv ==
  /\ \A m \in toHost :
       /\ m.session \in Opened
       /\ m.kind = "FRAME" => Said(m.session, m.sequence, m.touch)
       /\ m.kind = "FRAME" /\ m.sequence > 0 /\ spent.restarts = 0 => 0 \in applied[m.session]
  /\ \A m \in toPhone : m.kind \in {"HELLO", "ACK"} =>
       /\ m.ack >= 0
       /\ spent.restarts = 0 => 0 .. m.ack \subseteq applied[m.session]

(* The window holds frames of its session as the phone said them, and its  *)
(* cursor is behind the frames that were applied.  Without a restart, a    *)
(* window that requires nothing and has no session is the very first.      *)
WindowInv ==
  /\ ordered.session \in {NoSession} \cup Opened
  /\ \A i \in Slots : ordered.buffered[i] # NoFrame =>
       /\ ordered.buffered[i].session = ordered.session
       /\ Said(ordered.session, ordered.buffered[i].sequence, ordered.buffered[i].touch)
  /\ ordered.session # NoSession =>
       /\ ordered.next <= Len(log[ordered.session])
       /\ spent.restarts = 0 => 0 .. (ordered.next - 1) \subseteq applied[ordered.session]
  /\ ordered.session = NoSession /\ ~ordered.requires /\ spent.restarts = 0 =>
       \A s \in Sessions : applied[s] = {}

(* The OS holds what the frame before the cursor said.                     *)
Settled ==
  \/ ordered.session = NoSession /\ host.held = NoTouch
  \/ /\ ordered.session # NoSession /\ ordered.next > 0
     /\ host.held = log[ordered.session][ordered.next]

(* The host looks for a phone with nothing down and no session.  Between   *)
(* frames it is settled; in the commit loop it is, or it will be once the  *)
(* frame under the cursor is applied.                                      *)
HostInv ==
  /\ host.phase \in {"discovery", "found"} => host.held = NoTouch
  /\ host.phase \in {"outer", "discovery", "found"} => ordered.session = NoSession
  /\ host.phase \in {"found", "serving", "committing"} => host.session # NoSession
  /\ host.phase = "serving" => Settled
  /\ host.phase = "committing" => Settled \/ NextReady(ordered)

(* A window is fed through the adapter of the connection.                  *)
SeenInv ==
  /\ seen \subseteq {host.via}
  /\ host.phase \in {"outer", "discovery", "found"} => seen = {}

IInv == TypeOK /\ BudgetInv /\ PhoneInv /\ NetInv /\ WindowInv /\ HostInv /\ SeenInv

------------------------------------------------------------------------------
(* The sets that TypeOK gives to the variables.                            *)
Ways == {Nowhere} \cup Adapters
PhoneState == [link : {"closed", "open", "quit"}, session : 0 .. MaxSessions,
               pinned : Ways, ready : BOOLEAN, head : Nat, retained : Touch]
HostState == [phase : {"outer", "discovery", "found", "serving", "committing", "failed", "stopped"},
              session : 0 .. MaxSessions, via : Ways,
              hello : 0 .. MaxSessions, held : Touch \cup {Partial}, stopping : BOOLEAN]
UpRecord == [kind : {"HELLO", "FRAME"}, session : Sessions, sequence : Nat,
             touch : Touch, via : Adapters]
DownRecord == [kind : {"FOUND", "HELLO", "ACK"}, session : Sessions, ack : Int]
Accounts == [Troubles \cup {"touches"} -> Nat]

(* Types, in the names of this module.                                     *)
LEMMA Types ==
    ASSUME IInv
    PROVE  /\ phone \in PhoneState /\ log \in [Sessions -> Seq(Touch)]
           /\ host \in HostState /\ ordered \in Window
           /\ applied \in [Sessions -> SUBSET Nat] /\ seen \subseteq Adapters
           /\ adapter \in Adapters /\ toHost \subseteq UpRecord /\ toPhone \subseteq DownRecord
           /\ spent \in Accounts
           /\ MaxSessions \in Nat /\ MaxTrouble \in Nat
BY BoundAssumption DEF IInv, TypeOK, PhoneState, HostState, UpRecord, DownRecord, Accounts, Ways

(* The windows that no frame has joined.                                   *)
LEMMA FreshWindowType == NewWindow \in Window /\ RequireFreshSession \in Window
BY DEF NewWindow, RequireFreshSession, Window, EmptyRing, NoSession

(* What every step but a replug keeps of the accounts: the bound, the      *)
(* replugs, and that there was no restart if there is none afterwards.     *)
Accounted ==
  /\ spent' \in Accounts
  /\ spent'.faults + spent'.duplicates + spent'.replugs + spent'.restarts <= MaxTrouble
  /\ spent'.replugs = spent.replugs
  /\ spent'.restarts = 0 => spent.restarts = 0

(* Every way to pay for trouble is accounted for.                          *)
LEMMA Pays ==
    ASSUME IInv,
           \/ UNCHANGED spent \/ Count("touches")
           \/ Spend("faults") \/ Spend("duplicates") \/ Spend("restarts")
    PROVE  Accounted
<1>1. spent \in Accounts
  BY Types
<1>2. /\ spent.faults \in Nat /\ spent.duplicates \in Nat
      /\ spent.replugs \in Nat /\ spent.restarts \in Nat /\ spent.touches \in Nat
  BY <1>1 DEF Accounts, Troubles
<1>3. spent.faults + spent.duplicates + spent.replugs + spent.restarts <= MaxTrouble
  BY DEF IInv, BudgetInv
<1>4. CASE UNCHANGED spent
  BY <1>1, <1>3, <1>4 DEF Accounted
<1>5. ASSUME NEW k \in Troubles \cup {"touches"}, Count(k)
      PROVE  /\ spent' \in Accounts /\ spent'[k] = spent[k] + 1
             /\ \A j \in Troubles \cup {"touches"} : j # k => spent'[j] = spent[j]
  BY <1>1, <1>5 DEF Count, Accounts
<1>6. CASE Count("touches")
  BY <1>2, <1>3, <1>5, <1>6 DEF Accounted, Troubles
<1>7. CASE Spend("faults")
  <2>1. /\ spent' \in Accounts /\ spent'.faults = spent.faults + 1
        /\ spent'.duplicates = spent.duplicates /\ spent'.replugs = spent.replugs
        /\ spent'.restarts = spent.restarts
    BY <1>5, <1>7 DEF Spend, Troubles
  <2> QED
    BY <1>2, <1>7, <2>1, Types DEF Accounted, Spend
<1>8. CASE Spend("duplicates")
  <2>1. /\ spent' \in Accounts /\ spent'.duplicates = spent.duplicates + 1
        /\ spent'.faults = spent.faults /\ spent'.replugs = spent.replugs
        /\ spent'.restarts = spent.restarts
    BY <1>5, <1>8 DEF Spend, Troubles
  <2> QED
    BY <1>2, <1>8, <2>1, Types DEF Accounted, Spend
<1>9. CASE Spend("restarts")
  <2>1. /\ spent' \in Accounts /\ spent'.restarts = spent.restarts + 1
        /\ spent'.faults = spent.faults /\ spent'.duplicates = spent.duplicates
        /\ spent'.replugs = spent.replugs
    BY <1>5, <1>9 DEF Spend, Troubles
  <2> QED
    BY <1>2, <1>9, <2>1, Types DEF Accounted, Spend
<1> QED
  BY <1>4, <1>6, <1>7, <1>8, <1>9

(* A datagram that is taken leaves, or stays at the cost of a duplicate.   *)
LEMMA Takes ==
    ASSUME IInv, NEW net, NEW rest, NEW m, Taken(net, rest, m)
    PROVE  rest \subseteq net /\ Accounted
<1>1. rest \subseteq net
  BY DEF Taken
<1>2. UNCHANGED spent \/ Spend("duplicates")
  BY DEF Taken
<1> QED
  BY <1>1, <1>2, Pays

(* The logs of opened sessions only grow.                                  *)
LogGrows ==
  /\ phone'.session >= phone.session
  /\ \A s \in Opened : /\ Len(log[s]) <= Len(log'[s])
                       /\ \A n \in 1 .. Len(log[s]) : log'[s][n] = log[s][n]

(* What a session said it will always have said.                           *)
LEMMA SaidStays ==
    ASSUME IInv, LogGrows, phone' \in PhoneState, log' \in [Sessions -> Seq(Touch)],
           NEW s, NEW n \in Nat, NEW touch, Said(s, n, touch)
    PROVE  Said(s, n, touch)'
<1>1. phone.session \in 0 .. MaxSessions /\ phone'.session \in 0 .. MaxSessions
      /\ MaxSessions \in Nat
  BY Types DEF PhoneState
<1>2. s \in Opened /\ s \in Sessions /\ s \in Opened'
  BY <1>1 DEF Said, Opened, Sessions, LogGrows
<1>3. log[s] \in Seq(Touch) /\ log'[s] \in Seq(Touch)
  BY <1>2, Types
<1>4. Len(log[s]) \in Nat /\ Len(log'[s]) \in Nat
  BY <1>3
<1>5. n < Len(log[s]) /\ n + 1 \in 1 .. Len(log[s])
  BY <1>4 DEF Said
<1> QED
  BY <1>2, <1>4, <1>5 DEF Said, LogGrows

(* What a step of the phone owes to the invariant.                         *)
LEMMA PhoneStep ==
    ASSUME IInv, UNCHANGED <<hostSide, adapter>>, Accounted,
           phone' \in PhoneState, log' \in [Sessions -> Seq(Touch)], LogGrows,
           toHost' \subseteq UpRecord, toPhone' \subseteq toPhone, PhoneInv',
           \A m \in toHost' : m \in toHost \/
             /\ m.session \in Opened'
             /\ m.kind = "FRAME" => Said(m.session, m.sequence, m.touch)'
             /\ m.kind = "FRAME" /\ m.sequence > 0 /\ spent'.restarts = 0 => 0 \in applied[m.session]
    PROVE  IInv'
<1> USE Types
<1>0. /\ UNCHANGED <<host, ordered, applied, seen, adapter>>
      /\ spent'.restarts = 0 => spent.restarts = 0
  BY DEF hostSide, histories, Accounted
<1>1. TypeOK'
  BY <1>0 DEF TypeOK, PhoneState, HostState, UpRecord, DownRecord, Accounts, Ways, Accounted
<1>2. BudgetInv'
  BY <1>0 DEF IInv, BudgetInv, Accounted
<1>3. phone.session \in Nat /\ phone'.session \in Nat /\ phone'.session >= phone.session
  BY DEF PhoneState, LogGrows
<1>4. \A s \in Opened : s \in Opened'
  BY <1>3 DEF Opened
<1>5. NetInv'
  <2>1. ASSUME NEW m \in toHost'
        PROVE  /\ m.session \in Opened'
               /\ m.kind = "FRAME" => Said(m.session, m.sequence, m.touch)'
               /\ m.kind = "FRAME" /\ m.sequence > 0 /\ spent'.restarts = 0
                    => 0 \in applied'[m.session]
    <3>1. CASE m \in toHost
      <4>1. m.session \in Opened' /\ m.sequence \in Nat
        BY <3>1, <1>4 DEF IInv, NetInv, UpRecord
      <4>2. m.kind = "FRAME" => Said(m.session, m.sequence, m.touch)'
        BY <3>1, <4>1, SaidStays DEF IInv, NetInv
      <4> QED
        BY <3>1, <4>1, <4>2, <1>0 DEF IInv, NetInv
    <3>2. CASE m \notin toHost
      BY <3>2, <1>0
    <3> QED
      BY <3>1, <3>2
  <2>2. ASSUME NEW m \in toPhone', m.kind \in {"HELLO", "ACK"}
        PROVE  m.ack >= 0 /\ (spent'.restarts = 0 => 0 .. m.ack \subseteq applied'[m.session])
    BY <2>2, <1>0 DEF IInv, NetInv
  <2> QED
    BY <2>1, <2>2 DEF NetInv
<1>6. WindowInv'
  <2>1. ordered'.session \in {NoSession} \cup Opened'
    BY <1>0, <1>4 DEF IInv, WindowInv
  <2>2. ASSUME NEW i \in Slots, ordered.buffered[i] # NoFrame
        PROVE  /\ ordered.buffered[i].session = ordered.session
               /\ Said(ordered.session, ordered.buffered[i].sequence, ordered.buffered[i].touch)
               /\ ordered.buffered[i].sequence \in Nat
    BY <2>2 DEF IInv, WindowInv, Window, Frame
  <2>3. ASSUME NEW i \in Slots, ordered'.buffered[i] # NoFrame
        PROVE  /\ ordered'.buffered[i].session = ordered'.session
               /\ Said(ordered.session, ordered.buffered[i].sequence, ordered.buffered[i].touch)'
    <3>1. PICK s, n, touch : /\ s = ordered.session /\ n = ordered.buffered[i].sequence
                             /\ touch = ordered.buffered[i].touch
      OBVIOUS
    <3>2. Said(s, n, touch) /\ n \in Nat
      BY <2>2, <2>3, <3>1, <1>0
    <3>3. Said(s, n, touch)'
      BY <3>2, SaidStays
    <3> QED
      BY <2>2, <2>3, <3>1, <3>3, <1>0 DEF Said
  <2>4. ordered'.session # NoSession =>
          /\ ordered'.next <= Len(log'[ordered'.session])
          /\ spent'.restarts = 0 => 0 .. (ordered'.next - 1) \subseteq applied'[ordered'.session]
    <3>1. ASSUME ordered.session # NoSession PROVE ordered.next <= Len(log'[ordered.session])
      <4>1. ordered.session \in Opened /\ ordered.next <= Len(log[ordered.session])
        BY <3>1 DEF IInv, WindowInv
      <4>2. ordered.session \in Sessions
        BY <4>1, <1>3 DEF Opened, Sessions, PhoneState
      <4>3. Len(log[ordered.session]) \in Nat /\ Len(log'[ordered.session]) \in Nat
        BY <4>2
      <4> QED
        BY <4>1, <4>3 DEF LogGrows, Window
    <3> QED
      BY <3>1, <1>0 DEF IInv, WindowInv
  <2>5. ordered'.session = NoSession /\ ~ordered'.requires /\ spent'.restarts = 0 =>
          \A s \in Sessions : applied'[s] = {}
    BY <1>0 DEF IInv, WindowInv
  <2> QED
    BY <2>1, <2>3, <2>4, <2>5 DEF WindowInv
<1>7. HostInv'
  <2>1. Settled => Settled'
    <3>1. ASSUME ordered.session # NoSession, ordered.next > 0
          PROVE  log'[ordered.session][ordered.next] = log[ordered.session][ordered.next]
      <4>1. ordered.session \in Opened /\ ordered.next <= Len(log[ordered.session])
        BY <3>1 DEF IInv, WindowInv
      <4>2. ordered.session \in Sessions
        BY <4>1, <1>3 DEF Opened, Sessions, PhoneState
      <4>3. Len(log[ordered.session]) \in Nat /\ ordered.next \in Nat
        BY <4>2 DEF Window
      <4>4. ordered.next \in 1 .. Len(log[ordered.session])
        BY <3>1, <4>1, <4>3
      <4> QED
        BY <4>1, <4>4 DEF LogGrows
    <3> QED
      BY <3>1, <1>0 DEF Settled
  <2> QED
    BY <2>1, <1>0 DEF IInv, HostInv, NextReady, HeadFrame
<1>8. SeenInv'
  BY <1>0 DEF IInv, SeenInv
<1> QED
  BY <1>1, <1>2, <1>5, <1>6, <1>7, <1>8 DEF IInv

(* What a step of the host owes to the invariant.                          *)
LEMMA HostStep ==
    ASSUME IInv, UNCHANGED <<phone, log, adapter>>, Accounted,
           host' \in HostState, ordered' \in Window, applied' \in [Sessions -> SUBSET Nat],
           \A s \in Sessions : applied[s] \subseteq applied'[s], seen' \subseteq Adapters,
           toHost' \subseteq toHost, toPhone' \subseteq DownRecord,
           \A m \in toPhone' : m \in toPhone \/ m.kind = "FOUND" \/
             /\ m.ack >= 0
             /\ spent'.restarts = 0 => 0 .. m.ack \subseteq applied'[m.session],
           WindowInv', HostInv', SeenInv'
    PROVE  IInv'
<1> USE Types
<1>1. TypeOK'
  BY DEF TypeOK, PhoneState, HostState, UpRecord, DownRecord, Accounts, Ways, Accounted
<1>2. BudgetInv'
  BY DEF IInv, BudgetInv, Accounted
<1>3. PhoneInv'
  <2>1. phone.link = "open" => phone.session \in Sessions
    BY DEF IInv, PhoneInv, Opened, Sessions, PhoneState
  <2> QED
    BY <2>1 DEF IInv, PhoneInv, Opened, Accounted
<1>4. NetInv'
  <2>1. ASSUME NEW m \in toHost'
        PROVE  /\ m.session \in Opened'
               /\ m.kind = "FRAME" => Said(m.session, m.sequence, m.touch)'
               /\ m.kind = "FRAME" /\ m.sequence > 0 /\ spent'.restarts = 0
                    => 0 \in applied'[m.session]
    <3>1. m \in toHost /\ m.session \in Sessions
      BY DEF UpRecord
    <3> QED
      BY <3>1 DEF IInv, NetInv, Said, Opened, Accounted
  <2>2. ASSUME NEW m \in toPhone', m.kind \in {"HELLO", "ACK"}
        PROVE  m.ack >= 0 /\ (spent'.restarts = 0 => 0 .. m.ack \subseteq applied'[m.session])
    <3>1. CASE m \in toPhone
      <4>1. m.session \in Sessions
        BY <3>1 DEF DownRecord
      <4> QED
        BY <2>2, <3>1, <4>1 DEF IInv, NetInv, Accounted
    <3>2. CASE m \notin toPhone
      BY <2>2, <3>2
    <3> QED
      BY <3>1, <3>2
  <2> QED
    BY <2>1, <2>2 DEF NetInv
<1> QED
  BY <1>1, <1>2, <1>3, <1>4 DEF IInv

(* ... when it leaves the window alone.                                    *)
LEMMA HostRests ==
    ASSUME IInv, UNCHANGED <<phone, log, adapter, ordered, applied, seen>>, Accounted,
           host' \in HostState, toHost' \subseteq toHost, toPhone' \subseteq DownRecord,
           \A m \in toPhone' : m \in toPhone \/ m.kind = "FOUND" \/
             /\ m.ack >= 0
             /\ spent'.restarts = 0 => 0 .. m.ack \subseteq applied[m.session],
           HostInv', SeenInv'
    PROVE  IInv'
<1>1. WindowInv'
  BY DEF IInv, WindowInv, Said, Opened, Accounted
<1> QED
  BY <1>1, HostStep, Types

(* ... when it gives the window up.                                        *)
LEMMA HostGivesUp ==
    ASSUME IInv, UNCHANGED <<phone, log, adapter>>, GiveUpWindow, Accounted,
           host' \in HostState, toHost' \subseteq toHost, toPhone' \subseteq DownRecord,
           \A m \in toPhone' : m \in toPhone \/ m.kind = "FOUND",
           host'.phase \in {"outer", "serving"}, host'.phase = "serving" => host'.held = NoTouch,
           host'.phase = "serving" => host'.session # NoSession
    PROVE  IInv'
<1>1. ordered' = RequireFreshSession /\ seen' = {} /\ applied' = applied
  BY DEF GiveUpWindow
<1>2. /\ ordered'.session = NoSession /\ ordered'.requires
      /\ \A i \in Slots : ordered'.buffered[i] = NoFrame
  BY <1>1 DEF RequireFreshSession, EmptyRing
<1>3. WindowInv'
  BY <1>2 DEF WindowInv
<1>4. HostInv' /\ SeenInv'
  BY <1>1, <1>2 DEF HostInv, SeenInv, Settled
<1> QED
  BY <1>1, <1>3, <1>4, FreshWindowType, Types, HostStep

------------------------------------------------------------------------------
(* The assignments of the phone stay in its type.                          *)
LEMMA PhoneEdits ==
    ASSUME NEW p \in PhoneState, NEW l \in {"closed", "open", "quit"}, NEW s \in 0 .. MaxSessions,
           NEW a \in Ways, NEW b \in BOOLEAN, NEW h \in Nat
    PROVE  /\ [p EXCEPT !.link = l, !.session = s, !.pinned = a, !.ready = b, !.head = h] \in PhoneState
           /\ [p EXCEPT !.link = l, !.pinned = a, !.ready = b, !.head = h] \in PhoneState
           /\ [p EXCEPT !.ready = b, !.head = h] \in PhoneState
           /\ [p EXCEPT !.pinned = a] \in PhoneState
<1>1. ASSUME NEW e \in PhoneState PROVE [e EXCEPT !.link = l] \in PhoneState
  BY DEF PhoneState
<1>2. ASSUME NEW e \in PhoneState PROVE [e EXCEPT !.session = s] \in PhoneState
  BY DEF PhoneState
<1>3. ASSUME NEW e \in PhoneState PROVE [e EXCEPT !.pinned = a] \in PhoneState
  BY DEF PhoneState
<1>4. ASSUME NEW e \in PhoneState PROVE [e EXCEPT !.ready = b] \in PhoneState
  BY DEF PhoneState
<1>5. ASSUME NEW e \in PhoneState PROVE [e EXCEPT !.head = h] \in PhoneState
  BY DEF PhoneState
<1>6. [p EXCEPT !.ready = b, !.head = h] \in PhoneState
  BY <1>4, <1>5, Zenon
<1>7. [p EXCEPT !.link = l, !.pinned = a, !.ready = b, !.head = h] \in PhoneState
  <2>1. PICK e : e = [p EXCEPT !.link = l, !.pinned = a]
    OBVIOUS
  <2>2. e \in PhoneState
    BY <2>1, <1>1, <1>3, Zenon
  <2>3. [e EXCEPT !.ready = b, !.head = h] \in PhoneState
    BY <2>2, <1>4, <1>5, Zenon
  <2> QED
    BY <2>1, <2>3, Zenon
<1>8. [p EXCEPT !.link = l, !.session = s, !.pinned = a, !.ready = b, !.head = h] \in PhoneState
  <2>1. PICK e : e = [p EXCEPT !.link = l, !.session = s, !.pinned = a]
    OBVIOUS
  <2>2. PICK d : d = [p EXCEPT !.link = l, !.session = s]
    OBVIOUS
  <2>3. d \in PhoneState
    BY <2>2, <1>1, <1>2, Zenon
  <2>4. e = [d EXCEPT !.pinned = a]
    BY <2>1, <2>2, Zenon
  <2>5. e \in PhoneState
    BY <2>3, <2>4, <1>3, Zenon
  <2>6. [e EXCEPT !.ready = b, !.head = h] \in PhoneState
    BY <2>5, <1>4, <1>5, Zenon
  <2> QED
    BY <2>1, <2>6, Zenon
<1> QED
  BY <1>3, <1>6, <1>7, <1>8

(* A step that moves no log.                                               *)
LEMMA LogRests ==
    ASSUME IInv, phone' \in PhoneState, phone'.session = phone.session, UNCHANGED log
    PROVE  LogGrows /\ log' \in [Sessions -> Seq(Touch)]
<1>1. phone.session \in Nat /\ MaxSessions \in Nat
  BY Types DEF PhoneState
<1>2. \A s \in Opened : log[s] \in Seq(Touch) /\ Len(log[s]) \in Nat
  BY <1>1, Types DEF Opened, Sessions, PhoneState
<1> QED
  BY <1>1, <1>2, Types DEF LogGrows

(* One more snapshot in the log of the open session.                       *)
LEMMA LogAppends ==
    ASSUME IInv, phone' \in PhoneState, phone'.session = phone.session, phone.link = "open",
           NEW touch \in Touch,
           log' = [log EXCEPT ![phone.session] = Append(log[phone.session], touch)]
    PROVE  LogGrows /\ log' \in [Sessions -> Seq(Touch)]
<1>1. phone.session \in Nat /\ MaxSessions \in Nat /\ phone.session \in Sessions
  BY Types DEF PhoneState, IInv, PhoneInv, Opened, Sessions
<1>2. \A s \in Opened : s \in Sessions /\ log[s] \in Seq(Touch) /\ Len(log[s]) \in Nat
  BY <1>1, Types DEF Opened, Sessions, PhoneState
<1>3. log' \in [Sessions -> Seq(Touch)]
  BY <1>1, Types
<1>4. ASSUME NEW s \in Opened
      PROVE  Len(log[s]) <= Len(log'[s]) /\ \A n \in 1 .. Len(log[s]) : log'[s][n] = log[s][n]
  <2>1. CASE s # phone.session
    BY <1>1, <1>2, <2>1, Types
  <2>2. CASE s = phone.session
    <3>1. log'[s] = Append(log[s], touch)
      BY <1>1, <2>2, Types
    <3> QED
      BY <1>2, <3>1
  <2> QED
    BY <2>1, <2>2
<1> QED
  BY <1>1, <1>3, <1>4 DEF LogGrows

(* Every step of the phone keeps the invariant.                            *)
LEMMA PhoneKeeps == IInv /\ PhoneNext => IInv'
<1> SUFFICES ASSUME IInv, PhoneNext PROVE IInv'
  OBVIOUS
<1> USE Types
<1>0. /\ phone.session \in Nat /\ phone.head \in Nat /\ phone.ready \in BOOLEAN
      /\ phone.session \in 0 .. MaxSessions
      /\ phone.link = "open" => phone.session \in Sessions /\ phone.session \in Opened
      /\ MaxSessions \in Nat
  BY DEF PhoneState, IInv, PhoneInv, Opened, Sessions
<1>way. adapter \in Ways /\ Nowhere \in Ways
  BY DEF Ways
<1>net. \A m \in toHost : m \in UpRecord
  OBVIOUS
<1>1. CASE PhoneOpen
  <2>1. /\ phone.session + 1 \in 0 .. MaxSessions /\ phone.session + 1 \in Sessions
        /\ phone' = [phone EXCEPT !.link = "open", !.session = phone.session + 1,
                                  !.pinned = Nowhere, !.ready = FALSE, !.head = 0]
        /\ log' = [log EXCEPT ![phone.session + 1] = <<NoTouch>>]
        /\ UNCHANGED <<hostSide, adapter, toHost, toPhone, spent>>
    BY <1>1, <1>0 DEF PhoneOpen, Sessions
  <2>2. phone' \in PhoneState
    <3>1. PICK b, h : b = FALSE /\ h = 0 /\ b \in BOOLEAN /\ h \in Nat
      OBVIOUS
    <3>2. PICK l, s : l = "open" /\ s = phone.session + 1 /\ l \in {"closed", "open", "quit"}
                      /\ s \in 0 .. MaxSessions
      BY <2>1
    <3>3. phone' = [phone EXCEPT !.link = l, !.session = s, !.pinned = Nowhere, !.ready = b, !.head = h]
      BY <2>1, <3>1, <3>2, Zenon
    <3>4. phone \in PhoneState
      OBVIOUS
    <3> QED
      BY ONLY <1>way, <3>1, <3>2, <3>3, <3>4, PhoneEdits, Zenon
  <2>3. /\ phone'.link = "open" /\ phone'.session = phone.session + 1
        /\ phone'.head = 0 /\ ~phone'.ready
    BY <2>1 DEF PhoneState
  <2>4. log' \in [Sessions -> Seq(Touch)]
    <3>1. <<NoTouch>> \in Seq(Touch)
      BY TouchAssumption
    <3> QED
      BY <2>1, <3>1
  <2>5. LogGrows
    <3>1. ASSUME NEW s \in Opened PROVE log'[s] = log[s] /\ Len(log[s]) \in Nat
      <4>1. s \in Sessions /\ s # phone.session + 1
        BY <1>0 DEF Opened, Sessions
      <4> QED
        BY <2>1, <4>1
    <3> QED
      BY <2>3, <3>1, <1>0 DEF LogGrows
  <2>6. PhoneInv'
    BY <2>3, <1>0 DEF PhoneInv, Opened
  <2> QED
    BY <2>1, <2>2, <2>4, <2>5, <2>6, <1>net, Pays, PhoneStep
<1>2. ASSUME NEW m \in UpRecord, toHost' = toHost \cup {m}, phone.link = "open",
             UNCHANGED <<phoneSide, hostSide, adapter, toPhone, spent>>,
             m.session = phone.session,
             m.kind = "FRAME" => Said(m.session, m.sequence, m.touch),
             m.kind = "FRAME" /\ m.sequence > 0 /\ spent.restarts = 0 => 0 \in applied[m.session]
      PROVE  IInv'
  <2>1. UNCHANGED <<phone, log>> /\ LogGrows /\ log' \in [Sessions -> Seq(Touch)]
    BY <1>2, LogRests DEF phoneSide
  <2>2. PhoneInv'
    BY <1>2, <2>1 DEF IInv, PhoneInv, Opened, hostSide, histories
  <2>3. \A x \in toHost' : x \in toHost \/
             /\ x.session \in Opened'
             /\ x.kind = "FRAME" => Said(x.session, x.sequence, x.touch)'
             /\ x.kind = "FRAME" /\ x.sequence > 0 /\ spent'.restarts = 0 => 0 \in applied[x.session]
    BY <1>0, <1>2, <2>1 DEF Opened, Said
  <2> QED
    BY <1>2, <2>1, <2>2, <2>3, <1>net, Pays, PhoneStep
<1>3. CASE SendDiscovery
  <2>1. Hello(phone.session, adapter) \in UpRecord
    BY <1>3, <1>0, TouchAssumption DEF SendDiscovery, Hello, UpRecord
  <2> QED
    BY <1>2, <1>3, <2>1 DEF SendDiscovery, ToHost, Hello
<1>4. ASSUME NEW n \in Nat, phone.link = "open", WriterSend(n) PROVE IInv'
  <2> DEFINE m == FrameRecord(phone.session, n, adapter)
  <2>1. log[phone.session] \in Seq(Touch) /\ Len(log[phone.session]) \in Nat
    BY <1>0, <1>4
  <2>2. n >= phone.head /\ n < Len(log[phone.session])
        /\ n < phone.head + (IF phone.ready THEN HostWindow ELSE 1)
    BY <1>0, <1>4, <2>1 DEF WriterSend, Writable, NextSequence
  <2>3. log[phone.session][n + 1] \in Touch
    BY <2>1, <2>2
  <2>4. m \in UpRecord /\ m.session = phone.session /\ m.sequence = n
        /\ m.touch = log[phone.session][n + 1]
    BY <2>3, <1>0, <1>4 DEF FrameRecord, UpRecord
  <2>5. Said(m.session, m.sequence, m.touch)
    BY <2>2, <2>4, <1>0, <1>4 DEF Said
  <2>6. n > 0 /\ spent.restarts = 0 => 0 \in applied[phone.session]
    BY <2>2, <1>0, <1>4 DEF IInv, PhoneInv
  <2>7. toHost' = toHost \cup {m} /\ UNCHANGED <<phoneSide, hostSide, adapter, toPhone, spent>>
    BY <1>4 DEF WriterSend, ToHost
  <2> HIDE DEF m
  <2> QED
    BY <1>2, <1>4, <2>4, <2>5, <2>6, <2>7
<1>5. ASSUME NEW m \in toPhone, PhoneFindsHost(m) PROVE IInv'
  <2>1. /\ phone' = [phone EXCEPT !.pinned = adapter] /\ phone.link = "open"
        /\ Taken(toPhone, toPhone', m) /\ UNCHANGED <<log, hostSide, adapter, toHost>>
    BY <1>5 DEF PhoneFindsHost
  <2>2. phone' \in PhoneState
    BY <2>1, <1>way DEF PhoneState
  <2>3. /\ phone'.link = phone.link /\ phone'.session = phone.session
        /\ phone'.head = phone.head /\ phone'.ready = phone.ready
    BY <2>1 DEF PhoneState
  <2>4. toPhone' \subseteq toPhone /\ Accounted
    BY <2>1, Takes
  <2>5. PhoneInv'
    BY <2>1, <2>3, <2>4 DEF IInv, PhoneInv, Opened, Accounted, hostSide, histories
  <2>6. LogGrows /\ log' \in [Sessions -> Seq(Touch)]
    BY <2>1, <2>2, <2>3, LogRests
  <2> QED
    BY <2>1, <2>2, <2>4, <2>5, <2>6, <1>net, PhoneStep
<1>6. ASSUME NEW m \in toPhone, PhoneControl(m) PROVE IInv'
  <2> DEFINE h == Acknowledged(m.ack)
  <2>1. /\ phone' = [phone EXCEPT !.ready = TRUE, !.head = h] /\ phone.link = "open"
        /\ m.kind \in {"HELLO", "ACK"} /\ m.session = phone.session
        /\ Taken(toPhone, toPhone', m) /\ UNCHANGED <<log, hostSide, adapter, toHost>>
    BY <1>6 DEF PhoneControl
  <2>2. m.ack \in Int /\ m.ack >= 0
        /\ (spent.restarts = 0 => 0 .. m.ack \subseteq applied[phone.session])
    BY <1>6, <2>1 DEF IInv, NetInv, DownRecord
  <2>3. h \in Nat /\ h \in {phone.head, m.ack + 1}
    BY <2>2, <1>0 DEF Acknowledged
  <2> HIDE DEF h
  <2>4. phone' \in PhoneState
    <3>1. PICK b \in BOOLEAN : b = TRUE
      OBVIOUS
    <3>2. phone' = [phone EXCEPT !.ready = b, !.head = h]
      BY <2>1, <3>1, Zenon
    <3>3. PICK l \in {"closed", "open", "quit"} : TRUE
      OBVIOUS
    <3> QED
      BY <2>3, <3>2, <3>3, <1>0, <1>way, PhoneEdits
  <2>5. phone'.link = "open" /\ phone'.session = phone.session /\ phone'.head = h
    BY <2>1 DEF PhoneState
  <2>6. toPhone' \subseteq toPhone /\ Accounted
    BY <2>1, Takes
  <2>7. spent'.restarts = 0 => /\ 0 .. (h - 1) \subseteq applied[phone.session]
                               /\ 0 \in applied[phone.session]
    <3>1. ASSUME spent'.restarts = 0
          PROVE  0 .. (h - 1) \subseteq applied[phone.session] /\ 0 \in applied[phone.session]
      <4>1. spent.restarts = 0
        BY <3>1, <2>6 DEF Accounted
      <4>2. 0 .. (phone.head - 1) \subseteq applied[phone.session]
        BY <4>1, <2>1 DEF IInv, PhoneInv
      <4>3. (m.ack + 1) - 1 = m.ack /\ 0 \in 0 .. m.ack
        BY <2>2
      <4>4. 0 .. (h - 1) \subseteq applied[phone.session]
        BY <2>2, <2>3, <4>1, <4>2, <4>3
      <4> QED
        BY <2>2, <4>1, <4>3, <4>4
    <3> QED
      BY <3>1
  <2>8. PhoneInv'
    BY <2>1, <2>5, <2>7, <1>0 DEF PhoneInv, Opened, hostSide, histories
  <2>9. LogGrows /\ log' \in [Sessions -> Seq(Touch)]
    BY <2>1, <2>4, <2>5, LogRests
  <2> QED
    BY <2>1, <2>4, <2>6, <2>8, <2>9, <1>net, PhoneStep
<1>7. ASSUME NEW touch \in Touch, OfferFrame(touch) PROVE IInv'
  <2>1. /\ phone' = [phone EXCEPT !.retained = touch] /\ Count("touches")
        /\ UNCHANGED <<hostSide, adapter, toHost, toPhone>>
    BY <1>7 DEF OfferFrame
  <2>2. phone' \in PhoneState
    BY <2>1 DEF PhoneState
  <2>3. /\ phone'.link = phone.link /\ phone'.session = phone.session
        /\ phone'.head = phone.head /\ phone'.ready = phone.ready
    BY <2>1 DEF PhoneState
  <2>4. LogGrows /\ log' \in [Sessions -> Seq(Touch)]
    <3>1. CASE phone.link = "open"
      BY <1>7, <2>2, <2>3, <3>1, LogAppends DEF OfferFrame
    <3>2. CASE phone.link # "open"
      BY <1>7, <2>2, <2>3, <3>2, LogRests DEF OfferFrame
    <3> QED
      BY <3>1, <3>2
  <2>5. Accounted
    BY <2>1, Pays
  <2>6. PhoneInv'
    BY <2>1, <2>3, <2>5 DEF IInv, PhoneInv, Opened, Accounted, hostSide, histories
  <2> QED
    BY <2>1, <2>2, <2>4, <2>5, <2>6, <1>net, PhoneStep
<1>8. CASE Heartbeat
  <2>1. /\ log' = [log EXCEPT ![phone.session] = Append(log[phone.session], phone.retained)]
        /\ phone.link = "open" /\ UNCHANGED <<phone, hostSide, adapter, toHost, toPhone, spent>>
    BY <1>8 DEF Heartbeat
  <2>2. phone.retained \in Touch
    BY DEF PhoneState
  <2>3. LogGrows /\ log' \in [Sessions -> Seq(Touch)]
    BY <2>1, <2>2, LogAppends
  <2>4. PhoneInv'
    BY <2>1 DEF IInv, PhoneInv, Opened, hostSide, histories
  <2> QED
    BY <2>1, <2>3, <2>4, <1>net, Pays, PhoneStep
<1>9. ASSUME NEW l \in {"closed", "quit"}, Closed(l), Accounted,
             UNCHANGED <<log, hostSide, adapter, toHost, toPhone>>
      PROVE  IInv'
  <2>1. phone' = [phone EXCEPT !.link = l, !.pinned = Nowhere, !.ready = FALSE, !.head = 0]
    BY <1>9 DEF Closed
  <2>2. phone' \in PhoneState
    <3>1. PICK b, h : b = FALSE /\ h = 0 /\ b \in BOOLEAN /\ h \in Nat
      OBVIOUS
    <3>2. phone' = [phone EXCEPT !.link = l, !.pinned = Nowhere, !.ready = b, !.head = h]
      BY <2>1, <3>1, Zenon
    <3> QED
      BY <1>0, <1>way, <3>1, <3>2, PhoneEdits
  <2>3. phone'.link = l /\ phone'.session = phone.session
    BY <2>1 DEF PhoneState
  <2>4. LogGrows /\ log' \in [Sessions -> Seq(Touch)]
    BY <1>9, <2>2, <2>3, LogRests
  <2>5. PhoneInv'
    BY <2>3 DEF PhoneInv
  <2> QED
    BY <1>9, <2>2, <2>4, <2>5, <1>net, PhoneStep
<1>10. CASE PhoneTimesOut
  <2>1. UNCHANGED spent \/ Spend("faults")
    BY <1>10 DEF PhoneTimesOut, Fault
  <2>2. Accounted
    BY <2>1, Pays
  <2> QED
    BY <1>9, <1>10, <2>2 DEF PhoneTimesOut
<1>11. CASE PhoneQuits
  <2>1. Accounted
    BY <1>11, Pays DEF PhoneQuits
  <2> QED
    BY <1>9, <1>11, <2>1 DEF PhoneQuits
<1>12. \A n \in 0 .. (MaxFrames + MaxTouches) : n \in Nat
  BY BoundAssumption
<1> QED
  BY <1>1, <1>3, <1>4, <1>5, <1>6, <1>7, <1>8, <1>10, <1>11, <1>12 DEF PhoneNext

------------------------------------------------------------------------------
(* The assignments of the host stay in its type.                           *)
LEMMA HostEdits ==
    ASSUME NEW h \in HostState
    PROVE  /\ \A b \in BOOLEAN : [h EXCEPT !.stopping = b] \in HostState
           /\ \A s \in 0 .. MaxSessions : [h EXCEPT !.session = s] \in HostState
           /\ \A s \in 0 .. MaxSessions : [h EXCEPT !.hello = s] \in HostState
           /\ \A w \in Ways : [h EXCEPT !.via = w] \in HostState
           /\ \A p \in {"outer", "serving"} : [h EXCEPT !.phase = p] \in HostState
<1>1. ASSUME NEW b \in BOOLEAN PROVE [h EXCEPT !.stopping = b] \in HostState
  BY DEF HostState
<1>2. ASSUME NEW s \in 0 .. MaxSessions PROVE [h EXCEPT !.session = s] \in HostState
  BY DEF HostState
<1>3. ASSUME NEW s \in 0 .. MaxSessions PROVE [h EXCEPT !.hello = s] \in HostState
  BY DEF HostState
<1>4. ASSUME NEW w \in Ways PROVE [h EXCEPT !.via = w] \in HostState
  BY DEF HostState
<1>5. ASSUME NEW p \in {"outer", "serving"} PROVE [h EXCEPT !.phase = p] \in HostState
  BY DEF HostState
<1> QED
  BY <1>1, <1>2, <1>3, <1>4, <1>5

(* read() pushes a frame that its session said: the window stays or starts *)
(* with that very frame under the cursor.                                  *)
LEMMA Pushes ==
    ASSUME IInv, NEW m \in toHost, m.kind = "FRAME", UNCHANGED <<phone, log, applied>>, Accounted,
           ordered' = Push(ordered, FrameOf(m))
    PROVE  /\ ordered' \in Window /\ WindowInv'
           /\ \/ ordered'.session = ordered.session /\ ordered'.next = ordered.next
              \/ ordered'.session = m.session /\ NextReady(ordered)'
<1> USE Types
<1> DEFINE f == FrameOf(m)
<1>1. /\ m \in UpRecord /\ m.session \in Opened /\ Said(m.session, m.sequence, m.touch)
      /\ m.sequence > 0 /\ spent.restarts = 0 => 0 \in applied[m.session]
  BY DEF IInv, NetInv
<1>2. /\ f \in Frame /\ f.session = m.session /\ f.sequence = m.sequence /\ f.touch = m.touch
      /\ (f.start <=> m.sequence = 0)
  <2>1. PICK b \in BOOLEAN : b = (m.sequence = 0)
    OBVIOUS
  <2>2. f = [session |-> m.session, sequence |-> m.sequence, start |-> b, touch |-> m.touch]
    BY <2>1 DEF FrameOf
  <2>3. m.session \in SessionIds /\ m.sequence \in Nat /\ m.touch \in Touch
    BY <1>1 DEF SessionIds, UpRecord, Sessions, NoSession
  <2>4. f \in Frame
    BY <2>2, <2>3 DEF Frame
  <2>5. f.session = m.session /\ f.sequence = m.sequence /\ f.touch = m.touch /\ f.start = b
    BY <2>2
  <2>6. f.start <=> m.sequence = 0
    BY <2>1, <2>5, Zenon
  <2> QED
    BY <2>4, <2>5, <2>6
<1> HIDE DEF f
<1>3. ordered' = Push(ordered, f) /\ ordered' \in Window
  BY <1>2, PushType DEF f
<1>4. CASE Refuses(ordered, f)
  <2>1. ordered' = ordered
    BY <1>3, <1>4 DEF Push
  <2> QED
    BY <1>3, <2>1 DEF IInv, WindowInv, Said, Opened, Accounted
<1>5. CASE ordered.session = f.session
  <2>1. /\ ordered'.session = ordered.session /\ ordered'.next = ordered.next
        /\ \A i \in Slots : ordered'.buffered[i] \in {ordered.buffered[i], f}
    BY <1>2, <1>3, <1>5, PushAdds
  <2>2. WindowInv'
    <3>1. ordered.session # NoSession
      BY <1>2, <1>5 DEF Frame, SessionIds
    <3>2. \A i \in Slots : ordered'.buffered[i] # NoFrame =>
            /\ ordered'.buffered[i].session = ordered'.session
            /\ Said(ordered'.session, ordered'.buffered[i].sequence, ordered'.buffered[i].touch)
      BY <1>1, <1>2, <1>5, <2>1 DEF IInv, WindowInv
    <3>3. /\ ordered.session \in {NoSession} \cup Opened
          /\ ordered.next <= Len(log[ordered.session])
          /\ spent.restarts = 0 => 0 .. (ordered.next - 1) \subseteq applied[ordered.session]
      BY <3>1 DEF IInv, WindowInv
    <3> QED
      BY <2>1, <3>1, <3>2, <3>3 DEF WindowInv, Said, Opened, Accounted
  <2> QED
    BY <1>3, <2>1, <2>2
<1>6. CASE ~Refuses(ordered, f) /\ ordered.session # f.session
  <2>1. Joined(ordered, f) = BeginSession(f)
    BY <1>6 DEF Joined
  <2>2. SlotOf(f.sequence) \in Slots /\ f.sequence \in Nat
    BY <1>2, SlotOfType DEF Frame
  <2>3. Fits(BeginSession(f), f)
    BY <2>2, RingAssumption DEF Fits, BeginSession, EmptyRing
  <2>4. ordered' = Buffered(BeginSession(f), f)
    BY <1>3, <1>6, <2>1, <2>3 DEF Push
  <2>5. /\ ordered'.session = f.session /\ ordered'.next = f.sequence /\ ~ordered'.requires
        /\ ordered'.buffered = [EmptyRing EXCEPT ![SlotOf(f.sequence)] = f]
    BY <2>4 DEF Buffered, BeginSession
  <2>6. /\ ordered'.buffered[SlotOf(f.sequence)] = f
        /\ \A i \in Slots : ordered'.buffered[i] \in {NoFrame, f}
    BY <2>2, <2>5 DEF EmptyRing
  <2>7. NextReady(ordered)'
    BY <1>2, <2>5, <2>6, NoFrameAssumption DEF NextReady, HeadFrame
  <2>8. spent.restarts = 0 => 0 .. (f.sequence - 1) \subseteq applied[f.session]
    <3>1. CASE f.start
      <4>1. 0 .. (f.sequence - 1) = {}
        BY <1>2, <3>1
      <4> QED
        BY <4>1
    <3>2. CASE ~f.start
      <4>1. ordered.session = NoSession /\ ~ordered.requires
        BY <1>6, <3>2 DEF Refuses
      <4>2. spent.restarts = 0 => applied[m.session] = {}
        BY <4>1, <1>1 DEF IInv, WindowInv, UpRecord
      <4>3. m.sequence > 0
        BY <1>1, <1>2, <3>2 DEF UpRecord
      <4> QED
        BY <1>1, <4>2, <4>3
    <3> QED
      BY <3>1, <3>2
  <2>9. WindowInv'
    <3>1. ordered'.session # NoSession
      BY <1>2, <2>5 DEF Frame, SessionIds
    <3>2. \A i \in Slots : ordered'.buffered[i] # NoFrame =>
            /\ ordered'.buffered[i].session = ordered'.session
            /\ Said(ordered'.session, ordered'.buffered[i].sequence, ordered'.buffered[i].touch)
      BY <1>1, <1>2, <2>5, <2>6
    <3>3. f.sequence <= Len(log[f.session])
      <4>1. m.session \in Sessions
        BY <1>1 DEF UpRecord
      <4>2. Len(log[m.session]) \in Nat
        BY <4>1
      <4> QED
        BY <1>1, <1>2, <2>2, <4>2 DEF Said
    <3> QED
      BY <1>1, <1>2, <2>5, <2>8, <3>1, <3>2, <3>3 DEF WindowInv, Said, Opened, Accounted
  <2> QED
    BY <1>2, <1>3, <2>5, <2>7, <2>9
<1> QED
  BY <1>4, <1>5, <1>6

(* Every step of the host keeps the invariant.                             *)
LEMMA HostKeeps == IInv /\ HostNext => IInv'
<1> SUFFICES ASSUME IInv, HostNext PROVE IInv'
  OBVIOUS
<1> USE Types
<1>h. /\ HostInv /\ SeenInv /\ NoTouch \in Touch /\ host.session \in 0 .. MaxSessions
      /\ host.held \in Touch \cup {Partial} /\ Partial \in Touch \cup {Partial}
  BY TouchAssumption DEF IInv, HostState
<1>old. \A m \in toPhone : m \in DownRecord
  OBVIOUS
<1>found. ASSUME NEW m \in toHost
          PROVE  Answer("FOUND", m.session, NoAck) \in DownRecord
  BY DEF Answer, DownRecord, UpRecord, NoAck
<1>1. CASE HostSearches
  <2>1. host' = [host EXCEPT !.phase = "discovery", !.held = NoTouch]
    BY <1>1 DEF HostSearches
  <2>2. /\ host' \in HostState /\ host'.phase = "discovery" /\ host'.held = NoTouch
        /\ host'.via = host.via
    BY <2>1, <1>h DEF HostState
  <2>3. /\ UNCHANGED <<phone, log, adapter, ordered, applied, seen, toHost, toPhone, spent>>
        /\ host.phase = "outer"
    BY <1>1 DEF HostSearches, phoneStays, phoneSide, histories
  <2>4. HostInv' /\ SeenInv'
    BY <2>2, <2>3, <1>h DEF HostInv, SeenInv
  <2> QED
    BY <2>2, <2>3, <2>4, <1>old, Pays, HostRests
<1>2. CASE HostReleaseRefused
  <2>1. PICK held \in {host.held, Partial} : host' = [host EXCEPT !.held = held]
    BY <1>2 DEF HostReleaseRefused
  <2>2. host' \in HostState /\ host'.phase = host.phase /\ host'.via = host.via
    BY <2>1, <1>h DEF HostState
  <2>3. /\ UNCHANGED <<phone, log, adapter, ordered, applied, seen, toHost, toPhone, spent>>
        /\ host.phase = "outer"
    BY <1>2 DEF HostReleaseRefused, phoneStays, phoneSide, histories
  <2>4. HostInv' /\ SeenInv'
    BY <2>2, <2>3, <1>h DEF HostInv, SeenInv
  <2> QED
    BY <2>2, <2>3, <2>4, <1>old, Pays, HostRests
<1>3. CASE HostServes
  <2>1. host' = [host EXCEPT !.phase = "serving", !.hello = NoSession]
    BY <1>3 DEF HostServes
  <2>2. /\ host' \in HostState /\ host'.phase = "serving" /\ host'.via = host.via
        /\ host'.held = host.held /\ host'.session = host.session
    <3>1. PICK h : h = [host EXCEPT !.phase = "serving"]
      OBVIOUS
    <3>2. NoSession \in 0 .. MaxSessions /\ Nowhere \in Ways
      BY DEF NoSession, Ways
    <3>3. h \in HostState
      BY <3>1, HostEdits, Zenon
    <3>4. host' = [h EXCEPT !.hello = NoSession]
      BY <2>1, <3>1, Zenon
    <3>5. host' \in HostState
      BY <3>2, <3>3, <3>4, HostEdits, Zenon
    <3> QED
      BY <2>1, <3>5 DEF HostState
  <2>3. /\ UNCHANGED <<phone, log, adapter, ordered, applied, seen, toHost, toPhone, spent>>
        /\ host.phase = "found"
    BY <1>3 DEF HostServes, phoneStays, phoneSide, histories
  <2>4. HostInv' /\ SeenInv'
    BY <2>2, <2>3, <1>h DEF HostInv, SeenInv, Settled
  <2> QED
    BY <2>2, <2>3, <2>4, <1>old, Pays, HostRests
<1>4. CASE HostRejectsPeer
  <2>1. host' = [host EXCEPT !.phase = "outer"] /\ (UNCHANGED spent \/ Spend("faults"))
    BY <1>4 DEF HostRejectsPeer, Fault
  <2>2. host' \in HostState /\ host'.phase = "outer" /\ host'.via = host.via
    BY <2>1, <1>h DEF HostState
  <2>3. /\ UNCHANGED <<phone, log, adapter, ordered, applied, seen, toHost, toPhone>>
        /\ host.phase = "found" /\ Accounted
    BY <1>4, <2>1, Pays DEF HostRejectsPeer, phoneStays, phoneSide, histories
  <2>4. HostInv' /\ SeenInv'
    BY <2>2, <2>3, <1>h DEF HostInv, SeenInv
  <2> QED
    BY <2>2, <2>3, <2>4, <1>old, HostRests
<1>5. ASSUME NEW m \in toHost, HostConnects(m) PROVE IInv'
  <2>1. host' = [host EXCEPT !.phase = "found", !.session = m.session, !.via = m.via]
    BY <1>5 DEF HostConnects
  <2>2. /\ m.session \in Sessions /\ m.session \in 0 .. MaxSessions /\ m.via \in Ways
        /\ m.session # NoSession
    BY DEF UpRecord, Sessions, Ways, NoSession
  <2>3. /\ host' \in HostState /\ host'.phase = "found" /\ host'.session = m.session
        /\ host'.held = host.held
    BY <2>1, <2>2 DEF HostState
  <2>4. /\ UNCHANGED <<phone, log, adapter, ordered, applied, seen>>
        /\ host.phase = "discovery" /\ toHost' \subseteq toHost /\ Accounted
    BY <1>5, Takes DEF HostConnects, phoneStays, phoneSide, histories
  <2>5. HostInv' /\ SeenInv'
    BY <2>2, <2>3, <2>4, <1>h DEF HostInv, SeenInv
  <2>6. toPhone' \subseteq DownRecord /\ \A x \in toPhone' : x \in toPhone \/ x.kind = "FOUND"
    BY <1>5, <1>found, <1>old DEF HostConnects, Answer
  <2> QED
    BY <2>3, <2>4, <2>5, <2>6, HostRests
<1>6. ASSUME NEW m \in toHost, HostHearsHello(m) PROVE IInv'
  <2>1. PICK x : x = IF m.session = host.session THEN host.hello ELSE NoSession
    OBVIOUS
  <2>2. host' = [host EXCEPT !.session = m.session, !.hello = x]
    BY <1>6, <2>1 DEF HostHearsHello
  <2>3. /\ m.session \in Sessions /\ m.session \in 0 .. MaxSessions /\ x \in 0 .. MaxSessions
        /\ m.session # NoSession
    BY <2>1 DEF UpRecord, Sessions, NoSession, HostState
  <2>4. /\ host' \in HostState /\ host'.phase = host.phase /\ host'.session = m.session
        /\ host'.held = host.held /\ host'.via = host.via
    BY <2>2, <2>3 DEF HostState
  <2>5. /\ UNCHANGED <<phone, log, adapter>> /\ toHost' \subseteq toHost /\ Accounted
        /\ host.phase = "serving" /\ host.held = NoTouch
    BY <1>6, Takes DEF HostHearsHello, phoneStays, phoneSide, Arrives
  <2>6. toPhone' \subseteq DownRecord /\ \A y \in toPhone' : y \in toPhone \/ y.kind = "FOUND"
    BY <1>6, <1>found, <1>old DEF HostHearsHello, Answer
  <2>7. CASE m.session = host.session
    <3>1. UNCHANGED <<ordered, applied, seen>>
      BY <1>6, <2>7 DEF HostHearsHello, histories
    <3>2. HostInv' /\ SeenInv'
      BY <2>3, <2>4, <2>5, <3>1, <1>h DEF HostInv, SeenInv, Settled
    <3> QED
      BY <2>4, <2>5, <2>6, <3>1, <3>2, HostRests
  <2>8. CASE m.session # host.session
    <3>1. GiveUpWindow
      BY <1>6, <2>8 DEF HostHearsHello
    <3> QED
      BY <2>3, <2>4, <2>5, <2>6, <3>1, HostGivesUp
  <2> QED
    BY <2>7, <2>8
<1>7. ASSUME NEW held \in {host.held, Partial}, NEW phase \in {"failed", "stopped"},
             host' = [host EXCEPT !.phase = phase, !.held = held]
             \/ host' = [host EXCEPT !.phase = phase],
             UNCHANGED <<phone, log, adapter, ordered, applied, seen, toPhone>>, Accounted,
             toHost' \subseteq toHost
      PROVE  IInv'
  <2>1. host' \in HostState /\ host'.phase = phase /\ host'.via = host.via
    BY <1>7, <1>h DEF HostState
  <2>2. HostInv' /\ SeenInv'
    BY <1>7, <2>1, <1>h DEF HostInv, SeenInv
  <2> QED
    BY <1>7, <2>1, <2>2, <1>old, HostRests
<1>8. ASSUME NEW m \in toHost, HostDoubtsHello(m) PROVE IInv'
  <2>1. /\ UNCHANGED <<phone, log, adapter, ordered, applied, seen, toPhone>>
        /\ host' = [host EXCEPT !.phase = "failed"] /\ toHost' \subseteq toHost /\ Accounted
    BY <1>8, Takes DEF HostDoubtsHello, phoneStays, phoneSide, histories
  <2> QED
    BY <1>7, <2>1
<1>9. ASSUME NEW m \in toHost, HostHearsFrame(m) PROVE IInv'
  <2>1. /\ m.kind = "FRAME" /\ ordered' = Push(ordered, FrameOf(m)) /\ m.via = host.via
        /\ host.phase = "serving" /\ host' = [host EXCEPT !.phase = "committing"]
        /\ UNCHANGED <<phone, log, adapter, applied, toPhone>> /\ Taken(toHost, toHost', m)
    BY <1>9 DEF HostHearsFrame, Arrives, phoneStays, phoneSide
  <2>2. /\ host' \in HostState /\ host'.phase = "committing" /\ host'.via = host.via
        /\ host'.held = host.held /\ host'.session = host.session
    BY <2>1 DEF HostState
  <2>3. toHost' \subseteq toHost /\ Accounted
    BY <2>1, Takes
  <2>4. /\ ordered' \in Window /\ WindowInv'
        /\ \/ ordered'.session = ordered.session /\ ordered'.next = ordered.next
           \/ ordered'.session = m.session /\ NextReady(ordered)'
    BY <2>1, <2>3, Pushes
  <2>5. seen' \subseteq {host.via} /\ seen' \subseteq Adapters
    <3>1. m.via \in Adapters /\ seen \subseteq {host.via}
      BY <1>h DEF UpRecord, SeenInv
    <3>2. seen' \subseteq seen \cup {m.via}
      BY <1>9 DEF HostHearsFrame
    <3> QED
      BY <2>1, <3>1, <3>2
  <2>6. HostInv'
    <3>1. Settled /\ host.session # NoSession
      BY <2>1, <1>h DEF HostInv
    <3>2. Settled' \/ NextReady(ordered)'
      BY <2>1, <2>2, <2>4, <3>1 DEF Settled
    <3> QED
      BY <2>2, <3>1, <3>2 DEF HostInv
  <2>7. SeenInv'
    BY <2>2, <2>5 DEF SeenInv
  <2>8. toPhone' = toPhone /\ applied' = applied
    BY <2>1
  <2> QED
    BY <2>1, <2>2, <2>3, <2>4, <2>5, <2>6, <2>7, <2>8, <1>old, HostStep
<1>10. ASSUME NEW m \in toHost, HostSkips(m) PROVE IInv'
  <2>1. UNCHANGED <<phone, log, adapter, host, ordered, applied, seen, toPhone, spent>>
        /\ toHost' \subseteq toHost
    BY <1>10 DEF HostSkips, phoneStays, phoneSide, hostSide, histories
  <2>2. HostInv' /\ SeenInv'
    BY <2>1, <1>h DEF HostInv, SeenInv, Settled, NextReady, HeadFrame
  <2> QED
    BY <2>1, <2>2, <1>old, Pays, HostRests
<1>11. CASE HostCommits
  <2> DEFINE f == HeadFrame(ordered)
             s == ordered.session
             n == ordered.next
  <2>1. /\ host.phase = "committing" /\ f # NoFrame /\ f.sequence = n
        /\ host' = [host EXCEPT !.held = f.touch]
        /\ applied' = [applied EXCEPT ![s] = applied[s] \cup {n}]
        /\ ordered' = CommitReady(ordered)
        /\ UNCHANGED <<phone, log, adapter, seen, toHost, toPhone, spent>>
    BY <1>11 DEF HostCommits, NextReady, phoneStays, phoneSide
  <2>2. /\ n \in Nat /\ SlotOf(n) \in Slots /\ f = ordered.buffered[SlotOf(n)] /\ f \in Frame
    BY <2>1, SlotOfType DEF HeadFrame, Window
  <2>3. f.session = s /\ Said(s, n, f.touch) /\ s # NoSession /\ f.touch \in Touch
    BY <2>1, <2>2 DEF IInv, WindowInv, Frame, SessionIds
  <2>4. s \in Opened /\ s \in Sessions /\ n < Len(log[s]) /\ f.touch = log[s][n + 1]
        /\ Len(log[s]) \in Nat
    <3>1. s \in Opened /\ n < Len(log[s]) /\ f.touch = log[s][n + 1]
      BY <2>3 DEF Said
    <3>2. s \in Sessions
      BY <3>1 DEF Opened, Sessions, PhoneState
    <3> QED
      BY <3>1, <3>2
  <2>5. /\ ordered'.session = s /\ ordered'.next = n + 1
        /\ \A i \in Slots : ordered'.buffered[i] \in {NoFrame, ordered.buffered[i]}
    BY <2>1, <2>2 DEF CommitReady, Window
  <2>6. ordered' \in Window
    BY <2>1, CommitReadyType
  <2>7. /\ applied' \in [Sessions -> SUBSET Nat] /\ applied'[s] = applied[s] \cup {n}
        /\ \A q \in Sessions : applied[q] \subseteq applied'[q]
    BY <2>1, <2>2, <2>4
  <2>8. /\ host' \in HostState /\ host'.held = f.touch /\ host'.phase = "committing"
        /\ host'.via = host.via /\ host'.session = host.session
    BY <2>1, <2>3 DEF HostState
  <2>9. WindowInv'
    <3>1. \A i \in Slots : ordered'.buffered[i] # NoFrame =>
            /\ ordered'.buffered[i].session = s
            /\ Said(s, ordered'.buffered[i].sequence, ordered'.buffered[i].touch)
      BY <2>5 DEF IInv, WindowInv
    <3>2. n + 1 <= Len(log[s])
      BY <2>2, <2>4
    <3>3. spent.restarts = 0 => 0 .. ((n + 1) - 1) \subseteq applied'[s]
      <4>1. spent.restarts = 0 => 0 .. (n - 1) \subseteq applied[s]
        BY <2>3 DEF IInv, WindowInv
      <4>2. 0 .. ((n + 1) - 1) = (0 .. (n - 1)) \cup {n}
        BY <2>2
      <4> QED
        BY <2>7, <4>1, <4>2
    <3> HIDE DEF f, s, n
    <3> QED
      BY <2>1, <2>3, <2>4, <2>5, <3>1, <3>2, <3>3 DEF WindowInv, Said, Opened
  <2>10. HostInv'
    <3>1. Settled'
      BY <2>1, <2>2, <2>3, <2>4, <2>5, <2>8 DEF Settled
    <3> QED
      BY <2>1, <2>8, <3>1, <1>h DEF HostInv
  <2>11. SeenInv'
    BY <2>1, <2>8, <1>h DEF SeenInv
  <2>12. Accounted
    BY <2>1, Pays
  <2> HIDE DEF f, s, n
  <2> QED
    BY <2>1, <2>6, <2>7, <2>8, <2>9, <2>10, <2>11, <2>12, <1>old, HostStep
<1>12. CASE HostSinkRefuses
  <2>1. /\ UNCHANGED <<phone, log, adapter, ordered, applied, seen, toPhone, toHost>>
        /\ Accounted
    BY <1>12, Pays DEF HostSinkRefuses, phoneStays, phoneSide, histories
  <2>2. PICK held \in {host.held, Partial} : host' = [host EXCEPT !.phase = "failed", !.held = held]
    BY <1>12 DEF HostSinkRefuses
  <2> QED
    BY <1>7, <2>1, <2>2
<1>13. CASE HostAnswers
  <2> DEFINE a == Answer(IF host.hello = ordered.session THEN "ACK" ELSE "HELLO", ordered.session,
                         AcknowledgedSequence(ordered))
  <2>1. /\ host.phase = "committing" /\ ~NextReady(ordered) /\ ordered.session = host.session
        /\ host' = [host EXCEPT !.phase = "serving", !.hello = ordered.session]
        /\ toPhone' = toPhone \cup {a}
        /\ UNCHANGED <<phone, log, adapter, ordered, applied, seen, toHost, spent>>
    BY <1>13 DEF HostAnswers, phoneStays, phoneSide, histories
  <2>2. Settled /\ ordered.session # NoSession /\ ordered.session \in 0 .. MaxSessions
    BY <2>1, <1>h DEF HostInv
  <2>3. ordered.next \in Nat /\ ordered.next > 0 /\ ordered.session \in Sessions
    BY <2>2 DEF Settled, Window, Sessions, NoSession
  <2>4. /\ a \in DownRecord /\ a.session = ordered.session /\ a.ack = ordered.next - 1
    BY <2>3 DEF Answer, AcknowledgedSequence, DownRecord
  <2>5. a.ack >= 0 /\ (spent.restarts = 0 => 0 .. a.ack \subseteq applied[a.session])
    BY <2>2, <2>3, <2>4 DEF IInv, WindowInv
  <2>6. /\ host' \in HostState /\ host'.held = host.held /\ host'.phase = "serving"
        /\ host'.via = host.via /\ host'.session = host.session
    BY <2>1, <2>2 DEF HostState
  <2>7. HostInv' /\ SeenInv'
    BY <2>1, <2>2, <2>6, <1>h DEF HostInv, SeenInv, Settled
  <2> HIDE DEF a
  <2>8. toPhone' \subseteq DownRecord /\ Accounted
    BY <2>1, <2>4, Pays
  <2>9. \A m \in toPhone' : m \in toPhone \/ m.kind = "FOUND" \/
          /\ m.ack >= 0
          /\ spent'.restarts = 0 => 0 .. m.ack \subseteq applied[m.session]
    BY <2>1, <2>5
  <2> QED
    BY <2>1, <2>6, <2>7, <2>8, <2>9, HostRests
<1>14. CASE HostIsSilent
  <2>1. /\ host.phase = "committing" /\ ~NextReady(ordered)
        /\ host' = [host EXCEPT !.phase = "serving"]
        /\ UNCHANGED <<phone, log, adapter, ordered, applied, seen, toHost, toPhone, spent>>
    BY <1>14 DEF HostIsSilent, phoneStays, phoneSide, histories
  <2>2. /\ host' \in HostState /\ host'.held = host.held /\ host'.phase = "serving"
        /\ host'.via = host.via /\ host'.session = host.session
    BY <2>1 DEF HostState
  <2>3. HostInv' /\ SeenInv'
    BY <2>1, <2>2, <1>h DEF HostInv, SeenInv, Settled
  <2> QED
    BY <2>1, <2>2, <2>3, <1>old, Pays, HostRests
<1>15. CASE HostTimesOut
  <2>1. UNCHANGED spent \/ Spend("faults")
    BY <1>15 DEF HostTimesOut, Fault
  <2>2. /\ UNCHANGED <<phone, log, adapter, ordered, applied, seen, toPhone, toHost>> /\ Accounted
        /\ host' = [host EXCEPT !.phase = "failed"]
    BY <1>15, <2>1, Pays DEF HostTimesOut, phoneStays, phoneSide, histories
  <2> QED
    BY <1>7, <2>2
<1>16. CASE HostRecovers
  <2>1. /\ GiveUpWindow /\ UNCHANGED <<phone, log, adapter, toHost, toPhone>>
        /\ (UNCHANGED spent \/ Spend("faults"))
        /\ \E held \in {host.held, Partial, NoTouch} :
             host' = [host EXCEPT !.phase = "outer", !.held = held]
    BY <1>16 DEF HostRecovers, phoneStays, phoneSide
  <2>2. PICK held \in {host.held, Partial, NoTouch} :
          host' = [host EXCEPT !.phase = "outer", !.held = held]
    BY <2>1
  <2>3. host' \in HostState /\ host'.phase = "outer"
    BY <2>2, <1>h DEF HostState
  <2>4. Accounted
    BY <2>1, Pays
  <2> QED
    BY <2>1, <2>3, <2>4, <1>old, HostGivesUp
<1>17. ASSUME UNCHANGED <<phone, log, adapter, ordered, applied, seen, toPhone, toHost>>, Accounted,
              host' = [host EXCEPT !.phase = "stopped", !.held = NoTouch]
              \/ host' = [host EXCEPT !.phase = "stopped"]
       PROVE  IInv'
  <2>1. host' \in HostState /\ host'.phase = "stopped" /\ host'.via = host.via
    BY <1>17, <1>h DEF HostState
  <2>2. HostInv' /\ SeenInv'
    BY <1>17, <2>1, <1>h DEF HostInv, SeenInv
  <2> QED
    BY <1>17, <2>1, <2>2, <1>old, HostRests
<1>18. CASE HostStops
  <2>1. UNCHANGED spent \/ Spend("faults")
    BY <1>18 DEF HostStops
  <2>2. Accounted
    BY <2>1, Pays
  <2> QED
    BY <1>17, <1>18, <2>2 DEF HostStops, phoneStays, phoneSide, histories
<1>19. CASE HostPolicyFails
  <2>1. Accounted
    BY <1>19, Pays DEF HostPolicyFails
  <2> QED
    BY <1>17, <1>19, <2>1 DEF HostPolicyFails, phoneStays, phoneSide, histories
<1>20. CASE RequestStop
  <2>1. /\ host' = [host EXCEPT !.stopping = TRUE]
        /\ UNCHANGED <<phone, log, adapter, ordered, applied, seen, toHost, toPhone, spent>>
    BY <1>20 DEF RequestStop, phoneStays, phoneSide, histories
  <2>2. host' \in HostState
    BY <2>1, HostEdits, Zenon
  <2>3. /\ host'.held = host.held /\ host'.phase = host.phase
        /\ host'.via = host.via /\ host'.session = host.session
    BY <2>1 DEF HostState
  <2>4. HostInv' /\ SeenInv'
    BY <2>1, <2>3, <1>h DEF HostInv, SeenInv, Settled, NextReady, HeadFrame
  <2> QED
    BY <2>1, <2>2, <2>4, <1>old, Pays, HostRests
<1>21. CASE HostStarts
  <2>1. /\ host' = [host EXCEPT !.phase = "outer", !.session = NoSession, !.via = Nowhere,
                                !.hello = NoSession, !.stopping = FALSE]
        /\ ordered' = NewWindow /\ seen' = {} /\ Spend("restarts")
        /\ UNCHANGED <<phone, log, adapter, applied, toHost, toPhone>>
    BY <1>21 DEF HostStarts, phoneStays, phoneSide
  <2>2. PICK h : h = [host EXCEPT !.phase = "outer", !.session = NoSession, !.via = Nowhere,
                                  !.hello = NoSession]
    OBVIOUS
  <2>3. h \in HostState /\ h.phase = "outer"
    <3>1. PICK g : g = [host EXCEPT !.phase = "outer"]
      OBVIOUS
    <3>2. PICK i : i = [g EXCEPT !.session = NoSession]
      OBVIOUS
    <3>3. PICK j : j = [i EXCEPT !.via = Nowhere]
      OBVIOUS
    <3>4. NoSession \in 0 .. MaxSessions /\ Nowhere \in Ways
      BY DEF NoSession, Ways
    <3>5. g \in HostState
      BY <3>1, HostEdits, Zenon
    <3>6. i \in HostState
      BY <3>2, <3>4, <3>5, HostEdits, Zenon
    <3>7. j \in HostState
      BY <3>3, <3>4, <3>6, HostEdits, Zenon
    <3>8. h = [j EXCEPT !.hello = NoSession]
      BY <2>2, <3>1, <3>2, <3>3, Zenon
    <3>9. h \in HostState
      BY <3>4, <3>7, <3>8, HostEdits, Zenon
    <3> QED
      BY <2>2, <3>9 DEF HostState
  <2>4. host' = [h EXCEPT !.stopping = FALSE]
    BY <2>1, <2>2, Zenon
  <2>5. host' \in HostState
    BY <2>3, <2>4, HostEdits, Zenon
  <2>6. host'.phase = "outer"
    BY <2>3, <2>4 DEF HostState
  <2>7. /\ ordered'.session = NoSession
        /\ \A i \in Slots : ordered'.buffered[i] = NoFrame
    BY <2>1 DEF NewWindow, EmptyRing
  <2>8. Accounted /\ spent'.restarts # 0
    <3>1. spent.restarts \in Nat /\ spent'.restarts = spent.restarts + 1
      BY <2>1 DEF Spend, Count, Accounts, Troubles
    <3> QED
      BY <2>1, <3>1, Pays
  <2>9. WindowInv'
    BY <2>7, <2>8 DEF WindowInv
  <2>10. HostInv' /\ SeenInv'
    BY <2>1, <2>6, <2>7 DEF HostInv, SeenInv
  <2> QED
    BY <2>1, <2>5, <2>8, <2>9, <2>10, <1>old, FreshWindowType, HostStep
<1> QED
  BY <1>1, <1>2, <1>3, <1>4, <1>5, <1>6, <1>8, <1>9, <1>10, <1>11, <1>12, <1>13, <1>14, <1>15,
     <1>16, <1>18, <1>19, <1>20, <1>21 DEF HostNext

(* Nothing was opened, sent or applied at the start.                       *)
LEMMA IInvInit == Init => IInv
<1> SUFFICES ASSUME Init PROVE IInv
  OBVIOUS
<1> USE DEF Init
<1>1. MaxSessions \in Nat /\ MaxTrouble \in Nat /\ NoTouch \in Touch
  BY BoundAssumption, TouchAssumption
<1>2. TypeOK
  <2>1. /\ phone \in PhoneState /\ host \in HostState
    BY <1>1 DEF PhoneState, HostState, Ways, NoSession
  <2>2. log \in [Sessions -> Seq(Touch)] /\ applied \in [Sessions -> SUBSET Nat]
        /\ spent \in Accounts
    BY DEF Accounts
  <2>3. adapter \in Adapters
    BY <1>1 DEF Adapters
  <2> QED
    BY <2>1, <2>2, <2>3, FreshWindowType
    DEF TypeOK, PhoneState, HostState, Ways, Accounts
<1>3. BudgetInv
  BY <1>1 DEF BudgetInv, Troubles
<1>4. PhoneInv /\ NetInv /\ SeenInv
  BY DEF PhoneInv, NetInv, SeenInv
<1>5. ordered.session = NoSession /\ \A i \in Slots : ordered.buffered[i] = NoFrame
  BY DEF NewWindow, EmptyRing
<1>6. WindowInv /\ HostInv
  BY <1>5 DEF WindowInv, HostInv
<1> QED
  BY <1>2, <1>3, <1>4, <1>6 DEF IInv

(* The path and the cable.                                                 *)
LEMMA IInvNext == IInv /\ [Next]_vars => IInv'
<1> SUFFICES ASSUME IInv, [Next]_vars PROVE IInv'
  OBVIOUS
<1> USE Types
<1>1. CASE Replug
  <2>1. /\ Spend("replugs") /\ adapter' = adapter + 1
        /\ UNCHANGED <<log, host, ordered, applied, seen, toHost, toPhone>>
    BY <1>1 DEF Replug, hostSide, histories
  <2>2. /\ spent.faults \in Nat /\ spent.duplicates \in Nat
        /\ spent.replugs \in Nat /\ spent.restarts \in Nat
    BY DEF Accounts, Troubles
  <2>3. /\ spent' \in Accounts /\ spent'.replugs = spent.replugs + 1
        /\ spent'.faults = spent.faults /\ spent'.duplicates = spent.duplicates
        /\ spent'.restarts = spent.restarts
    BY <2>1 DEF Spend, Count, Accounts, Troubles
  <2>4. BudgetInv' /\ adapter' \in Adapters
    <3>1. /\ spent.faults + spent.duplicates + spent.replugs + spent.restarts < MaxTrouble
          /\ adapter = spent.replugs + 1
      BY <2>1 DEF IInv, BudgetInv, Spend
    <3>2. spent'.faults + spent'.duplicates + spent'.replugs + spent'.restarts <= MaxTrouble
      BY <2>2, <2>3, <3>1
    <3>3. adapter' = spent'.replugs + 1
      BY <2>1, <2>3, <3>1
    <3>4. adapter' \in 1 .. (MaxTrouble + 1)
      <4>1. spent.replugs + 1 <= MaxTrouble
        BY <2>2, <3>1
      <4> QED
        BY <2>2, <2>3, <3>3, <4>1
    <3> QED
      BY <3>2, <3>3, <3>4 DEF BudgetInv, Adapters
  <2>5. /\ phone' \in PhoneState /\ phone'.link = phone.link /\ phone'.session = phone.session
        /\ phone'.head = phone.head /\ phone'.ready = phone.ready
    <3>1. phone' = phone \/ \E w \in Ways : phone' = [phone EXCEPT !.pinned = w]
      <4>1. phone.pinned \in Ways /\ adapter + 1 \in Ways
        BY <2>1, <2>4 DEF PhoneState, Ways
      <4> QED
        BY <1>1, <4>1 DEF Replug
    <3> QED
      BY <3>1 DEF PhoneState
  <2>6. TypeOK'
    BY <2>1, <2>3, <2>4, <2>5
    DEF TypeOK, PhoneState, HostState, UpRecord, DownRecord, Accounts, Ways
  <2>7. PhoneInv' /\ NetInv' /\ WindowInv'
    BY <2>1, <2>3, <2>5 DEF IInv, PhoneInv, NetInv, WindowInv, Said, Opened
  <2>8. HostInv' /\ SeenInv'
    BY <2>1 DEF IInv, HostInv, SeenInv, Settled, NextReady, HeadFrame
  <2> QED
    BY <2>4, <2>6, <2>7, <2>8 DEF IInv
<1>2. ASSUME UNCHANGED <<phoneSide, hostSide, adapter>>, Accounted,
             toHost' \subseteq toHost, toPhone' \subseteq toPhone
      PROVE  IInv'
  <2>1. UNCHANGED <<phone, log, adapter, host, ordered, applied, seen>>
    BY <1>2 DEF phoneSide, hostSide, histories
  <2>2. HostInv' /\ SeenInv'
    BY <2>1 DEF IInv, HostInv, SeenInv, Settled, NextReady, HeadFrame
  <2>3. toPhone' \subseteq DownRecord /\ \A m \in toPhone' : m \in toPhone
    BY <1>2
  <2> QED
    BY <1>2, <2>1, <2>2, <2>3, HostRests
<1>3. CASE Lose
  <2>1. /\ UNCHANGED <<phoneSide, hostSide, adapter>> /\ Accounted
        /\ toHost' \subseteq toHost /\ toPhone' \subseteq toPhone
    BY <1>3, Pays DEF Lose
  <2> QED
    BY <1>2, <2>1
<1>4. CASE UNCHANGED vars
  <2>1. /\ UNCHANGED <<phoneSide, hostSide, adapter>> /\ Accounted
        /\ toHost' \subseteq toHost /\ toPhone' \subseteq toPhone
    BY <1>4, Pays DEF vars, phoneSide, hostSide, histories
  <2> QED
    BY <1>2, <2>1
<1> QED
  BY <1>1, <1>3, <1>4, PhoneKeeps, HostKeeps DEF Next

------------------------------------------------------------------------------
(* The inductive invariant holds throughout.                               *)
THEOREM Invariance == Spec => []IInv
<1> QED
  BY IInvInit, IInvNext, PTL DEF Spec

(* The state of UdpTransport, of UdpHost and of run() keeps its type, and  *)
(* every datagram is one that the codec can carry.                         *)
THEOREM TypeCorrect == Spec => []TypeOK
<1>1. IInv => TypeOK
  BY DEF IInv
<1> QED
  BY <1>1, Invariance, PTL

(* run() and process_decoded_frame(): nothing is down while the host looks *)
(* for a phone, and while it serves one the OS holds exactly what the      *)
(* session said in the frame before the cursor.                            *)
THEOREM HeldCorrect == Spec => []HeldFollowsSession
<1>1. IInv => HeldFollowsSession
  BY DEF IInv, HostInv, Settled, HeldFollowsSession
<1> QED
  BY <1>1, Invariance, PTL

(* binding_accepts_ingress() and require_fresh_session(): the frames that  *)
(* one window gathers arrived on one tether adapter.                       *)
THEOREM OneAdapter == Spec => []OneAdapterPerWindow
<1>1. ASSUME IInv PROVE OneAdapterPerWindow
  <2>1. seen \subseteq {host.via}
    BY <1>1 DEF IInv, SeenInv
  <2>2. IsFiniteSet({host.via}) /\ Cardinality({host.via}) = 1
    BY FS_Singleton
  <2>3. Cardinality(seen) <= Cardinality({host.via})
    BY <2>1, <2>2, FS_Subset
  <2> QED
    BY <2>2, <2>3 DEF OneAdapterPerWindow
<1> QED
  BY <1>1, Invariance, PTL

(* acknowledgeLocked() retires only what the sink accepted, as long as the *)
(* host was not restarted under an open session.                           *)
THEOREM Acknowledgement == Spec => []AckedMeansApplied
<1>1. IInv => AckedMeansApplied
  BY DEF IInv, PhoneInv, AckedMeansApplied
<1> QED
  BY <1>1, Invariance, PTL
=============================================================================
