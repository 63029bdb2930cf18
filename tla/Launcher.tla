------------------------------ MODULE Launcher ------------------------------
(***************************************************************************)
(* The launcher (tauri-launcher/src-tauri/src/main.rs) and the host        *)
(* processes it starts: commands of the user interface, which hold the     *)
(* state's lock and reap first; the reader threads, which collect a        *)
(* child's lines in a mailbox; the child's standard input, whose end stops *)
(* the child; and the credential file that host and launcher share.        *)
(*                                                                         *)
(* A child is a controller or one pairing window.  Wording is left out; a  *)
(* line is its token.                                                      *)
(***************************************************************************)
EXTENDS Naturals, Sequences, Functions

CONSTANTS MaxChild,     \* processes started
          MaxLaunch,    \* times the launcher itself is started
          MaxLine,      \* status lines a controller prints
          MaxKill,      \* children that die without cleanup
          OnWindows     \* keys outlive their process; saving truncates first

ASSUME LauncherAssumption ==
    {MaxChild, MaxLaunch, MaxLine, MaxKill} \subseteq Nat /\ OnWindows \in BOOLEAN

Children == 1 .. MaxChild

NoRuntime == 0

VARIABLES ui,       \* HostState
          mail,     \* HostOutput of the current runtime
          child,    \* the processes
          spawned,  \* how many there are
          store,    \* the host's credentials
          launch,   \* instances of the launcher started so far
          up,       \* the launcher runs
          kills     \* crashes left

vars == <<ui, mail, child, spawned, store, launch, up, kills>>

NoMail == [phase |-> "", fatal |-> FALSE, pattern |-> FALSE, approve |-> "",
           complete |-> FALSE]

Fresh == [runtime |-> NoRuntime, phase |-> "Ready", stopping |-> FALSE,
          paired |-> FALSE, pattern |-> FALSE, approve |-> FALSE]

NoChild == [kind |-> "none", pc |-> "none", of |-> 0, keys |-> FALSE, eof |-> FALSE,
            stdin |-> <<>>, stdout |-> <<>>, fatal |-> FALSE, stage |-> "waiting",
            lines |-> 0]

Init ==
    /\ ui = Fresh /\ mail = NoMail
    /\ child = [i \in Children |-> NoChild]
    /\ spawned = 0 /\ launch = 0 /\ up = FALSE
    /\ store \in {"none", "paired"}
    /\ kills = MaxKill

Alive(i) == child[i].pc \in {"run", "saving"}

Exited(i) == child[i].pc \in {"exit0", "exit1"}

(***************************************************************************)
(* What the readers collect, and how it reaches the state                  *)
(***************************************************************************)
ParseHostOutputLine(m, line) ==
    CASE line = "PATTERN" -> [m EXCEPT !.pattern = TRUE]
      [] line = "CONFIRMED" -> [m EXCEPT !.approve = "yes"]
      [] line = "COMPLETE" -> [m EXCEPT !.complete = TRUE, !.approve = "no"]
      [] OTHER -> [m EXCEPT !.phase = line]

ApplyOutput(u, m) ==
    [u EXCEPT !.phase = IF m.fatal THEN "Fatal"
                        ELSE IF m.phase # "" /\ ~u.stopping THEN m.phase ELSE @,
              !.pattern = @ \/ m.pattern,
              !.approve = IF m.complete \/ m.approve = "no" THEN FALSE
                          ELSE @ \/ m.approve = "yes",
              !.paired = @ \/ m.complete]

\* recover_orphaned_policy as the launcher sees it.
Outcomes == IF OnWindows
              THEN {"Restored", "Deferred", "OwnerStillRunning", "PermissionDenied", "Error"}
              ELSE {"Restored"}

ApplyRouteRecovery(u, o) ==
    CASE o \in {"Restored", "Deferred"} ->
            [u EXCEPT !.phase = IF @ = "RecoveryNeedsAdmin" THEN "Ready" ELSE @]
      [] o = "PermissionDenied" -> [u EXCEPT !.phase = "RecoveryNeedsAdmin"]
      [] OTHER -> [u EXCEPT !.phase = "Fatal"]

Recovered(o) == o \in {"Restored", "Deferred"}

\* Reaping a child that has ended waits for its readers, which have then passed
\* on everything it said.
Joined == ui.runtime # NoRuntime /\ ~Alive(ui.runtime) => child[ui.runtime].stdout = <<>>

Collected(i) == [mail EXCEPT !.fatal = child[i].fatal]

\* Mutant: the stop is not over when the process is.
ReapKeepsStopping(o) ==
    LET drained == ApplyOutput(ui, mail)
        i == ui.runtime
    IN  IF i = NoRuntime THEN ui
        ELSE IF Alive(i) THEN drained
        ELSE [ApplyOutput(ui, Collected(i)) EXCEPT !.runtime = NoRuntime, !.phase = "Ready"]

\* reap_child: the mailbox, then the end of the process.
Reap(o) ==
    LET drained == ApplyOutput(ui, mail)
        i == ui.runtime
    IN  IF i = NoRuntime THEN ui
        ELSE IF Alive(i) THEN drained
        ELSE LET last == ApplyOutput(ui, Collected(i)) IN
             ApplyRouteRecovery(
                 [last EXCEPT !.runtime = NoRuntime, !.stopping = FALSE,
                              !.phase = IF child[i].pc = "exit0" THEN "Ready" ELSE "Fatal"], o)

\* Mutant: the keys of a child that died are left to the OS.
ReapedChildKeepsKeys ==
    IF ui.runtime # NoRuntime /\ Exited(ui.runtime)
      THEN [child EXCEPT ![ui.runtime].eof = TRUE] ELSE child

\* Reaping a child that died releases the lane keys it may have held.
ReapedChild ==
    LET i == ui.runtime IN
    IF i # NoRuntime /\ Exited(i)
      THEN [child EXCEPT ![i] = [child[i] EXCEPT
                 !.keys = child[i].keys /\ ~(OnWindows /\ child[i].pc = "exit1"),
                 !.eof = TRUE]]
      ELSE child

Command(body(_, _)) ==
    /\ up /\ Joined
    /\ \E o \in Outcomes : body(Reap(o), o)
    /\ mail' = NoMail

Unreadable(f) == f = "torn"

PortFree == \A i \in Children : ~Alive(i)

\* Mutant: what the last window said is kept for the next.
SpawnRuntimeKeepsApproval(u, kind, phase) ==
    /\ spawned < MaxChild
    /\ spawned' = spawned + 1
    /\ child' = [ReapedChild EXCEPT ![spawned + 1] =
                   [NoChild EXCEPT !.kind = kind, !.pc = "run", !.of = launch]]
    /\ ui' = [u EXCEPT !.runtime = spawned + 1, !.phase = phase, !.stopping = FALSE]

SpawnRuntime(u, kind, phase) ==
    /\ spawned < MaxChild
    /\ spawned' = spawned + 1
    /\ child' = [ReapedChild EXCEPT ![spawned + 1] =
                   [NoChild EXCEPT !.kind = kind, !.pc = "run", !.of = launch]]
    /\ ui' = [u EXCEPT !.runtime = spawned + 1, !.phase = phase, !.stopping = FALSE,
                       !.pattern = FALSE, !.approve = FALSE]

Refuse(u) == ui' = u /\ child' = ReapedChild /\ UNCHANGED spawned

\* The legacy protocol needs no pairing.  An unreadable file refuses the start
\* unless the phone is known to be paired.
CanStart(u, legacy) ==
    u.runtime = NoRuntime /\ (legacy \/ u.paired \/ store = "paired")

\* A successful recovery may turn the phase before the start goes on or fails.
Starting(u, o, legacy) == ApplyRouteRecovery([u EXCEPT !.paired = @ \/ ~legacy], o)

StartBody(u, o) ==
    \E legacy \in BOOLEAN :
        \/ ~CanStart(u, legacy) /\ Refuse(u)
        \/ CanStart(u, legacy) /\ Refuse(Starting(u, o, legacy))
        \/ /\ CanStart(u, legacy) /\ Recovered(o) /\ PortFree
           /\ SpawnRuntime(Starting(u, o, legacy), "Controller", "Waiting")

StartHost == Command(StartBody) /\ UNCHANGED <<store, launch, up, kills>>

PairBody(u, o) ==
    \/ u.runtime # NoRuntime /\ Refuse(u)
    \/ u.runtime = NoRuntime /\ Refuse(ApplyRouteRecovery(u, o))
    \/ /\ u.runtime = NoRuntime /\ Recovered(o) /\ PortFree
       /\ SpawnRuntime(ApplyRouteRecovery(u, o), "Pairing", "Pairing")

BeginPairing == Command(PairBody) /\ UNCHANGED <<store, launch, up, kills>>

\* The runtime was alive when it was reaped a moment ago.
Write(u, line, after) ==
    /\ child' = [child EXCEPT ![u.runtime].stdin = Append(@, line)]
    /\ ui' = after
    /\ UNCHANGED spawned

CanApprove(u) == u.approve /\ u.runtime # NoRuntime /\ child[u.runtime].kind = "Pairing"

ApproveBody(u, o) ==
    \/ CanApprove(u) /\ Write(u, "approve", [u EXCEPT !.approve = FALSE])
    \/ ~CanApprove(u) /\ Refuse(u)

ApprovePairing == Command(ApproveBody) /\ UNCHANGED <<store, launch, up, kills>>

\* The pipe holds two lines; more stops change nothing.
StopBody(u, o) ==
    \/ u.runtime = NoRuntime /\ Refuse(u)
    \/ /\ u.runtime # NoRuntime
       /\ Len(child[u.runtime].stdin) < 2
       /\ Write(u, "q", [u EXCEPT !.stopping = TRUE, !.phase = "Stopping"])

StopHost == Command(StopBody) /\ UNCHANGED <<store, launch, up, kills>>

\* Mutant: the flag of the interface survives the file.
ForgetBodyKeepsFlag(u, o) ==
    IF u.runtime = NoRuntime /\ ~Unreadable(store)
      THEN /\ ui' = [u EXCEPT !.pattern = FALSE, !.approve = FALSE, !.phase = "Ready"]
           /\ store' = "none"
           /\ child' = ReapedChild /\ UNCHANGED spawned
      ELSE Refuse(u) /\ UNCHANGED store

CanForget(u) == u.runtime = NoRuntime /\ ~Unreadable(store)

ForgetBody(u, o) ==
    \/ ~CanForget(u) /\ Refuse(u) /\ UNCHANGED store
    \/ /\ CanForget(u)
       /\ ui' = [u EXCEPT !.paired = FALSE, !.pattern = FALSE, !.approve = FALSE,
                          !.phase = "Ready"]
       /\ store' = "none"
       /\ child' = ReapedChild /\ UNCHANGED spawned

ForgetDevice == Command(ForgetBody) /\ UNCHANGED <<launch, up, kills>>

PollBody(u, o) == Refuse(u)

HostStatus == Command(PollBody) /\ UNCHANGED <<store, launch, up, kills>>

\* The window is closed: request_stop, and with the process its end of the pipe
\* goes.  A launcher that dies closes the pipe too, without the line.
Quit(line) ==
    LET i == ui.runtime IN
    /\ up /\ up' = FALSE
    /\ ui' = Fresh /\ mail' = NoMail
    /\ child' = IF i = NoRuntime THEN child
                ELSE [child EXCEPT ![i] =
                        [child[i] EXCEPT !.stdin = child[i].stdin \o line, !.eof = TRUE]]
    /\ UNCHANGED <<spawned, store, launch, kills>>

Setup ==
    /\ ~up /\ launch < MaxLaunch
    /\ up' = TRUE /\ launch' = launch + 1
    /\ \E o \in Outcomes :
         LET r == ApplyRouteRecovery(Fresh, o) IN
         ui' = IF Unreadable(store) THEN [r EXCEPT !.phase = "Fatal"]
               ELSE [r EXCEPT !.paired = (store = "paired")]
    /\ UNCHANGED <<mail, child, spawned, store, kills>>

\* A reader thread passes one line on.
ReadLine ==
    LET i == ui.runtime IN
    /\ up /\ i # NoRuntime /\ child[i].stdout # <<>>
    /\ mail' = ParseHostOutputLine(mail, Head(child[i].stdout))
    /\ child' = [child EXCEPT ![i].stdout = Tail(@)]
    /\ UNCHANGED <<ui, spawned, store, launch, up, kills>>

(***************************************************************************)
(* The children                                                            *)
(***************************************************************************)
\* Mutant: the end of the pipe is not a command.
ToldByLine(i) == "q" \in Range(child[i].stdin)

Told(i) == child[i].eof \/ "q" \in Range(child[i].stdin)

Leave(i, code, fatal, keys) ==
    child' = [child EXCEPT ![i] = [child[i] EXCEPT
                !.pc = code, !.fatal = fatal, !.keys = child[i].keys /\ keys /\ OnWindows]]

Statuses == {"Waiting", "Connected", "Recovering", "Stopping"}

\* StatusReporter: the controller is connected and may hold keys, or recovers.
ChildStatus(i) ==
    /\ child[i].kind = "Controller" /\ child[i].pc = "run" /\ child[i].lines < MaxLine
    /\ \E s \in Statuses :
         child' = [child EXCEPT ![i] = [child[i] EXCEPT
                     !.stdout = Append(child[i].stdout, s), !.lines = child[i].lines + 1,
                     !.keys = (s = "Connected")]]
    /\ UNCHANGED <<ui, mail, spawned, store, launch, up, kills>>

\* The exit command thread saw the line or the end of the pipe.
ChildStops(i) ==
    /\ child[i].pc = "run" /\ Told(i)
    /\ \/ Leave(i, "exit0", FALSE, FALSE)
       \/ child[i].keys /\ Leave(i, "exit1", TRUE, TRUE)
    /\ UNCHANGED <<ui, mail, spawned, store, launch, up, kills>>

ChildFails(i) ==
    /\ child[i].pc = "run" /\ kills > 0
    /\ kills' = kills - 1
    /\ \E held \in BOOLEAN : Leave(i, "exit1", TRUE, held)
    /\ UNCHANGED <<ui, mail, spawned, store, launch, up>>

ChildKilled(i) ==
    /\ Alive(i) /\ kills > 0
    /\ kills' = kills - 1
    /\ Leave(i, "exit1", FALSE, TRUE)
    /\ UNCHANGED <<ui, mail, spawned, store, launch, up>>

PairLine(i, from, to, line) ==
    /\ child[i].kind = "Pairing" /\ child[i].pc = "run" /\ child[i].stage = from
    /\ child' = [child EXCEPT ![i] = [child[i] EXCEPT
                   !.stage = to, !.stdout = Append(child[i].stdout, line)]]
    /\ UNCHANGED <<ui, mail, spawned, store, launch, up, kills>>

ChildPattern(i) == PairLine(i, "waiting", "shown", "PATTERN")

ChildConfirmed(i) == PairLine(i, "shown", "confirmed", "CONFIRMED")

\* The approval is read: on Windows the file is truncated before it is written.
ChildSaves(i) ==
    /\ child[i].pc = "run" /\ child[i].stage = "confirmed"
    /\ child[i].stdin # <<>> /\ Head(child[i].stdin) = "approve"
    /\ store' = IF OnWindows THEN "torn" ELSE store
    /\ child' = [child EXCEPT ![i] = [child[i] EXCEPT
                   !.pc = "saving", !.stdin = Tail(child[i].stdin)]]
    /\ UNCHANGED <<ui, mail, spawned, launch, up, kills>>

ChildSaved(i) ==
    /\ child[i].pc = "saving"
    /\ store' = "paired"
    /\ child' = [child EXCEPT ![i] = [child[i] EXCEPT !.pc = "exit0", !.stage = "complete",
                   !.stdout = Append(child[i].stdout, "COMPLETE")]]
    /\ UNCHANGED <<ui, mail, spawned, launch, up, kills>>

ChildSteps(i) == ChildStops(i) \/ ChildSaves(i) \/ ChildSaved(i)

Next ==
    \/ StartHost \/ BeginPairing \/ ApprovePairing \/ StopHost \/ ForgetDevice
    \/ HostStatus \/ Quit(<<"q">>) \/ Quit(<<>>) \/ Setup \/ ReadLine
    \/ \E i \in Children :
         \/ ChildStatus(i) \/ ChildSteps(i) \/ ChildFails(i) \/ ChildKilled(i)
         \/ ChildPattern(i) \/ ChildConfirmed(i)

Spec == Init /\ [][Next]_vars

\* Children run, and the interface polls the status: a child that ended does not
\* stay unnoticed while the launcher runs.
Fairness ==
    /\ \A i \in Children : WF_vars(ChildSteps(i))
    /\ []<>~(up /\ ui.runtime # NoRuntime /\ ~Alive(ui.runtime))

FairSpec == Spec /\ Fairness

(***************************************************************************)
(* Properties                                                              *)
(***************************************************************************)
Phases == {"Ready", "Waiting", "Connected", "Recovering", "Stopping", "Pairing",
           "RecoveryNeedsAdmin", "Fatal"}

Lines == {"PATTERN", "CONFIRMED", "COMPLETE"} \cup Statuses

Interfaces == [runtime : {NoRuntime} \cup Children, phase : Phases, stopping : BOOLEAN,
               paired : BOOLEAN, pattern : BOOLEAN, approve : BOOLEAN]

Mailboxes == [phase : Statuses \cup {""}, fatal : BOOLEAN, pattern : BOOLEAN,
              approve : {"", "yes", "no"}, complete : BOOLEAN]

Processes == [kind : {"none", "Controller", "Pairing"},
              pc : {"none", "run", "saving", "exit0", "exit1"}, of : 0 .. MaxLaunch,
              keys : BOOLEAN, eof : BOOLEAN, stdin : Seq({"approve", "q"}), stdout : Seq(Lines),
              fatal : BOOLEAN, stage : {"waiting", "shown", "confirmed", "complete"},
              lines : 0 .. MaxLine]

TypeOK ==
    /\ ui \in Interfaces /\ mail \in Mailboxes /\ child \in [Children -> Processes]
    /\ spawned \in 0 .. MaxChild /\ launch \in 0 .. MaxLaunch
    /\ store \in {"none", "paired", "torn"}
    /\ up \in BOOLEAN /\ kills \in 0 .. MaxKill

\* An approval only ever reaches a pairing window whose phone has confirmed the
\* pattern, never the next window or a controller (approve_pairing,
\* begin_pairing: can_approve).
ApprovalForThisWindow ==
    \A i \in Children : "approve" \in Range(child[i].stdin) =>
        child[i].kind = "Pairing" /\ child[i].stage # "waiting" /\ child[i].stage # "shown"

\* While the launcher runs and shows no runtime, none of the processes it
\* started is alive or holds keys of the OS, however they ended.
NothingLeftBehind ==
    up /\ ui.runtime = NoRuntime =>
        \A i \in Children : child[i].of = launch => ~Alive(i) /\ ~child[i].keys

\* A phone that was forgotten is not taken for paired, so no v5 controller is
\* started for it; a completed window is not overlooked either.
PairedAgreesWithStore ==
    up => /\ ui.paired => store # "none"
          /\ \A i \in Children : (child[i].stage = "complete" /\ child[i].of = launch
                                  /\ ui.runtime = NoRuntime /\ store = "paired") => ui.paired

\* A host whose launcher is gone does not survive it (comment of the exit
\* command thread).
OrphanStops == \A i \in Children : (child[i].eof ~> Exited(i))

\* A stop that was asked for comes to an end: the child leaves and the launcher
\* notices, even when the child dies instead (stop_host, reap_child).
StopFinishes == ui.stopping ~> ~ui.stopping
=============================================================================
