----------------------- MODULE NetworkManagerPolicy -----------------------
(***************************************************************************)
(* The local-only switch on Linux                                          *)
(* (tauri-launcher/src-tauri/src/linux_network_manager.rs): the launcher   *)
(* sets both never-default properties of the tether's profile, first the   *)
(* stored one, then the applied one, each under NetworkManager's version   *)
(* guard, and undoes what it did when a later step fails.  One action is   *)
(* one call to NetworkManager or to the kernel; between any two of them    *)
(* the user may edit profiles, reconnect or replug.                        *)
(*                                                                         *)
(* A pair holds one flag for IPv4 and one for IPv6.  Validation of names,  *)
(* paths and versions, and the search for a trusted nmcli, are left out.   *)
(***************************************************************************)
EXTENDS Naturals, Sequences

CONSTANTS MaxEvent,     \* things the user and the kernel do meanwhile
          MaxFault      \* calls that fail, with or without effect

ASSUME NetworkManagerAssumption == {MaxEvent, MaxFault} \subseteq Nat

Pairs == BOOLEAN \X BOOLEAN

Both(b) == <<b, b>>

Uuids == 1 .. 2

VARIABLES profile,  \* stored profiles: flags, version, other settings
          active,   \* the applied connection of the device
          routes,   \* default routes through the device
          dev,      \* identity of the device, 0 while unplugged
          op,       \* the launcher's call
          calm,     \* nobody else changed anything since the call began
          events, faults

vars == <<profile, active, routes, dev, op, calm, events, faults>>

system == <<profile, active, routes, dev>>

NoTarget == [dev |-> 0, uuid |-> 1, profile |-> Both(FALSE), active |-> Both(FALSE),
             routes |-> Both(FALSE)]

Idle == [phase |-> "idle", pc |-> "idle", goal |-> FALSE, set |-> FALSE, t |-> NoTarget,
         now |-> NoTarget, expect |-> Both(FALSE), want |-> Both(FALSE), version |-> 0,
         extra |-> 0, bad |-> FALSE, result |-> "none"]

Init ==
    /\ profile \in [Uuids -> [v : Pairs, version : {1}, extra : {0}]]
    /\ profile[2].v = Both(FALSE)
    /\ active \in [uuid : {1}, v : Pairs, version : {1}]
    /\ routes \in Pairs
    /\ dev \in {0, 1} /\ (dev = 0 => routes = Both(FALSE))
    /\ op = Idle
    /\ calm = TRUE
    /\ events = MaxEvent /\ faults = MaxFault

(***************************************************************************)
(* What the launcher decides                                               *)
(***************************************************************************)
\* Mutant: the applied values are not looked at.
SettingsStored(t, b) == t.profile = Both(b)

SettingsAll(t, b) == t.profile = Both(b) /\ t.active = Both(b)

PolicyEnabled(t) == SettingsAll(t, TRUE) /\ t.routes = Both(FALSE)

Reached(t, b) == SettingsAll(t, b) /\ (b => PolicyEnabled(t))

SameSelection(a, b) == a.dev = b.dev /\ a.uuid = b.uuid

SameValues(a, b) == a.profile = b.profile /\ a.active = b.active

Owned == Both(op.goal)

VerifyDevice == dev = op.t.dev

Done(result) == [op EXCEPT !.phase = "done", !.pc = "done", !.result = result]

At(phase, pc) == [op EXCEPT !.phase = phase, !.pc = pc]

Undo == At("undoProfile", "current")

\* Where an error of the current call leads: the ? operators, the rollbacks of
\* set_with_backend and the error list of rollback_profile.
Failed ==
    CASE op.phase \in {"resolve", "device"} -> Done("error")
      [] op.phase = "update" -> At("confirm", "select")
      [] op.phase \in {"check", "apply", "final", "confirm"} -> Undo
      [] op.phase = "undoProfile" -> [At("undoActive", "current") EXCEPT !.bad = TRUE]
      [] op.phase = "undoActive" -> [At("undoRoutes", "routes") EXCEPT !.bad = TRUE]
      [] OTHER -> Done("incomplete")

\* A call returns and leads to the operation next.
Call(pc, next) ==
    /\ op.pc = pc
    /\ op' = next
    /\ UNCHANGED <<system, calm, events, faults>>

(***************************************************************************)
(* status, ensure_enabled and set_enabled begin by resolving the target    *)
(***************************************************************************)
Begin ==
    /\ op.pc = "idle"
    /\ \E goal, set \in BOOLEAN :
         op' = [At("resolve", "select") EXCEPT !.goal = goal \/ ~set, !.set = set]
    /\ UNCHANGED <<system, calm, events, faults>>

Resolving == op.phase \in {"resolve", "confirm", "final"}

\* One active device with its profile.
Select ==
    /\ Resolving
    /\ Call("select", IF dev = 0 THEN Failed
                      ELSE [op EXCEPT !.pc = "profile",
                                      !.now.dev = dev, !.now.uuid = active.uuid])

ReadProfile ==
    Call("profile", [op EXCEPT !.pc = "active", !.now.profile = profile[op.now.uuid].v])

\* read_active, the comparison of the UUIDs and verify_device.
ReadActive ==
    Call("active", IF dev = op.now.dev /\ active.uuid = op.now.uuid
                     THEN [op EXCEPT !.pc = "routes", !.now.active = active.v]
                     ELSE Failed)

Resolved(t) ==
    CASE op.phase = "resolve" ->
            IF Reached(t, op.goal) THEN [Done("ok") EXCEPT !.t = t]
            ELSE IF op.set THEN [At("resolve", "reread") EXCEPT !.t = t] ELSE Done("off")
      [] op.phase = "confirm" ->
            IF SameSelection(t, op.t) /\ SameValues(t, op.t) THEN Done("restored") ELSE Undo
      [] OTHER ->
            IF SameSelection(t, op.t) /\ Reached(t, op.goal) THEN Done("ok")
            ELSE IF SameSelection(t, op.t) /\ op.goal /\ SettingsAll(t, TRUE) THEN Done("pending")
            ELSE Undo

ReadRoutes ==
    /\ Resolving
    /\ Call("routes", IF dev = op.now.dev THEN Resolved([op.now EXCEPT !.routes = routes])
                      ELSE Failed)

(***************************************************************************)
(* set_with_backend                                                        *)
(***************************************************************************)
Modify(phase, expect, want) ==
    [At(phase, "version") EXCEPT !.expect = expect, !.want = want]

\* Nothing was changed yet: a change by others ends the call.
Reread ==
    Call("reread", IF VerifyDevice /\ profile[op.t.uuid].v = op.t.profile
                     THEN Modify("update", op.t.profile, Owned) ELSE Done("error"))

\* update_persistent_connection: the version before the settings.
ReadVersion ==
    Call("version", [op EXCEPT !.pc = "settings", !.version = profile[op.t.uuid].version])

ReadSettings ==
    LET p == profile[op.t.uuid] IN
    Call("settings", IF p.v = op.expect THEN [op EXCEPT !.pc = "write", !.extra = p.extra]
                     ELSE Failed)

\* Update2 replaces the whole profile, and only the version that was read.
Written(uuid) ==
    [profile EXCEPT ![uuid] = [v |-> op.want, version |-> @.version + 1, extra |-> op.extra]]

Rejected == op.version # profile[op.t.uuid].version

\* Mutant: no version is passed.
UpdateUnguarded ==
    /\ op.pc = "write"
    /\ profile' = Written(op.t.uuid)
    /\ op' = [op EXCEPT !.pc = "verify"]
    /\ UNCHANGED <<active, routes, dev, calm, events, faults>>

Update ==
    /\ op.pc = "write"
    /\ \/ Rejected /\ op' = Failed /\ UNCHANGED profile
       \/ ~Rejected /\ op' = [op EXCEPT !.pc = "verify"] /\ profile' = Written(op.t.uuid)
    /\ UNCHANGED <<active, routes, dev, calm, events, faults>>

\* The version advanced and the values are ours.
VerifyUpdate ==
    Call("verify",
         IF profile[op.t.uuid].v # op.want THEN Failed
         ELSE IF op.phase = "update" THEN At("check", "read") ELSE At("undoProfile", "read"))

\* set_with_backend and rollback_profile read the profile once more.
CheckUpdate ==
    Call("read",
         IF profile[op.t.uuid].v # op.want THEN Failed
         ELSE IF op.phase = "check" THEN At("device", "device") ELSE At("undoActive", "current"))

\* A device that is gone is rolled back; a check that fails is not (see Failed).
CheckDevice ==
    Call("device", IF VerifyDevice THEN At("apply", "current") ELSE Undo)

\* apply_profile
ApplyProfile ==
    /\ op.phase = "apply"
    /\ Call("current",
            IF ~VerifyDevice \/ active.uuid # op.t.uuid \/ active.v \notin {op.t.active, Owned}
              THEN Failed
            ELSE IF active.v = Owned THEN At("final", "select")
            ELSE [op EXCEPT !.pc = "applied", !.expect = active.v, !.want = Owned])

\* apply_active_connection: settings and version come in one answer.
ReadApplied ==
    Call("applied", IF VerifyDevice /\ active.uuid = op.t.uuid /\ active.v = op.expect
                      THEN [op EXCEPT !.pc = "reapply", !.version = active.version] ELSE Failed)

\* NetworkManager takes its own default routes away or adds them; a route of
\* others, or an IPv6 one of an old release, stays.
Reapplied ==
    /\ active' = [active EXCEPT !.v = op.want, !.version = @ + 1]
    /\ routes' \in {r \in Pairs : \A f \in 1 .. 2 :
                        r[f] # routes[f] => r[f] = ~op.want[f]}

Reapply ==
    /\ op.pc = "reapply"
    /\ \/ /\ ~VerifyDevice \/ op.version # active.version
          /\ op' = Failed /\ UNCHANGED <<active, routes>>
       \/ /\ VerifyDevice /\ op.version = active.version
          /\ op' = [op EXCEPT !.pc = "verified"] /\ Reapplied
    /\ UNCHANGED <<profile, dev, calm, events, faults>>

VerifyApplied ==
    Call("verified",
         IF ~VerifyDevice \/ active.uuid # op.t.uuid \/ active.v # op.want THEN Failed
         ELSE IF op.phase = "apply" THEN At("final", "select") ELSE At("undoRoutes", "routes"))

(***************************************************************************)
(* rollback_profile                                                        *)
(***************************************************************************)
UndoProfile ==
    /\ op.phase = "undoProfile"
    /\ Call("current",
            CASE profile[op.t.uuid].v = op.t.profile -> At("undoActive", "current")
              [] profile[op.t.uuid].v = Owned /\ Owned # op.t.profile ->
                    Modify("undoProfile", Owned, op.t.profile)
              [] OTHER -> Failed)

\* Mutant: applied values that are this operation's own are left alone.
UndoActiveNot ==
    /\ op.phase = "undoActive" /\ Call("current", At("undoRoutes", "routes"))

UndoActive ==
    /\ op.phase = "undoActive"
    /\ Call("current",
            CASE ~VerifyDevice -> At("undoRoutes", "routes")
              [] VerifyDevice /\ active.uuid = op.t.uuid /\ active.v = op.t.active ->
                    At("undoRoutes", "routes")
              [] VerifyDevice /\ active.uuid = op.t.uuid /\ active.v # op.t.active
                 /\ active.v = Owned ->
                    [op EXCEPT !.pc = "applied", !.expect = Owned, !.want = op.t.active]
              [] OTHER -> Failed)

UndoRoutes ==
    /\ op.phase = "undoRoutes"
    /\ Call("routes", Done(IF op.bad \/ (VerifyDevice /\ routes # op.t.routes)
                             THEN "incomplete" ELSE "restored"))

(***************************************************************************)
(* Faults and the others                                                   *)
(***************************************************************************)
\* A call fails; one that changes something may have done it all the same.
CallFails ==
    /\ faults > 0 /\ faults' = faults - 1
    /\ op.pc \notin {"idle", "done"}
    /\ op' = Failed
    /\ \/ UNCHANGED <<profile, active, routes>>
       \/ /\ op.pc = "write" /\ ~Rejected
          /\ profile' = Written(op.t.uuid) /\ UNCHANGED <<active, routes>>
       \/ /\ op.pc = "reapply" /\ VerifyDevice /\ op.version = active.version
          /\ Reapplied /\ UNCHANGED profile
    /\ UNCHANGED <<dev, calm, events>>

\* Before and after a call an event only leads to another initial state.
Event ==
    /\ op.pc \notin {"idle", "done"}
    /\ events > 0 /\ events' = events - 1
    /\ calm' = FALSE
    /\ UNCHANGED <<op, faults>>

UserEdits ==
    /\ Event
    /\ \E u \in Uuids, v \in Pairs :
         profile' = [profile EXCEPT ![u] = [v |-> v, version |-> @.version + 1,
                                            extra |-> @.extra + 1]]
    /\ UNCHANGED <<active, routes, dev>>

Connected(u) == active' = [uuid |-> u, v |-> profile[u].v, version |-> active.version + 1]

UserReconnects ==
    /\ Event /\ dev # 0
    /\ \E u \in Uuids : Connected(u)
    /\ routes' \in Pairs
    /\ UNCHANGED <<profile, dev>>

Unplug ==
    /\ Event /\ dev # 0
    /\ dev' = 0 /\ routes' = Both(FALSE)
    /\ UNCHANGED <<profile, active>>

PlugIn ==
    /\ Event /\ dev = 0
    /\ dev' = 2
    /\ \E u \in Uuids : Connected(u)
    /\ routes' \in Pairs
    /\ UNCHANGED profile

RoutesChange ==
    /\ Event /\ dev # 0
    /\ routes' \in Pairs \ {routes}
    /\ UNCHANGED <<profile, active, dev>>

Steps ==
    \/ Begin \/ Select \/ ReadProfile \/ ReadActive \/ ReadRoutes
    \/ Reread \/ ReadVersion \/ ReadSettings \/ Update \/ VerifyUpdate \/ CheckUpdate
    \/ CheckDevice \/ ApplyProfile \/ ReadApplied \/ Reapply \/ VerifyApplied
    \/ UndoProfile \/ UndoActive \/ UndoRoutes

Others == UserEdits \/ UserReconnects \/ Unplug \/ PlugIn \/ RoutesChange

Next == Steps \/ CallFails \/ Others

Spec == Init /\ [][Next]_vars

(***************************************************************************)
(* Properties                                                              *)
(***************************************************************************)
Phases == {"idle", "resolve", "update", "check", "device", "apply", "final", "confirm",
           "undoProfile", "undoActive", "undoRoutes", "done"}

Places == {"idle", "select", "profile", "active", "routes", "reread", "version", "settings",
           "write", "verify", "read", "device", "current", "applied", "reapply", "verified",
           "done"}

Results == {"none", "ok", "pending", "off", "error", "restored", "incomplete"}

Targets == [dev : 0 .. 2, uuid : Uuids, profile : Pairs, active : Pairs, routes : Pairs]

Operations == [phase : Phases, pc : Places, goal : BOOLEAN, set : BOOLEAN, t : Targets,
               now : Targets, expect : Pairs, want : Pairs, version : Nat, extra : Nat,
               bad : BOOLEAN, result : Results]

TypeOK ==
    /\ profile \in [Uuids -> [v : Pairs, version : Nat, extra : Nat]]
    /\ active \in [uuid : Uuids, v : Pairs, version : Nat]
    /\ routes \in Pairs /\ dev \in 0 .. 2
    /\ op \in Operations /\ calm \in BOOLEAN
    /\ events \in 0 .. MaxEvent /\ faults \in 0 .. MaxFault

Original ==
    profile[op.t.uuid].v = op.t.profile /\ active.v = op.t.active

\* When set_enabled says that the original settings were restored, and nobody
\* else changed anything, they are: stored and applied, whichever call failed
\* and whether or not the failing call had its effect.
RestoredMeansOriginal == op.result = "restored" /\ calm => Original

\* A success of set_enabled or ensure_enabled is true: all four values are the
\* ones asked for, and no default route is left (policy_enabled).
OkMeansApplied ==
    op.result = "ok" /\ calm /\ (op.set \/ op.goal) =>
        /\ profile[op.t.uuid].v = Owned /\ active.v = Owned
        /\ op.goal => routes = Both(FALSE)

\* What the launcher writes replaces exactly what it has read: other settings
\* of the profile survive, and values it did not expect are not overwritten
\* (update_persistent_connection, apply_active_connection).
OthersPreserved ==
    [][ /\ (profile' # profile /\ op' # op) =>
              \A u \in Uuids : profile'[u] # profile[u] =>
                  u = op.t.uuid /\ profile'[u].extra = profile[u].extra /\ profile[u].v = op.expect
        /\ (active' # active /\ op' # op) =>
              active.uuid = op.t.uuid /\ active.v = op.expect /\ dev = op.t.dev ]_vars
=============================================================================
