------------------------ MODULE NetworkManagerProofs ------------------------
(***************************************************************************)
(* Theorems about the local-only switch on Linux, for any number of events *)
(* and failing calls: what the launcher writes replaces what it has read,  *)
(* and, when nobody else interferes, what it reports is so.                *)
(***************************************************************************)
EXTENDS NetworkManagerPolicy, TLAPS

\* Which phases of set_with_backend and rollback_profile make which call.
PlaceInv ==
    /\ op.pc = "idle" <=> op.phase = "idle"
    /\ op.pc \in {"select", "profile", "active"} => Resolving
    /\ op.pc = "routes" => Resolving \/ op.phase = "undoRoutes"
    /\ op.pc = "reread" => op.phase = "resolve"
    /\ op.pc \in {"version", "settings", "write", "verify"} => op.phase \in {"update", "undoProfile"}
    /\ op.pc = "read" => op.phase \in {"check", "undoProfile"}
    /\ op.pc = "device" => op.phase = "device"
    /\ op.pc = "current" => op.phase \in {"apply", "undoProfile", "undoActive"}
    /\ op.pc \in {"applied", "reapply", "verified"} => op.phase \in {"apply", "undoActive"}
    /\ op.pc = "done" <=> op.phase = "done"
    /\ op.pc = "done" <=> op.result # "none"

\* A version number that is still current vouches for the values read with it
\* or after it: this is what the version guards rest on.
VersionInv ==
    /\ op.pc = "settings" => op.version <= profile[op.t.uuid].version
    /\ op.pc = "write" =>
         /\ op.version <= profile[op.t.uuid].version
         /\ op.version = profile[op.t.uuid].version =>
              profile[op.t.uuid].v = op.expect /\ profile[op.t.uuid].extra = op.extra
    /\ op.pc = "reapply" =>
         /\ op.version <= active.version
         /\ op.version = active.version => active.v = op.expect /\ active.uuid = op.t.uuid

\* A rollback writes back what was read at the beginning.
WantInv ==
    /\ op.phase = "undoProfile" /\ op.pc \in {"version", "settings", "write", "verify", "read"} =>
         op.want = op.t.profile
    /\ op.phase = "undoActive" /\ op.pc \in {"applied", "reapply", "verified"} =>
         op.want = op.t.active

\* While nobody interferes, what resolve has read so far is still so.
ReadInv ==
    /\ Resolving /\ op.pc \in {"profile", "active", "routes"} =>
         op.now.dev = dev /\ op.now.uuid = active.uuid
    /\ Resolving /\ op.pc \in {"active", "routes"} => op.now.profile = profile[op.now.uuid].v
    /\ Resolving /\ op.pc = "routes" => op.now.active = active.v

\* ... and so is the target that it found.
TargetInv ==
    op.phase \notin {"idle", "resolve", "done"} \/ op.pc = "reread" =>
        op.t.dev = dev /\ op.t.uuid = active.uuid

\* What a rollback without an error so far has put back.
UndoInv ==
    /\ op.phase \in {"undoActive", "undoRoutes"} /\ ~op.bad =>
         profile[op.t.uuid].v = op.t.profile
    /\ op.phase = "undoRoutes" /\ ~op.bad => active.v = op.t.active

CalmInv == calm => ReadInv /\ TargetInv /\ UndoInv

ResultInv == RestoredMeansOriginal /\ OkMeansApplied

IInv == TypeOK /\ PlaceInv /\ VersionInv /\ WantInv /\ CalmInv /\ ResultInv

-----------------------------------------------------------------------------
\* A pair of equal flags is a pair.
LEMMA BothIsPair == \A b \in BOOLEAN : Both(b) \in Pairs
BY DEF Both, Pairs

\* The stored profiles and the applied connection.
Profiles == [Uuids -> [v : Pairs, version : Nat, extra : Nat]]
Applied == [uuid : Uuids, v : Pairs, version : Nat]

\* Types, in the names of this module.
LEMMA Types ==
    ASSUME IInv
    PROVE  /\ op \in Operations /\ profile \in Profiles /\ active \in Applied
           /\ routes \in Pairs /\ dev \in 0 .. 2 /\ calm \in BOOLEAN
           /\ op.t \in Targets /\ op.t.uuid \in Uuids /\ op.now \in Targets /\ op.now.uuid \in Uuids
BY DEF IInv, TypeOK, Profiles, Applied, Operations, Targets

\* Changing one field of an operation.
LEMMA Edits ==
    ASSUME NEW o \in Operations
    PROVE  /\ \A x \in Phases : [o EXCEPT !.phase = x] \in Operations
           /\ \A x \in Places : [o EXCEPT !.pc = x] \in Operations
           /\ \A x \in BOOLEAN : [o EXCEPT !.goal = x] \in Operations
           /\ \A x \in BOOLEAN : [o EXCEPT !.set = x] \in Operations
           /\ \A x \in Targets : [o EXCEPT !.t = x] \in Operations
           /\ \A x \in Targets : [o EXCEPT !.now = x] \in Operations
           /\ \A x \in Pairs : [o EXCEPT !.expect = x] \in Operations
           /\ \A x \in Pairs : [o EXCEPT !.want = x] \in Operations
           /\ \A x \in Nat : [o EXCEPT !.version = x] \in Operations
           /\ \A x \in Nat : [o EXCEPT !.extra = x] \in Operations
           /\ \A x \in BOOLEAN : [o EXCEPT !.bad = x] \in Operations
           /\ \A x \in Results : [o EXCEPT !.result = x] \in Operations
<1>1. ASSUME NEW x \in Phases PROVE [o EXCEPT !.phase = x] \in Operations
  BY DEF Operations
<1>2. ASSUME NEW x \in Places PROVE [o EXCEPT !.pc = x] \in Operations
  BY DEF Operations
<1>3. ASSUME NEW x \in BOOLEAN PROVE [o EXCEPT !.goal = x] \in Operations
  BY DEF Operations
<1>4. ASSUME NEW x \in BOOLEAN PROVE [o EXCEPT !.set = x] \in Operations
  BY DEF Operations
<1>5. ASSUME NEW x \in Targets PROVE [o EXCEPT !.t = x] \in Operations
  BY DEF Operations
<1>6. ASSUME NEW x \in Targets PROVE [o EXCEPT !.now = x] \in Operations
  BY DEF Operations
<1>7. ASSUME NEW x \in Pairs PROVE [o EXCEPT !.expect = x] \in Operations
  BY DEF Operations
<1>8. ASSUME NEW x \in Pairs PROVE [o EXCEPT !.want = x] \in Operations
  BY DEF Operations
<1>9. ASSUME NEW x \in Nat PROVE [o EXCEPT !.version = x] \in Operations
  BY DEF Operations
<1>10. ASSUME NEW x \in Nat PROVE [o EXCEPT !.extra = x] \in Operations
  BY DEF Operations
<1>11. ASSUME NEW x \in BOOLEAN PROVE [o EXCEPT !.bad = x] \in Operations
  BY DEF Operations
<1>12. ASSUME NEW x \in Results PROVE [o EXCEPT !.result = x] \in Operations
  BY DEF Operations
<1> QED
  BY <1>1, <1>2, <1>3, <1>4, <1>5, <1>6, <1>7, <1>8, <1>9, <1>10, <1>11, <1>12

\* What At and Done leave alone.
Keeps(o) ==
    /\ o.goal = op.goal /\ o.set = op.set /\ o.t = op.t /\ o.now = op.now
    /\ o.expect = op.expect /\ o.want = op.want /\ o.version = op.version /\ o.extra = op.extra

\* The next call of a phase, or the first of another one.
LEMMA Moves ==
    ASSUME op \in Operations, NEW phase \in Phases, NEW pc \in Places
    PROVE  /\ At(phase, pc) \in Operations /\ Keeps(At(phase, pc))
           /\ At(phase, pc).phase = phase /\ At(phase, pc).pc = pc
           /\ At(phase, pc).bad = op.bad /\ At(phase, pc).result = op.result
<1>1. PICK o : o = [op EXCEPT !.phase = phase]
  OBVIOUS
<1>2. o \in Operations
  BY <1>1, Edits, Zenon
<1>3. At(phase, pc) = [o EXCEPT !.pc = pc]
  BY <1>1, Zenon DEF At
<1>4. At(phase, pc) \in Operations
  BY <1>2, <1>3, Edits, Zenon
<1> QED
  BY <1>4 DEF At, Operations, Keeps

\* The end of a call.
LEMMA Ends ==
    ASSUME op \in Operations, NEW result \in Results
    PROVE  /\ Done(result) \in Operations /\ Keeps(Done(result))
           /\ Done(result).phase = "done" /\ Done(result).pc = "done"
           /\ Done(result).bad = op.bad /\ Done(result).result = result
<1>1. PICK o : o = At("done", "done")
  OBVIOUS
<1>2. "done" \in Phases /\ "done" \in Places
  BY DEF Phases, Places
<1>3. o \in Operations
  BY <1>1, <1>2, Moves, Zenon
<1>4. Done(result) = [o EXCEPT !.result = result]
  BY <1>1, Zenon DEF At, Done
<1>5. Done(result) \in Operations
  BY <1>3, <1>4, Edits, Zenon
<1> QED
  BY <1>5 DEF Done, Operations, Keeps

\* A rollback step that failed is remembered and the next one tried.
LEMMA Spoils ==
    ASSUME op \in Operations, NEW phase \in Phases, NEW pc \in Places,
           Failed = [At(phase, pc) EXCEPT !.bad = TRUE]
    PROVE  /\ Failed \in Operations /\ Keeps(Failed)
           /\ Failed.phase = phase /\ Failed.pc = pc /\ Failed.bad /\ Failed.result = op.result
<1>1. /\ At(phase, pc) \in Operations /\ Keeps(At(phase, pc))
      /\ At(phase, pc).phase = phase /\ At(phase, pc).pc = pc
      /\ At(phase, pc).result = op.result
  BY Moves
<1>2. PICK b \in BOOLEAN : b = TRUE
  OBVIOUS
<1>3. Failed = [At(phase, pc) EXCEPT !.bad = b]
  BY <1>2, Zenon
<1>4. Failed \in Operations
  BY <1>1, <1>3, Edits, Zenon
<1>5. /\ Failed.phase = At(phase, pc).phase /\ Failed.pc = At(phase, pc).pc
      /\ Failed.goal = At(phase, pc).goal /\ Failed.set = At(phase, pc).set /\ Failed.t = At(phase, pc).t
      /\ Failed.now = At(phase, pc).now /\ Failed.expect = At(phase, pc).expect
      /\ Failed.want = At(phase, pc).want /\ Failed.version = At(phase, pc).version
      /\ Failed.extra = At(phase, pc).extra /\ Failed.result = At(phase, pc).result /\ Failed.bad = b
  BY <1>1, <1>3 DEF Operations
<1>6. Failed.bad
  BY <1>2, <1>5, Zenon
<1>7. Keeps(Failed)
  BY <1>1, <1>5 DEF Keeps
<1> QED
  BY <1>1, <1>4, <1>5, <1>6, <1>7

\* Where an error leads.
LEMMA FailedIs ==
    ASSUME IInv, op.pc \notin {"idle", "done"}
    PROVE  /\ Failed \in Operations /\ Keeps(Failed)
           /\ \/ Failed.phase = "done" /\ Failed.pc = "done" /\ Failed.result \in {"error", "incomplete"}
              \/ /\ op.phase = "update" /\ Failed.phase = "confirm" /\ Failed.pc = "select"
                 /\ Failed.result = op.result
              \/ /\ op.phase \in {"check", "apply", "final", "confirm"}
                 /\ Failed.phase = "undoProfile" /\ Failed.pc = "current"
                 /\ Failed.result = op.result
              \/ /\ op.phase = "undoProfile" /\ Failed.phase = "undoActive" /\ Failed.pc = "current"
                 /\ Failed.bad /\ Failed.result = op.result
              \/ /\ op.phase = "undoActive" /\ Failed.phase = "undoRoutes" /\ Failed.pc = "routes"
                 /\ Failed.bad /\ Failed.result = op.result
<1>0. op \in Operations
  BY Types
<1>7. /\ {"confirm", "undoProfile", "undoActive", "undoRoutes"} \subseteq Phases
      /\ {"select", "current", "routes"} \subseteq Places
      /\ {"error", "incomplete"} \subseteq Results
  BY DEF Phases, Places, Results
<1>1. CASE op.phase \in {"resolve", "device"}
  <2>1. Failed = Done("error")
    BY <1>1, Zenon DEF Failed
  <2>2. "error" \in Results
    BY <1>7
  <2>3. /\ Failed \in Operations /\ Keeps(Failed) /\ Failed.phase = "done"
        /\ Failed.pc = "done" /\ Failed.result = "error"
    BY <1>0, <2>1, <2>2, Ends, Zenon
  <2> QED
    BY <2>3
<1>2. CASE op.phase = "update"
  <2>1. Failed = At("confirm", "select")
    BY <1>2 DEF Failed
  <2>2. "confirm" \in Phases /\ "select" \in Places
    BY <1>7
  <2>3. /\ Failed \in Operations /\ Keeps(Failed) /\ Failed.phase = "confirm"
        /\ Failed.pc = "select" /\ Failed.result = op.result
    BY <1>0, <2>1, <2>2, Moves, Zenon
  <2> QED
    BY <1>2, <2>3
<1>3. CASE op.phase \in {"check", "apply", "final", "confirm"}
  <2>1. Failed = At("undoProfile", "current")
    BY <1>3 DEF Failed, Undo
  <2>2. "undoProfile" \in Phases /\ "current" \in Places
    BY <1>7
  <2>3. /\ Failed \in Operations /\ Keeps(Failed) /\ Failed.phase = "undoProfile"
        /\ Failed.pc = "current" /\ Failed.result = op.result
    BY <1>0, <2>1, <2>2, Moves, Zenon
  <2> QED
    BY <1>3, <2>3
<1>4. CASE op.phase = "undoProfile"
  <2>1. Failed = [At("undoActive", "current") EXCEPT !.bad = TRUE]
    BY <1>4 DEF Failed
  <2>2. "undoActive" \in Phases /\ "current" \in Places
    BY <1>7
  <2>3. /\ Failed \in Operations /\ Keeps(Failed) /\ Failed.phase = "undoActive"
        /\ Failed.pc = "current" /\ Failed.bad /\ Failed.result = op.result
    BY <1>0, <2>1, <2>2, Spoils, Zenon
  <2> QED
    BY <1>4, <2>3
<1>5. CASE op.phase = "undoActive"
  <2>1. Failed = [At("undoRoutes", "routes") EXCEPT !.bad = TRUE]
    BY <1>5 DEF Failed
  <2>2. "undoRoutes" \in Phases /\ "routes" \in Places
    BY <1>7
  <2>3. /\ Failed \in Operations /\ Keeps(Failed) /\ Failed.phase = "undoRoutes"
        /\ Failed.pc = "routes" /\ Failed.bad /\ Failed.result = op.result
    BY <1>0, <2>1, <2>2, Spoils, Zenon
  <2> QED
    BY <1>5, <2>3
<1>6. CASE op.phase \in {"idle", "undoRoutes", "done"}
  <2>1. Failed = Done("incomplete")
    BY <1>6 DEF Failed
  <2>2. "incomplete" \in Results
    BY <1>7
  <2>3. /\ Failed \in Operations /\ Keeps(Failed) /\ Failed.phase = "done"
        /\ Failed.pc = "done" /\ Failed.result = "incomplete"
    BY <1>0, <2>1, <2>2, Ends, Zenon
  <2> QED
    BY <2>3
<1> QED
  BY <1>1, <1>2, <1>3, <1>4, <1>5, <1>6, <1>0 DEF Operations, Phases

-----------------------------------------------------------------------------
\* The bounds on events and failing calls.
Countdown == events' \in 0 .. MaxEvent /\ faults' \in 0 .. MaxFault

\* Wherever an error leads, the invariant asks nothing of profile and applied
\* values there: a call that failed may have had its effect.
LEMMA Fails ==
    ASSUME IInv, op' = Failed, op.pc \notin {"idle", "done"}, UNCHANGED <<dev, calm>>, Countdown,
           profile' \in Profiles, active' \in Applied, active'.uuid = active.uuid, routes' \in Pairs
    PROVE  IInv'
<1> USE Types
<1>1. /\ op' \in Operations /\ Keeps(op')
      /\ \/ op'.phase = "done" /\ op'.pc = "done" /\ op'.result \in {"error", "incomplete"}
         \/ /\ op.phase = "update" /\ op'.phase = "confirm" /\ op'.pc = "select"
            /\ op'.result = op.result
         \/ /\ op.phase \in {"check", "apply", "final", "confirm"}
            /\ op'.phase = "undoProfile" /\ op'.pc = "current"
            /\ op'.result = op.result
         \/ /\ op.phase = "undoProfile" /\ op'.phase = "undoActive" /\ op'.pc = "current"
            /\ op'.bad /\ op'.result = op.result
         \/ /\ op.phase = "undoActive" /\ op'.phase = "undoRoutes" /\ op'.pc = "routes"
            /\ op'.bad /\ op'.result = op.result
  BY FailedIs
<1>2. op.result = "none"
  BY DEF IInv, PlaceInv
<1>3. TypeOK'
  BY <1>1 DEF TypeOK, Countdown, Profiles, Applied
<1>4. PlaceInv'
  BY <1>1, <1>2 DEF PlaceInv, Resolving
<1>5. VersionInv'
  BY <1>1 DEF VersionInv
<1>6. WantInv'
  BY <1>1 DEF WantInv
<1>7. CalmInv'
  <2>1. calm' = calm /\ op'.t = op.t /\ dev' = dev
    BY <1>1 DEF Keeps
  <2>2. ReadInv' /\ UndoInv'
    BY <1>1 DEF ReadInv, UndoInv, Resolving
  <2>3. op'.phase # "done" => op.phase \notin {"idle", "resolve", "done"}
    BY <1>1
  <2>4. calm => TargetInv'
    BY <1>1, <2>1, <2>3 DEF IInv, CalmInv, TargetInv
  <2> QED
    BY <2>1, <2>2, <2>4 DEF CalmInv
<1>8. ResultInv'
  BY <1>1, <1>2 DEF ResultInv, RestoredMeansOriginal, OkMeansApplied
<1> QED
  BY <1>3, <1>4, <1>5, <1>6, <1>7, <1>8 DEF IInv

\* The call ends with a result that is true.
LEMMA Finishes ==
    ASSUME IInv, UNCHANGED <<system, calm, events, faults>>, op' \in Operations,
           op'.phase = "done", op'.pc = "done", op'.result # "none", ResultInv'
    PROVE  IInv'
<1>1. TypeOK'
  BY DEF IInv, TypeOK, system
<1>2. PlaceInv' /\ VersionInv' /\ WantInv' /\ CalmInv'
  BY DEF PlaceInv, Resolving, VersionInv, WantInv, CalmInv, ReadInv, TargetInv, UndoInv
<1> QED
  BY <1>1, <1>2 DEF IInv

\* What a step inside a call owes to the invariant.
LEMMA Goes ==
    ASSUME IInv, UNCHANGED <<system, calm, events, faults>>, op' \in Operations,
           op'.result = "none", PlaceInv', VersionInv', WantInv', calm => (ReadInv /\ TargetInv /\ UndoInv)'
    PROVE  IInv'
<1>1. TypeOK'
  BY DEF IInv, TypeOK, system
<1>2. CalmInv'
  BY DEF CalmInv
<1>3. ResultInv'
  BY DEF ResultInv, RestoredMeansOriginal, OkMeansApplied
<1> QED
  BY <1>1, <1>2, <1>3 DEF IInv

\* rollback_profile begins.
LEMMA Undoes ==
    ASSUME IInv, UNCHANGED <<system, calm, events, faults>>, op' = Undo,
           op.phase \in {"device", "final", "confirm"}
    PROVE  IInv'
<1> USE Types
<1>1. "undoProfile" \in Phases /\ "current" \in Places
  BY DEF Phases, Places
<1>2. /\ op' \in Operations /\ Keeps(op') /\ op'.phase = "undoProfile" /\ op'.pc = "current"
      /\ op'.result = op.result
  BY <1>1, Moves DEF Undo
<1>3. op.result = "none"
  BY DEF IInv, PlaceInv
<1>4. PlaceInv' /\ VersionInv' /\ WantInv' /\ ReadInv' /\ UndoInv'
  BY <1>2, <1>3 DEF PlaceInv, Resolving, VersionInv, WantInv, ReadInv, UndoInv
<1>5. calm => TargetInv'
  BY <1>2 DEF IInv, CalmInv, TargetInv, system, Keeps
<1> QED
  BY <1>2, <1>3, <1>4, <1>5, Goes

\* What resolve found is compared: the answer is true, or the work goes on.
LEMMA Decides ==
    ASSUME IInv, UNCHANGED <<system, calm, events, faults>>, op.pc = "routes", Resolving,
           NEW t \in Targets, t.dev = dev, t.routes = routes, op' = Resolved(t),
           calm => /\ t.uuid = active.uuid /\ t.active = active.v
                   /\ t.profile = profile[t.uuid].v
    PROVE  IInv'
<1> USE Types
<1>0. op.result = "none" /\ op.phase \in {"resolve", "confirm", "final"}
  BY DEF IInv, PlaceInv, Resolving
<1>1. CASE op.phase = "resolve"
  <2>1. CASE Reached(t, op.goal)
    <3>1. op' = [Done("ok") EXCEPT !.t = t]
      BY <1>1, <2>1 DEF Resolved
    <3>2. Done("ok") \in Operations /\ Keeps(Done("ok")) /\ Done("ok").phase = "done"
          /\ Done("ok").pc = "done" /\ Done("ok").result = "ok"
      BY Ends DEF Results
    <3>3. op' \in Operations
      BY <3>1, <3>2, Edits, Zenon
    <3>4. /\ op'.phase = "done" /\ op'.pc = "done" /\ op'.result = "ok" /\ op'.t = t
          /\ op'.goal = op.goal
      BY <3>1, <3>2 DEF Operations, Keeps
    <3>5. ResultInv'
      BY <2>1, <3>4 DEF ResultInv, RestoredMeansOriginal, OkMeansApplied, Reached, SettingsAll,
         PolicyEnabled, Owned, system
    <3> QED
      BY <3>3, <3>4, <3>5, Finishes
  <2>2. CASE ~Reached(t, op.goal) /\ ~op.set
    <3>1. op' = Done("off")
      BY <1>1, <2>2 DEF Resolved
    <3>2. op' \in Operations /\ op'.phase = "done" /\ op'.pc = "done" /\ op'.result = "off"
      BY <3>1, Ends DEF Results
    <3>3. ResultInv'
      BY <3>2 DEF ResultInv, RestoredMeansOriginal, OkMeansApplied
    <3> QED
      BY <3>2, <3>3, Finishes
  <2>3. CASE ~Reached(t, op.goal) /\ op.set
    <3>1. op' = [At("resolve", "reread") EXCEPT !.t = t]
      BY <1>1, <2>3 DEF Resolved
    <3>2. "resolve" \in Phases /\ "reread" \in Places
      BY DEF Phases, Places
    <3>3. PICK o : o = At("resolve", "reread")
      OBVIOUS
    <3>4. /\ o \in Operations /\ o.phase = "resolve" /\ o.pc = "reread" /\ o.result = "none"
      BY <1>0, <3>2, <3>3, Moves
    <3>5. op' = [o EXCEPT !.t = t]
      BY <3>1, <3>3
    <3>6. op' \in Operations
      BY <3>4, <3>5, Edits, Zenon
    <3>7. op'.phase = "resolve" /\ op'.pc = "reread" /\ op'.result = "none" /\ op'.t = t
      BY <3>4, <3>5 DEF Operations
    <3>8. PlaceInv' /\ VersionInv' /\ WantInv'
      BY <3>7 DEF PlaceInv, Resolving, VersionInv, WantInv
    <3>9. calm => (ReadInv /\ TargetInv /\ UndoInv)'
      BY <3>7 DEF ReadInv, TargetInv, UndoInv, Resolving, system
    <3> QED
      BY <3>6, <3>7, <3>8, <3>9, Goes
  <2> QED
    BY <2>1, <2>2, <2>3
<1>2. CASE op.phase = "confirm"
  <2>1. op' = IF SameSelection(t, op.t) /\ SameValues(t, op.t) THEN Done("restored") ELSE Undo
    BY <1>2 DEF Resolved
  <2>2. CASE SameSelection(t, op.t) /\ SameValues(t, op.t)
    <3>1. /\ op' \in Operations /\ op'.phase = "done" /\ op'.pc = "done"
          /\ op'.result = "restored" /\ Keeps(op')
      BY <2>1, <2>2, Ends DEF Results
    <3>2. ResultInv'
      BY <2>2, <3>1 DEF ResultInv, RestoredMeansOriginal, OkMeansApplied, Original, SameSelection,
         SameValues, system, Keeps
    <3> QED
      BY <3>1, <3>2, Finishes
  <2>3. CASE ~(SameSelection(t, op.t) /\ SameValues(t, op.t))
    BY <1>2, <2>1, <2>3, Undoes
  <2> QED
    BY <2>2, <2>3
<1>3. CASE op.phase = "final"
  <2>1. op' = IF SameSelection(t, op.t) /\ Reached(t, op.goal) THEN Done("ok")
              ELSE IF SameSelection(t, op.t) /\ op.goal /\ SettingsAll(t, TRUE) THEN Done("pending")
              ELSE Undo
    BY <1>3 DEF Resolved
  <2>2. CASE SameSelection(t, op.t) /\ Reached(t, op.goal)
    <3>1. /\ op' \in Operations /\ op'.phase = "done" /\ op'.pc = "done"
          /\ op'.result = "ok" /\ Keeps(op')
      BY <2>1, <2>2, Ends DEF Results
    <3>2. ResultInv'
      BY <2>2, <3>1 DEF ResultInv, RestoredMeansOriginal, OkMeansApplied, Reached, SettingsAll,
         PolicyEnabled, Owned, SameSelection, system, Keeps
    <3> QED
      BY <3>1, <3>2, Finishes
  <2>3. CASE op' = Done("pending")
    <3>1. op' \in Operations /\ op'.phase = "done" /\ op'.pc = "done" /\ op'.result = "pending"
      BY <2>3, Ends DEF Results
    <3>2. ResultInv'
      BY <3>1 DEF ResultInv, RestoredMeansOriginal, OkMeansApplied
    <3> QED
      BY <3>1, <3>2, Finishes
  <2>4. CASE op' = Undo
    BY <1>3, <2>4, Undoes
  <2> QED
    BY <2>1, <2>2, <2>3, <2>4
<1> QED
  BY <1>0, <1>1, <1>2, <1>3

\* resolve: what is read, and where it leads.
LEMMA Resolves ==
    ASSUME IInv, Begin \/ Select \/ ReadProfile \/ ReadActive \/ ReadRoutes
    PROVE  IInv'
<1> USE Types
<1>f. ASSUME op' = Failed, op.pc \notin {"idle", "done"}, UNCHANGED <<system, calm, events, faults>>
      PROVE  IInv'
  BY <1>f, Fails DEF system, Countdown, IInv, TypeOK
<1>1. CASE Begin
  <2>1. PICK goal, set \in BOOLEAN :
          op' = [At("resolve", "select") EXCEPT !.goal = goal \/ ~set, !.set = set]
    BY <1>1 DEF Begin
  <2>2. UNCHANGED <<system, calm, events, faults>> /\ op.result = "none"
    BY <1>1 DEF Begin, IInv, PlaceInv
  <2>3. "resolve" \in Phases /\ "select" \in Places
    BY DEF Phases, Places
  <2>4. PICK o : o = At("resolve", "select")
    OBVIOUS
  <2>5. o \in Operations /\ o.phase = "resolve" /\ o.pc = "select" /\ o.result = "none"
    BY <2>2, <2>3, <2>4, Moves
  <2>6. PICK b \in BOOLEAN : b = (goal \/ ~set)
    OBVIOUS
  <2>7. PICK q : q = [o EXCEPT !.goal = b]
    OBVIOUS
  <2>8. q \in Operations
    BY <2>5, <2>7, Edits, Zenon
  <2>9. op' = [q EXCEPT !.set = set]
    BY <2>1, <2>4, <2>6, <2>7, Zenon
  <2>10. op' \in Operations
    BY <2>8, <2>9, Edits, Zenon
  <2>11. op'.phase = "resolve" /\ op'.pc = "select" /\ op'.result = "none"
    BY <2>5, <2>7, <2>9 DEF Operations
  <2>12. PlaceInv' /\ VersionInv' /\ WantInv' /\ (ReadInv /\ TargetInv /\ UndoInv)'
    BY <2>11 DEF PlaceInv, Resolving, VersionInv, WantInv, ReadInv, TargetInv, UndoInv
  <2> QED
    BY <2>2, <2>10, <2>11, <2>12, Goes
<1>2. CASE Select
  <2>1. /\ UNCHANGED <<system, calm, events, faults>> /\ op.result = "none"
        /\ op.pc = "select" /\ Resolving
    BY <1>2 DEF Select, Call, IInv, PlaceInv
  <2>2. CASE dev = 0
    BY <2>1, <2>2, <1>2, <1>f DEF Select, Call
  <2>3. CASE dev # 0
    <3>1. op' = [op EXCEPT !.pc = "profile", !.now.dev = dev, !.now.uuid = active.uuid]
      BY <1>2, <2>3 DEF Select, Call
    <3>2. PICK n : n = [op.now EXCEPT !.dev = dev, !.uuid = active.uuid]
      OBVIOUS
    <3>3. n \in Targets /\ n.dev = dev /\ n.uuid = active.uuid
      BY <3>2 DEF Targets, Applied
    <3>4. op' = [[op EXCEPT !.pc = "profile"] EXCEPT !.now = n]
      BY <3>1, <3>2 DEF Operations
    <3>5. [op EXCEPT !.pc = "profile"] \in Operations
      BY Edits DEF Places
    <3>6. op' \in Operations
      BY <3>3, <3>4, <3>5, Edits, Zenon
    <3>7. /\ op'.pc = "profile" /\ op'.phase = op.phase /\ op'.result = "none"
          /\ op'.now = n /\ op'.t = op.t
      BY <2>1, <3>4, <3>5 DEF Operations
    <3>8. PlaceInv' /\ VersionInv' /\ WantInv'
      BY <2>1, <3>7 DEF PlaceInv, Resolving, VersionInv, WantInv
    <3>9. calm => (ReadInv /\ TargetInv /\ UndoInv)'
      BY <2>1, <3>3, <3>7 DEF IInv, CalmInv, ReadInv, TargetInv, UndoInv, Resolving, system
    <3> QED
      BY <2>1, <3>6, <3>7, <3>8, <3>9, Goes
  <2> QED
    BY <2>2, <2>3
<1>3. CASE ReadProfile
  <2>1. /\ UNCHANGED <<system, calm, events, faults>> /\ op.result = "none"
        /\ op.pc = "profile" /\ Resolving
        /\ op' = [op EXCEPT !.pc = "active", !.now.profile = profile[op.now.uuid].v]
    BY <1>3 DEF ReadProfile, Call, IInv, PlaceInv
  <2>2. PICK n : n = [op.now EXCEPT !.profile = profile[op.now.uuid].v]
    OBVIOUS
  <2>3. /\ n \in Targets /\ n.dev = op.now.dev /\ n.uuid = op.now.uuid
        /\ n.profile = profile[op.now.uuid].v
    BY <2>2 DEF Targets, Profiles
  <2>4. op' = [[op EXCEPT !.pc = "active"] EXCEPT !.now = n]
    BY <2>1, <2>2 DEF Operations
  <2>5. [op EXCEPT !.pc = "active"] \in Operations
    BY Edits DEF Places
  <2>6. op' \in Operations
    BY <2>3, <2>4, <2>5, Edits, Zenon
  <2>7. /\ op'.pc = "active" /\ op'.phase = op.phase /\ op'.result = "none"
        /\ op'.now = n /\ op'.t = op.t
    BY <2>1, <2>4, <2>5 DEF Operations
  <2>8. PlaceInv' /\ VersionInv' /\ WantInv'
    BY <2>1, <2>7 DEF PlaceInv, Resolving, VersionInv, WantInv
  <2>9. calm => (ReadInv /\ TargetInv /\ UndoInv)'
    BY <2>1, <2>3, <2>7 DEF IInv, CalmInv, ReadInv, TargetInv, UndoInv, Resolving, system
  <2> QED
    BY <2>1, <2>6, <2>7, <2>8, <2>9, Goes
<1>4. CASE ReadActive
  <2>1. /\ UNCHANGED <<system, calm, events, faults>> /\ op.result = "none"
        /\ op.pc = "active" /\ Resolving
        /\ op' = IF dev = op.now.dev /\ active.uuid = op.now.uuid
                   THEN [op EXCEPT !.pc = "routes", !.now.active = active.v]
                   ELSE Failed
    BY <1>4 DEF ReadActive, Call, IInv, PlaceInv
  <2>2. CASE ~(dev = op.now.dev /\ active.uuid = op.now.uuid)
    BY <2>1, <2>2, <1>f
  <2>3. CASE dev = op.now.dev /\ active.uuid = op.now.uuid
    <3>1. op' = [op EXCEPT !.pc = "routes", !.now.active = active.v]
      BY <2>1, <2>3
    <3>2. PICK n : n = [op.now EXCEPT !.active = active.v]
      OBVIOUS
    <3>3. /\ n \in Targets /\ n.dev = op.now.dev /\ n.uuid = op.now.uuid
          /\ n.profile = op.now.profile /\ n.active = active.v
      BY <3>2 DEF Targets, Applied
    <3>4. op' = [[op EXCEPT !.pc = "routes"] EXCEPT !.now = n]
      BY <3>1, <3>2 DEF Operations
    <3>5. [op EXCEPT !.pc = "routes"] \in Operations
      BY Edits DEF Places
    <3>6. op' \in Operations
      BY <3>3, <3>4, <3>5, Edits, Zenon
    <3>7. /\ op'.pc = "routes" /\ op'.phase = op.phase /\ op'.result = "none"
          /\ op'.now = n /\ op'.t = op.t
      BY <2>1, <3>4, <3>5 DEF Operations
    <3>8. PlaceInv' /\ VersionInv' /\ WantInv'
      BY <2>1, <3>7 DEF PlaceInv, Resolving, VersionInv, WantInv
    <3>9. calm => (ReadInv /\ TargetInv /\ UndoInv)'
      BY <2>1, <3>3, <3>7 DEF IInv, CalmInv, ReadInv, TargetInv, UndoInv, Resolving, system
    <3> QED
      BY <2>1, <3>6, <3>7, <3>8, <3>9, Goes
  <2> QED
    BY <2>2, <2>3
<1>5. CASE ReadRoutes
  <2>1. /\ UNCHANGED <<system, calm, events, faults>> /\ op.result = "none"
        /\ op.pc = "routes" /\ Resolving
        /\ op' = IF dev = op.now.dev THEN Resolved([op.now EXCEPT !.routes = routes]) ELSE Failed
    BY <1>5 DEF ReadRoutes, Call, IInv, PlaceInv
  <2>2. CASE dev # op.now.dev
    BY <2>1, <2>2, <1>f
  <2>3. CASE dev = op.now.dev
    <3>1. PICK t : t = [op.now EXCEPT !.routes = routes]
      OBVIOUS
    <3>2. /\ t \in Targets /\ t.dev = dev /\ t.uuid = op.now.uuid /\ t.profile = op.now.profile
          /\ t.active = op.now.active /\ t.routes = routes
      BY <2>3, <3>1 DEF Targets
    <3>3. calm => /\ t.uuid = active.uuid /\ t.active = active.v
                  /\ t.profile = profile[t.uuid].v
      BY <2>1, <3>2 DEF IInv, CalmInv, ReadInv
    <3>4. op' = Resolved(t)
      BY <2>1, <2>3, <3>1
    <3> QED
      BY <2>1, <3>2, <3>3, <3>4, Decides
  <2> QED
    BY <2>2, <2>3
<1> QED
  BY <1>1, <1>2, <1>3, <1>4, <1>5

\* The calls of set_with_backend and rollback_profile that only read.
LEMMA Reads ==
    ASSUME IInv, \/ Reread \/ ReadVersion \/ ReadSettings \/ VerifyUpdate \/ CheckUpdate
                 \/ CheckDevice \/ ApplyProfile \/ ReadApplied \/ VerifyApplied
                 \/ UndoProfile \/ UndoActive \/ UndoRoutes
    PROVE  IInv'
<1> USE Types
<1>f. ASSUME op' = Failed, op.pc \notin {"idle", "done"}, UNCHANGED <<system, calm, events, faults>>
      PROVE  IInv'
  BY <1>f, Fails DEF system, Countdown, IInv, TypeOK
<1>m. ASSUME NEW phase \in Phases, NEW pc \in Places, op' = At(phase, pc),
             UNCHANGED <<system, calm, events, faults>>,
             op.phase \notin {"idle", "resolve", "done"}, phase \notin {"idle", "resolve", "done"},
             \/ phase = "check" /\ pc = "read"
             \/ phase = "device" /\ pc = "device"
             \/ phase = "apply" /\ pc = "current"
             \/ phase = "final" /\ pc = "select"
             \/ phase = "undoProfile" /\ pc = "read" /\ op.want = op.t.profile
             \/ /\ phase = "undoActive" /\ pc = "current"
                /\ calm /\ ~op.bad => profile[op.t.uuid].v = op.t.profile
             \/ /\ phase = "undoRoutes" /\ pc = "routes"
                /\ calm /\ ~op.bad => profile[op.t.uuid].v = op.t.profile /\ active.v = op.t.active
      PROVE  IInv'
  <2>1. /\ op' \in Operations /\ Keeps(op') /\ op'.phase = phase /\ op'.pc = pc
        /\ op'.bad = op.bad /\ op'.result = op.result
    BY <1>m, Moves
  <2>2. op.result = "none"
    BY <1>m DEF IInv, PlaceInv
  <2>3. PlaceInv' /\ VersionInv' /\ WantInv'
    BY <1>m, <2>1, <2>2 DEF PlaceInv, Resolving, VersionInv, WantInv, Keeps
  <2>4. calm => (ReadInv /\ TargetInv /\ UndoInv)'
    BY <1>m, <2>1 DEF IInv, CalmInv, ReadInv, TargetInv, UndoInv, Resolving, Keeps, system
  <2> QED
    BY <1>m, <2>1, <2>2, <2>3, <2>4, Goes
<1>w. ASSUME NEW phase \in {"update", "undoProfile"}, NEW expect \in Pairs, NEW want \in Pairs,
             op' = Modify(phase, expect, want), UNCHANGED <<system, calm, events, faults>>,
             op.phase \notin {"idle", "resolve", "done"} \/ op.pc = "reread", op.pc # "done",
             phase = "undoProfile" => want = op.t.profile
      PROVE  IInv'
  <2>1. phase \in Phases /\ "version" \in Places
    BY <1>w DEF Phases, Places
  <2>2. PICK o : o = At(phase, "version")
    OBVIOUS
  <2>3. /\ o \in Operations /\ Keeps(o) /\ o.phase = phase /\ o.pc = "version"
        /\ o.result = op.result
    BY <2>1, <2>2, Moves
  <2>4. [o EXCEPT !.expect = expect] \in Operations
    BY <2>3, Edits
  <2>5. op' = [[o EXCEPT !.expect = expect] EXCEPT !.want = want]
    BY <1>w, <2>2, Zenon DEF Modify
  <2>6. op' \in Operations
    BY <2>4, <2>5, Edits
  <2>7. /\ op'.phase = phase /\ op'.pc = "version" /\ op'.result = op.result
        /\ op'.t = op.t /\ op'.want = want
    BY <2>3, <2>5 DEF Operations, Keeps
  <2>8. op.result = "none"
    BY <1>w DEF IInv, PlaceInv
  <2>9. PlaceInv' /\ VersionInv' /\ WantInv'
    BY <1>w, <2>7, <2>8 DEF PlaceInv, Resolving, VersionInv, WantInv
  <2>10. calm => (ReadInv /\ TargetInv /\ UndoInv)'
    BY <1>w, <2>7 DEF IInv, CalmInv, ReadInv, TargetInv, UndoInv, Resolving, system
  <2> QED
    BY <1>w, <2>6, <2>7, <2>8, <2>9, <2>10, Goes
<1>o. Owned \in Pairs /\ op.t.profile \in Pairs /\ op.t.active \in Pairs
  <2>1. op.goal \in BOOLEAN
    BY DEF Operations
  <2> QED
    BY <2>1, BothIsPair DEF Owned, Targets
<1>1. CASE Reread
  <2>1. /\ UNCHANGED <<system, calm, events, faults>> /\ op.pc = "reread"
        /\ op' = IF VerifyDevice /\ profile[op.t.uuid].v = op.t.profile
                   THEN Modify("update", op.t.profile, Owned) ELSE Done("error")
    BY <1>1 DEF Reread, Call
  <2>2. CASE op' = Done("error")
    <3>1. op' \in Operations /\ op'.phase = "done" /\ op'.pc = "done" /\ op'.result = "error"
      BY <2>2, Ends DEF Results
    <3>2. ResultInv'
      BY <3>1 DEF ResultInv, RestoredMeansOriginal, OkMeansApplied
    <3> QED
      BY <2>1, <3>1, <3>2, Finishes
  <2>3. CASE op' = Modify("update", op.t.profile, Owned)
    BY <1>w, <1>o, <2>1, <2>3
  <2> QED
    BY <2>1, <2>2, <2>3
<1>2. CASE ReadVersion
  <2>1. /\ UNCHANGED <<system, calm, events, faults>> /\ op.pc = "version" /\ op.result = "none"
        /\ op' = [op EXCEPT !.pc = "settings", !.version = profile[op.t.uuid].version]
        /\ op.phase \in {"update", "undoProfile"}
    BY <1>2 DEF ReadVersion, Call, IInv, PlaceInv
  <2>2. "settings" \in Places /\ profile[op.t.uuid].version \in Nat
    BY DEF Places, Profiles
  <2>3. op' = [[op EXCEPT !.pc = "settings"] EXCEPT !.version = profile[op.t.uuid].version]
    BY <2>1, Zenon
  <2>4. [op EXCEPT !.pc = "settings"] \in Operations
    BY <2>2, Edits
  <2>5. op' \in Operations
    BY <2>2, <2>3, <2>4, Edits
  <2>6. /\ op'.pc = "settings" /\ op'.phase = op.phase /\ op'.result = "none" /\ op'.t = op.t
        /\ op'.version = profile[op.t.uuid].version /\ op'.want = op.want
    BY <2>1 DEF Operations
  <2>7. PlaceInv' /\ VersionInv' /\ WantInv'
    BY <2>1, <2>2, <2>6 DEF IInv, PlaceInv, Resolving, VersionInv, WantInv, system
  <2>8. calm => (ReadInv /\ TargetInv /\ UndoInv)'
    BY <2>1, <2>6 DEF IInv, CalmInv, ReadInv, TargetInv, UndoInv, Resolving, system
  <2> QED
    BY <2>1, <2>5, <2>6, <2>7, <2>8, Goes
<1>3. CASE ReadSettings
  <2>1. /\ UNCHANGED <<system, calm, events, faults>> /\ op.pc = "settings" /\ op.result = "none"
        /\ op' = IF profile[op.t.uuid].v = op.expect
                   THEN [op EXCEPT !.pc = "write", !.extra = profile[op.t.uuid].extra] ELSE Failed
        /\ op.phase \in {"update", "undoProfile"}
    BY <1>3 DEF ReadSettings, Call, IInv, PlaceInv
  <2>2. CASE profile[op.t.uuid].v # op.expect
    BY <2>1, <2>2, <1>f
  <2>3. CASE profile[op.t.uuid].v = op.expect
    <3>1. op' = [op EXCEPT !.pc = "write", !.extra = profile[op.t.uuid].extra]
      BY <2>1, <2>3
    <3>2. "write" \in Places /\ profile[op.t.uuid].extra \in Nat
      BY DEF Places, Profiles
    <3>3. op' = [[op EXCEPT !.pc = "write"] EXCEPT !.extra = profile[op.t.uuid].extra]
      BY <3>1, Zenon
    <3>4. [op EXCEPT !.pc = "write"] \in Operations
      BY <3>2, Edits
    <3>5. op' \in Operations
      BY <3>2, <3>3, <3>4, Edits
    <3>6. /\ op'.pc = "write" /\ op'.phase = op.phase /\ op'.result = "none" /\ op'.t = op.t
          /\ op'.version = op.version /\ op'.want = op.want /\ op'.expect = op.expect
          /\ op'.extra = profile[op.t.uuid].extra
      BY <2>1, <3>1 DEF Operations
    <3>7. PlaceInv' /\ VersionInv' /\ WantInv'
      BY <2>1, <2>3, <3>6 DEF IInv, PlaceInv, Resolving, VersionInv, WantInv, system
    <3>8. calm => (ReadInv /\ TargetInv /\ UndoInv)'
      BY <2>1, <3>6 DEF IInv, CalmInv, ReadInv, TargetInv, UndoInv, Resolving, system
    <3> QED
      BY <2>1, <3>5, <3>6, <3>7, <3>8, Goes
  <2> QED
    BY <2>2, <2>3
<1>4. CASE VerifyUpdate
  <2>1. /\ UNCHANGED <<system, calm, events, faults>> /\ op.pc = "verify"
        /\ op' = IF profile[op.t.uuid].v # op.want THEN Failed
                 ELSE IF op.phase = "update" THEN At("check", "read") ELSE At("undoProfile", "read")
        /\ op.phase \in {"update", "undoProfile"}
        /\ op.phase = "undoProfile" => op.want = op.t.profile
    BY <1>4 DEF VerifyUpdate, Call, IInv, PlaceInv, WantInv
  <2>2. CASE op' = Failed
    BY <2>1, <2>2, <1>f
  <2>3. CASE op' = At("check", "read")
    <3>1. "check" \in Phases /\ "read" \in Places
      BY DEF Phases, Places
    <3>2. op.phase \notin {"idle", "resolve", "done"}
      BY <2>1
    <3> QED
      BY <2>1, <2>3, <3>1, <3>2, <1>m
  <2>4. CASE op' = At("undoProfile", "read") /\ op.phase = "undoProfile"
    BY <2>1, <2>4, <1>m DEF Phases, Places
  <2> QED
    BY <2>1, <2>2, <2>3, <2>4
<1>5. CASE CheckUpdate
  <2>1. /\ UNCHANGED <<system, calm, events, faults>> /\ op.pc = "read"
        /\ op' = IF profile[op.t.uuid].v # op.want THEN Failed
                 ELSE IF op.phase = "check" THEN At("device", "device") ELSE At("undoActive", "current")
        /\ op.phase \in {"check", "undoProfile"}
        /\ op.phase = "undoProfile" => op.want = op.t.profile
    BY <1>5 DEF CheckUpdate, Call, IInv, PlaceInv, WantInv
  <2>2. CASE op' = Failed
    BY <2>1, <2>2, <1>f
  <2>3. CASE op' = At("device", "device")
    BY <2>1, <2>3, <1>m DEF Phases, Places
  <2>4. CASE op' = At("undoActive", "current") /\ profile[op.t.uuid].v = op.t.profile
    BY <2>1, <2>4, <1>m DEF Phases, Places
  <2> QED
    BY <2>1, <2>2, <2>3, <2>4
<1>6. CASE CheckDevice
  <2>1. /\ UNCHANGED <<system, calm, events, faults>> /\ op.phase = "device"
        /\ op' = At("apply", "current") \/ op' = Undo
    BY <1>6 DEF CheckDevice, Call, IInv, PlaceInv
  <2>2. CASE op' = At("apply", "current")
    <3>1. "apply" \in Phases /\ "current" \in Places
      BY DEF Phases, Places
    <3>2. op.phase \notin {"idle", "resolve", "done"}
      BY <2>1
    <3> QED
      BY <2>1, <2>2, <3>1, <3>2, <1>m
  <2> QED
    BY <2>1, <2>2, Undoes
<1>e. ASSUME NEW expect \in Pairs, NEW want \in Pairs,
             op' = [op EXCEPT !.pc = "applied", !.expect = expect, !.want = want],
             UNCHANGED <<system, calm, events, faults>>, op.phase \in {"apply", "undoActive"},
             op.phase = "undoActive" => want = op.t.active
      PROVE  IInv'
  <2>1. "applied" \in Places
    BY DEF Places
  <2>2. PICK o : o = [op EXCEPT !.pc = "applied"]
    OBVIOUS
  <2>3. o \in Operations
    BY <2>1, <2>2, Edits
  <2>4. [o EXCEPT !.expect = expect] \in Operations
    BY <2>3, Edits
  <2>5. op' = [[o EXCEPT !.expect = expect] EXCEPT !.want = want]
    BY <1>e, <2>2, Zenon
  <2>6. op' \in Operations
    BY <2>4, <2>5, Edits
  <2>7. op.result = "none"
    BY <1>e DEF IInv, PlaceInv
  <2>8. /\ op'.phase = op.phase /\ op'.pc = "applied" /\ op'.result = op.result
        /\ op'.t = op.t /\ op'.want = want /\ op'.bad = op.bad
    BY <1>e DEF Operations
  <2>9. PlaceInv' /\ VersionInv' /\ WantInv'
    BY <1>e, <2>7, <2>8 DEF PlaceInv, Resolving, VersionInv, WantInv
  <2>10. calm => (ReadInv /\ TargetInv /\ UndoInv)'
    BY <1>e, <2>8 DEF IInv, CalmInv, ReadInv, TargetInv, UndoInv, Resolving, system
  <2> QED
    BY <1>e, <2>6, <2>7, <2>8, <2>9, <2>10, Goes
<1>7. CASE ApplyProfile
  <2>1. /\ UNCHANGED <<system, calm, events, faults>> /\ op.phase = "apply" /\ op.pc = "current"
        /\ \/ op' = Failed \/ op' = At("final", "select")
           \/ op' = [op EXCEPT !.pc = "applied", !.expect = active.v, !.want = Owned]
    BY <1>7 DEF ApplyProfile, Call
  <2>2. CASE op' = Failed
    BY <2>1, <2>2, <1>f
  <2>3. CASE op' = At("final", "select")
    BY <2>1, <2>3, <1>m DEF Phases, Places
  <2>4. active.v \in Pairs
    BY DEF Applied
  <2> QED
    BY <2>1, <2>2, <2>3, <2>4, <1>e, <1>o
<1>8. CASE ReadApplied
  <2>1. /\ UNCHANGED <<system, calm, events, faults>> /\ op.pc = "applied" /\ op.result = "none"
        /\ op' = IF VerifyDevice /\ active.uuid = op.t.uuid /\ active.v = op.expect
                   THEN [op EXCEPT !.pc = "reapply", !.version = active.version] ELSE Failed
        /\ op.phase \in {"apply", "undoActive"}
    BY <1>8 DEF ReadApplied, Call, IInv, PlaceInv
  <2>2. CASE op' = Failed
    BY <2>1, <2>2, <1>f
  <2>3. CASE active.uuid = op.t.uuid /\ active.v = op.expect
             /\ op' = [op EXCEPT !.pc = "reapply", !.version = active.version]
    <3>2. "reapply" \in Places /\ active.version \in Nat
      BY DEF Places, Applied
    <3>3. op' = [[op EXCEPT !.pc = "reapply"] EXCEPT !.version = active.version]
      BY <2>3, Zenon
    <3>4. [op EXCEPT !.pc = "reapply"] \in Operations
      BY <3>2, Edits
    <3>5. op' \in Operations
      BY <3>2, <3>3, <3>4, Edits
    <3>6. /\ op'.pc = "reapply" /\ op'.phase = op.phase /\ op'.result = "none" /\ op'.t = op.t
          /\ op'.version = active.version /\ op'.want = op.want /\ op'.expect = op.expect
          /\ op'.bad = op.bad
      BY <2>1, <2>3 DEF Operations
    <3>7. PlaceInv' /\ VersionInv' /\ WantInv'
      BY <2>1, <2>3, <3>2, <3>6 DEF IInv, PlaceInv, Resolving, VersionInv, WantInv, system
    <3>8. calm => (ReadInv /\ TargetInv /\ UndoInv)'
      BY <2>1, <3>6 DEF IInv, CalmInv, ReadInv, TargetInv, UndoInv, Resolving, system
    <3> QED
      BY <2>1, <3>5, <3>6, <3>7, <3>8, Goes
  <2> QED
    BY <2>1, <2>2, <2>3
<1>9. CASE VerifyApplied
  <2>1. /\ UNCHANGED <<system, calm, events, faults>> /\ op.pc = "verified"
        /\ op.phase \in {"apply", "undoActive"}
        /\ op.phase = "undoActive" => op.want = op.t.active
        /\ \/ op' = Failed
           \/ op' = At("final", "select")
           \/ op' = At("undoRoutes", "routes") /\ op.phase = "undoActive" /\ active.v = op.want
    BY <1>9 DEF VerifyApplied, Call, IInv, PlaceInv, WantInv
  <2>2. CASE op' = Failed
    BY <2>1, <2>2, <1>f
  <2>3. CASE op' = At("final", "select")
    BY <2>1, <2>3, <1>m DEF Phases, Places
  <2>4. CASE op' = At("undoRoutes", "routes") /\ op.phase = "undoActive" /\ active.v = op.want
    <3>1. calm /\ ~op.bad => profile[op.t.uuid].v = op.t.profile /\ active.v = op.t.active
      BY <2>1, <2>4 DEF IInv, CalmInv, UndoInv
    <3> QED
      BY <2>1, <2>4, <3>1, <1>m DEF Phases, Places
  <2> QED
    BY <2>1, <2>2, <2>3, <2>4
<1>10. CASE UndoProfile
  <2>1. /\ UNCHANGED <<system, calm, events, faults>> /\ op.phase = "undoProfile" /\ op.pc = "current"
        /\ \/ op' = At("undoActive", "current") /\ profile[op.t.uuid].v = op.t.profile
           \/ op' = Modify("undoProfile", Owned, op.t.profile)
           \/ op' = Failed
    BY <1>10 DEF UndoProfile, Call
  <2>2. CASE op' = Failed
    BY <2>1, <2>2, <1>f
  <2>3. CASE op' = At("undoActive", "current") /\ profile[op.t.uuid].v = op.t.profile
    BY <2>1, <2>3, <1>m DEF Phases, Places
  <2>4. CASE op' = Modify("undoProfile", Owned, op.t.profile)
    BY <2>1, <2>4, <1>w, <1>o
  <2> QED
    BY <2>1, <2>2, <2>3, <2>4
<1>11. CASE UndoActive
  <2>1. /\ UNCHANGED <<system, calm, events, faults>> /\ op.phase = "undoActive" /\ op.pc = "current"
        /\ \/ op' = At("undoRoutes", "routes") /\ (~VerifyDevice \/ active.v = op.t.active)
           \/ op' = [op EXCEPT !.pc = "applied", !.expect = Owned, !.want = op.t.active]
           \/ op' = Failed
    BY <1>11 DEF UndoActive, Call
  <2>2. CASE op' = Failed
    BY <2>1, <2>2, <1>f
  <2>3. CASE op' = At("undoRoutes", "routes") /\ (~VerifyDevice \/ active.v = op.t.active)
    <3>1. calm => VerifyDevice
      BY <2>1 DEF IInv, CalmInv, TargetInv, VerifyDevice
    <3>2. calm /\ ~op.bad => profile[op.t.uuid].v = op.t.profile /\ active.v = op.t.active
      BY <2>1, <2>3, <3>1 DEF IInv, CalmInv, UndoInv
    <3> QED
      BY <2>1, <2>3, <3>2, <1>m DEF Phases, Places
  <2>4. CASE op' = [op EXCEPT !.pc = "applied", !.expect = Owned, !.want = op.t.active]
    BY <2>1, <2>4, <1>e, <1>o
  <2> QED
    BY <2>1, <2>2, <2>3, <2>4
<1>12. CASE UndoRoutes
  <2>1. /\ UNCHANGED <<system, calm, events, faults>> /\ op.phase = "undoRoutes" /\ op.pc = "routes"
        /\ op' = Done("incomplete") \/ (op' = Done("restored") /\ ~op.bad)
    <3>1. CASE op.bad \/ (VerifyDevice /\ routes # op.t.routes)
      BY <1>12, <3>1, Zenon DEF UndoRoutes, Call
    <3>2. CASE ~(op.bad \/ (VerifyDevice /\ routes # op.t.routes))
      BY <1>12, <3>2, Zenon DEF UndoRoutes, Call
    <3> QED
      BY <3>1, <3>2
  <2>2. PICK r \in {"incomplete", "restored"} : op' = Done(r) /\ (r = "restored" => ~op.bad)
    BY <2>1
  <2>3. /\ op' \in Operations /\ op'.phase = "done" /\ op'.pc = "done" /\ op'.result = r
        /\ Keeps(op')
    BY <2>2, Ends DEF Results
  <2>4. ResultInv'
    BY <2>1, <2>2, <2>3 DEF IInv, CalmInv, UndoInv, ResultInv, RestoredMeansOriginal, OkMeansApplied,
       Original, Keeps, system
  <2> QED
    BY <2>1, <2>2, <2>3, <2>4, Finishes
<1> QED
  BY <1>1, <1>2, <1>3, <1>4, <1>5, <1>6, <1>7, <1>8, <1>9, <1>10, <1>11, <1>12

\* Update2 and Reapply, and their failures after the effect.
LEMMA Writes ==
    ASSUME IInv, Update \/ Reapply \/ CallFails
    PROVE  IInv'
<1> USE Types
<1>0. /\ events \in 0 .. MaxEvent /\ faults \in 0 .. MaxFault
      /\ op.want \in Pairs /\ op.extra \in Nat
  BY DEF IInv, TypeOK, Operations
<1>w. Written(op.t.uuid) \in Profiles
  <2>1. profile[op.t.uuid].version + 1 \in Nat
    BY DEF Profiles
  <2> QED
    BY <1>0, <2>1 DEF Written, Profiles
<1>r. ASSUME Reapplied PROVE /\ active' \in Applied /\ active'.uuid = active.uuid
                             /\ active'.v = op.want /\ routes' \in Pairs
  <2>1. active.version + 1 \in Nat
    BY DEF Applied
  <2> QED
    BY <1>r, <1>0, <2>1 DEF Reapplied, Applied
<1>p. ASSUME NEW pc \in Places, op' = [op EXCEPT !.pc = pc]
      PROVE  /\ op' \in Operations /\ op'.pc = pc /\ op'.phase = op.phase /\ op'.t = op.t
             /\ op'.want = op.want /\ op'.bad = op.bad /\ op'.result = op.result
  <2>1. op' \in Operations
    BY <1>p, Edits
  <2> QED
    BY <1>p, <2>1 DEF Operations
<1>1. CASE Update
  <2>1. /\ UNCHANGED <<active, routes, dev, calm, events, faults>> /\ op.pc = "write"
        /\ op.phase \in {"update", "undoProfile"} /\ op.result = "none"
        /\ op.phase = "undoProfile" => op.want = op.t.profile
    BY <1>1 DEF Update, IInv, PlaceInv, WantInv
  <2>2. CASE op' = Failed /\ UNCHANGED profile
    BY <1>0, <2>1, <2>2, Fails DEF Countdown
  <2>3. CASE op' = [op EXCEPT !.pc = "verify"] /\ profile' = Written(op.t.uuid)
    <3>1. "verify" \in Places
      BY DEF Places
    <3>2. /\ op' \in Operations /\ op'.pc = "verify" /\ op'.phase = op.phase /\ op'.t = op.t
          /\ op'.want = op.want /\ op'.result = "none"
      BY <1>p, <2>1, <2>3, <3>1
    <3>3. TypeOK'
      BY <1>0, <1>w, <2>1, <2>3, <3>2 DEF TypeOK, Profiles, Applied
    <3>4. PlaceInv' /\ VersionInv' /\ WantInv'
      BY <2>1, <3>2 DEF PlaceInv, Resolving, VersionInv, WantInv
    <3>5. CalmInv'
      BY <2>1, <3>2 DEF IInv, CalmInv, ReadInv, TargetInv, UndoInv, Resolving
    <3>6. ResultInv'
      BY <3>2 DEF ResultInv, RestoredMeansOriginal, OkMeansApplied
    <3> QED
      BY <3>3, <3>4, <3>5, <3>6 DEF IInv
  <2> QED
    BY <1>1, <2>2, <2>3 DEF Update
<1>2. CASE Reapply
  <2>1. /\ UNCHANGED <<profile, dev, calm, events, faults>> /\ op.pc = "reapply"
        /\ op.phase \in {"apply", "undoActive"} /\ op.result = "none"
        /\ op.phase = "undoActive" => op.want = op.t.active
    BY <1>2 DEF Reapply, IInv, PlaceInv, WantInv
  <2>2. CASE op' = Failed /\ UNCHANGED <<active, routes>>
    BY <1>0, <2>1, <2>2, Fails DEF Countdown
  <2>3. CASE op' = [op EXCEPT !.pc = "verified"] /\ Reapplied
    <3>1. "verified" \in Places
      BY DEF Places
    <3>2. /\ op' \in Operations /\ op'.pc = "verified" /\ op'.phase = op.phase /\ op'.t = op.t
          /\ op'.want = op.want /\ op'.bad = op.bad /\ op'.result = "none"
      BY <1>p, <2>1, <2>3, <3>1
    <3>3. active' \in Applied /\ active'.uuid = active.uuid /\ routes' \in Pairs
      BY <1>r, <2>3
    <3>4. TypeOK'
      BY <1>0, <2>1, <3>2, <3>3 DEF TypeOK, Profiles, Applied
    <3>5. PlaceInv' /\ VersionInv' /\ WantInv'
      BY <2>1, <3>2 DEF PlaceInv, Resolving, VersionInv, WantInv
    <3>6. CalmInv'
      BY <2>1, <3>2, <3>3 DEF IInv, CalmInv, ReadInv, TargetInv, UndoInv, Resolving
    <3>7. ResultInv'
      BY <3>2 DEF ResultInv, RestoredMeansOriginal, OkMeansApplied
    <3> QED
      BY <3>4, <3>5, <3>6, <3>7 DEF IInv
  <2> QED
    BY <1>2, <2>2, <2>3 DEF Reapply
<1>3. CASE CallFails
  <2>1. /\ op' = Failed /\ op.pc \notin {"idle", "done"} /\ UNCHANGED <<dev, calm, events>>
        /\ faults > 0 /\ faults' = faults - 1
    BY <1>3 DEF CallFails
  <2>2. Countdown
    BY <1>0, <2>1, NetworkManagerAssumption DEF Countdown
  <2>3. /\ profile' \in Profiles /\ active' \in Applied /\ active'.uuid = active.uuid
        /\ routes' \in Pairs
    BY <1>3, <1>w, <1>r DEF CallFails
  <2> QED
    BY <2>1, <2>2, <2>3, Fails
<1> QED
  BY <1>1, <1>2, <1>3

\* Others interfere: nothing is promised any more about what was read, but
\* every change of theirs has another version number.
LEMMA Interferes ==
    ASSUME IInv, Others
    PROVE  IInv'
<1> USE Types
<1>1. /\ Event /\ UNCHANGED <<op, faults>> /\ ~calm' /\ op.result = "none"
  BY DEF Others, UserEdits, UserReconnects, Unplug, PlugIn, RoutesChange, Event, IInv, PlaceInv
<1>2. events' \in 0 .. MaxEvent
  BY <1>1, NetworkManagerAssumption DEF Event, IInv, TypeOK
<1>c. ASSUME NEW u \in Uuids, Connected(u)
      PROVE  active' \in Applied /\ active'.version = active.version + 1
  <2>1. active.version + 1 \in Nat /\ profile[u].v \in Pairs
    BY DEF Applied, Profiles
  <2> QED
    BY <1>c, <2>1 DEF Connected, Applied
<1>3. /\ profile' \in Profiles
      /\ \A u \in Uuids : profile'[u] = profile[u] \/ profile'[u].version = profile[u].version + 1
  <2>1. CASE UNCHANGED profile
    BY <2>1
  <2>2. ASSUME NEW u \in Uuids, NEW v \in Pairs,
               profile' = [profile EXCEPT ![u] = [v |-> v, version |-> @.version + 1,
                                                  extra |-> @.extra + 1]]
        PROVE  /\ profile' \in Profiles
               /\ \A w \in Uuids : profile'[w] = profile[w] \/ profile'[w].version = profile[w].version + 1
    <3>1. profile[u].version + 1 \in Nat /\ profile[u].extra + 1 \in Nat
      BY DEF Profiles
    <3> QED
      BY <2>2, <3>1 DEF Profiles
  <2>3. UNCHANGED profile \/ UserEdits
    BY DEF Others, UserReconnects, Unplug, PlugIn, RoutesChange
  <2> QED
    BY <2>1, <2>2, <2>3 DEF UserEdits
<1>4. active' \in Applied /\ (active' = active \/ active'.version = active.version + 1)
  <2>1. UNCHANGED active \/ \E u \in Uuids : Connected(u)
    BY DEF Others, UserEdits, UserReconnects, Unplug, PlugIn, RoutesChange
  <2> QED
    BY <1>c, <2>1
<1>5. routes' \in Pairs /\ dev' \in 0 .. 2 /\ calm' = FALSE
  <2>1. Both(FALSE) \in Pairs
    BY BothIsPair
  <2>2. calm' = FALSE
    BY <1>1 DEF Event
  <2>3. dev' \in {dev, 0, 2}
    BY DEF Others, UserEdits, UserReconnects, Unplug, PlugIn, RoutesChange
  <2>4. routes' \in Pairs
    BY <2>1 DEF Others, UserEdits, UserReconnects, Unplug, PlugIn, RoutesChange
  <2> QED
    BY <2>2, <2>3, <2>4
<1>6. TypeOK'
  BY <1>1, <1>2, <1>3, <1>4, <1>5 DEF IInv, TypeOK, Profiles, Applied
<1>7. PlaceInv' /\ WantInv'
  BY <1>1 DEF IInv, PlaceInv, WantInv, Resolving
<1>8. VersionInv'
  <2>1. op.version \in Nat /\ profile[op.t.uuid].version \in Nat /\ active.version \in Nat
    BY DEF Operations, Profiles, Applied
  <2> QED
    BY <1>1, <1>3, <1>4, <2>1 DEF IInv, VersionInv
<1>9. CalmInv' /\ ResultInv'
  BY <1>1 DEF CalmInv, ResultInv, RestoredMeansOriginal, OkMeansApplied
<1> QED
  BY <1>6, <1>7, <1>8, <1>9 DEF IInv

-----------------------------------------------------------------------------
\* The invariant holds before the first call.
LEMMA IInvInit == Init => IInv
<1> SUFFICES ASSUME Init PROVE IInv
  OBVIOUS
<1>1. Both(FALSE) \in Pairs
  BY BothIsPair
<1>2. NoTarget \in Targets
  <2>1. 0 \in 0 .. 2 /\ 1 \in Uuids
    BY DEF Uuids
  <2> QED
    BY <1>1, <2>1 DEF NoTarget, Targets
<1>3. op \in Operations
  <2>1. PICK b \in BOOLEAN : b = FALSE
    OBVIOUS
  <2>2. op = [phase |-> "idle", pc |-> "idle", goal |-> b, set |-> b, t |-> NoTarget,
              now |-> NoTarget, expect |-> Both(FALSE), want |-> Both(FALSE), version |-> 0,
              extra |-> 0, bad |-> b, result |-> "none"]
    BY <2>1, Zenon DEF Init, Idle
  <2>3. "idle" \in Phases /\ "idle" \in Places /\ "none" \in Results
    BY DEF Phases, Places, Results
  <2> QED
    BY <1>1, <1>2, <2>2, <2>3 DEF Operations
<1>4. op.phase = "idle" /\ op.pc = "idle" /\ op.result = "none"
  BY DEF Init, Idle
<1>5. TypeOK
  <2>1. profile \in [Uuids -> [v : Pairs, version : Nat, extra : Nat]]
    BY DEF Init
  <2>2. active \in [uuid : Uuids, v : Pairs, version : Nat]
    BY DEF Init, Uuids
  <2>3. calm \in BOOLEAN /\ routes \in Pairs /\ dev \in 0 .. 2
    BY DEF Init
  <2>4. events \in 0 .. MaxEvent /\ faults \in 0 .. MaxFault
    BY NetworkManagerAssumption DEF Init
  <2> QED
    BY <1>3, <2>1, <2>2, <2>3, <2>4 DEF TypeOK
<1>6. PlaceInv /\ VersionInv /\ WantInv
  BY <1>4 DEF PlaceInv, Resolving, VersionInv, WantInv
<1>7. CalmInv /\ ResultInv
  BY <1>4 DEF CalmInv, ReadInv, TargetInv, UndoInv, Resolving, ResultInv, RestoredMeansOriginal,
     OkMeansApplied
<1> QED
  BY <1>5, <1>6, <1>7 DEF IInv

\* Every step keeps it.
LEMMA IInvNext == IInv /\ [Next]_vars => IInv'
<1> SUFFICES ASSUME IInv, [Next]_vars PROVE IInv'
  OBVIOUS
<1>1. CASE Steps
  BY <1>1, Resolves, Reads, Writes DEF Steps
<1>2. CASE CallFails
  BY <1>2, Writes
<1>3. CASE Others
  BY <1>3, Interferes
<1>4. CASE UNCHANGED vars
  BY <1>4 DEF vars, IInv, TypeOK, PlaceInv, Resolving, VersionInv, WantInv, CalmInv, ReadInv,
     TargetInv, UndoInv, ResultInv, RestoredMeansOriginal, OkMeansApplied, Original, Owned
<1> QED
  BY <1>1, <1>2, <1>3, <1>4 DEF Next

\* The inductive invariant holds throughout.
THEOREM Invariance == Spec => []IInv
<1> QED
  BY IInvInit, IInvNext, PTL DEF Spec

\* Every variable keeps its type.
THEOREM TypeCorrect == Spec => []TypeOK
<1>1. IInv => TypeOK
  BY DEF IInv
<1> QED
  BY <1>1, Invariance, PTL

\* set_with_backend says "original settings were restored" only when they are,
\* after any number of failing calls, with or without effect.
THEOREM RestoredIsOriginal == Spec => []RestoredMeansOriginal
<1>1. IInv => RestoredMeansOriginal
  BY DEF IInv, ResultInv
<1> QED
  BY <1>1, Invariance, PTL

\* set_enabled and ensure_enabled report a success only when it is one.
THEOREM OkIsApplied == Spec => []OkMeansApplied
<1>1. IInv => OkMeansApplied
  BY DEF IInv, ResultInv
<1> QED
  BY <1>1, Invariance, PTL

\* update_persistent_connection and apply_active_connection never overwrite
\* what they have not read, however often others change it meanwhile.
THEOREM NothingOverwritten == Spec => OthersPreserved
<1> DEFINE Preserved ==
      /\ (profile' # profile /\ op' # op) =>
            \A u \in Uuids : profile'[u] # profile[u] =>
                u = op.t.uuid /\ profile'[u].extra = profile[u].extra /\ profile[u].v = op.expect
      /\ (active' # active /\ op' # op) =>
            active.uuid = op.t.uuid /\ active.v = op.expect /\ dev = op.t.dev
<1>1. ASSUME IInv, [Next]_vars PROVE [Preserved]_vars
  <2> USE <1>1, Types
  <2>1. ASSUME profile' # profile, op' # op, NEW u \in Uuids, profile'[u] # profile[u]
        PROVE  u = op.t.uuid /\ profile'[u].extra = profile[u].extra /\ profile[u].v = op.expect
    <3>1. op.pc = "write" /\ ~Rejected /\ profile' = Written(op.t.uuid)
      BY <2>1 DEF Next, Steps, Others, CallFails, Call, system, vars, Event, Begin, Select,
         ReadProfile, ReadActive, ReadRoutes, Reread, ReadVersion, ReadSettings, Update, VerifyUpdate,
         CheckUpdate, CheckDevice, ApplyProfile, ReadApplied, Reapply, VerifyApplied, UndoProfile,
         UndoActive, UndoRoutes, UserEdits, UserReconnects, Unplug, PlugIn, RoutesChange
    <3>2. profile[op.t.uuid].v = op.expect /\ profile[op.t.uuid].extra = op.extra
      BY <3>1 DEF IInv, VersionInv, Rejected
    <3>3. u = op.t.uuid /\ profile'[u].extra = op.extra
      BY <2>1, <3>1 DEF Written, Profiles
    <3> QED
      BY <3>2, <3>3
  <2>2. ASSUME active' # active, op' # op
        PROVE  active.uuid = op.t.uuid /\ active.v = op.expect /\ dev = op.t.dev
    <3>1. op.pc = "reapply" /\ VerifyDevice /\ op.version = active.version
      BY <2>2 DEF Next, Steps, Others, CallFails, Call, system, vars, Event, Begin, Select,
         ReadProfile, ReadActive, ReadRoutes, Reread, ReadVersion, ReadSettings, Update, VerifyUpdate,
         CheckUpdate, CheckDevice, ApplyProfile, ReadApplied, Reapply, VerifyApplied, UndoProfile,
         UndoActive, UndoRoutes, UserEdits, UserReconnects, Unplug, PlugIn, RoutesChange
    <3> QED
      BY <3>1 DEF IInv, VersionInv, VerifyDevice
  <2> QED
    BY <2>1, <2>2
<1>2. IInv /\ [Next]_vars => [Preserved]_vars
  BY <1>1
<1>3. OthersPreserved <=> [][Preserved]_vars
  BY DEF OthersPreserved
<1> HIDE DEF Preserved
<1> QED
  BY <1>2, <1>3, Invariance, PTL DEF Spec
==============================================================================
