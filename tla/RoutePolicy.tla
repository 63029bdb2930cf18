---------------------------- MODULE RoutePolicy ----------------------------
(***************************************************************************)
(* The reversible Windows routing policy of the local-only tether mode     *)
(* (native-host/src/tether_policy/windows.rs): a host journals the flag    *)
(* and the default routes of the tether interface, disables default routes *)
(* and deletes the captured ones, and undoes this when it stops; a process *)
(* that starts later undoes what a dead host left behind.  Every Windows   *)
(* call that changes something is a step of its own, so a crash, another   *)
(* process or Windows itself may come between any two of them.             *)
(*                                                                         *)
(* One durable interface (GUID and LUID) is modelled; unplugging it and    *)
(* plugging it in again changes its MAC.  A default route is its gateway:  *)
(* a routing table holds one row per gateway of an interface.              *)
(***************************************************************************)
EXTENDS Naturals, Sequences

CONSTANTS Hosts,            \* host processes (pid and creation time)
          Launcher,         \* the launcher, which only recovers
          NoProc,           \* the owner of a socket that is not bound
          FamilyOrder,      \* [IPV4, IPV6] in the order protect handles them
          Readable,         \* families whose configured gateway can be read
          Gateways,         \* next hops
          Leases,           \* gateways DHCP or router advertisements may name
          InitialFlags,     \* values DisableDefaultRoutes may start with
          MaxEnv,           \* events of Windows, the phone and the user
          MaxFail           \* deaths without cleanup and failing calls, together

Families == {FamilyOrder[i] : i \in DOMAIN FamilyOrder}

ASSUME PolicyAssumption ==
    /\ Launcher \notin Hosts /\ NoProc \notin Hosts \cup {Launcher}
    /\ FamilyOrder \in Seq(Families)
    /\ Leases \subseteq Gateways /\ Leases # {}
    /\ InitialFlags \subseteq BOOLEAN
    /\ {MaxEnv, MaxFail} \subseteq Nat

Procs == Hosts \cup {Launcher}

\* PersistedPolicy: what the registry journal keeps of one interface family.
Entry == [owner : Hosts, family : Families, flag : BOOLEAN,
          routes : SUBSET Gateways]

\* InterfaceSnapshot: an entry and the adapter instance it was read from.
Snap == [entry : Entry, mac : Nat]

NoSnap == <<>>

VARIABLES present,    \* the adapter is plugged in and has its rows
          mac,        \* its current physical address
          flag,       \* DisableDefaultRoutes of each family
          routes,     \* default routes of each family
          lease,      \* gateways the adapter is configured with, none or one
          journal,    \* entries under HKLM\...\RoutePolicy
          port,       \* process whose UDP socket is bound
          loc,        \* what each process is doing
          owned,      \* history: families whose flag the policy set
          removed,    \* history: routes the policy deleted and nobody put back
          left        \* bounds that are left

vars == <<present, mac, flag, routes, lease, journal, port, loc,
          owned, removed, left>>

osvars == <<present, mac, lease>>

Idle == [pc |-> "off", mode |-> "start", again |-> FALSE, bad |-> {},
         queue |-> {}, snaps |-> <<>>, work |-> <<>>, keep |-> <<>>,
         txn |-> 0, fi |-> 0, bind |-> 0, cur |-> NoSnap, avail |-> {},
         unconf |-> {}, made |-> {}]

Init ==
    /\ present = TRUE /\ mac = 0
    /\ flag \in [Families -> InitialFlags]
    /\ lease = [f \in Families |-> {CHOOSE g \in Leases : TRUE}]
    /\ routes \in [Families -> SUBSET Gateways]
    /\ \A f \in Families : routes[f] \subseteq lease[f] \cup (Gateways \ Leases)
    /\ \A f \in Families : flag[f] => routes[f] = {}
    /\ journal = {} /\ port = NoProc
    /\ loc = [p \in Procs |-> Idle]
    /\ owned = [f \in Families |-> FALSE]
    /\ removed = [f \in Families |-> {}]
    /\ left = [env |-> MaxEnv, fail |-> MaxFail]

Spend(what) == left[what] > 0 /\ left' = [left EXCEPT ![what] = @ - 1]

Goto(p, l) == loc' = [loc EXCEPT ![p] = l]

(***************************************************************************)
(* Reading Windows                                                         *)
(***************************************************************************)
ProcessOwnerIsRunning(owner) == loc[owner].pc \notin {"off", "dead"}

\* A process id that was not used yet; it does not matter which.
NewHost == CHOOSE h \in Hosts : loc[h].pc = "off"

\* default_routes_for_adapter: the prefix-zero rows of this LUID and family.
DefaultRoutes(f) == routes[f]

\* adapter_details_for_identity and interface_row_for_adapter: the durable
\* interface is there, with a row for each family.
AdapterFound == present

\* The registry keeps the DHCP and the static gateway of IPv4 only.
ConfiguredGateways(f) == IF f \in Readable THEN lease[f] ELSE {}

\* restore_snapshot and recover_policy: the captured routes that are missing,
\* unless a newer route is there.
MissingOriginals(e) ==
    IF DefaultRoutes(e.family) \subseteq e.routes
      THEN e.routes \ DefaultRoutes(e.family) ELSE {}

\* Mutant of ClassifyCapturedGateway: only a gateway that is routed counts.
ClassifyByRouteTable(g, routed, configured) ==
    IF g \in routed THEN "Available" ELSE "Stale"

\* Mutant of ClassifyCapturedGateway: a gateway that is gone is never stale.
ClassifyNeverStale(g, routed, configured) ==
    IF g \in routed \cup configured THEN "Available" ELSE "Unconfirmed"

ClassifyCapturedGateway(g, routed, configured) ==
    IF g \in routed \cup configured THEN "Available"
    ELSE IF configured = {} THEN "Unconfirmed" ELSE "Stale"

\* require_binding_adapter and require_same_adapter: the same instance, MAC
\* included; restoring needs only the durable interface.
SameAdapterInstance(m) == AdapterFound /\ mac = m

(***************************************************************************)
(* Undoing one entry: create the missing routes, check them, restore the   *)
(* flag, forget the entry.  Recovery of a dead owner's entry and the       *)
(* restore of one's own snapshot take the same steps.                      *)
(***************************************************************************)
Rollback(l, start, again) ==
    [l EXCEPT !.pc = "restore", !.mode = "rollback", !.again = again,
              !.work = SubSeq(l.snaps, start + 1, Len(l.snaps)),
              !.snaps = SubSeq(l.snaps, 1, start), !.keep = <<>>]

Gone(p) == [Idle EXCEPT !.pc = IF p = Launcher THEN "off" ELSE "dead"]

Exit(p) == Goto(p, Gone(p))

\* An error return, by what the process was doing.
Fail(p) ==
    LET l == loc[p] IN
    \/ l.mode = "start" /\ Exit(p)
    \/ l.mode = "capture" /\ Goto(p, Rollback(l, l.txn, TRUE))
    \/ l.mode = "serve" /\ Goto(p, Rollback(l, 0, FALSE))
    \/ /\ l.mode = "rollback"
       /\ Goto(p, [l EXCEPT !.pc = "restore", !.keep = <<l.cur>> \o l.keep])

\* The missing originals whose gateway is classified so.
Missing(e, class) ==
    {g \in MissingOriginals(e) :
        ClassifyCapturedGateway(g, DefaultRoutes(e.family),
                                ConfiguredGateways(e.family)) = class}

UndoPlan(l, snap) ==
    [l EXCEPT !.pc = "undo", !.cur = snap, !.made = {},
              !.avail = Missing(snap.entry, "Available"),
              !.unconf = Missing(snap.entry, "Unconfirmed")]

UndoRoute(p) ==
    LET l == loc[p]
        f == l.cur.entry.family
    IN
    /\ l.pc = "undo"
    /\ \E g \in l.avail :
         IF present
           THEN /\ routes' = [routes EXCEPT ![f] = @ \cup {g}]
                /\ removed' = [removed EXCEPT ![f] = @ \ {g}]
                /\ Goto(p, [l EXCEPT !.avail = l.avail \ {g}, !.made = l.made \cup {g}])
           ELSE Fail(p) /\ UNCHANGED <<routes, removed>>
    /\ UNCHANGED <<osvars, flag, journal, port, owned, left>>

UndoUnconfirmed(p) ==
    /\ loc[p].pc = "undo" /\ loc[p].unconf # {}
    /\ Fail(p)
    /\ UNCHANGED <<osvars, flag, routes, journal, port, owned, removed, left>>

ShouldRestoreOwnedFlag(current, original) == current /\ ~original

UndoFlag(p) ==
    LET e == loc[p].cur.entry
        f == e.family
        restore == ShouldRestoreOwnedFlag(flag[f], e.flag)
    IN
    /\ loc[p].pc = "undo" /\ loc[p].avail = {} /\ loc[p].unconf = {}
    /\ IF AdapterFound /\ loc[p].made \subseteq DefaultRoutes(f)
         THEN /\ flag' = [flag EXCEPT ![f] = @ /\ ~restore]
              /\ owned' = [owned EXCEPT ![f] = @ /\ ~restore]
              /\ Goto(p, [loc[p] EXCEPT !.pc = "forget"])
         ELSE Fail(p) /\ UNCHANGED <<flag, owned>>
    /\ UNCHANGED <<osvars, routes, journal, port, removed, left>>

RemovePolicyValue(p) ==
    LET l == loc[p] IN
    /\ l.pc = "forget"
    /\ journal' = journal \ {l.cur.entry}
    /\ Goto(p, [l EXCEPT !.pc = IF l.mode = "rollback" THEN "restore" ELSE "recover"])
    /\ UNCHANGED <<osvars, flag, routes, port, owned, removed, left>>

\* rollback_suffix: newest first, what cannot be restored stays with the host.
\* A first pass is followed by the one of Drop, when the socket is gone.
RestoreSnapshot(p) ==
    LET n == Len(loc[p].work)
        s == loc[p].work[n]
        l == [loc[p] EXCEPT !.work = SubSeq(loc[p].work, 1, n - 1)]
    IN
    /\ loc[p].pc = "restore" /\ n > 0
    /\ \/ AdapterFound /\ Goto(p, UndoPlan(l, s))
       \/ ~AdapterFound /\ Goto(p, [l EXCEPT !.keep = <<s>> \o l.keep])
    /\ UNCHANGED <<osvars, flag, routes, journal, port, owned, removed, left>>

RollbackEnds(p) ==
    LET l == loc[p] IN
    /\ l.pc = "restore" /\ l.work = <<>>
    /\ port' = IF port = p THEN NoProc ELSE port
    /\ \/ l.again /\ Goto(p, [l EXCEPT !.again = FALSE, !.work = l.snaps \o l.keep,
                                       !.snaps = <<>>, !.keep = <<>>])
       \/ ~l.again /\ Exit(p)
    /\ UNCHANGED <<osvars, flag, routes, journal, owned, removed, left>>

(***************************************************************************)
(* recover_orphaned_policy, by the launcher and twice by a starting host   *)
(***************************************************************************)
PersistedPolicies(p) ==
    /\ loc[p].pc = "off" /\ (p \in Hosts => p = NewHost)
    /\ Goto(p, [loc[p] EXCEPT !.pc = "recover", !.mode = "start", !.again = p # Launcher,
                             !.bad = {}, !.queue = journal])
    /\ UNCHANGED <<osvars, flag, routes, journal, port, owned, removed, left>>

\* Mutant of RecoverPolicy: the entry of an absent adapter is forgotten.
RecoverPolicyForgets(p) ==
    /\ loc[p].pc = "recover"
    /\ \E e \in loc[p].queue :
         LET l == [loc[p] EXCEPT !.queue = loc[p].queue \ {e}] IN
         /\ Goto(p, IF ~present THEN l ELSE UndoPlan(l, [entry |-> e, mac |-> mac]))
         /\ journal' = IF present THEN journal ELSE journal \ {e}
    /\ UNCHANGED <<osvars, flag, routes, port, owned, removed, left>>

RecoverPolicy(p) ==
    /\ loc[p].pc = "recover"
    /\ \E e \in loc[p].queue :
         LET l == [loc[p] EXCEPT !.queue = loc[p].queue \ {e}] IN
         \/ /\ ~AdapterFound
            /\ Goto(p, [l EXCEPT !.bad = l.bad \cup {"Deferred"}])
         \/ /\ AdapterFound /\ ProcessOwnerIsRunning(e.owner)
            /\ Goto(p, [l EXCEPT !.bad = l.bad \cup {"OwnerStillRunning"}])
         \/ /\ AdapterFound /\ ~ProcessOwnerIsRunning(e.owner)
            /\ Goto(p, UndoPlan(l, [entry |-> e, mac |-> mac]))
    /\ UNCHANGED <<osvars, flag, routes, journal, port, owned, removed, left>>

\* Deferred entries do not stop a start, but they stop a capture.
RecoveryOutcome(p) ==
    LET l == loc[p] IN
    /\ l.pc = "recover" /\ l.queue = {}
    /\ \/ /\ l.mode = "start" /\ (p = Launcher \/ "OwnerStillRunning" \in l.bad)
          /\ Exit(p)
       \/ /\ l.mode = "start" /\ p # Launcher /\ "OwnerStillRunning" \notin l.bad
          /\ \/ l.again /\ Goto(p, [l EXCEPT !.again = FALSE, !.bad = {}, !.queue = journal])
             \/ ~l.again /\ Goto(p, [l EXCEPT !.pc = "loop", !.mode = "serve"])
       \/ l.mode = "capture" /\ l.bad # {} /\ Fail(p)
       \/ l.mode = "capture" /\ l.bad = {} /\ Goto(p, [l EXCEPT !.pc = "capture"])
    /\ UNCHANGED <<osvars, flag, routes, journal, port, owned, removed, left>>

(***************************************************************************)
(* The controller loop: refresh, accept a phone, protect, serve            *)
(***************************************************************************)
SnapFamily(s) == s.entry.family

\* verify_enforced_snapshot over a sequence of snapshots: it asserts the flag
\* again and wants no default route; it stops at the first one that fails.
Touched(S) ==
    {SnapFamily(S[k]) : k \in {k \in DOMAIN S :
        \A j \in 1..(k - 1) : DefaultRoutes(SnapFamily(S[j])) = {}}}

VerifyEnforced(S) ==
    /\ flag' = [f \in Families |-> flag[f] \/ f \in Touched(S)]
    /\ owned' = [f \in Families |-> owned[f] \/ (f \in Touched(S) /\ ~flag[f])]

Verified(S) == \A k \in DOMAIN S : DefaultRoutes(SnapFamily(S[k])) = {}

OnAdapter(S, m) == \A k \in DOMAIN S : S[k].mac = m

Refresh(p) ==
    LET S == loc[p].snaps IN
    /\ loc[p].pc = "loop"
    /\ IF S = <<>> \/ (AdapterFound /\ OnAdapter(S, mac))
         THEN /\ VerifyEnforced(S)
              /\ IF Verified(S) THEN Goto(p, [loc[p] EXCEPT !.pc = "listen"]) ELSE Fail(p)
         ELSE Fail(p) /\ UNCHANGED <<flag, owned>>
    /\ UNCHANGED <<osvars, routes, journal, port, removed, left>>

\* accept_remembered binds the UDP port and the phone is on the adapter; its
\* deadline of one second leads back to the loop.
Accept(p) ==
    /\ loc[p].pc = "listen" /\ port = NoProc /\ present
    /\ port' = p
    /\ Goto(p, [loc[p] EXCEPT !.pc = "verify", !.mode = "capture", !.bind = mac,
                             !.txn = Len(loc[p].snaps), !.fi = 1])
    /\ UNCHANGED <<osvars, flag, routes, journal, owned, removed, left>>

AcceptTimesOut(p) ==
    /\ loc[p].pc = "listen"
    /\ Goto(p, [loc[p] EXCEPT !.pc = "loop"])
    /\ UNCHANGED <<osvars, flag, routes, journal, port, owned, removed, left>>

\* protect_interface_inner on what is protected already.
VerifyProtected(p) ==
    LET S == loc[p].snaps IN
    /\ loc[p].pc = "verify"
    /\ IF SameAdapterInstance(loc[p].bind) /\ OnAdapter(S, mac)
         THEN /\ VerifyEnforced(S)
              /\ IF Verified(S) THEN Goto(p, [loc[p] EXCEPT !.pc = "protect"]) ELSE Fail(p)
         ELSE Fail(p) /\ UNCHANGED <<flag, owned>>
    /\ UNCHANGED <<osvars, routes, journal, port, removed, left>>

\* Mutant of CaptureRecovers: the family is captured without recovering first.
CaptureAtOnce(p) ==
    LET l == loc[p] IN
    /\ l.pc = "protect"
    /\ IF l.fi > Len(FamilyOrder) THEN Goto(p, [l EXCEPT !.pc = "serving", !.mode = "serve"])
       ELSE IF \E i \in 1..l.txn : SnapFamily(l.snaps[i]) = FamilyOrder[l.fi]
              THEN Goto(p, [l EXCEPT !.fi = l.fi + 1])
       ELSE Goto(p, [l EXCEPT !.pc = "capture"])
    /\ UNCHANGED <<osvars, flag, routes, journal, port, owned, removed, left>>

\* The next family that is not protected yet; its old transaction, if there
\* is one, is finished before anything is captured.
CaptureRecovers(p) ==
    LET l == loc[p]
        f == FamilyOrder[l.fi]
    IN
    /\ l.pc = "protect"
    /\ IF l.fi > Len(FamilyOrder) THEN Goto(p, [l EXCEPT !.pc = "serving", !.mode = "serve"])
       ELSE IF \E i \in 1..l.txn : SnapFamily(l.snaps[i]) = f
              THEN Goto(p, [l EXCEPT !.fi = l.fi + 1])
       ELSE IF SameAdapterInstance(l.bind)
              THEN Goto(p, [l EXCEPT !.pc = "recover", !.bad = {},
                                     !.queue = {e \in journal : e.family = f}])
              ELSE Fail(p)
    /\ UNCHANGED <<osvars, flag, routes, journal, port, owned, removed, left>>

CaptureFamily(p) ==
    LET l == loc[p]
        f == FamilyOrder[l.fi]
    IN
    /\ l.pc = "capture"
    /\ IF SameAdapterInstance(l.bind)
         THEN Goto(p, [l EXCEPT !.pc = "persist",
                       !.cur = [entry |-> [owner |-> p, family |-> f, flag |-> flag[f],
                                           routes |-> DefaultRoutes(f)], mac |-> mac]])
         ELSE Fail(p)
    /\ UNCHANGED <<osvars, flag, routes, journal, port, owned, removed, left>>

\* Written, flushed and read back before the first change.
PersistPolicy(p) ==
    LET l == loc[p] IN
    /\ l.pc = "persist"
    /\ journal' = journal \cup {l.cur.entry}
    /\ \/ Goto(p, [l EXCEPT !.pc = "apply", !.snaps = Append(l.snaps, l.cur)]) /\ UNCHANGED left
       \/ Spend("fail") /\ Fail(p)
    /\ UNCHANGED <<osvars, flag, routes, port, owned, removed>>

ApplyFlag(p) ==
    LET l == loc[p]
        e == l.cur.entry
        f == e.family
    IN
    /\ l.pc = "apply"
    /\ IF SameAdapterInstance(l.cur.mac) /\ DefaultRoutes(f) = e.routes
         THEN /\ flag' = [flag EXCEPT ![f] = TRUE]
              /\ owned' = [owned EXCEPT ![f] = @ \/ ~flag[f]]
              /\ Goto(p, [l EXCEPT !.pc = "delete", !.avail = e.routes])
         ELSE Fail(p) /\ UNCHANGED <<flag, owned>>
    /\ UNCHANGED <<osvars, routes, journal, port, removed, left>>

\* Only captured routes are deleted, and only while the table holds exactly
\* the ones still to delete.
ApplyDelete(p) ==
    LET l == loc[p]
        f == l.cur.entry.family
    IN
    /\ l.pc = "delete"
    /\ \E g \in l.avail :
         IF AdapterFound /\ DefaultRoutes(f) = l.avail
           THEN /\ routes' = [routes EXCEPT ![f] = @ \ {g}]
                /\ removed' = [removed EXCEPT ![f] = @ \cup {g}]
                /\ Goto(p, [l EXCEPT !.avail = l.avail \ {g}])
           ELSE Fail(p) /\ UNCHANGED <<routes, removed>>
    /\ UNCHANGED <<osvars, flag, journal, port, owned, left>>

ApplyVerify(p) ==
    LET l == loc[p]
        S == <<l.cur>>
    IN
    /\ l.pc = "delete" /\ l.avail = {}
    /\ IF SameAdapterInstance(l.cur.mac)
         THEN /\ VerifyEnforced(S)
              /\ IF Verified(S) THEN Goto(p, [l EXCEPT !.pc = "protect", !.fi = l.fi + 1])
                                ELSE Fail(p)
         ELSE Fail(p) /\ UNCHANGED <<flag, owned>>
    /\ UNCHANGED <<osvars, routes, journal, port, removed, left>>

ServingEnds(p) ==
    /\ loc[p].pc = "serving"
    /\ port' = NoProc
    /\ Goto(p, [loc[p] EXCEPT !.pc = "loop"])
    /\ UNCHANGED <<osvars, flag, routes, journal, owned, removed, left>>

\* A graceful stop restores, and Drop tries again what failed; when held input
\* could not be released, the error return leaves it to Drop alone.
Stop(p) ==
    /\ loc[p].pc \in {"loop", "listen"}
    /\ \E released \in BOOLEAN : Goto(p, Rollback(loc[p], 0, released))
    /\ UNCHANGED <<osvars, flag, routes, journal, port, owned, removed, left>>

(***************************************************************************)
(* What may go wrong                                                       *)
(***************************************************************************)
\* A Windows call fails and changes nothing: one that changes something, or the
\* query for the owner of an entry, whose PID may belong to another process now.
CallFails(p) ==
    /\ Spend("fail")
    /\ \/ loc[p].pc \in {"undo", "forget", "apply", "delete", "persist"}
       \/ loc[p].pc \in {"loop", "verify"} /\ loc[p].snaps # <<>>
       \/ loc[p].pc = "recover" /\ loc[p].queue # {} /\ AdapterFound
    /\ Fail(p)
    /\ UNCHANGED <<osvars, flag, routes, journal, port, owned, removed>>

Crash(p) ==
    /\ Spend("fail") /\ ProcessOwnerIsRunning(p)
    /\ Exit(p)
    /\ port' = IF port = p THEN NoProc ELSE port
    /\ UNCHANGED <<osvars, flag, routes, journal, owned, removed>>


\* A new route is authoritative: what the policy removed is then obsolete.
Superseded(f, g) == IF g \in removed[f] THEN removed[f] \ {g} ELSE {}

RouteAppears ==
    /\ Spend("env") /\ present
    /\ \E f \in Families : \E g \in Gateways \ routes[f] :
         /\ routes' = [routes EXCEPT ![f] = @ \cup {g}]
         /\ removed' = [removed EXCEPT ![f] = Superseded(f, g)]
    /\ UNCHANGED <<osvars, flag, journal, port, loc, owned>>

NewLease ==
    /\ present
    /\ \E f \in Families : \E g \in Leases \ lease[f] :
         /\ IF lease[f] = {} THEN UNCHANGED left ELSE Spend("env")
         /\ lease' = [lease EXCEPT ![f] = {g}]
         /\ routes' = [routes EXCEPT ![f] = (@ \ lease[f]) \cup (IF flag[f] THEN {} ELSE {g})]
         /\ removed' = [removed EXCEPT ![f] = (@ \cap {g}) \ routes'[f]]
    /\ UNCHANGED <<present, mac, flag, journal, port, loc, owned>>

\* The lease runs out: until there is another, no gateway is configured.
LeaseExpires ==
    /\ Spend("env") /\ present
    /\ \E f \in Families :
         /\ lease' = [lease EXCEPT ![f] = {}]
         /\ routes' = [routes EXCEPT ![f] = @ \ lease[f]]
    /\ UNCHANGED <<present, mac, flag, journal, port, loc, owned, removed>>

\* The user allows default routes on the adapter again, which the policy had
\* turned off; a flag the user set earlier is left alone.
UserEnables ==
    /\ Spend("env")
    /\ \E f \in Families :
         /\ owned[f]
         /\ flag' = [flag EXCEPT ![f] = FALSE]
         /\ owned' = [owned EXCEPT ![f] = FALSE]
    /\ UNCHANGED <<osvars, routes, journal, port, loc, removed>>

Unplug ==
    /\ Spend("env") /\ present
    /\ present' = FALSE
    /\ routes' = [f \in Families |-> {}]
    /\ UNCHANGED <<mac, flag, lease, journal, port, loc, owned, removed>>

\* Android gives the adapter a new MAC for every tether session.
PlugIn ==
    /\ ~present
    /\ present' = TRUE /\ mac' = mac + 1
    /\ routes' = [f \in Families |-> IF flag[f] THEN {} ELSE lease[f]]
    /\ removed' = [f \in Families |-> IF flag[f] \/ lease[f] \subseteq removed[f]
                                      THEN removed[f] \ routes'[f] ELSE {}]
    /\ UNCHANGED <<flag, lease, journal, port, loc, owned, left>>

Undo(p) == UndoRoute(p) \/ UndoUnconfirmed(p) \/ UndoFlag(p) \/ RemovePolicyValue(p)

Restore(p) == RestoreSnapshot(p) \/ RollbackEnds(p)

Recover(p) == RecoverPolicy(p) \/ RecoveryOutcome(p)

Protect(p) ==
    \/ VerifyProtected(p) \/ CaptureRecovers(p) \/ CaptureFamily(p)
    \/ PersistPolicy(p) \/ ApplyFlag(p) \/ ApplyDelete(p) \/ ApplyVerify(p)

Serve(p) ==
    Refresh(p) \/ Accept(p) \/ AcceptTimesOut(p) \/ ServingEnds(p) \/ Stop(p)

Windows == RouteAppears \/ NewLease \/ LeaseExpires \/ UserEnables \/ Unplug \/ PlugIn

Next ==
    \/ \E p \in Procs : PersistedPolicies(p) \/ Recover(p) \/ Undo(p) \/ CallFails(p)
    \/ \E p \in Hosts : Restore(p) \/ Protect(p) \/ Serve(p) \/ Crash(p)
    \/ Windows

Spec == Init /\ [][Next]_vars

\* A process that runs goes on unless it waits for a phone; no host runs for
\* ever, for its user stops it or it dies; the launcher is opened again and the
\* phone plugged in again and leases an
\* address again: what a user does to get the phone's internet back.
\* Every step of a process changes its control state, so that the first
\* conjunct is the weak fairness of its steps.
Fairness ==
    /\ \A p \in Procs :
          []<><<loc'[p] # loc[p] \/ loc[p].pc \in {"off", "dead", "listen"}>>_vars
    /\ \A p \in Hosts : []<>(loc[p].pc \in {"off", "dead"})
    /\ []<>(loc[Launcher].pc # "off")
    /\ []<>present /\ \A f \in Families : []<>(lease[f] # {})

FairSpec == Spec /\ Fairness

(***************************************************************************)
(* Properties                                                              *)
(***************************************************************************)
Steps == {"off", "dead", "recover", "undo", "forget", "restore", "loop", "listen",
          "verify", "protect", "capture", "persist", "apply", "delete", "serving"}

Local == [pc : Steps, mode : {"start", "capture", "serve", "rollback"}, again : BOOLEAN,
          bad : SUBSET {"Deferred", "OwnerStillRunning"}, queue : SUBSET Entry,
          snaps : Seq(Snap), work : Seq(Snap), keep : Seq(Snap),
          txn : Nat, fi : Nat, bind : Nat, cur : Snap \cup {NoSnap},
          avail : SUBSET Gateways, unconf : SUBSET Gateways, made : SUBSET Gateways]

TablesOK ==
    /\ present \in BOOLEAN /\ mac \in Nat
    /\ flag \in [Families -> BOOLEAN] /\ lease \in [Families -> SUBSET Leases]
    /\ routes \in [Families -> SUBSET Gateways]
    /\ journal \subseteq Entry /\ port \in Hosts \cup {NoProc}
    /\ owned \in [Families -> BOOLEAN] /\ removed \in [Families -> SUBSET Gateways]
    /\ left \in [env : Nat, fail : Nat]

TypeOK == TablesOK /\ loc \in [Procs -> Local]

\* Whatever dies and whenever: a flag the policy set is in the journal as one
\* to clear, and when the adapter is left without a default route, the one of
\* its lease that the policy deleted is in the journal to be created again
\* (windows.rs: persist before apply, forget after restore).
Entries(f) == {e \in journal : e.family = f}

FlagInJournal == \A f \in Families : owned[f] => \E e \in Entries(f) : ~e.flag

RoutesInJournal ==
    \A f \in Families :
        routes[f] = {} =>
            removed[f] \cap lease[f] \subseteq UNION {e.routes : e \in Entries(f)}

JournalCoversDamage == FlagInJournal /\ RoutesInJournal

\* A set flag is recorded as the user's own only when no host, dead or alive,
\* set it: capture_family finishes the old transaction first.
OriginalIsOriginal ==
    [][\A e \in journal' \ journal : e.flag => ~owned[e.family]]_vars

\* The project's description of the policy: a normal stop restores the owned
\* state.  Nothing failed, nothing died, Windows and the user did nothing; of a
\* family whose gateway can be read the flag and the leased route are back.
StopRestores ==
    (/\ left = [env |-> MaxEnv, fail |-> MaxFail]
     /\ \A h \in Hosts : ~ProcessOwnerIsRunning(h))
    => \A f \in Families \cap Readable : ~owned[f] /\ removed[f] \cap lease[f] = {}

\* What dead hosts left behind is undone in the end.
OrphansRecovered ==
    (\E e \in journal : ~ProcessOwnerIsRunning(e.owner)) ~> (journal = {})
=============================================================================
