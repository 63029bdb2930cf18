------------------------------ MODULE Pairing ------------------------------
(***************************************************************************)
(* First pairing of a phone with the host: pair() of v5_host.rs, its       *)
(* command thread in bin/host.rs, the credential store, and                *)
(* runInitialPairing() of V5Transport.java.  An attempt of a phone is its  *)
(* exchange id; an offer adds the host window that made it.  With an ideal *)
(* handshake and an ideal hash this pair decides the keys, the commitments *)
(* and the lane pattern, so a record carries nothing else.                 *)
(*                                                                         *)
(* The network keeps every datagram sent and may deliver it at any later   *)
(* time, any number of times or never: loss, duplication, reordering and   *)
(* the periodic retransmission of the current step are all in that.  The   *)
(* one step that nobody retransmits is the host's completion: its three    *)
(* copies leave once and may all be lost, which takes it out of the        *)
(* network (CompletionLost).                                               *)
(***************************************************************************)
EXTENDS Naturals, Sequences

CONSTANTS Phones,       \* phones in reach of the selected interface
          MaxWindow,    \* times the user opens the host's Pair window
          MaxAttempt,   \* times a user presses Pair on a phone
          MaxCommand,   \* lines the user gives one window
          MaxFault,     \* time-outs, interface changes, failing saves, crashes,
                        \* impatient users and late copies that end an exchange
          Wifi          \* the quality probe is part of the ceremony

ASSUME PairingAssumption ==
    /\ {MaxWindow, MaxAttempt, MaxCommand, MaxFault} \subseteq Nat
    /\ Wifi \in BOOLEAN

Exchanges == 1 .. MaxAttempt

\* A channel is an exchange id and a host window; window 0 is no offer yet.
Channels == Exchanges \X (0 .. MaxWindow)

None == <<0, 0>>

VARIABLES host,     \* the pairing process
          phone,    \* the pairing thread of each phone
          owner,    \* the phone that drew each exchange id
          net,      \* datagrams sent
          store,    \* the host's credential file: peer of which exchange
          pinned,   \* the host key a phone has stored, by exchange
          faults,   \* faults left
          hist      \* history: what people did, what was ever saved, what was lost

vars == <<host, phone, owner, net, store, pinned, faults, hist>>

Closed == [pc |-> "closed", c |-> None, confirmed |-> FALSE, approved |-> FALSE,
           quality |-> FALSE, commands |-> <<>>, given |-> 0, window |-> 0]

Resting == [pc |-> "idle", c |-> None, matched |-> FALSE]

Init ==
    /\ host = Closed
    /\ phone = [p \in Phones |-> Resting]
    /\ owner = <<>>
    /\ net = {}
    /\ store = None
    /\ pinned = [p \in Phones |-> None]
    /\ faults = MaxFault
    /\ hist = [matched |-> {}, shown |-> {}, approved |-> {}, saved |-> {}, lost |-> {}]

Kinds == {"PROBE", "OFFER", "CONTINUE2", "CONTINUE3",
          "PHONE_SAS_COMMITMENT", "HOST_SAS_COMMITMENT",
          "PHONE_SAS_REVEAL", "HOST_SAS_REVEAL", "PHONE_PAIR_CONFIRM",
          "HOST_PAIR_COMPLETE", "PHONE_AUTH_ABORT", "HOST_AUTH_ABORT"}

Datagram == [kind : Kinds, c : Channels]

Send(kind, c) == net' = net \cup {[kind |-> kind, c |-> c]}

Arrives(kind, c) == [kind |-> kind, c |-> c] \in net

Fault == faults > 0 /\ faults' = faults - 1

\* A phone still waits for the completion of the exchange the host saved last.
CompletionPending == \E p \in Phones : store # None /\ phone[p].c = store

\* Users who follow the ceremony let a phone finish before they go on.
UnlessHasty == IF CompletionPending THEN Fault ELSE UNCHANGED faults

(***************************************************************************)
(* The host                                                                *)
(***************************************************************************)
Authenticated == {"commit", "reveal", "compare"}

Close == host' = [Closed EXCEPT !.window = host.window]

\* Mutant of HostPair: a host that has a peer recorded opens no window.
HostPairOnce ==
    /\ host.pc = "closed" /\ host.window < MaxWindow /\ store = None
    /\ host' = [Closed EXCEPT !.pc = "probe", !.window = host.window + 1]
    /\ UnlessHasty
    /\ UNCHANGED <<phone, owner, net, store, pinned, hist>>

\* Pair is pressed: the identity is loaded, the port is bound.
HostPair ==
    /\ host.pc = "closed" /\ host.window < MaxWindow
    /\ host' = [Closed EXCEPT !.pc = "probe", !.window = host.window + 1]
    /\ UnlessHasty
    /\ UNCHANGED <<phone, owner, net, store, pinned, hist>>

\* wait_for_envelope_owned: the first well-formed probe locks the window, also a
\* late copy of one that its phone no longer repeats.
HostProbe ==
    /\ host.pc = "probe"
    /\ \E x \in Exchanges :
         /\ Arrives("PROBE", <<x, 0>>)
         /\ IF \E p \in Phones : phone[p].pc = "offer" /\ phone[p].c = <<x, 0>>
            THEN UNCHANGED faults
            ELSE Fault
         /\ host' = [host EXCEPT !.pc = "noise", !.c = <<x, host.window>>]
         /\ Send("OFFER", <<x, host.window>>)
    /\ UNCHANGED <<phone, owner, store, pinned, hist>>

\* wait_for_handshake_step takes this exchange only.
HostContinue ==
    /\ host.pc = "noise" /\ Arrives("CONTINUE2", host.c)
    /\ host' = [host EXCEPT !.pc = "commit"]
    /\ Send("CONTINUE3", host.c)
    /\ UNCHANGED <<phone, owner, store, pinned, faults, hist>>

\* The phone answers the offer of an earlier window: the ids agree, the
\* handshake does not, and the window is over.
HostRejects ==
    /\ host.pc = "noise"
    /\ \E c \in Channels : Arrives("CONTINUE2", c) /\ c[1] = host.c[1] /\ c # host.c
    /\ Close
    /\ UNCHANGED <<phone, owner, net, store, pinned, faults, hist>>

HostCommitment ==
    /\ host.pc = "commit" /\ Arrives("PHONE_SAS_COMMITMENT", host.c)
    /\ host' = [host EXCEPT !.pc = "reveal"]
    /\ Send("HOST_SAS_COMMITMENT", host.c)
    /\ UNCHANGED <<phone, owner, store, pinned, faults, hist>>

\* The phone's reveal is checked, the host's is sent, the pattern is shown.
HostReveal ==
    /\ host.pc = "reveal" /\ Arrives("PHONE_SAS_REVEAL", host.c)
    /\ host' = [host EXCEPT !.pc = "compare", !.quality = ~Wifi]
    /\ Send("HOST_SAS_REVEAL", host.c)
    /\ hist' = [hist EXCEPT !.shown = @ \cup {host.c}]
    /\ UNCHANGED <<phone, owner, store, pinned, faults>>

\* Mutant of Authorized: the phone's confirmation is not waited for.
AuthorizedLocally(h) == h.approved /\ h.quality

\* Mutant of Authorized: the phone's confirmation authorizes alone.
AuthorizedRemotely(h) == h.confirmed /\ h.quality

Authorized(h) == h.confirmed /\ h.approved /\ h.quality

\* Mutant of Turn: the completion leaves before the save, which may fail.
TurnCompletesFirst(h) ==
    \/ ~Authorized(h) /\ host' = h /\ UNCHANGED <<net, store, faults, hist>>
    \/ /\ Authorized(h)
       /\ Send("HOST_PAIR_COMPLETE", h.c)
       /\ Close
       /\ \/ /\ store' = h.c
             /\ hist' = [hist EXCEPT !.saved = @ \cup {h.c}]
             /\ UNCHANGED faults
          \/ Fault /\ UNCHANGED <<store, hist>>

\* Mutant of Turn: the completion is not sent.
TurnSilently(h) ==
    \/ ~Authorized(h) /\ host' = h /\ UNCHANGED <<net, store, faults, hist>>
    \/ /\ Authorized(h)
       /\ store' = h.c
       /\ hist' = [hist EXCEPT !.saved = @ \cup {h.c}]
       /\ Close
       /\ UNCHANGED <<net, faults>>

\* The end of every turn of the last loop: persist_pairing_if_authorized, then
\* three copies of the completion.  A save that fails ends the window without
\* a word to the phone.
Turn(h) ==
    \/ /\ ~Authorized(h)
       /\ host' = h
       /\ UNCHANGED <<net, store, faults, hist>>
    \/ /\ Authorized(h)
       /\ store' = h.c
       /\ hist' = [hist EXCEPT !.saved = @ \cup {h.c}]
       /\ Send("HOST_PAIR_COMPLETE", h.c)
       /\ Close
       /\ UNCHANGED faults
    \/ /\ Authorized(h) /\ Fault
       /\ Close
       /\ UNCHANGED <<net, store, hist>>

HostConfirm ==
    /\ host.pc = "compare" /\ Arrives("PHONE_PAIR_CONFIRM", host.c)
    /\ ~host.confirmed
    /\ Turn([host EXCEPT !.confirmed = TRUE])
    /\ UNCHANGED <<phone, owner, pinned>>

HostQuality ==
    /\ host.pc = "compare" /\ ~host.quality
    /\ Turn([host EXCEPT !.quality = TRUE])
    /\ UNCHANGED <<phone, owner, pinned>>

\* A line for the command thread; commands wait in the channel.  Users who
\* follow the ceremony approve once the phone has confirmed; others approve or
\* cancel at any time.
UserCommand ==
    /\ host.pc # "closed" /\ host.given < MaxCommand
    /\ \E k \in {"Approve", "Cancel"} :
         /\ \/ k = "Approve" /\ host.confirmed /\ UNCHANGED faults
            \/ (k = "Cancel" \/ ~host.confirmed) /\ Fault
         /\ host' = [host EXCEPT !.commands = Append(@, k), !.given = @ + 1]
         /\ hist' = [hist EXCEPT !.approved =
                       IF k = "Approve" THEN @ \cup {host.window} ELSE @]
    /\ UNCHANGED <<phone, owner, net, store, pinned>>

\* wait_for_application drops an approval that comes before the pattern, the
\* last loop remembers it.  The handshake loops do not look at commands.
HostApproved ==
    /\ host.pc \in Authenticated /\ host.commands # <<>> /\ Head(host.commands) = "Approve"
    /\ Turn([host EXCEPT !.commands = Tail(@), !.approved = (host.pc = "compare")])
    /\ UNCHANGED <<phone, owner, pinned>>

HostCancelled ==
    /\ host.pc \in Authenticated /\ host.commands # <<>> /\ Head(host.commands) = "Cancel"
    /\ Send("HOST_AUTH_ABORT", host.c)
    /\ Close
    /\ UNCHANGED <<phone, owner, store, pinned, faults, hist>>

HostAborted ==
    /\ host.pc \in Authenticated /\ Arrives("PHONE_AUTH_ABORT", host.c)
    /\ Close
    /\ UNCHANGED <<phone, owner, net, store, pinned, faults, hist>>

\* The window or a step expires; only an authenticated peer is told.
HostTimesOut ==
    /\ host.pc # "closed" /\ Fault
    /\ IF host.pc \in Authenticated THEN Send("HOST_AUTH_ABORT", host.c) ELSE UNCHANGED net
    /\ Close
    /\ UNCHANGED <<phone, owner, store, pinned, hist>>

\* The interface changed, a send failed or the process died.
HostFails ==
    /\ host.pc # "closed" /\ Fault
    /\ Close
    /\ UNCHANGED <<phone, owner, net, store, pinned, hist>>

\* The launcher forgets the phone while no host runs.
ForgetPhone ==
    /\ host.pc = "closed" /\ store # None
    /\ store' = None
    /\ UnlessHasty
    /\ UNCHANGED <<host, phone, owner, net, pinned, hist>>

(***************************************************************************)
(* The phones                                                              *)
(***************************************************************************)
Step(p, from, kind) ==
    phone[p].pc = from /\ Arrives(kind, phone[p].c)

Goto(p, pc) == phone' = [phone EXCEPT ![p].pc = pc]

\* closeInternal: an exchange that ends, for whatever reason, says so on the
\* channel if it has installed one.
Ends(p) ==
    /\ phone' = [phone EXCEPT ![p] = Resting]
    /\ IF phone[p].pc \in Authenticated
       THEN Send("PHONE_AUTH_ABORT", phone[p].c)
       ELSE UNCHANGED net

PhonePair(p) ==
    LET x == Len(owner) + 1 IN
    /\ phone[p].pc = "idle" /\ x <= MaxAttempt
    /\ owner' = Append(owner, p)
    /\ phone' = [phone EXCEPT ![p] = [pc |-> "offer", c |-> <<x, 0>>, matched |-> FALSE]]
    /\ Send("PROBE", <<x, 0>>)
    /\ UNCHANGED <<host, store, pinned, faults, hist>>

PhoneOffer(p) ==
    /\ phone[p].pc = "offer"
    /\ \E w \in 1 .. MaxWindow :
         LET c == <<phone[p].c[1], w>> IN
         /\ Arrives("OFFER", c)
         /\ phone' = [phone EXCEPT ![p].pc = "noise", ![p].c = c]
         /\ Send("CONTINUE2", c)
    /\ UNCHANGED <<host, owner, store, pinned, faults, hist>>

PhoneContinue(p) ==
    /\ Step(p, "noise", "CONTINUE3")
    /\ Goto(p, "commit")
    /\ Send("PHONE_SAS_COMMITMENT", phone[p].c)
    /\ UNCHANGED <<host, owner, store, pinned, faults, hist>>

PhoneCommitment(p) ==
    /\ Step(p, "commit", "HOST_SAS_COMMITMENT")
    /\ Goto(p, "reveal")
    /\ Send("PHONE_SAS_REVEAL", phone[p].c)
    /\ UNCHANGED <<host, owner, store, pinned, faults, hist>>

PhoneReveal(p) ==
    /\ Step(p, "reveal", "HOST_SAS_REVEAL")
    /\ Goto(p, "compare")
    /\ UNCHANGED <<host, owner, net, store, pinned, faults, hist>>

\* The user enters the pattern on some display, or mistypes it.  It can only
\* match when the host shows the pattern of this very exchange.
EnterPattern(p) ==
    LET c == phone[p].c IN
    /\ phone[p].pc = "compare" /\ ~phone[p].matched /\ c \in hist.shown
    /\ phone' = [phone EXCEPT ![p].matched = TRUE]
    /\ hist' = [hist EXCEPT !.matched = @ \cup {c}]
    /\ Send("PHONE_PAIR_CONFIRM", c)
    /\ UNCHANGED <<host, owner, store, pinned, faults>>

Mistype(p) ==
    /\ phone[p].pc = "compare" /\ ~phone[p].matched /\ Fault
    /\ Ends(p)
    /\ UNCHANGED <<host, owner, store, pinned, hist>>

\* savePairedHost is the last thing that can fail.
PhoneComplete(p) ==
    /\ Step(p, "compare", "HOST_PAIR_COMPLETE")
    /\ \/ /\ phone[p].matched
          /\ pinned' = [pinned EXCEPT ![p] = phone[p].c]
          /\ UNCHANGED faults
       \/ Fault /\ UNCHANGED pinned
    /\ Ends(p)
    /\ UNCHANGED <<host, owner, store, hist>>

\* The three copies of the completion are sent once, and then the host is gone.
CompletionLost ==
    \E p \in Phones :
       /\ Step(p, "compare", "HOST_PAIR_COMPLETE")
       /\ net' = net \ {[kind |-> "HOST_PAIR_COMPLETE", c |-> phone[p].c]}
       /\ hist' = [hist EXCEPT !.lost = @ \cup {phone[p].c}]
       /\ UNCHANGED <<host, phone, owner, store, pinned, faults>>

\* The last loop expects reveals, probes, a completion or an abort, and fails
\* on everything else, a late copy of the host's commitment included.
PhoneUnexpected(p) ==
    /\ Step(p, "compare", "HOST_SAS_COMMITMENT") /\ Fault
    /\ Ends(p)
    /\ UNCHANGED <<host, owner, store, pinned, hist>>

PhoneAborted(p) ==
    /\ phone[p].pc \in Authenticated /\ Arrives("HOST_AUTH_ABORT", phone[p].c)
    /\ Ends(p)
    /\ UNCHANGED <<host, owner, store, pinned, faults, hist>>

\* The deadline of a phone that nobody answers any more.
PhoneExpires(p) ==
    /\ phone[p].pc \notin {"idle", "offer"} /\ host.c # phone[p].c
    /\ ~Arrives("HOST_PAIR_COMPLETE", phone[p].c)
    /\ Ends(p)
    /\ UNCHANGED <<host, owner, store, pinned, faults, hist>>

\* Any other time-out, an interface change, or the user leaves.
PhoneEnds(p) ==
    /\ phone[p].pc # "idle" /\ Fault
    /\ Ends(p)
    /\ UNCHANGED <<host, owner, store, pinned, hist>>

HostSteps ==
    \/ HostProbe \/ HostContinue \/ HostRejects \/ HostCommitment \/ HostReveal
    \/ HostConfirm \/ HostQuality \/ HostApproved \/ HostCancelled \/ HostAborted

PhoneSteps(p) ==
    \/ PhoneOffer(p) \/ PhoneContinue(p) \/ PhoneCommitment(p) \/ PhoneReveal(p)
    \/ PhoneComplete(p) \/ PhoneAborted(p) \/ PhoneExpires(p)

Next ==
    \/ HostPair \/ HostSteps \/ UserCommand \/ HostTimesOut \/ HostFails \/ ForgetPhone
    \/ CompletionLost
    \/ \E p \in Phones :
         \/ PhonePair(p) \/ PhoneSteps(p) \/ EnterPattern(p)
         \/ Mistype(p) \/ PhoneUnexpected(p) \/ PhoneEnds(p)

Spec == Init /\ [][Next]_vars

\* Every step but the completion is repeated until the next one is seen, and
\* every deadline passes.  The users go on: press Pair on both sides, enter the
\* pattern and approve.  Nothing that counts as a fault has to happen.
Fairness ==
    /\ WF_vars(UNCHANGED faults /\ HostPair) /\ WF_vars(UNCHANGED faults /\ HostSteps)
    /\ WF_vars(UNCHANGED faults /\ UserCommand)
    /\ \A p \in Phones : /\ WF_vars(PhonePair(p)) /\ WF_vars(EnterPattern(p))
                         /\ WF_vars(UNCHANGED faults /\ PhoneSteps(p))

FairSpec == Spec /\ Fairness

(***************************************************************************)
(* Properties                                                              *)
(***************************************************************************)
TypeOK ==
    /\ host \in [pc : {"closed", "probe", "noise"} \cup Authenticated,
                 c : Channels \cup {None}, confirmed : BOOLEAN, approved : BOOLEAN,
                 quality : BOOLEAN, commands : Seq({"Approve", "Cancel"}),
                 given : 0 .. MaxCommand, window : 0 .. MaxWindow]
    /\ phone \in [Phones -> [pc : {"idle", "offer", "noise"} \cup Authenticated,
                             c : Channels \cup {None}, matched : BOOLEAN]]
    /\ owner \in Seq(Phones) /\ Len(owner) <= MaxAttempt
    /\ net \subseteq Datagram
    /\ store \in Channels \cup {None}
    /\ pinned \in [Phones -> Channels \cup {None}]
    /\ faults \in 0 .. MaxFault
    /\ hist \in [matched : SUBSET Channels, shown : SUBSET Channels,
                 approved : SUBSET (1 .. MaxWindow), saved : SUBSET Channels,
                 lost : SUBSET Channels]

\* Whatever is lost, late or repeated, a phone that stored the host did so for
\* an exchange of its own that the host has saved (PROTOCOL_V5.md: the phone
\* persists only after the host's completion).
PhoneStoresAfterHost ==
    \A p \in Phones : pinned[p] # None =>
        pinned[p] \in hist.saved /\ owner[pinned[p][1]] = p

\* A peer is saved only when a user entered the pattern that the host showed for
\* its exchange, on the phone that owns it (a time-out, an abort or a wrong
\* pattern leaves no record).
SavedMeansCompared == hist.saved \subseteq hist.matched \cap hist.shown

\* PAIR_CONFIRM alone never authorizes: the store changes to a peer only while
\* the open window has been given an approval of its own.
SavedMeansApproved ==
    [][store' \notin {store, None} => host.window \in hist.approved]_vars

\* Users who follow the ceremony, and press Pair again when the completion was
\* lost, end up with a phone and a host that have stored each other as soon as
\* one window's completion arrives, whatever else is lost, repeated or late.
\* The record a lost completion leaves on the host alone is no obstacle.
BothPaired ==
    <>(\/ faults < MaxFault
       \/ \A w \in 1 .. MaxWindow : \E c \in hist.lost : c[2] = w
       \/ \E p \in Phones : pinned[p] # None /\ pinned[p] = store)
=============================================================================
