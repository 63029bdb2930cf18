--------------------------- MODULE PairingProofs ---------------------------
(***************************************************************************)
(* Theorems about the first pairing, for every set of phones and every     *)
(* bound: the phone stores the host only after the host has saved it, and  *)
(* the host saves only what two people compared and one of them approved.  *)
(***************************************************************************)
EXTENDS Pairing, TLAPS

\* What the pairing process may believe about the people around it.
HostRecord ==
    [pc : {"closed", "probe", "noise"} \cup Authenticated,
     c : Channels \cup {None}, confirmed : BOOLEAN, approved : BOOLEAN,
     quality : BOOLEAN, commands : Seq({"Approve", "Cancel"}),
     given : 0 .. MaxCommand, window : 0 .. MaxWindow]

\* A window that has a channel has its own number and the exchange it locked;
\* what it shows, what it took for confirmed and what it took for approved
\* really happened.
HostKnows(h) ==
    /\ h.pc # "closed" => h.window \in 1 .. MaxWindow
    /\ h.pc \in {"noise"} \cup Authenticated => h.c \in Channels
    /\ h.pc = "compare" => h.c \in hist.shown
    /\ h.confirmed => h.pc = "compare" /\ h.c \in hist.matched
    /\ h.approved => h.window \in hist.approved
    /\ \A i \in DOMAIN h.commands :
         h.commands[i] = "Approve" => h.window \in hist.approved

\* A phone in an exchange drew the exchange id itself.
PhoneOwns ==
    \A p \in Phones : phone[p].pc # "idle" =>
        /\ phone[p].c \in Channels
        /\ phone[p].c[1] \in DOMAIN owner
        /\ owner[phone[p].c[1]] = p

\* The two records that authorize somebody leave after what they announce.
NetTells ==
    /\ \A c \in Channels : Arrives("PHONE_PAIR_CONFIRM", c) => c \in hist.matched
    /\ \A c \in Channels : Arrives("HOST_PAIR_COMPLETE", c) => c \in hist.saved

\* The history is in the order of the ceremony: shown, entered, saved.
Ceremony == hist.saved \subseteq hist.matched /\ hist.matched \subseteq hist.shown

\* A stored host is one that saved this phone, for an exchange of this phone.
PinnedOwned ==
    \A p \in Phones : pinned[p] # None =>
        /\ pinned[p] \in hist.saved
        /\ pinned[p][1] \in DOMAIN owner
        /\ owner[pinned[p][1]] = p

IInv == TypeOK /\ HostKnows(host) /\ PhoneOwns /\ NetTells /\ Ceremony /\ PinnedOwned

\* None is no channel: exchange ids start at 1.
LEMMA NoneIsNoChannel == None \notin Channels
BY PairingAssumption DEF None, Channels, Exchanges

\* A window that ends keeps its number and nothing else.
LEMMA CloseKeeps ==
    ASSUME IInv, Close
    PROVE  host' \in HostRecord /\ HostKnows(host)'
<1>1. host' = [Closed EXCEPT !.window = host.window]
  BY DEF Close
<1>2. host.window \in 0 .. MaxWindow
  BY DEF IInv, TypeOK
<1>3. host' \in HostRecord
  <2>1. <<>> \in Seq({"Approve", "Cancel"}) /\ 0 \in 0 .. MaxCommand
    BY PairingAssumption
  <2> QED
    BY <1>1, <1>2, <2>1 DEF Closed, HostRecord
<1>4. HostKnows(host)'
  BY <1>1 DEF Closed, HostKnows, Authenticated
<1> QED
  BY <1>3, <1>4

\* What a step that leaves the phones alone owes to the invariant: a host
\* record that is well informed and a network that tells the truth.
LEMMA HostStep ==
    ASSUME IInv, UNCHANGED <<phone, owner, pinned>>,
           host' \in HostRecord, HostKnows(host)',
           net' \subseteq Datagram, store' \in Channels \cup {None}, faults' \in 0 .. MaxFault,
           hist' \in [matched : SUBSET Channels, shown : SUBSET Channels,
                      approved : SUBSET (1 .. MaxWindow), saved : SUBSET Channels,
                      lost : SUBSET Channels],
           hist.saved \subseteq hist'.saved, NetTells', Ceremony'
    PROVE  IInv'
<1>1. TypeOK'
  BY DEF IInv, TypeOK, HostRecord
<1>2. PhoneOwns' /\ PinnedOwned'
  BY DEF IInv, PhoneOwns, PinnedOwned
<1> QED
  BY <1>1, <1>2 DEF IInv

\* What a step of a phone that draws no exchange id owes to the invariant.
LEMMA PhoneStep ==
    ASSUME IInv, UNCHANGED <<host, owner, store>>,
           NEW p \in Phones, NEW r,
           r \in [pc : {"idle", "offer", "noise"} \cup Authenticated,
                  c : Channels \cup {None}, matched : BOOLEAN],
           r.pc # "idle" => phone[p].pc # "idle" /\ r.c \in Channels /\ r.c[1] = phone[p].c[1],
           phone' = [phone EXCEPT ![p] = r],
           net' \subseteq Datagram, faults' \in 0 .. MaxFault,
           hist' = [hist EXCEPT !.matched = hist'.matched],
           hist'.matched \subseteq hist.shown, hist.matched \subseteq hist'.matched,
           pinned' = pinned \/ (/\ pinned' = [pinned EXCEPT ![p] = phone[p].c]
                                /\ phone[p].pc # "idle"
                                /\ phone[p].c \in hist.saved),
           NetTells'
    PROVE  IInv'
<1>1. TypeOK'
  <2>1. hist'.matched \in SUBSET Channels
    BY DEF IInv, TypeOK
  <2>2. hist' \in [matched : SUBSET Channels, shown : SUBSET Channels,
                   approved : SUBSET (1 .. MaxWindow), saved : SUBSET Channels,
                   lost : SUBSET Channels]
    BY <2>1 DEF IInv, TypeOK
  <2>3. pinned' \in [Phones -> Channels \cup {None}]
    BY DEF IInv, TypeOK
  <2>4. phone' \in [Phones -> [pc : {"idle", "offer", "noise"} \cup Authenticated,
                               c : Channels \cup {None}, matched : BOOLEAN]]
    BY DEF IInv, TypeOK
  <2> QED
    BY <2>2, <2>3, <2>4 DEF IInv, TypeOK
<1>2. /\ hist'.saved = hist.saved /\ hist'.shown = hist.shown
      /\ hist'.approved = hist.approved
  BY DEF IInv, TypeOK
<1>3. HostKnows(host)'
  BY <1>2 DEF IInv, HostKnows
<1>4. PhoneOwns'
  BY DEF IInv, TypeOK, PhoneOwns
<1>5. Ceremony'
  BY <1>2 DEF IInv, Ceremony
<1>6. PinnedOwned'
  BY <1>2 DEF IInv, TypeOK, PinnedOwned, PhoneOwns
<1> QED
  BY <1>1, <1>3, <1>4, <1>5, <1>6 DEF IInv

\* A datagram that authorizes nobody keeps the network truthful.
LEMMA SendTells ==
    ASSUME IInv, NEW kind \in Kinds, NEW c \in Channels, Send(kind, c),
           hist'.matched = hist.matched, hist'.saved = hist.saved,
           kind \notin {"PHONE_PAIR_CONFIRM", "HOST_PAIR_COMPLETE"}
    PROVE  net' \subseteq Datagram /\ NetTells'
<1>1. net' = net \cup {[kind |-> kind, c |-> c]}
  BY DEF Send
<1>2. net' \subseteq Datagram
  BY <1>1 DEF IInv, TypeOK, Datagram
<1>3. NetTells'
  BY <1>1 DEF IInv, NetTells, Arrives
<1> QED
  BY <1>2, <1>3

\* The end of a turn of the host's last loop keeps the invariant, whatever the
\* turn added to what the host knows.
LEMMA TurnKeeps ==
    ASSUME IInv, NEW h \in HostRecord, h.pc \in Authenticated, HostKnows(h),
           h.window = host.window, Turn(h), UNCHANGED <<phone, owner, pinned>>
    PROVE  IInv'
<1>1. CASE ~Authorized(h) /\ host' = h /\ UNCHANGED <<net, store, faults, hist>>
  <2>1. HostKnows(host)' /\ NetTells' /\ Ceremony'
    BY <1>1 DEF IInv, HostKnows, NetTells, Arrives, Ceremony
  <2> QED
    BY <1>1, <2>1, HostStep DEF IInv, TypeOK
<1>2. CASE /\ Authorized(h)
           /\ store' = h.c
           /\ hist' = [hist EXCEPT !.saved = @ \cup {h.c}]
           /\ Send("HOST_PAIR_COMPLETE", h.c)
           /\ Close
           /\ UNCHANGED faults
  <2>1. h.c \in Channels /\ h.c \in hist.matched
    BY <1>2 DEF HostKnows, Authorized
  <2>2. /\ hist' \in [matched : SUBSET Channels, shown : SUBSET Channels,
                      approved : SUBSET (1 .. MaxWindow), saved : SUBSET Channels,
                      lost : SUBSET Channels]
        /\ hist'.saved = hist.saved \cup {h.c}
        /\ hist'.matched = hist.matched /\ hist'.shown = hist.shown
    BY <1>2, <2>1 DEF IInv, TypeOK
  <2>3. net' = net \cup {[kind |-> "HOST_PAIR_COMPLETE", c |-> h.c]}
    BY <1>2 DEF Send
  <2>4. net' \subseteq Datagram
    BY <2>1, <2>3 DEF IInv, TypeOK, Datagram, Kinds
  <2>5. NetTells'
    BY <2>2, <2>3 DEF IInv, NetTells, Arrives
  <2>6. Ceremony'
    BY <2>1, <2>2 DEF IInv, Ceremony
  <2>7. host' \in HostRecord /\ HostKnows(host)'
    BY <1>2, CloseKeeps
  <2>8. store' \in Channels \cup {None} /\ faults' \in 0 .. MaxFault
    BY <1>2, <2>1 DEF IInv, TypeOK
  <2> QED
    BY <2>2, <2>4, <2>5, <2>6, <2>7, <2>8, HostStep
<1>3. CASE Authorized(h) /\ Fault /\ Close /\ UNCHANGED <<net, store, hist>>
  <2>1. host' \in HostRecord /\ HostKnows(host)'
    BY <1>3, CloseKeeps
  <2>2. faults' \in 0 .. MaxFault
    BY <1>3, PairingAssumption DEF IInv, TypeOK, Fault
  <2>3. NetTells' /\ Ceremony'
    BY <1>3 DEF IInv, NetTells, Arrives, Ceremony
  <2> QED
    BY <1>3, <2>1, <2>2, <2>3, HostStep DEF IInv, TypeOK
<1> QED
  BY <1>1, <1>2, <1>3 DEF Turn

\* Before anybody has pressed Pair the invariant holds.
LEMMA IInvInit == Init => IInv
<1> SUFFICES ASSUME Init PROVE IInv
  OBVIOUS
<1>1. TypeOK
  <2>1. <<>> \in Seq({"Approve", "Cancel"}) /\ <<>> \in Seq(Phones) /\ Len(<<>>) = 0
    OBVIOUS
  <2>2. host \in HostRecord
    BY <2>1, PairingAssumption DEF Init, Closed, HostRecord
  <2> QED
    BY <2>1, <2>2, PairingAssumption DEF Init, TypeOK, HostRecord, Resting
<1>2. HostKnows(host)
  BY DEF Init, Closed, HostKnows, Authenticated
<1>3. PhoneOwns /\ NetTells /\ Ceremony /\ PinnedOwned
  BY DEF Init, Resting, PhoneOwns, NetTells, Arrives, Ceremony, PinnedOwned
<1> QED
  BY <1>1, <1>2, <1>3 DEF IInv

\* A step of the host that sends one ordinary datagram or none and moves its
\* record without a word from the users.
LEMMA HostMoves ==
    ASSUME IInv, UNCHANGED <<phone, owner, store, pinned>>,
           host' \in HostRecord, HostKnows(host)', hist' = hist, faults' \in 0 .. MaxFault,
           net' = net \/ \E kind \in Kinds \ {"PHONE_PAIR_CONFIRM", "HOST_PAIR_COMPLETE"},
                           c \in Channels : Send(kind, c)
    PROVE  IInv'
<1>1. net' \subseteq Datagram /\ NetTells'
  <2>1. CASE net' = net
    BY <2>1 DEF IInv, TypeOK, NetTells, Arrives
  <2>2. ASSUME NEW kind \in Kinds \ {"PHONE_PAIR_CONFIRM", "HOST_PAIR_COMPLETE"},
               NEW c \in Channels, Send(kind, c)
        PROVE  net' \subseteq Datagram /\ NetTells'
    BY <2>2, SendTells
  <2> QED
    BY <2>1, <2>2
<1>2. Ceremony'
  BY DEF IInv, Ceremony
<1>3. /\ store' \in Channels \cup {None}
      /\ hist' \in [matched : SUBSET Channels, shown : SUBSET Channels,
                    approved : SUBSET (1 .. MaxWindow), saved : SUBSET Channels,
                    lost : SUBSET Channels]
      /\ hist.saved \subseteq hist'.saved
  BY DEF IInv, TypeOK
<1> QED
  BY <1>1, <1>2, <1>3, HostStep

\* Every step keeps the invariant.
LEMMA IInvNext == IInv /\ [Next]_vars => IInv'
<1> SUFFICES ASSUME IInv, [Next]_vars PROVE IInv'
  OBVIOUS
<1> USE PairingAssumption
<1>host. host \in HostRecord /\ HostKnows(host)
  BY DEF IInv, TypeOK, HostRecord
<1>fault. /\ Fault \/ UnlessHasty \/ UNCHANGED faults => faults' \in 0 .. MaxFault
          /\ faults \in 0 .. MaxFault
  BY DEF IInv, TypeOK, Fault, UnlessHasty
<1>close. Close => host' \in HostRecord /\ HostKnows(host)'
  BY CloseKeeps
<1>chan. host.pc \in {"noise"} \cup Authenticated => host.c \in Channels
  BY <1>host DEF HostKnows
<1>1. ASSUME HostPair PROVE IInv'
  <2>1. host' = [pc |-> "probe", c |-> None, confirmed |-> FALSE, approved |-> FALSE,
                 quality |-> FALSE, commands |-> <<>>, given |-> 0,
                 window |-> host.window + 1]
    BY <1>1 DEF HostPair, Closed
  <2>2. host.window + 1 \in 1 .. MaxWindow
    BY <1>1, <1>host DEF HostPair, HostRecord
  <2>3. <<>> \in Seq({"Approve", "Cancel"}) /\ 0 \in 0 .. MaxCommand
    OBVIOUS
  <2>4. host' \in HostRecord
    BY <2>1, <2>2, <2>3 DEF HostRecord
  <2>5. HostKnows(host)'
    BY <2>1, <2>2 DEF HostKnows, Authenticated
  <2> QED
    BY <1>1, <1>fault, <2>4, <2>5, HostMoves DEF HostPair
<1>2. ASSUME HostProbe PROVE IInv'
  <2>1. PICK x \in Exchanges :
          /\ host' = [host EXCEPT !.pc = "noise", !.c = <<x, host.window>>]
          /\ Send("OFFER", <<x, host.window>>)
          /\ UNCHANGED faults \/ Fault
    BY <1>2 DEF HostProbe
  <2>2. <<x, host.window>> \in Channels
    BY <1>host DEF HostRecord, Channels
  <2>3. host' \in HostRecord
    BY <1>host, <2>1, <2>2 DEF HostRecord
  <2>4. HostKnows(host)'
    BY <1>2, <1>host, <2>1, <2>2 DEF HostProbe, HostRecord, HostKnows, Authenticated
  <2>5. "OFFER" \in Kinds \ {"PHONE_PAIR_CONFIRM", "HOST_PAIR_COMPLETE"}
    BY DEF Kinds
  <2> QED
    BY <1>2, <1>fault, <2>1, <2>2, <2>3, <2>4, <2>5, HostMoves DEF HostProbe
<1>3. ASSUME HostContinue PROVE IInv'
  <2>1. host' \in HostRecord
    BY <1>3, <1>host DEF HostContinue, HostRecord, Authenticated
  <2>2. HostKnows(host)'
    BY <1>3, <1>host DEF HostContinue, HostRecord, HostKnows, Authenticated
  <2>3. "CONTINUE3" \in Kinds \ {"PHONE_PAIR_CONFIRM", "HOST_PAIR_COMPLETE"}
    BY DEF Kinds
  <2> QED
    BY <1>3, <1>fault, <1>chan, <2>1, <2>2, <2>3, HostMoves DEF HostContinue
<1>4. ASSUME HostRejects PROVE IInv'
  BY <1>4, <1>close, <1>fault, HostMoves DEF HostRejects
<1>5. ASSUME HostCommitment PROVE IInv'
  <2>1. host' \in HostRecord
    BY <1>5, <1>host DEF HostCommitment, HostRecord, Authenticated
  <2>2. HostKnows(host)'
    BY <1>5, <1>host DEF HostCommitment, HostRecord, HostKnows, Authenticated
  <2>3. "HOST_SAS_COMMITMENT" \in Kinds \ {"PHONE_PAIR_CONFIRM", "HOST_PAIR_COMPLETE"}
    BY DEF Kinds
  <2> QED
    BY <1>5, <1>fault, <1>chan, <2>1, <2>2, <2>3, HostMoves DEF HostCommitment, Authenticated
<1>6. ASSUME HostReveal PROVE IInv'
  <2>1. host.c \in Channels
    BY <1>6, <1>chan DEF HostReveal, Authenticated
  <2>2. /\ hist' \in [matched : SUBSET Channels, shown : SUBSET Channels,
                      approved : SUBSET (1 .. MaxWindow), saved : SUBSET Channels,
                      lost : SUBSET Channels]
        /\ hist'.saved = hist.saved /\ hist'.matched = hist.matched
        /\ hist'.shown = hist.shown \cup {host.c} /\ hist'.approved = hist.approved
    BY <1>6, <2>1 DEF HostReveal, IInv, TypeOK
  <2>3. host' \in HostRecord
    BY <1>6, <1>host DEF HostReveal, HostRecord, Authenticated
  <2>4. HostKnows(host)'
    BY <1>6, <1>host, <2>1, <2>2 DEF HostReveal, HostRecord, HostKnows, Authenticated
  <2>5. "HOST_SAS_REVEAL" \in Kinds \ {"PHONE_PAIR_CONFIRM", "HOST_PAIR_COMPLETE"}
    BY DEF Kinds
  <2>6. net' \subseteq Datagram /\ NetTells'
    BY <1>6, <2>1, <2>2, <2>5, SendTells DEF HostReveal
  <2>7. Ceremony'
    BY <2>2 DEF IInv, Ceremony
  <2>8. store' \in Channels \cup {None}
    BY <1>6 DEF HostReveal, IInv, TypeOK
  <2> QED
    BY <1>6, <1>fault, <2>2, <2>3, <2>4, <2>6, <2>7, <2>8, HostStep DEF HostReveal
<1>7. ASSUME HostConfirm PROVE IInv'
  <2> DEFINE h == [host EXCEPT !.confirmed = TRUE]
  <2>1. host.c \in hist.matched
    BY <1>7, <1>chan DEF HostConfirm, Authenticated, IInv, NetTells
  <2>2. h \in HostRecord /\ HostKnows(h) /\ h.window = host.window
    BY <1>7, <1>host, <2>1 DEF HostConfirm, HostRecord, HostKnows
  <2>3. h.pc \in Authenticated /\ Turn(h) /\ UNCHANGED <<phone, owner, pinned>>
    BY <1>7, <1>host DEF HostConfirm, Authenticated, HostRecord
  <2> QED
    BY <2>2, <2>3, TurnKeeps
<1>8. ASSUME HostQuality PROVE IInv'
  <2> DEFINE h == [host EXCEPT !.quality = TRUE]
  <2>1. h \in HostRecord /\ HostKnows(h) /\ h.window = host.window
    BY <1>8, <1>host DEF HostQuality, HostRecord, HostKnows
  <2>2. h.pc \in Authenticated /\ Turn(h) /\ UNCHANGED <<phone, owner, pinned>>
    BY <1>8, <1>host DEF HostQuality, Authenticated, HostRecord
  <2> QED
    BY <2>1, <2>2, TurnKeeps
<1>9. ASSUME HostApproved PROVE IInv'
  <2> DEFINE h == [host EXCEPT !.commands = Tail(@), !.approved = (host.pc = "compare")]
  <2>1. host.commands \in Seq({"Approve", "Cancel"}) /\ host.commands # <<>>
    BY <1>9, <1>host DEF HostApproved, HostRecord
  <2>2. /\ Tail(host.commands) \in Seq({"Approve", "Cancel"})
        /\ 1 \in DOMAIN host.commands
        /\ \A i \in DOMAIN Tail(host.commands) :
             i + 1 \in DOMAIN host.commands /\ Tail(host.commands)[i] = host.commands[i + 1]
    BY <2>1
  <2>3. host.window \in hist.approved
    BY <1>9, <1>host, <2>2 DEF HostApproved, HostKnows
  <2>4. h \in HostRecord /\ h.window = host.window /\ h.pc = host.pc
    BY <1>host, <2>2 DEF HostRecord
  <2>5. HostKnows(h)
    BY <1>host, <2>2, <2>3 DEF HostRecord, HostKnows
  <2>6. h.pc \in Authenticated /\ Turn(h) /\ UNCHANGED <<phone, owner, pinned>>
    BY <1>9, <2>4 DEF HostApproved
  <2> HIDE DEF h
  <2> QED
    BY <2>4, <2>5, <2>6, TurnKeeps
<1>10. ASSUME HostCancelled PROVE IInv'
  <2>1. "HOST_AUTH_ABORT" \in Kinds \ {"PHONE_PAIR_CONFIRM", "HOST_PAIR_COMPLETE"}
    BY DEF Kinds
  <2> QED
    BY <1>10, <1>close, <1>fault, <1>chan, <2>1, HostMoves DEF HostCancelled
<1>11. ASSUME HostAborted PROVE IInv'
  BY <1>11, <1>close, <1>fault, HostMoves DEF HostAborted
<1>12. ASSUME UserCommand PROVE IInv'
  <2>1. PICK k \in {"Approve", "Cancel"} :
          /\ host' = [host EXCEPT !.commands = Append(@, k), !.given = @ + 1]
          /\ hist' = [hist EXCEPT !.approved =
                        IF k = "Approve" THEN @ \cup {host.window} ELSE @]
          /\ UNCHANGED faults \/ Fault
    BY <1>12 DEF UserCommand
  <2>2. host.window \in 1 .. MaxWindow
    BY <1>12, <1>host DEF UserCommand, HostKnows
  <2>3. /\ hist' \in [matched : SUBSET Channels, shown : SUBSET Channels,
                      approved : SUBSET (1 .. MaxWindow), saved : SUBSET Channels,
                      lost : SUBSET Channels]
        /\ hist'.saved = hist.saved /\ hist'.matched = hist.matched
        /\ hist'.shown = hist.shown /\ hist.approved \subseteq hist'.approved
        /\ k = "Approve" => host.window \in hist'.approved
    BY <2>1, <2>2 DEF IInv, TypeOK
  <2>4. /\ Append(host.commands, k) \in Seq({"Approve", "Cancel"})
        /\ \A i \in DOMAIN Append(host.commands, k) :
             \/ i \in DOMAIN host.commands /\ Append(host.commands, k)[i] = host.commands[i]
             \/ Append(host.commands, k)[i] = k
    BY <1>host DEF HostRecord
  <2>5. host' \in HostRecord
    <3>1. host.given + 1 \in 0 .. MaxCommand
      BY <1>12, <1>host DEF UserCommand, HostRecord
    <3> QED
      BY <1>host, <2>1, <2>4, <3>1 DEF HostRecord
  <2>6. HostKnows(host)'
    <3>1. /\ host'.pc = host.pc /\ host'.c = host.c /\ host'.window = host.window
          /\ host'.confirmed = host.confirmed /\ host'.approved = host.approved
          /\ host'.commands = Append(host.commands, k)
      BY <1>host, <2>1 DEF HostRecord
    <3> QED
      BY <1>host, <2>3, <2>4, <3>1 DEF HostKnows
  <2>7. NetTells' /\ Ceremony'
    BY <1>12, <2>3 DEF UserCommand, IInv, NetTells, Arrives, Ceremony
  <2>8. faults' \in 0 .. MaxFault /\ store' \in Channels \cup {None} /\ net' \subseteq Datagram
    BY <1>12, <1>fault, <2>1 DEF UserCommand, IInv, TypeOK
  <2> QED
    BY <1>12, <2>3, <2>5, <2>6, <2>7, <2>8, HostStep DEF UserCommand
<1>13. ASSUME HostTimesOut PROVE IInv'
  <2>1. "HOST_AUTH_ABORT" \in Kinds \ {"PHONE_PAIR_CONFIRM", "HOST_PAIR_COMPLETE"}
    BY DEF Kinds
  <2> QED
    BY <1>13, <1>close, <1>fault, <1>chan, <2>1, HostMoves DEF HostTimesOut
<1>14. ASSUME HostFails PROVE IInv'
  BY <1>14, <1>close, <1>fault, HostMoves DEF HostFails
<1>15. ASSUME ForgetPhone PROVE IInv'
  <2>1. NetTells' /\ Ceremony' /\ HostKnows(host)'
    BY <1>15 DEF ForgetPhone, IInv, NetTells, Arrives, Ceremony, HostKnows
  <2>2. TypeOK'
    BY <1>15, <1>fault DEF ForgetPhone, IInv, TypeOK
  <2>3. PhoneOwns' /\ PinnedOwned'
    BY <1>15 DEF ForgetPhone, IInv, PhoneOwns, PinnedOwned
  <2> QED
    BY <2>1, <2>2, <2>3 DEF IInv
<1>16. ASSUME NEW p \in Phones, PhonePair(p) PROVE IInv'
  <2> DEFINE x == Len(owner) + 1
  <2>1. /\ owner \in Seq(Phones) /\ owner' = Append(owner, p)
        /\ owner' \in Seq(Phones) /\ Len(owner') = x /\ x \in Exchanges
        /\ DOMAIN owner = 1 .. Len(owner) /\ x \in DOMAIN owner' /\ owner'[x] = p
        /\ \A i \in DOMAIN owner : i \in DOMAIN owner' /\ owner'[i] = owner[i]
    BY <1>16 DEF PhonePair, IInv, TypeOK, Exchanges
  <2>2. <<x, 0>> \in Channels /\ <<x, 0>>[1] = x
    BY <2>1 DEF Channels
  <2>3. phone' = [phone EXCEPT ![p] = [pc |-> "offer", c |-> <<x, 0>>, matched |-> FALSE]]
    BY <1>16 DEF PhonePair
  <2>4. UNCHANGED <<host, store, pinned, faults, hist>> /\ Send("PROBE", <<x, 0>>)
    BY <1>16 DEF PhonePair
  <2>5. net' \subseteq Datagram /\ NetTells'
    BY <2>2, <2>4, SendTells DEF Kinds
  <2> HIDE DEF x
  <2>6. TypeOK'
    <3>1. x <= MaxAttempt
      BY <2>1 DEF Exchanges
    <3>2. phone' \in [Phones -> [pc : {"idle", "offer", "noise"} \cup Authenticated,
                                 c : Channels \cup {None}, matched : BOOLEAN]]
      BY <2>2, <2>3 DEF IInv, TypeOK
    <3> QED
      BY <2>1, <2>4, <2>5, <3>1, <3>2 DEF IInv, TypeOK
  <2>7. PhoneOwns'
    BY <2>1, <2>2, <2>3 DEF IInv, TypeOK, PhoneOwns
  <2>8. PinnedOwned'
    BY <2>1, <2>4 DEF IInv, PinnedOwned
  <2>9. HostKnows(host)' /\ Ceremony'
    BY <2>4 DEF IInv, HostKnows, Ceremony
  <2> QED
    BY <2>5, <2>6, <2>7, <2>8, <2>9 DEF IInv
<1>17. ASSUME NEW p \in Phones,
              \/ PhoneSteps(p) \/ EnterPattern(p) \/ Mistype(p)
              \/ PhoneUnexpected(p) \/ PhoneEnds(p)
       PROVE  IInv'
  <2> DEFINE Rec == [pc : {"idle", "offer", "noise"} \cup Authenticated,
                     c : Channels \cup {None}, matched : BOOLEAN]
  <2>phone. /\ phone \in [Phones -> Rec]
            /\ phone[p] \in Rec
    BY DEF IInv, TypeOK
  <2>own. phone[p].pc # "idle" => phone[p].c \in Channels
    BY DEF IInv, PhoneOwns
  <2>1. ASSUME UNCHANGED <<host, owner, store, pinned, hist>>, faults' \in 0 .. MaxFault,
               phone' = [phone EXCEPT ![p] = phone'[p]], phone'[p] \in Rec,
               phone'[p].pc # "idle" => /\ phone[p].pc # "idle"
                                        /\ phone'[p].c \in Channels
                                        /\ phone'[p].c[1] = phone[p].c[1],
               net' = net \/ \E kind \in Kinds \ {"PHONE_PAIR_CONFIRM", "HOST_PAIR_COMPLETE"},
                               c \in Channels : Send(kind, c)
        PROVE  IInv'
    <3>1. net' \subseteq Datagram /\ NetTells'
      <4>1. CASE net' = net
        BY <2>1, <4>1 DEF IInv, TypeOK, NetTells, Arrives
      <4>2. ASSUME NEW kind \in Kinds \ {"PHONE_PAIR_CONFIRM", "HOST_PAIR_COMPLETE"},
                   NEW c \in Channels, Send(kind, c)
            PROVE  net' \subseteq Datagram /\ NetTells'
        BY <2>1, <4>2, SendTells
      <4> QED
        BY <2>1, <4>1, <4>2
    <3>2. /\ hist' = [hist EXCEPT !.matched = hist'.matched]
          /\ hist'.matched \subseteq hist.shown /\ hist.matched \subseteq hist'.matched
      BY <2>1 DEF IInv, TypeOK, Ceremony
    <3> QED
      BY <2>1, <3>1, <3>2, PhoneStep
  <2>ends. ASSUME Ends(p)
           PROVE  /\ phone' = [phone EXCEPT ![p] = phone'[p]] /\ phone'[p] = Resting
                  /\ phone'[p] \in Rec /\ phone'[p].pc = "idle"
                  /\ \/ net' = net
                     \/ phone[p].c \in Channels /\ Send("PHONE_AUTH_ABORT", phone[p].c)
    BY <2>ends, <2>phone, <2>own DEF Ends, Resting, Authenticated
  <2>abort. "PHONE_AUTH_ABORT" \in Kinds \ {"PHONE_PAIR_CONFIRM", "HOST_PAIR_COMPLETE"}
    BY DEF Kinds
  <2>goto. ASSUME NEW pc \in Authenticated, Goto(p, pc), phone[p].pc # "idle"
           PROVE  /\ phone' = [phone EXCEPT ![p] = phone'[p]] /\ phone'[p] \in Rec
                  /\ phone'[p].c = phone[p].c /\ phone[p].c \in Channels
    BY <2>goto, <2>phone, <2>own DEF Goto
  <2>2. CASE PhoneOffer(p)
    <3>1. PICK w \in 1 .. MaxWindow :
            /\ phone' = [phone EXCEPT ![p].pc = "noise", ![p].c = <<phone[p].c[1], w>>]
            /\ Send("CONTINUE2", <<phone[p].c[1], w>>)
      BY <2>2 DEF PhoneOffer
    <3>2. phone[p].pc # "idle" /\ phone[p].c \in Channels
      BY <2>2, <2>own DEF PhoneOffer
    <3>3. /\ <<phone[p].c[1], w>> \in Channels
          /\ <<phone[p].c[1], w>>[1] = phone[p].c[1]
      BY <3>2 DEF Channels
    <3>4. /\ phone' = [phone EXCEPT ![p] = phone'[p]] /\ phone'[p] \in Rec
          /\ phone'[p].c = <<phone[p].c[1], w>>
      BY <2>phone, <3>1, <3>3
    <3>5. "CONTINUE2" \in Kinds \ {"PHONE_PAIR_CONFIRM", "HOST_PAIR_COMPLETE"}
      BY DEF Kinds
    <3> QED
      BY <1>fault, <2>1, <2>2, <3>1, <3>2, <3>3, <3>4, <3>5 DEF PhoneOffer
  <2>3. CASE PhoneContinue(p)
    <3>1. "PHONE_SAS_COMMITMENT" \in Kinds \ {"PHONE_PAIR_CONFIRM", "HOST_PAIR_COMPLETE"}
      BY DEF Kinds
    <3> QED
      BY <1>fault, <2>1, <2>3, <2>goto, <3>1 DEF PhoneContinue, Step, Authenticated
  <2>4. CASE PhoneCommitment(p)
    <3>1. "PHONE_SAS_REVEAL" \in Kinds \ {"PHONE_PAIR_CONFIRM", "HOST_PAIR_COMPLETE"}
      BY DEF Kinds
    <3> QED
      BY <1>fault, <2>1, <2>4, <2>goto, <3>1 DEF PhoneCommitment, Step, Authenticated
  <2>5. CASE PhoneReveal(p)
    BY <1>fault, <2>1, <2>5, <2>goto DEF PhoneReveal, Step, Authenticated
  <2>6. CASE PhoneComplete(p)
    <3>1. phone[p].c \in Channels /\ phone[p].c \in hist.saved /\ phone[p].pc # "idle"
      BY <2>6, <2>own DEF PhoneComplete, Step, IInv, NetTells
    <3>2. pinned' = pinned \/ pinned' = [pinned EXCEPT ![p] = phone[p].c]
      BY <2>6 DEF PhoneComplete
    <3>3. /\ hist' = [hist EXCEPT !.matched = hist'.matched]
          /\ hist'.matched \subseteq hist.shown /\ hist.matched \subseteq hist'.matched
      BY <2>6 DEF PhoneComplete, IInv, TypeOK, Ceremony
    <3>4. faults' \in 0 .. MaxFault /\ UNCHANGED <<host, owner, store, hist>> /\ Ends(p)
      BY <1>fault, <2>6 DEF PhoneComplete
    <3>5. net' \subseteq Datagram /\ NetTells'
      <4>1. CASE net' = net
        BY <3>4, <4>1 DEF IInv, TypeOK, NetTells, Arrives
      <4>2. CASE phone[p].c \in Channels /\ Send("PHONE_AUTH_ABORT", phone[p].c)
        BY <2>abort, <3>4, <4>2, SendTells
      <4> QED
        BY <2>ends, <3>4, <4>1, <4>2
    <3> QED
      BY <2>ends, <3>1, <3>2, <3>3, <3>4, <3>5, PhoneStep
  <2>7. CASE PhoneAborted(p) \/ PhoneExpires(p)
    BY <1>fault, <2>1, <2>7, <2>ends, <2>abort DEF PhoneAborted, PhoneExpires
  <2>8. CASE EnterPattern(p)
    <3>1. phone[p].c \in Channels /\ phone[p].c \in hist.shown /\ phone[p].pc # "idle"
      BY <2>8, <2>own DEF EnterPattern
    <3>2. /\ hist' = [hist EXCEPT !.matched = hist'.matched]
          /\ hist'.matched = hist.matched \cup {phone[p].c}
          /\ hist'.saved = hist.saved
      BY <2>8 DEF EnterPattern, IInv, TypeOK
    <3>3. hist'.matched \subseteq hist.shown /\ hist.matched \subseteq hist'.matched
      BY <3>1, <3>2 DEF IInv, Ceremony
    <3>4. /\ phone' = [phone EXCEPT ![p] = phone'[p]] /\ phone'[p] \in Rec
          /\ phone'[p].c = phone[p].c
      BY <2>8, <2>phone DEF EnterPattern
    <3>5. net' = net \cup {[kind |-> "PHONE_PAIR_CONFIRM", c |-> phone[p].c]}
      BY <2>8 DEF EnterPattern, Send
    <3>6. net' \subseteq Datagram
      BY <3>1, <3>5 DEF IInv, TypeOK, Datagram, Kinds
    <3>7. NetTells'
      BY <3>2, <3>5 DEF IInv, NetTells, Arrives
    <3>8. faults' \in 0 .. MaxFault /\ UNCHANGED <<host, owner, store, pinned>>
      BY <1>fault, <2>8 DEF EnterPattern
    <3> QED
      BY <3>1, <3>2, <3>3, <3>4, <3>6, <3>7, <3>8, PhoneStep
  <2>9. CASE Mistype(p) \/ PhoneUnexpected(p) \/ PhoneEnds(p)
    BY <1>fault, <2>1, <2>9, <2>ends, <2>abort DEF Mistype, PhoneUnexpected, PhoneEnds
  <2> QED
    BY <1>17, <2>2, <2>3, <2>4, <2>5, <2>6, <2>7, <2>8, <2>9 DEF PhoneSteps
<1>18. ASSUME CompletionLost PROVE IInv'
  <2>1. PICK p \in Phones :
          /\ Step(p, "compare", "HOST_PAIR_COMPLETE")
          /\ hist' = [hist EXCEPT !.lost = @ \cup {phone[p].c}]
    BY <1>18 DEF CompletionLost
  <2>2. phone[p].c \in Channels
    BY <2>1 DEF Step, IInv, PhoneOwns
  <2>3. /\ hist' \in [matched : SUBSET Channels, shown : SUBSET Channels,
                      approved : SUBSET (1 .. MaxWindow), saved : SUBSET Channels,
                      lost : SUBSET Channels]
        /\ hist'.saved = hist.saved /\ hist'.matched = hist.matched
        /\ hist'.shown = hist.shown /\ hist'.approved = hist.approved
    BY <2>1, <2>2 DEF IInv, TypeOK
  <2>4. net' \subseteq net
    BY <1>18 DEF CompletionLost
  <2>5. net' \subseteq Datagram /\ NetTells' /\ Ceremony'
    BY <2>3, <2>4 DEF IInv, TypeOK, NetTells, Arrives, Ceremony
  <2>6. UNCHANGED <<host, phone, owner, store, pinned, faults>>
    BY <1>18 DEF CompletionLost
  <2>7. HostKnows(host)'
    BY <1>host, <2>3, <2>6 DEF HostKnows
  <2>8. store' \in Channels \cup {None} /\ host' \in HostRecord
    BY <1>host, <2>6 DEF IInv, TypeOK
  <2> QED
    BY <1>fault, <2>3, <2>5, <2>6, <2>7, <2>8, HostStep
<1>19. CASE UNCHANGED vars
  <2>1. TypeOK' /\ HostKnows(host)'
    BY <1>19 DEF vars, IInv, TypeOK, HostKnows
  <2>2. PhoneOwns' /\ NetTells' /\ Ceremony' /\ PinnedOwned'
    BY <1>19 DEF vars, IInv, PhoneOwns, NetTells, Arrives, Ceremony, PinnedOwned
  <2> QED
    BY <2>1, <2>2 DEF IInv
<1> QED
  BY <1>1, <1>2, <1>3, <1>4, <1>5, <1>6, <1>7, <1>8, <1>9, <1>10, <1>11, <1>12,
     <1>13, <1>14, <1>15, <1>16, <1>17, <1>18, <1>19 DEF Next, HostSteps

\* The invariant holds in every reachable state.
THEOREM Invariance == Spec => []IInv
BY IInvInit, IInvNext, PTL DEF Spec

\* Every variable keeps its type, whatever the network and the users do.
THEOREM TypeCorrect == Spec => []TypeOK
<1>1. IInv => TypeOK
  BY DEF IInv
<1> QED
  BY <1>1, Invariance, PTL

\* runInitialPairing stores the host (savePairedHost) only for an exchange of
\* its own phone whose peer the host had already saved, for every network.
THEOREM StoredAfterHost == Spec => []PhoneStoresAfterHost
<1>1. IInv => PhoneStoresAfterHost
  BY DEF IInv, PinnedOwned, PhoneStoresAfterHost
<1> QED
  BY <1>1, Invariance, PTL

\* persist_pairing_if_authorized saves only an exchange whose pattern the host
\* showed and a user entered on the phone.
THEOREM ComparedBeforeSaved == Spec => []SavedMeansCompared
<1>1. IInv => SavedMeansCompared
  BY DEF IInv, Ceremony, SavedMeansCompared
<1> QED
  BY <1>1, Invariance, PTL

\* The confirmation of a phone alone never makes the host save: the store
\* changes to a peer only in a window that was given its own approval.
THEOREM ApprovedBeforeSaved == Spec => SavedMeansApproved
<1> DEFINE Approved == store' \notin {store, None} => host.window \in hist.approved
<1>1. ASSUME IInv, [Next]_vars PROVE Approved
  <2>host. host \in HostRecord /\ HostKnows(host)
    BY <1>1 DEF IInv, TypeOK, HostRecord
  <2>1. CASE HostConfirm
    <3> DEFINE h == [host EXCEPT !.confirmed = TRUE]
    <3>1. Turn(h)
      BY <2>1 DEF HostConfirm
    <3>2. h.approved = host.approved /\ h.window = host.window
      BY <2>host DEF HostRecord
    <3> HIDE DEF h
    <3> QED
      BY <2>host, <3>1, <3>2 DEF Turn, Authorized, HostKnows
  <2>2. CASE HostQuality
    <3> DEFINE h == [host EXCEPT !.quality = TRUE]
    <3>1. Turn(h)
      BY <2>2 DEF HostQuality
    <3>2. h.approved = host.approved /\ h.window = host.window
      BY <2>host DEF HostRecord
    <3> HIDE DEF h
    <3> QED
      BY <2>host, <3>1, <3>2 DEF Turn, Authorized, HostKnows
  <2>3. CASE HostApproved
    <3>1. host.commands \in Seq({"Approve", "Cancel"}) /\ host.commands # <<>>
      BY <2>3, <2>host DEF HostApproved, HostRecord
    <3>2. 1 \in DOMAIN host.commands /\ Head(host.commands) = host.commands[1]
      BY <3>1
    <3> QED
      BY <2>3, <2>host, <3>2 DEF HostApproved, HostKnows
  <2>4. CASE ~(HostConfirm \/ HostQuality \/ HostApproved)
    <3>1. store' \in {store, None}
      BY <1>1, <2>4 DEF Next, HostSteps, PhoneSteps, vars, HostPair, HostProbe, HostContinue,
         HostRejects, HostCommitment, HostReveal, HostCancelled, HostAborted, UserCommand,
         HostTimesOut, HostFails, ForgetPhone, PhonePair, PhoneOffer, PhoneContinue,
         PhoneCommitment, PhoneReveal, PhoneComplete, PhoneAborted, EnterPattern, Mistype,
         PhoneUnexpected, PhoneEnds, PhoneExpires, CompletionLost
    <3> QED
      BY <3>1
  <2> QED
    BY <2>1, <2>2, <2>3, <2>4
<1>2. [Next]_vars /\ IInv => [Approved]_vars
  BY <1>1
<1> QED
  BY <1>2, Invariance, PTL DEF Spec, SavedMeansApproved
=============================================================================
