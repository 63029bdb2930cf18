--------------------------- MODULE MCKeyboardSink ---------------------------
EXTENDS KeyboardSink

(* Snapshots in which each finger is absent or beyond either edge of the   *)
(* pad, and finger 0 may also be held back by its pressure gate, with      *)
(* every action they may report, and the frames without a snapshot.        *)
MCDown == {[x |-> x, touching |-> TRUE, suppressed |-> FALSE] : x \in {-1, LaneCount}}
MCGated == [x |-> 1, touching |-> TRUE, suppressed |-> TRUE]

MCContacts ==
  UNION {{c \in [P -> MCDown \cup {MCGated}] : \A p \in P \ {0} : c[p] # MCGated} :
         P \in SUBSET Pointers}
MCBare == {[kind |-> k, action |-> NoPointer, down |-> FALSE, contacts |-> Nothing] :
             k \in {"snapshot", "release", "heartbeat"}}
MCTaps ==
  MCBare \cup UNION {{[kind |-> "snapshot", action |-> p, down |-> d, contacts |-> c] :
                        p \in DOMAIN c, d \in BOOLEAN} : c \in MCContacts}

(* uinput without a spacer, and both sinks with one.                       *)
MCSinks == Variant \ {[spaced |-> FALSE, uinput |-> FALSE]}
MCLinuxSpaced == {[spaced |-> TRUE, uinput |-> TRUE]}
=============================================================================
