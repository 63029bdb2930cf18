----------------------------- MODULE FrameStream -----------------------------
(***************************************************************************)
(* What protocol-v5 gameplay promises, without network, window or repair.  *)
(* The phone produces one stream of frames per session; the host consumes  *)
(* one session at a time, from its first frame, in order, each frame once, *)
(* and never returns to a session it left; the phone is told only of       *)
(* frames that were consumed.                                              *)
(***************************************************************************)
EXTENDS Integers, Sequences

CONSTANTS Item, Session, Nobody   \* Nobody is not a Session

VARIABLES
  produced,   \* [Session -> Seq(Item)]
  consumed,   \* [Session -> Seq(Item)]
  producing,  \* the session the phone feeds, or Nobody
  consuming,  \* the session the host consumes, or Nobody
  confirmed   \* frames of the produced session the phone knows consumed

vars == <<produced, consumed, producing, consuming, confirmed>>

Init ==
  /\ produced = [s \in Session |-> <<>>] /\ consumed = [s \in Session |-> <<>>]
  /\ producing = Nobody /\ consuming = Nobody /\ confirmed = 0

(* A session begins with its boundary frame and perhaps a reconstruction.  *)
Open(s) ==
  /\ producing = Nobody /\ produced[s] = <<>>
  /\ producing' = s
  /\ \E first \in Item :
       \/ produced' = [produced EXCEPT ![s] = <<first>>]
       \/ \E second \in Item : produced' = [produced EXCEPT ![s] = <<first, second>>]
  /\ UNCHANGED <<consumed, consuming, confirmed>>

Produce(item) ==
  /\ producing # Nobody
  /\ produced' = [produced EXCEPT ![producing] = Append(produced[producing], item)]
  /\ UNCHANGED <<consumed, producing, consuming, confirmed>>

Join(s) ==
  /\ consuming = Nobody /\ consumed[s] = <<>> /\ produced[s] # <<>>
  /\ consuming' = s
  /\ UNCHANGED <<produced, consumed, producing, confirmed>>

Consume ==
  /\ consuming # Nobody
  /\ Len(consumed[consuming]) < Len(produced[consuming])
  /\ consumed' = [consumed EXCEPT ![consuming] =
       Append(consumed[consuming], produced[consuming][Len(consumed[consuming]) + 1])]
  /\ UNCHANGED <<produced, producing, consuming, confirmed>>

Confirm ==
  /\ producing # Nobody
  /\ confirmed' \in (confirmed + 1) .. Len(consumed[producing])
  /\ UNCHANGED <<produced, consumed, producing, consuming>>

Close ==
  /\ producing # Nobody
  /\ producing' = Nobody /\ confirmed' = 0
  /\ UNCHANGED <<produced, consumed, consuming>>

Leave ==
  /\ consuming # Nobody
  /\ consuming' = Nobody
  /\ UNCHANGED <<produced, consumed, producing, confirmed>>

Next ==
  \/ \E s \in Session : Open(s) \/ Join(s)
  \/ \E item \in Item : Produce(item)
  \/ Consume \/ Confirm \/ Close \/ Leave

Spec == Init /\ [][Next]_vars
==============================================================================
