---------------------------- MODULE ReplayWindow ----------------------------
(***************************************************************************)
(* The replay window of a record channel (native-host/src/v5.rs and        *)
(* V5Protocol.java): a highest packet number and a bitmap of the packets   *)
(* opened at or below it, newest first, in words of WordBits bits.  A word *)
(* is the set of its bits that are set.                                    *)
(***************************************************************************)
EXTENDS Integers

CONSTANTS
  WordBits,    \* 64 in the code
  WordCount    \* 16: REPLAY_WINDOW_BITS / 64

ASSUME WordAssumption == WordBits \in Nat \ {0} /\ WordCount \in Nat \ {0}

WindowBits == WordBits * WordCount
Bits == 0 .. (WordBits - 1)
WordIndex == 0 .. (WordCount - 1)
NoPacket == -1

NewReplay == [highest |-> NoPacket, words |-> [i \in WordIndex |-> {}]]

(* Shifts of one word; bits that leave it are lost.                        *)
ShiftLeft(word, n) == {b + n : b \in {c \in word : c + n < WordBits}}
ShiftRight(word, n) == {b - n : b \in {c \in word : c >= n}}

(* Mutant of ShiftedWords: no bits are carried from the newer word.        *)
ShiftedWordsNoCarry(words, bits) ==
  [i \in WordIndex |->
     IF i < bits \div WordBits THEN {}
     ELSE ShiftLeft(words[i - bits \div WordBits], bits % WordBits)]

(* shift(), for fewer than WindowBits bits.                                *)
ShiftedWords(words, bits) ==
  LET wordShift == bits \div WordBits
      bitShift == bits % WordBits
  IN [i \in WordIndex |->
        IF i < wordShift THEN {}
        ELSE ShiftLeft(words[i - wordShift], bitShift)
             \cup (IF bitShift # 0 /\ i > wordShift
                   THEN ShiftRight(words[i - wordShift - 1], WordBits - bitShift)
                   ELSE {})]

Shifted(words, bits) ==
  IF bits >= WindowBits THEN [i \in WordIndex |-> {}] ELSE ShiftedWords(words, bits)

WithBit(words, distance) ==
  [words EXCEPT ![distance \div WordBits] = @ \cup {distance % WordBits}]

WouldAccept(w, n) ==
  \/ w.highest = NoPacket
  \/ n > w.highest
  \/ LET distance == w.highest - n
     IN /\ n <= w.highest /\ distance < WindowBits
        /\ distance % WordBits \notin w.words[distance \div WordBits]

Commit(w, n) ==
  CASE w.highest = NoPacket -> [highest |-> n, words |-> [w.words EXCEPT ![0] = {0}]]
    [] w.highest # NoPacket /\ n > w.highest ->
         [highest |-> n, words |-> WithBit(Shifted(w.words, n - w.highest), 0)]
    [] OTHER ->
         IF w.highest - n < WindowBits
         THEN [w EXCEPT !.words = WithBit(@, w.highest - n)] ELSE w
=============================================================================
