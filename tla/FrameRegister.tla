---------------------------- MODULE FrameRegister ----------------------------
(* What the frame bus promises: a register that holds one frame.  A write  *)
(* replaces it as a whole by a newer one, and a read returns as a whole    *)
(* the frame of that moment, and only if the reader has not had it.        *)
EXTENDS Integers

CONSTANTS Readers,
          Frames,    \* records with a number, no, that grows with time
          NoFrame    \* the frame before the first

VARIABLES current,   \* the frame in the register
          result     \* the frame each reader was given last

Write ==
    /\ current' \in Frames /\ current'.no > current.no
    /\ UNCHANGED result

Read(r) ==
    /\ current.no > result[r].no
    /\ result' = [result EXCEPT ![r] = current]
    /\ UNCHANGED current

Init == current = NoFrame /\ result = [r \in Readers |-> NoFrame]

Next == Write \/ \E r \in Readers : Read(r)

Spec == Init /\ [][Next]_<<current, result>>
==============================================================================
