------------------------- MODULE EyeToyDeviceProofs -------------------------
(***************************************************************************)
(* Theorems about the EyeToy's teardown, the context it shares and the     *)
(* frames it hands over, for rings and JPEGs of any size, any number of    *)
(* sessions and any packets lost.                                          *)
(***************************************************************************)
EXTENDS EyeToyDevice, FiniteSetTheorems, WellFoundedInduction, TLAPS

-----------------------------------------------------------------------------
(* The inductive invariant. *)

\* The count of users is right; a join is under way exactly from the last release
\* until the thread has ended.
ContextInv ==
    /\ users = (IF other THEN 1 ELSE 0) + (IF HoldsContext THEN 1 ELSE 0)
    /\ joining \in {"none", "device", "other"}
    /\ joining = "device" <=> pc = "join"
    /\ joining = "none" => (thread <=> users > 0)
    /\ joining # "none" => users = 0
    /\ joining = "none" /\ thread => ~exit

\* Callbacks run on the event thread only.
CallbackInv == InCallback => thread

\* The transfers in libusb's hands.
Busy(x) == xfer[x] \in {"owned", "again", "terminal"}

\* Outside a session every transfer is fresh; before Submit its transfer is.
RingInv ==
    /\ pc \in {"closed", "open", "release", "join"} => \A x \in Ring : xfer[x] = "none"
    /\ pc = "submit" => \A x \in todo : xfer[x] = "none"
    /\ pc = "free" => expired \/ \A x \in Ring : ~Busy(x)

\* The types of the transfers, and the count in step with them.
CountInv ==
    /\ pc \in {"closed", "open", "submit", "streaming", "drain", "free", "release", "join"}
    /\ todo \subseteq Ring
    /\ xfer \in [Ring -> {"none", "owned", "again", "terminal", "back"}]
    /\ inFlight = Cardinality({x \in Ring : Busy(x)})

IInv == CountInv /\ RingInv /\ ContextInv /\ CallbackInv

LEMMA BusyFinite == EyeToyAssumption => IsFiniteSet({x \in Ring : Busy(x)})
  BY FS_Subset DEF EyeToyAssumption

\* One transfer more, or one less, in libusb's hands.
LEMMA OneMore ==
  ASSUME EyeToyAssumption, NEW x \in Ring, ~Busy(x), Busy(x)',
         \A y \in Ring \ {x} : xfer'[y] = xfer[y]
  PROVE  Cardinality({y \in Ring : Busy(y)})' = Cardinality({y \in Ring : Busy(y)}) + 1
<1>1. {y \in Ring : Busy(y)}' = {y \in Ring : Busy(y)} \cup {x}
  BY DEF Busy
<1> QED BY <1>1, BusyFinite, FS_AddElement

LEMMA OneLess ==
  ASSUME EyeToyAssumption, NEW x \in Ring, Busy(x), ~Busy(x)',
         \A y \in Ring \ {x} : xfer'[y] = xfer[y]
  PROVE  Cardinality({y \in Ring : Busy(y)})' = Cardinality({y \in Ring : Busy(y)}) - 1
<1>1. {y \in Ring : Busy(y)}' = {y \in Ring : Busy(y)} \ {x}
  BY DEF Busy
<1> QED BY <1>1, BusyFinite, FS_RemoveElement

LEMMA Same ==
  ASSUME \A y \in Ring : Busy(y)' <=> Busy(y)
  PROVE  Cardinality({y \in Ring : Busy(y)})' = Cardinality({y \in Ring : Busy(y)})
<1>1. {y \in Ring : Busy(y)}' = {y \in Ring : Busy(y)}
  OBVIOUS
<1> QED BY <1>1

LEMMA AllBack ==
  ASSUME EyeToyAssumption, CountInv, inFlight = 0, NEW x \in Ring
  PROVE  ~Busy(x)
<1>1. {y \in Ring : Busy(y)} = {}
  BY BusyFinite, FS_EmptySet DEF CountInv
<1> QED BY <1>1

-----------------------------------------------------------------------------
(* The steps. *)

LEMMA CountStep == EyeToyAssumption /\ IInv /\ [Next]_vars => CountInv'
<1> SUFFICES ASSUME EyeToyAssumption, CountInv, RingInv, [Next]_vars PROVE CountInv'
  BY DEF IInv
<1> USE DEF CountInv, vars, context, transfers, frames
<1>1. CASE \/ UNCHANGED vars \/ OtherAcquires \/ OtherReleases \/ OtherJoined \/ Start
           \/ Submitted \/ Drained \/ WaitExpires \/ ReleaseContext \/ DeviceJoined
           \/ AcquireFrame \/ Stop \/ EventThreadEnds \/ FinishGhost \/ CompleteGhost
           \/ LosePacket \/ Unplug
  <2>1. /\ UNCHANGED <<xfer, inFlight>> /\ todo' \subseteq Ring
        /\ pc' \in {"closed", "open", "submit", "streaming", "drain", "free", "release", "join"}
    BY <1>1 DEF OtherAcquires, OtherReleases, OtherJoined, Start, Submitted, Drained, WaitExpires,
       ReleaseContext, DeviceJoined, AcquireFrame, Stop, EventThreadEnds, FinishGhost,
       CompleteGhost, LosePacket, Unplug
  <2> QED BY <2>1, Same DEF Busy
<1>2. CASE OpenDevice \/ FreeTransfers
  <2>1. xfer' = [x \in Ring |-> "none"] /\ inFlight' = 0
    BY <1>2 DEF OpenDevice, FreeTransfers
  <2>2. {x \in Ring : Busy(x)}' = {}
    BY <2>1 DEF Busy
  <2>3. Cardinality({x \in Ring : Busy(x)})' = 0
    BY <2>2, FS_EmptySet
  <2> QED BY <1>2, <2>1, <2>3 DEF OpenDevice, FreeTransfers
<1>3. CASE \E x \in Ring : Submit(x)
  <2>1. PICK x \in Ring : Submit(x)
    BY <1>3
  <2>2. ~Busy(x) /\ Busy(x)' /\ \A y \in Ring \ {x} : xfer'[y] = xfer[y]
    BY <2>1 DEF Submit, RingInv, Busy
  <2> QED BY <2>1, <2>2, OneMore DEF Submit
<1>4. CASE \E x \in Ring : Finish(x)
  <2>1. PICK x \in Ring : Finish(x)
    BY <1>4
  <2>2. Busy(x) /\ ~Busy(x)' /\ \A y \in Ring \ {x} : xfer'[y] = xfer[y]
    BY <2>1 DEF Finish, Busy
  <2> QED BY <2>1, <2>2, OneLess DEF Finish, CountedBack
<1>5. CASE \E x \in Ring : CompleteWithPacket(x) \/ CompleteWithout(x) \/ Resubmit(x)
  <2>1. PICK x \in Ring : CompleteWithPacket(x) \/ CompleteWithout(x) \/ Resubmit(x)
    BY <1>5
  <2>2. /\ xfer' \in [Ring -> {"none", "owned", "again", "terminal", "back"}]
        /\ Busy(x) /\ Busy(x)' /\ \A y \in Ring \ {x} : xfer'[y] = xfer[y]
    BY <2>1 DEF CompleteWithPacket, CompleteWithout, Resubmit, Decided, Busy
  <2>3. UNCHANGED <<inFlight, pc, todo>>
    BY <2>1 DEF CompleteWithPacket, CompleteWithout, Resubmit
  <2>4. \A y \in Ring : Busy(y)' <=> Busy(y)
    BY <2>2 DEF Busy
  <2> QED BY <2>2, <2>3, <2>4, Same
<1> QED BY <1>1, <1>2, <1>3, <1>4, <1>5 DEF Next, CaptureThread, EventThread, Completion

LEMMA RingStep == EyeToyAssumption /\ IInv /\ [Next]_vars => RingInv'
<1> SUFFICES ASSUME EyeToyAssumption, CountInv, RingInv, [Next]_vars PROVE RingInv'
  BY DEF IInv
<1> USE DEF RingInv, Busy, vars, context, transfers, frames
<1>1. CASE \/ UNCHANGED vars \/ OtherAcquires \/ OtherReleases \/ OtherJoined \/ AcquireFrame
           \/ EventThreadEnds \/ FinishGhost \/ CompleteGhost \/ LosePacket \/ Unplug
  BY <1>1 DEF OtherAcquires, OtherReleases, OtherJoined, AcquireFrame, EventThreadEnds,
     FinishGhost, CompleteGhost, LosePacket, Unplug
<1>2. CASE \/ OpenDevice \/ Start \/ Submitted \/ Stop \/ WaitExpires \/ FreeTransfers
           \/ ReleaseContext \/ DeviceJoined
  BY <1>2 DEF OpenDevice, Start, Submitted, Stop, WaitExpires, FreeTransfers, ReleaseContext,
     DeviceJoined
<1>3. CASE Drained
  BY <1>3, AllBack DEF Drained, Back
<1>4. CASE \E x \in Ring : Submit(x)
  BY <1>4 DEF Submit, CountInv
<1>5. CASE \E x \in Ring : Finish(x) \/ Resubmit(x)
  BY <1>5 DEF Finish, Resubmit, CountInv
<1>6. CASE \E x \in Ring : CompleteWithPacket(x) \/ CompleteWithout(x)
  BY <1>6 DEF CompleteWithPacket, CompleteWithout, CountInv
<1> QED BY <1>1, <1>2, <1>3, <1>4, <1>5, <1>6 DEF Next, CaptureThread, EventThread, Completion

LEMMA ContextStep == IInv /\ [Next]_vars => ContextInv'
<1> SUFFICES ASSUME CountInv, ContextInv, CallbackInv, [Next]_vars PROVE ContextInv'
  BY DEF IInv
<1> USE DEF ContextInv, HoldsContext, vars, context, transfers, frames
<1>1. CASE UNCHANGED vars
  BY <1>1
<1>2. CASE OtherAcquires
  BY <1>2 DEF OtherAcquires, Acquire
<1>3. CASE OtherReleases
  BY <1>3 DEF OtherReleases, Release
<1>4. CASE OtherJoined \/ DeviceJoined
  BY <1>4 DEF OtherJoined, DeviceJoined, Joined
<1>5. CASE Start
  BY <1>5 DEF Start, Acquire
<1>6. CASE ReleaseContext
  BY <1>6 DEF ReleaseContext, Release
<1>7. CASE EventThreadEnds
  BY <1>7 DEF EventThreadEnds
<1>8. CASE OpenDevice \/ Submitted \/ Drained \/ WaitExpires \/ FreeTransfers \/ Stop
  <2>1. UNCHANGED context /\ (HoldsContext' <=> HoldsContext) /\ pc # "join" /\ pc' # "join"
    BY <1>8 DEF OpenDevice, Submitted, Drained, WaitExpires, MayExpire, FreeTransfers, Stop
  <2> QED BY <2>1
<1>9. CASE AcquireFrame \/ FinishGhost \/ CompleteGhost \/ LosePacket \/ Unplug
  BY <1>9 DEF AcquireFrame, FinishGhost, CompleteGhost, LosePacket, Unplug
<1>10. CASE \E x \in Ring : \/ Submit(x) \/ Finish(x) \/ Resubmit(x)
                            \/ CompleteWithPacket(x) \/ CompleteWithout(x)
  BY <1>10 DEF Submit, Finish, Resubmit, CompleteWithPacket, CompleteWithout
<1> QED BY <1>1, <1>2, <1>3, <1>4, <1>5, <1>6, <1>7, <1>8, <1>9, <1>10
        DEF Next, CaptureThread, EventThread, Completion

LEMMA CallbackStep == IInv /\ [Next]_vars => CallbackInv'
<1> SUFFICES ASSUME CountInv, ContextInv, CallbackInv, [Next]_vars PROVE CallbackInv'
  BY DEF IInv
<1> USE DEF CallbackInv, InCallback, vars, context, transfers, frames
<1>1. CASE \/ UNCHANGED vars \/ AcquireFrame \/ LosePacket \/ Unplug
           \/ Submitted \/ Drained \/ WaitExpires \/ Stop
  BY <1>1 DEF AcquireFrame, LosePacket, Unplug, Submitted, Drained, WaitExpires, Stop
<1>2. CASE OtherAcquires \/ Start
  BY <1>2 DEF OtherAcquires, Start, Acquire
<1>3. CASE OtherReleases \/ ReleaseContext
  BY <1>3 DEF OtherReleases, ReleaseContext, Release
<1>4. CASE OtherJoined \/ DeviceJoined
  BY <1>4 DEF OtherJoined, DeviceJoined, Joined
<1>5. CASE OpenDevice \/ FreeTransfers
  BY <1>5 DEF OpenDevice, FreeTransfers
<1>6. CASE \E x \in Ring : Submit(x) \/ Finish(x) \/ Resubmit(x)
  BY <1>6 DEF Submit, Finish, Resubmit, CountInv
<1>7. CASE \E x \in Ring : CompleteWithPacket(x) \/ CompleteWithout(x)
  BY <1>7 DEF CompleteWithPacket, CompleteWithout
<1>8. CASE EventThreadEnds \/ FinishGhost \/ CompleteGhost
  BY <1>8 DEF EventThreadEnds, FinishGhost, CompleteGhost
<1> QED BY <1>1, <1>2, <1>3, <1>4, <1>5, <1>6, <1>7, <1>8
        DEF Next, CaptureThread, EventThread, Completion

-----------------------------------------------------------------------------
(* The inductive invariant of the frames. *)

\* The types of what is collected, handed over and taken.
TypesInv ==
    /\ sent \in 0 .. 3 * MaxFrames
    /\ reasm \subseteq Packets /\ mailbox \subseteq Packets
    /\ \A p \in reasm \cup mailbox : p < sent
    /\ taken \in -1 .. MaxFrames - 1

\* The camera is past the JPEG of frame f.
Past(f) == 3 * f + 1 < sent

\* What was taken, or waits to be, is past; what is collected is newer.
PastInv == Past(taken) /\ \A p \in mailbox : Past(FrameOf(p))
NewerInv ==
    inFrame => \A p \in reasm :
        FrameOf(p) > taken /\ \A q \in mailbox : FrameOf(p) > FrameOf(q)

\* What is unread is there, and was not taken before.
UnreadInv == unread => mailbox # {} /\ \A p \in mailbox : FrameOf(p) > taken

\* As long as the frames are bounded, what is collected is of the frame the
\* camera is sending.
OneFrameInv ==
    inFrame /\ ~unbounded => \A p \in reasm : sent \in 3 * FrameOf(p) + 1 .. 3 * FrameOf(p) + 3

FrameInv == TypesInv /\ PastInv /\ NewerInv /\ UnreadInv /\ OneFrameInv

-----------------------------------------------------------------------------
(* Packets and their frames. *)

LEMMA FrameBounds ==
  ASSUME NEW p \in Nat
  PROVE  /\ FrameOf(p) \in Nat /\ 3 * FrameOf(p) <= p /\ p < 3 * FrameOf(p) + 3
         /\ IsStart(p) => p = 3 * FrameOf(p)
         /\ EndsJpeg(p) => p = 3 * FrameOf(p) + 1
  BY DEF FrameOf, IsStart, EndsJpeg

LEMMA PacketBounds ==
  ASSUME EyeToyAssumption, NEW p \in Packets
  PROVE  p \in Nat /\ FrameOf(p) \in 0 .. MaxFrames - 1
<1>1. p \in Nat /\ p <= 3 * MaxFrames - 1 /\ MaxFrames \in Nat
  BY DEF EyeToyAssumption, Packets
<1> QED BY <1>1, FrameBounds

\* A later packet is not of an earlier frame.
LEMMA FramesInOrder ==
  ASSUME NEW p \in Nat, NEW q \in Nat, p <= q
  PROVE  FrameOf(p) <= FrameOf(q)
<1>1. /\ FrameOf(p) \in Nat /\ 3 * FrameOf(p) <= p
      /\ FrameOf(q) \in Nat /\ q < 3 * FrameOf(q) + 3
  BY FrameBounds
<1> QED BY <1>1

\* Of some packets that were sent one is the newest.
LEMMA Newest ==
  ASSUME NEW S, S \subseteq Nat, S # {}, NEW n \in Nat, \A p \in S : p < n
  PROVE  \E p \in S : \A q \in S : q <= p
<1> DEFINE Less == {r \in Nat \X Nat : r[1] < r[2]}
           T == {n - p : p \in S}
<1>1. IsWellFoundedOn(Less, Nat)
  BY NatLessThanWellFounded, Zenon DEF OpToRel
<1>2. T \subseteq Nat /\ T # {}
  <2>1. \A p \in S : n - p \in Nat
    OBVIOUS
  <2> QED BY <2>1
<1>3. \A i, j \in Nat : i < j => <<i, j>> \in Less
  OBVIOUS
<1> HIDE DEF Less, T
<1>4. PICK x \in T : \A y \in T : ~ (<<y, x>> \in Less)
  BY <1>1, <1>2, WFMin
<1>5. PICK p \in S : x = n - p
  BY DEF T
<1>6. ASSUME NEW q \in S PROVE q <= p
  <2>1. n - q \in T /\ n - q \in Nat /\ x \in Nat
    BY <1>2 DEF T
  <2>2. ~ (n - q < x)
    BY <1>3, <1>4, <2>1
  <2>3. n - q \in Int /\ x = n - p /\ n \in Int /\ p \in Int /\ q \in Int
    BY <1>5
  <2> QED BY <2>2, <2>3
<1> QED BY <1>6

\* What is handed over is part of what was collected, and ends with a JPEG's end.
LEMMA TrimmedPart ==
  ASSUME NEW p \in Trimmed
  PROVE  p \in reasm /\ \E q \in reasm : EndsJpeg(q) /\ p <= q
  BY DEF Trimmed

-----------------------------------------------------------------------------
(* The steps, as far as the frames. *)

\* Only these touch the frames.
LEMMA FrameSteps ==
  ASSUME [Next]_vars
  PROVE  \/ UNCHANGED <<inFrame, reasm, mailbox, unread, unbounded, sent, taken>>
         \/ OpenDevice \/ Start \/ AcquireFrame \/ LosePacket
         \/ \E x \in Ring : CompleteWithPacket(x)
<1> USE DEF vars, context, transfers, frames
<1>1. CASE \/ UNCHANGED vars \/ OtherAcquires \/ OtherReleases \/ OtherJoined \/ Submitted
           \/ Drained \/ WaitExpires \/ FreeTransfers
  BY <1>1 DEF OtherAcquires, OtherReleases, OtherJoined, Submitted, Drained, WaitExpires,
     FreeTransfers
<1>2. CASE \/ ReleaseContext \/ DeviceJoined \/ Stop \/ EventThreadEnds \/ FinishGhost
           \/ CompleteGhost \/ Unplug
  BY <1>2 DEF ReleaseContext, DeviceJoined, Stop, EventThreadEnds, FinishGhost, CompleteGhost,
     Unplug
<1>3. CASE \E x \in Ring : Submit(x) \/ Finish(x) \/ Resubmit(x) \/ CompleteWithout(x)
  BY <1>3 DEF Submit, Finish, Resubmit, CompleteWithout
<1> QED BY <1>1, <1>2, <1>3 DEF Next, CaptureThread, EventThread, Completion

\* One packet more of the camera, which is collected, ends a frame or is lost.
LEMMA PacketStep ==
  ASSUME EyeToyAssumption, FrameInv, sent \in Packets, sent' = sent + 1, UNCHANGED taken,
         TakeStart(sent) \/ TakeData(sent) \/ TakeEnd(sent)
  PROVE  FrameInv'
<1> DEFINE f == FrameOf(sent)
<1>0. /\ sent \in Nat /\ f \in 0 .. MaxFrames - 1 /\ MaxFrames \in Nat
      /\ 3 * f <= sent /\ sent < 3 * f + 3
      /\ IsStart(sent) => sent = 3 * f
      /\ EndsJpeg(sent) => sent = 3 * f + 1
  BY FrameBounds, PacketBounds DEF EyeToyAssumption
<1>1. /\ taken \in Int /\ \A p \in reasm \cup mailbox : p \in Nat /\ FrameOf(p) \in Nat
      /\ \A p \in reasm : p < sent
  BY PacketBounds DEF FrameInv, TypesInv
<1>2. sent' \in 0 .. 3 * MaxFrames
  BY <1>0 DEF Packets
<1>3. \A i \in Int : Past(i) => Past(i)'
  BY <1>0 DEF Past
<1>a. \A p \in reasm \cup mailbox \cup {sent} : p \in Packets /\ p < sent'
  BY <1>0, <1>1 DEF FrameInv, TypesInv
<1> HIDE DEF f
<1>4. CASE TakeStart(sent)
  <2>1. reasm' = {sent} /\ UNCHANGED <<mailbox, unread>>
    BY <1>4 DEF TakeStart, Emptied
  <2>2. sent = 3 * f
    BY <1>0, <1>4 DEF TakeStart
  <2>3. TypesInv'
    BY <1>0, <1>2, <2>1 DEF FrameInv, TypesInv
  <2>4. PastInv'
    BY <1>1, <1>3, <2>1 DEF FrameInv, PastInv
  <2>5. f > taken /\ \A q \in mailbox : f > FrameOf(q)
    BY <1>0, <1>1, <2>2 DEF FrameInv, PastInv, Past
  <2>6. NewerInv' /\ UnreadInv'
    BY <2>1, <2>5 DEF FrameInv, NewerInv, UnreadInv, f
  <2>7. OneFrameInv'
    BY <1>0, <2>1, <2>2 DEF OneFrameInv, f
  <2> QED BY <2>3, <2>4, <2>6, <2>7 DEF FrameInv
<1>5. CASE TakeData(sent)
  <2>1. /\ UNCHANGED <<mailbox, unread, unbounded>>
        /\ \/ inFrame /\ reasm' = reasm \cup {sent} /\ UNCHANGED inFrame
           \/ inFrame' = FALSE /\ UNCHANGED reasm
    BY <1>5 DEF TakeData
  <2>2. sent = 3 * f + 1
    BY <1>0, <1>5 DEF TakeData
  <2>3. TypesInv'
    <3>1. reasm' \subseteq reasm \cup {sent}
      BY <2>1
    <3> QED BY <1>2, <1>a, <2>1, <3>1 DEF FrameInv, TypesInv
  <2>4. PastInv'
    BY <1>1, <1>3, <2>1 DEF FrameInv, PastInv
  <2>5. f > taken /\ \A q \in mailbox : f > FrameOf(q)
    BY <1>0, <1>1, <2>2 DEF FrameInv, PastInv, Past
  <2>6. NewerInv' /\ UnreadInv'
    BY <2>1, <2>5 DEF FrameInv, NewerInv, UnreadInv, f
  <2>7. ASSUME inFrame', ~unbounded', NEW p \in reasm'
        PROVE  sent' \in 3 * FrameOf(p) + 1 .. 3 * FrameOf(p) + 3
    <3>1. CASE p = sent
      BY <1>0, <2>2, <3>1 DEF f
    <3>2. CASE p \in reasm
      <4>1. sent \in 3 * FrameOf(p) + 1 .. 3 * FrameOf(p) + 3 /\ FrameOf(p) \in Nat
        BY <1>1, <2>1, <2>7, <3>2 DEF FrameInv, OneFrameInv
      <4> QED BY <1>0, <2>2, <4>1
    <3> QED BY <2>1, <2>7, <3>1, <3>2
  <2>8. OneFrameInv'
    BY <2>7 DEF OneFrameInv
  <2> QED BY <2>3, <2>4, <2>6, <2>8 DEF FrameInv
<1>6. CASE TakeEnd(sent)
  <2>1. ~inFrame' /\ UNCHANGED reasm
    BY <1>6 DEF TakeEnd
  <2>2. \/ UNCHANGED <<mailbox, unread>>
        \/ inFrame /\ Trimmed # {} /\ mailbox' = Trimmed
    BY <1>6 DEF TakeEnd
  <2>3. TypesInv'
    <3>1. mailbox' \subseteq reasm \cup mailbox
      BY <2>2, TrimmedPart
    <3> QED BY <1>2, <1>a, <2>1, <3>1 DEF FrameInv, TypesInv
  <2>4. ASSUME NEW p \in Trimmed PROVE Past(FrameOf(p))
    <3>1. PICK q \in reasm : EndsJpeg(q) /\ p <= q
      BY TrimmedPart
    <3>2. p \in Nat /\ q \in Nat /\ q < sent
      BY <1>1, TrimmedPart
    <3>3. FrameOf(p) <= FrameOf(q) /\ q = 3 * FrameOf(q) + 1 /\ FrameOf(p) \in Nat
          /\ FrameOf(q) \in Nat
      BY <3>1, <3>2, FramesInOrder, FrameBounds
    <3> QED BY <1>0, <3>2, <3>3 DEF Past
  <2>5. \A p \in Trimmed : FrameOf(p) \in Nat
    BY <1>1, TrimmedPart
  <2>6. PastInv'
    BY <1>1, <1>3, <2>2, <2>4, <2>5 DEF FrameInv, PastInv
  <2>7. UnreadInv'
    BY <2>2, TrimmedPart DEF FrameInv, UnreadInv, NewerInv
  <2> QED BY <2>1, <2>3, <2>6, <2>7 DEF FrameInv, NewerInv, OneFrameInv
<1> QED BY <1>4, <1>5, <1>6

\* AcquireFrame takes the frame of the newest packet there is.
LEMMA Taken ==
  ASSUME FrameInv, AcquireFrame
  PROVE  \E p \in mailbox : taken' = FrameOf(p)
<1>1. mailbox # {} /\ mailbox \subseteq Nat /\ sent \in Nat
  BY DEF FrameInv, UnreadInv, TypesInv, AcquireFrame, Packets
<1>2. \E p \in mailbox : \A q \in mailbox : q <= p
  BY <1>1, Newest DEF FrameInv, TypesInv
<1>3. (CHOOSE p \in mailbox : \A q \in mailbox : q <= p) \in mailbox
  BY <1>2
<1> QED BY <1>1, <1>3 DEF AcquireFrame

LEMMA FrameStep == EyeToyAssumption /\ FrameInv /\ [Next]_vars => FrameInv'
<1> SUFFICES ASSUME EyeToyAssumption, FrameInv, [Next]_vars PROVE FrameInv'
  OBVIOUS
<1>0. /\ taken \in Int /\ sent \in Nat /\ MaxFrames \in Nat
      /\ \A p \in reasm \cup mailbox : p \in Nat /\ FrameOf(p) \in 0 .. MaxFrames - 1
  BY PacketBounds DEF FrameInv, TypesInv, EyeToyAssumption
<1>1. CASE UNCHANGED <<inFrame, reasm, mailbox, unread, unbounded, sent, taken>>
  BY <1>1 DEF FrameInv, TypesInv, PastInv, Past, NewerInv, UnreadInv, OneFrameInv
<1>2. CASE OpenDevice
  <2>1. mailbox' = {} /\ unread' = FALSE /\ UNCHANGED <<inFrame, reasm, unbounded, sent, taken>>
    BY <1>2 DEF OpenDevice
  <2> QED BY <2>1 DEF FrameInv, TypesInv, PastInv, Past, NewerInv, UnreadInv, OneFrameInv
<1>3. CASE Start
  <2>1. inFrame' = FALSE /\ reasm' = {} /\ UNCHANGED <<mailbox, unread, sent, taken>>
    BY <1>3 DEF Start
  <2> QED BY <2>1 DEF FrameInv, TypesInv, PastInv, Past, NewerInv, UnreadInv, OneFrameInv
<1>4. CASE AcquireFrame
  <2>1. /\ mailbox # {} /\ unread' = FALSE /\ mailbox' = {}
        /\ UNCHANGED <<inFrame, reasm, unbounded, sent>>
    BY <1>4 DEF AcquireFrame, FrameInv, UnreadInv
  <2>2. PICK p \in mailbox : taken' = FrameOf(p)
    BY <1>4, Taken
  <2>3. taken' \in 0 .. MaxFrames - 1
    BY <1>0, <2>2
  <2>4. TypesInv'
    BY <2>1, <2>3, <1>0 DEF FrameInv, TypesInv
  <2>5. Past(taken)' /\ PastInv'
    BY <2>1, <2>2 DEF FrameInv, PastInv, Past
  <2>6. NewerInv'
    BY <2>1, <2>2 DEF FrameInv, NewerInv
  <2> QED BY <2>1, <2>4, <2>5, <2>6 DEF FrameInv, UnreadInv, OneFrameInv
<1>5. CASE LosePacket
  <2>1. /\ sent \in Packets /\ sent' = sent + 1
        /\ unbounded' = (unbounded \/ (IsStart(sent) /\ inFrame))
        /\ UNCHANGED <<inFrame, reasm, mailbox, unread, taken>>
    BY <1>5 DEF LosePacket
  <2>2. TypesInv'
    <3>1. sent' \in 0 .. 3 * MaxFrames
      BY <1>0, <2>1 DEF Packets
    <3>2. \A p \in reasm : p < sent'
      BY <1>0, <2>1 DEF FrameInv, TypesInv
    <3> QED BY <2>1, <3>1, <3>2 DEF FrameInv, TypesInv
  <2>3. PastInv'
    <3>1. \A i \in Int : Past(i) => Past(i)'
      BY <1>0, <2>1 DEF Past
    <3> QED BY <1>0, <2>1, <3>1 DEF FrameInv, PastInv
  <2>4. NewerInv' /\ UnreadInv'
    BY <2>1 DEF FrameInv, NewerInv, UnreadInv
  <2>5. ASSUME inFrame', ~unbounded', NEW p \in reasm'
        PROVE  sent' \in 3 * FrameOf(p) + 1 .. 3 * FrameOf(p) + 3
    <3>1. inFrame /\ ~unbounded /\ ~IsStart(sent)
      BY <2>1, <2>5
    <3>2. sent \in 3 * FrameOf(p) + 1 .. 3 * FrameOf(p) + 3 /\ FrameOf(p) \in Nat
      BY <1>0, <2>1, <2>5, <3>1 DEF FrameInv, OneFrameInv
    <3>3. sent # 3 * FrameOf(p) + 3
      BY <3>1, <3>2 DEF IsStart
    <3> QED BY <1>0, <2>1, <3>2, <3>3
  <2> QED BY <2>2, <2>3, <2>4, <2>5 DEF FrameInv, OneFrameInv
<1>6. CASE \E x \in Ring : CompleteWithPacket(x)
  <2>1. /\ sent \in Packets /\ sent' = sent + 1 /\ UNCHANGED taken
        /\ TakeStart(sent) \/ TakeData(sent) \/ TakeEnd(sent)
    BY <1>6 DEF CompleteWithPacket
  <2> QED BY <2>1, PacketStep
<1> QED BY <1>1, <1>2, <1>3, <1>4, <1>5, <1>6, FrameSteps

\* The flags and counters have their types.
FlagsInv ==
    /\ exit \in BOOLEAN /\ thread \in BOOLEAN /\ other \in BOOLEAN
    /\ sessions \in 0 .. MaxSessions /\ ghosts \in Nat /\ ghostRuns \in BOOLEAN
    /\ cancelling \in BOOLEAN /\ inFrame \in BOOLEAN /\ unread \in BOOLEAN
    /\ plugged \in BOOLEAN /\ expired \in BOOLEAN /\ unbounded \in BOOLEAN

LEMMA FlagsStep == EyeToyAssumption /\ FlagsInv /\ [Next]_vars => FlagsInv'
<1> SUFFICES ASSUME EyeToyAssumption, FlagsInv, [Next]_vars PROVE FlagsInv'
  OBVIOUS
<1> USE DEF FlagsInv, vars, context, transfers, frames
<1>1. CASE UNCHANGED vars \/ OtherAcquires \/ OtherReleases \/ OtherJoined
  <2>1. CASE UNCHANGED vars
    BY <2>1
  <2>2. CASE OtherAcquires
    BY <2>2 DEF OtherAcquires, Acquire
  <2>3. CASE OtherReleases
    BY <2>3 DEF OtherReleases, Release
  <2>4. CASE OtherJoined
    BY <2>4 DEF OtherJoined, Joined
  <2> QED BY <1>1, <2>1, <2>2, <2>3, <2>4
<1>2. CASE Start \/ Submitted \/ Drained \/ WaitExpires \/ ReleaseContext \/ DeviceJoined
  <2>1. CASE Start
    BY <2>1 DEF Start, Acquire
  <2>2. CASE ReleaseContext
    BY <2>2 DEF ReleaseContext, Release
  <2>3. CASE DeviceJoined
    BY <2>3 DEF DeviceJoined, Joined
  <2>4. CASE Submitted
    BY <2>4 DEF Submitted
  <2>5. CASE Drained
    BY <2>5 DEF Drained
  <2>6. CASE WaitExpires
    BY <2>6 DEF WaitExpires
  <2> QED BY <1>2, <2>1, <2>2, <2>3, <2>4, <2>5, <2>6
<1>3. CASE OpenDevice
  <2>1. sessions' \in 0 .. MaxSessions
    BY <1>3 DEF OpenDevice, EyeToyAssumption
  <2> QED BY <1>3, <2>1 DEF OpenDevice
<1>4. CASE FreeTransfers
  <2>1. IsFiniteSet({x \in Ring : xfer[x] = "owned"})
    BY FS_Subset DEF EyeToyAssumption
  <2>2. ghosts' \in Nat
    BY <1>4, <2>1, FS_CardinalityType DEF FreeTransfers
  <2>3. ghostRuns' \in BOOLEAN
    BY <1>4 DEF FreeTransfers, InCallback
  <2> QED BY <1>4, <2>2, <2>3 DEF FreeTransfers
<1>5. CASE \/ AcquireFrame \/ Stop \/ EventThreadEnds \/ FinishGhost \/ CompleteGhost \/ Unplug
  <2>1. CASE CompleteGhost
    BY <2>1 DEF CompleteGhost
  <2>2. CASE AcquireFrame
    BY <2>2 DEF AcquireFrame
  <2>3. CASE Stop
    BY <2>3 DEF Stop
  <2>4. CASE EventThreadEnds
    BY <2>4 DEF EventThreadEnds
  <2>5. CASE FinishGhost
    BY <2>5 DEF FinishGhost
  <2>6. CASE Unplug
    BY <2>6 DEF Unplug
  <2> QED BY <1>5, <2>1, <2>2, <2>3, <2>4, <2>5, <2>6
<1>6. CASE LosePacket
  <2>1. unbounded' \in BOOLEAN
    BY <1>6 DEF LosePacket
  <2> QED BY <1>6, <2>1 DEF LosePacket
<1>7. CASE \E x \in Ring : Submit(x) \/ Finish(x) \/ Resubmit(x) \/ CompleteWithout(x)
  BY <1>7 DEF Submit, Finish, Resubmit, CompleteWithout
<1>8. CASE \E x \in Ring : CompleteWithPacket(x)
  <2>1. /\ UNCHANGED <<context, sessions, ghosts, ghostRuns, cancelling, plugged, expired>>
        /\ TakeStart(sent) \/ TakeData(sent) \/ TakeEnd(sent)
    BY <1>8 DEF CompleteWithPacket
  <2>2. inFrame' \in BOOLEAN /\ unread' \in BOOLEAN /\ unbounded' \in BOOLEAN
    <3>1. CASE TakeStart(sent)
      BY <3>1 DEF TakeStart
    <3>2. CASE TakeData(sent)
      BY <3>2 DEF TakeData
    <3>3. CASE TakeEnd(sent)
      BY <3>3 DEF TakeEnd
    <3> QED BY <2>1, <3>1, <3>2, <3>3
  <2> QED BY <2>1, <2>2
<1> QED BY <1>1, <1>2, <1>3, <1>4, <1>5, <1>6, <1>7, <1>8
        DEF Next, CaptureThread, EventThread, Completion

-----------------------------------------------------------------------------
(* The theorems. *)

\* The inductive invariant holds in every reachable state.
THEOREM Invariant == Spec => []IInv
<1>1. Init => IInv
  <2> SUFFICES ASSUME Init PROVE IInv
    OBVIOUS
  <2>1. {x \in Ring : Busy(x)} = {}
    BY DEF Init, Busy
  <2>2. CountInv
    BY <2>1, FS_EmptySet DEF Init, CountInv
  <2> QED BY <2>2 DEF Init, IInv, RingInv, ContextInv, HoldsContext, CallbackInv, InCallback
<1>2. IInv /\ [Next]_vars => IInv'
  BY CountStep, RingStep, ContextStep, CallbackStep, EyeToyAssumption DEF IInv
<1> QED BY <1>1, <1>2, PTL DEF Spec

\* The event thread runs exactly as long as somebody holds the context, and no
\* callback outlives it (EyeToyUsb.cpp).
THEOREM ThreadForHolders == Spec => []ThreadServesHolders
<1>1. IInv => ThreadServesHolders
  BY DEF IInv, ContextInv, CallbackInv, InCallback, HoldsContext, ThreadServesHolders
<1> QED BY <1>1, Invariant, PTL

\* Unless its bounded wait ran out, Stop frees only what is back from libusb
\* (EyeToyDevice.cpp:269-270).
THEOREM BackBeforeFree == Spec => FreesWhatIsBack
<1>1. IInv /\ [Next]_vars
        => [FreeTransfers => expired \/ \A x \in Ring : xfer[x] \in {"none", "back"}]_vars
  BY DEF IInv, CountInv, RingInv, Busy, FreeTransfers
<1> QED BY <1>1, Invariant, PTL DEF Spec, FreesWhatIsBack

\* What is collected is newer than what was handed over, and that than what was taken.
THEOREM FramesBounded == Spec => []FrameInv
<1>1. Init => FrameInv
  BY EyeToyAssumption DEF Init, EyeToyAssumption, FrameInv, TypesInv, PastInv, Past, NewerInv,
     UnreadInv, OneFrameInv, Packets
<1>2. FrameInv /\ [Next]_vars => FrameInv'
  BY FrameStep, EyeToyAssumption
<1> QED BY <1>1, <1>2, PTL DEF Spec

\* The variables have their types, and the count of transfers in flight is never off.
THEOREM TypeCorrect == Spec => []TypeOK
<1>1. Init => FlagsInv
  <2>1. 0 \in 0 .. MaxSessions /\ 0 \in Nat
    BY EyeToyAssumption DEF EyeToyAssumption
  <2> QED BY <2>1 DEF Init, FlagsInv
<1>2. FlagsInv /\ [Next]_vars => FlagsInv'
  BY FlagsStep, EyeToyAssumption
<1>3. IInv /\ FrameInv /\ FlagsInv => TypeOK
  <2> SUFFICES ASSUME IInv, FrameInv, FlagsInv PROVE TypeOK
    OBVIOUS
  <2>1. users \in 0 .. 2 /\ joining \in {"none", "device", "other"}
    BY DEF IInv, ContextInv
  <2>2. inFlight = Cardinality({x \in Ring : xfer[x] \in {"owned", "again", "terminal"}})
    BY DEF IInv, CountInv, Busy
  <2> QED BY <2>1, <2>2 DEF IInv, CountInv, FrameInv, TypesInv, FlagsInv, TypeOK
<1> QED BY <1>1, <1>2, <1>3, Invariant, FramesBounded, PTL DEF Spec

\* AcquireFrame returns a newer frame each time, of packets of one frame, as long as
\* the camera's packets bound it (EyeToyDevice.cpp).
THEOREM NewFramesOnly == Spec => TakesNewFrames
<1>1. FrameInv /\ [Next]_vars =>
        [/\ AcquireFrame => mailbox # {} /\ taken' > taken
         /\ Mixed(mailbox') => Mixed(mailbox) \/ unbounded]_vars
  <2> SUFFICES ASSUME FrameInv, [Next]_vars
               PROVE  /\ AcquireFrame => mailbox # {} /\ taken' > taken
                      /\ Mixed(mailbox') => Mixed(mailbox) \/ unbounded
    OBVIOUS
  <2>1. AcquireFrame => mailbox # {} /\ taken' > taken
    BY Taken DEF AcquireFrame, FrameInv, UnreadInv
  <2>2. CASE mailbox' = mailbox \/ mailbox' = {}
    BY <2>1, <2>2 DEF Mixed
  <2>3. CASE inFrame /\ mailbox' = Trimmed
    <3>1. ASSUME Mixed(mailbox'), ~unbounded PROVE FALSE
      <4>1. PICK p \in reasm, q \in reasm : FrameOf(p) # FrameOf(q)
        BY <2>3, <3>1, TrimmedPart DEF Mixed
      <4>2. /\ sent \in 3 * FrameOf(p) + 1 .. 3 * FrameOf(p) + 3
            /\ sent \in 3 * FrameOf(q) + 1 .. 3 * FrameOf(q) + 3
        BY <2>3, <3>1 DEF FrameInv, OneFrameInv
      <4>3. FrameOf(p) \in Nat /\ FrameOf(q) \in Nat
        BY PacketBounds, EyeToyAssumption DEF FrameInv, TypesInv
      <4> QED BY <4>1, <4>2, <4>3
    <3> QED BY <2>1, <3>1
  <2>4. mailbox' = mailbox \/ mailbox' = {} \/ (inFrame /\ mailbox' = Trimmed)
    <3>1. CASE UNCHANGED mailbox \/ OpenDevice \/ Start \/ AcquireFrame \/ LosePacket
      BY <3>1 DEF OpenDevice, Start, AcquireFrame, LosePacket
    <3>2. CASE \E x \in Ring : CompleteWithPacket(x)
      <4>1. TakeStart(sent) \/ TakeData(sent) \/ TakeEnd(sent)
        BY <3>2 DEF CompleteWithPacket
      <4> QED BY <4>1 DEF TakeStart, TakeData, TakeEnd
    <3> QED BY <3>1, <3>2, FrameSteps
  <2> QED BY <2>2, <2>3, <2>4
<1> QED BY <1>1, FramesBounded, PTL DEF Spec, TakesNewFrames
=============================================================================
