---------------------------- MODULE EyeToyDevice ----------------------------
(***************************************************************************)
(* One EyeToy (src/transports/usb_iso/EyeToyDevice.cpp) on the libusb      *)
(* context all EyeToys share (EyeToyUsb.cpp).  The capture thread opens    *)
(* it, submits a ring of isochronous transfers, takes frames out of a one- *)
(* deep mailbox and stops it again; the context's event thread runs the    *)
(* completion callbacks, which put the packets of the camera together and  *)
(* submit each transfer again.  Other EyeToys matter by holding the        *)
(* context: as long as one does, the event thread runs.                    *)
(*                                                                         *)
(* A transfer carries one packet.  The camera sends each frame as a start  *)
(* packet, the packet that ends the JPEG, and an end packet; any of them   *)
(* may be lost.                                                            *)
(***************************************************************************)
EXTENDS Integers, FiniteSets

CONSTANTS
    Ring,         \* the iso transfers (kIsoRing)
    MaxJpeg,      \* kMaxJpegBytes, in packets
    MaxFrames,    \* bound: frames the camera sends
    MaxSessions   \* bound: devices the capture thread opens

ASSUME EyeToyAssumption ==
    /\ Ring # {} /\ IsFiniteSet(Ring)
    /\ MaxJpeg \in Nat /\ MaxFrames \in Nat /\ MaxSessions \in Nat

VARIABLES
    \* UsbContext
    users, exit,  \* _users, _exit
    thread,       \* the event thread runs
    joining,      \* the user that joins the thread, with _mutex held; "none"
    other,        \* some other EyeToy holds the context
    \* the device and its capture thread
    pc, sessions,
    todo,         \* transfers Start has still to submit
    xfer,         \* per transfer: where it is
    inFlight,     \* _xfersInFlight
    ghosts,       \* freed transfers that libusb still owns
    ghostRuns,    \* a callback runs on freed memory
    cancelling, inFrame,
    reasm,        \* _reasm: the packets collected
    mailbox,      \* _mbJpeg: a complete JPEG, as packets
    unread,       \* _mbSeq # _consumedSeq
    \* the camera
    plugged, sent,
    \* history
    expired,      \* Stop gave up waiting for the transfers
    unbounded,    \* the end of a frame and the start of the next were both lost
    taken         \* the newest frame AcquireFrame has returned

context == <<users, exit, thread, joining, other>>
transfers == <<xfer, inFlight, ghosts, ghostRuns>>
frames  == <<inFrame, reasm, mailbox, unread, unbounded, sent>>
vars == <<context, pc, sessions, todo, transfers, cancelling, frames, plugged,
          expired, taken>>
-----------------------------------------------------------------------------
(* Packet 3 f + k of the camera: part k of its frame number f.             *)
Packets == 0 .. 3 * MaxFrames - 1
IsStart(p) == p % 3 = 0
EndsJpeg(p) == p % 3 = 1
IsEnd(p) == p % 3 = 2
FrameOf(p) == p \div 3

Init ==
    /\ users = 0 /\ exit = FALSE /\ thread = FALSE /\ joining = "none" /\ other = FALSE
    /\ pc = "closed" /\ sessions = 0 /\ todo = {}
    /\ xfer = [x \in Ring |-> "none"]
    /\ inFlight = 0 /\ ghosts = 0 /\ ghostRuns = FALSE /\ cancelling = FALSE
    /\ inFrame = FALSE /\ reasm = {} /\ mailbox = {} /\ unread = FALSE
    /\ plugged = TRUE /\ sent = 0
    /\ expired = FALSE /\ unbounded = FALSE /\ taken = -1
-----------------------------------------------------------------------------
(* UsbContext: Acquire starts the event thread for the first user, Release *)
(* ends it for the last and waits for it under the mutex.                  *)

AcquireLeavingExit ==                                           \* mutant
    /\ joining = "none"
    /\ users' = users + 1 /\ thread' = TRUE
    /\ UNCHANGED <<exit, joining>>
Acquire ==
    /\ joining = "none"
    /\ users' = users + 1 /\ thread' = TRUE
    /\ exit' = IF users = 0 THEN FALSE ELSE exit
    /\ UNCHANGED joining

Release(who) ==
    /\ joining = "none"
    /\ users' = users - 1
    /\ IF users = 1 THEN exit' = TRUE /\ joining' = who
                    ELSE UNCHANGED <<exit, joining>>
    /\ UNCHANGED thread

Joined(who) ==
    /\ joining = who /\ ~thread
    /\ joining' = "none"
    /\ UNCHANGED <<users, exit, thread>>

InCallback == ghostRuns \/ \E x \in Ring : xfer[x] \in {"again", "terminal"}

(* EventThreadFunc tests _exit between two rounds of callbacks.            *)
EventThreadEnds ==
    /\ thread /\ exit /\ ~InCallback
    /\ thread' = FALSE
    /\ UNCHANGED <<users, exit, joining, other, pc, sessions, todo, transfers, cancelling,
                   frames, plugged, expired, taken>>

OtherAcquires ==
    /\ ~other /\ Acquire
    /\ other' = TRUE
    /\ UNCHANGED <<pc, sessions, todo, transfers, cancelling, frames, plugged, expired, taken>>

OtherReleases ==
    /\ other /\ joining # "other" /\ Release("other")
    /\ other' = FALSE
    /\ UNCHANGED <<pc, sessions, todo, transfers, cancelling, frames, plugged, expired, taken>>

OtherJoined ==
    /\ Joined("other")
    /\ UNCHANGED <<other, pc, sessions, todo, transfers, cancelling, frames, plugged, expired,
                   taken>>
-----------------------------------------------------------------------------
(* The capture thread.  Every session has a device object of its own.      *)

(* Init: one that fails leaves everything closed.                          *)
OpenDevice ==
    /\ pc = "closed" /\ sessions < MaxSessions /\ plugged
    /\ pc' = "open" /\ sessions' = sessions + 1
    /\ xfer' = [x \in Ring |-> "none"]
    /\ inFlight' = 0 /\ cancelling' = FALSE
    /\ mailbox' = {} /\ unread' = FALSE /\ expired' = FALSE
    /\ UNCHANGED <<context, todo, ghosts, ghostRuns, inFrame, reasm, unbounded, sent, plugged,
                   taken>>

(* Start: the event thread first, then the ring.                           *)
Start ==
    /\ pc = "open" /\ Acquire
    /\ pc' = "submit" /\ todo' = Ring
    /\ cancelling' = FALSE /\ inFrame' = FALSE /\ reasm' = {} /\ unbounded' = FALSE
    /\ UNCHANGED <<other, sessions, transfers, mailbox, unread, sent, plugged, expired, taken>>

(* The transfer is counted before it is submitted: its callback may run at *)
(* once.                                                                   *)
Submit(x) ==
    /\ pc = "submit" /\ x \in todo
    /\ todo' = todo \ {x}
    /\ xfer' = [xfer EXCEPT ![x] = "owned"]
    /\ inFlight' = inFlight + 1
    /\ UNCHANGED <<context, pc, sessions, ghosts, ghostRuns, cancelling, frames, plugged, expired,
                   taken>>

(* All submitted, or one was refused: the rest is left out.  With none the *)
(* device is stopped again.                                                *)
Submitted ==
    /\ pc = "submit"
    /\ pc' = IF \A x \in Ring : xfer[x] = "none" THEN "free" ELSE "streaming"
    /\ todo' = {}
    /\ UNCHANGED <<context, sessions, transfers, cancelling, frames, plugged, expired, taken>>

(* AcquireFrame takes what the mailbox holds; it times out while there is  *)
(* nothing new.                                                            *)
AcquireFrame ==
    /\ pc = "streaming" /\ unread
    /\ unread' = FALSE /\ mailbox' = {}
    /\ taken' = IF mailbox = {} THEN taken
                ELSE FrameOf(CHOOSE p \in mailbox : \A q \in mailbox : q <= p)
    /\ UNCHANGED <<context, pc, sessions, todo, transfers, cancelling, inFrame, reasm, unbounded,
                   sent, plugged, expired>>

(* Stop: cancel the ring, and wait about a second for it to drain.         *)
Stop ==
    /\ pc = "streaming"
    /\ pc' = "drain" /\ cancelling' = TRUE
    /\ UNCHANGED <<context, sessions, todo, transfers, frames, plugged, expired, taken>>

NoWait == TRUE                                                  \* mutant
Back == inFlight = 0

Drained ==
    /\ pc = "drain" /\ Back
    /\ pc' = "free"
    /\ UNCHANGED <<context, sessions, todo, transfers, cancelling, frames, plugged,
                   expired, taken>>

NeverExpires == FALSE                                           \* mutant
MayExpire == pc = "drain" /\ inFlight > 0

WaitExpires ==
    /\ MayExpire
    /\ pc' = "free" /\ expired' = TRUE
    /\ UNCHANGED <<context, sessions, todo, transfers, cancelling, frames, plugged, taken>>

(* A transfer that libusb still owns, or whose callback runs, is freed all *)
(* the same.                                                               *)
FreeTransfers ==
    /\ pc = "free"
    /\ xfer' = [x \in Ring |-> "none"] /\ inFlight' = 0
    /\ ghosts' = ghosts + Cardinality({x \in Ring : xfer[x] = "owned"})
    /\ ghostRuns' = InCallback
    /\ pc' = "release"
    /\ UNCHANGED <<context, sessions, todo, cancelling, frames, plugged, expired, taken>>

ReleaseContext ==
    /\ pc = "release" /\ Release("device")
    /\ pc' = IF users = 1 THEN "join" ELSE "closed"
    /\ UNCHANGED <<other, sessions, todo, transfers, cancelling, frames, plugged, expired, taken>>

DeviceJoined ==
    /\ pc = "join" /\ Joined("device")
    /\ pc' = "closed"
    /\ UNCHANGED <<other, sessions, todo, transfers, cancelling, frames, plugged, expired, taken>>
-----------------------------------------------------------------------------
(* HandleTransfer, on the event thread.                                    *)

(* A start packet begins a frame over whatever was collected.              *)
KeepCollected == reasm                                          \* mutant
Emptied == {}

TakeStart(p) ==
    /\ IsStart(p)
    /\ reasm' = Emptied \cup {p} /\ inFrame' = TRUE /\ unbounded' = FALSE
    /\ UNCHANGED <<mailbox, unread>>

(* The overflow guard drops the frame.                                     *)
TakeData(p) ==
    /\ EndsJpeg(p)
    /\ IF inFrame /\ Cardinality(reasm) < MaxJpeg
       THEN reasm' = reasm \cup {p} /\ UNCHANGED inFrame
       ELSE inFrame' = FALSE /\ UNCHANGED reasm
    /\ UNCHANGED <<mailbox, unread, unbounded>>

(* The JPEG, cut off behind the last end marker in it; without one there   *)
(* is no frame.                                                            *)
Trimmed == {p \in reasm : \E q \in reasm : EndsJpeg(q) /\ p <= q}

(* An end packet hands the frame to the mailbox (OnFrameComplete), over a  *)
(* frame nobody took.                                                      *)
TakeEnd(p) ==
    /\ IsEnd(p)
    /\ IF inFrame /\ Trimmed # {}
       THEN mailbox' = Trimmed /\ unread' = TRUE
       ELSE UNCHANGED <<mailbox, unread>>
    /\ inFrame' = FALSE
    /\ UNCHANGED <<reasm, unbounded>>

(* A packet is lost on the bus, or because no transfer waits for it.       *)
LosePacket ==
    /\ plugged /\ sent \in Packets /\ pc \in {"submit", "streaming", "drain"}
    /\ sent' = sent + 1
    /\ unbounded' = (unbounded \/ (IsStart(sent) /\ inFrame))
    /\ UNCHANGED <<context, pc, sessions, todo, transfers, cancelling, inFrame, reasm, mailbox,
                   unread, plugged, expired, taken>>

(* Whether the callback submits the transfer again is decided on           *)
(* _cancelling, and done a step later.                                     *)
Decided == IF cancelling THEN "terminal" ELSE "again"

CompleteWithPacket(x) ==
    /\ thread /\ ~InCallback /\ xfer[x] = "owned"
    /\ plugged /\ sent \in Packets
    /\ TakeStart(sent) \/ TakeData(sent) \/ TakeEnd(sent)
    /\ sent' = sent + 1
    /\ xfer' = [xfer EXCEPT ![x] = Decided]
    /\ UNCHANGED <<context, pc, sessions, todo, inFlight, ghosts, ghostRuns, cancelling, plugged,
                   expired, taken>>

(* Cancelled, timed out or failed; "no device" is not submitted again.     *)
CompleteWithout(x) ==
    /\ thread /\ ~InCallback /\ xfer[x] = "owned"
    /\ xfer' = [xfer EXCEPT ![x] = IF plugged THEN Decided ELSE "terminal"]
    /\ UNCHANGED <<context, pc, sessions, todo, inFlight, ghosts, ghostRuns, cancelling, frames,
                   plugged, expired, taken>>

(* A freed transfer completes.                                             *)
CompleteGhost ==
    /\ thread /\ ~InCallback /\ ghosts > 0
    /\ ghosts' = ghosts - 1 /\ ghostRuns' = TRUE
    /\ UNCHANGED <<context, pc, sessions, todo, xfer, inFlight, cancelling, frames, plugged,
                   expired, taken>>

Resubmit(x) ==
    /\ xfer[x] = "again"
    /\ xfer' = [xfer EXCEPT ![x] = "owned"]
    /\ UNCHANGED <<context, pc, sessions, todo, inFlight, ghosts, ghostRuns, cancelling, frames,
                   plugged, expired, taken>>

Uncounted == inFlight                                           \* mutant
CountedBack == inFlight - 1

(* Terminal; also when submitting it again fails.                          *)
Finish(x) ==
    /\ xfer[x] \in {"again", "terminal"}
    /\ xfer' = [xfer EXCEPT ![x] = "back"]
    /\ inFlight' = CountedBack
    /\ UNCHANGED <<context, pc, sessions, todo, ghosts, ghostRuns, cancelling, frames, plugged,
                   expired, taken>>

FinishGhost ==
    /\ ghostRuns
    /\ ghostRuns' = FALSE
    /\ UNCHANGED <<context, pc, sessions, todo, xfer, inFlight, ghosts, cancelling, frames,
                   plugged, expired, taken>>

Unplug ==
    /\ plugged
    /\ plugged' = FALSE
    /\ UNCHANGED <<context, pc, sessions, todo, transfers, cancelling, frames, expired, taken>>
-----------------------------------------------------------------------------
CaptureThread ==
    \/ Start \/ (\E x \in Ring : Submit(x)) \/ Submitted
    \/ Drained \/ WaitExpires \/ FreeTransfers \/ ReleaseContext \/ DeviceJoined

EventThread == EventThreadEnds \/ FinishGhost \/ \E x \in Ring : Resubmit(x) \/ Finish(x)

Completion == CompleteGhost \/ \E x \in Ring : CompleteWithPacket(x) \/ CompleteWithout(x)

Next ==
    \/ OtherAcquires \/ OtherReleases \/ OtherJoined
    \/ OpenDevice \/ CaptureThread \/ AcquireFrame \/ Stop
    \/ EventThread \/ Completion
    \/ LosePacket \/ Unplug

Spec == Init /\ [][Next]_vars

(* Both threads run on, and so does the other EyeToy's release; its opens  *)
(* and closes are far enough apart that this device gets the mutex.        *)
(* libusb need not complete anything.                                      *)
FairSpec ==
    /\ Spec
    /\ WF_vars(CaptureThread) /\ SF_vars(ReleaseContext)
    /\ WF_vars(EventThread) /\ WF_vars(OtherJoined)
-----------------------------------------------------------------------------
(* Types; the counter of transfers in flight is never off.                 *)
TypeOK ==
    /\ users \in 0 .. 2 /\ exit \in BOOLEAN /\ thread \in BOOLEAN /\ other \in BOOLEAN
    /\ joining \in {"none", "device", "other"}
    /\ pc \in {"closed", "open", "submit", "streaming", "drain", "free", "release", "join"}
    /\ sessions \in 0 .. MaxSessions /\ todo \subseteq Ring
    /\ xfer \in [Ring -> {"none", "owned", "again", "terminal", "back"}]
    /\ inFlight = Cardinality({x \in Ring : xfer[x] \in {"owned", "again", "terminal"}})
    /\ ghosts \in Nat /\ ghostRuns \in BOOLEAN
    /\ cancelling \in BOOLEAN /\ inFrame \in BOOLEAN /\ unread \in BOOLEAN
    /\ reasm \subseteq Packets /\ mailbox \subseteq Packets /\ sent \in 0 .. 3 * MaxFrames
    /\ plugged \in BOOLEAN /\ expired \in BOOLEAN /\ unbounded \in BOOLEAN
    /\ taken \in -1 .. MaxFrames - 1

(* "Cancel the ring and let the event thread drive every transfer to a     *)
(* terminal (cancelled) callback before we free anything"                  *)
(* (EyeToyDevice.cpp:269-270): a transfer is freed while libusb owns it or *)
(* its callback runs only if the bounded wait ran out.                     *)
FreesWhatIsBack == [][FreeTransfers =>
    expired \/ \A x \in Ring : xfer[x] \in {"none", "back"}]_vars

(* The event thread runs exactly as long as somebody holds the context     *)
(* (EyeToyUsb.h): no session streams without it, whatever order devices    *)
(* come and go in, and none is called back when all are closed.            *)
HoldsContext == pc \in {"submit", "streaming", "drain", "free", "release"}
ThreadServesHolders ==
    /\ joining = "none" => (thread <=> (other \/ HoldsContext))
    /\ ghostRuns => thread

(* What AcquireFrame returns is a frame newer than any it returned before  *)
(* (so never the same one twice), and its JPEG is of that frame alone,     *)
(* unless the packets that bound it from the one before were both lost.    *)
Mixed(jpeg) == \E p, q \in jpeg : FrameOf(p) # FrameOf(q)
TakesNewFrames == [][
    /\ AcquireFrame => mailbox # {} /\ taken' > taken
    /\ Mixed(mailbox') => Mixed(mailbox) \/ unbounded]_vars

(* A wedged transfer does not hang the teardown: Stop returns, with the    *)
(* device closed and its hold on the context gone.                         *)
StopReturns == pc = "drain" ~> pc = "closed"
=============================================================================
