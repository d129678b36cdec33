------------------------------ MODULE FrameBus ------------------------------
(***************************************************************************)
(* The shared-memory frame bus of src/common/FrameBus.h: one Writer (the   *)
(* capture host) and any number of Readers (Frame Server streams, the      *)
(* host's preview) of one section, synchronised by a sequence lock.  Every *)
(* store of the writer and every load of a reader that another process can *)
(* interleave with is a step of its own.  The host may die at any step and *)
(* a new one then re-creates the section under the readers' feet.          *)
(*                                                                         *)
(* A payload is a set of cells (chunks of a memcpy).  A cell holds the     *)
(* frame it was last written for, so a torn copy is one whose cells name   *)
(* different frames.  Black and camera frames are not told apart here.     *)
(***************************************************************************)
EXTENDS Integers

CONSTANTS
    Readers,      \* mappings of the section held by reader processes
    MaxWidth,     \* kMaxWidth and kMaxHeight, in cells
    MaxHeight,
    MaxJpeg,      \* kMaxJpegBytes, in cells
    Formats,      \* the geometries <<width, height>> the host publishes
    MaxAttempts,  \* the 64 attempts of TryReadNewer
    MaxFrames,    \* bound: windows the writer opens
    MaxCreates    \* bound: incarnations of the host

ASSUME BusAssumption ==
    /\ MaxWidth \in Nat /\ MaxHeight \in Nat /\ MaxJpeg \in Nat
    /\ Formats \subseteq (1 .. MaxWidth) \X (1 .. MaxHeight)
    /\ MaxAttempts \in Nat \ {0}
    /\ MaxFrames \in Nat /\ MaxCreates \in Nat

VARIABLES
    \* the section: HotHeader (magic stands for magic, version, payloadFormat)
    magic, width, height, jpegLen, seq, frameId,
    data,       \* pixels and JFIF sidecar, cell by cell
    \* the writer
    wpc, frame, \* frame: the frame being written, or the last one written
    wtodo,      \* cells the running copy has still to write
    zeroing,    \* header fields the memset of Create has still to clear
    opened, created,
    published,  \* history: the last frame whose window was closed
    \* the readers
    rpc, ses, call,
    disturbed   \* history: what the writer did to the header during the call

section == <<magic, width, height, jpegLen, seq, frameId, data>>
writer  == <<wpc, frame, wtodo, zeroing, opened, created, published>>
reader  == <<rpc, ses, call>>
vars    == <<section, writer, reader, disturbed>>
-----------------------------------------------------------------------------
(* The layout of the section: pixels first, the sidecar behind them.       *)

Yuy2Bytes(w, h) == w * h
MaxFrameBytes == Yuy2Bytes(MaxWidth, MaxHeight)
Pixels  == 1 .. MaxFrameBytes
Sidecar == (MaxFrameBytes + 1) .. (MaxFrameBytes + MaxJpeg)
Cells   == 1 .. (MaxFrameBytes + MaxJpeg)

PixelCells(bytes) == 1 .. bytes
SidecarCells(len) == (MaxFrameBytes + 1) .. (MaxFrameBytes + len)

ClampDropped(len) == len                                       \* mutant
Clamp(len) == IF len > MaxJpeg THEN MaxJpeg ELSE len

HeaderFieldsWithoutFrameId == {"magic", "width", "height", "jpegLen", "seq"}  \* mutant
HeaderFields == {"magic", "width", "height", "jpegLen", "seq", "frameId"}

(* A frame: its number over all incarnations, the frameId it is published  *)
(* under, its geometry and the length of its sidecar (0: none).            *)
Frames == [no: 0 .. MaxFrames, id: Nat,
           w: 0 .. MaxWidth, h: 0 .. MaxHeight, len: 0 .. MaxJpeg]
EmptyFrame(w, h) == [no |-> 0, id |-> 0, w |-> w, h |-> h, len |-> 0]
NoFrame == EmptyFrame(0, 0)

FrameCells(f) == PixelCells(Yuy2Bytes(f.w, f.h)) \cup SidecarCells(f.len)
-----------------------------------------------------------------------------
(* Writer.                                                                 *)

(* No host runs; "aborted": the last one died while it re-created the section. *)
Dead     == {"down", "aborted"}
Creating == wpc \in {"zero", "newwidth", "newheight", "magic", "aborted"}
Resizing == Creating \/ wpc \in {"width", "height"}

(* History: note an event for the readers whose call it may disturb.       *)
Unfinished == {"checkheight", "before", "id", "len", "copy"}
Disturb(events) ==
    disturbed' = [r \in Readers |-> IF rpc[r] \in Unfinished
                                    THEN disturbed[r] \cup events ELSE disturbed[r]]

(* Every publishing call opens the window by making seq odd.               *)
OpenWindow(w, h, len, next) ==
    /\ wpc = "idle" /\ opened < MaxFrames
    /\ seq' = seq + 1
    /\ opened' = opened + 1
    /\ frame' = [no |-> opened + 1, id |-> frameId + 1, w |-> w, h |-> h, len |-> len]
    /\ wtodo' = PixelCells(Yuy2Bytes(w, h)) \cup SidecarCells(len)
    /\ wpc' = next

(* Publish and PublishBlack write the pixels of the current geometry.      *)
Publish ==
    /\ OpenWindow(width, height, 0, "copy")
    /\ UNCHANGED <<magic, width, height, jpegLen, frameId, data, zeroing, created, published,
                   reader, disturbed>>

PublishWithJpeg(len) ==
    /\ OpenWindow(width, height, Clamp(len), "copy")
    /\ UNCHANGED <<magic, width, height, jpegLen, frameId, data, zeroing, created, published,
                   reader, disturbed>>

UpdateFormat(f) ==
    /\ OpenWindow(f[1], f[2], 0, "width")
    /\ Disturb({"resized"})
    /\ UNCHANGED <<magic, width, height, jpegLen, frameId, data, zeroing, created, published,
                   reader>>

(* The header stores of UpdateFormat, before the black fill.               *)
StoreWidth ==
    /\ wpc = "width" /\ width' = frame.w /\ wpc' = "height"
    /\ UNCHANGED <<magic, height, jpegLen, seq, frameId, data, frame, wtodo, zeroing,
                   opened, created, published, reader, disturbed>>

StoreHeight ==
    /\ wpc = "height" /\ height' = frame.h /\ wpc' = "copy"
    /\ UNCHANGED <<magic, width, jpegLen, seq, frameId, data, frame, wtodo, zeroing,
                   opened, created, published, reader, disturbed>>

(* memcpy of the pixels (in any order), then of the sidecar.               *)
CopyIn(c) ==
    /\ wpc = "copy" /\ c \in wtodo
    /\ c \in Pixels \/ wtodo \cap Pixels = {}
    /\ data' = [data EXCEPT ![c] = frame]
    /\ wtodo' = wtodo \ {c}
    /\ UNCHANGED <<magic, width, height, jpegLen, seq, frameId, wpc, frame, zeroing,
                   opened, created, published, reader, disturbed>>

StoreJpegLen ==
    /\ wpc = "copy" /\ wtodo = {}
    /\ jpegLen' = frame.len /\ wpc' = "id"
    /\ UNCHANGED <<magic, width, height, seq, frameId, data, frame, wtodo, zeroing,
                   opened, created, published, reader, disturbed>>

BumpFrameId ==
    /\ wpc = "id"
    /\ frameId' = frameId + 1 /\ wpc' = "close"
    /\ UNCHANGED <<magic, width, height, jpegLen, seq, data, frame, wtodo, zeroing,
                   opened, created, published, reader, disturbed>>

CloseWindow ==
    /\ wpc = "close"
    /\ seq' = seq + 1 /\ wpc' = "idle" /\ published' = frame
    /\ UNCHANGED <<magic, width, height, jpegLen, frameId, data, frame, wtodo, zeroing,
                   opened, created, reader, disturbed>>

(* Create maps the section: a new one, or the one readers still hold.      *)
Create(f) ==
    /\ wpc \in Dead /\ created < MaxCreates
    /\ created' = created + 1
    /\ frame' = EmptyFrame(f[1], f[2])
    /\ zeroing' = HeaderFields
    /\ wtodo' = {}
    /\ wpc' = "zero"
    /\ Disturb({"created", "resized"})
    /\ UNCHANGED <<section, opened, published, reader>>

(* memset of the header page; its stores have no order readers can rely on.*)
ZeroField(x) ==
    /\ wpc = "zero" /\ x \in zeroing
    /\ zeroing' = zeroing \ {x}
    /\ magic'   = IF x = "magic"   THEN FALSE ELSE magic
    /\ width'   = IF x = "width"   THEN 0 ELSE width
    /\ height'  = IF x = "height"  THEN 0 ELSE height
    /\ jpegLen' = IF x = "jpegLen" THEN 0 ELSE jpegLen
    /\ seq'     = IF x = "seq"     THEN 0 ELSE seq
    /\ frameId' = IF x = "frameId" THEN 0 ELSE frameId
    /\ wpc'     = IF zeroing = {x} THEN "newwidth" ELSE "zero"
    /\ UNCHANGED <<data, frame, wtodo, opened, created, published, reader, disturbed>>

StoreNewWidth ==
    /\ wpc = "newwidth" /\ width' = frame.w /\ wpc' = "newheight"
    /\ UNCHANGED <<magic, height, jpegLen, seq, frameId, data, frame, wtodo, zeroing,
                   opened, created, published, reader, disturbed>>

StoreNewHeight ==
    /\ wpc = "newheight" /\ height' = frame.h /\ wpc' = "magic"
    /\ UNCHANGED <<magic, width, jpegLen, seq, frameId, data, frame, wtodo, zeroing,
                   opened, created, published, reader, disturbed>>

StoreMagic ==
    /\ wpc = "magic" /\ magic' = TRUE /\ wpc' = "idle"
    /\ UNCHANGED <<width, height, jpegLen, seq, frameId, data, frame, wtodo, zeroing,
                   opened, created, published, reader, disturbed>>

(* The host exits or is killed.  A section no reader maps is gone with it. *)
Crash ==
    /\ wpc \notin Dead /\ created < MaxCreates
    /\ wtodo' = {} /\ zeroing' = {}
    /\ IF \A r \in Readers : rpc[r] = "closed"
       THEN /\ wpc' = "down"
            /\ magic' = FALSE
            /\ width' = 0 /\ height' = 0 /\ jpegLen' = 0 /\ seq' = 0 /\ frameId' = 0
            /\ data' = [c \in Cells |-> NoFrame]
            /\ frame' = NoFrame
       ELSE /\ wpc' = IF Creating THEN "aborted" ELSE "down"
            /\ UNCHANGED <<section, frame>>
    /\ UNCHANGED <<opened, created, published, reader, disturbed>>
-----------------------------------------------------------------------------
(* Reader.  call holds the locals of one ReadFormat + TryReadNewer, ses    *)
(* what the session keeps between calls.                                   *)

SectionExists == wpc \notin Dead \/ \E r \in Readers : rpc[r] # "closed"

NoCall == [w |-> 0, h |-> 0, cw |-> 0, attempt |-> 0, seqBefore |-> 0, id |-> 0,
           len |-> 0, todo |-> {}, got |-> [c \in Cells |-> NoFrame]]

Goto(r, pc) == rpc' = [rpc EXCEPT ![r] = pc]

SetCall(r, locals) == call' = [call EXCEPT ![r] = locals]

EndCall(r) ==
    /\ Goto(r, "idle")
    /\ SetCall(r, NoCall)
    /\ disturbed' = [disturbed EXCEPT ![r] = {}]

(* A failed attempt: try again, or give up until the next call.            *)
Retry(r) ==
    IF call[r].attempt < MaxAttempts
    THEN Goto(r, "before") /\ UNCHANGED <<call, disturbed>>
    ELSE EndCall(r)

TryOpen(r) ==
    /\ rpc[r] = "closed" /\ SectionExists /\ magic
    /\ \E k \in {"yuy2", "mjpeg"} : ses' = [ses EXCEPT ![r] = [ses[r] EXCEPT !.kind = k]]
    /\ Goto(r, "idle")
    /\ UNCHANGED <<section, writer, call, disturbed>>

(* ReadFormat copies the header without the sequence lock.                 *)
ReadFormat(r) ==
    /\ rpc[r] = "idle" /\ magic
    /\ SetCall(r, [call[r] EXCEPT !.w = width])
    /\ Goto(r, "format")
    /\ UNCHANGED <<section, writer, ses, disturbed>>

ReadFormatHeight(r) ==
    /\ rpc[r] = "format"
    /\ IF call[r].w \in 1 .. MaxWidth /\ height \in 1 .. MaxHeight
       THEN /\ SetCall(r, [call[r] EXCEPT !.h = height])
            /\ Goto(r, "check") /\ UNCHANGED disturbed
       ELSE EndCall(r)
    /\ UNCHANGED <<section, writer, ses>>

Want(r) == Yuy2Bytes(call[r].w, call[r].h)

(* The check at the head of TryReadNewer, made once, before the window.    *)
CheckWidth(r) ==
    /\ rpc[r] = "check"
    /\ IF magic
       THEN /\ SetCall(r, [call[r] EXCEPT !.cw = width])
            /\ Goto(r, "checkheight")
            /\ disturbed' = [disturbed EXCEPT ![r] = IF Resizing THEN {"resized"} ELSE {}]
       ELSE EndCall(r)
    /\ UNCHANGED <<section, writer, ses>>

SizeUnchecked(r, h) == TRUE                                    \* mutant
SizeMatches(r, h) == Yuy2Bytes(call[r].cw, h) = Want(r)

CheckHeight(r) ==
    /\ rpc[r] = "checkheight"
    /\ IF SizeMatches(r, height)
       THEN Goto(r, "before") /\ UNCHANGED <<call, disturbed>>
       ELSE EndCall(r)
    /\ UNCHANGED <<section, writer, ses>>

(* One attempt: load seq, and unless the writer is inside its window...    *)
LoadSeqOdd(r) ==
    /\ rpc[r] = "before" /\ seq % 2 = 1
    /\ IF call[r].attempt + 1 < MaxAttempts
       THEN /\ SetCall(r, [call[r] EXCEPT !.attempt = @ + 1])
            /\ UNCHANGED <<rpc, disturbed>>
       ELSE EndCall(r)
    /\ UNCHANGED <<section, writer, ses>>

LoadSeq(r) ==
    /\ rpc[r] = "before" /\ seq % 2 = 0
    /\ SetCall(r, [call[r] EXCEPT !.attempt = @ + 1, !.seqBefore = seq])
    /\ Goto(r, "id")
    /\ disturbed' = [disturbed EXCEPT ![r] = IF Creating THEN @ \cup {"created"}
                                             ELSE @ \ {"created"}]
    /\ UNCHANGED <<section, writer, ses>>

(* ... the frameId: nothing to do when it is 0 or the one consumed last... *)
StaleRepeats(r, id) == id = 0                                  \* mutant
StaleBackwards(r, id) == id = 0 \/ id <= ses[r].last           \* mutant
Stale(r, id) == id = 0 \/ id = ses[r].last

LoadFrameId(r) ==
    /\ rpc[r] = "id"
    /\ IF Stale(r, frameId)
       THEN EndCall(r)
       ELSE /\ SetCall(r, [call[r] EXCEPT
                                 !.id = frameId,
                                 !.todo = IF ses[r].kind = "yuy2"
                                          THEN PixelCells(Want(r)) ELSE {}])
            /\ Goto(r, IF ses[r].kind = "yuy2" THEN "copy" ELSE "len")
            /\ UNCHANGED disturbed
    /\ UNCHANGED <<section, writer, ses>>

(* ... for MJPEG passthrough (dst is null) the sidecar's length...         *)
LoadJpegLen(r) ==
    /\ rpc[r] = "len"
    /\ SetCall(r, [call[r] EXCEPT !.len = Clamp(jpegLen),
                               !.todo = SidecarCells(Clamp(jpegLen))])
    /\ Goto(r, "copy")
    /\ UNCHANGED <<section, writer, ses, disturbed>>

(* ... the payload, cell by cell into the caller's buffer...               *)
CopyOut(r, c) ==
    /\ rpc[r] = "copy" /\ c \in call[r].todo
    /\ SetCall(r, [call[r] EXCEPT !.got = [call[r].got EXCEPT ![c] = data[c]],
                               !.todo = @ \ {c}])
    /\ UNCHANGED <<section, writer, rpc, ses, disturbed>>

(* ... and accept the copy only if seq has not moved.                      *)
WriterOutside(r) == seq % 2 = 0                                \* mutant
Unmoved(r) == seq = call[r].seqBefore

Recheck(r) ==
    /\ rpc[r] = "copy" /\ call[r].todo = {}
    /\ IF Unmoved(r)
       THEN Goto(r, "done") /\ UNCHANGED <<call, disturbed>>
       ELSE Retry(r)
    /\ UNCHANGED <<section, writer, ses>>

(* What a call copied, and the frame its first cell names.                 *)
Copied(r) == IF ses[r].kind = "yuy2" THEN PixelCells(Want(r)) ELSE SidecarCells(call[r].len)
FrameRead(r) == call[r].got[IF ses[r].kind = "yuy2" THEN 1 ELSE MaxFrameBytes + 1]
Delivers(r) == rpc[r] = "done" /\ (ses[r].kind = "yuy2" \/ call[r].len # 0)
Undisturbed(r) == "created" \notin disturbed[r]

(* The caller keeps the frameId of what it got, an empty sidecar's not.    *)
Kept(r) == [ses[r] EXCEPT !.last = call[r].id,
                          !.shown = IF Undisturbed(r) THEN FrameRead(r) ELSE @]

Return(r) ==
    /\ rpc[r] = "done"
    /\ ses' = IF Delivers(r) THEN [ses EXCEPT ![r] = Kept(r)] ELSE ses
    /\ EndCall(r)
    /\ UNCHANGED <<section, writer>>
-----------------------------------------------------------------------------
Init ==
    /\ magic = FALSE /\ width = 0 /\ height = 0 /\ jpegLen = 0 /\ seq = 0 /\ frameId = 0
    /\ data = [c \in Cells |-> NoFrame]
    /\ wpc = "down" /\ frame = NoFrame /\ wtodo = {} /\ zeroing = {}
    /\ opened = 0 /\ created = 0 /\ published = NoFrame
    /\ rpc = [r \in Readers |-> "closed"]
    /\ ses = [r \in Readers |-> [kind |-> "yuy2", last |-> 0, shown |-> NoFrame]]
    /\ call = [r \in Readers |-> NoCall]
    /\ disturbed = [r \in Readers |-> {}]

InWindow ==
    StoreWidth \/ StoreHeight \/ (\E c \in Cells : CopyIn(c)) \/ StoreJpegLen
    \/ BumpFrameId \/ CloseWindow

WriterNext ==
    \/ Publish
    \/ \E len \in 0 .. MaxJpeg + 1 : PublishWithJpeg(len)
    \/ \E f \in Formats : UpdateFormat(f) \/ Create(f)
    \/ InWindow
    \/ \E x \in HeaderFields : ZeroField(x)
    \/ StoreNewWidth \/ StoreNewHeight \/ StoreMagic
    \/ Crash

InCall(r) ==
    \/ ReadFormat(r) \/ ReadFormatHeight(r) \/ CheckWidth(r) \/ CheckHeight(r)
    \/ LoadSeqOdd(r) \/ LoadSeq(r) \/ LoadFrameId(r) \/ LoadJpegLen(r)
    \/ \E c \in Cells : CopyOut(r, c)
    \/ Recheck(r) \/ Return(r)

ReaderNext(r) == TryOpen(r) \/ InCall(r)

Next == WriterNext \/ \E r \in Readers : ReaderNext(r)

Spec == Init /\ [][Next]_vars

(* The host publishes at a frame's pace and finishes the copy it began; a  *)
(* reader retries for as long as its session lasts.                        *)
Fairness == WF_vars(InWindow) /\ \A r \in Readers : WF_vars(ReaderNext(r))

FairSpec == Spec /\ Fairness
-----------------------------------------------------------------------------
(* Properties.                                                             *)

Sessions == [kind: {"yuy2", "mjpeg"}, last: Nat, shown: Frames]
Calls == [w: 0 .. MaxWidth, h: 0 .. MaxHeight, cw: 0 .. MaxWidth, attempt: 0 .. MaxAttempts,
          seqBefore: Nat, id: Nat, len: 0 .. MaxJpeg, todo: SUBSET Cells,
          got: [Cells -> Frames]]

TypeOK ==
    /\ magic \in BOOLEAN /\ width \in 0 .. MaxWidth /\ height \in 0 .. MaxHeight
    /\ jpegLen \in 0 .. MaxJpeg /\ seq \in Nat /\ frameId \in Nat
    /\ data \in [Cells -> Frames]
    /\ wpc \in {"down", "aborted", "zero", "newwidth", "newheight", "magic", "idle",
                "width", "height", "copy", "id", "close"}
    /\ frame \in Frames /\ wtodo \subseteq Cells /\ zeroing \subseteq HeaderFields
    /\ published \in Frames
    /\ opened \in 0 .. MaxFrames /\ created \in 0 .. MaxCreates
    /\ rpc \in [Readers -> {"closed", "idle", "format", "check", "checkheight", "before",
                             "id", "len", "copy", "done"}]
    /\ ses \in [Readers -> Sessions]
    /\ call \in [Readers -> Calls]
    /\ \A r \in Readers :
         rpc[r] \in {"closed", "idle", "format", "check", "checkheight", "before"}
            => call[r].attempt < MaxAttempts
    /\ disturbed \in [Readers -> SUBSET {"created", "resized"}]

(* "copy was not torn" (FrameBus.h:444): every cell of an accepted copy    *)
(* that belongs to the frame was written for that one frame, the returned  *)
(* frameId and sidecar length are that frame's.  A host that re-creates    *)
(* the section inside the reader's window is the exception.                *)
UntornRead ==
    \A r \in Readers : Delivers(r) /\ Undisturbed(r) =>
        LET f == FrameRead(r)
        IN  /\ f.id = call[r].id
            /\ ses[r].kind = "mjpeg" => f.len = call[r].len
            /\ \A c \in Copied(r) \cap FrameCells(f) : call[r].got[c] = f

(* A copy is one whole frame of the dimensions asked for                   *)
(* (FrameBus.h:396-397), when the format did not change between the check, *)
(* which is outside the seqlock window, and the end of the call.           *)
WholeFrame ==
    \A r \in Readers : Delivers(r) /\ disturbed[r] = {} =>
        /\ \A c \in Copied(r) : call[r].got[c] = FrameRead(r)
        /\ ses[r].kind = "yuy2" => Want(r) = Yuy2Bytes(FrameRead(r).w, FrameRead(r).h)

(* A session is never handed an older frame than before nor one twice,     *)
(* although frameId restarts at 0 with the host.                           *)
FramesInOrder ==
    \A r \in Readers : Delivers(r) /\ Undisturbed(r) => FrameRead(r).no > ses[r].shown.no

(* Readers see the bus as a register: what a call accepts is, as a whole,  *)
(* the frame published last at that time, and one the session has not had. *)
(* The calls the host re-creates the section under are the exception.      *)
Register == INSTANCE FrameRegister WITH
    current <- published,
    result  <- [r \in Readers |-> 
                  IF Delivers(r) /\ Undisturbed(r) THEN FrameRead(r) ELSE ses[r].shown]

AtomicReads == Register!Spec

(* A frame of a host before the one that published last: its number runs   *)
(* less ahead of its id, which starts over with each host.                 *)
OfEarlierHost(f) == f.no - f.id < published.no - published.id

(* "giving up here never drops a frame permanently" (FrameBus.h:421-423):  *)
(* once the writer rests, every YUY2 session has been handed its last      *)
(* frame.  The one exception is a session that nothing of this host has    *)
(* been shown to, and that by chance remembers this very id, from an       *)
(* earlier host or from a call a restart fell into (FrameBus.h:433).       *)
NewestDelivered ==
    <>[](wpc = "idle") =>
        <>[](\A r \in Readers :
               rpc[r] # "closed" /\ ses[r].kind = "yuy2" /\ frameId # 0
                   => \/ ses[r].shown = published
                      \/ ses[r].last = frameId /\ OfEarlierHost(ses[r].shown))
=============================================================================
