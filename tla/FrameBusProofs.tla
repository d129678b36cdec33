--------------------------- MODULE FrameBusProofs ---------------------------
(* The sequence lock of the frame bus, proved for every layout, number of  *)
(* readers, of frames and of host incarnations.                            *)
EXTENDS FrameBus, TLAPS

(***************************************************************************)
(* The inductive invariant, in named parts.                                *)
(***************************************************************************)

Window == {"width", "height", "copy", "id", "close"}

(* seq is odd exactly inside a window (a host that died in one leaves it   *)
(* odd); frame is the one being written or the one the section holds.      *)
WindowInv ==
    /\ wpc \in Window => seq % 2 = 1
    /\ wpc \in {"width", "height", "copy", "id"} => frame.id = frameId + 1
    /\ wpc = "close" => frame.id = frameId /\ frame.id # 0
    /\ wpc \in Window => frame.no = opened /\ published.no < opened
    /\ wpc \in {"width", "height"} => wtodo = FrameCells(frame)
    /\ wpc = "height" => width = frame.w
    /\ wpc \in {"copy", "id", "close"} => width = frame.w /\ height = frame.h
    /\ wpc = "copy" => \A c \in FrameCells(frame) \ wtodo : data[c] = frame
    /\ wpc \in {"id", "close"} =>
         jpegLen = frame.len /\ \A c \in FrameCells(frame) : data[c] = frame

(* Outside a window and a creation an even seq means a whole frame.        *)
QuietInv ==
    /\ wpc = "idle" => seq % 2 = 0 /\ frame.w >= 1 /\ frame.h >= 1
    /\ wpc \in {"idle", "down"} /\ seq % 2 = 0 =>
         /\ frame.id = frameId /\ width = frame.w /\ height = frame.h
         /\ frameId # 0 => /\ published = frame
                           /\ jpegLen = frame.len
                           /\ \A c \in FrameCells(frame) : data[c] = frame

(* The frame numbers; a frame with an id has a geometry.                   *)
NumberInv ==
    /\ frame.no <= opened /\ published.no <= opened
    /\ frame.id # 0 => frame.w >= 1 /\ frame.h >= 1
    /\ Creating => frame.id = 0
    /\ wpc \in {"newwidth", "newheight", "magic", "zero"} => frame.w >= 1 /\ frame.h >= 1
    /\ wpc = "newheight" => width = frame.w
    /\ wpc = "magic" => width = frame.w /\ height = frame.h
    /\ wpc \in {"newwidth", "newheight", "magic"} => seq = 0 /\ frameId = 0
    /\ wpc = "zero" => /\ "seq" \in zeroing \/ seq = 0
                       /\ "frameId" \in zeroing \/ frameId = 0

WriterInv == WindowInv /\ QuietInv /\ NumberInv

(* A call copies a frame of at least one cell (ReadFormat refuses others). *)
AskedInv(r) ==
    rpc[r] \in {"check", "checkheight", "before", "id", "len", "copy", "done"} =>
        call[r].w >= 1 /\ call[r].h >= 1

(* What a reader knows between its two loads of seq, if they are equal.    *)
CallInv(r) ==
    rpc[r] \in {"id", "len", "copy"} /\ Undisturbed(r) =>
         /\ ~Creating /\ call[r].seqBefore % 2 = 0 /\ call[r].seqBefore <= seq
         /\ rpc[r] \in {"len", "copy"} /\ seq = call[r].seqBefore =>
              call[r].id = frameId /\ frameId # 0 /\ frameId # ses[r].last
         /\ rpc[r] = "copy" /\ seq = call[r].seqBefore =>
              /\ ses[r].kind = "mjpeg" => call[r].len = frame.len
              /\ \A c \in (Copied(r) \cap FrameCells(frame)) \ call[r].todo :
                    call[r].got[c] = frame

(* Only an MJPEG session loads the sidecar's length.                       *)
KindInv(r) == rpc[r] = "len" => ses[r].kind = "mjpeg"

(* The dimensions a reader checked are still those of the bus.             *)
SizeInv(r) ==
    rpc[r] \in Unfinished /\ "resized" \notin disturbed[r] =>
        /\ disturbed[r] = {}
        /\ wpc \notin {"width", "height"} /\ ~Creating
        /\ rpc[r] = "checkheight" => call[r].cw = width
        /\ rpc[r] # "checkheight" => Want(r) = Yuy2Bytes(width, height)

(* What a session was shown is behind the frame of the bus, or is it.      *)
ShownInv(r) ==
    /\ rpc[r] \in {"closed", "idle", "format", "check"} => disturbed[r] = {}
    /\ ses[r].shown.no <= published.no
    /\ frame.id # 0 => /\ ses[r].shown.no <= frame.no
                       /\ ses[r].shown.no = frame.no => /\ ses[r].last = frame.id
                                                        /\ Undisturbed(r)

(* An accepted copy.                                                       *)
DoneInv(r) ==
    Delivers(r) /\ Undisturbed(r) =>
        LET f == FrameRead(r)
        IN  /\ f.id = call[r].id
            /\ ses[r].kind = "mjpeg" => f.len = call[r].len
            /\ \A c \in Copied(r) \cap FrameCells(f) : call[r].got[c] = f
            /\ disturbed[r] = {} /\ ses[r].kind = "yuy2" => Want(r) = Yuy2Bytes(f.w, f.h)
            /\ ses[r].shown.no < f.no /\ f.no <= published.no
            /\ frame.id # 0 => f.no <= frame.no
            /\ frame.id # 0 /\ f.no = frame.no => frame.id = f.id

IInv ==
    /\ TypeOK
    /\ WriterInv
    /\ \A r \in Readers : AskedInv(r)
    /\ \A r \in Readers : KindInv(r) /\ CallInv(r) /\ SizeInv(r) /\ ShownInv(r) /\ DoneInv(r)

(***************************************************************************)
(* The layout: a geometry of the bus fits in the section.                  *)
(***************************************************************************)

LEMMA BytesFit ==
    ASSUME NEW w \in 0 .. MaxWidth, NEW h \in 0 .. MaxHeight
    PROVE  /\ Yuy2Bytes(w, h) \in 0 .. MaxFrameBytes
           /\ w >= 1 /\ h >= 1 => Yuy2Bytes(w, h) >= 1
<1>1. /\ MaxWidth \in Nat /\ MaxHeight \in Nat
      /\ w \in Nat /\ h \in Nat /\ w <= MaxWidth /\ h <= MaxHeight
  BY BusAssumption
<1>2. w * h \in Nat
  BY <1>1, SMT
<1>3. w * h <= MaxWidth * h
  BY <1>1, SMT
<1>4. MaxWidth * h <= MaxWidth * MaxHeight
  BY <1>1, SMT
<1>5. w * h <= MaxWidth * MaxHeight
  <2> DEFINE a == w * h
             b == MaxWidth * h
             c == MaxWidth * MaxHeight
  <2>1. a \in Int /\ b \in Int /\ c \in Int
    BY <1>1, SMT
  <2>2. a <= b /\ b <= c
    BY <1>3, <1>4
  <2> HIDE DEF a, b, c
  <2>3. a <= c
    BY <2>1, <2>2
  <2> QED
    BY <2>3 DEF a, c
<1>6. w >= 1 /\ h >= 1 => w * h >= 1
  BY <1>1, SMT
<1>7. QED
  BY <1>2, <1>5, <1>6 DEF Yuy2Bytes, MaxFrameBytes

LEMMA CellsFit ==
    ASSUME NEW w \in 0 .. MaxWidth, NEW h \in 0 .. MaxHeight, NEW len \in 0 .. MaxJpeg
    PROVE  /\ MaxFrameBytes \in Nat
           /\ PixelCells(Yuy2Bytes(w, h)) \subseteq Cells
           /\ SidecarCells(len) \subseteq Cells
           /\ PixelCells(Yuy2Bytes(w, h)) \cap SidecarCells(len) = {}
           /\ w >= 1 /\ h >= 1 => 1 \in PixelCells(Yuy2Bytes(w, h))
           /\ len # 0 => MaxFrameBytes + 1 \in SidecarCells(len)
<1>1. /\ Yuy2Bytes(w, h) \in 0 .. MaxFrameBytes
      /\ w >= 1 /\ h >= 1 => Yuy2Bytes(w, h) >= 1
  BY BytesFit
<1>2. MaxFrameBytes \in Nat /\ MaxJpeg \in Nat
  BY BusAssumption, BytesFit DEF MaxFrameBytes
<1> DEFINE n == Yuy2Bytes(w, h)
<1> HIDE DEF n
<1>3. n \in Int /\ n <= MaxFrameBytes /\ n >= 0 /\ (w >= 1 /\ h >= 1 => n >= 1)
  BY <1>1, <1>2 DEF n
<1> QED
  BY <1>2, <1>3 DEF PixelCells, SidecarCells, Cells, n

(***************************************************************************)
(* Type correctness.                                                       *)
(***************************************************************************)

LEMMA LayoutTypes ==
    /\ MaxWidth \in Nat /\ MaxHeight \in Nat /\ MaxJpeg \in Nat /\ MaxFrameBytes \in Nat
    /\ MaxFrames \in Nat /\ MaxCreates \in Nat /\ MaxAttempts \in Nat \ {0}
    /\ \A f \in Formats : f[1] \in 1 .. MaxWidth /\ f[2] \in 1 .. MaxHeight
    /\ NoFrame \in Frames
    /\ \A len \in Nat : Clamp(len) \in 0 .. MaxJpeg
<1>1. MaxFrameBytes \in Nat
  BY BusAssumption DEF MaxFrameBytes, Yuy2Bytes
<1>2. NoFrame \in Frames
  BY BusAssumption DEF NoFrame, EmptyFrame, Frames
<1>3. \A len \in Nat : Clamp(len) \in 0 .. MaxJpeg
  BY BusAssumption DEF Clamp
<1>4. QED
  BY <1>1, <1>2, <1>3, BusAssumption

LEMMA NoCallType ==
    NoCall \in Calls /\ NoCall.attempt = 0
BY LayoutTypes DEF NoCall, Calls

LEMMA EndCallTypes ==
    ASSUME TypeOK, NEW r \in Readers, EndCall(r)
    PROVE  /\ rpc' \in [Readers -> {"closed", "idle", "format", "check", "checkheight",
                                    "before", "id", "len", "copy", "done"}]
           /\ call' \in [Readers -> Calls] /\ call'[r].attempt = 0
           /\ \A s \in Readers \ {r} : rpc'[s] = rpc[s] /\ call'[s] = call[s]
           /\ disturbed' \in [Readers -> SUBSET {"created", "resized"}]
BY NoCallType DEF TypeOK, EndCall, Goto, SetCall

LEMMA WriterTypes ==
    ASSUME TypeOK, WriterNext
    PROVE  TypeOK'
<1> USE LayoutTypes
<1>1. ASSUME NEW w \in 0 .. MaxWidth, NEW h \in 0 .. MaxHeight, NEW len \in 0 .. MaxJpeg,
             NEW next \in {"width", "copy"}, OpenWindow(w, h, len, next)
      PROVE  /\ wpc' \in {"width", "copy"} /\ seq' \in Nat /\ opened' \in 0 .. MaxFrames
             /\ frame' \in Frames /\ wtodo' \subseteq Cells
  <2>1. frame' \in Frames
    BY <1>1 DEF OpenWindow, Frames, TypeOK
  <2>2. QED
    BY <1>1, <2>1, CellsFit DEF OpenWindow, TypeOK
<1>2. CASE Publish
  <2>1. OpenWindow(width, height, 0, "copy")
    BY <1>2 DEF Publish
  <2>2. width \in 0 .. MaxWidth /\ height \in 0 .. MaxHeight /\ 0 \in 0 .. MaxJpeg
    BY DEF TypeOK
  <2>3. QED
    BY <1>1, <1>2, <2>1, <2>2 DEF Publish, TypeOK, reader
<1>3. ASSUME NEW len \in 0 .. MaxJpeg + 1, PublishWithJpeg(len)
      PROVE  TypeOK'
  <2>1. OpenWindow(width, height, Clamp(len), "copy")
    BY <1>3 DEF PublishWithJpeg
  <2>2. width \in 0 .. MaxWidth /\ height \in 0 .. MaxHeight /\ Clamp(len) \in 0 .. MaxJpeg
    BY DEF TypeOK
  <2>3. QED
    BY <1>1, <1>3, <2>1, <2>2 DEF PublishWithJpeg, TypeOK, reader
<1>4. ASSUME NEW f \in Formats, UpdateFormat(f)
      PROVE  TypeOK'
  <2>1. OpenWindow(f[1], f[2], 0, "width")
    BY <1>4 DEF UpdateFormat
  <2>2. f[1] \in 0 .. MaxWidth /\ f[2] \in 0 .. MaxHeight /\ 0 \in 0 .. MaxJpeg
    OBVIOUS
  <2>3. disturbed' \in [Readers -> SUBSET {"created", "resized"}]
    BY <1>4 DEF UpdateFormat, Disturb, TypeOK
  <2>4. QED
    BY <1>1, <1>4, <2>1, <2>2, <2>3 DEF UpdateFormat, TypeOK, reader
<1>5. ASSUME NEW f \in Formats, Create(f)
      PROVE  TypeOK'
  <2>1. disturbed' \in [Readers -> SUBSET {"created", "resized"}]
    BY <1>5 DEF Create, Disturb, TypeOK
  <2>2. frame' \in Frames
    BY <1>5 DEF Create, EmptyFrame, Frames
  <2>3. QED
    BY <1>5, <2>1, <2>2 DEF Create, TypeOK, section, reader
<1>6. CASE InWindow
  <2>1. CASE StoreWidth
    BY <2>1 DEF StoreWidth, TypeOK, Frames, reader
  <2>2. CASE StoreHeight
    BY <2>2 DEF StoreHeight, TypeOK, Frames, reader
  <2>3. CASE \E c \in Cells : CopyIn(c)
    BY <2>3 DEF CopyIn, TypeOK, reader
  <2>4. CASE StoreJpegLen
    BY <2>4 DEF StoreJpegLen, TypeOK, Frames, reader
  <2>5. CASE BumpFrameId
    BY <2>5 DEF BumpFrameId, TypeOK, reader
  <2>6. CASE CloseWindow
    BY <2>6 DEF CloseWindow, TypeOK, reader
  <2>7. QED
    BY <1>6, <2>1, <2>2, <2>3, <2>4, <2>5, <2>6 DEF InWindow
<1>7. ASSUME NEW x \in HeaderFields, ZeroField(x)
      PROVE  TypeOK'
  <2>1. magic' \in BOOLEAN
    BY <1>7 DEF ZeroField, TypeOK
  <2>2. width' \in 0 .. MaxWidth /\ height' \in 0 .. MaxHeight /\ jpegLen' \in 0 .. MaxJpeg
    BY <1>7 DEF ZeroField, TypeOK
  <2>3. seq' \in Nat /\ frameId' \in Nat
    BY <1>7 DEF ZeroField, TypeOK
  <2>4. /\ wpc' \in {"newwidth", "zero"}
        /\ zeroing' \subseteq HeaderFields
    BY <1>7 DEF ZeroField, TypeOK
  <2>5. QED
    BY <1>7, <2>1, <2>2, <2>3, <2>4 DEF ZeroField, TypeOK, reader
<1>8. CASE StoreNewWidth
  BY <1>8 DEF StoreNewWidth, TypeOK, Frames, reader
<1>9. CASE StoreNewHeight
  BY <1>9 DEF StoreNewHeight, TypeOK, Frames, reader
<1>10. CASE StoreMagic
  BY <1>10 DEF StoreMagic, TypeOK, reader
<1>11. CASE Crash
  <2>1. [c \in Cells |-> NoFrame] \in [Cells -> Frames]
    OBVIOUS
  <2>2. CASE \A r \in Readers : rpc[r] = "closed"
    <3>1. /\ wpc' = "down" /\ magic' = FALSE /\ width' = 0 /\ height' = 0
          /\ jpegLen' = 0 /\ seq' = 0 /\ frameId' = 0
          /\ data' = [c \in Cells |-> NoFrame] /\ frame' = NoFrame
      BY <1>11, <2>2 DEF Crash
    <3>2. UNCHANGED <<opened, created, published, rpc, ses, call, disturbed>>
          /\ wtodo' = {} /\ zeroing' = {}
      BY <1>11 DEF Crash, reader
    <3>3. data' \in [Cells -> Frames] /\ frame' \in Frames /\ magic' \in BOOLEAN
      BY <2>1, <3>1
    <3>4. width' \in 0 .. MaxWidth /\ height' \in 0 .. MaxHeight /\ jpegLen' \in 0 .. MaxJpeg
          /\ seq' \in Nat /\ frameId' \in Nat
      BY <3>1
    <3>5. wpc' = "down"
      BY <3>1
    <3>6. QED
      BY <3>2, <3>3, <3>4, <3>5 DEF TypeOK
  <2>3. CASE ~ \A r \in Readers : rpc[r] = "closed"
    <3>1. UNCHANGED <<section, frame>> /\ wpc' \in {"aborted", "down"}
      BY <1>11, <2>3 DEF Crash
    <3>2. QED
      BY <1>11, <3>1 DEF Crash, TypeOK, section, reader
  <2>4. QED
    BY <2>2, <2>3
<1>12. QED
  BY <1>2, <1>3, <1>4, <1>5, <1>6, <1>7, <1>8, <1>9, <1>10, <1>11 DEF WriterNext

LEMMA CallTypes ==
    ASSUME TypeOK, NEW r \in Readers, NEW locals \in Calls, NEW pc, SetCall(r, locals),
           pc \in {"idle", "format", "check", "checkheight", "before"}
              => locals.attempt < MaxAttempts,
           rpc' = [rpc EXCEPT ![r] = pc],
           pc \in {"idle", "format", "check", "checkheight", "before", "id", "len", "copy"}
    PROVE  /\ rpc' \in [Readers -> {"closed", "idle", "format", "check", "checkheight",
                                    "before", "id", "len", "copy", "done"}]
           /\ call' \in [Readers -> Calls]
           /\ \A s \in Readers :
                rpc'[s] \in {"closed", "idle", "format", "check", "checkheight", "before"}
                   => call'[s].attempt < MaxAttempts
BY DEF TypeOK, SetCall

(* What a call that delivers has copied names a frame.                     *)
LEMMA DoneFrameType ==
    ASSUME TypeOK, NEW r \in Readers, AskedInv(r), Delivers(r)
    PROVE  FrameRead(r) \in Frames
<1>1. call[r] \in Calls /\ call[r].w >= 1 /\ call[r].h >= 1
  BY DEF TypeOK, Delivers, AskedInv
<1>2. call[r].w \in 0 .. MaxWidth /\ call[r].h \in 0 .. MaxHeight
      /\ call[r].len \in 0 .. MaxJpeg /\ call[r].got \in [Cells -> Frames]
  BY <1>1 DEF Calls
<1>3. 1 \in Cells /\ (call[r].len # 0 => MaxFrameBytes + 1 \in Cells)
  BY <1>1, <1>2, CellsFit
<1>4. QED
  BY <1>2, <1>3 DEF FrameRead, Delivers

LEMMA ReaderTypes ==
    ASSUME TypeOK, NEW r \in Readers, AskedInv(r), ReaderNext(r)
    PROVE  TypeOK'
<1> USE LayoutTypes
<1> DEFINE MayTry(pc) == pc \in {"closed", "idle", "format", "check", "checkheight", "before"}
<1>a. call[r] \in Calls /\ ses[r] \in Sessions
  BY DEF TypeOK
<1>1. CASE TryOpen(r)
  <2>1. PICK k \in {"yuy2", "mjpeg"} : ses' = [ses EXCEPT ![r] = [ses[r] EXCEPT !.kind = k]]
    BY <1>1 DEF TryOpen
  <2>2. [ses[r] EXCEPT !.kind = k] \in Sessions
    BY <1>a DEF Sessions
  <2>3. ses' \in [Readers -> Sessions]
    BY <2>1, <2>2 DEF TypeOK
  <2>4. QED
    BY <1>1, <2>3 DEF TryOpen, TypeOK, section, writer, Goto
<1>2. CASE ReadFormat(r)
  <2>1. [call[r] EXCEPT !.w = width] \in Calls
        /\ [call[r] EXCEPT !.w = width].attempt = call[r].attempt
    BY <1>a DEF Calls, TypeOK
  <2>2. call[r].attempt < MaxAttempts
    BY <1>2 DEF ReadFormat, TypeOK
  <2>3. QED
    BY <1>2, <2>1, <2>2, CallTypes DEF ReadFormat, TypeOK, section, writer, Goto
<1>3. CASE ReadFormatHeight(r)
  <2>1. CASE call[r].w \in 1 .. MaxWidth /\ height \in 1 .. MaxHeight
    <3>1. [call[r] EXCEPT !.h = height] \in Calls
          /\ [call[r] EXCEPT !.h = height].attempt = call[r].attempt
      BY <1>a DEF Calls, TypeOK
    <3>2. call[r].attempt < MaxAttempts
      BY <1>3 DEF ReadFormatHeight, TypeOK
    <3>3. QED
      BY <1>3, <2>1, <3>1, <3>2, CallTypes
         DEF ReadFormatHeight, TypeOK, section, writer, Goto
  <2>2. CASE ~ (call[r].w \in 1 .. MaxWidth /\ height \in 1 .. MaxHeight)
    BY <1>3, <2>2, EndCallTypes DEF ReadFormatHeight, TypeOK, section, writer
  <2>3. QED
    BY <2>1, <2>2
<1>4. CASE CheckWidth(r)
  <2>1. CASE magic
    <3>1. [call[r] EXCEPT !.cw = width] \in Calls
          /\ [call[r] EXCEPT !.cw = width].attempt = call[r].attempt
      BY <1>a DEF Calls, TypeOK
    <3>2. call[r].attempt < MaxAttempts
      BY <1>4 DEF CheckWidth, TypeOK
    <3>3. disturbed' \in [Readers -> SUBSET {"created", "resized"}]
      BY <1>4, <2>1 DEF CheckWidth, TypeOK
    <3>4. QED
      BY <1>4, <2>1, <3>1, <3>2, <3>3, CallTypes
         DEF CheckWidth, TypeOK, section, writer, Goto
  <2>2. CASE ~ magic
    BY <1>4, <2>2, EndCallTypes DEF CheckWidth, TypeOK, section, writer
  <2>3. QED
    BY <2>1, <2>2
<1>5. CASE CheckHeight(r)
  <2>1. CASE SizeMatches(r, height)
    BY <1>5, <2>1 DEF CheckHeight, TypeOK, section, writer, Goto
  <2>2. CASE ~ SizeMatches(r, height)
    BY <1>5, <2>2, EndCallTypes DEF CheckHeight, TypeOK, section, writer
  <2>3. QED
    BY <2>1, <2>2
<1>6. CASE LoadSeqOdd(r)
  <2>1. CASE call[r].attempt + 1 < MaxAttempts
    <3>1. [call[r] EXCEPT !.attempt = @ + 1] \in Calls
          /\ [call[r] EXCEPT !.attempt = @ + 1].attempt = call[r].attempt + 1
      BY <1>a, <2>1 DEF Calls
    <3>2. rpc' = [rpc EXCEPT ![r] = "before"]
      BY <1>6, <2>1 DEF LoadSeqOdd, TypeOK
    <3>3. QED
      BY <1>6, <2>1, <3>1, <3>2, CallTypes DEF LoadSeqOdd, TypeOK, section, writer
  <2>2. CASE ~ (call[r].attempt + 1 < MaxAttempts)
    BY <1>6, <2>2, EndCallTypes DEF LoadSeqOdd, TypeOK, section, writer
  <2>3. QED
    BY <2>1, <2>2
<1>7. CASE LoadSeq(r)
  <2>1. call[r].attempt < MaxAttempts
    BY <1>7 DEF LoadSeq, TypeOK
  <2>2. [call[r] EXCEPT !.attempt = @ + 1, !.seqBefore = seq] \in Calls
    <3>1. call[r].attempt + 1 \in 0 .. MaxAttempts /\ seq \in Nat
      BY <1>a, <2>1 DEF Calls, TypeOK
    <3>2. QED
      BY <1>a, <3>1 DEF Calls
  <2>3. disturbed' \in [Readers -> SUBSET {"created", "resized"}]
    BY <1>7 DEF LoadSeq, TypeOK
  <2>4. QED
    BY <1>7, <2>2, <2>3, CallTypes DEF LoadSeq, TypeOK, section, writer, Goto
<1>8. CASE LoadFrameId(r)
  <2>1. CASE Stale(r, frameId)
    BY <1>8, <2>1, EndCallTypes DEF LoadFrameId, TypeOK, section, writer
  <2>2. CASE ~ Stale(r, frameId)
    <3> DEFINE cells == IF ses[r].kind = "yuy2" THEN PixelCells(Want(r)) ELSE {}
    <3>1. cells \subseteq Cells
      BY <1>a, CellsFit DEF Want, Calls
    <3>2. [call[r] EXCEPT !.id = frameId, !.todo = cells] \in Calls
      BY <1>a, <3>1 DEF Calls, TypeOK
    <3>3. QED
      BY <1>8, <2>2, <3>2, CallTypes DEF LoadFrameId, TypeOK, section, writer, Goto
  <2>3. QED
    BY <2>1, <2>2
<1>9. CASE LoadJpegLen(r)
  <2>1. Clamp(jpegLen) \in 0 .. MaxJpeg
    BY DEF TypeOK
  <2>2. SidecarCells(Clamp(jpegLen)) \subseteq Cells
    BY <2>1, CellsFit DEF TypeOK
  <2>3. [call[r] EXCEPT !.len = Clamp(jpegLen), !.todo = SidecarCells(Clamp(jpegLen))] \in Calls
    BY <1>a, <2>1, <2>2 DEF Calls
  <2>4. QED
    BY <1>9, <2>3, CallTypes DEF LoadJpegLen, TypeOK, section, writer, Goto
<1>10. ASSUME NEW c \in Cells, CopyOut(r, c)
       PROVE  TypeOK'
  <2>1. [call[r].got EXCEPT ![c] = data[c]] \in [Cells -> Frames]
    BY <1>a DEF Calls, TypeOK
  <2>2. [call[r] EXCEPT !.got = [call[r].got EXCEPT ![c] = data[c]], !.todo = @ \ {c}] \in Calls
    BY <1>a, <2>1 DEF Calls
  <2>3. rpc' = [rpc EXCEPT ![r] = "copy"]
    BY <1>10 DEF CopyOut, TypeOK
  <2>4. SetCall(r, [call[r] EXCEPT !.got = [call[r].got EXCEPT ![c] = data[c]],
                                 !.todo = @ \ {c}])
        /\ UNCHANGED <<section, writer, ses, disturbed>>
    BY <1>10 DEF CopyOut
  <2>5. QED
    BY <2>2, <2>3, <2>4, CallTypes DEF TypeOK, section, writer
<1>11. CASE Recheck(r)
  <2>1. CASE Unmoved(r)
    BY <1>11, <2>1 DEF Recheck, TypeOK, section, writer, Goto
  <2>2. CASE ~ Unmoved(r) /\ call[r].attempt < MaxAttempts
    BY <1>11, <2>2 DEF Recheck, Retry, TypeOK, section, writer, Goto
  <2>3. CASE ~ Unmoved(r) /\ ~ (call[r].attempt < MaxAttempts)
    BY <1>11, <2>3, EndCallTypes DEF Recheck, Retry, TypeOK, section, writer
  <2>4. QED
    BY <2>1, <2>2, <2>3
<1>12. CASE Return(r)
  <2>1. CASE Delivers(r)
    <3>1. FrameRead(r) \in Frames
      BY <2>1, DoneFrameType
    <3>2. Kept(r) \in Sessions
      BY <1>a, <3>1 DEF Kept, Sessions, Calls
    <3>3. ses' \in [Readers -> Sessions]
      BY <1>12, <2>1, <3>2 DEF Return, TypeOK
    <3>4. QED
      BY <1>12, <3>3, EndCallTypes DEF Return, TypeOK, section, writer
  <2>2. CASE ~ Delivers(r)
    BY <1>12, <2>2, EndCallTypes DEF Return, TypeOK, section, writer
  <2>3. QED
    BY <2>1, <2>2
<1>13. QED
  BY <1>1, <1>2, <1>3, <1>4, <1>5, <1>6, <1>7, <1>8, <1>9, <1>10, <1>11, <1>12
     DEF ReaderNext, InCall

(* A reader's step leaves the bus and the other readers alone.             *)
LEMMA ReaderFrame ==
    ASSUME TypeOK, NEW r \in Readers, ReaderNext(r)
    PROVE  /\ UNCHANGED <<section, writer>>
           /\ \A s \in Readers \ {r} : /\ rpc'[s] = rpc[s] /\ call'[s] = call[s]
                                       /\ ses'[s] = ses[s] /\ disturbed'[s] = disturbed[s]
<1> USE DEF TypeOK, Retry, EndCall, SetCall, Goto
<1>1. CASE TryOpen(r) \/ ReadFormat(r) \/ ReadFormatHeight(r)
  BY <1>1 DEF TryOpen, ReadFormat, ReadFormatHeight
<1>2. CASE CheckWidth(r) \/ CheckHeight(r)
  BY <1>2 DEF CheckWidth, CheckHeight
<1>3. CASE LoadSeqOdd(r) \/ LoadSeq(r)
  BY <1>3 DEF LoadSeqOdd, LoadSeq
<1>4. CASE LoadFrameId(r) \/ LoadJpegLen(r)
  BY <1>4 DEF LoadFrameId, LoadJpegLen
<1>5. CASE \E c \in Cells : CopyOut(r, c)
  BY <1>5 DEF CopyOut
<1>6. CASE Recheck(r)
  BY <1>6 DEF Recheck
<1>7. CASE Return(r)
  BY <1>7 DEF Return
<1>8. QED
  BY <1>1, <1>2, <1>3, <1>4, <1>5, <1>6, <1>7 DEF ReaderNext, InCall

(* A step of the writer leaves the readers alone.                          *)
LEMMA WriterFrame ==
    WriterNext => UNCHANGED reader
BY DEF WriterNext, InWindow, Publish, PublishWithJpeg, UpdateFormat, StoreWidth, StoreHeight,
       CopyIn, StoreJpegLen, BumpFrameId, CloseWindow, Create, ZeroField, StoreNewWidth,
       StoreNewHeight, StoreMagic, Crash, reader

(* What the helpers of the reader's actions do to its own call.            *)
LEMMA ReaderMoves ==
    ASSUME TypeOK, NEW r \in Readers
    PROVE  /\ \A pc : Goto(r, pc) => rpc'[r] = pc
           /\ \A locals : SetCall(r, locals) => call'[r] = locals
           /\ EndCall(r) => rpc'[r] = "idle" /\ call'[r] = NoCall /\ disturbed'[r] = {}
           /\ Retry(r) => \/ EndCall(r)
                          \/ rpc'[r] = "before" /\ UNCHANGED <<call, disturbed>>
BY DEF TypeOK, Goto, SetCall, EndCall, Retry

LEMMA ReaderAsked ==
    ASSUME TypeOK, NEW r \in Readers, AskedInv(r), ReaderNext(r)
    PROVE  AskedInv(r)'
<1>a. call[r] \in Calls
  BY DEF TypeOK
<1>1. CASE TryOpen(r)
  BY <1>1, ReaderMoves DEF TryOpen, AskedInv
<1>2. CASE ReadFormat(r)
  BY <1>2, ReaderMoves DEF ReadFormat, AskedInv
<1>3. CASE ReadFormatHeight(r)
  BY <1>3, <1>a, ReaderMoves DEF ReadFormatHeight, AskedInv, Calls
<1>4. CASE CheckWidth(r)
  BY <1>4, <1>a, ReaderMoves DEF CheckWidth, AskedInv, Calls
<1>5. CASE CheckHeight(r)
  BY <1>5, ReaderMoves DEF CheckHeight, AskedInv
<1>6. CASE LoadSeqOdd(r)
  BY <1>6, <1>a, ReaderMoves DEF LoadSeqOdd, AskedInv, Calls
<1>7. CASE LoadSeq(r)
  BY <1>7, <1>a, ReaderMoves DEF LoadSeq, AskedInv, Calls
<1>8. CASE LoadFrameId(r)
  <2>1. \A x, y : [call[r] EXCEPT !.id = x, !.todo = y].w = call[r].w
                  /\ [call[r] EXCEPT !.id = x, !.todo = y].h = call[r].h
    BY <1>a DEF Calls
  <2> DEFINE cells == IF ses[r].kind = "yuy2" THEN PixelCells(Want(r)) ELSE {}
  <2>2. \/ EndCall(r)
        \/ SetCall(r, [call[r] EXCEPT !.id = frameId, !.todo = cells])
    BY <1>8 DEF LoadFrameId
  <2> HIDE DEF cells
  <2>3. rpc'[r] = "idle" \/ (call'[r].w = call[r].w /\ call'[r].h = call[r].h)
    <3>1. CASE EndCall(r)
      BY <3>1, ReaderMoves
    <3>2. CASE SetCall(r, [call[r] EXCEPT !.id = frameId, !.todo = cells])
      <4>1. call'[r] = [call[r] EXCEPT !.id = frameId, !.todo = cells]
        BY <3>2, ReaderMoves
      <4>2. QED
        BY <2>1, <4>1
    <3>3. QED
      BY <2>2, <3>1, <3>2
  <2>4. rpc[r] = "id"
    BY <1>8 DEF LoadFrameId
  <2>5. QED
    BY <2>3, <2>4 DEF AskedInv
<1>9. CASE LoadJpegLen(r)
  BY <1>9, <1>a, ReaderMoves DEF LoadJpegLen, AskedInv, Calls
<1>10. ASSUME NEW c \in Cells, CopyOut(r, c)
       PROVE  AskedInv(r)'
  <2>1. /\ rpc[r] = "copy" /\ UNCHANGED rpc
        /\ call'[r] = [call[r] EXCEPT !.got = [call[r].got EXCEPT ![c] = data[c]],
                                     !.todo = @ \ {c}]
    BY <1>10, ReaderMoves DEF CopyOut
  <2>2. call'[r].w = call[r].w /\ call'[r].h = call[r].h
    BY <1>a, <2>1 DEF Calls
  <2>3. QED
    BY <2>1, <2>2 DEF AskedInv
<1>11. CASE Recheck(r)
  BY <1>11, ReaderMoves DEF Recheck, AskedInv
<1>12. CASE Return(r)
  BY <1>12, ReaderMoves DEF Return, AskedInv
<1>13. QED
  BY <1>1, <1>2, <1>3, <1>4, <1>5, <1>6, <1>7, <1>8, <1>9, <1>10, <1>11, <1>12
     DEF ReaderNext, InCall

LEMMA InitTypes == Init => TypeOK
<1> SUFFICES ASSUME Init PROVE TypeOK
  OBVIOUS
<1>1. NoFrame \in Frames /\ NoCall \in Calls /\ NoCall.attempt = 0
  BY LayoutTypes, NoCallType
<1>2. [kind |-> "yuy2", last |-> 0, shown |-> NoFrame] \in Sessions
  BY <1>1 DEF Sessions
<1>3. /\ data \in [Cells -> Frames] /\ ses \in [Readers -> Sessions]
      /\ call \in [Readers -> Calls] /\ frame \in Frames /\ published \in Frames
  BY <1>1, <1>2 DEF Init
<1>4. /\ rpc = [r \in Readers |-> "closed"] /\ wpc = "down"
      /\ \A r \in Readers : call[r].attempt = 0
      /\ disturbed \in [Readers -> SUBSET {"created", "resized"}]
  BY <1>1 DEF Init
<1>5. /\ magic = FALSE /\ width = 0 /\ height = 0 /\ jpegLen = 0 /\ seq = 0
      /\ frameId = 0 /\ wtodo = {} /\ zeroing = {} /\ opened = 0 /\ created = 0
  BY DEF Init
<1>6. TypeOK
  <2>1. /\ \A r \in Readers : call[r].attempt < MaxAttempts
        /\ rpc \in [Readers -> {"closed"}]
    BY <1>4, LayoutTypes
  <2>2. magic \in BOOLEAN /\ wtodo \subseteq Cells /\ zeroing \subseteq HeaderFields
    BY <1>5
  <2>3. /\ width \in 0 .. MaxWidth /\ height \in 0 .. MaxHeight /\ jpegLen \in 0 .. MaxJpeg
        /\ seq \in Nat /\ frameId \in Nat
        /\ opened \in 0 .. MaxFrames /\ created \in 0 .. MaxCreates
    <3>1. 0 \in Nat /\ (\A n \in Nat : 0 \in 0 .. n)
      OBVIOUS
    <3>2. QED
      BY <1>5, <3>1, LayoutTypes
  <2>4. rpc \in [Readers -> {"closed", "idle", "format", "check", "checkheight", "before",
                            "id", "len", "copy", "done"}]
    BY <2>1
  <2>5. QED
    BY <1>3, <1>4, <2>1, <2>2, <2>3, <2>4 DEF TypeOK
<1>7. QED
  BY <1>6

(* Every variable of the bus has its type: the memcpys of both sides stay  *)
(* inside the mapping, and an attempt counter inside its 64.               *)
THEOREM TypeCorrect == Spec => []TypeOK
<1> DEFINE Asked == \A r \in Readers : AskedInv(r)
<1>1. Init => TypeOK /\ Asked
  <2> SUFFICES ASSUME Init PROVE TypeOK /\ Asked
    OBVIOUS
  <2>6. TypeOK
    BY InitTypes
  <2>7. Asked
    <3>1. \A r \in Readers : rpc[r] = "closed"
      BY DEF Init
    <3>2. QED
      BY <3>1 DEF AskedInv
  <2>8. QED
    BY <2>6, <2>7
<1>2. TypeOK /\ Asked /\ [Next]_vars => (TypeOK /\ Asked)'
  <2> SUFFICES ASSUME TypeOK, Asked, [Next]_vars
               PROVE  TypeOK' /\ Asked'
    OBVIOUS
  <2>1. CASE WriterNext
    <3>1. Asked'
      BY <2>1, WriterFrame DEF reader, AskedInv
    <3>2. QED
      BY <2>1, <3>1, WriterTypes
  <2>2. ASSUME NEW r \in Readers, ReaderNext(r)
        PROVE  TypeOK' /\ Asked'
    <3>1. TypeOK'
      BY <2>2, ReaderTypes
    <3>2. AskedInv(r)'
      BY <2>2, ReaderAsked
    <3>3. \A s \in Readers \ {r} : AskedInv(s)'
      BY <2>2, ReaderFrame DEF AskedInv
    <3>4. QED
      BY <3>1, <3>2, <3>3
  <2>3. CASE UNCHANGED vars
    <3>1. TypeOK'
      BY <2>3 DEF vars, section, writer, reader, TypeOK
    <3>2. Asked'
      BY <2>3 DEF vars, reader, AskedInv
    <3>3. QED
      BY <3>1, <3>2
  <2>4. QED
    BY <2>1, <2>2, <2>3 DEF Next
<1>3. QED
  BY <1>1, <1>2, PTL DEF Spec

(***************************************************************************)
(* The writer's side of the invariant.                                     *)
(***************************************************************************)

LEMMA WriterPreserves ==
    ASSUME TypeOK, WriterInv, WriterNext
    PROVE  WriterInv'
<1> USE DEF WriterInv, Window
<1>0. WindowInv /\ QuietInv /\ NumberInv
  OBVIOUS
<1>t. /\ seq \in Nat /\ frameId \in Nat /\ opened \in Nat
      /\ frame.no \in Nat /\ frame.id \in Nat /\ published.no \in Nat /\ frame.w \in Nat
      /\ frame.h \in Nat /\ data \in [Cells -> Frames] /\ frame \in Frames
  BY LayoutTypes DEF TypeOK, Frames
<1>1. ASSUME NEW w, NEW h, NEW len, NEW next \in {"width", "copy"},
             OpenWindow(w, h, len, next),
             UNCHANGED <<frameId, data, published, width, height>>,
             w \in Nat, h \in Nat, w >= 1, h >= 1,
             next = "copy" => w = width /\ h = height
      PROVE  WriterInv'
  <2>1. /\ wpc = "idle" /\ wpc' = next /\ seq' = seq + 1 /\ opened' = opened + 1
        /\ frame' = [no |-> opened + 1, id |-> frameId + 1, w |-> w, h |-> h, len |-> len]
        /\ wtodo' = PixelCells(Yuy2Bytes(w, h)) \cup SidecarCells(len)
    BY <1>1 DEF OpenWindow
  <2>2. wtodo' = FrameCells(frame')
    BY <2>1 DEF FrameCells
  <2>3. frame'.no = opened + 1 /\ frame'.id = frameId + 1 /\ frame'.w = w /\ frame'.h = h
    BY <2>1
  <2>4. seq' % 2 = 1
    BY <1>0, <1>t, <2>1 DEF QuietInv
  <2>5. WindowInv'
    BY <1>1, <1>t, <1>0, <2>1, <2>2, <2>3, <2>4 DEF WindowInv, NumberInv
  <2>6. QuietInv'
    BY <1>1, <2>1 DEF QuietInv
  <2>7. NumberInv'
    BY <1>1, <1>t, <1>0, <2>1, <2>3 DEF NumberInv, Creating
  <2>8. QED
    BY <2>5, <2>6, <2>7
<1>2. wpc = "idle" => width = frame.w /\ height = frame.h /\ frame.w >= 1 /\ frame.h >= 1
  BY <1>0 DEF QuietInv
<1>3. CASE Publish
  <2>1. OpenWindow(width, height, 0, "copy") /\ wpc = "idle"
        /\ UNCHANGED <<frameId, data, published, width, height>>
    BY <1>3 DEF Publish, OpenWindow
  <2>2. QED
    BY <1>1, <1>2, <1>t, <2>1
<1>4. ASSUME NEW len \in 0 .. MaxJpeg + 1, PublishWithJpeg(len)
      PROVE  WriterInv'
  <2>1. OpenWindow(width, height, Clamp(len), "copy") /\ wpc = "idle"
        /\ UNCHANGED <<frameId, data, published, width, height>>
    BY <1>4 DEF PublishWithJpeg, OpenWindow
  <2>2. QED
    BY <1>1, <1>2, <1>t, <2>1
<1>5. ASSUME NEW f \in Formats, UpdateFormat(f)
      PROVE  WriterInv'
  <2>1. OpenWindow(f[1], f[2], 0, "width")
        /\ UNCHANGED <<frameId, data, published, width, height>>
    BY <1>5 DEF UpdateFormat
  <2>2. f[1] \in Nat /\ f[2] \in Nat /\ f[1] >= 1 /\ f[2] >= 1
    BY LayoutTypes
  <2>3. QED
    BY <1>1, <2>1, <2>2
<1>6. CASE StoreWidth \/ StoreHeight
  BY <1>6, <1>0, <1>t DEF StoreWidth, StoreHeight, WindowInv, QuietInv, NumberInv, Creating,
                          FrameCells
<1>7. ASSUME NEW c \in Cells, CopyIn(c)
      PROVE  WriterInv'
  <2>1. /\ wpc = "copy" /\ wpc' = "copy"
        /\ UNCHANGED <<width, height, jpegLen, seq, frameId, frame, opened, published>>
        /\ wtodo' = wtodo \ {c} /\ data' = [data EXCEPT ![c] = frame]
    BY <1>7 DEF CopyIn
  <2>2. \A d \in FrameCells(frame) \ wtodo' : data'[d] = frame
    BY <1>0, <1>t, <2>1 DEF WindowInv
  <2>3. WindowInv'
    BY <1>0, <2>1, <2>2 DEF WindowInv, FrameCells
  <2>4. QuietInv' /\ NumberInv'
    BY <1>0, <2>1 DEF QuietInv, NumberInv, Creating
  <2>5. QED
    BY <2>3, <2>4
<1>8. CASE StoreJpegLen
  BY <1>8, <1>0 DEF StoreJpegLen, WindowInv, QuietInv, NumberInv, Creating, FrameCells
<1>9. CASE BumpFrameId
  BY <1>9, <1>0, <1>t DEF BumpFrameId, WindowInv, QuietInv, NumberInv, Creating, FrameCells
<1>10. CASE CloseWindow
  <2>1. /\ wpc = "close" /\ wpc' = "idle" /\ published' = frame /\ seq' = seq + 1
        /\ UNCHANGED <<width, height, jpegLen, frameId, data, frame, opened>>
    BY <1>10 DEF CloseWindow
  <2>2. seq' % 2 = 0
    BY <1>0, <1>t, <2>1 DEF WindowInv
  <2>3. frame.id = frameId /\ frame.w = width /\ frame.h = height /\ frame.len = jpegLen
        /\ \A c \in FrameCells(frame) : data[c] = frame
    BY <1>0, <2>1 DEF WindowInv
  <2>4. frame.w >= 1 /\ frame.h >= 1
    BY <1>0, <1>t, <2>1, <2>3 DEF WindowInv, NumberInv
  <2>5. QED
    BY <1>0, <2>1, <2>2, <2>3, <2>4 DEF WindowInv, QuietInv, NumberInv, Creating, FrameCells
<1>11. ASSUME NEW f \in Formats, Create(f)
       PROVE  WriterInv'
  <2>1. /\ wpc' = "zero" /\ zeroing' = HeaderFields /\ frame' = EmptyFrame(f[1], f[2])
        /\ UNCHANGED <<opened, published>>
    BY <1>11 DEF Create
  <2>2. frame'.no = 0 /\ frame'.id = 0 /\ frame'.w >= 1 /\ frame'.h >= 1
    BY <2>1, LayoutTypes DEF EmptyFrame
  <2>3. QED
    BY <1>0, <1>t, <2>1, <2>2 DEF WindowInv, QuietInv, NumberInv, Creating, HeaderFields
<1>12. ASSUME NEW x \in HeaderFields, ZeroField(x)
       PROVE  WriterInv'
  <2>1. /\ wpc = "zero" /\ wpc' = (IF zeroing = {x} THEN "newwidth" ELSE "zero")
        /\ zeroing' = zeroing \ {x} /\ UNCHANGED <<frame, opened, published>>
        /\ seq' = (IF x = "seq" THEN 0 ELSE seq)
        /\ frameId' = (IF x = "frameId" THEN 0 ELSE frameId)
    BY <1>12 DEF ZeroField
  <2>2. QED
    BY <1>0, <1>t, <2>1 DEF WindowInv, QuietInv, NumberInv, Creating
<1>13. CASE StoreNewWidth
  BY <1>13, <1>0 DEF StoreNewWidth, WindowInv, QuietInv, NumberInv, Creating
<1>14. CASE StoreNewHeight
  BY <1>14, <1>0 DEF StoreNewHeight, WindowInv, QuietInv, NumberInv, Creating
<1>15. CASE StoreMagic
  BY <1>15, <1>0 DEF StoreMagic, WindowInv, QuietInv, NumberInv, Creating
<1>16. CASE Crash
  <2>1. CASE \A r \in Readers : rpc[r] = "closed"
    <3>1. wpc' = "down" /\ width' = 0 /\ height' = 0 /\ seq' = 0 /\ frameId' = 0
          /\ frame' = NoFrame /\ UNCHANGED <<opened, published>>
      BY <1>16, <2>1 DEF Crash
    <3>2. frame'.no = 0 /\ frame'.id = 0 /\ frame'.w = 0 /\ frame'.h = 0
      BY <3>1 DEF NoFrame, EmptyFrame
    <3>3. QED
      BY <1>0, <1>t, <3>1, <3>2 DEF WindowInv, QuietInv, NumberInv, Creating
  <2>2. CASE ~ \A r \in Readers : rpc[r] = "closed"
    <3>1. /\ wpc' = (IF Creating THEN "aborted" ELSE "down") /\ wpc \notin Dead
          /\ UNCHANGED <<width, height, jpegLen, seq, frameId, data, frame, opened, published>>
      BY <1>16, <2>2 DEF Crash, section
    <3>2. wpc' = "down" /\ seq % 2 = 0 => wpc = "idle"
      BY <1>0, <3>1 DEF WindowInv, TypeOK, Creating, Dead
    <3>3. WindowInv' /\ NumberInv'
      BY <1>0, <3>1 DEF WindowInv, NumberInv, Creating
    <3>4. QuietInv'
      BY <1>0, <3>1, <3>2 DEF QuietInv, FrameCells
    <3>5. QED
      BY <3>3, <3>4
  <2>3. QED
    BY <2>1, <2>2
<1>17. QED
  BY <1>3, <1>4, <1>5, <1>6, <1>7, <1>8, <1>9, <1>10, <1>11, <1>12, <1>13, <1>14, <1>15, <1>16
     DEF WriterNext, InWindow

(* What a step of the writer can do to a reader that is inside its call,   *)
(* while no creation runs: nothing but a flag, if it moves no seq.         *)
LEMMA WriterDisturbs ==
    ASSUME TypeOK, WriterInv, WriterNext, NEW r \in Readers
    PROVE  /\ disturbed[r] \subseteq disturbed'[r]
           /\ rpc[r] \notin Unfinished \/ "resized" \notin disturbed'[r]
                => disturbed'[r] = disturbed[r]
           /\ \/ rpc[r] \in Unfinished => {"created", "resized"} \subseteq disturbed'[r]
              \/ Creating
              \/ /\ ~ Creating' /\ seq' = seq + 1
                 /\ width' = width /\ height' = height
                 /\ \/ wpc' \notin {"width", "height"}
                    \/ rpc[r] \in Unfinished => "resized" \in disturbed'[r]
              \/ /\ ~ Creating' /\ seq' = seq
                 /\ UNCHANGED <<section, frame>>
                 /\ wpc' = "down"
              \/ /\ ~ Creating' /\ seq' = seq /\ seq % 2 = 1
                 /\ wpc \in Window /\ wpc' \in Window
                 /\ UNCHANGED <<width, height>> \/ wpc \in {"width", "height"}
              \/ rpc[r] = "closed"
<1>t. disturbed \in [Readers -> SUBSET {"created", "resized"}] /\ r \in Readers
  BY DEF TypeOK
<1>1. CASE Publish \/ (\E len \in 0 .. MaxJpeg + 1 : PublishWithJpeg(len))
  <2>1. /\ wpc = "idle" /\ wpc' = "copy" /\ seq' = seq + 1
        /\ UNCHANGED <<width, height, disturbed>>
    BY <1>1 DEF Publish, PublishWithJpeg, OpenWindow
  <2>2. QED
    BY <2>1 DEF Creating
<1>2. CASE \E f \in Formats : UpdateFormat(f)
  <2>1. /\ wpc = "idle" /\ wpc' = "width" /\ seq' = seq + 1
        /\ UNCHANGED <<width, height>> /\ Disturb({"resized"})
    BY <1>2 DEF UpdateFormat, OpenWindow
  <2>2. QED
    BY <1>t, <2>1 DEF Creating, Disturb
<1>3. CASE \E f \in Formats : Create(f)
  <2>1. Disturb({"created", "resized"})
    BY <1>3 DEF Create
  <2>2. QED
    BY <1>t, <2>1 DEF Disturb
<1>4. CASE InWindow
  <2>1. UNCHANGED disturbed /\ wpc \in Window
    BY <1>4 DEF InWindow, StoreWidth, StoreHeight, CopyIn, StoreJpegLen, BumpFrameId,
                CloseWindow, Window
  <2>2. seq % 2 = 1
    BY <2>1 DEF WriterInv, WindowInv
  <2>3. CASE CloseWindow
    <3>1. wpc' = "idle" /\ seq' = seq + 1 /\ UNCHANGED <<width, height>>
      BY <2>3 DEF CloseWindow
    <3>2. QED
      BY <2>1, <3>1 DEF Creating
  <2>4. CASE StoreWidth \/ StoreHeight
    <3>1. wpc' \in Window /\ seq' = seq /\ wpc \in {"width", "height"}
      BY <2>4 DEF StoreWidth, StoreHeight, Window
    <3>2. QED
      BY <2>1, <2>2, <3>1 DEF Creating, Window
  <2>5. CASE (\E c \in Cells : CopyIn(c)) \/ StoreJpegLen \/ BumpFrameId
    <3>1. wpc' \in Window /\ seq' = seq /\ UNCHANGED <<width, height>>
      BY <2>5 DEF CopyIn, StoreJpegLen, BumpFrameId, Window
    <3>2. QED
      BY <2>1, <2>2, <3>1 DEF Creating, Window
  <2>6. QED
    BY <1>4, <2>3, <2>4, <2>5 DEF InWindow
<1>5. CASE \/ \E x \in HeaderFields : ZeroField(x)
           \/ StoreNewWidth \/ StoreNewHeight \/ StoreMagic
  <2>1. Creating /\ UNCHANGED disturbed
    BY <1>5 DEF ZeroField, StoreNewWidth, StoreNewHeight, StoreMagic, Creating
  <2>2. QED
    BY <2>1
<1>6. CASE Crash
  <2>1. UNCHANGED disturbed
    BY <1>6 DEF Crash
  <2>2. CASE \A s \in Readers : rpc[s] = "closed"
    BY <2>1, <2>2
  <2>3. CASE ~ (\A s \in Readers : rpc[s] = "closed") /\ ~ Creating
    <3>1. wpc' = "down" /\ UNCHANGED <<section, frame>>
      BY <1>6, <2>3 DEF Crash
    <3>2. QED
      BY <2>1, <3>1 DEF Creating, section
  <2>4. QED
    BY <2>1, <2>2, <2>3
<1>7. QED
  BY <1>1, <1>2, <1>3, <1>4, <1>5, <1>6 DEF WriterNext

LEMMA WriterKeepsCalls ==
    ASSUME TypeOK, WriterInv, WriterNext, NEW r \in Readers, CallInv(r), SizeInv(r)
    PROVE  CallInv(r)' /\ SizeInv(r)'
<1>1. UNCHANGED <<rpc, ses, call>>
  BY WriterFrame DEF reader
<1>t. seq \in Nat /\ call[r] \in Calls /\ call[r].seqBefore \in Nat
  BY DEF TypeOK, Calls
<1>3. ASSUME Undisturbed(r)', rpc[r] \in {"id", "len", "copy"}
      PROVE  CallInv(r)'
  <2>1. Undisturbed(r) /\ ~ Creating /\ rpc[r] \in Unfinished
        /\ call[r].seqBefore % 2 = 0 /\ call[r].seqBefore <= seq
    BY <1>3, WriterDisturbs DEF CallInv, Undisturbed, Unfinished
  <2>2. CASE ~ Creating' /\ seq' = seq + 1
    BY <1>1, <1>t, <2>1, <2>2 DEF CallInv
  <2>3. CASE ~ Creating' /\ seq' = seq /\ UNCHANGED <<section, frame>>
    BY <1>1, <2>1, <2>3 DEF CallInv, section, Copied, FrameCells, Want
  <2>4. CASE ~ Creating' /\ seq' = seq /\ seq % 2 = 1
    BY <1>1, <2>1, <2>4, <1>t DEF CallInv
  <2>5. QED
    BY <1>3, <2>1, <2>2, <2>3, <2>4, WriterDisturbs DEF Undisturbed
<1>4. CallInv(r)'
  BY <1>1, <1>3 DEF CallInv
<1>5. SizeInv(r)'
  <2> SUFFICES ASSUME rpc[r] \in Unfinished, "resized" \notin disturbed'[r]
               PROVE  SizeInv(r)'
    BY <1>1 DEF SizeInv
  <2>1. /\ disturbed[r] = {} /\ disturbed'[r] = {}
        /\ wpc \notin {"width", "height"} /\ ~ Creating
    BY WriterDisturbs DEF SizeInv
  <2>2. ~ Creating' /\ UNCHANGED <<width, height>>
    BY <2>1, WriterDisturbs DEF Unfinished, section
  <2>3. wpc' \notin {"width", "height"}
    <3>1. ~ \E f \in Formats : UpdateFormat(f)
      BY <2>1 DEF UpdateFormat, Disturb, TypeOK
    <3>2. QED
      BY <2>1, <2>2, <3>1
         DEF WriterNext, InWindow, Publish, PublishWithJpeg, OpenWindow, StoreWidth,
             StoreHeight, CopyIn, StoreJpegLen, BumpFrameId, CloseWindow, Create, ZeroField,
             StoreNewWidth, StoreNewHeight, StoreMagic, Crash, Creating
  <2>4. QED
    BY <1>1, <2>1, <2>2, <2>3 DEF SizeInv, Want
<1>6. QED
  BY <1>4, <1>5

(* The frame numbers only grow under the writer's steps.                   *)
LEMMA WriterNumbers ==
    ASSUME TypeOK, WriterInv, WriterNext
    PROVE  /\ published'.no >= published.no
           /\ \/ frame' = frame
              \/ frame'.id = 0
              \/ frame'.no = opened + 1
<1>t. published.no \in Nat /\ frame.no \in Nat /\ opened \in Nat
  BY LayoutTypes DEF TypeOK, Frames
<1>1. CASE Publish \/ (\E len \in 0 .. MaxJpeg + 1 : PublishWithJpeg(len))
           \/ \E f \in Formats : UpdateFormat(f)
  <2>1. ASSUME NEW w, NEW h, NEW len, NEW next, OpenWindow(w, h, len, next)
        PROVE  frame'.no = opened + 1
    BY <2>1 DEF OpenWindow
  <2>2. frame'.no = opened + 1 /\ published' = published
    BY <1>1, <2>1 DEF Publish, PublishWithJpeg, UpdateFormat
  <2>3. QED
    BY <1>t, <2>2
<1>2. CASE \E f \in Formats : Create(f)
  BY <1>2, <1>t DEF Create, EmptyFrame
<1>3. CASE CloseWindow
  BY <1>3, <1>t DEF CloseWindow, WriterInv, WindowInv, Window
<1>4. CASE StoreWidth \/ StoreHeight \/ (\E c \in Cells : CopyIn(c)) \/ StoreJpegLen
           \/ BumpFrameId \/ (\E x \in HeaderFields : ZeroField(x))
           \/ StoreNewWidth \/ StoreNewHeight \/ StoreMagic
  <2>1. frame' = frame /\ published' = published
    BY <1>4 DEF StoreWidth, StoreHeight, CopyIn, StoreJpegLen, BumpFrameId, ZeroField,
                StoreNewWidth, StoreNewHeight, StoreMagic
  <2>2. QED
    BY <1>t, <2>1
<1>5. CASE Crash
  BY <1>5, <1>t DEF Crash, NoFrame, EmptyFrame
<1>6. QED
  BY <1>1, <1>2, <1>3, <1>4, <1>5 DEF WriterNext, InWindow

LEMMA WriterKeepsShown ==
    ASSUME TypeOK, WriterInv, WriterNext, NEW r \in Readers, AskedInv(r), ShownInv(r), DoneInv(r)
    PROVE  ShownInv(r)' /\ DoneInv(r)'
<1>1. UNCHANGED <<rpc, ses, call>>
  BY WriterFrame DEF reader
<1>t. /\ published.no \in Nat /\ published'.no \in Nat /\ frame.no \in Nat /\ opened \in Nat
      /\ ses[r].shown.no \in Nat /\ published.no <= opened
  <2>1. TypeOK'
    BY WriterTypes
  <2>2. QED
    BY <2>1, LayoutTypes DEF TypeOK, Frames, Sessions, WriterInv, NumberInv
<1>2. published'.no >= published.no
  BY WriterNumbers
<1>4. frame'.id # 0 /\ Undisturbed(r) => Undisturbed(r)'
  <2>1. CASE \E f \in Formats : Create(f)
    BY <2>1 DEF Create, EmptyFrame
  <2>2. CASE \E f \in Formats : UpdateFormat(f)
    BY <2>2 DEF UpdateFormat, Disturb, TypeOK, Undisturbed
  <2>3. CASE UNCHANGED disturbed
    BY <2>3 DEF Undisturbed
  <2>4. QED
    BY <2>1, <2>2, <2>3
       DEF WriterNext, InWindow, Publish, PublishWithJpeg, StoreWidth, StoreHeight, CopyIn,
           StoreJpegLen, BumpFrameId, CloseWindow, ZeroField, StoreNewWidth, StoreNewHeight,
           StoreMagic, Crash
<1>5. ShownInv(r)'
  <2>1. rpc[r] \in {"closed", "idle", "format", "check"} => disturbed'[r] = {}
    BY WriterDisturbs DEF ShownInv, Unfinished
  <2>2. ses[r].shown.no <= published'.no
    BY <1>2, <1>t DEF ShownInv
  <2>3. frame'.id # 0 =>
          /\ ses[r].shown.no <= frame'.no
          /\ ses[r].shown.no = frame'.no => ses[r].last = frame'.id /\ Undisturbed(r)'
    BY <1>4, <1>t, WriterNumbers DEF ShownInv
  <2>4. QED
    BY <1>1, <2>1, <2>2, <2>3 DEF ShownInv
<1>6. DoneInv(r)'
  <2> SUFFICES ASSUME Delivers(r), Undisturbed(r)'
               PROVE  DoneInv(r)'
    BY <1>1 DEF DoneInv, Delivers
  <2>1. disturbed'[r] = disturbed[r]
    BY WriterDisturbs DEF Delivers, Unfinished
  <2> DEFINE f == FrameRead(r)
  <2>2. /\ f.id = call[r].id
        /\ ses[r].kind = "mjpeg" => f.len = call[r].len
        /\ \A c \in Copied(r) \cap FrameCells(f) : call[r].got[c] = f
        /\ disturbed[r] = {} /\ ses[r].kind = "yuy2" => Want(r) = Yuy2Bytes(f.w, f.h)
        /\ ses[r].shown.no < f.no /\ f.no <= published.no
        /\ frame.id # 0 => f.no <= frame.no
        /\ frame.id # 0 /\ f.no = frame.no => frame.id = f.id
    BY <2>1 DEF DoneInv, Undisturbed
  <2>3. f.no \in Nat
    BY DoneFrameType DEF Frames
  <2>4. FrameRead(r)' = f /\ Copied(r)' = Copied(r) /\ Want(r)' = Want(r)
    BY <1>1 DEF FrameRead, Copied, Want
  <2> HIDE DEF f
  <2>5. f.no <= published'.no
        /\ (frame'.id # 0 => f.no <= frame'.no)
        /\ (frame'.id # 0 /\ f.no = frame'.no => frame'.id = f.id)
    BY <1>2, <1>t, <2>2, <2>3, WriterNumbers
  <2>6. QED
    BY <1>1, <2>1, <2>2, <2>4, <2>5 DEF DoneInv, f
<1>7. QED
  BY <1>5, <1>6

(***************************************************************************)
(* The reader's side of the invariant.                                     *)
(***************************************************************************)

(* Between windows, with no creation running, the writer is idle or gone.  *)
LEMMA WpcCases ==
    TypeOK /\ WriterInv /\ seq % 2 = 0 /\ ~ Creating => wpc \in {"idle", "down"}
BY DEF TypeOK, WriterInv, WindowInv, Window, Creating

(* A call that starts, ends or goes on before its window is not bound yet. *)
LEMMA ReaderKeepsCalls ==
    ASSUME TypeOK, WriterInv, NEW r \in Readers, ReaderNext(r),
           AskedInv(r), KindInv(r), CallInv(r), SizeInv(r), ShownInv(r)
    PROVE  CallInv(r)' /\ SizeInv(r)'
<1>a. /\ call[r] \in Calls /\ ses[r] \in Sessions
      /\ call[r].w \in 0 .. MaxWidth /\ call[r].h \in 0 .. MaxHeight
      /\ disturbed[r] \in SUBSET {"created", "resized"}
  BY DEF TypeOK, Calls
<1>b. UNCHANGED <<section, writer>> /\ seq \in Nat /\ jpegLen \in 0 .. MaxJpeg
  BY ReaderFrame DEF TypeOK
<1>c. Creating' <=> Creating
  BY <1>b DEF Creating, writer
<1>d. CASE rpc'[r] \notin Unfinished
  BY <1>d DEF CallInv, SizeInv, Unfinished
<1>1. CASE TryOpen(r) \/ ReadFormat(r) \/ Return(r)
  BY <1>1, <1>d, ReaderMoves DEF TryOpen, ReadFormat, Return, Unfinished
<1>2. CASE ReadFormatHeight(r)
  BY <1>2, <1>d, ReaderMoves DEF ReadFormatHeight, Unfinished
<1>3. CASE CheckWidth(r)
  <2>1. CASE magic
    <3>1. /\ rpc'[r] = "checkheight" /\ call'[r].cw = width
          /\ disturbed'[r] = (IF Resizing THEN {"resized"} ELSE {})
      BY <1>3, <2>1, <1>a, ReaderMoves DEF CheckWidth, TypeOK, Calls
    <3>2. QED
      BY <3>1, <1>b DEF CallInv, SizeInv, Resizing, Creating, section, writer
  <2>2. CASE ~ magic
    BY <1>3, <2>2, <1>d, ReaderMoves DEF CheckWidth, Unfinished
  <2>3. QED
    BY <2>1, <2>2
<1>4. CASE CheckHeight(r)
  <2>1. CASE SizeMatches(r, height)
    <3>1. rpc[r] = "checkheight" /\ rpc'[r] = "before" /\ UNCHANGED <<call, disturbed>>
      BY <1>4, <2>1, ReaderMoves DEF CheckHeight
    <3>2. QED
      BY <2>1, <3>1, <1>b DEF CallInv, SizeInv, SizeMatches, Want, Unfinished, Creating,
                              section, writer
  <2>2. CASE ~ SizeMatches(r, height)
    BY <1>4, <2>2, <1>d, ReaderMoves DEF CheckHeight, Unfinished
  <2>3. QED
    BY <2>1, <2>2
<1>5. CASE LoadSeqOdd(r)
  <2>1. CASE call[r].attempt + 1 < MaxAttempts
    <3>1. /\ rpc[r] = "before" /\ UNCHANGED <<rpc, disturbed>>
          /\ call'[r].w = call[r].w /\ call'[r].h = call[r].h
      BY <1>5, <2>1, <1>a, ReaderMoves DEF LoadSeqOdd, Calls
    <3>2. QED
      BY <3>1, <1>b DEF CallInv, SizeInv, Want, Unfinished, Creating, section, writer
  <2>2. CASE ~ (call[r].attempt + 1 < MaxAttempts)
    BY <1>5, <2>2, <1>d, ReaderMoves DEF LoadSeqOdd, Unfinished
  <2>3. QED
    BY <2>1, <2>2
<1>6. CASE LoadSeq(r)
  <2>1. /\ rpc[r] = "before" /\ rpc'[r] = "id" /\ seq % 2 = 0
        /\ call'[r].w = call[r].w /\ call'[r].h = call[r].h /\ call'[r].seqBefore = seq
    <3>1. call'[r] = [call[r] EXCEPT !.attempt = @ + 1, !.seqBefore = seq]
      BY <1>6, ReaderMoves DEF LoadSeq
    <3>2. /\ call'[r].w = call[r].w /\ call'[r].h = call[r].h /\ call'[r].seqBefore = seq
      BY <1>a, <3>1 DEF Calls
    <3>3. rpc[r] = "before" /\ rpc'[r] = "id" /\ seq % 2 = 0
      BY <1>6, ReaderMoves DEF LoadSeq
    <3>4. QED
      BY <3>2, <3>3
  <2>2. disturbed'[r] = (IF Creating THEN disturbed[r] \cup {"created"}
                                     ELSE disturbed[r] \ {"created"})
    BY <1>6 DEF LoadSeq, TypeOK
  <2>3. CallInv(r)'
    BY <2>1, <2>2, <1>b, <1>c DEF CallInv, Undisturbed, section
  <2>4. "resized" \notin disturbed'[r] =>
          "resized" \notin disturbed[r] /\ ~ Creating /\ disturbed'[r] = {}
    BY <2>1, <2>2 DEF SizeInv, Unfinished
  <2>5. SizeInv(r)'
    BY <2>1, <2>4, <1>b DEF SizeInv, Want, Unfinished, Creating, section, writer
  <2>6. QED
    BY <2>3, <2>5
<1>7. CASE LoadFrameId(r)
  <2> DEFINE cells == IF ses[r].kind = "yuy2" THEN PixelCells(Want(r)) ELSE {}
  <2>1. CASE Stale(r, frameId)
    BY <1>7, <2>1, <1>d, ReaderMoves DEF LoadFrameId, Unfinished
  <2>2. CASE ~ Stale(r, frameId)
    <3>1. rpc[r] = "id" /\ rpc'[r] = (IF ses[r].kind = "yuy2" THEN "copy" ELSE "len")
      BY <1>7, <2>2, ReaderMoves DEF LoadFrameId
    <3>2. SetCall(r, [call[r] EXCEPT !.id = frameId, !.todo = cells])
          /\ UNCHANGED disturbed /\ UNCHANGED ses
      BY <1>7, <2>2 DEF LoadFrameId
    <3> HIDE DEF cells
    <3>3. /\ call'[r].w = call[r].w /\ call'[r].h = call[r].h
          /\ call'[r].seqBefore = call[r].seqBefore /\ call'[r].id = frameId
          /\ call'[r].todo = cells
      <4>1. call'[r] = [call[r] EXCEPT !.id = frameId, !.todo = cells]
        BY <3>2, ReaderMoves
      <4>2. QED
        BY <4>1, <1>a DEF Calls
    <3>4. frameId # 0 /\ frameId # ses[r].last
      BY <2>2 DEF Stale
    <3>5. rpc'[r] = "copy" => Copied(r)' = cells /\ ses[r].kind = "yuy2"
      BY <3>1, <3>2, <3>3, <1>a DEF Copied, Want, cells, Sessions
    <3>6. CallInv(r)'
      BY <3>1, <3>2, <3>3, <3>4, <3>5, <1>b, <1>c DEF CallInv, Undisturbed, section, writer
    <3>7. SizeInv(r)'
      BY <3>1, <3>2, <3>3, <1>b, <1>c DEF SizeInv, Want, Unfinished, section, writer
    <3>8. QED
      BY <3>6, <3>7
  <2>3. QED
    BY <2>1, <2>2
<1>8. CASE LoadJpegLen(r)
  <2> DEFINE len == Clamp(jpegLen)
  <2>1. rpc[r] = "len" /\ rpc'[r] = "copy" /\ UNCHANGED disturbed /\ UNCHANGED ses
    BY <1>8, ReaderMoves DEF LoadJpegLen
  <2>2. /\ call'[r].w = call[r].w /\ call'[r].h = call[r].h
        /\ call'[r].seqBefore = call[r].seqBefore /\ call'[r].id = call[r].id
        /\ call'[r].len = len /\ call'[r].todo = SidecarCells(len)
    <3>1. call'[r] = [call[r] EXCEPT !.len = len, !.todo = SidecarCells(len)]
      BY <1>8, ReaderMoves DEF LoadJpegLen
    <3>2. QED
      BY <3>1, <1>a DEF Calls
  <2>3. len = jpegLen
    BY <1>b, LayoutTypes DEF Clamp
  <2>4. ses[r].kind = "mjpeg"
    BY <2>1 DEF KindInv
  <2>5. Copied(r)' = SidecarCells(len)
    BY <2>1, <2>2, <2>4 DEF Copied
  <2>6. seq % 2 = 0 /\ ~ Creating /\ frameId # 0 => jpegLen = frame.len
    BY WpcCases DEF WriterInv, QuietInv, WindowInv
  <2>7. CallInv(r)'
    BY <2>1, <2>2, <2>3, <2>4, <2>5, <2>6, <1>b, <1>c
       DEF CallInv, Undisturbed, section, writer
  <2>8. SizeInv(r)'
    BY <2>1, <2>2, <1>b, <1>c DEF SizeInv, Want, Unfinished, section, writer
  <2>9. QED
    BY <2>7, <2>8
<1>9. ASSUME NEW c \in Cells, CopyOut(r, c)
      PROVE  CallInv(r)' /\ SizeInv(r)'
  <2>1. rpc[r] = "copy" /\ UNCHANGED <<rpc, ses, disturbed>>
    BY <1>9 DEF CopyOut
  <2>2. /\ call'[r].w = call[r].w /\ call'[r].h = call[r].h
        /\ call'[r].seqBefore = call[r].seqBefore /\ call'[r].id = call[r].id
        /\ call'[r].len = call[r].len /\ call'[r].todo = call[r].todo \ {c}
        /\ call'[r].got = [call[r].got EXCEPT ![c] = data[c]]
    <3>1. call'[r] = [call[r] EXCEPT !.got = [call[r].got EXCEPT ![c] = data[c]],
                                     !.todo = @ \ {c}]
      BY <1>9, ReaderMoves DEF CopyOut
    <3>2. QED
      BY <3>1, <1>a DEF Calls
  <2>3. Copied(r)' = Copied(r)
    BY <2>1, <2>2 DEF Copied, Want
  <2>4. seq % 2 = 0 /\ ~ Creating /\ frameId # 0 =>
          \A d \in FrameCells(frame) : data[d] = frame
    BY WpcCases DEF WriterInv, QuietInv, WindowInv
  <2>5. call[r].got \in [Cells -> Frames]
    BY <1>a DEF Calls
  <2>6. CallInv(r)'
    <3> SUFFICES ASSUME Undisturbed(r)
                 PROVE  CallInv(r)'
      BY <2>1 DEF CallInv, Undisturbed
    <3>1. ~ Creating /\ call[r].seqBefore % 2 = 0 /\ call[r].seqBefore <= seq
      BY <2>1 DEF CallInv
    <3>2. ASSUME seq = call[r].seqBefore,
                 NEW d \in (Copied(r) \cap FrameCells(frame)) \ (call[r].todo \ {c})
          PROVE  call'[r].got[d] = frame
      <4>1. call[r].id = frameId /\ frameId # 0
        BY <2>1, <3>2 DEF CallInv
      <4>2. CASE d = c
        <5>1. data[c] = frame
          BY <2>4, <3>1, <3>2, <4>1, <4>2
        <5>2. QED
          BY <2>2, <2>5, <4>2, <5>1
      <4>3. CASE d # c
        <5>1. call[r].got[d] = frame
          BY <2>1, <3>2, <4>3 DEF CallInv
        <5>2. QED
          BY <2>2, <2>5, <4>3, <5>1
      <4>4. QED
        BY <4>2, <4>3
    <3>3. QED
      BY <2>1, <2>2, <2>3, <3>1, <3>2, <1>b, <1>c DEF CallInv, Undisturbed, section, writer
  <2>7. SizeInv(r)'
    BY <2>1, <2>2, <1>b, <1>c DEF SizeInv, Want, Unfinished, section, writer
  <2>8. QED
    BY <2>6, <2>7
<1>10. CASE Recheck(r)
  <2>1. CASE Unmoved(r)
    BY <1>10, <2>1, <1>d, ReaderMoves DEF Recheck, Unfinished
  <2>2. CASE ~ Unmoved(r)
    <3>1. CASE EndCall(r)
      BY <3>1, <1>d, ReaderMoves DEF Unfinished
    <3>2. CASE rpc'[r] = "before" /\ UNCHANGED <<call, disturbed>> /\ rpc[r] = "copy"
      BY <3>2, <1>b, <1>c DEF CallInv, SizeInv, Want, Unfinished, section, writer
    <3>3. QED
      BY <1>10, <2>2, <3>1, <3>2, ReaderMoves DEF Recheck
  <2>3. QED
    BY <2>1, <2>2
<1>11. QED
  BY <1>1, <1>2, <1>3, <1>4, <1>5, <1>6, <1>7, <1>8, <1>9, <1>10 DEF ReaderNext, InCall

(* The heart of the lock: a copy whose seq did not move is the frame the   *)
(* bus holds, whole, and one the session has not been shown.               *)
LEMMA AcceptedCopy ==
    ASSUME TypeOK, WriterInv, NEW r \in Readers, AskedInv(r), CallInv(r), SizeInv(r),
           ShownInv(r), Undisturbed(r), rpc[r] = "copy", call[r].todo = {}, Unmoved(r),
           ses[r].kind = "yuy2" \/ call[r].len # 0
    PROVE  /\ FrameRead(r) = frame /\ published = frame /\ frame.id # 0
           /\ frame.id = call[r].id
           /\ ses[r].kind = "mjpeg" => frame.len = call[r].len
           /\ \A c \in Copied(r) \cap FrameCells(frame) : call[r].got[c] = frame
           /\ disturbed[r] = {} /\ ses[r].kind = "yuy2" => Want(r) = Yuy2Bytes(frame.w, frame.h)
           /\ ses[r].shown.no < frame.no
<1>t. /\ call[r] \in Calls /\ ses[r] \in Sessions /\ frame \in Frames
      /\ call[r].w \in 0 .. MaxWidth /\ call[r].h \in 0 .. MaxHeight
      /\ call[r].len \in 0 .. MaxJpeg
      /\ frame.w \in 0 .. MaxWidth /\ frame.h \in 0 .. MaxHeight /\ frame.len \in 0 .. MaxJpeg
      /\ frame.no \in Nat /\ ses[r].shown.no \in Nat /\ ses[r].kind \in {"yuy2", "mjpeg"}
  BY LayoutTypes DEF TypeOK, Calls, Sessions, Frames
<1>1. /\ ~ Creating /\ seq % 2 = 0 /\ seq = call[r].seqBefore
      /\ call[r].id = frameId /\ frameId # 0 /\ frameId # ses[r].last
      /\ ses[r].kind = "mjpeg" => call[r].len = frame.len
      /\ \A c \in Copied(r) \cap FrameCells(frame) : call[r].got[c] = frame
  BY DEF CallInv, Unmoved
<1>2. wpc \in {"idle", "down"}
  BY <1>1, WpcCases
<1>3. /\ frame.id = frameId /\ published = frame /\ width = frame.w /\ height = frame.h
      /\ frame.w >= 1 /\ frame.h >= 1
  BY <1>1, <1>2 DEF WriterInv, QuietInv, NumberInv
<1>4. FrameRead(r) = frame
  <2>1. CASE ses[r].kind = "yuy2"
    <3>1. 1 \in Copied(r) /\ 1 \in FrameCells(frame)
      BY <1>t, <1>3, <2>1, CellsFit DEF Copied, Want, FrameCells, AskedInv
    <3>2. QED
      BY <1>1, <2>1, <3>1 DEF FrameRead
  <2>2. CASE ses[r].kind = "mjpeg"
    <3>1. MaxFrameBytes + 1 \in Copied(r) /\ MaxFrameBytes + 1 \in FrameCells(frame)
      BY <1>t, <1>1, <2>2, CellsFit DEF Copied, FrameCells
    <3>2. QED
      BY <1>1, <2>2, <3>1 DEF FrameRead
  <2>3. QED
    BY <1>t, <2>1, <2>2
<1>5. ses[r].shown.no < frame.no
  BY <1>t, <1>1, <1>3 DEF ShownInv
<1>6. disturbed[r] = {} => Want(r) = Yuy2Bytes(frame.w, frame.h)
  BY <1>3 DEF SizeInv, Unfinished
<1>7. QED
  BY <1>1, <1>3, <1>4, <1>5, <1>6

LEMMA ReaderKeepsShown ==
    ASSUME TypeOK, WriterInv, NEW r \in Readers, ReaderNext(r),
           AskedInv(r), KindInv(r), CallInv(r), SizeInv(r), ShownInv(r), DoneInv(r)
    PROVE  KindInv(r)' /\ ShownInv(r)' /\ DoneInv(r)'
<1>a. /\ call[r] \in Calls /\ ses[r] \in Sessions /\ ses \in [Readers -> Sessions]
      /\ ses[r].kind \in {"yuy2", "mjpeg"}
      /\ disturbed[r] \in SUBSET {"created", "resized"}
  BY DEF TypeOK, Sessions
<1>b. UNCHANGED <<frame, published>> /\ UNCHANGED wpc
  BY ReaderFrame DEF writer
<1>1. CASE TryOpen(r)
  <2>1. PICK k \in {"yuy2", "mjpeg"} : ses' = [ses EXCEPT ![r] = [ses[r] EXCEPT !.kind = k]]
    BY <1>1 DEF TryOpen
  <2>2. ses'[r].last = ses[r].last /\ ses'[r].shown = ses[r].shown
    BY <1>a, <2>1 DEF Sessions
  <2>3. rpc[r] = "closed" /\ rpc'[r] = "idle" /\ UNCHANGED disturbed
    BY <1>1, ReaderMoves DEF TryOpen
  <2>4. QED
    BY <1>b, <2>2, <2>3 DEF KindInv, ShownInv, DoneInv, Delivers, Undisturbed
<1>2. CASE UNCHANGED ses /\ EndCall(r)
  <2>1. rpc'[r] = "idle" /\ disturbed'[r] = {} /\ UNCHANGED ses
    BY <1>2, ReaderMoves
  <2>2. QED
    BY <1>b, <2>1 DEF KindInv, ShownInv, DoneInv, Delivers, Undisturbed
<1>3. ASSUME UNCHANGED ses, rpc'[r] # "done",
             rpc'[r] = "len" => ses[r].kind = "mjpeg",
             rpc'[r] \in {"closed", "idle", "format", "check"} => disturbed'[r] = {},
             disturbed'[r] \subseteq disturbed[r] \/ Creating
                \/ disturbed'[r] \subseteq {"resized"}
      PROVE  KindInv(r)' /\ ShownInv(r)' /\ DoneInv(r)'
  <2>1. frame.id # 0 /\ Undisturbed(r) => Undisturbed(r)'
    BY <1>3 DEF Undisturbed, WriterInv, NumberInv
  <2>2. ShownInv(r)'
    BY <1>b, <1>3, <2>1 DEF ShownInv
  <2>3. QED
    BY <1>3, <2>2 DEF KindInv, DoneInv, Delivers
<1>4. CASE ReadFormat(r)
  <2>1. rpc[r] = "idle" /\ rpc'[r] = "format" /\ UNCHANGED <<ses, disturbed>>
    BY <1>4, ReaderMoves DEF ReadFormat
  <2>2. QED
    BY <1>3, <2>1 DEF ShownInv
<1>5. CASE ReadFormatHeight(r)
  <2>1. CASE EndCall(r)
    BY <1>2, <1>5, <2>1 DEF ReadFormatHeight
  <2>2. CASE ~ EndCall(r)
    <3>1. rpc[r] = "format" /\ rpc'[r] = "check" /\ UNCHANGED <<ses, disturbed>>
      BY <1>5, <2>2, ReaderMoves DEF ReadFormatHeight
    <3>2. QED
      BY <1>3, <3>1 DEF ShownInv
  <2>3. QED
    BY <2>1, <2>2
<1>6. CASE CheckWidth(r)
  <2>1. CASE magic
    <3>1. rpc'[r] = "checkheight" /\ UNCHANGED ses /\ disturbed'[r] \subseteq {"resized"}
      BY <1>6, <2>1, ReaderMoves DEF CheckWidth, TypeOK
    <3>2. QED
      BY <1>3, <3>1
  <2>2. CASE ~ magic
    BY <1>2, <1>6, <2>2 DEF CheckWidth
  <2>3. QED
    BY <2>1, <2>2
<1>7. CASE CheckHeight(r)
  <2>1. CASE SizeMatches(r, height)
    <3>1. rpc'[r] = "before" /\ UNCHANGED <<ses, disturbed>>
      BY <1>7, <2>1, ReaderMoves DEF CheckHeight
    <3>2. QED
      BY <1>3, <3>1
  <2>2. CASE ~ SizeMatches(r, height)
    BY <1>2, <1>7, <2>2 DEF CheckHeight
  <2>3. QED
    BY <2>1, <2>2
<1>8. CASE LoadSeqOdd(r)
  <2>1. CASE call[r].attempt + 1 < MaxAttempts
    <3>1. rpc[r] = "before" /\ UNCHANGED <<rpc, ses, disturbed>>
      BY <1>8, <2>1 DEF LoadSeqOdd
    <3>2. QED
      BY <1>3, <3>1
  <2>2. CASE ~ (call[r].attempt + 1 < MaxAttempts)
    BY <1>2, <1>8, <2>2 DEF LoadSeqOdd
  <2>3. QED
    BY <2>1, <2>2
<1>9. CASE LoadSeq(r)
  <2>1. rpc'[r] = "id" /\ UNCHANGED ses
    BY <1>9, ReaderMoves DEF LoadSeq
  <2>2. disturbed'[r] = (IF Creating THEN disturbed[r] \cup {"created"}
                                     ELSE disturbed[r] \ {"created"})
    BY <1>9 DEF LoadSeq, TypeOK
  <2>3. QED
    BY <1>3, <2>1, <2>2
<1>10. CASE LoadFrameId(r)
  <2>1. CASE Stale(r, frameId)
    BY <1>2, <1>10, <2>1 DEF LoadFrameId
  <2>2. CASE ~ Stale(r, frameId)
    <3>1. rpc'[r] = (IF ses[r].kind = "yuy2" THEN "copy" ELSE "len")
          /\ UNCHANGED <<ses, disturbed>>
      BY <1>10, <2>2, ReaderMoves DEF LoadFrameId
    <3>2. QED
      BY <1>3, <1>a, <3>1
  <2>3. QED
    BY <2>1, <2>2
<1>11. CASE LoadJpegLen(r)
  <2>1. rpc'[r] = "copy" /\ UNCHANGED <<ses, disturbed>>
    BY <1>11, ReaderMoves DEF LoadJpegLen
  <2>2. QED
    BY <1>3, <2>1
<1>12. CASE \E c \in Cells : CopyOut(r, c)
  <2>1. rpc[r] = "copy" /\ UNCHANGED <<rpc, ses, disturbed>>
    BY <1>12 DEF CopyOut
  <2>2. QED
    BY <1>3, <2>1
<1>13. CASE Recheck(r)
  <2>1. CASE Unmoved(r)
    <3>1. /\ rpc[r] = "copy" /\ rpc'[r] = "done" /\ call[r].todo = {}
          /\ UNCHANGED <<ses, call, disturbed>>
      BY <1>13, <2>1, ReaderMoves DEF Recheck
    <3>2. FrameRead(r)' = FrameRead(r) /\ Copied(r)' = Copied(r) /\ Want(r)' = Want(r)
          /\ (Undisturbed(r)' <=> Undisturbed(r))
      BY <3>1 DEF FrameRead, Copied, Want, Undisturbed
    <3>3. DoneInv(r)'
      <4> SUFFICES ASSUME Delivers(r)', Undisturbed(r)'
                   PROVE  DoneInv(r)'
        BY DEF DoneInv
      <4>1. ses[r].kind = "yuy2" \/ call[r].len # 0
        BY <3>1 DEF Delivers
      <4>2. /\ FrameRead(r) = frame /\ published = frame /\ frame.id # 0
            /\ frame.id = call[r].id
            /\ ses[r].kind = "mjpeg" => frame.len = call[r].len
            /\ \A c \in Copied(r) \cap FrameCells(frame) : call[r].got[c] = frame
            /\ disturbed[r] = {} /\ ses[r].kind = "yuy2"
                  => Want(r) = Yuy2Bytes(frame.w, frame.h)
            /\ ses[r].shown.no < frame.no
        BY <2>1, <3>1, <3>2, <4>1, AcceptedCopy
      <4>3. frame.no \in Nat
        BY LayoutTypes DEF TypeOK, Frames
      <4>4. QED
        BY <1>b, <3>1, <3>2, <4>2, <4>3 DEF DoneInv
    <3>4. ShownInv(r)' /\ KindInv(r)'
      BY <1>b, <3>1, <3>2 DEF ShownInv, KindInv
    <3>5. QED
      BY <3>3, <3>4
  <2>2. CASE ~ Unmoved(r) /\ EndCall(r)
    BY <1>2, <1>13, <2>2 DEF Recheck
  <2>3. CASE ~ Unmoved(r) /\ ~ EndCall(r)
    <3>1. rpc'[r] = "before" /\ UNCHANGED <<ses, disturbed>>
      BY <1>13, <2>3, ReaderMoves DEF Recheck
    <3>2. QED
      BY <1>3, <3>1
  <2>4. QED
    BY <2>1, <2>2, <2>3
<1>14. CASE Return(r)
  <2>1. CASE Delivers(r)
    <3>1. /\ ses' = [ses EXCEPT ![r] = Kept(r)]
          /\ rpc'[r] = "idle" /\ disturbed'[r] = {}
      BY <1>14, <2>1, ReaderMoves DEF Return
    <3>2. /\ ses'[r].last = call[r].id
          /\ ses'[r].shown = IF Undisturbed(r) THEN FrameRead(r) ELSE ses[r].shown
      BY <1>a, <3>1 DEF Kept, Sessions
    <3>3. CASE Undisturbed(r)
      BY <1>b, <2>1, <3>1, <3>2, <3>3
         DEF DoneInv, ShownInv, KindInv, Delivers, Undisturbed
    <3>4. CASE ~ Undisturbed(r)
      BY <1>b, <3>1, <3>2, <3>4 DEF DoneInv, ShownInv, KindInv, Delivers, Undisturbed
    <3>5. QED
      BY <3>3, <3>4
  <2>2. CASE ~ Delivers(r)
    BY <1>2, <1>14, <2>2 DEF Return
  <2>3. QED
    BY <2>1, <2>2
<1>15. QED
  BY <1>1, <1>4, <1>5, <1>6, <1>7, <1>8, <1>9, <1>10, <1>11, <1>12, <1>13, <1>14
     DEF ReaderNext, InCall

(***************************************************************************)
(* The invariant, and the bus it makes of the section.                     *)
(***************************************************************************)

LEMMA InitInv == Init => IInv
<1> SUFFICES ASSUME Init PROVE IInv
  OBVIOUS
<1>1. TypeOK
  BY InitTypes
<1>2. /\ wpc = "down" /\ seq = 0 /\ frameId = 0 /\ width = 0 /\ height = 0 /\ opened = 0
      /\ frame = NoFrame /\ published = NoFrame
  BY DEF Init
<1>3. NoFrame.no = 0 /\ NoFrame.id = 0 /\ NoFrame.w = 0 /\ NoFrame.h = 0
  BY DEF NoFrame, EmptyFrame
<1>4. WriterInv
  BY <1>2, <1>3 DEF WriterInv, WindowInv, QuietInv, NumberInv, Window, Creating
<1>5. ASSUME NEW r \in Readers
      PROVE  AskedInv(r) /\ KindInv(r) /\ CallInv(r) /\ SizeInv(r) /\ ShownInv(r) /\ DoneInv(r)
  <2>1. rpc[r] = "closed" /\ disturbed[r] = {} /\ ses[r].shown = NoFrame
    BY DEF Init
  <2>2. QED
    BY <2>1, <1>2, <1>3
       DEF AskedInv, KindInv, CallInv, SizeInv, ShownInv, DoneInv, Delivers, Unfinished
<1>6. QED
  BY <1>1, <1>4, <1>5 DEF IInv

LEMMA NextInv == IInv /\ [Next]_vars => IInv'
<1> SUFFICES ASSUME IInv, [Next]_vars PROVE IInv'
  OBVIOUS
<1> DEFINE ReaderInv(r) == /\ AskedInv(r) /\ KindInv(r) /\ CallInv(r) /\ SizeInv(r)
                           /\ ShownInv(r) /\ DoneInv(r)
<1>1. TypeOK /\ WriterInv /\ \A r \in Readers : ReaderInv(r)
  BY DEF IInv
<1>2. CASE WriterNext
  <2>1. TypeOK' /\ WriterInv'
    BY <1>1, <1>2, WriterTypes, WriterPreserves
  <2>2. ASSUME NEW r \in Readers
        PROVE  ReaderInv(r)'
    <3>1. ReaderInv(r)
      BY <1>1
    <3>2. CallInv(r)' /\ SizeInv(r)'
      BY <1>1, <1>2, <3>1, WriterKeepsCalls
    <3>3. ShownInv(r)' /\ DoneInv(r)'
      BY <1>1, <1>2, <3>1, WriterKeepsShown
    <3>4. AskedInv(r)' /\ KindInv(r)'
      BY <1>2, <3>1, WriterFrame DEF AskedInv, KindInv, reader
    <3>5. QED
      BY <3>2, <3>3, <3>4
  <2>3. QED
    BY <2>1, <2>2 DEF IInv
<1>3. ASSUME NEW r \in Readers, ReaderNext(r)
      PROVE  IInv'
  <2>1. ReaderInv(r)
    BY <1>1
  <2>2. TypeOK'
    BY <1>1, <1>3, <2>1, ReaderTypes
  <2>3. UNCHANGED <<section, writer>>
    BY <1>1, <1>3, ReaderFrame
  <2>4. WriterInv'
    BY <1>1, <2>3 DEF WriterInv, WindowInv, QuietInv, NumberInv, Creating, FrameCells,
                      section, writer
  <2>5. ReaderInv(r)'
    BY <1>1, <1>3, <2>1, ReaderAsked, ReaderKeepsCalls, ReaderKeepsShown
  <2>6. ASSUME NEW s \in Readers \ {r}
        PROVE  ReaderInv(s)'
    <3>1. rpc'[s] = rpc[s] /\ call'[s] = call[s] /\ ses'[s] = ses[s]
          /\ disturbed'[s] = disturbed[s]
      BY <1>1, <1>3, ReaderFrame
    <3>2. ReaderInv(s)
      BY <1>1
    <3>3. FrameRead(s)' = FrameRead(s) /\ Copied(s)' = Copied(s) /\ Want(s)' = Want(s)
          /\ (Delivers(s)' <=> Delivers(s)) /\ (Undisturbed(s)' <=> Undisturbed(s))
      BY <3>1 DEF FrameRead, Copied, Want, Delivers, Undisturbed
    <3>4. AskedInv(s)' /\ KindInv(s)' /\ ShownInv(s)'
      BY <2>3, <3>1, <3>2, <3>3 DEF AskedInv, KindInv, ShownInv, writer
    <3>5. CallInv(s)' /\ SizeInv(s)'
      BY <2>3, <3>1, <3>2, <3>3 DEF CallInv, SizeInv, Creating, section, writer
    <3>6. DoneInv(s)'
      BY <2>3, <3>1, <3>2, <3>3 DEF DoneInv, writer
    <3>7. QED
      BY <3>4, <3>5, <3>6
  <2>7. QED
    BY <2>2, <2>4, <2>5, <2>6 DEF IInv
<1>4. CASE UNCHANGED vars
  <2>1. TypeOK' /\ WriterInv'
    BY <1>1, <1>4 DEF vars, section, writer, reader, TypeOK, WriterInv, WindowInv, QuietInv,
                      NumberInv, Creating, FrameCells
  <2>2. ASSUME NEW r \in Readers
        PROVE  ReaderInv(r)'
    <3>1. UNCHANGED <<section, writer, rpc, call, ses, disturbed>>
      BY <1>4 DEF vars, reader
    <3>2. ReaderInv(r)
      BY <1>1
    <3>3. AskedInv(r)' /\ KindInv(r)' /\ CallInv(r)'
      BY <3>1, <3>2 DEF AskedInv, KindInv, CallInv, Creating, section, writer, Undisturbed,
                        Want, Copied, FrameRead
    <3>4. SizeInv(r)' /\ ShownInv(r)' /\ DoneInv(r)'
      BY <3>1, <3>2 DEF SizeInv, ShownInv, DoneInv, Creating, section, writer, Undisturbed,
                        Delivers, Want, Copied, FrameRead
    <3>5. QED
      BY <3>3, <3>4
  <2>3. QED
    BY <2>1, <2>2 DEF IInv
<1>5. QED
  BY <1>2, <1>3, <1>4 DEF Next

THEOREM Invariant == Spec => []IInv
BY InitInv, NextInv, PTL DEF Spec

(* No call delivers a torn copy: UntornRead for every number of frames,    *)
(* readers and crashes.                                                    *)
THEOREM NoTornRead == Spec => []UntornRead
<1>1. IInv => UntornRead
  BY DEF IInv, DoneInv, UntornRead
<1>2. QED
  BY <1>1, Invariant, PTL

(* A call during which the geometry did not change delivers a whole frame. *)
THEOREM WholeFrames == Spec => []WholeFrame
<1>1. IInv => WholeFrame
  <2> SUFFICES ASSUME IInv, NEW r \in Readers, Delivers(r), disturbed[r] = {}
               PROVE  /\ \A c \in Copied(r) : call[r].got[c] = FrameRead(r)
                      /\ ses[r].kind = "yuy2" =>
                           Want(r) = Yuy2Bytes(FrameRead(r).w, FrameRead(r).h)
    BY DEF WholeFrame
  <2> DEFINE f == FrameRead(r)
  <2>1. /\ ses[r].kind = "mjpeg" => f.len = call[r].len
        /\ \A c \in Copied(r) \cap FrameCells(f) : call[r].got[c] = f
        /\ ses[r].kind = "yuy2" => Want(r) = Yuy2Bytes(f.w, f.h)
    BY DEF IInv, DoneInv, Undisturbed
  <2>2. ses[r].kind \in {"yuy2", "mjpeg"}
    BY DEF IInv, TypeOK, Sessions
  <2> HIDE DEF f
  <2>3. Copied(r) \subseteq FrameCells(f)
    BY <2>1, <2>2 DEF Copied, FrameCells
  <2>4. QED
    BY <2>1, <2>3 DEF f
<1>2. QED
  BY <1>1, Invariant, PTL

(* No session goes back to an older frame, although frameId restarts.      *)
THEOREM InOrder == Spec => []FramesInOrder
<1>1. IInv => FramesInOrder
  <2> SUFFICES ASSUME IInv, NEW r \in Readers, Delivers(r), Undisturbed(r)
               PROVE  FrameRead(r).no > ses[r].shown.no
    BY DEF FramesInOrder
  <2>1. FrameRead(r).no \in Nat /\ ses[r].shown.no \in Nat
    BY DoneFrameType DEF IInv, TypeOK, Sessions, Frames
  <2>2. ses[r].shown.no < FrameRead(r).no
    BY DEF IInv, DoneInv
  <2>3. QED
    BY <2>1, <2>2
<1>2. QED
  BY <1>1, Invariant, PTL

(* Of a reader's steps only an accepted recheck changes what it was shown. *)
LEMMA ReaderShows ==
    ASSUME TypeOK, NEW r \in Readers, ReaderNext(r)
    PROVE  \/ /\ (Delivers(r) /\ Undisturbed(r))' <=> (Delivers(r) /\ Undisturbed(r))
              /\ ses'[r].shown = ses[r].shown
              /\ Delivers(r) /\ Undisturbed(r) => FrameRead(r)' = FrameRead(r)
           \/ /\ Delivers(r) /\ Undisturbed(r) /\ ~ Delivers(r)'
              /\ ses'[r].shown = FrameRead(r)
           \/ /\ Recheck(r) /\ Unmoved(r) /\ Delivers(r)' /\ Undisturbed(r)'
<1>a. ses[r] \in Sessions /\ ses \in [Readers -> Sessions]
  BY DEF TypeOK
<1>1. CASE Return(r)
  <2>1. rpc[r] = "done" /\ rpc'[r] = "idle"
    BY <1>1, ReaderMoves DEF Return
  <2>2. CASE Delivers(r)
    <3>1. ses'[r].shown = IF Undisturbed(r) THEN FrameRead(r) ELSE ses[r].shown
      BY <1>1, <1>a, <2>2 DEF Return, Kept, Sessions
    <3>2. QED
      BY <2>1, <2>2, <3>1 DEF Delivers
  <2>3. CASE ~ Delivers(r)
    BY <1>1, <2>1, <2>3 DEF Return, Delivers
  <2>4. QED
    BY <2>2, <2>3
<1>2. CASE Recheck(r) /\ Unmoved(r)
  BY <1>2 DEF Recheck, Delivers
<1>3. CASE TryOpen(r)
  <2>1. PICK k \in {"yuy2", "mjpeg"} : ses' = [ses EXCEPT ![r] = [ses[r] EXCEPT !.kind = k]]
    BY <1>3 DEF TryOpen
  <2>2. ses'[r].shown = ses[r].shown
    BY <1>a, <2>1 DEF Sessions
  <2>3. rpc[r] = "closed" /\ rpc'[r] = "idle"
    BY <1>3, ReaderMoves DEF TryOpen
  <2>4. QED
    BY <2>2, <2>3 DEF Delivers
<1>4. CASE \/ ReadFormat(r) \/ ReadFormatHeight(r) \/ CheckWidth(r) \/ CheckHeight(r)
           \/ LoadSeqOdd(r) \/ LoadSeq(r) \/ LoadFrameId(r) \/ LoadJpegLen(r)
           \/ (\E c \in Cells : CopyOut(r, c)) \/ (Recheck(r) /\ ~ Unmoved(r))
  <2>1. UNCHANGED ses /\ rpc[r] # "done" /\ rpc'[r] # "done"
    BY <1>4, ReaderMoves
       DEF ReadFormat, ReadFormatHeight, CheckWidth, CheckHeight, LoadSeqOdd, LoadSeq,
           LoadFrameId, LoadJpegLen, CopyOut, Recheck, TypeOK
  <2>2. QED
    BY <2>1 DEF Delivers
<1>5. QED
  BY <1>1, <1>2, <1>3, <1>4 DEF ReaderNext, InCall

(* The bus implements the register: closing a window is its write, an      *)
(* accepted recheck its read, and every other step a stutter.              *)
THEOREM Refinement == Spec => AtomicReads
<1> DEFINE shown(r) == IF Delivers(r) /\ Undisturbed(r) THEN FrameRead(r) ELSE ses[r].shown
           result   == [r \in Readers |-> shown(r)]
<1>1. Init => Register!Init
  <2> SUFFICES ASSUME Init PROVE Register!Init
    OBVIOUS
  <2>1. published = NoFrame
    BY DEF Init
  <2>2. \A r \in Readers : shown(r) = NoFrame
    BY DEF Init, Delivers
  <2>3. QED
    BY <2>1, <2>2 DEF Register!Init
<1>2. IInv /\ [Next]_vars => [Register!Next]_<<published, result>>
  <2> SUFFICES ASSUME IInv, [Next]_vars
               PROVE  [Register!Next]_<<published, result>>
    OBVIOUS
  <2>i. TypeOK /\ WriterInv
    BY DEF IInv
  <2>1. CASE WriterNext
    <3>1. UNCHANGED <<rpc, ses, call>>
      BY <2>1, WriterFrame DEF reader
    <3>2. \A r \in Readers : shown(r)' = shown(r)
      <4> SUFFICES ASSUME NEW r \in Readers PROVE shown(r)' = shown(r)
        OBVIOUS
      <4>1. Delivers(r) => (Undisturbed(r)' <=> Undisturbed(r))
        BY <2>i, <2>1, WriterDisturbs DEF Delivers, Undisturbed, Unfinished
      <4>2. (Delivers(r)' <=> Delivers(r)) /\ FrameRead(r)' = FrameRead(r)
        BY <3>1 DEF Delivers, FrameRead
      <4>3. QED
        BY <3>1, <4>1, <4>2
    <3>3. result' = result
      BY <3>2
    <3>4. CASE CloseWindow
      <4>1. published' = frame /\ published.no < frame.no
        BY <2>i, <3>4 DEF CloseWindow, WriterInv, WindowInv, Window
      <4>2. frame \in Frames /\ frame.no \in Nat /\ published.no \in Nat
        BY <2>i DEF TypeOK, Frames
      <4>3. Register!Write
        BY <3>3, <4>1, <4>2 DEF Register!Write
      <4>4. QED
        BY <4>3 DEF Register!Next
    <3>5. CASE ~ CloseWindow
      <4>1. published' = published
        BY <2>1, <3>5 DEF WriterNext, InWindow, Publish, PublishWithJpeg, UpdateFormat,
             StoreWidth, StoreHeight, CopyIn, StoreJpegLen, BumpFrameId, Create, ZeroField,
             StoreNewWidth, StoreNewHeight, StoreMagic, Crash
      <4>2. QED
        BY <3>3, <4>1
    <3>6. QED
      BY <3>4, <3>5
  <2>2. ASSUME NEW r \in Readers, ReaderNext(r)
        PROVE  [Register!Next]_<<published, result>>
    <3>1. UNCHANGED published
      BY <2>i, <2>2, ReaderFrame DEF writer
    <3>2. \A s \in Readers \ {r} : shown(s)' = shown(s)
      <4> SUFFICES ASSUME NEW s \in Readers \ {r} PROVE shown(s)' = shown(s)
        OBVIOUS
      <4>1. rpc'[s] = rpc[s] /\ call'[s] = call[s] /\ ses'[s] = ses[s]
            /\ disturbed'[s] = disturbed[s]
        BY <2>i, <2>2, ReaderFrame
      <4>2. QED
        BY <4>1 DEF Delivers, Undisturbed, FrameRead
    <3>3. CASE shown(r)' = shown(r)
      <4>1. result' = result
        BY <3>2, <3>3
      <4>2. QED
        BY <3>1, <4>1
    <3>4. CASE shown(r)' # shown(r)
      <4>1. Recheck(r) /\ Unmoved(r) /\ Delivers(r)' /\ Undisturbed(r)'
        BY <2>i, <2>2, <3>4, ReaderShows
      <4>2. /\ rpc[r] = "copy" /\ call[r].todo = {} /\ UNCHANGED <<ses, call, disturbed>>
        BY <4>1 DEF Recheck
      <4>3. Undisturbed(r) /\ (ses[r].kind = "yuy2" \/ call[r].len # 0)
            /\ FrameRead(r)' = FrameRead(r)
        BY <4>1, <4>2 DEF Delivers, Undisturbed, FrameRead
      <4>4. FrameRead(r) = frame /\ published = frame /\ ses[r].shown.no < frame.no
        BY <4>1, <4>2, <4>3, AcceptedCopy DEF IInv
      <4>5. shown(r) = ses[r].shown /\ shown(r)' = published
        BY <4>1, <4>2, <4>3, <4>4 DEF Delivers
      <4>6. result' = [result EXCEPT ![r] = published]
        BY <3>2, <4>5
      <4>7. published.no > result[r].no
        BY <2>i, <4>4, <4>5 DEF TypeOK, Frames, Sessions
      <4>8. Register!Read(r)
        BY <3>1, <4>6, <4>7 DEF Register!Read
      <4>9. QED
        BY <4>8 DEF Register!Next
    <3>5. QED
      BY <3>3, <3>4
  <2>3. CASE UNCHANGED vars
    <3>1. UNCHANGED <<published, rpc, call, ses, disturbed>>
      BY <2>3 DEF vars, writer, reader
    <3>2. result' = result
      BY <3>1 DEF Delivers, Undisturbed, FrameRead
    <3>3. QED
      BY <3>1, <3>2
  <2>4. QED
    BY <2>1, <2>2, <2>3 DEF Next
<1>3. QED
  BY <1>1, <1>2, Invariant, PTL DEF Spec, AtomicReads, Register!Spec

(***************************************************************************)
(* What a reader turns away.                                               *)
(***************************************************************************)

(* frameId tells a session whether it has had the frame of the bus: as     *)
(* long as there has been no second host, a call that finds the frameId it *)
(* consumed last has been shown the frame published last.                  *)
SkipsOnlyShown ==
    \A r \in Readers :
        created <= 1 /\ rpc[r] = "id" /\ frameId # 0 /\ Stale(r, frameId)
            => ses[r].shown = published

(* In the first host's time the ids are the numbers of the frames, ...     *)
FirstHostInv ==
    /\ wpc \in {"idle", "close"} => frameId = opened
    /\ wpc \in {"width", "height", "copy", "id"} => frameId + 1 = opened
    /\ created = 0 => wpc = "down"
    /\ Creating \/ created = 0 => frameId = 0 /\ opened = 0
    /\ frame.id = frame.no
    /\ frameId = 0 \/ published.no <= frameId

(* ... no reader has seen a section being created, and a session remembers *)
(* the id of what it was shown last.                                       *)
FirstSessionInv(r) ==
    /\ Creating \/ created = 0 => rpc[r] = "closed" /\ ~magic
    /\ Undisturbed(r)
    /\ ses[r].last = ses[r].shown.no
    /\ ses[r].shown.no = published.no => ses[r].shown = published
    /\ Delivers(r) =>
         LET f == FrameRead(r)
         IN  call[r].id = f.no /\ (f.no = published.no => f = published)

FirstInv == created <= 1 => FirstHostInv /\ \A r \in Readers : FirstSessionInv(r)

(* The first host's windows number frames and ids alike.                   *)
LEMMA WriterFirstHost ==
    ASSUME TypeOK, WriterInv, FirstHostInv, created <= 1, created' <= 1, WriterNext
    PROVE  FirstHostInv'
<1>t. /\ published.no \in Nat /\ frame.no \in Nat /\ opened \in Nat /\ frameId \in Nat
      /\ created \in Nat /\ published.no <= opened
  BY LayoutTypes DEF TypeOK, Frames, WriterInv, NumberInv
<1>1. ASSUME NEW w, NEW h, NEW len, NEW next, OpenWindow(w, h, len, next),
             next \in {"copy", "width"}, UNCHANGED <<frameId, created, published>>
      PROVE  FirstHostInv'
  <2>1. /\ wpc = "idle" /\ opened' = opened + 1 /\ wpc' = next
        /\ frame'.no = opened + 1 /\ frame'.id = frameId + 1
    BY <1>1 DEF OpenWindow
  <2>2. QED
    BY <1>1, <1>t, <2>1 DEF FirstHostInv, Creating
<1>2. CASE Publish \/ (\E len \in 0 .. MaxJpeg + 1 : PublishWithJpeg(len))
           \/ \E f \in Formats : UpdateFormat(f)
  BY <1>1, <1>2 DEF Publish, PublishWithJpeg, UpdateFormat
<1>3. CASE \E f \in Formats : Create(f)
  <2>1. /\ created = 0 /\ wpc' = "zero" /\ frame'.id = 0 /\ frame'.no = 0
        /\ UNCHANGED <<frameId, opened, published>> /\ created' = 1
    BY <1>3, <1>t DEF Create, EmptyFrame, section
  <2>2. QED
    BY <2>1 DEF FirstHostInv
<1>4. CASE StoreWidth \/ StoreHeight \/ (\E c \in Cells : CopyIn(c)) \/ StoreJpegLen
  BY <1>4 DEF StoreWidth, StoreHeight, CopyIn, StoreJpegLen, FirstHostInv, Creating
<1>5. CASE BumpFrameId
  BY <1>5, <1>t DEF BumpFrameId, FirstHostInv, Creating
<1>6. CASE CloseWindow
  <2>1. frame.no = opened /\ frameId = opened
    BY <1>6 DEF CloseWindow, FirstHostInv, WriterInv, WindowInv, Window
  <2>2. QED
    BY <1>6, <1>t, <2>1 DEF CloseWindow, FirstHostInv, Creating
<1>7. CASE (\E x \in HeaderFields : ZeroField(x)) \/ StoreNewWidth \/ StoreNewHeight \/ StoreMagic
  BY <1>7, <1>t DEF ZeroField, StoreNewWidth, StoreNewHeight, StoreMagic, FirstHostInv, Creating
<1>8. CASE Crash
  <2>1. /\ wpc # "down" /\ created' = created /\ UNCHANGED <<opened, published>>
        /\ \/ wpc' = "down" /\ frameId' = 0 /\ frame' = NoFrame
           \/ wpc' = "aborted" /\ Creating /\ UNCHANGED <<frameId, frame>>
           \/ wpc' = "down" /\ UNCHANGED <<frameId, frame>>
    BY <1>8 DEF Crash, section, Dead
  <2>2. created # 0
    BY <2>1 DEF FirstHostInv
  <2>3. QED
    BY <2>1, <2>2 DEF FirstHostInv, Creating, NoFrame, EmptyFrame
<1>9. QED
  BY <1>2, <1>3, <1>4, <1>5, <1>6, <1>7, <1>8 DEF WriterNext, InWindow

(* A new frame is newer than what any session was shown.                   *)
LEMMA WriterFirstSession ==
    ASSUME TypeOK, WriterInv, FirstHostInv, created <= 1, created' <= 1, WriterNext,
           NEW r \in Readers, AskedInv(r), ShownInv(r), DoneInv(r), FirstSessionInv(r)
    PROVE  FirstSessionInv(r)'
<1>t. /\ published.no \in Nat /\ frame.no \in Nat /\ opened \in Nat /\ created \in Nat
      /\ ses[r].shown.no \in Nat /\ disturbed \in [Readers -> SUBSET {"created", "resized"}]
  BY LayoutTypes DEF TypeOK, Frames, Sessions
<1>1. UNCHANGED <<rpc, ses, call>>
  BY WriterFrame DEF reader
<1>2. Undisturbed(r)'
  <2>1. CASE \E f \in Formats : Create(f)
    <3>1. created = 0
      BY <1>t, <2>1 DEF Create
    <3>2. rpc[r] = "closed"
      BY <3>1 DEF FirstSessionInv
    <3>3. QED
      BY <1>t, <2>1, <3>2 DEF Create, Disturb, Unfinished, FirstSessionInv, Undisturbed
  <2>2. CASE \E f \in Formats : UpdateFormat(f)
    BY <1>t, <2>2 DEF UpdateFormat, Disturb, FirstSessionInv, Undisturbed
  <2>3. CASE UNCHANGED disturbed
    BY <2>3 DEF FirstSessionInv, Undisturbed
  <2>4. QED
    BY <2>1, <2>2, <2>3
       DEF WriterNext, InWindow, Publish, PublishWithJpeg, StoreWidth, StoreHeight, CopyIn,
           StoreJpegLen, BumpFrameId, CloseWindow, ZeroField, StoreNewWidth, StoreNewHeight,
           StoreMagic, Crash
<1>3. (Creating \/ created = 0)' => rpc[r] = "closed" /\ ~ magic'
  <2>1. CASE \E f \in Formats : Create(f)
    <3>1. created = 0 /\ UNCHANGED magic
      BY <1>t, <2>1 DEF Create, section
    <3>2. QED
      BY <3>1 DEF FirstSessionInv
  <2>2. ASSUME ~ \E f \in Formats : Create(f), (Creating \/ created = 0)'
        PROVE  /\ Creating \/ created = 0
               /\ magic' => magic
    BY <2>2, <1>t
       DEF Creating, WriterNext, InWindow, Publish, PublishWithJpeg, UpdateFormat, OpenWindow,
           StoreWidth, StoreHeight, CopyIn, StoreJpegLen, BumpFrameId, CloseWindow, ZeroField,
           StoreNewWidth, StoreNewHeight, StoreMagic, Crash, FirstHostInv, section, Dead
  <2>3. QED
    BY <2>1, <2>2 DEF FirstSessionInv
<1>4. UNCHANGED published \/ (published'.no \in Nat /\ published'.no > published.no)
  <2>1. CASE CloseWindow
    BY <1>t, <2>1 DEF CloseWindow, WriterInv, WindowInv, Window
  <2>2. CASE ~ CloseWindow
    BY <2>2 DEF WriterNext, InWindow, Publish, PublishWithJpeg, UpdateFormat,
         StoreWidth, StoreHeight, CopyIn, StoreJpegLen, BumpFrameId, Create, ZeroField,
         StoreNewWidth, StoreNewHeight, StoreMagic, Crash
  <2>3. QED
    BY <2>1, <2>2
<1>5. ses[r].shown.no = published'.no => ses[r].shown = published'
  BY <1>t, <1>4 DEF ShownInv, FirstSessionInv
<1>6. Delivers(r) => (FrameRead(r).no = published'.no => FrameRead(r) = published')
  <2> SUFFICES ASSUME Delivers(r) PROVE FrameRead(r).no = published'.no
                                          => FrameRead(r) = published'
    OBVIOUS
  <2> DEFINE f == FrameRead(r)
  <2>1. f.no \in Nat
    <3>1. f \in Frames
      BY DoneFrameType
    <3>2. QED
      BY <3>1, LayoutTypes DEF Frames
  <2>2. f.no <= published.no /\ (f.no = published.no => f = published)
    BY DEF DoneInv, FirstSessionInv
  <2> HIDE DEF f
  <2>3. f.no = published'.no => f = published'
    BY <1>t, <1>4, <2>1, <2>2
  <2>4. QED
    BY <2>3 DEF f
<1>7. /\ Delivers(r)' <=> Delivers(r)
      /\ FrameRead(r)' = FrameRead(r)
  BY <1>1 DEF Delivers, FrameRead
<1>8. QED
  BY <1>1, <1>2, <1>3, <1>5, <1>6, <1>7 DEF FirstSessionInv

(* Only what has been accepted is remembered, with the frame's own id.     *)
LEMMA ReaderFirstSession ==
    ASSUME TypeOK, WriterInv, FirstHostInv, NEW r \in Readers, ReaderNext(r),
           AskedInv(r), KindInv(r), CallInv(r), SizeInv(r), ShownInv(r), DoneInv(r),
           FirstSessionInv(r)
    PROVE  FirstSessionInv(r)'
<1>a. /\ ses[r] \in Sessions /\ ses \in [Readers -> Sessions] /\ magic \in BOOLEAN
      /\ disturbed \in [Readers -> SUBSET {"created", "resized"}]
  BY DEF TypeOK
<1>b. UNCHANGED <<magic, wpc, created, frame, published>> /\ (Creating' <=> Creating)
  BY ReaderFrame DEF writer, section, Creating
<1>c. ~ Creating /\ created # 0
  <2>1. rpc[r] # "closed" \/ magic
    BY DEF ReaderNext, InCall, TryOpen, ReadFormat, ReadFormatHeight, CheckWidth, CheckHeight,
           LoadSeqOdd, LoadSeq, LoadFrameId, LoadJpegLen, CopyOut, Recheck, Return
  <2>2. QED
    BY <2>1 DEF FirstSessionInv
<1>1. CASE Return(r)
  <2>1. rpc[r] = "done" /\ rpc'[r] = "idle" /\ disturbed'[r] = {}
    BY <1>1, ReaderMoves DEF Return
  <2>2. CASE Delivers(r)
    <3>1. ses'[r].shown = FrameRead(r) /\ ses'[r].last = call[r].id
      BY <1>1, <1>a, <2>2 DEF Return, Kept, Sessions, FirstSessionInv
    <3>2. QED
      BY <1>b, <1>c, <2>1, <2>2, <3>1 DEF FirstSessionInv, Delivers, Undisturbed
  <2>3. CASE ~ Delivers(r)
    <3>1. UNCHANGED ses
      BY <1>1, <2>3 DEF Return
    <3>2. QED
      BY <1>b, <1>c, <2>1, <3>1 DEF FirstSessionInv, Delivers, Undisturbed
  <2>4. QED
    BY <2>2, <2>3
<1>2. CASE Recheck(r) /\ Unmoved(r)
  <2>1. /\ rpc[r] = "copy" /\ call[r].todo = {} /\ rpc'[r] = "done"
        /\ UNCHANGED <<ses, call, disturbed>>
    BY <1>2, ReaderMoves DEF Recheck
  <2>2. ASSUME ses[r].kind = "yuy2" \/ call[r].len # 0
        PROVE  FrameRead(r) = published /\ call[r].id = published.no
    <3>1. FrameRead(r) = frame /\ published = frame /\ frame.id = call[r].id
      BY <1>2, <2>1, <2>2, AcceptedCopy DEF FirstSessionInv
    <3>2. QED
      BY <3>1 DEF FirstHostInv
  <2>3. FrameRead(r)' = FrameRead(r)
    BY <2>1 DEF FrameRead
  <2>4. QED
    BY <1>b, <1>c, <2>1, <2>2, <2>3 DEF FirstSessionInv, Delivers, Undisturbed
<1>3. CASE TryOpen(r)
  <2>1. PICK k \in {"yuy2", "mjpeg"} : ses' = [ses EXCEPT ![r] = [ses[r] EXCEPT !.kind = k]]
    BY <1>3 DEF TryOpen
  <2>2. ses'[r].last = ses[r].last /\ ses'[r].shown = ses[r].shown
    BY <1>a, <2>1 DEF Sessions
  <2>3. rpc'[r] = "idle" /\ UNCHANGED disturbed
    BY <1>3, ReaderMoves DEF TryOpen
  <2>4. QED
    BY <1>b, <1>c, <2>2, <2>3 DEF FirstSessionInv, Delivers, Undisturbed
<1>4. CASE \/ ReadFormat(r) \/ ReadFormatHeight(r) \/ CheckWidth(r) \/ CheckHeight(r)
           \/ LoadSeqOdd(r) \/ LoadSeq(r) \/ LoadFrameId(r) \/ LoadJpegLen(r)
           \/ (\E c \in Cells : CopyOut(r, c)) \/ (Recheck(r) /\ ~ Unmoved(r))
  <2>1. UNCHANGED ses /\ rpc'[r] # "done"
    BY <1>4, ReaderMoves
       DEF ReadFormat, ReadFormatHeight, CheckWidth, CheckHeight, LoadSeqOdd, LoadSeq,
           LoadFrameId, LoadJpegLen, CopyOut, Recheck, TypeOK
  <2>2. "created" \notin disturbed'[r]
    <3>1. CASE UNCHANGED disturbed \/ disturbed'[r] = {}
      BY <3>1 DEF FirstSessionInv, Undisturbed
    <3>2. CASE CheckWidth(r) \/ LoadSeq(r)
      BY <1>a, <1>c, <3>2, ReaderMoves DEF CheckWidth, LoadSeq, FirstSessionInv, Undisturbed
    <3>3. QED
      BY <1>4, <3>1, <3>2, ReaderMoves
         DEF ReadFormat, ReadFormatHeight, CheckHeight, LoadSeqOdd, LoadFrameId, LoadJpegLen,
             CopyOut, Recheck
  <2>3. QED
    BY <1>b, <1>c, <2>1, <2>2 DEF FirstSessionInv, Delivers, Undisturbed
<1>5. QED
  BY <1>1, <1>2, <1>3, <1>4 DEF ReaderNext, InCall

(* "giving up here never drops a frame permanently" (FrameBus.h:421-423):  *)
(* until a second host comes, a call takes the frame of the bus for one it *)
(* has had only if its session was shown that very frame.                  *)
THEOREM NothingSkipped == Spec => []SkipsOnlyShown
<1>1. Init => FirstInv
  BY DEF Init, FirstInv, FirstHostInv, FirstSessionInv, Creating, Undisturbed, Delivers,
         NoFrame, EmptyFrame
<1>2. IInv /\ FirstInv /\ [Next]_vars => FirstInv'
  <2> SUFFICES ASSUME IInv, FirstInv, [Next]_vars, created' <= 1 PROVE FirstInv'
    BY DEF FirstInv
  <2>t. TypeOK /\ WriterInv /\ created \in Nat
    BY DEF IInv, TypeOK
  <2>1. CASE WriterNext
    <3>1. created <= 1
      <4>1. created' = created \/ created' = created + 1
        BY <2>1 DEF WriterNext, InWindow, Publish, PublishWithJpeg, UpdateFormat, Create,
             StoreWidth, StoreHeight, CopyIn, StoreJpegLen, BumpFrameId, CloseWindow,
             ZeroField, StoreNewWidth, StoreNewHeight, StoreMagic, Crash
      <4>2. QED
        BY <2>t, <4>1
    <3>2. FirstHostInv'
      BY <2>t, <2>1, <3>1, WriterFirstHost DEF FirstInv
    <3>3. \A r \in Readers : FirstSessionInv(r)'
      BY <2>t, <2>1, <3>1, WriterFirstSession DEF FirstInv, IInv
    <3>4. QED
      BY <3>2, <3>3 DEF FirstInv
  <2>2. ASSUME NEW r \in Readers, ReaderNext(r)
        PROVE  FirstInv'
    <3>1. UNCHANGED <<section, writer>>
      BY <2>t, <2>2, ReaderFrame
    <3>2. FirstHostInv /\ \A s \in Readers : FirstSessionInv(s)
      BY <3>1 DEF FirstInv, writer
    <3>3. FirstHostInv'
      BY <3>1, <3>2 DEF FirstHostInv, Creating, section, writer
    <3>4. FirstSessionInv(r)'
      BY <2>t, <2>2, <3>2, ReaderFirstSession DEF IInv
    <3>5. ASSUME NEW s \in Readers \ {r} PROVE FirstSessionInv(s)'
      <4>1. /\ rpc'[s] = rpc[s] /\ call'[s] = call[s] /\ ses'[s] = ses[s]
            /\ disturbed'[s] = disturbed[s]
        BY <2>t, <2>2, ReaderFrame
      <4>2. QED
        BY <3>1, <3>2, <4>1 DEF FirstSessionInv, Delivers, Undisturbed, FrameRead, Creating,
                                section, writer
    <3>6. QED
      BY <3>3, <3>4, <3>5 DEF FirstInv
  <2>3. CASE UNCHANGED vars
    BY <2>3 DEF vars, section, writer, reader, FirstInv, FirstHostInv, FirstSessionInv,
                Creating, Undisturbed, Delivers, FrameRead
  <2>4. QED
    BY <2>1, <2>2, <2>3 DEF Next
<1>3. IInv /\ FirstInv => SkipsOnlyShown
  <2> SUFFICES ASSUME IInv, FirstInv, NEW r \in Readers, created <= 1, rpc[r] = "id",
                      frameId # 0, Stale(r, frameId)
               PROVE  ses[r].shown = published
    BY DEF SkipsOnlyShown
  <2>1. frameId = ses[r].shown.no /\ published.no <= frameId
    BY DEF FirstInv, FirstHostInv, FirstSessionInv, Stale
  <2>2. ses[r].shown.no <= published.no /\ published.no \in Nat /\ frameId \in Nat
    BY LayoutTypes DEF IInv, ShownInv, TypeOK, Frames
  <2>3. QED
    BY <2>1, <2>2 DEF FirstInv, FirstSessionInv
<1>4. QED
  BY <1>1, <1>2, <1>3, Invariant, PTL DEF Spec
=============================================================================
