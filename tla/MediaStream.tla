---------------------------- MODULE MediaStream ----------------------------
(***************************************************************************)
(* The media source a client talks to (src/source/VCamSource.cpp): a       *)
(* MediaSource with its one MediaStream for every client of a slot,        *)
(* activated through src/source/dllmain.cpp, all of them fed from one      *)
(* frame bus and sharing one consumer mask.  Frame Server threads start,   *)
(* stop and shut a stream down while others are inside RequestSample.  A   *)
(* step is what happens under one hold of _lock or one look at the bus:    *)
(* the host can open its window between any two of them.                   *)
(*                                                                         *)
(* A picture is the id of the frame it was copied from (0: black), or Torn *)
(* if it is no whole frame, which is what the properties tell apart of it. *)
(* The seqlock itself is FrameBus.tla; here a copy is accepted iff no      *)
(* window was opened since its seq was loaded.  A size changes with the    *)
(* opening of its window: what is read of the old one inside a window      *)
(* might as well have been read before it.                                 *)
(***************************************************************************)
EXTENDS Integers, Sequences, Folds, Functions

CONSTANTS
    Streams,        \* MediaSource objects (each with its MediaStream) of one slot
    Requesters,     \* threads that call RequestSample
    StreamOf,       \* the stream each of them calls
    Modes,          \* ColdBlock modes: a sequence of [size, formats]
    DefaultFormat,  \* ColdBlock defaultFormat
    MaxAttempts,    \* TryReadNewer's bounded spin (64)
    MaxFrames,      \* bound: windows the host opens
    MaxRuns,        \* bound: Starts, of all streams together
    None

SubtypeOrder == <<"nv12", "yuy2", "mjpg">>   \* kFmts
Subtypes == {SubtypeOrder[i] : i \in 1 .. 3}

ASSUME MediaAssumption ==
    /\ StreamOf \in [Requesters -> Streams]
    /\ Modes # <<>> /\ \A i \in DOMAIN Modes : Modes[i].formats \in SUBSET Subtypes \ {{}}
    /\ DefaultFormat \in Subtypes
    /\ MaxAttempts \in Nat \ {0} /\ MaxFrames \in Nat /\ MaxRuns \in Nat
    /\ None \notin Streams

VARIABLES
    source,       \* per MediaSource: "none" before it is activated, "live", "shutdown"
    stream,       \* the MediaStream's fields
    staging,      \* _staging: the buffers somebody still refers to, by run
    jpegStaging,  \* _jpegStaging
    call,         \* per requester: its RequestSample
    bus,          \* the frame bus
    consumerMask, \* the one word of the slot's ControlBus
    seen,         \* history: newest frame of its own a run's client was sent
    shown,        \* history: the picture it was sent then
    disturbed     \* history: a call of an earlier run has stored its frame id

vars == <<source, stream, staging, jpegStaging, call, bus, consumerMask,
          seen, shown, disturbed>>
history == <<seen, shown, disturbed>>
-----------------------------------------------------------------------------
Sizes == {Modes[i].size : i \in DOMAIN Modes}
MediaTypes == [sub: Subtypes, size: Sizes]
Frames == 0 .. MaxFrames
Black == 0
Torn == -1

(* One type per mode and per format of its mask.                           *)
Advertised == {ty \in MediaTypes :
    \E i \in DOMAIN Modes : Modes[i].size = ty.size /\ ty.sub \in Modes[i].formats}

(* The bus geometry in the default format if that is advertised, else the  *)
(* first type of the list.                                                 *)
DefaultType(size) ==
    LET wanted == [sub |-> DefaultFormat, size |-> size]
        first  == CHOOSE i \in 1 .. 3 :
                     /\ SubtypeOrder[i] \in Modes[1].formats
                     /\ \A j \in 1 .. (i - 1) : SubtypeOrder[j] \notin Modes[1].formats
    IN  IF wanted \in Advertised THEN wanted
        ELSE [sub |-> SubtypeOrder[first], size |-> Modes[1].size]

(* The mask bit of a subtype is the subtype; None is mask 0.               *)
ConsumerBitForSubtype(sub) == sub

Running(s) == stream[s].running

(* A call that owns _deliverLock holds a reference to its run's buffer.    *)
InDelivery == {"poll", "format", "check", "attempt", "copy", "wait", "queue"}
Delivering(t) == call[t].pc \in InDelivery

\* The locals of a call: its run and type; the size and the last id it read before it
\* went to the bus, the attempts made there, and the bus as the latest found it.
Idle == [pc |-> "idle", run |-> 0, type |-> None, size |-> None, last |-> 0, attempt |-> 0,
         from |-> None, fresh |-> FALSE]

HeldRuns(s, calls) ==
    {calls[t].run : t \in {u \in Requesters : StreamOf[u] = s /\ calls[u].pc \in InDelivery}}

KeptUncleared(s, run, calls) ==                                 \* mutant
    [r \in {run} \cup HeldRuns(s, calls) |->
        IF r \in DOMAIN staging[s] THEN staging[s][r] ELSE staging[s][stream[s].run]]

(* What stays allocated once the references are those of calls and run.    *)
Kept(s, run, calls) ==
    [r \in {run} \cup HeldRuns(s, calls) |->
        IF r \in DOMAIN staging[s] THEN staging[s][r] ELSE Black]

Init ==
    /\ source = [s \in Streams |-> "none"]
    /\ stream = [s \in Streams |-> [running |-> FALSE, run |-> 0, type |-> None,
                                    consumer |-> None, last |-> 0, jpeg |-> FALSE]]
    /\ staging = [s \in Streams |-> [r \in {0} |-> Black]]
    /\ jpegStaging = [s \in Streams |-> Black]
    /\ call = [t \in Requesters |-> Idle]
    /\ bus \in [id: {0}, size: Sizes, jpeg: {FALSE}, open: {FALSE}]
    /\ consumerMask = None
    /\ seen = [s \in Streams |-> 0]
    /\ shown = [s \in Streams |-> Black]
    /\ disturbed = [s \in Streams |-> FALSE]
-----------------------------------------------------------------------------
(* The client's control calls.                                             *)

(* Initialize of source and stream: the bus is open (the host publishes it *)
(* before it registers the virtual camera), the default type is chosen.    *)
Initialize(s) == stream' = [stream EXCEPT ![s].type = DefaultType(bus.size)]

ActivateObject(s) ==
    /\ source[s] = "none" /\ ~bus.open
    /\ Initialize(s)
    /\ source' = [source EXCEPT ![s] = "live"]
    /\ UNCHANGED <<staging, jpegStaging, call, bus, consumerMask, history>>

(* The ping opens the slot's control section the first time it is called,  *)
(* which is in the first Start: every ping re-asserts the mask.            *)
PingOnStartOnly(consumer, force) ==                             \* mutant
    consumerMask' = IF force THEN consumer ELSE consumerMask
PingActivity(consumer, force) == consumerMask' = consumer
PingOpen(s) == stream[s].run > 0

(* MediaStream::Start with the type the client has set on the stream       *)
(* descriptor's handler.  The staging buffer is replaced, not cleared: a   *)
(* call in flight keeps the one it has.                                    *)
StartedKeepingLast(s, ty) ==                                    \* mutant
    [stream[s] EXCEPT !.running = TRUE, !.run = @ + 1, !.type = ty,
                      !.consumer = ConsumerBitForSubtype(ty.sub)]
Started(s, ty) ==
    [stream[s] EXCEPT !.running = TRUE, !.run = @ + 1, !.type = ty,
                      !.consumer = ConsumerBitForSubtype(ty.sub), !.last = 0]

StreamStart(s, ty) ==
    /\ FoldFunction(LAMBDA st, n : st.run + n, 0, stream) < MaxRuns
    /\ stream' = [stream EXCEPT ![s] = Started(s, ty)]
    /\ staging' = [staging EXCEPT ![s] = Kept(s, stream[s].run + 1, call)]
    /\ PingActivity(ConsumerBitForSubtype(ty.sub), TRUE)
    /\ seen' = [seen EXCEPT ![s] = 0]
    /\ shown' = [shown EXCEPT ![s] = Black]
    /\ disturbed' = [disturbed EXCEPT ![s] = FALSE]
    /\ UNCHANGED <<source, jpegStaging, call, bus>>

Stopped(s) == [stream[s] EXCEPT !.running = FALSE, !.consumer = None]

MaskCleared(s) == consumerMask' = IF PingOpen(s) THEN None ELSE consumerMask

StreamStop(s) ==
    /\ stream' = [stream EXCEPT ![s] = Stopped(s)]
    /\ MaskCleared(s)
    /\ UNCHANGED <<source, staging, jpegStaging, call, bus, history>>

(* MediaSource::Start and Stop, and SetStreamState: the source's own state *)
(* is only ever tested for Shutdown, which the stream tests again.         *)
SourceStart(s) == source[s] = "live" /\ \E ty \in Advertised : StreamStart(s, ty)
SourceStop(s)  == source[s] = "live" /\ StreamStop(s)

(* Source and stream go together, under the source's lock.                 *)
SourceShutdown(s) ==
    /\ source[s] = "live"
    /\ source' = [source EXCEPT ![s] = "shutdown"]
    /\ stream' = [stream EXCEPT ![s] = Stopped(s)]
    /\ MaskCleared(s)
    /\ UNCHANGED <<staging, jpegStaging, call, bus, history>>
-----------------------------------------------------------------------------
(* RequestSample and DeliverSample of requester t.                         *)

Return(t) == [call EXCEPT ![t] = Idle]

\* What it read in an earlier round it does not look at again.
Goto(t, pc) ==
    [call EXCEPT ![t] = [Idle EXCEPT !.pc = pc, !.run = call[t].run, !.type = call[t].type]]

(* Return drops the call's reference to its staging buffer.                *)
Released(t) == LET s == StreamOf[t] IN
    [staging EXCEPT ![s] = Kept(s, stream[s].run, Return(t))]

RequestSample(t) == LET s == StreamOf[t] IN
    /\ call[t].pc = "idle" /\ Running(s)
    /\ PingActivity(stream[s].consumer, FALSE)
    /\ call' = Goto(t, "lock")
    /\ UNCHANGED <<source, stream, staging, jpegStaging, bus, history>>

Unlocked(t) == TRUE                                             \* mutant
DeliverLockFree(t) == \A u \in Requesters : StreamOf[u] = StreamOf[t] => ~Delivering(u)

TakeDeliverLock(t) == LET s == StreamOf[t] IN
    /\ call[t].pc = "lock" /\ DeliverLockFree(t)
    /\ call' = IF Running(s)
               THEN [call EXCEPT ![t].pc = "poll", ![t].run = stream[s].run,
                                 ![t].type = stream[s].type]
               ELSE Return(t)
    /\ UNCHANGED <<source, stream, staging, jpegStaging, bus, consumerMask,
                   history>>

(* A JPEG cannot be rescaled.                                              *)
Usable(ty, size) == ty.sub = "mjpg" => ty.size = size

(* The top of the loop: the state check under _lock.                       *)
Poll(t) ==
    /\ call[t].pc = "poll"
    /\ IF Running(StreamOf[t])
       THEN call' = Goto(t, "format") /\ UNCHANGED staging
       ELSE call' = Return(t) /\ staging' = Released(t)
    /\ UNCHANGED <<source, stream, jpegStaging, bus, consumerMask, history>>

ReadFormat(t) ==
    /\ call[t].pc = "format"
    /\ call' = IF Usable(call[t].type, bus.size)
               THEN [call EXCEPT ![t].pc = "check", ![t].size = bus.size,
                                 ![t].last = stream[StreamOf[t]].last]
               ELSE Goto(t, "wait")
    /\ UNCHANGED <<source, stream, staging, jpegStaging, bus, consumerMask, history>>

(* TryReadNewer compares sizes once, by the bytes a picture takes ...      *)
CheckSize(t) ==
    /\ call[t].pc = "check"
    /\ call' = IF bus.size = call[t].size
               THEN [call EXCEPT ![t].pc = "attempt"] ELSE Goto(t, "wait")
    /\ UNCHANGED <<source, stream, staging, jpegStaging, bus, consumerMask, history>>

(* ... and then tries again, a bounded number of times.                    *)
Again(t) ==
    IF call[t].attempt + 1 < MaxAttempts
    THEN [call EXCEPT ![t].pc = "attempt", ![t].attempt = @ + 1, ![t].from = None]
    ELSE Goto(t, "wait")

\* The load of seqBefore: it cannot start a copy inside a window.
Attempt(t) ==
    /\ call[t].pc = "attempt"
    /\ call' = IF bus.open THEN Again(t)
               ELSE [call EXCEPT ![t].pc = "copy", ![t].from = bus]
    /\ UNCHANGED <<source, stream, staging, jpegStaging, bus, consumerMask, history>>

Known(t) == call[t].from.id \in {0, call[t].last}

\* frameId is loaded after seqBefore: a window may have opened, and not touched it yet.
NothingNew(t) ==
    /\ call[t].pc = "copy" /\ Known(t)
    /\ call' = Goto(t, "wait")
    /\ UNCHANGED <<source, stream, staging, jpegStaging, bus, consumerMask, history>>

(* The host has not touched the bus since the attempt began.               *)
Untorn(t) == bus = call[t].from

(* What an accepted copy is.  A JPEG is whole, whatever its size; of a     *)
(* YUY2 frame of another size than the one read it is a part, or has with  *)
(* it what an earlier frame left behind.                                   *)
SizeKept(t) == call[t].type.sub = "mjpg" \/ call[t].from.size = call[t].size
Accepted(t) == IF SizeKept(t) THEN bus.id ELSE Torn

Copied(t, picture) == LET s == StreamOf[t] IN
    IF call[t].type.sub = "mjpg"
    THEN jpegStaging' = [jpegStaging EXCEPT ![s] = picture] /\ UNCHANGED staging
    ELSE staging' = [staging EXCEPT ![s][call[t].run] = picture] /\ UNCHANGED jpegStaging

ConsumedUnscaled(t) == LET s == StreamOf[t] IN                  \* mutant
    IF call[t].type.size # call[t].size THEN stream
    ELSE [stream EXCEPT ![s].last = bus.id, ![s].jpeg = @ \/ call[t].type.sub = "mjpg"]
Consumed(t) == LET s == StreamOf[t] IN
    [stream EXCEPT ![s].last = bus.id, ![s].jpeg = @ \/ call[t].type.sub = "mjpg"]

Accept(t) == LET s == StreamOf[t] IN
    /\ call[t].pc = "copy" /\ Untorn(t) /\ ~Known(t)
    /\ call[t].type.sub = "mjpg" => bus.jpeg
    /\ Copied(t, Accepted(t))
    /\ stream' = Consumed(t)
    /\ call' = [call EXCEPT ![t].pc = "queue", ![t].last = 0, ![t].attempt = 0,
                            ![t].fresh = TRUE]
    /\ disturbed' = [disturbed EXCEPT ![s] = @ \/ call[t].run # stream[s].run]
    /\ UNCHANGED <<source, bus, consumerMask, seen, shown>>

(* An accepted copy of a frame without a sidecar is no picture for an      *)
(* MJPEG client.                                                           *)
NoSidecar(t) ==
    /\ call[t].pc = "copy" /\ Untorn(t) /\ ~Known(t)
    /\ call[t].type.sub = "mjpg" /\ ~bus.jpeg
    /\ call' = Goto(t, "wait")
    /\ UNCHANGED <<source, stream, staging, jpegStaging, bus, consumerMask,
                   history>>

(* A picture of the client's size is copied straight into its buffer, torn *)
(* or not (no JPEG, if its length is 0); one of another size goes through  *)
(* _busStaging and is scaled when accepted.                                *)
Direct(t) == call[t].size = call[t].type.size

Reject(t) ==
    /\ call[t].pc = "copy" /\ ~Untorn(t)
    /\ call' = Again(t)
    /\ \/ Direct(t) /\ Copied(t, Torn)
       \/ (Direct(t) => call[t].type.sub = "mjpg") /\ UNCHANGED <<staging, jpegStaging>>
    /\ UNCHANGED <<source, stream, bus, consumerMask, history>>

(* WaitFrame: back to the top, until the deadline of two frame periods and *)
(* 50 ms has passed; then the last picture goes out again.                 *)
Wait(t) ==
    /\ call[t].pc = "wait"
    /\ call' = Goto(t, "poll")
    /\ UNCHANGED <<source, stream, staging, jpegStaging, bus, consumerMask, history>>

Never(t) == FALSE                                               \* mutant
Overdue(t) == call[t].pc = "wait"

DeadlinePasses(t) ==
    /\ Overdue(t)
    /\ call' = Goto(t, "queue")
    /\ UNCHANGED <<source, stream, staging, jpegStaging, bus, consumerMask, history>>

(* No sample without a JPEG to repeat, none into a stopped stream.         *)
Sent(t) == LET s == StreamOf[t] IN
    Running(s) /\ (call[t].type.sub = "mjpg" => stream[s].jpeg)

Own(t) == call[t].run = stream[StreamOf[t]].run

(* The picture the sample is filled with.                                  *)
Sample(t) == LET s == StreamOf[t] IN
    IF call[t].type.sub = "mjpg" THEN jpegStaging[s] ELSE staging[s][call[t].run]

Queue(t) == LET s == StreamOf[t] IN
    /\ call[t].pc = "queue"
    /\ call' = Return(t)
    /\ staging' = Released(t)
    /\ IF Sent(t) /\ call[t].fresh /\ Own(t)
       THEN /\ seen' = [seen EXCEPT ![s] = call[t].from.id]
            /\ shown' = [shown EXCEPT ![s] = Sample(t)]
       ELSE UNCHANGED <<seen, shown>>
    /\ UNCHANGED <<source, stream, jpegStaging, bus, consumerMask, disturbed>>
-----------------------------------------------------------------------------
(* The host: windows on the bus.  A frame of the camera carries a sidecar  *)
(* iff the mask asks for it; UpdateFormat publishes a black one.  The host *)
(* may stop, or die inside a window.                                       *)
OpenWindow ==
    /\ ~bus.open /\ bus.id < MaxFrames
    /\ \/ bus' = [bus EXCEPT !.id = @ + 1, !.open = TRUE, !.jpeg = consumerMask = "mjpg"]
       \/ \E size \in Sizes \ {bus.size} :
              bus' = [id |-> bus.id + 1, size |-> size, jpeg |-> FALSE, open |-> TRUE]
    /\ UNCHANGED <<source, stream, staging, jpegStaging, call, consumerMask,
                   history>>

CloseWindow ==
    /\ bus.open
    /\ bus' = [bus EXCEPT !.open = FALSE]
    /\ UNCHANGED <<source, stream, staging, jpegStaging, call, consumerMask,
                   history>>
-----------------------------------------------------------------------------
Deliver(t) == TakeDeliverLock(t) \/ Poll(t) \/ ReadFormat(t) \/ CheckSize(t) \/ Attempt(t)
              \/ NothingNew(t) \/ Accept(t) \/ NoSidecar(t) \/ Reject(t)
              \/ Wait(t) \/ Queue(t)

Next ==
    \/ \E s \in Streams :
          \/ ActivateObject(s) \/ SourceStart(s) \/ SourceStop(s) \/ SourceShutdown(s)
    \/ \E t \in Requesters : RequestSample(t) \/ Deliver(t) \/ DeadlinePasses(t)
    \/ OpenWindow \/ CloseWindow

Spec == Init /\ [][Next]_vars

(* A call that was made runs on, and each of its waits is short (at most   *)
(* 100 ms), so its deadline comes; the client of a running stream asks for *)
(* the next sample.  Nothing is promised of the host, nor that a thread    *)
(* waiting for _deliverLock ever gets it.                                  *)
FairSpec ==
    /\ Spec
    /\ \A t \in Requesters :
          WF_vars(Deliver(t)) /\ SF_vars(DeadlinePasses(t)) /\ WF_vars(RequestSample(t))
-----------------------------------------------------------------------------
Sending(t) == call[t].pc = "queue" /\ Sent(t)

(* A sample that is not a repeat is, whole, the one frame its copy was     *)
(* accepted for: nobody writes the buffer between the accepted copy and    *)
(* the copy into the sample, whatever other requests, Starts and windows   *)
(* come in between (_deliverLock, VCamSource.cpp:614-617).  The exception  *)
(* is a YUY2 frame of another size than the call read: FrameBus.h:396-397  *)
(* wants one copied only if "the dimensions match", but TryReadNewer has   *)
(* compared them before its first attempt and does not again (:417-445).   *)
FreshIsWhole == \A t \in Requesters :
    Sending(t) /\ call[t].fresh /\ SizeKept(t) => Sample(t) = call[t].from.id

(* "On deadline we re-deliver the previous frame" (VCamSource.cpp:649):    *)
(* the repeat is the picture the run's client was last sent as new, black  *)
(* if there was none, as long as the host has opened no window since the   *)
(* bus was last read.  Before the first JPEG of an MJPEG run it is a JPEG  *)
(* of an earlier run.                                                      *)
RepeatsPrevious == \A t \in Requesters : LET s == StreamOf[t] IN
    /\ Sending(t) /\ ~call[t].fresh /\ Own(t)
    /\ call[t].type.sub = "mjpg" => seen[s] > 0
    => Sample(t) = shown[s] \/ bus.id > stream[s].last

(* Within a run its client is never sent the same frame as new twice, nor  *)
(* an older one after a newer.                                             *)
NeverRepeats == [][\A t \in Requesters : LET s == StreamOf[t] IN
    Queue(t) /\ Sent(t) /\ call[t].fresh /\ Own(t) => call[t].from.id > seen[s]]_vars

(* A call that has the delivery lock returns, also when the host is dead   *)
(* in the middle of a window.                                              *)
DeliveryEnds == \A t \in Requesters : Delivering(t) ~> ~Delivering(t)

(* A stream that stops clears the mask for all; one that still runs has    *)
(* its own bit in it again at its next request, so the only running stream *)
(* is not left without.                                                    *)
OnlyRunning(s) == Running(s) /\ \A u \in Streams \ {s} : ~Running(u)
MaskRestored == \A s \in {StreamOf[t] : t \in Requesters} :
    OnlyRunning(s) ~> consumerMask = stream[s].consumer \/ ~OnlyRunning(s)

(* Start resets _lastFrameId to "re-sync with whatever the bus currently   *)
(* holds" (VCamSource.cpp:461): a client gets the picture on the bus even  *)
(* if the host publishes no other.  Not if a call of the run before stored *)
(* its frame id after the reset, and not as JPEG, which may be missing.    *)
PictureArrives == \A s \in {StreamOf[t] : t \in Requesters} :
    (Running(s) /\ bus.id > 0) ~>
        \/ seen[s] > 0 \/ bus.open \/ ~Running(s)
        \/ disturbed[s] \/ stream[s].type.sub = "mjpg"
=============================================================================
