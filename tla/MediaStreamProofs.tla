------------------------- MODULE MediaStreamProofs -------------------------
(***************************************************************************)
(* Theorems about the media stream, for any streams, requesters, formats   *)
(* and bounds: a sample sent as new is one frame, whole, and newer than    *)
(* any its run's client was sent before.                                   *)
(***************************************************************************)
EXTENDS MediaStream, TLAPS

-----------------------------------------------------------------------------
(* The inductive invariant. *)

IsCall(c) ==
    c = [pc |-> c.pc, run |-> c.run, type |-> c.type, size |-> c.size, last |-> c.last,
         attempt |-> c.attempt, from |-> c.from, fresh |-> c.fresh]
IsStream(st) == {"run", "last", "type", "jpeg", "running"} \subseteq DOMAIN st

\* The shapes of the records and functions the steps update.
ShapeInv ==
    /\ DOMAIN call = Requesters /\ \A t \in Requesters : IsCall(call[t])
    /\ DOMAIN stream = Streams /\ \A s \in Streams : IsStream(stream[s])
    /\ DOMAIN staging = Streams /\ DOMAIN jpegStaging = Streams
    /\ \A s \in Streams : staging[s] = [r \in DOMAIN staging[s] |-> staging[s][r]]

\* One call at a time has the delivery lock of a stream.
LockInv ==
    \A t, u \in Requesters :
        StreamOf[t] = StreamOf[u] /\ Delivering(t) /\ Delivering(u) => t = u

\* The buffer of the stream's run, and of every call's, is allocated.
HeldInv ==
    /\ \A s \in Streams : stream[s].run \in DOMAIN staging[s]
    /\ \A t \in Requesters : Delivering(t) => call[t].run \in DOMAIN staging[StreamOf[t]]

\* A call with a fresh picture is about to queue it, and its buffer has it, whole if
\* it is of the size the call read.
Whole(t) == SizeKept(t) => Sample(t) = call[t].from.id
FreshInv ==
    \A t \in Requesters : call[t].fresh => call[t].pc = "queue" /\ Whole(t)

IInv == ShapeInv /\ LockInv /\ HeldInv /\ FreshInv

\* Frame ids and runs only grow; a client has been sent nothing newer than the
\* id the stream remembers, nor does a call run ahead of its stream.
NumberInv ==
    /\ "id" \in DOMAIN bus /\ bus.id \in Nat
    /\ DOMAIN seen = Streams /\ DOMAIN shown = Streams
    /\ \A s \in Streams : /\ stream[s].run \in Nat /\ stream[s].last \in 0 .. bus.id
                          /\ seen[s] \in 0 .. stream[s].last
    /\ \A t \in Requesters : Delivering(t) => call[t].run \in 0 .. stream[StreamOf[t]].run

\* While a call is at the bus nobody else stores an id: what the stream remembers is
\* the id the call read, or a Start has reset it.  The frame it copies is not older;
\* a fresh picture of the stream's run is of the one remembered, and not yet sent.
AtBus == {"check", "attempt", "copy"}
NewerInv ==
    \A t \in Requesters :
        LET last == stream[StreamOf[t]].last IN
        /\ call[t].pc \in AtBus => last \in {call[t].last, 0}
        /\ call[t].pc = "copy" => call[t].from.id \in Nat /\ call[t].from.id >= last
        /\ call[t].fresh /\ Own(t) => call[t].from.id = last /\ seen[StreamOf[t]] < last

OrderInv == IInv /\ NumberInv /\ NewerInv

-----------------------------------------------------------------------------
(* What the steps of a call do to it. *)

\* Only call t changes, and stays a call.
OnlyCall(t) ==
    /\ DOMAIN call' = Requesters /\ IsCall(call'[t])
    /\ \A u \in Requesters \ {t} : call'[u] = call[u]

LEMMA GotoEffect ==
  ASSUME ShapeInv, NEW t \in Requesters, NEW p, call' = Goto(t, p)
  PROVE  /\ OnlyCall(t) /\ call'[t].pc = p /\ call'[t].type = call[t].type
         /\ call'[t].run = call[t].run /\ ~call'[t].fresh
<1>1. DOMAIN call = Requesters
  BY DEF ShapeInv
<1>2. call'[t] = [Idle EXCEPT !.pc = p, !.run = call[t].run, !.type = call[t].type]
      /\ DOMAIN call' = Requesters /\ \A u \in Requesters \ {t} : call'[u] = call[u]
  BY <1>1 DEF Goto
<1>3. call'[t] = [pc |-> p, run |-> call[t].run, type |-> call[t].type, size |-> None,
                  last |-> 0, attempt |-> 0, from |-> None, fresh |-> FALSE]
  BY <1>2 DEF Idle
<1>4. IsCall(call'[t])
  BY <1>3 DEF IsCall
<1>5. /\ call'[t].pc = p /\ call'[t].type = call[t].type
      /\ call'[t].run = call[t].run /\ ~call'[t].fresh
  BY <1>3
<1> QED BY <1>2, <1>4, <1>5 DEF OnlyCall

LEMMA ReturnEffect ==
  ASSUME ShapeInv, NEW t \in Requesters, call' = Return(t)
  PROVE  OnlyCall(t) /\ call'[t] = Idle
  BY DEF ShapeInv, Return, Idle, OnlyCall, IsCall

LEMMA LockEffect ==
  ASSUME ShapeInv, NEW t \in Requesters, TakeDeliverLock(t), Running(StreamOf[t])
  PROVE  /\ OnlyCall(t) /\ call'[t].pc = "poll" /\ call'[t].type = stream[StreamOf[t]].type
         /\ call'[t].run = stream[StreamOf[t]].run /\ call'[t].fresh = call[t].fresh
<1>1. IsCall(call[t]) /\ DOMAIN call = Requesters
  BY DEF ShapeInv
<1>2. call' = [call EXCEPT ![t].pc = "poll", ![t].run = stream[StreamOf[t]].run,
                           ![t].type = stream[StreamOf[t]].type]
  BY DEF TakeDeliverLock
<1>3. call'[t] = [pc |-> "poll", run |-> stream[StreamOf[t]].run,
                  type |-> stream[StreamOf[t]].type, size |-> call[t].size,
                  last |-> call[t].last, attempt |-> call[t].attempt, from |-> call[t].from,
                  fresh |-> call[t].fresh]
  BY <1>1, <1>2 DEF IsCall
<1>4. DOMAIN call' = Requesters /\ \A u \in Requesters \ {t} : call'[u] = call[u]
  BY <1>1, <1>2
<1> QED BY <1>3, <1>4 DEF OnlyCall, IsCall

\* Poll returns, or has a look at the bus.
LEMMA PollEffect ==
  ASSUME ShapeInv, NEW t \in Requesters, Poll(t)
  PROVE  /\ OnlyCall(t) /\ ~call'[t].fresh /\ UNCHANGED <<stream, jpegStaging>>
         /\ \/ call'[t] = Idle /\ staging' = Released(t) /\ call' = Return(t)
            \/ /\ call'[t].pc = "format" /\ UNCHANGED staging
               /\ call'[t].type = call[t].type /\ call'[t].run = call[t].run
<1>1. CASE call' = Return(t) /\ staging' = Released(t)
  <2>1. OnlyCall(t) /\ call'[t] = Idle
    BY <1>1, ReturnEffect
  <2>2. ~Idle.fresh
    BY DEF Idle
  <2> QED BY <1>1, <2>1, <2>2 DEF Poll
<1>2. CASE call' = Goto(t, "format") /\ UNCHANGED staging
  BY <1>2, GotoEffect DEF Poll
<1> QED BY <1>1, <1>2 DEF Poll

\* The next look at the bus; what the call read before the first attempt stays.
Looked(t, p) ==
    /\ OnlyCall(t) /\ call'[t].pc = p /\ call'[t].type = call[t].type
    /\ call'[t].run = call[t].run /\ call'[t].fresh = call[t].fresh

LEMMA FormatEffect ==
  ASSUME ShapeInv, NEW t \in Requesters, NEW size, NEW last,
         call' = [call EXCEPT ![t].pc = "check", ![t].size = size, ![t].last = last]
  PROVE  Looked(t, "check") /\ call'[t].last = last
<1>1. IsCall(call[t]) /\ DOMAIN call = Requesters
  BY DEF ShapeInv
<1>2. call'[t] = [pc |-> "check", run |-> call[t].run, type |-> call[t].type, size |-> size,
                  last |-> last, attempt |-> call[t].attempt, from |-> call[t].from,
                  fresh |-> call[t].fresh]
  BY <1>1 DEF IsCall
<1>3. DOMAIN call' = Requesters /\ \A u \in Requesters \ {t} : call'[u] = call[u]
  BY <1>1
<1> QED BY <1>2, <1>3 DEF Looked, OnlyCall, IsCall

LEMMA CheckEffect ==
  ASSUME ShapeInv, NEW t \in Requesters, call' = [call EXCEPT ![t].pc = "attempt"]
  PROVE  Looked(t, "attempt") /\ call'[t].last = call[t].last
<1>1. IsCall(call[t]) /\ DOMAIN call = Requesters
  BY DEF ShapeInv
<1>2. call'[t] = [pc |-> "attempt", run |-> call[t].run, type |-> call[t].type,
                  size |-> call[t].size, last |-> call[t].last, attempt |-> call[t].attempt,
                  from |-> call[t].from, fresh |-> call[t].fresh]
  BY <1>1 DEF IsCall
<1>3. DOMAIN call' = Requesters /\ \A u \in Requesters \ {t} : call'[u] = call[u]
  BY <1>1
<1> QED BY <1>2, <1>3 DEF Looked, OnlyCall, IsCall

LEMMA CopyingEffect ==
  ASSUME ShapeInv, NEW t \in Requesters,
         call' = [call EXCEPT ![t].pc = "copy", ![t].from = bus]
  PROVE  Looked(t, "copy") /\ call'[t].last = call[t].last /\ call'[t].from = bus
<1>1. IsCall(call[t]) /\ DOMAIN call = Requesters
  BY DEF ShapeInv
<1>2. call'[t] = [pc |-> "copy", run |-> call[t].run, type |-> call[t].type,
                  size |-> call[t].size, last |-> call[t].last, attempt |-> call[t].attempt,
                  from |-> bus, fresh |-> call[t].fresh]
  BY <1>1 DEF IsCall
<1>3. DOMAIN call' = Requesters /\ \A u \in Requesters \ {t} : call'[u] = call[u]
  BY <1>1
<1> QED BY <1>2, <1>3 DEF Looked, OnlyCall, IsCall

LEMMA AgainEffect ==
  ASSUME ShapeInv, NEW t \in Requesters, call' = Again(t)
  PROVE  \/ call' = Goto(t, "wait")
         \/ Looked(t, "attempt") /\ call'[t].last = call[t].last
<1>1. IsCall(call[t]) /\ DOMAIN call = Requesters
  BY DEF ShapeInv
<1>2. CASE call' = [call EXCEPT ![t].pc = "attempt", ![t].attempt = @ + 1, ![t].from = None]
  <2>1. call'[t] = [pc |-> "attempt", run |-> call[t].run, type |-> call[t].type,
                    size |-> call[t].size, last |-> call[t].last,
                    attempt |-> call[t].attempt + 1, from |-> None, fresh |-> call[t].fresh]
    BY <1>1, <1>2 DEF IsCall
  <2>2. DOMAIN call' = Requesters /\ \A u \in Requesters \ {t} : call'[u] = call[u]
    BY <1>1, <1>2
  <2> QED BY <2>1, <2>2 DEF Looked, OnlyCall, IsCall
<1> QED BY <1>2 DEF Again

LEMMA AcceptEffect ==
  ASSUME ShapeInv, NEW t \in Requesters, Accept(t)
  PROVE  /\ OnlyCall(t)
         /\ call'[t].pc = "queue" /\ call'[t].run = call[t].run /\ call'[t].type = call[t].type
         /\ call'[t].size = call[t].size
         /\ call[t].from = bus /\ call'[t].from = bus /\ call'[t].fresh
<1>1. IsCall(call[t]) /\ DOMAIN call = Requesters
  BY DEF ShapeInv
<1>2. /\ call' = [call EXCEPT ![t].pc = "queue", ![t].last = 0, ![t].attempt = 0, ![t].fresh = TRUE]
      /\ bus = call[t].from
  BY DEF Accept, Untorn
<1>3. call'[t] = [pc |-> "queue", run |-> call[t].run, type |-> call[t].type,
                  size |-> call[t].size, last |-> 0, attempt |-> 0, from |-> call[t].from,
                  fresh |-> TRUE]
  BY <1>1, <1>2 DEF IsCall
<1>4. DOMAIN call' = Requesters /\ \A u \in Requesters \ {t} : call'[u] = call[u]
  BY <1>1, <1>2
<1> QED BY <1>2, <1>3, <1>4 DEF OnlyCall, IsCall

\* A rejected copy tries again, or waits.
LEMMA RejectEffect ==
  ASSUME ShapeInv, NEW t \in Requesters, Reject(t)
  PROVE  /\ OnlyCall(t) /\ UNCHANGED stream
         /\ call'[t].run = call[t].run /\ call'[t].type = call[t].type
         /\ call'[t].fresh => call[t].fresh
         /\ \/ call'[t].pc = "wait"
            \/ call'[t].pc = "attempt" /\ call'[t].last = call[t].last
         /\ Copied(t, Torn) \/ UNCHANGED <<staging, jpegStaging>>
  BY AgainEffect, GotoEffect DEF Reject, Looked

\* A copy writes the buffer of the call's run, or the stream's JPEG buffer.
LEMMA CopyEffect ==
  ASSUME MediaAssumption, ShapeInv, HeldInv, NEW t \in Requesters, NEW p, Delivering(t),
         Copied(t, p)
  PROVE  LET s == StreamOf[t] IN
         /\ DOMAIN staging' = Streams /\ DOMAIN jpegStaging' = Streams
         /\ \A r \in Streams \ {s} :
               staging'[r] = staging[r] /\ jpegStaging'[r] = jpegStaging[r]
         /\ DOMAIN staging'[s] = DOMAIN staging[s]
         /\ staging'[s] = [r \in DOMAIN staging'[s] |-> staging'[s][r]]
         /\ \A r \in DOMAIN staging[s] : r # call[t].run => staging'[s][r] = staging[s][r]
         /\ IF call[t].type.sub = "mjpg" THEN jpegStaging'[s] = p
                                        ELSE staging'[s][call[t].run] = p
<1> DEFINE s == StreamOf[t]
<1>1. s \in Streams
  BY DEF MediaAssumption
<1>2. CASE call[t].type.sub = "mjpg"
  BY <1>1, <1>2 DEF Copied, ShapeInv
<1>3. CASE call[t].type.sub # "mjpg"
  <2>1. UNCHANGED jpegStaging /\ staging' = [staging EXCEPT ![s][call[t].run] = p]
    BY <1>3 DEF Copied
  <2>2. staging'[s] = [staging[s] EXCEPT ![call[t].run] = p]
    BY <1>1, <2>1 DEF ShapeInv
  <2>3. call[t].run \in DOMAIN staging[s]
    BY DEF HeldInv
  <2>4. /\ DOMAIN staging' = Streams
        /\ \A r \in Streams \ {s} : staging'[r] = staging[r]
    BY <1>1, <2>1 DEF ShapeInv
  <2>5. /\ DOMAIN staging'[s] = DOMAIN staging[s]
        /\ staging'[s] = [r \in DOMAIN staging'[s] |-> staging'[s][r]]
        /\ staging'[s][call[t].run] = p
        /\ \A r \in DOMAIN staging[s] : r # call[t].run => staging'[s][r] = staging[s][r]
    BY <2>2, <2>3
  <2> QED BY <1>3, <2>1, <2>4, <2>5 DEF ShapeInv
<1> QED BY <1>2, <1>3

\* The buffers that are kept keep their pictures.
LEMMA KeptEffect ==
  ASSUME ShapeInv, NEW s \in Streams, NEW run, NEW calls,
         staging' = [staging EXCEPT ![s] = Kept(s, run, calls)]
  PROVE  /\ DOMAIN staging' = Streams
         /\ \A r \in Streams \ {s} : staging'[r] = staging[r]
         /\ DOMAIN staging'[s] = {run} \cup HeldRuns(s, calls)
         /\ staging'[s] = [r \in DOMAIN staging'[s] |-> staging'[s][r]]
         /\ \A r \in DOMAIN staging'[s] \cap DOMAIN staging[s] : staging'[s][r] = staging[s][r]
<1>1. DOMAIN staging' = Streams /\ staging'[s] = Kept(s, run, calls)
      /\ \A r \in Streams \ {s} : staging'[r] = staging[r]
  BY DEF ShapeInv
<1> QED BY <1>1 DEF Kept

\* The stream's fields after each step that writes them; only Start begins a run.
LEMMA StreamEffect ==
  ASSUME ShapeInv, NEW s \in Streams, NEW st,
         \/ \E ty : st = [stream[s] EXCEPT !.type = ty]
         \/ st = Stopped(s)
         \/ \E id, j : st = [stream[s] EXCEPT !.last = id, !.jpeg = j],
         stream' = [stream EXCEPT ![s] = st]
  PROVE  /\ DOMAIN stream' = Streams /\ \A r \in Streams : IsStream(stream'[r])
         /\ \A r \in Streams : stream'[r].run = stream[r].run
<1>1. IsStream(stream[s]) /\ DOMAIN stream = Streams
  BY DEF ShapeInv
<1>2. IsStream(st) /\ st.run = stream[s].run
  BY <1>1 DEF IsStream, Stopped
<1> QED BY <1>1, <1>2 DEF ShapeInv

LEMMA StartEffect ==
  ASSUME ShapeInv, NEW s \in Streams, NEW ty, stream' = [stream EXCEPT ![s] = Started(s, ty)]
  PROVE  /\ DOMAIN stream' = Streams /\ \A r \in Streams : IsStream(stream'[r])
         /\ stream'[s].run = stream[s].run + 1
         /\ \A r \in Streams \ {s} : stream'[r].run = stream[r].run
<1>1. IsStream(stream[s]) /\ DOMAIN stream = Streams
  BY DEF ShapeInv
<1>2. IsStream(Started(s, ty)) /\ Started(s, ty).run = stream[s].run + 1
  BY <1>1 DEF IsStream, Started
<1> QED BY <1>1, <1>2 DEF ShapeInv

\* Activation and the calls that end a run leave the buffers and the calls alone.
LEMMA ControlEffect ==
  ASSUME ShapeInv, NEW s \in Streams, ActivateObject(s) \/ SourceStop(s) \/ SourceShutdown(s)
  PROVE  /\ UNCHANGED <<staging, jpegStaging, call>>
         /\ DOMAIN stream' = Streams /\ \A r \in Streams : IsStream(stream'[r])
         /\ \A r \in Streams : stream'[r].run = stream[r].run
<1>1. CASE ActivateObject(s)
  <2>1. stream' = [stream EXCEPT ![s] = [stream[s] EXCEPT !.type = DefaultType(bus.size)]]
    BY <1>1 DEF ActivateObject, Initialize
  <2> QED BY <1>1, <2>1, StreamEffect DEF ActivateObject
<1>2. CASE SourceStop(s) \/ SourceShutdown(s)
  BY <1>2, StreamEffect DEF SourceStop, StreamStop, SourceShutdown
<1> QED BY <1>1, <1>2

\* The steps of a call that only move it on.
Moves(t) == \/ RequestSample(t) \/ NoSidecar(t) \/ NothingNew(t) \/ Wait(t) \/ DeadlinePasses(t)
            \/ ReadFormat(t) \/ CheckSize(t) \/ Attempt(t)

\* Where they take it: to the bus, or somewhere with nothing read.
LEMMA MovesTo ==
  ASSUME ShapeInv, NEW t \in Requesters, Moves(t)
  PROVE  \/ \E p \in {"lock", "wait", "poll", "queue"} : call' = Goto(t, p)
         \/ ReadFormat(t) /\ Looked(t, "check") /\ call'[t].last = stream[StreamOf[t]].last
         \/ call[t].pc \in AtBus /\ Looked(t, "attempt") /\ call'[t].last = call[t].last
         \/ /\ call[t].pc \in AtBus /\ Looked(t, "copy") /\ call'[t].last = call[t].last
            /\ call'[t].from = bus /\ ~bus.open
<1>1. CASE \/ RequestSample(t) \/ NoSidecar(t) \/ NothingNew(t) \/ Wait(t) \/ DeadlinePasses(t)
  BY <1>1 DEF RequestSample, NoSidecar, NothingNew, Wait, DeadlinePasses
<1>2. CASE ReadFormat(t)
  <2>1. CASE call' = Goto(t, "wait")
    BY <2>1
  <2>2. CASE call' = [call EXCEPT ![t].pc = "check", ![t].size = bus.size,
                                  ![t].last = stream[StreamOf[t]].last]
    <3>1. Looked(t, "check") /\ call'[t].last = stream[StreamOf[t]].last
      BY <2>2, FormatEffect
    <3> QED BY <1>2, <3>1
  <2> QED BY <1>2, <2>1, <2>2 DEF ReadFormat
<1>3. CASE CheckSize(t)
  BY <1>3, CheckEffect DEF CheckSize, AtBus
<1>4. CASE Attempt(t)
  BY <1>4, AgainEffect, CopyingEffect DEF Attempt, AtBus
<1> QED BY <1>1, <1>2, <1>3, <1>4 DEF Moves

LEMMA MovesEffect ==
  ASSUME ShapeInv, NEW t \in Requesters, Moves(t)
  PROVE  /\ OnlyCall(t) /\ UNCHANGED <<stream, staging, jpegStaging, bus, seen, shown>>
         /\ call'[t].run = call[t].run /\ call'[t].type = call[t].type
         /\ call'[t].fresh => call[t].fresh
         /\ call[t].pc # "queue"
         /\ call'[t].pc = "lock" \/ Delivering(t)
<1>1. /\ OnlyCall(t) /\ call'[t].run = call[t].run /\ call'[t].type = call[t].type
      /\ call'[t].fresh => call[t].fresh
  <2>1. CASE \E p \in {"lock", "wait", "poll", "queue"} : call' = Goto(t, p)
    BY <2>1, GotoEffect
  <2> QED BY <2>1, MovesTo DEF Looked
<1>2. UNCHANGED <<stream, staging, jpegStaging, bus, seen, shown>> /\ call[t].pc # "queue"
  BY DEF Moves, RequestSample, NoSidecar, NothingNew, Wait, DeadlinePasses, Overdue, ReadFormat,
     CheckSize, Attempt, history
<1>3. call' = Goto(t, "lock") \/ Delivering(t)
  BY DEF Moves, RequestSample, NoSidecar, NothingNew, Wait, DeadlinePasses, Overdue, ReadFormat,
     CheckSize, Attempt, Delivering, InDelivery
<1> QED BY <1>1, <1>2, <1>3, GotoEffect

\* A call that returns drops its buffer.
LEMMA ReturnsEffect ==
  ASSUME MediaAssumption, ShapeInv, NEW t \in Requesters, call' = Return(t),
         staging' = Released(t)
  PROVE  LET s == StreamOf[t] IN
         /\ DOMAIN staging' = Streams
         /\ \A r \in Streams \ {s} : staging'[r] = staging[r]
         /\ DOMAIN staging'[s] = {stream[s].run} \cup HeldRuns(s, call')
         /\ staging'[s] = [r \in DOMAIN staging'[s] |-> staging'[s][r]]
         /\ \A r \in DOMAIN staging'[s] \cap DOMAIN staging[s] : staging'[s][r] = staging[s][r]
<1> DEFINE s == StreamOf[t]
           calls == Return(t)
<1>1. s \in Streams /\ staging' = [staging EXCEPT ![s] = Kept(s, stream[s].run, calls)]
  BY DEF Released, MediaAssumption
<1>2. calls = call'
  OBVIOUS
<1> HIDE DEF s, calls
<1>3. /\ DOMAIN staging' = Streams
      /\ \A r \in Streams \ {s} : staging'[r] = staging[r]
      /\ DOMAIN staging'[s] = {stream[s].run} \cup HeldRuns(s, calls)
      /\ staging'[s] = [r \in DOMAIN staging'[s] |-> staging'[s][r]]
      /\ \A r \in DOMAIN staging'[s] \cap DOMAIN staging[s] : staging'[s][r] = staging[s][r]
  BY <1>1, KeptEffect
<1> QED BY <1>2, <1>3 DEF s

LEMMA StartsEffect ==
  ASSUME ShapeInv, NEW s \in Streams, SourceStart(s)
  PROVE  /\ UNCHANGED <<call, jpegStaging>>
         /\ DOMAIN stream' = Streams /\ \A r \in Streams : IsStream(stream'[r])
         /\ \A r \in Streams \ {s} : stream'[r].run = stream[r].run
         /\ DOMAIN staging' = Streams
         /\ \A r \in Streams \ {s} : staging'[r] = staging[r]
         /\ DOMAIN staging'[s] = {stream'[s].run} \cup HeldRuns(s, call)
         /\ staging'[s] = [r \in DOMAIN staging'[s] |-> staging'[s][r]]
         /\ \A r \in DOMAIN staging'[s] \cap DOMAIN staging[s] : staging'[s][r] = staging[s][r]
<1>1. PICK ty : StreamStart(s, ty)
  BY DEF SourceStart
<1>2. staging' = [staging EXCEPT ![s] = Kept(s, stream[s].run + 1, call)]
  BY <1>1 DEF StreamStart
<1>3. stream' = [stream EXCEPT ![s] = Started(s, ty)] /\ UNCHANGED <<call, jpegStaging>>
  BY <1>1 DEF StreamStart
<1> QED BY <1>2, <1>3, StartEffect, KeptEffect

\* A run begins with a black buffer, if its number is new.
LEMMA StartsBlack ==
  ASSUME ShapeInv, NEW s \in Streams, NEW ty, StreamStart(s, ty),
         stream[s].run + 1 \notin DOMAIN staging[s]
  PROVE  staging'[s][stream'[s].run] = Black
<1>1. stream' = [stream EXCEPT ![s] = Started(s, ty)]
  BY DEF StreamStart
<1>2. stream'[s].run = stream[s].run + 1
  BY <1>1, StartEffect
<1>3. staging'[s] = Kept(s, stream[s].run + 1, call)
  BY DEF StreamStart, ShapeInv
<1> QED BY <1>2, <1>3 DEF Kept

\* An accepted copy leaves the run alone.
LEMMA ConsumedEffect ==
  ASSUME MediaAssumption, ShapeInv, NEW t \in Requesters, stream' = Consumed(t)
  PROVE  /\ DOMAIN stream' = Streams /\ \A r \in Streams : IsStream(stream'[r])
         /\ \A r \in Streams : stream'[r].run = stream[r].run
<1>1. StreamOf[t] \in Streams
  BY DEF MediaAssumption
<1> QED BY <1>1 DEF Consumed, ShapeInv, IsStream

-----------------------------------------------------------------------------
(* The steps. *)

LEMMA ShapeStep == MediaAssumption /\ IInv /\ [Next]_vars => ShapeInv'
<1> SUFFICES ASSUME MediaAssumption, ShapeInv, HeldInv, [Next]_vars PROVE ShapeInv'
  BY DEF IInv
<1> USE DEF ShapeInv
<1>1. CASE UNCHANGED vars \/ OpenWindow \/ CloseWindow
  BY <1>1 DEF OpenWindow, CloseWindow, vars, history
<1>2. CASE \E s \in Streams : ActivateObject(s) \/ SourceStop(s) \/ SourceShutdown(s)
  BY <1>2, ControlEffect
<1>3. CASE \E s \in Streams : SourceStart(s)
  BY <1>3, StartsEffect
<1>4. ASSUME NEW t \in Requesters, Moves(t) PROVE ShapeInv'
  BY <1>4, MovesEffect DEF OnlyCall
<1>5. ASSUME NEW t \in Requesters, TakeDeliverLock(t) PROVE ShapeInv'
  <2>1. OnlyCall(t)
    BY <1>5, LockEffect, ReturnEffect DEF TakeDeliverLock
  <2> QED BY <1>5, <2>1 DEF OnlyCall, TakeDeliverLock
<1>6. ASSUME NEW t \in Requesters, Poll(t) PROVE ShapeInv'
  <2>1. OnlyCall(t) /\ UNCHANGED <<stream, jpegStaging>>
    BY <1>6, PollEffect
  <2>2. CASE call' = Return(t) /\ staging' = Released(t)
    BY <2>1, <2>2, ReturnsEffect DEF OnlyCall
  <2>3. CASE UNCHANGED staging
    BY <2>1, <2>3 DEF OnlyCall
  <2> QED BY <1>6, <2>2, <2>3, PollEffect
<1>7. ASSUME NEW t \in Requesters, Queue(t) PROVE ShapeInv'
  <2>1. call' = Return(t) /\ staging' = Released(t) /\ UNCHANGED <<stream, jpegStaging>>
    BY <1>7 DEF Queue
  <2>2. OnlyCall(t)
    BY <2>1, ReturnEffect
  <2>3. /\ DOMAIN staging' = Streams
        /\ \A s \in Streams : staging'[s] = [r \in DOMAIN staging'[s] |-> staging'[s][r]]
    BY <2>1, ReturnsEffect
  <2> QED BY <2>1, <2>2, <2>3 DEF OnlyCall
<1>8. ASSUME NEW t \in Requesters, Accept(t) PROVE ShapeInv'
  <2>1. Delivering(t) /\ Copied(t, Accepted(t)) /\ stream' = Consumed(t)
    BY <1>8 DEF Accept, Delivering, InDelivery
  <2>2. /\ DOMAIN staging' = Streams /\ DOMAIN jpegStaging' = Streams
        /\ \A s \in Streams : staging'[s] = [r \in DOMAIN staging'[s] |-> staging'[s][r]]
    <3> DEFINE own == StreamOf[t]
    <3>1. /\ DOMAIN staging' = Streams /\ DOMAIN jpegStaging' = Streams
          /\ \A r \in Streams \ {own} : staging'[r] = staging[r]
          /\ staging'[own] = [r \in DOMAIN staging'[own] |-> staging'[own][r]]
      BY <2>1, CopyEffect
    <3>2. \A s \in Streams : staging[s] = [r \in DOMAIN staging[s] |-> staging[s][r]]
      BY DEF ShapeInv
    <3> HIDE DEF own
    <3> QED BY <3>1, <3>2
  <2>3. DOMAIN stream' = Streams /\ \A s \in Streams : IsStream(stream'[s])
    BY <2>1, ConsumedEffect
  <2>4. OnlyCall(t)
    BY <1>8, AcceptEffect
  <2> QED BY <2>2, <2>3, <2>4 DEF OnlyCall
<1>9. ASSUME NEW t \in Requesters, Reject(t) PROVE ShapeInv'
  <2>1. OnlyCall(t) /\ UNCHANGED stream /\ Delivering(t)
    BY <1>9, RejectEffect DEF Reject, Delivering, InDelivery
  <2>2. CASE Copied(t, Torn)
    BY <2>1, <2>2, CopyEffect DEF OnlyCall
  <2>3. CASE UNCHANGED <<staging, jpegStaging>>
    BY <2>1, <2>3 DEF OnlyCall
  <2> QED BY <1>9, <2>2, <2>3, RejectEffect
<1> QED BY <1>1, <1>2, <1>3, <1>4, <1>5, <1>6, <1>7, <1>8, <1>9 DEF Next, Deliver, Moves

\* A call enters the delivery under the lock only.
LEMMA LockStep == MediaAssumption /\ IInv /\ [Next]_vars => LockInv'
<1> SUFFICES ASSUME MediaAssumption, ShapeInv, LockInv, [Next]_vars PROVE LockInv'
  BY DEF IInv
<1> USE DEF LockInv
<1>1. CASE UNCHANGED call
  BY <1>1 DEF Delivering
<1>2. ASSUME NEW t \in Requesters, OnlyCall(t), Delivering(t) PROVE LockInv'
  BY <1>2 DEF OnlyCall, Delivering
<1>3. ASSUME NEW t \in Requesters, OnlyCall(t), ~Delivering(t)' PROVE LockInv'
  BY <1>3 DEF OnlyCall, Delivering
<1>4. ASSUME NEW t \in Requesters, TakeDeliverLock(t) PROVE LockInv'
  <2>1. CASE Running(StreamOf[t])
    <3>1. OnlyCall(t)
      BY <1>4, <2>1, LockEffect
    <3>2. \A u \in Requesters : StreamOf[u] = StreamOf[t] => ~Delivering(u)
      BY <1>4 DEF TakeDeliverLock, DeliverLockFree
    <3>3. \A u \in Requesters \ {t} : Delivering(u)' <=> Delivering(u)
      BY <3>1 DEF OnlyCall, Delivering
    <3> QED BY <3>2, <3>3
  <2>2. CASE ~Running(StreamOf[t])
    BY <1>3, <1>4, <2>2, ReturnEffect DEF TakeDeliverLock, Idle, Delivering, InDelivery
  <2> QED BY <2>1, <2>2
<1>5. ASSUME NEW t \in Requesters, Moves(t) PROVE LockInv'
  BY <1>2, <1>3, <1>5, MovesEffect DEF Delivering, InDelivery
<1>6. ASSUME NEW t \in Requesters, Poll(t) \/ Queue(t) \/ Accept(t) \/ Reject(t) PROVE LockInv'
  <2>1. Delivering(t)
    BY <1>6 DEF Poll, Queue, Accept, Reject, Delivering, InDelivery
  <2>2. OnlyCall(t)
    BY <1>6, PollEffect, AcceptEffect, ReturnEffect, RejectEffect DEF Queue
  <2> QED BY <1>2, <2>1, <2>2
<1>7. CASE UNCHANGED vars \/ OpenWindow \/ CloseWindow
  BY <1>1, <1>7 DEF OpenWindow, CloseWindow, vars
<1>8. CASE \E s \in Streams : \/ ActivateObject(s) \/ SourceStop(s) \/ SourceShutdown(s)
                              \/ SourceStart(s)
  BY <1>1, <1>8, ControlEffect, StartsEffect
<1> QED BY <1>4, <1>5, <1>6, <1>7, <1>8 DEF Next, Deliver, Moves
\* The buffer of a call is dropped when it returns, that of a run when a later one starts.
LEMMA HeldStep == MediaAssumption /\ IInv /\ [Next]_vars => HeldInv'
<1> SUFFICES ASSUME MediaAssumption, ShapeInv, HeldInv, [Next]_vars PROVE HeldInv'
  BY DEF IInv
<1>0. \A u \in Requesters : StreamOf[u] \in Streams
  BY DEF MediaAssumption
<1> USE DEF HeldInv
<1>1. CASE UNCHANGED <<stream, staging, call>>
  BY <1>1 DEF Delivering
<1>2. CASE \E s \in Streams : ActivateObject(s) \/ SourceStop(s) \/ SourceShutdown(s)
  BY <1>2, <1>0, ControlEffect DEF Delivering
<1>3. ASSUME NEW s \in Streams, SourceStart(s) PROVE HeldInv'
  <2>1. \A u \in Requesters : StreamOf[u] = s /\ Delivering(u) => call[u].run \in HeldRuns(s, call)
    BY DEF HeldRuns, Delivering, InDelivery
  <2>2. /\ UNCHANGED call /\ DOMAIN staging'[s] = {stream'[s].run} \cup HeldRuns(s, call)
        /\ \A r \in Streams \ {s} : staging'[r] = staging[r] /\ stream'[r].run = stream[r].run
    BY <1>3, StartsEffect
  <2>3. \A r \in Streams : stream'[r].run \in DOMAIN staging'[r]
    BY <2>2
  <2>4. ASSUME NEW u \in Requesters, Delivering(u)'
        PROVE  call'[u].run \in DOMAIN staging'[StreamOf[u]]
    <3>1. Delivering(u) /\ call'[u] = call[u]
      BY <2>2, <2>4 DEF Delivering
    <3>2. CASE StreamOf[u] = s
      BY <2>1, <2>2, <3>1, <3>2
    <3>3. CASE StreamOf[u] # s
      BY <1>0, <2>2, <3>1, <3>3
    <3> QED BY <3>2, <3>3
  <2> QED BY <2>3, <2>4
<1>4. ASSUME NEW t \in Requesters, Moves(t) PROVE HeldInv'
  BY <1>4, MovesEffect DEF OnlyCall, Delivering, InDelivery
<1>5. ASSUME NEW t \in Requesters, TakeDeliverLock(t) PROVE HeldInv'
  <2>1. UNCHANGED <<stream, staging>>
    BY <1>5 DEF TakeDeliverLock
  <2>2. CASE Running(StreamOf[t])
    BY <1>0, <1>5, <2>1, <2>2, LockEffect DEF OnlyCall, Delivering
  <2>3. CASE ~Running(StreamOf[t])
    BY <1>5, <2>1, <2>3, ReturnEffect DEF TakeDeliverLock, OnlyCall, Delivering, InDelivery, Idle
  <2> QED BY <2>2, <2>3
<1>6. ASSUME NEW t \in Requesters, call' = Return(t), staging' = Released(t), UNCHANGED stream
      PROVE  HeldInv'
  <2>1. OnlyCall(t) /\ ~Delivering(t)'
    BY <1>6, ReturnEffect DEF Delivering, InDelivery, Idle
  <2>2. \A u \in Requesters : StreamOf[u] = StreamOf[t] /\ Delivering(u)'
                              => call'[u].run \in HeldRuns(StreamOf[t], call')
    BY DEF HeldRuns, Delivering, InDelivery
  <2>3. \A u \in Requesters : Delivering(u)' => Delivering(u) /\ call'[u].run = call[u].run
    BY <2>1 DEF OnlyCall, Delivering
  <2> DEFINE s == StreamOf[t]
  <2>4. /\ DOMAIN staging'[s] = {stream[s].run} \cup HeldRuns(s, call')
        /\ \A r \in Streams \ {s} : staging'[r] = staging[r]
    BY <1>6, ReturnsEffect
  <2>5. \A r \in Streams : stream'[r].run \in DOMAIN staging'[r]
    BY <1>6, <2>4
  <2>6. ASSUME NEW u \in Requesters, Delivering(u)'
        PROVE  call'[u].run \in DOMAIN staging'[StreamOf[u]]
    <3>1. CASE StreamOf[u] = s
      BY <2>2, <2>4, <2>6, <3>1
    <3>2. CASE StreamOf[u] # s
      BY <1>0, <2>3, <2>4, <2>6, <3>2
    <3> QED BY <3>1, <3>2
  <2> QED BY <2>5, <2>6
<1>7. ASSUME NEW t \in Requesters, Poll(t) PROVE HeldInv'
  <2>1. UNCHANGED stream /\ Delivering(t)
    BY <1>7 DEF Poll, Delivering, InDelivery
  <2>2. CASE UNCHANGED staging /\ call'[t].run = call[t].run /\ OnlyCall(t)
    BY <2>1, <2>2 DEF OnlyCall, Delivering
  <2> QED BY <1>6, <1>7, <2>1, <2>2, PollEffect
<1>8. ASSUME NEW t \in Requesters, Queue(t) PROVE HeldInv'
  BY <1>6, <1>8 DEF Queue
<1>9. ASSUME NEW t \in Requesters, Accept(t) \/ Reject(t) PROVE HeldInv'
  <2>1. Delivering(t)
    BY <1>9 DEF Accept, Reject, Delivering, InDelivery
  <2>2. OnlyCall(t) /\ call'[t].run = call[t].run
    BY <1>9, AcceptEffect, RejectEffect
  <2>3. \A s \in Streams : stream'[s].run = stream[s].run
    BY <1>9, ConsumedEffect, RejectEffect DEF Accept
  <2>4. \A s \in Streams : DOMAIN staging'[s] = DOMAIN staging[s]
    <3>1. CASE \E p : Copied(t, p)
      BY <2>1, <3>1, CopyEffect
    <3>2. CASE UNCHANGED staging
      BY <3>2
    <3> QED BY <1>9, <3>1, <3>2, RejectEffect DEF Accept
  <2>5. \A u \in Requesters : Delivering(u)' => Delivering(u) /\ call'[u].run = call[u].run
    BY <2>1, <2>2 DEF OnlyCall, Delivering
  <2> QED BY <1>0, <2>3, <2>4, <2>5
<1>10. CASE UNCHANGED vars \/ OpenWindow \/ CloseWindow
  BY <1>1, <1>10 DEF OpenWindow, CloseWindow, vars
<1> QED BY <1>2, <1>3, <1>4, <1>5, <1>7, <1>8, <1>9, <1>10 DEF Next, Deliver, Moves

\* Another call's step on the same stream finds no fresh picture to disturb.
LEMMA FreshOfOthers ==
  ASSUME MediaAssumption, LockInv, FreshInv, NEW t \in Requesters, OnlyCall(t), Delivering(t),
         \A r \in Streams \ {StreamOf[t]} :
            staging'[r] = staging[r] /\ jpegStaging'[r] = jpegStaging[r],
         NEW u \in Requesters \ {t}, call'[u].fresh
  PROVE  call'[u].pc = "queue" /\ Whole(u)'
<1>1. call'[u] = call[u] /\ call[u].fresh
  BY DEF OnlyCall
<1>2. call[u].pc = "queue" /\ Whole(u)
  BY <1>1 DEF FreshInv
<1>3. StreamOf[u] # StreamOf[t]
  BY <1>2 DEF LockInv, Delivering, InDelivery
<1>4. StreamOf[u] \in Streams
  BY DEF MediaAssumption
<1>5. /\ staging'[StreamOf[u]] = staging[StreamOf[u]]
      /\ jpegStaging'[StreamOf[u]] = jpegStaging[StreamOf[u]]
  BY <1>3, <1>4
<1>6. Sample(u)' = Sample(u)
  BY <1>1, <1>5 DEF Sample
<1> QED BY <1>1, <1>2, <1>6 DEF Whole, SizeKept

LEMMA FreshStep == MediaAssumption /\ IInv /\ [Next]_vars => FreshInv'
<1> SUFFICES ASSUME MediaAssumption, ShapeInv, LockInv, HeldInv, FreshInv, [Next]_vars
             PROVE  FreshInv'
  BY DEF IInv
<1>0. \A u \in Requesters : StreamOf[u] \in Streams
  BY DEF MediaAssumption
\* The buffer of a call that is about to queue stays as it is.
<1>a. ASSUME UNCHANGED <<call, jpegStaging>>,
             \A u \in Requesters : Delivering(u) =>
                staging'[StreamOf[u]][call[u].run] = staging[StreamOf[u]][call[u].run]
      PROVE  FreshInv'
  <2> SUFFICES ASSUME NEW u \in Requesters, call'[u].fresh
               PROVE  call'[u].pc = "queue" /\ Whole(u)'
    BY DEF FreshInv
  <2>1. call[u].fresh /\ call'[u] = call[u]
    BY <1>a
  <2>2. Delivering(u) /\ call[u].pc = "queue" /\ Whole(u)
    BY <2>1 DEF FreshInv, Delivering, InDelivery
  <2>3. Sample(u)' = Sample(u)
    BY <1>a, <2>2 DEF Sample
  <2> QED BY <2>1, <2>2, <2>3 DEF Whole, SizeKept
\* A step of call t in the delivery, after which it has no fresh picture.
<1>b. ASSUME NEW t \in Requesters, OnlyCall(t), ~call'[t].fresh, Delivering(t),
             \A r \in Streams \ {StreamOf[t]} :
                staging'[r] = staging[r] /\ jpegStaging'[r] = jpegStaging[r]
      PROVE  FreshInv'
  BY <1>b, FreshOfOthers DEF FreshInv
\* A step that leaves the buffers alone, after which call t has no fresh picture.
<1>c. ASSUME NEW t \in Requesters, OnlyCall(t), ~call'[t].fresh, UNCHANGED <<staging, jpegStaging>>
      PROVE  FreshInv'
  <2> SUFFICES ASSUME NEW u \in Requesters \ {t}, call'[u].fresh
               PROVE  call'[u].pc = "queue" /\ Whole(u)'
    BY <1>c DEF FreshInv
  <2>1. call'[u] = call[u] /\ call[u].fresh
    BY <1>c DEF OnlyCall
  <2>2. Sample(u)' = Sample(u)
    BY <1>c, <2>1 DEF Sample
  <2> QED BY <2>1, <2>2 DEF FreshInv, Whole, SizeKept
<1>1. CASE UNCHANGED vars \/ OpenWindow \/ CloseWindow
  BY <1>1, <1>a DEF OpenWindow, CloseWindow, vars
<1>2. CASE \E s \in Streams : ActivateObject(s) \/ SourceStop(s) \/ SourceShutdown(s)
  BY <1>2, <1>a, ControlEffect
<1>3. ASSUME NEW s \in Streams, SourceStart(s) PROVE FreshInv'
  <2>1. \A u \in Requesters : StreamOf[u] = s /\ Delivering(u) => call[u].run \in HeldRuns(s, call)
    BY DEF HeldRuns, Delivering, InDelivery
  <2>2. /\ UNCHANGED <<call, jpegStaging>>
        /\ DOMAIN staging'[s] = {stream'[s].run} \cup HeldRuns(s, call)
        /\ \A r \in DOMAIN staging'[s] \cap DOMAIN staging[s] : staging'[s][r] = staging[s][r]
        /\ \A r \in Streams \ {s} : staging'[r] = staging[r]
    BY <1>3, StartsEffect
  <2>3. ASSUME NEW u \in Requesters, Delivering(u)
        PROVE  staging'[StreamOf[u]][call[u].run] = staging[StreamOf[u]][call[u].run]
    <3>1. CASE StreamOf[u] = s
      <4>1. call[u].run \in DOMAIN staging'[s] \cap DOMAIN staging[s]
        BY <2>1, <2>2, <2>3, <3>1 DEF HeldInv
      <4> QED BY <2>2, <3>1, <4>1
    <3>2. CASE StreamOf[u] # s
      BY <1>0, <2>2, <3>2
    <3> QED BY <3>1, <3>2
  <2> QED BY <1>a, <2>2, <2>3
<1>4. ASSUME NEW t \in Requesters, Moves(t) PROVE FreshInv'
  <2>1. ~call[t].fresh
    BY <1>4, MovesEffect DEF FreshInv
  <2> QED BY <1>4, <1>c, <2>1, MovesEffect
<1>5. ASSUME NEW t \in Requesters, TakeDeliverLock(t) PROVE FreshInv'
  <2>1. ~call[t].fresh /\ UNCHANGED <<staging, jpegStaging>>
    BY <1>5 DEF TakeDeliverLock, FreshInv
  <2>2. OnlyCall(t) /\ ~call'[t].fresh
    <3>1. CASE Running(StreamOf[t])
      BY <1>5, <2>1, <3>1, LockEffect
    <3>2. CASE call' = Return(t)
      BY <3>2, ReturnEffect DEF Idle
    <3> QED BY <1>5, <3>1, <3>2 DEF TakeDeliverLock
  <2> QED BY <1>c, <2>1, <2>2
<1>6. ASSUME NEW t \in Requesters, Poll(t) PROVE FreshInv'
  <2>1. ~call[t].fresh /\ Delivering(t) /\ UNCHANGED jpegStaging
    BY <1>6 DEF Poll, FreshInv, Delivering, InDelivery
  <2>2. OnlyCall(t) /\ ~call'[t].fresh
    BY <1>6, <2>1, PollEffect
  <2>3. \A r \in Streams \ {StreamOf[t]} : staging'[r] = staging[r]
    BY <1>6, PollEffect, ReturnsEffect
  <2> QED BY <1>b, <2>1, <2>2, <2>3
<1>7. ASSUME NEW t \in Requesters, Queue(t) PROVE FreshInv'
  <2>1. /\ call' = Return(t) /\ staging' = Released(t)
        /\ UNCHANGED jpegStaging /\ Delivering(t)
    BY <1>7 DEF Queue, Delivering, InDelivery
  <2>2. OnlyCall(t) /\ ~call'[t].fresh
    BY <2>1, ReturnEffect DEF Idle
  <2>3. \A r \in Streams \ {StreamOf[t]} : staging'[r] = staging[r]
    BY <2>1, ReturnsEffect
  <2> QED BY <1>b, <2>1, <2>2, <2>3
<1>8. ASSUME NEW t \in Requesters, Accept(t) PROVE FreshInv'
  <2>1. Delivering(t) /\ Copied(t, Accepted(t))
    BY <1>8 DEF Accept, Delivering, InDelivery
  <2>2. /\ OnlyCall(t) /\ call'[t].pc = "queue" /\ call'[t].run = call[t].run
        /\ call'[t].type = call[t].type /\ call'[t].size = call[t].size
        /\ call'[t].from = bus /\ call[t].from = bus
    BY <1>8, AcceptEffect
  <2>3. Whole(t)'
    <3>1. IF call[t].type.sub = "mjpg" THEN jpegStaging'[StreamOf[t]] = Accepted(t)
                                      ELSE staging'[StreamOf[t]][call[t].run] = Accepted(t)
      BY <2>1, CopyEffect
    <3>2. Sample(t)' = Accepted(t)
      BY <2>2, <3>1 DEF Sample
    <3>3. SizeKept(t)' => SizeKept(t)
      BY <2>2 DEF SizeKept
    <3> QED BY <2>2, <3>2, <3>3 DEF Whole, Accepted
  <2>4. \A r \in Streams \ {StreamOf[t]} :
           staging'[r] = staging[r] /\ jpegStaging'[r] = jpegStaging[r]
    BY <2>1, CopyEffect
  <2>5. ASSUME NEW u \in Requesters \ {t}, call'[u].fresh
        PROVE  call'[u].pc = "queue" /\ Whole(u)'
    BY <2>1, <2>2, <2>4, <2>5, FreshOfOthers
  <2> QED BY <2>2, <2>3, <2>5 DEF FreshInv
<1>9. ASSUME NEW t \in Requesters, Reject(t) PROVE FreshInv'
  <2>1. ~call[t].fresh /\ Delivering(t)
    BY <1>9 DEF Reject, FreshInv, Delivering, InDelivery
  <2>2. OnlyCall(t) /\ ~call'[t].fresh
    BY <1>9, <2>1, RejectEffect
  <2>3. CASE Copied(t, Torn)
    BY <1>b, <2>1, <2>2, <2>3, CopyEffect
  <2>4. CASE UNCHANGED <<staging, jpegStaging>>
    BY <1>c, <2>2, <2>4
  <2> QED BY <1>9, <2>3, <2>4, RejectEffect
<1> QED BY <1>1, <1>2, <1>3, <1>4, <1>5, <1>6, <1>7, <1>8, <1>9 DEF Next, Deliver, Moves

-----------------------------------------------------------------------------
(* The order of what is sent. *)

\* What each step of a client's control does to the id the stream remembers.
LEMMA LastEffect ==
  ASSUME ShapeInv, NEW s \in Streams
  PROVE  /\ ActivateObject(s) \/ SourceStop(s) \/ SourceShutdown(s) =>
                /\ UNCHANGED <<bus, seen, shown>>
                /\ \A r \in Streams : stream'[r].last = stream[r].last
         /\ SourceStart(s) =>
                /\ UNCHANGED bus
                /\ stream'[s].last = 0 /\ stream'[s].run = stream[s].run + 1
                /\ seen' = [seen EXCEPT ![s] = 0] /\ shown' = [shown EXCEPT ![s] = Black]
                /\ \A r \in Streams \ {s} : stream'[r] = stream[r]
<1>1. IsStream(stream[s]) /\ DOMAIN stream = Streams
  BY DEF ShapeInv
<1>2. ASSUME ActivateObject(s)
      PROVE  UNCHANGED <<bus, seen, shown>> /\ \A r \in Streams : stream'[r].last = stream[r].last
  BY <1>1, <1>2 DEF ActivateObject, Initialize, IsStream, history
<1>3. ASSUME SourceStop(s) \/ SourceShutdown(s)
      PROVE  UNCHANGED <<bus, seen, shown>> /\ \A r \in Streams : stream'[r].last = stream[r].last
  <2>1. stream' = [stream EXCEPT ![s] = Stopped(s)] /\ UNCHANGED <<bus, seen, shown>>
    BY <1>3 DEF SourceStop, StreamStop, SourceShutdown, history
  <2>2. Stopped(s).last = stream[s].last
    BY <1>1 DEF Stopped, IsStream
  <2> QED BY <1>1, <2>1, <2>2
<1>4. ASSUME NEW ty, StreamStart(s, ty)
      PROVE  /\ UNCHANGED bus
             /\ stream'[s].last = 0 /\ stream'[s].run = stream[s].run + 1
             /\ seen' = [seen EXCEPT ![s] = 0] /\ shown' = [shown EXCEPT ![s] = Black]
             /\ \A r \in Streams \ {s} : stream'[r] = stream[r]
  <2>1. stream' = [stream EXCEPT ![s] = Started(s, ty)]
    BY <1>4 DEF StreamStart
  <2>2. Started(s, ty).last = 0 /\ Started(s, ty).run = stream[s].run + 1
    BY <1>1 DEF Started, IsStream
  <2> QED BY <1>1, <1>4, <2>1, <2>2 DEF StreamStart
<1> QED BY <1>2, <1>3, <1>4 DEF SourceStart

\* The ids an accepted copy leaves.
LEMMA AcceptedLast ==
  ASSUME MediaAssumption, ShapeInv, NEW t \in Requesters, stream' = Consumed(t)
  PROVE  /\ stream'[StreamOf[t]].last = bus.id
         /\ \A s \in Streams \ {StreamOf[t]} : stream'[s] = stream[s]
<1>1. StreamOf[t] \in Streams
  BY DEF MediaAssumption
<1>2. IsStream(stream[StreamOf[t]]) /\ DOMAIN stream = Streams
  BY <1>1 DEF ShapeInv
<1> QED BY <1>1, <1>2 DEF Consumed, IsStream

\* What the next step of a call finds: where it stood, and what it reads.
LEMMA CallMoves ==
  ASSUME MediaAssumption, IInv, NEW t \in Requesters,
         RequestSample(t) \/ Deliver(t) \/ DeadlinePasses(t)
  PROVE  /\ OnlyCall(t) /\ UNCHANGED bus
         /\ Delivering(t)' =>
              LET s == StreamOf[t] IN
              \/ /\ Delivering(t)
                 /\ call'[t].run = call[t].run /\ call'[t].type = call[t].type
              \/ /\ Running(s)
                 /\ call'[t].run = stream[s].run /\ call'[t].type = stream[s].type
         /\ call'[t].pc \in AtBus => \/ call[t].pc \in AtBus /\ call'[t].last = call[t].last
                                     \/ call'[t].last = stream[StreamOf[t]].last
         /\ call'[t].pc = "copy" => call'[t].from = bus /\ ~bus.open
         /\ call'[t].pc \in AtBus => ~Accept(t)
         /\ call'[t].fresh => Accept(t)
<1> USE DEF IInv
<1>1. CASE Moves(t)
  <2>1. call'[t].pc \in AtBus => ~Accept(t)
    BY AcceptEffect DEF AtBus
  <2>2. ~call'[t].fresh /\ UNCHANGED bus
    BY <1>1, MovesEffect DEF FreshInv
  <2>3. CASE \E p \in {"lock", "wait", "poll", "queue"} : call' = Goto(t, p)
    BY <1>1, <2>2, <2>3, MovesEffect, GotoEffect DEF Delivering, InDelivery, AtBus
  <2>4. CASE ~\E p \in {"lock", "wait", "poll", "queue"} : call' = Goto(t, p)
    BY <1>1, <2>1, <2>2, <2>4, MovesEffect, MovesTo DEF Looked, AtBus, Delivering, InDelivery
  <2> QED BY <2>3, <2>4
<1>2. CASE TakeDeliverLock(t)
  <2>1. ~call[t].fresh /\ UNCHANGED bus
    BY <1>2 DEF TakeDeliverLock, FreshInv
  <2>2. CASE Running(StreamOf[t])
    BY <1>2, <2>1, <2>2, LockEffect DEF AtBus
  <2>3. CASE call' = Return(t)
    BY <2>1, <2>3, ReturnEffect DEF Idle, Delivering, InDelivery, AtBus
  <2> QED BY <1>2, <2>2, <2>3 DEF TakeDeliverLock
<1>3. CASE Poll(t)
  <2>1. UNCHANGED bus /\ Delivering(t)
    BY <1>3 DEF Poll, Delivering, InDelivery
  <2> QED BY <1>3, <2>1, PollEffect DEF Idle, Delivering, InDelivery, AtBus
<1>4. CASE Accept(t)
  BY <1>4, AcceptEffect DEF Accept, Delivering, InDelivery, AtBus
<1>5. CASE Reject(t)
  <2>1. ~call[t].fresh /\ UNCHANGED bus /\ Delivering(t) /\ ~Accept(t) /\ call[t].pc \in AtBus
    BY <1>5 DEF Reject, Accept, FreshInv, Delivering, InDelivery, AtBus
  <2> QED BY <1>5, <2>1, RejectEffect DEF AtBus
<1>6. CASE Queue(t)
  BY <1>6, ReturnEffect DEF Queue, Idle, Delivering, InDelivery, AtBus
<1> QED BY <1>1, <1>2, <1>3, <1>4, <1>5, <1>6 DEF Deliver, Moves

\* Only an accepted copy stores an id, newer than the one remembered, and only a
\* picture of its own run, sent as new, counts as seen.
LEMMA CallStores ==
  ASSUME MediaAssumption, IInv, NEW t \in Requesters,
         RequestSample(t) \/ Deliver(t) \/ DeadlinePasses(t)
  PROVE  LET s == StreamOf[t] IN
         /\ \/ UNCHANGED stream
            \/ Accept(t) /\ stream'[s].last = bus.id /\ stream'[s].run = stream[s].run
         /\ \A r \in Streams \ {s} : stream'[r] = stream[r]
         /\ \/ UNCHANGED <<seen, shown>>
            \/ /\ Queue(t) /\ call[t].fresh /\ Own(t)
               /\ seen' = [seen EXCEPT ![s] = call[t].from.id]
               /\ shown' = [shown EXCEPT ![s] = Sample(t)]
<1> USE DEF IInv
<1>1. CASE Accept(t)
  <2>1. stream' = Consumed(t) /\ UNCHANGED <<seen, shown>>
    BY <1>1 DEF Accept
  <2>2. StreamOf[t] \in Streams
    BY DEF MediaAssumption
  <2> QED BY <1>1, <2>1, <2>2, AcceptedLast, ConsumedEffect
<1>2. CASE Queue(t)
  BY <1>2 DEF Queue
<1>3. CASE ~Accept(t) /\ ~Queue(t)
  BY <1>3 DEF Deliver, RequestSample, DeadlinePasses, TakeDeliverLock, Poll, ReadFormat, CheckSize,
     Attempt, NothingNew, NoSidecar, Reject, Wait, history
<1> QED BY <1>1, <1>2, <1>3

LEMMA NumberStep ==
  MediaAssumption /\ IInv /\ NumberInv /\ NewerInv /\ [Next]_vars => NumberInv'
<1> SUFFICES ASSUME MediaAssumption, IInv, NumberInv, NewerInv, [Next]_vars PROVE NumberInv'
  OBVIOUS
<1>0. \A u \in Requesters : StreamOf[u] \in Streams
  BY DEF MediaAssumption
<1>1. CASE UNCHANGED vars
  BY <1>1 DEF NumberInv, Delivering, vars, history
<1>2. CASE OpenWindow \/ CloseWindow
  <2>1. "id" \in DOMAIN bus' /\ bus'.id \in Nat /\ bus'.id >= bus.id
    <3>1. CASE CloseWindow
      BY <3>1 DEF CloseWindow, NumberInv
    <3>2. CASE bus' = [bus EXCEPT !.id = @ + 1, !.open = TRUE, !.jpeg = consumerMask = "mjpg"]
      BY <3>2 DEF NumberInv
    <3>3. CASE \E size : bus' = [id |-> bus.id + 1, size |-> size, jpeg |-> FALSE, open |-> TRUE]
      BY <3>3 DEF NumberInv
    <3> QED BY <1>2, <3>1, <3>2, <3>3 DEF OpenWindow
  <2>2. UNCHANGED <<stream, call, seen, shown>>
    BY <1>2 DEF OpenWindow, CloseWindow, history
  <2> QED BY <2>1, <2>2 DEF NumberInv, Delivering
<1>3. ASSUME NEW s \in Streams, ActivateObject(s) \/ SourceStop(s) \/ SourceShutdown(s)
      PROVE  NumberInv'
  <2>1. UNCHANGED <<bus, seen, shown, call>>
    BY <1>3, LastEffect, ControlEffect DEF IInv
  <2>2. \A r \in Streams : stream'[r].last = stream[r].last /\ stream'[r].run = stream[r].run
    BY <1>3, LastEffect, ControlEffect DEF IInv
  <2> QED BY <1>0, <2>1, <2>2 DEF NumberInv, Delivering
<1>4. ASSUME NEW s \in Streams, SourceStart(s) PROVE NumberInv'
  <2>1. /\ UNCHANGED <<bus, call>> /\ seen' = [seen EXCEPT ![s] = 0]
        /\ shown' = [shown EXCEPT ![s] = Black]
        /\ stream'[s].last = 0 /\ stream'[s].run = stream[s].run + 1
        /\ \A r \in Streams \ {s} : stream'[r] = stream[r]
    BY <1>4, LastEffect, StartsEffect DEF IInv
  <2>2. \A r \in Streams : stream'[r].run \in Nat /\ stream[r].run \in Nat
                           /\ stream'[r].run >= stream[r].run
    BY <2>1 DEF NumberInv
  <2>3. \A r \in Streams : stream'[r].last \in 0 .. bus'.id /\ seen'[r] \in 0 .. stream'[r].last
    BY <2>1 DEF NumberInv
  <2>4. \A u \in Requesters : Delivering(u)' => call'[u].run \in 0 .. stream'[StreamOf[u]].run
    BY <1>0, <2>1, <2>2 DEF NumberInv, Delivering
  <2> QED BY <2>1, <2>2, <2>3, <2>4 DEF NumberInv
<1>5. ASSUME NEW t \in Requesters, RequestSample(t) \/ Deliver(t) \/ DeadlinePasses(t)
      PROVE  NumberInv'
  <2> DEFINE s == StreamOf[t]
  <2>1. OnlyCall(t) /\ UNCHANGED bus
    BY <1>5, CallMoves
  <2>2. \A r \in Streams : stream'[r].run = stream[r].run
    BY <1>0, <1>5, CallStores
  <2>3. \A r \in Streams : stream'[r].last \in 0 .. bus.id /\ stream'[r].last >= stream[r].last
    <3>1. stream'[s].last \in {stream[s].last, bus.id}
      BY <1>5, CallStores
    <3>2. \A r \in Streams \ {s} : stream'[r] = stream[r]
      BY <1>5, CallStores
    <3>3. \A r \in Streams : bus.id \in Nat /\ stream[r].last \in 0 .. bus.id
      BY DEF NumberInv
    <3> HIDE DEF s
    <3> QED BY <3>1, <3>2, <3>3
  <2>a. DOMAIN shown' = Streams
    BY <1>5, CallStores DEF NumberInv
  <2>4. DOMAIN seen' = Streams /\ \A r \in Streams : seen'[r] \in 0 .. stream'[r].last
    <3>1. CASE UNCHANGED seen
      BY <2>3, <3>1 DEF NumberInv
    <3>2. CASE Queue(t) /\ call[t].fresh /\ Own(t) /\ seen' = [seen EXCEPT ![s] = call[t].from.id]
      <4>1. call[t].from.id = stream[s].last
        BY <3>2 DEF NewerInv
      <4>2. seen'[s] = stream[s].last /\ DOMAIN seen' = Streams
            /\ \A r \in Streams \ {s} : seen'[r] = seen[r]
        BY <1>0, <3>2, <4>1 DEF NumberInv
      <4> QED BY <1>0, <2>3, <4>2 DEF NumberInv
    <3> QED BY <1>5, <3>1, <3>2, CallStores
  <2>5. ASSUME NEW u \in Requesters, Delivering(u)'
        PROVE  call'[u].run \in 0 .. stream'[StreamOf[u]].run
    <3>1. \/ Delivering(u) /\ call'[u].run = call[u].run
          \/ call'[u].run = stream[StreamOf[u]].run
      BY <1>5, <2>1, <2>5, CallMoves DEF OnlyCall, Delivering
    <3> QED BY <1>0, <2>2, <3>1 DEF NumberInv
  <2>6. \A r \in Streams : stream'[r].run \in Nat
    BY <2>2 DEF NumberInv
  <2> QED BY <2>1, <2>3, <2>4, <2>5, <2>6, <2>a DEF NumberInv
<1> QED BY <1>1, <1>2, <1>3, <1>4, <1>5 DEF Next

\* What NewerInv says of one call.
NewerCall(u) == LET last == stream[StreamOf[u]].last IN
    /\ call[u].pc \in AtBus => last \in {call[u].last, 0}
    /\ call[u].pc = "copy" => call[u].from.id \in Nat /\ call[u].from.id >= last
    /\ call[u].fresh /\ Own(u) => call[u].from.id = last /\ seen[StreamOf[u]] < last

LEMMA NewerStep ==
  MediaAssumption /\ IInv /\ NumberInv /\ NewerInv /\ [Next]_vars => NewerInv'
<1> SUFFICES ASSUME MediaAssumption, IInv, NumberInv, NewerInv, [Next]_vars,
                    NEW u \in Requesters
             PROVE  NewerCall(u)'
  BY DEF NewerInv, NewerCall
<1> DEFINE s == StreamOf[u]
<1>0. s \in Streams /\ NewerCall(u)
  BY DEF MediaAssumption, NewerInv, NewerCall
<1>a. call[u].fresh => Delivering(u)
  BY DEF IInv, FreshInv, Delivering, InDelivery
\* A step that leaves the call and what its stream remembers alone.
<1>b. ASSUME call'[u] = call[u], stream'[s].last = stream[s].last,
             stream'[s].run = stream[s].run, seen'[s] = seen[s]
      PROVE  NewerCall(u)'
  BY <1>0, <1>b DEF NewerCall, Own
<1>1. CASE UNCHANGED vars \/ OpenWindow \/ CloseWindow
  BY <1>1, <1>b DEF OpenWindow, CloseWindow, vars, history
<1>2. CASE \E r \in Streams : ActivateObject(r) \/ SourceStop(r) \/ SourceShutdown(r)
  BY <1>0, <1>2, <1>b, LastEffect, ControlEffect DEF IInv
<1>3. ASSUME NEW r \in Streams, SourceStart(r) PROVE NewerCall(u)'
  <2>1. /\ UNCHANGED <<bus, call>> /\ seen' = [seen EXCEPT ![r] = 0]
        /\ stream'[r].last = 0 /\ stream'[r].run = stream[r].run + 1
        /\ \A q \in Streams \ {r} : stream'[q] = stream[q]
    BY <1>3, LastEffect, StartsEffect DEF IInv
  <2>2. CASE r # s
    BY <1>0, <1>b, <2>1, <2>2 DEF NumberInv
  <2>3. CASE r = s
    <3>1. call'[u].pc = "copy" => call'[u].from.id \in Nat /\ call'[u].from.id >= stream'[s].last
      BY <1>0, <2>1, <2>3 DEF NewerCall, NumberInv
    <3>2. call[u].fresh => call[u].run \in 0 .. stream[s].run
      BY <1>a DEF NumberInv
    <3>3. ~(call'[u].fresh /\ Own(u)')
      BY <1>0, <2>1, <2>3, <3>2 DEF Own, NumberInv
    <3> QED BY <2>1, <2>3, <3>1, <3>3 DEF NewerCall
  <2> QED BY <2>2, <2>3
<1>4. ASSUME NEW t \in Requesters, RequestSample(t) \/ Deliver(t) \/ DeadlinePasses(t)
      PROVE  NewerCall(u)'
  <2>1. OnlyCall(t) /\ UNCHANGED bus
    BY <1>4, CallMoves
  <2>2. CASE t = u
    <3>0. ASSUME call'[u].pc \in AtBus
          PROVE  UNCHANGED stream /\ stream'[s].last \in {call'[u].last, 0}
      <4>1. UNCHANGED stream
        BY <1>4, <2>2, <3>0, CallMoves, CallStores
      <4>2. \/ call[u].pc \in AtBus /\ call'[u].last = call[u].last
            \/ call'[u].last = stream[s].last
        BY <1>4, <2>2, <3>0, CallMoves
      <4> QED BY <1>0, <4>1, <4>2 DEF NewerCall
    <3>1. ASSUME call'[u].pc = "copy"
          PROVE  call'[u].from.id \in Nat /\ call'[u].from.id >= stream'[s].last
      <4>1. call'[u].from = bus
        BY <1>4, <2>2, <3>1, CallMoves
      <4>2. UNCHANGED stream
        BY <3>0, <3>1 DEF AtBus
      <4> QED BY <1>0, <4>1, <4>2 DEF NumberInv
    <3>2. ASSUME call'[u].fresh, Own(u)'
          PROVE  call'[u].from.id = stream'[s].last /\ seen'[s] < stream'[s].last
      <4>1. Accept(u)
        BY <1>4, <2>2, <3>2, CallMoves
      <4>2. /\ call'[u].from = bus /\ call[u].from = bus /\ call[u].pc = "copy"
            /\ bus.id \notin {0, call[u].last}
            /\ UNCHANGED seen /\ stream' = Consumed(u)
        BY <4>1, AcceptEffect DEF Accept, Known, IInv
      <4>3. stream'[s].last = bus.id
        BY <4>2, AcceptedLast DEF IInv
      <4>4. bus.id >= stream[s].last /\ bus.id # stream[s].last
        BY <1>0, <4>2 DEF NewerCall, AtBus
      <4> QED BY <1>0, <4>2, <4>3, <4>4 DEF NumberInv
    <3> QED BY <3>0, <3>1, <3>2 DEF NewerCall
  <2>3. CASE t # u /\ StreamOf[t] # s
    <3>1. stream'[s] = stream[s] /\ seen'[s] = seen[s]
      BY <1>0, <1>4, <2>3, CallStores DEF NumberInv
    <3> QED BY <1>b, <2>1, <2>3, <3>1 DEF OnlyCall
  <2>4. CASE t # u /\ StreamOf[t] = s /\ (Accept(t) \/ Queue(t))
    <3>1. Delivering(t)
      BY <2>4 DEF Accept, Queue, Delivering, InDelivery
    <3>2. ~Delivering(u)
      BY <2>4, <3>1 DEF IInv, LockInv
    <3>3. call[u].pc \notin AtBus /\ ~call[u].fresh
      BY <1>a, <3>2 DEF Delivering, InDelivery, AtBus
    <3>4. call'[u] = call[u]
      BY <2>1, <2>4 DEF OnlyCall
    <3> QED BY <3>3, <3>4 DEF NewerCall, AtBus
  <2>5. CASE t # u /\ StreamOf[t] = s /\ ~Accept(t) /\ ~Queue(t)
    <3>1. UNCHANGED <<stream, seen>>
      BY <1>4, <2>5, CallStores
    <3> QED BY <1>b, <2>1, <2>5, <3>1 DEF OnlyCall
  <2> QED BY <2>2, <2>3, <2>4, <2>5
<1> QED BY <1>1, <1>2, <1>3, <1>4 DEF Next

LEMMA Initially == MediaAssumption /\ Init => IInv
<1> SUFFICES ASSUME MediaAssumption, Init PROVE IInv
  OBVIOUS
<1>1. ShapeInv
  BY DEF Init, ShapeInv, IsCall, IsStream, Idle
<1>2. \A t \in Requesters : call[t].pc = "idle" /\ ~call[t].fresh
  BY DEF Init, Idle
<1>3. LockInv /\ FreshInv
  BY <1>2 DEF LockInv, FreshInv, Delivering, InDelivery
<1>4. \A s \in Streams : stream[s].run = 0 /\ DOMAIN staging[s] = {0}
  BY DEF Init
<1>5. HeldInv
  BY <1>2, <1>4 DEF HeldInv, Delivering, InDelivery
<1> QED BY <1>1, <1>3, <1>5 DEF IInv

-----------------------------------------------------------------------------
(* The theorems. *)

\* The invariant behind the result: the delivery lock is held once per stream,
\* whoever delivers has a buffer, and a fresh picture is in it.
THEOREM Invariant == Spec => []IInv
<1>1. Init => IInv
  BY Initially, MediaAssumption
<1>2. IInv /\ [Next]_vars => IInv'
  <2> SUFFICES ASSUME IInv, [Next]_vars PROVE IInv'
    OBVIOUS
  <2>1. ShapeInv' /\ LockInv' /\ HeldInv' /\ FreshInv'
    BY ShapeStep, LockStep, HeldStep, FreshStep, MediaAssumption
  <2> QED BY <2>1 DEF IInv
<1> QED BY <1>1, <1>2, PTL DEF Spec

\* A sample that is not a repeat is, whole, the frame its copy was accepted
\* for, whatever requests, Starts, Stops, windows and new sizes come in between; only
\* a YUY2 frame of another size than its call read is not (FrameBus.h:417-445).
THEOREM FreshWhole == Spec => []FreshIsWhole
<1>1. IInv => FreshIsWhole
  BY DEF IInv, FreshInv, FreshIsWhole, Whole
<1> QED BY <1>1, Invariant, PTL

\* A client was sent nothing newer than its stream remembers, and what is on its way
\* is newer than that (VCamSource.cpp, _lastFrameId).
THEOREM Ordered == Spec => []OrderInv
<1>1. Init => NumberInv /\ NewerInv
  <2> SUFFICES ASSUME Init PROVE NumberInv /\ NewerInv
    OBVIOUS
  <2>1. "id" \in DOMAIN bus /\ bus.id = 0
    BY DEF Init
  <2>2. \A t \in Requesters : call[t].pc = "idle" /\ ~call[t].fresh
    BY DEF Init, Idle
  <2>3. /\ DOMAIN seen = Streams /\ DOMAIN shown = Streams
        /\ \A s \in Streams : stream[s].run = 0 /\ stream[s].last = 0 /\ seen[s] = 0
    BY DEF Init
  <2> QED BY <2>1, <2>2, <2>3 DEF NumberInv, NewerInv, Delivering, InDelivery, AtBus
<1>2. IInv /\ NumberInv /\ NewerInv /\ [Next]_vars => NumberInv' /\ NewerInv'
  BY NumberStep, NewerStep, MediaAssumption
<1> QED BY <1>1, <1>2, Invariant, PTL DEF Spec, OrderInv

\* Within a run its client is never sent a frame as new twice, nor an older one
\* after a newer (VCamSource.cpp:690-719), whatever other runs' calls store.
THEOREM NothingTwice == Spec => NeverRepeats
<1>1. OrderInv /\ [Next]_vars =>
        [\A t \in Requesters : LET s == StreamOf[t] IN
            Queue(t) /\ Sent(t) /\ call[t].fresh /\ Own(t) => call[t].from.id > seen[s]]_vars
  <2>1. ASSUME MediaAssumption, NumberInv, NewerInv, NEW t \in Requesters, call[t].fresh, Own(t)
        PROVE  call[t].from.id > seen[StreamOf[t]]
    BY <2>1 DEF NumberInv, NewerInv, MediaAssumption
  <2> QED BY <2>1, MediaAssumption DEF OrderInv
<1> QED BY <1>1, Ordered, PTL DEF Spec, NeverRepeats
=============================================================================
