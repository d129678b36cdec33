------------------------- MODULE MediaRepeatProofs -------------------------
(***************************************************************************)
(* What a deadline repeats, for any streams, requesters, formats and       *)
(* bounds: the picture the run's client was last sent as new, as long as   *)
(* the host has opened no window since the bus was last read.              *)
(***************************************************************************)
EXTENDS MediaStreamProofs

-----------------------------------------------------------------------------
(* The inductive invariant. *)

\* Before it is activated a source runs nothing and delivers nothing.
BegunInv ==
    /\ DOMAIN source = Streams
    /\ \A s \in Streams : source[s] = "none" =>
          /\ ~Running(s)
          /\ \A t \in Requesters : StreamOf[t] = s => ~Delivering(t)

\* A call of the stream's run has the stream's type; a fresh JPEG is there to
\* be sent.
OwnTypeInv ==
    \A t \in Requesters : LET s == StreamOf[t] IN
        Delivering(t) =>
            /\ Own(t) => call[t].type = stream[s].type
            /\ call[t].fresh /\ call[t].type.sub = "mjpg" => stream[s].jpeg

\* No buffer is allocated ahead of its run.
RunsInv == \A s \in Streams : \A r \in DOMAIN staging[s] : r \in 0 .. stream[s].run

\* While a call of an earlier run has the delivery lock, this run has sent
\* nothing and its buffer is black.
OldRunInv ==
    \A t \in Requesters : LET s == StreamOf[t] IN
        Delivering(t) /\ ~Own(t) =>
            seen[s] = 0 /\ shown[s] = Black /\ staging[s][stream[s].run] = Black

\* An attempt begins outside a window: the bus has not changed since, or is ahead.
CopyInv ==
    \A t \in Requesters : call[t].pc = "copy" =>
        ~call[t].from.open /\ (bus = call[t].from \/ bus.id > call[t].from.id)

\* The buffer a sample of the stream is filled from has the picture its client
\* was sent last, unless the host is ahead or the next picture is about to go.
FreshOwn(t) == Delivering(t) /\ call[t].fresh /\ Own(t)
Shows(s) ==
    IF stream[s].type.sub = "mjpg" THEN seen[s] > 0 => jpegStaging[s] = shown[s]
                                   ELSE staging[s][stream[s].run] = shown[s]
ShowsInv ==
    \A s \in Streams : Running(s) =>
        \/ bus.id > stream[s].last
        \/ \E t \in Requesters : StreamOf[t] = s /\ FreshOwn(t)
        \/ Shows(s)

RepeatInv == BegunInv /\ OwnTypeInv /\ RunsInv /\ OldRunInv /\ CopyInv /\ ShowsInv

-----------------------------------------------------------------------------
(* What the steps do to the fields of a stream and to its buffers. *)

CallStep(t) == RequestSample(t) \/ Deliver(t) \/ DeadlinePasses(t)
ControlStep(s) == ActivateObject(s) \/ SourceStop(s) \/ SourceShutdown(s)

LEMMA ControlFields ==
  ASSUME ShapeInv, BegunInv, NEW s \in Streams, ControlStep(s)
  PROVE  /\ DOMAIN source' = Streams /\ source'[s] # "none" /\ ~stream'[s].running
         /\ \A r \in Streams \ {s} : source'[r] = source[r] /\ stream'[r] = stream[r]
<1>1. IsStream(stream[s]) /\ DOMAIN stream = Streams /\ DOMAIN source = Streams
  BY DEF ShapeInv, BegunInv
<1>2. CASE ActivateObject(s)
  <2>1. /\ source[s] = "none" /\ source' = [source EXCEPT ![s] = "live"]
        /\ stream' = [stream EXCEPT ![s].type = DefaultType(bus.size)]
    BY <1>2 DEF ActivateObject, Initialize
  <2>2. ~stream[s].running
    BY <2>1 DEF BegunInv, Running
  <2> QED BY <1>1, <2>1, <2>2 DEF IsStream
<1>3. CASE SourceStop(s) \/ SourceShutdown(s)
  <2>1. /\ source[s] = "live" /\ (UNCHANGED source \/ source' = [source EXCEPT ![s] = "shutdown"])
        /\ stream' = [stream EXCEPT ![s] = Stopped(s)]
    BY <1>3 DEF SourceStop, StreamStop, SourceShutdown
  <2>2. ~Stopped(s).running
    BY <1>1 DEF Stopped, IsStream
  <2> QED BY <1>1, <2>1, <2>2
<1> QED BY <1>2, <1>3 DEF ControlStep

LEMMA CallFields ==
  ASSUME MediaAssumption, IInv, NEW t \in Requesters, CallStep(t), NEW r \in Streams
  PROVE  /\ UNCHANGED source
         /\ stream'[r].run = stream[r].run /\ stream'[r].type = stream[r].type
         /\ stream'[r].running = stream[r].running
         /\ stream[r].jpeg => stream'[r].jpeg
         /\ Accept(t) /\ r = StreamOf[t] /\ call[t].type.sub = "mjpg" => stream'[r].jpeg
<1>1. CASE Accept(t)
  <2>1. StreamOf[t] \in Streams
    BY DEF MediaAssumption
  <2>2. /\ stream' = [stream EXCEPT ![StreamOf[t]].last = bus.id,
                                    ![StreamOf[t]].jpeg = @ \/ call[t].type.sub = "mjpg"]
        /\ UNCHANGED source
    BY <1>1 DEF Accept, Consumed
  <2>3. DOMAIN stream = Streams /\ IsStream(stream[StreamOf[t]])
    BY <2>1 DEF IInv, ShapeInv
  <2>4. CASE r # StreamOf[t]
    BY <2>2, <2>3, <2>4
  <2>5. CASE r = StreamOf[t]
    <3>1. stream'[r] = [stream[r] EXCEPT !.last = bus.id,
                                         !.jpeg = @ \/ call[t].type.sub = "mjpg"]
      BY <2>2, <2>3, <2>5
    <3>2. /\ stream'[r].run = stream[r].run /\ stream'[r].type = stream[r].type
          /\ stream'[r].running = stream[r].running
          /\ stream'[r].jpeg = (stream[r].jpeg \/ call[t].type.sub = "mjpg")
      BY <2>3, <2>5, <3>1 DEF IsStream
    <3> QED BY <2>2, <3>2
  <2> QED BY <2>4, <2>5
<1>2. CASE ~Accept(t)
  BY <1>2 DEF CallStep, Deliver, RequestSample, DeadlinePasses, TakeDeliverLock, Poll,
     ReadFormat, CheckSize, Attempt, NothingNew, NoSidecar, Reject, Wait, Queue, history
<1> QED BY <1>1, <1>2

\* A step of a call leaves the other streams' buffers alone, and that of its own
\* stream's run, unless it copies into it.
LEMMA CallBuffers ==
  ASSUME MediaAssumption, IInv, NEW t \in Requesters, CallStep(t)
  PROVE  LET s == StreamOf[t] IN
         /\ \A r \in Streams \ {s} :
               staging'[r] = staging[r] /\ jpegStaging'[r] = jpegStaging[r]
         /\ \/ DOMAIN staging'[s] = DOMAIN staging[s]
            \/ DOMAIN staging'[s] = {stream[s].run} \cup HeldRuns(s, call')
         /\ Accept(t) \/ Reject(t) \/ UNCHANGED jpegStaging
         /\ \/ Own(t) /\ (Accept(t) \/ Reject(t))
            \/ staging'[s][stream[s].run] = staging[s][stream[s].run]
<1> DEFINE s == StreamOf[t]
<1>0. s \in Streams /\ stream[s].run \in DOMAIN staging[s] /\ ShapeInv /\ HeldInv
  BY DEF MediaAssumption, IInv, HeldInv
<1>1. CASE Accept(t) \/ Reject(t)
  <2>1. Delivering(t)
    BY <1>1 DEF Accept, Reject, Delivering, InDelivery
  <2>2. CASE \E p : Copied(t, p)
    BY <1>0, <1>1, <2>1, <2>2, CopyEffect DEF Own
  <2>3. CASE UNCHANGED <<staging, jpegStaging>>
    BY <1>1, <2>3
  <2> QED BY <1>1, <2>2, <2>3 DEF Accept, Reject
<1>2. CASE call' = Return(t) /\ staging' = Released(t) /\ UNCHANGED jpegStaging
  <2>1. /\ \A r \in Streams \ {s} : staging'[r] = staging[r]
        /\ DOMAIN staging'[s] = {stream[s].run} \cup HeldRuns(s, call')
        /\ \A r \in DOMAIN staging'[s] \cap DOMAIN staging[s] : staging'[s][r] = staging[s][r]
    BY <1>0, <1>2, ReturnsEffect
  <2>2. stream[s].run \in DOMAIN staging'[s] \cap DOMAIN staging[s]
    BY <1>0, <2>1
  <2> QED BY <1>2, <2>1, <2>2
<1>3. CASE UNCHANGED <<staging, jpegStaging>>
  BY <1>3
<1> QED BY <1>1, <1>2, <1>3 DEF CallStep, Deliver, RequestSample, DeadlinePasses, TakeDeliverLock,
           Poll, ReadFormat, CheckSize, Attempt, NothingNew, NoSidecar, Wait, Queue, history

-----------------------------------------------------------------------------
(* The steps. *)

LEMMA BegunStep ==
  ASSUME MediaAssumption, IInv, BegunInv, [Next]_vars
  PROVE  BegunInv'
<1>1. CASE UNCHANGED vars \/ OpenWindow \/ CloseWindow
  BY <1>1 DEF OpenWindow, CloseWindow, vars, BegunInv, Running, Delivering
<1>2. ASSUME NEW s \in Streams, ControlStep(s) PROVE BegunInv'
  <2>1. UNCHANGED call
    BY <1>2, ControlEffect DEF ControlStep, IInv
  <2>2. /\ DOMAIN source' = Streams /\ source'[s] # "none"
        /\ \A r \in Streams \ {s} : source'[r] = source[r] /\ stream'[r] = stream[r]
    BY <1>2, ControlFields DEF IInv
  <2> QED BY <2>1, <2>2 DEF BegunInv, Running, Delivering
<1>3. ASSUME NEW s \in Streams, SourceStart(s) PROVE BegunInv'
  <2>1. UNCHANGED <<source, call>> /\ source[s] = "live"
    BY <1>3 DEF SourceStart, StreamStart
  <2>2. \A r \in Streams \ {s} : stream'[r] = stream[r]
    BY <1>3, LastEffect DEF IInv
  <2> QED BY <2>1, <2>2 DEF BegunInv, Running, Delivering
<1>4. ASSUME NEW t \in Requesters, CallStep(t) PROVE BegunInv'
  <2>1. UNCHANGED source /\ \A r \in Streams : stream'[r].running = stream[r].running
    BY <1>4, CallFields
  <2>2. /\ OnlyCall(t)
        /\ Delivering(t)' => Delivering(t) \/ Running(StreamOf[t])
    BY <1>4, CallMoves DEF CallStep
  <2>3. \A u \in Requesters \ {t} : Delivering(u)' => Delivering(u)
    BY <2>2 DEF OnlyCall, Delivering
  <2> QED BY <2>1, <2>2, <2>3 DEF BegunInv, Running
<1> QED BY <1>1, <1>2, <1>3, <1>4 DEF Next, ControlStep, CallStep

LEMMA OwnTypeStep ==
  ASSUME MediaAssumption, OrderInv, BegunInv, OwnTypeInv, [Next]_vars
  PROVE  OwnTypeInv'
<1> SUFFICES ASSUME NEW u \in Requesters, Delivering(u)'
             PROVE  /\ Own(u)' => call'[u].type = stream'[StreamOf[u]].type
                    /\ call'[u].fresh /\ call'[u].type.sub = "mjpg" => stream'[StreamOf[u]].jpeg
  BY DEF OwnTypeInv
<1> DEFINE s == StreamOf[u]
<1>0. s \in Streams /\ IInv /\ NumberInv
  BY DEF MediaAssumption, OrderInv
\* A step that leaves the call alone, and the stream's type and run.
<1>a. ASSUME call'[u] = call[u], stream'[s].type = stream[s].type, stream'[s].run = stream[s].run,
             stream[s].jpeg => stream'[s].jpeg
      PROVE  /\ Own(u)' => call'[u].type = stream'[StreamOf[u]].type
             /\ call'[u].fresh /\ call'[u].type.sub = "mjpg" => stream'[StreamOf[u]].jpeg
  <2>1. Delivering(u) /\ (Own(u)' <=> Own(u))
    BY <1>a DEF Delivering, Own
  <2> QED BY <1>a, <2>1 DEF OwnTypeInv
<1>1. CASE UNCHANGED vars \/ OpenWindow \/ CloseWindow
  BY <1>1, <1>a DEF OpenWindow, CloseWindow, vars
<1>2. ASSUME NEW r \in Streams, ActivateObject(r)
      PROVE  /\ Own(u)' => call'[u].type = stream'[StreamOf[u]].type
             /\ call'[u].fresh /\ call'[u].type.sub = "mjpg" => stream'[StreamOf[u]].jpeg
  <2>1. UNCHANGED call /\ source[r] = "none" /\ (r # s => stream'[s] = stream[s])
    BY <1>0, <1>2, ControlFields DEF ActivateObject, ControlStep, IInv
  <2>2. r # s
    BY <2>1 DEF BegunInv, Delivering
  <2> QED BY <1>a, <2>1, <2>2
<1>3. ASSUME NEW r \in Streams, SourceStop(r) \/ SourceShutdown(r)
      PROVE  /\ Own(u)' => call'[u].type = stream'[StreamOf[u]].type
             /\ call'[u].fresh /\ call'[u].type.sub = "mjpg" => stream'[StreamOf[u]].jpeg
  <2>1. UNCHANGED call /\ stream' = [stream EXCEPT ![r] = Stopped(r)]
    BY <1>3 DEF SourceStop, StreamStop, SourceShutdown
  <2>2. DOMAIN stream = Streams /\ IsStream(stream[r])
    BY <1>0 DEF IInv, ShapeInv
  <2>3. /\ Stopped(r).type = stream[r].type /\ Stopped(r).run = stream[r].run
        /\ Stopped(r).jpeg = stream[r].jpeg
    BY <2>2 DEF Stopped, IsStream
  <2> QED BY <1>0, <1>a, <2>1, <2>2, <2>3
<1>4. ASSUME NEW r \in Streams, SourceStart(r)
      PROVE  /\ Own(u)' => call'[u].type = stream'[StreamOf[u]].type
             /\ call'[u].fresh /\ call'[u].type.sub = "mjpg" => stream'[StreamOf[u]].jpeg
  <2>1. CASE r # s
    <3>1. UNCHANGED call /\ \A q \in Streams \ {r} : stream'[q] = stream[q]
      BY <1>0, <1>4, LastEffect, StartsEffect DEF IInv
    <3> QED BY <1>0, <1>a, <2>1, <3>1
  <2>2. CASE r = s
    <3>1. UNCHANGED call /\ stream'[s].run = stream[s].run + 1
      BY <1>0, <1>4, <2>2, LastEffect, StartsEffect DEF IInv
    <3>2. Delivering(u) /\ call[u].run \in 0 .. stream[s].run /\ stream[s].run \in Nat
      BY <1>0, <3>1 DEF NumberInv, Delivering
    <3>3. ~Own(u)'
      BY <3>1, <3>2 DEF Own
    <3>4. PICK ty : stream' = [stream EXCEPT ![s] = Started(s, ty)]
      BY <1>4, <2>2 DEF SourceStart, StreamStart
    <3>5. DOMAIN stream = Streams /\ IsStream(stream[s])
      BY <1>0 DEF IInv, ShapeInv
    <3>6. stream'[s].jpeg = stream[s].jpeg
      BY <1>0, <3>4, <3>5 DEF Started, IsStream
    <3> QED BY <3>1, <3>2, <3>3, <3>6 DEF OwnTypeInv
  <2> QED BY <2>1, <2>2
<1>5. ASSUME NEW t \in Requesters, CallStep(t)
      PROVE  /\ Own(u)' => call'[u].type = stream'[StreamOf[u]].type
             /\ call'[u].fresh /\ call'[u].type.sub = "mjpg" => stream'[StreamOf[u]].jpeg
  <2>1. /\ stream'[s].run = stream[s].run /\ stream'[s].type = stream[s].type
        /\ stream[s].jpeg => stream'[s].jpeg
        /\ Accept(t) /\ s = StreamOf[t] /\ call[t].type.sub = "mjpg" => stream'[s].jpeg
    BY <1>0, <1>5, CallFields
  <2>2. CASE t # u
    BY <1>0, <1>5, <1>a, <2>1, <2>2, CallMoves DEF CallStep, OnlyCall
  <2>3. CASE t = u
    <3>1. /\ \/ /\ Delivering(u)
                /\ call'[u].run = call[u].run /\ call'[u].type = call[u].type
             \/ call'[u].run = stream[s].run /\ call'[u].type = stream[s].type
          /\ call'[u].fresh => Accept(u)
      BY <1>0, <1>5, <2>3, CallMoves DEF CallStep
    <3>2. Own(u)' => call'[u].type = stream'[s].type
      BY <2>1, <3>1 DEF Own, OwnTypeInv
    <3>3. Accept(u) => call'[u].type = call[u].type
      BY <1>0, AcceptEffect DEF IInv
    <3> QED BY <2>1, <2>3, <3>1, <3>2, <3>3
  <2> QED BY <2>2, <2>3
<1> QED BY <1>1, <1>2, <1>3, <1>4, <1>5 DEF Next, CallStep

LEMMA RunsStep ==
  ASSUME MediaAssumption, OrderInv, NumberInv', RunsInv, [Next]_vars
  PROVE  RunsInv'
<1>0. IInv /\ \A u \in Requesters : StreamOf[u] \in Streams
  BY DEF MediaAssumption, OrderInv
\* The runs that the calls hold are not ahead.
<1>a. ASSUME NEW r \in Streams, DOMAIN staging'[r] = {stream'[r].run} \cup HeldRuns(r, call')
      PROVE  \A n \in DOMAIN staging'[r] : n \in 0 .. stream'[r].run
  <2>1. \A n \in HeldRuns(r, call') : n \in 0 .. stream'[r].run
    BY DEF HeldRuns, NumberInv, Delivering
  <2>2. stream'[r].run \in 0 .. stream'[r].run
    BY DEF NumberInv
  <2> QED BY <1>a, <2>1, <2>2
<1>b. ASSUME NEW r \in Streams, DOMAIN staging'[r] = DOMAIN staging[r],
             stream'[r].run = stream[r].run
      PROVE  \A n \in DOMAIN staging'[r] : n \in 0 .. stream'[r].run
  BY <1>b DEF RunsInv
<1>1. CASE UNCHANGED vars \/ OpenWindow \/ CloseWindow
  BY <1>1, <1>b DEF OpenWindow, CloseWindow, vars, RunsInv
<1>2. ASSUME NEW s \in Streams, ControlStep(s) PROVE RunsInv'
  BY <1>0, <1>2, <1>b, ControlEffect DEF ControlStep, IInv, RunsInv
<1>3. ASSUME NEW s \in Streams, SourceStart(s) PROVE RunsInv'
  <2>1. /\ DOMAIN staging'[s] = {stream'[s].run} \cup HeldRuns(s, call')
        /\ \A r \in Streams \ {s} : staging'[r] = staging[r] /\ stream'[r].run = stream[r].run
    BY <1>0, <1>3, StartsEffect DEF IInv
  <2> QED BY <1>a, <1>b, <2>1 DEF RunsInv
<1>4. ASSUME NEW t \in Requesters, CallStep(t) PROVE RunsInv'
  <2>1. \A r \in Streams : stream'[r].run = stream[r].run
    BY <1>0, <1>4, CallFields
  <2>2. /\ \A r \in Streams \ {StreamOf[t]} : staging'[r] = staging[r]
        /\ \/ DOMAIN staging'[StreamOf[t]] = DOMAIN staging[StreamOf[t]]
           \/ DOMAIN staging'[StreamOf[t]] =
                 {stream[StreamOf[t]].run} \cup HeldRuns(StreamOf[t], call')
    BY <1>0, <1>4, CallBuffers
  <2> QED BY <1>0, <1>a, <1>b, <2>1, <2>2 DEF RunsInv
<1> QED BY <1>1, <1>2, <1>3, <1>4 DEF Next, ControlStep, CallStep

LEMMA OldRunStep ==
  ASSUME MediaAssumption, OrderInv, RunsInv, OldRunInv, [Next]_vars
  PROVE  OldRunInv'
<1> SUFFICES ASSUME NEW u \in Requesters, Delivering(u)', ~Own(u)'
             PROVE  LET s == StreamOf[u] IN
                    /\ seen'[s] = 0 /\ shown'[s] = Black
                    /\ staging'[s][stream'[s].run] = Black
  BY DEF OldRunInv
<1> DEFINE s == StreamOf[u]
<1>0. s \in Streams /\ IInv /\ NumberInv
  BY DEF MediaAssumption, OrderInv
\* A step that leaves the call alone, and the stream and its run's buffer.
<1>a. ASSUME call'[u] = call[u], stream'[s].run = stream[s].run, seen'[s] = seen[s],
             shown'[s] = shown[s], staging'[s][stream[s].run] = staging[s][stream[s].run]
      PROVE  seen'[s] = 0 /\ shown'[s] = Black /\ staging'[s][stream'[s].run] = Black
  <2>1. Delivering(u) /\ ~Own(u)
    BY <1>a DEF Delivering, Own
  <2> QED BY <1>a, <2>1 DEF OldRunInv
<1>1. CASE UNCHANGED vars \/ OpenWindow \/ CloseWindow
  BY <1>1, <1>a DEF OpenWindow, CloseWindow, vars, history
<1>2. ASSUME NEW r \in Streams, ControlStep(r)
      PROVE  seen'[s] = 0 /\ shown'[s] = Black /\ staging'[s][stream'[s].run] = Black
  <2>1. UNCHANGED <<call, staging, seen, shown>> /\ stream'[s].run = stream[s].run
    BY <1>0, <1>2, ControlEffect, LastEffect DEF ControlStep, IInv
  <2> QED BY <1>a, <2>1
<1>3. ASSUME NEW r \in Streams, SourceStart(r)
      PROVE  seen'[s] = 0 /\ shown'[s] = Black /\ staging'[s][stream'[s].run] = Black
  <2>1. /\ UNCHANGED call /\ seen' = [seen EXCEPT ![r] = 0] /\ shown' = [shown EXCEPT ![r] = Black]
        /\ \A q \in Streams \ {r} : stream'[q] = stream[q] /\ staging'[q] = staging[q]
    BY <1>0, <1>3, LastEffect, StartsEffect DEF IInv
  <2>2. CASE r # s
    BY <1>0, <1>a, <2>1, <2>2 DEF NumberInv
  <2>3. CASE r = s
    <3>1. stream[s].run + 1 \notin DOMAIN staging[s]
      BY <1>0 DEF RunsInv, NumberInv
    <3>2. PICK ty : StreamStart(s, ty)
      BY <1>3, <2>3 DEF SourceStart
    <3>3. staging'[s][stream'[s].run] = Black
      BY <1>0, <3>1, <3>2, StartsBlack DEF IInv
    <3> QED BY <1>0, <2>1, <2>3, <3>3 DEF NumberInv
  <2> QED BY <2>2, <2>3
<1>4. ASSUME NEW t \in Requesters, CallStep(t)
      PROVE  seen'[s] = 0 /\ shown'[s] = Black /\ staging'[s][stream'[s].run] = Black
  <2>1. stream'[s].run = stream[s].run /\ OnlyCall(t)
    BY <1>0, <1>4, CallFields, CallMoves DEF CallStep
  <2>2. CASE s # StreamOf[t]
    <3>1. /\ staging'[s] = staging[s] /\ seen'[s] = seen[s] /\ shown'[s] = shown[s]
          /\ call'[u] = call[u]
      BY <1>0, <1>4, <2>1, <2>2, CallBuffers, CallStores DEF CallStep, NumberInv, OnlyCall
    <3> QED BY <1>a, <2>1, <3>1
  <2>3. CASE s = StreamOf[t] /\ t # u
    <3>1. call'[u] = call[u] /\ Delivering(u)
      BY <2>1, <2>3 DEF OnlyCall, Delivering
    <3>2. ~Delivering(t)
      BY <1>0, <2>3, <3>1 DEF IInv, LockInv
    <3>3. ~Accept(t) /\ ~Reject(t) /\ ~Queue(t)
      BY <3>2 DEF Accept, Reject, Queue, Delivering, InDelivery
    <3>4. /\ seen'[s] = seen[s] /\ shown'[s] = shown[s]
          /\ staging'[s][stream[s].run] = staging[s][stream[s].run]
      BY <1>0, <1>4, <2>3, <3>3, CallBuffers, CallStores DEF CallStep
    <3> QED BY <1>a, <2>1, <3>1, <3>4
  <2>4. CASE t = u
    <3>1. Delivering(u) /\ call'[u].run = call[u].run
      BY <1>0, <1>4, <2>1, <2>4, CallMoves DEF CallStep, Own
    <3>2. ~Own(u)
      BY <2>1, <3>1 DEF Own
    <3>3. /\ seen'[s] = seen[s] /\ shown'[s] = shown[s]
          /\ staging'[s][stream[s].run] = staging[s][stream[s].run]
      BY <1>0, <1>4, <2>4, <3>2, CallBuffers, CallStores DEF CallStep
    <3> QED BY <2>1, <3>1, <3>2, <3>3 DEF OldRunInv
  <2> QED BY <2>2, <2>3, <2>4
<1> QED BY <1>1, <1>2, <1>3, <1>4 DEF Next, ControlStep, CallStep

LEMMA CopyStep ==
  ASSUME MediaAssumption, OrderInv, CopyInv, [Next]_vars
  PROVE  CopyInv'
<1>0. IInv /\ NumberInv /\ NewerInv
  BY DEF OrderInv
<1>1. CASE UNCHANGED <<bus, call>>
  BY <1>1 DEF CopyInv
<1>2. CASE OpenWindow
  <2>0. "id" \in DOMAIN bus /\ bus.id \in Nat
    BY <1>0 DEF NumberInv
  <2>1. UNCHANGED call /\ bus'.id = bus.id + 1
    <3>1. CASE bus' = [bus EXCEPT !.id = @ + 1, !.open = TRUE, !.jpeg = consumerMask = "mjpg"]
      BY <1>2, <2>0, <3>1 DEF OpenWindow
    <3>2. CASE \E size : bus' = [id |-> bus.id + 1, size |-> size, jpeg |-> FALSE, open |-> TRUE]
      BY <1>2, <3>2 DEF OpenWindow
    <3> QED BY <1>2, <3>1, <3>2 DEF OpenWindow
  <2>2. \A t \in Requesters : call[t].pc = "copy" => call[t].from.id \in Nat
    BY <1>0 DEF NewerInv
  <2> QED BY <2>0, <2>1, <2>2 DEF CopyInv
<1>3. CASE CloseWindow
  <2>1. UNCHANGED call /\ bus.open /\ bus'.id = bus.id
    BY <1>0, <1>3 DEF CloseWindow, NumberInv
  <2> QED BY <2>1 DEF CopyInv
<1>4. ASSUME NEW s \in Streams, ControlStep(s) \/ SourceStart(s) PROVE CopyInv'
  <2>1. UNCHANGED <<bus, call>>
    BY <1>0, <1>4, ControlEffect, StartsEffect, LastEffect DEF ControlStep, IInv
  <2> QED BY <1>1, <2>1
<1>5. ASSUME NEW t \in Requesters, CallStep(t) PROVE CopyInv'
  <2>1. /\ OnlyCall(t) /\ UNCHANGED bus
        /\ call'[t].pc = "copy" => call'[t].from = bus /\ ~bus.open
    BY <1>0, <1>5, CallMoves DEF CallStep
  <2> QED BY <2>1 DEF CopyInv, OnlyCall
<1> QED BY <1>1, <1>2, <1>3, <1>4, <1>5 DEF Next, ControlStep, CallStep, vars

\* A step that leaves the stream, its buffers and its fresh picture alone.
LEMMA ShowsStays ==
  ASSUME MediaAssumption, NumberInv, ShowsInv, NEW s \in Streams, stream'[s].running,
         bus'.id \in Nat, bus'.id >= bus.id,
         stream'[s] = stream[s], seen'[s] = seen[s], shown'[s] = shown[s],
         jpegStaging'[s] = jpegStaging[s],
         staging'[s][stream[s].run] = staging[s][stream[s].run],
         \A t \in Requesters : StreamOf[t] = s /\ FreshOwn(t) => call'[t] = call[t]
  PROVE  \/ bus'.id > stream'[s].last
         \/ \E t \in Requesters : StreamOf[t] = s /\ FreshOwn(t)'
         \/ Shows(s)'
<1>1. Running(s)
  BY DEF Running
<1>2. CASE bus.id > stream[s].last
  BY <1>2 DEF NumberInv
<1>3. ASSUME NEW t \in Requesters, StreamOf[t] = s, FreshOwn(t) PROVE FreshOwn(t)'
  BY <1>3 DEF FreshOwn, Delivering, InDelivery, Own
<1>4. CASE Shows(s)
  <2>1. Shows(s)'
    BY <1>4 DEF Shows
  <2> QED BY <2>1
<1> QED BY <1>1, <1>2, <1>3, <1>4 DEF ShowsInv

LEMMA ShowsStep ==
  ASSUME MediaAssumption, OrderInv, RepeatInv, [Next]_vars
  PROVE  ShowsInv'
<1> SUFFICES ASSUME NEW s \in Streams, stream'[s].running
             PROVE  \/ bus'.id > stream'[s].last
                    \/ \E t \in Requesters : StreamOf[t] = s /\ FreshOwn(t)'
                    \/ Shows(s)'
  BY DEF ShowsInv, Running
<1>0. /\ IInv /\ NumberInv /\ NewerInv
      /\ BegunInv /\ OwnTypeInv /\ RunsInv /\ OldRunInv /\ CopyInv /\ ShowsInv
  BY DEF OrderInv, RepeatInv
<1> DEFINE StillShows ==
              \/ bus'.id > stream'[s].last
              \/ \E t \in Requesters : StreamOf[t] = s /\ FreshOwn(t)'
              \/ Shows(s)'
<1>1. CASE UNCHANGED vars
  BY <1>0, <1>1, ShowsStays DEF vars, history, NumberInv
<1>2. CASE OpenWindow \/ CloseWindow
  <2>0. "id" \in DOMAIN bus /\ bus.id \in Nat
    BY <1>0 DEF NumberInv
  <2>1. bus'.id \in Nat /\ bus'.id >= bus.id
    <3>1. CASE CloseWindow
      BY <2>0, <3>1 DEF CloseWindow
    <3>2. CASE bus' = [bus EXCEPT !.id = @ + 1, !.open = TRUE, !.jpeg = consumerMask = "mjpg"]
      BY <2>0, <3>2
    <3>3. CASE \E size : bus' = [id |-> bus.id + 1, size |-> size, jpeg |-> FALSE, open |-> TRUE]
      BY <2>0, <3>3
    <3> QED BY <1>2, <3>1, <3>2, <3>3 DEF OpenWindow
  <2>2. UNCHANGED <<stream, seen, shown, staging, jpegStaging, call>>
    BY <1>2 DEF OpenWindow, CloseWindow, history
  <2> QED BY <1>0, <2>1, <2>2, ShowsStays
<1>3. ASSUME NEW r \in Streams, ControlStep(r) PROVE StillShows
  <2>1. /\ ~stream'[r].running
        /\ \A q \in Streams \ {r} : stream'[q] = stream[q]
    BY <1>0, <1>3, ControlFields DEF IInv
  <2>2. UNCHANGED <<bus, seen, shown, staging, jpegStaging, call>>
    BY <1>0, <1>3, ControlEffect, LastEffect DEF ControlStep, IInv
  <2>3. r # s /\ stream'[s] = stream[s]
    BY <2>1
  <2> QED BY <1>0, <2>2, <2>3, ShowsStays DEF NumberInv
<1>4. ASSUME NEW r \in Streams, SourceStart(r) PROVE StillShows
  <2>1. /\ UNCHANGED <<bus, call, jpegStaging>>
        /\ seen' = [seen EXCEPT ![r] = 0] /\ shown' = [shown EXCEPT ![r] = Black]
        /\ \A q \in Streams \ {r} : stream'[q] = stream[q] /\ staging'[q] = staging[q]
    BY <1>0, <1>4, LastEffect, StartsEffect DEF IInv
  <2>2. CASE r # s
    <3>1. /\ stream'[s] = stream[s] /\ staging'[s] = staging[s]
          /\ seen'[s] = seen[s] /\ shown'[s] = shown[s]
      BY <1>0, <2>1, <2>2 DEF NumberInv
    <3> QED BY <1>0, <2>1, <3>1, ShowsStays DEF NumberInv
  <2>3. CASE r = s
    <3>1. stream[s].run + 1 \notin DOMAIN staging[s]
      BY <1>0 DEF RunsInv, NumberInv
    <3>2. PICK ty : StreamStart(s, ty)
      BY <1>4, <2>3 DEF SourceStart
    <3>3. staging'[s][stream'[s].run] = Black
      BY <1>0, <3>1, <3>2, StartsBlack DEF IInv
    <3>4. seen'[s] = 0 /\ shown'[s] = Black
      BY <1>0, <2>1, <2>3 DEF NumberInv
    <3>5. Shows(s)'
      BY <3>3, <3>4 DEF Shows, Black
    <3> QED BY <3>5
  <2> QED BY <2>2, <2>3
<1>5. ASSUME NEW t \in Requesters, CallStep(t) PROVE StillShows
  <2>1. /\ OnlyCall(t) /\ UNCHANGED bus
        /\ stream'[s].run = stream[s].run /\ stream'[s].type = stream[s].type
        /\ stream'[s].running = stream[s].running
    BY <1>0, <1>5, CallMoves, CallFields DEF CallStep
  <2>2. CASE s # StreamOf[t]
    <3>1. /\ stream'[s] = stream[s] /\ seen'[s] = seen[s] /\ shown'[s] = shown[s]
          /\ staging'[s] = staging[s] /\ jpegStaging'[s] = jpegStaging[s]
      BY <1>0, <1>5, <2>2, CallBuffers, CallStores DEF CallStep, NumberInv
    <3>2. \A u \in Requesters : StreamOf[u] = s => call'[u] = call[u]
      BY <2>1, <2>2 DEF OnlyCall
    <3> QED BY <1>0, <2>1, <3>1, <3>2, ShowsStays DEF NumberInv
  <2>3. CASE s = StreamOf[t] /\ Accept(t) /\ Own(t)
    <3>1. call'[t].fresh /\ call'[t].pc = "queue" /\ call'[t].run = call[t].run
      BY <1>0, <2>3, AcceptEffect DEF IInv
    <3>2. FreshOwn(t)'
      BY <2>1, <2>3, <3>1 DEF FreshOwn, Delivering, InDelivery, Own
    <3> QED BY <2>3, <3>2
  <2>4. CASE s = StreamOf[t] /\ Accept(t) /\ ~Own(t)
    <3>1. seen[s] = 0 /\ shown[s] = Black /\ staging[s][stream[s].run] = Black
      BY <1>0, <2>4 DEF OldRunInv, Accept, Delivering, InDelivery
    <3>2. /\ seen'[s] = seen[s] /\ shown'[s] = shown[s]
          /\ staging'[s][stream[s].run] = staging[s][stream[s].run]
      BY <1>0, <1>5, <2>4, CallBuffers DEF Accept
    <3>3. Shows(s)'
      BY <2>1, <3>1, <3>2 DEF Shows, Black
    <3> QED BY <3>3
  <2>5. CASE s = StreamOf[t] /\ Reject(t)
    <3>1. bus.id > call[t].from.id /\ UNCHANGED stream
      BY <1>0, <2>5 DEF CopyInv, Reject, Untorn
    <3>2. call[t].from.id \in Nat /\ call[t].from.id >= stream[s].last
      BY <1>0, <2>5 DEF NewerInv, Reject
    <3>3. bus'.id > stream'[s].last
      BY <1>0, <2>1, <3>1, <3>2 DEF NumberInv
    <3> QED BY <3>3
  <2>6. CASE s = StreamOf[t] /\ Queue(t) /\ FreshOwn(t)
    <3>2. call[t].type = stream[s].type
      BY <1>0, <2>6 DEF OwnTypeInv, FreshOwn
    <3>3. Running(s) /\ (call[t].type.sub = "mjpg" => stream[s].jpeg)
      BY <1>0, <2>1, <2>6 DEF OwnTypeInv, FreshOwn, Running
    <3>4. shown' = [shown EXCEPT ![s] = Sample(t)]
      BY <2>6, <3>3 DEF Queue, Sent, FreshOwn, Own
    <3>5. shown'[s] = Sample(t)
      BY <1>0, <3>4 DEF NumberInv
    <3>6. /\ UNCHANGED jpegStaging
          /\ staging'[s][stream[s].run] = staging[s][stream[s].run]
      <4>1. ~Accept(t) /\ ~Reject(t)
        BY <2>6 DEF Queue, Accept, Reject
      <4> QED BY <1>0, <1>5, <2>6, <4>1, CallBuffers
    <3>7. Shows(s)'
      BY <2>1, <2>6, <3>2, <3>5, <3>6 DEF Shows, Sample, FreshOwn, Own
    <3> QED BY <3>7
  <2>7. CASE s = StreamOf[t] /\ ~Accept(t) /\ ~Reject(t) /\ ~(Queue(t) /\ FreshOwn(t))
    <3>1. stream'[s] = stream[s] /\ UNCHANGED <<seen, shown, jpegStaging>>
      BY <1>0, <1>5, <2>7, CallStores, CallBuffers
         DEF CallStep, FreshOwn, Queue, Delivering, InDelivery
    <3>2. staging'[s][stream[s].run] = staging[s][stream[s].run]
      BY <1>0, <1>5, <2>7, CallBuffers
    <3>3. ~FreshOwn(t)
      <4>1. CASE call[t].fresh
        <5>1. call[t].pc = "queue"
          BY <1>0, <4>1 DEF IInv, FreshInv
        <5>2. Queue(t)
          BY <1>5, <2>7, <5>1 DEF CallStep, Deliver, RequestSample, DeadlinePasses, Overdue,
             TakeDeliverLock, Poll, ReadFormat, CheckSize, Attempt, NothingNew, NoSidecar, Wait
        <5> QED BY <2>7, <5>2
      <4> QED BY <4>1 DEF FreshOwn
    <3>4. \A u \in Requesters : StreamOf[u] = s /\ FreshOwn(u) => call'[u] = call[u]
      BY <2>1, <3>3 DEF OnlyCall
    <3> QED BY <1>0, <2>1, <3>1, <3>2, <3>4, ShowsStays DEF NumberInv
  <2> QED BY <2>2, <2>3, <2>4, <2>5, <2>6, <2>7
<1> QED BY <1>1, <1>2, <1>3, <1>4, <1>5 DEF Next, ControlStep, CallStep

LEMMA RepeatInitially == ASSUME MediaAssumption, Init PROVE RepeatInv
<1>1. /\ DOMAIN source = Streams
      /\ \A s \in Streams : ~Running(s) /\ stream[s].run = 0 /\ DOMAIN staging[s] = {0}
  BY DEF Init, Running
<1>2. \A t \in Requesters : ~Delivering(t) /\ call[t].pc # "copy"
  BY DEF Init, Idle, Delivering, InDelivery
<1> QED BY <1>1, <1>2 DEF RepeatInv, BegunInv, OwnTypeInv, RunsInv, OldRunInv, CopyInv, ShowsInv

-----------------------------------------------------------------------------
(* The theorem. *)

\* At a deadline the picture the run's client was last sent as new goes out again
\* (VCamSource.cpp:649), black before the first, as long as the host has opened
\* no window since the bus was last read; whatever earlier runs' calls are in flight.
THEOREM RepeatsTheLast == Spec => []RepeatsPrevious
<1>1. Init => RepeatInv
  BY RepeatInitially, MediaAssumption
<1>2. OrderInv /\ OrderInv' /\ RepeatInv /\ [Next]_vars => RepeatInv'
  <2> SUFFICES ASSUME OrderInv, OrderInv', RepeatInv, [Next]_vars PROVE RepeatInv'
    OBVIOUS
  <2>1. /\ IInv /\ NumberInv'
        /\ BegunInv /\ OwnTypeInv /\ RunsInv /\ OldRunInv /\ CopyInv /\ ShowsInv
    BY DEF OrderInv, RepeatInv
  <2>2. BegunInv' /\ OwnTypeInv' /\ RunsInv'
    BY <2>1, MediaAssumption, BegunStep, OwnTypeStep, RunsStep
  <2>3. OldRunInv' /\ CopyInv' /\ ShowsInv'
    BY <2>1, MediaAssumption, OldRunStep, CopyStep, ShowsStep
  <2> QED BY <2>2, <2>3 DEF RepeatInv
<1>3. OrderInv /\ RepeatInv => RepeatsPrevious
  <2> SUFFICES ASSUME OrderInv, RepeatInv, NEW t \in Requesters,
                      Sending(t), ~call[t].fresh, Own(t),
                      call[t].type.sub = "mjpg" => seen[StreamOf[t]] > 0
               PROVE  \/ Sample(t) = shown[StreamOf[t]]
                      \/ bus.id > stream[StreamOf[t]].last
    BY DEF RepeatsPrevious
  <2> DEFINE s == StreamOf[t]
  <2>1. s \in Streams /\ Running(s) /\ Delivering(t)
    BY MediaAssumption DEF MediaAssumption, Sending, Sent, Delivering, InDelivery
  <2>2. call[t].type = stream[s].type
    BY <2>1 DEF RepeatInv, OwnTypeInv
  <2>3. ASSUME NEW u \in Requesters, StreamOf[u] = s, FreshOwn(u) PROVE FALSE
    BY <2>1, <2>3 DEF OrderInv, IInv, LockInv, FreshOwn
  <2>4. CASE Shows(s)
    BY <2>2, <2>4 DEF Shows, Sample, Own
  <2> QED BY <2>1, <2>3, <2>4 DEF RepeatInv, ShowsInv
<1> QED BY <1>1, <1>2, <1>3, Ordered, PTL DEF Spec
=============================================================================
