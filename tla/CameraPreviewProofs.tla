------------------------ MODULE CameraPreviewProofs ------------------------
(***************************************************************************)
(* Theorems about the live preview, for any slots and frame sizes: what    *)
(* holds at every step of dialog, worker and controllers of what           *)
(* PreviewFollows says happens in the end.                                 *)
(***************************************************************************)
EXTENDS CameraPreview, TLAPS

\* Every variable has its type; a DIB without a format has no picture.
TypeOK ==
    /\ cameraIndex \in Slots \cup {None}
    /\ hold \in [Slots -> BOOLEAN]
    /\ dialog \in {"closed", "open", "join"}
    /\ running \in BOOLEAN
    /\ worker \in Worker
    /\ dib = NoDib \/ dib \in [format: Formats, picture: Slots \cup {None}]
    /\ section \in SUBSET Slots
    /\ format \in [Slots -> Formats]

\* The preview keeps awake the camera it is aimed at while the dialog is open,
\* and no other camera ever: SetCamera and Detach move and drop the hold.
HeldWhileOpen == \A s \in Slots : hold[s] <=> dialog = "open" /\ cameraIndex = s

\* A closed dialog leaves nothing behind; the worker runs on while it is open.
LifeInv ==
    /\ running <=> dialog = "open"
    /\ dialog = "open" => worker.pc # "off" /\ cameraIndex # None
    /\ dialog = "closed" => worker = AtRest /\ dib = NoDib

\* The worker reads only from a bus that exists, and knows which.
SourceInv ==
    /\ worker.source # None => worker.source = worker.openFor /\ worker.source \in section
    /\ worker.pc = "wait" => (worker.want = None <=> worker.source = None)

\* The DIB has the size the worker waits for a frame of, or it is gone.
SizeInv ==
    /\ worker.lastFormat # None => dib = NoDib \/ dib.format = worker.lastFormat
    /\ worker.pc = "wait" /\ worker.want # None
          => dib = NoDib \/ (dib.format = worker.want /\ worker.lastFormat = worker.want)

\* A worker that has shown the newest frame of its source shows that source in
\* the size it has adopted, or has no buffer: the picture of another camera, or
\* of another size, is in the DIB only while a frame is still to be read.
NothingOwed ==
    worker.source # None /\ ~worker.fresh
       => \/ dib = NoDib
          \/ dib = [format |-> worker.lastFormat, picture |-> worker.source]

IInv == TypeOK /\ HeldWhileOpen /\ LifeInv /\ SourceInv /\ SizeInv /\ NothingOwed

-----------------------------------------------------------------------------
(* The worker. *)

\* Retargeting leaves a worker that reads from the bus it is open for, closed
\* or the target's; one whose source has changed owes a frame.
LEMMA Retargets ==
  ASSUME TypeOK, SourceInv, cameraIndex # None
  PROVE  /\ Retarget \in Worker
         /\ Retarget.pc = worker.pc
         /\ Retarget.source # None => /\ Retarget.source = Retarget.openFor
                                      /\ Retarget.source \in section
         /\ Retarget.lastFormat # None => Retarget.lastFormat = worker.lastFormat
         /\ Retarget.source # None /\ ~Retarget.fresh => Retarget = worker
<1>1. worker \in Worker /\ cameraIndex \in Slots /\ None \notin Slots
  BY TargetAssumption DEF TypeOK
<1>2. CASE cameraIndex = worker.openFor
  BY <1>1, <1>2 DEF Retarget, SourceInv
<1>3. CASE cameraIndex # worker.openFor /\ cameraIndex \in section
  BY <1>1, <1>3 DEF Retarget, Worker
<1>4. CASE cameraIndex # worker.openFor /\ cameraIndex \notin section
  BY <1>1, <1>4 DEF Retarget, Worker
<1> QED BY <1>2, <1>3, <1>4

\* The part of the invariant that is about the worker and its DIB, for any two.
Consistent(w, d) ==
    /\ w \in Worker
    /\ d = NoDib \/ d \in [format: Formats, picture: Slots \cup {None}]
    /\ w.source # None => w.source = w.openFor /\ w.source \in section
    /\ w.pc = "wait" => (w.want = None <=> w.source = None)
    /\ w.lastFormat # None => d = NoDib \/ d.format = w.lastFormat
    /\ w.pc = "wait" /\ w.want # None
          => d = NoDib \/ (d.format = w.want /\ w.lastFormat = w.want)
    /\ w.source # None /\ ~w.fresh
          => d = NoDib \/ d = [format |-> w.lastFormat, picture |-> w.source]

LEMMA ConsistentNow == IInv => Consistent(worker, dib)
  BY DEF IInv, TypeOK, SourceInv, SizeInv, NothingOwed, Consistent

\* The DIB that RecreateDib leaves.
Fitting(f) == IF dib.format = f THEN dib ELSE [format |-> f, picture |-> None]

\* What Sleeps and Adopts make of the worker.
LEMMA SleepFields ==
  ASSUME NEW w \in Worker, NEW f \in Formats \cup {None}
  PROVE  /\ Sleeps(w, f) => /\ worker' \in Worker /\ worker'.pc = "wait" /\ worker'.want = f
                            /\ worker'.source = w.source /\ worker'.openFor = w.openFor
                            /\ worker'.lastFormat = w.lastFormat /\ worker'.fresh = w.fresh
         /\ Adopts(w, f) => /\ worker' \in Worker /\ worker'.pc = "wait" /\ worker'.want = f
                            /\ worker'.source = w.source /\ worker'.openFor = w.openFor
                            /\ worker'.lastFormat = f /\ worker'.fresh = TRUE
<1>1. ASSUME NEW v \in Worker, Sleeps(v, f)
      PROVE  /\ worker' \in Worker /\ worker'.pc = "wait" /\ worker'.want = f
             /\ worker'.source = v.source /\ worker'.openFor = v.openFor
             /\ worker'.lastFormat = v.lastFormat /\ worker'.fresh = v.fresh
  BY <1>1 DEF Sleeps, Worker
<1> DEFINE v == [w EXCEPT !.lastFormat = f, !.fresh = TRUE]
<1>2. /\ v \in Worker /\ v.lastFormat = f /\ v.fresh = TRUE
      /\ v.source = w.source /\ v.openFor = w.openFor
  BY DEF Worker
<1>3. Adopts(w, f) => Sleeps(v, f)
  BY DEF Adopts
<1> HIDE DEF v
<1> QED BY <1>1, <1>2, <1>3

\* The worker falls asleep after it has read the format f of its source, which
\* it knows, or adopts with a DIB of that size, or cannot make a DIB for.
LEMMA ReadsFormat ==
  ASSUME IInv, running, Retarget.source # None, NEW f \in Formats,
         \/ f = Retarget.lastFormat /\ Sleeps(Retarget, f) /\ dib' = dib
         \/ Adopts(Retarget, f) /\ dib' = Fitting(f)
         \/ Sleeps(Retarget, f) /\ dib' = NoDib
  PROVE  Consistent(worker', dib') /\ worker'.pc = "wait"
<1> DEFINE r == Retarget
<1>1. /\ r \in Worker
      /\ r.source = r.openFor /\ r.source \in section
      /\ r.lastFormat # None => r.lastFormat = worker.lastFormat
      /\ ~r.fresh => r = worker
  BY Retargets DEF IInv, LifeInv
<1>2. Consistent(worker, dib)
  BY ConsistentNow
<1>3. f # None /\ r.source # None
  BY FormatsAssumption
<1> HIDE DEF r
<1>4. CASE f = r.lastFormat /\ Sleeps(r, f) /\ dib' = dib
  BY <1>1, <1>2, <1>3, <1>4, SleepFields DEF Consistent
<1>5. CASE Adopts(r, f) /\ dib' = Fitting(f)
  <2>1. dib' \in [format: Formats, picture: Slots \cup {None}] /\ dib'.format = f
    BY <1>2, <1>3, <1>5 DEF Consistent, NoDib, Fitting
  <2> QED BY <1>1, <1>3, <1>5, <2>1, SleepFields DEF Consistent
<1>6. CASE Sleeps(r, f) /\ dib' = NoDib
  BY <1>1, <1>3, <1>6, SleepFields DEF Consistent
<1> QED BY <1>4, <1>5, <1>6 DEF r

\* A frame of the size the worker waits for is shown, or there is no DIB for it.
LEMMA FrameShown ==
  ASSUME IInv, worker.pc = "wait", worker.want # None,
         NEW d, d = IF dib.format = worker.want THEN [dib EXCEPT !.picture = worker.source]
                                                ELSE dib
  PROVE  Consistent([worker EXCEPT !.pc = "top", !.fresh = FALSE], d)
<1>1. Consistent(worker, dib) /\ section \in SUBSET Slots
  BY ConsistentNow DEF IInv, TypeOK
<1>2. CASE dib = NoDib
  BY <1>1, <1>2 DEF Consistent, NoDib, Worker
<1>3. CASE dib # NoDib
  <2>1. d = [format |-> worker.want, picture |-> worker.source]
    BY <1>1, <1>3 DEF Consistent
  <2>2. worker.lastFormat = worker.want /\ worker.source \in Slots
    BY <1>1, <1>3 DEF Consistent
  <2> QED BY <1>1, <2>1, <2>2 DEF Consistent, Worker
<1> QED BY <1>2, <1>3

\* A step of the worker keeps the invariant.
LEMMA WorkerStep == IInv /\ WorkerProc => IInv'
<1> SUFFICES ASSUME IInv, WorkerProc PROVE IInv'
  OBVIOUS
<1>1. Consistent(worker, dib)
  BY ConsistentNow
<1>2. \A s \in Slots : format[s] \in Formats
  BY DEF IInv, TypeOK
<1>3. worker \in Worker /\ section \in SUBSET Slots
  BY DEF IInv, TypeOK
<1>4. Consistent(worker', dib') /\ (worker'.pc # "off" \/ ~running) /\ worker.pc # "off"
  <2>1. CASE Ends
    BY <1>1, <2>1 DEF Ends, At, Consistent, Worker
  <2>2. CASE OpenFails
    BY <1>1, <2>2 DEF OpenFails, Retarget, At, Consistent, Worker
  <2>3. ASSUME running, Retarget.source # None
        PROVE  format[Retarget.source] \in Formats
    <3>1. Retarget.source \in section
      BY <2>3, Retargets DEF IInv, LifeInv
    <3> QED BY <1>2, <1>3, <3>1
  <2>4. ASSUME ReadFormat \/ DibFails
        PROVE  running /\ Retarget.source # None /\ worker.pc = "top"
    BY <2>4 DEF ReadFormat, DibFails, At
  <2>5. CASE ReadFormat
    <3>1. PICK f \in Formats : f = format[Retarget.source]
      BY <2>3, <2>4, <2>5
    <3>2. \/ f = Retarget.lastFormat /\ Sleeps(Retarget, f) /\ dib' = dib
          \/ Adopts(Retarget, f) /\ dib' = Fitting(f)
      BY <2>5, <3>1 DEF ReadFormat, RecreateDib, Fitting
    <3> QED BY <2>4, <2>5, <3>2, ReadsFormat
  <2>6. CASE DibFails
    <3>1. PICK f \in Formats : f = format[Retarget.source]
      BY <2>3, <2>4, <2>6
    <3>2. Sleeps(Retarget, f) /\ dib' = NoDib
      BY <2>6, <3>1 DEF DibFails
    <3> QED BY <2>4, <2>6, <3>2, ReadsFormat
  <2>7. CASE NoFormat
    BY <1>1, <2>7 DEF NoFormat, Sleeps, At, Consistent, Worker
  <2>8. CASE Shows
    <3>1. worker.pc = "wait" /\ worker.want # None
      BY <2>8 DEF Shows, At
    <3>2. Consistent(worker', dib')
      BY <2>8, <3>1, FrameShown DEF Shows
    <3>3. worker'.pc = "top"
      BY <1>3, <2>8 DEF Shows, Worker
    <3> QED BY <3>1, <3>2, <3>3
  <2>9. CASE ShowsNothing
    BY <1>1, <2>9 DEF ShowsNothing, At, Consistent, Worker
  <2> QED BY <2>1, <2>2, <2>5, <2>6, <2>7, <2>8, <2>9 DEF WorkerProc
<1>5. UNCHANGED <<cameraIndex, hold, dialog, running, section, format>>
  BY DEF WorkerProc
<1>6. SourceInv' /\ SizeInv' /\ NothingOwed'
  BY <1>4, <1>5 DEF Consistent, SourceInv, SizeInv, NothingOwed
<1>7. TypeOK' /\ HeldWhileOpen'
  BY <1>4, <1>5 DEF IInv, TypeOK, Consistent, HeldWhileOpen
<1>8. LifeInv'
  BY <1>4, <1>5 DEF IInv, LifeInv, AtRest
<1> QED BY <1>6, <1>7, <1>8 DEF IInv

-----------------------------------------------------------------------------
(* The dialog and the controllers. *)

\* Opening, aiming and closing the preview keep the invariant.
LEMMA DialogStep ==
  ASSUME IInv, (\E s \in Slots : Attach(s) \/ Aim(s)) \/ Detach \/ Detached
  PROVE  IInv'
<1>1. None \notin Slots /\ worker \in Worker
  BY TargetAssumption DEF IInv, TypeOK
<1>2. ASSUME NEW s \in Slots, Attach(s) PROVE IInv'
  <2>1. /\ dialog = "closed" /\ dialog' = "open" /\ running' = TRUE
        /\ cameraIndex' = s /\ hold' = [t \in Slots |-> t = s \/ (hold[t] /\ t # cameraIndex)]
        /\ UNCHANGED <<dib, section, format>>
    BY <1>2 DEF Attach, SetCamera
  <2>2. dib = NoDib /\ worker' = [AtRest EXCEPT !.pc = "top"]
    BY <1>2 DEF Attach, IInv, LifeInv
  <2>3. TypeOK' /\ HeldWhileOpen'
    BY <2>1, <2>2 DEF IInv, TypeOK, HeldWhileOpen, Worker, AtRest
  <2>4. LifeInv' /\ SourceInv' /\ SizeInv' /\ NothingOwed'
    BY <1>1, <2>1, <2>2 DEF LifeInv, SourceInv, SizeInv, NothingOwed, AtRest
  <2> QED BY <2>3, <2>4 DEF IInv
<1>3. ASSUME NEW s \in Slots, Aim(s) PROVE IInv'
  <2>1. /\ dialog = "open" /\ cameraIndex' = s
        /\ hold' = [t \in Slots |-> t = s \/ (hold[t] /\ t # cameraIndex)]
        /\ UNCHANGED <<dialog, running, worker, dib, section, format>>
    BY <1>3 DEF Aim, SetCamera
  <2>2. TypeOK' /\ HeldWhileOpen'
    BY <2>1 DEF IInv, TypeOK, HeldWhileOpen
  <2>3. LifeInv' /\ SourceInv' /\ SizeInv' /\ NothingOwed'
    BY <1>1, <2>1 DEF IInv, LifeInv, SourceInv, SizeInv, NothingOwed
  <2> QED BY <2>2, <2>3 DEF IInv
<1>4. CASE Detach
  <2>1. /\ dialog = "open" /\ dialog' = "join" /\ running' = FALSE
        /\ hold' = [t \in Slots |-> hold[t] /\ t # cameraIndex]
        /\ UNCHANGED <<cameraIndex, worker, dib, section, format>>
    BY <1>4 DEF Detach, ReleaseHold
  <2>2. TypeOK' /\ HeldWhileOpen'
    BY <2>1 DEF IInv, TypeOK, HeldWhileOpen
  <2>3. LifeInv' /\ SourceInv' /\ SizeInv' /\ NothingOwed'
    BY <2>1 DEF IInv, LifeInv, SourceInv, SizeInv, NothingOwed
  <2> QED BY <2>2, <2>3 DEF IInv
<1>5. CASE Detached
  <2>1. /\ dialog = "join" /\ dialog' = "closed" /\ dib' = NoDib /\ worker' = AtRest
        /\ cameraIndex' = None /\ UNCHANGED <<hold, running, section, format>>
    BY <1>5 DEF Detached, Forget
  <2>2. TypeOK' /\ HeldWhileOpen'
    BY <2>1 DEF IInv, TypeOK, HeldWhileOpen, Worker, AtRest
  <2>3. LifeInv' /\ SourceInv' /\ SizeInv' /\ NothingOwed'
    BY <2>1 DEF IInv, LifeInv, SourceInv, SizeInv, NothingOwed, AtRest
  <2> QED BY <2>2, <2>3 DEF IInv
<1> QED BY <1>2, <1>3, <1>4, <1>5

\* So do new buses, new frames and new formats: a frame that is to be read is
\* all the worker can be behind.
LEMMA HostStep ==
  ASSUME IInv, NEW s \in Slots,
         SectionUp(s) \/ Publish(s) \/ \E f \in Formats : UpdateFormat(s, f)
  PROVE  IInv'
<1>2. UNCHANGED <<cameraIndex, hold, dialog, running, dib>>
  BY DEF SectionUp, Publish, UpdateFormat
<1>3. worker \in Worker /\ s # None
  BY TargetAssumption DEF IInv, TypeOK
<1>4. worker' = worker \/ Noticed(s)
  BY DEF SectionUp, Publish, UpdateFormat
<1>5. /\ worker' \in Worker
      /\ worker'.pc = worker.pc /\ worker'.want = worker.want
      /\ worker'.source = worker.source /\ worker'.openFor = worker.openFor
      /\ worker'.lastFormat = worker.lastFormat
      /\ worker.fresh => worker'.fresh
  BY <1>3, <1>4 DEF Noticed, Worker
<1>6. section \subseteq section' /\ section' \subseteq Slots /\ format' \in [Slots -> Formats]
  BY DEF IInv, TypeOK, SectionUp, Publish, UpdateFormat
<1>7. worker.source = None => worker' = worker
  BY <1>3, <1>4 DEF Noticed, Worker
<1>8. TypeOK' /\ HeldWhileOpen'
  BY <1>2, <1>5, <1>6 DEF IInv, TypeOK, HeldWhileOpen
<1>9. LifeInv'
  BY <1>2, <1>5, <1>7 DEF IInv, LifeInv, AtRest
<1>10. SourceInv' /\ SizeInv' /\ NothingOwed'
  BY <1>2, <1>5, <1>6 DEF IInv, SourceInv, SizeInv, NothingOwed
<1> QED BY <1>8, <1>9, <1>10 DEF IInv

-----------------------------------------------------------------------------
(* The specification. *)

LEMMA InitInv == Init => IInv
<1> SUFFICES ASSUME Init PROVE IInv
  OBVIOUS
<1>1. TypeOK /\ HeldWhileOpen
  BY DEF Init, TargetInit, TypeOK, HeldWhileOpen, Worker, AtRest
<1>2. LifeInv /\ SourceInv /\ SizeInv /\ NothingOwed
  BY DEF Init, TargetInit, LifeInv, SourceInv, SizeInv, NothingOwed, AtRest
<1> QED BY <1>1, <1>2 DEF IInv

LEMMA StepInv == IInv /\ [Next]_vars => IInv'
<1> SUFFICES ASSUME IInv, [Next]_vars PROVE IInv'
  OBVIOUS
<1>1. CASE WorkerProc
  BY <1>1, WorkerStep
<1>2. CASE (\E s \in Slots : Attach(s) \/ Aim(s)) \/ Detach \/ Detached
  BY <1>2, DialogStep
<1>3. ASSUME NEW s \in Slots,
             SectionUp(s) \/ Publish(s) \/ \E f \in Formats : UpdateFormat(s, f)
      PROVE  IInv'
  BY <1>3, HostStep
<1>4. CASE UNCHANGED vars
  BY <1>4 DEF vars, IInv, TypeOK, HeldWhileOpen, LifeInv, SourceInv, SizeInv, NothingOwed
<1> QED BY <1>1, <1>2, <1>3, <1>4 DEF Next

\* The inductive invariant holds in every reachable state.
THEOREM Invariant == Spec => []IInv
<1>1. IInv /\ [Next]_vars => IInv'
  BY StepInv
<1> QED BY <1>1, InitInv, PTL DEF Spec

\* The types of the preview's state, TypeOK.
THEOREM TypeCorrect == Spec => []TypeOK
<1>1. IInv => TypeOK
  BY DEF IInv
<1> QED BY <1>1, Invariant, PTL

\* The preview keeps a camera awake while the dialog is open and shows it, and no
\* camera else: not one it has left, nor any after the dialog has closed.
THEOREM HoldForTarget == Spec => []HeldWhileOpen
<1>1. IInv => HeldWhileOpen
  BY DEF IInv
<1> QED BY <1>1, Invariant, PTL

\* The worker never reads from a slot whose bus it has not open, and a frame of
\* the size it waits for fits the DIB it would go into.
THEOREM ReadsWhatFits == Spec => [](SourceInv /\ SizeInv)
<1>1. IInv => SourceInv /\ SizeInv
  BY DEF IInv
<1> QED BY <1>1, Invariant, PTL

\* A worker that has no frame to read shows the camera it reads from, in the size
\* it has adopted, or has no buffer: what PreviewFollows needs besides fairness.
THEOREM ShownWhenRead == Spec => []NothingOwed
<1>1. IInv => NothingOwed
  BY DEF IInv
<1> QED BY <1>1, Invariant, PTL
=============================================================================
