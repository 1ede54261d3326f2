----------------------------- MODULE VizGuiProofs -----------------------------
(***************************************************************************)
(* What VizGui leaks is what its acks bring back and nothing else, and all *)
(* its frames show the one child, for any number of BeginFrames.           *)
(*                                                                         *)
(* The provider without what is stranded in it behaves like the provider   *)
(* of a client that handles its acks, so the lemmas of FrameSinkProofs are *)
(* used with it in the provider's place.                                   *)
(***************************************************************************)
EXTENDS VizGui, TLAPS

Without(p, ids) == [p EXCEPT !.imported = @ \ ids, !.exported = @ \ ids]

\* The provider without the resources that came back with acks.
kept == Without(provider, stranded)

Kept == INSTANCE FrameSinkProofs WITH provider <- kept

\* What OnlyAcksStrand says of the resources that came back with acks.
Stranded ==
  /\ provider \in ProviderType
  /\ stranded \in SUBSET Nat /\ stranded \subseteq provider.imported
  /\ provider.exported = provider.imported
  /\ provider.released \cap provider.imported = {}
  /\ \A id \in provider.imported \cup provider.released : id < provider.next

LeakInv == Kept!SinkInv /\ Stranded

IndInv == LeakInv /\ SurfaceInv

-----------------------------------------------------------------------------
(***************************************************************************)
(* The instance and the module it is made in.                              *)
(***************************************************************************)
\* A provider without some of its resources.
LEMMA WithoutResult ==
  ASSUME NEW p \in ProviderType, NEW ids
  PROVE  /\ Without(p, ids) =
              [next |-> p.next, imported |-> p.imported \ ids, exported |-> p.exported \ ids,
               marked |-> p.marked, released |-> p.released]
         /\ Without(p, ids) \in Kept!ProviderType
<1> DEFINE im == p.imported \ ids
           ex == p.exported \ ids
           r  == [p EXCEPT !.imported = im, !.exported = ex]
<1>1. im \in SUBSET Nat /\ ex \in SUBSET Nat
  BY DEF ProviderType
<1>2. Without(p, ids) = r
  BY DEF Without
<1> HIDE DEF im, ex
<1>3. r \in ProviderType
  BY <1>1 DEF ProviderType
<1>4. /\ r.next = p.next /\ r.imported = im /\ r.exported = ex
      /\ r.marked = p.marked /\ r.released = p.released
  BY <1>1 DEF ProviderType
<1> HIDE DEF r
<1>5. r = [next |-> p.next, imported |-> im, exported |-> ex,
           marked |-> p.marked, released |-> p.released]
  <2>1. r = [next |-> r.next, imported |-> r.imported, exported |-> r.exported,
             marked |-> r.marked, released |-> r.released]
    BY <1>3 DEF ProviderType
  <2> QED BY <1>4, <2>1
<1>6. r \in Kept!ProviderType
  BY <1>3 DEF ProviderType, Kept!ProviderType
<1> QED BY <1>2, <1>5, <1>6 DEF im, ex

\* The instance talks of the same queue, pipe and display.
LEMMA SameService ==
  /\ Kept!InUse = InUse /\ Kept!Returning = Returning
  /\ Kept!OnePlace <=> OnePlace
<1>1. \A q : Kept!Carried(q) = Carried(q)
  BY DEF Kept!Carried, Carried
<1>2. \A q : Kept!Disjoint(q) <=> Disjoint(q)
  BY DEF Kept!Disjoint, Disjoint
<1>3. Kept!InUse = InUse /\ Kept!Returning = Returning
  BY <1>1 DEF Kept!InUse, InUse, Kept!Returning, Returning
<1> QED BY <1>1, <1>2, <1>3 DEF Kept!OnePlace, OnePlace

LEMMA SameTasks ==
  /\ \A op, res : Kept!Task(op, res) = Task(op, res)
  /\ \A op : Kept!Call(op) = Call(op)
  /\ \A res, soft, content : Kept!Frame(res, soft, content) = Frame(res, soft, content)
  /\ \A ids : Kept!SharedBitmap(ids) = SharedBitmap(ids)
  /\ Kept!TaskOps = TaskOps /\ Kept!MessageOps = MessageOps
BY DEF Kept!Task, Task, Kept!Call, Call, Kept!Frame, Frame, Kept!SharedBitmap, SharedBitmap,
       Kept!TaskOps, TaskOps, Kept!MessageOps, MessageOps

-----------------------------------------------------------------------------
(***************************************************************************)
(* The service, and tasks that leave the provider alone.                   *)
(***************************************************************************)
\* A task that carries nothing is posted to the client's thread.
LEMMA PostStep ==
  ASSUME LeakInv, NEW op \in TaskOps, queue' = Append(queue, Task(op, {})),
         UNCHANGED <<provider, stranded, pipe, remoteVars>>
  PROVE  LeakInv'
<1>1. UNCHANGED kept
  BY DEF kept
<1>2. op \in Kept!TaskOps /\ queue' = Append(queue, Kept!Task(op, {}))
  BY SameTasks
<1>3. Kept!SinkInv'
  BY <1>1, <1>2, Kept!PostInv, MaxBeginFramesAssumption DEF LeakInv, remoteVars
<1> QED BY <1>3 DEF LeakInv, Stranded

\* No step of the service breaks LeakInv.
LEMMA ServiceStep ==
  ASSUME LeakInv, Service, UNCHANGED stranded
  PROVE  LeakInv'
<1>1. UNCHANGED provider
  BY DEF Service, ServiceReceive, ServiceSetNeedsBeginFrame, ServiceDidAllocateSharedBitmap,
         ServiceSubmitCompositorFrame, ServiceDidNotProduceFrame, ServiceBeginFrame,
         ServiceAck, ServiceHoldResources, ServiceReclaimResources
<1>2. UNCHANGED kept
  BY <1>1 DEF kept
<1>3. CASE ServiceBeginFrame
  <2>1. "OnBeginFrame" \in TaskOps
    BY DEF TaskOps
  <2> QED BY <1>3, <2>1, PostStep DEF ServiceBeginFrame, remoteVars
<1> USE DEF Kept!Is, Is, Kept!Task, Task
<1>4. CASE ServiceReceive
  <2>1. Kept!Service
    BY <1>2, <1>4
    DEF Kept!Service, Kept!ServiceReceive, ServiceReceive,
        Kept!ServiceSetNeedsBeginFrame, ServiceSetNeedsBeginFrame,
        Kept!ServiceDidAllocateSharedBitmap, ServiceDidAllocateSharedBitmap,
        Kept!ServiceSubmitCompositorFrame, ServiceSubmitCompositorFrame,
        Kept!ServiceDidNotProduceFrame, ServiceDidNotProduceFrame
  <2>2. Kept!SinkInv'
    BY <2>1, Kept!ServiceInv, MaxBeginFramesAssumption DEF LeakInv
  <2> QED BY <1>1, <2>2 DEF LeakInv, Stranded
<1>5. CASE ServiceAck \/ ServiceHoldResources \/ ServiceReclaimResources
  <2>1. Kept!Service
    <3>1. CASE ServiceAck
      BY <1>2, <3>1 DEF Kept!Service, Kept!ServiceAck, ServiceAck
    <3>2. CASE ServiceHoldResources
      BY <1>2, <3>2 DEF Kept!Service, Kept!ServiceHoldResources, ServiceHoldResources
    <3>3. CASE ServiceReclaimResources
      BY <1>2, <3>3 DEF Kept!Service, Kept!ServiceReclaimResources, ServiceReclaimResources
    <3> QED BY <1>5, <3>1, <3>2, <3>3
  <2>2. Kept!SinkInv'
    BY <2>1, Kept!ServiceInv, MaxBeginFramesAssumption DEF LeakInv
  <2> QED BY <1>1, <2>2 DEF LeakInv, Stranded
<1> QED BY <1>3, <1>4, <1>5 DEF Service

\* The client runs a task that is no return and sends at most a call.
LEMMA CallStep ==
  ASSUME LeakInv, queue # <<>>, Head(queue).op \notin Kept!Returns, queue' = Tail(queue),
         NEW op \in MessageOps, UNCHANGED pipe \/ pipe' = Append(pipe, Call(op)),
         UNCHANGED <<provider, stranded, remoteVars>>
  PROVE  LeakInv'
<1>1. UNCHANGED kept
  BY DEF kept
<1>2. op \in Kept!MessageOps /\ Kept!Call(op) = Call(op) /\ Kept!SinkInv
  BY SameTasks DEF LeakInv
<1>3. Kept!SinkInv'
  <2>1. UNCHANGED <<needsBeginFrame, bitmaps, active, shown, retired, held, ackPending>>
    BY DEF remoteVars
  <2>2. CASE UNCHANGED pipe
    BY <1>1, <1>2, <2>1, <2>2, Kept!RunInv, MaxBeginFramesAssumption
  <2>3. CASE pipe' = Append(pipe, Call(op))
    BY <1>1, <1>2, <2>1, <2>3, Kept!CallInv, MaxBeginFramesAssumption
  <2> QED BY <2>2, <2>3
<1> QED BY <1>3 DEF LeakInv, Stranded

-----------------------------------------------------------------------------
(***************************************************************************)
(* The tasks that lend, lose and take back resources.                      *)
(***************************************************************************)
\* A provider's resources are released, whatever they are marked as.
LEMMA ReleaseResult ==
  ASSUME NEW n, NEW im, NEW ex, NEW ma, NEW re, NEW ids
  PROVE  Release([next |-> n, imported |-> im, exported |-> ex, marked |-> ma,
                  released |-> re], ids)
           = [next |-> n, imported |-> im \ ids, exported |-> ex, marked |-> ma \ ids,
              released |-> re \cup ids]
<1> DEFINE p == [next |-> n, imported |-> im, exported |-> ex, marked |-> ma, released |-> re]
           r == Release(p, ids)
<1>1. /\ p = [next |-> n, imported |-> im, exported |-> ex, marked |-> ma, released |-> re]
      /\ p.imported = im /\ p.marked = ma /\ p.released = re
  OBVIOUS
<1> HIDE DEF p
<1> DEFINE im2 == im \ ids
           ma2 == ma \ ids
           re2 == re \cup ids
<1>2. r = [p EXCEPT !.imported = im2, !.marked = ma2, !.released = re2]
  BY <1>1 DEF Release
<1> HIDE DEF im2, ma2, re2, r
<1>3. /\ r.next = n /\ r.imported = im2 /\ r.exported = ex
      /\ r.marked = ma2 /\ r.released = re2
  BY <1>1, <1>2
<1>4. r = [next |-> r.next, imported |-> r.imported, exported |-> r.exported,
           marked |-> r.marked, released |-> r.released]
  BY <1>1, <1>2
<1> QED BY <1>3, <1>4 DEF r, p, im2, ma2, re2

\* ReclaimResources marks the returned resources and then releases them.
LEMMA TakeBackResult ==
  ASSUME provider \in ProviderType, provider.exported = provider.imported,
         provider.marked = {}, NEW ids \in SUBSET provider.imported
  PROVE  TakeBack(ids) =
           [next |-> provider.next, imported |-> provider.imported \ ids,
            exported |-> provider.imported \ ids, marked |-> {},
            released |-> provider.released \cup ids]
<1> DEFINE im == provider.imported
           left == im \ ids
           re == provider.released
           n == provider.next
           p == RemoveImportedResources(provider, ids)
<1>1. provider = [next |-> n, imported |-> im, exported |-> im, marked |-> {}, released |-> re]
  BY DEF ProviderType
<1>2. {} \cup (ids \cap im) = ids /\ (ids \cap im) \ im = {} /\ im \ {} = im
      /\ ids \ {} = ids /\ re \cup {} = re /\ ids \cap ids = ids /\ ids \ ids = {}
  OBVIOUS
<1>3. /\ provider.marked \cup (ids \cap provider.exported) = ids
      /\ (ids \cap provider.imported) \ provider.exported = {}
  BY <1>2
<1> HIDE DEF im, re, n, left
<1>4. p = [next |-> n, imported |-> im, exported |-> im, marked |-> ids, released |-> re]
  <2> DEFINE q == [provider EXCEPT !.marked = ids]
  <2>1. q = [next |-> n, imported |-> im, exported |-> im, marked |-> ids, released |-> re]
    BY <1>1
  <2>2. p = Release(q, {})
    BY <1>3 DEF RemoveImportedResources
  <2> HIDE DEF q
  <2> QED BY <1>2, <2>1, <2>2, ReleaseResult
<1>5. TakeBack(ids) = Release([p EXCEPT !.exported = left], ids)
  BY <1>2, <1>4 DEF TakeBack, ReceiveReturnsFromParent, left
<1> HIDE DEF p
<1>6. [p EXCEPT !.exported = left]
        = [next |-> n, imported |-> im, exported |-> left, marked |-> ids, released |-> re]
  BY <1>4
<1>7. TakeBack(ids) = [next |-> n, imported |-> im \ ids, exported |-> left,
                       marked |-> {}, released |-> re \cup ids]
  BY <1>2, <1>5, <1>6, ReleaseResult
<1> QED BY <1>7 DEF im, re, n, left

\* What the client has at hand when it runs a task that returns resources.
LEMMA ReturnFacts ==
  ASSUME LeakInv, queue # <<>>, queue' = Tail(queue)
  PROVE  /\ Head(queue).res \in SUBSET Nat
         /\ Head(queue).res \subseteq kept.imported
         /\ kept.imported = provider.imported \ stranded
         /\ kept.exported = provider.imported \ stranded
         /\ kept.marked = {} /\ provider.marked = {} /\ kept.released = provider.released
         /\ kept.next = provider.next /\ kept \in Kept!ProviderType
<1>1. /\ kept.next = provider.next /\ kept.imported = provider.imported \ stranded
      /\ kept.exported = provider.exported \ stranded
      /\ kept.marked = provider.marked /\ kept.released = provider.released
      /\ kept \in Kept!ProviderType
  <2> DEFINE w == Without(provider, stranded)
  <2>1. /\ w = [next |-> provider.next, imported |-> provider.imported \ stranded,
                exported |-> provider.exported \ stranded, marked |-> provider.marked,
                released |-> provider.released]
        /\ w \in Kept!ProviderType
    BY WithoutResult DEF LeakInv, Stranded
  <2> HIDE DEF w
  <2>2. /\ w.next = provider.next /\ w.imported = provider.imported \ stranded
        /\ w.exported = provider.exported \ stranded
        /\ w.marked = provider.marked /\ w.released = provider.released
    BY <2>1
  <2> QED BY <2>1, <2>2 DEF kept, w
<1>2. Kept!SinkInv /\ provider.exported = provider.imported
  BY DEF LeakInv, Stranded
<1>3. kept.marked = {} /\ kept.imported = Kept!InUse \cup Kept!Returning
  BY <1>2 DEF Kept!SinkInv, Kept!Conservation
<1>4. Head(queue).res \subseteq Kept!Carried(queue) /\ Head(queue) \in Kept!TaskType
  BY <1>2, Kept!QueueTail, MaxBeginFramesAssumption
<1>5. Head(queue).res \subseteq kept.imported
  BY <1>3, <1>4 DEF Kept!Returning
<1>6. Head(queue).res \in SUBSET Nat
  BY <1>4 DEF Kept!TaskType
<1> QED BY <1>1, <1>2, <1>3, <1>5, <1>6

\* The returns of ReclaimResources are released.
LEMMA ReclaimStep ==
  ASSUME LeakInv, ReclaimResources
  PROVE  LeakInv'
<1> DEFINE ids == Head(queue).res
<1>1. /\ queue # <<>> /\ queue' = Tail(queue) /\ provider' = TakeBack(ids)
      /\ UNCHANGED <<pipe, needsBeginFrame, bitmaps, active, shown, retired, held,
                     ackPending, stranded>>
  BY DEF ReclaimResources, Is, remoteVars, ownVars
<1>2. /\ ids \in SUBSET Nat /\ ids \subseteq kept.imported
      /\ kept.imported = provider.imported \ stranded
      /\ kept.exported = provider.imported \ stranded
      /\ kept.marked = {} /\ provider.marked = {} /\ kept.released = provider.released
      /\ kept.next = provider.next /\ kept \in Kept!ProviderType
  BY <1>1, ReturnFacts
<1>3. Kept!SinkInv /\ Stranded
  BY DEF LeakInv
<1> HIDE DEF ids
<1>4. provider' = [next |-> provider.next, imported |-> provider.imported \ ids,
                   exported |-> provider.imported \ ids, marked |-> {},
                   released |-> provider.released \cup ids]
  <2>1. provider \in ProviderType /\ provider.exported = provider.imported
        /\ ids \in SUBSET provider.imported
    BY <1>2, <1>3 DEF Stranded
  <2> QED BY <1>1, <1>2, <2>1, TakeBackResult
<1>5. /\ provider'.next = provider.next /\ provider'.imported = provider.imported \ ids
      /\ provider'.exported = provider.imported \ ids /\ provider'.marked = {}
      /\ provider'.released = provider.released \cup ids
  BY <1>4
<1>6. Stranded'
  <2>1. provider' \in ProviderType
    <3>1. /\ provider.next \in Nat /\ provider.imported \ ids \in SUBSET Nat
          /\ provider.released \cup ids \in SUBSET Nat /\ {} \in SUBSET Nat
      BY <1>2, <1>3 DEF Stranded, ProviderType
    <3> QED BY <1>4, <3>1 DEF ProviderType
  <2>2. \A id \in provider'.imported \cup provider'.released : id < provider'.next
    BY <1>2, <1>3, <1>5 DEF Stranded
  <2>3. provider'.released \cap provider'.imported = {}
    BY <1>2, <1>3, <1>5 DEF Stranded
  <2>4. stranded' \subseteq provider'.imported /\ provider'.exported = provider'.imported
    BY <1>1, <1>2, <1>3, <1>5 DEF Stranded
  <2> QED BY <1>1, <1>3, <2>1, <2>2, <2>3, <2>4 DEF Stranded
<1>7. kept' = Kept!RemoveImportedResources(Kept!ReceiveReturnsFromParent(kept, ids), ids)
  <2>1. kept' = [next |-> provider'.next, imported |-> provider'.imported \ stranded',
                 exported |-> provider'.exported \ stranded',
                 marked |-> provider'.marked, released |-> provider'.released]
    BY <1>6, WithoutResult DEF Stranded, kept
  <2>2. /\ provider'.imported \ stranded' = kept.imported \ ids
        /\ provider'.exported \ stranded' = kept.imported \ ids
        /\ provider'.released = kept.released \cup ids
    BY <1>1, <1>2, <1>5
  <2>3. kept' = [next |-> kept.next, imported |-> kept.imported \ ids,
                 exported |-> kept.imported \ ids, marked |-> {},
                 released |-> kept.released \cup ids]
    BY <1>2, <1>5, <2>1, <2>2
  <2>4. Kept!RemoveImportedResources(Kept!ReceiveReturnsFromParent(kept, ids), ids)
          = [next |-> kept.next, imported |-> kept.imported \ ids,
             exported |-> kept.imported \ ids, marked |-> {},
             released |-> kept.released \cup ids]
    <3>1. kept.exported = kept.imported /\ ids \in SUBSET kept.imported
      BY <1>2
    <3> QED BY <1>2, <3>1, Kept!TakeBackResult, MaxBeginFramesAssumption
  <2> QED BY <2>3, <2>4
<1>8. Kept!SinkInv'
  BY <1>1, <1>3, <1>7, Kept!TakeBackInv, MaxBeginFramesAssumption DEF ids
<1> QED BY <1>6, <1>8 DEF LeakInv

\* The returns of an ack are stranded.
LEMMA AckStep ==
  ASSUME LeakInv, DidReceiveCompositorFrameAck
  PROVE  LeakInv'
<1> DEFINE ids == Head(queue).res
<1>1. /\ queue # <<>> /\ queue' = Tail(queue) /\ stranded' = stranded \cup ids
      /\ UNCHANGED <<provider, pipe, needsBeginFrame, bitmaps, active, shown, retired, held,
                     ackPending>>
  BY DEF DidReceiveCompositorFrameAck, Is, remoteVars
<1>2. /\ ids \in SUBSET Nat /\ ids \subseteq kept.imported
      /\ kept.imported = provider.imported \ stranded
      /\ kept.exported = provider.imported \ stranded
      /\ kept.marked = {} /\ provider.marked = {} /\ kept.released = provider.released
      /\ kept.next = provider.next /\ kept \in Kept!ProviderType
  BY <1>1, ReturnFacts
<1>3. Kept!SinkInv /\ Stranded /\ Kept!Conservation /\ Kept!OnePlace
  BY DEF LeakInv, Kept!SinkInv, Kept!Conservation
<1>4. /\ queue' \in Seq(Kept!TaskType)
      /\ Kept!Carried(queue) = ids \cup Kept!Carried(queue')
      /\ ids \cap Kept!Carried(queue') = {}
      /\ Kept!Disjoint(queue') /\ Kept!OnlyReturnsCarry'
  BY <1>1, <1>3, Kept!QueueTail, MaxBeginFramesAssumption
<1> HIDE DEF ids
<1>5. Stranded'
  BY <1>1, <1>2, <1>3 DEF Stranded
<1>6. /\ kept' \in Kept!ProviderType /\ kept'.next = kept.next
      /\ kept'.imported = kept.imported \ ids /\ kept'.exported = kept.imported \ ids
      /\ kept'.marked = {} /\ kept'.released = kept.released
  <2> DEFINE w == Without(provider', stranded')
  <2>1. /\ w = [next |-> provider'.next, imported |-> provider'.imported \ stranded',
                exported |-> provider'.exported \ stranded',
                marked |-> provider'.marked, released |-> provider'.released]
        /\ w \in Kept!ProviderType
    BY <1>5, WithoutResult DEF Stranded
  <2> HIDE DEF w
  <2>2. /\ w.next = provider'.next /\ w.imported = provider'.imported \ stranded'
        /\ w.exported = provider'.exported \ stranded'
        /\ w.marked = provider'.marked /\ w.released = provider'.released
    BY <2>1
  <2>3. provider'.imported \ stranded' = kept.imported \ ids
        /\ provider'.exported = provider'.imported
    BY <1>1, <1>2, <1>3 DEF Stranded
  <2>4. kept' = w
    BY DEF kept, w
  <2> QED BY <1>1, <1>2, <2>1, <2>2, <2>3, <2>4
<1>7. Kept!InUse' = Kept!InUse /\ Kept!Returning' = Kept!Returning \ ids
  <2>1. ids \cap held = {}
    BY <1>3, <1>4 DEF Kept!OnePlace
  <2> QED BY <1>1, <1>4, <2>1 DEF Kept!InUse, Kept!Returning
<1>8. Kept!Conservation'
  <2>1. Kept!OnePlace'
    BY <1>1, <1>3, <1>4, <1>7 DEF Kept!OnePlace
  <2>2. /\ kept.imported = Kept!InUse \cup Kept!Returning
        /\ Kept!InUse \cap Kept!Returning = {} /\ ids \subseteq Kept!Returning
        /\ kept.released \cap kept.imported = {}
    BY <1>3, <1>4 DEF Kept!Conservation, Kept!OnePlace, Kept!Returning
  <2>3. /\ kept'.imported = Kept!InUse' \cup Kept!Returning'
        /\ kept'.exported = kept'.imported
        /\ kept'.released \cap kept'.imported = {}
    BY <1>6, <1>7, <2>2
  <2> QED BY <2>1, <2>3 DEF Kept!Conservation
<1>9. Kept!SinkTypeOK'
  BY <1>1, <1>3, <1>4, <1>6 DEF Kept!SinkInv, Kept!SinkTypeOK
<1>10. \A id \in kept'.imported \cup kept'.released : id < kept'.next
  BY <1>3, <1>6 DEF Kept!SinkInv
<1>11. Kept!OnlyFramesCarry'
  BY <1>1, <1>3 DEF Kept!SinkInv, Kept!OnlyFramesCarry
<1> QED BY <1>4, <1>5, <1>6, <1>8, <1>9, <1>10, <1>11 DEF LeakInv, Kept!SinkInv

-----------------------------------------------------------------------------
(***************************************************************************)
(* A frame.                                                                *)
(***************************************************************************)
\* What CreateFrame leaves of the provider.
LEMMA FrameResult ==
  ASSUME provider \in ProviderType
  PROVE  CreateFrame(provider) =
           [next |-> IF NewResources = {} THEN provider.next ELSE provider.next + 2,
            imported |-> provider.imported \cup NewResources,
            exported |-> provider.exported \cup NewResources,
            marked |-> provider.marked, released |-> provider.released]
<1> DEFINE both == {provider.next, provider.next + 1}
<1>1. CASE ~shared_image_interface_provider
  <2>1. NewResources = {} /\ CreateFrame(provider) = provider
    BY <1>1 DEF NewResources, CreateFrame
  <2>2. provider.imported \cup {} = provider.imported
        /\ provider.exported \cup {} = provider.exported
    OBVIOUS
  <2>3. provider = [next |-> provider.next, imported |-> provider.imported,
                    exported |-> provider.exported, marked |-> provider.marked,
                    released |-> provider.released]
    BY DEF ProviderType
  <2> QED BY <2>1, <2>2, <2>3
<1>2. CASE shared_image_interface_provider
  <2>1. NewResources = both /\ both # {}
    BY <1>2 DEF NewResources
  <2>2. CreateFrame(provider) =
          Kept!PrepareSendToParent(Kept!ImportResource(Kept!ImportResource(provider)), both)
    <3>1. \A p : Kept!ImportResource(p) = ImportResource(p)
      BY DEF Kept!ImportResource, ImportResource
    <3>2. \A p, ids : Kept!PrepareSendToParent(p, ids) = PrepareSendToParent(p, ids)
      BY DEF Kept!PrepareSendToParent, PrepareSendToParent
    <3> QED BY <1>2, <3>1, <3>2 DEF CreateFrame, Exported
  <2>3. provider \in Kept!ProviderType
    BY DEF ProviderType, Kept!ProviderType
  <2>4. Kept!PrepareSendToParent(Kept!ImportResource(Kept!ImportResource(provider)), both) =
          [next |-> provider.next + 2, imported |-> provider.imported \cup both,
           exported |-> provider.exported \cup both, marked |-> provider.marked,
           released |-> provider.released]
    BY <2>3, Kept!TwoResult, MaxBeginFramesAssumption
  <2> HIDE DEF both
  <2> QED BY <2>1, <2>2, <2>4
<1> QED BY <1>1, <1>2

\* A frame lends what it imports, and nothing of it is stranded.
LEMMA FrameStep ==
  ASSUME LeakInv, child_surface \in Nat, allocated \in Nat, OnBeginFrame
  PROVE  LeakInv'
<1> DEFINE ids == NewResources
           n2 == IF ids = {} THEN provider.next ELSE provider.next + 2
<1>1. /\ queue # <<>> /\ Head(queue).op = "OnBeginFrame" /\ queue' = Tail(queue)
      /\ provider' = CreateFrame(provider) /\ pipe' = Append(pipe, Frame(ids, {}, Surface))
      /\ UNCHANGED <<needsBeginFrame, bitmaps, active, shown, retired, held, ackPending,
                     stranded>>
  BY DEF OnBeginFrame, Is, remoteVars, ownVars
<1>2. /\ Kept!SinkInv /\ Stranded /\ provider \in ProviderType /\ provider.next \in Nat
      /\ provider.imported \in SUBSET Nat /\ provider.exported \in SUBSET Nat
      /\ provider.marked \in SUBSET Nat /\ provider.released \in SUBSET Nat
  BY DEF LeakInv, Stranded, ProviderType
<1>3. /\ ids \in SUBSET Nat /\ n2 \in Nat /\ n2 >= provider.next
      /\ \A x \in ids : provider.next <= x /\ x < n2
  BY <1>2 DEF NewResources
<1>4. /\ provider' = [next |-> n2, imported |-> provider.imported \cup ids,
                      exported |-> provider.exported \cup ids,
                      marked |-> provider.marked, released |-> provider.released]
  BY <1>1, <1>2, FrameResult
<1>5. Surface \in Nat
  BY DEF Surface
<1> HIDE DEF ids, n2
<1>6. /\ provider'.next = n2 /\ provider'.imported = provider.imported \cup ids
      /\ provider'.exported = provider.exported \cup ids
      /\ provider'.marked = provider.marked /\ provider'.released = provider.released
  BY <1>4
<1>7. ids \cap provider.imported = {} /\ ids \cap provider.released = {}
      /\ ids \cap stranded = {}
  BY <1>2, <1>3 DEF Stranded
<1>8. Stranded'
  <2>1. provider' \in ProviderType
    <3>1. /\ provider.imported \cup ids \in SUBSET Nat
          /\ provider.exported \cup ids \in SUBSET Nat
      BY <1>2, <1>3
    <3> QED BY <1>2, <1>3, <1>4, <3>1 DEF ProviderType
  <2>2. \A id \in provider'.imported \cup provider'.released : id < provider'.next
    <3> SUFFICES ASSUME NEW id \in provider'.imported \cup provider'.released
                 PROVE  id < provider'.next
      OBVIOUS
    <3>1. CASE id \in ids
      BY <1>3, <1>6, <3>1
    <3>2. CASE id \in provider.imported \cup provider.released
      <4>1. id \in Nat /\ id < provider.next
        BY <1>2, <3>2 DEF Stranded
      <4> QED BY <1>2, <1>3, <1>6, <4>1
    <3> QED BY <1>6, <3>1, <3>2
  <2>3. provider'.released \cap provider'.imported = {}
    BY <1>2, <1>6, <1>7 DEF Stranded
  <2>4. stranded' \subseteq provider'.imported /\ provider'.exported = provider'.imported
    BY <1>1, <1>2, <1>6 DEF Stranded
  <2> QED BY <1>1, <1>2, <2>1, <2>2, <2>3, <2>4 DEF Stranded
<1>9. /\ kept.next = provider.next /\ kept.imported = provider.imported \ stranded
      /\ kept.exported = provider.exported \ stranded
      /\ kept.marked = provider.marked /\ kept.released = provider.released
      /\ kept \in Kept!ProviderType
  <2> DEFINE w == Without(provider, stranded)
  <2>1. /\ w = [next |-> provider.next, imported |-> provider.imported \ stranded,
                exported |-> provider.exported \ stranded, marked |-> provider.marked,
                released |-> provider.released]
        /\ w \in Kept!ProviderType
    BY <1>2, WithoutResult
  <2> HIDE DEF w
  <2>2. /\ w.next = provider.next /\ w.imported = provider.imported \ stranded
        /\ w.exported = provider.exported \ stranded
        /\ w.marked = provider.marked /\ w.released = provider.released
    BY <2>1
  <2> QED BY <2>1, <2>2 DEF kept, w
<1>10. /\ kept'.next = provider'.next /\ kept'.imported = provider'.imported \ stranded'
       /\ kept'.exported = provider'.exported \ stranded'
       /\ kept'.marked = provider'.marked /\ kept'.released = provider'.released
       /\ kept' \in Kept!ProviderType
  <2> DEFINE w == Without(provider', stranded')
  <2>1. /\ w = [next |-> provider'.next, imported |-> provider'.imported \ stranded',
                exported |-> provider'.exported \ stranded', marked |-> provider'.marked,
                released |-> provider'.released]
        /\ w \in Kept!ProviderType
    BY <1>8, WithoutResult DEF Stranded
  <2> HIDE DEF w
  <2>2. /\ w.next = provider'.next /\ w.imported = provider'.imported \ stranded'
        /\ w.exported = provider'.exported \ stranded'
        /\ w.marked = provider'.marked /\ w.released = provider'.released
    BY <2>1
  <2>3. kept' = w
    BY DEF kept, w
  <2> QED BY <2>1, <2>2, <2>3
<1>11. /\ kept'.imported = kept.imported \cup ids /\ kept'.exported = kept.exported \cup ids
       /\ kept'.marked = kept.marked /\ kept'.released = kept.released
       /\ kept'.next >= kept.next /\ \A id \in ids : kept.next <= id /\ id < kept'.next
  <2>1. /\ (provider.imported \cup ids) \ stranded = (provider.imported \ stranded) \cup ids
        /\ (provider.exported \cup ids) \ stranded = (provider.exported \ stranded) \cup ids
    BY <1>7
  <2>2. kept'.imported = kept.imported \cup ids /\ kept'.exported = kept.exported \cup ids
    BY <1>1, <1>6, <1>9, <1>10, <2>1
  <2> QED BY <1>3, <1>6, <1>9, <1>10, <2>2
<1>12. /\ pipe \in Seq(Kept!MessageType) /\ Kept!Disjoint(pipe)
       /\ \A i \in 1..Len(pipe) : pipe[i].res # {} => pipe[i].op = "SubmitCompositorFrame"
  BY <1>2 DEF Kept!SinkInv, Kept!SinkTypeOK, Kept!Conservation, Kept!OnePlace,
              Kept!OnlyFramesCarry
<1>13. Head(queue).op \notin Kept!Returns
  BY <1>1 DEF Kept!Returns
<1>14. pipe' = Append(pipe, Kept!Frame(ids, {}, Surface)) /\ {} \in SUBSET Nat
  BY <1>1, SameTasks DEF ids
<1>15. /\ queue # <<>> /\ queue' = Tail(queue) /\ Kept!SinkInv
       /\ UNCHANGED <<needsBeginFrame, bitmaps, active, shown, retired, held, ackPending>>
  BY <1>1, <1>2
<1>16. Kept!SinkInv'
  BY <1>3, <1>5, <1>10, <1>11, <1>12, <1>13, <1>14, <1>15, Kept!FrameInv,
     MaxBeginFramesAssumption
<1> QED BY <1>8, <1>16 DEF LeakInv

-----------------------------------------------------------------------------
(***************************************************************************)
(* All steps of the program.                                               *)
(***************************************************************************)
\* Steps that nothing of the client's resources sees.
LEMMA StutterStep ==
  ASSUME LeakInv, UNCHANGED <<sinkVars, stranded>>
  PROVE  LeakInv'
<1>1. UNCHANGED kept
  BY DEF kept, sinkVars
<1>2. UNCHANGED Kept!sinkVars
  BY <1>1 DEF sinkVars, Kept!sinkVars
<1>3. Kept!SinkInv'
  BY <1>2, Kept!StutterInv, MaxBeginFramesAssumption DEF LeakInv
<1> QED BY <1>3 DEF LeakInv, Stranded, sinkVars

\* A task posted to either client's thread.
LEMMA PostToStep ==
  ASSUME LeakInv, NEW c, NEW op \in TaskOps, PostTo(c, op),
         UNCHANGED <<provider, stranded, pipe, remoteVars>>
  PROVE  LeakInv'
<1>1. CASE c = role
  BY <1>1, PostStep DEF PostTo
<1>2. CASE c # role
  BY <1>2, StutterStep DEF PostTo, sinkVars, remoteVars
<1> QED BY <1>1, <1>2

\* No step of any thread breaks LeakInv.
LEMMA LeakStep ==
  ASSUME LeakInv, TypeOK, [Next]_vars
  PROVE  LeakInv'
<1>1. CASE InitializeDemo \/ EmbedChild \/ EmbedChildReturns
           \/ \E c \in Clients : AskForProvider(c)
  BY <1>1, StutterStep
  DEF InitializeDemo, AskForProvider, EmbedChild, EmbedChildReturns, embedVars, ownVars
<1>2. CASE GpuThread \/ \E c \in Clients : Bind(c)
  <2>1. "BindOnThread" \in TaskOps /\ "BindSharedImageInterfaceProvider" \in TaskOps
    BY DEF TaskOps
  <2>2. UNCHANGED <<provider, stranded, pipe, remoteVars>>
    BY <1>2 DEF GpuThread, Bind, ownVars
  <2>3. CASE GpuThread
    BY <2>1, <2>2, <2>3, PostToStep DEF GpuThread
  <2>4. CASE \E c \in Clients : Bind(c)
    BY <2>1, <2>2, <2>4, PostToStep DEF Bind
  <2> QED BY <1>2, <2>3, <2>4
<1>3. CASE BindOnThread \/ BindSharedImageInterfaceProvider
  <2>1. "SetNeedsBeginFrame" \in MessageOps
    BY DEF MessageOps
  <2>2. /\ queue # <<>> /\ Head(queue).op \notin Kept!Returns /\ queue' = Tail(queue)
        /\ UNCHANGED pipe \/ pipe' = Append(pipe, Call("SetNeedsBeginFrame"))
        /\ UNCHANGED <<provider, stranded, remoteVars>>
    BY <1>3 DEF BindOnThread, BindSharedImageInterfaceProvider, Is, Kept!Returns
  <2> QED BY <2>1, <2>2, CallStep
<1>4. CASE OnBeginFrame \/ DidReceiveCompositorFrameAck \/ ReclaimResources
  BY <1>4, FrameStep, AckStep, ReclaimStep DEF TypeOK
<1>5. CASE Vsync \/ Answer \/ Return
  <2>1. Service /\ UNCHANGED stranded
    BY <1>5 DEF Vsync, Answer, Return, Unseen, Service, ownVars
  <2> QED BY <2>1, ServiceStep
<1>6. CASE UNCHANGED vars
  BY <1>6, StutterStep DEF vars, ownVars
<1> QED BY <1>1, <1>2, <1>3, <1>4, <1>5, <1>6 DEF Next, CompositorThread, ClientThread

-----------------------------------------------------------------------------
(***************************************************************************)
(* The promise of BufferOwnership, which says nothing of a buffer that is  *)
(* given back and never freed: what is stranded stays lent.                *)
(***************************************************************************)
Ownership == INSTANCE BufferOwnership WITH
               lent <- provider.imported, inUse <- InUse, freed <- provider.released

\* What the service and the pipe hold after a message is sent or taken.
LEMMA InUseStep ==
  ASSUME LeakInv, UNCHANGED <<active, retired>>
  PROVE  /\ UNCHANGED pipe => InUse' = InUse
         /\ \A m \in MessageType : pipe' = Append(pipe, m) => InUse' = InUse \cup m.res
<1>1. pipe \in Seq(MessageType)
  <2>1. pipe \in Seq(Kept!MessageType)
    BY DEF LeakInv, Kept!SinkInv, Kept!SinkTypeOK
  <2> QED BY <2>1, SameTasks DEF Kept!MessageType, MessageType
<1>2. UNCHANGED pipe => InUse' = InUse
  BY DEF InUse
<1>3. ASSUME NEW m \in MessageType, pipe' = Append(pipe, m) PROVE InUse' = InUse \cup m.res
  <2>1. Kept!Carried(Append(pipe, m)) = Kept!Carried(pipe) \cup m.res
    BY <1>1, Kept!CarriedAppend, MaxBeginFramesAssumption
  <2>2. \A q : Kept!Carried(q) = Carried(q)
    BY DEF Kept!Carried, Carried
  <2>3. Carried(pipe') = Carried(pipe) \cup m.res
    BY <1>3, <2>1, <2>2
  <2> QED BY <2>3 DEF InUse
<1> QED BY <1>2, <1>3

\* The service gives back, or goes on using what it has.
LEMMA ServiceGives ==
  ASSUME LeakInv, Service
  PROVE  InUse' \subseteq InUse /\ UNCHANGED provider
<1> USE DEF Is
<1>1. CASE ServiceReceive
  <2>1. pipe # <<>> /\ pipe' = Tail(pipe)
    BY <1>1 DEF ServiceReceive, ServiceSetNeedsBeginFrame, ServiceDidAllocateSharedBitmap,
                ServiceSubmitCompositorFrame, ServiceDidNotProduceFrame
  <2>2. pipe \in Seq(Kept!MessageType)
    BY DEF LeakInv, Kept!SinkInv, Kept!SinkTypeOK
  <2>3. Kept!Carried(pipe) = Head(pipe).res \cup Kept!Carried(pipe')
    BY <2>1, <2>2, Kept!CarriedTail, MaxBeginFramesAssumption
  <2>4. Carried(pipe) = Head(pipe).res \cup Carried(pipe')
    BY <2>3 DEF Kept!Carried, Carried
  <2> QED
    BY <1>1, <2>4
    DEF ServiceReceive, ServiceSetNeedsBeginFrame, ServiceDidAllocateSharedBitmap,
        ServiceSubmitCompositorFrame, ServiceDidNotProduceFrame, InUse
<1>2. CASE ServiceBeginFrame \/ ServiceAck \/ ServiceHoldResources \/ ServiceReclaimResources
  BY <1>2
  DEF ServiceBeginFrame, ServiceAck, ServiceHoldResources, ServiceReclaimResources, InUse
<1> QED BY <1>1, <1>2 DEF Service

\* A frame lends what it imports.
LEMMA FrameLends ==
  ASSUME LeakInv, child_surface \in Nat, allocated \in Nat, OnBeginFrame
  PROVE  Ownership!Lend
<1> DEFINE m == Frame(NewResources, {}, Surface)
<1>1. /\ provider' = CreateFrame(provider) /\ pipe' = Append(pipe, m)
      /\ UNCHANGED <<active, retired>>
  BY DEF OnBeginFrame, remoteVars
<1>2. /\ Stranded /\ provider \in ProviderType /\ provider.next \in Nat
      /\ provider.imported \in SUBSET Nat /\ provider.released \in SUBSET Nat
  BY DEF LeakInv, Stranded, ProviderType
<1>3. /\ NewResources \in SUBSET Nat
      /\ NewResources \cap (provider.imported \cup provider.released) = {}
  BY <1>2 DEF NewResources, Stranded
<1>4. /\ provider'.imported = provider.imported \cup NewResources
      /\ provider'.released = provider.released
  BY <1>1, <1>2, FrameResult
<1>5. m \in MessageType /\ m.res = NewResources
  <2>1. Surface \in Nat
    BY DEF Surface
  <2> QED BY <1>3, <2>1 DEF Frame, MessageType, MessageOps
<1> HIDE DEF m
<1>6. InUse' = InUse \cup NewResources
  BY <1>1, <1>5, InUseStep
<1>7. provider'.imported \ provider.imported = NewResources
  BY <1>3, <1>4
<1> QED BY <1>3, <1>4, <1>6, <1>7 DEF Ownership!Lend

\* What ReclaimResources brings back is freed.
LEMMA ReclaimFrees ==
  ASSUME LeakInv, ReclaimResources
  PROVE  Ownership!Free
<1> DEFINE ids == Head(queue).res
<1>1. /\ queue # <<>> /\ queue' = Tail(queue) /\ provider' = TakeBack(ids)
      /\ UNCHANGED <<pipe, active, retired>>
  BY DEF ReclaimResources, Is, remoteVars
<1>2. /\ ids \subseteq provider.imported \ stranded /\ provider.marked = {}
  BY <1>1, ReturnFacts
<1>3. ids \cap InUse = {}
  <2>1. Kept!SinkInv /\ Kept!InUse \cap Kept!Returning = {}
    BY DEF LeakInv, Kept!SinkInv, Kept!Conservation, Kept!OnePlace
  <2>2. ids \subseteq Kept!Carried(queue)
    BY <1>1, <2>1, Kept!QueueTail, MaxBeginFramesAssumption
  <2> QED BY <2>1, <2>2, SameService DEF Kept!Returning
<1> HIDE DEF ids
<1>4. provider \in ProviderType /\ provider.exported = provider.imported
      /\ provider.released \cap provider.imported = {}
  BY DEF LeakInv, Stranded
<1>5. provider' = [next |-> provider.next, imported |-> provider.imported \ ids,
                   exported |-> provider.imported \ ids, marked |-> {},
                   released |-> provider.released \cup ids]
  <2>1. ids \in SUBSET provider.imported
    BY <1>2
  <2> QED BY <1>1, <1>2, <1>4, <2>1, TakeBackResult
<1>6. /\ provider'.imported = provider.imported \ ids
      /\ provider'.released = provider.released \cup ids
  BY <1>5
<1>7. provider'.released \ provider.released = ids
  BY <1>2, <1>4, <1>6
<1>8. InUse' = InUse
  BY <1>1, InUseStep
<1> QED BY <1>2, <1>3, <1>6, <1>7, <1>8 DEF Ownership!Free

\* Every step keeps the promise.
LEMMA OwnershipStep ==
  ASSUME LeakInv, TypeOK, [Next]_vars
  PROVE  [Ownership!Next]_(Ownership!vars)
<1> USE DEF Ownership!Next, Ownership!vars
<1>1. CASE UNCHANGED <<provider, pipe, active, retired>>
  BY <1>1, InUseStep
<1>2. CASE OnBeginFrame
  BY <1>2, FrameLends DEF TypeOK
<1>3. CASE ReclaimResources
  BY <1>3, ReclaimFrees
<1>4. CASE Vsync \/ Answer \/ Return
  <2>1. Service
    BY <1>4 DEF Vsync, Answer, Return, Service
  <2> QED BY <2>1, ServiceGives DEF Ownership!GiveBack
<1>5. CASE BindOnThread
  <2>1. /\ UNCHANGED <<provider, active, retired>>
        /\ pipe' = Append(pipe, Call("SetNeedsBeginFrame"))
    BY <1>5 DEF BindOnThread, remoteVars
  <2>2. Call("SetNeedsBeginFrame") \in MessageType /\ Call("SetNeedsBeginFrame").res = {}
    BY DEF Call, MessageType, MessageOps
  <2>3. InUse' = InUse
    BY <2>1, <2>2, InUseStep
  <2> QED BY <2>1, <2>3
<1>6. CASE InitializeDemo \/ CompositorThread \/ GpuThread
           \/ BindSharedImageInterfaceProvider \/ DidReceiveCompositorFrameAck
           \/ UNCHANGED vars
  <2>1. UNCHANGED <<provider, pipe, active, retired>>
    BY <1>6
    DEF CompositorThread, InitializeDemo, EmbedChild, EmbedChildReturns, Bind, AskForProvider,
        GpuThread, BindSharedImageInterfaceProvider, DidReceiveCompositorFrameAck, vars,
        sinkVars, remoteVars
  <2> QED BY <1>1, <2>1
<1> QED BY <1>2, <1>3, <1>4, <1>5, <1>6 DEF Next, ClientThread

-----------------------------------------------------------------------------
(***************************************************************************)
(* Surfaces.                                                               *)
(***************************************************************************)
\* OneChildSurface in terms of OnlyEmbeds.
LEMMA ShowsMember ==
  OneChildSurface <=> TypeOK /\ Kept!OnlyEmbeds(pipe, child_surface)
BY DEF OneChildSurface, Kept!OnlyEmbeds

\* What a client does while lock_ is free shows the child's surface or nothing.
LEMMA ShowsTheChild ==
  ASSUME TypeOK, LockHeld, NoChildYet, queue # <<>>, lock_ = "free"
  PROVE  Surface \in Nat /\ (Surface # 0 => child_surface # 0 /\ Surface = child_surface + 1)
<1>1. child_surface \in Nat /\ stage # "embedding" /\ allocated = child_surface
  BY DEF LockHeld, TypeOK
<1>2. CASE role = "child"
  <2>1. child_surface # 0
    BY <1>2 DEF NoChildYet
  <2> QED BY <1>1, <1>2, <2>1 DEF Surface
<1>3. CASE role # "child" /\ child_frame_sink_id
  <2>1. child_surface # 0
    BY <1>1, <1>3 DEF LockHeld
  <2> QED BY <1>1, <1>3, <2>1 DEF Surface
<1>4. CASE role # "child" /\ ~child_frame_sink_id
  BY <1>4 DEF Surface
<1> QED BY <1>2, <1>3, <1>4

\* Only the root asks for a provider, and one more time.
LEMMA RootAppended ==
  ASSUME NEW q \in Seq(Clients), \A i \in 1..Len(q) : q[i] = "root"
  PROVE  \A i \in 1..Len(Append(q, "root")) : Append(q, "root")[i] = "root"
<1> SUFFICES ASSUME NEW i \in 1..Len(Append(q, "root"))
             PROVE  Append(q, "root")[i] = "root"
  OBVIOUS
<1>1. "root" \in Clients
  BY DEF Clients
<1>2. i = Len(q) + 1 \/ i \in 1..Len(q)
  BY <1>1
<1> QED BY <1>1, <1>2

\* The compositor thread embeds the child under lock_ and binds it afterwards.
LEMMA CompositorStep ==
  ASSUME TypeOK, LockHeld, NoChildYet, Kept!OnlyEmbeds(pipe, child_surface),
         InitializeDemo \/ CompositorThread
  PROVE  LockHeld' /\ NoChildYet' /\ Kept!OnlyEmbeds(pipe', child_surface')
<1>1. CASE InitializeDemo
  <2>1. UNCHANGED <<queue, pipe, retired, needsBeginFrame, ackPending, role, child_surface,
                    gpuTasks, lock_, child_frame_sink_id, allocated>>
    BY <1>1 DEF InitializeDemo, sinkVars, embedVars
  <2>2. LockHeld'
    BY <1>1, <2>1 DEF InitializeDemo, LockHeld
  <2> QED BY <2>1, <2>2 DEF NoChildYet
<1>2. CASE \E c \in Clients : Bind(c)
  <2>1. PICK c \in Clients : Bind(c)
    BY <1>2
  <2>2. /\ c = "root" \/ c = "child"
        /\ UNCHANGED <<pipe, retired, needsBeginFrame, ackPending, role, child_surface,
                       gpuTasks, lock_, child_frame_sink_id, allocated>>
    BY <2>1 DEF Bind, Clients, remoteVars, embedVars
  <2>3. LockHeld'
    BY <2>1, <2>2 DEF Bind, LockHeld
  <2>4. CASE c = "root"
    <3>1. role = "child" => queue' = queue
      BY <2>1, <2>4 DEF Bind, PostTo
    <3> QED BY <2>2, <2>3, <3>1 DEF NoChildYet
  <2>5. CASE c = "child"
    <3>1. child_surface # 0
      BY <2>1, <2>5 DEF Bind, LockHeld
    <3> QED BY <2>2, <2>3, <3>1 DEF NoChildYet
  <2> QED BY <2>2, <2>4, <2>5
<1>3. CASE \E c \in Clients : AskForProvider(c)
  <2>1. PICK c \in Clients : AskForProvider(c)
    BY <1>3
  <2>2. /\ c = "root" \/ c = "child"
        /\ UNCHANGED <<queue, pipe, retired, needsBeginFrame, ackPending, role, child_surface,
                       lock_, child_frame_sink_id, allocated>>
    BY <2>1 DEF AskForProvider, Clients, sinkVars, embedVars
  <2>3. LockHeld'
    BY <2>1, <2>2 DEF AskForProvider, LockHeld
  <2>4. CASE c = "root"
    <3>1. gpuTasks \in Seq(Clients) /\ gpuTasks' = Append(gpuTasks, "root")
      BY <2>1, <2>4 DEF AskForProvider, TypeOK
    <3>2. (\A i \in 1..Len(gpuTasks) : gpuTasks[i] = "root") =>
            \A i \in 1..Len(gpuTasks') : gpuTasks'[i] = "root"
      BY <3>1, RootAppended
    <3> QED BY <2>2, <2>3, <3>2 DEF NoChildYet
  <2>5. CASE c = "child"
    <3>1. child_surface # 0
      BY <2>1, <2>5 DEF AskForProvider, LockHeld
    <3> QED BY <2>2, <2>3, <3>1 DEF NoChildYet
  <2> QED BY <2>2, <2>4, <2>5
<1>4. CASE EmbedChild
  <2>1. UNCHANGED <<queue, pipe, retired, needsBeginFrame, ackPending, role, child_surface,
                    gpuTasks, allocated>>
    BY <1>4 DEF EmbedChild, sinkVars
  <2>2. LockHeld'
    BY <1>4, <2>1 DEF EmbedChild, LockHeld
  <2> QED BY <2>1, <2>2 DEF NoChildYet
<1>5. CASE EmbedChildReturns
  <2>1. /\ stage = "embedding" /\ stage' = "bind child" /\ lock_' = "free"
        /\ allocated' = allocated + 1 /\ child_surface' = allocated'
        /\ UNCHANGED <<pipe, child_frame_sink_id>>
    BY <1>5 DEF EmbedChildReturns, sinkVars
  <2>2. child_surface = 0 /\ allocated = 0
    BY <2>1 DEF LockHeld
  <2>3. allocated' = 1 /\ child_surface' = allocated'
    <3>1. 0 + 1 = 1
      OBVIOUS
    <3> QED BY ONLY <2>1, <2>2, <3>1
  <2>4. LockHeld' /\ NoChildYet'
    <3>1. child_frame_sink_id'
      BY <2>1 DEF LockHeld
    <3>2. LockHeld'
      <4>1. stage' = "bind child" /\ lock_' = "free"
        BY <2>1
      <4>2. child_surface' # 0
        BY ONLY <2>3
      <4> QED BY ONLY <2>3, <3>1, <4>1, <4>2 DEF LockHeld
    <3> QED BY <2>3, <3>2 DEF NoChildYet
  \* No frame shows anything before the surface is made.
  <2>5. Kept!OnlyEmbeds(pipe', child_surface')
    BY <2>1, <2>2 DEF Kept!OnlyEmbeds
  <2> QED BY <2>4, <2>5
<1> QED BY <1>1, <1>2, <1>3, <1>4, <1>5 DEF CompositorThread

\* The other threads leave the child's surface alone.
LEMMA OtherStep ==
  ASSUME SinkTypeOK, TypeOK, LockHeld, NoChildYet, Kept!OnlyEmbeds(pipe, child_surface),
         GpuThread \/ ClientThread \/ Vsync \/ Answer \/ Return \/ UNCHANGED vars
  PROVE  LockHeld' /\ NoChildYet' /\ Kept!OnlyEmbeds(pipe', child_surface')
<1>1. UNCHANGED <<role, stage, child_surface, lock_, child_frame_sink_id, allocated>>
  BY DEF GpuThread, ClientThread, Vsync, Answer, Return, Unseen, vars, othersVars,
         compositorVars, embedVars, BindOnThread, BindSharedImageInterfaceProvider,
         OnBeginFrame, DidReceiveCompositorFrameAck, ReclaimResources
<1>2. LockHeld'
  BY <1>1 DEF LockHeld
<1>3. pipe \in Seq(Kept!MessageType)
  BY SameTasks DEF SinkTypeOK, MessageType, Kept!MessageType
<1>4. CASE GpuThread
  <2>1. /\ gpuTasks # <<>> /\ gpuTasks' = Tail(gpuTasks)
        /\ UNCHANGED <<pipe, retired, needsBeginFrame, ackPending>>
    BY <1>4 DEF GpuThread, remoteVars
  <2>2. CASE role = "child" /\ child_surface = 0
    <3>1. /\ Head(gpuTasks) = gpuTasks[1] /\ Len(gpuTasks) \in Nat \ {0}
          /\ Len(gpuTasks') = Len(gpuTasks) - 1
          /\ \A i \in 1..Len(gpuTasks') : gpuTasks'[i] = gpuTasks[i + 1]
      BY <2>1 DEF TypeOK
    <3>2. \A i \in 1..Len(gpuTasks) : gpuTasks[i] = "root"
      BY <2>2 DEF NoChildYet
    <3>3. Head(gpuTasks) # role /\ \A i \in 1..Len(gpuTasks') : gpuTasks'[i] = "root"
      BY <2>2, <3>1, <3>2
    <3>4. queue' = queue
      BY <1>4, <3>3 DEF GpuThread, PostTo
    <3> QED BY <1>1, <1>2, <2>1, <3>3, <3>4 DEF NoChildYet
  <2> QED BY <1>1, <1>2, <2>1, <2>2 DEF NoChildYet
<1>5. CASE ClientThread
  <2>1. queue # <<>>
    BY <1>5 DEF ClientThread, BindOnThread, BindSharedImageInterfaceProvider, OnBeginFrame,
                DidReceiveCompositorFrameAck, ReclaimResources, Is
  <2>2. NoChildYet'
    BY <1>1, <2>1 DEF NoChildYet
  <2>3. CASE OnBeginFrame
    <3> DEFINE m == Kept!Frame(NewResources, {}, Surface)
    <3>1. /\ m.content = Surface /\ pipe' = Append(pipe, m)
      BY <2>3, SameTasks DEF OnBeginFrame, Kept!Frame
    <3>2. Surface \in Nat /\ (Surface # 0 => child_surface # 0 /\ Surface = child_surface + 1)
      BY <2>1, <2>3, ShowsTheChild DEF OnBeginFrame
    <3>3. m \in Kept!MessageType
      <4>1. NewResources \in SUBSET Nat
        BY DEF NewResources, SinkTypeOK, ProviderType
      <4> QED BY <3>2, <4>1 DEF Kept!Frame, Kept!MessageType, Kept!MessageOps
    <3> HIDE DEF m
    <3> QED BY <1>1, <1>2, <1>3, <2>2, <3>1, <3>2, <3>3, Kept!EmbedsAppend,
               MaxBeginFramesAssumption
  <2>4. CASE BindOnThread
    <3> DEFINE m == Kept!Call("SetNeedsBeginFrame")
    <3>1. /\ m.content = 0 /\ m \in Kept!MessageType
      BY DEF Kept!Call, Kept!MessageType, Kept!MessageOps
    <3>2. pipe' = Append(pipe, m)
      BY <2>4, SameTasks DEF BindOnThread
    <3> HIDE DEF m
    <3> QED BY <1>1, <1>2, <1>3, <2>2, <3>1, <3>2, Kept!EmbedsAppend, MaxBeginFramesAssumption
  <2>5. CASE UNCHANGED pipe
    BY <1>1, <1>2, <2>2, <2>5
  <2> QED
    BY <1>5, <2>3, <2>4, <2>5 DEF ClientThread, BindSharedImageInterfaceProvider,
                                  DidReceiveCompositorFrameAck, ReclaimResources
<1>6. CASE Vsync \/ Answer \/ Return
  <2>1. /\ \/ ServiceBeginFrame \/ ServiceReceive \/ ServiceAck
           \/ ServiceHoldResources \/ ServiceReclaimResources
        /\ UNCHANGED gpuTasks
    BY <1>6 DEF Vsync, Answer, Return, Unseen
  <2>2. CASE ServiceReceive
    <3>1. pipe # <<>> /\ pipe' = Tail(pipe)
      BY <2>2 DEF ServiceReceive, ServiceSetNeedsBeginFrame, ServiceDidAllocateSharedBitmap,
                  ServiceSubmitCompositorFrame, ServiceDidNotProduceFrame, Is
    <3>2. NoChildYet'
      BY <1>1, <3>1 DEF NoChildYet
    <3> QED BY <1>1, <1>2, <1>3, <3>1, <3>2, Kept!EmbedsTail, MaxBeginFramesAssumption
  <2>3. CASE ~ServiceReceive
    <3>1. UNCHANGED pipe
      BY <2>1, <2>3 DEF ServiceBeginFrame, ServiceAck, ServiceHoldResources,
                        ServiceReclaimResources
    <3>2. needsBeginFrame \/ ackPending > 0 \/ retired # {}
      BY <2>1, <2>3 DEF ServiceBeginFrame, ServiceAck, ServiceHoldResources,
                        ServiceReclaimResources
    <3>3. NoChildYet'
      <4>1. ~(role = "child" /\ child_surface = 0)
        BY <3>2 DEF NoChildYet
      <4> QED BY <1>1, <4>1 DEF NoChildYet
    <3> QED BY <1>1, <1>2, <3>1, <3>3
  <2> QED BY <2>2, <2>3
<1>7. CASE UNCHANGED vars
  BY <1>1, <1>2, <1>7 DEF vars, sinkVars, othersVars, NoChildYet
<1> QED BY <1>4, <1>5, <1>6, <1>7

\* Every variable keeps to its range.
LEMMA TypeStep ==
  ASSUME LeakInv', TypeOK, [Next]_vars
  PROVE  TypeOK'
<1>1. SinkTypeOK'
  BY SameTasks
  DEF LeakInv, Stranded, Kept!SinkInv, Kept!SinkTypeOK, SinkTypeOK, Kept!TaskType, TaskType,
      Kept!MessageType, MessageType
<1>2. stranded' \in SUBSET Nat
  BY DEF LeakInv, Stranded
<1>3. CASE InitializeDemo \/ CompositorThread
  <2>1. UNCHANGED <<role, vsyncs, ownVars>>
    BY <1>3 DEF InitializeDemo, CompositorThread, Bind, AskForProvider, EmbedChild,
                EmbedChildReturns
  <2>2. stage' \in Stages
    BY <1>3 DEF InitializeDemo, CompositorThread, Bind, AskForProvider, EmbedChild,
                EmbedChildReturns, Stages
  <2>3. lock_' \in {"free", "compositor"}
    BY <1>3 DEF TypeOK, embedVars, InitializeDemo, CompositorThread, Bind, AskForProvider,
                EmbedChild, EmbedChildReturns
  <2>4. child_frame_sink_id' \in BOOLEAN
    BY <1>3 DEF TypeOK, embedVars, InitializeDemo, CompositorThread, Bind, AskForProvider,
                EmbedChild, EmbedChildReturns
  <2>5. child_surface' \in Nat /\ allocated' \in Nat
    <3>1. CASE EmbedChildReturns
      <4>1. allocated' = allocated + 1 /\ child_surface' = allocated' /\ allocated \in Nat
        BY <3>1 DEF EmbedChildReturns, TypeOK
      <4> QED BY <4>1
    <3>2. CASE ~EmbedChildReturns
      BY <1>3, <3>2 DEF TypeOK, embedVars, InitializeDemo, CompositorThread, Bind,
                        AskForProvider, EmbedChild
    <3> QED BY <3>1, <3>2
  <2>6. gpuTasks' \in Seq(Clients)
    <3>1. gpuTasks \in Seq(Clients)
      BY DEF TypeOK
    <3>2. CASE \E c \in Clients : AskForProvider(c)
      <4>1. PICK c \in Clients : AskForProvider(c)
        BY <3>2
      <4>2. gpuTasks' = Append(gpuTasks, c)
        BY <4>1 DEF AskForProvider
      <4> QED BY <3>1, <4>2
    <3>3. CASE UNCHANGED gpuTasks
      BY <3>1, <3>3
    <3> QED BY <1>3, <3>2, <3>3 DEF InitializeDemo, CompositorThread, Bind, EmbedChild,
                                    EmbedChildReturns
  <2> QED BY <1>1, <1>2, <2>1, <2>2, <2>3, <2>4, <2>5, <2>6 DEF TypeOK, ownVars
<1>4. CASE GpuThread
  <2>1. gpuTasks' \in Seq(Clients)
    <3>1. gpuTasks \in Seq(Clients) /\ gpuTasks # <<>> /\ gpuTasks' = Tail(gpuTasks)
      BY <1>4 DEF GpuThread, TypeOK
    <3> QED BY <3>1
  <2> QED BY <1>1, <1>4, <2>1 DEF GpuThread, TypeOK, compositorVars, embedVars, ownVars
<1>5. CASE ClientThread
  <2>1. UNCHANGED othersVars
    BY <1>5 DEF ClientThread, BindOnThread, BindSharedImageInterfaceProvider, OnBeginFrame,
                DidReceiveCompositorFrameAck, ReclaimResources
  <2>2. bound' \in BOOLEAN /\ shared_image_interface_provider' \in BOOLEAN
    BY <1>5 DEF TypeOK, ownVars, ClientThread, BindOnThread, BindSharedImageInterfaceProvider,
                OnBeginFrame, DidReceiveCompositorFrameAck, ReclaimResources
  <2> QED BY <1>1, <1>2, <2>1, <2>2 DEF TypeOK, othersVars, compositorVars, embedVars
<1>6. CASE Vsync \/ Answer \/ Return
  <2>1. vsyncs' \in 0..MaxVsyncs
    BY <1>6, VsyncsAssumption DEF TypeOK, Vsync, Answer, Return
  <2>2. Unseen
    BY <1>6 DEF Vsync, Answer, Return
  <2> QED BY <1>1, <2>1, <2>2 DEF TypeOK, Unseen, compositorVars, embedVars, ownVars
<1>7. CASE UNCHANGED vars
  BY <1>1, <1>7 DEF TypeOK, vars, othersVars, compositorVars, embedVars, ownVars
<1> QED BY <1>3, <1>4, <1>5, <1>6, <1>7 DEF Next

-----------------------------------------------------------------------------
(***************************************************************************)
(* The theorems.                                                           *)
(***************************************************************************)
\* The client has lent and lost nothing before it starts.
LEMMA InitInv == Init => IndInv
<1> SUFFICES ASSUME Init PROVE IndInv
  OBVIOUS
<1>1. /\ queue = <<>> /\ pipe = <<>> /\ provider = NewProvider /\ stranded = {}
      /\ needsBeginFrame = FALSE /\ bitmaps = {} /\ active = {} /\ retired = {}
      /\ held = {} /\ shown = 0 /\ ackPending = 0 /\ child_surface = 0 /\ allocated = 0
  BY DEF Init, SinkInit
<1>2. /\ provider.next = 1 /\ provider.imported = {} /\ provider.exported = {}
      /\ provider.marked = {} /\ provider.released = {} /\ provider \in ProviderType
  BY <1>1 DEF NewProvider, ProviderType
<1>3. Stranded
  BY <1>1, <1>2 DEF Stranded
<1>4. kept = Kept!NewProvider
  <2>1. {} \ {} = {}
    OBVIOUS
  <2> QED BY <1>1, <1>2, <2>1, WithoutResult DEF kept, Kept!NewProvider
<1>5. Kept!SinkInv
  BY <1>1, <1>4, Kept!SinkInitInv, MaxBeginFramesAssumption DEF Kept!SinkInit
<1>6. TypeOK
  <2>1. vsyncs \in 0..MaxVsyncs
    BY VsyncsAssumption DEF Init
  <2>2. queue \in Seq(TaskType) /\ pipe \in Seq(MessageType) /\ gpuTasks \in Seq(Clients)
    BY <1>1 DEF Init
  <2>3. SinkTypeOK
    <3>1. needsBeginFrame \in BOOLEAN /\ ackPending \in Nat /\ shown \in Nat
      BY <1>1
    <3>2. /\ bitmaps \in SUBSET Nat /\ active \in SUBSET Nat
          /\ retired \in SUBSET Nat /\ held \in SUBSET Nat
      BY <1>1
    <3> QED BY <1>2, <2>2, <3>1, <3>2 DEF SinkTypeOK
  <2>4. /\ child_frame_sink_id \in BOOLEAN /\ bound \in BOOLEAN
        /\ shared_image_interface_provider \in BOOLEAN
    BY DEF Init
  <2>5. role \in Clients /\ stage \in Stages /\ lock_ \in {"free", "compositor"}
    BY DEF Init, Stages
  <2>6. child_surface \in Nat /\ allocated \in Nat /\ stranded \in SUBSET Nat
    BY <1>1
  <2> QED BY <2>1, <2>2, <2>3, <2>4, <2>5, <2>6 DEF TypeOK
<1>7. OneChildSurface /\ LockHeld /\ NoChildYet
  BY <1>1, <1>6 DEF Init, OneChildSurface, LockHeld, NoChildYet
<1> QED BY <1>3, <1>5, <1>7 DEF IndInv, LeakInv, SurfaceInv

\* No step of any thread breaks IndInv.
LEMMA StepInv ==
  ASSUME IndInv, [Next]_vars
  PROVE  IndInv'
<1>1. /\ LeakInv /\ TypeOK /\ SinkTypeOK /\ LockHeld /\ NoChildYet
      /\ Kept!OnlyEmbeds(pipe, child_surface)
  BY ShowsMember DEF IndInv, SurfaceInv, TypeOK
<1>2. LeakInv' /\ TypeOK'
  BY <1>1, LeakStep, TypeStep
<1>3. LockHeld' /\ NoChildYet' /\ Kept!OnlyEmbeds(pipe', child_surface')
  BY <1>1, CompositorStep, OtherStep DEF Next
<1> QED BY <1>2, <1>3 DEF IndInv, SurfaceInv, OneChildSurface, Kept!OnlyEmbeds

\* Every conjunct of IndInv holds in every state.
THEOREM Invariance == Spec => []IndInv
<1>1. IndInv /\ [Next]_vars => IndInv'
  BY StepInv
<1> QED BY InitInv, <1>1, PTL DEF Spec

\* What acks bring back is all that the client leaks: every other resource is at one
\* place only, and none is destroyed while it is there (DidReceiveCompositorFrameAck,
\* ReclaimResources).
THEOREM OnlyAcksLeak == Spec => []OnlyAcksStrand
<1>1. ASSUME IndInv PROVE OnlyAcksStrand
  <2>1. /\ Kept!Conservation /\ Stranded
        /\ OnePlace /\ kept.imported = InUse \cup Returning
    BY <1>1, SameService DEF IndInv, LeakInv, Kept!SinkInv, Kept!Conservation
  <2>2. kept.imported = provider.imported \ stranded
    <3> DEFINE w == Without(provider, stranded)
    <3>1. w = [next |-> provider.next, imported |-> provider.imported \ stranded,
               exported |-> provider.exported \ stranded, marked |-> provider.marked,
               released |-> provider.released]
      BY <2>1, WithoutResult DEF Stranded
    <3> HIDE DEF w
    <3>2. w.imported = provider.imported \ stranded
      BY <3>1
    <3> QED BY <3>2 DEF kept, w
  <2>3. stranded \cap (InUse \cup Returning) = {}
        /\ provider.imported = InUse \cup Returning \cup stranded
    BY <2>1, <2>2 DEF Stranded
  <2> QED BY <2>1, <2>3 DEF OnlyAcksStrand, Stranded
<1> QED BY Invariance, <1>1, PTL

\* Every frame of the root shows no child or the surface EmbedChild made, every frame
\* of the child is submitted to it, whatever frame is built while EmbedChild runs.
THEOREM FramesShowOneChild == Spec => []OneChildSurface
<1>1. IndInv => OneChildSurface
  BY DEF IndInv, SurfaceInv
<1> QED BY Invariance, <1>1, PTL

\* A client of demo_viz_gui leaks, but it keeps the promise of BufferOwnership: what it
\* has lent stays lent until the service gives it back, and nothing is freed twice
\* (BeginFrame, ReclaimResources).
THEOREM KeepsOwnership == Spec => Ownership!Spec
<1>1. Init => Ownership!Init
  <2> SUFFICES ASSUME Init PROVE Ownership!Init
    OBVIOUS
  <2>1. /\ provider.imported = {} /\ provider.released = {}
        /\ pipe = <<>> /\ active = {} /\ retired = {}
    BY DEF Init, SinkInit, NewProvider
  <2>2. Carried(pipe) = {}
    BY <2>1 DEF Carried
  <2> QED BY <2>1, <2>2 DEF Ownership!Init, InUse
<1>2. IndInv /\ [Next]_vars => [Ownership!Next]_(Ownership!vars)
  <2>1. IndInv => LeakInv /\ TypeOK
    BY DEF IndInv, SurfaceInv, OneChildSurface, TypeOK
  <2> QED BY <2>1, OwnershipStep
<1> QED BY Invariance, <1>1, <1>2, PTL DEF Spec, Ownership!Spec
===============================================================================
