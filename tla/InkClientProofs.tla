---------------------------- MODULE InkClientProofs ----------------------------
(***************************************************************************)
(* InkClient keeps its buffers: IndInv is an inductive invariant of Spec,  *)
(* for any number of mouse moves and of unanswered BeginFrames, and every  *)
(* step keeps the promise of BufferOwnership.  With GrowInv every frame    *)
(* shows more than the one before it.                                      *)
(***************************************************************************)
EXTENDS InkClient, FrameSinkProofs

LEMMA InitInv == Init => IndInv
<1> SUFFICES ASSUME Init PROVE IndInv
  OBVIOUS
<1>1. SinkInv
  BY SinkInitInv DEF Init
<1>2. TypeOK
  <2>1. ~bound /\ points = 0 /\ events \in 0..MaxEvents
    BY MaxEventsAssumption DEF Init
  <2>2. points \in Nat /\ (bound <=> points > 0)
    BY <2>1
  <2> QED BY <1>1, <2>1, <2>2 DEF Init, TypeOK, SinkInv
<1>3. Unbound
  BY DEF Init, SinkInit, Unbound
<1>4. BitmapsAnnounced
  BY DEF Init, SinkInit, BitmapsAnnounced
<1> QED BY <1>1, <1>2, <1>3, <1>4 DEF IndInv

-----------------------------------------------------------------------------
(***************************************************************************)
(* The steps.  Each lemma also says what the step does to the abstract     *)
(* state of BufferOwnership.                                               *)
(***************************************************************************)
\* The main thread posts a task; until it has run the client's Bind, Bind is first.
LEMMA MainThreadInv ==
  ASSUME IndInv, MainThread
  PROVE  IndInv' /\ InUse' = InUse
<1> USE DEF IndInv
<1>1. ASSUME NEW op \in TaskOps, queue' = Append(queue, Task(op, {})),
             UNCHANGED <<provider, pipe, othersVars>>
      PROVE  SinkInv' /\ BitmapsAnnounced' /\ InUse' = InUse
             /\ queue' # <<>> /\ (queue # <<>> => Head(queue') = Head(queue))
             /\ (queue = <<>> => Head(queue') = Task(op, {}))
  <2>1. SinkInv' /\ InUse' = InUse
    BY <1>1, PostInv DEF othersVars
  <2>2. BitmapsAnnounced'
    BY <1>1 DEF BitmapsAnnounced, Announced, othersVars
  <2>3. /\ Task(op, {}) \in TaskType /\ queue \in Seq(TaskType)
    BY <1>1, TaskTyped DEF SinkInv, SinkTypeOK
  <2> QED BY <1>1, <2>1, <2>2, <2>3
<1>2. CASE Bind
  <2>1. "BindOnThread" \in TaskOps
    BY DEF TaskOps
  <2>2. Task("BindOnThread", {}).op = "BindOnThread"
    BY DEF Task
  <2>3. /\ SinkInv' /\ BitmapsAnnounced' /\ InUse' = InUse
        /\ queue' # <<>> /\ (queue = <<>> => Head(queue').op = "BindOnThread")
    BY <1>1, <1>2, <2>1, <2>2 DEF Bind
  <2>4. TypeOK'
    BY <1>2, <2>3 DEF Bind, TypeOK, SinkInv, clientVars
  <2>5. Unbound'
    BY <1>2, <2>3 DEF Bind, Unbound, clientVars, othersVars
  <2> QED BY <2>3, <2>4, <2>5
<1>3. CASE DidProcessEvent
  <2>1. "Draw" \in TaskOps
    BY DEF TaskOps
  <2>2. /\ SinkInv' /\ BitmapsAnnounced' /\ InUse' = InUse
        /\ queue' # <<>> /\ (queue # <<>> => Head(queue') = Head(queue))
    BY <1>1, <1>3, <2>1 DEF DidProcessEvent
  <2>3. TypeOK'
    BY <1>3, <2>2, MaxEventsAssumption DEF DidProcessEvent, TypeOK, SinkInv, clientVars
  <2>4. Unbound'
    BY <1>3, <2>2 DEF DidProcessEvent, Unbound, clientVars, othersVars
  <2> QED BY <2>2, <2>3, <2>4
<1>4. CASE SetContextProvider
  <2>1. "SetContextProvider" \in TaskOps
    BY DEF TaskOps
  <2>2. /\ SinkInv' /\ BitmapsAnnounced' /\ InUse' = InUse
        /\ queue' # <<>> /\ (queue # <<>> => Head(queue') = Head(queue))
    BY <1>1, <1>4, <2>1 DEF SetContextProvider
  <2>3. TypeOK'
    BY <1>4, <2>2 DEF SetContextProvider, TypeOK, SinkInv, clientVars
  <2>4. Unbound'
    BY <1>4, <2>2 DEF SetContextProvider, Unbound, clientVars, othersVars
  <2> QED BY <2>2, <2>3, <2>4
<1> QED BY <1>2, <1>3, <1>4 DEF MainThread

\* The service gives resources back or leaves what it may read as it is.
LEMMA VizServiceInv ==
  ASSUME IndInv, VizService
  PROVE  IndInv' /\ InUse' \subseteq InUse /\ UNCHANGED provider
<1>1. SinkInv /\ SinkTypeOK /\ BitmapsAnnounced /\ Service
  BY DEF IndInv, SinkInv, VizService
<1>2. SinkInv' /\ BitmapsAnnounced'
  BY <1>1, ServiceInv, ServiceBitmaps
<1>3. InUse' \subseteq InUse /\ UNCHANGED provider
  BY <1>1, ServiceGivesBack
<1>4. TypeOK'
  BY <1>2 DEF IndInv, TypeOK, SinkInv, VizService, clientVars, mainVars
<1>5. Unbound'
  <2>1. CASE bound
    BY <2>1 DEF Unbound, VizService, clientVars, mainVars, IndInv, TypeOK
  <2>2. CASE ~bound
    <3>1. pipe = <<>> /\ ~needsBeginFrame /\ ackPending = 0 /\ retired = {}
      BY <2>2 DEF IndInv, Unbound
    <3>2. ~ServiceReceive
      BY <3>1
      DEF ServiceReceive, ServiceSetNeedsBeginFrame, ServiceDidAllocateSharedBitmap,
          ServiceSubmitCompositorFrame, ServiceDidNotProduceFrame, Is
    <3>3. ~ServiceBeginFrame /\ ~ServiceAck /\ ~ServiceHoldResources
      BY <3>1 DEF ServiceBeginFrame, ServiceAck, ServiceHoldResources
    <3>4. ~ServiceReclaimResources
      <4>1. \A ids \in (SUBSET retired) \ {{}} : FALSE
        BY <3>1
      <4> QED BY <4>1 DEF ServiceReclaimResources
    <3> QED BY <1>1, <3>2, <3>3, <3>4 DEF Service
  <2> QED BY <2>1, <2>2
<1> QED BY <1>2, <1>3, <1>4, <1>5 DEF IndInv

-----------------------------------------------------------------------------
(***************************************************************************)
(* The client's thread.                                                    *)
(***************************************************************************)
\* Any task but Bind's finds the client bound.
LEMMA RunsBound ==
  ASSUME IndInv, queue # <<>>, Head(queue).op # "BindOnThread"
  PROVE  bound /\ points \in Nat \ {0} /\ observing
BY DEF IndInv, Unbound, TypeOK

\* The client takes back what the service returned, and releases it.
LEMMA TakeBackStep ==
  ASSUME IndInv, DidReceiveCompositorFrameAck \/ ReclaimResources
  PROVE  /\ IndInv' /\ InUse' = InUse
         /\ Head(queue).res \subseteq provider.imported \ InUse
         /\ provider'.released = provider.released \cup Head(queue).res
         /\ provider'.imported = provider.imported \ Head(queue).res
<1>1. /\ queue # <<>> /\ queue' = Tail(queue) /\ Head(queue).op # "BindOnThread"
      /\ provider' = RemoveImportedResources(
                       ReceiveReturnsFromParent(provider, Head(queue).res),
                       Head(queue).res)
      /\ UNCHANGED <<pipe, othersVars, clientVars, mainVars>>
  BY DEF DidReceiveCompositorFrameAck, ReclaimResources, TakeBack, Is
<1>2. /\ SinkInv' /\ InUse' = InUse
      /\ Head(queue).res \subseteq provider.imported \ InUse
      /\ provider'.released = provider.released \cup Head(queue).res
      /\ provider'.imported = provider.imported \ Head(queue).res
  BY <1>1, TakeBackInv DEF IndInv, othersVars
<1>3. BitmapsAnnounced'
  BY <1>1 DEF IndInv, BitmapsAnnounced, Announced, othersVars
<1>4. TypeOK'
  BY <1>1, <1>2 DEF IndInv, TypeOK, SinkInv, clientVars, mainVars
<1>5. Unbound'
  BY <1>1, RunsBound DEF Unbound, clientVars, mainVars
<1> QED BY <1>2, <1>3, <1>4, <1>5 DEF IndInv

\* The tasks that send at most a call without resources.
LEMMA CallStep ==
  ASSUME IndInv, BindOnThread \/ SetContextProviderOnThread \/ Draw \/ OnBeginFrameIdle
  PROVE  IndInv' /\ InUse' = InUse /\ UNCHANGED provider
<1> USE DEF Is
<1>1. /\ queue # <<>> /\ queue' = Tail(queue) /\ Head(queue).op \notin Returns
      /\ UNCHANGED <<provider, othersVars, mainVars>>
  BY DEF BindOnThread, SetContextProviderOnThread, Draw, OnBeginFrameIdle, Returns
<1>2. PICK op \in MessageOps \ {"SubmitCompositorFrame"} :
        UNCHANGED pipe \/ pipe' = Append(pipe, Call(op))
  <2>1. "SetNeedsBeginFrame" \in MessageOps /\ "DidNotProduceFrame" \in MessageOps
    BY DEF MessageOps
  <2> QED
    BY <2>1 DEF BindOnThread, SetContextProviderOnThread, Draw, OnBeginFrameIdle
<1>3. SinkInv' /\ InUse' = InUse
  <2>1. SinkInv /\ UNCHANGED <<needsBeginFrame, bitmaps, active, shown, retired, held,
                               ackPending>>
    BY <1>1 DEF IndInv, othersVars
  <2>2. CASE UNCHANGED pipe
    BY <1>1, <2>1, <2>2, RunInv
  <2>3. CASE pipe' = Append(pipe, Call(op))
    BY <1>1, <2>1, <2>3, CallInv
  <2> QED BY <1>2, <2>2, <2>3
<1>4. BitmapsAnnounced'
  <2>1. SinkTypeOK /\ BitmapsAnnounced /\ UNCHANGED bitmaps
    BY <1>1 DEF IndInv, SinkInv, othersVars
  <2>2. CASE UNCHANGED pipe
    BY <2>1, <2>2 DEF BitmapsAnnounced, Announced
  <2>3. CASE pipe' = Append(pipe, Call(op))
    BY <2>1, <2>3, CallBitmaps
  <2> QED BY <1>2, <2>2, <2>3
<1>5. bound' /\ observing' /\ points' \in Nat /\ points' > 0
  <2>1. CASE BindOnThread
    BY <2>1 DEF BindOnThread, IndInv, Unbound, mainVars
  <2>2. CASE SetContextProviderOnThread \/ Draw \/ OnBeginFrameIdle
    <3>1. Head(queue).op # "BindOnThread"
      BY <2>2 DEF SetContextProviderOnThread, Draw, OnBeginFrameIdle
    <3>2. bound /\ points \in Nat \ {0} /\ observing
      BY <1>1, <3>1, RunsBound
    <3>3. UNCHANGED <<bound, observing>> /\ (points' = points \/ points' = points + 1)
      BY <2>2 DEF SetContextProviderOnThread, Draw, OnBeginFrameIdle, clientVars, mainVars
    <3> QED BY <3>2, <3>3
  <2> QED BY <2>1, <2>2
<1>6. context_provider' \in BOOLEAN /\ need_redraw' \in BOOLEAN
  BY DEF IndInv, TypeOK, BindOnThread, SetContextProviderOnThread, Draw, OnBeginFrameIdle,
         clientVars
<1>7. TypeOK'
  BY <1>1, <1>3, <1>5, <1>6 DEF IndInv, TypeOK, SinkInv, mainVars
<1>8. Unbound'
  BY <1>5 DEF Unbound
<1> QED BY <1>1, <1>3, <1>4, <1>7, <1>8 DEF IndInv

\* A frame is drawn: a new resource is lent to the service.
LEMMA FrameStep ==
  ASSUME IndInv, OnBeginFrameDrawing
  PROVE  /\ IndInv'
         /\ provider.next \notin provider.imported \cup provider.released
         /\ InUse' = InUse \cup {provider.next}
         /\ provider'.imported = provider.imported \cup {provider.next}
         /\ provider'.released = provider.released
<1> DEFINE id == provider.next
           p  == IF context_provider /\ g_use_gpu THEN pipe
                 ELSE Append(pipe, SharedBitmap({id}))
           s  == IF context_provider /\ g_use_gpu THEN {} ELSE {id}
           m  == Frame({id}, s, points)
<1>1. /\ queue # <<>> /\ queue' = Tail(queue) /\ Head(queue).op = "OnBeginFrame"
      /\ provider' = PrepareSendToParent(ImportResource(provider), {id})
      /\ UNCHANGED <<othersVars, bound, context_provider, points, mainVars>>
      /\ need_redraw' = FALSE
      /\ pipe' = Append(p, m)
  BY DEF OnBeginFrameDrawing, Submit, Is
<1>2. bound /\ points \in Nat \ {0} /\ observing
  BY <1>1, RunsBound
<1>3. /\ SinkInv /\ BitmapsAnnounced /\ provider \in ProviderType /\ id \in Nat
      /\ pipe \in Seq(MessageType) /\ Disjoint(pipe) /\ OnlyFramesCarry
  BY DEF IndInv, SinkInv, SinkTypeOK, Conservation, OnePlace, ProviderType
<1>4. provider' = [next |-> id + 1, imported |-> provider.imported \cup {id},
                   exported |-> provider.exported \cup {id},
                   marked |-> provider.marked, released |-> provider.released]
  BY <1>1, <1>3 DEF PrepareSendToParent, ImportResource, ProviderType
<1>5. provider' \in ProviderType
  BY <1>3, <1>4 DEF ProviderType
<1>6. /\ SharedBitmap({id}) \in MessageType /\ SharedBitmap({id}).res = {}
      /\ SharedBitmap({id}).op = "DidAllocateSharedBitmap"
      /\ SharedBitmap({id}).soft = {id}
  BY <1>3 DEF SharedBitmap, Call, MessageType, MessageOps
<1>7. /\ s \in SUBSET Nat /\ m \in MessageType
      /\ m.op = "SubmitCompositorFrame" /\ m.soft = s
  <2>1. s \in SUBSET Nat /\ {id} \in SUBSET Nat /\ points \in Nat
    BY <1>2, <1>3
  <2> QED BY <2>1 DEF Frame, MessageType, MessageOps
<1>8. /\ p \in Seq(MessageType) /\ Carried(p) = Carried(pipe) /\ Disjoint(p)
      /\ \A i \in 1..Len(p) : p[i].res # {} => p[i].op = "SubmitCompositorFrame"
  BY <1>3, <1>6, SendNothing DEF OnlyFramesCarry
<1>9. \A j \in 1..Len(p) : p[j].op = "SubmitCompositorFrame" =>
        \A x \in p[j].soft :
          x \in bitmaps \/ \E k \in 1..(j - 1) : p[k].op = "DidAllocateSharedBitmap"
                                                 /\ x \in p[k].soft
  <2>1. CASE context_provider /\ g_use_gpu
    BY <1>3, <2>1, BitmapsMember
  <2>2. CASE ~(context_provider /\ g_use_gpu)
    BY <1>3, <1>6, <2>2, BitmapsMember, BitmapsAppend
  <2> QED BY <2>1, <2>2
<1>10. \A x \in m.soft : \E k \in 1..Len(p) : p[k].op = "DidAllocateSharedBitmap"
                                              /\ x \in p[k].soft
  <2>1. CASE context_provider /\ g_use_gpu
    BY <1>7, <2>1
  <2>2. CASE ~(context_provider /\ g_use_gpu)
    <3>1. Len(p) \in 1..Len(p) /\ p[Len(p)] = SharedBitmap({id})
      BY <1>3, <1>6, <2>2, AppendElements
    <3> QED BY <1>6, <1>7, <2>2, <3>1
  <2> QED BY <2>1, <2>2
<1> HIDE DEF p, s
<1>11. BitmapsAnnounced'
  <2> HIDE DEF m
  <2>1. \A j \in 1..Len(pipe') : pipe'[j].op = "SubmitCompositorFrame" =>
          \A x \in pipe'[j].soft :
            x \in bitmaps \/ \E k \in 1..(j - 1) : pipe'[k].op = "DidAllocateSharedBitmap"
                                                   /\ x \in pipe'[k].soft
    BY <1>1, <1>7, <1>8, <1>9, <1>10, BitmapsAppend
  <2>2. UNCHANGED bitmaps
    BY <1>1 DEF othersVars
  <2> QED BY <2>1, <2>2, AnnouncedMember DEF BitmapsAnnounced, Announced
<1>12. /\ SinkInv' /\ InUse' = InUse \cup {id}
       /\ {id} \cap (provider.imported \cup provider.released) = {}
  <2>1. /\ Head(queue).op \notin Returns /\ {id} \in SUBSET Nat /\ points \in Nat
    BY <1>1, <1>2, <1>3 DEF Returns
  <2>4. /\ provider'.next >= id
        /\ \A x \in {id} : id <= x /\ x < provider'.next
    <3>1. provider'.next = id + 1
      BY <1>4
    <3> HIDE DEF id
    <3> QED BY <1>3, <3>1
  <2>2. /\ provider'.imported = provider.imported \cup {id}
        /\ provider'.exported = provider.exported \cup {id}
        /\ provider'.marked = provider.marked /\ provider'.released = provider.released
    BY <1>4
  <2>3. UNCHANGED <<needsBeginFrame, bitmaps, active, shown, retired, held, ackPending>>
    BY <1>1 DEF othersVars
  <2> QED BY <1>1, <1>3, <1>5, <1>7, <1>8, <2>1, <2>2, <2>3, <2>4, FrameInv
<1>13. TypeOK'
  BY <1>1, <1>12 DEF IndInv, TypeOK, SinkInv, mainVars
<1>14. Unbound'
  BY <1>1, <1>2 DEF Unbound, mainVars
<1> QED BY <1>4, <1>11, <1>12, <1>13, <1>14 DEF IndInv
-----------------------------------------------------------------------------
(***************************************************************************)
(* The theorems.                                                           *)
(***************************************************************************)
\* Every step keeps IndInv, and is a step of BufferOwnership or leaves its state.
LEMMA StepInv ==
  ASSUME IndInv, [Next]_vars
  PROVE  IndInv' /\ [Ownership!Next]_(Ownership!vars)
<1> USE DEF Ownership!Next, Ownership!vars, Ownership!Lend, Ownership!GiveBack,
            Ownership!Free
<1>1. CASE MainThread
  <2>1. IndInv' /\ InUse' = InUse
    BY <1>1, MainThreadInv
  <2>2. UNCHANGED provider
    BY <1>1 DEF MainThread, Bind, DidProcessEvent, SetContextProvider
  <2> QED BY <2>1, <2>2
<1>2. CASE BindOnThread \/ SetContextProviderOnThread \/ Draw \/ OnBeginFrameIdle
  BY <1>2, CallStep
<1>3. CASE OnBeginFrameDrawing
  <2>1. /\ IndInv' /\ InUse' = InUse \cup {provider.next}
        /\ provider.next \notin provider.imported \cup provider.released
        /\ provider'.imported = provider.imported \cup {provider.next}
        /\ provider'.released = provider.released
    BY <1>3, FrameStep
  <2> DEFINE new == provider'.imported \ provider.imported
  <2>2. new = {provider.next}
    BY <2>1
  <2>3. /\ provider.imported \subseteq provider'.imported
        /\ new \cap provider.released = {}
        /\ InUse' = InUse \cup new
    <3> HIDE DEF new
    <3> QED BY <2>1, <2>2
  <2>4. Ownership!Lend
    BY <2>1, <2>3
  <2> QED BY <2>1, <2>4
<1>4. CASE DidReceiveCompositorFrameAck \/ ReclaimResources
  <2>1. /\ IndInv' /\ InUse' = InUse
        /\ Head(queue).res \subseteq provider.imported \ InUse
        /\ provider'.released = provider.released \cup Head(queue).res
        /\ provider'.imported = provider.imported \ Head(queue).res
    BY <1>4, TakeBackStep
  <2>2. provider.imported \cap provider.released = {}
    BY DEF IndInv, SinkInv, Conservation
  <2>3. provider'.released \ provider.released = Head(queue).res
    BY <2>1, <2>2
  <2>4. Ownership!Free
    BY <2>1, <2>3
  <2> QED BY <2>1, <2>4
<1>5. CASE VizService
  <2>1. IndInv' /\ InUse' \subseteq InUse /\ UNCHANGED provider
    BY <1>5, VizServiceInv
  <2> QED BY <2>1
<1>6. CASE UNCHANGED vars
  <2>1. UNCHANGED <<queue, provider, pipe, needsBeginFrame, bitmaps, active, shown,
                    retired, held, ackPending>>
    BY <1>6 DEF vars, sinkVars
  <2>2. UNCHANGED <<g_use_gpu, observing, contextSent, events, bound, context_provider,
                    need_redraw, points>>
    BY <1>6 DEF vars, clientVars, mainVars
  <2>3. IndInv'
    <3>1. SinkInv'
      BY <2>1, StutterInv DEF IndInv, sinkVars
    <3>2. TypeOK'
      BY <2>2, <3>1 DEF IndInv, TypeOK, SinkInv
    <3>3. Unbound' /\ BitmapsAnnounced'
      BY <2>1, <2>2 DEF IndInv, Unbound, BitmapsAnnounced, Announced
    <3> QED BY <3>1, <3>2, <3>3 DEF IndInv
  <2>4. InUse' = InUse
    BY <2>1 DEF InUse
  <2> QED BY <2>1, <2>3, <2>4
<1> QED BY <1>1, <1>2, <1>3, <1>4, <1>5, <1>6 DEF Next, ClientThread

\* The invariant of the client: every conjunct of IndInv holds in every state.
THEOREM Invariance == Spec => []IndInv
<1>1. IndInv /\ [Next]_vars => IndInv'
  BY StepInv
<1> QED BY InitInv, <1>1, PTL DEF Spec

\* Every variable keeps to its range.
THEOREM TypeCorrectness == Spec => []TypeOK
<1>1. IndInv => TypeOK
  BY DEF IndInv
<1> QED BY Invariance, <1>1, PTL

\* A bitmap sent in a frame is at one place only, is not destroyed while the
\* service may still read it, and is not given back twice, for any number of
\* moves and of BeginFrames unanswered.
THEOREM ResourcesAreConserved == Spec => []ResourcesConserved
<1>1. IndInv => ResourcesConserved
  BY DEF IndInv, SinkInv, ResourcesConserved
<1> QED BY Invariance, <1>1, PTL

\* Nothing reaches the head of the client's queue before Bind has run.
THEOREM BindComesFirst == Spec => []BoundBeforeUse
<1>1. IndInv => BoundBeforeUse
  BY DEF IndInv, Unbound, BoundBeforeUse
<1> QED BY Invariance, <1>1, PTL

\* When the service takes a frame, its shared bitmaps have been registered.
THEOREM BitmapsComeFirst == Spec => []BitmapBeforeFrame
<1>1. IndInv => BitmapBeforeFrame
  <2> SUFFICES ASSUME IndInv, pipe # <<>>, Head(pipe).op = "SubmitCompositorFrame",
                      NEW x \in Head(pipe).soft
               PROVE  x \in bitmaps
    BY DEF BitmapBeforeFrame, Is
  <2>1. 1 \in 1..Len(pipe) /\ Head(pipe) = pipe[1]
    BY TailElements DEF IndInv, SinkInv, SinkTypeOK
  <2>2. x \in bitmaps \/ \E k \in 1..(1 - 1) : pipe[k].op = "DidAllocateSharedBitmap"
                                               /\ x \in pipe[k].soft
    BY <2>1, BitmapsMember DEF IndInv
  <2> QED BY <2>2
<1> QED BY Invariance, <1>1, PTL

\* The client keeps the promise of BufferOwnership: what it has lent stays lent
\* until the service gives it back, and is freed once.
THEOREM KeepsOwnership == Spec => OwnershipSpec
<1>1. Init => Ownership!Init
  <2>1. ASSUME Init PROVE Carried(pipe) = {}
    BY <2>1, CarriedBy DEF Init, SinkInit
  <2> SUFFICES ASSUME Init PROVE Ownership!Init
    OBVIOUS
  <2>2. provider.imported = {} /\ provider.released = {}
    BY DEF Init, SinkInit, NewProvider
  <2>3. InUse = {}
    BY <2>1 DEF Init, SinkInit, InUse
  <2> QED BY <2>2, <2>3 DEF Ownership!Init
<1>2. IndInv /\ [Next]_vars => [Ownership!Next]_(Ownership!vars)
  BY StepInv
<1> QED BY Invariance, <1>1, <1>2, PTL DEF Spec, OwnershipSpec, Ownership!Spec

-----------------------------------------------------------------------------
(***************************************************************************)
(* What frames show.                                                       *)
(***************************************************************************)
\* The frames of a pipe show ever more, and all of them more than s.
Grows(p, s) ==
  /\ \A i, j \in 1..Len(p) :
       /\ p[i].op = "SubmitCompositorFrame" /\ p[j].op = "SubmitCompositorFrame"
       /\ i < j
       => p[i].content < p[j].content
  /\ \A i \in 1..Len(p) : p[i].op = "SubmitCompositorFrame" => s < p[i].content

\* The frames of a pipe show less than n.
Below(p, n) ==
  \A i \in 1..Len(p) : p[i].op = "SubmitCompositorFrame" => p[i].content < n

\* A message that is no frame is appended.
LEMMA CallGrows ==
  ASSUME NEW p \in Seq(MessageType), NEW m \in MessageType,
         m.op # "SubmitCompositorFrame", NEW s, Grows(p, s)
  PROVE  /\ Append(p, m) \in Seq(MessageType)
         /\ Grows(Append(p, m), s)
         /\ \A n : Below(p, n) => Below(Append(p, m), n)
<1> DEFINE a == Append(p, m)
<1>1. /\ a \in Seq(MessageType) /\ Len(p) \in Nat /\ Len(a) = Len(p) + 1
      /\ a[Len(p) + 1] = m /\ \A i \in 1..Len(p) : a[i] = p[i]
  BY AppendElements
<1> HIDE DEF a
<1>2. ASSUME NEW i \in 1..Len(a), a[i].op = "SubmitCompositorFrame"
      PROVE  i \in 1..Len(p) /\ a[i] = p[i]
  <2>1. i \in 1..Len(p) \/ i = Len(p) + 1
    BY <1>1
  <2> QED BY <1>1, <1>2, <2>1
<1>3. Grows(a, s)
  BY <1>2 DEF Grows
<1>4. \A n : Below(p, n) => Below(a, n)
  BY <1>2 DEF Below
<1> QED BY <1>1, <1>3, <1>4 DEF a

\* A frame that shows more than all others is appended.
LEMMA FrameGrows ==
  ASSUME NEW p \in Seq(MessageType), NEW m \in MessageType,
         NEW s \in Nat, Grows(p, s), Below(p, m.content), s < m.content
  PROVE  Grows(Append(p, m), s) /\ Below(Append(p, m), m.content + 1)
<1> DEFINE a == Append(p, m)
<1>1. /\ Len(p) \in Nat /\ Len(a) = Len(p) + 1
      /\ a[Len(p) + 1] = m /\ \A i \in 1..Len(p) : a[i] = p[i]
  BY AppendElements
<1>2. m.content \in Nat /\ \A i \in 1..Len(p) : p[i].content \in Nat
  <2>1. \A e \in MessageType : e.content \in Nat
    BY DEF MessageType
  <2>2. \A i \in 1..Len(p) : p[i] \in MessageType
    OBVIOUS
  <2> QED BY <2>1, <2>2
<1> HIDE DEF a
<1>3. ASSUME NEW i \in 1..Len(a)
      PROVE  i \in 1..Len(p) \/ i = Len(p) + 1
  BY <1>1
<1>4. ASSUME NEW i \in 1..Len(a), NEW j \in 1..Len(a), i < j,
             a[i].op = "SubmitCompositorFrame", a[j].op = "SubmitCompositorFrame"
      PROVE  a[i].content < a[j].content
  <2>1. i \in 1..Len(p)
    BY <1>1, <1>4
  <2>2. CASE j = Len(p) + 1
    BY <1>1, <1>4, <2>1, <2>2 DEF Below
  <2>3. CASE j \in 1..Len(p)
    BY <1>1, <1>4, <2>1, <2>3 DEF Grows
  <2> QED BY <1>3, <2>2, <2>3
<1>5. ASSUME NEW i \in 1..Len(a), a[i].op = "SubmitCompositorFrame"
      PROVE  s < a[i].content /\ a[i].content < m.content + 1
  <2>1. CASE i = Len(p) + 1
    BY <1>1, <1>2, <2>1
  <2>2. CASE i \in 1..Len(p)
    BY <1>1, <1>2, <1>5, <2>2 DEF Grows, Below
  <2> QED BY <1>3, <2>1, <2>2
<1>6. Grows(a, s) /\ Below(a, m.content + 1)
  BY <1>4, <1>5 DEF Grows, Below
<1> QED BY <1>6 DEF a

\* The service takes the first message; a frame is then on display.
LEMMA TailGrows ==
  ASSUME NEW p \in Seq(MessageType), p # <<>>, NEW s, Grows(p, s)
  PROVE  /\ Grows(Tail(p), IF Head(p).op = "SubmitCompositorFrame" THEN Head(p).content ELSE s)
         /\ \A n : Below(p, n) => Below(Tail(p), n)
         /\ \A n : Below(p, n) /\ Head(p).op = "SubmitCompositorFrame" => Head(p).content < n
<1> DEFINE t == Tail(p)
<1>1. /\ Len(p) \in Nat \ {0} /\ Len(t) = Len(p) - 1 /\ Head(p) = p[1] /\ 1 \in 1..Len(p)
      /\ \A i \in 1..Len(t) : t[i] = p[i + 1]
  BY TailElements
<1> HIDE DEF t
<1>2. ASSUME NEW i \in 1..Len(t)
      PROVE  i + 1 \in 1..Len(p) /\ t[i] = p[i + 1] /\ 1 < i + 1
  BY <1>1
<1>3. ASSUME NEW i \in 1..Len(t), NEW j \in 1..Len(t), i < j,
             t[i].op = "SubmitCompositorFrame", t[j].op = "SubmitCompositorFrame"
      PROVE  t[i].content < t[j].content
  <2>1. i + 1 < j + 1
    BY <1>1, <1>3
  <2> QED BY <1>2, <1>3, <2>1 DEF Grows
<1>4. ASSUME NEW i \in 1..Len(t), t[i].op = "SubmitCompositorFrame"
      PROVE  /\ s < t[i].content
             /\ Head(p).op = "SubmitCompositorFrame" => Head(p).content < t[i].content
  BY <1>1, <1>2, <1>4 DEF Grows
<1>5. Grows(t, IF Head(p).op = "SubmitCompositorFrame" THEN Head(p).content ELSE s)
  BY <1>3, <1>4 DEF Grows
<1>6. \A n : Below(p, n) => Below(t, n)
  BY <1>2 DEF Below
<1>7. \A n : Below(p, n) /\ Head(p).op = "SubmitCompositorFrame" => Head(p).content < n
  BY <1>1 DEF Below
<1> QED BY <1>5, <1>6, <1>7 DEF t

\* GrowInv in these terms.
LEMMA GrowMember ==
  /\ OnlyChangedFrames <=> Grows(pipe, shown)
  /\ \A n : ShowFewerThan(n) <=> shown < n /\ Below(pipe, n)
BY DEF OnlyChangedFrames, Grows, ShowFewerThan, Below

\* A limit that is raised still holds.
LEMMA BelowMore ==
  ASSUME NEW p \in Seq(MessageType), NEW n \in Nat, Below(p, n)
  PROVE  Below(p, n + 1)
<1> SUFFICES ASSUME NEW i \in 1..Len(p), p[i].op = "SubmitCompositorFrame"
             PROVE  p[i].content < n + 1
  BY DEF Below
<1>1. p[i].content \in Nat
  <2>1. p[i] \in MessageType
    OBVIOUS
  <2> QED BY <2>1 DEF MessageType
<1>2. p[i].content < n
  BY DEF Below
<1> QED BY <1>1, <1>2

\* A queue that starts with Bind, if anything, gets another task.
LEMMA OncePosted ==
  ASSUME NEW q \in Seq(TaskType), NEW t \in TaskType, t.op # "BindOnThread",
         \A i \in 1..Len(q) : q[i].op = "BindOnThread" => i = 1
  PROVE  \A i \in 1..Len(Append(q, t)) :
           Append(q, t)[i].op = "BindOnThread" =>
             i = 1 /\ i \in 1..Len(q) /\ q[i].op = "BindOnThread"
<1> SUFFICES ASSUME NEW i \in 1..Len(Append(q, t)), Append(q, t)[i].op = "BindOnThread"
             PROVE  i = 1 /\ i \in 1..Len(q) /\ q[i].op = "BindOnThread"
  OBVIOUS
<1>1. i = Len(q) + 1 \/ i \in 1..Len(q)
  BY AppendElements
<1> QED BY <1>1, AppendElements

\* What the first task tells of the client: Bind runs once, everything else after it.
LEMMA HeadTask ==
  ASSUME IndInv, BoundOnce, queue # <<>>
  PROVE  /\ Head(queue).op = "BindOnThread" <=> ~bound
         /\ \A i \in 1..Len(Tail(queue)) : Tail(queue)[i].op # "BindOnThread"
<1>1. queue \in Seq(TaskType)
  BY DEF IndInv, SinkInv, SinkTypeOK
<1>2. /\ Len(queue) \in Nat \ {0} /\ Len(Tail(queue)) = Len(queue) - 1
      /\ Head(queue) = queue[1] /\ 1 \in 1..Len(queue)
      /\ \A i \in 1..Len(Tail(queue)) : Tail(queue)[i] = queue[i + 1]
  BY <1>1, TailElements
<1>3. Head(queue).op = "BindOnThread" <=> ~bound
  BY <1>2 DEF BoundOnce, IndInv, Unbound
<1>4. ASSUME NEW i \in 1..Len(Tail(queue))
      PROVE  Tail(queue)[i].op # "BindOnThread"
  <2>1. i + 1 \in 1..Len(queue) /\ i + 1 # 1 /\ Tail(queue)[i] = queue[i + 1]
    BY <1>2
  <2> QED BY <2>1 DEF BoundOnce
<1> QED BY <1>3, <1>4

\* Nothing is shown before the client starts.
LEMMA GrowInit == Init => GrowInv
BY DEF Init, SinkInit, GrowInv, OnlyChangedFrames, BoundOnce, FramesAreDrawn, ShowFewerThan

\* The main thread posts Bind once.
LEMMA GrowMain ==
  ASSUME IndInv, GrowInv, MainThread
  PROVE  GrowInv'
<1>1. UNCHANGED <<pipe, shown, points, need_redraw, bound>>
  BY DEF MainThread, Bind, DidProcessEvent, SetContextProvider, othersVars, clientVars
<1>2. OnlyChangedFrames' /\ FramesAreDrawn'
  BY <1>1 DEF GrowInv, OnlyChangedFrames, FramesAreDrawn, ShowFewerThan
<1>3. queue \in Seq(TaskType) /\ BoundOnce
  BY DEF IndInv, SinkInv, SinkTypeOK, GrowInv
<1>4. BoundOnce'
  <2>1. CASE Bind
    <3>1. /\ queue = <<>> /\ ~bound /\ observing'
          /\ queue' = Append(queue, Task("BindOnThread", {}))
      BY <2>1 DEF Bind, IndInv, Unbound
    <3> QED BY <1>1, <3>1 DEF BoundOnce
  <2>2. CASE DidProcessEvent \/ SetContextProvider
    <3>1. PICK op \in {"Draw", "SetContextProvider"} : queue' = Append(queue, Task(op, {}))
      BY <2>2 DEF DidProcessEvent, SetContextProvider
    <3>2. Task(op, {}) \in TaskType /\ Task(op, {}).op # "BindOnThread"
      BY DEF Task, TaskType, TaskOps
    <3>3. UNCHANGED observing
      BY <2>2 DEF DidProcessEvent, SetContextProvider
    <3> QED BY <1>1, <1>3, <3>1, <3>2, <3>3, OncePosted DEF BoundOnce
  <2> QED BY <2>1, <2>2 DEF MainThread
<1> QED BY <1>2, <1>4 DEF GrowInv

\* A frame on display was under way before.
LEMMA GrowService ==
  ASSUME IndInv, GrowInv, VizService
  PROVE  GrowInv'
<1>1. UNCHANGED <<points, need_redraw, bound, observing>> /\ Service
  BY DEF VizService, clientVars, mainVars
<1>2. /\ queue \in Seq(TaskType) /\ pipe \in Seq(MessageType) /\ held \in SUBSET Nat
      /\ retired \in SUBSET Nat /\ BoundOnce /\ Grows(pipe, shown)
      /\ \A n : ShowFewerThan(n) <=> shown < n /\ Below(pipe, n)
  BY GrowMember DEF IndInv, SinkInv, SinkTypeOK, GrowInv
<1>3. BoundOnce'
  <2>1. CASE UNCHANGED queue
    BY <1>1, <1>2, <2>1 DEF BoundOnce
  <2>2. CASE ServiceBeginFrame \/ ServiceAck \/ ServiceReclaimResources
    <3>1. PICK t \in TaskType : t.op # "BindOnThread" /\ queue' = Append(queue, t)
      <4>1. CASE ServiceBeginFrame
        <5>1. Task("OnBeginFrame", {}) \in TaskType
          BY DEF Task, TaskType, TaskOps
        <5> QED BY <4>1, <5>1 DEF ServiceBeginFrame, Task
      <4>2. CASE ServiceAck
        <5>1. Task("DidReceiveCompositorFrameAck", held) \in TaskType
          BY <1>2 DEF Task, TaskType, TaskOps
        <5> QED BY <4>2, <5>1 DEF ServiceAck, Task
      <4>3. CASE ServiceReclaimResources
        <5>1. PICK ids \in SUBSET retired :
                queue' = Append(queue, Task("ReclaimResources", ids))
          BY <4>3 DEF ServiceReclaimResources
        <5>2. Task("ReclaimResources", ids) \in TaskType
          BY <1>2 DEF Task, TaskType, TaskOps
        <5> QED BY <5>1, <5>2 DEF Task
      <4> QED BY <2>2, <4>1, <4>2, <4>3
    <3> QED BY <1>1, <1>2, <3>1, OncePosted DEF BoundOnce
  <2> QED
    BY <1>1, <2>1, <2>2 DEF Service, ServiceReceive, ServiceSetNeedsBeginFrame,
       ServiceDidAllocateSharedBitmap, ServiceSubmitCompositorFrame, ServiceDidNotProduceFrame,
       ServiceHoldResources
<1>4. OnlyChangedFrames' /\ FramesAreDrawn'
  <2>1. CASE ServiceReceive
    <3>1. /\ pipe # <<>> /\ pipe' = Tail(pipe)
          /\ shown' = IF Head(pipe).op = "SubmitCompositorFrame" THEN Head(pipe).content
                      ELSE shown
      BY <2>1 DEF ServiceReceive, ServiceSetNeedsBeginFrame, ServiceDidAllocateSharedBitmap,
                  ServiceSubmitCompositorFrame, ServiceDidNotProduceFrame, Is
    <3>2. Grows(pipe', shown')
      BY <1>2, <3>1, TailGrows
    <3>3. \A n : shown < n /\ Below(pipe, n) => shown' < n /\ Below(pipe', n)
      BY <1>2, <3>1, TailGrows
    <3>4. OnlyChangedFrames'
      BY <3>2 DEF OnlyChangedFrames, Grows
    <3>5. \A n : ShowFewerThan(n)' <=> shown' < n /\ Below(pipe', n)
      BY DEF ShowFewerThan, Below
    <3> QED BY <1>1, <1>2, <3>3, <3>4, <3>5 DEF GrowInv, FramesAreDrawn
  <2>2. CASE UNCHANGED <<pipe, shown>>
    BY <1>1, <2>2 DEF GrowInv, OnlyChangedFrames, FramesAreDrawn, ShowFewerThan
  <2> QED BY <1>1, <2>1, <2>2 DEF Service, ServiceBeginFrame, ServiceAck,
                                  ServiceHoldResources, ServiceReclaimResources
<1> QED BY <1>3, <1>4 DEF GrowInv

\* The client draws one point at a time, and each frame shows what has been drawn.
LEMMA GrowClient ==
  ASSUME IndInv, GrowInv, ClientThread
  PROVE  GrowInv'
<1>1. /\ queue # <<>> /\ queue' = Tail(queue) /\ UNCHANGED <<observing, shown>>
  BY DEF ClientThread, BindOnThread, SetContextProviderOnThread, Draw, OnBeginFrameDrawing,
         OnBeginFrameIdle, DidReceiveCompositorFrameAck, ReclaimResources, Is, othersVars,
         mainVars
<1>2. /\ pipe \in Seq(MessageType) /\ points \in Nat /\ shown \in Nat
      /\ bound <=> points > 0
  BY DEF IndInv, TypeOK, SinkTypeOK
<1>3. /\ Grows(pipe, shown) /\ shown < points + 1 /\ Below(pipe, points + 1)
      /\ bound /\ need_redraw => shown < points /\ Below(pipe, points)
  BY GrowMember DEF GrowInv, FramesAreDrawn
<1>4. /\ Head(queue).op = "BindOnThread" <=> ~bound
      /\ BoundOnce'
  <2>1. BoundOnce
    BY DEF GrowInv
  <2> QED BY <1>1, <2>1, HeadTask DEF BoundOnce
<1>5. ASSUME Grows(pipe', shown), points' \in Nat, shown < points' + 1,
             Below(pipe', points' + 1),
             bound' /\ need_redraw' => shown < points' /\ Below(pipe', points')
      PROVE  GrowInv'
  <2>1. OnlyChangedFrames'
    BY <1>1, <1>5 DEF OnlyChangedFrames, Grows
  <2>2. \A n : ShowFewerThan(n)' <=> shown' < n /\ Below(pipe', n)
    BY DEF ShowFewerThan, Below
  <2>3. FramesAreDrawn'
    BY <1>1, <1>5, <2>2 DEF FramesAreDrawn
  <2> QED BY <1>4, <2>1, <2>3 DEF GrowInv
<1>6. ASSUME NEW op \in MessageOps \ {"SubmitCompositorFrame"}, pipe' = Append(pipe, Call(op))
      PROVE  Grows(pipe', shown) /\ \A n : Below(pipe, n) => Below(pipe', n)
  <2>1. Call(op) \in MessageType /\ Call(op).op # "SubmitCompositorFrame"
    BY DEF Call, MessageType
  <2> QED BY <1>2, <1>3, <1>6, <2>1, CallGrows
<1>7. /\ "SetNeedsBeginFrame" \in MessageOps \ {"SubmitCompositorFrame"}
      /\ "DidNotProduceFrame" \in MessageOps \ {"SubmitCompositorFrame"}
  BY DEF MessageOps
<1>8. CASE BindOnThread
  <2>1. points = 0 /\ points' = 1
    BY <1>2, <1>4, <1>8 DEF BindOnThread, Is
  <2>2. Below(pipe, 1) /\ Below(pipe, 2) /\ shown < 1
    <3>1. Below(pipe, 0 + 1) /\ shown < 0 + 1
      BY <1>3, <2>1
    <3>2. 0 + 1 = 1 /\ 1 + 1 = 2 /\ 1 \in Nat
      OBVIOUS
    <3>3. Below(pipe, 1) /\ shown < 1
      BY <3>1, <3>2
    <3>4. Below(pipe, 1 + 1)
      BY <1>2, <3>2, <3>3, BelowMore
    <3> QED BY <3>2, <3>3, <3>4
  <2>3. Grows(pipe', shown) /\ Below(pipe', 1) /\ Below(pipe', 2)
    BY <1>6, <1>7, <1>8, <2>2 DEF BindOnThread
  <2>4. points' + 1 = 2 /\ points' \in Nat /\ shown < points' /\ shown < points' + 1
    BY <1>2, <2>1, <2>2
  <2> QED BY <1>5, <2>1, <2>3, <2>4
<1>9. CASE SetContextProviderOnThread \/ DidReceiveCompositorFrameAck \/ ReclaimResources
  <2>1. UNCHANGED <<pipe, points, bound, need_redraw>>
    BY <1>9 DEF SetContextProviderOnThread, DidReceiveCompositorFrameAck, ReclaimResources,
                clientVars
  <2> QED BY <1>2, <1>3, <1>5, <2>1
<1>10. CASE Draw
  <2>1. points' = points + 1 /\ points + 1 \in Nat
    BY <1>2, <1>10 DEF Draw
  <2>2. Below(pipe, points + 1 + 1) /\ shown < points + 1 + 1
    BY <1>2, <1>3, <2>1, BelowMore
  <2>3. Grows(pipe', shown) /\ Below(pipe', points + 1) /\ Below(pipe', points + 1 + 1)
    BY <1>3, <1>6, <1>7, <1>10, <2>2 DEF Draw
  <2> QED BY <1>3, <1>5, <2>1, <2>2, <2>3
<1>11. CASE OnBeginFrameIdle
  <2>1. UNCHANGED <<points, bound, need_redraw>>
    BY <1>11 DEF OnBeginFrameIdle, clientVars
  <2>2. Grows(pipe', shown) /\ \A n : Below(pipe, n) => Below(pipe', n)
    BY <1>6, <1>7, <1>11 DEF OnBeginFrameIdle
  <2> QED BY <1>2, <1>3, <1>5, <2>1, <2>2
<1>12. CASE OnBeginFrameDrawing
  <2> DEFINE id == provider.next
             b == SharedBitmap({id})
             soft == IF context_provider /\ g_use_gpu THEN {} ELSE {id}
             m == Frame({id}, soft, points)
             q == IF context_provider /\ g_use_gpu THEN pipe ELSE Append(pipe, b)
  <2>1. /\ need_redraw /\ ~need_redraw' /\ UNCHANGED <<bound, points>> /\ bound
        /\ pipe' = Append(q, m)
    BY <1>4, <1>12 DEF OnBeginFrameDrawing, Submit, Is
  <2>2. id \in Nat
    BY DEF IndInv, SinkInv, SinkTypeOK, ProviderType
  <2>3. b \in MessageType /\ b.op # "SubmitCompositorFrame"
    BY <2>2 DEF SharedBitmap, Call, MessageType, MessageOps
  <2>4. m \in MessageType /\ m.content = points
    BY <1>2, <2>2 DEF Frame, MessageType, MessageOps
  <2> HIDE DEF id, b, m
  <2>5. q \in Seq(MessageType) /\ Grows(q, shown) /\ Below(q, points)
    <3>1. Below(pipe, points)
      BY <1>3, <2>1
    <3>2. /\ Append(pipe, b) \in Seq(MessageType) /\ Grows(Append(pipe, b), shown)
          /\ Below(Append(pipe, b), points)
      BY <1>2, <1>3, <2>3, <3>1, CallGrows
    <3> QED BY <1>2, <1>3, <3>1, <3>2
  <2> HIDE DEF q
  <2>6. shown < m.content /\ Below(q, m.content)
    BY <1>3, <2>1, <2>4, <2>5
  <2>7. Grows(Append(q, m), shown) /\ Below(Append(q, m), m.content + 1)
    BY <1>2, <2>4, <2>5, <2>6, FrameGrows
  <2> QED BY <1>2, <1>3, <1>5, <2>1, <2>4, <2>7
<1> QED BY <1>8, <1>9, <1>10, <1>11, <1>12 DEF ClientThread

\* Nothing happens.
LEMMA GrowStutter ==
  ASSUME GrowInv, UNCHANGED vars
  PROVE  GrowInv'
<1>1. UNCHANGED <<queue, pipe, shown, points, need_redraw, bound, observing>>
  BY DEF vars, sinkVars, clientVars, mainVars
<1>2. OnlyChangedFrames' /\ BoundOnce' /\ FramesAreDrawn'
  BY <1>1 DEF GrowInv, OnlyChangedFrames, BoundOnce, FramesAreDrawn, ShowFewerThan
<1> QED BY <1>2 DEF GrowInv

\* Every frame shows more than the one before it: none is submitted unless a point has
\* been drawn since, however Draw and OnBeginFrame interleave (need_redraw_).
THEOREM FramesShowMore == Spec => []OnlyChangedFrames
<1>1. Init => IndInv /\ GrowInv
  BY InitInv, GrowInit
<1>2. IndInv /\ GrowInv /\ [Next]_vars => IndInv' /\ GrowInv'
  <2> SUFFICES ASSUME IndInv, GrowInv, [Next]_vars PROVE IndInv' /\ GrowInv'
    OBVIOUS
  <2>1. IndInv'
    BY StepInv
  <2> QED BY <2>1, GrowMain, GrowClient, GrowService, GrowStutter DEF Next
<1>3. GrowInv => OnlyChangedFrames
  BY DEF GrowInv
<1> QED BY <1>1, <1>2, <1>3, PTL DEF Spec
===============================================================================
