----------------------- MODULE LayerTreeFrameSinkProofs -----------------------
(***************************************************************************)
(* LayerTreeFrameSink embeds its child's surface and keeps its buffers,    *)
(* whatever FramePeriod and for any number of BeginFrames: IndInv is an    *)
(* inductive invariant of Spec, and every step keeps the promise of        *)
(* BufferOwnership.                                                        *)
(***************************************************************************)
EXTENDS LayerTreeFrameSink, FrameSinkProofs

LEMMA InitInv == Init => IndInv
<1> SUFFICES ASSUME Init PROVE IndInv
  OBVIOUS
<1>1. SinkInv
  BY SinkInitInv DEF Init
<1>2. TypeOK
  <2>1. vsyncs \in 0..MaxVsyncs /\ token \in 0..FramePeriod - 1
    BY VsyncsAssumption, PeriodAssumption DEF Init
  <2> QED BY <1>1, <2>1 DEF Init, TypeOK, SinkInv
<1>3. LockHeld /\ EmbedsTheChildsSurface
  BY <1>2 DEF Init, SinkInit, LockHeld, EmbedsTheChildsSurface
<1> QED BY <1>1, <1>3 DEF IndInv

-----------------------------------------------------------------------------
(***************************************************************************)
(* What the pipe embeds.                                                   *)
(***************************************************************************)
\* IndInv with the messages of the pipe in terms of OnlyEmbeds.
LEMMA EmbedsMember ==
  EmbedsTheChildsSurface <=> TypeOK /\ OnlyEmbeds(pipe, child_surface)
BY DEF EmbedsTheChildsSurface, OnlyEmbeds

\* While lock_ is free, what a frame embeds is the child's surface or nothing.
LEMMA QuadIsTheChild ==
  ASSUME TypeOK, LockHeld, lock_ = "free"
  PROVE  SurfaceQuad \in Nat /\ (SurfaceQuad # 0 => child_surface # 0
                                                   /\ SurfaceQuad = child_surface + 1)
<1>1. stage # "embedding" /\ child_surface \in Nat
  BY DEF LockHeld, TypeOK
<1>2. CASE child_frame_sink_id
  <2>1. stage = "embedded" /\ child_surface # 0
    BY <1>1, <1>2 DEF LockHeld
  <2> QED BY <1>1, <1>2, <2>1 DEF LockHeld, SurfaceQuad
<1>3. CASE ~child_frame_sink_id
  BY <1>3 DEF SurfaceQuad
<1> QED BY <1>2, <1>3

-----------------------------------------------------------------------------
(***************************************************************************)
(* The steps.  Each lemma also says what the step does to the abstract     *)
(* state of BufferOwnership.                                               *)
(***************************************************************************)
\* The main thread binds the client, embeds the child and hands over the provider.
LEMMA MainThreadInv ==
  ASSUME IndInv, MainThread
  PROVE  IndInv' /\ InUse' = InUse /\ UNCHANGED provider
<1> USE DEF IndInv
<1>1. SinkInv /\ TypeOK /\ LockHeld /\ OnlyEmbeds(pipe, child_surface)
  BY EmbedsMember
<1>2. ASSUME Bind \/ SetContextProvider
      PROVE  SinkInv' /\ InUse' = InUse
  <2>1. "BindOnThread" \in TaskOps /\ "SetContextProvider" \in TaskOps
    BY DEF TaskOps
  <2>2. UNCHANGED <<provider, pipe, needsBeginFrame, bitmaps, active, shown, retired, held,
                    ackPending>>
    BY <1>2 DEF Bind, SetContextProvider, remoteVars
  <2>3. PICK op \in TaskOps : queue' = Append(queue, Task(op, {}))
    BY <1>2, <2>1 DEF Bind, SetContextProvider
  <2> QED BY <2>2, <2>3, PostInv
<1>3. CASE Bind
  <2>1. SinkInv' /\ InUse' = InUse /\ UNCHANGED <<provider, pipe, child_surface>>
    BY <1>2, <1>3 DEF Bind
  <2>2. TypeOK'
    BY <1>1, <1>3, <2>1 DEF Bind, TypeOK, SinkInv, clientVars, embedVars, ownVars
  <2>3. LockHeld'
    BY <1>1, <1>3 DEF Bind, LockHeld, clientVars, embedVars
  <2> QED BY <1>1, <2>1, <2>2, <2>3 DEF EmbedsTheChildsSurface
<1>4. CASE SetContextProvider
  <2>1. SinkInv' /\ InUse' = InUse /\ UNCHANGED <<provider, pipe, child_surface>>
    BY <1>2, <1>4 DEF SetContextProvider
  <2>2. TypeOK'
    BY <1>1, <1>4, <2>1 DEF SetContextProvider, TypeOK, SinkInv, clientVars, embedVars, ownVars
  <2>3. LockHeld'
    BY <1>1, <1>4 DEF SetContextProvider, LockHeld, clientVars, embedVars
  <2> QED BY <1>1, <2>1, <2>2, <2>3 DEF EmbedsTheChildsSurface
<1>5. CASE EmbedChild \/ EmbedChildReturns
  <2>1. UNCHANGED <<queue, provider, pipe, needsBeginFrame, bitmaps, active, shown, retired,
                    held, ackPending>>
    BY <1>5 DEF EmbedChild, EmbedChildReturns, sinkVars
  <2>2. SinkInv' /\ InUse' = InUse
    BY <1>1, <2>1, StutterInv DEF sinkVars
  <2>3. TypeOK'
    <3>1. CASE EmbedChild
      BY <1>1, <2>2, <3>1 DEF EmbedChild, TypeOK, SinkInv, ownVars
    <3>2. CASE EmbedChildReturns
      <4>1. allocated' \in Nat /\ child_surface' \in Nat
        BY <1>1, <3>2 DEF EmbedChildReturns, TypeOK
      <4> QED BY <1>1, <2>2, <3>2, <4>1 DEF EmbedChildReturns, TypeOK, SinkInv, ownVars
    <3> QED BY <1>5, <3>1, <3>2
  <2>4. LockHeld'
    <3>1. allocated = child_surface /\ child_surface \in Nat /\ child_surface + 1 # 0
      BY <1>1 DEF LockHeld, TypeOK
    <3>2. CASE EmbedChild
      BY <1>1, <3>1, <3>2 DEF EmbedChild, LockHeld
    <3>3. CASE EmbedChildReturns
      <4>1. child_frame_sink_id
        BY <1>1, <3>3 DEF EmbedChildReturns, LockHeld
      <4>2. /\ stage' = "embedded" /\ lock_' = "free" /\ child_frame_sink_id'
            /\ allocated' = child_surface' /\ child_surface' # 0
        BY <3>1, <3>3, <4>1 DEF EmbedChildReturns
      <4> QED BY <4>2 DEF LockHeld
    <3> QED BY <1>5, <3>2, <3>3
  <2>5. OnlyEmbeds(pipe', child_surface')
    <3>1. CASE EmbedChild
      BY <1>1, <2>1, <3>1 DEF EmbedChild
    <3>2. CASE EmbedChildReturns
      \* No frame embeds anything before the surface is made.
      <4>1. child_surface = 0
        BY <1>1, <3>2 DEF EmbedChildReturns, LockHeld
      <4> QED BY <1>1, <2>1, <4>1 DEF OnlyEmbeds
    <3> QED BY <1>5, <3>1, <3>2
  <2> QED BY <2>1, <2>2, <2>3, <2>4, <2>5 DEF EmbedsTheChildsSurface, OnlyEmbeds
<1> QED BY <1>3, <1>4, <1>5 DEF MainThread, Bind, SetContextProvider

\* The service gives resources back or leaves what it may read as it is.
LEMMA ServiceStep ==
  ASSUME IndInv, Vsync \/ Answer \/ Return
  PROVE  IndInv' /\ InUse' \subseteq InUse /\ UNCHANGED provider
<1>1. /\ SinkInv /\ SinkTypeOK /\ TypeOK /\ LockHeld /\ OnlyEmbeds(pipe, child_surface)
      /\ Service
  BY EmbedsMember DEF IndInv, SinkInv, Vsync, Answer, Return, OfService, Service
<1>2. SinkInv' /\ InUse' \subseteq InUse /\ UNCHANGED provider
  BY <1>1, ServiceInv, ServiceGivesBack
<1>3. UNCHANGED <<clientVars, mainVars>> /\ vsyncs' \in 0..MaxVsyncs
  BY <1>1, VsyncsAssumption DEF Vsync, Answer, Return, OfService, TypeOK
<1>4. TypeOK'
  BY <1>1, <1>2, <1>3 DEF TypeOK, SinkInv, clientVars, mainVars, embedVars, ownVars
<1>5. LockHeld'
  BY <1>1, <1>3 DEF LockHeld, clientVars, mainVars, embedVars
<1>6. OnlyEmbeds(pipe', child_surface)
  <2>1. CASE UNCHANGED pipe
    BY <1>1, <2>1
  <2>2. CASE ServiceReceive
    <3>1. pipe # <<>> /\ pipe' = Tail(pipe)
      BY <2>2 DEF ServiceReceive, ServiceSetNeedsBeginFrame, ServiceDidAllocateSharedBitmap,
                  ServiceSubmitCompositorFrame, ServiceDidNotProduceFrame, Is
    <3> QED BY <1>1, <3>1, EmbedsTail DEF SinkTypeOK
  <2> QED
    BY <1>1, <2>1, <2>2 DEF Service, ServiceBeginFrame, ServiceAck, ServiceHoldResources,
                            ServiceReclaimResources
<1> QED
  BY <1>2, <1>3, <1>4, <1>5, <1>6 DEF IndInv, EmbedsTheChildsSurface, OnlyEmbeds, mainVars

-----------------------------------------------------------------------------
(***************************************************************************)
(* The client's thread.                                                    *)
(***************************************************************************)
\* The client takes back what the service returned, and releases it.
LEMMA TakeBackStep ==
  ASSUME IndInv, DidReceiveCompositorFrameAck \/ ReclaimResources
  PROVE  /\ IndInv' /\ InUse' = InUse
         /\ Head(queue).res \subseteq provider.imported \ InUse
         /\ provider'.released = provider.released \cup Head(queue).res
         /\ provider'.imported = provider.imported \ Head(queue).res
<1>1. /\ queue # <<>> /\ queue' = Tail(queue)
      /\ provider' = RemoveImportedResources(
                       ReceiveReturnsFromParent(provider, Head(queue).res),
                       Head(queue).res)
      /\ UNCHANGED <<pipe, remoteVars, clientVars, mainVars, vsyncs>>
  BY DEF DidReceiveCompositorFrameAck, ReclaimResources, TakeBack, Is
<1>2. /\ SinkInv' /\ InUse' = InUse
      /\ Head(queue).res \subseteq provider.imported \ InUse
      /\ provider'.released = provider.released \cup Head(queue).res
      /\ provider'.imported = provider.imported \ Head(queue).res
  BY <1>1, TakeBackInv DEF IndInv, remoteVars
<1>3. TypeOK' /\ LockHeld'
  BY <1>1, <1>2 DEF IndInv, EmbedsTheChildsSurface, TypeOK, LockHeld, SinkInv, clientVars,
                    mainVars, embedVars, ownVars
<1> QED BY <1>1, <1>2, <1>3 DEF IndInv, EmbedsTheChildsSurface, mainVars

\* The tasks that send at most a call without resources.
LEMMA CallStep ==
  ASSUME IndInv, BindOnThread \/ SetContextProviderOnThread \/ OnBeginFrameSkip
  PROVE  IndInv' /\ InUse' = InUse /\ UNCHANGED provider
<1> USE DEF Is
<1>1. /\ queue # <<>> /\ queue' = Tail(queue) /\ Head(queue).op \notin Returns
      /\ UNCHANGED <<provider, remoteVars, embedVars, mainVars, vsyncs>>
      /\ SinkInv /\ TypeOK /\ LockHeld /\ OnlyEmbeds(pipe, child_surface)
  BY EmbedsMember
  DEF BindOnThread, SetContextProviderOnThread, OnBeginFrameSkip, Returns, IndInv
<1>2. PICK op \in MessageOps : UNCHANGED pipe \/ pipe' = Append(pipe, Call(op))
  <2>1. "SetNeedsBeginFrame" \in MessageOps /\ "DidNotProduceFrame" \in MessageOps
    BY DEF MessageOps
  <2> QED BY <2>1 DEF BindOnThread, SetContextProviderOnThread, OnBeginFrameSkip
<1>3. SinkInv' /\ InUse' = InUse
  <2>1. UNCHANGED <<needsBeginFrame, bitmaps, active, shown, retired, held, ackPending>>
    BY <1>1 DEF remoteVars
  <2>2. CASE UNCHANGED pipe
    BY <1>1, <2>1, <2>2, RunInv
  <2>3. CASE pipe' = Append(pipe, Call(op))
    BY <1>1, <2>1, <2>3, CallInv
  <2> QED BY <1>2, <2>2, <2>3
<1>4. OnlyEmbeds(pipe', child_surface)
  <2>1. Call(op) \in MessageType /\ Call(op).content = 0 /\ pipe \in Seq(MessageType)
    BY <1>1 DEF Call, MessageType, SinkInv, SinkTypeOK
  <2>2. CASE UNCHANGED pipe
    BY <1>1, <2>2
  <2>3. CASE pipe' = Append(pipe, Call(op))
    BY <1>1, <2>1, <2>3, EmbedsAppend
  <2> QED BY <1>2, <2>2, <2>3
<1>5. bound' \in BOOLEAN /\ context_provider' \in BOOLEAN /\ token' \in 0..FramePeriod - 1
  <2>1. token \in 0..FramePeriod - 1 /\ (token + 1) % FramePeriod \in 0..FramePeriod - 1
    BY <1>1, PeriodAssumption DEF TypeOK
  <2> QED
    BY <1>1, <2>1 DEF TypeOK, BindOnThread, SetContextProviderOnThread, OnBeginFrameSkip
<1>6. TypeOK'
  BY <1>1, <1>3, <1>5 DEF TypeOK, SinkInv, mainVars, embedVars
<1>7. LockHeld'
  BY <1>1 DEF LockHeld, mainVars, embedVars
<1> QED BY <1>1, <1>3, <1>4, <1>6, <1>7
        DEF IndInv, EmbedsTheChildsSurface, OnlyEmbeds, mainVars

\* A frame is submitted: its resources, if it has any, are lent to the service.
LEMMA FrameStep ==
  ASSUME IndInv, OnBeginFrameSubmit
  PROVE  /\ IndInv'
         /\ FrameResources \cap (provider.imported \cup provider.released) = {}
         /\ InUse' = InUse \cup FrameResources
         /\ provider'.imported = provider.imported \cup FrameResources
         /\ provider'.released = provider.released
<1> DEFINE n == provider.next
           a == SharedBitmap({n})
           b == SharedBitmap({n + 1})
           q == IF SoftwareResources = {} THEN pipe ELSE Append(Append(pipe, a), b)
           m == Frame(FrameResources, SoftwareResources, SurfaceQuad)
<1>1. /\ queue # <<>> /\ queue' = Tail(queue) /\ Head(queue).op = "OnBeginFrame"
      /\ lock_ = "free" /\ token' = 1
      /\ pipe' = pipe \o Messages /\ provider' = CreateFrame(provider)
      /\ UNCHANGED <<remoteVars, embedVars, bound, context_provider, mainVars, vsyncs>>
  BY DEF OnBeginFrameSubmit, Is
<1>2. /\ SinkInv /\ TypeOK /\ LockHeld /\ OnlyEmbeds(pipe, child_surface)
      /\ provider \in ProviderType /\ n \in Nat
      /\ pipe \in Seq(MessageType) /\ Disjoint(pipe) /\ OnlyFramesCarry
  BY EmbedsMember DEF IndInv, SinkInv, SinkTypeOK, Conservation, OnePlace, ProviderType
<1>3. /\ FrameResources \in SUBSET Nat /\ SoftwareResources \in SUBSET Nat
      /\ \A x \in FrameResources : n <= x /\ x < n + 2
  BY <1>2 DEF FrameResources, SoftwareResources
<1>4. /\ SurfaceQuad \in Nat
      /\ SurfaceQuad # 0 => child_surface # 0 /\ SurfaceQuad = child_surface + 1
  BY <1>1, <1>2, QuadIsTheChild
<1>5. /\ provider' \in ProviderType
      /\ provider'.imported = provider.imported \cup FrameResources
      /\ provider'.exported = provider.exported \cup FrameResources
      /\ provider'.marked = provider.marked /\ provider'.released = provider.released
      /\ provider'.next >= n /\ \A x \in FrameResources : n <= x /\ x < provider'.next
  <2>1. CASE FrameResources = {}
    BY <1>1, <1>2, <2>1 DEF CreateFrame, ProviderType
  <2>2. CASE FrameResources # {}
    <3>1. FrameResources = {n, n + 1}
      BY <2>2 DEF FrameResources
    <3>2. /\ provider' = [next |-> n + 2, imported |-> provider.imported \cup {n, n + 1},
                          exported |-> provider.exported \cup {n, n + 1},
                          marked |-> provider.marked, released |-> provider.released]
          /\ provider' \in ProviderType
      <4>1. provider' = PrepareSendToParent(ImportResource(ImportResource(provider)),
                                            {n, n + 1})
        BY <1>1, <2>2, <3>1 DEF CreateFrame
      <4> QED BY <1>2, <4>1, TwoResult
    <3>3. provider'.next = n + 2 /\ n + 2 \in Nat /\ n + 2 >= n
      BY <1>2, <3>2
    <3> HIDE DEF n
    <3> QED BY <1>3, <3>1, <3>2, <3>3
  <2> QED BY <2>1, <2>2
<1>6. /\ a \in MessageType /\ a.res = {} /\ a.content = 0
      /\ b \in MessageType /\ b.res = {} /\ b.content = 0
  BY <1>2 DEF SharedBitmap, Call, MessageType, MessageOps
<1>7. m \in MessageType /\ m.content = SurfaceQuad
  BY <1>3, <1>4 DEF Frame, MessageType, MessageOps
<1> HIDE DEF a, b
<1>8. pipe' = Append(q, m)
  <2> HIDE DEF m
  <2>1. CASE SoftwareResources = {}
    <3>1. Messages = <<m>>
      BY <2>1 DEF Messages, m
    <3> QED BY <1>1, <1>2, <1>7, <2>1, <3>1
  <2>2. CASE SoftwareResources # {}
    <3>1. Messages = <<a, b, m>>
      BY <2>2 DEF Messages, a, b, m
    <3>2. pipe \o <<a, b, m>> = Append(Append(Append(pipe, a), b), m)
      BY <1>2, <1>6, <1>7
    <3> QED BY <1>1, <2>2, <3>1, <3>2
  <2> QED BY <2>1, <2>2
<1>9. /\ q \in Seq(MessageType) /\ Carried(q) = Carried(pipe) /\ Disjoint(q)
      /\ \A i \in 1..Len(q) : q[i].res # {} => q[i].op = "SubmitCompositorFrame"
      /\ OnlyEmbeds(q, child_surface)
  <2> DEFINE r == Append(pipe, a)
  <2>1. \A i \in 1..Len(pipe) : pipe[i].res # {} => pipe[i].op = "SubmitCompositorFrame"
    BY <1>2 DEF OnlyFramesCarry
  <2>2. /\ r \in Seq(MessageType) /\ Carried(r) = Carried(pipe) /\ Disjoint(r)
        /\ \A i \in 1..Len(r) : r[i].res # {} => r[i].op = "SubmitCompositorFrame"
    BY <1>2, <1>6, <2>1, SendNothing
  <2>3. OnlyEmbeds(r, child_surface)
    BY <1>2, <1>6, EmbedsAppend
  <2> HIDE DEF r
  <2>4. /\ Append(r, b) \in Seq(MessageType) /\ Carried(Append(r, b)) = Carried(pipe)
        /\ Disjoint(Append(r, b))
        /\ \A i \in 1..Len(Append(r, b)) :
             Append(r, b)[i].res # {} => Append(r, b)[i].op = "SubmitCompositorFrame"
    BY <1>6, <2>2, SendNothing
  <2>5. OnlyEmbeds(Append(r, b), child_surface)
    BY <1>6, <2>2, <2>3, EmbedsAppend
  <2>6. q = pipe \/ q = Append(r, b)
    BY DEF r
  <2> HIDE DEF q
  <2> QED BY <1>2, <2>1, <2>4, <2>5, <2>6
<1> HIDE DEF q
<1>10. /\ SinkInv' /\ InUse' = InUse \cup FrameResources
       /\ FrameResources \cap (provider.imported \cup provider.released) = {}
  <2>1. Head(queue).op \notin Returns
    BY <1>1 DEF Returns
  <2>2. UNCHANGED <<needsBeginFrame, bitmaps, active, shown, retired, held, ackPending>>
    BY <1>1 DEF remoteVars
  <2> HIDE DEF n
  <2>3. /\ provider'.next >= provider.next
        /\ \A x \in FrameResources : provider.next <= x /\ x < provider'.next
    BY <1>5 DEF n
  <2>4. pipe' = Append(q, Frame(FrameResources, SoftwareResources, SurfaceQuad))
    BY <1>8
  <2>5. /\ queue # <<>> /\ queue' = Tail(queue) /\ SinkInv
        /\ FrameResources \in SUBSET Nat /\ SoftwareResources \in SUBSET Nat
        /\ SurfaceQuad \in Nat
    BY <1>1, <1>2, <1>3, <1>4
  <2> HIDE DEF m
  <2> QED BY <1>5, <1>9, <2>1, <2>2, <2>3, <2>4, <2>5, FrameInv
<1>11. OnlyEmbeds(pipe', child_surface')
  <2> HIDE DEF m
  <2>1. m.content # 0 => child_surface # 0 /\ m.content = child_surface + 1
    BY <1>4, <1>7
  <2>2. OnlyEmbeds(pipe', child_surface)
    BY <1>7, <1>8, <1>9, <2>1, EmbedsAppend
  <2> QED BY <1>1, <2>2 DEF mainVars
<1>12. TypeOK' /\ LockHeld'
  <2>1. token' \in 0..FramePeriod - 1
    BY <1>1, PeriodAssumption
  <2>2. UNCHANGED <<lock_, child_frame_sink_id, allocated, bound, context_provider,
                    g_use_gpu, stage, child_surface, contextSent, vsyncs>>
    BY <1>1 DEF embedVars, mainVars
  <2> QED BY <1>2, <1>10, <2>1, <2>2 DEF TypeOK, LockHeld, SinkInv
<1> QED BY <1>5, <1>10, <1>11, <1>12 DEF IndInv, EmbedsTheChildsSurface, OnlyEmbeds

-----------------------------------------------------------------------------
(***************************************************************************)
(* The theorems.                                                           *)
(***************************************************************************)
\* Every step keeps IndInv, and is a step of BufferOwnership or leaves its state.
LEMMA StepInv ==
  ASSUME IndInv, [Next]_vars
  PROVE  IndInv' /\ [Ownership!Next]_(Ownership!vars)
<1> USE DEF Ownership!Next, Ownership!vars, Ownership!Lend, Ownership!GiveBack,
            Ownership!Free
<1>1. CASE MainThread
  BY <1>1, MainThreadInv
<1>2. CASE BindOnThread \/ SetContextProviderOnThread \/ OnBeginFrameSkip
  BY <1>2, CallStep
<1>3. CASE OnBeginFrameSubmit
  <2> DEFINE new == provider'.imported \ provider.imported
  <2>1. /\ IndInv' /\ InUse' = InUse \cup FrameResources
        /\ FrameResources \cap (provider.imported \cup provider.released) = {}
        /\ provider'.imported = provider.imported \cup FrameResources
        /\ provider'.released = provider.released
    BY <1>3, FrameStep
  <2>2. new = FrameResources
    BY <2>1
  <2>3. /\ provider.imported \subseteq provider'.imported
        /\ new \cap provider.released = {}
        /\ InUse' = InUse \cup new
    <3> HIDE DEF new
    <3> QED BY <2>1, <2>2
  <2>4. Ownership!Lend
    BY <2>1, <2>3
  <2> QED BY <2>1, <2>4
<1>4. CASE DidReceiveCompositorFrameAck \/ ReclaimResources
  <2>1. /\ IndInv' /\ InUse' = InUse
        /\ Head(queue).res \subseteq provider.imported \ InUse
        /\ provider'.released = provider.released \cup Head(queue).res
        /\ provider'.imported = provider.imported \ Head(queue).res
    BY <1>4, TakeBackStep
  <2>2. provider.imported \cap provider.released = {}
    BY DEF IndInv, SinkInv, Conservation
  <2>3. provider'.released \ provider.released = Head(queue).res
    BY <2>1, <2>2
  <2>4. Ownership!Free
    BY <2>1, <2>3
  <2> QED BY <2>1, <2>4
<1>5. CASE Vsync \/ Answer \/ Return
  <2>1. IndInv' /\ InUse' \subseteq InUse /\ UNCHANGED provider
    BY <1>5, ServiceStep
  <2> QED BY <2>1
<1>6. CASE UNCHANGED vars
  <2>1. UNCHANGED <<queue, provider, pipe, needsBeginFrame, bitmaps, active, shown,
                    retired, held, ackPending>>
    BY <1>6 DEF vars, sinkVars
  <2>2. UNCHANGED <<g_use_gpu, stage, child_surface, contextSent, vsyncs, lock_,
                    child_frame_sink_id, allocated, bound, context_provider, token>>
    BY <1>6 DEF vars, mainVars, clientVars, embedVars, ownVars
  <2>3. SinkInv' /\ InUse' = InUse
    BY <2>1, StutterInv DEF IndInv, sinkVars
  <2>4. EmbedsTheChildsSurface' /\ LockHeld'
    BY <2>1, <2>2, <2>3 DEF IndInv, EmbedsTheChildsSurface, TypeOK, LockHeld, SinkInv
  <2> QED BY <2>1, <2>3, <2>4 DEF IndInv
<1> QED BY <1>1, <1>2, <1>3, <1>4, <1>5, <1>6 DEF Next, ClientThread

\* The invariant of the client: every conjunct of IndInv holds in every state.
THEOREM Invariance == Spec => []IndInv
<1>1. IndInv /\ [Next]_vars => IndInv'
  BY StepInv
<1> QED BY InitInv, <1>1, PTL DEF Spec

\* Every frame under way embeds no surface or the one EmbedChild gave to the child,
\* for any frame period and any number of BeginFrames.
THEOREM FramesEmbedTheChild == Spec => []EmbedsTheChildsSurface
<1>1. IndInv => EmbedsTheChildsSurface
  BY DEF IndInv
<1> QED BY Invariance, <1>1, PTL

\* Each resource of a frame is at one place only, is not destroyed while the service
\* may still read it, and is not given back twice.
THEOREM ResourcesAreConserved == Spec => []Conservation
<1>1. IndInv => Conservation
  BY DEF IndInv, SinkInv
<1> QED BY Invariance, <1>1, PTL

\* The client keeps the promise of BufferOwnership: what it has lent stays lent
\* until the service gives it back, and is freed once.
THEOREM KeepsOwnership == Spec => OwnershipSpec
<1>1. Init => Ownership!Init
  <2> SUFFICES ASSUME Init PROVE Ownership!Init
    OBVIOUS
  <2>1. provider.imported = {} /\ provider.released = {}
    BY DEF Init, SinkInit, NewProvider
  <2>2. InUse = {}
    BY SinkInitInv DEF Init
  <2> QED BY <2>1, <2>2 DEF Ownership!Init
<1>2. IndInv /\ [Next]_vars => [Ownership!Next]_(Ownership!vars)
  BY StepInv
<1> QED BY Invariance, <1>1, <1>2, PTL DEF Spec, OwnershipSpec, Ownership!Spec
===============================================================================
