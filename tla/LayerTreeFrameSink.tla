-------------------------- MODULE LayerTreeFrameSink --------------------------
(***************************************************************************)
(* LayerTreeFrameSink of demo_viz_layer.cc, the root client: it submits a  *)
(* frame every FramePeriod-th BeginFrame, with two resources once it has a *)
(* context provider and with the surface of its child once it embeds one.  *)
(*                                                                         *)
(* The main thread runs Compositor::InitializeOnThread, which binds the    *)
(* client and then embeds the child through EmbedChild.  Only then does it *)
(* make the GpuService, the service end of the client's pipe: no BeginFrame*)
(* comes before the child is embedded, and lock_ is never waited for.      *)
(*                                                                         *)
(* A definition whose name starts with Faulty is a plausible mistake in    *)
(* the definition that follows it; the properties are tried against it.    *)
(***************************************************************************)
EXTENDS FrameSink

CONSTANTS
  FramePeriod,    \* BeginFrames from one submitted frame to the next: 60
  MaxVsyncs       \* BeginFrames the display issues

ASSUME PeriodAssumption == FramePeriod \in Nat \ {0, 1}
ASSUME VsyncsAssumption == MaxVsyncs \in Nat

VARIABLES
  g_use_gpu,            \* the display composites on the GPU
  stage,                \* main thread: how far the initialisation has come
  child_surface,        \* main thread: local surface id given to the child
  contextSent,          \* main thread: SetContextProvider has been called
  vsyncs,               \* service: BeginFrames issued
  lock_,                \* who holds lock_
  child_frame_sink_id,  \* client: child_frame_sink_id_ is valid
  allocated,            \* client: local_surface_id_allocator_'s current id, 0 if none
  bound,                \* client: BindOnThread has run
  context_provider,     \* client: the context provider has arrived
  token                 \* client: frame_token_generator_ modulo FramePeriod

embedVars  == <<lock_, child_frame_sink_id, allocated>>
mainVars   == <<g_use_gpu, stage, child_surface, contextSent>>
ownVars    == <<bound, context_provider, token>>
remoteVars == <<needsBeginFrame, bitmaps, active, shown, retired, held, ackPending>>
clientVars == <<embedVars, ownVars>>
vars       == <<sinkVars, mainVars, clientVars, vsyncs>>

Init ==
  /\ SinkInit
  /\ g_use_gpu \in BOOLEAN
  /\ stage = "bind" /\ child_surface = 0 /\ contextSent = FALSE
  /\ vsyncs = 0
  /\ lock_ = "free" /\ child_frame_sink_id = FALSE /\ allocated = 0
  /\ bound = FALSE /\ context_provider = FALSE /\ token = 0

-----------------------------------------------------------------------------
(***************************************************************************)
(* The main thread.                                                        *)
(***************************************************************************)
Bind ==
  /\ stage = "bind"
  /\ stage' = "embed"
  /\ queue' = Append(queue, Task("BindOnThread", {}))
  /\ UNCHANGED <<provider, pipe, remoteVars, clientVars, g_use_gpu, child_surface,
                 contextSent, vsyncs>>

\* EmbedChild takes lock_ and records the child ...
EmbedChild ==
  /\ stage = "embed"
  /\ lock_ = "free"
  /\ lock_' = "main"
  /\ stage' = "embedding"
  /\ child_frame_sink_id' = TRUE
  /\ UNCHANGED <<sinkVars, allocated, ownVars, g_use_gpu, child_surface,
                 contextSent, vsyncs>>

\* Faulty: the id is returned before one is generated.
FaultyEmbedChildReturns ==
  /\ stage = "embedding"
  /\ stage' = "embedded"
  /\ child_surface' = allocated
  /\ lock_' = "free"
  /\ UNCHANGED <<sinkVars, allocated, child_frame_sink_id, ownVars, g_use_gpu, contextSent,
                 vsyncs>>

\* ... then generates the child's surface id, releases lock_ and returns the id.
EmbedChildReturns ==
  /\ stage = "embedding"
  /\ stage' = "embedded"
  /\ allocated' = allocated + 1
  /\ child_surface' = allocated'
  /\ lock_' = "free"
  /\ UNCHANGED <<sinkVars, child_frame_sink_id, ownVars, g_use_gpu, contextSent, vsyncs>>

SetContextProvider ==
  /\ stage = "embedded"
  /\ ~contextSent
  /\ contextSent' = TRUE
  /\ queue' = Append(queue, Task("SetContextProvider", {}))
  /\ UNCHANGED <<provider, pipe, remoteVars, clientVars, g_use_gpu, stage,
                 child_surface, vsyncs>>

MainThread == Bind \/ EmbedChild \/ EmbedChildReturns \/ SetContextProvider

-----------------------------------------------------------------------------
(***************************************************************************)
(* The client's thread.                                                    *)
(***************************************************************************)
BindOnThread ==
  /\ Is(queue, "BindOnThread")
  /\ queue' = Tail(queue)
  /\ bound' = TRUE
  /\ pipe' = Append(pipe, Call("SetNeedsBeginFrame"))
  /\ UNCHANGED <<provider, remoteVars, embedVars, context_provider, token, mainVars, vsyncs>>

SetContextProviderOnThread ==
  /\ Is(queue, "SetContextProvider")
  /\ queue' = Tail(queue)
  /\ context_provider' = TRUE
  /\ UNCHANGED <<provider, pipe, remoteVars, embedVars, bound, token, mainVars, vsyncs>>

\* The SurfaceDrawQuad of a frame: 0 without one, else its local surface id + 1
\* (an invalid id counts as 0).
SurfaceQuad == IF child_frame_sink_id THEN allocated + 1 ELSE 0

\* A tile and a texture, as soon as there is a context provider.
FrameResources ==
  IF context_provider THEN {provider.next, provider.next + 1} ELSE {}

\* CreateResource: on the GPU if it may, in shared memory otherwise.
SoftwareResources == IF context_provider /\ g_use_gpu THEN {} ELSE FrameResources

CreateFrame(p) ==
  IF FrameResources = {} THEN p
  ELSE PrepareSendToParent(ImportResource(ImportResource(p)), FrameResources)

\* What OnBeginFrame sends for a frame: each software resource is announced
\* while the frame is created, before the frame itself goes out.
Messages ==
  IF SoftwareResources = {} THEN <<Frame(FrameResources, {}, SurfaceQuad)>>
  ELSE <<SharedBitmap({provider.next}), SharedBitmap({provider.next + 1}),
         Frame(FrameResources, SoftwareResources, SurfaceQuad)>>

OnBeginFrameSubmit ==
  /\ Is(queue, "OnBeginFrame")
  /\ lock_ = "free"
  /\ (token + 1) % FramePeriod = 1
  /\ token' = 1
  /\ queue' = Tail(queue)
  /\ pipe' = pipe \o Messages
  /\ provider' = CreateFrame(provider)
  /\ UNCHANGED <<remoteVars, embedVars, bound, context_provider, mainVars, vsyncs>>

OnBeginFrameSkip ==
  /\ Is(queue, "OnBeginFrame")
  /\ lock_ = "free"
  /\ (token + 1) % FramePeriod # 1
  /\ token' = (token + 1) % FramePeriod
  /\ queue' = Tail(queue)
  /\ pipe' = Append(pipe, Call("DidNotProduceFrame"))
  /\ UNCHANGED <<provider, remoteVars, embedVars, bound, context_provider, mainVars, vsyncs>>

\* Faulty: the returns are taken, the resources are not removed.
FaultyTakeBack(ids) == ReceiveReturnsFromParent(provider, ids)

\* Faulty: an ack is taken to return everything that was sent.
FaultyTakeBackAll(ids) ==
  RemoveImportedResources(ReceiveReturnsFromParent(provider, provider.imported),
                          provider.imported)

\* DidReceiveCompositorFrameAck and ReclaimResources have the same body.
TakeBack(ids) ==
  RemoveImportedResources(ReceiveReturnsFromParent(provider, ids), ids)

DidReceiveCompositorFrameAck ==
  /\ Is(queue, "DidReceiveCompositorFrameAck")
  /\ queue' = Tail(queue)
  /\ provider' = TakeBack(Head(queue).res)
  /\ UNCHANGED <<pipe, remoteVars, clientVars, mainVars, vsyncs>>

ReclaimResources ==
  /\ Is(queue, "ReclaimResources")
  /\ queue' = Tail(queue)
  /\ provider' = TakeBack(Head(queue).res)
  /\ UNCHANGED <<pipe, remoteVars, clientVars, mainVars, vsyncs>>

ClientThread ==
  \/ BindOnThread \/ SetContextProviderOnThread
  \/ OnBeginFrameSubmit \/ OnBeginFrameSkip
  \/ DidReceiveCompositorFrameAck \/ ReclaimResources

-----------------------------------------------------------------------------
(***************************************************************************)
(* The service, which exists once the main thread has made the GpuService. *)
(***************************************************************************)
ServiceExists == stage = "embedded"

Vsync ==
  /\ ServiceExists
  /\ vsyncs < MaxVsyncs
  /\ vsyncs' = vsyncs + 1
  /\ ServiceBeginFrame
  /\ UNCHANGED <<clientVars, mainVars>>

OfService(A) == ServiceExists /\ A /\ UNCHANGED <<clientVars, mainVars, vsyncs>>

Answer == OfService(ServiceReceive \/ ServiceAck)
Return == OfService(ServiceHoldResources \/ ServiceReclaimResources)

Next == MainThread \/ ClientThread \/ Vsync \/ Answer \/ Return

Fairness ==
  /\ WF_vars(ClientThread)
  /\ WF_vars(OfService(ServiceReceive))
  /\ WF_vars(OfService(ServiceAck))
  /\ WF_vars(Return)
  /\ WF_vars(MainThread)

Spec     == Init /\ [][Next]_vars
FairSpec == Spec /\ Fairness

-----------------------------------------------------------------------------
(***************************************************************************)
(* Properties.                                                             *)
(***************************************************************************)
\* Every variable keeps to its range.
TypeOK ==
  /\ SinkTypeOK
  /\ g_use_gpu \in BOOLEAN /\ contextSent \in BOOLEAN
  /\ stage \in {"bind", "embed", "embedding", "embedded"}
  /\ child_surface \in Nat /\ allocated \in Nat
  /\ vsyncs \in 0..MaxVsyncs
  /\ lock_ \in {"free", "main"}
  /\ child_frame_sink_id \in BOOLEAN /\ bound \in BOOLEAN /\ context_provider \in BOOLEAN
  /\ token \in 0..FramePeriod - 1

\* A frame that embeds a surface embeds the one EmbedChild gave to the child: the
\* allocator's current id, which the client reads on a thread of its own.  Every
\* variable keeps to its range.
EmbedsTheChildsSurface ==
  /\ TypeOK
  /\ \A i \in 1..Len(pipe) :
       pipe[i].content # 0 =>
         child_surface # 0 /\ pipe[i].content = child_surface + 1

\* What makes EmbedsTheChildsSurface inductive: lock_ is held exactly while
\* EmbedChild has recorded the child and not yet made its surface id, so a frame
\* finds either no child or a complete one.
LockHeld ==
  /\ lock_ = IF stage = "embedding" THEN "main" ELSE "free"
  /\ child_frame_sink_id <=> stage \in {"embedding", "embedded"}
  /\ allocated = child_surface
  /\ stage = "embedded" <=> child_surface # 0

IndInv == SinkInv /\ LockHeld /\ EmbedsTheChildsSurface

\* Resources of a replaced frame are destroyed in the end, on whichever way the
\* service returns them.
ReplacedAreReleased ==
  \A id \in 1..2 * MaxVsyncs : id \in retired ~> id \in provider.released

\* The frames keep the promise of BufferOwnership.
Ownership == INSTANCE BufferOwnership WITH
               lent <- provider.imported, inUse <- InUse, freed <- provider.released
OwnershipSpec == Ownership!Spec
===============================================================================
