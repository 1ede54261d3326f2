--------------------------------- MODULE VizGui ---------------------------------
(***************************************************************************)
(* demo_viz_gui.cc: a root client and a child, both of the same class, on  *)
(* threads of their own; a compositor thread that makes, binds and embeds  *)
(* them; and the GPU thread (here the main one) that gives each of them a  *)
(* SharedImageInterfaceProvider some time after it was bound.              *)
(*                                                                         *)
(* One of the two clients, `role`, is followed with its pipe to the viz    *)
(* service.  It submits a frame at every BeginFrame, ignores what acks     *)
(* bring back and takes only the returns of ReclaimResources.              *)
(*                                                                         *)
(* A definition whose name starts with Faulty is a plausible mistake in    *)
(* the definition that follows it; the properties are tried against it.    *)
(***************************************************************************)
EXTENDS FrameSink

CONSTANT MaxVsyncs      \* BeginFrames the display issues

ASSUME VsyncsAssumption == MaxVsyncs \in Nat

Clients == {"root", "child"}

VARIABLES
  role,                 \* the client that is followed
  stage,                \* compositor thread: how far InitializeOnThread has come
  child_surface,        \* compositor thread: local surface id given to the child
  gpuTasks,             \* GPU thread: clients that wait for a provider
  vsyncs,               \* service: BeginFrames issued
  lock_,                \* who holds the root client's lock_
  child_frame_sink_id,  \* root client: child_frame_sink_id_ is valid
  allocated,            \* root client: local_surface_id_allocator_'s current id
  bound,                \* client: BindOnThread has run
  shared_image_interface_provider,  \* client: the provider has arrived
  stranded              \* client: resources that came back with an ack

embedVars      == <<lock_, child_frame_sink_id, allocated>>
compositorVars == <<stage, child_surface>>
ownVars        == <<bound, shared_image_interface_provider, stranded>>
remoteVars     == <<needsBeginFrame, bitmaps, active, shown, retired, held, ackPending>>
othersVars     == <<role, compositorVars, embedVars, gpuTasks, vsyncs>>
vars           == <<sinkVars, othersVars, ownVars>>

Init ==
  /\ SinkInit
  /\ role \in Clients
  /\ stage = "new" /\ child_surface = 0 /\ gpuTasks = <<>> /\ vsyncs = 0
  /\ lock_ = "free" /\ child_frame_sink_id = FALSE /\ allocated = 0
  /\ bound = FALSE /\ shared_image_interface_provider = FALSE /\ stranded = {}

\* A task posted to client c's thread.
PostTo(c, op) == queue' = IF c = role THEN Append(queue, Task(op, {})) ELSE queue

-----------------------------------------------------------------------------
(***************************************************************************)
(* The main thread makes the Compositor and the GpuService, and lets the   *)
(* former initialise itself on its thread.  Then its loop runs, as the GPU *)
(* thread.                                                                 *)
(***************************************************************************)
InitializeDemo ==
  /\ stage = "new"
  /\ stage' = "bind root"
  /\ UNCHANGED <<sinkVars, role, child_surface, embedVars, gpuTasks, vsyncs, ownVars>>

(***************************************************************************)
(* The compositor thread: InitializeOnThread, one action per step that     *)
(* another thread can see.                                                 *)
(***************************************************************************)
Bind(c) ==
  /\ stage = IF c = "root" THEN "bind root" ELSE "bind child"
  /\ stage' = IF c = "root" THEN "ask root" ELSE "ask child"
  /\ PostTo(c, "BindOnThread")
  /\ UNCHANGED <<provider, pipe, remoteVars, role, child_surface, embedVars, gpuTasks,
                 vsyncs, ownVars>>

\* callback.Run: not on the GPU thread, so it is posted there.
AskForProvider(c) ==
  /\ stage = IF c = "root" THEN "ask root" ELSE "ask child"
  /\ stage' = IF c = "root" THEN "embed" ELSE "done"
  /\ gpuTasks' = Append(gpuTasks, c)
  /\ UNCHANGED <<sinkVars, role, child_surface, embedVars, vsyncs, ownVars>>

\* Faulty: EmbedChild does not take lock_.
FaultyEmbedChild ==
  /\ stage = "embed"
  /\ stage' = "embedding"
  /\ child_frame_sink_id' = TRUE
  /\ UNCHANGED <<sinkVars, role, child_surface, lock_, allocated, gpuTasks, vsyncs, ownVars>>

\* EmbedChild takes the root client's lock_ and records the child ...
EmbedChild ==
  /\ stage = "embed"
  /\ lock_ = "free"
  /\ lock_' = "compositor"
  /\ stage' = "embedding"
  /\ child_frame_sink_id' = TRUE
  /\ UNCHANGED <<sinkVars, role, child_surface, allocated, gpuTasks, vsyncs, ownVars>>

\* ... then generates the child's surface id, releases lock_ and returns the id,
\* with which EmbedChildClient makes the child.
EmbedChildReturns ==
  /\ stage = "embedding"
  /\ stage' = "bind child"
  /\ allocated' = allocated + 1
  /\ child_surface' = allocated'
  /\ lock_' = "free"
  /\ UNCHANGED <<sinkVars, role, child_frame_sink_id, gpuTasks, vsyncs, ownVars>>

CompositorThread ==
  \/ \E c \in Clients : Bind(c) \/ AskForProvider(c)
  \/ EmbedChild \/ EmbedChildReturns

-----------------------------------------------------------------------------
(***************************************************************************)
(* The GPU thread: GpuService::BindSharedImageInterfaceProvider makes a    *)
(* provider and runs the callback, which posts to the client's thread.     *)
(***************************************************************************)
\* Faulty: the test for the thread is inverted, the request is posted again.
FaultyGpuThread ==
  /\ gpuTasks # <<>>
  /\ gpuTasks' = Append(Tail(gpuTasks), Head(gpuTasks))
  /\ UNCHANGED <<sinkVars, role, compositorVars, embedVars, vsyncs, ownVars>>

GpuThread ==
  /\ gpuTasks # <<>>
  /\ gpuTasks' = Tail(gpuTasks)
  /\ PostTo(Head(gpuTasks), "BindSharedImageInterfaceProvider")
  /\ UNCHANGED <<provider, pipe, remoteVars, role, compositorVars, embedVars, vsyncs, ownVars>>

-----------------------------------------------------------------------------
(***************************************************************************)
(* The client's thread.                                                    *)
(***************************************************************************)
BindOnThread ==
  /\ Is(queue, "BindOnThread")
  /\ queue' = Tail(queue)
  /\ bound' = TRUE
  /\ pipe' = Append(pipe, Call("SetNeedsBeginFrame"))
  /\ UNCHANGED <<provider, remoteVars, othersVars, shared_image_interface_provider, stranded>>

BindSharedImageInterfaceProvider ==
  /\ Is(queue, "BindSharedImageInterfaceProvider")
  /\ queue' = Tail(queue)
  /\ shared_image_interface_provider' = TRUE
  /\ UNCHANGED <<provider, pipe, remoteVars, othersVars, bound, stranded>>

\* What a frame shows of the child's surface, as its local surface id + 1: the
\* root embeds it once it knows the child, the child submits to it.
Surface ==
  IF role = "child" THEN child_surface + 1
  ELSE IF child_frame_sink_id THEN allocated + 1
  ELSE 0

\* AllocateAndFillSoftwareResource: nothing to import before the provider is
\* there; the quads then name the invalid resource, which is none of the provider's.
NewResources ==
  IF shared_image_interface_provider THEN {provider.next, provider.next + 1} ELSE {}

\* A tile and a texture, each imported and then exported.
Exported(p) == {p.next, p.next + 1}

CreateFrame(p) ==
  IF shared_image_interface_provider
    THEN PrepareSendToParent(ImportResource(ImportResource(p)), Exported(p))
    ELSE p

\* Every BeginFrame, under lock_: a frame, whether or not it has resources.
OnBeginFrame ==
  /\ Is(queue, "OnBeginFrame")
  /\ lock_ = "free"
  /\ queue' = Tail(queue)
  /\ provider' = CreateFrame(provider)
  /\ pipe' = Append(pipe, Frame(NewResources, {}, Surface))
  /\ UNCHANGED <<remoteVars, othersVars, ownVars>>

\* The body is empty: what the ack brings back stays imported and exported.
DidReceiveCompositorFrameAck ==
  /\ Is(queue, "DidReceiveCompositorFrameAck")
  /\ queue' = Tail(queue)
  /\ stranded' = stranded \cup Head(queue).res
  /\ UNCHANGED <<provider, pipe, remoteVars, othersVars, bound,
                 shared_image_interface_provider>>

\* Faulty: the resources are removed, their return is forgotten.
FaultyTakeBack(ids) == RemoveImportedResources(provider, ids)

\* The resources are removed while they are still exported, so only marked; then
\* their return releases them.
TakeBack(ids) ==
  ReceiveReturnsFromParent(RemoveImportedResources(provider, ids), ids)

ReclaimResources ==
  /\ Is(queue, "ReclaimResources")
  /\ queue' = Tail(queue)
  /\ provider' = TakeBack(Head(queue).res)
  /\ UNCHANGED <<pipe, remoteVars, othersVars, ownVars>>

ClientThread ==
  \/ BindOnThread \/ BindSharedImageInterfaceProvider
  \/ OnBeginFrame \/ DidReceiveCompositorFrameAck \/ ReclaimResources

-----------------------------------------------------------------------------
Unseen == UNCHANGED <<role, compositorVars, embedVars, gpuTasks, ownVars>>

Vsync ==
  /\ vsyncs < MaxVsyncs
  /\ vsyncs' = vsyncs + 1
  /\ ServiceBeginFrame
  /\ Unseen

Answer == (ServiceReceive \/ ServiceAck) /\ Unseen /\ UNCHANGED vsyncs

Return ==
  /\ ServiceHoldResources \/ ServiceReclaimResources
  /\ Unseen /\ UNCHANGED vsyncs

Next ==
  InitializeDemo \/ CompositorThread \/ GpuThread \/ ClientThread \/ Vsync \/ Answer \/ Return

\* Every thread runs its tasks and the service answers; it need not return resources.
Fairness ==
  /\ WF_vars(InitializeDemo)
  /\ WF_vars(CompositorThread)
  /\ WF_vars(GpuThread)
  /\ WF_vars(ClientThread)
  /\ WF_vars(Answer)

Spec     == Init /\ [][Next]_vars
FairSpec == Spec /\ Fairness

-----------------------------------------------------------------------------
(***************************************************************************)
(* Properties.                                                             *)
(***************************************************************************)
Stages == {"new", "bind root", "ask root", "embed", "embedding", "bind child", "ask child",
           "done"}

\* Every variable keeps to its range.
TypeOK ==
  /\ SinkTypeOK
  /\ role \in Clients /\ stage \in Stages
  /\ child_surface \in Nat /\ allocated \in Nat
  /\ gpuTasks \in Seq(Clients) /\ vsyncs \in 0..MaxVsyncs
  /\ lock_ \in {"free", "compositor"}
  /\ child_frame_sink_id \in BOOLEAN /\ bound \in BOOLEAN
  /\ shared_image_interface_provider \in BOOLEAN
  /\ stranded \in SUBSET Nat

\* The acks' returns are never handled, and they are all that is leaked: every
\* other shared image is at one place only between the client, the pipe, the
\* display and the way back, and none is destroyed while it is at one of them
\* (DidReceiveCompositorFrameAck, ReclaimResources).
OnlyAcksStrand ==
  /\ OnePlace
  /\ stranded \cap (InUse \cup Returning) = {}
  /\ provider.imported = InUse \cup Returning \cup stranded
  /\ provider.exported = provider.imported
  /\ provider.released \cap provider.imported = {}

\* The root never shows, and the child never submits to, another surface than the
\* one EmbedChild handed out, whatever frame is built while it runs (lock_).  Every
\* variable keeps to its range.
OneChildSurface ==
  /\ TypeOK
  /\ \A i \in 1..Len(pipe) :
      pipe[i].content # 0 =>
        child_surface # 0 /\ pipe[i].content = child_surface + 1

\* Both clients get a provider in the end, and never before they are bound: the
\* request goes from the compositor's thread over the GPU's to the client's.
ProviderArrives ==
  /\ <>shared_image_interface_provider
  /\ [](shared_image_interface_provider => bound)

(***************************************************************************)
(* What makes OneChildSurface inductive: lock_ keeps frames from being     *)
(* built between the two steps of EmbedChild, and the child has nothing to *)
(* do before EmbedChild has returned.                                      *)
(***************************************************************************)
LockHeld ==
  /\ lock_ = IF stage = "embedding" THEN "compositor" ELSE "free"
  /\ child_frame_sink_id <=> stage \in {"embedding", "bind child", "ask child", "done"}
  /\ allocated = child_surface
  /\ stage \in {"bind child", "ask child", "done"} <=> child_surface # 0

NoChildYet ==
  role = "child" /\ child_surface = 0 =>
    /\ queue = <<>> /\ pipe = <<>> /\ retired = {}
    /\ ~needsBeginFrame /\ ackPending = 0
    /\ \A i \in 1..Len(gpuTasks) : gpuTasks[i] = "root"

SurfaceInv == OneChildSurface /\ LockHeld /\ NoChildYet
===============================================================================
