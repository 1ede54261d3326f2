------------------------------- MODULE VizGuiGpu -------------------------------
(***************************************************************************)
(* demo_viz_gui_gpu.cc from its window's InitializeDemo to the frames of a *)
(* client.  The main thread makes the Compositor, whose constructor binds  *)
(* the two clients and embeds the child, and then the GpuService, which    *)
(* makes one end of an IPC channel at once, posts the rest to the GPU main *)
(* thread, and makes the viz host by a delayed task of its own.            *)
(*                                                                         *)
(* The viz service exists once the host's request for VizMain is bound;    *)
(* until then what the clients have sent waits in their pipes.  `role` is  *)
(* the client that is followed.  It submits a frame at every BeginFrame.   *)
(*                                                                         *)
(* A definition whose name starts with Faulty is a plausible mistake in    *)
(* the definition that follows it; the properties are tried against it.    *)
(***************************************************************************)
EXTENDS FrameSink

CONSTANT MaxVsyncs      \* BeginFrames the display issues

ASSUME VsyncsAssumption == MaxVsyncs \in Nat

Clients == {"root", "child"}

VARIABLES
  role,                 \* the client that is followed
  stage,                \* main thread: how far InitializeDemo has come
  mainTasks,            \* main thread: tasks of its loop
  gpuTasks,             \* tasks of gpu_main_thread_
  lock_,                \* who holds the root client's lock_
  child_frame_sink_id,  \* root client: child_frame_sink_id_ is valid
  allocated,            \* root client: local_surface_id_allocator_'s current id
  child_surface,        \* main thread: local surface id given to the child
  client_channel_,      \* GPU: the channel's client end is made
  viz_main_,            \* GPU: the VizMainImpl is made
  request,              \* the VizMain request: "none", "sent", "delivered" or "bound"
  establish,            \* EstablishGpuChannel: "none", "asked" or "answered"
  gpu_channel_host_,    \* "unset", "null" (the handle was invalid) or "made"
  vsyncs,               \* service: BeginFrames issued
  bound,                \* client: BindOnThread has run
  context_provider      \* client: the context provider has arrived

embedVars   == <<lock_, child_frame_sink_id, allocated, child_surface>>
gpuVars     == <<client_channel_, viz_main_>>
hostVars    == <<request, establish, gpu_channel_host_>>
startVars   == <<stage, embedVars, mainTasks, gpuTasks, gpuVars, hostVars>>
ownVars     == <<bound, context_provider>>
remoteVars  == <<needsBeginFrame, bitmaps, active, shown, retired, held, ackPending>>
vars        == <<sinkVars, startVars, ownVars, role, vsyncs>>

Init ==
  /\ SinkInit
  /\ role \in Clients
  /\ stage = "bind root" /\ mainTasks = <<>> /\ gpuTasks = <<>>
  /\ lock_ = "free" /\ child_frame_sink_id = FALSE /\ allocated = 0 /\ child_surface = 0
  /\ client_channel_ = FALSE /\ viz_main_ = FALSE
  /\ request = "none" /\ establish = "none" /\ gpu_channel_host_ = "unset"
  /\ vsyncs = 0 /\ bound = FALSE /\ context_provider = FALSE

\* A task posted to client c's thread.
PostTo(c, op) == queue' = IF c = role THEN Append(queue, Task(op, {})) ELSE queue

-----------------------------------------------------------------------------
(***************************************************************************)
(* The main thread, in InitializeDemo: the Compositor's constructor ...    *)
(***************************************************************************)
Bind(c) ==
  /\ stage = IF c = "root" THEN "bind root" ELSE "bind child"
  /\ stage' = IF c = "root" THEN "embed" ELSE "server"
  /\ PostTo(c, "BindOnThread")
  /\ UNCHANGED <<provider, pipe, remoteVars, role, embedVars, mainTasks, gpuTasks, gpuVars,
                 hostVars, vsyncs, ownVars>>

EmbedChild ==
  /\ stage = "embed"
  /\ lock_ = "free"
  /\ lock_' = "main"
  /\ stage' = "embedding"
  /\ child_frame_sink_id' = TRUE
  /\ UNCHANGED <<sinkVars, role, allocated, child_surface, mainTasks, gpuTasks, gpuVars,
                 hostVars, vsyncs, ownVars>>

\* Faulty: GenerateId is forgotten, the current id is still invalid.
FaultyEmbedChildReturns ==
  /\ stage = "embedding"
  /\ stage' = "bind child"
  /\ child_surface' = allocated
  /\ lock_' = "free"
  /\ UNCHANGED <<sinkVars, role, child_frame_sink_id, allocated, mainTasks, gpuTasks,
                 gpuVars, hostVars, vsyncs, ownVars>>

EmbedChildReturns ==
  /\ stage = "embedding"
  /\ stage' = "bind child"
  /\ allocated' = allocated + 1
  /\ child_surface' = allocated'
  /\ lock_' = "free"
  /\ UNCHANGED <<sinkVars, role, child_frame_sink_id, mainTasks, gpuTasks, gpuVars,
                 hostVars, vsyncs, ownVars>>

(***************************************************************************)
(* ... and the GpuService's: the server's end of the channel is made here, *)
(* the client's end on the GPU main thread.                                *)
(***************************************************************************)
InitIPCServer ==
  /\ stage = "server"
  /\ stage' = "viz main"
  /\ gpuTasks' = Append(gpuTasks, "InitIPCClient")
  /\ UNCHANGED <<sinkVars, role, embedVars, mainTasks, gpuVars, hostVars, vsyncs, ownVars>>

\* Faulty: InitVizMain is left to the main thread's loop.
FaultyPostInits ==
  /\ stage = "viz main"
  /\ stage' = "loop"
  /\ mainTasks' = Append(mainTasks, "InitVizHost")
  /\ UNCHANGED <<sinkVars, role, embedVars, gpuTasks, gpuVars, hostVars, vsyncs, ownVars>>

\* InitVizMain goes to the GPU main thread, InitVizHost to this one with a delay
\* of five seconds; nothing else will be posted to it before that task has run.
PostInits ==
  /\ stage = "viz main"
  /\ stage' = "loop"
  /\ gpuTasks' = Append(gpuTasks, "InitVizMain")
  /\ mainTasks' = Append(mainTasks, "InitVizHost")
  /\ UNCHANGED <<sinkVars, role, embedVars, gpuVars, hostVars, vsyncs, ownVars>>

-----------------------------------------------------------------------------
(***************************************************************************)
(* The main thread's loop, where the host side lives.                      *)
(***************************************************************************)
OnMain(task) == stage = "loop" /\ mainTasks # <<>> /\ Head(mainTasks) = task

\* Asks the channel for VizMain, and VizMain for a GPU channel.
InitVizHost ==
  /\ OnMain("InitVizHost")
  /\ mainTasks' = Tail(mainTasks)
  /\ request' = "sent"
  /\ establish' = "asked"
  /\ UNCHANGED <<sinkVars, role, stage, embedVars, gpuTasks, gpuVars, gpu_channel_host_,
                 vsyncs, ownVars>>

\* The reply comes on the host's thread, which is the main one; it posts on anyway.
OnEstablishedOnIO ==
  /\ OnMain("OnEstablishedOnIO")
  /\ \E valid \in BOOLEAN : gpu_channel_host_' = IF valid THEN "made" ELSE "null"
  /\ mainTasks' = Append(Tail(mainTasks), "OnEstablishedOnMain")
  /\ UNCHANGED <<sinkVars, role, stage, embedVars, gpuTasks, gpuVars, request, establish,
                 vsyncs, ownVars>>

\* Faulty: the child's context provider is handed to the root client as well.
FaultyOnEstablishedOnMain ==
  /\ OnMain("OnEstablishedOnMain")
  /\ mainTasks' = Tail(mainTasks)
  /\ PostTo("root", "SetContextProvider")
  /\ UNCHANGED <<provider, pipe, remoteVars, role, stage, embedVars, gpuTasks, gpuVars,
                 hostVars, vsyncs, ownVars>>

\* Two context providers, one for each client, which Compositor hands over.
OnEstablishedOnMain ==
  /\ OnMain("OnEstablishedOnMain")
  /\ mainTasks' = Tail(mainTasks)
  /\ PostTo(role, "SetContextProvider")
  /\ UNCHANGED <<provider, pipe, remoteVars, role, stage, embedVars, gpuTasks, gpuVars,
                 hostVars, vsyncs, ownVars>>

MainThread ==
  \/ \E c \in Clients : Bind(c)
  \/ EmbedChild \/ EmbedChildReturns \/ InitIPCServer \/ PostInits
  \/ InitVizHost \/ OnEstablishedOnIO \/ OnEstablishedOnMain

-----------------------------------------------------------------------------
(***************************************************************************)
(* gpu_main_thread_.  The channel's I/O thread passes the VizMain request  *)
(* to its listener on this thread.                                         *)
(***************************************************************************)
OnGpuMain(task) == gpuTasks # <<>> /\ Head(gpuTasks) = task

InitIPCClient ==
  /\ OnGpuMain("InitIPCClient")
  /\ gpuTasks' = Tail(gpuTasks)
  /\ client_channel_' = TRUE
  /\ UNCHANGED <<sinkVars, role, stage, embedVars, mainTasks, viz_main_, hostVars, vsyncs,
                 ownVars>>

InitVizMain ==
  /\ OnGpuMain("InitVizMain")
  /\ gpuTasks' = Tail(gpuTasks)
  /\ viz_main_' = TRUE
  /\ UNCHANGED <<sinkVars, role, stage, embedVars, mainTasks, client_channel_, hostVars,
                 vsyncs, ownVars>>

DeliverRequest ==
  /\ client_channel_
  /\ request = "sent"
  /\ request' = "delivered"
  /\ gpuTasks' = Append(gpuTasks, "OnAssociatedInterfaceRequest")
  /\ UNCHANGED <<sinkVars, role, stage, embedVars, mainTasks, gpuVars, establish,
                 gpu_channel_host_, vsyncs, ownVars>>

\* The pointer in viz_main_ is read when the task is posted, not when it runs.
OnAssociatedInterfaceRequest ==
  /\ OnGpuMain("OnAssociatedInterfaceRequest")
  /\ gpuTasks' = Append(Tail(gpuTasks), IF viz_main_ THEN "Bind" ELSE "Bind null")
  /\ UNCHANGED <<sinkVars, role, stage, embedVars, mainTasks, gpuVars, hostVars, vsyncs,
                 ownVars>>

BindVizMain ==
  /\ OnGpuMain("Bind")
  /\ gpuTasks' = Tail(gpuTasks)
  /\ request' = "bound"
  /\ UNCHANGED <<sinkVars, role, stage, embedVars, mainTasks, gpuVars, establish,
                 gpu_channel_host_, vsyncs, ownVars>>

\* VizMainImpl answers EstablishGpuChannel; the reply is a task of the host's thread.
EstablishGpuChannelReply ==
  /\ request = "bound"
  /\ establish = "asked"
  /\ establish' = "answered"
  /\ mainTasks' = Append(mainTasks, "OnEstablishedOnIO")
  /\ UNCHANGED <<sinkVars, role, stage, embedVars, gpuTasks, gpuVars, request,
                 gpu_channel_host_, vsyncs, ownVars>>

Gpu ==
  \/ InitIPCClient \/ InitVizMain \/ DeliverRequest
  \/ OnAssociatedInterfaceRequest \/ BindVizMain \/ EstablishGpuChannelReply

-----------------------------------------------------------------------------
(***************************************************************************)
(* The client's thread.                                                    *)
(***************************************************************************)
BindOnThread ==
  /\ Is(queue, "BindOnThread")
  /\ queue' = Tail(queue)
  /\ bound' = TRUE
  /\ pipe' = Append(pipe, Call("SetNeedsBeginFrame"))
  /\ UNCHANGED <<provider, remoteVars, startVars, role, vsyncs, context_provider>>

\* DCHECKs that the provider binds to this thread, as it cannot without a channel.
SetContextProvider ==
  /\ Is(queue, "SetContextProvider")
  /\ gpu_channel_host_ = "made"
  /\ queue' = Tail(queue)
  /\ context_provider' = TRUE
  /\ UNCHANGED <<provider, pipe, remoteVars, startVars, role, vsyncs, bound>>

\* What a frame shows of the child's surface, as its local surface id + 1.
Surface ==
  IF role = "child" THEN child_surface + 1
  ELSE IF child_frame_sink_id THEN allocated + 1
  ELSE 0

\* The tile's and the texture's resource, shared images both.
FrameResources ==
  IF context_provider THEN {provider.next, provider.next + 1} ELSE {}

\* A shared image: without a context provider, hence for software, none is created.
CreateResource(p) == ImportResource(p)

CreateFrame(p) ==
  IF context_provider
    THEN PrepareSendToParent(CreateResource(CreateResource(p)), FrameResources)
    ELSE p

OnBeginFrame ==
  /\ Is(queue, "OnBeginFrame")
  /\ lock_ = "free"
  /\ queue' = Tail(queue)
  /\ provider' = CreateFrame(provider)
  /\ pipe' = Append(pipe, Frame(FrameResources, {}, Surface))
  /\ UNCHANGED <<remoteVars, startVars, role, vsyncs, ownVars>>

TakeBack(ids) ==
  RemoveImportedResources(ReceiveReturnsFromParent(provider, ids), ids)

DidReceiveCompositorFrameAck ==
  /\ Is(queue, "DidReceiveCompositorFrameAck")
  /\ queue' = Tail(queue)
  /\ provider' = TakeBack(Head(queue).res)
  /\ UNCHANGED <<pipe, remoteVars, startVars, role, vsyncs, ownVars>>

ReclaimResources ==
  /\ Is(queue, "ReclaimResources")
  /\ queue' = Tail(queue)
  /\ provider' = TakeBack(Head(queue).res)
  /\ UNCHANGED <<pipe, remoteVars, startVars, role, vsyncs, ownVars>>

ClientThread ==
  \/ BindOnThread \/ SetContextProvider
  \/ OnBeginFrame \/ DidReceiveCompositorFrameAck \/ ReclaimResources

-----------------------------------------------------------------------------
(***************************************************************************)
(* The service, which VizMain's FrameSinkManager makes.                    *)
(***************************************************************************)
Vsync ==
  /\ request = "bound"
  /\ vsyncs < MaxVsyncs
  /\ vsyncs' = vsyncs + 1
  /\ ServiceBeginFrame
  /\ UNCHANGED <<startVars, role, ownVars>>

Answer ==
  /\ request = "bound"
  /\ ServiceReceive \/ ServiceAck
  /\ UNCHANGED <<startVars, role, vsyncs, ownVars>>

Return ==
  /\ ServiceHoldResources \/ ServiceReclaimResources
  /\ UNCHANGED <<startVars, role, vsyncs, ownVars>>

Next == MainThread \/ Gpu \/ ClientThread \/ Vsync \/ Answer \/ Return

\* Every thread runs its tasks, timers fire, messages are delivered and answered,
\* and what a newer frame has replaced is returned.
Fairness ==
  /\ WF_vars(MainThread)
  /\ WF_vars(Gpu)
  /\ WF_vars(ClientThread)
  /\ WF_vars(request = "bound" /\ ServiceReceive
               /\ UNCHANGED <<startVars, role, vsyncs, ownVars>>)
  /\ WF_vars(request = "bound" /\ ServiceAck
               /\ UNCHANGED <<startVars, role, vsyncs, ownVars>>)
  /\ WF_vars(Return)

Spec     == Init /\ [][Next]_vars
FairSpec == Spec /\ Fairness

-----------------------------------------------------------------------------
(***************************************************************************)
(* Properties.                                                             *)
(***************************************************************************)
Stages == {"bind root", "embed", "embedding", "bind child", "server", "viz main", "loop"}
GpuMainTasks == {"InitIPCClient", "InitVizMain", "OnAssociatedInterfaceRequest", "Bind",
                 "Bind null"}

\* Every variable keeps to its range; nothing is under way to the service, and the
\* client has no provider, before VizMain is bound.
TypeOK ==
  /\ SinkTypeOK
  /\ role \in Clients /\ stage \in Stages
  /\ mainTasks \in Seq({"InitVizHost", "OnEstablishedOnIO", "OnEstablishedOnMain"})
  /\ gpuTasks \in Seq(GpuMainTasks)
  /\ lock_ \in {"free", "main"}
  /\ child_frame_sink_id \in BOOLEAN /\ allocated \in Nat /\ child_surface \in Nat
  /\ client_channel_ \in BOOLEAN /\ viz_main_ \in BOOLEAN
  /\ request \in {"none", "sent", "delivered", "bound"}
  /\ establish \in {"none", "asked", "answered"}
  /\ gpu_channel_host_ \in {"unset", "null", "made"}
  /\ vsyncs \in 0..MaxVsyncs /\ bound \in BOOLEAN /\ context_provider \in BOOLEAN
  /\ request # "bound" => vsyncs = 0 /\ ~context_provider

\* VizMain is never bound through a null pointer: whenever the request's task is
\* posted viz_main_ is set, however long InitVizMain takes and however soon the
\* delayed InitVizHost runs (the delay stands in for "TODO: add synchronisation").
\* Every variable keeps to its range.
VizMainIsMade == TypeOK /\ \A i \in 1..Len(gpuTasks) : gpuTasks[i] # "Bind null"

\* Every frame of the root embeds the surface the child submits to, the first one
\* included: the service serves no client before InitializeDemo has embedded the
\* child, so that lock_ is never contended here.
FramesEmbedTheChild ==
  \A i \in 1..Len(pipe) :
    pipe[i].op = "SubmitCompositorFrame" =>
      child_surface # 0 /\ pipe[i].content = child_surface + 1

\* Start-up ends: the client, root or child, has its own context provider unless
\* no GPU channel could be made, after which its thread stops at the DCHECK.
ContextArrives == <>(context_provider \/ gpu_channel_host_ = "null")

(***************************************************************************)
(* What makes these inductive: lock_ and the stage of InitializeDemo say   *)
(* how far the child is embedded, the two queues hold nothing but what is  *)
(* left of the start-up, in its order, and nothing reaches the client from *)
(* the service before VizMain is bound.                                    *)
(***************************************************************************)
Embedded ==
  /\ lock_ = IF stage = "embedding" THEN "main" ELSE "free"
  /\ child_frame_sink_id <=> stage \notin {"bind root", "embed"}
  /\ allocated = child_surface
  /\ child_surface # 0 <=> stage \notin {"bind root", "embed", "embedding"}

GpuQueue ==
  \/ /\ stage \notin {"viz main", "loop"} /\ ~client_channel_ /\ ~viz_main_
     /\ gpuTasks = <<>> /\ request = "none"
  \/ /\ stage = "viz main" /\ ~viz_main_ /\ request = "none"
     /\ gpuTasks = IF client_channel_ THEN <<>> ELSE <<"InitIPCClient">>
  \/ /\ stage = "loop" /\ ~client_channel_ /\ ~viz_main_
     /\ gpuTasks = <<"InitIPCClient", "InitVizMain">> /\ request \in {"none", "sent"}
  \/ /\ stage = "loop" /\ client_channel_ /\ ~viz_main_
     /\ \/ gpuTasks = <<"InitVizMain">> /\ request \in {"none", "sent"}
        \/ /\ gpuTasks = <<"InitVizMain", "OnAssociatedInterfaceRequest">>
           /\ request = "delivered"
  \/ /\ stage = "loop" /\ client_channel_ /\ viz_main_
     /\ \/ gpuTasks = <<>> /\ request # "delivered"
        \/ /\ gpuTasks \in {<<"OnAssociatedInterfaceRequest">>, <<"Bind">>}
           /\ request = "delivered"

MainQueue ==
  /\ stage # "loop" => mainTasks = <<>>
  /\ stage = "loop" /\ request = "none" => mainTasks = <<"InitVizHost">>
  /\ request # "none" =>
       mainTasks \in {<<>>, <<"OnEstablishedOnIO">>, <<"OnEstablishedOnMain">>}
  /\ request \notin {"none", "bound"} => mainTasks = <<>>
  /\ establish = (IF request = "none" THEN "none"
                  ELSE IF request = "bound" THEN establish ELSE "asked")
  /\ establish = "asked" => mainTasks = <<>>
  /\ gpu_channel_host_ # "unset" => request = "bound"

BeforeVizMain ==
  request # "bound" =>
    /\ ~needsBeginFrame /\ ackPending = 0 /\ retired = {}
    /\ \A i \in 1..Len(queue) : queue[i].op = "BindOnThread"
    /\ \A i \in 1..Len(pipe) : pipe[i].op = "SetNeedsBeginFrame"

IndInv ==
  /\ TypeOK /\ SinkInv
  /\ Embedded /\ GpuQueue /\ MainQueue /\ BeforeVizMain /\ FramesEmbedTheChild
===============================================================================
