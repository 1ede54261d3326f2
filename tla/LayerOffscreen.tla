----------------------------- MODULE LayerOffscreen -----------------------------
(***************************************************************************)
(* demo_viz_layer_offscreen.cc and its _client.cc: the viz display draws   *)
(* into a texture, and the demo draws that texture into its window itself. *)
(* Every frame the display activates is told to the Compositor on the main *)
(* thread, which calls Redraw; Redraw moves to the GPU main thread, where  *)
(* InitHostMain must have made the window's GL context before.             *)
(*                                                                         *)
(* The module follows the demo from InitializeDemo over the start of the   *)
(* GPU side to the frames of one client, `role`: the root, which submits a *)
(* frame every FramePeriod-th BeginFrame, or its child, an InkClient,      *)
(* which submits one when something was drawn.                             *)
(*                                                                         *)
(* A definition whose name starts with Faulty is a plausible mistake in    *)
(* the definition that follows it; the properties are tried against it.    *)
(***************************************************************************)
EXTENDS FrameSink

CONSTANTS
  FramePeriod,    \* BeginFrames from one frame of the root to its next: 60
  MaxVsyncs,      \* BeginFrames the display issues
  MaxEvents       \* mouse and touch moves the user makes

ASSUME PeriodAssumption == FramePeriod \in Nat \ {0, 1}
ASSUME BoundsAssumption == MaxVsyncs \in Nat /\ MaxEvents \in Nat

Threads == {"main", "host_io", "gpu_main"}

VARIABLES
  role,              \* the client that is followed: "root" or "ink"
  g_use_gpu,         \* the display composites on the GPU
  posted,            \* main thread: how far InitializeDemo has come
  tasks,             \* the task queues of Threads
  server_channel_,   \* host: the server's end of the channel is made
  client_channel_,   \* GPU: the client's end is made
  viz_main_,         \* GPU: the VizMainImpl is made
  request,           \* the VizMain request: "none", "sent", "delivered" or "bound"
  establish,         \* EstablishGpuChannel: "none", "asked" or "answered"
  gpu_channel_host_, \* "unset", "null" (the handle was invalid) or "made"
  gpu_service,       \* GPU: VizMainImpl has made its GpuServiceImpl
  g_gpu_task_runner, \* GPU: InitHostMain has set this and the other globals
  manager,           \* GPU: the FrameSinkManager runs, the service serves
  activated,         \* service: frames activated
  redraws,           \* GPU: frames drawn into the window
  vsyncs,            \* service: BeginFrames issued
  events,            \* main thread: located events posted to the client
  bound,             \* client: Bind has run on the client's thread
  context_provider,  \* client: the context provider has arrived
  frame_token,       \* root client: frame_token_generator_ modulo FramePeriod
  need_redraw,       \* ink client: need_redraw_
  points             \* ink client: path_.countPoints()

hostVars   == <<server_channel_, establish, gpu_channel_host_>>
gpuVars    == <<client_channel_, viz_main_, gpu_service, g_gpu_task_runner, manager>>
startVars  == <<posted, hostVars, gpuVars, request>>
drawVars   == <<activated, redraws>>
mainVars   == <<role, g_use_gpu, events>>
ownVars    == <<bound, context_provider, frame_token, need_redraw, points>>
remoteVars == <<needsBeginFrame, bitmaps, active, shown, retired, held, ackPending>>
vars       == <<sinkVars, startVars, tasks, drawVars, mainVars, vsyncs, ownVars>>

Init ==
  /\ SinkInit
  /\ role \in {"root", "ink"} /\ g_use_gpu \in BOOLEAN
  /\ posted = 0 /\ tasks = [t \in Threads |-> <<>>]
  /\ server_channel_ = FALSE /\ client_channel_ = FALSE /\ viz_main_ = FALSE
  /\ request = "none" /\ establish = "none" /\ gpu_channel_host_ = "unset"
  /\ gpu_service = FALSE /\ g_gpu_task_runner = FALSE /\ manager = FALSE
  /\ activated = 0 /\ redraws = 0 /\ vsyncs = 0 /\ events = 0
  /\ bound = FALSE /\ context_provider = FALSE /\ frame_token = 0 /\ points = 0
  /\ need_redraw = FALSE     \* not read before Bind has set it

Running(thread, task) == tasks[thread] # <<>> /\ Head(tasks[thread]) = task
Done(thread) == [tasks EXCEPT ![thread] = Tail(@)]
DonePosting(thread, to, task) == [Done(thread) EXCEPT ![to] = Append(@, task)]

-----------------------------------------------------------------------------
(***************************************************************************)
(* The main thread in InitializeDemo.  The Compositor's constructor makes  *)
(* and binds the root, embeds the child and binds it; nothing can be drawn *)
(* yet, so EmbedChild meets no other thread.  The GpuService's posts the   *)
(* rest.                                                                   *)
(***************************************************************************)
Post(thread, task) == <<[thread |-> thread, task |-> task]>>

Bind(client) == Post(client, "BindOnThread")

EmbedChildClient == Bind("ink")

InitializeOnThread == Bind("root") \o EmbedChildClient

MakeGpuService ==
  Post("host_io", "InitIPCServer") \o Post("gpu_main", "InitVizMain")
  \o Post("host_io", "InitVizHost")

Posts == InitializeOnThread \o MakeGpuService

Construct ==
  /\ posted < Len(Posts)
  /\ posted' = posted + 1
  /\ LET p == Posts[posted + 1]
     IN  /\ queue' = IF p.thread = role THEN Append(queue, Task(p.task, {})) ELSE queue
         /\ tasks' = IF p.thread \in Threads
                       THEN [tasks EXCEPT ![p.thread] = Append(@, p.task)]
                       ELSE tasks
  /\ UNCHANGED <<provider, pipe, remoteVars, hostVars, gpuVars, request, drawVars, mainVars,
                 vsyncs, ownVars>>

-----------------------------------------------------------------------------
(***************************************************************************)
(* The main thread's loop: events, the context providers, the new frames.  *)
(***************************************************************************)
DidProcessEvent ==
  /\ posted = Len(Posts) /\ role = "ink"
  /\ events < MaxEvents
  /\ events' = events + 1
  /\ queue' = Append(queue, Task("Draw", {}))
  /\ UNCHANGED <<provider, pipe, remoteVars, startVars, tasks, drawVars, role, g_use_gpu,
                 vsyncs, ownVars>>

OnEstablishedOnMain ==
  /\ posted = Len(Posts) /\ Running("main", "OnEstablishedOnMain")
  /\ tasks' = Done("main")
  /\ queue' = Append(queue, Task("SetContextProvider", {}))
  /\ UNCHANGED <<provider, pipe, remoteVars, startVars, drawVars, mainVars, vsyncs, ownVars>>

\* Faulty: a frame told off the GPU thread is not passed on.
FaultyOnFrameTokenChanged ==
  /\ posted = Len(Posts) /\ Running("main", "OnFrameTokenChanged")
  /\ tasks' = Done("main")
  /\ UNCHANGED <<sinkVars, startVars, drawVars, mainVars, vsyncs, ownVars>>

\* Redraw, off the GPU main thread, posts itself there.
OnFrameTokenChanged ==
  /\ posted = Len(Posts) /\ Running("main", "OnFrameTokenChanged")
  /\ tasks' = DonePosting("main", "gpu_main", "Redraw")
  /\ UNCHANGED <<sinkVars, startVars, drawVars, mainVars, vsyncs, ownVars>>

MainThread == Construct \/ OnEstablishedOnMain \/ OnFrameTokenChanged

-----------------------------------------------------------------------------
(***************************************************************************)
(* host_io_thread_.                                                        *)
(***************************************************************************)

InitIPCServer ==
  /\ Running("host_io", "InitIPCServer")
  /\ server_channel_' = TRUE
  /\ tasks' = DonePosting("host_io", "gpu_main", "InitIPCClient")
  /\ UNCHANGED <<sinkVars, posted, establish, gpu_channel_host_, gpuVars, request, drawVars,
                 mainVars, vsyncs, ownVars>>

InitVizHost ==
  /\ Running("host_io", "InitVizHost")
  /\ tasks' = Done("host_io")
  /\ request' = "sent"
  /\ establish' = "asked"
  /\ UNCHANGED <<sinkVars, posted, server_channel_, gpu_channel_host_, gpuVars, drawVars,
                 mainVars, vsyncs, ownVars>>

\* The handle of the GPU channel is valid or not; the main thread is told anyway.
OnEstablishedOnIO ==
  /\ Running("host_io", "OnEstablishedOnIO")
  /\ \E valid \in BOOLEAN : gpu_channel_host_' = IF valid THEN "made" ELSE "null"
  /\ tasks' = DonePosting("host_io", "main", "OnEstablishedOnMain")
  /\ UNCHANGED <<sinkVars, posted, server_channel_, establish, gpuVars, request, drawVars,
                 mainVars, vsyncs, ownVars>>

HostIo == InitIPCServer \/ InitVizHost \/ OnEstablishedOnIO

-----------------------------------------------------------------------------
(***************************************************************************)
(* gpu_main_thread_, where viz's GPU service and the window's GL context   *)
(* live.                                                                   *)
(***************************************************************************)
InitIPCClient ==
  /\ Running("gpu_main", "InitIPCClient")
  /\ client_channel_' = TRUE
  /\ tasks' = Done("gpu_main")
  /\ UNCHANGED <<sinkVars, posted, hostVars, viz_main_, gpu_service, g_gpu_task_runner,
                 manager, request, drawVars, mainVars, vsyncs, ownVars>>

InitVizMain ==
  /\ Running("gpu_main", "InitVizMain")
  /\ viz_main_' = TRUE
  /\ tasks' = Done("gpu_main")
  /\ UNCHANGED <<sinkVars, posted, hostVars, client_channel_, gpu_service,
                 g_gpu_task_runner, manager, request, drawVars, mainVars, vsyncs, ownVars>>

DeliverRequest ==
  /\ client_channel_
  /\ request = "sent"
  /\ request' = "delivered"
  /\ tasks' = [tasks EXCEPT !["gpu_main"] = Append(@, "OnAssociatedInterfaceRequest")]
  /\ UNCHANGED <<sinkVars, posted, hostVars, gpuVars, drawVars, mainVars, vsyncs, ownVars>>

\* viz_main_ is bound; the calls waiting in its pipe become tasks of this thread.
OnAssociatedInterfaceRequest ==
  /\ Running("gpu_main", "OnAssociatedInterfaceRequest")
  /\ viz_main_
  /\ request' = "bound"
  /\ tasks' = [tasks EXCEPT !["gpu_main"] =
                 Tail(@) \o <<"CreateGpuService", "CreateFrameSinkManager">>]
  /\ UNCHANGED <<sinkVars, posted, hostVars, gpuVars, drawVars, mainVars, vsyncs, ownVars>>

\* Faulty: InitHostMain is posted to this thread instead of being called on it.
FaultyOnGpuServiceConnection ==
  /\ Running("gpu_main", "CreateGpuService")
  /\ gpu_service' = TRUE
  /\ tasks' = DonePosting("gpu_main", "gpu_main", "InitHostMain")
  /\ UNCHANGED <<sinkVars, posted, hostVars, client_channel_, viz_main_, g_gpu_task_runner,
                 manager, request, drawVars, mainVars, vsyncs, ownVars>>

\* InitHostMain runs while VizMainImpl is still making its GpuServiceImpl.
OnGpuServiceConnection ==
  /\ Running("gpu_main", "CreateGpuService")
  /\ gpu_service' = TRUE
  /\ g_gpu_task_runner' = TRUE
  /\ tasks' = Done("gpu_main")
  /\ UNCHANGED <<sinkVars, posted, hostVars, client_channel_, viz_main_, manager, request,
                 drawVars, mainVars, vsyncs, ownVars>>

CreateFrameSinkManager ==
  /\ Running("gpu_main", "CreateFrameSinkManager")
  /\ manager' = TRUE
  /\ tasks' = Done("gpu_main")
  /\ UNCHANGED <<sinkVars, posted, hostVars, client_channel_, viz_main_, gpu_service,
                 g_gpu_task_runner, request, drawVars, mainVars, vsyncs, ownVars>>

EstablishGpuChannelReply ==
  /\ gpu_service
  /\ establish = "asked"
  /\ establish' = "answered"
  /\ tasks' = [tasks EXCEPT !["host_io"] = Append(@, "OnEstablishedOnIO")]
  /\ UNCHANGED <<sinkVars, posted, server_channel_, gpu_channel_host_, gpuVars, request,
                 drawVars, mainVars, vsyncs, ownVars>>

Redraw ==
  /\ Running("gpu_main", "Redraw")
  /\ redraws' = redraws + 1
  /\ tasks' = Done("gpu_main")
  /\ UNCHANGED <<sinkVars, startVars, activated, mainVars, vsyncs, ownVars>>

GpuMain ==
  \/ InitIPCClient \/ InitVizMain \/ OnAssociatedInterfaceRequest
  \/ OnGpuServiceConnection \/ CreateFrameSinkManager \/ Redraw

-----------------------------------------------------------------------------
(***************************************************************************)
(* The client's thread: what both clients do.                              *)
(***************************************************************************)
SetContextProvider ==
  /\ Is(queue, "SetContextProvider")
  /\ gpu_channel_host_ = "made"      \* DCHECK on BindToCurrentThread
  /\ queue' = Tail(queue)
  /\ context_provider' = TRUE
  /\ UNCHANGED <<provider, pipe, remoteVars, startVars, tasks, drawVars, mainVars, vsyncs,
                 bound, frame_token, need_redraw, points>>

Software == ~(context_provider /\ g_use_gpu)

\* A shared bitmap is announced as it is created; a shared image goes another way.
CreateSoftwareResource(id) == <<SharedBitmap({id})>>
CreateGpuResource(id)      == <<>>

CreateResource(id) ==
  IF Software THEN CreateSoftwareResource(id) ELSE CreateGpuResource(id)

Send(messages) == pipe' = pipe \o messages

SubmitCompositorFrame(announcements, ids, content) ==
  Send(announcements \o <<Frame(ids, IF Software THEN ids ELSE {}, content)>>)

TakeBack(ids) ==
  RemoveImportedResources(ReceiveReturnsFromParent(provider, ids), ids)

DidReceiveCompositorFrameAck ==
  /\ Is(queue, "DidReceiveCompositorFrameAck")
  /\ queue' = Tail(queue)
  /\ provider' = TakeBack(Head(queue).res)
  /\ UNCHANGED <<pipe, remoteVars, startVars, tasks, drawVars, mainVars, vsyncs, ownVars>>

ReclaimResources ==
  /\ Is(queue, "ReclaimResources")
  /\ queue' = Tail(queue)
  /\ provider' = TakeBack(Head(queue).res)
  /\ UNCHANGED <<pipe, remoteVars, startVars, tasks, drawVars, mainVars, vsyncs, ownVars>>

-----------------------------------------------------------------------------
(***************************************************************************)
(* LayerTreeFrameSink, the root.                                           *)
(***************************************************************************)
RootBindOnThread ==
  /\ role = "root" /\ Is(queue, "BindOnThread")
  /\ queue' = Tail(queue)
  /\ bound' = TRUE
  /\ Send(<<Call("SetNeedsBeginFrame")>>)
  /\ UNCHANGED <<provider, remoteVars, startVars, tasks, drawVars, mainVars, vsyncs,
                 context_provider, frame_token, need_redraw, points>>

\* A tile and a texture, as soon as there is a context provider.
RootResources ==
  IF context_provider THEN {provider.next, provider.next + 1} ELSE {}

RootAnnouncements ==
  IF context_provider
    THEN CreateResource(provider.next) \o CreateResource(provider.next + 1)
    ELSE <<>>

RootCreateFrame(p) ==
  IF context_provider
    THEN PrepareSendToParent(ImportResource(ImportResource(p)), RootResources)
    ELSE p

RootOnBeginFrame ==
  /\ role = "root" /\ Is(queue, "OnBeginFrame")
  /\ queue' = Tail(queue)
  /\ frame_token' = (frame_token + 1) % FramePeriod
  /\ \/ /\ frame_token' = 1
        /\ SubmitCompositorFrame(RootAnnouncements, RootResources, 0)
        /\ provider' = RootCreateFrame(provider)
     \/ /\ frame_token' # 1
        /\ Send(<<Call("DidNotProduceFrame")>>)
        /\ UNCHANGED provider
  /\ UNCHANGED <<remoteVars, startVars, tasks, drawVars, mainVars, vsyncs, bound,
                 context_provider, need_redraw, points>>

-----------------------------------------------------------------------------
(***************************************************************************)
(* InkClient, the child.                                                   *)
(***************************************************************************)
InkBind ==
  /\ role = "ink" /\ Is(queue, "BindOnThread")
  /\ queue' = Tail(queue)
  /\ bound' = TRUE
  /\ Send(<<Call("SetNeedsBeginFrame")>>)
  /\ points' = 1
  /\ need_redraw' = TRUE
  /\ UNCHANGED <<provider, remoteVars, startVars, tasks, drawVars, mainVars, vsyncs,
                 context_provider, frame_token>>

InkDraw ==
  /\ Is(queue, "Draw")
  /\ queue' = Tail(queue)
  /\ points' = points + 1
  /\ need_redraw' = TRUE
  /\ Send(<<Call("SetNeedsBeginFrame")>>)
  /\ UNCHANGED <<provider, remoteVars, startVars, tasks, drawVars, mainVars, vsyncs, bound,
                 context_provider, frame_token>>

InkCreateFrame(p) == PrepareSendToParent(ImportResource(p), {p.next})

InkOnBeginFrame ==
  /\ role = "ink" /\ Is(queue, "OnBeginFrame")
  /\ queue' = Tail(queue)
  /\ \/ /\ need_redraw
        /\ SubmitCompositorFrame(CreateResource(provider.next), {provider.next}, points)
        /\ provider' = InkCreateFrame(provider)
     \/ /\ ~need_redraw
        /\ Send(<<Call("DidNotProduceFrame")>>)
        /\ UNCHANGED provider
  /\ need_redraw' = FALSE
  /\ UNCHANGED <<remoteVars, startVars, tasks, drawVars, mainVars, vsyncs, bound,
                 context_provider, frame_token, points>>

ClientThread ==
  \/ SetContextProvider \/ DidReceiveCompositorFrameAck \/ ReclaimResources
  \/ RootBindOnThread \/ RootOnBeginFrame
  \/ InkBind \/ InkDraw \/ InkOnBeginFrame

-----------------------------------------------------------------------------
(***************************************************************************)
(* The service.  A frame it takes is activated, and its token is told to   *)
(* the embedder (send_frame_token_to_embedder).                            *)
(***************************************************************************)
Unseen == UNCHANGED <<startVars, redraws, mainVars, ownVars>>

Receive ==
  /\ manager
  /\ ServiceReceive
  /\ \/ /\ Head(pipe).op = "SubmitCompositorFrame"
        /\ activated' = activated + 1
        /\ tasks' = [tasks EXCEPT !["main"] = Append(@, "OnFrameTokenChanged")]
     \/ /\ Head(pipe).op # "SubmitCompositorFrame"
        /\ UNCHANGED <<activated, tasks>>
  /\ Unseen /\ UNCHANGED vsyncs

Vsync ==
  /\ manager
  /\ vsyncs < MaxVsyncs
  /\ vsyncs' = vsyncs + 1
  /\ ServiceBeginFrame
  /\ Unseen /\ UNCHANGED <<activated, tasks>>

Ack == ServiceAck /\ Unseen /\ UNCHANGED <<activated, tasks, vsyncs>>

Return ==
  /\ ServiceHoldResources \/ ServiceReclaimResources
  /\ Unseen /\ UNCHANGED <<activated, tasks, vsyncs>>

Next ==
  \/ MainThread \/ DidProcessEvent
  \/ HostIo
  \/ GpuMain \/ DeliverRequest \/ EstablishGpuChannelReply
  \/ ClientThread
  \/ Receive \/ Vsync \/ Ack \/ Return

\* Every thread runs its tasks; every message is delivered and answered.
Fairness ==
  /\ WF_vars(MainThread)
  /\ WF_vars(HostIo)
  /\ WF_vars(GpuMain)
  /\ WF_vars(DeliverRequest)
  /\ WF_vars(EstablishGpuChannelReply)
  /\ WF_vars(ClientThread)
  /\ WF_vars(Receive)
  /\ WF_vars(Ack)

Spec     == Init /\ [][Next]_vars
FairSpec == Spec /\ Fairness

-----------------------------------------------------------------------------
(***************************************************************************)
(* Properties.                                                             *)
(***************************************************************************)
TaskNames ==
  [main |-> {"OnEstablishedOnMain", "OnFrameTokenChanged"},
   host_io |-> {"InitIPCServer", "InitVizHost", "OnEstablishedOnIO"},
   gpu_main |-> {"InitIPCClient", "InitVizMain", "OnAssociatedInterfaceRequest",
                 "CreateGpuService", "CreateFrameSinkManager", "Redraw"}]

\* Every variable keeps to its range, every task to the thread whose state it uses;
\* the root draws nothing and only the root counts BeginFrames.
TypeOK ==
  /\ SinkTypeOK
  /\ role \in {"root", "ink"} /\ g_use_gpu \in BOOLEAN
  /\ posted \in 0..Len(Posts)
  /\ \A t \in Threads : tasks[t] \in Seq(TaskNames[t])
  /\ \A b \in {server_channel_, client_channel_, viz_main_, gpu_service, g_gpu_task_runner,
               manager, bound, context_provider, need_redraw} : b \in BOOLEAN
  /\ request \in {"none", "sent", "delivered", "bound"}
  /\ establish \in {"none", "asked", "answered"}
  /\ gpu_channel_host_ \in {"unset", "null", "made"}
  /\ activated \in Nat /\ redraws \in 0..activated
  /\ vsyncs \in 0..MaxVsyncs /\ events \in 0..MaxEvents
  /\ frame_token \in 0..FramePeriod - 1 /\ points \in Nat
  /\ role = "root" => points = 0 /\ ~need_redraw
  /\ role = "ink" => frame_token = 0

\* Redraw finds the globals that InitHostMain sets (g_gpu_task_runner, the GL
\* context), on the main thread, where it reads them first, and on the GPU's: no
\* frame is activated before, though nothing in the demo waits for InitHostMain.
\* Every variable keeps to its range.
RedrawAfterInitHostMain ==
  /\ TypeOK
  /\ Running("main", "OnFrameTokenChanged") \/ Running("gpu_main", "Redraw")
       => g_gpu_task_runner

\* Every frame the display activates is drawn into the window in the end, by way
\* of the main thread and the GPU main thread, and none is drawn twice.
ActivatedAreRedrawn ==
  /\ \A n \in 1..MaxVsyncs : activated = n ~> redraws >= n
  /\ [](redraws <= activated)
===============================================================================
