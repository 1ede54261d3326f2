------------------------------ MODULE GpuService ------------------------------
(***************************************************************************)
(* The start-up of demo_viz_layer.cc: DemoVizWindow::InitializeDemo makes  *)
(* the Compositor, which binds the two clients, then the GpuService, whose *)
(* constructor starts the threads of the host and of the GPU side and      *)
(* posts their initialisation to them.                                     *)
(*                                                                         *)
(* Nothing but the order of tasks keeps these threads from using what the  *)
(* others have not made yet: there is no lock, no event and no test for    *)
(* null.  A thread runs its tasks in the order in which they were posted.  *)
(*                                                                         *)
(* A definition whose name starts with Faulty is a plausible mistake in    *)
(* the definition that follows it; the properties are tried against it.    *)
(***************************************************************************)
EXTENDS Naturals, Sequences

\* The threads of the two viz clients, and the others with a task queue here.
\* gpu_io_thread_ only carries the channel's messages to gpu_main_thread_.
Clients == {"root", "child"}
Threads == Clients \cup {"main", "host_io", "gpu_main"}

VARIABLES
  posted,            \* how many of Posts the main thread has posted
  tasks,             \* the task queue of each thread
  server_channel_,   \* host_io_thread_ has made the server's channel
  client_channel_,   \* gpu_main_thread_ has made the client's channel
  viz_main_,         \* gpu_main_thread_ has made the VizMainImpl
  gpu_host_,         \* host_io_thread_ has made the GpuHostImpl
  request,           \* the VizMain interface request: "none", "sent", "delivered" or "bound"
  establish,         \* EstablishGpuChannel: "none", "asked" or "answered"
  gpu_channel_host_, \* "unset", "null" (the handle was invalid) or "made"
  bound,             \* clients whose Bind has run on their thread
  provided           \* clients whose context provider has arrived

hostVars    == <<server_channel_, gpu_host_, establish, gpu_channel_host_>>
gpuVars     == <<client_channel_, viz_main_>>
startUpVars == <<posted, tasks, hostVars, gpuVars, request, bound, provided>>

Running(thread, task) == tasks[thread] # <<>> /\ Head(tasks[thread]) = task

\* The thread finishes its task, having posted one to another thread.
Done(thread) == [tasks EXCEPT ![thread] = Tail(@)]
DonePosting(thread, to, task) == [Done(thread) EXCEPT ![to] = Append(@, task)]

-----------------------------------------------------------------------------
(***************************************************************************)
(* The main thread: the Compositor's constructor binds the clients, the    *)
(* GpuService's posts the rest.                                            *)
(***************************************************************************)
Post(thread, task) == [thread |-> thread, task |-> task]

\* Faulty: the host is initialised before the GPU main thread is asked to be.
FaultyPosts ==
  << Post("root", "Bind"), Post("child", "Bind"),
     Post("host_io", "InitIPCServer"),
     Post("host_io", "InitVizHost"),
     Post("gpu_main", "InitVizMain") >>

Posts ==
  << Post("root", "Bind"), Post("child", "Bind"),
     Post("host_io", "InitIPCServer"),
     Post("gpu_main", "InitVizMain"),
     Post("host_io", "InitVizHost") >>

StartUpInit ==
  /\ posted = 0
  /\ tasks = [t \in Threads |-> <<>>]
  /\ server_channel_ = FALSE /\ client_channel_ = FALSE
  /\ viz_main_ = FALSE /\ gpu_host_ = FALSE
  /\ request = "none" /\ establish = "none" /\ gpu_channel_host_ = "unset"
  /\ bound = {} /\ provided = {}

Construct ==
  /\ posted < Len(Posts)
  /\ posted' = posted + 1
  /\ LET p == Posts[posted + 1]
     IN  tasks' = [tasks EXCEPT ![p.thread] = Append(@, p.task)]
  /\ UNCHANGED <<hostVars, gpuVars, request, bound, provided>>

\* Faulty: the provider is made for the root client only.
FaultyOnEstablishedOnMain ==
  /\ posted = Len(Posts)
  /\ Running("main", "OnEstablishedOnMain")
  /\ tasks' = DonePosting("main", "root", "SetContextProvider")
  /\ UNCHANGED <<posted, hostVars, gpuVars, request, bound, provided>>

\* The main loop runs once InitializeDemo has returned.
OnEstablishedOnMain ==
  /\ posted = Len(Posts)
  /\ Running("main", "OnEstablishedOnMain")
  /\ tasks' = [t \in Threads |->
                 IF t \in Clients THEN Append(tasks[t], "SetContextProvider")
                 ELSE Done("main")[t]]
  /\ UNCHANGED <<posted, hostVars, gpuVars, request, bound, provided>>

-----------------------------------------------------------------------------
(***************************************************************************)
(* host_io_thread_.                                                        *)
(***************************************************************************)

InitIPCServer ==
  /\ Running("host_io", "InitIPCServer")
  /\ server_channel_' = TRUE
  /\ tasks' = DonePosting("host_io", "gpu_main", "InitIPCClient")
  /\ UNCHANGED <<posted, gpu_host_, establish, gpu_channel_host_, gpuVars, request,
                 bound, provided>>

\* Asks the channel for VizMain, and VizMain for a GPU channel.
InitVizHost ==
  /\ Running("host_io", "InitVizHost")
  /\ gpu_host_' = TRUE
  /\ request' = "sent"
  /\ establish' = "asked"
  /\ tasks' = Done("host_io")
  /\ UNCHANGED <<posted, server_channel_, gpu_channel_host_, gpuVars, bound, provided>>

\* The handle of the GPU channel is valid or not; the main thread is told anyway.
OnEstablishedOnIO(valid) ==
  /\ Running("host_io", "OnEstablishedOnIO")
  /\ gpu_channel_host_' = IF valid THEN "made" ELSE "null"
  /\ tasks' = DonePosting("host_io", "main", "OnEstablishedOnMain")
  /\ UNCHANGED <<posted, server_channel_, gpu_host_, establish, gpuVars, request,
                 bound, provided>>

HostIo == InitIPCServer \/ InitVizHost \/ \E valid \in BOOLEAN : OnEstablishedOnIO(valid)

-----------------------------------------------------------------------------
(***************************************************************************)
(* gpu_main_thread_, and gpu_io_thread_ that feeds it.                     *)
(***************************************************************************)
InitIPCClient ==
  /\ Running("gpu_main", "InitIPCClient")
  /\ client_channel_' = TRUE
  /\ tasks' = Done("gpu_main")
  /\ UNCHANGED <<posted, hostVars, viz_main_, request, bound, provided>>

InitVizMain ==
  /\ Running("gpu_main", "InitVizMain")
  /\ viz_main_' = TRUE
  /\ tasks' = Done("gpu_main")
  /\ UNCHANGED <<posted, hostVars, client_channel_, request, bound, provided>>

\* OnAssociatedInterfaceRequest off the GPU main thread posts itself there ...
OnAssociatedInterfaceRequest ==
  /\ client_channel_
  /\ request = "sent"
  /\ request' = "delivered"
  /\ tasks' = [tasks EXCEPT !["gpu_main"] = Append(@, "OnAssociatedInterfaceRequest")]
  /\ UNCHANGED <<posted, hostVars, gpuVars, bound, provided>>

\* ... and on it binds viz_main_ to the request.
BindVizMain ==
  /\ Running("gpu_main", "OnAssociatedInterfaceRequest")
  /\ request' = "bound"
  /\ tasks' = Done("gpu_main")
  /\ UNCHANGED <<posted, hostVars, gpuVars, bound, provided>>

\* VizMainImpl answers EstablishGpuChannel; the reply is a task of the host.
EstablishGpuChannelReply ==
  /\ request = "bound"
  /\ establish = "asked"
  /\ establish' = "answered"
  /\ tasks' = [tasks EXCEPT !["host_io"] = Append(@, "OnEstablishedOnIO")]
  /\ UNCHANGED <<posted, server_channel_, gpu_host_, gpu_channel_host_, gpuVars,
                 request, bound, provided>>

Gpu == InitIPCClient \/ InitVizMain \/ BindVizMain

-----------------------------------------------------------------------------
(***************************************************************************)
(* The threads of the clients.                                             *)
(***************************************************************************)
BindClient(c) ==
  /\ Running(c, "Bind")
  /\ bound' = bound \cup {c}
  /\ tasks' = Done(c)
  /\ UNCHANGED <<posted, hostVars, gpuVars, request, provided>>

\* BindToCurrentThread fails on a provider without a channel, and the DCHECK on its
\* result stops the client's thread.
SetContextProvider(c) ==
  /\ Running(c, "SetContextProvider")
  /\ gpu_channel_host_ = "made"
  /\ provided' = provided \cup {c}
  /\ tasks' = Done(c)
  /\ UNCHANGED <<posted, hostVars, gpuVars, request, bound>>

Client(c) == BindClient(c) \/ SetContextProvider(c)

StartUpNext ==
  \/ Construct \/ OnEstablishedOnMain
  \/ HostIo \/ Gpu
  \/ OnAssociatedInterfaceRequest \/ EstablishGpuChannelReply
  \/ \E c \in Clients : Client(c)

\* Every thread runs its tasks, every message is delivered and answered.
StartUpFairness ==
  /\ WF_startUpVars(Construct)
  /\ WF_startUpVars(OnEstablishedOnMain)
  /\ WF_startUpVars(HostIo)
  /\ WF_startUpVars(Gpu)
  /\ WF_startUpVars(OnAssociatedInterfaceRequest)
  /\ WF_startUpVars(EstablishGpuChannelReply)
  /\ \A c \in Clients : WF_startUpVars(Client(c))

StartUpSpec == StartUpInit /\ [][StartUpNext]_startUpVars
FairStartUp == StartUpSpec /\ StartUpFairness

-----------------------------------------------------------------------------
(***************************************************************************)
(* Properties.                                                             *)
(***************************************************************************)
ClientTasks  == {"Bind", "SetContextProvider"}
HostTasks    == {"InitIPCServer", "InitVizHost", "OnEstablishedOnIO"}
GpuMainTasks == {"InitIPCClient", "InitVizMain", "OnAssociatedInterfaceRequest"}
MainTasks    == {"OnEstablishedOnMain"}
TaskNames    == ClientTasks \cup HostTasks \cup GpuMainTasks \cup MainTasks

\* Every variable keeps to its range, and every task to the thread whose state it
\* makes or uses.
StartUpTypeOK ==
  /\ posted \in 0..Len(Posts)
  /\ tasks \in [Threads -> Seq(TaskNames)]
  /\ \A c \in Clients : tasks[c] \in Seq(ClientTasks)
  /\ tasks["main"] \in Seq(MainTasks)
  /\ tasks["host_io"] \in Seq(HostTasks)
  /\ tasks["gpu_main"] \in Seq(GpuMainTasks)
  /\ server_channel_ \in BOOLEAN /\ client_channel_ \in BOOLEAN
  /\ viz_main_ \in BOOLEAN /\ gpu_host_ \in BOOLEAN
  /\ request \in {"none", "sent", "delivered", "bound"}
  /\ establish \in {"none", "asked", "answered"}
  /\ gpu_channel_host_ \in {"unset", "null", "made"}
  /\ bound \subseteq Clients /\ provided \subseteq Clients

\* Nothing is used before it is made, though no lock, event or test guards it:
\* server_channel_ by InitVizHost; viz_main_ by the VizMain request, whichever of
\* InitIPCClient and InitVizMain ran first (two posts of the main thread, one of the
\* host's and one of the GPU's I/O thread decide it); the clients by the context
\* provider, which is posted to threads that may not have run Bind.  Every variable
\* keeps to its range.
UsedAfterMade ==
  /\ StartUpTypeOK
  /\ Running("host_io", "InitVizHost") => server_channel_
  /\ Running("gpu_main", "OnAssociatedInterfaceRequest") => viz_main_
  /\ \A c \in Clients : Running(c, "SetContextProvider") => c \in bound

\* Start-up completes: both clients come to have their context provider, unless no
\* GPU channel could be made.  Then the provider is made and handed out all the same,
\* and each client stops at the DCHECK of SetContextProvider.
ClientsAreProvided == <>(provided = Clients \/ gpu_channel_host_ = "null")
===============================================================================
