----------------------------- MODULE VizGuiGpuProofs -----------------------------
(***************************************************************************)
(* demo_viz_gui_gpu binds VizMain only when it is made, and every frame    *)
(* embeds the child, for any number of BeginFrames: IndInv is an inductive *)
(* invariant of Spec.                                                      *)
(***************************************************************************)
EXTENDS VizGuiGpu, FrameSinkProofs, SequenceTheorems

\* Queues of one and two tasks.
LEMMA ShortQueues ==
  ASSUME NEW a, NEW b
  PROVE  /\ <<a>> # <<>> /\ Head(<<a>>) = a /\ Tail(<<a>>) = <<>>
         /\ <<a, b>> # <<>> /\ Head(<<a, b>>) = a /\ Tail(<<a, b>>) = <<b>>
         /\ Append(<<>>, a) = <<a>> /\ Append(<<a>>, b) = <<a, b>>
<1>1. <<a>> # <<>> /\ Head(<<a>>) = a
  OBVIOUS
<1>2. Tail(<<a>>) = <<>>
  OBVIOUS
<1>3. <<a, b>> # <<>> /\ Head(<<a, b>>) = a
  OBVIOUS
<1>4. Tail(<<a, b>>) = <<b>>
  OBVIOUS
<1>5. Append(<<>>, a) = <<a>>
  OBVIOUS
<1>6. Append(<<a>>, b) = <<a, b>>
  <2>1. <<a>> \in Seq({a, b}) /\ <<a, b>> \in Seq({a, b}) /\ b \in {a, b}
    OBVIOUS
  <2>2. Len(<<a>>) = 1 /\ Len(<<a, b>>) = 2
    OBVIOUS
  <2>3. /\ Append(<<a>>, b) \in Seq({a, b}) /\ Len(Append(<<a>>, b)) = 2
        /\ Append(<<a>>, b)[1] = a /\ Append(<<a>>, b)[2] = b
    BY <2>1, <2>2
  <2>4. \A i \in 1..2 : Append(<<a>>, b)[i] = <<a, b>>[i]
    BY <2>3
  <2> QED BY <2>1, <2>2, <2>3, <2>4, SeqEqual
<1> QED BY <1>1, <1>2, <1>3, <1>4, <1>5, <1>6

-----------------------------------------------------------------------------
(***************************************************************************)
(* The start-up: what is left in the queues of the two threads.            *)
(***************************************************************************)
QueueInv == GpuQueue /\ MainQueue

\* What stands at the head of the GPU's queue, and what comes after it.
LEMMA GpuHead ==
  ASSUME GpuQueue, gpuTasks # <<>>
  PROVE  \/ /\ Head(gpuTasks) = "InitIPCClient" /\ Tail(gpuTasks) = <<>>
            /\ stage = "viz main" /\ ~client_channel_ /\ ~viz_main_ /\ request = "none"
         \/ /\ Head(gpuTasks) = "InitIPCClient" /\ Tail(gpuTasks) = <<"InitVizMain">>
            /\ stage = "loop" /\ ~client_channel_ /\ ~viz_main_
            /\ request \in {"none", "sent"}
         \/ /\ Head(gpuTasks) = "InitVizMain" /\ Tail(gpuTasks) = <<>>
            /\ stage = "loop" /\ client_channel_ /\ ~viz_main_
            /\ request \in {"none", "sent"}
         \/ /\ Head(gpuTasks) = "InitVizMain"
            /\ Tail(gpuTasks) = <<"OnAssociatedInterfaceRequest">>
            /\ stage = "loop" /\ client_channel_ /\ ~viz_main_ /\ request = "delivered"
         \/ /\ Head(gpuTasks) \in {"OnAssociatedInterfaceRequest", "Bind"}
            /\ Tail(gpuTasks) = <<>>
            /\ stage = "loop" /\ client_channel_ /\ viz_main_ /\ request = "delivered"
<1>1. CASE stage \notin {"viz main", "loop"}
  BY <1>1 DEF GpuQueue
<1>2. CASE stage = "viz main"
  <2>1. /\ ~client_channel_ /\ ~viz_main_ /\ request = "none"
        /\ gpuTasks = <<"InitIPCClient">>
    BY <1>2 DEF GpuQueue
  <2> QED BY <1>2, <2>1, ShortQueues
<1>3. CASE stage = "loop" /\ ~client_channel_
  <2>1. /\ ~viz_main_ /\ request \in {"none", "sent"}
        /\ gpuTasks = <<"InitIPCClient", "InitVizMain">>
    BY <1>3 DEF GpuQueue
  <2> QED BY <1>3, <2>1, ShortQueues
<1>4. CASE stage = "loop" /\ client_channel_ /\ ~viz_main_
  <2>1. \/ gpuTasks = <<"InitVizMain">> /\ request \in {"none", "sent"}
        \/ /\ gpuTasks = <<"InitVizMain", "OnAssociatedInterfaceRequest">>
           /\ request = "delivered"
    BY <1>4 DEF GpuQueue
  <2>2. CASE gpuTasks = <<"InitVizMain">> /\ request \in {"none", "sent"}
    BY <1>4, <2>2, ShortQueues
  <2>3. CASE gpuTasks = <<"InitVizMain", "OnAssociatedInterfaceRequest">>
    BY <1>4, <2>1, <2>3, ShortQueues
  <2> QED BY <2>1, <2>2, <2>3
<1>5. CASE stage = "loop" /\ client_channel_ /\ viz_main_
  <2>1. /\ gpuTasks \in {<<"OnAssociatedInterfaceRequest">>, <<"Bind">>}
        /\ request = "delivered"
    BY <1>5 DEF GpuQueue
  <2>2. CASE gpuTasks = <<"OnAssociatedInterfaceRequest">>
    BY <1>5, <2>1, <2>2, ShortQueues
  <2>3. CASE gpuTasks = <<"Bind">>
    BY <1>5, <2>1, <2>3, ShortQueues
  <2> QED BY <2>1, <2>2, <2>3
<1> QED BY <1>1, <1>2, <1>3, <1>4, <1>5

\* A task of the main thread's loop runs alone; only InitVizHost runs before the
\* VizMain request is sent, and the others after it is bound.
LEMMA MainHead ==
  ASSUME QueueInv, stage = "loop", mainTasks # <<>>
  PROVE  /\ Tail(mainTasks) = <<>>
         /\ \/ Head(mainTasks) = "InitVizHost" /\ request = "none" /\ establish = "none"
            \/ /\ Head(mainTasks) \in {"OnEstablishedOnIO", "OnEstablishedOnMain"}
               /\ request = "bound" /\ establish # "asked"
BY ShortQueues DEF QueueInv, MainQueue

\* The steps of the two threads that only pass tasks on.
LEMMA QueueStep ==
  ASSUME QueueInv, MainThread \/ Gpu
  PROVE  QueueInv'
<1> USE DEF QueueInv
<1>1. CASE \E c \in Clients : Bind(c)
  <2>1. /\ stage \in {"bind root", "bind child"} /\ stage' \in {"embed", "server"}
        /\ UNCHANGED <<mainTasks, gpuTasks, gpuVars, hostVars>>
    BY <1>1 DEF Bind, Clients
  <2> QED BY <2>1 DEF GpuQueue, MainQueue, gpuVars, hostVars
<1>2. CASE EmbedChild \/ EmbedChildReturns
  <2>1. /\ stage \in {"embed", "embedding"} /\ stage' \in {"embedding", "bind child"}
        /\ UNCHANGED <<mainTasks, gpuTasks, gpuVars, hostVars>>
    BY <1>2 DEF EmbedChild, EmbedChildReturns
  <2> QED BY <2>1 DEF GpuQueue, MainQueue, gpuVars, hostVars
<1>3. CASE InitIPCServer
  <2>1. gpuTasks' = <<"InitIPCClient">> /\ stage = "server" /\ stage' = "viz main"
    BY <1>3, ShortQueues DEF InitIPCServer, GpuQueue
  <2> QED BY <1>3, <2>1 DEF InitIPCServer, GpuQueue, MainQueue, gpuVars, hostVars
<1>4. CASE PostInits
  <2>1. /\ stage = "viz main" /\ stage' = "loop" /\ request = "none" /\ ~viz_main_
        /\ mainTasks' = <<"InitVizHost">>
        /\ gpuTasks' = IF client_channel_ THEN <<"InitVizMain">>
                       ELSE <<"InitIPCClient", "InitVizMain">>
    BY <1>4, ShortQueues DEF PostInits, GpuQueue, MainQueue
  <2> QED BY <1>4, <2>1 DEF PostInits, GpuQueue, MainQueue, gpuVars, hostVars
<1>5. CASE InitVizHost
  <2>0. mainTasks # <<>> /\ Head(mainTasks) = "InitVizHost" /\ stage = "loop"
    BY <1>5 DEF InitVizHost, OnMain
  <2>1. /\ stage = "loop" /\ request = "none" /\ mainTasks' = <<>>
        /\ request' = "sent" /\ establish' = "asked" /\ gpu_channel_host_ = "unset"
        /\ UNCHANGED <<stage, gpuTasks, gpuVars, gpu_channel_host_>>
    BY <1>5, <2>0, MainHead DEF InitVizHost, MainQueue
  <2> QED BY <2>1 DEF GpuQueue, MainQueue, gpuVars
<1>6. CASE OnEstablishedOnIO
  <2>0. mainTasks # <<>> /\ Head(mainTasks) = "OnEstablishedOnIO" /\ stage = "loop"
    BY <1>6 DEF OnEstablishedOnIO, OnMain
  <2>1. /\ stage = "loop" /\ request = "bound" /\ mainTasks' = <<"OnEstablishedOnMain">>
        /\ establish # "asked"
        /\ UNCHANGED <<stage, gpuTasks, gpuVars, request, establish>>
    BY <1>6, <2>0, MainHead, ShortQueues DEF OnEstablishedOnIO
  <2> QED BY <2>1 DEF GpuQueue, MainQueue, gpuVars
<1>7. CASE OnEstablishedOnMain
  <2>0. mainTasks # <<>> /\ Head(mainTasks) = "OnEstablishedOnMain" /\ stage = "loop"
    BY <1>7 DEF OnEstablishedOnMain, OnMain
  <2>1. /\ stage = "loop" /\ request = "bound" /\ mainTasks' = <<>>
        /\ UNCHANGED <<stage, gpuTasks, gpuVars, hostVars>>
    BY <1>7, <2>0, MainHead DEF OnEstablishedOnMain
  <2> QED BY <2>1 DEF GpuQueue, MainQueue, gpuVars, hostVars
<1>8. CASE InitIPCClient
  <2>0. gpuTasks # <<>> /\ Head(gpuTasks) = "InitIPCClient"
    BY <1>8 DEF InitIPCClient, OnGpuMain
  <2>1. /\ gpuTasks' = Tail(gpuTasks) /\ client_channel_' /\ ~viz_main_'
        /\ \/ Tail(gpuTasks) = <<>> /\ stage = "viz main" /\ request = "none"
           \/ /\ Tail(gpuTasks) = <<"InitVizMain">> /\ stage = "loop"
              /\ request \in {"none", "sent"}
        /\ UNCHANGED <<stage, mainTasks, hostVars>>
    BY <1>8, <2>0, GpuHead DEF InitIPCClient
  <2> QED BY <2>1 DEF GpuQueue, MainQueue, hostVars
<1>9. CASE InitVizMain
  <2>0. gpuTasks # <<>> /\ Head(gpuTasks) = "InitVizMain"
    BY <1>9 DEF InitVizMain, OnGpuMain
  <2>1. /\ gpuTasks' = Tail(gpuTasks) /\ client_channel_ /\ viz_main_' /\ stage = "loop"
        /\ \/ Tail(gpuTasks) = <<>> /\ request \in {"none", "sent"}
           \/ Tail(gpuTasks) = <<"OnAssociatedInterfaceRequest">> /\ request = "delivered"
        /\ UNCHANGED <<stage, mainTasks, client_channel_, hostVars>>
    BY <1>9, <2>0, GpuHead DEF InitVizMain
  <2> QED BY <2>1 DEF GpuQueue, MainQueue, hostVars
<1>10. CASE DeliverRequest
  <2>1. /\ client_channel_ /\ stage = "loop" /\ request' = "delivered"
        /\ gpuTasks' = IF viz_main_ THEN <<"OnAssociatedInterfaceRequest">>
                       ELSE <<"InitVizMain", "OnAssociatedInterfaceRequest">>
        /\ request = "sent" /\ mainTasks = <<>> /\ establish = "asked"
        /\ gpu_channel_host_ = "unset"
        /\ UNCHANGED <<stage, mainTasks, gpuVars, establish, gpu_channel_host_>>
    BY <1>10, ShortQueues DEF DeliverRequest, GpuQueue, MainQueue
  <2> QED BY <2>1 DEF GpuQueue, MainQueue, gpuVars
<1>11. CASE OnAssociatedInterfaceRequest
  <2>0. gpuTasks # <<>> /\ Head(gpuTasks) = "OnAssociatedInterfaceRequest"
    BY <1>11 DEF OnAssociatedInterfaceRequest, OnGpuMain
  <2>1. /\ client_channel_ /\ viz_main_ /\ stage = "loop" /\ request = "delivered"
        /\ Tail(gpuTasks) = <<>>
    BY <1>11, <2>0, GpuHead DEF OnAssociatedInterfaceRequest
  <2>2. gpuTasks' = <<"Bind">>
    BY <1>11, <2>1, ShortQueues DEF OnAssociatedInterfaceRequest
  <2>3. UNCHANGED <<stage, mainTasks, gpuVars, hostVars>>
    BY <1>11 DEF OnAssociatedInterfaceRequest
  <2> QED BY <2>1, <2>2, <2>3 DEF GpuQueue, MainQueue, gpuVars, hostVars
<1>12. CASE BindVizMain
  <2>0. gpuTasks # <<>> /\ Head(gpuTasks) = "Bind"
    BY <1>12 DEF BindVizMain, OnGpuMain
  <2>1. /\ client_channel_ /\ viz_main_ /\ stage = "loop" /\ request = "delivered"
        /\ gpuTasks' = <<>> /\ request' = "bound"
        /\ UNCHANGED <<stage, mainTasks, gpuVars, establish, gpu_channel_host_>>
    BY <1>12, <2>0, GpuHead DEF BindVizMain
  <2> QED BY <2>1 DEF GpuQueue, MainQueue, gpuVars
<1>13. CASE EstablishGpuChannelReply
  <2>1. /\ request = "bound" /\ establish' = "answered" /\ stage = "loop"
        /\ mainTasks' = <<"OnEstablishedOnIO">>
        /\ UNCHANGED <<stage, gpuTasks, gpuVars, request, gpu_channel_host_>>
    BY <1>13, ShortQueues DEF EstablishGpuChannelReply, GpuQueue, MainQueue
  <2> QED BY <2>1 DEF GpuQueue, MainQueue, gpuVars
<1> QED
  BY <1>1, <1>2, <1>3, <1>4, <1>5, <1>6, <1>7, <1>8, <1>9, <1>10, <1>11, <1>12, <1>13
  DEF MainThread, Gpu

-----------------------------------------------------------------------------
(***************************************************************************)
(* The parts of IndInv in terms of a queue, a pipe and a surface.          *)
(***************************************************************************)
\* Every element of a queue has the operation o.
Only(q, o) == \A i \in 1..Len(q) : q[i].op = o

LEMMA OnlyOpAppend ==
  ASSUME NEW S, NEW q \in Seq(S), NEW e \in S, NEW o, Only(q, o), e.op = o
  PROVE  Only(Append(q, e), o)
<1>1. /\ Len(q) \in Nat /\ Len(Append(q, e)) = Len(q) + 1 /\ Append(q, e)[Len(q) + 1] = e
      /\ \A i \in 1..Len(q) : Append(q, e)[i] = q[i]
  BY AppendElements
<1> SUFFICES ASSUME NEW i \in 1..Len(Append(q, e)) PROVE Append(q, e)[i].op = o
  BY DEF Only
<1>2. i \in 1..Len(q) \/ i = Len(q) + 1
  BY <1>1
<1> QED BY <1>1, <1>2 DEF Only

LEMMA OnlyOpTail ==
  ASSUME NEW S, NEW q \in Seq(S), q # <<>>, NEW o, Only(q, o)
  PROVE  Only(Tail(q), o) /\ Head(q).op = o
<1>1. /\ Len(q) \in Nat \ {0} /\ Len(Tail(q)) = Len(q) - 1 /\ Head(q) = q[1]
      /\ \A i \in 1..Len(Tail(q)) : Tail(q)[i] = q[i + 1]
  BY TailElements
<1>2. Head(q).op = o
  BY <1>1 DEF Only
<1>3. ASSUME NEW i \in 1..Len(Tail(q)) PROVE Tail(q)[i].op = o
  <2>1. i + 1 \in 1..Len(q)
    BY <1>1
  <2> QED BY <1>1, <2>1 DEF Only
<1> QED BY <1>2, <1>3 DEF Only

\* Every frame in a pipe embeds the surface s.
Embeds(p, s) ==
  \A i \in 1..Len(p) :
    p[i].op = "SubmitCompositorFrame" => s # 0 /\ p[i].content = s + 1

LEMMA EmbedsMessage ==
  ASSUME NEW p \in Seq(MessageType), NEW m \in MessageType, NEW s, Embeds(p, s),
         m.op = "SubmitCompositorFrame" => s # 0 /\ m.content = s + 1
  PROVE  Embeds(Append(p, m), s)
<1>1. /\ Len(p) \in Nat /\ Len(Append(p, m)) = Len(p) + 1 /\ Append(p, m)[Len(p) + 1] = m
      /\ \A i \in 1..Len(p) : Append(p, m)[i] = p[i]
  BY AppendElements
<1> SUFFICES ASSUME NEW i \in 1..Len(Append(p, m)),
                    Append(p, m)[i].op = "SubmitCompositorFrame"
             PROVE  s # 0 /\ Append(p, m)[i].content = s + 1
  BY DEF Embeds
<1>2. i \in 1..Len(p) \/ i = Len(p) + 1
  BY <1>1
<1> QED BY <1>1, <1>2 DEF Embeds

LEMMA EmbedsRest ==
  ASSUME NEW p \in Seq(MessageType), NEW s, p # <<>>, Embeds(p, s)
  PROVE  Embeds(Tail(p), s)
<1>1. /\ Len(p) \in Nat \ {0} /\ Len(Tail(p)) = Len(p) - 1
      /\ \A i \in 1..Len(Tail(p)) : Tail(p)[i] = p[i + 1]
  BY TailElements
<1>2. \A i \in 1..Len(Tail(p)) : i + 1 \in 1..Len(p)
  BY <1>1
<1> QED BY <1>1, <1>2 DEF Embeds

\* TypeOK without the pipe's two ends and the two queues.
StartTypes ==
  /\ role \in Clients /\ stage \in Stages
  /\ lock_ \in {"free", "main"}
  /\ child_frame_sink_id \in BOOLEAN /\ allocated \in Nat /\ child_surface \in Nat
  /\ client_channel_ \in BOOLEAN /\ viz_main_ \in BOOLEAN
  /\ request \in {"none", "sent", "delivered", "bound"}
  /\ establish \in {"none", "asked", "answered"}
  /\ gpu_channel_host_ \in {"unset", "null", "made"}
OwnTypes ==
  /\ vsyncs \in 0..MaxVsyncs /\ bound \in BOOLEAN /\ context_provider \in BOOLEAN
  /\ request # "bound" => vsyncs = 0 /\ ~context_provider
Quiet ==
  request # "bound" =>
    /\ ~needsBeginFrame /\ ackPending = 0 /\ retired = {}
    /\ Only(queue, "BindOnThread") /\ Only(pipe, "SetNeedsBeginFrame")

Known ==
  /\ SinkInv /\ StartTypes /\ OwnTypes /\ QueueInv
  /\ Embedded /\ Quiet /\ Embeds(pipe, child_surface)

LEMMA InSeq ==
  ASSUME NEW S, NEW a \in S, NEW b \in S
  PROVE  <<>> \in Seq(S) /\ <<a>> \in Seq(S) /\ <<a, b>> \in Seq(S)
OBVIOUS

LEMMA ElementsOf ==
  ASSUME NEW S, NEW q \in Seq(S)
  PROVE  \A i \in 1..Len(q) : q[i] \in S
OBVIOUS

\* QueueInv gives the two queues their types, and there is no null to bind.
LEMMA KnownTypes ==
  ASSUME QueueInv
  PROVE  /\ mainTasks \in Seq({"InitVizHost", "OnEstablishedOnIO", "OnEstablishedOnMain"})
         /\ gpuTasks \in Seq(GpuMainTasks)
         /\ \A i \in 1..Len(gpuTasks) : gpuTasks[i] # "Bind null"
<1>1. mainTasks \in Seq({"InitVizHost", "OnEstablishedOnIO", "OnEstablishedOnMain"})
  <2>1. \/ mainTasks = <<>> \/ mainTasks = <<"InitVizHost">>
        \/ mainTasks = <<"OnEstablishedOnIO">> \/ mainTasks = <<"OnEstablishedOnMain">>
    BY DEF QueueInv, MainQueue
  <2> QED BY <2>1, InSeq
<1>2. ASSUME NEW S, {"InitIPCClient", "InitVizMain", "OnAssociatedInterfaceRequest", "Bind"}
                      \subseteq S
      PROVE  gpuTasks \in Seq(S)
  <2>1. \/ gpuTasks = <<>> \/ gpuTasks = <<"InitIPCClient">> \/ gpuTasks = <<"InitVizMain">>
        \/ gpuTasks = <<"Bind">> \/ gpuTasks = <<"OnAssociatedInterfaceRequest">>
        \/ gpuTasks = <<"InitIPCClient", "InitVizMain">>
        \/ gpuTasks = <<"InitVizMain", "OnAssociatedInterfaceRequest">>
    BY DEF QueueInv, GpuQueue
  <2>2. /\ "InitIPCClient" \in S /\ "InitVizMain" \in S /\ "Bind" \in S
        /\ "OnAssociatedInterfaceRequest" \in S
    BY <1>2
  <2> QED BY <2>1, <2>2, InSeq
<1>3. gpuTasks \in Seq(GpuMainTasks)
  BY <1>2 DEF GpuMainTasks
<1>4. gpuTasks \in Seq(GpuMainTasks \ {"Bind null"})
  <2>1. {"InitIPCClient", "InitVizMain", "OnAssociatedInterfaceRequest", "Bind"}
          \subseteq GpuMainTasks \ {"Bind null"}
    BY DEF GpuMainTasks
  <2> QED BY <1>2, <2>1
<1>5. \A i \in 1..Len(gpuTasks) : gpuTasks[i] \in GpuMainTasks \ {"Bind null"}
  BY <1>4, ElementsOf
<1> QED BY <1>1, <1>3, <1>5

LEMMA KnownIsIndInv == Known <=> IndInv
<1>1. ASSUME Known PROVE IndInv
  BY <1>1, KnownTypes DEF Known, IndInv, TypeOK, StartTypes, OwnTypes, QueueInv, Quiet,
     Only, BeforeVizMain, Embeds, FramesEmbedTheChild, SinkInv
<1>2. ASSUME IndInv PROVE Known
  BY <1>2 DEF Known, IndInv, TypeOK, StartTypes, OwnTypes, QueueInv, Quiet,
     Only, BeforeVizMain, Embeds, FramesEmbedTheChild
<1> QED BY <1>1, <1>2

LEMMA InitKnown == Init => Known
<1> SUFFICES ASSUME Init PROVE Known
  OBVIOUS
<1>1. SinkInv
  BY SinkInitInv DEF Init
<1>2. StartTypes /\ OwnTypes
  <2>1. 0 \in 0..MaxVsyncs /\ 0 \in Nat
    BY VsyncsAssumption
  <2>2. StartTypes
    BY DEF Init, StartTypes, Stages
  <2>3. OwnTypes
    BY <2>1 DEF Init, OwnTypes
  <2> QED BY <2>2, <2>3
<1>3. QueueInv /\ Embedded
  BY DEF Init, QueueInv, GpuQueue, MainQueue, Embedded
<1>4. Quiet /\ Embeds(pipe, child_surface)
  <2>1. /\ queue = <<>> /\ pipe = <<>> /\ needsBeginFrame = FALSE /\ ackPending = 0
        /\ retired = {}
    BY DEF Init, SinkInit
  <2>2. Len(<<>>) = 0 /\ 1..0 = {}
    OBVIOUS
  <2> QED BY <2>1, <2>2 DEF Quiet, Only, Embeds
<1> QED BY <1>1, <1>2, <1>3, <1>4 DEF Known

-----------------------------------------------------------------------------
(***************************************************************************)
(* The main thread and the GPU's.                                          *)
(***************************************************************************)
\* The task that a step of these threads may post to the client's, and when.
LEMMA StartPosts ==
  ASSUME Known, MainThread \/ Gpu
  PROVE  /\ UNCHANGED <<provider, pipe, remoteVars, role, vsyncs, ownVars>>
         /\ \/ UNCHANGED queue
            \/ queue' = Append(queue, Task("BindOnThread", {}))
            \/ queue' = Append(queue, Task("SetContextProvider", {})) /\ request = "bound"
<1>1. CASE \E c \in Clients : Bind(c)
  BY <1>1 DEF Bind, PostTo
<1>2. CASE OnEstablishedOnMain
  <2>1. request = "bound"
    <3>1. mainTasks # <<>> /\ Head(mainTasks) = "OnEstablishedOnMain" /\ stage = "loop"
      BY <1>2 DEF OnEstablishedOnMain, OnMain
    <3> QED BY <3>1, MainHead DEF Known
  <2> QED BY <1>2, <2>1 DEF OnEstablishedOnMain, PostTo
<1>3. CASE \/ EmbedChild \/ EmbedChildReturns \/ InitIPCServer \/ PostInits
           \/ InitVizHost \/ OnEstablishedOnIO \/ Gpu
  BY <1>3 DEF EmbedChild, EmbedChildReturns, InitIPCServer, PostInits, InitVizHost,
     OnEstablishedOnIO, Gpu, InitIPCClient, InitVizMain, DeliverRequest,
     OnAssociatedInterfaceRequest, BindVizMain, EstablishGpuChannelReply, sinkVars, remoteVars
<1> QED BY <1>1, <1>2, <1>3 DEF MainThread

\* VizMain stays bound.
LEMMA StaysBound ==
  ASSUME Known, MainThread \/ Gpu
  PROVE  request = "bound" => request' = "bound"
<1> SUFFICES ASSUME request = "bound" PROVE request' = "bound"
  OBVIOUS
<1>1. ~InitVizHost
  <2> SUFFICES ASSUME InitVizHost PROVE FALSE
    OBVIOUS
  <2>1. mainTasks # <<>> /\ Head(mainTasks) = "InitVizHost" /\ stage = "loop"
    BY DEF InitVizHost, OnMain
  <2> QED BY <2>1, MainHead DEF Known
<1>2. ~DeliverRequest
  BY DEF DeliverRequest
<1>3. CASE UNCHANGED hostVars
  BY <1>3 DEF hostVars
<1>4. CASE UNCHANGED request \/ request' = "bound"
  BY <1>4
<1> QED
  BY <1>1, <1>2, <1>3, <1>4 DEF MainThread, Gpu, Bind, EmbedChild, EmbedChildReturns,
     InitIPCServer, PostInits, OnEstablishedOnIO, OnEstablishedOnMain, InitIPCClient,
     InitVizMain, OnAssociatedInterfaceRequest, BindVizMain, EstablishGpuChannelReply

\* How far the child is embedded.
LEMMA EmbedStep ==
  ASSUME Known, MainThread \/ Gpu
  PROVE  Embedded' /\ (child_surface' = child_surface \/ request # "bound")
<1> USE DEF Known
<1>1. allocated = child_surface /\ child_surface \in Nat /\ child_surface + 1 # 0
  <2>1. allocated = child_surface
    BY DEF Embedded
  <2>2. child_surface \in Nat
    BY DEF StartTypes
  <2> QED BY <2>1, <2>2
<1>2. CASE \E c \in Clients : Bind(c)
  <2>1. /\ \/ stage = "bind root" /\ stage' = "embed"
           \/ stage = "bind child" /\ stage' = "server"
        /\ UNCHANGED <<lock_, child_frame_sink_id, allocated, child_surface>>
    BY <1>2 DEF Bind, Clients, embedVars
  <2> QED BY <2>1 DEF Embedded
<1>3. CASE EmbedChild
  <2>1. /\ stage = "embed" /\ stage' = "embedding" /\ lock_' = "main"
        /\ child_frame_sink_id' = TRUE /\ UNCHANGED <<allocated, child_surface>>
    BY <1>3 DEF EmbedChild
  <2> QED BY <2>1 DEF Embedded
<1>4. CASE EmbedChildReturns
  <2>1. /\ stage = "embedding" /\ stage' = "bind child" /\ lock_' = "free"
        /\ allocated' = allocated + 1 /\ child_surface' = allocated + 1
        /\ UNCHANGED child_frame_sink_id
    BY <1>4 DEF EmbedChildReturns
  <2>2. request # "bound"
    BY <2>1 DEF QueueInv, GpuQueue
  <2>3. child_frame_sink_id /\ child_surface' # 0 /\ allocated' = child_surface'
    BY <1>1, <2>1 DEF Embedded
  <2> QED BY <2>1, <2>2, <2>3 DEF Embedded
<1>5. CASE InitIPCServer \/ PostInits
  <2>1. /\ \/ stage = "server" /\ stage' = "viz main"
           \/ stage = "viz main" /\ stage' = "loop"
        /\ UNCHANGED <<lock_, child_frame_sink_id, allocated, child_surface>>
    BY <1>5 DEF InitIPCServer, PostInits, embedVars
  <2> QED BY <2>1 DEF Embedded
<1>6. CASE InitVizHost \/ OnEstablishedOnIO \/ OnEstablishedOnMain \/ Gpu
  <2>1. UNCHANGED <<stage, lock_, child_frame_sink_id, allocated, child_surface>>
    BY <1>6 DEF InitVizHost, OnEstablishedOnIO, OnEstablishedOnMain, Gpu, InitIPCClient,
       InitVizMain, DeliverRequest, OnAssociatedInterfaceRequest, BindVizMain,
       EstablishGpuChannelReply, embedVars
  <2> QED BY <2>1 DEF Embedded
<1> QED BY <1>2, <1>3, <1>4, <1>5, <1>6 DEF MainThread

LEMMA StartTypeStep ==
  ASSUME Known, MainThread \/ Gpu
  PROVE  StartTypes'
<1> USE DEF Known
<1>1. UNCHANGED role
  BY StartPosts
<1>2. /\ lock_' \in {"free", "main"} /\ child_frame_sink_id' \in BOOLEAN
      /\ allocated' \in Nat /\ child_surface' \in Nat
  <2>1. CASE EmbedChild
    BY <2>1 DEF EmbedChild, StartTypes
  <2>2. CASE EmbedChildReturns
    <3>1. allocated \in Nat /\ child_frame_sink_id \in BOOLEAN
      BY DEF StartTypes
    <3>2. /\ lock_' = "free" /\ allocated' = allocated + 1 /\ child_surface' = allocated + 1
          /\ UNCHANGED child_frame_sink_id
      BY <2>2 DEF EmbedChildReturns
    <3>3. allocated + 1 \in Nat
      BY <3>1
    <3> HIDE <2>2
    <3> QED BY <3>1, <3>2, <3>3
  <2>3. CASE UNCHANGED embedVars
    BY <2>3 DEF embedVars, StartTypes
  <2> QED
    BY <2>1, <2>2, <2>3 DEF MainThread, Gpu, Bind, InitIPCServer, PostInits, InitVizHost,
       OnEstablishedOnIO, OnEstablishedOnMain, InitIPCClient, InitVizMain, DeliverRequest,
       OnAssociatedInterfaceRequest, BindVizMain, EstablishGpuChannelReply
<1>3. stage' \in Stages
  BY DEF MainThread, Gpu, Bind, EmbedChild, EmbedChildReturns, InitIPCServer, PostInits,
     InitVizHost, OnEstablishedOnIO, OnEstablishedOnMain, InitIPCClient, InitVizMain,
     DeliverRequest, OnAssociatedInterfaceRequest, BindVizMain, EstablishGpuChannelReply,
     StartTypes, Stages
<1>4. client_channel_' \in BOOLEAN /\ viz_main_' \in BOOLEAN
  <2>1. CASE UNCHANGED gpuVars
    BY <2>1 DEF gpuVars, StartTypes
  <2>2. CASE InitIPCClient \/ InitVizMain
    BY <2>2 DEF InitIPCClient, InitVizMain, StartTypes
  <2> QED
    BY <2>1, <2>2 DEF MainThread, Gpu, Bind, EmbedChild, EmbedChildReturns, InitIPCServer,
       PostInits, InitVizHost, OnEstablishedOnIO, OnEstablishedOnMain, DeliverRequest,
       OnAssociatedInterfaceRequest, BindVizMain, EstablishGpuChannelReply
<1>5. /\ request' \in {"none", "sent", "delivered", "bound"}
      /\ establish' \in {"none", "asked", "answered"}
      /\ gpu_channel_host_' \in {"unset", "null", "made"}
  <2>1. CASE UNCHANGED hostVars
    BY <2>1 DEF hostVars, StartTypes
  <2>2. CASE \/ InitVizHost \/ OnEstablishedOnIO \/ DeliverRequest \/ BindVizMain
             \/ EstablishGpuChannelReply
    BY <2>2 DEF InitVizHost, OnEstablishedOnIO, DeliverRequest, BindVizMain,
       EstablishGpuChannelReply, StartTypes
  <2> QED
    BY <2>1, <2>2 DEF MainThread, Gpu, Bind, EmbedChild, EmbedChildReturns, InitIPCServer,
       PostInits, OnEstablishedOnMain, InitIPCClient, InitVizMain,
       OnAssociatedInterfaceRequest
<1> QED BY <1>1, <1>2, <1>3, <1>4, <1>5 DEF StartTypes

LEMMA StartStep ==
  ASSUME Known, MainThread \/ Gpu
  PROVE  Known' /\ PromiseKept
<1> USE DEF Known
<1>1. UNCHANGED <<provider, pipe, needsBeginFrame, bitmaps, active, shown, retired, held,
                  ackPending, vsyncs, bound, context_provider>>
  BY StartPosts DEF remoteVars, ownVars
<1>2. SinkInv' /\ InUse' = InUse
  <2>1. "BindOnThread" \in TaskOps /\ "SetContextProvider" \in TaskOps
    BY DEF TaskOps
  <2>2. CASE UNCHANGED queue
    BY <1>1, <2>2, StutterInv DEF sinkVars
  <2>3. ASSUME NEW op \in TaskOps, queue' = Append(queue, Task(op, {}))
        PROVE  SinkInv' /\ InUse' = InUse
    BY <1>1, <2>3, PostInv
  <2> QED BY <2>1, <2>2, <2>3, StartPosts
<1>3. OwnTypes'
  BY <1>1, StaysBound DEF OwnTypes
<1>4. Quiet'
  <2> SUFFICES ASSUME request' # "bound" PROVE Quiet'
    BY DEF Quiet
  <2>1. request # "bound"
    BY StaysBound
  <2>2. UNCHANGED queue \/ queue' = Append(queue, Task("BindOnThread", {}))
    BY <2>1, StartPosts
  <2>3. queue \in Seq(TaskType)
    BY DEF SinkInv, SinkTypeOK
  <2>4. Task("BindOnThread", {}) \in TaskType /\ Task("BindOnThread", {}).op = "BindOnThread"
    BY TaskTyped DEF TaskOps
  <2>5. Only(queue', "BindOnThread")
    BY <2>1, <2>2, <2>3, <2>4, OnlyOpAppend DEF Quiet
  <2> QED BY <1>1, <2>1, <2>5 DEF Quiet, Only
<1>5. Embeds(pipe', child_surface')
  <2>1. CASE child_surface' = child_surface
    BY <1>1, <2>1
  <2>2. CASE request # "bound"
    BY <1>1, <2>2 DEF Quiet, Only, Embeds
  <2> QED BY <2>1, <2>2, EmbedStep
<1>6. QueueInv' /\ Embedded' /\ StartTypes'
  BY QueueStep, EmbedStep, StartTypeStep
<1>7. PromiseKept
  BY <1>1, <1>2, NothingLent
<1> QED BY <1>2, <1>3, <1>4, <1>5, <1>6, <1>7

-----------------------------------------------------------------------------
(***************************************************************************)
(* The client's thread and the service.                                    *)
(***************************************************************************)
\* A step of theirs leaves the start-up as it is.
LEMMA StartKept ==
  ASSUME Known, UNCHANGED <<startVars, role>>
  PROVE  /\ StartTypes' /\ QueueInv' /\ Embedded'
         /\ child_surface' = child_surface /\ request' = request
<1>1. UNCHANGED <<stage, mainTasks, gpuTasks, lock_, child_frame_sink_id, allocated,
                  child_surface, client_channel_, viz_main_, request, establish,
                  gpu_channel_host_, role>>
  BY DEF startVars, embedVars, gpuVars, hostVars
<1>2. StartTypes'
  BY <1>1 DEF Known, StartTypes
<1>3. Embedded'
  BY <1>1 DEF Known, Embedded
<1>4. GpuQueue'
  BY <1>1 DEF Known, QueueInv, GpuQueue
<1>5. MainQueue'
  BY <1>1 DEF Known, QueueInv, MainQueue
<1> QED BY <1>1, <1>2, <1>3, <1>4, <1>5 DEF QueueInv

\* The client runs no task but BindOnThread before VizMain is bound.
LEMMA FirstTask ==
  ASSUME Known, queue # <<>>, Head(queue).op # "BindOnThread"
  PROVE  request = "bound"
<1>1. queue \in Seq(TaskType)
  BY DEF Known, SinkInv, SinkTypeOK
<1> SUFFICES ASSUME request # "bound" PROVE FALSE
  OBVIOUS
<1>2. Only(queue, "BindOnThread")
  BY DEF Known, Quiet
<1> QED BY <1>1, <1>2, OnlyOpTail

LEMMA BindStep ==
  ASSUME Known, BindOnThread
  PROVE  Known' /\ PromiseKept
<1>1. /\ queue # <<>> /\ Head(queue).op = "BindOnThread" /\ queue' = Tail(queue)
      /\ bound' = TRUE /\ pipe' = Append(pipe, Call("SetNeedsBeginFrame"))
      /\ UNCHANGED <<provider, needsBeginFrame, bitmaps, active, shown, retired, held,
                     ackPending, startVars, role, vsyncs, context_provider>>
  BY DEF BindOnThread, Is, remoteVars
<1>2. /\ StartTypes' /\ QueueInv' /\ Embedded'
      /\ child_surface' = child_surface /\ request' = request
  BY <1>1, StartKept
<1>3. /\ SinkInv /\ queue \in Seq(TaskType) /\ pipe \in Seq(MessageType)
      /\ Embeds(pipe, child_surface)
  BY DEF Known, SinkInv, SinkTypeOK
<1> DEFINE m == Call("SetNeedsBeginFrame")
<1>4. m \in MessageType /\ m.op = "SetNeedsBeginFrame"
  BY DEF Call, MessageType, MessageOps
<1>5. SinkInv' /\ InUse' = InUse
  <2>1. "SetNeedsBeginFrame" \in MessageOps /\ Head(queue).op \notin Returns
    BY <1>1 DEF MessageOps, Returns
  <2> QED BY <1>1, <1>3, <2>1, CallInv
<1> HIDE DEF m
<1>6. pipe' = Append(pipe, m)
  BY <1>1 DEF m
<1>7. Embeds(pipe', child_surface')
  BY <1>2, <1>3, <1>4, <1>6, EmbedsMessage
<1>8. Quiet'
  <2> SUFFICES ASSUME request # "bound" PROVE Quiet'
    BY <1>2 DEF Quiet
  <2>1. /\ ~needsBeginFrame /\ ackPending = 0 /\ retired = {}
        /\ Only(queue, "BindOnThread") /\ Only(pipe, "SetNeedsBeginFrame")
    BY DEF Known, Quiet
  <2>2. Only(queue', "BindOnThread")
    BY <1>1, <1>3, <2>1, OnlyOpTail
  <2>3. Only(pipe', "SetNeedsBeginFrame")
    BY <1>3, <1>4, <1>6, <2>1, OnlyOpAppend
  <2> QED BY <1>1, <2>1, <2>2, <2>3 DEF Quiet, Only
<1>9. OwnTypes'
  BY <1>1, <1>2 DEF Known, OwnTypes
<1>10. PromiseKept
  BY <1>1, <1>5, NothingLent
<1> QED BY <1>2, <1>5, <1>7, <1>8, <1>9, <1>10 DEF Known

LEMMA ProviderStep ==
  ASSUME Known, SetContextProvider
  PROVE  Known' /\ PromiseKept
<1>1. /\ queue # <<>> /\ Head(queue).op = "SetContextProvider" /\ queue' = Tail(queue)
      /\ context_provider' = TRUE
      /\ UNCHANGED <<provider, pipe, needsBeginFrame, bitmaps, active, shown, retired, held,
                     ackPending, startVars, role, vsyncs, bound>>
  BY DEF SetContextProvider, Is, remoteVars
<1>2. /\ StartTypes' /\ QueueInv' /\ Embedded'
      /\ child_surface' = child_surface /\ request' = request
  BY <1>1, StartKept
<1>3. request = "bound"
  BY <1>1, FirstTask
<1>4. SinkInv' /\ InUse' = InUse
  <2>1. Head(queue).op \notin Returns /\ SinkInv
    BY <1>1 DEF Returns, Known
  <2> QED BY <1>1, <2>1, RunInv
<1>5. OwnTypes' /\ Quiet' /\ Embeds(pipe', child_surface')
  BY <1>1, <1>2, <1>3 DEF Known, OwnTypes, Quiet, Embeds
<1>6. PromiseKept
  BY <1>1, <1>4, NothingLent
<1> QED BY <1>2, <1>4, <1>5, <1>6 DEF Known

\* What a frame embeds: no frame is made before the child is embedded.
LEMMA SurfaceIsTheChild ==
  ASSUME Known, request = "bound"
  PROVE  child_surface \in Nat /\ child_surface # 0 /\ Surface = child_surface + 1
<1>1. stage = "loop"
  BY DEF Known, QueueInv, GpuQueue
<1>2. child_surface # 0 /\ child_frame_sink_id /\ allocated = child_surface
  BY <1>1 DEF Known, Embedded
<1>3. child_surface \in Nat /\ role \in Clients
  BY DEF Known, StartTypes
<1> QED BY <1>2, <1>3 DEF Surface, Clients

LEMMA FrameStep ==
  ASSUME Known, OnBeginFrame
  PROVE  Known' /\ PromiseKept
<1> DEFINE n == provider.next
           m == Frame(FrameResources, {}, Surface)
<1>1. /\ queue # <<>> /\ Head(queue).op = "OnBeginFrame" /\ queue' = Tail(queue)
      /\ provider' = CreateFrame(provider) /\ pipe' = Append(pipe, m)
      /\ UNCHANGED <<needsBeginFrame, bitmaps, active, shown, retired, held, ackPending,
                     startVars, role, vsyncs, bound, context_provider>>
  BY DEF OnBeginFrame, Is, remoteVars, ownVars
<1>2. /\ StartTypes' /\ QueueInv' /\ Embedded'
      /\ child_surface' = child_surface /\ request' = request
  BY <1>1, StartKept
<1>3. request = "bound"
  BY <1>1, FirstTask
<1>4. child_surface # 0 /\ Surface = child_surface + 1 /\ Surface \in Nat
  BY <1>3, SurfaceIsTheChild
<1>5. /\ SinkInv /\ provider \in ProviderType /\ n \in Nat /\ pipe \in Seq(MessageType)
      /\ Disjoint(pipe) /\ Embeds(pipe, child_surface)
      /\ \A i \in 1..Len(pipe) : pipe[i].res # {} => pipe[i].op = "SubmitCompositorFrame"
  BY DEF Known, SinkInv, SinkTypeOK, Conservation, OnePlace, ProviderType, OnlyFramesCarry
<1>6. FrameResources \in SUBSET Nat
  BY <1>5 DEF FrameResources
<1>7. /\ provider' \in ProviderType
      /\ provider'.imported = provider.imported \cup FrameResources
      /\ provider'.exported = provider.exported \cup FrameResources
      /\ provider'.marked = provider.marked /\ provider'.released = provider.released
      /\ provider'.next >= n /\ \A x \in FrameResources : n <= x /\ x < provider'.next
  <2>1. CASE ~context_provider
    <3>1. FrameResources = {} /\ provider' = provider
      BY <1>1, <2>1 DEF FrameResources, CreateFrame
    <3> QED BY <1>5, <3>1
  <2>2. CASE context_provider
    <3>1. FrameResources = {n, n + 1}
      BY <2>2 DEF FrameResources
    <3>2. /\ provider' = [next |-> n + 2, imported |-> provider.imported \cup {n, n + 1},
                          exported |-> provider.exported \cup {n, n + 1},
                          marked |-> provider.marked, released |-> provider.released]
          /\ provider' \in ProviderType
      <4>1. provider' = PrepareSendToParent(ImportResource(ImportResource(provider)),
                                            {n, n + 1})
        BY <1>1, <2>2, <3>1 DEF CreateFrame, CreateResource
      <4> QED BY <1>5, <4>1, TwoResult
    <3>3. provider'.next = n + 2 /\ n + 2 \in Nat /\ n + 2 >= n
      BY <1>5, <3>2
    <3>4. \A x \in {n, n + 1} : n <= x /\ x < n + 2
      BY <1>5
    <3> HIDE DEF n
    <3> QED BY <3>1, <3>2, <3>3, <3>4
  <2> QED BY <2>1, <2>2
<1>8. /\ SinkInv' /\ InUse' = InUse \cup FrameResources
      /\ FrameResources \cap (provider.imported \cup provider.released) = {}
  <2>1. Head(queue).op \notin Returns /\ {} \in SUBSET Nat
    BY <1>1 DEF Returns
  <2>2. /\ provider'.next >= provider.next
        /\ \A x \in FrameResources : provider.next <= x /\ x < provider'.next
    BY <1>7
  <2> QED BY <1>1, <1>4, <1>5, <1>6, <1>7, <2>1, <2>2, FrameInv
<1>9. Embeds(pipe', child_surface')
  <2>1. m \in MessageType /\ m.content = child_surface + 1
    BY <1>4, <1>6 DEF Frame, MessageType, MessageOps
  <2> HIDE DEF m
  <2> QED BY <1>1, <1>2, <1>4, <1>5, <2>1, EmbedsMessage
<1>10. OwnTypes' /\ Quiet'
  BY <1>1, <1>2, <1>3 DEF Known, OwnTypes, Quiet
<1>11. PromiseKept
  BY <1>7, <1>8, FrameLends
<1> QED BY <1>2, <1>8, <1>9, <1>10, <1>11 DEF Known

LEMMA TakeBackStep ==
  ASSUME Known, DidReceiveCompositorFrameAck \/ ReclaimResources
  PROVE  Known' /\ PromiseKept
<1>1. /\ queue # <<>> /\ Head(queue).op # "BindOnThread" /\ queue' = Tail(queue)
      /\ provider' = RemoveImportedResources(
                       ReceiveReturnsFromParent(provider, Head(queue).res),
                       Head(queue).res)
      /\ UNCHANGED <<pipe, needsBeginFrame, bitmaps, active, shown, retired, held,
                     ackPending, startVars, role, vsyncs, bound, context_provider>>
  BY DEF DidReceiveCompositorFrameAck, ReclaimResources, TakeBack, Is, remoteVars, ownVars
<1>2. /\ StartTypes' /\ QueueInv' /\ Embedded'
      /\ child_surface' = child_surface /\ request' = request
  BY <1>1, StartKept
<1>3. request = "bound"
  BY <1>1, FirstTask
<1>4. /\ SinkInv' /\ InUse' = InUse
      /\ Head(queue).res \subseteq provider.imported \ InUse
      /\ provider'.released = provider.released \cup Head(queue).res
      /\ provider'.imported = provider.imported \ Head(queue).res
  BY <1>1, TakeBackInv DEF Known
<1>5. OwnTypes' /\ Quiet' /\ Embeds(pipe', child_surface')
  BY <1>1, <1>2, <1>3 DEF Known, OwnTypes, Quiet, Embeds
<1>6. PromiseKept
  BY <1>4, TakeBackFrees DEF Known
<1> QED BY <1>2, <1>4, <1>5, <1>6 DEF Known

\* The service takes part only once VizMain is bound.
LEMMA ServiceStep ==
  ASSUME Known, Vsync \/ Answer \/ Return
  PROVE  Known' /\ PromiseKept
<1>1. Service /\ UNCHANGED <<startVars, role, bound, context_provider>>
  BY DEF Vsync, Answer, Return, Service, ownVars
<1>2. /\ StartTypes' /\ QueueInv' /\ Embedded'
      /\ child_surface' = child_surface /\ request' = request
  BY <1>1, StartKept
<1>3. request = "bound"
  <2>1. CASE Vsync \/ Answer
    BY <2>1 DEF Vsync, Answer
  <2>2. CASE Return
    <3>1. retired # {}
      BY <2>2 DEF Return, ServiceHoldResources, ServiceReclaimResources
    <3> QED BY <3>1 DEF Known, Quiet
  <2> QED BY <2>1, <2>2
<1>4. SinkInv'
  BY <1>1, ServiceInv DEF Known
<1>5. vsyncs' \in 0..MaxVsyncs
  BY VsyncsAssumption DEF Known, OwnTypes, Vsync, Answer, Return
<1>6. Embeds(pipe', child_surface')
  <2>1. pipe \in Seq(MessageType) /\ Embeds(pipe, child_surface)
    BY DEF Known, SinkInv, SinkTypeOK
  <2>2. CASE UNCHANGED pipe
    BY <1>2, <2>1, <2>2
  <2>3. CASE ServiceReceive
    <3>1. pipe # <<>> /\ pipe' = Tail(pipe)
      BY <2>3 DEF ServiceReceive, ServiceSetNeedsBeginFrame, ServiceDidAllocateSharedBitmap,
                  ServiceSubmitCompositorFrame, ServiceDidNotProduceFrame, Is
    <3> QED BY <1>2, <2>1, <3>1, EmbedsRest
  <2> QED
    BY <1>1, <2>2, <2>3 DEF Service, ServiceBeginFrame, ServiceAck, ServiceHoldResources,
                            ServiceReclaimResources
<1>7. OwnTypes' /\ Quiet'
  BY <1>1, <1>2, <1>3, <1>5 DEF Known, OwnTypes, Quiet
<1>8. PromiseKept
  BY <1>1, ServicePromise DEF Known
<1> QED BY <1>2, <1>4, <1>6, <1>7, <1>8 DEF Known

\* Every step keeps the invariant and the promise of BufferOwnership.
LEMMA StepInv ==
  ASSUME Known, [Next]_vars
  PROVE  Known' /\ PromiseKept
<1>1. CASE UNCHANGED vars
  <2>1. UNCHANGED <<startVars, role>> /\ UNCHANGED sinkVars
    BY <1>1 DEF vars
  <2>2. UNCHANGED <<queue, pipe, needsBeginFrame, ackPending, retired, vsyncs, bound,
                    context_provider>>
    BY <1>1 DEF vars, sinkVars, ownVars
  <2>3. /\ StartTypes' /\ QueueInv' /\ Embedded'
        /\ child_surface' = child_surface /\ request' = request
    BY <2>1, StartKept
  <2>4. SinkInv' /\ InUse' = InUse
    BY <2>1, StutterInv DEF Known
  <2>5. OwnTypes' /\ Quiet' /\ Embeds(pipe', child_surface')
    BY <2>2, <2>3 DEF Known, OwnTypes, Quiet, Only, Embeds
  <2>6. PromiseKept
    BY <2>1, <2>4, NothingLent DEF sinkVars
  <2> QED BY <2>3, <2>4, <2>5, <2>6 DEF Known
<1> QED
  BY <1>1, StartStep, BindStep, ProviderStep, FrameStep, TakeBackStep, ServiceStep
  DEF Next, ClientThread

-----------------------------------------------------------------------------
(***************************************************************************)
(* The theorems.                                                           *)
(***************************************************************************)
\* The inductive invariant of the program: start-up, queues and resources.
THEOREM Invariance == Spec => []IndInv
<1>1. Init => Known
  BY InitKnown
<1>2. Known /\ [Next]_vars => Known'
  BY StepInv
<1>3. Known => IndInv
  BY KnownIsIndInv
<1> QED BY <1>1, <1>2, <1>3, PTL DEF Spec

\* The task that binds VizMain never holds a null pointer: InitVizMain is in the GPU
\* thread's queue before the delayed InitVizHost can ask for VizMain.
THEOREM VizMainNeverNull == Spec => []VizMainIsMade
<1>1. IndInv => VizMainIsMade
  <2> SUFFICES ASSUME IndInv PROVE VizMainIsMade
    OBVIOUS
  <2>1. TypeOK /\ QueueInv
    BY DEF IndInv, QueueInv
  <2> QED BY <2>1, KnownTypes DEF VizMainIsMade
<1> QED BY Invariance, <1>1, PTL

\* Every frame of either client shows the surface the child was given, whatever
\* InitializeDemo, the GPU's start-up and the client's thread do first.
THEOREM FramesShowTheChild == Spec => []FramesEmbedTheChild
<1>1. IndInv => FramesEmbedTheChild
  BY DEF IndInv
<1> QED BY Invariance, <1>1, PTL

\* A resource of either client is at one place only, is not destroyed while the
\* service may still read it, and is not given back twice (BeginFrame,
\* DidReceiveCompositorFrameAck, ReclaimResources).
THEOREM ResourcesAreConserved == Spec => []Conservation
<1>1. IndInv => Conservation
  BY DEF IndInv, SinkInv
<1> QED BY Invariance, <1>1, PTL

\* Either client keeps the promise of BufferOwnership: what it has lent stays lent
\* until the service gives it back, and is freed once.
THEOREM KeepsOwnership == Spec => Promise!Spec
<1>1. Init => Known /\ Promise!Init
  BY InitKnown, PromiseStarts DEF Init
<1>2. Known /\ [Next]_vars => Known' /\ [Promise!Next]_(Promise!vars)
  BY StepInv DEF PromiseKept
<1> QED BY <1>1, <1>2, PTL DEF Spec, Promise!Spec
===============================================================================
