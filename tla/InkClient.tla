------------------------------- MODULE InkClient -------------------------------
(***************************************************************************)
(* InkClient of demo_viz_layer.cc: a viz client that draws the mouse track *)
(* into a bitmap and submits a frame, with the bitmap as its one resource, *)
(* when something was drawn since the last one.                            *)
(*                                                                         *)
(* Three actors run concurrently: the main thread (which binds the client, *)
(* observes platform events and hands over the context provider once the   *)
(* GPU channel is up), the client's own thread, and the viz service.       *)
(*                                                                         *)
(* A definition whose name starts with Faulty is a plausible mistake in    *)
(* the definition that follows it; the properties are tried against it.    *)
(***************************************************************************)
EXTENDS FrameSink

CONSTANT MaxEvents     \* mouse and touch moves the user makes

ASSUME MaxEventsAssumption == MaxEvents \in Nat

VARIABLES
  g_use_gpu,         \* the display composites on the GPU, from the command line
  observing,         \* main thread: Bind has run, platform events are observed
  contextSent,       \* main thread: SetContextProvider has been called
  events,            \* main thread: located events posted to the client
  bound,             \* client: Bind has run on the client's thread
  context_provider,  \* client: the context provider has arrived
  need_redraw,       \* client: need_redraw_
  points             \* client: path_.countPoints(), what the bitmap shows

clientVars == <<bound, context_provider, need_redraw, points>>
mainVars   == <<g_use_gpu, observing, contextSent, events>>
othersVars == <<needsBeginFrame, bitmaps, active, shown, retired, held, ackPending>>
vars       == <<sinkVars, clientVars, mainVars>>

-----------------------------------------------------------------------------
(***************************************************************************)
(* The main thread.                                                        *)
(***************************************************************************)
Init ==
  /\ SinkInit
  /\ g_use_gpu \in BOOLEAN
  /\ observing = FALSE /\ contextSent = FALSE /\ events = 0
  /\ bound = FALSE /\ context_provider = FALSE /\ points = 0
  /\ need_redraw \in BOOLEAN     \* has no initialiser

\* Faulty: the task is forgotten, the observer is not.
FaultyBind ==
  /\ ~observing
  /\ observing' = TRUE
  /\ UNCHANGED <<queue, provider, pipe, othersVars, clientVars, g_use_gpu,
                 contextSent, events>>

Bind ==
  /\ ~observing
  /\ observing' = TRUE
  /\ queue' = Append(queue, Task("BindOnThread", {}))
  /\ UNCHANGED <<provider, pipe, othersVars, clientVars, g_use_gpu, contextSent, events>>

DidProcessEvent ==
  /\ observing
  /\ events < MaxEvents
  /\ events' = events + 1
  /\ queue' = Append(queue, Task("Draw", {}))
  /\ UNCHANGED <<provider, pipe, othersVars, clientVars, g_use_gpu, observing, contextSent>>

\* Compositor::SetContextProvider, called after the client was bound.
SetContextProvider ==
  /\ observing
  /\ ~contextSent
  /\ contextSent' = TRUE
  /\ queue' = Append(queue, Task("SetContextProvider", {}))
  /\ UNCHANGED <<provider, pipe, othersVars, clientVars, g_use_gpu, observing, events>>

MainThread == Bind \/ DidProcessEvent \/ SetContextProvider

-----------------------------------------------------------------------------
(***************************************************************************)
(* The client's thread.                                                    *)
(***************************************************************************)
\* Faulty: the path is not given its first point.
FaultyBindOnThread ==
  /\ Is(queue, "BindOnThread")
  /\ queue' = Tail(queue)
  /\ bound' = TRUE
  /\ pipe' = Append(pipe, Call("SetNeedsBeginFrame"))
  /\ need_redraw' = TRUE
  /\ UNCHANGED <<provider, othersVars, context_provider, points, mainVars>>

BindOnThread ==
  /\ Is(queue, "BindOnThread")
  /\ queue' = Tail(queue)
  /\ bound' = TRUE
  /\ pipe' = Append(pipe, Call("SetNeedsBeginFrame"))
  /\ points' = 1                  \* path_.moveTo(0, 0)
  /\ need_redraw' = TRUE
  /\ UNCHANGED <<provider, othersVars, context_provider, mainVars>>

SetContextProviderOnThread ==
  /\ Is(queue, "SetContextProvider")
  /\ queue' = Tail(queue)
  /\ context_provider' = TRUE
  /\ UNCHANGED <<provider, pipe, othersVars, bound, need_redraw, points, mainVars>>

\* Faulty: the point is drawn but no redraw is asked for.
FaultyDraw ==
  /\ Is(queue, "Draw")
  /\ queue' = Tail(queue)
  /\ points' = points + 1
  /\ pipe' = Append(pipe, Call("SetNeedsBeginFrame"))
  /\ UNCHANGED <<provider, othersVars, bound, context_provider, need_redraw, mainVars>>

Draw ==
  /\ Is(queue, "Draw")
  /\ queue' = Tail(queue)
  /\ points' = points + 1
  /\ need_redraw' = TRUE
  /\ pipe' = Append(pipe, Call("SetNeedsBeginFrame"))
  /\ UNCHANGED <<provider, othersVars, bound, context_provider, mainVars>>

\* Faulty: the frame is sent before the shared bitmap it refers to.
FaultySubmit(id) ==
  pipe' = Append(Append(pipe, Frame({id}, {id}, points)), SharedBitmap({id}))

\* CreateResource and CreateFrame, then SubmitCompositorFrame: a software
\* resource is announced to the service while the frame is being created.
Submit(id) ==
  pipe' = IF context_provider /\ g_use_gpu
            THEN Append(pipe, Frame({id}, {}, points))
            ELSE Append(Append(pipe, SharedBitmap({id})), Frame({id}, {id}, points))

\* Faulty: need_redraw_ is not cleared.
FaultyOnBeginFrameDrawing ==
  /\ Is(queue, "OnBeginFrame")
  /\ points > 0
  /\ queue' = Tail(queue)
  /\ Submit(provider.next)
  /\ provider' = PrepareSendToParent(ImportResource(provider), {provider.next})
  /\ UNCHANGED <<othersVars, clientVars, mainVars>>

OnBeginFrameDrawing ==
  /\ Is(queue, "OnBeginFrame")
  /\ need_redraw
  /\ queue' = Tail(queue)
  /\ Submit(provider.next)
  /\ provider' = PrepareSendToParent(ImportResource(provider), {provider.next})
  /\ need_redraw' = FALSE
  /\ UNCHANGED <<othersVars, bound, context_provider, points, mainVars>>

OnBeginFrameIdle ==
  /\ Is(queue, "OnBeginFrame")
  /\ ~need_redraw
  /\ queue' = Tail(queue)
  /\ pipe' = Append(pipe, Call("DidNotProduceFrame"))
  /\ UNCHANGED <<provider, othersVars, clientVars, mainVars>>

\* Faulty: the imported resources are dropped before the returns are taken.
FaultyTakeBack(ids) == RemoveImportedResources(provider, ids)

\* Faulty: an ack is taken to return everything that was sent.
FaultyTakeBackAll(ids) ==
  RemoveImportedResources(ReceiveReturnsFromParent(provider, provider.imported),
                          provider.imported)

\* DidReceiveCompositorFrameAck and ReclaimResources have the same body.
TakeBack(ids) ==
  RemoveImportedResources(ReceiveReturnsFromParent(provider, ids), ids)

DidReceiveCompositorFrameAck ==
  /\ Is(queue, "DidReceiveCompositorFrameAck")
  /\ queue' = Tail(queue)
  /\ provider' = TakeBack(Head(queue).res)
  /\ UNCHANGED <<pipe, othersVars, clientVars, mainVars>>

ReclaimResources ==
  /\ Is(queue, "ReclaimResources")
  /\ queue' = Tail(queue)
  /\ provider' = TakeBack(Head(queue).res)
  /\ UNCHANGED <<pipe, othersVars, clientVars, mainVars>>

ClientThread ==
  \/ BindOnThread \/ SetContextProviderOnThread \/ Draw
  \/ OnBeginFrameDrawing \/ OnBeginFrameIdle
  \/ DidReceiveCompositorFrameAck \/ ReclaimResources

-----------------------------------------------------------------------------
VizService == Service /\ UNCHANGED <<clientVars, mainVars>>

Next == MainThread \/ ClientThread \/ VizService

(***************************************************************************)
(* Threads run their tasks and mojo delivers messages; the service keeps   *)
(* its BeginFrames, acks and returns coming.  The user need not move.      *)
(***************************************************************************)
Fairness ==
  /\ WF_vars(Bind)
  /\ WF_vars(ClientThread)
  /\ WF_vars(ServiceReceive /\ UNCHANGED <<clientVars, mainVars>>)
  /\ WF_vars(ServiceBeginFrame /\ UNCHANGED <<clientVars, mainVars>>)
  /\ WF_vars(ServiceAck /\ UNCHANGED <<clientVars, mainVars>>)
  /\ WF_vars((ServiceHoldResources \/ ServiceReclaimResources)
               /\ UNCHANGED <<clientVars, mainVars>>)

Spec     == Init /\ [][Next]_vars
FairSpec == Spec /\ Fairness

-----------------------------------------------------------------------------
(***************************************************************************)
(* Properties.                                                             *)
(***************************************************************************)
\* Every variable keeps to its range, and the path of a bound client has its
\* first point.
TypeOK ==
  /\ SinkTypeOK
  /\ g_use_gpu \in BOOLEAN /\ observing \in BOOLEAN /\ contextSent \in BOOLEAN
  /\ events \in 0..MaxEvents
  /\ bound \in BOOLEAN /\ context_provider \in BOOLEAN /\ need_redraw \in BOOLEAN
  /\ points \in Nat /\ (bound <=> points > 0)

\* Whatever the interleaving of frames, acks and returns, a bitmap that was sent
\* in a frame is at one place only, is not destroyed while the service may still
\* read it, and is not given back twice (InkClient's calls on its
\* client_resource_provider_, with the acks that carry returns).
ResourcesConserved == Conservation

\* No task that touches canvas_, frame_sink_remote_ or client_resource_provider_
\* reaches the head of the client's queue before Bind has created them.
BoundBeforeUse == queue # <<>> => bound \/ Head(queue).op = "BindOnThread"

\* When the service takes a frame with a software resource, the shared bitmap of
\* that resource has been registered (DidAllocateSharedBitmap comes first).
BitmapBeforeFrame ==
  Is(pipe, "SubmitCompositorFrame") => Head(pipe).soft \subseteq bitmaps

\* Frames under way show ever more points: a frame is submitted only when the
\* drawing has changed since the last one (need_redraw_).
OnlyChangedFrames ==
  /\ \A i, j \in 1..Len(pipe) :
       /\ pipe[i].op = "SubmitCompositorFrame" /\ pipe[j].op = "SubmitCompositorFrame"
       /\ i < j
       => pipe[i].content < pipe[j].content
  /\ \A i \in 1..Len(pipe) :
       pipe[i].op = "SubmitCompositorFrame" => shown < pipe[i].content

\* Every move of the mouse ends up on the display, however it interleaves with
\* the frame being built (Draw sets need_redraw_, OnBeginFrame clears it).
MovesAreShown == \A n \in 1..MaxEvents : events = n ~> shown > n

\* What makes BoundBeforeUse inductive: until Bind has run on the client's thread
\* nothing has reached the service, and the queue starts with it.
Unbound ==
  /\ ~observing => queue = <<>> /\ ~bound
  /\ observing /\ ~bound => queue # <<>> /\ Head(queue).op = "BindOnThread"
  /\ ~bound => /\ pipe = <<>> /\ ~needsBeginFrame
               /\ ackPending = 0 /\ retired = {}

IndInv == SinkInv /\ TypeOK /\ Unbound /\ BitmapsAnnounced

\* What makes OnlyChangedFrames inductive: Bind gives the path its first point once,
\* and no frame shows a point that has not been drawn, or has been drawn since.
BoundOnce ==
  \A i \in 1..Len(queue) : queue[i].op = "BindOnThread" => i = 1 /\ observing /\ ~bound

ShowFewerThan(n) ==
  /\ shown < n
  /\ \A i \in 1..Len(pipe) : pipe[i].op = "SubmitCompositorFrame" => pipe[i].content < n

FramesAreDrawn ==
  /\ ShowFewerThan(points + 1)
  /\ bound /\ need_redraw => ShowFewerThan(points)

GrowInv == OnlyChangedFrames /\ BoundOnce /\ FramesAreDrawn

\* The frames keep the promise of BufferOwnership.
Ownership == INSTANCE BufferOwnership WITH
               lent <- provider.imported, inUse <- InUse, freed <- provider.released
OwnershipSpec == Ownership!Spec
===============================================================================
