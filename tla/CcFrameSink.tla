------------------------------ MODULE CcFrameSink ------------------------------
(***************************************************************************)
(* demo_cc_gui.cc and demo_cc_offscreen.cc: a Compositor that lets cc      *)
(* paint a Layer and submit it to a viz display in the same process, and   *)
(* the LayerTreeFrameSink between the two.  The two programs differ only   *)
(* in the output of their display, a window or a file.                     *)
(*                                                                         *)
(* After the start the main thread does everything: cc's scheduler and the *)
(* display call each other through the frame sink.  cc and viz are not     *)
(* part of the repository and are modelled from these calls; cc paints,    *)
(* and commits, when a layer needs display, and draws what is committed    *)
(* once the frame before has been acknowledged.                            *)
(*                                                                         *)
(* A definition whose name starts with Faulty is a plausible mistake in    *)
(* the definition that follows it; the properties are tried against it.    *)
(***************************************************************************)
EXTENDS Integers, Sequences, FiniteSets

CONSTANT MaxPaints      \* times cc paints the layer

ASSUME MaxPaintsAssumption == MaxPaints \in Nat \ {0}

VARIABLES
  main,             \* the main thread: before, in and after InitializeGpuService
  event,            \* the WaitableEvent is signalled
  gpu_service_,     \* the GPU thread has made the service and its provider
  tasks,            \* main thread: tasks posted without delay
  invalidations,    \* main thread: SetNeedsDisplay tasks under delay
  sink,             \* the frame sink: "none", "made" or "bound" to its client
  submitting,       \* the main thread is inside SubmitCompositorFrame
  needs_commit,     \* cc: a layer needs display
  painted,          \* cc: times the layer was painted
  to_draw,          \* cc: the painting committed and not drawn, or 0
  observing,        \* cc: the scheduler observes external_begin_frame_source_
  begun,            \* cc: a BeginFrame has arrived and is not answered
  pending_submit,   \* cc: frames submitted and not acknowledged
  needs_begin_frame,\* viz: support_ has been asked for BeginFrames
  surface,          \* viz: the display has been given the root's surface
  active,           \* viz: the painting in the active frame, or 0
  swapped,          \* viz: the painting last swapped to the output
  retired,          \* viz: paintings of replaced frames, not yet returned
  held,             \* viz: those that wait for the next ack
  ack_pending,      \* viz: frames not acknowledged
  reclaimed,        \* cc: paintings whose tile may be reused
  lost              \* paintings returned to ReclaimResources

mainVars == <<main, event, gpu_service_, tasks, invalidations, sink>>
ccVars   == <<submitting, needs_commit, painted, to_draw, observing, begun, pending_submit>>
vizVars  == <<needs_begin_frame, surface, active, swapped, retired, held, ack_pending>>
tileVars == <<reclaimed, lost>>
ccAll    == <<mainVars, ccVars, vizVars, tileVars>>

\* A painting, the resource of its tile and the frame that shows it share a number.
Tile(n) == IF n = 0 THEN {} ELSE {n}

CcInit ==
  /\ main = "start" /\ event = FALSE /\ gpu_service_ = FALSE
  /\ tasks = <<>> /\ invalidations = 0 /\ sink = "none"
  /\ submitting = FALSE /\ needs_commit = FALSE /\ painted = 0 /\ to_draw = 0
  /\ observing = FALSE /\ begun = FALSE /\ pending_submit = 0
  /\ needs_begin_frame = FALSE /\ surface = FALSE /\ active = 0 /\ swapped = 0
  /\ retired = {} /\ held = {} /\ ack_pending = 0
  /\ reclaimed = {} /\ lost = {}

Task(op, res) == [op |-> op, res |-> res]

\* The main thread is between two tasks, or about to run the first one of `op`.
Idle == main = "running" /\ ~submitting
Running(op) == Idle /\ tasks # <<>> /\ Head(tasks).op = op

-----------------------------------------------------------------------------
(***************************************************************************)
(* The start: the main thread waits for the GPU thread, then makes the     *)
(* LayerTreeHost, which asks for a frame sink by a task of its own.        *)
(***************************************************************************)
InitializeGpuService ==
  /\ main = "start"
  /\ main' = "waiting"
  /\ UNCHANGED <<event, gpu_service_, tasks, invalidations, sink, ccVars, vizVars, tileVars>>

InitializeGpuServiceInternal ==
  /\ main # "start" /\ ~event
  /\ gpu_service_' = TRUE
  /\ event' = TRUE
  /\ UNCHANGED <<main, tasks, invalidations, sink, ccVars, vizVars, tileVars>>

Construct ==
  /\ main = "waiting" /\ event
  /\ main' = "running"
  /\ needs_commit' = TRUE
  /\ tasks' = Append(tasks, Task("RequestNewLayerTreeFrameSink", {}))
  /\ UNCHANGED <<event, gpu_service_, invalidations, sink, submitting, painted, to_draw,
                 observing, begun, pending_submit, vizVars, tileVars>>

\* support_, the display and their timer: all of it belongs to this thread.
Initialize == sink' = "made"

\* The FrameSinkManager, the frame sink and its display are made of gpu_service_.
RequestNewLayerTreeFrameSink ==
  /\ Running("RequestNewLayerTreeFrameSink")
  /\ tasks' = Tail(tasks)
  /\ Initialize
  /\ UNCHANGED <<main, event, gpu_service_, invalidations, ccVars, vizVars, tileVars>>

\* cc gets a source of BeginFrames to observe.
BindToClient ==
  /\ Idle /\ sink = "made"
  /\ sink' = "bound"
  /\ UNCHANGED <<main, event, gpu_service_, tasks, invalidations, ccVars, vizVars, tileVars>>

-----------------------------------------------------------------------------
(***************************************************************************)
(* From cc to viz.                                                         *)
(***************************************************************************)
OnNeedsBeginFrames ==
  /\ Idle /\ sink = "bound"
  /\ ~begun
  /\ observing # (needs_commit \/ to_draw # 0)
  /\ observing' = ~observing
  /\ needs_begin_frame' = ~observing
  /\ UNCHANGED <<mainVars, submitting, needs_commit, painted, to_draw, begun,
                 pending_submit, surface, active, swapped, retired, held, ack_pending,
                 tileVars>>

\* SetNeedsDisplayRect on a layer calls for a commit if the layer draws anything.
DrawsContent(layer) == layer = "content_layer_"

\* Faulty: the layer that is painted is invalidated with every frame.
FaultyUpdateLayerTreeHost == DrawsContent("content_layer_")

UpdateLayerTreeHost == DrawsContent("root_layer_")

\* A second after the painting the layer needs display again.
PaintContentsToDisplayList ==
  /\ painted' = painted + 1
  /\ invalidations' = invalidations + 1

BeginMainFrame ==
  /\ Idle /\ begun
  /\ needs_commit /\ to_draw = 0
  /\ painted < MaxPaints
  /\ needs_commit' = UpdateLayerTreeHost
  /\ PaintContentsToDisplayList
  /\ to_draw' = painted'
  /\ UNCHANGED <<main, event, gpu_service_, tasks, sink, submitting, observing, begun,
                 pending_submit, vizVars, tileVars>>

\* layer->SetNeedsDisplay()
SetNeedsDisplay ==
  /\ Idle /\ invalidations > 0
  /\ invalidations' = invalidations - 1
  /\ needs_commit' = TRUE
  /\ UNCHANGED <<main, event, gpu_service_, tasks, sink, submitting, painted, to_draw,
                 observing, begun, pending_submit, vizVars, tileVars>>

CanDraw == to_draw # 0 /\ pending_submit = 0

SubmitCompositorFrame ==
  /\ Idle /\ begun /\ CanDraw
  /\ submitting' = TRUE
  /\ begun' = FALSE
  /\ to_draw' = 0
  /\ active' = to_draw
  /\ retired' = retired \cup Tile(active)
  /\ ack_pending' = ack_pending + 1
  /\ UNCHANGED <<mainVars, needs_commit, painted, observing, pending_submit,
                 needs_begin_frame, surface, swapped, held, tileVars>>

\* cc counts the frame when SubmitCompositorFrame has returned.
DidSubmitCompositorFrame ==
  /\ submitting
  /\ submitting' = FALSE
  /\ pending_submit' = pending_submit + 1
  /\ UNCHANGED <<mainVars, needs_commit, painted, to_draw, observing, begun, vizVars, tileVars>>

DidNotProduceFrame ==
  /\ Idle /\ begun /\ ~CanDraw
  /\ needs_commit => to_draw # 0
  /\ begun' = FALSE
  /\ UNCHANGED <<mainVars, submitting, needs_commit, painted, to_draw, observing,
                 pending_submit, vizVars, tileVars>>

-----------------------------------------------------------------------------
(***************************************************************************)
(* From viz to cc.                                                         *)
(***************************************************************************)
OnBeginFrame ==
  /\ Idle /\ needs_begin_frame /\ ~begun
  /\ begun' = observing
  /\ surface' = (surface \/ active = 0)
  /\ UNCHANGED <<mainVars, submitting, needs_commit, painted, to_draw, observing,
                 pending_submit, needs_begin_frame, active, swapped, retired, held,
                 ack_pending, tileVars>>

\* Faulty: the client is told on the stack of the display.
FaultyDidReceiveCompositorFrameAck(res) ==
  /\ pending_submit' = pending_submit - 1
  /\ UNCHANGED tasks

DidReceiveCompositorFrameAck(res) ==
  /\ tasks' = Append(tasks, Task("DidReceiveCompositorFrameAckInternal", res))
  /\ UNCHANGED pending_submit

\* The display draws the active frame, within SubmitCompositorFrame or later,
\* swaps it to its output and acknowledges it.
OnSwapBuffers ==
  /\ surface /\ ack_pending > 0
  /\ swapped' = active
  /\ ack_pending' = ack_pending - 1
  /\ held' = {}
  /\ DidReceiveCompositorFrameAck(held)
  /\ UNCHANGED <<main, event, gpu_service_, invalidations, sink, submitting, needs_commit,
                 painted, to_draw, observing, begun, needs_begin_frame, surface, active,
                 retired, tileVars>>

\* Faulty: an ack is taken to return the tile of the frame it acknowledges.
FaultyInternalReclaimsSwapped ==
  /\ Running("DidReceiveCompositorFrameAckInternal")
  /\ tasks' = Tail(tasks)
  /\ reclaimed' = reclaimed \cup Head(tasks).res \cup Tile(swapped)
  /\ pending_submit' = pending_submit - 1
  /\ UNCHANGED <<main, event, gpu_service_, invalidations, sink, submitting, needs_commit,
                 painted, to_draw, observing, begun, vizVars, lost>>

\* Faulty: the resources go back, and the scheduler is not told.
FaultyDidReceiveCompositorFrameAckInternal ==
  /\ Running("DidReceiveCompositorFrameAckInternal")
  /\ tasks' = Tail(tasks)
  /\ reclaimed' = reclaimed \cup Head(tasks).res
  /\ UNCHANGED <<main, event, gpu_service_, invalidations, sink, ccVars, vizVars, lost>>

DidReceiveCompositorFrameAckInternal ==
  /\ Running("DidReceiveCompositorFrameAckInternal")
  /\ tasks' = Tail(tasks)
  /\ reclaimed' = reclaimed \cup Head(tasks).res
  /\ pending_submit' = pending_submit - 1
  /\ UNCHANGED <<main, event, gpu_service_, invalidations, sink, submitting, needs_commit,
                 painted, to_draw, observing, begun, vizVars, lost>>

\* What viz returns waits for the ack it owes, if any.
HoldResources ==
  /\ retired # {} /\ ack_pending > 0
  /\ held' = held \cup retired
  /\ retired' = {}
  /\ UNCHANGED <<mainVars, ccVars, needs_begin_frame, surface, active, swapped, ack_pending,
                 tileVars>>

\* ReclaimResources has an empty body.
ReclaimResources ==
  /\ Idle
  /\ retired # {} /\ ack_pending = 0
  /\ lost' = lost \cup retired
  /\ retired' = {}
  /\ UNCHANGED <<mainVars, ccVars, needs_begin_frame, surface, active, swapped, held,
                 ack_pending, reclaimed>>

-----------------------------------------------------------------------------
Start == InitializeGpuService \/ Construct \/ RequestNewLayerTreeFrameSink \/ BindToClient

Scheduler ==
  \/ OnNeedsBeginFrames \/ BeginMainFrame \/ SubmitCompositorFrame
  \/ DidSubmitCompositorFrame \/ DidNotProduceFrame

CcMainStep ==
  \/ Start \/ Scheduler \/ SetNeedsDisplay
  \/ OnBeginFrame \/ OnSwapBuffers \/ DidReceiveCompositorFrameAckInternal
  \/ HoldResources \/ ReclaimResources

-----------------------------------------------------------------------------
(***************************************************************************)
(* Properties.                                                             *)
(***************************************************************************)
CcTypeOK ==
  /\ main \in {"start", "waiting", "running"} /\ sink \in {"none", "made", "bound"}
  /\ \A b \in {event, gpu_service_, submitting, needs_commit, observing, begun,
               needs_begin_frame, surface} : b \in BOOLEAN
  /\ \A i \in 1..Len(tasks) : tasks[i].res \subseteq 1..painted
  /\ invalidations \in Nat /\ painted \in 0..MaxPaints /\ pending_submit \in Int
  /\ {to_draw, active, swapped} \subseteq 0..painted /\ ack_pending \in Nat
  /\ retired \cup held \cup reclaimed \cup lost \subseteq 1..painted

\* The scheduler's count of pending frames stays at 0 or 1, and is the number of
\* frames the display owes an ack for or whose ack is posted: an ack that comes
\* while the frame is being submitted is counted after it.
AckedAfterSubmitted ==
  /\ pending_submit \in {0, 1}
  /\ pending_submit + (IF submitting THEN 1 ELSE 0) =
       ack_pending + Cardinality({i \in 1..Len(tasks) :
                       tasks[i].op = "DidReceiveCompositorFrameAckInternal"})

\* Each painting asks for exactly one more, so the demo repaints once a second, and
\* neither stops nor speeds up: a request is under delay or has become needs_commit.
OneRepaintAtATime ==
  main = "running" => (invalidations = 1) = ~needs_commit /\ invalidations \in {0, 1}

\* cc reuses a tile only when viz has done with it: every tile is to be drawn, with
\* viz, on its way back, reclaimed or lost, and at one of these places only.  Every
\* variable keeps to its range.
Returning == held \cup UNION {tasks[i].res : i \in 1..Len(tasks)}

TilesAreAccounted ==
  LET places == <<Tile(to_draw), Tile(active), retired, Returning, reclaimed, lost>>
  IN  /\ CcTypeOK
      /\ UNION {places[i] : i \in 1..6} = 1..painted
      /\ \A i, j \in 1..6 : i # j => places[i] \cap places[j] = {}

(***************************************************************************)
(* What makes these three inductive: at most one task waits on the main    *)
(* thread, nothing comes from the display before the frame sink is bound,  *)
(* and what is held for an ack has an ack to wait for.                     *)
(***************************************************************************)
AckOp == "DidReceiveCompositorFrameAckInternal"

OneTask ==
  \/ tasks = <<>>
  \/ tasks = <<Task("RequestNewLayerTreeFrameSink", {})>> /\ sink = "none"
  \/ \E res \in SUBSET (1..painted) : tasks = <<Task(AckOp, res)>> /\ sink = "bound"

BeforeBinding ==
  /\ main # "running" =>
       sink = "none" /\ tasks = <<>> /\ ~needs_commit /\ invalidations = 0 /\ ~submitting
  /\ sink # "bound" =>
       /\ ~begun /\ ~needs_begin_frame /\ ~submitting
       /\ ack_pending = 0 /\ pending_submit = 0

OneFramePending ==
  /\ submitting => pending_submit = 0
  /\ held # {} => ack_pending > 0
  /\ pending_submit + (IF submitting THEN 1 ELSE 0) =
       ack_pending + (IF tasks # <<>> /\ Head(tasks).op = AckOp THEN 1 ELSE 0)
  /\ pending_submit \in {0, 1}

CcInv == TilesAreAccounted /\ OneRepaintAtATime /\ OneTask /\ BeforeBinding /\ OneFramePending
===============================================================================
