# A verification project for chromium_demo

`chromium_demo` is a set of small programs that each show one layer of Chromium:
viz, cc, skia, mojo, IPC, the content shell, tasks, gin. Many of them are straight
lines of library calls. What is hard in the others is what happens *between* their
threads, processes and pipes: tasks posted to threads that own what another thread
is still making, resources that travel to a display service and back, a render
closure that posts itself, calls that wait for an implementation. This directory
models that, checks it with TLC and proves the most important parts of it with
TLAPS.

## 1. The system

### demo_viz_layer: two clients of the viz service (`src/demo_viz/demo_viz_layer.cc`)

| part | state | operations |
| --- | --- | --- |
| `DemoVizWindow` | the window, `widget_`, `host_`, `service_` | `Create`, `InitializeDemo`, window callbacks |
| `Compositor` | the two clients, frame sink ids, the display's private interface | makes, embeds and binds the clients on the main thread; `SetContextProvider`, `Resize` |
| `LayerTreeFrameSink` | root client, on a thread of its own: pipe, `client_resource_provider_`, `child_frame_sink_id_`, surface id allocator, frame token, `lock_` | `Bind`, `EmbedChild`, `SetContextProvider`, `OnBeginFrame`, `DidReceiveCompositorFrameAck`, `ReclaimResources` |
| `InkClient` | child client, on a thread of its own: pipe, `client_resource_provider_`, bitmap, `path_`, `need_redraw_` | `Bind`, `DidProcessEvent`, `Draw`, `SetContextProvider`, `OnBeginFrame`, the two return handlers |
| `GpuService` | three threads, the two ends of the channel, `viz_main_`, `gpu_host_`, `gpu_channel_host_` | `InitIPCServer`, `InitIPCClient`, `InitVizMain`, `InitVizHost`, `OnEstablishedOnIO`, `OnEstablishedOnMain`, `OnAssociatedInterfaceRequest` |

The main thread makes the Compositor (which binds both clients, each of which posts
`Bind` to its thread) and then the GpuService, whose constructor posts the set-up of
the host and of the GPU side. When the GPU channel is established, the main thread
hands a context provider to both clients. From then on each client answers the
service's BeginFrames with frames, hands resources over with them, and gets them
back with acks or in messages of their own.

Hard: nothing but the order of tasks in queues orders these threads; resources
return in any order and on two ways; the mouse moves while a frame is built.

### Its relatives (`src/demo_viz/`)

- `demo_viz_gui`: root and child are two objects of one class. A *compositor thread*
  binds the root, asks the main (GPU) thread for the root's shared image provider,
  embeds the child, binds it and asks for its provider, while the root may already be
  drawing. Returns that come with an ack are ignored.
- `demo_viz_gui_gpu`: the GPU side starts in the same process, over an IPC channel; the
  host is made by a task with a delay of five seconds, and the clients' messages wait in
  their pipes until the service they are for is bound.
- `demo_viz_layer_offscreen`: the display draws into a texture; every frame it
  activates is told to the main thread, which has the GPU main thread draw the
  texture into the window (`Redraw`), with a context made there by `InitHostMain`.
- `demo_viz_offscreen`: a renderer on a thread of its own, whose display saves every
  frame to a file.

### demo_cc: cc and viz in one process (`src/demo_cc/`)

`demo_cc_gui` and `demo_cc_offscreen` let cc's scheduler drive a viz display through a
`LayerTreeFrameSink`: all on the main thread, after a hand-over from the GPU thread by
a `WaitableEvent`. The painted layer asks to be painted again one second later. Hard:
the display may acknowledge a frame inside `SubmitCompositorFrame`; a lost ack, BeginFrame
or repaint request would stop the demo without a trace.

### demo_skia: a canvas with a render thread (`src/demo_skia/`)

`SkiaCanvas` owns a render thread, a path and a self-posting render closure.
`OnTouch` posts to the render thread; from a press to the next release of any finger
the closure repaints every 16 ms (`need_redraw_`, `is_drawing_`). `SkiaCanvasGL` and
`SkiaCanvasSoftware` provide the surface, which a task posted by the *base* class's
constructor initialises, and `Resize` gives it a new size from the main thread, without a
lock. Hard: presses and releases closer together than a frame, several fingers, a resize
during a frame, and the construction.

### The windows and main functions of these programs

Each starts a trace, makes a window, makes its demo when the window has a widget,
runs until the window is closed, and flushes the trace in a second run loop
(`src/common/utils.h`). Hard: `Create` and `OnAcceleratedWidgetAvailable` may both make the
demo, and the trace comes in chunks.

### demo_mojo_multiple_process: two processes and a pipe

`MojoProducer` launches the consumer and writes to it over a message pipe; three of
the messages carry the end of a data pipe, of a second message pipe or a shared
buffer, which it fills after sending them. Five seconds later it writes a last
message and closes the pipe. `MojoConsumer` waits for something to read, sleeps a
second, reads a fixed list without waiting and gives the pipe to a `PipeReader`, whose
watcher reads the rest. Hard: the reads only fit the writes by their order; what is
written arrives later; messages must not be lost between the reads and the watcher.

### Calls between processes

`demo_mojo_multiple_process_binding` (remotes, associated interfaces and a broker of
interfaces by name), `demo_services` (two services that greet each other) and
`demo_ipc` (messages to a channel and to a route of it) make calls to implementations
that are bound later, in another process, on a pipe that itself may have travelled in
a call. `demo_mojo_child_process` has a main process that brokers channels between a
service process and clients that come, ask, call and go. Hard: no order between pipes,
and replies for a client that has gone.

### The others

`demo_shell` embeds the content layer, `demo_task_*` chain delayed tasks, `demo_gin`
and `demo_mojo_v8` let JavaScript make one call. `demo_callback`, `demo_gl`, `demo_x11`,
`demo_views`, `demo_log`, `demo_memory`, `demo_resources`, `demo_linktest`, the Android
activities and `demo_mojo_single_process` have no behaviour that interleaves.
`PROJECT.json` lists each with its status and the reason, and each hazard at the line
where it bites.

### What makes each part correct

- A client: a resource it has sent is at one place only and is not destroyed while
  the service may read it, and it is released in the end; nothing it uses is used
  before `Bind` made it; a shared bitmap is known to the service before a frame
  needs it; what the user did is shown, and nothing is sent when nothing changed.
- A root client besides: the surface it embeds is the one its child was given.
- A start-up: nothing is used before it is made, and it completes if the GPU channel
  can be made.
- The Compositor of demo_cc: as many frames pending as acks owed, one repaint request
  at a time, every tile at one place, and the repainting goes on.
- A main function: one demo, a whole trace, and it ends.
- The canvas: one render closure while drawing and none otherwise; points are painted
  from a press to the next release, and so are new sizes; repainting ends; the canvas is
  initialised before painting.
- Processes: no message is lost, doubled or overtaken on its pipe, every call runs,
  every client is served and every client that is gone is forgotten.

## 2. The modules

| module | models |
| --- | --- |
| `FrameSink` | what the clients of a viz service share: the task queue of the client's thread, its `ClientResourceProvider`, the pipe, and the service at the other end |
| `InkClient` | the child client of demo_viz_layer and its main thread (extends `FrameSink`) |
| `LayerTreeFrameSink` | its root client and the main thread that embeds the child (extends `FrameSink`) |
| `BufferOwnership` | the abstract promise of a client: buffers are lent, given back, freed |
| `GpuService` | the start-up of demo_viz_layer over five task queues |
| `VizGui` | demo_viz_gui: compositor thread, GPU thread, one of the two clients (extends `FrameSink`) |
| `VizGuiGpu` | demo_viz_gui_gpu: the start-up, and one client (extends `FrameSink`) |
| `LayerOffscreen` | demo_viz_layer_offscreen: the start-up, one client, the redraws (extends `FrameSink`) |
| `SkiaCanvas` | the canvas, either derived class, its render thread, and the delayed render closure |
| `Programs` | eight main functions, their windows and traces |
| `CcFrameSink` | the Compositor of demo_cc between cc and viz |
| `OffscreenRenderer` | the renderer of demo_viz_offscreen |
| `GraphicalDemos` | composes `Programs` with `CcFrameSink` and `OffscreenRenderer` |
| `MultipleProcess` | the producer, the consumer and the pipes between them |
| `MojoCalls` | the bindings, the services and the IPC channel |
| `ChildProcess` | the broker of demo_mojo_child_process |
| `MojoDemos` | puts `MojoCalls` and `ChildProcess` side by side |
| `FrameSinkProofs`, `InkClientProofs`, `LayerTreeFrameSinkProofs`, `VizGuiProofs`, `VizGuiGpuProofs`, `LayerOffscreenProofs`, `GraphicalDemosProofs`, `QueueProofs` | lemmas and theorems; `QueueProofs` has those of `SkiaCanvas`, `GpuService`, `MultipleProcess` and `MojoDemos` |

**FrameSink.** A client's thread is a first-in first-out `queue` of tasks: tasks other
threads post, and the messages of its `CompositorFrameSinkClient` pipe, which mojo
delivers as tasks of that thread. `pipe` holds the messages to the service. Neither
`viz::ClientResourceProvider` nor `viz::CompositorFrameSinkSupport` is in the
repository; both are modelled from the calls of the clients and marked external in
the map. `provider` is a record of the ids imported, exported, marked for deletion
and released. A resource of the clients is exported in one frame only, so a set of
ids stands for the reference counts. The service registers shared bitmaps, keeps
one frame on display, retires the one before, and returns retired resources in any
grouping and order: with the pending ack if there is one, in a `ReclaimResources`
otherwise. (The clients do not ask for acks to be merged into BeginFrames, the newer
form that `CHANGELOG.md:89` mentions.) A frame is its resources, the software ones
among them, and one number for what it shows.

**InkClient.** One action per task of the client's thread (`BindOnThread`, `Draw`,
`OnBeginFrameDrawing`, ...), one per call of the main thread. The content of a frame
is the number of points in `path_`. `need_redraw_` starts with any value, because the
code does not initialise it. `CreateFrame` imports one resource; in software it
announces the shared bitmap first, which `Submit` keeps in that order. Both return
handlers have the same body in the code (`ReceiveReturnsFromParent`, then
`RemoveImportedResource` for each id): `TakeBack`.

**LayerTreeFrameSink.** `EmbedChild` is two steps under `lock_` (the id, then the surface
id), because `OnBeginFrame` reads both on another thread. In this program the two never
meet: the service end of the pipes is only made after the Compositor's constructor has
embedded the child, so the service's steps need `ServiceExists`, and what the first frame
shows rests on that order of `InitializeDemo`. (In `VizGui` they do meet.) The frame token is kept
modulo the frame period. A frame has the two resources of the tile and the texture
quad once there is a context provider, and the surface quad once a child is
embedded; the content is the surface id + 1, so that an invalid id (embedding the
child before its id exists) is told from no quad.

**GpuService.** `Posts` is the order in which the main thread posts the start-up; every
task of every thread is an action. `OnAssociatedInterfaceRequest` comes from the GPU
I/O thread and posts itself to the GPU main thread. The handle of the GPU channel may
be invalid: `OnEstablishedOnIO` goes on to make the providers on a null channel, and a
client that is handed one stops at `DCHECK(BindToCurrentThread() == kSuccess)`, which is the
guard of `SetContextProvider`. What the model decides is which order of those tasks can happen. It
begins with `InitializeDemo`; that this is called once is `Programs`' business.

**VizGui.** `stage` is where the compositor thread is. `role` is the client that is followed,
chosen at the start; the other one is only what it means to this one (for the root, a
child to embed). The GPU thread's queue holds the clients that have asked for a
provider. `ReclaimResources` removes the resources and then takes their returns; an ack's
returns go nowhere, and `stranded` remembers them. Without a shared image interface the
code exports an invalid resource id; what that does lies in the viz library, and the
model lets it export nothing.

**VizGuiGpu.** `stage` is the main thread's constructor code; the client is bound and the
child embedded before any of the GPU side exists. `request` is the host's request for `VizMain`,
on its way over the channel. `OnAssociatedInterfaceRequest` reads `viz_main_` when it
*posts* the binding, on the I/O side, so it may post a binding to null ("Bind null").
The messages of the clients wait in `pipe` until the request is bound. The delay of
`InitVizHost` is not relied on: the model lets it run as soon as the main thread is in
its loop, and what holds is due to the order of the posts.

**LayerOffscreen.** Tasks of the three threads in three queues, of the client's in `queue`.
`InitHostMain` is a call inside the task that creates the GPU service, which is why it comes
before any `Redraw`. Activated frames are told to the main thread and redrawn one by one.

**SkiaCanvas.** The main thread runs the two constructors, resizes the canvas and posts
touches (presses and releases of up to `MaxFingers` fingers, moves in between). The render
thread runs its tasks; `delayed` counts closures whose 16 ms have not passed.
`is_software_` is the derived class. `Initialize` runs the override of the class whose
constructor is running at that moment, and `display_` has an arbitrary value until
`SkiaCanvasGL` sets it. A size is the number of the `Resize` it comes from. `Resize` is two
steps, `width_` and then `height_`, so a frame painted in between has one of each; a frame is
one step, which leaves out that two resizes may fall into the reads of one frame.

**Programs.** A main function is a sequence of steps, `pc` the step it is at. The user may
close the window while a run loop runs. Steps that only set up a library are
left out. Every platform the demos build
for announces the widget while it creates the window. `main` of cc_offscreen and of
viz_offscreen never leaves its loop. What `main` destroys when it returns, and in which order
with regard to the threads that use it, is left out.

**CcFrameSink.** One module for the two programs of demo_cc, which have the same Compositor;
each definition is mapped to one of the two files. `submitting` is true inside
`SubmitCompositorFrame`, where `OnSwapBuffers` may happen, so that the ack is posted before
cc has counted the frame. A painting, its tile and the frame with it share a number.
`ReclaimResources` has an empty body: what comes back that way is `lost`.

**OffscreenRenderer, GraphicalDemos.** In the composition the demo's threads run from
`made` to `ended`; the Compositor's main-thread steps need the run loop of `main`.

**MultipleProcess.** `Writes` and `Reads` are the two programs as sequences, one action per
kind of entry. `transit` is what a pipe has not delivered yet, `arrived` what can be read;
`underway` and `contents` are the same for the data pipe and the second message pipe,
each a pipe of its own, so that nothing orders them against the first. A shared
buffer has no transit. `Sleep` waits until all that is written without delay has
arrived, which is what the comment in the code takes a second to mean. A failed
read (`MOJO_RESULT_SHOULD_WAIT` where the code asserts `MOJO_RESULT_OK`) ends the consumer.
The watcher is an automatic one: armed, it notifies of a state that already holds.

**MojoCalls.** Each process has steps `todo`: its `main` up to the run loop, then the body of a
method that does more than log. When it has none it dispatches a message. Steps make calls,
bind implementations (`serving`) and close pipes. A call waits in its pipe (`inbox`) until the
implementation is bound, keeps its order on its pipe and none between pipes;
associated interfaces share a pipe. `demo` selects one of the three programs.

**ChildProcess.** Clients are started one after the other and may die at any moment.
The helper in the main process forwards a request to the service's factory, and the
channel that comes back to the client; both forget a client when its pipe closes.
The names of the message pipes that the programs pass to each other are strings, which all
name pipe 0 of an invitation (`demo_mojo_multiple_process_binding.cc:222`).

A definition called `Faulty...` is a plausible mistake in the definition after it. No
specification uses it; each property is shown to fail when the mistake is put in.

## 3. The runs

| run | shows |
| --- | --- |
| `ink_client` | `InkClient` with two moves and two BeginFrames unanswered: conservation of resources, bind before use, bitmap before frame, frames only for changes; every move is shown; the client implements `BufferOwnership` |
| `root_client` | `LayerTreeFrameSink` with a period of two and five BeginFrames: the embedded surface is the child's; every replaced frame's resources are released; the client implements `BufferOwnership` |
| `gpu_service` | `GpuService`, no bounds: `UsedAfterMade`: the channel, `viz_main_` and the bound clients are there when they are used; if the GPU channel can be made, every client gets its provider |
| `viz_gui` | `VizGui`, three BeginFrames: what acks bring back is all that is leaked; the root shows, and the child submits to, one surface; the provider arrives |
| `viz_gui_gpu` | `VizGuiGpu`, three BeginFrames: the delayed `InitVizHost` finds the GPU side made; every frame embeds the child; the context provider arrives |
| `layer_offscreen` | `LayerOffscreen`, three BeginFrames: no `Redraw` before `InitHostMain`; every activated frame is redrawn |
| `graphical_demos` | eight main functions with the Compositor and the renderer: one demo, whole traces, closing ends; acks counted, one repaint request, tiles accounted for, repainting goes on; frames reach the file |
| `skia_canvas` | `SkiaCanvas` with five touches of two fingers and two resizes, either derived class: one closure, points painted from a press to the next release, new sizes painted, repainting ends |
| `multiple_process` | `MultipleProcess`, no bounds: messages are read once, in order, by the read meant for them; the watcher sees the end |
| `mojo_demos` | the bindings, the services, the channel, and the broker with two clients: associated calls keep their order, every call runs, `Hi` runs before its channel is forgotten, every client is served, gone ones are forgotten |
| `multiple_process_reads` | a violation: see Findings |
| `skia_canvas_construction` | a violation: see Findings |

Where a module's type invariant is not listed on its own it is a conjunct of the first
invariant of its run, whose comment says so.

**What some of them do not promise.** `OnlyAcksStrand` states the leak of demo_viz_gui
exactly: the resources of acks, and no others. `TilesAreAccounted` has `lost` as one
of its places: tiles that viz returns without an ack are never reused.
`ClientsAreProvided` promises nothing when the GPU channel could not be made: the clients
stop. `PointsArePainted` promises the points of a press up to the next release, of whatever
finger: `need_redraw_` is a flag and counts none, so that what a second finger draws after the
first is lifted is not shown (`skia_canvas.cc:69`). With one finger at a time, which is its
second conjunct, every point of a press that is not over is.
`ResizesArePainted` promises a new size only to a canvas that is drawing: `Resize` asks
for no frame.

**Bounds.** `MaxBeginFrames = 2` lets a BeginFrame be under way while another is being
answered, which is what interleaves a frame with the return of its predecessor; the
service issues them one by one in practice. `MaxEvents = 2` (`InkClient`) gives three
contents, so that a frame can be on display, a second one under way and a third one
drawn. Ids, acks and returns are bounded by the frames. `FramePeriod = 2` stands for
60: what matters is that some BeginFrames are answered by a frame and some are not. Five
BeginFrames (`MaxVsyncs`) give `LayerTreeFrameSink` three frames, hence two replaced
ones. `VizGui` and `VizGuiGpu` answer each of three BeginFrames with a frame;
`LayerOffscreen` has three BeginFrames and one event, hence two frames of the root or of the
child: enough for a second activation while the first is being redrawn. `MaxPaints = 4`
lets a tile be drawn, one be on display, one be retired and one be back.
`MaxChunks = 2` is a chunk that is not the last and one that is. `MaxFrames = 3` gives
the renderer a first, a middle and a last frame. `MaxClients = 2` lets one client die
while the other's request is under way. Five touches of two fingers give two presses
that overlap, moves after the release of one of them, and a press after a release while
the old closure is still delayed. `MaxResizes = 2` gives a resize while the frame of the one
before is due; the run that shows the construction needs none.
`GpuService` and `MultipleProcess` have no constants: their state spaces are finite as
they are, so TLC's check of them is complete.

**Fairness** is weak, and per actor: a thread runs its task queue, mojo delivers, the
service acks and, for the clients of demo_viz_layer and `VizGuiGpu`, returns resources;
for `InkClient` it issues BeginFrames as long as it is asked to. The services of `VizGui`
and `LayerOffscreen` need not return anything. In `GraphicalDemos` it is
the fairness of threads that run, so it holds only between the making of the demo and the
end of the process. Nothing makes the user move, touch, resize or close, nothing makes a
client die, and nothing makes the service return resources in a particular order. Without
fairness a thread could just stop. `~crashed` in the fairness of `SkiaCanvas` says
that a crashed process runs no more.

**Deadlock** is checked for `InkClient`. The other models really end: the display stops
issuing BeginFrames at its bound, a start-up is over, the user stops touching, a program
ends, processes idle in their message loops.

### Findings

`skia_canvas_construction`: `SkiaCanvas::SkiaCanvas` starts the render thread and posts
`&SkiaCanvas::InitializeOnRenderThread`, a virtual function, before the derived class
is constructed. When the render thread gets to run at once, it calls the base
class's empty version, and the members that `SkiaCanvasGL` leaves without initialiser are
never set; the next touch paints with them. `BeginPaint` states the opposite,
`DCHECK(display_)` (`skia_canvas_gl.cc:472`). The run is the shortest such execution.

`multiple_process_reads`: the comment at `demo_mojo_multiple_process.cc:256` says that the
sleep of a second makes sure that all the reads below can succeed. The sleep is
inside the `if` that waits for a first message (line 252), so a consumer that finds the
first message readable at once reads on without it, and the next read may find
nothing. The run shows it at the second read.

## 4. The proofs

The only assumptions are the named ones on the constants (that a bound is a natural
number, that the frame period is at least two). Each theorem is about the specification
of its run without the fairness (`Spec`; `StartUpSpec`, `PipeSpec`, `MojoSpec` in
`QueueProofs`), for every value of the constants. Every invariant and every refinement of
the passing runs is the subject of one.

| module | theorems |
| --- | --- |
| `InkClientProofs` | `Invariance`, `TypeCorrectness`, `ResourcesAreConserved`, `BindComesFirst`, `BitmapsComeFirst`, `FramesShowMore`: all five invariants of `ink_client`; `KeepsOwnership`: it implements `BufferOwnership` |
| `LayerTreeFrameSinkProofs` | `FramesEmbedTheChild`, `ResourcesAreConserved`, `KeepsOwnership` |
| `VizGuiProofs` | `OnlyAcksLeak`, `FramesShowOneChild`, `KeepsOwnership` |
| `VizGuiGpuProofs` | `VizMainNeverNull`, `FramesShowTheChild`: both invariants of `viz_gui_gpu`; `ResourcesAreConserved`, `KeepsOwnership` |
| `LayerOffscreenProofs` | `NothingDrawnBeforeInitHostMain`: the invariant of `layer_offscreen`; `ActivatedOrOnTheWay`, `ResourcesAreConserved`, `KeepsOwnership` |
| `QueueProofs` | `OneClosureAtATime` (`skia_canvas`), `NothingIsUsedTooEarly` (`gpu_service`), `NoMessageIsLost`, `EveryReadMatches` (`multiple_process`), `AssociatedCallsInOrder`, `HiIsHeard` (`mojo_demos`) |
| `GraphicalDemosProofs` | `AcksAreCounted`, `OneRequestAtATime`, `NoTileIsTwice`, `MadeOnce`, `TraceGetsWhole`: all five invariants of `graphical_demos`; `Invariance` |

**Clients.** `FrameSinkProofs` has the lemmas on queues that carry resources (what an append
or a tail does to `Carried` and `Disjoint`), then one lemma for each kind of step, none
of which knows the client: the service's steps, a posted task, a call, a frame, a
return. The client modules put their actions under them, one lemma per group of
actions, and each lemma also says what the step does to the abstract state: the
provider's imported ids are what is lent, what the pipe and the display hold is what is in
use, the released ids are what is freed. The invariant shared by all of them, `SinkInv`,
has more than conservation, which is not inductive:

- a fresh id must be one that is not in use, so ids are below `provider.next`;
- a return is destroyed at once only if nothing was marked before
  (`provider.marked = {}`);
- a task other than a return must carry nothing (`OnlyReturnsCarry`, `OnlyFramesCarry`),
  or taking it from the queue would lose a resource.

`InkClientProofs` adds to it

- `Unbound`: before `Bind` has run the pipe is empty, hence the service silent, and `Bind`
  is first in the queue (for `BoundBeforeUse`);
- `BitmapsAnnounced`: every frame in the pipe, not only the first message, has its
  bitmaps registered or announced before it (for `BitmapBeforeFrame`);
- `GrowInv == OnlyChangedFrames /\ BoundOnce /\ FramesAreDrawn`, a second invariant on top
  of the first: a frame is only built when a `Draw` has added points since the last one,
  provided that `Bind` cleared `need_redraw_` and runs once.

`LayerTreeFrameSinkProofs` has `IndInv == SinkInv /\ LockHeld /\ EmbedsTheChildsSurface`:
while `lock_` is free, the id and the surface id are both set or both not.

`VizGuiProofs` uses the same lemmas for a client that leaks. Its provider never gets
back what acks return, so `SinkInv` fails of it, and holds of `kept`, the provider without
the `stranded` resources (`Kept == INSTANCE FrameSinkProofs WITH provider <- kept`). The
invariant is that, with what is stranded being imported, exported and nowhere
else. The surfaces are a separate invariant, `OneChildSurface /\ LockHeld /\ NoChildYet`.

`VizGuiGpuProofs` has to know the order of the start-up. Its `IndInv` writes out what the
queues of the two threads can hold at each stage (`GpuQueue`, `MainQueue`: seven contents
of one, four of the other), from which `InitVizMain` always stands before the request for
VizMain; how far the child is embedded (`Embedded`); and that the service says nothing
before VizMain is bound (`BeforeVizMain`), so that no frame is made before the child has
its surface. The proof follows the two threads with no word about the client, then the
client and the service with the start-up unchanged.

**LayerOffscreen.** Its `IndInv` says of the queues of the start-up only what the property
needs: in the queue of the GPU main thread `CreateGpuService` stands before the task that
makes the manager unless it has run (`GlobalsFirst`), and both the tasks that draw and those
that tell of an activated frame are there only once it has. The manager is the only one to
take frames, so none is activated before. The same invariant counts: the frames activated
are those redrawn and those waiting, as one task each, in the queue of the main thread or
of the GPU main thread (`Draws`). `ActivatedOrOnTheWay` is that count. It is the safety half of
`ActivatedAreRedrawn`: what is left to liveness is that the two queues are emptied.

**Ownership.** `KeepsOwnership` holds of all five clients of viz. `FrameSinkProofs` has one
lemma for each way in which a step can meet `BufferOwnership` (`NothingLent`, `FrameLends`,
`TakeBackFrees`, `ServicePromise`). `VizGui` keeps the promise, too: it is a promise about
what is freed, and a client that leaks frees less.

**SkiaCanvas.** `OneRenderClosure` counts closures in the queue and under delay. The
proof is about counting in a sequence; the touches in the queue have to be counted, too
(`TouchesCounted`), for the variables to keep to their range.

**GpuService.** `UsedAfterMade` speaks of the first tasks of the queues, which is not
inductive. `StartUpInv` says what the queues hold behind them: a client's `Bind` is first in
its queue until it has run (`BindComesFirst`); so is `InitIPCServer` on the host's I/O thread,
and nothing is asked of the GPU side before `server_channel_` is there (`ChannelComesFirst`);
on the GPU main thread `InitVizMain` has at most `InitIPCClient` before it
(`VizMainComesFirst`). The last rests on the order of the main thread's posts: no request
for VizMain comes back before `InitVizHost` has run, and that is posted after `InitVizMain`.

**MultipleProcess.** `PipeInv`: what has been received, what has arrived and what is in
transit are, in this order, the first messages that were sent, and until there is a
watcher as many have been received as reads of messages have been made. There are nine
writes, so the recursive function that lists the messages among them is unfolded nine
times; no induction is needed.

**MojoCalls.** `AssociatedInOrder` follows the call `SetApi2` and the two before it on their
one pipe: in the steps still to be made, among the calls that wait, and among those that have
run, it is behind the others. No other pipe ever holds one of the three, and theirs is not
closed. The scripts are data; a lemma says of each that it keeps to this order.

**ChildProcess.** For any number of clients: a channel's implementation is forgotten only
after its pipe is closed (`ServiceLives`), and the end of a channel that is on its way to a
client is that of an open channel and is in one message only (`EndsTravelOnce`). Without the
second, one message could close the channel that another delivers.

**GraphicalDemos.** Two invariants that share no variable, one each for `Programs` and
`CcFrameSink`, so that a step of one is a stutter of the other. `ProgramInv` says what a
main function has done by the step it is at: nothing was made before the window, the
demo was made once after it, the last loop is told to quit only when the trace is
flushed. For the Compositor, `CcInv` adds to its three properties that at most one task waits on
the main thread (`OneTask`), that the display is silent before the frame sink is bound
(`BeforeBinding`) and that at most one frame is pending (`OneFramePending`): cc draws
only when the last frame has been acknowledged, so there is never a second ack in the
queue. The six places of a tile are a partition; one lemma per way a tile goes.

**With TLC only.** All liveness (`MovesAreShown`, `ReplacedAreReleased`,
`ClientsAreProvided`, `ProviderArrives`, `ContextArrives`, `ActivatedAreRedrawn`,
`PointsArePainted`, `ResizesArePainted`, `RepaintingEnds`, `RepaintingGoesOn`, `ClosingEnds`, `FramesReachTheFile`,
`WatcherSeesTheEnd`, `EveryCallRuns`, `EveryClientIsServed`, `GoneClientsAreForgotten`): it needs
fairness, hence `ENABLED`, which the provers do not have. The two violations are executions,
which only TLC can show.

## 5. Not modelled

- Formats, pixels, sizes (but for the canvas of demo_skia), timing values, logging, the frame statistics, the
  PNG output: data no property speaks of. `Compositor::Resize` has an empty body.
- The reference counts of `ClientResourceProvider`: every resource is exported once.
- Shared bitmaps are never withdrawn by the code; the model keeps them as it does.
- Side effects inside `DCHECK` are taken to happen, as in a build with DCHECKs.
- Two clients at once in `VizGui`, `VizGuiGpu` and `LayerOffscreen`: each has a thread and a
  pipe of its own, and what one means to the other (a surface, an embedder) is modelled.
- A crash of the service process of demo_mojo_child_process, and a second client of an
  interface of demo_services, which the demo does not have.
- The library set-up of the main functions, and platforms that announce the widget
  later.
- The destruction of a window's members, under threads that may still use them, when `main`
  returns (demo_viz_layer, demo_viz_gui_gpu, demo_viz_layer_offscreen, demo_skia; the others
  terminate the process at once or never return), and changes of the bounds in the demos
  other than demo_skia.
- `demo_shell`, `demo_task`, `demo_gin`, `demo_mojo_v8`, `demo_mojo_single_process` and the
  examples of library calls: their state is the library's, or there is none that two
  actors share.

## 6. Plan

What is left, by what it would add:

1. Proofs of what liveness rests on: that a call of `MojoCalls` is neither lost nor run twice,
   that a frame of `OffscreenRenderer` is saved once, that a press of `SkiaCanvas` leaves a
   closure behind it.
2. `demo_skia`: the frame statistics, and the destruction of the canvas under its thread.
3. Small modules for the chains of `demo_task` and the promises of `demo_gin`, and a model of
   `demo_mojo_v8` whose browser and renderer exchange one call.
