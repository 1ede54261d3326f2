------------------------------ MODULE SkiaCanvas ------------------------------
(***************************************************************************)
(* SkiaCanvas of demo_skia and its two derived classes, SkiaCanvasGL and   *)
(* SkiaCanvasSoftware: the main thread constructs the canvas, resizes it   *)
(* with the window and posts touches to it; a render thread initialises    *)
(* it, collects the touches into a path and, from a press to the next      *)
(* release of any finger, repaints the path every 16 ms.                   *)
(*                                                                         *)
(* The base class's constructor posts the virtual InitializeOnRenderThread *)
(* while the derived class is still to be constructed.  What the render    *)
(* thread finds then is undefined; here it runs the override of the class  *)
(* whose constructor is running, and the members of SkiaCanvasGL that have *)
(* no initialiser hold anything until it has run.                          *)
(*                                                                         *)
(* Resize writes width_ and height_ on the main thread and a frame reads   *)
(* them on the render thread, without a lock.  Here a size is the number   *)
(* of the Resize it comes from, and a frame painted while they are written *)
(* may find the old or the new value of each.                              *)
(*                                                                         *)
(* A definition whose name starts with Faulty is a plausible mistake in    *)
(* the definition that follows it; the properties are tried against it.    *)
(***************************************************************************)
EXTENDS Naturals, Sequences, FiniteSets

CONSTANTS
  MaxTouches,    \* touches the user makes
  MaxFingers,    \* fingers (or the left button) that are down together
  MaxResizes     \* changes of the window's bounds

ASSUME TouchesAssumption ==
  MaxTouches \in Nat /\ MaxFingers \in Nat \ {0} /\ MaxResizes \in Nat

VARIABLES
  is_software_,  \* main thread: the derived class is SkiaCanvasSoftware
  stage,         \* main thread: "none", the constructor that runs, or "constructed"
  fingers,       \* main thread: presses not yet released
  touches,       \* main thread: touches posted
  width_,        \* the Resize that wrote width_ last, 0 for the constructor
  height_,       \* the same for height_
  queue,         \* tasks of the render thread
  delayed,       \* render closures posted with a delay that has not passed
  display_,      \* GL: display_ and surface_ are not null; they have no initialiser
  grContext_,    \* GL: grGLInterface_ and grContext_ are not null
  x11_presenter_,\* software: x11_presenter_ is not null
  need_redraw_,
  is_drawing_,
  seen,          \* touches taken into skPath_, or given up with an older path
  painted,       \* value of `seen` when the canvas was last painted
  size,          \* width and height of the surface painted last
  crashed        \* a null member has been used

mainVars   == <<is_software_, stage, fingers, touches, width_, height_>>
memberVars == <<display_, grContext_, x11_presenter_>>
drawVars   == <<need_redraw_, is_drawing_, seen, painted, size, crashed>>
vars       == <<mainVars, queue, delayed, memberVars, drawVars>>

Touches == {"down", "move", "up"}

At(task) == queue # <<>> /\ Head(queue) = task

-----------------------------------------------------------------------------
(***************************************************************************)
(* The main thread.                                                        *)
(***************************************************************************)
Init ==
  /\ is_software_ \in BOOLEAN      \* a switch of the command line
  /\ stage = "none" /\ fingers = 0 /\ touches = 0
  /\ width_ = 0 /\ height_ = 0
  /\ queue = <<>> /\ delayed = 0
  /\ display_ \in BOOLEAN /\ grContext_ = FALSE /\ x11_presenter_ = FALSE
  /\ need_redraw_ = FALSE /\ is_drawing_ = FALSE
  /\ seen = 0 /\ painted = 0 /\ size = <<0, 0>> /\ crashed = FALSE

\* SkiaCanvas() starts the render thread and posts the initialisation; the derived
\* class's constructor is still to run.
InitializeDemo ==
  /\ stage = "none"
  /\ stage' = "SkiaCanvas"
  /\ queue' = Append(queue, "Initialize")
  /\ UNCHANGED <<is_software_, fingers, touches, width_, height_, delayed, memberVars,
                 drawVars>>

\* From here on virtual calls reach the derived class ...
EnterDerivedConstructor ==
  /\ stage = "SkiaCanvas"
  /\ stage' = "derived"
  /\ UNCHANGED <<is_software_, fingers, touches, width_, height_, queue, delayed,
                 memberVars, drawVars>>

\* ... whose smart pointers are only now set to null.
InitializeMembers ==
  /\ stage = "derived"
  /\ stage' = "constructed"
  /\ grContext_' = FALSE /\ x11_presenter_' = FALSE
  /\ UNCHANGED <<is_software_, fingers, touches, width_, height_, queue, delayed,
                 display_, drawVars>>

Constructor == InitializeDemo \/ EnterDerivedConstructor \/ InitializeMembers

\* The main thread has a canvas and is not inside Resize.
Idle == stage = "constructed" /\ width_ = height_

\* OnBoundsChanged, which does nothing without a canvas: Resize writes width_ ...
Resize ==
  /\ Idle
  /\ width_ < MaxResizes
  /\ width_' = width_ + 1
  /\ UNCHANGED <<is_software_, stage, fingers, touches, height_, queue, delayed,
                 memberVars, drawVars>>

\* ... and then height_.
ResizeReturns ==
  /\ width_ # height_
  /\ height_' = width_
  /\ UNCHANGED <<is_software_, stage, fingers, touches, width_, queue, delayed,
                 memberVars, drawVars>>

OnTouch(touch) ==
  /\ Idle
  /\ touches < MaxTouches
  /\ IF touch = "down" THEN fingers < MaxFingers ELSE fingers > 0
  /\ touches' = touches + 1
  /\ fingers' = CASE touch = "down" -> fingers + 1
                  [] touch = "move" -> fingers
                  [] touch = "up"   -> fingers - 1
  /\ queue' = Append(queue, touch)
  /\ UNCHANGED <<is_software_, stage, width_, height_, delayed, memberVars, drawVars>>

MainThread ==
  \/ Constructor \/ Resize \/ ResizeReturns
  \/ \E touch \in Touches : OnTouch(touch)

-----------------------------------------------------------------------------
(***************************************************************************)
(* The render thread.                                                      *)
(***************************************************************************)
\* The surface is made as large as width_ and height_ say.
PaintSurface == size' \in {width_, height_} \X {width_, height_}

\* SkiaCanvasGL's
InitializeGL ==
  /\ ~is_software_
  /\ display_' = TRUE /\ grContext_' = TRUE
  /\ UNCHANGED <<x11_presenter_, size>>

\* SkiaCanvasSoftware's, which paints the background.
InitializeSoftware ==
  /\ is_software_
  /\ x11_presenter_' = TRUE
  /\ PaintSurface
  /\ UNCHANGED <<display_, grContext_>>

InitializeOnRenderThread ==
  /\ At("Initialize")
  /\ queue' = Tail(queue)
  /\ IF stage = "SkiaCanvas" THEN UNCHANGED <<memberVars, size>>
     ELSE InitializeGL \/ InitializeSoftware
  /\ UNCHANGED <<mainVars, delayed, need_redraw_, is_drawing_, seen, painted, crashed>>

\* BeginPaint finds what InitializeOnRenderThread makes.
CanPaint == IF is_software_ THEN x11_presenter_ ELSE display_ /\ grContext_

\* Faulty: the surface of the first frame is kept.
FaultyPaint(n) ==
  IF CanPaint
  THEN /\ painted' = n
       /\ IF painted = 0 THEN PaintSurface ELSE UNCHANGED size
       /\ UNCHANGED crashed
  ELSE crashed' = TRUE /\ UNCHANGED <<painted, size>>

\* BeginPaint to SwapBuffer, with `n` touches in the path or before it.
Paint(n) ==
  IF CanPaint THEN painted' = n /\ PaintSurface /\ UNCHANGED crashed
  ELSE crashed' = TRUE /\ UNCHANGED <<painted, size>>

\* OnRenderOnRenderThread when a redraw is needed.
OnRender(n) ==
  /\ is_drawing_' = TRUE
  /\ delayed' = delayed + 1
  /\ Paint(n)

\* Faulty: the last frame does not record that drawing has stopped.
FaultyOnRenderStop ==
  UNCHANGED <<is_drawing_, delayed, painted, size, crashed>>

\* Faulty: the closure is posted again before need_redraw_ is looked at.
FaultyOnRenderForever ==
  /\ delayed' = delayed + 1
  /\ UNCHANGED <<is_drawing_, painted, size, crashed>>

\* OnRenderOnRenderThread when none is.
OnRenderStop ==
  /\ is_drawing_' = FALSE
  /\ UNCHANGED <<delayed, painted, size, crashed>>

Render ==
  /\ At("render")
  /\ queue' = Tail(queue)
  /\ IF need_redraw_ THEN OnRender(seen) ELSE OnRenderStop
  /\ UNCHANGED <<mainVars, memberVars, need_redraw_, seen>>

\* Faulty: a press always starts drawing.
FaultySetNeedsRedraw(n) == need_redraw_' = TRUE /\ OnRender(n)

\* SetNeedsRedraw(true), which always runs on the render thread.
SetNeedsRedraw(n) ==
  /\ need_redraw_' = TRUE
  /\ IF is_drawing_ THEN UNCHANGED <<is_drawing_, delayed, painted, size, crashed>>
     ELSE OnRender(n)

OnTouchDown ==
  /\ At("down")
  /\ queue' = Tail(queue)
  /\ seen' = seen + 1
  /\ SetNeedsRedraw(seen')
  /\ UNCHANGED <<mainVars, memberVars>>

OnTouchMove ==
  /\ At("move")
  /\ queue' = Tail(queue)
  /\ seen' = seen + 1
  /\ UNCHANGED <<mainVars, delayed, memberVars, need_redraw_, is_drawing_, painted,
                 size, crashed>>

OnTouchUp ==
  /\ At("up")
  /\ queue' = Tail(queue)
  /\ seen' = seen + 1
  /\ need_redraw_' = FALSE
  /\ UNCHANGED <<mainVars, delayed, memberVars, is_drawing_, painted, size, crashed>>

\* 16 ms have passed.
DelayPasses ==
  /\ delayed > 0
  /\ delayed' = delayed - 1
  /\ queue' = Append(queue, "render")
  /\ UNCHANGED <<mainVars, memberVars, drawVars>>

RenderThread ==
  InitializeOnRenderThread \/ Render \/ OnTouchDown \/ OnTouchMove \/ OnTouchUp

Next == ~crashed /\ (MainThread \/ RenderThread \/ DelayPasses)

\* The threads run; the user need not touch or resize.
Fairness ==
  /\ WF_vars(~crashed /\ (Constructor \/ ResizeReturns))
  /\ WF_vars(~crashed /\ RenderThread)
  /\ WF_vars(~crashed /\ DelayPasses)

Spec     == Init /\ [][Next]_vars
FairSpec == Spec /\ Fairness

-----------------------------------------------------------------------------
(***************************************************************************)
(* Properties.                                                             *)
(***************************************************************************)
\* Render closures that are still to run.
Pending == delayed + Cardinality({i \in 1..Len(queue) : queue[i] = "render"})

\* Every variable keeps to its range, and a touch is counted once.
TypeOK ==
  /\ is_software_ \in BOOLEAN
  /\ stage \in {"none", "SkiaCanvas", "derived", "constructed"}
  /\ fingers \in 0..MaxFingers /\ touches \in 0..MaxTouches
  /\ width_ \in 0..MaxResizes /\ height_ \in 0..MaxResizes
  /\ queue \in Seq(Touches \cup {"Initialize", "render"}) /\ delayed \in Nat
  /\ display_ \in BOOLEAN /\ grContext_ \in BOOLEAN /\ x11_presenter_ \in BOOLEAN
  /\ need_redraw_ \in BOOLEAN /\ is_drawing_ \in BOOLEAN /\ crashed \in BOOLEAN
  /\ seen \in 0..touches /\ painted \in 0..seen
  /\ size \in (0..MaxResizes) \X (0..MaxResizes)

\* There is one render closure under way while the canvas is drawing and none
\* when it is not: taps that follow each other within a frame neither double the
\* frame rate nor stop it (is_drawing_ against the closure that re-posts itself).
\* Every variable keeps to its range.
OneRenderClosure == TypeOK /\ Pending = IF is_drawing_ THEN 1 ELSE 0

\* What makes OneRenderClosure inductive: a touch is either under way or taken into
\* the path, so the path never has more than the user made.
TouchesCounted ==
  seen + Cardinality({i \in 1..Len(queue) : queue[i] \in Touches}) = touches

IndInv == OneRenderClosure /\ TouchesCounted

\* A finger or the button has been released, and the render thread is still to know.
Lifting == \E i \in DOMAIN queue : queue[i] = "up"

\* From a press to the next release, every point that reached the path is painted.
\* The release may be another finger's: need_redraw_ does not count fingers, and what
\* the others draw after it is not painted before the next press, which starts a new
\* path.  As long as there never is more than one finger, every point of a press that
\* is not over is painted.
PointsArePainted ==
  /\ \A n \in 1..MaxTouches :
       need_redraw_ /\ seen = n ~> painted >= n \/ Lifting \/ crashed
  /\ [](fingers <= 1) =>
       \A n \in 1..MaxTouches :
         fingers = 1 /\ seen = n ~> painted >= n \/ Lifting \/ crashed

\* A new size of the window reaches the canvas while it is drawing, though width_ and
\* height_ are written under the frames that read them: a frame may be painted with
\* one of each, but after it comes one with both, until a release or the next Resize.
ResizesArePainted ==
  \A k \in 1..MaxResizes :
    need_redraw_ /\ width_ = k /\ height_ = k
      ~> size = <<k, k>> \/ width_ > k \/ Lifting \/ crashed

\* After the release the repainting ends.
RepaintingEnds == ~need_redraw_ ~> Pending = 0 \/ need_redraw_ \/ crashed

\* DCHECK(display_) in SkiaCanvasGL::BeginPaint: a GL canvas has been initialised
\* on the render thread when it is painted there for the first time.
DisplayIsSet ==
  (At("down") /\ ~is_drawing_) \/ (At("render") /\ need_redraw_)
    => is_software_ \/ display_
===============================================================================
