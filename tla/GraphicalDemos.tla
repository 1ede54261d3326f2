----------------------------- MODULE GraphicalDemos -----------------------------
(***************************************************************************)
(* The main functions of Programs, with the Compositor of CcFrameSink in   *)
(* the window of demo_cc_gui and in demo_cc_offscreen, and the renderer of *)
(* OffscreenRenderer in demo_viz_offscreen.  The other programs' demos are *)
(* in modules of their own.                                                *)
(***************************************************************************)
EXTENDS Programs, CcFrameSink, OffscreenRenderer

vars == <<programVars, ccAll, rendererVars>>

Init == ProgramInit /\ CcInit /\ RendererInit

HasCompositor == program \in {"cc_gui", "cc_offscreen"} /\ made > 0 /\ ~ended

\* The main thread is where Programs has it, or inside the Compositor's constructor.
Constructing == HasCompositor /\ main # "running"

ProgramStep(A) ==
  /\ ~Constructing
  /\ A
  /\ IF program = "viz_offscreen" /\ made' > made
     THEN OffscreenRenderer
     ELSE UNCHANGED rendererVars
  /\ UNCHANGED ccAll

\* A task or a timer of the Compositor on the main thread, which runs in a run loop.
Compositor(A) ==
  /\ HasCompositor /\ (Constructing \/ InLoop)
  /\ A
  /\ UNCHANGED <<programVars, rendererVars>>

GpuThread ==
  /\ HasCompositor
  /\ InitializeGpuServiceInternal
  /\ UNCHANGED <<programVars, rendererVars>>

Renderer(A) ==
  /\ A
  /\ UNCHANGED <<programVars, ccAll>>

Next ==
  \/ ProgramStep(MainStep) \/ ProgramStep(UserStep)
  \/ Compositor(CcMainStep) \/ GpuThread
  \/ Renderer(RendererStep)

\* The threads go on; the main thread's tasks, timers and the displays' draws are all
\* served, each within a second or at the next of the display's frames.  Nothing makes
\* the user close the window.
Fairness ==
  /\ WF_vars(ProgramStep(MainStep))
  /\ WF_vars(Compositor(Start)) /\ WF_vars(GpuThread)
  /\ WF_vars(Compositor(Scheduler))
  /\ WF_vars(Compositor(SetNeedsDisplay))
  /\ WF_vars(Compositor(OnBeginFrame))
  /\ WF_vars(Compositor(OnSwapBuffers))
  /\ WF_vars(Compositor(DidReceiveCompositorFrameAckInternal))
  /\ WF_vars(Renderer(RendererStep))

Spec     == Init /\ [][Next]_vars
FairSpec == Spec /\ Fairness

-----------------------------------------------------------------------------
(***************************************************************************)
(* Properties of the composition.                                          *)
(***************************************************************************)
\* The repainting never stalls: while the window is open every painting reaches the
\* output, each through a round of requests, BeginFrames and acks.
RepaintingGoesOn ==
  HasCompositor ~> swapped = MaxPaints \/ window \in {"closing", "closed"}

\* The renderer, made on the main thread and set up on its own, comes to save its
\* last frame: the display is given the surface no later than the first frame.
FramesReachTheFile == program = "viz_offscreen" ~> saved = MaxFrames
===============================================================================
