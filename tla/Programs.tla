-------------------------------- MODULE Programs --------------------------------
(***************************************************************************)
(* The main functions of the graphical demos, from the start of the trace  *)
(* to the end of the process, and the window that the main loop serves.    *)
(*                                                                         *)
(* A main function is a sequence of steps.  Setting up libraries (command  *)
(* line, task executor, thread pool, mojo, ICU, X11) is left out: it does  *)
(* not depend on anything that runs yet.  The platform window and the      *)
(* trace log are not part of the repository.  Every platform the demos     *)
(* build for announces the widget while it creates the window.  How the    *)
(* window's members go when main returns is not modelled, nor a change of  *)
(* the window's bounds: see SkiaCanvas for the one demo that takes it in.  *)
(*                                                                         *)
(* A definition whose name starts with Faulty is a plausible mistake in    *)
(* the definition that follows it; the properties are tried against it.    *)
(***************************************************************************)
EXTENDS Integers, Sequences

CONSTANT MaxChunks      \* chunks in which the trace log hands out its events

ASSUME MaxChunksAssumption == MaxChunks \in Nat \ {0}

VARIABLES
  program,          \* the program that runs
  pc,               \* main thread: the step of the main function it is at
  trace,            \* "none", "file", "on", "flushing" or "flushed"
  chunks,           \* trace log: chunks of events not handed out
  quit,             \* the run loops that were told to quit
  window,           \* the platform window: "none", "shown", "closing" or "closed"
  widget_,          \* "null", anything else that was there, or the one announced
  close_closure_,   \* the window's closure has not been run
  made,             \* times the demo was made
  ended             \* the process has ended

programVars == <<program, pc, trace, chunks, quit, window, widget_, close_closure_, made,
                 ended>>

-----------------------------------------------------------------------------
(***************************************************************************)
(* The main functions.                                                     *)
(***************************************************************************)
StartTracing == <<"InitTrace", "StartTrace">>
FlushTracing == <<"FlushTrace", "RunFlush">>
Show         == <<"CreatePlatformWindow", "InitializeIfAvailable">>

LayerMain          == StartTracing \o Show \o <<"Run">> \o FlushTracing \o <<"Return">>
GuiGpuMain         == StartTracing \o Show \o <<"Run">> \o FlushTracing \o <<"Return">>
LayerOffscreenMain == StartTracing \o Show \o <<"Run">> \o FlushTracing \o <<"Return">>
SkiaMain           == StartTracing \o Show \o <<"Run">> \o FlushTracing \o <<"Return">>
CcGuiMain          == StartTracing \o Show \o <<"Run">> \o FlushTracing \o <<"Terminate">>

GuiMain == StartTracing \o Show \o <<"Run">> \o FlushTracing \o <<"Terminate">>

\* These two have no window, and nothing ends their main loop.
CcOffscreenMain  == <<"MakeDemo", "Run", "Return">>
VizOffscreenMain == <<"StartTrace", "MakeDemo", "Run", "Return">>

Mains ==
  [layer |-> LayerMain, gui |-> GuiMain, gui_gpu |-> GuiGpuMain,
   layer_offscreen |-> LayerOffscreenMain, cc_gui |-> CcGuiMain, skia |-> SkiaMain,
   cc_offscreen |-> CcOffscreenMain, viz_offscreen |-> VizOffscreenMain]

ProgramNames   == DOMAIN Mains
WindowPrograms == ProgramNames \ {"cc_offscreen", "viz_offscreen"}

ProgramInit ==
  /\ program \in ProgramNames /\ pc = 1
  /\ trace = "none" /\ chunks = 0 /\ quit = {}
  /\ window = "none" /\ widget_ \in {"null", "anything"} /\ close_closure_ = TRUE
  /\ made = 0 /\ ended = FALSE

At(step) == ~ended /\ Mains[program][pc] = step
InLoop   == At("Run") \/ At("RunFlush")

-----------------------------------------------------------------------------
(***************************************************************************)
(* The steps of the main functions.                                        *)
(***************************************************************************)
InitTrace ==
  /\ At("InitTrace")
  /\ pc' = pc + 1
  /\ trace' = "file"
  /\ UNCHANGED <<program, chunks, quit, window, widget_, close_closure_, made, ended>>

StartTrace ==
  /\ At("StartTrace")
  /\ pc' = pc + 1
  /\ trace' = "on"
  /\ UNCHANGED <<program, chunks, quit, window, widget_, close_closure_, made, ended>>

\* Faulty: the demo is made as soon as there is a widget.
FaultyOnAcceleratedWidgetAvailable ==
  /\ widget_' = "announced"
  /\ made' = made + 1

\* platform_window_ is set when CreatePlatformWindow has returned.  The demo is made
\* here for a platform that announces the widget later: none of those the demos build
\* for, and Create might have made one by then, of what widget_ held.
OnAcceleratedWidgetAvailable ==
  /\ widget_' = "announced"
  /\ made' = IF window # "none" THEN made + 1 ELSE made

CreatePlatformWindow ==
  /\ At("CreatePlatformWindow")
  /\ pc' = pc + 1
  /\ OnAcceleratedWidgetAvailable
  /\ window' = "shown"
  /\ UNCHANGED <<program, trace, chunks, quit, close_closure_, ended>>

Create ==
  /\ At("InitializeIfAvailable")
  /\ pc' = pc + 1
  /\ made' = IF widget_ # "null" THEN made + 1 ELSE made
  /\ UNCHANGED <<program, trace, chunks, quit, window, widget_, close_closure_, ended>>

MakeDemo ==
  /\ At("MakeDemo")
  /\ pc' = pc + 1
  /\ made' = made + 1
  /\ UNCHANGED <<program, trace, chunks, quit, window, widget_, close_closure_, ended>>

\* A run loop returns once it was told to quit.
LeaveLoop ==
  /\ InLoop /\ Mains[program][pc] \in quit
  /\ pc' = pc + 1
  /\ UNCHANGED <<program, trace, chunks, quit, window, widget_, close_closure_, made,
                 ended>>

FlushTrace ==
  /\ At("FlushTrace")
  /\ pc' = pc + 1
  /\ trace' = "flushing"
  /\ chunks' \in 1..MaxChunks
  /\ UNCHANGED <<program, quit, window, widget_, close_closure_, made, ended>>

\* Faulty: the loop is left with the first chunk.
FaultyLastChunk == TRUE

LastChunk == chunks = 1

\* The trace log hands a chunk to the callback, which writes it.
WriteChunk ==
  /\ At("RunFlush") /\ chunks > 0
  /\ chunks' = chunks - 1
  /\ IF LastChunk
     THEN /\ trace' = "flushed"
          /\ quit' = quit \cup {"RunFlush"}
     ELSE UNCHANGED <<trace, quit>>
  /\ UNCHANGED <<program, pc, window, widget_, close_closure_, made, ended>>

TerminateCurrentProcessImmediately ==
  /\ At("Terminate")
  /\ ended' = TRUE
  /\ UNCHANGED <<program, pc, trace, chunks, quit, window, widget_, close_closure_, made>>

\* The window, a local variable of main, is destroyed on the way.
Return ==
  /\ At("Return")
  /\ ended' = TRUE
  /\ UNCHANGED <<program, pc, trace, chunks, quit, window, widget_, close_closure_, made>>

-----------------------------------------------------------------------------
(***************************************************************************)
(* The callbacks of the window.                                            *)
(***************************************************************************)
OnCloseRequest ==
  /\ window = "shown" /\ InLoop
  /\ window' = "closing"
  /\ UNCHANGED <<program, pc, trace, chunks, quit, widget_, close_closure_, made, ended>>

\* Faulty: the closure has gone with an earlier callback.
FaultyOnClosed ==
  /\ window = "closing"
  /\ window' = "closed"
  /\ close_closure_' = FALSE
  /\ UNCHANGED <<program, pc, trace, chunks, quit, widget_, made, ended>>

OnClosed ==
  /\ window = "closing"
  /\ window' = "closed"
  /\ close_closure_' = FALSE
  /\ quit' = IF close_closure_ THEN quit \cup {"Run"} ELSE quit
  /\ UNCHANGED <<program, pc, trace, chunks, widget_, made, ended>>

MainStep ==
  \/ InitTrace \/ StartTrace \/ CreatePlatformWindow \/ Create \/ MakeDemo \/ LeaveLoop
  \/ FlushTrace \/ WriteChunk \/ TerminateCurrentProcessImmediately \/ Return
  \/ OnClosed

UserStep == OnCloseRequest

-----------------------------------------------------------------------------
(***************************************************************************)
(* Properties.                                                             *)
(***************************************************************************)
\* The demo is made exactly once, of the widget that was announced, before the main
\* loop runs: OnAcceleratedWidgetAvailable, inside CreatePlatformWindow, sees that
\* platform_window_ is not set and leaves the making to Create, which by then sees the
\* announced widget and not what widget_, without initialiser, held before.
DemoIsMadeOnce ==
  /\ made \in {0, 1}
  /\ made = 1 /\ program \in WindowPrograms => widget_ = "announced"
  /\ InLoop => made = 1

\* A program that traces into a file ends when the whole trace is in it: the second
\* loop waits for the last chunk, whatever closed the window and when.
TraceIsWhole ==
  ended /\ program \in WindowPrograms => trace = "flushed" /\ chunks = 0

\* Closing the window ends the process, through two run loops and the trace.
ClosingEnds == window = "closing" ~> ended

\* What makes the two invariants inductive: what a main function has done by the step
\* it is at, with a window ...
WindowedSoFar ==
  /\ pc \in 1..8
  /\ pc <= 3 => window = "none"
  /\ made = (IF pc <= 4 THEN 0 ELSE 1)
  /\ pc >= 4 => widget_ = "announced"
  /\ "RunFlush" \in quit => pc >= 7 /\ trace = "flushed" /\ chunks = 0
  /\ pc = 8 => "RunFlush" \in quit
  /\ ended => pc = 8

\* ... and without one.
WindowlessSoFar ==
  /\ pc \in 1..(Len(Mains[program]) - 1)
  /\ made = (IF pc = Len(Mains[program]) - 1 THEN 1 ELSE 0)
  /\ window = "none" /\ quit = {} /\ ~ended

ProgramInv ==
  /\ program \in ProgramNames
  /\ IF program \in WindowPrograms THEN WindowedSoFar ELSE WindowlessSoFar
===============================================================================
