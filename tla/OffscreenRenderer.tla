--------------------------- MODULE OffscreenRenderer ---------------------------
(***************************************************************************)
(* demo_viz_offscreen.cc: a thread that draws into a display of its own,   *)
(* once a second; the display saves what it shows to a file.               *)
(*                                                                         *)
(* The constructor, on the main thread, starts the thread and posts        *)
(* InitializeOnThread; after that only the thread uses the renderer.  The  *)
(* frames have one quad of a solid colour, hence no resources to return:   *)
(* acks and reclaims have empty bodies.  viz is external.                  *)
(*                                                                         *)
(* A definition whose name starts with Faulty is a plausible mistake in    *)
(* the definition that follows it; the properties are tried against it.    *)
(***************************************************************************)
EXTENDS Integers

CONSTANT MaxFrames      \* frames the renderer draws

ASSUME MaxFramesAssumption == MaxFrames \in Nat \ {0}

VARIABLES
  posted,                   \* InitializeOnThread is posted to thread_
  observing_,               \* support_ has been asked for BeginFrames
  local_surface_id_,        \* display_ has been given the root surface
  frame_token_generator_,   \* the token of the last frame
  activated,                \* viz: the token of the active frame, or 0
  saved                     \* the token of the frame last saved

rendererVars == <<posted, observing_, local_surface_id_, frame_token_generator_, activated,
                  saved>>

RendererInit ==
  /\ posted = FALSE /\ observing_ = FALSE /\ local_surface_id_ = FALSE
  /\ frame_token_generator_ = 0 /\ activated = 0 /\ saved = 0

OffscreenRenderer ==
  /\ posted' = TRUE
  /\ UNCHANGED <<observing_, local_surface_id_, frame_token_generator_, activated, saved>>

InitializeOnThread ==
  /\ posted
  /\ posted' = FALSE
  /\ observing_' = TRUE
  /\ UNCHANGED <<local_surface_id_, frame_token_generator_, activated, saved>>

\* Frames are numbered by their tokens; the colour follows from the token.
CreateFrame == frame_token_generator_ + 1

\* Faulty: the display is never given the surface.
FaultySetLocalSurfaceId == UNCHANGED local_surface_id_

SetLocalSurfaceId == local_surface_id_' = (local_surface_id_ \/ activated = 0)

\* A root frame that waits for nothing is active at once.
RendererOnBeginFrame ==
  /\ observing_ /\ frame_token_generator_ < MaxFrames
  /\ SetLocalSurfaceId
  /\ frame_token_generator_' = CreateFrame
  /\ activated' = CreateFrame
  /\ UNCHANGED <<posted, observing_, saved>>

\* The display draws the active frame; its output device saves the picture.
RendererOnSwapBuffers ==
  /\ local_surface_id_ /\ saved # activated
  /\ saved' = activated
  /\ UNCHANGED <<posted, observing_, local_surface_id_, frame_token_generator_, activated>>

RendererStep == InitializeOnThread \/ RendererOnBeginFrame \/ RendererOnSwapBuffers
===============================================================================
