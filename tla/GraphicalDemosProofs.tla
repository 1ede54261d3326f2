-------------------------- MODULE GraphicalDemosProofs --------------------------
(***************************************************************************)
(* The safety properties of GraphicalDemos for any number of paintings,    *)
(* chunks of the trace and frames: ProgramInv of the main functions and    *)
(* CcInv of the Compositor are inductive.                                  *)
(***************************************************************************)
EXTENDS GraphicalDemos, TLAPS, SequenceTheorems, FiniteSetTheorems

-----------------------------------------------------------------------------
(***************************************************************************)
(* The main functions, step by step.                                       *)
(***************************************************************************)
StepNames ==
  {"InitTrace", "StartTrace", "CreatePlatformWindow", "InitializeIfAvailable", "MakeDemo",
   "Run", "FlushTrace", "RunFlush", "Return", "Terminate"}

\* Sequences of one and two steps.
LEMMA Single ==
  ASSUME NEW S, NEW x \in S
  PROVE  <<x>> \in Seq(S) /\ Len(<<x>>) = 1 /\ <<x>>[1] = x
OBVIOUS

LEMMA Pair ==
  ASSUME NEW S, NEW x \in S, NEW y \in S
  PROVE  /\ <<x, y>> \in Seq(S) /\ Len(<<x, y>>) = 2
         /\ <<x, y>>[1] = x /\ <<x, y>>[2] = y
OBVIOUS

\* u is s followed by t.
Joined(s, t, u) ==
  /\ u \in Seq(StepNames) /\ Len(u) = Len(s) + Len(t)
  /\ \A i \in 1..Len(s) : u[i] = s[i]
  /\ \A i \in 1..Len(t) : u[Len(s) + i] = t[i]

LEMMA Join ==
  ASSUME NEW s \in Seq(StepNames), NEW t \in Seq(StepNames)
  PROVE  Joined(s, t, s \o t)
<1>1. Len(s) \in Nat /\ Len(t) \in Nat
  BY LenProperties
<1>2. s \o t \in Seq(StepNames) /\ Len(s \o t) = Len(s) + Len(t)
  BY ConcatProperties
<1>3. \A i \in 1..(Len(s)+Len(t)) : (s \o t)[i] = IF i <= Len(s) THEN s[i] ELSE t[i - Len(s)]
  BY ConcatProperties
<1>4. ASSUME NEW i \in 1..Len(t) PROVE (s \o t)[Len(s) + i] = t[i]
  <2>1. Len(s)+i \in 1..(Len(s)+Len(t)) /\ ~(Len(s) + i <= Len(s)) /\ (Len(s)+i)-Len(s) = i
    BY <1>1
  <2> QED BY <1>3, <2>1
<1>5. ASSUME NEW i \in 1..Len(s) PROVE (s \o t)[i] = s[i]
  <2>1. i \in 1..(Len(s)+Len(t)) /\ i <= Len(s)
    BY <1>1
  <2> QED BY <1>3, <2>1
<1> QED BY <1>2, <1>4, <1>5 DEF Joined

MainOf(last) == StartTracing \o Show \o <<"Run">> \o FlushTracing \o <<last>>

\* What m does when it is the main function of a program with a window.
IsMain(m, last) ==
  /\ Len(m) = 8
  /\ m[1] = "InitTrace" /\ m[2] = "StartTrace"
  /\ m[3] = "CreatePlatformWindow" /\ m[4] = "InitializeIfAvailable"
  /\ m[5] = "Run" /\ m[6] = "FlushTrace" /\ m[7] = "RunFlush" /\ m[8] = last

LEMMA MainOfResult ==
  ASSUME NEW last \in StepNames
  PROVE  IsMain(MainOf(last), last)
<1> DEFINE a == StartTracing \o Show
           b == a \o <<"Run">>
           c == b \o FlushTracing
           m == c \o <<last>>
<1>1. /\ StartTracing \in Seq(StepNames) /\ Len(StartTracing) = 2
      /\ StartTracing[1] = "InitTrace" /\ StartTracing[2] = "StartTrace"
  BY Pair DEF StartTracing, StepNames
<1>2. /\ Show \in Seq(StepNames) /\ Len(Show) = 2
      /\ Show[1] = "CreatePlatformWindow" /\ Show[2] = "InitializeIfAvailable"
  BY Pair DEF Show, StepNames
<1>3. /\ FlushTracing \in Seq(StepNames) /\ Len(FlushTracing) = 2
      /\ FlushTracing[1] = "FlushTrace" /\ FlushTracing[2] = "RunFlush"
  BY Pair DEF FlushTracing, StepNames
<1>4. /\ \A x \in StepNames : <<x>> \in Seq(StepNames) /\ Len(<<x>>) = 1 /\ <<x>>[1] = x
      /\ "Run" \in StepNames
  BY Single DEF StepNames
<1>5. /\ a \in Seq(StepNames) /\ Len(a) = 4
      /\ a[1] = "InitTrace" /\ a[2] = "StartTrace"
      /\ a[3] = "CreatePlatformWindow" /\ a[4] = "InitializeIfAvailable"
  <2>1. Joined(StartTracing, Show, a)
    BY <1>1, <1>2, Join, Zenon
  <2> HIDE DEF a
  <2> QED BY <1>1, <1>2, <2>1 DEF Joined
<1> HIDE DEF a
<1>6. /\ b \in Seq(StepNames) /\ Len(b) = 5
      /\ \A i \in 1..4 : b[i] = a[i]
      /\ b[5] = "Run"
  <2>1. Joined(a, <<"Run">>, b)
    BY <1>4, <1>5, Join, Zenon
  <2> HIDE DEF b
  <2> QED BY <1>4, <1>5, <2>1 DEF Joined
<1> HIDE DEF b
<1>7. /\ c \in Seq(StepNames) /\ Len(c) = 7
      /\ \A i \in 1..5 : c[i] = b[i]
      /\ c[6] = "FlushTrace" /\ c[7] = "RunFlush"
  <2>1. Joined(b, FlushTracing, c)
    BY <1>3, <1>6, Join, Zenon
  <2> HIDE DEF c
  <2> QED BY <1>3, <1>6, <2>1 DEF Joined
<1> HIDE DEF c
<1>8. /\ Len(m) = 8
      /\ \A i \in 1..7 : m[i] = c[i]
      /\ m[8] = last
  <2>1. Joined(c, <<last>>, m)
    BY <1>4, <1>7, Join, Zenon
  <2> HIDE DEF m
  <2> QED BY <1>4, <1>7, <2>1 DEF Joined
<1> HIDE DEF m
<1>9. IsMain(m, last)
  BY <1>5, <1>6, <1>7, <1>8 DEF IsMain
<1> QED BY <1>9 DEF MainOf, a, b, c, m

\* Every program with a window has such a main function.
LEMMA WindowedMains ==
  ASSUME NEW p \in WindowPrograms
  PROVE  /\ p \in ProgramNames
         /\ \/ /\ p \in {"layer", "gui_gpu", "layer_offscreen", "skia"}
               /\ IsMain(Mains[p], "Return")
            \/ /\ p \in {"gui", "cc_gui"}
               /\ IsMain(Mains[p], "Terminate")
<1>1. p \in {"layer", "gui", "gui_gpu", "layer_offscreen", "cc_gui", "skia"}
  BY DEF WindowPrograms, ProgramNames, Mains
<1>2. p \in ProgramNames
  BY <1>1 DEF ProgramNames, Mains
<1>3. "Return" \in StepNames /\ "Terminate" \in StepNames
  BY DEF StepNames
<1>4. IsMain(MainOf("Return"), "Return") /\ IsMain(MainOf("Terminate"), "Terminate")
  BY <1>3, MainOfResult
<1>5. /\ LayerMain = MainOf("Return") /\ GuiGpuMain = MainOf("Return")
      /\ LayerOffscreenMain = MainOf("Return") /\ SkiaMain = MainOf("Return")
      /\ GuiMain = MainOf("Terminate") /\ CcGuiMain = MainOf("Terminate")
  BY Zenon DEF LayerMain, GuiGpuMain, LayerOffscreenMain, SkiaMain, GuiMain, CcGuiMain, MainOf
<1>6. /\ Mains["layer"] = LayerMain /\ Mains["gui_gpu"] = GuiGpuMain
      /\ Mains["layer_offscreen"] = LayerOffscreenMain /\ Mains["skia"] = SkiaMain
      /\ Mains["gui"] = GuiMain /\ Mains["cc_gui"] = CcGuiMain
  BY DEF Mains
<1>7. p \in {"layer", "gui_gpu", "layer_offscreen", "skia"} => IsMain(Mains[p], "Return")
  BY <1>4, <1>5, <1>6
<1>8. p \in {"gui", "cc_gui"} => IsMain(Mains[p], "Terminate")
  BY <1>4, <1>5, <1>6
<1> QED BY <1>1, <1>2, <1>7, <1>8

\* The other two make their demo and run for ever.
LEMMA WindowlessMains ==
  ASSUME NEW p \in ProgramNames, p \notin WindowPrograms
  PROVE  \/ /\ Len(Mains[p]) = 3
            /\ Mains[p][1] = "MakeDemo" /\ Mains[p][2] = "Run" /\ Mains[p][3] = "Return"
         \/ /\ Len(Mains[p]) = 4
            /\ Mains[p][1] = "StartTrace" /\ Mains[p][2] = "MakeDemo"
            /\ Mains[p][3] = "Run" /\ Mains[p][4] = "Return"
<1>1. p \in {"cc_offscreen", "viz_offscreen"}
  BY DEF WindowPrograms, ProgramNames, Mains
<1>2. Mains["cc_offscreen"] = CcOffscreenMain /\ Mains["viz_offscreen"] = VizOffscreenMain
  BY DEF Mains
<1>3. /\ Len(CcOffscreenMain) = 3
      /\ CcOffscreenMain[1] = "MakeDemo" /\ CcOffscreenMain[2] = "Run"
      /\ CcOffscreenMain[3] = "Return"
  BY DEF CcOffscreenMain
<1>4. /\ Len(VizOffscreenMain) = 4
      /\ VizOffscreenMain[1] = "StartTrace" /\ VizOffscreenMain[2] = "MakeDemo"
      /\ VizOffscreenMain[3] = "Run" /\ VizOffscreenMain[4] = "Return"
  BY DEF VizOffscreenMain
<1> QED BY <1>1, <1>2, <1>3, <1>4

\* The step a program with a window is at, by its number.
LEMMA WindowedAt ==
  ASSUME program \in WindowPrograms, pc \in 1..8
  PROVE  /\ At("InitTrace") <=> ~ended /\ pc = 1
         /\ At("StartTrace") <=> ~ended /\ pc = 2
         /\ At("CreatePlatformWindow") <=> ~ended /\ pc = 3
         /\ At("InitializeIfAvailable") <=> ~ended /\ pc = 4
         /\ At("Run") <=> ~ended /\ pc = 5
         /\ At("FlushTrace") <=> ~ended /\ pc = 6
         /\ At("RunFlush") <=> ~ended /\ pc = 7
         /\ At("Return") => pc = 8 /\ Mains[program][8] = "Return"
         /\ At("Terminate") => pc = 8
         /\ ~At("MakeDemo")
<1>1. IsMain(Mains[program], "Return") \/ IsMain(Mains[program], "Terminate")
  BY WindowedMains
<1>2. pc \in {1, 2, 3, 4, 5, 6, 7, 8}
  OBVIOUS
<1> QED BY <1>1, <1>2 DEF IsMain, At

-----------------------------------------------------------------------------
(***************************************************************************)
(* The steps of the main functions and the window.                         *)
(***************************************************************************)
LEMMA ProgramInitInv == ProgramInit => ProgramInv
<1> SUFFICES ASSUME ProgramInit PROVE ProgramInv
  OBVIOUS
<1>1. program \in WindowPrograms => WindowedSoFar
  BY DEF ProgramInit, WindowedSoFar
<1>2. program \notin WindowPrograms => WindowlessSoFar
  BY WindowlessMains DEF ProgramInit, WindowlessSoFar
<1> QED BY <1>1, <1>2 DEF ProgramInit, ProgramInv

\* A program with a window.
LEMMA WindowedStep ==
  ASSUME ProgramInv, program \in WindowPrograms, MainStep \/ UserStep
  PROVE  WindowedSoFar' /\ program' = program
<1>1. WindowedSoFar
  BY DEF ProgramInv
<1>2. /\ At("InitTrace") <=> ~ended /\ pc = 1
      /\ At("StartTrace") <=> ~ended /\ pc = 2
      /\ At("CreatePlatformWindow") <=> ~ended /\ pc = 3
      /\ At("InitializeIfAvailable") <=> ~ended /\ pc = 4
      /\ At("Run") <=> ~ended /\ pc = 5
      /\ At("FlushTrace") <=> ~ended /\ pc = 6
      /\ At("RunFlush") <=> ~ended /\ pc = 7
      /\ At("Return") => pc = 8 /\ Mains[program][8] = "Return"
      /\ At("Terminate") => pc = 8
      /\ ~At("MakeDemo")
  BY <1>1, WindowedAt DEF WindowedSoFar
<1>3. CASE InitTrace
  BY <1>1, <1>2, <1>3 DEF InitTrace, WindowedSoFar
<1>4. CASE StartTrace
  BY <1>1, <1>2, <1>4 DEF StartTrace, WindowedSoFar
<1>5. CASE CreatePlatformWindow
  BY <1>1, <1>2, <1>5 DEF CreatePlatformWindow, OnAcceleratedWidgetAvailable, WindowedSoFar
<1>6. CASE Create
  BY <1>1, <1>2, <1>6 DEF Create, WindowedSoFar
<1>7. CASE LeaveLoop
  <2>1. \/ pc = 5 /\ Mains[program][pc] = "Run"
        \/ pc = 7 /\ Mains[program][pc] = "RunFlush"
    BY <1>2, <1>7 DEF LeaveLoop, InLoop, At
  <2> QED BY <1>1, <1>7, <2>1 DEF LeaveLoop, WindowedSoFar
<1>8. CASE FlushTrace
  BY <1>1, <1>2, <1>8 DEF FlushTrace, WindowedSoFar
<1>9. CASE WriteChunk
  BY <1>1, <1>2, <1>9 DEF WriteChunk, LastChunk, WindowedSoFar
<1>10. CASE TerminateCurrentProcessImmediately
  BY <1>1, <1>2, <1>10 DEF TerminateCurrentProcessImmediately, WindowedSoFar
<1>12. CASE Return
  BY <1>1, <1>2, <1>12 DEF Return, WindowedSoFar
<1>13. CASE OnClosed
  BY <1>1, <1>13 DEF OnClosed, WindowedSoFar
<1>15. CASE OnCloseRequest
  BY <1>1, <1>15 DEF OnCloseRequest, WindowedSoFar
<1>17. CASE MakeDemo
  BY <1>2, <1>17 DEF MakeDemo
<1> QED BY <1>3, <1>4, <1>5, <1>6, <1>7, <1>8, <1>9, <1>10, <1>12, <1>13, <1>15, <1>17
        DEF MainStep, UserStep

\* The step a program without a window is at.
LEMMA WindowlessAt ==
  ASSUME program \in ProgramNames, program \notin WindowPrograms, WindowlessSoFar
  PROVE  \/ /\ Len(Mains[program]) = 3
            /\ \/ pc = 1 /\ made = 0 /\ Mains[program][pc] = "MakeDemo"
               \/ pc = 2 /\ made = 1 /\ Mains[program][pc] = "Run"
         \/ /\ Len(Mains[program]) = 4
            /\ \/ pc = 1 /\ made = 0 /\ Mains[program][pc] = "StartTrace"
               \/ pc = 2 /\ made = 0 /\ Mains[program][pc] = "MakeDemo"
               \/ pc = 3 /\ made = 1 /\ Mains[program][pc] = "Run"
<1>1. /\ pc \in 1..(Len(Mains[program]) - 1)
      /\ made = (IF pc = Len(Mains[program]) - 1 THEN 1 ELSE 0)
  BY DEF WindowlessSoFar
<1>2. CASE /\ Len(Mains[program]) = 3
           /\ Mains[program][1] = "MakeDemo" /\ Mains[program][2] = "Run"
  <2>1. pc = 1 \/ pc = 2
    BY <1>1, <1>2
  <2>2. (pc = 1 => made = 0) /\ (pc = 2 => made = 1)
    BY <1>1, <1>2
  <2> QED BY <1>2, <2>1, <2>2
<1>3. CASE /\ Len(Mains[program]) = 4
           /\ Mains[program][1] = "StartTrace" /\ Mains[program][2] = "MakeDemo"
           /\ Mains[program][3] = "Run"
  <2>1. pc = 1 \/ pc = 2 \/ pc = 3
    BY <1>1, <1>3
  <2>2. (pc = 1 => made = 0) /\ (pc = 2 => made = 0) /\ (pc = 3 => made = 1)
    BY <1>1, <1>3
  <2> QED BY <1>3, <2>1, <2>2
<1> QED BY <1>2, <1>3, WindowlessMains

\* A program without a window makes its demo and stays in its loop.
LEMMA WindowlessStep ==
  ASSUME ProgramInv, program \notin WindowPrograms, MainStep \/ UserStep
  PROVE  WindowlessSoFar' /\ program' = program
<1>1. WindowlessSoFar /\ program \in ProgramNames
  BY DEF ProgramInv
<1>2. \/ /\ Len(Mains[program]) = 3
         /\ \/ pc = 1 /\ made = 0 /\ Mains[program][pc] = "MakeDemo"
            \/ pc = 2 /\ made = 1 /\ Mains[program][pc] = "Run"
      \/ /\ Len(Mains[program]) = 4
         /\ \/ pc = 1 /\ made = 0 /\ Mains[program][pc] = "StartTrace"
            \/ pc = 2 /\ made = 0 /\ Mains[program][pc] = "MakeDemo"
            \/ pc = 3 /\ made = 1 /\ Mains[program][pc] = "Run"
  BY <1>1, WindowlessAt
<1>3. pc \in 1..(Len(Mains[program]) - 1)
  BY <1>1 DEF WindowlessSoFar
<1>4. /\ ~At("InitTrace") /\ ~At("CreatePlatformWindow") /\ ~At("InitializeIfAvailable")
      /\ ~At("FlushTrace") /\ ~At("RunFlush") /\ ~At("Return") /\ ~At("Terminate")
  BY <1>2 DEF At
<1>5. ~InitTrace /\ ~CreatePlatformWindow /\ ~Create /\ ~FlushTrace /\ ~WriteChunk
  BY <1>4 DEF InitTrace, CreatePlatformWindow, Create, FlushTrace, WriteChunk
<1>6. ~TerminateCurrentProcessImmediately /\ ~Return
  BY <1>4 DEF TerminateCurrentProcessImmediately, Return
<1>7. ~LeaveLoop /\ ~OnClosed /\ ~OnCloseRequest
  BY <1>1 DEF WindowlessSoFar, LeaveLoop, OnClosed, OnCloseRequest
<1>8. CASE StartTrace
  <2>1. Len(Mains[program]) = 4 /\ pc = 1 /\ pc' = 2 /\ made = 0 /\ made' = 0
    BY <1>2, <1>8 DEF StartTrace, At
  <2> QED BY <1>1, <1>8, <2>1 DEF StartTrace, WindowlessSoFar
<1>9. CASE MakeDemo
  <2>1. \/ Len(Mains[program]) = 3 /\ pc' = 2 /\ made' = 1
        \/ Len(Mains[program]) = 4 /\ pc' = 3 /\ made' = 1
    BY <1>2, <1>9 DEF MakeDemo, At
  <2>2. UNCHANGED <<program, window, quit, ended>>
    BY <1>9 DEF MakeDemo
  <2>3. /\ pc' \in 1..(Len(Mains[program]) - 1)
        /\ made' = (IF pc' = Len(Mains[program]) - 1 THEN 1 ELSE 0)
    <3>1. CASE Len(Mains[program]) = 3 /\ pc' = 2 /\ made' = 1
      BY <3>1
    <3>2. CASE Len(Mains[program]) = 4 /\ pc' = 3 /\ made' = 1
      BY <3>2
    <3> QED BY <2>1, <3>1, <3>2
  <2> QED BY <1>1, <2>2, <2>3 DEF WindowlessSoFar
<1> QED BY <1>5, <1>6, <1>7, <1>8, <1>9 DEF MainStep, UserStep

LEMMA ProgramInvStep ==
  ASSUME ProgramInv, \/ MainStep \/ UserStep
                     \/ UNCHANGED programVars
  PROVE  ProgramInv'
<1>1. CASE UNCHANGED programVars
  BY <1>1 DEF ProgramInv, WindowedSoFar, WindowlessSoFar, programVars
<1>2. CASE MainStep \/ UserStep
  BY <1>2, WindowedStep, WindowlessStep DEF ProgramInv
<1> QED BY <1>1, <1>2

\* The two properties follow.
LEMMA ProgramProperties ==
  ASSUME ProgramInv
  PROVE  DemoIsMadeOnce /\ TraceIsWhole
<1>1. CASE program \in WindowPrograms
  <2>1. WindowedSoFar
    BY <1>1 DEF ProgramInv
  <2>2. /\ At("Run") => pc = 5
        /\ At("RunFlush") => pc = 7
    BY <1>1, <2>1, WindowedAt DEF WindowedSoFar
  <2>3. DemoIsMadeOnce
    BY <2>1, <2>2 DEF DemoIsMadeOnce, InLoop, WindowedSoFar
  <2>6. TraceIsWhole
    BY <2>1 DEF TraceIsWhole, WindowedSoFar
  <2> QED BY <2>3, <2>6
<1>2. CASE program \notin WindowPrograms
  <2>1. WindowlessSoFar /\ program \in ProgramNames
    BY <1>2 DEF ProgramInv
  <2>2. (Mains[program][pc] = "Run" => made = 1) /\ Mains[program][pc] # "RunFlush"
    BY <1>2, <2>1, WindowlessAt
  <2>3. InLoop => made = 1
    BY <2>2 DEF InLoop, At
  <2>4. DemoIsMadeOnce
    BY <1>2, <2>1, <2>3 DEF DemoIsMadeOnce, WindowlessSoFar
  <2> QED BY <1>2, <2>1, <2>4 DEF TraceIsWhole, WindowlessSoFar
<1> QED BY <1>1, <1>2

-----------------------------------------------------------------------------
(***************************************************************************)
(* Where the tiles are.                                                    *)
(***************************************************************************)
\* The six places together hold n, and no two of them share a tile.
Partition(n, a, b, c, d, e, f) ==
  /\ a \cup b \cup c \cup d \cup e \cup f = n
  /\ a \cap b = {} /\ a \cap c = {} /\ a \cap d = {} /\ a \cap e = {} /\ a \cap f = {}
  /\ b \cap c = {} /\ b \cap d = {} /\ b \cap e = {} /\ b \cap f = {}
  /\ c \cap d = {} /\ c \cap e = {} /\ c \cap f = {}
  /\ d \cap e = {} /\ d \cap f = {}
  /\ e \cap f = {}

LEMMA SixPlaces ==
  ASSUME NEW n, NEW a, NEW b, NEW c, NEW d, NEW e, NEW f
  PROVE  LET places == <<a, b, c, d, e, f>>
         IN  (/\ UNION {places[i] : i \in 1..6} = n
              /\ \A i, j \in 1..6 : i # j => places[i] \cap places[j] = {})
             <=> Partition(n, a, b, c, d, e, f)
<1> DEFINE places == <<a, b, c, d, e, f>>
<1>1. /\ places[1] = a /\ places[2] = b /\ places[3] = c
      /\ places[4] = d /\ places[5] = e /\ places[6] = f
  OBVIOUS
<1>2. 1..6 = {1, 2, 3, 4, 5, 6}
  OBVIOUS
<1> HIDE DEF places
<1>3. UNION {places[i] : i \in 1..6} = a \cup b \cup c \cup d \cup e \cup f
  BY <1>1, <1>2
<1>4. ASSUME \A i, j \in 1..6 : i # j => places[i] \cap places[j] = {},
             UNION {places[i] : i \in 1..6} = n
      PROVE  Partition(n, a, b, c, d, e, f)
  BY <1>1, <1>2, <1>3, <1>4 DEF Partition
<1>5. ASSUME Partition(n, a, b, c, d, e, f), NEW i \in 1..6, NEW j \in 1..6, i # j
      PROVE  places[i] \cap places[j] = {}
  <2>1. i \in {1, 2, 3, 4, 5, 6} /\ j \in {1, 2, 3, 4, 5, 6}
    BY <1>2
  <2> QED BY <1>1, <1>5, <2>1 DEF Partition
<1>6. Partition(n, a, b, c, d, e, f) => UNION {places[i] : i \in 1..6} = n
  BY <1>3 DEF Partition
<1> QED BY <1>4, <1>5, <1>6 DEF places

\* What can happen to the tiles: a new one, a frame drawn, tiles that move on.
LEMMA NewTile ==
  ASSUME NEW n \in Nat, NEW b, NEW c, NEW d, NEW e, NEW f,
         Partition(1..n, {}, b, c, d, e, f)
  PROVE  Partition(1..(n + 1), {n + 1}, b, c, d, e, f)
<1>1. 1..(n + 1) = (1..n) \cup {n + 1} /\ n + 1 \notin 1..n
  OBVIOUS
<1> QED BY <1>1 DEF Partition

LEMMA DrawnTile ==
  ASSUME NEW n, NEW a, NEW b, NEW c, NEW d, NEW e, NEW f,
         Partition(n, a, b, c, d, e, f)
  PROVE  Partition(n, {}, a, c \cup b, d, e, f)
BY DEF Partition

LEMMA HeldTiles ==
  ASSUME NEW n, NEW a, NEW b, NEW c, NEW d, NEW e, NEW f,
         Partition(n, a, b, c, d, e, f)
  PROVE  Partition(n, a, b, {}, d \cup c, e, f)
BY DEF Partition

LEMMA LostTiles ==
  ASSUME NEW n, NEW a, NEW b, NEW c, NEW d, NEW e, NEW f,
         Partition(n, a, b, c, d, e, f)
  PROVE  Partition(n, a, b, {}, d, e, f \cup c)
BY DEF Partition

LEMMA ReusedTiles ==
  ASSUME NEW n, NEW a, NEW b, NEW c, NEW d, NEW e, NEW f,
         Partition(n, a, b, c, d, e, f)
  PROVE  Partition(n, a, b, c, {}, e \cup d, f)
BY DEF Partition

-----------------------------------------------------------------------------
(***************************************************************************)
(* The task of the main thread.                                            *)
(***************************************************************************)
\* What a queue of tasks carries, and whether its first one is an ack.
Carry(q) == UNION {q[i].res : i \in 1..Len(q)}
Acks(q)  == IF q # <<>> /\ Head(q).op = AckOp THEN 1 ELSE 0

LEMMA NoTask ==
  Carry(<<>>) = {} /\ Acks(<<>>) = 0
BY DEF Carry, Acks

LEMMA SingleTask ==
  ASSUME NEW op, NEW res
  PROVE  LET q == <<Task(op, res)>>
         IN  /\ q # <<>> /\ Len(q) = 1 /\ q[1] = Task(op, res)
             /\ Head(q) = Task(op, res) /\ Tail(q) = <<>>
             /\ Head(q).op = op /\ Head(q).res = res
             /\ Carry(q) = res
             /\ Acks(q) = (IF op = AckOp THEN 1 ELSE 0)
<1> DEFINE q == <<Task(op, res)>>
<1>1. q # <<>> /\ Len(q) = 1 /\ q[1] = Task(op, res) /\ Head(q) = Task(op, res)
  OBVIOUS
<1>2. Tail(q) = <<>>
  OBVIOUS
<1>3. Task(op, res).op = op /\ Task(op, res).res = res
  BY DEF Task
<1> HIDE DEF q
<1>4. {q[i].res : i \in 1..Len(q)} = {res}
  BY <1>1, <1>3
<1> QED BY <1>1, <1>2, <1>3, <1>4 DEF Carry, Acks, q

LEMMA FirstTask ==
  ASSUME NEW op, NEW res
  PROVE  Append(<<>>, Task(op, res)) = <<Task(op, res)>>
OBVIOUS

-----------------------------------------------------------------------------
(***************************************************************************)
(* CcInv in terms of Partition, Carry and Acks.                            *)
(***************************************************************************)
Ranges ==
  /\ main \in {"start", "waiting", "running"} /\ sink \in {"none", "made", "bound"}
  /\ event \in BOOLEAN /\ gpu_service_ \in BOOLEAN /\ submitting \in BOOLEAN
  /\ needs_commit \in BOOLEAN /\ observing \in BOOLEAN /\ begun \in BOOLEAN
  /\ needs_begin_frame \in BOOLEAN /\ surface \in BOOLEAN
  /\ invalidations \in Nat /\ painted \in 0..MaxPaints /\ ack_pending \in Nat
  /\ to_draw \in 0..painted /\ active \in 0..painted /\ swapped \in 0..painted

Tiles ==
  Partition(1..painted, Tile(to_draw), Tile(active), retired, held \cup Carry(tasks),
            reclaimed, lost)

CcKnown ==
  Ranges /\ Tiles /\ OneRepaintAtATime /\ OneTask /\ BeforeBinding /\ OneFramePending

LEMMA CcInitKnown == CcInit => CcKnown
<1> SUFFICES ASSUME CcInit PROVE CcKnown
  OBVIOUS
<1>1. Ranges
  <2>1. 0 \in Nat /\ 0 \in 0..MaxPaints /\ 0 \in 0..0
    BY MaxPaintsAssumption
  <2>2. /\ invalidations = 0 /\ painted = 0 /\ ack_pending = 0
        /\ to_draw = 0 /\ active = 0 /\ swapped = 0
    BY DEF CcInit
  <2> QED BY <2>1, <2>2 DEF CcInit, Ranges
<1>2. Tiles
  <2>1. 1..painted = {} /\ Tile(to_draw) = {} /\ Tile(active) = {} /\ Carry(tasks) = {}
    BY NoTask DEF CcInit, Tile
  <2> QED BY <2>1 DEF CcInit, Tiles, Partition
<1>3. OneRepaintAtATime /\ OneTask /\ BeforeBinding
  BY DEF CcInit, OneRepaintAtATime, OneTask, BeforeBinding
<1>4. OneFramePending
  BY DEF CcInit, OneFramePending
<1> QED BY <1>1, <1>2, <1>3, <1>4 DEF CcKnown

\* What waits on the main thread.
LEMMA TaskCases ==
  ASSUME OneTask
  PROVE  \/ tasks = <<>> /\ Carry(tasks) = {} /\ Acks(tasks) = 0
         \/ /\ tasks = <<Task("RequestNewLayerTreeFrameSink", {})>> /\ sink = "none"
            /\ tasks # <<>> /\ Head(tasks).op = "RequestNewLayerTreeFrameSink"
            /\ Tail(tasks) = <<>> /\ Carry(tasks) = {} /\ Acks(tasks) = 0
         \/ /\ \E res : tasks = <<Task(AckOp, res)>>
            /\ sink = "bound"
            /\ tasks # <<>> /\ Head(tasks).op = AckOp
            /\ Tail(tasks) = <<>> /\ Carry(tasks) = Head(tasks).res /\ Acks(tasks) = 1
<1>1. CASE tasks = <<>>
  BY <1>1, NoTask
<1>2. CASE tasks = <<Task("RequestNewLayerTreeFrameSink", {})>> /\ sink = "none"
  <2>1. "RequestNewLayerTreeFrameSink" # AckOp
    BY DEF AckOp
  <2> QED BY <1>2, <2>1, SingleTask
<1>3. ASSUME NEW res, tasks = <<Task(AckOp, res)>>, sink = "bound"
      PROVE  /\ tasks # <<>> /\ Head(tasks).op = AckOp
             /\ Tail(tasks) = <<>> /\ Carry(tasks) = Head(tasks).res /\ Acks(tasks) = 1
  BY <1>3, SingleTask
<1> QED BY <1>1, <1>2, <1>3 DEF OneTask

\* The properties of the Compositor follow.
LEMMA CcProperties ==
  ASSUME CcKnown
  PROVE  CcInv /\ AckedAfterSubmitted
<1>1. CcTypeOK
  <2>1. ASSUME NEW i \in 1..Len(tasks) PROVE tasks[i].res \subseteq 1..painted
    <3>1. tasks[i].res \subseteq Carry(tasks)
      BY DEF Carry
    <3> QED BY <3>1 DEF CcKnown, Tiles, Partition
  <2>2. retired \cup held \cup reclaimed \cup lost \subseteq 1..painted
    BY DEF CcKnown, Tiles, Partition
  <2>3. pending_submit \in Int
    BY DEF CcKnown, OneFramePending
  <2> QED BY <2>1, <2>2, <2>3 DEF CcKnown, Ranges, CcTypeOK
<1>2. TilesAreAccounted
  <2>1. Returning = held \cup Carry(tasks)
    BY DEF Returning, Carry
  <2>2. Partition(1..painted, Tile(to_draw), Tile(active), retired, Returning, reclaimed, lost)
    BY <2>1 DEF CcKnown, Tiles
  <2> QED BY <1>1, <2>2, SixPlaces DEF TilesAreAccounted
<1>3. AckedAfterSubmitted
  <2> DEFINE acks == {i \in 1..Len(tasks) : tasks[i].op = AckOp}
  <2>1. Cardinality(acks) = Acks(tasks)
    <3>1. CASE tasks = <<>> /\ Acks(tasks) = 0
      <4>1. acks = {}
        BY <3>1
      <4> QED BY <3>1, <4>1, FS_EmptySet
    <3>2. CASE tasks = <<Task("RequestNewLayerTreeFrameSink", {})>> /\ Acks(tasks) = 0
      <4>1. Len(tasks) = 1 /\ tasks[1].op # AckOp
        BY <3>2, SingleTask DEF Task, AckOp
      <4>2. acks = {}
        BY <4>1
      <4> QED BY <3>2, <4>2, FS_EmptySet
    <3>3. CASE (\E res : tasks = <<Task(AckOp, res)>>) /\ Acks(tasks) = 1
      <4>1. Len(tasks) = 1 /\ tasks[1].op = AckOp
        BY <3>3, SingleTask DEF Task
      <4>2. acks = {1}
        BY <4>1
      <4>3. Cardinality({1}) = 1
        BY FS_Singleton
      <4> QED BY <3>3, <4>2, <4>3
    <3> QED BY <3>1, <3>2, <3>3, TaskCases DEF CcKnown
  <2>2. /\ pending_submit \in {0, 1}
        /\ pending_submit + (IF submitting THEN 1 ELSE 0) = ack_pending + Acks(tasks)
    BY DEF CcKnown, OneFramePending, Acks
  <2> QED BY <2>1, <2>2 DEF AckedAfterSubmitted, AckOp
<1> QED BY <1>2, <1>3 DEF CcKnown, CcInv

-----------------------------------------------------------------------------
(***************************************************************************)
(* The steps of the Compositor.                                            *)
(***************************************************************************)
\* Steps that move no tile and post no task.
LEMMA QuietStep ==
  ASSUME CcKnown,
         \/ InitializeGpuService \/ InitializeGpuServiceInternal \/ BindToClient
         \/ OnNeedsBeginFrames \/ SetNeedsDisplay \/ DidSubmitCompositorFrame
         \/ DidNotProduceFrame \/ OnBeginFrame
  PROVE  CcKnown'
<1> USE DEF CcKnown
<1>1. UNCHANGED <<tasks, painted, to_draw, active, swapped, retired, held, ack_pending,
                  reclaimed, lost>>
  BY DEF InitializeGpuService, InitializeGpuServiceInternal, BindToClient, OnNeedsBeginFrames,
         SetNeedsDisplay, DidSubmitCompositorFrame, DidNotProduceFrame, OnBeginFrame,
         mainVars, ccVars, vizVars, tileVars
<1>2. Tiles'
  BY <1>1 DEF Tiles, Tile
<1>3. CASE InitializeGpuService
  BY <1>1, <1>2, <1>3 DEF InitializeGpuService, ccVars, vizVars, Ranges, OneRepaintAtATime,
     OneTask, BeforeBinding, OneFramePending
<1>4. CASE InitializeGpuServiceInternal
  BY <1>1, <1>2, <1>4 DEF InitializeGpuServiceInternal, ccVars, vizVars, Ranges,
     OneRepaintAtATime, OneTask, BeforeBinding, OneFramePending
<1>5. CASE BindToClient
  BY <1>1, <1>2, <1>5 DEF BindToClient, Idle, ccVars, vizVars, Ranges, OneRepaintAtATime,
     OneTask, BeforeBinding, OneFramePending
<1>6. CASE OnNeedsBeginFrames
  BY <1>1, <1>2, <1>6 DEF OnNeedsBeginFrames, Idle, mainVars, Ranges, OneRepaintAtATime,
     OneTask, BeforeBinding, OneFramePending
<1>7. CASE SetNeedsDisplay
  <2>1. /\ main = "running" /\ main' = "running"
        /\ invalidations > 0 /\ invalidations' = invalidations - 1 /\ needs_commit'
        /\ UNCHANGED <<event, gpu_service_, sink, submitting, observing, begun,
                       pending_submit, vizVars>>
    BY <1>7 DEF SetNeedsDisplay, Idle
  <2>2. invalidations = 1
    BY <2>1 DEF OneRepaintAtATime
  <2>3. OneRepaintAtATime'
    BY <2>1, <2>2 DEF OneRepaintAtATime
  <2>4. Ranges'
    BY <1>1, <1>7, <2>1, <2>2 DEF SetNeedsDisplay, vizVars, Ranges
  <2> QED BY <1>1, <1>2, <2>1, <2>3, <2>4 DEF vizVars, OneTask, BeforeBinding, OneFramePending
<1>8. CASE DidSubmitCompositorFrame
  <2>1. /\ submitting = TRUE /\ submitting' = FALSE /\ pending_submit' = pending_submit + 1
        /\ UNCHANGED <<main, event, gpu_service_, invalidations, sink, needs_commit, observing,
                       begun, needs_begin_frame, surface>>
    BY <1>8 DEF DidSubmitCompositorFrame, mainVars, vizVars, Ranges
  <2>2. sink = "bound" /\ main = "running"
    BY <2>1 DEF BeforeBinding
  <2>3. pending_submit = 0
    BY <2>1 DEF OneFramePending
  <2>4. OneFramePending'
    BY <1>1, <2>1, <2>3 DEF OneFramePending
  <2>5. Ranges' /\ OneRepaintAtATime'
    BY <1>1, <2>1 DEF Ranges, OneRepaintAtATime
  <2>6. OneTask' /\ BeforeBinding'
    BY <1>1, <2>1, <2>2 DEF OneTask, BeforeBinding
  <2> QED BY <1>2, <2>4, <2>5, <2>6
<1>9. CASE DidNotProduceFrame
  BY <1>1, <1>2, <1>9 DEF DidNotProduceFrame, Idle, mainVars, vizVars, Ranges,
     OneRepaintAtATime, OneTask, BeforeBinding, OneFramePending
<1>10. CASE OnBeginFrame
  BY <1>1, <1>2, <1>10 DEF OnBeginFrame, Idle, mainVars, Ranges, OneRepaintAtATime,
     OneTask, BeforeBinding, OneFramePending
<1> QED BY <1>3, <1>4, <1>5, <1>6, <1>7, <1>8, <1>9, <1>10

\* The frame sink's client asks for it, and is made.
LEMMA StartStep ==
  ASSUME CcKnown, Construct \/ RequestNewLayerTreeFrameSink
  PROVE  CcKnown'
<1> USE DEF CcKnown
<1> DEFINE request == <<Task("RequestNewLayerTreeFrameSink", {})>>
<1>1. UNCHANGED <<painted, to_draw, active, swapped, retired, held, ack_pending, reclaimed,
                  lost, submitting, pending_submit, begun, needs_begin_frame, invalidations>>
  BY DEF Construct, RequestNewLayerTreeFrameSink, ccVars, vizVars, tileVars
<1>2. Carry(request) = {} /\ Acks(request) = 0 /\ Carry(<<>>) = {} /\ Acks(<<>>) = 0
  BY NoTask, SingleTask DEF AckOp
<1>3. Carry(tasks') = Carry(tasks) /\ Acks(tasks') = Acks(tasks)
  <2>1. CASE Construct
    <3>1. tasks = <<>>
      BY <2>1 DEF Construct, BeforeBinding
    <3>2. tasks' = request
      BY <2>1, <3>1, FirstTask DEF Construct
    <3> QED BY <1>2, <3>1, <3>2
  <2>2. CASE RequestNewLayerTreeFrameSink
    <3>1. tasks = request /\ tasks' = <<>>
      BY <2>2, TaskCases DEF RequestNewLayerTreeFrameSink, Running, AckOp
    <3> QED BY <1>2, <3>1
  <2> QED BY <2>1, <2>2
<1>4. Tiles'
  BY <1>1, <1>3 DEF Tiles, Tile
<1>5. OneFramePending'
  BY <1>1, <1>3 DEF OneFramePending, Acks
<1>6. CASE Construct
  <2>1. tasks' = request
    BY <1>6, FirstTask DEF Construct, BeforeBinding
  <2>2. OneTask' /\ BeforeBinding'
    BY <1>1, <1>6, <2>1 DEF Construct, OneTask, BeforeBinding
  <2>3. Ranges' /\ OneRepaintAtATime'
    BY <1>1, <1>6 DEF Construct, vizVars, Ranges, OneRepaintAtATime, BeforeBinding
  <2> QED BY <1>4, <1>5, <2>2, <2>3
<1>7. CASE RequestNewLayerTreeFrameSink
  <2>1. tasks' = <<>>
    BY <1>7, TaskCases DEF RequestNewLayerTreeFrameSink, Running, AckOp
  <2>2. OneTask'
    BY <2>1 DEF OneTask
  <2>4. sink = "none"
    BY <1>7, TaskCases DEF RequestNewLayerTreeFrameSink, Running, AckOp
  <2>5. main = "running" /\ main' = "running" /\ sink' = "made"
    BY <1>7 DEF RequestNewLayerTreeFrameSink, Running, Idle, Initialize
  <2>6. BeforeBinding'
    BY <1>1, <2>4, <2>5 DEF BeforeBinding
  <2>3. Ranges' /\ OneRepaintAtATime'
    BY <1>1, <1>7 DEF RequestNewLayerTreeFrameSink, Initialize, ccVars, vizVars, Ranges,
       OneRepaintAtATime
  <2> QED BY <1>4, <1>5, <2>2, <2>3, <2>6
<1> QED BY <1>6, <1>7

\* cc paints: the request for the next painting takes the place of this one.
LEMMA PaintStep ==
  ASSUME CcKnown, BeginMainFrame
  PROVE  CcKnown'
<1> USE DEF CcKnown
<1>1. /\ main = "running" /\ to_draw = 0 /\ painted \in Nat
      /\ painted' = painted + 1 /\ to_draw' = painted + 1
      /\ invalidations' = invalidations + 1 /\ needs_commit
      /\ painted < MaxPaints
      /\ UNCHANGED <<main, event, gpu_service_, tasks, sink, submitting, observing, begun,
                     pending_submit, vizVars, tileVars>>
  BY DEF BeginMainFrame, Idle, PaintContentsToDisplayList, Ranges
<1>2. needs_commit' = FALSE
  BY DEF BeginMainFrame, UpdateLayerTreeHost, DrawsContent
<1>3. Tiles'
  <2>1. Tile(to_draw) = {} /\ Tile(to_draw') = {painted + 1} /\ Tile(active') = Tile(active)
    BY <1>1 DEF Tile, vizVars
  <2>2. Partition(1..painted, {}, Tile(active), retired, held \cup Carry(tasks), reclaimed,
                  lost)
    BY <2>1 DEF Tiles
  <2>3. Partition(1..(painted + 1), {painted + 1}, Tile(active), retired,
                  held \cup Carry(tasks), reclaimed, lost)
    BY <1>1, <2>2, NewTile
  <2> QED BY <1>1, <2>1, <2>3 DEF Tiles, Tile, vizVars, tileVars
<1>4. Ranges'
  <2>1. painted' \in 0..MaxPaints /\ to_draw' \in 0..painted'
    BY <1>1, MaxPaintsAssumption
  <2>2. active' \in 0..painted' /\ swapped' \in 0..painted' /\ invalidations' \in Nat
    BY <1>1 DEF Ranges, vizVars
  <2> QED BY <1>1, <1>2, <2>1, <2>2 DEF Ranges, vizVars
<1>5. OneRepaintAtATime'
  BY <1>1, <1>2 DEF OneRepaintAtATime
<1>6. OneTask'
  <2>1. SUBSET (1..painted) \subseteq SUBSET (1..painted')
    BY <1>1
  <2> QED BY <1>1, <2>1 DEF OneTask
<1>7. BeforeBinding' /\ OneFramePending'
  BY <1>1 DEF BeforeBinding, OneFramePending, vizVars
<1> QED BY <1>3, <1>4, <1>5, <1>6, <1>7

\* cc draws: the frame on display is retired.
LEMMA SubmitStep ==
  ASSUME CcKnown, SubmitCompositorFrame
  PROVE  CcKnown'
<1> USE DEF CcKnown
<1>1. /\ ~submitting /\ submitting' = TRUE /\ begun /\ begun' = FALSE
      /\ pending_submit = 0 /\ to_draw' = 0 /\ active' = to_draw
      /\ retired' = retired \cup Tile(active) /\ ack_pending' = ack_pending + 1
      /\ UNCHANGED <<mainVars, needs_commit, painted, observing, pending_submit,
                     needs_begin_frame, surface, swapped, held, tileVars>>
  BY DEF SubmitCompositorFrame, Idle, CanDraw
<1>2. Tiles'
  <2>1. Tile(to_draw') = {} /\ Tile(active') = Tile(to_draw)
    BY <1>1 DEF Tile
  <2>2. Partition(1..painted, {}, Tile(to_draw), retired \cup Tile(active),
                  held \cup Carry(tasks), reclaimed, lost)
    BY DrawnTile DEF Tiles
  <2> QED BY <1>1, <2>1, <2>2 DEF Tiles, Tile, mainVars, tileVars
<1>3. Ranges' /\ OneRepaintAtATime' /\ OneTask'
  <2>1. to_draw' \in 0..painted' /\ active' \in 0..painted' /\ ack_pending' \in Nat
    BY <1>1 DEF Ranges
  <2>2. Ranges'
    BY <1>1, <2>1 DEF Ranges, mainVars
  <2>3. OneRepaintAtATime'
    BY <1>1 DEF OneRepaintAtATime, mainVars
  <2>4. OneTask'
    BY <1>1 DEF OneTask, mainVars
  <2> QED BY <2>2, <2>3, <2>4
<1>4. sink = "bound" /\ main = "running"
  BY <1>1 DEF BeforeBinding, SubmitCompositorFrame, Idle
<1>5. BeforeBinding' /\ OneFramePending'
  BY <1>1, <1>4 DEF BeforeBinding, OneFramePending, mainVars, Ranges
<1> QED BY <1>2, <1>3, <1>5

\* The display swaps: what it holds goes with the ack, the only task there is.
LEMMA SwapStep ==
  ASSUME CcKnown, OnSwapBuffers
  PROVE  CcKnown'
<1> USE DEF CcKnown
<1>1. /\ ack_pending > 0 /\ ack_pending' = ack_pending - 1
      /\ swapped' = active /\ held' = {}
      /\ tasks' = Append(tasks, Task(AckOp, held))
      /\ UNCHANGED <<main, event, gpu_service_, invalidations, sink, submitting, needs_commit,
                     painted, to_draw, observing, begun, pending_submit, needs_begin_frame,
                     surface, active, retired, tileVars>>
  BY DEF OnSwapBuffers, DidReceiveCompositorFrameAck, AckOp
<1>2. sink = "bound" /\ main = "running"
  BY <1>1 DEF BeforeBinding, Ranges
<1>3. /\ pending_submit + (IF submitting THEN 1 ELSE 0) = ack_pending + Acks(tasks)
      /\ pending_submit + (IF submitting THEN 1 ELSE 0) \in {0, 1}
  BY DEF OneFramePending, Acks
<1>4. tasks = <<>> /\ Carry(tasks) = {} /\ Acks(tasks) = 0 /\ ack_pending = 1
  BY <1>1, <1>2, <1>3, TaskCases DEF Ranges
<1>5. tasks' = <<Task(AckOp, held)>>
  BY <1>1, <1>4, FirstTask
<1>6. Carry(tasks') = held /\ Acks(tasks') = 1
  BY <1>5, SingleTask
<1>7. Tiles'
  <2>1. held' \cup Carry(tasks') = held \cup Carry(tasks)
    BY <1>1, <1>4, <1>6
  <2> QED BY <1>1, <2>1 DEF Tiles, Tile, tileVars
<1>8. Ranges' /\ OneRepaintAtATime' /\ BeforeBinding'
  BY <1>1, <1>2, <1>4 DEF Ranges, OneRepaintAtATime, BeforeBinding
<1>9. OneTask'
  <2>1. held \in SUBSET (1..painted)
    BY DEF Tiles, Partition
  <2> QED BY <1>1, <1>2, <1>5, <2>1 DEF OneTask
<1>10. OneFramePending'
  <2>1. pending_submit' + (IF submitting' THEN 1 ELSE 0) = ack_pending' + Acks(tasks')
    BY <1>1, <1>3, <1>4, <1>6
  <2> QED BY <1>1, <2>1 DEF OneFramePending, Acks
<1> QED BY <1>7, <1>8, <1>9, <1>10

\* cc is told: the returned tiles may be reused, the frame is no longer pending.
LEMMA AckedStep ==
  ASSUME CcKnown, DidReceiveCompositorFrameAckInternal
  PROVE  CcKnown'
<1> USE DEF CcKnown
<1>1. /\ main = "running" /\ ~submitting
      /\ tasks # <<>> /\ Head(tasks).op = AckOp
      /\ tasks' = Tail(tasks)
      /\ reclaimed' = reclaimed \cup Head(tasks).res
      /\ pending_submit' = pending_submit - 1
      /\ UNCHANGED <<main, event, gpu_service_, invalidations, sink, submitting, needs_commit,
                     painted, to_draw, observing, begun, vizVars, lost>>
  BY DEF DidReceiveCompositorFrameAckInternal, Running, Idle, AckOp
<1>2. /\ tasks' = <<>> /\ sink = "bound"
      /\ Carry(tasks) = Head(tasks).res /\ Acks(tasks) = 1
  BY <1>1, TaskCases DEF AckOp
<1>3. Carry(tasks') = {} /\ Acks(tasks') = 0
  BY <1>2, NoTask
<1>4. pending_submit = 1 /\ ack_pending = 0 /\ held = {}
  <2>1. pending_submit = ack_pending + Acks(tasks) /\ pending_submit \in {0, 1}
    BY <1>1 DEF OneFramePending, Acks
  <2>2. pending_submit = 1 /\ ack_pending = 0
    BY <1>2, <2>1 DEF Ranges
  <2> QED BY <2>2 DEF OneFramePending
<1>5. Tiles'
  <2>1. Partition(1..painted, Tile(to_draw), Tile(active), retired, {},
                  reclaimed \cup (held \cup Carry(tasks)), lost)
    BY ReusedTiles DEF Tiles
  <2>2. reclaimed' = reclaimed \cup (held \cup Carry(tasks)) /\ held' \cup Carry(tasks') = {}
    BY <1>1, <1>2, <1>3, <1>4 DEF vizVars
  <2> QED BY <1>1, <2>1, <2>2 DEF Tiles, Tile, vizVars
<1>6. Ranges' /\ OneRepaintAtATime' /\ OneTask' /\ BeforeBinding'
  BY <1>1, <1>2 DEF Ranges, OneRepaintAtATime, OneTask, BeforeBinding, vizVars
<1>7. OneFramePending'
  <2>1. pending_submit' = 0 /\ ack_pending' = 0 /\ held' = {} /\ ~submitting'
    BY <1>1, <1>4 DEF vizVars
  <2> QED BY <1>2, <2>1 DEF OneFramePending
<1> QED BY <1>5, <1>6, <1>7

\* What viz returns waits for an ack, or is lost.
LEMMA ReturnStep ==
  ASSUME CcKnown, HoldResources \/ ReclaimResources
  PROVE  CcKnown'
<1> USE DEF CcKnown
<1>1. /\ retired' = {}
      /\ UNCHANGED <<mainVars, ccVars, needs_begin_frame, surface, active, swapped,
                     ack_pending, reclaimed>>
  BY DEF HoldResources, ReclaimResources, tileVars
<1>2. Tiles'
  <2>1. CASE HoldResources
    <3>1. Partition(1..painted, Tile(to_draw), Tile(active), {},
                    (held \cup Carry(tasks)) \cup retired, reclaimed, lost)
      BY HeldTiles DEF Tiles
    <3>2. held' \cup Carry(tasks') = (held \cup Carry(tasks)) \cup retired /\ lost' = lost
      BY <1>1, <2>1 DEF HoldResources, mainVars, tileVars
    <3> QED BY <1>1, <3>1, <3>2 DEF Tiles, Tile, ccVars
  <2>2. CASE ReclaimResources
    <3>1. Partition(1..painted, Tile(to_draw), Tile(active), {}, held \cup Carry(tasks),
                    reclaimed, lost \cup retired)
      BY LostTiles DEF Tiles
    <3>2. held' \cup Carry(tasks') = held \cup Carry(tasks) /\ lost' = lost \cup retired
      BY <1>1, <2>2 DEF ReclaimResources, mainVars
    <3> QED BY <1>1, <3>1, <3>2 DEF Tiles, Tile, ccVars
  <2> QED BY <2>1, <2>2
<1>3. Ranges' /\ OneRepaintAtATime' /\ OneTask' /\ BeforeBinding'
  BY <1>1 DEF Ranges, OneRepaintAtATime, OneTask, BeforeBinding, mainVars, ccVars
<1>4. held' # {} => ack_pending > 0
  BY DEF HoldResources, ReclaimResources, OneFramePending
<1>5. OneFramePending'
  BY <1>1, <1>4 DEF OneFramePending, mainVars, ccVars
<1> QED BY <1>2, <1>3, <1>5

LEMMA CcStep ==
  ASSUME CcKnown, CcMainStep \/ InitializeGpuServiceInternal \/ UNCHANGED ccAll
  PROVE  CcKnown'
<1>1. CASE UNCHANGED ccAll
  BY <1>1 DEF ccAll, mainVars, ccVars, vizVars, tileVars, CcKnown, Ranges, Tiles, Tile,
     OneRepaintAtATime, OneTask, BeforeBinding, OneFramePending
<1>2. CASE CcMainStep \/ InitializeGpuServiceInternal
  BY <1>2, QuietStep, StartStep, PaintStep, SubmitStep, SwapStep, AckedStep, ReturnStep
     DEF CcMainStep, Start, Scheduler
<1> QED BY <1>1, <1>2

-----------------------------------------------------------------------------
(***************************************************************************)
(* The theorems.                                                           *)
(***************************************************************************)
IndInv == ProgramInv /\ CcKnown

LEMMA InitInv == Init => IndInv
BY ProgramInitInv, CcInitKnown DEF Init, IndInv

LEMMA StepInv == IndInv /\ [Next]_vars => IndInv'
<1> SUFFICES ASSUME IndInv, [Next]_vars PROVE IndInv'
  OBVIOUS
<1>1. \/ MainStep \/ UserStep
      \/ UNCHANGED programVars
  BY DEF Next, ProgramStep, Compositor, GpuThread, Renderer, vars
<1>2. \/ CcMainStep \/ InitializeGpuServiceInternal
      \/ UNCHANGED ccAll
  BY DEF Next, ProgramStep, Compositor, GpuThread, Renderer, vars
<1> QED BY <1>1, <1>2, ProgramInvStep, CcStep DEF IndInv

\* The invariant of the main functions and of the Compositor holds in every state.
THEOREM Invariance == Spec => [](ProgramInv /\ CcInv)
<1>1. IndInv /\ [Next]_vars => IndInv'
  BY StepInv
<1>2. IndInv => ProgramInv /\ CcInv
  BY CcProperties DEF IndInv
<1> QED BY InitInv, <1>1, <1>2, PTL DEF Spec

\* cc's count of pending frames is the number of acks it is still owed, and at most
\* one, whether the ack comes while the frame is being submitted or after it.
THEOREM AcksAreCounted == Spec => []AckedAfterSubmitted
<1>1. IndInv /\ [Next]_vars => IndInv'
  BY StepInv
<1>2. IndInv => AckedAfterSubmitted
  BY CcProperties DEF IndInv
<1> QED BY InitInv, <1>1, <1>2, PTL DEF Spec

\* Each painting asks for exactly one more.
THEOREM OneRequestAtATime == Spec => []OneRepaintAtATime
<1>1. CcInv => OneRepaintAtATime
  BY DEF CcInv
<1> QED BY Invariance, <1>1, PTL

\* Every tile is at one place: drawn next, with viz, on its way back, reclaimed or lost.
THEOREM NoTileIsTwice == Spec => []TilesAreAccounted
<1>1. CcInv => TilesAreAccounted
  BY DEF CcInv
<1> QED BY Invariance, <1>1, PTL

\* The demo is made exactly once, of the widget announced while the window is created,
\* before the main loop runs, whatever widget_ held at first.
THEOREM MadeOnce == Spec => []DemoIsMadeOnce
<1>1. ProgramInv => DemoIsMadeOnce
  BY ProgramProperties
<1> QED BY Invariance, <1>1, PTL

\* A program that traces into a file ends with the whole trace in it, in however many
\* chunks the trace log hands it out.
THEOREM TraceGetsWhole == Spec => []TraceIsWhole
<1>1. ProgramInv => TraceIsWhole
  BY ProgramProperties
<1> QED BY Invariance, <1>1, PTL
===============================================================================
