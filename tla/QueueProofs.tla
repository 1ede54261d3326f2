------------------------------ MODULE QueueProofs ------------------------------
(***************************************************************************)
(* The safety properties of the demos whose correctness is an order of     *)
(* tasks, messages or calls, each from an inductive invariant:             *)
(*                                                                         *)
(*   SkiaCanvas        the tasks of the render thread,                     *)
(*   GpuService        the tasks of the four threads of the start-up,      *)
(*   MojoDemos         the calls of MojoCalls and the requests and         *)
(*                     replies of ChildProcess,                            *)
(*   MultipleProcess   the messages of one pipe.                           *)
(*                                                                         *)
(* The four parts share the lemmas about sequences and nothing else.       *)
(***************************************************************************)
EXTENDS SkiaCanvas, GpuService, MojoDemos, MultipleProcess,
        FiniteSetTheorems, SequenceTheorems, TLAPS

-----------------------------------------------------------------------------
(***************************************************************************)
(* Sequences.                                                              *)
(***************************************************************************)
\* A sequence over a set is one over a larger set.
LEMMA Larger ==
  ASSUME NEW S, NEW T, S \subseteq T, NEW q \in Seq(S)
  PROVE  q \in Seq(T)
OBVIOUS

\* The elements of a queue, and its first one, after an append.
LEMMA AppendFacts ==
  ASSUME NEW T, NEW q \in Seq(T), NEW e \in T
  PROVE  /\ Append(q, e) \in Seq(T) /\ Append(q, e) # <<>> /\ Len(q) \in Nat
         /\ Len(Append(q, e)) = Len(q) + 1 /\ Append(q, e)[Len(q) + 1] = e
         /\ \A i \in 1..Len(q) : Append(q, e)[i] = q[i]
         /\ q # <<>> => Head(Append(q, e)) = Head(q)
         /\ q = <<>> => Head(Append(q, e)) = e
<1> DEFINE a == Append(q, e)
<1>1. /\ a \in Seq(T) /\ Len(a) = Len(q) + 1 /\ a[Len(q) + 1] = e /\ Len(q) \in Nat
      /\ \A i \in 1..Len(q) : a[i] = q[i]
  OBVIOUS
<1>2. q # <<>> => Head(q) = q[1] /\ 1 \in 1..Len(q)
  OBVIOUS
<1>3. a # <<>> /\ Head(a) = a[1]
  <2> HIDE DEF a
  <2>1. a # <<>>
    BY <1>1
  <2> QED BY <2>1, <1>1
<1>4. q = <<>> => Len(q) = 0
  OBVIOUS
<1> QED BY <1>1, <1>2, <1>3, <1>4

\* The elements of a queue after its first one has been taken.
LEMMA TailFacts ==
  ASSUME NEW T, NEW q \in Seq(T), q # <<>>
  PROVE  /\ Tail(q) \in Seq(T) /\ Head(q) \in T /\ Head(q) = q[1]
         /\ Len(q) \in Nat /\ Len(q) >= 1 /\ Len(Tail(q)) = Len(q) - 1
         /\ \A i \in 1..Len(q) - 1 : Tail(q)[i] = q[i + 1]
OBVIOUS

\* Appending to the second of two queues in a row.
LEMMA AppendOnce ==
  ASSUME NEW S, NEW s \in Seq(S), NEW t \in Seq(S), NEW e \in S
  PROVE  s \o Append(t, e) = Append(s \o t, e)
<1> DEFINE a == Append(t, e)
           c == s \o t
<1>1. /\ a \in Seq(S) /\ Len(a) = Len(t) + 1 /\ a[Len(t) + 1] = e
      /\ \A i \in 1..Len(t) : a[i] = t[i]
  BY AppendProperties
<1>2. /\ c \in Seq(S) /\ Len(c) = Len(s) + Len(t)
      /\ \A i \in 1..Len(s) + Len(t) : c[i] = IF i <= Len(s) THEN s[i] ELSE t[i - Len(s)]
  BY ConcatProperties
<1>3. Len(s) \in Nat /\ Len(t) \in Nat
  BY LenProperties
<1> HIDE DEF a, c
<1>4. /\ s \o a \in Seq(S) /\ Len(s \o a) = Len(s) + Len(a)
      /\ \A i \in 1..Len(s) + Len(a) :
           (s \o a)[i] = IF i <= Len(s) THEN s[i] ELSE a[i - Len(s)]
  BY <1>1, ConcatProperties
<1>5. /\ Append(c, e) \in Seq(S) /\ Len(Append(c, e)) = Len(c) + 1
      /\ Append(c, e)[Len(c) + 1] = e /\ \A i \in 1..Len(c) : Append(c, e)[i] = c[i]
  BY <1>2, AppendProperties
<1>6. \A i \in 1..Len(s \o a) : (s \o a)[i] = Append(c, e)[i]
  <2> SUFFICES ASSUME NEW i \in 1..Len(s \o a)  PROVE (s \o a)[i] = Append(c, e)[i]
    OBVIOUS
  <2>1. CASE i <= Len(s)
    BY <1>1, <1>2, <1>3, <1>4, <1>5, <2>1
  <2>2. CASE i > Len(s) /\ i <= Len(s) + Len(t)
    <3>1. i - Len(s) \in 1..Len(t)
      BY <1>3, <2>2
    <3>2. i \in 1..Len(c) /\ i \in 1..Len(s) + Len(a) /\ i \in 1..Len(s) + Len(t)
      BY <1>1, <1>2, <1>3, <2>2
    <3>3. (s \o a)[i] = a[i - Len(s)] /\ c[i] = t[i - Len(s)]
      BY <1>2, <1>3, <1>4, <2>2, <3>2
    <3> QED BY <1>1, <1>5, <3>1, <3>2, <3>3
  <2>3. CASE i = Len(s) + Len(t) + 1
    <3>1. i - Len(s) = Len(t) + 1 /\ ~(i <= Len(s))
      BY <1>3, <2>3
    <3> QED BY <1>1, <1>2, <1>3, <1>4, <1>5, <2>3, <3>1
  <2>4. i <= Len(s) \/ (i > Len(s) /\ i <= Len(s) + Len(t)) \/ i = Len(s) + Len(t) + 1
    BY <1>1, <1>3, <1>4
  <2> QED BY <2>1, <2>2, <2>3, <2>4
<1>7. Len(s \o a) = Len(Append(c, e))
  BY <1>1, <1>2, <1>3, <1>4, <1>5
<1>8. s \o a = Append(c, e)
  BY <1>4, <1>5, <1>6, <1>7, SeqEqual
<1> QED BY <1>8 DEF a, c

\* Moving the head of one queue to the end of the one before it.
LEMMA MoveHead ==
  ASSUME NEW S, NEW s \in Seq(S), NEW t \in Seq(S), t # <<>>
  PROVE  Append(s, Head(t)) \o Tail(t) = s \o t
<1> DEFINE h == Head(t)
           u == Tail(t)
<1>1. h \in S /\ u \in Seq(S) /\ t = <<h>> \o u
  <2>1. h \in S /\ u \in Seq(S)
    BY HeadTailProperties
  <2>2. t = <<h>> \o u
    OBVIOUS
  <2> QED BY <2>1, <2>2
<1> HIDE DEF h, u
<1>2. Append(s, h) = s \o <<h>> /\ <<h>> \in Seq(S)
  BY <1>1, AppendIsConcat
<1>3. (s \o <<h>>) \o u = s \o (<<h>> \o u)
  BY <1>1, <1>2, ConcatAssociative
<1> QED BY <1>1, <1>2, <1>3 DEF h, u

-----------------------------------------------------------------------------
(***************************************************************************)
(* SkiaCanvas: one closure at a time, for any number of touches and        *)
(* fingers.  Counting the tasks of a queue.                                *)
(***************************************************************************)
\* How many elements of q are in S.
Count(q, S) == Cardinality({i \in 1..Len(q) : q[i] \in S})

Tasks == Touches \cup {"Initialize", "render"}

\* The places where a queue holds a task of a kind are finitely many.
LEMMA CountFinite ==
  ASSUME NEW T, NEW q \in Seq(T), NEW S
  PROVE  /\ IsFiniteSet({i \in 1..Len(q) : q[i] \in S})
         /\ Count(q, S) \in Nat
<1>1. Len(q) \in Int /\ 1 \in Int
  OBVIOUS
<1>2. IsFiniteSet(1..Len(q))
  BY <1>1, FS_Interval
<1>3. {i \in 1..Len(q) : q[i] \in S} \in SUBSET (1..Len(q))
  OBVIOUS
<1>4. IsFiniteSet({i \in 1..Len(q) : q[i] \in S})
  BY <1>2, <1>3, FS_Subset
<1> QED BY <1>4, FS_CardinalityType DEF Count

\* An append counts its element.
LEMMA CountAppend ==
  ASSUME NEW T, NEW q \in Seq(T), NEW e \in T, NEW S
  PROVE  /\ Append(q, e) \in Seq(T)
         /\ Count(Append(q, e), S) = IF e \in S THEN Count(q, S) + 1 ELSE Count(q, S)
<1> DEFINE a == Append(q, e)
           n == Len(q) + 1
           A == {i \in 1..Len(q) : q[i] \in S}
           B == {i \in 1..Len(a) : a[i] \in S}
<1>1. /\ a \in Seq(T) /\ Len(a) = n /\ Len(q) \in Nat /\ a[n] = e
      /\ \A i \in 1..Len(q) : a[i] = q[i]
  OBVIOUS
<1>2. n \notin A /\ IsFiniteSet(A)
  <2>1. n \notin 1..Len(q)
    BY <1>1
  <2>2. IsFiniteSet(A)
    BY CountFinite
  <2> QED BY <2>1, <2>2
<1> HIDE DEF a
<1>3. B = IF e \in S THEN A \cup {n} ELSE A
  <2>1. \A i : i \in 1..n <=> i \in 1..Len(q) \/ i = n
    BY <1>1
  <2> QED BY <1>1, <2>1
<1> HIDE DEF A, B, n
<1>4. Cardinality(B) = IF e \in S THEN Cardinality(A) + 1 ELSE Cardinality(A)
  BY <1>2, <1>3, FS_AddElement
<1> QED BY <1>1, <1>4 DEF Count, A, B, a

\* A tail no longer counts the head.
LEMMA CountTail ==
  ASSUME NEW T, NEW q \in Seq(T), q # <<>>, NEW S
  PROVE  /\ Tail(q) \in Seq(T)
         /\ Count(q, S) = IF Head(q) \in S THEN Count(Tail(q), S) + 1
                          ELSE Count(Tail(q), S)
<1> DEFINE t == Tail(q)
           A == {i \in 1..Len(q) : q[i] \in S}
           B == {i \in 1..Len(t) : t[i] \in S}
           f == [i \in B |-> i + 1]
<1>1. /\ t \in Seq(T) /\ Len(t) = Len(q) - 1 /\ Len(q) \in Nat \ {0} /\ Head(q) = q[1]
      /\ \A i \in 1..Len(t) : t[i] = q[i + 1]
  OBVIOUS
<1> HIDE DEF t
<1>2. IsFiniteSet(A) /\ IsFiniteSet(B)
  BY <1>1, CountFinite
<1>3. f \in Bijection(B, A \ {1})
  <2>1. \A i \in B : i + 1 \in A \ {1}
    BY <1>1
  <2>2. \A j \in A \ {1} : j - 1 \in B /\ (j - 1) + 1 = j
    BY <1>1
  <2>3. \A i, j \in B : i + 1 = j + 1 => i = j
    OBVIOUS
  <2>4. f \in [B -> A \ {1}]
    BY <2>1
  <2>5. \A i, j \in B : f[i] = f[j] => i = j
    BY <2>3
  <2>6. \A j \in A \ {1} : \E i \in B : f[i] = j
    BY <2>2
  <2> HIDE DEF A, B, f
  <2> QED BY <2>4, <2>5, <2>6 DEF Bijection, Injection, IsInjective, Surjection
<1>4. 1 \in A <=> Head(q) \in S
  BY <1>1
<1> HIDE DEF A, B, f
<1>5. Cardinality(B) = Cardinality(A \ {1})
  BY <1>2, <1>3, FS_Bijection DEF ExistsBijection
<1>6. /\ Cardinality(A) \in Nat /\ Cardinality(B) \in Nat
      /\ Cardinality(B) = IF 1 \in A THEN Cardinality(A) - 1 ELSE Cardinality(A)
  BY <1>2, <1>5, FS_RemoveElement, FS_CardinalityType
<1>7. Cardinality(A) = IF Head(q) \in S THEN Cardinality(B) + 1 ELSE Cardinality(B)
  BY <1>4, <1>6
<1> QED BY <1>1, <1>7 DEF Count, A, B, t

\* Pending and TouchesCounted in terms of Count, for the queue of any state.
LEMMA Counted ==
  ASSUME NEW q
  PROVE  /\ Cardinality({i \in 1..Len(q) : q[i] = "render"}) = Count(q, {"render"})
         /\ Cardinality({i \in 1..Len(q) : q[i] \in Touches}) = Count(q, Touches)
<1>1. {i \in 1..Len(q) : q[i] = "render"} = {i \in 1..Len(q) : q[i] \in {"render"}}
  OBVIOUS
<1> QED BY <1>1 DEF Count

\* A task is appended to the render thread's queue, or taken from it.
LEMMA QueueAppend ==
  ASSUME TypeOK, NEW e \in Tasks, queue' = Append(queue, e)
  PROVE  /\ queue' \in Seq(Tasks)
         /\ Count(queue', {"render"}) = IF e = "render" THEN Count(queue, {"render"}) + 1
                                        ELSE Count(queue, {"render"})
         /\ Count(queue', Touches) = IF e \in Touches THEN Count(queue, Touches) + 1
                                     ELSE Count(queue, Touches)
BY CountAppend DEF TypeOK, Tasks

LEMMA QueueTail ==
  ASSUME TypeOK, queue # <<>>, queue' = Tail(queue)
  PROVE  /\ queue' \in Seq(Tasks)
         /\ Count(queue', {"render"}) \in Nat /\ Count(queue', Touches) \in Nat
         /\ Count(queue, {"render"}) = IF Head(queue) = "render"
                                         THEN Count(queue', {"render"}) + 1
                                         ELSE Count(queue', {"render"})
         /\ Count(queue, Touches) = IF Head(queue) \in Touches
                                      THEN Count(queue', Touches) + 1
                                      ELSE Count(queue', Touches)
<1>1. queue \in Seq(Tasks)
  BY DEF TypeOK, Tasks
<1>2. queue' \in Seq(Tasks)
  BY <1>1, CountTail
<1> QED BY <1>1, <1>2, CountTail, CountFinite

\* At first nothing is queued and nothing is drawn.
LEMMA InitInv == Init => IndInv
<1> SUFFICES ASSUME Init PROVE IndInv
  OBVIOUS
<1>1. TypeOK
  <2>1. queue \in Seq(Touches \cup {"Initialize", "render"})
    BY DEF Init
  <2>2. 0 \in 0..MaxFingers /\ 0 \in 0..MaxTouches /\ 0 \in 0..MaxResizes
    BY TouchesAssumption
  <2>3. /\ display_ \in BOOLEAN /\ grContext_ \in BOOLEAN /\ x11_presenter_ \in BOOLEAN
        /\ is_software_ \in BOOLEAN /\ size \in (0..MaxResizes) \X (0..MaxResizes)
        /\ need_redraw_ \in BOOLEAN /\ is_drawing_ \in BOOLEAN /\ crashed \in BOOLEAN
    BY <2>2 DEF Init
  <2>4. delayed \in Nat /\ seen \in 0..touches /\ painted \in 0..seen
    BY DEF Init
  <2> QED BY <2>1, <2>2, <2>3, <2>4 DEF Init, TypeOK
<1>2. {i \in 1..Len(queue) : queue[i] = "render"} = {}
      /\ {i \in 1..Len(queue) : queue[i] \in Touches} = {}
  BY DEF Init, Touches
<1>3. Pending = 0 /\ TouchesCounted
  BY <1>2, FS_EmptySet DEF Init, Pending, TouchesCounted
<1> QED BY <1>1, <1>3 DEF Init, IndInv, OneRenderClosure

-----------------------------------------------------------------------------
(***************************************************************************)
(* SkiaCanvas: the steps.                                                  *)
(***************************************************************************)
\* What a paint leaves: TypeOK's ranges, whether or not it crashes.
LEMMA PaintTyped ==
  ASSUME TypeOK, NEW n \in Nat, Paint(n)
  PROVE  /\ crashed' \in BOOLEAN /\ (painted' = n \/ painted' = painted)
         /\ size' \in (0..MaxResizes) \X (0..MaxResizes)
BY DEF Paint, PaintSurface, TypeOK

\* The main thread: constructors, and touches that are posted.
LEMMA MainThreadInv ==
  ASSUME IndInv, MainThread
  PROVE  IndInv'
<1> USE DEF IndInv, OneRenderClosure
<1>1. CASE EnterDerivedConstructor \/ InitializeMembers \/ Resize \/ ResizeReturns
  <2>1. UNCHANGED <<is_software_, fingers, touches, queue, delayed, need_redraw_, is_drawing_,
                    seen, painted, size, crashed>>
    BY <1>1 DEF EnterDerivedConstructor, InitializeMembers, Resize, ResizeReturns, drawVars
  <2>2. width_' \in 0..MaxResizes /\ height_' \in 0..MaxResizes
    BY <1>1, TouchesAssumption
    DEF EnterDerivedConstructor, InitializeMembers, Resize, ResizeReturns, TypeOK
  <2>3. TypeOK'
    BY <1>1, <2>1, <2>2
    DEF EnterDerivedConstructor, InitializeMembers, Resize, ResizeReturns, TypeOK, memberVars
  <2> QED BY <2>1, <2>3 DEF Pending, TouchesCounted
<1>3. CASE InitializeDemo
  <2>1. /\ queue' = Append(queue, "Initialize") /\ stage' = "SkiaCanvas"
        /\ UNCHANGED <<is_software_, fingers, touches, width_, height_, delayed, display_,
                       grContext_, x11_presenter_, need_redraw_, is_drawing_, seen, painted,
                       size, crashed>>
    BY <1>3 DEF InitializeDemo, memberVars, drawVars
  <2>2. "Initialize" \in Tasks /\ "Initialize" \notin Touches
    BY DEF Tasks, Touches
  <2>3. /\ queue' \in Seq(Tasks)
        /\ Count(queue', {"render"}) = Count(queue, {"render"})
        /\ Count(queue', Touches) = Count(queue, Touches)
    BY <2>1, <2>2, QueueAppend
  <2>4. TypeOK'
    BY <2>1, <2>3 DEF TypeOK, Tasks
  <2>5. Pending' = Pending /\ TouchesCounted'
    BY <2>1, <2>3, Counted DEF Pending, TouchesCounted
  <2> QED BY <2>1, <2>4, <2>5
<1>2. ASSUME NEW touch \in Touches, OnTouch(touch)
      PROVE  IndInv'
  <2>1. /\ queue' = Append(queue, touch) /\ touches' = touches + 1 /\ touches < MaxTouches
        /\ UNCHANGED <<is_software_, stage, width_, height_, delayed, display_, grContext_,
                       x11_presenter_, need_redraw_, is_drawing_, seen, painted, size,
                       crashed>>
    BY <1>2 DEF OnTouch, memberVars, drawVars
  <2>2. touch \in Tasks /\ touch # "render"
    BY DEF Tasks, Touches
  <2>3. /\ queue' \in Seq(Tasks)
        /\ Count(queue', {"render"}) = Count(queue, {"render"})
        /\ Count(queue', Touches) = Count(queue, Touches) + 1
    BY <2>1, <2>2, QueueAppend
  <2>4. fingers' \in 0..MaxFingers
    <3>1. fingers \in Nat /\ fingers <= MaxFingers /\ MaxFingers \in Nat
      BY TouchesAssumption DEF TypeOK
    <3>2. CASE touch = "down"
      <4>1. fingers' = fingers + 1 /\ fingers < MaxFingers
        BY <1>2, <3>2 DEF OnTouch
      <4> QED BY <3>1, <4>1
    <3>3. CASE touch = "move"
      <4>1. fingers' = fingers
        BY <1>2, <3>3 DEF OnTouch
      <4> QED BY <3>1, <4>1
    <3>4. CASE touch = "up"
      <4>1. fingers' = fingers - 1 /\ fingers > 0
        BY <1>2, <3>4 DEF OnTouch
      <4> QED BY <3>1, <4>1
    <3> QED BY <3>2, <3>3, <3>4 DEF Touches
  <2>5. touches' \in 0..MaxTouches /\ seen' \in 0..touches' /\ painted' \in 0..seen'
    BY <2>1, TouchesAssumption DEF TypeOK
  <2>6. TypeOK'
    BY <2>1, <2>3, <2>4, <2>5 DEF TypeOK, Tasks
  <2>7. Pending' = Pending
    BY <2>1, <2>3, Counted DEF Pending
  <2>8. TouchesCounted'
    <3>1. queue \in Seq(Tasks)
      BY DEF TypeOK, Tasks
    <3>2. Count(queue, Touches) \in Nat
      BY <3>1, CountFinite
    <3>3. seen + Count(queue, Touches) = touches
      BY Counted DEF TouchesCounted
    <3>4. seen' + Count(queue', Touches) = touches'
      <4>1. seen \in Nat
        BY DEF TypeOK
      <4> HIDE DEF IndInv, OneRenderClosure
      <4> QED BY <2>1, <2>3, <3>2, <3>3, <4>1
    <3> QED BY <3>4, Counted DEF TouchesCounted
  <2> QED BY <2>1, <2>6, <2>7, <2>8
<1> QED BY <1>1, <1>2, <1>3 DEF MainThread, Constructor

\* A delayed closure becomes a task.
LEMMA DelayInv ==
  ASSUME IndInv, DelayPasses
  PROVE  IndInv'
<1> USE DEF IndInv, OneRenderClosure
<1>1. /\ delayed > 0 /\ delayed' = delayed - 1 /\ queue' = Append(queue, "render")
      /\ UNCHANGED <<is_software_, stage, fingers, touches, width_, height_, display_,
                     grContext_, x11_presenter_, need_redraw_, is_drawing_, seen, painted,
                     size, crashed>>
  BY DEF DelayPasses, mainVars, memberVars, drawVars
<1>2. "render" \in Tasks /\ "render" \notin Touches
  BY DEF Tasks, Touches
<1>3. /\ queue' \in Seq(Tasks)
      /\ Count(queue', {"render"}) = Count(queue, {"render"}) + 1
      /\ Count(queue', Touches) = Count(queue, Touches)
  BY <1>1, <1>2, QueueAppend
<1>4. TypeOK'
  BY <1>1, <1>3 DEF TypeOK, Tasks
<1>5. Pending' = Pending
  <2>1. queue \in Seq(Tasks) /\ delayed \in Nat
    BY DEF TypeOK, Tasks
  <2>2. Count(queue, {"render"}) \in Nat
    BY <2>1, CountFinite
  <2>3. delayed' + Count(queue', {"render"}) = delayed + Count(queue, {"render"})
    BY <1>1, <1>3, <2>1, <2>2
  <2> QED BY <2>3, Counted DEF Pending
<1>6. TouchesCounted'
  BY <1>1, <1>3, Counted DEF TouchesCounted
<1> QED BY <1>1, <1>4, <1>5, <1>6

\* The render thread runs a task.  SetNeedsRedraw posts a closure only when none is
\* under way, and a closure that runs is posted again or ends the drawing.
LEMMA RenderThreadInv ==
  ASSUME IndInv, RenderThread
  PROVE  IndInv'
<1> DEFINE renders(q) == Count(q, {"render"})
<1>1. /\ TypeOK /\ delayed \in Nat /\ seen \in Nat /\ painted \in 0..seen
      /\ seen + Count(queue, Touches) = touches
      /\ delayed + renders(queue) = IF is_drawing_ THEN 1 ELSE 0
  BY Counted DEF IndInv, OneRenderClosure, TypeOK, Pending, TouchesCounted
<1>2. queue # <<>> /\ queue' = Tail(queue) /\ UNCHANGED mainVars
  BY DEF RenderThread, InitializeOnRenderThread, Render, OnTouchDown, OnTouchMove, OnTouchUp,
         At
<1>3. /\ queue' \in Seq(Tasks) /\ renders(queue') \in Nat /\ Count(queue', Touches) \in Nat
      /\ renders(queue) = IF Head(queue) = "render" THEN renders(queue') + 1
                          ELSE renders(queue')
      /\ Count(queue, Touches) = IF Head(queue) \in Touches THEN Count(queue', Touches) + 1
                                 ELSE Count(queue', Touches)
  BY <1>1, <1>2, QueueTail
\* What is left to show of a task.
<1> DEFINE Kept ==
      /\ seen' + Count(queue', Touches) = touches
      /\ delayed' + renders(queue') = IF is_drawing_' THEN 1 ELSE 0
      /\ delayed' \in Nat /\ seen' \in Nat /\ painted' \in 0..seen'
      /\ is_drawing_' \in BOOLEAN /\ need_redraw_' \in BOOLEAN
      /\ display_' \in BOOLEAN /\ grContext_' \in BOOLEAN /\ x11_presenter_' \in BOOLEAN
      /\ size' \in (0..MaxResizes) \X (0..MaxResizes) /\ crashed' \in BOOLEAN
<1>4. ASSUME Kept PROVE IndInv'
  <2>1. seen' \in 0..touches
    BY <1>3, <1>4
  <2>2. TypeOK'
    BY <1>1, <1>2, <1>3, <1>4, <2>1 DEF TypeOK, Tasks, mainVars
  <2>3. Pending' = IF is_drawing_' THEN 1 ELSE 0
    BY <1>4, Counted DEF Pending
  <2>4. TouchesCounted'
    BY <1>2, <1>4, Counted DEF TouchesCounted, mainVars
  <2> QED BY <2>2, <2>3, <2>4 DEF IndInv, OneRenderClosure
<1>5. /\ need_redraw_ \in BOOLEAN /\ is_drawing_ \in BOOLEAN /\ crashed \in BOOLEAN
      /\ display_ \in BOOLEAN /\ grContext_ \in BOOLEAN /\ x11_presenter_ \in BOOLEAN
      /\ size \in (0..MaxResizes) \X (0..MaxResizes)
  BY <1>1 DEF TypeOK
<1>6. CASE InitializeOnRenderThread
  <2>1. Head(queue) \notin Touches /\ Head(queue) # "render"
        /\ UNCHANGED <<delayed, need_redraw_, is_drawing_, seen, painted, crashed>>
        /\ display_' \in BOOLEAN /\ grContext_' \in BOOLEAN /\ x11_presenter_' \in BOOLEAN
    BY <1>5, <1>6
    DEF InitializeOnRenderThread, InitializeGL, InitializeSoftware, At, Touches, memberVars
  <2>2. size' \in (0..MaxResizes) \X (0..MaxResizes)
    BY <1>1, <1>6 DEF InitializeOnRenderThread, InitializeGL, InitializeSoftware,
                      PaintSurface, TypeOK
  <2> QED BY <1>1, <1>3, <1>4, <1>5, <2>1, <2>2
<1>7. ASSUME Head(queue) = "render", Render PROVE Kept
  <2>1. "render" \notin Touches /\ UNCHANGED <<display_, grContext_, x11_presenter_, need_redraw_,
                                              seen>>
    BY <1>7 DEF Render, Touches, memberVars
  <2>2. delayed = 0 /\ renders(queue') = 0 /\ is_drawing_
    BY <1>1, <1>3, <1>7
  <2>3. CASE need_redraw_
    <3>1. is_drawing_' = TRUE /\ delayed' = delayed + 1 /\ Paint(seen)
      BY <1>7, <2>3 DEF Render, OnRender
    <3>2. /\ crashed' \in BOOLEAN /\ painted' \in 0..seen
          /\ size' \in (0..MaxResizes) \X (0..MaxResizes)
      BY <1>1, <3>1, PaintTyped
    <3> QED BY <1>1, <1>3, <1>5, <1>7, <2>1, <2>2, <3>1, <3>2
  <2>4. CASE ~need_redraw_
    <3>1. is_drawing_' = FALSE /\ UNCHANGED <<delayed, painted, size, crashed>>
      BY <1>7, <2>4 DEF Render, OnRenderStop
    <3>2. delayed' + renders(queue') = IF is_drawing_' THEN 1 ELSE 0
      BY <2>2, <3>1
    <3>3. seen' + Count(queue', Touches) = touches
      BY <1>1, <1>3, <1>7, <2>1
    <3>4. /\ is_drawing_' \in BOOLEAN /\ crashed' \in BOOLEAN
          /\ size' \in (0..MaxResizes) \X (0..MaxResizes)
      BY <1>5, <3>1
    <3> QED BY <1>1, <1>5, <2>1, <3>1, <3>2, <3>3, <3>4
  <2> QED BY <2>3, <2>4
<1>8. ASSUME OnTouchDown PROVE Kept
  <2>1. /\ Head(queue) = "down" /\ "down" \in Touches /\ "down" # "render"
        /\ seen' = seen + 1 /\ need_redraw_' = TRUE
        /\ UNCHANGED <<display_, grContext_, x11_presenter_>>
    BY <1>8 DEF OnTouchDown, At, Touches, SetNeedsRedraw, memberVars
  <2>2. CASE is_drawing_
    <3>1. UNCHANGED <<is_drawing_, delayed, painted, size, crashed>>
      BY <1>8, <2>2 DEF OnTouchDown, SetNeedsRedraw
    <3> QED BY <1>1, <1>3, <1>5, <2>1, <3>1
  <2>3. CASE ~is_drawing_
    <3>1. is_drawing_' = TRUE /\ delayed' = delayed + 1 /\ Paint(seen')
      BY <1>8, <2>3 DEF OnTouchDown, SetNeedsRedraw, OnRender
    <3>2. seen' \in Nat
      BY <1>1, <2>1
    <3>3. /\ crashed' \in BOOLEAN /\ (painted' = seen' \/ painted' = painted)
          /\ size' \in (0..MaxResizes) \X (0..MaxResizes)
      BY <1>1, <3>1, <3>2, PaintTyped
    <3>4. painted' \in 0..seen'
      BY <1>1, <2>1, <3>3
    <3>5. delayed = 0 /\ renders(queue') = 0
      BY <1>1, <1>3, <2>1, <2>3
    <3>6. delayed' + renders(queue') = 1 /\ delayed' \in Nat
      BY <3>1, <3>5
    <3>7. seen' + Count(queue', Touches) = touches
      BY <1>1, <1>3, <2>1
    <3> QED BY <1>5, <2>1, <3>1, <3>2, <3>3, <3>4, <3>6, <3>7
  <2> QED BY <2>2, <2>3
<1>9. ASSUME OnTouchMove \/ OnTouchUp PROVE Kept
  <2>1. /\ Head(queue) \in Touches /\ Head(queue) # "render"
        /\ seen' = seen + 1 /\ need_redraw_' \in BOOLEAN
        /\ UNCHANGED <<delayed, display_, grContext_, x11_presenter_, is_drawing_, painted,
                       size, crashed>>
    BY <1>5, <1>9 DEF OnTouchMove, OnTouchUp, At, Touches, memberVars
  <2> QED BY <1>1, <1>3, <1>5, <2>1
<1>10. CASE Render
  BY <1>4, <1>7, <1>10 DEF Render, At
<1> QED BY <1>4, <1>6, <1>8, <1>9, <1>10 DEF RenderThread

-----------------------------------------------------------------------------
(***************************************************************************)
(* SkiaCanvas: the theorems.                                               *)
(***************************************************************************)
\* The invariant of the canvas: IndInv holds in every state.
THEOREM Invariance == Spec => []IndInv
<1>1. IndInv /\ [Next]_vars => IndInv'
  <2> SUFFICES ASSUME IndInv, [Next]_vars PROVE IndInv'
    OBVIOUS
  <2>1. CASE MainThread
    BY <2>1, MainThreadInv
  <2>2. CASE RenderThread
    BY <2>2, RenderThreadInv
  <2>3. CASE DelayPasses
    BY <2>3, DelayInv
  <2>4. CASE UNCHANGED vars
    BY <2>4 DEF vars, mainVars, memberVars, drawVars, IndInv, OneRenderClosure, TypeOK,
                Pending, TouchesCounted
  <2> QED BY <2>1, <2>2, <2>3, <2>4 DEF Next
<1> QED BY InitInv, <1>1, PTL DEF Spec

\* However the touches fall between the frames, there is one render closure under way
\* while the canvas is drawing and none when it is not.
THEOREM OneClosureAtATime == Spec => []OneRenderClosure
<1>1. IndInv => OneRenderClosure
  BY DEF IndInv
<1> QED BY Invariance, <1>1, PTL

-----------------------------------------------------------------------------
(***************************************************************************)
(* GpuService: every thread finds made what its task uses.                 *)
(***************************************************************************)
\* The Bind of client c has been posted.
BindPosted(c) == IF c = "root" THEN posted >= 1 ELSE posted >= 2

\* A client's Bind comes before all else in its queue.
BindComesFirst ==
  \A c \in Clients :
    /\ ~BindPosted(c) => tasks[c] = <<>>
    /\ BindPosted(c) /\ c \notin bound => Running(c, "Bind")

\* The server's channel comes before all else in the queue of host_io_thread_, and
\* what the GPU side is asked for comes after InitVizHost.
ChannelComesFirst ==
  /\ posted < 3 => tasks["host_io"] = <<>>
  /\ posted >= 3 /\ ~server_channel_ => Running("host_io", "InitIPCServer")
  /\ establish # "none" => server_channel_
  /\ request # "none" => posted = Len(Posts)
  /\ posted < Len(Posts) =>
       \A i \in 1..Len(tasks["host_io"]) : tasks["host_io"][i] # "InitVizHost"

\* The VizMainImpl is made before all else in a queue, but for the client's channel.
VizMainFirst(q) ==
  \E k \in 1..Len(q) :
    q[k] = "InitVizMain" /\ \A j \in 1..k - 1 : q[j] = "InitIPCClient"

VizMainComesFirst ==
  /\ posted < 4 => \A i \in 1..Len(tasks["gpu_main"]) :
                     tasks["gpu_main"][i] = "InitIPCClient"
  /\ posted >= 4 /\ ~viz_main_ => VizMainFirst(tasks["gpu_main"])
  /\ posted < Len(Posts) => \A i \in 1..Len(tasks["gpu_main"]) :
                              tasks["gpu_main"][i] # "OnAssociatedInterfaceRequest"

\* The inductive invariant of the start-up.
StartUpInv ==
  /\ StartUpTypeOK
  /\ BindComesFirst
  /\ ChannelComesFirst
  /\ VizMainComesFirst

\* Each way in which the queue of the GPU main thread changes.
LEMMA VizMainFirstAppend ==
  ASSUME NEW T, NEW q \in Seq(T), NEW e \in T, VizMainFirst(q)
  PROVE  VizMainFirst(Append(q, e))
<1>1. PICK k \in 1..Len(q) :
        q[k] = "InitVizMain" /\ \A j \in 1..k - 1 : q[j] = "InitIPCClient"
  BY DEF VizMainFirst
<1>2. k \in 1..Len(Append(q, e)) /\ \A j \in 1..k : Append(q, e)[j] = q[j]
  BY AppendFacts
<1> QED BY <1>1, <1>2 DEF VizMainFirst

\* InitVizMain itself is posted.
LEMMA VizMainFirstPosted ==
  ASSUME NEW T, NEW q \in Seq(T), "InitVizMain" \in T,
         \A i \in 1..Len(q) : q[i] = "InitIPCClient"
  PROVE  VizMainFirst(Append(q, "InitVizMain"))
<1>1. /\ Len(q) + 1 \in 1..Len(Append(q, "InitVizMain"))
      /\ Append(q, "InitVizMain")[Len(q) + 1] = "InitVizMain"
      /\ \A j \in 1..(Len(q) + 1) - 1 : Append(q, "InitVizMain")[j] = "InitIPCClient"
  BY AppendFacts
<1> QED BY <1>1 DEF VizMainFirst

\* The first task is taken: it is InitVizMain, or InitVizMain is still to come.
LEMMA VizMainFirstTail ==
  ASSUME NEW T, NEW q \in Seq(T), VizMainFirst(q)
  PROVE  /\ q # <<>> /\ Head(q) \in {"InitIPCClient", "InitVizMain"}
         /\ Head(q) = "InitIPCClient" => VizMainFirst(Tail(q))
<1>1. PICK k \in 1..Len(q) :
        q[k] = "InitVizMain" /\ \A j \in 1..k - 1 : q[j] = "InitIPCClient"
  BY DEF VizMainFirst
<1>2. q # <<>> /\ Head(q) = q[1] /\ Len(q) \in Nat
  BY <1>1, TailFacts
<1>3. Head(q) \in {"InitIPCClient", "InitVizMain"}
  <2>1. CASE k = 1
    BY <1>1, <1>2, <2>1
  <2>2. CASE k # 1
    <3>1. 1 \in 1..k - 1
      BY <1>2, <2>2
    <3> QED BY <1>1, <1>2, <3>1
  <2> QED BY <2>1, <2>2
<1>4. ASSUME Head(q) = "InitIPCClient"
      PROVE  VizMainFirst(Tail(q))
  <2>1. k # 1
    BY <1>1, <1>2, <1>4
  <2>2. k - 1 \in 1..Len(Tail(q)) /\ \A j \in 1..k - 1 : Tail(q)[j] = q[j + 1]
    BY <1>2, <2>1, TailFacts
  <2>3. \A j \in 1..(k - 1) - 1 : j + 1 \in 1..k - 1
    BY <1>2
  <2>4. Tail(q)[k - 1] = "InitVizMain"
    <3>1. k - 1 \in 1..k - 1 /\ (k - 1) + 1 = k
      BY <1>2, <2>1
    <3> QED BY <1>1, <2>2, <3>1
  <2>5. \A j \in 1..(k - 1) - 1 : Tail(q)[j] = "InitIPCClient"
    BY <1>1, <1>2, <2>2, <2>3
  <2> QED BY <2>2, <2>4, <2>5 DEF VizMainFirst
<1> QED BY <1>2, <1>3, <1>4

-----------------------------------------------------------------------------
\* The tasks of each thread, and the ranges of the other variables.
TasksOf(t) ==
  CASE t \in Clients -> ClientTasks
    [] t = "main" -> MainTasks
    [] t = "host_io" -> HostTasks
    [] t = "gpu_main" -> GpuMainTasks

RangesOK ==
  /\ posted \in 0..Len(Posts)
  /\ server_channel_ \in BOOLEAN /\ client_channel_ \in BOOLEAN
  /\ viz_main_ \in BOOLEAN /\ gpu_host_ \in BOOLEAN
  /\ request \in {"none", "sent", "delivered", "bound"}
  /\ establish \in {"none", "asked", "answered"}
  /\ gpu_channel_host_ \in {"unset", "null", "made"}
  /\ bound \subseteq Clients /\ provided \subseteq Clients

\* The threads and the kinds of their tasks.
LEMMA ThreadsAre ==
  /\ Threads = {"root", "child", "main", "host_io", "gpu_main"} /\ Clients = {"root", "child"}
  /\ TasksOf("root") = ClientTasks /\ TasksOf("child") = ClientTasks
  /\ TasksOf("main") = MainTasks /\ TasksOf("host_io") = HostTasks
  /\ TasksOf("gpu_main") = GpuMainTasks
BY DEF Threads, Clients, TasksOf

\* Every queue holds tasks of its own thread.
LEMMA QueuesOf ==
  ASSUME StartUpTypeOK
  PROVE  \A t \in Threads : tasks[t] \in Seq(TasksOf(t))
BY ThreadsAre DEF StartUpTypeOK

\* A step that changes queues by tasks of their threads keeps the types.
LEMMA StartUpTyped ==
  ASSUME StartUpTypeOK, tasks' = [t \in Threads |-> tasks'[t]],
         \A t \in Threads : tasks'[t] = tasks[t] \/ tasks'[t] \in Seq(TasksOf(t)),
         RangesOK'
  PROVE  StartUpTypeOK'
<1>1. \A t \in Threads : tasks'[t] \in Seq(TasksOf(t))
  BY QueuesOf
<1>2. /\ tasks'["root"] \in Seq(TaskNames) /\ tasks'["child"] \in Seq(TaskNames)
      /\ tasks'["main"] \in Seq(TaskNames) /\ tasks'["host_io"] \in Seq(TaskNames)
      /\ tasks'["gpu_main"] \in Seq(TaskNames)
  BY <1>1, Larger, ThreadsAre DEF TaskNames
<1>3. tasks' \in [Threads -> Seq(TaskNames)]
  BY <1>2, ThreadsAre
<1> QED BY <1>1, <1>3, ThreadsAre DEF StartUpTypeOK, RangesOK

\* The part of the types that is not about queues.
LEMMA RangesKept ==
  ASSUME StartUpTypeOK
  PROVE  RangesOK
BY DEF StartUpTypeOK, RangesOK

\* The queues after Done, after a post, and after both.
LEMMA DoneQueues ==
  ASSUME StartUpTypeOK, NEW t \in Threads, tasks' = Done(t)
  PROVE  /\ tasks' = [u \in Threads |-> tasks'[u]]
         /\ tasks'[t] = Tail(tasks[t]) /\ \A u \in Threads \ {t} : tasks'[u] = tasks[u]
BY DEF StartUpTypeOK, Done

LEMMA PostQueues ==
  ASSUME StartUpTypeOK, NEW t \in Threads, NEW e, tasks' = [tasks EXCEPT ![t] = Append(@, e)]
  PROVE  /\ tasks' = [u \in Threads |-> tasks'[u]]
         /\ tasks'[t] = Append(tasks[t], e) /\ \A u \in Threads \ {t} : tasks'[u] = tasks[u]
BY DEF StartUpTypeOK

LEMMA DonePostingQueues ==
  ASSUME StartUpTypeOK, NEW t \in Threads, NEW to \in Threads \ {t}, NEW e,
         tasks' = DonePosting(t, to, e)
  PROVE  /\ tasks' = [u \in Threads |-> tasks'[u]]
         /\ tasks'[t] = Tail(tasks[t]) /\ tasks'[to] = Append(tasks[to], e)
         /\ \A u \in Threads \ {t, to} : tasks'[u] = tasks[u]
BY DEF StartUpTypeOK, DonePosting, Done

\* At first every queue is empty.
LEMMA StartUpInitInv == StartUpInit => StartUpInv
<1> SUFFICES ASSUME StartUpInit PROVE StartUpInv
  OBVIOUS
<1>1. \A t \in Threads : tasks[t] = <<>>
  BY DEF StartUpInit
<1>2. StartUpTypeOK
  <2>1. \A S : <<>> \in Seq(S)
    OBVIOUS
  <2>2. posted \in 0..Len(Posts)
    BY DEF StartUpInit, Posts
  <2> QED BY <1>1, <2>1, <2>2 DEF StartUpInit, StartUpTypeOK, Threads, Clients
<1>3. BindComesFirst
  BY <1>1 DEF StartUpInit, BindComesFirst, BindPosted, Threads, Clients
<1>4. ChannelComesFirst
  BY <1>1 DEF StartUpInit, ChannelComesFirst, Threads, Clients
<1>5. VizMainComesFirst
  BY <1>1 DEF StartUpInit, VizMainComesFirst, Threads, Clients
<1> QED BY <1>2, <1>3, <1>4, <1>5 DEF StartUpInv

\* The five tasks InitializeOnThread and the GpuService post.
LEMMA PostsAre ==
  /\ Len(Posts) = 5
  /\ Posts[1] = Post("root", "Bind") /\ Posts[2] = Post("child", "Bind")
  /\ Posts[3] = Post("host_io", "InitIPCServer")
  /\ Posts[4] = Post("gpu_main", "InitVizMain") /\ Posts[5] = Post("host_io", "InitVizHost")
BY DEF Posts

\* What Construct does to the queues.
LEMMA ConstructPosts ==
  ASSUME StartUpTypeOK, Construct, NEW t \in Threads, NEW e, Posts[posted + 1] = Post(t, e)
  PROVE  /\ tasks' = [u \in Threads |-> tasks'[u]]
         /\ tasks'[t] = Append(tasks[t], e) /\ \A u \in Threads \ {t} : tasks'[u] = tasks[u]
<1>1. Posts[posted + 1].thread = t /\ Posts[posted + 1].task = e
  BY DEF Post
<1>2. tasks' = [tasks EXCEPT ![t] = Append(@, e)]
  BY <1>1 DEF Construct
<1> QED BY <1>2, PostQueues

\* The main thread posts the next of the five.
LEMMA ConstructInv ==
  ASSUME StartUpInv, Construct
  PROVE  StartUpInv'
<1> USE DEF StartUpInv
<1>1. /\ posted \in 0..4 /\ posted' = posted + 1
      /\ UNCHANGED <<hostVars, gpuVars, request, bound, provided>>
  BY PostsAre DEF Construct, StartUpTypeOK
<1>2. RangesOK'
  BY <1>1, PostsAre, RangesKept DEF RangesOK, hostVars, gpuVars
<1>3. \A t \in Threads : tasks[t] \in Seq(TasksOf(t))
  BY QueuesOf
<1> USE ThreadsAre DEF hostVars, gpuVars
<1>4. QED
  <2>1. CASE posted = 0
    <3>1. Posts[posted + 1] = Post("root", "Bind") /\ "root" \in Threads
      BY <2>1, PostsAre
    <3>2. /\ tasks' = [u \in Threads |-> tasks'[u]]
          /\ tasks'["root"] = Append(tasks["root"], "Bind")
          /\ \A u \in Threads \ {"root"} : tasks'[u] = tasks[u]
      BY <1>1, <3>1, ConstructPosts
    <3>3. tasks'["root"] \in Seq(ClientTasks) /\ Running("root", "Bind")'
      <4>1. tasks["root"] \in Seq(ClientTasks) /\ "Bind" \in ClientTasks
        BY <1>3 DEF ClientTasks
      <4>2. /\ Append(tasks["root"], "Bind") \in Seq(ClientTasks)
            /\ Append(tasks["root"], "Bind") # <<>>
            /\ tasks["root"] # <<>> =>
                 Head(Append(tasks["root"], "Bind")) = Head(tasks["root"])
            /\ tasks["root"] = <<>> => Head(Append(tasks["root"], "Bind")) = "Bind"
        BY <4>1, AppendFacts
      <4> QED BY <2>1, <3>2, <4>1, <4>2 DEF BindComesFirst, BindPosted, Running
    <3>4. StartUpTypeOK'
      BY <1>2, <3>2, <3>3, StartUpTyped
    <3>5. BindComesFirst'
      <4>1. /\ ~BindPosted("root")' => tasks'["root"] = <<>>
            /\ BindPosted("root")' /\ "root" \notin bound' => Running("root", "Bind")'
        BY <1>1, <2>1, <3>2, <3>3 DEF BindComesFirst, BindPosted, Running
      <4>2. /\ ~BindPosted("child")' => tasks'["child"] = <<>>
            /\ BindPosted("child")' /\ "child" \notin bound' => Running("child", "Bind")'
        BY <1>1, <2>1, <3>2, <3>3 DEF BindComesFirst, BindPosted, Running
      <4> QED BY <4>1, <4>2 DEF BindComesFirst
    <3>6. ChannelComesFirst'
      BY <1>1, <2>1, <3>2, PostsAre DEF ChannelComesFirst, Running
    <3>7. VizMainComesFirst'
      BY <1>1, <2>1, <3>2 DEF VizMainComesFirst
    <3> QED BY <3>4, <3>5, <3>6, <3>7
  <2>2. CASE posted = 1
    <3>1. Posts[posted + 1] = Post("child", "Bind") /\ "child" \in Threads
      BY <2>2, PostsAre
    <3>2. /\ tasks' = [u \in Threads |-> tasks'[u]]
          /\ tasks'["child"] = Append(tasks["child"], "Bind")
          /\ \A u \in Threads \ {"child"} : tasks'[u] = tasks[u]
      BY <1>1, <3>1, ConstructPosts
    <3>3. tasks'["child"] \in Seq(ClientTasks) /\ Running("child", "Bind")'
      <4>1. tasks["child"] \in Seq(ClientTasks) /\ "Bind" \in ClientTasks
        BY <1>3 DEF ClientTasks
      <4>2. /\ Append(tasks["child"], "Bind") \in Seq(ClientTasks)
            /\ Append(tasks["child"], "Bind") # <<>>
            /\ tasks["child"] # <<>> =>
                 Head(Append(tasks["child"], "Bind")) = Head(tasks["child"])
            /\ tasks["child"] = <<>> => Head(Append(tasks["child"], "Bind")) = "Bind"
        BY <4>1, AppendFacts
      <4> QED BY <2>2, <3>2, <4>1, <4>2 DEF BindComesFirst, BindPosted, Running
    <3>4. StartUpTypeOK'
      BY <1>2, <3>2, <3>3, StartUpTyped
    <3>5. BindComesFirst'
      <4>1. /\ ~BindPosted("root")' => tasks'["root"] = <<>>
            /\ BindPosted("root")' /\ "root" \notin bound' => Running("root", "Bind")'
        BY <1>1, <2>2, <3>2, <3>3 DEF BindComesFirst, BindPosted, Running
      <4>2. /\ ~BindPosted("child")' => tasks'["child"] = <<>>
            /\ BindPosted("child")' /\ "child" \notin bound' => Running("child", "Bind")'
        BY <1>1, <2>2, <3>2, <3>3 DEF BindComesFirst, BindPosted, Running
      <4> QED BY <4>1, <4>2 DEF BindComesFirst
    <3>6. ChannelComesFirst'
      BY <1>1, <2>2, <3>2, PostsAre DEF ChannelComesFirst, Running
    <3>7. VizMainComesFirst'
      BY <1>1, <2>2, <3>2 DEF VizMainComesFirst
    <3> QED BY <3>4, <3>5, <3>6, <3>7
  <2>3. CASE posted = 2
    <3>1. Posts[posted + 1] = Post("host_io", "InitIPCServer") /\ "host_io" \in Threads
      BY <2>3, PostsAre
    <3>2. /\ tasks' = [u \in Threads |-> tasks'[u]]
          /\ tasks'["host_io"] = Append(tasks["host_io"], "InitIPCServer")
          /\ \A u \in Threads \ {"host_io"} : tasks'[u] = tasks[u]
      BY <1>1, <3>1, ConstructPosts
    <3>3. /\ tasks'["host_io"] \in Seq(HostTasks) /\ Running("host_io", "InitIPCServer")'
          /\ \A i \in 1..Len(tasks'["host_io"]) : tasks'["host_io"][i] # "InitVizHost"
      <4>1. tasks["host_io"] \in Seq(HostTasks) /\ "InitIPCServer" \in HostTasks
        BY <1>3 DEF HostTasks
      <4>2. /\ Append(tasks["host_io"], "InitIPCServer") \in Seq(HostTasks)
            /\ Append(tasks["host_io"], "InitIPCServer") # <<>>
            /\ tasks["host_io"] # <<>> =>
                 Head(Append(tasks["host_io"], "InitIPCServer")) = Head(tasks["host_io"])
            /\ tasks["host_io"] = <<>> => Head(Append(tasks["host_io"], "InitIPCServer")) = "InitIPCServer"
        BY <4>1, AppendFacts
      <4> QED BY <2>3, <3>2, <4>1, <4>2 DEF ChannelComesFirst, Running
    <3>4. StartUpTypeOK'
      BY <1>2, <3>2, <3>3, StartUpTyped
    <3>5. BindComesFirst'
      <4>1. /\ ~BindPosted("root")' => tasks'["root"] = <<>>
            /\ BindPosted("root")' /\ "root" \notin bound' => Running("root", "Bind")'
        BY <1>1, <2>3, <3>2 DEF BindComesFirst, BindPosted, Running
      <4>2. /\ ~BindPosted("child")' => tasks'["child"] = <<>>
            /\ BindPosted("child")' /\ "child" \notin bound' => Running("child", "Bind")'
        BY <1>1, <2>3, <3>2 DEF BindComesFirst, BindPosted, Running
      <4> QED BY <4>1, <4>2 DEF BindComesFirst
    <3>6. ChannelComesFirst'
      BY <1>1, <2>3, <3>2, <3>3, PostsAre DEF ChannelComesFirst
    <3>7. VizMainComesFirst'
      BY <1>1, <2>3, <3>2 DEF VizMainComesFirst
    <3> QED BY <3>4, <3>5, <3>6, <3>7
  <2>4. CASE posted = 3
    <3>1. Posts[posted + 1] = Post("gpu_main", "InitVizMain") /\ "gpu_main" \in Threads
      BY <2>4, PostsAre
    <3>2. /\ tasks' = [u \in Threads |-> tasks'[u]]
          /\ tasks'["gpu_main"] = Append(tasks["gpu_main"], "InitVizMain")
          /\ \A u \in Threads \ {"gpu_main"} : tasks'[u] = tasks[u]
      BY <1>1, <3>1, ConstructPosts
    <3>3. /\ tasks'["gpu_main"] \in Seq(GpuMainTasks)
          /\ VizMainFirst(tasks'["gpu_main"])
          /\ \A i \in 1..Len(tasks'["gpu_main"]) :
               tasks'["gpu_main"][i] # "OnAssociatedInterfaceRequest"
      <4>1. tasks["gpu_main"] \in Seq(GpuMainTasks) /\ "InitVizMain" \in GpuMainTasks
        BY <1>3 DEF GpuMainTasks
      <4>2. /\ Append(tasks["gpu_main"], "InitVizMain") \in Seq(GpuMainTasks)
            /\ Append(tasks["gpu_main"], "InitVizMain") # <<>>
            /\ tasks["gpu_main"] # <<>> =>
                 Head(Append(tasks["gpu_main"], "InitVizMain")) = Head(tasks["gpu_main"])
            /\ Len(Append(tasks["gpu_main"], "InitVizMain")) = Len(tasks["gpu_main"]) + 1
            /\ Len(tasks["gpu_main"]) \in Nat
            /\ Append(tasks["gpu_main"], "InitVizMain")[Len(tasks["gpu_main"]) + 1] = "InitVizMain"
            /\ \A i \in 1..Len(tasks["gpu_main"]) :
                 Append(tasks["gpu_main"], "InitVizMain")[i] = tasks["gpu_main"][i]
        BY <4>1, AppendFacts
      <4>3. VizMainFirst(Append(tasks["gpu_main"], "InitVizMain"))
        BY <2>4, <4>1, VizMainFirstPosted DEF VizMainComesFirst
      <4>4. \A i \in 1..Len(tasks["gpu_main"]) + 1 :
              Append(tasks["gpu_main"], "InitVizMain")[i] # "OnAssociatedInterfaceRequest"
        BY <2>4, <4>2 DEF VizMainComesFirst
      <4> QED BY <3>2, <4>2, <4>3, <4>4
    <3>4. StartUpTypeOK'
      BY <1>2, <3>2, <3>3, StartUpTyped
    <3>5. BindComesFirst'
      <4>1. /\ ~BindPosted("root")' => tasks'["root"] = <<>>
            /\ BindPosted("root")' /\ "root" \notin bound' => Running("root", "Bind")'
        BY <1>1, <2>4, <3>2 DEF BindComesFirst, BindPosted, Running
      <4>2. /\ ~BindPosted("child")' => tasks'["child"] = <<>>
            /\ BindPosted("child")' /\ "child" \notin bound' => Running("child", "Bind")'
        BY <1>1, <2>4, <3>2 DEF BindComesFirst, BindPosted, Running
      <4> QED BY <4>1, <4>2 DEF BindComesFirst
    <3>6. ChannelComesFirst'
      BY <1>1, <2>4, <3>2, PostsAre DEF ChannelComesFirst, Running
    <3>7. VizMainComesFirst'
      BY <1>1, <2>4, <3>3 DEF VizMainComesFirst
    <3> QED BY <3>4, <3>5, <3>6, <3>7
  <2>5. CASE posted = 4
    <3>1. Posts[posted + 1] = Post("host_io", "InitVizHost") /\ "host_io" \in Threads
      BY <2>5, PostsAre
    <3>2. /\ tasks' = [u \in Threads |-> tasks'[u]]
          /\ tasks'["host_io"] = Append(tasks["host_io"], "InitVizHost")
          /\ \A u \in Threads \ {"host_io"} : tasks'[u] = tasks[u]
      BY <1>1, <3>1, ConstructPosts
    <3>3. /\ tasks'["host_io"] \in Seq(HostTasks)
          /\ ~server_channel_ => Running("host_io", "InitIPCServer")'
      <4>1. tasks["host_io"] \in Seq(HostTasks) /\ "InitVizHost" \in HostTasks
        BY <1>3 DEF HostTasks
      <4>2. /\ Append(tasks["host_io"], "InitVizHost") \in Seq(HostTasks)
            /\ Append(tasks["host_io"], "InitVizHost") # <<>>
            /\ tasks["host_io"] # <<>> =>
                 Head(Append(tasks["host_io"], "InitVizHost")) = Head(tasks["host_io"])
            /\ tasks["host_io"] = <<>> => Head(Append(tasks["host_io"], "InitVizHost")) = "InitVizHost"
        BY <4>1, AppendFacts
      <4> QED BY <2>5, <3>2, <4>1, <4>2 DEF ChannelComesFirst, Running
    <3>4. StartUpTypeOK'
      BY <1>2, <3>2, <3>3, StartUpTyped
    <3>5. BindComesFirst'
      <4>1. /\ ~BindPosted("root")' => tasks'["root"] = <<>>
            /\ BindPosted("root")' /\ "root" \notin bound' => Running("root", "Bind")'
        BY <1>1, <2>5, <3>2 DEF BindComesFirst, BindPosted, Running
      <4>2. /\ ~BindPosted("child")' => tasks'["child"] = <<>>
            /\ BindPosted("child")' /\ "child" \notin bound' => Running("child", "Bind")'
        BY <1>1, <2>5, <3>2 DEF BindComesFirst, BindPosted, Running
      <4> QED BY <4>1, <4>2 DEF BindComesFirst
    <3>6. ChannelComesFirst'
      BY <1>1, <2>5, <3>2, <3>3, PostsAre DEF ChannelComesFirst
    <3>7. VizMainComesFirst'
      BY <1>1, <2>5, <3>2 DEF VizMainComesFirst
    <3> QED BY <3>4, <3>5, <3>6, <3>7
  <2> QED BY <1>1, <2>1, <2>2, <2>3, <2>4, <2>5

\* What an action leaves alone, the conjuncts of the invariant that say nothing else keep.
LEMMA KeepClients ==
  ASSUME StartUpInv, posted' = posted, bound' = bound,
         \A c \in Clients : tasks'[c] = tasks[c]
  PROVE  BindComesFirst'
BY DEF StartUpInv, BindComesFirst, BindPosted, Running

LEMMA KeepHost ==
  ASSUME StartUpInv, UNCHANGED <<posted, server_channel_, establish, request>>,
         tasks'["host_io"] = tasks["host_io"]
  PROVE  ChannelComesFirst'
BY DEF StartUpInv, ChannelComesFirst, Running

LEMMA KeepGpu ==
  ASSUME StartUpInv, posted' = posted, viz_main_' = viz_main_,
         tasks'["gpu_main"] = tasks["gpu_main"]
  PROVE  VizMainComesFirst'
BY DEF StartUpInv, VizMainComesFirst

\* A task is done: the queue of its thread, while the others' stay.
LEMMA DoneInv ==
  ASSUME StartUpTypeOK, NEW t \in Threads, NEW task, Running(t, task)
  PROVE  /\ Tail(tasks[t]) \in Seq(TasksOf(t))
         /\ Len(tasks[t]) \in Nat /\ Len(tasks[t]) >= 1 /\ tasks[t][1] = task
         /\ Len(Tail(tasks[t])) = Len(tasks[t]) - 1
         /\ \A i \in 1..Len(Tail(tasks[t])) : i + 1 \in 1..Len(tasks[t])
                                            /\ Tail(tasks[t])[i] = tasks[t][i + 1]
<1>1. tasks[t] \in Seq(TasksOf(t)) /\ tasks[t] # <<>> /\ Head(tasks[t]) = task
  BY QueuesOf DEF Running
<1>2. /\ Tail(tasks[t]) \in Seq(TasksOf(t)) /\ Head(tasks[t]) = tasks[t][1]
      /\ Len(tasks[t]) \in Nat /\ Len(tasks[t]) >= 1
      /\ Len(Tail(tasks[t])) = Len(tasks[t]) - 1
      /\ \A i \in 1..Len(tasks[t]) - 1 : Tail(tasks[t])[i] = tasks[t][i + 1]
  BY <1>1, TailFacts
<1> QED BY <1>1, <1>2

\* The main thread hands the providers to the clients, behind their Bind.
LEMMA OnEstablishedOnMainInv ==
  ASSUME StartUpInv, OnEstablishedOnMain
  PROVE  StartUpInv'
<1> USE ThreadsAre DEF hostVars, gpuVars
<1>0. StartUpTypeOK /\ BindComesFirst
  BY DEF StartUpInv
<1>1. /\ posted = 5 /\ Running("main", "OnEstablishedOnMain")
      /\ UNCHANGED <<posted, hostVars, gpuVars, request, bound, provided>>
      /\ tasks' = [t \in Threads |-> tasks'[t]]
      /\ tasks'["root"] = Append(tasks["root"], "SetContextProvider")
      /\ tasks'["child"] = Append(tasks["child"], "SetContextProvider")
      /\ tasks'["main"] = Tail(tasks["main"])
      /\ tasks'["host_io"] = tasks["host_io"] /\ tasks'["gpu_main"] = tasks["gpu_main"]
  <2>1. tasks' = [t \in Threads |->
                 IF t \in Clients THEN Append(tasks[t], "SetContextProvider")
                 ELSE Done("main")[t]]
    BY DEF OnEstablishedOnMain
  <2>2. /\ Done("main")["main"] = Tail(tasks["main"])
        /\ Done("main")["host_io"] = tasks["host_io"]
        /\ Done("main")["gpu_main"] = tasks["gpu_main"]
    BY <1>0 DEF Done, StartUpTypeOK
  <2> QED BY <2>1, <2>2, PostsAre DEF OnEstablishedOnMain
<1>2. tasks["root"] \in Seq(ClientTasks) /\ tasks["child"] \in Seq(ClientTasks)
      /\ "SetContextProvider" \in ClientTasks /\ tasks["main"] \in Seq(MainTasks)
  BY <1>0, QueuesOf DEF ClientTasks
<1>3. /\ tasks'["root"] \in Seq(ClientTasks) /\ tasks'["root"] # <<>>
      /\ tasks["root"] # <<>> => Head(tasks'["root"]) = Head(tasks["root"])
  <2> DEFINE q == tasks["root"]
  <2>1. /\ Append(q, "SetContextProvider") \in Seq(ClientTasks)
        /\ Append(q, "SetContextProvider") # <<>>
        /\ q # <<>> => Head(Append(q, "SetContextProvider")) = Head(q)
    BY <1>2, AppendFacts
  <2> QED BY <1>1, <2>1
<1>4. /\ tasks'["child"] \in Seq(ClientTasks) /\ tasks'["child"] # <<>>
      /\ tasks["child"] # <<>> => Head(tasks'["child"]) = Head(tasks["child"])
  <2> DEFINE q == tasks["child"]
  <2>1. /\ Append(q, "SetContextProvider") \in Seq(ClientTasks)
        /\ Append(q, "SetContextProvider") # <<>>
        /\ q # <<>> => Head(Append(q, "SetContextProvider")) = Head(q)
    BY <1>2, AppendFacts
  <2> QED BY <1>1, <2>1
<1>5. tasks'["main"] \in Seq(MainTasks)
  BY <1>0, <1>1, DoneInv
<1>6. StartUpTypeOK'
  <2>1. \A t \in Threads : tasks'[t] = tasks[t] \/ tasks'[t] \in Seq(TasksOf(t))
    BY <1>1, <1>3, <1>4, <1>5
  <2>2. RangesOK'
    BY <1>0, <1>1, RangesKept DEF RangesOK
  <2> QED BY <1>0, <1>1, <2>1, <2>2, StartUpTyped
<1>7. BindComesFirst'
  <2>1. ASSUME NEW c \in Clients PROVE BindPosted(c)' /\ BindPosted(c)
    BY <1>1 DEF BindPosted
  <2>2. ASSUME NEW c \in Clients, c \notin bound PROVE Running(c, "Bind")'
    BY <1>0, <1>3, <1>4, <2>1, <2>2 DEF BindComesFirst, Running
  <2> QED BY <1>1, <2>1, <2>2 DEF BindComesFirst
<1> QED BY <1>1, <1>6, <1>7, KeepHost, KeepGpu DEF StartUpInv

\* host_io_thread_: the channel is made before anything is asked of the GPU side.
LEMMA HostIoInv ==
  ASSUME StartUpInv, HostIo
  PROVE  StartUpInv'
<1> USE ThreadsAre DEF hostVars, gpuVars
<1>0. StartUpTypeOK /\ ChannelComesFirst /\ VizMainComesFirst
  BY DEF StartUpInv
<1> DEFINE q == tasks["host_io"]
           r == tasks["gpu_main"]
<1>1. q \in Seq(HostTasks) /\ r \in Seq(GpuMainTasks)
  BY <1>0, QueuesOf
<1>2. CASE InitIPCServer
  <2>1. /\ Running("host_io", "InitIPCServer") /\ server_channel_' = TRUE
        /\ UNCHANGED <<posted, gpu_host_, establish, gpu_channel_host_, gpuVars, request,
                       bound, provided>>
        /\ tasks' = [u \in Threads |-> tasks'[u]]
        /\ tasks'["host_io"] = Tail(q) /\ tasks'["gpu_main"] = Append(r, "InitIPCClient")
        /\ \A u \in Threads \ {"host_io", "gpu_main"} : tasks'[u] = tasks[u]
    BY <1>0, <1>2, DonePostingQueues DEF InitIPCServer
  <2>2. /\ Tail(q) \in Seq(HostTasks) /\ Len(q) >= 1
        /\ \A i \in 1..Len(Tail(q)) : i + 1 \in 1..Len(q) /\ Tail(q)[i] = q[i + 1]
    BY <1>0, <2>1, DoneInv
  <2>3. "InitIPCClient" \in GpuMainTasks
    BY DEF GpuMainTasks
  <2>4. /\ Append(r, "InitIPCClient") \in Seq(GpuMainTasks)
        /\ Len(Append(r, "InitIPCClient")) = Len(r) + 1 /\ Len(r) \in Nat
        /\ Append(r, "InitIPCClient")[Len(r) + 1] = "InitIPCClient"
        /\ \A i \in 1..Len(r) : Append(r, "InitIPCClient")[i] = r[i]
        /\ VizMainFirst(r) => VizMainFirst(Append(r, "InitIPCClient"))
    BY <1>1, <2>3, AppendFacts, VizMainFirstAppend
  <2>5. StartUpTypeOK'
    <3>1. \A t \in Threads : tasks'[t] = tasks[t] \/ tasks'[t] \in Seq(TasksOf(t))
      BY <2>1, <2>2, <2>4
    <3>2. RangesOK'
      BY <1>0, <2>1, RangesKept DEF RangesOK
    <3> QED BY <1>0, <2>1, <3>1, <3>2, StartUpTyped
  <2>6. BindComesFirst'
    BY <2>1, KeepClients
  <2>7. ChannelComesFirst'
    <3>1. posted' >= 3 /\ posted \in Nat
      BY <1>0, <2>1 DEF ChannelComesFirst, Running, StartUpTypeOK
    <3>2. posted < Len(Posts) => \A i \in 1..Len(Tail(q)) : Tail(q)[i] # "InitVizHost"
      BY <1>0, <2>2 DEF ChannelComesFirst
    <3> QED BY <1>0, <2>1, <3>1, <3>2 DEF ChannelComesFirst
  <2>8. VizMainComesFirst'
    <3>1. posted < 4 => \A i \in 1..Len(r) + 1 : Append(r, "InitIPCClient")[i] = "InitIPCClient"
      BY <1>0, <2>4 DEF VizMainComesFirst
    <3>2. posted < Len(Posts) =>
            \A i \in 1..Len(r) + 1 : Append(r, "InitIPCClient")[i] # "OnAssociatedInterfaceRequest"
      BY <1>0, <2>4 DEF VizMainComesFirst
    <3> QED BY <1>0, <2>1, <2>4, <3>1, <3>2 DEF VizMainComesFirst
  <2> QED BY <2>5, <2>6, <2>7, <2>8 DEF StartUpInv
<1>3. CASE InitVizHost
  <2>1. /\ Running("host_io", "InitVizHost")
        /\ gpu_host_' = TRUE /\ request' = "sent" /\ establish' = "asked"
        /\ UNCHANGED <<posted, server_channel_, gpu_channel_host_, gpuVars, bound, provided>>
        /\ tasks' = [u \in Threads |-> tasks'[u]]
        /\ tasks'["host_io"] = Tail(q)
        /\ \A u \in Threads \ {"host_io"} : tasks'[u] = tasks[u]
    BY <1>0, <1>3, DoneQueues DEF InitVizHost
  <2>2. /\ Tail(q) \in Seq(HostTasks) /\ Len(q) >= 1 /\ q[1] = "InitVizHost"
        /\ Len(q) \in Nat
    BY <1>0, <2>1, DoneInv
  <2>3. StartUpTypeOK'
    <3>1. \A t \in Threads : tasks'[t] = tasks[t] \/ tasks'[t] \in Seq(TasksOf(t))
      BY <2>1, <2>2
    <3>2. RangesOK'
      BY <1>0, <2>1, RangesKept DEF RangesOK
    <3> QED BY <1>0, <2>1, <3>1, <3>2, StartUpTyped
  <2>4. BindComesFirst' /\ VizMainComesFirst'
    BY <2>1, KeepClients, KeepGpu
  <2>5. ChannelComesFirst'
    <3>1. posted = Len(Posts)
      BY <1>0, <2>2 DEF ChannelComesFirst, StartUpTypeOK
    <3>2. server_channel_
      BY <1>0, <2>1, <3>1, PostsAre DEF ChannelComesFirst, Running
    <3> QED BY <2>1, <3>1, <3>2, PostsAre DEF ChannelComesFirst
  <2> QED BY <2>3, <2>4, <2>5 DEF StartUpInv
<1>4. ASSUME NEW valid \in BOOLEAN, OnEstablishedOnIO(valid)
      PROVE  StartUpInv'
  <2>1. /\ Running("host_io", "OnEstablishedOnIO")
        /\ gpu_channel_host_' \in {"null", "made"}
        /\ UNCHANGED <<posted, server_channel_, gpu_host_, establish, gpuVars, request,
                       bound, provided>>
        /\ tasks' = [u \in Threads |-> tasks'[u]]
        /\ tasks'["host_io"] = Tail(q)
        /\ tasks'["main"] = Append(tasks["main"], "OnEstablishedOnMain")
        /\ \A u \in Threads \ {"host_io", "main"} : tasks'[u] = tasks[u]
    BY <1>0, <1>4, DonePostingQueues DEF OnEstablishedOnIO
  <2>2. /\ Tail(q) \in Seq(HostTasks) /\ Len(q) >= 1 /\ q[1] = "OnEstablishedOnIO"
        /\ \A i \in 1..Len(Tail(q)) : i + 1 \in 1..Len(q) /\ Tail(q)[i] = q[i + 1]
    BY <1>0, <2>1, DoneInv
  <2>3. StartUpTypeOK'
    <3>1. tasks["main"] \in Seq(MainTasks) /\ "OnEstablishedOnMain" \in MainTasks
      BY <1>0, QueuesOf DEF MainTasks
    <3>2. Append(tasks["main"], "OnEstablishedOnMain") \in Seq(MainTasks)
      BY <3>1, AppendFacts
    <3>3. \A t \in Threads : tasks'[t] = tasks[t] \/ tasks'[t] \in Seq(TasksOf(t))
      BY <2>1, <2>2, <3>2
    <3>4. RangesOK'
      BY <1>0, <2>1, RangesKept DEF RangesOK
    <3> QED BY <1>0, <2>1, <3>3, <3>4, StartUpTyped
  <2>4. BindComesFirst' /\ VizMainComesFirst'
    BY <2>1, KeepClients, KeepGpu
  <2>5. ChannelComesFirst'
    <3>1. posted >= 3 /\ server_channel_
      BY <1>0, <2>1 DEF ChannelComesFirst, Running, StartUpTypeOK
    <3>2. posted < Len(Posts) => \A i \in 1..Len(Tail(q)) : Tail(q)[i] # "InitVizHost"
      BY <1>0, <2>2 DEF ChannelComesFirst
    <3> QED BY <1>0, <2>1, <3>1, <3>2 DEF ChannelComesFirst, StartUpTypeOK
  <2> QED BY <2>3, <2>4, <2>5 DEF StartUpInv
<1> QED BY <1>2, <1>3, <1>4 DEF HostIo

\* The GPU main thread: VizMainImpl is made before a request for it is served.
LEMMA GpuInv ==
  ASSUME StartUpInv, Gpu
  PROVE  StartUpInv'
<1> USE ThreadsAre DEF hostVars, gpuVars
<1>0. StartUpTypeOK /\ ChannelComesFirst /\ VizMainComesFirst
  BY DEF StartUpInv
<1> DEFINE r == tasks["gpu_main"]
<1>1. r \in Seq(GpuMainTasks)
  BY <1>0, QueuesOf
<1>2. PICK task \in GpuMainTasks :
        /\ Running("gpu_main", task) /\ tasks' = Done("gpu_main")
        /\ UNCHANGED <<posted, hostVars, bound, provided>>
        /\ client_channel_' \in BOOLEAN
        /\ viz_main_' = (viz_main_ \/ task = "InitVizMain")
        /\ request' = request \/ (request' = "bound" /\ task = "OnAssociatedInterfaceRequest")
  <2>1. CASE InitIPCClient
    BY <1>0, <2>1 DEF InitIPCClient, GpuMainTasks, StartUpTypeOK
  <2>2. CASE InitVizMain
    BY <1>0, <2>2 DEF InitVizMain, GpuMainTasks, StartUpTypeOK
  <2>3. CASE BindVizMain
    BY <1>0, <2>3 DEF BindVizMain, GpuMainTasks, StartUpTypeOK
  <2> QED BY <2>1, <2>2, <2>3 DEF Gpu
<1>3. /\ tasks' = [u \in Threads |-> tasks'[u]]
      /\ tasks'["gpu_main"] = Tail(r)
      /\ \A u \in Threads \ {"gpu_main"} : tasks'[u] = tasks[u]
  BY <1>0, <1>2, DoneQueues
<1>4. /\ Tail(r) \in Seq(GpuMainTasks) /\ Len(r) \in Nat /\ Len(r) >= 1 /\ r[1] = task
      /\ \A i \in 1..Len(Tail(r)) : i + 1 \in 1..Len(r) /\ Tail(r)[i] = r[i + 1]
  BY <1>0, <1>2, DoneInv
<1>5. StartUpTypeOK'
  <2>1. \A t \in Threads : tasks'[t] = tasks[t] \/ tasks'[t] \in Seq(TasksOf(t))
    BY <1>3, <1>4
  <2>2. RangesOK'
    BY <1>0, <1>2, RangesKept DEF RangesOK
  <2> QED BY <1>0, <1>3, <2>1, <2>2, StartUpTyped
<1>6. BindComesFirst'
  BY <1>2, <1>3, KeepClients
<1>7. posted < 4 => task = "InitIPCClient"
  BY <1>0, <1>4 DEF VizMainComesFirst
<1>8. ChannelComesFirst'
  <2>1. request' # "none" => posted = Len(Posts)
    <3>1. CASE task = "OnAssociatedInterfaceRequest"
      BY <1>0, <1>4, <3>1 DEF VizMainComesFirst, StartUpTypeOK
    <3>2. CASE task # "OnAssociatedInterfaceRequest"
      BY <1>0, <1>2, <3>2 DEF ChannelComesFirst
    <3> QED BY <3>1, <3>2
  <2> QED BY <1>0, <1>2, <1>3, <2>1 DEF ChannelComesFirst, Running
<1>9. VizMainComesFirst'
  <2>1. posted < 4 => \A i \in 1..Len(Tail(r)) : Tail(r)[i] = "InitIPCClient"
    BY <1>0, <1>4 DEF VizMainComesFirst
  <2>2. posted < Len(Posts) =>
          \A i \in 1..Len(Tail(r)) : Tail(r)[i] # "OnAssociatedInterfaceRequest"
    BY <1>0, <1>4 DEF VizMainComesFirst
  <2>3. posted >= 4 /\ ~viz_main_' => VizMainFirst(Tail(r))
    <3> SUFFICES ASSUME posted >= 4, ~viz_main_, task # "InitVizMain"
                 PROVE  VizMainFirst(Tail(r))
      BY <1>2
    <3>1. VizMainFirst(r) /\ Head(r) = task
      BY <1>0, <1>2 DEF VizMainComesFirst, Running
    <3> QED BY <1>1, <3>1, VizMainFirstTail
  <2> QED BY <1>2, <1>3, <2>1, <2>2, <2>3 DEF VizMainComesFirst
<1> QED BY <1>5, <1>6, <1>8, <1>9 DEF StartUpInv

\* A message that arrives is a task of the thread it is for.
LEMMA OnAssociatedInterfaceRequestInv ==
  ASSUME StartUpInv, OnAssociatedInterfaceRequest
  PROVE  StartUpInv'
<1> USE ThreadsAre DEF hostVars, gpuVars
<1>0. StartUpTypeOK /\ ChannelComesFirst /\ VizMainComesFirst
  BY DEF StartUpInv
<1> DEFINE r == tasks["gpu_main"]
           a == Append(r, "OnAssociatedInterfaceRequest")
<1>1. /\ request = "sent" /\ request' = "delivered"
      /\ UNCHANGED <<posted, hostVars, gpuVars, bound, provided>>
      /\ tasks' = [u \in Threads |-> tasks'[u]]
      /\ tasks'["gpu_main"] = a /\ \A u \in Threads \ {"gpu_main"} : tasks'[u] = tasks[u]
  BY <1>0, PostQueues DEF OnAssociatedInterfaceRequest
<1>2. posted = 5 /\ Len(Posts) = 5
  BY <1>0, <1>1, PostsAre DEF ChannelComesFirst
<1>3. r \in Seq(GpuMainTasks) /\ "OnAssociatedInterfaceRequest" \in GpuMainTasks
  BY <1>0, QueuesOf DEF GpuMainTasks
<1>4. a \in Seq(GpuMainTasks) /\ (VizMainFirst(r) => VizMainFirst(a))
  BY <1>3, AppendFacts, VizMainFirstAppend
<1>5. StartUpTypeOK'
  <2>1. \A t \in Threads : tasks'[t] = tasks[t] \/ tasks'[t] \in Seq(TasksOf(t))
    BY <1>1, <1>4
  <2>2. RangesOK'
    BY <1>0, <1>1, RangesKept DEF RangesOK
  <2> QED BY <1>0, <1>1, <2>1, <2>2, StartUpTyped
<1>6. BindComesFirst'
  BY <1>1, KeepClients
<1>7. ChannelComesFirst'
  BY <1>0, <1>1, <1>2 DEF ChannelComesFirst, Running
<1>8. VizMainComesFirst'
  BY <1>0, <1>1, <1>2, <1>4 DEF VizMainComesFirst
<1> QED BY <1>5, <1>6, <1>7, <1>8 DEF StartUpInv

\* The answer becomes a task of host_io_thread_.
LEMMA EstablishGpuChannelReplyInv ==
  ASSUME StartUpInv, EstablishGpuChannelReply
  PROVE  StartUpInv'
<1> USE ThreadsAre DEF hostVars, gpuVars
<1>0. StartUpTypeOK /\ ChannelComesFirst
  BY DEF StartUpInv
<1> DEFINE q == tasks["host_io"]
           a == Append(q, "OnEstablishedOnIO")
<1>1. /\ request = "bound" /\ establish = "asked" /\ establish' = "answered"
      /\ UNCHANGED <<posted, server_channel_, gpu_host_, gpu_channel_host_, gpuVars, request,
                     bound, provided>>
      /\ tasks' = [u \in Threads |-> tasks'[u]]
      /\ tasks'["host_io"] = a /\ \A u \in Threads \ {"host_io"} : tasks'[u] = tasks[u]
  BY <1>0, PostQueues DEF EstablishGpuChannelReply
<1>2. q \in Seq(HostTasks) /\ "OnEstablishedOnIO" \in HostTasks
  BY <1>0, QueuesOf DEF HostTasks
<1>3. a \in Seq(HostTasks)
  BY <1>2, AppendFacts
<1>4. StartUpTypeOK'
  <2>1. \A t \in Threads : tasks'[t] = tasks[t] \/ tasks'[t] \in Seq(TasksOf(t))
    BY <1>1, <1>3
  <2>2. RangesOK'
    BY <1>0, <1>1, RangesKept DEF RangesOK
  <2> QED BY <1>0, <1>1, <2>1, <2>2, StartUpTyped
<1>5. BindComesFirst' /\ VizMainComesFirst'
  BY <1>1, KeepClients, KeepGpu
<1>6. ChannelComesFirst'
  BY <1>0, <1>1, PostsAre DEF ChannelComesFirst
<1> QED BY <1>4, <1>5, <1>6 DEF StartUpInv

\* A client binds, then takes its provider.
LEMMA ClientInv ==
  ASSUME StartUpInv, NEW c \in Clients, Client(c)
  PROVE  StartUpInv'
<1> USE ThreadsAre DEF hostVars, gpuVars
<1>0. StartUpTypeOK /\ BindComesFirst
  BY DEF StartUpInv
<1>1. PICK task \in ClientTasks :
        /\ Running(c, task) /\ tasks' = Done(c)
        /\ UNCHANGED <<posted, hostVars, gpuVars, request>>
        /\ bound' = IF task = "Bind" THEN bound \cup {c} ELSE bound
        /\ provided' \subseteq Clients
  <2>1. CASE BindClient(c)
    BY <1>0, <2>1 DEF BindClient, ClientTasks, StartUpTypeOK
  <2>2. CASE SetContextProvider(c)
    BY <1>0, <2>2 DEF SetContextProvider, ClientTasks, StartUpTypeOK
  <2> QED BY <2>1, <2>2 DEF Client
<1>2. /\ tasks' = [u \in Threads |-> tasks'[u]]
      /\ tasks'[c] = Tail(tasks[c])
      /\ \A u \in Threads \ {c} : tasks'[u] = tasks[u]
  BY <1>0, <1>1, DoneQueues
<1>3. Tail(tasks[c]) \in Seq(ClientTasks)
  BY <1>0, <1>1, DoneInv
<1>4. StartUpTypeOK'
  <2>1. \A t \in Threads : tasks'[t] = tasks[t] \/ tasks'[t] \in Seq(TasksOf(t))
    BY <1>2, <1>3
  <2>2. RangesOK'
    BY <1>0, <1>1, RangesKept DEF RangesOK
  <2> QED BY <1>0, <1>2, <2>1, <2>2, StartUpTyped
<1>5. BindComesFirst'
  <2>1. BindPosted(c) /\ c \in bound'
    BY <1>0, <1>1 DEF BindComesFirst, Running
  <2>2. ASSUME NEW d \in Clients
        PROVE  /\ ~BindPosted(d)' => tasks'[d] = <<>>
               /\ BindPosted(d)' /\ d \notin bound' => Running(d, "Bind")'
    <3>1. BindPosted(d)' <=> BindPosted(d)
      BY <1>1 DEF BindPosted
    <3>2. CASE d = c
      BY <2>1, <3>1, <3>2
    <3>3. CASE d # c
      BY <1>0, <1>1, <1>2, <3>1, <3>3 DEF BindComesFirst, Running
    <3> QED BY <3>2, <3>3
  <2> QED BY <2>2 DEF BindComesFirst
<1>6. ChannelComesFirst' /\ VizMainComesFirst'
  BY <1>1, <1>2, KeepHost, KeepGpu
<1> QED BY <1>4, <1>5, <1>6 DEF StartUpInv

\* The order in which the threads are posted to is enough for every thread to find
\* what it uses, whatever the threads do.
THEOREM StartUpInvariance == StartUpSpec => []StartUpInv
<1>1. StartUpInit => StartUpInv
  BY StartUpInitInv
<1>2. StartUpInv /\ [StartUpNext]_startUpVars => StartUpInv'
  <2> SUFFICES ASSUME StartUpInv, [StartUpNext]_startUpVars PROVE StartUpInv'
    OBVIOUS
  <2>1. CASE StartUpNext
    BY <2>1, ConstructInv, OnEstablishedOnMainInv, HostIoInv, GpuInv,
       OnAssociatedInterfaceRequestInv, EstablishGpuChannelReplyInv, ClientInv DEF StartUpNext
  <2>2. CASE UNCHANGED startUpVars
    <3>1. StartUpTypeOK' /\ BindComesFirst'
      BY <2>2 DEF StartUpInv, StartUpTypeOK, BindComesFirst, BindPosted, Running, startUpVars,
                  hostVars, gpuVars
    <3>2. ChannelComesFirst' /\ VizMainComesFirst'
      BY <2>2, KeepHost, KeepGpu DEF startUpVars, hostVars, gpuVars
    <3> QED BY <3>1, <3>2 DEF StartUpInv
  <2> QED BY <2>1, <2>2
<1> QED BY <1>1, <1>2, PTL DEF StartUpSpec

\* Nothing of the start-up is used before it is made: the server's channel when
\* InitVizHost uses it, viz_main_ when a request for it arrives, a client's bindings
\* when its context provider arrives, though nobody waits for any of them.
THEOREM NothingIsUsedTooEarly == StartUpSpec => []UsedAfterMade
<1>1. StartUpInv => UsedAfterMade
  <2> SUFFICES ASSUME StartUpInv PROVE UsedAfterMade
    OBVIOUS
  <2>1. StartUpTypeOK /\ BindComesFirst /\ ChannelComesFirst /\ VizMainComesFirst
    BY DEF StartUpInv
  <2>2. Running("host_io", "InitVizHost") => server_channel_
    BY <2>1 DEF ChannelComesFirst, Running, StartUpTypeOK
  <2>3. Running("gpu_main", "OnAssociatedInterfaceRequest") => viz_main_
    <3> SUFFICES ASSUME Running("gpu_main", "OnAssociatedInterfaceRequest"), ~viz_main_
                 PROVE  FALSE
      BY <2>1 DEF StartUpTypeOK
    <3>1. /\ tasks["gpu_main"] \in Seq(GpuMainTasks)
          /\ Head(tasks["gpu_main"]) = "OnAssociatedInterfaceRequest"
          /\ tasks["gpu_main"][1] = "OnAssociatedInterfaceRequest"
          /\ 1 \in 1..Len(tasks["gpu_main"])
      BY <2>1, QueuesOf, ThreadsAre, TailFacts DEF Running
    <3>2. VizMainFirst(tasks["gpu_main"])
      BY <2>1, <3>1 DEF VizMainComesFirst, StartUpTypeOK
    <3> QED BY <3>1, <3>2, VizMainFirstTail
  <2>4. \A c \in Clients : Running(c, "SetContextProvider") => c \in bound
    BY <2>1 DEF BindComesFirst, Running
  <2> QED BY <2>1, <2>2, <2>3, <2>4 DEF UsedAfterMade
<1> QED BY <1>1, StartUpInvariance, PTL

-----------------------------------------------------------------------------
(***************************************************************************)
(* MojoCalls: the calls of associated interfaces keep their order.         *)
(***************************************************************************)
Earlier    == {"Test32GetApi", "AssociatedPrintApi"}
Associated == Earlier \cup {"Test32SetApi2"}

\* The associated calls go to one pipe of the child, which nobody closes.
OnePipe(steps) ==
  \A i \in 1..Len(steps) :
    /\ steps[i].what \in Associated =>
         steps[i].do = "call" /\ steps[i].to = "child" /\ steps[i].pipe = "test32"
    /\ ~(steps[i].do = "close" /\ steps[i].pipe = "test32")

\* Before the step SetApi2 the others are made.
SetApi2Last(steps) ==
  \A i \in 1..Len(steps) : steps[i].what = "Test32SetApi2" =>
    \A m \in Earlier : \E j \in 1..i - 1 : steps[j].what = m

InOrder(steps) == steps \in Seq(StepRecords) /\ OnePipe(steps) /\ SetApi2Last(steps)

\* The calls that have arrived at Test32.
Calls == inbox["child"]["test32"]

\* The call has been made: it has arrived, or has run.
Made(m) == m \in ran \/ \E k \in 1..Len(Calls) : Calls[k] = m

\* SetApi2 is behind the other two: in the steps a process still has to make, among
\* the calls that have arrived, and among those that have run.
AssociatedInOrder ==
  /\ "test32" \in open["child"]
  /\ \A p \in Processes :
       /\ OnePipe(todo[p])
       /\ \A i \in 1..Len(todo[p]) : todo[p][i].what = "Test32SetApi2" =>
            \A m \in Earlier : Made(m) \/ \E j \in 1..i - 1 : todo[p][j].what = m
  /\ \A p \in Processes, pipe \in Pipes : <<p, pipe>> # <<"child", "test32">> =>
       \A k \in 1..Len(inbox[p][pipe]) : inbox[p][pipe][k] \notin Associated
  /\ \A k \in 1..Len(Calls) : Calls[k] = "Test32SetApi2" =>
       \A m \in Earlier : m \in ran \/ \E j \in 1..k - 1 : Calls[j] = m
  /\ "Test32SetApi2" \in ran => Earlier \subseteq ran

\* The inductive invariant of the calls.
CallsInv == CallsTypeOK /\ AssociatedInOrder

\* The three kinds of steps, each a record with the fields it was given.
LEMMA CallIsStep ==
  ASSUME NEW to \in Processes, NEW p \in Pipes, NEW m \in Methods
  PROVE  /\ Call(to, p, m) \in StepRecords
         /\ Call(to, p, m).do = "call" /\ Call(to, p, m).to = to
         /\ Call(to, p, m).pipe = p /\ Call(to, p, m).what = m
BY DEF Call, StepRecords

LEMMA BindIsStep ==
  ASSUME NEW impl \in Implementations
  PROVE  /\ Bind(impl) \in StepRecords
         /\ Bind(impl).do = "bind" /\ Bind(impl).what = impl
BY DEF Bind, StepRecords

LEMMA CloseIsStep ==
  ASSUME NEW p \in Pipes
  PROVE  /\ Close(p) \in StepRecords
         /\ Close(p).do = "close" /\ Close(p).pipe = p /\ Close(p).what = "none"
BY DEF Close, StepRecords

\* No implementation, and no empty name, is an associated call.
LEMMA NamesDiffer ==
  /\ Associated \subseteq Methods /\ "none" \notin Associated
  /\ \A impl \in Implementations : impl \notin Associated
BY DEF Associated, Earlier, Methods, BindingImpl, Implementations

\* A step, or a list of steps, that has nothing to do with the associated calls.
QuietStep(step) ==
  /\ step \in StepRecords
  /\ step.what \notin Associated
  /\ ~(step.do = "close" /\ step.pipe = "test32")

Quiet(steps) ==
  /\ steps \in Seq(StepRecords)
  /\ \A i \in 1..Len(steps) : QuietStep(steps[i])

LEMMA QuietCall ==
  ASSUME NEW to \in Processes, NEW p \in Pipes, NEW m \in Methods \ Associated
  PROVE  QuietStep(Call(to, p, m))
BY CallIsStep DEF QuietStep

LEMMA QuietBind ==
  ASSUME NEW impl \in Implementations
  PROVE  QuietStep(Bind(impl))
BY BindIsStep, NamesDiffer DEF QuietStep

LEMMA QuietClose ==
  ASSUME NEW p \in Pipes \ {"test32"}
  PROVE  QuietStep(Close(p))
BY CloseIsStep, NamesDiffer DEF QuietStep

\* Two lists of steps in a row keep the order if each of them does.
LEMMA InOrderConcat ==
  ASSUME NEW a, NEW b, InOrder(a), InOrder(b)
  PROVE  InOrder(a \o b)
<1> DEFINE c == a \o b
<1>0. a \in Seq(StepRecords) /\ b \in Seq(StepRecords)
  BY DEF InOrder
<1>1. /\ c \in Seq(StepRecords) /\ Len(c) = Len(a) + Len(b) /\ Len(a) \in Nat /\ Len(b) \in Nat
      /\ \A i \in 1..Len(a) : c[i] = a[i]
      /\ \A i \in 1..Len(b) : c[Len(a) + i] = b[i]
  BY <1>0
<1> HIDE DEF c
<1>2. \A i \in 1..Len(c) : i \in 1..Len(a) \/ \E k \in 1..Len(b) : i = Len(a) + k
  <2> SUFFICES ASSUME NEW i \in 1..Len(c), i \notin 1..Len(a)
               PROVE  \E k \in 1..Len(b) : i = Len(a) + k
    OBVIOUS
  <2>1. i - Len(a) \in 1..Len(b) /\ i = Len(a) + (i - Len(a))
    BY <1>1
  <2> QED BY <2>1
<1>3. OnePipe(c)
  <2>1. ASSUME NEW i \in 1..Len(c)
        PROVE  \/ \E j \in 1..Len(a) : c[i] = a[j]
               \/ \E j \in 1..Len(b) : c[i] = b[j]
    BY <1>1, <1>2
  <2>2. OnePipe(a) /\ OnePipe(b)
    BY DEF InOrder
  <2> QED BY <2>1, <2>2 DEF OnePipe
<1>4. SetApi2Last(c)
  <2> SUFFICES ASSUME NEW i \in 1..Len(c), c[i].what = "Test32SetApi2", NEW m \in Earlier
               PROVE  \E j \in 1..i - 1 : c[j].what = m
    BY DEF SetApi2Last
  <2>1. CASE i \in 1..Len(a)
    <3>1. PICK j \in 1..i - 1 : a[j].what = m
      BY <1>1, <2>1 DEF InOrder, SetApi2Last
    <3>2. j \in 1..Len(a)
      BY <1>1, <2>1
    <3> QED BY <1>1, <3>1, <3>2
  <2>2. ASSUME NEW k \in 1..Len(b), i = Len(a) + k
        PROVE  \E j \in 1..i - 1 : c[j].what = m
    <3>1. PICK j \in 1..k - 1 : b[j].what = m
      BY <1>1, <2>2 DEF InOrder, SetApi2Last
    <3>2. j \in 1..Len(b) /\ Len(a) + j \in 1..i - 1
      BY <1>1, <2>2
    <3> QED BY <1>1, <3>1, <3>2
  <2> QED BY <1>2, <2>1, <2>2
<1> QED BY <1>1, <1>3, <1>4 DEF InOrder, c

\* Quiet steps have no order to keep.
LEMMA QuietInOrder ==
  ASSUME NEW a, Quiet(a)
  PROVE  InOrder(a)
BY DEF Quiet, QuietStep, InOrder, OnePipe, SetApi2Last, Associated

\* Lists of one, two, three, six and seven quiet steps.
LEMMA Quiet1 ==
  ASSUME NEW a,
         QuietStep(a)
  PROVE  Quiet(<<a>>)
<1>1. <<a>> \in Seq(StepRecords)
  BY DEF QuietStep
<1>2. \A i \in 1..1 : QuietStep(<<a>>[i])
  OBVIOUS
<1> QED BY <1>1, <1>2 DEF Quiet

LEMMA Quiet2 ==
  ASSUME NEW a, NEW b,
         QuietStep(a), QuietStep(b)
  PROVE  Quiet(<<a, b>>)
<1>1. <<a, b>> \in Seq(StepRecords)
  BY DEF QuietStep
<1>2. \A i \in 1..2 : QuietStep(<<a, b>>[i])
  OBVIOUS
<1> QED BY <1>1, <1>2 DEF Quiet

LEMMA Quiet3 ==
  ASSUME NEW a, NEW b, NEW c,
         QuietStep(a), QuietStep(b), QuietStep(c)
  PROVE  Quiet(<<a, b, c>>)
<1>1. <<a, b, c>> \in Seq(StepRecords)
  BY DEF QuietStep
<1>2. \A i \in 1..3 : QuietStep(<<a, b, c>>[i])
  OBVIOUS
<1> QED BY <1>1, <1>2 DEF Quiet

LEMMA Quiet6 ==
  ASSUME NEW a, NEW b, NEW c, NEW d, NEW e, NEW f,
         QuietStep(a), QuietStep(b), QuietStep(c), QuietStep(d), QuietStep(e), QuietStep(f)
  PROVE  Quiet(<<a, b, c, d, e, f>>)
<1>1. <<a, b, c, d, e, f>> \in Seq(StepRecords)
  BY DEF QuietStep
<1>2. \A i \in 1..6 : QuietStep(<<a, b, c, d, e, f>>[i])
  OBVIOUS
<1> QED BY <1>1, <1>2 DEF Quiet

LEMMA Quiet7 ==
  ASSUME NEW a, NEW b, NEW c, NEW d, NEW e, NEW f, NEW g,
         QuietStep(a), QuietStep(b), QuietStep(c), QuietStep(d), QuietStep(e), QuietStep(f), QuietStep(g)
  PROVE  Quiet(<<a, b, c, d, e, f, g>>)
<1>1. <<a, b, c, d, e, f, g>> \in Seq(StepRecords)
  BY DEF QuietStep
<1>2. \A i \in 1..7 : QuietStep(<<a, b, c, d, e, f, g>>[i])
  OBVIOUS
<1> QED BY <1>1, <1>2 DEF Quiet

\* The block that makes the associated calls makes SetApi2 last.
LEMMA Test32BlockInOrder == InOrder(Test32Block)
<1> DEFINE q == Test32Block
<1>1. /\ q[1] = Call("child", "test32", "Test32GetApi")
      /\ q[2] = Call("child", "test32", "AssociatedPrintApi")
      /\ q[3] = Bind("AssociatedApi2Impl")
      /\ q[4] = Call("child", "test32", "Test32SetApi2")
      /\ Len(q) = 4
  BY DEF Test32Block
<1>2. q = <<q[1], q[2], q[3], q[4]>>
  BY DEF Test32Block
<1> HIDE DEF q
<1>3. /\ "child" \in Processes /\ "test32" \in Pipes
      /\ "Test32GetApi" \in Methods /\ "AssociatedPrintApi" \in Methods
      /\ "Test32SetApi2" \in Methods /\ "AssociatedApi2Impl" \in Implementations
  BY NamesDiffer DEF Processes, Pipes, Associated, Earlier, Implementations
<1>4. /\ q[1] \in StepRecords /\ q[2] \in StepRecords /\ q[3] \in StepRecords
      /\ q[4] \in StepRecords
  BY <1>1, <1>3, CallIsStep, BindIsStep
<1> DEFINE a == q[1]
           b == q[2]
           c == q[3]
           d == q[4]
<1>5. q \in Seq(StepRecords)
  <2> HIDE DEF a, b, c, d
  <2>1. a \in StepRecords /\ b \in StepRecords /\ c \in StepRecords /\ d \in StepRecords
    BY <1>4 DEF a, b, c, d
  <2>2. q = <<a, b, c, d>>
    BY <1>2 DEF a, b, c, d
  <2>3. <<a, b, c, d>> \in Seq(StepRecords)
    BY <2>1
  <2> QED BY <2>2, <2>3
<1>6. /\ q[1].what = "Test32GetApi" /\ q[2].what = "AssociatedPrintApi"
      /\ q[3].what = "AssociatedApi2Impl" /\ q[4].what = "Test32SetApi2"
      /\ \A i \in {1, 2, 4} : q[i].do = "call" /\ q[i].to = "child" /\ q[i].pipe = "test32"
      /\ q[3].do = "bind"
  BY <1>1, <1>3, CallIsStep, BindIsStep
<1>7. OnePipe(q)
  BY <1>1, <1>6 DEF OnePipe, Associated, Earlier
<1>8. SetApi2Last(q)
  BY <1>1, <1>6 DEF SetApi2Last, Earlier
<1> QED BY <1>5, <1>7, <1>8 DEF InOrder, q

\* The processes and the pipes.
LEMMA PipesAre ==
  /\ "parent" \in Processes /\ "child" \in Processes
  /\ Pipes = {"test", "test2", "test3", "test32", "broker", "api", "api2", "interface1",
              "interface2", "service", "consumer", "test_connector", "consumer_connector",
              "root", "ipc"}
BY DEF Processes, Pipes

\* The methods that are not associated.
LEMMA MethodsAre ==
  \A m : /\ m \in {"TestHello", "TestHi", "HiCallback", "SendMessagePipeHandle", "Test3GetApi",
                  "Test3SetApi2", "PrintApi", "PrintApi2", "AssociatedPrintApi2",
                  "GetInterface1", "GetInterface2", "Interface1Hello", "Interface2Hi",
                  "TestServiceOnStart", "TestServiceOnBindInterface", "BindRootInterface",
                  "BindTestInterface", "ConsumerServiceOnStart",
                  "ConsumerServiceOnBindInterface", "RootHi", "ServiceHello", "Hello",
                  "RoutedHello", "Hi"}
         => m \in Methods \ Associated
BY DEF Methods, BindingImpl, ServicesImpl, IpcImpl, Associated, Earlier

\* The blocks of the producers and of their consumers make no associated call.
LEMMA TestBlocksQuiet == Quiet(TestBlock) /\ Quiet(Test2Block) /\ Quiet(Test3Block)
<1> USE PipesAre, MethodsAre
<1>1. "HiCallback" \in Implementations /\ "Api2Impl" \in Implementations
  BY DEF Implementations
<1>2. Quiet(TestBlock)
  <2>1. /\ QuietStep(Call("child", "test", "TestHello")) /\ QuietStep(Bind("HiCallback"))
        /\ QuietStep(Call("child", "test", "TestHi"))
    BY <1>1, QuietCall, QuietBind
  <2> QED BY <2>1, Quiet3 DEF TestBlock
<1>3. Quiet(Test2Block)
  <2>1. /\ QuietStep(Call("child", "test2", "SendMessagePipeHandle"))
        /\ QuietStep(Close("test2"))
    BY QuietCall, QuietClose
  <2> QED BY <2>1, Quiet2 DEF Test2Block
<1>4. Quiet(Test3Block)
  <2>1. /\ QuietStep(Call("child", "test3", "Test3GetApi"))
        /\ QuietStep(Call("child", "api", "PrintApi"))
        /\ QuietStep(Bind("Api2Impl")) /\ QuietStep(Call("child", "test3", "Test3SetApi2"))
        /\ QuietStep(Close("api")) /\ QuietStep(Close("test3"))
    BY <1>1, QuietCall, QuietBind, QuietClose
  <2> QED BY <2>1, Quiet6 DEF Test3Block
<1> QED BY <1>2, <1>3, <1>4

\* The implementations that are bound.
LEMMA ImplementationsAre ==
  /\ {"TestImpl", "Test2Impl", "Test3Impl", "ApiImpl", "Api2Impl", "Test32Impl"}
       \subseteq Implementations
  /\ {"AssociatedApiImpl", "AssociatedApi2Impl", "HiCallback", "InterfaceBrokerImpl",
      "Interface1Impl", "Interface2Impl", "Interface1", "Interface2"}
       \subseteq Implementations
  /\ {"ServiceManager", "TestService", "ConsumerService", "RootInterfaceImpl",
      "TestInterfaceImpl", "ProducerListener", "ConsumerChannel", "ConsumerListener"}
       \subseteq Implementations
BY DEF Implementations

LEMMA BrokerQuiet == Quiet(BrokerBlock) /\ Quiet(BindingConsumer)
<1> USE PipesAre, MethodsAre, ImplementationsAre
<1>1. /\ QuietStep(Call("child", "broker", "GetInterface1"))
      /\ QuietStep(Call("child", "interface1", "Interface1Hello"))
      /\ QuietStep(Call("child", "broker", "GetInterface2"))
      /\ QuietStep(Call("child", "interface2", "Interface2Hi"))
      /\ QuietStep(Close("interface2")) /\ QuietStep(Close("interface1"))
      /\ QuietStep(Close("broker"))
  BY QuietCall, QuietClose
<1>2. /\ QuietStep(Bind("TestImpl")) /\ QuietStep(Bind("Test2Impl"))
      /\ QuietStep(Bind("Test3Impl")) /\ QuietStep(Bind("Test32Impl"))
      /\ QuietStep(Bind("InterfaceBrokerImpl")) /\ QuietStep(Bind("Interface1"))
      /\ QuietStep(Bind("Interface2"))
  BY QuietBind
<1>3. Quiet(BrokerBlock)
  BY <1>1, Quiet7 DEF BrokerBlock
<1>4. Quiet(BindingConsumer)
  BY <1>2, Quiet7 DEF BindingConsumer
<1> QED BY <1>3, <1>4

LEMMA ServicesQuiet ==
  /\ Quiet(RunEmbedderProcess) /\ Quiet(CreateEmbeddedService)
  /\ Quiet(TestServiceOnStart) /\ Quiet(BindRootInterface)
  /\ Quiet(ConsumerServiceOnStart) /\ Quiet(ConsumerServiceOnBindInterface)
  /\ Quiet(BindTestInterface) /\ Quiet(TestServiceOnBindInterface)
<1> USE PipesAre, MethodsAre, ImplementationsAre
<1>1. Quiet(RunEmbedderProcess)
  <2>1. /\ QuietStep(Bind("ServiceManager"))
        /\ QuietStep(Call("child", "service", "TestServiceOnStart"))
    BY QuietCall, QuietBind
  <2> QED BY <2>1, Quiet2 DEF RunEmbedderProcess
<1>2. Quiet(TestServiceOnStart)
  <2>1. /\ QuietStep(Call("parent", "test_connector", "BindRootInterface"))
        /\ QuietStep(Call("parent", "root", "RootHi")) /\ QuietStep(Close("root"))
    BY QuietCall, QuietClose
  <2> QED BY <2>1, Quiet3 DEF TestServiceOnStart
<1>3. Quiet(BindRootInterface)
  <2>1. /\ QuietStep(Bind("ConsumerService"))
        /\ QuietStep(Call("parent", "consumer", "ConsumerServiceOnStart"))
        /\ QuietStep(Call("parent", "consumer", "ConsumerServiceOnBindInterface"))
    BY QuietCall, QuietBind
  <2> QED BY <2>1, Quiet3 DEF BindRootInterface
<1>4. Quiet(ConsumerServiceOnStart)
  <2>1. /\ QuietStep(Call("parent", "consumer_connector", "BindTestInterface"))
        /\ QuietStep(Call("child", "test", "ServiceHello")) /\ QuietStep(Close("test"))
    BY QuietCall, QuietClose
  <2> QED BY <2>1, Quiet3 DEF ConsumerServiceOnStart
<1>5. Quiet(CreateEmbeddedService) /\ Quiet(ConsumerServiceOnBindInterface)
      /\ Quiet(TestServiceOnBindInterface)
  <2>1. /\ QuietStep(Bind("TestService")) /\ QuietStep(Bind("RootInterfaceImpl"))
        /\ QuietStep(Bind("TestInterfaceImpl"))
    BY QuietBind
  <2> QED BY <2>1, Quiet1 DEF CreateEmbeddedService, ConsumerServiceOnBindInterface,
                              TestServiceOnBindInterface
<1>6. Quiet(BindTestInterface)
  <2>1. QuietStep(Call("child", "service", "TestServiceOnBindInterface"))
    BY QuietCall
  <2> QED BY <2>1, Quiet1 DEF BindTestInterface
<1> QED BY <1>1, <1>2, <1>3, <1>4, <1>5, <1>6

LEMMA IpcQuiet == Quiet(IpcProducer) /\ Quiet(ConsumerChannelInit) /\ Quiet(<<Call("parent", "ipc", "Hi")>>)
<1> USE PipesAre, MethodsAre, ImplementationsAre
<1>1. Quiet(IpcProducer)
  <2>1. /\ QuietStep(Bind("ProducerListener")) /\ QuietStep(Call("child", "ipc", "Hello"))
        /\ QuietStep(Call("child", "ipc", "RoutedHello"))
    BY QuietCall, QuietBind
  <2> QED BY <2>1, Quiet3 DEF IpcProducer
<1>2. Quiet(ConsumerChannelInit)
  <2>1. QuietStep(Bind("ConsumerChannel")) /\ QuietStep(Bind("ConsumerListener"))
    BY QuietBind
  <2> QED BY <2>1, Quiet2 DEF ConsumerChannelInit
<1>3. Quiet(<<Call("parent", "ipc", "Hi")>>)
  <2>1. QuietStep(Call("parent", "ipc", "Hi"))
    BY QuietCall
  <2> QED BY <2>1, Quiet1
<1> QED BY <1>1, <1>2, <1>3

\* What a method does when it is dispatched.
LEMMA MethodsQuiet ==
  /\ Quiet(TestImplHi) /\ Quiet(Test3ImplGetApi) /\ Quiet(Test3ImplSetApi2)
  /\ Quiet(Test32ImplGetApi) /\ Quiet(Test32ImplSetApi2)
  /\ Quiet(GetInterface("Interface1Impl")) /\ Quiet(GetInterface("Interface2Impl"))
<1> USE PipesAre, MethodsAre, ImplementationsAre
<1>1. /\ QuietStep(Call("parent", "test", "HiCallback"))
      /\ QuietStep(Call("parent", "api2", "PrintApi2"))
      /\ QuietStep(Call("parent", "test32", "AssociatedPrintApi2"))
  BY QuietCall
<1>2. /\ QuietStep(Bind("ApiImpl")) /\ QuietStep(Bind("AssociatedApiImpl"))
      /\ QuietStep(Bind("Interface1Impl")) /\ QuietStep(Bind("Interface2Impl"))
  BY QuietBind
<1>3. Quiet(TestImplHi) /\ Quiet(Test3ImplSetApi2) /\ Quiet(Test32ImplSetApi2)
  BY <1>1, Quiet1 DEF TestImplHi, Test3ImplSetApi2, Test32ImplSetApi2
<1>4. Quiet(Test3ImplGetApi) /\ Quiet(Test32ImplGetApi)
  BY <1>2, Quiet1 DEF Test3ImplGetApi, Test32ImplGetApi
<1>5. Quiet(GetInterface("Interface1Impl")) /\ Quiet(GetInterface("Interface2Impl"))
  BY <1>2, Quiet1 DEF GetInterface
<1> QED BY <1>3, <1>4, <1>5

LEMMA NoStepsQuiet == Quiet(<<>>)
<1>1. <<>> \in Seq(StepRecords) /\ Len(<<>>) = 0
  OBVIOUS
<1> QED BY <1>1 DEF Quiet

LEMMA StepsQuiet == ASSUME NEW method  PROVE Quiet(Steps(method))
<1>1. CASE method \notin DOMAIN Handler
  BY <1>1, NoStepsQuiet DEF Steps
<1>2. CASE method \in DOMAIN Handler
  <2>1. Steps(method) = Handler[method]
    BY <1>2 DEF Steps
  <2>2. \/ Handler[method] \in {TestImplHi, Test3ImplGetApi, Test3ImplSetApi2}
        \/ Handler[method] \in {Test32ImplGetApi, Test32ImplSetApi2}
        \/ Handler[method] \in {GetInterface("Interface1Impl"), GetInterface("Interface2Impl")}
        \/ Handler[method] \in {TestServiceOnStart, BindRootInterface, ConsumerServiceOnStart}
        \/ Handler[method] \in {ConsumerServiceOnBindInterface, BindTestInterface}
        \/ Handler[method] = TestServiceOnBindInterface
    BY <1>2 DEF Handler
  <2> QED BY <2>1, <2>2, MethodsQuiet, ServicesQuiet
<1> QED BY <1>1, <1>2

\* What a process does, in each of the demos, keeps the order.
LEMMA ScriptsInOrder ==
  ASSUME NEW d \in CallDemos, NEW p \in Processes
  PROVE  InOrder(Script[d][p])
<1>1. InOrder(BindingProducer)
  BY TestBlocksQuiet, BrokerQuiet, Test32BlockInOrder, QuietInOrder, InOrderConcat
     DEF BindingProducer
<1>2. InOrder(IpcConsumer)
  BY IpcQuiet, QuietInOrder, InOrderConcat DEF IpcConsumer
<1>3. /\ InOrder(BindingConsumer) /\ InOrder(RunEmbedderProcess)
      /\ InOrder(CreateEmbeddedService) /\ InOrder(IpcProducer)
  BY BrokerQuiet, ServicesQuiet, IpcQuiet, QuietInOrder
<1>4. Script[d][p] \in {BindingProducer, BindingConsumer, RunEmbedderProcess,
                        CreateEmbeddedService, IpcProducer, IpcConsumer}
  BY DEF Script, CallDemos, Processes
<1> QED BY <1>1, <1>2, <1>3, <1>4

\* At first no call has been made.
LEMMA CallsStart == MojoInit => CallsInv
<1> SUFFICES ASSUME MojoInit  PROVE CallsInv
  OBVIOUS
<1> USE DEF MojoInit, CallsInit
<1>1. \A p \in Processes : InOrder(todo[p])
  <2> SUFFICES ASSUME NEW p \in Processes  PROVE InOrder(todo[p])
    OBVIOUS
  <2>1. CASE demo \in CallDemos
    BY <2>1, ScriptsInOrder
  <2>2. CASE demo \notin CallDemos
    BY <2>2, NoStepsQuiet, QuietInOrder
  <2> QED BY <2>1, <2>2
<1>2. todo \in [Processes -> Seq(StepRecords)]
  BY <1>1 DEF InOrder
<1>3. CallsTypeOK
  BY <1>2 DEF CallsTypeOK
<1>4. AssociatedInOrder
  <2>1. \A p \in Processes, pipe \in Pipes : Len(inbox[p][pipe]) = 0
    OBVIOUS
  <2>2. "child" \in Processes /\ "test32" \in Pipes /\ "Test32SetApi2" \notin ran
    BY PipesAre
  <2> QED BY <1>1, <2>1, <2>2 DEF AssociatedInOrder, InOrder, SetApi2Last, Calls
<1> QED BY <1>3, <1>4 DEF CallsInv

\* What a step does to the calls: nothing, or one more.
LEMMA StepKeepsOrder ==
  ASSUME CallsInv, NEW p \in Processes, Step(p)
  PROVE  CallsInv'
<1> DEFINE s == todo[p]
           step == s[1]
<1>0. /\ s \in Seq(StepRecords) /\ s # <<>> /\ Head(s) = step /\ step \in StepRecords
      /\ Tail(s) \in Seq(StepRecords) /\ Len(s) \in Nat /\ Len(s) >= 1
      /\ Len(Tail(s)) = Len(s) - 1
      /\ \A i \in 1..Len(Tail(s)) : Tail(s)[i] = s[i + 1]
  BY TailFacts DEF CallsInv, CallsTypeOK, Step
<1>1. /\ todo' = [todo EXCEPT ![p] = Tail(s)] /\ UNCHANGED <<demo, ran>>
      /\ BindStep(p, step) \/ CloseStep(p, step) \/ CallStep(step)
  BY <1>0 DEF Step
<1>2. todo' \in [Processes -> Seq(StepRecords)] /\ todo'[p] = Tail(s)
      /\ \A q \in Processes : q # p => todo'[q] = todo[q]
  BY <1>0, <1>1 DEF CallsInv, CallsTypeOK
<1>3. /\ step.what \in Associated =>
           step.do = "call" /\ step.to = "child" /\ step.pipe = "test32"
      /\ ~(step.do = "close" /\ step.pipe = "test32")
      /\ step.what = "Test32SetApi2" => \A m \in Earlier : Made(m)
  <2>1. 1 \in 1..Len(s)
    BY <1>0
  <2> QED BY <2>1 DEF CallsInv, AssociatedInOrder, OnePipe
<1>4. \A q \in Processes : OnePipe(todo'[q])
  <2>1. OnePipe(Tail(s))
    <3>1. \A i \in 1..Len(Tail(s)) : i + 1 \in 1..Len(s)
      BY <1>0
    <3>2. OnePipe(s)
      BY DEF CallsInv, AssociatedInOrder
    <3> QED BY <1>0, <3>1, <3>2 DEF OnePipe
  <2> QED BY <1>2, <2>1 DEF CallsInv, AssociatedInOrder
<1>s. s = todo[p] /\ step = s[1]
  OBVIOUS
<1> HIDE DEF s, step
\* The calls made stay made, and the step makes its own.
<1>5. ASSUME /\ \A m \in Earlier : Made(m) => Made(m)'
             /\ \A m \in Earlier : m = step.what => Made(m)'
      PROVE  \A q \in Processes : \A i \in 1..Len(todo'[q]) :
               todo'[q][i].what = "Test32SetApi2" =>
                 \A m \in Earlier : Made(m)' \/ \E j \in 1..i - 1 : todo'[q][j].what = m
  <2> SUFFICES ASSUME NEW q \in Processes, NEW i \in 1..Len(todo'[q]),
                      todo'[q][i].what = "Test32SetApi2", NEW m \in Earlier, ~Made(m)'
               PROVE  \E j \in 1..i - 1 : todo'[q][j].what = m
    OBVIOUS
  <2>0. ~Made(m)
    BY <1>5
  <2>1. CASE q # p
    <3>1. todo'[q] = todo[q]
      BY <1>2, <2>1
    <3> QED BY <2>0, <3>1 DEF CallsInv, AssociatedInOrder
  <2>2. CASE q = p
    <3>0. todo'[q] = Tail(s)
      BY <1>2, <2>2
    <3>1. /\ i \in 1..Len(Tail(s)) /\ i + 1 \in 1..Len(s)
          /\ s[i + 1].what = "Test32SetApi2"
      BY <1>0, <3>0
    <3>2. PICK j \in 1..(i + 1) - 1 : s[j].what = m
      BY <1>s, <2>0, <3>1 DEF CallsInv, AssociatedInOrder
    <3>3. j # 1
      BY <1>s, <1>5, <3>2
    <3>4. /\ j - 1 \in 1..i - 1 /\ j - 1 \in 1..Len(Tail(s)) /\ (j - 1) + 1 = j
      BY <1>0, <3>1, <3>2, <3>3
    <3>5. Tail(s)[j - 1] = s[j]
      BY <1>0, <3>4
    <3> QED BY <3>0, <3>2, <3>4, <3>5
  <2> QED BY <2>1, <2>2
<1>6. CASE BindStep(p, step)
  <2>1. /\ UNCHANGED <<inbox, open, ran>>
        /\ serving' = [serving EXCEPT ![p] = @ \cup {step.what}]
        /\ step.what \in Implementations
    BY <1>0, <1>1, <1>6 DEF BindStep, StepRecords
  <2>2. step.what \notin Earlier
    BY <2>1, NamesDiffer DEF Associated
  <2>3. \A m : Made(m)' <=> Made(m)
    BY <2>1 DEF Made, Calls
  <2>4. CallsTypeOK'
    BY <1>1, <1>2, <2>1 DEF CallsInv, CallsTypeOK
  <2>5. \A q \in Processes : \A i \in 1..Len(todo'[q]) :
           todo'[q][i].what = "Test32SetApi2" =>
             \A m \in Earlier : Made(m)' \/ \E j \in 1..i - 1 : todo'[q][j].what = m
    BY <1>5, <2>2, <2>3
  <2>6. AssociatedInOrder'
    BY <1>4, <2>1, <2>5 DEF CallsInv, AssociatedInOrder, Calls
  <2> QED BY <2>4, <2>6 DEF CallsInv
<1>7. CASE CloseStep(p, step)
  <2>1. /\ step.what = "none" /\ step.pipe \in Pipes \ {"test32"}
        /\ open' = [open EXCEPT ![p] = @ \ {step.pipe}]
        /\ inbox' = [inbox EXCEPT ![p][step.pipe] = <<>>]
        /\ UNCHANGED <<serving, ran>>
    BY <1>0, <1>1, <1>3, <1>7 DEF CloseStep, StepRecords
  <2>2. step.what \notin Earlier
    BY <2>1, NamesDiffer DEF Associated
  <2>3. "child" \in Processes /\ "test32" \in Pipes
    BY PipesAre
  <2>4. inbox'["child"]["test32"] = inbox["child"]["test32"]
    BY <2>1, <2>3 DEF CallsInv, CallsTypeOK
  <2>5. \A m : Made(m)' <=> Made(m)
    BY <2>1, <2>4 DEF Made, Calls
  <2>6. inbox' \in [Processes -> [Pipes -> Seq(Methods)]]
    BY <2>1 DEF CallsInv, CallsTypeOK
  <2>7. CallsTypeOK'
    BY <1>1, <1>2, <2>1, <2>6 DEF CallsInv, CallsTypeOK
  <2>8. \A q \in Processes, pipe \in Pipes :
           inbox'[q][pipe] = inbox[q][pipe] \/ Len(inbox'[q][pipe]) = 0
    BY <2>1 DEF CallsInv, CallsTypeOK
  <2>9. "test32" \in open'["child"]
    BY <2>1, <2>3 DEF CallsInv, CallsTypeOK, AssociatedInOrder
  <2>10. AssociatedInOrder'
    <3>1. \A q \in Processes, pipe \in Pipes : <<q, pipe>> # <<"child", "test32">> =>
             \A k \in 1..Len(inbox'[q][pipe]) : inbox'[q][pipe][k] \notin Associated
      BY <2>8 DEF CallsInv, AssociatedInOrder
    <3> QED BY <1>4, <1>5, <2>1, <2>2, <2>4, <2>5, <2>9, <3>1
            DEF CallsInv, AssociatedInOrder, Calls
  <2> QED BY <2>7, <2>10 DEF CallsInv
<1>8. CASE CallStep(step)
  <2>1. /\ step.to \in Processes /\ step.pipe \in Pipes /\ step.what \in Methods
        /\ UNCHANGED <<serving, open, ran>>
    BY <1>0, <1>1, <1>8 DEF CallStep, StepRecords
  <2>2. CASE step.pipe \notin open[step.to]
    <3>1. inbox' = inbox
      BY <1>8, <2>2 DEF CallStep
    <3>2. step.what \notin Earlier
      BY <1>3, <2>2 DEF CallsInv, AssociatedInOrder, Associated
    <3>3. \A m : Made(m)' <=> Made(m)
      BY <2>1, <3>1 DEF Made, Calls
    <3>4. CallsTypeOK'
      BY <1>1, <1>2, <2>1, <3>1 DEF CallsInv, CallsTypeOK
    <3>5. AssociatedInOrder'
      BY <1>4, <1>5, <2>1, <3>1, <3>2, <3>3 DEF CallsInv, AssociatedInOrder, Calls
    <3> QED BY <3>4, <3>5 DEF CallsInv
  <2>3. CASE step.pipe \in open[step.to]
    <3> DEFINE old == inbox[step.to][step.pipe]
               new == Append(old, step.what)
    <3>1. inbox' = [inbox EXCEPT ![step.to][step.pipe] = new]
      BY <1>8, <2>3 DEF CallStep
    <3>2. old \in Seq(Methods)
      BY <2>1 DEF CallsInv, CallsTypeOK
    <3>o. old = inbox[step.to][step.pipe]
      OBVIOUS
    <3> HIDE DEF old
    <3>3. /\ new \in Seq(Methods) /\ Len(old) \in Nat /\ Len(new) = Len(old) + 1
          /\ \A k \in 1..Len(old) : new[k] = old[k]
          /\ new[Len(old) + 1] = step.what
      BY <2>1, <3>2, AppendFacts
    <3> HIDE DEF new
    <3>4. /\ inbox' \in [Processes -> [Pipes -> Seq(Methods)]]
          /\ inbox'[step.to][step.pipe] = new
          /\ \A q \in Processes, pipe \in Pipes :
               <<q, pipe>> # <<step.to, step.pipe>> => inbox'[q][pipe] = inbox[q][pipe]
      BY <2>1, <3>1, <3>3 DEF CallsInv, CallsTypeOK
    <3>5. CallsTypeOK'
      BY <1>1, <1>2, <2>1, <3>4 DEF CallsInv, CallsTypeOK
    <3>6. \A q \in Processes, pipe \in Pipes : <<q, pipe>> # <<"child", "test32">> =>
             \A k \in 1..Len(inbox'[q][pipe]) : inbox'[q][pipe][k] \notin Associated
      <4> SUFFICES ASSUME NEW q \in Processes, NEW pipe \in Pipes,
                          <<q, pipe>> # <<"child", "test32">>,
                          NEW k \in 1..Len(inbox'[q][pipe])
                   PROVE  inbox'[q][pipe][k] \notin Associated
        OBVIOUS
      <4>1. CASE <<q, pipe>> # <<step.to, step.pipe>>
        <5>1. inbox'[q][pipe] = inbox[q][pipe]
          BY <3>4, <4>1
        <5> QED BY <5>1 DEF CallsInv, AssociatedInOrder
      <4>2. CASE q = step.to /\ pipe = step.pipe
        <5>1. step.what \notin Associated
          BY <1>3, <4>2
        <5>2. k \in 1..Len(old) \/ k = Len(old) + 1
          BY <3>3, <3>4, <4>2
        <5>3. k \in 1..Len(old) => old[k] \notin Associated
          BY <3>o, <4>2 DEF CallsInv, AssociatedInOrder
        <5> QED BY <3>3, <3>4, <4>2, <5>1, <5>2, <5>3
      <4> QED BY <4>1, <4>2
    <3>7. "child" \in Processes /\ "test32" \in Pipes
      BY PipesAre
    <3>8. CASE step.to = "child" /\ step.pipe = "test32"
      <4>1. Calls = old /\ Calls' = new
        BY <3>o, <3>4, <3>8 DEF Calls
      <4>2. \A m : Made(m) => Made(m)'
        <5>1. \A k \in 1..Len(old) : k \in 1..Len(new) /\ new[k] = old[k]
          BY <3>3
        <5>2. \A m : (\E k \in 1..Len(old) : old[k] = m) => \E k \in 1..Len(new) : new[k] = m
          BY <5>1
        <5> QED BY <2>1, <4>1, <5>2 DEF Made
      <4>3. \A m \in Earlier : m = step.what => Made(m)'
        <5>1. Len(old) + 1 \in 1..Len(new) /\ new[Len(old) + 1] = step.what
          BY <3>3
        <5>2. \E k \in 1..Len(new) : new[k] = step.what
          BY <5>1
        <5> QED BY <4>1, <5>2 DEF Made
      <4>4. \A k \in 1..Len(new) : new[k] = "Test32SetApi2" =>
               \A m \in Earlier : m \in ran \/ \E j \in 1..k - 1 : new[j] = m
        <5> SUFFICES ASSUME NEW k \in 1..Len(new), new[k] = "Test32SetApi2",
                            NEW m \in Earlier, m \notin ran
                     PROVE  \E j \in 1..k - 1 : new[j] = m
          OBVIOUS
        <5>1. CASE k \in 1..Len(old)
          <6>1. PICK j \in 1..k - 1 : old[j] = m
            BY <3>3, <4>1, <5>1 DEF CallsInv, AssociatedInOrder
          <6>2. j \in 1..Len(old)
            BY <3>3, <5>1
          <6> QED BY <3>3, <6>1, <6>2
        <5>2. CASE k = Len(old) + 1
          <6>1. Made(m)
            BY <1>3, <3>3, <5>2
          <6>2. PICK j \in 1..Len(old) : old[j] = m
            BY <4>1, <6>1 DEF Made
          <6> QED BY <3>3, <5>2, <6>2
        <5>3. k \in 1..Len(old) \/ k = Len(old) + 1
          BY <3>3
        <5> QED BY <5>1, <5>2, <5>3
      <4> QED BY <1>4, <1>5, <2>1, <3>5, <3>6, <4>1, <4>2, <4>3, <4>4
              DEF CallsInv, AssociatedInOrder
    <3>9. CASE <<step.to, step.pipe>> # <<"child", "test32">>
      <4>1. Calls' = Calls
        BY <3>4, <3>7, <3>9 DEF Calls
      <4>2. \A m : Made(m)' <=> Made(m)
        BY <2>1, <4>1 DEF Made
      <4>3. step.what \notin Earlier
        BY <1>3, <3>9 DEF Associated
      <4> QED BY <1>4, <1>5, <2>1, <3>5, <3>6, <4>1, <4>2, <4>3
              DEF CallsInv, AssociatedInOrder
    <3> QED BY <3>8, <3>9
  <2> QED BY <2>2, <2>3
<1> QED BY <1>1, <1>6, <1>7, <1>8

\* The associated calls look nothing up.
LEMMA AssociatedFind ==
  ASSUME NEW p, NEW method \in Associated
  PROVE  Finds(p, method)
<1>1. method \notin DOMAIN LooksUp
  BY DEF LooksUp, Associated, Earlier
<1> QED BY <1>1 DEF Finds

\* The first call of a pipe runs, unless it does not find what it looks up.
LEMMA DispatchKeepsOrder ==
  ASSUME CallsInv, NEW p \in Processes, NEW pipe \in Pipes, Dispatch(p, pipe)
  PROVE  CallsInv'
<1> DEFINE c == inbox[p][pipe]
           method == c[1]
<1>0. /\ c \in Seq(Methods) /\ c # <<>> /\ Head(c) = method /\ method \in Methods
      /\ Tail(c) \in Seq(Methods) /\ Len(c) \in Nat /\ Len(c) >= 1
      /\ Len(Tail(c)) = Len(c) - 1
      /\ \A i \in 1..Len(Tail(c)) : Tail(c)[i] = c[i + 1]
  BY TailFacts DEF CallsInv, CallsTypeOK, Dispatch, Ready
<1>1. /\ ran \subseteq ran' /\ ran' \subseteq ran \cup {method}
      /\ method \in Associated => method \in ran'
      /\ \/ todo' = [todo EXCEPT ![p] = Steps(method)]
         \/ todo' = todo /\ todo[p] = <<>>
      /\ inbox' = [inbox EXCEPT ![p][pipe] = Tail(c)]
      /\ UNCHANGED <<serving, open>>
  BY <1>0, AssociatedFind DEF Dispatch, Ready
<1>c. c = inbox[p][pipe] /\ method = c[1]
  OBVIOUS
<1> HIDE DEF c, method
<1>2. Quiet(Steps(method)) /\ Quiet(<<>>)
  BY StepsQuiet DEF Quiet
<1>3. /\ todo' \in [Processes -> Seq(StepRecords)] /\ Quiet(todo'[p])
      /\ \A q \in Processes : q # p => todo'[q] = todo[q]
  <2>1. todo \in [Processes -> Seq(StepRecords)]
    BY DEF CallsInv, CallsTypeOK
  <2>2. Steps(method) \in Seq(StepRecords)
    BY <1>2 DEF Quiet
  <2> QED BY <1>1, <1>2, <2>1, <2>2
<1>4. /\ inbox' \in [Processes -> [Pipes -> Seq(Methods)]]
      /\ inbox'[p][pipe] = Tail(c)
      /\ \A q \in Processes, other \in Pipes :
           <<q, other>> # <<p, pipe>> => inbox'[q][other] = inbox[q][other]
  BY <1>0, <1>1 DEF CallsInv, CallsTypeOK
<1>5. CallsTypeOK'
  BY <1>0, <1>1, <1>3, <1>4 DEF CallsInv, CallsTypeOK
<1>6. \A q \in Processes, other \in Pipes : <<q, other>> # <<"child", "test32">> =>
         \A k \in 1..Len(inbox'[q][other]) : inbox'[q][other][k] \notin Associated
  <2> SUFFICES ASSUME NEW q \in Processes, NEW other \in Pipes,
                      <<q, other>> # <<"child", "test32">>,
                      NEW k \in 1..Len(inbox'[q][other])
               PROVE  inbox'[q][other][k] \notin Associated
    OBVIOUS
  <2>1. CASE <<q, other>> # <<p, pipe>>
    <3>1. inbox'[q][other] = inbox[q][other]
      BY <1>4, <2>1
    <3> QED BY <3>1 DEF CallsInv, AssociatedInOrder
  <2>2. CASE q = p /\ other = pipe
    <3>1. inbox'[q][other] = Tail(c)
      BY <1>4, <2>2
    <3>2. k + 1 \in 1..Len(c) /\ inbox'[q][other][k] = c[k + 1]
      BY <1>0, <3>1
    <3> QED BY <1>c, <2>2, <3>2 DEF CallsInv, AssociatedInOrder
  <2> QED BY <2>1, <2>2
<1>7. /\ \A m \in Earlier : Made(m) => Made(m)'
      /\ \A k \in 1..Len(Calls') : Calls'[k] = "Test32SetApi2" =>
           \A m \in Earlier : m \in ran' \/ \E j \in 1..k - 1 : Calls'[j] = m
      /\ "Test32SetApi2" \in ran' => Earlier \subseteq ran'
  <2>0. "child" \in Processes /\ "test32" \in Pipes /\ "Test32SetApi2" \in Associated
    BY PipesAre DEF Associated
  <2>1. CASE p = "child" /\ pipe = "test32"
    <3>1. Calls = c /\ Calls' = Tail(c)
      BY <1>c, <1>4, <2>1 DEF Calls
    <3>2. \A m : (\E k \in 1..Len(c) : c[k] = m)
               => m = method \/ \E k \in 1..Len(Tail(c)) : Tail(c)[k] = m
      <4> SUFFICES ASSUME NEW k \in 1..Len(c), k # 1
                   PROVE  \E i \in 1..Len(Tail(c)) : Tail(c)[i] = c[k]
        BY <1>c
      <4>1. k - 1 \in 1..Len(Tail(c)) /\ (k - 1) + 1 = k
        BY <1>0
      <4> QED BY <1>0, <4>1
    <3>3. \A m \in Earlier : Made(m) => Made(m)'
      <4> SUFFICES ASSUME NEW m \in Earlier, Made(m) PROVE Made(m)'
        OBVIOUS
      <4>1. CASE m \in ran
        BY <1>1, <4>1 DEF Made
      <4>2. CASE m = method
        BY <1>1, <4>2 DEF Made, Associated
      <4>3. CASE \E k \in 1..Len(Tail(c)) : Tail(c)[k] = m
        BY <3>1, <4>3 DEF Made
      <4> QED BY <3>1, <3>2, <4>1, <4>2, <4>3 DEF Made
    <3>4. \A k \in 1..Len(Tail(c)) : Tail(c)[k] = "Test32SetApi2" =>
             \A m \in Earlier : m \in ran' \/ \E j \in 1..k - 1 : Tail(c)[j] = m
      <4> SUFFICES ASSUME NEW k \in 1..Len(Tail(c)), Tail(c)[k] = "Test32SetApi2",
                          NEW m \in Earlier, m \notin ran'
                   PROVE  \E j \in 1..k - 1 : Tail(c)[j] = m
        OBVIOUS
      <4>1. k + 1 \in 1..Len(c) /\ c[k + 1] = "Test32SetApi2"
        BY <1>0
      <4>2. PICK j \in 1..(k + 1) - 1 : c[j] = m
        BY <1>1, <3>1, <4>1 DEF CallsInv, AssociatedInOrder
      <4>3. j # 1
        BY <1>c, <1>1, <4>2 DEF Associated
      <4>4. j - 1 \in 1..k - 1 /\ j - 1 \in 1..Len(Tail(c)) /\ (j - 1) + 1 = j
        BY <1>0, <4>2, <4>3
      <4>5. Tail(c)[j - 1] = c[j]
        BY <1>0, <4>4
      <4> QED BY <4>2, <4>4, <4>5
    <3>5. method = "Test32SetApi2" => Earlier \subseteq ran
      <4>1. 1 \in 1..Len(c)
        BY <1>0
      <4>2. \A j : ~(j \in 1..1 - 1)
        OBVIOUS
      <4> QED BY <1>c, <3>1, <4>1, <4>2 DEF CallsInv, AssociatedInOrder
    <3> QED BY <1>1, <3>1, <3>3, <3>4, <3>5 DEF CallsInv, AssociatedInOrder
  <2>2. CASE <<p, pipe>> # <<"child", "test32">>
    <3>1. Calls' = Calls
      BY <1>4, <2>0, <2>2 DEF Calls
    <3>2. method \notin Associated
      <4>1. 1 \in 1..Len(c)
        BY <1>0
      <4> QED BY <1>c, <2>2, <4>1 DEF CallsInv, AssociatedInOrder
    <3>3. "Test32SetApi2" \in ran' => "Test32SetApi2" \in ran
      BY <1>1, <2>0, <3>2
    <3> QED BY <1>1, <3>1, <3>3 DEF CallsInv, AssociatedInOrder, Made
  <2> QED BY <2>1, <2>2
<1>8. \A q \in Processes :
        /\ OnePipe(todo'[q])
        /\ \A i \in 1..Len(todo'[q]) : todo'[q][i].what = "Test32SetApi2" =>
             \A m \in Earlier : Made(m)' \/ \E j \in 1..i - 1 : todo'[q][j].what = m
  <2> SUFFICES ASSUME NEW q \in Processes
               PROVE  /\ OnePipe(todo'[q])
                      /\ \A i \in 1..Len(todo'[q]) : todo'[q][i].what = "Test32SetApi2" =>
                           \A m \in Earlier : Made(m)' \/ \E j \in 1..i - 1 : todo'[q][j].what = m
    OBVIOUS
  <2>1. CASE q = p
    <3>1. InOrder(todo'[p])
      BY <1>3, QuietInOrder
    <3> QED BY <2>1, <3>1 DEF InOrder, SetApi2Last
  <2>2. CASE q # p
    <3>1. todo'[q] = todo[q]
      BY <1>3, <2>2
    <3>2. /\ OnePipe(todo[q])
          /\ \A i \in 1..Len(todo[q]) : todo[q][i].what = "Test32SetApi2" =>
               \A m \in Earlier : Made(m) \/ \E j \in 1..i - 1 : todo[q][j].what = m
      BY DEF CallsInv, AssociatedInOrder
    <3> QED BY <1>7, <3>1, <3>2
  <2> QED BY <2>1, <2>2
<1> QED BY <1>1, <1>5, <1>6, <1>7, <1>8 DEF CallsInv, AssociatedInOrder

\* Through whatever pipes they are made, the calls of the interfaces associated with
\* Test32 run in the order in which they were made, in every one of the demos.
THEOREM AssociatedCallsInOrder == MojoSpec => []AssociatedCallsKeepOrder
<1>1. CallsInv /\ [MojoNext]_mojoVars => CallsInv'
  <2> SUFFICES ASSUME CallsInv, [MojoNext]_mojoVars  PROVE CallsInv'
    OBVIOUS
  <2>1. CASE UNCHANGED callVars
    <3>1. UNCHANGED <<todo, inbox, serving, open, ran>>
      BY <2>1 DEF callVars
    <3>2. CallsTypeOK'
      BY <3>1 DEF CallsInv, CallsTypeOK
    <3>3. AssociatedInOrder'
      BY <3>1 DEF CallsInv, AssociatedInOrder, Calls, Made
    <3> QED BY <3>2, <3>3 DEF CallsInv
  <2>2. CASE CallsNext
    BY <2>2, StepKeepsOrder, DispatchKeepsOrder DEF CallsNext
  <2> QED BY <2>1, <2>2 DEF MojoNext, mojoVars
<1>2. CallsInv => AssociatedCallsKeepOrder
  BY DEF CallsInv, AssociatedInOrder, AssociatedCallsKeepOrder, Earlier
<1> QED BY <1>1, <1>2, CallsStart, PTL DEF MojoSpec

-----------------------------------------------------------------------------
(***************************************************************************)
(* ChildProcess: a channel's implementation lives until its call has run.  *)
(***************************************************************************)
\* ChildTypeOK in two parts: the processes, and the channels between them.
ProcessesTyped ==
  /\ client_index_ \in 0..MaxClients /\ receivers_ \subseteq 1..client_index_
  /\ client \in [ClientIds -> ClientStates]
  /\ said \subseteq 1..client_id

ChannelsTyped ==
  /\ client_id \in Nat
  /\ channel \in Seq(ChannelStates) /\ Len(channel) = client_id
  /\ service_ \subseteq 1..client_id
  /\ to_service \in Seq(ClientIds) /\ requests \subseteq ClientIds
  /\ to_main \in Seq(ClientIds \X (1..client_id))
  /\ replies \subseteq ClientIds \X (1..client_id)

\* A channel's implementation is forgotten only after its pipe is closed.
ServiceLives == \A id \in 1..client_id : channel[id] # "closed" => id \in service_

\* A channel whose end is on its way to a client is open, and that end is in one
\* message only.
EndsTravelOnce ==
  /\ \A k \in 1..Len(to_main) : channel[to_main[k][2]] = "open"
  /\ \A r \in replies : channel[r[2]] = "open"
  /\ \A j, k \in 1..Len(to_main) : to_main[j][2] = to_main[k][2] => j = k
  /\ \A r, s \in replies : r[2] = s[2] => r = s
  /\ \A k \in 1..Len(to_main), r \in replies : to_main[k][2] # r[2]

\* The inductive invariant of the channels.
ChildInv == ChannelsTyped /\ ServiceLives /\ EndsTravelOnce

\* At first there is neither a client nor a channel.
LEMMA ChildInitInv == ChildInit => ProcessesTyped /\ ChildInv
BY MaxClientsAssumption
   DEF ChildInit, ProcessesTyped, ClientIds, ClientStates, ChildInv, ChannelsTyped,
       ServiceLives, EndsTravelOnce, ChannelStates

\* The state of a channel after some have lost their far end.
LEMMA Abandoned ==
  ASSUME ChannelsTyped, NEW ids
  PROVE  /\ Abandon(ids) \in Seq(ChannelStates) /\ Len(Abandon(ids)) = client_id
         /\ \A id \in 1..client_id :
              Abandon(ids)[id] = IF id \in ids THEN "closed" ELSE channel[id]
<1>1. channel \in [1..client_id -> ChannelStates] /\ client_id \in Nat
  BY DEF ChannelsTyped
<1>2. Abandon(ids) = [id \in 1..client_id |-> IF id \in ids THEN "closed" ELSE channel[id]]
  BY <1>1 DEF Abandon
<1>3. Abandon(ids) \in [1..client_id -> ChannelStates]
  BY <1>1, <1>2 DEF ChannelStates
<1> QED BY <1>1, <1>2, <1>3

\* The state of one channel is set.
LEMMA SetChannel ==
  ASSUME ChannelsTyped, NEW id \in 1..client_id, NEW s \in ChannelStates
  PROVE  /\ [channel EXCEPT ![id] = s] \in Seq(ChannelStates)
         /\ Len([channel EXCEPT ![id] = s]) = client_id
         /\ \A k \in 1..client_id :
              [channel EXCEPT ![id] = s][k] = IF k = id THEN s ELSE channel[k]
BY DEF ChannelsTyped

\* A step that leaves the channels alone and forgets closed ones only.
LEMMA KeepChannels ==
  ASSUME ChildInv, UNCHANGED <<client_id, channel, to_main, replies>>,
         service_' \subseteq service_,
         \A id \in service_ \ service_' : channel[id] = "closed",
         to_service' \in Seq(ClientIds), requests' \subseteq ClientIds
  PROVE  ChildInv'
BY DEF ChildInv, ChannelsTyped, ServiceLives, EndsTravelOnce

\* The main process forwards a channel to the client that asked for it.
LEMMA ForwardReplyInv ==
  ASSUME ChildInv, ForwardReply
  PROVE  ChildInv'
<1> DEFINE i == Head(to_main)[1]
           id == Head(to_main)[2]
<1>0. ChannelsTyped /\ ServiceLives /\ EndsTravelOnce
  BY DEF ChildInv
<1>1. /\ to_main # <<>> /\ to_main' = Tail(to_main)
      /\ UNCHANGED <<client_id, service_, to_service, requests>>
  BY DEF ForwardReply, serviceVars
<1>2. /\ Tail(to_main) \in Seq(ClientIds \X (1..client_id))
      /\ Head(to_main) = to_main[1] /\ Head(to_main) \in ClientIds \X (1..client_id)
      /\ 1 \in 1..Len(to_main)
      /\ \A k \in 1..Len(Tail(to_main)) : k + 1 \in 1..Len(to_main) /\ k + 1 # 1
                                          /\ Tail(to_main)[k] = to_main[k + 1]
      /\ \A k, j \in 1..Len(Tail(to_main)) : k + 1 = j + 1 => k = j
  BY <1>0, <1>1 DEF ChannelsTyped
<1>3. i \in ClientIds /\ id \in 1..client_id /\ Head(to_main) = <<i, id>>
  BY <1>2
<1>4. \A k \in 1..Len(Tail(to_main)) : Tail(to_main)[k][2] # id
  BY <1>0, <1>2 DEF EndsTravelOnce
<1>5. \A r \in replies : r[2] # id
  BY <1>0, <1>2 DEF EndsTravelOnce
<1>6. CASE replies' = replies \cup {<<i, id>>} /\ UNCHANGED channel
  <2>1. ChannelsTyped'
    BY <1>0, <1>1, <1>2, <1>3, <1>6 DEF ChannelsTyped
  <2>2. ServiceLives'
    BY <1>0, <1>1, <1>6 DEF ServiceLives
  <2>3. channel[id] = "open"
    BY <1>0, <1>2 DEF EndsTravelOnce
  <2>4. EndsTravelOnce'
    <3>1. \A k \in 1..Len(Tail(to_main)) : channel[Tail(to_main)[k][2]] = "open"
      <4>1. \A k \in 1..Len(Tail(to_main)) : channel[to_main[k + 1][2]] = "open"
        BY <1>0, <1>2 DEF EndsTravelOnce
      <4> QED BY <1>2, <4>1
    <3>2. \A r \in replies' : channel[r[2]] = "open"
      BY <1>0, <1>6, <2>3 DEF EndsTravelOnce
    <3>3. \A j, k \in 1..Len(Tail(to_main)) : Tail(to_main)[j][2] = Tail(to_main)[k][2] => j = k
      BY <1>0, <1>2 DEF EndsTravelOnce
    <3>4. \A r, s \in replies' : r[2] = s[2] => r = s
      BY <1>0, <1>5, <1>6 DEF EndsTravelOnce
    <3>5. \A k \in 1..Len(Tail(to_main)), r \in replies' : Tail(to_main)[k][2] # r[2]
      BY <1>0, <1>2, <1>4, <1>6 DEF EndsTravelOnce
    <3> QED BY <1>1, <1>6, <3>1, <3>2, <3>3, <3>4, <3>5 DEF EndsTravelOnce
  <2> QED BY <2>1, <2>2, <2>4 DEF ChildInv
<1>7. CASE channel' = Abandon({id}) /\ UNCHANGED replies
  <2>1. /\ channel' \in Seq(ChannelStates) /\ Len(channel') = client_id
        /\ \A k \in 1..client_id : channel'[k] = IF k = id THEN "closed" ELSE channel[k]
    BY <1>0, <1>7, Abandoned
  <2>2. ChannelsTyped'
    BY <1>0, <1>1, <1>2, <1>7, <2>1 DEF ChannelsTyped
  <2>3. ServiceLives'
    BY <1>0, <1>1, <2>1 DEF ServiceLives
  <2>4. EndsTravelOnce'
    <3>1. \A k \in 1..Len(Tail(to_main)) : Tail(to_main)[k][2] \in 1..client_id
      BY <1>2
    <3>2. \A k \in 1..Len(Tail(to_main)) : channel'[Tail(to_main)[k][2]] = "open"
      BY <1>0, <1>2, <1>4, <2>1, <3>1 DEF EndsTravelOnce
    <3>3. \A r \in replies : channel'[r[2]] = "open"
      <4>1. \A r \in replies : r[2] \in 1..client_id
        BY <1>0 DEF ChannelsTyped
      <4> QED BY <1>0, <1>5, <2>1, <4>1 DEF EndsTravelOnce
    <3>4. \A j, k \in 1..Len(Tail(to_main)) : Tail(to_main)[j][2] = Tail(to_main)[k][2] => j = k
      BY <1>0, <1>2 DEF EndsTravelOnce
    <3>5. \A k \in 1..Len(Tail(to_main)), r \in replies : Tail(to_main)[k][2] # r[2]
      BY <1>0, <1>2 DEF EndsTravelOnce
    <3> QED BY <1>0, <1>1, <1>7, <3>2, <3>3, <3>4, <3>5 DEF EndsTravelOnce
  <2> QED BY <2>2, <2>3, <2>4 DEF ChildInv
<1> QED BY <1>6, <1>7 DEF ForwardReply

\* The service makes a channel, and its implementation, for a request.
LEMMA MakeChannelInv ==
  ASSUME ChildInv, MakeChannel
  PROVE  ChildInv'
<1> DEFINE n == client_id + 1
<1>0. ChannelsTyped /\ ServiceLives /\ EndsTravelOnce
  BY DEF ChildInv
<1>1. /\ to_service # <<>> /\ to_service' = Tail(to_service)
      /\ client_id' = n /\ service_' = service_ \cup {n}
      /\ channel' = Append(channel, "open")
      /\ to_main' = Append(to_main, <<Head(to_service), n>>)
      /\ UNCHANGED <<requests, replies>>
  BY DEF MakeChannel
<1>2. /\ Tail(to_service) \in Seq(ClientIds) /\ Head(to_service) \in ClientIds
      /\ client_id \in Nat /\ n \in Nat
  BY <1>0, <1>1 DEF ChannelsTyped
<1>3. /\ channel' \in Seq(ChannelStates) /\ Len(channel') = n /\ channel'[n] = "open"
      /\ \A k \in 1..client_id : channel'[k] = channel[k]
  BY <1>0, <1>1 DEF ChannelsTyped, ChannelStates
<1>4. \A k : k \in 1..n <=> k \in 1..client_id \/ k = n
  BY <1>2
<1>5. /\ to_main \in Seq(ClientIds \X (1..n)) /\ <<Head(to_service), n>> \in ClientIds \X (1..n)
      /\ Len(to_main) \in Nat
      /\ \A k \in 1..Len(to_main) : to_main[k] \in ClientIds \X (1..client_id)
  BY <1>0, <1>2, <1>4 DEF ChannelsTyped
<1>6. /\ to_main' \in Seq(ClientIds \X (1..n)) /\ Len(to_main') = Len(to_main) + 1
      /\ to_main'[Len(to_main) + 1] = <<Head(to_service), n>>
      /\ \A k \in 1..Len(to_main) : to_main'[k] = to_main[k]
  BY <1>1, <1>5
<1>7. ChannelsTyped'
  BY <1>0, <1>1, <1>2, <1>3, <1>4, <1>6 DEF ChannelsTyped
<1>8. ServiceLives'
  BY <1>0, <1>1, <1>3, <1>4 DEF ServiceLives
<1>9. EndsTravelOnce'
  <2>1. \A k \in 1..Len(to_main') :
          \/ k = Len(to_main) + 1 /\ to_main'[k][2] = n
          \/ /\ k \in 1..Len(to_main) /\ to_main'[k] = to_main[k]
             /\ to_main[k][2] \in 1..client_id
    BY <1>5, <1>6
  <2>2. \A r \in replies : r[2] \in 1..client_id
    BY <1>0 DEF ChannelsTyped
  <2>3. n \notin 1..client_id
    BY <1>2
  <2>4. \A k \in 1..Len(to_main') : channel'[to_main'[k][2]] = "open"
    BY <1>0, <1>3, <2>1 DEF EndsTravelOnce
  <2>5. \A r \in replies : channel'[r[2]] = "open"
    BY <1>0, <1>3, <2>2 DEF EndsTravelOnce
  <2>6. \A j, k \in 1..Len(to_main') : to_main'[j][2] = to_main'[k][2] => j = k
    BY <1>0, <2>1, <2>3 DEF EndsTravelOnce
  <2>7. \A k \in 1..Len(to_main'), r \in replies : to_main'[k][2] # r[2]
    BY <1>0, <2>1, <2>2, <2>3 DEF EndsTravelOnce
  <2> QED BY <1>0, <1>1, <2>4, <2>5, <2>6, <2>7 DEF EndsTravelOnce
<1> QED BY <1>7, <1>8, <1>9 DEF ChildInv

\* The service: a call runs, or a pipe's end is seen.
LEMMA HiInv ==
  ASSUME ChildInv, NEW id \in 1..client_id, Hi(id)
  PROVE  ChildInv'
<1>0. ChannelsTyped /\ ServiceLives /\ EndsTravelOnce
  BY DEF ChildInv
<1>1. /\ channel[id] = "hi" /\ channel' = [channel EXCEPT ![id] = "closed"]
      /\ UNCHANGED <<client_id, service_, to_service, requests, to_main, replies>>
  BY DEF Hi
<1>2. /\ channel' \in Seq(ChannelStates) /\ Len(channel') = client_id
      /\ \A k \in 1..client_id : channel'[k] = IF k = id THEN "closed" ELSE channel[k]
  BY <1>0, <1>1, SetChannel DEF ChannelStates
<1>3. /\ \A k \in 1..Len(to_main) : to_main[k][2] \in 1..client_id
      /\ \A r \in replies : r[2] \in 1..client_id
  BY <1>0 DEF ChannelsTyped
<1>4. ChannelsTyped' /\ ServiceLives'
  BY <1>0, <1>1, <1>2 DEF ChannelsTyped, ServiceLives
<1>5. EndsTravelOnce'
  BY <1>0, <1>1, <1>2, <1>3 DEF EndsTravelOnce
<1> QED BY <1>4, <1>5 DEF ChildInv

\* The client calls Hi through its channel.
LEMMA GotChannelInv ==
  ASSUME ChildInv, NEW i \in ClientIds, GotChannel(i)
  PROVE  ChildInv'
<1>0. ChannelsTyped /\ ServiceLives /\ EndsTravelOnce
  BY DEF ChildInv
<1>1. PICK id \in DOMAIN channel :
        /\ <<i, id>> \in replies
        /\ replies' = replies \ {<<i, id>>}
        /\ channel' = [channel EXCEPT ![id] = "hi"]
  BY DEF GotChannel
<1>2. UNCHANGED <<client_id, service_, to_service, requests, to_main>>
  BY DEF GotChannel, serviceVars
<1>3. id \in 1..client_id
  BY <1>0 DEF ChannelsTyped
<1>4. /\ channel' \in Seq(ChannelStates) /\ Len(channel') = client_id
      /\ \A k \in 1..client_id : channel'[k] = IF k = id THEN "hi" ELSE channel[k]
  BY <1>0, <1>1, <1>3, SetChannel DEF ChannelStates
<1>5. /\ \A k \in 1..Len(to_main) : to_main[k][2] \in 1..client_id /\ to_main[k][2] # id
      /\ \A r \in replies' : r[2] \in 1..client_id /\ r[2] # id
  <2>1. \A r \in replies : r[2] = id => r = <<i, id>>
    BY <1>0, <1>1 DEF EndsTravelOnce
  <2>2. \A k \in 1..Len(to_main) : to_main[k][2] # id
    BY <1>0, <1>1 DEF EndsTravelOnce
  <2>3. /\ \A k \in 1..Len(to_main) : to_main[k][2] \in 1..client_id
        /\ \A r \in replies : r[2] \in 1..client_id
    BY <1>0 DEF ChannelsTyped
  <2> QED BY <1>1, <2>1, <2>2, <2>3
<1>6. channel[id] # "closed"
  BY <1>0, <1>1 DEF EndsTravelOnce
<1>7. ChannelsTyped' /\ ServiceLives'
  BY <1>0, <1>1, <1>2, <1>4, <1>6 DEF ChannelsTyped, ServiceLives
<1>8. EndsTravelOnce'
  BY <1>0, <1>1, <1>2, <1>4, <1>5 DEF EndsTravelOnce
<1> QED BY <1>7, <1>8 DEF ChildInv

\* A client dies: the channels it has, or that are on their way to it, lose their end.
LEMMA DieInv ==
  ASSUME ChildInv, NEW i \in ClientIds, Die(i)
  PROVE  ChildInv'
<1> DEFINE ids == {r[2] : r \in {s \in replies : s[1] = i}}
<1>0. ChannelsTyped /\ ServiceLives /\ EndsTravelOnce
  BY DEF ChildInv
<1>1. /\ replies' = {r \in replies : r[1] # i}
      /\ channel' = Abandon(ids) /\ requests' \subseteq requests
      /\ UNCHANGED <<client_id, service_, to_service, to_main>>
  BY DEF Die, serviceVars
<1>2. /\ channel' \in Seq(ChannelStates) /\ Len(channel') = client_id
      /\ \A k \in 1..client_id : channel'[k] = IF k \in ids THEN "closed" ELSE channel[k]
  BY <1>0, <1>1, Abandoned
<1>3. /\ \A k \in 1..Len(to_main) : to_main[k][2] \in 1..client_id /\ to_main[k][2] \notin ids
      /\ \A r \in replies' : r[2] \in 1..client_id /\ r[2] \notin ids
  <2>1. /\ \A k \in 1..Len(to_main) : to_main[k][2] \in 1..client_id
        /\ \A r \in replies : r[2] \in 1..client_id
    BY <1>0 DEF ChannelsTyped
  <2>2. \A k \in 1..Len(to_main) : to_main[k][2] \notin ids
    BY <1>0 DEF EndsTravelOnce
  <2>3. \A r \in replies : r[2] \in ids => r[1] = i
    BY <1>0 DEF EndsTravelOnce
  <2> QED BY <1>1, <2>1, <2>2, <2>3
<1>4. ChannelsTyped' /\ ServiceLives'
  BY <1>0, <1>1, <1>2 DEF ChannelsTyped, ServiceLives
<1>5. EndsTravelOnce'
  BY <1>0, <1>1, <1>2, <1>3 DEF EndsTravelOnce
<1> QED BY <1>4, <1>5 DEF ChildInv

\* Every step keeps the channels.
LEMMA ChildStepInv ==
  ASSUME ChildInv, ChildNext
  PROVE  ChildInv'
<1>0. ChannelsTyped
  BY DEF ChildInv
<1>1. CASE MojoMain
  BY <1>0, <1>1, KeepChannels DEF MojoMain, serviceVars, ChannelsTyped
<1>2. ASSUME NEW i \in ClientIds, EstablishChannel(i)
      PROVE  ChildInv'
  <2>1. Append(to_service, i) \in Seq(ClientIds)
    BY <1>0 DEF ChannelsTyped
  <2>2. requests \ {i} \subseteq ClientIds
    BY <1>0 DEF ChannelsTyped
  <2> QED BY <1>2, <2>1, <2>2, KeepChannels DEF EstablishChannel, serviceVars
<1>3. ASSUME NEW i \in ClientIds, OnClientDisconnect(i)
      PROVE  ChildInv'
  BY <1>0, <1>3, KeepChannels DEF OnClientDisconnect, serviceVars, ChannelsTyped
<1>4. ASSUME NEW i \in ClientIds, MojoClient(i)
      PROVE  ChildInv'
  BY <1>0, <1>4, KeepChannels DEF MojoClient, serviceVars, ChannelsTyped
<1>5. ASSUME NEW id \in 1..client_id, OnDisconnect(id)
      PROVE  ChildInv'
  BY <1>0, <1>5, KeepChannels DEF OnDisconnect, ChannelsTyped
<1> QED BY <1>1, <1>2, <1>3, <1>4, <1>5, ForwardReplyInv, MakeChannelInv, HiInv, GotChannelInv,
           DieInv DEF ChildNext

\* Every step keeps the types of the processes.
LEMMA ProcessesStep ==
  ASSUME ProcessesTyped, ChannelsTyped, ChildNext
  PROVE  ProcessesTyped'
<1> USE DEF brokerVars, serviceVars
<1>0. MaxClients \in Nat /\ client_id \in Nat
  BY MaxClientsAssumption DEF ChannelsTyped
<1>1. CASE MojoMain
  BY <1>0, <1>1 DEF MojoMain, LaunchProcess, AddClient, ProcessesTyped, ClientIds, ClientStates
<1>2. CASE ForwardReply
  BY <1>2 DEF ForwardReply, ProcessesTyped
<1>3. CASE MakeChannel
  BY <1>0, <1>3 DEF MakeChannel, ProcessesTyped
<1>4. ASSUME NEW i \in ClientIds,
             EstablishChannel(i) \/ OnClientDisconnect(i) \/ MojoClient(i) \/ GotChannel(i)
               \/ Die(i)
      PROVE  ProcessesTyped'
  <2>1. client' = client \/ \E s \in ClientStates : client' = [client EXCEPT ![i] = s]
    BY <1>4 DEF EstablishChannel, OnClientDisconnect, MojoClient, GotChannel, Die, ClientStates
  <2>2. /\ client_index_' = client_index_ /\ receivers_' \subseteq receivers_
        /\ said' = said /\ client_id' = client_id
    BY <1>4 DEF EstablishChannel, OnClientDisconnect, MojoClient, GotChannel, Die
  <2>3. client' \in [ClientIds -> ClientStates]
    BY <2>1 DEF ProcessesTyped
  <2> QED BY <2>2, <2>3 DEF ProcessesTyped
<1>5. ASSUME NEW id \in 1..client_id, Hi(id) \/ OnDisconnect(id)
      PROVE  ProcessesTyped'
  BY <1>5 DEF Hi, OnDisconnect, ProcessesTyped
<1> QED BY <1>1, <1>2, <1>3, <1>4, <1>5 DEF ChildNext

\* A MyServiceImpl is forgotten only once no call can be on its way to it.
THEOREM HiIsHeard == MojoSpec => []HiRunsBeforeForgotten
<1> DEFINE Inv == ProcessesTyped /\ ChildInv
<1>1. MojoInit => Inv
  BY ChildInitInv DEF MojoInit
<1>2. Inv /\ [MojoNext]_mojoVars => Inv'
  <2> SUFFICES ASSUME ProcessesTyped, ChildInv, [MojoNext]_mojoVars
               PROVE  ProcessesTyped' /\ ChildInv'
    OBVIOUS
  <2>1. CASE UNCHANGED childVars
    <3>1. ProcessesTyped'
      BY <2>1 DEF childVars, brokerVars, serviceVars, ProcessesTyped
    <3>2. ChildInv'
      BY <2>1, KeepChannels DEF childVars, serviceVars, ChildInv, ChannelsTyped
    <3> QED BY <3>1, <3>2
  <2>2. CASE ChildNext
    BY <2>2, ProcessesStep, ChildStepInv DEF ChildInv
  <2> QED BY <2>1, <2>2 DEF MojoNext, mojoVars
<1>3. Inv => HiRunsBeforeForgotten
  BY DEF ChildInv, ServiceLives, HiRunsBeforeForgotten, ProcessesTyped, ChannelsTyped,
         ChildTypeOK
<1> QED BY <1>1, <1>2, <1>3, PTL DEF MojoSpec

-----------------------------------------------------------------------------
(***************************************************************************)
(* MultipleProcess: what the consumer reads is what the producer wrote.    *)
(***************************************************************************)
\* Every message, in order, and how many of them are among the first n of Writes.
AllMessages ==
  <<"hello", "HELLO", "DataPipe", "MessagePipe", "SharedBuffer", "SimplerWatcher",
    "SimplerWatcher2">>
MessagesAmong(n) == IF n = 0 THEN 0 ELSE <<1, 2, 3, 3, 4, 4, 5, 5, 6>>[n]

\* The first k messages, and how many have been sent.
First(k) == [i \in 1..k |-> AllMessages[i]]

SentCount == IF closed THEN 7 ELSE MessagesAmong(written)

\* Writes and Reads, item by item: the messages among them are AllMessages in order.
LEMMA MessagesInOrder ==
  /\ Len(Writes) = 9 /\ Len(Reads) = 8
  /\ \A i \in 1..7 : AllMessages[i] \in Messages
  /\ \A n \in 0..9 : MessagesAmong(n) \in 0..6
  /\ \A n \in 1..9 :
       /\ Writes[n] \in Messages =>
            /\ MessagesAmong(n) = MessagesAmong(n - 1) + 1
            /\ Writes[n] = AllMessages[MessagesAmong(n)]
       /\ Writes[n] \notin Messages => MessagesAmong(n) = MessagesAmong(n - 1)
  /\ \A n \in 1..8 : Reads[n] = Writes[n]
  /\ MessagesAmong(0) = 0 /\ MessagesAmong(9) = 6 /\ AllMessages[7] = "SimplerWatcher2"
<1>1. Len(Writes) = 9 /\ Len(Reads) = 8
  BY DEF Writes, Reads
<1>2. \A i \in 1..7 : AllMessages[i] \in Messages
  BY DEF AllMessages, Messages
<1>3. \A n \in 0..9 : MessagesAmong(n) \in 0..6
  BY DEF MessagesAmong
<1>4. \A n \in 1..9 :
       /\ Writes[n] \in Messages =>
            /\ MessagesAmong(n) = MessagesAmong(n - 1) + 1
            /\ Writes[n] = AllMessages[MessagesAmong(n)]
       /\ Writes[n] \notin Messages => MessagesAmong(n) = MessagesAmong(n - 1)
  BY DEF MessagesAmong, Writes, Messages, AllMessages
<1>5. \A n \in 1..8 : Reads[n] = Writes[n]
  BY DEF Reads, Writes
<1>6. MessagesAmong(0) = 0 /\ MessagesAmong(9) = 6 /\ AllMessages[7] = "SimplerWatcher2"
  BY DEF MessagesAmong, AllMessages
<1> QED BY <1>1, <1>2, <1>3, <1>4, <1>5, <1>6

\* The first k messages, and one more.
LEMMA FirstFacts ==
  ASSUME NEW k \in 0..7
  PROVE  /\ First(k) \in Seq(Messages) /\ Len(First(k)) = k
         /\ \A i \in 1..k : First(k)[i] = AllMessages[i]
<1>1. \A i \in 1..k : AllMessages[i] \in Messages
  BY MessagesInOrder
<1> QED BY <1>1 DEF First

LEMMA FirstAppend ==
  ASSUME NEW k \in 0..6
  PROVE  First(k + 1) = Append(First(k), AllMessages[k + 1])
<1> DEFINE f == First(k)
           g == First(k + 1)
           e == AllMessages[k + 1]
<1>1. /\ f \in Seq(Messages) /\ Len(f) = k /\ \A i \in 1..k : f[i] = AllMessages[i]
      /\ g \in Seq(Messages) /\ Len(g) = k + 1 /\ \A i \in 1..k + 1 : g[i] = AllMessages[i]
      /\ e \in Messages
  <2>1. k \in 0..7 /\ k + 1 \in 0..7 /\ k + 1 \in 1..7
    OBVIOUS
  <2>2. e \in Messages
    BY <2>1, MessagesInOrder
  <2> HIDE DEF e
  <2>3. f \in Seq(Messages) /\ Len(f) = k /\ \A i \in 1..k : f[i] = AllMessages[i]
    BY <2>1, FirstFacts
  <2>4. g \in Seq(Messages) /\ Len(g) = k + 1 /\ \A i \in 1..k + 1 : g[i] = AllMessages[i]
    BY <2>1, FirstFacts
  <2> QED BY <2>2, <2>3, <2>4
<1>2. g[k + 1] = e
  BY <1>1
<1> HIDE DEF f, g, e
<1>3. \A i \in 1..k + 1 : g[i] = Append(f, e)[i]
  BY <1>1, <1>2
<1> QED BY <1>1, <1>3 DEF f, g, e

\* What the recursive function is.
LEMMA WrittenMessagesAre ==
  ASSUME NEW n \in 0..9
  PROVE  WrittenMessages[n] = First(MessagesAmong(n))
<1> DEFINE Body(f, m) ==
             IF m = 0 THEN <<>>
             ELSE IF Writes[m] \in Messages THEN Append(f[m - 1], Writes[m])
             ELSE f[m - 1]
           G == [m \in 0..9 |-> First(MessagesAmong(m))]
           Is(f) == f = [m \in 0..9 |-> Body(f, m)]
<1>1. \A m \in 0..9 : G[m] = Body(G, m)
  <2> SUFFICES ASSUME NEW m \in 0..9  PROVE First(MessagesAmong(m)) = Body(G, m)
    OBVIOUS
  <2>1. CASE m = 0
    <3>1. First(0) = <<>>
      BY FirstFacts
    <3> QED BY <2>1, <3>1, MessagesInOrder
  <2>2. CASE m # 0
    <3>1. m \in 1..9 /\ m - 1 \in 0..9 /\ G[m - 1] = First(MessagesAmong(m - 1))
      BY <2>2
    <3>2. MessagesAmong(m) \in 0..6 /\ MessagesAmong(m - 1) \in 0..6
      BY <3>1, MessagesInOrder
    <3>3. CASE Writes[m] \in Messages
      <4>1. /\ MessagesAmong(m) = MessagesAmong(m - 1) + 1
            /\ Writes[m] = AllMessages[MessagesAmong(m)]
        BY <3>1, <3>3, MessagesInOrder
      <4> QED BY <2>2, <3>1, <3>2, <3>3, <4>1, FirstAppend
    <3>4. CASE Writes[m] \notin Messages
      BY <2>2, <3>1, <3>4, MessagesInOrder
    <3> QED BY <3>3, <3>4
  <2> QED BY <2>1, <2>2
<1>2. Is(G)
  <2> DEFINE H == [m \in 0..9 |-> Body(G, m)]
  <2>1. \A m \in 0..9 : G[m] = H[m]
    BY <1>1
  <2>2. G = [m \in 0..9 |-> G[m]] /\ H = [m \in 0..9 |-> H[m]]
    OBVIOUS
  <2> QED BY <2>1, <2>2
<1>3. WrittenMessages = CHOOSE f : Is(f)
  BY MessagesInOrder DEF WrittenMessages
<1>4. Is(WrittenMessages)
  <2> HIDE DEF Is, G
  <2> QED BY <1>2, <1>3
<1> DEFINE W == WrittenMessages
<1>5. \A m \in 0..9 : W[m] = Body(W, m)
  <2> HIDE DEF W
  <2> QED BY <1>4 DEF W
<1>6. W[n] = G[n]
  <2> DEFINE Same(m) == W[m] = G[m]
  <2>1. Same(0)
    BY <1>1, <1>5
  <2>2. \A m \in 1..9 : Same(m - 1) => Same(m)
    <3> SUFFICES ASSUME NEW m \in 1..9, W[m - 1] = G[m - 1]  PROVE W[m] = G[m]
      OBVIOUS
    <3>1. m \in 0..9 /\ m # 0
      OBVIOUS
    <3>2. W[m] = Body(W, m) /\ G[m] = Body(G, m)
      BY <1>1, <1>5, <3>1
    <3> HIDE DEF W, G
    <3> QED BY <3>1, <3>2
  <2> HIDE DEF Same
  <2>3. \A m \in 1..9 : Same(m)
    <3>1. Same(1) /\ Same(2) /\ Same(3)
      BY <2>1, <2>2
    <3>2. Same(4) /\ Same(5) /\ Same(6)
      BY <2>2, <3>1
    <3>3. Same(7) /\ Same(8) /\ Same(9)
      BY <2>2, <3>2
    <3> QED BY <3>1, <3>2, <3>3
  <2> QED BY <2>1, <2>3 DEF Same
<1> QED BY <1>6

\* What the producer has sent are the first messages.
LEMMA SentMessagesAre ==
  ASSUME PipeTypeOK, closed => written = 9
  PROVE  SentMessages = First(SentCount)
<1>1. written \in 0..9 /\ closed \in BOOLEAN
  BY MessagesInOrder DEF PipeTypeOK
<1>2. WrittenMessages[written] = First(MessagesAmong(written))
  BY <1>1, WrittenMessagesAre
<1>3. CASE closed
  BY <1>2, <1>3, MessagesInOrder, FirstAppend DEF SentMessages, SentCount
<1>4. CASE ~closed
  BY <1>2, <1>4 DEF SentMessages, SentCount
<1> QED BY <1>1, <1>3, <1>4

\* The inductive invariant of the pipe.
PipeInv ==
  /\ PipeTypeOK
  /\ closed => written = 9
  /\ received \o arrived \o transit = First(SentCount)
  /\ watcher = "none" => Len(received) = MessagesAmong(reads)

\* At first nothing is sent.
LEMMA PipeStarts == PipeInit => PipeInv
<1> SUFFICES ASSUME PipeInit  PROVE PipeInv
  OBVIOUS
<1> USE DEF PipeInit
<1>1. PipeTypeOK
  <2>1. /\ 0 \in 0..Len(Writes) /\ 0 \in 0..Len(Reads) /\ <<>> \in Seq(Messages)
    BY MessagesInOrder
  <2> QED BY <2>1 DEF PipeTypeOK
<1>2. received \o arrived \o transit = <<>> /\ Len(received) = 0
  OBVIOUS
<1>3. SentCount = 0 /\ MessagesAmong(reads) = 0
  BY MessagesInOrder DEF SentCount
<1>4. First(0) = <<>>
  BY FirstFacts
<1> QED BY <1>1, <1>2, <1>3, <1>4 DEF PipeInv

\* The producer adds the next message, or nothing, to what is sent.
LEMMA ProducerKeeps == PipeInv /\ Producer => PipeInv'
<1> SUFFICES ASSUME PipeInv, Producer  PROVE PipeInv'
  OBVIOUS
<1>0. /\ transit \in Seq(Messages) /\ arrived \in Seq(Messages) /\ received \in Seq(Messages)
      /\ written \in 0..9 /\ closed \in BOOLEAN /\ Len(Writes) = 9
      /\ SentCount \in 0..7
  BY MessagesInOrder DEF PipeInv, PipeTypeOK, SentCount
<1> DEFINE before == received \o arrived
<1>1. before \in Seq(Messages)
  BY <1>0, ConcatProperties
<1>b. before = received \o arrived
  OBVIOUS
<1> HIDE DEF before
\* A message that follows those sent.
<1>2. ASSUME NEW e \in Messages, transit' = Append(transit, e),
             UNCHANGED <<received, arrived>>, SentCount < 7,
             SentCount' = SentCount + 1, e = AllMessages[SentCount + 1]
      PROVE  /\ transit' \in Seq(Messages)
             /\ (received \o arrived \o transit)' = First(SentCount')
  <2>1. before \o Append(transit, e) = Append(before \o transit, e)
    BY <1>0, <1>1, AppendOnce
  <2>2. First(SentCount + 1) = Append(First(SentCount), e)
    <3>1. SentCount \in 0..6
      BY <1>0, <1>2
    <3> QED BY <1>2, <3>1, FirstAppend
  <2>3. before \o transit = First(SentCount)
    BY <1>b DEF PipeInv
  <2>4. transit' \in Seq(Messages)
    BY <1>0, <1>2, AppendProperties
  <2> QED BY <1>2, <1>b, <2>1, <2>2, <2>3, <2>4
<1>3. CASE WriteMessage
  <2>0. written + 1 \in 1..9 /\ written' = written + 1 /\ ~closed
    BY <1>0, <1>3 DEF WriteMessage, PipeInv
  <2>1. /\ MessagesAmong(written + 1) = MessagesAmong(written) + 1
        /\ Writes[written + 1] = AllMessages[MessagesAmong(written + 1)]
        /\ MessagesAmong(written) \in 0..6 /\ MessagesAmong(written + 1) \in 0..6
    <3>1. (written + 1) - 1 = written
      BY <1>0
    <3> QED BY <1>0, <1>3, <2>0, <3>1, MessagesInOrder DEF WriteMessage
  <2>2. /\ SentCount = MessagesAmong(written) /\ SentCount' = MessagesAmong(written + 1)
    BY <1>3, <2>0 DEF WriteMessage, SentCount
  <2>3. /\ transit' \in Seq(Messages)
        /\ (received \o arrived \o transit)' = First(SentCount')
    <3>1. /\ Writes[written + 1] \in Messages /\ UNCHANGED <<received, arrived>>
          /\ transit' = Append(transit, Writes[written + 1])
      BY <1>3 DEF WriteMessage, consumerVars
    <3>2. /\ SentCount < 7 /\ SentCount' = SentCount + 1
          /\ Writes[written + 1] = AllMessages[SentCount + 1]
      BY <2>1, <2>2
    <3> HIDE DEF SentCount
    <3> QED BY <1>2, <3>1, <3>2
  <2>4. PipeTypeOK'
    BY <1>0, <1>3, <2>0, <2>3 DEF WriteMessage, consumerVars, PipeInv, PipeTypeOK
  <2> QED BY <1>3, <2>0, <2>3, <2>4 DEF WriteMessage, consumerVars, PipeInv
<1>4. ASSUME written < Len(Writes), Writes[written + 1] \notin Messages,
             written' = written + 1, UNCHANGED <<closed, transit, arrived, received>>
      PROVE  /\ written' \in 0..9 /\ ~closed
             /\ (received \o arrived \o transit)' = First(SentCount')
  <2>0. written + 1 \in 1..9 /\ ~closed /\ (written + 1) - 1 = written
    BY <1>0, <1>4 DEF PipeInv
  <2>1. MessagesAmong(written + 1) = MessagesAmong(written)
    BY <1>4, <2>0, MessagesInOrder
  <2>2. SentCount' = SentCount
    BY <1>4, <2>0, <2>1 DEF SentCount
  <2> QED BY <1>4, <2>0, <2>2 DEF PipeInv
<1>5. CASE WriteContents
  <2>1. Writes[written + 1] \notin Messages
    BY <1>5 DEF WriteContents, Contents, Messages
  <2>2. /\ written' \in 0..9 /\ ~closed
        /\ (received \o arrived \o transit)' = First(SentCount')
    BY <1>4, <1>5, <2>1 DEF WriteContents, consumerVars
  <2>3. PipeTypeOK'
    BY <1>0, <1>5, <2>2 DEF WriteContents, consumerVars, PipeInv, PipeTypeOK
  <2> QED BY <1>5, <2>2, <2>3 DEF WriteContents, consumerVars, PipeInv
<1>6. CASE FillBuffer
  <2>1. Writes[written + 1] \notin Messages /\ "buffer" \in Contents
    BY <1>6 DEF FillBuffer, Contents, Messages
  <2>2. /\ written' \in 0..9 /\ ~closed
        /\ (received \o arrived \o transit)' = First(SentCount')
    BY <1>4, <1>6, <2>1 DEF FillBuffer, consumerVars
  <2>3. PipeTypeOK'
    BY <1>0, <1>6, <2>1, <2>2 DEF FillBuffer, consumerVars, PipeInv, PipeTypeOK
  <2> QED BY <1>6, <2>2, <2>3 DEF FillBuffer, consumerVars, PipeInv
<1>7. CASE WriteDelayed
  <2>1. /\ written = 9 /\ SentCount = 6 /\ SentCount' = 7
        /\ AllMessages[7] = "SimplerWatcher2" /\ "SimplerWatcher2" \in Messages
    BY <1>0, <1>7, MessagesInOrder DEF WriteDelayed, SentCount, Messages
  <2>2. /\ transit' \in Seq(Messages)
        /\ (received \o arrived \o transit)' = First(SentCount')
    BY <1>2, <1>7, <2>1 DEF WriteDelayed, consumerVars
  <2>3. PipeTypeOK'
    BY <1>0, <1>7, <2>2 DEF WriteDelayed, consumerVars, PipeInv, PipeTypeOK
  <2> QED BY <1>7, <2>1, <2>2, <2>3 DEF WriteDelayed, consumerVars, PipeInv
<1> QED BY <1>3, <1>5, <1>6, <1>7 DEF Producer

\* Moving a message from one queue to the next.
LEMMA TransportKeeps == PipeInv /\ (DeliverMessage \/ DeliverContents \/ Notify) => PipeInv'
<1> SUFFICES ASSUME PipeInv, DeliverMessage \/ DeliverContents \/ Notify  PROVE PipeInv'
  OBVIOUS
<1>0. transit \in Seq(Messages) /\ arrived \in Seq(Messages) /\ received \in Seq(Messages)
  BY DEF PipeInv, PipeTypeOK
<1>1. CASE DeliverMessage
  <2>1. /\ transit # <<>> /\ arrived' = Append(arrived, Head(transit))
        /\ transit' = Tail(transit)
        /\ UNCHANGED <<written, closed, underway, contents, pc, reads, received, watcher>>
    BY <1>1 DEF DeliverMessage, producerVars, consumerVars
  <2>2. Head(transit) \in Messages /\ Tail(transit) \in Seq(Messages)
    BY <1>0, <2>1, HeadTailProperties
  <2>3. Append(arrived, Head(transit)) \in Seq(Messages)
    BY <1>0, <2>2, AppendProperties
  <2>4. received \o Append(arrived, Head(transit)) = Append(received \o arrived, Head(transit))
    BY <1>0, <2>2, AppendOnce
  <2>5. received \o arrived \in Seq(Messages)
    BY <1>0, ConcatProperties
  <2>6. Append(received \o arrived, Head(transit)) \o Tail(transit) = received \o arrived \o transit
    BY <1>0, <2>1, <2>5, MoveHead
  <2>7. PipeTypeOK'
    BY <2>1, <2>2, <2>3 DEF PipeInv, PipeTypeOK
  <2>8. SentCount' = SentCount
    BY <2>1 DEF SentCount
  <2> QED BY <2>1, <2>4, <2>6, <2>7, <2>8 DEF PipeInv
<1>2. CASE DeliverContents
  <2>1. /\ UNCHANGED <<written, closed, transit, arrived, pc, reads, received, watcher>>
        /\ PipeTypeOK'
    BY <1>2 DEF DeliverContents, producerVars, consumerVars, PipeInv, PipeTypeOK
  <2> QED BY <2>1 DEF PipeInv, SentCount
<1>3. CASE Notify
  <2>1. /\ UNCHANGED <<written, closed, transit, arrived, reads, received>>
        /\ watcher' # "none" /\ PipeTypeOK'
    BY <1>3 DEF Notify, producerVars, PipeInv, PipeTypeOK
  <2> QED BY <2>1 DEF PipeInv, SentCount
<1> QED BY <1>1, <1>2, <1>3

\* The consumer reads, or its watcher does.
LEMMA ConsumerKeeps == PipeInv /\ Consumer => PipeInv'
<1> SUFFICES ASSUME PipeInv, Consumer  PROVE PipeInv'
  OBVIOUS
<1>0. /\ transit \in Seq(Messages) /\ arrived \in Seq(Messages) /\ received \in Seq(Messages)
      /\ reads \in 0..8 /\ Len(Reads) = 8
  BY MessagesInOrder DEF PipeInv, PipeTypeOK
\* Reading the first message.
<1>1. ASSUME arrived # <<>>, received' = Append(received, Head(arrived)),
             arrived' = Tail(arrived), UNCHANGED <<written, closed, transit>>
      PROVE  /\ received' \in Seq(Messages) /\ arrived' \in Seq(Messages)
             /\ Len(received') = Len(received) + 1
             /\ (received \o arrived \o transit)' = First(SentCount')
  <2>1. Head(arrived) \in Messages /\ Tail(arrived) \in Seq(Messages)
    BY <1>0, <1>1, HeadTailProperties
  <2>2. received' \in Seq(Messages) /\ Len(received') = Len(received) + 1
    BY <1>0, <1>1, <2>1, AppendProperties
  <2>3. received' \o arrived' = received \o arrived
    BY <1>0, <1>1, MoveHead
  <2>4. SentCount' = SentCount
    BY <1>1 DEF SentCount
  <2> QED BY <1>1, <2>1, <2>2, <2>3, <2>4 DEF PipeInv
<1>2. CASE CheckReadable \/ Wait \/ Sleep \/ ReadFails
  <2>1. UNCHANGED <<written, closed, transit, underway, arrived, contents, reads, received, watcher>>
    BY <1>2 DEF CheckReadable, Wait, Sleep, ReadFails, producerVars
  <2>2. pc # "run" /\ pc' # "run" /\ pc' \in {"check", "wait", "sleep", "read", "run", "failed"}
    BY <1>2 DEF CheckReadable, Wait, Sleep, ReadFails
  <2>3. PipeTypeOK'
    BY <2>1, <2>2 DEF PipeInv, PipeTypeOK
  <2> QED BY <2>1, <2>3 DEF PipeInv, SentCount
<1>3. CASE ReadMessage
  <2>1. /\ reads + 1 \in 1..8 /\ (reads + 1) - 1 = reads /\ reads' = reads + 1
        /\ reads' \in 0..8
        /\ UNCHANGED <<written, closed, transit, underway, contents, pc, watcher>>
    BY <1>0, <1>3 DEF ReadMessage, producerVars
  <2>2. /\ received' \in Seq(Messages) /\ arrived' \in Seq(Messages)
        /\ Len(received') = Len(received) + 1
        /\ (received \o arrived \o transit)' = First(SentCount')
    BY <1>1, <1>3, <2>1 DEF ReadMessage
  <2>3. MessagesAmong(reads + 1) = MessagesAmong(reads) + 1
    <3>1. reads + 1 \in 1..9 /\ Writes[reads + 1] \in Messages
      BY <1>3, <2>1, MessagesInOrder DEF ReadMessage
    <3> QED BY <2>1, <3>1, MessagesInOrder
  <2>4. PipeTypeOK'
    BY <1>0, <2>1, <2>2 DEF PipeInv, PipeTypeOK
  <2> QED BY <2>1, <2>2, <2>3, <2>4 DEF PipeInv
<1>4. CASE ReadContents
  <2>1. /\ reads + 1 \in 1..8 /\ (reads + 1) - 1 = reads /\ reads' = reads + 1
        /\ reads' \in 0..8 /\ Reads[reads + 1] \in contents \cup {"buffer"}
        /\ UNCHANGED <<written, closed, transit, underway, arrived, contents, pc, received, watcher>>
    BY <1>0, <1>4 DEF ReadContents, producerVars
  <2>2. MessagesAmong(reads + 1) = MessagesAmong(reads)
    <3>1. reads + 1 \in 1..9 /\ Writes[reads + 1] \notin Messages
      <4>1. Reads[reads + 1] \in Contents
        BY <2>1 DEF PipeInv, PipeTypeOK, Contents
      <4> QED BY <2>1, <4>1, MessagesInOrder DEF Contents, Messages
    <3> QED BY <2>1, <3>1, MessagesInOrder
  <2>3. PipeTypeOK'
    BY <1>0, <2>1 DEF PipeInv, PipeTypeOK
  <2> QED BY <2>1, <2>2, <2>3 DEF PipeInv, SentCount
<1>5. CASE MakeReader \/ OnReadableEnd
  <2>1. /\ UNCHANGED <<written, closed, transit, underway, arrived, contents, reads, received>>
        /\ watcher' \in {"armed", "closed"} /\ pc' = "run"
    BY <1>5 DEF MakeReader, OnReadableEnd, producerVars
  <2>2. PipeTypeOK'
    BY <2>1 DEF PipeInv, PipeTypeOK
  <2> QED BY <2>1, <2>2 DEF PipeInv, SentCount
<1>6. CASE OnReadable
  <2>1. /\ UNCHANGED <<written, closed, transit, underway, contents, pc, reads, watcher>>
        /\ watcher = "notified"
    BY <1>6 DEF OnReadable, producerVars
  <2>2. /\ received' \in Seq(Messages) /\ arrived' \in Seq(Messages)
        /\ (received \o arrived \o transit)' = First(SentCount')
    BY <1>1, <1>6, <2>1 DEF OnReadable
  <2>3. PipeTypeOK'
    BY <2>1, <2>2 DEF PipeInv, PipeTypeOK
  <2> QED BY <2>1, <2>2, <2>3 DEF PipeInv
<1> QED BY <1>2, <1>3, <1>4, <1>5, <1>6 DEF Consumer

\* What has been received, has arrived or is under way is what was sent.
THEOREM PipeInvariance == PipeSpec => []PipeInv
<1>1. PipeInv /\ UNCHANGED pipeVars => PipeInv'
  BY DEF PipeInv, PipeTypeOK, SentCount, pipeVars, producerVars, consumerVars
<1> QED BY <1>1, PipeStarts, ProducerKeeps, TransportKeeps, ConsumerKeeps, PTL
        DEF PipeSpec, PipeNext

\* No message is lost, doubled or overtaken between the producer's writes and the
\* consumer's reads, whenever the producer closes its end.
THEOREM NoMessageIsLost == PipeSpec => []NothingLost
<1>1. PipeInv => NothingLost
  BY SentMessagesAre DEF PipeInv, NothingLost
<1> QED BY <1>1, PipeInvariance, PTL

\* Each read of a message finds the message that was written for it.
THEOREM EveryReadMatches == PipeSpec => []ReadsMatchWrites
<1>1. PipeInv => ReadsMatchWrites
  <2> SUFFICES ASSUME PipeInv, pc = "read", arrived # <<>>, reads < Len(Reads),
                      Reads[reads + 1] \in Messages
               PROVE  Head(arrived) = Reads[reads + 1]
    BY DEF ReadsMatchWrites
  <2>0. /\ transit \in Seq(Messages) /\ arrived \in Seq(Messages)
        /\ received \in Seq(Messages) /\ reads \in 0..8 /\ Len(Reads) = 8
        /\ Len(received) = MessagesAmong(reads) /\ SentCount \in 0..7
    <3>1. /\ PipeTypeOK /\ written \in 0..9 /\ reads \in 0..8 /\ Len(Reads) = 8
          /\ watcher = "none"
      BY MessagesInOrder DEF PipeInv, PipeTypeOK
    <3>2. transit \in Seq(Messages) /\ arrived \in Seq(Messages) /\ received \in Seq(Messages)
      BY <3>1 DEF PipeTypeOK
    <3>3. Len(received) = MessagesAmong(reads)
      BY <3>1 DEF PipeInv
    <3>4. MessagesAmong(written) \in 0..7
      <4>1. MessagesAmong(written) \in 0..6
        BY <3>1, MessagesInOrder
      <4> QED BY <4>1
    <3>5. SentCount \in 0..7
      BY <3>4 DEF SentCount
    <3> QED BY <3>1, <3>2, <3>3, <3>5
  <2> DEFINE k == Len(received) + 1
             sent == received \o arrived \o transit
             read == received \o arrived
  <2>1. /\ Len(arrived) >= 1 /\ Head(arrived) = arrived[1]
        /\ Len(received) \in Nat /\ Len(arrived) \in Nat /\ Len(transit) \in Nat
    BY <2>0
  <2>2. read \in Seq(Messages) /\ Len(read) = Len(received) + Len(arrived) /\ read[k] = arrived[1]
    <3>1. k \in 1..Len(received) + Len(arrived) /\ ~(k <= Len(received)) /\ k - Len(received) = 1
      BY <2>1
    <3>2. /\ received \o arrived \in Seq(Messages)
          /\ Len(received \o arrived) = Len(received) + Len(arrived)
          /\ \A i \in 1..Len(received) + Len(arrived) :
               (received \o arrived)[i] =
                 IF i <= Len(received) THEN received[i] ELSE arrived[i - Len(received)]
      BY <2>0, ConcatProperties
    <3> QED BY <3>1, <3>2
  <2>3. /\ Len(sent) = Len(read) + Len(transit) /\ k \in 1..Len(sent) /\ sent[k] = read[k]
    <3> HIDE DEF read
    <3>1. /\ sent = read \o transit /\ k \in 1..Len(read) + Len(transit) /\ k <= Len(read)
      BY <2>1, <2>2 DEF read
    <3> QED BY <2>0, <2>2, <3>1, ConcatProperties
  <2>4. sent = First(SentCount)
    BY DEF PipeInv
  <2>5. sent[k] = AllMessages[k]
    <3> HIDE DEF sent
    <3> QED BY <2>0, <2>3, <2>4, FirstFacts
  <2>6. Reads[reads + 1] = AllMessages[k]
    <3>1. /\ reads + 1 \in 1..8 /\ reads + 1 \in 1..9 /\ (reads + 1) - 1 = reads
      BY <2>0
    <3>2. /\ Reads[reads + 1] = Writes[reads + 1]
          /\ MessagesAmong(reads + 1) = MessagesAmong(reads) + 1
          /\ Writes[reads + 1] = AllMessages[MessagesAmong(reads + 1)]
      BY <3>1, MessagesInOrder
    <3> QED BY <2>0, <3>2
  <2> QED BY <2>1, <2>2, <2>3, <2>5, <2>6
<1> QED BY <1>1, PipeInvariance, PTL
================================================================================
