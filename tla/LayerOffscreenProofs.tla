------------------------- MODULE LayerOffscreenProofs -------------------------
(***************************************************************************)
(* demo_viz_layer_offscreen draws what viz has drawn only after the        *)
(* globals are set: IndInv is an inductive invariant of Spec, for any      *)
(* FramePeriod and any number of BeginFrames and of events.  It counts the *)
(* frames that are on their way from the display to the window, and keeps  *)
(* the resources of the followed client apart.                             *)
(***************************************************************************)
EXTENDS LayerOffscreen, FrameSinkProofs, FiniteSetTheorems, SequenceTheorems

-----------------------------------------------------------------------------
(***************************************************************************)
(* The inductive invariant.                                                *)
(***************************************************************************)
\* How often a task waits in a queue.
Count(q, task) == Cardinality({i \in 1..Len(q) : q[i] = task})

\* The start-up, TypeOK without the queues and the frames.
StartTyped ==
  /\ posted \in 0..5
  /\ server_channel_ \in BOOLEAN /\ client_channel_ \in BOOLEAN /\ viz_main_ \in BOOLEAN
  /\ gpu_service \in BOOLEAN /\ g_gpu_task_runner \in BOOLEAN /\ manager \in BOOLEAN
  /\ request \in {"none", "sent", "delivered", "bound"}
  /\ establish \in {"none", "asked", "answered"}
  /\ gpu_channel_host_ \in {"unset", "null", "made"}

\* The client.
ClientTyped ==
  /\ role \in {"root", "ink"} /\ g_use_gpu \in BOOLEAN
  /\ vsyncs \in 0..MaxVsyncs /\ events \in 0..MaxEvents
  /\ bound \in BOOLEAN /\ context_provider \in BOOLEAN /\ need_redraw \in BOOLEAN
  /\ frame_token \in 0..FramePeriod - 1 /\ points \in Nat
  /\ role = "root" => points = 0 /\ ~need_redraw
  /\ role = "ink" => frame_token = 0

\* Nobody asks the root to draw.
RootDrawsNothing ==
  role = "root" => \A i \in 1..Len(queue) : queue[i].op # "Draw"

\* In the queue of the GPU main thread the globals are set before the manager is
\* made, and nothing is drawn before they are.
GlobalsFirst(q, g) ==
  \A k \in 1..Len(q) :
    /\ q[k] = "CreateFrameSinkManager" =>
         g \/ \E j \in 1..k - 1 : q[j] = "CreateGpuService"
    /\ q[k] = "Redraw" => g

ToldAfter(q, g) == \A k \in 1..Len(q) : q[k] = "OnFrameTokenChanged" => g

\* The queues ts, if g says that the globals are set: a frame activated has been
\* drawn, one of r, or waits to be, in one of two queues.
Draws(ts, g, a, r) ==
  /\ ts = [t \in Threads |-> ts[t]]
  /\ \A t \in Threads : ts[t] \in Seq(TaskNames[t])
  /\ GlobalsFirst(ts["gpu_main"], g)
  /\ ToldAfter(ts["main"], g)
  /\ a \in Nat /\ r \in Nat
  /\ a = r + Count(ts["main"], "OnFrameTokenChanged") + Count(ts["gpu_main"], "Redraw")

IndInv ==
  /\ SinkInv
  /\ StartTyped /\ ClientTyped
  /\ RootDrawsNothing
  /\ manager => g_gpu_task_runner
  /\ Draws(tasks, g_gpu_task_runner, activated, redraws)

-----------------------------------------------------------------------------
(***************************************************************************)
(* Queues of tasks.                                                        *)
(***************************************************************************)
\* The places of a task in a queue are finitely many.
LEMMA CountFinite ==
  ASSUME NEW S, NEW q \in Seq(S), NEW task
  PROVE  /\ IsFiniteSet({i \in 1..Len(q) : q[i] = task})
         /\ Count(q, task) \in Nat
<1>1. Len(q) \in Int /\ 1 \in Int
  OBVIOUS
<1>2. IsFiniteSet(1..Len(q))
  BY <1>1, FS_Interval
<1>3. {i \in 1..Len(q) : q[i] = task} \in SUBSET (1..Len(q))
  OBVIOUS
<1>4. IsFiniteSet({i \in 1..Len(q) : q[i] = task})
  BY <1>2, <1>3, FS_Subset
<1> QED BY <1>4, FS_CardinalityType DEF Count

\* One task more.
LEMMA CountAppend ==
  ASSUME NEW S, NEW q \in Seq(S), NEW e \in S, NEW task
  PROVE  Count(Append(q, e), task) = Count(q, task) + (IF e = task THEN 1 ELSE 0)
<1> DEFINE a == Append(q, e)
           n == Len(q) + 1
           A == {i \in 1..Len(q) : q[i] = task}
           B == {i \in 1..Len(a) : a[i] = task}
<1>1. /\ Len(a) = n /\ Len(q) \in Nat /\ a[n] = e /\ \A i \in 1..Len(q) : a[i] = q[i]
  BY AppendElements
<1>2. n \notin A /\ IsFiniteSet(A) /\ Cardinality(A) \in Nat
  <2>1. n \notin 1..Len(q)
    BY <1>1
  <2>2. IsFiniteSet(A) /\ Cardinality(A) \in Nat
    BY CountFinite DEF Count
  <2> QED BY <2>1, <2>2
<1> HIDE DEF a
<1>3. B = IF e = task THEN A \cup {n} ELSE A
  <2>1. \A i : i \in 1..n <=> i \in 1..Len(q) \/ i = n
    BY <1>1
  <2> QED BY <1>1, <2>1
<1> HIDE DEF A, B, n
<1>4. Cardinality(B) = Cardinality(A) + (IF e = task THEN 1 ELSE 0)
  <2>1. CASE e = task
    <3>1. B = A \cup {n}
      BY <1>3, <2>1
    <3>2. Cardinality(A \cup {n}) = Cardinality(A) + 1
      BY <1>2, FS_AddElement
    <3> QED BY <2>1, <3>1, <3>2
  <2>2. CASE e # task
    BY <1>2, <1>3, <2>2
  <2> QED BY <2>1, <2>2
<1> QED BY <1>4 DEF Count, A, B, a

\* The first task is taken: the places of the others move up by one.
LEMMA CountTail ==
  ASSUME NEW S, NEW q \in Seq(S), q # <<>>, NEW task
  PROVE  Count(q, task) = Count(Tail(q), task) + (IF Head(q) = task THEN 1 ELSE 0)
<1> DEFINE t == Tail(q)
           A == {i \in 1..Len(q) : q[i] = task}
           B == {i \in 1..Len(t) : t[i] = task}
           f == [i \in B |-> i + 1]
<1>1. /\ t \in Seq(S) /\ Len(t) = Len(q) - 1 /\ Len(q) \in Nat \ {0} /\ Head(q) = q[1]
      /\ \A i \in 1..Len(t) : t[i] = q[i + 1]
  BY TailElements
<1> HIDE DEF t
<1>2. IsFiniteSet(A) /\ IsFiniteSet(B)
  BY <1>1, CountFinite
<1>3. f \in Bijection(B, A \ {1})
  <2>1. \A i \in B : i + 1 \in A \ {1}
    BY <1>1
  <2>2. \A j \in A \ {1} : j - 1 \in B /\ (j - 1) + 1 = j
    BY <1>1
  <2>3. \A i, j \in B : i + 1 = j + 1 => i = j
    OBVIOUS
  <2>4. f \in [B -> A \ {1}]
    BY <2>1
  <2>5. \A i, j \in B : f[i] = f[j] => i = j
    BY <2>3
  <2>6. \A j \in A \ {1} : \E i \in B : f[i] = j
    BY <2>2
  <2> HIDE DEF A, B, f
  <2> QED BY <2>4, <2>5, <2>6 DEF Bijection, Injection, IsInjective, Surjection
<1>4. 1 \in A <=> Head(q) = task
  BY <1>1
<1> HIDE DEF A, B, f
<1>5. Cardinality(B) = Cardinality(A \ {1})
  BY <1>2, <1>3, FS_Bijection DEF ExistsBijection
<1>6. /\ Cardinality(A) \in Nat /\ Cardinality(B) \in Nat
      /\ Cardinality(B) = IF 1 \in A THEN Cardinality(A) - 1 ELSE Cardinality(A)
  BY <1>2, <1>5, FS_RemoveElement, FS_CardinalityType
<1>7. Cardinality(A) = Cardinality(B) + (IF Head(q) = task THEN 1 ELSE 0)
  BY <1>4, <1>6
<1> QED BY <1>7 DEF Count, A, B, t

\* The threads and their tasks.
LEMMA ThreadsAre ==
  /\ "main" \in Threads /\ "host_io" \in Threads /\ "gpu_main" \in Threads
  /\ \A t \in Threads : t = "main" \/ t = "host_io" \/ t = "gpu_main"
  /\ TaskNames["main"] = {"OnEstablishedOnMain", "OnFrameTokenChanged"}
  /\ TaskNames["host_io"] = {"InitIPCServer", "InitVizHost", "OnEstablishedOnIO"}
  /\ TaskNames["gpu_main"] =
       {"InitIPCClient", "InitVizMain", "OnAssociatedInterfaceRequest",
        "CreateGpuService", "CreateFrameSinkManager", "Redraw"}
BY DEF Threads, TaskNames

\* A task is posted.
LEMMA PostDraws ==
  ASSUME NEW ts, NEW g \in BOOLEAN, NEW a, NEW r, Draws(ts, g, a, r),
         NEW t \in Threads, NEW e \in TaskNames[t],
         e \in {"Redraw", "OnFrameTokenChanged"} => g,
         e = "CreateFrameSinkManager" =>
           g \/ \E j \in 1..Len(ts[t]) : ts[t][j] = "CreateGpuService"
  PROVE  Draws([ts EXCEPT ![t] = Append(@, e)], g,
               IF e \in {"Redraw", "OnFrameTokenChanged"} THEN a + 1 ELSE a, r)
<1> DEFINE new == [ts EXCEPT ![t] = Append(@, e)]
           q == ts[t]
           n == IF e \in {"Redraw", "OnFrameTokenChanged"} THEN a + 1 ELSE a
<1>1. /\ ts = [u \in Threads |-> ts[u]] /\ \A u \in Threads : ts[u] \in Seq(TaskNames[u])
      /\ GlobalsFirst(ts["gpu_main"], g) /\ ToldAfter(ts["main"], g)
      /\ a \in Nat /\ r \in Nat
      /\ a = r + Count(ts["main"], "OnFrameTokenChanged") + Count(ts["gpu_main"], "Redraw")
  BY DEF Draws
<1>2. /\ new = [u \in Threads |-> new[u]] /\ new[t] = Append(q, e)
      /\ \A u \in Threads : u # t => new[u] = ts[u]
  BY <1>1
<1>3. /\ q \in Seq(TaskNames[t]) /\ Append(q, e) \in Seq(TaskNames[t])
      /\ Len(q) \in Nat /\ Len(Append(q, e)) = Len(q) + 1 /\ Append(q, e)[Len(q) + 1] = e
      /\ \A i \in 1..Len(q) : Append(q, e)[i] = q[i]
  <2>1. q \in Seq(TaskNames[t])
    BY <1>1
  <2> HIDE DEF q
  <2> QED BY <2>1, AppendElements
<1>q. q = ts[t]
  OBVIOUS
<1> HIDE DEF new, q, n
<1>4. \A u \in Threads : new[u] \in Seq(TaskNames[u])
  BY <1>1, <1>2, <1>3
<1>5. GlobalsFirst(new["gpu_main"], g)
  <2>1. CASE t = "gpu_main"
    <3> SUFFICES ASSUME NEW k \in 1..Len(q) + 1
                 PROVE  /\ Append(q, e)[k] = "CreateFrameSinkManager" =>
                             g \/ \E j \in 1..k - 1 : Append(q, e)[j] = "CreateGpuService"
                        /\ Append(q, e)[k] = "Redraw" => g
      BY <1>2, <1>3, <2>1 DEF GlobalsFirst
    <3>1. CASE k \in 1..Len(q)
      <4>1. \A j \in 1..k - 1 : j \in 1..Len(q)
        BY <1>3, <3>1
      <4>2. /\ q[k] = "CreateFrameSinkManager" =>
                 g \/ \E j \in 1..k - 1 : q[j] = "CreateGpuService"
            /\ q[k] = "Redraw" => g
        BY <1>1, <1>q, <2>1, <3>1 DEF GlobalsFirst
      <4> QED BY <1>3, <3>1, <4>1, <4>2
    <3>2. CASE k = Len(q) + 1
      <4>1. \A j \in 1..Len(q) : j \in 1..k - 1
        BY <1>3, <3>2
      <4> QED BY <1>3, <1>q, <3>2, <4>1
    <3> QED BY <1>3, <3>1, <3>2
  <2>2. CASE t # "gpu_main"
    BY <1>1, <1>2, <2>2, ThreadsAre
  <2> QED BY <2>1, <2>2
<1>6. ToldAfter(new["main"], g)
  <2>1. CASE t = "main"
    <3> SUFFICES ASSUME NEW k \in 1..Len(q) + 1, Append(q, e)[k] = "OnFrameTokenChanged"
                 PROVE  g
      BY <1>2, <1>3, <2>1 DEF ToldAfter
    <3>1. CASE k \in 1..Len(q)
      BY <1>1, <1>3, <1>q, <2>1, <3>1 DEF ToldAfter
    <3>2. CASE k = Len(q) + 1
      BY <1>3, <3>2
    <3> QED BY <1>3, <3>1, <3>2
  <2>2. CASE t # "main"
    BY <1>1, <1>2, <2>2, ThreadsAre
  <2> QED BY <2>1, <2>2
<1>7. n \in Nat
        /\ n = r + Count(new["main"], "OnFrameTokenChanged") + Count(new["gpu_main"], "Redraw")
  <2>1. /\ Count(ts["main"], "OnFrameTokenChanged") \in Nat
        /\ Count(ts["gpu_main"], "Redraw") \in Nat
    BY <1>1, CountFinite, ThreadsAre
  <2>2. \A task : Count(Append(q, e), task) = Count(q, task) + (IF e = task THEN 1 ELSE 0)
    BY <1>3, CountAppend
  <2>3. CASE t = "main"
    <3>1. e # "Redraw"
      BY <2>3, ThreadsAre
    <3>2. new["gpu_main"] = ts["gpu_main"] /\ new["main"] = Append(q, e)
      BY <1>2, <2>3, ThreadsAre
    <3>3. Count(new["main"], "OnFrameTokenChanged") =
            Count(ts["main"], "OnFrameTokenChanged")
              + (IF e = "OnFrameTokenChanged" THEN 1 ELSE 0)
      BY <1>q, <2>2, <2>3, <3>2
    <3> QED BY <1>1, <2>1, <3>1, <3>2, <3>3 DEF n
  <2>4. CASE t = "gpu_main"
    <3>1. e # "OnFrameTokenChanged"
      BY <2>4, ThreadsAre
    <3>2. new["main"] = ts["main"] /\ new["gpu_main"] = Append(q, e)
      BY <1>2, <2>4, ThreadsAre
    <3>3. Count(new["gpu_main"], "Redraw") =
            Count(ts["gpu_main"], "Redraw") + (IF e = "Redraw" THEN 1 ELSE 0)
      BY <1>q, <2>2, <2>4, <3>2
    <3> QED BY <1>1, <2>1, <3>1, <3>2, <3>3 DEF n
  <2>5. CASE t = "host_io"
    <3>1. e \notin {"Redraw", "OnFrameTokenChanged"}
      BY <2>5, ThreadsAre
    <3>2. new["main"] = ts["main"] /\ new["gpu_main"] = ts["gpu_main"]
      BY <1>2, <2>5, ThreadsAre
    <3> QED BY <1>1, <3>1, <3>2 DEF n
  <2> QED BY <2>3, <2>4, <2>5, ThreadsAre
<1>8. Draws(new, g, n, r)
  BY <1>1, <1>2, <1>4, <1>5, <1>6, <1>7 DEF Draws
<1> QED BY <1>8 DEF new, n

\* A task is taken from a queue; h says that the globals are set afterwards.
LEMMA RunDraws ==
  ASSUME NEW ts, NEW g \in BOOLEAN, NEW a, NEW r, Draws(ts, g, a, r),
         NEW t \in Threads, ts[t] # <<>>, NEW h \in BOOLEAN, g => h,
         Head(ts[t]) = "CreateGpuService" => h
  PROVE  Draws([ts EXCEPT ![t] = Tail(@)], h,
               IF Head(ts[t]) = "OnFrameTokenChanged" THEN a - 1 ELSE a,
               IF Head(ts[t]) = "Redraw" THEN r + 1 ELSE r)
<1> DEFINE new == [ts EXCEPT ![t] = Tail(@)]
           q == ts[t]
           e == Head(q)
           n == IF e = "OnFrameTokenChanged" THEN a - 1 ELSE a
           m == IF e = "Redraw" THEN r + 1 ELSE r
<1>1. /\ ts = [u \in Threads |-> ts[u]] /\ \A u \in Threads : ts[u] \in Seq(TaskNames[u])
      /\ GlobalsFirst(ts["gpu_main"], g) /\ ToldAfter(ts["main"], g)
      /\ a \in Nat /\ r \in Nat
      /\ a = r + Count(ts["main"], "OnFrameTokenChanged") + Count(ts["gpu_main"], "Redraw")
  BY DEF Draws
<1>2. /\ new = [u \in Threads |-> new[u]] /\ new[t] = Tail(q)
      /\ \A u \in Threads : u # t => new[u] = ts[u]
  BY <1>1
<1>3. /\ q \in Seq(TaskNames[t]) /\ Tail(q) \in Seq(TaskNames[t])
      /\ Len(q) \in Nat \ {0} /\ Len(Tail(q)) = Len(q) - 1
      /\ e = q[1] /\ e \in TaskNames[t]
      /\ \A i \in 1..Len(Tail(q)) : Tail(q)[i] = q[i + 1]
  <2>1. q \in Seq(TaskNames[t]) /\ q # <<>>
    BY <1>1
  <2> HIDE DEF q
  <2> QED BY <2>1, TailElements
<1>q. q = ts[t] /\ q # <<>>
  OBVIOUS
<1>e. (e = "CreateGpuService" => h) /\ e = Head(q)
  OBVIOUS
<1> HIDE DEF new, q, n, m, e
<1>4. \A u \in Threads : new[u] \in Seq(TaskNames[u])
  BY <1>1, <1>2, <1>3
<1>5. GlobalsFirst(new["gpu_main"], h)
  <2>1. CASE t = "gpu_main"
    <3> SUFFICES ASSUME NEW k \in 1..Len(Tail(q))
                 PROVE  /\ Tail(q)[k] = "CreateFrameSinkManager" =>
                             h \/ \E j \in 1..k - 1 : Tail(q)[j] = "CreateGpuService"
                        /\ Tail(q)[k] = "Redraw" => h
      BY <1>2, <2>1 DEF GlobalsFirst
    <3>1. k + 1 \in 1..Len(q) /\ Tail(q)[k] = q[k + 1]
      BY <1>3
    <3>2. /\ q[k + 1] = "CreateFrameSinkManager" =>
               g \/ \E j \in 1..(k + 1) - 1 : q[j] = "CreateGpuService"
          /\ q[k + 1] = "Redraw" => g
      BY <1>1, <1>q, <2>1, <3>1 DEF GlobalsFirst
    <3>3. ASSUME NEW j \in 1..(k + 1) - 1, q[j] = "CreateGpuService", ~h
          PROVE  \E i \in 1..k - 1 : Tail(q)[i] = "CreateGpuService"
      <4>1. j # 1
        BY <1>3, <1>e, <3>3
      <4>2. j - 1 \in 1..k - 1 /\ j - 1 \in 1..Len(Tail(q)) /\ (j - 1) + 1 = j
        BY <1>3, <4>1
      <4> QED BY <1>3, <3>3, <4>2
    <3> QED BY <3>1, <3>2, <3>3
  <2>2. CASE t # "gpu_main"
    <3>1. new["gpu_main"] = ts["gpu_main"]
      BY <1>2, <2>2, ThreadsAre
    <3> QED BY <1>1, <3>1 DEF GlobalsFirst
  <2> QED BY <2>1, <2>2
<1>6. ToldAfter(new["main"], h)
  <2>1. CASE t = "main"
    <3>1. \A k \in 1..Len(Tail(q)) : k + 1 \in 1..Len(q) /\ Tail(q)[k] = q[k + 1]
      BY <1>3
    <3> QED BY <1>1, <1>2, <1>q, <2>1, <3>1 DEF ToldAfter
  <2>2. CASE t # "main"
    <3>1. new["main"] = ts["main"]
      BY <1>2, <2>2, ThreadsAre
    <3> QED BY <1>1, <3>1 DEF ToldAfter
  <2> QED BY <2>1, <2>2
<1>7. /\ n \in Nat /\ m \in Nat
      /\ n = m + Count(new["main"], "OnFrameTokenChanged") + Count(new["gpu_main"], "Redraw")
  <2>1. /\ Count(ts["main"], "OnFrameTokenChanged") \in Nat
        /\ Count(ts["gpu_main"], "Redraw") \in Nat
        /\ \A task : Count(Tail(q), task) \in Nat
    BY <1>1, <1>3, CountFinite, ThreadsAre
  <2>2. \A task : Count(q, task) = Count(Tail(q), task) + (IF e = task THEN 1 ELSE 0)
    BY <1>3, <1>q, <1>e, CountTail
  <2>3. CASE t = "main"
    <3>1. e # "Redraw"
      BY <1>3, <2>3, ThreadsAre
    <3>2. new["gpu_main"] = ts["gpu_main"] /\ new["main"] = Tail(q)
      BY <1>2, <2>3, ThreadsAre
    <3>3. Count(ts["main"], "OnFrameTokenChanged") =
            Count(new["main"], "OnFrameTokenChanged")
              + (IF e = "OnFrameTokenChanged" THEN 1 ELSE 0)
      BY <1>q, <2>2, <2>3, <3>2
    <3>4. Count(new["main"], "OnFrameTokenChanged") \in Nat
      BY <2>1, <3>2
    <3> QED BY <1>1, <2>1, <3>1, <3>2, <3>3, <3>4 DEF n, m
  <2>4. CASE t = "gpu_main"
    <3>1. e # "OnFrameTokenChanged"
      BY <1>3, <2>4, ThreadsAre
    <3>2. new["main"] = ts["main"] /\ new["gpu_main"] = Tail(q)
      BY <1>2, <2>4, ThreadsAre
    <3>3. Count(ts["gpu_main"], "Redraw") =
            Count(new["gpu_main"], "Redraw") + (IF e = "Redraw" THEN 1 ELSE 0)
      BY <1>q, <2>2, <2>4, <3>2
    <3>4. Count(new["gpu_main"], "Redraw") \in Nat
      BY <2>1, <3>2
    <3> QED BY <1>1, <2>1, <3>1, <3>2, <3>3, <3>4 DEF n, m
  <2>5. CASE t = "host_io"
    <3>1. e \notin {"Redraw", "OnFrameTokenChanged"}
      BY <1>3, <2>5, ThreadsAre
    <3>2. new["main"] = ts["main"] /\ new["gpu_main"] = ts["gpu_main"]
      BY <1>2, <2>5, ThreadsAre
    <3> QED BY <1>1, <3>1, <3>2 DEF n, m
  <2> QED BY <2>3, <2>4, <2>5, ThreadsAre
<1>8. Draws(new, h, n, m)
  BY <1>1, <1>2, <1>4, <1>5, <1>6, <1>7 DEF Draws
<1> QED BY <1>8 DEF new, n, m, e, q

\* The task that tells of a frame, or draws one, is taken.
LEMMA RunTold ==
  ASSUME NEW ts, NEW g \in BOOLEAN, NEW a, NEW r, Draws(ts, g, a, r),
         NEW t \in Threads, ts[t] # <<>>, Head(ts[t]) = "OnFrameTokenChanged"
  PROVE  Draws([ts EXCEPT ![t] = Tail(@)], g, a - 1, r)
<1> DEFINE e == Head(ts[t])
<1>1. (e = "CreateGpuService" => g) /\ (g => g)
  OBVIOUS
<1>2. Draws([ts EXCEPT ![t] = Tail(@)], g,
            IF e = "OnFrameTokenChanged" THEN a - 1 ELSE a,
            IF e = "Redraw" THEN r + 1 ELSE r)
  BY <1>1, RunDraws
<1>3. e = "OnFrameTokenChanged" /\ e # "Redraw"
  OBVIOUS
<1> QED BY <1>2, <1>3

\* A frame is drawn.
LEMMA RunRedraw ==
  ASSUME NEW ts, NEW g \in BOOLEAN, NEW a, NEW r, Draws(ts, g, a, r),
         NEW t \in Threads, ts[t] # <<>>, Head(ts[t]) = "Redraw"
  PROVE  Draws([ts EXCEPT ![t] = Tail(@)], g, a, r + 1)
<1> DEFINE e == Head(ts[t])
<1>1. (e = "CreateGpuService" => g) /\ (g => g)
  OBVIOUS
<1>2. Draws([ts EXCEPT ![t] = Tail(@)], g,
            IF e = "OnFrameTokenChanged" THEN a - 1 ELSE a,
            IF e = "Redraw" THEN r + 1 ELSE r)
  BY <1>1, RunDraws
<1>3. e # "OnFrameTokenChanged" /\ e = "Redraw"
  OBVIOUS
<1> QED BY <1>2, <1>3

\* The start of an action: its task is the first of a queue.
LEMMA RunningTask ==
  ASSUME IndInv, NEW t \in Threads, NEW task, Running(t, task)
  PROVE  /\ tasks[t] # <<>> /\ Head(tasks[t]) = task
         /\ tasks[t] \in Seq(TaskNames[t])
         /\ Len(tasks[t]) \in Nat \ {0} /\ tasks[t][1] = task
BY TailElements DEF Running, IndInv, Draws

\* Running(t, task) when nothing is drawn and no global is set.
LEMMA TakeDraws ==
  ASSUME IndInv, NEW t \in Threads, NEW task, Running(t, task),
         task # "CreateGpuService", task # "OnFrameTokenChanged", task # "Redraw"
  PROVE  Draws(Done(t), g_gpu_task_runner, activated, redraws)
<1> DEFINE g == g_gpu_task_runner
           a == activated
           r == redraws
           e == Head(tasks[t])
<1>1. /\ Draws(tasks, g, a, r) /\ g \in BOOLEAN /\ tasks[t] # <<>> /\ e = task
      /\ e # "CreateGpuService" /\ e # "OnFrameTokenChanged" /\ e # "Redraw"
  BY RunningTask DEF IndInv, StartTyped
<1> HIDE DEF g, a, r
<1>2. Draws([tasks EXCEPT ![t] = Tail(@)], g,
            IF e = "OnFrameTokenChanged" THEN a - 1 ELSE a,
            IF e = "Redraw" THEN r + 1 ELSE r)
  BY <1>1, RunDraws
<1>3. Draws([tasks EXCEPT ![t] = Tail(@)], g, a, r)
  BY <1>1, <1>2
<1> QED BY <1>3 DEF Done, g, a, r

\* Such a task posts another.
LEMMA TakePostDraws ==
  ASSUME IndInv, NEW t \in Threads, NEW task, Running(t, task),
         task # "CreateGpuService", task # "OnFrameTokenChanged", task # "Redraw",
         NEW to \in Threads, NEW e \in TaskNames[to],
         e # "CreateFrameSinkManager", e # "OnFrameTokenChanged", e # "Redraw"
  PROVE  Draws(DonePosting(t, to, e), g_gpu_task_runner, activated, redraws)
<1> DEFINE g == g_gpu_task_runner
           a == activated
           r == redraws
           d == Done(t)
<1>1. Draws(d, g, a, r) /\ g \in BOOLEAN
  BY TakeDraws DEF IndInv, StartTyped
<1> HIDE DEF g, a, r, d
<1>2. Draws([d EXCEPT ![to] = Append(@, e)], g,
            IF e \in {"Redraw", "OnFrameTokenChanged"} THEN a + 1 ELSE a, r)
  BY <1>1, PostDraws
<1>3. Draws([d EXCEPT ![to] = Append(@, e)], g, a, r)
  BY <1>2
<1> QED BY <1>3 DEF DonePosting, g, a, r, d

\* The tasks InitializeDemo posts.
LEMMA PostsAre ==
  /\ Len(Posts) = 5
  /\ Posts[1] = [thread |-> "root", task |-> "BindOnThread"]
  /\ Posts[2] = [thread |-> "ink", task |-> "BindOnThread"]
  /\ Posts[3] = [thread |-> "host_io", task |-> "InitIPCServer"]
  /\ Posts[4] = [thread |-> "gpu_main", task |-> "InitVizMain"]
  /\ Posts[5] = [thread |-> "host_io", task |-> "InitVizHost"]
BY DEF Posts, InitializeOnThread, EmbedChildClient, Bind, MakeGpuService, Post

\* At first the queues are empty and nothing is set.
LEMMA InitInv == Init => IndInv
<1> SUFFICES ASSUME Init PROVE IndInv
  OBVIOUS
<1>1. SinkInv
  BY SinkInitInv DEF Init
<1>2. StartTyped
  <2>1. /\ posted = 0 /\ ~server_channel_ /\ ~client_channel_ /\ ~viz_main_ /\ ~gpu_service
        /\ ~g_gpu_task_runner /\ ~manager /\ request = "none" /\ establish = "none"
        /\ gpu_channel_host_ = "unset"
        /\ server_channel_ \in BOOLEAN /\ client_channel_ \in BOOLEAN /\ viz_main_ \in BOOLEAN
        /\ gpu_service \in BOOLEAN /\ g_gpu_task_runner \in BOOLEAN /\ manager \in BOOLEAN
    BY DEF Init
  <2> QED BY <2>1 DEF StartTyped
<1>3. ClientTyped
  <2>1. /\ 0 \in 0..MaxVsyncs /\ 0 \in 0..MaxEvents /\ 0 \in 0..FramePeriod - 1
    BY BoundsAssumption, PeriodAssumption
  <2> QED BY <2>1 DEF Init, ClientTyped
<1>4. RootDrawsNothing
  BY DEF Init, SinkInit, RootDrawsNothing
<1>5. Draws(tasks, g_gpu_task_runner, activated, redraws)
  <2>1. \A t \in Threads : tasks[t] = <<>> /\ Len(tasks[t]) = 0
    BY DEF Init
  <2>2. \A task : {i \in 1..0 : <<>>[i] = task} = {}
    OBVIOUS
  <2>3. \A t \in Threads : \A task : Count(tasks[t], task) = 0
    BY <2>1, <2>2, FS_EmptySet DEF Count
  <2>4. tasks = [t \in Threads |-> tasks[t]] /\ \A t \in Threads : tasks[t] \in Seq(TaskNames[t])
    BY <2>1 DEF Init
  <2>5. GlobalsFirst(tasks["gpu_main"], g_gpu_task_runner)
    BY <2>1, ThreadsAre DEF GlobalsFirst
  <2>6. ToldAfter(tasks["main"], g_gpu_task_runner)
    BY <2>1, ThreadsAre DEF ToldAfter
  <2> QED BY <2>3, <2>4, <2>5, <2>6, ThreadsAre DEF Init, Draws
<1> QED BY <1>1, <1>2, <1>3, <1>4, <1>5 DEF Init, IndInv

-----------------------------------------------------------------------------
(***************************************************************************)
(* The start-up and the drawing, which the client does not see.            *)
(***************************************************************************)
\* What the start-up does is not seen by the client.
LEMMA UnseenByClient ==
  ASSUME IndInv, UNCHANGED <<sinkVars, mainVars, vsyncs, ownVars>>
  PROVE  SinkInv' /\ ClientTyped' /\ RootDrawsNothing'
<1>1. SinkInv'
  BY StutterInv DEF IndInv
<1>2. ClientTyped'
  BY DEF IndInv, ClientTyped, mainVars, ownVars
<1>3. RootDrawsNothing'
  BY DEF IndInv, RootDrawsNothing, mainVars, sinkVars
<1> QED BY <1>1, <1>2, <1>3

\* The start-up keeps its types.
LEMMA StartStep ==
  ASSUME IndInv, HostIo \/ GpuMain \/ DeliverRequest \/ EstablishGpuChannelReply
  PROVE  StartTyped'
<1> USE DEF IndInv, StartTyped, startVars, hostVars, gpuVars
<1>1. CASE InitIPCServer
  BY <1>1 DEF InitIPCServer
<1>2. CASE InitVizHost
  BY <1>2 DEF InitVizHost
<1>3. CASE OnEstablishedOnIO
  BY <1>3 DEF OnEstablishedOnIO
<1>4. CASE InitIPCClient
  BY <1>4 DEF InitIPCClient
<1>5. CASE InitVizMain
  BY <1>5 DEF InitVizMain
<1>6. CASE OnAssociatedInterfaceRequest
  BY <1>6 DEF OnAssociatedInterfaceRequest
<1>7. CASE OnGpuServiceConnection
  BY <1>7 DEF OnGpuServiceConnection
<1>8. CASE CreateFrameSinkManager
  BY <1>8 DEF CreateFrameSinkManager
<1>9. CASE Redraw
  BY <1>9 DEF Redraw
<1>10. CASE DeliverRequest
  BY <1>10 DEF DeliverRequest
<1>11. CASE EstablishGpuChannelReply
  BY <1>11 DEF EstablishGpuChannelReply
<1> QED
  BY <1>1, <1>2, <1>3, <1>4, <1>5, <1>6, <1>7, <1>8, <1>9, <1>10, <1>11 DEF HostIo, GpuMain

\* host_io_thread_: the channel, the VizMain request and its answer.
LEMMA HostIoInv ==
  ASSUME IndInv, HostIo
  PROVE  IndInv'
<1>1. SinkInv' /\ ClientTyped' /\ RootDrawsNothing' /\ StartTyped'
  BY UnseenByClient, StartStep DEF HostIo, InitIPCServer, InitVizHost, OnEstablishedOnIO
<1>2. UNCHANGED <<g_gpu_task_runner, manager, activated, redraws>>
  BY DEF HostIo, InitIPCServer, InitVizHost, OnEstablishedOnIO, gpuVars, drawVars
<1>3. Draws(tasks', g_gpu_task_runner, activated, redraws)
  <2>1. CASE InitIPCServer
    <3>1. Running("host_io", "InitIPCServer") /\ "InitIPCClient" \in TaskNames["gpu_main"]
          /\ tasks' = DonePosting("host_io", "gpu_main", "InitIPCClient")
      BY <2>1, ThreadsAre DEF InitIPCServer
    <3>2. Draws(DonePosting("host_io", "gpu_main", "InitIPCClient"),
                g_gpu_task_runner, activated, redraws)
      BY <3>1, TakePostDraws, ThreadsAre
    <3> QED BY <3>1, <3>2
  <2>2. CASE InitVizHost
    <3>1. Running("host_io", "InitVizHost") /\ tasks' = Done("host_io")
      BY <2>2 DEF InitVizHost
    <3>2. Draws(Done("host_io"), g_gpu_task_runner, activated, redraws)
      BY <3>1, TakeDraws, ThreadsAre
    <3> QED BY <3>1, <3>2
  <2>3. CASE OnEstablishedOnIO
    <3>1. Running("host_io", "OnEstablishedOnIO") /\ "OnEstablishedOnMain" \in TaskNames["main"]
          /\ tasks' = DonePosting("host_io", "main", "OnEstablishedOnMain")
      BY <2>3, ThreadsAre DEF OnEstablishedOnIO
    <3>2. Draws(DonePosting("host_io", "main", "OnEstablishedOnMain"),
                g_gpu_task_runner, activated, redraws)
      BY <3>1, TakePostDraws, ThreadsAre
    <3> QED BY <3>1, <3>2
  <2> QED BY <2>1, <2>2, <2>3 DEF HostIo
<1> QED BY <1>1, <1>2, <1>3 DEF IndInv

\* The GPU main thread; InitHostMain, in OnGpuServiceConnection, sets the globals.
LEMMA GpuMainInv ==
  ASSUME IndInv, GpuMain
  PROVE  IndInv'
<1> USE DEF GpuMain, InitIPCClient, InitVizMain, OnAssociatedInterfaceRequest,
            OnGpuServiceConnection, CreateFrameSinkManager, Redraw
<1>0. /\ "gpu_main" \in Threads /\ "gpu_main" \in DOMAIN tasks
      /\ g_gpu_task_runner \in BOOLEAN /\ Draws(tasks, g_gpu_task_runner, activated, redraws)
      /\ manager => g_gpu_task_runner
  BY ThreadsAre DEF IndInv, StartTyped, Draws
<1>1. SinkInv' /\ ClientTyped' /\ RootDrawsNothing'
  BY UnseenByClient
<1>2. StartTyped'
  BY StartStep
<1> DEFINE q   == tasks["gpu_main"]
           run == [tasks EXCEPT !["gpu_main"] = Tail(@)]
<1>3. CASE InitIPCClient \/ InitVizMain
  <2>1. /\ tasks' = Done("gpu_main")
        /\ UNCHANGED <<g_gpu_task_runner, manager, activated, redraws>>
    BY <1>3 DEF drawVars
  <2>2. Draws(Done("gpu_main"), g_gpu_task_runner, activated, redraws)
    <3>1. PICK task \in {"InitIPCClient", "InitVizMain"} : Running("gpu_main", task)
      BY <1>3
    <3>2. task # "CreateGpuService" /\ task # "OnFrameTokenChanged" /\ task # "Redraw"
      BY <3>1
    <3> QED BY <1>0, <3>1, <3>2, TakeDraws
  <2> QED BY <1>0, <1>1, <1>2, <2>1, <2>2 DEF IndInv
<1>4. CASE OnAssociatedInterfaceRequest
  <2> DEFINE one == [run EXCEPT !["gpu_main"] = Append(@, "CreateGpuService")]
             two == [one EXCEPT !["gpu_main"] = Append(@, "CreateFrameSinkManager")]
  <2>1. /\ Head(tasks["gpu_main"]) = "OnAssociatedInterfaceRequest"
        /\ tasks' = [tasks EXCEPT !["gpu_main"] =
                       Tail(@) \o <<"CreateGpuService", "CreateFrameSinkManager">>]
        /\ UNCHANGED <<g_gpu_task_runner, manager, activated, redraws>>
    BY <1>4 DEF Running, drawVars, gpuVars
  <2>2. Draws(run, g_gpu_task_runner, activated, redraws)
    BY <1>4, TakeDraws, ThreadsAre DEF Done
  <2>r. /\ run["gpu_main"] = Tail(tasks["gpu_main"]) /\ "gpu_main" \in DOMAIN run
        /\ run["gpu_main"] \in Seq(TaskNames["gpu_main"])
    BY <1>0, <2>2 DEF Draws
  <2> HIDE DEF run
  <2>3. Draws(one, g_gpu_task_runner, activated, redraws)
    <3>1. "CreateGpuService" \in TaskNames["gpu_main"]
      BY ThreadsAre
    <3> QED BY <1>0, <2>2, <3>1, PostDraws
  <2>4. /\ one["gpu_main"] = Append(run["gpu_main"], "CreateGpuService")
        /\ one["gpu_main"] \in Seq(TaskNames["gpu_main"])
    BY <1>0, <2>r, <2>3 DEF Draws
  <2>5. \E j \in 1..Len(one["gpu_main"]) : one["gpu_main"][j] = "CreateGpuService"
    <3>1. "CreateGpuService" \in TaskNames["gpu_main"]
      BY ThreadsAre
    <3>2. /\ Len(one["gpu_main"]) = Len(run["gpu_main"]) + 1 /\ Len(run["gpu_main"]) \in Nat
          /\ one["gpu_main"][Len(run["gpu_main"]) + 1] = "CreateGpuService"
      BY <2>r, <2>4, <3>1, AppendElements
    <3>3. Len(one["gpu_main"]) \in 1..Len(one["gpu_main"])
      BY <3>2
    <3> QED BY <3>2, <3>3
  <2>6. Draws(two, g_gpu_task_runner, activated, redraws)
    <3>1. "CreateFrameSinkManager" \in TaskNames["gpu_main"]
      BY ThreadsAre
    <3> HIDE DEF one
    <3> QED BY <1>0, <2>3, <2>5, <3>1, PostDraws
  <2>7. tasks' = two
    <3>1. /\ "CreateGpuService" \in TaskNames["gpu_main"]
          /\ "CreateFrameSinkManager" \in TaskNames["gpu_main"]
      BY ThreadsAre
    <3>2. ASSUME NEW r \in Seq(TaskNames["gpu_main"])
          PROVE  r \o <<"CreateGpuService", "CreateFrameSinkManager">> =
                   Append(Append(r, "CreateGpuService"), "CreateFrameSinkManager")
      BY <3>1
    <3>3. two["gpu_main"] = Append(Append(Tail(tasks["gpu_main"]), "CreateGpuService"),
                                   "CreateFrameSinkManager")
      BY <1>0, <2>r, <2>4, <2>6 DEF Draws
    <3>4. two["gpu_main"] = tasks'["gpu_main"]
      BY <1>0, <2>1, <2>r, <3>2, <3>3
    <3>5. /\ two = [t \in Threads |-> two[t]]
          /\ \A t \in Threads : t # "gpu_main" => two[t] = tasks[t]
      BY <1>0, <2>6 DEF Draws, run
    <3>6. /\ tasks' = [t \in Threads |-> tasks'[t]]
          /\ \A t \in Threads : t # "gpu_main" => tasks'[t] = tasks[t]
      BY <1>0, <2>1 DEF Draws
    <3> HIDE DEF two
    <3>7. \A t \in Threads : two[t] = tasks'[t]
      BY <3>4, <3>5, <3>6
    <3> QED BY <3>5, <3>6, <3>7
  <2> HIDE DEF two
  <2> QED BY <1>0, <1>1, <1>2, <2>1, <2>6, <2>7 DEF IndInv
<1>5. CASE OnGpuServiceConnection
  <2>1. /\ q # <<>> /\ Head(q) = "CreateGpuService" /\ tasks' = run
        /\ g_gpu_task_runner' = TRUE /\ UNCHANGED <<manager, activated, redraws>>
    BY <1>5 DEF Running, Done, drawVars
  <2>2. Draws(run, TRUE, IF Head(q) = "OnFrameTokenChanged" THEN activated - 1 ELSE activated,
              IF Head(q) = "Redraw" THEN redraws + 1 ELSE redraws)
    <3> DEFINE g == g_gpu_task_runner
               h == TRUE
    <3>1. /\ g \in BOOLEAN /\ h \in BOOLEAN /\ (g => h) /\ h
          /\ Draws(tasks, g, activated, redraws)
      BY <1>0
    <3> HIDE DEF g, h
    <3>2. Draws(run, h, IF Head(q) = "OnFrameTokenChanged" THEN activated - 1 ELSE activated,
                IF Head(q) = "Redraw" THEN redraws + 1 ELSE redraws)
      BY <1>0, <2>1, <3>1, RunDraws
    <3> QED BY <3>2 DEF h
  <2>3. Draws(run, TRUE, activated, redraws)
    BY <2>1, <2>2
  <2> HIDE DEF run
  <2> QED BY <1>0, <1>1, <1>2, <2>1, <2>3 DEF IndInv
<1>6. CASE CreateFrameSinkManager
  <2>1. /\ Running("gpu_main", "CreateFrameSinkManager") /\ tasks' = Done("gpu_main")
        /\ manager' = TRUE /\ UNCHANGED <<g_gpu_task_runner, activated, redraws>>
    BY <1>6 DEF drawVars
  <2>2. Draws(Done("gpu_main"), g_gpu_task_runner, activated, redraws)
    BY <1>0, <2>1, TakeDraws
  <2>3. g_gpu_task_runner
    <3>1. 1 \in 1..Len(q) /\ q[1] = "CreateFrameSinkManager"
      BY <1>0, <2>1, RunningTask
    <3>2. \A j : j \notin 1..1 - 1
      OBVIOUS
    <3>3. GlobalsFirst(q, g_gpu_task_runner)
      BY <1>0 DEF Draws
    <3> HIDE DEF q
    <3> QED BY <3>1, <3>2, <3>3 DEF GlobalsFirst
  <2> QED BY <1>1, <1>2, <2>1, <2>2, <2>3 DEF IndInv
<1>7. CASE Redraw
  <2>1. /\ q # <<>> /\ Head(q) = "Redraw" /\ tasks' = run /\ redraws' = redraws + 1
        /\ UNCHANGED <<g_gpu_task_runner, manager, activated>>
    BY <1>7 DEF Running, Done, startVars, gpuVars
  <2>3. Draws(run, g_gpu_task_runner, activated, redraws + 1)
    BY <1>0, <2>1, RunRedraw
  <2> HIDE DEF run
  <2> QED BY <1>0, <1>1, <1>2, <2>1, <2>3 DEF IndInv
<1> QED BY <1>3, <1>4, <1>5, <1>6, <1>7

\* What mojo delivers to the GPU main thread and to host_io_thread_.
LEMMA DeliveryInv ==
  ASSUME IndInv, DeliverRequest \/ EstablishGpuChannelReply
  PROVE  IndInv'
<1>0. /\ "gpu_main" \in Threads /\ "host_io" \in Threads
      /\ "OnAssociatedInterfaceRequest" \in TaskNames["gpu_main"]
      /\ "OnEstablishedOnIO" \in TaskNames["host_io"]
      /\ g_gpu_task_runner \in BOOLEAN /\ Draws(tasks, g_gpu_task_runner, activated, redraws)
  BY ThreadsAre DEF IndInv, StartTyped
<1>1. SinkInv' /\ ClientTyped' /\ RootDrawsNothing'
  BY UnseenByClient DEF DeliverRequest, EstablishGpuChannelReply
<1>2. StartTyped' /\ UNCHANGED <<g_gpu_task_runner, manager, activated, redraws>>
  BY StartStep DEF DeliverRequest, EstablishGpuChannelReply, gpuVars, drawVars
<1>3. Draws(tasks', g_gpu_task_runner, activated, redraws)
  <2>1. CASE DeliverRequest
    <3>1. tasks' = [tasks EXCEPT !["gpu_main"] = Append(@, "OnAssociatedInterfaceRequest")]
      BY <2>1 DEF DeliverRequest
    <3> QED BY <1>0, <3>1, PostDraws
  <2>2. CASE EstablishGpuChannelReply
    <3>1. tasks' = [tasks EXCEPT !["host_io"] = Append(@, "OnEstablishedOnIO")]
      BY <2>2 DEF EstablishGpuChannelReply
    <3> QED BY <1>0, <3>1, PostDraws
  <2> QED BY <2>1, <2>2
<1> QED BY <1>1, <1>2, <1>3 DEF IndInv

\* A frame's token is told to the main thread, which passes it on.
LEMMA OnFrameTokenChangedInv ==
  ASSUME IndInv, OnFrameTokenChanged
  PROVE  IndInv'
<1> DEFINE g   == g_gpu_task_runner
           a   == activated
           r   == redraws
           q   == tasks["main"]
           run == [tasks EXCEPT !["main"] = Tail(@)]
           n   == a - 1
<1>1. /\ "main" \in Threads /\ "gpu_main" \in Threads /\ "Redraw" \in TaskNames["gpu_main"]
      /\ g \in BOOLEAN /\ Draws(tasks, g, a, r) /\ a \in Nat
      /\ q # <<>> /\ Head(q) = "OnFrameTokenChanged"
      /\ tasks' = [run EXCEPT !["gpu_main"] = Append(@, "Redraw")]
      /\ UNCHANGED <<sinkVars, startVars, drawVars, mainVars, vsyncs, ownVars>>
  BY ThreadsAre
  DEF OnFrameTokenChanged, Running, DonePosting, Done, IndInv, StartTyped, Draws
<1>2. g
  <2>1. 1 \in 1..Len(q) /\ q[1] = "OnFrameTokenChanged"
    BY <1>1, RunningTask DEF Running
  <2>2. ToldAfter(q, g)
    BY <1>1 DEF Draws
  <2> HIDE DEF q, g
  <2> QED BY <2>1, <2>2 DEF ToldAfter
<1>3. SinkInv' /\ ClientTyped' /\ RootDrawsNothing'
  BY <1>1, UnseenByClient
<1>4. StartTyped' /\ UNCHANGED <<g_gpu_task_runner, manager, activated, redraws>>
  BY <1>1 DEF IndInv, StartTyped, startVars, hostVars, gpuVars, drawVars
<1>5. Draws(tasks', g, a, r)
  <2> HIDE DEF g, a, r, q
  <2>2. Draws(run, g, n, r)
    BY <1>1, RunTold DEF q
  <2>3. n + 1 = a
    BY <1>1
  <2> HIDE DEF run, n
  <2>4. Draws([run EXCEPT !["gpu_main"] = Append(@, "Redraw")], g,
              IF "Redraw" \in {"Redraw", "OnFrameTokenChanged"} THEN n + 1 ELSE n, r)
    BY <1>1, <1>2, <2>2, PostDraws
  <2> QED BY <1>1, <2>3, <2>4
<1> QED BY <1>3, <1>4, <1>5 DEF IndInv

-----------------------------------------------------------------------------
(***************************************************************************)
(* The client's queue.                                                     *)
(***************************************************************************)
\* What the client's thread does is not seen by the start-up.
LEMMA UnseenByStart ==
  ASSUME IndInv, UNCHANGED <<startVars, tasks, drawVars>>
  PROVE  /\ StartTyped' /\ (manager => g_gpu_task_runner)'
         /\ Draws(tasks, g_gpu_task_runner, activated, redraws)'
BY DEF IndInv, StartTyped, startVars, hostVars, gpuVars, drawVars

\* Only the ink client is asked to draw.
LEMMA RootAppend ==
  ASSUME IndInv, UNCHANGED role, NEW op \in TaskOps, NEW res \in SUBSET Nat,
         role = "root" => op # "Draw", queue' = Append(queue, Task(op, res))
  PROVE  RootDrawsNothing'
<1>1. /\ queue \in Seq(TaskType) /\ Task(op, res) \in TaskType /\ Task(op, res).op = op
  BY TaskTyped DEF IndInv, SinkInv, SinkTypeOK
<1> SUFFICES ASSUME role = "root", NEW i \in 1..Len(Append(queue, Task(op, res)))
             PROVE  Append(queue, Task(op, res))[i].op # "Draw"
  BY DEF RootDrawsNothing
<1>2. i = Len(queue) + 1 \/ i \in 1..Len(queue)
  BY <1>1, AppendElements
<1> QED BY <1>1, <1>2, AppendElements DEF IndInv, RootDrawsNothing

\* The client takes the first task of its queue.
LEMMA RootTail ==
  ASSUME IndInv, UNCHANGED role, queue # <<>>, queue' = Tail(queue)
  PROVE  RootDrawsNothing' /\ (role = "root" => Head(queue).op # "Draw")
<1>1. queue \in Seq(TaskType)
  BY DEF IndInv, SinkInv, SinkTypeOK
<1>2. \A i \in 1..Len(Tail(queue)) : i + 1 \in 1..Len(queue) /\ Tail(queue)[i] = queue[i + 1]
  BY <1>1, TailElements
<1>3. 1 \in 1..Len(queue) /\ Head(queue) = queue[1]
  BY <1>1, TailElements
<1> QED BY <1>2, <1>3 DEF IndInv, RootDrawsNothing

\* The main thread, in InitializeDemo, posts one task more.
LEMMA ConstructInv ==
  ASSUME IndInv, Construct
  PROVE  IndInv'
<1> DEFINE p == Posts[posted + 1]
<1>1. /\ posted \in 0..4 /\ posted' = posted + 1
      /\ queue' = IF p.thread = role THEN Append(queue, Task(p.task, {})) ELSE queue
      /\ tasks' = IF p.thread \in Threads THEN [tasks EXCEPT ![p.thread] = Append(@, p.task)]
                                         ELSE tasks
      /\ UNCHANGED <<provider, pipe, remoteVars, hostVars, gpuVars, request, drawVars, mainVars,
                     vsyncs, ownVars>>
  BY PostsAre DEF Construct, IndInv, StartTyped
<1>2. UNCHANGED <<g_gpu_task_runner, manager, activated, redraws, role>>
  BY <1>1 DEF gpuVars, drawVars, mainVars
<1>3. StartTyped'
  <2>1. posted' \in 0..5
    BY <1>1
  <2> HIDE DEF p
  <2> QED BY <1>1, <2>1 DEF IndInv, StartTyped, hostVars, gpuVars
<1>4. ClientTyped'
  <2> HIDE DEF p
  <2> QED BY <1>1 DEF IndInv, ClientTyped, mainVars, ownVars
<1>5. /\ Draws(tasks, g_gpu_task_runner, activated, redraws) /\ g_gpu_task_runner \in BOOLEAN
      /\ SinkInv /\ RootDrawsNothing /\ role \in {"root", "ink"}
  BY DEF IndInv, StartTyped, ClientTyped
<1>6. CASE p.thread \in {"root", "ink"}
  <2>1. p.task = "BindOnThread" /\ p.thread \notin Threads
    <3>1. posted + 1 \in {1, 2, 3, 4, 5}
      BY <1>1
    <3>2. Posts[posted + 1] = Posts[1] \/ Posts[posted + 1] = Posts[2]
      BY <1>6, <3>1, PostsAre
    <3> QED BY <1>6, <3>2, PostsAre, ThreadsAre
  <2>2. tasks' = tasks
    BY <1>1, <2>1
  <2>3. CASE p.thread = role
    <3>1. /\ queue' = Append(queue, Task("BindOnThread", {})) /\ "BindOnThread" \in TaskOps
          /\ "BindOnThread" # "Draw" /\ {} \in SUBSET Nat
          /\ UNCHANGED <<provider, pipe, needsBeginFrame, bitmaps, active, shown, retired,
                         held, ackPending>>
      BY <1>1, <2>1, <2>3 DEF TaskOps, remoteVars
    <3>2. SinkInv'
      BY <1>5, <3>1, PostInv
    <3>3. RootDrawsNothing'
      BY <1>2, <3>1, RootAppend
    <3> QED BY <1>2, <1>3, <1>4, <1>5, <2>2, <3>2, <3>3 DEF IndInv
  <2>4. CASE p.thread # role
    <3>1. UNCHANGED sinkVars /\ UNCHANGED queue
      BY <1>1, <2>4 DEF sinkVars, remoteVars
    <3>2. SinkInv'
      BY <1>5, <3>1, StutterInv
    <3>3. RootDrawsNothing'
      BY <1>2, <1>5, <3>1 DEF RootDrawsNothing
    <3> QED BY <1>2, <1>3, <1>4, <1>5, <2>2, <3>2, <3>3 DEF IndInv
  <2> QED BY <2>3, <2>4
<1>7. CASE p.thread \in {"host_io", "gpu_main"}
  <2> DEFINE t == p.thread
             e == p.task
  <2>1. /\ t \in Threads /\ e \in TaskNames[t] /\ t # role
        /\ e # "Redraw" /\ e # "OnFrameTokenChanged" /\ e # "CreateFrameSinkManager"
    <3>1. posted + 1 \in {1, 2, 3, 4, 5}
      BY <1>1
    <3>2. \/ Posts[posted + 1] = Posts[3] \/ Posts[posted + 1] = Posts[4]
          \/ Posts[posted + 1] = Posts[5]
      BY <1>7, <3>1, PostsAre
    <3> QED BY <1>5, <1>7, <3>2, PostsAre, ThreadsAre
  <2>2. tasks' = [tasks EXCEPT ![t] = Append(@, e)] /\ queue' = queue
    BY <1>1, <2>1
  <2> HIDE DEF p, t, e
  <2>3. Draws(tasks', g_gpu_task_runner, activated, redraws)
    <3>1. Draws([tasks EXCEPT ![t] = Append(@, e)], g_gpu_task_runner,
                IF e \in {"Redraw", "OnFrameTokenChanged"} THEN activated + 1 ELSE activated,
                redraws)
      BY <1>5, <2>1, PostDraws
    <3> QED BY <2>1, <2>2, <3>1
  <2>4. UNCHANGED sinkVars
    BY <1>1, <2>2 DEF sinkVars, remoteVars
  <2>5. SinkInv'
    BY <1>5, <2>4, StutterInv
  <2>6. RootDrawsNothing'
    BY <1>2, <1>5, <2>2 DEF RootDrawsNothing
  <2> QED BY <1>2, <1>3, <1>4, <2>3, <2>5, <2>6 DEF IndInv
<1>8. p.thread \in {"root", "ink", "host_io", "gpu_main"}
  <2>1. posted + 1 \in {1, 2, 3, 4, 5}
    BY <1>1
  <2> QED BY <2>1, PostsAre
<1> HIDE DEF p
<1> QED BY <1>6, <1>7, <1>8

\* The main thread's loop posts to the client.
LEMMA MainLoopInv ==
  ASSUME IndInv, DidProcessEvent \/ OnEstablishedOnMain
  PROVE  IndInv'
<1>1. /\ "Draw" \in TaskOps /\ "SetContextProvider" \in TaskOps /\ {} \in SUBSET Nat
      /\ SinkInv /\ events \in Nat /\ MaxEvents \in Nat
  BY BoundsAssumption DEF TaskOps, IndInv, ClientTyped
<1>2. CASE DidProcessEvent
  <2>1. /\ queue' = Append(queue, Task("Draw", {})) /\ role # "root" /\ UNCHANGED role
        /\ UNCHANGED <<startVars, tasks, drawVars>>
        /\ UNCHANGED <<provider, pipe, needsBeginFrame, bitmaps, active, shown, retired,
                       held, ackPending>>
    BY <1>2 DEF DidProcessEvent, remoteVars
  <2>2. SinkInv'
    BY <1>1, <2>1, PostInv
  <2>3. RootDrawsNothing'
    BY <2>1 DEF RootDrawsNothing
  <2>4. ClientTyped'
    <3>1. events' \in 0..MaxEvents /\ UNCHANGED <<role, g_use_gpu, vsyncs, ownVars>>
      BY <1>1, <1>2 DEF DidProcessEvent
    <3> QED BY <3>1 DEF IndInv, ClientTyped, ownVars
  <2>5. /\ StartTyped' /\ (manager => g_gpu_task_runner)'
        /\ Draws(tasks, g_gpu_task_runner, activated, redraws)'
    BY <2>1, UnseenByStart
  <2> QED BY <2>2, <2>3, <2>4, <2>5 DEF IndInv
<1>3. CASE OnEstablishedOnMain
  <2>1. /\ queue' = Append(queue, Task("SetContextProvider", {})) /\ UNCHANGED role
        /\ "SetContextProvider" # "Draw"
        /\ Running("main", "OnEstablishedOnMain") /\ tasks' = Done("main")
        /\ UNCHANGED <<startVars, drawVars, mainVars, vsyncs, ownVars>>
        /\ UNCHANGED <<provider, pipe, needsBeginFrame, bitmaps, active, shown, retired,
                       held, ackPending>>
    BY <1>3 DEF OnEstablishedOnMain, remoteVars, mainVars
  <2>2. SinkInv'
    BY <1>1, <2>1, PostInv
  <2>3. RootDrawsNothing'
    BY <1>1, <2>1, RootAppend
  <2>4. ClientTyped' /\ StartTyped'
    BY <2>1 DEF IndInv, ClientTyped, StartTyped, mainVars, ownVars, startVars, hostVars, gpuVars
  <2>5. Draws(Done("main"), g_gpu_task_runner, activated, redraws)
    BY <2>1, TakeDraws, ThreadsAre
  <2>6. UNCHANGED <<g_gpu_task_runner, manager, activated, redraws>>
    BY <2>1 DEF startVars, gpuVars, drawVars
  <2> QED BY <2>1, <2>2, <2>3, <2>4, <2>5, <2>6 DEF IndInv
<1> QED BY <1>2, <1>3

-----------------------------------------------------------------------------
(***************************************************************************)
(* The client's thread.                                                    *)
(***************************************************************************)
\* BeginFrames that are answered without a frame.
RootSkips == RootOnBeginFrame /\ frame_token' # 1
InkSkips  == InkOnBeginFrame /\ ~need_redraw

\* The client takes back what the service returned, and releases it.
LEMMA TakeBackStep ==
  ASSUME IndInv, DidReceiveCompositorFrameAck \/ ReclaimResources
  PROVE  IndInv' /\ PromiseKept
<1>1. /\ queue # <<>> /\ queue' = Tail(queue)
      /\ provider' = RemoveImportedResources(
                       ReceiveReturnsFromParent(provider, Head(queue).res),
                       Head(queue).res)
      /\ UNCHANGED <<pipe, remoteVars, startVars, tasks, drawVars, mainVars, vsyncs, ownVars>>
  BY DEF DidReceiveCompositorFrameAck, ReclaimResources, TakeBack, Is
<1>2. /\ SinkInv' /\ InUse' = InUse
      /\ Head(queue).res \subseteq provider.imported \ InUse
      /\ provider'.released = provider.released \cup Head(queue).res
      /\ provider'.imported = provider.imported \ Head(queue).res
  BY <1>1, TakeBackInv DEF IndInv, remoteVars
<1>3. RootDrawsNothing'
  BY <1>1, RootTail DEF mainVars
<1>4. ClientTyped'
  BY <1>1 DEF IndInv, ClientTyped, mainVars, ownVars
<1>5. /\ StartTyped' /\ (manager => g_gpu_task_runner)'
      /\ Draws(tasks, g_gpu_task_runner, activated, redraws)'
  BY <1>1, UnseenByStart
<1>6. PromiseKept
  BY <1>2, TakeBackFrees DEF IndInv
<1> QED BY <1>2, <1>3, <1>4, <1>5, <1>6 DEF IndInv

\* A task that sends at most a call without resources.
LEMMA CallStep ==
  ASSUME IndInv,
         \/ SetContextProvider \/ RootBindOnThread \/ RootSkips
         \/ InkBind \/ InkDraw \/ InkSkips
  PROVE  IndInv' /\ PromiseKept
<1> USE DEF Is, RootSkips, InkSkips
<1>1. /\ queue # <<>> /\ queue' = Tail(queue) /\ Head(queue).op \notin Returns
      /\ UNCHANGED <<provider, remoteVars, startVars, tasks, drawVars, mainVars, vsyncs>>
  BY DEF SetContextProvider, RootBindOnThread, RootOnBeginFrame, InkBind, InkDraw,
         InkOnBeginFrame, Returns
<1>2. PICK op \in MessageOps : UNCHANGED pipe \/ pipe' = Append(pipe, Call(op))
  <2>1. "SetNeedsBeginFrame" \in MessageOps /\ "DidNotProduceFrame" \in MessageOps
    BY DEF MessageOps
  <2>2. \A m : pipe \o <<m>> = Append(pipe, m)
    BY DEF IndInv, SinkInv, SinkTypeOK
  <2> QED
    BY <2>1, <2>2 DEF SetContextProvider, RootBindOnThread, RootOnBeginFrame, InkBind, InkDraw,
                      InkOnBeginFrame, Send
<1>3. SinkInv' /\ InUse' = InUse
  <2>1. SinkInv /\ UNCHANGED <<needsBeginFrame, bitmaps, active, shown, retired, held,
                               ackPending>>
    BY <1>1 DEF remoteVars, IndInv
  <2>2. CASE UNCHANGED pipe
    BY <1>1, <2>1, <2>2, RunInv
  <2>3. CASE pipe' = Append(pipe, Call(op))
    BY <1>1, <2>1, <2>3, CallInv
  <2> QED BY <1>2, <2>2, <2>3
<1>4. RootDrawsNothing' /\ (role = "root" => Head(queue).op # "Draw")
  BY <1>1, RootTail DEF mainVars
<1>5. ClientTyped'
  <2>0. /\ UNCHANGED <<role, g_use_gpu, events, vsyncs>> /\ points \in Nat
        /\ role \in {"root", "ink"} /\ g_use_gpu \in BOOLEAN
        /\ vsyncs \in 0..MaxVsyncs /\ events \in 0..MaxEvents
    BY <1>1 DEF mainVars, IndInv, ClientTyped
  <2>1. CASE SetContextProvider
    BY <2>0, <2>1 DEF SetContextProvider, IndInv, ClientTyped
  <2>2. CASE RootBindOnThread
    BY <2>0, <2>2 DEF RootBindOnThread, IndInv, ClientTyped
  <2>3. CASE RootSkips
    <3>1. (frame_token + 1) % FramePeriod \in 0..FramePeriod - 1
      BY PeriodAssumption DEF IndInv, ClientTyped
    <3> QED BY <2>0, <2>3, <3>1 DEF RootOnBeginFrame, IndInv, ClientTyped
  <2>4. CASE InkBind
    BY <2>0, <2>4 DEF InkBind, IndInv, ClientTyped
  <2>5. CASE InkDraw
    BY <1>4, <2>0, <2>5 DEF InkDraw, IndInv, ClientTyped
  <2>6. CASE InkSkips
    BY <2>0, <2>6 DEF InkOnBeginFrame, IndInv, ClientTyped
  <2> QED BY <2>1, <2>2, <2>3, <2>4, <2>5, <2>6
<1>6. /\ StartTyped' /\ (manager => g_gpu_task_runner)'
      /\ Draws(tasks, g_gpu_task_runner, activated, redraws)'
  BY <1>1, UnseenByStart
<1>7. PromiseKept
  BY <1>1, <1>3, NothingLent
<1> QED BY <1>3, <1>4, <1>5, <1>6, <1>7 DEF IndInv

\* Messages sent in a row.
LEMMA SendTwo ==
  ASSUME NEW S, NEW q \in Seq(S), NEW x \in S, NEW y \in S
  PROVE  q \o (<<x>> \o <<y>>) = Append(Append(q, x), y)
<1>1. <<x>> \in Seq(S) /\ <<y>> \in Seq(S)
  OBVIOUS
<1>2. q \o (<<x>> \o <<y>>) = (q \o <<x>>) \o <<y>>
  BY <1>1, ConcatAssociative
<1>3. q \o <<x>> = Append(q, x) /\ Append(q, x) \in Seq(S)
  OBVIOUS
<1>4. Append(q, x) \o <<y>> = Append(Append(q, x), y)
  BY <1>3
<1> QED BY <1>2, <1>3, <1>4

\* Three of them.
LEMMA SendThree ==
  ASSUME NEW S, NEW q \in Seq(S), NEW x \in S, NEW y \in S, NEW z \in S
  PROVE  q \o ((<<x>> \o <<y>>) \o <<z>>) = Append(Append(Append(q, x), y), z)
<1>1. <<x>> \o <<y>> \in Seq(S) /\ <<z>> \in Seq(S)
  OBVIOUS
<1>2. q \o ((<<x>> \o <<y>>) \o <<z>>) = (q \o (<<x>> \o <<y>>)) \o <<z>>
  BY <1>1, ConcatAssociative
<1>3. q \o (<<x>> \o <<y>>) = Append(Append(q, x), y)
  BY SendTwo
<1>4. Append(Append(q, x), y) \in Seq(S)
  OBVIOUS
<1>5. Append(Append(q, x), y) \o <<z>> = Append(Append(Append(q, x), y), z)
  BY <1>4
<1> QED BY <1>2, <1>3, <1>5

\* The root submits a frame, with two resources if it has a context provider.
LEMMA RootFrameStep ==
  ASSUME IndInv, RootOnBeginFrame, frame_token' = 1
  PROVE  IndInv' /\ PromiseKept
<1> DEFINE n    == provider.next
           ids  == RootResources
           soft == IF Software THEN ids ELSE {}
           a    == SharedBitmap({n})
           b    == SharedBitmap({n + 1})
           m    == Frame(ids, soft, 0)
           q    == IF RootAnnouncements = <<>> THEN pipe ELSE Append(Append(pipe, a), b)
<1>1. /\ role = "root" /\ queue # <<>> /\ queue' = Tail(queue)
      /\ Head(queue).op = "OnBeginFrame"
      /\ frame_token' = (frame_token + 1) % FramePeriod
      /\ pipe' = pipe \o (RootAnnouncements \o <<m>>) /\ provider' = RootCreateFrame(provider)
      /\ UNCHANGED <<remoteVars, startVars, tasks, drawVars, mainVars, vsyncs, bound,
                     context_provider, need_redraw, points>>
  BY DEF RootOnBeginFrame, SubmitCompositorFrame, Send, Is
<1>2. /\ SinkInv /\ provider \in ProviderType /\ n \in Nat
      /\ pipe \in Seq(MessageType) /\ Disjoint(pipe) /\ OnlyFramesCarry
  BY DEF IndInv, SinkInv, SinkTypeOK, Conservation, OnePlace, ProviderType
<1>3. /\ ids \in SUBSET Nat /\ soft \in SUBSET Nat
      /\ \A x \in ids : n <= x /\ x < n + 2
  BY <1>2 DEF RootResources
<1>4. /\ provider' \in ProviderType
      /\ provider'.imported = provider.imported \cup ids
      /\ provider'.exported = provider.exported \cup ids
      /\ provider'.marked = provider.marked /\ provider'.released = provider.released
      /\ provider'.next >= n /\ \A x \in ids : n <= x /\ x < provider'.next
  <2>1. CASE ~context_provider
    BY <1>1, <1>2, <2>1 DEF RootCreateFrame, RootResources, ProviderType
  <2>2. CASE context_provider
    <3>1. ids = {n, n + 1}
      BY <2>2 DEF RootResources
    <3>2. /\ provider' = [next |-> n + 2, imported |-> provider.imported \cup {n, n + 1},
                          exported |-> provider.exported \cup {n, n + 1},
                          marked |-> provider.marked, released |-> provider.released]
          /\ provider' \in ProviderType
      <4>1. provider' = PrepareSendToParent(ImportResource(ImportResource(provider)),
                                            {n, n + 1})
        BY <1>1, <2>2, <3>1 DEF RootCreateFrame
      <4> QED BY <1>2, <4>1, TwoResult
    <3>3. provider'.next = n + 2 /\ n + 2 \in Nat /\ n + 2 >= n
      BY <1>2, <3>2
    <3> HIDE DEF n
    <3> QED BY <1>3, <3>1, <3>2, <3>3
  <2> QED BY <2>1, <2>2
<1>5. a \in MessageType /\ a.res = {} /\ b \in MessageType /\ b.res = {}
  BY <1>2 DEF SharedBitmap, Call, MessageType, MessageOps
<1>6. m \in MessageType
  BY <1>3 DEF Frame, MessageType, MessageOps
<1>7. RootAnnouncements = <<>> \/ RootAnnouncements = <<a>> \o <<b>>
  <2>1. <<>> \o <<>> = <<>>
    OBVIOUS
  <2> QED BY <2>1 DEF RootAnnouncements, CreateResource, CreateSoftwareResource, CreateGpuResource
<1> HIDE DEF a, b
<1>8. pipe' = Append(q, m)
  <2> HIDE DEF m
  <2>1. CASE RootAnnouncements = <<>>
    <3>1. <<>> \o <<m>> = <<m>> /\ pipe \o <<m>> = Append(pipe, m)
      BY <1>2, <1>6
    <3> QED BY <1>1, <2>1, <3>1
  <2>2. CASE RootAnnouncements # <<>>
    <3>1. pipe \o ((<<a>> \o <<b>>) \o <<m>>) = Append(Append(Append(pipe, a), b), m)
      BY <1>2, <1>5, <1>6, SendThree
    <3> QED BY <1>1, <1>7, <2>2, <3>1
  <2> QED BY <2>1, <2>2
<1>9. /\ q \in Seq(MessageType) /\ Carried(q) = Carried(pipe) /\ Disjoint(q)
      /\ \A i \in 1..Len(q) : q[i].res # {} => q[i].op = "SubmitCompositorFrame"
  <2> DEFINE r == Append(pipe, a)
  <2>1. \A i \in 1..Len(pipe) : pipe[i].res # {} => pipe[i].op = "SubmitCompositorFrame"
    BY <1>2 DEF OnlyFramesCarry
  <2>2. /\ r \in Seq(MessageType) /\ Carried(r) = Carried(pipe) /\ Disjoint(r)
        /\ \A i \in 1..Len(r) : r[i].res # {} => r[i].op = "SubmitCompositorFrame"
    BY <1>2, <1>5, <2>1, SendNothing
  <2> HIDE DEF r
  <2>3. /\ Append(r, b) \in Seq(MessageType) /\ Carried(Append(r, b)) = Carried(pipe)
        /\ Disjoint(Append(r, b))
        /\ \A i \in 1..Len(Append(r, b)) :
             Append(r, b)[i].res # {} => Append(r, b)[i].op = "SubmitCompositorFrame"
    BY <1>5, <2>2, SendNothing
  <2>4. q = pipe \/ q = Append(r, b)
    BY DEF r
  <2> HIDE DEF q
  <2> QED BY <1>2, <2>1, <2>3, <2>4
<1> HIDE DEF q
<1>10. /\ SinkInv' /\ InUse' = InUse \cup ids
       /\ ids \cap (provider.imported \cup provider.released) = {}
  <2>1. Head(queue).op \notin Returns /\ 0 \in Nat
    BY <1>1 DEF Returns
  <2>2. UNCHANGED <<needsBeginFrame, bitmaps, active, shown, retired, held, ackPending>>
    BY <1>1 DEF remoteVars
  <2>3. /\ provider'.next >= provider.next
        /\ \A x \in ids : provider.next <= x /\ x < provider'.next
    BY <1>4 DEF n
  <2>4. pipe' = Append(q, Frame(ids, soft, 0))
    BY <1>8
  <2> HIDE DEF n, ids, soft, m
  <2>5. /\ SinkInv /\ queue # <<>> /\ queue' = Tail(queue)
        /\ ids \in SUBSET Nat /\ soft \in SUBSET Nat
    BY <1>1, <1>2, <1>3
  <2> QED BY <1>4, <1>9, <2>1, <2>2, <2>3, <2>4, <2>5, FrameInv
<1>11. ClientTyped'
  <2>1. 1 \in 0..FramePeriod - 1
    BY PeriodAssumption
  <2> QED BY <1>1, <2>1 DEF IndInv, ClientTyped, mainVars
<1>12. RootDrawsNothing'
  BY <1>1, RootTail DEF mainVars
<1>13. /\ StartTyped' /\ (manager => g_gpu_task_runner)'
       /\ Draws(tasks, g_gpu_task_runner, activated, redraws)'
  BY <1>1, UnseenByStart
<1>14. PromiseKept
  BY <1>4, <1>10, FrameLends
<1> QED BY <1>10, <1>11, <1>12, <1>13, <1>14 DEF IndInv

\* The ink client draws a frame into a new resource and submits it.
LEMMA InkFrameStep ==
  ASSUME IndInv, InkOnBeginFrame, need_redraw
  PROVE  IndInv' /\ PromiseKept
<1> DEFINE id   == provider.next
           ids  == {id}
           soft == IF Software THEN ids ELSE {}
           a    == SharedBitmap({id})
           m    == Frame(ids, soft, points)
           q    == IF Software THEN Append(pipe, a) ELSE pipe
<1>1. /\ role = "ink" /\ queue # <<>> /\ queue' = Tail(queue)
      /\ Head(queue).op = "OnBeginFrame"
      /\ pipe' = pipe \o (CreateResource(id) \o <<m>>)
      /\ provider' = PrepareSendToParent(ImportResource(provider), ids)
      /\ need_redraw' = FALSE
      /\ UNCHANGED <<remoteVars, startVars, tasks, drawVars, mainVars, vsyncs, bound,
                     context_provider, frame_token, points>>
  BY DEF InkOnBeginFrame, InkCreateFrame, SubmitCompositorFrame, Send, Is
<1>2. /\ SinkInv /\ provider \in ProviderType /\ id \in Nat /\ points \in Nat
      /\ pipe \in Seq(MessageType) /\ Disjoint(pipe) /\ OnlyFramesCarry
  BY DEF IndInv, ClientTyped, SinkInv, SinkTypeOK, Conservation, OnePlace, ProviderType
<1>3. provider' = [next |-> id + 1, imported |-> provider.imported \cup ids,
                   exported |-> provider.exported \cup ids,
                   marked |-> provider.marked, released |-> provider.released]
  BY <1>1, <1>2 DEF PrepareSendToParent, ImportResource, ProviderType
<1>4. provider' \in ProviderType
  BY <1>2, <1>3 DEF ProviderType
<1>5. a \in MessageType /\ a.res = {}
  BY <1>2 DEF SharedBitmap, Call, MessageType, MessageOps
<1>6. ids \in SUBSET Nat /\ soft \in SUBSET Nat /\ m \in MessageType
  BY <1>2 DEF Frame, MessageType, MessageOps
<1>7. pipe' = Append(q, m)
  <2>1. CreateResource(id) = IF Software THEN <<a>> ELSE <<>>
    BY DEF CreateResource, CreateSoftwareResource, CreateGpuResource
  <2> HIDE DEF m, a
  <2>2. /\ pipe \o (<<a>> \o <<m>>) = Append(Append(pipe, a), m)
        /\ <<>> \o <<m>> = <<m>> /\ pipe \o <<m>> = Append(pipe, m)
    BY <1>2, <1>5, <1>6, SendTwo
  <2> QED BY <1>1, <2>1, <2>2
<1> HIDE DEF a
<1>8. /\ q \in Seq(MessageType) /\ Carried(q) = Carried(pipe) /\ Disjoint(q)
      /\ \A i \in 1..Len(q) : q[i].res # {} => q[i].op = "SubmitCompositorFrame"
  BY <1>2, <1>5, SendNothing DEF OnlyFramesCarry
<1> HIDE DEF q
<1>9. /\ SinkInv' /\ InUse' = InUse \cup ids
      /\ ids \cap (provider.imported \cup provider.released) = {}
  <2>1. Head(queue).op \notin Returns
    BY <1>1 DEF Returns
  <2>2. UNCHANGED <<needsBeginFrame, bitmaps, active, shown, retired, held, ackPending>>
    BY <1>1 DEF remoteVars
  <2>3. provider'.next >= id /\ \A x \in ids : id <= x /\ x < provider'.next
    <3>1. provider'.next = id + 1
      BY <1>3
    <3> HIDE DEF id
    <3> QED BY <1>2, <3>1
  <2>4. /\ provider'.imported = provider.imported \cup ids
        /\ provider'.exported = provider.exported \cup ids
        /\ provider'.marked = provider.marked /\ provider'.released = provider.released
    BY <1>3
  <2>5. pipe' = Append(q, Frame(ids, soft, points))
    BY <1>7
  <2> HIDE DEF ids, soft, m
  <2>6. /\ SinkInv /\ queue # <<>> /\ queue' = Tail(queue)
        /\ ids \in SUBSET Nat /\ soft \in SUBSET Nat /\ points \in Nat
    BY <1>1, <1>2, <1>6
  <2> QED BY <1>4, <1>8, <2>1, <2>2, <2>3, <2>4, <2>5, <2>6, FrameInv
<1>10. ClientTyped'
  BY <1>1 DEF IndInv, ClientTyped, mainVars
<1>11. RootDrawsNothing'
  BY <1>1, RootTail DEF mainVars
<1>12. /\ StartTyped' /\ (manager => g_gpu_task_runner)'
       /\ Draws(tasks, g_gpu_task_runner, activated, redraws)'
  BY <1>1, UnseenByStart
<1>13. PromiseKept
  <2>1. provider'.imported = provider.imported \cup ids /\ provider'.released = provider.released
    BY <1>3
  <2> HIDE DEF ids
  <2> QED BY <1>9, <2>1, FrameLends
<1> QED BY <1>9, <1>10, <1>11, <1>12, <1>13 DEF IndInv

-----------------------------------------------------------------------------
(***************************************************************************)
(* The service.                                                            *)
(***************************************************************************)
\* What the service does never asks the root to draw.
LEMMA ServiceDrawsNothing ==
  ASSUME IndInv, Service, UNCHANGED role
  PROVE  RootDrawsNothing'
<1>1. /\ "OnBeginFrame" \in TaskOps /\ "DidReceiveCompositorFrameAck" \in TaskOps
      /\ "ReclaimResources" \in TaskOps /\ {} \in SUBSET Nat
      /\ held \in SUBSET Nat /\ retired \in SUBSET Nat
  BY DEF TaskOps, IndInv, SinkInv, SinkTypeOK
<1>2. CASE UNCHANGED queue
  BY <1>2 DEF IndInv, RootDrawsNothing
<1>3. ASSUME NEW op \in TaskOps, NEW res \in SUBSET Nat, op # "Draw",
             queue' = Append(queue, Task(op, res))
      PROVE  RootDrawsNothing'
  BY <1>3, RootAppend
<1>4. CASE ServiceReceive \/ ServiceHoldResources
  <2>1. UNCHANGED queue
    BY <1>4 DEF ServiceReceive, ServiceSetNeedsBeginFrame, ServiceDidAllocateSharedBitmap,
                ServiceSubmitCompositorFrame, ServiceDidNotProduceFrame, ServiceHoldResources
  <2> QED BY <1>2, <2>1
<1>5. CASE ServiceBeginFrame
  <2>1. queue' = Append(queue, Task("OnBeginFrame", {}))
    BY <1>5 DEF ServiceBeginFrame
  <2> QED BY <1>1, <1>3, <2>1
<1>6. CASE ServiceAck
  <2>1. queue' = Append(queue, Task("DidReceiveCompositorFrameAck", held))
    BY <1>6 DEF ServiceAck
  <2> QED BY <1>1, <1>3, <2>1
<1>7. CASE ServiceReclaimResources
  <2>1. PICK ids \in (SUBSET retired) \ {{}} :
          queue' = Append(queue, Task("ReclaimResources", ids))
    BY <1>7 DEF ServiceReclaimResources
  <2>2. ids \in SUBSET Nat
    BY <1>1, <2>1
  <2> QED BY <1>1, <1>3, <2>1, <2>2
<1> QED BY <1>4, <1>5, <1>6, <1>7 DEF Service

\* A frame the service takes is activated, and told to the main thread: only the
\* manager takes frames, and it is made after the globals are set.
LEMMA VizServiceInv ==
  ASSUME IndInv, Receive \/ Vsync \/ Ack \/ Return
  PROVE  IndInv' /\ PromiseKept
<1>1. Service /\ UNCHANGED <<startVars, redraws, mainVars, ownVars>>
  BY DEF Receive, Vsync, Ack, Return, Unseen, Service
<1>2. SinkInv'
  BY <1>1, ServiceInv DEF IndInv
<1>3. RootDrawsNothing'
  BY <1>1, ServiceDrawsNothing DEF mainVars
<1>4. ClientTyped'
  <2>1. vsyncs' \in 0..MaxVsyncs
    BY BoundsAssumption DEF Receive, Vsync, Ack, Return, IndInv, ClientTyped
  <2> QED BY <1>1, <2>1 DEF IndInv, ClientTyped, mainVars, ownVars
<1>5. StartTyped' /\ UNCHANGED <<g_gpu_task_runner, manager, redraws>>
  BY <1>1 DEF IndInv, StartTyped, startVars, hostVars, gpuVars
<1>6. Draws(tasks', g_gpu_task_runner, activated', redraws)
  <2>1. /\ Draws(tasks, g_gpu_task_runner, activated, redraws)
        /\ g_gpu_task_runner \in BOOLEAN /\ (manager => g_gpu_task_runner)
    BY DEF IndInv, StartTyped
  <2>2. CASE UNCHANGED <<activated, tasks>>
    BY <2>1, <2>2
  <2>3. CASE /\ manager /\ activated' = activated + 1
             /\ tasks' = [tasks EXCEPT !["main"] = Append(@, "OnFrameTokenChanged")]
    <3> DEFINE g == g_gpu_task_runner
               t == "main"
               e == "OnFrameTokenChanged"
               n == IF e \in {"Redraw", "OnFrameTokenChanged"} THEN activated + 1 ELSE activated
    <3>1. /\ Draws(tasks, g, activated, redraws) /\ g \in BOOLEAN /\ g
          /\ t \in Threads /\ e \in TaskNames[t] /\ e # "CreateFrameSinkManager"
          /\ tasks' = [tasks EXCEPT ![t] = Append(@, e)] /\ activated' = n
      BY <2>1, <2>3, ThreadsAre
    <3> HIDE DEF g, t, e
    <3>2. Draws([tasks EXCEPT ![t] = Append(@, e)], g, n, redraws)
      BY <3>1, PostDraws
    <3> QED BY <3>1, <3>2 DEF g
  <2> QED BY <2>2, <2>3 DEF Receive, Vsync, Ack, Return
<1>7. PromiseKept
  BY <1>1, ServicePromise DEF IndInv
<1> QED BY <1>2, <1>3, <1>4, <1>5, <1>6, <1>7 DEF IndInv

-----------------------------------------------------------------------------
(***************************************************************************)
(* The theorems.                                                           *)
(***************************************************************************)
\* What the start-up, the main thread and the GPU main thread do is no business of the
\* client's provider.
LEMMA OthersLendNothing ==
  ASSUME MainThread \/ DidProcessEvent \/ HostIo \/ GpuMain \/ DeliverRequest
         \/ EstablishGpuChannelReply
  PROVE  PromiseKept
<1>1. UNCHANGED <<provider, pipe, active, retired, held>>
  BY DEF MainThread, DidProcessEvent, HostIo, GpuMain, Construct, OnEstablishedOnMain,
         OnFrameTokenChanged, InitIPCServer, InitVizHost, OnEstablishedOnIO, InitIPCClient,
         InitVizMain, OnAssociatedInterfaceRequest, OnGpuServiceConnection,
         CreateFrameSinkManager, Redraw, DeliverRequest, EstablishGpuChannelReply,
         sinkVars, remoteVars
<1>2. InUse' = InUse
  BY <1>1 DEF InUse
<1> QED BY <1>1, <1>2, NothingLent

\* Every step keeps IndInv and the promise of BufferOwnership.
LEMMA StepInv ==
  ASSUME IndInv, [Next]_vars
  PROVE  IndInv' /\ PromiseKept
<1>1. CASE MainThread \/ DidProcessEvent
  BY <1>1, ConstructInv, MainLoopInv, OnFrameTokenChangedInv, OthersLendNothing DEF MainThread
<1>2. CASE HostIo \/ GpuMain \/ DeliverRequest \/ EstablishGpuChannelReply
  BY <1>2, HostIoInv, GpuMainInv, DeliveryInv, OthersLendNothing
<1>3. CASE ClientThread
  <2>1. CASE DidReceiveCompositorFrameAck \/ ReclaimResources
    BY <2>1, TakeBackStep
  <2>2. CASE SetContextProvider \/ RootBindOnThread \/ InkBind \/ InkDraw
    BY <2>2, CallStep
  <2>3. CASE RootOnBeginFrame
    BY <2>3, CallStep, RootFrameStep DEF RootSkips
  <2>4. CASE InkOnBeginFrame
    BY <2>4, CallStep, InkFrameStep DEF InkSkips
  <2> QED BY <1>3, <2>1, <2>2, <2>3, <2>4 DEF ClientThread
<1>4. CASE Receive \/ Vsync \/ Ack \/ Return
  BY <1>4, VizServiceInv
<1>5. CASE UNCHANGED vars
  <2>1. UNCHANGED <<sinkVars, startVars, tasks, drawVars, mainVars, vsyncs, ownVars>>
    BY <1>5 DEF vars
  <2>2. PromiseKept
    <3>1. InUse' = InUse
      BY <2>1, StutterInv DEF IndInv
    <3> QED BY <2>1, <3>1, NothingLent DEF sinkVars
  <2> QED BY <2>1, <2>2, UnseenByClient, UnseenByStart DEF IndInv
<1> QED BY <1>1, <1>2, <1>3, <1>4, <1>5 DEF Next

\* IndInv is an inductive invariant, for any FramePeriod and any number of
\* BeginFrames and of events.
THEOREM Invariance == Spec => []IndInv
<1>1. Init => IndInv
  BY InitInv
<1>2. IndInv /\ [Next]_vars => IndInv'
  BY StepInv
<1> QED BY <1>1, <1>2, PTL DEF Spec

\* IndInv says what the property says: a task that draws finds the globals.
LEMMA IndInvDraws == IndInv => RedrawAfterInitHostMain
<1> SUFFICES ASSUME IndInv PROVE RedrawAfterInitHostMain
  OBVIOUS
<1>1. /\ \A t \in Threads : tasks[t] \in Seq(TaskNames[t])
      /\ GlobalsFirst(tasks["gpu_main"], g_gpu_task_runner)
      /\ ToldAfter(tasks["main"], g_gpu_task_runner)
      /\ activated \in Nat /\ redraws \in Nat
      /\ activated = redraws + Count(tasks["main"], "OnFrameTokenChanged")
                       + Count(tasks["gpu_main"], "Redraw")
  BY DEF IndInv, Draws
<1>2. redraws \in 0..activated
  <2>1. /\ Count(tasks["main"], "OnFrameTokenChanged") \in Nat
        /\ Count(tasks["gpu_main"], "Redraw") \in Nat
    BY <1>1, CountFinite, ThreadsAre
  <2> QED BY <1>1, <2>1
<1>3. TypeOK
  <2>1. SinkTypeOK /\ StartTyped /\ ClientTyped
    BY DEF IndInv, SinkInv
  <2>2. posted \in 0..Len(Posts)
    BY <2>1, PostsAre DEF StartTyped
  <2>3. \A b \in {server_channel_, client_channel_, viz_main_, gpu_service, g_gpu_task_runner,
                  manager, bound, context_provider, need_redraw} : b \in BOOLEAN
    BY <2>1 DEF StartTyped, ClientTyped
  <2> QED BY <1>1, <1>2, <2>1, <2>2, <2>3 DEF TypeOK, StartTyped, ClientTyped
<1>4. ASSUME Running("main", "OnFrameTokenChanged") PROVE g_gpu_task_runner
  <2>1. "main" \in Threads
    BY ThreadsAre
  <2>2. 1 \in 1..Len(tasks["main"]) /\ tasks["main"][1] = "OnFrameTokenChanged"
    BY <1>4, <2>1, RunningTask
  <2> QED BY <1>1, <2>2 DEF ToldAfter
<1>5. ASSUME Running("gpu_main", "Redraw") PROVE g_gpu_task_runner
  <2>1. "gpu_main" \in Threads
    BY ThreadsAre
  <2>2. 1 \in 1..Len(tasks["gpu_main"]) /\ tasks["gpu_main"][1] = "Redraw"
    BY <1>5, <2>1, RunningTask
  <2> QED BY <1>1, <2>2 DEF GlobalsFirst
<1> QED BY <1>3, <1>4, <1>5 DEF RedrawAfterInitHostMain

\* Redraw never runs, on either thread, before InitHostMain has set the globals it
\* reads, though nothing in the demo waits for InitHostMain: only the manager
\* activates frames, and its call waits behind CreateGpuService in the pipe.
THEOREM NothingDrawnBeforeInitHostMain == Spec => []RedrawAfterInitHostMain
BY Invariance, IndInvDraws, PTL

\* A frame the display activates has been drawn, or is on its way to be: it is a
\* task of the main thread or of the GPU main thread, and none is drawn twice.
THEOREM ActivatedOrOnTheWay ==
  Spec => [](activated = redraws + Count(tasks["main"], "OnFrameTokenChanged")
                          + Count(tasks["gpu_main"], "Redraw"))
<1>1. IndInv => activated = redraws + Count(tasks["main"], "OnFrameTokenChanged")
                              + Count(tasks["gpu_main"], "Redraw")
  BY DEF IndInv, Draws
<1> QED BY <1>1, Invariance, PTL

\* Whatever the client, the interleaving and the pace of the display, every resource
\* is at one place and none that is released is still under way or on display.
THEOREM ResourcesAreConserved == Spec => []Conservation
<1>1. IndInv => Conservation
  BY DEF IndInv, SinkInv
<1> QED BY <1>1, Invariance, PTL

\* Either client keeps the promise of BufferOwnership: what it has lent stays lent
\* until the service gives it back, and is freed once.
THEOREM KeepsOwnership == Spec => Promise!Spec
<1>1. Init => Promise!Init
  BY PromiseStarts DEF Init
<1>2. IndInv /\ [Next]_vars => [Promise!Next]_(Promise!vars)
  BY StepInv DEF PromiseKept
<1> QED BY <1>1, <1>2, Invariance, PTL DEF Spec, Promise!Spec
===============================================================================
