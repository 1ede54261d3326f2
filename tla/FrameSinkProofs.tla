---------------------------- MODULE FrameSinkProofs ----------------------------
(***************************************************************************)
(* What both clients of FrameSink rely on: lemmas about queues that carry  *)
(* resources, and the proof that no step of the service and no return of   *)
(* resources breaks SinkInv or the promise of BufferOwnership.             *)
(***************************************************************************)
EXTENDS FrameSink, TLAPS

-----------------------------------------------------------------------------
(***************************************************************************)
(* Queues that carry resources.                                            *)
(***************************************************************************)
\* A resource is carried by a queue when one of its elements carries it.
LEMMA CarriedBy ==
  ASSUME NEW q, NEW x
  PROVE  x \in Carried(q) <=> \E i \in 1..Len(q) : x \in q[i].res
BY DEF Carried

\* The elements of a queue after an append.
LEMMA AppendElements ==
  ASSUME NEW S, NEW q \in Seq(S), NEW e \in S
  PROVE  /\ Append(q, e) \in Seq(S)
         /\ Len(Append(q, e)) = Len(q) + 1
         /\ Append(q, e)[Len(q) + 1] = e
         /\ \A i \in 1..Len(q) : Append(q, e)[i] = q[i]
OBVIOUS

\* The elements of a queue after its first one has been taken.
LEMMA TailElements ==
  ASSUME NEW S, NEW q \in Seq(S), q # <<>>
  PROVE  /\ Tail(q) \in Seq(S)
         /\ Len(q) \in Nat \ {0}
         /\ Len(Tail(q)) = Len(q) - 1
         /\ Head(q) = q[1] /\ Head(q) \in S
         /\ \A i \in 1..Len(Tail(q)) : Tail(q)[i] = q[i + 1]
OBVIOUS

\* An append adds what the new element carries.
LEMMA CarriedAppend ==
  ASSUME NEW S, NEW q \in Seq(S), NEW e \in S
  PROVE  Carried(Append(q, e)) = Carried(q) \cup e.res
<1> DEFINE a == Append(q, e)
<1>1. /\ Len(q) \in Nat /\ Len(a) = Len(q) + 1 /\ a[Len(q) + 1] = e
      /\ \A i \in 1..Len(q) : a[i] = q[i]
  BY AppendElements
<1>2. \A x : x \in Carried(q) <=> \E i \in 1..Len(q) : x \in q[i].res
  BY CarriedBy
<1>3. \A x : x \in Carried(a) <=> \E i \in 1..Len(a) : x \in a[i].res
  BY CarriedBy
<1> HIDE DEF a
<1>4. ASSUME NEW x \in Carried(a) PROVE x \in Carried(q) \cup e.res
  <2>1. PICK i \in 1..Len(a) : x \in a[i].res
    BY <1>3
  <2>2. i = Len(q) + 1 \/ i \in 1..Len(q)
    BY <1>1
  <2> QED BY <1>1, <1>2, <2>1, <2>2
<1>5. ASSUME NEW x \in Carried(q) PROVE x \in Carried(a)
  <2>1. PICK i \in 1..Len(q) : x \in q[i].res
    BY <1>2
  <2>2. i \in 1..Len(a) /\ a[i] = q[i]
    BY <1>1
  <2> QED BY <1>3, <2>1, <2>2
<1>6. ASSUME NEW x \in e.res PROVE x \in Carried(a)
  <2>1. Len(q) + 1 \in 1..Len(a) /\ a[Len(q) + 1] = e
    BY <1>1
  <2> QED BY <1>3, <1>6, <2>1
<1>7. Carried(a) = Carried(q) \cup e.res
  BY <1>4, <1>5, <1>6
<1> QED BY <1>7 DEF a

\* What a queue carries is carried by its head or by its tail.
LEMMA CarriedTail ==
  ASSUME NEW S, NEW q \in Seq(S), q # <<>>
  PROVE  Carried(q) = Head(q).res \cup Carried(Tail(q))
<1>1. ASSUME NEW x \in Carried(q) PROVE x \in Head(q).res \cup Carried(Tail(q))
  <2>1. PICK i \in 1..Len(q) : x \in q[i].res
    BY CarriedBy
  <2>2. CASE i = 1
    BY <2>1, <2>2, TailElements
  <2>3. CASE i # 1
    <3>1. i - 1 \in 1..Len(Tail(q)) /\ Tail(q)[i - 1] = q[i]
      BY <2>3, TailElements
    <3> QED BY <2>1, <3>1, CarriedBy
  <2> QED BY <2>2, <2>3
<1>2. ASSUME NEW x \in Head(q).res PROVE x \in Carried(q)
  BY <1>2, CarriedBy, TailElements
<1>3. ASSUME NEW x \in Carried(Tail(q)) PROVE x \in Carried(q)
  <2>1. PICK i \in 1..Len(Tail(q)) : x \in Tail(q)[i].res
    BY <1>3, CarriedBy
  <2>2. i + 1 \in 1..Len(q) /\ x \in q[i + 1].res
    BY <2>1, TailElements
  <2> QED BY <2>2, CarriedBy
<1> QED BY <1>1, <1>2, <1>3

\* An append keeps a queue's elements apart when what it adds is new there.
LEMMA DisjointAppend ==
  ASSUME NEW S, NEW q \in Seq(S), NEW e \in S,
         Disjoint(q), e.res \cap Carried(q) = {}
  PROVE  Disjoint(Append(q, e))
<1> SUFFICES ASSUME NEW i \in 1..(Len(q) + 1), NEW j \in 1..(Len(q) + 1), i # j
             PROVE  Append(q, e)[i].res \cap Append(q, e)[j].res = {}
  BY AppendElements DEF Disjoint
<1>1. \A k \in 1..Len(q) : q[k].res \cap e.res = {}
  BY CarriedBy
<1>2. CASE i = Len(q) + 1
  BY <1>1, <1>2, AppendElements
<1>3. CASE j = Len(q) + 1
  BY <1>1, <1>3, AppendElements
<1>4. CASE i # Len(q) + 1 /\ j # Len(q) + 1
  BY <1>4, AppendElements DEF Disjoint
<1> QED BY <1>2, <1>3, <1>4

\* In a queue whose elements are apart, what the head carries is not in the tail.
LEMMA DisjointTail ==
  ASSUME NEW S, NEW q \in Seq(S), q # <<>>, Disjoint(q)
  PROVE  Disjoint(Tail(q)) /\ Head(q).res \cap Carried(Tail(q)) = {}
<1>1. Disjoint(Tail(q))
  BY TailElements DEF Disjoint
<1>2. ASSUME NEW x \in Head(q).res, x \in Carried(Tail(q)) PROVE FALSE
  <2>1. PICK i \in 1..Len(Tail(q)) : x \in Tail(q)[i].res
    BY <1>2, CarriedBy
  <2>2. i + 1 \in 1..Len(q) /\ x \in q[i + 1].res /\ x \in q[1].res /\ 1 \in 1..Len(q)
    BY <1>2, <2>1, TailElements
  <2> QED BY <2>2 DEF Disjoint
<1> QED BY <1>1, <1>2

\* What is appended to a queue, or left of it, keeps a property of its elements.
LEMMA OnlyAppend ==
  ASSUME NEW S, NEW q \in Seq(S), NEW e \in S, NEW ops,
         \A i \in 1..Len(q) : q[i].res # {} => q[i].op \in ops,
         e.res # {} => e.op \in ops
  PROVE  \A i \in 1..Len(Append(q, e)) :
           Append(q, e)[i].res # {} => Append(q, e)[i].op \in ops
<1> TAKE i \in 1..Len(Append(q, e))
<1>1. i = Len(q) + 1 \/ i \in 1..Len(q)
  BY AppendElements
<1> QED BY <1>1, AppendElements

LEMMA OnlyTail ==
  ASSUME NEW S, NEW q \in Seq(S), q # <<>>, NEW ops,
         \A i \in 1..Len(q) : q[i].res # {} => q[i].op \in ops
  PROVE  /\ \A i \in 1..Len(Tail(q)) : Tail(q)[i].res # {} => Tail(q)[i].op \in ops
         /\ Head(q).op \notin ops => Head(q).res = {}
<1>1. ASSUME NEW i \in 1..Len(Tail(q))
      PROVE  Tail(q)[i].res # {} => Tail(q)[i].op \in ops
  <2>1. i + 1 \in 1..Len(q) /\ Tail(q)[i] = q[i + 1]
    BY TailElements
  <2> QED BY <2>1
<1>2. 1 \in 1..Len(q) /\ Head(q) = q[1]
  BY TailElements
<1> QED BY <1>1, <1>2

-----------------------------------------------------------------------------
(***************************************************************************)
(* The client's queue and its pipe, when SinkInv holds.                    *)
(***************************************************************************)
Returns == {"DidReceiveCompositorFrameAck", "ReclaimResources"}

LEMMA TaskTyped ==
  ASSUME NEW op \in TaskOps, NEW res \in SUBSET Nat
  PROVE  /\ Task(op, res) \in TaskType
         /\ Task(op, res).op = op /\ Task(op, res).res = res
BY DEF Task, TaskType

\* A task is appended to the client's queue.
LEMMA QueueAppend ==
  ASSUME SinkInv, NEW op \in TaskOps, NEW res \in SUBSET Nat,
         res \cap Carried(queue) = {}, res # {} => op \in Returns,
         queue' = Append(queue, Task(op, res))
  PROVE  /\ queue' \in Seq(TaskType)
         /\ Carried(queue') = Carried(queue) \cup res
         /\ Disjoint(queue')
         /\ OnlyReturnsCarry'
<1>1. /\ Task(op, res) \in TaskType
      /\ Task(op, res).op = op /\ Task(op, res).res = res
  BY TaskTyped
<1>2. queue \in Seq(TaskType) /\ Disjoint(queue) /\ OnlyReturnsCarry
  BY DEF SinkInv, SinkTypeOK, Conservation, OnePlace
<1>3. queue' \in Seq(TaskType)
  BY <1>1, <1>2, AppendElements
<1>4. Carried(queue') = Carried(queue) \cup res
  BY <1>1, <1>2, CarriedAppend
<1>5. Disjoint(queue')
  BY <1>1, <1>2, DisjointAppend
<1>6. OnlyReturnsCarry'
  BY <1>1, <1>2, OnlyAppend DEF OnlyReturnsCarry, Returns
<1> QED BY <1>3, <1>4, <1>5, <1>6

\* The client takes the first task of its queue.
LEMMA QueueTail ==
  ASSUME SinkInv, queue # <<>>, queue' = Tail(queue)
  PROVE  /\ queue' \in Seq(TaskType)
         /\ Carried(queue) = Head(queue).res \cup Carried(queue')
         /\ Head(queue).res \cap Carried(queue') = {}
         /\ Disjoint(queue')
         /\ OnlyReturnsCarry'
         /\ Head(queue) \in TaskType
         /\ Head(queue).op \notin Returns => Head(queue).res = {}
<1>1. queue \in Seq(TaskType) /\ Disjoint(queue) /\ OnlyReturnsCarry
  BY DEF SinkInv, SinkTypeOK, Conservation, OnePlace
<1>2. queue' \in Seq(TaskType) /\ Head(queue) \in TaskType
  BY <1>1, TailElements
<1>3. Carried(queue) = Head(queue).res \cup Carried(queue')
  BY <1>1, CarriedTail
<1>4. Disjoint(queue') /\ Head(queue).res \cap Carried(queue') = {}
  BY <1>1, DisjointTail
<1>5. OnlyReturnsCarry' /\ (Head(queue).op \notin Returns => Head(queue).res = {})
  BY <1>1, OnlyTail DEF OnlyReturnsCarry, Returns
<1> QED BY <1>2, <1>3, <1>4, <1>5

\* A message is appended to a pipe.
LEMMA PipeAppend ==
  ASSUME NEW p \in Seq(MessageType), NEW m \in MessageType, Disjoint(p),
         \A i \in 1..Len(p) : p[i].res # {} => p[i].op = "SubmitCompositorFrame",
         m.res \cap Carried(p) = {}, m.res # {} => m.op = "SubmitCompositorFrame"
  PROVE  /\ Append(p, m) \in Seq(MessageType)
         /\ Carried(Append(p, m)) = Carried(p) \cup m.res
         /\ Disjoint(Append(p, m))
         /\ \A i \in 1..Len(Append(p, m)) :
              Append(p, m)[i].res # {} => Append(p, m)[i].op = "SubmitCompositorFrame"
<1>1. Append(p, m) \in Seq(MessageType)
  BY AppendElements
<1>2. Carried(Append(p, m)) = Carried(p) \cup m.res
  BY CarriedAppend
<1>3. Disjoint(Append(p, m))
  BY DisjointAppend
<1>4. \A i \in 1..Len(p) : p[i].res # {} => p[i].op \in {"SubmitCompositorFrame"}
  OBVIOUS
<1>5. m.res # {} => m.op \in {"SubmitCompositorFrame"}
  OBVIOUS
<1>6. \A i \in 1..Len(Append(p, m)) :
        Append(p, m)[i].res # {} => Append(p, m)[i].op \in {"SubmitCompositorFrame"}
  BY <1>4, <1>5, OnlyAppend
<1> QED BY <1>1, <1>2, <1>3, <1>6

\* The service takes the first message of the pipe.
LEMMA PipeTail ==
  ASSUME SinkInv, pipe # <<>>, pipe' = Tail(pipe)
  PROVE  /\ pipe' \in Seq(MessageType)
         /\ Carried(pipe) = Head(pipe).res \cup Carried(pipe')
         /\ Head(pipe).res \cap Carried(pipe') = {}
         /\ Disjoint(pipe')
         /\ OnlyFramesCarry'
         /\ Head(pipe) \in MessageType
         /\ Head(pipe).op # "SubmitCompositorFrame" => Head(pipe).res = {}
<1>1. pipe \in Seq(MessageType) /\ Disjoint(pipe) /\ OnlyFramesCarry
  BY DEF SinkInv, SinkTypeOK, Conservation, OnePlace
<1>2. pipe' \in Seq(MessageType) /\ Head(pipe) \in MessageType
  BY <1>1, TailElements
<1>3. Carried(pipe) = Head(pipe).res \cup Carried(pipe')
  BY <1>1, CarriedTail
<1>4. Disjoint(pipe') /\ Head(pipe).res \cap Carried(pipe') = {}
  BY <1>1, DisjointTail
<1>5. \A i \in 1..Len(pipe) : pipe[i].res # {} => pipe[i].op \in {"SubmitCompositorFrame"}
  BY <1>1 DEF OnlyFramesCarry
<1>6. /\ \A i \in 1..Len(Tail(pipe)) :
           Tail(pipe)[i].res # {} => Tail(pipe)[i].op \in {"SubmitCompositorFrame"}
      /\ Head(pipe).op \notin {"SubmitCompositorFrame"} => Head(pipe).res = {}
  BY <1>1, <1>5, OnlyTail
<1>7. OnlyFramesCarry' /\ (Head(pipe).op # "SubmitCompositorFrame" => Head(pipe).res = {})
  BY <1>6 DEF OnlyFramesCarry
<1> QED BY <1>2, <1>3, <1>4, <1>7

-----------------------------------------------------------------------------
(***************************************************************************)
(* The service.                                                            *)
(***************************************************************************)
\* No step of the service breaks SinkInv.
LEMMA ServiceInv ==
  ASSUME SinkInv, Service
  PROVE  SinkInv'
<1> USE DEF Is
<1>1. CASE ServiceSetNeedsBeginFrame
  <2>1. pipe # <<>> /\ pipe' = Tail(pipe) /\ Head(pipe).op # "SubmitCompositorFrame"
    BY <1>1 DEF ServiceSetNeedsBeginFrame
  <2>2. Carried(pipe') = Carried(pipe)
    BY <2>1, PipeTail
  <2> QED
    BY <1>1, <2>1, <2>2, PipeTail
    DEF ServiceSetNeedsBeginFrame, SinkInv, SinkTypeOK, Conservation, OnePlace, InUse,
        Returning, OnlyReturnsCarry
<1>2. CASE ServiceDidAllocateSharedBitmap
  <2>1. pipe # <<>> /\ pipe' = Tail(pipe) /\ Head(pipe).op # "SubmitCompositorFrame"
    BY <1>2 DEF ServiceDidAllocateSharedBitmap
  <2>2. Carried(pipe') = Carried(pipe) /\ Head(pipe).soft \in SUBSET Nat
    BY <2>1, PipeTail DEF MessageType
  <2> QED
    BY <1>2, <2>1, <2>2, PipeTail
    DEF ServiceDidAllocateSharedBitmap, SinkInv, SinkTypeOK, Conservation, OnePlace,
        InUse, Returning, OnlyReturnsCarry
<1>3. CASE ServiceSubmitCompositorFrame
  <2>1. pipe # <<>> /\ pipe' = Tail(pipe)
    BY <1>3 DEF ServiceSubmitCompositorFrame
  <2>2. Head(pipe).res \in SUBSET Nat /\ Head(pipe).content \in Nat
    BY <2>1, PipeTail DEF MessageType
  <2>3. /\ active' = Head(pipe).res /\ retired' = retired \cup active
        /\ shown' = Head(pipe).content /\ ackPending' = ackPending + 1
        /\ UNCHANGED <<queue, provider, needsBeginFrame, bitmaps, held>>
    BY <1>3 DEF ServiceSubmitCompositorFrame
  <2>4. SinkTypeOK'
    BY <2>1, <2>2, <2>3, PipeTail DEF SinkInv, SinkTypeOK
  <2>5. InUse' = InUse /\ Returning' = Returning
    BY <2>1, <2>3, PipeTail DEF InUse, Returning
  <2>6. OnePlace'
    BY <2>1, <2>3, <2>5, PipeTail DEF SinkInv, Conservation, OnePlace, InUse
  <2>7. Conservation'
    BY <2>3, <2>5, <2>6 DEF SinkInv, Conservation
  <2> QED
    BY <2>1, <2>3, <2>4, <2>7, PipeTail DEF SinkInv, OnlyReturnsCarry
<1>4. CASE ServiceDidNotProduceFrame
  <2>1. pipe # <<>> /\ pipe' = Tail(pipe) /\ Head(pipe).op # "SubmitCompositorFrame"
    BY <1>4 DEF ServiceDidNotProduceFrame
  <2>2. Carried(pipe') = Carried(pipe)
    BY <2>1, PipeTail
  <2> QED
    BY <1>4, <2>1, <2>2, PipeTail
    DEF ServiceDidNotProduceFrame, SinkInv, SinkTypeOK, Conservation, OnePlace, InUse,
        Returning, OnlyReturnsCarry
<1>5. CASE ServiceBeginFrame
  <2>1. "OnBeginFrame" \in TaskOps /\ {} \cap Carried(queue) = {}
    BY DEF TaskOps
  <2>2. queue' = Append(queue, Task("OnBeginFrame", {}))
    BY <1>5 DEF ServiceBeginFrame
  <2>3. queue' \in Seq(TaskType) /\ Carried(queue') = Carried(queue)
        /\ Disjoint(queue') /\ OnlyReturnsCarry'
    BY <2>1, <2>2, QueueAppend
  <2> QED
    BY <1>5, <2>3
    DEF ServiceBeginFrame, SinkInv, SinkTypeOK, Conservation, OnePlace, InUse, Returning,
        OnlyFramesCarry
<1>6. CASE ServiceAck
  <2>1. /\ "DidReceiveCompositorFrameAck" \in TaskOps \cap Returns
        /\ held \in SUBSET Nat /\ held \cap Carried(queue) = {}
    BY DEF TaskOps, Returns, SinkInv, SinkTypeOK, Conservation, OnePlace
  <2>2. queue' = Append(queue, Task("DidReceiveCompositorFrameAck", held))
    BY <1>6 DEF ServiceAck
  <2>3. queue' \in Seq(TaskType) /\ Carried(queue') = Carried(queue) \cup held
        /\ Disjoint(queue') /\ OnlyReturnsCarry'
    BY <2>1, <2>2, QueueAppend
  <2>4. /\ ackPending > 0 /\ ackPending' = ackPending - 1 /\ held' = {}
        /\ UNCHANGED <<provider, pipe, needsBeginFrame, bitmaps, active, shown, retired>>
    BY <1>6 DEF ServiceAck
  <2>5. SinkTypeOK'
    BY <2>3, <2>4 DEF SinkInv, SinkTypeOK
  <2>6. InUse' = InUse /\ Returning' = Returning
    BY <2>3, <2>4 DEF InUse, Returning
  <2>7. Conservation'
    BY <2>3, <2>4, <2>6 DEF SinkInv, Conservation, OnePlace
  <2> QED
    BY <2>3, <2>4, <2>5, <2>7 DEF SinkInv, OnlyFramesCarry
<1>7. CASE ServiceHoldResources
  BY <1>7
  DEF ServiceHoldResources, SinkInv, SinkTypeOK, Conservation, OnePlace, InUse, Returning,
      OnlyFramesCarry, OnlyReturnsCarry
<1>8. CASE ServiceReclaimResources
  <2>1. PICK ids \in (SUBSET retired) \ {{}} :
          /\ retired' = retired \ ids
          /\ queue' = Append(queue, Task("ReclaimResources", ids))
    BY <1>8 DEF ServiceReclaimResources
  <2>2. /\ "ReclaimResources" \in TaskOps \cap Returns
        /\ ids \in SUBSET Nat /\ ids \cap Carried(queue) = {}
    BY <2>1 DEF TaskOps, Returns, SinkInv, SinkTypeOK, Conservation, OnePlace, InUse,
                Returning
  <2>3. queue' \in Seq(TaskType) /\ Carried(queue') = Carried(queue) \cup ids
        /\ Disjoint(queue') /\ OnlyReturnsCarry'
    BY <2>1, <2>2, QueueAppend
  <2> QED
    BY <1>8, <2>1, <2>3
    DEF ServiceReclaimResources, SinkInv, SinkTypeOK, Conservation, OnePlace, InUse,
        Returning, OnlyFramesCarry
<1> QED
  BY <1>1, <1>2, <1>3, <1>4, <1>5, <1>6, <1>7, <1>8 DEF Service, ServiceReceive

\* A step of the service either gives resources back or leaves what it may read
\* as it is; it never touches the client's provider.
LEMMA ServiceGivesBack ==
  ASSUME SinkInv, Service
  PROVE  InUse' \subseteq InUse /\ UNCHANGED provider
<1> USE DEF Is
<1>1. CASE ServiceReceive
  <2>1. pipe # <<>> /\ pipe' = Tail(pipe)
    BY <1>1 DEF ServiceReceive, ServiceSetNeedsBeginFrame, ServiceDidAllocateSharedBitmap,
                ServiceSubmitCompositorFrame, ServiceDidNotProduceFrame
  <2> QED
    BY <1>1, <2>1, PipeTail
    DEF ServiceReceive, ServiceSetNeedsBeginFrame, ServiceDidAllocateSharedBitmap,
        ServiceSubmitCompositorFrame, ServiceDidNotProduceFrame, InUse
<1>2. CASE ServiceBeginFrame \/ ServiceAck \/ ServiceHoldResources \/ ServiceReclaimResources
  BY <1>2
  DEF ServiceBeginFrame, ServiceAck, ServiceHoldResources, ServiceReclaimResources, InUse
<1> QED BY <1>1, <1>2 DEF Service

-----------------------------------------------------------------------------
(***************************************************************************)
(* The client.                                                             *)
(***************************************************************************)
\* Nothing has been lent before the client starts.
LEMMA SinkInitInv ==
  ASSUME SinkInit
  PROVE  SinkInv /\ InUse = {}
<1>1. NewProvider \in ProviderType
  BY DEF NewProvider, ProviderType
<1>2. queue = <<>> /\ pipe = <<>> /\ provider = NewProvider
  BY DEF SinkInit
<1>3. Carried(queue) = {} /\ Carried(pipe) = {}
  BY <1>2, CarriedBy
<1>4. InUse = {} /\ Returning = {}
  BY <1>3 DEF SinkInit, InUse, Returning
<1>5. Conservation
  BY <1>3, <1>4 DEF SinkInit, NewProvider, Conservation, OnePlace, Disjoint
<1>6. SinkTypeOK
  <2>1. queue \in Seq(TaskType) /\ pipe \in Seq(MessageType)
    BY <1>2
  <2> QED BY <1>1, <2>1 DEF SinkInit, SinkTypeOK
<1> QED
  BY <1>4, <1>5, <1>6 DEF SinkInit, NewProvider, SinkInv, OnlyReturnsCarry, OnlyFramesCarry

\* A step that neither the client nor the service takes part in.
LEMMA StutterInv ==
  ASSUME SinkInv, UNCHANGED sinkVars
  PROVE  SinkInv' /\ InUse' = InUse
<1>1. UNCHANGED <<queue, provider, pipe, needsBeginFrame, bitmaps, active, shown, retired,
                  held, ackPending>>
  BY DEF sinkVars
<1>2. SinkTypeOK' /\ InUse' = InUse /\ Returning' = Returning
  BY <1>1 DEF SinkInv, SinkTypeOK, InUse, Returning
<1>3. Conservation'
  BY <1>1, <1>2 DEF SinkInv, Conservation, OnePlace
<1> QED BY <1>1, <1>2, <1>3 DEF SinkInv, OnlyReturnsCarry, OnlyFramesCarry

\* A task that carries nothing is posted to the client's thread.
LEMMA PostInv ==
  ASSUME SinkInv, NEW op \in TaskOps,
         queue' = Append(queue, Task(op, {})),
         UNCHANGED <<provider, pipe, needsBeginFrame, bitmaps, active, shown, retired,
                     held, ackPending>>
  PROVE  SinkInv' /\ InUse' = InUse
<1>1. /\ queue' \in Seq(TaskType) /\ Carried(queue') = Carried(queue)
      /\ Disjoint(queue') /\ OnlyReturnsCarry'
  <2>1. {} \in SUBSET Nat /\ {} \cap Carried(queue) = {}
    OBVIOUS
  <2> QED BY <2>1, QueueAppend
<1>2. InUse' = InUse
  BY DEF InUse
<1> QED
  BY <1>1, <1>2 DEF SinkInv, SinkTypeOK, Conservation, OnePlace, InUse, Returning,
                    OnlyFramesCarry

\* The client runs a task that is no return and sends nothing.
LEMMA RunInv ==
  ASSUME SinkInv, queue # <<>>, Head(queue).op \notin Returns, queue' = Tail(queue),
         UNCHANGED <<provider, pipe, needsBeginFrame, bitmaps, active, shown, retired,
                     held, ackPending>>
  PROVE  SinkInv' /\ InUse' = InUse
<1>1. /\ queue' \in Seq(TaskType) /\ Carried(queue') = Carried(queue)
      /\ Disjoint(queue') /\ OnlyReturnsCarry'
  BY QueueTail
<1>2. InUse' = InUse
  BY DEF InUse
<1> QED
  BY <1>1, <1>2 DEF SinkInv, SinkTypeOK, Conservation, OnePlace, InUse, Returning,
                    OnlyFramesCarry

\* A message that carries nothing, appended to the pipe.
LEMMA SendNothing ==
  ASSUME NEW p \in Seq(MessageType), NEW m \in MessageType, Disjoint(p),
         \A i \in 1..Len(p) : p[i].res # {} => p[i].op = "SubmitCompositorFrame",
         m.res = {}
  PROVE  /\ Append(p, m) \in Seq(MessageType)
         /\ Carried(Append(p, m)) = Carried(p)
         /\ Disjoint(Append(p, m))
         /\ \A i \in 1..Len(Append(p, m)) :
              Append(p, m)[i].res # {} => Append(p, m)[i].op = "SubmitCompositorFrame"
<1>1. m.res \cap Carried(p) = {} /\ Carried(p) \cup m.res = Carried(p)
  OBVIOUS
<1> QED BY <1>1, PipeAppend

\* The client runs a task that is no return and sends a message without resources.
LEMMA CallInv ==
  ASSUME SinkInv, queue # <<>>, Head(queue).op \notin Returns, queue' = Tail(queue),
         NEW op \in MessageOps, pipe' = Append(pipe, Call(op)),
         UNCHANGED <<provider, needsBeginFrame, bitmaps, active, shown, retired,
                     held, ackPending>>
  PROVE  SinkInv' /\ InUse' = InUse
<1>1. /\ queue' \in Seq(TaskType) /\ Carried(queue') = Carried(queue)
      /\ Disjoint(queue') /\ OnlyReturnsCarry'
  BY QueueTail
<1>2. Call(op) \in MessageType /\ Call(op).res = {}
  BY DEF Call, MessageType
<1>3. pipe \in Seq(MessageType) /\ Disjoint(pipe) /\ OnlyFramesCarry
  BY DEF SinkInv, SinkTypeOK, Conservation, OnePlace
<1>4. /\ pipe' \in Seq(MessageType) /\ Carried(pipe') = Carried(pipe)
      /\ Disjoint(pipe') /\ OnlyFramesCarry'
  BY <1>2, <1>3, SendNothing DEF OnlyFramesCarry
<1>5. InUse' = InUse
  BY <1>4 DEF InUse
<1> QED
  BY <1>1, <1>4, <1>5 DEF SinkInv, SinkTypeOK, Conservation, OnePlace, InUse, Returning

\* The client runs a task that is no return, imports and exports resources it has
\* not used before, and sends them in a frame; q is the pipe with what the
\* creation of the frame has sent already.
LEMMA FrameInv ==
  ASSUME SinkInv, queue # <<>>, Head(queue).op \notin Returns, queue' = Tail(queue),
         NEW q \in Seq(MessageType), Carried(q) = Carried(pipe), Disjoint(q),
         \A i \in 1..Len(q) : q[i].res # {} => q[i].op = "SubmitCompositorFrame",
         NEW ids \in SUBSET Nat, NEW soft \in SUBSET Nat, NEW content \in Nat,
         pipe' = Append(q, Frame(ids, soft, content)),
         provider' \in ProviderType,
         provider'.imported = provider.imported \cup ids,
         provider'.exported = provider.exported \cup ids,
         provider'.marked = provider.marked,
         provider'.released = provider.released,
         provider'.next >= provider.next,
         \A id \in ids : provider.next <= id /\ id < provider'.next,
         UNCHANGED <<needsBeginFrame, bitmaps, active, shown, retired, held, ackPending>>
  PROVE  /\ SinkInv'
         /\ InUse' = InUse \cup ids
         /\ ids \cap (provider.imported \cup provider.released) = {}
<1>1. /\ queue' \in Seq(TaskType) /\ Carried(queue') = Carried(queue)
      /\ Disjoint(queue') /\ OnlyReturnsCarry'
  BY QueueTail
<1>2. /\ provider \in ProviderType
      /\ \A id \in provider.imported \cup provider.released : id < provider.next
  BY DEF SinkInv, SinkTypeOK
<1>3. ids \cap (provider.imported \cup provider.released) = {}
  BY <1>2 DEF ProviderType
<1>4. Carried(pipe) \subseteq provider.imported
  BY DEF SinkInv, Conservation, InUse
<1> DEFINE m == Frame(ids, soft, content)
<1>5. m \in MessageType /\ m.res = ids /\ m.op = "SubmitCompositorFrame"
  BY DEF Frame, MessageType, MessageOps
<1> HIDE DEF m
<1>6. m.res \cap Carried(q) = {}
  BY <1>3, <1>4, <1>5
<1>7. /\ pipe' \in Seq(MessageType) /\ Carried(pipe') = Carried(pipe) \cup ids
      /\ Disjoint(pipe') /\ OnlyFramesCarry'
  BY <1>5, <1>6, PipeAppend DEF OnlyFramesCarry, m
<1>8. InUse' = InUse \cup ids /\ Returning' = Returning
  BY <1>1, <1>7 DEF InUse, Returning
<1>9. Conservation'
  <2>1. OnePlace'
    BY <1>1, <1>3, <1>7, <1>8 DEF SinkInv, Conservation, OnePlace, InUse, Returning
  <2> QED BY <1>3, <1>8, <2>1 DEF SinkInv, Conservation
<1>10. SinkTypeOK'
  BY <1>1, <1>7 DEF SinkInv, SinkTypeOK
<1>11. \A id \in provider'.imported \cup provider'.released : id < provider'.next
  BY <1>2 DEF ProviderType
<1> QED BY <1>1, <1>3, <1>7, <1>8, <1>9, <1>10, <1>11 DEF SinkInv

\* A resource is imported into a provider.
LEMMA ImportResult ==
  ASSUME NEW p \in ProviderType
  PROVE  /\ ImportResource(p) =
              [next |-> p.next + 1, imported |-> p.imported \cup {p.next},
               exported |-> p.exported, marked |-> p.marked, released |-> p.released]
         /\ ImportResource(p) \in ProviderType
<1> DEFINE id == p.next + 1
           more == p.imported \cup {p.next}
           r == [p EXCEPT !.imported = more, !.next = id]
<1>1. id \in Nat /\ more \in SUBSET Nat
  BY DEF ProviderType
<1>2. ImportResource(p) = r
  BY DEF ImportResource
<1> HIDE DEF id, more
<1>3. r \in ProviderType
  BY <1>1 DEF ProviderType
<1>4. /\ r.next = id /\ r.imported = more /\ r.exported = p.exported
      /\ r.marked = p.marked /\ r.released = p.released
  BY <1>1 DEF ProviderType
<1> HIDE DEF r
<1>5. r = [next |-> id, imported |-> more, exported |-> p.exported, marked |-> p.marked,
           released |-> p.released]
  <2>1. r = [next |-> r.next, imported |-> r.imported, exported |-> r.exported,
             marked |-> r.marked, released |-> r.released]
    BY <1>3 DEF ProviderType
  <2> QED BY <1>4, <2>1
<1> QED BY <1>2, <1>3, <1>5 DEF id, more

\* Two resources are imported into a provider and exported: a frame with a tile and
\* a texture.
LEMMA TwoResult ==
  ASSUME NEW p \in ProviderType
  PROVE  LET both == {p.next, p.next + 1}
             r    == PrepareSendToParent(ImportResource(ImportResource(p)), both)
         IN  /\ r = [next |-> p.next + 2, imported |-> p.imported \cup both,
                     exported |-> p.exported \cup both, marked |-> p.marked,
                     released |-> p.released]
             /\ r \in ProviderType
<1> DEFINE n == p.next
           both == {n, n + 1}
           q == ImportResource(p)
           r == PrepareSendToParent(ImportResource(q), both)
<1>1. n \in Nat /\ p.imported \in SUBSET Nat /\ p.exported \in SUBSET Nat
      /\ p.marked \in SUBSET Nat /\ p.released \in SUBSET Nat
  BY DEF ProviderType
<1>2. /\ q \in ProviderType /\ q.next = n + 1 /\ q.imported = p.imported \cup {n}
      /\ q.exported = p.exported /\ q.marked = p.marked /\ q.released = p.released
  BY ImportResult
<1> HIDE DEF q
<1>3. ImportResource(q) =
        [next |-> n + 2, imported |-> p.imported \cup both, exported |-> p.exported,
         marked |-> p.marked, released |-> p.released]
  <2>1. n + 1 + 1 = n + 2 /\ q.imported \cup {q.next} = p.imported \cup both
    BY <1>1, <1>2
  <2> QED BY <1>2, <2>1, ImportResult
<1>4. r = [next |-> n + 2, imported |-> p.imported \cup both,
           exported |-> p.exported \cup both, marked |-> p.marked, released |-> p.released]
  BY <1>3 DEF PrepareSendToParent
<1>5. /\ n + 2 \in Nat /\ p.imported \cup both \in SUBSET Nat
      /\ p.exported \cup both \in SUBSET Nat
  BY <1>1
<1> HIDE DEF both
<1>6. r \in ProviderType
  BY <1>1, <1>4, <1>5 DEF ProviderType
<1> QED BY <1>4, <1>6 DEF r, q, both

\* What the two calls of the return handlers leave of a provider whose resources
\* are all exported and none marked.
LEMMA TakeBackResult ==
  ASSUME NEW p \in ProviderType, p.exported = p.imported, p.marked = {},
         NEW ids \in SUBSET p.imported
  PROVE  RemoveImportedResources(ReceiveReturnsFromParent(p, ids), ids) =
           [next |-> p.next, imported |-> p.imported \ ids, exported |-> p.imported \ ids,
            marked |-> {}, released |-> p.released \cup ids]
<1> DEFINE left == p.imported \ ids
           r == [p EXCEPT !.exported = left]
           t == RemoveImportedResources(r, ids)
<1>1. p \in [next : Nat, imported : SUBSET Nat, exported : SUBSET Nat,
             marked : SUBSET Nat, released : SUBSET Nat]
  BY DEF ProviderType
<1>2. ReceiveReturnsFromParent(p, ids) = r
  <2>1. ids \cap p.marked = {}
    OBVIOUS
  <2> QED BY <1>1, <2>1 DEF ReceiveReturnsFromParent, Release
<1>3. /\ DOMAIN r = {"next", "imported", "exported", "marked", "released"}
      /\ r.next = p.next /\ r.imported = p.imported /\ r.exported = left
      /\ r.marked = {} /\ r.released = p.released
  BY <1>1
<1>4. /\ ids \cap r.exported = {} /\ r.marked \cup (ids \cap r.exported) = {}
      /\ (ids \cap r.imported) \ r.exported = ids
  BY <1>3
<1> HIDE DEF r, left
<1>5. t = Release([r EXCEPT !.marked = {}], ids)
  BY <1>4 DEF RemoveImportedResources
<1>6. /\ t = [next |-> t.next, imported |-> t.imported, exported |-> t.exported,
              marked |-> t.marked, released |-> t.released]
      /\ t.next = p.next /\ t.imported = p.imported \ ids /\ t.exported = left
      /\ t.marked = {} \ ids /\ t.released = p.released \cup ids
  <2>1. r = [next |-> p.next, imported |-> p.imported, exported |-> left,
             marked |-> {}, released |-> p.released]
    BY <1>1 DEF r
  <2> QED BY <1>5, <2>1 DEF Release
<1>7. {} \ ids = {}
  OBVIOUS
<1> HIDE DEF t
<1> QED BY <1>2, <1>6, <1>7 DEF left, t

\* The client runs a task that returns resources.
LEMMA TakeBackInv ==
  ASSUME SinkInv, queue # <<>>, queue' = Tail(queue),
         provider' = RemoveImportedResources(
                       ReceiveReturnsFromParent(provider, Head(queue).res),
                       Head(queue).res),
         UNCHANGED <<pipe, needsBeginFrame, bitmaps, active, shown, retired, held,
                     ackPending>>
  PROVE  /\ SinkInv'
         /\ InUse' = InUse
         /\ Head(queue).res \subseteq provider.imported \ InUse
         /\ provider'.released = provider.released \cup Head(queue).res
         /\ provider'.imported = provider.imported \ Head(queue).res
<1> DEFINE ids == Head(queue).res
<1>1. /\ queue' \in Seq(TaskType) /\ Carried(queue) = ids \cup Carried(queue')
      /\ ids \cap Carried(queue') = {} /\ Disjoint(queue') /\ OnlyReturnsCarry'
  BY QueueTail
<1> HIDE DEF ids
<1>2. /\ provider \in ProviderType /\ provider.exported = provider.imported
      /\ provider.marked = {} /\ provider.imported = InUse \cup Returning
      /\ InUse \cap Returning = {} /\ held \cap Carried(queue) = {}
      /\ provider.released \cap provider.imported = {}
  BY DEF SinkInv, SinkTypeOK, Conservation, OnePlace
<1>3. ids \subseteq provider.imported \ InUse /\ ids \cap held = {}
  BY <1>1, <1>2 DEF Returning
<1>4. provider' = [next |-> provider.next, imported |-> provider.imported \ ids,
                   exported |-> provider.imported \ ids, marked |-> {},
                   released |-> provider.released \cup ids]
  BY <1>2, <1>3, TakeBackResult DEF ids
<1>5. /\ provider'.next = provider.next
       /\ provider'.imported = provider.imported \ ids
       /\ provider'.exported = provider.imported \ ids
       /\ provider'.released = provider.released \cup ids
  BY <1>4
<1>6. provider' \in ProviderType
  <2>1. /\ provider.next \in Nat
        /\ provider.imported \ ids \in SUBSET Nat
        /\ provider.released \cup ids \in SUBSET Nat
        /\ {} \in SUBSET Nat
    BY <1>2, <1>3 DEF ProviderType
  <2> QED BY <1>4, <2>1 DEF ProviderType
<1>7. InUse' = InUse /\ Returning' = Returning \ ids
  BY <1>1, <1>3 DEF InUse, Returning
<1>8. Conservation'
  <2>1. OnePlace'
    BY <1>1, <1>7 DEF SinkInv, Conservation, OnePlace
  <2>2. /\ provider'.imported = InUse' \cup Returning'
        /\ provider'.exported = provider'.imported
        /\ provider'.released \cap provider'.imported = {}
    BY <1>2, <1>3, <1>7, <1>5
  <2> QED BY <2>1, <2>2 DEF Conservation
<1>9. SinkTypeOK'
  BY <1>1, <1>6 DEF SinkInv, SinkTypeOK
<1>10. \A id \in provider'.imported \cup provider'.released : id < provider'.next
  BY <1>3, <1>5 DEF SinkInv
<1>11. OnlyFramesCarry' /\ provider'.marked = {}
  BY <1>4 DEF SinkInv, OnlyFramesCarry
<1> QED BY <1>1, <1>3, <1>5, <1>7, <1>8, <1>9, <1>10, <1>11 DEF SinkInv, ids

-----------------------------------------------------------------------------
(***************************************************************************)
(* Shared bitmaps.                                                         *)
(***************************************************************************)
\* Which bitmaps are registered in b or announced in p before its j-th message.
LEMMA AnnouncedMember ==
  ASSUME NEW b, NEW p, NEW j, NEW x
  PROVE  x \in b \cup UNION {p[i].soft : i \in {k \in 1..(j - 1) :
                                            p[k].op = "DidAllocateSharedBitmap"}}
           <=> \/ x \in b
               \/ \E k \in 1..(j - 1) : p[k].op = "DidAllocateSharedBitmap" /\ x \in p[k].soft
OBVIOUS

\* A message appended to a pipe q in which, if it is a frame, its bitmaps are
\* announced.
LEMMA BitmapsAppend ==
  ASSUME NEW q \in Seq(MessageType), NEW m \in MessageType,
         NEW b,
         \A j \in 1..Len(q) : q[j].op = "SubmitCompositorFrame" =>
           \A x \in q[j].soft :
             x \in b \/ \E k \in 1..(j - 1) : q[k].op = "DidAllocateSharedBitmap"
                                              /\ x \in q[k].soft,
         m.op = "SubmitCompositorFrame" =>
           \A x \in m.soft :
             x \in b \/ \E k \in 1..Len(q) : q[k].op = "DidAllocateSharedBitmap"
                                             /\ x \in q[k].soft
  PROVE  \A j \in 1..Len(Append(q, m)) :
           Append(q, m)[j].op = "SubmitCompositorFrame" =>
             \A x \in Append(q, m)[j].soft :
               x \in b \/ \E k \in 1..(j - 1) :
                            Append(q, m)[k].op = "DidAllocateSharedBitmap"
                            /\ x \in Append(q, m)[k].soft
<1> DEFINE a == Append(q, m)
<1>1. /\ Len(q) \in Nat /\ Len(a) = Len(q) + 1 /\ a[Len(q) + 1] = m
      /\ \A i \in 1..Len(q) : a[i] = q[i]
  BY AppendElements
<1> HIDE DEF a
<1> SUFFICES ASSUME NEW j \in 1..Len(a), a[j].op = "SubmitCompositorFrame",
                    NEW x \in a[j].soft, x \notin b
             PROVE  \E k \in 1..(j - 1) : a[k].op = "DidAllocateSharedBitmap"
                                          /\ x \in a[k].soft
  BY DEF a
<1>2. CASE j = Len(q) + 1
  <2>1. PICK k \in 1..Len(q) : q[k].op = "DidAllocateSharedBitmap" /\ x \in q[k].soft
    BY <1>1, <1>2
  <2> QED BY <1>1, <1>2, <2>1
<1>3. CASE j \in 1..Len(q)
  <2>1. PICK k \in 1..(j - 1) : q[k].op = "DidAllocateSharedBitmap" /\ x \in q[k].soft
    BY <1>1, <1>3
  <2>2. k \in 1..Len(q)
    BY <1>1, <1>3
  <2> QED BY <1>1, <2>1, <2>2
<1> QED BY <1>1, <1>2, <1>3

\* BitmapsAnnounced, element by element.
LEMMA BitmapsMember ==
  BitmapsAnnounced <=>
    \A j \in 1..Len(pipe) : pipe[j].op = "SubmitCompositorFrame" =>
      \A x \in pipe[j].soft :
        x \in bitmaps \/ \E k \in 1..(j - 1) : pipe[k].op = "DidAllocateSharedBitmap"
                                               /\ x \in pipe[k].soft
<1>1. ASSUME NEW j, NEW x
      PROVE  x \in Announced(j) <=>
               x \in bitmaps \/ \E k \in 1..(j - 1) :
                                  pipe[k].op = "DidAllocateSharedBitmap" /\ x \in pipe[k].soft
  BY AnnouncedMember DEF Announced
<1> QED BY <1>1 DEF BitmapsAnnounced

\* A call that is no frame keeps BitmapsAnnounced.
LEMMA CallBitmaps ==
  ASSUME SinkTypeOK, BitmapsAnnounced, NEW op \in MessageOps,
         op # "SubmitCompositorFrame",
         pipe' = Append(pipe, Call(op)), UNCHANGED bitmaps
  PROVE  BitmapsAnnounced'
<1>1. Call(op) \in MessageType /\ Call(op).op # "SubmitCompositorFrame"
  BY DEF Call, MessageType
<1>2. pipe \in Seq(MessageType)
  BY DEF SinkTypeOK
<1>3. \A j \in 1..Len(pipe') : pipe'[j].op = "SubmitCompositorFrame" =>
        \A x \in pipe'[j].soft :
          x \in bitmaps \/ \E k \in 1..(j - 1) : pipe'[k].op = "DidAllocateSharedBitmap"
                                                 /\ x \in pipe'[k].soft
  BY <1>1, <1>2, BitmapsMember, BitmapsAppend
<1> QED BY <1>3, AnnouncedMember DEF BitmapsAnnounced, Announced

\* No step of the service breaks BitmapsAnnounced.
LEMMA ServiceBitmaps ==
  ASSUME SinkTypeOK, BitmapsAnnounced, Service
  PROVE  BitmapsAnnounced'
<1> USE DEF Is
<1>1. CASE ServiceReceive
  <2>1. pipe # <<>> /\ pipe' = Tail(pipe) /\ bitmaps \subseteq bitmaps'
    BY <1>1 DEF ServiceReceive, ServiceSetNeedsBeginFrame, ServiceDidAllocateSharedBitmap,
                ServiceSubmitCompositorFrame, ServiceDidNotProduceFrame
  <2>2. Head(pipe).op = "DidAllocateSharedBitmap" => Head(pipe).soft \subseteq bitmaps'
    BY <1>1 DEF ServiceReceive, ServiceSetNeedsBeginFrame, ServiceDidAllocateSharedBitmap,
                ServiceSubmitCompositorFrame, ServiceDidNotProduceFrame
  <2>3. /\ Len(pipe) \in Nat \ {0} /\ Len(pipe') = Len(pipe) - 1
        /\ Head(pipe) = pipe[1]
        /\ \A i \in 1..Len(pipe') : pipe'[i] = pipe[i + 1]
    BY <2>1, TailElements DEF SinkTypeOK
  <2> SUFFICES ASSUME NEW j \in 1..Len(pipe'), pipe'[j].op = "SubmitCompositorFrame",
                      NEW x \in pipe'[j].soft, x \notin bitmaps'
               PROVE  \E k \in 1..(j - 1) : pipe'[k].op = "DidAllocateSharedBitmap"
                                            /\ x \in pipe'[k].soft
    BY AnnouncedMember DEF BitmapsAnnounced, Announced
  <2>4. j + 1 \in 1..Len(pipe) /\ pipe'[j] = pipe[j + 1] /\ x \notin bitmaps
    BY <2>1, <2>3
  <2>5. PICK k \in 1..j : pipe[k].op = "DidAllocateSharedBitmap" /\ x \in pipe[k].soft
    BY <2>4, BitmapsMember
  <2>6. k # 1
    BY <2>2, <2>3, <2>5
  <2>7. k - 1 \in 1..(j - 1) /\ k - 1 \in 1..Len(pipe') /\ pipe'[k - 1] = pipe[k]
    BY <2>3, <2>4, <2>5, <2>6
  <2> QED BY <2>5, <2>7
<1>2. CASE ServiceBeginFrame \/ ServiceAck \/ ServiceHoldResources \/ ServiceReclaimResources
  BY <1>2
  DEF ServiceBeginFrame, ServiceAck, ServiceHoldResources, ServiceReclaimResources,
      BitmapsAnnounced, Announced
<1> QED BY <1>1, <1>2 DEF Service

-----------------------------------------------------------------------------
(***************************************************************************)
(* Surfaces.                                                               *)
(***************************************************************************)
\* The messages of a pipe that embed a surface embed the surface s.
OnlyEmbeds(p, s) ==
  \A i \in 1..Len(p) : p[i].content # 0 => s # 0 /\ p[i].content = s + 1

\* A message that embeds nothing, or the surface s, is appended to a pipe.
LEMMA EmbedsAppend ==
  ASSUME NEW p \in Seq(MessageType), NEW m \in MessageType, NEW s,
         OnlyEmbeds(p, s), m.content # 0 => s # 0 /\ m.content = s + 1
  PROVE  OnlyEmbeds(Append(p, m), s)
<1> SUFFICES ASSUME NEW i \in 1..Len(Append(p, m)), Append(p, m)[i].content # 0
             PROVE  s # 0 /\ Append(p, m)[i].content = s + 1
  BY DEF OnlyEmbeds
<1>1. i = Len(p) + 1 \/ i \in 1..Len(p)
  BY AppendElements
<1> QED BY <1>1, AppendElements DEF OnlyEmbeds

\* The service takes the first message of a pipe.
LEMMA EmbedsTail ==
  ASSUME NEW p \in Seq(MessageType), NEW s, p # <<>>, OnlyEmbeds(p, s)
  PROVE  OnlyEmbeds(Tail(p), s)
<1> SUFFICES ASSUME NEW i \in 1..Len(Tail(p)), Tail(p)[i].content # 0
             PROVE  s # 0 /\ Tail(p)[i].content = s + 1
  BY DEF OnlyEmbeds
<1>1. i + 1 \in 1..Len(p) /\ Tail(p)[i] = p[i + 1]
  BY TailElements
<1> QED BY <1>1 DEF OnlyEmbeds

-----------------------------------------------------------------------------
(***************************************************************************)
(* The promise of BufferOwnership: what the provider has imported is lent, *)
(* what the pipe carries and the service holds is in use, what is released *)
(* is freed.                                                               *)
(***************************************************************************)
Promise == INSTANCE BufferOwnership WITH
             lent <- provider.imported, inUse <- InUse, freed <- provider.released

\* A step of the promise, or one that leaves its state as it is.
PromiseKept == [Promise!Next]_(Promise!vars)

\* At first nothing is lent.
LEMMA PromiseStarts ==
  ASSUME SinkInit
  PROVE  Promise!Init
<1>1. provider.imported = {} /\ provider.released = {}
  BY DEF SinkInit, NewProvider
<1> QED BY <1>1, SinkInitInv DEF Promise!Init

\* A step that is no business of the provider's.
LEMMA NothingLent ==
  ASSUME InUse' = InUse, UNCHANGED provider
  PROVE  PromiseKept
BY DEF PromiseKept, Promise!vars

\* A frame lends the resources it was given: FrameInv.
LEMMA FrameLends ==
  ASSUME NEW ids, ids \cap (provider.imported \cup provider.released) = {},
         InUse' = InUse \cup ids,
         provider'.imported = provider.imported \cup ids,
         provider'.released = provider.released
  PROVE  PromiseKept
<1>1. provider'.imported \ provider.imported = ids
  OBVIOUS
<1>2. Promise!Lend
  BY <1>1 DEF Promise!Lend
<1> QED BY <1>2 DEF PromiseKept, Promise!Next

\* What is taken back is freed: TakeBackInv.
LEMMA TakeBackFrees ==
  ASSUME SinkInv, NEW ids, ids \subseteq provider.imported \ InUse,
         InUse' = InUse,
         provider'.imported = provider.imported \ ids,
         provider'.released = provider.released \cup ids
  PROVE  PromiseKept
<1>1. provider.released \cap provider.imported = {}
  BY DEF SinkInv, Conservation
<1>2. provider'.released \ provider.released = ids
  BY <1>1
<1>3. Promise!Free
  BY <1>2 DEF Promise!Free
<1> QED BY <1>3 DEF PromiseKept, Promise!Next

\* The service gives back, or goes on using what it has.
LEMMA ServicePromise ==
  ASSUME SinkInv, Service
  PROVE  PromiseKept
<1>1. Promise!GiveBack
  BY ServiceGivesBack DEF Promise!GiveBack
<1> QED BY <1>1 DEF PromiseKept, Promise!Next
===============================================================================
