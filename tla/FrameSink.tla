------------------------------- MODULE FrameSink -------------------------------
(***************************************************************************)
(* What the clients of demo_viz share: the ClientResourceProvider each of  *)
(* them keeps, and the two ends of its CompositorFrameSink pipe.           *)
(*                                                                         *)
(* A client lives on a thread of its own.  `queue` is that thread's task   *)
(* queue: what other threads post to it and the messages of the            *)
(* CompositorFrameSinkClient pipe, which mojo delivers as tasks of the     *)
(* same thread.  `pipe` holds the messages under way to the viz service.   *)
(* Both are first in, first out.                                           *)
(*                                                                         *)
(* Neither viz::ClientResourceProvider nor viz::CompositorFrameSinkSupport *)
(* is part of the repository; they are modelled from the calls the clients *)
(* make and the callbacks the clients receive.                             *)
(***************************************************************************)
EXTENDS Naturals, Sequences, FiniteSets

CONSTANT MaxBeginFrames     \* BeginFrames the service leaves unanswered

ASSUME MaxBeginFramesAssumption == MaxBeginFrames \in Nat \ {0}

VARIABLES
  queue,            \* tasks of the client's thread
  provider,         \* the client's ClientResourceProvider
  pipe,             \* messages from the client to the service
  needsBeginFrame,  \* service: the client has asked for BeginFrames
  bitmaps,          \* service: resources whose shared bitmap is registered
  active,           \* service: resources of the frame on display
  shown,            \* service: content of the frame on display
  retired,          \* service: resources of replaced frames, not yet returned
  held,             \* service: returned resources waiting for the next ack
  ackPending        \* service: frames received and not yet acknowledged

sinkVars == <<queue, provider, pipe, needsBeginFrame, bitmaps, active, shown,
              retired, held, ackPending>>

-----------------------------------------------------------------------------
(***************************************************************************)
(* Tasks and messages.  `res` names the resources handed to the other      *)
(* side, `soft` the software ones a message speaks of, and `content` what  *)
(* a frame shows.                                                          *)
(***************************************************************************)
TaskOps == {"BindOnThread", "SetContextProvider", "BindSharedImageInterfaceProvider",
            "Draw", "OnBeginFrame", "DidReceiveCompositorFrameAck", "ReclaimResources"}

MessageOps == {"SetNeedsBeginFrame", "DidAllocateSharedBitmap",
               "SubmitCompositorFrame", "DidNotProduceFrame"}

TaskType    == [op : TaskOps, res : SUBSET Nat]
MessageType == [op : MessageOps, res : SUBSET Nat, soft : SUBSET Nat, content : Nat]

Task(op, res) == [op |-> op, res |-> res]
Call(op) == [op |-> op, res |-> {}, soft |-> {}, content |-> 0]
Frame(res, soft, content) ==
  [op |-> "SubmitCompositorFrame", res |-> res, soft |-> soft, content |-> content]
SharedBitmap(soft) == [Call("DidAllocateSharedBitmap") EXCEPT !.soft = soft]

Is(q, op) == q # <<>> /\ Head(q).op = op

Carried(q) == UNION {q[i].res : i \in 1..Len(q)}

Unanswered ==
  Cardinality({i \in 1..Len(queue) : queue[i].op = "OnBeginFrame"})
  + Cardinality({i \in 1..Len(pipe) :
                   pipe[i].op \in {"SubmitCompositorFrame", "DidNotProduceFrame"}})

-----------------------------------------------------------------------------
(***************************************************************************)
(* viz::ClientResourceProvider.  The clients import a resource, export it  *)
(* in one frame, and its release callback runs as soon as it is marked for *)
(* deletion and no longer exported.                                        *)
(***************************************************************************)
ProviderType == [next : Nat, imported : SUBSET Nat, exported : SUBSET Nat,
                 marked : SUBSET Nat, released : SUBSET Nat]

NewProvider == [next |-> 1, imported |-> {}, exported |-> {}, marked |-> {},
                released |-> {}]

ImportResource(p) ==
  [p EXCEPT !.imported = @ \cup {p.next}, !.next = @ + 1]

PrepareSendToParent(p, ids) ==
  [p EXCEPT !.exported = @ \cup ids]

Release(p, ids) ==
  [p EXCEPT !.imported = @ \ ids, !.marked = @ \ ids, !.released = @ \cup ids]

ReceiveReturnsFromParent(p, ids) ==
  Release([p EXCEPT !.exported = @ \ ids], ids \cap p.marked)

RemoveImportedResources(p, ids) ==
  Release([p EXCEPT !.marked = @ \cup (ids \cap p.exported)],
          (ids \cap p.imported) \ p.exported)

-----------------------------------------------------------------------------
(***************************************************************************)
(* viz::CompositorFrameSinkSupport, the other end of the pipe.             *)
(***************************************************************************)
SinkInit ==
  /\ queue = <<>> /\ pipe = <<>>
  /\ provider = NewProvider
  /\ needsBeginFrame = FALSE
  /\ bitmaps = {} /\ active = {} /\ retired = {} /\ held = {}
  /\ shown = 0 /\ ackPending = 0

ServiceSetNeedsBeginFrame ==
  /\ Is(pipe, "SetNeedsBeginFrame")
  /\ pipe' = Tail(pipe)
  /\ needsBeginFrame' = TRUE
  /\ UNCHANGED <<queue, provider, bitmaps, active, shown, retired, held, ackPending>>

ServiceDidAllocateSharedBitmap ==
  /\ Is(pipe, "DidAllocateSharedBitmap")
  /\ pipe' = Tail(pipe)
  /\ bitmaps' = bitmaps \cup Head(pipe).soft
  /\ UNCHANGED <<queue, provider, needsBeginFrame, active, shown, retired, held,
                 ackPending>>

\* The new frame replaces the one on display, whose resources may be returned.
ServiceSubmitCompositorFrame ==
  /\ Is(pipe, "SubmitCompositorFrame")
  /\ pipe' = Tail(pipe)
  /\ active' = Head(pipe).res
  /\ shown' = Head(pipe).content
  /\ retired' = retired \cup active
  /\ ackPending' = ackPending + 1
  /\ UNCHANGED <<queue, provider, needsBeginFrame, bitmaps, held>>

ServiceDidNotProduceFrame ==
  /\ Is(pipe, "DidNotProduceFrame")
  /\ pipe' = Tail(pipe)
  /\ UNCHANGED <<queue, provider, needsBeginFrame, bitmaps, active, shown, retired,
                 held, ackPending>>

ServiceReceive ==
  \/ ServiceSetNeedsBeginFrame
  \/ ServiceDidAllocateSharedBitmap
  \/ ServiceSubmitCompositorFrame
  \/ ServiceDidNotProduceFrame

ServiceBeginFrame ==
  /\ needsBeginFrame
  /\ Unanswered < MaxBeginFrames
  /\ queue' = Append(queue, Task("OnBeginFrame", {}))
  /\ UNCHANGED <<provider, pipe, needsBeginFrame, bitmaps, active, shown, retired,
                 held, ackPending>>

\* An ack carries every resource that became free while it was pending.
ServiceAck ==
  /\ ackPending > 0
  /\ ackPending' = ackPending - 1
  /\ queue' = Append(queue, Task("DidReceiveCompositorFrameAck", held))
  /\ held' = {}
  /\ UNCHANGED <<provider, pipe, needsBeginFrame, bitmaps, active, shown, retired>>

\* The display lets go of resources of replaced frames, in any order: they wait
\* for a pending ack, or travel in a ReclaimResources of their own.
ServiceHoldResources ==
  /\ ackPending > 0
  /\ \E ids \in (SUBSET retired) \ {{}} :
       /\ retired' = retired \ ids
       /\ held' = held \cup ids
  /\ UNCHANGED <<queue, provider, pipe, needsBeginFrame, bitmaps, active, shown,
                 ackPending>>

ServiceReclaimResources ==
  /\ ackPending = 0
  /\ \E ids \in (SUBSET retired) \ {{}} :
       /\ retired' = retired \ ids
       /\ queue' = Append(queue, Task("ReclaimResources", ids))
  /\ UNCHANGED <<provider, pipe, needsBeginFrame, bitmaps, active, shown, held,
                 ackPending>>

Service ==
  \/ ServiceReceive
  \/ ServiceBeginFrame
  \/ ServiceAck
  \/ ServiceHoldResources
  \/ ServiceReclaimResources

-----------------------------------------------------------------------------
SinkTypeOK ==
  /\ queue \in Seq(TaskType)
  /\ pipe \in Seq(MessageType)
  /\ provider \in ProviderType
  /\ needsBeginFrame \in BOOLEAN
  /\ ackPending \in Nat /\ shown \in Nat
  /\ bitmaps \in SUBSET Nat /\ active \in SUBSET Nat
  /\ retired \in SUBSET Nat /\ held \in SUBSET Nat

\* What the service may still read: frames under way, on display or replaced.
InUse == Carried(pipe) \cup active \cup retired

\* What has been given back and is not yet handled by the client.
Returning == held \cup Carried(queue)

Disjoint(q) == \A i, j \in 1..Len(q) : i # j => q[i].res \cap q[j].res = {}

(***************************************************************************)
(* Every resource the client has imported is at exactly one place between  *)
(* its thread, the pipe, the display and the way back, and nothing the     *)
(* client has released is at any of them.                                  *)
(***************************************************************************)
OnePlace ==
  /\ Disjoint(pipe) /\ Disjoint(queue)
  /\ Carried(pipe) \cap active = {}
  /\ Carried(pipe) \cap retired = {}
  /\ active \cap retired = {}
  /\ held \cap Carried(queue) = {}
  /\ InUse \cap Returning = {}

Conservation ==
  /\ OnePlace
  /\ provider.imported = InUse \cup Returning
  /\ provider.exported = provider.imported
  /\ provider.released \cap provider.imported = {}

(***************************************************************************)
(* What makes Conservation inductive: ids are not used twice, a resource   *)
(* is not marked for deletion before it has returned, and only returns and *)
(* frames carry resources.                                                 *)
(***************************************************************************)
OnlyReturnsCarry ==
  \A i \in 1..Len(queue) :
    queue[i].res # {} =>
      queue[i].op \in {"DidReceiveCompositorFrameAck", "ReclaimResources"}

OnlyFramesCarry ==
  \A i \in 1..Len(pipe) :
    pipe[i].res # {} => pipe[i].op = "SubmitCompositorFrame"

SinkInv ==
  /\ SinkTypeOK
  /\ Conservation
  /\ provider.marked = {}
  /\ \A id \in provider.imported \cup provider.released : id < provider.next
  /\ OnlyReturnsCarry
  /\ OnlyFramesCarry

(***************************************************************************)
(* A frame's shared bitmaps are registered, or announced before it in the  *)
(* pipe.                                                                   *)
(***************************************************************************)
Announced(j) ==
  bitmaps \cup UNION {pipe[i].soft : i \in {k \in 1..(j - 1) :
                                          pipe[k].op = "DidAllocateSharedBitmap"}}

BitmapsAnnounced ==
  \A j \in 1..Len(pipe) :
    pipe[j].op = "SubmitCompositorFrame" => pipe[j].soft \subseteq Announced(j)
===============================================================================
