---------------------------- MODULE MultipleProcess ----------------------------
(***************************************************************************)
(* demo_mojo_multiple_process.cc: a producer process starts a consumer     *)
(* process and writes to it over a message pipe while the consumer reads.  *)
(* Some messages carry the end of a data pipe, of a second message pipe or *)
(* a shared buffer, which the producer fills after it has sent the end.    *)
(*                                                                         *)
(* The consumer reads a fixed list without waiting between the reads, then *)
(* gives the pipe to a PipeReader, whose watcher tells it when there is    *)
(* more.  What is written arrives later, in order on each pipe; a shared   *)
(* buffer is the same memory on both sides.                                *)
(*                                                                         *)
(* A definition whose name starts with Faulty is a plausible mistake in    *)
(* the definition that follows it; the properties are tried against it.    *)
(***************************************************************************)
EXTENDS Naturals, Sequences

VARIABLES
  written,   \* producer: how many of Writes have been done
  closed,    \* producer: the delayed message is written, the pipe is closed
  transit,   \* messages on the way to the consumer
  underway,  \* contents of the other pipes on the way to the consumer
  arrived,   \* messages that have arrived and are not read
  contents,  \* contents that the consumer can read
  pc,        \* consumer: where it is
  reads,     \* consumer: how many of Reads have been done
  received,  \* consumer: messages read
  watcher    \* PipeReader's watcher_: "none", "armed", "notified" or "closed"

producerVars == <<written, closed>>
consumerVars == <<pc, reads, received, watcher>>
pipeVars     == <<producerVars, transit, underway, arrived, contents, consumerVars>>

Messages == {"hello", "HELLO", "DataPipe", "MessagePipe", "SharedBuffer",
             "SimplerWatcher", "SimplerWatcher2"}
Contents == {"data", "message", "buffer"}

PipeInit ==
  /\ written = 0 /\ closed = FALSE
  /\ transit = <<>> /\ underway = {} /\ arrived = <<>> /\ contents = {}
  /\ pc = "check" /\ reads = 0 /\ received = <<>> /\ watcher = "none"

-----------------------------------------------------------------------------
(***************************************************************************)
(* The producer.                                                           *)
(***************************************************************************)
\* Faulty: the message that announces the buffer is sent before the second pipe's.
FaultyWrites == <<"hello", "HELLO", "DataPipe", "data", "SharedBuffer", "buffer",
                  "MessagePipe", "message", "SimplerWatcher">>

\* In program order: a message, or what is put into the pipe or buffer whose
\* other end the message before it carries.
Writes == <<"hello", "HELLO", "DataPipe", "data", "MessagePipe", "message",
            "SharedBuffer", "buffer", "SimplerWatcher">>

WriteMessage ==
  /\ written < Len(Writes)
  /\ Writes[written + 1] \in Messages
  /\ written' = written + 1
  /\ transit' = Append(transit, Writes[written + 1])
  /\ UNCHANGED <<closed, underway, arrived, contents, consumerVars>>

\* To the data pipe, or to the second message pipe.
WriteContents ==
  /\ written < Len(Writes)
  /\ Writes[written + 1] \in Contents \ {"buffer"}
  /\ written' = written + 1
  /\ underway' = underway \cup {Writes[written + 1]}
  /\ UNCHANGED <<closed, transit, arrived, contents, consumerVars>>

FillBuffer ==
  /\ written < Len(Writes)
  /\ Writes[written + 1] = "buffer"
  /\ written' = written + 1
  /\ contents' = contents \cup {"buffer"}
  /\ UNCHANGED <<closed, transit, underway, arrived, consumerVars>>

\* Five seconds later; the pipe's handle ends with the task.
WriteDelayed ==
  /\ written = Len(Writes)
  /\ ~closed
  /\ closed' = TRUE
  /\ transit' = Append(transit, "SimplerWatcher2")
  /\ UNCHANGED <<written, underway, arrived, contents, consumerVars>>

Producer == WriteMessage \/ WriteContents \/ FillBuffer \/ WriteDelayed

-----------------------------------------------------------------------------
(***************************************************************************)
(* The transport.                                                          *)
(***************************************************************************)
DeliverMessage ==
  /\ transit # <<>>
  /\ arrived' = Append(arrived, Head(transit))
  /\ transit' = Tail(transit)
  /\ UNCHANGED <<producerVars, underway, contents, consumerVars>>

DeliverContents ==
  /\ \E c \in underway :
       /\ underway' = underway \ {c}
       /\ contents' = contents \cup {c}
  /\ UNCHANGED <<producerVars, transit, arrived, consumerVars>>

\* mojo::SimpleWatcher with the policy AUTOMATIC tells of a state as well as of a
\* change of it: the pipe is readable, or will never be again.
Ended == closed /\ transit = <<>> /\ arrived = <<>>

Notify ==
  /\ watcher = "armed"
  /\ arrived # <<>> \/ Ended
  /\ watcher' = "notified"
  /\ UNCHANGED <<producerVars, transit, underway, arrived, contents, pc, reads, received>>

-----------------------------------------------------------------------------
(***************************************************************************)
(* The consumer.                                                           *)
(***************************************************************************)
\* It waits and sleeps only if nothing can be read yet.
CheckReadable ==
  /\ pc = "check"
  /\ pc' = IF arrived = <<>> THEN "wait" ELSE "read"
  /\ UNCHANGED <<producerVars, transit, underway, arrived, contents, reads, received, watcher>>

Wait ==
  /\ pc = "wait"
  /\ arrived # <<>>
  /\ pc' = "sleep"
  /\ UNCHANGED <<producerVars, transit, underway, arrived, contents, reads, received, watcher>>

\* A second is taken to be long enough for all that is written without delay.
Sleep ==
  /\ pc = "sleep"
  /\ written = Len(Writes) /\ transit = <<>> /\ underway = {}
  /\ pc' = "read"
  /\ UNCHANGED <<producerVars, transit, underway, arrived, contents, reads, received, watcher>>

\* In program order: a message, or the contents behind the handle it carried.
Reads == <<"hello", "HELLO", "DataPipe", "data", "MessagePipe", "message",
           "SharedBuffer", "buffer">>

\* ReadMessageRaw and its like take whatever message is first.
ReadMessage ==
  /\ pc = "read" /\ reads < Len(Reads)
  /\ Reads[reads + 1] \in Messages
  /\ arrived # <<>>
  /\ received' = Append(received, Head(arrived))
  /\ arrived' = Tail(arrived)
  /\ reads' = reads + 1
  /\ UNCHANGED <<producerVars, transit, underway, contents, pc, watcher>>

\* A buffer can be read before it is filled.
ReadContents ==
  /\ pc = "read" /\ reads < Len(Reads)
  /\ Reads[reads + 1] \in contents \cup {"buffer"}
  /\ reads' = reads + 1
  /\ UNCHANGED <<producerVars, transit, underway, arrived, contents, pc, received, watcher>>

\* DCHECK_EQ(result, MOJO_RESULT_OK) fails: there is nothing to read.
ReadFails ==
  /\ pc = "read" /\ reads < Len(Reads)
  /\ \/ Reads[reads + 1] \in Messages /\ arrived = <<>>
     \/ Reads[reads + 1] \in {"data", "message"} \ contents
  /\ pc' = "failed"
  /\ UNCHANGED <<producerVars, transit, underway, arrived, contents, reads, received, watcher>>

\* PipeReader's constructor watches the pipe.
MakeReader ==
  /\ pc = "read" /\ reads = Len(Reads)
  /\ pc' = "run"
  /\ watcher' = "armed"
  /\ UNCHANGED <<producerVars, transit, underway, arrived, contents, reads, received>>

\* Faulty: a message is taken from the pipe only to see whether there is one.
FaultyOnReadable ==
  /\ pc = "run" /\ watcher = "notified"
  /\ arrived # <<>>
  /\ arrived' = Tail(arrived)
  /\ UNCHANGED <<producerVars, transit, underway, contents, pc, reads, received, watcher>>

\* One turn of the loop that reads until the pipe is empty.
OnReadable ==
  /\ pc = "run" /\ watcher = "notified"
  /\ arrived # <<>>
  /\ received' = Append(received, Head(arrived))
  /\ arrived' = Tail(arrived)
  /\ UNCHANGED <<producerVars, transit, underway, contents, pc, reads, watcher>>

\* Faulty: the watcher is not armed again, as with ArmingPolicy::MANUAL.
FaultyOnReadableEnd ==
  /\ pc = "run" /\ watcher = "notified"
  /\ arrived = <<>>
  /\ watcher' = IF Ended THEN "closed" ELSE "none"
  /\ UNCHANGED <<producerVars, transit, underway, arrived, contents, pc, reads, received>>

\* The pipe is empty: the watcher is armed again unless the pipe has ended.
OnReadableEnd ==
  /\ pc = "run" /\ watcher = "notified"
  /\ arrived = <<>>
  /\ watcher' = IF Ended THEN "closed" ELSE "armed"
  /\ UNCHANGED <<producerVars, transit, underway, arrived, contents, pc, reads, received>>

Consumer ==
  \/ CheckReadable \/ Wait \/ Sleep
  \/ ReadMessage \/ ReadContents \/ ReadFails
  \/ MakeReader \/ OnReadable \/ OnReadableEnd

PipeNext == Producer \/ DeliverMessage \/ DeliverContents \/ Notify \/ Consumer

\* Both processes run, and what is written arrives.
PipeFairness ==
  /\ WF_pipeVars(Producer)
  /\ WF_pipeVars(DeliverMessage)
  /\ WF_pipeVars(DeliverContents)
  /\ WF_pipeVars(Notify)
  /\ WF_pipeVars(Consumer)

PipeSpec     == PipeInit /\ [][PipeNext]_pipeVars
FairPipeSpec == PipeSpec /\ PipeFairness

-----------------------------------------------------------------------------
(***************************************************************************)
(* Properties.                                                             *)
(***************************************************************************)
\* The messages among the first n of Writes.
WrittenMessages[n \in 0..Len(Writes)] ==
  IF n = 0 THEN <<>>
  ELSE IF Writes[n] \in Messages THEN Append(WrittenMessages[n - 1], Writes[n])
  ELSE WrittenMessages[n - 1]

SentMessages ==
  IF closed THEN Append(WrittenMessages[written], "SimplerWatcher2")
  ELSE WrittenMessages[written]

\* Every variable keeps to its range; only a PipeReader has a watcher.
PipeTypeOK ==
  /\ written \in 0..Len(Writes) /\ closed \in BOOLEAN
  /\ transit \in Seq(Messages) /\ arrived \in Seq(Messages) /\ received \in Seq(Messages)
  /\ underway \subseteq Contents \ {"buffer"} /\ contents \subseteq Contents
  /\ pc \in {"check", "wait", "sleep", "read", "run", "failed"}
  /\ reads \in 0..Len(Reads)
  /\ watcher \in {"none", "armed", "notified", "closed"}
  /\ pc # "run" <=> watcher = "none"

\* What the consumer read, what waits and what is under way are, in this order,
\* the messages written: none is lost, doubled or overtaken between the raw reads
\* and the watcher's.  Every variable keeps to its range.
NothingLost == PipeTypeOK /\ received \o arrived \o transit = SentMessages

\* Each read meets what it was written for: the handle a message carries is taken
\* to be a data pipe, a message pipe or a buffer by its place in the order alone.
ReadsMatchWrites ==
  pc = "read" /\ arrived # <<>> /\ reads < Len(Reads) /\ Reads[reads + 1] \in Messages =>
    Head(arrived) = Reads[reads + 1]

\* Unless a read failed, the watcher sees every message, the last one of which is
\* written while nobody reads, and then the end of the pipe.
WatcherSeesTheEnd == <>(pc = "failed" \/ watcher = "closed")

\* The sleep of a second "makes sure that all the reads below can succeed".
ReadsSucceed == pc # "failed"
===============================================================================
