----------------------------- MODULE Segmenter -----------------------------
(***************************************************************************)
(* The send path of org.jlab.hpdf.Segmenter: application threads that send *)
(* DirectByteBuffers at once or put them on the native send queue, the JNI *)
(* global references that keep a queued buffer from the garbage collector, *)
(* the native send thread that runs freeGlobalByteBuffer for each event it *)
(* has segmented, and the collector.                                       *)
(*                                                                         *)
(* The queue and its thread are inside the E2SAR library.  They are        *)
(* modelled from what jniDpSegmenter.cpp assumes of them: an add may be    *)
(* refused with an error, an accepted event is sent in order, and its      *)
(* callback runs once when it was sent.                                    *)
(***************************************************************************)
EXTENDS Naturals, Sequences

CONSTANTS
  Threads,    \* threads of the application
  Buffers,    \* direct ByteBuffers
  Refs,       \* JNI global reference slots: a freed slot may be handed out again
  QueueSize   \* events the native send queue holds

NoBuf == "noBuf"
NoRef == "noRef"

ASSUME RefAssumption == NoBuf \notin Buffers /\ NoRef \notin Refs
ASSUME QueueAssumption == QueueSize \in Nat

VARIABLES
  state,       \* "new", "open" (openAndStart has run), "freed"
  reachable,   \* buffers the application still holds a reference to
  collected,   \* buffers whose memory the JVM has released
  globalRefs,  \* the buffer each global reference slot refers to
  frame,       \* the native frame of each application thread
  sendQueue,   \* events [buf, ref] waiting in the native queue
  sender       \* the event the send thread has taken, and how far it is

vars == <<state, reachable, collected, globalRefs, frame, sendQueue, sender>>

NoEvent == [buf |-> NoBuf, ref |-> NoRef]
Idle == [pc |-> "idle", buf |-> NoBuf, ref |-> NoRef]
Resting == [pc |-> "idle", event |-> NoEvent]

Frame(pc, b, r) == [pc |-> pc, buf |-> b, ref |-> r]

Init ==
  /\ state = "new"
  /\ reachable = Buffers
  /\ collected = {}
  /\ globalRefs = [r \in Refs |-> NoBuf]
  /\ frame = [t \in Threads |-> Idle]
  /\ sendQueue = <<>>
  /\ sender = Resting

-----------------------------------------------------------------------------
openAndStart ==
  /\ state = "new"
  /\ state' = "open"
  /\ UNCHANGED <<reachable, collected, globalRefs, frame, sendQueue, sender>>

(* sendEventDirect: the native function works on the buffer's address for  *)
(* the whole call; the argument's local reference keeps the buffer alive.  *)
sendEventDirect(t, b) ==
  /\ state # "freed"
  /\ frame[t] = Idle
  /\ b \in reachable
  /\ frame' = [frame EXCEPT ![t] = Frame("sending", b, NoRef)]
  /\ UNCHANGED <<state, reachable, collected, globalRefs, sendQueue, sender>>

(* It returns, or throws what sendEvent reported; nothing is kept.         *)
SendReturns(t) ==
  /\ frame[t].pc = "sending"
  /\ frame' = [frame EXCEPT ![t] = Idle]
  /\ UNCHANGED <<state, reachable, collected, globalRefs, sendQueue, sender>>

(* addToSendQueueDirect: the address is taken, then the reference, ...     *)
addToSendQueueDirect(t, b) ==
  /\ state # "freed"
  /\ frame[t] = Idle
  /\ b \in reachable
  /\ frame' = [frame EXCEPT ![t] = Frame("adding", b, NoRef)]
  /\ UNCHANGED <<state, reachable, collected, globalRefs, sendQueue, sender>>

(* Mutated form: a local reference, which ends with the native call.       *)
NewLocalRef(t) ==
  /\ frame[t].pc = "adding"
  /\ \E r \in Refs :
       /\ globalRefs[r] = NoBuf
       /\ frame' = [frame EXCEPT ![t] = Frame("referenced", frame[t].buf, r)]
  /\ UNCHANGED <<state, reachable, collected, globalRefs, sendQueue, sender>>

NewGlobalRef(t) ==
  /\ frame[t].pc = "adding"
  /\ \E r \in Refs :
       /\ globalRefs[r] = NoBuf
       /\ globalRefs' = [globalRefs EXCEPT ![r] = frame[t].buf]
       /\ frame' = [frame EXCEPT ![t] = Frame("referenced", frame[t].buf, r)]
  /\ UNCHANGED <<state, reachable, collected, sendQueue, sender>>

(* Mutated form: the queue takes one event too many.                       *)
addPastTheEnd(t) ==
  /\ frame[t].pc = "referenced"
  /\ Len(sendQueue) <= QueueSize
  /\ sendQueue' = Append(sendQueue, [buf |-> frame[t].buf, ref |-> frame[t].ref])
  /\ frame' = [frame EXCEPT ![t] = Idle]
  /\ UNCHANGED <<state, reachable, collected, globalRefs, sender>>

(* ... then the event is offered to the native queue, which takes it ...   *)
addToSendQueue(t) ==
  /\ frame[t].pc = "referenced"
  /\ Len(sendQueue) < QueueSize
  /\ sendQueue' = Append(sendQueue, [buf |-> frame[t].buf, ref |-> frame[t].ref])
  /\ frame' = [frame EXCEPT ![t] = Idle]
  /\ UNCHANGED <<state, reachable, collected, globalRefs, sender>>

(* ... or refuses it: the method throws, and leaves the reference behind.  *)
AddThrows(t) ==
  /\ frame[t].pc = "referenced"
  /\ Len(sendQueue) = QueueSize
  /\ frame' = [frame EXCEPT ![t] = Idle]
  /\ UNCHANGED <<state, reachable, collected, globalRefs, sendQueue, sender>>

(* Mutated forms: the reference is deleted when the event is taken, before *)
(* it is segmented; the newest event is taken first.                       *)
TakeEventAndDelete ==
  /\ state = "open"
  /\ sender = Resting
  /\ sendQueue # <<>>
  /\ sender' = [pc |-> "segmenting", event |-> Head(sendQueue)]
  /\ sendQueue' = Tail(sendQueue)
  /\ globalRefs' = [globalRefs EXCEPT ![Head(sendQueue).ref] = NoBuf]
  /\ UNCHANGED <<state, reachable, collected, frame>>

TakeNewestEvent ==
  /\ state = "open"
  /\ sender = Resting
  /\ sendQueue # <<>>
  /\ sender' = [pc |-> "segmenting", event |-> sendQueue[Len(sendQueue)]]
  /\ sendQueue' = SubSeq(sendQueue, 1, Len(sendQueue) - 1)
  /\ UNCHANGED <<state, reachable, collected, globalRefs, frame>>

(* The send thread takes the oldest event, segments it into datagrams and  *)
(* runs the callback it came with.                                         *)
TakeEvent ==
  /\ state = "open"
  /\ sender = Resting
  /\ sendQueue # <<>>
  /\ sender' = [pc |-> "segmenting", event |-> Head(sendQueue)]
  /\ sendQueue' = Tail(sendQueue)
  /\ UNCHANGED <<state, reachable, collected, globalRefs, frame>>

SegmentEvent ==
  /\ sender.pc = "segmenting"
  /\ sender' = [sender EXCEPT !.pc = "sent"]
  /\ UNCHANGED <<state, reachable, collected, globalRefs, frame, sendQueue>>

(* Mutated form: every reference to the buffer is deleted.                 *)
freeAllGlobalRefs ==
  /\ sender.pc = "sent"
  /\ globalRefs' = [r \in Refs |-> IF globalRefs[r] = sender.event.buf THEN NoBuf
                                                                      ELSE globalRefs[r]]
  /\ sender' = Resting
  /\ UNCHANGED <<state, reachable, collected, frame, sendQueue>>

freeGlobalByteBuffer ==
  /\ sender.pc = "sent"
  /\ globalRefs' = [globalRefs EXCEPT ![sender.event.ref] = NoBuf]
  /\ sender' = Resting
  /\ UNCHANGED <<state, reachable, collected, frame, sendQueue>>

(* free(), called when no thread is inside a method: the destructor stops  *)
(* the send thread, which finishes the event it has; events still queued   *)
(* are dropped, and how many of their callbacks run is the library's       *)
(* choice.                                                                 *)
free ==
  /\ state # "freed"
  /\ \A t \in Threads : frame[t] = Idle
  /\ sender = Resting
  /\ \E run \in SUBSET {sendQueue[i].ref : i \in DOMAIN sendQueue} :
       globalRefs' = [r \in Refs |-> IF r \in run THEN NoBuf ELSE globalRefs[r]]
  /\ state' = "freed"
  /\ sendQueue' = <<>>
  /\ UNCHANGED <<reachable, collected, frame, sender>>

(* The application drops its last reference to a buffer.                   *)
Forget(b) ==
  /\ reachable' = reachable \ {b}
  /\ b \in reachable
  /\ UNCHANGED <<state, collected, globalRefs, frame, sendQueue, sender>>

(* The garbage collector frees a direct buffer nothing refers to.          *)
Collect(b) ==
  /\ b \notin reachable \cup collected
  /\ \A t \in Threads : frame[t].buf # b
  /\ \A r \in Refs : globalRefs[r] # b
  /\ collected' = collected \cup {b}
  /\ UNCHANGED <<state, reachable, globalRefs, frame, sendQueue, sender>>

Next ==
  \/ \E t \in Threads, b \in Buffers :
       sendEventDirect(t, b) \/ addToSendQueueDirect(t, b)
  \/ \E t \in Threads :
       SendReturns(t) \/ NewGlobalRef(t) \/ addToSendQueue(t) \/ AddThrows(t)
  \/ openAndStart \/ TakeEvent \/ SegmentEvent \/ freeGlobalByteBuffer \/ free
  \/ \E b \in Buffers : Forget(b) \/ Collect(b)

Spec == Init /\ [][Next]_vars

(* The send thread runs until free(); a native call runs to its end.       *)
Fairness ==
  /\ WF_vars(TakeEvent) /\ WF_vars(SegmentEvent) /\ WF_vars(freeGlobalByteBuffer)
  /\ \A t \in Threads : WF_vars(SendReturns(t) \/ addToSendQueue(t) \/ AddThrows(t))

FairSpec == Spec /\ Fairness

-----------------------------------------------------------------------------
Event == [buf : Buffers, ref : Refs]

TypeOK ==
  /\ state \in {"new", "open", "freed"}
  /\ reachable \subseteq Buffers
  /\ collected \subseteq Buffers
  /\ globalRefs \in [Refs -> Buffers \cup {NoBuf}]
  /\ frame \in [Threads -> [pc : {"idle", "sending", "adding", "referenced"},
                            buf : Buffers \cup {NoBuf}, ref : Refs \cup {NoRef}]]
  /\ sendQueue \in Seq(Event)
  /\ Len(sendQueue) <= QueueSize
  /\ sender \in [pc : {"idle", "segmenting", "sent"}, event : Event \cup {NoEvent}]

(* The events the native code still has to read: queued, or in the hands   *)
(* of the send thread.                                                     *)
Pending ==
  {sendQueue[i] : i \in DOMAIN sendQueue}
    \cup (IF sender.pc = "segmenting" THEN {sender.event} ELSE {})

(* "Need a GlobalReference so that the JVM does not deallocate this        *)
(* object": no memory is collected that a queued event, the send thread or *)
(* a native call in progress still reads, however early the application    *)
(* forgot the buffer.                                                      *)
ReadMemoryIsLive ==
  /\ \A e \in Pending : e.buf \notin collected
  /\ \A t \in Threads : frame[t].buf \notin collected

(* Each queued event owns a reference of its own, to its own buffer, and   *)
(* so does the callback about to run: DeleteGlobalRef is never called for  *)
(* a reference that is gone or that has been handed out again, though one  *)
(* buffer may be queued several times.                                     *)
OwnReference ==
  /\ \A i \in DOMAIN sendQueue : globalRefs[sendQueue[i].ref] = sendQueue[i].buf
  /\ \A i, j \in DOMAIN sendQueue : i # j => sendQueue[i].ref # sendQueue[j].ref
  /\ sender.pc # "idle" =>
       /\ globalRefs[sender.event.ref] = sender.event.buf
       /\ \A i \in DOMAIN sendQueue : sendQueue[i].ref # sender.event.ref

(* "This will remain as a Global reference in native code and deleted      *)
(* after segmentation": a global reference exists only for an event that   *)
(* is being added, waits, or is being sent.                                *)
ReferenceDeletedAfterSegmentation ==
  state # "freed" =>
    \A r \in Refs : globalRefs[r] # NoBuf =>
      \/ \E i \in DOMAIN sendQueue : sendQueue[i].ref = r
      \/ sender.event.ref = r
      \/ \E t \in Threads : frame[t].ref = r

(* An accepted event is sent in the end, whatever the application goes on  *)
(* adding, unless the Segmenter is never opened or is freed first.         *)
AcceptedIsSent ==
  \A r \in Refs :
    (state = "open" /\ \E i \in DOMAIN sendQueue : sendQueue[i].ref = r)
      ~> (sender.event.ref = r \/ state = "freed")

(* Queue, references, frames and collector implement the lease of a buffer *)
(* for as long as an event made of it is pending.                          *)
LeasesOut == {<<e.ref, e.buf>> : e \in Pending}

Lease == INSTANCE BufferLease WITH Leases <- Refs, lease <- LeasesOut, gone <- collected

BuffersAreLeased == Lease!Spec
=============================================================================
