-------------------------- MODULE Segmenter_proofs --------------------------
(***************************************************************************)
(* Proofs about the send path of Segmenter, for any number of threads,     *)
(* buffers, reference slots and queue places.                              *)
(*                                                                         *)
(* That a queued buffer is not collected rests on the reference of its     *)
(* event being its own: the argument follows a reference from              *)
(* NewGlobalRef, in the frame of an application thread, through the queue  *)
(* to the send thread, and shows that at no point two of them hold it.     *)
(***************************************************************************)
EXTENDS Segmenter, TLAPS

(* A frame has a buffer exactly while its thread is in a native method,    *)
(* and a reference exactly between NewGlobalRef and addToSendQueue.        *)
FrameInv ==
  \A t \in Threads :
    /\ frame[t].pc = "idle" <=> frame[t].buf = NoBuf
    /\ frame[t].pc = "referenced" <=> frame[t].ref # NoRef
    /\ frame[t].pc = "idle" => frame[t] = Idle

SenderInv == IF sender.pc = "idle" THEN sender = Resting ELSE sender.event \in Event

(* The reference in a frame refers to the frame's buffer and is in no      *)
(* other frame, not in the queue and not with the send thread.             *)
FrameRefInv ==
  \A t \in Threads : frame[t].pc = "referenced" =>
    /\ globalRefs[frame[t].ref] = frame[t].buf
    /\ \A s \in Threads : s # t => frame[s].ref # frame[t].ref
    /\ \A i \in DOMAIN sendQueue : sendQueue[i].ref # frame[t].ref
    /\ sender.event.ref # frame[t].ref

(* What the collector looks at keeps a buffer: it is not collected.        *)
LiveInv ==
  /\ reachable \cap collected = {}
  /\ \A r \in Refs : globalRefs[r] \notin collected
  /\ \A t \in Threads : frame[t].buf \notin collected

IInv == TypeOK /\ FrameInv /\ SenderInv /\ OwnReference /\ FrameRefInv /\ LiveInv

-----------------------------------------------------------------------------
(* The inductive invariant holds initially.                                *)
LEMMA InitInv == Init => IInv
BY QueueAssumption
   DEF Init, IInv, TypeOK, FrameInv, SenderInv, OwnReference, FrameRefInv,
       LiveInv, Idle, Resting

(* Every step keeps the inductive invariant, action by action and, under   *)
(* an action, conjunct by conjunct.                                        *)
LEMMA NextInv == IInv /\ [Next]_vars => IInv'
<1> SUFFICES ASSUME IInv, [Next]_vars PROVE IInv'
  OBVIOUS
<1>1. ASSUME openAndStart PROVE IInv'
  <2>1. TypeOK'
    BY <1>1 DEF openAndStart, IInv, TypeOK
  <2>2. FrameInv' /\ SenderInv' /\ OwnReference' /\ FrameRefInv' /\ LiveInv'
    BY <1>1
       DEF openAndStart, IInv, FrameInv, SenderInv, OwnReference, FrameRefInv,
           LiveInv
  <2>3. QED
    BY <2>1, <2>2 DEF IInv
<1>2. ASSUME NEW t \in Threads, NEW b \in Buffers, sendEventDirect(t, b) PROVE IInv'
  <2>1. TypeOK'
    BY <1>2 DEF sendEventDirect, IInv, TypeOK, Frame
  <2>2. FrameInv'
    BY <1>2, RefAssumption DEF sendEventDirect, IInv, FrameInv, Frame
  <2>3. FrameRefInv'
    BY <1>2 DEF sendEventDirect, IInv, FrameRefInv, Idle, Frame
  <2>4. LiveInv'
    BY <1>2 DEF sendEventDirect, IInv, LiveInv, Frame
  <2>5. SenderInv' /\ OwnReference'
    BY <1>2 DEF sendEventDirect, IInv, SenderInv, OwnReference
  <2>6. QED
    BY <2>1, <2>2, <2>3, <2>4, <2>5 DEF IInv
<1>3. ASSUME NEW t \in Threads, SendReturns(t) PROVE IInv'
  <2>1. TypeOK'
    BY <1>3 DEF SendReturns, IInv, TypeOK, Idle
  <2>2. FrameInv'
    BY <1>3 DEF SendReturns, IInv, FrameInv, Idle
  <2>3. FrameRefInv'
    BY <1>3 DEF SendReturns, IInv, FrameInv, FrameRefInv, Idle
  <2>4. LiveInv'
    BY <1>3, RefAssumption DEF SendReturns, IInv, TypeOK, LiveInv, Idle
  <2>5. SenderInv' /\ OwnReference'
    BY <1>3 DEF SendReturns, IInv, SenderInv, OwnReference
  <2>6. QED
    BY <2>1, <2>2, <2>3, <2>4, <2>5 DEF IInv
<1>4. ASSUME NEW t \in Threads, NEW b \in Buffers, addToSendQueueDirect(t, b) PROVE IInv'
  <2>1. TypeOK'
    BY <1>4 DEF addToSendQueueDirect, IInv, TypeOK, Frame
  <2>2. FrameInv'
    BY <1>4, RefAssumption DEF addToSendQueueDirect, IInv, FrameInv, Frame
  <2>3. FrameRefInv'
    BY <1>4 DEF addToSendQueueDirect, IInv, FrameRefInv, Idle, Frame
  <2>4. LiveInv'
    BY <1>4 DEF addToSendQueueDirect, IInv, LiveInv, Frame
  <2>5. SenderInv' /\ OwnReference'
    BY <1>4 DEF addToSendQueueDirect, IInv, SenderInv, OwnReference
  <2>6. QED
    BY <2>1, <2>2, <2>3, <2>4, <2>5 DEF IInv
<1>5. ASSUME NEW t \in Threads, NewGlobalRef(t) PROVE IInv'
  <2>1. PICK r \in Refs : /\ globalRefs[r] = NoBuf
                          /\ globalRefs' = [globalRefs EXCEPT ![r] = frame[t].buf]
                          /\ frame' = [frame EXCEPT ![t] = Frame("referenced", frame[t].buf, r)]
    BY <1>5 DEF NewGlobalRef
  <2>2. ASSUME NEW i \in DOMAIN sendQueue PROVE sendQueue[i].ref # r
    <3>1. sendQueue[i] \in Event
      BY DEF IInv, TypeOK
    <3>2. globalRefs[sendQueue[i].ref] \in Buffers
      BY <3>1 DEF IInv, OwnReference, Event
    <3>3. QED
      BY <2>1, <3>2, RefAssumption
  <2>3. sender.event.ref # r /\ \A s \in Threads : frame[s].ref # r
    BY <2>1, RefAssumption
       DEF IInv, FrameInv, SenderInv, OwnReference, FrameRefInv, Event, Resting,
           NoEvent
  <2>4. TypeOK'
    BY <1>5 DEF NewGlobalRef, IInv, TypeOK, Frame
  <2>5. FrameInv'
    BY <1>5, RefAssumption DEF NewGlobalRef, IInv, FrameInv, Frame
  <2>6. OwnReference'
    BY <1>5, <2>1, <2>2, <2>3 DEF NewGlobalRef, IInv, OwnReference
  <2>7. FrameRefInv'
    BY <1>5, <2>1, <2>2, <2>3 DEF NewGlobalRef, IInv, TypeOK, FrameRefInv, Frame
  <2>8. LiveInv'
    BY <1>5 DEF NewGlobalRef, IInv, LiveInv, Frame
  <2>9. SenderInv'
    BY <1>5 DEF NewGlobalRef, IInv, SenderInv
  <2>10. QED
    BY <2>4, <2>5, <2>6, <2>7, <2>8, <2>9 DEF IInv
<1>6. ASSUME NEW t \in Threads, addToSendQueue(t) PROVE IInv'
  <2>1. TypeOK'
    BY <1>6, QueueAssumption
       DEF addToSendQueue, IInv, TypeOK, FrameInv, Event, Idle
  <2>2. FrameInv'
    BY <1>6 DEF addToSendQueue, IInv, FrameInv, Idle
  <2>3. OwnReference'
    BY <1>6 DEF addToSendQueue, IInv, OwnReference, FrameRefInv
  <2>4. FrameRefInv'
    BY <1>6 DEF addToSendQueue, IInv, TypeOK, FrameInv, FrameRefInv, Idle
  <2>5. LiveInv'
    BY <1>6, RefAssumption DEF addToSendQueue, IInv, TypeOK, LiveInv, Idle
  <2>6. SenderInv'
    BY <1>6 DEF addToSendQueue, IInv, SenderInv
  <2>7. QED
    BY <2>1, <2>2, <2>3, <2>4, <2>5, <2>6 DEF IInv
<1>7. ASSUME NEW t \in Threads, AddThrows(t) PROVE IInv'
  <2>1. TypeOK'
    BY <1>7 DEF AddThrows, IInv, TypeOK, Idle
  <2>2. FrameInv'
    BY <1>7 DEF AddThrows, IInv, FrameInv, Idle
  <2>3. FrameRefInv'
    BY <1>7 DEF AddThrows, IInv, FrameInv, FrameRefInv, Idle
  <2>4. LiveInv'
    BY <1>7, RefAssumption DEF AddThrows, IInv, TypeOK, LiveInv, Idle
  <2>5. SenderInv' /\ OwnReference'
    BY <1>7 DEF AddThrows, IInv, SenderInv, OwnReference
  <2>6. QED
    BY <2>1, <2>2, <2>3, <2>4, <2>5 DEF IInv
<1>8. ASSUME TakeEvent PROVE IInv'
  <2>1. /\ sendQueue \in Seq(Event) /\ 1 \in DOMAIN sendQueue /\ Head(sendQueue) = sendQueue[1]
        /\ sendQueue[1] \in Event
    BY <1>8 DEF TakeEvent, IInv, TypeOK
  <2>2. \A i \in DOMAIN sendQueue' : /\ i + 1 \in DOMAIN sendQueue /\ i + 1 # 1 /\ i \in Nat
                                     /\ sendQueue'[i] = sendQueue[i + 1]
    BY <1>8, <2>1 DEF TakeEvent
  <2>3. /\ sender' = [pc |-> "segmenting", event |-> sendQueue[1]]
        /\ sender.pc = "idle" /\ UNCHANGED <<globalRefs, frame>>
    BY <1>8, <2>1 DEF TakeEvent, Resting
  <2>4. TypeOK'
    <3>1. sendQueue' \in Seq(Event) /\ Len(sendQueue') <= QueueSize
      BY <1>8, <2>1, QueueAssumption DEF TakeEvent, IInv, TypeOK
    <3>2. sender' \in [pc : {"idle", "segmenting", "sent"}, event : Event \cup {NoEvent}]
      BY <2>1, <2>3
    <3>3. QED
      BY <1>8, <3>1, <3>2 DEF TakeEvent, IInv, TypeOK
  <2>5. SenderInv'
    BY <2>1, <2>3 DEF SenderInv
  <2>6. OwnReference'
    <3>1. ASSUME NEW i \in DOMAIN sendQueue' PROVE globalRefs'[sendQueue'[i].ref] = sendQueue'[i].buf
      BY <2>2, <2>3 DEF IInv, OwnReference
    <3>2. ASSUME NEW i \in DOMAIN sendQueue', NEW j \in DOMAIN sendQueue', i # j
          PROVE  sendQueue'[i].ref # sendQueue'[j].ref
      BY <2>2, <3>2 DEF IInv, OwnReference
    <3>3. /\ globalRefs'[sender'.event.ref] = sender'.event.buf
          /\ \A i \in DOMAIN sendQueue' : sendQueue'[i].ref # sender'.event.ref
      BY <2>1, <2>2, <2>3 DEF IInv, OwnReference
    <3>4. QED
      BY <3>1, <3>2, <3>3 DEF OwnReference
  <2>7. FrameRefInv'
    BY <2>1, <2>2, <2>3 DEF IInv, FrameRefInv
  <2>8. FrameInv' /\ LiveInv'
    BY <1>8 DEF TakeEvent, IInv, FrameInv, LiveInv
  <2>9. QED
    BY <2>4, <2>5, <2>6, <2>7, <2>8 DEF IInv
<1>9. ASSUME SegmentEvent PROVE IInv'
  <2>1. TypeOK'
    BY <1>9 DEF SegmentEvent, IInv, TypeOK
  <2>2. SenderInv'
    BY <1>9 DEF SegmentEvent, IInv, SenderInv
  <2>3. OwnReference'
    BY <1>9 DEF SegmentEvent, IInv, OwnReference
  <2>4. FrameRefInv'
    BY <1>9 DEF SegmentEvent, IInv, FrameRefInv
  <2>5. FrameInv' /\ LiveInv'
    BY <1>9 DEF SegmentEvent, IInv, FrameInv, LiveInv
  <2>6. QED
    BY <2>1, <2>2, <2>3, <2>4, <2>5 DEF IInv
<1>10. ASSUME freeGlobalByteBuffer PROVE IInv'
  <2>1. TypeOK'
    BY <1>10 DEF freeGlobalByteBuffer, IInv, TypeOK, SenderInv, Event, Resting
  <2>2. SenderInv'
    BY <1>10 DEF freeGlobalByteBuffer, SenderInv, Resting
  <2>3. OwnReference'
    BY <1>10 DEF freeGlobalByteBuffer, IInv, OwnReference, Resting
  <2>4. FrameRefInv'
    BY <1>10
       DEF freeGlobalByteBuffer, IInv, FrameInv, FrameRefInv, NoEvent, Resting
  <2>5. LiveInv'
    BY <1>10, RefAssumption DEF freeGlobalByteBuffer, IInv, TypeOK, LiveInv
  <2>6. FrameInv'
    BY <1>10 DEF freeGlobalByteBuffer, IInv, FrameInv
  <2>7. QED
    BY <2>1, <2>2, <2>3, <2>4, <2>5, <2>6 DEF IInv
<1>11. ASSUME free PROVE IInv'
  <2>1. TypeOK'
    BY <1>11, QueueAssumption DEF free, IInv, TypeOK
  <2>2. OwnReference'
    BY <1>11 DEF free, OwnReference, Resting
  <2>3. FrameRefInv'
    BY <1>11 DEF free, FrameRefInv, Idle
  <2>4. LiveInv'
    BY <1>11, RefAssumption DEF free, IInv, TypeOK, LiveInv
  <2>5. FrameInv' /\ SenderInv'
    BY <1>11 DEF free, IInv, FrameInv, SenderInv
  <2>6. QED
    BY <2>1, <2>2, <2>3, <2>4, <2>5 DEF IInv
<1>12. ASSUME NEW b \in Buffers, Forget(b) PROVE IInv'
  <2>1. TypeOK'
    BY <1>12 DEF Forget, IInv, TypeOK
  <2>2. LiveInv'
    BY <1>12 DEF Forget, IInv, LiveInv
  <2>3. FrameInv' /\ SenderInv' /\ OwnReference' /\ FrameRefInv'
    BY <1>12 DEF Forget, IInv, FrameInv, SenderInv, OwnReference, FrameRefInv
  <2>4. QED
    BY <2>1, <2>2, <2>3 DEF IInv
<1>13. ASSUME NEW b \in Buffers, Collect(b) PROVE IInv'
  <2>1. TypeOK'
    BY <1>13 DEF Collect, IInv, TypeOK
  <2>2. LiveInv'
    BY <1>13 DEF Collect, IInv, LiveInv
  <2>3. FrameInv' /\ SenderInv' /\ OwnReference' /\ FrameRefInv'
    BY <1>13 DEF Collect, IInv, FrameInv, SenderInv, OwnReference, FrameRefInv
  <2>4. QED
    BY <2>1, <2>2, <2>3 DEF IInv
<1>14. CASE UNCHANGED vars
  BY <1>14
     DEF vars, IInv, TypeOK, FrameInv, SenderInv, OwnReference, FrameRefInv,
         LiveInv
<1>15. QED
  BY <1>1, <1>2, <1>3, <1>4, <1>5, <1>6, <1>7, <1>8, <1>9, <1>10, <1>11,
     <1>12, <1>13, <1>14 DEF Next

(* The invariant of every reachable state.                                 *)
THEOREM InvariantHolds == Spec => []IInv
<1>1. Init => IInv
  BY InitInv
<1>2. IInv /\ [Next]_vars => IInv'
  BY NextInv
<1>3. QED
  BY <1>1, <1>2, PTL DEF Spec

(* State, references, frames and queue stay within their types.            *)
THEOREM TypeCorrect == Spec => []TypeOK
<1>1. IInv => TypeOK
  BY DEF IInv
<1>2. QED
  BY <1>1, InvariantHolds, PTL

(* DeleteGlobalRef is only ever called for the reference that was made for *)
(* the event that was sent.                                                *)
THEOREM ReferencesAreOwned == Spec => []OwnReference
<1>1. IInv => OwnReference
  BY DEF IInv
<1>2. QED
  BY <1>1, InvariantHolds, PTL

(* The collector takes no buffer the native code still reads.              *)
THEOREM NoReadAfterCollection == Spec => []ReadMemoryIsLive
<1>1. IInv => ReadMemoryIsLive
  <2> SUFFICES ASSUME IInv PROVE ReadMemoryIsLive
    OBVIOUS
  <2>1. ASSUME NEW i \in DOMAIN sendQueue PROVE sendQueue[i].buf \notin collected
    <3>1. sendQueue[i] \in Event
      BY DEF IInv, TypeOK
    <3>2. QED
      BY <3>1 DEF IInv, OwnReference, LiveInv, Event
  <2>2. ASSUME sender.pc = "segmenting" PROVE sender.event.buf \notin collected
    BY <2>2 DEF IInv, SenderInv, OwnReference, LiveInv, Event
  <2>3. \A t \in Threads : frame[t].buf \notin collected
    BY DEF IInv, LiveInv
  <2>4. QED
    BY <2>1, <2>2, <2>3 DEF ReadMemoryIsLive, Pending
<1>2. QED
  BY <1>1, InvariantHolds, PTL

(* The pending events are events: what the lease specification ranges over. *)
LEMMA PendingEvents == IInv => Pending \subseteq Event
BY DEF IInv, TypeOK, SenderInv, Pending

(* Every step of the send path takes, keeps or ends leases as BufferLease   *)
(* allows, or leaves them alone.                                            *)
LEMMA StepRefines == IInv /\ [Next]_vars => [Lease!Next]_(Lease!vars)
<1> SUFFICES ASSUME IInv, [Next]_vars PROVE [Lease!Next]_(Lease!vars)
  OBVIOUS
<1> USE DEF Lease!vars
<1>1. ASSUME NEW t \in Threads, addToSendQueue(t) PROVE Lease!Next
  <2> DEFINE e == [buf |-> frame[t].buf, ref |-> frame[t].ref]
  <2>1. /\ e \in Event /\ e.buf \notin collected
        /\ sendQueue \in Seq(Event) /\ sendQueue' = Append(sendQueue, e)
        /\ UNCHANGED <<sender, collected>>
    BY <1>1 DEF addToSendQueue, IInv, TypeOK, FrameInv, LiveInv, Event
  <2>2. \A d \in Pending : d.ref # e.ref
    BY <1>1 DEF addToSendQueue, IInv, FrameRefInv, Pending
  <2>3. {sendQueue'[i] : i \in DOMAIN sendQueue'} = {sendQueue[i] : i \in DOMAIN sendQueue} \cup {e}
    BY <2>1
  <2>4. Pending' = Pending \cup {e}
    BY <2>1, <2>3 DEF Pending
  <2>5. LeasesOut' = LeasesOut \cup {<<e.ref, e.buf>>}
    BY <2>4 DEF LeasesOut
  <2>6. Lease!Acquire(e.ref, e.buf)
    BY <2>1, <2>2, <2>5 DEF Lease!Acquire, LeasesOut
  <2>7. e.ref \in Refs /\ e.buf \in Buffers
    BY <2>1 DEF Event
  <2>8. QED
    BY <2>6, <2>7 DEF Lease!Next
<1>2. ASSUME TakeEvent PROVE UNCHANGED Lease!vars
  <2>1. /\ sendQueue \in Seq(Event) /\ sendQueue # <<>> /\ sendQueue' = Tail(sendQueue)
        /\ sender.pc = "idle" /\ sender' = [pc |-> "segmenting", event |-> Head(sendQueue)]
        /\ UNCHANGED collected
    BY <1>2 DEF TakeEvent, Resting, IInv, TypeOK
  <2>2. {sendQueue[i] : i \in DOMAIN sendQueue}
           = {sendQueue'[i] : i \in DOMAIN sendQueue'} \cup {Head(sendQueue)}
    <3>1. \A i \in DOMAIN sendQueue' : i + 1 \in DOMAIN sendQueue /\ sendQueue'[i] = sendQueue[i + 1]
      BY <2>1
    <3>2. \A i \in DOMAIN sendQueue : i # 1 => i - 1 \in DOMAIN sendQueue' /\ sendQueue'[i - 1] = sendQueue[i]
      BY <2>1
    <3>3. 1 \in DOMAIN sendQueue /\ Head(sendQueue) = sendQueue[1]
      BY <2>1
    <3>4. QED
      BY <3>1, <3>2, <3>3
  <2>3. Pending' = Pending
    BY <2>1, <2>2 DEF Pending
  <2>4. QED
    BY <2>1, <2>3 DEF LeasesOut
<1>3. ASSUME SegmentEvent PROVE Lease!Next
  <2> DEFINE e == sender.event
  <2>1. /\ e \in Pending /\ Pending' = {sendQueue[i] : i \in DOMAIN sendQueue}
        /\ Pending = Pending' \cup {e} /\ UNCHANGED collected
    BY <1>3 DEF SegmentEvent, Pending, IInv, TypeOK
  <2>2. \A d \in Pending' : d.ref # e.ref
    BY <1>3, <2>1 DEF SegmentEvent, IInv, OwnReference
  <2>3. LeasesOut' = LeasesOut \ {<<e.ref, e.buf>>}
    BY <2>1, <2>2 DEF LeasesOut
  <2>4. <<e.ref, e.buf>> \in LeasesOut
    BY <2>1 DEF LeasesOut
  <2>5. Lease!Expire({<<e.ref, e.buf>>})
    BY <2>1, <2>3, <2>4 DEF Lease!Expire
  <2>6. QED
    BY <2>4, <2>5 DEF Lease!Next
<1>4. ASSUME free PROVE Lease!Next
  <2>1. Pending' = {} /\ UNCHANGED collected
    BY <1>4 DEF free, Pending, Resting
  <2>2. LeasesOut' = {}
    BY <2>1 DEF LeasesOut
  <2>3. Lease!Expire(LeasesOut)
    BY <2>1, <2>2 DEF Lease!Expire
  <2>4. QED
    BY <2>3 DEF Lease!Next
<1>5. ASSUME NEW b \in Buffers, Collect(b) PROVE Lease!Next
  <2>1. \A e \in Pending : globalRefs[e.ref] = e.buf /\ e.ref \in Refs
    <3>1. Pending \subseteq Event
      BY PendingEvents
    <3>2. QED
      BY <3>1 DEF IInv, OwnReference, Pending, Event
  <2>2. \A pair \in LeasesOut : pair[2] # b
    BY <1>5, <2>1 DEF Collect, LeasesOut
  <2>3. LeasesOut' = LeasesOut /\ collected' = collected \cup {b}
    BY <1>5 DEF Collect, LeasesOut, Pending
  <2>4. Lease!TakeBack(b)
    BY <2>2, <2>3 DEF Lease!TakeBack
  <2>5. QED
    BY <2>4 DEF Lease!Next
<1>6. ASSUME UNCHANGED <<sendQueue, sender, collected>> PROVE UNCHANGED Lease!vars
  BY <1>6 DEF LeasesOut, Pending
<1>7. ASSUME freeGlobalByteBuffer PROVE UNCHANGED Lease!vars
  BY <1>7 DEF freeGlobalByteBuffer, LeasesOut, Pending, Resting
<1>8. ASSUME NEW t \in Threads,
             SendReturns(t) \/ NewGlobalRef(t) \/ AddThrows(t)
      PROVE  UNCHANGED Lease!vars
  BY <1>6, <1>8 DEF SendReturns, NewGlobalRef, AddThrows
<1>9. ASSUME NEW t \in Threads, NEW b \in Buffers,
             sendEventDirect(t, b) \/ addToSendQueueDirect(t, b)
      PROVE  UNCHANGED Lease!vars
  BY <1>6, <1>9 DEF sendEventDirect, addToSendQueueDirect
<1>10. ASSUME openAndStart PROVE UNCHANGED Lease!vars
  BY <1>6, <1>10 DEF openAndStart
<1>11. ASSUME NEW b \in Buffers, Forget(b) PROVE UNCHANGED Lease!vars
  BY <1>6, <1>11 DEF Forget
<1>12. ASSUME UNCHANGED vars PROVE UNCHANGED Lease!vars
  BY <1>6, <1>12 DEF vars
<1>13. QED
  BY <1>1, <1>2, <1>3, <1>4, <1>5, <1>7, <1>8, <1>9, <1>10, <1>11, <1>12
     DEF Next

(* The send path implements the lease of its buffers: a buffer is leased   *)
(* when its event is accepted, until it is segmented or dropped, and is    *)
(* taken back by the JVM only while no lease is out.                       *)
THEOREM LeaseRefinement == Spec => BuffersAreLeased
<1>1. Init => Lease!Init
  BY DEF Init, Resting, Pending, LeasesOut, Lease!Init
<1>2. IInv /\ [Next]_vars => [Lease!Next]_(Lease!vars)
  BY StepRefines
<1>3. QED
  BY <1>1, <1>2, InvariantHolds, PTL DEF Spec, BuffersAreLeased, Lease!Spec
=============================================================================
