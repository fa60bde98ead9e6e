---------------------------- MODULE Reassembler ----------------------------
(***************************************************************************)
(* The receive path of org.jlab.hpdf.Reassembler: the queue of reassembled *)
(* events the native receive threads fill, application threads that take   *)
(* events from it with getEvent and recvEvent, the direct ByteBuffers made *)
(* around the native event buffers, and their release.                     *)
(*                                                                         *)
(* Queue and receive threads are inside the E2SAR library, and modelled    *)
(* from how jniDpReassembler.cpp uses them.  It tests two ways in which    *)
(* recvEvent comes back without an event: an error, and the value -1.  An  *)
(* empty queue is taken to give -1, from getEvent as from recvEvent.       *)
(*                                                                         *)
(* An event is known by the number of its assembly; its buffer has the     *)
(* same name.                                                              *)
(***************************************************************************)
EXTENDS Naturals, Sequences

CONSTANTS
  Threads,    \* threads of the application
  MaxEvents,  \* bound on the events that arrive
  QueueSize   \* events the native queue holds

ASSUME BoundAssumption == MaxEvents \in Nat /\ QueueSize \in Nat

NoEvent == 0   \* eventBuf is still nullptr

VARIABLES
  state,             \* "new", "open" (openAndStart has run), "freed"
  assembled,         \* events assembled so far
  eventQueue,        \* native queue of reassembled events
  lostEvents,        \* native queue of the numbers of lost events
  memory,            \* native event buffers that are allocated
  frame,             \* the native frame of each application thread
  events,            \* ReassembledEvents the application has got
  returned,          \* those it has passed to freeDirectBytebBuffer
  allocatedBuffers   \* the Java set of that name

vars == <<state, assembled, eventQueue, lostEvents, memory, frame, events, returned,
          allocatedBuffers>>

Idle == [pc |-> "idle", call |-> "none", event |-> NoEvent]

Frame(pc, call, e) == [pc |-> pc, call |-> call, event |-> e]

Init ==
  /\ state = "new"
  /\ assembled = 0
  /\ eventQueue = <<>>
  /\ lostEvents = <<>>
  /\ memory = {}
  /\ frame = [t \in Threads |-> Idle]
  /\ events = {}
  /\ returned = {}
  /\ allocatedBuffers = {}

-----------------------------------------------------------------------------
openAndStart ==
  /\ state = "new"
  /\ state' = "open"
  /\ UNCHANGED <<assembled, eventQueue, lostEvents, memory, frame, events, returned,
                 allocatedBuffers>>

(* Mutated form: the queue is never full.                                  *)
EnqueueAlways ==
  /\ state = "open"
  /\ assembled < MaxEvents
  /\ assembled' = assembled + 1
  /\ eventQueue' = Append(eventQueue, assembled')
  /\ memory' = memory \cup {assembled'}
  /\ UNCHANGED <<state, lostEvents, frame, events, returned, allocatedBuffers>>

(* A receive thread has the last segment of an event and puts it on the    *)
(* queue; an event that finds the queue full is lost, and reported as lost.*)
Enqueue ==
  /\ state = "open"
  /\ assembled < MaxEvents
  /\ assembled' = assembled + 1
  /\ \/ /\ Len(eventQueue) < QueueSize
        /\ eventQueue' = Append(eventQueue, assembled')
        /\ memory' = memory \cup {assembled'}
        /\ UNCHANGED lostEvents
     \/ /\ Len(eventQueue) = QueueSize
        /\ lostEvents' = Append(lostEvents, assembled')
        /\ UNCHANGED <<eventQueue, memory>>
  /\ UNCHANGED <<state, frame, events, returned, allocatedBuffers>>

(* Mutated form: the event is read, and left on the queue.                 *)
peekEvent(t) ==
  /\ state # "freed"
  /\ frame[t] = Idle
  /\ eventQueue # <<>>
  /\ frame' = [frame EXCEPT ![t] = Frame("taken", "getEvent", Head(eventQueue))]
  /\ UNCHANGED <<state, assembled, eventQueue, lostEvents, memory, events, returned,
                 allocatedBuffers>>

(* getEvent: takes the oldest event; without one the call is no error, and *)
(* the wrapper goes on with a null buffer of an unset length ...           *)
getEvent(t) ==
  /\ state # "freed"
  /\ frame[t] = Idle
  /\ \/ /\ eventQueue # <<>>
        /\ frame' = [frame EXCEPT ![t] = Frame("taken", "getEvent", Head(eventQueue))]
        /\ eventQueue' = Tail(eventQueue)
     \/ /\ eventQueue = <<>>
        /\ frame' = [frame EXCEPT ![t] = Frame("taken", "getEvent", NoEvent)]
        /\ UNCHANGED eventQueue
  /\ UNCHANGED <<state, assembled, lostEvents, memory, events, returned, allocatedBuffers>>

(* recvEvent(waitMs): waits in the library, without a limit if it is 0 ... *)
recvEvent(t, call) ==
  /\ state # "freed"
  /\ frame[t] = Idle
  /\ call \in {"recvEvent", "recvEventForever"}
  /\ frame' = [frame EXCEPT ![t] = Frame("waiting", call, NoEvent)]
  /\ UNCHANGED <<state, assembled, eventQueue, lostEvents, memory, events, returned,
                 allocatedBuffers>>

(* Mutated forms: the newest event is taken; a wait ends only when the     *)
(* queue is full.                                                          *)
RecvTakesNewest(t) ==
  /\ frame[t].pc = "waiting"
  /\ eventQueue # <<>>
  /\ frame' = [frame EXCEPT ![t] = Frame("taken", frame[t].call, eventQueue[Len(eventQueue)])]
  /\ eventQueue' = SubSeq(eventQueue, 1, Len(eventQueue) - 1)
  /\ UNCHANGED <<state, assembled, lostEvents, memory, events, returned, allocatedBuffers>>

RecvTakesWhenFull(t) ==
  /\ frame[t].pc = "waiting"
  /\ Len(eventQueue) = QueueSize
  /\ frame' = [frame EXCEPT ![t] = Frame("taken", frame[t].call, Head(eventQueue))]
  /\ eventQueue' = Tail(eventQueue)
  /\ UNCHANGED <<state, assembled, lostEvents, memory, events, returned, allocatedBuffers>>

(* ... until there is an event ...                                         *)
RecvTakes(t) ==
  /\ frame[t].pc = "waiting"
  /\ eventQueue # <<>>
  /\ frame' = [frame EXCEPT ![t] = Frame("taken", frame[t].call, Head(eventQueue))]
  /\ eventQueue' = Tail(eventQueue)
  /\ UNCHANGED <<state, assembled, lostEvents, memory, events, returned, allocatedBuffers>>

(* Mutated forms: the value -1 is not tested for; the test of the limit is *)
(* the wrong way round.                                                    *)
RecvTimesOutWithEvent(t) ==
  /\ frame[t].pc = "waiting"
  /\ frame[t].call # "recvEventForever"
  /\ frame' = [frame EXCEPT ![t] = Frame("taken", frame[t].call, NoEvent)]
  /\ UNCHANGED <<state, assembled, eventQueue, lostEvents, memory, events, returned,
                 allocatedBuffers>>

RecvTimesOutIfUnlimited(t) ==
  /\ frame[t].pc = "waiting"
  /\ frame[t].call = "recvEventForever"
  /\ frame' = [frame EXCEPT ![t] = Idle]
  /\ UNCHANGED <<state, assembled, eventQueue, lostEvents, memory, events, returned,
                 allocatedBuffers>>

(* ... or the time is over: -1 makes an empty Optional.                    *)
RecvTimesOut(t) ==
  /\ frame[t].pc = "waiting"
  /\ frame[t].call # "recvEventForever"
  /\ frame' = [frame EXCEPT ![t] = Idle]
  /\ UNCHANGED <<state, assembled, eventQueue, lostEvents, memory, events, returned,
                 allocatedBuffers>>

(* Mutated form: the native buffer is deleted once it is wrapped.          *)
ReturnEventAndDelete(t) ==
  /\ frame[t].pc = "taken"
  /\ events' = events \cup {[call |-> frame[t].call, event |-> frame[t].event]}
  /\ memory' = memory \ {frame[t].event}
  /\ frame' = [frame EXCEPT ![t] = Idle]
  /\ UNCHANGED <<state, assembled, eventQueue, lostEvents, returned, allocatedBuffers>>

(* createDirectByteBuffer and createOptionalJavaReassembledEvent: the      *)
(* application gets an event around the native buffer.                     *)
ReturnEvent(t) ==
  /\ frame[t].pc = "taken"
  /\ events' = events \cup {[call |-> frame[t].call, event |-> frame[t].event]}
  /\ frame' = [frame EXCEPT ![t] = Idle]
  /\ UNCHANGED <<state, assembled, eventQueue, lostEvents, memory, returned, allocatedBuffers>>

(* The JVM makes no ByteBuffer or no event object (its memory is full, or  *)
(* the unset length is not acceptable): the method throws, and the native  *)
(* buffer stays allocated.                                                 *)
ReturnThrows(t) ==
  /\ frame[t].pc = "taken"
  /\ frame' = [frame EXCEPT ![t] = Idle]
  /\ UNCHANGED <<state, assembled, eventQueue, lostEvents, memory, events, returned,
                 allocatedBuffers>>

(* getLostEvent pops the oldest lost event number, or gives an empty       *)
(* Optional, which changes nothing.                                        *)
getLostEvent ==
  /\ state # "freed"
  /\ lostEvents # <<>>
  /\ lostEvents' = Tail(lostEvents)
  /\ UNCHANGED <<state, assembled, eventQueue, memory, frame, events, returned,
                 allocatedBuffers>>

(* freeDirectBytebBuffer(event), which works on the set alone: deletes the *)
(* buffer if it is there.                                                  *)
freeDirectBytebBuffer(e) ==
  LET tracked == {e.event} \cap allocatedBuffers IN
  /\ e \in events
  /\ memory' = memory \ tracked
  /\ allocatedBuffers' = allocatedBuffers \ tracked
  /\ returned' = returned \cup {e.event}
  /\ UNCHANGED <<state, assembled, eventQueue, lostEvents, frame, events>>

(* free(), when no thread is inside a method: deletes the buffers in the   *)
(* set and the native instance; its queues, with the buffers queued, go.   *)
free ==
  /\ state # "freed"
  /\ \A t \in Threads : frame[t] = Idle
  /\ state' = "freed"
  /\ memory' = memory \ (allocatedBuffers \cup {eventQueue[i] : i \in DOMAIN eventQueue})
  /\ eventQueue' = <<>>
  /\ lostEvents' = <<>>
  /\ UNCHANGED <<assembled, frame, events, returned, allocatedBuffers>>

Next ==
  \/ openAndStart \/ Enqueue \/ getLostEvent \/ free
  \/ \E t \in Threads :
       \/ getEvent(t) \/ RecvTakes(t) \/ RecvTimesOut(t)
       \/ ReturnEvent(t) \/ ReturnThrows(t)
       \/ \E call \in {"recvEvent", "recvEventForever"} : recvEvent(t, call)
  \/ \E e \in events : freeDirectBytebBuffer(e)

Spec == Init /\ [][Next]_vars

(* A native call that can go on does: it gets its event, its time runs     *)
(* out, it returns.  Whether events arrive and who calls is left open.     *)
Fairness ==
  \A t \in Threads : WF_vars(RecvTakes(t) \/ RecvTimesOut(t) \/ ReturnEvent(t) \/ ReturnThrows(t))

FairSpec == Spec /\ Fairness

-----------------------------------------------------------------------------
Calls == {"getEvent", "recvEvent", "recvEventForever"}
EventNums == 1 .. assembled

TypeOK ==
  /\ state \in {"new", "open", "freed"}
  /\ assembled \in 0 .. MaxEvents
  /\ eventQueue \in Seq(EventNums) /\ Len(eventQueue) <= QueueSize
  /\ lostEvents \in Seq(EventNums)
  /\ memory \subseteq EventNums
  /\ frame \in [Threads -> [pc : {"idle", "waiting", "taken"}, call : Calls \cup {"none"},
                            event : EventNums \cup {NoEvent}]]
  /\ events \subseteq [call : Calls, event : EventNums \cup {NoEvent}]
  /\ returned \subseteq EventNums \cup {NoEvent}
  /\ allocatedBuffers \subseteq EventNums

Queued == {eventQueue[i] : i \in DOMAIN eventQueue}
Lost == {lostEvents[i] : i \in DOMAIN lostEvents}
Taken == {frame[t].event : t \in Threads} \ {NoEvent}
Delivered == {e.event : e \in events} \ {NoEvent}

(* One event goes to one caller: however many threads poll and wait, no    *)
(* buffer is in two native frames, in two ReassembledEvents, or handed out *)
(* while it is still queued or after it was reported lost.                 *)
DeliveredOnce ==
  /\ \A i, j \in DOMAIN eventQueue : i # j => eventQueue[i] # eventQueue[j]
  /\ \A s, t \in Threads : s # t => frame[s].event = NoEvent \/ frame[s].event # frame[t].event
  /\ \A d, e \in events : d # e => d.event = NoEvent \/ d.event # e.event
  /\ Queued \cap (Lost \cup Taken \cup Delivered) = {}
  /\ Taken \cap (Lost \cup Delivered) = {}
  /\ Lost \cap Delivered = {}

(* A direct ByteBuffer is a window on native memory: the memory is there   *)
(* from the moment a thread takes the event until the application gives    *)
(* the event back, or frees the Reassembler: free() may take the buffers   *)
(* that "have yet to be freed" with it.                                    *)
ReadableUntilReturned ==
  state # "freed" => (Queued \cup Taken \cup Delivered) \ returned \subseteq memory

(* "Blocking variant of getEvent()": what recvEvent returns is an event;   *)
(* a wait that ends without one never becomes a ReassembledEvent.          *)
RecvReturnsRealEvents ==
  \A e \in events : e.call # "getEvent" => e.event # NoEvent

(* Where an event is: an assembled one that is nowhere else is gone.       *)
Place ==
  [n \in 1 .. MaxEvents |->
     IF n > assembled THEN "unborn"
     ELSE IF n \in Queued THEN "queued"
     ELSE IF n \in Lost THEN "lost"
     ELSE IF n \in Taken THEN "held"
     ELSE IF n \in Delivered THEN "delivered"
     ELSE "gone"]

Delivery == INSTANCE EventDelivery WITH place <- Place

(* The receive path implements EventDelivery: whatever calls race for the  *)
(* queue, with events refused by a full queue, waits that end, results     *)
(* that cannot be made and a free() in between, each event goes its way    *)
(* from assembly to one caller in turn, and none comes back.               *)
EventsAreDelivered == Delivery!Spec

(* Events are handed to the callers in the order they were assembled.      *)
TakenInOrder ==
  [][\A t \in Threads :
       LET e == frame'[t].event IN
       e \notin Taken \cup {NoEvent} => \A d \in Taken \cup Delivered : d < e]_vars

(* "how long to block before giving up": a call with a limit returns.      *)
TimedWaitEnds ==
  \A t \in Threads : frame[t].call = "recvEvent" ~> frame[t] = Idle

(* An event at the head of the queue does not stay there while a thread    *)
(* waits without limit.                                                    *)
HeadReachesWaiter ==
  \A n \in 1 .. MaxEvents :
    (/\ eventQueue # <<>> /\ Head(eventQueue) = n
     /\ \E t \in Threads : frame[t].pc = "waiting" /\ frame[t].call = "recvEventForever")
      ~> ~(eventQueue # <<>> /\ Head(eventQueue) = n)

(* Reassembler.java: "if an error occurs or if there's no event available  *)
(* Optional.empty() is returned otherwise the ReassembledEvent": an event  *)
(* that is returned is one that was assembled.                             *)
EmptyQueueGivesEmptyOptional == \A e \in events : e.event # NoEvent

(* Reassembler.java: free() "also frees all Buffers that have yet to be    *)
(* freed".                                                                 *)
FreeReleasesBuffers == state = "freed" => Delivered \cap memory = {}
=============================================================================
