------------------------- MODULE Reassembler_proofs -------------------------
(***************************************************************************)
(* Proofs about the receive path of Reassembler, for any number of threads *)
(* and events and any size of the queue.                                   *)
(*                                                                         *)
(* That no event goes to two callers rests on the numbers in the queue     *)
(* growing from its head to its end and lying above all that were taken:   *)
(* whoever takes the head takes an event nobody has had.  That delivered   *)
(* events stay readable does not rest on allocatedBuffers being empty.     *)
(***************************************************************************)
EXTENDS Reassembler, TLAPS

Growing(s) == \A i, j \in DOMAIN s : i < j => s[i] < s[j]

(* A frame has an event only between taking and returning it, and always   *)
(* one then if its call is recvEvent.                                      *)
FrameInv ==
  \A t \in Threads :
    /\ frame[t].event # NoEvent => frame[t].pc = "taken"
    /\ frame[t].pc = "waiting" => frame[t].call \in Calls \ {"getEvent"}
    /\ frame[t].pc = "taken" => frame[t].call \in Calls
    /\ frame[t].pc = "taken" /\ frame[t].call # "getEvent" => frame[t].event # NoEvent

OrderInv == \A q \in Queued, d \in Taken \cup Delivered : d < q

IInv ==
  /\ TypeOK
  /\ FrameInv
  /\ Growing(eventQueue)
  /\ Growing(lostEvents)
  /\ OrderInv
  /\ DeliveredOnce
  /\ ReadableUntilReturned
  /\ RecvReturnsRealEvents

(* A frame that has no event: it is idle, it waits, or getEvent has found  *)
(* the queue empty.                                                        *)
Quiet(f) ==
  \/ f \in {Idle, Frame("taken", "getEvent", NoEvent)}
  \/ \E call \in Calls \ {"getEvent"} : f = Frame("waiting", call, NoEvent)

-----------------------------------------------------------------------------
(* What is in a growing queue of which the head is taken.                  *)
LEMMA TailFacts ==
  ASSUME NEW s \in Seq(Nat), s # <<>>, Growing(s)
  PROVE  /\ Head(s) = s[1] /\ 1 \in DOMAIN s
         /\ Tail(s) \in Seq(Nat) /\ Len(Tail(s)) = Len(s) - 1
         /\ DOMAIN Tail(s) = 1 .. Len(s) - 1
         /\ \A i \in DOMAIN Tail(s) : i + 1 \in DOMAIN s /\ Tail(s)[i] = s[i + 1]
         /\ Growing(Tail(s))
         /\ {Tail(s)[i] : i \in DOMAIN Tail(s)} = {s[i] : i \in DOMAIN s} \ {Head(s)}
         /\ \A i \in DOMAIN s : Head(s) <= s[i]
<1>1. /\ Head(s) = s[1] /\ 1 \in DOMAIN s
      /\ Tail(s) \in Seq(Nat) /\ Len(Tail(s)) = Len(s) - 1
      /\ DOMAIN Tail(s) = 1 .. Len(s) - 1
      /\ \A i \in DOMAIN Tail(s) : i + 1 \in DOMAIN s /\ Tail(s)[i] = s[i + 1]
  OBVIOUS
<1>2. \A i \in DOMAIN s : i \in Nat /\ s[i] \in Nat
  OBVIOUS
<1>3. Growing(Tail(s)) /\ \A i \in DOMAIN s : Head(s) <= s[i]
  BY <1>1, <1>2 DEF Growing
<1>4. ASSUME NEW i \in DOMAIN s, i # 1
      PROVE  s[i] # Head(s) /\ i - 1 \in DOMAIN Tail(s) /\ Tail(s)[i - 1] = s[i]
  <2>1. i \in 2 .. Len(s) /\ Len(s) \in Nat
    BY <1>4
  <2>2. i - 1 \in DOMAIN Tail(s) /\ (i - 1) + 1 = i
    BY <1>1, <2>1
  <2>3. s[1] < s[i]
    BY <1>1, <2>1 DEF Growing
  <2>4. QED
    BY <1>1, <1>2, <2>2, <2>3
<1>5. ASSUME NEW i \in DOMAIN Tail(s) PROVE Tail(s)[i] # Head(s)
  <2>1. i \in Nat /\ 1 < i + 1 /\ i + 1 \in DOMAIN s
    BY <1>1
  <2>2. s[1] < s[i + 1]
    BY <1>1, <2>1 DEF Growing
  <2>3. QED
    BY <1>1, <1>2, <2>1, <2>2
<1>6. {Tail(s)[i] : i \in DOMAIN Tail(s)} = {s[i] : i \in DOMAIN s} \ {Head(s)}
  <2>1. ASSUME NEW i \in DOMAIN s, s[i] # Head(s)
        PROVE  \E j \in DOMAIN Tail(s) : Tail(s)[j] = s[i]
    <3>1. i # 1
      BY <1>1, <2>1
    <3>2. QED
      BY <1>4, <3>1
  <2>2. ASSUME NEW i \in DOMAIN Tail(s)
        PROVE  \E j \in DOMAIN s : s[j] = Tail(s)[i]
    BY <1>1
  <2>3. ASSUME NEW r, NEW h, \A i \in DOMAIN r : r[i] # h,
               \A i \in DOMAIN s : s[i] # h => \E j \in DOMAIN r : r[j] = s[i],
               \A i \in DOMAIN r : \E j \in DOMAIN s : s[j] = r[i]
        PROVE  {r[i] : i \in DOMAIN r} = {s[i] : i \in DOMAIN s} \ {h}
    BY <2>3
  <2>4. QED
    BY <1>5, <2>1, <2>2, <2>3
<1>7. QED
  BY <1>1, <1>3, <1>6

(* What is in a growing queue to which a larger number is added.           *)
LEMMA AppendFacts ==
  ASSUME NEW s \in Seq(Nat), NEW n \in Nat, Growing(s), \A i \in DOMAIN s : s[i] < n
  PROVE  /\ Append(s, n) \in Seq(Nat) /\ Len(Append(s, n)) = Len(s) + 1
         /\ Growing(Append(s, n))
         /\ {Append(s, n)[i] : i \in DOMAIN Append(s, n)} = {s[i] : i \in DOMAIN s} \cup {n}
<1>1. /\ Append(s, n) \in Seq(Nat) /\ Len(Append(s, n)) = Len(s) + 1
      /\ DOMAIN Append(s, n) = 1 .. Len(s) + 1
      /\ DOMAIN s = 1 .. Len(s)
      /\ \A i \in DOMAIN s : Append(s, n)[i] = s[i]
      /\ Append(s, n)[Len(s) + 1] = n
  OBVIOUS
<1>2. \A i \in DOMAIN s : i \in Nat /\ s[i] \in Nat
  OBVIOUS
<1>3. Growing(Append(s, n))
  BY <1>1, <1>2 DEF Growing
<1>4. \A i \in DOMAIN Append(s, n) : i \in DOMAIN s \/ i = Len(s) + 1
  BY <1>1
<1>5. {Append(s, n)[i] : i \in DOMAIN Append(s, n)} = {s[i] : i \in DOMAIN s} \cup {n}
  BY <1>1, <1>4
<1>6. QED
  BY <1>1, <1>3, <1>5

(* The inductive invariant holds initially.                                *)
LEMMA InitInv == Init => IInv
<1> SUFFICES ASSUME Init PROVE IInv
  OBVIOUS
<1> USE DEF Init
<1>1. TypeOK
  BY BoundAssumption DEF TypeOK, Idle, EventNums, Calls
<1>2. Queued = {} /\ Lost = {} /\ Taken = {} /\ Delivered = {}
  BY DEF Queued, Lost, Taken, Delivered, Idle
<1>3. FrameInv /\ Growing(eventQueue) /\ Growing(lostEvents)
  BY DEF FrameInv, Growing, Idle, NoEvent
<1>4. DeliveredOnce
  BY <1>2 DEF DeliveredOnce, Idle, NoEvent
<1>5. OrderInv /\ ReadableUntilReturned /\ RecvReturnsRealEvents
  BY <1>2 DEF OrderInv, ReadableUntilReturned, RecvReturnsRealEvents
<1>6. QED
  BY <1>1, <1>3, <1>4, <1>5 DEF IInv

-----------------------------------------------------------------------------
(* Where the events are after a step, for the four kinds of steps there    *)
(* are: a frame gives up what it has, a frame takes the head of the queue, *)
(* a frame's event goes to the application, an event is assembled.         *)
Elsewhere == <<state, assembled, lostEvents, memory, returned, allocatedBuffers>>

GiveUp(t, f) ==
  /\ Quiet(f)
  /\ frame' = [frame EXCEPT ![t] = f]
  /\ UNCHANGED <<Elsewhere, eventQueue, events>>

TakeHead(t) ==
  /\ eventQueue # <<>>
  /\ frame[t].event = NoEvent
  /\ \E call \in Calls : frame' = [frame EXCEPT ![t] = Frame("taken", call, Head(eventQueue))]
  /\ eventQueue' = Tail(eventQueue)
  /\ UNCHANGED <<Elsewhere, events>>

LEMMA FrameType ==
  ASSUME TypeOK, NEW t \in Threads
  PROVE  /\ frame[t].pc \in {"idle", "waiting", "taken"}
         /\ frame[t].call \in Calls \cup {"none"}
         /\ frame[t].event \in EventNums \cup {NoEvent}
BY DEF TypeOK

LEMMA Numbers ==
  ASSUME TypeOK
  PROVE  /\ assembled \in Nat /\ EventNums \subseteq Nat \ {NoEvent}
         /\ eventQueue \in Seq(Nat) /\ lostEvents \in Seq(Nat)
         /\ Queued \subseteq EventNums /\ Lost \subseteq EventNums
         /\ Taken \subseteq EventNums /\ Delivered \subseteq EventNums
<1>1. assembled \in Nat /\ EventNums \subseteq Nat \ {NoEvent}
  BY BoundAssumption DEF TypeOK, EventNums, NoEvent
<1>2. eventQueue \in Seq(Nat) /\ lostEvents \in Seq(Nat)
  BY BoundAssumption DEF TypeOK, EventNums
<1>3. Queued \subseteq EventNums /\ Lost \subseteq EventNums
  BY DEF TypeOK, Queued, Lost
<1>4. Taken \subseteq EventNums
  BY FrameType DEF Taken
<1>5. Delivered \subseteq EventNums
  BY DEF TypeOK, Delivered
<1>6. QED
  BY <1>1, <1>2, <1>3, <1>4, <1>5

LEMMA GiveUpSets ==
  ASSUME IInv, NEW t \in Threads, NEW f, GiveUp(t, f)
  PROVE  /\ Queued' = Queued /\ Lost' = Lost /\ Delivered' = Delivered
         /\ Taken' = Taken \ {frame[t].event}
         /\ \A s \in Threads : frame'[s] = IF s = t THEN f ELSE frame[s]
         /\ f.event = NoEvent
<1>1. f.event = NoEvent
  BY DEF GiveUp, Quiet, Idle, Frame
<1>2. \A s \in Threads : frame'[s] = IF s = t THEN f ELSE frame[s]
  BY DEF GiveUp, IInv, TypeOK
<1>3. Queued' = Queued /\ Lost' = Lost /\ Delivered' = Delivered
  BY DEF GiveUp, Elsewhere, Queued, Lost, Delivered
<1>4. \A s \in Threads : s # t => frame[s].event = NoEvent \/ frame[s].event # frame[t].event
  BY DEF IInv, DeliveredOnce
<1>5. Taken' = Taken \ {frame[t].event}
  BY <1>1, <1>2, <1>4 DEF Taken
<1>6. QED
  BY <1>1, <1>2, <1>3, <1>5

LEMMA TakeHeadSets ==
  ASSUME IInv, NEW t \in Threads, TakeHead(t)
  PROVE  /\ Lost' = Lost /\ Delivered' = Delivered
         /\ Queued' = Queued \ {Head(eventQueue)}
         /\ Taken' = Taken \cup {Head(eventQueue)}
         /\ Head(eventQueue) \in Queued
         /\ \A q \in Queued : Head(eventQueue) <= q
         /\ Growing(eventQueue') /\ Len(eventQueue') <= QueueSize
         /\ \E call \in Calls : \A s \in Threads :
              frame'[s] = IF s = t THEN Frame("taken", call, Head(eventQueue)) ELSE frame[s]
<1> DEFINE h == Head(eventQueue)
<1>1. eventQueue \in Seq(Nat) /\ EventNums \subseteq Nat \ {NoEvent} /\ Queued \subseteq EventNums
  BY Numbers DEF IInv
<1>2. /\ h \in Queued
      /\ \A q \in Queued : h <= q
      /\ Queued' = Queued \ {h}
      /\ Growing(eventQueue') /\ Len(eventQueue') = Len(eventQueue) - 1
  <2>1. eventQueue # <<>> /\ Growing(eventQueue) /\ eventQueue' = Tail(eventQueue)
    BY DEF TakeHead, IInv
  <2>2. /\ h = eventQueue[1] /\ 1 \in DOMAIN eventQueue
        /\ Len(Tail(eventQueue)) = Len(eventQueue) - 1
        /\ Growing(Tail(eventQueue))
        /\ {Tail(eventQueue)[i] : i \in DOMAIN Tail(eventQueue)}
             = {eventQueue[i] : i \in DOMAIN eventQueue} \ {h}
        /\ \A i \in DOMAIN eventQueue : h <= eventQueue[i]
    BY <1>1, <2>1, TailFacts
  <2> HIDE DEF h
  <2>3. h \in Queued /\ \A q \in Queued : h <= q
    BY <2>2 DEF Queued
  <2>4. Queued' = Queued \ {h}
    BY <2>1, <2>2 DEF Queued
  <2>5. Growing(eventQueue') /\ Len(eventQueue') = Len(eventQueue) - 1
    BY <2>1, <2>2 DEF Growing
  <2>6. QED
    BY <2>3, <2>4, <2>5
<1>3. Len(eventQueue') <= QueueSize
  BY <1>1, <1>2, BoundAssumption DEF IInv, TypeOK
<1>4. PICK call \in Calls : frame' = [frame EXCEPT ![t] = Frame("taken", call, h)]
  BY DEF TakeHead
<1>5. \A s \in Threads : frame'[s] = IF s = t THEN Frame("taken", call, h) ELSE frame[s]
  BY <1>4 DEF IInv, TypeOK
<1>6. h # NoEvent
  BY <1>1, <1>2
<1>7. Taken' = Taken \cup {h}
  <2>1. frame'[t].event = h /\ frame[t].event = NoEvent
    BY <1>5 DEF Frame, TakeHead
  <2>2. \A s \in Threads : s # t => frame'[s].event = frame[s].event
    BY <1>5
  <2>3. QED
    BY <1>6, <2>1, <2>2 DEF Taken
<1>8. Lost' = Lost /\ Delivered' = Delivered
  BY DEF TakeHead, Elsewhere, Lost, Delivered
<1>9. \E c \in Calls : \A s \in Threads :
        frame'[s] = IF s = t THEN Frame("taken", c, h) ELSE frame[s]
  BY <1>5
<1> HIDE DEF h
<1>10. QED
  BY <1>2, <1>3, <1>7, <1>8, <1>9 DEF h

LEMMA ReturnSets ==
  ASSUME IInv, NEW t \in Threads, ReturnEvent(t)
  PROVE  /\ Queued' = Queued /\ Lost' = Lost
         /\ Delivered' = Delivered \cup ({frame[t].event} \ {NoEvent})
         /\ Taken' = Taken \ {frame[t].event}
         /\ \A s \in Threads : frame'[s] = IF s = t THEN Idle ELSE frame[s]
<1>1. \A s \in Threads : frame'[s] = IF s = t THEN Idle ELSE frame[s]
  BY DEF ReturnEvent, IInv, TypeOK
<1>2. \A s \in Threads : s # t => frame[s].event = NoEvent \/ frame[s].event # frame[t].event
  BY DEF IInv, DeliveredOnce
<1>3. Taken' = Taken \ {frame[t].event}
  BY <1>1, <1>2 DEF Taken, Idle
<1>4. Delivered' = Delivered \cup ({frame[t].event} \ {NoEvent})
  <2> DEFINE r == [call |-> frame[t].call, event |-> frame[t].event]
  <2>1. events' = events \cup {r} /\ r.event = frame[t].event
    BY DEF ReturnEvent
  <2> HIDE DEF r
  <2>2. QED
    BY <2>1 DEF Delivered
<1>5. Queued' = Queued /\ Lost' = Lost
  BY DEF ReturnEvent, Queued, Lost
<1>6. QED
  BY <1>1, <1>3, <1>4, <1>5

LEMMA EnqueueSets ==
  ASSUME IInv, Enqueue
  PROVE  /\ Taken' = Taken /\ Delivered' = Delivered
         /\ \/ Queued' = Queued \cup {assembled'} /\ Lost' = Lost
            \/ Queued' = Queued /\ Lost' = Lost \cup {assembled'}
         /\ assembled' = assembled + 1 /\ assembled' \notin EventNums
         /\ EventNums' = EventNums \cup {assembled'}
         /\ Growing(eventQueue') /\ Growing(lostEvents')
<1>1. /\ eventQueue \in Seq(Nat) /\ lostEvents \in Seq(Nat)
      /\ assembled \in Nat /\ assembled' = assembled + 1 /\ assembled' \in Nat
      /\ \A n \in EventNums : n < assembled'
      /\ Queued \subseteq EventNums /\ Lost \subseteq EventNums
  BY Numbers DEF IInv, Enqueue, EventNums
<1>2. assembled' \notin EventNums /\ EventNums' = EventNums \cup {assembled'}
  BY <1>1 DEF EventNums
<1>3. \A i \in DOMAIN eventQueue : eventQueue[i] < assembled'
  BY <1>1 DEF Queued
<1>4. \A i \in DOMAIN lostEvents : lostEvents[i] < assembled'
  BY <1>1 DEF Lost
<1>5. Taken' = Taken /\ Delivered' = Delivered
  BY DEF Enqueue, Taken, Delivered
<1>6. CASE eventQueue' = Append(eventQueue, assembled') /\ UNCHANGED lostEvents
  <2> DEFINE n == assembled'
  <2>1. n \in Nat /\ Growing(eventQueue) /\ \A i \in DOMAIN eventQueue : eventQueue[i] < n
    BY <1>1, <1>3 DEF IInv
  <2> HIDE DEF n
  <2>2. /\ Growing(Append(eventQueue, n))
        /\ {Append(eventQueue, n)[i] : i \in DOMAIN Append(eventQueue, n)}
             = {eventQueue[i] : i \in DOMAIN eventQueue} \cup {n}
    BY <1>1, <2>1, AppendFacts
  <2>3. eventQueue' = Append(eventQueue, n)
    BY <1>6 DEF n
  <2>4. Growing(eventQueue') /\ Queued' = Queued \cup {n}
    BY <2>2, <2>3 DEF Growing, Queued
  <2>5. Growing(lostEvents') /\ Lost' = Lost
    BY <1>6 DEF IInv, Lost, Growing
  <2>6. QED
    BY <1>1, <1>2, <1>5, <2>4, <2>5 DEF n
<1>7. CASE lostEvents' = Append(lostEvents, assembled') /\ UNCHANGED eventQueue
  <2> DEFINE n == assembled'
  <2>1. n \in Nat /\ Growing(lostEvents) /\ \A i \in DOMAIN lostEvents : lostEvents[i] < n
    BY <1>1, <1>4 DEF IInv
  <2> HIDE DEF n
  <2>2. /\ Growing(Append(lostEvents, n))
        /\ {Append(lostEvents, n)[i] : i \in DOMAIN Append(lostEvents, n)}
             = {lostEvents[i] : i \in DOMAIN lostEvents} \cup {n}
    BY <1>1, <2>1, AppendFacts
  <2>3. lostEvents' = Append(lostEvents, n)
    BY <1>7 DEF n
  <2>4. Growing(lostEvents') /\ Lost' = Lost \cup {n}
    BY <2>2, <2>3 DEF Growing, Lost
  <2>5. Growing(eventQueue') /\ Queued' = Queued
    BY <1>7 DEF IInv, Queued, Growing
  <2>6. QED
    BY <1>1, <1>2, <1>5, <2>4, <2>5 DEF n
<1>8. QED
  BY <1>6, <1>7 DEF Enqueue

-----------------------------------------------------------------------------
LEMMA SeqWiden ==
  ASSUME NEW S, NEW T, S \subseteq T, NEW s \in Seq(S)
  PROVE  s \in Seq(T)
OBVIOUS

LEMMA GrowingDistinct ==
  ASSUME NEW s \in Seq(Nat), Growing(s)
  PROVE  \A i, j \in DOMAIN s : i # j => s[i] # s[j]
<1>1. \A i \in DOMAIN s : i \in Nat /\ s[i] \in Nat
  OBVIOUS
<1>2. QED
  BY <1>1 DEF Growing

(* The invariant after each of the four kinds of steps.                    *)
LEMMA GiveUpInv ==
  ASSUME IInv, NEW t \in Threads, NEW f, GiveUp(t, f)
  PROVE  IInv'
<1>1. /\ Queued' = Queued /\ Lost' = Lost /\ Delivered' = Delivered
      /\ Taken' = Taken \ {frame[t].event}
      /\ \A s \in Threads : frame'[s] = IF s = t THEN f ELSE frame[s]
      /\ f.event = NoEvent
  BY GiveUpSets
<1>2. UNCHANGED <<state, assembled, lostEvents, memory, returned, allocatedBuffers,
                  eventQueue, events>>
  BY DEF GiveUp, Elsewhere
<1>3. TypeOK'
  <2>1. f \in [pc : {"idle", "waiting", "taken"}, call : Calls \cup {"none"},
               event : EventNums \cup {NoEvent}]
    BY DEF GiveUp, Quiet, Idle, Frame, Calls
  <2>2. frame' \in [Threads -> [pc : {"idle", "waiting", "taken"}, call : Calls \cup {"none"},
                                event : EventNums \cup {NoEvent}]]
    BY <2>1 DEF GiveUp, IInv, TypeOK
  <2>3. QED
    BY <1>2, <2>2 DEF IInv, TypeOK, EventNums, Calls
<1>4. FrameInv'
  <2>1. /\ f.pc = "waiting" => f.call \in Calls \ {"getEvent"}
        /\ f.pc = "taken" => f.call = "getEvent" /\ f.call \in Calls
    BY DEF GiveUp, Quiet, Idle, Frame, Calls
  <2>2. QED
    BY <1>1, <2>1 DEF IInv, FrameInv
<1>5. Growing(eventQueue)' /\ Growing(lostEvents)'
  BY <1>2 DEF IInv, Growing
<1>6. OrderInv'
  BY <1>1 DEF IInv, OrderInv
<1>7. DeliveredOnce'
  BY <1>1, <1>2 DEF IInv, DeliveredOnce
<1>8. ReadableUntilReturned' /\ RecvReturnsRealEvents'
  BY <1>1, <1>2 DEF IInv, ReadableUntilReturned, RecvReturnsRealEvents
<1>9. QED
  BY <1>3, <1>4, <1>5, <1>6, <1>7, <1>8 DEF IInv

LEMMA TakeHeadInv ==
  ASSUME IInv, NEW t \in Threads, TakeHead(t)
  PROVE  IInv'
<1> DEFINE h == Head(eventQueue)
<1>1. /\ Lost' = Lost /\ Delivered' = Delivered
      /\ Queued' = Queued \ {h} /\ Taken' = Taken \cup {h}
      /\ h \in Queued
      /\ \A q \in Queued : h <= q
      /\ Growing(eventQueue') /\ Len(eventQueue') <= QueueSize
  BY TakeHeadSets
<1>2. PICK call \in Calls : \A s \in Threads :
        frame'[s] = IF s = t THEN Frame("taken", call, h) ELSE frame[s]
  BY TakeHeadSets
<1>3. UNCHANGED <<state, assembled, lostEvents, memory, returned, allocatedBuffers, events>>
  BY DEF TakeHead, Elsewhere
<1>4. /\ EventNums \subseteq Nat \ {NoEvent} /\ h \in EventNums
      /\ Queued \subseteq EventNums
  BY <1>1, Numbers DEF IInv
<1>5. eventQueue' \in Seq(EventNums)
  BY DEF TakeHead, IInv, TypeOK
<1> HIDE DEF h
<1>6. TypeOK'
  <2>1. Frame("taken", call, h) \in
          [pc : {"idle", "waiting", "taken"}, call : Calls \cup {"none"},
           event : EventNums \cup {NoEvent}]
    BY <1>2, <1>4 DEF Frame
  <2>2. frame' \in [Threads -> [pc : {"idle", "waiting", "taken"}, call : Calls \cup {"none"},
                                event : EventNums \cup {NoEvent}]]
    <3>1. \E c \in Calls : frame' = [frame EXCEPT ![t] = Frame("taken", c, h)]
      BY DEF TakeHead, h
    <3>2. QED
      BY <1>2, <2>1, <3>1 DEF IInv, TypeOK
  <2>3. QED
    BY <1>1, <1>3, <1>5, <2>2 DEF IInv, TypeOK, EventNums, Calls
<1>7. FrameInv'
  BY <1>2, <1>4 DEF IInv, FrameInv, Frame
<1>8. Growing(eventQueue)' /\ Growing(lostEvents)'
  BY <1>1, <1>3 DEF IInv, Growing
<1>9. OrderInv'
  <2>1. \A q \in Queued \ {h} : h < q
    BY <1>1, <1>4
  <2>2. QED
    BY <1>1, <2>1 DEF IInv, OrderInv
<1>10. DeliveredOnce'
  <2>1. (\A i, j \in DOMAIN eventQueue : i # j => eventQueue[i] # eventQueue[j])'
    <3> DEFINE q == eventQueue'
    <3>1. q \in Seq(EventNums) /\ EventNums \subseteq Nat /\ Growing(q)
      BY <1>1, <1>4, <1>5
    <3> HIDE DEF q
    <3>2. q \in Seq(Nat)
      BY <3>1, SeqWiden
    <3>3. \A i, j \in DOMAIN q : i # j => q[i] # q[j]
      BY <3>1, <3>2, GrowingDistinct
    <3>4. QED
      BY <3>3 DEF q
  <2>2. \A s \in Threads : frame[s].event # h
    BY <1>1, <1>4 DEF IInv, DeliveredOnce, Taken
  <2>3. (\A s, u \in Threads : s # u =>
           frame[s].event = NoEvent \/ frame[s].event # frame[u].event)'
    BY <1>2, <2>2 DEF IInv, DeliveredOnce, Frame
  <2>4. (\A d, e \in events : d # e => d.event = NoEvent \/ d.event # e.event)'
    BY <1>3 DEF IInv, DeliveredOnce
  <2>5. /\ Queued' \cap (Lost' \cup Taken' \cup Delivered') = {}
        /\ Taken' \cap (Lost' \cup Delivered') = {}
        /\ Lost' \cap Delivered' = {}
    BY <1>1 DEF IInv, DeliveredOnce
  <2>6. QED
    BY <2>1, <2>3, <2>4, <2>5 DEF DeliveredOnce
<1>11. ReadableUntilReturned' /\ RecvReturnsRealEvents'
  BY <1>1, <1>3 DEF IInv, ReadableUntilReturned, RecvReturnsRealEvents
<1>12. QED
  BY <1>6, <1>7, <1>8, <1>9, <1>10, <1>11 DEF IInv

LEMMA ReturnInv ==
  ASSUME IInv, NEW t \in Threads, ReturnEvent(t)
  PROVE  IInv'
<1> DEFINE e == frame[t].event
           r == [call |-> frame[t].call, event |-> frame[t].event]
<1>1. /\ Queued' = Queued /\ Lost' = Lost
      /\ Delivered' = Delivered \cup ({e} \ {NoEvent})
      /\ Taken' = Taken \ {e}
      /\ \A s \in Threads : frame'[s] = IF s = t THEN Idle ELSE frame[s]
  BY ReturnSets
<1>2. UNCHANGED <<state, assembled, eventQueue, lostEvents, memory, returned, allocatedBuffers>>
  BY DEF ReturnEvent
<1>3. /\ events' = events \cup {r}
      /\ frame' = [frame EXCEPT ![t] = Idle]
      /\ frame[t].pc = "taken"
  BY DEF ReturnEvent
<1>4. e \in EventNums \cup {NoEvent} /\ frame[t].call \in Calls
  BY <1>3, FrameType DEF IInv, FrameInv
<1>5. r.call = frame[t].call /\ r.event = e
  OBVIOUS
<1>6. e # NoEvent => e \in Taken
  BY DEF Taken
<1>7. r \in [call : Calls, event : EventNums \cup {NoEvent}]
  BY <1>4
<1> HIDE DEF e, r
<1>8. TypeOK'
  <2>1. Idle \in [pc : {"idle", "waiting", "taken"}, call : Calls \cup {"none"},
                  event : EventNums \cup {NoEvent}]
    BY DEF Idle
  <2>2. frame' \in [Threads -> [pc : {"idle", "waiting", "taken"}, call : Calls \cup {"none"},
                                event : EventNums \cup {NoEvent}]]
    BY <1>3, <2>1 DEF IInv, TypeOK
  <2>3. events' \subseteq [call : Calls, event : EventNums \cup {NoEvent}]
    BY <1>3, <1>7 DEF IInv, TypeOK
  <2>4. QED
    BY <1>2, <2>2, <2>3 DEF IInv, TypeOK, EventNums, Calls
<1>9. FrameInv'
  BY <1>1 DEF IInv, FrameInv, Idle
<1>10. Growing(eventQueue)' /\ Growing(lostEvents)'
  BY <1>2 DEF IInv, Growing
<1>11. OrderInv'
  BY <1>1, <1>6 DEF IInv, OrderInv
<1>12. DeliveredOnce'
  <2>1. (\A i, j \in DOMAIN eventQueue : i # j => eventQueue[i] # eventQueue[j])'
    BY <1>2 DEF IInv, DeliveredOnce
  <2>2. (\A s, u \in Threads : s # u =>
           frame[s].event = NoEvent \/ frame[s].event # frame[u].event)'
    BY <1>1 DEF IInv, DeliveredOnce, Idle
  <2>3. ASSUME NEW d \in events PROVE d.event = NoEvent \/ d.event # e
    <3>1. d.event # NoEvent => d.event \in Delivered
      BY DEF Delivered
    <3>2. QED
      BY <1>6, <3>1 DEF IInv, DeliveredOnce
  <2>4. (\A d, f \in events : d # f => d.event = NoEvent \/ d.event # f.event)'
    BY <1>3, <1>5, <2>3 DEF IInv, DeliveredOnce
  <2>5. /\ Queued' \cap (Lost' \cup Taken' \cup Delivered') = {}
        /\ Taken' \cap (Lost' \cup Delivered') = {}
        /\ Lost' \cap Delivered' = {}
    BY <1>1, <1>6 DEF IInv, DeliveredOnce
  <2>6. QED
    BY <2>1, <2>2, <2>4, <2>5 DEF DeliveredOnce
<1>13. ReadableUntilReturned'
  BY <1>1, <1>2, <1>6 DEF IInv, ReadableUntilReturned
<1>14. RecvReturnsRealEvents'
  BY <1>3, <1>5 DEF IInv, FrameInv, RecvReturnsRealEvents, e
<1>15. QED
  BY <1>8, <1>9, <1>10, <1>11, <1>12, <1>13, <1>14 DEF IInv

LEMMA EnqueueInv == IInv /\ Enqueue => IInv'
<1> SUFFICES ASSUME IInv, Enqueue PROVE IInv'
  OBVIOUS
<1> DEFINE n == assembled'
<1>1. /\ Taken' = Taken /\ Delivered' = Delivered
      /\ \/ Queued' = Queued \cup {n} /\ Lost' = Lost
         \/ Queued' = Queued /\ Lost' = Lost \cup {n}
      /\ n = assembled + 1 /\ n \notin EventNums
      /\ EventNums' = EventNums \cup {n}
      /\ Growing(eventQueue') /\ Growing(lostEvents')
  BY EnqueueSets
<1>2. UNCHANGED <<state, frame, events, returned, allocatedBuffers>> /\ assembled < MaxEvents
  BY DEF Enqueue
<1>3. /\ assembled \in Nat /\ EventNums \subseteq Nat \ {NoEvent}
      /\ Queued \subseteq EventNums /\ Lost \subseteq EventNums
      /\ Taken \subseteq EventNums /\ Delivered \subseteq EventNums
  BY Numbers DEF IInv
<1>4. TypeOK'
  <2> DEFINE E == EventNums'
  <2> HIDE DEF n, E
  <2>0. eventQueue \in Seq(E) /\ lostEvents \in Seq(E) /\ n \in E
    BY <1>1, SeqWiden DEF IInv, TypeOK, E
  <2>1. eventQueue' \in Seq(E) /\ Len(eventQueue') <= QueueSize
    <3>1. eventQueue \in Seq(E) /\ n \in E /\ Len(eventQueue) <= QueueSize /\ QueueSize \in Nat
      BY <2>0, BoundAssumption DEF IInv, TypeOK
    <3>2. \/ eventQueue' = Append(eventQueue, n) /\ Len(eventQueue) < QueueSize
          \/ eventQueue' = eventQueue
      BY DEF Enqueue, n
    <3>3. QED
      BY <3>1, <3>2
  <2>2. lostEvents' \in Seq(E)
    BY <2>0 DEF Enqueue, IInv, TypeOK, n
  <2>3. memory' \subseteq EventNums'
    BY <1>1 DEF Enqueue, IInv, TypeOK, n
  <2>4. assembled' \in 0 .. MaxEvents
    BY <1>1, <1>2, <1>3, BoundAssumption DEF n
  <2>5. /\ frame' \in [Threads -> [pc : {"idle", "waiting", "taken"},
                                   call : Calls \cup {"none"}, event : EventNums' \cup {NoEvent}]]
        /\ events' \subseteq [call : Calls, event : EventNums' \cup {NoEvent}]
    BY <1>1, <1>2 DEF IInv, TypeOK
  <2>6. /\ state' \in {"new", "open", "freed"}
        /\ returned' \subseteq EventNums' \cup {NoEvent}
        /\ allocatedBuffers' \subseteq EventNums'
    BY <1>1, <1>2 DEF IInv, TypeOK
  <2>7. QED
    BY <2>1, <2>2, <2>3, <2>4, <2>5, <2>6 DEF TypeOK, Calls, E
<1>5. FrameInv' /\ RecvReturnsRealEvents'
  BY <1>2 DEF IInv, FrameInv, RecvReturnsRealEvents
<1>6. OrderInv'
  <2>1. \A d \in Taken \cup Delivered : d < n
    BY <1>1, <1>3 DEF EventNums
  <2>2. QED
    BY <1>1, <2>1 DEF IInv, OrderInv
<1>7. DeliveredOnce'
  <2>1. (\A i, j \in DOMAIN eventQueue : i # j => eventQueue[i] # eventQueue[j])'
    <3> DEFINE q == eventQueue'
    <3>1. q \in Seq(EventNums') /\ EventNums' \subseteq Nat /\ Growing(q)
      <4>1. n \in Nat
        BY <1>1, <1>3
      <4>2. QED
        BY <1>1, <1>3, <1>4, <4>1 DEF TypeOK
    <3> HIDE DEF q
    <3>2. q \in Seq(Nat)
      BY <3>1, SeqWiden
    <3>3. \A i, j \in DOMAIN q : i # j => q[i] # q[j]
      BY <3>1, <3>2, GrowingDistinct
    <3>4. QED
      BY <3>3 DEF q
  <2>2. (\A s, u \in Threads : s # u =>
           frame[s].event = NoEvent \/ frame[s].event # frame[u].event)'
    BY <1>2 DEF IInv, DeliveredOnce
  <2>3. (\A d, f \in events : d # f => d.event = NoEvent \/ d.event # f.event)'
    BY <1>2 DEF IInv, DeliveredOnce
  <2>4. /\ Queued' \cap (Lost' \cup Taken' \cup Delivered') = {}
        /\ Taken' \cap (Lost' \cup Delivered') = {}
        /\ Lost' \cap Delivered' = {}
    BY <1>1, <1>3 DEF IInv, DeliveredOnce
  <2>5. QED
    BY <2>1, <2>2, <2>3, <2>4 DEF DeliveredOnce
<1>8. ReadableUntilReturned'
  <2>1. CASE eventQueue' = Append(eventQueue, n) /\ memory' = memory \cup {n}
    BY <1>1, <1>2, <2>1 DEF IInv, ReadableUntilReturned
  <2>2. CASE UNCHANGED <<eventQueue, memory>>
    <3>1. Queued' = Queued
      BY <2>2 DEF Queued
    <3>2. QED
      BY <1>1, <1>2, <2>2, <3>1 DEF IInv, ReadableUntilReturned
  <2>3. QED
    BY <2>1, <2>2 DEF Enqueue
<1>9. QED
  BY <1>1, <1>4, <1>5, <1>6, <1>7, <1>8 DEF IInv

(* Which actions are steps of which kind.                                  *)
LEMMA Kinds ==
  ASSUME IInv, NEW t \in Threads
  PROVE  /\ getEvent(t) => TakeHead(t) \/ \E f : GiveUp(t, f)
         /\ \A call \in {"recvEvent", "recvEventForever"} :
              recvEvent(t, call) => \E f : GiveUp(t, f)
         /\ RecvTakes(t) => TakeHead(t)
         /\ RecvTimesOut(t) \/ ReturnThrows(t) => \E f : GiveUp(t, f)
<1> USE DEF Elsewhere
<1>1. frame[t].pc # "taken" => frame[t].event = NoEvent
  BY DEF IInv, FrameInv
<1>2. frame[t] = Idle => frame[t].pc # "taken"
  BY DEF Idle
<1>3. ASSUME getEvent(t) PROVE TakeHead(t) \/ \E f : GiveUp(t, f)
  <2>1. CASE eventQueue = <<>>
    <3>1. GiveUp(t, Frame("taken", "getEvent", NoEvent))
      BY <1>3, <2>1 DEF getEvent, GiveUp, Quiet
    <3>2. QED
      BY <3>1
  <2>2. CASE eventQueue # <<>>
    BY <1>1, <1>2, <1>3, <2>2 DEF getEvent, TakeHead, Calls
  <2>3. QED
    BY <2>1, <2>2
<1>4. ASSUME NEW call \in {"recvEvent", "recvEventForever"}, recvEvent(t, call)
      PROVE  \E f : GiveUp(t, f)
  <2>1. GiveUp(t, Frame("waiting", call, NoEvent))
    BY <1>4 DEF recvEvent, GiveUp, Quiet, Calls
  <2>2. QED
    BY <2>1
<1>5. ASSUME RecvTakes(t) PROVE TakeHead(t)
  BY <1>1, <1>5 DEF RecvTakes, TakeHead, IInv, FrameInv
<1>6. ASSUME RecvTimesOut(t) \/ ReturnThrows(t) PROVE \E f : GiveUp(t, f)
  <2>1. GiveUp(t, Idle)
    BY <1>6 DEF RecvTimesOut, ReturnThrows, GiveUp, Quiet
  <2>2. QED
    BY <2>1
<1>7. QED
  BY <1>3, <1>4, <1>5, <1>6

LEMMA GetLostEventInv == IInv /\ getLostEvent => IInv' /\ Lost' = Lost \ {Head(lostEvents)}
<1> SUFFICES ASSUME IInv, getLostEvent
             PROVE  IInv' /\ Lost' = Lost \ {Head(lostEvents)}
  OBVIOUS
<1> USE DEF getLostEvent
<1>1. lostEvents \in Seq(Nat) /\ lostEvents # <<>> /\ Growing(lostEvents)
  BY Numbers DEF IInv
<1>2. lostEvents' = Tail(lostEvents) /\ Growing(Tail(lostEvents))
  BY <1>1, TailFacts
<1>3. Lost' = Lost \ {Head(lostEvents)}
  <2>1. {Tail(lostEvents)[i] : i \in DOMAIN Tail(lostEvents)}
          = {lostEvents[i] : i \in DOMAIN lostEvents} \ {Head(lostEvents)}
    BY <1>1, TailFacts
  <2>2. QED
    BY <1>2, <2>1 DEF Lost
<1>4. /\ UNCHANGED <<state, assembled, eventQueue, memory, frame, events, returned,
                     allocatedBuffers>>
      /\ Queued' = Queued /\ Taken' = Taken /\ Delivered' = Delivered
  BY DEF Queued, Taken, Delivered
<1>5. TypeOK'
  <2>1. lostEvents' \in Seq(EventNums')
    BY <1>1, <1>2, <1>4 DEF IInv, TypeOK, EventNums
  <2>2. QED
    BY <1>4, <2>1 DEF IInv, TypeOK, EventNums, Calls
<1>6. Growing(eventQueue)' /\ Growing(lostEvents)' /\ FrameInv' /\ OrderInv'
  BY <1>2, <1>4 DEF IInv, FrameInv, OrderInv, Growing
<1>7. DeliveredOnce'
  BY <1>3, <1>4 DEF IInv, DeliveredOnce
<1>8. ReadableUntilReturned' /\ RecvReturnsRealEvents'
  BY <1>4 DEF IInv, ReadableUntilReturned, RecvReturnsRealEvents
<1>9. QED
  BY <1>3, <1>5, <1>6, <1>7, <1>8 DEF IInv

(* free(): the queues go, and the memory of what was queued.               *)
LEMMA FreeInv ==
  IInv /\ free => IInv' /\ Queued' = {} /\ Lost' = {} /\ Taken' = Taken /\ Delivered' = Delivered
<1> SUFFICES ASSUME IInv, free
             PROVE  IInv' /\ Queued' = {} /\ Lost' = {} /\ Taken' = Taken
                      /\ Delivered' = Delivered
  OBVIOUS
<1> USE DEF free
<1>1. Queued' = {} /\ Lost' = {} /\ Taken' = Taken /\ Delivered' = Delivered
  BY DEF Queued, Lost, Taken, Delivered
<1>2. memory' \subseteq memory /\ state' = "freed"
  OBVIOUS
<1>3. UNCHANGED <<assembled, frame, events, returned, allocatedBuffers>>
  OBVIOUS
<1>4. TypeOK'
  <2>1. /\ eventQueue' \in Seq(EventNums') /\ Len(eventQueue') <= QueueSize
        /\ lostEvents' \in Seq(EventNums')
    BY BoundAssumption
  <2>2. QED
    BY <1>2, <1>3, <2>1 DEF IInv, TypeOK, EventNums, Calls
<1>5. Growing(eventQueue)' /\ Growing(lostEvents)' /\ FrameInv' /\ OrderInv'
  BY <1>1, <1>3 DEF IInv, FrameInv, OrderInv, Growing
<1>6. DeliveredOnce'
  BY <1>1, <1>3 DEF IInv, DeliveredOnce
<1>7. ReadableUntilReturned' /\ RecvReturnsRealEvents'
  BY <1>2, <1>3 DEF IInv, ReadableUntilReturned, RecvReturnsRealEvents
<1>8. QED
  BY <1>1, <1>4, <1>5, <1>6, <1>7 DEF IInv

(* Nothing else moves an event.                                            *)
LEMMA StillInv ==
  ASSUME IInv,
         openAndStart \/ (\E e \in events : freeDirectBytebBuffer(e)) \/ UNCHANGED vars
  PROVE  /\ IInv'
         /\ UNCHANGED <<assembled, frame>>
         /\ Queued' = Queued /\ Lost' = Lost /\ Taken' = Taken /\ Delivered' = Delivered
<1>1. /\ UNCHANGED <<assembled, eventQueue, lostEvents, frame, events>>
      /\ memory \ memory' \subseteq returned'
      /\ memory' \subseteq memory /\ allocatedBuffers' \subseteq allocatedBuffers
      /\ returned \subseteq returned'
      /\ returned' \subseteq EventNums \cup {NoEvent}
      /\ state' \in {"new", "open", "freed"}
      /\ state' # "freed" => state # "freed"
  BY DEF openAndStart, freeDirectBytebBuffer, vars, IInv, TypeOK
<1>2. Queued' = Queued /\ Lost' = Lost /\ Taken' = Taken /\ Delivered' = Delivered
  BY <1>1 DEF Queued, Lost, Taken, Delivered
<1>3. TypeOK'
  BY <1>1 DEF IInv, TypeOK, EventNums, Calls
<1>4. Growing(eventQueue)' /\ Growing(lostEvents)' /\ FrameInv' /\ OrderInv'
  BY <1>1, <1>2 DEF IInv, FrameInv, OrderInv, Growing
<1>5. DeliveredOnce' /\ ReadableUntilReturned' /\ RecvReturnsRealEvents'
  BY <1>1, <1>2 DEF IInv, DeliveredOnce, ReadableUntilReturned, RecvReturnsRealEvents
<1>6. QED
  BY <1>1, <1>2, <1>3, <1>4, <1>5 DEF IInv

(* Every step keeps the inductive invariant.                               *)
LEMMA NextInv == IInv /\ [Next]_vars => IInv'
<1> SUFFICES ASSUME IInv, [Next]_vars PROVE IInv'
  OBVIOUS
<1>1. CASE Enqueue
  BY <1>1, EnqueueInv
<1>2. CASE getLostEvent
  BY <1>2, GetLostEventInv
<1>3. CASE free
  BY <1>3, FreeInv
<1>4. CASE openAndStart \/ (\E e \in events : freeDirectBytebBuffer(e)) \/ UNCHANGED vars
  BY <1>4, StillInv
<1>5. CASE \E t \in Threads :
             getEvent(t) \/ RecvTakes(t) \/ RecvTimesOut(t) \/ ReturnThrows(t)
               \/ \E call \in {"recvEvent", "recvEventForever"} : recvEvent(t, call)
  BY <1>5, Kinds, TakeHeadInv, GiveUpInv
<1>6. CASE \E t \in Threads : ReturnEvent(t)
  BY <1>6, ReturnInv
<1>7. QED
  BY <1>1, <1>2, <1>3, <1>4, <1>5, <1>6 DEF Next

-----------------------------------------------------------------------------
(* The inductive invariant holds in every reachable state.                 *)
THEOREM InvariantHolds == Spec => []IInv
<1>1. QED
  BY InitInv, NextInv, PTL DEF Spec

(* Queues, frames and events hold what their types say; the event queue    *)
(* keeps its bound.                                                        *)
THEOREM TypeCorrect == Spec => []TypeOK
<1>1. IInv => TypeOK
  BY DEF IInv
<1>2. QED
  BY <1>1, InvariantHolds, PTL

(* No event is in two frames or two ReassembledEvents, or handed out while *)
(* it is queued or reported as lost.                                       *)
THEOREM OneCallerPerEvent == Spec => []DeliveredOnce
<1>1. IInv => DeliveredOnce
  BY DEF IInv
<1>2. QED
  BY <1>1, InvariantHolds, PTL

(* The memory of an event is there until the application gives it back or  *)
(* frees the Reassembler.                                                  *)
THEOREM EventsStayReadable == Spec => []ReadableUntilReturned
<1>1. IInv => ReadableUntilReturned
  BY DEF IInv
<1>2. QED
  BY <1>1, InvariantHolds, PTL

(* A recvEvent that ends without an event makes no ReassembledEvent.       *)
THEOREM RecvIsHonest == Spec => []RecvReturnsRealEvents
<1>1. IInv => RecvReturnsRealEvents
  BY DEF IInv
<1>2. QED
  BY <1>1, InvariantHolds, PTL

(* Events are handed out in the order in which they were assembled: only a *)
(* head of the queue comes newly into a frame.                             *)
THEOREM InOrder == Spec => TakenInOrder
<1> DEFINE Ordered(t) ==
      frame'[t].event \notin Taken \cup {NoEvent} =>
        \A d \in Taken \cup Delivered : d < frame'[t].event
<1>1. ASSUME IInv, [Next]_vars, NEW t \in Threads PROVE Ordered(t)
  <2>1. \A s \in Threads : frame[s].event \in Taken \cup {NoEvent}
    BY DEF Taken
  <2>2. ASSUME NEW s \in Threads, TakeHead(s) PROVE Ordered(t)
    <3>1. /\ Head(eventQueue) \in Queued
          /\ frame'[t].event \in {frame[t].event, Head(eventQueue)}
      <4> DEFINE h == Head(eventQueue)
      <4>1. PICK call \in Calls : \A u \in Threads :
              frame'[u] = IF u = s THEN Frame("taken", call, h) ELSE frame[u]
        BY <1>1, <2>2, TakeHeadSets
      <4>2. h \in Queued
        BY <1>1, <2>2, TakeHeadSets
      <4> HIDE DEF h
      <4>3. frame'[t].event \in {frame[t].event, h}
        BY <4>1 DEF Frame
      <4>4. QED
        BY <4>2, <4>3 DEF h
    <3>2. QED
      BY <1>1, <2>1, <3>1 DEF IInv, OrderInv
  <2>3. ASSUME NEW s \in Threads, NEW f, GiveUp(s, f) PROVE Ordered(t)
    BY <1>1, <2>1, <2>3, GiveUpSets
  <2>4. ASSUME NEW s \in Threads, ReturnEvent(s) PROVE Ordered(t)
    BY <1>1, <2>1, <2>4, ReturnSets DEF Idle
  <2>5. ASSUME UNCHANGED frame PROVE Ordered(t)
    BY <2>1, <2>5
  <2>6. CASE Enqueue \/ getLostEvent \/ free \/ openAndStart \/ UNCHANGED vars
               \/ \E e \in events : freeDirectBytebBuffer(e)
    BY <2>5, <2>6
       DEF Enqueue, getLostEvent, free, openAndStart, vars, freeDirectBytebBuffer
  <2>7. CASE \E s \in Threads :
               getEvent(s) \/ RecvTakes(s) \/ RecvTimesOut(s) \/ ReturnThrows(s)
                 \/ \E call \in {"recvEvent", "recvEventForever"} : recvEvent(s, call)
    BY <1>1, <2>2, <2>3, <2>7, Kinds
  <2>8. CASE \E s \in Threads : ReturnEvent(s)
    BY <2>4, <2>8
  <2>9. QED
    BY <1>1, <2>6, <2>7, <2>8 DEF Next
<1>2. IInv /\ [Next]_vars =>
        [\A t \in Threads :
           LET e == frame'[t].event IN
           e \notin Taken \cup {NoEvent} => \A d \in Taken \cup Delivered : d < e]_vars
  BY <1>1
<1>3. QED
  BY <1>2, InvariantHolds, PTL DEF Spec, TakenInOrder

-----------------------------------------------------------------------------
(* The receive path implements EventDelivery.                              *)
LEMMA PlaceValue ==
  ASSUME NEW n \in 1 .. MaxEvents
  PROVE  Place[n] = IF n > assembled THEN "unborn"
                    ELSE IF n \in Queued THEN "queued"
                    ELSE IF n \in Lost THEN "lost"
                    ELSE IF n \in Taken THEN "held"
                    ELSE IF n \in Delivered THEN "delivered"
                    ELSE "gone"
BY DEF Place

LEMMA PlaceInit == Init => Delivery!Init
<1> SUFFICES ASSUME Init PROVE Delivery!Init
  OBVIOUS
<1>1. assembled = 0
  BY DEF Init
<1>2. \A n \in 1 .. MaxEvents : Place[n] = "unborn"
  BY <1>1, PlaceValue, BoundAssumption
<1>3. Place = [n \in 1 .. MaxEvents |-> "unborn"]
  BY <1>2 DEF Place
<1>4. QED
  BY <1>3 DEF Delivery!Init, Delivery!Events

(* Whoever knows where every event is before and after a step knows how    *)
(* Place changes: one event moves, or none.                                *)
LEMMA PlaceMoves ==
  ASSUME NEW n \in 1 .. MaxEvents, NEW from, NEW to,
         Place[n] = from, Place'[n] = to,
         \A m \in 1 .. MaxEvents : m # n => Place'[m] = Place[m]
  PROVE  Delivery!Move(n, from, to)
<1>1. Place' = [Place EXCEPT ![n] = to]
  BY DEF Place
<1>2. QED
  BY <1>1 DEF Delivery!Move

LEMMA PlaceStays ==
  ASSUME \A m \in 1 .. MaxEvents : Place'[m] = Place[m]
  PROVE  Place' = Place
BY DEF Place

LEMMA PlaceValueNext ==
  ASSUME NEW n \in 1 .. MaxEvents
  PROVE  Place'[n] = IF n > assembled' THEN "unborn"
                     ELSE IF n \in Queued' THEN "queued"
                     ELSE IF n \in Lost' THEN "lost"
                     ELSE IF n \in Taken' THEN "held"
                     ELSE IF n \in Delivered' THEN "delivered"
                     ELSE "gone"
BY DEF Place

(* Where an event is tells its place, since it is in one place only.       *)
LEMMA Places ==
  ASSUME IInv
  PROVE  /\ EventNums \subseteq 1 .. MaxEvents
         /\ \A n \in Queued : n \in EventNums /\ Place[n] = "queued"
         /\ \A n \in Lost : n \in EventNums /\ Place[n] = "lost"
         /\ \A n \in Taken : n \in EventNums /\ Place[n] = "held"
         /\ \A n \in 1 .. MaxEvents : Place[n] = "queued" <=> n \in Queued
         /\ \A n \in 1 .. MaxEvents : Place[n] = "lost" <=> n \in Lost
         /\ \A n \in 1 .. MaxEvents : Place[n] = "unborn" <=> n > assembled
<1>1. /\ Queued \subseteq EventNums /\ Lost \subseteq EventNums
      /\ Taken \subseteq EventNums /\ Delivered \subseteq EventNums
      /\ assembled \in Nat
  BY Numbers DEF IInv
<1>2. EventNums \subseteq 1 .. MaxEvents /\ \A n \in EventNums : ~(n > assembled)
  BY <1>1, BoundAssumption DEF IInv, TypeOK, EventNums
<1>3. Lost \cap Queued = {} /\ Taken \cap (Queued \cup Lost) = {}
  BY DEF IInv, DeliveredOnce
<1>4. QED
  BY <1>1, <1>2, <1>3, PlaceValue

(* Every step of the receive path moves one event as EventDelivery allows, *)
(* closes the queues, or moves none.                                       *)
LEMMA EnqueuePlace == IInv /\ Enqueue => Delivery!Next
<1> SUFFICES ASSUME IInv, Enqueue PROVE Delivery!Next
  OBVIOUS
<1> DEFINE n == assembled'
<1>1. /\ Taken' = Taken /\ Delivered' = Delivered
      /\ \/ Queued' = Queued \cup {n} /\ Lost' = Lost
         \/ Queued' = Queued /\ Lost' = Lost \cup {n}
      /\ n = assembled + 1 /\ n \notin EventNums
  BY EnqueueSets
<1>2. assembled \in Nat /\ n \in 1 .. MaxEvents
  BY <1>1, Numbers, BoundAssumption DEF Enqueue, IInv
<1>3. n \notin Queued /\ n \notin Lost
  BY <1>1, Numbers DEF IInv
<1> HIDE DEF n
<1>4. Place[n] = "unborn" /\ \A m \in 1 .. MaxEvents : m < n => Place[m] # "unborn"
  BY <1>1, <1>2, Places
<1>5. \A m \in 1 .. MaxEvents : m # n => Place'[m] = Place[m]
  <2>1. \A m \in 1 .. MaxEvents : m # n => (m > assembled <=> m > n)
    BY <1>1, <1>2
  <2>2. QED
    BY <1>1, <2>1, PlaceValue, PlaceValueNext DEF n
<1>6. Place'[n] \in {"queued", "lost"}
  BY <1>1, <1>2, PlaceValueNext DEF n
<1>7. Delivery!Move(n, "unborn", "queued") \/ Delivery!Move(n, "unborn", "lost")
  BY <1>2, <1>4, <1>5, <1>6, PlaceMoves
<1>8. Delivery!Assemble(n)
  BY <1>4, <1>7 DEF Delivery!Assemble, Delivery!FirstIn, Delivery!Events
<1>9. QED
  BY <1>2, <1>8 DEF Delivery!Next, Delivery!Events

LEMMA TakeHeadPlace ==
  ASSUME IInv, NEW t \in Threads, TakeHead(t)
  PROVE  Delivery!Next
<1> DEFINE n == Head(eventQueue)
<1>1. /\ Lost' = Lost /\ Delivered' = Delivered
      /\ Queued' = Queued \ {n} /\ Taken' = Taken \cup {n}
      /\ n \in Queued
      /\ \A q \in Queued : n <= q
      /\ assembled' = assembled
  BY TakeHeadSets DEF TakeHead, Elsewhere
<1> HIDE DEF n
<1>2. n \in 1 .. MaxEvents /\ Place[n] = "queued" /\ n \in EventNums /\ n \notin Lost
  BY <1>1, Places DEF IInv, DeliveredOnce
<1>3. Place'[n] = "held"
  BY <1>1, <1>2, PlaceValueNext, Places DEF EventNums
<1>4. \A m \in 1 .. MaxEvents : m # n => Place'[m] = Place[m]
  BY <1>1, PlaceValue, PlaceValueNext
<1>5. Delivery!Move(n, "queued", "held")
  BY <1>2, <1>3, <1>4, PlaceMoves
<1>6. \A m \in 1 .. MaxEvents : m < n => Place[m] # "queued"
  BY <1>1, <1>2, Places
<1>7. Delivery!Take(n)
  BY <1>5, <1>6 DEF Delivery!Take, Delivery!FirstIn, Delivery!Events
<1>8. QED
  BY <1>2, <1>7 DEF Delivery!Next, Delivery!Events

(* An event that leaves a frame is delivered or gone.                      *)
LEMMA LeavePlace ==
  ASSUME IInv, NEW n \in Taken,
         Queued' = Queued, Lost' = Lost, Taken' = Taken \ {n}, assembled' = assembled,
         Delivered' \in {Delivered, Delivered \cup {n}}
  PROVE  Delivery!Next
<1>1. /\ n \in 1 .. MaxEvents /\ Place[n] = "held" /\ n \in EventNums
      /\ n \notin Queued /\ n \notin Lost /\ n \notin Delivered
  BY Places DEF IInv, DeliveredOnce
<1>2. Place'[n] \in {"delivered", "gone"}
  BY <1>1, PlaceValueNext, Places
<1>3. \A m \in 1 .. MaxEvents : m # n => Place'[m] = Place[m]
  BY PlaceValue, PlaceValueNext
<1>4. Delivery!Deliver(n)
  BY <1>1, <1>2, <1>3, PlaceMoves DEF Delivery!Deliver
<1>5. QED
  BY <1>1, <1>4 DEF Delivery!Next, Delivery!Events

LEMMA StayPlace ==
  ASSUME Queued' = Queued, Lost' = Lost, Taken' = Taken, assembled' = assembled,
         Delivered' = Delivered
  PROVE  Place' = Place
<1>1. \A m \in 1 .. MaxEvents : Place'[m] = Place[m]
  BY PlaceValue, PlaceValueNext
<1>2. QED
  BY <1>1, PlaceStays

LEMMA FrameStepPlace ==
  ASSUME IInv, NEW t \in Threads, (\E f : GiveUp(t, f)) \/ ReturnEvent(t)
  PROVE  [Delivery!Next]_Place
<1> DEFINE n == frame[t].event
<1>1. /\ Queued' = Queued /\ Lost' = Lost /\ Taken' = Taken \ {n}
      /\ Delivered' = Delivered \/ Delivered' = Delivered \cup ({n} \ {NoEvent})
      /\ assembled' = assembled
  <2>1. CASE \E f : GiveUp(t, f)
    BY <2>1, GiveUpSets DEF GiveUp, Elsewhere
  <2>2. CASE ReturnEvent(t)
    <3>1. assembled' = assembled
      BY <2>2 DEF ReturnEvent
    <3>2. QED
      BY <2>2, <3>1, ReturnSets
  <2>3. QED
    BY <2>1, <2>2
<1>2. CASE n = NoEvent
  <2>1. n \notin Taken
    BY <1>2 DEF Taken
  <2>2. QED
    BY <1>1, <1>2, <2>1, StayPlace
<1>3. CASE n # NoEvent
  <2>1. n \in Taken
    BY <1>3 DEF Taken
  <2> HIDE DEF n
  <2>2. Delivered' \in {Delivered, Delivered \cup {n}}
    BY <1>1, <1>3
  <2>3. QED
    BY <1>1, <2>1, <2>2, LeavePlace
<1>4. QED
  BY <1>2, <1>3

LEMMA ReportPlace == IInv /\ getLostEvent => Delivery!Next
<1> SUFFICES ASSUME IInv, getLostEvent PROVE Delivery!Next
  OBVIOUS
<1> DEFINE n == Head(lostEvents)
<1>1. Lost' = Lost \ {n}
  BY GetLostEventInv
<1>2. /\ assembled' = assembled
      /\ Queued' = Queued /\ Taken' = Taken /\ Delivered' = Delivered
  BY DEF getLostEvent, Queued, Taken, Delivered
<1>3. n \in Lost /\ \A q \in Lost : n <= q
  <2>1. lostEvents \in Seq(Nat) /\ lostEvents # <<>> /\ Growing(lostEvents)
    BY Numbers DEF IInv, getLostEvent
  <2>2. n = lostEvents[1] /\ 1 \in DOMAIN lostEvents /\ \A i \in DOMAIN lostEvents : n <= lostEvents[i]
    BY <2>1, TailFacts
  <2> HIDE DEF n
  <2>3. QED
    BY <2>2 DEF Lost
<1> HIDE DEF n
<1>4. /\ n \in 1 .. MaxEvents /\ Place[n] = "lost" /\ n \in EventNums
      /\ n \notin Queued /\ n \notin Taken /\ n \notin Delivered
  BY <1>3, Places DEF IInv, DeliveredOnce
<1>5. Place'[n] = "gone"
  BY <1>1, <1>2, <1>4, PlaceValueNext, Places
<1>6. \A m \in 1 .. MaxEvents : m # n => Place'[m] = Place[m]
  BY <1>1, <1>2, PlaceValue, PlaceValueNext
<1>7. Delivery!Move(n, "lost", "gone")
  BY <1>4, <1>5, <1>6, PlaceMoves
<1>8. \A m \in 1 .. MaxEvents : m < n => Place[m] # "lost"
  BY <1>3, <1>4, Places
<1>9. Delivery!Report(n)
  BY <1>7, <1>8 DEF Delivery!Report, Delivery!FirstIn, Delivery!Events
<1>10. QED
  BY <1>4, <1>9 DEF Delivery!Next, Delivery!Events

LEMMA FreePlace == IInv /\ free => Delivery!Close
<1> SUFFICES ASSUME IInv, free PROVE Delivery!Close
  OBVIOUS
<1>1. /\ Queued' = {} /\ Lost' = {} /\ Taken' = Taken /\ Delivered' = Delivered
      /\ assembled' = assembled
  BY FreeInv DEF free
<1>2. ASSUME NEW n \in 1 .. MaxEvents
      PROVE  Place'[n] = IF Place[n] \in {"queued", "lost"} THEN "gone" ELSE Place[n]
  <2>1. Queued \cap (Lost \cup Taken \cup Delivered) = {} /\ Lost \cap (Taken \cup Delivered) = {}
    BY DEF IInv, DeliveredOnce
  <2>2. n \in Queued \cup Lost => ~(n > assembled)
    BY Places
  <2>3. QED
    BY <1>1, <2>1, <2>2, PlaceValue, PlaceValueNext
<1>3. Place' = [n \in 1 .. MaxEvents |->
                  IF Place[n] \in {"queued", "lost"} THEN "gone" ELSE Place[n]]
  BY <1>2 DEF Place
<1>4. QED
  BY <1>3 DEF Delivery!Close, Delivery!Events

LEMMA NextPlace == IInv /\ [Next]_vars => [Delivery!Next]_Place
<1> SUFFICES ASSUME IInv, [Next]_vars PROVE [Delivery!Next]_Place
  OBVIOUS
<1>1. CASE Enqueue
  BY <1>1, EnqueuePlace
<1>2. CASE getLostEvent
  BY <1>2, ReportPlace
<1>3. CASE free
  BY <1>3, FreePlace DEF Delivery!Next
<1>4. CASE openAndStart \/ (\E e \in events : freeDirectBytebBuffer(e)) \/ UNCHANGED vars
  BY <1>4, StillInv, StayPlace
<1>5. CASE \E t \in Threads :
             getEvent(t) \/ RecvTakes(t) \/ RecvTimesOut(t) \/ ReturnThrows(t)
               \/ \E call \in {"recvEvent", "recvEventForever"} : recvEvent(t, call)
  BY <1>5, Kinds, TakeHeadPlace, FrameStepPlace
<1>6. CASE \E t \in Threads : ReturnEvent(t)
  BY <1>6, FrameStepPlace
<1>7. QED
  BY <1>1, <1>2, <1>3, <1>4, <1>5, <1>6 DEF Next

(* The receive path implements EventDelivery: each event goes from its     *)
(* assembly to one caller in turn, and none comes back.                    *)
THEOREM DeliveryRefinement == Spec => EventsAreDelivered
<1>1. QED
  BY PlaceInit, NextPlace, InvariantHolds, PTL DEF Spec, EventsAreDelivered, Delivery!Spec
=============================================================================
