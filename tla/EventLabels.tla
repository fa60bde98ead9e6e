---------------------------- MODULE EventLabels ----------------------------
(***************************************************************************)
(* What an event is called on its way from a Segmenter to a Reassembler:   *)
(* the event number and the dataId that the sending application gives as a *)
(* Java long and int, that travel as 64 and 16 bits without sign, and that *)
(* the receiving application is given as a Java long and int again; and    *)
(* the event source identifier, a Java long that travels as 32 bits in the *)
(* Sync messages to the load balancer.                                     *)
(*                                                                         *)
(* Datagrams are lost and overtake each other, so that events arrive in    *)
(* any order or never.  A width is given by half the number of its values. *)
(***************************************************************************)
EXTENDS Integers, Sequences

CONSTANTS
  Long, Int32, Short,  \* half the values of a jlong, a jint, and 16 bits
  EventNumbers,        \* the event numbers the application gives
  DataIds,             \* the dataIds it gives
  SourceIds,           \* the event source identifiers it gives
  InternalNumbers,     \* the event numbers the library gives
  MaxSends             \* bound on the events sent

Signed(half) == -half .. half - 1
Unsigned(half) == 0 .. 2 * half - 1

ASSUME WidthAssumption ==
  /\ {Long, Int32, Short} \subseteq Nat \ {0}
  /\ Short <= Int32

ASSUME ArgumentAssumption ==
  /\ EventNumbers \subseteq Signed(Long)
  /\ DataIds \subseteq Signed(Int32)
  /\ SourceIds \subseteq Signed(Long)
  /\ InternalNumbers \subseteq Unsigned(Long)
  /\ MaxSends \in Nat

(* The casts of C++: to a type without sign, and from one to a type of the *)
(* same width with it.                                                     *)
ToUnsigned(half, x) == x % (2 * half)
ToSigned(half, x) == IF x < half THEN x ELSE x - 2 * half

VARIABLES
  created,    \* the arguments the Segmenter was made with
  segmenter,  \* what the e2sar::Segmenter keeps of them
  synced,     \* source identifiers the load balancer was told
  sent,       \* the events sent: the arguments, and the header they travel with
  received    \* the events the receiving application got, with their index in sent

labelVars == <<created, segmenter, synced, sent, received>>

NoSegmenter == <<>>

LabelInit ==
  /\ created = NoSegmenter
  /\ segmenter = NoSegmenter
  /\ synced = {}
  /\ sent = <<>>
  /\ received = {}

-----------------------------------------------------------------------------
(* Mutated form: the source identifier is cut to the width of a dataId.    *)
initSegmentorShort(dataId, eventSrcId) ==
  /\ created = NoSegmenter
  /\ created' = [dataId |-> dataId, eventSrcId |-> eventSrcId]
  /\ segmenter' = [dataId |-> ToUnsigned(Short, dataId),
                   eventSrcId |-> ToUnsigned(Short, eventSrcId)]
  /\ UNCHANGED <<synced, sent, received>>

(* new Segmenter(dpUri, dataId, eventSrcId, ...), with or without flags.   *)
initSegmentor(dataId, eventSrcId) ==
  /\ created = NoSegmenter
  /\ created' = [dataId |-> dataId, eventSrcId |-> eventSrcId]
  /\ segmenter' = [dataId |-> ToUnsigned(Short, dataId),
                   eventSrcId |-> ToUnsigned(Int32, eventSrcId)]
  /\ UNCHANGED <<synced, sent, received>>

(* The sync thread of the library.                                         *)
SendSync ==
  /\ segmenter # NoSegmenter
  /\ synced' = synced \cup {segmenter.eventSrcId}
  /\ UNCHANGED <<created, segmenter, sent, received>>

(* The library takes zero for "use the internal event number", "use the    *)
(* dataId of the Segmenter".                                               *)
Headers(eventNum, dataId) ==
  [eventNum : IF eventNum = 0 THEN InternalNumbers ELSE {eventNum},
   dataId : {IF dataId = 0 THEN segmenter.dataId ELSE dataId}]

(* Mutated form: the dataId goes into the header as it is.                 *)
sendUncut(eventNumber, dataId) ==
  /\ segmenter # NoSegmenter
  /\ Len(sent) < MaxSends
  /\ \E header \in Headers(ToUnsigned(Long, eventNumber), dataId) :
       sent' = Append(sent, [eventNumber |-> eventNumber, dataId |-> dataId, header |-> header])
  /\ UNCHANGED <<created, segmenter, synced, received>>

(* sendEventDirect and addToSendQueueDirect: the library's parameters are  *)
(* 64 and 16 bits wide.                                                    *)
send(eventNumber, dataId) ==
  /\ segmenter # NoSegmenter
  /\ Len(sent) < MaxSends
  /\ \E header \in Headers(ToUnsigned(Long, eventNumber), ToUnsigned(Short, dataId)) :
       sent' = Append(sent, [eventNumber |-> eventNumber, dataId |-> dataId, header |-> header])
  /\ UNCHANGED <<created, segmenter, synced, received>>

(* Mutated form: both are given a sign on the way to Java.                 *)
receiveSigned(k) ==
  /\ \A r \in received : r.index # k
  /\ LET header == sent[k].header IN
     received' = received \cup {[index |-> k,
                                 eventNum |-> ToSigned(Long, header.eventNum),
                                 dataId |-> ToSigned(Short, header.dataId)]}
  /\ UNCHANGED <<created, segmenter, synced, sent>>

(* getEvent and recvEvent: event number and dataId of the ReassembledEvent *)
(* that createOptionalJavaReassembledEvent makes.                          *)
receive(k) ==
  /\ \A r \in received : r.index # k
  /\ LET header == sent[k].header IN
     received' = received \cup {[index |-> k,
                                 eventNum |-> ToSigned(Long, header.eventNum),
                                 dataId |-> header.dataId]}
  /\ UNCHANGED <<created, segmenter, synced, sent>>

LabelNext ==
  \/ \E d \in DataIds, s \in SourceIds : initSegmentor(d, s)
  \/ SendSync
  \/ \E e \in EventNumbers, d \in DataIds : send(e, d)
  \/ \E k \in DOMAIN sent : receive(k)

LabelSpec == LabelInit /\ [][LabelNext]_labelVars

-----------------------------------------------------------------------------
Event == [eventNumber : Signed(Long), dataId : Signed(Int32),
          header : [eventNum : Unsigned(Long), dataId : Unsigned(Short)]]

LabelTypeOK ==
  /\ created \in {NoSegmenter} \cup [dataId : Signed(Int32), eventSrcId : Signed(Long)]
  /\ segmenter \in {NoSegmenter} \cup [dataId : Unsigned(Short), eventSrcId : Unsigned(Int32)]
  /\ (created = NoSegmenter) <=> (segmenter = NoSegmenter)
  /\ synced \subseteq Unsigned(Int32)
  /\ sent \in Seq(Event)
  /\ received \subseteq [index : DOMAIN sent, eventNum : Signed(Long), dataId : Unsigned(Short)]

(* "override the internal event number", "override the dataId (0 id        *)
(* default and will use the internal dataId passed in constructor)": the   *)
(* receiver is told the event number the sender gave, whatever its sign,   *)
(* and the dataId, given with the event or with the Segmenter, as long as  *)
(* it fits 16 bits.                                                        *)
LabelsArrive ==
  \A r \in received :
    LET call == sent[r.index]
        dataId == IF call.dataId = 0 THEN created.dataId ELSE call.dataId
    IN  /\ call.eventNumber # 0 => r.eventNum = call.eventNumber
        /\ dataId \in Unsigned(Short) => r.dataId = dataId

(* "32-bit (long is used here because in native code u_int_32 is used) to  *)
(* accommodate IP addresses more easily, carried in Sync header".          *)
SourceIdArrives ==
  synced # {} /\ created.eventSrcId \in Unsigned(Int32) => synced = {created.eventSrcId}
=============================================================================
