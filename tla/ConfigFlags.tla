---------------------------- MODULE ConfigFlags ----------------------------
(***************************************************************************)
(* The flags objects that configure Segmenter and Reassembler: made with   *)
(* default values, changed field by field by the application, and copied   *)
(* into a structure of the library when an instance is constructed.        *)
(*                                                                         *)
(* The native code names the Java fields, and their types, by strings: the *)
(* compiler sees no mistake in them, and a field that is not found is a    *)
(* null field ID.  Both sides are listed here, each from its own source.   *)
(* A float is the number of its halves; socket buffers are in MB.          *)
(***************************************************************************)
EXTENDS Integers, Sequences

CONSTANTS
  MaxChanges,   \* bound on the assignments to fields
  MaxInstances  \* bound on the instances made

ASSUME BoundAssumption == MaxChanges \in Nat /\ MaxInstances \in Nat

Classes == {"SegmenterFlags", "ReassemblerFlags"}

(* The fields the Java classes declare, by their JNI types.                *)
Declared ==
  [SegmenterFlags |->
     [dpV6 |-> "Z", zeroCopy |-> "Z", connectedSocket |-> "Z", useCP |-> "Z", zeroRate |-> "Z",
      usecAsEventNum |-> "Z", syncPeriodMs |-> "I", syncPeriods |-> "I", mtu |-> "I",
      numSendSockets |-> "J", sndSocketBufSize |-> "I"],
   ReassemblerFlags |->
     [useCP |-> "Z", useHostAddress |-> "Z", period_ms |-> "I", validateCert |-> "Z",
      Ki |-> "F", Kp |-> "F", Kd |-> "F", setPoint |-> "F", epoch_ms |-> "J", portRange |-> "I",
      withLBHeader |-> "Z", eventTimeout_ms |-> "I", rcvSocketBufSize |-> "I", weight |-> "F",
      min_factor |-> "F", max_factor |-> "F"]]

(* The values the constructors of the Java classes give them.              *)
Defaults ==
  [SegmenterFlags |->
     [dpV6 |-> FALSE, zeroCopy |-> FALSE, connectedSocket |-> TRUE, useCP |-> TRUE,
      zeroRate |-> FALSE, usecAsEventNum |-> TRUE, syncPeriodMs |-> 1000, syncPeriods |-> 2,
      mtu |-> 1500, numSendSockets |-> 4, sndSocketBufSize |-> 3],
   ReassemblerFlags |->
     [useCP |-> TRUE, useHostAddress |-> FALSE, period_ms |-> 100, validateCert |-> TRUE,
      Ki |-> 0, Kp |-> 0, Kd |-> 0, setPoint |-> 0, epoch_ms |-> 1000, portRange |-> -1,
      withLBHeader |-> FALSE, eventTimeout_ms |-> 500, rcvSocketBufSize |-> 3, weight |-> 2,
      min_factor |-> 1, max_factor |-> 4]]

(* For each member of the native structure, the Java field it is read from *)
(* and the type that is asked for.                                         *)
Read(name, type) == [name |-> name, type |-> type]

parseSegmenterFlags ==
  [dpV6 |-> Read("dpV6", "Z"), zeroCopy |-> Read("zeroCopy", "Z"),
   connectedSocket |-> Read("connectedSocket", "Z"), useCP |-> Read("useCP", "Z"),
   zeroRate |-> Read("zeroRate", "Z"), usecAsEventNum |-> Read("usecAsEventNum", "Z"),
   syncPeriodMs |-> Read("syncPeriodMs", "I"), syncPeriods |-> Read("syncPeriods", "I"),
   mtu |-> Read("mtu", "I"), numSendSockets |-> Read("numSendSockets", "J"),
   sndSocketBufSize |-> Read("sndSocketBufSize", "I")]

parseReassemblerFlags ==
  [useCP |-> Read("useCP", "Z"), useHostAddress |-> Read("useHostAddress", "Z"),
   validateCert |-> Read("validateCert", "Z"), withLBHeader |-> Read("withLBHeader", "Z"),
   period_ms |-> Read("period_ms", "I"), portRange |-> Read("portRange", "I"),
   eventTimeout_ms |-> Read("eventTimeout_ms", "I"),
   rcvSocketBufSize |-> Read("rcvSocketBufSize", "I"),
   Ki |-> Read("Ki", "F"), Kp |-> Read("Kp", "F"), Kd |-> Read("Kd", "F"),
   setPoint |-> Read("setPoint", "F"), weight |-> Read("weight", "F"),
   min_factor |-> Read("min_factor", "F"), max_factor |-> Read("max_factor", "F"),
   epoch_ms |-> Read("epoch_ms", "J")]

(* Mutated form: one factor is read for the other.                         *)
ParseFlagsMixedUp(class) ==
  IF class = "SegmenterFlags" THEN parseSegmenterFlags
  ELSE [parseReassemblerFlags EXCEPT !.max_factor = Read("min_factor", "F")]

ParseFlags(class) ==
  IF class = "SegmenterFlags" THEN parseSegmenterFlags ELSE parseReassemblerFlags

Missing == "no field ID"

-----------------------------------------------------------------------------
VARIABLES
  flags,      \* the flags object of each class
  changes,    \* the assignments made to fields
  instances   \* the instances made, with the flags given and those in effect

flagVars == <<flags, changes, instances>>

FlagInit ==
  /\ flags = Defaults
  /\ changes = 0
  /\ instances = <<>>

(* The application assigns a value that is not the default one.            *)
Other(type, value) == IF type = "Z" THEN ~value ELSE value + 1

SetFlag(class, f) ==
  /\ changes < MaxChanges
  /\ changes' = changes + 1
  /\ flags' = [flags EXCEPT ![class][f] = Other(Declared[class][f], Defaults[class][f])]
  /\ UNCHANGED instances

Found(class, read) ==
  read.name \in DOMAIN Declared[class] /\ Declared[class][read.name] = read.type

Construct(class) ==
  LET parse == ParseFlags(class) IN
  /\ Len(instances) < MaxInstances
  /\ instances' = Append(instances,
       [class |-> class, given |-> flags[class],
        used |-> [m \in DOMAIN parse |->
                    IF Found(class, parse[m]) THEN flags[class][parse[m].name] ELSE Missing]])
  /\ UNCHANGED <<flags, changes>>

initSegmentorWithFlags == Construct("SegmenterFlags")

initReassemblerWithFlags == Construct("ReassemblerFlags")

FlagNext ==
  \/ \E class \in Classes : \E f \in DOMAIN Declared[class] : SetFlag(class, f)
  \/ initSegmentorWithFlags \/ initReassemblerWithFlags

FlagSpec == FlagInit /\ [][FlagNext]_flagVars

-----------------------------------------------------------------------------
FieldsAreFound ==
  \A class \in Classes : \A m \in DOMAIN ParseFlags(class) : Found(class, ParseFlags(class)[m])

(* Every field has a value, and every native member is read from a field   *)
(* that the Java class declares with the type asked for.                   *)
FlagTypeOK ==
  /\ \A class \in Classes : DOMAIN flags[class] = DOMAIN Declared[class]
  /\ changes \in 0 .. MaxChanges
  /\ Len(instances) <= MaxInstances
  /\ instances # <<>> => FieldsAreFound

(* An instance works with the flags it was given, each in its place, and   *)
(* keeps them when the application changes the object for the next one.    *)
FlagsArrive == \A i \in DOMAIN instances : instances[i].used = instances[i].given
=============================================================================
