-------------------------- MODULE MCNativeMethods --------------------------
(***************************************************************************)
(* A native method seen in two ways: as the local references it makes and  *)
(* deletes, and as the conversions and questions that may fail.  The two   *)
(* modules share no state; in a behaviour one of them moves.               *)
(***************************************************************************)
EXTENDS JniLocalRefs, NativeCalls

(* Enough elements, workers and LBs for an element to be deleted while     *)
(* another one stands, and for a slot to be handed out again.              *)
MCMaxSize == 3
MCMaxWorkers == 2
MCMaxSenders == 2
MCMaxReserved == 2

VARIABLE part   \* the module that moves

MCInit ==
  /\ part \in {"refs", "calls"}
  /\ Init /\ NativeInit
  /\ part # "refs" => method = CHOOSE m \in Methods : TRUE
  /\ part # "calls" =>
       /\ call = CHOOSE m \in NativeMethods : TRUE
       /\ args = CHOOSE a \in ArgumentsOf(call) : TRUE

MCNext ==
  \/ part = "refs" /\ Next /\ UNCHANGED <<part, nativeVars>>
  \/ part = "calls" /\ NativeNext /\ UNCHANGED <<part, vars>>

(* The states of both modules have their types: a variable stands for a    *)
(* slot there is, and a method is at a step it has.                        *)
MCTypeOK == TypeOK /\ NativeTypeOK

MCSpec == MCInit /\ [][MCNext]_<<part, vars, nativeVars>>
=============================================================================
