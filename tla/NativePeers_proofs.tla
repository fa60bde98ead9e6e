------------------------- MODULE NativePeers_proofs -------------------------
(***************************************************************************)
(* Proofs about NativePeers for any number of threads, objects and         *)
(* addresses.  Everything follows from one inductive invariant: what each  *)
(* frame has read out of a field is still in that field (FrameInv), a      *)
(* field points at its object's own instance unless the instance has just  *)
(* been deleted and the field not yet cleared (OwnInv), an instance is     *)
(* reachable (InstancesStayReachable), and whoever constructs or frees an  *)
(* object is alone with it (ExclusiveInv).                                 *)
(***************************************************************************)
EXTENDS NativePeers, TLAPS

FrameInv ==
  \A t \in Threads :
    /\ frame[t].pc = "idle" => frame[t] = Idle
    /\ frame[t].pc = "ctor" => /\ frame[t].obj \in Managers \cup Pipes
                               /\ native[frame[t].obj] = Unborn
                               /\ frame[t].src \in Uris \cup Managers
                               /\ frame[t].ptr \in Addrs
                               /\ native[frame[t].src] = frame[t].ptr
    /\ frame[t].pc \notin {"idle", "ctor"} => /\ frame[t].obj \in Handles
                                              /\ frame[t].src = Nobody
                                              /\ native[frame[t].obj] \in Addrs
    /\ frame[t].pc \in {"native", "internal", "deleting", "zeroing"} =>
         native[frame[t].obj] = frame[t].ptr
    /\ frame[t].pc = "internal" => frame[t].obj \in Managers
    /\ frame[t].pc = "zeroing" => \A a \in Addrs : heap[a] # frame[t].obj

OwnInv ==
  \A h \in Handles :
    native[h] \in Addrs =>
      \/ heap[native[h]] = h
      \/ \E t \in Threads : frame[t].pc = "zeroing" /\ frame[t].obj = h

ExclusiveInv ==
  \A t, s \in Threads :
    t # s /\ frame[t].pc \in Freeing \cup {"ctor"} => ~Within(s, frame[t].obj)

(* The cached EjfatURI of an LbManager points into the instance the        *)
(* manager's own field points to, until the manager is freed.              *)
UriInv == \A m \in Managers : uri[m] # NoUri => native[m] \in {uri[m], Null}

IInv ==
  /\ TypeOK
  /\ FrameInv
  /\ OwnInv
  /\ InstancesStayReachable
  /\ ExclusiveInv
  /\ UriInv

-----------------------------------------------------------------------------
(* Before the first constructor no field points anywhere.                  *)
LEMMA InitInv == Init => IInv
  BY AddrAssumption
     DEF Init, IInv, TypeOK, FrameInv, OwnInv, InstancesStayReachable,
         ExclusiveInv, UriInv, Idle, Freeing, Pointers

(* Every step of a constructor, a method or free() keeps the invariant.    *)
LEMMA NextInv == IInv /\ [Next]_vars => IInv'
<1> SUFFICES ASSUME IInv, [Next]_vars PROVE IInv'
  OBVIOUS
<1>1. ASSUME NEW t \in Threads, NEW u \in Uris, NewUri(t, u)
      PROVE  IInv'
  <2>1. TypeOK'
    BY <1>1 DEF IInv, TypeOK, NewUri, Handles
  <2>2. FrameInv'
    BY <1>1, HandleAssumption, AddrAssumption
       DEF IInv, FrameInv, NewUri, MayConstruct
  <2>3. OwnInv'
    BY <1>1, HandleAssumption DEF IInv, TypeOK, OwnInv, NewUri
  <2>4. InstancesStayReachable'
    BY <1>1, HandleAssumption, AddrAssumption
       DEF IInv, TypeOK, InstancesStayReachable, NewUri, Handles, MayConstruct
  <2>5. ExclusiveInv'
    BY <1>1 DEF IInv, ExclusiveInv, NewUri, Within
  <2>6. UriInv'
    BY <1>1, HandleAssumption DEF IInv, UriInv, NewUri
  <2> QED
    BY <2>1, <2>2, <2>3, <2>4, <2>5, <2>6 DEF IInv
<1>2. ASSUME NEW t \in Threads, NEW u \in Uris, NewUriThrows(t, u)
      PROVE  IInv'
  <2>1. TypeOK'
    BY <1>2 DEF IInv, TypeOK, NewUriThrows, Handles
  <2>2. FrameInv'
    BY <1>2, HandleAssumption, AddrAssumption
       DEF IInv, FrameInv, NewUriThrows, MayConstruct
  <2>3. OwnInv'
    BY <1>2, AddrAssumption DEF IInv, OwnInv, NewUriThrows
  <2>4. InstancesStayReachable'
    BY <1>2, AddrAssumption
       DEF IInv, InstancesStayReachable, NewUriThrows, MayConstruct
  <2>5. ExclusiveInv'
    BY <1>2 DEF IInv, ExclusiveInv, NewUriThrows, Within
  <2>6. UriInv'
    BY <1>2, HandleAssumption DEF IInv, UriInv, NewUriThrows
  <2> QED
    BY <2>1, <2>2, <2>3, <2>4, <2>5, <2>6 DEF IInv
<1>3. ASSUME NEW t \in Threads, NEW p \in Managers \cup Pipes, NEW e \in EjfatURIs,
             getEjfatUriFromField(t, p, e)
      PROVE  IInv'
  <2>e. /\ e \in Uris \cup Managers /\ e \in Handles
        /\ native[e] \in Addrs
        /\ nativeEjfatURI(e) = native[e]
    BY <1>3, HandleAssumption, AddrAssumption
       DEF EjfatURIs, nativeEjfatURI, getEjfatUriFromField, IInv, UriInv,
           Handles, MayUse
  <2>1. TypeOK'
    BY <1>3, <2>e
       DEF IInv, TypeOK, getEjfatUriFromField, Frame, Pointers, Handles
  <2>2. FrameInv'
    BY <1>3, <2>e
       DEF IInv, FrameInv, getEjfatUriFromField, Frame, MayUse, MayConstruct
  <2>3. OwnInv'
    BY <1>3 DEF IInv, OwnInv, getEjfatUriFromField, Idle
  <2>4. InstancesStayReachable'
    BY <1>3 DEF IInv, InstancesStayReachable, getEjfatUriFromField
  <2>5. ExclusiveInv'
    BY <1>3, <2>e
       DEF IInv, FrameInv, OwnInv, ExclusiveInv, getEjfatUriFromField, Frame,
           Within, Handles, MayUse, MayConstruct
  <2>6. UriInv'
    BY <1>3 DEF IInv, UriInv, getEjfatUriFromField
  <2> QED
    BY <2>1, <2>2, <2>3, <2>4, <2>5, <2>6 DEF IInv
<1>4. ASSUME NEW t \in Threads, NewPeer(t)
      PROVE  IInv'
  <2>1. TypeOK'
    BY <1>4 DEF IInv, TypeOK, FrameInv, NewPeer, Idle, Pointers, Handles
  <2>2. FrameInv'
    BY <1>4 DEF IInv, TypeOK, FrameInv, ExclusiveInv, NewPeer, Idle, Within
  <2>3. OwnInv'
    BY <1>4, HandleAssumption DEF IInv, TypeOK, OwnInv, NewPeer
  <2>4. InstancesStayReachable'
    BY <1>4, AddrAssumption
       DEF IInv, TypeOK, FrameInv, InstancesStayReachable, NewPeer, Unborn,
           Failed
  <2>5. ExclusiveInv'
    BY <1>4, HandleAssumption
       DEF IInv, FrameInv, ExclusiveInv, NewPeer, Idle, Freeing, Within, Handles
  <2>6. UriInv'
    BY <1>4, AddrAssumption
       DEF IInv, TypeOK, FrameInv, UriInv, NewPeer, Null, Unborn
  <2> QED
    BY <2>1, <2>2, <2>3, <2>4, <2>5, <2>6 DEF IInv
<1>5. ASSUME NEW t \in Threads, NewPipeThrows(t)
      PROVE  IInv'
  <2>1. TypeOK'
    BY <1>5 DEF IInv, TypeOK, NewPipeThrows, Idle, Pointers, Handles
  <2>2. FrameInv'
    BY <1>5
       DEF IInv, TypeOK, FrameInv, ExclusiveInv, NewPipeThrows, Idle, Within
  <2>3. OwnInv'
    BY <1>5, AddrAssumption DEF IInv, OwnInv, NewPipeThrows
  <2>4. InstancesStayReachable'
    BY <1>5, AddrAssumption
       DEF IInv, FrameInv, InstancesStayReachable, NewPipeThrows
  <2>5. ExclusiveInv'
    BY <1>5, HandleAssumption
       DEF IInv, FrameInv, ExclusiveInv, NewPipeThrows, Idle, Freeing, Within,
           Handles
  <2>6. UriInv'
    BY <1>5, HandleAssumption DEF IInv, UriInv, NewPipeThrows
  <2> QED
    BY <2>1, <2>2, <2>3, <2>4, <2>5, <2>6 DEF IInv
<1>6. ASSUME NEW t \in Threads, NewManagerThrows(t)
      PROVE  IInv'
  <2>1. TypeOK'
    BY <1>6 DEF IInv, TypeOK, NewManagerThrows, Idle, Pointers, Handles
  <2>2. FrameInv'
    BY <1>6
       DEF IInv, TypeOK, FrameInv, ExclusiveInv, NewManagerThrows, Idle, Within
  <2>3. OwnInv'
    BY <1>6, HandleAssumption, AddrAssumption DEF IInv, OwnInv, NewManagerThrows
  <2>4. InstancesStayReachable'
    BY <1>6 DEF IInv, TypeOK, InstancesStayReachable, NewManagerThrows
  <2>5. ExclusiveInv'
    BY <1>6, HandleAssumption
       DEF IInv, FrameInv, ExclusiveInv, NewManagerThrows, Idle, Freeing,
           Within, Handles
  <2>6. UriInv'
    BY <1>6, AddrAssumption
       DEF IInv, TypeOK, FrameInv, UriInv, NewManagerThrows, Null, Unborn
  <2> QED
    BY <2>1, <2>2, <2>3, <2>4, <2>5, <2>6 DEF IInv
<1>7. ASSUME NEW t \in Threads, NEW h \in Handles, Call(t, h)
      PROVE  IInv'
  <2>1. TypeOK'
    BY <1>7 DEF IInv, TypeOK, Call, Frame, Pointers, MayUse
  <2>2. FrameInv'
    BY <1>7 DEF IInv, FrameInv, Call, Frame, MayUse
  <2>3. OwnInv'
    BY <1>7 DEF IInv, OwnInv, Call, Idle
  <2>4. InstancesStayReachable'
    BY <1>7 DEF IInv, InstancesStayReachable, Call
  <2>5. ExclusiveInv'
    BY <1>7, AddrAssumption
       DEF IInv, FrameInv, ExclusiveInv, Call, Idle, Frame, Freeing, Within,
           MayUse
  <2>6. UriInv'
    BY <1>7 DEF IInv, UriInv, Call
  <2> QED
    BY <2>1, <2>2, <2>3, <2>4, <2>5, <2>6 DEF IInv
<1>8. ASSUME NEW t \in Threads, NEW h \in Handles, FreeCheck(t, h)
      PROVE  IInv'
  <2>1. TypeOK'
    BY <1>8 DEF IInv, TypeOK, FreeCheck, Idle, Frame, Freeing
  <2>2. FrameInv'
    BY <1>8 DEF IInv, FrameInv, FreeCheck, Frame, MayFree
  <2>3. OwnInv'
    BY <1>8 DEF IInv, OwnInv, FreeCheck, Idle
  <2>4. InstancesStayReachable'
    BY <1>8 DEF IInv, InstancesStayReachable, FreeCheck
  <2>5. ExclusiveInv'
    BY <1>8 DEF IInv, ExclusiveInv, FreeCheck, Idle, Frame, Within, MayFree
  <2>6. UriInv'
    BY <1>8 DEF IInv, UriInv, FreeCheck
  <2> QED
    BY <2>1, <2>2, <2>3, <2>4, <2>5, <2>6 DEF IInv
<1>9. ASSUME NEW t \in Threads, Return(t)
      PROVE  IInv'
  <2>1. TypeOK'
    BY <1>9 DEF IInv, TypeOK, Return, Idle, Pointers
  <2>2. FrameInv'
    BY <1>9 DEF IInv, FrameInv, Return, Idle
  <2>3. OwnInv'
    BY <1>9 DEF IInv, OwnInv, Return
  <2>4. InstancesStayReachable'
    BY <1>9 DEF IInv, InstancesStayReachable, Return
  <2>5. ExclusiveInv'
    BY <1>9 DEF IInv, FrameInv, ExclusiveInv, Return, Idle, Freeing, Within
  <2>6. UriInv'
    BY <1>9 DEF IInv, UriInv, Return
  <2> QED
    BY <2>1, <2>2, <2>3, <2>4, <2>5, <2>6 DEF IInv
<1>10. ASSUME NEW t \in Threads, NEW m \in Managers, getInternalUri(t, m)
      PROVE  IInv'
  <2>1. TypeOK'
    BY <1>10 DEF IInv, TypeOK, getInternalUri, Frame, Pointers, Handles, MayUse
  <2>2. FrameInv'
    BY <1>10 DEF IInv, FrameInv, getInternalUri, Frame, Handles, MayUse
  <2>3. OwnInv'
    BY <1>10 DEF IInv, OwnInv, getInternalUri, Idle
  <2>4. InstancesStayReachable'
    BY <1>10 DEF IInv, InstancesStayReachable, getInternalUri
  <2>5. ExclusiveInv'
    BY <1>10, AddrAssumption
       DEF IInv, FrameInv, ExclusiveInv, getInternalUri, Idle, Frame, Freeing,
           Within, MayUse
  <2>6. UriInv'
    BY <1>10 DEF IInv, UriInv, getInternalUri
  <2> QED
    BY <2>1, <2>2, <2>3, <2>4, <2>5, <2>6 DEF IInv
<1>11. ASSUME NEW t \in Threads, NEW m \in Managers, CallInternalUri(t, m)
      PROVE  IInv'
  <2>1. TypeOK'
    BY <1>11 DEF IInv, TypeOK, CallInternalUri, Frame, Pointers, Handles
  <2>2. FrameInv'
    BY <1>11, AddrAssumption
       DEF IInv, FrameInv, UriInv, CallInternalUri, Frame, Handles, MayUse
  <2>3. OwnInv'
    BY <1>11 DEF IInv, OwnInv, CallInternalUri, Idle
  <2>4. InstancesStayReachable'
    BY <1>11 DEF IInv, InstancesStayReachable, CallInternalUri
  <2>5. ExclusiveInv'
    BY <1>11, AddrAssumption
       DEF IInv, FrameInv, ExclusiveInv, CallInternalUri, Idle, Frame, Freeing,
           Within, MayUse
  <2>6. UriInv'
    BY <1>11 DEF IInv, UriInv, CallInternalUri
  <2> QED
    BY <2>1, <2>2, <2>3, <2>4, <2>5, <2>6 DEF IInv
<1>12. ASSUME NEW t \in Threads, getEjfatURI(t)
      PROVE  IInv'
  <2>1. TypeOK'
    BY <1>12 DEF IInv, TypeOK, FrameInv, getEjfatURI, Idle, Pointers
  <2>2. FrameInv'
    BY <1>12 DEF IInv, FrameInv, getEjfatURI, Idle
  <2>3. OwnInv'
    BY <1>12 DEF IInv, OwnInv, getEjfatURI
  <2>4. InstancesStayReachable'
    BY <1>12 DEF IInv, InstancesStayReachable, getEjfatURI
  <2>5. ExclusiveInv'
    BY <1>12
       DEF IInv, FrameInv, ExclusiveInv, getEjfatURI, Idle, Freeing, Within
  <2>6. UriInv'
    BY <1>12 DEF IInv, FrameInv, UriInv, getEjfatURI
  <2> QED
    BY <2>1, <2>2, <2>3, <2>4, <2>5, <2>6 DEF IInv
<1>13. ASSUME NEW t \in Threads, FreeRead(t)
      PROVE  IInv'
  <2>1. TypeOK'
    BY <1>13 DEF IInv, TypeOK, FrameInv, FreeRead, Frame, Freeing, Pointers
  <2>2. FrameInv'
    BY <1>13 DEF IInv, FrameInv, FreeRead, Frame
  <2>3. OwnInv'
    BY <1>13 DEF IInv, OwnInv, FreeRead
  <2>4. InstancesStayReachable'
    BY <1>13 DEF IInv, InstancesStayReachable, FreeRead
  <2>5. ExclusiveInv'
    BY <1>13 DEF IInv, FrameInv, ExclusiveInv, FreeRead, Frame, Freeing, Within
  <2>6. UriInv'
    BY <1>13 DEF IInv, UriInv, FreeRead
  <2> QED
    BY <2>1, <2>2, <2>3, <2>4, <2>5, <2>6 DEF IInv
<1>14. ASSUME NEW t \in Threads, freeNativePointer(t)
      PROVE  IInv'
  <2>1. TypeOK'
    BY <1>14 DEF IInv, TypeOK, FrameInv, freeNativePointer, Frame, Freeing
  <2>2. FrameInv'
    BY <1>14, HandleAssumption, AddrAssumption
       DEF IInv, TypeOK, FrameInv, InstancesStayReachable, freeNativePointer,
           Frame
  <2>3. OwnInv'
    BY <1>14
       DEF IInv, TypeOK, FrameInv, OwnInv, ExclusiveInv, freeNativePointer,
           Frame, Within
  <2>4. InstancesStayReachable'
    BY <1>14 DEF IInv, InstancesStayReachable, freeNativePointer
  <2>5. ExclusiveInv'
    BY <1>14
       DEF IInv, FrameInv, ExclusiveInv, freeNativePointer, Frame, Freeing,
           Within
  <2>6. UriInv'
    BY <1>14 DEF IInv, UriInv, freeNativePointer
  <2> QED
    BY <2>1, <2>2, <2>3, <2>4, <2>5, <2>6 DEF IInv
<1>15. ASSUME NEW t \in Threads, FreeZero(t)
      PROVE  IInv'
  <2>1. TypeOK'
    BY <1>15 DEF IInv, TypeOK, FrameInv, FreeZero, Idle, Pointers
  <2>2. FrameInv'
    BY <1>15 DEF IInv, TypeOK, FrameInv, ExclusiveInv, FreeZero, Idle, Within
  <2>3. OwnInv'
    BY <1>15, AddrAssumption DEF IInv, TypeOK, OwnInv, FreeZero
  <2>4. InstancesStayReachable'
    BY <1>15 DEF IInv, FrameInv, InstancesStayReachable, FreeZero
  <2>5. ExclusiveInv'
    BY <1>15 DEF IInv, FrameInv, ExclusiveInv, FreeZero, Idle, Freeing, Within
  <2>6. UriInv'
    BY <1>15 DEF IInv, UriInv, FreeZero
  <2> QED
    BY <2>1, <2>2, <2>3, <2>4, <2>5, <2>6 DEF IInv
<1>16. CASE UNCHANGED vars
  BY <1>16
     DEF vars, IInv, TypeOK, FrameInv, OwnInv, InstancesStayReachable,
         ExclusiveInv, UriInv, Within
<1> QED
  BY <1>1, <1>2, <1>3, <1>4, <1>5, <1>6, <1>7, <1>8, <1>9, <1>10, <1>11,
     <1>12, <1>13, <1>14, <1>15, <1>16 DEF Next

(* The invariant holds in every reachable state.                           *)
THEOREM InvariantHolds == Spec => []IInv
  BY InitInv, NextInv, PTL DEF Spec

(* Fields, cached URIs, heap cells and frames keep their types.            *)
THEOREM TypeCorrect == Spec => []TypeOK
<1>1. IInv => TypeOK
  BY DEF IInv
<1> QED
  BY <1>1, InvariantHolds, PTL

(* No native function ever works on an instance that is gone or that       *)
(* belongs to another object.                                              *)
THEOREM NoUseAfterFree == Spec => []UseWhileLive
<1>1. IInv => UseWhileLive
  BY DEF IInv, FrameInv, OwnInv, ExclusiveInv, UseWhileLive, UsedIn, Within,
         Freeing, Handles
<1> QED
  BY <1>1, InvariantHolds, PTL

(* free() may be called again and again: what it deletes is always the     *)
(* instance of its own object.                                             *)
THEOREM NoDoubleDelete == Spec => []FreeDeletesOwnInstance
<1>1. IInv => FreeDeletesOwnInstance
  BY DEF IInv, FrameInv, OwnInv, ExclusiveInv, FreeDeletesOwnInstance, Within,
         Freeing
<1> QED
  BY <1>1, InvariantHolds, PTL

(* Only an LbManager whose constructor threw can lose its instance.        *)
THEOREM NoLostInstance == Spec => []InstancesStayReachable
<1>1. IInv => InstancesStayReachable
  BY DEF IInv
<1> QED
  BY <1>1, InvariantHolds, PTL

-----------------------------------------------------------------------------
(* Every step of the classes is a step of the abstract life of an instance *)
(* or leaves it alone.                                                     *)
LEMMA StepRefines ==
  ASSUME IInv, [Next]_vars
  PROVE  [Abstract!Next]_(Abstract!vars)
<1>1. ASSUME NEW t \in Threads, NEW u \in Uris, NewUri(t, u)
      PROVE  Abstract!Construct(t, u, "live")
  <2>1. user' = [user EXCEPT ![t] = Nobody]
    BY <1>1 DEF user, UsedIn, NewUri, Idle
  <2>2. reaper' = reaper /\ reaper[t] = Nobody
    BY <1>1 DEF reaper, FreedIn, NewUri, Idle
  <2>3. life' = [life EXCEPT ![u] = "live"]
    <3>1. u \in Handles
      BY DEF Handles
    <3>2. \A g \in Handles : g # u => LifeOf(g)' = LifeOf(g)
      BY <1>1, HandleAssumption DEF LifeOf, NewUri
    <3>3. LifeOf(u)' = "live"
      BY <1>1, <3>1, HandleAssumption, AddrAssumption
         DEF LifeOf, NewUri, IInv, TypeOK
    <3> QED
      BY <3>1, <3>2, <3>3 DEF life
  <2>4. life[u] = "none"
    BY <1>1, HandleAssumption, AddrAssumption
       DEF life, LifeOf, NewUri, IInv, InstancesStayReachable, Handles,
           MayConstruct
  <2> QED
    BY <2>1, <2>2, <2>3, <2>4 DEF Abstract!Construct
<1>2. ASSUME NEW t \in Threads, NEW u \in Uris, NewUriThrows(t, u)
      PROVE  Abstract!Construct(t, u, "gone")
  <2>1. user' = [user EXCEPT ![t] = Nobody]
    BY <1>2 DEF user, UsedIn, NewUriThrows, Idle
  <2>2. reaper' = reaper /\ reaper[t] = Nobody
    BY <1>2 DEF reaper, FreedIn, NewUriThrows, Idle
  <2>3. life' = [life EXCEPT ![u] = "gone"]
    <3>1. u \in Handles
      BY DEF Handles
    <3>2. \A g \in Handles : g # u => LifeOf(g)' = LifeOf(g)
      BY <1>2 DEF LifeOf, NewUriThrows
    <3>3. LifeOf(u)' = "gone"
      BY <1>2, <3>1, HandleAssumption, AddrAssumption
         DEF LifeOf, NewUriThrows, IInv, TypeOK, InstancesStayReachable,
             MayConstruct, Unborn, Failed
    <3> QED
      BY <3>1, <3>2, <3>3 DEF life
  <2>4. life[u] = "none"
    BY <1>2, HandleAssumption, AddrAssumption
       DEF life, LifeOf, NewUriThrows, IInv, InstancesStayReachable, Handles,
           MayConstruct
  <2> QED
    BY <2>1, <2>2, <2>3, <2>4 DEF Abstract!Construct
<1>3. ASSUME NEW t \in Threads, NEW p \in Managers \cup Pipes, NEW e \in EjfatURIs,
             getEjfatUriFromField(t, p, e)
      PROVE  Abstract!Borrow(t, e)
  <2>e. e \in Uris \cup Managers /\ e \in Handles
    BY DEF EjfatURIs, Handles
  <2>1. user' = [user EXCEPT ![t] = e]
    BY <1>3
       DEF user, UsedIn, getEjfatUriFromField, IInv, TypeOK, FrameInv, Idle,
           Frame, Freeing
  <2>2. reaper' = [reaper EXCEPT ![t] = Nobody]
    BY <1>3 DEF reaper, FreedIn, getEjfatUriFromField, Idle, Frame, Freeing
  <2>3. life' = life
    BY <1>3 DEF life, LifeOf, getEjfatUriFromField
  <2>4. life[e] = "live"
    BY <1>3, <2>e, AddrAssumption
       DEF life, LifeOf, getEjfatUriFromField, IInv, TypeOK, OwnInv, Within,
           Handles, MayUse
  <2> QED
    BY <1>3, <2>e, <2>1, <2>3, <2>4, HandleAssumption
       DEF Abstract!Borrow, Abstract!Resting, user, reaper, UsedIn, FreedIn,
           getEjfatUriFromField, Idle, Freeing, Within, Handles, MayUse
<1>4. ASSUME NEW t \in Threads, NewPeer(t)
      PROVE  \E o \in Handles : Abstract!Construct(t, o, "live")
  <2>o. PICK o \in Handles : o = frame[t].obj
    BY <1>4 DEF NewPeer, IInv, FrameInv, Freeing, Handles
  <2>1. user' = [user EXCEPT ![t] = Nobody]
    BY <1>4
       DEF user, UsedIn, NewPeer, IInv, TypeOK, FrameInv, Idle,
           Frame, Freeing
  <2>2. reaper' = reaper /\ reaper[t] = Nobody
    BY <1>4 DEF reaper, FreedIn, NewPeer, Idle, Freeing
  <2>3. life' = [life EXCEPT ![o] = "live"]
    <3>2. \A g \in Handles : g # o => LifeOf(g)' = LifeOf(g)
      BY <1>4, <2>o, HandleAssumption DEF LifeOf, NewPeer
    <3>3. LifeOf(o)' = "live"
      BY <1>4, <2>o, AddrAssumption DEF LifeOf, NewPeer, IInv, TypeOK, FrameInv
    <3> QED
      BY <2>o, <3>2, <3>3 DEF life
  <2>4. life[o] = "none"
    BY <1>4, <2>o, HandleAssumption, AddrAssumption
       DEF life, LifeOf, NewPeer, IInv, FrameInv, InstancesStayReachable,
           Unborn, Failed
  <2> QED
    BY <2>o, <2>1, <2>2, <2>3, <2>4, HandleAssumption
       DEF Abstract!Construct, Nobody, Handles
<1>5. ASSUME NEW t \in Threads, NewPipeThrows(t)
      PROVE  \E o \in Handles : Abstract!Construct(t, o, "gone")
  <2>o. PICK o \in Handles : o = frame[t].obj
    BY <1>5 DEF NewPipeThrows, IInv, FrameInv, Freeing, Handles
  <2>1. user' = [user EXCEPT ![t] = Nobody]
    BY <1>5
       DEF user, UsedIn, NewPipeThrows, IInv, TypeOK, FrameInv, Idle,
           Frame, Freeing
  <2>2. reaper' = reaper /\ reaper[t] = Nobody
    BY <1>5 DEF reaper, FreedIn, NewPipeThrows, Idle, Freeing
  <2>3. life' = [life EXCEPT ![o] = "gone"]
    <3>2. \A g \in Handles : g # o => LifeOf(g)' = LifeOf(g)
      BY <1>5, <2>o DEF LifeOf, NewPipeThrows
    <3>3. LifeOf(o)' = "gone"
      BY <1>5, <2>o, HandleAssumption, AddrAssumption
         DEF LifeOf, NewPipeThrows, IInv, TypeOK, FrameInv,
             InstancesStayReachable, Unborn, Failed
    <3> QED
      BY <2>o, <3>2, <3>3 DEF life
  <2>4. life[o] = "none"
    BY <1>5, <2>o, HandleAssumption, AddrAssumption
       DEF life, LifeOf, NewPipeThrows, IInv, FrameInv, InstancesStayReachable
  <2> QED
    BY <2>o, <2>1, <2>2, <2>3, <2>4, HandleAssumption
       DEF Abstract!Construct, Nobody, Handles
<1>6. ASSUME NEW t \in Threads, NewManagerThrows(t)
      PROVE  \E o \in Handles : Abstract!Construct(t, o, "lost")
  <2>o. PICK o \in Handles : o = frame[t].obj
    BY <1>6 DEF NewManagerThrows, IInv, FrameInv, Freeing, Handles
  <2>1. user' = [user EXCEPT ![t] = Nobody]
    BY <1>6
       DEF user, UsedIn, NewManagerThrows, IInv, TypeOK, FrameInv, Idle,
           Frame, Freeing
  <2>2. reaper' = reaper /\ reaper[t] = Nobody
    BY <1>6 DEF reaper, FreedIn, NewManagerThrows, Idle, Freeing
  <2>3. life' = [life EXCEPT ![o] = "lost"]
    <3>2. \A g \in Handles : g # o => LifeOf(g)' = LifeOf(g)
      BY <1>6, <2>o, HandleAssumption DEF LifeOf, NewManagerThrows
    <3>3. LifeOf(o)' = "lost"
      BY <1>6, <2>o, AddrAssumption
         DEF LifeOf, NewManagerThrows, IInv, TypeOK, FrameInv
    <3> QED
      BY <2>o, <3>2, <3>3 DEF life
  <2>4. life[o] = "none"
    BY <1>6, <2>o, HandleAssumption, AddrAssumption
       DEF life, LifeOf, NewManagerThrows, IInv, FrameInv,
           InstancesStayReachable, Unborn, Failed
  <2> QED
    BY <2>o, <2>1, <2>2, <2>3, <2>4, HandleAssumption
       DEF Abstract!Construct, Nobody, Handles
<1>7. ASSUME NEW t \in Threads, NEW h \in Handles, Call(t, h)
      PROVE  Abstract!Borrow(t, h)
  <2>1. user' = [user EXCEPT ![t] = h]
    BY <1>7
       DEF user, UsedIn, Call, IInv, TypeOK, FrameInv, Idle,
           Frame, Freeing
  <2>2. reaper' = [reaper EXCEPT ![t] = Nobody]
    BY <1>7 DEF reaper, FreedIn, Call, Idle, Frame, Freeing
  <2>3. life' = life
    BY <1>7 DEF life, LifeOf, Call
  <2>4. life[h] = "live"
    BY <1>7, AddrAssumption
       DEF life, LifeOf, Call, IInv, TypeOK, OwnInv, Within, MayUse
  <2> QED
    BY <1>7, <2>1, <2>3, <2>4, HandleAssumption
       DEF Abstract!Borrow, Abstract!Resting, user, reaper, UsedIn, FreedIn,
           Call, Idle, Freeing, Within, MayUse
<1>8. ASSUME NEW t \in Threads, NEW h \in Handles, FreeCheck(t, h)
      PROVE  Abstract!Claim(t, h)
  <2>1. user' = [user EXCEPT ![t] = Nobody]
    BY <1>8 DEF user, UsedIn, FreeCheck, Idle, Frame
  <2>2. reaper' = [reaper EXCEPT ![t] = h]
    BY <1>8
       DEF reaper, FreedIn, FreeCheck, IInv, TypeOK, FrameInv, Idle,
           Frame, Freeing
  <2>3. life' = life
    BY <1>8 DEF life, LifeOf, FreeCheck
  <2>4. life[h] = "live"
    BY <1>8, AddrAssumption
       DEF life, LifeOf, FreeCheck, IInv, OwnInv, Within, MayFree
  <2> QED
    BY <1>8, <2>2, <2>3, <2>4
       DEF Abstract!Claim, Abstract!Resting, user, reaper, UsedIn, FreedIn,
           FreeCheck, Idle, Freeing, Within, MayFree
<1>9. ASSUME NEW t \in Threads, Return(t)
      PROVE  Abstract!GiveBack(t)
  <2>1. user' = [user EXCEPT ![t] = Nobody]
    BY <1>9
       DEF user, UsedIn, Return, IInv, TypeOK, FrameInv, Idle,
           Frame, Freeing
  <2>2. reaper' = [reaper EXCEPT ![t] = Nobody]
    BY <1>9 DEF reaper, FreedIn, Return, Idle, Freeing
  <2>3. life' = life
    BY <1>9 DEF life, LifeOf, Return
  <2> QED
    BY <1>9, <2>1, <2>2, <2>3
       DEF Abstract!GiveBack, reaper, FreedIn, Return, Freeing
<1>10. ASSUME NEW t \in Threads, NEW m \in Managers, getInternalUri(t, m)
      PROVE  Abstract!Borrow(t, m)
  <2>1. user' = [user EXCEPT ![t] = m]
    BY <1>10
       DEF user, UsedIn, getInternalUri, IInv, TypeOK, FrameInv, Idle,
           Frame, Freeing
  <2>2. reaper' = [reaper EXCEPT ![t] = Nobody]
    BY <1>10 DEF reaper, FreedIn, getInternalUri, Idle, Frame, Freeing
  <2>3. life' = life
    BY <1>10 DEF life, LifeOf, getInternalUri
  <2>4. life[m] = "live"
    BY <1>10, AddrAssumption
       DEF life, LifeOf, getInternalUri, IInv, TypeOK, OwnInv, Within, Handles,
           MayUse
  <2> QED
    BY <1>10, <2>1, <2>3, <2>4, HandleAssumption
       DEF Abstract!Borrow, Abstract!Resting, user, reaper, UsedIn, FreedIn,
           getInternalUri, Idle, Freeing, Within, Handles, MayUse
<1>11. ASSUME NEW t \in Threads, NEW m \in Managers, CallInternalUri(t, m)
      PROVE  Abstract!Borrow(t, m)
  <2>1. user' = [user EXCEPT ![t] = m]
    BY <1>11
       DEF user, UsedIn, CallInternalUri, IInv, TypeOK, FrameInv, Idle,
           Frame, Freeing
  <2>2. reaper' = [reaper EXCEPT ![t] = Nobody]
    BY <1>11 DEF reaper, FreedIn, CallInternalUri, Idle, Frame, Freeing
  <2>3. life' = life
    BY <1>11 DEF life, LifeOf, CallInternalUri
  <2>4. life[m] = "live"
    BY <1>11, AddrAssumption
       DEF life, LifeOf, CallInternalUri, IInv, TypeOK, OwnInv, Within, Handles,
           MayUse
  <2> QED
    BY <1>11, <2>1, <2>3, <2>4, HandleAssumption
       DEF Abstract!Borrow, Abstract!Resting, user, reaper, UsedIn, FreedIn,
           CallInternalUri, Idle, Freeing, Within, Handles, MayUse
<1>12. ASSUME NEW t \in Threads, getEjfatURI(t)
      PROVE  Abstract!GiveBack(t)
  <2>1. user' = [user EXCEPT ![t] = Nobody]
    BY <1>12
       DEF user, UsedIn, getEjfatURI, IInv, TypeOK, FrameInv, Idle,
           Frame, Freeing
  <2>2. reaper' = [reaper EXCEPT ![t] = Nobody]
    BY <1>12 DEF reaper, FreedIn, getEjfatURI, Idle, Freeing
  <2>3. life' = life
    BY <1>12 DEF life, LifeOf, getEjfatURI
  <2> QED
    BY <1>12, <2>1, <2>2, <2>3
       DEF Abstract!GiveBack, reaper, FreedIn, getEjfatURI, Freeing
<1>13. ASSUME NEW t \in Threads, FreeRead(t)
      PROVE  UNCHANGED Abstract!vars
  <2>o. PICK o \in Handles : o = frame[t].obj
    BY <1>13 DEF FreeRead, IInv, FrameInv, Freeing, Handles
  <2>1. user' = [user EXCEPT ![t] = Nobody]
    BY <1>13 DEF user, UsedIn, FreeRead, Frame
  <2>2. reaper' = [reaper EXCEPT ![t] = o]
    BY <1>13, <2>o DEF reaper, FreedIn, FreeRead, Frame, Freeing
  <2>3. life' = life
    BY <1>13 DEF life, LifeOf, FreeRead
  <2> QED
    BY <1>13, <2>3
       DEF Abstract!vars, user, reaper, UsedIn, FreedIn, FreeRead, Frame,
           Freeing
<1>14. ASSUME NEW t \in Threads, freeNativePointer(t)
      PROVE  Abstract!Destroy(t)
  <2>o. PICK o \in Handles : o = frame[t].obj
    BY <1>14 DEF freeNativePointer, IInv, FrameInv
  <2>1. user' = user
    BY <1>14 DEF user, UsedIn, freeNativePointer, Frame
  <2>2. reaper' = reaper /\ reaper[t] = o
    BY <1>14, <2>o DEF reaper, FreedIn, freeNativePointer, Frame, Freeing
  <2>3. life' = [life EXCEPT ![o] = "gone"]
    <3>2. \A g \in Handles : g # o => LifeOf(g)' = LifeOf(g)
      BY <1>14, <2>o, HandleAssumption
         DEF LifeOf, freeNativePointer, IInv, TypeOK, FrameInv, OwnInv,
             ExclusiveInv, Within
    <3>3. LifeOf(o)' = "gone"
      BY <1>14, <2>o, HandleAssumption, AddrAssumption
         DEF LifeOf, freeNativePointer, IInv, TypeOK, FrameInv,
             InstancesStayReachable
    <3> QED
      BY <2>o, <3>2, <3>3 DEF life
  <2>4. life[o] = "live"
    BY <1>14, <2>o, AddrAssumption
       DEF life, LifeOf, freeNativePointer, IInv, FrameInv, OwnInv,
           ExclusiveInv, Freeing, Within
  <2> QED
    BY <2>1, <2>2, <2>3, <2>4, HandleAssumption DEF Abstract!Destroy
<1>15. ASSUME NEW t \in Threads, FreeZero(t)
      PROVE  Abstract!Release(t)
  <2>o. PICK o \in Handles : o = frame[t].obj
    BY <1>15 DEF FreeZero, IInv, FrameInv, Freeing, Handles
  <2>1. user' = [user EXCEPT ![t] = Nobody]
    BY <1>15
       DEF user, UsedIn, FreeZero, IInv, TypeOK, FrameInv, Idle,
           Frame, Freeing
  <2>2. reaper' = [reaper EXCEPT ![t] = Nobody]
    BY <1>15, <2>o
       DEF reaper, FreedIn, FreeZero, IInv, TypeOK, FrameInv, Idle,
           Frame, Freeing
  <2>3. life' = life
    <3>1. \A g \in Handles : LifeOf(g)' = LifeOf(g)
      BY <1>15, AddrAssumption
         DEF LifeOf, FreeZero, IInv, FrameInv, Null, Unborn
    <3> QED
      BY <3>1 DEF life
  <2>4. life[o] = "gone"
    BY <1>15, <2>o, AddrAssumption DEF life, LifeOf, FreeZero, IInv, FrameInv
  <2> QED
    BY <1>15, <2>o, <2>1, <2>2, <2>3, <2>4, HandleAssumption
       DEF Abstract!Release, user, reaper, UsedIn, FreedIn, FreeZero, IInv,
           TypeOK
<1>16. CASE UNCHANGED vars
  BY <1>16 DEF vars, Abstract!vars, life, LifeOf, user, reaper
<1> QED
  BY <1>1, <1>2, <1>3, <1>4, <1>5, <1>6, <1>7, <1>8, <1>9, <1>10, <1>11,
     <1>12, <1>13, <1>14, <1>15, <1>16
  DEF Next, Abstract!Next, Handles, EjfatURIs

(* The classes implement InstanceLife for every number of threads, objects *)
(* and addresses.                                                          *)
THEOREM LifeRefinement == Spec => InstancesLiveOnce
<1>1. Init => Abstract!Init
  BY HandleAssumption
     DEF Init, Abstract!Init, life, LifeOf, user, reaper, UsedIn, FreedIn, Idle
<1>2. IInv /\ [Next]_vars => [Abstract!Next]_(Abstract!vars)
  BY StepRefines
<1> QED
  BY <1>1, <1>2, InvariantHolds, PTL DEF Spec, InstancesLiveOnce, Abstract!Spec
=============================================================================
