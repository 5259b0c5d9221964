--------------------------- MODULE Shutdown_proofs ---------------------------
(***************************************************************************)
(* Proofs about Shutdown, for any finite set of requests and any number of *)
(* signals.  The inductive invariant ties the counter to the handlers that *)
(* run: a waiter is then never left without a handler that will wake it,   *)
(* and a poll that reads 0 proves that nothing is left to cut.             *)
(***************************************************************************)
EXTENDS Shutdown, FiniteSetTheorems, TLAPS

Running == {r \in Request : request[r] = "handler"}

IInv ==
    /\ TypeOK
    /\ DrainCutsNothing
    /\ WaitersAreWoken
    /\ ~exited =>
          /\ activeRequests = Cardinality(Running)
          /\ drainWaiters = {s \in Signal : shutdown[s] = "handlers"}
          /\ drainWaiters # {} => activeRequests > 0
          /\ \A r \in Request : request[r] # "cut"

USE RequestAssumption

-----------------------------------------------------------------------------
(* Counting the running handlers.                                          *)
LEMMA RunningFinite ==
    /\ IsFiniteSet(Running)
    /\ Cardinality(Running) \in 0..Cardinality(Request)
    /\ Cardinality(Running) = 0 <=> Running = {}
<1>1. Running \in SUBSET Request
  BY DEF Running
<1>2. IsFiniteSet(Running) /\ Cardinality(Running) <= Cardinality(Request)
  BY <1>1, FS_Subset, Zenon
<1>3. Cardinality(Running) \in Nat /\ Cardinality(Request) \in Nat
  BY <1>2, FS_CardinalityType
<1>4. Cardinality(Running) = 0 <=> Running = {}
  BY <1>2, FS_EmptySet
<1> QED  BY <1>2, <1>3, <1>4

LEMMA InvariantInit == Init => IInv
<1> SUFFICES ASSUME Init PROVE IInv
  OBVIOUS
<1>1. ~exited /\ Running = {}
  BY DEF Init, exited, Running
<1>2. Cardinality(Running) = 0 /\ Cardinality(Request) \in Nat
  BY <1>1, FS_EmptySet, FS_CardinalityType
<1>3. TypeOK
  BY <1>2 DEF Init, TypeOK
<1>4. DrainCutsNothing /\ WaitersAreWoken
  BY DEF Init, DrainCutsNothing, WaitersAreWoken
<1> QED  BY <1>1, <1>2, <1>3, <1>4 DEF IInv, Init

(* A step that neither starts nor settles a handler.                       *)
LEMMA RequestMoves ==
    ASSUME IInv, NEW r \in Request,
           ConnectionRefused(r) \/ ResponseSent(r)
    PROVE  IInv'
<1>1. /\ TypeOK /\ request[r] \in {"unsent", "sending"}
      /\ UNCHANGED <<listening, activeRequests, drainWaiters, shutdown>>
      /\ \E p \in {"refused", "sent"} : request' = [request EXCEPT ![r] = p]
  BY DEF IInv, ConnectionRefused, ResponseSent
<1>2. \A q \in Request : /\ request'[q] = "handler" <=> request[q] = "handler"
                         /\ request'[q] = "cut" <=> request[q] = "cut"
  BY <1>1 DEF TypeOK
<1>3. Running' = Running /\ (exited' <=> exited)
  BY <1>1, <1>2 DEF Running, exited
<1>4. TypeOK'
  BY <1>1 DEF TypeOK
<1>5. DrainCutsNothing' /\ WaitersAreWoken'
  BY <1>1, <1>2, <1>3 DEF IInv, DrainCutsNothing, WaitersAreWoken
<1> QED  BY <1>1, <1>2, <1>3, <1>4, <1>5 DEF IInv

LEMMA RequestStartsPreserves ==
    ASSUME IInv, NEW r \in Request, RequestStarts(r)
    PROVE  IInv'
<1>1. /\ TypeOK /\ ~exited /\ request[r] = "unsent"
      /\ request' = [request EXCEPT ![r] = "handler"]
      /\ activeRequests' = activeRequests + 1
      /\ UNCHANGED <<listening, drainWaiters, shutdown>>
  BY DEF IInv, RequestStarts
<1>2. ~exited'
  BY <1>1 DEF exited
<1>3. Running' = Running \cup {r} /\ r \notin Running
  BY <1>1 DEF Running, TypeOK
<1>4. Cardinality(Running') = Cardinality(Running) + 1
  <2>1. Cardinality(Running \cup {r}) = Cardinality(Running) + 1
    BY <1>3, RunningFinite, FS_AddElement
  <2> QED  BY <1>3, <2>1
<1>5. activeRequests' = Cardinality(Running')
  BY <1>1, <1>4 DEF IInv
<1>6. Cardinality(Running') \in 0..Cardinality(Request)
  <2>1. Running' \in SUBSET Request
    BY DEF Running
  <2>2. IsFiniteSet(Running') /\ Cardinality(Running') <= Cardinality(Request)
    BY <2>1, FS_Subset, Zenon
  <2>3. Cardinality(Running') \in Nat /\ Cardinality(Request) \in Nat
    BY <2>2, FS_CardinalityType
  <2> QED  BY <2>2, <2>3
<1>7. TypeOK'
  BY <1>1, <1>5, <1>6 DEF TypeOK
<1>8. \A q \in Request : /\ request'[q] # "cut"
                         /\ request[q] = "handler" => request'[q] = "handler"
  BY <1>1 DEF TypeOK, IInv
<1>9. DrainCutsNothing'
  BY <1>8 DEF DrainCutsNothing
<1>10. WaitersAreWoken'
  BY <1>1, <1>2, <1>8 DEF WaitersAreWoken, IInv
<1>11. activeRequests' > 0
  BY <1>1, <1>5, <1>6 DEF TypeOK
<1> QED  BY <1>1, <1>2, <1>5, <1>7, <1>8, <1>9, <1>10, <1>11 DEF IInv

(* The last handler wakes every waiter, the others leave one running.      *)
LEMMA HandlerSettlesPreserves ==
    ASSUME IInv, NEW r \in Request, HandlerSettles(r)
    PROVE  IInv'
<1>1. /\ TypeOK /\ ~exited /\ request[r] = "handler"
      /\ request' = [request EXCEPT ![r] = "sending"]
      /\ activeRequests' = activeRequests - 1
      /\ UNCHANGED listening
      /\ activeRequests = Cardinality(Running)
      /\ drainWaiters = {s \in Signal : shutdown[s] = "handlers"}
  BY DEF IInv, HandlerSettles
<1>2. Running' = Running \ {r} /\ r \in Running
  BY <1>1 DEF Running, TypeOK
<1>3. Cardinality(Running \ {r}) = Cardinality(Running) - 1
  BY <1>2, RunningFinite, FS_RemoveElement
<1>4. activeRequests' = Cardinality(Running')
  BY <1>1, <1>2, <1>3
<1>5. /\ activeRequests' \in 0..Cardinality(Request)
      /\ activeRequests' = 0 <=> Running' = {}
  <2>1. IsFiniteSet(Running')
    BY <1>2, RunningFinite, FS_RemoveElement, Zenon
  <2>2. Cardinality(Running') \in Nat
    BY <2>1, FS_CardinalityType
  <2>3. Cardinality(Running') = 0 <=> Running' = {}
    BY <2>1, FS_EmptySet
  <2>4. /\ Cardinality(Request) \in Nat
        /\ activeRequests \in 0..Cardinality(Request)
        /\ activeRequests' \in Nat
        /\ activeRequests' = activeRequests - 1
    BY <1>1, <1>4, <2>2, FS_CardinalityType DEF TypeOK
  <2>5. activeRequests' \in 0..Cardinality(Request)
    BY <2>4
  <2> QED  BY <1>4, <2>3, <2>5
<1>6. \A q \in Request : request'[q] # "cut"
  BY <1>1 DEF TypeOK, IInv
<1>7. CASE activeRequests' = 0
  <2>1. /\ drainWaiters' = {}
        /\ shutdown' = [s \in Signal |->
                          IF s \in drainWaiters THEN "poll" ELSE shutdown[s]]
    BY <1>7 DEF HandlerSettles
  <2>2. TypeOK'
    BY <1>1, <1>5, <2>1 DEF TypeOK
  <2>3. ~exited' /\ {s \in Signal : shutdown'[s] = "handlers"} = {}
    BY <1>1, <2>1 DEF exited, TypeOK
  <2>4. DrainCutsNothing' /\ WaitersAreWoken'
    BY <1>6, <2>1, <2>3 DEF DrainCutsNothing, WaitersAreWoken
  <2> QED  BY <1>4, <1>6, <2>1, <2>2, <2>3, <2>4 DEF IInv
<1>8. CASE activeRequests' # 0
  <2>1. UNCHANGED <<drainWaiters, shutdown>>
    BY <1>8 DEF HandlerSettles
  <2>2. TypeOK'
    BY <1>1, <1>5, <2>1 DEF TypeOK
  <2>3. ~exited'
    BY <1>1, <2>1 DEF exited
  <2>4. PICK q \in Request : request'[q] = "handler"
    BY <1>5, <1>8 DEF Running
  <2>5. DrainCutsNothing' /\ WaitersAreWoken'
    BY <1>1, <1>6, <2>1, <2>4 DEF DrainCutsNothing, WaitersAreWoken
  <2>6. activeRequests' > 0
    BY <1>5, <1>8, FS_CardinalityType
  <2> QED  BY <1>1, <1>4, <1>6, <2>1, <2>2, <2>3, <2>5, <2>6 DEF IInv
<1> QED  BY <1>7, <1>8

LEMMA ShutdownStartsPreserves ==
    ASSUME IInv, NEW s \in Signal, ShutdownStarts(s)
    PROVE  IInv'
<1>1. /\ TypeOK /\ ~exited /\ shutdown[s] = "off"
      /\ listening' = FALSE
      /\ UNCHANGED <<request, activeRequests>>
      /\ activeRequests = Cardinality(Running)
      /\ drainWaiters = {q \in Signal : shutdown[q] = "handlers"}
  BY DEF IInv, ShutdownStarts
<1>2. Running' = Running /\ \A r \in Request : request'[r] # "cut"
  BY <1>1 DEF Running, IInv
<1>3. DrainCutsNothing'
  BY <1>2 DEF DrainCutsNothing
<1>4. CASE activeRequests = 0
  <2>1. shutdown' = [shutdown EXCEPT ![s] = "poll"] /\ drainWaiters' = drainWaiters
    BY <1>4 DEF ShutdownStarts
  <2>2. TypeOK' /\ ~exited'
    BY <1>1, <2>1 DEF TypeOK, exited
  <2>3. drainWaiters' = {q \in Signal : shutdown'[q] = "handlers"}
    BY <1>1, <2>1 DEF TypeOK
  <2>4. WaitersAreWoken'
    BY <1>1, <2>1, <2>3 DEF WaitersAreWoken, IInv
  <2> QED  BY <1>1, <1>2, <1>3, <2>1, <2>2, <2>3, <2>4 DEF IInv
<1>5. CASE activeRequests > 0
  <2>1. /\ shutdown' = [shutdown EXCEPT ![s] = "handlers"]
        /\ drainWaiters' = drainWaiters \cup {s}
    BY <1>5 DEF ShutdownStarts
  <2>2. TypeOK' /\ ~exited'
    BY <1>1, <2>1 DEF TypeOK, exited
  <2>3. drainWaiters' = {q \in Signal : shutdown'[q] = "handlers"}
    BY <1>1, <2>1 DEF TypeOK
  <2>4. PICK r \in Request : request[r] = "handler"
    BY <1>1, <1>5, RunningFinite DEF Running
  <2>5. WaitersAreWoken'
    BY <1>1, <2>3, <2>4 DEF WaitersAreWoken
  <2> QED  BY <1>1, <1>2, <1>3, <1>5, <2>2, <2>3, <2>5 DEF IInv
<1>6. activeRequests = 0 \/ activeRequests > 0
  BY <1>1, RunningFinite
<1> QED  BY <1>4, <1>5, <1>6

(* A poll that reads 0 has nothing to cut; a timeout is no drain.          *)
LEMMA ExitPreserves ==
    ASSUME IInv, NEW s \in Signal, Polled(s) \/ TimesOut(s)
    PROVE  IInv'
<1>1. /\ TypeOK /\ ~exited
      /\ UNCHANGED <<listening, activeRequests, drainWaiters>>
      /\ request' = [r \in Request |->
            IF request[r] \in {"handler", "sending"} THEN "cut" ELSE request[r]]
      /\ activeRequests = Cardinality(Running)
      /\ drainWaiters # {} => activeRequests > 0
  BY DEF IInv, Polled, TimesOut, Exit
<1>2. PICK how \in {"drained", "timedout"} :
        /\ shutdown' = [shutdown EXCEPT ![s] = how]
        /\ how = "drained" => pendingRequests = 0
  BY DEF Polled, TimesOut, Exit
<1>3. TypeOK' /\ exited'
  BY <1>1, <1>2 DEF TypeOK, exited
<1>4. DrainCutsNothing'
  <2>1. CASE how = "timedout"
    BY <1>1, <1>2, <2>1 DEF DrainCutsNothing, exited, TypeOK
  <2>2. CASE how = "drained"
    <3> DEFINE Pending == {r \in Request : request[r] \in {"handler", "sending"}}
    <3>1. Pending \in SUBSET Request
      OBVIOUS
    <3>2. IsFiniteSet(Pending)
      BY <3>1, FS_Subset, Zenon
    <3>3. Pending = {}
      BY <1>2, <2>2, <3>2, FS_EmptySet DEF pendingRequests
    <3> QED  BY <1>1, <3>3 DEF DrainCutsNothing, IInv
  <2> QED  BY <2>1, <2>2
<1>5. WaitersAreWoken'
  <2>1. drainWaiters # {} => \E r \in Request : request'[r] = "cut"
    BY <1>1, RunningFinite DEF Running
  <2> QED  BY <1>1, <1>3, <2>1 DEF WaitersAreWoken
<1> QED  BY <1>3, <1>4, <1>5 DEF IInv

LEMMA InvariantStep == IInv /\ [Next]_vars => IInv'
<1> SUFFICES ASSUME IInv, [Next]_vars PROVE IInv'
  OBVIOUS
<1>1. CASE UNCHANGED vars
  BY <1>1 DEF vars, IInv, TypeOK, DrainCutsNothing, WaitersAreWoken, exited, Running
<1> QED
  BY <1>1, RequestMoves, RequestStartsPreserves, HandlerSettlesPreserves,
     ShutdownStartsPreserves, ExitPreserves
  DEF Next

-----------------------------------------------------------------------------
(***************************************************************************)
(* The inductive invariant holds in every reachable state.                 *)
(***************************************************************************)
THEOREM Invariance == Spec => []IInv
BY InvariantInit, InvariantStep, PTL DEF Spec

(***************************************************************************)
(* A shutdown that did not time out cuts no request (main.ts:270-286).     *)
(***************************************************************************)
THEOREM DrainsCutNothing == Spec => []DrainCutsNothing
<1>1. IInv => DrainCutsNothing
  BY DEF IInv
<1> QED  BY <1>1, Invariance, PTL

(***************************************************************************)
(* No shutdown waits for a wakeup that will not come (main.ts:169-179).    *)
(***************************************************************************)
THEOREM NoWakeupIsLost == Spec => [](TypeOK /\ WaitersAreWoken)
<1>1. IInv => TypeOK /\ WaitersAreWoken
  BY DEF IInv
<1> QED  BY <1>1, Invariance, PTL
=============================================================================
