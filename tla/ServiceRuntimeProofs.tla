------------------------- MODULE ServiceRuntimeProofs -------------------------
(***************************************************************************)
(* The safety properties of ServiceRuntime hold for any number of handlers,*)
(* any pool size and any number of rotations.                              *)
(*                                                                         *)
(* The invariant adds to the properties how the rotation's pieces fit: the *)
(* pools are used in the order they are made, the one about to be          *)
(* installed is the only one the repository does not have yet, and once    *)
(* the drain is over no handler is left that could ask for a pool.         *)
(***************************************************************************)
EXTENDS ServiceRuntime, TLAPS

RotationInv ==
  /\ closed \subseteq 0..made
  /\ refresher # "setPool" => pool = made
  /\ refresher = "setPool" => pool + 1 = made /\ made \notin closed

(* Until the drain is over the repository's pool is open. *)
CurrentPoolOpen == main \in {"serving", "draining"} => pool \notin closed

(* Every pool that was made is closed, current or about to be installed. *)
OldPoolsClosed ==
  \A p \in 0..made : p \in closed \/ p = pool \/ (p = made /\ refresher = "setPool")

(***************************************************************************)
(* A handler that waits for the repository's lock holds no connection:     *)
(* SetPool, which keeps the lock until the old pool's connections are      *)
(* back, waits only for handlers that do not wait for it.                  *)
(***************************************************************************)
NoHoldAndWait ==
  \A h \in Handlers :
    phase[h] \in {"idle", "verify", "getPool", "acquire"} => conn[h] = NoPool

(* A handler at work has a segment left to do. *)
BusyInv == \A h \in Handlers : phase[h] # "idle" => todo[h] # 0

DrainInv == main \in {"closePool", "waitConns", "exited"} => \A h \in Handlers : phase[h] = "idle"

IndInv ==
  /\ TypeOK
  /\ NoHoldAndWait
  /\ BusyInv
  /\ RotationInv
  /\ DrainInv
  /\ CurrentPoolOpen
  /\ OldPoolsClosed

(* The invariant holds when main has made the pool and starts serving. *)
LEMMA InitEstablishes == Init => IndInv
<1> SUFFICES ASSUME Init PROVE IndInv
  OBVIOUS
<1>1. MaxPools \in Nat
  BY RuntimeAssumption
<1>2. TypeOK
  <2>1. pool \in Pools /\ made \in Pools /\ closed \subseteq Pools
    BY <1>1 DEF Init, Pools
  <2>2. /\ phase \in [Handlers -> {"idle", "verify", "getPool", "acquire", "query"}]
        /\ todo \in [Handlers -> 0..MaxSegments]
        /\ ptr \in [Handlers -> Pools \cup {NoPool}]
        /\ conn \in [Handlers -> Pools \cup {NoPool}]
        /\ result \in [Handlers -> {"none", "ok", "error", "closedPool"}]
    BY DEF Init, MaxSegments
  <2>3. mu \in BOOLEAN /\ dbUp \in BOOLEAN /\ stream \in BOOLEAN
    BY DEF Init
  <2>4. /\ refresher \in {"off", "fetch", "newPool", "setPool", "closing", "sleep"}
        /\ old \in Pools \cup {NoPool}
        /\ health \in {"SERVING", "NOT_SERVING"}
        /\ main \in {"serving", "draining", "closePool", "waitConns", "exited"}
    BY DEF Init
  <2> QED BY <2>1, <2>2, <2>3, <2>4 DEF TypeOK
<1>3. NoHoldAndWait /\ BusyInv
  BY DEF Init, NoHoldAndWait, BusyInv
<1>4. RotationInv /\ DrainInv /\ CurrentPoolOpen /\ OldPoolsClosed
  BY DEF Init, RotationInv, DrainInv, CurrentPoolOpen, OldPoolsClosed
<1> QED BY <1>2, <1>3, <1>4 DEF IndInv

(* A request that ends gives its connection back and drops its pool. *)
LEMMA FinishPreserves ==
  ASSUME IndInv, NEW h \in Handlers, NEW r \in {"ok", "error", "closedPool"},
         phase[h] # "idle", Finish(h, r),
         UNCHANGED <<pool, mu, made, closed, refresher, old, dbUp, health, stream, main>>
  PROVE  IndInv'
<1>1. TypeOK'
  BY RuntimeAssumption DEF IndInv, TypeOK, Finish, Pools, NoPool, MaxSegments
<1>2. NoHoldAndWait' /\ BusyInv'
  BY DEF IndInv, TypeOK, NoHoldAndWait, BusyInv, Finish
<1>3. RotationInv' /\ DrainInv' /\ CurrentPoolOpen' /\ OldPoolsClosed'
  BY DEF IndInv, TypeOK, RotationInv, DrainInv, CurrentPoolOpen, OldPoolsClosed, Finish
<1> QED BY <1>1, <1>2, <1>3 DEF IndInv

(* Every step of a handler keeps the invariant. *)
LEMMA HandlerPreserves ==
  ASSUME IndInv, NEW h \in Handlers,
         \/ \E n \in 1..MaxSegments : Request(h, n)
         \/ CreateOrder(h) \/ GetUserReturns(h) \/ HandlerStep(h)
  PROVE  IndInv'
<1> USE DEF IndInv
<1>1. ASSUME NEW n \in 1..MaxSegments, Request(h, n) PROVE IndInv'
  <2>1. TypeOK'
    BY <1>1 DEF TypeOK, Request, Pools, NoPool, MaxSegments
  <2>2. NoHoldAndWait' /\ BusyInv'
    BY <1>1 DEF TypeOK, NoHoldAndWait, BusyInv, Request, MaxSegments
  <2>3. RotationInv' /\ DrainInv' /\ CurrentPoolOpen' /\ OldPoolsClosed'
    BY <1>1 DEF TypeOK, RotationInv, DrainInv, CurrentPoolOpen, OldPoolsClosed, Request
  <2> QED BY <2>1, <2>2, <2>3
<1>2. CASE GetPool(h)
  <2>1. TypeOK'
    BY <1>2 DEF TypeOK, GetPool, Pools, NoPool
  <2>2. NoHoldAndWait' /\ BusyInv'
    BY <1>2 DEF TypeOK, NoHoldAndWait, BusyInv, GetPool
  <2>3. RotationInv' /\ DrainInv' /\ CurrentPoolOpen' /\ OldPoolsClosed'
    BY <1>2 DEF TypeOK, RotationInv, DrainInv, CurrentPoolOpen, OldPoolsClosed, GetPool
  <2> QED BY <2>1, <2>2, <2>3
<1>3. CASE Acquire(h)
  <2>1. TypeOK'
    BY <1>3 DEF TypeOK, Acquire, Pools, NoPool
  <2>2. NoHoldAndWait' /\ BusyInv'
    BY <1>3 DEF TypeOK, NoHoldAndWait, BusyInv, Acquire
  <2>3. RotationInv' /\ DrainInv' /\ CurrentPoolOpen' /\ OldPoolsClosed'
    BY <1>3 DEF TypeOK, RotationInv, DrainInv, CurrentPoolOpen, OldPoolsClosed, Acquire
  <2> QED BY <2>1, <2>2, <2>3
<1>4. CASE AcquireClosed(h)
  BY <1>4, FinishPreserves DEF AcquireClosed
<1>5. CASE AcquireTimeout(h)
  BY <1>5, FinishPreserves DEF AcquireTimeout
<1>6. CASE QueryError(h)
  BY <1>6, FinishPreserves DEF QueryError
<1>7. CASE Release(h)
  <2>1. CASE todo[h] = 1
    BY <1>7, <2>1, FinishPreserves DEF Release, ConnAfter
  <2>2. CASE todo[h] # 1
    <3>1. todo[h] \in 1..MaxSegments
      BY <1>7 DEF TypeOK, BusyInv, Release, ConnAfter, MaxSegments
    <3>2. TypeOK'
      BY <1>7, <2>2, <3>1 DEF TypeOK, Release, ConnAfter, Pools, NoPool, MaxSegments
    <3>3. NoHoldAndWait' /\ BusyInv'
      BY <1>7, <2>2, <3>1 DEF TypeOK, NoHoldAndWait, BusyInv, Release, ConnAfter, MaxSegments
    <3>4. RotationInv' /\ DrainInv' /\ CurrentPoolOpen' /\ OldPoolsClosed'
      BY <1>7, <2>2
      DEF TypeOK, RotationInv, DrainInv, CurrentPoolOpen, OldPoolsClosed, Release, ConnAfter
    <3> QED BY <3>2, <3>3, <3>4
  <2> QED BY <2>1, <2>2
<1>8. CASE CreateOrder(h)
  <2>1. TypeOK'
    BY <1>8 DEF TypeOK, CreateOrder, Pools, NoPool, MaxSegments
  <2>2. NoHoldAndWait' /\ BusyInv'
    BY <1>8 DEF TypeOK, NoHoldAndWait, BusyInv, CreateOrder
  <2>3. RotationInv' /\ DrainInv' /\ CurrentPoolOpen' /\ OldPoolsClosed'
    BY <1>8 DEF TypeOK, RotationInv, DrainInv, CurrentPoolOpen, OldPoolsClosed, CreateOrder
  <2> QED BY <2>1, <2>2, <2>3
<1>9. CASE UserVerified(h)
  <2>1. TypeOK'
    BY <1>9 DEF TypeOK, UserVerified, Pools, NoPool
  <2>2. NoHoldAndWait' /\ BusyInv'
    BY <1>9 DEF TypeOK, NoHoldAndWait, BusyInv, UserVerified
  <2>3. RotationInv' /\ DrainInv' /\ CurrentPoolOpen' /\ OldPoolsClosed'
    BY <1>9 DEF TypeOK, RotationInv, DrainInv, CurrentPoolOpen, OldPoolsClosed, UserVerified
  <2> QED BY <2>1, <2>2, <2>3
<1>10. CASE UserRefused(h)
  BY <1>10, FinishPreserves DEF UserRefused
<1> QED BY <1>1, <1>2, <1>3, <1>4, <1>5, <1>6, <1>7, <1>8, <1>9, <1>10
     DEF HandlerStep, GetUserReturns

(* Every step of the refresher keeps the invariant: a rotation closes the  *)
(* pool it replaces, and only that one.                                    *)
LEMMA RefresherPreserves ==
  ASSUME IndInv, RefresherStep
  PROVE  IndInv'
<1> USE DEF IndInv
<1>0. MaxPools \in Nat
  BY RuntimeAssumption
<1>1. CASE FetchCreds \/ Wake
  <2>1. TypeOK'
    BY <1>1 DEF TypeOK, FetchCreds, Wake, handlerVars, Pools, NoPool
  <2>2. NoHoldAndWait' /\ BusyInv' /\ DrainInv' /\ CurrentPoolOpen'
    BY <1>1 DEF NoHoldAndWait, BusyInv, DrainInv, CurrentPoolOpen, FetchCreds, Wake, handlerVars
  <2>3. RotationInv' /\ OldPoolsClosed'
    BY <1>1 DEF TypeOK, RotationInv, OldPoolsClosed, FetchCreds, Wake
  <2> QED BY <2>1, <2>2, <2>3
<1>2. CASE NewPool
  <2>1. TypeOK'
    BY <1>0, <1>2 DEF TypeOK, NewPool, handlerVars, Pools, NoPool
  <2>2. NoHoldAndWait' /\ BusyInv' /\ DrainInv' /\ CurrentPoolOpen'
    BY <1>2 DEF NoHoldAndWait, BusyInv, DrainInv, CurrentPoolOpen, NewPool, handlerVars
  <2>3. RotationInv'
    BY <1>0, <1>2 DEF TypeOK, RotationInv, NewPool, Pools
  <2>4. OldPoolsClosed'
    BY <1>0, <1>2 DEF TypeOK, OldPoolsClosed, RotationInv, NewPool, Pools
  <2> QED BY <2>1, <2>2, <2>3, <2>4
<1>3. CASE SetPool
  <2>1. TypeOK'
    BY <1>0, <1>3 DEF TypeOK, SetPool, ClosedBySet, Installed, handlerVars, Pools, NoPool
  <2>2. NoHoldAndWait' /\ BusyInv' /\ DrainInv'
    BY <1>3 DEF NoHoldAndWait, BusyInv, DrainInv, SetPool, ClosedBySet, Installed, handlerVars
  <2>3. RotationInv' /\ CurrentPoolOpen' /\ OldPoolsClosed'
    BY <1>0, <1>3 DEF TypeOK, RotationInv, CurrentPoolOpen, OldPoolsClosed, SetPool, ClosedBySet, Installed, Pools
  <2> QED BY <2>1, <2>2, <2>3
<1>4. CASE CloseReturns
  <2>1. TypeOK'
    BY <1>4 DEF TypeOK, CloseReturns, LockedAfter, handlerVars, Pools, NoPool
  <2>2. NoHoldAndWait' /\ BusyInv' /\ DrainInv' /\ CurrentPoolOpen'
    BY <1>4 DEF NoHoldAndWait, BusyInv, DrainInv, CurrentPoolOpen, CloseReturns, LockedAfter, handlerVars
  <2>3. RotationInv' /\ OldPoolsClosed'
    BY <1>4 DEF TypeOK, RotationInv, OldPoolsClosed, CloseReturns, LockedAfter
  <2> QED BY <2>1, <2>2, <2>3
<1> QED BY <1>1, <1>2, <1>3, <1>4 DEF RefresherStep

(* So does every step of the shutdown. *)
LEMMA ShutdownPreserves ==
  ASSUME IndInv, Signal \/ ShutdownStep
  PROVE  IndInv'
<1> USE DEF IndInv
<1>1. CASE Signal \/ Exit
  <2>1. TypeOK'
    BY <1>1 DEF TypeOK, Signal, Exit, handlerVars, Pools, NoPool
  <2>2. NoHoldAndWait' /\ BusyInv' /\ DrainInv' /\ CurrentPoolOpen'
    BY <1>1 DEF TypeOK, NoHoldAndWait, BusyInv, DrainInv, CurrentPoolOpen, Signal, Exit, handlerVars
  <2>3. RotationInv' /\ OldPoolsClosed'
    BY <1>1 DEF RotationInv, OldPoolsClosed, Signal, Exit
  <2> QED BY <2>1, <2>2, <2>3
<1>2. CASE GracefulStop
  <2>1. TypeOK'
    BY <1>2 DEF TypeOK, GracefulStop, Drained, handlerVars, Pools, NoPool
  <2>2. NoHoldAndWait' /\ BusyInv' /\ DrainInv' /\ CurrentPoolOpen'
    BY <1>2 DEF NoHoldAndWait, BusyInv, DrainInv, CurrentPoolOpen, GracefulStop, Drained, handlerVars
  <2>3. RotationInv' /\ OldPoolsClosed'
    BY <1>2 DEF RotationInv, OldPoolsClosed, GracefulStop, Drained
  <2> QED BY <2>1, <2>2, <2>3
<1>3. CASE ClosePool
  <2>1. TypeOK'
    BY <1>3, RuntimeAssumption DEF TypeOK, ClosePool, handlerVars, Pools, NoPool
  <2>2. NoHoldAndWait' /\ BusyInv' /\ DrainInv' /\ CurrentPoolOpen'
    BY <1>3 DEF NoHoldAndWait, BusyInv, DrainInv, CurrentPoolOpen, ClosePool, handlerVars
  <2>3. RotationInv' /\ OldPoolsClosed'
    BY <1>3, RuntimeAssumption DEF TypeOK, RotationInv, OldPoolsClosed, ClosePool, Pools
  <2> QED BY <2>1, <2>2, <2>3
<1> QED BY <1>1, <1>2, <1>3 DEF ShutdownStep

(* So do the monitor, the database and the client's stream. *)
LEMMA OthersPreserve ==
  ASSUME IndInv, Ping \/ DbDown \/ DbBack \/ OpenStream \/ CloseStream
  PROVE  IndInv'
<1> USE DEF IndInv
<1>1. UNCHANGED <<pool, mu, made, closed, handlerVars, refresher, old, main>>
  BY DEF Ping, AfterPing, DbDown, DbBack, OpenStream, CloseStream
<1>2. TypeOK'
  <2>1. health' \in {"SERVING", "NOT_SERVING"}
    BY DEF TypeOK, Ping, AfterPing, DbDown, DbBack, OpenStream, CloseStream
  <2>2. dbUp' \in BOOLEAN /\ stream' \in BOOLEAN
    BY Zenon DEF TypeOK, Ping, AfterPing, DbDown, DbBack, OpenStream, CloseStream
  <2> QED BY <1>1, <2>1, <2>2 DEF TypeOK, handlerVars, Pools, NoPool
<1>3. NoHoldAndWait' /\ BusyInv' /\ DrainInv' /\ CurrentPoolOpen'
  BY <1>1 DEF NoHoldAndWait, BusyInv, DrainInv, CurrentPoolOpen, handlerVars
<1>4. RotationInv' /\ OldPoolsClosed'
  BY <1>1 DEF RotationInv, OldPoolsClosed
<1> QED BY <1>2, <1>3, <1>4

(* Stuttering steps keep the invariant. *)
LEMMA StutterPreserves ==
  ASSUME IndInv, UNCHANGED vars
  PROVE  IndInv'
BY DEF IndInv, TypeOK, NoHoldAndWait, BusyInv, RotationInv, DrainInv, CurrentPoolOpen, OldPoolsClosed,
       vars, Pools, NoPool

(* The invariant holds in every state of the process. *)
LEMMA Invariance == Spec => []IndInv
<1>1. IndInv /\ [Next]_vars => IndInv'
  BY HandlerPreserves, RefresherPreserves, ShutdownPreserves, OthersPreserve, StutterPreserves
  DEF Next
<1> QED BY <1>1, InitEstablishes, PTL DEF Spec

--------------------------------------------------------------------------------

(* Every variable of the process keeps its type: SetPool never leaves the  *)
(* repository with a nil pool, whatever failed before it.                  *)
THEOREM RuntimeTypeCorrect == Spec => []TypeOK
BY Invariance, PTL DEF IndInv

(* However often credentials are refreshed and whatever fails, exactly the *)
(* current pool and the one about to be installed are open (SetPool).      *)
THEOREM OnlyCurrentPoolOpen == Spec => []OpenPools
<1>1. IndInv => OpenPools
  <2> SUFFICES ASSUME IndInv, main \in {"serving", "draining"}
               PROVE  (0..made) \ closed = {pool} \cup {p \in {made} : refresher = "setPool"}
    BY DEF OpenPools
  <2>1. pool \in 0..made /\ pool \notin closed
    BY DEF IndInv, TypeOK, Pools, RotationInv, CurrentPoolOpen
  <2>2. made \in 0..made /\ (refresher = "setPool" => made \notin closed)
    BY DEF IndInv, TypeOK, Pools, RotationInv
  <2> QED BY <2>1, <2>2 DEF IndInv, OldPoolsClosed
<1> QED BY <1>1, Invariance, PTL

(* No handler waits for the repository's lock, for a connection or for the *)
(* user service with a connection in its hands: SetPool's wait under the   *)
(* lock is safe, and a user service that hangs does not block a rotation.  *)
THEOREM NoHandlerHoldsAndWaits == Spec => []NoHoldAndWait
BY Invariance, PTL DEF IndInv

(* Requests are drained before the shutdown closes the pool (plan-phase1.md: *)
(* "gRPC drains before DB pool closes").                                    *)
THEOREM DrainComesFirst == Spec => []DrainInv
BY Invariance, PTL DEF IndInv

(***************************************************************************)
(* After a rotation a health status of NOT_SERVING is final: the monitor   *)
(* keeps pinging the first pool, which is closed, and nothing else sets    *)
(* the status (monitorDBHealth).  It is why MonitorRecovers speaks of the  *)
(* first pool only, and why HealthRecovers fails with Vault.               *)
(***************************************************************************)
THEOREM NotServingForGood ==
  Spec => [][pool # 0 /\ health = "NOT_SERVING" => pool' # 0 /\ health' = "NOT_SERVING"]_vars
<1>1. ASSUME IndInv, pool # 0 PROVE 0 \in closed
  <2>1. pool \in Nat /\ made \in Nat /\ 0 \in 0..made
    BY <1>1 DEF IndInv, TypeOK, Pools
  <2>2. refresher = "setPool" => made # 0
    BY <1>1, <2>1 DEF IndInv, RotationInv
  <2> QED BY <1>1, <2>1, <2>2 DEF IndInv, OldPoolsClosed
<1>2. ASSUME IndInv, Next, pool # 0, health = "NOT_SERVING"
      PROVE  pool' # 0 /\ health' = "NOT_SERVING"
  <2>1. CASE SetPool
    <3>1. pool' = made /\ health' = health
      BY <2>1 DEF SetPool, Installed
    <3>2. made # 0
      BY <1>2, <2>1 DEF SetPool, IndInv, RotationInv, TypeOK, Pools
    <3> QED BY <1>2, <3>1, <3>2
  <2>2. CASE Ping
    BY <1>1, <1>2, <2>2 DEF Ping
  <2>3. CASE RefresherStep /\ ~SetPool
    BY <1>2, <2>3 DEF RefresherStep, FetchCreds, NewPool, CloseReturns, Wake
  <2>4. CASE \E h \in Handlers : HandlerStep(h) \/ \E n \in 1..MaxSegments : Request(h, n)
    BY <1>2, <2>4 DEF HandlerStep, Request, GetPool, Acquire, AcquireClosed, AcquireTimeout,
      Release, QueryError
  <2>6. CASE \E h \in Handlers : CreateOrder(h) \/ GetUserReturns(h)
    BY <1>2, <2>6 DEF CreateOrder, GetUserReturns, UserVerified, UserRefused
  <2>5. CASE Signal \/ ShutdownStep \/ DbDown \/ DbBack \/ OpenStream \/ CloseStream
    BY <1>2, <2>5 DEF Signal, ShutdownStep, GracefulStop, ClosePool, Exit, DbDown, DbBack,
      OpenStream, CloseStream
  <2> QED BY <1>2, <2>1, <2>2, <2>3, <2>4, <2>5, <2>6 DEF Next
<1>3. IndInv /\ [Next]_vars
        => [pool # 0 /\ health = "NOT_SERVING" => pool' # 0 /\ health' = "NOT_SERVING"]_vars
  BY <1>2
<1> QED BY <1>3, Invariance, PTL DEF Spec
================================================================================
