----------------------------- MODULE StartupProofs -----------------------------
(***************************************************************************)
(* Proofs about Startup, for every environment and every width of int32.   *)
(* The invariant says what main has opened when it is at a step, what the  *)
(* callbacks have closed, and that an RPC is served only before them.      *)
(***************************************************************************)
EXTENDS Startup, TLAPS

(* main has passed the step that opens the Redis client. *)
PastRedis == {"dial", "tls", "listen", "notify", "wait", "stop"}
PastDial == PastRedis \ {"dial"}
Served == {"notify", "wait", "stop"}

(* Until the first callback, and until main returns, what was opened is open. *)
OpenInv ==
  cb = 0 /\ end # "clean" =>
    /\ pc \in {"migrate", "redis"} \cup PastRedis => repoPool \in held
    /\ pc \in PastRedis /\ env.svc = "order" => "redis" \in held
    /\ pc \in PastDial /\ env.svc = "order" => "userClient" \in held

(* What the callbacks have closed, what the user service never opens, and  *)
(* what main's deferred calls close.                                       *)
ClosedInv ==
  /\ cb > 0 => pc = "stop"
  /\ cb > 3 => "pool" \notin held
  /\ cb > 4 => "redis" \notin held
  /\ env.svc = "user" => /\ pc \notin {"redis", "dial"}
                         /\ "redis" \notin held /\ "userClient" \notin held
  /\ end = "clean" => held \subseteq {"tracer", "meter", "rotated"}

(* RPCs are served by a serving server that nobody has begun to stop. *)
ServeInv ==
  /\ serve # "off" => pc \in Served
  /\ rpc => serve \in {"serving", "failed"} /\ cb = 0 /\ end # "clean"

(* A pool the refresher made is the repository's, and nobody closes it. *)
RotatedInv ==
  /\ "rotated" \in held <=> repoPool = "rotated"
  /\ repoPool = "rotated" => pc \in PastDial

(* Nil credentials come from a CA file without certificate; the order      *)
(* service has got past its client only with a file that had one.          *)
CredsInv ==
  /\ creds = "nil" => caRead.server = "noCert"
  /\ pc \in {"listen"} \cup Served <=> creds # "none"
  /\ pc \in PastDial /\ env.svc = "order" => caRead.client = "ok"

(* Fatal: main before it serves, Serve after GracefulStop, or its listener. *)
FatalInv ==
  end = "fatal" => \/ serve \in {"refused", "failed"} /\ (rpc => serve = "failed")
                   \/ pc # "stop" /\ ~rpc

IndInv ==
  /\ TypeOK /\ OpenInv /\ ClosedInv /\ ServeInv /\ RotatedInv /\ CredsInv /\ FatalInv

(* The conversion to int32 is always in range. *)
LEMMA Int32Range == ASSUME NEW i \in Int PROVE Int32(i) \in Range32
<1>1. Half \in Nat /\ Half > 0
  BY StartupAssumption
<1>2. (i + Half) % (2 * Half) \in 0..(2 * Half - 1)
  BY <1>1
<1> QED
  BY <1>1, <1>2 DEF Int32, Range32

(* The size a process asks for is an integer. *)
LEMMA AskedInt ==
  ASSUME NEW v \in {<<>>} \cup {<<i>> : i \in Ints}
  PROVE  GetEnvInt(v, Default) \in Int
BY StartupAssumption DEF GetEnvInt, Range32

(* What the results of LoadServerConfig say of the CA file it has read. *)
LEMMA LoadedCases ==
  ASSUME files \in Files
  PROVE  (Loaded = "mTLS" => files.ca = "ok") /\ (Loaded = "nil" => files.ca = "noCert")
BY DEF Files, CaContents, Loaded

(* The invariant holds before main has done anything. *)
LEMMA InitInv == Init => IndInv
<1> SUFFICES ASSUME Init PROVE IndInv
  OBVIOUS
<1>1. 0 \in Range32
  BY StartupAssumption DEF Range32
<1>2. Len(Callbacks) \in Nat
  BY DEF Callbacks, UserCallbacks, OrderCallbacks
<1>3. TypeOK
  <2>1. /\ env \in Environments /\ pc = "config" /\ size \in Range32 /\ held = {}
        /\ creds = "none" /\ serve = "off" /\ metrics = "off" /\ end = "none"
        /\ cb \in 0..Len(Callbacks)
    BY <1>1, <1>2 DEF Init
  <2>2. rpc \in BOOLEAN
    BY Zenon DEF Init
  <2>3. /\ files \in Files /\ repoPool = "pool"
        /\ caRead \in [client : CaFound, server : CaFound]
    BY DEF Init, CaFound
  <2> QED
    BY <2>1, <2>2, <2>3 DEF TypeOK
<1> QED
  BY <1>3 DEF Init, IndInv, OpenInv, ClosedInv, ServeInv, RotatedInv, CredsInv,
              FatalInv, PastRedis, PastDial, Served

(* Every step of main, of its goroutines and of the shutdown keeps it. *)
LEMMA StepInv == IndInv /\ [Next]_vars => IndInv'
<1> SUFFICES ASSUME IndInv, [Next]_vars PROVE IndInv'
  OBVIOUS
<1> USE DEF At, Alive
<1>1. CASE LoadConfig
  <2>1. TypeOK'
    <3>1. size' \in Range32
      BY <1>1, AskedInt, Int32Range DEF LoadConfig, IndInv, TypeOK, Environments
    <3> QED
      BY <1>1, <3>1 DEF IndInv, TypeOK, Callbacks, LoadConfig, Goto
  <2>2. OpenInv' /\ ClosedInv'
    BY <1>1 DEF IndInv, TypeOK, OpenInv, ClosedInv, PastRedis, PastDial, LoadConfig, Goto
  <2>3. ServeInv' /\ FatalInv'
    BY <1>1 DEF IndInv, ServeInv, ClosedInv, FatalInv, Served, LoadConfig, Goto
  <2>4. RotatedInv'
    BY <1>1 DEF IndInv, RotatedInv, PastRedis, PastDial, LoadConfig, Goto
  <2>5. CredsInv'
    BY <1>1 DEF IndInv, CredsInv, PastRedis, PastDial, Served, LoadConfig,
       Goto
  <2> QED
    BY <2>1, <2>2, <2>3, <2>4, <2>5 DEF IndInv
<1>2. CASE NewOTel
  <2>1. TypeOK'
    <3>1. held' \subseteq {"tracer", "meter", "pool", "rotated", "redis", "userClient"}
      BY <1>2 DEF IndInv, TypeOK, NewOTel
    <3> QED
      BY <1>2, <3>1 DEF IndInv, TypeOK, Callbacks, NewOTel, Goto, Fatal
  <2>2. OpenInv' /\ ClosedInv'
    BY <1>2 DEF IndInv, TypeOK, OpenInv, ClosedInv, PastRedis, PastDial, NewOTel, Goto,
       Fatal
  <2>3. ServeInv' /\ FatalInv'
    BY <1>2 DEF IndInv, ServeInv, ClosedInv, FatalInv, Served, NewOTel, Goto, Fatal
  <2>4. RotatedInv'
    BY <1>2 DEF IndInv, RotatedInv, PastRedis, PastDial, NewOTel, Goto, Fatal
  <2>5. CredsInv'
    BY <1>2 DEF IndInv, CredsInv, PastRedis, PastDial, Served, NewOTel,
       Goto, Fatal
  <2> QED
    BY <2>1, <2>2, <2>3, <2>4, <2>5 DEF IndInv
<1>3. CASE FetchCreds
  <2>1. TypeOK'
    BY <1>3 DEF IndInv, TypeOK, Callbacks, FetchCreds, Goto, Fatal
  <2>2. OpenInv' /\ ClosedInv'
    BY <1>3 DEF IndInv, TypeOK, OpenInv, ClosedInv, PastRedis, PastDial, FetchCreds, Goto,
       Fatal
  <2>3. ServeInv' /\ FatalInv'
    BY <1>3 DEF IndInv, ServeInv, ClosedInv, FatalInv, Served, FetchCreds, Goto, Fatal
  <2>4. RotatedInv'
    BY <1>3 DEF IndInv, RotatedInv, PastRedis, PastDial, FetchCreds, Goto, Fatal
  <2>5. CredsInv'
    BY <1>3 DEF IndInv, CredsInv, PastRedis, PastDial, Served, FetchCreds,
       Goto, Fatal
  <2> QED
    BY <2>1, <2>2, <2>3, <2>4, <2>5 DEF IndInv
<1>4. CASE NewPool
  <2>1. TypeOK'
    <3>1. held' \subseteq {"tracer", "meter", "pool", "rotated", "redis", "userClient"}
      BY <1>4 DEF IndInv, TypeOK, NewPool
    <3> QED
      BY <1>4, <3>1 DEF IndInv, TypeOK, Callbacks, NewPool, Goto, Fatal
  <2>2. OpenInv' /\ ClosedInv'
    BY <1>4 DEF IndInv, TypeOK, OpenInv, ClosedInv, RotatedInv, PastRedis, PastDial, NewPool,
       PoolRefuses, Goto, Fatal
  <2>3. ServeInv' /\ FatalInv'
    BY <1>4 DEF IndInv, ServeInv, ClosedInv, FatalInv, Served, NewPool, PoolRefuses, Goto,
       Fatal
  <2>4. RotatedInv'
    BY <1>4 DEF IndInv, RotatedInv, PastRedis, PastDial, TypeOK, NewPool, Goto, Fatal
  <2>5. CredsInv'
    BY <1>4 DEF IndInv, CredsInv, PastRedis, PastDial, Served, NewPool,
       PoolRefuses, Goto, Fatal
  <2> QED
    BY <2>1, <2>2, <2>3, <2>4, <2>5 DEF IndInv
<1>5. CASE MigrateUp
  <2>1. TypeOK'
    BY <1>5 DEF IndInv, TypeOK, Callbacks, MigrateUp, Goto, Fatal
  <2>2. OpenInv' /\ ClosedInv'
    BY <1>5 DEF IndInv, TypeOK, OpenInv, ClosedInv, PastRedis, PastDial, MigrateUp, Goto,
       Fatal
  <2>3. ServeInv' /\ FatalInv'
    BY <1>5 DEF IndInv, ServeInv, ClosedInv, FatalInv, Served, MigrateUp, Goto, Fatal
  <2>4. RotatedInv'
    BY <1>5 DEF IndInv, RotatedInv, PastRedis, PastDial, MigrateUp, Goto, Fatal
  <2>5. CredsInv'
    BY <1>5 DEF IndInv, CredsInv, PastRedis, PastDial, Served, MigrateUp,
       Goto, Fatal
  <2> QED
    BY <2>1, <2>2, <2>3, <2>4, <2>5 DEF IndInv
<1>6. CASE OpenRedis
  <2>1. TypeOK'
    <3>1. held' \subseteq {"tracer", "meter", "pool", "rotated", "redis", "userClient"}
      BY <1>6 DEF IndInv, TypeOK, OpenRedis
    <3> QED
      BY <1>6, <3>1 DEF IndInv, TypeOK, Callbacks, OpenRedis, Goto, Fatal
  <2>2. OpenInv' /\ ClosedInv'
    BY <1>6 DEF IndInv, TypeOK, OpenInv, ClosedInv, PastRedis, PastDial, OpenRedis, Goto,
       Fatal
  <2>3. ServeInv' /\ FatalInv'
    BY <1>6 DEF IndInv, ServeInv, ClosedInv, FatalInv, Served, OpenRedis, Goto, Fatal
  <2>4. RotatedInv'
    BY <1>6 DEF IndInv, RotatedInv, PastRedis, PastDial, OpenRedis, Goto, Fatal
  <2>5. CredsInv'
    BY <1>6 DEF IndInv, CredsInv, PastRedis, PastDial, Served, OpenRedis,
       Goto, Fatal
  <2> QED
    BY <2>1, <2>2, <2>3, <2>4, <2>5 DEF IndInv
<1>7. CASE NewUserClient
  <2>1. TypeOK'
    <3>1. files.ca \in CaContents
      BY DEF IndInv, TypeOK, Files
    <3>2. caRead' \in [client : CaFound, server : CaFound]
      BY <1>7, <3>1 DEF IndInv, TypeOK, CaFound, NewUserClient
    <3>3. held' \subseteq {"tracer", "meter", "pool", "rotated", "redis", "userClient"}
      BY <1>7 DEF IndInv, TypeOK, NewUserClient
    <3> QED
      BY <1>7, <3>2, <3>3 DEF IndInv, TypeOK, Callbacks, NewUserClient, Goto, Fatal
  <2>2. OpenInv' /\ ClosedInv'
    BY <1>7 DEF IndInv, TypeOK, OpenInv, ClosedInv, PastRedis, PastDial, NewUserClient,
       LoadClientConfig, Goto, Fatal
  <2>3. ServeInv' /\ FatalInv'
    BY <1>7 DEF IndInv, ServeInv, ClosedInv, FatalInv, Served, NewUserClient,
       LoadClientConfig, Goto, Fatal
  <2>4. RotatedInv'
    BY <1>7 DEF IndInv, RotatedInv, PastRedis, PastDial, NewUserClient, LoadClientConfig,
       Goto, Fatal
  <2>5. CredsInv'
    <3>1. pc' = "tls" => caRead'.client = "ok"
      BY <1>7, LoadedCases DEF IndInv, TypeOK, CaFound, NewUserClient, LoadClientConfig, Fatal
    <3> QED
      BY <1>7, <3>1 DEF IndInv, TypeOK, CredsInv, PastRedis, PastDial, Served, NewUserClient,
         Goto, Fatal
  <2> QED
    BY <2>1, <2>2, <2>3, <2>4, <2>5 DEF IndInv
<1>8. CASE LoadServerConfig
  <2>1. TypeOK'
    <3>1. files.ca \in CaContents
      BY DEF IndInv, TypeOK, Files
    <3>2. caRead' \in [client : CaFound, server : CaFound]
      BY <1>8, <3>1 DEF IndInv, TypeOK, CaFound, LoadServerConfig
    <3> QED
      BY <1>8, <3>2 DEF IndInv, TypeOK, Callbacks, Loaded, LoadServerConfig, Goto, Fatal
  <2>2. OpenInv' /\ ClosedInv'
    BY <1>8 DEF IndInv, TypeOK, OpenInv, ClosedInv, PastRedis, PastDial, LoadServerConfig,
       Goto, Fatal
  <2>3. ServeInv' /\ FatalInv'
    BY <1>8 DEF IndInv, ServeInv, ClosedInv, FatalInv, Served, LoadServerConfig, Goto, Fatal
  <2>4. RotatedInv'
    BY <1>8 DEF IndInv, RotatedInv, PastRedis, PastDial, LoadServerConfig, Goto, Fatal
  <2>5. CredsInv'
    <3>1. /\ caRead'.server = files.ca /\ caRead'.client = caRead.client
          /\ creds = "none"
      BY <1>8 DEF IndInv, TypeOK, CredsInv, Served, LoadServerConfig
    <3>2. creds' = "nil" => caRead'.server = "noCert"
      BY <1>8, <3>1, LoadedCases DEF IndInv, TypeOK, LoadServerConfig
    <3>3. pc' \in {"listen"} \cup Served <=> creds' # "none"
      BY <1>8, <3>1 DEF Loaded, LoadServerConfig, Goto, Fatal, Served
    <3>4. env'.svc = "order" => caRead'.client = "ok"
      BY <1>8, <3>1 DEF IndInv, CredsInv, PastRedis, PastDial, LoadServerConfig
    <3> QED
      BY <3>2, <3>3, <3>4 DEF CredsInv
  <2> QED
    BY <2>1, <2>2, <2>3, <2>4, <2>5 DEF IndInv
<1>9. CASE Listen
  <2>1. TypeOK'
    BY <1>9 DEF IndInv, TypeOK, Callbacks, Listen, Goto, Fatal
  <2>2. OpenInv' /\ ClosedInv'
    BY <1>9 DEF IndInv, TypeOK, OpenInv, ClosedInv, PastRedis, PastDial, Listen, Goto, Fatal
  <2>3. ServeInv' /\ FatalInv'
    BY <1>9 DEF IndInv, ServeInv, ClosedInv, FatalInv, Served, Listen, Goto, Fatal
  <2>4. RotatedInv'
    BY <1>9 DEF IndInv, RotatedInv, PastRedis, PastDial, Listen, Goto, Fatal
  <2>5. CredsInv'
    BY <1>9 DEF IndInv, CredsInv, PastRedis, PastDial, Served, Listen,
       Goto, Fatal
  <2> QED
    BY <2>1, <2>2, <2>3, <2>4, <2>5 DEF IndInv
<1>10. CASE Notify
  <2>1. TypeOK'
    BY <1>10 DEF IndInv, TypeOK, Callbacks, Notify, Goto
  <2>2. OpenInv' /\ ClosedInv'
    BY <1>10 DEF IndInv, TypeOK, OpenInv, ClosedInv, PastRedis, PastDial, Notify, Goto
  <2>3. ServeInv' /\ FatalInv'
    BY <1>10 DEF IndInv, ServeInv, ClosedInv, FatalInv, Served, Notify, Goto
  <2>4. RotatedInv'
    BY <1>10 DEF IndInv, RotatedInv, PastRedis, PastDial, Notify, Goto
  <2>5. CredsInv'
    BY <1>10 DEF IndInv, CredsInv, PastRedis, PastDial, Served, Notify,
       Goto
  <2> QED
    BY <2>1, <2>2, <2>3, <2>4, <2>5 DEF IndInv
<1>11. CASE RunCallback
  <2>1. TypeOK'
    BY <1>11 DEF IndInv, TypeOK, Callbacks, UserCallbacks, OrderCallbacks, RunCallback
  <2>2. OpenInv' /\ ClosedInv'
    BY <1>11 DEF IndInv, TypeOK, OpenInv, ClosedInv, PastRedis, PastDial, Callbacks,
       UserCallbacks, OrderCallbacks, RunCallback
  <2>3. ServeInv' /\ FatalInv'
    BY <1>11 DEF IndInv, ServeInv, ClosedInv, FatalInv, Served, TypeOK, Callbacks,
       UserCallbacks, OrderCallbacks, RunCallback
  <2>4. RotatedInv'
    <3>1. PICK c \in {"grpc", "otel", "metrics", "pool", "redis"} :
            \E closed \in SUBSET {"tracer", "meter", c} : held' = held \ closed
      BY <1>11 DEF RunCallback, Callbacks, UserCallbacks, OrderCallbacks, IndInv, TypeOK
    <3>2. "rotated" \in held' <=> "rotated" \in held
      BY <3>1
    <3> QED
      BY <1>11, <3>2 DEF IndInv, RotatedInv, RunCallback
  <2>5. CredsInv'
    BY <1>11 DEF IndInv, CredsInv, PastRedis, PastDial, Served,
       RunCallback
  <2> QED
    BY <2>1, <2>2, <2>3, <2>4, <2>5 DEF IndInv
<1>12. CASE Return
  <2>1. TypeOK'
    BY <1>12 DEF IndInv, TypeOK, Callbacks, Return
  <2>2. OpenInv' /\ ClosedInv'
    BY <1>12 DEF IndInv, TypeOK, OpenInv, ClosedInv, PastRedis, PastDial, Callbacks,
       UserCallbacks, OrderCallbacks, Return
  <2>3. ServeInv' /\ FatalInv'
    BY <1>12 DEF IndInv, ServeInv, ClosedInv, FatalInv, Served, Callbacks, UserCallbacks,
       OrderCallbacks, Return
  <2>4. RotatedInv'
    BY <1>12 DEF IndInv, RotatedInv, PastRedis, PastDial, Return
  <2>5. CredsInv'
    BY <1>12 DEF IndInv, CredsInv, PastRedis, PastDial, Served, Return
  <2> QED
    BY <2>1, <2>2, <2>3, <2>4, <2>5 DEF IndInv
<1>13. CASE Serve
  <2>1. TypeOK'
    BY <1>13 DEF IndInv, TypeOK, Callbacks, Serve
  <2>2. OpenInv' /\ ClosedInv'
    BY <1>13 DEF IndInv, TypeOK, OpenInv, ClosedInv, PastRedis, PastDial, Serve
  <2>3. ServeInv' /\ FatalInv'
    BY <1>13 DEF IndInv, ServeInv, ClosedInv, FatalInv, Served, Serve
  <2>4. RotatedInv'
    BY <1>13 DEF IndInv, RotatedInv, PastRedis, PastDial, Serve
  <2>5. CredsInv'
    BY <1>13 DEF IndInv, CredsInv, PastRedis, PastDial, Served, Serve
  <2> QED
    BY <2>1, <2>2, <2>3, <2>4, <2>5 DEF IndInv
<1>14. CASE AcceptFails
  <2>1. TypeOK'
    BY <1>14 DEF IndInv, TypeOK, Callbacks, AcceptFails
  <2>2. OpenInv' /\ ClosedInv'
    BY <1>14 DEF IndInv, TypeOK, OpenInv, ClosedInv, PastRedis, PastDial, AcceptFails
  <2>3. ServeInv' /\ FatalInv'
    BY <1>14 DEF IndInv, ServeInv, ClosedInv, FatalInv, Served, AcceptFails
  <2>4. RotatedInv'
    BY <1>14 DEF IndInv, RotatedInv, PastRedis, PastDial, AcceptFails
  <2>5. CredsInv'
    BY <1>14 DEF IndInv, CredsInv, PastRedis, PastDial, Served,
       AcceptFails
  <2> QED
    BY <2>1, <2>2, <2>3, <2>4, <2>5 DEF IndInv
<1>15. CASE ServeMetrics
  <2>1. TypeOK'
    BY <1>15 DEF IndInv, TypeOK, Callbacks, ServeMetrics
  <2>2. OpenInv' /\ ClosedInv'
    BY <1>15 DEF IndInv, TypeOK, OpenInv, ClosedInv, PastRedis, PastDial, ServeMetrics
  <2>3. ServeInv' /\ FatalInv'
    BY <1>15 DEF IndInv, ServeInv, ClosedInv, FatalInv, Served, ServeMetrics
  <2>4. RotatedInv'
    BY <1>15 DEF IndInv, RotatedInv, PastRedis, PastDial, ServeMetrics
  <2>5. CredsInv'
    BY <1>15 DEF IndInv, CredsInv, PastRedis, PastDial, Served,
       ServeMetrics
  <2> QED
    BY <2>1, <2>2, <2>3, <2>4, <2>5 DEF IndInv
<1>16. CASE StartRpc
  <2>1. TypeOK'
    BY <1>16 DEF IndInv, TypeOK, Callbacks, StartRpc
  <2>2. OpenInv' /\ ClosedInv'
    BY <1>16 DEF IndInv, TypeOK, OpenInv, ClosedInv, PastRedis, PastDial, StartRpc
  <2>3. ServeInv' /\ FatalInv'
    BY <1>16 DEF IndInv, ServeInv, ClosedInv, FatalInv, Served, StartRpc
  <2>4. RotatedInv'
    BY <1>16 DEF IndInv, RotatedInv, PastRedis, PastDial, StartRpc
  <2>5. CredsInv'
    BY <1>16 DEF IndInv, CredsInv, PastRedis, PastDial, Served, StartRpc
  <2> QED
    BY <2>1, <2>2, <2>3, <2>4, <2>5 DEF IndInv
<1>17. CASE EndRpc
  <2>1. TypeOK'
    <3>1. /\ UNCHANGED <<env, files, caRead, repoPool, pc, size, held, creds, serve, metrics,
                        cb, end>>
          /\ rpc' \in BOOLEAN
      BY <1>17 DEF EndRpc
    <3>2. TypeOK
      BY DEF IndInv
    <3> QED BY <3>1, <3>2 DEF TypeOK, Callbacks
  <2>2. OpenInv' /\ ClosedInv'
    BY <1>17 DEF IndInv, TypeOK, OpenInv, ClosedInv, PastRedis, PastDial, EndRpc
  <2>3. ServeInv' /\ FatalInv'
    BY <1>17 DEF IndInv, ServeInv, ClosedInv, FatalInv, Served, EndRpc
  <2>4. RotatedInv'
    BY <1>17 DEF IndInv, RotatedInv, PastRedis, PastDial, EndRpc
  <2>5. CredsInv'
    BY <1>17 DEF IndInv, CredsInv, PastRedis, PastDial, Served, EndRpc
  <2> QED
    BY <2>1, <2>2, <2>3, <2>4, <2>5 DEF IndInv
<1>18. CASE PoolTickerPanics
  <2>1. TypeOK'
    BY <1>18 DEF IndInv, TypeOK, Callbacks, PoolTickerPanics
  <2>2. OpenInv' /\ ClosedInv'
    BY <1>18 DEF IndInv, TypeOK, OpenInv, ClosedInv, PastRedis, PastDial, PoolTickerPanics
  <2>3. ServeInv' /\ FatalInv'
    BY <1>18 DEF IndInv, ServeInv, ClosedInv, FatalInv, Served, PoolTickerPanics
  <2>4. RotatedInv'
    BY <1>18 DEF IndInv, RotatedInv, PastRedis, PastDial, PoolTickerPanics
  <2>5. CredsInv'
    BY <1>18 DEF IndInv, CredsInv, PastRedis, PastDial, Served,
       PoolTickerPanics
  <2> QED
    BY <2>1, <2>2, <2>3, <2>4, <2>5 DEF IndInv
<1>19. CASE Signal
  <2>1. TypeOK'
    BY <1>19 DEF IndInv, TypeOK, Callbacks, Signal, Goto
  <2>2. OpenInv' /\ ClosedInv'
    BY <1>19 DEF IndInv, TypeOK, OpenInv, ClosedInv, PastRedis, PastDial, Signal, Goto
  <2>3. ServeInv' /\ FatalInv'
    BY <1>19 DEF IndInv, ServeInv, ClosedInv, FatalInv, Served, Signal, Goto
  <2>4. RotatedInv'
    BY <1>19 DEF IndInv, RotatedInv, PastRedis, PastDial, Signal, Goto
  <2>5. CredsInv'
    BY <1>19 DEF IndInv, CredsInv, PastRedis, PastDial, Served, Signal,
       Goto
  <2> QED
    BY <2>1, <2>2, <2>3, <2>4, <2>5 DEF IndInv
<1>20. CASE RotatePool
  <2>1. TypeOK'
    BY <1>20 DEF IndInv, TypeOK, Callbacks, RotatePool
  <2>2. OpenInv' /\ ClosedInv'
    BY <1>20 DEF IndInv, TypeOK, OpenInv, ClosedInv, PastRedis, PastDial, RotatePool
  <2>3. ServeInv' /\ FatalInv'
    BY <1>20 DEF IndInv, ServeInv, FatalInv, RotatePool
  <2>4. RotatedInv'
    BY <1>20 DEF IndInv, RotatedInv, PastRedis, PastDial, RotatePool, RefresherRuns
  <2>5. CredsInv'
    BY <1>20 DEF IndInv, CredsInv, PastRedis, PastDial, Served, RotatePool
  <2> QED
    BY <2>1, <2>2, <2>3, <2>4, <2>5 DEF IndInv
<1>21. CASE ReplaceFiles
  <2>1. TypeOK'
    BY <1>21 DEF IndInv, TypeOK, Callbacks, ReplaceFiles
  <2>2. OpenInv' /\ ClosedInv'
    BY <1>21 DEF IndInv, OpenInv, ClosedInv, PastRedis, PastDial, ReplaceFiles
  <2>3. ServeInv' /\ FatalInv'
    BY <1>21 DEF IndInv, ServeInv, FatalInv, ReplaceFiles
  <2>4. RotatedInv'
    BY <1>21 DEF IndInv, RotatedInv, PastRedis, PastDial, ReplaceFiles
  <2>5. CredsInv'
    BY <1>21 DEF IndInv, CredsInv, PastRedis, PastDial, Served, ReplaceFiles
  <2> QED
    BY <2>1, <2>2, <2>3, <2>4, <2>5 DEF IndInv
<1>22. CASE UNCHANGED vars
    BY <1>22 DEF IndInv, TypeOK, OpenInv, ClosedInv, ServeInv, RotatedInv, CredsInv, FatalInv, Callbacks, Loaded, vars
<1> QED
    BY <1>1, <1>2, <1>3, <1>4, <1>5, <1>6, <1>7, <1>8, <1>9, <1>10, <1>11, <1>12, <1>13,
       <1>14, <1>15, <1>16, <1>17, <1>18, <1>19, <1>20, <1>21,
       <1>22 DEF Next, MainStep

(* The invariant holds in every state of a process. *)
THEOREM StartupInvariant == Spec => []IndInv
<1>1. Init => IndInv
  BY InitInv
<1>2. IndInv /\ [Next]_vars => IndInv'
  BY StepInv
<1> QED
  BY <1>1, <1>2, PTL DEF Spec

(* Every variable of a starting process keeps its type. *)
THEOREM StartupTypeCorrect == Spec => []TypeOK
<1>1. IndInv => TypeOK
  BY DEF IndInv
<1> QED
  BY <1>1, StartupInvariant, PTL

(* While an RPC is served the repository's pool, the cache and the client  *)
(* are open, however often the pool was rotated.                           *)
THEOREM RpcsHaveResources == Spec => []RpcHasResources
<1>1. IndInv => RpcHasResources
  BY DEF IndInv, TypeOK, OpenInv, ServeInv, RpcHasResources, PastRedis, PastDial, Served
<1> QED
  BY <1>1, StartupInvariant, PTL

(* Plaintext is served only after LoadServerConfig found no certificate in *)
(* the CA file; by the order service only if the file was replaced between *)
(* its two reads.                                                          *)
THEOREM PlaintextExplained == Spec => []PlaintextCause
<1>1. IndInv => PlaintextCause
  BY DEF IndInv, TypeOK, ServeInv, CredsInv, PlaintextCause, PastRedis, PastDial, Served
<1> QED
  BY <1>1, StartupInvariant, PTL

(* How a process ends: cleanly, with no RPC cut and everything closed but  *)
(* the telemetry and a rotated pool, or for one of the named causes.       *)
THEOREM EndsExplained == Spec => []EndCause
<1>1. IndInv => EndCause
  BY DEF IndInv, TypeOK, ClosedInv, RotatedInv, ServeInv, FatalInv, EndCause
<1> QED
  BY <1>1, StartupInvariant, PTL
================================================================================
