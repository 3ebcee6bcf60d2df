---------------------------- MODULE ServiceRuntime ----------------------------
(***************************************************************************)
(* What runs inside one process of the order service (the user service has *)
(* the same main and the same repository lock): request handlers that use  *)
(* the connection pool, the Vault credential refresher that replaces the   *)
(* pool under the repository's mutex, the database health monitor, and the *)
(* graceful shutdown.                                                      *)
(*                                                                         *)
(* A handler is here only what it waits for: CreateOrder for the user      *)
(* service's GetUser, then every handler for its database accesses         *)
(* ("segments"): getPool, acquire a connection, query, release it.  Create *)
(* has one segment, Get and List have two, Cancel has three.  Pools are    *)
(* numbered in the order they are made; 0 is the one main makes.           *)
(***************************************************************************)
EXTENDS Naturals, FiniteSets

CONSTANTS Handlers,
          MaxConns,     \* pgxpool's MaxConns
          MaxPools,     \* bound: rotations of the pool
          UseVault,     \* cfg.UseVault()
          DbFails,      \* the database may be down for a while
          Streams       \* a client may hold a streaming RPC (health Watch) open

ASSUME RuntimeAssumption ==
  /\ MaxConns \in Nat \ {0}
  /\ MaxPools \in Nat
  /\ UseVault \in BOOLEAN /\ DbFails \in BOOLEAN /\ Streams \in BOOLEAN

NoPool == MaxPools + 1
Pools == 0..MaxPools
MaxSegments == 3

VARIABLES
  pool,       \* the repository's pool
  mu,         \* TRUE while SetPool holds the repository's mutex
  made,       \* the last pool made
  closed,     \* pools on which Close was called
  phase,      \* what each handler does next
  todo,       \* segments each handler has left, the present one included
  ptr,        \* the pool a handler got from getPool
  conn,       \* the pool a handler holds a connection of
  result,     \* how a handler's last request ended
  refresher,  \* the refresher goroutine
  old,        \* the pool SetPool is closing
  dbUp,
  health,     \* the gRPC health status
  stream,     \* a client's streaming RPC is open
  main        \* the main goroutine, in shutdown.Graceful

vars == <<pool, mu, made, closed, phase, todo, ptr, conn, result, refresher, old, dbUp,
          health, stream, main>>
handlerVars == <<phase, todo, ptr, conn, result>>

Init ==
  /\ pool = 0 /\ made = 0 /\ closed = {} /\ mu = FALSE
  /\ phase = [h \in Handlers |-> "idle"]
  /\ todo = [h \in Handlers |-> 0]
  /\ ptr = [h \in Handlers |-> NoPool]
  /\ conn = [h \in Handlers |-> NoPool]
  /\ result = [h \in Handlers |-> "none"]
  /\ refresher = IF UseVault THEN "fetch" ELSE "off"   \* it fetches at once
  /\ old = NoPool
  /\ dbUp = TRUE /\ health = "SERVING" /\ stream = FALSE
  /\ main = "serving"

Running == main # "exited"
InUse(p) == Cardinality({h \in Handlers : conn[h] = p})

--------------------------------------------------------------------------------
(* Handlers *)

Finish(h, r) ==
  /\ phase' = [phase EXCEPT ![h] = "idle"]
  /\ todo' = [todo EXCEPT ![h] = 0]
  /\ ptr' = [ptr EXCEPT ![h] = NoPool]
  /\ conn' = [conn EXCEPT ![h] = NoPool]
  /\ result' = [result EXCEPT ![h] = r]

Request(h, n) ==
  /\ main = "serving"
  /\ phase[h] = "idle"
  /\ phase' = [phase EXCEPT ![h] = "getPool"]
  /\ todo' = [todo EXCEPT ![h] = n]
  /\ result' = [result EXCEPT ![h] = "none"]
  /\ UNCHANGED <<pool, mu, made, closed, ptr, conn, refresher, old, dbUp, health, stream, main>>

(* CreateOrder asks the user service first, without a deadline of its own. *)
CreateOrder(h) ==
  /\ main = "serving"
  /\ phase[h] = "idle"
  /\ phase' = [phase EXCEPT ![h] = "verify"]
  /\ todo' = [todo EXCEPT ![h] = 1]
  /\ result' = [result EXCEPT ![h] = "none"]
  /\ UNCHANGED <<pool, mu, made, closed, ptr, conn, refresher, old, dbUp, health, stream, main>>

UserVerified(h) ==
  /\ phase[h] = "verify"
  /\ phase' = [phase EXCEPT ![h] = "getPool"]
  /\ UNCHANGED <<pool, mu, made, closed, todo, ptr, conn, result, refresher, old, dbUp, health,
                 stream, main>>

(* There is no such user, the user service failed, or the caller gave up. *)
UserRefused(h) ==
  /\ phase[h] = "verify"
  /\ Finish(h, "error")
  /\ UNCHANGED <<pool, mu, made, closed, refresher, old, dbUp, health, stream, main>>

(* RLock, read the pointer, RUnlock: blocked while SetPool has the lock. *)
GetPool(h) ==
  /\ phase[h] = "getPool"
  /\ ~mu
  /\ ptr' = [ptr EXCEPT ![h] = pool]
  /\ phase' = [phase EXCEPT ![h] = "acquire"]
  /\ UNCHANGED <<pool, mu, made, closed, todo, conn, result, refresher, old, dbUp, health,
                 stream, main>>

Acquire(h) ==
  /\ phase[h] = "acquire"
  /\ ptr[h] \notin closed
  /\ dbUp
  /\ InUse(ptr[h]) < MaxConns
  /\ conn' = [conn EXCEPT ![h] = ptr[h]]
  /\ phase' = [phase EXCEPT ![h] = "query"]
  /\ UNCHANGED <<pool, mu, made, closed, todo, ptr, result, refresher, old, dbUp, health,
                 stream, main>>

(* The pool was closed after getPool returned it. *)
AcquireClosed(h) ==
  /\ phase[h] = "acquire"
  /\ ptr[h] \in closed
  /\ Finish(h, "closedPool")
  /\ UNCHANGED <<pool, mu, made, closed, refresher, old, dbUp, health, stream, main>>

(* No free connection within the query timeout, or none can be made. *)
AcquireTimeout(h) ==
  /\ phase[h] = "acquire"
  /\ ptr[h] \notin closed
  /\ ~dbUp \/ InUse(ptr[h]) >= MaxConns
  /\ Finish(h, "error")
  /\ UNCHANGED <<pool, mu, made, closed, refresher, old, dbUp, health, stream, main>>

(* Mutant: the rows stay open while the handler goes on to its next segment. *)
ConnAfter_RowsOpen(h) == conn[h]
ConnAfter(h) == NoPool

(* Scan, rows.Close or Commit gives the connection back. *)
Release(h) ==
  /\ phase[h] = "query"
  /\ IF todo[h] = 1
     THEN Finish(h, "ok")
     ELSE /\ todo' = [todo EXCEPT ![h] = todo[h] - 1]
          /\ phase' = [phase EXCEPT ![h] = "getPool"]
          /\ ptr' = [ptr EXCEPT ![h] = NoPool]
          /\ conn' = [conn EXCEPT ![h] = ConnAfter(h)]
          /\ UNCHANGED result
  /\ UNCHANGED <<pool, mu, made, closed, refresher, old, dbUp, health, stream, main>>

(* The query fails or its 10 s timeout expires. *)
QueryError(h) ==
  /\ phase[h] = "query"
  /\ Finish(h, "error")
  /\ UNCHANGED <<pool, mu, made, closed, refresher, old, dbUp, health, stream, main>>

--------------------------------------------------------------------------------
(* StartCredentialRefresher and the callback main gives it *)

FetchCreds ==
  /\ Running
  /\ refresher = "fetch"
  /\ refresher' \in {"newPool", "sleep"}     \* sleep: Vault failed, retry in 30 s
  /\ UNCHANGED <<pool, mu, made, closed, handlerVars, old, dbUp, health, stream, main>>

(* A pool that cannot be made leaves the old one in place until the next turn. *)
NewPool ==
  /\ Running
  /\ refresher = "newPool"
  /\ \/ made < MaxPools /\ made' = made + 1 /\ refresher' = "setPool"
     \/ refresher' = "sleep" /\ UNCHANGED made
  /\ UNCHANGED <<pool, mu, closed, handlerVars, old, dbUp, health, stream, main>>

(* Mutant: SetPool closes nothing. *)
ClosedBySet_None == closed
ClosedBySet == closed \cup {pool}

(* Mutant: pool and old are assigned in the wrong order; the pool is left nil. *)
Installed_Nil == old
Installed == made

(* Lock, swap, and the start of old.Close(), which rejects new acquires. *)
SetPool ==
  /\ Running
  /\ refresher = "setPool"
  /\ ~mu
  /\ mu' = TRUE
  /\ old' = pool
  /\ pool' = Installed
  /\ closed' = ClosedBySet
  /\ refresher' = "closing"
  /\ UNCHANGED <<made, handlerVars, dbUp, health, stream, main>>

(* Mutant: SetPool returns without Unlock. *)
LockedAfter_Forgotten == mu
LockedAfter == FALSE

(* Close returns when every connection was given back; only then Unlock. *)
CloseReturns ==
  /\ Running
  /\ refresher = "closing"
  /\ InUse(old) = 0
  /\ mu' = LockedAfter
  /\ old' = NoPool
  /\ refresher' = "sleep"
  /\ UNCHANGED <<pool, made, closed, handlerVars, dbUp, health, stream, main>>

(* Half the lease (at least 30 s), or 30 s after a failure. *)
Wake ==
  /\ Running
  /\ refresher = "sleep"
  /\ refresher' = "fetch"
  /\ UNCHANGED <<pool, mu, made, closed, handlerVars, old, dbUp, health, stream, main>>

--------------------------------------------------------------------------------
(* monitorDBHealth: it was given the pool main made, and keeps pinging it. *)

(* Mutant: the monitor never sets SERVING again. *)
AfterPing_Kept == health
AfterPing == "SERVING"

(* A ping needs a connection too; it waits 5 s for one. *)
Ping ==
  /\ Running
  /\ \/ /\ 0 \in closed \/ ~dbUp \/ InUse(0) >= MaxConns
        /\ health' = "NOT_SERVING"
     \/ 0 \notin closed /\ dbUp /\ health' = AfterPing
  /\ UNCHANGED <<pool, mu, made, closed, handlerVars, refresher, old, dbUp, stream, main>>

--------------------------------------------------------------------------------
(* shutdown.Graceful: the callbacks in order *)

Signal ==
  /\ main = "serving"
  /\ main' = "draining"
  /\ UNCHANGED <<pool, mu, made, closed, handlerVars, refresher, old, dbUp, health, stream>>

Drained == (\A h \in Handlers : phase[h] = "idle") /\ ~stream

(* GracefulStop waits for every RPC, however long; its context is not used. *)
GracefulStop ==
  /\ main = "draining"
  /\ Drained
  /\ main' = "closePool"
  /\ UNCHANGED <<pool, mu, made, closed, handlerVars, refresher, old, dbUp, health, stream>>

(* The callback closes the pool main made; a second Close does nothing. *)
ClosePool ==
  /\ main = "closePool"
  /\ closed' = closed \cup {0}
  /\ main' = "waitConns"
  /\ UNCHANGED <<pool, mu, made, handlerVars, refresher, old, dbUp, health, stream>>

Exit ==
  /\ main = "waitConns"
  /\ InUse(0) = 0
  /\ main' = "exited"
  /\ UNCHANGED <<pool, mu, made, closed, handlerVars, refresher, old, dbUp, health, stream>>

--------------------------------------------------------------------------------
(* The environment *)

DbDown ==
  /\ DbFails /\ Running /\ dbUp
  /\ dbUp' = FALSE
  /\ UNCHANGED <<pool, mu, made, closed, handlerVars, refresher, old, health, stream, main>>

DbBack ==
  /\ Running /\ ~dbUp
  /\ dbUp' = TRUE
  /\ UNCHANGED <<pool, mu, made, closed, handlerVars, refresher, old, health, stream, main>>

OpenStream ==
  /\ Streams /\ main = "serving" /\ ~stream
  /\ stream' = TRUE
  /\ UNCHANGED <<pool, mu, made, closed, handlerVars, refresher, old, dbUp, health, main>>

CloseStream ==
  /\ Running /\ stream
  /\ stream' = FALSE
  /\ UNCHANGED <<pool, mu, made, closed, handlerVars, refresher, old, dbUp, health, main>>

(* GetUser returns: the user service's doing, or the caller's. *)
GetUserReturns(h) == UserVerified(h) \/ UserRefused(h)

HandlerStep(h) ==
  \/ GetPool(h) \/ Acquire(h) \/ AcquireClosed(h) \/ AcquireTimeout(h)
  \/ Release(h) \/ QueryError(h)

RefresherStep == FetchCreds \/ NewPool \/ SetPool \/ CloseReturns \/ Wake

ShutdownStep == GracefulStop \/ ClosePool \/ Exit

Next ==
  \/ \E h \in Handlers, n \in 1..MaxSegments : Request(h, n)
  \/ \E h \in Handlers : CreateOrder(h) \/ GetUserReturns(h) \/ HandlerStep(h)
  \/ RefresherStep
  \/ Ping
  \/ Signal \/ ShutdownStep
  \/ DbDown \/ DbBack \/ OpenStream \/ CloseStream

Spec == Init /\ [][Next]_vars

(***************************************************************************)
(* The scheduler runs every goroutine that can run, acquire and query have *)
(* timeouts, and the ticker and the sleeps fire.  Nothing makes a signal,  *)
(* a request, the user service's answer, the database's return or a        *)
(* client's hang-up happen.                                                *)
(***************************************************************************)
FairSpec ==
  /\ Spec
  /\ \A h \in Handlers : WF_vars(HandlerStep(h))
  /\ WF_vars(RefresherStep)
  /\ WF_vars(Ping)
  /\ WF_vars(ShutdownStep)

--------------------------------------------------------------------------------
(* Properties *)

(* Every variable holds a value of its type. *)
TypeOK ==
  /\ pool \in Pools /\ made \in Pools /\ closed \subseteq Pools
  /\ mu \in BOOLEAN
  /\ phase \in [Handlers -> {"idle", "verify", "getPool", "acquire", "query"}]
  /\ todo \in [Handlers -> 0..MaxSegments]
  /\ ptr \in [Handlers -> Pools \cup {NoPool}]
  /\ conn \in [Handlers -> Pools \cup {NoPool}]
  /\ result \in [Handlers -> {"none", "ok", "error", "closedPool"}]
  /\ refresher \in {"off", "fetch", "newPool", "setPool", "closing", "sleep"}
  /\ old \in Pools \cup {NoPool}
  /\ dbUp \in BOOLEAN /\ stream \in BOOLEAN
  /\ health \in {"SERVING", "NOT_SERVING"}
  /\ main \in {"serving", "draining", "closePool", "waitConns", "exited"}

(***************************************************************************)
(* While requests are served exactly the repository's pool is open, and    *)
(* the one about to be installed: no sequence of failed fetches, failed    *)
(* newPool calls and swaps leaks a pool or hands out a closed one, so that *)
(* a request failing with "closed pool" took its pointer before the swap.  *)
(***************************************************************************)
OpenPools ==
  main \in {"serving", "draining"} =>
    (0..made) \ closed = {pool} \cup {p \in {made} : refresher = "setPool"}

(* A rotation of the pool ends, under any load: handlers and SetPool never *)
(* wait for each other.                                                    *)
RotationEnds == refresher = "closing" ~> refresher # "closing" \/ main = "exited"

(* Every GetUser that a CreateOrder makes is answered some time. *)
UsersAnswered == \A h \in Handlers : []<>(phase[h] # "verify")

(***************************************************************************)
(* Once signalled, the process exits, unless a client keeps a stream open  *)
(* or the user service leaves a CreateOrder unanswered for good (GetUser   *)
(* has no deadline): nothing else, no pool, lock, rotation, outage or      *)
(* monitor, can make GracefulStop, whose context with the timeout is not   *)
(* used, or a pool's Close wait for ever.                                  *)
(***************************************************************************)
ShutdownEnds == []<>~stream /\ UsersAnswered => (main = "draining" ~> main = "exited")

(***************************************************************************)
(* If the database stays up, the health status keeps coming back to        *)
(* SERVING (plan-phase1.md: NOT_SERVING "on DB failure").                  *)
(***************************************************************************)
HealthRecovers ==
  <>[](dbUp /\ main = "serving") => []<>(health = "SERVING")

(***************************************************************************)
(* The monitor recovers from every outage as long as the pool it was given *)
(* is the repository's and has a connection to spare: rotation, or a load  *)
(* that never leaves one, is all that can make it wrong for good.          *)
(***************************************************************************)
MonitorRecovers ==
  <>[](dbUp /\ main = "serving" /\ pool = 0 /\ InUse(0) < MaxConns)
    => []<>(health = "SERVING")
================================================================================
