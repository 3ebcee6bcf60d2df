-------------------------------- MODULE Startup --------------------------------
(***************************************************************************)
(* main of both services: configuration, the steps up to Serve, the        *)
(* goroutines it leaves behind and the callbacks of shutdown.Graceful.     *)
(* Every failing step ends in logger.Fatal, which exits without running    *)
(* deferred calls.  The certificate files may be replaced while main reads *)
(* them.  How the refresher swaps the pool is ServiceRuntime's; here a     *)
(* rotation is one step, for what it leaves open.                          *)
(***************************************************************************)
EXTENDS Integers, Sequences

CONSTANTS Ints,      \* values the *_MAX_CONNS variable may parse to
          Half,      \* 2^31: half the number of int32 values
          Default    \* the fallback of DB_POOL_MAX_CONNS

Range32 == -Half .. Half - 1

ASSUME StartupAssumption ==
  /\ Half \in Nat \ {0} /\ Default \in Range32 /\ Default > 0
  /\ Ints \subseteq Int

(* What the process finds in its environment. *)
Environments ==
  [svc : {"user", "order"},
   addr : BOOLEAN,                          \* VAULT_ADDR is set
   token : BOOLEAN,                         \* VAULT_TOKEN is set
   tokenFile : {"unset", "unusable", "text"},   \* unusable: cannot be read, or blank
   vault : {"up", "down"},
   maxConns : {<<>>} \cup {<<i>> : i \in Ints},   \* <<>>: unset, or no integer
   period : {"positive", "other"},          \* DB_POOL_HEALTH_CHECK_PERIOD
   redis : {"up", "down", "badURL"}]

(* The service's key pair and the CA file; noCert: no PEM certificate in it. *)
CaContents == {"ok", "missing", "noCert"}
Files == [cert : {"ok", "bad"}, ca : CaContents]
CaFound == {"none"} \cup CaContents

VARIABLES
  env,
  files,     \* the certificate files' present contents
  caRead,    \* history: what the client and the server found in the CA file
  pc,        \* main's next step
  size,      \* cfg.DBPoolMaxConns
  held,      \* what the process has opened and not closed
  repoPool,  \* the repository's pool: the first one, or one made by the refresher
  creds,     \* the server's transport credentials: "none", "nil" or "mTLS"
  serve,     \* the goroutine of grpcServer.Serve
  metrics,   \* the goroutine of the metrics server
  rpc,       \* an RPC is being served
  cb,        \* callbacks done
  end        \* how the process ended

vars == <<env, files, caRead, pc, size, held, repoPool, creds, serve, metrics, rpc, cb, end>>

Init ==
  /\ env \in Environments /\ files \in Files
  /\ caRead = [client |-> "none", server |-> "none"]
  /\ pc = "config" /\ size = 0 /\ held = {} /\ repoPool = "pool" /\ creds = "none"
  /\ serve = "off" /\ metrics = "off" /\ rpc = FALSE /\ cb = 0 /\ end = "none"

Alive == end = "none"
At(step) == Alive /\ pc = step
Fatal == end' = "fatal" /\ UNCHANGED pc
Goto(step) == pc' = step /\ UNCHANGED end

--------------------------------------------------------------------------------
(* Configuration *)

(* Mutant: the size is kept in an int. *)
Int32_NoWrap(i) == i
Int32(i) == ((i + Half) % (2 * Half)) - Half

GetEnvInt(v, fallback) == IF v = <<>> THEN fallback ELSE v[1]

(* A token file that cannot be used is no error: there is no token then, *)
(* and without one the static credentials are used.                       *)
LoadVaultToken == env.token \/ env.tokenFile = "text"
UseVault == env.addr /\ LoadVaultToken

LoadConfig ==
  /\ At("config")
  /\ size' = Int32(GetEnvInt(env.maxConns, Default))
  /\ Goto("otel")
  /\ UNCHANGED <<env, files, caRead, repoPool, held, creds, serve, metrics, rpc, cb>>

--------------------------------------------------------------------------------
(* main, up to Serve *)

(* The exporter connects later: New fails only on its options. *)
NewOTel ==
  /\ At("otel")
  /\ \/ Goto("vault") /\ held' = held \cup {"tracer", "meter"}
     \/ Fatal /\ UNCHANGED held
  /\ UNCHANGED <<env, files, caRead, repoPool, size, creds, serve, metrics, rpc, cb>>

FetchCreds ==
  /\ At("vault")
  /\ IF UseVault /\ env.vault = "down" THEN Fatal ELSE Goto("pool")
  /\ UNCHANGED <<env, files, caRead, repoPool, size, held, creds, serve, metrics, rpc, cb>>

(* pgxpool refuses a pool without connections; it does not connect yet. *)
PoolRefuses == size < 1

(* ParseConfig may refuse the URL. *)
NewPool ==
  /\ At("pool")
  /\ \/ ~PoolRefuses /\ Goto("migrate") /\ held' = held \cup {"pool"}
     \/ Fatal /\ UNCHANGED held
  /\ UNCHANGED <<env, files, caRead, repoPool, size, creds, serve, metrics, rpc, cb>>

MigrateUp ==
  /\ At("migrate")
  /\ \/ Goto(IF env.svc = "order" THEN "redis" ELSE "tls")
     \/ Fatal
  /\ UNCHANGED <<env, files, caRead, repoPool, size, held, creds, serve, metrics, rpc, cb>>

(* A Redis that does not answer the ping is only warned about. *)
OpenRedis ==
  /\ At("redis")
  /\ IF env.redis = "badURL" THEN Fatal /\ UNCHANGED held
                             ELSE Goto("dial") /\ held' = held \cup {"redis"}
  /\ UNCHANGED <<env, files, caRead, repoPool, size, creds, serve, metrics, rpc, cb>>

(* Mutant: a CA file that cannot be read is treated like an empty one. *)
Loaded_NoCA == IF files.cert = "bad" THEN "error" ELSE IF files.ca = "ok" THEN "mTLS" ELSE "nil"
(* What LoadServerConfig returns; "nil" comes without an error. *)
Loaded ==
  CASE files.cert = "bad" \/ files.ca = "missing" -> "error"
    [] files.cert = "ok" /\ files.ca = "noCert"   -> "nil"
    [] OTHER                                      -> "mTLS"

(* LoadClientConfig does the same for the client's certificate; Dial       *)
(* refuses nil credentials.                                                *)
LoadClientConfig == Loaded

NewUserClient ==
  /\ At("dial")
  /\ caRead' = [caRead EXCEPT !.client = files.ca]
  /\ IF LoadClientConfig = "mTLS"
     THEN Goto("tls") /\ held' = held \cup {"userClient"}
     ELSE Fatal /\ UNCHANGED held
  /\ UNCHANGED <<env, files, repoPool, size, creds, serve, metrics, rpc, cb>>

(* The files are read again; the server takes nil for no security. *)
LoadServerConfig ==
  /\ At("tls")
  /\ caRead' = [caRead EXCEPT !.server = files.ca]
  /\ IF Loaded = "error" THEN Fatal /\ UNCHANGED <<creds, metrics>>
     ELSE Goto("listen") /\ creds' = Loaded /\ metrics' = "spawned"
  /\ UNCHANGED <<env, files, repoPool, size, held, serve, rpc, cb>>

(* Certificates are renewed, the files rewritten one after the other and   *)
(* not at once.  Nothing reads them after LoadServerConfig.                *)
ReplaceFiles ==
  /\ Alive /\ caRead.server = "none"
  /\ files' \in Files
  /\ UNCHANGED <<env, caRead, repoPool, pc, size, held, creds, serve, metrics, rpc, cb, end>>

(* The port may be taken. *)
Listen ==
  /\ At("listen")
  /\ \/ Goto("notify") /\ serve' = "spawned"
     \/ Fatal /\ UNCHANGED serve
  /\ UNCHANGED <<env, files, caRead, repoPool, size, held, creds, metrics, rpc, cb>>

Notify ==
  /\ At("notify")
  /\ Goto("wait")
  /\ UNCHANGED <<env, files, caRead, repoPool, size, held, creds, serve, metrics, rpc, cb>>

--------------------------------------------------------------------------------
(* Goroutines *)

(* Serve on a stopped server returns an error, and that is Fatal. *)
Serve ==
  /\ Alive /\ serve = "spawned"
  /\ IF cb = 0 THEN serve' = "serving" /\ UNCHANGED end
               ELSE serve' = "refused" /\ end' = "fatal"
  /\ UNCHANGED <<env, files, caRead, repoPool, pc, size, held, creds, metrics, rpc, cb>>

AcceptFails ==
  /\ Alive /\ serve = "serving" /\ cb = 0
  /\ serve' = "failed" /\ end' = "fatal"
  /\ UNCHANGED <<env, files, caRead, repoPool, pc, size, held, creds, metrics, rpc, cb>>

(* The metrics server's error is only warned about. *)
ServeMetrics ==
  /\ Alive /\ metrics = "spawned"
  /\ metrics' \in {"serving", "failed"}
  /\ UNCHANGED <<env, files, caRead, repoPool, pc, size, held, creds, serve, rpc, cb, end>>

StartRpc ==
  /\ Alive /\ serve = "serving" /\ cb = 0 /\ ~rpc
  /\ rpc' = TRUE
  /\ UNCHANGED <<env, files, caRead, repoPool, pc, size, held, creds, serve, metrics, cb, end>>

EndRpc ==
  /\ Alive /\ rpc
  /\ rpc' = FALSE
  /\ UNCHANGED <<env, files, caRead, repoPool, pc, size, held, creds, serve, metrics, cb, end>>

RefresherRuns == UseVault /\ pc \in {"tls", "listen", "notify", "wait", "stop"}

(* The refresher, started just before LoadServerConfig, puts a pool of its *)
(* own in the place of the repository's, which SetPool closes; a Vault or  *)
(* a newPool that fails changes nothing.  Its context is never cancelled.  *)
RotatePool ==
  /\ Alive /\ RefresherRuns
  /\ repoPool' = "rotated"
  /\ held' = (held \ {repoPool}) \cup {"rotated"}
  /\ UNCHANGED <<env, files, caRead, pc, size, creds, serve, metrics, rpc, cb, end>>

(* A pool's health check makes a ticker, which panics on such a period. *)
PoolTickerPanics ==
  /\ Alive /\ pc \notin {"config", "otel", "vault", "pool"} /\ env.period = "other"
  /\ end' = "panic"
  /\ UNCHANGED <<env, files, caRead, repoPool, pc, size, held, creds, serve, metrics, rpc, cb>>

--------------------------------------------------------------------------------
(* shutdown.Graceful *)

(* Before Notify a signal ends the process; after it, only wakes Graceful. *)
Signal ==
  /\ Alive /\ pc # "stop"
  /\ IF pc = "wait" THEN Goto("stop") ELSE end' = "killed" /\ UNCHANGED pc
  /\ UNCHANGED <<env, files, caRead, repoPool, size, held, creds, serve, metrics, rpc, cb>>

UserCallbacks == <<"grpc", "otel", "metrics", "pool">>
(* Mutants: the pool is closed before the server is stopped; Redis is forgotten. *)
OrderCallbacks_PoolFirst == <<"pool", "grpc", "otel", "metrics", "redis">>
OrderCallbacks_NoRedis == <<"grpc", "otel", "metrics", "pool">>
OrderCallbacks == <<"grpc", "otel", "metrics", "pool", "redis">>
Callbacks == IF env.svc = "user" THEN UserCallbacks ELSE OrderCallbacks

(* The first provider that fails to shut down ends OTel.Shutdown. *)
OTelShutdown(closed) == closed \in {{}, {"tracer"}, {"tracer", "meter"}}

(* The callbacks in order; errors are logged.  GracefulStop waits for RPCs, *)
(* pool.Close for the connections of handlers, of which none are left.  The *)
(* pool is the one main made, rotated or not; a second Close does nothing.  *)
RunCallback ==
  /\ At("stop") /\ cb < Len(Callbacks)
  /\ LET c == Callbacks[cb + 1] IN
     /\ c = "grpc" => ~rpc
     /\ \E closed \in SUBSET {"tracer", "meter", c} :
          /\ IF c = "otel" THEN OTelShutdown(closed) ELSE closed = {c}
          /\ held' = held \ closed
     /\ serve' = IF c = "grpc" /\ serve = "serving" THEN "stopped" ELSE serve
     /\ metrics' = IF c = "metrics" THEN "stopped" ELSE metrics
  /\ cb' = cb + 1
  /\ UNCHANGED <<env, files, caRead, repoPool, pc, size, creds, rpc, end>>

(* main returns: the deferred calls close what they know of, of the pools  *)
(* the first one.                                                          *)
Return ==
  /\ At("stop") /\ cb = Len(Callbacks)
  /\ held' = held \ {"userClient", "pool"}
  /\ end' = "clean"
  /\ UNCHANGED <<env, files, caRead, repoPool, pc, size, creds, serve, metrics, rpc, cb>>

MainStep ==
  \/ LoadConfig \/ NewOTel \/ FetchCreds \/ NewPool \/ MigrateUp \/ OpenRedis \/ NewUserClient
  \/ LoadServerConfig \/ Listen \/ Notify \/ RunCallback \/ Return

Next ==
  \/ MainStep \/ Serve \/ AcceptFails \/ ServeMetrics
  \/ StartRpc \/ EndRpc \/ RotatePool \/ PoolTickerPanics \/ Signal \/ ReplaceFiles

Spec == Init /\ [][Next]_vars

--------------------------------------------------------------------------------
(* Properties *)

(* Every variable holds a value of its type. *)
TypeOK ==
  /\ env \in Environments /\ files \in Files
  /\ caRead \in [client : CaFound, server : CaFound]
  /\ pc \in {"config", "otel", "vault", "pool", "migrate", "redis", "dial", "tls", "listen",
             "notify", "wait", "stop"}
  /\ size \in Range32
  /\ held \subseteq {"tracer", "meter", "pool", "rotated", "redis", "userClient"}
  /\ repoPool \in {"pool", "rotated"}
  /\ creds \in {"none", "nil", "mTLS"}
  /\ serve \in {"off", "spawned", "serving", "stopped", "refused", "failed"}
  /\ metrics \in {"off", "spawned", "serving", "failed", "stopped"}
  /\ rpc \in BOOLEAN /\ cb \in 0..Len(Callbacks)
  /\ end \in {"none", "clean", "fatal", "killed", "panic"}

(***************************************************************************)
(* From the first RPC to the last the handlers' resources are open: the    *)
(* pool the repository has at that moment, the cache and the client, in    *)
(* whatever order the goroutines start, pools are rotated, a signal comes  *)
(* and the callbacks of the shutdown run.                                  *)
(***************************************************************************)
RpcHasResources ==
  rpc => {repoPool} \cup (IF env.svc = "order" THEN {"redis", "userClient"} ELSE {}) \subseteq held

(***************************************************************************)
(* A server without mTLS found no certificate in a CA file that could be   *)
(* read.  In the order service that file was replaced during the start:    *)
(* its client has read it before, with a certificate, or there would be no *)
(* server.                                                                 *)
(***************************************************************************)
PlaintextCause ==
  serve = "serving" /\ creds # "mTLS" =>
    /\ caRead.server = "noCert"
    /\ env.svc = "order" => caRead.client = "ok"

(***************************************************************************)
(* The server requires and verifies client certificates (tls.go:12:        *)
(* "Requires and verifies client certificates against the CA.").           *)
(***************************************************************************)
ServesMtls == serve = "serving" => creds = "mTLS"

(***************************************************************************)
(* A process that returns from main has cut no RPC and left open at most   *)
(* the telemetry and, if the credentials were ever refreshed, the          *)
(* repository's present pool, which no callback and no deferred call       *)
(* knows.  Once a shutdown has begun only a Serve that comes after         *)
(* GracefulStop, a broken listener or a pool's ticker ends the process     *)
(* before that, and only the last two cut an RPC.                          *)
(***************************************************************************)
EndCause ==
  /\ end = "clean" =>
       /\ ~rpc
       /\ held \ {"tracer", "meter"} = {p \in {repoPool} : p = "rotated"}
  /\ end = "fatal" /\ pc = "stop" => serve \in {"refused", "failed"}
  /\ end = "fatal" /\ rpc => serve = "failed"
================================================================================
