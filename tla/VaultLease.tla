------------------------------ MODULE VaultLease ------------------------------
(***************************************************************************)
(* The credential refresher against the clock: when it fetches, how long   *)
(* it sleeps, and whether the credentials of the pool in use outlive it.   *)
(* Time is counted in ticks; every variable below that is a time counts    *)
(* down to 0 or up to Horizon, so that no absolute clock is needed.        *)
(* ServiceRuntime has the locking of the same loop, without time.          *)
(***************************************************************************)
EXTENDS Naturals

CONSTANTS Leases,      \* lease durations Vault may be configured with
          Floor,       \* 30 s, the shortest interval between refreshes
          RetryAfter,  \* 30 s, the wait after a failed fetch
          FetchTime,   \* longest GetDBCreds
          SwapTime,    \* longest wait for the old pool's connections
          StartTime,   \* from main's GetDBCreds to the refresher's first
          TokenLife,   \* the period of the service's Vault token
          Horizon      \* bound on the times that are counted up

Interval(l) == IF l \div 2 < Floor THEN Floor ELSE l \div 2

ASSUME LeaseAssumption ==
  /\ Leases \subseteq Nat /\ Floor \in Nat /\ RetryAfter \in Nat /\ FetchTime \in Nat
  /\ SwapTime \in Nat /\ StartTime \in Nat /\ TokenLife \in Nat /\ Horizon \in Nat
  /\ StartTime <= Floor
  /\ \A l \in Leases : l < Horizon
  /\ \A l \in Leases : Interval(l) + FetchTime < Horizon
  /\ RetryAfter + FetchTime < Horizon

VARIABLES
  lease,
  st,          \* "fetch", "creds" (Vault has issued them), "swap" or "sleep"
  timer,       \* what is left of the time st may take
  inUse,       \* what is left of the lease of the pool's credentials
  got,         \* what is left of the lease of the credentials just issued
  token,       \* what is left of the Vault token
  fail,        \* the kind of the last failure since the last swap
  poolFailed,  \* a newPool has failed since the last swap
  outage,      \* time since the first failure after the last swap
  since        \* time since the last failure

vars == <<lease, st, timer, inUse, got, token, fail, poolFailed, outage, since>>

Init ==
  /\ lease \in Leases
  /\ st = "fetch" /\ timer = FetchTime          \* the refresher fetches at once
  /\ \E d \in 0..StartTime : inUse = IF d < lease THEN lease - d ELSE 0
  /\ got = 0 /\ token = TokenLife
  /\ fail = "none" /\ poolFailed = FALSE /\ outage = 0 /\ since = 0

Failed(kind) ==
  /\ fail' = kind
  /\ poolFailed' = (poolFailed \/ kind = "pool")
  /\ outage' = IF fail = "none" THEN 0 ELSE outage
  /\ since' = 0

Sleep(t) == st' = "sleep" /\ timer' = t

(* Vault issues credentials as long as the token, which nobody renews, lives. *)
Issue ==
  /\ st = "fetch" /\ token > 0
  /\ st' = "creds" /\ got' = lease
  /\ UNCHANGED <<lease, timer, inUse, token, fail, poolFailed, outage, since>>

(* Mutant: a failed fetch waits for half a lease as well. *)
AfterError_Interval == Interval(lease)
AfterError == RetryAfter

(* Vault is down or refuses, or its answer is lost or malformed. *)
FetchFails ==
  /\ st \in {"fetch", "creds"}
  /\ Failed("fetch")
  /\ Sleep(AfterError)
  /\ UNCHANGED <<lease, inUse, got, token>>

(* The callback logs the error and returns; the loop sleeps as after a swap. *)
NewPoolFails ==
  /\ st = "creds"
  /\ Failed("pool")
  /\ Sleep(Interval(lease))
  /\ UNCHANGED <<lease, inUse, got, token>>

SetPool ==
  /\ st = "creds"
  /\ inUse' = got
  /\ st' = "swap" /\ timer' = SwapTime
  /\ fail' = "none" /\ poolFailed' = FALSE /\ outage' = 0 /\ since' = 0
  /\ UNCHANGED <<lease, got, token>>

(* Mutant: the loop sleeps for the whole lease. *)
AfterRefresh_WholeLease == IF lease < Floor THEN Floor ELSE lease
AfterRefresh == Interval(lease)

SetPoolReturns ==
  /\ st = "swap"
  /\ Sleep(AfterRefresh)
  /\ UNCHANGED <<lease, inUse, got, token, fail, poolFailed, outage, since>>

Wake ==
  /\ st = "sleep" /\ timer = 0
  /\ st' = "fetch" /\ timer' = FetchTime
  /\ UNCHANGED <<lease, inUse, got, token, fail, poolFailed, outage, since>>

Down(t) == IF t = 0 THEN 0 ELSE t - 1
Up(t) == IF t = Horizon THEN t ELSE t + 1

(* Calls return in time and timers fire: time stops for nobody whose time is up. *)
Tick ==
  /\ timer > 0
  /\ timer' = timer - 1
  /\ inUse' = Down(inUse) /\ got' = Down(got) /\ token' = Down(token)
  /\ outage' = IF fail = "none" THEN outage ELSE Up(outage)
  /\ since' = IF fail = "none" THEN since ELSE Up(since)
  /\ UNCHANGED <<lease, st, fail, poolFailed>>

Next ==
  \/ Issue \/ FetchFails \/ NewPoolFails \/ SetPool \/ SetPoolReturns \/ Wake \/ Tick

Spec == Init /\ [][Next]_vars

--------------------------------------------------------------------------------
(* Properties *)

(* Every variable holds a value of its type; no time runs past its limit. *)
TypeOK ==
  /\ lease \in Leases
  /\ st \in {"fetch", "creds", "swap", "sleep"}
  /\ timer \in Nat
  /\ st = "sleep" => timer <= RetryAfter \/ timer <= Interval(lease)
  /\ st = "swap" => timer <= SwapTime
  /\ st \in {"fetch", "creds"} => timer <= FetchTime
  /\ inUse \in 0..lease /\ got \in 0..lease /\ token \in 0..TokenLife
  /\ fail \in {"none", "fetch", "pool"} /\ poolFailed \in BOOLEAN
  /\ outage \in 0..Horizon /\ since \in 0..Horizon

(* The time the refresher has to spare in a lease. *)
Used == Interval(lease) + FetchTime + FetchTime + SwapTime
Roomy == Used < lease

(***************************************************************************)
(* With a lease longer than an interval and the calls in it, the pool's    *)
(* credentials expire only if newPool has failed, which costs a whole      *)
(* interval, or if Vault has refused for all the time to spare: shorter    *)
(* outages are ridden out by the retries (client.go:98 of internal/vault). *)
(***************************************************************************)
ExpiryHasCause ==
  inUse = 0 /\ Roomy => poolFailed \/ (fail = "fetch" /\ outage + Used >= lease)

(***************************************************************************)
(* When the failures end, credentials that had expired are replaced after  *)
(* one more retry, or one more interval if newPool was what failed.        *)
(***************************************************************************)
OutageRecovers ==
  inUse = 0 /\ Roomy =>
    \/ fail = "fetch" /\ since <= RetryAfter + FetchTime
    \/ fail = "pool" /\ since <= Interval(lease) + FetchTime
================================================================================
