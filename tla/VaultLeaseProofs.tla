---------------------------- MODULE VaultLeaseProofs ----------------------------
(***************************************************************************)
(* Proofs about VaultLease, for any leases and any durations.  The         *)
(* invariant says in every stage of the refresher's loop how much of the   *)
(* lease is left at least, given what is left of the stage's own time.     *)
(***************************************************************************)
EXTENDS VaultLease, TLAPS

(* What is left of the credentials just issued. *)
GotInv == st = "creds" => got >= lease - FetchTime + timer

(* What is left of the credentials in use while nothing has failed. *)
FreshInv ==
  fail = "none" =>
    /\ st = "swap" => inUse >= lease - FetchTime - SwapTime + timer
    /\ st = "sleep" => inUse >= lease - FetchTime - SwapTime - Interval(lease) + timer
    /\ st \in {"fetch", "creds"} => inUse >= lease - Used + timer

(* A swap ends what failed before it; failures of newPool are remembered. *)
FailInv ==
  /\ st = "swap" => fail = "none"
  /\ fail = "none" => ~poolFailed
  /\ fail = "pool" => poolFailed

(* An outage of Vault alone costs the credentials what it lasts, not more. *)
OutageInv == fail = "fetch" /\ ~poolFailed => inUse + outage >= lease - Used

(* Time since the last failure: what is not left of the sleep and the fetch. *)
SinceInv ==
  /\ fail = "fetch" /\ st = "sleep" => since + timer <= RetryAfter
  /\ fail = "pool" /\ st = "sleep" => since + timer <= Interval(lease)
  /\ fail = "fetch" /\ st \in {"fetch", "creds"} => since + timer <= RetryAfter + FetchTime
  /\ fail = "pool" /\ st \in {"fetch", "creds"} => since + timer <= Interval(lease) + FetchTime

IndInv == TypeOK /\ GotInv /\ FreshInv /\ FailInv /\ OutageInv /\ SinceInv

(* Interval is half the lease or the floor: a number, never below the floor. *)
LEMMA IntervalBounds ==
  ASSUME NEW l \in Leases
  PROVE  Interval(l) \in Nat /\ Interval(l) >= Floor
<1>1. l \in Nat /\ Floor \in Nat
  BY LeaseAssumption
<1>2. l \div 2 \in Nat
  BY <1>1
<1> QED
  BY <1>1, <1>2 DEF Interval

(* The invariant holds when the refresher starts: main's credentials are at *)
(* most StartTime old, which is less than an interval.                      *)
LEMMA InitInv == Init => IndInv
<1> SUFFICES ASSUME Init PROVE IndInv
  OBVIOUS
<1>1. /\ lease \in Nat /\ Interval(lease) \in Nat /\ Interval(lease) >= Floor
      /\ StartTime \in Nat /\ StartTime <= Floor /\ Floor \in Nat
      /\ FetchTime \in Nat /\ SwapTime \in Nat /\ Horizon \in Nat /\ TokenLife \in Nat
  BY IntervalBounds, LeaseAssumption DEF Init
<1>2. PICK d \in 0..StartTime : inUse = IF d < lease THEN lease - d ELSE 0
  BY DEF Init
<1>3. inUse \in 0..lease /\ inUse >= lease - StartTime
  BY <1>1, <1>2
<1>4. TypeOK
  <2>1. /\ lease \in Leases /\ st = "fetch" /\ timer \in Nat /\ timer <= FetchTime
        /\ got \in 0..lease /\ token \in 0..TokenLife
        /\ outage \in 0..Horizon /\ since \in 0..Horizon
    BY <1>1 DEF Init
  <2>2. fail = "none" /\ poolFailed = FALSE
    BY DEF Init
  <2> QED
    BY <1>3, <2>1, <2>2 DEF TypeOK
<1>5. GotInv /\ FailInv /\ OutageInv /\ SinceInv
  BY DEF Init, GotInv, FailInv, OutageInv, SinceInv
<1>6. FreshInv
  BY <1>1, <1>3 DEF Init, FreshInv, Used
<1> QED
  BY <1>4, <1>5, <1>6 DEF IndInv

(* The facts about the constants and the types that the steps below use. *)
LEMMA Facts ==
  ASSUME TypeOK
  PROVE  /\ lease \in Nat /\ lease < Horizon /\ Interval(lease) \in Nat /\ Interval(lease) >= Floor
         /\ FetchTime \in Nat /\ SwapTime \in Nat /\ RetryAfter \in Nat /\ Horizon \in Nat
         /\ TokenLife \in Nat /\ Used \in Nat
         /\ timer \in Nat /\ inUse \in Nat /\ got \in Nat /\ outage \in Nat /\ since \in Nat
<1>1. lease \in Leases
  BY DEF TypeOK
<1>2. Interval(lease) \in Nat /\ Interval(lease) >= Floor
  BY <1>1, IntervalBounds
<1>3. lease \in Nat /\ lease < Horizon /\ FetchTime \in Nat /\ SwapTime \in Nat
      /\ RetryAfter \in Nat /\ Horizon \in Nat /\ TokenLife \in Nat
  BY <1>1, LeaseAssumption
<1>4. Used \in Nat
  BY <1>2, <1>3 DEF Used
<1> QED
  BY <1>2, <1>3, <1>4 DEF TypeOK

(* Every step of the refresher, and every tick, keeps the invariant. *)
LEMMA StepInv == IndInv /\ [Next]_vars => IndInv'
<1> SUFFICES ASSUME IndInv, [Next]_vars PROVE IndInv'
  OBVIOUS
<1>0. TypeOK
  BY DEF IndInv
<1>f. /\ lease \in Nat /\ lease < Horizon /\ Interval(lease) \in Nat /\ Interval(lease) >= Floor
      /\ FetchTime \in Nat /\ SwapTime \in Nat /\ RetryAfter \in Nat /\ Horizon \in Nat
      /\ TokenLife \in Nat /\ Used \in Nat
      /\ timer \in Nat /\ inUse \in Nat /\ got \in Nat /\ outage \in Nat /\ since \in Nat
  BY <1>0, Facts
<1>1. CASE Issue
  BY <1>0, <1>f, <1>1 DEF IndInv, TypeOK, GotInv, FreshInv, FailInv, OutageInv, SinceInv, Used, Issue
<1>2. CASE FetchFails
  <2>1. TypeOK'
    BY <1>0, <1>f, <1>2 DEF TypeOK, FetchFails, Failed, Sleep, AfterError
  <2>2. GotInv' /\ FreshInv' /\ FailInv' /\ SinceInv'
    BY <1>f, <1>2 DEF IndInv, FailInv, GotInv, FreshInv, SinceInv, FetchFails, Failed, Sleep, AfterError
  <2>3. OutageInv'
    <3>1. inUse + outage' >= lease - Used \/ poolFailed'
      <4>1. CASE fail = "none"
        <5>1. inUse >= lease - Used
          BY <1>f, <1>2, <4>1 DEF IndInv, FreshInv, FetchFails
        <5> QED
          BY <1>f, <1>2, <4>1, <5>1 DEF FetchFails, Failed
      <4>2. CASE fail # "none"
        BY <1>0, <1>f, <1>2, <4>2 DEF IndInv, TypeOK, FailInv, OutageInv, FetchFails, Failed
      <4> QED
        BY <4>1, <4>2
    <3> QED
      BY <1>2, <3>1 DEF OutageInv, Used, FetchFails
  <2> QED
    BY <2>1, <2>2, <2>3 DEF IndInv
<1>3. CASE NewPoolFails
  <2>1. TypeOK'
    BY <1>0, <1>f, <1>3 DEF TypeOK, NewPoolFails, Failed, Sleep
  <2>2. st' = "sleep" /\ fail' = "pool" /\ poolFailed' /\ since' = 0 /\ timer' = Interval(lease)
        /\ lease' = lease
    BY <1>3 DEF NewPoolFails, Failed, Sleep
  <2>3. GotInv' /\ FreshInv' /\ FailInv' /\ OutageInv' /\ SinceInv'
    BY <1>f, <2>2 DEF FailInv, GotInv, FreshInv, OutageInv, SinceInv
  <2> QED
    BY <2>1, <2>3 DEF IndInv
<1>4. CASE SetPool
  <2>0. /\ st' = "swap" /\ timer' = SwapTime /\ inUse' = got /\ fail' = "none"
        /\ poolFailed' = FALSE /\ outage' = 0 /\ since' = 0
        /\ lease' = lease /\ got' = got /\ token' = token
    BY <1>4 DEF SetPool
  <2>t. /\ lease' \in Leases /\ st' = "swap" /\ timer' \in Nat /\ timer' <= SwapTime
        /\ inUse' \in 0..lease' /\ got' \in 0..lease' /\ token' \in 0..TokenLife
        /\ fail' = "none" /\ outage' \in 0..Horizon /\ since' \in 0..Horizon
    BY <1>0, <1>f, <2>0 DEF TypeOK
  <2>b. poolFailed' \in BOOLEAN
    BY <2>0, Zenon
  <2>1. TypeOK'
    BY <2>t, <2>b DEF TypeOK
  <2>2. GotInv' /\ FailInv' /\ OutageInv' /\ SinceInv'
    BY <1>4 DEF GotInv, FailInv, OutageInv, SinceInv, SetPool
  <2>3. FreshInv'
    BY <1>f, <1>4 DEF IndInv, GotInv, FreshInv, SetPool
  <2> QED
    BY <2>1, <2>2, <2>3 DEF IndInv
<1>5. CASE SetPoolReturns
  <2>1. TypeOK'
    BY <1>0, <1>f, <1>5 DEF TypeOK, SetPoolReturns, Sleep, AfterRefresh
  <2>2. GotInv' /\ FailInv' /\ OutageInv' /\ SinceInv'
    BY <1>5 DEF IndInv, GotInv, FailInv, OutageInv, SinceInv, SetPoolReturns, Sleep, AfterRefresh
  <2>3. FreshInv'
    BY <1>f, <1>5 DEF IndInv, FreshInv, SetPoolReturns, Sleep, AfterRefresh
  <2> QED
    BY <2>1, <2>2, <2>3 DEF IndInv
<1>6. CASE Wake
  BY <1>0, <1>f, <1>6 DEF IndInv, TypeOK, GotInv, FreshInv, FailInv, OutageInv, SinceInv, Used, Wake
<1>7. CASE Tick
  <2>0. /\ Down(inUse) \in Nat /\ Down(inUse) <= inUse /\ Down(inUse) >= inUse - 1
        /\ Down(got) \in Nat /\ Down(got) <= got /\ Down(got) >= got - 1
        /\ Up(outage) \in 0..Horizon /\ Up(since) \in 0..Horizon
        /\ Up(since) <= since + 1 /\ (Up(outage) = outage + 1 \/ Up(outage) = Horizon)
    BY <1>0, <1>f DEF TypeOK, Up, Down
  <2>1. TypeOK'
    BY <1>0, <1>f, <1>7, <2>0 DEF TypeOK, Tick, Down
  <2>2. GotInv' /\ FailInv' /\ FreshInv'
    BY <1>f, <1>7, <2>0 DEF IndInv, GotInv, FailInv, FreshInv, Used, Tick
  <2>3. OutageInv'
    BY <1>f, <1>7, <2>0 DEF IndInv, OutageInv, Used, Tick
  <2>4. SinceInv'
    BY <1>f, <1>7, <2>0 DEF IndInv, SinceInv, Tick
  <2> QED
    BY <2>1, <2>2, <2>3, <2>4 DEF IndInv
<1>8. CASE UNCHANGED vars
  BY <1>8 DEF IndInv, TypeOK, GotInv, FreshInv, FailInv, OutageInv, SinceInv, Used, vars
<1> QED
  BY <1>1, <1>2, <1>3, <1>4, <1>5, <1>6, <1>7, <1>8 DEF Next

(* The invariant holds in every state of the refresher. *)
THEOREM LeaseInvariant == Spec => []IndInv
<1>1. Init => IndInv
  BY InitInv
<1>2. IndInv /\ [Next]_vars => IndInv'
  BY StepInv
<1> QED
  BY <1>1, <1>2, PTL DEF Spec

(* The refresher's variables keep their types, and no stage of its loop    *)
(* takes longer than its limit.                                            *)
THEOREM LeaseTypeCorrect == Spec => []TypeOK
<1>1. IndInv => TypeOK
  BY DEF IndInv
<1> QED
  BY <1>1, LeaseInvariant, PTL

(* While nothing has failed, credentials with a roomy lease do not expire. *)
LEMMA FreshNotExpired ==
  ASSUME IndInv, fail = "none"
  PROVE  inUse >= lease - Used
<1>1. TypeOK
  BY DEF IndInv
<1> QED
  BY <1>1, Facts DEF IndInv, TypeOK, FreshInv, Used

(* The credentials in use expire only after a failed newPool, or when      *)
(* Vault has failed for all the time to spare (client.go:98-130).          *)
THEOREM ExpiryExplained == Spec => []ExpiryHasCause
<1>1. ASSUME IndInv PROVE ExpiryHasCause
  <2> SUFFICES ASSUME inUse = 0, Roomy, ~poolFailed
               PROVE  fail = "fetch" /\ outage + Used >= lease
    BY DEF ExpiryHasCause
  <2>1. TypeOK
    BY <1>1 DEF IndInv
  <2>2. fail # "none"
    BY <1>1, <2>1, FreshNotExpired, Facts DEF Roomy
  <2>3. fail = "fetch"
    BY <1>1, <2>1, <2>2 DEF IndInv, FailInv, TypeOK
  <2> QED
    BY <1>1, <2>1, <2>3, Facts DEF IndInv, OutageInv
<1> QED
  BY <1>1, LeaseInvariant, PTL

(* Expired credentials are replaced within a retry, or an interval, and a  *)
(* fetch of the last failure.                                              *)
THEOREM RecoveryIsBounded == Spec => []OutageRecovers
<1>1. ASSUME IndInv PROVE OutageRecovers
  <2> SUFFICES ASSUME inUse = 0, Roomy
               PROVE  \/ fail = "fetch" /\ since <= RetryAfter + FetchTime
                      \/ fail = "pool" /\ since <= Interval(lease) + FetchTime
    BY DEF OutageRecovers
  <2>1. TypeOK
    BY <1>1 DEF IndInv
  <2>2. fail # "none"
    BY <1>1, <2>1, FreshNotExpired, Facts DEF Roomy
  <2>3. st # "swap"
    BY <1>1, <2>2 DEF IndInv, FailInv
  <2> QED
    BY <1>1, <2>1, <2>2, <2>3, Facts DEF IndInv, SinceInv, TypeOK
<1> QED
  BY <1>1, LeaseInvariant, PTL
================================================================================
