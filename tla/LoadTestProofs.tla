----------------------------- MODULE LoadTestProofs ----------------------------
(***************************************************************************)
(* Proofs about LoadTest, for any number of VUs, any channel capacity and  *)
(* any number of calls.  Every call is followed from the VU through the    *)
(* channel and the collector into the statistics, one result at a time.    *)
(***************************************************************************)
EXTENDS LoadTest, FiniteSetTheorems, TLAPS

(* Results that are being sent or added are real ones. *)
CollectorInv ==
  /\ \A v \in VUs : vu[v] = "send" => result[v] \in Results
  /\ collector.do \in {"recv", "done"} => collector.at = Total /\ got = NoResult
  /\ collector.do \notin {"recv", "done"} => got \in Results /\ collector.at \in {Total, got.op}
  /\ collector.do = "err" => got.err

(* The collector is in the middle of adding to s: counted, not appended. *)
Adding(s) == collector.at = s /\ collector.do \in {"err", "durs"}

(* A result that is in the total and not yet in its operation's count. *)
Between == IF \/ collector.at = Total /\ collector.do \in {"err", "durs"}
              \/ collector.at # Total /\ collector.do = "count" THEN 1 ELSE 0

(* How the numbers of the statistics are tied to each other. *)
StatInv ==
  /\ \A s \in Stats : /\ durs[s] = count[s] - (IF Adding(s) THEN 1 ELSE 0)
                      /\ errCount[s] <= count[s]
                      /\ Adding(s) /\ collector.do = "err" => errCount[s] < count[s]
                      /\ calls[s] <= calls[Total]
  /\ count[Total] = count["CreateUser"] + count["CreateOrder"] + count["GetUser"]
                      + count["GetOrder"] + Between

(* The report has loaded the count of its i-th row. *)
RowRead(i) ==
  \/ main.do \in {"line", "exit"}
  \/ main.do = "n" /\ i < main.at
  \/ main.do \in {"durs", "errs", "panic"} /\ i <= main.at

(* The least that the last line can find of the statistic in row i. *)
Least(i, s) == IF RowRead(i) THEN seen.rows[s] ELSE count[s]
LeastSum ==
  Least(2, "CreateUser") + Least(3, "GetUser") + Least(4, "CreateOrder") + Least(5, "GetOrder")

(* The rows' counts against the present ones; the first row, of the total, *)
(* against the least of the operations, which are added after it.          *)
RowsInv ==
  /\ \A s \in Stats : seen.rows[s] <= count[s]
  /\ RowRead(1) => seen.rows[Total] <= LeastSum + 1

(* Where main is, and what it has seen of numbers that only grow. *)
MainInv ==
  /\ main.do \in {"dial", "users", "orders"} => \A v \in VUs : vu[v] = "off"
  /\ main.do \in {"dial", "users", "orders", "wait"} => main.at = 1
  /\ main.do = "orders" => userIDs > 0
  /\ main.do = "durs" => 1 <= seen.rows[Label]
  /\ RowsInv

(* The channel is closed after the last send, and drained after that. *)
ClosedInv ==
  /\ closed => main.do \notin {"dial", "users", "orders", "wait"} /\ \A v \in VUs : vu[v] = "done"
  /\ collector.do = "done" => closed /\ results = <<>>

(* A VU with a result finds the channel open and the collector receiving. *)
SendersServed == \A v \in VUs : vu[v] = "send" => ~closed /\ collector.do # "done"

IndInv ==
  /\ TypeOK /\ CollectorInv /\ StatInv /\ MainInv
  /\ NothingLost /\ PanicCause /\ LineConsistent

--------------------------------------------------------------------------------
(* Counting what is on its way *)

(* What the constants and the two kinds of results are. *)
LEMMA ConstantFacts ==
  /\ IsFiniteSet(VUs) /\ Capacity \in Nat /\ MaxCalls \in Nat
  /\ Total \in Stats /\ Total \notin AllOps /\ Results # {}
  /\ NoResult \notin Results /\ NoResult.op = Total
  /\ \A r \in Results : r.op \in AllOps /\ r.op \in Stats /\ r.op # Total /\ r.err \in BOOLEAN
<1>1. Total \notin AllOps
  BY DEF Total, AllOps
<1>2. \A r \in Results : r.op \in AllOps
  BY LoadTestAssumption DEF Results
<1>3. \A r \in Results : r.err \in BOOLEAN
  BY DEF Results
<1>4. NoResult.op = Total
  BY DEF NoResult
<1>5. Results # {}
  <2>1. PICK o \in Ops : TRUE
    BY LoadTestAssumption
  <2>2. [op |-> o, err |-> TRUE] \in Results
    BY DEF Results
  <2> QED BY <2>2
<1>6. Total \in Stats /\ AllOps \subseteq Stats
  BY DEF Stats
<1>7. IsFiniteSet(VUs) /\ Capacity \in Nat /\ MaxCalls \in Nat
  BY LoadTestAssumption
<1> HIDE DEF NoResult
<1> QED BY <1>1, <1>2, <1>3, <1>4, <1>5, <1>6, <1>7

(* One more for one statistic. *)
LEMMA Incremented ==
  ASSUME NEW S, NEW f \in [S -> Nat], NEW x \in S
  PROVE  LET g == [f EXCEPT ![x] = @ + 1]
         IN  g \in [S -> Nat] /\ g[x] = f[x] + 1 /\ \A s \in S : s # x => g[s] = f[s]
OBVIOUS

(* The update of a call, which counts for the total and for its operation. *)
LEMMA BothIncremented ==
  ASSUME NEW S, NEW f \in [S -> Nat], NEW x \in S, NEW y \in S, x # y
  PROVE  LET g == [f EXCEPT ![x] = @ + 1, ![y] = @ + 1]
         IN  /\ g \in [S -> Nat] /\ g[x] = f[x] + 1 /\ g[y] = f[y] + 1
             /\ \A s \in S : s # x /\ s # y => g[s] = f[s]
<1> DEFINE h == [f EXCEPT ![x] = @ + 1]
           g == [f EXCEPT ![x] = @ + 1, ![y] = @ + 1]
<1>1. h \in [S -> Nat] /\ h[x] = f[x] + 1 /\ \A s \in S : s # x => h[s] = f[s]
  BY Incremented
<1>2. g = [h EXCEPT ![y] = @ + 1]
  OBVIOUS
<1> HIDE DEF h, g
<1> QED BY <1>1, <1>2 DEF g

(* The results in the hands of VUs can be counted. *)
LEMMA SendingFacts ==
  ASSUME NEW s
  PROVE  IsFiniteSet(Sending(s)) /\ Cardinality(Sending(s)) \in Nat
<1>1. Sending(s) \in SUBSET VUs
  BY DEF Sending
<1>2. IsFiniteSet(Sending(s))
  BY <1>1, ConstantFacts, FS_Subset
<1> QED BY <1>2, FS_CardinalityType

(* So can those in a queue. *)
LEMMA QueuedFacts ==
  ASSUME NEW q \in Seq(Results), NEW s
  PROVE  IsFiniteSet(Queued(q, s)) /\ Cardinality(Queued(q, s)) \in Nat
<1>1. Len(q) \in Nat
  OBVIOUS
<1>2. IsFiniteSet(1..Len(q))
  BY <1>1, FS_Interval
<1>3. Queued(q, s) \in SUBSET (1..Len(q))
  BY DEF Queued
<1>4. IsFiniteSet(Queued(q, s))
  BY <1>2, <1>3, FS_Subset
<1> QED BY <1>4, FS_CardinalityType

(* A result at the end of the channel is one more for its statistics. *)
LEMMA AppendCounts ==
  ASSUME NEW q \in Seq(Results), NEW r \in Results, NEW s
  PROVE  Cardinality(Queued(Append(q, r), s))
           = Cardinality(Queued(q, s)) + (IF Counts(r, s) THEN 1 ELSE 0)
<1> DEFINE n == Len(q) + 1
           p == Append(q, r)
<1>1. Len(q) \in Nat /\ Len(p) = n /\ p[n] = r /\ \A i \in 1..Len(q) : p[i] = q[i]
  OBVIOUS
<1>2. IsFiniteSet(Queued(q, s)) /\ Cardinality(Queued(q, s)) \in Nat
  BY QueuedFacts
<1>3. n \notin Queued(q, s)
  BY <1>1 DEF Queued
<1>4. 1..n = 1..Len(q) \cup {n}
  BY <1>1
<1> HIDE DEF n, p
<1>5. CASE Counts(r, s)
  <2>1. Queued(p, s) = Queued(q, s) \cup {n}
    BY <1>1, <1>4, <1>5 DEF Queued
  <2>2. Cardinality(Queued(q, s) \cup {n}) = Cardinality(Queued(q, s)) + 1
    BY <1>2, <1>3, FS_AddElement
  <2> QED BY <1>5, <2>1, <2>2 DEF p
<1>6. CASE ~Counts(r, s)
  <2>1. Queued(p, s) = Queued(q, s)
    BY <1>1, <1>4, <1>6 DEF Queued
  <2> QED BY <1>2, <1>6, <2>1 DEF p
<1> QED BY <1>5, <1>6

(* The result at its head is one less; the others move up. *)
LEMMA TailCounts ==
  ASSUME NEW q \in Seq(Results), q # <<>>, NEW s
  PROVE  Cardinality(Queued(q, s))
           = Cardinality(Queued(Tail(q), s)) + (IF Counts(Head(q), s) THEN 1 ELSE 0)
<1> DEFINE t == Tail(q)
           rest == Queued(q, s) \ {1}
           f == [i \in Queued(t, s) |-> i + 1]
<1>1. /\ Len(q) \in Nat /\ Len(q) >= 1 /\ t \in Seq(Results) /\ Len(t) = Len(q) - 1
      /\ Head(q) = q[1] /\ \A i \in 1..Len(t) : t[i] = q[i + 1]
  OBVIOUS
<1>2. /\ IsFiniteSet(Queued(q, s)) /\ Cardinality(Queued(q, s)) \in Nat
      /\ IsFiniteSet(Queued(t, s)) /\ Cardinality(Queued(t, s)) \in Nat
  BY <1>1, QueuedFacts
<1> HIDE DEF t
<1>3. ASSUME NEW i \in Queued(t, s) PROVE i + 1 \in rest /\ i \in Nat
  BY <1>1 DEF Queued
<1>4. ASSUME NEW k \in rest PROVE k - 1 \in Queued(t, s) /\ k = (k - 1) + 1
  <2>1. k \in 1..Len(q) /\ k # 1 /\ Counts(q[k], s)
    BY DEF Queued
  <2>2. k - 1 \in 1..Len(t) /\ (k - 1) + 1 = k
    BY <1>1, <2>1
  <2> QED BY <1>1, <2>1, <2>2 DEF Queued
<1>5. f \in Bijection(Queued(t, s), rest)
  <2>1. f \in [Queued(t, s) -> rest]
    BY <1>3
  <2>2. \A a, b \in Queued(t, s) : f[a] = f[b] => a = b
    BY <1>3
  <2>3. \A k \in rest : \E i \in Queued(t, s) : f[i] = k
    BY <1>4
  <2> HIDE DEF f, rest
  <2>4. f \in Injection(Queued(t, s), rest)
    BY <2>1, <2>2 DEF Injection, IsInjective
  <2>5. f \in Surjection(Queued(t, s), rest)
    BY <2>1, <2>3 DEF Surjection
  <2> QED BY <2>4, <2>5 DEF Bijection
<1> HIDE DEF f
<1>6. Cardinality(rest) = Cardinality(Queued(t, s))
  BY <1>2, <1>5, FS_Bijection DEF ExistsBijection
<1>7. 1 \in Queued(q, s) <=> Counts(Head(q), s)
  BY <1>1 DEF Queued
<1>8. CASE Counts(Head(q), s)
  <2>1. Cardinality(rest) = Cardinality(Queued(q, s)) - 1
    BY <1>2, <1>7, <1>8, FS_RemoveElement
  <2> QED BY <1>2, <1>6, <1>8, <2>1 DEF t
<1>9. CASE ~Counts(Head(q), s)
  <2>1. rest = Queued(q, s)
    BY <1>7, <1>9
  <2> HIDE DEF rest
  <2>2. Cardinality(Queued(q, s)) = Cardinality(Queued(t, s))
    BY <1>6, <2>1
  <2> QED BY <1>2, <1>9, <2>2 DEF t
<1> QED BY <1>8, <1>9

--------------------------------------------------------------------------------
(* The invariant is inductive. *)

(* The invariant holds before the test begins. *)
LEMMA InitInv == Init => IndInv
<1> SUFFICES ASSUME Init PROVE IndInv
  OBVIOUS
<1>1. Cardinality(VUs) \in Nat /\ MaxCalls \in Nat
  BY ConstantFacts, FS_CardinalityType
<1>2. \A s \in Stats : count[s] = 0 /\ errCount[s] = 0 /\ durs[s] = 0 /\ calls[s] = 0
  BY DEF Init, Zero
<1>3. TypeOK
  <2>1. main \in [do : {"dial", "users", "orders", "wait", "n", "durs", "errs", "line", "fatal",
                        "panic", "exit"}, at : 1..Len(Reported)]
    BY DEF Init, Reported
  <2>2. count \in [Stats -> 0..MaxCalls] /\ errCount = count /\ durs = count /\ calls = count
    BY <1>1 DEF Init, Zero
  <2>3. results \in Seq(Results) /\ Len(results) = 0 /\ Capacity \in Nat
    BY ConstantFacts DEF Init
  <2>4. /\ userIDs = 0 /\ orderIDs = 0 /\ over \in BOOLEAN /\ closed \in BOOLEAN
        /\ vu \in [VUs -> {"off", "ready", "send", "done"}] /\ \A v \in VUs : vu[v] = "off"
        /\ result \in [VUs -> Results \cup {NoResult}] /\ got \in Results \cup {NoResult}
    BY DEF Init
  <2>5. collector \in [at : Stats, do : {"recv", "count", "err", "durs", "done"}]
    BY ConstantFacts DEF Init
  <2>6. seen \in Views
    BY DEF Init, NothingSeen, Zero, Views
  <2>7. 0 \in 0..1 /\ 0 \in 0..1
    BY <1>1
  <2> QED BY <2>1, <2>2, <2>3, <2>4, <2>5, <2>6, <2>7 DEF TypeOK
<1>4. CollectorInv
  BY DEF Init, CollectorInv
<1>5. StatInv
  <2>1. {"CreateUser", "CreateOrder", "GetUser", "GetOrder", Total} \subseteq Stats
    BY DEF Stats, AllOps
  <2>2. Between = 0 /\ \A s \in Stats : ~Adding(s)
    BY DEF Init, Between, Adding, Total
  <2> QED BY <1>2, <2>1, <2>2 DEF StatInv
<1>6. MainInv /\ PanicCause /\ LineConsistent
  <2>1. \A s \in Stats : seen.rows[s] = 0
    BY DEF Init, NothingSeen, Zero
  <2> QED BY <1>2, <2>1 DEF Init, MainInv, RowsInv, RowRead, PanicCause, LineConsistent, At
<1>7. NothingLost
  <2>1. ASSUME NEW s \in Stats PROVE Pending(s) = 0
    <3>1. Sending(s) = {} /\ Queued(results, s) = {}
      BY DEF Init, Sending, Queued
    <3>2. ~Uncounted(s)
      BY DEF Init, Uncounted, NoResult
    <3>3. Cardinality({}) = 0
      BY FS_EmptySet
    <3> QED BY <3>1, <3>2, <3>3 DEF Pending
  <2> QED BY <1>2, <2>1 DEF NothingLost
<1> QED BY <1>3, <1>4, <1>5, <1>6, <1>7 DEF IndInv

(* A VU's step: the report has not begun, since main waits for every VU. *)
LEMMA CallAnsweredInv ==
  ASSUME IndInv, NEW v \in VUs, NEW r \in Results, CallAnswered(v, r)
  PROVE  IndInv'
<1>1. /\ TypeOK /\ CollectorInv /\ StatInv /\ MainInv /\ NothingLost
      /\ vu[v] = "ready" /\ calls[Total] < MaxCalls
      /\ calls' = [calls EXCEPT ![Total] = @ + 1, ![r.op] = @ + 1]
      /\ result' = [result EXCEPT ![v] = r] /\ vu' = [vu EXCEPT ![v] = "send"]
      /\ UNCHANGED <<userIDs, orderIDs, over, results, closed, collector, got, count, errCount,
                     durs, main, seen>>
  BY DEF IndInv, CallAnswered, queueVars, statVars
<1>2. r.op \in Stats /\ r.op # Total /\ Total \in Stats /\ MaxCalls \in Nat
  BY ConstantFacts
<1>3. /\ calls'[Total] = calls[Total] + 1 /\ calls'[r.op] = calls[r.op] + 1
      /\ \A s \in Stats : s \notin {Total, r.op} => calls'[s] = calls[s]
      /\ \A s \in Stats : calls[s] \in Nat /\ calls'[s] \in Nat
      /\ calls' \in [Stats -> Nat]
  <2>1. calls \in [Stats -> Nat]
    BY <1>1, <1>2 DEF TypeOK
  <2> QED BY <1>1, <1>2, <2>1, BothIncremented
<1>4. \A s \in Stats : calls[s] <= calls[Total] /\ calls'[s] <= calls'[Total]
  BY <1>1, <1>2, <1>3 DEF StatInv
<1>5. TypeOK'
  <2>1. calls' \in [Stats -> 0..MaxCalls]
    BY <1>1, <1>2, <1>3, <1>4
  <2>2. vu' \in [VUs -> {"off", "ready", "send", "done"}] /\ result' \in [VUs -> Results \cup {NoResult}]
        /\ \A w \in VUs : vu'[w] # "off" => userIDs > 0
    BY <1>1 DEF TypeOK
  <2> QED BY <1>1, <2>1, <2>2 DEF TypeOK
<1>6. CollectorInv'
  BY <1>1 DEF CollectorInv, TypeOK
<1>7. StatInv'
  BY <1>1, <1>4 DEF StatInv, Adding, Between
<1>8. MainInv'
  BY <1>1 DEF MainInv, Label, RowsInv, RowRead, Least, LeastSum
<1>9. NothingLost'
  <2>1. ASSUME NEW s \in Stats PROVE calls'[s] = count'[s] + Pending(s)'
    <3>1. calls[s] = count[s] + Pending(s)
      BY <1>1 DEF NothingLost
    <3>2. v \notin Sending(s) /\ IsFiniteSet(Sending(s)) /\ Cardinality(Sending(s)) \in Nat
      BY <1>1, SendingFacts DEF Sending
    <3>3. Queued(results, s)' = Queued(results, s) /\ Uncounted(s)' = Uncounted(s)
          /\ Cardinality(Queued(results, s)) \in Nat
      BY <1>1, QueuedFacts DEF Queued, Uncounted, TypeOK, Counts
    <3>4. CASE Counts(r, s)
      <4>1. Sending(s)' = Sending(s) \cup {v}
        <5>1. vu'[v] = "send" /\ result'[v] = r /\ Counts(r, s)'
          BY <1>1, <3>4 DEF TypeOK, Counts
        <5>2. \A w \in VUs : w # v => vu'[w] = vu[w] /\ result'[w] = result[w]
          BY <1>1 DEF TypeOK
        <5> QED BY <5>1, <5>2 DEF Sending, Counts
      <4>2. Cardinality(Sending(s)') = Cardinality(Sending(s)) + 1
        BY <3>2, <4>1, FS_AddElement
      <4>3. calls'[s] = calls[s] + 1
        BY <1>3, <3>4 DEF Counts
      <4>4. count[s] \in Nat
        BY <1>1 DEF TypeOK
      <4> QED BY <1>1, <3>1, <3>2, <3>3, <4>2, <4>3, <4>4 DEF Pending
    <3>5. CASE ~Counts(r, s)
      <4>1. Sending(s)' = Sending(s)
        BY <1>1, <3>5 DEF Sending, TypeOK, Counts
      <4>2. calls'[s] = calls[s]
        BY <1>3, <3>5 DEF Counts
      <4> QED BY <1>1, <3>1, <3>3, <4>1, <4>2 DEF Pending
    <3> QED BY <3>4, <3>5
  <2> QED BY <2>1 DEF NothingLost
<1>10. PanicCause' /\ LineConsistent'
  BY <1>1 DEF IndInv, PanicCause, LineConsistent, At, Label
<1> QED BY <1>5, <1>6, <1>7, <1>8, <1>9, <1>10 DEF IndInv

(* A result moves from its VU to the end of the channel. *)
LEMMA SendResultInv ==
  ASSUME IndInv, NEW v \in VUs, SendResult(v)
  PROVE  IndInv'
<1>1. /\ TypeOK /\ CollectorInv /\ StatInv /\ MainInv /\ NothingLost
      /\ vu[v] = "send" /\ Len(results) < Capacity
      /\ results' = Append(results, result[v])
      /\ result' = [result EXCEPT ![v] = NoResult] /\ vu' = [vu EXCEPT ![v] = "ready"]
      /\ UNCHANGED <<userIDs, orderIDs, calls, over, closed, collector, got, count, errCount,
                     durs, main, seen>>
  BY DEF IndInv, SendResult, Enqueue, testVars, statVars
<1>2. result[v] \in Results /\ results \in Seq(Results) /\ Capacity \in Nat
  BY <1>1, ConstantFacts DEF CollectorInv, TypeOK
<1>3. TypeOK'
  <2>1. results' \in Seq(Results) /\ Len(results') <= Capacity
    BY <1>1, <1>2
  <2>2. vu' \in [VUs -> {"off", "ready", "send", "done"}] /\ result' \in [VUs -> Results \cup {NoResult}]
        /\ \A w \in VUs : vu'[w] # "off" => userIDs > 0
    BY <1>1 DEF TypeOK
  <2> QED BY <1>1, <2>1, <2>2 DEF TypeOK
<1>4. CollectorInv'
  BY <1>1 DEF CollectorInv, TypeOK
<1>5. StatInv'
  BY <1>1 DEF StatInv, Adding, Between
<1>6. MainInv'
  BY <1>1 DEF MainInv, Label, RowsInv, RowRead, Least, LeastSum
<1>7. NothingLost'
  <2>1. ASSUME NEW s \in Stats PROVE Pending(s)' = Pending(s)
    <3>1. IsFiniteSet(Sending(s)) /\ Cardinality(Sending(s)) \in Nat
      BY SendingFacts
    <3>2. /\ Cardinality(Queued(results, s)) \in Nat
          /\ Cardinality(Queued(Append(results, result[v]), s))
               = Cardinality(Queued(results, s)) + (IF Counts(result[v], s) THEN 1 ELSE 0)
      BY <1>2, QueuedFacts, AppendCounts
    <3>3. Queued(results, s)' = Queued(Append(results, result[v]), s)
      BY <1>1 DEF Queued, Counts
    <3>4. Sending(s)' = Sending(s) \ {v}
      BY <1>1 DEF Sending, TypeOK, Counts
    <3>5. Cardinality(Sending(s)') = Cardinality(Sending(s)) - (IF Counts(result[v], s) THEN 1 ELSE 0)
      <4>1. v \in Sending(s) <=> Counts(result[v], s)
        BY <1>1 DEF Sending
      <4>2. Cardinality(Sending(s) \ {v})
              = IF v \in Sending(s) THEN Cardinality(Sending(s)) - 1 ELSE Cardinality(Sending(s))
        BY <3>1, FS_RemoveElement
      <4> QED BY <3>1, <3>4, <4>1, <4>2
    <3>6. Uncounted(s)' = Uncounted(s)
      BY <1>1 DEF Uncounted
    <3> QED BY <3>1, <3>2, <3>3, <3>5, <3>6 DEF Pending
  <2> QED BY <1>1, <2>1 DEF NothingLost
<1>8. PanicCause' /\ LineConsistent'
  BY <1>1 DEF IndInv, PanicCause, LineConsistent, At, Label
<1> QED BY <1>3, <1>4, <1>5, <1>6, <1>7, <1>8 DEF IndInv

(* Steps that leave the results where they are. *)
LEMMA NothingMoves ==
  ASSUME IndInv, UNCHANGED <<calls, result, results, collector, got, count, errCount, durs>>,
         \A v \in VUs : vu'[v] = "send" <=> vu[v] = "send"
  PROVE  CollectorInv' /\ StatInv' /\ NothingLost'
<1>1. CollectorInv /\ StatInv /\ NothingLost
  BY DEF IndInv
<1>2. CollectorInv'
  BY <1>1 DEF CollectorInv
<1>3. StatInv'
  BY <1>1 DEF StatInv, Adding, Between
<1>4. \A s : Sending(s)' = Sending(s) /\ Queued(results, s)' = Queued(results, s)
             /\ Uncounted(s)' = Uncounted(s)
  BY DEF Sending, Queued, Uncounted, Counts
<1>5. NothingLost'
  BY <1>1, <1>4 DEF NothingLost, Pending
<1> QED BY <1>2, <1>3, <1>5

(* VUs that stop hold no result. *)
LEMMA StopOrTimeUpInv ==
  ASSUME IndInv, TimeUp \/ \E v \in VUs : Stop(v)
  PROVE  IndInv'
<1>1. /\ TypeOK /\ MainInv
      /\ UNCHANGED <<userIDs, orderIDs, calls, result, results, closed, collector, got, count,
                     errCount, durs, main, seen>>
  BY DEF IndInv, Stop, TimeUp, testVars, queueVars, statVars
<1>2. /\ vu' \in [VUs -> {"off", "ready", "send", "done"}] /\ over' \in BOOLEAN
      /\ \A v \in VUs : /\ vu'[v] = "send" <=> vu[v] = "send"
                        /\ vu'[v] # "off" <=> vu[v] # "off"
  BY <1>1 DEF Stop, TimeUp, TypeOK
<1>3. TypeOK'
  BY <1>1, <1>2 DEF TypeOK
<1>4. CollectorInv' /\ StatInv' /\ NothingLost'
  BY <1>1, <1>2, NothingMoves
<1>5. MainInv'
  BY <1>1, <1>2 DEF MainInv, Label, RowsInv, RowRead, Least, LeastSum
<1>6. PanicCause' /\ LineConsistent'
  BY <1>1 DEF IndInv, PanicCause, LineConsistent, At, Label
<1> QED BY <1>3, <1>4, <1>5, <1>6 DEF IndInv

(* The collector's steps: main, if it reports, meets numbers that grow. *)

(* The report and its last line go through the five statistics. *)
LEMMA LabelFacts ==
  ASSUME TypeOK
  PROVE  /\ main.at \in 1..5 /\ Len(Reported) = 5 /\ Label \in Stats
         /\ count[Label] \in Nat /\ durs[Label] \in Nat /\ errCount[Label] \in Nat
<1>1. main.at \in 1..5 /\ Len(Reported) = 5
  BY DEF TypeOK, Reported
<1>2. /\ Reported[1] \in Stats /\ Reported[2] \in Stats /\ Reported[3] \in Stats
      /\ Reported[4] \in Stats /\ Reported[5] \in Stats
  BY DEF Reported, Stats, AllOps
<1>3. main.at \in {1, 2, 3, 4, 5}
  BY <1>1
<1>4. Label \in Stats
  BY <1>2, <1>3 DEF Label
<1>5. count[Label] \in Nat /\ durs[Label] \in Nat /\ errCount[Label] \in Nat
  BY <1>4 DEF TypeOK
<1> QED BY <1>1, <1>4, <1>5

(* What the report has loaded are numbers. *)
LEMMA SeenFacts ==
  ASSUME TypeOK
  PROVE  /\ \A s \in Stats : seen.rows[s] \in Nat /\ count[s] \in Nat
         /\ {Total, "CreateUser", "CreateOrder", "GetUser", "GetOrder"} \subseteq Stats
         /\ seen.durs \in Nat
<1>1. {Total, "CreateUser", "CreateOrder", "GetUser", "GetOrder"} \subseteq Stats
  BY DEF Stats, AllOps
<1>2. seen.rows \in [Stats -> Nat] /\ seen.durs \in Nat
  BY DEF TypeOK, Views
<1>3. count \in [Stats -> 0..MaxCalls] /\ MaxCalls \in Nat
  BY ConstantFacts DEF TypeOK
<1> QED BY <1>1, <1>2, <1>3

(* What main knows survives a step of the collector. *)
LEMMA MainKeeps ==
  ASSUME IndInv, Alive, UNCHANGED <<userIDs, vu, main, seen>>,
         \A s \in Stats : count[s] \in Nat /\ count'[s] \in Nat /\ count[s] <= count'[s]
  PROVE  MainInv' /\ PanicCause' /\ LineConsistent'
<1>1. TypeOK /\ MainInv /\ PanicCause /\ LineConsistent
  BY DEF IndInv
<1>2. Label \in Stats /\ Label' = Label
  BY <1>1, LabelFacts DEF Label
<1>3. \A s \in Stats : seen.rows[s] \in Nat
  BY <1>1, SeenFacts
<1>4. RowsInv'
  <2>1. \A s \in Stats : seen.rows[s] <= count'[s]
    BY <1>1, <1>3 DEF MainInv, RowsInv
  <2>2. ASSUME NEW i \in 1..5, NEW s \in Stats
        PROVE  /\ Least(i, s) \in Nat /\ Least(i, s)' \in Nat /\ Least(i, s) <= Least(i, s)'
               /\ RowRead(i)' = RowRead(i)
    BY <1>3 DEF Least, RowRead
  <2>3. /\ LeastSum \in Nat /\ LeastSum' \in Nat /\ LeastSum <= LeastSum'
        /\ RowRead(1)' = RowRead(1)
    BY <1>1, <2>2, SeenFacts DEF LeastSum
  <2>4. RowRead(1) => seen.rows[Total] <= LeastSum + 1
    BY <1>1 DEF MainInv, RowsInv
  <2> QED BY <1>1, <1>3, <2>1, <2>3, <2>4, SeenFacts DEF RowsInv
<1>5. MainInv'
  BY <1>1, <1>2, <1>4 DEF MainInv
<1>6. PanicCause' /\ LineConsistent'
  BY <1>1, <1>2 DEF PanicCause, LineConsistent, Alive, At
<1> QED BY <1>5, <1>6

(* The head of the channel moves into the collector's hands. *)
LEMMA ReceiveInv ==
  ASSUME IndInv, Receive \/ RangeEnds
  PROVE  IndInv'
<1>1. /\ TypeOK /\ CollectorInv /\ StatInv /\ NothingLost /\ Alive
      /\ collector.do = "recv" /\ collector.at = Total /\ got = NoResult
      /\ UNCHANGED <<userIDs, orderIDs, calls, vu, result, over, closed, count, errCount, durs,
                     main, seen>>
  BY DEF IndInv, CollectorInv, Receive, RangeEnds, Ranging, testVars, vuVars, statVars
<1>2. \A s \in Stats : count[s] \in Nat /\ count'[s] \in Nat /\ count[s] <= count'[s]
  BY <1>1 DEF TypeOK
<1>3. MainInv' /\ PanicCause' /\ LineConsistent'
  BY <1>1, <1>2, MainKeeps
<1>4. CASE RangeEnds
  <2>1. collector' = [at |-> Total, do |-> "done"] /\ got' = got /\ results' = results
    BY <1>1, <1>4 DEF RangeEnds, TypeOK
  <2>2. TypeOK' /\ CollectorInv'
    BY <1>1, <2>1, ConstantFacts DEF TypeOK, CollectorInv
  <2>3. StatInv'
    BY <1>1, <2>1 DEF StatInv, Adding, Between, Total
  <2>4. \A s : Sending(s)' = Sending(s) /\ Queued(results, s)' = Queued(results, s)
               /\ Uncounted(s)' = Uncounted(s)
    BY <1>1, <2>1 DEF Sending, Queued, Uncounted, Counts, NoResult
  <2>5. NothingLost'
    BY <1>1, <2>4 DEF NothingLost, Pending
  <2> QED BY <1>3, <2>2, <2>3, <2>5 DEF IndInv
<1>5. CASE Receive
  <2>1. /\ results # <<>> /\ results \in Seq(Results) /\ Len(results) <= Capacity
        /\ got' = Head(results) /\ results' = Tail(results)
        /\ collector' = [at |-> Total, do |-> "count"]
    BY <1>1, <1>5 DEF Receive, TypeOK
  <2>2. /\ got' \in Results /\ results' \in Seq(Results) /\ Len(results') <= Capacity
    BY <2>1, ConstantFacts
  <2>3. TypeOK' /\ CollectorInv'
    BY <1>1, <2>1, <2>2, ConstantFacts DEF TypeOK, CollectorInv
  <2>4. StatInv'
    BY <1>1, <2>1 DEF StatInv, Adding, Between, Total
  <2>5. ASSUME NEW s \in Stats PROVE Pending(s)' = Pending(s)
    <3>1. /\ Cardinality(Queued(results, s))
              = Cardinality(Queued(Tail(results), s)) + (IF Counts(Head(results), s) THEN 1 ELSE 0)
          /\ Cardinality(Queued(results, s)) \in Nat /\ Cardinality(Queued(Tail(results), s)) \in Nat
      BY <2>1, <2>2, TailCounts, QueuedFacts
    <3>2. Queued(results, s)' = Queued(Tail(results), s) /\ Sending(s)' = Sending(s)
      BY <1>1, <2>1 DEF Queued, Counts, Sending
    <3>3. ~Uncounted(s)
      BY <1>1, ConstantFacts DEF Uncounted
    <3>4. Uncounted(s)' <=> Counts(Head(results), s)
      BY <2>1, <2>2, ConstantFacts DEF Uncounted, Counts
    <3>5. Cardinality(Sending(s)) \in Nat
      BY SendingFacts
    <3> QED BY <3>1, <3>2, <3>3, <3>4, <3>5 DEF Pending
  <2>6. NothingLost'
    BY <1>1, <2>5 DEF NothingLost
  <2> QED BY <1>3, <2>3, <2>4, <2>6 DEF IndInv
<1> QED BY <1>4, <1>5

(* Adding a result: first the count, then the error, then the duration. *)
LEMMA AddInv ==
  ASSUME IndInv, AddCount \/ AddErr \/ AddDuration
  PROVE  IndInv'
<1> DEFINE a == collector.at
<1>1. /\ TypeOK /\ CollectorInv /\ StatInv /\ NothingLost /\ Alive
      /\ collector.do \in {"count", "err", "durs"}
      /\ UNCHANGED <<userIDs, orderIDs, calls, vu, result, over, results, closed, main, seen>>
  BY DEF IndInv, AddCount, AddErr, AddDuration, testVars, vuVars
<1>2. /\ got \in Results /\ a \in {Total, got.op} /\ a \in Stats /\ Total \in Stats
      /\ got.op \in Stats /\ got.op # Total /\ got.op \in AllOps /\ got.err \in BOOLEAN
      /\ collector = [at |-> a, do |-> collector.do]
      /\ NoResult.op = Total
  BY <1>1, ConstantFacts DEF CollectorInv, TypeOK
<1>3. \A s \in Stats : count[s] \in Nat /\ errCount[s] \in Nat /\ durs[s] \in Nat
  BY <1>1 DEF TypeOK
<1>4. \A s : Sending(s)' = Sending(s) /\ Queued(results, s)' = Queued(results, s)
  BY <1>1 DEF Sending, Queued, Counts
<1>5. \A s \in Stats : /\ calls[s] = count[s] + Pending(s)
                       /\ Cardinality(Sending(s)) \in Nat /\ Cardinality(Queued(results, s)) \in Nat
  BY <1>1, SendingFacts, QueuedFacts DEF NothingLost, TypeOK
<1>6. /\ \A s \in Stats : /\ durs[s] = count[s] - (IF Adding(s) THEN 1 ELSE 0)
                          /\ errCount[s] <= count[s]
                          /\ Adding(s) /\ collector.do = "err" => errCount[s] < count[s]
                          /\ calls[s] <= calls[Total]
      /\ count[Total] = count["CreateUser"] + count["CreateOrder"] + count["GetUser"]
                          + count["GetOrder"] + Between
  BY <1>1 DEF StatInv
<1>7. \A s \in Stats : Uncounted(s)' <=> \/ Uncounted(s) /\ ~AddCount
                                         \/ Uncounted(s) /\ AddCount /\ s # a
  <2>1. CASE AddCount
    <3>1. got' = got /\ collector'.at = a /\ collector'.do \in {"err", "durs"}
          /\ collector.do = "count"
      BY <1>2, <2>1 DEF AddCount
    <3> QED BY <1>2, <2>1, <3>1 DEF Uncounted
  <2>2. CASE AddErr
    <3>1. got' = got /\ collector'.at = a /\ collector'.do = "durs" /\ collector.do = "err"
      BY <1>2, <2>2 DEF AddErr
    <3>2. ~AddCount
      BY <3>1 DEF AddCount
    <3> QED BY <1>2, <3>1, <3>2 DEF Uncounted
  <2>3. CASE AddDuration
    <3>1. /\ collector.do = "durs"
          /\ a = Total => got' = got /\ collector'.at = got.op /\ collector'.do = "count"
          /\ a # Total => got' = NoResult /\ collector'.at = Total /\ collector'.do = "recv"
      BY <1>2, <2>3 DEF AddDuration
    <3>2. ~AddCount
      BY <3>1 DEF AddCount
    <3> QED BY <1>2, <3>1, <3>2 DEF Uncounted
  <2> QED BY <1>1, <2>1, <2>2, <2>3
<1> HIDE DEF a
<1>8. CASE AddCount
  <2>1. /\ count' = [count EXCEPT ![a] = @ + 1] /\ collector.do = "count"
        /\ collector' = [at |-> a, do |-> IF got.err THEN "err" ELSE "durs"]
        /\ got' = got /\ errCount' = errCount /\ durs' = durs
    BY <1>2, <1>8 DEF AddCount, a
  <2>2. /\ count'[a] = count[a] + 1 /\ \A s \in Stats : s # a => count'[s] = count[s]
        /\ \A s \in Stats : count'[s] \in Nat /\ count[s] <= count'[s]
        /\ count' \in [Stats -> Nat]
    <3>1. count \in [Stats -> Nat]
      BY <1>1 DEF TypeOK
    <3> QED BY <1>2, <1>3, <2>1, <3>1, Incremented
  <2>3. CollectorInv'
    BY <1>1, <1>2, <2>1 DEF CollectorInv
  <2>4. /\ collector'.at = a /\ collector'.do \in {"err", "durs"} /\ collector.at = a
        /\ \A s \in Stats : ~Adding(s) /\ (Adding(s)' <=> s = a)
    BY <1>2, <2>1 DEF Adding, a
  <2>5. count'[Total] = count'["CreateUser"] + count'["CreateOrder"] + count'["GetUser"]
                          + count'["GetOrder"] + Between'
    <3>1. /\ "CreateUser" \in Stats /\ "CreateOrder" \in Stats /\ "GetUser" \in Stats
          /\ "GetOrder" \in Stats
      BY DEF Stats, AllOps
    <3>2. CASE a = Total
      <4>1. Between = 0 /\ Between' = 1
        BY <2>1, <2>4, <3>2 DEF Between
      <4>2. Total \notin AllOps
        BY ConstantFacts
      <4> QED BY <1>3, <1>6, <2>2, <3>1, <3>2, <4>1, <4>2 DEF AllOps
    <3>3. CASE a # Total
      <4>1. Between = 1 /\ Between' = 0
        BY <2>1, <2>4, <3>3 DEF Between
      <4>2. a \in AllOps
        BY <1>2, <3>3
      <4> QED BY <1>2, <1>3, <1>6, <2>2, <3>1, <3>3, <4>1, <4>2 DEF AllOps
    <3> QED BY <3>2, <3>3
  <2>6. StatInv'
    <3>1. ASSUME NEW s \in Stats
          PROVE  /\ durs'[s] = count'[s] - (IF Adding(s)' THEN 1 ELSE 0)
                 /\ errCount'[s] <= count'[s]
                 /\ Adding(s)' /\ collector'.do = "err" => errCount'[s] < count'[s]
                 /\ calls'[s] <= calls'[Total]
      BY <1>1, <1>3, <1>6, <2>1, <2>2, <2>4
    <3> QED BY <2>5, <3>1 DEF StatInv
  <2>7. NothingLost'
    <3>1. ASSUME NEW s \in Stats PROVE calls'[s] = count'[s] + Pending(s)'
      <4>1. Uncounted(a)
        BY <1>2, <2>1, <2>4 DEF Uncounted
      <4> QED BY <1>1, <1>2, <1>3, <1>4, <1>5, <1>7, <1>8, <2>2, <4>1 DEF Pending
    <3> QED BY <3>1 DEF NothingLost
  <2>8. count' \in [Stats -> 0..MaxCalls]
    <3>1. ASSUME NEW s \in Stats PROVE count'[s] \in 0..MaxCalls
      <4>1. calls[s] = count'[s] + Pending(s)' /\ Pending(s)' \in Nat
        BY <1>1, <1>4, <1>5, <2>7 DEF NothingLost, Pending
      <4>2. calls[s] \in 0..MaxCalls
        BY <1>1 DEF TypeOK
      <4> QED BY <2>2, <4>1, <4>2, ConstantFacts
    <3> QED BY <2>2, <3>1
  <2>9. TypeOK'
    BY <1>1, <1>2, <2>1, <2>8 DEF TypeOK
  <2>10. MainInv' /\ PanicCause' /\ LineConsistent'
    BY <1>1, <1>3, <2>2, MainKeeps
  <2> QED BY <2>3, <2>6, <2>7, <2>9, <2>10 DEF IndInv
<1>9. ASSUME ~AddCount, count' = count, collector'.at \in Stats, got' \in Results \cup {NoResult},
             collector' \in [at : Stats, do : {"recv", "count", "err", "durs", "done"}],
             errCount' \in [Stats -> Nat], durs' \in [Stats -> Nat], CollectorInv', StatInv'
      PROVE  IndInv'
  <2>1. NothingLost'
    BY <1>1, <1>4, <1>5, <1>7, <1>9 DEF NothingLost, Pending
  <2>2. \A s \in Stats : errCount'[s] <= count'[s] /\ durs'[s] <= count'[s]
    BY <1>3, <1>9 DEF StatInv
  <2>3. errCount' \in [Stats -> 0..MaxCalls] /\ durs' \in [Stats -> 0..MaxCalls]
    <3>1. \A s \in Stats : count[s] \in 0..MaxCalls
      BY <1>1 DEF TypeOK
    <3> QED BY <1>9, <2>2, <3>1, ConstantFacts
  <2>4. TypeOK'
    BY <1>1, <1>9, <2>3 DEF TypeOK
  <2>5. MainInv' /\ PanicCause' /\ LineConsistent'
    BY <1>1, <1>3, <1>9, MainKeeps
  <2> QED BY <1>9, <2>1, <2>4, <2>5 DEF IndInv
<1>10. CASE AddErr
  <2>1. /\ errCount' = [errCount EXCEPT ![a] = @ + 1] /\ collector.do = "err"
        /\ collector' = [at |-> a, do |-> "durs"] /\ collector.at = a
        /\ got' = got /\ count' = count /\ durs' = durs /\ ~AddCount
    BY <1>2, <1>10 DEF AddErr, AddCount, a
  <2>2. CollectorInv'
    BY <1>1, <1>2, <2>1 DEF CollectorInv
  <2>3. Between' = Between /\ \A s \in Stats : (Adding(s)' <=> Adding(s)) /\ (Adding(s) <=> s = a)
    BY <1>2, <2>1 DEF Between, Adding
  <2>4. errCount' \in [Stats -> Nat] /\ \A s \in Stats : errCount'[s] <= count[s]
    <3>1. errCount \in [Stats -> Nat]
      BY <1>1 DEF TypeOK
    <3>2. errCount[a] < count[a]
      BY <1>2, <1>6, <2>1, <2>3
    <3> QED BY <1>2, <1>3, <1>6, <2>1, <3>1, <3>2, Incremented
  <2>5. StatInv'
    BY <1>1, <1>6, <2>1, <2>3, <2>4 DEF StatInv
  <2>6. durs' \in [Stats -> Nat]
    BY <1>1, <2>1 DEF TypeOK
  <2> QED BY <1>2, <1>9, <2>1, <2>2, <2>4, <2>5, <2>6
<1>11. CASE AddDuration
  <2>1. /\ durs' = [durs EXCEPT ![a] = @ + 1] /\ collector.do = "durs" /\ collector.at = a
        /\ got' = (IF a = Total THEN got ELSE NoResult)
        /\ collector' = (IF a = Total THEN [at |-> got.op, do |-> "count"]
                                      ELSE [at |-> Total, do |-> "recv"])
        /\ count' = count /\ errCount' = errCount /\ ~AddCount
    BY <1>2, <1>11 DEF AddDuration, Appended, AddCount, a
  <2>2. CollectorInv'
    BY <1>1, <1>2, <2>1 DEF CollectorInv
  <2>3. Between' = Between /\ \A s \in Stats : ~Adding(s)' /\ (Adding(s) <=> s = a)
    BY <1>2, <2>1 DEF Between, Adding
  <2>4. durs' \in [Stats -> Nat] /\ \A s \in Stats : durs'[s] = count[s]
    <3>1. durs \in [Stats -> Nat]
      BY <1>1 DEF TypeOK
    <3>2. durs[a] = count[a] - 1 /\ \A s \in Stats : s # a => durs[s] = count[s]
      BY <1>2, <1>3, <1>6, <2>3
    <3> QED BY <1>2, <1>3, <2>1, <3>1, <3>2, Incremented
  <2>5. StatInv'
    BY <1>1, <1>3, <1>6, <2>1, <2>3, <2>4 DEF StatInv
  <2>6. errCount' \in [Stats -> Nat]
    BY <1>1, <2>1 DEF TypeOK
  <2> QED BY <1>2, <1>9, <2>1, <2>2, <2>4, <2>5, <2>6
<1> QED BY <1>8, <1>10, <1>11
(* main's steps: what the collector has is left alone. *)

(* Before the report. *)
LEMMA SetUpInv ==
  ASSUME IndInv,
         \/ Dial \/ Wait
         \/ \E n \in 0..1 : CreateUsers(n)
         \/ \E n \in 0..1 : CreateOrders(n)
  PROVE  IndInv'
<1>1. /\ TypeOK /\ MainInv
      /\ UNCHANGED <<calls, result, over, results, collector, got, count, errCount, durs, seen>>
  BY DEF IndInv, Dial, Wait, CreateUsers, CreateOrders, testVars, vuVars, queueVars, statVars
<1>2. main.do \in {"dial", "users", "orders", "wait"}
      /\ main'.do \in {"users", "orders", "wait", "n", "fatal"} /\ main'.at = main.at
      /\ main' \in [do : {"users", "orders", "wait", "n", "fatal"}, at : 1..Len(Reported)]
  BY <1>1 DEF TypeOK, Dial, Wait, CreateUsers, CreateOrders, At, Goto, AfterUsers
<1>3. Cardinality(VUs) \in Nat
  BY ConstantFacts, FS_CardinalityType
<1>4. /\ userIDs' \in 0..1 /\ orderIDs' \in 0..1
      /\ closed' \in BOOLEAN /\ vu' \in [VUs -> {"off", "ready", "send", "done"}]
  <2>1. userIDs \in 0..1 /\ orderIDs \in 0..1
        /\ closed \in BOOLEAN /\ vu \in [VUs -> {"off", "ready", "send", "done"}]
    BY <1>1 DEF TypeOK
  <2>2. CASE Dial \/ Wait
    BY <2>1, <2>2 DEF Dial, Wait, testVars, vuVars, queueVars
  <2>3. CASE \E n \in 0..1 : CreateUsers(n)
    BY <2>1, <2>3 DEF CreateUsers, vuVars, queueVars
  <2>4. CASE \E n \in 0..1 : CreateOrders(n)
    BY <2>1, <2>4 DEF CreateOrders, queueVars
  <2> QED BY <2>2, <2>3, <2>4
<1>5. /\ \A v \in VUs : vu'[v] # "off" => userIDs' > 0
      /\ \A v \in VUs : vu'[v] = "send" <=> vu[v] = "send"
      /\ main'.do \in {"users", "orders"} => \A v \in VUs : vu'[v] = "off"
      /\ main'.do = "orders" => userIDs' > 0
  <2>1. CASE Dial \/ Wait
    <3>1. vu' = vu /\ userIDs' = userIDs
      BY <2>1 DEF Dial, Wait, testVars, vuVars
    <3>2. main'.do # "orders"
      BY <1>1, <2>1 DEF Dial, Wait, Goto, TypeOK
    <3>3. main'.do = "users" => main.do = "dial"
      BY <1>1, <2>1 DEF Dial, Wait, At, Goto, TypeOK
    <3> QED BY <1>1, <3>1, <3>2, <3>3 DEF TypeOK, MainInv
  <2>2. ASSUME NEW n \in 0..1, CreateUsers(n)
        PROVE  /\ \A v \in VUs : vu'[v] # "off" => userIDs' > 0
               /\ \A v \in VUs : vu'[v] = "send" <=> vu[v] = "send"
               /\ main'.do \in {"users", "orders"} => \A v \in VUs : vu'[v] = "off"
               /\ main'.do = "orders" => userIDs' > 0
    <3>1. vu' = vu /\ userIDs' = n /\ main.do = "users"
      BY <2>2 DEF CreateUsers, vuVars, At
    <3>2. main'.do = "orders" => n # 0
      BY <1>1, <2>2 DEF CreateUsers, Goto, AfterUsers, TypeOK
    <3>3. \A v \in VUs : vu[v] = "off"
      BY <1>1, <3>1 DEF MainInv
    <3> QED BY <1>3, <3>1, <3>2, <3>3
  <2>3. ASSUME NEW n \in 0..1, CreateOrders(n)
        PROVE  /\ \A v \in VUs : vu'[v] # "off" => userIDs' > 0
               /\ \A v \in VUs : vu'[v] = "send" <=> vu[v] = "send"
               /\ main'.do \in {"users", "orders"} => \A v \in VUs : vu'[v] = "off"
               /\ main'.do = "orders" => userIDs' > 0
    <3>1. userIDs' = userIDs /\ main.do = "orders" /\ \A v \in VUs : vu'[v] = "ready"
      BY <2>3 DEF CreateOrders, At
    <3>2. main'.do = "wait"
      BY <1>1, <2>3 DEF CreateOrders, Goto, TypeOK
    <3>3. userIDs > 0 /\ \A v \in VUs : vu[v] = "off"
      BY <1>1, <3>1 DEF MainInv
    <3> QED BY <3>1, <3>2, <3>3
  <2> QED BY <2>1, <2>2, <2>3
<1>6. TypeOK'
  BY <1>1, <1>2, <1>4, <1>5 DEF TypeOK
<1>7. CollectorInv' /\ StatInv' /\ NothingLost'
  BY <1>1, <1>5, NothingMoves
<1>8. MainInv'
  <2>1. ~RowRead(1)' /\ (\A s \in Stats : seen'.rows[s] <= count'[s])
    BY <1>1, <1>2 DEF MainInv, RowsInv, RowRead
  <2>2. main'.at = 1
    BY <1>1, <1>2 DEF MainInv
  <2> QED BY <1>2, <1>5, <2>1, <2>2 DEF MainInv, RowsInv
<1>9. PanicCause' /\ LineConsistent'
  BY <1>2 DEF PanicCause, LineConsistent, At
<1> QED BY <1>6, <1>7, <1>8, <1>9 DEF IndInv

(* What the steps of the report share. *)
LEMMA ReportKeeps ==
  ASSUME IndInv,
         \/ LoadCount \/ CopyDurations \/ LoadErrs
         \/ \E line \in [Stats -> 0..MaxCalls] : ReadLine(line),
         main' \in [do : {"n", "durs", "errs", "line", "panic", "exit"}, at : 1..5],
         seen' \in Views,
         MainInv', PanicCause', LineConsistent'
  PROVE  IndInv'
<1>1. /\ TypeOK
      /\ UNCHANGED <<userIDs, orderIDs, calls, vu, result, over, results, closed, collector, got,
                     count, errCount, durs>>
  BY DEF IndInv, LoadCount, CopyDurations, LoadErrs, ReadLine, testVars, vuVars, queueVars, statVars
<1>2. TypeOK'
  <2>1. Len(Reported) = 5
    BY <1>1, LabelFacts
  <2> QED BY <1>1, <2>1 DEF TypeOK
<1>3. CollectorInv' /\ StatInv' /\ NothingLost'
  BY <1>1, NothingMoves
<1> QED BY <1>2, <1>3 DEF IndInv

(* The count of a row becomes the least that can be found of it later; the *)
(* total's, loaded first, is at most one ahead of the operations.          *)
LEMMA LoadCountInv ==
  ASSUME IndInv, LoadCount
  PROVE  IndInv'
<1>1. /\ TypeOK /\ MainInv /\ StatInv /\ main.do = "n" /\ count' = count
      /\ seen' = [seen EXCEPT !.rows[Label] = count[Label]]
  BY DEF IndInv, LoadCount, At, statVars
<1>2. /\ main.at \in 1..5 /\ Len(Reported) = 5 /\ Label \in Stats
      /\ \A s \in Stats : seen.rows[s] \in Nat /\ count[s] \in Nat
  BY <1>1, LabelFacts, SeenFacts
<1>3. /\ seen' \in Views /\ seen'.rows[Label] = count[Label]
      /\ \A s \in Stats : s # Label => seen'.rows[s] = seen.rows[s]
  BY <1>1, <1>2 DEF TypeOK, Views
<1>4. /\ main' \in [do : {"n", "durs", "errs", "line", "panic", "exit"}, at : 1..5]
      /\ \/ main' = [do |-> "durs", at |-> main.at] /\ count[Label] # 0
         \/ main' = [do |-> "n", at |-> main.at + 1] /\ main.at < 5
         \/ main' = [do |-> "line", at |-> 1] /\ main.at = 5
  <2>1. CASE count[Label] = 0
    BY <1>2, <2>1 DEF LoadCount, NextReport
  <2>2. CASE count[Label] # 0
    <3>1. main' = [do |-> "durs", at |-> main.at]
      BY <1>1, <2>2 DEF LoadCount, Goto, TypeOK
    <3> QED BY <1>2, <2>2, <3>1
  <2> QED BY <2>1, <2>2
<1>5. ASSUME NEW i \in 1..5
      PROVE  (RowRead(i) <=> i < main.at) /\ (RowRead(i)' <=> i <= main.at)
  <2>1. RowRead(i) <=> i < main.at
    BY <1>1, <1>2 DEF RowRead
  <2>0. i \in Int /\ main.at \in Int
    BY <1>2
  <2>2. CASE main' = [do |-> "durs", at |-> main.at]
    BY <1>2, <2>1, <2>2 DEF RowRead
  <2>3. CASE main' = [do |-> "n", at |-> main.at + 1]
    <3>1. RowRead(i)' <=> i < main.at + 1
      BY <2>3 DEF RowRead
    <3> QED BY <2>0, <2>1, <3>1
  <2>4. CASE main' = [do |-> "line", at |-> 1] /\ main.at = 5
    BY <1>2, <2>1, <2>4 DEF RowRead
  <2> QED BY <1>4, <2>2, <2>3, <2>4
<1>6. RowsInv'
  <2>1. \A s \in Stats : seen'.rows[s] <= count'[s]
    BY <1>1, <1>2, <1>3 DEF MainInv, RowsInv
  <2>2. /\ Least(2, "CreateUser")' = Least(2, "CreateUser")
        /\ Least(3, "GetUser")' = Least(3, "GetUser")
        /\ Least(4, "CreateOrder")' = Least(4, "CreateOrder")
        /\ Least(5, "GetOrder")' = Least(5, "GetOrder")
    <3>1. ASSUME NEW i \in 2..5
          PROVE  Least(i, Reported[i])' = Least(i, Reported[i])
      <4>1. Reported[i] \in Stats /\ (Reported[i] = Label <=> i = main.at)
        <5>1. i \in {2, 3, 4, 5} /\ main.at \in {1, 2, 3, 4, 5}
          BY <1>2
        <5> QED BY <5>1 DEF Reported, Label, Stats, AllOps, Total
      <4> QED BY <1>1, <1>2, <1>3, <1>5, <4>1 DEF Least
    <3> QED BY <3>1 DEF Reported
  <2>3. LeastSum' = LeastSum
    BY <2>2 DEF LeastSum
  <2>4. CASE main.at = 1
    <3>1. Label = Total
      BY <2>4 DEF Label, Reported
    <3>2. LeastSum = count["CreateUser"] + count["GetUser"] + count["CreateOrder"]
                       + count["GetOrder"]
      BY <1>5, <2>4 DEF LeastSum, Least
    <3>3. count[Total] <= LeastSum + 1
      <4>1. Between \in {0, 1}
        BY DEF Between
      <4>2. count[Total] = count["CreateUser"] + count["CreateOrder"] + count["GetUser"]
                             + count["GetOrder"] + Between
        BY <1>1 DEF StatInv
      <4> QED BY <1>1, <1>2, <3>2, <4>1, <4>2, SeenFacts
    <3> QED BY <1>3, <2>1, <2>3, <3>1, <3>3 DEF RowsInv
  <2>5. CASE main.at # 1
    <3>1. RowRead(1)
      BY <1>2, <1>5, <2>5
    <3>2. Total # Label
      <4>1. main.at \in {2, 3, 4, 5}
        BY <1>2, <2>5
      <4> QED BY <4>1 DEF Label, Reported, Total
    <3> QED BY <1>1, <1>3, <2>1, <2>3, <3>1, <3>2, SeenFacts DEF MainInv, RowsInv
  <2> QED BY <2>4, <2>5
<1>7. MainInv'
  <2>1. main'.do = "durs" => Label' = Label /\ 1 <= seen'.rows[Label]
    BY <1>2, <1>3, <1>4 DEF Label
  <2> QED BY <1>4, <1>6, <2>1 DEF MainInv
<1>8. PanicCause' /\ LineConsistent'
  BY <1>4 DEF PanicCause, LineConsistent, At
<1> QED BY <1>3, <1>4, <1>7, <1>8, ReportKeeps

(* The durations are one behind the count only during an add. *)
LEMMA CopyDurationsInv ==
  ASSUME IndInv, CopyDurations
  PROVE  IndInv'
<1>1. /\ TypeOK /\ MainInv /\ StatInv /\ main.do = "durs"
      /\ count' = count /\ collector' = collector
      /\ seen' = [seen EXCEPT !.durs = durs[Label]]
      /\ main' = [main EXCEPT !.do = IF durs[Label] = 0 THEN "panic" ELSE "errs"]
  BY DEF IndInv, CopyDurations, At, Goto, statVars, queueVars
<1>2. /\ main.at \in 1..5 /\ Label \in Stats /\ count[Label] \in Nat /\ durs[Label] \in Nat
      /\ seen.rows[Label] \in Nat
  BY <1>1, LabelFacts, SeenFacts
<1>3. /\ main' \in [do : {"n", "durs", "errs", "line", "panic", "exit"}, at : 1..5]
      /\ main'.do = (IF durs[Label] = 0 THEN "panic" ELSE "errs") /\ main'.at = main.at
  BY <1>1, <1>2 DEF TypeOK
<1>4. seen' \in Views /\ seen'.durs = durs[Label] /\ seen'.rows = seen.rows
  BY <1>1, <1>2 DEF TypeOK, Views
<1>5. Label' = Label
  BY <1>3 DEF Label
<1>6. MainInv'
  <2>1. \A i \in 1..5 : RowRead(i)' = RowRead(i)
    BY <1>1, <1>3 DEF RowRead
  <2>2. LeastSum' = LeastSum
    BY <1>1, <1>4, <2>1 DEF LeastSum, Least
  <2> QED BY <1>1, <1>3, <1>4, <2>1, <2>2 DEF MainInv, RowsInv
<1>7. 1 <= seen.rows[Label] /\ seen.rows[Label] <= count[Label]
  BY <1>1, <1>2 DEF MainInv, RowsInv
<1>8. durs[Label] = count[Label] - (IF Adding(Label) THEN 1 ELSE 0)
  BY <1>1, <1>2 DEF StatInv
<1>9. PanicCause'
  <2>1. CASE durs[Label] = 0
    <3>1. Adding(Label) /\ count[Label] = 1
      BY <1>2, <1>7, <1>8, <2>1
    <3> QED BY <1>1, <1>3, <1>5, <2>1, <3>1 DEF PanicCause, At, Adding
  <2>2. CASE durs[Label] # 0
    <3>1. seen.rows[Label] <= durs[Label] + 1
      BY <1>2, <1>7, <1>8
    <3> QED BY <1>3, <1>4, <1>5, <2>2, <3>1 DEF PanicCause, At
  <2> QED BY <2>1, <2>2
<1>10. LineConsistent'
  BY <1>3 DEF LineConsistent, At
<1> QED BY <1>3, <1>4, <1>6, <1>9, <1>10, ReportKeeps

(* After the errors the next statistic, or the last line. *)
LEMMA LoadErrsInv ==
  ASSUME IndInv, LoadErrs
  PROVE  IndInv'
<1>1. /\ TypeOK /\ MainInv /\ main.do = "errs" /\ count' = count
      /\ seen' = [seen EXCEPT !.durs = 0]
  BY DEF IndInv, LoadErrs, At, statVars
<1>2. main.at \in 1..5 /\ Len(Reported) = 5
  BY <1>1, LabelFacts
<1>3. seen' \in Views /\ seen'.rows = seen.rows
  BY <1>1 DEF TypeOK, Views
<1>4. main' = IF main.at < 5 THEN [do |-> "n", at |-> main.at + 1] ELSE [do |-> "line", at |-> 1]
  BY <1>2 DEF LoadErrs, NextReport
<1>5. main' \in [do : {"n", "durs", "errs", "line", "panic", "exit"}, at : 1..5]
      /\ main'.do \in {"n", "line"}
  BY <1>2, <1>4
<1>6. MainInv'
  <2>1. ASSUME NEW i \in 1..5 PROVE RowRead(i)' = RowRead(i)
    <3>1. RowRead(i) <=> i <= main.at
      BY <1>1, <1>2 DEF RowRead
    <3>2. CASE main.at < 5
      <4>1. main' = [do |-> "n", at |-> main.at + 1]
        BY <1>4, <3>2
      <4>2. RowRead(i)' <=> i < main.at + 1
        BY <4>1 DEF RowRead
      <4>3. i < main.at + 1 <=> i <= main.at
        BY <1>2
      <4> QED BY <3>1, <4>2, <4>3 DEF RowRead
    <3>3. CASE main.at = 5
      BY <1>2, <1>4, <3>1, <3>3 DEF RowRead
    <3> QED BY <1>2, <3>2, <3>3
  <2>2. LeastSum' = LeastSum
    BY <1>1, <1>3, <2>1 DEF LeastSum, Least
  <2> QED BY <1>1, <1>3, <1>5, <2>1, <2>2 DEF MainInv, RowsInv
<1>7. PanicCause' /\ LineConsistent'
  BY <1>5 DEF PanicCause, LineConsistent, At
<1> QED BY <1>3, <1>5, <1>6, <1>7, ReportKeeps

(* Whatever the last line finds lies between the rows and the counts. *)
LEMMA ReadLineInv ==
  ASSUME IndInv, NEW line \in [Stats -> 0..MaxCalls], ReadLine(line)
  PROVE  IndInv'
<1>1. /\ TypeOK /\ MainInv /\ StatInv /\ main.do = "line" /\ count' = count
      /\ seen' = [seen EXCEPT !.line = line] /\ main' = [main EXCEPT !.do = "exit"]
      /\ \A s \in Stats : line[s] \in seen.rows[s]..count[s]
  BY DEF IndInv, ReadLine, Loadable, Goto, At, statVars
<1>2. main' \in [do : {"n", "durs", "errs", "line", "panic", "exit"}, at : 1..5] /\ main'.do = "exit"
  BY <1>1, LabelFacts DEF TypeOK
<1>3. seen' \in Views /\ seen'.rows = seen.rows /\ seen'.line = line
  <2>1. line \in [Stats -> Nat]
    BY ConstantFacts
  <2> QED BY <1>1, <2>1 DEF TypeOK, Views
<1>4. \A i \in 1..5 : RowRead(i) /\ RowRead(i)'
  BY <1>1, <1>2 DEF RowRead
<1>5. LeastSum' = LeastSum
      /\ LeastSum = seen.rows["CreateUser"] + seen.rows["GetUser"] + seen.rows["CreateOrder"]
                       + seen.rows["GetOrder"]
  BY <1>3, <1>4 DEF LeastSum, Least
<1>6. MainInv'
  BY <1>1, <1>2, <1>3, <1>4, <1>5 DEF MainInv, RowsInv
<1>7. LineConsistent'
  <2>1. Between \in {0, 1}
    BY DEF Between
  <2>2. count[Total] = count["CreateUser"] + count["CreateOrder"] + count["GetUser"]
                         + count["GetOrder"] + Between
    BY <1>1 DEF StatInv
  <2>3. seen.rows[Total] <= LeastSum + 1
    BY <1>1, <1>4 DEF MainInv, RowsInv
  <2>4. ASSUME NEW s \in {Total, "CreateUser", "CreateOrder", "GetUser", "GetOrder"}
        PROVE  /\ seen.rows[s] \in Nat /\ count[s] \in Nat /\ line[s] \in Nat
               /\ seen.rows[s] <= line[s] /\ line[s] <= count[s]
    BY <1>1, SeenFacts
  <2> QED BY <1>1, <1>3, <1>5, <2>1, <2>2, <2>3, <2>4 DEF LineConsistent
<1>8. PanicCause'
  BY <1>2 DEF PanicCause, At
<1> QED BY <1>2, <1>3, <1>6, <1>7, <1>8, ReportKeeps

(* A step that changes nothing. *)
LEMMA Stutter == IndInv /\ UNCHANGED vars => IndInv'
<1> SUFFICES ASSUME IndInv, UNCHANGED vars PROVE IndInv'
  OBVIOUS
<1>1. CollectorInv' /\ StatInv' /\ NothingLost'
  BY NothingMoves DEF vars
<1>2. TypeOK'
  BY DEF IndInv, TypeOK, vars
<1>3. MainInv' /\ PanicCause' /\ LineConsistent'
  BY DEF IndInv, MainInv, PanicCause, LineConsistent, At, Label, RowsInv, RowRead, Least,
         LeastSum, vars
<1> QED BY <1>1, <1>2, <1>3 DEF IndInv

(* The invariant holds in every state of the load test. *)
LEMMA Invariance == Spec => []IndInv
<1>1. IndInv /\ [Next]_vars => IndInv'
  <2> SUFFICES ASSUME IndInv, [Next]_vars PROVE IndInv'
    OBVIOUS
  <2>1. ASSUME NEW v \in VUs, VUStep(v) PROVE IndInv'
    BY <2>1, CallAnsweredInv, SendResultInv, StopOrTimeUpInv DEF VUStep
  <2>2. CASE TimeUp
    BY <2>2, StopOrTimeUpInv
  <2>3. CASE CollectorStep
    BY <2>3, ReceiveInv, AddInv DEF CollectorStep
  <2>4. CASE MainStep
    BY <2>4, SetUpInv, LoadCountInv, CopyDurationsInv, LoadErrsInv, ReadLineInv DEF MainStep
  <2>5. CASE Ended
    BY <2>5, Stutter DEF Ended
  <2>6. CASE UNCHANGED vars
    BY <2>6, Stutter
  <2> QED BY <2>1, <2>2, <2>3, <2>4, <2>5, <2>6 DEF Next
<1> QED BY InitInv, <1>1, PTL DEF Spec

--------------------------------------------------------------------------------
(* The properties. *)

(***************************************************************************)
(* Every variable of the load test keeps its type: the channel never holds *)
(* more than its capacity, no statistic more than the calls made, and VUs  *)
(* only run when a user was created.                                       *)
(***************************************************************************)
THEOREM LoadTestTypeCorrect == Spec => []TypeOK
<1>1. IndInv => TypeOK
  BY DEF IndInv
<1> QED BY Invariance, <1>1, PTL

(***************************************************************************)
(* Every call a VU made is counted once or still on its way, however many  *)
(* VUs block on the full channel: the collector loses and doubles none.    *)
(***************************************************************************)
THEOREM NoResultLost == Spec => []NothingLost
<1>1. IndInv => NothingLost
  BY DEF IndInv
<1> QED BY Invariance, <1>1, PTL

(***************************************************************************)
(* The division by zero in the report has one cause: report meets the      *)
(* collector between a statistic's first count and its duration.           *)
(***************************************************************************)
THEOREM PanicHasOneCause == Spec => []PanicCause
<1>1. IndInv => PanicCause
  BY DEF IndInv
<1> QED BY Invariance, <1>1, PTL

(***************************************************************************)
(* The last line's writes and reads differ from its total by no more than  *)
(* what the collector has added since the table was begun, and one result, *)
(* whatever order the five unsynchronised loads are made in.               *)
(***************************************************************************)
THEOREM LastLineConsistent == Spec => []LineConsistent
<1>1. IndInv => LineConsistent
  BY DEF IndInv
<1> QED BY Invariance, <1>1, PTL

(***************************************************************************)
(* No VU sends on a closed channel, which would panic, and none is blocked *)
(* on a channel that nobody drains: main closes it only after wg.Wait, and *)
(* the collector ends only on a closed, empty channel.  It is why the test *)
(* ends (Terminates).                                                      *)
(***************************************************************************)
THEOREM SendersAreServed == Spec => []SendersServed
<1>1. Init => ClosedInv
  BY DEF Init, ClosedInv
<1>2. IndInv /\ ClosedInv /\ [Next]_vars => ClosedInv'
  <2> SUFFICES ASSUME TypeOK, ClosedInv, [Next]_vars PROVE ClosedInv'
    BY DEF IndInv
  <2>1. ASSUME NEW v \in VUs, VUStep(v) PROVE ClosedInv'
    <3>1. ~closed /\ UNCHANGED <<closed, collector>>
      <4>1. vu[v] # "done" /\ UNCHANGED <<closed, collector>>
        BY <2>1 DEF VUStep, CallAnswered, SendResult, Stop, queueVars
      <4> QED BY <4>1 DEF ClosedInv
    <3> QED BY <3>1 DEF ClosedInv
  <2>2. CASE TimeUp
    BY <2>2 DEF TimeUp, ClosedInv, queueVars
  <2>3. CASE Receive \/ RangeEnds
    <3>1. UNCHANGED <<main, vu, closed>> /\ collector.do = "recv"
      BY <2>3 DEF Receive, RangeEnds, Ranging, vuVars
    <3>2. CASE Receive
      BY <3>1, <3>2 DEF Receive, ClosedInv
    <3>3. CASE RangeEnds
      BY <3>1, <3>3 DEF RangeEnds, ClosedInv
    <3> QED BY <2>3, <3>2, <3>3
  <2>4. CASE AddCount \/ AddErr \/ AddDuration
    <3>1. UNCHANGED <<main, vu, closed, results>> /\ collector.do # "done"
      BY <2>4 DEF AddCount, AddErr, AddDuration, vuVars
    <3>2. collector'.do # "done"
      <4>1. CASE AddCount
        BY <4>1 DEF AddCount, TypeOK
      <4>2. CASE AddErr
        BY <4>2 DEF AddErr, TypeOK
      <4>3. CASE AddDuration
        BY <4>3 DEF AddDuration
      <4> QED BY <2>4, <4>1, <4>2, <4>3
    <3> QED BY <3>1, <3>2 DEF ClosedInv
  <2>5. CASE \/ Dial \/ \E n \in 0..1 : CreateUsers(n)
             \/ \E n \in 0..1 : CreateOrders(n)
    <3>1. ~closed /\ UNCHANGED <<closed, results, collector>>
      BY <2>5 DEF Dial, CreateUsers, CreateOrders, At, queueVars, ClosedInv
    <3> QED BY <3>1 DEF ClosedInv
  <2>6. CASE Wait
    <3>1. main'.do = "n" /\ UNCHANGED <<vu, results, collector>> /\ closed'
      BY <2>6 DEF Wait, Goto, TypeOK, vuVars
    <3> QED BY <2>6, <3>1 DEF Wait, ClosedInv
  <2>7. CASE \/ LoadCount \/ CopyDurations \/ LoadErrs
             \/ \E line \in [Stats -> 0..MaxCalls] : ReadLine(line)
    <3>1. UNCHANGED <<vu, closed, results, collector>>
      BY <2>7 DEF LoadCount, CopyDurations, LoadErrs, ReadLine, vuVars, queueVars
    <3>2. main'.do \in {"n", "durs", "errs", "line", "panic", "exit"}
      <4>1. CASE LoadCount
        BY <4>1 DEF LoadCount, NextReport, Goto, TypeOK
      <4>2. CASE CopyDurations
        BY <4>2 DEF CopyDurations, Goto, TypeOK
      <4>3. CASE LoadErrs
        BY <4>3 DEF LoadErrs, NextReport
      <4>4. CASE \E line \in [Stats -> 0..MaxCalls] : ReadLine(line)
        BY <4>4 DEF ReadLine, Goto, TypeOK
      <4> QED BY <2>7, <4>1, <4>2, <4>3, <4>4
    <3> QED BY <3>1, <3>2 DEF ClosedInv
  <2>8. CASE Ended \/ UNCHANGED vars
    BY <2>8 DEF Ended, ClosedInv, vars
  <2> QED BY <2>1, <2>2, <2>3, <2>4, <2>5, <2>6, <2>7, <2>8 DEF Next, CollectorStep, MainStep
<1>3. ClosedInv => SendersServed
  BY DEF ClosedInv, SendersServed
<1> QED BY Invariance, <1>1, <1>2, <1>3, PTL DEF Spec
================================================================================
