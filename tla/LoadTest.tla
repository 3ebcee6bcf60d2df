-------------------------------- MODULE LoadTest -------------------------------
(***************************************************************************)
(* scripts/loadtest: virtual users (VUs) make calls and send one result    *)
(* per call into a bounded channel, a collector goroutine adds results to  *)
(* the statistics, and main waits for the VUs, closes the channel and      *)
(* reports.  Nothing makes main wait for the collector.                    *)
(***************************************************************************)
EXTENDS Naturals, Sequences, FiniteSets

CONSTANTS VUs,
          Ops,        \* the operations randomOp may choose
          Capacity,   \* of the channel (100 per VU in the code)
          MaxCalls    \* bound: calls in the whole test

AllOps == {"CreateUser", "CreateOrder", "GetUser", "GetOrder"}
Total == "TOTAL"
Stats == {Total} \cup AllOps
NoResult == [op |-> Total, err |-> FALSE]
Results == [op : Ops, err : BOOLEAN]

ASSUME LoadTestAssumption ==
  /\ IsFiniteSet(VUs) /\ Ops \subseteq AllOps /\ Ops # {}
  /\ Capacity \in Nat \ {0} /\ MaxCalls \in Nat

VARIABLES
  userIDs, orderIDs,    \* users and orders made beforehand: 0, or 1 for any number
  vu,                   \* "ready", "send" or "done"
  result,               \* the result a VU is about to send
  over,                 \* the test's duration has passed
  results, closed,      \* the channel
  collector,            \* which statistic it adds to, and how far
  got,                  \* the result it adds
  count, errCount, durs,
  calls,                \* history: calls made, by statistic
  main,
  seen                  \* what main read: each row's count, the present row, the last line

vars == <<userIDs, orderIDs, vu, result, over, results, closed, collector, got, count, errCount,
          durs, calls, main, seen>>
testVars == <<userIDs, orderIDs, calls>>
statVars == <<count, errCount, durs>>
queueVars == <<results, closed, collector, got>>
vuVars == <<vu, result, over>>

Reported == <<Total, "CreateUser", "GetUser", "CreateOrder", "GetOrder">>
Zero == [s \in Stats |-> 0]
Views == [rows : [Stats -> Nat], durs : Nat, line : [Stats -> Nat]]
NothingSeen == [rows |-> Zero, durs |-> 0, line |-> Zero]

Init ==
  /\ userIDs = 0 /\ orderIDs = 0
  /\ vu = [v \in VUs |-> "off"] /\ result = [v \in VUs |-> NoResult] /\ over = FALSE
  /\ results = <<>> /\ closed = FALSE
  /\ collector = [at |-> Total, do |-> "recv"] /\ got = NoResult
  /\ count = Zero /\ errCount = Zero /\ durs = Zero /\ calls = Zero
  /\ main = [do |-> "dial", at |-> 1] /\ seen = NothingSeen

At(do) == main.do = do
Alive == main.do \notin {"fatal", "panic", "exit"}
Goto(do) == main' = [main EXCEPT !.do = do]

--------------------------------------------------------------------------------
(* Set-up: failed calls are skipped; without any user the test ends. *)

(* Both connections; a certificate that cannot be loaded is fatal. *)
Dial ==
  /\ At("dial")
  /\ Goto("users") \/ Goto("fatal")
  /\ UNCHANGED <<testVars, vuVars, queueVars, statVars, seen>>

(* Mutant: main goes on without users. *)
AfterUsers_NoFatal(n) == "orders"
AfterUsers(n) == IF n = 0 THEN "fatal" ELSE "orders"

CreateUsers(n) ==
  /\ At("users")
  /\ userIDs' = n
  /\ Goto(AfterUsers(n))
  /\ UNCHANGED <<orderIDs, calls, vuVars, queueVars, statVars, seen>>

CreateOrders(n) ==
  /\ At("orders")
  /\ orderIDs' = n
  /\ vu' = [v \in VUs |-> "ready"]
  /\ Goto("wait")
  /\ UNCHANGED <<userIDs, calls, result, over, queueVars, statVars, seen>>

(* GetOrder without any order makes no RPC and counts as a success. *)
CallAnswered(v, r) ==
  /\ Alive /\ vu[v] = "ready" /\ ~over
  /\ calls[Total] < MaxCalls
  /\ r.op = "GetOrder" /\ orderIDs = 0 => ~r.err
  /\ calls' = [calls EXCEPT ![Total] = @ + 1, ![r.op] = @ + 1]
  /\ result' = [result EXCEPT ![v] = r]
  /\ vu' = [vu EXCEPT ![v] = "send"]
  /\ UNCHANGED <<userIDs, orderIDs, over, queueVars, statVars, main, seen>>

(* Mutant: a VU goes on to its next call after an error, without a result. *)
Enqueue_OnlyOk(r) == IF r.err THEN results ELSE Append(results, r)
Enqueue(r) == Append(results, r)

SendResult(v) ==
  /\ Alive /\ vu[v] = "send"
  /\ Len(results) < Capacity
  /\ results' = Enqueue(result[v])
  /\ result' = [result EXCEPT ![v] = NoResult]
  /\ vu' = [vu EXCEPT ![v] = "ready"]
  /\ UNCHANGED <<testVars, over, closed, collector, got, statVars, main, seen>>

(* The bound on calls stands for the end of the duration as well. *)
Stop(v) ==
  /\ Alive /\ vu[v] = "ready"
  /\ over \/ calls[Total] = MaxCalls
  /\ vu' = [vu EXCEPT ![v] = "done"]
  /\ UNCHANGED <<testVars, result, over, queueVars, statVars, main, seen>>

TimeUp ==
  /\ Alive /\ ~over /\ \E v \in VUs : vu[v] # "off"
  /\ over' = TRUE
  /\ UNCHANGED <<testVars, vu, result, queueVars, statVars, main, seen>>

(* The collector: add to the total, then to the operation's statistic *)

(* Mutant: the collector is started after wg.Wait. *)
Ranging_Late == collector.do = "recv" /\ ~At("wait")
Ranging == collector.do = "recv"

Receive ==
  /\ Alive /\ Ranging /\ results # <<>>
  /\ got' = Head(results)
  /\ results' = Tail(results)
  /\ collector' = [at |-> Total, do |-> "count"]
  /\ UNCHANGED <<testVars, vuVars, closed, statVars, main, seen>>

RangeEnds ==
  /\ Alive /\ Ranging /\ results = <<>> /\ closed
  /\ collector' = [collector EXCEPT !.do = "done"]
  /\ UNCHANGED <<testVars, vuVars, results, closed, got, statVars, main, seen>>

AddCount ==
  /\ Alive /\ collector.do = "count"
  /\ count' = [count EXCEPT ![collector.at] = @ + 1]
  /\ collector' = [collector EXCEPT !.do = IF got.err THEN "err" ELSE "durs"]
  /\ UNCHANGED <<testVars, vuVars, results, closed, got, errCount, durs, main, seen>>

AddErr ==
  /\ Alive /\ collector.do = "err"
  /\ errCount' = [errCount EXCEPT ![collector.at] = @ + 1]
  /\ collector' = [collector EXCEPT !.do = "durs"]
  /\ UNCHANGED <<testVars, vuVars, results, closed, got, count, durs, main, seen>>

(* Mutant: the duration is appended only for calls that succeeded. *)
Appended_OnlyOk(n) == IF got.err THEN n ELSE n + 1
Appended(n) == n + 1

AddDuration ==
  /\ Alive /\ collector.do = "durs"
  /\ durs' = [durs EXCEPT ![collector.at] = Appended(@)]
  /\ collector' = IF collector.at = Total THEN [at |-> got.op, do |-> "count"]
                                          ELSE [at |-> Total, do |-> "recv"]
  /\ got' = IF collector.at = Total THEN got ELSE NoResult
  /\ UNCHANGED <<testVars, vuVars, results, closed, count, errCount, main, seen>>

(* main after wg.Wait *)

Wait ==
  /\ At("wait") /\ \A v \in VUs : vu[v] = "done"
  /\ closed' = TRUE
  /\ Goto("n")
  /\ UNCHANGED <<testVars, vuVars, results, collector, got, statVars, seen>>

Label == Reported[main.at]
NextReport ==
  main' = IF main.at < Len(Reported) THEN [do |-> "n", at |-> main.at + 1]
                                     ELSE [do |-> "line", at |-> 1]

(* A statistic without results is left out of the report. *)
LoadCount ==
  /\ At("n")
  /\ seen' = [seen EXCEPT !.rows[Label] = count[Label]]
  /\ IF count[Label] = 0 THEN NextReport ELSE Goto("durs")
  /\ UNCHANGED <<testVars, vuVars, queueVars, statVars>>

(* The average divides by the number of durations. *)
CopyDurations ==
  /\ At("durs")
  /\ seen' = [seen EXCEPT !.durs = durs[Label]]
  /\ Goto(IF durs[Label] = 0 THEN "panic" ELSE "errs")
  /\ UNCHANGED <<testVars, vuVars, queueVars, statVars>>

(* The error rate is only printed. *)
LoadErrs ==
  /\ At("errs")
  /\ seen' = [seen EXCEPT !.durs = 0]
  /\ NextReport
  /\ UNCHANGED <<testVars, vuVars, queueVars, statVars>>

(* Mutant: the users are counted where the orders should be. *)
Loadable_CopyPaste(s) ==
  LET t == IF s = "CreateOrder" THEN "CreateUser" ELSE s IN seen.rows[t]..count[t]
(* What a load of a count may find: it is not atomic and races with the    *)
(* collector, so it is ordered only after report's own load of that count. *)
Loadable(s) == seen.rows[s]..count[s]

(* The five loads of the last line; in whatever order they are made, each  *)
(* finds what was loadable at the end.                                     *)
ReadLine(line) ==
  /\ At("line")
  /\ \A s \in Stats : line[s] \in Loadable(s)
  /\ seen' = [seen EXCEPT !.line = line]
  /\ Goto("exit")
  /\ UNCHANGED <<testVars, vuVars, queueVars, statVars>>

VUStep(v) == (\E r \in Results : CallAnswered(v, r)) \/ SendResult(v) \/ Stop(v)
CollectorStep == Receive \/ RangeEnds \/ AddCount \/ AddErr \/ AddDuration
MainStep ==
  \/ Dial
  \/ \E n \in 0..1 : CreateUsers(n)
  \/ \E n \in 0..1 : CreateOrders(n)
  \/ Wait \/ LoadCount \/ CopyDurations \/ LoadErrs
  \/ \E line \in [Stats -> 0..MaxCalls] : ReadLine(line)

(* main has returned, called log.Fatal or panicked. *)
Ended == ~Alive /\ UNCHANGED vars

Next == (\E v \in VUs : VUStep(v)) \/ TimeUp \/ CollectorStep \/ MainStep \/ Ended

Spec == Init /\ [][Next]_vars

(***************************************************************************)
(* The scheduler runs every goroutine that can run, the services answer    *)
(* every call (their queries time out), and the duration passes.           *)
(***************************************************************************)
FairSpec ==
  /\ Spec
  /\ \A v \in VUs : WF_vars(VUStep(v))
  /\ WF_vars(TimeUp) /\ WF_vars(CollectorStep) /\ WF_vars(MainStep)

--------------------------------------------------------------------------------
(* Properties *)

(* Every variable holds a value of its type; VUs run only with some user to use. *)
TypeOK ==
  /\ userIDs \in 0..1 /\ orderIDs \in 0..1
  /\ vu \in [VUs -> {"off", "ready", "send", "done"}]
  /\ \A v \in VUs : vu[v] # "off" => userIDs > 0
  /\ result \in [VUs -> Results \cup {NoResult}]
  /\ over \in BOOLEAN /\ closed \in BOOLEAN
  /\ results \in Seq(Results) /\ Len(results) <= Capacity
  /\ collector \in [at : Stats, do : {"recv", "count", "err", "durs", "done"}]
  /\ got \in Results \cup {NoResult}
  /\ count \in [Stats -> 0..MaxCalls] /\ errCount \in [Stats -> 0..MaxCalls]
  /\ durs \in [Stats -> 0..MaxCalls] /\ calls \in [Stats -> 0..MaxCalls]
  /\ main \in [do : {"dial", "users", "orders", "wait", "n", "durs", "errs", "line", "fatal",
                    "panic", "exit"},
              at : 1..Len(Reported)]
  /\ seen \in Views

Counts(r, s) == s \in {Total, r.op}

(* Results of a statistic that are on their way to it: in the hands of a   *)
(* VU, in the channel, or received and not yet counted.                    *)
Sending(s) == {v \in VUs : vu[v] = "send" /\ Counts(result[v], s)}
Queued(q, s) == {i \in 1..Len(q) : Counts(q[i], s)}
Uncounted(s) ==
  \/ s = Total /\ collector.at = Total /\ collector.do = "count"
  \/ s # Total /\ got.op = s /\ (collector.at = Total \/ collector.do = "count")

Pending(s) ==
  Cardinality(Sending(s)) + Cardinality(Queued(results, s)) + IF Uncounted(s) THEN 1 ELSE 0

(***************************************************************************)
(* No result is lost or counted twice on its way through a full channel    *)
(* and the collector: what the report lacks is still on its way, because   *)
(* main does not wait for the collector.                                   *)
(***************************************************************************)
NothingLost == \A s \in Stats : calls[s] = count[s] + Pending(s)

(***************************************************************************)
(* The report divides by zero only while the collector, in the middle of   *)
(* the statistic's first add, has counted a result whose duration it has   *)
(* not appended; a report has at most one duration less than results.      *)
(***************************************************************************)
PanicCause ==
  /\ At("panic") => collector.at = Label /\ collector.do \in {"err", "durs"} /\ count[Label] = 1
  /\ At("errs") => seen.rows[Label] <= seen.durs + 1

(***************************************************************************)
(* In the last line writes and reads differ from the total by no more than *)
(* the results that were counted since the table's first row was read, and *)
(* one that is in the total and not yet in its operation: a report after   *)
(* the collector has ended adds up, although nothing orders the loads.     *)
(***************************************************************************)
LineConsistent ==
  At("exit") =>
    LET writes == seen.line["CreateUser"] + seen.line["CreateOrder"]
        reads == seen.line["GetUser"] + seen.line["GetOrder"]
        added == count[Total] - seen.rows[Total]
    IN  /\ writes + reads <= seen.line[Total] + added
        /\ seen.line[Total] <= writes + reads + added + 1

(* The test ends: VUs blocked on the full channel are always drained. *)
Terminates == <>~Alive
================================================================================
