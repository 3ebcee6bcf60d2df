----------------------------- MODULE GatewayProofs -----------------------------
(***************************************************************************)
(* Proofs about Gateway, for any calls, users and emails and any number of *)
(* deliveries.  All the deliveries of a call carry one request, a job that *)
(* is done stays as it is, and every trace in the table leads back to a    *)
(* job that is done.                                                       *)
(***************************************************************************)
EXTENDS Gateway, FiniteSetTheorems, TLAPS

Nth(j) == j[2]
Denials == {"Unauthorized", "Forbidden", "PayloadTooLarge", "TooManyRequests"}
Done(c) == {n \in 1..Deliveries : job[<<c, n>>].st = "done"}

(* A delivery of the call may have changed something. *)
Wrote(c) ==
  /\ Valid(req[c])
  /\ \E n \in Done(c) : job[<<c, n>>].code \in {"OK", "Internal"}

(* Why a conflict may be answered. *)
Explained(c) ==
  /\ req[c].op \in {"create", "update"} /\ req[c].email \in Emails
  /\ \/ holders[req[c].email] \ {c} # {}
     \/ req[c].op = "create" /\ tries[c] > 1 /\ made[c] # {}

(* What a delivery's state and its answer say. *)
JobInv == \A j \in Jobs :
  /\ job[j].st = "free" <=> Nth(j) > tries[Call(j)]
  /\ job[j].st # "free" => job[j].req = req[Call(j)] /\ req[Call(j)] \in Requests
  /\ job[j].st = "checked" => req[Call(j)].op = "order" /\ Valid(req[Call(j)])
  /\ job[j].st = "done" =>
       /\ job[j].code = "OK" /\ req[Call(j)].op = "create" => made[Call(j)] # {}
       /\ job[j].code = "OK" /\ req[Call(j)].op = "order" => orders[Call(j)] > 0
       /\ job[j].code = "InvalidArgument" => ~Valid(req[Call(j)])
       /\ job[j].code = "AlreadyExists" => Explained(Call(j))

(* What the gateway knows of a call. *)
CallInv == \A c \in Calls :
  /\ req[c] = NoRequest => tries[c] = 0 /\ answer[c] = "none"
  /\ answer[c] \in Denials => tries[c] = 0
  /\ answer[c] \in Codes \ {"none"} =>
       tries[c] \in Done(c) /\ job[<<c, tries[c]>>].code = answer[c]
  /\ \A b \in before[c] : answer[b] # "none" /\ b # c

(* What a call left behind: at most once for each delivery that is done. *)
MadeInv == \A c \in Calls :
  /\ made[c] \subseteq issued /\ IsFiniteSet(made[c])
  /\ Cardinality(made[c]) <= Cardinality(Done(c)) /\ orders[c] <= Cardinality(Done(c))
  /\ made[c] # {} => req[c].op = "create" /\ Wrote(c)
  /\ orders[c] > 0 => req[c].op = "order" /\ Wrote(c)
  /\ \A u \in made[c] : users[u].email = req[c].email \/ req[c].email \in vacated
  /\ Cardinality(made[c]) > 1 => req[c].email \in vacated

(* A row's fields and the calls they come from. *)
RowInv == \A u \in UserIds : users[u] # Absent =>
  /\ users[u].name # NoCall =>
       /\ Wrote(users[u].name)
       /\ \/ u \in made[users[u].name]
          \/ LET r == req[users[u].name]
             IN  r.op = "update" /\ r.id = u /\ "name" \in r.mask
  /\ \E w \in holders[users[u].email] :
       \/ w = NoCall
       \/ u \in made[w]
       \/ req[w].op = "update" /\ req[w].id = u /\ "email" \in req[w].mask

(* After an UPDATE of the name, a call answered before it was sent has     *)
(* written the name only if it was given up.                               *)
LateInv == \A j \in Jobs : \A c \in before[Call(j)] :
  /\ job[j].st = "done" /\ job[j].code = "OK"
  /\ req[Call(j)].op = "update" /\ "name" \in req[Call(j)].mask
  /\ req[Call(j)].id \in UserIds /\ users[req[Call(j)].id].name = c
  => Abandoned(c)

IndInv == TypeOK /\ JobInv /\ CallInv /\ MadeInv /\ RowInv /\ LateInv

--------------------------------------------------------------------------------
(* Requests and jobs *)

(* The forms of requests. *)
LEMMA RequestFacts ==
  /\ NoRequest \notin Requests /\ NoRequest.op = "none"
  /\ \A r \in Requests :
       /\ r.op \in {"create", "update", "get", "delete", "order"}
       /\ r.op \in {"create", "update"} => r.email \in Emails \cup {Blank}
       /\ r.op # "create" => r.id \in UserIds \cup {NoId}
<1>1. ASSUME NEW r \in Requests
      PROVE  /\ r.op \in {"create", "update", "get", "delete", "order"}
             /\ r.op \in {"create", "update"} => r.email \in Emails \cup {Blank}
             /\ r.op # "create" => r.id \in UserIds \cup {NoId}
  <2>1. r \in CreateRequests \/ r \in UpdateRequests \/ r \in IdRequests
    BY UserAssumption
  <2>2. CASE r \in CreateRequests
    BY <2>2 DEF CreateRequests, Fields
  <2>3. CASE r \in UpdateRequests
    BY <2>3 DEF UpdateRequests, Fields
  <2>4. CASE r \in IdRequests
    BY <2>4 DEF IdRequests
  <2> QED BY <2>1, <2>2, <2>3, <2>4
<1>2. NoRequest.op = "none"
  BY DEF NoRequest
<1>3. NoRequest \notin Requests
  BY <1>1, <1>2
<1> QED BY <1>1, <1>2, <1>3

(* The handlers' checks, by operation. *)
LEMMA ValidFacts ==
  ASSUME NEW r \in Requests
  PROVE  /\ r.op = "create" => (Valid(r) <=> ValidCreate(r))
         /\ r.op = "update" => (Valid(r) <=> ValidUpdate(r))
         /\ r.op = "create" /\ Valid(r) => r.email \in Emails
         /\ r.op # "create" /\ Valid(r) => r.id \in UserIds
         /\ r.op = "update" /\ Valid(r) /\ "email" \in r.mask => r.email \in Emails
<1>1. /\ r.op = "create" => (Valid(r) <=> ValidCreate(r))
      /\ r.op = "update" => (Valid(r) <=> ValidUpdate(r))
      /\ r.op \notin {"create", "update"} => (Valid(r) <=> r.id # NoId)
  BY DEF Valid
<1> QED BY <1>1, RequestFacts DEF ValidCreate, ValidUpdate

(* A job is a call and the number of a delivery. *)
LEMMA JobFacts ==
  /\ \A j \in Jobs : /\ Call(j) \in Calls /\ Nth(j) \in 1..Deliveries
                     /\ j = <<Call(j), Nth(j)>>
  /\ \A c \in Calls, n \in 1..Deliveries :
       <<c, n>> \in Jobs /\ Call(<<c, n>>) = c /\ Nth(<<c, n>>) = n
BY DEF Jobs, Call, Nth

(* The deliveries that are done are among those made. *)
LEMMA DoneFacts ==
  ASSUME TypeOK, JobInv, NEW c \in Calls
  PROVE  /\ tries[c] \in Nat /\ tries[c] <= Deliveries
         /\ IsFiniteSet(Done(c)) /\ Cardinality(Done(c)) \in Nat
         /\ Cardinality(Done(c)) <= tries[c]
         /\ \A n \in Done(c) : n \in 1..tries[c]
<1>1. Deliveries \in Nat /\ tries[c] \in 0..Deliveries
  BY UserAssumption DEF TypeOK
<1>2. ASSUME NEW n \in Done(c) PROVE n \in 1..tries[c]
  <2>1. n \in 1..Deliveries /\ job[<<c, n>>].st = "done"
    BY DEF Done
  <2>2. ~(n > tries[c])
    BY <2>1, JobFacts DEF JobInv
  <2> QED BY <1>1, <2>1, <2>2
<1>3. IsFiniteSet(1..tries[c]) /\ Cardinality(1..tries[c]) = tries[c]
  <2>1. \A t \in Nat : IsFiniteSet(1..t)
                       /\ Cardinality(1..t) = IF 1 > t THEN 0 ELSE t - 1 + 1
    BY FS_Interval
  <2>2. tries[c] \in Nat
    BY <1>1
  <2>3. IsFiniteSet(1..tries[c])
        /\ Cardinality(1..tries[c]) = IF 1 > tries[c] THEN 0 ELSE tries[c] - 1 + 1
    BY <2>1, <2>2
  <2> QED BY <2>2, <2>3
<1>4. Done(c) \in SUBSET (1..tries[c])
  BY <1>2
<1>5. IsFiniteSet(Done(c)) /\ Cardinality(Done(c)) <= Cardinality(1..tries[c])
  BY <1>3, <1>4, FS_Subset
<1>6. Cardinality(Done(c)) \in Nat
  BY <1>5, FS_CardinalityType
<1> QED BY <1>1, <1>2, <1>3, <1>5, <1>6

--------------------------------------------------------------------------------
(* The invariant holds before the first call. *)
LEMMA InitInv == Init => IndInv
<1> SUFFICES ASSUME Init PROVE IndInv
  OBVIOUS
<1>1. Deliveries \in Nat /\ Deliveries >= 1
  BY UserAssumption
<1>2. /\ job = [j \in Jobs |-> Free] /\ made = [c \in Calls |-> {}] /\ vacated = {}
      /\ req = [c \in Calls |-> NoRequest] /\ tries = [c \in Calls |-> 0]
      /\ answer = [c \in Calls |-> "none"] /\ before = [c \in Calls |-> {}]
      /\ orders = [c \in Calls |-> 0]
  BY DEF Init, UserInit
<1>3. JobInv
  BY <1>1, <1>2, JobFacts DEF JobInv, Free
<1>4. CallInv
  BY <1>2 DEF CallInv, Denials
<1>5. \A c \in Calls : Done(c) = {}
  BY <1>2, JobFacts DEF Done, Free
<1>6. MadeInv
  <2>1. Cardinality({}) = 0 /\ IsFiniteSet({})
    BY FS_EmptySet
  <2> QED BY <1>2, <1>5, <2>1 DEF MadeInv
<1>7. LateInv
  BY <1>2, JobFacts DEF LateInv
<1>8. TypeOK /\ RowInv
  <2>1. CASE users = [u \in UserIds |-> Absent] /\ issued = {} /\ holders = [e \in Emails |-> {}]
    <3>1. TypeOK
      BY <1>1, <1>2, <2>1 DEF TypeOK, Free, NoRequest, Codes
    <3> QED BY <2>1, <3>1 DEF RowInv
  <2>2. CASE \E u \in UserIds, e \in Emails :
          /\ users = [v \in UserIds |-> IF v = u THEN [name |-> NoCall, email |-> e] ELSE Absent]
          /\ issued = {u}
          /\ holders = [d \in Emails |-> IF d = e THEN {NoCall} ELSE {}]
    <3>1. PICK u \in UserIds, e \in Emails :
            /\ users = [v \in UserIds |-> IF v = u THEN [name |-> NoCall, email |-> e] ELSE Absent]
            /\ issued = {u}
            /\ holders = [d \in Emails |-> IF d = e THEN {NoCall} ELSE {}]
      BY <2>2
    <3>2. users \in [UserIds -> [name : Calls \cup {NoCall}, email : Emails] \cup {Absent}]
      BY <3>1
    <3>3. \A v, w \in UserIds : users[v] # Absent /\ users[v].email = users[w].email => v = w
      BY <3>1, UserAssumption DEF Absent
    <3>4. TypeOK
      BY <1>1, <1>2, <3>1, <3>2, <3>3 DEF TypeOK, Free, NoRequest, Codes
    <3> QED BY <3>1, <3>4 DEF RowInv
  <2> QED BY <2>1, <2>2 DEF Init, UserInit
<1> QED BY <1>3, <1>4, <1>6, <1>7, <1>8 DEF IndInv

--------------------------------------------------------------------------------
(* The gateway's steps: the tables stay as they are, and so does every job *)
(* that is done.                                                           *)

(* Nothing has been done for a call that was not sent. *)
LEMMA Fresh ==
  ASSUME IndInv, NEW c \in Calls, req[c] = NoRequest \/ tries[c] = 0
  PROVE  /\ tries[c] = 0 /\ Done(c) = {} /\ made[c] = {} /\ orders[c] = 0
         /\ \A n \in 1..Deliveries : job[<<c, n>>].st = "free"
<1>1. TypeOK /\ JobInv /\ tries[c] = 0 /\ Deliveries \in Nat
  BY UserAssumption DEF IndInv, CallInv
<1>2. \A n \in 1..Deliveries : job[<<c, n>>].st = "free"
  BY <1>1, JobFacts DEF JobInv
<1>3. Done(c) = {}
  BY <1>2 DEF Done
<1>4. Cardinality(Done(c)) = 0
  BY <1>3, FS_EmptySet
<1>5. /\ IsFiniteSet(made[c]) /\ Cardinality(made[c]) <= 0
      /\ orders[c] <= 0 /\ orders[c] \in Nat
  BY <1>1, <1>4 DEF IndInv, MadeInv, TypeOK
<1>6. Cardinality(made[c]) \in Nat
  BY <1>5, FS_CardinalityType
<1>7. Cardinality(made[c]) = 0
  BY <1>5, <1>6
<1>8. made[c] = {}
  BY <1>5, <1>7, FS_EmptySet
<1> QED BY <1>1, <1>2, <1>3, <1>5, <1>8

(* Steps that touch neither the table nor the orders keep what the traces say. *)
LEMMA GateKeeps ==
  ASSUME IndInv, UNCHANGED <<tableVars, orders>>,
         \A d \in Calls : /\ req'[d] = req[d] \/ req[d] = NoRequest
                          /\ before'[d] = before[d] \/ req[d] = NoRequest
                          /\ tries'[d] \in Nat /\ tries'[d] >= tries[d]
                          /\ answer[d] # "none" => answer'[d] = answer[d],
         \A i \in Jobs : /\ job'[i].st = "done" <=> job[i].st = "done"
                         /\ job[i].st = "done" => job'[i] = job[i]
  PROVE  /\ \A d \in Calls : Done(d)' = Done(d)
         /\ MadeInv' /\ RowInv' /\ LateInv'
         /\ \A d \in Calls : Explained(d) /\ req[d] # NoRequest => Explained(d)'
<1>1. /\ users' = users /\ issued' = issued /\ made' = made /\ holders' = holders
      /\ vacated' = vacated /\ orders' = orders
  BY DEF tableVars
<1>2. TypeOK /\ JobInv /\ MadeInv /\ RowInv /\ LateInv /\ CallInv
  BY DEF IndInv
<1>3. \A d \in Calls : Done(d)' = Done(d)
  BY JobFacts DEF Done
<1>4. ASSUME NEW d \in Calls, Wrote(d) PROVE Wrote(d)' /\ req'[d] = req[d]
  <2>1. PICK n \in Done(d) : job[<<d, n>>].code \in {"OK", "Internal"}
    BY <1>4 DEF Wrote
  <2>2. req[d] # NoRequest
    BY <1>2, <2>1, Fresh
  <2>3. <<d, n>> \in Jobs /\ job[<<d, n>>].st = "done"
    BY <2>1, JobFacts DEF Done
  <2>4. job'[<<d, n>>].code \in {"OK", "Internal"} /\ n \in Done(d)'
    BY <1>3, <2>1, <2>3
  <2>5. req'[d] = req[d]
    BY <2>2
  <2> QED BY <1>4, <2>4, <2>5 DEF Wrote
<1>5. MadeInv'
  <2> SUFFICES ASSUME NEW c \in Calls
               PROVE  (/\ made[c] \subseteq issued /\ IsFiniteSet(made[c])
                       /\ Cardinality(made[c]) <= Cardinality(Done(c))
                       /\ orders[c] <= Cardinality(Done(c))
                       /\ made[c] # {} => req[c].op = "create" /\ Wrote(c)
                       /\ orders[c] > 0 => req[c].op = "order" /\ Wrote(c)
                       /\ \A u \in made[c] : users[u].email = req[c].email
                                             \/ req[c].email \in vacated
                       /\ Cardinality(made[c]) > 1 => req[c].email \in vacated)'
    BY DEF MadeInv
  <2>1. /\ made'[c] \subseteq issued' /\ IsFiniteSet(made'[c])
        /\ Cardinality(made'[c]) <= Cardinality(Done(c)')
        /\ orders'[c] <= Cardinality(Done(c)')
    BY <1>1, <1>2, <1>3 DEF MadeInv
  <2>2. made'[c] # {} => (req[c].op = "create" /\ Wrote(c))'
    BY <1>1, <1>2, <1>4 DEF MadeInv
  <2>3. orders'[c] > 0 => (req[c].op = "order" /\ Wrote(c))'
    BY <1>1, <1>2, <1>4 DEF MadeInv
  <2>4. made[c] # {} => req'[c] = req[c]
    BY <1>2, <1>4 DEF MadeInv
  <2>5. \A u \in made'[c] : users'[u].email = req'[c].email \/ req'[c].email \in vacated'
    BY <1>1, <1>2, <2>4 DEF MadeInv
  <2>6. Cardinality(made'[c]) > 1 => req'[c].email \in vacated'
    <3>1. Cardinality(made[c]) > 1 => made[c] # {}
      <4>1. Cardinality({}) = 0
        BY FS_EmptySet
      <4> QED BY <4>1
    <3> QED BY <1>1, <1>2, <2>4, <3>1 DEF MadeInv
  <2> QED BY <2>1, <2>2, <2>3, <2>5, <2>6
<1>6. RowInv'
  <2> SUFFICES ASSUME NEW u \in UserIds, users[u] # Absent
               PROVE  (/\ users[u].name # NoCall =>
                            /\ Wrote(users[u].name)
                            /\ \/ u \in made[users[u].name]
                               \/ LET r == req[users[u].name]
                                  IN  r.op = "update" /\ r.id = u /\ "name" \in r.mask
                       /\ \E w \in holders[users[u].email] :
                            \/ w = NoCall
                            \/ u \in made[w]
                            \/ req[w].op = "update" /\ req[w].id = u /\ "email" \in req[w].mask)'
    BY <1>1 DEF RowInv
  <2>1. PICK c \in Calls \cup {NoCall}, e \in Emails : users[u].name = c /\ users[u].email = e
    BY <1>2 DEF TypeOK
  <2>2. c # NoCall => /\ Wrote(c)' /\ req'[c] = req[c]
                      /\ \/ u \in made[c]
                         \/ req[c].op = "update" /\ req[c].id = u /\ "name" \in req[c].mask
    BY <1>2, <1>4, <2>1 DEF RowInv
  <2>3. PICK w \in holders[e] :
            \/ w = NoCall
            \/ u \in made[w]
            \/ req[w].op = "update" /\ req[w].id = u /\ "email" \in req[w].mask
    BY <1>2, <2>1 DEF RowInv
  <2>4. w \in Calls \cup {NoCall}
    BY <1>2 DEF TypeOK
  <2>5. w # NoCall /\ req[w].op = "update" => req'[w] = req[w]
    BY <2>4, RequestFacts
  <2>6. Wrote(users[u].name)' <=> Wrote(c)'
    BY <1>1, <2>1 DEF Wrote, Done
  <2> QED BY <1>1, <2>1, <2>2, <2>3, <2>5, <2>6
<1>7. LateInv'
  <2> SUFFICES ASSUME NEW j \in Jobs, NEW c \in before'[Call(j)],
                      job'[j].st = "done", job'[j].code = "OK",
                      req'[Call(j)].op = "update", "name" \in req'[Call(j)].mask,
                      req'[Call(j)].id \in UserIds, users'[req'[Call(j)].id].name = c
               PROVE  Abandoned(c)'
    BY DEF LateInv
  <2>1. job[j] = job'[j] /\ job[j].st = "done" /\ Call(j) \in Calls
    BY JobFacts
  <2>2. req[Call(j)] # NoRequest
    BY <1>2, <2>1, RequestFacts DEF JobInv
  <2>3. Abandoned(c) /\ c \in Calls
    BY <1>1, <1>2, <2>1, <2>2 DEF LateInv, TypeOK
  <2>4. tries[c] \in Nat
    BY <1>2, <2>3 DEF TypeOK
  <2> QED BY <2>3, <2>4 DEF Abandoned
<1>8. ASSUME NEW d \in Calls, Explained(d), req[d] # NoRequest PROVE Explained(d)'
  <2>1. tries[d] \in Nat /\ req'[d] = req[d]
    BY <1>2, <1>8 DEF TypeOK
  <2> QED BY <1>1, <1>8, <2>1 DEF Explained
<1> QED BY <1>3, <1>5, <1>6, <1>7, <1>8

(* A call is refused before any service hears of it. *)
LEMMA DenyInv ==
  ASSUME IndInv, NEW c \in Calls, NEW r \in Requests, Deny(c, r)
  PROVE  IndInv'
<1>1. PICK code \in Denials : answer' = [answer EXCEPT ![c] = code]
  BY DEF Deny, Answer, Denials
<1>2. /\ req[c] = NoRequest /\ req' = [req EXCEPT ![c] = r]
      /\ UNCHANGED <<tableVars, job, tries, before, orders>>
  BY DEF Deny, userVars
<1>3. TypeOK /\ JobInv /\ CallInv /\ LateInv
  BY DEF IndInv
<1>4. /\ tries[c] = 0 /\ \A n \in 1..Deliveries : job[<<c, n>>].st = "free"
      /\ answer[c] = "none"
  BY <1>2, <1>3, Fresh DEF CallInv
<1>5. code \notin Codes /\ code # "none"
  BY DEF Denials, Codes
<1>6. TypeOK'
  <2>1. answer' \in [Calls -> Codes \cup {"Unauthorized", "Forbidden", "PayloadTooLarge",
                                          "TooManyRequests", "Unavailable", "GatewayTimeout"}]
    BY <1>1, <1>3 DEF TypeOK, Denials
  <2>2. req' \in [Calls -> Requests \cup {NoRequest}]
    BY <1>2, <1>3 DEF TypeOK
  <2> QED BY <1>2, <1>3, <2>1, <2>2 DEF TypeOK, tableVars
<1>7. /\ \A d \in Calls : Done(d)' = Done(d)
      /\ MadeInv' /\ RowInv' /\ LateInv'
      /\ \A d \in Calls : Explained(d) /\ req[d] # NoRequest => Explained(d)'
  <2>1. \A d \in Calls : /\ req'[d] = req[d] \/ req[d] = NoRequest
                         /\ before'[d] = before[d] \/ req[d] = NoRequest
                         /\ tries'[d] \in Nat /\ tries'[d] >= tries[d]
                         /\ answer[d] # "none" => answer'[d] = answer[d]
    BY <1>1, <1>2, <1>3, <1>4 DEF TypeOK
  <2>2. \A i \in Jobs : /\ job'[i].st = "done" <=> job[i].st = "done"
                        /\ job[i].st = "done" => job'[i] = job[i]
    BY <1>2
  <2> QED BY <1>2, <2>1, <2>2, GateKeeps
<1>8. JobInv'
  <2>1. ASSUME NEW i \in Jobs, job[i].st # "free"
        PROVE  Call(i) \in Calls /\ Call(i) # c /\ req'[Call(i)] = req[Call(i)]
               /\ req[Call(i)] # NoRequest
    BY <1>2, <1>3, <1>4, <2>1, JobFacts, RequestFacts DEF TypeOK, JobInv
  <2> QED BY <1>2, <1>3, <1>7, <2>1 DEF JobInv, tableVars
<1>9. CallInv'
  <2>1. \A d \in Calls : d # c => req'[d] = req[d] /\ answer'[d] = answer[d]
    BY <1>1, <1>2, <1>3 DEF TypeOK
  <2>2. req'[c] = r /\ answer'[c] = code
    BY <1>1, <1>2, <1>3 DEF TypeOK
  <2>3. \A d \in Calls : before[d] \subseteq Calls
    BY <1>3 DEF TypeOK
  <2>4. \A d \in Calls : \A b \in before'[d] : answer'[b] # "none" /\ b # d
    BY <1>2, <1>3, <1>5, <2>1, <2>2, <2>3 DEF CallInv
  <2> QED BY <1>2, <1>3, <1>4, <1>5, <1>7, <2>1, <2>2, <2>4, RequestFacts DEF CallInv
<1> QED BY <1>6, <1>7, <1>8, <1>9 DEF IndInv

(* A first or a further delivery of a call. *)
LEMMA DeliverInv ==
  ASSUME IndInv, NEW c \in Calls, NEW r \in Requests, Send(c, r) \/ (Retry(c) /\ r = req[c])
  PROVE  IndInv'
<1> DEFINE k == <<c, tries[c] + 1>>
<1>1. TypeOK /\ JobInv /\ CallInv /\ LateInv /\ Deliveries \in Nat /\ Deliveries >= 1
  BY UserAssumption DEF IndInv
<1>2. /\ UNCHANGED <<tableVars, answer, orders>>
      /\ tries' = [tries EXCEPT ![c] = @ + 1]
      /\ job' = [job EXCEPT ![k] = [st |-> "run", req |-> r, code |-> "none"]]
  BY DEF Send, Retry, Deliver, Receive
<1>3. tries[c] \in Nat /\ tries[c] < Deliveries /\ answer[c] = "none"
  <2>1. tries[c] \in Nat
    BY <1>1 DEF TypeOK
  <2>2. CASE Send(c, r)
    <3>1. tries[c] = 0 /\ answer[c] = "none"
      BY <1>1, <2>2 DEF Send, CallInv
    <3> QED BY <1>1, <2>1, <3>1
  <2>3. CASE Retry(c)
    BY <2>1, <2>3 DEF Retry, Waiting
  <2> QED BY <2>2, <2>3
<1>4. k \in Jobs /\ Call(k) = c /\ Nth(k) = tries[c] + 1 /\ job[k].st = "free"
  <2>1. tries[c] + 1 \in 1..Deliveries
    BY <1>1, <1>3
  <2>2. k \in Jobs /\ Call(k) = c /\ Nth(k) = tries[c] + 1
    BY <2>1, JobFacts
  <2> QED BY <1>1, <1>3, <2>2 DEF JobInv
<1>5. /\ req' \in [Calls -> Requests \cup {NoRequest}] /\ req'[c] = r
      /\ \A d \in Calls : d # c => req'[d] = req[d]
      /\ req[c] = NoRequest \/ req[c] = r
  BY <1>1 DEF Send, Retry, TypeOK
<1>6. /\ before' \in [Calls -> SUBSET Calls]
      /\ \A d \in Calls : before'[d] = before[d] \/ (d = c /\ req[c] = NoRequest)
      /\ \A d \in Calls : \A b \in before'[d] : answer[b] # "none" /\ b # d
  <2>1. CASE Send(c, r)
    <3>1. before' = [before EXCEPT ![c] = {d \in Calls : answer[d] # "none"}] /\ req[c] = NoRequest
      BY <2>1 DEF Send
    <3> QED BY <1>1, <1>3, <3>1 DEF TypeOK, CallInv
  <2>2. CASE Retry(c)
    BY <1>1, <2>2 DEF Retry, TypeOK, CallInv
  <2> QED BY <2>1, <2>2
<1>7. /\ \A d \in Calls : d # c => tries'[d] = tries[d]
      /\ tries'[c] = tries[c] + 1 /\ tries' \in [Calls -> 0..Deliveries]
  BY <1>1, <1>2, <1>3 DEF TypeOK
<1>8. /\ \A i \in Jobs : i # k => job'[i] = job[i]
      /\ job'[k] = [st |-> "run", req |-> r, code |-> "none"]
      /\ job' \in [Jobs -> [st : {"free", "run", "checked", "done"},
                            req : Requests \cup {NoRequest}, code : Codes]]
  <2> HIDE DEF k
  <2> QED BY <1>1, <1>2, <1>4 DEF TypeOK, Codes
<1> HIDE DEF k
<1>9. TypeOK'
  BY <1>1, <1>2, <1>5, <1>6, <1>7, <1>8 DEF TypeOK, tableVars
<1>10. /\ \A d \in Calls : Done(d)' = Done(d)
       /\ MadeInv' /\ RowInv' /\ LateInv'
       /\ \A d \in Calls : Explained(d) /\ req[d] # NoRequest => Explained(d)'
  <2>1. \A d \in Calls : /\ req'[d] = req[d] \/ req[d] = NoRequest
                         /\ before'[d] = before[d] \/ req[d] = NoRequest
                         /\ tries'[d] \in Nat /\ tries'[d] >= tries[d]
                         /\ answer[d] # "none" => answer'[d] = answer[d]
    BY <1>1, <1>2, <1>3, <1>5, <1>6, <1>7 DEF TypeOK
  <2>2. \A i \in Jobs : /\ job'[i].st = "done" <=> job[i].st = "done"
                        /\ job[i].st = "done" => job'[i] = job[i]
    BY <1>4, <1>8
  <2> QED BY <1>2, <2>1, <2>2, GateKeeps
<1>11. JobInv'
  <2>1. ASSUME NEW i \in Jobs, job[i].st # "free"
        PROVE  Call(i) \in Calls /\ req'[Call(i)] = req[Call(i)] /\ req[Call(i)] # NoRequest
    BY <1>1, <1>5, <2>1, JobFacts, RequestFacts DEF JobInv
  <2>2. ASSUME NEW i \in Jobs PROVE job'[i].st = "free" <=> Nth(i) > tries'[Call(i)]
    <3>1. CASE i = k
      BY <1>3, <1>4, <1>7, <1>8, <3>1
    <3>2. CASE i # k
      <4>1. Call(i) \in Calls /\ Nth(i) \in Nat /\ i = <<Call(i), Nth(i)>>
        BY JobFacts
      <4>2. Call(i) = c => Nth(i) # tries[c] + 1
        BY <3>2, <4>1 DEF k
      <4> QED BY <1>1, <1>3, <1>7, <1>8, <3>2, <4>1, <4>2 DEF JobInv
    <3> QED BY <3>1, <3>2
  <2>3. ASSUME NEW i \in Jobs, job'[i].st # "free"
        PROVE  job'[i].req = req'[Call(i)] /\ req'[Call(i)] \in Requests
    BY <1>1, <1>4, <1>5, <1>8, <2>1, <2>3 DEF JobInv
  <2>4. ASSUME NEW i \in Jobs, job'[i].st \in {"checked", "done"}
        PROVE  i # k /\ job'[i] = job[i] /\ req'[Call(i)] = req[Call(i)]
               /\ (Explained(Call(i)) => Explained(Call(i))')
    BY <1>8, <1>10, <2>1, <2>4
  <2> QED BY <1>1, <1>2, <2>2, <2>3, <2>4 DEF JobInv, tableVars
<1>12. CallInv'
  <2>1. \A d \in Calls : answer'[d] = answer[d]
    BY <1>2
  <2>2. \A d \in Calls : \A b \in before'[d] : answer'[b] # "none" /\ b # d
    BY <1>2, <1>6
  <2>3. ASSUME NEW d \in Calls, d # c, answer'[d] \in Codes \ {"none"}
        PROVE  tries'[d] \in Done(d)' /\ job'[<<d, tries'[d]>>].code = answer'[d]
    <3>1. tries[d] \in Done(d) /\ job[<<d, tries[d]>>].code = answer[d] /\ tries'[d] = tries[d]
      BY <1>1, <1>7, <2>1, <2>3 DEF CallInv
    <3>2. <<d, tries[d]>> \in Jobs /\ <<d, tries[d]>> # k
      BY <3>1, <2>3, JobFacts DEF Done, k
    <3> QED BY <1>8, <1>10, <2>1, <3>1, <3>2
  <2>4. \A d \in Calls : d # c => req'[d] = req[d] /\ tries'[d] = tries[d]
    BY <1>5, <1>7
  <2>5. req'[c] # NoRequest /\ answer'[c] = "none"
    BY <1>3, <1>5, <2>1, RequestFacts
  <2>6. "none" \notin Denials
    BY DEF Denials
  <2>7. ASSUME NEW d \in Calls
        PROVE  /\ req'[d] = NoRequest => tries'[d] = 0 /\ answer'[d] = "none"
               /\ answer'[d] \in Denials => tries'[d] = 0
               /\ answer'[d] \in Codes \ {"none"} =>
                    tries'[d] \in Done(d)' /\ job'[<<d, tries'[d]>>].code = answer'[d]
    <3>1. CASE d = c
      BY <2>5, <2>6, <3>1
    <3>2. CASE d # c
      BY <1>1, <2>1, <2>3, <2>4, <3>2 DEF CallInv
    <3> QED BY <3>1, <3>2
  <2> QED BY <2>2, <2>7 DEF CallInv
<1> QED BY <1>9, <1>10, <1>11, <1>12 DEF IndInv

(* The client is answered. *)
LEMMA AnswerInv ==
  ASSUME IndInv, NEW c \in Calls, GiveUp(c) \/ Timeout(c) \/ Forward(c)
  PROVE  IndInv'
<1>1. TypeOK /\ JobInv /\ CallInv /\ LateInv
  BY DEF IndInv
<1>2. PICK code \in Codes \cup {"Unavailable", "GatewayTimeout"} :
        /\ answer' = [answer EXCEPT ![c] = code]
        /\ code \in Codes => tries[c] \in Done(c) /\ code = job[<<c, tries[c]>>].code
  <2>1. CASE GiveUp(c) \/ Timeout(c)
    BY <2>1 DEF GiveUp, Timeout, Answer, Codes
  <2>2. CASE Forward(c)
    <3>1. tries[c] \in 1..Deliveries /\ job[<<c, tries[c]>>].st = "done"
      BY <1>1, <2>2 DEF Forward, Waiting, TypeOK
    <3>2. job[<<c, tries[c]>>].code \in Codes
      BY <1>1, <3>1, JobFacts DEF TypeOK
    <3> QED BY <2>2, <3>1, <3>2 DEF Forward, Answer, Done
  <2> QED BY <2>1, <2>2
<1>3. /\ UNCHANGED <<tableVars, job, req, tries, before, orders>>
      /\ tries[c] > 0 /\ answer[c] = "none"
  BY DEF GiveUp, Timeout, Forward, Waiting, userVars
<1>4. code \notin Denials /\ req[c] # NoRequest
  <2>1. code \notin Denials
    BY DEF Denials, Codes
  <2>2. tries[c] # 0
    BY <1>3
  <2> QED BY <1>1, <2>1, <2>2 DEF CallInv
<1>5. TypeOK'
  <2>1. answer' \in [Calls -> Codes \cup {"Unauthorized", "Forbidden", "PayloadTooLarge",
                                          "TooManyRequests", "Unavailable", "GatewayTimeout"}]
    BY <1>1, <1>2 DEF TypeOK
  <2> QED BY <1>1, <1>3, <2>1 DEF TypeOK, tableVars
<1>6. /\ \A d \in Calls : Done(d)' = Done(d)
      /\ MadeInv' /\ RowInv' /\ LateInv'
  <2>1. \A d \in Calls : /\ req'[d] = req[d] \/ req[d] = NoRequest
                         /\ before'[d] = before[d] \/ req[d] = NoRequest
                         /\ tries'[d] \in Nat /\ tries'[d] >= tries[d]
                         /\ answer[d] # "none" => answer'[d] = answer[d]
    BY <1>1, <1>2, <1>3 DEF TypeOK
  <2>2. \A i \in Jobs : /\ job'[i].st = "done" <=> job[i].st = "done"
                        /\ job[i].st = "done" => job'[i] = job[i]
    BY <1>3
  <2> QED BY <1>3, <2>1, <2>2, GateKeeps
<1>7. JobInv'
  BY <1>1, <1>3 DEF JobInv, Explained, tableVars
<1>8. CallInv'
  <2>1. answer'[c] = code /\ \A d \in Calls : d # c => answer'[d] = answer[d]
    BY <1>1, <1>2 DEF TypeOK
  <2>2. ASSUME NEW d \in Calls, NEW b \in before'[d] PROVE answer'[b] # "none" /\ b # d
    <3>1. b \in Calls /\ answer[b] # "none" /\ b # d
      BY <1>1, <1>3, <2>2 DEF CallInv, TypeOK
    <3> QED BY <1>3, <2>1, <3>1
  <2> QED BY <1>1, <1>2, <1>3, <1>4, <1>6, <2>1, <2>2 DEF CallInv
<1> QED BY <1>5, <1>6, <1>7, <1>8 DEF IndInv

--------------------------------------------------------------------------------
(* The services' steps: a job ends. *)

(* What the end of a job changes, whatever else its statement does. *)
LEMMA ReturnFacts ==
  ASSUME IndInv, NEW j \in Jobs, NEW code \in Codes, job[j].st \in {"run", "checked"},
         Return(j, code), UNCHANGED <<req, tries, answer, before>>
  PROVE  /\ job' \in [Jobs -> [st : {"free", "run", "checked", "done"},
                               req : Requests \cup {NoRequest}, code : Codes]]
         /\ \A i \in Jobs : i # j => job'[i] = job[i]
         /\ job'[j].st = "done" /\ job'[j].code = code /\ job'[j].req = job[j].req
         /\ Call(j) \in Calls /\ job[j].req = req[Call(j)] /\ req[Call(j)] \in Requests
         /\ \A d \in Calls : /\ Cardinality(Done(d)) \in Nat /\ Cardinality(Done(d)') \in Nat
                             /\ Cardinality(Done(d)) <= Cardinality(Done(d)')
         /\ Cardinality(Done(Call(j))') = Cardinality(Done(Call(j))) + 1
         /\ \A d \in Calls : Wrote(d) => Wrote(d)'
         /\ Valid(req[Call(j)]) /\ code \in {"OK", "Internal"} => Wrote(Call(j))'
         /\ CallInv'
<1>1. TypeOK /\ JobInv /\ CallInv
  BY DEF IndInv
<1>2. job' = [job EXCEPT ![j].st = "done", ![j].code = code]
  BY DEF Return
<1>3. /\ \A i \in Jobs : i # j => job'[i] = job[i]
      /\ job'[j].st = "done" /\ job'[j].code = code /\ job'[j].req = job[j].req
      /\ job' \in [Jobs -> [st : {"free", "run", "checked", "done"},
                            req : Requests \cup {NoRequest}, code : Codes]]
  <2> DEFINE JobType == [st : {"free", "run", "checked", "done"},
                         req : Requests \cup {NoRequest}, code : Codes]
  <2>1. job \in [Jobs -> JobType]
    BY <1>1 DEF TypeOK
  <2>2. DOMAIN job' = Jobs /\ \A i \in Jobs : i # j => job'[i] = job[i]
    BY <1>2, <2>1
  <2>3. job'[j] = [job[j] EXCEPT !.st = "done", !.code = code]
    BY <1>2, <2>1
  <2>4. job[j] \in JobType
    BY <2>1
  <2>5. /\ job'[j].st = "done" /\ job'[j].code = code /\ job'[j].req = job[j].req
        /\ job'[j] \in JobType
    BY <2>3, <2>4
  <2>6. job' = [i \in Jobs |-> job'[i]]
    BY <1>2, <2>1
  <2> QED BY <2>1, <2>2, <2>5, <2>6
<1>4. /\ Call(j) \in Calls /\ Nth(j) \in 1..Deliveries /\ j = <<Call(j), Nth(j)>>
      /\ job[j].req = req[Call(j)] /\ req[Call(j)] \in Requests
  BY <1>1, JobFacts DEF JobInv
<1>5. \A d \in Calls : d # Call(j) => Done(d)' = Done(d)
  <2>1. \A d \in Calls, n \in 1..Deliveries : d # Call(j) => job'[<<d, n>>] = job[<<d, n>>]
    BY <1>3, JobFacts
  <2> QED BY <2>1 DEF Done
<1>6. Nth(j) \notin Done(Call(j)) /\ Done(Call(j))' = Done(Call(j)) \cup {Nth(j)}
  <2>1. Nth(j) \notin Done(Call(j))
    BY <1>4 DEF Done
  <2>2. \A n \in 1..Deliveries : n # Nth(j) => job'[<<Call(j), n>>] = job[<<Call(j), n>>]
    BY <1>3, <1>4, JobFacts
  <2> QED BY <1>3, <1>4, <2>1, <2>2 DEF Done
<1>7. \A d \in Calls : IsFiniteSet(Done(d)) /\ Cardinality(Done(d)) \in Nat
  BY <1>1, DoneFacts
<1>8. Cardinality(Done(Call(j))') = Cardinality(Done(Call(j))) + 1
  BY <1>4, <1>6, <1>7, FS_AddElement
<1>9. \A d \in Calls : /\ Cardinality(Done(d)) \in Nat /\ Cardinality(Done(d)') \in Nat
                       /\ Cardinality(Done(d)) <= Cardinality(Done(d)')
  BY <1>4, <1>5, <1>7, <1>8
<1>10. \A d \in Calls : Done(d) \subseteq Done(d)'
                        /\ \A n \in Done(d) : job'[<<d, n>>] = job[<<d, n>>]
  <2>1. \A d \in Calls : \A n \in Done(d) : <<d, n>> \in Jobs /\ <<d, n>> # j
    BY <1>4, <1>6, JobFacts DEF Done
  <2> QED BY <1>3, <1>5, <1>6, <2>1
<1>11. \A d \in Calls : Wrote(d) => Wrote(d)'
  BY <1>10 DEF Wrote
<1>12. Valid(req[Call(j)]) /\ code \in {"OK", "Internal"} => Wrote(Call(j))'
  BY <1>3, <1>4, <1>6 DEF Wrote
<1>13. CallInv'
  BY <1>1, <1>10 DEF CallInv
<1> QED BY <1>3, <1>4, <1>8, <1>9, <1>11, <1>12, <1>13

(* The answers of the jobs stay true while the histories grow. *)
LEMMA ReturnJobs ==
  ASSUME IndInv, NEW j \in Jobs, NEW code \in Codes, job[j].st \in {"run", "checked"},
         Return(j, code), UNCHANGED <<req, tries, answer, before>>,
         \A d \in Calls : /\ made[d] \subseteq made'[d]
                          /\ orders'[d] \in Nat /\ orders[d] <= orders'[d],
         \A e \in Emails : holders[e] \subseteq holders'[e],
         code = "OK" /\ req[Call(j)].op = "create" => made'[Call(j)] # {},
         code = "OK" /\ req[Call(j)].op = "order" => orders'[Call(j)] > 0,
         code = "InvalidArgument" => ~Valid(req[Call(j)]),
         code = "AlreadyExists" => Explained(Call(j))
  PROVE  JobInv'
<1>1. TypeOK /\ JobInv
  BY DEF IndInv
<1>2. /\ \A i \in Jobs : i # j => job'[i] = job[i]
      /\ job'[j].st = "done" /\ job'[j].code = code /\ job'[j].req = job[j].req
      /\ Call(j) \in Calls
  BY ReturnFacts
<1>3. \A d \in Calls : Explained(d) => Explained(d)'
  BY DEF Explained
<1>4. \A i \in Jobs : Call(i) \in Calls
  BY JobFacts
<1>5. \A d \in Calls : orders[d] \in Nat
  BY <1>1 DEF TypeOK
<1>6. ASSUME NEW i \in Jobs
      PROVE  /\ job'[i].st = "free" <=> Nth(i) > tries[Call(i)]
             /\ job'[i].st # "free" => job'[i].req = req[Call(i)] /\ req[Call(i)] \in Requests
             /\ job'[i].st = "checked" => req[Call(i)].op = "order" /\ Valid(req[Call(i)])
    BY <1>1, <1>2 DEF JobInv
<1>7. ASSUME NEW i \in Jobs, job'[i].st = "done"
      PROVE  /\ job'[i].code = "OK" /\ req[Call(i)].op = "create" => made'[Call(i)] # {}
             /\ job'[i].code = "OK" /\ req[Call(i)].op = "order" => orders'[Call(i)] > 0
             /\ job'[i].code = "InvalidArgument" => ~Valid(req[Call(i)])
             /\ job'[i].code = "AlreadyExists" => Explained(Call(i))'
  <2>1. CASE i = j
    BY <1>2, <1>3, <2>1
  <2>2. CASE i # j
    <3>1. job[i].st = "done" /\ job[i] = job'[i]
      BY <1>2, <1>7, <2>2
    <3>2. /\ job[i].code = "OK" /\ req[Call(i)].op = "create" => made[Call(i)] # {}
          /\ job[i].code = "OK" /\ req[Call(i)].op = "order" => orders[Call(i)] > 0
          /\ job[i].code = "InvalidArgument" => ~Valid(req[Call(i)])
          /\ job[i].code = "AlreadyExists" => Explained(Call(i))
      BY <1>1, <3>1 DEF JobInv
    <3> QED BY <1>3, <1>4, <1>5, <3>1, <3>2
  <2> QED BY <2>1, <2>2
<1> QED BY <1>6, <1>7 DEF JobInv

(* A job still at work for a call that is answered was given up. *)
LEMMA LateJob ==
  ASSUME IndInv, NEW j \in Jobs, job[j].st \in {"run", "checked"}, answer[Call(j)] # "none"
  PROVE  Abandoned(Call(j))
<1>1. /\ TypeOK /\ JobInv /\ CallInv /\ Call(j) \in Calls /\ Nth(j) \in 1..Deliveries
      /\ j = <<Call(j), Nth(j)>>
  BY JobFacts DEF IndInv
<1>2. tries[Call(j)] \in Nat /\ Nth(j) <= tries[Call(j)] /\ Nth(j) \notin Done(Call(j))
  <2>1. tries[Call(j)] \in Nat
    BY <1>1 DEF TypeOK
  <2>2. ~(Nth(j) > tries[Call(j)])
    BY <1>1 DEF JobInv
  <2>3. Nth(j) \notin Done(Call(j))
    BY <1>1 DEF Done
  <2> QED BY <1>1, <2>1, <2>2, <2>3
<1>3. CASE answer[Call(j)] \in Codes
  <2>1. tries[Call(j)] \in Done(Call(j))
    BY <1>1, <1>3 DEF CallInv
  <2> QED BY <1>1, <1>2, <2>1 DEF Abandoned
<1>4. CASE answer[Call(j)] \in Denials
  <2>1. tries[Call(j)] = 0
    BY <1>1, <1>4 DEF CallInv
  <2> QED BY <1>1, <1>2, <2>1
<1>5. CASE answer[Call(j)] \in {"Unavailable", "GatewayTimeout"}
  BY <1>5 DEF Abandoned
<1> QED BY <1>1, <1>3, <1>4, <1>5 DEF TypeOK, Denials

(* What a call left stays accounted for when a job ends and req is the same. *)
LEMMA LeftBehind ==
  ASSUME IndInv, NEW c \in Calls, NEW j \in Jobs, NEW code \in Codes,
         job[j].st \in {"run", "checked"}, Return(j, code),
         UNCHANGED <<req, tries, answer, before>>,
         made'[c] = made[c], orders'[c] = orders[c],
         issued \subseteq issued', vacated \subseteq vacated',
         \A u \in made[c] : users[u].email = users'[u].email \/ users[u].email \in vacated'
  PROVE  /\ made'[c] \subseteq issued' /\ IsFiniteSet(made'[c])
         /\ Cardinality(made'[c]) <= Cardinality(Done(c)') /\ orders'[c] <= Cardinality(Done(c)')
         /\ made'[c] # {} => req[c].op = "create" /\ Wrote(c)'
         /\ orders'[c] > 0 => req[c].op = "order" /\ Wrote(c)'
         /\ \A u \in made'[c] : users'[u].email = req[c].email \/ req[c].email \in vacated'
         /\ Cardinality(made'[c]) > 1 => req[c].email \in vacated'
<1>1. /\ made[c] \subseteq issued /\ IsFiniteSet(made[c])
      /\ Cardinality(made[c]) <= Cardinality(Done(c)) /\ orders[c] <= Cardinality(Done(c))
      /\ made[c] # {} => req[c].op = "create" /\ Wrote(c)
      /\ orders[c] > 0 => req[c].op = "order" /\ Wrote(c)
      /\ \A u \in made[c] : users[u].email = req[c].email \/ req[c].email \in vacated
      /\ Cardinality(made[c]) > 1 => req[c].email \in vacated
  BY DEF IndInv, MadeInv
<1>2. /\ Cardinality(Done(c)) \in Nat /\ Cardinality(Done(c)') \in Nat
      /\ Cardinality(Done(c)) <= Cardinality(Done(c)')
      /\ Wrote(c) => Wrote(c)'
  BY ReturnFacts
<1>3. Cardinality(made[c]) \in Nat /\ orders[c] \in Nat
  BY <1>1, FS_CardinalityType DEF IndInv, TypeOK
<1> QED BY <1>1, <1>2, <1>3

(* A row that is not touched keeps its sources. *)
LEMMA RowKeeps ==
  ASSUME IndInv, NEW u \in UserIds, users'[u] = users[u], users[u] # Absent, req' = req,
         \A d \in Calls : made[d] \subseteq made'[d] /\ (Wrote(d) => Wrote(d)'),
         \A e \in Emails : holders[e] \subseteq holders'[e]
  PROVE  /\ users'[u].name # NoCall =>
              /\ Wrote(users[u].name)'
              /\ \/ u \in made'[users'[u].name]
                 \/ LET r == req'[users'[u].name]
                    IN  r.op = "update" /\ r.id = u /\ "name" \in r.mask
         /\ \E w \in holders'[users'[u].email] :
              \/ w = NoCall
              \/ u \in made'[w]
              \/ req'[w].op = "update" /\ req'[w].id = u /\ "email" \in req'[w].mask
<1>1. TypeOK /\ RowInv
  BY DEF IndInv
<1>2. PICK c \in Calls \cup {NoCall}, e \in Emails : users[u].name = c /\ users[u].email = e
  BY <1>1 DEF TypeOK
<1>3. c # NoCall => /\ Wrote(c)'
                    /\ \/ u \in made'[c]
                       \/ req[c].op = "update" /\ req[c].id = u /\ "name" \in req[c].mask
  BY <1>1, <1>2 DEF RowInv
<1>4. PICK w \in holders[e] :
          \/ w = NoCall
          \/ u \in made[w]
          \/ req[w].op = "update" /\ req[w].id = u /\ "email" \in req[w].mask
  BY <1>1, <1>2 DEF RowInv
<1>5. w \in Calls \cup {NoCall} /\ w \in holders'[e]
  BY <1>1 DEF TypeOK
<1>6. w = NoCall \/ u \in made'[w] \/ (req[w].op = "update" /\ req[w].id = u /\ "email" \in req[w].mask)
  BY <1>4, <1>5
<1>7. Wrote(users[u].name)' <=> Wrote(c)'
  BY <1>2 DEF Wrote, Done
<1> QED BY <1>2, <1>3, <1>5, <1>6, <1>7

(* A statement that changes nothing, and the code the handler makes of it. *)
LEMMA QuietInv ==
  ASSUME IndInv, NEW j \in Jobs, NEW code \in Codes, job[j].st \in {"run", "checked"},
         Return(j, code), UNCHANGED <<tableVars, req, tries, answer, before, orders>>,
         code = "OK" => req[Call(j)].op = "get",
         code = "InvalidArgument" => ~Valid(req[Call(j)]),
         code = "AlreadyExists" => Explained(Call(j))
  PROVE  IndInv'
<1>1. TypeOK /\ LateInv
  BY DEF IndInv
<1>2. /\ users' = users /\ issued' = issued /\ made' = made /\ holders' = holders
      /\ vacated' = vacated /\ orders' = orders
      /\ req' = req /\ tries' = tries /\ answer' = answer /\ before' = before
  BY DEF tableVars
<1>3. /\ job' \in [Jobs -> [st : {"free", "run", "checked", "done"},
                            req : Requests \cup {NoRequest}, code : Codes]]
      /\ \A i \in Jobs : i # j => job'[i] = job[i]
      /\ job'[j].code = code
      /\ \A d \in Calls : Wrote(d) => Wrote(d)'
      /\ CallInv'
  BY <1>2, ReturnFacts
<1>4. TypeOK'
  BY <1>1, <1>2, <1>3 DEF TypeOK
<1>5. JobInv'
  <2>1. \A d \in Calls : orders[d] \in Nat
    BY <1>1 DEF TypeOK
  <2> QED BY <1>2, <2>1, ReturnJobs
<1>6. MadeInv'
  BY <1>2, LeftBehind DEF MadeInv
<1>7. RowInv'
  BY <1>2, <1>3, RowKeeps DEF RowInv
<1>8. LateInv'
  BY <1>1, <1>2, <1>3 DEF LateInv, Abandoned
<1> QED BY <1>3, <1>4, <1>5, <1>6, <1>7, <1>8 DEF IndInv

(* An email is taken: by another call's doing, or by the caller's own       *)
(* earlier delivery.                                                       *)
LEMMA TakenExplained ==
  ASSUME IndInv, NEW j \in Jobs, job[j].st = "run", NEW v \in UserIds, users[v] # Absent,
         LET r == req[Call(j)]
         IN  /\ users[v].email = r.email
             /\ r.op = "create" \/ (r.op = "update" /\ v # r.id)
  PROVE  Explained(Call(j))
<1> DEFINE c == Call(j)
<1>1. TypeOK /\ JobInv /\ MadeInv /\ RowInv
  BY DEF IndInv
<1>2. c \in Calls /\ c # NoCall /\ Nth(j) \in 1..Deliveries /\ j = <<c, Nth(j)>>
  BY JobFacts, UserAssumption
<1> HIDE DEF c
<1>3. users[v].email \in Emails /\ req[c].email = users[v].email
      /\ (req[c].op = "create" \/ (req[c].op = "update" /\ v # req[c].id))
  BY <1>1 DEF TypeOK, c
<1>4. PICK w \in holders[req[c].email] :
          \/ w = NoCall
          \/ v \in made[w]
          \/ req[w].op = "update" /\ req[w].id = v /\ "email" \in req[w].mask
  BY <1>1, <1>3 DEF RowInv
<1>5. CASE w # c
  BY <1>3, <1>4, <1>5 DEF Explained, c
<1>6. CASE w = c
  <2>1. v \in made[c]
    BY <1>2, <1>3, <1>4, <1>6
  <2>2. req[c].op = "create" /\ Wrote(c)
    BY <1>1, <1>2, <2>1 DEF MadeInv
  <2>3. PICK n \in Done(c) : TRUE
    BY <2>2 DEF Wrote
  <2>4. tries[c] \in Nat /\ n \in 1..tries[c]
    BY <1>1, <1>2, DoneFacts
  <2>5. Nth(j) \in Nat /\ Nth(j) >= 1 /\ Nth(j) <= tries[c] /\ n # Nth(j)
    <3>1. n # Nth(j)
      BY <1>2, <2>3 DEF Done
    <3>2. ~(Nth(j) > tries[c])
      BY <1>1 DEF JobInv, c
    <3> QED BY <1>2, <2>4, <3>1, <3>2
  <2>6. tries[c] > 1
    BY <2>4, <2>5
  <2> QED BY <1>3, <2>1, <2>2, <2>6 DEF Explained, c
<1> QED BY <1>5, <1>6

(* Every step of a handler that leaves the tables alone. *)
LEMMA QuietSteps ==
  ASSUME IndInv, NEW j \in Jobs, UNCHANGED gateVars,
         \/ Reject(j) \/ InsertConflict(j) \/ UpdateConflict(j) \/ SelectUser(j) \/ NoRow(j)
         \/ DbError(j)
  PROVE  IndInv'
<1>1. JobInv /\ TypeOK /\ UNCHANGED <<req, tries, answer, before, orders>>
  BY DEF IndInv, gateVars
<1>2. job[j].st = "run" /\ UNCHANGED tableVars
  BY DEF Reject, InsertConflict, UpdateConflict, SelectUser, NoRow, DbError, Running
<1>3. job[j].req = req[Call(j)] /\ req[Call(j)] \in Requests
  BY <1>1, <1>2 DEF JobInv
<1>4. CASE Reject(j)
  <2>1. Return(j, "InvalidArgument") /\ ~Valid(req[Call(j)])
    BY <1>3, <1>4 DEF Reject
  <2>2. "InvalidArgument" \in Codes
    BY DEF Codes
  <2> QED BY <1>1, <1>2, <2>1, <2>2, QuietInv
<1>5. CASE InsertConflict(j) \/ UpdateConflict(j)
  <2>1. Return(j, "AlreadyExists")
    BY <1>5 DEF InsertConflict, UpdateConflict
  <2>2. PICK v \in UserIds : /\ users[v] # Absent /\ users[v].email = req[Call(j)].email
                             /\ \/ req[Call(j)].op = "create"
                                \/ req[Call(j)].op = "update" /\ v # req[Call(j)].id
    BY <1>3, <1>5 DEF InsertConflict, UpdateConflict, Taken, Running
  <2>3. Explained(Call(j))
    BY <1>2, <2>2, TakenExplained
  <2>4. "AlreadyExists" \in Codes
    BY DEF Codes
  <2> QED BY <1>1, <1>2, <2>1, <2>3, <2>4, QuietInv
<1>6. CASE SelectUser(j)
  <2>1. Return(j, "OK") /\ req[Call(j)].op = "get"
    BY <1>3, <1>6 DEF SelectUser, Running
  <2>2. "OK" \in Codes
    BY DEF Codes
  <2> QED BY <1>1, <1>2, <2>1, <2>2, QuietInv
<1>7. CASE NoRow(j) \/ DbError(j)
  <2>1. PICK code \in {"NotFound", "Internal"} : Return(j, code)
    BY <1>7 DEF NoRow, DbError
  <2>2. code \in Codes /\ code \notin {"OK", "InvalidArgument", "AlreadyExists"}
    BY DEF Codes
  <2> QED BY <1>1, <1>2, <2>1, <2>2, QuietInv
<1> QED BY <1>4, <1>5, <1>6, <1>7

(* CreateOrder's check of the user, and its commit. *)
LEMMA CheckUserInv ==
  ASSUME IndInv, NEW j \in Jobs, CheckUser(j)
  PROVE  IndInv'
<1>1. /\ TypeOK /\ JobInv /\ CallInv /\ LateInv
      /\ UNCHANGED <<tableVars, req, tries, answer, before, orders>>
      /\ job[j].st = "run" /\ job[j].req.op = "order" /\ Valid(job[j].req)
  BY DEF IndInv, CheckUser, Running, gateVars
<1>2. Call(j) \in Calls /\ job[j].req = req[Call(j)] /\ req[Call(j)] \in Requests
  BY <1>1, JobFacts DEF JobInv
<1>3. CASE Return(j, "NotFound")
  <2>1. "NotFound" \in Codes
    BY DEF Codes
  <2> QED BY <1>1, <1>3, <2>1, QuietInv
<1>4. CASE job' = [job EXCEPT ![j].st = "checked"]
  <2>1. /\ \A i \in Jobs : i # j => job'[i] = job[i]
        /\ job'[j].st = "checked" /\ job'[j].req = job[j].req
        /\ job' \in [Jobs -> [st : {"free", "run", "checked", "done"},
                              req : Requests \cup {NoRequest}, code : Codes]]
    BY <1>1, <1>4 DEF TypeOK
  <2>2. TypeOK'
    BY <1>1, <2>1 DEF TypeOK, tableVars
  <2>3. /\ \A d \in Calls : Done(d)' = Done(d)
        /\ MadeInv' /\ RowInv' /\ LateInv'
    <3>1. \A d \in Calls : tries[d] \in Nat
      BY <1>1 DEF TypeOK
    <3>2. \A i \in Jobs : /\ job'[i].st = "done" <=> job[i].st = "done"
                          /\ job[i].st = "done" => job'[i] = job[i]
      BY <1>1, <2>1
    <3> QED BY <1>1, <3>1, <3>2, GateKeeps
  <2>4. JobInv'
    <3>1. \A d \in Calls : Explained(d) => Explained(d)'
      BY <1>1 DEF Explained, tableVars
    <3>2. \A i \in Jobs : Call(i) \in Calls
      BY JobFacts
    <3> QED BY <1>1, <1>2, <2>1, <3>1, <3>2 DEF JobInv, tableVars
  <2>5. CallInv'
    <3>1. \A d \in Calls : \A n \in Done(d) : job'[<<d, n>>] = job[<<d, n>>]
      BY <1>1, <2>1, JobFacts DEF Done
    <3> QED BY <1>1, <2>3, <3>1 DEF CallInv
  <2> QED BY <2>2, <2>3, <2>4, <2>5 DEF IndInv
<1> QED BY <1>3, <1>4 DEF CheckUser

(* An order is one more trace of its call, made by a job that is then done. *)
LEMMA CommitOrderInv ==
  ASSUME IndInv, NEW j \in Jobs, CommitOrder(j)
  PROVE  IndInv'
<1> DEFINE c == Call(j)
<1>1. /\ TypeOK /\ JobInv /\ MadeInv /\ LateInv
      /\ UNCHANGED <<tableVars, req, tries, answer, before>>
      /\ job[j].st = "checked"
  BY DEF IndInv, CommitOrder
<1>2. "OK" \in Codes /\ "Internal" \in Codes
  BY DEF Codes
<1>3. CASE Return(j, "Internal") /\ UNCHANGED orders
  BY <1>1, <1>2, <1>3, QuietInv
<1>4. CASE /\ orders' = [orders EXCEPT ![Call(j)] = @ + 1]
           /\ \E code \in {"OK", "Internal"} : Return(j, code)
  <2>1. PICK code \in {"OK", "Internal"} : Return(j, code)
    BY <1>4
  <2>2. /\ users' = users /\ issued' = issued /\ made' = made /\ holders' = holders
        /\ vacated' = vacated /\ req' = req /\ tries' = tries /\ answer' = answer
        /\ before' = before /\ code \in Codes
    BY <1>1, <1>2 DEF tableVars
  <2>3. /\ job' \in [Jobs -> [st : {"free", "run", "checked", "done"},
                              req : Requests \cup {NoRequest}, code : Codes]]
        /\ \A i \in Jobs : i # j => job'[i] = job[i]
        /\ job'[j].code = code /\ c \in Calls
        /\ \A d \in Calls : /\ Cardinality(Done(d)) \in Nat /\ Cardinality(Done(d)') \in Nat
                            /\ Cardinality(Done(d)) <= Cardinality(Done(d)')
        /\ Cardinality(Done(c)') = Cardinality(Done(c)) + 1
        /\ \A d \in Calls : Wrote(d) => Wrote(d)'
        /\ Valid(req[c]) => Wrote(c)'
        /\ CallInv'
    BY <1>1, <2>1, <2>2, ReturnFacts
  <2>4. req[c].op = "order" /\ Valid(req[c])
    BY <1>1 DEF JobInv
  <2> HIDE DEF c
  <2>5. /\ orders'[c] = orders[c] + 1 /\ orders[c] \in Nat
        /\ \A d \in Calls : d # c => orders'[d] = orders[d]
        /\ \A d \in Calls : orders[d] \in Nat /\ orders'[d] \in Nat /\ orders[d] <= orders'[d]
    BY <1>1, <1>4, <2>3 DEF TypeOK, c
  <2>6. JobInv'
    <3>1. orders'[Call(j)] > 0
      BY <2>5 DEF c
    <3>2. req[Call(j)].op # "create"
      BY <2>4 DEF c
    <3>3. code # "InvalidArgument" /\ code # "AlreadyExists" /\ job[j].st \in {"run", "checked"}
      BY <1>1
    <3> QED BY <2>1, <2>2, <2>5, <3>1, <3>2, <3>3, ReturnJobs
  <2>7. ASSUME NEW d \in Calls
        PROVE  (/\ made[d] \subseteq issued /\ IsFiniteSet(made[d])
                /\ Cardinality(made[d]) <= Cardinality(Done(d)) /\ orders[d] <= Cardinality(Done(d))
                /\ made[d] # {} => req[d].op = "create" /\ Wrote(d)
                /\ orders[d] > 0 => req[d].op = "order" /\ Wrote(d)
                /\ \A u \in made[d] : users[u].email = req[d].email \/ req[d].email \in vacated
                /\ Cardinality(made[d]) > 1 => req[d].email \in vacated)'
    <3>1. CASE d # c
      BY <1>1, <2>1, <2>2, <2>5, <3>1, LeftBehind
    <3>2. CASE d = c
      <4>1. IsFiniteSet(made[c]) /\ Cardinality(made[c]) \in Nat
        BY <1>1, <2>3, FS_CardinalityType DEF MadeInv
      <4>2. Cardinality(made[c]) <= Cardinality(Done(c)') /\ orders'[c] <= Cardinality(Done(c)')
        BY <1>1, <2>3, <2>5, <4>1 DEF MadeInv
      <4> QED BY <1>1, <2>2, <2>3, <2>4, <3>2, <4>1, <4>2 DEF MadeInv
    <3> QED BY <3>1, <3>2
  <2>8. MadeInv'
    BY <2>7 DEF MadeInv
  <2>9. TypeOK'
    <3>1. ASSUME NEW d \in Calls PROVE orders'[d] \in 0..Deliveries
      <4>1. orders'[d] <= Cardinality(Done(d)')
        BY <2>7
      <4>2. Cardinality(Done(d)') <= Deliveries
        <5>1. Done(d)' \in SUBSET (1..Deliveries)
          BY DEF Done
        <5>2. Deliveries \in Nat /\ IsFiniteSet(1..Deliveries)
              /\ Cardinality(1..Deliveries) = Deliveries
          BY UserAssumption, FS_Interval
        <5> QED BY <5>1, <5>2, FS_Subset
      <4> QED BY <2>3, <2>5, <4>1, <4>2, UserAssumption
    <3>2. orders' \in [Calls -> 0..Deliveries]
      BY <1>1, <1>4, <3>1 DEF TypeOK
    <3> QED BY <1>1, <2>2, <2>3, <3>2 DEF TypeOK
  <2>10. RowInv'
    BY <2>2, <2>3, RowKeeps DEF RowInv
  <2>11. LateInv'
    BY <1>1, <2>2, <2>3, <2>4 DEF LateInv, Abandoned, c
  <2> QED BY <2>3, <2>6, <2>8, <2>9, <2>10, <2>11 DEF IndInv
<1> QED BY <1>3, <1>4 DEF CommitOrder

(* A written name is a late one only if the writer's call was given up. *)
LEMMA LateKeeps ==
  ASSUME IndInv, NEW j \in Jobs, NEW code \in Codes, job[j].st = "run",
         Return(j, code), UNCHANGED <<req, tries, answer, before>>,
         \A u \in UserIds : users'[u].name \in {users[u].name, Call(j), Blank},
         code = "OK" /\ req[Call(j)].op = "update" /\ "name" \in req[Call(j)].mask
           => users'[req[Call(j)].id].name = Call(j)
  PROVE  LateInv'
<1>1. TypeOK /\ JobInv /\ CallInv /\ LateInv
  BY DEF IndInv
<1>2. /\ \A i \in Jobs : i # j => job'[i] = job[i]
      /\ job'[j].code = code /\ Call(j) \in Calls
  BY ReturnFacts
<1> SUFFICES ASSUME NEW i \in Jobs, NEW b \in before[Call(i)],
                    job'[i].st = "done", job'[i].code = "OK",
                    req[Call(i)].op = "update", "name" \in req[Call(i)].mask,
                    req[Call(i)].id \in UserIds, users'[req[Call(i)].id].name = b
             PROVE  Abandoned(b)
  BY DEF LateInv, Abandoned
<1>3. Call(i) \in Calls /\ b \in Calls /\ answer[b] # "none" /\ b # Call(i) /\ b # Blank
  <2>1. Call(i) \in Calls
    BY JobFacts
  <2>2. b \in Calls
    BY <1>1, <2>1 DEF TypeOK
  <2> QED BY <1>1, <2>1, <2>2, UserAssumption DEF CallInv
<1>4. CASE b = Call(j)
  BY <1>3, <1>4, LateJob
<1>5. CASE b # Call(j)
  <2>1. i # j
    BY <1>2, <1>5
  <2>2. users[req[Call(i)].id].name = b
    BY <1>3, <1>5
  <2> QED BY <1>1, <1>2, <2>1, <2>2 DEF LateInv
<1> QED BY <1>4, <1>5

(* INSERT: a new row with an email nobody has. *)
LEMMA InsertInv ==
  ASSUME IndInv, NEW j \in Jobs, NEW u \in UserIds, Insert(j, u), UNCHANGED gateVars
  PROVE  IndInv'
<1> DEFINE c == Call(j)
           e == req[Call(j)].email
<1>1. /\ TypeOK /\ JobInv /\ MadeInv /\ RowInv
      /\ req' = req /\ tries' = tries /\ answer' = answer /\ before' = before /\ orders' = orders
      /\ job[j].st = "run" /\ job[j].req.op = "create" /\ ValidCreate(job[j].req)
      /\ u \notin issued /\ ~Taken(job[j].req.email, NoId) /\ InsertRow(j, u, job[j].req.email)
  BY DEF IndInv, gateVars, Insert, Running
<1>2. PICK code \in {"OK", "Internal"} : Return(j, code)
  BY <1>1 DEF InsertRow
<1>3. code \in Codes
  BY DEF Codes
<1>4. /\ job' \in [Jobs -> [st : {"free", "run", "checked", "done"},
                            req : Requests \cup {NoRequest}, code : Codes]]
      /\ c \in Calls /\ job[j].req = req[c] /\ req[c] \in Requests
      /\ \A d \in Calls : /\ Cardinality(Done(d)) \in Nat /\ Cardinality(Done(d)') \in Nat
                          /\ Cardinality(Done(d)) <= Cardinality(Done(d)')
      /\ Cardinality(Done(c)') = Cardinality(Done(c)) + 1
      /\ \A d \in Calls : Wrote(d) => Wrote(d)'
      /\ Valid(req[c]) => Wrote(c)'
      /\ CallInv'
  BY <1>1, <1>2, <1>3, ReturnFacts
<1>5. req[c].op = "create" /\ Valid(req[c]) /\ e \in Emails
  BY <1>1, <1>4, ValidFacts
<1>6. \A v \in UserIds : users[v] # Absent => users[v].email # e
  BY <1>1, <1>4, UserAssumption DEF Taken
<1> HIDE DEF c, e
<1>7. /\ users' = [users EXCEPT ![u] = [name |-> c, email |-> e]]
      /\ issued' = issued \cup {u}
      /\ made' = [made EXCEPT ![c] = @ \cup {u}]
      /\ holders' = [holders EXCEPT ![e] = @ \cup {c}]
      /\ vacated' = vacated
  BY <1>1, <1>4 DEF InsertRow, c, e
<1>8. /\ users'[u] = [name |-> c, email |-> e]
      /\ \A v \in UserIds : v # u => users'[v] = users[v]
      /\ users' \in [UserIds -> [name : Calls \cup {NoCall}, email : Emails] \cup {Absent}]
  BY <1>1, <1>4, <1>5, <1>7 DEF TypeOK
<1>9. /\ made'[c] = made[c] \cup {u} /\ \A d \in Calls : d # c => made'[d] = made[d]
      /\ made' \in [Calls -> SUBSET UserIds]
      /\ holders'[e] = holders[e] \cup {c}
      /\ \A f \in Emails : holders[f] \subseteq holders'[f]
      /\ holders' \in [Emails -> SUBSET (Calls \cup {NoCall})]
  BY <1>1, <1>4, <1>5, <1>7 DEF TypeOK
<1>10. TypeOK'
  <2>1. ASSUME NEW v \in UserIds, NEW w \in UserIds, users'[v] # Absent,
               users'[v].email = users'[w].email
        PROVE  v = w
    <3>1. \A x \in UserIds : users[x] = Absent \/ users[x].email \in Emails
      BY <1>1 DEF TypeOK
    <3>2. Absent.email = Blank /\ Blank \notin Emails
      BY UserAssumption DEF Absent
    <3>3. users[v] # Absent /\ users[v].email = users[w].email => v = w
      BY <1>1 DEF TypeOK
    <3>4. CASE v = u /\ w # u
      BY <1>5, <1>6, <1>8, <2>1, <3>1, <3>2, <3>4
    <3>5. CASE v # u /\ w = u
      BY <1>6, <1>8, <2>1, <3>5
    <3>6. CASE v # u /\ w # u
      BY <1>8, <2>1, <3>3, <3>6
    <3> QED BY <3>4, <3>5, <3>6
  <2>2. issued' \subseteq UserIds
    BY <1>1, <1>7 DEF TypeOK
  <2> QED BY <1>1, <1>4, <1>7, <1>8, <1>9, <2>1, <2>2 DEF TypeOK
<1>11. JobInv'
  <2>1. \A d \in Calls : made[d] \subseteq made'[d] /\ orders[d] \in Nat
    BY <1>1, <1>9 DEF TypeOK
  <2>2. made'[Call(j)] # {} /\ req[Call(j)].op # "order"
    BY <1>5, <1>9 DEF c
  <2> QED BY <1>1, <1>2, <1>3, <1>9, <2>1, <2>2, ReturnJobs
<1>12. MadeInv'
  <2>1. ASSUME NEW d \in Calls
        PROVE  (/\ made[d] \subseteq issued /\ IsFiniteSet(made[d])
                /\ Cardinality(made[d]) <= Cardinality(Done(d)) /\ orders[d] <= Cardinality(Done(d))
                /\ made[d] # {} => req[d].op = "create" /\ Wrote(d)
                /\ orders[d] > 0 => req[d].op = "order" /\ Wrote(d)
                /\ \A v \in made[d] : users[v].email = req[d].email \/ req[d].email \in vacated
                /\ Cardinality(made[d]) > 1 => req[d].email \in vacated)'
    <3>0. /\ made[d] \subseteq issued /\ IsFiniteSet(made[d]) /\ made[d] \subseteq UserIds
          /\ Cardinality(made[d]) <= Cardinality(Done(d)) /\ orders[d] <= Cardinality(Done(d))
          /\ orders[d] > 0 => req[d].op = "order"
          /\ orders[d] \in Nat /\ Cardinality(made[d]) \in Nat
          /\ \A v \in made[d] : users[v].email = req[d].email \/ req[d].email \in vacated
      BY <1>1, FS_CardinalityType DEF MadeInv, TypeOK
    <3>1. \A v \in made[d] : users'[v] = users[v]
      BY <1>1, <1>8, <3>0
    <3>2. CASE d # c
      <4>1. made'[d] = made[d] /\ orders'[d] = orders[d] /\ issued \subseteq issued'
            /\ vacated \subseteq vacated'
        BY <1>1, <1>7, <1>9, <3>2
      <4> QED BY <1>1, <1>2, <1>3, <3>1, <4>1, LeftBehind
    <3>3. CASE d = c
      <4>1. u \notin made[c]
        BY <1>1, <3>0, <3>3
      <4>2. IsFiniteSet(made'[c]) /\ Cardinality(made'[c]) = Cardinality(made[c]) + 1
        <5>1. IsFiniteSet(made[c])
          BY <3>0, <3>3
        <5>2. /\ IsFiniteSet(made[c] \cup {u})
              /\ Cardinality(made[c] \cup {u}) = Cardinality(made[c]) + 1
          BY <4>1, <5>1, FS_AddElement
        <5> QED BY <1>9, <5>2
      <4>3. /\ Cardinality(made'[c]) <= Cardinality(Done(c)')
            /\ orders'[c] <= Cardinality(Done(c)') /\ ~(orders'[c] > 0)
        BY <1>1, <1>4, <1>5, <3>0, <3>3, <4>2
      <4>4. \A v \in made'[c] : users'[v].email = e \/ e \in vacated'
        BY <1>7, <1>8, <1>9, <3>0, <3>1, <3>3 DEF c, e
      <4>5. Cardinality(made'[c]) > 1 => e \in vacated'
        <5>1. ASSUME made[c] # {} PROVE e \in vacated'
          <6>1. PICK v \in made[c] : TRUE
            BY <5>1
          <6>2. v \in UserIds /\ (users[v].email = e \/ e \in vacated)
            BY <3>0, <3>3 DEF c, e
          <6>3. users[v].email = e => users[v] # Absent
            BY <1>5, UserAssumption DEF Absent
          <6> QED BY <1>6, <1>7, <6>2, <6>3
        <5>2. Cardinality(made'[c]) > 1 => Cardinality(made[c]) # 0
          BY <3>0, <3>3, <4>2
        <5>3. Cardinality({}) = 0
          BY FS_EmptySet
        <5>4. Cardinality(made[c]) # 0 => made[c] # {}
          BY <5>3
        <5> QED BY <5>1, <5>2, <5>4
      <4>6. req'[c].email = e /\ req' = req
        BY <1>1 DEF c, e
      <4> QED BY <1>4, <1>5, <1>7, <1>9, <3>0, <3>3, <4>2, <4>3, <4>4, <4>5, <4>6
    <3> QED BY <3>2, <3>3
  <2> QED BY <2>1 DEF MadeInv
<1>13. RowInv'
  <2>1. \A d \in Calls : made[d] \subseteq made'[d] /\ (Wrote(d) => Wrote(d)')
    BY <1>4, <1>9
  <2>2. Wrote(users[u].name)' <=> Wrote(c)'
    BY <1>8 DEF Wrote, Done
  <2>3. users'[u].name = c /\ users'[u].email = e /\ u \in made'[c] /\ c \in holders'[e] /\ Wrote(c)'
    BY <1>4, <1>5, <1>8, <1>9
  <2>4. ASSUME NEW v \in UserIds, users'[v] # Absent
        PROVE  (/\ users[v].name # NoCall =>
                     /\ Wrote(users[v].name)
                     /\ \/ v \in made[users[v].name]
                        \/ LET r == req[users[v].name]
                           IN  r.op = "update" /\ r.id = v /\ "name" \in r.mask
                /\ \E w \in holders[users[v].email] :
                     \/ w = NoCall
                     \/ v \in made[w]
                     \/ req[w].op = "update" /\ req[w].id = v /\ "email" \in req[w].mask)'
    <3>1. CASE v = u
      BY <2>2, <2>3, <3>1
    <3>2. CASE v # u
      <4>1. users'[v] = users[v] /\ users[v] # Absent
        BY <1>8, <2>4, <3>2
      <4> QED BY <1>1, <1>9, <2>1, <4>1, RowKeeps
    <3> QED BY <3>1, <3>2
  <2> QED BY <2>4 DEF RowInv
<1>14. LateInv'
  <2>1. \A v \in UserIds : users'[v].name \in {users[v].name, Call(j), Blank}
    BY <1>8 DEF c
  <2>2. req[Call(j)].op # "update"
    BY <1>5 DEF c
  <2> QED BY <1>1, <1>2, <1>3, <2>1, <2>2, LateKeeps
<1> QED BY <1>4, <1>10, <1>11, <1>12, <1>13, <1>14 DEF IndInv

(* UPDATE: the columns of the mask, of a row that is there. *)
LEMMA UpdateRowInv ==
  ASSUME IndInv, NEW j \in Jobs, UpdateRow(j), UNCHANGED gateVars
  PROVE  IndInv'
<1> DEFINE c == Call(j)
           r == req[Call(j)]
           id == req[Call(j)].id
           row == Masked(req[Call(j)], Call(j))
<1>1. /\ TypeOK /\ JobInv /\ MadeInv /\ RowInv
      /\ req' = req /\ tries' = tries /\ answer' = answer /\ before' = before /\ orders' = orders
      /\ job[j].st = "run" /\ issued' = issued /\ made' = made
  BY DEF IndInv, gateVars, UpdateRow
<1>2. PICK code \in {"OK", "Internal"} : Return(j, code)
  BY DEF UpdateRow
<1>3. code \in Codes
  BY DEF Codes
<1>4. /\ job' \in [Jobs -> [st : {"free", "run", "checked", "done"},
                            req : Requests \cup {NoRequest}, code : Codes]]
      /\ c \in Calls /\ job[j].req = r /\ r \in Requests
      /\ \A d \in Calls : Wrote(d) => Wrote(d)'
      /\ Valid(r) => Wrote(c)'
      /\ CallInv'
  BY <1>1, <1>2, <1>3, ReturnFacts
<1>5. Updatable(r) /\ users' = [users EXCEPT ![id] = row]
      /\ vacated' = vacated \cup ({users[id].email} \ {users'[id].email})
      /\ holders' = IF "email" \in r.mask
                    THEN [holders EXCEPT ![r.email] = @ \cup {c}] ELSE holders
  BY <1>4 DEF UpdateRow
<1>6. /\ r.op = "update" /\ Valid(r) /\ id \in UserIds /\ users[id] # Absent
      /\ "email" \in r.mask => r.email \in Emails /\ ~Taken(r.email, id)
  BY <1>4, <1>5, ValidFacts DEF Updatable
<1>7. /\ row.name = IF "name" \in r.mask THEN c ELSE users[id].name
      /\ row.email = IF "email" \in r.mask THEN r.email ELSE users[id].email
      /\ row \in [name : Calls \cup {NoCall}, email : Emails]
  BY <1>1, <1>4, <1>6 DEF Masked, TypeOK
<1> HIDE DEF c, r, id, row
<1>8. /\ users'[id] = row /\ \A v \in UserIds : v # id => users'[v] = users[v]
      /\ users' \in [UserIds -> [name : Calls \cup {NoCall}, email : Emails] \cup {Absent}]
  BY <1>1, <1>5, <1>6, <1>7 DEF TypeOK
<1>9. /\ \A f \in Emails : holders[f] \subseteq holders'[f]
      /\ "email" \in r.mask => c \in holders'[r.email]
      /\ holders' \in [Emails -> SUBSET (Calls \cup {NoCall})]
  BY <1>1, <1>4, <1>5, <1>6 DEF TypeOK
<1>10. \A v \in UserIds : v # id /\ users[v] # Absent => users[v].email # row.email
  <2>1. CASE "email" \in r.mask
    BY <1>6, <1>7, <2>1 DEF Taken
  <2>2. CASE "email" \notin r.mask
    BY <1>1, <1>6, <1>7, <2>2 DEF TypeOK
  <2> QED BY <2>1, <2>2
<1>11. TypeOK'
  <2>1. ASSUME NEW v \in UserIds, NEW w \in UserIds, users'[v] # Absent,
               users'[v].email = users'[w].email
        PROVE  v = w
    <3>1. \A x \in UserIds : users[x] = Absent \/ users[x].email \in Emails
      BY <1>1 DEF TypeOK
    <3>2. Absent.email = Blank /\ Blank \notin Emails /\ row.email \in Emails
      BY <1>7, UserAssumption DEF Absent
    <3>3. users[v] # Absent /\ users[v].email = users[w].email => v = w
      BY <1>1 DEF TypeOK
    <3>4. CASE v = id /\ w # id
      BY <1>8, <1>10, <2>1, <3>1, <3>2, <3>4
    <3>5. CASE v # id /\ w = id
      BY <1>8, <1>10, <2>1, <3>5
    <3>6. CASE v # id /\ w # id
      BY <1>8, <2>1, <3>3, <3>6
    <3> QED BY <3>4, <3>5, <3>6
  <2>2. vacated' \subseteq Emails
    <3>1. users[id].email \in Emails
      BY <1>1, <1>6 DEF TypeOK
    <3> QED BY <1>1, <1>5, <3>1 DEF TypeOK
  <2> QED BY <1>1, <1>4, <1>8, <1>9, <2>1, <2>2 DEF TypeOK
<1>12. JobInv'
  <2>1. \A d \in Calls : made[d] \subseteq made'[d] /\ orders[d] \in Nat
    BY <1>1 DEF TypeOK
  <2>2. req[Call(j)].op \notin {"create", "order"}
    BY <1>6 DEF r
  <2> QED BY <1>1, <1>2, <1>3, <1>9, <2>1, <2>2, ReturnJobs
<1>13. MadeInv'
  <2>1. ASSUME NEW d \in Calls, NEW v \in made[d]
        PROVE  users[v].email = users'[v].email \/ users[v].email \in vacated'
    <3>1. v \in UserIds
      BY <1>1 DEF TypeOK
    <3> QED BY <1>5, <1>8, <3>1
  <2> QED BY <1>1, <1>2, <1>3, <1>5, <2>1, LeftBehind DEF MadeInv
<1>14. RowInv'
  <2>1. \A d \in Calls : made[d] \subseteq made'[d] /\ (Wrote(d) => Wrote(d)')
    BY <1>1, <1>4
  <2>2. ASSUME NEW v \in UserIds, users'[v] # Absent
        PROVE  (/\ users[v].name # NoCall =>
                     /\ Wrote(users[v].name)
                     /\ \/ v \in made[users[v].name]
                        \/ LET q == req[users[v].name]
                           IN  q.op = "update" /\ q.id = v /\ "name" \in q.mask
                /\ \E w \in holders[users[v].email] :
                     \/ w = NoCall
                     \/ v \in made[w]
                     \/ req[w].op = "update" /\ req[w].id = v /\ "email" \in req[w].mask)'
    <3>1. CASE v = id
      <4>1. PICK n \in Calls \cup {NoCall}, f \in Emails : row.name = n /\ row.email = f
        BY <1>7
      <4>2. Wrote(users[v].name)' <=> Wrote(n)'
        BY <1>8, <3>1, <4>1 DEF Wrote, Done
      <4>3. /\ users[id].name # NoCall =>
                 /\ Wrote(users[id].name)
                 /\ \/ id \in made[users[id].name]
                    \/ /\ req[users[id].name].op = "update" /\ req[users[id].name].id = id
                       /\ "name" \in req[users[id].name].mask
            /\ \E w \in holders[users[id].email] :
                 \/ w = NoCall
                 \/ id \in made[w]
                 \/ req[w].op = "update" /\ req[w].id = id /\ "email" \in req[w].mask
        BY <1>1, <1>6 DEF RowInv
      <4>4. req[c].op = "update" /\ req[c].id = id
        BY <1>6 DEF c, r, id
      <4>5. n # NoCall => /\ Wrote(n)'
                          /\ \/ id \in made'[n]
                             \/ req[n].op = "update" /\ req[n].id = id /\ "name" \in req[n].mask
        <5>1. CASE "name" \in r.mask
          BY <1>4, <1>6, <1>7, <4>1, <4>4, <5>1 DEF c, r
        <5>2. CASE "name" \notin r.mask
          BY <1>1, <1>7, <2>1, <4>1, <4>3, <5>2
        <5> QED BY <5>1, <5>2
      <4>6. \E w \in holders'[f] :
              \/ w = NoCall
              \/ id \in made'[w]
              \/ req[w].op = "update" /\ req[w].id = id /\ "email" \in req[w].mask
        <5>1. CASE "email" \in r.mask
          <6>1. c \in holders'[f] /\ "email" \in req[c].mask
            BY <1>7, <1>9, <4>1, <5>1 DEF c, r
          <6> QED BY <4>4, <6>1
        <5>2. CASE "email" \notin r.mask
          BY <1>1, <1>7, <1>9, <4>1, <4>3, <5>2
        <5> QED BY <5>1, <5>2
      <4> QED BY <1>1, <1>8, <3>1, <4>1, <4>2, <4>5, <4>6
    <3>2. CASE v # id
      <4>1. users'[v] = users[v] /\ users[v] # Absent
        BY <1>8, <2>2, <3>2
      <4> QED BY <1>1, <1>9, <2>1, <4>1, RowKeeps
    <3> QED BY <3>1, <3>2
  <2> QED BY <2>2 DEF RowInv
<1>15. LateInv'
  <2>1. \A v \in UserIds : users'[v].name \in {users[v].name, Call(j), Blank}
    BY <1>7, <1>8 DEF c
  <2>2. "name" \in req[Call(j)].mask => users'[req[Call(j)].id].name = Call(j)
    BY <1>7, <1>8 DEF c, r, id
  <2> QED BY <1>1, <1>2, <1>3, <2>1, <2>2, LateKeeps
<1> QED BY <1>4, <1>11, <1>12, <1>13, <1>14, <1>15 DEF IndInv

(* DELETE *)
LEMMA DeleteRowInv ==
  ASSUME IndInv, NEW j \in Jobs, DeleteRow(j), UNCHANGED gateVars
  PROVE  IndInv'
<1> DEFINE id == req[Call(j)].id
<1>1. /\ TypeOK /\ JobInv /\ MadeInv /\ RowInv
      /\ req' = req /\ tries' = tries /\ answer' = answer /\ before' = before /\ orders' = orders
      /\ job[j].st = "run" /\ job[j].req.op = "delete" /\ Valid(job[j].req)
      /\ issued' = issued /\ made' = made /\ holders' = holders
  BY DEF IndInv, gateVars, DeleteRow, Running
<1>2. PICK code \in {"OK", "Internal"} : Return(j, code)
  BY DEF DeleteRow
<1>3. code \in Codes
  BY DEF Codes
<1>4. /\ job' \in [Jobs -> [st : {"free", "run", "checked", "done"},
                            req : Requests \cup {NoRequest}, code : Codes]]
      /\ job[j].req = req[Call(j)] /\ req[Call(j)] \in Requests
      /\ \A d \in Calls : Wrote(d) => Wrote(d)'
      /\ CallInv'
  BY <1>1, <1>2, <1>3, ReturnFacts
<1>5. /\ id \in UserIds /\ users[id] # Absent /\ req[Call(j)].op = "delete"
      /\ users' = [users EXCEPT ![id] = Absent]
      /\ vacated' = vacated \cup {users[id].email}
  BY <1>1, <1>4, ValidFacts DEF DeleteRow
<1> HIDE DEF id
<1>6. /\ users'[id] = Absent /\ \A v \in UserIds : v # id => users'[v] = users[v]
      /\ users' \in [UserIds -> [name : Calls \cup {NoCall}, email : Emails] \cup {Absent}]
  BY <1>1, <1>5 DEF TypeOK
<1>7. users[id].email \in Emails
  BY <1>1, <1>5 DEF TypeOK
<1>8. TypeOK'
  <2>1. ASSUME NEW v \in UserIds, NEW w \in UserIds, users'[v] # Absent,
               users'[v].email = users'[w].email
        PROVE  v = w
    <3>1. Absent.email = Blank /\ Blank \notin Emails /\ users'[v].email \in Emails
      BY <1>6, <2>1, UserAssumption DEF Absent
    <3> QED BY <1>1, <1>6, <2>1, <3>1 DEF TypeOK
  <2> QED BY <1>1, <1>4, <1>5, <1>6, <1>7, <2>1 DEF TypeOK
<1>9. JobInv'
  <2>1. \A d \in Calls : orders[d] \in Nat
    BY <1>1 DEF TypeOK
  <2> QED BY <1>1, <1>2, <1>3, <1>5, <2>1, ReturnJobs
<1>10. MadeInv'
  <2>1. ASSUME NEW d \in Calls, NEW v \in made[d]
        PROVE  users[v].email = users'[v].email \/ users[v].email \in vacated'
    <3>1. v \in UserIds
      BY <1>1 DEF TypeOK
    <3> QED BY <1>5, <1>6, <3>1
  <2> QED BY <1>1, <1>2, <1>3, <1>5, <2>1, LeftBehind DEF MadeInv
<1>11. RowInv'
  <2>1. \A v \in UserIds : users'[v] # Absent => users'[v] = users[v] /\ users[v] # Absent
    BY <1>6
  <2> QED BY <1>1, <1>4, <2>1, RowKeeps DEF RowInv
<1>12. LateInv'
  <2>1. \A v \in UserIds : users'[v].name \in {users[v].name, Call(j), Blank}
    BY <1>6 DEF Absent
  <2> QED BY <1>1, <1>2, <1>3, <1>5, <2>1, LateKeeps
<1> QED BY <1>4, <1>8, <1>9, <1>10, <1>11, <1>12 DEF IndInv

(* The invariant holds in every state of the gateway and the user service. *)
LEMMA Invariance == Spec => []IndInv
<1>1. ASSUME IndInv, Next PROVE IndInv'
  <2>1. ASSUME NEW c \in Calls, NEW r \in Requests, Deny(c, r) \/ Send(c, r) PROVE IndInv'
    BY <1>1, <2>1, DenyInv, DeliverInv
  <2>2. ASSUME NEW c \in Calls, Retry(c) PROVE IndInv'
    <3>1. req[c] \in Requests
      <4>1. tries[c] # 0
        BY <2>2 DEF Retry, Waiting
      <4> QED BY <1>1, <4>1 DEF IndInv, CallInv, TypeOK
    <3> QED BY <1>1, <2>2, <3>1, DeliverInv
  <2>3. ASSUME NEW c \in Calls, GiveUp(c) \/ Timeout(c) \/ Forward(c) PROVE IndInv'
    BY <1>1, <2>3, AnswerInv
  <2>4. ASSUME NEW j \in Jobs, UserStep(j), UNCHANGED gateVars PROVE IndInv'
    BY <1>1, <2>4, QuietSteps, InsertInv, UpdateRowInv, DeleteRowInv DEF UserStep
  <2>5. ASSUME NEW j \in Jobs, CheckUser(j) \/ CommitOrder(j) PROVE IndInv'
    BY <1>1, <2>5, CheckUserInv, CommitOrderInv
  <2> QED BY <1>1, <2>1, <2>2, <2>3, <2>4, <2>5 DEF Next
<1>2. ASSUME IndInv, UNCHANGED vars PROVE IndInv'
  <2>1. /\ UNCHANGED <<users, issued, made, holders, vacated, job, req, tries, answer, before,
                       orders>>
    BY <1>2 DEF vars, userVars, gateVars, tableVars
  <2>2. TypeOK /\ JobInv /\ CallInv
    BY <1>2 DEF IndInv
  <2>3. \A d \in Calls : tries[d] \in Nat
    BY <2>2 DEF TypeOK
  <2>4. MadeInv' /\ RowInv' /\ LateInv'
    BY <1>2, <2>1, <2>3, GateKeeps DEF tableVars
  <2>5. TypeOK'
    BY <2>1, <2>2 DEF TypeOK
  <2>6. JobInv'
    BY <2>1, <2>2 DEF JobInv, Explained
  <2>7. CallInv'
    BY <2>1, <2>2 DEF CallInv, Done
  <2> QED BY <2>4, <2>5, <2>6, <2>7 DEF IndInv
<1>3. IndInv /\ [Next]_vars => IndInv'
  BY <1>1, <1>2
<1> QED BY <1>3, InitInv, PTL DEF Spec

--------------------------------------------------------------------------------
(* What the gateway forwarded, a job had answered. *)
LEMMA Answered ==
  ASSUME IndInv, NEW c \in Calls, answer[c] \in Codes \ {"none"}
  PROVE  /\ <<c, tries[c]>> \in Jobs /\ Call(<<c, tries[c]>>) = c
         /\ job[<<c, tries[c]>>].st = "done" /\ job[<<c, tries[c]>>].code = answer[c]
<1>1. tries[c] \in Done(c) /\ job[<<c, tries[c]>>].code = answer[c]
  BY DEF IndInv, CallInv
<1> QED BY <1>1, JobFacts DEF Done

(* Every variable keeps its type, and no two rows ever have one email,     *)
(* whatever is delivered twice, late or out of order.                      *)
THEOREM GatewayTypeCorrect == Spec => []TypeOK
BY Invariance, PTL DEF IndInv

(* AlreadyExists is somebody else's doing, or that of an earlier delivery  *)
(* of the same CreateUser; an UpdateUser never conflicts with itself.      *)
THEOREM ConflictsExplained == Spec => []ConflictExplained
<1>1. ASSUME IndInv, NEW c \in Calls, answer[c] = "AlreadyExists" PROVE Explained(c)
  <2>1. answer[c] \in Codes \ {"none"}
    BY <1>1 DEF Codes
  <2>2. /\ <<c, tries[c]>> \in Jobs /\ Call(<<c, tries[c]>>) = c
        /\ job[<<c, tries[c]>>].st = "done" /\ job[<<c, tries[c]>>].code = "AlreadyExists"
    BY <1>1, <2>1, Answered
  <2> QED BY <1>1, <2>2 DEF IndInv, JobInv
<1>2. IndInv => ConflictExplained
  BY <1>1 DEF ConflictExplained, Explained
<1> QED BY <1>2, Invariance, PTL

(* However often a CreateUser is delivered, it creates no more users than  *)
(* it has deliveries, and a second one only after the email was given up.  *)
THEOREM RetriedCreatesOne == Spec => []RetriesCreateOne
<1>1. ASSUME IndInv, NEW c \in Calls
      PROVE  /\ Cardinality(made[c]) <= tries[c]
             /\ Cardinality(made[c]) > 1 => req[c].email \in vacated
  <2>1. /\ IsFiniteSet(made[c]) /\ Cardinality(made[c]) <= Cardinality(Done(c))
        /\ Cardinality(made[c]) > 1 => req[c].email \in vacated
    BY <1>1 DEF IndInv, MadeInv
  <2>2. /\ tries[c] \in Nat /\ Cardinality(Done(c)) \in Nat /\ Cardinality(Done(c)) <= tries[c]
    BY <1>1, DoneFacts DEF IndInv
  <2>3. Cardinality(made[c]) \in Nat
    BY <2>1, FS_CardinalityType
  <2> QED BY <2>1, <2>2, <2>3
<1>2. IndInv => RetriesCreateOne
  BY <1>1 DEF RetriesCreateOne
<1> QED BY <1>2, Invariance, PTL

(* An acknowledged name is overwritten by an earlier answered call only    *)
(* through a delivery the gateway had given up.                            *)
THEOREM LateWritesAbandoned == Spec => []LateWriteAbandoned
<1>1. ASSUME IndInv, NEW u \in UserIds, NEW c \in Calls, NEW d \in Calls,
             users[u].name = c, c \in before[d], req[d].op = "update", req[d].id = u,
             "name" \in req[d].mask, answer[d] = "OK"
      PROVE  Abandoned(c)
  <2>1. answer[d] \in Codes \ {"none"}
    BY <1>1 DEF Codes
  <2>2. /\ <<d, tries[d]>> \in Jobs /\ Call(<<d, tries[d]>>) = d
        /\ job[<<d, tries[d]>>].st = "done" /\ job[<<d, tries[d]>>].code = "OK"
    BY <1>1, <2>1, Answered
  <2> QED BY <1>1, <2>2 DEF IndInv, LateInv
<1>2. IndInv => LateWriteAbandoned
  BY <1>1 DEF LateWriteAbandoned
<1> QED BY <1>2, Invariance, PTL

(* Rows have ids given out; a row whose name was updated has another name  *)
(* than the first one.                                                     *)
RenameInv == \A u \in UserIds :
  /\ users[u] # Absent \/ Renamed(u) => u \in issued
  /\ users[u] # Absent /\ Renamed(u) => users[u].name # NoCall /\ u \notin made[users[u].name]

(* A name is updated by a job that returns OK and by no other step.        *)
LEMMA RenamedBy ==
  ASSUME TypeOK, JobInv, NEW j \in Jobs, NEW u \in UserIds, Renamed(u)',
         \A k \in Jobs : k # j => job'[k] = job[k],
         job'[j].st # "done" \/ \E code : job[j].st \in {"run", "checked"} /\ Return(j, code)
  PROVE  \/ Renamed(u)
         \/ /\ job[j].st \in {"run", "checked"} /\ Return(j, "OK")
            /\ req[Call(j)].op = "update" /\ req[Call(j)].id = u
            /\ "name" \in req[Call(j)].mask
<1>1. PICK k \in Jobs : /\ job'[k].st = "done" /\ job'[k].code = "OK"
                        /\ job'[k].req.op = "update" /\ job'[k].req.id = u
                        /\ "name" \in job'[k].req.mask
  BY DEF Renamed
<1>2. CASE k # j
  BY <1>1, <1>2 DEF Renamed
<1>3. CASE k = j
  <2>1. PICK code : job[j].st \in {"run", "checked"} /\ Return(j, code)
    BY <1>1, <1>3
  <2>0. job \in [Jobs -> [st : {"free", "run", "checked", "done"},
                          req : Requests \cup {NoRequest}, code : Codes]]
    BY DEF TypeOK
  <2>2. job'[j].code = code /\ job'[j].req = job[j].req
    BY <2>0, <2>1 DEF Return
  <2>3. job[j].req = req[Call(j)]
    BY <2>1 DEF JobInv
  <2> QED BY <1>1, <1>3, <2>1, <2>2, <2>3
<1> QED BY <1>2, <1>3

(* An update is a call of its own, which makes no user, and ids are fresh. *)
LEMMA RenamesStay == Spec => []RenameInv
<1>1. ASSUME IndInv, RenameInv, UNCHANGED tableVars, \A u \in UserIds : Renamed(u)' => Renamed(u)
      PROVE  RenameInv'
  BY <1>1 DEF RenameInv, tableVars
<1>2. ASSUME IndInv, RenameInv, NEW k \in Jobs, UNCHANGED tableVars,
             job' = job \/ \E r : Receive(k, r)
      PROVE  RenameInv'
  <2>1. TypeOK /\ JobInv
    BY <1>2 DEF IndInv
  <2>2. /\ \A i \in Jobs : i # k => job'[i] = job[i]
        /\ job' = job \/ job'[k].st # "done"
    BY <1>2, <2>1 DEF Receive, TypeOK
  <2>3. job' = job => \A u \in UserIds : Renamed(u)' => Renamed(u)
    BY DEF Renamed
  <2>4. ASSUME job'[k].st # "done", NEW u \in UserIds, Renamed(u)' PROVE Renamed(u)
    <3>1. ~(\E code : Return(k, code))
      BY <2>1, <2>4 DEF Return, TypeOK
    <3> QED BY <2>1, <2>2, <2>4, <3>1, RenamedBy
  <2> QED BY <1>1, <1>2, <2>2, <2>3, <2>4
<1>3. ASSUME IndInv, RenameInv, NEW j \in Jobs, UserStep(j), UNCHANGED gateVars PROVE RenameInv'
  <2>1. /\ TypeOK /\ JobInv /\ MadeInv /\ Call(j) \in Calls
        /\ UNCHANGED <<req, tries, answer, before, orders>>
    BY <1>3, JobFacts DEF IndInv, gateVars
  <2>2. PICK code : job[j].st = "run" /\ Return(j, code)
    BY <1>3 DEF UserStep, Reject, Insert, InsertRow, InsertConflict, UpdateRow, UpdateConflict,
                SelectUser, DeleteRow, NoRow, DbError, Running
  <2>3. /\ \A k \in Jobs : k # j => job'[k] = job[k]
        /\ job'[j].code = code /\ job[j].req = req[Call(j)] /\ req[Call(j)] \in Requests
    BY <2>1, <2>2 DEF Return, TypeOK, JobInv
  <2>4. ASSUME NEW u \in UserIds, Renamed(u)'
        PROVE  \/ Renamed(u)
               \/ /\ job'[j].code = "OK" /\ req[Call(j)].op = "update"
                  /\ req[Call(j)].id = u /\ "name" \in req[Call(j)].mask
    <3>1. \A d : Return(j, d) => job'[j].code = d
      BY <2>1 DEF Return, TypeOK
    <3> QED BY <2>1, <2>2, <2>3, <2>4, <3>1, RenamedBy
  <2>5. CASE Reject(j) \/ InsertConflict(j) \/ UpdateConflict(j) \/ SelectUser(j) \/ NoRow(j)
             \/ DbError(j)
    <3>1. UNCHANGED tableVars
      BY <2>5 DEF Reject, InsertConflict, UpdateConflict, SelectUser, NoRow, DbError
    <3>2. \A d : Return(j, d) => job'[j].code = d
      BY <2>1 DEF Return, TypeOK
    <3>3. job'[j].code = "OK" => req[Call(j)].op = "get"
      BY <2>3, <2>5, <3>2 DEF Reject, InsertConflict, UpdateConflict, SelectUser, NoRow, DbError,
                              Running
    <3> QED BY <1>1, <1>3, <2>4, <3>1, <3>3
  <2>6. ASSUME NEW v \in UserIds, Insert(j, v) PROVE RenameInv'
    <3>1. /\ v \notin issued /\ issued' = issued \cup {v} /\ req[Call(j)].op = "create"
          /\ users' = [users EXCEPT ![v] = [name |-> Call(j), email |-> req[Call(j)].email]]
          /\ made' = [made EXCEPT ![Call(j)] = @ \cup {v}]
      BY <2>3, <2>6 DEF Insert, InsertRow, Running
    <3>2. /\ \A u \in UserIds : u # v => users'[u] = users[u]
          /\ \A d \in Calls : made'[d] \subseteq made[d] \cup {v}
      BY <2>1, <3>1 DEF TypeOK
    <3>3. \A u \in UserIds : Renamed(u)' => Renamed(u) /\ u # v
      BY <1>3, <2>4, <3>1 DEF RenameInv
    <3>4. \A u \in UserIds : users[u] # Absent => users[u].name \in Calls \cup {NoCall}
      BY <2>1 DEF TypeOK
    <3> QED BY <1>3, <3>1, <3>2, <3>3, <3>4 DEF RenameInv
  <2>7. CASE UpdateRow(j)
    <3> DEFINE r == req[Call(j)]
    <3>1. /\ r.op = "update" /\ r.id \in UserIds /\ users[r.id] # Absent
          /\ users' = [users EXCEPT ![r.id] = Masked(r, Call(j))]
          /\ UNCHANGED <<issued, made>>
      BY <2>3, <2>7, ValidFacts DEF UpdateRow, Updatable
    <3>2. /\ \A u \in UserIds : u # r.id => users'[u] = users[u]
          /\ users'[r.id] = Masked(r, Call(j))
      BY <2>1, <3>1 DEF TypeOK
    <3>3. users'[r.id].name = IF "name" \in r.mask THEN Call(j) ELSE users[r.id].name
      BY <3>2 DEF Masked
    <3>4. made[Call(j)] = {} /\ Call(j) # NoCall
      BY <2>1, <3>1, UserAssumption DEF MadeInv
    <3> HIDE DEF r
    <3>5. \A u \in UserIds : Renamed(u)' => Renamed(u) \/ (u = r.id /\ "name" \in r.mask)
      BY <2>4 DEF r
    <3> QED BY <1>3, <3>1, <3>2, <3>3, <3>4, <3>5 DEF RenameInv
  <2>8. CASE DeleteRow(j)
    <3>1. /\ req[Call(j)].op = "delete" /\ UNCHANGED <<issued, made>>
          /\ users' = [users EXCEPT ![req[Call(j)].id] = Absent]
      BY <2>3, <2>8 DEF DeleteRow, Running
    <3>2. \A u \in UserIds : users'[u] \in {users[u], Absent}
      BY <2>1, <3>1 DEF TypeOK
    <3>3. \A u \in UserIds : Renamed(u)' => Renamed(u)
      BY <2>4, <3>1
    <3> QED BY <1>3, <3>1, <3>2, <3>3 DEF RenameInv
  <2> QED BY <1>3, <2>5, <2>6, <2>7, <2>8 DEF UserStep
<1>4. ASSUME IndInv, RenameInv, NEW j \in Jobs, CheckUser(j) \/ CommitOrder(j) PROVE RenameInv'
  <2>1. TypeOK /\ JobInv /\ UNCHANGED tableVars
    BY <1>4 DEF IndInv, CheckUser, CommitOrder
  <2>2. /\ req[Call(j)].op = "order" /\ \A k \in Jobs : k # j => job'[k] = job[k]
        /\ job'[j].st # "done" \/ \E code : job[j].st \in {"run", "checked"} /\ Return(j, code)
    <3>1. req[Call(j)].op = "order" /\ job[j].st \in {"run", "checked"}
      BY <1>4, <2>1 DEF CheckUser, CommitOrder, Running, JobInv
    <3>2. (\E code : Return(j, code)) \/ job' = [job EXCEPT ![j].st = "checked"]
      BY <1>4 DEF CheckUser, CommitOrder
    <3>3. \A k \in Jobs : k # j => job'[k] = job[k]
      BY <2>1, <3>2 DEF Return, TypeOK
    <3>4. job' = [job EXCEPT ![j].st = "checked"] => job'[j].st = "checked"
      BY <2>1 DEF TypeOK
    <3> QED BY <3>1, <3>2, <3>3, <3>4
  <2>3. \A u \in UserIds : Renamed(u)' => Renamed(u)
    BY <2>1, <2>2, RenamedBy
  <2> QED BY <1>1, <1>4, <2>1, <2>3
<1>5. ASSUME IndInv, RenameInv, [Next]_vars PROVE RenameInv'
  <2>1. \A c \in Calls, r \in Requests : Deny(c, r) \/ Send(c, r) => RenameInv'
    <3> SUFFICES ASSUME NEW c \in Calls, NEW r \in Requests, Deny(c, r) \/ Send(c, r)
                 PROVE  RenameInv'
      OBVIOUS
    <3>1. Send(c, r) => <<c, tries[c] + 1>> \in Jobs
      BY <1>5, Fresh, JobFacts, UserAssumption DEF Send
    <3>2. <<c, 1>> \in Jobs
      BY JobFacts, UserAssumption
    <3> QED BY <1>2, <1>5, <3>1, <3>2 DEF Deny, Send, Deliver, userVars
  <2>2. \A c \in Calls : Retry(c) \/ GiveUp(c) \/ Timeout(c) \/ Forward(c) => RenameInv'
    <3> SUFFICES ASSUME NEW c \in Calls, Retry(c) \/ GiveUp(c) \/ Timeout(c) \/ Forward(c)
                 PROVE  RenameInv'
      OBVIOUS
    <3>1. Retry(c) => <<c, tries[c] + 1>> \in Jobs
      BY <1>5, JobFacts, UserAssumption DEF Retry, IndInv, TypeOK
    <3>2. <<c, 1>> \in Jobs
      BY JobFacts, UserAssumption
    <3> QED BY <1>2, <1>5, <3>1, <3>2 DEF Retry, GiveUp, Timeout, Forward, Deliver, userVars
  <2>3. CASE UNCHANGED vars
    <3>1. UNCHANGED tableVars /\ job' = job
      BY <2>3 DEF vars, userVars
    <3> QED BY <1>1, <1>5, <3>1 DEF Renamed
  <2> QED BY <1>3, <1>4, <1>5, <2>1, <2>2, <2>3 DEF Next
<1>6. Init => RenameInv
  <2> SUFFICES ASSUME Init PROVE RenameInv
    OBVIOUS
  <2>1. \A u \in UserIds : users[u] # Absent => u \in issued
    BY DEF Init, UserInit
  <2>2. \A u \in UserIds : ~Renamed(u)
    BY DEF Init, UserInit, Renamed, Free
  <2> QED BY <2>1, <2>2 DEF RenameInv
<1> QED BY <1>5, <1>6, Invariance, PTL DEF Spec

(* A stored field comes from the call that made the user or from an update *)
(* whose mask names the field; a name that was updated is never the one    *)
(* the row was created with again.                                         *)
THEOREM FieldsComeFromMask == Spec => []FieldsFromMask
<1>1. IndInv /\ RenameInv => FieldsFromMask
  BY DEF IndInv, RowInv, RenameInv, FieldsFromMask
<1> QED BY <1>1, Invariance, RenamesStay, PTL

(* OK means done; a refusal, or NotFound and AlreadyExists to a call that  *)
(* was delivered once, mean that nothing was; each delivery commits at     *)
(* most one order.                                                         *)
THEOREM AnswersAreTrue == Spec => []AnswersTrue
<1>1. ASSUME IndInv, NEW c \in Calls PROVE orders[c] <= tries[c]
  <2>1. orders[c] <= Cardinality(Done(c)) /\ orders[c] \in Nat
    BY <1>1 DEF IndInv, MadeInv, TypeOK
  <2>2. /\ tries[c] \in Nat /\ Cardinality(Done(c)) \in Nat /\ Cardinality(Done(c)) <= tries[c]
    BY <1>1, DoneFacts DEF IndInv
  <2> QED BY <2>1, <2>2
<1>2. ASSUME IndInv, NEW c \in Calls, answer[c] = "OK"
      PROVE  /\ req[c].op = "create" => made[c] # {}
             /\ req[c].op = "order" => orders[c] > 0
  <2>1. answer[c] \in Codes \ {"none"}
    BY <1>2 DEF Codes
  <2>2. /\ <<c, tries[c]>> \in Jobs /\ Call(<<c, tries[c]>>) = c
        /\ job[<<c, tries[c]>>].st = "done" /\ job[<<c, tries[c]>>].code = "OK"
    BY <1>2, <2>1, Answered
  <2> QED BY <1>2, <2>2 DEF IndInv, JobInv
<1>3. ASSUME IndInv, NEW c \in Calls,
             \/ answer[c] \in {"Unauthorized", "Forbidden", "PayloadTooLarge", "TooManyRequests",
                            "InvalidArgument"}
             \/ answer[c] \in {"AlreadyExists", "NotFound"} /\ tries[c] = 1
      PROVE  ~Wrote(c)
  <2>0. TypeOK /\ JobInv
    BY <1>3 DEF IndInv
  <2>1. CASE answer[c] \in Denials
    <3>1. tries[c] = 0
      BY <1>3, <2>1 DEF IndInv, CallInv
    <3> QED BY <1>3, <3>1, Fresh DEF Wrote
  <2>2. CASE answer[c] = "InvalidArgument"
    <3>1. answer[c] \in Codes \ {"none"}
      BY <2>2 DEF Codes
    <3>2. /\ <<c, tries[c]>> \in Jobs /\ Call(<<c, tries[c]>>) = c
          /\ job[<<c, tries[c]>>].st = "done" /\ job[<<c, tries[c]>>].code = "InvalidArgument"
      BY <1>3, <2>2, <3>1, Answered
    <3> QED BY <2>0, <3>2 DEF JobInv, Wrote
  <2>3. CASE answer[c] \in {"AlreadyExists", "NotFound"} /\ tries[c] = 1
    <3>1. answer[c] \in Codes \ {"none"}
      BY <2>3 DEF Codes
    <3>2. job[<<c, 1>>].code \in {"AlreadyExists", "NotFound"}
      BY <1>3, <2>3, <3>1, Answered
    <3>3. \A n \in Done(c) : n \in 1..1
      BY <2>0, <2>3, DoneFacts
    <3>4. \A n \in Done(c) : n = 1
      BY <3>3
    <3> QED BY <3>2, <3>4 DEF Wrote
  <2> QED BY <1>3, <2>1, <2>2, <2>3 DEF Denials
<1>4. ASSUME IndInv, NEW c \in Calls, ~Wrote(c)
      PROVE  orders[c] = 0 /\ made[c] = {} /\ \A u \in UserIds : users[u].name # c
  <2>1. orders[c] \in Nat /\ made[c] = {} /\ ~(orders[c] > 0)
    BY <1>4 DEF IndInv, MadeInv, TypeOK
  <2>2. ASSUME NEW u \in UserIds, users[u].name = c PROVE FALSE
    <3>1. users[u] # Absent /\ c # NoCall
      BY <2>2, UserAssumption DEF Absent
    <3> QED BY <1>4, <2>2, <3>1 DEF IndInv, RowInv
  <2> QED BY <2>1, <2>2
<1>5. IndInv => AnswersTrue
  BY <1>1, <1>2, <1>3, <1>4 DEF AnswersTrue
<1> QED BY <1>5, Invariance, PTL
================================================================================
