-------------------------------- MODULE Gateway --------------------------------
(***************************************************************************)
(* The Envoy gateway in front of the user and order services: the API key  *)
(* check, the rate limit, the route's 10 s timeout and its retries.  A     *)
(* delivery whose connection is reset may have been executed, may be       *)
(* executed later, or never: the gateway sends the request again and no    *)
(* handler can tell.  CreateOrder is here its check of the user and the    *)
(* commit of its transaction (OrderService has the rest).                  *)
(***************************************************************************)
EXTENDS UserService

VARIABLES
  req,      \* each call's request
  tries,    \* deliveries made of each call
  answer,   \* the gateway's answer to the client
  before,   \* history: the calls answered before a call was sent
  orders    \* orders committed for each call

gateVars == <<req, tries, answer, before, orders>>
vars == <<userVars, gateVars>>

NoRequest == [op |-> "none"]

Init ==
  /\ UserInit
  /\ req = [c \in Calls |-> NoRequest]
  /\ tries = [c \in Calls |-> 0]
  /\ answer = [c \in Calls |-> "none"]
  /\ before = [c \in Calls |-> {}]
  /\ orders = [c \in Calls |-> 0]

Waiting(c) == tries[c] > 0 /\ answer[c] = "none"
Answer(c, code) == answer' = [answer EXCEPT ![c] = code]
Deliver(c, r) == tries' = [tries EXCEPT ![c] = @ + 1] /\ Receive(<<c, tries[c] + 1>>, r)

(* ext_authz refuses a missing or wrong key; Envoy refuses when it is down, *)
(* when the body is past the bytes it may hand to ext_authz, and past the   *)
(* rate limit.                                                              *)
Deny(c, r) ==
  /\ req[c] = NoRequest
  /\ req' = [req EXCEPT ![c] = r]
  /\ \E code \in {"Unauthorized", "Forbidden", "PayloadTooLarge", "TooManyRequests"} :
       Answer(c, code)
  /\ UNCHANGED <<userVars, tries, before, orders>>

Send(c, r) ==
  /\ req[c] = NoRequest
  /\ req' = [req EXCEPT ![c] = r]
  /\ before' = [before EXCEPT ![c] = {d \in Calls : answer[d] # "none"}]
  /\ Deliver(c, r)
  /\ UNCHANGED <<tableVars, answer, orders>>

(* The connection is reset before the answer, or could not be made. *)
Retry(c) ==
  /\ Waiting(c) /\ tries[c] < Deliveries
  /\ Deliver(c, req[c])
  /\ UNCHANGED <<tableVars, req, answer, before, orders>>

(* No retry left, or too many retries at once in the cluster. *)
GiveUp(c) ==
  /\ Waiting(c)
  /\ Answer(c, "Unavailable")
  /\ UNCHANGED <<userVars, req, tries, before, orders>>

Timeout(c) ==
  /\ Waiting(c)
  /\ Answer(c, "GatewayTimeout")
  /\ UNCHANGED <<userVars, req, tries, before, orders>>

(* The last delivery's answer arrives. *)
Forward(c) ==
  /\ Waiting(c)
  /\ job[<<c, tries[c]>>].st = "done"
  /\ Answer(c, job[<<c, tries[c]>>].code)
  /\ UNCHANGED <<userVars, req, tries, before, orders>>

CheckUser(j) ==
  /\ Running(j, "order") /\ Valid(job[j].req)
  /\ IF users[job[j].req.id] = Absent
     THEN Return(j, "NotFound")
     ELSE job' = [job EXCEPT ![j].st = "checked"]
  /\ UNCHANGED <<tableVars, gateVars>>

CommitOrder(j) ==
  /\ job[j].st = "checked"
  /\ \/ orders' = [orders EXCEPT ![Call(j)] = @ + 1]
        /\ \E code \in {"OK", "Internal"} : Return(j, code)
     \/ Return(j, "Internal") /\ UNCHANGED orders
  /\ UNCHANGED <<tableVars, req, tries, answer, before>>

Next ==
  \/ \E c \in Calls, r \in Requests : Deny(c, r) \/ Send(c, r)
  \/ \E c \in Calls : Retry(c) \/ GiveUp(c) \/ Timeout(c) \/ Forward(c)
  \/ \E j \in Jobs : UserStep(j) /\ UNCHANGED gateVars
  \/ \E j \in Jobs : CheckUser(j) \/ CommitOrder(j)

Spec == Init /\ [][Next]_vars

--------------------------------------------------------------------------------
(* Properties *)

Codes == {"none", "OK", "InvalidArgument", "AlreadyExists", "NotFound", "Internal"}
Renamed(u) == \E j \in Jobs : /\ job[j].st = "done" /\ job[j].code = "OK"
                              /\ job[j].req.op = "update" /\ job[j].req.id = u
                              /\ "name" \in job[j].req.mask
Abandoned(c) == tries[c] > 1 \/ answer[c] \in {"Unavailable", "GatewayTimeout"}

(* Every variable holds a value of its type; emails are unique. *)
TypeOK ==
  /\ users \in [UserIds -> [name : Calls \cup {NoCall}, email : Emails] \cup {Absent}]
  /\ \A u, v \in UserIds : users[u] # Absent /\ users[u].email = users[v].email => u = v
  /\ job \in [Jobs -> [st : {"free", "run", "checked", "done"},
                       req : Requests \cup {NoRequest}, code : Codes]]
  /\ issued \subseteq UserIds /\ vacated \subseteq Emails
  /\ made \in [Calls -> SUBSET UserIds]
  /\ holders \in [Emails -> SUBSET (Calls \cup {NoCall})]
  /\ req \in [Calls -> Requests \cup {NoRequest}]
  /\ tries \in [Calls -> 0..Deliveries]
  /\ answer \in [Calls -> Codes \cup {"Unauthorized", "Forbidden", "PayloadTooLarge",
                                      "TooManyRequests", "Unavailable", "GatewayTimeout"}]
  /\ before \in [Calls -> SUBSET Calls]
  /\ orders \in [Calls -> 0..Deliveries]

(***************************************************************************)
(* "email already in use" is true of somebody else's call, or the caller's *)
(* own CreateUser was delivered more than once and met the user it had     *)
(* made.  An UpdateUser never conflicts with itself, however often it is   *)
(* delivered (server.go:37, server.go:97 of the user service).             *)
(***************************************************************************)
ConflictExplained ==
  \A c \in Calls : answer[c] = "AlreadyExists" =>
    \/ holders[req[c].email] \ {c} # {}
    \/ req[c].op = "create" /\ tries[c] > 1 /\ made[c] # {}

(***************************************************************************)
(* The UNIQUE email makes a retried CreateUser create one user, unless the *)
(* user was deleted or got another email before a late delivery ran.       *)
(***************************************************************************)
RetriesCreateOne ==
  \A c \in Calls :
    /\ Cardinality(made[c]) <= tries[c]
    /\ Cardinality(made[c]) > 1 => req[c].email \in vacated

(***************************************************************************)
(* An acknowledged UpdateUser of a name is undone by a call that had been  *)
(* answered before it was sent only through a delivery of that call which  *)
(* the gateway had given up and the service executed late.                 *)
(***************************************************************************)
LateWriteAbandoned ==
  \A u \in UserIds : \A c, d \in Calls :
    /\ users[u].name = c /\ c \in before[d]
    /\ req[d].op = "update" /\ req[d].id = u /\ "name" \in req[d].mask /\ answer[d] = "OK"
    => Abandoned(c)

(***************************************************************************)
(* Fields come only from calls that were to write them: the creator's, or  *)
(* an update whose mask has the field, whatever ran at the same time; and  *)
(* once an update of the name was answered OK, no write of another field   *)
(* brings back the name the row was created with.                          *)
(***************************************************************************)
FieldsFromMask ==
  \A u \in UserIds : users[u] # Absent =>
    /\ users[u].name # NoCall /\ u \notin made[users[u].name]
         => "name" \in req[users[u].name].mask
    /\ \E w \in holders[users[u].email] :
         w = NoCall \/ u \in made[w] \/ (req[w].op = "update" /\ "email" \in req[w].mask)
    /\ users[u].name = NoCall \/ u \in made[users[u].name] => ~Renamed(u)

(***************************************************************************)
(* What a client is told is so: OK means done, a refusal means that no     *)
(* delivery did anything, and each delivery commits at most one order, so  *)
(* that only a retried CreateOrder leaves more than one.                   *)
(***************************************************************************)
AnswersTrue ==
  \A c \in Calls :
    /\ orders[c] <= tries[c]
    /\ answer[c] = "OK" /\ req[c].op = "create" => made[c] # {}
    /\ answer[c] = "OK" /\ req[c].op = "order" => orders[c] > 0
    /\ \/ answer[c] \in {"Unauthorized", "Forbidden", "PayloadTooLarge", "TooManyRequests",
                         "InvalidArgument"}
       \/ answer[c] \in {"AlreadyExists", "NotFound"} /\ tries[c] = 1
       => orders[c] = 0 /\ made[c] = {} /\ \A u \in UserIds : users[u].name # c
================================================================================
