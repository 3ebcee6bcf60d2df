------------------------------ MODULE UserService ------------------------------
(***************************************************************************)
(* The user service's four handlers and its table.  A call of a client may *)
(* be delivered several times; a job <<c, n>> is the handler's execution   *)
(* for the n-th delivery of call c.  Receive hands it a decoded request,   *)
(* one SQL statement of the repository decides its code, so that its only  *)
(* interleavings are with other jobs' statements.                          *)
(*                                                                         *)
(* A stored name is the call that supplied it: the table says who wrote    *)
(* it.  Blank is a text the handlers refuse (empty after TrimSpace, or an  *)
(* email without "@").                                                     *)
(***************************************************************************)
EXTENDS Naturals, FiniteSets

CONSTANTS Calls, UserIds, Emails,
          Deliveries,   \* how often one call may be delivered
          Requests,     \* what clients send
          NoCall,       \* stands for whoever filled the table before
          Blank,
          NoId          \* the empty id

Jobs == Calls \X (1..Deliveries)
Call(j) == j[1]

Absent == [name |-> Blank, email |-> Blank]
Free == [st |-> "free", req |-> [op |-> "none"], code |-> "none"]
MaskPaths == {"name", "email", "other"}     \* other: any path that is no field

Fields == [name : {"text", Blank}, email : Emails \cup {Blank}]
CreateRequests == {[op |-> "create", name |-> f.name, email |-> f.email] : f \in Fields}
UpdateRequests ==
  {[op |-> "update", id |-> i, mask |-> k, name |-> f.name, email |-> f.email] :
     i \in UserIds \cup {NoId}, k \in SUBSET MaskPaths, f \in Fields}
IdRequests == [op : {"get", "delete", "order"}, id : UserIds \cup {NoId}]

ASSUME UserAssumption ==
  /\ Deliveries \in Nat \ {0}
  /\ Requests \subseteq CreateRequests \cup UpdateRequests \cup IdRequests
  /\ NoCall \notin Calls /\ Blank \notin Emails \cup Calls \cup {NoCall, "text"}
  /\ NoId \notin UserIds

VARIABLES
  users,      \* the table
  job,        \* [st, req, code] of each job
  issued,     \* uuids given out
  made,       \* history: the ids each call's INSERTs created
  holders,    \* history: the calls that ever stored an email
  vacated     \* history: emails a row had and gave up

tableVars == <<users, issued, made, holders, vacated>>
userVars == <<tableVars, job>>

UserInit ==
  /\ job = [j \in Jobs |-> Free]
  /\ \/ users = [u \in UserIds |-> Absent] /\ issued = {}
        /\ holders = [e \in Emails |-> {}]
     \/ \E u \in UserIds, e \in Emails :
          /\ users = [v \in UserIds |-> IF v = u THEN [name |-> NoCall, email |-> e] ELSE Absent]
          /\ issued = {u}
          /\ holders = [d \in Emails |-> IF d = e THEN {NoCall} ELSE {}]
  /\ made = [c \in Calls |-> {}]
  /\ vacated = {}

Running(j, op) == job[j].st = "run" /\ job[j].req.op = op
Taken(e, u) == \E v \in UserIds \ {u} : users[v] # Absent /\ users[v].email = e
Return(j, code) == job' = [job EXCEPT ![j].st = "done", ![j].code = code]

(* The handlers' checks before the repository is called. *)
ValidCreate(r) == r.name # Blank /\ r.email # Blank
ValidUpdate(r) ==
  /\ r.id # NoId
  /\ r.mask # {} /\ "other" \notin r.mask
  /\ "name" \in r.mask => r.name # Blank
  /\ "email" \in r.mask => r.email # Blank
Valid(r) ==
  CASE r.op = "create" -> ValidCreate(r)
    [] r.op = "update" -> ValidUpdate(r)
    [] OTHER           -> r.id # NoId

--------------------------------------------------------------------------------

(* The generated handler decodes the message and calls the method. *)
Receive(j, r) ==
  /\ job[j].st = "free"
  /\ job' = [job EXCEPT ![j] = [st |-> "run", req |-> r, code |-> "none"]]

Reject(j) ==
  /\ job[j].st = "run" /\ ~Valid(job[j].req)
  /\ Return(j, "InvalidArgument")
  /\ UNCHANGED tableVars

(* INSERT; the row may be stored and the answer of the statement lost. *)
InsertRow(j, u, e) ==
  /\ users' = [users EXCEPT ![u] = [name |-> Call(j), email |-> e]]
  /\ issued' = issued \cup {u}
  /\ made' = [made EXCEPT ![Call(j)] = @ \cup {u}]
  /\ holders' = [holders EXCEPT ![e] = @ \cup {Call(j)}]
  /\ \E code \in {"OK", "Internal"} : Return(j, code)
  /\ UNCHANGED vacated

(* Mutant: the table has no UNIQUE on email. *)
Insert_NotUnique(j, u) ==
  /\ Running(j, "create") /\ ValidCreate(job[j].req)
  /\ u \notin issued
  /\ InsertRow(j, u, job[j].req.email)

Insert(j, u) ==
  /\ Running(j, "create") /\ ValidCreate(job[j].req)
  /\ u \notin issued /\ ~Taken(job[j].req.email, NoId)
  /\ InsertRow(j, u, job[j].req.email)

InsertConflict(j) ==
  /\ Running(j, "create") /\ ValidCreate(job[j].req)
  /\ Taken(job[j].req.email, NoId)
  /\ Return(j, "AlreadyExists")
  /\ UNCHANGED tableVars

(* The UPDATE may be made: the row is there and the email free. *)
Updatable(r) ==
  /\ r.op = "update" /\ ValidUpdate(r)
  /\ users[r.id] # Absent
  /\ "email" \in r.mask => ~Taken(r.email, r.id)

(* Mutant: the whole row is written back, with the name a SELECT returned  *)
(* before any update that has finished since.                              *)
Masked_WriteBack(r, c) ==
  LET creators == {w \in Calls : r.id \in made[w]}
      read == CHOOSE w \in creators \cup {NoCall} : creators # {} => w # NoCall
  IN  [name |-> IF "name" \in r.mask THEN c ELSE read,
       email |-> IF "email" \in r.mask THEN r.email ELSE users[r.id].email]

(* The SET clause: the columns of the mask. *)
Masked(r, c) ==
  [name |-> IF "name" \in r.mask THEN c ELSE users[r.id].name,
   email |-> IF "email" \in r.mask THEN r.email ELSE users[r.id].email]

(* Mutant: the handler answers before its UPDATE has been made. *)
UpdateRow_Async(j) ==
  LET r == job[j].req IN
  /\ job[j].st \in {"run", "done"} /\ Updatable(r)
  /\ users' = IF job[j].st = "run" THEN users ELSE [users EXCEPT ![r.id] = Masked(r, Call(j))]
  /\ Return(j, "OK")
  /\ UNCHANGED <<issued, made, holders, vacated>>

UpdateRow(j) ==
  LET r == job[j].req IN
  /\ job[j].st = "run" /\ Updatable(r)
  /\ users' = [users EXCEPT ![r.id] = Masked(r, Call(j))]
  /\ vacated' = vacated \cup ({users[r.id].email} \ {users'[r.id].email})
  /\ holders' = IF "email" \in r.mask
                THEN [holders EXCEPT ![r.email] = @ \cup {Call(j)}] ELSE holders
  /\ \E code \in {"OK", "Internal"} : Return(j, code)
  /\ UNCHANGED <<issued, made>>

(* Mutant: a query for the email before the UPDATE counts the row itself. *)
UpdateConflict_OwnRow(j) ==
  LET r == job[j].req IN
  /\ Running(j, "update") /\ ValidUpdate(r)
  /\ users[r.id] # Absent
  /\ "email" \in r.mask /\ Taken(r.email, NoId)
  /\ Return(j, "AlreadyExists")
  /\ UNCHANGED tableVars

UpdateConflict(j) ==
  LET r == job[j].req IN
  /\ Running(j, "update") /\ ValidUpdate(r)
  /\ users[r.id] # Absent
  /\ "email" \in r.mask /\ Taken(r.email, r.id)
  /\ Return(j, "AlreadyExists")
  /\ UNCHANGED tableVars

SelectUser(j) ==
  /\ Running(j, "get") /\ Valid(job[j].req)
  /\ users[job[j].req.id] # Absent
  /\ Return(j, "OK")
  /\ UNCHANGED tableVars

DeleteRow(j) ==
  LET r == job[j].req IN
  /\ Running(j, "delete") /\ Valid(r)
  /\ users[r.id] # Absent
  /\ users' = [users EXCEPT ![r.id] = Absent]
  /\ vacated' = vacated \cup {users[r.id].email}
  /\ \E code \in {"OK", "Internal"} : Return(j, code)
  /\ UNCHANGED <<issued, made, holders>>

(* "no rows in result set", or RowsAffected() = 0. *)
NoRow(j) ==
  /\ \E op \in {"get", "update", "delete"} : Running(j, op)
  /\ Valid(job[j].req)
  /\ users[job[j].req.id] = Absent
  /\ Return(j, "NotFound")
  /\ UNCHANGED tableVars

(* Mutant: the handler logs the error and answers as if nothing was wrong. *)
DbError_Swallowed(j) ==
  /\ job[j].st = "run" /\ Valid(job[j].req)
  /\ Return(j, "OK")
  /\ UNCHANGED tableVars

(* Any other error: no connection, a timeout, an id that is no uuid. *)
DbError(j) ==
  /\ job[j].st = "run" /\ Valid(job[j].req)
  /\ Return(j, "Internal")
  /\ UNCHANGED tableVars

UserStep(j) ==
  \/ Reject(j)
  \/ \E u \in UserIds : Insert(j, u)
  \/ InsertConflict(j)
  \/ UpdateRow(j) \/ UpdateConflict(j)
  \/ SelectUser(j) \/ DeleteRow(j) \/ NoRow(j)
  \/ DbError(j)
================================================================================
