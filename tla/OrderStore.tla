------------------------------ MODULE OrderStore ------------------------------
(***************************************************************************)
(* What the order API promises its callers, without transactions, cache or *)
(* user check: an order is created once, may be cancelled, never comes     *)
(* back, and every answer is truthful about the order at the moment it is  *)
(* given.  The one liberty a GetOrder answer has is the cache's: it may    *)
(* still say PENDING after the cancellation.                               *)
(***************************************************************************)
CONSTANTS Handlers, OrderIds, NoId

VARIABLES status,   \* [OrderIds -> {"NONE", "PENDING", "CANCELLED"}]
          reply     \* [Handlers -> Replies]: the last answer of each handler

Statuses == {"NONE", "PENDING", "CANCELLED"}
Ops == {"Create", "Get", "Cancel"}
Codes == {"none", "OK", "InvalidArgument", "NotFound", "Internal", "Unavailable"}

Replies == [op : Ops, id : OrderIds \cup {NoId}, code : Codes, status : Statuses]

Init ==
  /\ status = [o \in OrderIds |-> "NONE"]
  /\ reply \in [Handlers -> {r \in Replies : r.code = "none"}]

(* The two changes an order goes through. *)
Create(o) == status[o] = "NONE" /\ status' = [status EXCEPT ![o] = "PENDING"]
Cancel(o) == status[o] # "NONE" /\ status' = [status EXCEPT ![o] = "CANCELLED"]

(***************************************************************************)
(* What reply r claims, in a world where order o has status s.  An error   *)
(* claims nothing: the change may or may not have been made.               *)
(***************************************************************************)
Claims(r, s) ==
  CASE r.code = "OK" /\ r.op = "Create" -> r.status = "PENDING" /\ s = "PENDING"
    [] r.code = "OK" /\ r.op = "Cancel" -> r.status = "CANCELLED" /\ s = "CANCELLED"
    [] r.code = "OK" /\ r.op = "Get"    -> r.status # "NONE" /\ s \in {r.status, "CANCELLED"}
    [] r.code = "NotFound" /\ r.op # "Create" -> s = "NONE"
    [] OTHER -> TRUE

Truthful(r) == r.id \in OrderIds => Claims(r, status'[r.id])

Answer(h) == \E r \in Replies : Truthful(r) /\ reply' = [reply EXCEPT ![h] = r]

(* At most one order changes and at most one caller is answered per step. *)
Next ==
  \E h \in Handlers :
    /\ UNCHANGED status \/ \E o \in OrderIds : Create(o) \/ Cancel(o)
    /\ UNCHANGED reply \/ Answer(h)

Spec == Init /\ [][Next]_<<status, reply>>
================================================================================
