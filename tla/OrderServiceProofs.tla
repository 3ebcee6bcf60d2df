-------------------------- MODULE OrderServiceProofs --------------------------
(***************************************************************************)
(* Proofs about OrderService, for any sets of handlers, orders and users,  *)
(* any number of items and any set of faults: its invariants, and that it  *)
(* implements OrderStore.                                                  *)
(***************************************************************************)
EXTENDS OrderService, TLAPS

(***************************************************************************)
(* Which request a handler at each label serves; past INSERT it has an id; *)
(* while it works its request has no answer.                               *)
(***************************************************************************)
ControlOK ==
  \A h \in Handlers :
    /\ pc[h] \in {"verify", "begin", "insertOrder", "insertItem"} => call[h].op = "Create"
    /\ pc[h] \in {"cacheGet", "cacheSet"} => call[h].op = "Get"
    /\ pc[h] \in {"update", "invalidate"} => call[h].op = "Cancel"
    /\ pc[h] \in {"selectRow", "selectItems"} => call[h].op \in {"Get", "Cancel"}
    /\ pc[h] \in {"insertItem", "cacheGet", "selectRow", "selectItems", "cacheSet",
                  "update", "invalidate"} => call[h].id \in OrderIds
    /\ pc[h] # "idle" => resp[h].code = "none"

TypeInv == TypeOK /\ ControlOK

--------------------------------------------------------------------------------
(* Orders and requests as records: what they are made of, and their parts. *)

(* An order put together from typed parts is typed. *)
LEMMA OrderTyped ==
  /\ \A u \in Users \cup {NoUser}, s \in {"NONE", "PENDING", "CANCELLED"}, n \in 0..MaxItems :
       Order(u, s, n) \in Orders
  /\ \A x \in Orders : /\ x.user \in Users \cup {NoUser}
                       /\ x.status \in {"NONE", "PENDING", "CANCELLED"}
                       /\ x.items \in 0..MaxItems
  /\ Absent \in Orders
BY ConstantsAssumption DEF Order, Orders, Absent

(* So is a request. *)
LEMMA CallTyped ==
  /\ \A c \in Calls : /\ c.op \in Ops
                      /\ c.id \in OrderIds \cup {NoId}
                      /\ c.user \in Users \cup {NoUser}
                      /\ c.items \in 0..MaxItems
                      /\ c.after \in BOOLEAN
  /\ NoCall \in Calls
BY ConstantsAssumption DEF Call, Calls, NoCall, Ops

(* The requests the clients make are typed. *)
LEMMA CallsMade ==
  /\ \A op \in Ops : Call(op, NoId, NoUser, 0, FALSE) \in Calls
  /\ \A u \in Users, n \in 1..MaxItems : Call("Create", NoId, u, n, FALSE) \in Calls
  /\ \A o \in OrderIds : /\ Call("Get", o, NoUser, 0, o \in acked) \in Calls
                         /\ Call("Cancel", o, NoUser, 0, FALSE) \in Calls
  /\ \A c \in Calls, o \in OrderIds : Call("Create", o, c.user, c.items, FALSE) \in Calls
BY ConstantsAssumption DEF Call, Calls, Ops

(* However many rows the loop of getItems sees, they are at most the order's. *)
LEMMA ItemsTyped ==
  ASSUME TypeOK, NEW o \in OrderIds, NEW n \in ItemsRead(o)
  PROVE  n \in 0..MaxItems /\ n <= db[o].items
<1>1. db[o].items \in 0..MaxItems
  BY OrderTyped DEF TypeOK
<1> QED
  BY <1>1, ConstantsAssumption DEF ItemsRead

(* The types hold before anything has happened. *)
LEMMA InitTypeInv == Init => TypeInv
BY OrderTyped, CallTyped, ConstantsAssumption
   DEF Init, TypeInv, TypeOK, ControlOK, Labels, NoResp, Codes

(* Every step keeps the types and the control facts. *)
LEMMA NextTypeInv == TypeInv /\ [Next]_vars => TypeInv'
<1> SUFFICES ASSUME TypeInv, [Next]_vars PROVE TypeInv'
  OBVIOUS
<1> USE DEF TypeInv
<1>1. ASSUME NEW u \in Users, CreateUser(u) PROVE TypeInv'
  BY <1>1, OrderTyped DEF CreateUser, TypeOK, ControlOK
<1>2. ASSUME NEW u \in Users, DeleteUser(u) PROVE TypeInv'
  BY <1>2, OrderTyped DEF DeleteUser, TypeOK, ControlOK
<1>3. ASSUME NEW h \in Handlers, NEW op \in Ops, InvalidRequest(h, op) PROVE TypeInv'
  <2>1. TypeOK'
    BY <1>3, OrderTyped, CallsMade, CallTyped
       DEF InvalidRequest, Answer, Goto, Labels, Codes, TypeOK, ControlOK
  <2>2. ControlOK'
    BY <1>3 DEF InvalidRequest, Answer, Goto, Call, ControlOK, TypeOK
  <2> QED
    BY <2>1, <2>2
<1>4. ASSUME NEW h \in Handlers, NEW u \in Users, NEW n \in 1..MaxItems, CreateOrder(h, u, n)
      PROVE TypeInv'
  <2>1. TypeOK'
    BY <1>4, OrderTyped, CallsMade, CallTyped
       DEF CreateOrder, Request, Goto, Labels, Codes, NoResp, TypeOK, ControlOK
  <2>2. ControlOK'
    BY <1>4 DEF CreateOrder, Request, Goto, Call, NoResp, ControlOK, TypeOK
  <2> QED
    BY <2>1, <2>2
<1>5. ASSUME NEW h \in Handlers, NEW o \in OrderIds, GetOrder(h, o) PROVE TypeInv'
  <2>1. TypeOK'
    BY <1>5, OrderTyped, CallsMade, CallTyped
       DEF GetOrder, Request, Goto, Labels, Codes, NoResp, TypeOK, ControlOK
  <2>2. ControlOK'
    BY <1>5 DEF GetOrder, Request, Goto, Call, NoResp, ControlOK, TypeOK
  <2> QED
    BY <2>1, <2>2
<1>6. ASSUME NEW h \in Handlers, NEW o \in OrderIds, CancelOrder(h, o) PROVE TypeInv'
  <2>1. TypeOK'
    BY <1>6, OrderTyped, CallsMade, CallTyped
       DEF CancelOrder, Request, Goto, Labels, Codes, NoResp, TypeOK, ControlOK
  <2>2. ControlOK'
    BY <1>6 DEF CancelOrder, Request, Goto, Call, NoResp, ControlOK, TypeOK
  <2> QED
    BY <2>1, <2>2
<1>7. ASSUME NEW h \in Handlers, UserFound(h) PROVE TypeInv'
  <2>1. TypeOK'
    BY <1>7, OrderTyped, CallTyped, ConstantsAssumption
       DEF UserFound, Goto, Labels, TypeOK, ControlOK
  <2>2. ControlOK'
    BY <1>7 DEF UserFound, Goto, ControlOK, TypeOK
  <2> QED
    BY <2>1, <2>2
<1>8. ASSUME NEW h \in Handlers, UserMissing(h) PROVE TypeInv'
  <2>1. TypeOK'
    BY <1>8, OrderTyped, CallTyped, ConstantsAssumption
       DEF UserMissing, Answer, Goto, Labels, Codes, TypeOK, ControlOK
  <2>2. ControlOK'
    BY <1>8 DEF UserMissing, Answer, Goto, ControlOK, TypeOK
  <2> QED
    BY <2>1, <2>2
<1>9. ASSUME NEW h \in Handlers, BeginTx(h) PROVE TypeInv'
  <2>1. TypeOK'
    BY <1>9, OrderTyped, CallTyped, ConstantsAssumption
       DEF BeginTx, Goto, Labels, TypeOK, ControlOK
  <2>2. ControlOK'
    BY <1>9 DEF BeginTx, Goto, ControlOK, TypeOK
  <2> QED
    BY <2>1, <2>2
<1>10. ASSUME NEW h \in Handlers, InsertOrder(h) PROVE TypeInv'
  <2>1. TypeOK'
    <3>1. PICK o \in OrderIds :
            /\ issued' = [issued EXCEPT ![o] = call[h].items]
            /\ call' = [call EXCEPT
                           ![h] = Call("Create", o, call[h].user, call[h].items, FALSE)]
            /\ order' = [order EXCEPT ![h] = Order(call[h].user, "PENDING", 0)]
      BY <1>10 DEF InsertOrder
    <3>2. Call("Create", o, call[h].user, call[h].items, FALSE) \in Calls
      BY CallsMade DEF TypeOK
    <3>3. Order(call[h].user, "PENDING", 0) \in Orders
      <4>1. call[h].user \in Users \cup {NoUser} /\ 0 \in 0..MaxItems
        BY CallTyped, ConstantsAssumption DEF TypeOK
      <4> QED
        BY <4>1, OrderTyped
    <3>4. call[h].items \in 0..MaxItems
      BY CallTyped DEF TypeOK
    <3> QED
      BY <1>10, <3>1, <3>2, <3>3, <3>4 DEF InsertOrder, Goto, Labels, TypeOK
  <2>2. ControlOK'
    BY <1>10 DEF InsertOrder, Goto, Call, ControlOK, TypeOK
  <2> QED
    BY <2>1, <2>2
<1>11. ASSUME NEW h \in Handlers, InsertItem(h) PROVE TypeInv'
  <2>1. TypeOK'
    <3>1. order[h].items \in 0..MaxItems /\ call[h].items \in 0..MaxItems
      BY OrderTyped, CallTyped DEF TypeOK
    <3>2. order[h].items + 1 \in 0..MaxItems
      BY <1>11, <3>1, ConstantsAssumption DEF InsertItem
    <3>3. Order(order[h].user, "PENDING", order[h].items + 1) \in Orders
      BY <3>2, OrderTyped DEF TypeOK
    <3> QED
      BY <1>11, <3>3 DEF InsertItem, TypeOK
  <2>2. ControlOK'
    BY <1>11 DEF InsertItem, Goto, ControlOK, TypeOK
  <2> QED
    BY <2>1, <2>2
<1>12. ASSUME NEW h \in Handlers, CommitTx(h) PROVE TypeInv'
  <2>1. TypeOK'
    BY <1>12, OrderTyped, CallTyped, ConstantsAssumption
       DEF CommitTx, Committed, AllInserted, Answer, Goto, Labels, Codes, TypeOK, ControlOK
  <2>2. ControlOK'
    BY <1>12 DEF CommitTx, Committed, AllInserted, Answer, Goto, ControlOK, TypeOK
  <2> QED
    BY <2>1, <2>2
<1>13. ASSUME NEW h \in Handlers, CommitLost(h) PROVE TypeInv'
  <2>1. TypeOK'
    BY <1>13, OrderTyped, CallTyped, ConstantsAssumption
       DEF CommitLost, Committed, AllInserted, Answer, Goto, Labels, Codes, TypeOK, ControlOK
  <2>2. ControlOK'
    BY <1>13 DEF CommitLost, Committed, AllInserted, Answer, Goto, ControlOK, TypeOK
  <2> QED
    BY <2>1, <2>2
<1>14. ASSUME NEW h \in Handlers, CacheHit(h) PROVE TypeInv'
  <2>1. TypeOK'
    BY <1>14, OrderTyped, CallTyped, ConstantsAssumption
       DEF CacheHit, Answer, Goto, Labels, Codes, TypeOK, ControlOK
  <2>2. ControlOK'
    BY <1>14 DEF CacheHit, Answer, Goto, ControlOK, TypeOK
  <2> QED
    BY <2>1, <2>2
<1>15. ASSUME NEW h \in Handlers, CacheMiss(h) PROVE TypeInv'
  <2>1. TypeOK'
    BY <1>15, OrderTyped, CallTyped, ConstantsAssumption
       DEF CacheMiss, Goto, Labels, TypeOK, ControlOK
  <2>2. ControlOK'
    BY <1>15 DEF CacheMiss, Goto, ControlOK, TypeOK
  <2> QED
    BY <2>1, <2>2
<1>16. ASSUME NEW h \in Handlers, SelectRow(h) PROVE TypeInv'
  <2>1. TypeOK'
    <3>1. db[call[h].id] \in Orders
      BY <1>16 DEF SelectRow, TypeOK, ControlOK
    <3>2. 0 \in 0..MaxItems
      BY ConstantsAssumption
    <3>3. Order(db[call[h].id].user, db[call[h].id].status, 0) \in Orders
      BY <3>1, <3>2, OrderTyped
    <3> QED
      BY <1>16, <3>3 DEF SelectRow, Goto, Labels, TypeOK
  <2>2. ControlOK'
    BY <1>16 DEF SelectRow, Goto, ControlOK, TypeOK
  <2> QED
    BY <2>1, <2>2
<1>17. ASSUME NEW h \in Handlers, NoRows(h) PROVE TypeInv'
  <2>1. TypeOK'
    BY <1>17, OrderTyped, CallTyped, ConstantsAssumption
       DEF NoRows, Answer, Goto, Labels, Codes, TypeOK, ControlOK
  <2>2. ControlOK'
    BY <1>17 DEF NoRows, Answer, Goto, ControlOK, TypeOK
  <2> QED
    BY <2>1, <2>2
<1>18. ASSUME NEW h \in Handlers, SelectItems(h) PROVE TypeInv'
  <2>1. TypeOK'
    <3>1. PICK n \in ItemsRead(call[h].id) :
            order' = [order EXCEPT ![h] = Order(order[h].user, order[h].status, n)]
      BY <1>18 DEF SelectItems
    <3>2. n \in 0..MaxItems
      BY <1>18, ItemsTyped DEF SelectItems, TypeOK, ControlOK
    <3>3. Order(order[h].user, order[h].status, n) \in Orders
      BY <3>2, OrderTyped DEF TypeOK
    <3> QED
      BY <1>18, <3>1, <3>3 DEF SelectItems, Goto, Labels, TypeOK
  <2>2. ControlOK'
    BY <1>18 DEF SelectItems, ItemsRead, Goto, ControlOK, TypeOK
  <2> QED
    BY <2>1, <2>2
<1>19. ASSUME NEW h \in Handlers, CacheSet(h) PROVE TypeInv'
  <2>1. TypeOK'
    <3>1. cache' \in [OrderIds -> Orders]
      BY <1>19 DEF CacheSet, TypeOK
    <3> QED
      BY <1>19, <3>1, OrderTyped DEF CacheSet, Answer, Goto, Labels, Codes, TypeOK
  <2>2. ControlOK'
    BY <1>19 DEF CacheSet, Answer, Goto, ControlOK, TypeOK
  <2> QED
    BY <2>1, <2>2
<1>20. ASSUME NEW h \in Handlers, UpdateStatus(h) PROVE TypeInv'
  <2>1. TypeOK'
    BY <1>20, OrderTyped, CallTyped, ConstantsAssumption
       DEF UpdateStatus, Cancelled, Raced, Goto, Labels, TypeOK, ControlOK
  <2>2. ControlOK'
    BY <1>20 DEF UpdateStatus, Cancelled, Raced, Goto, ControlOK, TypeOK
  <2> QED
    BY <2>1, <2>2
<1>21. ASSUME NEW h \in Handlers, UpdateLost(h) PROVE TypeInv'
  <2>1. TypeOK'
    <3>1. call[h].id \in OrderIds
      BY <1>21, CallTyped, ConstantsAssumption DEF UpdateLost, TypeOK, ControlOK
    <3>2. db' \in [OrderIds -> Orders]
      BY <1>21, <3>1, OrderTyped DEF UpdateLost, Cancelled, TypeOK
    <3>3. /\ pc' \in [Handlers -> Labels] /\ order' \in [Handlers -> Orders]
          /\ resp' \in [Handlers -> [code : Codes, order : Orders]]
      BY <1>21, OrderTyped DEF UpdateLost, Answer, Goto, Labels, Codes, TypeOK
    <3> QED BY <1>21, <3>1, <3>2, <3>3 DEF UpdateLost, TypeOK
  <2>2. ControlOK'
    BY <1>21 DEF UpdateLost, Cancelled, Answer, Goto, ControlOK, TypeOK
  <2> QED
    BY <2>1, <2>2
<1>22. ASSUME NEW h \in Handlers, Invalidate(h) PROVE TypeInv'
  <2>1. TypeOK'
    <3>1. cache' \in [OrderIds -> Orders]
      <4>1. CASE cache' = [cache EXCEPT ![call[h].id] = Absent]
        BY <4>1, OrderTyped DEF TypeOK
      <4>2. CASE UNCHANGED cache
        BY <4>2 DEF TypeOK
      <4> QED
        BY <1>22, <4>1, <4>2 DEF Invalidate
    <3>2. excused' \subseteq OrderIds
      BY <1>22 DEF Invalidate, TypeOK, ControlOK
    <3> QED
      BY <1>22, <3>1, <3>2 DEF Invalidate, Goto, Labels, TypeOK
  <2>2. ControlOK'
    BY <1>22 DEF Invalidate, Goto, ControlOK, TypeOK
  <2> QED
    BY <2>1, <2>2
<1>23. ASSUME NEW h \in Handlers, CancelDone(h) PROVE TypeInv'
  <2>1. TypeOK'
    <3>1. PICK n \in ItemsRead(call[h].id) :
            Answer(h, "OK", Order(order[h].user, order[h].status, n))
      BY <1>23 DEF CancelDone
    <3>2. n \in 0..MaxItems
      BY <1>23, ItemsTyped DEF CancelDone, TypeOK, ControlOK
    <3>3. Order(order[h].user, order[h].status, n) \in Orders
      BY <3>2, OrderTyped DEF TypeOK
    <3> QED
      BY <1>23, <3>1, <3>3, OrderTyped
         DEF CancelDone, Answer, Goto, Labels, Codes, TypeOK, ControlOK
  <2>2. ControlOK'
    BY <1>23 DEF CancelDone, ItemsRead, Answer, Goto, ControlOK, TypeOK
  <2> QED
    BY <2>1, <2>2
<1>24. ASSUME NEW h \in Handlers, ErrorReturn(h) PROVE TypeInv'
  <2>1. TypeOK'
    BY <1>24, OrderTyped, CallTyped, ConstantsAssumption
       DEF ErrorReturn, Answer, Goto, Labels, Codes, TypeOK, ControlOK
  <2>2. ControlOK'
    BY <1>24 DEF ErrorReturn, Answer, Goto, ControlOK, TypeOK
  <2> QED
    BY <2>1, <2>2
<1>25. ASSUME NEW h \in Handlers, Crash(h) PROVE TypeInv'
  <2>1. TypeOK'
    BY <1>25, OrderTyped, CallTyped, ConstantsAssumption
       DEF Crash, Answer, Goto, Labels, Codes, TypeOK, ControlOK
  <2>2. ControlOK'
    BY <1>25 DEF Crash, Answer, Goto, ControlOK, TypeOK
  <2> QED
    BY <2>1, <2>2
<1>26. ASSUME NEW o \in OrderIds, Expire(o) PROVE TypeInv'
  BY <1>26, OrderTyped DEF Expire, TypeOK, ControlOK
<1>27. CASE UNCHANGED vars
  BY <1>27 DEF vars, TypeOK, ControlOK
<1> QED
  BY <1>1, <1>2, <1>3, <1>4, <1>5, <1>6, <1>7, <1>8, <1>9, <1>10, <1>11, <1>12, <1>13, <1>14, <1>15, <1>16, <1>17, <1>18, <1>19, <1>20, <1>21, <1>22, <1>23, <1>24, <1>25, <1>26, <1>27
  DEF Next, HandlerStep

(***************************************************************************)
(* Every reachable state of the order service is well typed.               *)
(***************************************************************************)
THEOREM TypeCorrect == Spec => []TypeOK
<1>1. Spec => []TypeInv
  BY InitTypeInv, NextTypeInv, PTL DEF Spec
<1> QED
  BY <1>1, PTL DEF TypeInv

--------------------------------------------------------------------------------
(***************************************************************************)
(* Uuids: an order is absent until its transaction commits, a transaction  *)
(* writes its own order, and no two of them write the same one.            *)
(***************************************************************************)
Creating == {"verify", "begin", "insertOrder", "insertItem"}

UuidInv ==
  /\ \A o \in OrderIds : db[o].status = "NONE" <=> db[o] = Absent
  /\ \A o \in OrderIds : issued[o] = 0 => db[o] = Absent
  /\ \A h \in Handlers : pc[h] \in Creating => call[h].items > 0 /\ call[h].user \in Users
  /\ \A h \in Handlers : pc[h] = "insertItem" =>
       /\ issued[call[h].id] > 0 /\ db[call[h].id] = Absent
       /\ order[h].status = "PENDING" /\ order[h].user = call[h].user
  /\ \A g, h \in Handlers :
       pc[g] = "insertItem" /\ pc[h] = "insertItem" /\ call[g].id = call[h].id => g = h

(***************************************************************************)
(* Cancellation.  CancelApplied: a Cancel past its UPDATE, and an          *)
(* acknowledged one, have cancelled the row, and what the former reads     *)
(* back is cancelled.  Settled: once a Cancel is past its Del, the cache   *)
(* has no PENDING entry unless the order is excused.                       *)
(***************************************************************************)
Rereading(h, o) ==
  pc[h] \in {"selectRow", "selectItems"} /\ call[h].op = "Cancel" /\ call[h].id = o

CancelApplied ==
  /\ \A o \in acked : db[o].status = "CANCELLED"
  /\ \A h \in Handlers : \A o \in OrderIds :
       /\ Rereading(h, o) \/ (pc[h] = "invalidate" /\ call[h].id = o)
            => db[o].status = "CANCELLED"
       /\ Rereading(h, o) /\ pc[h] = "selectItems" => order[h].status = "CANCELLED"

Settled ==
  \A o \in OrderIds :
    o \notin excused /\ (o \in acked \/ \E h \in Handlers : Rereading(h, o))
      => cache[o].status # "PENDING"

(* after is set only on requests for acknowledged orders. *)
AfterAcked == \A h \in Handlers : call[h].after => call[h].id \in acked

CancelInv == CancelApplied /\ Settled /\ AfterAcked /\ StaleExcused /\ ReadYourCancel

(* Users: a Create past its check has a user that exists or existed. *)
UserInv ==
  /\ users \subseteq everUsers
  /\ \A h \in Handlers :
       pc[h] \in {"begin", "insertOrder", "insertItem"} => call[h].user \in everUsers
  /\ OrderUserExisted

(* What Cancel's UPDATE does to the rows. *)
LEMMA CancelledRows ==
  ASSUME TypeInv, NEW c \in OrderIds, db' = Cancelled(c)
  PROVE  /\ \A o \in OrderIds : o # c => db'[o] = db[o]
         /\ db'[c].status = "CANCELLED" /\ db'[c] # Absent
         /\ db'[c].user = db[c].user /\ db'[c].items = db[c].items
BY DEF TypeInv, TypeOK, Cancelled, Order, Absent

(* A copy of an order stays one when the order is cancelled. *)
LEMMA CopiesSurviveCancel ==
  ASSUME TypeInv, UuidInv, NEW i \in OrderIds, db[i] # Absent, db' = Cancelled(i)
  PROVE  \A o \in OrderIds, c \in Orders : CopyOf(c, o) => CopyOf(c, o)'
<1>1. \A o \in OrderIds : o # i => db'[o] = db[o]
  BY CancelledRows
<1>2. /\ db'[i].status = "CANCELLED" /\ db'[i] # Absent
      /\ db'[i].user = db[i].user /\ db'[i].items = db[i].items
  BY CancelledRows
<1>3. db[i].status \in {"PENDING", "CANCELLED"}
  BY OrderTyped DEF UuidInv, TypeInv, TypeOK
<1>4. ASSUME NEW o \in OrderIds, NEW c \in Orders, CopyOf(c, o), o # i PROVE CopyOf(c, o)'
  BY <1>1, <1>4 DEF CopyOf
<1>5. ASSUME NEW c \in Orders, CopyOf(c, i) PROVE CopyOf(c, i)'
  BY <1>2, <1>3, <1>5 DEF CopyOf
<1> QED BY <1>4, <1>5

(* Uuids stay fresh: every step keeps UuidInv. *)
LEMMA NextUuidInv ==
  ASSUME TypeInv, UuidInv, [Next]_vars
  PROVE  UuidInv'
<1> USE DEF TypeInv, TypeOK, ControlOK, UuidInv, Creating
<1>1. ASSUME NEW u \in Users, CreateUser(u) PROVE UuidInv'
  BY <1>1 DEF CreateUser
<1>2. ASSUME NEW u \in Users, DeleteUser(u) PROVE UuidInv'
  BY <1>2 DEF DeleteUser
<1>3. ASSUME NEW h \in Handlers, NEW op \in Ops, InvalidRequest(h, op) PROVE UuidInv'
  BY <1>3 DEF InvalidRequest, Answer, Goto, Call
<1>4. ASSUME NEW h \in Handlers, NEW u \in Users, NEW n \in 1..MaxItems, CreateOrder(h, u, n)
       PROVE  UuidInv'
  BY <1>4 DEF CreateOrder, Request, Goto, Call
<1>5. ASSUME NEW h \in Handlers, NEW o \in OrderIds, GetOrder(h, o) PROVE UuidInv'
  BY <1>5 DEF GetOrder, Request, Goto, Call
<1>6. ASSUME NEW h \in Handlers, NEW o \in OrderIds, CancelOrder(h, o) PROVE UuidInv'
  BY <1>6 DEF CancelOrder, Request, Goto, Call
<1>7. ASSUME NEW h \in Handlers, UserFound(h) PROVE UuidInv'
  BY <1>7 DEF UserFound, Goto
<1>8. ASSUME NEW h \in Handlers, UserMissing(h) PROVE UuidInv'
  BY <1>8 DEF UserMissing, Answer, Goto
<1>9. ASSUME NEW h \in Handlers, BeginTx(h) PROVE UuidInv'
  BY <1>9 DEF BeginTx, Goto
<1>10. ASSUME NEW h \in Handlers, InsertOrder(h) PROVE UuidInv'
  BY <1>10 DEF InsertOrder, Goto, Call, Order
<1>11. ASSUME NEW h \in Handlers, InsertItem(h) PROVE UuidInv'
  BY <1>11 DEF InsertItem, Order
<1>12. ASSUME NEW h \in Handlers, CommitTx(h) PROVE UuidInv'
  BY <1>12 DEF CommitTx, AllInserted, Committed, Answer, Goto
<1>13. ASSUME NEW h \in Handlers, CommitLost(h) PROVE UuidInv'
  BY <1>13 DEF CommitLost, AllInserted, Committed, Answer, Goto
<1>14. ASSUME NEW h \in Handlers, CacheHit(h) PROVE UuidInv'
  BY <1>14 DEF CacheHit, Answer, Goto
<1>15. ASSUME NEW h \in Handlers, CacheMiss(h) PROVE UuidInv'
  BY <1>15 DEF CacheMiss, Goto
<1>16. ASSUME NEW h \in Handlers, SelectRow(h) PROVE UuidInv'
  BY <1>16 DEF SelectRow, Goto, Order
<1>17. ASSUME NEW h \in Handlers, NoRows(h) PROVE UuidInv'
  BY <1>17 DEF NoRows, Answer, Goto
<1>18. ASSUME NEW h \in Handlers, SelectItems(h) PROVE UuidInv'
  BY <1>18 DEF SelectItems, Goto, Order
<1>19. ASSUME NEW h \in Handlers, CacheSet(h) PROVE UuidInv'
  BY <1>19 DEF CacheSet, Answer, Goto
<1>20. ASSUME NEW h \in Handlers, UpdateStatus(h) PROVE UuidInv'
  <2>1. /\ call[h].id \in OrderIds /\ db[call[h].id] # Absent
        /\ db' = Cancelled(call[h].id)
    BY <1>20 DEF UpdateStatus
  <2>2. \A o \in OrderIds : issued[o] = 0 \/ db[o] = Absent => o # call[h].id
    BY <2>1
  <2>3. \A g \in Handlers : pc'[g] \in Creating => pc[g] = pc'[g] /\ order'[g] = order[g]
    BY <1>20 DEF UpdateStatus, Answer, Goto
  <2>4. /\ \A o \in OrderIds : o # call[h].id => db'[o] = db[o]
        /\ db'[call[h].id].status = "CANCELLED" /\ db'[call[h].id] # Absent
    BY <2>1, CancelledRows
  <2>5. \A g \in Handlers : pc[g] = "insertItem" => call[g].id \in OrderIds \ {call[h].id}
    BY <2>1
  <2> HIDE DEF TypeOK, ControlOK
  <2> QED
    BY <1>20, <2>1, <2>2, <2>3, <2>4, <2>5 DEF UpdateStatus
<1>21. ASSUME NEW h \in Handlers, UpdateLost(h) PROVE UuidInv'
  <2>1. /\ call[h].id \in OrderIds /\ db[call[h].id] # Absent
        /\ db' = Cancelled(call[h].id)
    BY <1>21 DEF UpdateLost
  <2>2. \A o \in OrderIds : issued[o] = 0 \/ db[o] = Absent => o # call[h].id
    BY <2>1
  <2>3. \A g \in Handlers : pc'[g] \in Creating => pc[g] = pc'[g] /\ order'[g] = order[g]
    BY <1>21 DEF UpdateLost, Answer, Goto
  <2>4. /\ \A o \in OrderIds : o # call[h].id => db'[o] = db[o]
        /\ db'[call[h].id].status = "CANCELLED" /\ db'[call[h].id] # Absent
    BY <2>1, CancelledRows
  <2>5. \A g \in Handlers : pc[g] = "insertItem" => call[g].id \in OrderIds \ {call[h].id}
    BY <2>1
  <2> HIDE DEF TypeOK, ControlOK
  <2> QED
    BY <1>21, <2>1, <2>2, <2>3, <2>4, <2>5 DEF UpdateLost
<1>22. ASSUME NEW h \in Handlers, Invalidate(h) PROVE UuidInv'
  BY <1>22 DEF Invalidate, Goto
<1>23. ASSUME NEW h \in Handlers, CancelDone(h) PROVE UuidInv'
  BY <1>23 DEF CancelDone, Answer, Goto, Order
<1>24. ASSUME NEW h \in Handlers, ErrorReturn(h) PROVE UuidInv'
  BY <1>24 DEF ErrorReturn, Answer, Goto
<1>25. ASSUME NEW h \in Handlers, Crash(h) PROVE UuidInv'
  BY <1>25 DEF Crash, Answer, Goto
<1>26. ASSUME NEW o \in OrderIds, Expire(o) PROVE UuidInv'
  BY <1>26 DEF Expire
<1>27. CASE UNCHANGED vars
  BY <1>27 DEF vars
<1> QED
  BY <1>1, <1>2, <1>3, <1>4, <1>5, <1>6, <1>7, <1>8, <1>9, <1>10, <1>11, <1>12, <1>13, <1>14,
     <1>15, <1>16, <1>17, <1>18, <1>19, <1>20, <1>21, <1>22, <1>23, <1>24, <1>25, <1>26, <1>27
  DEF Next, HandlerStep

(* What a commit does to the rows. *)
LEMMA CommittedRows ==
  ASSUME TypeInv, UuidInv, NEW h \in Handlers, AllInserted(h), db' = Committed(h)
  PROVE  /\ call[h].id \in OrderIds /\ db[call[h].id] = Absent
         /\ \A o \in OrderIds : o # call[h].id => db'[o] = db[o]
         /\ db'[call[h].id] = order[h] /\ order[h] # Absent
         /\ order[h].status = "PENDING" /\ order[h].user = call[h].user
BY DEF TypeInv, TypeOK, ControlOK, UuidInv, AllInserted, Committed, Absent, Order

(* A fill of the cache is never ahead of the database: every step keeps CacheSound. *)
LEMMA NextCacheSound ==
  ASSUME TypeInv, UuidInv, CacheSound, [Next]_vars
  PROVE  CacheSound'
<1> USE OrderTyped DEF TypeInv, TypeOK, ControlOK, CacheSound, CopyOf, Reading
<1>1. ASSUME NEW u \in Users, CreateUser(u) PROVE CacheSound'
  BY <1>1 DEF CreateUser
<1>2. ASSUME NEW u \in Users, DeleteUser(u) PROVE CacheSound'
  BY <1>2 DEF DeleteUser
<1>3. ASSUME NEW h \in Handlers, NEW op \in Ops, InvalidRequest(h, op) PROVE CacheSound'
  BY <1>3 DEF InvalidRequest, Answer, Goto, Call
<1>4. ASSUME NEW h \in Handlers, NEW u \in Users, NEW n \in 1..MaxItems, CreateOrder(h, u, n)
       PROVE  CacheSound'
  BY <1>4 DEF CreateOrder, Request, Goto, Call
<1>5. ASSUME NEW h \in Handlers, NEW o \in OrderIds, GetOrder(h, o) PROVE CacheSound'
  BY <1>5 DEF GetOrder, Request, Goto, Call
<1>6. ASSUME NEW h \in Handlers, NEW o \in OrderIds, CancelOrder(h, o) PROVE CacheSound'
  BY <1>6 DEF CancelOrder, Request, Goto, Call
<1>7. ASSUME NEW h \in Handlers, UserFound(h) PROVE CacheSound'
  BY <1>7 DEF UserFound, Goto
<1>8. ASSUME NEW h \in Handlers, UserMissing(h) PROVE CacheSound'
  BY <1>8 DEF UserMissing, Answer, Goto
<1>9. ASSUME NEW h \in Handlers, BeginTx(h) PROVE CacheSound'
  BY <1>9 DEF BeginTx, Goto
<1>10. ASSUME NEW h \in Handlers, InsertOrder(h) PROVE CacheSound'
  BY <1>10 DEF InsertOrder, Goto, Call, Order
<1>11. ASSUME NEW h \in Handlers, InsertItem(h) PROVE CacheSound'
  BY <1>11 DEF InsertItem, Order
<1>12. ASSUME NEW h \in Handlers, CommitTx(h) PROVE CacheSound'
  <2>1. AllInserted(h) /\ db' = Committed(h)
    BY <1>12 DEF CommitTx
  <2>2. \A o \in OrderIds : CopyOf(cache[o], o) => o # call[h].id
    BY <2>1, CommittedRows
  <2>3. \A g \in Handlers, o \in OrderIds : Reading(g, o)' => Reading(g, o) /\ order'[g] = order[g]
    BY <1>12 DEF CommitTx, Answer, Goto
  <2>4. \A o \in OrderIds : o # call[h].id => db'[o] = db[o]
    BY <2>1, CommittedRows
  <2>5. \A g \in Handlers, o \in OrderIds : Reading(g, o) => o # call[h].id
    BY <2>1, CommittedRows
  <2> HIDE DEF TypeInv
  <2> QED
    BY <1>12, <2>2, <2>3, <2>4, <2>5 DEF CommitTx
<1>13. ASSUME NEW h \in Handlers, CommitLost(h) PROVE CacheSound'
  <2>1. AllInserted(h) /\ db' = Committed(h)
    BY <1>13 DEF CommitLost
  <2>2. \A o \in OrderIds : CopyOf(cache[o], o) => o # call[h].id
    BY <2>1, CommittedRows
  <2>3. \A g \in Handlers, o \in OrderIds : Reading(g, o)' => Reading(g, o) /\ order'[g] = order[g]
    BY <1>13 DEF CommitLost, Answer, Goto
  <2>4. \A o \in OrderIds : o # call[h].id => db'[o] = db[o]
    BY <2>1, CommittedRows
  <2>5. \A g \in Handlers, o \in OrderIds : Reading(g, o) => o # call[h].id
    BY <2>1, CommittedRows
  <2> HIDE DEF TypeInv
  <2> QED
    BY <1>13, <2>2, <2>3, <2>4, <2>5 DEF CommitLost
<1>14. ASSUME NEW h \in Handlers, CacheHit(h) PROVE CacheSound'
  BY <1>14 DEF CacheHit, Answer, Goto
<1>15. ASSUME NEW h \in Handlers, CacheMiss(h) PROVE CacheSound'
  BY <1>15 DEF CacheMiss, Goto
<1>16. ASSUME NEW h \in Handlers, SelectRow(h) PROVE CacheSound'
  BY <1>16 DEF SelectRow, Goto, Order
<1>17. ASSUME NEW h \in Handlers, NoRows(h) PROVE CacheSound'
  BY <1>17 DEF NoRows, Answer, Goto
<1>18. ASSUME NEW h \in Handlers, SelectItems(h) PROVE CacheSound'
  <2>1. PICK n \in ItemsRead(call[h].id) :
          order' = [order EXCEPT ![h] = Order(order[h].user, order[h].status, n)]
    BY <1>18 DEF SelectItems
  <2>2. n <= db[call[h].id].items
    BY <1>18, ItemsTyped DEF SelectItems
  <2>3. Reading(h, call[h].id) /\ CopyOf(order[h], call[h].id)
    BY <1>18 DEF SelectItems
  <2>4. CopyOf(Order(order[h].user, order[h].status, n), call[h].id)
    BY <2>2, <2>3 DEF Order
  <2> QED
    BY <1>18, <2>1, <2>4 DEF SelectItems, Goto
<1>19. ASSUME NEW h \in Handlers, CacheSet(h) PROVE CacheSound'
  <2>1. call[h].id \in OrderIds /\ CopyOf(order[h], call[h].id)
    BY <1>19 DEF CacheSet
  <2>2. \A o \in OrderIds : cache'[o] = cache[o] \/ (o = call[h].id /\ cache'[o] = order[h])
    BY <1>19 DEF CacheSet
  <2>3. \A g \in Handlers, o \in OrderIds : Reading(g, o)' => Reading(g, o) /\ order'[g] = order[g]
    BY <1>19 DEF CacheSet, Answer, Goto
  <2> QED
    BY <1>19, <2>1, <2>2, <2>3 DEF CacheSet
<1>20. ASSUME NEW h \in Handlers, UpdateStatus(h) PROVE CacheSound'
  <2>1. /\ call[h].id \in OrderIds /\ db[call[h].id] # Absent
        /\ db' = Cancelled(call[h].id)
    BY <1>20 DEF UpdateStatus
  <2>2. \A o \in OrderIds, c \in Orders : CopyOf(c, o) => CopyOf(c, o)'
    BY <2>1, CopiesSurviveCancel
  <2>3. \A g \in Handlers, o \in OrderIds : Reading(g, o)' => Reading(g, o) /\ order'[g] = order[g]
    BY <1>20 DEF UpdateStatus, Answer, Goto
  <2> QED
    BY <1>20, <2>2, <2>3 DEF UpdateStatus
<1>21. ASSUME NEW h \in Handlers, UpdateLost(h) PROVE CacheSound'
  <2>1. /\ call[h].id \in OrderIds /\ db[call[h].id] # Absent
        /\ db' = Cancelled(call[h].id)
    BY <1>21 DEF UpdateLost
  <2>2. \A o \in OrderIds, c \in Orders : CopyOf(c, o) => CopyOf(c, o)'
    BY <2>1, CopiesSurviveCancel
  <2>3. \A g \in Handlers, o \in OrderIds : Reading(g, o)' => Reading(g, o) /\ order'[g] = order[g]
    BY <1>21 DEF UpdateLost, Answer, Goto
  <2> QED
    BY <1>21, <2>2, <2>3 DEF UpdateLost
<1>22. ASSUME NEW h \in Handlers, Invalidate(h) PROVE CacheSound'
  <2>1. \A o \in OrderIds : cache'[o] \in {cache[o], Absent}
    BY <1>22 DEF Invalidate
  <2>2. \A g \in Handlers, o \in OrderIds : Reading(g, o)' => Reading(g, o) /\ order'[g] = order[g]
    BY <1>22 DEF Invalidate, Goto
  <2> QED
    BY <1>22, <2>1, <2>2 DEF Invalidate
<1>23. ASSUME NEW h \in Handlers, CancelDone(h) PROVE CacheSound'
  BY <1>23 DEF CancelDone, Answer, Goto, Order
<1>24. ASSUME NEW h \in Handlers, ErrorReturn(h) PROVE CacheSound'
  BY <1>24 DEF ErrorReturn, Answer, Goto
<1>25. ASSUME NEW h \in Handlers, Crash(h) PROVE CacheSound'
  BY <1>25 DEF Crash, Answer, Goto
<1>26. ASSUME NEW o \in OrderIds, Expire(o) PROVE CacheSound'
  BY <1>26 DEF Expire
<1>27. CASE UNCHANGED vars
  BY <1>27 DEF vars
<1> QED
  BY <1>1, <1>2, <1>3, <1>4, <1>5, <1>6, <1>7, <1>8, <1>9, <1>10, <1>11, <1>12, <1>13, <1>14,
     <1>15, <1>16, <1>17, <1>18, <1>19, <1>20, <1>21, <1>22, <1>23, <1>24, <1>25, <1>26, <1>27
  DEF Next, HandlerStep

(* Every step keeps UserInv. *)
LEMMA NextUserInv ==
  ASSUME TypeInv, UuidInv, UserInv, [Next]_vars
  PROVE  UserInv'
<1> USE DEF TypeInv, TypeOK, ControlOK, UserInv, OrderUserExisted
<1>1. ASSUME NEW u \in Users, CreateUser(u) PROVE UserInv'
  BY <1>1 DEF CreateUser
<1>2. ASSUME NEW u \in Users, DeleteUser(u) PROVE UserInv'
  BY <1>2 DEF DeleteUser
<1>3. ASSUME NEW h \in Handlers, NEW op \in Ops, InvalidRequest(h, op) PROVE UserInv'
  BY <1>3 DEF InvalidRequest, Answer, Goto, Call
<1>4. ASSUME NEW h \in Handlers, NEW u \in Users, NEW n \in 1..MaxItems, CreateOrder(h, u, n)
       PROVE  UserInv'
  BY <1>4 DEF CreateOrder, Request, Goto, Call
<1>5. ASSUME NEW h \in Handlers, NEW o \in OrderIds, GetOrder(h, o) PROVE UserInv'
  BY <1>5 DEF GetOrder, Request, Goto, Call
<1>6. ASSUME NEW h \in Handlers, NEW o \in OrderIds, CancelOrder(h, o) PROVE UserInv'
  BY <1>6 DEF CancelOrder, Request, Goto, Call
<1>7. ASSUME NEW h \in Handlers, UserFound(h) PROVE UserInv'
  BY <1>7 DEF UserFound, Goto
<1>8. ASSUME NEW h \in Handlers, UserMissing(h) PROVE UserInv'
  BY <1>8 DEF UserMissing, Answer, Goto
<1>9. ASSUME NEW h \in Handlers, BeginTx(h) PROVE UserInv'
  BY <1>9 DEF BeginTx, Goto
<1>10. ASSUME NEW h \in Handlers, InsertOrder(h) PROVE UserInv'
  BY <1>10 DEF InsertOrder, Goto, Call, Order
<1>11. ASSUME NEW h \in Handlers, InsertItem(h) PROVE UserInv'
  BY <1>11 DEF InsertItem, Order
<1>12. ASSUME NEW h \in Handlers, CommitTx(h) PROVE UserInv'
  <2>1. AllInserted(h) /\ db' = Committed(h)
    BY <1>12 DEF CommitTx
  <2>2. call[h].user \in everUsers
    BY <2>1 DEF AllInserted
  <2>3. \A o \in OrderIds :
          db'[o] = db[o] \/ (o = call[h].id /\ db'[o].user = call[h].user)
    BY <2>1, CommittedRows
  <2>4. \A g \in Handlers : pc'[g] = pc[g] \/ pc'[g] = "idle"
    BY <1>12 DEF CommitTx, Answer, Goto
  <2> HIDE DEF TypeInv
  <2> QED
    BY <1>12, <2>2, <2>3, <2>4 DEF CommitTx
<1>13. ASSUME NEW h \in Handlers, CommitLost(h) PROVE UserInv'
  <2>1. AllInserted(h) /\ db' = Committed(h)
    BY <1>13 DEF CommitLost
  <2>2. call[h].user \in everUsers
    BY <2>1 DEF AllInserted
  <2>3. \A o \in OrderIds :
          db'[o] = db[o] \/ (o = call[h].id /\ db'[o].user = call[h].user)
    BY <2>1, CommittedRows
  <2>4. \A g \in Handlers : pc'[g] = pc[g] \/ pc'[g] = "idle"
    BY <1>13 DEF CommitLost, Answer, Goto
  <2> HIDE DEF TypeInv
  <2> QED
    BY <1>13, <2>2, <2>3, <2>4 DEF CommitLost
<1>14. ASSUME NEW h \in Handlers, CacheHit(h) PROVE UserInv'
  BY <1>14 DEF CacheHit, Answer, Goto
<1>15. ASSUME NEW h \in Handlers, CacheMiss(h) PROVE UserInv'
  BY <1>15 DEF CacheMiss, Goto
<1>16. ASSUME NEW h \in Handlers, SelectRow(h) PROVE UserInv'
  BY <1>16 DEF SelectRow, Goto, Order
<1>17. ASSUME NEW h \in Handlers, NoRows(h) PROVE UserInv'
  BY <1>17 DEF NoRows, Answer, Goto
<1>18. ASSUME NEW h \in Handlers, SelectItems(h) PROVE UserInv'
  BY <1>18 DEF SelectItems, Goto, Order
<1>19. ASSUME NEW h \in Handlers, CacheSet(h) PROVE UserInv'
  BY <1>19 DEF CacheSet, Answer, Goto
<1>20. ASSUME NEW h \in Handlers, UpdateStatus(h) PROVE UserInv'
  BY <1>20 DEF UpdateStatus, Cancelled, Order, Raced, Goto
<1>21. ASSUME NEW h \in Handlers, UpdateLost(h) PROVE UserInv'
  BY <1>21 DEF UpdateLost, Cancelled, Order, Answer, Goto
<1>22. ASSUME NEW h \in Handlers, Invalidate(h) PROVE UserInv'
  BY <1>22 DEF Invalidate, Goto
<1>23. ASSUME NEW h \in Handlers, CancelDone(h) PROVE UserInv'
  BY <1>23 DEF CancelDone, Answer, Goto, Order
<1>24. ASSUME NEW h \in Handlers, ErrorReturn(h) PROVE UserInv'
  BY <1>24 DEF ErrorReturn, Answer, Goto
<1>25. ASSUME NEW h \in Handlers, Crash(h) PROVE UserInv'
  BY <1>25 DEF Crash, Answer, Goto
<1>26. ASSUME NEW o \in OrderIds, Expire(o) PROVE UserInv'
  BY <1>26 DEF Expire
<1>27. CASE UNCHANGED vars
  BY <1>27 DEF vars
<1> QED
  BY <1>1, <1>2, <1>3, <1>4, <1>5, <1>6, <1>7, <1>8, <1>9, <1>10, <1>11, <1>12, <1>13, <1>14,
     <1>15, <1>16, <1>17, <1>18, <1>19, <1>20, <1>21, <1>22, <1>23, <1>24, <1>25, <1>26, <1>27
  DEF Next, HandlerStep

(***************************************************************************)
(* Items: a transaction inserts the items of the request that drew its     *)
(* uuid, and a commit stores all of them.                                  *)
(***************************************************************************)
StoredInv ==
  /\ StoredComplete
  /\ \A h \in Handlers : pc[h] = "insertItem" => issued[call[h].id] = call[h].items

(* A commit stores an order with as many items as its request had. *)
LEMMA CommitStores ==
  ASSUME TypeInv, UuidInv, StoredInv, NEW h \in Handlers, AllInserted(h), db' = Committed(h),
         UNCHANGED <<issued, call>>, Goto(h, "idle")
  PROVE  StoredInv'
<1>1. issued[call[h].id] = order[h].items
  BY DEF StoredInv, AllInserted
<1>2. StoredComplete'
  BY <1>1, CommittedRows DEF StoredInv, StoredComplete
<1>3. \A g \in Handlers : pc'[g] = "insertItem" => pc[g] = "insertItem"
  BY DEF TypeInv, TypeOK, Goto
<1> QED
  BY <1>2, <1>3 DEF StoredInv

(* A cancellation leaves the items alone. *)
LEMMA CancelStores ==
  ASSUME TypeInv, UuidInv, StoredInv, NEW h \in Handlers, call[h].id \in OrderIds,
         db[call[h].id] # Absent, db' = Cancelled(call[h].id), UNCHANGED <<issued, call>>,
         \A g \in Handlers : pc'[g] = "insertItem" => pc[g] = "insertItem"
  PROVE  StoredInv'
<1>1. StoredComplete'
  BY CancelledRows DEF StoredInv, StoredComplete
<1> QED
  BY <1>1 DEF StoredInv

(* Every step keeps StoredInv. *)
LEMMA NextStoredInv ==
  ASSUME TypeInv, UuidInv, StoredInv, [Next]_vars
  PROVE  StoredInv'
<1> DEFINE Quiet == /\ UNCHANGED <<db, issued>>
                    /\ \A g \in Handlers : pc'[g] = "insertItem" =>
                         pc[g] = "insertItem" /\ call'[g] = call[g]
<1>1. Quiet => StoredInv'
  BY DEF StoredInv, StoredComplete
<1> USE DEF TypeInv, TypeOK
<1>2. ASSUME NEW u \in Users, CreateUser(u) \/ DeleteUser(u) PROVE Quiet
  BY <1>2 DEF CreateUser, DeleteUser
<1>3. ASSUME NEW h \in Handlers, NEW op \in Ops, InvalidRequest(h, op) PROVE Quiet
  BY <1>3 DEF InvalidRequest, Answer, Goto
<1>4. ASSUME NEW h \in Handlers, NEW u \in Users, NEW n \in 1..MaxItems, CreateOrder(h, u, n)
      PROVE  Quiet
  BY <1>4 DEF CreateOrder, Request, Goto
<1>5. ASSUME NEW h \in Handlers, NEW o \in OrderIds, GetOrder(h, o) \/ CancelOrder(h, o)
      PROVE  Quiet
  BY <1>5 DEF GetOrder, CancelOrder, Request, Goto
<1>6. ASSUME NEW h \in Handlers,
             UserFound(h) \/ BeginTx(h) \/ InsertItem(h) \/ CacheMiss(h) \/ SelectRow(h)
               \/ SelectItems(h) \/ Invalidate(h)
      PROVE  Quiet
  BY <1>6 DEF UserFound, BeginTx, InsertItem, CacheMiss, SelectRow, SelectItems, Invalidate, Goto
<1>7. ASSUME NEW h \in Handlers,
             UserMissing(h) \/ CacheHit(h) \/ NoRows(h) \/ CacheSet(h) \/ CancelDone(h)
               \/ ErrorReturn(h) \/ Crash(h)
      PROVE  Quiet
  BY <1>7 DEF UserMissing, CacheHit, NoRows, CacheSet, CancelDone, ErrorReturn, Crash, Answer, Goto
<1>8. ASSUME NEW h \in Handlers, InsertOrder(h) PROVE StoredInv'
  <2>1. PICK o \in OrderIds :
          /\ issued[o] = 0
          /\ issued' = [issued EXCEPT ![o] = call[h].items]
          /\ call' = [call EXCEPT ![h] = Call("Create", o, call[h].user, call[h].items, FALSE)]
    BY <1>8 DEF InsertOrder
  <2>2. UNCHANGED db /\ db[o] = Absent
    BY <1>8, <2>1 DEF InsertOrder, UuidInv
  <2>3. StoredComplete'
    BY <2>1, <2>2 DEF StoredInv, StoredComplete
  <2>4. issued'[call'[h].id] = call'[h].items
    BY <2>1 DEF Call
  <2>5. ASSUME NEW g \in Handlers, g # h, pc'[g] = "insertItem"
        PROVE  issued'[call'[g].id] = call'[g].items
    <3>1. pc[g] = "insertItem" /\ call'[g] = call[g]
      BY <1>8, <2>1, <2>5 DEF InsertOrder, Goto
    <3>2. call[g].id \in OrderIds /\ call[g].id # o
      BY <2>1, <3>1 DEF UuidInv, ControlOK
    <3> QED
      BY <2>1, <3>1, <3>2 DEF StoredInv
  <2> QED
    BY <2>3, <2>4, <2>5 DEF StoredInv
<1>9. ASSUME NEW h \in Handlers, CommitTx(h) \/ CommitLost(h) PROVE StoredInv'
  BY <1>9, CommitStores DEF CommitTx, CommitLost, Answer
<1>10. ASSUME NEW h \in Handlers, UpdateStatus(h) \/ UpdateLost(h) PROVE StoredInv'
  <2>1. call[h].id \in OrderIds
    BY <1>10 DEF UpdateStatus, UpdateLost, ControlOK
  <2>2. \A g \in Handlers : pc'[g] = "insertItem" => pc[g] = "insertItem"
    BY <1>10 DEF UpdateStatus, UpdateLost, Answer, Goto
  <2> QED
    BY <1>10, <2>1, <2>2, CancelStores DEF UpdateStatus, UpdateLost
<1>11. ASSUME NEW o \in OrderIds, Expire(o) PROVE Quiet
  BY <1>11 DEF Expire
<1>12. CASE UNCHANGED vars
  BY <1>12 DEF vars, StoredInv, StoredComplete
<1> HIDE DEF Quiet, TypeInv, TypeOK
<1> QED
  BY <1>1, <1>2, <1>3, <1>4, <1>5, <1>6, <1>7, <1>8, <1>9, <1>10, <1>11, <1>12
  DEF Next, HandlerStep

(* A missing order has status NONE, so it is neither PENDING nor CANCELLED. *)
LEMMA AbsentStatus == Absent.status = "NONE"
BY DEF Absent, Order

(* Every step keeps CancelApplied. *)
LEMMA NextCancelApplied ==
  ASSUME TypeInv, UuidInv, CancelApplied, [Next]_vars
  PROVE  CancelApplied'
<1> USE DEF TypeInv, TypeOK, ControlOK, CancelApplied, Rereading
<1>1. ASSUME NEW u \in Users, CreateUser(u) PROVE CancelApplied'
  BY <1>1 DEF CreateUser
<1>2. ASSUME NEW u \in Users, DeleteUser(u) PROVE CancelApplied'
  BY <1>2 DEF DeleteUser
<1>3. ASSUME NEW h \in Handlers, NEW op \in Ops, InvalidRequest(h, op) PROVE CancelApplied'
  BY <1>3 DEF InvalidRequest, Answer, Goto, Call
<1>4. ASSUME NEW h \in Handlers, NEW u \in Users, NEW n \in 1..MaxItems, CreateOrder(h, u, n)
       PROVE  CancelApplied'
  BY <1>4 DEF CreateOrder, Request, Goto, Call
<1>5. ASSUME NEW h \in Handlers, NEW o \in OrderIds, GetOrder(h, o) PROVE CancelApplied'
  BY <1>5 DEF GetOrder, Request, Goto, Call
<1>6. ASSUME NEW h \in Handlers, NEW o \in OrderIds, CancelOrder(h, o) PROVE CancelApplied'
  BY <1>6 DEF CancelOrder, Request, Goto, Call
<1>7. ASSUME NEW h \in Handlers, UserFound(h) PROVE CancelApplied'
  BY <1>7 DEF UserFound, Goto
<1>8. ASSUME NEW h \in Handlers, UserMissing(h) PROVE CancelApplied'
  BY <1>8 DEF UserMissing, Answer, Goto
<1>9. ASSUME NEW h \in Handlers, BeginTx(h) PROVE CancelApplied'
  BY <1>9 DEF BeginTx, Goto
<1>10. ASSUME NEW h \in Handlers, InsertOrder(h) PROVE CancelApplied'
  BY <1>10 DEF InsertOrder, Goto, Call, Order
<1>11. ASSUME NEW h \in Handlers, InsertItem(h) PROVE CancelApplied'
  BY <1>11 DEF InsertItem, Order
<1>12. ASSUME NEW h \in Handlers, CommitTx(h) PROVE CancelApplied'
  <2>1. AllInserted(h) /\ db' = Committed(h)
    BY <1>12 DEF CommitTx
  <2>2. \A o \in OrderIds : db[o].status = "CANCELLED" => db'[o].status = "CANCELLED"
    BY <2>1, CommittedRows, AbsentStatus
  <2>3. \A g \in Handlers : g # h => pc'[g] = pc[g] /\ order'[g] = order[g]
    BY <1>12 DEF CommitTx, Answer, Goto
  <2>4. pc'[h] = "idle"
    BY <1>12 DEF CommitTx, Answer, Goto
  <2> QED
    BY <1>12, <2>2, <2>3, <2>4 DEF CommitTx
<1>13. ASSUME NEW h \in Handlers, CommitLost(h) PROVE CancelApplied'
  <2>1. AllInserted(h) /\ db' = Committed(h)
    BY <1>13 DEF CommitLost
  <2>2. \A o \in OrderIds : db[o].status = "CANCELLED" => db'[o].status = "CANCELLED"
    BY <2>1, CommittedRows, AbsentStatus
  <2>3. \A g \in Handlers : g # h => pc'[g] = pc[g] /\ order'[g] = order[g]
    BY <1>13 DEF CommitLost, Answer, Goto
  <2>4. pc'[h] = "idle"
    BY <1>13 DEF CommitLost, Answer, Goto
  <2> QED
    BY <1>13, <2>2, <2>3, <2>4 DEF CommitLost
<1>14. ASSUME NEW h \in Handlers, CacheHit(h) PROVE CancelApplied'
  BY <1>14 DEF CacheHit, Answer, Goto
<1>15. ASSUME NEW h \in Handlers, CacheMiss(h) PROVE CancelApplied'
  BY <1>15 DEF CacheMiss, Goto
<1>16. ASSUME NEW h \in Handlers, SelectRow(h) PROVE CancelApplied'
  BY <1>16 DEF SelectRow, Goto, Order
<1>17. ASSUME NEW h \in Handlers, NoRows(h) PROVE CancelApplied'
  BY <1>17 DEF NoRows, Answer, Goto
<1>18. ASSUME NEW h \in Handlers, SelectItems(h) PROVE CancelApplied'
  BY <1>18 DEF SelectItems, Goto, Order
<1>19. ASSUME NEW h \in Handlers, CacheSet(h) PROVE CancelApplied'
  BY <1>19 DEF CacheSet, Answer, Goto
<1>20. ASSUME NEW h \in Handlers, UpdateStatus(h) PROVE CancelApplied'
  BY <1>20 DEF UpdateStatus, Cancelled, Order, Raced, Goto
<1>21. ASSUME NEW h \in Handlers, UpdateLost(h) PROVE CancelApplied'
  BY <1>21 DEF UpdateLost, Cancelled, Order, Answer, Goto
<1>22. ASSUME NEW h \in Handlers, Invalidate(h) PROVE CancelApplied'
  BY <1>22 DEF Invalidate, Goto
<1>23. ASSUME NEW h \in Handlers, CancelDone(h) PROVE CancelApplied'
  BY <1>23 DEF CancelDone, Answer, Goto, Order
<1>24. ASSUME NEW h \in Handlers, ErrorReturn(h) PROVE CancelApplied'
  BY <1>24 DEF ErrorReturn, Answer, Goto
<1>25. ASSUME NEW h \in Handlers, Crash(h) PROVE CancelApplied'
  BY <1>25 DEF Crash, Answer, Goto
<1>26. ASSUME NEW o \in OrderIds, Expire(o) PROVE CancelApplied'
  BY <1>26 DEF Expire
<1>27. CASE UNCHANGED vars
  BY <1>27 DEF vars
<1> QED
  BY <1>1, <1>2, <1>3, <1>4, <1>5, <1>6, <1>7, <1>8, <1>9, <1>10, <1>11, <1>12, <1>13, <1>14,
     <1>15, <1>16, <1>17, <1>18, <1>19, <1>20, <1>21, <1>22, <1>23, <1>24, <1>25, <1>26, <1>27
  DEF Next, HandlerStep

(* Every step keeps AfterAcked. *)
LEMMA NextAfterAcked ==
  ASSUME TypeInv, AfterAcked, [Next]_vars
  PROVE  AfterAcked'
<1> USE DEF TypeInv, TypeOK, ControlOK, AfterAcked
<1>1. ASSUME NEW u \in Users, CreateUser(u) PROVE AfterAcked'
  BY <1>1 DEF CreateUser
<1>2. ASSUME NEW u \in Users, DeleteUser(u) PROVE AfterAcked'
  BY <1>2 DEF DeleteUser
<1>3. ASSUME NEW h \in Handlers, NEW op \in Ops, InvalidRequest(h, op) PROVE AfterAcked'
  BY <1>3 DEF InvalidRequest, Answer, Goto, Call
<1>4. ASSUME NEW h \in Handlers, NEW u \in Users, NEW n \in 1..MaxItems, CreateOrder(h, u, n)
       PROVE  AfterAcked'
  BY <1>4 DEF CreateOrder, Request, Goto, Call
<1>5. ASSUME NEW h \in Handlers, NEW o \in OrderIds, GetOrder(h, o) PROVE AfterAcked'
  BY <1>5 DEF GetOrder, Request, Goto, Call
<1>6. ASSUME NEW h \in Handlers, NEW o \in OrderIds, CancelOrder(h, o) PROVE AfterAcked'
  BY <1>6 DEF CancelOrder, Request, Goto, Call
<1>7. ASSUME NEW h \in Handlers, UserFound(h) PROVE AfterAcked'
  BY <1>7 DEF UserFound, Goto
<1>8. ASSUME NEW h \in Handlers, UserMissing(h) PROVE AfterAcked'
  BY <1>8 DEF UserMissing, Answer, Goto
<1>9. ASSUME NEW h \in Handlers, BeginTx(h) PROVE AfterAcked'
  BY <1>9 DEF BeginTx, Goto
<1>10. ASSUME NEW h \in Handlers, InsertOrder(h) PROVE AfterAcked'
  BY <1>10 DEF InsertOrder, Goto, Call, Order
<1>11. ASSUME NEW h \in Handlers, InsertItem(h) PROVE AfterAcked'
  BY <1>11 DEF InsertItem, Order
<1>12. ASSUME NEW h \in Handlers, CommitTx(h) PROVE AfterAcked'
  BY <1>12 DEF CommitTx, AllInserted, Committed, Answer, Goto
<1>13. ASSUME NEW h \in Handlers, CommitLost(h) PROVE AfterAcked'
  BY <1>13 DEF CommitLost, AllInserted, Committed, Answer, Goto
<1>14. ASSUME NEW h \in Handlers, CacheHit(h) PROVE AfterAcked'
  BY <1>14 DEF CacheHit, Answer, Goto
<1>15. ASSUME NEW h \in Handlers, CacheMiss(h) PROVE AfterAcked'
  BY <1>15 DEF CacheMiss, Goto
<1>16. ASSUME NEW h \in Handlers, SelectRow(h) PROVE AfterAcked'
  BY <1>16 DEF SelectRow, Goto, Order
<1>17. ASSUME NEW h \in Handlers, NoRows(h) PROVE AfterAcked'
  BY <1>17 DEF NoRows, Answer, Goto
<1>18. ASSUME NEW h \in Handlers, SelectItems(h) PROVE AfterAcked'
  BY <1>18 DEF SelectItems, Goto, Order
<1>19. ASSUME NEW h \in Handlers, CacheSet(h) PROVE AfterAcked'
  BY <1>19 DEF CacheSet, Answer, Goto
<1>20. ASSUME NEW h \in Handlers, UpdateStatus(h) PROVE AfterAcked'
  BY <1>20 DEF UpdateStatus, Cancelled, Order, Raced, Goto
<1>21. ASSUME NEW h \in Handlers, UpdateLost(h) PROVE AfterAcked'
  BY <1>21 DEF UpdateLost, Cancelled, Order, Answer, Goto
<1>22. ASSUME NEW h \in Handlers, Invalidate(h) PROVE AfterAcked'
  BY <1>22 DEF Invalidate, Goto
<1>23. ASSUME NEW h \in Handlers, CancelDone(h) PROVE AfterAcked'
  BY <1>23 DEF CancelDone, Answer, Goto, Order
<1>24. ASSUME NEW h \in Handlers, ErrorReturn(h) PROVE AfterAcked'
  BY <1>24 DEF ErrorReturn, Answer, Goto
<1>25. ASSUME NEW h \in Handlers, Crash(h) PROVE AfterAcked'
  BY <1>25 DEF Crash, Answer, Goto
<1>26. ASSUME NEW o \in OrderIds, Expire(o) PROVE AfterAcked'
  BY <1>26 DEF Expire
<1>27. CASE UNCHANGED vars
  BY <1>27 DEF vars
<1> QED
  BY <1>1, <1>2, <1>3, <1>4, <1>5, <1>6, <1>7, <1>8, <1>9, <1>10, <1>11, <1>12, <1>13, <1>14,
     <1>15, <1>16, <1>17, <1>18, <1>19, <1>20, <1>21, <1>22, <1>23, <1>24, <1>25, <1>26, <1>27
  DEF Next, HandlerStep

(* Every step keeps StaleExcused. *)
LEMMA NextStaleExcused ==
  ASSUME TypeInv, UuidInv, CacheSound, StaleExcused, [Next]_vars
  PROVE  StaleExcused'
<1> USE DEF TypeInv, TypeOK, ControlOK, StaleExcused, Reading
<1>1. ASSUME NEW u \in Users, CreateUser(u) PROVE StaleExcused'
  BY <1>1 DEF CreateUser
<1>2. ASSUME NEW u \in Users, DeleteUser(u) PROVE StaleExcused'
  BY <1>2 DEF DeleteUser
<1>3. ASSUME NEW h \in Handlers, NEW op \in Ops, InvalidRequest(h, op) PROVE StaleExcused'
  BY <1>3 DEF InvalidRequest, Answer, Goto, Call
<1>4. ASSUME NEW h \in Handlers, NEW u \in Users, NEW n \in 1..MaxItems, CreateOrder(h, u, n)
       PROVE  StaleExcused'
  BY <1>4 DEF CreateOrder, Request, Goto, Call
<1>5. ASSUME NEW h \in Handlers, NEW o \in OrderIds, GetOrder(h, o) PROVE StaleExcused'
  BY <1>5 DEF GetOrder, Request, Goto, Call
<1>6. ASSUME NEW h \in Handlers, NEW o \in OrderIds, CancelOrder(h, o) PROVE StaleExcused'
  BY <1>6 DEF CancelOrder, Request, Goto, Call
<1>7. ASSUME NEW h \in Handlers, UserFound(h) PROVE StaleExcused'
  BY <1>7 DEF UserFound, Goto
<1>8. ASSUME NEW h \in Handlers, UserMissing(h) PROVE StaleExcused'
  BY <1>8 DEF UserMissing, Answer, Goto
<1>9. ASSUME NEW h \in Handlers, BeginTx(h) PROVE StaleExcused'
  BY <1>9 DEF BeginTx, Goto
<1>10. ASSUME NEW h \in Handlers, InsertOrder(h) PROVE StaleExcused'
  BY <1>10 DEF InsertOrder, Goto, Call, Order
<1>11. ASSUME NEW h \in Handlers, InsertItem(h) PROVE StaleExcused'
  BY <1>11 DEF InsertItem, Order
<1>12. ASSUME NEW h \in Handlers, CommitTx(h) PROVE StaleExcused'
  <2>1. AllInserted(h) /\ db' = Committed(h)
    BY <1>12 DEF CommitTx
  <2>2. \A o \in OrderIds : db'[o].status = "CANCELLED" => db[o].status = "CANCELLED"
    BY <2>1, CommittedRows
  <2>3. \A g \in Handlers : g # h => pc'[g] = pc[g] /\ order'[g] = order[g]
    BY <1>12 DEF CommitTx, Answer, Goto
  <2>4. pc'[h] = "idle" /\ pc[h] = "insertItem"
    BY <1>12 DEF CommitTx, AllInserted, Answer, Goto
  <2> QED
    BY <1>12, <2>2, <2>3, <2>4 DEF CommitTx
<1>13. ASSUME NEW h \in Handlers, CommitLost(h) PROVE StaleExcused'
  <2>1. AllInserted(h) /\ db' = Committed(h)
    BY <1>13 DEF CommitLost
  <2>2. \A o \in OrderIds : db'[o].status = "CANCELLED" => db[o].status = "CANCELLED"
    BY <2>1, CommittedRows
  <2>3. \A g \in Handlers : g # h => pc'[g] = pc[g] /\ order'[g] = order[g]
    BY <1>13 DEF CommitLost, Answer, Goto
  <2>4. pc'[h] = "idle" /\ pc[h] = "insertItem"
    BY <1>13 DEF CommitLost, AllInserted, Answer, Goto
  <2> QED
    BY <1>13, <2>2, <2>3, <2>4 DEF CommitLost
<1>14. ASSUME NEW h \in Handlers, CacheHit(h) PROVE StaleExcused'
  BY <1>14 DEF CacheHit, Answer, Goto
<1>15. ASSUME NEW h \in Handlers, CacheMiss(h) PROVE StaleExcused'
  BY <1>15 DEF CacheMiss, Goto
<1>16. ASSUME NEW h \in Handlers, SelectRow(h) PROVE StaleExcused'
  BY <1>16 DEF SelectRow, Goto, Order
<1>17. ASSUME NEW h \in Handlers, NoRows(h) PROVE StaleExcused'
  BY <1>17 DEF NoRows, Answer, Goto
<1>18. ASSUME NEW h \in Handlers, SelectItems(h) PROVE StaleExcused'
  BY <1>18 DEF SelectItems, Goto, Order
<1>19. ASSUME NEW h \in Handlers, CacheSet(h) PROVE StaleExcused'
  <2>1. \A o \in OrderIds : cache'[o] = cache[o] \/ (o = call[h].id /\ cache'[o] = order[h])
    BY <1>19 DEF CacheSet
  <2>2. \A g \in Handlers : g # h => pc'[g] = pc[g] /\ order'[g] = order[g]
    BY <1>19 DEF CacheSet, Answer, Goto
  <2>3. pc'[h] = "idle" /\ pc[h] = "cacheSet"
    BY <1>19 DEF CacheSet, Answer, Goto
  <2>4. db' = db /\ call' = call /\ excused' = excused
    BY <1>19 DEF CacheSet
  <2>5. \A g \in Handlers : pc'[g] # "idle" => g # h /\ pc'[g] = pc[g] /\ order'[g] = order[g]
    BY <2>2, <2>3
  <2>6. \A o \in OrderIds :
          db[o].status = "CANCELLED" /\ cache'[o].status = "PENDING"
            => o \in excused \/ \E g \in Handlers : pc'[g] = "invalidate" /\ call[g].id = o
    <3> SUFFICES ASSUME NEW o \in OrderIds, db[o].status = "CANCELLED", cache'[o].status = "PENDING"
                 PROVE  o \in excused \/ \E g \in Handlers : pc'[g] = "invalidate" /\ call[g].id = o
      OBVIOUS
    <3>1. CASE cache'[o] = cache[o]
      <4>1. o \in excused \/ \E g \in Handlers : pc[g] = "invalidate" /\ call[g].id = o
        BY <3>1
      <4> QED BY <2>2, <2>3, <4>1
    <3>2. CASE o = call[h].id /\ cache'[o] = order[h]
      BY <2>3, <3>2
    <3> QED BY <2>1, <3>1, <3>2
  <2> QED
    BY <2>4, <2>5, <2>6
<1>20. ASSUME NEW h \in Handlers, UpdateStatus(h) PROVE StaleExcused'
  BY <1>20 DEF UpdateStatus, Cancelled, Order, Raced, Goto
<1>21. ASSUME NEW h \in Handlers, UpdateLost(h) PROVE StaleExcused'
  BY <1>21 DEF UpdateLost, Cancelled, Order, Answer, Goto
<1>22. ASSUME NEW h \in Handlers, Invalidate(h) PROVE StaleExcused'
  <2>1. \A o \in OrderIds :
          \/ cache'[o] = cache[o] /\ (o = call[h].id => o \in excused')
          \/ cache'[o] = Absent
    BY <1>22 DEF Invalidate
  <2>2. \A g \in Handlers : g # h => pc'[g] = pc[g]
    BY <1>22 DEF Invalidate, Goto
  <2>3. pc'[h] = "selectRow" /\ excused \subseteq excused'
    BY <1>22 DEF Invalidate, Goto
  <2> QED
    BY <1>22, <2>1, <2>2, <2>3, AbsentStatus DEF Invalidate
<1>23. ASSUME NEW h \in Handlers, CancelDone(h) PROVE StaleExcused'
  BY <1>23 DEF CancelDone, Answer, Goto, Order
<1>24. ASSUME NEW h \in Handlers, ErrorReturn(h) PROVE StaleExcused'
  BY <1>24 DEF ErrorReturn, Answer, Goto
<1>25. ASSUME NEW h \in Handlers, Crash(h) PROVE StaleExcused'
  BY <1>25 DEF Crash, Answer, Goto
<1>26. ASSUME NEW o \in OrderIds, Expire(o) PROVE StaleExcused'
  BY <1>26, AbsentStatus DEF Expire
<1>27. CASE UNCHANGED vars
  BY <1>27 DEF vars
<1> QED
  BY <1>1, <1>2, <1>3, <1>4, <1>5, <1>6, <1>7, <1>8, <1>9, <1>10, <1>11, <1>12, <1>13, <1>14,
     <1>15, <1>16, <1>17, <1>18, <1>19, <1>20, <1>21, <1>22, <1>23, <1>24, <1>25, <1>26, <1>27
  DEF Next, HandlerStep

(* Every step keeps Settled. *)
LEMMA NextSettled ==
  ASSUME TypeInv, UuidInv, CancelApplied, StaleExcused, Settled, [Next]_vars
  PROVE  Settled'
<1> USE DEF TypeInv, TypeOK, ControlOK, Settled, Rereading
<1>1. ASSUME NEW u \in Users, CreateUser(u) PROVE Settled'
  BY <1>1 DEF CreateUser
<1>2. ASSUME NEW u \in Users, DeleteUser(u) PROVE Settled'
  BY <1>2 DEF DeleteUser
<1>3. ASSUME NEW h \in Handlers, NEW op \in Ops, InvalidRequest(h, op) PROVE Settled'
  BY <1>3 DEF InvalidRequest, Answer, Goto, Call
<1>4. ASSUME NEW h \in Handlers, NEW u \in Users, NEW n \in 1..MaxItems, CreateOrder(h, u, n)
       PROVE  Settled'
  BY <1>4 DEF CreateOrder, Request, Goto, Call
<1>5. ASSUME NEW h \in Handlers, NEW o \in OrderIds, GetOrder(h, o) PROVE Settled'
  BY <1>5 DEF GetOrder, Request, Goto, Call
<1>6. ASSUME NEW h \in Handlers, NEW o \in OrderIds, CancelOrder(h, o) PROVE Settled'
  BY <1>6 DEF CancelOrder, Request, Goto, Call
<1>7. ASSUME NEW h \in Handlers, UserFound(h) PROVE Settled'
  BY <1>7 DEF UserFound, Goto
<1>8. ASSUME NEW h \in Handlers, UserMissing(h) PROVE Settled'
  BY <1>8 DEF UserMissing, Answer, Goto
<1>9. ASSUME NEW h \in Handlers, BeginTx(h) PROVE Settled'
  BY <1>9 DEF BeginTx, Goto
<1>10. ASSUME NEW h \in Handlers, InsertOrder(h) PROVE Settled'
  BY <1>10 DEF InsertOrder, Goto, Call, Order
<1>11. ASSUME NEW h \in Handlers, InsertItem(h) PROVE Settled'
  BY <1>11 DEF InsertItem, Order
<1>12. ASSUME NEW h \in Handlers, CommitTx(h) PROVE Settled'
  BY <1>12 DEF CommitTx, AllInserted, Committed, Answer, Goto
<1>13. ASSUME NEW h \in Handlers, CommitLost(h) PROVE Settled'
  BY <1>13 DEF CommitLost, AllInserted, Committed, Answer, Goto
<1>14. ASSUME NEW h \in Handlers, CacheHit(h) PROVE Settled'
  BY <1>14 DEF CacheHit, Answer, Goto
<1>15. ASSUME NEW h \in Handlers, CacheMiss(h) PROVE Settled'
  BY <1>15 DEF CacheMiss, Goto
<1>16. ASSUME NEW h \in Handlers, SelectRow(h) PROVE Settled'
  BY <1>16 DEF SelectRow, Goto, Order
<1>17. ASSUME NEW h \in Handlers, NoRows(h) PROVE Settled'
  BY <1>17 DEF NoRows, Answer, Goto
<1>18. ASSUME NEW h \in Handlers, SelectItems(h) PROVE Settled'
  BY <1>18 DEF SelectItems, Goto, Order
<1>19. ASSUME NEW h \in Handlers, CacheSet(h) PROVE Settled'
  <2>1. \A o \in OrderIds : cache'[o] = cache[o] \/ (o = call[h].id /\ cache'[o] = order[h])
    BY <1>19 DEF CacheSet
  <2>2. \A g \in Handlers, o \in OrderIds : Rereading(g, o)' => Rereading(g, o)
    BY <1>19 DEF CacheSet, Answer, Goto
  <2>3. \A o \in OrderIds :
          o \in acked \/ (\E g \in Handlers : Rereading(g, o)) => db[o].status = "CANCELLED"
    BY DEF CancelApplied
  <2>4. ASSUME order[h].status = "PENDING", db[call[h].id].status = "CANCELLED"
        PROVE  call[h].id \in excused
    BY <1>19, <2>4 DEF CacheSet, StaleExcused, Reading
  <2> QED
    BY <1>19, <2>1, <2>2, <2>3, <2>4 DEF CacheSet
<1>20. ASSUME NEW h \in Handlers, UpdateStatus(h) PROVE Settled'
  BY <1>20 DEF UpdateStatus, Cancelled, Order, Raced, Goto
<1>21. ASSUME NEW h \in Handlers, UpdateLost(h) PROVE Settled'
  BY <1>21 DEF UpdateLost, Cancelled, Order, Answer, Goto
<1>22. ASSUME NEW h \in Handlers, Invalidate(h) PROVE Settled'
  <2>1. \A o \in OrderIds :
          \/ cache'[o] = cache[o] /\ (o = call[h].id => o \in excused')
          \/ cache'[o] = Absent
    BY <1>22 DEF Invalidate
  <2>2. \A g \in Handlers, o \in OrderIds :
          Rereading(g, o)' => Rereading(g, o) \/ o = call[h].id
    BY <1>22 DEF Invalidate, Goto
  <2>3. excused \subseteq excused'
    BY <1>22 DEF Invalidate
  <2> QED
    BY <1>22, <2>1, <2>2, <2>3, AbsentStatus DEF Invalidate
<1>23. ASSUME NEW h \in Handlers, CancelDone(h) PROVE Settled'
  BY <1>23 DEF CancelDone, Answer, Goto, Order
<1>24. ASSUME NEW h \in Handlers, ErrorReturn(h) PROVE Settled'
  BY <1>24 DEF ErrorReturn, Answer, Goto
<1>25. ASSUME NEW h \in Handlers, Crash(h) PROVE Settled'
  BY <1>25 DEF Crash, Answer, Goto
<1>26. ASSUME NEW o \in OrderIds, Expire(o) PROVE Settled'
  BY <1>26, AbsentStatus DEF Expire
<1>27. CASE UNCHANGED vars
  BY <1>27 DEF vars
<1> QED
  BY <1>1, <1>2, <1>3, <1>4, <1>5, <1>6, <1>7, <1>8, <1>9, <1>10, <1>11, <1>12, <1>13, <1>14,
     <1>15, <1>16, <1>17, <1>18, <1>19, <1>20, <1>21, <1>22, <1>23, <1>24, <1>25, <1>26, <1>27
  DEF Next, HandlerStep

(* Every step keeps ReadYourCancel. *)
LEMMA NextReadYourCancel ==
  ASSUME TypeInv, UuidInv, CacheSound, CancelInv, ReadYourCancel, [Next]_vars
  PROVE  ReadYourCancel'
<1> USE DEF TypeInv, TypeOK, ControlOK, ReadYourCancel
<1>1. ASSUME NEW u \in Users, CreateUser(u) PROVE ReadYourCancel'
  BY <1>1 DEF CreateUser
<1>2. ASSUME NEW u \in Users, DeleteUser(u) PROVE ReadYourCancel'
  BY <1>2 DEF DeleteUser
<1>3. ASSUME NEW h \in Handlers, NEW op \in Ops, InvalidRequest(h, op) PROVE ReadYourCancel'
  BY <1>3 DEF InvalidRequest, Answer, Goto, Call
<1>4. ASSUME NEW h \in Handlers, NEW u \in Users, NEW n \in 1..MaxItems, CreateOrder(h, u, n)
       PROVE  ReadYourCancel'
  BY <1>4 DEF CreateOrder, Request, Goto, Call
<1>5. ASSUME NEW h \in Handlers, NEW o \in OrderIds, GetOrder(h, o) PROVE ReadYourCancel'
  BY <1>5 DEF GetOrder, Request, NoResp
<1>6. ASSUME NEW h \in Handlers, NEW o \in OrderIds, CancelOrder(h, o) PROVE ReadYourCancel'
  BY <1>6 DEF CancelOrder, Request, Goto, Call
<1>7. ASSUME NEW h \in Handlers, UserFound(h) PROVE ReadYourCancel'
  BY <1>7 DEF UserFound, Goto
<1>8. ASSUME NEW h \in Handlers, UserMissing(h) PROVE ReadYourCancel'
  BY <1>8 DEF UserMissing, Answer, Goto
<1>9. ASSUME NEW h \in Handlers, BeginTx(h) PROVE ReadYourCancel'
  BY <1>9 DEF BeginTx, Goto
<1>10. ASSUME NEW h \in Handlers, InsertOrder(h) PROVE ReadYourCancel'
  BY <1>10 DEF InsertOrder, Goto, Call, Order
<1>11. ASSUME NEW h \in Handlers, InsertItem(h) PROVE ReadYourCancel'
  BY <1>11 DEF InsertItem, Order
<1>12. ASSUME NEW h \in Handlers, CommitTx(h) PROVE ReadYourCancel'
  BY <1>12 DEF CommitTx, AllInserted, Committed, Answer, Goto
<1>13. ASSUME NEW h \in Handlers, CommitLost(h) PROVE ReadYourCancel'
  BY <1>13 DEF CommitLost, AllInserted, Committed, Answer, Goto
<1>14. ASSUME NEW h \in Handlers, CacheHit(h) PROVE ReadYourCancel'
  <2>1. ASSUME call[h].after, call[h].id \notin excused
        PROVE  cache[call[h].id].status = "CANCELLED"
    <3>1. call[h].id \in OrderIds /\ CopyOf(cache[call[h].id], call[h].id)
      BY <1>14 DEF CacheHit, CacheSound
    <3>2. call[h].id \in acked /\ db[call[h].id].status = "CANCELLED"
      BY <2>1 DEF CancelInv, AfterAcked, CancelApplied
    <3>3. cache[call[h].id].status # "PENDING"
      BY <2>1, <3>1, <3>2 DEF CancelInv, Settled
    <3> QED
      BY <3>1, <3>2, <3>3 DEF CopyOf
  <2> QED
    BY <1>14, <2>1 DEF CacheHit, Answer
<1>15. ASSUME NEW h \in Handlers, CacheMiss(h) PROVE ReadYourCancel'
  BY <1>15 DEF CacheMiss, Goto
<1>16. ASSUME NEW h \in Handlers, SelectRow(h) PROVE ReadYourCancel'
  BY <1>16 DEF SelectRow, Goto, Order
<1>17. ASSUME NEW h \in Handlers, NoRows(h) PROVE ReadYourCancel'
  BY <1>17 DEF NoRows, Answer, Goto
<1>18. ASSUME NEW h \in Handlers, SelectItems(h) PROVE ReadYourCancel'
  BY <1>18 DEF SelectItems, Goto, Order
<1>19. ASSUME NEW h \in Handlers, CacheSet(h) PROVE ReadYourCancel'
  <2>1. ASSUME call[h].after, call[h].id \notin excused
        PROVE  order[h].status = "CANCELLED"
    <3>1. call[h].id \in OrderIds /\ Reading(h, call[h].id)
      BY <1>19 DEF CacheSet, Reading
    <3>2. CopyOf(order[h], call[h].id)
      BY <3>1 DEF CacheSound
    <3>3. db[call[h].id].status = "CANCELLED"
      BY <2>1 DEF CancelInv, AfterAcked, CancelApplied
    <3>4. order[h].status # "PENDING"
      BY <2>1, <3>1, <3>3 DEF CancelInv, StaleExcused
    <3> QED
      BY <3>2, <3>3, <3>4 DEF CopyOf
  <2> QED
    BY <1>19, <2>1 DEF CacheSet, Answer
<1>20. ASSUME NEW h \in Handlers, UpdateStatus(h) PROVE ReadYourCancel'
  BY <1>20 DEF UpdateStatus, Cancelled, Order, Raced, Goto
<1>21. ASSUME NEW h \in Handlers, UpdateLost(h) PROVE ReadYourCancel'
  BY <1>21 DEF UpdateLost, Cancelled, Order, Answer, Goto
<1>22. ASSUME NEW h \in Handlers, Invalidate(h) PROVE ReadYourCancel'
  BY <1>22 DEF Invalidate, Goto
<1>23. ASSUME NEW h \in Handlers, CancelDone(h) PROVE ReadYourCancel'
  BY <1>23 DEF CancelDone, Answer, Goto, Order
<1>24. ASSUME NEW h \in Handlers, ErrorReturn(h) PROVE ReadYourCancel'
  BY <1>24 DEF ErrorReturn, Answer, Goto
<1>25. ASSUME NEW h \in Handlers, Crash(h) PROVE ReadYourCancel'
  BY <1>25 DEF Crash, Answer, Goto
<1>26. ASSUME NEW o \in OrderIds, Expire(o) PROVE ReadYourCancel'
  BY <1>26 DEF Expire
<1>27. CASE UNCHANGED vars
  BY <1>27 DEF vars
<1> QED
  BY <1>1, <1>2, <1>3, <1>4, <1>5, <1>6, <1>7, <1>8, <1>9, <1>10, <1>11, <1>12, <1>13, <1>14,
     <1>15, <1>16, <1>17, <1>18, <1>19, <1>20, <1>21, <1>22, <1>23, <1>24, <1>25, <1>26, <1>27
  DEF Next, HandlerStep

--------------------------------------------------------------------------------
(***************************************************************************)
(* The inductive invariant of the service.  CacheSound and StaleExcused    *)
(* say what the cache and the readers hold; UuidInv is needed because a    *)
(* commit must not overwrite a row anyone has read; CancelApplied, Settled *)
(* and AfterAcked carry the acknowledgement of a Cancel to later readers.  *)
(***************************************************************************)
IndInv == TypeInv /\ UuidInv /\ CacheSound /\ UserInv /\ CancelInv /\ StoredInv

(* The inductive invariant holds before anything has happened. *)
LEMMA InitIndInv == Init => IndInv
<1> SUFFICES ASSUME Init PROVE IndInv
  OBVIOUS
<1>1. TypeInv
  BY InitTypeInv
<1>2. UuidInv
  BY DEF Init, UuidInv, Creating, Absent, Order
<1>3. CacheSound /\ UserInv /\ StoredInv
  BY DEF Init, CacheSound, Reading, UserInv, OrderUserExisted, StoredInv, StoredComplete
<1>4. CancelApplied /\ AfterAcked
  BY DEF Init, CancelApplied, AfterAcked, Rereading, NoCall, Call
<1>5. Settled /\ StaleExcused
  BY AbsentStatus DEF Init, Settled, Rereading, StaleExcused, Reading
<1>6. ReadYourCancel
  BY DEF Init, ReadYourCancel, NoResp
<1> QED
  BY <1>1, <1>2, <1>3, <1>4, <1>5, <1>6 DEF IndInv, CancelInv

(* Every action, and stuttering, keeps the inductive invariant. *)
LEMMA NextIndInv == IndInv /\ [Next]_vars => IndInv'
<1> SUFFICES ASSUME IndInv, [Next]_vars PROVE IndInv'
  OBVIOUS
<1> USE DEF IndInv, CancelInv
<1>1. TypeInv'
  BY NextTypeInv
<1>2. UuidInv'
  BY NextUuidInv
<1>3. CacheSound'
  BY NextCacheSound
<1>4. UserInv'
  BY NextUserInv
<1>5. CancelApplied' /\ AfterAcked'
  BY NextCancelApplied, NextAfterAcked
<1>6. StaleExcused'
  BY NextStaleExcused
<1>7. Settled'
  BY NextSettled
<1>8. ReadYourCancel'
  BY NextReadYourCancel
<1>9. StoredInv'
  BY NextStoredInv
<1> QED
  BY <1>1, <1>2, <1>3, <1>4, <1>5, <1>6, <1>7, <1>8, <1>9

(* The inductive invariant holds in every state of the service. *)
LEMMA Invariance == Spec => []IndInv
BY InitIndInv, NextIndInv, PTL DEF Spec

(***************************************************************************)
(* For any number of handlers, orders and faults: what Redis holds, and    *)
(* what a reader is about to put there, is a committed order, never ahead  *)
(* of the database.                                                        *)
(***************************************************************************)
THEOREM CacheIsSound == Spec => []CacheSound
<1>1. IndInv => CacheSound
  BY DEF IndInv
<1> QED
  BY Invariance, <1>1, PTL

(***************************************************************************)
(* A cancelled order is cached as PENDING only in the window before its    *)
(* Del, or with one of the listed excuses.                                 *)
(***************************************************************************)
THEOREM StalenessIsExcused == Spec => []StaleExcused
<1>1. IndInv => StaleExcused
  BY DEF IndInv, CancelInv
<1> QED
  BY Invariance, <1>1, PTL

(***************************************************************************)
(* Without an excuse, a GetOrder after an acknowledged CancelOrder answers *)
(* CANCELLED.                                                              *)
(***************************************************************************)
THEOREM CancellationIsRead == Spec => []ReadYourCancel
<1>1. IndInv => ReadYourCancel
  BY DEF IndInv, CancelInv
<1> QED
  BY Invariance, <1>1, PTL

(***************************************************************************)
(* Every stored order belongs to a user that existed when CreateOrder      *)
(* looked it up.                                                           *)
(***************************************************************************)
THEOREM UsersExisted == Spec => []OrderUserExisted
<1>1. IndInv => OrderUserExisted
  BY DEF IndInv, UserInv
<1> QED
  BY Invariance, <1>1, PTL

(***************************************************************************)
(* No failure, lost answer or crash leaves an order with some of its items *)
(* in the database.                                                        *)
(***************************************************************************)
THEOREM OrdersStoredWhole == Spec => []StoredComplete
<1>1. IndInv => StoredComplete
  BY DEF IndInv, StoredInv
<1> QED
  BY Invariance, <1>1, PTL

--------------------------------------------------------------------------------
(***************************************************************************)
(* OrderService implements OrderStore: the database is the store, and the  *)
(* handlers' answers are its replies.                                      *)
(***************************************************************************)

(* The refinement mapping of Store, by name. *)
StatusMap == [o \in OrderIds |-> db[o].status]
ReplyOf(h) == [op |-> call[h].op, id |-> call[h].id,
               code |-> resp[h].code, status |-> resp[h].order.status]
ReplyMap == [h \in Handlers |-> ReplyOf(h)]

(* The step touches the request and the answer of no handler but h. *)
OnlyHandler(h) ==
  \A g \in Handlers : g # h => call'[g] = call[g] /\ resp'[g] = resp[g]

(* The store's replies, in this module's terms. *)
ReplyRecords == [op : Ops, id : OrderIds \cup {NoId}, code : Codes,
                 status : {"NONE", "PENDING", "CANCELLED"}]

(* OrderStore's set of replies, under the refinement mapping. *)
LEMMA SameReplies == Store!Replies = ReplyRecords
BY DEF Store!Replies, Store!Ops, Store!Codes, Store!Statuses, ReplyRecords, Ops, Codes

(* Every answer has the form of a reply. *)
LEMMA ReplyTyped == TypeOK => \A h \in Handlers : ReplyOf(h) \in ReplyRecords
<1> SUFFICES ASSUME TypeOK, NEW h \in Handlers PROVE ReplyOf(h) \in ReplyRecords
  OBVIOUS
<1>1. call[h].op \in Ops /\ call[h].id \in OrderIds \cup {NoId}
  BY CallTyped DEF TypeOK
<1>2. resp[h].code \in Codes /\ resp[h].order \in Orders
  BY DEF TypeOK
<1>3. resp[h].order.status \in {"NONE", "PENDING", "CANCELLED"}
  BY <1>2, OrderTyped
<1> QED
  BY <1>1, <1>2, <1>3 DEF ReplyOf, ReplyRecords

(* An empty database without answers is an empty store. *)
LEMMA StoreInit == Init => Store!Init
<1> SUFFICES ASSUME Init PROVE Store!Init
  OBVIOUS
<1>1. StatusMap = [o \in OrderIds |-> "NONE"]
  BY AbsentStatus DEF StatusMap, Init
<1>2. \A h \in Handlers : ReplyOf(h) \in {r \in Store!Replies : r.code = "none"}
  BY InitTypeInv, ReplyTyped, SameReplies DEF Init, NoResp, ReplyOf, TypeInv
<1>3. ReplyMap \in [Handlers -> {r \in Store!Replies : r.code = "none"}]
  BY <1>2 DEF ReplyMap
<1> QED
  BY <1>1, <1>3 DEF Store!Init, StatusMap, ReplyMap, ReplyOf

(***************************************************************************)
(* A step of handler h is a step of the store when its effect on the rows  *)
(* is one of the store's and its new answer is truthful.                   *)
(***************************************************************************)
LEMMA StoreStep ==
  ASSUME TypeOK, TypeOK', NEW h \in Handlers, OnlyHandler(h),
         \/ UNCHANGED StatusMap
         \/ \E o \in OrderIds : Store!Create(o) \/ Store!Cancel(o),
         NEW r, r = ReplyOf(h)',
         r.id \in OrderIds => Store!Claims(r, db'[r.id].status)
  PROVE  Store!Next
<1>1. r \in Store!Replies
  <2>1. call'[h].op \in Ops /\ call'[h].id \in OrderIds \cup {NoId}
    BY CallTyped DEF TypeOK
  <2>2. resp'[h].code \in Codes /\ resp'[h].order \in Orders
    BY DEF TypeOK
  <2>3. resp'[h].order.status \in {"NONE", "PENDING", "CANCELLED"}
    BY <2>2, OrderTyped
  <2> QED
    BY <2>1, <2>2, <2>3, SameReplies DEF ReplyOf, ReplyRecords
<1>2. ReplyMap' = [ReplyMap EXCEPT ![h] = r]
  BY DEF ReplyMap, ReplyOf, OnlyHandler
<1>3. Store!Truthful(r)
  BY DEF Store!Truthful
<1>4. Store!Answer(h)
  BY <1>1, <1>2, <1>3 DEF Store!Answer, ReplyMap, ReplyOf
<1> QED
  BY <1>4 DEF Store!Next, StatusMap

(* Steps that change neither rows nor requests nor answers are stutters. *)
LEMMA StoreStutter ==
  ASSUME UNCHANGED <<db, call, resp>>
  PROVE  UNCHANGED <<StatusMap, ReplyMap>>
BY DEF StatusMap, ReplyMap, ReplyOf

(* An error, or no answer yet, claims nothing about any order. *)
LEMMA ClaimsNothing ==
  ASSUME NEW r, NEW s, r.code \notin {"OK", "NotFound"}
  PROVE  Store!Claims(r, s)
BY DEF Store!Claims

(* The effects of a commit and of Cancel's UPDATE are effects of the store. *)
LEMMA CommitIsCreate ==
  ASSUME TypeInv, UuidInv, NEW h \in Handlers, AllInserted(h), db' = Committed(h)
  PROVE  \E o \in OrderIds : Store!Create(o)
<1>1. StatusMap' = [StatusMap EXCEPT ![call[h].id] = "PENDING"]
  <2>1. /\ \A o \in OrderIds : o # call[h].id => db'[o].status = db[o].status
        /\ db'[call[h].id].status = "PENDING"
    BY CommittedRows
  <2> QED
    BY <2>1 DEF StatusMap
<1>2. call[h].id \in OrderIds /\ StatusMap[call[h].id] = "NONE"
  BY CommittedRows, AbsentStatus DEF StatusMap
<1> QED
  BY <1>1, <1>2 DEF Store!Create, StatusMap

(* The UPDATE of a cancellation, acknowledged or lost, is the store's Cancel. *)
LEMMA UpdateIsCancel ==
  ASSUME TypeInv, UuidInv, NEW c \in OrderIds, db[c] # Absent, db' = Cancelled(c)
  PROVE  Store!Cancel(c)
<1>1. StatusMap' = [StatusMap EXCEPT ![c] = "CANCELLED"]
  BY CancelledRows DEF StatusMap
<1>2. StatusMap[c] # "NONE"
  BY DEF StatusMap, UuidInv
<1> QED
  BY <1>1, <1>2 DEF Store!Cancel, StatusMap

(* Every step of the service is a step of the store, or a stutter. *)
LEMMA StoreNext ==
  ASSUME IndInv, TypeOK', [Next]_vars
  PROVE  Store!Next \/ UNCHANGED <<StatusMap, ReplyMap>>
<1>0. TypeInv /\ TypeOK /\ ControlOK /\ UuidInv /\ CacheSound /\ CancelApplied
  BY DEF IndInv, TypeInv, CancelInv
<1>1. ASSUME NEW u \in Users, CreateUser(u) \/ DeleteUser(u)
      PROVE  Store!Next \/ UNCHANGED <<StatusMap, ReplyMap>>
  BY <1>1, StoreStutter DEF CreateUser, DeleteUser
<1>2. ASSUME NEW o \in OrderIds, Expire(o)
      PROVE  Store!Next \/ UNCHANGED <<StatusMap, ReplyMap>>
  BY <1>2, StoreStutter DEF Expire
<1>3. ASSUME NEW h \in Handlers, UserFound(h)
      PROVE  Store!Next \/ UNCHANGED <<StatusMap, ReplyMap>>
  BY <1>3, StoreStutter DEF UserFound
<1>4. ASSUME NEW h \in Handlers, BeginTx(h)
      PROVE  Store!Next \/ UNCHANGED <<StatusMap, ReplyMap>>
  BY <1>4, StoreStutter DEF BeginTx
<1>5. ASSUME NEW h \in Handlers, InsertItem(h)
      PROVE  Store!Next \/ UNCHANGED <<StatusMap, ReplyMap>>
  BY <1>5, StoreStutter DEF InsertItem
<1>6. ASSUME NEW h \in Handlers, CacheMiss(h)
      PROVE  Store!Next \/ UNCHANGED <<StatusMap, ReplyMap>>
  BY <1>6, StoreStutter DEF CacheMiss
<1>7. ASSUME NEW h \in Handlers, SelectRow(h)
      PROVE  Store!Next \/ UNCHANGED <<StatusMap, ReplyMap>>
  BY <1>7, StoreStutter DEF SelectRow
<1>8. ASSUME NEW h \in Handlers, SelectItems(h)
      PROVE  Store!Next \/ UNCHANGED <<StatusMap, ReplyMap>>
  BY <1>8, StoreStutter DEF SelectItems
<1>9. ASSUME NEW h \in Handlers, Invalidate(h)
      PROVE  Store!Next \/ UNCHANGED <<StatusMap, ReplyMap>>
  BY <1>9, StoreStutter DEF Invalidate
<1>10. ASSUME NEW h \in Handlers, NEW op \in Ops, InvalidRequest(h, op)
      PROVE  Store!Next \/ UNCHANGED <<StatusMap, ReplyMap>>
  <2> PICK r : r = ReplyOf(h)'
    OBVIOUS
  <2>1. OnlyHandler(h) /\ UNCHANGED StatusMap
    BY <1>0, <1>10 DEF InvalidRequest, Answer, StatusMap, OnlyHandler, TypeOK
  <2>2. r.code \notin {"OK", "NotFound"}
    BY <1>0, <1>10 DEF InvalidRequest, Answer, ReplyOf, TypeOK
  <2> QED
    BY <1>0, <2>1, <2>2, StoreStep, ClaimsNothing
<1>11. ASSUME NEW h \in Handlers, NEW u \in Users, NEW n \in 1..MaxItems, CreateOrder(h, u, n)
      PROVE  Store!Next \/ UNCHANGED <<StatusMap, ReplyMap>>
  <2> PICK r : r = ReplyOf(h)'
    OBVIOUS
  <2>1. OnlyHandler(h) /\ UNCHANGED StatusMap
    BY <1>0, <1>11 DEF CreateOrder, Request, NoResp, StatusMap, OnlyHandler, TypeOK
  <2>2. r.code \notin {"OK", "NotFound"}
    BY <1>0, <1>11 DEF CreateOrder, Request, NoResp, ReplyOf, TypeOK
  <2> QED
    BY <1>0, <2>1, <2>2, StoreStep, ClaimsNothing
<1>12. ASSUME NEW h \in Handlers, NEW o \in OrderIds, GetOrder(h, o)
      PROVE  Store!Next \/ UNCHANGED <<StatusMap, ReplyMap>>
  <2> PICK r : r = ReplyOf(h)'
    OBVIOUS
  <2>1. OnlyHandler(h) /\ UNCHANGED StatusMap
    BY <1>0, <1>12 DEF GetOrder, Request, NoResp, StatusMap, OnlyHandler, TypeOK
  <2>2. r.code \notin {"OK", "NotFound"}
    BY <1>0, <1>12 DEF GetOrder, Request, NoResp, ReplyOf, TypeOK
  <2> QED
    BY <1>0, <2>1, <2>2, StoreStep, ClaimsNothing
<1>13. ASSUME NEW h \in Handlers, NEW o \in OrderIds, CancelOrder(h, o)
      PROVE  Store!Next \/ UNCHANGED <<StatusMap, ReplyMap>>
  <2> PICK r : r = ReplyOf(h)'
    OBVIOUS
  <2>1. OnlyHandler(h) /\ UNCHANGED StatusMap
    BY <1>0, <1>13 DEF CancelOrder, Request, NoResp, StatusMap, OnlyHandler, TypeOK
  <2>2. r.code \notin {"OK", "NotFound"}
    BY <1>0, <1>13 DEF CancelOrder, Request, NoResp, ReplyOf, TypeOK
  <2> QED
    BY <1>0, <2>1, <2>2, StoreStep, ClaimsNothing
<1>14. ASSUME NEW h \in Handlers, InsertOrder(h)
      PROVE  Store!Next \/ UNCHANGED <<StatusMap, ReplyMap>>
  <2> PICK r : r = ReplyOf(h)'
    OBVIOUS
  <2>1. OnlyHandler(h) /\ UNCHANGED StatusMap
    BY <1>0, <1>14 DEF InsertOrder, StatusMap, OnlyHandler, TypeOK
  <2>2. r.code \notin {"OK", "NotFound"}
    BY <1>0, <1>14 DEF InsertOrder, ReplyOf, TypeOK, ControlOK
  <2> QED
    BY <1>0, <2>1, <2>2, StoreStep, ClaimsNothing
<1>15. ASSUME NEW h \in Handlers, ErrorReturn(h)
      PROVE  Store!Next \/ UNCHANGED <<StatusMap, ReplyMap>>
  <2> PICK r : r = ReplyOf(h)'
    OBVIOUS
  <2>1. OnlyHandler(h) /\ UNCHANGED StatusMap
    BY <1>0, <1>15 DEF ErrorReturn, Answer, StatusMap, OnlyHandler, TypeOK
  <2>2. r.code \notin {"OK", "NotFound"}
    BY <1>0, <1>15 DEF ErrorReturn, Answer, ReplyOf, TypeOK
  <2> QED
    BY <1>0, <2>1, <2>2, StoreStep, ClaimsNothing
<1>16. ASSUME NEW h \in Handlers, Crash(h)
      PROVE  Store!Next \/ UNCHANGED <<StatusMap, ReplyMap>>
  <2> PICK r : r = ReplyOf(h)'
    OBVIOUS
  <2>1. OnlyHandler(h) /\ UNCHANGED StatusMap
    BY <1>0, <1>16 DEF Crash, Answer, StatusMap, OnlyHandler, TypeOK
  <2>2. r.code \notin {"OK", "NotFound"}
    BY <1>0, <1>16 DEF Crash, Answer, ReplyOf, TypeOK
  <2> QED
    BY <1>0, <2>1, <2>2, StoreStep, ClaimsNothing
<1>17. ASSUME NEW h \in Handlers, UserMissing(h)
      PROVE  Store!Next \/ UNCHANGED <<StatusMap, ReplyMap>>
  <2> PICK r : r = ReplyOf(h)'
    OBVIOUS
  <2>1. OnlyHandler(h) /\ UNCHANGED StatusMap
    BY <1>0, <1>17 DEF UserMissing, Answer, StatusMap, OnlyHandler, TypeOK
  <2>2. r.code = "NotFound" /\ r.op = "Create"
    BY <1>0, <1>17 DEF UserMissing, Answer, ReplyOf, TypeOK, ControlOK
  <2>3. \A s : Store!Claims(r, s)
    BY <2>2 DEF Store!Claims
  <2> QED
    BY <1>0, <2>1, <2>3, StoreStep
<1>18. ASSUME NEW h \in Handlers, UpdateStatus(h)
      PROVE  Store!Next \/ UNCHANGED <<StatusMap, ReplyMap>>
  <2>1. call[h].id \in OrderIds /\ db[call[h].id] # Absent /\ db' = Cancelled(call[h].id)
    BY <1>0, <1>18 DEF UpdateStatus, ControlOK
  <2>2. \E o \in OrderIds : Store!Create(o) \/ Store!Cancel(o)
    BY <1>0, <2>1, UpdateIsCancel
  <2>3. UNCHANGED ReplyMap
    BY <1>18 DEF UpdateStatus, ReplyMap, ReplyOf
  <2> QED
    BY <2>2, <2>3 DEF Store!Next, ReplyMap, ReplyOf
<1>19. ASSUME NEW h \in Handlers, CommitLost(h)
      PROVE  Store!Next \/ UNCHANGED <<StatusMap, ReplyMap>>
  <2> PICK r : r = ReplyOf(h)'
    OBVIOUS
  <2>1. AllInserted(h) /\ db' = Committed(h)
    BY <1>0, <1>19 DEF CommitLost, ControlOK
  <2>2. \E o \in OrderIds : Store!Create(o) \/ Store!Cancel(o)
    BY <1>0, <2>1, CommitIsCreate
  <2>3. OnlyHandler(h)
    BY <1>0, <1>19 DEF CommitLost, Answer, OnlyHandler, TypeOK
  <2>4. r.code \notin {"OK", "NotFound"}
    BY <1>0, <1>19 DEF CommitLost, Answer, ReplyOf, TypeOK
  <2> QED
    BY <1>0, <2>2, <2>3, <2>4, StoreStep, ClaimsNothing
<1>20. ASSUME NEW h \in Handlers, UpdateLost(h)
      PROVE  Store!Next \/ UNCHANGED <<StatusMap, ReplyMap>>
  <2> PICK r : r = ReplyOf(h)'
    OBVIOUS
  <2>1. call[h].id \in OrderIds /\ db[call[h].id] # Absent /\ db' = Cancelled(call[h].id)
    BY <1>0, <1>20 DEF UpdateLost, ControlOK
  <2>2. \E o \in OrderIds : Store!Create(o) \/ Store!Cancel(o)
    BY <1>0, <2>1, UpdateIsCancel
  <2>3. OnlyHandler(h)
    BY <1>0, <1>20 DEF UpdateLost, Answer, OnlyHandler, TypeOK
  <2>4. r.code \notin {"OK", "NotFound"}
    BY <1>0, <1>20 DEF UpdateLost, Answer, ReplyOf, TypeOK
  <2> QED
    BY <1>0, <2>2, <2>3, <2>4, StoreStep, ClaimsNothing
<1>21. ASSUME NEW h \in Handlers, CommitTx(h)
      PROVE  Store!Next \/ UNCHANGED <<StatusMap, ReplyMap>>
  <2> PICK r : r = ReplyOf(h)'
    OBVIOUS
  <2>1. AllInserted(h) /\ db' = Committed(h)
    BY <1>0, <1>21 DEF CommitTx, ControlOK
  <2>2. \E o \in OrderIds : Store!Create(o) \/ Store!Cancel(o)
    BY <1>0, <2>1, CommitIsCreate
  <2>3. OnlyHandler(h)
    BY <1>0, <1>21 DEF CommitTx, Answer, OnlyHandler, TypeOK
  <2>4. r.code = "OK" /\ r.op = "Create" /\ r.id = call[h].id /\ r.status = "PENDING"
    BY <1>0, <1>21 DEF CommitTx, AllInserted, Answer, ReplyOf, Order, TypeOK, ControlOK
  <2>5. db'[r.id].status = "PENDING"
    BY <1>0, <2>1, <2>4, CommittedRows
  <2>6. Store!Claims(r, db'[r.id].status)
    BY <2>4, <2>5 DEF Store!Claims
  <2> QED
    BY <1>0, <2>2, <2>3, <2>6, StoreStep
<1>22. ASSUME NEW h \in Handlers, CacheHit(h)
      PROVE  Store!Next \/ UNCHANGED <<StatusMap, ReplyMap>>
  <2> PICK r : r = ReplyOf(h)'
    OBVIOUS
  <2>1. OnlyHandler(h) /\ UNCHANGED <<StatusMap, db>>
    BY <1>0, <1>22 DEF CacheHit, Answer, StatusMap, OnlyHandler, TypeOK
  <2>2. r.code = "OK" /\ r.op = "Get" /\ r.id = call[h].id
    BY <1>0, <1>22 DEF CacheHit, Answer, ReplyOf, TypeOK, ControlOK
  <2>3. r.status = cache[call[h].id].status
    BY <1>0, <1>22 DEF CacheHit, Answer, ReplyOf, TypeOK
  <2>4. /\ cache[call[h].id].status \in {"PENDING", db[call[h].id].status}
        /\ db[call[h].id].status \in {"PENDING", "CANCELLED"}
    <3>1. call[h].id \in OrderIds
      BY <1>0, <1>22 DEF CacheHit, ControlOK
    <3>2. CopyOf(cache[call[h].id], call[h].id)
      BY <1>0, <1>22, <3>1 DEF CacheHit, CacheSound
    <3>3. db[call[h].id].status # "NONE"
      BY <1>0, <3>1, <3>2 DEF CopyOf, UuidInv
    <3>4. db[call[h].id].status \in {"NONE", "PENDING", "CANCELLED"}
      BY <1>0, <3>1, OrderTyped DEF TypeOK
    <3> QED
      BY <3>2, <3>3, <3>4 DEF CopyOf
  <2>5. Store!Claims(r, db'[r.id].status)
    BY <2>1, <2>2, <2>3, <2>4 DEF Store!Claims
  <2> QED
    BY <1>0, <2>1, <2>5, StoreStep
<1>23. ASSUME NEW h \in Handlers, CacheSet(h)
      PROVE  Store!Next \/ UNCHANGED <<StatusMap, ReplyMap>>
  <2> PICK r : r = ReplyOf(h)'
    OBVIOUS
  <2>1. OnlyHandler(h) /\ UNCHANGED <<StatusMap, db>>
    BY <1>0, <1>23 DEF CacheSet, Answer, StatusMap, OnlyHandler, TypeOK
  <2>2. r.code = "OK" /\ r.op = "Get" /\ r.id = call[h].id
    BY <1>0, <1>23 DEF CacheSet, Answer, ReplyOf, TypeOK, ControlOK
  <2>3. r.status = order[h].status
    BY <1>0, <1>23 DEF CacheSet, Answer, ReplyOf, TypeOK
  <2>4. /\ order[h].status \in {"PENDING", db[call[h].id].status}
        /\ db[call[h].id].status \in {"PENDING", "CANCELLED"}
    <3>1. call[h].id \in OrderIds
      BY <1>0, <1>23 DEF CacheSet, ControlOK
    <3>2. CopyOf(order[h], call[h].id)
      BY <1>0, <1>23, <3>1 DEF CacheSet, CacheSound, Reading
    <3>3. db[call[h].id].status # "NONE"
      BY <1>0, <3>1, <3>2 DEF CopyOf, UuidInv
    <3>4. db[call[h].id].status \in {"NONE", "PENDING", "CANCELLED"}
      BY <1>0, <3>1, OrderTyped DEF TypeOK
    <3> QED
      BY <3>2, <3>3, <3>4 DEF CopyOf
  <2>5. Store!Claims(r, db'[r.id].status)
    BY <2>1, <2>2, <2>3, <2>4 DEF Store!Claims
  <2> QED
    BY <1>0, <2>1, <2>5, StoreStep
<1>24. ASSUME NEW h \in Handlers, NoRows(h)
      PROVE  Store!Next \/ UNCHANGED <<StatusMap, ReplyMap>>
  <2> PICK r : r = ReplyOf(h)'
    OBVIOUS
  <2>1. OnlyHandler(h) /\ UNCHANGED <<StatusMap, db>>
    BY <1>0, <1>24 DEF NoRows, Answer, StatusMap, OnlyHandler, TypeOK
  <2>2. r.code = "NotFound" /\ r.op # "Create" /\ r.id = call[h].id
    BY <1>0, <1>24 DEF NoRows, Answer, ReplyOf, TypeOK, ControlOK
  <2>3. r.status = "NONE"
    BY <1>0, <1>24 DEF NoRows, Answer, ReplyOf, TypeOK, Absent, Order
  <2>4. db[call[h].id].status = "NONE"
    BY <1>24, AbsentStatus DEF NoRows
  <2>5. Store!Claims(r, db'[r.id].status)
    BY <2>1, <2>2, <2>3, <2>4 DEF Store!Claims
  <2> QED
    BY <1>0, <2>1, <2>5, StoreStep
<1>25. ASSUME NEW h \in Handlers, CancelDone(h)
      PROVE  Store!Next \/ UNCHANGED <<StatusMap, ReplyMap>>
  <2> PICK r : r = ReplyOf(h)'
    OBVIOUS
  <2>1. OnlyHandler(h) /\ UNCHANGED <<StatusMap, db>>
    BY <1>0, <1>25 DEF CancelDone, Answer, StatusMap, OnlyHandler, TypeOK
  <2>2. r.code = "OK" /\ r.op = "Cancel" /\ r.id = call[h].id
    BY <1>0, <1>25 DEF CancelDone, Answer, ReplyOf, TypeOK, ControlOK
  <2>3. r.status = order[h].status
    BY <1>0, <1>25 DEF CancelDone, Answer, ReplyOf, TypeOK, Order
  <2>4. order[h].status = "CANCELLED" /\ db[call[h].id].status = "CANCELLED"
    BY <1>0, <1>25 DEF CancelDone, ControlOK, CancelApplied, Rereading
  <2>5. Store!Claims(r, db'[r.id].status)
    BY <2>1, <2>2, <2>3, <2>4 DEF Store!Claims
  <2> QED
    BY <1>0, <2>1, <2>5, StoreStep
<1>26. CASE UNCHANGED vars
  BY <1>26, StoreStutter DEF vars
<1> QED
  BY <1>1, <1>2, <1>3, <1>4, <1>5, <1>6, <1>7, <1>8, <1>9, <1>10, <1>11, <1>12, <1>13,
     <1>14, <1>15, <1>16, <1>17, <1>18, <1>19, <1>20, <1>21, <1>22, <1>23, <1>24, <1>25, <1>26
  DEF Next, HandlerStep

(***************************************************************************)
(* The order service, with its cache, transactions, crashes and failing    *)
(* calls, implements OrderStore.                                           *)
(***************************************************************************)
THEOREM ServiceImplementsStore == Spec => ImplementsStore
<1>1. IndInv /\ IndInv' /\ [Next]_vars => [Store!Next]_<<StatusMap, ReplyMap>>
  BY StoreNext DEF IndInv, TypeInv
<1> QED
  BY StoreInit, Invariance, <1>1, PTL
  DEF Spec, ImplementsStore, Store!Spec, StatusMap, ReplyMap, ReplyOf
================================================================================
