----------------------------- MODULE OrderService -----------------------------
(***************************************************************************)
(* The order service (services/order-service): the CreateOrder, GetOrder   *)
(* and CancelOrder handlers, with the repository and the cache-aside Redis *)
(* cache they use.  Every handler is a goroutine of some replica; all      *)
(* replicas share PostgreSQL (db) and Redis (cache).  One action is one    *)
(* call to a dependency: between two of them the other handlers run.       *)
(*                                                                         *)
(* A call fails (Faults) because its dependency is down, because its       *)
(* timeout expires, or because the caller went away and its context, which *)
(* every call is given, was cancelled.  A crash kills the replica.         *)
(***************************************************************************)
EXTENDS Naturals, FiniteSets

CONSTANTS Handlers,   \* handler goroutines, of any replica
          OrderIds,   \* the uuids Create may draw
          NoId,       \* "no uuid drawn yet"
          Users,      \* the uuids the user service may give out
          NoUser,
          MaxItems,   \* bound on the items of one request
          Faults      \* what can fail: a subset of AllFaults

AllFaults == {"db", "redis", "rpc", "crash"}

ASSUME ConstantsAssumption ==
  /\ NoId \notin OrderIds
  /\ NoUser \notin Users
  /\ MaxItems \in Nat \ {0}
  /\ Faults \subseteq AllFaults

VARIABLES
  users,      \* the user service's rows
  everUsers,  \* history: the users that ever existed
  issued,     \* history: items in the request that drew this uuid, 0 if not drawn
  db,         \* committed orders with their number of order_items rows
  cache,      \* Redis, key order:<id>
  pc,         \* the next call each handler makes
  call,       \* the request each handler serves (kept after its answer)
  order,      \* the order a handler writes in its transaction, or has read
  resp,       \* the answer to the last request
  acked,      \* history: orders whose CancelOrder was answered OK
  excused     \* history: orders cancelled in a way that may leave the cache stale

vars == <<users, everUsers, issued, db, cache, pc, call, order, resp, acked, excused>>

--------------------------------------------------------------------------------
(* Data *)

Orders == [user : Users \cup {NoUser},
           status : {"NONE", "PENDING", "CANCELLED"},
           items : 0..MaxItems]

Order(user, status, items) == [user |-> user, status |-> status, items |-> items]

(* No row, no cache entry, no row read. *)
Absent == Order(NoUser, "NONE", 0)

Ops == {"Create", "Get", "Cancel"}
Codes == {"none", "OK", "InvalidArgument", "NotFound", "Internal", "Unavailable"}
Labels == {"idle", "verify", "begin", "insertOrder", "insertItem",
           "cacheGet", "selectRow", "selectItems", "cacheSet", "update", "invalidate"}

(* after: the order's cancellation had been acknowledged when the request came. *)
Calls == [op : Ops, id : OrderIds \cup {NoId}, user : Users \cup {NoUser},
          items : 0..MaxItems, after : BOOLEAN]

Call(op, id, user, items, after) ==
  [op |-> op, id |-> id, user |-> user, items |-> items, after |-> after]
NoCall == Call("Get", NoId, NoUser, 0, FALSE)
NoResp == [code |-> "none", order |-> Absent]

Init ==
  /\ users = {} /\ everUsers = {}
  /\ issued = [o \in OrderIds |-> 0]
  /\ db = [o \in OrderIds |-> Absent]
  /\ cache = [o \in OrderIds |-> Absent]
  /\ pc = [h \in Handlers |-> "idle"]
  /\ call = [h \in Handlers |-> NoCall]
  /\ order = [h \in Handlers |-> Absent]
  /\ resp = [h \in Handlers |-> NoResp]
  /\ acked = {} /\ excused = {}

--------------------------------------------------------------------------------
(* Control *)

Fails(dependency) == dependency \in Faults

Goto(h, label) == pc' = [pc EXCEPT ![h] = label]

(* The handler returns; what it has read or written so far is dropped. *)
Answer(h, code, ord) ==
  /\ Goto(h, "idle")
  /\ resp' = [resp EXCEPT ![h] = [code |-> code, order |-> ord]]
  /\ order' = [order EXCEPT ![h] = Absent]

Request(h, c, label) ==
  /\ pc[h] = "idle"
  /\ call' = [call EXCEPT ![h] = c]
  /\ resp' = [resp EXCEPT ![h] = NoResp]
  /\ Goto(h, label)

--------------------------------------------------------------------------------
(* The user service's rows, as seen through its GetUser. *)

CreateUser(u) ==
  /\ u \notin everUsers           \* ids are fresh uuids
  /\ users' = users \cup {u}
  /\ everUsers' = everUsers \cup {u}
  /\ UNCHANGED <<issued, db, cache, pc, call, order, resp, acked, excused>>

DeleteUser(u) ==
  /\ u \in users
  /\ users' = users \ {u}
  /\ UNCHANGED <<everUsers, issued, db, cache, pc, call, order, resp, acked, excused>>

--------------------------------------------------------------------------------
(* CreateOrder *)

(* Requests are bounded so that every one that gets to INSERT finds a uuid. *)
UuidLeft ==
  Cardinality({h \in Handlers : pc[h] \in {"verify", "begin", "insertOrder"}})
    < Cardinality({o \in OrderIds : issued[o] = 0})

(* A request any of the handlers refuses before it calls anything. *)
InvalidRequest(h, op) ==
  /\ pc[h] = "idle"
  /\ call' = [call EXCEPT ![h] = Call(op, NoId, NoUser, 0, FALSE)]
  /\ Answer(h, "InvalidArgument", Absent)
  /\ UNCHANGED <<users, everUsers, issued, db, cache, acked, excused>>

CreateOrder(h, u, n) ==
  /\ UuidLeft
  /\ Request(h, Call("Create", NoId, u, n, FALSE), "verify")
  /\ UNCHANGED <<users, everUsers, issued, db, cache, order, acked, excused>>

(* Mutant: the user is not looked up. *)
UserFound_Skipped(h) ==
  /\ pc[h] = "verify"
  /\ Goto(h, "begin")
  /\ UNCHANGED <<users, everUsers, issued, db, cache, call, order, resp, acked, excused>>

UserFound(h) ==
  /\ pc[h] = "verify"
  /\ call[h].user \in users
  /\ Goto(h, "begin")
  /\ UNCHANGED <<users, everUsers, issued, db, cache, call, order, resp, acked, excused>>

UserMissing(h) ==
  /\ pc[h] = "verify"
  /\ call[h].user \notin users
  /\ Answer(h, "NotFound", Absent)
  /\ UNCHANGED <<users, everUsers, issued, db, cache, call, acked, excused>>

BeginTx(h) ==
  /\ pc[h] = "begin"
  /\ Goto(h, "insertOrder")
  /\ UNCHANGED <<users, everUsers, issued, db, cache, call, order, resp, acked, excused>>

(* Mutant: the new order is put in the cache before the transaction commits. *)
InsertOrder_WriteThrough(h) ==
  /\ pc[h] = "insertOrder"
  /\ \E o \in OrderIds :
       /\ issued[o] = 0
       /\ issued' = [issued EXCEPT ![o] = call[h].items]
       /\ call' = [call EXCEPT ![h].id = o]
       /\ order' = [order EXCEPT ![h] = Order(call[h].user, "PENDING", 0)]
       /\ cache' = [cache EXCEPT ![o] = Order(call[h].user, "PENDING", 0)]
  /\ Goto(h, "insertItem")
  /\ UNCHANGED <<users, everUsers, db, resp, acked, excused>>

(* Draws the uuid; order[h] is what the open transaction has written. *)
InsertOrder(h) ==
  /\ pc[h] = "insertOrder"
  /\ \E o \in OrderIds :
       /\ issued[o] = 0
       /\ issued' = [issued EXCEPT ![o] = call[h].items]
       /\ call' = [call EXCEPT ![h] = Call("Create", o, call[h].user, call[h].items, FALSE)]
       /\ order' = [order EXCEPT ![h] = Order(call[h].user, "PENDING", 0)]
  /\ Goto(h, "insertItem")
  /\ UNCHANGED <<users, everUsers, db, cache, resp, acked, excused>>

(* Mutant: the loop runs once more than there are items. *)
InsertItem_OffByOne(h) ==
  /\ pc[h] = "insertItem"
  /\ order[h].items <= call[h].items
  /\ order' = [order EXCEPT ![h].items = @ + 1]
  /\ UNCHANGED <<users, everUsers, issued, db, cache, pc, call, resp, acked, excused>>

InsertItem(h) ==
  /\ pc[h] = "insertItem"
  /\ order[h].items < call[h].items
  /\ order' = [order EXCEPT ![h] = Order(order[h].user, "PENDING", order[h].items + 1)]
  /\ UNCHANGED <<users, everUsers, issued, db, cache, pc, call, resp, acked, excused>>

(* The loop over the items is over: the transaction is ready to commit. *)
AllInserted(h) == pc[h] = "insertItem" /\ order[h].items = call[h].items

Committed(h) == [db EXCEPT ![call[h].id] = order[h]]

(* Mutant: Commit inside the loop over the items. *)
CommitTx_InLoop(h) ==
  /\ pc[h] = "insertItem"
  /\ order[h].items > 0
  /\ db' = Committed(h)
  /\ Answer(h, "OK", order[h])
  /\ UNCHANGED <<users, everUsers, issued, cache, call, acked, excused>>

(* The answer repeats the request's items, not rows read back. *)
CommitTx(h) ==
  /\ AllInserted(h)
  /\ db' = Committed(h)
  /\ Answer(h, "OK", Order(call[h].user, "PENDING", call[h].items))
  /\ UNCHANGED <<users, everUsers, issued, cache, call, acked, excused>>

(* The server commits but its answer is lost: the caller is told Internal. *)
CommitLost(h) ==
  /\ Fails("db")
  /\ AllInserted(h)
  /\ db' = Committed(h)
  /\ Answer(h, "Internal", Absent)
  /\ UNCHANGED <<users, everUsers, issued, cache, call, acked, excused>>

--------------------------------------------------------------------------------
(* GetOrder: cache, then database, then fill the cache *)

GetOrder(h, o) ==
  /\ Request(h, Call("Get", o, NoUser, 0, o \in acked), "cacheGet")
  /\ UNCHANGED <<users, everUsers, issued, db, cache, order, acked, excused>>

(* Mutant: a hit writes the entry back to restart its time to live. *)
CacheHit_Sliding(h) ==
  /\ pc[h] = "cacheGet"
  /\ cache[call[h].id] # Absent
  /\ order' = [order EXCEPT ![h] = cache[call[h].id]]
  /\ Goto(h, "cacheSet")
  /\ UNCHANGED <<users, everUsers, issued, db, cache, call, resp, acked, excused>>

CacheHit(h) ==
  /\ pc[h] = "cacheGet"
  /\ cache[call[h].id] # Absent
  /\ Answer(h, "OK", cache[call[h].id])
  /\ UNCHANGED <<users, everUsers, issued, db, cache, call, acked, excused>>

(* A cache error is treated as a miss. *)
CacheMiss(h) ==
  /\ pc[h] = "cacheGet"
  /\ cache[call[h].id] = Absent \/ Fails("redis")
  /\ Goto(h, "selectRow")
  /\ UNCHANGED <<users, everUsers, issued, db, cache, call, order, resp, acked, excused>>

(* getFromDB, for Get on a miss and for Cancel to read the order back. *)
SelectRow(h) ==
  LET row == db[call[h].id]
  IN
  /\ pc[h] = "selectRow"
  /\ row # Absent
  /\ order' = [order EXCEPT ![h] = Order(row.user, row.status, 0)]
  /\ Goto(h, "selectItems")
  /\ UNCHANGED <<users, everUsers, issued, db, cache, call, resp, acked, excused>>

(* "no rows in result set", from the SELECT or from Cancel's UPDATE. *)
NoRows(h) ==
  /\ pc[h] \in {"selectRow", "update"}
  /\ db[call[h].id] = Absent
  /\ Answer(h, "NotFound", Absent)
  /\ UNCHANGED <<users, everUsers, issued, db, cache, call, acked, excused>>

(***************************************************************************)
(* getItems reads a second snapshot, possibly on another connection.  The  *)
(* rows.Next loop also ends when the connection fails: rows.Err is never   *)
(* looked at, so any prefix of the items is taken for all of them.         *)
(***************************************************************************)
ItemsRead(o) == IF Fails("db") THEN 0..db[o].items ELSE {db[o].items}

SelectItems(h) ==
  /\ pc[h] = "selectItems"
  /\ call[h].op = "Get"
  /\ \E n \in ItemsRead(call[h].id) :
       order' = [order EXCEPT ![h] = Order(order[h].user, order[h].status, n)]
  /\ Goto(h, "cacheSet")
  /\ UNCHANGED <<users, everUsers, issued, db, cache, call, resp, acked, excused>>

(* A failed Set is logged; the caller gets the order all the same. *)
CacheSet(h) ==
  /\ pc[h] = "cacheSet"
  /\ \/ cache' = [cache EXCEPT ![call[h].id] = order[h]]
     \/ Fails("redis") /\ UNCHANGED cache
  /\ Answer(h, "OK", order[h])
  /\ UNCHANGED <<users, everUsers, issued, db, call, acked, excused>>

--------------------------------------------------------------------------------
(* CancelOrder: update, drop the cache entry, read the order back *)

CancelOrder(h, o) ==
  /\ Request(h, Call("Cancel", o, NoUser, 0, FALSE), "update")
  /\ UNCHANGED <<users, everUsers, issued, db, cache, order, acked, excused>>

(* A handler that has read o's row and has not yet stored it in the cache. *)
Reading(h, o) == pc[h] \in {"selectItems", "cacheSet"} /\ call[h].id = o

Cancelled(o) == [db EXCEPT ![o] = Order(db[o].user, "CANCELLED", db[o].items)]

(* {o} if some reader holds o's row, for the history variable excused. *)
Raced(o) == {p \in {o} : \E g \in Handlers : Reading(g, o)}

(* Mutant: Cancel reads the order back without invalidating the cache. *)
UpdateStatus_NoInvalidate(h) ==
  /\ pc[h] = "update"
  /\ db[call[h].id] # Absent
  /\ db' = Cancelled(call[h].id)
  /\ excused' = excused \cup Raced(call[h].id)
  /\ Goto(h, "selectRow")
  /\ UNCHANGED <<users, everUsers, issued, cache, call, order, resp, acked>>

(* The UPDATE has no condition on the status: cancelling twice succeeds. *)
UpdateStatus(h) ==
  /\ pc[h] = "update"
  /\ db[call[h].id] # Absent
  /\ db' = Cancelled(call[h].id)
  /\ excused' = excused \cup Raced(call[h].id)
  /\ Goto(h, "invalidate")
  /\ UNCHANGED <<users, everUsers, issued, cache, call, order, resp, acked>>

(***************************************************************************)
(* The UPDATE is applied but its answer is lost: Cancel returns an error   *)
(* without invalidating the cache.                                         *)
(***************************************************************************)
UpdateLost(h) ==
  /\ Fails("db")
  /\ pc[h] = "update"
  /\ db[call[h].id] # Absent
  /\ db' = Cancelled(call[h].id)
  /\ excused' = excused \cup {call[h].id}
  /\ Answer(h, "Internal", Absent)
  /\ UNCHANGED <<users, everUsers, issued, cache, call, acked>>

(* Mutant: Cancel reads the order back with Get, through the cache. *)
Invalidate_RereadCached(h) ==
  /\ pc[h] = "invalidate"
  /\ cache' = [cache EXCEPT ![call[h].id] = Absent]
  /\ Goto(h, "cacheGet")
  /\ UNCHANGED <<users, everUsers, issued, db, call, order, resp, acked, excused>>

(* Mutant: Invalidate deletes the wrong key. *)
Invalidate_WrongKey(h) ==
  /\ pc[h] = "invalidate"
  /\ Goto(h, "selectRow")
  /\ UNCHANGED <<users, everUsers, issued, db, cache, call, order, resp, acked, excused>>

(* A failed Del is logged and forgotten. *)
Invalidate(h) ==
  /\ pc[h] = "invalidate"
  /\ \/ cache' = [cache EXCEPT ![call[h].id] = Absent] /\ UNCHANGED excused
     \/ /\ Fails("redis")
        /\ UNCHANGED cache
        /\ excused' = excused \cup {call[h].id}
  /\ Goto(h, "selectRow")
  /\ UNCHANGED <<users, everUsers, issued, db, call, order, resp, acked>>

(* Cancel's getItems, and its answer: the order as read back. *)
CancelDone(h) ==
  /\ pc[h] = "selectItems"
  /\ call[h].op = "Cancel"
  /\ \E n \in ItemsRead(call[h].id) :
       Answer(h, "OK", Order(order[h].user, order[h].status, n))
  /\ acked' = acked \cup {call[h].id}
  /\ UNCHANGED <<users, everUsers, issued, db, cache, call, excused>>

--------------------------------------------------------------------------------
(* Failed calls *)

(***************************************************************************)
(* Every other error of the user service or of the database ends the       *)
(* request with Internal; the deferred Rollback ends the transaction.      *)
(***************************************************************************)
ErrorReturn(h) ==
  /\ \/ Fails("rpc") /\ pc[h] = "verify"
     \/ /\ Fails("db")
        /\ pc[h] \in {"begin", "insertOrder", "insertItem", "selectRow", "selectItems", "update"}
  /\ Answer(h, "Internal", Absent)
  /\ UNCHANGED <<users, everUsers, issued, db, cache, call, acked, excused>>

--------------------------------------------------------------------------------
(* The environment of the handlers *)

(* Redis drops an entry when its time to live is over. *)
Expire(o) ==
  /\ cache[o] # Absent
  /\ cache' = [cache EXCEPT ![o] = Absent]
  /\ UNCHANGED <<users, everUsers, issued, db, pc, call, order, resp, acked, excused>>

(***************************************************************************)
(* The replica dies: its connection closes, an open transaction is rolled  *)
(* back, the caller sees the connection break.                             *)
(***************************************************************************)
Crash(h) ==
  /\ "crash" \in Faults
  /\ pc[h] # "idle"
  /\ Answer(h, "Unavailable", Absent)
  /\ excused' = excused \cup {o \in OrderIds : pc[h] = "invalidate" /\ call[h].id = o}
  /\ UNCHANGED <<users, everUsers, issued, db, cache, call, acked>>

HandlerStep(h) ==
  \/ UserFound(h) \/ UserMissing(h) \/ BeginTx(h) \/ InsertOrder(h) \/ InsertItem(h)
  \/ CommitTx(h) \/ CommitLost(h)
  \/ CacheHit(h) \/ CacheMiss(h) \/ SelectRow(h) \/ NoRows(h) \/ SelectItems(h) \/ CacheSet(h)
  \/ UpdateStatus(h) \/ UpdateLost(h) \/ Invalidate(h) \/ CancelDone(h)
  \/ ErrorReturn(h)

Next ==
  \/ \E u \in Users : CreateUser(u) \/ DeleteUser(u)
  \/ \E h \in Handlers, op \in Ops : InvalidRequest(h, op)
  \/ \E h \in Handlers, u \in Users, n \in 1..MaxItems : CreateOrder(h, u, n)
  \/ \E h \in Handlers, o \in OrderIds : GetOrder(h, o) \/ CancelOrder(h, o)
  \/ \E h \in Handlers : HandlerStep(h) \/ Crash(h)
  \/ \E o \in OrderIds : Expire(o)

Spec == Init /\ [][Next]_vars

(***************************************************************************)
(* Every call a handler makes returns (a 10 s query timeout, go-redis'     *)
(* read and write timeouts, gRPC failing on a broken connection), and      *)
(* Redis expires every entry, orderCacheTTL after it was set.              *)
(***************************************************************************)
FairSpec ==
  /\ Spec
  /\ \A h \in Handlers : WF_vars(HandlerStep(h))
  /\ \A o \in OrderIds : WF_vars(Expire(o))

--------------------------------------------------------------------------------
(* Properties *)

(* Every variable holds a value of its type in every state. *)
TypeOK ==
  /\ users \subseteq Users /\ everUsers \subseteq Users
  /\ issued \in [OrderIds -> 0..MaxItems]
  /\ db \in [OrderIds -> Orders]
  /\ cache \in [OrderIds -> Orders]
  /\ pc \in [Handlers -> Labels]
  /\ call \in [Handlers -> Calls]
  /\ order \in [Handlers -> Orders]
  /\ resp \in [Handlers -> [code : Codes, order : Orders]]
  /\ acked \subseteq OrderIds /\ excused \subseteq OrderIds

(* c is an earlier or the present state of the committed order o. *)
CopyOf(c, o) ==
  /\ db[o] # Absent
  /\ c.user = db[o].user
  /\ c.status \in {"PENDING", db[o].status}
  /\ c.items <= db[o].items

(***************************************************************************)
(* A copy of an order outside the database -- in Redis or in a reader's    *)
(* hands on its way there -- is a copy of a committed order and never says *)
(* CANCELLED before the database does: a cache fill of Get can be late but *)
(* never ahead, whatever transaction, crash or failed call it races with.  *)
(***************************************************************************)
CacheSound ==
  /\ \A o \in OrderIds : cache[o] # Absent => CopyOf(cache[o], o)
  /\ \A h \in Handlers : \A o \in OrderIds : Reading(h, o) => CopyOf(order[h], o)

(***************************************************************************)
(* Redis keeps a cancelled order as PENDING only while its Cancel is about *)
(* to delete the key, or after one of: a reader held the old row when the  *)
(* UPDATE ran, the UPDATE's answer was lost, the Del failed, the replica   *)
(* died in between (excused).  A reader that starts after the UPDATE, with *)
(* none of those, can never bring PENDING back.                            *)
(***************************************************************************)
StaleExcused ==
  /\ \A o \in OrderIds :
       db[o].status = "CANCELLED" /\ cache[o].status = "PENDING"
         => o \in excused \/ \E h \in Handlers : pc[h] = "invalidate" /\ call[h].id = o
  /\ \A h \in Handlers : \A o \in OrderIds :
       Reading(h, o) /\ order[h].status = "PENDING" /\ db[o].status = "CANCELLED"
         => o \in excused

(***************************************************************************)
(* A GetOrder that comes after an acknowledged CancelOrder answers         *)
(* CANCELLED unless the order is excused: with no overlapping reader and   *)
(* no failure, the caller reads its own cancellation.                      *)
(***************************************************************************)
ReadYourCancel ==
  \A h \in Handlers :
    /\ resp[h].code = "OK" /\ call[h].op = "Get" /\ call[h].after
    /\ call[h].id \notin excused
    => resp[h].order.status = "CANCELLED"

(***************************************************************************)
(* An order that is answered, created, fetched or cancelled, has all the   *)
(* items of the request that created it (order.proto: "Total amount (sum   *)
(* of all item quantities * unit_prices)" next to the items it sums).      *)
(***************************************************************************)
AnswersComplete ==
  \A h \in Handlers :
    resp[h].code = "OK" => resp[h].order.items = issued[call[h].id]

(***************************************************************************)
(* An order in the database has all the items of its request, whatever     *)
(* call of the transaction failed, whose answer was lost or where the      *)
(* process died: nothing but Commit makes any of it visible.               *)
(***************************************************************************)
StoredComplete == \A o \in OrderIds : db[o] # Absent => db[o].items = issued[o]

(***************************************************************************)
(* CreateOrder stores an order only for a user that existed at some time   *)
(* (the user_id column has no foreign key: the check by RPC is all there   *)
(* is).  The user may have been deleted between the check and the commit.  *)
(***************************************************************************)
OrderUserExisted == \A o \in OrderIds : db[o] # Absent => db[o].user \in everUsers

(***************************************************************************)
(* A GetOrder that comes after an acknowledged CancelOrder answers         *)
(* CANCELLED (test_order_full_lifecycle).                                  *)
(***************************************************************************)
GetSeesCancel ==
  \A h \in Handlers :
    resp[h].code = "OK" /\ call[h].op = "Get" /\ call[h].after
      => resp[h].order.status = "CANCELLED"

(***************************************************************************)
(* Whatever failed, a cancelled order stops being cached as PENDING for    *)
(* good: the time to live bounds every way Get and Cancel can race.        *)
(***************************************************************************)
Converges ==
  \A o \in OrderIds :
    db[o].status = "CANCELLED" ~> [](cache[o].status # "PENDING")

(* The refinement: the database is the store, the answers are the answers. *)
Store == INSTANCE OrderStore WITH
  status <- [o \in OrderIds |-> db[o].status],
  reply <- [h \in Handlers |-> [op |-> call[h].op, id |-> call[h].id,
                                code |-> resp[h].code, status |-> resp[h].order.status]]

(***************************************************************************)
(* The service, with its cache, transactions and faults, implements        *)
(* OrderStore: one order changes per step, never back, and no answer lies. *)
(***************************************************************************)
ImplementsStore == Store!Spec
================================================================================
