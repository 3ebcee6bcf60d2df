----------------------------- MODULE OrderListing -----------------------------
(***************************************************************************)
(* ListOrders: a page of orders, newest first, with a total and a has_more *)
(* flag.  The handler applies the defaults of the request, the repository  *)
(* clamps the page size, counts, then selects: two queries, each with a    *)
(* snapshot of its own.  Between them, and between the pages of a client's *)
(* walk, other handlers commit orders.  The int32 arithmetic of the offset *)
(* and of has_more is kept, with few values.                               *)
(***************************************************************************)
EXTENDS Integers, FiniteSets

CONSTANTS OrderIds,
          Users,
          NoUser,        \* no filter, and the owner of no order
          DefaultSize,   \* 20
          MaxSize,       \* 100
          Half,          \* 2^31: half the number of int32 values
          MaxTime,       \* bound: distinct values of created_at
          Pages, Sizes,  \* what a request may ask for
          Interference   \* what can disturb a page: a subset of AllInterference

AllInterference == {"commit", "tie", "rows"}
Int32 == -Half .. Half - 1

ASSUME ListingAssumption ==
  /\ NoUser \notin Users
  /\ IsFiniteSet(OrderIds)
  /\ Half \in Nat \ {0} /\ MaxTime \in Nat
  /\ DefaultSize \in 1..MaxSize /\ MaxSize \in 1..Half - 1
  /\ Pages \subseteq Int32 /\ Sizes \subseteq Int32
  /\ Interference \subseteq AllInterference

VARIABLES
  at,      \* created_at of every committed order, 0 if there is none
  owner,   \* user_id
  phase,   \* of the handler: idle, count or select
  req,     \* the request it serves
  total,   \* what COUNT returned
  resp,    \* the last answer; history: what was left past its page, raced by a commit
  walk     \* the client's walk over the pages (history)

vars == <<at, owner, phase, req, total, resp, walk>>

Codes == {"none", "OK", "Internal"}
Wrap(x) == ((x + Half) % (2 * Half)) - Half
Smaller(a, b) == IF a < b THEN a ELSE b

NoResp == [code |-> "none", orders |-> {}, more |-> FALSE, left |-> {}, raced |-> FALSE]
NoWalk == [on |-> FALSE, start |-> {}, seen |-> {}, repeated |-> {}, excused |-> {}]

Init ==
  /\ at = [o \in OrderIds |-> 0]
  /\ owner = [o \in OrderIds |-> NoUser]
  /\ phase = "idle"
  /\ req = [user |-> NoUser, page |-> 0, size |-> 0]
  /\ total = 0
  /\ resp = NoResp
  /\ walk = NoWalk

(* The WHERE clause both queries have when the request names a user. *)
Matching(user) == {o \in OrderIds : at[o] # 0 /\ (user = NoUser \/ owner[o] = user)}

(* The walk, with what may have disturbed it. *)
Noted(events) == IF walk.on THEN [walk EXCEPT !.excused = @ \cup events] ELSE walk

--------------------------------------------------------------------------------
(* The tables change: an order is committed, created_at being the start of *)
(* its transaction, which others may share or have overtaken.              *)

Commit(o, user, t) ==
  /\ at[o] = 0
  /\ "commit" \in Interference \/ phase # "select"
  /\ "tie" \in Interference \/ \A p \in OrderIds : at[p] # t
  /\ at' = [at EXCEPT ![o] = t]
  /\ owner' = [owner EXCEPT ![o] = user]
  /\ LET raced == phase = "select" /\ req.user \in {user, NoUser}
     IN  /\ walk' = Noted({"moved"} \cup {e \in {"commit"} : raced})
         /\ resp' = [resp EXCEPT !.raced = @ \/ raced]
  /\ UNCHANGED <<phase, req, total>>

--------------------------------------------------------------------------------
(* The client *)

Ask(user, page, size) ==
  /\ phase = "idle"
  /\ phase' = "count"
  /\ req' = [user |-> user, page |-> page, size |-> size]
  /\ resp' = NoResp
  /\ UNCHANGED <<at, owner, total>>

AskPage(user, page, size) ==
  /\ Ask(user, page, size)
  /\ walk' = NoWalk

(* A walk asks for page 1 and goes on while has_more says so. *)
StartWalk(user, size) ==
  /\ Ask(user, 1, size)
  /\ walk' = [NoWalk EXCEPT !.on = TRUE, !.start = Matching(user)]

NextPage ==
  /\ walk.on /\ resp.code = "OK" /\ resp.more
  /\ req.page + 1 \in Int32
  /\ Ask(req.user, req.page + 1, req.size)
  /\ UNCHANGED walk

(* The same page again, after an error. *)
RetryPage ==
  /\ walk.on /\ resp.code = "Internal"
  /\ Ask(req.user, req.page, req.size)
  /\ UNCHANGED walk

--------------------------------------------------------------------------------
(* ListOrders *)

(* Defaults for what the request leaves out or makes no sense of. *)
Page == IF req.page > 0 THEN req.page ELSE 1
AskedSize == IF req.size > 0 THEN req.size ELSE DefaultSize

(* The repository's clamp: to the default, not to the maximum. *)
PageSize == IF AskedSize > MaxSize THEN DefaultSize ELSE AskedSize

(* Mutant: pages are numbered from 0. *)
Offset_ZeroBased == Wrap(Page * PageSize)

(* Mutant: the page number is taken for the offset. *)
Offset_NoProduct == Wrap(Page - 1)

Offset == Wrap((Page - 1) * PageSize)

(* The handler's product: it does not know of the clamp. *)
HasMore == total > Wrap(Page * AskedSize)

Fail ==
  /\ phase' = "idle"
  /\ resp' = [NoResp EXCEPT !.code = "Internal"]
  /\ UNCHANGED <<at, owner, req, total, walk>>

(* Mutant: COUNT without the WHERE clause. *)
Count_AllUsers ==
  /\ phase = "count"
  /\ total' = Cardinality(Matching(NoUser))
  /\ phase' = "select"
  /\ UNCHANGED <<at, owner, req, resp, walk>>

(* SELECT COUNT *)
Count ==
  /\ phase = "count"
  /\ total' = Cardinality(Matching(req.user))
  /\ phase' = "select"
  /\ UNCHANGED <<at, owner, req, resp, walk>>

CountFails == "rows" \in Interference /\ phase = "count" /\ Fail

(* PostgreSQL refuses a negative OFFSET; any query may fail. *)
SelectFails == (Offset < 0 \/ "rows" \in Interference) /\ phase = "select" /\ Fail

(* S may come before T in ORDER BY created_at DESC; equal times in any order. *)
Before(S, T) == \A s \in S : \A t \in T : at[s] >= at[t]

(* Mutant: one row too many. *)
First_OneMore(n, rows) ==
  {p \in SUBSET rows : Cardinality(p) = Smaller(n + 1, Cardinality(rows)) /\ Before(p, rows \ p)}

(* What the first n rows may be: OFFSET skips some, LIMIT returns some. *)
First(n, rows) ==
  {p \in SUBSET rows : Cardinality(p) = Smaller(n, Cardinality(rows)) /\ Before(p, rows \ p)}

(* What the rows.Next loop gets: all of the page, or the part of it that   *)
(* came before the connection failed, since rows.Err is not looked at.     *)
RowsRead(page) ==
  IF "rows" \in Interference THEN {p \in SUBSET page : Before(p, page \ p)} ELSE {page}

Tied(rows) == \E a, b \in rows : a # b /\ at[a] = at[b]

Select ==
  LET rows == Matching(req.user)
  IN
  /\ phase = "select"
  /\ Offset >= 0
  /\ phase' = "idle"
  /\ \E skipped \in First(Offset, rows) : \E page \in First(PageSize, rows \ skipped) :
     \E read \in RowsRead(page) :
       /\ resp' = [code |-> "OK", orders |-> read, more |-> HasMore,
                   left |-> rows \ (skipped \cup page), raced |-> resp.raced]
       /\ walk' = IF walk.on
                  THEN [Noted({e \in {"tie"} : Tied(rows)} \cup {e \in {"rows"} : read # page})
                          EXCEPT !.seen = @ \cup read,
                                 !.repeated = @ \cup (read \cap walk.seen)]
                  ELSE walk
  /\ UNCHANGED <<at, owner, req, total>>

Next ==
  \/ \E o \in OrderIds, u \in Users, t \in 1..MaxTime : Commit(o, u, t)
  \/ \E u \in Users \cup {NoUser}, p \in Pages, n \in Sizes : AskPage(u, p, n)
  \/ \E u \in Users \cup {NoUser}, n \in Sizes : StartWalk(u, n)
  \/ NextPage \/ RetryPage
  \/ Count \/ CountFails \/ Select \/ SelectFails

Spec == Init /\ [][Next]_vars

--------------------------------------------------------------------------------
(* Properties *)

(***************************************************************************)
(* Every variable holds a value of its type, and a page never has more     *)
(* orders than the clamped size.                                           *)
(***************************************************************************)
TypeOK ==
  /\ at \in [OrderIds -> 0..MaxTime]
  /\ owner \in [OrderIds -> Users \cup {NoUser}]
  /\ phase \in {"idle", "count", "select"}
  /\ req \in [user : Users \cup {NoUser}, page : Int32, size : Int32]
  /\ total \in 0..Cardinality(OrderIds)
  /\ resp \in [code : Codes, orders : SUBSET OrderIds, more : BOOLEAN, left : SUBSET OrderIds,
               raced : BOOLEAN]
  /\ resp.code = "OK" => Cardinality(resp.orders) <= PageSize
  /\ walk \in [on : BOOLEAN, start : SUBSET OrderIds, seen : SUBSET OrderIds,
               repeated : SUBSET OrderIds, excused : SUBSET (AllInterference \cup {"moved"})]

(* has_more says whether orders are left past the page (common.proto:      *)
(* "Whether there are more pages").                                        *)
HasMoreTruthful == resp.code = "OK" => (resp.more <=> resp.left # {})

(***************************************************************************)
(* has_more is truthful in its range, whatever user, page and size are     *)
(* asked for: it can be wrong only if the size is past the maximum, if     *)
(* page * size does not fit an int32, or if an order of the list is        *)
(* committed between the COUNT and the SELECT.                             *)
(***************************************************************************)
HasMoreInRange ==
  req.size <= MaxSize /\ Page * AskedSize \in Int32 /\ ~resp.raced => HasMoreTruthful

WalkEnded == walk.on /\ resp.code = "OK" /\ ~resp.more

(***************************************************************************)
(* A client that follows has_more to the end is given every order that was *)
(* there when it began, although new orders move the old ones from page to *)
(* page meanwhile, and none twice unless they do.  The exceptions are a    *)
(* size past the maximum, an order committed between the COUNT and the     *)
(* SELECT of one page, equal timestamps, and rows lost with their          *)
(* connection; of these only ties repeat an order.                         *)
(***************************************************************************)
WalkExact ==
  /\ WalkEnded /\ req.size <= MaxSize /\ walk.excused \subseteq {"moved"}
       => walk.start \subseteq walk.seen
  /\ walk.repeated # {} => walk.excused \cap {"moved", "tie"} # {}

(***************************************************************************)
(* A page past the end has no orders.  It has some only if one was         *)
(* committed after the COUNT, or if the offset, (page - 1) * pageSize in   *)
(* int32, wraps to a small number: then it is another page's orders that   *)
(* are answered, with OK (repository.go:209).                              *)
(***************************************************************************)
PastEndEmpty ==
  resp.code = "OK" /\ (Page - 1) * PageSize >= total /\ resp.orders # {}
    => resp.raced \/ (Page - 1) * PageSize \notin Int32
================================================================================
