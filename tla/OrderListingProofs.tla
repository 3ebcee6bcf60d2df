--------------------------- MODULE OrderListingProofs ---------------------------
(***************************************************************************)
(* Proofs about OrderListing, for any number of orders, any page sizes and *)
(* any width of the integers.  A walk is followed by the rank of an order, *)
(* the number of orders that come before it: commits only raise it, and    *)
(* the pages answered so far hold all the lower ranks.                     *)
(***************************************************************************)
EXTENDS OrderListing, FiniteSetTheorems, TLAPS

(* How many of the rows come before o. *)
Ahead(rows, o) == {q \in rows : at[q] > at[o]}
Rank(rows, o) == Cardinality(Ahead(rows, o))

(* How many rows the pages of the walk have gone through. *)
Passed == IF resp.code = "OK" THEN Page * PageSize ELSE (Page - 1) * PageSize

(* While a page is being made it has no answer, and COUNT counts the rows   *)
(* of the SELECT unless an order was committed since.                      *)
CountInv ==
  /\ phase # "idle" => resp.code = "none"
  /\ phase = "count" => ~resp.raced
  /\ phase = "select" /\ ~resp.raced => total = Cardinality(Matching(req.user))

(* A walk meets a negative offset, and is stuck, before one that is wrong. *)
PageInv ==
  walk.on =>
    /\ req.page >= 1
    /\ (Page - 1) * PageSize <= 2 * Half - 2
    /\ resp.code = "OK" => (Page - 1) * PageSize <= Half - 1
    /\ phase = "select" /\ resp.raced => "commit" \in walk.excused

(* What a walk has not seen lies past the pages it was given. *)
UnseenInv ==
  walk.on =>
    /\ walk.start \subseteq Matching(req.user)
    /\ walk.excused \subseteq {"moved"} =>
         \A o \in walk.start \ walk.seen : Rank(Matching(req.user), o) >= Passed

(* What it has seen lies in them, as long as nothing moves. *)
SeenInv ==
  walk.on /\ walk.excused \cap {"moved", "tie"} = {} =>
    /\ walk.seen \subseteq Matching(req.user)
    /\ \A o \in walk.seen : Rank(Matching(req.user), o) < Passed

IndInv ==
  /\ TypeOK /\ CountInv /\ PageInv /\ UnseenInv /\ SeenInv
  /\ HasMoreInRange /\ PastEndEmpty /\ WalkExact

--------------------------------------------------------------------------------
(* Arithmetic of int32 *)

(* What fits is kept; what is up to one Half too large becomes negative. *)
LEMMA WrapFacts ==
  ASSUME NEW x \in Int
  PROVE  /\ Wrap(x) \in Int
         /\ x \in Int32 => Wrap(x) = x
         /\ Half <= x /\ x <= 2 * Half - 2 => Wrap(x) < 0
<1>1. Half \in Nat /\ Half > 0
  BY ListingAssumption
<1>2. (x + Half) % (2 * Half) \in Int
  BY <1>1
<1>3. ASSUME x \in Int32 PROVE (x + Half) % (2 * Half) = x + Half
  <2>1. x + Half \in 0..(2 * Half - 1)
    BY <1>1, <1>3 DEF Int32
  <2> QED BY <1>1, <2>1
<1>4. ASSUME Half <= x, x <= 2 * Half - 2 PROVE (x + Half) % (2 * Half) = x - Half
  <2>1. x + Half = 1 * (2 * Half) + (x - Half) /\ x - Half \in 0..(2 * Half - 1)
    BY <1>1, <1>4
  <2> QED BY <1>1, <2>1
<1> QED BY <1>1, <1>2, <1>3, <1>4 DEF Wrap

(* The sizes and pages the handler and the repository work with. *)
LEMMA RequestFacts ==
  ASSUME TypeOK
  PROVE  /\ Half \in Nat /\ Half > 0 /\ MaxSize \in Nat /\ MaxSize <= Half - 1
         /\ Page \in Nat /\ Page >= 1
         /\ AskedSize \in Nat /\ AskedSize >= 1
         /\ PageSize \in Nat /\ PageSize >= 1 /\ PageSize <= MaxSize
         /\ req.size <= MaxSize => AskedSize = PageSize
         /\ (Page - 1) * PageSize \in Nat
         /\ Page * PageSize = (Page - 1) * PageSize + PageSize
<1>1. /\ Half \in Nat /\ Half > 0 /\ MaxSize \in Nat /\ MaxSize <= Half - 1
      /\ DefaultSize \in Nat /\ DefaultSize >= 1 /\ DefaultSize <= MaxSize
  BY ListingAssumption
<1>2. req.page \in Int /\ req.size \in Int
  BY <1>1 DEF TypeOK, Int32
<1>3. Page \in Nat /\ Page >= 1
  BY <1>2 DEF Page
<1>4. AskedSize \in Nat /\ AskedSize >= 1
  BY <1>1, <1>2 DEF AskedSize
<1>5. PageSize \in Nat /\ PageSize >= 1 /\ PageSize <= MaxSize
  BY <1>1, <1>4 DEF PageSize
<1>6. req.size <= MaxSize => AskedSize = PageSize
  BY <1>1, <1>2 DEF AskedSize, PageSize
<1>7. (Page - 1) * PageSize \in Nat /\ Page * PageSize = (Page - 1) * PageSize + PageSize
  <2>1. \A a, b \in Nat : a >= 1 => (a - 1) * b \in Nat /\ a * b = (a - 1) * b + b
    OBVIOUS
  <2> QED BY <1>3, <1>5, <2>1
<1> QED BY <1>1, <1>3, <1>4, <1>5, <1>6, <1>7

--------------------------------------------------------------------------------
(* LIMIT and OFFSET *)

(* The first n rows: as many as there are, and none left out comes before. *)
LEMMA FirstFacts ==
  ASSUME NEW rows, IsFiniteSet(rows), NEW n \in Nat, NEW p \in First(n, rows)
  PROVE  /\ p \subseteq rows /\ IsFiniteSet(p)
         /\ Cardinality(p) \in Nat /\ Cardinality(rows) \in Nat
         /\ Cardinality(p) <= n /\ Cardinality(p) <= Cardinality(rows)
         /\ p # rows => Cardinality(p) = n /\ n < Cardinality(rows)
         /\ Before(p, rows \ p)
<1>1. p \in SUBSET rows /\ Cardinality(p) = Smaller(n, Cardinality(rows)) /\ Before(p, rows \ p)
  BY DEF First
<1>2. IsFiniteSet(p) /\ (Cardinality(rows) = Cardinality(p) => rows = p)
  BY <1>1, FS_Subset
<1>3. Cardinality(rows) \in Nat
  BY FS_CardinalityType
<1> QED BY <1>1, <1>2, <1>3 DEF Smaller

(* Sizes of the three parts OFFSET and LIMIT cut the rows into. *)
LEMMA CutFacts ==
  ASSUME NEW rows, IsFiniteSet(rows), NEW off \in Nat, NEW n \in Nat, n >= 1,
         NEW skipped \in First(off, rows), NEW page \in First(n, rows \ skipped)
  PROVE  /\ page \subseteq rows /\ IsFiniteSet(page) /\ Cardinality(page) <= n
         /\ Cardinality(page) \in Nat
         /\ rows \ (skipped \cup page) # {} <=> Cardinality(rows) > off + n
         /\ page # {} => off < Cardinality(rows)
         /\ IsFiniteSet(skipped \cup page)
         /\ Cardinality(skipped \cup page) = Cardinality(skipped) + Cardinality(page)
<1> DEFINE rest == rows \ skipped
<1>1. /\ skipped \subseteq rows /\ IsFiniteSet(skipped) /\ Cardinality(skipped) \in Nat
      /\ Cardinality(rows) \in Nat /\ Cardinality(skipped) <= off
      /\ skipped # rows => Cardinality(skipped) = off /\ off < Cardinality(rows)
  BY FirstFacts
<1>2. IsFiniteSet(rest) /\ Cardinality(rest) = Cardinality(rows) - Cardinality(skipped)
  <2>1. rows \cap skipped = skipped
    BY <1>1
  <2> QED BY <2>1, FS_Difference
<1>3. /\ page \subseteq rest /\ IsFiniteSet(page) /\ Cardinality(page) \in Nat
      /\ Cardinality(page) <= n /\ Cardinality(page) <= Cardinality(rest)
      /\ page # rest => Cardinality(page) = n /\ n < Cardinality(rest)
  BY <1>2, FirstFacts
<1>4. IsFiniteSet(skipped \cup page)
      /\ Cardinality(skipped \cup page) = Cardinality(skipped) + Cardinality(page)
  <2>0. skipped \cap page = {}
    BY <1>3
  <2>1. Cardinality(skipped \cap page) = 0
    BY <2>0, FS_EmptySet
  <2>2. IsFiniteSet(skipped \cup page)
        /\ Cardinality(skipped \cup page)
             = Cardinality(skipped) + Cardinality(page) - Cardinality(skipped \cap page)
    BY <1>1, <1>3, FS_Union
  <2> QED BY <1>1, <1>3, <2>1, <2>2
<1>5. rows \ (skipped \cup page) # {} <=> page # rest
  BY <1>3
<1>6. page # {} => skipped # rows
  BY <1>3
<1>7. ASSUME page # rest PROVE Cardinality(rows) > off + n
  <2>1. skipped # rows
    BY <1>3, <1>7
  <2> QED BY <1>1, <1>2, <1>3, <1>7, <2>1
<1>8. ASSUME page = rest PROVE ~(Cardinality(rows) > off + n)
  BY <1>1, <1>2, <1>3, <1>8
<1> QED BY <1>1, <1>3, <1>4, <1>5, <1>6, <1>7, <1>8

(* A rank is a number below the number of rows. *)
LEMMA RankNat ==
  ASSUME at \in [OrderIds -> 0..MaxTime], NEW rows, rows \subseteq OrderIds, IsFiniteSet(rows),
         NEW o \in rows
  PROVE  /\ Rank(rows, o) \in Nat /\ Rank(rows, o) < Cardinality(rows)
         /\ IsFiniteSet(Ahead(rows, o))
<1>1. Ahead(rows, o) \in SUBSET (rows \ {o})
  BY ListingAssumption DEF Ahead
<1>2. IsFiniteSet(rows \ {o}) /\ Cardinality(rows \ {o}) = Cardinality(rows) - 1
  BY FS_RemoveElement
<1>3. IsFiniteSet(Ahead(rows, o)) /\ Cardinality(Ahead(rows, o)) <= Cardinality(rows \ {o})
  BY <1>1, <1>2, FS_Subset
<1>4. Cardinality(rows) \in Nat /\ Cardinality(Ahead(rows, o)) \in Nat
  BY <1>3, FS_CardinalityType
<1> QED BY <1>2, <1>3, <1>4 DEF Rank

(* Where the three parts lie: by their ranks, if no two rows are tied. *)
LEMMA CutRanks ==
  ASSUME at \in [OrderIds -> 0..MaxTime], NEW rows, rows \subseteq OrderIds, IsFiniteSet(rows),
         NEW off \in Nat, NEW n \in Nat, n >= 1,
         NEW skipped \in First(off, rows), NEW page \in First(n, rows \ skipped)
  PROVE  /\ \A o \in skipped : Rank(rows, o) < off
         /\ \A o \in page : Rank(rows, o) < off + n
         /\ ~Tied(rows) => /\ \A o \in page : Rank(rows, o) >= off
                           /\ \A o \in rows \ (skipped \cup page) : Rank(rows, o) >= off + n
<1>0. MaxTime \in Nat
  BY ListingAssumption
<1>1. /\ skipped \subseteq rows /\ IsFiniteSet(skipped) /\ Cardinality(skipped) \in Nat
      /\ Cardinality(skipped) <= off /\ Before(skipped, rows \ skipped)
      /\ skipped # rows => Cardinality(skipped) = off
  BY FirstFacts
<1>2. IsFiniteSet(rows \ skipped)
  BY FS_Difference
<1>3. /\ page \subseteq rows \ skipped /\ Before(page, (rows \ skipped) \ page)
      /\ page # rows \ skipped => Cardinality(page) = n
  BY <1>2, FirstFacts
<1>4. /\ Cardinality(page) \in Nat /\ Cardinality(page) <= n
      /\ page # {} => Cardinality(skipped) = off
      /\ rows \ (skipped \cup page) # {} => Cardinality(page) = n
      /\ IsFiniteSet(skipped \cup page)
      /\ Cardinality(skipped \cup page) = Cardinality(skipped) + Cardinality(page)
  <2>1. /\ Cardinality(page) \in Nat /\ Cardinality(page) <= n
        /\ IsFiniteSet(skipped \cup page)
        /\ Cardinality(skipped \cup page) = Cardinality(skipped) + Cardinality(page)
    BY CutFacts
  <2>2. page # {} => skipped # rows
    BY <1>3
  <2>3. rows \ (skipped \cup page) # {} => page # rows \ skipped
    OBVIOUS
  <2> QED BY <1>1, <1>3, <2>1, <2>2, <2>3
<1>5. \A o \in rows : Rank(rows, o) \in Nat /\ IsFiniteSet(Ahead(rows, o))
  BY RankNat
<1>6. ASSUME NEW o \in skipped PROVE Rank(rows, o) < off
  <2>1. Ahead(rows, o) \in SUBSET (skipped \ {o})
    BY <1>0, <1>1 DEF Ahead, Before
  <2>2. IsFiniteSet(skipped \ {o}) /\ Cardinality(skipped \ {o}) = Cardinality(skipped) - 1
    BY <1>1, FS_RemoveElement
  <2>3. Cardinality(Ahead(rows, o)) <= Cardinality(skipped \ {o})
    BY <2>1, <2>2, FS_Subset
  <2> QED BY <1>1, <1>5, <2>2, <2>3 DEF Rank
<1>7. ASSUME NEW o \in page PROVE Rank(rows, o) < off + n
  <2>1. Ahead(rows, o) \in SUBSET ((skipped \cup page) \ {o})
    BY <1>0, <1>1, <1>3 DEF Ahead, Before
  <2>2. IsFiniteSet((skipped \cup page) \ {o}) /\ Cardinality((skipped \cup page) \ {o}) = Cardinality(skipped \cup page) - 1
    BY <1>4, FS_RemoveElement
  <2>3. Cardinality(Ahead(rows, o)) <= Cardinality((skipped \cup page) \ {o})
    BY <2>1, <2>2, FS_Subset
  <2> QED BY <1>1, <1>3, <1>4, <1>5, <2>2, <2>3 DEF Rank
<1>8. ASSUME ~Tied(rows), NEW o \in page PROVE Rank(rows, o) >= off
  <2>1. skipped \in SUBSET Ahead(rows, o)
    BY <1>0, <1>1, <1>3, <1>8 DEF Ahead, Before, Tied
  <2>2. Cardinality(skipped) <= Cardinality(Ahead(rows, o))
    BY <1>3, <1>5, <2>1, FS_Subset
  <2> QED BY <1>3, <1>4, <1>5, <2>2 DEF Rank
<1>9. ASSUME ~Tied(rows), NEW o \in rows \ (skipped \cup page) PROVE Rank(rows, o) >= off + n
  <2>1. (skipped \cup page) \in SUBSET Ahead(rows, o)
    <3>1. \A q \in (skipped \cup page) : at[q] >= at[o] /\ q # o /\ q \in rows
      BY <1>1, <1>3 DEF Before
    <3> QED BY <1>0, <1>9, <3>1 DEF Ahead, Tied
  <2>2. Cardinality(skipped \cup page) <= Cardinality(Ahead(rows, o))
    BY <1>5, <2>1, FS_Subset
  <2>3. Cardinality(page) = n /\ page # {}
    <3>1. Cardinality(page) = n
      BY <1>4
    <3> QED BY <3>1, FS_EmptySet
  <2> QED BY <1>1, <1>4, <1>5, <2>2, <2>3 DEF Rank
<1> QED BY <1>6, <1>7, <1>8, <1>9
--------------------------------------------------------------------------------
(* The invariant is inductive: one lemma per action. *)

(* The rows of a list are finitely many of the orders. *)
LEMMA RowsFinite ==
  ASSUME NEW u
  PROVE  /\ Matching(u) \subseteq OrderIds /\ IsFiniteSet(Matching(u))
         /\ Cardinality(Matching(u)) \in 0..Cardinality(OrderIds)
<1>1. Matching(u) \in SUBSET OrderIds /\ IsFiniteSet(OrderIds)
  BY ListingAssumption DEF Matching
<1>2. IsFiniteSet(Matching(u)) /\ Cardinality(Matching(u)) <= Cardinality(OrderIds)
  BY <1>1, FS_Subset
<1>3. Cardinality(Matching(u)) \in Nat /\ Cardinality(OrderIds) \in Nat
  BY <1>1, <1>2, FS_CardinalityType
<1> QED BY <1>1, <1>2, <1>3

(* The invariant holds before the first page. *)
LEMMA InitInv == Init => IndInv
<1> SUFFICES ASSUME Init PROVE IndInv
  OBVIOUS
<1>1. Half \in Nat /\ Half > 0 /\ MaxTime \in Nat /\ Cardinality(OrderIds) \in Nat
  BY ListingAssumption, FS_CardinalityType
<1>2. TypeOK
  BY <1>1 DEF Init, TypeOK, NoResp, NoWalk, Codes, Int32
<1> QED BY <1>2 DEF Init, IndInv, CountInv, PageInv, UnseenInv, SeenInv, HasMoreInRange,
  HasMoreTruthful, PastEndEmpty, WalkExact, WalkEnded, NoResp, NoWalk

(* A new request: no answer yet, so only the walk is left to look at. *)
LEMMA AskFacts ==
  ASSUME TypeOK, NEW u \in Users \cup {NoUser}, NEW p \in Int32, NEW n \in Int32, Ask(u, p, n),
         walk' \in [on : BOOLEAN, start : SUBSET OrderIds, seen : SUBSET OrderIds,
                    repeated : SUBSET OrderIds, excused : SUBSET (AllInterference \cup {"moved"})]
  PROVE  /\ TypeOK' /\ CountInv' /\ HasMoreInRange' /\ PastEndEmpty' /\ ~WalkEnded'
         /\ Matching(u)' = Matching(u) /\ req'.user = u
         /\ \A rows, o : Rank(rows, o)' = Rank(rows, o)
         /\ Passed' = (Page' - 1) * PageSize'
         /\ resp'.code = "none" /\ phase' = "count"
<1>1. /\ at' = at /\ owner' = owner /\ total' = total /\ phase' = "count" /\ resp' = NoResp
      /\ req' = [user |-> u, page |-> p, size |-> n]
  BY DEF Ask
<1>2. TypeOK'
  BY <1>1 DEF TypeOK, NoResp, Codes
<1> QED BY <1>1, <1>2 DEF CountInv, HasMoreInRange, HasMoreTruthful, PastEndEmpty, WalkEnded,
  Matching, Rank, Ahead, Passed, NoResp

(* A request for a single page ends the walk. *)
LEMMA AskPageInv ==
  ASSUME IndInv, NEW u \in Users \cup {NoUser}, NEW p \in Pages, NEW n \in Sizes,
         AskPage(u, p, n)
  PROVE  IndInv'
<1>1. p \in Int32 /\ n \in Int32
  BY ListingAssumption
<1>2. walk' = NoWalk /\ Ask(u, p, n) /\ TypeOK
  BY DEF AskPage, IndInv
<1>3. walk' \in [on : BOOLEAN, start : SUBSET OrderIds, seen : SUBSET OrderIds,
                 repeated : SUBSET OrderIds, excused : SUBSET (AllInterference \cup {"moved"})]
  BY <1>2 DEF NoWalk
<1>4. TypeOK' /\ CountInv' /\ HasMoreInRange' /\ PastEndEmpty' /\ ~WalkEnded'
  BY <1>1, <1>2, <1>3, AskFacts
<1>5. ~walk'.on /\ walk'.repeated = {}
  BY <1>2 DEF NoWalk
<1> QED BY <1>4, <1>5 DEF IndInv, PageInv, UnseenInv, SeenInv, WalkExact

(* A walk begins with nothing passed and nothing seen. *)
LEMMA StartWalkInv ==
  ASSUME IndInv, NEW u \in Users \cup {NoUser}, NEW n \in Sizes, StartWalk(u, n)
  PROVE  IndInv'
<1>1. 1 \in Int32 /\ n \in Int32
  BY ListingAssumption DEF Int32
<1>2. Ask(u, 1, n) /\ TypeOK
  BY DEF StartWalk, IndInv
<1>3. walk' = [on |-> TRUE, start |-> Matching(u), seen |-> {}, repeated |-> {}, excused |-> {}]
  BY DEF StartWalk, NoWalk
<1>4. walk' \in [on : BOOLEAN, start : SUBSET OrderIds, seen : SUBSET OrderIds,
                 repeated : SUBSET OrderIds, excused : SUBSET (AllInterference \cup {"moved"})]
  BY <1>3, RowsFinite
<1>5. /\ TypeOK' /\ CountInv' /\ HasMoreInRange' /\ PastEndEmpty' /\ ~WalkEnded'
      /\ Matching(u)' = Matching(u) /\ req'.user = u
      /\ \A rows, o : Rank(rows, o)' = Rank(rows, o)
      /\ Passed' = (Page' - 1) * PageSize'
      /\ resp'.code = "none" /\ phase' = "count"
  BY <1>1, <1>2, <1>4, AskFacts
<1>6. Page' = 1 /\ req'.page = 1 /\ Half \in Nat /\ Half > 0 /\ PageSize' \in Nat
  <2>1. Half \in Nat /\ Half > 0 /\ MaxSize \in Nat /\ DefaultSize \in Nat /\ n \in Int
    BY <1>1, ListingAssumption DEF Int32
  <2>2. req'.page = 1 /\ req'.size = n
    BY <1>2 DEF Ask
  <2> QED BY <2>1, <2>2 DEF Page, PageSize, AskedSize
<1>7. (Page' - 1) * PageSize' = 0
  <2>1. \A k \in Nat : (1 - 1) * k = 0
    OBVIOUS
  <2> QED BY <1>6, <2>1
<1>8. PageInv'
  <2>1. 0 <= 2 * Half - 2 /\ 0 <= Half - 1
    BY <1>6
  <2>2. req'.page >= 1
    BY <1>6
  <2>3. (Page' - 1) * PageSize' <= 2 * Half - 2
    BY <1>7, <2>1
  <2>4. resp'.code # "OK" /\ phase' # "select"
    BY <1>5
  <2> QED BY <2>2, <2>3, <2>4 DEF PageInv
<1>9. UnseenInv'
  <2>1. Matching(req.user)' = Matching(u)
    BY <1>5
  <2>2. \A o \in Matching(u) : Rank(Matching(u), o) \in Nat
    BY <1>2, RowsFinite, RankNat DEF TypeOK
  <2>3. \A o \in walk'.start : Rank(Matching(req.user), o)' >= Passed'
    <3>1. \A o : Rank(Matching(req.user), o)' = Rank(Matching(u), o)
      BY <1>2, <2>1 DEF Rank, Ahead, Ask
    <3> QED BY <1>3, <1>5, <1>7, <2>2, <3>1
  <2> QED BY <1>3, <2>1, <2>3 DEF UnseenInv
<1>10. SeenInv'
  BY <1>3 DEF SeenInv
<1> QED BY <1>3, <1>5, <1>8, <1>9, <1>10 DEF IndInv, WalkExact

(* The next page, or the same one again: the walk goes on where it was. *)
LEMMA WalkOnInv ==
  ASSUME IndInv, NextPage \/ RetryPage
  PROVE  IndInv'
<1> DEFINE p == IF resp.code = "OK" THEN req.page + 1 ELSE req.page
<1>1. /\ TypeOK /\ walk.on /\ walk' = walk /\ phase = "idle"
      /\ req.page >= 1 /\ (Page - 1) * PageSize <= 2 * Half - 2
      /\ resp.code = "OK" => (Page - 1) * PageSize <= Half - 1
  BY DEF IndInv, NextPage, RetryPage, PageInv, Ask
<1>2. p \in Int32 /\ req.size \in Int32 /\ req.user \in Users \cup {NoUser}
  BY DEF NextPage, RetryPage, IndInv, TypeOK
<1>3. Ask(req.user, p, req.size)
  BY DEF NextPage, RetryPage
<1> HIDE DEF p
<1>4. walk' \in [on : BOOLEAN, start : SUBSET OrderIds, seen : SUBSET OrderIds,
                 repeated : SUBSET OrderIds, excused : SUBSET (AllInterference \cup {"moved"})]
  BY <1>1 DEF TypeOK
<1>5. /\ TypeOK' /\ CountInv' /\ HasMoreInRange' /\ PastEndEmpty' /\ ~WalkEnded'
      /\ Matching(req.user)' = Matching(req.user)
      /\ \A rows, o : Rank(rows, o)' = Rank(rows, o)
      /\ Passed' = (Page' - 1) * PageSize'
      /\ resp'.code = "none" /\ phase' = "count"
  <2>1. req'.user = req.user
    BY <1>3 DEF Ask
  <2> QED BY <1>1, <1>2, <1>3, <1>4, <2>1, AskFacts DEF Matching, Ask
<1>6. /\ Half \in Nat /\ Half > 0 /\ MaxSize \in Nat /\ MaxSize <= Half - 1
      /\ PageSize \in Nat /\ PageSize <= MaxSize /\ Page \in Nat
      /\ (Page - 1) * PageSize \in Nat
      /\ Page * PageSize = (Page - 1) * PageSize + PageSize
  BY <1>1, RequestFacts
<1>7. PageSize' = PageSize /\ Page = req.page /\ Page' = p /\ req'.page = p /\ p >= 1
  <2>1. req'.size = req.size /\ req'.page = p
    BY <1>3 DEF Ask
  <2>2. Page = req.page /\ req.page \in Int
    BY <1>1, <1>6 DEF Page, TypeOK, Int32
  <2>3. p >= 1 /\ p \in Int
    BY <1>1, <2>2 DEF p
  <2> QED BY <2>1, <2>2, <2>3 DEF PageSize, AskedSize, Page
<1>8. Passed' = Passed /\ (Page' - 1) * PageSize' <= 2 * Half - 2
  <2>1. CASE resp.code = "OK"
    <3>1. Page' - 1 = Page
      BY <1>6, <1>7, <2>1 DEF p
    <3>2. (Page' - 1) * PageSize' = Page * PageSize
      BY <1>7, <3>1
    <3> QED BY <1>1, <1>5, <1>6, <2>1, <3>2 DEF Passed
  <2>2. CASE resp.code # "OK"
    <3>1. Page' = Page
      BY <1>7, <2>2 DEF p
    <3> QED BY <1>1, <1>5, <1>7, <2>2, <3>1 DEF Passed
  <2> QED BY <2>1, <2>2
<1>9. PageInv'
  BY <1>5, <1>7, <1>8 DEF PageInv
<1>10. \A o : Rank(Matching(req.user), o)' = Rank(Matching(req.user), o)
  <2>1. at' = at
    BY <1>3 DEF Ask
  <2> QED BY <1>5, <2>1 DEF Rank, Ahead
<1>11. UnseenInv' /\ SeenInv'
  BY <1>1, <1>5, <1>8, <1>10 DEF IndInv, UnseenInv, SeenInv
<1> QED BY <1>1, <1>5, <1>9, <1>11 DEF IndInv, WalkExact

(* SELECT COUNT, or a query that fails. *)
LEMMA CountOrFailInv ==
  ASSUME IndInv, Count \/ CountFails \/ SelectFails
  PROVE  IndInv'
<1>1. /\ TypeOK /\ phase # "idle" /\ resp.code = "none"
      /\ phase = "count" => ~resp.raced
      /\ UNCHANGED <<at, owner, req, walk>>
  BY DEF IndInv, CountInv, Count, CountFails, SelectFails, Fail
<1>2. Matching(req.user)' = Matching(req.user) /\ Page' = Page /\ PageSize' = PageSize
  BY <1>1 DEF Matching, Page, PageSize, AskedSize
<1>3. \A o : Rank(Matching(req.user), o)' = Rank(Matching(req.user), o)
  BY <1>1, <1>2 DEF Rank, Ahead
<1>4. resp'.code # "OK" /\ phase' # "count"
      /\ (phase' = "select" => phase = "count" /\ resp' = resp)
  BY <1>1 DEF Count, CountFails, SelectFails, Fail, NoResp
<1>5. TypeOK' /\ CountInv'
  <2>1. CASE Count
    <3>1. total' = Cardinality(Matching(req.user)) /\ phase = "count" /\ phase' = "select"
          /\ resp' = resp
      BY <2>1 DEF Count
    <3>2. total' \in 0..Cardinality(OrderIds)
      BY <3>1, RowsFinite
    <3> QED BY <1>1, <1>2, <3>1, <3>2 DEF TypeOK, CountInv
  <2>2. CASE CountFails \/ SelectFails
    <3>1. total' = total /\ phase' = "idle" /\ resp' = [NoResp EXCEPT !.code = "Internal"]
      BY <2>2 DEF CountFails, SelectFails, Fail
    <3> QED BY <1>1, <3>1 DEF TypeOK, CountInv, NoResp, Codes
  <2> QED BY <2>1, <2>2
<1>6. Passed' = Passed
  BY <1>1, <1>2, <1>4 DEF Passed
<1>7. PageInv'
  <2>1. /\ walk.on => req.page >= 1 /\ (Page - 1) * PageSize <= 2 * Half - 2
    BY DEF IndInv, PageInv
  <2> QED BY <1>1, <1>2, <1>4, <2>1 DEF PageInv
<1>8. UnseenInv' /\ SeenInv'
  BY <1>1, <1>2, <1>3, <1>6 DEF IndInv, UnseenInv, SeenInv
<1> QED BY <1>1, <1>4, <1>5, <1>7, <1>8 DEF IndInv, HasMoreInRange, HasMoreTruthful,
  PastEndEmpty, WalkExact, WalkEnded

(* A commit adds a row, and moves the others back or leaves them. *)
LEMMA CommitInv ==
  ASSUME IndInv, NEW o \in OrderIds, NEW user \in Users, NEW t \in 1..MaxTime,
         Commit(o, user, t)
  PROVE  IndInv'
<1> DEFINE raced == phase = "select" /\ req.user \in {user, NoUser}
<1>1. /\ TypeOK /\ MaxTime \in Nat /\ NoUser \notin Users
      /\ at[o] = 0 /\ at' = [at EXCEPT ![o] = t] /\ owner' = [owner EXCEPT ![o] = user]
      /\ walk' = Noted({"moved"} \cup {e \in {"commit"} : raced})
      /\ resp' = [resp EXCEPT !.raced = @ \/ raced]
      /\ UNCHANGED <<phase, req, total>>
  BY ListingAssumption DEF Commit, IndInv
<1>2. Page' = Page /\ PageSize' = PageSize /\ AskedSize' = AskedSize
  BY <1>1 DEF Page, PageSize, AskedSize
<1>3. /\ resp'.code = resp.code /\ resp'.orders = resp.orders /\ resp'.more = resp.more
      /\ resp'.left = resp.left /\ resp'.raced = (resp.raced \/ raced)
      /\ resp' \in [code : Codes, orders : SUBSET OrderIds, more : BOOLEAN,
                    left : SUBSET OrderIds, raced : BOOLEAN]
  BY <1>1 DEF TypeOK
<1>4. /\ walk'.on = walk.on /\ walk'.start = walk.start /\ walk'.seen = walk.seen
      /\ walk'.repeated = walk.repeated
      /\ walk.excused \subseteq walk'.excused
      /\ walk.on => "moved" \in walk'.excused /\ (raced => "commit" \in walk'.excused)
      /\ walk' \in [on : BOOLEAN, start : SUBSET OrderIds, seen : SUBSET OrderIds,
                    repeated : SUBSET OrderIds,
                    excused : SUBSET (AllInterference \cup {"moved"})]
  BY <1>1 DEF TypeOK, Noted, AllInterference
<1>5. TypeOK'
  <2>1. at' \in [OrderIds -> 0..MaxTime] /\ owner' \in [OrderIds -> Users \cup {NoUser}]
    BY <1>1 DEF TypeOK
  <2>2. resp'.code = "OK" => Cardinality(resp'.orders) <= PageSize'
    BY <1>1, <1>2, <1>3 DEF TypeOK
  <2> QED BY <1>1, <1>3, <1>4, <2>1, <2>2 DEF TypeOK
<1>6. Matching(req.user) \subseteq Matching(req.user)'
  BY <1>1 DEF TypeOK, Matching
<1>7. ~raced /\ phase = "select" => Matching(req.user)' = Matching(req.user)
  BY <1>1 DEF TypeOK, Matching
<1>8. resp.code = "OK" => phase = "idle" /\ ~raced
  BY DEF IndInv, CountInv
<1> HIDE DEF raced
<1>9. CountInv'
  <2>1. phase = "count" => ~raced
    BY DEF raced
  <2> QED BY <1>1, <1>3, <1>7, <2>1 DEF IndInv, CountInv
<1>10. PageInv'
  BY <1>1, <1>2, <1>3, <1>4 DEF IndInv, PageInv
<1>11. UnseenInv'
  <2>1. ASSUME walk'.on PROVE walk'.start \subseteq Matching(req.user)'
    BY <1>4, <1>6, <2>1 DEF IndInv, UnseenInv
  <2>2. ASSUME walk'.on, walk'.excused \subseteq {"moved"}, NEW q \in walk'.start \ walk'.seen
        PROVE  Rank(Matching(req.user), q)' >= Passed'
    <3>1. q \in Matching(req.user) /\ Rank(Matching(req.user), q) >= Passed
      BY <1>4, <2>2 DEF IndInv, UnseenInv
    <3>2. Passed' = Passed
      BY <1>2, <1>3 DEF Passed
    <3>3. Ahead(Matching(req.user), q) \in SUBSET (Ahead(Matching(req.user), q)')
      <4>1. q # o /\ at'[q] = at[q]
        BY <1>1, <3>1 DEF TypeOK, Matching
      <4>2. ASSUME NEW r \in Matching(req.user) PROVE at'[r] = at[r]
        BY <1>1, <4>2 DEF TypeOK, Matching
      <4> QED BY <1>6, <4>1, <4>2 DEF Ahead
    <3>4. IsFiniteSet(Ahead(Matching(req.user), q)') /\ IsFiniteSet(Ahead(Matching(req.user), q))
      <4>1. Ahead(Matching(req.user), q)' \in SUBSET OrderIds
            /\ Ahead(Matching(req.user), q) \in SUBSET OrderIds
        BY DEF Ahead, Matching
      <4> QED BY <4>1, ListingAssumption, FS_Subset
    <3>5. Cardinality(Ahead(Matching(req.user), q)) <= Cardinality(Ahead(Matching(req.user), q)')
      BY <3>3, <3>4, FS_Subset
    <3>6. /\ Cardinality(Ahead(Matching(req.user), q)) \in Nat
          /\ Cardinality(Ahead(Matching(req.user), q)') \in Nat
      BY <3>4, FS_CardinalityType
    <3>7. Passed \in Nat
      BY <1>1, RequestFacts DEF Passed
    <3> QED BY <3>1, <3>2, <3>5, <3>6, <3>7 DEF Rank
  <2> QED BY <2>1, <2>2 DEF UnseenInv
<1>12. SeenInv'
  BY <1>4 DEF SeenInv
<1>13. HasMoreInRange' /\ PastEndEmpty'
  BY <1>1, <1>2, <1>3, <1>8
    DEF IndInv, HasMoreInRange, HasMoreTruthful, PastEndEmpty
<1>14. WalkExact'
  BY <1>1, <1>3, <1>4 DEF IndInv, WalkExact, WalkEnded
<1> QED BY <1>5, <1>9, <1>10, <1>11, <1>12, <1>13, <1>14 DEF IndInv

(* SELECT: the offset of a walk is exact, so that its page holds the ranks   *)
(* from the offset up to the next page's, and what is left lies past them. *)
LEMMA SelectInv ==
  ASSUME IndInv, Select
  PROVE  IndInv'
<1> DEFINE rows == Matching(req.user)
<1>1. PICK skipped \in First(Offset, rows) : \E page \in First(PageSize, rows \ skipped) :
        \E read \in RowsRead(page) :
          /\ resp' = [code |-> "OK", orders |-> read, more |-> HasMore,
                      left |-> rows \ (skipped \cup page), raced |-> resp.raced]
          /\ walk' = IF walk.on
                     THEN [Noted({e \in {"tie"} : Tied(rows)} \cup {e \in {"rows"} : read # page})
                             EXCEPT !.seen = @ \cup read,
                                    !.repeated = @ \cup (read \cap walk.seen)]
                     ELSE walk
  BY DEF Select
<1>2. PICK page \in First(PageSize, rows \ skipped) : \E read \in RowsRead(page) :
          /\ resp' = [code |-> "OK", orders |-> read, more |-> HasMore,
                      left |-> rows \ (skipped \cup page), raced |-> resp.raced]
          /\ walk' = IF walk.on
                     THEN [Noted({e \in {"tie"} : Tied(rows)} \cup {e \in {"rows"} : read # page})
                             EXCEPT !.seen = @ \cup read,
                                    !.repeated = @ \cup (read \cap walk.seen)]
                     ELSE walk
  BY <1>1
<1>3. PICK read \in RowsRead(page) :
          /\ resp' = [code |-> "OK", orders |-> read, more |-> HasMore,
                      left |-> rows \ (skipped \cup page), raced |-> resp.raced]
          /\ walk' = IF walk.on
                     THEN [Noted({e \in {"tie"} : Tied(rows)} \cup {e \in {"rows"} : read # page})
                             EXCEPT !.seen = @ \cup read,
                                    !.repeated = @ \cup (read \cap walk.seen)]
                     ELSE walk
  BY <1>2
<1>4. /\ TypeOK /\ phase = "select" /\ phase' = "idle" /\ Offset >= 0 /\ resp.code = "none"
      /\ UNCHANGED <<at, owner, req, total>>
  BY DEF IndInv, CountInv, Select
<1>5. /\ rows' = rows /\ Page' = Page /\ PageSize' = PageSize /\ AskedSize' = AskedSize
      /\ Offset' = Offset
  BY <1>4 DEF Matching, Page, PageSize, AskedSize, Offset
<1>6. rows \subseteq OrderIds /\ IsFiniteSet(rows) /\ Cardinality(rows) \in Nat
  BY RowsFinite
<1> HIDE DEF rows
<1>7. /\ Half \in Nat /\ Half > 0 /\ MaxSize \in Nat /\ MaxSize <= Half - 1
      /\ PageSize \in Nat /\ PageSize >= 1 /\ PageSize <= MaxSize
      /\ AskedSize \in Nat /\ (req.size <= MaxSize => AskedSize = PageSize)
      /\ Page \in Nat /\ (Page - 1) * PageSize \in Nat
      /\ Page * PageSize = (Page - 1) * PageSize + PageSize
  BY <1>4, RequestFacts
<1>8. /\ Offset \in Nat
      /\ (Page - 1) * PageSize \in Int32 => Offset = (Page - 1) * PageSize
      /\ (Page - 1) * PageSize <= 2 * Half - 2 => (Page - 1) * PageSize \in Int32
  BY <1>4, <1>7, WrapFacts DEF Offset, Int32
<1>9. /\ page \subseteq rows /\ IsFiniteSet(page) /\ Cardinality(page) <= PageSize
      /\ Cardinality(page) \in Nat
      /\ rows \ (skipped \cup page) # {} <=> Cardinality(rows) > Offset + PageSize
      /\ page # {} => Offset < Cardinality(rows)
  BY <1>6, <1>7, <1>8, CutFacts
<1>10. /\ \A o \in skipped : Rank(rows, o) < Offset
       /\ \A o \in page : Rank(rows, o) < Offset + PageSize
       /\ ~Tied(rows) => \A o \in page : Rank(rows, o) >= Offset
       /\ ~Tied(rows) => \A o \in rows \ (skipped \cup page) : Rank(rows, o) >= Offset + PageSize
  BY <1>4, <1>6, <1>7, <1>8, CutRanks DEF TypeOK
<1>11. read \subseteq page /\ Cardinality(read) <= PageSize
  <2>1. read \in SUBSET page
    BY DEF RowsRead
  <2>2. IsFiniteSet(read) /\ Cardinality(read) <= Cardinality(page)
    BY <1>9, <2>1, FS_Subset
  <2>3. Cardinality(read) \in Nat
    BY <2>2, FS_CardinalityType
  <2> QED BY <1>7, <1>9, <2>1, <2>2, <2>3
<1>12. /\ walk'.on = walk.on /\ walk'.start = walk.start
       /\ ~walk.on => walk' = walk
       /\ walk.on => walk'.seen = walk.seen \cup read
       /\ walk.on => walk'.repeated = walk.repeated \cup (read \cap walk.seen)
       /\ walk.excused \subseteq walk'.excused
       /\ walk.on /\ Tied(rows) => "tie" \in walk'.excused
       /\ walk.on /\ read # page => "rows" \in walk'.excused
       /\ walk' \in [on : BOOLEAN, start : SUBSET OrderIds, seen : SUBSET OrderIds,
                     repeated : SUBSET OrderIds,
                     excused : SUBSET (AllInterference \cup {"moved"})]
  BY <1>3, <1>4, <1>6, <1>9, <1>11 DEF TypeOK, Noted, AllInterference
<1>13. total \in Nat /\ HasMore \in BOOLEAN
  <2>1. total \in Nat
    BY <1>4 DEF TypeOK
  <2> QED BY <2>1 DEF HasMore
<1>14. TypeOK'
  <2>1. resp' \in [code : Codes, orders : SUBSET OrderIds, more : BOOLEAN,
                   left : SUBSET OrderIds, raced : BOOLEAN]
    <3>1. read \in SUBSET OrderIds /\ rows \ (skipped \cup page) \in SUBSET OrderIds
      BY <1>6, <1>9, <1>11
    <3>2. resp.raced \in BOOLEAN
      BY <1>4 DEF TypeOK
    <3> QED BY <1>3, <1>13, <3>1, <3>2 DEF Codes
  <2>2. Cardinality(resp'.orders) <= PageSize'
    BY <1>3, <1>5, <1>11
  <2> QED BY <1>4, <1>12, <2>1, <2>2 DEF TypeOK
<1>15. CountInv'
  BY <1>4 DEF CountInv
<1>16. PageInv'
  <2>1. walk.on => req.page >= 1 /\ (Page - 1) * PageSize <= 2 * Half - 2
    BY DEF IndInv, PageInv
  <2>2. walk.on => (Page - 1) * PageSize <= Half - 1
    BY <1>7, <1>8, <2>1 DEF Int32
  <2> QED BY <1>4, <1>5, <1>12, <2>1, <2>2 DEF PageInv
<1>17. HasMoreInRange'
  <2> SUFFICES ASSUME req.size <= MaxSize, Page * AskedSize \in Int32, ~resp.raced
               PROVE  HasMore <=> rows \ (skipped \cup page) # {}
    BY <1>3, <1>4, <1>5 DEF HasMoreInRange, HasMoreTruthful
  <2>1. total = Cardinality(rows)
    BY <1>4 DEF IndInv, CountInv, rows
  <2>2. Page * PageSize \in Int32
    BY <1>7
  <2>3. (Page - 1) * PageSize \in Int32
    BY <1>7, <2>2 DEF Int32
  <2>4. Wrap(Page * AskedSize) = Page * PageSize
    BY <1>7, <2>2, WrapFacts DEF Int32
  <2>5. HasMore <=> Cardinality(rows) > Page * PageSize
    BY <2>1, <2>4 DEF HasMore
  <2> QED BY <1>7, <1>8, <1>9, <2>3, <2>5
<1>18. PastEndEmpty'
  <2> SUFFICES ASSUME (Page - 1) * PageSize >= total, read # {}, ~resp.raced,
                      (Page - 1) * PageSize \in Int32
               PROVE  FALSE
    BY <1>3, <1>4, <1>5 DEF PastEndEmpty
  <2>1. total = Cardinality(rows)
    BY <1>4 DEF IndInv, CountInv, rows
  <2>2. Offset < Cardinality(rows)
    BY <1>9, <1>11
  <2> QED BY <1>6, <1>7, <1>8, <2>1, <2>2
<1>19. ASSUME walk.on
       PROVE  /\ Offset = (Page - 1) * PageSize /\ Passed = Offset
              /\ Passed' = Offset + PageSize
  <2>1. (Page - 1) * PageSize <= 2 * Half - 2
    BY <1>19 DEF IndInv, PageInv
  <2>2. resp'.code = "OK"
    BY <1>3
  <2> QED BY <1>4, <1>5, <1>7, <1>8, <2>1, <2>2 DEF Passed
<1>20. \A o : Rank(rows, o)' = Rank(rows, o)
  BY <1>4, <1>5 DEF Rank, Ahead
<1>21. UnseenInv'
  <2> SUFFICES ASSUME walk.on
               PROVE  /\ walk.start \subseteq rows
                      /\ walk'.excused \subseteq {"moved"} =>
                           \A o \in walk.start \ walk'.seen : Rank(rows, o) >= Offset + PageSize
    BY <1>4, <1>5, <1>12, <1>19, <1>20 DEF UnseenInv, rows
  <2>1. walk.start \subseteq rows
    BY DEF IndInv, UnseenInv, rows
  <2>2. ASSUME walk'.excused \subseteq {"moved"}, NEW o \in walk.start \ walk'.seen
        PROVE  Rank(rows, o) >= Offset + PageSize
    <3>1. ~Tied(rows) /\ read = page
      BY <1>12, <2>2
    <3>2. o \notin page
      BY <1>12, <2>2, <3>1
    <3>3. Rank(rows, o) >= Offset
      BY <1>12, <1>19, <2>2 DEF IndInv, UnseenInv, rows
    <3>4. Rank(rows, o) \in Nat /\ o \in rows
      BY <1>4, <1>6, <2>1, RankNat DEF TypeOK
    <3>5. o \notin skipped
      BY <1>8, <1>10, <3>3, <3>4
    <3> QED BY <1>10, <3>1, <3>2, <3>4, <3>5
  <2> QED BY <2>1, <2>2
<1>22. SeenInv'
  <2> SUFFICES ASSUME walk.on, walk'.excused \cap {"moved", "tie"} = {}
               PROVE  /\ walk'.seen \subseteq rows
                      /\ \A o \in walk'.seen : Rank(rows, o) < Offset + PageSize
    BY <1>4, <1>5, <1>12, <1>19, <1>20 DEF SeenInv, rows
  <2>1. walk.seen \subseteq rows /\ \A o \in walk.seen : Rank(rows, o) < Offset
    BY <1>12, <1>19 DEF IndInv, SeenInv, rows
  <2>2. \A o \in rows : Rank(rows, o) \in Nat
    BY <1>4, <1>6, RankNat DEF TypeOK
  <2> QED BY <1>7, <1>8, <1>9, <1>10, <1>11, <1>12, <2>1, <2>2
<1>23. WalkExact'
  <2>1. ASSUME walk.on, ~HasMore, req.size <= MaxSize, walk'.excused \subseteq {"moved"}
        PROVE  walk.start \subseteq walk'.seen
    <3>1. ~resp.raced
      BY <1>4, <1>12, <2>1 DEF IndInv, PageInv
    <3>2. total = Cardinality(rows)
      BY <1>4, <3>1 DEF IndInv, CountInv, rows
    <3>3. total <= Page * PageSize
      <4>1. ~(total > Wrap(Page * PageSize))
        BY <1>7, <2>1 DEF HasMore
      <4>2. Page * PageSize <= 2 * Half - 2
        <5>1. (Page - 1) * PageSize <= Half - 1
          BY <1>7, <1>8, <2>1 DEF IndInv, PageInv, Int32
        <5> QED BY <1>7, <5>1
      <4>3. Wrap(Page * PageSize) \in Int /\ Page * PageSize \in Nat
            /\ (Page * PageSize \in Int32 => Wrap(Page * PageSize) = Page * PageSize)
            /\ (Half <= Page * PageSize => Wrap(Page * PageSize) < 0)
        BY <1>7, <4>2, WrapFacts
      <4> QED BY <1>7, <1>13, <4>1, <4>3 DEF Int32
    <3>4. ASSUME NEW o \in walk.start, o \notin walk'.seen PROVE FALSE
      <4>1. Rank(rows, o) >= Page * PageSize /\ o \in rows
        BY <1>7, <1>12, <1>19, <1>20, <1>21, <1>4, <1>5, <2>1, <3>4 DEF UnseenInv, rows
      <4>2. Rank(rows, o) \in Nat /\ Rank(rows, o) < Cardinality(rows)
        BY <1>4, <1>6, <4>1, RankNat DEF TypeOK
      <4> QED BY <1>6, <1>7, <3>2, <3>3, <4>1, <4>2
    <3> QED BY <3>4
  <2>2. ASSUME walk'.repeated # {} PROVE walk'.excused \cap {"moved", "tie"} # {}
    <3>1. CASE walk.repeated # {}
      BY <1>12, <3>1 DEF IndInv, WalkExact
    <3>2. CASE walk.repeated = {}
      <4>1. walk.on
        BY <1>12, <2>2, <3>2
      <4>2. PICK o \in page : o \in walk.seen
        BY <1>11, <1>12, <2>2, <3>2, <4>1
      <4>3. ASSUME walk'.excused \cap {"moved", "tie"} = {} PROVE FALSE
        <5>1. Rank(rows, o) < Offset
          BY <1>12, <1>19, <4>1, <4>2, <4>3 DEF IndInv, SeenInv, rows
        <5>2. Rank(rows, o) >= Offset
          BY <1>10, <1>12, <4>1, <4>2, <4>3
        <5>3. Rank(rows, o) \in Nat
          BY <1>4, <1>6, <1>9, <4>2, RankNat DEF TypeOK
        <5> QED BY <1>8, <5>1, <5>2, <5>3
      <4> QED BY <4>3
    <3> QED BY <3>1, <3>2
  <2> QED BY <1>3, <1>4, <1>12, <2>1, <2>2 DEF WalkExact, WalkEnded
<1> QED BY <1>14, <1>15, <1>16, <1>17, <1>18, <1>21, <1>22, <1>23 DEF IndInv

(* The invariant holds in every state of the listing. *)
LEMMA Invariance == Spec => []IndInv
<1>1. ASSUME IndInv, Next PROVE IndInv'
  BY <1>1, CommitInv, AskPageInv, StartWalkInv, WalkOnInv, CountOrFailInv, SelectInv DEF Next
<1>2. ASSUME IndInv, UNCHANGED vars PROVE IndInv'
  BY <1>2 DEF vars, IndInv, TypeOK, CountInv, PageInv, UnseenInv, SeenInv, HasMoreInRange,
    HasMoreTruthful, PastEndEmpty, WalkExact, WalkEnded, Matching, Rank, Ahead, Passed, Page,
    PageSize, AskedSize
<1>3. IndInv /\ [Next]_vars => IndInv'
  BY <1>1, <1>2
<1> QED BY <1>3, InitInv, PTL DEF Spec

--------------------------------------------------------------------------------

(* Whatever page and size are asked for, the answer to ListOrders holds at *)
(* most the clamped page size of orders, and every variable keeps its type. *)
THEOREM ListingTypeCorrect == Spec => []TypeOK
BY Invariance, PTL DEF IndInv

(* has_more, computed by the handler with a size the repository may have   *)
(* clamped, says whether orders are left past the page, unless the size is *)
(* past the maximum, the product overflows or a commit comes between the   *)
(* two queries: for any number of orders and any width of the integers.    *)
THEOREM HasMoreIsRight == Spec => []HasMoreInRange
BY Invariance, PTL DEF IndInv

(* A page past the end that has orders is a commit after the COUNT or an   *)
(* offset that int32 arithmetic has wrapped; there is no third cause.      *)
THEOREM PastEndIsEmpty == Spec => []PastEndEmpty
BY Invariance, PTL DEF IndInv

(* A client that follows has_more to the end is given every order that was *)
(* there when it began, however many were committed between its pages, and *)
(* is given one twice only if orders were committed or are tied.           *)
THEOREM WalksAreExact == Spec => []WalkExact
BY Invariance, PTL DEF IndInv
================================================================================
