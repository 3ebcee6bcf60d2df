------------------------------- MODULE MCGateway -------------------------------
(* Gateway for TLC: every kind of request, two or more of the kinds that   *)
(* can meet on one email or one row.                                       *)
EXTENDS Gateway, TLC

Symmetry == Permutations(Calls) \cup Permutations(UserIds) \cup Permutations(Emails)

Update(u, k, n, e) == [op |-> "update", id |-> u, mask |-> k, name |-> n, email |-> e]

MCRequests ==
  {[op |-> "create", name |-> "text", email |-> e] : e \in Emails}
    \cup {Update(u, {"name"}, "text", Blank) : u \in UserIds}
    \cup {Update(u, {"email"}, Blank, e) : u \in UserIds, e \in Emails}
    \cup {Update(NoId, {"other"}, Blank, Blank)}
    \cup [op : {"get", "delete", "order"}, id : UserIds]
================================================================================
