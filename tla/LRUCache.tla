------------------------------ MODULE LRUCache ------------------------------
(***************************************************************************)
(* The LRU cache of common/lru without expiry (maxAge = 0), as operators   *)
(* on its linked list: a sequence of entries with distinct keys whose      *)
(* front is the least recently used.                                       *)
(***************************************************************************)
EXTENDS Naturals, Sequences

Clear == <<>>

(* CloneTo copies every entry in order, whatever the size of the target. *)
CloneTo(c) == c

Entry(k, v) == [key |-> k, value |-> v]

Has(c, k) == \E i \in 1..Len(c) : c[i].key = k
IndexOf(c, k) == CHOOSE i \in 1..Len(c) : c[i].key = k
ValueOf(c, k) == c[IndexOf(c, k)].value

(* Delete. *)
Without(c, k) ==
    LET i == IndexOf(c, k) IN
    IF Has(c, k) THEN [j \in 1 .. Len(c) - 1 |-> IF j < i THEN c[j] ELSE c[j + 1]] ELSE c

(* Get: an entry that is found moves to the back. *)
Touch(c, k) == IF Has(c, k) THEN Append(Without(c, k), Entry(k, ValueOf(c, k))) ELSE c

(* Set: a new entry beyond size > 0 evicts the front. *)
Set_NoEviction(c, k, v, size) == Append(Without(c, k), Entry(k, v))

Set(c, k, v, size) ==
    LET d == Append(Without(c, k), Entry(k, v)) IN
    IF size > 0 /\ Len(d) > size THEN Tail(d) ELSE d
=============================================================================
