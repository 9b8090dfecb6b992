---------------------------- MODULE Subsequences ----------------------------
(***************************************************************************)
(* What removing elements from an array (splice, filter) leaves of it.     *)
(***************************************************************************)
EXTENDS Naturals, Sequences, Functions

(* The elements of q that lie in keep, in their order.                     *)
Surviving(q, keep) ==
  {r \in UNION {[1..n -> keep] : n \in 0..Len(q)} :
     /\ Range(r) = Range(q) \cap keep
     /\ \A m, n \in DOMAIN r : m < n =>
          \E k, l \in DOMAIN q : k < l /\ q[k] = r[m] /\ q[l] = r[n]}

(* The one of them, if no element occurs twice (a recursive function, to   *)
(* be reasoned about).                                                     *)
Filtered(q, keep) ==
  LET upTo[n \in 0..Len(q)] ==
        IF n = 0 THEN <<>>
        ELSE IF q[n] \in keep THEN Append(upTo[n - 1], q[n]) ELSE upTo[n - 1]
  IN  upTo[Len(q)]

=============================================================================
