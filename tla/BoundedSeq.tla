------------------------------ MODULE BoundedSeq ------------------------------
(***************************************************************************)
(* The "keep the newest n" operation that IPXDR performs in four places:   *)
(* the capacity trim of a window bucket, the feature window w[-256:], the  *)
(* deque(maxlen) of the alert store and its LIMIT query at start-up.       *)
(***************************************************************************)
EXTENDS Integers, Sequences

\* Variant for the mutation runs: the loop stops one element too early.
RecentAndOneMore(s, n) ==
  IF Len(s) > n + 1 THEN SubSeq(s, Len(s) - n, Len(s)) ELSE s

\* The newest n elements of s, oldest first; all of s when it is no longer.
Recent(s, n) == IF Len(s) > n THEN SubSeq(s, Len(s) - n + 1, Len(s)) ELSE s

\* The values that occur in s.
Elements(s) == {s[i] : i \in DOMAIN s}

===============================================================================
