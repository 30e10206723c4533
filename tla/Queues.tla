------------------------------- MODULE Queues -------------------------------
(* Entries of a queue: of the loop's callbacks, or of the waiters of a lock. *)
EXTENDS Sequences

Occurs(x, s) == \E i \in DOMAIN s : s[i] = x

AtMostOnce(x, s) == \A i, j \in DOMAIN s : s[i] = x /\ s[j] = x => i = j
=============================================================================
