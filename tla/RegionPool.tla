----------------------------- MODULE RegionPool -----------------------------
(***************************************************************************)
(* What a pool of registered memory regions promises to its users, whatever *)
(* lock, list or counter it is built from.  A region that exists is either *)
(* free or in hand: a user got it and has not given it back.  Getting and  *)
(* giving back take effect in single steps, one after the other.           *)
(*                                                                         *)
(* The pool may be closed to give up its regions.  It finds none of them   *)
(* in hand then, and users are expected to stay away until it is done.  If *)
(* one takes a region all the same, or was at it just when the pool was    *)
(* closed, the pool may break: its regions are gone although they are in   *)
(* hand, and nothing is promised any more.  In no other way.               *)
(*                                                                         *)
(* pool_container (module PoolContainer) is shown to implement this; the   *)
(* modules that use pools (MemoryPool, Preposts) build on this atomicity.  *)
(***************************************************************************)
CONSTANT Region

VARIABLES
    free,
    inHand,
    busy,     \* a user's step is taking effect
    status    \* "open", "closing", "raced" (closing, not undisturbed), "broken"

vars == <<free, inHand, busy, status>>

Init == free = {} /\ inHand = {} /\ busy = FALSE /\ status = "open"

\* A new region comes into being in the hand of whoever fills the pool.
Create(r) ==
    /\ status = "open"
    /\ r \notin free \cup inHand
    /\ inHand' = inHand \cup {r}
    /\ UNCHANGED <<free, busy, status>>

\* A user gives a region back, or the new region gets into the pool.
Release(r) ==
    /\ ~busy
    /\ busy' \in BOOLEAN
    /\ r \in inHand
    /\ inHand' = inHand \ {r}
    /\ free' = free \cup {r}
    /\ UNCHANGED status

Acquire(r) ==
    /\ ~busy
    /\ busy' = TRUE
    /\ r \in free
    /\ free' = free \ {r}
    /\ inHand' = inHand \cup {r}
    /\ status' = IF status = "closing" THEN "raced" ELSE status

Settle ==
    /\ busy
    /\ busy' = FALSE
    /\ UNCHANGED <<free, inHand, status>>

Close ==
    /\ status = "open"
    /\ \/ inHand = {} /\ ~busy /\ status' = "closing"
       \/ busy /\ status' = "raced"
    /\ UNCHANGED <<free, inHand, busy>>

\* The pool is kept after all.
Reopen ==
    /\ status \in {"closing", "raced"}
    /\ status' = "open"
    /\ UNCHANGED <<free, inHand, busy>>

\* The pool is given up as a whole, and can be filled anew.
Discard ==
    /\ status \in {"closing", "raced"}
    /\ inHand = {}
    /\ free' = {}
    /\ status' = "open"
    /\ UNCHANGED <<inHand, busy>>

Break ==
    /\ status = "raced"
    /\ status' = "broken"
    /\ free' = {}
    /\ inHand' = {}
    /\ UNCHANGED busy

Broken ==
    /\ status = "broken"
    /\ busy' \in BOOLEAN
    /\ UNCHANGED <<free, inHand, status>>

Next ==
    \/ \E r \in Region : Create(r) \/ Release(r) \/ Acquire(r)
    \/ Settle \/ Close \/ Reopen \/ Discard
    \/ Break \/ Broken

Spec == Init /\ [][Next]_vars
=============================================================================
