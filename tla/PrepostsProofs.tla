--------------------------- MODULE PrepostsProofs ---------------------------
(***************************************************************************)
(* Proofs, for any number of threads, clients, regions and receives, of    *)
(* the safety properties of Preposts.                                      *)
(*                                                                         *)
(* WaitingExact and OvershootBounded are inductive together and not alone: *)
(* that a thread passes the test of refill_preposts says something of the  *)
(* receives that are out only because the counter is off by no more than   *)
(* the threads between the two halves of an operation, and the counter has *)
(* not wrapped only because the receives that are out are bounded.         *)
(***************************************************************************)
EXTENDS Preposts, FiniteSetTheorems, TLAPS

\* A thread that refills or has a completion has a client.
ThreadInv ==
    \A t \in Thread : pc[t] \notin {"idle", "next"} => cl[t] \in Client

\* What the counter of c would be if it did not wrap.
Exact(c) ==
    Outstanding(c) + Cardinality(At(c, {"complete"})) - Cardinality(At(c, {"count"}))

\* The threads that hold a region, and those that will post one for c.
Holding == {t \in Thread : pc[t] \in {"post", "complete", "release"}}
Refilling(c) == At(c, {"can", "get", "post"})

IInv ==
    /\ TypeOK
    /\ ThreadInv
    /\ WaitingExact
    /\ OvershootBounded
    /\ IsFiniteSet(Receives)
    /\ RegionsConserved

-----------------------------------------------------------------------------
(* Arithmetic of a counter that wraps *)

\* A number is the quotient times the divisor plus the remainder.
LEMMA ModRange ==
    ASSUME NEW x \in Int, NEW W \in Nat \ {0}
    PROVE  x % W \in 0..(W - 1) /\ x \div W \in Int /\ x = W * (x \div W) + (x % W)
OBVIOUS

\* The remainder is the only number in its range with that property.
LEMMA ModUnique ==
    ASSUME NEW W \in Nat \ {0}, NEW k \in Int, NEW r \in 0..(W - 1)
    PROVE  (W * k + r) % W = r
OBVIOUS

\* Counting up commutes with wrapping.
LEMMA ModInc ==
    ASSUME NEW x \in Int, NEW W \in Nat \ {0}
    PROVE  ((x % W) + 1) % W = (x + 1) % W
<1> DEFINE r == x % W
           k == x \div W
<1>1. r \in 0..(W - 1) /\ k \in Int /\ x = W * k + r
    BY ModRange
<1> HIDE DEF r, k
<1>2. CASE r = W - 1
  <2>1. x + 1 = W * (k + 1) + 0 /\ r + 1 = W * 1 + 0
      BY <1>1, <1>2
  <2>2. (x + 1) % W = 0 /\ (r + 1) % W = 0
      BY <1>1, <2>1, ModUnique
  <2> QED BY <2>2 DEF r
<1>3. CASE r # W - 1
  <2>1. x + 1 = W * k + (r + 1) /\ r + 1 \in 0..(W - 1)
      BY <1>1, <1>3
  <2>2. (x + 1) % W = r + 1
      BY ONLY <1>1, <2>1, ModUnique, W \in Nat \ {0}
  <2>3. (r + 1) % W = r + 1
      BY <1>1, <2>1
  <2> QED BY <2>2, <2>3 DEF r
<1> QED BY <1>2, <1>3

\* Counting down commutes with wrapping.
LEMMA ModDec ==
    ASSUME NEW x \in Int, NEW W \in Nat \ {0}
    PROVE  ((x % W) - 1) % W = (x - 1) % W
<1> DEFINE r == x % W
           k == x \div W
<1>1. r \in 0..(W - 1) /\ k \in Int /\ x = W * k + r
    BY ModRange
<1> HIDE DEF r, k
<1>2. CASE r = 0
  <2>1. x - 1 = W * (k - 1) + (W - 1) /\ r - 1 = W * (-1) + (W - 1)
      BY <1>1, <1>2
  <2>2. (x - 1) % W = W - 1 /\ (r - 1) % W = W - 1
    <3>1. k - 1 \in Int /\ -1 \in Int /\ W - 1 \in 0..(W - 1)
        BY <1>1
    <3> QED BY ONLY <2>1, <3>1, ModUnique, W \in Nat \ {0}
  <2> QED BY <2>2 DEF r
<1>3. CASE r # 0
  <2>1. x - 1 = W * k + (r - 1) /\ r - 1 \in 0..(W - 1)
      BY <1>1, <1>3
  <2>2. (x - 1) % W = r - 1
      BY ONLY <1>1, <2>1, ModUnique, W \in Nat \ {0}
  <2>3. (r - 1) % W = r - 1
      BY <1>1, <2>1
  <2> QED BY <2>2, <2>3 DEF r
<1> QED BY <1>2, <1>3

-----------------------------------------------------------------------------
(* Counting threads *)

\* Sets of threads are finite, and no larger than the set of all threads.
LEMMA ThreadSet ==
    ASSUME NEW S \in SUBSET Thread
    PROVE  /\ IsFiniteSet(S)
           /\ Cardinality(S) \in Nat /\ Cardinality(Thread) \in Nat
           /\ Cardinality(S) <= Cardinality(Thread)
BY PrepostsAssumption, FS_Subset, FS_CardinalityType

\* One thread joins or leaves a set of threads.
LEMMA OneMoves ==
    ASSUME NEW S \in SUBSET Thread, NEW T \in SUBSET Thread, NEW t \in Thread,
           \A u \in Thread \ {t} : u \in S <=> u \in T
    PROVE  /\ (t \in S <=> t \in T) => Cardinality(T) = Cardinality(S)
           /\ t \notin S /\ t \in T => Cardinality(T) = Cardinality(S) + 1
           /\ t \in S /\ t \notin T => Cardinality(T) = Cardinality(S) - 1
<1>1. ASSUME t \in S <=> t \in T PROVE Cardinality(T) = Cardinality(S)
  <2>1. S = T
      BY <1>1
  <2> QED BY <2>1
<1>2. ASSUME t \notin S, t \in T PROVE Cardinality(T) = Cardinality(S) + 1
  <2>1. T = S \cup {t}
      BY <1>2
  <2> QED BY <1>2, <2>1, ThreadSet, FS_AddElement
<1>3. ASSUME t \in S, t \notin T PROVE Cardinality(T) = Cardinality(S) - 1
  <2>1. T = S \ {t}
      BY <1>3
  <2> QED BY <1>3, <2>1, ThreadSet, FS_RemoveElement
<1> QED BY <1>1, <1>2, <1>3

-----------------------------------------------------------------------------
(* Types *)

\* Every step leaves the state well typed and a working thread with a client.
LEMMA TypeStep == TypeOK /\ ThreadInv /\ [Next]_vars => TypeOK' /\ ThreadInv'
<1> SUFFICES ASSUME TypeOK, ThreadInv, [Next]_vars
             PROVE  TypeOK' /\ ThreadInv'
    OBVIOUS
<1> USE DEF Goto, PC
<1>type. /\ free \in Nat /\ lost \in 0..MaxLost /\ MaxLost \in Nat /\ Wrap \in Nat \ {0}
         /\ posted \in [Client -> Nat] /\ cqe \in [Client -> Nat]
         /\ waiting \in [Client -> 0..(Wrap - 1)]
  <2>1. Cardinality(Thread) \in Nat
      BY ThreadSet
  <2> QED BY PrepostsAssumption, <2>1 DEF TypeOK
<1>1. ASSUME NEW t \in Thread, StartRefill(t) \/ NextClient(t) \/ RefillReturns(t)
      PROVE  TypeOK' /\ ThreadInv'
    BY <1>1 DEF StartRefill, NextClient, RefillReturns, TypeOK, ThreadInv
<1>2. ASSUME NEW t \in Thread, CheckCount(t) \/ CanAllocate(t)
      PROVE  TypeOK' /\ ThreadInv'
  <2>1. PICK l \in {"can", "next", "get", "check"} :
            /\ pc[t] \notin {"idle", "next"}
            /\ pc' = [pc EXCEPT ![t] = l]
            /\ UNCHANGED <<free, posted, cqe, waiting, lost, cl, todo>>
      BY <1>2 DEF CheckCount, CanAllocate
  <2> QED BY <2>1 DEF TypeOK, ThreadInv
<1>3. ASSUME NEW t \in Thread, GetRegion(t) PROVE TypeOK' /\ ThreadInv'
  <2>1. free' \in Nat
      BY <1>3, <1>type DEF GetRegion
  <2> QED BY <1>3, <2>1 DEF GetRegion, TypeOK, ThreadInv
<1>4. ASSUME NEW t \in Thread, PostReceive(t) PROVE TypeOK' /\ ThreadInv'
  <2>1. cl[t] \in Client
      BY <1>4 DEF PostReceive, ThreadInv
  <2>2. posted' \in [Client -> Nat]
    <3>1. posted' = [posted EXCEPT ![cl[t]] = posted[cl[t]] + 1]
        BY <1>4 DEF PostReceive
    <3> QED BY ONLY <1>type, <2>1, <3>1
  <2> QED BY <1>4, <2>1, <2>2 DEF PostReceive, TypeOK, ThreadInv
<1>5. ASSUME NEW t \in Thread, PostFails(t) PROVE TypeOK' /\ ThreadInv'
  <2>1. lost' \in 0..MaxLost
      BY <1>5, <1>type DEF PostFails
  <2> QED BY <1>5, <2>1 DEF PostFails, TypeOK, ThreadInv
<1>6. ASSUME NEW t \in Thread, PushReceive(t) \/ PopReceive(t)
      PROVE  TypeOK' /\ ThreadInv'
  <2>1. cl[t] \in Client
      BY <1>6 DEF PushReceive, PopReceive, ThreadInv
  <2>2. waiting[cl[t]] \in Int
      BY <1>type, <2>1
  <2>3. PICK w \in 0..(Wrap - 1) : waiting' = [waiting EXCEPT ![cl[t]] = w]
    <3>1. /\ (waiting[cl[t]] + 1) % Wrap \in 0..(Wrap - 1)
          /\ (waiting[cl[t]] - 1) % Wrap \in 0..(Wrap - 1)
      <4>1. waiting[cl[t]] + 1 \in Int /\ waiting[cl[t]] - 1 \in Int
          BY <2>2
      <4> QED BY <1>type, <4>1, ModRange
    <3> QED BY <1>6, <3>1 DEF PushReceive, PopReceive
  <2>4. waiting' \in [Client -> 0..(Wrap - 1)]
      BY ONLY <1>type, <2>1, <2>3
  <2> QED BY <1>6, <2>1, <2>4 DEF PushReceive, PopReceive, TypeOK, ThreadInv
<1>7. ASSUME NEW t \in Thread, NEW c \in Client, PollCompletion(t, c)
      PROVE  TypeOK' /\ ThreadInv'
  <2>1. cqe' \in [Client -> Nat]
    <3>1. cqe' = [cqe EXCEPT ![c] = cqe[c] - 1] /\ cqe[c] > 0
        BY <1>7 DEF PollCompletion
    <3>2. cqe[c] - 1 \in Nat
        BY <1>type, <3>1
    <3> QED BY ONLY <1>type, <3>1, <3>2
  <2> QED BY <1>7, <2>1 DEF PollCompletion, TypeOK, ThreadInv
<1>8. ASSUME NEW t \in Thread, ReleaseRegion(t) PROVE TypeOK' /\ ThreadInv'
  <2>1. free' \in Nat
      BY <1>8, <1>type DEF ReleaseRegion
  <2> QED BY <1>8, <2>1 DEF ReleaseRegion, TypeOK, ThreadInv
<1>9. ASSUME NEW c \in Client, Arrive(c) PROVE TypeOK' /\ ThreadInv'
  <2>1. /\ cqe' = [cqe EXCEPT ![c] = cqe[c] + 1]
        /\ posted' = [posted EXCEPT ![c] = posted[c] - 1] /\ posted[c] > 0
      BY <1>9 DEF Arrive
  <2>2. cqe[c] + 1 \in Nat /\ posted[c] - 1 \in Nat
      BY <1>type, <2>1
  <2>3. cqe' \in [Client -> Nat] /\ posted' \in [Client -> Nat]
      BY ONLY <1>type, <2>1, <2>2
  <2> QED BY <1>9, <2>3 DEF Arrive, TypeOK, ThreadInv
<1>10. CASE UNCHANGED vars
    BY <1>10 DEF vars, TypeOK, ThreadInv
<1> QED BY <1>1, <1>2, <1>3, <1>4, <1>5, <1>6, <1>7, <1>8, <1>9, <1>10
        DEF Next, Refill, Callback

-----------------------------------------------------------------------------
(* The counter *)

\* What a step of thread t does to the number of threads at some labels for c.
LEMMA AtMoves ==
    ASSUME NEW t \in Thread, NEW c \in Client, NEW L,
           \A u \in Thread \ {t} : pc'[u] = pc[u] /\ cl'[u] = cl[u]
    PROVE  /\ (t \in At(c, L) <=> t \in At(c, L)')
                  => Cardinality(At(c, L)') = Cardinality(At(c, L))
           /\ t \notin At(c, L) /\ t \in At(c, L)'
                  => Cardinality(At(c, L)') = Cardinality(At(c, L)) + 1
           /\ t \in At(c, L) /\ t \notin At(c, L)'
                  => Cardinality(At(c, L)') = Cardinality(At(c, L)) - 1
<1>1. At(c, L) \in SUBSET Thread /\ At(c, L)' \in SUBSET Thread
    BY DEF At
<1>2. \A u \in Thread \ {t} : u \in At(c, L) <=> u \in At(c, L)'
    BY DEF At
<1> QED BY ONLY <1>1, <1>2, OneMoves, t \in Thread

\* The numbers a client's counter is about.
LEMMA ClientTypes ==
    ASSUME TypeOK, NEW c \in Client
    PROVE  /\ Outstanding(c) \in Nat /\ posted[c] \in Nat /\ cqe[c] \in Nat
           /\ waiting[c] \in 0..(Wrap - 1) /\ Wrap \in Nat \ {0} /\ Preposts \in Nat \ {0}
           /\ Cardinality(Thread) \in Nat
           /\ Wrap > Preposts + 2 * Cardinality(Thread)
           /\ \A L : /\ Cardinality(At(c, L)) \in Nat
                     /\ Cardinality(At(c, L)) <= Cardinality(Thread)
           /\ Exact(c) \in Int
<1>1. \A L : /\ Cardinality(At(c, L)) \in Nat
             /\ Cardinality(At(c, L)) <= Cardinality(Thread)
  <2>1. \A L : At(c, L) \in SUBSET Thread
      BY DEF At
  <2> QED BY ONLY <2>1, ThreadSet
<1>2. Cardinality(Thread) \in Nat
    BY ThreadSet
<1>3. /\ posted[c] \in Nat /\ cqe[c] \in Nat /\ waiting[c] \in 0..(Wrap - 1)
      /\ Wrap \in Nat /\ Preposts \in Nat \ {0} /\ Wrap > Preposts + 2 * Cardinality(Thread)
    BY PrepostsAssumption DEF TypeOK
<1>4. Outstanding(c) \in Nat
    BY <1>3 DEF Outstanding
<1>5. Exact(c) \in Int
  <2>1. Cardinality(At(c, {"complete"})) \in Nat /\ Cardinality(At(c, {"count"})) \in Nat
      BY <1>1
  <2> QED BY <1>4, <2>1 DEF Exact
<1> QED BY <1>1, <1>2, <1>3, <1>4, <1>5

\* A receive is posted for client d.
LEMMA PostedOne ==
    ASSUME TypeOK, NEW c \in Client, NEW d \in Client, cqe' = cqe,
           posted' = [posted EXCEPT ![d] = @ + 1]
    PROVE  Outstanding(c)' = Outstanding(c) + (IF d = c THEN 1 ELSE 0)
<1>1. posted \in [Client -> Nat] /\ cqe \in [Client -> Nat]
    BY DEF TypeOK
<1>2. posted'[c] = posted[c] + (IF d = c THEN 1 ELSE 0)
    BY <1>1
<1> QED BY <1>1, <1>2 DEF Outstanding

\* A completion of client d is taken from its queue.
LEMMA PolledOne ==
    ASSUME TypeOK, NEW c \in Client, NEW d \in Client, posted' = posted, cqe[d] > 0,
           cqe' = [cqe EXCEPT ![d] = @ - 1]
    PROVE  /\ Outstanding(c)' = Outstanding(c) - (IF d = c THEN 1 ELSE 0)
           /\ Outstanding(c)' \in Nat
<1>1. posted \in [Client -> Nat] /\ cqe \in [Client -> Nat]
    BY DEF TypeOK
<1>2. cqe'[c] = cqe[c] - (IF d = c THEN 1 ELSE 0) /\ cqe'[c] \in Nat
    BY <1>1
<1> QED BY <1>1, <1>2 DEF Outstanding

\* A posted receive of client d completes.
LEMMA ArrivedOne ==
    ASSUME TypeOK, NEW c \in Client, NEW d \in Client,
           posted' = [posted EXCEPT ![d] = @ - 1], cqe' = [cqe EXCEPT ![d] = @ + 1]
    PROVE  Outstanding(c)' = Outstanding(c)
<1>1. posted \in [Client -> Nat] /\ cqe \in [Client -> Nat]
    BY DEF TypeOK
<1>2. /\ posted'[c] = posted[c] - (IF d = c THEN 1 ELSE 0)
      /\ cqe'[c] = cqe[c] + (IF d = c THEN 1 ELSE 0)
    BY <1>1
<1> QED BY <1>1, <1>2 DEF Outstanding

\* A post and its count, a completion and its count keep the counter exact.
LEMMA WaitingStep == TypeOK /\ ThreadInv /\ WaitingExact /\ [Next]_vars => WaitingExact'
<1> SUFFICES ASSUME TypeOK, ThreadInv, WaitingExact, [Next]_vars, NEW c \in Client
             PROVE  waiting'[c] = Exact(c)' % Wrap
    BY DEF WaitingExact, Exact
<1> USE DEF Goto
<1> DEFINE done == Cardinality(At(c, {"complete"}))
           uncounted == Cardinality(At(c, {"count"}))
<1>type. /\ Outstanding(c) \in Nat /\ done \in Nat /\ uncounted \in Nat
         /\ Exact(c) \in Int /\ Wrap \in Nat \ {0} /\ waiting[c] \in Int
    BY ClientTypes
<1>inv. waiting[c] = Exact(c) % Wrap
    BY DEF WaitingExact, Exact
<1>exact. Exact(c) = Outstanding(c) + done - uncounted
    BY DEF Exact
<1>exact2. Exact(c)' = Outstanding(c)' + done' - uncounted'
    BY DEF Exact
<1>frame. ASSUME waiting'[c] = waiting[c], Outstanding(c)' = Outstanding(c),
                 done' = done, uncounted' = uncounted
          PROVE  waiting'[c] = Exact(c)' % Wrap
    BY <1>inv, <1>frame, <1>exact, <1>exact2
<1> HIDE DEF done, uncounted
<1>1. ASSUME NEW t \in Thread, PostReceive(t) PROVE waiting'[c] = Exact(c)' % Wrap
  <2>1. /\ cl[t] \in Client /\ pc[t] = "post" /\ pc'[t] = "count" /\ cl' = cl
        /\ \A u \in Thread \ {t} : pc'[u] = pc[u] /\ cl'[u] = cl[u]
        /\ UNCHANGED <<waiting, cqe>>
        /\ posted' = [posted EXCEPT ![cl[t]] = posted[cl[t]] + 1]
      BY <1>1 DEF PostReceive, ThreadInv, TypeOK
  <2>2. done' = done
      BY <2>1, AtMoves DEF At, done
  <2>3. CASE cl[t] = c
    <3>1. uncounted' = uncounted + 1
      <4>1. t \notin At(c, {"count"}) /\ t \in At(c, {"count"})'
          BY <2>1, <2>3 DEF At
      <4> QED BY ONLY <2>1, <4>1, AtMoves, t \in Thread, c \in Client DEF uncounted
    <3>2. Outstanding(c)' = Outstanding(c) + 1
        BY <2>1, <2>3, PostedOne
    <3>3. Exact(c)' = Exact(c)
        BY ONLY <1>type, <1>exact, <1>exact2, <2>2, <3>1, <3>2
    <3> QED BY <1>inv, <2>1, <3>3
  <2>4. CASE cl[t] # c
    <3>1. uncounted' = uncounted
        BY <2>1, <2>4, AtMoves DEF At, uncounted
    <3>2. Outstanding(c)' = Outstanding(c)
        BY <2>1, <2>4 DEF Outstanding, TypeOK
    <3> QED BY <1>frame, <2>1, <2>2, <3>1, <3>2
  <2> QED BY <2>3, <2>4
<1>2. ASSUME NEW t \in Thread, PushReceive(t) PROVE waiting'[c] = Exact(c)' % Wrap
  <2>1. /\ cl[t] \in Client /\ pc[t] = "count" /\ pc'[t] = "check" /\ cl' = cl
        /\ \A u \in Thread \ {t} : pc'[u] = pc[u] /\ cl'[u] = cl[u]
        /\ UNCHANGED <<posted, cqe>>
        /\ waiting' = [waiting EXCEPT ![cl[t]] = (waiting[cl[t]] + 1) % Wrap]
      BY <1>2 DEF PushReceive, ThreadInv, TypeOK
  <2>2. done' = done /\ Outstanding(c)' = Outstanding(c)
      BY <2>1, AtMoves DEF At, done, Outstanding
  <2>3. CASE cl[t] = c
    <3>1. uncounted' = uncounted - 1
      <4>1. t \in At(c, {"count"}) /\ t \notin At(c, {"count"})'
          BY <2>1, <2>3 DEF At
      <4> QED BY ONLY <2>1, <4>1, AtMoves, t \in Thread, c \in Client DEF uncounted
    <3>2. Exact(c)' = Exact(c) + 1
        BY ONLY <1>type, <1>exact, <1>exact2, <2>2, <3>1
    <3>3. waiting'[c] = ((Exact(c) % Wrap) + 1) % Wrap
        BY <1>inv, <2>1, <2>3 DEF TypeOK
    <3> QED BY ONLY <1>type, <3>2, <3>3, ModInc
  <2>4. CASE cl[t] # c
    <3>1. uncounted' = uncounted
        BY <2>1, <2>4, AtMoves DEF At, uncounted
    <3>2. waiting'[c] = waiting[c]
        BY <2>1, <2>4 DEF TypeOK
    <3> QED BY <1>frame, <2>2, <3>1, <3>2
  <2> QED BY <2>3, <2>4
<1>3. ASSUME NEW t \in Thread, NEW d \in Client, PollCompletion(t, d)
      PROVE  waiting'[c] = Exact(c)' % Wrap
  <2>1. /\ pc[t] = "idle" /\ pc'[t] = "complete" /\ cl'[t] = d
        /\ \A u \in Thread \ {t} : pc'[u] = pc[u] /\ cl'[u] = cl[u]
        /\ UNCHANGED <<posted, waiting>>
        /\ cqe' = [cqe EXCEPT ![d] = cqe[d] - 1]
      BY <1>3 DEF PollCompletion, TypeOK
  <2>2. uncounted' = uncounted
      BY <2>1, AtMoves DEF At, uncounted
  <2>3. CASE d = c
    <3>1. done' = done + 1
      <4>1. t \notin At(c, {"complete"}) /\ t \in At(c, {"complete"})'
          BY <2>1, <2>3 DEF At
      <4> QED BY ONLY <2>1, <4>1, AtMoves, t \in Thread, c \in Client DEF done
    <3>2. Outstanding(c)' = Outstanding(c) - 1
        BY <1>3, <2>3, PolledOne DEF PollCompletion
    <3>3. Exact(c)' = Exact(c)
        BY ONLY <1>type, <1>exact, <1>exact2, <2>2, <3>1, <3>2
    <3> QED BY <1>inv, <2>1, <3>3
  <2>4. CASE d # c
    <3>1. done' = done
        BY <2>1, <2>4, AtMoves DEF At, done
    <3>2. Outstanding(c)' = Outstanding(c)
        BY <2>1, <2>4 DEF Outstanding, TypeOK
    <3> QED BY <1>frame, <2>1, <2>2, <3>1, <3>2
  <2> QED BY <2>3, <2>4
<1>4. ASSUME NEW t \in Thread, PopReceive(t) PROVE waiting'[c] = Exact(c)' % Wrap
  <2>1. /\ cl[t] \in Client /\ pc[t] = "complete" /\ pc'[t] = "release" /\ cl' = cl
        /\ \A u \in Thread \ {t} : pc'[u] = pc[u] /\ cl'[u] = cl[u]
        /\ UNCHANGED <<posted, cqe>>
        /\ waiting' = [waiting EXCEPT ![cl[t]] = (waiting[cl[t]] - 1) % Wrap]
      BY <1>4 DEF PopReceive, ThreadInv, TypeOK
  <2>2. uncounted' = uncounted /\ Outstanding(c)' = Outstanding(c)
      BY <2>1, AtMoves DEF At, uncounted, Outstanding
  <2>3. CASE cl[t] = c
    <3>1. done' = done - 1
      <4>1. t \in At(c, {"complete"}) /\ t \notin At(c, {"complete"})'
          BY <2>1, <2>3 DEF At
      <4> QED BY ONLY <2>1, <4>1, AtMoves, t \in Thread, c \in Client DEF done
    <3>2. Exact(c)' = Exact(c) - 1
        BY ONLY <1>type, <1>exact, <1>exact2, <2>2, <3>1
    <3>3. waiting'[c] = ((Exact(c) % Wrap) - 1) % Wrap
        BY <1>inv, <2>1, <2>3 DEF TypeOK
    <3> QED BY ONLY <1>type, <3>2, <3>3, ModDec
  <2>4. CASE cl[t] # c
    <3>1. done' = done
        BY <2>1, <2>4, AtMoves DEF At, done
    <3>2. waiting'[c] = waiting[c]
        BY <2>1, <2>4 DEF TypeOK
    <3> QED BY <1>frame, <2>2, <3>1, <3>2
  <2> QED BY <2>3, <2>4
<1>5. ASSUME NEW t \in Thread,
             pc[t] \notin {"complete", "count"}, pc'[t] \notin {"complete", "count"},
             \A u \in Thread \ {t} : pc'[u] = pc[u] /\ cl'[u] = cl[u],
             UNCHANGED <<posted, cqe, waiting>>
      PROVE  waiting'[c] = Exact(c)' % Wrap
  <2>1. done' = done /\ uncounted' = uncounted
      BY <1>5, AtMoves DEF At, done, uncounted
  <2>2. Outstanding(c)' = Outstanding(c)
      BY <1>5 DEF Outstanding
  <2> QED BY <1>5, <1>frame, <2>1, <2>2
<1>6. ASSUME NEW t \in Thread,
             \/ StartRefill(t) \/ NextClient(t) \/ RefillReturns(t) \/ GetRegion(t)
             \/ PostFails(t) \/ ReleaseRegion(t)
      PROVE  waiting'[c] = Exact(c)' % Wrap
    BY <1>5, <1>6 DEF TypeOK, StartRefill, NextClient, RefillReturns, GetRegion, PostFails,
                      ReleaseRegion
<1>7. ASSUME NEW t \in Thread, CheckCount(t) \/ CanAllocate(t)
      PROVE  waiting'[c] = Exact(c)' % Wrap
  <2>1. PICK l \in {"can", "next", "get", "check"} : /\ pc[t] \in {"check", "can"}
                                                    /\ pc' = [pc EXCEPT ![t] = l]
                                                    /\ UNCHANGED <<posted, cqe, waiting, cl>>
      BY <1>7 DEF CheckCount, CanAllocate
  <2> QED BY <1>5, <2>1 DEF TypeOK
<1>8. ASSUME NEW d \in Client, Arrive(d) PROVE waiting'[c] = Exact(c)' % Wrap
  <2>1. /\ posted' = [posted EXCEPT ![d] = posted[d] - 1] /\ posted[d] > 0
        /\ cqe' = [cqe EXCEPT ![d] = cqe[d] + 1]
        /\ UNCHANGED <<waiting, pc, cl>>
      BY <1>8 DEF Arrive
  <2>2. done' = done /\ uncounted' = uncounted
      BY <2>1 DEF At, done, uncounted
  <2>3. Outstanding(c)' = Outstanding(c)
      BY <2>1, ArrivedOne
  <2> QED BY <1>frame, <2>1, <2>2, <2>3
<1>9. CASE UNCHANGED vars
    BY <1>9, <1>frame DEF vars, Outstanding, At, done, uncounted
<1> QED BY <1>1, <1>2, <1>3, <1>4, <1>6, <1>7, <1>8, <1>9 DEF Next, Refill, Callback

-----------------------------------------------------------------------------
(* The receives that are out *)

\* Threads that hold a receive not counted, threads that will post one and one
\* thread more are at most all threads.
LEMMA Disjoint ==
    ASSUME NEW c \in Client, NEW t \in Thread, pc[t] = "check"
    PROVE  Cardinality(At(c, {"count"})) + Cardinality(Refilling(c)) + 1 <= Cardinality(Thread)
<1> DEFINE A == At(c, {"count"})
           B == Refilling(c)
<1>1. A \in SUBSET Thread /\ B \in SUBSET Thread /\ A \cup B \cup {t} \in SUBSET Thread
    BY DEF At, Refilling
<1>2. A \cap B = {} /\ t \notin A \cup B
    BY DEF At, Refilling
<1> HIDE DEF A, B
<1>3. /\ IsFiniteSet(A) /\ IsFiniteSet(B)
      /\ Cardinality(A) \in Nat /\ Cardinality(B) \in Nat
    BY ONLY <1>1, ThreadSet
<1>4. /\ IsFiniteSet(A \cup B)
      /\ Cardinality(A \cup B) = Cardinality(A) + Cardinality(B) - Cardinality(A \cap B)
    BY ONLY <1>3, FS_Union
<1>5. Cardinality(A \cap B) = 0
    BY ONLY <1>2, FS_EmptySet
<1>6. Cardinality(A \cup B \cup {t}) = Cardinality(A \cup B) + 1
    BY ONLY <1>2, <1>4, FS_AddElement
<1>7. Cardinality(A \cup B \cup {t}) <= Cardinality(Thread) /\ Cardinality(Thread) \in Nat
    BY ONLY <1>1, ThreadSet
<1>8. Cardinality(A) + Cardinality(B) + 1 <= Cardinality(Thread)
    BY ONLY <1>3, <1>4, <1>5, <1>6, <1>7
<1> QED BY <1>8 DEF A, B

\* A thread that finds the counter low finds few receives out, other than those
\* of threads that have not counted them.
LEMMA CounterLow ==
    ASSUME TypeOK, WaitingExact, OvershootBounded, NEW c \in Client, waiting[c] < Preposts
    PROVE  Outstanding(c) < Preposts + Cardinality(At(c, {"count"}))
<1> DEFINE done == Cardinality(At(c, {"complete"}))
           uncounted == Cardinality(At(c, {"count"}))
           ref == Cardinality(Refilling(c))
           N == Cardinality(Thread)
<1>1. /\ Outstanding(c) \in Nat /\ done \in Nat /\ uncounted \in Nat /\ ref \in Nat
      /\ done <= N /\ uncounted <= N /\ N \in Nat
      /\ Wrap \in Nat \ {0} /\ Preposts \in Nat \ {0} /\ Wrap > Preposts + 2 * N
    BY ClientTypes DEF Refilling
<1>2. waiting[c] = (Outstanding(c) + done - uncounted) % Wrap
    BY DEF WaitingExact
<1>3. Outstanding(c) + ref <= Preposts + N - 1
    BY DEF OvershootBounded, Refilling
<1> HIDE DEF done, uncounted, ref, N
<1> DEFINE x == Outstanding(c) + done - uncounted
<1>4. x \in Int /\ x < Wrap /\ x >= -N
    BY ONLY <1>1, <1>3
<1>5. waiting[c] = x % Wrap
    BY <1>2
<1>6. CASE x >= 0
  <2>1. waiting[c] = x
    <3> HIDE DEF x
    <3> QED BY ONLY <1>1, <1>4, <1>5, <1>6
  <2>2. x < Preposts
      BY <2>1
  <2>3. Outstanding(c) < Preposts + uncounted
      BY ONLY <1>1, <2>2
  <2> QED BY <2>3 DEF uncounted
<1>7. CASE x < 0
  <2> HIDE DEF x
  <2>1. waiting[c] = x + Wrap
      BY ONLY <1>1, <1>4, <1>5, <1>7
  <2>2. waiting[c] >= Preposts
      BY ONLY <1>1, <1>4, <2>1
  <2> QED BY <1>1, <1>4, <2>1, <2>2
<1> QED BY <1>4, <1>6, <1>7

\* Threads that pass the test together overshoot by less than their number.
LEMMA OvershootStep ==
    TypeOK /\ ThreadInv /\ WaitingExact /\ OvershootBounded /\ [Next]_vars => OvershootBounded'
<1> DEFINE N == Cardinality(Thread)
           ref(c) == Cardinality(Refilling(c))
<1> SUFFICES ASSUME TypeOK, ThreadInv, WaitingExact, OvershootBounded, [Next]_vars,
                    NEW c \in Client
             PROVE  Outstanding(c)' + ref(c)' <= Preposts + N - 1
    BY DEF OvershootBounded, Refilling
<1> USE DEF Goto
<1>type. /\ Outstanding(c) \in Nat /\ ref(c) \in Nat /\ N \in Nat /\ Preposts \in Nat
    BY ClientTypes DEF Refilling
<1>inv. Outstanding(c) + ref(c) <= Preposts + N - 1
    BY DEF OvershootBounded, Refilling
<1>moves. ASSUME NEW t \in Thread,
                 \A u \in Thread \ {t} : pc'[u] = pc[u] /\ cl'[u] = cl[u]
          PROVE  /\ (t \in Refilling(c) <=> t \in Refilling(c)') => ref(c)' = ref(c)
                 /\ t \notin Refilling(c) /\ t \in Refilling(c)' => ref(c)' = ref(c) + 1
                 /\ t \in Refilling(c) /\ t \notin Refilling(c)' => ref(c)' = ref(c) - 1
    BY <1>moves, AtMoves DEF Refilling
<1> HIDE DEF N, ref
<1>1. ASSUME NEW t \in Thread, CheckCount(t)
      PROVE  Outstanding(c)' + ref(c)' <= Preposts + N - 1
  <2>1. /\ cl[t] \in Client /\ pc[t] = "check" /\ cl' = cl
        /\ \A u \in Thread \ {t} : pc'[u] = pc[u] /\ cl'[u] = cl[u]
        /\ Outstanding(c)' = Outstanding(c)
      BY <1>1 DEF CheckCount, ThreadInv, TypeOK, Outstanding
  <2>2. CASE cl[t] = c /\ waiting[c] < Preposts
    <3>1. pc'[t] = "can"
        BY <1>1, <2>2 DEF CheckCount, TypeOK
    <3>2. t \notin Refilling(c) /\ t \in Refilling(c)'
        BY <2>1, <2>2, <3>1 DEF Refilling, At
    <3>3. ref(c)' = ref(c) + 1
        BY ONLY <1>moves, <2>1, <3>2, t \in Thread
    <3>4. Outstanding(c) < Preposts + Cardinality(At(c, {"count"}))
        BY <2>2, CounterLow
    <3>5. Cardinality(At(c, {"count"})) + ref(c) + 1 <= N
        BY <2>1, Disjoint DEF N, ref
    <3>6. Cardinality(At(c, {"count"})) \in Nat
        BY ClientTypes
    <3> QED BY ONLY <1>type, <2>1, <3>3, <3>4, <3>5, <3>6
  <2>3. CASE ~(cl[t] = c /\ waiting[c] < Preposts)
    <3>1. cl[t] # c \/ pc'[t] = "next"
        BY <1>1, <2>3 DEF CheckCount, TypeOK
    <3>2. t \notin Refilling(c) /\ t \notin Refilling(c)'
        BY <2>1, <3>1 DEF Refilling, At
    <3>3. ref(c)' = ref(c)
        BY ONLY <1>moves, <2>1, <3>2, t \in Thread
    <3> QED BY <1>inv, <2>1, <3>3
  <2> QED BY <2>2, <2>3
<1>2. ASSUME NEW t \in Thread, PostReceive(t)
      PROVE  Outstanding(c)' + ref(c)' <= Preposts + N - 1
  <2>1. /\ cl[t] \in Client /\ pc[t] = "post" /\ pc'[t] = "count" /\ cl' = cl
        /\ \A u \in Thread \ {t} : pc'[u] = pc[u] /\ cl'[u] = cl[u]
      BY <1>2 DEF PostReceive, ThreadInv, TypeOK
  <2>2. Outstanding(c)' = Outstanding(c) + (IF cl[t] = c THEN 1 ELSE 0)
      BY <1>2, <2>1, PostedOne DEF PostReceive
  <2>3. CASE cl[t] = c
    <3>1. t \in Refilling(c) /\ t \notin Refilling(c)'
        BY <2>1, <2>3 DEF Refilling, At
    <3>2. ref(c)' = ref(c) - 1
        BY ONLY <1>moves, <2>1, <3>1, t \in Thread
    <3> QED BY ONLY <1>type, <1>inv, <2>2, <2>3, <3>2
  <2>4. CASE cl[t] # c
    <3>1. t \notin Refilling(c) /\ t \notin Refilling(c)'
        BY <2>1, <2>4 DEF Refilling, At
    <3>2. ref(c)' = ref(c)
        BY ONLY <1>moves, <2>1, <3>1, t \in Thread
    <3> QED BY ONLY <1>type, <1>inv, <2>2, <2>4, <3>2
  <2> QED BY <2>3, <2>4
<1>3. ASSUME NEW t \in Thread,
             Outstanding(c)' \in Nat, Outstanding(c)' <= Outstanding(c),
             \A u \in Thread \ {t} : pc'[u] = pc[u] /\ cl'[u] = cl[u],
             t \in Refilling(c)' => t \in Refilling(c)
      PROVE  Outstanding(c)' + ref(c)' <= Preposts + N - 1
  <2>1. ref(c)' = ref(c) \/ ref(c)' = ref(c) - 1
      BY ONLY <1>moves, <1>3
  <2> QED BY ONLY <1>type, <1>inv, <1>3, <2>1
<1>4. ASSUME NEW t \in Thread, NEW d \in Client, PollCompletion(t, d)
      PROVE  Outstanding(c)' + ref(c)' <= Preposts + N - 1
  <2>1. /\ pc[t] = "idle" /\ pc'[t] = "complete"
        /\ \A u \in Thread \ {t} : pc'[u] = pc[u] /\ cl'[u] = cl[u]
      BY <1>4 DEF PollCompletion, TypeOK
  <2>2. /\ Outstanding(c)' = Outstanding(c) - (IF d = c THEN 1 ELSE 0)
        /\ Outstanding(c)' \in Nat
      BY <1>4, PolledOne DEF PollCompletion
  <2>3. Outstanding(c)' <= Outstanding(c)
      BY ONLY <1>type, <2>2
  <2>4. t \notin Refilling(c)'
      BY <2>1 DEF Refilling, At
  <2> QED BY ONLY <1>3, <2>1, <2>2, <2>3, <2>4, t \in Thread
<1>5. ASSUME NEW t \in Thread, PostFails(t) \/ CanAllocate(t) \/ GetRegion(t)
      PROVE  Outstanding(c)' + ref(c)' <= Preposts + N - 1
  <2>1. /\ UNCHANGED <<posted, cqe>>
        /\ \A u \in Thread \ {t} : pc'[u] = pc[u] /\ cl'[u] = cl[u]
      BY <1>5 DEF PostFails, CanAllocate, GetRegion, TypeOK
  <2>2. pc[t] \in {"can", "get", "post"} /\ (cl'[t] = cl[t] \/ pc'[t] = "idle")
      BY <1>5 DEF PostFails, CanAllocate, GetRegion, TypeOK
  <2>3. t \in Refilling(c)' => t \in Refilling(c)
      BY <2>2 DEF Refilling, At
  <2>4. Outstanding(c)' = Outstanding(c)
      BY <2>1 DEF Outstanding
  <2>5. Outstanding(c)' \in Nat /\ Outstanding(c)' <= Outstanding(c)
      BY ONLY <1>type, <2>4
  <2> QED BY ONLY <1>3, <2>1, <2>3, <2>5, t \in Thread
<1>6. ASSUME NEW t \in Thread,
             \/ StartRefill(t) \/ NextClient(t) \/ RefillReturns(t) \/ PushReceive(t)
             \/ PopReceive(t) \/ ReleaseRegion(t)
      PROVE  Outstanding(c)' + ref(c)' <= Preposts + N - 1
  <2>1. /\ UNCHANGED <<posted, cqe>>
        /\ \A u \in Thread \ {t} : pc'[u] = pc[u] /\ cl'[u] = cl[u]
        /\ pc'[t] \notin {"can", "get", "post"}
      BY <1>6 DEF StartRefill, NextClient, RefillReturns, PushReceive, PopReceive,
                  ReleaseRegion, TypeOK
  <2>2. t \notin Refilling(c)'
      BY <2>1 DEF Refilling, At
  <2>3. Outstanding(c)' = Outstanding(c)
      BY <2>1 DEF Outstanding
  <2>4. Outstanding(c)' \in Nat /\ Outstanding(c)' <= Outstanding(c)
      BY ONLY <1>type, <2>3
  <2> QED BY ONLY <1>3, <2>1, <2>2, <2>4, t \in Thread
<1>7. ASSUME Outstanding(c)' = Outstanding(c), UNCHANGED <<pc, cl>>
      PROVE  Outstanding(c)' + ref(c)' <= Preposts + N - 1
    BY <1>7, <1>inv DEF ref, Refilling, At
<1>8. ASSUME NEW d \in Client, Arrive(d)
      PROVE  Outstanding(c)' + ref(c)' <= Preposts + N - 1
  <2>1. Outstanding(c)' = Outstanding(c)
      BY <1>8, ArrivedOne DEF Arrive
  <2> QED BY <1>7, <1>8, <2>1 DEF Arrive
<1>9. CASE UNCHANGED vars
    BY <1>7, <1>9 DEF vars, Outstanding
<1> QED BY <1>1, <1>2, <1>4, <1>5, <1>6, <1>8, <1>9 DEF Next, Refill, Callback

-----------------------------------------------------------------------------
(* The regions *)

\* The receives after a post for client d, which is the last of them, ...
LEMMA ReceivesUp ==
    ASSUME TypeOK, IsFiniteSet(Receives), NEW d \in Client,
           \A c \in Client : Outstanding(c)' = Outstanding(c) + (IF d = c THEN 1 ELSE 0)
    PROVE  IsFiniteSet(Receives') /\ Cardinality(Receives') = Cardinality(Receives) + 1
<1>1. \A c \in Client : Outstanding(c) \in Nat
    BY ClientTypes
<1> DEFINE r == <<d, Outstanding(d) + 1>>
<1>2. r \notin Receives
    BY <1>1 DEF Receives
<1>3. Receives' = Receives \cup {r}
  <2>1. ASSUME NEW c \in Client, NEW i
        PROVE  i \in 1..(Outstanding(c)') <=> (i \in 1..Outstanding(c) \/ <<c, i>> = r)
      BY <1>1
  <2>2. \A x : x \in Receives' <=> \E c \in Client : \E i \in 1..(Outstanding(c)') : x = <<c, i>>
      BY DEF Receives
  <2>3. \A x : x \in Receives <=> \E c \in Client : \E i \in 1..Outstanding(c) : x = <<c, i>>
      BY DEF Receives
  <2>4. \A x : x \in Receives' => x \in Receives \cup {r}
      BY <2>1, <2>2, <2>3
  <2>5. Outstanding(d) + 1 \in 1..(Outstanding(d)')
      BY <1>1
  <2>6. \A x : x \in Receives \cup {r} => x \in Receives'
      BY <2>1, <2>2, <2>3, <2>5
  <2> QED BY <2>4, <2>6
<1> QED BY ONLY <1>2, <1>3, FS_AddElement, IsFiniteSet(Receives)

\* ... and after a completion of client d was taken from its queue.
LEMMA ReceivesDown ==
    ASSUME TypeOK, IsFiniteSet(Receives), NEW d \in Client, Outstanding(d)' \in Nat,
           \A c \in Client : Outstanding(c)' = Outstanding(c) - (IF d = c THEN 1 ELSE 0)
    PROVE  IsFiniteSet(Receives') /\ Cardinality(Receives') = Cardinality(Receives) - 1
<1>1. \A c \in Client : Outstanding(c) \in Nat
    BY ClientTypes
<1>2. Outstanding(d) \in 1..Outstanding(d)
    BY <1>1
<1> DEFINE r == <<d, Outstanding(d)>>
<1>3. r \in Receives
    BY <1>2 DEF Receives
<1>4. Receives' = Receives \ {r}
  <2>1. ASSUME NEW c \in Client, NEW i
        PROVE  i \in 1..(Outstanding(c)') <=> (i \in 1..Outstanding(c) /\ <<c, i>> # r)
      BY <1>1
  <2>2. \A x : x \in Receives' <=> \E c \in Client : \E i \in 1..(Outstanding(c)') : x = <<c, i>>
      BY DEF Receives
  <2>3. \A x : x \in Receives <=> \E c \in Client : \E i \in 1..Outstanding(c) : x = <<c, i>>
      BY DEF Receives
  <2>4. \A x : x \in Receives' => x \in Receives \ {r}
      BY <2>1, <2>2, <2>3
  <2>5. \A x : x \in Receives \ {r} => x \in Receives'
      BY <2>1, <2>2, <2>3
  <2> QED BY <2>4, <2>5
<1> QED BY ONLY <1>3, <1>4, FS_RemoveElement, IsFiniteSet(Receives)

\* Every step hands a region on, or keeps it where it is.
LEMMA RegionsStep ==
    TypeOK /\ ThreadInv /\ IsFiniteSet(Receives) /\ RegionsConserved /\ [Next]_vars
    => IsFiniteSet(Receives)' /\ RegionsConserved'
<1> DEFINE held == Cardinality(Holding)
           out == Cardinality(Receives)
           Goal == IsFiniteSet(Receives)' /\ RegionsConserved'
<1> SUFFICES ASSUME TypeOK, ThreadInv, IsFiniteSet(Receives), RegionsConserved, [Next]_vars
             PROVE  Goal
    OBVIOUS
<1> USE DEF Goto
<1>type. /\ free \in Nat /\ lost \in Nat /\ held \in Nat /\ out \in Nat
  <2>1. held \in Nat
      BY ThreadSet DEF Holding
  <2>2. out \in Nat
      BY FS_CardinalityType
  <2> QED BY <2>1, <2>2, PrepostsAssumption DEF TypeOK
<1>inv. free + lost + held + out = NumRegions
    BY DEF RegionsConserved, Holding
<1>goal. ASSUME IsFiniteSet(Receives'), free' + lost' + held' + out' = NumRegions PROVE Goal
    BY <1>goal DEF RegionsConserved, Holding
<1>moves. ASSUME NEW t \in Thread, \A u \in Thread \ {t} : pc'[u] = pc[u]
          PROVE  /\ (t \in Holding <=> t \in Holding') => held' = held
                 /\ t \notin Holding /\ t \in Holding' => held' = held + 1
                 /\ t \in Holding /\ t \notin Holding' => held' = held - 1
  <2>1. Holding \in SUBSET Thread /\ Holding' \in SUBSET Thread
      BY DEF Holding
  <2>2. \A u \in Thread \ {t} : u \in Holding <=> u \in Holding'
      BY <1>moves DEF Holding
  <2> QED BY ONLY <2>1, <2>2, OneMoves, t \in Thread
<1>same. ASSUME UNCHANGED <<posted, cqe>> PROVE Receives' = Receives /\ out' = out
    BY <1>same DEF Receives, Outstanding
<1> HIDE DEF held, out, Goal
<1>1. ASSUME NEW t \in Thread, GetRegion(t) PROVE Goal
  <2>1. /\ pc[t] = "get" /\ pc'[t] = "post" /\ \A u \in Thread \ {t} : pc'[u] = pc[u]
        /\ free' = free - 1 /\ lost' = lost
      BY <1>1 DEF GetRegion, TypeOK
  <2>2. t \notin Holding /\ t \in Holding'
      BY <2>1 DEF Holding
  <2>3. held' = held + 1
      BY ONLY <1>moves, <2>1, <2>2, t \in Thread
  <2>4. Receives' = Receives /\ out' = out
      BY <1>1, <1>same DEF GetRegion
  <2>5. free' + lost' + held' + out' = NumRegions
      BY ONLY <1>type, <1>inv, <2>1, <2>3, <2>4
  <2> QED BY <1>goal, <2>4, <2>5
<1>2. ASSUME NEW t \in Thread, PostReceive(t) PROVE Goal
  <2>1. /\ pc[t] = "post" /\ pc'[t] = "count" /\ \A u \in Thread \ {t} : pc'[u] = pc[u]
        /\ free' = free /\ lost' = lost /\ cl[t] \in Client
      BY <1>2 DEF PostReceive, TypeOK, ThreadInv
  <2>2. t \in Holding /\ t \notin Holding'
      BY <2>1 DEF Holding
  <2>3. held' = held - 1
      BY ONLY <1>moves, <2>1, <2>2, t \in Thread
  <2>4. \A c \in Client : Outstanding(c)' = Outstanding(c) + (IF cl[t] = c THEN 1 ELSE 0)
      BY <1>2, <2>1, PostedOne DEF PostReceive
  <2>5. IsFiniteSet(Receives') /\ out' = out + 1
      BY <2>1, <2>4, ReceivesUp DEF out
  <2>6. free' + lost' + held' + out' = NumRegions
      BY ONLY <1>type, <1>inv, <2>1, <2>3, <2>5
  <2> QED BY <1>goal, <2>5, <2>6
<1>3. ASSUME NEW t \in Thread, PostFails(t) PROVE Goal
  <2>1. /\ pc[t] = "post" /\ pc'[t] = "idle" /\ \A u \in Thread \ {t} : pc'[u] = pc[u]
        /\ free' = free /\ lost' = lost + 1
      BY <1>3 DEF PostFails, TypeOK
  <2>2. t \in Holding /\ t \notin Holding'
      BY <2>1 DEF Holding
  <2>3. held' = held - 1
      BY ONLY <1>moves, <2>1, <2>2, t \in Thread
  <2>4. Receives' = Receives /\ out' = out
      BY <1>3, <1>same DEF PostFails
  <2>5. free' + lost' + held' + out' = NumRegions
      BY ONLY <1>type, <1>inv, <2>1, <2>3, <2>4
  <2> QED BY <1>goal, <2>4, <2>5
<1>4. ASSUME NEW t \in Thread, NEW d \in Client, PollCompletion(t, d) PROVE Goal
  <2>1. /\ pc[t] = "idle" /\ pc'[t] = "complete" /\ \A u \in Thread \ {t} : pc'[u] = pc[u]
        /\ free' = free /\ lost' = lost
      BY <1>4 DEF PollCompletion, TypeOK
  <2>2. t \notin Holding /\ t \in Holding'
      BY <2>1 DEF Holding
  <2>3. held' = held + 1
      BY ONLY <1>moves, <2>1, <2>2, t \in Thread
  <2>4. \A c \in Client : /\ Outstanding(c)' = Outstanding(c) - (IF d = c THEN 1 ELSE 0)
                          /\ Outstanding(c)' \in Nat
      BY <1>4, PolledOne DEF PollCompletion
  <2>5. IsFiniteSet(Receives') /\ out' = out - 1
      BY <2>4, ReceivesDown DEF out
  <2>6. free' + lost' + held' + out' = NumRegions
      BY ONLY <1>type, <1>inv, <2>1, <2>3, <2>5
  <2> QED BY <1>goal, <2>5, <2>6
<1>5. ASSUME NEW t \in Thread, ReleaseRegion(t) PROVE Goal
  <2>1. /\ pc[t] = "release" /\ pc'[t] = "idle" /\ \A u \in Thread \ {t} : pc'[u] = pc[u]
        /\ free' = free + 1 /\ lost' = lost
      BY <1>5 DEF ReleaseRegion, TypeOK
  <2>2. t \in Holding /\ t \notin Holding'
      BY <2>1 DEF Holding
  <2>3. held' = held - 1
      BY ONLY <1>moves, <2>1, <2>2, t \in Thread
  <2>4. Receives' = Receives /\ out' = out
      BY <1>5, <1>same DEF ReleaseRegion
  <2>5. free' + lost' + held' + out' = NumRegions
      BY ONLY <1>type, <1>inv, <2>1, <2>3, <2>4
  <2> QED BY <1>goal, <2>4, <2>5
<1>6. ASSUME UNCHANGED <<free, lost, posted, cqe>>, Holding' = Holding PROVE Goal
  <2>1. held' = held
      BY <1>6 DEF held
  <2> QED BY <1>6, <1>inv, <1>goal, <1>same, <2>1
<1>7. ASSUME NEW t \in Thread,
             \/ StartRefill(t) \/ NextClient(t) \/ RefillReturns(t) \/ CheckCount(t)
             \/ CanAllocate(t) \/ PushReceive(t) \/ PopReceive(t)
      PROVE  Goal
  <2>1. /\ UNCHANGED <<free, lost, posted, cqe>>
        /\ \A u \in Thread \ {t} : pc'[u] = pc[u]
        /\ pc[t] \in {"post", "complete", "release"} <=> pc'[t] \in {"post", "complete", "release"}
      BY <1>7 DEF StartRefill, NextClient, RefillReturns, CheckCount, CanAllocate, PushReceive,
                  PopReceive, TypeOK
  <2>2. Holding' = Holding
      BY <2>1 DEF Holding
  <2> QED BY <1>6, <2>1, <2>2
<1>8. ASSUME NEW d \in Client, Arrive(d) PROVE Goal
  <2>1. \A c \in Client : Outstanding(c)' = Outstanding(c)
      BY <1>8, ArrivedOne DEF Arrive
  <2>2. Receives' = Receives
      BY <2>1 DEF Receives
  <2>3. out' = out /\ held' = held /\ free' = free /\ lost' = lost
      BY <1>8, <2>2 DEF Arrive, Holding, held, out
  <2> QED BY <1>inv, <1>goal, <2>2, <2>3
<1>9. CASE UNCHANGED vars
    BY <1>6, <1>9 DEF vars, Holding
<1>10. Goal
    BY <1>1, <1>2, <1>3, <1>4, <1>5, <1>7, <1>8, <1>9 DEF Next, Refill, Callback
<1> QED BY <1>10

-----------------------------------------------------------------------------
(* The theorems *)

\* A pool that nobody has used yet, and clients without receives.
LEMMA InitInv == Init => IInv
<1> SUFFICES ASSUME Init PROVE IInv
    OBVIOUS
<1>0. Cardinality(Thread) \in Nat
    BY ThreadSet
<1>1. /\ Preposts \in Nat \ {0} /\ Wrap \in Nat \ {0} /\ NumRegions \in Nat /\ MaxLost \in Nat
      /\ NoClient \notin Client /\ (Thread # {} => Cardinality(Thread) >= 1)
  <2>1. Thread # {} => Cardinality(Thread) # 0
      BY PrepostsAssumption, FS_EmptySet
  <2> QED BY <1>0, <2>1, PrepostsAssumption
<1>2. TypeOK /\ ThreadInv
    BY <1>1 DEF Init, TypeOK, ThreadInv, PC
<1>3. \A c \in Client : Outstanding(c) = 0
    BY DEF Init, Outstanding
<1>4. \A c \in Client : \A L : "idle" \notin L => At(c, L) = {}
    BY DEF Init, At
<1>5. Cardinality({}) = 0 /\ IsFiniteSet({})
    BY FS_EmptySet
<1>6. WaitingExact
  <2>1. \A c \in Client : Cardinality(At(c, {"complete"})) = 0 /\ Cardinality(At(c, {"count"})) = 0
      BY <1>4, <1>5
  <2>2. \A c \in Client : waiting[c] = 0 /\ (0 + 0 - 0) % Wrap = 0
      BY <1>1 DEF Init
  <2> QED BY <1>3, <2>1, <2>2 DEF WaitingExact
<1>7. OvershootBounded
  <2>1. \A c \in Client : Cardinality(At(c, {"can", "get", "post"})) = 0
      BY <1>4, <1>5
  <2>2. 0 + 0 <= Preposts + Cardinality(Thread) - 1
      BY <1>0, <1>1
  <2> QED BY <1>3, <2>1, <2>2 DEF OvershootBounded
<1>8. Receives = {}
    BY <1>3 DEF Receives
<1>9. RegionsConserved
  <2>1. {t \in Thread : pc[t] \in {"post", "complete", "release"}} = {}
      BY DEF Init
  <2>2. free = NumRegions /\ lost = 0
      BY DEF Init
  <2> QED BY <1>1, <1>5, <1>8, <2>1, <2>2 DEF RegionsConserved
<1> QED BY <1>2, <1>5, <1>6, <1>7, <1>8, <1>9 DEF IInv

\* Every reachable state satisfies the inductive invariant.
THEOREM Invariance == Spec => []IInv
<1>1. IInv /\ [Next]_vars => IInv'
    BY TypeStep, WaitingStep, OvershootStep, RegionsStep DEF IInv
<1> QED BY <1>1, InitInv, PTL DEF Spec

\* The state of the clients and of the threads is always well typed: the counter
\* stays in its range although it is decremented below zero.
THEOREM TypeCorrect == Spec => []TypeOK
<1>1. IInv => TypeOK
    BY DEF IInv
<1> QED BY <1>1, Invariance, PTL

\* For any number of threads, _waitingReceives is off by no more than the pushReceive
\* and popReceive still to come, modulo its range.
THEOREM CounterCorrect == Spec => []WaitingExact
<1>1. IInv => WaitingExact
    BY DEF IInv
<1> QED BY <1>1, Invariance, PTL

\* For any number of threads, concurrent refill_preposts leave a client with less
\* than one receive per thread more than asked for.
THEOREM OvershootCorrect == Spec => []OvershootBounded
<1>1. IInv => OvershootBounded
    BY DEF IInv
<1> QED BY <1>1, Invariance, PTL

\* For any number of clients and threads, only a failed post loses a region.
THEOREM RegionsCorrect == Spec => []RegionsConserved
<1>1. IInv => RegionsConserved
    BY DEF IInv
<1> QED BY <1>1, Invariance, PTL

\* With a pool of the size EnoughRegions asks for no refill ever finds the pool
\* empty, neither at canAllocateRegionUnsafe nor at the pop that follows: the
\* overshoot leaves room for the receive this thread is about to post, and every
\* other thread holds at most one region.
THEOREM RefillCorrect == Spec => []RefillNeverWaits
<1>1. IInv => RefillNeverWaits
  <2> SUFFICES ASSUME IInv, EnoughRegions, NEW t \in Thread, pc[t] \in {"can", "get"}
               PROVE  free > 0
      BY DEF RefillNeverWaits
  <2> DEFINE T == Cardinality(Thread)
             n == Preposts + T - 1
             All == Client \X (1..n)
             H == {u \in Thread : pc[u] \in {"post", "complete", "release"}}
  <2>1. PICK c \in Client : c = cl[t]
      BY DEF IInv, ThreadInv
  <2>2. /\ IsFiniteSet(Thread) /\ IsFiniteSet(Client)
        /\ Preposts \in Nat \ {0} /\ NumRegions \in Nat /\ MaxLost \in Nat
      BY PrepostsAssumption
  <2>3. T \in Nat /\ Cardinality(Client) \in Nat
      BY <2>2, FS_CardinalityType
  <2>4. Cardinality(H) \in Nat /\ Cardinality(H) <= T - 1
    <3>1. H \subseteq Thread \ {t}
        OBVIOUS
    <3>2. IsFiniteSet(Thread \ {t}) /\ Cardinality(Thread \ {t}) = T - 1
        BY <2>2, FS_RemoveElement
    <3> HIDE DEF H
    <3>3. IsFiniteSet(H) /\ Cardinality(H) <= Cardinality(Thread \ {t})
        BY ONLY <3>1, <3>2, FS_Subset
    <3> QED BY <3>2, <3>3, FS_CardinalityType
  <2>5. T >= 1
    <3>1. Cardinality({t}) = 1 /\ {t} \subseteq Thread
        BY FS_Singleton
    <3> QED BY <2>2, <2>3, <3>1, FS_Subset
  <2>6. n \in Nat \ {0}
      BY ONLY <2>2, <2>3, <2>5
  <2>7. \A b \in Client : /\ Outstanding(b) \in Nat
                          /\ Cardinality(Refilling(b)) \in Nat
                          /\ Outstanding(b) + Cardinality(Refilling(b)) <= n
    <3> SUFFICES ASSUME NEW b \in Client
                 PROVE  /\ Outstanding(b) \in Nat
                        /\ Cardinality(Refilling(b)) \in Nat
                        /\ Outstanding(b) + Cardinality(Refilling(b)) <= n
        OBVIOUS
    <3>1. Outstanding(b) \in Nat
        BY DEF IInv, TypeOK, Outstanding
    <3>2. Refilling(b) \in SUBSET Thread
        BY DEF Refilling, At
    <3>3. Cardinality(Refilling(b)) \in Nat
        BY <3>2, ThreadSet
    <3> QED BY <3>1, <3>3 DEF IInv, OvershootBounded, Refilling
  <2>8. Cardinality(Refilling(c)) >= 1
    <3>1. {t} \subseteq Refilling(c) /\ Refilling(c) \in SUBSET Thread
        BY <2>1 DEF Refilling, At
    <3>2. IsFiniteSet(Refilling(c))
        BY <3>1, ThreadSet
    <3>3. Cardinality({t}) <= Cardinality(Refilling(c))
        BY <3>1, <3>2, FS_Subset
    <3> QED BY <3>3, FS_Singleton
  <2> HIDE DEF T, n, H
  <2>9. Outstanding(c) < n /\ \A b \in Client : Outstanding(b) <= n
      BY <2>6, <2>7, <2>8
  <2>10. Receives \subseteq All \ {<<c, n>>}
    <3> SUFFICES ASSUME NEW b \in Client, NEW i \in 1..Outstanding(b)
                 PROVE  <<b, i>> \in All \ {<<c, n>>}
        BY DEF Receives
    <3>1. Outstanding(b) \in Nat /\ Outstanding(b) <= n
        BY <2>7, <2>9
    <3>2. i \in 1..n
        BY <2>6, <3>1
    <3>3. b = c => i # n
        BY <2>6, <2>9, <3>1
    <3> QED BY <3>2, <3>3
  <2>11. IsFiniteSet(All) /\ Cardinality(All) = Cardinality(Client) * n
    <3>1. IsFiniteSet(1..n) /\ Cardinality(1..n) = n
        BY <2>6, FS_Interval
    <3> QED BY <2>2, <3>1, FS_Product
  <2>12. <<c, n>> \in All
      BY <2>6
  <2> HIDE DEF All
  <2>13. /\ IsFiniteSet(All \ {<<c, n>>})
         /\ Cardinality(All \ {<<c, n>>}) = Cardinality(Client) * n - 1
      BY <2>11, <2>12, FS_RemoveElement
  <2>14. Cardinality(Receives) <= Cardinality(Client) * n - 1
      BY <2>10, <2>13, FS_Subset
  <2>15. Cardinality(Receives) \in Nat
      BY FS_CardinalityType DEF IInv
  <2>16. Cardinality(Client) * n \in Nat
      BY <2>3, <2>6
  <2>17. lost \in Nat /\ free \in Nat /\ lost <= MaxLost
      BY <2>2 DEF IInv, TypeOK
  <2>18. free + lost + Cardinality(H) + Cardinality(Receives) = NumRegions
      BY DEF IInv, RegionsConserved, H
  <2>19. NumRegions >= Cardinality(Client) * n + (T - 1) + MaxLost
      BY DEF EnoughRegions, n, T
  <2> QED BY ONLY <2>2, <2>3, <2>4, <2>14, <2>15, <2>16, <2>17, <2>18, <2>19
<1> QED BY <1>1, Invariance, PTL
=============================================================================
