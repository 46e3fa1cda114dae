-------------------------- MODULE MemoryRegionProofs --------------------------
(***************************************************************************)
(* Proofs, for any number of threads, addresses and attempts, of the       *)
(* safety properties of MemoryRegion.                                      *)
(*                                                                         *)
(* RegisteredIsMapped rests on StorageAccounted: what a thread deregisters *)
(* and then unmaps stays without a registration in between only because no *)
(* other thread has the same storage.                                      *)
(***************************************************************************)
EXTENDS MemoryRegion, SequenceTheorems, TLAPS

All == Addr \cup UserAddr

\* What each thread has at hand, by the place where it is.
At(t) ==
    /\ IsInjective(list[t])
    /\ pc[t] = "idle" => buffer[t] = None /\ list[t] = <<>>
    /\ pc[t] # "idle" => region[t] = None
    /\ pc[t] \in {"map", "choose"} => buffer[t] = None
    /\ pc[t] \in {"map", "reg"} => Len(list[t]) < MaxAllocateAttempts
    /\ pc[t] \in {"reg", "drop", "dropUnmap"} => buffer[t] \in Addr /\ buffer[t] \notin Range(list[t])
    /\ pc[t] \in {"choose", "dropUnmap"} => list[t] # <<>>
    /\ pc[t] = "reg64" => buffer[t] \in Addr
    /\ pc[t] = "unmap" => buffer[t] \in All
    /\ pc[t] \in {"reg64", "unmap"} => list[t] = <<>>

ThreadInv == \A t \in Thread : At(t)

\* The storage that t may unmap with its next step.
Going(t) ==
    IF pc[t] = "dropUnmap" THEN {Head(list[t])}
    ELSE IF pc[t] \in {"reg64", "unmap"} THEN {buffer[t]} \ UserAddr
    ELSE {}

\* Storage is mapped while somebody has it or has lost it, and belongs to one.
StoreInv ==
    /\ \A t \in Thread : Owned(t) \subseteq mapped \ lost
    /\ lost \subseteq mapped
    /\ StorageAccounted

\* It is not registered any more when it is unmapped.
RegisteredInv ==
    /\ RegisteredIsMapped
    /\ \A t \in Thread : Going(t) \cap (registered \ stuck) = {}

IInv == TypeOK /\ ThreadInv /\ StoreInv /\ RegisteredInv

-----------------------------------------------------------------------------
(* Lists of attempts *)

\* The elements of a sequence.
LEMMA RangeFacts ==
    ASSUME NEW S, NEW s \in Seq(S)
    PROVE  /\ Len(s) \in Nat
           /\ Range(s) = {s[i] : i \in 1..Len(s)} /\ Range(s) \subseteq S
           /\ IsInjective(s) <=> \A i, j \in 1..Len(s) : s[i] = s[j] => i = j
           /\ s = <<>> <=> Range(s) = {}
BY DEF Range, IsInjective

\* An attempt is added to the list.
LEMMA AppendFacts ==
    ASSUME NEW S, NEW s \in Seq(S), NEW e \in S
    PROVE  /\ Append(s, e) \in Seq(S) /\ Len(Append(s, e)) = Len(s) + 1
           /\ Range(Append(s, e)) = Range(s) \cup {e}
           /\ IsInjective(s) /\ e \notin Range(s) => IsInjective(Append(s, e))
<1> DEFINE t == Append(s, e)
<1>1. /\ t \in Seq(S) /\ Len(t) = Len(s) + 1 /\ Len(s) \in Nat
      /\ \A i \in 1..Len(s) : t[i] = s[i]
      /\ t[Len(s) + 1] = e
    OBVIOUS
<1> HIDE DEF t
<1>2. /\ Range(t) = {t[i] : i \in 1..Len(t)} /\ Range(s) = {s[i] : i \in 1..Len(s)}
      /\ IsInjective(t) <=> \A i, j \in 1..Len(t) : t[i] = t[j] => i = j
      /\ IsInjective(s) <=> \A i, j \in 1..Len(s) : s[i] = s[j] => i = j
    BY <1>1, RangeFacts
<1>3. \A i \in 1..Len(t) : i \in 1..Len(s) \/ i = Len(s) + 1
    BY <1>1
<1>4. 1..Len(s) \subseteq 1..Len(t) /\ Len(s) + 1 \in 1..Len(t)
    BY <1>1
<1>5. Range(t) = Range(s) \cup {e}
    BY <1>1, <1>2, <1>3, <1>4
<1>6. IsInjective(s) /\ e \notin Range(s) => IsInjective(t)
    BY <1>1, <1>2, <1>3
<1> QED BY <1>1, <1>5, <1>6 DEF t

\* The first attempt of the list is dropped.
LEMMA TailFacts ==
    ASSUME NEW S, NEW s \in Seq(S), s # <<>>, IsInjective(s)
    PROVE  /\ Head(s) \in Range(s)
           /\ Tail(s) \in Seq(S) /\ Len(Tail(s)) = Len(s) - 1
           /\ Range(Tail(s)) = Range(s) \ {Head(s)}
           /\ IsInjective(Tail(s))
<1> DEFINE t == Tail(s)
<1>1. /\ t \in Seq(S) /\ Len(t) = Len(s) - 1 /\ Len(s) \in Nat \ {0}
      /\ \A i \in 1..(Len(s) - 1) : t[i] = s[i + 1]
      /\ Head(s) = s[1]
    OBVIOUS
<1> HIDE DEF t
<1>2. /\ Range(t) = {t[i] : i \in 1..Len(t)} /\ Range(s) = {s[i] : i \in 1..Len(s)}
      /\ IsInjective(t) <=> \A i, j \in 1..Len(t) : t[i] = t[j] => i = j
      /\ \A i, j \in 1..Len(s) : s[i] = s[j] => i = j
    BY <1>1, RangeFacts
<1>3. \A i \in 1..Len(t) : i + 1 \in 1..Len(s) /\ i + 1 # 1 /\ t[i] = s[i + 1]
    BY <1>1
<1>4. 1 \in 1..Len(s) /\ \A i \in 1..Len(s) : i # 1 => i - 1 \in 1..Len(t) /\ t[i - 1] = s[i]
    BY <1>1
<1>5. Range(t) = Range(s) \ {s[1]}
  <2>1. ASSUME NEW x \in Range(t) PROVE x \in Range(s) \ {s[1]}
      BY <1>2, <1>3, <1>4
  <2>2. ASSUME NEW x \in Range(s), x # s[1] PROVE x \in Range(t)
    <3>1. PICK i \in 1..Len(s) : x = s[i] /\ i # 1
        BY <1>2, <2>2
    <3>2. i - 1 \in 1..Len(t) /\ t[i - 1] = x
        BY <1>4, <3>1
    <3> QED BY <1>2, <3>2
  <2> QED BY <2>1, <2>2
<1>6. IsInjective(t)
  <2>1. ASSUME NEW i \in 1..Len(t), NEW j \in 1..Len(t), t[i] = t[j] PROVE i = j
    <3>1. i + 1 = j + 1
        BY <1>2, <1>3, <2>1
    <3> QED BY <3>1
  <2> QED BY <1>2, <2>1
<1> QED BY <1>1, <1>2, <1>4, <1>5, <1>6 DEF t

\* The best attempt is taken out of the list.
LEMMA RemoveFacts ==
    ASSUME NEW S, NEW s \in Seq(S), IsInjective(s), NEW k \in 1..Len(s)
    PROVE  /\ s[k] \in Range(s)
           /\ RemoveAt(s, k) \in Seq(S) /\ Len(RemoveAt(s, k)) = Len(s) - 1
           /\ Range(RemoveAt(s, k)) = Range(s) \ {s[k]}
           /\ IsInjective(RemoveAt(s, k))
<1> DEFINE u == SubSeq(s, 1, k - 1)
           v == SubSeq(s, k + 1, Len(s))
           t == RemoveAt(s, k)
<1>0. Len(s) \in Nat /\ k \in Nat /\ 1 <= k /\ k <= Len(s)
    OBVIOUS
<1>1. /\ u \in Seq(S) /\ Len(u) = k - 1 /\ \A i \in 1..(k - 1) : u[i] = s[i]
    BY <1>0
<1>2. /\ v \in Seq(S) /\ Len(v) = Len(s) - k /\ \A i \in 1..(Len(s) - k) : v[i] = s[i + k]
    BY <1>0
<1>3. t = u \o v
    BY DEF RemoveAt
<1> HIDE DEF t, u, v
<1>4. /\ t \in Seq(S) /\ Len(t) = Len(u) + Len(v)
      /\ \A i \in 1..(Len(u) + Len(v)) : t[i] = IF i <= Len(u) THEN u[i] ELSE v[i - Len(u)]
    BY ONLY <1>1, <1>2, <1>3, ConcatProperties
<1>5. Len(t) = Len(s) - 1
    BY <1>0, <1>1, <1>2, <1>4
<1>6. \A i \in 1..Len(t) : t[i] = s[IF i < k THEN i ELSE i + 1]
  <2> SUFFICES ASSUME NEW i \in 1..Len(t) PROVE t[i] = s[IF i < k THEN i ELSE i + 1]
      OBVIOUS
  <2>0. i \in Nat /\ 1 <= i /\ i <= Len(s) - 1
      BY <1>0, <1>5
  <2>1. CASE i < k
    <3>1. i \in 1..(k - 1) /\ i <= Len(u) /\ i \in 1..(Len(u) + Len(v))
        BY <1>0, <1>1, <1>2, <2>0, <2>1
    <3> QED BY <1>1, <1>4, <2>1, <3>1
  <2>2. CASE ~(i < k)
    <3>1. /\ ~(i <= Len(u)) /\ i \in 1..(Len(u) + Len(v))
          /\ i - Len(u) \in 1..(Len(s) - k) /\ (i - Len(u)) + k = i + 1
        BY <1>0, <1>1, <1>2, <2>0, <2>2
    <3>2. t[i] = v[i - Len(u)] /\ v[i - Len(u)] = s[(i - Len(u)) + k]
        BY <1>2, <1>4, <3>1
    <3> QED BY <2>2, <3>1, <3>2
  <2> QED BY <2>1, <2>2
<1>7. /\ Range(t) = {t[i] : i \in 1..Len(t)} /\ Range(s) = {s[i] : i \in 1..Len(s)}
      /\ IsInjective(t) <=> \A i, j \in 1..Len(t) : t[i] = t[j] => i = j
      /\ \A i, j \in 1..Len(s) : s[i] = s[j] => i = j
    BY <1>4, RangeFacts
<1> DEFINE up(i) == IF i < k THEN i ELSE i + 1
<1>8. \A i \in 1..Len(t) : up(i) \in 1..Len(s) /\ up(i) # k /\ t[i] = s[up(i)]
    BY <1>0, <1>5, <1>6
<1>9. \A i, j \in 1..Len(t) : up(i) = up(j) => i = j
    BY <1>0, <1>5
<1>10. \A i \in 1..Len(s) : i # k => \E j \in 1..Len(t) : up(j) = i
  <2> SUFFICES ASSUME NEW i \in 1..Len(s), i # k PROVE \E j \in 1..Len(t) : up(j) = i
      OBVIOUS
  <2>1. CASE i < k
    <3>1. i \in 1..Len(t) /\ up(i) = i
        BY <1>0, <1>5, <2>1
    <3> QED BY <3>1
  <2>2. CASE ~(i < k)
    <3>1. i - 1 \in 1..Len(t) /\ up(i - 1) = i
        BY <1>0, <1>5, <2>2
    <3> QED BY <3>1
  <2> QED BY <2>1, <2>2
<1> HIDE DEF up
<1>11. Range(t) = Range(s) \ {s[k]}
  <2>1. ASSUME NEW x \in Range(t) PROVE x \in Range(s) \ {s[k]}
    <3>1. PICK i \in 1..Len(t) : x = t[i]
        BY <1>7
    <3>2. x = s[up(i)] /\ up(i) \in 1..Len(s) /\ up(i) # k
        BY <1>8, <3>1
    <3> QED BY <1>7, <3>2
  <2>2. ASSUME NEW x \in Range(s), x # s[k] PROVE x \in Range(t)
    <3>1. PICK i \in 1..Len(s) : x = s[i] /\ i # k
        BY <1>7, <2>2
    <3>2. PICK j \in 1..Len(t) : up(j) = i
        BY <1>10, <3>1
    <3> QED BY <1>7, <1>8, <3>1, <3>2
  <2> QED BY <2>1, <2>2
<1>12. IsInjective(t)
    BY <1>7, <1>8, <1>9
<1>13. s[k] \in Range(s)
    BY <1>7
<1> QED BY <1>4, <1>5, <1>11, <1>12, <1>13 DEF t

-----------------------------------------------------------------------------
(* A step of one thread *)

\* The step is of thread t: what the others have stays.
Alone(t) ==
    \A u \in Thread : u # t =>
        /\ pc'[u] = pc[u] /\ buffer'[u] = buffer[u]
        /\ list'[u] = list[u] /\ region'[u] = region[u]

\* The types of what one thread has.
LEMMA ThreadTypes ==
    ASSUME TypeOK, NEW t \in Thread
    PROVE  /\ pc[t] \in PC /\ buffer[t] \in All \cup {None} /\ region[t] \in All \cup {None}
           /\ list[t] \in Seq(Addr) /\ Len(list[t]) <= MaxAllocateAttempts
           /\ Range(list[t]) \subseteq Addr
           /\ Owned(t) = (Range(list[t]) \cup {region[t], buffer[t]}) \ ({None} \cup UserAddr)
           /\ Owned(t) \subseteq Addr
<1>1. /\ pc[t] \in PC /\ buffer[t] \in All \cup {None} /\ region[t] \in All \cup {None}
      /\ list[t] \in Seq(Addr) /\ Len(list[t]) <= MaxAllocateAttempts
    BY DEF TypeOK, All
<1>2. Range(list[t]) \subseteq Addr
    BY <1>1, RangeFacts
<1> QED BY <1>1, <1>2 DEF Owned, All

\* What a thread is about to unmap is its own.
LEMMA GoingFacts ==
    ASSUME TypeOK, NEW t \in Thread, At(t)
    PROVE  Going(t) \subseteq Owned(t)
<1>1. pc[t] = "dropUnmap" => Head(list[t]) \in Range(list[t])
    BY ThreadTypes, TailFacts DEF At
<1>2. Addr \cap ({None} \cup UserAddr) = {} /\ None \notin All
    BY MemoryRegionAssumption DEF All
<1>3. pc[t] \in {"reg64", "unmap"} => buffer[t] # None
    BY <1>2 DEF At, All
<1> QED BY <1>1, <1>2, <1>3, ThreadTypes DEF Going

\* The others keep what the invariant says of them.
LEMMA AloneFacts ==
    ASSUME ThreadInv, NEW t \in Thread, Alone(t), At(t)'
    PROVE  /\ ThreadInv'
           /\ \A u \in Thread : u # t => Owned(u)' = Owned(u) /\ Going(u)' = Going(u)
<1>1. ASSUME NEW u \in Thread, u # t
      PROVE  /\ pc'[u] = pc[u] /\ buffer'[u] = buffer[u]
             /\ list'[u] = list[u] /\ region'[u] = region[u]
    BY <1>1 DEF Alone
<1>2. ASSUME NEW u \in Thread, u # t
      PROVE  At(u)' /\ Owned(u)' = Owned(u) /\ Going(u)' = Going(u)
    BY <1>1, <1>2 DEF ThreadInv, At, Owned, Going
<1> QED BY <1>2 DEF ThreadInv

\* Storage is mapped for thread t.
LEMMA StoreTake ==
    ASSUME TypeOK, StoreInv, NEW t \in Thread, NEW a \in Addr, a \notin mapped,
           \A u \in Thread : u # t => Owned(u)' = Owned(u),
           Owned(t)' = Owned(t) \cup {a}, mapped' = mapped \cup {a},
           NEW l, len' = [len EXCEPT ![a] = l], UNCHANGED <<lost, fails>>
    PROVE  StoreInv'
<1>1. /\ \A u \in Thread : Owned(u) \subseteq mapped \ lost
      /\ lost \subseteq mapped
      /\ \A u, v \in Thread : u # v => Owned(u) \cap Owned(v) = {}
      /\ mapped \ UserAddr \subseteq lost \cup UNION {Owned(u) : u \in Thread}
      /\ fails = 0 => \A b \in lost : len[b] >= Wrap
    BY DEF StoreInv, StorageAccounted
<1>2. \A u \in Thread : Owned(u)' \subseteq mapped' \ lost' /\ Owned(u) \subseteq Owned(u)'
    BY <1>1
<1>3. \A u, v \in Thread : u # v => Owned(u)' \cap Owned(v)' = {}
    BY <1>1
<1>4. mapped' \ UserAddr \subseteq lost' \cup UNION {Owned(u)' : u \in Thread}
  <2> SUFFICES ASSUME NEW b \in mapped' \ UserAddr, b \notin lost
               PROVE  \E u \in Thread : b \in Owned(u)'
      OBVIOUS
  <2>1. CASE b = a
      BY <2>1
  <2>2. CASE b # a
      BY <1>1, <1>2, <2>2
  <2> QED BY <2>1, <2>2
<1>5. \A b \in lost : len'[b] = len[b]
    BY <1>1 DEF TypeOK
<1>6. lost' \subseteq mapped' /\ (fails' = 0 => \A b \in lost' : len'[b] >= Wrap)
    BY <1>1, <1>5
<1> QED BY <1>2, <1>3, <1>4, <1>6 DEF StoreInv, StorageAccounted

\* Thread t unmaps some storage (give), or nobody will give it back (lose).
LEMMA StoreLeave ==
    ASSUME TypeOK, StoreInv, NEW t \in Thread, NEW give, NEW lose,
           give \subseteq Owned(t), lose \subseteq Owned(t), give \cap lose = {},
           \A u \in Thread : u # t => Owned(u)' = Owned(u),
           Owned(t)' = Owned(t) \ (give \cup lose), mapped' = mapped \ give,
           len' = len, lost' = lost \cup lose,
           fails' = 0 => fails = 0 /\ \A a \in lose : len[a] >= Wrap
    PROVE  StoreInv'
<1>1. /\ \A u \in Thread : Owned(u) \subseteq mapped \ lost
      /\ lost \subseteq mapped
      /\ \A u, v \in Thread : u # v => Owned(u) \cap Owned(v) = {}
      /\ mapped \ UserAddr \subseteq lost \cup UNION {Owned(u) : u \in Thread}
      /\ fails = 0 => \A b \in lost : len[b] >= Wrap
    BY DEF StoreInv, StorageAccounted
<1>2. ASSUME NEW u \in Thread PROVE Owned(u)' \subseteq mapped' \ lost'
  <2>1. CASE u = t
      BY <1>1, <2>1
  <2>2. CASE u # t
    <3>1. Owned(u)' = Owned(u) /\ Owned(u) \cap Owned(t) = {} /\ Owned(u) \subseteq mapped \ lost
        BY <1>1, <2>2
    <3> QED BY <3>1
  <2> QED BY <2>1, <2>2
<1>3. \A u, v \in Thread : u # v => Owned(u)' \cap Owned(v)' = {}
    BY <1>1
<1>4. mapped' \ UserAddr \subseteq lost' \cup UNION {Owned(u)' : u \in Thread}
  <2> SUFFICES ASSUME NEW b \in mapped' \ UserAddr, b \notin lost'
               PROVE  \E u \in Thread : b \in Owned(u)'
      OBVIOUS
  <2>1. PICK u \in Thread : b \in Owned(u)
      BY <1>1
  <2>2. CASE u = t
      BY <2>1, <2>2
  <2>3. CASE u # t
      BY <2>1, <2>3
  <2> QED BY <2>2, <2>3
<1>5. lost' \subseteq mapped'
    BY <1>1
<1>6. fails' = 0 => \A b \in lost' : len'[b] >= Wrap
    BY <1>1
<1> QED BY <1>2, <1>3, <1>4, <1>5, <1>6 DEF StoreInv, StorageAccounted

\* Nothing is registered, and only what is going is unmapped.
LEMMA RegisteredLess ==
    ASSUME RegisteredInv, NEW t \in Thread,
           \A u \in Thread : u # t => Going(u)' = Going(u),
           registered' \ stuck' \subseteq registered \ stuck,
           mapped \ Going(t) \subseteq mapped', UserAddr \subseteq mapped',
           Going(t)' \cap (registered' \ stuck') = {}
    PROVE  RegisteredInv'
<1>1. /\ registered \ stuck \subseteq mapped
      /\ \A u \in Thread : Going(u) \cap (registered \ stuck) = {}
    BY DEF RegisteredInv, RegisteredIsMapped
<1>2. ASSUME NEW u \in Thread PROVE Going(u)' \cap (registered' \ stuck') = {}
  <2>1. CASE u = t
      BY <2>1
  <2>2. CASE u # t
      BY <1>1, <2>2
  <2> QED BY <2>1, <2>2
<1>3. registered' \ stuck' \subseteq mapped'
    BY <1>1
<1> QED BY <1>2, <1>3 DEF RegisteredInv, RegisteredIsMapped

\* Storage that is mapped, and that no other thread has, is registered.
LEMMA RegisteredMore ==
    ASSUME RegisteredInv, NEW t \in Thread, NEW a \in mapped,
           \A u \in Thread : u # t => Going(u)' = Going(u) /\ a \notin Going(u),
           registered' = registered \cup {a}, Going(t)' = {}, UNCHANGED <<mapped, stuck>>
    PROVE  RegisteredInv'
<1>1. /\ registered \ stuck \subseteq mapped /\ UserAddr \subseteq mapped
      /\ \A u \in Thread : Going(u) \cap (registered \ stuck) = {}
    BY DEF RegisteredInv, RegisteredIsMapped
<1>2. ASSUME NEW u \in Thread PROVE Going(u)' \cap (registered' \ stuck') = {}
  <2>1. CASE u = t
      BY <2>1
  <2>2. CASE u # t
      BY <1>1, <2>2
  <2> QED BY <2>1, <2>2
<1>3. registered' \ stuck' \subseteq mapped' /\ UserAddr \subseteq mapped'
    BY <1>1
<1> QED BY <1>2, <1>3 DEF RegisteredInv, RegisteredIsMapped

-----------------------------------------------------------------------------
(* Types *)

\* mmap returns unused storage.
LEMMA MapFacts ==
    ASSUME TypeOK, NEW t \in Thread, NEW l \in Nat, Map(t, l)
    PROVE  \E a \in Addr \ mapped :
              /\ mapped' = mapped \cup {a} /\ len' = [len EXCEPT ![a] = l]
              /\ buffer' = [buffer EXCEPT ![t] = a]
              /\ mapped' \subseteq All /\ len' \in [All -> Nat]
              /\ buffer' \in [Thread -> All \cup {None}]
<1>1. PICK a : /\ a = CHOOSE x \in Unmapped : TRUE
               /\ mapped' = mapped \cup {a} /\ len' = [len EXCEPT ![a] = l]
               /\ buffer' = [buffer EXCEPT ![t] = a]
    BY DEF Map
<1>2. a \in Addr \ mapped
    BY <1>1 DEF Map, Unmapped
<1>3. mapped' \subseteq All /\ buffer' \in [Thread -> All \cup {None}]
    BY <1>1, <1>2 DEF TypeOK, All
<1>4. len' \in [All -> Nat]
    BY <1>1, <1>2 DEF TypeOK, All
<1> QED BY <1>1, <1>2, <1>3, <1>4

\* ibv_dereg_mr takes the registration away or fails.
LEMMA DeregisterFacts ==
    ASSUME TypeOK, NEW a \in All, Deregister(a)
    PROVE  /\ registered' \subseteq All /\ stuck' \subseteq All
           /\ frags' \in [All -> Nat] /\ fails' \in 0..MaxFails
           /\ registered' \ stuck' \subseteq registered \ stuck
           /\ a \notin registered' \ stuck'
           /\ fails' # 0 \/ fails' = fails
           /\ fails' # fails => fails' # 0
<1>1. fails \in Nat /\ MaxFails \in Nat /\ fails <= MaxFails
    BY MemoryRegionAssumption DEF TypeOK
<1>2. CASE /\ registered' = registered \ {a}
           /\ frags' = [frags EXCEPT ![a] = 0]
           /\ UNCHANGED <<stuck, fails>>
    BY <1>1, <1>2 DEF TypeOK, All
<1>3. CASE Fail /\ stuck' = stuck \cup {a} /\ UNCHANGED <<registered, frags>>
  <2>1. fails' \in 0..MaxFails /\ fails' # 0
      BY <1>1, <1>3 DEF Fail
  <2> QED BY <1>3, <2>1 DEF TypeOK, All
<1> QED BY <1>2, <1>3 DEF Deregister

\* The attempt that allocate keeps is one of its list.
LEMMA BestFacts ==
    ASSUME NEW l \in Seq(Addr), l # <<>>
    PROVE  BestRegion(l) \in 1..Len(l)
<1>1. Len(l) \in Nat \ {0}
    OBVIOUS
<1>2. 1 \in 1..Len(l)
    BY <1>1
<1> QED BY <1>2 DEF BestRegion

\* Every step leaves the state well typed; regionList is not overrun.
LEMMA TypeStep == TypeOK /\ ThreadInv /\ [Next]_vars => TypeOK'
<1> SUFFICES ASSUME TypeOK, ThreadInv, [Next]_vars PROVE TypeOK'
    OBVIOUS
<1>type. /\ mapped \subseteq All /\ registered \subseteq All /\ stuck \subseteq All
         /\ len \in [All -> Nat] /\ frags \in [All -> Nat] /\ lost \subseteq Addr
         /\ pc \in [Thread -> PC] /\ want \in [Thread -> Nat]
         /\ buffer \in [Thread -> All \cup {None}] /\ region \in [Thread -> All \cup {None}]
         /\ list \in [Thread -> Seq(Addr)]
         /\ \A u \in Thread : Len(list[u]) <= MaxAllocateAttempts
         /\ alloc_mutex \in Thread \cup {None} /\ fails \in 0..MaxFails
    BY DEF TypeOK, All
<1>goal. ASSUME /\ UNCHANGED bgvrnic /\ mapped' \subseteq All /\ registered' \subseteq All /\ stuck' \subseteq All
                /\ len' \in [All -> Nat] /\ frags' \in [All -> Nat] /\ lost' \subseteq Addr
                /\ pc' \in [Thread -> PC] /\ want' \in [Thread -> Nat]
                /\ buffer' \in [Thread -> All \cup {None}] /\ region' \in [Thread -> All \cup {None}]
                /\ list' \in [Thread -> Seq(Addr)]
                /\ \A u \in Thread : Len(list'[u]) <= MaxAllocateAttempts
                /\ alloc_mutex' \in Thread \cup {None} /\ fails' \in 0..MaxFails
         PROVE  TypeOK'
    BY <1>goal DEF TypeOK, All
<1>pc. ASSUME NEW t \in Thread, NEW l \in PC, Goto(t, l) PROVE pc' \in [Thread -> PC]
    BY <1>pc, <1>type DEF Goto
<1>fail. Fail => fails' \in 0..MaxFails
    BY <1>type, MemoryRegionAssumption DEF Fail
<1>consts. /\ MaxAllocateAttempts \in Nat \ {0} /\ None \notin All /\ Addr \subseteq All
           /\ {"idle", "map", "reg", "choose", "drop", "dropUnmap", "reg64", "unmap"} \subseteq PC
    BY MemoryRegionAssumption DEF All, PC
<1>empty. <<>> \in Seq(Addr) /\ Len(<<>>) = 0 /\ 0 <= MaxAllocateAttempts
    BY <1>consts
<1>t. ASSUME NEW t \in Thread
      PROVE  /\ At(t) /\ list[t] \in Seq(Addr) /\ Range(list[t]) \subseteq Addr
             /\ buffer[t] \in All \cup {None} /\ region[t] \in All \cup {None} /\ Len(list[t]) \in Nat
    BY ThreadTypes, RangeFacts DEF ThreadInv
<1>1. ASSUME NEW t \in Thread, NEW l \in Length, BeginAllocate(t, l) PROVE TypeOK'
  <2>1. l \in Nat
      BY MemoryRegionAssumption
  <2>2. pc' \in [Thread -> PC]
      BY <1>1, <1>pc, <1>consts DEF BeginAllocate
  <2> QED BY <1>1, <1>goal, <1>type, <2>1, <2>2 DEF BeginAllocate
<1>2. ASSUME NEW t \in Thread, AllocateMap(t) PROVE TypeOK'
  <2>1. pc' \in [Thread -> PC] /\ want[t] \in Nat
      BY <1>2, <1>pc, <1>consts, <1>type DEF AllocateMap
  <2>2. mapped' \subseteq All /\ len' \in [All -> Nat] /\ buffer' \in [Thread -> All \cup {None}]
      BY <1>2, <2>1, MapFacts DEF AllocateMap
  <2> QED BY <1>2, <1>goal, <1>type, <2>1, <2>2 DEF AllocateMap
<1>3. ASSUME NEW t \in Thread, AllocateRegister(t) PROVE TypeOK'
  <2>1. buffer[t] \in Addr /\ Len(list[t]) < MaxAllocateAttempts
      BY <1>3, <1>t DEF AllocateRegister, At
  <2>2. PICK f \in Frags : /\ Register(buffer[t], f)
                           /\ Goto(t, IF LastAttempt(t, f) THEN "choose" ELSE "map")
      BY <1>3 DEF AllocateRegister
  <2>3. pc' \in [Thread -> PC]
    <3>1. (IF LastAttempt(t, f) THEN "choose" ELSE "map") \in PC
        BY <1>consts
    <3> QED BY <1>pc, <2>2, <3>1
  <2>4. registered' \subseteq All /\ frags' \in [All -> Nat]
    <3>1. f \in Nat
        BY MemoryRegionAssumption
    <3> QED BY <1>type, <1>consts, <2>1, <2>2, <3>1 DEF Register
  <2>5. list' = [list EXCEPT ![t] = Append(list[t], buffer[t])] /\ buffer' = [buffer EXCEPT ![t] = None]
      BY <1>3 DEF AllocateRegister
  <2>6. Append(list[t], buffer[t]) \in Seq(Addr) /\ Len(Append(list[t], buffer[t])) <= MaxAllocateAttempts
      BY <1>t, <1>consts, <2>1, AppendFacts
  <2>7. list' \in [Thread -> Seq(Addr)] /\ \A u \in Thread : Len(list'[u]) <= MaxAllocateAttempts
      BY <1>type, <2>5, <2>6
  <2>8. buffer' \in [Thread -> All \cup {None}]
      BY <1>type, <2>5
  <2> QED BY <1>3, <1>goal, <1>type, <2>3, <2>4, <2>7, <2>8 DEF AllocateRegister
<1>4. ASSUME NEW t \in Thread, AllocateFails(t) PROVE TypeOK'
  <2>1. pc' \in [Thread -> PC] /\ fails' \in 0..MaxFails
      BY <1>4, <1>pc, <1>fail, <1>consts DEF AllocateFails
  <2>2. buffer[t] \in Addr \cup {None}
      BY <1>4, <1>t DEF AllocateFails, At
  <2>3. lost' \subseteq Addr
      BY <1>4, <1>t, <1>type, <2>2 DEF AllocateFails
  <2>4. list' \in [Thread -> Seq(Addr)] /\ \A u \in Thread : Len(list'[u]) <= MaxAllocateAttempts
      BY <1>4, <1>type, <1>empty DEF AllocateFails
  <2> QED BY <1>4, <1>goal, <1>type, <2>1, <2>3, <2>4 DEF AllocateFails
<1>5. ASSUME NEW t \in Thread, Choose(t) PROVE TypeOK'
  <2>1. PICK b : b = BestRegion(list[t])
      OBVIOUS
  <2>2. b \in 1..Len(list[t]) /\ IsInjective(list[t])
      BY <1>5, <1>t, <2>1, BestFacts DEF Choose, At
  <2>3. /\ list[t][b] \in Addr /\ RemoveAt(list[t], b) \in Seq(Addr)
        /\ Len(RemoveAt(list[t], b)) = Len(list[t]) - 1
      BY <1>t, <2>2, RemoveFacts
  <2>4. Len(RemoveAt(list[t], b)) <= MaxAllocateAttempts
      BY <1>t, <1>type, <1>consts, <2>3
  <2>5. /\ buffer' = [buffer EXCEPT ![t] = list[t][b]]
        /\ list' = [list EXCEPT ![t] = RemoveAt(list[t], b)]
      BY <1>5, <2>1 DEF Choose
  <2>6. /\ buffer' \in [Thread -> All \cup {None}] /\ list' \in [Thread -> Seq(Addr)]
        /\ \A u \in Thread : Len(list'[u]) <= MaxAllocateAttempts
      BY <1>type, <1>consts, <2>3, <2>4, <2>5
  <2>7. pc' \in [Thread -> PC]
      BY <1>5, <1>pc, <1>consts DEF Choose
  <2> QED BY <1>5, <1>goal, <1>type, <2>6, <2>7 DEF Choose
<1>6. ASSUME NEW t \in Thread, DropDeregister(t) PROVE TypeOK'
  <2>1. Head(list[t]) \in All
      BY <1>6, <1>t, <1>consts DEF DropDeregister
  <2>2. /\ registered' \subseteq All /\ stuck' \subseteq All
        /\ frags' \in [All -> Nat] /\ fails' \in 0..MaxFails
      BY <1>6, <2>1, DeregisterFacts DEF DropDeregister
  <2>3. pc' \in [Thread -> PC]
      BY <1>6, <1>pc, <1>consts DEF DropDeregister
  <2> QED BY <1>6, <1>goal, <1>type, <2>2, <2>3 DEF DropDeregister
<1>7. ASSUME NEW t \in Thread, DropUnmap(t) PROVE TypeOK'
  <2>1. Tail(list[t]) \in Seq(Addr) /\ Len(Tail(list[t])) = Len(list[t]) - 1
      BY <1>7, <1>t, TailFacts DEF DropUnmap, At
  <2>2. Len(Tail(list[t])) <= MaxAllocateAttempts
      BY <1>t, <1>type, <1>consts, <2>1
  <2>3. list' = [list EXCEPT ![t] = Tail(list[t])]
      BY <1>7 DEF DropUnmap
  <2>4. list' \in [Thread -> Seq(Addr)] /\ \A u \in Thread : Len(list'[u]) <= MaxAllocateAttempts
      BY <1>type, <2>1, <2>2, <2>3
  <2>5. pc' \in [Thread -> PC]
      BY <1>7, <1>pc, <1>consts DEF DropUnmap
  <2>6. mapped' \subseteq All
      BY <1>7, <1>type DEF DropUnmap
  <2> QED BY <1>7, <1>goal, <1>type, <2>4, <2>5, <2>6 DEF DropUnmap
<1>8. ASSUME NEW t \in Thread, Keep(t) PROVE TypeOK'
  <2>1. pc' \in [Thread -> PC]
      BY <1>8, <1>pc, <1>consts DEF Keep
  <2>2. region' \in [Thread -> All \cup {None}]
      BY <1>8, <1>type DEF Keep
  <2> QED BY <1>8, <1>goal, <1>type, <2>1, <2>2 DEF Keep
<1>9. ASSUME NEW t \in Thread, Allocate64kB(t) PROVE TypeOK'
  <2>1. mapped' \subseteq All /\ len' \in [All -> Nat] /\ buffer' \in [Thread -> All \cup {None}]
      BY <1>9, MapFacts DEF Allocate64kB
  <2>2. pc' \in [Thread -> PC]
      BY <1>9, <1>pc, <1>consts DEF Allocate64kB
  <2> QED BY <1>9, <1>goal, <1>type, <2>1, <2>2 DEF Allocate64kB
<1>10. ASSUME NEW t \in Thread, Register64kB(t) PROVE TypeOK'
  <2>1. buffer[t] \in Addr
      BY <1>10, <1>t DEF Register64kB, At
  <2>2. registered' \subseteq All /\ frags' \in [All -> Nat]
      BY <1>10, <1>type, <1>consts, <2>1 DEF Register64kB, Register
  <2>3. pc' \in [Thread -> PC]
      BY <1>10, <1>pc, <1>consts DEF Register64kB
  <2>4. region' \in [Thread -> All \cup {None}]
      BY <1>10, <1>type DEF Register64kB
  <2> QED BY <1>10, <1>goal, <1>type, <2>2, <2>3, <2>4 DEF Register64kB
<1>11. ASSUME NEW t \in Thread, Register64kBFails(t) PROVE TypeOK'
  <2>1. pc' \in [Thread -> PC] /\ fails' \in 0..MaxFails
      BY <1>11, <1>pc, <1>fail, <1>consts DEF Register64kBFails
  <2>2. mapped' \subseteq All
      BY <1>11, <1>type DEF Register64kBFails
  <2> QED BY <1>11, <1>goal, <1>type, <2>1, <2>2 DEF Register64kBFails
<1>12. ASSUME NEW t \in Thread, NEW a \in UserAddr, RegisterUser(t, a) PROVE TypeOK'
  <2>1. a \in All
      BY DEF All
  <2>2. registered' \subseteq All /\ frags' \in [All -> Nat] /\ region' \in [Thread -> All \cup {None}]
      BY <1>12, <1>type, <2>1 DEF RegisterUser, Register
  <2> QED BY <1>12, <1>goal, <1>type, <2>2 DEF RegisterUser
<1>13. ASSUME NEW t \in Thread, ReleaseDeregister(t) PROVE TypeOK'
  <2>1. PICK a \in All : a = region[t]
      BY <1>13, <1>t DEF ReleaseDeregister
  <2>2. /\ registered' \subseteq All /\ stuck' \subseteq All
        /\ frags' \in [All -> Nat] /\ fails' \in 0..MaxFails
      BY <1>13, <2>1, DeregisterFacts DEF ReleaseDeregister
  <2>3. region' \in [Thread -> All \cup {None}] /\ buffer' \in [Thread -> All \cup {None}]
      BY <1>13, <1>type, <2>1 DEF ReleaseDeregister
  <2>4. pc' \in [Thread -> PC]
      BY <1>13, <1>pc, <1>type, <1>consts DEF ReleaseDeregister
  <2>5. lost' \subseteq Addr
      BY <1>13, <1>type, <2>1 DEF ReleaseDeregister, All
  <2> QED BY <1>13, <1>goal, <1>type, <2>2, <2>3, <2>4, <2>5 DEF ReleaseDeregister
<1>14. ASSUME NEW t \in Thread, ReleaseUnmap(t) PROVE TypeOK'
  <2>1. pc' \in [Thread -> PC]
      BY <1>14, <1>pc, <1>consts DEF ReleaseUnmap
  <2>2. mapped' \subseteq mapped /\ lost' = lost \cup (({buffer[t]} \cap mapped') \ UserAddr)
      BY <1>14 DEF ReleaseUnmap
  <2>3. lost' \subseteq Addr /\ mapped' \subseteq All
      BY <1>type, <2>2 DEF All
  <2>4. buffer' \in [Thread -> All \cup {None}]
      BY <1>14, <1>type DEF ReleaseUnmap
  <2> QED BY <1>14, <1>goal, <1>type, <2>1, <2>3, <2>4 DEF ReleaseUnmap
<1>15. CASE UNCHANGED vars
    BY <1>15 DEF vars, TypeOK
<1> QED BY <1>1, <1>2, <1>3, <1>4, <1>5, <1>6, <1>7, <1>8, <1>9, <1>10, <1>11, <1>12, <1>13, <1>14, <1>15
        DEF Next

-----------------------------------------------------------------------------
(* The steps *)

\* Every step keeps what the threads have, the storage and the registrations in
\* the states of the invariant.
LEMMA StepInv == IInv /\ [Next]_vars => ThreadInv' /\ StoreInv' /\ RegisteredInv'
<1> SUFFICES ASSUME IInv, [Next]_vars PROVE ThreadInv' /\ StoreInv' /\ RegisteredInv'
    OBVIOUS
<1>inv. TypeOK /\ ThreadInv /\ StoreInv /\ RegisteredInv
    BY DEF IInv
<1>type. /\ pc \in [Thread -> PC] /\ want \in [Thread -> Nat]
         /\ buffer \in [Thread -> All \cup {None}] /\ region \in [Thread -> All \cup {None}]
         /\ list \in [Thread -> Seq(Addr)] /\ fails \in Nat /\ len \in [All -> Nat]
    BY <1>inv, MemoryRegionAssumption DEF TypeOK, All
<1>consts. /\ None \notin All /\ Addr \subseteq All /\ Addr \cap UserAddr = {} /\ None \notin Addr
           /\ UserAddr \subseteq All /\ None \notin UserAddr
           /\ MaxAllocateAttempts \in Nat \ {0}
    BY MemoryRegionAssumption DEF All
<1>empty. /\ <<>> \in Seq(Addr) /\ Range(<<>>) = {} /\ Len(<<>>) = 0 /\ IsInjective(<<>>)
  <2>0. <<>> \in Seq(Addr) /\ Len(<<>>) = 0
      OBVIOUS
  <2>1. PICK s \in Seq(Addr) : s = <<>> /\ Len(s) = 0
      BY <2>0
  <2>2. \A i \in 1..Len(s) : FALSE
      BY <2>1
  <2> QED BY <2>1, <2>2, RangeFacts
<1>t. ASSUME NEW t \in Thread
      PROVE  /\ At(t) /\ list[t] \in Seq(Addr) /\ Range(list[t]) \subseteq Addr
             /\ buffer[t] \in All \cup {None} /\ region[t] \in All \cup {None} /\ Len(list[t]) \in Nat
             /\ Owned(t) = (Range(list[t]) \cup {region[t], buffer[t]}) \ ({None} \cup UserAddr)
             /\ Owned(t) \subseteq mapped \ lost /\ Going(t) \subseteq Owned(t)
             /\ Going(t) \cap (registered \ stuck) = {}
    BY <1>inv, ThreadTypes, RangeFacts, GoingFacts DEF ThreadInv, StoreInv, RegisteredInv
<1>own. ASSUME NEW t \in Thread, NEW b, NEW l, NEW r, buffer'[t] = b, list'[t] = l, region'[t] = r
        PROVE  Owned(t)' = (Range(l) \cup {r, b}) \ ({None} \cup UserAddr)
    BY <1>own DEF Owned
<1>fail. Fail => fails' # 0
    BY <1>type DEF Fail
<1>reg. registered \ stuck \subseteq mapped /\ UserAddr \subseteq mapped
    BY <1>inv DEF RegisteredInv, RegisteredIsMapped
<1>others. ASSUME NEW t \in Thread, NEW a \in Owned(t) \cup UserAddr, NEW u \in Thread, u # t
           PROVE  a \notin Going(u)
  <2>1. Going(u) \subseteq Owned(u) /\ Owned(u) \cap UserAddr = {} /\ Owned(u) \cap Owned(t) = {}
      BY <1>others, <1>t, <1>inv DEF StoreInv, StorageAccounted
  <2> QED BY <2>1
\* A step that takes no storage and registers nothing.
<1>leave. ASSUME NEW t \in Thread, Alone(t), At(t)', NEW give, NEW lose,
                 give \subseteq Owned(t), lose \subseteq Owned(t), give \cap lose = {},
                 Owned(t)' = Owned(t) \ (give \cup lose), mapped' = mapped \ give,
                 len' = len, lost' = lost \cup lose,
                 fails' = 0 => fails = 0 /\ \A a \in lose : len[a] >= Wrap,
                 registered' \ stuck' \subseteq registered \ stuck,
                 give \subseteq Going(t), Going(t)' \cap (registered' \ stuck') = {}
          PROVE  ThreadInv' /\ StoreInv' /\ RegisteredInv'
  <2>1. ThreadInv' /\ \A u \in Thread : u # t => Owned(u)' = Owned(u) /\ Going(u)' = Going(u)
      BY <1>leave, <1>inv, AloneFacts
  <2>2. StoreInv'
      BY <1>leave, <1>inv, <2>1, StoreLeave
  <2>3. UserAddr \subseteq mapped' /\ mapped \ Going(t) \subseteq mapped'
      BY <1>leave, <1>reg, <1>t
  <2>4. RegisteredInv'
      BY <1>leave, <1>inv, <2>1, <2>3, RegisteredLess
  <2> QED BY <2>1, <2>2, <2>4
\* A step that only registers.
<1>more. ASSUME NEW t \in Thread, Alone(t), At(t)', NEW a \in Owned(t) \cup UserAddr,
                Owned(t)' = Owned(t), Going(t)' = {}, registered' = registered \cup {a},
                UNCHANGED <<mapped, len, lost, stuck, fails>>
         PROVE  ThreadInv' /\ StoreInv' /\ RegisteredInv'
  <2>1. ThreadInv' /\ \A u \in Thread : u # t => Owned(u)' = Owned(u) /\ Going(u)' = Going(u)
      BY <1>more, <1>inv, AloneFacts
  <2>2. StoreInv'
    <3>1. /\ {} \subseteq Owned(t) /\ {} \cap {} = {} /\ Owned(t)' = Owned(t) \ ({} \cup {})
          /\ mapped' = mapped \ {} /\ len' = len /\ lost' = lost \cup {}
          /\ (fails' = 0 => fails = 0 /\ \A x \in {} : len[x] >= Wrap)
        BY <1>more
    <3> QED BY <1>inv, <2>1, <3>1, StoreLeave
  <2>3. a \in mapped /\ \A u \in Thread : u # t => Going(u)' = Going(u) /\ a \notin Going(u)
      BY <1>more, <1>reg, <1>t, <1>others, <2>1
  <2>4. RegisteredInv'
      BY <1>more, <1>inv, <2>3, RegisteredMore
  <2> QED BY <2>1, <2>2, <2>4
\* A step that maps storage.
<1>take. ASSUME NEW t \in Thread, NEW l \in Nat, Map(t, l), buffer[t] = None,
                pc' = [pc EXCEPT ![t] = IF pc[t] = "map" THEN "reg" ELSE "reg64"],
                pc[t] = "map" \/ (pc[t] = "idle" /\ region[t] = None),
                UNCHANGED <<registered, list, region, lost, stuck, fails>>
         PROVE  ThreadInv' /\ StoreInv' /\ RegisteredInv'
  <2>1. PICK a \in Addr \ mapped : /\ mapped' = mapped \cup {a} /\ len' = [len EXCEPT ![a] = l]
                                   /\ buffer' = [buffer EXCEPT ![t] = a]
      BY <1>take, <1>inv, MapFacts
  <2>2. /\ buffer'[t] = a /\ list'[t] = list[t] /\ region'[t] = region[t]
        /\ pc'[t] = IF pc[t] = "map" THEN "reg" ELSE "reg64"
        /\ Alone(t)
      BY <1>take, <1>type, <2>1 DEF Alone
  <2>3. a \notin Owned(t) /\ a \notin Range(list[t])
      BY <1>t, <1>consts, <2>1
  <2>4. At(t)'
      BY <1>t, <1>take, <2>1, <2>2, <2>3 DEF At
  <2>5. Owned(t)' = Owned(t) \cup {a}
      BY <1>own, <1>t, <1>take, <1>consts, <2>2
  <2>6. Going(t)' \subseteq {a}
      BY <2>2 DEF Going
  <2>7. ThreadInv' /\ \A u \in Thread : u # t => Owned(u)' = Owned(u) /\ Going(u)' = Going(u)
      BY <1>inv, <2>2, <2>4, AloneFacts
  <2>8. StoreInv'
    <3>1. UNCHANGED <<lost, fails>>
        BY <1>take
    <3> QED BY <1>inv, <2>1, <2>5, <2>7, <3>1, StoreTake
  <2>9. RegisteredInv'
    <3>1. /\ registered' \ stuck' \subseteq registered \ stuck /\ mapped \ Going(t) \subseteq mapped'
          /\ UserAddr \subseteq mapped' /\ Going(t)' \cap (registered' \ stuck') = {}
        BY <1>take, <1>reg, <2>1, <2>6
    <3> QED BY <1>inv, <2>7, <3>1, RegisteredLess
  <2> QED BY <2>7, <2>8, <2>9
<1>1. ASSUME NEW t \in Thread, NEW l \in Length, BeginAllocate(t, l)
      PROVE  ThreadInv' /\ StoreInv' /\ RegisteredInv'
  <2>1. /\ pc'[t] = "map" /\ buffer'[t] = None /\ list'[t] = <<>> /\ region'[t] = None /\ Alone(t)
        /\ buffer[t] = None /\ list[t] = <<>> /\ region[t] = None
      BY <1>1, <1>t, <1>type DEF BeginAllocate, Goto, Alone, At
  <2>2. At(t)' /\ Going(t)' = {}
      BY <1>empty, <1>consts, <2>1 DEF At, Going
  <2>3. Owned(t)' = Owned(t)
      BY <2>1 DEF Owned
  <2>4. /\ {} \subseteq Owned(t) /\ {} \cap {} = {} /\ Owned(t)' = Owned(t) \ ({} \cup {})
        /\ mapped' = mapped \ {} /\ len' = len /\ lost' = lost \cup {}
        /\ (fails' = 0 => fails = 0 /\ \A x \in {} : len[x] >= Wrap)
        /\ registered' \ stuck' \subseteq registered \ stuck
        /\ {} \subseteq Going(t) /\ Going(t)' \cap (registered' \ stuck') = {}
      BY <1>1, <2>2, <2>3 DEF BeginAllocate
  <2> QED BY <1>leave, <2>1, <2>2, <2>4
<1>2. ASSUME NEW t \in Thread, AllocateMap(t) PROVE ThreadInv' /\ StoreInv' /\ RegisteredInv'
  <2>0. PICK l \in Nat : l = want[t]
      BY <1>type
  <2>1. /\ Map(t, l) /\ pc[t] = "map" /\ buffer[t] = None
        /\ pc' = [pc EXCEPT ![t] = IF pc[t] = "map" THEN "reg" ELSE "reg64"]
        /\ UNCHANGED <<registered, list, region, lost, stuck, fails>>
      BY <1>2, <1>t, <1>type, <2>0 DEF AllocateMap, Goto, At
  <2>2. pc[t] = "map" \/ (pc[t] = "idle" /\ region[t] = None)
      BY <2>1
  <2> QED BY <1>take, <2>1, <2>2
<1>3. ASSUME NEW t \in Thread, AllocateRegister(t) PROVE ThreadInv' /\ StoreInv' /\ RegisteredInv'
  <2>1. PICK f \in Frags, a \in Addr : /\ a = buffer[t] /\ Register(buffer[t], f)
                                       /\ Goto(t, IF LastAttempt(t, f) THEN "choose" ELSE "map")
      BY <1>3, <1>t DEF AllocateRegister, At
  <2>2. /\ pc'[t] = (IF LastAttempt(t, f) THEN "choose" ELSE "map")
        /\ buffer'[t] = None /\ list'[t] = Append(list[t], a) /\ region'[t] = None /\ region[t] = None
        /\ a \notin Range(list[t]) /\ IsInjective(list[t]) /\ Len(list[t]) < MaxAllocateAttempts
      BY <1>3, <1>t, <1>type, <2>1 DEF AllocateRegister, Goto, At
  <2>3. Alone(t)
      BY <1>3, <1>type, <2>1 DEF AllocateRegister, Goto, Alone
  <2>4. PICK l \in Seq(Addr) : l = Append(list[t], a) /\ Len(l) = Len(list[t]) + 1
                               /\ Range(l) = Range(list[t]) \cup {a} /\ IsInjective(l)
      BY <1>t, <2>2, AppendFacts
  <2>5. l # <<>> /\ (~LastAttempt(t, f) => Len(l) < MaxAllocateAttempts)
    <3>1. l # <<>>
        BY <1>empty, <2>4
    <3>2. ~LastAttempt(t, f) => ~(Len(list[t]) + 1 >= MaxAllocateAttempts)
        BY DEF LastAttempt
    <3> QED BY <1>t, <1>consts, <2>4, <3>1, <3>2
  <2>6. At(t)' /\ Going(t)' = {}
      BY <2>2, <2>4, <2>5 DEF At, Going
  <2>7. Owned(t)' = Owned(t) /\ a \in Owned(t)
    <3>1. Owned(t)' = (Range(l) \cup {None, None}) \ ({None} \cup UserAddr)
      <4>1. buffer'[t] = None /\ list'[t] = l /\ region'[t] = None
          BY <2>2, <2>4
      <4> QED BY <1>own, <4>1
    <3>2. Owned(t) = (Range(list[t]) \cup {None, a}) \ ({None} \cup UserAddr)
        BY <1>t, <2>1, <2>2
    <3> QED BY <1>consts, <2>4, <3>1, <3>2
  <2>8. registered' = registered \cup {a} /\ UNCHANGED <<mapped, len, lost, stuck, fails>>
      BY <1>3, <2>1 DEF AllocateRegister, Register
  <2> QED BY <1>more, <2>3, <2>6, <2>7, <2>8
<1>4. ASSUME NEW t \in Thread, AllocateFails(t) PROVE ThreadInv' /\ StoreInv' /\ RegisteredInv'
  <2>1. /\ pc'[t] = "idle" /\ buffer'[t] = None /\ list'[t] = <<>>
        /\ region'[t] = None /\ region[t] = None /\ buffer[t] \in Addr \cup {None}
      BY <1>4, <1>t, <1>type DEF AllocateFails, Goto, At
  <2>2. Alone(t)
      BY <1>4, <1>type DEF AllocateFails, Goto, Alone
  <2>3. At(t)' /\ Going(t)' = {}
      BY <1>empty, <2>1 DEF At, Going
  <2>4. Owned(t)' = {}
      BY <1>own, <1>empty, <2>1
  <2>5. Owned(t) = Range(list[t]) \cup ({buffer[t]} \ {None})
      BY <1>t, <1>consts, <2>1
  <2>6. PICK lose : lose = Owned(t)
      OBVIOUS
  <2>7. /\ {} \subseteq Owned(t) /\ lose \subseteq Owned(t) /\ {} \cap lose = {}
        /\ Owned(t)' = Owned(t) \ ({} \cup lose)
        /\ mapped' = mapped \ {} /\ len' = len /\ lost' = lost \cup lose
        /\ (fails' = 0 => fails = 0 /\ \A x \in lose : len[x] >= Wrap)
        /\ registered' \ stuck' \subseteq registered \ stuck
        /\ {} \subseteq Going(t) /\ Going(t)' \cap (registered' \ stuck') = {}
      BY <1>4, <1>fail, <2>3, <2>4, <2>5, <2>6 DEF AllocateFails
  <2> QED BY <1>leave, <2>2, <2>3, <2>7
<1>5. ASSUME NEW t \in Thread, Choose(t) PROVE ThreadInv' /\ StoreInv' /\ RegisteredInv'
  <2>1. PICK b : b = BestRegion(list[t])
      OBVIOUS
  <2>2. b \in 1..Len(list[t]) /\ IsInjective(list[t]) /\ region[t] = None /\ buffer[t] = None
      BY <1>5, <1>t, <2>1, BestFacts DEF Choose, At
  <2>3. PICK l \in Seq(Addr), a \in Addr :
           /\ l = RemoveAt(list[t], b) /\ a = list[t][b] /\ IsInjective(l)
           /\ a \in Range(list[t]) /\ Range(l) = Range(list[t]) \ {a}
      BY <1>t, <2>2, RemoveFacts
  <2>4. pc'[t] = "drop" /\ buffer'[t] = a /\ list'[t] = l /\ region'[t] = None /\ Alone(t)
      BY <1>5, <1>type, <2>1, <2>2, <2>3 DEF Choose, Goto, Alone
  <2>5. At(t)' /\ Going(t)' = {}
      BY <2>3, <2>4 DEF At, Going
  <2>6. Owned(t)' = Owned(t)
    <3>1. Owned(t)' = (Range(l) \cup {None, a}) \ ({None} \cup UserAddr)
        BY <1>own, <2>4
    <3>2. Owned(t) = (Range(list[t]) \cup {None, None}) \ ({None} \cup UserAddr)
        BY <1>t, <2>2
    <3> QED BY <1>consts, <2>3, <3>1, <3>2
  <2>7. /\ {} \subseteq Owned(t) /\ {} \cap {} = {} /\ Owned(t)' = Owned(t) \ ({} \cup {})
        /\ mapped' = mapped \ {} /\ len' = len /\ lost' = lost \cup {}
        /\ (fails' = 0 => fails = 0 /\ \A x \in {} : len[x] >= Wrap)
        /\ registered' \ stuck' \subseteq registered \ stuck
        /\ {} \subseteq Going(t) /\ Going(t)' \cap (registered' \ stuck') = {}
      BY <1>5, <2>5, <2>6 DEF Choose
  <2> QED BY <1>leave, <2>4, <2>5, <2>7
<1>6. ASSUME NEW t \in Thread, DropDeregister(t) PROVE ThreadInv' /\ StoreInv' /\ RegisteredInv'
  <2>1. PICK a \in Addr : a = Head(list[t])
      BY <1>6, <1>t DEF DropDeregister
  <2>2. /\ registered' \ stuck' \subseteq registered \ stuck /\ a \notin registered' \ stuck'
        /\ (fails' = 0 => fails = 0)
    <3>1. Deregister(a) /\ a \in All
        BY <1>6, <1>consts, <2>1 DEF DropDeregister
    <3> QED BY <1>inv, <3>1, DeregisterFacts
  <2>3. /\ pc'[t] = "dropUnmap" /\ buffer'[t] = buffer[t] /\ list'[t] = list[t]
        /\ region'[t] = region[t] /\ Alone(t) /\ pc[t] = "drop" /\ list[t] # <<>>
      BY <1>6, <1>type DEF DropDeregister, Goto, Alone
  <2>4. At(t)' /\ Going(t)' = {a}
      BY <1>t, <2>1, <2>3 DEF At, Going
  <2>5. Owned(t)' = Owned(t)
      BY <2>3 DEF Owned
  <2>6. /\ {} \subseteq Owned(t) /\ {} \cap {} = {} /\ Owned(t)' = Owned(t) \ ({} \cup {})
        /\ mapped' = mapped \ {} /\ len' = len /\ lost' = lost \cup {}
        /\ (fails' = 0 => fails = 0 /\ \A x \in {} : len[x] >= Wrap)
        /\ registered' \ stuck' \subseteq registered \ stuck
        /\ {} \subseteq Going(t) /\ Going(t)' \cap (registered' \ stuck') = {}
      BY <1>6, <2>2, <2>4, <2>5 DEF DropDeregister
  <2> QED BY <1>leave, <2>3, <2>4, <2>6
<1>7. ASSUME NEW t \in Thread, DropUnmap(t) PROVE ThreadInv' /\ StoreInv' /\ RegisteredInv'
  <2>1. PICK l \in Seq(Addr), a \in Addr :
           /\ a = Head(list[t]) /\ l = Tail(list[t]) /\ IsInjective(l)
           /\ a \in Range(list[t]) /\ Range(l) = Range(list[t]) \ {a}
      BY <1>7, <1>t, TailFacts DEF DropUnmap, At
  <2>2. /\ pc'[t] = "drop" /\ buffer'[t] = buffer[t] /\ list'[t] = l /\ region'[t] = None
        /\ Alone(t) /\ pc[t] = "dropUnmap" /\ region[t] = None
        /\ buffer[t] \in Addr /\ buffer[t] \notin Range(list[t])
      BY <1>7, <1>t, <1>type, <2>1 DEF DropUnmap, Goto, Alone, At
  <2>3. At(t)' /\ Going(t)' = {} /\ Going(t) = {a}
      BY <2>1, <2>2 DEF At, Going
  <2>4. Owned(t)' = Owned(t) \ {a} /\ a \in Owned(t)
    <3>1. PICK b : b = buffer[t]
        OBVIOUS
    <3>2. Owned(t)' = (Range(l) \cup {None, b}) \ ({None} \cup UserAddr)
        BY <1>own, <2>2, <3>1
    <3> QED BY <1>t, <1>consts, <2>1, <2>2, <3>1, <3>2
  <2>5. /\ {a} \subseteq Owned(t) /\ {} \subseteq Owned(t) /\ {a} \cap {} = {}
        /\ Owned(t)' = Owned(t) \ ({a} \cup {})
        /\ mapped' = mapped \ {a} /\ len' = len /\ lost' = lost \cup {}
        /\ (fails' = 0 => fails = 0 /\ \A x \in {} : len[x] >= Wrap)
        /\ registered' \ stuck' \subseteq registered \ stuck
        /\ {a} \subseteq Going(t) /\ Going(t)' \cap (registered' \ stuck') = {}
      BY <1>7, <2>1, <2>3, <2>4 DEF DropUnmap
  <2> QED BY <1>leave, <2>2, <2>3, <2>5
<1>8. ASSUME NEW t \in Thread, Keep(t) PROVE ThreadInv' /\ StoreInv' /\ RegisteredInv'
  <2>1. /\ pc'[t] = "idle" /\ buffer'[t] = None /\ list'[t] = <<>> /\ region'[t] = buffer[t]
        /\ Alone(t) /\ pc[t] = "drop" /\ list[t] = <<>> /\ region[t] = None
      BY <1>8, <1>t, <1>type DEF Keep, Goto, Alone, At
  <2>2. At(t)' /\ Going(t)' = {}
      BY <1>empty, <2>1 DEF At, Going
  <2>3. Owned(t)' = Owned(t)
      BY <2>1 DEF Owned
  <2>4. /\ {} \subseteq Owned(t) /\ {} \cap {} = {} /\ Owned(t)' = Owned(t) \ ({} \cup {})
        /\ mapped' = mapped \ {} /\ len' = len /\ lost' = lost \cup {}
        /\ (fails' = 0 => fails = 0 /\ \A x \in {} : len[x] >= Wrap)
        /\ registered' \ stuck' \subseteq registered \ stuck
        /\ {} \subseteq Going(t) /\ Going(t)' \cap (registered' \ stuck') = {}
      BY <1>8, <2>2, <2>3 DEF Keep
  <2> QED BY <1>leave, <2>1, <2>2, <2>4
<1>9. ASSUME NEW t \in Thread, Allocate64kB(t) PROVE ThreadInv' /\ StoreInv' /\ RegisteredInv'
  <2>1. /\ Map(t, 1) /\ pc[t] = "idle" /\ region[t] = None /\ buffer[t] = None
        /\ pc' = [pc EXCEPT ![t] = IF pc[t] = "map" THEN "reg" ELSE "reg64"]
        /\ UNCHANGED <<registered, list, region, lost, stuck, fails>>
      BY <1>9, <1>t, <1>type DEF Allocate64kB, Goto, At
  <2>2. 1 \in Nat /\ (pc[t] = "map" \/ (pc[t] = "idle" /\ region[t] = None))
      BY <2>1
  <2> QED BY <1>take, <2>1, <2>2
<1>10. ASSUME NEW t \in Thread, Register64kB(t) PROVE ThreadInv' /\ StoreInv' /\ RegisteredInv'
  <2>1. PICK a \in Addr : a = buffer[t]
      BY <1>10, <1>t DEF Register64kB, At
  <2>2. /\ pc'[t] = "idle" /\ buffer'[t] = None /\ list'[t] = <<>> /\ region'[t] = a
        /\ Alone(t) /\ list[t] = <<>> /\ region[t] = None
      BY <1>10, <1>t, <1>type, <2>1 DEF Register64kB, Goto, Alone, At
  <2>3. At(t)' /\ Going(t)' = {}
      BY <1>empty, <2>2 DEF At, Going
  <2>4. Owned(t)' = Owned(t)
      BY <2>1, <2>2 DEF Owned
  <2>5. a \in Owned(t)
      BY <1>t, <1>consts, <2>1
  <2>6. registered' = registered \cup {a} /\ UNCHANGED <<mapped, len, lost, stuck, fails>>
      BY <1>10, <2>1 DEF Register64kB, Register
  <2> QED BY <1>more, <2>2, <2>3, <2>4, <2>5, <2>6
<1>11. ASSUME NEW t \in Thread, Register64kBFails(t) PROVE ThreadInv' /\ StoreInv' /\ RegisteredInv'
  <2>1. PICK a \in Addr : a = buffer[t]
      BY <1>11, <1>t DEF Register64kBFails, At
  <2>2. /\ pc'[t] = "idle" /\ buffer'[t] = None /\ list'[t] = <<>> /\ region'[t] = None
        /\ Alone(t) /\ list[t] = <<>> /\ region[t] = None /\ pc[t] = "reg64"
      BY <1>11, <1>t, <1>type DEF Register64kBFails, Goto, Alone, At
  <2>3. At(t)' /\ Going(t)' = {} /\ Going(t) = {a}
      BY <1>empty, <1>consts, <2>1, <2>2 DEF At, Going
  <2>4. Owned(t)' = {}
      BY <1>own, <1>empty, <2>2
  <2>5. Owned(t) = {a}
      BY <1>t, <1>consts, <1>empty, <2>1, <2>2
  <2>6. /\ {a} \subseteq Owned(t) /\ {} \subseteq Owned(t) /\ {a} \cap {} = {}
        /\ Owned(t)' = Owned(t) \ ({a} \cup {})
        /\ mapped' = mapped \ {a} /\ len' = len /\ lost' = lost \cup {}
        /\ (fails' = 0 => fails = 0 /\ \A x \in {} : len[x] >= Wrap)
        /\ registered' \ stuck' \subseteq registered \ stuck
        /\ {a} \subseteq Going(t) /\ Going(t)' \cap (registered' \ stuck') = {}
      BY <1>11, <1>fail, <2>1, <2>3, <2>4, <2>5 DEF Register64kBFails
  <2> QED BY <1>leave, <2>2, <2>3, <2>6
<1>12. ASSUME NEW t \in Thread, NEW a \in UserAddr, RegisterUser(t, a)
       PROVE  ThreadInv' /\ StoreInv' /\ RegisteredInv'
  <2>1. /\ pc'[t] = "idle" /\ buffer'[t] = None /\ list'[t] = <<>> /\ region'[t] = a
        /\ Alone(t) /\ list[t] = <<>> /\ region[t] = None /\ buffer[t] = None
      BY <1>12, <1>t, <1>type DEF RegisterUser, Alone, At
  <2>2. At(t)' /\ Going(t)' = {}
      BY <1>empty, <2>1 DEF At, Going
  <2>3. Owned(t)' = {}
      BY <1>own, <1>empty, <2>1
  <2>4. Owned(t) = {}
      BY <1>t, <1>empty, <2>1
  <2>5. registered' = registered \cup {a} /\ UNCHANGED <<mapped, len, lost, stuck, fails>>
      BY <1>12 DEF RegisterUser, Register
  <2>6. a \in Owned(t) \cup UserAddr /\ Owned(t)' = Owned(t)
      BY <2>3, <2>4
  <2> QED BY <1>more, <2>1, <2>2, <2>5, <2>6
<1>13. ASSUME NEW t \in Thread, ReleaseDeregister(t) PROVE ThreadInv' /\ StoreInv' /\ RegisteredInv'
  <2>1. PICK a \in All : a = region[t]
      BY <1>13, <1>t DEF ReleaseDeregister
  <2>2. /\ registered' \ stuck' \subseteq registered \ stuck /\ a \notin registered' \ stuck'
        /\ (fails' # fails => fails' # 0)
    <3>1. Deregister(a)
        BY <1>13, <2>1 DEF ReleaseDeregister
    <3> QED BY <1>inv, <3>1, DeregisterFacts
  <2>3. list[t] = <<>> /\ buffer[t] = None /\ pc[t] = "idle" /\ Owned(t) = {a} \ UserAddr
    <3>1. list[t] = <<>> /\ buffer[t] = None /\ pc[t] = "idle"
        BY <1>13, <1>t DEF ReleaseDeregister, At
    <3> QED BY <1>t, <1>empty, <1>consts, <2>1, <3>1
  <2>4. list' = list /\ mapped' = mapped /\ len' = len /\ region' = [region EXCEPT ![t] = None]
      BY <1>13 DEF ReleaseDeregister
  <2>5. list'[t] = <<>> /\ region'[t] = None
      BY <1>type, <2>3, <2>4
  <2>6. CASE fails' # fails
    <3>1. lost' = lost \cup ({a} \ UserAddr) /\ pc' = pc /\ buffer' = buffer
        BY <1>13, <2>1, <2>6 DEF ReleaseDeregister
    <3>2. pc'[t] = "idle" /\ buffer'[t] = None /\ Alone(t)
        BY <1>type, <2>3, <2>4, <3>1 DEF Alone
    <3>3. At(t)' /\ Going(t)' = {}
        BY <1>empty, <2>5, <3>2 DEF At, Going
    <3>4. Owned(t)' = {}
        BY <1>own, <1>empty, <2>5, <3>2
    <3>5. PICK lose : lose = {a} \ UserAddr
        OBVIOUS
    <3>6. /\ {} \subseteq Owned(t) /\ lose \subseteq Owned(t) /\ {} \cap lose = {}
          /\ Owned(t)' = Owned(t) \ ({} \cup lose)
          /\ mapped' = mapped \ {} /\ len' = len /\ lost' = lost \cup lose
          /\ (fails' = 0 => fails = 0 /\ \A x \in lose : len[x] >= Wrap)
          /\ {} \subseteq Going(t) /\ Going(t)' \cap (registered' \ stuck') = {}
        BY <2>2, <2>3, <2>4, <2>6, <3>1, <3>3, <3>4, <3>5
    <3> QED BY <1>leave, <2>2, <3>2, <3>3, <3>6
  <2>7. CASE fails' = fails
    <3>1. lost' = lost /\ Goto(t, "unmap") /\ buffer' = [buffer EXCEPT ![t] = a]
        BY <1>13, <2>1, <2>7 DEF ReleaseDeregister
    <3>2. pc'[t] = "unmap" /\ buffer'[t] = a /\ Alone(t)
        BY <1>type, <2>3, <2>4, <3>1 DEF Alone, Goto
    <3>3. At(t)' /\ Going(t)' = {a} \ UserAddr
        BY <1>empty, <2>5, <3>2 DEF At, Going
    <3>4. Owned(t)' = {a} \ UserAddr
      <4>1. Owned(t)' = (Range(<<>>) \cup {None, a}) \ ({None} \cup UserAddr)
          BY <1>own, <2>5, <3>2
      <4> QED BY <1>empty, <1>consts, <4>1
    <3>5. /\ {} \subseteq Owned(t) /\ {} \cap {} = {} /\ Owned(t)' = Owned(t) \ ({} \cup {})
          /\ mapped' = mapped \ {} /\ len' = len /\ lost' = lost \cup {}
          /\ (fails' = 0 => fails = 0 /\ \A x \in {} : len[x] >= Wrap)
          /\ {} \subseteq Going(t) /\ Going(t)' \cap (registered' \ stuck') = {}
        BY <2>2, <2>3, <2>4, <2>7, <3>1, <3>3, <3>4
    <3> QED BY <1>leave, <2>2, <3>2, <3>3, <3>5
  <2> QED BY <2>6, <2>7
<1>14. ASSUME NEW t \in Thread, ReleaseUnmap(t) PROVE ThreadInv' /\ StoreInv' /\ RegisteredInv'
  <2>1. PICK a \in All : a = buffer[t]
      BY <1>14, <1>t DEF ReleaseUnmap, At
  <2>2. /\ pc'[t] = "idle" /\ buffer'[t] = None /\ list'[t] = <<>> /\ region'[t] = None
        /\ Alone(t) /\ list[t] = <<>> /\ region[t] = None /\ pc[t] = "unmap"
      BY <1>14, <1>t, <1>type DEF ReleaseUnmap, Goto, Alone, At
  <2>3. At(t)' /\ Going(t)' = {} /\ Going(t) = {a} \ UserAddr
      BY <1>empty, <2>1, <2>2 DEF At, Going
  <2>4. Owned(t)' = {}
      BY <1>own, <1>empty, <2>2
  <2>5. Owned(t) = {a} \ UserAddr
      BY <1>t, <1>consts, <1>empty, <2>1, <2>2
  <2>6. PICK give : give = IF a \in UserAddr \/ len[a] >= Wrap THEN {} ELSE {a}
      OBVIOUS
  <2>7. PICK lose : lose = ({a} \ UserAddr) \ give
      OBVIOUS
  <2>8. /\ mapped' = IF a \in UserAddr \/ len[a] >= Wrap THEN mapped ELSE mapped \ {a}
        /\ lost' = lost \cup (({a} \cap mapped') \ UserAddr)
        /\ UNCHANGED <<len, registered, stuck, fails>>
      BY <1>14, <2>1 DEF ReleaseUnmap
  <2>9. mapped' = mapped \ give /\ a \in mapped
      BY <1>t, <1>reg, <2>5, <2>6, <2>8
  <2>10. lost' = lost \cup lose
      BY <2>7, <2>8, <2>9
  <2>11. \A x \in lose : len[x] >= Wrap
      BY <2>6, <2>7
  <2>12. /\ give \subseteq Owned(t) /\ lose \subseteq Owned(t) /\ give \cap lose = {}
         /\ Owned(t)' = Owned(t) \ (give \cup lose)
         /\ len' = len /\ (fails' = 0 => fails = 0 /\ \A x \in lose : len[x] >= Wrap)
         /\ registered' \ stuck' \subseteq registered \ stuck
         /\ give \subseteq Going(t) /\ Going(t)' \cap (registered' \ stuck') = {}
      BY <2>3, <2>4, <2>5, <2>6, <2>7, <2>8, <2>11
  <2> QED BY <1>leave, <2>2, <2>3, <2>9, <2>10, <2>12
<1>15. CASE UNCHANGED vars
    BY <1>15, <1>inv DEF vars, ThreadInv, At, StoreInv, StorageAccounted, Owned, RegisteredInv,
                         RegisteredIsMapped, Going
<1> QED BY <1>1, <1>2, <1>3, <1>4, <1>5, <1>6, <1>7, <1>8, <1>9, <1>10, <1>11, <1>12, <1>13, <1>14, <1>15
        DEF Next

-----------------------------------------------------------------------------
(* The theorems *)

\* The invariant holds where nothing is allocated yet.
LEMMA InitInv == Init => IInv
<1> SUFFICES ASSUME Init PROVE IInv
    OBVIOUS
<1>1. \A s : s = <<>> => s \in Seq(Addr) /\ Range(s) = {} /\ Len(s) = 0 /\ IsInjective(s)
  <2> SUFFICES ASSUME NEW s, s = <<>>
               PROVE  s \in Seq(Addr) /\ Range(s) = {} /\ Len(s) = 0 /\ IsInjective(s)
      OBVIOUS
  <2>1. s \in Seq(Addr) /\ Len(s) = 0
      OBVIOUS
  <2>2. \A i \in 1..Len(s) : FALSE
      BY <2>1
  <2> QED BY <2>1, <2>2, RangeFacts
<1>2. TypeOK
    BY <1>1, MemoryRegionAssumption DEF Init, TypeOK, PC
<1>3. ASSUME NEW t \in Thread PROVE At(t) /\ Owned(t) = {} /\ Going(t) = {}
  <2>1. pc[t] = "idle" /\ buffer[t] = None /\ list[t] = <<>> /\ region[t] = None
      BY DEF Init
  <2> QED BY <1>1, <2>1 DEF At, Owned, Going
<1>4. ThreadInv
    BY <1>3 DEF ThreadInv
<1>5. StoreInv /\ RegisteredInv
    BY <1>3 DEF Init, StoreInv, StorageAccounted, RegisteredInv, RegisteredIsMapped
<1> QED BY <1>2, <1>4, <1>5 DEF IInv

\* The invariant holds in every state that the constructors, allocate, allocate64kB
\* and release reach, however their threads interleave and whichever calls fail.
THEOREM Invariance == Spec => []IInv
<1>1. IInv /\ [Next]_vars => IInv'
    BY TypeStep, StepInv DEF IInv
<1> QED BY <1>1, InitInv, PTL DEF Spec

\* The state is well typed; in particular allocate writes no entry of regionList
\* beyond its end, whatever the device says about fragments.
THEOREM TypeCorrect == Spec => []TypeOK
BY Invariance, PTL DEF IInv

\* Storage is deregistered before it is unmapped, and user storage stays mapped.
THEOREM RegisteredCorrect == Spec => []RegisteredIsMapped
<1>1. IInv => RegisteredIsMapped
    BY DEF IInv, RegisteredInv
<1> QED BY <1>1, Invariance, PTL

\* Storage belongs to one region, and is lost only if a call failed or its length
\* does not fit in 32 bits.
THEOREM StorageCorrect == Spec => []StorageAccounted
<1>1. IInv => StorageAccounted
    BY DEF IInv, StoreInv
<1> QED BY <1>1, Invariance, PTL

=============================================================================
