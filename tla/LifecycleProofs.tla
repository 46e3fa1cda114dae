--------------------------- MODULE LifecycleProofs ---------------------------
(***************************************************************************)
(* Proofs, for any number of connections, of the safety properties of      *)
(* Lifecycle.                                                              *)
(*                                                                         *)
(* The invariant is about the calls still to be made.  Each is made once,  *)
(* and a destructor's calls only while nobody holds its object (WorkInv).  *)
(* What must outlive a handle is held or exists as long as the handle, and *)
(* the call that gives it up comes after the one that frees the handle     *)
(* (Precedes).                                                             *)
(***************************************************************************)
EXTENDS Lifecycle, Integers, SequenceTheorems, FiniteSetTheorems, TLAPS

Holder == {Ctl, App, Call} \cup Object

\* The object whose destructor frees handle x.
Nobody == <<"nobody", None>>
Owner(x) ==
    CASE x[1] \in {"id", "evch", "qp", "mr"} -> IF x[2] = None THEN Listener ELSE Client(x[2])
      [] x[1] = "cq"      -> Queue(x[2])
      [] x[1] = "pd"      -> Domain
      [] x[1] = "compch"  -> Channel
      [] x[1] = "poolmr"  -> Pool
      [] x[1] = "largemr" -> Large
      [] x[1] = "srq"     -> Srq
      [] OTHER -> Nobody

\* The handles that destructors free; the listener has no queue pair, but its
\* destructor asks for one.
Freed == {x \in Handle \cup {<<"qp", None>>} : Owner(x) \in Object}

\* The calls of destructors.
Calls == {Drop(h, o) : h \in Holder, o \in Object} \cup {Free(x) : x \in Freed}

Todo == Range(work)

\* In w, a call of the set A comes before call b, if b is there.
Precedes(A, b, w) == \A i \in 1..Len(w) : w[i] = b => \E j \in 1..(i - 1) : w[j] \in A

Starting == {"device", "listener", "domain", "channel", "pool", "srq", "listen", "large"}

\* During startup nothing is destroyed, and nobody connects; a process that
\* aborted does nothing.
StageInv ==
    /\ pc \in Starting \cup {"failed", "aborted", "running", "destroying", "gone"}
    /\ pc \in Starting \cup {"failed"} => work = <<>> /\ made = {} /\ refused = {}
    /\ pc = "aborted" => work = <<>>
    /\ pc \in Starting => lost = {}
    /\ pc = "device" => exists = {}
    /\ pc \in {"device", "listener"} => held = {}
    /\ pc \in {"domain", "channel", "pool", "srq", "listen", "large", "running"} =>
          <<Ctl, Listener>> \in held
    /\ pc \in {"channel", "pool", "srq", "listen", "large", "running"} => <<Ctl, Domain>> \in held
    /\ pc \in {"srq", "listen", "large", "running"} => <<Ctl, Pool>> \in held

\* Every call is made once, and a destructor makes it when nobody holds its object.
WorkInv ==
    /\ work \in Seq(Calls)
    /\ IsInjective(work)
    /\ \A h \in Object, o \in Object : Drop(h, o) \in Todo => ~HasHolder(h)
    /\ \A x \in Freed : Free(x) \in Todo => ~HasHolder(Owner(x))

\* Who can hold what, and when a reference is dropped.
HoldInv ==
    /\ \A c \in Conn, h \in Holder :
          /\ <<h, Client(c)>> \in held => h \in {Ctl, App, Call} /\ c \in made
          /\ <<h, Queue(c)>> \in held => h \in {Client(c), Call}
    /\ \A h \in Holder : <<h, Large>> \in held => h = Ctl
    /\ \A o \in Object :
          /\ <<Call, o>> \in held => Drop(Call, o) \in Todo /\ pc = "running"
          /\ Drop(Ctl, o) \in Todo => pc = "destroying" \/ \E c \in Conn : o = Client(c)
          /\ Drop(App, o) \in Todo => pc # "destroying" /\ \A p \in Object : <<Call, p>> \notin held

\* What verbs refused or an exception left behind is not tried again.
OnceInv ==
    /\ \A x \in refused \cup lost : Free(x) \notin Todo /\ ~HasHolder(Owner(x))
    /\ \A x \in refused : x[1] \in {"pd", "cq", "compch"} /\ (x[2] = None \/ x[2] \in made)
    /\ \A x \in lost : /\ x[1] \in {"devlist", "iflist", "evch", "id"} /\ x[2] \notin made
                       /\ x[1] # "id" => x[2] = None

\* Every handle has an owner or a call that frees it.
LeftInv ==
    \A x \in exists :
        /\ x[2] = None \/ x[2] \in made \/ x \in lost
        /\ \/ x \in refused \cup lost \cup {<<"tempmr", None>>}
           \/ HasHolder(Owner(x))
           \/ Free(x) \in Todo
           \/ x \in DeviceLists /\ pc \in Starting \cup {"aborted"}

\* Reference <<h, o>> is held as long as x exists.
Guard(x, h, o) ==
    x \in exists => <<h, o>> \in held /\ Precedes({Free(x)}, Drop(h, o), work)

\* What keeps the pool and the domain alive.
GuardInv ==
    /\ HasHolder(Pool) => <<"poolmr", None>> \in exists
    /\ \A c \in Conn : /\ Guard(<<"qp", c>>, Client(c), Pool)
                       /\ Guard(<<"mr", c>>, Client(c), Pool)
                       /\ <<"qp", c>> \in exists => {<<"pd", None>>, <<"cq", c>>} \subseteq exists
    /\ Guard(<<"poolmr", None>>, Pool, Domain)
    /\ Guard(<<"srq", None>>, Srq, Domain)
    /\ <<"largemr", None>> \in exists =>
          /\ <<Ctl, Domain>> \in held
          /\ \/ <<Ctl, Large>> \in held /\ Precedes({Drop(Ctl, Large)}, Drop(Ctl, Domain), work)
             \/ Precedes({Free(<<"largemr", None>>)}, Drop(Ctl, Domain), work)
    /\ HasHolder(Domain) => <<"pd", None>> \in exists
    /\ <<"pd", None>> \in refused => <<"tempmr", None>> \in exists

\* What keeps the event channel of an id alive while the controller is there.
ChannelAt(c) ==
    IF c \in active
    THEN /\ <<"evch", c>> \in exists
         /\ Precedes({Free(<<"id", c>>)}, Free(<<"evch", c>>), work)
    ELSE pc = "destroying" =>
         \/ <<App, Client(c)>> \in held
         \/ /\ <<Ctl, Listener>> \in held
            /\ \/ /\ <<Ctl, Client(c)>> \in held
                  /\ Precedes({Drop(Ctl, Client(c))}, Drop(Ctl, Listener), work)
               \/ Precedes({Free(<<"id", c>>)}, Drop(Ctl, Listener), work)

ChannelInv ==
    /\ HasHolder(Listener) => <<"evch", None>> \in exists
    /\ \A c \in made : <<"id", c>> \in exists => ChannelAt(c)
    /\ \A c \in Conn : <<"id", c>> \in uaf => pc = "gone" /\ c \notin active

\* The call that closes a connection in order destroys the queue pair before it
\* drops the queue.
OrderlyAt(c) ==
    /\ <<"cq", c>> \notin refused
    /\ <<App, Client(c)>> \notin held
    /\ <<Ctl, Client(c)>> \in held => Drop(Ctl, Client(c)) \in Todo
    /\ <<"qp", c>> \in exists =>
          /\ <<Call, Queue(c)>> \in held
          /\ \/ /\ <<Call, Client(c)>> \in held
                /\ Precedes({Drop(Call, Client(c))}, Drop(Call, Queue(c)), work)
                /\ <<Ctl, Client(c)>> \in held =>
                      Precedes({Drop(Ctl, Client(c))}, Drop(Call, Client(c)), work)
             \/ Precedes({Free(<<"qp", c>>)}, Drop(Call, Queue(c)), work)

\* In every other case the client has the only reference to the queue, and drops
\* it before it destroys the queue pair.
OtherwiseAt(c) ==
    LET q == <<"cq", c>>
    IN  \/ q \in refused /\ ~HasHolder(Client(c))
        \/ /\ q \notin refused /\ <<"qp", c>> \in exists /\ q \in exists
           /\ <<Call, Queue(c)>> \in held => <<App, Client(c)>> \in held
           /\ \/ HasHolder(Client(c)) /\ <<Client(c), Queue(c)>> \in held
              \/ /\ <<Client(c), Queue(c)>> \in held
                 /\ Drop(Client(c), Queue(c)) \in Todo
                 /\ Precedes({Drop(Client(c), Queue(c))}, Free(<<"qp", c>>), work)
              \/ /\ Free(q) \in Todo /\ ~HasHolder(Client(c))
                 /\ Precedes({Free(q)}, Free(<<"qp", c>>), work)

QueueInv ==
    \A c \in made : /\ c \in orderly => OrderlyAt(c)
                    /\ c \notin orderly => OtherwiseAt(c)

IInv ==
    /\ TypeOK /\ StageInv /\ WorkInv /\ HoldInv /\ OnceInv
    /\ LeftInv /\ GuardInv /\ ChannelInv /\ QueueInv

-----------------------------------------------------------------------------
(* Sequences of calls *)

\* The elements of a sequence.
LEMMA RangeFacts ==
    ASSUME NEW S, NEW s \in Seq(S)
    PROVE  /\ Len(s) \in Nat
           /\ Range(s) = {s[i] : i \in 1..Len(s)} /\ Range(s) \subseteq S
           /\ IsInjective(s) <=> \A i, j \in 1..Len(s) : s[i] = s[j] => i = j
BY DEF Range, IsInjective

\* There is nothing in an empty sequence.
LEMMA EmptyFacts ==
    ASSUME NEW S, NEW w, w = <<>>
    PROVE  /\ w \in Seq(S) /\ Range(w) = {} /\ IsInjective(w)
           /\ \A A, b : Precedes(A, b, w)
<1>1. w \in Seq(S) /\ Len(w) = 0
    OBVIOUS
<1>2. \A i \in 1..Len(w) : FALSE
    BY <1>1
<1>3. Range(w) = {} /\ IsInjective(w)
    BY <1>1, <1>2 DEF Range, IsInjective
<1>4. \A A, b : Precedes(A, b, w)
    BY <1>2 DEF Precedes
<1> QED BY <1>1, <1>3, <1>4

\* The first call is made.
LEMMA TailFacts ==
    ASSUME NEW S, NEW w \in Seq(S), w # <<>>, IsInjective(w)
    PROVE  /\ Head(w) \in S /\ Head(w) \in Range(w) /\ Tail(w) \in Seq(S)
           /\ Range(Tail(w)) = Range(w) \ {Head(w)}
           /\ IsInjective(Tail(w))
           /\ \A A, b : Precedes(A, b, w) =>
                 /\ Head(w) # b
                 /\ Head(w) \notin A => Precedes(A, b, Tail(w))
<1> DEFINE t == Tail(w)
<1>1. /\ t \in Seq(S) /\ Len(t) = Len(w) - 1 /\ Len(w) \in Nat \ {0}
      /\ \A i \in 1..(Len(w) - 1) : t[i] = w[i + 1]
      /\ Head(w) = w[1] /\ Head(w) \in S
    OBVIOUS
<1> HIDE DEF t
<1>2. /\ Range(t) = {t[i] : i \in 1..Len(t)} /\ Range(w) = {w[i] : i \in 1..Len(w)}
      /\ IsInjective(t) <=> \A i, j \in 1..Len(t) : t[i] = t[j] => i = j
      /\ \A i, j \in 1..Len(w) : w[i] = w[j] => i = j
    BY <1>1, RangeFacts
<1>3. \A i \in 1..Len(t) : i + 1 \in 1..Len(w) /\ i + 1 # 1 /\ t[i] = w[i + 1]
    BY <1>1
<1>4. 1 \in 1..Len(w) /\ \A i \in 1..Len(w) : i # 1 => i - 1 \in 1..Len(t) /\ t[i - 1] = w[i]
    BY <1>1
<1>5. Range(t) = Range(w) \ {w[1]}
  <2>1. ASSUME NEW x \in Range(t) PROVE x \in Range(w) \ {w[1]}
      BY <1>2, <1>3, <1>4
  <2>2. ASSUME NEW x \in Range(w), x # w[1] PROVE x \in Range(t)
    <3>1. PICK i \in 1..Len(w) : x = w[i] /\ i # 1
        BY <1>2, <2>2
    <3>2. i - 1 \in 1..Len(t) /\ t[i - 1] = x
        BY <1>4, <3>1
    <3> QED BY <1>2, <3>2
  <2> QED BY <2>1, <2>2
<1>6. IsInjective(t)
  <2>1. ASSUME NEW i \in 1..Len(t), NEW j \in 1..Len(t), t[i] = t[j] PROVE i = j
    <3>1. i + 1 = j + 1
        BY <1>2, <1>3, <2>1
    <3> QED BY <3>1
  <2> QED BY <1>2, <2>1
<1>7. ASSUME NEW A, NEW b, Precedes(A, b, w)
      PROVE  w[1] # b /\ (w[1] \notin A => Precedes(A, b, t))
  <2>1. \A i \in 1..Len(w) : w[i] = b => \E j \in 1..(i - 1) : w[j] \in A
      BY <1>7 DEF Precedes
  <2>2. w[1] # b
      BY <1>4, <2>1
  <2>3. ASSUME w[1] \notin A, NEW i \in 1..Len(t), t[i] = b
        PROVE  \E j \in 1..(i - 1) : t[j] \in A
    <3>1. i + 1 \in 1..Len(w) /\ w[i + 1] = b
        BY <1>3, <2>3
    <3>2. PICK j \in 1..((i + 1) - 1) : w[j] \in A
        BY <2>1, <3>1
    <3>3. j # 1 /\ j \in Int /\ 1 <= j /\ j <= i
        BY <2>3, <3>2
    <3>4. j - 1 \in 1..(i - 1) /\ j \in 1..Len(w)
        BY <1>1, <3>3
    <3>5. t[j - 1] = w[j]
        BY <1>4, <3>3, <3>4
    <3> QED BY <3>2, <3>4, <3>5
  <2> QED BY <2>2, <2>3 DEF Precedes
<1> QED BY <1>1, <1>2, <1>4, <1>5, <1>6, <1>7 DEF t

\* The calls of a destructor are put in front.
LEMMA PushFacts ==
    ASSUME NEW S, NEW d \in Seq(S), NEW t \in Seq(S)
    PROVE  /\ d \o t \in Seq(S) /\ Range(d \o t) = Range(d) \cup Range(t)
           /\ IsInjective(d) /\ IsInjective(t) /\ Range(d) \cap Range(t) = {} => IsInjective(d \o t)
           /\ \A A, b :
                 /\ Precedes(A, b, t) /\ b \notin Range(d) => Precedes(A, b, d \o t)
                 /\ Precedes(A, b, d) /\ A \cap Range(d) # {} => Precedes(A, b, d \o t)
<1> DEFINE w == d \o t
<1>1. /\ w \in Seq(S) /\ Len(w) = Len(d) + Len(t) /\ Len(d) \in Nat /\ Len(t) \in Nat
      /\ \A i \in 1..(Len(d) + Len(t)) : w[i] = IF i <= Len(d) THEN d[i] ELSE t[i - Len(d)]
    BY ConcatProperties
<1> HIDE DEF w
<1>2. \A i \in 1..Len(w) : \/ i \in 1..Len(d) /\ w[i] = d[i]
                           \/ i - Len(d) \in 1..Len(t) /\ w[i] = t[i - Len(d)] /\ i > Len(d)
    BY <1>1
<1>3. \A i \in 1..Len(d) : i \in 1..Len(w) /\ w[i] = d[i]
    BY <1>1
<1>4. \A i \in 1..Len(t) : Len(d) + i \in 1..Len(w) /\ w[Len(d) + i] = t[i]
    BY <1>1
<1>5. /\ Range(w) = {w[i] : i \in 1..Len(w)} /\ Range(d) = {d[i] : i \in 1..Len(d)}
      /\ Range(t) = {t[i] : i \in 1..Len(t)}
      /\ IsInjective(w) <=> \A i, j \in 1..Len(w) : w[i] = w[j] => i = j
      /\ IsInjective(d) <=> \A i, j \in 1..Len(d) : d[i] = d[j] => i = j
      /\ IsInjective(t) <=> \A i, j \in 1..Len(t) : t[i] = t[j] => i = j
  <2>1. ASSUME NEW s \in Seq(S)
        PROVE  /\ Range(s) = {s[i] : i \in 1..Len(s)}
               /\ IsInjective(s) <=> \A i, j \in 1..Len(s) : s[i] = s[j] => i = j
      BY RangeFacts
  <2>2. w \in Seq(S)
      BY <1>1
  <2>3. /\ Range(w) = {w[i] : i \in 1..Len(w)}
        /\ IsInjective(w) <=> \A i, j \in 1..Len(w) : w[i] = w[j] => i = j
      BY ONLY <2>1, <2>2
  <2>4. /\ Range(d) = {d[i] : i \in 1..Len(d)}
        /\ IsInjective(d) <=> \A i, j \in 1..Len(d) : d[i] = d[j] => i = j
      BY RangeFacts
  <2>5. /\ Range(t) = {t[i] : i \in 1..Len(t)}
        /\ IsInjective(t) <=> \A i, j \in 1..Len(t) : t[i] = t[j] => i = j
      BY RangeFacts
  <2> QED BY ONLY <2>3, <2>4, <2>5
<1>6. Range(w) = Range(d) \cup Range(t)
  <2>1. ASSUME NEW x \in Range(w) PROVE x \in Range(d) \cup Range(t)
      BY <1>2, <1>5
  <2>2. ASSUME NEW x \in Range(d) \cup Range(t) PROVE x \in Range(w)
    <3>1. CASE x \in Range(d)
        BY <1>3, <1>5, <3>1
    <3>2. CASE x \in Range(t)
        BY <1>4, <1>5, <3>2
    <3> QED BY <3>1, <3>2
  <2> QED BY <2>1, <2>2
<1>7. ASSUME IsInjective(d), IsInjective(t), Range(d) \cap Range(t) = {} PROVE IsInjective(w)
  <2> SUFFICES ASSUME NEW i \in 1..Len(w), NEW j \in 1..Len(w), w[i] = w[j] PROVE i = j
      BY <1>5
  <2>1. CASE i \in 1..Len(d) /\ w[i] = d[i] /\ j \in 1..Len(d) /\ w[j] = d[j]
      BY <1>5, <1>7, <2>1
  <2>2. CASE /\ i - Len(d) \in 1..Len(t) /\ w[i] = t[i - Len(d)]
             /\ j - Len(d) \in 1..Len(t) /\ w[j] = t[j - Len(d)]
    <3>1. i - Len(d) = j - Len(d)
        BY <1>5, <1>7, <2>2
    <3> QED BY <1>1, <3>1
  <2>3. CASE i \in 1..Len(d) /\ w[i] = d[i] /\ j - Len(d) \in 1..Len(t) /\ w[j] = t[j - Len(d)]
    <3>1. w[i] \in Range(d) /\ w[j] \in Range(t)
        BY <1>5, <2>3
    <3> QED BY <1>7, <3>1
  <2>4. CASE j \in 1..Len(d) /\ w[j] = d[j] /\ i - Len(d) \in 1..Len(t) /\ w[i] = t[i - Len(d)]
    <3>1. w[j] \in Range(d) /\ w[i] \in Range(t)
        BY <1>5, <2>4
    <3> QED BY <1>7, <3>1
  <2> QED BY <1>2, <2>1, <2>2, <2>3, <2>4
<1>8. ASSUME NEW A, NEW b, Precedes(A, b, t), b \notin Range(d) PROVE Precedes(A, b, w)
  <2> SUFFICES ASSUME NEW i \in 1..Len(w), w[i] = b PROVE \E j \in 1..(i - 1) : w[j] \in A
      BY DEF Precedes
  <2>1. i - Len(d) \in 1..Len(t) /\ t[i - Len(d)] = b
      BY <1>2, <1>5, <1>8
  <2>2. PICK j \in 1..((i - Len(d)) - 1) : t[j] \in A
      BY <1>8, <2>1 DEF Precedes
  <2>3. j \in 1..Len(t) /\ Len(d) + j \in 1..(i - 1)
      BY <1>1, <2>1, <2>2
  <2> QED BY <1>4, <2>2, <2>3
<1>9. ASSUME NEW A, NEW b, Precedes(A, b, d), A \cap Range(d) # {} PROVE Precedes(A, b, w)
  <2> SUFFICES ASSUME NEW i \in 1..Len(w), w[i] = b PROVE \E j \in 1..(i - 1) : w[j] \in A
      BY DEF Precedes
  <2>1. CASE i \in 1..Len(d) /\ w[i] = d[i]
    <3>1. PICK j \in 1..(i - 1) : d[j] \in A
        BY <1>9, <2>1 DEF Precedes
    <3>2. j \in 1..Len(d)
        BY <1>1, <2>1, <3>1
    <3> QED BY <1>3, <3>1, <3>2
  <2>2. CASE i > Len(d)
    <3>1. PICK j \in 1..Len(d) : d[j] \in A
        BY <1>5, <1>9
    <3>2. j \in 1..(i - 1)
        BY <1>1, <2>2, <3>1
    <3> QED BY <1>3, <3>1, <3>2
  <2> QED BY <1>2, <2>1, <2>2
<1> QED BY <1>1, <1>6, <1>7, <1>8, <1>9 DEF w

-----------------------------------------------------------------------------
(* Objects, handles and calls *)

\* The calls differ when what they are about does.
LEMMA CallFacts ==
    /\ \A h, o, g, p : Drop(h, o) = Drop(g, p) <=> h = g /\ o = p
    /\ \A x, y : Free(x) = Free(y) <=> x = y
    /\ \A h, o, x : Drop(h, o) # Free(x)
    /\ \A h, o : Drop(h, o).op = "drop" /\ Drop(h, o).by = h /\ Drop(h, o).obj = o
    /\ \A x : Free(x).op = "free" /\ Free(x).obj = x
<1>1. \A h, o, g, p : Drop(h, o) = Drop(g, p) <=> h = g /\ o = p
    BY DEF Drop
<1>2. \A x, y : Free(x) = Free(y) <=> x = y
    BY DEF Free
<1>3. \A h, o, x : Drop(h, o) # Free(x)
    BY DEF Drop, Free
<1>4. \A h, o : Drop(h, o).op = "drop" /\ Drop(h, o).by = h /\ Drop(h, o).obj = o
    BY DEF Drop
<1>5. \A x : Free(x).op = "free" /\ Free(x).obj = x
    BY DEF Free
<1> QED BY <1>1, <1>2, <1>3, <1>4, <1>5

\* Holders and objects are different from each other.
LEMMA ObjectFacts ==
    /\ {Listener, Domain, Channel, Pool, Large, Srq} \subseteq Object
    /\ \A c \in Conn : Client(c) \in Object /\ Queue(c) \in Object
    /\ \A o \in Object : \/ o \in {Listener, Domain, Channel, Pool, Large, Srq}
                         \/ \E c \in Conn : o = Client(c) \/ o = Queue(c)
    /\ Ctl \notin Object /\ App \notin Object /\ Call \notin Object /\ Nobody \notin Object
    /\ Ctl # App /\ Ctl # Call /\ App # Call
    /\ \A c, d : /\ Client(c) = Client(d) <=> c = d
                 /\ Queue(c) = Queue(d) <=> c = d
                 /\ Client(c) # Queue(d)
    /\ \A c : Client(c) \notin {Listener, Domain, Channel, Pool, Large, Srq, Ctl, App, Call}
    /\ \A c : Queue(c) \notin {Listener, Domain, Channel, Pool, Large, Srq, Ctl, App, Call}
    /\ Listener \notin {Domain, Channel, Pool, Large, Srq}
    /\ Domain \notin {Channel, Pool, Large, Srq}
    /\ Channel \notin {Pool, Large, Srq}
    /\ Pool \notin {Large, Srq}
    /\ Large # Srq
<1>1. /\ {Listener, Domain, Channel, Pool, Large, Srq} \subseteq Object
      /\ \A c \in Conn : Client(c) \in Object /\ Queue(c) \in Object
      /\ \A o \in Object : \/ o \in {Listener, Domain, Channel, Pool, Large, Srq}
                           \/ \E c \in Conn : o = Client(c) \/ o = Queue(c)
    BY DEF Object
<1>2. Ctl \notin Object /\ App \notin Object /\ Call \notin Object /\ Nobody \notin Object
    BY DEF Object, Ctl, App, Call, Nobody, Listener, Domain, Channel, Pool, Large, Srq, Client, Queue
<1>3. Ctl # App /\ Ctl # Call /\ App # Call
    BY DEF Ctl, App, Call
<1>4. \A c, d : /\ Client(c) = Client(d) <=> c = d
                /\ Queue(c) = Queue(d) <=> c = d
                /\ Client(c) # Queue(d)
    BY DEF Client, Queue
<1>5. /\ \A c : Client(c) \notin {Listener, Domain, Channel, Pool, Large, Srq, Ctl, App, Call}
      /\ \A c : Queue(c) \notin {Listener, Domain, Channel, Pool, Large, Srq, Ctl, App, Call}
    BY DEF Listener, Domain, Channel, Pool, Large, Srq, Client, Queue, Ctl, App, Call
<1>6. /\ Listener \notin {Domain, Channel, Pool, Large, Srq}
      /\ Domain \notin {Channel, Pool, Large, Srq}
      /\ Channel \notin {Pool, Large, Srq}
      /\ Pool \notin {Large, Srq}
      /\ Large # Srq
    BY DEF Listener, Domain, Channel, Pool, Large, Srq
<1> QED BY <1>1, <1>2, <1>3, <1>4, <1>5, <1>6

\* Who frees the handles.
LEMMA OwnerFacts ==
    /\ \A c \in Conn : \A k \in {"id", "evch", "qp", "mr"} :
          <<k, c>> \in Handle /\ Owner(<<k, c>>) = Client(c)
    /\ \A c \in Conn : <<"cq", c>> \in Handle /\ Owner(<<"cq", c>>) = Queue(c)
    /\ \A k \in {"id", "evch", "qp"} : Owner(<<k, None>>) = Listener
    /\ Owner(<<"pd", None>>) = Domain /\ Owner(<<"compch", None>>) = Channel
    /\ Owner(<<"poolmr", None>>) = Pool /\ Owner(<<"largemr", None>>) = Large
    /\ Owner(<<"srq", None>>) = Srq
    /\ \A k \in {"devlist", "iflist", "tempmr"} : Owner(<<k, None>>) = Nobody
    /\ \A x \in Handle :
          \/ \E c \in Conn : \E k \in {"id", "evch", "cq", "qp", "mr"} : x = <<k, c>>
          \/ \E k \in {"devlist", "iflist", "id", "evch", "pd", "compch", "poolmr", "largemr",
                       "tempmr", "srq"} : x = <<k, None>>
    /\ \A k \in {"devlist", "iflist", "id", "evch", "pd", "compch", "poolmr", "largemr",
                 "tempmr", "srq"} : <<k, None>> \in Handle
    /\ None \notin Conn
<1>0. None \notin Conn
    BY LifecycleAssumption
<1>1. \A c \in Conn : \A k \in {"id", "evch", "qp", "mr"} :
         <<k, c>> \in Handle /\ Owner(<<k, c>>) = Client(c)
    BY <1>0 DEF Handle, Owner
<1>2. \A c \in Conn : <<"cq", c>> \in Handle /\ Owner(<<"cq", c>>) = Queue(c)
    BY DEF Handle, Owner
<1>3. \A k \in {"id", "evch", "qp"} : Owner(<<k, None>>) = Listener
    BY DEF Owner
<1>4. /\ Owner(<<"pd", None>>) = Domain /\ Owner(<<"compch", None>>) = Channel
      /\ Owner(<<"poolmr", None>>) = Pool /\ Owner(<<"largemr", None>>) = Large
      /\ Owner(<<"srq", None>>) = Srq
    BY DEF Owner
<1>5. \A k \in {"devlist", "iflist", "tempmr"} : Owner(<<k, None>>) = Nobody
    BY DEF Owner
<1>6. \A x \in Handle :
         \/ \E c \in Conn : \E k \in {"id", "evch", "cq", "qp", "mr"} : x = <<k, c>>
         \/ \E k \in {"devlist", "iflist", "id", "evch", "pd", "compch", "poolmr", "largemr",
                      "tempmr", "srq"} : x = <<k, None>>
    BY DEF Handle
<1>7. \A k \in {"devlist", "iflist", "id", "evch", "pd", "compch", "poolmr", "largemr",
                "tempmr", "srq"} : <<k, None>> \in Handle
    BY DEF Handle
<1> QED BY <1>0, <1>1, <1>2, <1>3, <1>4, <1>5, <1>6, <1>7


\* The handles and who frees them, one by one.
LEMMA HandleFacts ==
    ASSUME NEW x \in Handle
    PROVE  \/ \E c \in Conn : /\ Owner(x) = Client(c)
                              /\ \E k \in {"id", "evch", "qp", "mr"} : x = <<k, c>>
           \/ \E c \in Conn : Owner(x) = Queue(c) /\ x = <<"cq", c>>
           \/ Owner(x) = Listener /\ (x = <<"id", None>> \/ x = <<"evch", None>>)
           \/ Owner(x) = Domain /\ x = <<"pd", None>>
           \/ Owner(x) = Channel /\ x = <<"compch", None>>
           \/ Owner(x) = Pool /\ x = <<"poolmr", None>>
           \/ Owner(x) = Large /\ x = <<"largemr", None>>
           \/ Owner(x) = Srq /\ x = <<"srq", None>>
           \/ /\ Owner(x) = Nobody
              /\ x \in {<<"devlist", None>>, <<"iflist", None>>, <<"tempmr", None>>}
<1>1. CASE \E c \in Conn : \E k \in {"id", "evch", "cq", "qp", "mr"} : x = <<k, c>>
  <2>1. PICK c \in Conn, k \in {"id", "evch", "cq", "qp", "mr"} : x = <<k, c>>
      BY <1>1
  <2>2. CASE k = "cq"
      BY <2>1, <2>2, OwnerFacts
  <2>3. CASE k \in {"id", "evch", "qp", "mr"}
    <3>1. Owner(x) = Client(c)
        BY <2>1, <2>3, OwnerFacts
    <3> QED BY <2>1, <2>3, <3>1
  <2> QED BY <2>2, <2>3
<1>2. CASE \E k \in {"devlist", "iflist", "id", "evch", "pd", "compch", "poolmr", "largemr",
                     "tempmr", "srq"} : x = <<k, None>>
  <2>1. PICK k \in {"devlist", "iflist", "id", "evch", "pd", "compch", "poolmr", "largemr",
                    "tempmr", "srq"} : x = <<k, None>>
      BY <1>2
  <2>2. CASE k \in {"devlist", "iflist", "tempmr"}
      BY <2>1, <2>2, OwnerFacts
  <2>3. CASE k \in {"id", "evch"}
      BY <2>1, <2>3, OwnerFacts
  <2>4. CASE k \in {"pd", "compch", "poolmr", "largemr", "srq"}
      BY <2>1, <2>4, OwnerFacts
  <2> QED BY <2>2, <2>3, <2>4
<1> QED BY <1>1, <1>2, OwnerFacts

\* What an object owns.
LEMMA OwnedFacts ==
    ASSUME NEW x \in Handle
    PROVE  /\ \A c \in Conn : Owner(x) = Client(c) => \E k \in {"id", "evch", "qp", "mr"} : x = <<k, c>>
           /\ \A c \in Conn : Owner(x) = Queue(c) => x = <<"cq", c>>
           /\ Owner(x) = Listener => x = <<"id", None>> \/ x = <<"evch", None>>
           /\ Owner(x) = Domain => x = <<"pd", None>>
           /\ Owner(x) = Channel => x = <<"compch", None>>
           /\ Owner(x) = Pool => x = <<"poolmr", None>>
           /\ Owner(x) = Large => x = <<"largemr", None>>
           /\ Owner(x) = Srq => x = <<"srq", None>>
<1>1. CASE \E c \in Conn : /\ Owner(x) = Client(c)
                           /\ \E k \in {"id", "evch", "qp", "mr"} : x = <<k, c>>
    BY <1>1, ObjectFacts
<1>2. CASE \E c \in Conn : Owner(x) = Queue(c) /\ x = <<"cq", c>>
    BY <1>2, ObjectFacts
<1>3. CASE \/ Owner(x) = Listener /\ (x = <<"id", None>> \/ x = <<"evch", None>>)
           \/ Owner(x) = Domain /\ x = <<"pd", None>>
           \/ Owner(x) = Channel /\ x = <<"compch", None>>
           \/ Owner(x) = Pool /\ x = <<"poolmr", None>>
           \/ Owner(x) = Large /\ x = <<"largemr", None>>
           \/ Owner(x) = Srq /\ x = <<"srq", None>>
    BY <1>3, ObjectFacts
<1>4. CASE Owner(x) = Nobody
    BY <1>4, ObjectFacts
<1> QED BY <1>1, <1>2, <1>3, <1>4, HandleFacts

\* What destructors free.
LEMMA FreedFacts ==
    /\ \A x \in Freed : Owner(x) \in Object /\ (x \in Handle \/ x = <<"qp", None>>)
    /\ \A c \in Conn : \A k \in {"id", "evch", "qp", "mr", "cq"} : <<k, c>> \in Freed
    /\ \A k \in {"id", "evch", "qp", "pd", "compch", "poolmr", "largemr", "srq"} :
          <<k, None>> \in Freed
    /\ \A x \in Handle : x \in Freed \/ Owner(x) = Nobody
    /\ \A k \in {"devlist", "iflist", "tempmr"} : <<k, None>> \notin Freed
    /\ \A h \in Holder, o \in Object : Drop(h, o) \in Calls
    /\ \A x \in Freed : Free(x) \in Calls
    /\ \A b \in Calls : \/ \E h \in Holder, o \in Object : b = Drop(h, o)
                        \/ \E x \in Freed : b = Free(x)
    /\ Ctl \in Holder /\ App \in Holder /\ Call \in Holder /\ Object \subseteq Holder
<1>1. \A x \in Freed : Owner(x) \in Object /\ (x \in Handle \/ x = <<"qp", None>>)
    BY DEF Freed
<1>2. \A c \in Conn : \A k \in {"id", "evch", "qp", "mr", "cq"} : <<k, c>> \in Freed
  <2> SUFFICES ASSUME NEW c \in Conn, NEW k \in {"id", "evch", "qp", "mr", "cq"}
               PROVE  <<k, c>> \in Freed
      OBVIOUS
  <2>1. <<k, c>> \in Handle /\ (Owner(<<k, c>>) = Client(c) \/ Owner(<<k, c>>) = Queue(c))
      BY OwnerFacts
  <2> QED BY <2>1, ObjectFacts DEF Freed
<1>3. \A k \in {"id", "evch", "qp", "pd", "compch", "poolmr", "largemr", "srq"} :
         <<k, None>> \in Freed
  <2> SUFFICES ASSUME NEW k \in {"id", "evch", "qp", "pd", "compch", "poolmr", "largemr", "srq"}
               PROVE  <<k, None>> \in Freed
      OBVIOUS
  <2>1. <<k, None>> \in Handle \/ k = "qp"
      BY OwnerFacts
  <2>2. Owner(<<k, None>>) \in {Listener, Domain, Channel, Pool, Large, Srq}
      BY OwnerFacts
  <2> QED BY <2>1, <2>2, ObjectFacts DEF Freed
<1>4. \A x \in Handle : x \in Freed \/ Owner(x) = Nobody
  <2> SUFFICES ASSUME NEW x \in Handle PROVE x \in Freed \/ Owner(x) = Nobody
      OBVIOUS
  <2>1. CASE \E c \in Conn : \E k \in {"id", "evch", "cq", "qp", "mr"} : x = <<k, c>>
      BY <1>2, <2>1
  <2>2. CASE \E k \in {"devlist", "iflist", "id", "evch", "pd", "compch", "poolmr", "largemr",
                       "tempmr", "srq"} : x = <<k, None>>
    <3>1. PICK k \in {"devlist", "iflist", "id", "evch", "pd", "compch", "poolmr", "largemr",
                      "tempmr", "srq"} : x = <<k, None>>
        BY <2>2
    <3>2. CASE k \in {"devlist", "iflist", "tempmr"}
        BY <3>1, <3>2, OwnerFacts
    <3>3. CASE k \notin {"devlist", "iflist", "tempmr"}
        BY <1>3, <3>1, <3>3
    <3> QED BY <3>2, <3>3
  <2> QED BY <2>1, <2>2, OwnerFacts
<1>5. \A k \in {"devlist", "iflist", "tempmr"} : <<k, None>> \notin Freed
    BY <1>1, OwnerFacts, ObjectFacts
<1>6. /\ \A h \in Holder, o \in Object : Drop(h, o) \in Calls
      /\ \A x \in Freed : Free(x) \in Calls
      /\ \A b \in Calls : \/ \E h \in Holder, o \in Object : b = Drop(h, o)
                          \/ \E x \in Freed : b = Free(x)
    BY DEF Calls
<1>7. Ctl \in Holder /\ App \in Holder /\ Call \in Holder /\ Object \subseteq Holder
    BY DEF Holder
<1> QED BY <1>1, <1>2, <1>3, <1>4, <1>5, <1>6, <1>7

-----------------------------------------------------------------------------
(* Destructors *)

\* Every call comes after those before it.
LEMMA OrderFacts ==
    ASSUME NEW S, NEW w \in Seq(S), IsInjective(w),
           NEW i \in 1..Len(w), NEW j \in 1..Len(w), i < j
    PROVE  Precedes({w[i]}, w[j], w)
<1>1. \A k \in 1..Len(w) : w[k] = w[j] => k = j
    BY RangeFacts
<1>2. i \in 1..(j - 1)
    OBVIOUS
<1> QED BY <1>1, <1>2 DEF Precedes

\* The destructor of a client.
LEMMA ClientDtorFacts ==
    ASSUME NEW c \in Conn, NEW d, d = Destructor(Client(c))
    PROVE  /\ d \in Seq(Calls) /\ IsInjective(d)
           /\ Range(d) = {Free(<<k, c>>) : k \in {"mr", "qp", "id", "evch"}}
                 \cup {Drop(Client(c), o) : o \in {Queue(c), Domain, Srq, Pool}}
           /\ Precedes({Free(<<"mr", c>>)}, Drop(Client(c), Pool), d)
           /\ Precedes({Free(<<"qp", c>>)}, Drop(Client(c), Pool), d)
           /\ Precedes({Drop(Client(c), Queue(c))}, Free(<<"qp", c>>), d)
           /\ Precedes({Free(<<"id", c>>)}, Free(<<"evch", c>>), d)
<1> DEFINE C == Client(c)
           a == RdmaClientDtor(c)
           b == RdmaConnectionDtor(C)
<1>1. C[1] = "client" /\ C[2] = c
    BY DEF Client
<1>2. d = a \o b
    BY <1>1 DEF Destructor
<1>3. PICK d1, d2, d3, d4, d5, d6, d7, d8 :
         /\ d1 = Free(<<"mr", c>>) /\ d2 = Drop(C, Queue(c)) /\ d3 = Drop(C, Domain)
         /\ d4 = Free(<<"qp", c>>) /\ d5 = Free(<<"id", c>>) /\ d6 = Free(<<"evch", c>>)
         /\ d7 = Drop(C, Srq) /\ d8 = Drop(C, Pool)
    OBVIOUS
<1>4. a = <<d1, d2, d3>> /\ b = <<d4, d5, d6, d7, d8>>
    BY <1>1, <1>3 DEF RdmaClientDtor, RdmaConnectionDtor
<1>5. {d1, d2, d3, d4, d5, d6, d7, d8} \subseteq Calls
  <2>1. C \in Holder /\ {Queue(c), Domain, Srq, Pool} \subseteq Object
      BY FreedFacts, ObjectFacts
  <2>2. d2 \in Calls /\ d3 \in Calls /\ d7 \in Calls /\ d8 \in Calls
      BY <1>3, <2>1, FreedFacts
  <2>3. d1 \in Calls /\ d4 \in Calls /\ d5 \in Calls /\ d6 \in Calls
      BY <1>3, FreedFacts
  <2> QED BY <2>2, <2>3
<1>6. d1 \notin {d2, d3, d4, d5, d6, d7, d8} /\ d2 \notin {d3, d4, d5, d6, d7, d8}
    BY <1>3, CallFacts, ObjectFacts
<1>7. d3 \notin {d4, d5, d6, d7, d8} /\ d4 \notin {d5, d6, d7, d8}
    BY <1>3, CallFacts, ObjectFacts
<1>8. d5 \notin {d6, d7, d8} /\ d6 \notin {d7, d8} /\ d7 # d8
    BY <1>3, CallFacts, ObjectFacts
<1> HIDE DEF a, b
<1>9. /\ Len(d) = 8 /\ d \in Seq(Calls)
      /\ d[1] = d1 /\ d[2] = d2 /\ d[3] = d3 /\ d[4] = d4
      /\ d[5] = d5 /\ d[6] = d6 /\ d[7] = d7 /\ d[8] = d8
  <2>1. /\ a \in Seq(Calls) /\ Len(a) = 3 /\ a[1] = d1 /\ a[2] = d2 /\ a[3] = d3
        /\ b \in Seq(Calls) /\ Len(b) = 5 /\ b[1] = d4 /\ b[2] = d5 /\ b[3] = d6
        /\ b[4] = d7 /\ b[5] = d8
      BY <1>4, <1>5
  <2>2. /\ a \o b \in Seq(Calls) /\ Len(a \o b) = Len(a) + Len(b)
        /\ \A i \in 1..(Len(a) + Len(b)) : (a \o b)[i] = IF i <= Len(a) THEN a[i]
                                                         ELSE b[i - Len(a)]
      BY <2>1, ConcatProperties
  <2> QED BY <1>2, <2>1, <2>2
<1>10. IsInjective(d)
    BY <1>6, <1>7, <1>8, <1>9, RangeFacts
<1>11. Range(d) = {d1, d2, d3, d4, d5, d6, d7, d8}
    BY <1>9, RangeFacts
<1>12. /\ Precedes({d1}, d8, d) /\ Precedes({d4}, d8, d)
       /\ Precedes({d2}, d4, d) /\ Precedes({d5}, d6, d)
  <2>1. ASSUME NEW i \in 1..8, NEW j \in 1..8, i < j PROVE Precedes({d[i]}, d[j], d)
      BY <1>9, <1>10, <2>1, OrderFacts
  <2>2. /\ Precedes({d[1]}, d[8], d) /\ Precedes({d[4]}, d[8], d)
        /\ Precedes({d[2]}, d[4], d) /\ Precedes({d[5]}, d[6], d)
      BY <2>1
  <2> QED BY <1>9, <2>2
<1> QED BY <1>3, <1>9, <1>10, <1>11, <1>12

\* The destructor of the listener.
LEMMA ListenerDtorFacts ==
    ASSUME NEW d, d = Destructor(Listener)
    PROVE  /\ d \in Seq(Calls) /\ IsInjective(d)
           /\ Range(d) = {Free(<<k, None>>) : k \in {"qp", "id", "evch"}}
                 \cup {Drop(Listener, o) : o \in {Srq, Pool}}
<1>1. Listener[1] = "listener" /\ Listener[2] = None
    BY DEF Listener
<1>2. PICK d1, d2, d3, d4, d5 :
         /\ d1 = Free(<<"qp", None>>) /\ d2 = Free(<<"id", None>>) /\ d3 = Free(<<"evch", None>>)
         /\ d4 = Drop(Listener, Srq) /\ d5 = Drop(Listener, Pool)
    OBVIOUS
<1>3. d = <<d1, d2, d3, d4, d5>>
    BY <1>1, <1>2 DEF Destructor, RdmaConnectionDtor
<1>4. {d1, d2, d3, d4, d5} \subseteq Calls
  <2>1. Listener \in Holder /\ {Srq, Pool} \subseteq Object
      BY FreedFacts, ObjectFacts
  <2>2. d4 \in Calls /\ d5 \in Calls
      BY <1>2, <2>1, FreedFacts
  <2>3. d1 \in Calls /\ d2 \in Calls /\ d3 \in Calls
      BY <1>2, FreedFacts
  <2> QED BY <2>2, <2>3
<1>5. d1 \notin {d2, d3, d4, d5} /\ d2 \notin {d3, d4, d5} /\ d3 \notin {d4, d5} /\ d4 # d5
    BY <1>2, CallFacts, ObjectFacts
<1>6. /\ Len(d) = 5 /\ d \in Seq(Calls)
      /\ d[1] = d1 /\ d[2] = d2 /\ d[3] = d3 /\ d[4] = d4 /\ d[5] = d5
    BY <1>3, <1>4
<1>7. IsInjective(d)
    BY <1>5, <1>6, RangeFacts
<1>8. Range(d) = {d1, d2, d3, d4, d5}
    BY <1>6, RangeFacts
<1> QED BY <1>2, <1>6, <1>7, <1>8

\* One call.
LEMMA OneCall ==
    ASSUME NEW a \in Calls, NEW d, d = <<a>>
    PROVE  d \in Seq(Calls) /\ IsInjective(d) /\ Range(d) = {a}
<1>1. Len(d) = 1 /\ d \in Seq(Calls) /\ d[1] = a
    OBVIOUS
<1>2. Range(d) = {d[i] : i \in 1..Len(d)} /\ \A i, j \in 1..Len(d) : d[i] = d[j] => i = j
    BY <1>1 DEF Range
<1>3. IsInjective(d)
    BY <1>1, <1>2 DEF IsInjective
<1> QED BY <1>1, <1>2, <1>3

\* Two calls in order.
LEMMA TwoCalls ==
    ASSUME NEW a \in Calls, NEW b \in Calls, a # b, NEW d, d = <<a, b>>
    PROVE  d \in Seq(Calls) /\ IsInjective(d) /\ Range(d) = {a, b} /\ Precedes({a}, b, d)
<1>1. Len(d) = 2 /\ d \in Seq(Calls) /\ d[1] = a /\ d[2] = b
    OBVIOUS
<1>2. PICK s \in Seq(Calls) : s = d
    BY <1>1
<1>3. Len(s) = 2 /\ s[1] = a /\ s[2] = b
    BY <1>1, <1>2
<1>4. IsInjective(s) /\ Range(s) = {a, b}
    BY <1>3, RangeFacts
<1>5. Precedes({a}, b, s)
  <2>1. \A i \in 1..Len(s) : s[i] = b => 1 \in 1..(i - 1)
      BY <1>3
  <2> QED BY <1>3, <2>1 DEF Precedes
<1> QED BY <1>2, <1>3, <1>4, <1>5

\* The destructors of the other objects.
LEMMA OtherDtorFacts ==
    /\ \A c \in Conn : Destructor(Queue(c)) = <<Free(<<"cq", c>>)>>
    /\ Destructor(Domain) = <<Free(<<"pd", None>>)>>
    /\ Destructor(Channel) = <<Free(<<"compch", None>>)>>
    /\ Destructor(Large) = <<Free(<<"largemr", None>>)>>
    /\ Destructor(Pool) = <<Free(<<"poolmr", None>>), Drop(Pool, Domain)>>
    /\ Destructor(Srq) = <<Free(<<"srq", None>>), Drop(Srq, Domain)>>
<1>1. \A c \in Conn : Destructor(Queue(c)) = <<Free(<<"cq", c>>)>>
    BY DEF Destructor, Queue
<1>2. Destructor(Domain) = <<Free(<<"pd", None>>)>>
    BY DEF Destructor, Domain
<1>3. Destructor(Channel) = <<Free(<<"compch", None>>)>>
    BY DEF Destructor, Channel
<1>4. Destructor(Large) = <<Free(<<"largemr", None>>)>>
    BY DEF Destructor, Large
<1>5. Destructor(Pool) = <<Free(<<"poolmr", None>>), Drop(Pool, Domain)>>
  <2>1. Destructor(Pool) = RdmaMemoryPoolDtor
      BY DEF Destructor, Pool
  <2> QED BY <2>1 DEF RdmaMemoryPoolDtor
<1>6. Destructor(Srq) = <<Free(<<"srq", None>>), Drop(Srq, Domain)>>
  <2>1. Destructor(Srq) = RdmaSharedReceiveQueueDtor
      BY DEF Destructor, Srq
  <2> QED BY <2>1 DEF RdmaSharedReceiveQueueDtor
<1> QED BY <1>1, <1>2, <1>3, <1>4, <1>5, <1>6

\* Where x is freed before <<g, p>> is dropped.
Covers(x, g, p) == Free(x) \in Range(Destructor(g)) /\ Precedes({Free(x)}, Drop(g, p), Destructor(g))

\* A destructor frees what its object owns and drops what it holds, once, and
\* in an order that keeps alive what is still in use.
LEMMA DestructorFacts ==
    /\ \A o \in Object :
          /\ Destructor(o) \in Seq(Calls) /\ IsInjective(Destructor(o))
          /\ \A b \in Range(Destructor(o)) : \/ \E x \in Freed : b = Free(x) /\ Owner(x) = o
                                             \/ \E p \in Object : b = Drop(o, p)
          /\ \A x \in Handle : Owner(x) = o => Free(x) \in Range(Destructor(o))
    /\ \A c \in Conn : Covers(<<"qp", c>>, Client(c), Pool) /\ Covers(<<"mr", c>>, Client(c), Pool)
    /\ Covers(<<"poolmr", None>>, Pool, Domain) /\ Covers(<<"srq", None>>, Srq, Domain)
<1>1. ASSUME NEW c \in Conn
      PROVE  /\ Destructor(Client(c)) \in Seq(Calls) /\ IsInjective(Destructor(Client(c)))
             /\ \A b \in Range(Destructor(Client(c))) :
                   \/ \E x \in Freed : b = Free(x) /\ Owner(x) = Client(c)
                   \/ \E p \in Object : b = Drop(Client(c), p)
             /\ \A x \in Handle : Owner(x) = Client(c) => Free(x) \in Range(Destructor(Client(c)))
             /\ Covers(<<"qp", c>>, Client(c), Pool) /\ Covers(<<"mr", c>>, Client(c), Pool)
  <2>1. PICK d : d = Destructor(Client(c))
      OBVIOUS
  <2>2. /\ d \in Seq(Calls) /\ IsInjective(d)
        /\ Range(d) = {Free(<<k, c>>) : k \in {"mr", "qp", "id", "evch"}}
              \cup {Drop(Client(c), o) : o \in {Queue(c), Domain, Srq, Pool}}
        /\ Precedes({Free(<<"mr", c>>)}, Drop(Client(c), Pool), d)
        /\ Precedes({Free(<<"qp", c>>)}, Drop(Client(c), Pool), d)
      BY <2>1, ClientDtorFacts
  <2>3. ASSUME NEW b \in Range(d)
        PROVE  \/ \E x \in Freed : b = Free(x) /\ Owner(x) = Client(c)
               \/ \E p \in Object : b = Drop(Client(c), p)
    <3>1. CASE \E k \in {"mr", "qp", "id", "evch"} : b = Free(<<k, c>>)
        BY <3>1, OwnerFacts, FreedFacts
    <3>2. CASE \E o \in {Queue(c), Domain, Srq, Pool} : b = Drop(Client(c), o)
        BY <3>2, ObjectFacts
    <3> QED BY <2>2, <2>3, <3>1, <3>2
  <2>4. ASSUME NEW x \in Handle, Owner(x) = Client(c) PROVE Free(x) \in Range(d)
    <3>1. \E k \in {"id", "evch", "qp", "mr"} : x = <<k, c>>
        BY <2>4, OwnedFacts
    <3> QED BY <2>2, <3>1
  <2>5. Free(<<"qp", c>>) \in Range(d) /\ Free(<<"mr", c>>) \in Range(d)
      BY <2>2
  <2> QED BY <2>1, <2>2, <2>3, <2>4, <2>5 DEF Covers
<1> DEFINE Fine(o) ==
          /\ Destructor(o) \in Seq(Calls) /\ IsInjective(Destructor(o))
          /\ \A b \in Range(Destructor(o)) : \/ \E x \in Freed : b = Free(x) /\ Owner(x) = o
                                             \/ \E p \in Object : b = Drop(o, p)
          /\ \A x \in Handle : Owner(x) = o => Free(x) \in Range(Destructor(o))
<1>2. Fine(Listener)
  <2>1. PICK d : d = Destructor(Listener)
      OBVIOUS
  <2>2. /\ d \in Seq(Calls) /\ IsInjective(d)
        /\ Range(d) = {Free(<<k, None>>) : k \in {"qp", "id", "evch"}}
              \cup {Drop(Listener, o) : o \in {Srq, Pool}}
      BY <2>1, ListenerDtorFacts
  <2>3. ASSUME NEW b \in Range(d)
        PROVE  \/ \E x \in Freed : b = Free(x) /\ Owner(x) = Listener
               \/ \E p \in Object : b = Drop(Listener, p)
    <3>1. CASE \E k \in {"qp", "id", "evch"} : b = Free(<<k, None>>)
        BY <3>1, OwnerFacts, FreedFacts
    <3>2. CASE \E o \in {Srq, Pool} : b = Drop(Listener, o)
        BY <3>2, ObjectFacts
    <3> QED BY <2>2, <2>3, <3>1, <3>2
  <2>4. ASSUME NEW x \in Handle, Owner(x) = Listener PROVE Free(x) \in Range(d)
    <3>1. x \in {<<"id", None>>, <<"evch", None>>}
        BY <2>4, OwnedFacts
    <3> QED BY <2>2, <3>1
  <2> QED BY <2>1, <2>2, <2>3, <2>4
<1>3. ASSUME NEW o \in Object, NEW y \in Freed, Owner(y) = o, Destructor(o) = <<Free(y)>>,
             \A x \in Handle : Owner(x) = o => x = y
      PROVE  Fine(o)
  <2>1. PICK d : d = Destructor(o)
      OBVIOUS
  <2>2. Free(y) \in Calls
      BY FreedFacts
  <2>3. d \in Seq(Calls) /\ IsInjective(d) /\ Range(d) = {Free(y)}
      BY <1>3, <2>1, <2>2, OneCall
  <2> QED BY <1>3, <2>1, <2>3
<1>4. ASSUME NEW o \in Object, NEW y \in Freed, Owner(y) = o,
             Destructor(o) = <<Free(y), Drop(o, Domain)>>,
             \A x \in Handle : Owner(x) = o => x = y
      PROVE  Fine(o) /\ Covers(y, o, Domain)
  <2>1. PICK d, a, b : d = Destructor(o) /\ a = Free(y) /\ b = Drop(o, Domain)
      OBVIOUS
  <2>2. a \in Calls /\ b \in Calls /\ a # b /\ Domain \in Object
      BY <2>1, FreedFacts, ObjectFacts, CallFacts
  <2>3. d \in Seq(Calls) /\ IsInjective(d) /\ Range(d) = {a, b} /\ Precedes({a}, b, d)
      BY <1>4, <2>1, <2>2, TwoCalls
  <2> QED BY <1>4, <2>1, <2>2, <2>3 DEF Covers
<1>5. \A c \in Conn : Fine(Queue(c))
  <2> SUFFICES ASSUME NEW c \in Conn PROVE Fine(Queue(c))
      OBVIOUS
  <2>1. ASSUME NEW x \in Handle, Owner(x) = Queue(c) PROVE x = <<"cq", c>>
      BY <2>1, OwnedFacts
  <2>2. Queue(c) \in Object /\ <<"cq", c>> \in Freed /\ Owner(<<"cq", c>>) = Queue(c)
      BY ObjectFacts, FreedFacts, OwnerFacts
  <2>3. Destructor(Queue(c)) = <<Free(<<"cq", c>>)>>
      BY OtherDtorFacts
  <2> HIDE DEF Fine
  <2> QED BY <1>3, <2>1, <2>2, <2>3
<1>6. /\ \A x \in Handle : /\ Owner(x) = Domain => x = <<"pd", None>>
                           /\ Owner(x) = Channel => x = <<"compch", None>>
                           /\ Owner(x) = Large => x = <<"largemr", None>>
                           /\ Owner(x) = Pool => x = <<"poolmr", None>>
                           /\ Owner(x) = Srq => x = <<"srq", None>>
    BY OwnedFacts
<1>7. /\ <<"pd", None>> \in Freed /\ Owner(<<"pd", None>>) = Domain
      /\ <<"compch", None>> \in Freed /\ Owner(<<"compch", None>>) = Channel
      /\ <<"largemr", None>> \in Freed /\ Owner(<<"largemr", None>>) = Large
      /\ <<"poolmr", None>> \in Freed /\ Owner(<<"poolmr", None>>) = Pool
      /\ <<"srq", None>> \in Freed /\ Owner(<<"srq", None>>) = Srq
      /\ {Domain, Channel, Large, Pool, Srq} \subseteq Object
    BY FreedFacts, OwnerFacts, ObjectFacts
<1> HIDE DEF Fine
<1>8. Fine(Domain) /\ Fine(Channel) /\ Fine(Large)
    BY <1>3, <1>6, <1>7, OtherDtorFacts
<1>9. /\ Fine(Pool) /\ Covers(<<"poolmr", None>>, Pool, Domain)
      /\ Fine(Srq) /\ Covers(<<"srq", None>>, Srq, Domain)
    BY <1>4, <1>6, <1>7, OtherDtorFacts
<1>10. \A c \in Conn : Fine(Client(c))
    BY <1>1 DEF Fine
<1>11. \A o \in Object : Fine(o)
    BY <1>2, <1>5, <1>8, <1>9, <1>10, ObjectFacts
<1> QED BY <1>1, <1>9, <1>11 DEF Fine

\* A call that is not there comes after anything.
LEMMA AbsentFacts ==
    ASSUME NEW S, NEW w \in Seq(S), NEW b, b \notin Range(w)
    PROVE  \A A : Precedes(A, b, w)
<1>1. \A i \in 1..Len(w) : w[i] # b
    BY RangeFacts
<1> QED BY <1>1 DEF Precedes

\* SetToSeq lists every element of a finite set once.
LEMMA SetToSeqFacts ==
    ASSUME NEW S, IsFiniteSet(S), NEW s, s = SetToSeq(S)
    PROVE  s \in Seq(S) /\ IsInjective(s) /\ Range(s) = S
<1>1. PICK n \in Nat : n = Cardinality(S)
    BY FS_CardinalityType
<1>2. \E f \in [1..n -> S] : IsInjective(f)
    BY <1>1, FS_CardinalityType DEF ExistsBijection, Bijection, Injection
<1>3. s \in [1..n -> S] /\ IsInjective(s)
    BY <1>1, <1>2 DEF SetToSeq
<1>4. IsFiniteSet(1..n) /\ Cardinality(1..n) = n
    BY FS_Interval
<1>5. s \in Surjection(1..n, S)
  <2>1. s \in Injection(1..n, S)
      BY <1>3 DEF Injection
  <2> QED BY <1>1, <1>4, <2>1, FS_Injection
<1>6. \A x \in S : \E i \in 1..n : s[i] = x
    BY <1>5 DEF Surjection
<1>7. s \in Seq(S) /\ Len(s) = n
    BY <1>3
<1>8. Range(s) = S
    BY <1>3, <1>6 DEF Range
<1> QED BY <1>3, <1>7, <1>8

\* The references that the controller drops are finitely many.
LEMMA ClearFinite == IsFiniteSet({Drop(Ctl, Client(c)) : c \in Conn})
<1> DEFINE T == {Drop(Ctl, Client(c)) : c \in Conn}
           f == [c \in Conn |-> Drop(Ctl, Client(c))]
<1>1. f \in [Conn -> T] /\ \A c \in Conn : f[c] = Drop(Ctl, Client(c))
    OBVIOUS
<1>2. \A c, e \in Conn : f[c] = f[e] => c = e
    BY <1>1, CallFacts, ObjectFacts
<1>3. \A t \in T : \E c \in Conn : f[c] = t
    BY <1>1
<1> HIDE DEF f, T
<1>4. f \in Bijection(Conn, T)
    BY <1>1, <1>2, <1>3 DEF Bijection, Injection, Surjection, IsInjective
<1>5. ExistsBijection(Conn, T)
    BY <1>4 DEF ExistsBijection
<1>6. IsFiniteSet(T)
    BY <1>5, LifecycleAssumption, FS_Bijection
<1> QED BY <1>6 DEF T

\* The destructor of the controller.
LEMMA ControllerDtorFacts ==
    ASSUME NEW d, d = RdmaControllerDtor
    PROVE  /\ d \in Seq(Calls) /\ IsInjective(d)
           /\ Range(d) = {Drop(Ctl, Client(c)) : c \in Conn}
                 \cup {Drop(Ctl, o) : o \in {Listener, Large, Pool, Domain, Channel}}
           /\ \A c \in Conn : Precedes({Drop(Ctl, Client(c))}, Drop(Ctl, Listener), d)
           /\ Precedes({Drop(Ctl, Large)}, Drop(Ctl, Domain), d)
<1> DEFINE T == {Drop(Ctl, Client(c)) : c \in Conn}
<1>1. PICK a : a = ClearClients
    OBVIOUS
<1>2. a \in Seq(T) /\ IsInjective(a) /\ Range(a) = T
    BY <1>1, ClearFinite, SetToSeqFacts DEF ClearClients
<1>3. T \subseteq Calls
  <2> SUFFICES ASSUME NEW c \in Conn PROVE Drop(Ctl, Client(c)) \in Calls
      OBVIOUS
  <2>1. Ctl \in Holder /\ Client(c) \in Object
      BY FreedFacts, ObjectFacts
  <2> QED BY <2>1, FreedFacts
<1>4. a \in Seq(Calls)
    BY <1>2, <1>3
<1>5. PICK d1, d2, d3, d4, d5 :
         /\ d1 = Drop(Ctl, Listener) /\ d2 = Drop(Ctl, Large) /\ d3 = Drop(Ctl, Pool)
         /\ d4 = Drop(Ctl, Domain) /\ d5 = Drop(Ctl, Channel)
    OBVIOUS
<1>6. PICK b : b = <<d1, d2, d3, d4, d5>>
    OBVIOUS
<1>7. d = a \o b
    BY <1>1, <1>5, <1>6 DEF RdmaControllerDtor
<1>8. {d1, d2, d3, d4, d5} \subseteq Calls
  <2>1. Ctl \in Holder /\ {Listener, Large, Pool, Domain, Channel} \subseteq Object
      BY FreedFacts, ObjectFacts
  <2> QED BY <1>5, <2>1, FreedFacts
<1>9. d1 \notin {d2, d3, d4, d5} /\ d2 \notin {d3, d4, d5} /\ d3 \notin {d4, d5} /\ d4 # d5
    BY <1>5, CallFacts, ObjectFacts
<1>10. /\ Len(b) = 5 /\ b \in Seq(Calls)
       /\ b[1] = d1 /\ b[2] = d2 /\ b[3] = d3 /\ b[4] = d4 /\ b[5] = d5
    BY <1>6, <1>8
<1>11. IsInjective(b) /\ Range(b) = {d1, d2, d3, d4, d5}
  <2>1. PICK s \in Seq(Calls) : s = b
      BY <1>10
  <2>2. Len(s) = 5 /\ s[1] = d1 /\ s[2] = d2 /\ s[3] = d3 /\ s[4] = d4 /\ s[5] = d5
      BY <1>10, <2>1
  <2>3. IsInjective(s) /\ Range(s) = {d1, d2, d3, d4, d5}
      BY <1>9, <2>2, RangeFacts
  <2> QED BY <2>1, <2>3
<1>12. Range(a) \cap Range(b) = {}
  <2>1. ASSUME NEW x \in T, x \in {d1, d2, d3, d4, d5} PROVE FALSE
    <3>1. PICK c \in Conn : x = Drop(Ctl, Client(c))
        OBVIOUS
    <3>2. \E o \in {Listener, Large, Pool, Domain, Channel} : x = Drop(Ctl, o)
        BY <1>5, <2>1
    <3> QED BY <3>1, <3>2, CallFacts, ObjectFacts
  <2> QED BY <1>2, <1>11, <2>1
<1>13. /\ a \o b \in Seq(Calls) /\ Range(a \o b) = Range(a) \cup Range(b)
       /\ IsInjective(a \o b)
    BY <1>2, <1>4, <1>10, <1>11, <1>12, PushFacts
<1>14. ASSUME NEW A, NEW x
       PROVE  /\ Precedes(A, x, a) /\ A \cap Range(a) # {} => Precedes(A, x, a \o b)
              /\ Precedes(A, x, b) /\ x \notin Range(a) => Precedes(A, x, a \o b)
    BY <1>4, <1>10, PushFacts
<1>15. d \in Seq(Calls) /\ IsInjective(d) /\ Range(d) = Range(a) \cup Range(b)
    BY <1>7, <1>13
<1>16. Range(d) = T \cup {d1, d2, d3, d4, d5}
    BY <1>2, <1>11, <1>15
<1>17. \A c \in Conn : Precedes({Drop(Ctl, Client(c))}, Drop(Ctl, Listener), d)
  <2> SUFFICES ASSUME NEW c \in Conn
               PROVE  Precedes({Drop(Ctl, Client(c))}, Drop(Ctl, Listener), d)
      OBVIOUS
  <2>1. d1 \notin Range(a)
      BY <1>11, <1>12
  <2>2. Precedes({Drop(Ctl, Client(c))}, d1, a)
      BY <1>2, <2>1, AbsentFacts
  <2>3. {Drop(Ctl, Client(c))} \cap Range(a) # {}
      BY <1>2
  <2>4. Precedes({Drop(Ctl, Client(c))}, d1, a \o b)
      BY <1>14, <2>2, <2>3
  <2> QED BY <1>5, <1>7, <2>4
<1>18. Precedes({d2}, d4, d)
  <2>1. Precedes({d2}, d4, b)
    <3>1. \A i \in 1..Len(b) : b[i] = d4 => i = 4
        BY <1>9, <1>10
    <3>2. 2 \in 1..(4 - 1)
        OBVIOUS
    <3> QED BY <1>10, <3>1, <3>2 DEF Precedes
  <2>2. d4 \notin Range(a)
      BY <1>11, <1>12
  <2>3. Precedes({d2}, d4, a \o b)
      BY <1>14, <2>1, <2>2
  <2> QED BY <1>7, <2>3
<1> QED BY <1>5, <1>15, <1>16, <1>17, <1>18

-----------------------------------------------------------------------------
(* What a step does to the calls and references *)

\* Someone holds an object.
LEMMA HolderFacts ==
    ASSUME TypeOK
    PROVE  \A o : HasHolder(o) <=> \E h \in Holder : <<h, o>> \in held
<1>1. held \subseteq Holder \X Object
    BY DEF TypeOK, Holder
<1>2. \A r \in held : r = <<r[1], r[2]>> /\ r[1] \in Holder
    BY <1>1
<1>3. \A h, o : <<h, o>>[2] = o
    OBVIOUS
<1> QED BY <1>2, <1>3 DEF HasHolder

\* The next call drops the reference <<h, o>>, ...
DropRef(h, o) ==
    /\ h \in Holder /\ o \in Object
    /\ Drop(h, o) \in Todo /\ held' = held \ {<<h, o>>}
    /\ UNCHANGED <<config, pc, exists, connVars, history>>

\* ... which is not the last one of o, ...
DropSome(h, o) ==
    /\ DropRef(h, o)
    /\ work' = Tail(work) /\ Todo' = Todo \ {Drop(h, o)}
    /\ \A p \in Object : HasHolder(p)' <=> HasHolder(p)

\* ... or is.
DropLast(h, o) ==
    /\ DropRef(h, o) /\ <<h, o>> \in held
    /\ work' = Destructor(o) \o Tail(work)
    /\ Todo' = Range(Destructor(o)) \cup (Todo \ {Drop(h, o)})
    /\ ~HasHolder(o)' /\ HasHolder(o)
    /\ \A p \in Object : p # o => (HasHolder(p)' <=> HasHolder(p))
    /\ \A b \in Range(Destructor(o)) : b \notin Todo

\* A step that drops a reference is one of these.
LEMMA DropFacts ==
    ASSUME TypeOK, WorkInv, DropStep
    PROVE  \E h, o : Head(work) = Drop(h, o) /\ (DropSome(h, o) \/ DropLast(h, o))
<1>1. work \in Seq(Calls) /\ work # <<>> /\ IsInjective(work) /\ Head(work).op = "drop"
    BY DEF WorkInv, DropStep
<1>2. /\ Head(work) \in Calls /\ Head(work) \in Range(work) /\ Tail(work) \in Seq(Calls)
      /\ Range(Tail(work)) = Range(work) \ {Head(work)}
    BY <1>1, TailFacts
<1>3. PICK h \in Holder, o \in Object : Head(work) = Drop(h, o)
  <2>1. \A x : Head(work) # Free(x)
      BY <1>1, CallFacts
  <2> QED BY <1>2, <2>1, FreedFacts
<1>4. Head(work).obj = o /\ Head(work).by = h
    BY <1>3, CallFacts
<1>5. /\ held' = held \ {<<h, o>>}
      /\ UNCHANGED <<config, pc, exists, connVars, history>>
      /\ work' = IF <<h, o>> \in held /\ ~\E r \in held' : r[2] = o
                 THEN Destructor(o) \o Tail(work) ELSE Tail(work)
    BY <1>4 DEF DropStep
<1>6. DropRef(h, o)
    BY <1>2, <1>3, <1>5 DEF DropRef, Todo
<1>7. held \subseteq Holder \X Object
    BY DEF TypeOK, Holder
<1>8. \A p : p # o => (HasHolder(p)' <=> HasHolder(p))
  <2>1. <<h, o>>[2] = o
      OBVIOUS
  <2> QED BY <1>5, <2>1 DEF HasHolder
<1>9. CASE <<h, o>> \in held /\ ~\E r \in held' : r[2] = o
  <2>1. ~HasHolder(o)' /\ HasHolder(o)
    <3>1. <<h, o>>[2] = o
        OBVIOUS
    <3> QED BY <1>9, <3>1 DEF HasHolder
  <2>2. work' = Destructor(o) \o Tail(work)
      BY <1>5, <1>9
  <2>3. Destructor(o) \in Seq(Calls)
      BY <1>3, DestructorFacts
  <2>4. Range(work') = Range(Destructor(o)) \cup Range(Tail(work))
    <3>1. PICK d \in Seq(Calls), t \in Seq(Calls) : d = Destructor(o) /\ t = Tail(work)
        BY <1>2, <2>3
    <3>2. Range(d \o t) = Range(d) \cup Range(t)
        BY PushFacts
    <3> QED BY <2>2, <3>1, <3>2
  <2>5. ASSUME NEW b \in Range(Destructor(o)), b \in Todo PROVE FALSE
    <3>1. \/ \E x \in Freed : b = Free(x) /\ Owner(x) = o
          \/ \E p \in Object : b = Drop(o, p)
        BY <2>5, DestructorFacts
    <3> QED BY <2>1, <2>5, <3>1 DEF WorkInv
  <2>6. Todo' = Range(Destructor(o)) \cup (Todo \ {Drop(h, o)})
      BY <1>2, <1>3, <2>4 DEF Todo
  <2>7. DropLast(h, o)
      BY <1>6, <1>8, <1>9, <2>1, <2>2, <2>5, <2>6 DEF DropLast
  <2> QED BY <1>3, <2>7
<1>10. CASE ~(<<h, o>> \in held /\ ~\E r \in held' : r[2] = o)
  <2>1. HasHolder(o)' <=> HasHolder(o)
    <3>1. CASE <<h, o>> \notin held
        BY <1>5, <3>1 DEF HasHolder
    <3>2. CASE \E r \in held' : r[2] = o
        BY <1>5, <3>2 DEF HasHolder
    <3> QED BY <1>10, <3>1, <3>2
  <2>2. work' = Tail(work)
      BY <1>5, <1>10
  <2>3. Todo' = Todo \ {Drop(h, o)}
      BY <1>2, <1>3, <2>2 DEF Todo
  <2>4. DropSome(h, o)
      BY <1>6, <1>8, <2>1, <2>2, <2>3 DEF DropSome
  <2> QED BY <1>3, <2>4
<1> QED BY <1>9, <1>10

\* The calls that are left keep their order, ...
LEMMA DropOrder ==
    ASSUME TypeOK, WorkInv, NEW h, NEW o, Head(work) = Drop(h, o),
           DropSome(h, o) \/ DropLast(h, o), NEW A, NEW b, Precedes(A, b, work)
    PROVE  /\ Drop(h, o) # b
           /\ Drop(h, o) \notin A /\ (DropLast(h, o) => b \notin Range(Destructor(o)))
                 => Precedes(A, b, work')
<1>1. /\ work \in Seq(Calls) /\ work # <<>> /\ IsInjective(work) /\ o \in Object
  <2>1. Drop(h, o) \in Range(work) /\ o \in Object /\ work \in Seq(Calls) /\ IsInjective(work)
      BY DEF DropSome, DropLast, DropRef, Todo, WorkInv
  <2>2. work # <<>>
      BY <2>1, EmptyFacts
  <2> QED BY <2>1, <2>2
<1>2. /\ Tail(work) \in Seq(Calls) /\ Head(work) # b
      /\ Head(work) \notin A => Precedes(A, b, Tail(work))
    BY <1>1, TailFacts
<1>3. CASE DropSome(h, o) /\ Drop(h, o) \notin A
    BY <1>2, <1>3 DEF DropSome
<1>4. CASE DropLast(h, o) /\ Drop(h, o) \notin A /\ b \notin Range(Destructor(o))
  <2>1. PICK d \in Seq(Calls), t \in Seq(Calls) : d = Destructor(o) /\ t = Tail(work)
      BY <1>1, <1>2, DestructorFacts
  <2>2. Precedes(A, b, d \o t)
      BY <1>2, <1>4, <2>1, PushFacts
  <2> QED BY <1>2, <1>4, <2>1, <2>2 DEF DropLast
<1> QED BY <1>2, <1>3, <1>4

\* ... and come after those of a destructor.
LEMMA DropFirst ==
    ASSUME TypeOK, WorkInv, NEW h, NEW o, Head(work) = Drop(h, o), DropLast(h, o),
           NEW A, NEW b, Precedes(A, b, Destructor(o)), A \cap Range(Destructor(o)) # {}
    PROVE  Precedes(A, b, work')
<1>1. work \in Seq(Calls) /\ work # <<>> /\ IsInjective(work) /\ o \in Object
  <2>1. Drop(h, o) \in Range(work) /\ o \in Object /\ work \in Seq(Calls) /\ IsInjective(work)
      BY DEF DropLast, DropRef, Todo, WorkInv
  <2>2. work # <<>>
      BY <2>1, EmptyFacts
  <2> QED BY <2>1, <2>2
<1>2. Tail(work) \in Seq(Calls)
    BY <1>1, TailFacts
<1>3. PICK d \in Seq(Calls), t \in Seq(Calls) : d = Destructor(o) /\ t = Tail(work)
    BY <1>1, <1>2, DestructorFacts
<1>4. Precedes(A, b, d \o t)
    BY <1>3, PushFacts
<1> QED BY <1>3, <1>4 DEF DropLast

\* The next call frees handle x.
FreeHandle(x) ==
    /\ x \in Freed /\ Free(x) \in Todo /\ Todo' = Todo \ {Free(x)}
    /\ x \notin unacked
    /\ \A y : y \in exists' <=> y \in exists /\ (y # x \/ Refuses(x))
    /\ \A y : y \in refused' <=> y \in refused \/ (y = x /\ x \in exists /\ Refuses(x))
    /\ \A y : y \in uaf' <=> y \in uaf \/ (y = x /\ x \in exists /\ UsesFreed(x))
    /\ UNCHANGED <<config, pc, held, connVars, orderly, lost>>

\* A step that frees a handle is such a step.
LEMMA FreeFacts ==
    ASSUME TypeOK, WorkInv, FreeStep
    PROVE  \E x : Head(work) = Free(x) /\ FreeHandle(x)
<1>1. work \in Seq(Calls) /\ work # <<>> /\ IsInjective(work) /\ Head(work).op = "free"
    BY DEF WorkInv, FreeStep
<1>2. /\ Head(work) \in Calls /\ Head(work) \in Range(work)
      /\ Range(Tail(work)) = Range(work) \ {Head(work)}
    BY <1>1, TailFacts
<1>3. PICK x \in Freed : Head(work) = Free(x)
  <2>1. \A h, o : Head(work) # Drop(h, o)
      BY <1>1, CallFacts
  <2> QED BY <1>2, <2>1, FreedFacts
<1>4. Head(work).obj = x
    BY <1>3, CallFacts
<1>5. /\ x \notin unacked /\ work' = Tail(work)
      /\ exists' = IF ~Refuses(x) THEN exists \ {x} ELSE exists
      /\ refused' = IF x \in exists /\ Refuses(x) THEN refused \cup {x} ELSE refused
      /\ uaf' = IF x \in exists /\ UsesFreed(x) THEN uaf \cup {x} ELSE uaf
      /\ UNCHANGED <<config, pc, held, connVars, orderly, lost>>
    BY <1>4 DEF FreeStep, Destroys
<1>6. Todo' = Todo \ {Free(x)}
    BY <1>2, <1>3, <1>5 DEF Todo
<1>7. Free(x) \in Todo
    BY <1>2, <1>3 DEF Todo
<1>8. FreeHandle(x)
    BY <1>3, <1>5, <1>6, <1>7 DEF FreeHandle
<1> QED BY <1>3, <1>8

\* The calls that are left keep their order.
LEMMA FreeOrder ==
    ASSUME TypeOK, WorkInv, FreeStep, NEW x, Head(work) = Free(x),
           NEW A, NEW b, Precedes(A, b, work)
    PROVE  Free(x) # b /\ (Free(x) \notin A => Precedes(A, b, work'))
<1>1. work \in Seq(Calls) /\ work # <<>> /\ IsInjective(work) /\ work' = Tail(work)
    BY DEF WorkInv, FreeStep
<1> QED BY <1>1, TailFacts

-----------------------------------------------------------------------------
(* A step that drops a reference *)

\* What it can change.
LEMMA DropCommon ==
    ASSUME TypeOK, WorkInv, NEW h, NEW o, Head(work) = Drop(h, o),
           DropSome(h, o) \/ DropLast(h, o)
    PROVE  /\ h \in Holder /\ o \in Object /\ Drop(h, o) \in Todo /\ held' = held \ {<<h, o>>}
           /\ UNCHANGED <<config, pc, exists, active, made, unacked, failed, orderly, refused, lost, uaf>>
           /\ \A p \in Object : /\ HasHolder(p)' => HasHolder(p)
                                /\ HasHolder(p) => HasHolder(p)' \/ (p = o /\ DropLast(h, o))
           /\ \A b \in Todo : b = Drop(h, o) \/ b \in Todo'
           /\ \A b \in Todo' : b \in Todo \/ (DropLast(h, o) /\ b \in Range(Destructor(o)))
           /\ \A x : Free(x) \in Range(Destructor(o)) => x \in Freed /\ Owner(x) = o
           /\ \A g, p : Drop(g, p) \in Range(Destructor(o)) => g = o
<1>1. /\ h \in Holder /\ o \in Object /\ Drop(h, o) \in Todo /\ held' = held \ {<<h, o>>}
      /\ UNCHANGED <<config, pc, exists, active, made, unacked, failed, orderly, refused, lost, uaf>>
    BY DEF DropSome, DropLast, DropRef, connVars, history
<1>2. \A p \in Object : /\ HasHolder(p)' => HasHolder(p)
                        /\ HasHolder(p) => HasHolder(p)' \/ (p = o /\ DropLast(h, o))
  <2>1. CASE DropSome(h, o)
      BY <2>1 DEF DropSome
  <2>2. CASE DropLast(h, o)
      BY <2>2 DEF DropLast
  <2> QED BY <2>1, <2>2
<1>3. /\ \A b \in Todo : b = Drop(h, o) \/ b \in Todo'
      /\ \A b \in Todo' : b \in Todo \/ (DropLast(h, o) /\ b \in Range(Destructor(o)))
  <2>1. CASE DropSome(h, o)
      BY <2>1 DEF DropSome
  <2>2. CASE DropLast(h, o)
    <3>1. Todo' = Range(Destructor(o)) \cup (Todo \ {Drop(h, o)})
        BY <2>2 DEF DropLast
    <3> QED BY <2>2, <3>1
  <2> QED BY <2>1, <2>2
<1>4. \A b \in Range(Destructor(o)) : \/ \E x \in Freed : b = Free(x) /\ Owner(x) = o
                                      \/ \E p \in Object : b = Drop(o, p)
    BY <1>1, DestructorFacts
<1>5. \A x : Free(x) \in Range(Destructor(o)) => x \in Freed /\ Owner(x) = o
    BY <1>4, CallFacts
<1>6. \A g, p : Drop(g, p) \in Range(Destructor(o)) => g = o
    BY <1>4, CallFacts
<1> QED BY <1>1, <1>2, <1>3, <1>5, <1>6

\* The types, the stages, the calls and the references.
LEMMA DropBasic ==
    ASSUME IInv, NEW h, NEW o, Head(work) = Drop(h, o), DropSome(h, o) \/ DropLast(h, o)
    PROVE  TypeOK' /\ StageInv' /\ WorkInv' /\ HoldInv'
<1>0. TypeOK /\ StageInv /\ WorkInv /\ HoldInv
    BY DEF IInv
<1>1. /\ h \in Holder /\ o \in Object /\ Drop(h, o) \in Todo /\ held' = held \ {<<h, o>>}
      /\ UNCHANGED <<config, pc, exists, active, made, unacked, failed, orderly, refused, lost, uaf>>
    BY <1>0, DropCommon
<1>2. /\ \A p \in Object : HasHolder(p)' => HasHolder(p)
      /\ \A b \in Todo : b = Drop(h, o) \/ b \in Todo'
      /\ \A b \in Todo' : b \in Todo \/ (DropLast(h, o) /\ b \in Range(Destructor(o)))
      /\ \A x : Free(x) \in Range(Destructor(o)) => x \in Freed /\ Owner(x) = o
      /\ \A g, p : Drop(g, p) \in Range(Destructor(o)) => g = o
    BY <1>0, DropCommon
<1>3. TypeOK'
    BY <1>0, <1>1 DEF TypeOK
<1>4. work # <<>> /\ pc \notin Starting \cup {"failed", "aborted"}
  <2>1. work # <<>>
      BY <1>1, EmptyFacts DEF Todo
  <2> QED BY <1>0, <2>1 DEF StageInv
<1>5. StageInv'
  <2>1. pc = "running" => <<h, o>> \notin {<<Ctl, Listener>>, <<Ctl, Domain>>, <<Ctl, Pool>>}
    <3> SUFFICES ASSUME pc = "running", h = Ctl, o \in {Listener, Domain, Pool} PROVE FALSE
        OBVIOUS
    <3>1. \E c \in Conn : o = Client(c)
        BY <1>0, <1>1 DEF HoldInv
    <3> QED BY <3>1, ObjectFacts
  <2> QED BY <1>0, <1>1, <1>4, <2>1 DEF StageInv, Starting
<1>6. WorkInv'
  <2>1. work' \in Seq(Calls) /\ IsInjective(work')
    <3>1. PICK d \in Seq(Calls) : d = Destructor(o) /\ IsInjective(d)
        BY <1>1, DestructorFacts
    <3>2. work \in Seq(Calls) /\ IsInjective(work)
        BY <1>0 DEF WorkInv
    <3>3. PICK t \in Seq(Calls) : t = Tail(work) /\ IsInjective(t) /\ Range(t) \subseteq Todo
        BY <1>4, <3>2, TailFacts DEF Todo
    <3>4. CASE DropSome(h, o)
        BY <3>3, <3>4 DEF DropSome
    <3>5. CASE DropLast(h, o)
      <4>1. Range(d) \cap Range(t) = {}
          BY <3>1, <3>3, <3>5 DEF DropLast
      <4>2. d \o t \in Seq(Calls) /\ IsInjective(d \o t)
          BY <3>1, <3>3, <4>1, PushFacts
      <4> QED BY <3>1, <3>3, <3>5, <4>2 DEF DropLast
    <3> QED BY <3>4, <3>5
  <2>2. ASSUME DropLast(h, o) PROVE ~HasHolder(o)'
      BY <2>2 DEF DropLast
  <2>3. ASSUME NEW g \in Object, NEW p \in Object, Drop(g, p) \in Todo' PROVE ~HasHolder(g)'
    <3>1. CASE Drop(g, p) \in Todo
        BY <1>0, <1>2, <3>1 DEF WorkInv
    <3>2. CASE DropLast(h, o) /\ Drop(g, p) \in Range(Destructor(o))
        BY <1>2, <2>2, <3>2
    <3> QED BY <1>2, <2>3, <3>1, <3>2
  <2>4. ASSUME NEW x \in Freed, Free(x) \in Todo' PROVE ~HasHolder(Owner(x))'
    <3>0. PICK p \in Object : p = Owner(x)
        BY FreedFacts
    <3>1. CASE Free(x) \in Todo
      <4>1. ~HasHolder(p)
          BY <1>0, <3>0, <3>1 DEF WorkInv
      <4>2. ~HasHolder(p)'
          BY <1>2, <4>1
      <4> QED BY <3>0, <4>2
    <3>2. CASE DropLast(h, o) /\ Free(x) \in Range(Destructor(o))
      <4>1. p = o
          BY <1>2, <3>0, <3>2
      <4>2. ~HasHolder(p)'
          BY <2>2, <3>2, <4>1
      <4> QED BY <3>0, <4>2
    <3> QED BY <1>2, <2>4, <3>1, <3>2
  <2> QED BY <2>1, <2>3, <2>4 DEF WorkInv
<1>7. HoldInv'
  <2>1. \A r : r \in held' => r \in held /\ r # <<h, o>>
      BY <1>1
  <2>2. \A g \in {Ctl, App, Call}, p \in Object : Drop(g, p) \in Todo' => Drop(g, p) \in Todo
      BY <1>1, <1>2, ObjectFacts
  <2>3. ASSUME NEW p \in Object, <<Call, p>> \in held' PROVE Drop(Call, p) \in Todo' /\ pc' = "running"
    <3>1. Drop(Call, p) \in Todo /\ pc = "running" /\ <<Call, p>> # <<h, o>>
        BY <1>0, <2>1, <2>3 DEF HoldInv
    <3>2. Drop(Call, p) # Drop(h, o)
        BY <3>1, CallFacts
    <3> QED BY <1>1, <1>2, <3>1, <3>2
  <2>4. ASSUME NEW p \in Object
        PROVE  /\ Drop(Ctl, p) \in Todo' => pc' = "destroying" \/ \E c \in Conn : p = Client(c)
               /\ Drop(App, p) \in Todo' => /\ pc' # "destroying"
                                            /\ \A q \in Object : <<Call, q>> \notin held'
      BY <1>0, <1>1, <2>1, <2>2 DEF HoldInv
  <2> QED BY <1>0, <1>1, <2>1, <2>3, <2>4 DEF HoldInv
<1> QED BY <1>3, <1>5, <1>6, <1>7

\* What is left and what owns it.
LEMMA DropLeft ==
    ASSUME IInv, NEW h, NEW o, Head(work) = Drop(h, o), DropSome(h, o) \/ DropLast(h, o)
    PROVE  OnceInv' /\ LeftInv'
<1>0. TypeOK /\ WorkInv /\ OnceInv /\ LeftInv
    BY DEF IInv
<1>1. /\ h \in Holder /\ o \in Object /\ held' = held \ {<<h, o>>}
      /\ UNCHANGED <<pc, exists, made, refused, lost>>
      /\ \A p \in Object : /\ HasHolder(p)' => HasHolder(p)
                           /\ HasHolder(p) => HasHolder(p)' \/ (p = o /\ DropLast(h, o))
      /\ \A b \in Todo : b = Drop(h, o) \/ b \in Todo'
      /\ \A b \in Todo' : b \in Todo \/ (DropLast(h, o) /\ b \in Range(Destructor(o)))
      /\ \A x : Free(x) \in Range(Destructor(o)) => x \in Freed /\ Owner(x) = o
    BY <1>0, DropCommon
<1>2. \A p : HasHolder(p)' => HasHolder(p)
    BY <1>1 DEF HasHolder
<1>3. \A p : HasHolder(p) => p \in Object
    BY <1>0 DEF HasHolder, TypeOK
<1>4. ASSUME NEW x \in refused \cup lost PROVE Free(x) \notin Todo' /\ ~HasHolder(Owner(x))'
  <2>1. PICK p : p = Owner(x)
      OBVIOUS
  <2>2. Free(x) \notin Todo /\ ~HasHolder(p)
      BY <1>0, <2>1 DEF OnceInv
  <2>3. ~HasHolder(p)'
      BY <1>2, <2>2
  <2>4. Free(x) \notin Todo'
    <3> SUFFICES ASSUME DropLast(h, o), Free(x) \in Range(Destructor(o)) PROVE FALSE
        BY <1>1, <2>2
    <3>1. p = o /\ HasHolder(o)
        BY <1>1, <2>1 DEF DropLast
    <3> QED BY <2>2, <3>1
  <2> QED BY <2>1, <2>3, <2>4
<1>5. OnceInv'
    BY <1>0, <1>1, <1>4 DEF OnceInv
<1>6. ASSUME NEW x \in exists
      PROVE  /\ x[2] = None \/ x[2] \in made' \/ x \in lost'
             /\ \/ x \in refused' \cup lost' \cup {<<"tempmr", None>>}
                \/ HasHolder(Owner(x))'
                \/ Free(x) \in Todo'
                \/ x \in DeviceLists /\ pc' \in Starting \cup {"aborted"}
  <2>1. PICK p : p = Owner(x)
      OBVIOUS
  <2>2. x \in Handle
      BY <1>0 DEF TypeOK
  <2>3. CASE HasHolder(p) /\ ~HasHolder(p)'
    <3>1. p = o /\ DropLast(h, o)
        BY <1>1, <1>3, <2>3
    <3>2. Free(x) \in Range(Destructor(o))
        BY <1>1, <2>1, <2>2, <3>1, DestructorFacts
    <3>3. Free(x) \in Todo'
        BY <3>1, <3>2 DEF DropLast
    <3> QED BY <1>0, <1>1, <3>3 DEF LeftInv
  <2>4. CASE HasHolder(p)'
    <3>1. HasHolder(Owner(x))'
        BY <2>1, <2>4
    <3> QED BY <1>0, <1>1, <3>1 DEF LeftInv
  <2>5. CASE Free(x) \in Todo
    <3>1. Free(x) \in Todo'
        BY <1>1, <2>5, CallFacts
    <3> QED BY <1>0, <1>1, <3>1 DEF LeftInv
  <2>6. CASE ~HasHolder(p) /\ Free(x) \notin Todo
      BY <1>0, <1>1, <2>1, <2>6 DEF LeftInv
  <2> QED BY <2>3, <2>4, <2>5, <2>6
<1>7. LeftInv'
    BY <1>1, <1>6 DEF LeftInv
<1> QED BY <1>5, <1>7

\* A guarded reference is not dropped before its handle is freed.
LEMMA DropKeepsGuard ==
    ASSUME TypeOK, WorkInv, NEW h, NEW o, Head(work) = Drop(h, o),
           DropSome(h, o) \/ DropLast(h, o),
           NEW x, NEW g, NEW p, Covers(x, g, p), Guard(x, g, p)
    PROVE  Guard(x, g, p)'
<1>1. held' = held \ {<<h, o>>} /\ exists' = exists
      /\ \A q, r : Drop(q, r) \in Range(Destructor(o)) => q = o
    BY DropCommon
<1> SUFFICES ASSUME x \in exists PROVE <<g, p>> \in held' /\ Precedes({Free(x)}, Drop(g, p), work')
    BY <1>1 DEF Guard
<1>2. <<g, p>> \in held /\ Precedes({Free(x)}, Drop(g, p), work)
    BY DEF Guard
<1>3. Drop(h, o) # Drop(g, p)
    BY <1>2, DropOrder
<1>4. <<g, p>> \in held'
    BY <1>1, <1>2, <1>3
<1>5. Drop(h, o) \notin {Free(x)}
    BY CallFacts
<1>6. CASE DropLast(h, o) /\ Drop(g, p) \in Range(Destructor(o))
  <2>1. g = o
      BY <1>1, <1>6
  <2>2. /\ Precedes({Free(x)}, Drop(g, p), Destructor(o))
        /\ {Free(x)} \cap Range(Destructor(o)) # {}
      BY <2>1 DEF Covers
  <2> QED BY <1>4, <1>6, <2>2, DropFirst
<1>7. CASE DropLast(h, o) => Drop(g, p) \notin Range(Destructor(o))
    BY <1>2, <1>4, <1>5, <1>7, DropOrder
<1> QED BY <1>6, <1>7

\* What keeps the pool and the domain alive.
LEMMA DropGuard ==
    ASSUME IInv, NEW h, NEW o, Head(work) = Drop(h, o), DropSome(h, o) \/ DropLast(h, o)
    PROVE  GuardInv'
<1>0. TypeOK /\ WorkInv /\ HoldInv /\ GuardInv
    BY DEF IInv
<1>1. /\ h \in Holder /\ o \in Object /\ held' = held \ {<<h, o>>}
      /\ UNCHANGED <<exists, refused>>
      /\ \A p \in Object : HasHolder(p)' => HasHolder(p)
      /\ \A g, p : Drop(g, p) \in Range(Destructor(o)) => g = o
    BY <1>0, DropCommon
<1>2. /\ \A c \in Conn : Guard(<<"qp", c>>, Client(c), Pool)' /\ Guard(<<"mr", c>>, Client(c), Pool)'
      /\ Guard(<<"poolmr", None>>, Pool, Domain)' /\ Guard(<<"srq", None>>, Srq, Domain)'
    BY <1>0, DropKeepsGuard, DestructorFacts DEF GuardInv
<1>3. ASSUME <<"largemr", None>> \in exists
      PROVE  /\ <<Ctl, Domain>> \in held'
             /\ \/ <<Ctl, Large>> \in held' /\ Precedes({Drop(Ctl, Large)}, Drop(Ctl, Domain), work')
                \/ Precedes({Free(<<"largemr", None>>)}, Drop(Ctl, Domain), work')
  <2>1. Drop(Ctl, Domain) \notin Range(Destructor(o))
      BY <1>1, ObjectFacts
  <2>2. CASE <<Ctl, Large>> \in held /\ Precedes({Drop(Ctl, Large)}, Drop(Ctl, Domain), work)
    <3>1. Drop(h, o) # Drop(Ctl, Domain)
        BY <1>0, <2>2, DropOrder
    <3>2. <<Ctl, Domain>> \in held'
        BY <1>0, <1>1, <1>3, <3>1 DEF GuardInv
    <3>3. CASE Drop(h, o) # Drop(Ctl, Large)
      <4>1. Drop(h, o) \notin {Drop(Ctl, Large)}
          BY <3>3
      <4>2. Precedes({Drop(Ctl, Large)}, Drop(Ctl, Domain), work')
          BY <1>0, <2>1, <2>2, <4>1, DropOrder
      <4>3. <<Ctl, Large>> \in held'
          BY <1>1, <2>2, <3>3
      <4> QED BY <3>2, <4>2, <4>3
    <3>4. CASE h = Ctl /\ o = Large
      <4>1. DropLast(h, o)
        <5>1. ~HasHolder(Large)'
          <6>1. TypeOK'
              BY DropBasic
          <6>2. \A g \in Holder : <<g, Large>> \notin held'
              BY <1>0, <1>1, <3>4 DEF HoldInv
          <6>3. \A r \in held' : r = <<r[1], r[2]>> /\ r[1] \in Holder
              BY <6>1 DEF TypeOK, Holder
          <6> QED BY <6>2, <6>3 DEF HasHolder
        <5>2. HasHolder(Large)
          <6>1. <<Ctl, Large>>[2] = Large
              OBVIOUS
          <6> QED BY <2>2, <6>1 DEF HasHolder
        <5> QED BY <1>1, <3>4, <5>1, <5>2 DEF DropSome
      <4>2. Free(<<"largemr", None>>) \in Range(Destructor(o))
          BY <3>4, DestructorFacts, OwnerFacts, ObjectFacts
      <4>3. Precedes({Free(<<"largemr", None>>)}, Drop(Ctl, Domain), Destructor(o))
          BY <1>1, <2>1, AbsentFacts, DestructorFacts
      <4>4. {Free(<<"largemr", None>>)} \cap Range(Destructor(o)) # {}
          BY <4>2
      <4>5. Precedes({Free(<<"largemr", None>>)}, Drop(Ctl, Domain), work')
          BY <1>0, <4>1, <4>3, <4>4, DropFirst
      <4> QED BY <3>2, <4>5
    <3> QED BY <3>3, <3>4, CallFacts
  <2>3. CASE Precedes({Free(<<"largemr", None>>)}, Drop(Ctl, Domain), work)
    <3>1. Drop(h, o) # Drop(Ctl, Domain)
        BY <1>0, <2>3, DropOrder
    <3>2. <<Ctl, Domain>> \in held'
        BY <1>0, <1>1, <1>3, <3>1 DEF GuardInv
    <3>3. Drop(h, o) \notin {Free(<<"largemr", None>>)}
        BY CallFacts
    <3>4. Precedes({Free(<<"largemr", None>>)}, Drop(Ctl, Domain), work')
        BY <1>0, <2>1, <2>3, <3>3, DropOrder
    <3> QED BY <3>2, <3>4
  <2> QED BY <1>0, <1>3, <2>2, <2>3 DEF GuardInv
<1>4. /\ HasHolder(Pool)' => <<"poolmr", None>> \in exists'
      /\ HasHolder(Domain)' => <<"pd", None>> \in exists'
    BY <1>0, <1>1, ObjectFacts DEF GuardInv
<1>5. /\ \A c \in Conn : <<"qp", c>> \in exists' => {<<"pd", None>>, <<"cq", c>>} \subseteq exists'
      /\ <<"pd", None>> \in refused' => <<"tempmr", None>> \in exists'
    BY <1>0, <1>1 DEF GuardInv
<1> QED BY <1>1, <1>2, <1>3, <1>4, <1>5 DEF GuardInv

\* A reference is the last one when nobody else holds the object.
LEMMA LastFacts ==
    ASSUME TypeOK, WorkInv, NEW h, NEW o, Head(work) = Drop(h, o), <<h, o>> \in held,
           DropSome(h, o) \/ DropLast(h, o), ~DropLast(h, o)
    PROVE  \E g \in Holder : g # h /\ <<g, o>> \in held
<1>1. o \in Object /\ held' = held \ {<<h, o>>}
    BY DropCommon
<1>2. HasHolder(o)
  <2>1. <<h, o>>[2] = o
      OBVIOUS
  <2> QED BY <2>1 DEF HasHolder
<1>3. HasHolder(o)'
    BY <1>1, <1>2 DEF DropSome
<1>4. PICK r \in held : r # <<h, o>> /\ r[2] = o
    BY <1>1, <1>3 DEF HasHolder
<1>5. r = <<r[1], r[2]>> /\ r[1] \in Holder
    BY DEF TypeOK, Holder
<1>6. r[1] # h
    BY <1>4, <1>5
<1> QED BY <1>4, <1>5, <1>6

\* What keeps the event channel of an id alive.
LEMMA DropChannel ==
    ASSUME IInv, NEW h, NEW o, Head(work) = Drop(h, o), DropSome(h, o) \/ DropLast(h, o)
    PROVE  ChannelInv'
<1>0. TypeOK /\ WorkInv /\ HoldInv /\ ChannelInv
    BY DEF IInv
<1>1. /\ h \in Holder /\ o \in Object /\ Drop(h, o) \in Todo /\ held' = held \ {<<h, o>>}
      /\ UNCHANGED <<pc, exists, active, made, uaf>>
      /\ \A p \in Object : HasHolder(p)' => HasHolder(p)
      /\ \A x : Free(x) \in Range(Destructor(o)) => x \in Freed /\ Owner(x) = o
      /\ \A g, p : Drop(g, p) \in Range(Destructor(o)) => g = o
    BY <1>0, DropCommon
<1>2. ASSUME NEW c \in made, <<"id", c>> \in exists PROVE ChannelAt(c)'
  <2>0. c \in Conn /\ ChannelAt(c)
      BY <1>0, <1>2 DEF TypeOK, ChannelInv
  <2>1. \A x : Drop(h, o) \notin {Free(x)}
      BY CallFacts
  <2>2. CASE c \in active
    <3>1. <<"evch", c>> \in exists /\ Precedes({Free(<<"id", c>>)}, Free(<<"evch", c>>), work)
        BY <2>0, <2>2 DEF ChannelAt
    <3>2. Precedes({Free(<<"id", c>>)}, Free(<<"evch", c>>), work')
      <4>1. CASE DropLast(h, o) /\ Free(<<"evch", c>>) \in Range(Destructor(o))
        <5>1. o = Client(c)
            BY <1>1, <2>0, <4>1, OwnerFacts
        <5>2. PICK d : d = Destructor(Client(c))
            OBVIOUS
        <5>3. Free(<<"id", c>>) \in Range(d) /\ Precedes({Free(<<"id", c>>)}, Free(<<"evch", c>>), d)
            BY <2>0, <5>2, ClientDtorFacts
        <5>4. {Free(<<"id", c>>)} \cap Range(Destructor(o)) # {}
            BY <5>1, <5>2, <5>3
        <5> QED BY <1>0, <4>1, <5>1, <5>2, <5>3, <5>4, DropFirst
      <4>2. CASE DropLast(h, o) => Free(<<"evch", c>>) \notin Range(Destructor(o))
          BY <1>0, <2>1, <3>1, <4>2, DropOrder
      <4> QED BY <4>1, <4>2
    <3> QED BY <1>1, <2>2, <3>1, <3>2 DEF ChannelAt
  <2>3. CASE c \notin active /\ pc = "destroying"
    <3>1. \A p \in Object : <<h, o>> # <<App, p>>
        BY <1>0, <1>1, <2>3 DEF HoldInv
    <3>2. CASE <<App, Client(c)>> \in held
      <4>1. <<App, Client(c)>> \in held'
          BY <1>1, <2>0, <3>1, <3>2, ObjectFacts
      <4> QED BY <1>1, <2>3, <4>1 DEF ChannelAt
    <3>3. Drop(Ctl, Listener) \notin Range(Destructor(o))
        BY <1>1, ObjectFacts
    <3>4. CASE /\ <<Ctl, Listener>> \in held /\ <<Ctl, Client(c)>> \in held
               /\ Precedes({Drop(Ctl, Client(c))}, Drop(Ctl, Listener), work)
      <4>1. Drop(h, o) # Drop(Ctl, Listener)
          BY <1>0, <3>4, DropOrder
      <4>2. <<Ctl, Listener>> \in held'
          BY <1>1, <3>4, <4>1
      <4>3. CASE Drop(h, o) # Drop(Ctl, Client(c))
        <5>1. <<Ctl, Client(c)>> \in held'
            BY <1>1, <3>4, <4>3
        <5>2. Drop(h, o) \notin {Drop(Ctl, Client(c))}
            BY <4>3
        <5>3. Precedes({Drop(Ctl, Client(c))}, Drop(Ctl, Listener), work')
            BY <1>0, <3>3, <3>4, <5>2, DropOrder
        <5> QED BY <1>1, <2>3, <4>2, <5>1, <5>3 DEF ChannelAt
      <4>4. CASE h = Ctl /\ o = Client(c) /\ ~DropLast(h, o)
        <5>1. PICK g \in Holder : g # h /\ <<g, o>> \in held
            BY <1>0, <3>4, <4>4, LastFacts
        <5>2. g \in {Ctl, App, Call}
            BY <1>0, <2>0, <4>4, <5>1 DEF HoldInv
        <5>3. g # Call
            BY <1>0, <1>1, <2>3, <5>1 DEF HoldInv
        <5> QED BY <3>2, <4>4, <5>1, <5>2, <5>3
      <4>5. CASE h = Ctl /\ o = Client(c) /\ DropLast(h, o)
        <5>1. PICK d : d = Destructor(Client(c))
            OBVIOUS
        <5>2. Free(<<"id", c>>) \in Range(d)
            BY <2>0, <5>1, ClientDtorFacts
        <5>3. {Free(<<"id", c>>)} \cap Range(Destructor(o)) # {}
            BY <4>5, <5>1, <5>2
        <5>4. Precedes({Free(<<"id", c>>)}, Drop(Ctl, Listener), Destructor(o))
            BY <1>1, <3>3, AbsentFacts, DestructorFacts
        <5>5. Precedes({Free(<<"id", c>>)}, Drop(Ctl, Listener), work')
            BY <1>0, <4>5, <5>3, <5>4, DropFirst
        <5> QED BY <1>1, <2>3, <4>2, <5>5 DEF ChannelAt
      <4> QED BY <4>3, <4>4, <4>5, CallFacts
    <3>5. CASE <<Ctl, Listener>> \in held /\ Precedes({Free(<<"id", c>>)}, Drop(Ctl, Listener), work)
      <4>1. Drop(h, o) # Drop(Ctl, Listener)
          BY <1>0, <3>5, DropOrder
      <4>2. <<Ctl, Listener>> \in held'
          BY <1>1, <3>5, <4>1
      <4>3. Precedes({Free(<<"id", c>>)}, Drop(Ctl, Listener), work')
          BY <1>0, <2>1, <3>3, <3>5, DropOrder
      <4> QED BY <1>1, <2>3, <4>2, <4>3 DEF ChannelAt
    <3> QED BY <2>0, <2>3, <3>2, <3>4, <3>5 DEF ChannelAt
  <2>4. CASE c \notin active /\ pc # "destroying"
      BY <1>1, <2>4 DEF ChannelAt
  <2> QED BY <2>2, <2>3, <2>4
<1>3. HasHolder(Listener)' => <<"evch", None>> \in exists'
    BY <1>0, <1>1, ObjectFacts DEF ChannelInv
<1>4. \A c \in Conn : <<"id", c>> \in uaf' => pc' = "gone" /\ c \notin active'
    BY <1>0, <1>1 DEF ChannelInv
<1> QED BY <1>1, <1>2, <1>3, <1>4 DEF ChannelInv

\* How a connection is closed.
LEMMA DropQueue ==
    ASSUME IInv, NEW h, NEW o, Head(work) = Drop(h, o), DropSome(h, o) \/ DropLast(h, o)
    PROVE  QueueInv'
<1>0. TypeOK /\ WorkInv /\ HoldInv /\ QueueInv
    BY DEF IInv
<1>1. /\ h \in Holder /\ o \in Object /\ Drop(h, o) \in Todo /\ held' = held \ {<<h, o>>}
      /\ UNCHANGED <<exists, made, orderly, refused>>
      /\ \A b \in Todo : b = Drop(h, o) \/ b \in Todo'
      /\ \A g, p : Drop(g, p) \in Range(Destructor(o)) => g = o
    BY <1>0, DropCommon
<1>2. /\ \A p \in Object : /\ HasHolder(p)' => HasHolder(p)
                           /\ HasHolder(p) => HasHolder(p)' \/ (p = o /\ DropLast(h, o))
      /\ \A x : Free(x) \in Range(Destructor(o)) => x \in Freed /\ Owner(x) = o
    BY <1>0, DropCommon
<1>3. \A x : Drop(h, o) \notin {Free(x)}
    BY CallFacts
<1>4. ASSUME NEW c \in Conn, OrderlyAt(c) PROVE OrderlyAt(c)'
  <2>1. <<"cq", c>> \notin refused' /\ <<App, Client(c)>> \notin held'
      BY <1>1, <1>4 DEF OrderlyAt
  <2>2. <<Ctl, Client(c)>> \in held' => Drop(Ctl, Client(c)) \in Todo'
      BY <1>1, <1>4, CallFacts DEF OrderlyAt
  <2>3. ASSUME <<"qp", c>> \in exists
        PROVE  /\ <<Call, Queue(c)>> \in held'
               /\ \/ /\ <<Call, Client(c)>> \in held'
                     /\ Precedes({Drop(Call, Client(c))}, Drop(Call, Queue(c)), work')
                     /\ <<Ctl, Client(c)>> \in held' =>
                           Precedes({Drop(Ctl, Client(c))}, Drop(Call, Client(c)), work')
                  \/ Precedes({Free(<<"qp", c>>)}, Drop(Call, Queue(c)), work')
    <3>1. <<Call, Queue(c)>> \in held
        BY <1>4, <2>3 DEF OrderlyAt
    <3>2. Drop(Call, Queue(c)) \notin Range(Destructor(o)) /\ Drop(Call, Client(c)) \notin Range(Destructor(o))
        BY <1>1, ObjectFacts
    <3>3. CASE Precedes({Free(<<"qp", c>>)}, Drop(Call, Queue(c)), work)
      <4>1. Precedes({Free(<<"qp", c>>)}, Drop(Call, Queue(c)), work') /\ Drop(h, o) # Drop(Call, Queue(c))
          BY <1>0, <1>3, <3>2, <3>3, DropOrder
      <4> QED BY <1>1, <3>1, <4>1
    <3>4. CASE /\ <<Call, Client(c)>> \in held
               /\ Precedes({Drop(Call, Client(c))}, Drop(Call, Queue(c)), work)
               /\ <<Ctl, Client(c)>> \in held =>
                     Precedes({Drop(Ctl, Client(c))}, Drop(Call, Client(c)), work)
      <4>1. Drop(h, o) # Drop(Call, Queue(c))
          BY <1>0, <3>4, DropOrder
      <4>2. <<Call, Queue(c)>> \in held'
          BY <1>1, <3>1, <4>1
      <4>3. CASE Drop(h, o) # Drop(Call, Client(c))
        <5>1. Drop(h, o) \notin {Drop(Call, Client(c))} /\ <<Call, Client(c)>> \in held'
            BY <1>1, <3>4, <4>3
        <5>2. Precedes({Drop(Call, Client(c))}, Drop(Call, Queue(c)), work')
            BY <1>0, <3>2, <3>4, <5>1, DropOrder
        <5>3. ASSUME <<Ctl, Client(c)>> \in held'
              PROVE  Precedes({Drop(Ctl, Client(c))}, Drop(Call, Client(c)), work')
          <6>1. <<Ctl, Client(c)>> \in held /\ Drop(h, o) \notin {Drop(Ctl, Client(c))}
              BY <1>1, <5>3, CallFacts
          <6>2. Precedes({Drop(Ctl, Client(c))}, Drop(Call, Client(c)), work)
              BY <3>4, <6>1
          <6> QED BY <1>0, <3>2, <6>1, <6>2, DropOrder
        <5> QED BY <4>2, <5>1, <5>2, <5>3
      <4>4. CASE h = Call /\ o = Client(c)
        <5>1. <<Ctl, Client(c)>> \notin held
          <6>1. ASSUME Precedes({Drop(Ctl, Client(c))}, Drop(Call, Client(c)), work) PROVE FALSE
            <7>1. Drop(h, o) # Drop(Call, Client(c))
                BY <1>0, <6>1, DropOrder
            <7> QED BY <4>4, <7>1
          <6> QED BY <3>4, <6>1
        <5>2. DropLast(h, o)
          <6> SUFFICES ASSUME ~DropLast(h, o) PROVE FALSE
              OBVIOUS
          <6>1. PICK g \in Holder : g # h /\ <<g, o>> \in held
              BY <1>0, <3>4, <4>4, LastFacts
          <6>2. g \in {Ctl, App, Call}
              BY <1>0, <4>4, <6>1 DEF HoldInv
          <6> QED BY <1>4, <4>4, <5>1, <6>1, <6>2 DEF OrderlyAt
        <5>3. PICK d : d = Destructor(Client(c))
            OBVIOUS
        <5>4. Free(<<"qp", c>>) \in Range(d)
            BY <5>3, ClientDtorFacts
        <5>5. {Free(<<"qp", c>>)} \cap Range(Destructor(o)) # {}
            BY <4>4, <5>3, <5>4
        <5>6. Precedes({Free(<<"qp", c>>)}, Drop(Call, Queue(c)), Destructor(o))
            BY <1>1, <3>2, AbsentFacts, DestructorFacts
        <5>7. Precedes({Free(<<"qp", c>>)}, Drop(Call, Queue(c)), work')
            BY <1>0, <5>2, <5>5, <5>6, DropFirst
        <5> QED BY <4>2, <5>7
      <4> QED BY <4>3, <4>4, CallFacts
    <3> QED BY <1>4, <2>3, <3>3, <3>4 DEF OrderlyAt
  <2> QED BY <1>1, <2>1, <2>2, <2>3 DEF OrderlyAt
<1>5. ASSUME NEW c \in Conn, OtherwiseAt(c) PROVE OtherwiseAt(c)'
  <2> DEFINE q == <<"cq", c>>
             C == Client(c)
  <2>0. C \in Object /\ Queue(c) \in Object
      BY ObjectFacts
  <2>1. CASE q \in refused /\ ~HasHolder(C)
      BY <1>1, <1>2, <2>0, <2>1 DEF OtherwiseAt
  <2>2. CASE /\ q \notin refused /\ <<"qp", c>> \in exists /\ q \in exists
             /\ <<Call, Queue(c)>> \in held => <<App, C>> \in held
    <3>1. <<Call, Queue(c)>> \in held' => <<App, C>> \in held'
      <4> SUFFICES ASSUME <<Call, Queue(c)>> \in held', h = App, o = C PROVE FALSE
          BY <1>1, <2>2, CallFacts
      <4>1. \A p \in Object : <<Call, p>> \notin held
          BY <1>0, <1>1, <2>0 DEF HoldInv
      <4> QED BY <1>1, <2>0, <4>1
    <3>2. ASSUME \/ HasHolder(C)' /\ <<C, Queue(c)>> \in held'
                 \/ /\ <<C, Queue(c)>> \in held'
                    /\ Drop(C, Queue(c)) \in Todo'
                    /\ Precedes({Drop(C, Queue(c))}, Free(<<"qp", c>>), work')
                 \/ /\ Free(q) \in Todo' /\ ~HasHolder(C)'
                    /\ Precedes({Free(q)}, Free(<<"qp", c>>), work')
          PROVE  OtherwiseAt(c)'
        BY <1>1, <2>2, <3>1, <3>2 DEF OtherwiseAt
    <3>3. Owner(<<"qp", c>>) = C
        BY OwnerFacts
    <3>4. CASE HasHolder(C) /\ <<C, Queue(c)>> \in held
      <4>1. Drop(h, o) # Drop(C, Queue(c))
          BY <1>0, <1>1, <2>0, <3>4 DEF WorkInv
      <4>2. <<C, Queue(c)>> \in held'
          BY <1>1, <3>4, <4>1
      <4>3. CASE HasHolder(C)'
          BY <3>2, <4>2, <4>3
      <4>4. CASE ~HasHolder(C)'
        <5>1. C = o /\ DropLast(h, o)
            BY <1>2, <2>0, <3>4, <4>4
        <5>2. PICK d : d = Destructor(Client(c))
            OBVIOUS
        <5>3. Drop(C, Queue(c)) \in Range(d) /\ Precedes({Drop(C, Queue(c))}, Free(<<"qp", c>>), d)
            BY <5>2, ClientDtorFacts
        <5>4. {Drop(C, Queue(c))} \cap Range(Destructor(o)) # {}
            BY <5>1, <5>2, <5>3
        <5>5. Precedes({Drop(C, Queue(c))}, Free(<<"qp", c>>), work')
            BY <1>0, <5>1, <5>2, <5>3, <5>4, DropFirst
        <5>6. Drop(C, Queue(c)) \in Todo'
            BY <5>1, <5>2, <5>3 DEF DropLast
        <5> QED BY <3>2, <4>2, <5>5, <5>6
      <4> QED BY <4>3, <4>4
    <3>5. CASE /\ <<C, Queue(c)>> \in held /\ Drop(C, Queue(c)) \in Todo
               /\ Precedes({Drop(C, Queue(c))}, Free(<<"qp", c>>), work)
      <4>1. ~HasHolder(C)
          BY <1>0, <2>0, <3>5 DEF WorkInv
      <4>2. DropLast(h, o) => o # C
          BY <4>1 DEF DropLast
      <4>3. DropLast(h, o) => Free(<<"qp", c>>) \notin Range(Destructor(o))
          BY <1>2, <3>3, <4>2
      <4>4. CASE Drop(h, o) # Drop(C, Queue(c))
        <5>1. Drop(h, o) \notin {Drop(C, Queue(c))}
            BY <4>4
        <5>2. Precedes({Drop(C, Queue(c))}, Free(<<"qp", c>>), work')
            BY <1>0, <3>5, <4>3, <5>1, DropOrder
        <5>3. <<C, Queue(c)>> \in held' /\ Drop(C, Queue(c)) \in Todo'
            BY <1>1, <3>5, <4>4
        <5> QED BY <3>2, <5>2, <5>3
      <4>5. CASE h = C /\ o = Queue(c)
        <5>1. DropLast(h, o)
          <6> SUFFICES ASSUME ~DropLast(h, o) PROVE FALSE
              OBVIOUS
          <6>1. PICK g \in Holder : g # h /\ <<g, o>> \in held
              BY <1>0, <3>5, <4>5, LastFacts
          <6>2. g = Call
              BY <1>0, <4>5, <6>1 DEF HoldInv
          <6>3. <<App, C>> \in held
              BY <2>2, <4>5, <6>1, <6>2
          <6>4. <<App, C>>[2] = C
              OBVIOUS
          <6> QED BY <4>1, <6>3, <6>4 DEF HasHolder
        <5>2. Free(q) \in Range(Destructor(o))
            BY <2>0, <4>5, DestructorFacts, OwnerFacts
        <5>3. Free(q) \in Todo'
            BY <5>1, <5>2 DEF DropLast
        <5>4. Precedes({Free(q)}, Free(<<"qp", c>>), Destructor(o))
            BY <1>1, <4>3, <5>1, AbsentFacts, DestructorFacts
        <5>5. {Free(q)} \cap Range(Destructor(o)) # {}
            BY <5>2
        <5>6. Precedes({Free(q)}, Free(<<"qp", c>>), work')
            BY <1>0, <5>1, <5>4, <5>5, DropFirst
        <5>7. ~HasHolder(C)'
            BY <1>2, <2>0, <4>1
        <5> QED BY <3>2, <5>3, <5>6, <5>7
      <4> QED BY <4>4, <4>5, CallFacts
    <3>6. CASE /\ Free(q) \in Todo /\ ~HasHolder(C)
               /\ Precedes({Free(q)}, Free(<<"qp", c>>), work)
      <4>1. DropLast(h, o) => o # C
          BY <3>6 DEF DropLast
      <4>2. DropLast(h, o) => Free(<<"qp", c>>) \notin Range(Destructor(o))
          BY <1>2, <3>3, <4>1
      <4>3. Precedes({Free(q)}, Free(<<"qp", c>>), work')
          BY <1>0, <1>3, <3>6, <4>2, DropOrder
      <4>4. Free(q) \in Todo' /\ ~HasHolder(C)'
          BY <1>1, <1>2, <2>0, <3>6, CallFacts
      <4> QED BY <3>2, <4>3, <4>4
    <3> QED BY <1>5, <2>2, <3>4, <3>5, <3>6 DEF OtherwiseAt
  <2> QED BY <1>5, <2>1, <2>2 DEF OtherwiseAt
<1>6. made \subseteq Conn
    BY <1>0 DEF TypeOK
<1> QED BY <1>0, <1>1, <1>4, <1>5, <1>6 DEF QueueInv

-----------------------------------------------------------------------------
(* A step that frees a handle *)

\* Only handles that others are made from can be refused.
LEMMA RefuseFacts ==
    /\ \A x : Refuses(x) => x[1] \in {"pd", "cq", "compch"}
    /\ \A c \in Conn : <<"qp", c>> \in exists => Refuses(<<"pd", None>>) /\ Refuses(<<"cq", c>>)
    /\ \A c \in Conn : Refuses(<<"cq", c>>) => \E y \in exists : y[1] = "qp" /\ y[2] = c
    /\ Refuses(<<"pd", None>>) =>
          \E y \in exists : y[1] \in {"qp", "mr", "poolmr", "largemr", "tempmr", "srq"}
<1>1. \A x : Refuses(x) => x[1] \in {"pd", "cq", "compch"}
    BY DEF Refuses
<1>2. ASSUME NEW c \in Conn, <<"qp", c>> \in exists
      PROVE  Refuses(<<"pd", None>>) /\ Refuses(<<"cq", c>>)
  <2>1. Parents(<<"qp", c>>) = {<<"pd", None>>, <<"cq", c>>, <<"id", c>>}
      BY DEF Parents
  <2> QED BY <1>2, <2>1 DEF Refuses
<1>3. ASSUME NEW y PROVE \A c \in Conn : <<"cq", c>> \in Parents(y) => y[1] = "qp" /\ y[2] = c
    BY DEF Parents
<1>4. ASSUME NEW y, <<"pd", None>> \in Parents(y)
      PROVE  y[1] \in {"qp", "mr", "poolmr", "largemr", "tempmr", "srq"}
    BY <1>4 DEF Parents
<1> QED BY <1>1, <1>2, <1>3, <1>4 DEF Refuses

\* What it can change.
LEMMA FreeCommon ==
    ASSUME TypeOK, WorkInv, OnceInv, NEW x, FreeHandle(x)
    PROVE  /\ x \in Freed /\ Free(x) \in Todo /\ ~HasHolder(Owner(x)) /\ x \notin refused \cup lost
           /\ UNCHANGED <<config, pc, held, active, made, unacked, failed, orderly, lost>>
           /\ \A p : HasHolder(p)' <=> HasHolder(p)
           /\ \A b : b \in Todo' <=> b \in Todo /\ b # Free(x)
           /\ \A y : y \in exists' => y \in exists
           /\ \A y : y \in exists => y \in exists' \/ (y = x /\ ~Refuses(x))
           /\ \A y : y \in exists' => y # x \/ (Refuses(x) /\ x \in refused')
           /\ \A y : y \in refused' => y \in refused \/ (y = x /\ x \in exists /\ Refuses(x))
           /\ \A y : y \in refused => y \in refused'
<1>1. /\ x \in Freed /\ Free(x) \in Todo /\ Todo' = Todo \ {Free(x)}
      /\ \A y : y \in exists' <=> y \in exists /\ (y # x \/ Refuses(x))
      /\ \A y : y \in refused' <=> y \in refused \/ (y = x /\ x \in exists /\ Refuses(x))
      /\ UNCHANGED <<config, pc, held, active, made, unacked, failed, orderly, lost>>
    BY DEF FreeHandle, connVars
<1>2. ~HasHolder(Owner(x)) /\ x \notin refused \cup lost
    BY <1>1 DEF WorkInv, OnceInv
<1>3. \A p : HasHolder(p)' <=> HasHolder(p)
    BY <1>1 DEF HasHolder
<1> QED BY <1>1, <1>2, <1>3

\* The types, the stages, the calls, the references, and what is left.
LEMMA FreeBasic ==
    ASSUME IInv, FreeStep, NEW x, Head(work) = Free(x), FreeHandle(x)
    PROVE  TypeOK' /\ StageInv' /\ WorkInv' /\ HoldInv' /\ OnceInv' /\ LeftInv'
<1>0. TypeOK /\ StageInv /\ WorkInv /\ HoldInv /\ OnceInv /\ LeftInv
    BY DEF IInv
<1>1. /\ x \in Freed /\ Free(x) \in Todo /\ ~HasHolder(Owner(x)) /\ x \notin refused \cup lost
      /\ UNCHANGED <<config, pc, held, active, made, unacked, failed, orderly, lost>>
      /\ \A p : HasHolder(p)' <=> HasHolder(p)
      /\ \A b : b \in Todo' <=> b \in Todo /\ b # Free(x)
    BY <1>0, FreeCommon
<1>2. /\ \A y : y \in exists' => y \in exists
      /\ \A y : y \in exists => y \in exists' \/ (y = x /\ ~Refuses(x))
      /\ \A y : y \in exists' => y # x \/ (Refuses(x) /\ x \in refused')
      /\ \A y : y \in refused' => y \in refused \/ (y = x /\ x \in exists /\ Refuses(x))
      /\ \A y : y \in refused => y \in refused'
    BY <1>0, FreeCommon
<1>3. work # <<>> /\ pc \notin Starting \cup {"failed", "aborted"}
    BY <1>0 DEF FreeStep, StageInv
<1>4. TypeOK'
  <2>1. \A y : y \in refused' \cup lost' => y \in exists'
      BY <1>0, <1>1, <1>2 DEF TypeOK
  <2>2. exists' \subseteq Handle
      BY <1>0, <1>2 DEF TypeOK
  <2> QED BY <1>0, <1>1, <2>1, <2>2 DEF TypeOK
<1>5. StageInv'
    BY <1>0, <1>1, <1>3 DEF StageInv, Starting
<1>6. WorkInv'
  <2>1. work' \in Seq(Calls) /\ IsInjective(work')
    <3>1. work \in Seq(Calls) /\ IsInjective(work) /\ work' = Tail(work)
        BY <1>0 DEF WorkInv, FreeStep
    <3> QED BY <1>3, <3>1, TailFacts
  <2>2. \A h \in Object, o \in Object : Drop(h, o) \in Todo' => ~HasHolder(h)'
      BY <1>0, <1>1 DEF WorkInv
  <2>3. ASSUME NEW y \in Freed, Free(y) \in Todo' PROVE ~HasHolder(Owner(y))'
    <3>1. PICK p : p = Owner(y)
        OBVIOUS
    <3>2. ~HasHolder(p)
        BY <1>0, <1>1, <2>3, <3>1 DEF WorkInv
    <3>3. ~HasHolder(p)'
        BY <1>1, <3>2
    <3> QED BY <3>1, <3>3
  <2> QED BY <2>1, <2>2, <2>3 DEF WorkInv
<1>7. HoldInv'
  <2>1. \A h, o : Drop(h, o) \in Todo' <=> Drop(h, o) \in Todo
      BY <1>1, CallFacts
  <2> QED BY <1>0, <1>1, <2>1 DEF HoldInv
<1>8. OnceInv'
  <2>1. ASSUME NEW y \in refused' \cup lost' PROVE Free(y) \notin Todo' /\ ~HasHolder(Owner(y))'
    <3>1. PICK p : p = Owner(y)
        OBVIOUS
    <3>2. Free(y) \notin Todo' /\ ~HasHolder(p)
        BY <1>0, <1>1, <1>2, <3>1 DEF OnceInv
    <3>3. ~HasHolder(p)'
        BY <1>1, <3>2
    <3> QED BY <3>1, <3>2, <3>3
  <2>2. ASSUME NEW y \in refused'
        PROVE  y[1] \in {"pd", "cq", "compch"} /\ (y[2] = None \/ y[2] \in made')
    <3>1. CASE y \in refused
        BY <1>0, <1>1, <3>1 DEF OnceInv
    <3>2. CASE y = x /\ x \in exists /\ Refuses(x)
        BY <1>0, <1>1, <3>2, RefuseFacts DEF LeftInv
    <3> QED BY <1>2, <3>1, <3>2
  <2> QED BY <1>0, <1>1, <2>1, <2>2 DEF OnceInv
<1>9. LeftInv'
  <2> SUFFICES ASSUME NEW y \in exists'
               PROVE  /\ y[2] = None \/ y[2] \in made' \/ y \in lost'
                      /\ \/ y \in refused' \cup lost' \cup {<<"tempmr", None>>}
                         \/ HasHolder(Owner(y))'
                         \/ Free(y) \in Todo'
                         \/ y \in DeviceLists /\ pc' \in Starting \cup {"aborted"}
      BY DEF LeftInv
  <2>1. PICK p : p = Owner(y)
      OBVIOUS
  <2>2. /\ y[2] = None \/ y[2] \in made \/ y \in lost
        /\ \/ y \in refused \cup lost \cup {<<"tempmr", None>>}
           \/ HasHolder(p)
           \/ Free(y) \in Todo
           \/ y \in DeviceLists /\ pc \in Starting \cup {"aborted"}
      BY <1>0, <1>2, <2>1 DEF LeftInv
  <2>3. CASE y = x
      BY <1>1, <1>2, <2>2, <2>3
  <2>4. CASE HasHolder(p)
    <3>1. HasHolder(p)'
        BY <1>1, <2>4
    <3>2. HasHolder(Owner(y))'
        BY <2>1, <3>1
    <3> QED BY <1>1, <2>2, <3>2
  <2>5. CASE y # x /\ ~HasHolder(p)
    <3>1. Free(y) # Free(x)
        BY <2>5, CallFacts
    <3> QED BY <1>1, <1>2, <2>2, <2>5, <3>1
  <2> QED BY <2>3, <2>4, <2>5
<1> QED BY <1>4, <1>5, <1>6, <1>7, <1>8, <1>9

\* A guarded reference still comes after its handle.
LEMMA FreeKeepsGuard ==
    ASSUME TypeOK, WorkInv, OnceInv, FreeStep, NEW x, Head(work) = Free(x), FreeHandle(x),
           NEW y, NEW g, NEW p, Guard(y, g, p), y[1] \notin {"pd", "cq", "compch"}
    PROVE  Guard(y, g, p)'
<1>1. /\ held' = held /\ \A z : z \in exists' => z \in exists
      /\ \A z : z \in exists' => z # x \/ (Refuses(x) /\ x \in refused')
    BY FreeCommon
<1> SUFFICES ASSUME y \in exists' PROVE <<g, p>> \in held' /\ Precedes({Free(y)}, Drop(g, p), work')
    BY DEF Guard
<1>2. y # x
    BY <1>1, RefuseFacts
<1>3. <<g, p>> \in held /\ Precedes({Free(y)}, Drop(g, p), work)
    BY <1>1 DEF Guard
<1>4. Free(x) \notin {Free(y)}
    BY <1>2, CallFacts
<1>5. Precedes({Free(y)}, Drop(g, p), work')
    BY <1>3, <1>4, FreeOrder
<1> QED BY <1>1, <1>3, <1>5

\* What keeps the pool and the domain alive: nothing but a temporary region is
\* left in a domain that nobody holds.
LEMMA FreeGuard ==
    ASSUME IInv, FreeStep, NEW x, Head(work) = Free(x), FreeHandle(x)
    PROVE  GuardInv'
<1>0. TypeOK /\ WorkInv /\ OnceInv /\ GuardInv
    BY DEF IInv
<1>1. /\ x \in Freed /\ ~HasHolder(Owner(x))
      /\ UNCHANGED <<held>>
      /\ \A p : HasHolder(p)' <=> HasHolder(p)
    BY <1>0, FreeCommon
<1>2. /\ \A y : y \in exists' => y \in exists
      /\ \A y : y \in exists => y \in exists' \/ (y = x /\ ~Refuses(x))
      /\ \A y : y \in exists' => y # x \/ (Refuses(x) /\ x \in refused')
      /\ \A y : y \in refused' => y \in refused \/ (y = x /\ x \in exists /\ Refuses(x))
    BY <1>0, FreeCommon
<1>3. HasHolder(Pool)' => <<"poolmr", None>> \in exists'
    BY <1>0, <1>1, <1>2, OwnerFacts DEF GuardInv
<1>4. HasHolder(Domain)' => <<"pd", None>> \in exists'
    BY <1>0, <1>1, <1>2, OwnerFacts DEF GuardInv
<1>5. /\ \A c \in Conn : Guard(<<"qp", c>>, Client(c), Pool)' /\ Guard(<<"mr", c>>, Client(c), Pool)'
      /\ Guard(<<"poolmr", None>>, Pool, Domain)' /\ Guard(<<"srq", None>>, Srq, Domain)'
  <2>1. ASSUME NEW c \in Conn
        PROVE  Guard(<<"qp", c>>, Client(c), Pool)' /\ Guard(<<"mr", c>>, Client(c), Pool)'
    <3>1. Guard(<<"qp", c>>, Client(c), Pool) /\ Guard(<<"mr", c>>, Client(c), Pool)
        BY <1>0 DEF GuardInv
    <3>2. <<"qp", c>>[1] \notin {"pd", "cq", "compch"} /\ <<"mr", c>>[1] \notin {"pd", "cq", "compch"}
        OBVIOUS
    <3> QED BY <1>0, <3>1, <3>2, FreeKeepsGuard
  <2>2. Guard(<<"poolmr", None>>, Pool, Domain) /\ Guard(<<"srq", None>>, Srq, Domain)
      BY <1>0 DEF GuardInv
  <2>3. <<"poolmr", None>>[1] \notin {"pd", "cq", "compch"} /\ <<"srq", None>>[1] \notin {"pd", "cq", "compch"}
      OBVIOUS
  <2> QED BY <1>0, <2>1, <2>2, <2>3, FreeKeepsGuard
<1>6. ASSUME NEW c \in Conn, <<"qp", c>> \in exists'
      PROVE  {<<"pd", None>>, <<"cq", c>>} \subseteq exists'
  <2>1. <<"qp", c>> \in exists
      BY <1>2, <1>6
  <2>2. Refuses(<<"pd", None>>) /\ Refuses(<<"cq", c>>)
      BY <2>1, RefuseFacts
  <2>3. {<<"pd", None>>, <<"cq", c>>} \subseteq exists
      BY <1>0, <2>1 DEF GuardInv
  <2> QED BY <1>2, <2>2, <2>3
<1>7. ASSUME <<"largemr", None>> \in exists'
      PROVE  /\ <<Ctl, Domain>> \in held'
             /\ \/ <<Ctl, Large>> \in held' /\ Precedes({Drop(Ctl, Large)}, Drop(Ctl, Domain), work')
                \/ Precedes({Free(<<"largemr", None>>)}, Drop(Ctl, Domain), work')
  <2>1. x # <<"largemr", None>>
    <3>1. <<"largemr", None>>[1] = "largemr"
        OBVIOUS
    <3> QED BY <1>2, <1>7, <3>1, RefuseFacts
  <2>2. Free(x) \notin {Free(<<"largemr", None>>)} /\ Free(x) \notin {Drop(Ctl, Large)}
      BY <2>1, CallFacts
  <2>3. /\ <<Ctl, Domain>> \in held
        /\ \/ <<Ctl, Large>> \in held /\ Precedes({Drop(Ctl, Large)}, Drop(Ctl, Domain), work)
           \/ Precedes({Free(<<"largemr", None>>)}, Drop(Ctl, Domain), work)
      BY <1>0, <1>2, <1>7 DEF GuardInv
  <2>4. CASE <<Ctl, Large>> \in held /\ Precedes({Drop(Ctl, Large)}, Drop(Ctl, Domain), work)
    <3>1. Precedes({Drop(Ctl, Large)}, Drop(Ctl, Domain), work')
        BY <1>0, <2>2, <2>4, FreeOrder
    <3> QED BY <1>1, <2>3, <2>4, <3>1
  <2>5. CASE Precedes({Free(<<"largemr", None>>)}, Drop(Ctl, Domain), work)
    <3>1. Precedes({Free(<<"largemr", None>>)}, Drop(Ctl, Domain), work')
        BY <1>0, <2>2, <2>5, FreeOrder
    <3> QED BY <1>1, <2>3, <3>1
  <2> QED BY <2>3, <2>4, <2>5
<1>8. ASSUME <<"pd", None>> \in refused' PROVE <<"tempmr", None>> \in exists'
  <2>1. x # <<"tempmr", None>>
      BY <1>1, FreedFacts
  <2>2. CASE <<"pd", None>> \in refused
      BY <1>0, <1>2, <2>1, <2>2 DEF GuardInv
  <2>3. CASE x = <<"pd", None>> /\ Refuses(x)
    <3>1. ~HasHolder(Domain)
        BY <1>1, <2>3, OwnerFacts
    <3>2. \A h : <<h, Domain>> \notin held
      <4>1. \A h : <<h, Domain>>[2] = Domain
          OBVIOUS
      <4> QED BY <3>1, <4>1 DEF HasHolder
    <3>3. <<"poolmr", None>> \notin exists /\ <<"srq", None>> \notin exists /\ <<"largemr", None>> \notin exists
        BY <1>0, <3>2 DEF GuardInv, Guard
    <3>4. \A h : <<h, Pool>> \notin held
      <4>1. \A h : <<h, Pool>>[2] = Pool
          OBVIOUS
      <4> QED BY <1>0, <3>3, <4>1 DEF GuardInv, HasHolder
    <3>5. \A c \in Conn : <<"qp", c>> \notin exists /\ <<"mr", c>> \notin exists
        BY <1>0, <3>4 DEF GuardInv, Guard
    <3>6. PICK y \in exists : y[1] \in {"qp", "mr", "poolmr", "largemr", "tempmr", "srq"}
        BY <2>3, RefuseFacts
    <3>7. y \in Handle
        BY <1>0 DEF TypeOK
    <3>8. y = <<"tempmr", None>>
      <4>1. CASE \E c \in Conn : \E k \in {"id", "evch", "cq", "qp", "mr"} : y = <<k, c>>
        <5>1. PICK c \in Conn, k \in {"id", "evch", "cq", "qp", "mr"} : y = <<k, c>>
            BY <4>1
        <5>2. k \in {"qp", "mr"}
            BY <3>6, <5>1
        <5> QED BY <3>5, <3>6, <5>1, <5>2
      <4>2. CASE \E k \in {"devlist", "iflist", "id", "evch", "pd", "compch", "poolmr", "largemr",
                           "tempmr", "srq"} : y = <<k, None>>
        <5>1. PICK k : y = <<k, None>> /\ k = y[1]
            BY <4>2
        <5>2. k \notin {"poolmr", "largemr", "srq"}
            BY <3>3, <3>6, <5>1
        <5>3. k # "qp" /\ k # "mr"
            BY <4>2, <5>1
        <5> QED BY <3>6, <5>1, <5>2, <5>3
      <4> QED BY <3>7, <4>1, <4>2, OwnerFacts
    <3> QED BY <1>2, <2>1, <3>6, <3>8
  <2> QED BY <1>2, <1>8, <2>2, <2>3
<1> QED BY <1>3, <1>4, <1>5, <1>6, <1>7, <1>8 DEF GuardInv

\* What keeps the event channel of an id alive.
LEMMA FreeChannel ==
    ASSUME IInv, FreeStep, NEW x, Head(work) = Free(x), FreeHandle(x)
    PROVE  ChannelInv'
<1>0. TypeOK /\ StageInv /\ WorkInv /\ OnceInv /\ LeftInv /\ ChannelInv
    BY DEF IInv
<1>1. /\ x \in Freed /\ ~HasHolder(Owner(x)) /\ x \notin refused \cup lost
      /\ UNCHANGED <<pc, held, active, made>>
      /\ \A p : HasHolder(p)' <=> HasHolder(p)
    BY <1>0, FreeCommon
<1>2. /\ \A y : y \in exists' => y \in exists
      /\ \A y : y \in exists => y \in exists' \/ (y = x /\ ~Refuses(x))
      /\ \A y : y \in exists' => y # x \/ (Refuses(x) /\ x \in refused')
    BY <1>0, FreeCommon
<1>3. HasHolder(Listener)' => <<"evch", None>> \in exists'
    BY <1>0, <1>1, <1>2, OwnerFacts DEF ChannelInv
<1>4. ASSUME NEW c \in made, <<"id", c>> \in exists' PROVE ChannelAt(c)'
  <2>1. x # <<"id", c>>
    <3>1. <<"id", c>>[1] = "id"
        OBVIOUS
    <3> QED BY <1>2, <1>4, <3>1, RefuseFacts
  <2>2. ChannelAt(c)
      BY <1>0, <1>2, <1>4 DEF ChannelInv
  <2>3. Free(x) \notin {Free(<<"id", c>>)} /\ Free(x) \notin {Drop(Ctl, Client(c))}
      BY <2>1, CallFacts
  <2>4. CASE c \in active
    <3>1. <<"evch", c>> \in exists /\ Precedes({Free(<<"id", c>>)}, Free(<<"evch", c>>), work)
        BY <2>2, <2>4 DEF ChannelAt
    <3>2. Free(x) # Free(<<"evch", c>>) /\ Precedes({Free(<<"id", c>>)}, Free(<<"evch", c>>), work')
        BY <1>0, <2>3, <3>1, FreeOrder
    <3>3. <<"evch", c>> \in exists'
        BY <1>2, <3>1, <3>2
    <3> QED BY <1>1, <2>4, <3>2, <3>3 DEF ChannelAt
  <2>5. CASE c \notin active /\ pc = "destroying"
    <3>1. CASE <<App, Client(c)>> \in held
        BY <1>1, <2>5, <3>1 DEF ChannelAt
    <3>2. CASE /\ <<Ctl, Listener>> \in held /\ <<Ctl, Client(c)>> \in held
               /\ Precedes({Drop(Ctl, Client(c))}, Drop(Ctl, Listener), work)
      <4>1. Precedes({Drop(Ctl, Client(c))}, Drop(Ctl, Listener), work')
          BY <1>0, <2>3, <3>2, FreeOrder
      <4> QED BY <1>1, <2>5, <3>2, <4>1 DEF ChannelAt
    <3>3. CASE <<Ctl, Listener>> \in held /\ Precedes({Free(<<"id", c>>)}, Drop(Ctl, Listener), work)
      <4>1. Precedes({Free(<<"id", c>>)}, Drop(Ctl, Listener), work')
          BY <1>0, <2>3, <3>3, FreeOrder
      <4> QED BY <1>1, <2>5, <3>3, <4>1 DEF ChannelAt
    <3> QED BY <2>2, <2>5, <3>1, <3>2, <3>3 DEF ChannelAt
  <2>6. CASE c \notin active /\ pc # "destroying"
      BY <1>1, <2>6 DEF ChannelAt
  <2> QED BY <2>4, <2>5, <2>6
<1>5. ASSUME NEW c \in Conn, <<"id", c>> \in uaf' PROVE pc' = "gone" /\ c \notin active'
  <2>1. CASE <<"id", c>> \in uaf
      BY <1>0, <1>1, <2>1 DEF ChannelInv
  <2>2. CASE x = <<"id", c>> /\ x \in exists /\ UsesFreed(x)
    <3>1. ~HasHolder(Client(c))
        BY <1>1, <2>2, OwnerFacts
    <3>2. c \in made /\ c # None
        BY <1>0, <1>1, <2>2, OwnerFacts DEF LeftInv
    <3>3. ChannelAt(c)
        BY <1>0, <2>2, <3>2 DEF ChannelInv
    <3>4. Parents(x) = {<<"evch", IF c \in active THEN c ELSE None>>}
        BY <2>2 DEF Parents
    <3>5. <<"evch", IF c \in active THEN c ELSE None>> \notin exists
        BY <2>2, <3>4 DEF UsesFreed
    <3>6. c \notin active
        BY <3>3, <3>5 DEF ChannelAt
    <3>7. ~HasHolder(Listener)
        BY <1>0, <3>5, <3>6 DEF ChannelInv
    <3>8. /\ <<Ctl, Listener>> \notin held /\ <<App, Client(c)>> \notin held
      <4>1. <<Ctl, Listener>>[2] = Listener /\ <<App, Client(c)>>[2] = Client(c)
          OBVIOUS
      <4> QED BY <3>1, <3>7, <4>1 DEF HasHolder
    <3>9. pc # "destroying"
        BY <3>3, <3>6, <3>8 DEF ChannelAt
    <3>10. pc = "gone"
        BY <1>0, <3>8, <3>9 DEF StageInv, FreeStep, Starting
    <3> QED BY <1>1, <3>6, <3>10
  <2> QED BY <1>5, <2>1, <2>2 DEF FreeHandle
<1> QED BY <1>1, <1>3, <1>4, <1>5 DEF ChannelInv

\* How a connection is closed.
LEMMA FreeQueue ==
    ASSUME IInv, FreeStep, NEW x, Head(work) = Free(x), FreeHandle(x)
    PROVE  QueueInv'
<1>0. TypeOK /\ WorkInv /\ OnceInv /\ QueueInv
    BY DEF IInv
<1>1. /\ x \in Freed /\ ~HasHolder(Owner(x)) /\ Free(x) \in Todo
      /\ UNCHANGED <<held, made, orderly>>
      /\ \A p : HasHolder(p)' <=> HasHolder(p)
      /\ \A b : b \in Todo' <=> b \in Todo /\ b # Free(x)
    BY <1>0, FreeCommon
<1>2. /\ \A y : y \in exists' => y \in exists
      /\ \A y : y \in exists => y \in exists' \/ (y = x /\ ~Refuses(x))
      /\ \A y : y \in exists' => y # x \/ (Refuses(x) /\ x \in refused')
      /\ \A y : y \in refused' => y \in refused \/ (y = x /\ x \in exists /\ Refuses(x))
      /\ \A y : y \in refused => y \in refused'
    BY <1>0, FreeCommon
<1>3. ASSUME NEW c \in Conn PROVE <<"qp", c>> \in exists' => x # <<"qp", c>>
  <2>1. <<"qp", c>>[1] = "qp"
      OBVIOUS
  <2> QED BY <1>2, <2>1, RefuseFacts
<1>4. ASSUME NEW c \in Conn PROVE <<Call, Queue(c)>> \in held \/ <<Client(c), Queue(c)>> \in held
                                 => x # <<"cq", c>>
  <2>1. <<Call, Queue(c)>>[2] = Queue(c) /\ <<Client(c), Queue(c)>>[2] = Queue(c)
      OBVIOUS
  <2> QED BY <1>1, <2>1, OwnerFacts DEF HasHolder
<1>5. ASSUME NEW c \in Conn, OrderlyAt(c) PROVE OrderlyAt(c)'
  <2>1. <<"cq", c>> \notin refused'
    <3> SUFFICES ASSUME x = <<"cq", c>>, Refuses(x) PROVE FALSE
        BY <1>2, <1>5 DEF OrderlyAt
    <3>1. PICK y \in exists : y[1] = "qp" /\ y[2] = c
        BY RefuseFacts
    <3>2. y = <<"qp", c>>
        BY <1>0, <3>1 DEF TypeOK, Handle
    <3>3. <<Call, Queue(c)>> \in held
        BY <1>5, <3>1, <3>2 DEF OrderlyAt
    <3> QED BY <1>4, <3>3
  <2>2. <<Ctl, Client(c)>> \in held' => Drop(Ctl, Client(c)) \in Todo'
      BY <1>1, <1>5, CallFacts DEF OrderlyAt
  <2>3. ASSUME <<"qp", c>> \in exists'
        PROVE  /\ <<Call, Queue(c)>> \in held'
               /\ \/ /\ <<Call, Client(c)>> \in held'
                     /\ Precedes({Drop(Call, Client(c))}, Drop(Call, Queue(c)), work')
                     /\ <<Ctl, Client(c)>> \in held' =>
                           Precedes({Drop(Ctl, Client(c))}, Drop(Call, Client(c)), work')
                  \/ Precedes({Free(<<"qp", c>>)}, Drop(Call, Queue(c)), work')
    <3>1. /\ Free(x) \notin {Free(<<"qp", c>>)} /\ Free(x) \notin {Drop(Call, Client(c))}
          /\ Free(x) \notin {Drop(Ctl, Client(c))}
        BY <1>3, <2>3, CallFacts
    <3>2. <<Call, Queue(c)>> \in held
        BY <1>2, <1>5, <2>3 DEF OrderlyAt
    <3>3. CASE Precedes({Free(<<"qp", c>>)}, Drop(Call, Queue(c)), work)
      <4>1. Precedes({Free(<<"qp", c>>)}, Drop(Call, Queue(c)), work')
          BY <1>0, <3>1, <3>3, FreeOrder
      <4> QED BY <1>1, <3>2, <4>1
    <3>4. CASE /\ <<Call, Client(c)>> \in held
               /\ Precedes({Drop(Call, Client(c))}, Drop(Call, Queue(c)), work)
               /\ <<Ctl, Client(c)>> \in held =>
                     Precedes({Drop(Ctl, Client(c))}, Drop(Call, Client(c)), work)
      <4>1. Precedes({Drop(Call, Client(c))}, Drop(Call, Queue(c)), work')
          BY <1>0, <3>1, <3>4, FreeOrder
      <4>2. ASSUME <<Ctl, Client(c)>> \in held
            PROVE  Precedes({Drop(Ctl, Client(c))}, Drop(Call, Client(c)), work')
          BY <1>0, <3>1, <3>4, <4>2, FreeOrder
      <4> QED BY <1>1, <3>2, <3>4, <4>1, <4>2
    <3> QED BY <1>2, <1>5, <2>3, <3>3, <3>4 DEF OrderlyAt
  <2> QED BY <1>1, <1>5, <2>1, <2>2, <2>3 DEF OrderlyAt
<1>6. ASSUME NEW c \in Conn, OtherwiseAt(c) PROVE OtherwiseAt(c)'
  <2> DEFINE q == <<"cq", c>>
             C == Client(c)
  <2>1. CASE q \in refused /\ ~HasHolder(C)
      BY <1>1, <1>2, <2>1 DEF OtherwiseAt
  <2>2. CASE /\ q \notin refused /\ <<"qp", c>> \in exists /\ q \in exists
             /\ <<Call, Queue(c)>> \in held => <<App, C>> \in held
    <3>1. Refuses(q)
        BY <2>2, RefuseFacts
    <3>2. q \in exists'
        BY <1>2, <2>2, <3>1
    <3>3. ASSUME x # q, x # <<"qp", c>>,
                 \/ HasHolder(C) /\ <<C, Queue(c)>> \in held
                 \/ /\ <<C, Queue(c)>> \in held
                    /\ Drop(C, Queue(c)) \in Todo'
                    /\ Precedes({Drop(C, Queue(c))}, Free(<<"qp", c>>), work')
                 \/ /\ Free(q) \in Todo' /\ ~HasHolder(C)
                    /\ Precedes({Free(q)}, Free(<<"qp", c>>), work')
          PROVE  OtherwiseAt(c)'
      <4>1. <<"qp", c>> \in exists' /\ q \notin refused'
          BY <1>2, <2>2, <3>3
      <4> QED BY <1>1, <2>2, <3>2, <3>3, <4>1 DEF OtherwiseAt
    <3>4. CASE HasHolder(C) /\ <<C, Queue(c)>> \in held
      <4>1. x # q /\ x # <<"qp", c>>
          BY <1>1, <1>4, <3>4, OwnerFacts
      <4> QED BY <3>3, <3>4, <4>1
    <3>5. CASE /\ <<C, Queue(c)>> \in held /\ Drop(C, Queue(c)) \in Todo
               /\ Precedes({Drop(C, Queue(c))}, Free(<<"qp", c>>), work)
      <4>1. Free(x) \notin {Drop(C, Queue(c))}
          BY CallFacts
      <4>2. Precedes({Drop(C, Queue(c))}, Free(<<"qp", c>>), work') /\ Free(x) # Free(<<"qp", c>>)
          BY <1>0, <3>5, <4>1, FreeOrder
      <4>3. x # q /\ x # <<"qp", c>>
          BY <1>4, <3>5, <4>2
      <4>4. Drop(C, Queue(c)) \in Todo'
          BY <1>1, <3>5, <4>1
      <4> QED BY <3>3, <3>5, <4>2, <4>3, <4>4
    <3>6. CASE /\ Free(q) \in Todo /\ ~HasHolder(C)
               /\ Precedes({Free(q)}, Free(<<"qp", c>>), work)
      <4>1. CASE x = q
        <5>1. q \in refused'
            BY <1>2, <3>2, <4>1
        <5> QED BY <1>1, <3>6, <5>1 DEF OtherwiseAt
      <4>2. CASE x # q
        <5>1. Free(x) \notin {Free(q)}
            BY <4>2, CallFacts
        <5>2. Precedes({Free(q)}, Free(<<"qp", c>>), work') /\ Free(x) # Free(<<"qp", c>>)
            BY <1>0, <3>6, <5>1, FreeOrder
        <5>3. Free(q) \in Todo' /\ x # <<"qp", c>>
            BY <1>1, <3>6, <5>1, <5>2
        <5> QED BY <3>3, <3>6, <4>2, <5>2, <5>3
      <4> QED BY <4>1, <4>2
    <3> QED BY <1>6, <2>2, <3>4, <3>5, <3>6 DEF OtherwiseAt
  <2> QED BY <1>6, <2>1, <2>2 DEF OtherwiseAt
<1>7. made \subseteq Conn
    BY <1>0 DEF TypeOK
<1> QED BY <1>0, <1>1, <1>5, <1>6, <1>7 DEF QueueInv

-----------------------------------------------------------------------------
(* Steps taken while no destructor is under way *)

\* What the invariant says then.
LEMMA IdleFacts ==
    ASSUME IInv, work = <<>>
    PROVE  /\ Todo = {} /\ \A o \in Object : <<Call, o>> \notin held
           /\ \A c \in orderly : /\ c \in Conn /\ <<"cq", c>> \notin refused /\ <<"qp", c>> \notin exists
                                 /\ ~HasHolder(Client(c))
           /\ \A c \in made : c \in Conn /\
                 (c \notin orderly =>
                    \/ <<"cq", c>> \in refused /\ ~HasHolder(Client(c))
                    \/ /\ <<"cq", c>> \notin refused /\ {<<"qp", c>>, <<"cq", c>>} \subseteq exists
                       /\ HasHolder(Client(c)) /\ <<Client(c), Queue(c)>> \in held)
<1>0. TypeOK /\ WorkInv /\ HoldInv /\ QueueInv
    BY DEF IInv
<1>1. Todo = {}
    BY EmptyFacts DEF Todo
<1>2. \A o \in Object : <<Call, o>> \notin held
    BY <1>0, <1>1 DEF HoldInv
<1>3. orderly \subseteq made /\ made \subseteq Conn
    BY <1>0 DEF TypeOK
<1>4. ASSUME NEW c \in orderly
      PROVE  /\ <<"cq", c>> \notin refused /\ <<"qp", c>> \notin exists /\ ~HasHolder(Client(c))
  <2>0. OrderlyAt(c) /\ Queue(c) \in Object /\ Client(c) \in Object
      BY <1>0, <1>3, ObjectFacts DEF QueueInv
  <2>1. <<"qp", c>> \notin exists /\ <<"cq", c>> \notin refused
      BY <1>2, <2>0 DEF OrderlyAt
  <2>2. \A h \in {Ctl, App, Call} : <<h, Client(c)>> \notin held
      BY <1>1, <1>2, <2>0 DEF OrderlyAt
  <2>3. \A h \in Holder : <<h, Client(c)>> \notin held
      BY <1>0, <1>3, <2>2 DEF HoldInv
  <2> QED BY <1>0, <2>1, <2>3, HolderFacts
<1>5. ASSUME NEW c \in made, c \notin orderly
      PROVE  \/ <<"cq", c>> \in refused /\ ~HasHolder(Client(c))
             \/ /\ <<"cq", c>> \notin refused /\ {<<"qp", c>>, <<"cq", c>>} \subseteq exists
                /\ HasHolder(Client(c)) /\ <<Client(c), Queue(c)>> \in held
  <2>1. OtherwiseAt(c)
      BY <1>0, <1>5 DEF QueueInv
  <2> QED BY <1>1, <2>1 DEF OtherwiseAt
<1> QED BY <1>1, <1>2, <1>3, <1>4, <1>5

\* A call takes no reference to an object that nobody holds, and leaves only
\* references of its callers to drop; ...
QuietCalls ==
    /\ work = <<>> /\ work' \in Seq(Calls) /\ IsInjective(work')
    /\ \A b \in Todo' : \E h \in {Ctl, App, Call}, o \in Object : b = Drop(h, o)
    /\ Precedes({Drop(Ctl, Large)}, Drop(Ctl, Domain), work')
    /\ UNCHANGED <<config, active, made, refused, uaf>>
    /\ held \subseteq held' /\ \A p : HasHolder(p)' <=> HasHolder(p)

\* ... it makes and destroys no handle but a temporary region, or one that is lost; ...
QuietHandles ==
    /\ \A x \in exists : x \in exists' \/ (x = <<"tempmr", None>> /\ HasHolder(Pool))
    /\ \A x \in exists' : x \in exists \/ x = <<"tempmr", None>> \/ x \in lost'
    /\ lost \subseteq lost'
    /\ \A x \in lost' : x \in lost \/ \E c \in Conn : c \notin made /\ x = <<"id", c>>

\* ... and if it begins or ends the controller's end, or closes a connection,
\* what is left to be done comes in order.
QuietOrder ==
    /\ pc' = pc \/ pc \notin Starting \cup {"aborted", "gone"}
    /\ pc' = "destroying" =>
          \/ pc = "destroying" /\ work' = <<>>
          \/ /\ <<Ctl, Listener>> \in held \/ made = {}
             /\ \A c \in Conn : Precedes({Drop(Ctl, Client(c))}, Drop(Ctl, Listener), work')
    /\ orderly \subseteq orderly'
    /\ \A c \in orderly' : c \in orderly \/ OrderlyAt(c)'
    /\ \A c \in Conn : c \notin orderly' /\ <<Call, Queue(c)>> \in held' => <<App, Client(c)>> \in held'

\* Such a call leaves no handle to be freed, and no reference of an object to be dropped.
LEMMA QuietFacts ==
    ASSUME QuietCalls
    PROVE  /\ \A x : Free(x) \notin Todo'
           /\ \A g \in Object : \A p : Drop(g, p) \notin Todo'
<1>1. \A b \in Todo' : \E h \in {Ctl, App, Call}, o \in Object : b = Drop(h, o)
    BY DEF QuietCalls
<1>2. \A x : Free(x) \notin Todo'
    BY <1>1, CallFacts
<1>3. \A g \in Object : \A p : Drop(g, p) \notin Todo'
    BY <1>1, CallFacts, ObjectFacts
<1> QED BY <1>2, <1>3

\* Nothing that is not to be done is out of order.
LEMMA QuietAbsent ==
    ASSUME QuietCalls, NEW b, b \notin Todo', NEW A
    PROVE  Precedes(A, b, work')
<1>1. PICK w \in Seq(Calls) : w = work'
    BY DEF QuietCalls
<1>2. b \notin Range(w)
    BY <1>1 DEF Todo
<1>3. Precedes(A, b, w)
    BY <1>2, AbsentFacts
<1> QED BY <1>1, <1>3

\* Such a call preserves the parts of the invariant that are about calls and handles.
LEMMA QuietInv ==
    ASSUME IInv, QuietCalls, QuietHandles, QuietOrder
    PROVE  WorkInv' /\ OnceInv' /\ LeftInv' /\ GuardInv' /\ ChannelInv' /\ QueueInv'
<1>0. TypeOK /\ StageInv /\ WorkInv /\ HoldInv /\ OnceInv /\ LeftInv /\ GuardInv /\ ChannelInv
    BY DEF IInv
<1>1. work = <<>> /\ Todo = {}
    BY IdleFacts DEF QuietCalls
<1>2. /\ UNCHANGED <<config, active, made, refused, uaf>>
      /\ held \subseteq held' /\ \A p : HasHolder(p)' <=> HasHolder(p)
    BY DEF QuietCalls
<1>3. /\ \A x : Free(x) \notin Todo'
      /\ \A g \in Object : \A p : Drop(g, p) \notin Todo'
    BY QuietFacts
<1>4. /\ \A x \in exists : x \in exists' \/ (x = <<"tempmr", None>> /\ HasHolder(Pool))
      /\ \A x \in exists' : x \in exists \/ x = <<"tempmr", None>> \/ x \in lost'
      /\ \A x \in lost' : x \in lost \/ \E c \in Conn : c \notin made /\ x = <<"id", c>>
    BY DEF QuietHandles
<1>5. \A x \in lost : x \in exists
    BY <1>0 DEF TypeOK
<1>6. WorkInv'
    BY <1>3 DEF WorkInv, QuietCalls
<1>7. OnceInv'
  <2>1. ASSUME NEW x \in refused' \cup lost' PROVE ~HasHolder(Owner(x))'
    <3>1. PICK p : p = Owner(x)
        OBVIOUS
    <3>2. CASE x \in refused \cup lost
      <4>1. ~HasHolder(p)
          BY <1>0, <3>1, <3>2 DEF OnceInv
      <4>2. ~HasHolder(p)'
          BY <1>2, <4>1
      <4> QED BY <3>1, <4>2
    <3>3. CASE x \notin refused \cup lost
      <4>1. PICK c \in Conn : c \notin made /\ x = <<"id", c>>
          BY <1>2, <1>4, <2>1, <3>3
      <4>2. p = Client(c)
          BY <3>1, <4>1, OwnerFacts
      <4>3. \A h \in Holder : <<h, Client(c)>> \notin held
          BY <1>0, <4>1 DEF HoldInv
      <4>4. ~HasHolder(p)
          BY <1>0, <4>2, <4>3, HolderFacts
      <4>5. ~HasHolder(p)'
          BY <1>2, <4>4
      <4> QED BY <3>1, <4>5
    <3> QED BY <3>2, <3>3
  <2>2. \A x \in lost' : /\ x[1] \in {"devlist", "iflist", "evch", "id"} /\ x[2] \notin made'
                         /\ x[1] # "id" => x[2] = None
    <3> SUFFICES ASSUME NEW x \in lost'
                 PROVE  /\ x[1] \in {"devlist", "iflist", "evch", "id"} /\ x[2] \notin made
                        /\ x[1] # "id" => x[2] = None
        BY <1>2
    <3>1. CASE x \in lost
        BY <1>0, <3>1 DEF OnceInv
    <3>2. CASE \E c \in Conn : c \notin made /\ x = <<"id", c>>
        BY <3>2
    <3> QED BY <1>4, <3>1, <3>2
  <2> QED BY <1>0, <1>2, <1>3, <2>1, <2>2 DEF OnceInv
<1>8. LeftInv'
  <2> SUFFICES ASSUME NEW x \in exists'
               PROVE  /\ x[2] = None \/ x[2] \in made' \/ x \in lost'
                      /\ \/ x \in refused' \cup lost' \cup {<<"tempmr", None>>}
                         \/ HasHolder(Owner(x))'
                         \/ Free(x) \in Todo'
                         \/ x \in DeviceLists /\ pc' \in Starting \cup {"aborted"}
      BY DEF LeftInv
  <2>1. CASE x \in exists
    <3>1. PICK p : p = Owner(x)
        OBVIOUS
    <3>2. /\ x[2] = None \/ x[2] \in made \/ x \in lost
          /\ \/ x \in refused \cup lost \cup {<<"tempmr", None>>}
             \/ HasHolder(p)
             \/ x \in DeviceLists /\ pc \in Starting \cup {"aborted"}
        BY <1>0, <1>1, <2>1, <3>1 DEF LeftInv
    <3>3. HasHolder(p) => HasHolder(Owner(x))'
      <4>1. HasHolder(p) => HasHolder(p)'
          BY <1>2
      <4> QED BY <3>1, <4>1
    <3>4. lost \subseteq lost' /\ (pc \in Starting \cup {"aborted"} => pc' = pc)
        BY DEF QuietHandles, QuietOrder
    <3> QED BY <1>2, <3>2, <3>3, <3>4
  <2>2. CASE x = <<"tempmr", None>>
      BY <2>2
  <2>3. CASE x \in lost'
      BY <2>3
  <2> QED BY <1>4, <2>1, <2>2, <2>3
<1>9. ASSUME NEW x, x \in exists', x[1] \notin {"tempmr", "id", "devlist", "iflist", "evch"}
      PROVE  x \in exists
  <2>1. x # <<"tempmr", None>>
      BY <1>9
  <2>2. x \in lost' => x \in lost
      BY <1>4, <1>9
  <2> QED BY <1>4, <1>5, <1>9, <2>1, <2>2
<1>10. ASSUME NEW x \in exists, x[1] # "tempmr" PROVE x \in exists'
    BY <1>4, <1>10
<1>11. GuardInv'
  <2>1. HasHolder(Pool)' => <<"poolmr", None>> \in exists'
    <3>1. <<"poolmr", None>>[1] # "tempmr"
        OBVIOUS
    <3> QED BY <1>0, <1>2, <1>10, <3>1 DEF GuardInv
  <2>2. HasHolder(Domain)' => <<"pd", None>> \in exists'
    <3>1. <<"pd", None>>[1] # "tempmr"
        OBVIOUS
    <3> QED BY <1>0, <1>2, <1>10, <3>1 DEF GuardInv
  <2>3. ASSUME NEW x, NEW g \in Object, NEW p, Guard(x, g, p),
               x[1] \notin {"tempmr", "id", "devlist", "iflist", "evch"}
        PROVE  Guard(x, g, p)'
    <3> SUFFICES ASSUME x \in exists' PROVE <<g, p>> \in held' /\ Precedes({Free(x)}, Drop(g, p), work')
        BY DEF Guard
    <3>1. x \in exists
        BY <1>9, <2>3
    <3>2. <<g, p>> \in held'
        BY <1>2, <2>3, <3>1 DEF Guard
    <3> QED BY <1>3, <3>2, QuietAbsent
  <2>4. ASSUME NEW c \in Conn
        PROVE  Guard(<<"qp", c>>, Client(c), Pool)' /\ Guard(<<"mr", c>>, Client(c), Pool)'
    <3>1. /\ Guard(<<"qp", c>>, Client(c), Pool) /\ Guard(<<"mr", c>>, Client(c), Pool)
          /\ Client(c) \in Object
        BY <1>0, ObjectFacts DEF GuardInv
    <3>2. <<"qp", c>>[1] = "qp" /\ <<"mr", c>>[1] = "mr"
        OBVIOUS
    <3> QED BY <2>3, <3>1, <3>2
  <2>5. Guard(<<"poolmr", None>>, Pool, Domain)' /\ Guard(<<"srq", None>>, Srq, Domain)'
    <3>1. /\ Guard(<<"poolmr", None>>, Pool, Domain) /\ Guard(<<"srq", None>>, Srq, Domain)
          /\ Pool \in Object /\ Srq \in Object
        BY <1>0, ObjectFacts DEF GuardInv
    <3>2. <<"poolmr", None>>[1] = "poolmr" /\ <<"srq", None>>[1] = "srq"
        OBVIOUS
    <3> QED BY <2>3, <3>1, <3>2
  <2>6. ASSUME NEW c \in Conn, <<"qp", c>> \in exists'
        PROVE  {<<"pd", None>>, <<"cq", c>>} \subseteq exists'
    <3>1. /\ <<"qp", c>>[1] = "qp" /\ <<"cq", c>>[1] # "tempmr" /\ <<"pd", None>>[1] # "tempmr"
        OBVIOUS
    <3>2. {<<"pd", None>>, <<"cq", c>>} \subseteq exists
        BY <1>0, <1>9, <2>6, <3>1 DEF GuardInv
    <3> QED BY <1>10, <3>1, <3>2
  <2>7. ASSUME <<"largemr", None>> \in exists'
        PROVE  /\ <<Ctl, Domain>> \in held' /\ <<Ctl, Large>> \in held'
               /\ Precedes({Drop(Ctl, Large)}, Drop(Ctl, Domain), work')
    <3>1. <<"largemr", None>>[1] = "largemr"
        OBVIOUS
    <3>2. <<"largemr", None>> \in exists
        BY <1>9, <2>7, <3>1
    <3>3. <<"largemr", None>> \notin refused \cup lost
        BY <1>0, <3>1 DEF OnceInv
    <3>4. HasHolder(Large)
        BY <1>0, <1>1, <3>2, <3>3, OwnerFacts DEF LeftInv, DeviceLists
    <3>5. <<Ctl, Large>> \in held
        BY <1>0, <3>4, HolderFacts DEF HoldInv
    <3> QED BY <1>0, <1>2, <3>2, <3>5 DEF GuardInv, QuietCalls
  <2>8. ASSUME <<"pd", None>> \in refused' PROVE <<"tempmr", None>> \in exists'
    <3>1. <<"tempmr", None>> \in exists /\ ~HasHolder(Domain)
        BY <1>0, <1>2, <2>8, OwnerFacts DEF GuardInv, OnceInv
    <3>2. ~HasHolder(Pool)
      <4>1. <<Pool, Domain>>[2] = Domain
          OBVIOUS
      <4> QED BY <1>0, <3>1, <4>1 DEF GuardInv, Guard, HasHolder
    <3> QED BY <1>4, <3>1, <3>2
  <2> QED BY <2>1, <2>2, <2>4, <2>5, <2>6, <2>7, <2>8 DEF GuardInv
<1>12. ChannelInv'
  <2>1. HasHolder(Listener)' => <<"evch", None>> \in exists'
    <3>1. <<"evch", None>>[1] # "tempmr"
        OBVIOUS
    <3> QED BY <1>0, <1>2, <1>10, <3>1 DEF ChannelInv
  <2>2. ASSUME NEW c \in made, <<"id", c>> \in exists' PROVE ChannelAt(c)'
    <3>0. c \in Conn
        BY <1>0 DEF TypeOK
    <3>1. <<"id", c>> \in exists /\ <<"id", c>> \notin refused \cup lost
      <4>1. <<"id", c>>[1] = "id" /\ <<"id", c>>[2] = c
          OBVIOUS
      <4>2. <<"id", c>> \notin lost'
          BY <1>0, <1>4, <4>1 DEF OnceInv
      <4>3. <<"id", c>> \notin refused \cup lost
          BY <1>0, <4>1 DEF OnceInv
      <4> QED BY <1>4, <2>2, <4>1, <4>2, <4>3
    <3>2. ChannelAt(c)
        BY <1>0, <3>1 DEF ChannelInv
    <3>3. CASE c \in active
      <4>1. <<"evch", c>> \in exists /\ <<"evch", c>>[1] # "tempmr"
          BY <3>2, <3>3 DEF ChannelAt
      <4>2. <<"evch", c>> \in exists'
          BY <1>10, <4>1
      <4>3. Precedes({Free(<<"id", c>>)}, Free(<<"evch", c>>), work')
          BY <1>3, QuietAbsent
      <4> QED BY <1>2, <3>3, <4>2, <4>3 DEF ChannelAt
    <3>4. CASE c \notin active /\ pc' = "destroying"
      <4>1. CASE pc = "destroying" /\ work' = <<>>
        <5>1. <<App, Client(c)>> \in held' \/ <<Ctl, Listener>> \in held'
            BY <1>2, <3>2, <3>4, <4>1 DEF ChannelAt
        <5>2. Drop(Ctl, Listener) \notin Todo'
            BY <4>1, EmptyFacts DEF Todo
        <5>3. Precedes({Free(<<"id", c>>)}, Drop(Ctl, Listener), work')
            BY <5>2, QuietAbsent
        <5> QED BY <1>2, <3>4, <5>1, <5>3 DEF ChannelAt
      <4>2. CASE /\ <<Ctl, Listener>> \in held \/ made = {}
                 /\ \A e \in Conn : Precedes({Drop(Ctl, Client(e))}, Drop(Ctl, Listener), work')
        <5>1. HasHolder(Client(c))
          <6>1. Owner(<<"id", c>>) = Client(c) /\ <<"id", c>> # <<"tempmr", None>>
              BY <3>0, OwnerFacts
          <6>2. <<"id", c>> \notin DeviceLists
              BY DEF DeviceLists
          <6> QED BY <1>0, <1>1, <3>1, <6>1, <6>2 DEF LeftInv
        <5>2. <<App, Client(c)>> \in held \/ <<Ctl, Client(c)>> \in held
          <6>1. PICK h \in Holder : <<h, Client(c)>> \in held
              BY <1>0, <5>1, HolderFacts
          <6>2. h \in {Ctl, App, Call}
              BY <1>0, <3>0, <6>1 DEF HoldInv
          <6>3. h # Call
              BY <1>1, <3>0, <6>1, IdleFacts, ObjectFacts
          <6> QED BY <6>1, <6>2, <6>3
        <5>3. <<Ctl, Listener>> \in held
            BY <4>2
        <5>4. Precedes({Drop(Ctl, Client(c))}, Drop(Ctl, Listener), work')
            BY <3>0, <4>2
        <5> QED BY <1>2, <3>4, <5>2, <5>3, <5>4 DEF ChannelAt
      <4> QED BY <3>4, <4>1, <4>2 DEF QuietOrder
    <3>5. CASE c \notin active /\ pc' # "destroying"
        BY <1>2, <3>5 DEF ChannelAt
    <3> QED BY <3>3, <3>4, <3>5
  <2>3. \A c \in Conn : <<"id", c>> \in uaf' => pc' = "gone" /\ c \notin active'
      BY <1>0, <1>2 DEF ChannelInv, QuietOrder
  <2> QED BY <1>2, <2>1, <2>2, <2>3 DEF ChannelInv
<1>13. QueueInv'
  <2>1. ASSUME NEW c \in made, c \in orderly' PROVE OrderlyAt(c)'
    <3>1. CASE c \in orderly
      <4>1. c \in Conn /\ <<"cq", c>> \notin refused /\ <<"qp", c>> \notin exists /\ ~HasHolder(Client(c))
          BY <1>1, <3>1, IdleFacts
      <4>2. \A h : <<h, Client(c)>> \notin held'
        <5>1. ~HasHolder(Client(c))'
            BY <1>2, <4>1
        <5>2. \A h : <<h, Client(c)>>[2] = Client(c)
            OBVIOUS
        <5> QED BY <5>1, <5>2 DEF HasHolder
      <4>3. <<"qp", c>> \notin exists'
        <5>1. <<"qp", c>>[1] = "qp"
            OBVIOUS
        <5> QED BY <1>9, <4>1, <5>1
      <4> QED BY <1>2, <4>1, <4>2, <4>3 DEF OrderlyAt
    <3> QED BY <2>1, <3>1 DEF QuietOrder
  <2>2. ASSUME NEW c \in made, c \notin orderly' PROVE OtherwiseAt(c)'
    <3>1. c \in Conn /\ c \notin orderly
        BY <1>0, <2>2 DEF TypeOK, QuietOrder
    <3>2. CASE <<"cq", c>> \in refused /\ ~HasHolder(Client(c))
        BY <1>2, <3>2 DEF OtherwiseAt
    <3>3. CASE /\ <<"cq", c>> \notin refused /\ {<<"qp", c>>, <<"cq", c>>} \subseteq exists
               /\ HasHolder(Client(c)) /\ <<Client(c), Queue(c)>> \in held
      <4>1. <<"qp", c>>[1] # "tempmr" /\ <<"cq", c>>[1] # "tempmr"
          OBVIOUS
      <4>2. {<<"qp", c>>, <<"cq", c>>} \subseteq exists'
          BY <1>10, <3>3, <4>1
      <4>3. <<Call, Queue(c)>> \in held' => <<App, Client(c)>> \in held'
          BY <2>2, <3>1 DEF QuietOrder
      <4> QED BY <1>2, <3>3, <4>2, <4>3 DEF OtherwiseAt
    <3> QED BY <1>1, <3>1, <3>2, <3>3, IdleFacts
  <2> QED BY <1>2, <2>1, <2>2 DEF QueueInv
<1> QED BY <1>6, <1>7, <1>8, <1>11, <1>12, <1>13

\* Nothing is left to be done.
LEMMA NoWork ==
    ASSUME work' = <<>>
    PROVE  /\ work' \in Seq(Calls) /\ IsInjective(work') /\ Todo' = {}
           /\ \A A, b : Precedes(A, b, work')
<1>1. PICK w : w = work'
    OBVIOUS
<1>2. w \in Seq(Calls) /\ Range(w) = {} /\ IsInjective(w) /\ \A A, b : Precedes(A, b, w)
    BY <1>1, EmptyFacts
<1> QED BY <1>1, <1>2 DEF Todo

\* A request of a peer fails.
LEMMA AcceptClientFailsInv ==
    ASSUME IInv, NEW c \in Conn, AcceptClientFails(c)
    PROVE  IInv'
<1>0. TypeOK /\ StageInv /\ HoldInv
    BY DEF IInv
<1>1. /\ pc = "running" /\ work = <<>> /\ c \notin made /\ <<"id", c>> \notin exists
      /\ UNCHANGED <<config, pc, held, work, active, made, failed, orderly, refused, uaf>>
      /\ unacked' = unacked \cup {<<"id", None>>}
      /\ \/ exists' = exists \cup {<<"id", c>>} /\ lost' = lost \cup {<<"id", c>>}
         \/ exists' = exists /\ lost' = lost
    BY DEF AcceptClientFails, Ready, NewConn
<1>2. /\ work' \in Seq(Calls) /\ IsInjective(work') /\ Todo' = {}
      /\ Precedes({Drop(Ctl, Large)}, Drop(Ctl, Domain), work')
    BY <1>1, NoWork
<1>3. QuietCalls
    BY <1>1, <1>2 DEF QuietCalls, HasHolder
<1>4. QuietHandles
    BY <1>1 DEF QuietHandles
<1>5. QuietOrder
  <2>1. \A e \in Conn : <<Call, Queue(e)>> \notin held
      BY <1>1, IdleFacts, ObjectFacts
  <2> QED BY <1>1, <2>1 DEF QuietOrder
<1>6. TypeOK'
  <2>1. <<"id", None>> \in Handle /\ <<"id", c>> \in Handle
      BY OwnerFacts
  <2> QED BY <1>0, <1>1, <2>1 DEF TypeOK
<1>7. StageInv'
    BY <1>0, <1>1 DEF StageInv, Starting
<1>8. HoldInv'
  <2>1. \A o \in Object : <<Call, o>> \notin held
      BY <1>1, IdleFacts
  <2> QED BY <1>0, <1>1, <1>2, <2>1 DEF HoldInv
<1> QED BY <1>3, <1>4, <1>5, <1>6, <1>7, <1>8, QuietInv DEF IInv

\* The parcelport keeps an object.
LEMMA KeepInv ==
    ASSUME IInv, NEW o \in Object, Keep(o),
           o \in {Listener, Domain, Channel, Pool} \/ \E c \in Conn : o = Client(c)
    PROVE  IInv'
<1>0. TypeOK /\ StageInv /\ HoldInv
    BY DEF IInv
<1>1. /\ pc = "running" /\ work = <<>> /\ <<Ctl, o>> \in held /\ held' = held \cup {<<App, o>>}
      /\ UNCHANGED <<config, pc, exists, work, active, made, unacked, failed, orderly, refused, lost, uaf>>
    BY DEF Keep, Ready, connVars, history
<1>2. /\ work' \in Seq(Calls) /\ IsInjective(work') /\ Todo' = {}
      /\ Precedes({Drop(Ctl, Large)}, Drop(Ctl, Domain), work')
    BY <1>1, NoWork
<1>3. QuietCalls
  <2>1. <<App, o>>[2] = o /\ <<Ctl, o>>[2] = o
      OBVIOUS
  <2>2. \A p : HasHolder(p)' <=> HasHolder(p)
      BY <1>1, <2>1 DEF HasHolder
  <2> QED BY <1>1, <1>2, <2>2 DEF QuietCalls
<1>4. QuietHandles
    BY <1>1 DEF QuietHandles
<1>5. \A p \in Object : <<Call, p>> \notin held'
    BY <1>1, IdleFacts, ObjectFacts
<1>6. QuietOrder
    BY <1>1, <1>5, ObjectFacts DEF QuietOrder
<1>7. TypeOK'
    BY <1>0, <1>1 DEF TypeOK
<1>8. StageInv'
    BY <1>0, <1>1 DEF StageInv, Starting
<1>9. HoldInv'
  <2>1. ASSUME NEW c \in Conn, NEW h \in Holder
        PROVE  /\ <<h, Client(c)>> \in held' => h \in {Ctl, App, Call} /\ c \in made'
               /\ <<h, Queue(c)>> \in held' => h \in {Client(c), Call}
    <3>1. o # Queue(c)
        BY ObjectFacts
    <3>2. o = Client(c) => c \in made
      <4>1. Ctl \in Holder
          BY FreedFacts
      <4> QED BY <1>0, <1>1, <4>1 DEF HoldInv
    <3> QED BY <1>0, <1>1, <3>1, <3>2 DEF HoldInv
  <2>2. \A h \in Holder : <<h, Large>> \in held' => h = Ctl
    <3>1. o # Large
        BY ObjectFacts
    <3> QED BY <1>0, <1>1, <3>1 DEF HoldInv
  <2> QED BY <1>2, <1>5, <2>1, <2>2 DEF HoldInv
<1> QED BY <1>3, <1>4, <1>6, <1>7, <1>8, <1>9, QuietInv DEF IInv

\* The parcelport lets an object go.
LEMMA LetGoInv ==
    ASSUME IInv, NEW o \in Object, LetGo(o)
    PROVE  IInv'
<1>0. TypeOK /\ StageInv /\ HoldInv
    BY DEF IInv
<1>1. /\ pc \in {"running", "gone"} /\ work = <<>> /\ work' = <<Drop(App, o)>>
      /\ UNCHANGED <<config, pc, held, exists, active, made, unacked, failed, orderly, refused, lost, uaf>>
    BY DEF LetGo, connVars, history
<1>2. PICK w, b : w = work' /\ b = Drop(App, o)
    OBVIOUS
<1>3. b \in Calls
    BY <1>2, FreedFacts
<1>4. w \in Seq(Calls) /\ IsInjective(w) /\ Range(w) = {b}
    BY <1>1, <1>2, <1>3, OneCall
<1>5. work' \in Seq(Calls) /\ IsInjective(work') /\ Todo' = {Drop(App, o)}
    BY <1>2, <1>4 DEF Todo
<1>6. Precedes({Drop(Ctl, Large)}, Drop(Ctl, Domain), work')
  <2>1. Drop(Ctl, Domain) \notin Range(w)
      BY <1>2, <1>4, CallFacts, ObjectFacts
  <2>2. Precedes({Drop(Ctl, Large)}, Drop(Ctl, Domain), w)
      BY <1>4, <2>1, AbsentFacts
  <2> QED BY <1>2, <2>2
<1>7. QuietCalls
    BY <1>1, <1>5, <1>6 DEF QuietCalls, HasHolder
<1>8. QuietHandles
    BY <1>1 DEF QuietHandles
<1>9. \A p \in Object : <<Call, p>> \notin held'
    BY <1>1, IdleFacts
<1>10. QuietOrder
    BY <1>1, <1>9, ObjectFacts DEF QuietOrder
<1>11. TypeOK'
    BY <1>0, <1>1 DEF TypeOK
<1>12. StageInv'
    BY <1>0, <1>1 DEF StageInv, Starting
<1>13. HoldInv'
  <2>1. \A p \in Object : Drop(Ctl, p) \notin Todo'
      BY <1>5, CallFacts, ObjectFacts
  <2> QED BY <1>0, <1>1, <1>9, <2>1 DEF HoldInv
<1> QED BY <1>7, <1>8, <1>10, <1>11, <1>12, <1>13, QuietInv DEF IInv

\* A temporary region is taken or given back, the controller is gone, or the
\* process is.
LEMMA QuietStepInv ==
    ASSUME IInv, TakeTemporary \/ ReturnTemporary \/ ControllerGone \/ ConnectClientCrashes
    PROVE  IInv'
<1>0. TypeOK /\ StageInv /\ HoldInv /\ OnceInv
    BY DEF IInv
<1>1. /\ work = <<>>
      /\ pc' = pc \/ (pc = "destroying" /\ pc' = "gone") \/ (pc = "running" /\ pc' = "aborted")
      /\ UNCHANGED <<config, held, work, active, made, unacked, failed, orderly, refused, lost, uaf>>
    BY DEF TakeTemporary, ReturnTemporary, ControllerGone, ConnectClientCrashes, Ready, Goto, connVars,
           history
<1>2. /\ work' \in Seq(Calls) /\ IsInjective(work') /\ Todo' = {} /\ work' = <<>>
      /\ Precedes({Drop(Ctl, Large)}, Drop(Ctl, Domain), work')
    BY <1>1, NoWork
<1>3. QuietCalls
    BY <1>1, <1>2 DEF QuietCalls, HasHolder
<1>4. \/ exists' = exists \cup {<<"tempmr", None>>} /\ pc = "running"
      \/ exists' = exists \ {<<"tempmr", None>>} /\ HasHolder(Pool)
      \/ exists' = exists
    BY DEF TakeTemporary, ReturnTemporary, ControllerGone, ConnectClientCrashes, Ready
<1>5. QuietHandles
    BY <1>1, <1>4 DEF QuietHandles
<1>6. \A p \in Object : <<Call, p>> \notin held'
    BY <1>1, IdleFacts
<1>7. QuietOrder
    BY <1>1, <1>6, ObjectFacts DEF QuietOrder, Starting
<1>8. TypeOK'
  <2>1. <<"tempmr", None>> \in Handle
      BY OwnerFacts
  <2>2. <<"tempmr", None>> \notin refused \cup lost
    <3>1. <<"tempmr", None>>[1] = "tempmr"
        OBVIOUS
    <3> QED BY <1>0, <3>1 DEF OnceInv
  <2> QED BY <1>0, <1>1, <1>4, <2>1, <2>2 DEF TypeOK
<1>9. StageInv'
    BY <1>0, <1>1, <1>4 DEF StageInv, Starting
<1>10. HoldInv'
    BY <1>0, <1>1, <1>2, <1>6 DEF HoldInv
<1> QED BY <1>3, <1>5, <1>7, <1>8, <1>9, <1>10, QuietInv DEF IInv

\* The destructor of the controller begins.
LEMMA DestroyControllerInv ==
    ASSUME IInv, DestroyController
    PROVE  IInv'
<1>0. TypeOK /\ StageInv /\ HoldInv
    BY DEF IInv
<1>1. /\ pc \in {"running", "failed"} /\ work = <<>> /\ pc' = "destroying"
      /\ work' = RdmaControllerDtor
      /\ UNCHANGED <<config, held, exists, active, made, unacked, failed, orderly, refused, lost, uaf>>
    BY DEF DestroyController, connVars, history
<1>2. PICK w : w = work'
    OBVIOUS
<1>3. /\ w \in Seq(Calls) /\ IsInjective(w)
      /\ Range(w) = {Drop(Ctl, Client(c)) : c \in Conn}
            \cup {Drop(Ctl, o) : o \in {Listener, Large, Pool, Domain, Channel}}
      /\ \A c \in Conn : Precedes({Drop(Ctl, Client(c))}, Drop(Ctl, Listener), w)
      /\ Precedes({Drop(Ctl, Large)}, Drop(Ctl, Domain), w)
    BY <1>1, <1>2, ControllerDtorFacts
<1>4. \A b \in Todo' : \E o \in Object : b = Drop(Ctl, o)
    BY <1>2, <1>3, ObjectFacts DEF Todo
<1>5. QuietCalls
    BY <1>1, <1>2, <1>3, <1>4 DEF QuietCalls, HasHolder
<1>6. QuietHandles
    BY <1>1 DEF QuietHandles
<1>7. \A p \in Object : <<Call, p>> \notin held'
    BY <1>1, IdleFacts
<1>8. QuietOrder
  <2>1. <<Ctl, Listener>> \in held \/ made = {}
      BY <1>0, <1>1 DEF StageInv
  <2> QED BY <1>1, <1>2, <1>3, <1>7, <2>1, ObjectFacts DEF QuietOrder, Starting
<1>9. TypeOK'
    BY <1>0, <1>1 DEF TypeOK
<1>10. StageInv'
    BY <1>0, <1>1 DEF StageInv, Starting
<1>11. HoldInv'
  <2>1. \A p \in Object : Drop(App, p) \notin Todo'
      BY <1>4, CallFacts, ObjectFacts
  <2> QED BY <1>0, <1>1, <1>7, <2>1 DEF HoldInv
<1> QED BY <1>5, <1>6, <1>8, <1>9, <1>10, <1>11, QuietInv DEF IInv

\* A connection is closed.
LEMMA CloseClientInv ==
    ASSUME IInv, NEW c \in Conn, CloseClient(c)
    PROVE  IInv'
<1>0. TypeOK /\ StageInv /\ HoldInv
    BY DEF IInv
<1> DEFINE C == Client(c)
<1>1. /\ pc = "running" /\ work = <<>> /\ <<Ctl, C>> \in held
      /\ held' = held \cup {<<Call, C>>, <<Call, Queue(c)>>}
      /\ work' = <<Drop(Ctl, C), Drop(Call, C), Drop(Call, Queue(c))>>
      /\ orderly' = (IF <<App, C>> \in held THEN orderly ELSE orderly \cup {c})
      /\ UNCHANGED <<config, pc, exists, active, made, failed, refused, lost, uaf>>
      /\ unacked' = unacked
    BY DEF CloseClient, Ready, Locals, AckFirst
<1>2. PICK w, a, b, d : w = work' /\ a = Drop(Ctl, C) /\ b = Drop(Call, C) /\ d = Drop(Call, Queue(c))
    OBVIOUS
<1>3. C \in Object /\ Queue(c) \in Object /\ {Ctl, App, Call} \subseteq Holder
    BY ObjectFacts, FreedFacts
<1>4. a \in Calls /\ b \in Calls /\ d \in Calls /\ a # b /\ a # d /\ b # d
    BY <1>2, <1>3, FreedFacts, CallFacts, ObjectFacts
<1>5. Len(w) = 3 /\ w \in Seq(Calls) /\ w[1] = a /\ w[2] = b /\ w[3] = d
    BY <1>1, <1>2, <1>4
<1>6. IsInjective(w) /\ Range(w) = {a, b, d}
  <2>1. PICK s \in Seq(Calls) : s = w
      BY <1>5
  <2>2. Len(s) = 3 /\ s[1] = a /\ s[2] = b /\ s[3] = d
      BY <1>5, <2>1
  <2>3. IsInjective(s) /\ Range(s) = {a, b, d}
      BY <1>4, <2>2, RangeFacts
  <2> QED BY <2>1, <2>3
<1>7. Precedes({a}, b, w) /\ Precedes({b}, d, w)
  <2>1. \A i \in 1..Len(w) : (w[i] = b => i = 2) /\ (w[i] = d => i = 3)
      BY <1>4, <1>5
  <2>2. 1 \in 1..(2 - 1) /\ 2 \in 1..(3 - 1)
      OBVIOUS
  <2> QED BY <1>5, <2>1, <2>2 DEF Precedes
<1>8. Todo' = {Drop(Ctl, C), Drop(Call, C), Drop(Call, Queue(c))}
    BY <1>2, <1>6 DEF Todo
<1>9. HasHolder(C) /\ c \in made /\ \A p \in Object : <<Call, p>> \notin held
  <2>1. <<Ctl, C>>[2] = C
      OBVIOUS
  <2> QED BY <1>0, <1>1, <1>3, <2>1, IdleFacts DEF HasHolder, HoldInv
<1>10. c \notin orderly /\ <<"cq", c>> \notin refused /\ <<C, Queue(c)>> \in held
    BY <1>1, <1>9, IdleFacts
<1>11. QuietCalls
  <2>1. Precedes({Drop(Ctl, Large)}, Drop(Ctl, Domain), work')
    <3>1. Drop(Ctl, Domain) \notin Range(w)
        BY <1>2, <1>6, CallFacts, ObjectFacts
    <3>2. Precedes({Drop(Ctl, Large)}, Drop(Ctl, Domain), w)
        BY <1>5, <3>1, AbsentFacts
    <3> QED BY <1>2, <3>2
  <2>2. \A p : HasHolder(p)' <=> HasHolder(p)
    <3>1. /\ <<Call, C>>[2] = C /\ <<Call, Queue(c)>>[2] = Queue(c) /\ <<Ctl, C>>[2] = C
          /\ <<C, Queue(c)>>[2] = Queue(c)
        OBVIOUS
    <3>2. HasHolder(Queue(c))
        BY <1>10, <3>1 DEF HasHolder
    <3>3. ASSUME NEW p, HasHolder(p)' PROVE HasHolder(p)
      <4>1. PICK r \in held' : r[2] = p
          BY <3>3 DEF HasHolder
      <4>2. CASE r \in held
          BY <4>1, <4>2 DEF HasHolder
      <4>3. CASE r = <<Call, C>> \/ r = <<Call, Queue(c)>>
          BY <1>9, <3>1, <3>2, <4>1, <4>3
      <4> QED BY <1>1, <4>2, <4>3
    <3>4. ASSUME NEW p, HasHolder(p) PROVE HasHolder(p)'
        BY <1>1, <3>4 DEF HasHolder
    <3> QED BY <3>3, <3>4
  <2>3. \A x \in Todo' : \E h \in {Ctl, App, Call}, o \in Object : x = Drop(h, o)
      BY <1>3, <1>8
  <2>4. work' \in Seq(Calls) /\ IsInjective(work')
      BY <1>2, <1>5, <1>6
  <2> QED BY <1>1, <2>1, <2>2, <2>3, <2>4 DEF QuietCalls
<1>12. QuietHandles
    BY <1>1 DEF QuietHandles
<1>13. QuietOrder
  <2>1. ASSUME <<App, C>> \notin held PROVE OrderlyAt(c)'
    <3>1. <<"cq", c>> \notin refused' /\ <<App, C>> \notin held'
        BY <1>1, <1>10, <2>1, ObjectFacts
    <3>2. Drop(Ctl, C) \in Todo'
        BY <1>8
    <3>3. <<Call, Queue(c)>> \in held' /\ <<Call, C>> \in held'
        BY <1>1
    <3>4. Precedes({Drop(Ctl, C)}, Drop(Call, C), work') /\ Precedes({Drop(Call, C)}, Drop(Call, Queue(c)), work')
        BY <1>2, <1>7
    <3> QED BY <3>1, <3>2, <3>3, <3>4 DEF OrderlyAt
  <2>2. \A e \in orderly' : e \in orderly \/ OrderlyAt(e)'
      BY <1>1, <2>1
  <2>3. ASSUME NEW e \in Conn, e \notin orderly', <<Call, Queue(e)>> \in held'
        PROVE  <<App, Client(e)>> \in held'
    <3>1. e = c
        BY <1>1, <1>9, <2>3, ObjectFacts
    <3> QED BY <1>1, <2>3, <3>1
  <2> QED BY <1>1, <2>2, <2>3 DEF QuietOrder
<1>14. TypeOK'
    BY <1>0, <1>1, <1>3, <1>9 DEF TypeOK
<1>15. StageInv'
    BY <1>0, <1>1 DEF StageInv, Starting
<1>16. HoldInv'
  <2>1. ASSUME NEW e \in Conn, NEW h \in Holder
        PROVE  /\ <<h, Client(e)>> \in held' => h \in {Ctl, App, Call} /\ e \in made'
               /\ <<h, Queue(e)>> \in held' => h \in {Client(e), Call}
    <3>1. <<h, Client(e)>> \in held' => <<h, Client(e)>> \in held \/ (h = Call /\ e = c)
        BY <1>1, ObjectFacts
    <3>2. <<h, Queue(e)>> \in held' => <<h, Queue(e)>> \in held \/ h = Call
        BY <1>1, ObjectFacts
    <3> QED BY <1>0, <1>1, <1>9, <3>1, <3>2 DEF HoldInv
  <2>2. \A h \in Holder : <<h, Large>> \in held' => h = Ctl
    <3>1. C # Large /\ Queue(c) # Large
        BY ObjectFacts
    <3> QED BY <1>0, <1>1, <3>1 DEF HoldInv
  <2>3. ASSUME NEW o \in Object
        PROVE  /\ <<Call, o>> \in held' => Drop(Call, o) \in Todo' /\ pc' = "running"
               /\ Drop(Ctl, o) \in Todo' => pc' = "destroying" \/ \E e \in Conn : o = Client(e)
               /\ Drop(App, o) \notin Todo'
      BY <1>1, <1>8, <1>9, CallFacts, ObjectFacts
  <2> QED BY <2>1, <2>2, <2>3 DEF HoldInv
<1> QED BY <1>11, <1>12, <1>13, <1>14, <1>15, <1>16, QuietInv DEF IInv

\* A client is made: for the request of a peer, or by this side.
NewClient(c, K, R) ==
    /\ Ready /\ NewConn(c) /\ made' = made \cup {c}
    /\ exists' = exists \cup (K \X {c}) /\ held' = held \cup R
    /\ K = {"id", "cq", "qp", "mr"} \/ K = {"evch", "id", "cq", "qp", "mr"}
    /\ active' = active \/ (active' = active \cup {c} /\ "evch" \in K)
    /\ {<<Ctl, Client(c)>>, <<Client(c), Queue(c)>>, <<Client(c), Pool>>} \subseteq R
    /\ R \subseteq {<<Ctl, Client(c)>>, <<Client(c), Queue(c)>>, <<Client(c), Pool>>,
                    <<Client(c), Domain>>, <<Client(c), Srq>>}
    /\ <<Client(c), Srq>> \in R => HasHolder(Srq)
    /\ \/ UNCHANGED <<unacked, failed>>
       \/ /\ unacked' = unacked \cup {<<"id", c>>}
          /\ failed' = failed \cup {c} /\ c \in active'
    /\ UNCHANGED <<config, pc, work, history>>

\* Both ways to get a client are such a step, ...
LEMMA NewClientFacts ==
    ASSUME NEW c \in Conn, AcceptClient(c) \/ ConnectClient(c)
    PROVE  \E K, R : NewClient(c, K, R)
<1>1. CASE AcceptClient(c)
  <2>1. PICK R : R = {<<Ctl, Client(c)>>, <<Client(c), Queue(c)>>, <<Client(c), Pool>>}
                       \cup IF HasHolder(Srq) THEN {<<Client(c), Srq>>} ELSE {}
      OBVIOUS
  <2>2. <<Client(c), Srq>> \in R => HasHolder(Srq)
      BY <2>1, ObjectFacts
  <2>3. held' = held \cup R
      BY <1>1, <2>1 DEF AcceptClient
  <2>4. NewClient(c, {"id", "cq", "qp", "mr"}, R)
      BY <1>1, <2>1, <2>2, <2>3 DEF AcceptClient, NewClient
  <2> QED BY <2>4
<1>2. CASE ConnectClient(c)
  <2>1. PICK R : R = {<<Ctl, Client(c)>>, <<Client(c), Queue(c)>>, <<Client(c), Domain>>, <<Client(c), Pool>>}
      OBVIOUS
  <2>2. <<Client(c), Srq>> \notin R
      BY <2>1, ObjectFacts
  <2>3. NewClient(c, {"evch", "id", "cq", "qp", "mr"}, R)
      BY <1>2, <2>1, <2>2 DEF ConnectClient, NewClient
  <2> QED BY <2>3
<1> QED BY <1>1, <1>2

\* ... which preserves the invariant.
LEMMA NewClientInv ==
    ASSUME IInv, NEW c \in Conn, NEW K, NEW R, NewClient(c, K, R)
    PROVE  IInv'
<1>0. /\ TypeOK /\ StageInv /\ WorkInv /\ HoldInv /\ OnceInv /\ LeftInv /\ GuardInv
      /\ ChannelInv /\ QueueInv
    BY DEF IInv
<1> DEFINE C == Client(c)
<1>1. /\ pc = "running" /\ work = <<>> /\ c \notin made /\ <<"id", c>> \notin exists
      /\ made' = made \cup {c} /\ exists' = exists \cup (K \X {c}) /\ held' = held \cup R
      /\ unacked' \subseteq unacked \cup {<<"id", c>>}
      /\ failed' = failed \/ (failed' = failed \cup {c} /\ c \in active')
      /\ UNCHANGED <<config, pc, work, orderly, refused, lost, uaf>>
    BY DEF NewClient, Ready, NewConn, history
<1>2. /\ K = {"id", "cq", "qp", "mr"} \/ K = {"evch", "id", "cq", "qp", "mr"}
      /\ active' = active \/ (active' = active \cup {c} /\ "evch" \in K)
      /\ {<<Ctl, C>>, <<C, Queue(c)>>, <<C, Pool>>} \subseteq R
      /\ R \subseteq {<<Ctl, C>>, <<C, Queue(c)>>, <<C, Pool>>, <<C, Domain>>, <<C, Srq>>}
      /\ <<C, Srq>> \in R => HasHolder(Srq)
    BY DEF NewClient
<1>3. /\ work' \in Seq(Calls) /\ IsInjective(work') /\ Todo' = {} /\ Todo = {}
      /\ \A p \in Object : <<Call, p>> \notin held
    BY <1>1, NoWork, IdleFacts
<1>4. ASSUME NEW A, NEW b PROVE Precedes(A, b, work')
    BY <1>1, NoWork
<1>5. /\ C \in Object /\ Queue(c) \in Object /\ {Domain, Pool, Srq} \subseteq Object
      /\ {Ctl, App, Call} \subseteq Holder /\ Object \subseteq Holder
    BY ObjectFacts, FreedFacts
<1>6. HasHolder(Pool) /\ HasHolder(Domain)
  <2>1. <<Ctl, Pool>>[2] = Pool /\ <<Ctl, Domain>>[2] = Domain
      OBVIOUS
  <2> QED BY <1>0, <1>1, <2>1 DEF StageInv, HasHolder
<1>7. \A p : HasHolder(p)' <=> HasHolder(p) \/ p = C \/ p = Queue(c)
  <2>1. /\ <<Ctl, C>>[2] = C /\ <<C, Queue(c)>>[2] = Queue(c) /\ <<C, Pool>>[2] = Pool
        /\ <<C, Domain>>[2] = Domain /\ <<C, Srq>>[2] = Srq
      OBVIOUS
  <2>2. ASSUME NEW p, HasHolder(p)' PROVE HasHolder(p) \/ p = C \/ p = Queue(c)
    <3>1. PICK r \in held' : r[2] = p
        BY <2>2 DEF HasHolder
    <3>2. CASE r \in held
        BY <3>1, <3>2 DEF HasHolder
    <3>3. CASE r \in R
        BY <1>2, <1>6, <2>1, <3>1, <3>3
    <3> QED BY <1>1, <3>2, <3>3
  <2>3. ASSUME NEW p, HasHolder(p) \/ p = C \/ p = Queue(c) PROVE HasHolder(p)'
    <3>1. CASE HasHolder(p)
        BY <1>1, <3>1 DEF HasHolder
    <3>2. CASE p = C \/ p = Queue(c)
        BY <1>1, <1>2, <2>1, <3>2 DEF HasHolder
    <3> QED BY <2>3, <3>1, <3>2
  <2> QED BY <2>2, <2>3
<1>8. \A x \in exists : x[2] # c
  <2> SUFFICES ASSUME NEW x \in exists, x[2] = c PROVE FALSE
      OBVIOUS
  <2>1. c # None
      BY OwnerFacts
  <2>2. x \in lost
      BY <1>0, <1>1, <2>1 DEF LeftInv
  <2>3. x[1] = "id"
      BY <1>0, <2>1, <2>2 DEF OnceInv
  <2>4. x = <<"id", c>>
      BY <1>0, <2>3 DEF TypeOK, Handle
  <2> QED BY <1>1, <2>4
<1>9. \A x \in exists' : x \in exists \/ \E k \in K : x = <<k, c>>
    BY <1>1
<1>10. K \subseteq {"evch", "id", "cq", "qp", "mr"} /\ {"id", "cq", "qp", "mr"} \subseteq K
    BY <1>2
<1>11. refused \cup lost \subseteq exists /\ exists \subseteq Handle
    BY <1>0 DEF TypeOK
<1>12. TypeOK'
  <2>1. \A k \in K : <<k, c>> \in Handle
      BY <1>10, OwnerFacts
  <2>2. exists' \subseteq Handle
      BY <1>9, <1>11, <2>1
  <2>3. held' \subseteq Holder \X Object
      BY <1>0, <1>1, <1>2, <1>5 DEF TypeOK, Holder
  <2> QED BY <1>0, <1>1, <1>2, <2>2, <2>3 DEF TypeOK, Holder
<1>13. StageInv'
    BY <1>0, <1>1 DEF StageInv, Starting
<1>14. WorkInv'
    BY <1>3 DEF WorkInv
<1>15. HoldInv'
  <2>1. ASSUME NEW e \in Conn, NEW h \in Holder
        PROVE  /\ <<h, Client(e)>> \in held' => h \in {Ctl, App, Call} /\ e \in made'
               /\ <<h, Queue(e)>> \in held' => h \in {Client(e), Call}
    <3>1. <<h, Client(e)>> \in held' => <<h, Client(e)>> \in held \/ (h = Ctl /\ e = c)
        BY <1>1, <1>2, ObjectFacts
    <3>2. <<h, Queue(e)>> \in held' => <<h, Queue(e)>> \in held \/ (h = C /\ e = c)
        BY <1>1, <1>2, ObjectFacts
    <3> QED BY <1>0, <1>1, <3>1, <3>2 DEF HoldInv
  <2>2. ASSUME NEW h \in Holder, <<h, Large>> \in held' PROVE h = Ctl
    <3>1. <<h, Large>> \notin R
        BY <1>2, ObjectFacts
    <3> QED BY <1>0, <1>1, <2>2, <3>1 DEF HoldInv
  <2>3. \A o \in Object : <<Call, o>> \notin held'
      BY <1>1, <1>2, <1>3, ObjectFacts
  <2> QED BY <1>3, <2>1, <2>2, <2>3 DEF HoldInv
<1>16. OnceInv'
  <2>1. ASSUME NEW x \in refused \cup lost PROVE ~HasHolder(Owner(x))'
    <3>1. PICK p : p = Owner(x)
        OBVIOUS
    <3>2. x \in Handle /\ x[2] # c /\ ~HasHolder(p)
        BY <1>0, <1>8, <1>11, <3>1 DEF OnceInv
    <3>3. p # C /\ p # Queue(c)
      <4>1. ASSUME p = C \/ p = Queue(c) PROVE x[2] = c
          BY <3>1, <3>2, <4>1, OwnedFacts
      <4> QED BY <3>2, <4>1
    <3>4. ~HasHolder(p)'
        BY <1>7, <3>2, <3>3
    <3> QED BY <3>1, <3>4
  <2>2. ASSUME NEW x \in lost PROVE x[2] \notin made'
      BY <1>0, <1>1, <1>8, <1>11 DEF OnceInv
  <2> QED BY <1>0, <1>1, <1>3, <2>1, <2>2 DEF OnceInv
<1>17. LeftInv'
  <2> SUFFICES ASSUME NEW x \in exists'
               PROVE  /\ x[2] = None \/ x[2] \in made' \/ x \in lost'
                      /\ \/ x \in refused' \cup lost' \cup {<<"tempmr", None>>}
                         \/ HasHolder(Owner(x))'
                         \/ x \in DeviceLists /\ pc' \in Starting \cup {"aborted"}
      BY DEF LeftInv
  <2>1. PICK p : p = Owner(x)
      OBVIOUS
  <2>2. CASE x \in exists
    <3>1. /\ x[2] = None \/ x[2] \in made \/ x \in lost
          /\ \/ x \in refused \cup lost \cup {<<"tempmr", None>>}
             \/ HasHolder(p)
             \/ x \in DeviceLists /\ pc \in Starting \cup {"aborted"}
        BY <1>0, <1>3, <2>1, <2>2 DEF LeftInv
    <3>2. HasHolder(p) => HasHolder(p)'
        BY <1>7
    <3>3. HasHolder(p) => HasHolder(Owner(x))'
        BY <2>1, <3>2
    <3> QED BY <1>1, <3>1, <3>3
  <2>3. CASE \E k \in K : x = <<k, c>>
    <3>1. p = C \/ p = Queue(c)
        BY <1>10, <2>1, <2>3, OwnerFacts
    <3>2. HasHolder(p)'
        BY <1>7, <3>1
    <3>3. HasHolder(Owner(x))'
        BY <2>1, <3>2
    <3> QED BY <1>1, <2>3, <3>3
  <2> QED BY <1>9, <2>2, <2>3
<1>18. GuardInv'
  <2>1. ASSUME NEW x, NEW k, NEW e, x = <<k, e>>, x \in exists', k \notin K \/ e # c
        PROVE  x \in exists
      BY <1>9, <2>1
  <2>2. HasHolder(Pool)' => <<"poolmr", None>> \in exists'
      BY <1>0, <1>1, <1>6 DEF GuardInv
  <2>3. HasHolder(Domain)' => <<"pd", None>> \in exists'
      BY <1>0, <1>1, <1>6 DEF GuardInv
  <2>4. ASSUME NEW e \in Conn
        PROVE  /\ Guard(<<"qp", e>>, Client(e), Pool)' /\ Guard(<<"mr", e>>, Client(e), Pool)'
               /\ <<"qp", e>> \in exists' => {<<"pd", None>>, <<"cq", e>>} \subseteq exists'
    <3>1. CASE e = c
      <4>1. <<C, Pool>> \in held'
          BY <1>1, <1>2
      <4>2. <<"pd", None>> \in exists' /\ <<"cq", c>> \in exists'
          BY <1>0, <1>1, <1>6, <1>10 DEF GuardInv
      <4> QED BY <1>4, <3>1, <4>1, <4>2 DEF Guard
    <3>2. CASE e # c
      <4>1. /\ <<"qp", e>> \in exists' => <<"qp", e>> \in exists
            /\ <<"mr", e>> \in exists' => <<"mr", e>> \in exists
          BY <2>1, <3>2
      <4>2. /\ <<"qp", e>> \in exists \/ <<"mr", e>> \in exists => <<Client(e), Pool>> \in held
            /\ <<"qp", e>> \in exists => {<<"pd", None>>, <<"cq", e>>} \subseteq exists
          BY <1>0 DEF GuardInv, Guard
      <4> QED BY <1>1, <1>4, <4>1, <4>2 DEF Guard
    <3> QED BY <3>1, <3>2
  <2>5. /\ <<"poolmr", None>> \in exists' => <<Pool, Domain>> \in held'
        /\ <<"srq", None>> \in exists' => <<Srq, Domain>> \in held'
        /\ <<"largemr", None>> \in exists' => <<Ctl, Domain>> \in held'
    <3>1. c # None
        BY OwnerFacts
    <3>2. /\ <<"poolmr", None>> \in exists' => <<"poolmr", None>> \in exists
          /\ <<"srq", None>> \in exists' => <<"srq", None>> \in exists
          /\ <<"largemr", None>> \in exists' => <<"largemr", None>> \in exists
        BY <2>1, <3>1
    <3>3. /\ <<"poolmr", None>> \in exists => <<Pool, Domain>> \in held
          /\ <<"srq", None>> \in exists => <<Srq, Domain>> \in held
          /\ <<"largemr", None>> \in exists => <<Ctl, Domain>> \in held
        BY <1>0 DEF GuardInv, Guard
    <3> QED BY <1>1, <3>2, <3>3
  <2>6. Guard(<<"poolmr", None>>, Pool, Domain)' /\ Guard(<<"srq", None>>, Srq, Domain)'
      BY <1>4, <2>5 DEF Guard
  <2>7. <<"pd", None>> \in refused' => <<"tempmr", None>> \in exists'
      BY <1>0, <1>1 DEF GuardInv
  <2>8. Precedes({Free(<<"largemr", None>>)}, Drop(Ctl, Domain), work')
      BY <1>4
  <2> QED BY <2>2, <2>3, <2>4, <2>5, <2>6, <2>7, <2>8 DEF GuardInv
<1>19. ChannelInv'
  <2>1. HasHolder(Listener)' => <<"evch", None>> \in exists'
      BY <1>0, <1>1, <1>7, ObjectFacts DEF ChannelInv
  <2>2. ASSUME NEW e \in made', <<"id", e>> \in exists' PROVE ChannelAt(e)'
    <3>1. CASE e \in active'
      <4>1. <<"evch", e>> \in exists'
        <5>1. CASE e = c
          <6>1. c \notin active
              BY <1>0, <1>1 DEF TypeOK
          <6> QED BY <1>1, <1>2, <3>1, <5>1, <6>1
        <5>2. CASE e # c
          <6>1. e \in made /\ e \in active /\ <<"id", e>> \in exists
              BY <1>1, <1>2, <1>9, <2>2, <3>1, <5>2
          <6>2. <<"evch", e>> \in exists
              BY <1>0, <6>1 DEF ChannelInv, ChannelAt
          <6> QED BY <1>1, <6>2
        <5> QED BY <5>1, <5>2
      <4>2. Precedes({Free(<<"id", e>>)}, Free(<<"evch", e>>), work')
          BY <1>4
      <4> QED BY <3>1, <4>1, <4>2 DEF ChannelAt
    <3>2. CASE e \notin active'
        BY <1>1, <3>2 DEF ChannelAt
    <3> QED BY <3>1, <3>2
  <2>3. \A e \in Conn : <<"id", e>> \notin uaf'
      BY <1>0, <1>1 DEF ChannelInv
  <2> QED BY <2>1, <2>2, <2>3 DEF ChannelInv
<1>20. QueueInv'
  <2>0. orderly \subseteq made /\ c \notin orderly
      BY <1>0, <1>1 DEF TypeOK
  <2>1. ASSUME NEW e \in orderly PROVE OrderlyAt(e)'
    <3>1. e \in Conn /\ <<"cq", e>> \notin refused /\ <<"qp", e>> \notin exists /\ ~HasHolder(Client(e))
        BY <1>1, IdleFacts
    <3>2. e # c
        BY <2>0
    <3>3. ~HasHolder(Client(e))'
        BY <1>7, <3>1, <3>2, ObjectFacts
    <3>4. \A h : <<h, Client(e)>> \notin held'
      <4>1. \A h : <<h, Client(e)>>[2] = Client(e)
          OBVIOUS
      <4> QED BY <3>3, <4>1 DEF HasHolder
    <3>5. <<"qp", e>> \notin exists'
        BY <1>9, <3>1, <3>2
    <3> QED BY <1>1, <3>1, <3>4, <3>5 DEF OrderlyAt
  <2>2. ASSUME NEW e \in made', e \notin orderly PROVE OtherwiseAt(e)'
    <3>0. e \in Conn
        BY <1>0, <1>1 DEF TypeOK
    <3>1. <<Call, Queue(e)>> \notin held'
        BY <1>1, <1>2, <1>3, <3>0, ObjectFacts
    <3>2. CASE e = c
      <4>1. <<"cq", c>> \notin refused
          BY <1>8, <1>11
      <4>2. <<"qp", c>> \in exists' /\ <<"cq", c>> \in exists'
          BY <1>1, <1>10
      <4>3. HasHolder(C)' /\ <<C, Queue(c)>> \in held'
          BY <1>1, <1>2, <1>7
      <4> QED BY <1>1, <3>1, <3>2, <4>1, <4>2, <4>3 DEF OtherwiseAt
    <3>3. CASE e # c
      <4>1. \/ <<"cq", e>> \in refused /\ ~HasHolder(Client(e))
            \/ /\ <<"cq", e>> \notin refused /\ {<<"qp", e>>, <<"cq", e>>} \subseteq exists
               /\ HasHolder(Client(e)) /\ <<Client(e), Queue(e)>> \in held
          BY <1>1, <2>2, <3>3, IdleFacts
      <4>2. HasHolder(Client(e))' <=> HasHolder(Client(e))
          BY <1>7, <3>3, ObjectFacts
      <4> QED BY <1>1, <3>1, <4>1, <4>2 DEF OtherwiseAt
    <3> QED BY <3>2, <3>3
  <2> QED BY <1>1, <2>1, <2>2 DEF QueueInv
<1> QED BY <1>12, <1>13, <1>14, <1>15, <1>16, <1>17, <1>18, <1>19, <1>20 DEF IInv

-----------------------------------------------------------------------------
(* Startup *)

StartRefs == {<<Ctl, Listener>>, <<Ctl, Domain>>, <<Ctl, Channel>>, <<Ctl, Pool>>, <<Ctl, Large>>,
              <<Pool, Domain>>, <<Listener, Srq>>, <<Srq, Domain>>}

\* A step of startup takes references R and makes handles N, each with an owner,
\* unless it fails and leaves them behind.
StartRefsTaken(R, N) ==
    /\ R \subseteq StartRefs
    /\ \A x \in N : x \in lost' \/ x \in DeviceLists \/ \E r \in R : r[2] = Owner(x)
    /\ <<Ctl, Listener>> \in R => <<"evch", None>> \in N
    /\ <<Ctl, Domain>> \in R => <<"pd", None>> \in N
    /\ <<Ctl, Pool>> \in R => <<"poolmr", None>> \in N
    /\ <<Pool, Domain>> \in R \/ <<Srq, Domain>> \in R \/ <<"largemr", None>> \in N =>
          <<Ctl, Domain>> \in held
    /\ <<"poolmr", None>> \in N => <<Pool, Domain>> \in R
    /\ <<"srq", None>> \in N => <<Srq, Domain>> \in R

StartHandlesMade(N) ==
    /\ N \subseteq Handle /\ \A x \in N : x[2] = None
    /\ N \subseteq exists' /\ exists' \subseteq exists \cup N /\ exists \subseteq exists' \cup DeviceLists
    /\ lost' \subseteq N /\ \A x \in lost' : x[1] \in {"devlist", "iflist", "evch"} /\ held' = {}
    /\ \A x \in exists' : x \in DeviceLists => x \in lost' \/ pc' \in Starting \cup {"aborted"}

StartStep(R, N) ==
    /\ pc \in Starting /\ held' = held \cup R
    /\ UNCHANGED <<config, work, active, made, unacked, failed, orderly, refused, uaf>>
    /\ StartRefsTaken(R, N) /\ StartHandlesMade(N) /\ StageInv'

\* Such a step preserves the invariant.
LEMMA StartStepInv ==
    ASSUME IInv, NEW R, NEW N, StartStep(R, N)
    PROVE  IInv'
<1>0. /\ TypeOK /\ StageInv /\ WorkInv /\ HoldInv /\ OnceInv /\ LeftInv /\ GuardInv /\ ChannelInv
    BY DEF IInv
<1>1. /\ pc \in Starting /\ held' = held \cup R /\ R \subseteq StartRefs /\ StageInv'
      /\ UNCHANGED <<config, work, active, made, unacked, failed, orderly, refused, uaf>>
    BY DEF StartStep, StartRefsTaken
<1>2. /\ N \subseteq Handle /\ \A x \in N : x[2] = None
      /\ N \subseteq exists' /\ exists' \subseteq exists \cup N /\ exists \subseteq exists' \cup DeviceLists
      /\ lost' \subseteq N /\ \A x \in lost' : x[1] \in {"devlist", "iflist", "evch"} /\ held' = {}
      /\ \A x \in exists' : x \in DeviceLists => x \in lost' \/ pc' \in Starting \cup {"aborted"}
    BY DEF StartStep, StartHandlesMade
<1>3. work = <<>> /\ made = {} /\ refused = {} /\ lost = {}
    BY <1>0, <1>1 DEF StageInv
<1>4. work' \in Seq(Calls) /\ IsInjective(work') /\ Todo' = {} /\ Todo = {}
    BY <1>1, <1>3, NoWork, IdleFacts
<1>5. ASSUME NEW A, NEW b PROVE Precedes(A, b, work')
    BY <1>1, <1>3, NoWork
<1>6. /\ {Ctl, App, Call} \subseteq Holder /\ Object \subseteq Holder
      /\ {Listener, Domain, Channel, Pool, Large, Srq} \subseteq Object
    BY ObjectFacts, FreedFacts
<1>7. ASSUME NEW p, HasHolder(p)' PROVE HasHolder(p) \/ \E h : <<h, p>> \in R
  <2>1. PICK r \in held' : r[2] = p
      BY <1>7 DEF HasHolder
  <2>2. CASE r \in held
      BY <2>1, <2>2 DEF HasHolder
  <2>3. CASE r \in R
    <3>1. PICK h, o : r = <<h, o>>
        BY <1>1, <2>3 DEF StartRefs
    <3>2. o = p
        BY <2>1, <3>1
    <3> QED BY <2>3, <3>1, <3>2
  <2> QED BY <1>1, <2>2, <2>3
<1>8. ASSUME NEW p, HasHolder(p) \/ \E r \in R : r[2] = p PROVE HasHolder(p)'
    BY <1>1, <1>8 DEF HasHolder
<1>9. \A x \in exists : x[2] = None
    BY <1>0, <1>3 DEF LeftInv
<1>10. \A c \in Conn : \A k : <<k, c>> \notin exists'
  <2>1. \A x \in exists' : x[2] = None
      BY <1>2, <1>9
  <2>2. \A k, c : <<k, c>>[2] = c
      OBVIOUS
  <2> QED BY <2>1, <2>2, OwnerFacts
<1>11. TypeOK'
  <2>1. held' \subseteq Holder \X Object
      BY <1>0, <1>1, <1>6 DEF TypeOK, Holder, StartRefs
  <2>2. exists' \subseteq Handle /\ refused' \cup lost' \subseteq exists'
      BY <1>0, <1>1, <1>2, <1>3 DEF TypeOK
  <2> QED BY <1>0, <1>1, <2>1, <2>2 DEF TypeOK, Holder
<1>12. WorkInv'
    BY <1>4 DEF WorkInv
<1>13. \A o \in Object : <<Call, o>> \notin held'
    BY <1>1, <1>3, IdleFacts, ObjectFacts DEF StartRefs
<1>14. HoldInv'
  <2>1. ASSUME NEW c \in Conn, NEW h \in Holder
        PROVE  /\ <<h, Client(c)>> \in held' => h \in {Ctl, App, Call} /\ c \in made'
               /\ <<h, Queue(c)>> \in held' => h \in {Client(c), Call}
    <3>1. <<h, Client(c)>> \notin R /\ <<h, Queue(c)>> \notin R
        BY <1>1, ObjectFacts DEF StartRefs
    <3> QED BY <1>0, <1>1, <3>1 DEF HoldInv
  <2>2. ASSUME NEW h \in Holder, <<h, Large>> \in held' PROVE h = Ctl
    <3>1. <<h, Large>> \in R => h = Ctl
        BY <1>1, ObjectFacts DEF StartRefs
    <3> QED BY <1>0, <1>1, <2>2, <3>1 DEF HoldInv
  <2> QED BY <1>4, <1>13, <2>1, <2>2 DEF HoldInv
<1>15. OnceInv'
  <2>1. ASSUME NEW x \in lost' PROVE ~HasHolder(Owner(x))'
    <3>1. held' = {}
        BY <1>2
    <3> QED BY <3>1 DEF HasHolder
  <2>2. \A x \in lost' : /\ x[1] \in {"devlist", "iflist", "evch", "id"} /\ x[2] \notin made'
                         /\ x[1] # "id" => x[2] = None
      BY <1>1, <1>2, <1>3
  <2> QED BY <1>1, <1>3, <1>4, <2>1, <2>2 DEF OnceInv
<1>16. LeftInv'
  <2> SUFFICES ASSUME NEW x \in exists'
               PROVE  /\ x[2] = None
                      /\ \/ x \in refused' \cup lost' \cup {<<"tempmr", None>>}
                         \/ HasHolder(Owner(x))'
                         \/ x \in DeviceLists /\ pc' \in Starting \cup {"aborted"}
      BY DEF LeftInv
  <2>1. PICK p : p = Owner(x)
      OBVIOUS
  <2>2. x[2] = None
      BY <1>2, <1>9
  <2>3. CASE x \in DeviceLists
      BY <1>2, <2>2, <2>3
  <2>4. CASE x \notin DeviceLists /\ x \in exists
    <3>1. x = <<"tempmr", None>> \/ HasHolder(p)
        BY <1>0, <1>3, <1>4, <2>1, <2>4 DEF LeftInv
    <3>2. HasHolder(p) => HasHolder(p)'
        BY <1>8
    <3>3. HasHolder(p) => HasHolder(Owner(x))'
        BY <2>1, <3>2
    <3> QED BY <2>2, <3>1, <3>3
  <2>5. CASE x \notin DeviceLists /\ x \in N /\ x \notin lost'
    <3>1. \E r \in R : r[2] = p
        BY <2>1, <2>5 DEF StartStep, StartRefsTaken
    <3>2. HasHolder(p)'
        BY <1>8, <3>1
    <3>3. HasHolder(Owner(x))'
        BY <2>1, <3>2
    <3> QED BY <2>2, <3>3
  <2> QED BY <1>2, <2>2, <2>3, <2>4, <2>5
<1>17. \A x \in exists : x \in exists' \/ x \in DeviceLists
    BY <1>2
<1>18. /\ <<"poolmr", None>> \notin DeviceLists /\ <<"pd", None>> \notin DeviceLists
       /\ <<"evch", None>> \notin DeviceLists
    BY DEF DeviceLists
<1>19. GuardInv'
  <2>1. HasHolder(Pool)' => <<"poolmr", None>> \in exists'
    <3>1. \A h : <<h, Pool>> \in R => <<"poolmr", None>> \in N
      <4>1. \A h : <<h, Pool>> \in R => h = Ctl
          BY <1>1, ObjectFacts DEF StartRefs
      <4> QED BY <4>1 DEF StartStep, StartRefsTaken
    <3> QED BY <1>0, <1>2, <1>7, <1>17, <1>18, <3>1 DEF GuardInv
  <2>2. HasHolder(Domain)' => <<"pd", None>> \in exists'
    <3>1. ASSUME NEW h, <<h, Domain>> \in R PROVE <<"pd", None>> \in N \/ HasHolder(Domain)
      <4>1. h \in {Ctl, Pool, Srq}
          BY <1>1, <3>1, ObjectFacts DEF StartRefs
      <4>2. <<Ctl, Domain>>[2] = Domain
          OBVIOUS
      <4>3. <<Ctl, Domain>> \in held => HasHolder(Domain)
          BY <4>2 DEF HasHolder
      <4> QED BY <3>1, <4>1, <4>3 DEF StartStep, StartRefsTaken
    <3> QED BY <1>0, <1>2, <1>7, <1>17, <1>18, <3>1 DEF GuardInv
  <2>3. \A c \in Conn : /\ Guard(<<"qp", c>>, Client(c), Pool)'
                        /\ Guard(<<"mr", c>>, Client(c), Pool)'
                        /\ <<"qp", c>> \notin exists'
      BY <1>10 DEF Guard
  <2>4. /\ <<"poolmr", None>> \in exists' => <<Pool, Domain>> \in held'
        /\ <<"srq", None>> \in exists' => <<Srq, Domain>> \in held'
        /\ <<"largemr", None>> \in exists' => <<Ctl, Domain>> \in held'
    <3>1. /\ <<"poolmr", None>> \in exists => <<Pool, Domain>> \in held
          /\ <<"srq", None>> \in exists => <<Srq, Domain>> \in held
          /\ <<"largemr", None>> \in exists => <<Ctl, Domain>> \in held
        BY <1>0 DEF GuardInv, Guard
    <3>2. /\ <<"poolmr", None>> \in N => <<Pool, Domain>> \in R
          /\ <<"srq", None>> \in N => <<Srq, Domain>> \in R
          /\ <<"largemr", None>> \in N => <<Ctl, Domain>> \in held
        BY DEF StartStep, StartRefsTaken
    <3> QED BY <1>1, <1>2, <3>1, <3>2
  <2>5. Guard(<<"poolmr", None>>, Pool, Domain)' /\ Guard(<<"srq", None>>, Srq, Domain)'
      BY <1>5, <2>4 DEF Guard
  <2>6. Precedes({Free(<<"largemr", None>>)}, Drop(Ctl, Domain), work')
      BY <1>5
  <2> QED BY <1>1, <1>3, <2>1, <2>2, <2>3, <2>4, <2>5, <2>6 DEF GuardInv
<1>20. ChannelInv'
  <2>1. HasHolder(Listener)' => <<"evch", None>> \in exists'
    <3>1. \A h : <<h, Listener>> \in R => <<"evch", None>> \in N
      <4>1. \A h : <<h, Listener>> \in R => h = Ctl
          BY <1>1, ObjectFacts DEF StartRefs
      <4> QED BY <4>1 DEF StartStep, StartRefsTaken
    <3> QED BY <1>0, <1>2, <1>7, <1>17, <1>18, <3>1 DEF ChannelInv
  <2>2. \A c \in Conn : <<"id", c>> \notin uaf'
      BY <1>0, <1>1 DEF ChannelInv, Starting
  <2> QED BY <1>1, <1>3, <2>1, <2>2 DEF ChannelInv
<1>21. QueueInv'
    BY <1>1, <1>3 DEF QueueInv
<1> QED BY <1>1, <1>11, <1>12, <1>14, <1>15, <1>16, <1>19, <1>20, <1>21 DEF IInv

\* Every action of startup is such a step: one that goes on or, on success, ends, ...
LEMMA ProgressInv ==
    ASSUME IInv, OpenDevice \/ CreateListener \/ AllocateDomain \/ CreateChannel \/ CreatePool
                    \/ CreateSrq \/ Listen \/ AllocateLarge
    PROVE  IInv'
<1>0. StageInv /\ LeftInv
    BY DEF IInv
<1> DEFINE Went(from, to, R, N) ==
               /\ pc = from /\ pc' = to /\ held' = held \cup R
               /\ exists' = (IF to = "running" THEN exists \ DeviceLists ELSE exists) \cup N
               /\ UNCHANGED <<config, work, active, made, unacked, failed, orderly, refused, lost, uaf>>
<1>1. ASSUME NEW from \in Starting, NEW to \in (Starting \cup {"running"}), NEW R, NEW N,
             Went(from, to, R, N), StartRefsTaken(R, N), N \subseteq Handle, \A x \in N : x[2] = None,
             \A x \in N : x \in DeviceLists => to # "running",
             to # "device", to = "listener" => R = {} /\ from = "device",
             <<Ctl, Listener>> \in held \cup R \/ to = "listener",
             <<Ctl, Domain>> \in held \cup R \/ to \in {"listener", "domain"},
             <<Ctl, Pool>> \in held \cup R \/ to \in {"listener", "domain", "channel", "pool"}
      PROVE  IInv'
  <2>1. work = <<>> /\ made = {} /\ refused = {} /\ lost = {}
      BY <1>0, <1>1 DEF StageInv
  <2>2. StageInv'
      BY <1>0, <1>1, <2>1 DEF StageInv, Starting
  <2>3. StartHandlesMade(N)
      BY <1>1, <2>1 DEF StartHandlesMade, Starting
  <2>4. StartStep(R, N)
      BY <1>1, <2>2, <2>3 DEF StartStep
  <2> QED BY <2>4, StartStepInv
<1>2. /\ \A k \in {"devlist", "iflist", "id", "evch", "pd", "compch", "poolmr", "largemr", "srq"} :
            <<k, None>> \in Handle /\ <<k, None>>[2] = None
      /\ Owner(<<"id", None>>) = Listener /\ Owner(<<"evch", None>>) = Listener
      /\ Owner(<<"pd", None>>) = Domain /\ Owner(<<"compch", None>>) = Channel
      /\ Owner(<<"poolmr", None>>) = Pool /\ Owner(<<"largemr", None>>) = Large
      /\ Owner(<<"srq", None>>) = Srq
    BY OwnerFacts
<1>3. \A h, o : <<h, o>>[2] = o
    OBVIOUS
<1>4. \A k \in {"id", "evch", "pd", "compch", "poolmr", "largemr", "srq"} : <<k, None>> \notin DeviceLists
    BY DEF DeviceLists
<1>5. CASE OpenDevice
  <2>1. PICK N : N = {<<"devlist", None>>} \cup IF config.interface THEN {<<"iflist", None>>} ELSE {}
      OBVIOUS
  <2>2. Went("device", "listener", {}, N)
      BY <1>5, <2>1 DEF OpenDevice, Progress, Goto, connVars, history
  <2>3. N \subseteq DeviceLists /\ \A x \in N : x = <<"devlist", None>> \/ x = <<"iflist", None>>
      BY <2>1 DEF DeviceLists
  <2>4. StartRefsTaken({}, N)
      BY <1>4, <2>3 DEF StartRefsTaken
  <2>5. N \subseteq Handle /\ \A x \in N : x[2] = None
      BY <1>2, <2>3
  <2> HIDE DEF Went
  <2> QED BY <1>1, <2>2, <2>4, <2>5 DEF Starting
<1>6. CASE CreateListener
  <2>1. PICK R, N : R = {<<Ctl, Listener>>} /\ N = {<<"evch", None>>, <<"id", None>>}
      OBVIOUS
  <2>2. Went("listener", "domain", R, N)
      BY <1>6, <2>1 DEF CreateListener, Progress, Goto, connVars, history
  <2>3. StartRefsTaken(R, N)
    <3>1. \A x \in N : \E r \in R : r[2] = Owner(x)
        BY <1>2, <1>3, <2>1
    <3> QED BY <2>1, <3>1, ObjectFacts DEF StartRefsTaken, StartRefs
  <2>4. N \subseteq Handle /\ \A x \in N : x[2] = None /\ x \notin DeviceLists
      BY <1>2, <1>4, <2>1
  <2> HIDE DEF Went
  <2> QED BY <1>1, <2>1, <2>2, <2>3, <2>4 DEF Starting
<1>7. CASE AllocateDomain
  <2>1. PICK R, N : R = {<<Ctl, Domain>>} /\ N = {<<"pd", None>>}
      OBVIOUS
  <2>2. Went("domain", "channel", R, N)
      BY <1>7, <2>1 DEF AllocateDomain, Progress, Goto, connVars, history
  <2>3. StartRefsTaken(R, N)
    <3>1. \A x \in N : \E r \in R : r[2] = Owner(x)
        BY <1>2, <1>3, <2>1
    <3> QED BY <2>1, <3>1, ObjectFacts DEF StartRefsTaken, StartRefs
  <2>4. N \subseteq Handle /\ \A x \in N : x[2] = None /\ x \notin DeviceLists
      BY <1>2, <1>4, <2>1
  <2>5. <<Ctl, Listener>> \in held
      BY <1>0, <2>2 DEF StageInv
  <2> HIDE DEF Went
  <2> QED BY <1>1, <2>1, <2>2, <2>3, <2>4, <2>5 DEF Starting
<1>8. CASE CreateChannel
  <2>1. PICK R, N : R = {<<Ctl, Channel>>} /\ N = {<<"compch", None>>}
      OBVIOUS
  <2>2. Went("channel", "pool", R, N)
      BY <1>8, <2>1 DEF CreateChannel, Progress, Goto, connVars, history
  <2>3. StartRefsTaken(R, N)
    <3>1. \A x \in N : \E r \in R : r[2] = Owner(x)
        BY <1>2, <1>3, <2>1
    <3> QED BY <2>1, <3>1, ObjectFacts DEF StartRefsTaken, StartRefs
  <2>4. N \subseteq Handle /\ \A x \in N : x[2] = None /\ x \notin DeviceLists
      BY <1>2, <1>4, <2>1
  <2>5. <<Ctl, Listener>> \in held /\ <<Ctl, Domain>> \in held
      BY <1>0, <2>2 DEF StageInv
  <2> HIDE DEF Went
  <2> QED BY <1>1, <2>1, <2>2, <2>3, <2>4, <2>5 DEF Starting
<1>9. CASE CreatePool
  <2>1. PICK R, N, to : /\ R = {<<Ctl, Pool>>, <<Pool, Domain>>} /\ N = {<<"poolmr", None>>}
                        /\ to = IF config.srq THEN "srq" ELSE "listen"
      OBVIOUS
  <2>2. Went("pool", to, R, N)
      BY <1>9, <2>1 DEF CreatePool, Progress, Goto, connVars, history
  <2>3. <<Ctl, Listener>> \in held /\ <<Ctl, Domain>> \in held
      BY <1>0, <2>2 DEF StageInv
  <2>4. StartRefsTaken(R, N)
    <3>1. \A x \in N : \E r \in R : r[2] = Owner(x)
        BY <1>2, <1>3, <2>1
    <3> QED BY <2>1, <2>3, <3>1, ObjectFacts DEF StartRefsTaken, StartRefs
  <2>5. N \subseteq Handle /\ \A x \in N : x[2] = None /\ x \notin DeviceLists
      BY <1>2, <1>4, <2>1
  <2>6. to \in {"srq", "listen"}
      BY <2>1
  <2> HIDE DEF Went
  <2> QED BY <1>1, <2>1, <2>2, <2>3, <2>4, <2>5, <2>6 DEF Starting
<1>10. CASE CreateSrq
  <2>1. PICK R, N : /\ Went("srq", "listen", R, N)
                    /\ \/ R = {<<Listener, Srq>>, <<Srq, Domain>>} /\ N = {<<"srq", None>>}
                       \/ R = {} /\ N = {}
      BY <1>10 DEF CreateSrq, Progress, Goto, connVars, history
  <2>2. <<Ctl, Listener>> \in held /\ <<Ctl, Domain>> \in held /\ <<Ctl, Pool>> \in held
      BY <1>0, <2>1 DEF StageInv
  <2>3. StartRefsTaken(R, N)
    <3>1. \A x \in N : \E r \in R : r[2] = Owner(x)
        BY <1>2, <1>3, <2>1
    <3> QED BY <2>1, <2>2, <3>1, ObjectFacts DEF StartRefsTaken, StartRefs
  <2>4. N \subseteq Handle /\ \A x \in N : x[2] = None /\ x \notin DeviceLists
      BY <1>2, <1>4, <2>1
  <2> HIDE DEF Went
  <2> QED BY <1>1, <2>1, <2>2, <2>3, <2>4 DEF Starting
<1>11. CASE Listen
  <2>1. Went("listen", "large", {}, {})
      BY <1>11 DEF Listen, Progress, Goto, connVars, history
  <2>2. <<Ctl, Listener>> \in held /\ <<Ctl, Domain>> \in held /\ <<Ctl, Pool>> \in held
      BY <1>0, <2>1 DEF StageInv
  <2>3. StartRefsTaken({}, {})
      BY DEF StartRefsTaken
  <2>4. {} \subseteq Handle /\ \A x \in {} : x[2] = None /\ x \notin DeviceLists
      OBVIOUS
  <2>5. {"listen", "large"} \subseteq Starting
      BY DEF Starting
  <2> HIDE DEF Went
  <2> QED BY <1>1, <2>1, <2>2, <2>3, <2>4, <2>5
<1>12. CASE AllocateLarge
  <2>1. PICK R, N : R = {<<Ctl, Large>>} /\ N = {<<"largemr", None>>}
      OBVIOUS
  <2>2. Went("large", "running", R, N)
      BY <1>12, <2>1 DEF AllocateLarge, Goto, connVars, history
  <2>3. <<Ctl, Listener>> \in held /\ <<Ctl, Domain>> \in held /\ <<Ctl, Pool>> \in held
      BY <1>0, <2>2 DEF StageInv
  <2>4. StartRefsTaken(R, N)
    <3>1. \A x \in N : \E r \in R : r[2] = Owner(x)
        BY <1>2, <1>3, <2>1
    <3> QED BY <2>1, <2>3, <3>1, ObjectFacts DEF StartRefsTaken, StartRefs
  <2>5. N \subseteq Handle /\ \A x \in N : x[2] = None /\ x \notin DeviceLists
      BY <1>2, <1>4, <2>1
  <2> HIDE DEF Went
  <2> QED BY <1>1, <2>1, <2>2, <2>3, <2>4, <2>5 DEF Starting
<1> QED BY <1>5, <1>6, <1>7, <1>8, <1>9, <1>10, <1>11, <1>12

\* ... and one that fails.
LEMMA StartFailsInv ==
    ASSUME IInv, OpenDeviceFails \/ CreateListenerFails \/ BindAborts \/ CreatePoolCrashes
                    \/ \E s \in {"domain", "channel", "listen", "large"} : ReturnError(s)
    PROVE  IInv'
<1>0. StageInv
    BY DEF IInv
<1>1. PICK N :
         /\ pc \in Starting /\ pc' \in {"failed", "aborted"}
         /\ exists' = (IF pc' = "failed" THEN exists \ DeviceLists ELSE exists) \cup N
         /\ lost' = lost \cup N
         /\ N \subseteq DeviceLists \cup {<<"evch", None>>}
         /\ N # {} => pc \in {"device", "listener"} /\ pc' = "failed"
         /\ UNCHANGED <<config, held, work, active, made, unacked, failed, orderly, refused, uaf>>
  <2>1. CASE OpenDeviceFails
    <3>1. PICK N : exists' = N /\ lost' = N /\ N \subseteq DeviceLists
        BY <2>1 DEF OpenDeviceFails, DeviceLists
    <3>2. /\ pc = "device" /\ pc' = "failed"
          /\ UNCHANGED <<config, held, work, active, made, unacked, failed, orderly, refused, uaf>>
        BY <2>1 DEF OpenDeviceFails, Goto, connVars
    <3>3. exists = {} /\ lost = {} /\ pc \in Starting
        BY <1>0, <3>2 DEF StageInv, Starting
    <3> QED BY <3>1, <3>2, <3>3
  <2>2. CASE CreateListenerFails
    <3>1. PICK N : exists' = (exists \ DeviceLists) \cup N /\ lost' = N /\ N \subseteq {<<"evch", None>>}
        BY <2>2 DEF CreateListenerFails
    <3>2. /\ pc = "listener" /\ pc' = "failed"
          /\ UNCHANGED <<config, held, work, active, made, unacked, failed, orderly, refused, uaf>>
        BY <2>2 DEF CreateListenerFails, Goto, connVars
    <3>3. lost = {} /\ pc \in Starting
        BY <1>0, <3>2 DEF StageInv, Starting
    <3> QED BY <3>1, <3>2, <3>3
  <2>3. CASE BindAborts \/ CreatePoolCrashes
    <3>1. /\ pc \in Starting /\ pc' = "aborted" /\ exists' = exists \cup {} /\ lost' = lost \cup {}
          /\ UNCHANGED <<config, held, work, active, made, unacked, failed, orderly, refused, uaf>>
        BY <2>3 DEF BindAborts, CreatePoolCrashes, Goto, connVars, history, Starting
    <3> QED BY <3>1
  <2>4. CASE \E s \in {"domain", "channel", "listen", "large"} : ReturnError(s)
    <3>1. /\ pc \in Starting /\ pc' = "failed" /\ exists' = (exists \ DeviceLists) \cup {}
          /\ lost' = lost \cup {}
          /\ UNCHANGED <<config, held, work, active, made, unacked, failed, orderly, refused, uaf>>
        BY <2>4 DEF ReturnError, Goto, connVars, history, Starting
    <3> QED BY <3>1
  <2> QED BY <2>1, <2>2, <2>3, <2>4
<1>2. work = <<>> /\ made = {} /\ refused = {} /\ lost = {} /\ (N # {} => held = {})
    BY <1>0, <1>1 DEF StageInv
<1>3. StageInv'
    BY <1>0, <1>1, <1>2 DEF StageInv, Starting
<1>4. \A x \in N : x = <<"devlist", None>> \/ x = <<"iflist", None>> \/ x = <<"evch", None>>
    BY <1>1 DEF DeviceLists
<1>5. StartRefsTaken({}, N)
  <2>1. <<"largemr", None>> \notin N /\ <<"poolmr", None>> \notin N /\ <<"srq", None>> \notin N
      BY <1>4
  <2> QED BY <1>1, <2>1 DEF StartRefsTaken
<1>6. StartHandlesMade(N)
  <2>1. N \subseteq Handle /\ \A x \in N : x[2] = None /\ x[1] \in {"devlist", "iflist", "evch"}
      BY <1>4, OwnerFacts
  <2>2. \A x \in lost' : held' = {}
      BY <1>1, <1>2
  <2>3. \A x \in exists' : x \in DeviceLists => x \in lost' \/ pc' = "aborted"
      BY <1>1
  <2> QED BY <1>1, <1>2, <2>1, <2>2, <2>3 DEF StartHandlesMade
<1>7. StartStep({}, N)
    BY <1>1, <1>3, <1>5, <1>6 DEF StartStep
<1> QED BY <1>7, StartStepInv

-----------------------------------------------------------------------------
(* The theorems *)

\* Before startup there is nothing.
LEMMA InitInv == Init => IInv
<1> SUFFICES ASSUME Init PROVE IInv
    OBVIOUS
<1>1. /\ config \in [srq : BOOLEAN, interface : BOOLEAN] /\ pc = "device"
      /\ held = {} /\ exists = {} /\ work = <<>> /\ active = {} /\ made = {} /\ unacked = {}
      /\ failed = {} /\ orderly = {} /\ refused = {} /\ lost = {} /\ uaf = {}
    BY DEF Init
<1>2. \A o : ~HasHolder(o)
    BY <1>1 DEF HasHolder
<1>3. work \in Seq(Calls) /\ IsInjective(work) /\ Todo = {}
    BY <1>1, EmptyFacts DEF Todo
<1>4. TypeOK /\ StageInv
    BY <1>1 DEF TypeOK, StageInv, Starting
<1>5. WorkInv /\ HoldInv
    BY <1>1, <1>3 DEF WorkInv, HoldInv
<1>6. OnceInv /\ LeftInv /\ QueueInv
    BY <1>1 DEF OnceInv, LeftInv, QueueInv
<1>7. GuardInv /\ ChannelInv
    BY <1>1, <1>2 DEF GuardInv, Guard, ChannelInv
<1> QED BY <1>4, <1>5, <1>6, <1>7 DEF IInv

\* The calls of destructors preserve the invariant.
LEMMA TeardownInv ==
    ASSUME IInv, DropStep \/ FreeStep
    PROVE  IInv'
<1>0. TypeOK /\ WorkInv
    BY DEF IInv
<1>1. CASE DropStep
  <2>1. PICK h, o : Head(work) = Drop(h, o) /\ (DropSome(h, o) \/ DropLast(h, o))
      BY <1>0, <1>1, DropFacts
  <2> QED BY <2>1, DropBasic, DropLeft, DropGuard, DropChannel, DropQueue DEF IInv
<1>2. CASE FreeStep
  <2>1. PICK x : Head(work) = Free(x) /\ FreeHandle(x)
      BY <1>0, <1>2, FreeFacts
  <2> QED BY <1>2, <2>1, FreeBasic, FreeGuard, FreeChannel, FreeQueue DEF IInv
<1> QED BY <1>1, <1>2

\* Nothing happens.
LEMMA StutterInv ==
    ASSUME IInv, UNCHANGED vars
    PROVE  IInv'
<1>1. UNCHANGED <<config, pc, held, exists, work, active, made, unacked, failed, orderly, refused, lost, uaf>>
    BY DEF vars
<1>2. (\A o : HasHolder(o)' <=> HasHolder(o)) /\ Todo' = Todo
    BY <1>1 DEF HasHolder, Todo
<1>3. /\ TypeOK /\ StageInv /\ WorkInv /\ HoldInv /\ OnceInv /\ LeftInv /\ GuardInv
      /\ ChannelInv /\ QueueInv
    BY DEF IInv
<1>4. TypeOK' /\ StageInv'
    BY <1>1, <1>3 DEF TypeOK, StageInv
<1>5. WorkInv' /\ HoldInv'
    BY <1>1, <1>2, <1>3 DEF WorkInv, HoldInv
<1>6. OnceInv' /\ LeftInv'
    BY <1>1, <1>2, <1>3 DEF OnceInv, LeftInv
<1>7. GuardInv'
    BY <1>1, <1>2, <1>3 DEF GuardInv, Guard
<1>8. ChannelInv'
    BY <1>1, <1>2, <1>3 DEF ChannelInv, ChannelAt
<1>9. QueueInv'
    BY <1>1, <1>2, <1>3 DEF QueueInv, OrderlyAt, OtherwiseAt
<1> QED BY <1>4, <1>5, <1>6, <1>7, <1>8, <1>9 DEF IInv

\* Every step preserves the invariant.
LEMMA StepInv == IInv /\ [Next]_vars => IInv'
<1> SUFFICES ASSUME IInv, [Next]_vars PROVE IInv'
    OBVIOUS
<1>1. CASE Startup
    BY <1>1, ProgressInv, StartFailsInv DEF Startup
<1>2. ASSUME NEW c \in Conn, AcceptClient(c) \/ ConnectClient(c) PROVE IInv'
  <2>1. PICK K, R : NewClient(c, K, R)
      BY <1>2, NewClientFacts
  <2> QED BY <2>1, NewClientInv
<1>3. ASSUME NEW c \in Conn, AcceptClientFails(c) \/ CloseClient(c) PROVE IInv'
    BY <1>3, AcceptClientFailsInv, CloseClientInv
<1>4. ASSUME NEW c \in Conn, Keep(Client(c)) \/ LetGo(Client(c)) PROVE IInv'
  <2>1. PICK o \in Object : o = Client(c)
      BY ObjectFacts
  <2> QED BY <1>4, <2>1, KeepInv, LetGoInv
<1>5. ASSUME NEW o \in {Listener, Domain, Channel, Pool}, Keep(o) \/ LetGo(o) PROVE IInv'
  <2>1. o \in Object
      BY ObjectFacts
  <2> QED BY <1>5, <2>1, KeepInv, LetGoInv
<1>6. CASE TakeTemporary \/ ReturnTemporary \/ ControllerGone \/ ConnectClientCrashes
    BY <1>6, QuietStepInv
<1>7. CASE DestroyController
    BY <1>7, DestroyControllerInv
<1>8. CASE DropStep \/ FreeStep
    BY <1>8, TeardownInv
<1>9. CASE UNCHANGED vars
    BY <1>9, StutterInv
<1> QED BY <1>1, <1>2, <1>3, <1>4, <1>5, <1>6, <1>7, <1>8, <1>9 DEF Next

\* IInv is invariant: through startup, the life of any number of clients and
\* every interleaving of destructors, every call still to be made is made once,
\* and what a handle was made from outlives it.
THEOREM Invariance == Spec => []IInv
<1>1. Init => IInv
    BY InitInv
<1>2. IInv /\ [Next]_vars => IInv'
    BY StepInv
<1> QED BY <1>1, <1>2, PTL DEF Spec

\* The state has its types, and what verbs refused or an exception left behind
\* is still there.
THEOREM TypeCorrect == Spec => []TypeOK
<1>1. IInv => TypeOK
    BY DEF IInv
<1> QED BY <1>1, Invariance, PTL

\* As long as a queue pair exists, so do the pool's memory, the protection
\* domain and its completion queue; the domain is in use at its end only because
\* of a temporary region.  The client holds the pool, and the pool the domain,
\* until after the call that destroys the queue pair.
THEOREM TeardownCorrect == Spec => []TeardownOrder
<1>1. IInv => TeardownOrder
  <2> SUFFICES ASSUME IInv PROVE TeardownOrder
      OBVIOUS
  <2>0. TypeOK /\ GuardInv
      BY DEF IInv
  <2>1. ASSUME NEW c \in Conn, <<"qp", c>> \in exists
        PROVE  {<<"poolmr", None>>, <<"pd", None>>, <<"cq", c>>} \subseteq exists
    <3>1. <<Client(c), Pool>> \in held /\ {<<"pd", None>>, <<"cq", c>>} \subseteq exists
        BY <2>0, <2>1 DEF GuardInv, Guard
    <3>2. <<Client(c), Pool>>[2] = Pool
        OBVIOUS
    <3>3. HasHolder(Pool)
        BY <3>1, <3>2 DEF HasHolder
    <3> QED BY <2>0, <3>1, <3>3 DEF GuardInv
  <2> QED BY <2>0, <2>1 DEF TeardownOrder, GuardInv
<1> QED BY <1>1, Invariance, PTL

\* Once a connection's client is destroyed, verbs has refused to destroy its
\* completion queue exactly when no call closed the connection while nobody else
\* held the client.
THEOREM QueueCorrect == Spec => []QueueLostUnlessClosed
<1>1. IInv => QueueLostUnlessClosed
  <2> SUFFICES ASSUME IInv, NEW c \in made, work = <<>>, ~HasHolder(Client(c))
               PROVE  <<"cq", c>> \in refused <=> c \notin orderly
      BY DEF QueueLostUnlessClosed
  <2>1. CASE c \in orderly
      BY <2>1, IdleFacts
  <2>2. CASE c \notin orderly
      BY <2>2, IdleFacts
  <2> QED BY <2>1, <2>2
<1> QED BY <1>1, Invariance, PTL

\* When the controller and all references are gone, nothing is left but what
\* verbs refused, what an exception left behind, and a temporary region.
THEOREM LeftCorrect == Spec => []NothingLeft
<1>1. IInv => NothingLeft
  <2> SUFFICES ASSUME IInv, pc = "gone", work = <<>>, held = {}, NEW x \in exists
               PROVE  x \in refused \cup lost \cup {<<"tempmr", None>>}
      BY DEF NothingLeft
  <2>1. Todo = {} /\ \A o : ~HasHolder(o)
      BY IdleFacts DEF HasHolder
  <2>2. LeftInv /\ pc \notin Starting \cup {"aborted"}
      BY DEF IInv, Starting
  <2> QED BY <2>1, <2>2 DEF LeftInv
<1> QED BY <1>1, Invariance, PTL

\* The destructor of the controller never destroys an id after the event channel
\* it is on, and an id that this side made is never destroyed after its channel.
THEOREM ChannelCorrect == Spec => []ChannelOutlivesIds
<1>1. IInv => ChannelOutlivesIds
    BY DEF IInv, ChannelInv, ChannelOutlivesIds
<1> QED BY <1>1, Invariance, PTL
=============================================================================
