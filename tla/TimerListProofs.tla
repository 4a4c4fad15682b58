-------------------------- MODULE TimerListProofs ----------------------------
(***************************************************************************)
(* The linked list of second timers (src/linuxdep/TimerList.cpp) through   *)
(* any interleaving of the statements of Add and Remove, on the threads of *)
(* the channels and in callbacks, with those of the SIGALRM handler, for   *)
(* any number of timers and any times: an operation whose list nobody else *)
(* has written to in between comes to the right place, and as long as all  *)
(* do, the list holds the timers that are on, in their order.              *)
(***************************************************************************)
EXTENDS TimerList, FiniteSetTheorems, SequenceTheorems, WellFoundedInduction, TLAPS

Lists == [list : Slots \cup {None}, link : [Slots -> Slots \cup {None}]]

Places == UNION {[1 .. n -> Slots] : n \in 0 .. N}

-----------------------------------------------------------------------------
(* The inductive invariant                                                 *)

(* The types of the variables.                                             *)
Ops == [at : {"none", "seek", "unlink", "add", "place", "link"},
        then : {"none", "off", "on"}, tmp1 : Slots \cup {None},
        tmp2 : Slots \cup {None}, next : Slots \cup {None}]

Walkings == [at : {"idle", "turn", "unlink", "call", "back"}, tmp1 : Slots \cup {None},
           tmp2 : Slots \cup {None}, tmp3 : Slots \cup {None}, meets : Nat]

TimerTyped ==
  /\ timers \in Lists
  /\ target \in [Slots -> 0 .. MaxSecs]
  /\ slot \in [Slots -> {"none", "off", "on"}]
  /\ op \in [Slots -> Ops] /\ walk \in Walkings
  /\ astray \in {"no", "met"}

(* The links are a chain of slots, none twice, by their targets t.         *)
Chained(l, t, c) ==
  /\ c \in Places /\ Linked(l, c)
  /\ \A i, j \in DOMAIN c : i < j => c[i] # c[j] /\ t[c[i]] <= t[c[j]]

Ordered(l, t) == \E c \in Places : Chained(l, t, c)

(* A list of slots with the targets t, in their order.                     *)
Good(l, t) == l \in Lists /\ t \in [Slots -> Nat] /\ Ordered(l, t)

(* s2 is a slot of the list or before its head, s1 comes behind it.        *)
Pair(l, s2, s1) == (s2 = None \/ s2 \in Listed(l)) /\ Behind(l, s2) = s1

(* A slot that is in the list comes only behind s2.                        *)
NotPassed(l, s, s2) ==
  \A i, j \in DOMAIN Order(l) : Order(l)[i] = s /\ Order(l)[j] = s2 => j < i

(* As MayUnlink and MayLink.                                               *)
Unlinks(l, s1, s2, next) == s1 # None /\ Pair(l, s2, s1) /\ l.link[s1] = next

Joins(l, t, s, s2) ==
  /\ Pair(l, s2, l.link[s]) /\ s \notin Listed(l)
  /\ s2 # None => t[s2] <= t[s]
  /\ l.link[s] # None => t[s] <= t[l.link[s]]

(* The operation o on s, if nobody has written in between.                 *)
OpFits(s, o, l, t) ==
  /\ o.at = "seek" => Pair(l, o.tmp2, o.tmp1) /\ NotPassed(l, s, o.tmp2)
  /\ o.at = "unlink" => Unlinks(l, s, o.tmp2, o.next)
  /\ o.at = "place" =>
       Pair(l, o.tmp2, o.tmp1) /\ (o.tmp2 # None => t[o.tmp2] <= t[s])
  /\ o.at = "link" => Joins(l, t, s, o.tmp2)

(* The handler has not left a due timer behind it.                         *)
NextFits(l, t, tmp1, tmp2) ==
  /\ tmp1 # None => tmp1 \in Listed(l)
  /\ tmp1 # None /\ t[tmp1] = 0 => tmp1 = l.list /\ tmp2 = None
  /\ ~ (tmp1 # None /\ t[tmp1] = 0) => \A s \in Listed(l) : t[s] > 0

(* The handler, if nobody but its callback has written in between.         *)
WalkFits(w, l, t) ==
  /\ w.at = "turn" => NextFits(l, t, w.tmp1, w.tmp2)
  /\ w.at = "unlink" => Unlinks(l, w.tmp1, w.tmp2, w.tmp3) /\ w.tmp2 = None
  /\ w.at \in {"call", "back"} =>
       w.tmp2 = None /\ w.tmp3 = l.list /\ w.tmp1 \notin Listed(l)

(* Whose slots these are, whoever has written.                             *)
OpsHold ==
  \A s \in Slots :
    /\ op[s].at \in {"add", "place", "link"} => s \notin Listed(timers)
    /\ op[s].at = "add" => op[s].tmp2 = None
    /\ op[s].at # "none" => slot[s] # "none"

WalkHolds ==
  /\ walk.at \in {"unlink", "call", "back"} => walk.tmp1 # None
  /\ walk.at = "back" =>
       /\ op[walk.tmp1].at # "none"
       /\ op[walk.tmp1].at \in {"place", "link"} => target[walk.tmp1] > 0
  /\ walk.at = "call" /\ Handler \notin met => slot[walk.tmp1] # "none"

OnIsListed ==
  /\ \A s \in Listed(timers) : slot[s] = "on"
  /\ \A s \in Slots : slot[s] = "on" =>
       \/ s \in Listed(timers) \/ op[s].at # "none"
       \/ walk.at = "call" /\ s = walk.tmp1

Fits ==
  /\ Good(timers, target) /\ OnIsListed /\ OpsHold /\ WalkHolds
  /\ \A s \in Slots : s \notin met => OpFits(s, op[s], timers, target)
  /\ Handler \notin met => WalkFits(walk, timers, target)

TimerInv == TimerTyped /\ (astray = "no" => Fits)

-----------------------------------------------------------------------------
(* Chains of slots                                                         *)

(* A set of numbers that is not empty has a least one.                     *)
LEMMA LeastNumber ==
  ASSUME NEW T, T \subseteq Nat, T # {}
  PROVE  \E k \in T : \A j \in T : k <= j
<1> DEFINE R == OpToRel(<, Nat)
<1>1. PICK k \in T : \A j \in T : <<j, k>> \notin R
  <2>1. IsWellFoundedOn(R, Nat)
    BY NatLessThanWellFounded
  <2> HIDE DEF R
  <2> QED BY <2>1, WFMin
<1>2. \A j \in T : ~ (j < k)
  BY <1>1 DEF OpToRel
<1> QED
  BY <1>2

(* A sequence of slots, each once, is no longer than there are slots.      *)
LEMMA FewSlots ==
  ASSUME NEW n \in Nat, NEW c \in [1 .. n -> Slots],
         \A i, j \in 1 .. n : i < j => c[i] # c[j]
  PROVE  c \in Places /\ c \in Seq(Slots) /\ Len(c) = n /\ DOMAIN c = 1 .. n
<1>1. N \in Nat
  BY TimerListAssumption
<1>2. c \in Injection(1 .. n, Slots)
  <2>1. \A i, j \in 1 .. n : c[i] = c[j] => i = j
    <3> SUFFICES ASSUME NEW i \in 1 .. n, NEW j \in 1 .. n, c[i] = c[j], i # j
                 PROVE  FALSE
      OBVIOUS
    <3>1. i < j \/ j < i
      OBVIOUS
    <3> QED BY <3>1
  <2> QED BY <2>1 DEF Injection, IsInjective
<1>3. IsFiniteSet(Slots) /\ Cardinality(Slots) = N
  BY <1>1, FS_Interval DEF Slots
<1>4. IsFiniteSet(1 .. n) /\ Cardinality(1 .. n) = n
  BY FS_Interval
<1>5. n <= N
  BY <1>2, <1>3, <1>4, FS_Injection
<1>6. n \in 0 .. N
  BY <1>1, <1>5
<1>7. c \in Seq(Slots) /\ Len(c) = n
  BY SeqDef, LenProperties
<1> QED
  BY <1>6, <1>7 DEF Places

(* What a sequence of places is.                                           *)
LEMMA PlacesAre ==
  ASSUME NEW c \in Places
  PROVE  /\ Len(c) \in 0 .. N /\ Len(c) \in Nat
         /\ c \in [1 .. Len(c) -> Slots] /\ DOMAIN c = 1 .. Len(c)
<1>1. N \in Nat
  BY TimerListAssumption
<1>2. PICK n \in 0 .. N : c \in [1 .. n -> Slots]
  BY DEF Places
<1>3. n \in Nat
  BY <1>1
<1>4. c \in Seq(Slots)
  BY <1>2, <1>3, SeqDef
<1>5. Len(c) = n
  BY <1>2, <1>3, <1>4, LenProperties
<1> QED
  BY <1>1, <1>2, <1>5

(* A slot is not a null pointer.                                           *)
LEMMA SlotsAre == \A s \in Slots : s \in Nat /\ s # None
BY TimerListAssumption DEF Slots, None

(* The head and the links lead one way only.                               *)
LEMMA OneWay ==
  ASSUME NEW l, NEW c \in Places, NEW d \in Places, Linked(l, c), Linked(l, d)
  PROVE  c = d
<1>1. /\ c \in [1 .. Len(c) -> Slots] /\ Len(c) \in Nat /\ DOMAIN c = 1 .. Len(c)
      /\ d \in [1 .. Len(d) -> Slots] /\ Len(d) \in Nat /\ DOMAIN d = 1 .. Len(d)
  BY PlacesAre
<1> DEFINE other == {i \in Nat \ {0} : Nth(c, i) # Nth(d, i)}
<1>2. other = {}
  <2> SUFFICES ASSUME other # {} PROVE FALSE
    OBVIOUS
  <2>1. PICK k \in other : \A j \in other : k <= j
    BY LeastNumber
  <2>2. k \in Nat /\ k >= 1 /\ Nth(c, k) # Nth(d, k)
    OBVIOUS
  <2>3. k # 1
    BY <2>2 DEF Linked
  <2>4. k - 1 \in Nat \ {0} /\ ~ (k <= k - 1)
    BY <2>2, <2>3
  <2>5. Nth(c, k - 1) = Nth(d, k - 1)
    BY <2>1, <2>4
  <2>6. CASE k - 1 \in DOMAIN c
    <3>1. c[k - 1] # None
      BY <1>1, <2>6, SlotsAre
    <3>2. k - 1 \in DOMAIN d /\ d[k - 1] = c[k - 1]
      BY <2>5, <2>6, <3>1 DEF Nth
    <3>3. (k - 1) + 1 = k
      BY <2>2
    <3> QED BY <2>2, <2>6, <3>2, <3>3 DEF Linked
  <2>7. CASE k - 1 \notin DOMAIN c
    <3>1. k - 1 \notin DOMAIN d
      BY <1>1, <2>5, <2>7, SlotsAre DEF Nth
    <3>2. k \notin DOMAIN c /\ k \notin DOMAIN d
      BY <1>1, <2>2, <2>4, <2>7, <3>1
    <3> QED BY <2>2, <3>2 DEF Nth
  <2> QED BY <2>6, <2>7
<1>3. \A i \in Nat \ {0} : Nth(c, i) = Nth(d, i)
  BY <1>2
<1>4. \A i \in 1 .. Len(c) : i \in 1 .. Len(d) /\ d[i] = c[i]
  <2> SUFFICES ASSUME NEW i \in 1 .. Len(c) PROVE i \in 1 .. Len(d) /\ d[i] = c[i]
    OBVIOUS
  <2>1. Nth(c, i) = c[i] /\ c[i] # None /\ i \in Nat \ {0}
    BY <1>1, SlotsAre DEF Nth
  <2> QED BY <1>1, <1>3, <2>1 DEF Nth
<1>5. \A i \in 1 .. Len(d) : i \in 1 .. Len(c)
  <2> SUFFICES ASSUME NEW i \in 1 .. Len(d) PROVE i \in 1 .. Len(c)
    OBVIOUS
  <2>1. Nth(d, i) = d[i] /\ d[i] # None /\ i \in Nat \ {0}
    BY <1>1, SlotsAre DEF Nth
  <2> QED BY <1>1, <1>3, <2>1 DEF Nth
<1>6. Len(c) = Len(d)
  <2>1. Len(c) > 0 => Len(c) \in 1 .. Len(c)
    BY <1>1
  <2>2. Len(d) > 0 => Len(d) \in 1 .. Len(d)
    BY <1>1
  <2>3. Len(c) <= Len(d)
    BY <1>1, <1>4, <2>1
  <2>4. Len(d) <= Len(c)
    BY <1>1, <1>5, <2>2
  <2>5. Len(c) \in Nat /\ Len(d) \in Nat
    BY <1>1
  <2> QED BY <2>3, <2>4, <2>5
<1> QED
  BY <1>1, <1>4, <1>6

(* The order of a chained list is the chain.                               *)
LEMMA OrderIs ==
  ASSUME NEW l, NEW c \in Places, Linked(l, c)
  PROVE  Order(l) = c /\ Listed(l) = {c[i] : i \in 1 .. Len(c)}
<1>1. Order(l) = c
  <2>1. Order(l) \in Places /\ Linked(l, Order(l))
    BY DEF Order, Places
  <2> QED BY <2>1, OneWay
<1> QED
  BY <1>1, PlacesAre DEF Listed

(* A sequence of n slots, none twice.                                      *)
Chain(c, n) ==
  /\ n \in Nat /\ c \in [1 .. n -> Slots]
  /\ \A i, j \in 1 .. n : i < j => c[i] # c[j]

(* A sequence without its place i, and with a slot after the place i.      *)
Without(c, n, i) == [j \in 1 .. n - 1 |-> IF j < i THEN c[j] ELSE c[j + 1]]

With(c, n, s, i) ==
  [j \in 1 .. n + 1 |-> IF j <= i THEN c[j] ELSE IF j = i + 1 THEN s ELSE c[j - 1]]

(* What the two make of a chain.                                           *)
Shorter(d, c, n, i) ==
  /\ Chain(d, n - 1)
  /\ \A j \in 1 .. n - 1 : d[j] = IF j < i THEN c[j] ELSE c[j + 1]
  /\ \A j \in 1 .. n - 1 : d[j] # c[i]
  /\ \A j \in 1 .. n : j # i => \E k \in 1 .. n - 1 : d[k] = c[j]

Longer(d, c, n, s, i) ==
  /\ Chain(d, n + 1)
  /\ \A j \in 1 .. n + 1 :
       d[j] = IF j <= i THEN c[j] ELSE IF j = i + 1 THEN s ELSE c[j - 1]
  /\ \A j \in 1 .. n : \E k \in 1 .. n + 1 : d[k] = c[j]

(* One slot fewer, and all the others.                                     *)
LEMMA WithoutIsChain ==
  ASSUME NEW n, NEW c, Chain(c, n), NEW i \in 1 .. n
  PROVE  Shorter(Without(c, n, i), c, n, i)
<1> DEFINE d == Without(c, n, i)
<1>1. n \in Nat /\ n >= 1 /\ n - 1 \in Nat /\ i \in Nat /\ 1 <= i /\ i <= n
  BY DEF Chain
<1>2. c \in [1 .. n -> Slots] /\ (\A j, k \in 1 .. n : j < k => c[j] # c[k])
  BY DEF Chain
<1>3. \A j \in 1 .. n - 1 : d[j] = IF j < i THEN c[j] ELSE c[j + 1]
  BY DEF Without
<1>4. \A j \in 1 .. n - 1 : j \in 1 .. n /\ j + 1 \in 1 .. n
  BY <1>1
<1>5. d \in [1 .. n - 1 -> Slots]
  BY <1>2, <1>4 DEF Without
<1> HIDE DEF d
<1>6. \A j, k \in 1 .. n - 1 : j < k => d[j] # d[k]
  <2> SUFFICES ASSUME NEW j \in 1 .. n - 1, NEW k \in 1 .. n - 1, j < k
               PROVE  d[j] # d[k]
    OBVIOUS
  <2>1. d[j] = (IF j < i THEN c[j] ELSE c[j + 1]) /\ d[k] = IF k < i THEN c[k] ELSE c[k + 1]
    BY <1>3
  <2>2. j < k /\ j < k + 1 /\ j + 1 < k + 1 /\ (~ (j < i) => ~ (k < i))
    BY <1>1
  <2> QED BY <1>2, <1>4, <2>1, <2>2
<1>7. \A j \in 1 .. n - 1 : d[j] # c[i]
  <2> SUFFICES ASSUME NEW j \in 1 .. n - 1 PROVE d[j] # c[i]
    OBVIOUS
  <2>1. j < i \/ i < j + 1
    BY <1>1
  <2>2. ~ (j < i) => i < j + 1
    BY <1>1
  <2> QED BY <1>2, <1>3, <1>4, <2>2
<1>8. \A j \in 1 .. n : j # i => \E k \in 1 .. n - 1 : d[k] = c[j]
  <2> SUFFICES ASSUME NEW j \in 1 .. n, j # i PROVE \E k \in 1 .. n - 1 : d[k] = c[j]
    OBVIOUS
  <2>1. CASE j < i
    <3>1. j \in 1 .. n - 1
      BY <1>1, <2>1
    <3> QED BY <1>3, <2>1, <3>1
  <2>2. CASE i < j
    <3>1. j - 1 \in 1 .. n - 1 /\ ~ (j - 1 < i) /\ (j - 1) + 1 = j
      BY <1>1, <2>2
    <3> QED BY <1>3, <3>1
  <2> QED BY <1>1, <2>1, <2>2
<1>9. Chain(d, n - 1)
  BY <1>1, <1>5, <1>6 DEF Chain
<1> QED
  BY <1>3, <1>7, <1>8, <1>9 DEF d, Shorter

(* One slot more, and all the others.                                      *)
LEMMA WithIsChain ==
  ASSUME NEW n, NEW c, Chain(c, n), NEW i \in 0 .. n, NEW s \in Slots,
         \A j \in 1 .. n : c[j] # s
  PROVE  Longer(With(c, n, s, i), c, n, s, i)
<1> DEFINE d == With(c, n, s, i)
<1>1. n \in Nat /\ n + 1 \in Nat /\ i \in Nat /\ i <= n
  BY DEF Chain
<1>2. c \in [1 .. n -> Slots] /\ (\A j, k \in 1 .. n : j < k => c[j] # c[k])
  BY DEF Chain
<1>3. \A j \in 1 .. n + 1 : d[j] = IF j <= i THEN c[j] ELSE IF j = i + 1 THEN s ELSE c[j - 1]
  BY DEF With
<1>4. \A j \in 1 .. n + 1 : /\ j <= i => j \in 1 .. n
                           /\ ~ (j <= i) /\ j # i + 1 => j - 1 \in 1 .. n
  BY <1>1
<1>5. d \in [1 .. n + 1 -> Slots]
  <2>1. \A j \in 1 .. n + 1 : (IF j <= i THEN c[j] ELSE IF j = i + 1 THEN s ELSE c[j - 1]) \in Slots
    BY <1>1, <1>2, <1>4, SMTT(30)
  <2> QED BY <2>1 DEF With
<1> HIDE DEF d
<1>6. \A j, k \in 1 .. n + 1 : j < k => d[j] # d[k]
  <2> SUFFICES ASSUME NEW j \in 1 .. n + 1, NEW k \in 1 .. n + 1, j < k
               PROVE  d[j] # d[k]
    OBVIOUS
  <2>1. CASE k <= i
    <3>1. j <= i /\ j \in 1 .. n /\ k \in 1 .. n
      BY <1>1, <2>1
    <3> QED BY <1>2, <1>3, <2>1, <3>1
  <2>2. CASE k = i + 1
    <3>1. j <= i /\ j \in 1 .. n /\ ~ (k <= i)
      BY <1>1, <2>2
    <3> QED BY <1>3, <2>2, <3>1
  <2>3. CASE ~ (k <= i) /\ k # i + 1
    <3>1. k - 1 \in 1 .. n /\ d[k] = c[k - 1]
      BY <1>3, <1>4, <2>3
    <3>2. CASE j <= i
      <4>1. j \in 1 .. n /\ j < k - 1
        BY <1>1, <2>3, <3>2
      <4> QED BY <1>2, <1>3, <3>1, <3>2, <4>1
    <3>3. CASE j = i + 1
      <4>1. ~ (j <= i)
        BY <1>1, <3>3
      <4> QED BY <1>3, <3>1, <3>3, <4>1
    <3>4. CASE ~ (j <= i) /\ j # i + 1
      <4>1. j - 1 \in 1 .. n /\ j - 1 < k - 1
        BY <1>1, <1>4, <3>4
      <4> QED BY <1>2, <1>3, <3>1, <3>4, <4>1
    <3> QED BY <3>2, <3>3, <3>4
  <2> QED BY <2>1, <2>2, <2>3
<1>7. \A j \in 1 .. n : \E k \in 1 .. n + 1 : d[k] = c[j]
  <2> SUFFICES ASSUME NEW j \in 1 .. n PROVE \E k \in 1 .. n + 1 : d[k] = c[j]
    OBVIOUS
  <2>1. CASE j <= i
    <3>1. j \in 1 .. n + 1
      BY <1>1
    <3> QED BY <1>3, <2>1, <3>1
  <2>2. CASE ~ (j <= i)
    <3>1. j + 1 \in 1 .. n + 1 /\ ~ (j + 1 <= i) /\ j + 1 # i + 1 /\ (j + 1) - 1 = j
      BY <1>1, <2>2
    <3> QED BY <1>3, <3>1
  <2> QED BY <2>1, <2>2
<1>8. Chain(d, n + 1)
  BY <1>1, <1>5, <1>6 DEF Chain
<1> QED
  BY <1>3, <1>7, <1>8 DEF d, Longer

(* The list m is l with s, or the head for None, leading to next.          *)
Redirected(m, l, s, next) ==
  /\ m \in Lists
  /\ m.list = IF s = None THEN next ELSE l.list
  /\ \A r \in Slots : m.link[r] = IF r = s THEN next ELSE l.link[r]

(* SetNext redirects the head, or one link.                                *)
LEMMA NextIsSet ==
  ASSUME NEW l \in Lists, NEW s \in Slots \cup {None}, NEW next \in Slots \cup {None}
  PROVE  Redirected(SetNext(l, s, next), l, s, next)
<1>1. CASE s = None
  BY <1>1, SlotsAre DEF SetNext, Lists, Redirected
<1>2. CASE s # None
  <2>1. s \in Slots
    BY <1>2
  <2> QED BY <1>2, <2>1 DEF SetNext, Lists, Redirected
<1> QED
  BY <1>1, <1>2

(* The slot at a place of the chain is passed over.                        *)
LEMMA RemoveLinks ==
  ASSUME NEW l \in Lists, NEW n, NEW c, Chain(c, n), Linked(l, c), NEW i \in 1 .. n
  PROVE  LET r == SetNext(l, Nth(c, i - 1), Nth(c, i + 1))
         IN  /\ r \in Lists
             /\ r.list = IF Nth(c, i - 1) = None THEN Nth(c, i + 1) ELSE l.list
             /\ Linked(r, Without(c, n, i))
             /\ \A s \in Slots : r.link[s] = IF s = Nth(c, i - 1) THEN Nth(c, i + 1) ELSE l.link[s]
<1> DEFINE p == Nth(c, i - 1)
           q == Nth(c, i + 1)
           r == SetNext(l, p, q)
           d == Without(c, n, i)
<1>1. n \in Nat /\ i \in Nat /\ 1 <= i /\ i <= n /\ c \in [1 .. n -> Slots] /\ DOMAIN c = 1 .. n
  BY DEF Chain
<1>2. p \in Slots \cup {None} /\ q \in Slots \cup {None}
  BY <1>1 DEF Nth
<1>3. l.link[c[i]] = q /\ l.list = Nth(c, 1) /\ \A j \in 1 .. n : l.link[c[j]] = Nth(c, j + 1)
  BY <1>1 DEF Linked
<1>5. Chain(d, n - 1) /\ (\A j \in 1 .. n - 1 : d[j] = IF j < i THEN c[j] ELSE c[j + 1])
  BY WithoutIsChain DEF Shorter
<1>6. DOMAIN d = 1 .. n - 1
  BY <1>5 DEF Chain
<1>p. p = None <=> i = 1
  <2>1. i - 1 \in 1 .. n <=> i # 1
    BY <1>1
  <2> QED BY <1>1, <2>1, SlotsAre DEF Nth
<1> HIDE DEF d, p, q
<1>7. /\ r \in Lists
      /\ r.list = IF p = None THEN q ELSE l.list
      /\ \A s \in Slots : r.link[s] = IF s = p THEN q ELSE l.link[s]
  <2> HIDE DEF r
  <2>1. Redirected(r, l, p, q)
    BY <1>2, NextIsSet DEF r
  <2> QED BY <2>1 DEF Redirected
<1> HIDE DEF r
<1>8. \A j \in Nat \ {0} : Nth(d, j) = IF j < i THEN Nth(c, j) ELSE Nth(c, j + 1)
  <2> SUFFICES ASSUME NEW j \in Nat \ {0}
               PROVE  Nth(d, j) = IF j < i THEN Nth(c, j) ELSE Nth(c, j + 1)
    OBVIOUS
  <2>1. j \in 1 .. n - 1 <=> IF j < i THEN j \in 1 .. n /\ j \in 1 .. n - 1 ELSE j + 1 \in 1 .. n
    BY <1>1
  <2>2. j < i => j \in 1 .. n /\ j \in 1 .. n - 1
    BY <1>1
  <2> QED BY <1>1, <1>5, <1>6, <2>1, <2>2 DEF Nth
<1>9. r.list = Nth(d, 1)
  <2>1. CASE i = 1
    <3>1. ~ (1 < i) /\ i + 1 = 1 + 1
      BY <2>1
    <3>2. Nth(d, 1) = Nth(c, 1 + 1)
      BY <1>8, <3>1
    <3> QED BY <1>p, <1>7, <2>1, <3>2 DEF q
  <2>2. CASE i # 1
    <3>1. 1 < i
      BY <1>1, <2>2
    <3>2. Nth(d, 1) = Nth(c, 1)
      BY <1>8, <3>1
    <3> QED BY <1>p, <1>3, <1>7, <2>2, <3>2
  <2> QED BY <2>1, <2>2
<1>10. \A j \in 1 .. n - 1 : r.link[d[j]] = Nth(d, j + 1)
  <2> SUFFICES ASSUME NEW j \in 1 .. n - 1 PROVE r.link[d[j]] = Nth(d, j + 1)
    OBVIOUS
  <2>0. j \in 1 .. n /\ j + 1 \in 1 .. n /\ j + 1 \in Nat \ {0} /\ j \in Nat
    BY <1>1
  <2>1. CASE j + 1 = i
    <3>1. j < i /\ ~ (j + 1 < i) /\ j = i - 1
      BY <1>1, <2>1
    <3>2. d[j] = p
      BY <1>1, <1>5, <2>0, <3>1 DEF p, Nth
    <3>3. Nth(d, j + 1) = q
      BY <1>8, <2>0, <2>1, <3>1 DEF q
    <3>4. d[j] \in Slots
      BY <1>5 DEF Chain
    <3> QED BY <1>7, <3>2, <3>3, <3>4
  <2>2. CASE j + 1 < i
    <3>1. j < i /\ j < i - 1 /\ i - 1 \in 1 .. n
      BY <1>1, <2>0, <2>2
    <3>2. d[j] = c[j] /\ c[j] \in Slots /\ p = c[i - 1]
      BY <1>1, <1>5, <2>0, <3>1 DEF p, Nth
    <3>3. c[j] # p
      BY <2>0, <3>1, <3>2 DEF Chain
    <3>4. Nth(d, j + 1) = Nth(c, j + 1)
      BY <1>8, <2>0, <2>2
    <3> QED BY <1>3, <1>7, <2>0, <3>2, <3>3, <3>4
  <2>3. CASE i < j + 1
    <3>1. ~ (j < i) /\ ~ (j + 1 < i)
      BY <1>1, <2>0, <2>3
    <3>2. d[j] = c[j + 1] /\ c[j + 1] \in Slots
      BY <1>1, <1>5, <2>0, <3>1
    <3>3. c[j + 1] # p
      <4>1. CASE i = 1
        BY <1>p, <3>2, <4>1, SlotsAre
      <4>2. CASE i # 1
        <5>1. i - 1 \in 1 .. n /\ i - 1 < j + 1
          BY <1>1, <2>0, <2>3, <4>2
        <5>2. p = c[i - 1]
          BY <1>1, <5>1 DEF p, Nth
        <5> QED BY <2>0, <5>1, <5>2 DEF Chain
      <4> QED BY <4>1, <4>2
    <3>4. Nth(d, j + 1) = Nth(c, (j + 1) + 1)
      BY <1>8, <2>0, <3>1
    <3> QED BY <1>3, <1>7, <2>0, <3>2, <3>3, <3>4
  <2> QED BY <1>1, <2>0, <2>1, <2>2, <2>3
<1>11. Linked(r, d)
  BY <1>6, <1>9, <1>10 DEF Linked
<1> QED
  BY <1>7, <1>11 DEF r, d, p, q

(* A slot that leads to what stands behind a place is put there.           *)
LEMMA InsertLinks ==
  ASSUME NEW l \in Lists, NEW n, NEW c, Chain(c, n), Linked(l, c), NEW i \in 0 .. n,
         NEW s \in Slots, \A j \in 1 .. n : c[j] # s, l.link[s] = Nth(c, i + 1)
  PROVE  LET r == SetNext(l, Nth(c, i), s)
         IN  /\ r \in Lists
             /\ r.list = IF Nth(c, i) = None THEN s ELSE l.list
             /\ Linked(r, With(c, n, s, i))
             /\ \A x \in Slots : r.link[x] = IF x = Nth(c, i) THEN s ELSE l.link[x]
<1> DEFINE p == Nth(c, i)
           q == Nth(c, i + 1)
           r == SetNext(l, p, s)
           d == With(c, n, s, i)
<1>1. /\ n \in Nat /\ i \in Nat /\ i <= n /\ c \in [1 .. n -> Slots] /\ DOMAIN c = 1 .. n
      /\ c \in Places
  BY FewSlots DEF Chain
<1>2. p \in Slots \cup {None} /\ q \in Slots \cup {None}
  BY <1>1 DEF Nth
<1>3. l.list = Nth(c, 1) /\ \A j \in 1 .. n : l.link[c[j]] = Nth(c, j + 1)
  BY <1>1 DEF Linked
<1>p. p = None <=> i = 0
  <2>1. i \in 1 .. n <=> i # 0
    BY <1>1
  <2> QED BY <1>1, <2>1, SlotsAre DEF Nth
<1>7. Chain(d, n + 1) /\ \A j \in 1 .. n + 1 : d[j] =
              IF j <= i THEN c[j] ELSE IF j = i + 1 THEN s ELSE c[j - 1]
  BY WithIsChain DEF Longer
<1>8. DOMAIN d = 1 .. n + 1
  BY <1>7 DEF Chain
<1>s. p # s
  BY <1>1, SlotsAre DEF Nth
<1> HIDE DEF d, p, q, r
<1>9. /\ r \in Lists
      /\ r.list = IF p = None THEN s ELSE l.list
      /\ \A x \in Slots : r.link[x] = IF x = p THEN s ELSE l.link[x]
  <2>1. Redirected(r, l, p, s)
    BY <1>2, NextIsSet DEF r
  <2> QED BY <2>1 DEF Redirected
<1>q. l.link[s] = q
  BY DEF q
<1>10. \A j \in Nat \ {0} :
         Nth(d, j) = IF j <= i THEN Nth(c, j) ELSE IF j = i + 1 THEN s ELSE Nth(c, j - 1)
  <2> SUFFICES ASSUME NEW j \in Nat \ {0}
               PROVE  Nth(d, j) = IF j <= i THEN Nth(c, j)
                                  ELSE IF j = i + 1 THEN s ELSE Nth(c, j - 1)
    OBVIOUS
  <2>1. CASE j <= i
    <3>1. j \in 1 .. n /\ j \in 1 .. n + 1
      BY <1>1, <2>1
    <3> QED BY <1>1, <1>7, <1>8, <2>1, <3>1 DEF Nth
  <2>2. CASE j = i + 1
    <3>1. ~ (j <= i) /\ j \in 1 .. n + 1
      BY <1>1, <2>2
    <3> QED BY <1>7, <1>8, <2>2, <3>1 DEF Nth
  <2>3. CASE ~ (j <= i) /\ j # i + 1
    <3>1. j \in 1 .. n + 1 <=> j - 1 \in 1 .. n
      BY <1>1, <2>3
    <3> QED BY <1>1, <1>7, <1>8, <2>3, <3>1 DEF Nth
  <2> QED BY <2>1, <2>2, <2>3
<1>11. r.list = Nth(d, 1)
  <2>1. CASE i = 0
    <3>1. ~ (1 <= i) /\ 1 = i + 1
      BY <2>1
    <3> QED BY <1>p, <1>9, <1>10, <2>1, <3>1
  <2>2. CASE i # 0
    <3>1. 1 <= i
      BY <1>1, <2>2
    <3> QED BY <1>p, <1>3, <1>9, <1>10, <2>2, <3>1
  <2> QED BY <2>1, <2>2
<1>12. \A j \in 1 .. n + 1 : r.link[d[j]] = Nth(d, j + 1)
  <2> SUFFICES ASSUME NEW j \in 1 .. n + 1 PROVE r.link[d[j]] = Nth(d, j + 1)
    OBVIOUS
  <2>0. j \in Nat \ {0} /\ j + 1 \in Nat \ {0}
    BY <1>1
  <2>1. CASE j < i
    <3>1. j <= i /\ j + 1 <= i /\ j \in 1 .. n /\ i \in 1 .. n
      BY <1>1, <2>1
    <3>2. d[j] = c[j] /\ c[j] \in Slots /\ p = c[i]
      BY <1>1, <1>7, <3>1 DEF p, Nth
    <3>3. c[j] # p /\ c[j] # s
      BY <2>1, <3>1, <3>2 DEF Chain
    <3>4. Nth(d, j + 1) = Nth(c, j + 1)
      BY <1>10, <2>0, <3>1
    <3> QED BY <1>3, <1>9, <3>1, <3>2, <3>3, <3>4
  <2>2. CASE j = i
    <3>1. j <= i /\ ~ (j + 1 <= i) /\ j \in 1 .. n
      BY <1>1, <2>2
    <3>2. d[j] = p /\ p \in Slots
      BY <1>1, <1>7, <2>2, <3>1 DEF p, Nth
    <3>3. Nth(d, j + 1) = s
      BY <1>10, <2>0, <2>2, <3>1
    <3> QED BY <1>9, <3>2, <3>3
  <2>3. CASE j = i + 1
    <3>1. ~ (j <= i) /\ ~ (j + 1 <= i) /\ j + 1 # i + 1 /\ (j + 1) - 1 = i + 1
      BY <1>1, <2>3
    <3>2. d[j] = s
      BY <1>7, <2>3, <3>1
    <3>3. Nth(d, j + 1) = q
      BY <1>10, <2>0, <3>1 DEF q
    <3> QED BY <1>9, <1>q, <1>s, <3>2, <3>3
  <2>4. CASE i + 1 < j
    <3>1. /\ ~ (j <= i) /\ j # i + 1 /\ ~ (j + 1 <= i) /\ j + 1 # i + 1
          /\ j - 1 \in 1 .. n /\ (j + 1) - 1 = (j - 1) + 1 /\ i < j - 1
      BY <1>1, <2>4
    <3>2. d[j] = c[j - 1] /\ c[j - 1] \in Slots /\ c[j - 1] # s
      BY <1>1, <1>7, <3>1
    <3>3. c[j - 1] # p
      <4>1. CASE i = 0
        BY <1>p, <3>2, <4>1, SlotsAre
      <4>2. CASE i # 0
        <5>1. i \in 1 .. n
          BY <1>1, <4>2
        <5>2. p = c[i]
          BY <1>1, <5>1 DEF p, Nth
        <5> QED BY <3>1, <5>1, <5>2 DEF Chain
      <4> QED BY <4>1, <4>2
    <3>4. Nth(d, j + 1) = Nth(c, (j - 1) + 1)
      BY <1>10, <2>0, <3>1
    <3> QED BY <1>3, <1>9, <3>1, <3>2, <3>3, <3>4
  <2> QED BY <1>1, <2>0, <2>1, <2>2, <2>3, <2>4
<1>13. Linked(r, d)
  BY <1>8, <1>11, <1>12 DEF Linked
<1> QED
  BY <1>9, <1>13 DEF r, d, p, q


(* A chain of n slots goes by their targets t.                             *)
Sorted(c, n, t) == \A i, j \in 1 .. n : i < j => t[c[i]] <= t[c[j]]

(* A list in order, seen through its chain.                                *)
LEMMA OrderedHas ==
  ASSUME NEW l, NEW t, Ordered(l, t)
  PROVE  \E n \in Nat : \E c \in Places :
           /\ n = Len(c) /\ Chain(c, n) /\ Sorted(c, n, t) /\ Linked(l, c)
           /\ Order(l) = c /\ Listed(l) = {c[i] : i \in 1 .. n}
<1>1. PICK c \in Places : Chained(l, t, c)
  BY DEF Ordered
<1>2. Len(c) \in Nat /\ c \in [1 .. Len(c) -> Slots] /\ DOMAIN c = 1 .. Len(c)
  BY PlacesAre
<1>3. Linked(l, c)
  BY <1>1 DEF Chained
<1>4. Order(l) = c /\ Listed(l) = {c[i] : i \in 1 .. Len(c)}
  BY <1>3, OrderIs
<1>5. Chain(c, Len(c)) /\ Sorted(c, Len(c), t)
  BY <1>1, <1>2 DEF Chained, Chain, Sorted
<1> QED
  BY <1>2, <1>3, <1>4, <1>5

(* A sorted chain is a list in order.                                      *)
LEMMA OrderedBy ==
  ASSUME NEW l, NEW t, NEW n, NEW c, Chain(c, n), Sorted(c, n, t), Linked(l, c)
  PROVE  Ordered(l, t) /\ Order(l) = c /\ Listed(l) = {c[i] : i \in 1 .. n}
<1>1. c \in Places /\ Len(c) = n /\ DOMAIN c = 1 .. n
  BY FewSlots DEF Chain
<1>2. Chained(l, t, c)
  BY <1>1 DEF Chained, Chain, Sorted
<1> QED
  BY <1>1, <1>2, OrderIs DEF Ordered

-----------------------------------------------------------------------------
-----------------------------------------------------------------------------
(* Lists in order                                                          *)

(* Side by side are two neighbours in the chain.                           *)
LEMMA PairHas ==
  ASSUME NEW l, NEW t, Good(l, t), NEW s2, NEW s1, Pair(l, s2, s1)
  PROVE  \E n, c, i :
           /\ n \in Nat /\ c \in Places /\ i \in 0 .. n
           /\ Chain(c, n) /\ Sorted(c, n, t) /\ Linked(l, c) /\ Order(l) = c
           /\ DOMAIN c = 1 .. n /\ Listed(l) = {c[j] : j \in 1 .. n}
           /\ s2 = Nth(c, i) /\ s1 = Nth(c, i + 1) /\ (i = 0 <=> s2 = None)
<1>1. PICK n \in Nat, c \in Places :
         /\ n = Len(c) /\ Chain(c, n) /\ Sorted(c, n, t) /\ Linked(l, c)
         /\ Order(l) = c /\ Listed(l) = {c[i] : i \in 1 .. n}
  BY OrderedHas DEF Good
<1>2. c \in [1 .. n -> Slots] /\ DOMAIN c = 1 .. n
  BY <1>1 DEF Chain
<1>3. l.list = Nth(c, 1) /\ \A j \in 1 .. n : l.link[c[j]] = Nth(c, j + 1)
  BY <1>1, <1>2 DEF Linked
<1>4. CASE s2 = None
  <2>1. s1 = Nth(c, 0 + 1)
    BY <1>3, <1>4 DEF Pair, Behind
  <2>2. s2 = Nth(c, 0) /\ 0 \in 0 .. n
    BY <1>1, <1>2, <1>4 DEF Nth
  <2> QED BY <1>1, <1>2, <1>4, <2>1, <2>2
<1>5. CASE s2 # None
  <2>1. PICK i \in 1 .. n : c[i] = s2
    BY <1>1, <1>5 DEF Pair
  <2>2. i \in 0 .. n /\ i # 0 /\ s2 = Nth(c, i)
    BY <1>1, <1>2, <2>1 DEF Nth
  <2>3. s1 = Nth(c, i + 1)
    BY <1>3, <1>5, <2>1 DEF Pair, Behind
  <2> QED BY <1>1, <1>2, <1>5, <2>2, <2>3
<1> QED
  BY <1>4, <1>5

(* What comes behind a slot of the list is one, too, or the end.           *)
LEMMA PairListed ==
  ASSUME NEW l, NEW t, Good(l, t), NEW s2, NEW s1, Pair(l, s2, s1)
  PROVE  /\ s1 = None \/ s1 \in Listed(l)
         /\ s1 # None => Pair(l, s1, l.link[s1])
         /\ Listed(l) \subseteq Slots
         /\ s2 # None /\ s1 # None => t[s2] <= t[s1]
<1>1. PICK n, c, i :
         /\ n \in Nat /\ c \in Places /\ i \in 0 .. n
         /\ Chain(c, n) /\ Sorted(c, n, t) /\ Linked(l, c) /\ Order(l) = c
         /\ DOMAIN c = 1 .. n /\ Listed(l) = {c[j] : j \in 1 .. n}
         /\ s2 = Nth(c, i) /\ s1 = Nth(c, i + 1) /\ (i = 0 <=> s2 = None)
  BY PairHas
<1>2. c \in [1 .. n -> Slots]
  BY <1>1 DEF Chain
<1>3. Listed(l) \subseteq Slots
  BY <1>1, <1>2
<1>4. s1 = None \/ s1 \in Listed(l)
  BY <1>1 DEF Nth
<1>5. s1 # None => Pair(l, s1, l.link[s1])
  BY <1>4 DEF Pair, Behind
<1>6. s2 # None /\ s1 # None => t[s2] <= t[s1]
  <2> SUFFICES ASSUME s2 # None, s1 # None PROVE t[s2] <= t[s1]
    OBVIOUS
  <2>1. i \in 1 .. n /\ i + 1 \in 1 .. n /\ i < i + 1
    BY <1>1 DEF Nth
  <2>2. s2 = c[i] /\ s1 = c[i + 1]
    BY <1>1, <2>1 DEF Nth
  <2> QED BY <1>1, <2>1, <2>2 DEF Sorted
<1> QED
  BY <1>3, <1>4, <1>5, <1>6

(* The head of the list comes first.                                       *)
LEMMA HeadFirst ==
  ASSUME NEW l, NEW t, Good(l, t)
  PROVE  /\ Listed(l) \subseteq Slots /\ (l.list = None \/ l.list \in Listed(l))
         /\ \A s \in Listed(l) : l.list # None /\ t[l.list] <= t[s]
<1>1. Pair(l, None, l.list)
  BY DEF Pair, Behind
<1>2. PICK n, c, i :
         /\ n \in Nat /\ c \in Places /\ i \in 0 .. n
         /\ Chain(c, n) /\ Sorted(c, n, t) /\ Linked(l, c) /\ Order(l) = c
         /\ DOMAIN c = 1 .. n /\ Listed(l) = {c[j] : j \in 1 .. n}
         /\ None = Nth(c, i) /\ l.list = Nth(c, i + 1) /\ (i = 0 <=> None = None)
  BY <1>1, PairHas
<1>3. l.list = Nth(c, 1) /\ c \in [1 .. n -> Slots]
  BY <1>2 DEF Chain
<1>4. \A j \in 1 .. n : l.list # None /\ t[l.list] <= t[c[j]]
  <2> SUFFICES ASSUME NEW j \in 1 .. n PROVE l.list # None /\ t[l.list] <= t[c[j]]
    OBVIOUS
  <2>1. 1 \in 1 .. n /\ l.list = c[1] /\ c[1] \in Slots
    BY <1>2, <1>3 DEF Nth
  <2>2. l.list # None
    BY <2>1, SlotsAre
  <2>3. CASE j = 1
    <3>1. t[c[1]] \in Nat
      BY <2>1 DEF Good
    <3> QED BY <2>1, <2>2, <2>3, <3>1
  <2>4. CASE j # 1
    <3>1. 1 < j
      BY <1>2, <2>4
    <3> QED BY <1>2, <2>1, <2>2, <3>1 DEF Sorted
  <2> QED BY <2>3, <2>4
<1>5. l.list = None \/ l.list \in Listed(l)
  BY <1>1, PairListed
<1>6. Listed(l) \subseteq Slots
  BY <1>1, PairListed
<1> QED
  BY <1>2, <1>4, <1>5, <1>6

(* A slot taken off the list leaves the others in their order.             *)
LEMMA Unlinked ==
  ASSUME NEW l, NEW t, Good(l, t), NEW s2, NEW s1, Pair(l, s2, s1), s1 # None
  PROVE  /\ Good(SetNext(l, s2, l.link[s1]), t)
         /\ Listed(SetNext(l, s2, l.link[s1])) = Listed(l) \ {s1}
         /\ SetNext(l, s2, l.link[s1]).list = IF s2 = None THEN l.link[s1] ELSE l.list
<1>1. PICK n, c, k :
         /\ n \in Nat /\ c \in Places /\ k \in 0 .. n
         /\ Chain(c, n) /\ Sorted(c, n, t) /\ Linked(l, c) /\ Order(l) = c
         /\ DOMAIN c = 1 .. n /\ Listed(l) = {c[j] : j \in 1 .. n}
         /\ s2 = Nth(c, k) /\ s1 = Nth(c, k + 1) /\ (k = 0 <=> s2 = None)
  BY PairHas
<1> n \in Nat /\ k \in 0 .. n
  BY <1>1
<1> DEFINE i == k + 1
           d == Without(c, n, i)
           r == SetNext(l, s2, l.link[s1])
<1>2. i \in 1 .. n /\ c[i] = s1 /\ i - 1 = k
  BY <1>1 DEF Nth
<1>3. s2 = Nth(c, i - 1) /\ l.link[s1] = Nth(c, i + 1)
  BY <1>1, <1>2 DEF Linked
<1>l. l \in Lists /\ t \in [Slots -> Nat]
  BY DEF Good
<1> HIDE DEF i
<1>4. r \in Lists /\ Linked(r, d) /\ r.list = IF s2 = None THEN l.link[s1] ELSE l.list
  BY <1>l, <1>1, <1>2, <1>3, RemoveLinks
<1>6. /\ Chain(d, n - 1)
      /\ \A j \in 1 .. n - 1 : d[j] = IF j < i THEN c[j] ELSE c[j + 1]
      /\ \A j \in 1 .. n - 1 : d[j] # s1
      /\ \A j \in 1 .. n : j # i => \E m \in 1 .. n - 1 : d[m] = c[j]
  <2>1. Shorter(Without(c, n, i), c, n, i)
    BY <1>1, <1>2, WithoutIsChain
  <2> QED BY <1>2, <2>1 DEF Shorter
<1> HIDE DEF d, r
<1>7. Sorted(d, n - 1, t)
  <2> SUFFICES ASSUME NEW j \in 1 .. n - 1, NEW m \in 1 .. n - 1, j < m
               PROVE  t[d[j]] <= t[d[m]]
    BY DEF Sorted
  <2>1. d[j] = (IF j < i THEN c[j] ELSE c[j + 1]) /\ d[m] = IF m < i THEN c[m] ELSE c[m + 1]
    BY <1>6
  <2>2. /\ j < m /\ j < m + 1 /\ j + 1 < m + 1 /\ (~ (j < i) => ~ (m < i))
        /\ j \in 1 .. n /\ j + 1 \in 1 .. n /\ m \in 1 .. n /\ m + 1 \in 1 .. n
    BY <1>2
  <2> QED BY <1>1, <2>1, <2>2 DEF Sorted
<1>8. Ordered(r, t) /\ Listed(r) = {d[j] : j \in 1 .. n - 1}
  BY <1>4, <1>6, <1>7, OrderedBy
<1>9. Listed(r) = Listed(l) \ {s1}
  <2>1. \A j \in 1 .. n - 1 : d[j] \in Listed(l)
    <3> SUFFICES ASSUME NEW j \in 1 .. n - 1 PROVE d[j] \in Listed(l)
      OBVIOUS
    <3>1. j \in 1 .. n /\ j + 1 \in 1 .. n
      OBVIOUS
    <3>2. d[j] = c[j] \/ d[j] = c[j + 1]
      BY <1>6
    <3> QED BY <1>1, <3>1, <3>2
  <2>2. \A x \in Listed(l) : x # s1 => x \in Listed(r)
    <3> SUFFICES ASSUME NEW j \in 1 .. n, c[j] # s1 PROVE c[j] \in Listed(r)
      BY <1>1
    <3>1. j # i
      BY <1>2
    <3>2. PICK m \in 1 .. n - 1 : d[m] = c[j]
      BY <1>6, <3>1
    <3> QED BY <1>8, <3>2
  <2> QED BY <1>6, <1>8, <2>1, <2>2
<1> QED
  BY <1>l, <1>4, <1>8, <1>9 DEF r, Good

(* A slot put between two neighbours, by its target.                       *)
LEMMA LinkedIn ==
  ASSUME NEW l, NEW t, Good(l, t), NEW s2, NEW s \in Slots, Pair(l, s2, l.link[s]),
         s \notin Listed(l), s2 # None => t[s2] <= t[s],
         l.link[s] # None => t[s] <= t[l.link[s]]
  PROVE  /\ Good(SetNext(l, s2, s), t)
         /\ Listed(SetNext(l, s2, s)) = Listed(l) \cup {s}
         /\ SetNext(l, s2, s).list = IF s2 = None THEN s ELSE l.list
<1> DEFINE s1 == l.link[s]
           r == SetNext(l, s2, s)
<1>1. PICK n, c, i :
         /\ n \in Nat /\ c \in Places /\ i \in 0 .. n
         /\ Chain(c, n) /\ Sorted(c, n, t) /\ Linked(l, c) /\ Order(l) = c
         /\ DOMAIN c = 1 .. n /\ Listed(l) = {c[j] : j \in 1 .. n}
         /\ s2 = Nth(c, i) /\ s1 = Nth(c, i + 1) /\ (i = 0 <=> s2 = None)
  BY PairHas
<1> n \in Nat /\ i \in 0 .. n
  BY <1>1
<1> DEFINE d == With(c, n, s, i)
<1>l. l \in Lists /\ t \in [Slots -> Nat]
  BY DEF Good
<1>2. \A j \in 1 .. n : c[j] # s
  BY <1>1
<1>3. r \in Lists /\ Linked(r, d) /\ r.list = IF s2 = None THEN s ELSE l.list
  BY <1>l, <1>1, <1>2, InsertLinks
<1>4. /\ Chain(d, n + 1)
      /\ \A j \in 1 .. n + 1 :
           d[j] = IF j <= i THEN c[j] ELSE IF j = i + 1 THEN s ELSE c[j - 1]
      /\ \A j \in 1 .. n : \E k \in 1 .. n + 1 : d[k] = c[j]
  <2>1. Longer(With(c, n, s, i), c, n, s, i)
    BY <1>1, <1>2, WithIsChain
  <2> QED BY <2>1 DEF Longer
<1>c. c \in [1 .. n -> Slots]
  BY <1>1 DEF Chain
<1> HIDE DEF d, r
<1>5. \A j \in 1 .. n : t[c[j]] \in Nat /\ t[s] \in Nat
  BY <1>c, <1>l
<1>6. \A j \in 1 .. n : j <= i => t[c[j]] <= t[s]
  <2> SUFFICES ASSUME NEW j \in 1 .. n, j <= i PROVE t[c[j]] <= t[s]
    OBVIOUS
  <2>1. i \in 1 .. n /\ s2 = c[i] /\ t[c[i]] <= t[s]
    BY <1>1 DEF Nth
  <2>2. CASE j = i
    BY <2>1, <2>2
  <2>3. CASE j < i
    <3>1. t[c[j]] <= t[c[i]]
      BY <1>1, <2>1, <2>3 DEF Sorted
    <3> QED BY <1>5, <2>1, <3>1
  <2> QED BY <2>2, <2>3
<1>7. \A j \in 1 .. n : i < j => t[s] <= t[c[j]]
  <2> SUFFICES ASSUME NEW j \in 1 .. n, i < j PROVE t[s] <= t[c[j]]
    OBVIOUS
  <2>1. i + 1 \in 1 .. n /\ s1 = c[i + 1] /\ c[i + 1] \in Slots
    BY <1>1, <1>c DEF Nth
  <2>2. t[s] <= t[c[i + 1]]
    BY <2>1, SlotsAre
  <2>3. CASE j = i + 1
    BY <2>2, <2>3
  <2>4. CASE i + 1 < j
    <3>1. t[c[i + 1]] <= t[c[j]]
      BY <1>1, <2>1, <2>4 DEF Sorted
    <3> QED BY <1>5, <2>1, <2>2, <3>1
  <2> QED BY <2>3, <2>4
<1>8. Sorted(d, n + 1, t)
  <2> SUFFICES ASSUME NEW j \in 1 .. n + 1, NEW k \in 1 .. n + 1, j < k
               PROVE  t[d[j]] <= t[d[k]]
    BY DEF Sorted
  <2>1. /\ d[j] = IF j <= i THEN c[j] ELSE IF j = i + 1 THEN s ELSE c[j - 1]
        /\ d[k] = IF k <= i THEN c[k] ELSE IF k = i + 1 THEN s ELSE c[k - 1]
    BY <1>4
  <2>2. CASE k <= i
    <3>1. j <= i /\ j \in 1 .. n /\ k \in 1 .. n
      BY <2>2
    <3> QED BY <1>1, <2>1, <2>2, <3>1 DEF Sorted
  <2>3. CASE k = i + 1
    <3>1. j <= i /\ j \in 1 .. n /\ ~ (k <= i)
      BY <2>3
    <3> QED BY <1>6, <2>1, <2>3, <3>1
  <2>4. CASE i + 1 < k
    <3>1. k - 1 \in 1 .. n /\ i < k - 1 /\ d[k] = c[k - 1]
      BY <2>1, <2>4
    <3>2. CASE j <= i
      <4>1. j \in 1 .. n /\ j < k - 1
        BY <2>4, <3>2
      <4> QED BY <1>1, <2>1, <3>1, <3>2, <4>1 DEF Sorted
    <3>3. CASE j = i + 1
      <4>1. ~ (j <= i)
        BY <3>3
      <4> QED BY <1>7, <2>1, <3>1, <3>3, <4>1
    <3>4. CASE i + 1 < j
      <4>1. j - 1 \in 1 .. n /\ j - 1 < k - 1 /\ ~ (j <= i) /\ j # i + 1
        BY <3>4
      <4> QED BY <1>1, <2>1, <3>1, <4>1 DEF Sorted
    <3> QED BY <3>2, <3>3, <3>4
  <2> QED BY <2>2, <2>3, <2>4
<1>9. Ordered(r, t) /\ Listed(r) = {d[j] : j \in 1 .. n + 1}
  <2>1. n + 1 \in Nat
    BY <1>1
  <2> QED BY <1>3, <1>4, <1>8, <2>1, OrderedBy
<1>10. Listed(r) = Listed(l) \cup {s}
  <2>1. \A j \in 1 .. n + 1 : d[j] = s \/ d[j] \in Listed(l)
    <3> SUFFICES ASSUME NEW j \in 1 .. n + 1, d[j] # s PROVE d[j] \in Listed(l)
      OBVIOUS
    <3>1. CASE j <= i
      <4>1. j \in 1 .. n
        BY <3>1
      <4> QED BY <1>1, <1>4, <3>1, <4>1
    <3>2. CASE ~ (j <= i)
      <4>1. j # i + 1
        BY <1>4, <3>2
      <4>2. j - 1 \in 1 .. n
        BY <3>2, <4>1
      <4> QED BY <1>1, <1>4, <3>2, <4>1, <4>2
    <3> QED BY <3>1, <3>2
  <2>2. i + 1 \in 1 .. n + 1
    OBVIOUS
  <2>3. d[i + 1] = s
    <3>1. ~ (i + 1 <= i)
      OBVIOUS
    <3> QED BY <1>4, <2>2, <3>1
  <2>4. s \in Listed(r)
    BY <1>9, <2>2, <2>3
  <2>5. \A x \in Listed(l) : x \in Listed(r)
    <3> SUFFICES ASSUME NEW j \in 1 .. n PROVE c[j] \in Listed(r)
      BY <1>1
    <3>1. PICK k \in 1 .. n + 1 : d[k] = c[j]
      BY <1>4
    <3> QED BY <1>9, <3>1
  <2>6. \A x \in Listed(r) : x = s \/ x \in Listed(l)
    BY <1>9, <2>1
  <2> QED BY <2>4, <2>5, <2>6
<1> QED
  BY <1>l, <1>3, <1>9, <1>10 DEF r, Good

(* A slot that is not in the list may lead anywhere.                       *)
LEMMA LinkAlone ==
  ASSUME NEW l, NEW t, Good(l, t), NEW s \in Slots, s \notin Listed(l),
         NEW next \in Slots \cup {None}
  PROVE  /\ Good(SetNext(l, s, next), t)
         /\ Order(SetNext(l, s, next)) = Order(l)
         /\ Listed(SetNext(l, s, next)) = Listed(l)
         /\ SetNext(l, s, next).list = l.list
         /\ \A x \in Slots : SetNext(l, s, next).link[x] = IF x = s THEN next ELSE l.link[x]
<1> DEFINE r == SetNext(l, s, next)
<1>1. PICK n \in Nat, c \in Places :
         /\ n = Len(c) /\ Chain(c, n) /\ Sorted(c, n, t) /\ Linked(l, c)
         /\ Order(l) = c /\ Listed(l) = {c[i] : i \in 1 .. n}
  BY OrderedHas DEF Good
<1>2. c \in [1 .. n -> Slots] /\ DOMAIN c = 1 .. n
  BY <1>1 DEF Chain
<1>3. Redirected(r, l, s, next)
  BY NextIsSet DEF Good
<1> HIDE DEF r
<1>4. r \in Lists /\ r.list = l.list
      /\ \A x \in Slots : r.link[x] = IF x = s THEN next ELSE l.link[x]
  BY <1>3, SlotsAre DEF Redirected
<1>5. Linked(r, c)
  BY <1>1, <1>2, <1>4 DEF Linked
<1>6. Ordered(r, t) /\ Order(r) = c /\ Listed(r) = {c[i] : i \in 1 .. n}
  BY <1>1, <1>5, OrderedBy
<1> QED
  BY <1>1, <1>4, <1>6 DEF Good, r

(* At the end of the list every slot of it has been passed, and a slot     *)
(* that is not the next one comes later.                                   *)
LEMMA PassedAll ==
  ASSUME NEW l, NEW t, Good(l, t), NEW s2, NEW s1, Pair(l, s2, s1),
         NEW s, NotPassed(l, s, s2)
  PROVE  /\ s1 = None => s \notin Listed(l)
         /\ s1 # None /\ s1 # s => NotPassed(l, s, s1)
<1>1. PICK n, c, k :
         /\ n \in Nat /\ c \in Places /\ k \in 0 .. n
         /\ Chain(c, n) /\ Sorted(c, n, t) /\ Linked(l, c) /\ Order(l) = c
         /\ DOMAIN c = 1 .. n /\ Listed(l) = {c[j] : j \in 1 .. n}
         /\ s2 = Nth(c, k) /\ s1 = Nth(c, k + 1) /\ (k = 0 <=> s2 = None)
  BY PairHas
<1> n \in Nat /\ k \in 0 .. n
  BY <1>1
<1>2. c \in [1 .. n -> Slots] /\ \A i, j \in 1 .. n : i < j => c[i] # c[j]
  BY <1>1 DEF Chain
<1>3. \A i \in 1 .. n : c[i] = s => k < i
  <2> SUFFICES ASSUME NEW i \in 1 .. n, c[i] = s PROVE k < i
    OBVIOUS
  <2>1. CASE k = 0
    BY <2>1
  <2>2. CASE k # 0
    <3>1. k \in 1 .. n
      BY <2>2
    <3>2. c[k] = s2
      BY <1>1, <3>1 DEF Nth
    <3> QED BY <1>1, <3>1, <3>2 DEF NotPassed
  <2> QED BY <2>1, <2>2
<1>4. s1 = None => s \notin Listed(l)
  <2> SUFFICES ASSUME s1 = None, NEW i \in 1 .. n, c[i] = s PROVE FALSE
    BY <1>1
  <2>1. k < i
    BY <1>3
  <2>2. k + 1 \in 1 .. n
    BY <2>1
  <2>3. c[k + 1] = None /\ c[k + 1] \in Slots
    BY <1>1, <1>2, <2>2 DEF Nth
  <2> QED BY <2>3, SlotsAre
<1>5. ASSUME s1 # None, s1 # s, NEW i \in 1 .. n, NEW j \in 1 .. n, c[i] = s, c[j] = s1
      PROVE  j < i
  <2>1. k + 1 \in 1 .. n /\ c[k + 1] = s1
    BY <1>1, <1>5 DEF Nth
  <2>2. k < i
    BY <1>3, <1>5
  <2>3. k + 1 # i
    BY <1>5, <2>1
  <2>4. j = k + 1
    <3>1. ~ (j < k + 1) /\ ~ (k + 1 < j)
      BY <1>2, <1>5, <2>1
    <3> QED BY <3>1
  <2> QED BY <2>2, <2>3, <2>4
<1> QED
  BY <1>1, <1>4, <1>5 DEF NotPassed

(* Time passes alike for all: the order stays.                             *)
Later(t) == [s \in Slots |-> IF t[s] = 0 THEN 0 ELSE t[s] - 1]

LEMMA TimePasses ==
  ASSUME NEW l, NEW t, Good(l, t)
  PROVE  Good(l, Later(t)) /\ \A x, y \in Slots : t[x] <= t[y] => Later(t)[x] <= Later(t)[y]
<1>1. t \in [Slots -> Nat] /\ Later(t) \in [Slots -> Nat]
  BY DEF Good, Later
<1>2. \A x \in Slots : Later(t)[x] = IF t[x] = 0 THEN 0 ELSE t[x] - 1
  BY DEF Later
<1>3. \A x, y \in Slots : t[x] <= t[y] => Later(t)[x] <= Later(t)[y]
  <2> SUFFICES ASSUME NEW x \in Slots, NEW y \in Slots, t[x] <= t[y]
               PROVE  Later(t)[x] <= Later(t)[y]
    OBVIOUS
  <2>1. t[x] \in Nat /\ t[y] \in Nat
    BY <1>1
  <2> QED BY <1>2, <2>1
<1>4. PICK c \in Places : Chained(l, t, c)
  BY DEF Good, Ordered
<1>5. c \in [1 .. Len(c) -> Slots] /\ DOMAIN c = 1 .. Len(c)
  BY PlacesAre
<1>6. Chained(l, Later(t), c)
  BY <1>3, <1>4, <1>5 DEF Chained
<1> QED
  BY <1>1, <1>3, <1>6 DEF Good, Ordered

(* The target of a slot that is not in the list does not count.            *)
LEMMA TargetAlone ==
  ASSUME NEW l, NEW t, Good(l, t), NEW u, u \in [Slots -> Nat],
         \A x \in Listed(l) : u[x] = t[x]
  PROVE  Good(l, u)
<1>1. PICK c \in Places : Chained(l, t, c)
  BY DEF Good, Ordered
<1>2. DOMAIN c = 1 .. Len(c)
  BY PlacesAre
<1>3. Listed(l) = {c[i] : i \in 1 .. Len(c)}
  BY <1>1, OrderIs DEF Chained
<1>4. Chained(l, u, c)
  BY <1>1, <1>2, <1>3 DEF Chained
<1> QED
  BY <1>4 DEF Good, Ordered

-----------------------------------------------------------------------------
(* What is under way fits the list                                         *)

(* What may be unlinked and linked, said of a list.                        *)
LEMMA MayIs ==
  /\ \A s1, s2, next : MayUnlink(s1, s2, next) <=> Unlinks(timers, s1, s2, next)
  /\ \A s, s2 : MayLink(s, s2) <=> Joins(timers, target, s, s2)
BY DEF MayUnlink, MayLink, Stands, Unlinks, Joins, Pair

(* The same list for the operation on s.                                   *)
SameFor(s, l, t, m, u) ==
  /\ Order(m) = Order(l) /\ Listed(m) = Listed(l) /\ m.list = l.list
  /\ \A x \in Listed(l) \cup {s} : m.link[x] = l.link[x] /\ u[x] = t[x]

LEMMA SameOp ==
  ASSUME NEW s, NEW o, NEW l, NEW t, NEW m, NEW u, Good(l, t), SameFor(s, l, t, m, u),
         OpFits(s, o, l, t)
  PROVE  OpFits(s, o, m, u)
<1>1. \A s2, s1 : Pair(l, s2, s1) => Pair(m, s2, s1)
  BY DEF SameFor, Pair, Behind
<1>2. \A s2 : Pair(l, s2, l.link[s]) => l.link[s] = None \/ l.link[s] \in Listed(l)
  BY PairListed
<1>3. o.at = "seek" => Pair(m, o.tmp2, o.tmp1) /\ NotPassed(m, s, o.tmp2)
  BY <1>1 DEF OpFits, SameFor, NotPassed
<1>4. o.at = "unlink" => Unlinks(m, s, o.tmp2, o.next)
  BY <1>1 DEF OpFits, SameFor, Unlinks
<1>5. o.at = "place" => Pair(m, o.tmp2, o.tmp1) /\ (o.tmp2 # None => u[o.tmp2] <= u[s])
  <2>1. o.at = "place" /\ o.tmp2 # None => o.tmp2 \in Listed(l) /\ t[o.tmp2] <= t[s]
    BY DEF OpFits, Pair
  <2> QED BY <1>1, <2>1 DEF OpFits, SameFor
<1>6. o.at = "link" => Joins(m, u, s, o.tmp2)
  <2> SUFFICES ASSUME Joins(l, t, s, o.tmp2) PROVE Joins(m, u, s, o.tmp2)
    BY DEF OpFits
  <2>1. Pair(m, o.tmp2, m.link[s]) /\ s \notin Listed(m)
    BY <1>1 DEF Joins, SameFor
  <2>2. o.tmp2 # None => u[o.tmp2] <= u[s]
    BY DEF Joins, Pair, SameFor
  <2>3. m.link[s] # None => u[s] <= u[m.link[s]]
    BY <1>2 DEF Joins, SameFor
  <2> QED BY <2>1, <2>2, <2>3 DEF Joins
<1> QED
  BY <1>3, <1>4, <1>5, <1>6 DEF OpFits

LEMMA SameWalk ==
  ASSUME NEW w, NEW l, NEW t, NEW m, NEW u, Good(l, t),
         Order(m) = Order(l), Listed(m) = Listed(l), m.list = l.list,
         \A x \in Listed(l) : m.link[x] = l.link[x] /\ u[x] = t[x],
         WalkFits(w, l, t)
  PROVE  WalkFits(w, m, u)
<1>1. w.at = "turn" => NextFits(m, u, w.tmp1, w.tmp2)
  BY DEF WalkFits, NextFits
<1>2. w.at = "unlink" => Unlinks(m, w.tmp1, w.tmp2, w.tmp3)
  <2>1. \A s2, s1 : Pair(l, s2, s1) => Pair(m, s2, s1)
    BY DEF Pair, Behind
  <2>2. \A s2, s1 : Pair(l, s2, s1) /\ s1 # None => s1 \in Listed(l)
    BY PairListed
  <2> QED BY <2>1, <2>2 DEF WalkFits, Unlinks
<1> QED
  BY <1>1, <1>2 DEF WalkFits

(* Time passes for the operations, too.                                    *)
LEMMA LaterOp ==
  ASSUME NEW s \in Slots, NEW o, NEW l, NEW t, Good(l, t), OpFits(s, o, l, t)
  PROVE  OpFits(s, o, l, Later(t))
<1>1. \A x, y \in Slots : t[x] <= t[y] => Later(t)[x] <= Later(t)[y]
  BY TimePasses
<1>2. Listed(l) \subseteq Slots
  BY HeadFirst
<1>3. \A s2, s1 : Pair(l, s2, s1) => s1 = None \/ s1 \in Listed(l)
  BY PairListed
<1>4. o.at = "place" /\ o.tmp2 # None => Later(t)[o.tmp2] <= Later(t)[s]
  BY <1>1, <1>2 DEF OpFits, Pair
<1>5. o.at = "link" => Joins(l, Later(t), s, o.tmp2)
  <2> SUFFICES ASSUME Joins(l, t, s, o.tmp2) PROVE Joins(l, Later(t), s, o.tmp2)
    BY DEF OpFits
  <2>1. Pair(l, o.tmp2, l.link[s]) /\ s \notin Listed(l)
    BY DEF Joins
  <2>2. o.tmp2 # None => Later(t)[o.tmp2] <= Later(t)[s]
    BY <1>1, <1>2 DEF Joins, Pair
  <2>3. l.link[s] # None => Later(t)[s] <= Later(t)[l.link[s]]
    BY <1>1, <1>2, <1>3, <2>1 DEF Joins
  <2> QED BY <2>1, <2>2, <2>3 DEF Joins
<1> QED
  BY <1>4, <1>5 DEF OpFits

(* The head of the list is where a walk begins.                            *)
LEMMA HeadIsNext ==
  ASSUME NEW l, NEW t, Good(l, t)
  PROVE  NextFits(l, t, l.list, None)
<1>1. /\ Listed(l) \subseteq Slots /\ (l.list = None \/ l.list \in Listed(l))
      /\ \A s \in Listed(l) : l.list # None /\ t[l.list] <= t[s]
  BY HeadFirst
<1>2. t \in [Slots -> Nat]
  BY DEF Good
<1>3. ~ (l.list # None /\ t[l.list] = 0) => \A s \in Listed(l) : t[s] > 0
  <2> SUFFICES ASSUME ~ (l.list # None /\ t[l.list] = 0), NEW s \in Listed(l) PROVE t[s] > 0
    OBVIOUS
  <2>1. l.list # None /\ t[l.list] # 0 /\ t[l.list] \in Nat /\ t[s] \in Nat /\ t[l.list] <= t[s]
    BY <1>1, <1>2
  <2> QED BY <2>1
<1> QED
  BY <1>1, <1>3 DEF NextFits

(* The head of the list is where an operation begins.                      *)
LEMMA HeadIsPair ==
  ASSUME NEW l, NEW t, Good(l, t), NEW s
  PROVE  Pair(l, None, l.list) /\ NotPassed(l, s, None)
<1>1. PICK n \in Nat, c \in Places :
         /\ n = Len(c) /\ Chain(c, n) /\ Sorted(c, n, t) /\ Linked(l, c)
         /\ Order(l) = c /\ Listed(l) = {c[i] : i \in 1 .. n}
  BY OrderedHas DEF Good
<1>2. c \in [1 .. n -> Slots] /\ DOMAIN c = 1 .. n
  BY <1>1 DEF Chain
<1>3. NotPassed(l, s, None)
  BY <1>1, <1>2, SlotsAre DEF NotPassed
<1> QED
  BY <1>3 DEF Pair, Behind

-----------------------------------------------------------------------------
(* The steps: what holds where they begin                                  *)

LEMMA StateIs ==
  ASSUME TimerInv, Whole
  PROVE  /\ astray = "no" /\ Fits /\ Good(timers, target) /\ Listed(timers) \subseteq Slots
         /\ \A s \in Slots : op[s] \in Ops /\ op[s].tmp1 \in Slots \cup {None}
                             /\ op[s].tmp2 \in Slots \cup {None}
                             /\ op[s].next \in Slots \cup {None} /\ timers.link[s] \in Slots \cup {None}
         /\ timers.list \in Slots \cup {None}
<1>1. astray = "no" /\ Fits /\ Good(timers, target)
  BY DEF TimerInv, Whole, Fits
<1>2. Listed(timers) \subseteq Slots
  BY <1>1, HeadFirst
<1> QED
  BY <1>1, <1>2 DEF TimerInv, TimerTyped, Ops, Lists

(* Setting a pointer of the list.                                          *)
LEMMA NextTyped ==
  ASSUME NEW l \in Lists, NEW s \in Slots \cup {None}, NEW next \in Slots \cup {None}
  PROVE  SetNext(l, s, next) \in Lists
BY NextIsSet DEF Redirected

(* Who has written knows of all others that they have met it.              *)
LEMMA WritesMeans ==
  ASSUME NEW w, NEW may \in BOOLEAN, Writes(w, may), w \notin met => may
  PROVE  /\ astray' \in {"no", "met"} /\ (astray' = "no" => may)
         /\ w \notin met' => w \notin met \/ w \notin UnderWay'
         /\ \A x \in Slots : x # w /\ x \notin met' /\ op'[x] = op[x] => op[x].at = "none"
         /\ Handler \notin met' /\ w # Handler /\ walk.at # "idle" /\ walk'.at # "idle" =>
              InCallBack(w) /\ Handler \notin met
<1>1. met' = (met \cup (UnderWay \ {w, IF InCallBack(w) THEN Handler ELSE w})) \cap UnderWay'
  BY DEF Writes
<1>2. astray' \in {"no", "met"} /\ (astray' = "no" => may)
  BY DEF Writes
<1>3. w \notin met' => w \notin met \/ w \notin UnderWay'
  BY <1>1
<1>4. ASSUME NEW x \in Slots, x # w, x \notin met', op'[x] = op[x], op[x].at # "none"
      PROVE  FALSE
  <2>1. x \in UnderWay /\ x \in UnderWay'
    BY <1>4 DEF UnderWay
  <2>2. x # Handler
    BY SlotsAre DEF Handler, None
  <2> QED BY <1>1, <1>4, <2>1, <2>2
<1>5. ASSUME Handler \notin met', w # Handler, walk.at # "idle", walk'.at # "idle"
      PROVE  InCallBack(w) /\ Handler \notin met
  <2>1. Handler \in UnderWay /\ Handler \in UnderWay'
    BY <1>5 DEF UnderWay
  <2> QED BY <1>1, <1>5, <2>1
<1> QED
  BY <1>2, <1>3, <1>4, <1>5

(* The slot of the handler and of one who writes.                          *)
LEMMA SlotIsNotHandler == \A s \in Slots : s # Handler /\ s # None
BY SlotsAre DEF Handler, None

(* A step of the operation on s that writes nothing.                       *)
LEMMA OpStep ==
  ASSUME TimerInv, Whole, NEW s \in Slots, NEW o \in Ops,
         op' = [op EXCEPT ![s] = o], op[s].at # "none", o.at # "none",
         UNCHANGED <<timers, target, slot, walk, met, astray>>,
         o.at = "add" => o.tmp2 = None,
         o.at \in {"add", "place", "link"} => op[s].at = o.at,
         s \notin met => OpFits(s, o, timers, target)
  PROVE  TimerInv'
<1>1. Fits /\ Good(timers, target)
  BY StateIs
<1>2. TimerTyped'
  BY DEF TimerInv, TimerTyped
<1>3. \A x \in Slots : op'[x] = IF x = s THEN o ELSE op[x]
  BY DEF TimerInv, TimerTyped
<1>4. OnIsListed'
  BY <1>1, <1>3 DEF Fits, OnIsListed
<1>5. OpsHold'
  BY <1>1, <1>3 DEF Fits, OpsHold
<1>6. WalkHolds'
  <2>1. walk.at = "back" => walk.tmp1 \in Slots
    BY <1>1 DEF Fits, WalkHolds, TimerInv, TimerTyped, Walkings
  <2> QED BY <1>1, <1>3, <2>1 DEF Fits, WalkHolds
<1>7. \A x \in Slots : x \notin met' => OpFits(x, op'[x], timers', target')
  BY <1>1, <1>3 DEF Fits
<1> QED
  BY <1>1, <1>2, <1>4, <1>5, <1>6, <1>7 DEF TimerInv, Fits

(* The loops of Remove and Add go on to the next slot.                     *)
LEMMA PassesKeeps ==
  ASSUME TimerInv, NEW s \in Slots, RemovePasses(s) \/ AddPasses(s)
  PROVE  TimerInv'
<1> DEFINE tmp1 == op[s].tmp1
           o == [op[s] EXCEPT !.tmp2 = tmp1, !.tmp1 = timers.link[tmp1]]
<1>1. Whole /\ op[s].at \in {"seek", "place"} /\ tmp1 # None /\ Passes(s)
      /\ (op[s].at = "seek" => tmp1 # s)
      /\ (op[s].at = "place" => target[tmp1] < target[s] \/ target[tmp1] = 0)
  BY DEF RemovePasses, AddPasses, Looks
<1>2. /\ Fits /\ Good(timers, target) /\ op[s] \in Ops
      /\ tmp1 \in Slots /\ timers.link[tmp1] \in Slots \cup {None}
  BY <1>1, StateIs
<1>3. o \in Ops /\ o.at = op[s].at /\ o.tmp2 = tmp1 /\ o.tmp1 = timers.link[tmp1]
  BY <1>2 DEF Ops
<1>4. op' = [op EXCEPT ![s] = o] /\ UNCHANGED <<timers, target, slot, walk, met, astray>>
  BY <1>1 DEF Passes
<1>5. ASSUME s \notin met PROVE OpFits(s, o, timers, target)
  <2>1. OpFits(s, op[s], timers, target)
    BY <1>2, <1>5 DEF Fits
  <2>2. Pair(timers, op[s].tmp2, tmp1)
    BY <1>1, <2>1 DEF OpFits
  <2>3. Pair(timers, tmp1, timers.link[tmp1])
    BY <1>1, <1>2, <2>2, PairListed
  <2>4. CASE op[s].at = "seek"
    <3>1. NotPassed(timers, s, op[s].tmp2)
      BY <2>1, <2>4 DEF OpFits
    <3>2. NotPassed(timers, s, tmp1)
      BY <1>1, <1>2, <2>2, <2>4, <3>1, PassedAll
    <3> QED BY <1>3, <2>3, <2>4, <3>2 DEF OpFits
  <2>5. CASE op[s].at = "place"
    <3>1. target[tmp1] \in Nat /\ target[s] \in Nat
      BY <1>2 DEF Good
    <3>2. target[tmp1] <= target[s]
      BY <1>1, <2>5, <3>1
    <3> QED BY <1>3, <2>3, <2>5, <3>2 DEF OpFits
  <2> QED BY <1>1, <2>4, <2>5
<1> HIDE DEF o, tmp1
<1> QED
  BY <1>1, <1>3, <1>4, <1>5, OpStep

(* Remove has found the slot.                                              *)
LEMMA RemoveFindsKeeps ==
  ASSUME TimerInv, NEW s \in Slots, RemoveFinds(s)
  PROVE  TimerInv'
<1> DEFINE o == [op[s] EXCEPT !.at = "unlink", !.next = timers.link[s]]
<1>1. Whole /\ op[s].at = "seek" /\ op[s].tmp1 = s
  BY DEF RemoveFinds, Looks
<1>2. Fits /\ Good(timers, target) /\ op[s] \in Ops /\ timers.link[s] \in Slots \cup {None}
  BY <1>1, StateIs
<1>3. o \in Ops /\ o.at = "unlink" /\ o.tmp2 = op[s].tmp2 /\ o.next = timers.link[s]
  BY <1>2 DEF Ops
<1>4. op' = [op EXCEPT ![s] = o] /\ UNCHANGED <<timers, target, slot, walk, met, astray>>
  BY DEF RemoveFinds
<1>5. ASSUME s \notin met PROVE OpFits(s, o, timers, target)
  <2>1. Pair(timers, op[s].tmp2, s)
    BY <1>1, <1>2, <1>5 DEF Fits, OpFits
  <2> QED BY <1>3, <2>1, SlotsAre DEF OpFits, Unlinks
<1> HIDE DEF o
<1> QED
  BY <1>1, <1>3, <1>4, <1>5, OpStep

(* Add has begun: it sets the target of a slot that is in no list.         *)
LEMMA AddBeginsKeeps ==
  ASSUME TimerInv, NEW s \in Slots, AddBegins(s)
  PROVE  TimerInv'
<1>1. Whole /\ op[s].at = "add"
  BY DEF AddBegins, Looks
<1>2. /\ Fits /\ Good(timers, target) /\ op[s] \in Ops /\ timers.list \in Slots \cup {None}
      /\ Listed(timers) \subseteq Slots /\ astray = "no"
  BY <1>1, StateIs
<1> DEFINE o == [op[s] EXCEPT !.at = "place", !.tmp1 = timers.list]
<1>3. /\ op' = [op EXCEPT ![s] = o]
      /\ UNCHANGED <<timers, slot, walk, astray>> /\ met' = met \ {s}
  BY DEF AddBegins
<1>4. PICK secs \in 1 .. MaxSecs : target' = [target EXCEPT ![s] = secs]
  BY DEF AddBegins
<1>t. secs \in Nat /\ secs > 0 /\ secs \in 0 .. MaxSecs
  BY TimerListAssumption
<1>5. o \in Ops /\ o.at = "place" /\ o.tmp2 = op[s].tmp2 /\ o.tmp1 = timers.list
  BY <1>2 DEF Ops
<1>6. s \notin Listed(timers) /\ op[s].tmp2 = None
  BY <1>1, <1>2 DEF Fits, OpsHold
<1> HIDE DEF o
<1>7. TimerTyped'
  BY <1>3, <1>4, <1>5, <1>t DEF TimerInv, TimerTyped
<1>8. \A x \in Slots : op'[x] = (IF x = s THEN o ELSE op[x])
                       /\ target'[x] = IF x = s THEN secs ELSE target[x]
  BY <1>3, <1>4 DEF TimerInv, TimerTyped
<1>9. target' \in [Slots -> Nat] /\ \A x \in Listed(timers) : target'[x] = target[x]
  <2>1. target \in [Slots -> Nat]
    BY <1>2 DEF Good
  <2> QED BY <1>2, <1>4, <1>6, <1>8, <1>t, <2>1
<1>10. Good(timers, target')
  BY <1>2, <1>9, TargetAlone
<1>11. OnIsListed'
  BY <1>2, <1>3, <1>5, <1>8 DEF Fits, OnIsListed
<1>12. OpsHold'
  BY <1>1, <1>2, <1>3, <1>5, <1>6, <1>8 DEF Fits, OpsHold
<1>13. WalkHolds'
  <2>1. walk.at = "back" => walk.tmp1 \in Slots
    BY <1>2 DEF Fits, WalkHolds, TimerInv, TimerTyped, Walkings
  <2>2. Handler \notin met' => Handler \notin met
    BY <1>3, SlotIsNotHandler
  <2> QED BY <1>2, <1>3, <1>5, <1>8, <1>t, <2>1, <2>2 DEF Fits, WalkHolds
<1>14. ASSUME NEW x \in Slots, x \notin met' PROVE OpFits(x, op'[x], timers, target')
  <2>1. CASE x = s
    <3>1. Pair(timers, None, timers.list)
      BY <1>2, HeadIsPair
    <3> QED BY <1>5, <1>6, <1>8, <2>1, <3>1 DEF OpFits
  <2>2. CASE x # s
    <3>1. OpFits(x, op[x], timers, target)
      BY <1>2, <1>3, <1>14, <2>2 DEF Fits
    <3>2. SameFor(x, timers, target, timers, target')
      BY <1>8, <1>9, <2>2 DEF SameFor
    <3>3. OpFits(x, op[x], timers, target')
      BY <1>2, <3>1, <3>2, SameOp
    <3> QED BY <1>8, <2>2, <3>3
  <2> QED BY <2>1, <2>2
<1>15. ASSUME Handler \notin met' PROVE WalkFits(walk, timers, target')
  <2>1. WalkFits(walk, timers, target)
    BY <1>2, <1>3, <1>15, SlotIsNotHandler DEF Fits
  <2> QED BY <1>2, <1>9, <2>1, SameWalk
<1> QED
  BY <1>3, <1>7, <1>10, <1>11, <1>12, <1>13, <1>14, <1>15 DEF TimerInv, Fits

(* Onward is a walk.                                                       *)
LEMMA OnwardIs ==
  ASSUME TimerTyped
  PROVE  /\ Onward \in Walkings /\ Onward.at = "turn" /\ Onward.tmp1 = walk.tmp3
         /\ Onward.tmp2 = walk.tmp2
BY DEF TimerTyped, Walkings, Onward

(* What the end of Remove leaves, but for the list.                        *)
LEMMA RemoveEndsMeans ==
  ASSUME TimerInv, NEW s \in Slots, RemoveEnds(s)
  PROVE  /\ op' \in [Slots -> Ops] /\ walk' \in Walkings
         /\ slot' \in [Slots -> {"none", "off", "on"}]
         /\ \A x \in Slots : x # s => op'[x] = op[x] /\ slot'[x] = slot[x]
         /\ op'[s].at \in {"none", "add"} /\ op'[s].tmp2 = None /\ slot'[s] # "on"
         /\ op'[s].at = "add" => slot'[s] = "off"
         /\ \/ walk' = walk /\ (InCallBack(s) => op'[s].at = "add")
            \/ walk' = Onward /\ InCallBack(s)
<1>1. TimerTyped /\ op[s].then \in {"none", "off", "on"}
  BY DEF TimerInv, TimerTyped, Ops
<1>2. slot' = [slot EXCEPT ![s] = IF op[s].then = "none" THEN "none" ELSE "off"]
  BY DEF RemoveEnds
<1>3. /\ slot' \in [Slots -> {"none", "off", "on"}] /\ slot'[s] # "on"
      /\ \A x \in Slots : x # s => slot'[x] = slot[x]
      /\ op[s].then # "none" => slot'[s] = "off"
  BY <1>1, <1>2 DEF TimerTyped
<1> DEFINE add == [NoOp EXCEPT !.at = "add", !.then = "on"]
<1>4. /\ NoOp \in Ops /\ NoOp.at = "none" /\ NoOp.tmp2 = None
      /\ add \in Ops /\ add.at = "add" /\ add.tmp2 = None
  BY DEF NoOp, Ops
<1> HIDE DEF add
<1>5. CASE op[s].then = "on"
  <2>1. op' = [op EXCEPT ![s] = add] /\ walk' = walk
    BY <1>5 DEF RemoveEnds, add
  <2>2. op' \in [Slots -> Ops] /\ op'[s] = add /\ \A x \in Slots : x # s => op'[x] = op[x]
    BY <1>1, <1>4, <2>1 DEF TimerTyped
  <2>3. walk' \in Walkings
    BY <1>1, <2>1 DEF TimerTyped
  <2> QED BY <1>3, <1>4, <1>5, <2>1, <2>2, <2>3
<1>6. CASE op[s].then # "on"
  <2>1. op' = [op EXCEPT ![s] = NoOp] /\ walk' = IF InCallBack(s) THEN Onward ELSE walk
    BY <1>6 DEF RemoveEnds, GoesBack
  <2>2. op' \in [Slots -> Ops] /\ op'[s] = NoOp /\ \A x \in Slots : x # s => op'[x] = op[x]
    BY <1>1, <1>4, <2>1 DEF TimerTyped
  <2>3. walk' \in Walkings
    BY <1>1, <2>1, OnwardIs DEF TimerTyped
  <2> QED BY <1>3, <1>4, <2>1, <2>2, <2>3
<1> QED
  BY <1>5, <1>6

(* Remove has taken s off the list, or it was not there.                   *)
LEMMA RemoveDone ==
  ASSUME TimerInv, Whole, NEW s \in Slots, op[s].at # "none", RemoveEnds(s),
         UNCHANGED target, NEW may \in BOOLEAN, Writes(s, may), s \notin met => may,
         timers' \in Lists,
         may => Good(timers', target) /\ Listed(timers') = Listed(timers) \ {s},
         may /\ s \notin Listed(timers) => timers'.list = timers.list
  PROVE  TimerInv'
<1>1. Fits /\ Good(timers, target) /\ Listed(timers) \subseteq Slots /\ TimerTyped
  BY StateIs DEF TimerInv
<1>2. /\ op' \in [Slots -> Ops] /\ walk' \in Walkings
      /\ slot' \in [Slots -> {"none", "off", "on"}]
      /\ \A x \in Slots : x # s => op'[x] = op[x] /\ slot'[x] = slot[x]
      /\ op'[s].at \in {"none", "add"} /\ op'[s].tmp2 = None /\ slot'[s] # "on"
      /\ op'[s].at = "add" => slot'[s] = "off"
      /\ \/ walk' = walk /\ (InCallBack(s) => op'[s].at = "add")
         \/ walk' = Onward /\ InCallBack(s)
  BY RemoveEndsMeans
<1>3. /\ astray' \in {"no", "met"} /\ (astray' = "no" => may)
      /\ \A x \in Slots : x # s /\ x \notin met' /\ op'[x] = op[x] => op[x].at = "none"
      /\ Handler \notin met' /\ walk.at # "idle" /\ walk'.at # "idle" =>
           InCallBack(s) /\ Handler \notin met
  BY WritesMeans, SlotIsNotHandler
<1>4. TimerTyped'
  BY <1>1, <1>2, <1>3 DEF TimerTyped
<1> SUFFICES ASSUME astray' = "no" PROVE Fits'
  BY <1>4 DEF TimerInv
<1>5. Good(timers', target) /\ Listed(timers') = Listed(timers) \ {s}
      /\ (s \notin Listed(timers) => timers'.list = timers.list)
  BY <1>3
<1>o. Onward.at = "turn" /\ Onward.tmp1 = walk.tmp3 /\ Onward.tmp2 = walk.tmp2
  BY <1>1, OnwardIs
<1>6. OnIsListed'
  <2>1. \A x \in Listed(timers') : slot'[x] = "on"
    BY <1>1, <1>2, <1>5 DEF Fits, OnIsListed
  <2>2. ASSUME NEW x \in Slots, slot'[x] = "on"
        PROVE  \/ x \in Listed(timers') \/ op'[x].at # "none"
               \/ walk'.at = "call" /\ x = walk'.tmp1
    <3>1. x # s /\ slot[x] = "on" /\ op'[x] = op[x]
      BY <1>2, <2>2
    <3>2. \/ x \in Listed(timers) \/ op[x].at # "none"
          \/ walk.at = "call" /\ x = walk.tmp1
      BY <1>1, <3>1 DEF Fits, OnIsListed
    <3>3. walk.at = "call" => walk' = walk
      BY <1>2 DEF InCallBack
    <3> QED BY <1>5, <3>1, <3>2, <3>3
  <2> QED BY <2>1, <2>2 DEF OnIsListed
<1>7. OpsHold'
  BY <1>1, <1>2, <1>5 DEF Fits, OpsHold
<1>8. WalkHolds'
  <2>1. CASE walk' = Onward
    BY <1>o, <2>1 DEF WalkHolds
  <2>2. CASE walk' = walk /\ (InCallBack(s) => op'[s].at = "add")
    <3>1. walk.at \in {"unlink", "call", "back"} => walk.tmp1 # None /\ walk.tmp1 \in Slots
      BY <1>1 DEF Fits, WalkHolds, TimerTyped, Walkings
    <3>2. walk.at = "back" =>
            /\ op'[walk.tmp1].at # "none"
            /\ op'[walk.tmp1].at \in {"place", "link"} => target[walk.tmp1] > 0
      BY <1>1, <1>2, <2>2, <3>1 DEF Fits, WalkHolds, InCallBack
    <3>3. walk.at = "call" => Handler \in met'
      BY <1>3, <2>2 DEF InCallBack
    <3> QED BY <2>2, <3>1, <3>2, <3>3 DEF WalkHolds
  <2> QED BY <1>2, <2>1, <2>2
<1>9. ASSUME NEW x \in Slots, x \notin met' PROVE OpFits(x, op'[x], timers', target)
  <2>1. op'[x].at \in {"none", "add"}
    BY <1>2, <1>3, <1>9
  <2> QED BY <2>1 DEF OpFits
<1>10. ASSUME Handler \notin met' PROVE WalkFits(walk', timers', target)
  <2>1. CASE walk'.at = "idle"
    BY <2>1 DEF WalkFits
  <2>2. CASE walk'.at # "idle" /\ walk.at = "idle"
    BY <1>2, <2>2 DEF InCallBack
  <2>3. CASE walk'.at # "idle" /\ walk.at # "idle"
    <3>1. InCallBack(s) /\ Handler \notin met
      BY <1>3, <1>10, <2>3
    <3>2. walk.at = "back" /\ walk.tmp1 = s
      BY <3>1 DEF InCallBack
    <3>3. walk.tmp2 = None /\ walk.tmp3 = timers.list /\ s \notin Listed(timers)
      BY <1>1, <3>1, <3>2 DEF Fits, WalkFits
    <3>4. timers'.list = timers.list /\ s \notin Listed(timers')
      BY <1>5, <3>3
    <3>5. NextFits(timers', target, timers'.list, None)
      BY <1>5, HeadIsNext
    <3>6. CASE walk' = Onward
      BY <1>o, <3>3, <3>4, <3>5, <3>6 DEF WalkFits
    <3>7. CASE walk' = walk
      BY <3>2, <3>3, <3>4, <3>7 DEF WalkFits
    <3> QED BY <1>2, <3>6, <3>7
  <2> QED BY <2>1, <2>2, <2>3
<1> QED
  BY <1>5, <1>6, <1>7, <1>8, <1>9, <1>10 DEF Fits

LEMMA RemoveUnlinksKeeps ==
  ASSUME TimerInv, NEW s \in Slots, RemoveUnlinks(s)
  PROVE  TimerInv'
<1> DEFINE s2 == op[s].tmp2
           next == op[s].next
           may == MayUnlink(s, s2, next)
<1>1. /\ Whole /\ op[s].at = "unlink" /\ RemoveEnds(s) /\ UNCHANGED target
      /\ timers' = SetNext(timers, s2, next) /\ Writes(s, may)
  BY DEF RemoveUnlinks, Looks
<1>2. /\ Fits /\ Good(timers, target) /\ s2 \in Slots \cup {None} /\ next \in Slots \cup {None}
      /\ timers \in Lists
  BY <1>1, StateIs DEF Good
<1>3. timers' \in Lists
  BY <1>1, <1>2, NextTyped
<1>4. may <=> Unlinks(timers, s, s2, next)
  BY MayIs
<1>5. s \notin met => may
  BY <1>1, <1>2, <1>4 DEF Fits, OpFits
<1>6. may => Good(timers', target) /\ Listed(timers') = Listed(timers) \ {s}
  BY <1>1, <1>2, <1>4, Unlinked DEF Unlinks
<1>7. may => s \in Listed(timers)
  BY <1>2, <1>4, PairListed DEF Unlinks
<1>8. may \in BOOLEAN
  BY DEF MayUnlink
<1> HIDE DEF may
<1> QED
  BY <1>1, <1>3, <1>5, <1>6, <1>7, <1>8, RemoveDone

LEMMA RemoveFindsNotKeeps ==
  ASSUME TimerInv, NEW s \in Slots, RemoveFindsNot(s)
  PROVE  TimerInv'
<1> DEFINE may == s \notin Listed(timers)
<1>1. /\ Whole /\ op[s].at = "seek" /\ op[s].tmp1 = None /\ RemoveEnds(s)
      /\ timers' = timers /\ UNCHANGED target /\ Writes(s, may)
  BY DEF RemoveFindsNot, Looks
<1>2. Fits /\ Good(timers, target) /\ timers \in Lists
  BY <1>1, StateIs DEF Good
<1>3. s \notin met => may
  <2> SUFFICES ASSUME s \notin met PROVE may
    OBVIOUS
  <2>1. OpFits(s, op[s], timers, target)
    BY <1>2 DEF Fits
  <2>2. Pair(timers, op[s].tmp2, None) /\ NotPassed(timers, s, op[s].tmp2)
    BY <1>1, <2>1 DEF OpFits
  <2> QED BY <1>2, <2>2, PassedAll
<1>4. may => Good(timers', target) /\ Listed(timers') = Listed(timers) \ {s}
  BY <1>1, <1>2
<1>5. timers' \in Lists /\ timers'.list = timers.list /\ may \in BOOLEAN
  BY <1>1, <1>2
<1> HIDE DEF may
<1> QED
  BY <1>1, <1>3, <1>4, <1>5, RemoveDone

(* The new slot leads to what will be behind it; nothing leads to it yet.  *)
LEMMA AddHoldsKeeps ==
  ASSUME TimerInv, NEW s \in Slots, AddHolds(s)
  PROVE  TimerInv'
<1> DEFINE tmp1 == op[s].tmp1
           o == [op[s] EXCEPT !.at = "link", !.tmp1 = None]
<1>1. /\ Whole /\ op[s].at = "place" /\ (tmp1 # None => target[tmp1] >= target[s])
      /\ timers' = SetNext(timers, s, tmp1) /\ op' = [op EXCEPT ![s] = o]
      /\ UNCHANGED <<target, slot, walk>> /\ Writes(s, TRUE)
  BY DEF AddHolds, Looks
<1>2. /\ Fits /\ Good(timers, target) /\ Listed(timers) \subseteq Slots /\ TimerTyped
      /\ op[s] \in Ops /\ tmp1 \in Slots \cup {None} /\ timers \in Lists
  BY <1>1, StateIs DEF TimerInv, Good
<1>3. o \in Ops /\ o.at = "link" /\ o.tmp2 = op[s].tmp2
  BY <1>2 DEF Ops
<1>4. s \notin Listed(timers)
  BY <1>1, <1>2 DEF Fits, OpsHold
<1>5. /\ astray' \in {"no", "met"} /\ (s \notin met' => s \notin met \/ s \notin UnderWay')
      /\ \A x \in Slots : x # s /\ x \notin met' /\ op'[x] = op[x] => op[x].at = "none"
      /\ Handler \notin met' /\ walk.at # "idle" /\ walk'.at # "idle" =>
           InCallBack(s) /\ Handler \notin met
  BY <1>1, WritesMeans, SlotIsNotHandler
<1> HIDE DEF o
<1>6. \A x \in Slots : op'[x] = IF x = s THEN o ELSE op[x]
  BY <1>1, <1>2 DEF TimerTyped
<1>7. /\ Good(timers', target) /\ Order(timers') = Order(timers)
      /\ Listed(timers') = Listed(timers) /\ timers'.list = timers.list
      /\ \A x \in Slots : timers'.link[x] = IF x = s THEN tmp1 ELSE timers.link[x]
  BY <1>1, <1>2, <1>4, LinkAlone
<1>8. TimerTyped'
  BY <1>1, <1>2, <1>3, <1>5, <1>7 DEF TimerTyped, Good
<1>9. OnIsListed'
  BY <1>1, <1>2, <1>3, <1>6, <1>7 DEF Fits, OnIsListed
<1>10. OpsHold'
  BY <1>1, <1>2, <1>3, <1>4, <1>6, <1>7 DEF Fits, OpsHold
<1>11. WalkHolds'
  <2>1. walk.at \in {"unlink", "call", "back"} => walk.tmp1 # None /\ walk.tmp1 \in Slots
    BY <1>2 DEF Fits, WalkHolds, TimerTyped, Walkings
  <2>2. walk.at = "back" =>
          /\ op'[walk.tmp1].at # "none"
          /\ op'[walk.tmp1].at \in {"place", "link"} => target[walk.tmp1] > 0
    BY <1>1, <1>2, <1>3, <1>6, <2>1 DEF Fits, WalkHolds
  <2>3. walk.at = "call" => Handler \in met'
    BY <1>1, <1>5 DEF InCallBack
  <2> QED BY <1>1, <2>1, <2>2, <2>3 DEF WalkHolds
<1>12. ASSUME NEW x \in Slots, x \notin met' PROVE OpFits(x, op'[x], timers', target)
  <2>1. CASE x # s
    <3>1. op'[x].at = "none"
      BY <1>5, <1>6, <1>12, <2>1
    <3> QED BY <3>1 DEF OpFits
  <2>2. CASE x = s
    <3>1. s \in UnderWay'
      BY <1>3, <1>6 DEF UnderWay
    <3>2. OpFits(s, op[s], timers, target)
      BY <1>2, <1>5, <1>12, <2>2, <3>1 DEF Fits
    <3>3. /\ Pair(timers, op[s].tmp2, tmp1)
          /\ op[s].tmp2 # None => target[op[s].tmp2] <= target[s]
      BY <1>1, <3>2 DEF OpFits
    <3>4. Pair(timers', op[s].tmp2, tmp1)
      BY <1>2, <1>4, <1>7, <3>3 DEF Pair, Behind
    <3>5. target \in [Slots -> Nat]
      BY <1>2 DEF Good
    <3>6. tmp1 # None => target[s] <= target[tmp1]
      BY <1>1, <1>2, <3>5
    <3>7. Joins(timers', target, s, op[s].tmp2)
      BY <1>4, <1>7, <3>3, <3>4, <3>6 DEF Joins
    <3> QED BY <1>3, <1>6, <2>2, <3>7 DEF OpFits
  <2> QED BY <2>1, <2>2
<1>13. ASSUME Handler \notin met' PROVE WalkFits(walk, timers', target)
  <2>1. CASE walk.at = "idle"
    BY <2>1 DEF WalkFits
  <2>2. CASE walk.at # "idle"
    <3>1. WalkFits(walk, timers, target)
      BY <1>1, <1>2, <1>5, <1>13, <2>2 DEF Fits
    <3>2. \A x \in Listed(timers) : timers'.link[x] = timers.link[x]
      BY <1>2, <1>4, <1>7
    <3> QED BY <1>2, <1>7, <3>1, <3>2, SameWalk
  <2> QED BY <2>1, <2>2
<1> QED
  BY <1>1, <1>7, <1>8, <1>9, <1>10, <1>11, <1>12, <1>13 DEF TimerInv, Fits

(* The new slot is in the list.                                            *)
LEMMA AddLinksKeeps ==
  ASSUME TimerInv, NEW s \in Slots, AddLinks(s)
  PROVE  TimerInv'
<1> DEFINE s2 == op[s].tmp2
           may == MayLink(s, s2)
<1>1. /\ Whole /\ op[s].at = "link" /\ timers' = SetNext(timers, s2, s)
      /\ op' = [op EXCEPT ![s] = NoOp] /\ slot' = [slot EXCEPT ![s] = "on"]
      /\ GoesBack(s) /\ target' = target /\ Writes(s, may)
  BY DEF AddLinks, Looks
<1>2. /\ Fits /\ Good(timers, target) /\ Listed(timers) \subseteq Slots /\ TimerTyped
      /\ s2 \in Slots \cup {None} /\ timers \in Lists /\ timers.list \in Slots \cup {None}
  BY <1>1, StateIs DEF TimerInv, Good
<1>3. s \notin Listed(timers) /\ (may <=> Joins(timers, target, s, s2)) /\ may \in BOOLEAN
  BY <1>1, <1>2, MayIs DEF Fits, OpsHold, MayLink
<1>4. s \notin met => may
  BY <1>1, <1>2, <1>3 DEF Fits, OpFits
<1>5. may => /\ Good(timers', target) /\ Listed(timers') = Listed(timers) \cup {s}
             /\ timers'.list = IF s2 = None THEN s ELSE timers.list
             /\ s2 = None => timers.link[s] = timers.list
             /\ timers.link[s] # None => target[s] <= target[timers.link[s]]
  <2> SUFFICES ASSUME Joins(timers, target, s, s2)
               PROVE  /\ Good(timers', target) /\ Listed(timers') = Listed(timers) \cup {s}
                      /\ timers'.list = IF s2 = None THEN s ELSE timers.list
                      /\ s2 = None => timers.link[s] = timers.list
                      /\ timers.link[s] # None => target[s] <= target[timers.link[s]]
    BY <1>3
  <2>1. /\ Pair(timers, s2, timers.link[s]) /\ (s2 # None => target[s2] <= target[s])
        /\ timers.link[s] # None => target[s] <= target[timers.link[s]]
    BY DEF Joins
  <2>2. s2 = None => timers.link[s] = timers.list
    BY <2>1 DEF Pair, Behind
  <2>3. /\ Good(timers', target) /\ Listed(timers') = Listed(timers) \cup {s}
        /\ timers'.list = IF s2 = None THEN s ELSE timers.list
    BY <1>1, <1>2, <1>3, <2>1, LinkedIn
  <2> QED BY <2>1, <2>2, <2>3
<1> HIDE DEF may
<1>6. /\ astray' \in {"no", "met"} /\ (astray' = "no" => may)
      /\ \A x \in Slots : x # s /\ x \notin met' /\ op'[x] = op[x] => op[x].at = "none"
      /\ Handler \notin met' /\ walk.at # "idle" /\ walk'.at # "idle" =>
           InCallBack(s) /\ Handler \notin met
  BY <1>1, <1>3, <1>4, WritesMeans, SlotIsNotHandler
<1>7. /\ NoOp \in Ops /\ NoOp.at = "none"
      /\ \A x \in Slots : /\ op'[x] = IF x = s THEN NoOp ELSE op[x]
                          /\ slot'[x] = IF x = s THEN "on" ELSE slot[x]
  BY <1>1, <1>2 DEF TimerTyped, NoOp, Ops
<1>o. Onward \in Walkings /\ Onward.at = "turn" /\ Onward.tmp1 = walk.tmp3 /\ Onward.tmp2 = walk.tmp2
  BY <1>2, OnwardIs
<1>b. \/ InCallBack(s) /\ walk' = Onward
      \/ ~ InCallBack(s) /\ walk' = walk
  BY <1>1 DEF GoesBack
<1>8. TimerTyped'
  <2>1. timers' \in Lists
    BY <1>1, <1>2, NextTyped
  <2>2. walk' \in Walkings
    BY <1>2, <1>b, <1>o DEF TimerTyped
  <2> QED BY <1>1, <1>2, <1>6, <1>7, <2>1, <2>2 DEF TimerTyped
<1> SUFFICES ASSUME astray' = "no" PROVE Fits'
  BY <1>8 DEF TimerInv
<1>9. /\ Good(timers', target) /\ Listed(timers') = Listed(timers) \cup {s}
      /\ timers'.list = IF s2 = None THEN s ELSE timers.list
      /\ s2 = None => timers.link[s] = timers.list
      /\ timers.link[s] # None => target[s] <= target[timers.link[s]]
  BY <1>5, <1>6
<1>10. OnIsListed'
  <2>1. walk.at = "call" => walk' = walk
    BY <1>b DEF InCallBack
  <2> QED BY <1>2, <1>7, <1>9, <2>1 DEF Fits, OnIsListed
<1>11. OpsHold'
  BY <1>2, <1>7, <1>9 DEF Fits, OpsHold
<1>12. WalkHolds'
  <2>1. CASE walk' = Onward
    BY <1>o, <2>1 DEF WalkHolds
  <2>2. CASE walk' = walk /\ ~ InCallBack(s)
    <3>1. walk.at \in {"unlink", "call", "back"} => walk.tmp1 # None /\ walk.tmp1 \in Slots
      BY <1>2 DEF Fits, WalkHolds, TimerTyped, Walkings
    <3>2. walk.at = "back" =>
            /\ op'[walk.tmp1].at # "none"
            /\ op'[walk.tmp1].at \in {"place", "link"} => target[walk.tmp1] > 0
      BY <1>2, <1>7, <2>2, <3>1 DEF Fits, WalkHolds, InCallBack
    <3>3. walk.at = "call" => Handler \in met'
      BY <1>6, <2>2 DEF InCallBack
    <3> QED BY <1>1, <2>2, <3>1, <3>2, <3>3 DEF WalkHolds
  <2> QED BY <1>b, <2>1, <2>2
<1>13. ASSUME NEW x \in Slots, x \notin met' PROVE OpFits(x, op'[x], timers', target)
  <2>1. op'[x].at = "none"
    BY <1>6, <1>7, <1>13
  <2> QED BY <2>1 DEF OpFits
<1>14. ASSUME Handler \notin met' PROVE WalkFits(walk', timers', target)
  <2>1. CASE walk'.at = "idle"
    BY <2>1 DEF WalkFits
  <2>2. CASE walk'.at # "idle"
    <3>1. InCallBack(s) /\ Handler \notin met
      BY <1>6, <1>14, <1>b, <2>2 DEF InCallBack
    <3>2. walk.at = "back" /\ walk.tmp1 = s /\ walk' = Onward
      BY <1>b, <3>1 DEF InCallBack
    <3>3. walk.tmp2 = None /\ walk.tmp3 = timers.list
      BY <1>2, <3>1, <3>2 DEF Fits, WalkFits
    <3>4. target[s] > 0
      BY <1>1, <1>2, <3>2 DEF Fits, WalkHolds
    <3>5. NextFits(timers, target, timers.list, None)
      BY <1>2, HeadIsNext
    <3>6. timers.list # None /\ target[timers.list] = 0 => timers'.list = timers.list
      <4> SUFFICES ASSUME timers.list # None, target[timers.list] = 0, s2 = None PROVE FALSE
        BY <1>9
      <4>1. target[s] <= 0
        BY <1>9
      <4>2. target[s] \in Nat
        BY <1>2 DEF Good
      <4> QED BY <3>4, <4>1, <4>2
    <3>7. NextFits(timers', target, timers.list, None)
      BY <1>9, <3>4, <3>5, <3>6 DEF NextFits
    <3> QED BY <1>o, <3>2, <3>3, <3>7 DEF WalkFits
  <2> QED BY <2>1, <2>2
<1> QED
  BY <1>1, <1>9, <1>10, <1>11, <1>12, <1>13, <1>14 DEF Fits

-----------------------------------------------------------------------------
(* The steps of the handler                                                *)

(* A step of the handler that writes nothing and calls nobody.             *)
LEMMA WalkStep ==
  ASSUME TimerInv, Whole, NEW w \in Walkings, walk' = w,
         UNCHANGED <<timers, target, slot, op, astray>>,
         \A s \in Slots : s \in met' <=> s \in met,
         walk.at # "call", w.at \in {"idle", "turn", "unlink"},
         w.at = "unlink" => w.tmp1 # None,
         Handler \notin met' => WalkFits(w, timers, target)
  PROVE  TimerInv'
<1>1. Fits /\ TimerTyped
  BY StateIs DEF TimerInv
<1>2. TimerTyped'
  BY <1>1 DEF TimerTyped
<1>3. OnIsListed'
  BY <1>1 DEF Fits, OnIsListed
<1>4. OpsHold'
  BY <1>1 DEF Fits, OpsHold
<1>5. WalkHolds'
  BY DEF WalkHolds
<1> QED
  BY <1>1, <1>2, <1>3, <1>4, <1>5 DEF TimerInv, Fits

(* A tick begins a walk: time passes for every slot.                       *)
LEMMA TickKeeps ==
  ASSUME TimerInv, Tick
  PROVE  TimerInv'
<1> DEFINE w == [NoWalk EXCEPT !.at = "turn", !.tmp1 = timers.list]
<1>1. /\ Whole /\ walk.at = "idle" /\ target' = Later(target) /\ walk' = w
      /\ UNCHANGED <<timers, slot, op, met, astray>>
  BY DEF Tick, Walks, Later
<1>2. /\ Fits /\ Good(timers, target) /\ TimerTyped
      /\ timers.list \in Slots \cup {None}
  BY <1>1, StateIs DEF TimerInv
<1>3. w \in Walkings /\ w.at = "turn" /\ w.tmp1 = timers.list /\ w.tmp2 = None
  BY <1>2 DEF Walkings, NoWalk
<1>4. Good(timers, target')
  BY <1>1, <1>2, TimePasses
<1> HIDE DEF w
<1>5. TimerTyped'
  <2>1. target' \in [Slots -> 0 .. MaxSecs]
    <3>1. \A s \in Slots : (IF target[s] = 0 THEN 0 ELSE target[s] - 1) \in 0 .. MaxSecs
      BY <1>2, TimerListAssumption DEF TimerTyped
    <3> QED BY <1>1, <3>1 DEF Later
  <2> QED BY <1>1, <1>2, <1>3, <2>1 DEF TimerTyped
<1>6. OnIsListed'
  BY <1>1, <1>2 DEF Fits, OnIsListed
<1>7. OpsHold'
  BY <1>1, <1>2 DEF Fits, OpsHold
<1>8. WalkHolds'
  BY <1>1, <1>3 DEF WalkHolds
<1>9. \A s \in Slots : s \notin met' => OpFits(s, op'[s], timers', target')
  BY <1>1, <1>2, LaterOp DEF Fits
<1>10. WalkFits(w, timers, target')
  BY <1>3, <1>4, HeadIsNext DEF WalkFits
<1> QED
  BY <1>1, <1>4, <1>5, <1>6, <1>7, <1>8, <1>9, <1>10 DEF TimerInv, Fits

LEMMA NotifyPassesKeeps ==
  ASSUME TimerInv, NotifyPasses
  PROVE  TimerInv'
<1> DEFINE tmp1 == walk.tmp1
           w == [walk EXCEPT !.tmp2 = tmp1, !.tmp1 = timers.link[tmp1]]
<1>1. /\ Whole /\ walk.at = "turn" /\ tmp1 # None /\ target[tmp1] > 0 /\ walk' = w
      /\ UNCHANGED <<timers, target, slot, op, met, astray>>
  BY DEF NotifyPasses, Walks
<1>2. /\ Fits /\ Good(timers, target) /\ walk \in Walkings /\ tmp1 \in Slots
      /\ timers.link[tmp1] \in Slots \cup {None} /\ Listed(timers) \subseteq Slots
  BY <1>1, StateIs DEF TimerInv, TimerTyped, Walkings
<1>3. w \in Walkings /\ w.at = "turn" /\ w.tmp1 = timers.link[tmp1]
  BY <1>1, <1>2 DEF Walkings
<1>4. ASSUME Handler \notin met PROVE WalkFits(w, timers, target)
  <2>1. /\ tmp1 \in Listed(timers)
        /\ ~ (tmp1 # None /\ target[tmp1] = 0) => \A s \in Listed(timers) : target[s] > 0
    BY <1>1, <1>2, <1>4 DEF Fits, WalkFits, NextFits
  <2>2. \A s \in Listed(timers) : target[s] > 0
    BY <1>1, <2>1
  <2>3. timers.link[tmp1] # None => timers.link[tmp1] \in Listed(timers)
    <3>1. Pair(timers, tmp1, timers.link[tmp1])
      BY <1>1, <2>1 DEF Pair, Behind
    <3> QED BY <1>2, <3>1, PairListed
  <2>4. timers.link[tmp1] # None => ~ (target[timers.link[tmp1]] = 0)
    BY <2>2, <2>3
  <2> QED BY <1>3, <2>2, <2>3, <2>4 DEF WalkFits, NextFits
<1> HIDE DEF w, tmp1
<1> QED
  BY <1>1, <1>3, <1>4, WalkStep

LEMMA NotifyFindsKeeps ==
  ASSUME TimerInv, NotifyFinds
  PROVE  TimerInv'
<1> DEFINE tmp1 == walk.tmp1
           w == [walk EXCEPT !.at = "unlink", !.tmp3 = timers.link[tmp1]]
<1>1. /\ Whole /\ walk.at = "turn" /\ tmp1 # None /\ target[tmp1] = 0 /\ walk' = w
      /\ UNCHANGED <<timers, target, slot, op, met, astray>>
  BY DEF NotifyFinds, Walks
<1>2. /\ Fits /\ walk \in Walkings /\ tmp1 \in Slots
      /\ timers.link[tmp1] \in Slots \cup {None}
  BY <1>1, StateIs DEF TimerInv, TimerTyped, Walkings
<1>3. /\ w \in Walkings /\ w.at = "unlink" /\ w.tmp1 = tmp1 /\ w.tmp2 = walk.tmp2
      /\ w.tmp3 = timers.link[tmp1]
  BY <1>2 DEF Walkings
<1>4. ASSUME Handler \notin met PROVE WalkFits(w, timers, target)
  <2>1. tmp1 = timers.list /\ walk.tmp2 = None
    BY <1>1, <1>2, <1>4 DEF Fits, WalkFits, NextFits
  <2>2. Pair(timers, None, tmp1)
    BY <2>1 DEF Pair, Behind
  <2> QED BY <1>1, <1>3, <2>1, <2>2 DEF WalkFits, Unlinks
<1>5. walk.at # "call"
  BY <1>1
<1> HIDE DEF w, tmp1
<1> QED
  BY <1>1, <1>3, <1>4, <1>5, WalkStep

LEMMA NotifyEndsKeeps ==
  ASSUME TimerInv, NotifyEnds
  PROVE  TimerInv'
<1>1. /\ Whole /\ walk.at = "turn" /\ walk' = NoWalk /\ met' = met \ {Handler}
      /\ UNCHANGED <<timers, target, slot, op, astray>>
  BY DEF NotifyEnds, Walks
<1>2. NoWalk \in Walkings /\ NoWalk.at = "idle" /\ WalkFits(NoWalk, timers, target)
  BY DEF NoWalk, Walkings, WalkFits
<1>3. \A s \in Slots : s \in met' <=> s \in met
  BY <1>1, SlotIsNotHandler
<1> QED
  BY <1>1, <1>2, <1>3, WalkStep

(* The due slot is taken off the list.                                     *)
LEMMA NotifyUnlinksKeeps ==
  ASSUME TimerInv, NotifyUnlinks
  PROVE  TimerInv'
<1> DEFINE s == walk.tmp1
           may == MayUnlink(s, walk.tmp2, walk.tmp3)
           w == [walk EXCEPT !.at = "call"]
<1>1. /\ Whole /\ walk.at = "unlink" /\ timers' = SetNext(timers, walk.tmp2, walk.tmp3)
      /\ walk' = w /\ UNCHANGED <<target, slot, op>> /\ Writes(Handler, may)
  BY DEF NotifyUnlinks, Walks
<1>2. /\ Fits /\ Good(timers, target) /\ TimerTyped /\ timers \in Lists
      /\ Listed(timers) \subseteq Slots
  BY <1>1, StateIs DEF TimerInv, Good
<1>3. /\ walk \in Walkings /\ s \in Slots /\ walk.tmp2 \in Slots \cup {None}
      /\ walk.tmp3 \in Slots \cup {None} /\ s # None
  BY <1>1, <1>2 DEF TimerTyped, Walkings, Fits, WalkHolds
<1>4. /\ w \in Walkings /\ w.at = "call" /\ w.tmp1 = s /\ w.tmp2 = walk.tmp2
      /\ w.tmp3 = walk.tmp3
  BY <1>3 DEF Walkings
<1>5. may <=> Unlinks(timers, s, walk.tmp2, walk.tmp3)
  BY MayIs
<1>6. Handler \notin met => may /\ walk.tmp2 = None
  BY <1>1, <1>2, <1>5 DEF Fits, WalkFits
<1>7. may => /\ Good(timers', target) /\ Listed(timers') = Listed(timers) \ {s}
             /\ timers'.list = IF walk.tmp2 = None THEN walk.tmp3 ELSE timers.list
             /\ s \in Listed(timers)
  BY <1>1, <1>2, <1>5, Unlinked, PairListed DEF Unlinks
<1>8. may \in BOOLEAN
  BY DEF MayUnlink
<1> HIDE DEF may, w, s
<1>9. /\ astray' \in {"no", "met"} /\ (astray' = "no" => may)
      /\ Handler \notin met' => Handler \notin met \/ Handler \notin UnderWay'
      /\ \A x \in Slots : x # Handler /\ x \notin met' /\ op'[x] = op[x] => op[x].at = "none"
  BY <1>1, <1>6, <1>8, WritesMeans
<1>10. TimerTyped'
  <2>1. timers' \in Lists
    BY <1>1, <1>2, <1>3, NextTyped
  <2> QED BY <1>1, <1>2, <1>4, <1>9, <2>1 DEF TimerTyped
<1> SUFFICES ASSUME astray' = "no" PROVE Fits'
  BY <1>10 DEF TimerInv
<1>11. /\ Good(timers', target) /\ Listed(timers') = Listed(timers) \ {s}
       /\ timers'.list = IF walk.tmp2 = None THEN walk.tmp3 ELSE timers.list
       /\ s \in Listed(timers)
  BY <1>7, <1>9
<1>12. OnIsListed'
  <2>1. \A x \in Listed(timers') : slot[x] = "on"
    BY <1>2, <1>11 DEF Fits, OnIsListed
  <2>2. \A x \in Slots : slot[x] = "on" => x \in Listed(timers') \/ op[x].at # "none" \/ x = s
    BY <1>1, <1>2, <1>11 DEF Fits, OnIsListed
  <2> QED BY <1>1, <1>4, <2>1, <2>2 DEF OnIsListed
<1>13. OpsHold'
  BY <1>1, <1>2, <1>11 DEF Fits, OpsHold
<1>14. WalkHolds'
  <2>1. slot[s] = "on"
    BY <1>2, <1>11 DEF Fits, OnIsListed
  <2> QED BY <1>1, <1>3, <1>4, <2>1 DEF WalkHolds
<1>15. ASSUME NEW x \in Slots, x \notin met' PROVE OpFits(x, op'[x], timers', target)
  <2>1. op'[x].at = "none"
    BY <1>1, <1>9, <1>15, SlotIsNotHandler
  <2> QED BY <2>1 DEF OpFits
<1>16. ASSUME Handler \notin met' PROVE WalkFits(w, timers', target)
  <2>1. Handler \in UnderWay'
    BY <1>1, <1>4 DEF UnderWay
  <2>2. walk.tmp2 = None
    BY <1>6, <1>9, <1>16, <2>1
  <2> QED BY <1>4, <1>11, <2>2 DEF WalkFits
<1> QED
  BY <1>1, <1>11, <1>12, <1>13, <1>14, <1>15, <1>16 DEF Fits

-----------------------------------------------------------------------------
(* The steps by which operations begin                                     *)

(* An operation begins on s, the walk goes on as w.                        *)
LEMMA BeginsKeeps ==
  ASSUME TimerInv, Whole, NEW s \in Slots, NEW then \in {"none", "off", "on"}, Begins(s, then),
         slot[s] # "none", UNCHANGED <<timers, target, slot, met>>,
         NEW w \in Walkings, walk' = w,
         w.at \in {"unlink", "call", "back"} => w.tmp1 # None,
         w.at = "back" => w.tmp1 = s \/ (walk.at = "back" /\ w.tmp1 = walk.tmp1),
         w.at = "call" => walk.at = "call" /\ w.tmp1 = walk.tmp1,
         walk.at = "call" => walk.tmp1 = s \/ (w.at = "call" /\ w.tmp1 = walk.tmp1),
         Handler \notin met => WalkFits(w, timers, target)
  PROVE  TimerInv'
<1> DEFINE o == [NoOp EXCEPT !.at = "seek", !.then = then, !.tmp1 = timers.list]
<1>1. /\ Fits /\ Good(timers, target) /\ TimerTyped /\ timers.list \in Slots \cup {None}
  BY StateIs DEF TimerInv
<1>2. o \in Ops /\ o.at = "seek" /\ o.tmp1 = timers.list /\ o.tmp2 = None
  BY <1>1 DEF Ops, NoOp
<1>3. \/ op[s].at = "none" /\ op' = [op EXCEPT ![s] = o] /\ astray' = astray
      \/ op' = op /\ astray' = "met"
  BY DEF Begins
<1> HIDE DEF o
<1>4. TimerTyped'
  BY <1>1, <1>2, <1>3 DEF TimerTyped
<1>5. CASE astray' = "met"
  BY <1>4, <1>5 DEF TimerInv
<1>6. CASE op[s].at = "none" /\ op' = [op EXCEPT ![s] = o] /\ astray' = astray
  <2>1. \A x \in Slots : op'[x] = IF x = s THEN o ELSE op[x]
    BY <1>1, <1>6 DEF TimerTyped
  <2>2. OnIsListed'
    BY <1>1, <1>2, <2>1 DEF Fits, OnIsListed
  <2>3. OpsHold'
    BY <1>1, <1>2, <2>1 DEF Fits, OpsHold
  <2>4. WalkHolds'
    <3>1. w.at = "back" => w.tmp1 \in Slots
      BY DEF Walkings
    <3> QED BY <1>1, <1>2, <2>1, <3>1 DEF Fits, WalkHolds
  <2>5. ASSUME NEW x \in Slots, x \notin met' PROVE OpFits(x, op'[x], timers', target')
    <3>1. CASE x = s
      <4>1. Pair(timers, None, timers.list) /\ NotPassed(timers, s, None)
        BY <1>1, HeadIsPair
      <4> QED BY <1>2, <2>1, <3>1, <4>1 DEF OpFits
    <3>2. CASE x # s
      BY <1>1, <2>1, <2>5, <3>2 DEF Fits
    <3> QED BY <3>1, <3>2
  <2> QED BY <1>1, <1>4, <2>2, <2>3, <2>4, <2>5 DEF TimerInv, Fits
<1> QED
  BY <1>3, <1>5, <1>6

(* The handler calls back: the channel leaves its timer or goes about it.  *)
LEMMA DoCallBackKeeps ==
  ASSUME TimerInv, DoCallBack
  PROVE  TimerInv'
<1> DEFINE s == walk.tmp1
           back == [walk EXCEPT !.at = "back"]
<1>1. /\ Whole /\ walk.at = "call" /\ UNCHANGED <<timers, target, met>>
      /\ \/ walk' = Onward /\ slot' = Fired(s) /\ UNCHANGED <<op, astray>>
         \/ /\ walk' = back /\ UNCHANGED slot
            /\ \E then \in {"on", "off"} : Begins(s, then)
  BY DEF DoCallBack, Walks
<1>2. /\ Fits /\ Good(timers, target) /\ TimerTyped /\ walk \in Walkings
      /\ s \in Slots /\ s # None /\ Listed(timers) \subseteq Slots
  BY <1>1, StateIs DEF TimerInv, TimerTyped, Walkings, Fits, WalkHolds
<1>3. Handler \notin met => walk.tmp2 = None /\ walk.tmp3 = timers.list /\ s \notin Listed(timers)
  BY <1>1, <1>2 DEF Fits, WalkFits
<1>4. CASE walk' = Onward /\ slot' = Fired(s) /\ UNCHANGED <<op, astray>>
  <2>1. Onward \in Walkings /\ Onward.at = "turn" /\ Onward.tmp1 = walk.tmp3 /\ Onward.tmp2 = walk.tmp2
    BY <1>2, OnwardIs
  <2>2. /\ slot' \in [Slots -> {"none", "off", "on"}]
        /\ \A x \in Slots : slot'[x] = IF x = s /\ ~ (s \in Listed(timers) \/ op[s].at # "none")
                                       THEN "off" ELSE slot[x]
    BY <1>2, <1>4 DEF TimerTyped, Fired
  <2>3. TimerTyped'
    BY <1>1, <1>2, <1>4, <2>1, <2>2 DEF TimerTyped
  <2>4. OnIsListed'
    <3>1. \A x \in Listed(timers) : slot[x] = "on" /\ slot'[x] = "on"
      BY <1>2, <2>2 DEF Fits, OnIsListed
    <3>2. ASSUME NEW x \in Slots, slot'[x] = "on"
          PROVE  x \in Listed(timers) \/ op[x].at # "none"
      <4>1. slot[x] = "on" /\ (x = s => s \in Listed(timers) \/ op[s].at # "none")
        BY <2>2, <3>2
      <4> QED BY <1>2, <4>1 DEF Fits, OnIsListed
    <3> QED BY <1>1, <1>4, <3>1, <3>2 DEF OnIsListed
  <2>5. OpsHold'
    <3>1. \A x \in Slots : slot[x] # "none" => slot'[x] # "none"
      BY <2>2
    <3> QED BY <1>1, <1>2, <1>4, <3>1 DEF Fits, OpsHold
  <2>6. WalkHolds'
    BY <1>4, <2>1 DEF WalkHolds
  <2>7. Handler \notin met => WalkFits(Onward, timers, target)
    <3>1. NextFits(timers, target, timers.list, None)
      BY <1>2, HeadIsNext
    <3> QED BY <1>3, <2>1, <3>1 DEF WalkFits
  <2> QED BY <1>1, <1>2, <1>4, <2>3, <2>4, <2>5, <2>6, <2>7 DEF TimerInv, Fits
<1>5. CASE /\ walk' = back /\ UNCHANGED slot
           /\ \E then \in {"on", "off"} : Begins(s, then)
  <2>1. PICK then \in {"none", "off", "on"} : Begins(s, then)
    BY <1>5
  <2>2. /\ back \in Walkings /\ back.at = "back" /\ back.tmp1 = s
        /\ back.tmp2 = walk.tmp2 /\ back.tmp3 = walk.tmp3
    BY <1>2 DEF Walkings
  <2>3. slot[s] # "none"
    <3>1. Handler \notin InDeleted
      BY <1>1 DEF Whole
    <3>2. ~ Deleted(s)
      BY <1>1, <3>1 DEF InDeleted
    <3> QED BY <1>2, <3>2 DEF Deleted
  <2>4. Handler \notin met => WalkFits(back, timers, target)
    BY <1>3, <2>2 DEF WalkFits
  <2> HIDE DEF back, s
  <2> QED BY <1>1, <1>2, <1>5, <2>1, <2>2, <2>3, <2>4, BeginsKeeps DEF s
<1> QED
  BY <1>1, <1>4, <1>5

(* A channel starts, cancels or deletes its timer.                         *)
LEMMA ChannelBeginsKeeps ==
  ASSUME TimerInv, NEW s \in Slots, Call(s) \/ Cancel(s) \/ Destroy(s)
  PROVE  TimerInv'
<1>1. PICK then \in {"none", "off", "on"} : ChannelBegins(s, then)
  BY DEF Call, Cancel, Destroy
<1> DEFINE w == IF walk.at = "idle" THEN walk ELSE [walk EXCEPT !.meets = @ + 1]
<1>2. /\ Whole /\ slot[s] # "none" /\ Begins(s, then) /\ walk' = w
      /\ UNCHANGED <<timers, target, slot, met>>
  BY <1>1 DEF ChannelBegins
<1>3. Fits /\ walk \in Walkings
  BY <1>2, StateIs DEF TimerInv, TimerTyped
<1>4. /\ w \in Walkings /\ w.at = walk.at /\ w.tmp1 = walk.tmp1
      /\ w.tmp2 = walk.tmp2 /\ w.tmp3 = walk.tmp3
  BY <1>3 DEF Walkings
<1> HIDE DEF w
<1>5. w.at \in {"unlink", "call", "back"} => w.tmp1 # None
  BY <1>3, <1>4 DEF Fits, WalkHolds
<1>6. Handler \notin met => WalkFits(w, timers, target)
  BY <1>3, <1>4 DEF Fits, WalkFits
<1> QED
  BY <1>2, <1>4, <1>5, <1>6, BeginsKeeps

(* A new slot is in no list.                                               *)
LEMMA CreateKeeps ==
  ASSUME TimerInv, NEW s \in Slots, Create(s)
  PROVE  TimerInv'
<1>1. /\ Whole /\ slot[s] = "none" /\ slot' = [slot EXCEPT ![s] = "off"]
      /\ timers' = SetNext(timers, s, None) /\ target' = [target EXCEPT ![s] = 0]
      /\ UNCHANGED <<op, walk, met, astray>>
  BY DEF Create
<1>2. /\ Fits /\ Good(timers, target) /\ TimerTyped /\ Listed(timers) \subseteq Slots
  BY <1>1, StateIs DEF TimerInv
<1>3. s \notin Listed(timers) /\ op[s].at = "none"
  BY <1>1, <1>2 DEF Fits, OnIsListed, OpsHold
<1>4. /\ Good(timers', target) /\ Order(timers') = Order(timers)
      /\ Listed(timers') = Listed(timers) /\ timers'.list = timers.list
      /\ \A x \in Slots : timers'.link[x] = IF x = s THEN None ELSE timers.link[x]
  BY <1>1, <1>2, <1>3, LinkAlone
<1>5. /\ slot' \in [Slots -> {"none", "off", "on"}] /\ target' \in [Slots -> 0 .. MaxSecs]
      /\ \A x \in Slots : /\ slot'[x] = IF x = s THEN "off" ELSE slot[x]
                          /\ target'[x] = IF x = s THEN 0 ELSE target[x]
  BY <1>1, <1>2, TimerListAssumption DEF TimerTyped
<1>6. \A x \in Listed(timers) : timers'.link[x] = timers.link[x] /\ target'[x] = target[x]
  BY <1>2, <1>3, <1>4, <1>5
<1>7. Good(timers', target')
  <2>1. target' \in [Slots -> Nat]
    BY <1>5, TimerListAssumption
  <2> QED BY <1>4, <1>6, <2>1, TargetAlone
<1>8. TimerTyped'
  BY <1>1, <1>2, <1>5, <1>7 DEF TimerTyped, Good
<1>9. OnIsListed'
  BY <1>1, <1>2, <1>3, <1>4, <1>5 DEF Fits, OnIsListed
<1>10. OpsHold'
  BY <1>1, <1>2, <1>4, <1>5 DEF Fits, OpsHold
<1>11. WalkHolds'
  <2>1. walk.at \in {"unlink", "call", "back"} => walk.tmp1 # None /\ walk.tmp1 \in Slots
    BY <1>2 DEF Fits, WalkHolds, TimerTyped, Walkings
  <2>2. walk.at = "back" => walk.tmp1 # s
    BY <1>2, <1>3 DEF Fits, WalkHolds
  <2> QED BY <1>1, <1>2, <1>5, <2>1, <2>2 DEF Fits, WalkHolds
<1>12. ASSUME NEW x \in Slots, x \notin met' PROVE OpFits(x, op'[x], timers', target')
  <2>1. CASE x = s
    BY <1>1, <1>3, <2>1 DEF OpFits
  <2>2. CASE x # s
    <3>1. OpFits(x, op[x], timers, target)
      BY <1>1, <1>2, <1>12 DEF Fits
    <3>2. SameFor(x, timers, target, timers', target')
      BY <1>4, <1>5, <1>6, <2>2 DEF SameFor
    <3> QED BY <1>1, <1>2, <3>1, <3>2, SameOp
  <2> QED BY <2>1, <2>2
<1>13. ASSUME Handler \notin met' PROVE WalkFits(walk', timers', target')
  <2>1. WalkFits(walk, timers, target)
    BY <1>1, <1>2, <1>13 DEF Fits
  <2> QED BY <1>1, <1>2, <1>4, <1>6, <2>1, SameWalk
<1> QED
  BY <1>7, <1>8, <1>9, <1>10, <1>11, <1>12, <1>13 DEF TimerInv, Fits

-----------------------------------------------------------------------------
(* The invariant, and what it says                                         *)

LEMMA TimerInvInit == TimerInit => TimerInv
<1> SUFFICES ASSUME TimerInit PROVE TimerInv
  OBVIOUS
<1>1. /\ timers = [list |-> None, link |-> [s \in Slots |-> None]]
      /\ target = [s \in Slots |-> 0] /\ slot = [s \in Slots |-> "none"]
      /\ op = [s \in Slots |-> NoOp] /\ walk = NoWalk /\ met = {} /\ astray = "no"
  BY DEF TimerInit
<1>2. NoOp \in Ops /\ NoOp.at = "none" /\ NoWalk \in Walkings /\ NoWalk.at = "idle"
  BY DEF NoOp, Ops, NoWalk, Walkings
<1>3. timers \in Lists /\ target \in [Slots -> 0 .. MaxSecs] /\ target \in [Slots -> Nat]
  BY <1>1, TimerListAssumption DEF Lists
<1>4. TimerTyped
  BY <1>1, <1>2, <1>3 DEF TimerTyped
<1> DEFINE c == [i \in 1 .. 0 |-> 1]
<1>5. Chain(c, 0) /\ Sorted(c, 0, target)
  BY DEF Chain, Sorted
<1>6. Linked(timers, c)
  BY <1>1 DEF Linked, Nth
<1> HIDE DEF c
<1>7. Ordered(timers, target) /\ Listed(timers) = {c[i] : i \in 1 .. 0}
  BY <1>5, <1>6, OrderedBy
<1>8. Listed(timers) = {}
  BY <1>7
<1>9. \A s \in Slots : OpFits(s, op[s], timers, target)
  BY <1>1, <1>2 DEF OpFits
<1>10. WalkFits(walk, timers, target)
  BY <1>1, <1>2 DEF WalkFits
<1>11. OnIsListed /\ OpsHold /\ WalkHolds
  BY <1>1, <1>2, <1>8 DEF OnIsListed, OpsHold, WalkHolds
<1> QED
  BY <1>3, <1>4, <1>7, <1>9, <1>10, <1>11 DEF TimerInv, Fits, Good

LEMMA TimerInvNext == TimerInv /\ [TimerNext]_timerVars => TimerInv'
<1> SUFFICES ASSUME TimerInv, [TimerNext]_timerVars PROVE TimerInv'
  OBVIOUS
<1>1. ASSUME NEW s \in Slots, Create(s) \/ Call(s) \/ Cancel(s) \/ Destroy(s) PROVE TimerInv'
  BY <1>1, CreateKeeps, ChannelBeginsKeeps
<1>2. ASSUME NEW s \in Slots, Goes(s) PROVE TimerInv'
  <2>1. CASE RemovePasses(s) \/ AddPasses(s)
    BY <2>1, PassesKeeps
  <2>2. CASE RemoveFinds(s)
    BY <2>2, RemoveFindsKeeps
  <2>3. CASE RemoveUnlinks(s)
    BY <2>3, RemoveUnlinksKeeps
  <2>4. CASE RemoveFindsNot(s)
    BY <2>4, RemoveFindsNotKeeps
  <2>5. CASE AddBegins(s)
    BY <2>5, AddBeginsKeeps
  <2>6. CASE AddHolds(s)
    BY <2>6, AddHoldsKeeps
  <2>7. CASE AddLinks(s)
    BY <2>7, AddLinksKeeps
  <2> QED BY <1>2, <2>1, <2>2, <2>3, <2>4, <2>5, <2>6, <2>7 DEF Goes
<1>3. ASSUME Tick \/ Notifies PROVE TimerInv'
  BY <1>3, TickKeeps, NotifyPassesKeeps, NotifyFindsKeeps, NotifyUnlinksKeeps,
     NotifyEndsKeeps, DoCallBackKeeps DEF Notifies
<1>4. CASE UNCHANGED timerVars
  <2>1. /\ timers' = timers /\ target' = target /\ slot' = slot /\ op' = op /\ walk' = walk
        /\ met' = met /\ astray' = astray
    BY <1>4 DEF timerVars
  <2>2. TimerTyped'
    BY <2>1 DEF TimerInv, TimerTyped
  <2>3. Fits => Fits'
    BY <2>1 DEF Fits, OnIsListed, OpsHold, WalkHolds
  <2> QED BY <2>1, <2>2, <2>3 DEF TimerInv
<1> QED
  BY <1>1, <1>2, <1>3, <1>4 DEF TimerNext

(* Slots that are in the list are not deleted.                             *)
LEMMA NoneDeleted == TimerInv /\ astray = "no" => InDeleted \subseteq met
<1> SUFFICES ASSUME TimerInv, astray = "no", NEW w \in InDeleted, w \notin met PROVE FALSE
  OBVIOUS
<1>1. /\ Fits /\ Good(timers, target)
      /\ \A s \in Listed(timers) : slot[s] = "on"
  BY DEF TimerInv, Fits, OnIsListed
<1>2. timers.list = None \/ timers.list \in Listed(timers)
  BY <1>1, HeadFirst
<1>3. CASE w \in Slots /\ op[w].at \in {"seek", "place"} /\ Deleted(op[w].tmp1)
  <2>1. OpFits(w, op[w], timers, target)
    BY <1>1, <1>3 DEF Fits
  <2>2. Pair(timers, op[w].tmp2, op[w].tmp1)
    BY <1>3, <2>1 DEF OpFits
  <2>3. op[w].tmp1 = None \/ op[w].tmp1 \in Listed(timers)
    BY <1>1, <2>2, PairListed
  <2> QED BY <1>1, <1>3, <2>3 DEF Deleted
<1>4. CASE w = Handler /\ walk.at \in {"turn", "call"} /\ Deleted(walk.tmp1)
  <2>1. walk.at = "turn" => walk.tmp1 = None \/ walk.tmp1 \in Listed(timers)
    BY <1>1, <1>4 DEF Fits, WalkFits, NextFits
  <2>2. walk.at = "call" => slot[walk.tmp1] # "none"
    BY <1>1, <1>4 DEF Fits, WalkHolds
  <2> QED BY <1>1, <1>4, <2>1, <2>2 DEF Deleted
<1> QED
  BY <1>3, <1>4 DEF InDeleted

LEMMA TimerInvImplies == TimerInv => ListHoldsTimers
<1> SUFFICES ASSUME TimerInv PROVE AstrayTakesTwo /\ HoldsTimers
  BY DEF ListHoldsTimers
<1>1. AstrayTakesTwo
  BY NoneDeleted DEF TimerInv, TimerTyped, AstrayTakesTwo
<1>2. ASSUME astray = "no"
      PROVE  LET c == Order(timers)
             IN  /\ Linked(timers, c)
                 /\ \A i, j \in DOMAIN c : i < j => c[i] # c[j] /\ target[c[i]] <= target[c[j]]
  <2>1. Good(timers, target)
    BY <1>2 DEF TimerInv, Fits
  <2>2. PICK n \in Nat, c \in Places :
           /\ n = Len(c) /\ Chain(c, n) /\ Sorted(c, n, target) /\ Linked(timers, c)
           /\ Order(timers) = c /\ Listed(timers) = {c[i] : i \in 1 .. n}
    BY <2>1, OrderedHas DEF Good
  <2>3. DOMAIN c = 1 .. n
    BY <2>2 DEF Chain
  <2> QED BY <2>2, <2>3 DEF Chain, Sorted
<1>3. ASSUME astray = "no" PROVE OnIsListed /\ Listed(timers) \subseteq Slots
  <2>1. Good(timers, target) /\ OnIsListed
    BY <1>3 DEF TimerInv, Fits
  <2> QED BY <2>1, HeadFirst
<1> QED
  BY <1>1, <1>2, <1>3 DEF HoldsTimers, OnIsListed

(* Of the statements of CTimerList::Add, Remove and Notify, in any order   *)
(* of any number of channels, callbacks and the handler: nobody writes     *)
(* where the list is no longer as he has seen it, or comes to a deleted    *)
(* slot, unless somebody else has written to the list since he began; and  *)
(* as long as nobody does, the list is a chain by targets of exactly the   *)
(* timers that are on and in nobody's hands.                               *)
THEOREM TheListHoldsTimers == TimerSpec => []ListHoldsTimers
<1>1. TimerInit => TimerInv
  BY TimerInvInit
<1>2. TimerInv /\ [TimerNext]_timerVars => TimerInv'
  BY TimerInvNext
<1>3. TimerInv => ListHoldsTimers
  BY TimerInvImplies
<1> QED
  BY <1>1, <1>2, <1>3, PTL DEF TimerSpec
=============================================================================
