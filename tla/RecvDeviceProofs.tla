-------------------------- MODULE RecvDeviceProofs --------------------------
(***************************************************************************)
(* Proofs about the devices of c2faxrecv, for any number of devices and of *)
(* receivers: whatever thread comes in between, the lists hold what is     *)
(* alive, and a listening receiver keeps the device it reports to.         *)
(***************************************************************************)
EXTENDS RecvDevice, FiniteSetTheorems, TLAPS

(* The devices that StartReceive has not come to.                          *)
Fresh ==
  {d \in Devices :
    /\ dev[d].threads = <<>> /\ ~dev[d].starting
    /\ \A r \in Receivers : DeviceOf(r) = d => st[r] = "none"}

(* The walk of StartReceive: the next device is in the list, and it and    *)
(* those behind it are fresh, whoever leaves the list meanwhile.           *)
RestIsFresh ==
  main.at \in {"next", "create", "log", "fail"} /\ main.next # None =>
    /\ main.next \in Range(list)
    /\ \A i, j \in DOMAIN list : i <= j /\ list[i] = main.next => list[j] \in Fresh

(* The device that StartReceive is at: Starting keeps it alive, and which  *)
(* of its receivers are created.                                           *)
BeingStarted ==
  main.at \in {"create", "log", "fail"} =>
    /\ main.cur \in Devices /\ CountThreads > 0
    /\ main.at # "create" => main.left = 0
    /\ \A i \in 1 .. CountThreads : st[<<main.cur, i>>] = "none" <=> i <= main.left
    /\ main.at # "fail" => dev[main.cur].starting
    /\ main.at = "fail" => dev[main.cur].threads = <<>>

(* The device that StopReceive is at, and the receiver that it has found:  *)
(* still the first of the list when no race has been.                      *)
InHand ==
  /\ main.at \in {"visit", "pop", "remove", "call"} => main.cur \in Devices
  /\ main.at \in {"remove", "call"} =>
       main.rec \in Receivers /\ DeviceOf(main.rec) = main.cur
  /\ main.at = "remove" =>
       \/ main.cur \in raced
       \/ dev[main.cur].threads # <<>> /\ Head(dev[main.cur].threads) = main.rec

(* Who is about to delete a device has seen that it has no receivers left, *)
(* and none comes again.                                                   *)
DeleteIsDue ==
  \A r \in Receivers : st[r] = "delete" =>
    dev[DeviceOf(r)].threads = <<>> /\ ~dev[DeviceOf(r)].starting

(* The inductive invariant: DeviceInv needs to know what the main thread   *)
(* has in hand while the others delete.                                    *)
IInv == DeviceInv /\ RestIsFresh /\ BeingStarted /\ InHand /\ DeleteIsDue

-----------------------------------------------------------------------------
(* Facts about lists                                                       *)

(* Taking an element off a list leaves the others, in their order.         *)
LEMMA RemoveFirstFacts ==
  ASSUME NEW S, NEW s \in Seq(S), IsInjective(s), NEW e
  PROVE  LET t == RemoveFirst(s, e) IN
         /\ t \in Seq(S) /\ IsInjective(t)
         /\ Range(t) = Range(s) \ {e}
         /\ \A i, j \in DOMAIN t : i <= j =>
              \E k, l \in DOMAIN s : k <= l /\ t[i] = s[k] /\ t[j] = s[l]
         /\ s # <<>> /\ Head(s) # e => t # <<>> /\ Head(t) = Head(s)
         /\ s = <<>> => t = <<>>
<1> DEFINE t == RemoveFirst(s, e)
<1>1. CASE \E i \in 1 .. Len(s) : s[i] = e
  <2>1. PICK k \in 1 .. Len(s) : s[k] = e
    BY <1>1
  <2>2. {i \in 1 .. Len(s) : s[i] = e} = {k}
    BY <2>1 DEF IsInjective
  <2>3. Min({k}) = k
    BY DEF Min
  <2>4. SelectInSeq(s, LAMBDA v : v = e) = k
    BY <2>2, <2>3 DEF SelectInSeq
  <2>5. t = SubSeq(s, 1, k - 1) \o SubSeq(s, k + 1, Len(s))
    BY <1>1, <2>4 DEF RemoveFirst, RemoveAt
  <2> DEFINE h(i) == IF i < k THEN i ELSE i + 1
             u == SubSeq(s, 1, k - 1)
             v == SubSeq(s, k + 1, Len(s))
  <2>6. u \in Seq(S) /\ Len(u) = k - 1 /\ \A i \in 1 .. k - 1 : u[i] = s[i]
    OBVIOUS
  <2>7. v \in Seq(S) /\ Len(v) = Len(s) - k /\ \A i \in 1 .. Len(s) - k : v[i] = s[i + k]
    OBVIOUS
  <2> HIDE DEF t, u, v
  <2>8. /\ t \in Seq(S) /\ Len(t) = Len(s) - 1
        /\ \A i \in 1 .. Len(t) : h(i) \in 1 .. Len(s) /\ t[i] = s[h(i)]
    <3>1. t = u \o v
      BY <2>5 DEF u, v
    <3>2. t \in Seq(S) /\ Len(t) = Len(s) - 1
      BY <3>1, <2>6, <2>7
    <3>3. ASSUME NEW i \in 1 .. Len(t)
          PROVE  h(i) \in 1 .. Len(s) /\ t[i] = s[h(i)]
      <4>1. CASE i < k
        BY <4>1, <3>1, <3>2, <2>6, <2>7
      <4>2. CASE i >= k
        <5>1. i - (k - 1) \in 1 .. Len(s) - k /\ i - (k - 1) + k = i + 1
          BY <4>2, <3>2
        <5>2. t[i] = v[i - (k - 1)]
          BY <4>2, <3>1, <3>2, <2>6, <2>7
        <5> QED
          BY <5>1, <5>2, <4>2, <2>7
      <4> QED
        BY <4>1, <4>2
    <3> QED
      BY <3>2, <3>3
  <2>9. IsInjective(t)
    <3> SUFFICES ASSUME NEW i \in 1 .. Len(t), NEW j \in 1 .. Len(t), t[i] = t[j]
                 PROVE  i = j
      BY <2>8 DEF IsInjective
    <3>1. s[h(i)] = s[h(j)] /\ h(i) \in 1 .. Len(s) /\ h(j) \in 1 .. Len(s)
      BY <2>8
    <3>2. h(i) = h(j)
      BY <3>1 DEF IsInjective
    <3> QED
      BY <3>2
  <2>10. Range(t) = Range(s) \ {e}
    <3>1. ASSUME NEW i \in DOMAIN t
          PROVE  t[i] \in Range(s) \ {e}
      BY <2>1, <2>8 DEF Range, IsInjective
    <3>2. ASSUME NEW j \in DOMAIN s, s[j] # e
          PROVE  \E i \in DOMAIN t : t[i] = s[j]
      <4>1. CASE j < k
        BY <4>1, <2>1, <2>8
      <4>2. CASE j > k
        <5>1. j - 1 \in 1 .. Len(t) /\ h(j - 1) = j
          BY <4>2, <2>1, <2>8
        <5> QED
          BY <5>1, <2>8
      <4> QED
        BY <4>1, <4>2, <3>2, <2>1
    <3> QED
      BY <3>1, <3>2 DEF Range
  <2>11. ASSUME NEW i \in DOMAIN t, NEW j \in DOMAIN t, i <= j
        PROVE  \E m, l \in DOMAIN s : m <= l /\ t[i] = s[m] /\ t[j] = s[l]
    <3>0. i \in 1 .. Len(t) /\ j \in 1 .. Len(t)
      BY <2>8
    <3>1. h(i) \in DOMAIN s /\ h(j) \in DOMAIN s /\ h(i) <= h(j)
      BY <2>8, <2>11, <3>0
    <3> HIDE DEF h
    <3>2. t[i] = s[h(i)] /\ t[j] = s[h(j)]
      BY <2>8, <3>0
    <3> QED
      BY <3>1, <3>2
  <2>12. s # <<>> /\ Head(s) # e => t # <<>> /\ Head(t) = Head(s)
    <3> SUFFICES ASSUME s # <<>>, Head(s) # e
                 PROVE  t # <<>> /\ Head(t) = Head(s)
      OBVIOUS
    <3>1. k > 1
      BY <2>1
    <3>2. 1 \in 1 .. Len(t) /\ h(1) = 1
      BY <3>1, <2>8
    <3> QED
      BY <3>2, <2>8
  <2>13. s # <<>>
    BY <2>1
  <2> QED
    BY <2>8, <2>9, <2>10, <2>11, <2>12, <2>13 DEF t
<1>2. CASE ~ \E i \in 1 .. Len(s) : s[i] = e
  BY <1>2 DEF RemoveFirst, Range
<1> QED
  BY <1>1, <1>2

LEMMA AppendFacts ==
  ASSUME NEW S, NEW s \in Seq(S), IsInjective(s), NEW e \in S \ Range(s)
  PROVE  /\ Append(s, e) \in Seq(S) /\ IsInjective(Append(s, e))
         /\ Range(Append(s, e)) = Range(s) \cup {e}
BY DEF IsInjective, Range

LEMMA TailFacts ==
  ASSUME NEW S, NEW s \in Seq(S), IsInjective(s), s # <<>>
  PROVE  /\ Head(s) \in S /\ Head(s) \in Range(s)
         /\ Tail(s) \in Seq(S) /\ IsInjective(Tail(s))
         /\ Range(Tail(s)) = Range(s) \ {Head(s)}
<1>1. Len(s) \in Nat /\ Len(s) > 0 /\ Head(s) = s[1] /\ 1 \in DOMAIN s
  OBVIOUS
<1>2. Tail(s) \in Seq(S) /\ Len(Tail(s)) = Len(s) - 1
      /\ \A i \in 1 .. Len(s) - 1 : Tail(s)[i] = s[i + 1]
  OBVIOUS
<1>3. IsInjective(Tail(s))
  BY <1>1, <1>2 DEF IsInjective
<1>4. ASSUME NEW i \in DOMAIN Tail(s)
      PROVE  Tail(s)[i] \in Range(s) \ {Head(s)}
  BY <1>1, <1>2 DEF IsInjective, Range
<1>5. ASSUME NEW j \in DOMAIN s, s[j] # Head(s)
      PROVE  \E i \in DOMAIN Tail(s) : Tail(s)[i] = s[j]
  <2>1. j - 1 \in DOMAIN Tail(s) /\ j - 1 + 1 = j
    BY <1>1, <1>2, <1>5
  <2> QED
    BY <2>1, <1>2
<1>6. Range(Tail(s)) = Range(s) \ {Head(s)}
  BY <1>4, <1>5 DEF Range
<1>7. Head(s) \in S /\ Head(s) \in Range(s)
  BY <1>1 DEF Range
<1> QED
  BY <1>2, <1>3, <1>6, <1>7

(* The successor in a list that has each device once.                      *)
LEMMA AfterFacts ==
  ASSUME list \in Seq(Devices), IsInjective(list), NEW i \in DOMAIN list
  PROVE  After(list[i]) = IF i < Len(list) THEN list[i + 1] ELSE None
<1>1. \A j \in DOMAIN list : list[j] = list[i] <=> j = i
  BY DEF IsInjective
<1>2. (CHOOSE j \in DOMAIN list : list[j] = list[i]) = i
  BY <1>1
<1> QED
  BY <1>2 DEF After

(* A device without receivers that is not being started is deleted: it     *)
(* leaves the list, the rest stays as it is.                               *)
LEMMA DeleteFacts ==
  ASSUME RecvTypeOK, ListsOfTheLiving, NEW d \in Devices, Delete(d)
  PROVE  /\ list' \in Seq(Devices) /\ IsInjective(list')
         /\ dev' \in [Devices -> [alive : BOOLEAN, starting : BOOLEAN, threads : Seq(Receivers)]]
         /\ stale' \subseteq Devices
         /\ Range(list') = Range(list) \ {d}
         /\ Range(list') = {e \in Devices : dev'[e].alive}
         /\ \A i, j \in DOMAIN list' : i <= j =>
              \E k, l \in DOMAIN list : k <= l /\ list'[i] = list[k] /\ list'[j] = list[l]
         /\ \A e \in Devices :
              /\ dev'[e].threads = dev[e].threads /\ dev'[e].starting = dev[e].starting
              /\ dev'[e].alive <=> dev[e].alive /\ e # d
<1>1. list \in Seq(Devices) /\ IsInjective(list) /\ list' = RemoveFirst(list, d)
  BY DEF RecvTypeOK, ListsOfTheLiving, Delete
<1>2. /\ list' \in Seq(Devices) /\ IsInjective(list')
      /\ Range(list') = Range(list) \ {d}
      /\ \A i, j \in DOMAIN list' : i <= j =>
           \E k, l \in DOMAIN list : k <= l /\ list'[i] = list[k] /\ list'[j] = list[l]
  BY <1>1, RemoveFirstFacts
<1>3. /\ dev' \in [Devices -> [alive : BOOLEAN, starting : BOOLEAN, threads : Seq(Receivers)]]
      /\ \A e \in Devices :
           /\ dev'[e].threads = dev[e].threads /\ dev'[e].starting = dev[e].starting
           /\ dev'[e].alive <=> dev[e].alive /\ e # d
  BY DEF Delete, RecvTypeOK
<1>4. stale' \subseteq Devices
  BY DEF Delete, Uses, RecvTypeOK
<1>5. Range(list') = {e \in Devices : dev'[e].alive}
  BY <1>2, <1>3 DEF ListsOfTheLiving
<1> QED
  BY <1>2, <1>3, <1>4, <1>5

(* What is fresh stays so when a device that is not fresh leaves the list. *)
LEMMA DeleteKeepsRest ==
  ASSUME RecvTypeOK, ListsOfTheLiving, RestIsFresh, NEW d \in Devices, Delete(d), d \notin Fresh,
         main'.at \in {"next", "create", "log", "fail"} =>
           main.at \in {"next", "create", "log", "fail"} /\ main'.next = main.next,
         Fresh \subseteq Fresh'
  PROVE  RestIsFresh'
<1> SUFFICES ASSUME main'.at \in {"next", "create", "log", "fail"}, main'.next # None
             PROVE  /\ main'.next \in Range(list')
                    /\ \A i, j \in DOMAIN list' :
                         i <= j /\ list'[i] = main'.next => list'[j] \in Fresh'
  BY DEF RestIsFresh
<1>1. /\ main'.next = main.next /\ main.next \in Range(list)
      /\ \A i, j \in DOMAIN list : i <= j /\ list[i] = main.next => list[j] \in Fresh
  BY DEF RestIsFresh
<1>2. /\ Range(list') = Range(list) \ {d}
      /\ list' \in Seq(Devices)
      /\ \A i, j \in DOMAIN list' : i <= j =>
           \E k, l \in DOMAIN list : k <= l /\ list'[i] = list[k] /\ list'[j] = list[l]
  BY DeleteFacts
<1>3. main.next # d
  <2>1. PICK i \in DOMAIN list : list[i] = main.next
    BY <1>1 DEF Range
  <2>2. list[i] \in Fresh
    BY <1>1, <2>1 DEF RecvTypeOK
  <2> QED
    BY <2>1, <2>2
<1>4. ASSUME NEW i \in DOMAIN list', NEW j \in DOMAIN list', i <= j, list'[i] = main'.next
      PROVE  list'[j] \in Fresh'
  <2>1. PICK k, l \in DOMAIN list : k <= l /\ list'[i] = list[k] /\ list'[j] = list[l]
    BY <1>2, <1>4
  <2>2. list'[j] \in Fresh
    BY <1>1, <1>4, <2>1
  <2> QED
    BY <2>2
<1> QED
  BY <1>1, <1>2, <1>3, <1>4

LEMMA ListKeepsRest ==
  ASSUME RestIsFresh, list' = list, Fresh \subseteq Fresh',
         main'.at \in {"next", "create", "log", "fail"} =>
           main.at \in {"next", "create", "log", "fail"} /\ main'.next = main.next
  PROVE  RestIsFresh'
BY DEF RestIsFresh

-----------------------------------------------------------------------------
(* The initial states                                                      *)

LEMMA InitInv == Init => IInv
<1> SUFFICES ASSUME Init PROVE IInv
  OBVIOUS
<1> USE DEF Init
<1>1. list \in Seq(Devices) /\ IsInjective(list) /\ Range(list) = Devices
  <2> DEFINE n == Cardinality(Devices)
  <2>1. n \in Nat
    BY RecvDeviceAssumption, FS_CardinalityType
  <2>2. list \in [1 .. n -> Devices] /\ \A i, j \in 1 .. n : i # j => list[i] # list[j]
    BY DEF SetToSeqs
  <2>3. list \in Injection(1 .. n, Devices)
    BY <2>2 DEF Injection, IsInjective
  <2>4. Cardinality(1 .. n) = n /\ IsFiniteSet(1 .. n)
    BY <2>1, FS_Interval
  <2>5. list \in Surjection(1 .. n, Devices)
    BY <2>3, <2>4, FS_Injection, RecvDeviceAssumption
  <2>6. Range(list) = Devices
    BY <2>2, <2>5 DEF Surjection, Range
  <2> QED
    BY <2>1, <2>2, <2>6 DEF IsInjective
<1>2. main.next \in Devices \cup {None} /\ (main.next # None => main.next \in Range(list))
  BY <1>1 DEF GetFirst, Range
<1>3. RecvTypeOK
  BY <1>1, <1>2, RecvDeviceAssumption DEF RecvTypeOK, MainThreads, Points, Lives
<1>4. ListsOfTheLiving
  BY <1>1 DEF ListsOfTheLiving, Range, IsInjective
<1>5. ListeningIsListed
  BY DEF ListeningIsListed
<1>6. Fresh = Devices
  BY DEF Fresh
<1>7. RestIsFresh
  BY <1>1, <1>2, <1>6 DEF RestIsFresh
<1> QED
  BY <1>3, <1>4, <1>5, <1>7 DEF IInv, DeviceInv, BeingStarted, InHand, DeleteIsDue

-----------------------------------------------------------------------------
(* StartReceive                                                            *)

LEMMA StartsDeviceInv ==
  ASSUME IInv, StartsDevice
  PROVE  IInv'
<1> DEFINE d == main.next
<1> USE DEF IInv, DeviceInv
<1>1. /\ d \in Range(list) /\ d \in Devices
      /\ \A i, j \in DOMAIN list : i <= j /\ list[i] = d => list[j] \in Fresh
  BY DEF RestIsFresh, RecvTypeOK, MainThreads, StartsDevice
<1>2. PICK k \in DOMAIN list : list[k] = d
  BY <1>1 DEF Range
<1>3. list \in Seq(Devices) /\ IsInjective(list)
  BY DEF RecvTypeOK, ListsOfTheLiving
<1>4. After(d) = IF k < Len(list) THEN list[k + 1] ELSE None
  BY <1>2, <1>3, AfterFacts
<1>5. After(d) \in Devices \cup {None} /\ After(d) # d
  <2>1. k < Len(list) => list[k + 1] \in Devices /\ list[k + 1] # list[k]
    BY <1>3 DEF IsInjective
  <2> QED
    BY <2>1, <1>1, <1>2, <1>4, RecvDeviceAssumption
<1>6. /\ d \in Fresh /\ dev[d].alive
      /\ dev[d].threads = <<>> /\ ~dev[d].starting
  <2>1. d \in Fresh
    BY <1>1, <1>2, <1>3
  <2> QED
    BY <2>1, <1>1 DEF ListsOfTheLiving, Fresh
<1>7. ASSUME NEW j \in DOMAIN list, NEW i \in DOMAIN list, i <= j, list[i] = After(d)
      PROVE  list[j] \in Fresh /\ list[j] # d
  <2>1. i = k + 1
    BY <1>3, <1>4, <1>7, RecvDeviceAssumption DEF IsInjective
  <2>2. k <= j /\ j # k
    BY <2>1, <1>3, <1>7
  <2> QED
    BY <2>2, <1>1, <1>2, <1>3 DEF IsInjective
<1>8. After(d) # None => After(d) \in Range(list)
  <2>1. k < Len(list) => k + 1 \in DOMAIN list
    BY <1>3
  <2> QED
    BY <2>1, <1>4 DEF Range
<1>9. CASE CountThreads = 0 \/ d \notin Configured
  <2>1. Delete(d) /\ main' = [main EXCEPT !.next = After(d)] /\ UNCHANGED <<st, raced>>
    BY <1>9 DEF StartsDevice
  <2>2. /\ list' \in Seq(Devices) /\ IsInjective(list')
        /\ dev' \in [Devices -> [alive : BOOLEAN, starting : BOOLEAN, threads : Seq(Receivers)]]
        /\ stale' \subseteq Devices
        /\ Range(list') = Range(list) \ {d}
        /\ Range(list') = {e \in Devices : dev'[e].alive}
        /\ \A i, j \in DOMAIN list' : i <= j =>
             \E m, l \in DOMAIN list : m <= l /\ list'[i] = list[m] /\ list'[j] = list[l]
        /\ \A e \in Devices :
             /\ dev'[e].threads = dev[e].threads /\ dev'[e].starting = dev[e].starting
             /\ dev'[e].alive <=> dev[e].alive /\ e # d
    BY <1>1, <2>1, DeleteFacts
  <2>3. RecvTypeOK'
    BY <2>1, <2>2, <1>5 DEF RecvTypeOK, MainThreads
  <2>4. ListsOfTheLiving'
    <3>1. \A e \in Devices :
            /\ IsInjective(dev'[e].threads)
            /\ \A q \in Range(dev'[e].threads) : DeviceOf(q) = e /\ st'[q] \in {"listen", "stop"}
      BY <2>1, <2>2 DEF ListsOfTheLiving
    <3>2. dev[d].threads = <<>> /\ ~dev[d].starting
      BY <1>6 DEF Fresh
    <3>3. \A e \in Devices : ~dev'[e].alive => dev'[e].threads = <<>> /\ ~dev'[e].starting
      BY <2>2, <3>2 DEF ListsOfTheLiving
    <3> QED
      BY <2>2, <3>1, <3>3 DEF ListsOfTheLiving
  <2>5. ListeningIsListed'
    BY <2>1, <2>2, <1>6 DEF ListeningIsListed, Fresh, Receivers, DeviceOf, RecvTypeOK, MainThreads
  <2>6. Fresh' = Fresh
    BY <2>1, <2>2 DEF Fresh
  <2>7. RestIsFresh'
    <3>1. main'.next = After(d)
      BY <2>1 DEF RecvTypeOK, MainThreads
    <3>2. ASSUME NEW i \in DOMAIN list', NEW j \in DOMAIN list', i <= j, list'[i] = After(d)
          PROVE  list'[j] \in Fresh'
      <4>1. PICK m, l \in DOMAIN list : m <= l /\ list'[i] = list[m] /\ list'[j] = list[l]
        BY <2>2, <3>2
      <4> QED
        BY <4>1, <3>2, <1>7, <2>6
    <3> QED
      BY <3>1, <3>2, <1>5, <1>8, <2>2 DEF RestIsFresh
  <2>8. BeingStarted' /\ InHand'
    <3>1. main'.at = "next"
      BY <2>1 DEF RecvTypeOK, MainThreads, StartsDevice
    <3> QED
      BY <3>1 DEF BeingStarted, InHand
  <2>9. DeleteIsDue'
    BY <2>1, <2>2 DEF DeleteIsDue, Receivers, DeviceOf
  <2> QED
    BY <2>3, <2>4, <2>5, <2>7, <2>8, <2>9
<1>10. CASE ~(CountThreads = 0 \/ d \notin Configured)
  <2>1. /\ dev' = [dev EXCEPT ![d].starting = TRUE]
        /\ main' = [main EXCEPT !.at = "create", !.cur = d, !.next = After(d),
                                !.left = CountThreads]
        /\ UNCHANGED <<list, stale, st, raced>>
    BY <1>10 DEF StartsDevice
  <2>2. /\ dev' \in [Devices -> [alive : BOOLEAN, starting : BOOLEAN, threads : Seq(Receivers)]]
        /\ \A e \in Devices :
             /\ dev'[e].threads = dev[e].threads /\ dev'[e].alive = dev[e].alive
             /\ dev'[e].starting <=> (dev[e].starting \/ e = d)
    BY <2>1, <1>1 DEF RecvTypeOK
  <2>3. /\ main' \in MainThreads /\ main'.at = "create" /\ main'.cur = d
        /\ main'.next = After(d) /\ main'.left = CountThreads
    <3>1. "create" \in Points /\ CountThreads \in 0 .. CountThreads
      BY RecvDeviceAssumption DEF Points
    <3>2. main \in MainThreads /\ d \in Devices /\ After(d) \in Devices \cup {None}
      BY <1>1, <1>5 DEF RecvTypeOK
    <3> HIDE DEF d
    <3> QED
      BY <2>1, <3>1, <3>2 DEF MainThreads
  <2>4. RecvTypeOK'
    BY <2>1, <2>2, <2>3 DEF RecvTypeOK
  <2>5. ListsOfTheLiving'
    BY <2>1, <2>2, <1>6 DEF ListsOfTheLiving
  <2>6. ListeningIsListed'
    <3>1. main.at = "next"
      BY DEF StartsDevice
    <3>2. \A r \in Receivers : DeviceOf(r) \in Devices
      BY DEF Receivers, DeviceOf
    <3> QED
      BY <2>1, <2>2, <3>1, <3>2 DEF ListeningIsListed
  <2>7. Fresh' = Fresh \ {d}
    BY <2>1, <2>2 DEF Fresh
  <2>8. RestIsFresh'
    <3>1. ASSUME NEW i \in DOMAIN list', NEW j \in DOMAIN list', i <= j, list'[i] = After(d)
          PROVE  list'[j] \in Fresh'
      BY <3>1, <2>1, <2>7, <1>7
    <3> QED
      BY <2>1, <2>3, <3>1, <1>8 DEF RestIsFresh
  <2>9. \A i \in 1 .. CountThreads : st[<<d, i>>] = "none"
    BY <1>6, <1>1 DEF Fresh, Receivers, DeviceOf
  <2>10. BeingStarted' /\ InHand'
    <3>1. CountThreads > 0
      BY <1>10, RecvDeviceAssumption
    <3>2. dev'[d].starting
      BY <1>1, <2>2
    <3> QED
      BY <2>1, <2>3, <2>9, <3>1, <3>2, <1>1 DEF BeingStarted, InHand
  <2>11. DeleteIsDue'
    BY <2>1, <2>2, <1>6 DEF DeleteIsDue, Receivers, DeviceOf, Fresh
  <2> QED
    BY <2>4, <2>5, <2>6, <2>8, <2>10, <2>11
<1> QED
  BY <1>9, <1>10

(* A step of the main thread that has not called StopReceive of a receiver *)
(* and changes nothing but where the thread is.                            *)
LEMMA MainStep ==
  ASSUME IInv, UNCHANGED <<list, dev, st, raced>>, stale' \subseteq Devices,
         main' \in MainThreads, main.at # "call",
         main'.at \in {"next", "create", "log", "fail"} =>
           main.at \in {"next", "create", "log", "fail"} /\ main'.next = main.next
  PROVE  DeviceInv' /\ RestIsFresh' /\ DeleteIsDue'
<1> USE DEF IInv, DeviceInv
<1>1. RecvTypeOK'
  BY DEF RecvTypeOK
<1>2. ListsOfTheLiving'
  BY DEF ListsOfTheLiving
<1>3. ListeningIsListed'
  BY DEF ListeningIsListed
<1>4. RestIsFresh'
  <2>1. Fresh' = Fresh
    BY DEF Fresh
  <2> QED
    BY <2>1, ListKeepsRest
<1>5. DeleteIsDue'
  BY DEF DeleteIsDue
<1> QED
  BY <1>1, <1>2, <1>3, <1>4, <1>5

LEMMA CreatesReceiverInv ==
  ASSUME IInv, CreatesReceiver
  PROVE  IInv'
<1> DEFINE d == main.cur
           r == <<d, main.left>>
<1> USE DEF IInv, DeviceInv
<1>1. /\ main.at = "create" /\ main.left > 0
      /\ main' = [main EXCEPT !.left = @ - 1]
      /\ UNCHANGED <<list, stale, raced>>
  BY DEF CreatesReceiver
<1>2. /\ d \in Devices /\ CountThreads > 0 /\ dev[d].starting
      /\ \A i \in 1 .. CountThreads : st[<<d, i>>] = "none" <=> i <= main.left
  BY <1>1 DEF BeingStarted
<1>3. /\ main.left \in 1 .. CountThreads /\ r \in Receivers /\ DeviceOf(r) = d
      /\ st[r] = "none"
  BY <1>1, <1>2, RecvDeviceAssumption DEF RecvTypeOK, MainThreads, Receivers, DeviceOf
<1>4. /\ main' \in MainThreads /\ main'.at = "create" /\ main'.cur = d
      /\ main'.next = main.next /\ main'.left = main.left - 1
  <2>1. main \in MainThreads /\ main.left - 1 \in 0 .. CountThreads
    BY <1>3, RecvDeviceAssumption DEF RecvTypeOK
  <2> QED
    BY <1>1, <2>1 DEF MainThreads
<1>5. /\ dev[d].alive
      /\ dev[d].threads \in Seq(Receivers) /\ IsInjective(dev[d].threads)
      /\ r \notin Range(dev[d].threads)
  <2>1. dev[d].alive /\ IsInjective(dev[d].threads)
    BY <1>2 DEF ListsOfTheLiving
  <2>2. dev[d].threads \in Seq(Receivers)
    BY <1>2 DEF RecvTypeOK
  <2>3. r \notin Range(dev[d].threads)
    BY <1>2, <1>3 DEF ListsOfTheLiving
  <2> QED
    BY <2>1, <2>2, <2>3
<1>6. PICK life \in {"listen", "gone"} :
        /\ st' = [st EXCEPT ![r] = life]
        /\ life = "listen" => dev' = [dev EXCEPT ![d].threads = Append(@, r)]
        /\ life = "gone" => dev' = dev
  BY DEF CreatesReceiver
<1> HIDE DEF r, d
<1>7. /\ dev' \in [Devices -> [alive : BOOLEAN, starting : BOOLEAN, threads : Seq(Receivers)]]
      /\ \A e \in Devices :
           /\ dev'[e].alive = dev[e].alive /\ dev'[e].starting = dev[e].starting
           /\ e # d => dev'[e].threads = dev[e].threads
      /\ IsInjective(dev'[d].threads)
      /\ Range(dev'[d].threads) =
           Range(dev[d].threads) \cup (IF life = "listen" THEN {r} ELSE {})
  <2>1. /\ Append(dev[d].threads, r) \in Seq(Receivers) /\ IsInjective(Append(dev[d].threads, r))
        /\ Range(Append(dev[d].threads, r)) = Range(dev[d].threads) \cup {r}
    BY <1>3, <1>5, AppendFacts
  <2>2. dev \in [Devices -> [alive : BOOLEAN, starting : BOOLEAN, threads : Seq(Receivers)]]
    BY DEF RecvTypeOK
  <2>3. CASE life = "listen"
    <3> DEFINE u == Append(dev[d].threads, r)
    <3>1. d \in Devices /\ dev' = [dev EXCEPT ![d].threads = u]
      BY <2>3, <1>2, <1>6
    <3>2. /\ u \in Seq(Receivers) /\ IsInjective(u)
          /\ Range(u) = Range(dev[d].threads) \cup {r}
      BY <2>1
    <3> HIDE DEF u
    <3>3. /\ dev' \in [Devices -> [alive : BOOLEAN, starting : BOOLEAN, threads : Seq(Receivers)]]
          /\ dev'[d].threads = u
          /\ \A e \in Devices :
               /\ dev'[e].alive = dev[e].alive /\ dev'[e].starting = dev[e].starting
               /\ e # d => dev'[e].threads = dev[e].threads
      BY <3>1, <3>2, <2>2
    <3> QED
      BY <2>3, <3>2, <3>3
  <2>4. CASE life = "gone"
    BY <2>2, <2>4, <1>5, <1>6
  <2> QED
    BY <2>3, <2>4
<1>8. /\ st' \in [Receivers -> Lives] /\ st'[r] = life
      /\ \A q \in Receivers : q # r => st'[q] = st[q]
  BY <1>3, <1>6 DEF RecvTypeOK, Lives
<1>9. RecvTypeOK'
  BY <1>1, <1>4, <1>7, <1>8 DEF RecvTypeOK
<1>10. ListsOfTheLiving'
  <2>1. \A e \in Devices :
          /\ IsInjective(dev'[e].threads)
          /\ \A q \in Range(dev'[e].threads) : DeviceOf(q) = e /\ st'[q] \in {"listen", "stop"}
    <3>1. ASSUME NEW e \in Devices, NEW q \in Range(dev[e].threads)
          PROVE  DeviceOf(q) = e /\ st'[q] \in {"listen", "stop"}
      <4>1. q \in Receivers
        BY <3>1 DEF RecvTypeOK, Range
      <4> QED
        BY <3>1, <4>1, <1>3, <1>8 DEF ListsOfTheLiving
    <3>2. \A e \in Devices : IsInjective(dev'[e].threads)
      BY <1>7 DEF ListsOfTheLiving
    <3> QED
      BY <3>1, <3>2, <1>3, <1>7, <1>8
  <2>2. \A e \in Devices : ~dev'[e].alive => dev'[e].threads = <<>> /\ ~dev'[e].starting
    BY <1>5, <1>7 DEF ListsOfTheLiving
  <2> QED
    BY <2>1, <2>2, <1>1, <1>7 DEF ListsOfTheLiving
<1>11. ListeningIsListed'
  <2> SUFFICES ASSUME NEW q \in Receivers, st'[q] = "listen"
               PROVE  \/ dev'[DeviceOf(q)].alive /\ q \in Range(dev'[DeviceOf(q)].threads)
                      \/ DeviceOf(q) \in raced
    BY <1>1 DEF ListeningIsListed
  <2>1. CASE q = r
    BY <2>1, <1>3, <1>5, <1>7, <1>8, <1>2
  <2>2. CASE q # r
    <3>1. DeviceOf(q) \in Devices
      BY DEF Receivers, DeviceOf
    <3> QED
      BY <2>2, <3>1, <1>1, <1>7, <1>8 DEF ListeningIsListed
  <2> QED
    BY <2>1, <2>2
<1>12. RestIsFresh'
  <2>1. ASSUME NEW e \in Fresh PROVE e \in Fresh'
    <3>1. /\ e \in Devices /\ dev[e].threads = <<>> /\ ~dev[e].starting
          /\ \A q \in Receivers : DeviceOf(q) = e => st[q] = "none"
      BY <2>1 DEF Fresh
    <3>2. e # d
      BY <1>2, <3>1
    <3>3. /\ dev'[e].threads = <<>> /\ ~dev'[e].starting
          /\ \A q \in Receivers : DeviceOf(q) = e => st'[q] = "none"
      BY <1>3, <1>7, <1>8, <3>1, <3>2
    <3> QED
      BY <3>1, <3>3 DEF Fresh
  <2> QED
    BY <2>1, <1>1, <1>4, ListKeepsRest
<1>13. BeingStarted' /\ InHand'
  <2>1. \A i \in 1 .. CountThreads : st'[<<d, i>>] = "none" <=> i <= main.left - 1
    <3> SUFFICES ASSUME NEW i \in 1 .. CountThreads
                 PROVE  st'[<<d, i>>] = "none" <=> i <= main.left - 1
      OBVIOUS
    <3>1. <<d, i>> \in Receivers /\ (<<d, i>> = r <=> i = main.left)
      BY <1>2 DEF Receivers, r
    <3> QED
      BY <3>1, <1>2, <1>3, <1>8, RecvDeviceAssumption
  <2> QED
    BY <2>1, <1>2, <1>4, <1>7 DEF BeingStarted, InHand
<1>14. DeleteIsDue'
  <2> SUFFICES ASSUME NEW q \in Receivers, st'[q] = "delete"
               PROVE  dev'[DeviceOf(q)].threads = <<>> /\ ~dev'[DeviceOf(q)].starting
    BY DEF DeleteIsDue
  <2>1. DeviceOf(q) \in Devices /\ q # r /\ st[q] = "delete"
    BY <1>8 DEF Receivers, DeviceOf
  <2> QED
    BY <2>1, <1>2, <1>7 DEF DeleteIsDue
<1> QED
  BY <1>9, <1>10, <1>11, <1>12, <1>13, <1>14

LEMMA TestsReceiversInv ==
  ASSUME IInv, TestsReceivers
  PROVE  IInv'
<1>1. /\ main.at = "create" /\ main.left = 0 /\ main \in MainThreads
      /\ UNCHANGED <<list, dev, st, stale, raced>>
  BY DEF TestsReceivers, IInv, DeviceInv, RecvTypeOK
<1>2. PICK p \in {"fail", "log"} :
        /\ main' = [main EXCEPT !.at = p]
        /\ p = "fail" => dev[main.cur].threads = <<>>
  BY DEF TestsReceivers
<1>3. /\ main' \in MainThreads /\ main'.at = p /\ main'.cur = main.cur
      /\ main'.next = main.next /\ main'.left = 0
  BY <1>1, <1>2 DEF MainThreads, Points
<1>4. DeviceInv' /\ RestIsFresh' /\ DeleteIsDue'
  BY <1>1, <1>3, MainStep DEF IInv, DeviceInv, RecvTypeOK
<1>5. BeingStarted' /\ InHand'
  BY <1>1, <1>2, <1>3 DEF IInv, BeingStarted, InHand
<1> QED
  BY <1>4, <1>5 DEF IInv

LEMMA EndsStartInv ==
  ASSUME IInv, EndsStart
  PROVE  IInv'
<1> DEFINE d == main.cur
<1> USE DEF IInv, DeviceInv
<1>1. /\ main.at = "log" /\ main \in MainThreads /\ d \in Devices
      /\ dev' = [dev EXCEPT ![d].starting = FALSE]
      /\ main' = [main EXCEPT !.at = "next", !.cur = None]
      /\ UNCHANGED <<list, st, stale, raced>>
  BY DEF EndsStart, RecvTypeOK, BeingStarted
<1>2. main' \in MainThreads /\ main'.at = "next" /\ main'.next = main.next
  BY <1>1 DEF MainThreads, Points
<1> HIDE DEF d
<1>3. /\ dev' \in [Devices -> [alive : BOOLEAN, starting : BOOLEAN, threads : Seq(Receivers)]]
      /\ \A e \in Devices :
           /\ dev'[e].threads = dev[e].threads /\ dev'[e].alive = dev[e].alive
           /\ dev'[e].starting <=> (dev[e].starting /\ e # d)
  BY <1>1 DEF RecvTypeOK
<1>4. RecvTypeOK' /\ ListsOfTheLiving'
  BY <1>1, <1>2, <1>3 DEF RecvTypeOK, ListsOfTheLiving
<1>5. ListeningIsListed'
  <2>1. \A r \in Receivers : DeviceOf(r) \in Devices
    BY DEF Receivers, DeviceOf
  <2> QED
    BY <2>1, <1>1, <1>3 DEF ListeningIsListed
<1>6. RestIsFresh'
  <2>1. Fresh \subseteq Fresh'
    BY <1>1, <1>3 DEF Fresh
  <2> QED
    BY <2>1, <1>1, <1>2, ListKeepsRest
<1>7. BeingStarted' /\ InHand'
  BY <1>2 DEF BeingStarted, InHand
<1>8. DeleteIsDue'
  <2>1. \A r \in Receivers : DeviceOf(r) \in Devices
    BY DEF Receivers, DeviceOf
  <2> QED
    BY <2>1, <1>1, <1>3 DEF DeleteIsDue
<1> QED
  BY <1>4, <1>5, <1>6, <1>7, <1>8

LEMMA FailsStartInv ==
  ASSUME IInv, FailsStart
  PROVE  IInv'
<1> DEFINE d == main.cur
<1> USE DEF IInv, DeviceInv
<1>1. /\ main.at = "fail" /\ main \in MainThreads /\ d \in Devices
      /\ dev[d].threads = <<>> /\ main.left = 0 /\ CountThreads > 0
      /\ \A i \in 1 .. CountThreads : st[<<d, i>>] # "none"
      /\ UNCHANGED <<st, raced>>
  BY RecvDeviceAssumption DEF FailsStart, RecvTypeOK, BeingStarted
<1>2. \A r \in Receivers : DeviceOf(r) \in Devices
  BY DEF Receivers, DeviceOf
<1>3. CASE dev[d].starting
  <2>1. /\ dev' = [dev EXCEPT ![d].starting = FALSE]
        /\ UNCHANGED <<main, list, st, stale, raced>>
    BY <1>3 DEF FailsStart
  <2> HIDE DEF d
  <2>2. /\ dev' \in [Devices -> [alive : BOOLEAN, starting : BOOLEAN, threads : Seq(Receivers)]]
        /\ \A e \in Devices :
             /\ dev'[e].threads = dev[e].threads /\ dev'[e].alive = dev[e].alive
             /\ dev'[e].starting <=> (dev[e].starting /\ e # d)
    BY <2>1, <1>1 DEF RecvTypeOK
  <2>3. RecvTypeOK' /\ ListsOfTheLiving'
    BY <2>1, <2>2 DEF RecvTypeOK, ListsOfTheLiving
  <2>4. ListeningIsListed' /\ DeleteIsDue'
    BY <2>1, <2>2, <1>2 DEF ListeningIsListed, DeleteIsDue
  <2>5. RestIsFresh'
    <3>1. Fresh \subseteq Fresh'
      BY <2>1, <2>2 DEF Fresh
    <3> QED
      BY <3>1, <2>1, ListKeepsRest
  <2>6. BeingStarted' /\ InHand'
    BY <1>1, <2>1, <2>2 DEF BeingStarted, InHand
  <2> QED
    BY <2>3, <2>4, <2>5, <2>6
<1>4. CASE ~dev[d].starting
  <2>1. Delete(d) /\ main' = [main EXCEPT !.at = "next", !.cur = None]
    BY <1>4 DEF FailsStart
  <2>2. main' \in MainThreads /\ main'.at = "next" /\ main'.next = main.next
    BY <1>1, <2>1 DEF MainThreads, Points
  <2> HIDE DEF d
  <2>3. /\ list' \in Seq(Devices) /\ IsInjective(list')
        /\ dev' \in [Devices -> [alive : BOOLEAN, starting : BOOLEAN, threads : Seq(Receivers)]]
        /\ stale' \subseteq Devices
        /\ Range(list') = {e \in Devices : dev'[e].alive}
        /\ \A e \in Devices :
             /\ dev'[e].threads = dev[e].threads /\ dev'[e].starting = dev[e].starting
             /\ dev'[e].alive <=> dev[e].alive /\ e # d
    BY <1>1, <2>1, DeleteFacts
  <2>4. RecvTypeOK' /\ ListsOfTheLiving'
    BY <1>1, <1>4, <2>2, <2>3 DEF RecvTypeOK, ListsOfTheLiving
  <2>5. ListeningIsListed'
    <3>1. \A r : r \notin Range(dev[d].threads)
      BY <1>1 DEF Range
    <3> QED
      BY <1>1, <1>2, <2>2, <2>3, <3>1 DEF ListeningIsListed
  <2>8. DeleteIsDue'
    BY <1>1, <1>2, <2>3 DEF DeleteIsDue
  <2>6. RestIsFresh'
    <3>1. <<d, 1>> \in Receivers /\ DeviceOf(<<d, 1>>) = d /\ st[<<d, 1>>] # "none"
      BY <1>1, RecvDeviceAssumption DEF Receivers, DeviceOf
    <3>2. d \notin Fresh
      BY <3>1 DEF Fresh
    <3>3. Fresh \subseteq Fresh'
      BY <1>1, <2>3 DEF Fresh
    <3> QED
      BY <1>1, <2>1, <2>2, <3>2, <3>3, DeleteKeepsRest
  <2>7. BeingStarted' /\ InHand'
    BY <2>2 DEF BeingStarted, InHand
  <2> QED
    BY <2>4, <2>5, <2>6, <2>7, <2>8
<1> QED
  BY <1>3, <1>4

-----------------------------------------------------------------------------
(* The walks                                                               *)

LEMMA AllStartedInv ==
  ASSUME IInv, AllStarted
  PROVE  IInv'
<1>1. /\ main.at = "next" /\ main \in MainThreads
      /\ main' = [main EXCEPT !.at = "wait"]
      /\ UNCHANGED <<list, dev, st, stale, raced>>
  BY DEF AllStarted, IInv, DeviceInv, RecvTypeOK
<1>2. main' \in MainThreads /\ main'.at = "wait"
  BY <1>1 DEF MainThreads, Points
<1>3. DeviceInv' /\ RestIsFresh' /\ DeleteIsDue'
  BY <1>1, <1>2, MainStep DEF IInv, DeviceInv, RecvTypeOK
<1>4. BeingStarted' /\ InHand'
  BY <1>2 DEF BeingStarted, InHand
<1> QED
  BY <1>3, <1>4 DEF IInv

LEMMA BeginsWalkInv ==
  ASSUME IInv, BeginsWalk
  PROVE  IInv'
<1>1. /\ main.at = "wait" /\ main \in MainThreads /\ list \in Seq(Devices)
      /\ UNCHANGED <<list, dev, st, stale, raced>>
  BY DEF BeginsWalk, IInv, DeviceInv, RecvTypeOK
<1>2. /\ main' \in MainThreads /\ main'.at \in {"done", "visit"}
      /\ main'.at = "visit" => main'.cur \in Devices
  <2>1. PICK signal \in BOOLEAN :
          main' = IF list = <<>> THEN [main EXCEPT !.at = "done"]
                  ELSE [main EXCEPT !.at = "visit", !.cur = Head(list), !.signal = signal]
    BY DEF BeginsWalk
  <2>2. CASE list = <<>>
    BY <1>1, <2>1, <2>2 DEF MainThreads, Points
  <2>3. CASE list # <<>>
    <3>1. Head(list) \in Devices
      BY <1>1, <2>3
    <3> QED
      BY <1>1, <2>1, <2>3, <3>1 DEF MainThreads, Points
  <2> QED
    BY <2>2, <2>3
<1>3. DeviceInv' /\ RestIsFresh' /\ DeleteIsDue'
  BY <1>1, <1>2, MainStep DEF IInv, DeviceInv, RecvTypeOK
<1>4. BeingStarted' /\ InHand'
  BY <1>2 DEF BeingStarted, InHand
<1> QED
  BY <1>3, <1>4 DEF IInv

(* The end of a step of a walk that goes on to device d, or ends.          *)
LEMMA OnwardFacts ==
  ASSUME NEW d \in Devices \cup {None}, main \in MainThreads, main' = Onward(d)
  PROVE  /\ main' \in MainThreads /\ main'.at \in {"wait", "visit"}
         /\ main'.at = "visit" => main'.cur \in Devices
BY DEF Onward, MainThreads, Points

LEMMA VisitsInv ==
  ASSUME IInv, Visits
  PROVE  IInv'
<1> DEFINE d == main.cur
<1> USE DEF IInv, DeviceInv
<1>1. /\ main.at = "visit" /\ main \in MainThreads /\ d \in Devices
      /\ UNCHANGED <<list, dev, st, raced>>
  BY DEF Visits, RecvTypeOK, InHand
<1>2. stale' \subseteq Devices
  BY <1>1 DEF Visits, Uses, RecvTypeOK
<1>3. /\ main' \in MainThreads /\ main'.at \in {"crash", "pop", "wait", "visit"}
      /\ main'.at \in {"pop", "visit"} => main'.cur \in Devices
  <2>1. CASE dev[d].alive
    <3>1. list \in Seq(Devices) /\ IsInjective(list)
      BY DEF RecvTypeOK, ListsOfTheLiving
    <3>2. PICK k \in DOMAIN list : list[k] = d
      BY <1>1, <2>1 DEF ListsOfTheLiving, Range
    <3>3. After(d) = IF k < Len(list) THEN list[k + 1] ELSE None
      BY <3>1, <3>2, AfterFacts
    <3>4. After(d) \in Devices \cup {None}
      BY <3>1, <3>3
    <3>5. CASE main' = [main EXCEPT !.at = "pop", !.next = After(d)]
      BY <1>1, <3>4, <3>5 DEF MainThreads, Points
    <3>6. CASE main' = Onward(After(d))
      BY <1>1, <3>4, <3>6, OnwardFacts
    <3> QED
      BY <2>1, <3>5, <3>6 DEF Visits
  <2>2. CASE ~dev[d].alive
    BY <1>1, <2>2 DEF Visits, MainThreads, Points
  <2> QED
    BY <2>1, <2>2
<1>4. DeviceInv' /\ RestIsFresh' /\ DeleteIsDue'
  BY <1>1, <1>2, <1>3, MainStep
<1>5. BeingStarted' /\ InHand'
  BY <1>3 DEF BeingStarted, InHand
<1> QED
  BY <1>4, <1>5

LEMMA TakesFirstInv ==
  ASSUME IInv, TakesFirst
  PROVE  IInv'
<1> DEFINE d == main.cur
<1> USE DEF IInv, DeviceInv
<1>1. /\ main.at = "pop" /\ main \in MainThreads /\ d \in Devices
      /\ UNCHANGED <<list, dev, st, raced>>
  BY DEF TakesFirst, RecvTypeOK, InHand
<1>2. stale' \subseteq Devices
  BY <1>1 DEF TakesFirst, Uses, RecvTypeOK
<1>3. CASE dev[d].threads = <<>>
  <2>1. main' = Onward(main.next) /\ main.next \in Devices \cup {None}
    BY <1>1, <1>3 DEF TakesFirst, MainThreads
  <2>2. /\ main' \in MainThreads /\ main'.at \in {"wait", "visit"}
        /\ main'.at = "visit" => main'.cur \in Devices
    BY <1>1, <2>1, OnwardFacts
  <2>3. DeviceInv' /\ RestIsFresh' /\ DeleteIsDue'
    BY <1>1, <1>2, <2>2, MainStep
  <2> QED
    BY <2>2, <2>3 DEF BeingStarted, InHand
<1>4. CASE dev[d].threads # <<>>
  <2> DEFINE r == Head(dev[d].threads)
  <2>1. dev[d].threads \in Seq(Receivers) /\ IsInjective(dev[d].threads)
    BY <1>1 DEF RecvTypeOK, ListsOfTheLiving
  <2>2. r \in Receivers /\ r \in Range(dev[d].threads)
    BY <1>4, <2>1, TailFacts
  <2>3. DeviceOf(r) = d
    BY <1>1, <2>2 DEF ListsOfTheLiving
  <2>4. main' = [main EXCEPT !.at = "remove", !.rec = r]
    BY <1>4 DEF TakesFirst
  <2>5. main' \in MainThreads /\ main'.at = "remove" /\ main'.rec = r /\ main'.cur = d
    BY <1>1, <2>2, <2>4 DEF MainThreads, Points
  <2>6. DeviceInv' /\ RestIsFresh' /\ DeleteIsDue'
    BY <1>1, <1>2, <2>5, MainStep
  <2> QED
    BY <1>1, <1>4, <2>2, <2>3, <2>5, <2>6 DEF BeingStarted, InHand
<1> QED
  BY <1>3, <1>4

LEMMA RemovesFirstInv ==
  ASSUME IInv, RemovesFirst
  PROVE  IInv'
<1> DEFINE d == main.cur
           t == dev[d].threads
<1> USE DEF IInv, DeviceInv
<1>1. /\ main.at = "remove" /\ main \in MainThreads /\ d \in Devices
      /\ main.rec \in Receivers /\ DeviceOf(main.rec) = d
      /\ d \in raced \/ (t # <<>> /\ Head(t) = main.rec)
      /\ dev' = [dev EXCEPT ![d].threads = IF @ = <<>> THEN @ ELSE Tail(@)]
      /\ main' = [main EXCEPT !.at = "call"]
      /\ UNCHANGED <<list, st, raced>>
  BY DEF RemovesFirst, RecvTypeOK, InHand
<1>2. stale' \subseteq Devices
  BY <1>1 DEF RemovesFirst, Uses, RecvTypeOK
<1>3. main' \in MainThreads /\ main'.at = "call" /\ main'.cur = d /\ main'.rec = main.rec
  BY <1>1 DEF MainThreads, Points
<1>4. t \in Seq(Receivers) /\ IsInjective(t)
  BY <1>1 DEF RecvTypeOK, ListsOfTheLiving
<1> HIDE DEF t
<1>5. PICK u \in Seq(Receivers) :
        /\ dev' = [dev EXCEPT ![d].threads = u]
        /\ IsInjective(u) /\ Range(u) \subseteq Range(t)
        /\ t = <<>> => u = <<>>
        /\ t # <<>> => Range(u) = Range(t) \ {Head(t)}
  <2>1. CASE t = <<>>
    BY <1>1, <1>4, <2>1 DEF t
  <2>2. CASE t # <<>>
    <3>1. dev' = [dev EXCEPT ![d].threads = Tail(t)]
      BY <1>1, <2>2 DEF t
    <3>2. /\ Tail(t) \in Seq(Receivers) /\ IsInjective(Tail(t))
          /\ Range(Tail(t)) = Range(t) \ {Head(t)}
      BY <1>4, <2>2, TailFacts
    <3> QED
      BY <2>2, <3>1, <3>2
  <2> QED
    BY <2>1, <2>2
<1>6. /\ dev' \in [Devices -> [alive : BOOLEAN, starting : BOOLEAN, threads : Seq(Receivers)]]
      /\ dev'[d].threads = u
      /\ \A e \in Devices :
           /\ dev'[e].alive = dev[e].alive /\ dev'[e].starting = dev[e].starting
           /\ e # d => dev'[e].threads = dev[e].threads
  <2>1. dev \in [Devices -> [alive : BOOLEAN, starting : BOOLEAN, threads : Seq(Receivers)]]
    BY DEF RecvTypeOK
  <2>2. d \in Devices /\ dev' = [dev EXCEPT ![d].threads = u]
    BY <1>1, <1>5
  <2> HIDE DEF d
  <2> QED
    BY <2>1, <2>2
<1>7. \A r \in Receivers : DeviceOf(r) \in Devices
  BY DEF Receivers, DeviceOf
<1> HIDE DEF d
<1>8. RecvTypeOK'
  BY <1>1, <1>2, <1>3, <1>6 DEF RecvTypeOK
<1>9. ListsOfTheLiving'
  <2>1. \A e \in Devices : IsInjective(dev'[e].threads)
    BY <1>5, <1>6 DEF ListsOfTheLiving
  <2>2. ASSUME NEW e \in Devices, NEW r \in Range(dev'[e].threads)
        PROVE  DeviceOf(r) = e /\ st'[r] \in {"listen", "stop"}
    <3>1. CASE e = d
      <4>1. r \in Range(dev[d].threads)
        BY <1>5, <1>6, <2>2, <3>1 DEF t
      <4> QED
        BY <1>1, <2>2, <3>1, <4>1 DEF ListsOfTheLiving
    <3>2. CASE e # d
      <4>1. r \in Range(dev[e].threads)
        BY <1>6, <2>2, <3>2
      <4> QED
        BY <1>1, <4>1 DEF ListsOfTheLiving
    <3> QED
      BY <3>1, <3>2
  <2>3. \A e \in Devices : ~dev'[e].alive => dev'[e].threads = <<>> /\ ~dev'[e].starting
    BY <1>5, <1>6 DEF ListsOfTheLiving, t
  <2> QED
    BY <2>1, <2>2, <2>3, <1>1, <1>6 DEF ListsOfTheLiving
<1>10. ListeningIsListed'
  <2> SUFFICES ASSUME NEW r \in Receivers, st[r] = "listen"
               PROVE  \/ dev'[DeviceOf(r)].alive /\ r \in Range(dev'[DeviceOf(r)].threads)
                      \/ r = main.rec
                      \/ DeviceOf(r) \in raced
    BY <1>1, <1>3 DEF ListeningIsListed
  <2>1. \/ dev[DeviceOf(r)].alive /\ r \in Range(dev[DeviceOf(r)].threads)
        \/ DeviceOf(r) \in raced
    BY <1>1 DEF ListeningIsListed
  <2>2. CASE DeviceOf(r) # d
    BY <2>1, <2>2, <1>6, <1>7
  <2>3. CASE DeviceOf(r) = d /\ d \notin raced
    BY <2>1, <2>3, <1>1, <1>5, <1>6 DEF t
  <2> QED
    BY <2>2, <2>3
<1>11. RestIsFresh'
  BY <1>3 DEF RestIsFresh
<1>12. BeingStarted' /\ InHand'
  BY <1>1, <1>3 DEF BeingStarted, InHand
<1>13. DeleteIsDue'
  BY <1>1, <1>5, <1>6, <1>7 DEF DeleteIsDue, t
<1> QED
  BY <1>8, <1>9, <1>10, <1>11, <1>12, <1>13

(* A step that stops one receiver; where the main thread is afterwards it  *)
(* has nothing in hand that the rest of the invariant speaks of.           *)
LEMMA StopFacts ==
  ASSUME IInv, UNCHANGED <<list, dev, stale, raced>>, NEW r \in Receivers,
         st' = [st EXCEPT ![r] = Stopped(@)]
  PROVE  /\ st' \in [Receivers -> Lives]
         /\ st'[r] # "listen"
         /\ \A q \in Receivers :
              /\ q # r => st'[q] = st[q]
              /\ st[q] \in {"listen", "stop"} => st'[q] \in {"listen", "stop"}
              /\ st'[q] = "none" <=> st[q] = "none"
              /\ st'[q] = "delete" <=> st[q] = "delete"
         /\ ListsOfTheLiving' /\ DeleteIsDue' /\ Fresh' = Fresh
<1> USE DEF IInv, DeviceInv
<1>1. /\ st' \in [Receivers -> Lives]
      /\ st'[r] # "listen"
      /\ \A q \in Receivers :
           /\ q # r => st'[q] = st[q]
           /\ st[q] \in {"listen", "stop"} => st'[q] \in {"listen", "stop"}
           /\ st'[q] = "none" <=> st[q] = "none"
           /\ st'[q] = "delete" <=> st[q] = "delete"
  BY DEF RecvTypeOK, Stopped, Lives
<1>2. ListsOfTheLiving'
  <2>1. ASSUME NEW e \in Devices, NEW q \in Range(dev[e].threads)
        PROVE  DeviceOf(q) = e /\ st'[q] \in {"listen", "stop"}
    <3>1. q \in Receivers
      BY <2>1 DEF RecvTypeOK, Range
    <3> QED
      BY <2>1, <3>1, <1>1 DEF ListsOfTheLiving
  <2> QED
    BY <2>1 DEF ListsOfTheLiving
<1>3. DeleteIsDue'
  BY <1>1 DEF DeleteIsDue
<1>4. Fresh' = Fresh
  BY <1>1 DEF Fresh
<1> QED
  BY <1>1, <1>2, <1>3, <1>4

LEMMA StopsReceiverInv ==
  ASSUME IInv, StopsReceiver
  PROVE  IInv'
<1> USE DEF IInv, DeviceInv
<1>1. /\ main.at = "call" /\ main \in MainThreads /\ main.cur \in Devices
      /\ main.rec \in Receivers
      /\ st' = [st EXCEPT ![main.rec] = Stopped(@)]
      /\ main' = [main EXCEPT !.at = "pop", !.rec = None]
      /\ UNCHANGED <<list, dev, stale, raced>>
  BY DEF StopsReceiver, RecvTypeOK, InHand
<1>2. main' \in MainThreads /\ main'.at = "pop" /\ main'.cur = main.cur
  BY <1>1 DEF MainThreads, Points
<1>3. /\ st' \in [Receivers -> Lives]
      /\ st'[main.rec] # "listen"
      /\ \A q \in Receivers : q # main.rec => st'[q] = st[q]
      /\ ListsOfTheLiving' /\ DeleteIsDue'
  BY <1>1, StopFacts
<1>4. RecvTypeOK'
  BY <1>1, <1>2, <1>3 DEF RecvTypeOK
<1>5. ListeningIsListed'
  BY <1>1, <1>3 DEF ListeningIsListed
<1>6. RestIsFresh' /\ BeingStarted' /\ InHand'
  BY <1>1, <1>2 DEF RestIsFresh, BeingStarted, InHand
<1> QED
  BY <1>3, <1>4, <1>5, <1>6

-----------------------------------------------------------------------------
(* A receiver                                                              *)

LEMMA ListenErrorInv ==
  ASSUME IInv, NEW r \in Receivers, ListenError(r)
  PROVE  IInv'
<1> USE DEF IInv, DeviceInv
<1>1. /\ UNCHANGED <<list, dev, main, stale, raced>>
      /\ st' = [st EXCEPT ![r] = Stopped(@)]
  BY DEF ListenError, RecvTypeOK, Stopped
<1>2. /\ st' \in [Receivers -> Lives]
      /\ st'[r] # "listen"
      /\ \A q \in Receivers :
           /\ q # r => st'[q] = st[q]
           /\ st'[q] = "none" <=> st[q] = "none"
      /\ ListsOfTheLiving' /\ DeleteIsDue' /\ Fresh' = Fresh
  BY <1>1, StopFacts
<1>3. RecvTypeOK'
  BY <1>1, <1>2 DEF RecvTypeOK
<1>4. ListeningIsListed'
  BY <1>1, <1>2 DEF ListeningIsListed
<1>5. RestIsFresh'
  BY <1>1, <1>2, ListKeepsRest
<1>6. BeingStarted'
  BY <1>1, <1>2 DEF BeingStarted, Receivers
<1>7. InHand'
  BY <1>1 DEF InHand
<1> QED
  BY <1>2, <1>3, <1>4, <1>5, <1>6, <1>7

LEMMA IsResetedInv ==
  ASSUME IInv, NEW r \in Receivers, IsReseted(r)
  PROVE  IInv'
<1> DEFINE d == DeviceOf(r)
           t == dev[d].threads
           u == RemoveFirst(t, r)
<1> USE DEF IInv, DeviceInv
<1>1. /\ st[r] = "stop" /\ st' = [st EXCEPT ![r] = "report"]
      /\ dev' = [dev EXCEPT ![d].threads = u]
      /\ raced' = IF main.at = "remove" /\ main.rec = r THEN raced \cup {d} ELSE raced
      /\ UNCHANGED <<list, main, stale>>
  BY DEF IsReseted
<1>2. d \in Devices /\ \A q \in Receivers : DeviceOf(q) \in Devices
  BY DEF Receivers, DeviceOf
<1>3. t \in Seq(Receivers) /\ IsInjective(t)
  BY <1>2 DEF RecvTypeOK, ListsOfTheLiving
<1> HIDE DEF t
<1>4. /\ u \in Seq(Receivers) /\ IsInjective(u) /\ Range(u) = Range(t) \ {r}
      /\ t # <<>> /\ Head(t) # r => u # <<>> /\ Head(u) = Head(t)
      /\ t = <<>> => u = <<>>
  BY <1>3, RemoveFirstFacts
<1> HIDE DEF d, u
<1>5. /\ dev' \in [Devices -> [alive : BOOLEAN, starting : BOOLEAN, threads : Seq(Receivers)]]
      /\ dev'[d].threads = u
      /\ \A e \in Devices :
           /\ dev'[e].alive = dev[e].alive /\ dev'[e].starting = dev[e].starting
           /\ e # d => dev'[e].threads = dev[e].threads
  <2>1. dev \in [Devices -> [alive : BOOLEAN, starting : BOOLEAN, threads : Seq(Receivers)]]
    BY DEF RecvTypeOK
  <2> QED
    BY <2>1, <1>1, <1>2, <1>4
<1>6. /\ st' \in [Receivers -> Lives] /\ st'[r] = "report"
      /\ \A q \in Receivers : q # r => st'[q] = st[q]
  BY <1>1 DEF RecvTypeOK, Lives
<1>7. raced' \subseteq Devices /\ raced \subseteq raced'
  BY <1>1, <1>2 DEF RecvTypeOK
<1>8. RecvTypeOK'
  BY <1>1, <1>5, <1>6, <1>7 DEF RecvTypeOK
<1>9. ListsOfTheLiving'
  <2>1. \A e \in Devices : IsInjective(dev'[e].threads)
    BY <1>4, <1>5 DEF ListsOfTheLiving
  <2>2. ASSUME NEW e \in Devices, NEW q \in Range(dev'[e].threads)
        PROVE  DeviceOf(q) = e /\ st'[q] \in {"listen", "stop"}
    <3>1. q \in Range(dev[e].threads) /\ (e = d => q # r)
      BY <2>2, <1>4, <1>5 DEF t
    <3>2. q \in Receivers /\ DeviceOf(q) = e /\ st[q] \in {"listen", "stop"}
      BY <3>1 DEF ListsOfTheLiving, RecvTypeOK, Range
    <3>3. q # r
      BY <3>1, <3>2 DEF d
    <3> QED
      BY <3>2, <3>3, <1>6
  <2>3. \A e \in Devices : ~dev'[e].alive => dev'[e].threads = <<>> /\ ~dev'[e].starting
    BY <1>4, <1>5 DEF ListsOfTheLiving, t
  <2> QED
    BY <2>1, <2>2, <2>3, <1>1, <1>5 DEF ListsOfTheLiving
<1>10. ListeningIsListed'
  <2> SUFFICES ASSUME NEW q \in Receivers, st'[q] = "listen"
               PROVE  \/ dev'[DeviceOf(q)].alive /\ q \in Range(dev'[DeviceOf(q)].threads)
                      \/ main.at = "call" /\ main.rec = q
                      \/ DeviceOf(q) \in raced'
    BY <1>1 DEF ListeningIsListed
  <2>1. q # r /\ st[q] = "listen"
    BY <1>6
  <2>2. \/ dev[DeviceOf(q)].alive /\ q \in Range(dev[DeviceOf(q)].threads)
        \/ main.at = "call" /\ main.rec = q
        \/ DeviceOf(q) \in raced
    BY <2>1 DEF ListeningIsListed
  <2>3. dev[DeviceOf(q)].alive /\ q \in Range(dev[DeviceOf(q)].threads) =>
          dev'[DeviceOf(q)].alive /\ q \in Range(dev'[DeviceOf(q)].threads)
    BY <2>1, <1>2, <1>4, <1>5 DEF t
  <2> QED
    BY <2>2, <2>3, <1>7
<1>11. RestIsFresh'
  <2>1. d \notin Fresh
    BY <1>1 DEF Fresh, d
  <2>2. Fresh \subseteq Fresh'
    <3> SUFFICES ASSUME NEW e \in Fresh PROVE e \in Fresh'
      OBVIOUS
    <3>1. e \in Devices /\ e # d
      BY <2>1 DEF Fresh
    <3>2. \A q \in Receivers : DeviceOf(q) = e => st'[q] = st[q]
      BY <3>1, <1>6 DEF d
    <3> QED
      BY <3>1, <3>2, <1>5 DEF Fresh
  <2> QED
    BY <2>2, <1>1, ListKeepsRest
<1>12. BeingStarted'
  <2> SUFFICES ASSUME main.at \in {"create", "log", "fail"}
               PROVE  BeingStarted'
    BY <1>1 DEF BeingStarted
  <2>1. /\ main.cur \in Devices /\ CountThreads > 0
        /\ main.at # "create" => main.left = 0
        /\ \A i \in 1 .. CountThreads : st[<<main.cur, i>>] = "none" <=> i <= main.left
        /\ main.at # "fail" => dev[main.cur].starting
        /\ main.at = "fail" => dev[main.cur].threads = <<>>
    BY DEF BeingStarted
  <2>2. \A i \in 1 .. CountThreads : st'[<<main.cur, i>>] = "none" <=> st[<<main.cur, i>>] = "none"
    BY <2>1, <1>1, <1>6 DEF Receivers
  <2>3. main.at # "fail" => dev'[main.cur].starting
    BY <2>1, <1>5
  <2>4. main.at = "fail" => dev'[main.cur].threads = <<>>
    BY <2>1, <1>4, <1>5 DEF t
  <2> QED
    BY <2>1, <2>2, <2>3, <2>4, <1>1 DEF BeingStarted
<1>13. InHand'
  <2>1. ASSUME main.at = "remove"
        PROVE  \/ main.cur \in raced'
               \/ dev'[main.cur].threads # <<>> /\ Head(dev'[main.cur].threads) = main.rec
    <3>1. /\ main.cur \in Devices /\ DeviceOf(main.rec) = main.cur
          /\ \/ main.cur \in raced
             \/ dev[main.cur].threads # <<>> /\ Head(dev[main.cur].threads) = main.rec
      BY <2>1 DEF InHand
    <3>2. CASE main.rec = r
      BY <2>1, <3>1, <3>2, <1>1 DEF d
    <3>3. CASE main.rec # r
      BY <3>1, <3>3, <1>4, <1>5, <1>7 DEF t
    <3> QED
      BY <3>2, <3>3
  <2> QED
    BY <2>1, <1>1 DEF InHand
<1>14. DeleteIsDue'
  <2> SUFFICES ASSUME NEW q \in Receivers, st'[q] = "delete"
               PROVE  dev'[DeviceOf(q)].threads = <<>> /\ ~dev'[DeviceOf(q)].starting
    BY DEF DeleteIsDue
  <2>1. dev[DeviceOf(q)].threads = <<>> /\ ~dev[DeviceOf(q)].starting
    BY <1>6 DEF DeleteIsDue
  <2> QED
    BY <2>1, <1>2, <1>4, <1>5 DEF t
<1> QED
  BY <1>8, <1>9, <1>10, <1>11, <1>12, <1>13, <1>14

LEMMA ReceiveStopedInv ==
  ASSUME IInv, NEW r \in Receivers, ReceiveStoped(r)
  PROVE  IInv'
<1> DEFINE d == DeviceOf(r)
<1> USE DEF IInv, DeviceInv
<1>1. d \in Devices
  BY DEF Receivers, DeviceOf
<1>2. PICK life \in {"delete", "gone"} :
        /\ st' = [st EXCEPT ![r] = life]
        /\ life = "delete" => LastReport(d) \/ ~dev[d].alive
  BY DEF ReceiveStoped
<1>3. /\ st[r] = "report" /\ UNCHANGED <<list, dev, main>>
      /\ raced' = IF main.at = "log" /\ main.cur = d THEN raced \cup {d} ELSE raced
      /\ stale' = IF dev[d].alive THEN stale ELSE stale \cup {d}
  BY DEF ReceiveStoped, Uses
<1>4. life = "delete" => dev[d].threads = <<>> /\ ~dev[d].starting
  BY <1>1, <1>2 DEF LastReport, ListsOfTheLiving
<1> HIDE DEF d
<1>5. /\ st' \in [Receivers -> Lives] /\ st'[r] = life
      /\ \A q \in Receivers : q # r => st'[q] = st[q]
  BY <1>2 DEF RecvTypeOK, Lives
<1>6. raced' \subseteq Devices /\ raced \subseteq raced' /\ stale' \subseteq Devices
  BY <1>1, <1>3 DEF RecvTypeOK
<1>7. RecvTypeOK'
  BY <1>3, <1>5, <1>6 DEF RecvTypeOK
<1>8. ListsOfTheLiving'
  <2>1. ASSUME NEW e \in Devices, NEW q \in Range(dev[e].threads)
        PROVE  DeviceOf(q) = e /\ st'[q] \in {"listen", "stop"}
    <3>1. q \in Receivers
      BY <2>1 DEF RecvTypeOK, Range
    <3> QED
      BY <2>1, <3>1, <1>3, <1>5 DEF ListsOfTheLiving
  <2> QED
    BY <2>1, <1>3 DEF ListsOfTheLiving
<1>9. ListeningIsListed'
  BY <1>3, <1>5, <1>6 DEF ListeningIsListed
<1>10. RestIsFresh'
  <2>1. Fresh \subseteq Fresh'
    BY <1>3, <1>5 DEF Fresh
  <2> QED
    BY <2>1, <1>3, ListKeepsRest
<1>11. BeingStarted'
  <2>1. main.at \in {"create", "log", "fail"} =>
          \A i \in 1 .. CountThreads :
            st'[<<main.cur, i>>] = "none" <=> st[<<main.cur, i>>] = "none"
    BY <1>3, <1>5 DEF BeingStarted, Receivers
  <2> QED
    BY <2>1, <1>3 DEF BeingStarted
<1>12. InHand'
  BY <1>3, <1>6 DEF InHand
<1>13. DeleteIsDue'
  BY <1>3, <1>4, <1>5 DEF DeleteIsDue, d
<1> QED
  BY <1>7, <1>8, <1>9, <1>10, <1>11, <1>12, <1>13

LEMMA DeletesDeviceInv ==
  ASSUME IInv, NEW r \in Receivers, DeletesDevice(r)
  PROVE  IInv'
<1> DEFINE d == DeviceOf(r)
<1> USE DEF IInv, DeviceInv
<1>1. d \in Devices /\ \A q \in Receivers : DeviceOf(q) \in Devices
  BY DEF Receivers, DeviceOf
<1>2. /\ Delete(d) /\ st[r] = "delete" /\ st' = [st EXCEPT ![r] = "gone"]
      /\ UNCHANGED <<main, raced>>
  BY DEF DeletesDevice
<1>3. dev[d].threads = <<>> /\ ~dev[d].starting
  BY <1>2 DEF DeleteIsDue
<1>4. /\ list' \in Seq(Devices) /\ IsInjective(list')
      /\ dev' \in [Devices -> [alive : BOOLEAN, starting : BOOLEAN, threads : Seq(Receivers)]]
      /\ stale' \subseteq Devices
      /\ Range(list') = {e \in Devices : dev'[e].alive}
      /\ \A e \in Devices :
           /\ dev'[e].threads = dev[e].threads /\ dev'[e].starting = dev[e].starting
           /\ dev'[e].alive <=> dev[e].alive /\ e # d
  BY <1>1, <1>2, DeleteFacts
<1>5. /\ st' \in [Receivers -> Lives] /\ st'[r] = "gone"
      /\ \A q \in Receivers : q # r => st'[q] = st[q]
  BY <1>2 DEF RecvTypeOK, Lives
<1>6. d \notin Fresh
  BY <1>2 DEF Fresh
<1> HIDE DEF d
<1>7. RecvTypeOK'
  BY <1>2, <1>4, <1>5 DEF RecvTypeOK
<1>8. ListsOfTheLiving'
  <2>1. ASSUME NEW e \in Devices, NEW q \in Range(dev[e].threads)
        PROVE  DeviceOf(q) = e /\ st'[q] \in {"listen", "stop"}
    <3>1. q \in Receivers
      BY <2>1 DEF RecvTypeOK, Range
    <3> QED
      BY <2>1, <3>1, <1>2, <1>5 DEF ListsOfTheLiving
  <2> QED
    BY <2>1, <1>3, <1>4 DEF ListsOfTheLiving
<1>9. ListeningIsListed'
  <2>1. \A q : q \notin Range(dev[d].threads)
    BY <1>3 DEF Range
  <2> QED
    BY <2>1, <1>1, <1>2, <1>4, <1>5 DEF ListeningIsListed
<1>10. RestIsFresh'
  <2>1. Fresh \subseteq Fresh'
    BY <1>2, <1>4, <1>5 DEF Fresh
  <2> QED
    BY <2>1, <1>1, <1>2, <1>6, DeleteKeepsRest
<1>11. BeingStarted'
  <2>1. main.at \in {"create", "log", "fail"} =>
          \A i \in 1 .. CountThreads :
            st'[<<main.cur, i>>] = "none" <=> st[<<main.cur, i>>] = "none"
    BY <1>2, <1>5 DEF BeingStarted, Receivers
  <2> QED
    BY <2>1, <1>2, <1>4 DEF BeingStarted
<1>12. InHand'
  BY <1>2, <1>4 DEF InHand
<1>13. DeleteIsDue'
  BY <1>1, <1>4, <1>5 DEF DeleteIsDue
<1> QED
  BY <1>7, <1>8, <1>9, <1>10, <1>11, <1>12, <1>13

-----------------------------------------------------------------------------
(* The theorem                                                             *)

LEMMA StutterInv ==
  ASSUME IInv, UNCHANGED vars
  PROVE  IInv'
BY DEF vars, IInv, DeviceInv, RecvTypeOK, ListsOfTheLiving, ListeningIsListed,
       RestIsFresh, Fresh, BeingStarted, InHand, DeleteIsDue

LEMMA NextInv ==
  ASSUME IInv, [Next]_vars
  PROVE  IInv'
<1>1. CASE MainStarts
  BY <1>1, StartsDeviceInv, CreatesReceiverInv, TestsReceiversInv, EndsStartInv,
     FailsStartInv, AllStartedInv DEF MainStarts
<1>2. CASE MainWaits
  BY <1>2, BeginsWalkInv, VisitsInv, TakesFirstInv, RemovesFirstInv, StopsReceiverInv
     DEF MainWaits
<1>3. ASSUME NEW r \in Receivers, ListenError(r) \/ ReceiverEnds(r)
      PROVE  IInv'
  BY <1>3, ListenErrorInv, IsResetedInv, ReceiveStopedInv, DeletesDeviceInv DEF ReceiverEnds
<1>4. CASE UNCHANGED vars
  BY <1>4, StutterInv
<1> QED
  BY <1>1, <1>2, <1>3, <1>4 DEF Next, Terminated

(* However many devices and receivers there are, and whatever thread comes *)
(* in between: the main program's list holds the devices that are not      *)
(* deleted, a device's list receivers of its own that still run, and a     *)
(* receiver that nobody stopped has its device to report to, but for the   *)
(* two races of recvdev.cpp that "raced" records.                          *)
THEOREM DeviceInvariant == Spec => []DeviceInv
<1>1. Init => IInv
  BY InitInv
<1>2. IInv /\ [Next]_vars => IInv'
  BY NextInv
<1>3. IInv => DeviceInv
  BY DEF IInv
<1> QED
  BY <1>1, <1>2, <1>3, PTL DEF Spec
=============================================================================
