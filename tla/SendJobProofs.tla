---------------------------- MODULE SendJobProofs ----------------------------
(***************************************************************************)
(* Proofs about c2faxsend, for any command line, any faxes and any sizes   *)
(* of block and window: the pages of a fax reach the far side in order,    *)
(* "okay" means that all of them did, and a qfile tells how its job ended. *)
(***************************************************************************)
EXTENDS SendJob, SequenceTheorems, FiniteSetTheorems, TLAPS

Chunks == Nat \X Nat \X BOOLEAN

-----------------------------------------------------------------------------
(* Sequences of chunks                                                     *)

(* Every page of s goes before every page of t.                            *)
Precedes(s, t) ==
  \A i \in DOMAIN s, j \in DOMAIN t :
    FinalHeader \notin {s[i], t[j]} => Before(s[i], t[j])

LEMMA RangeAppend ==
  ASSUME NEW S, NEW s \in Seq(S), NEW c \in S
  PROVE  Range(Append(s, c)) = Range(s) \cup {c}
<1>1. /\ DOMAIN Append(s, c) = 1 .. Len(s) + 1 /\ DOMAIN s = 1 .. Len(s) /\ Len(s) \in Nat
      /\ \A i \in 1 .. Len(s) : Append(s, c)[i] = s[i]
      /\ Append(s, c)[Len(s) + 1] = c
  BY AppendProperties
<1>2. 1 .. Len(s) + 1 = (1 .. Len(s)) \cup {Len(s) + 1}
  BY <1>1
<1> QED
  BY <1>1, <1>2 DEF Range

LEMMA RangeConcat ==
  ASSUME NEW S, NEW s \in Seq(S), NEW t \in Seq(S)
  PROVE  Range(s \o t) = Range(s) \cup Range(t)
<1>1. /\ DOMAIN (s \o t) = 1 .. Len(s) + Len(t) /\ Len(s) \in Nat /\ Len(t) \in Nat
      /\ DOMAIN s = 1 .. Len(s) /\ DOMAIN t = 1 .. Len(t)
      /\ \A i \in 1 .. Len(s) : (s \o t)[i] = s[i]
      /\ \A i \in 1 .. Len(t) : (s \o t)[Len(s) + i] = t[i]
  BY ConcatProperties
<1>2. ASSUME NEW i \in 1 .. Len(s) + Len(t)
      PROVE  \/ i \in 1 .. Len(s)
             \/ \E j \in 1 .. Len(t) : i = Len(s) + j
  <2>1. CASE i <= Len(s)
    BY <2>1, <1>1
  <2>2. CASE ~(i <= Len(s))
    <3>1. i - Len(s) \in 1 .. Len(t) /\ i = Len(s) + (i - Len(s))
      BY <2>2, <1>1
    <3> QED
      BY <3>1
  <2> QED
    BY <2>1, <2>2
<1>3. ASSUME NEW c \in Range(s \o t) PROVE c \in Range(s) \cup Range(t)
  <2>1. PICK i \in 1 .. Len(s) + Len(t) : c = (s \o t)[i]
    BY <1>1, <1>3 DEF Range
  <2>2. CASE i \in 1 .. Len(s)
    BY <1>1, <2>1, <2>2 DEF Range
  <2>3. CASE \E j \in 1 .. Len(t) : i = Len(s) + j
    <3>1. PICK j \in 1 .. Len(t) : i = Len(s) + j
      BY <2>3
    <3>2. c = t[j]
      BY <1>1, <2>1, <3>1
    <3> QED
      BY <1>1, <3>2 DEF Range
  <2> QED
    BY <1>2, <2>2, <2>3
<1>4. ASSUME NEW c \in Range(s) PROVE c \in Range(s \o t)
  BY <1>1, <1>4 DEF Range
<1>5. ASSUME NEW c \in Range(t) PROVE c \in Range(s \o t)
  <2>1. PICK j \in 1 .. Len(t) : c = t[j]
    BY <1>1, <1>5 DEF Range
  <2>2. Len(s) + j \in 1 .. Len(s) + Len(t) /\ (s \o t)[Len(s) + j] = c
    BY <2>1, <1>1
  <2> QED
    BY <2>2, <1>1 DEF Range
<1> QED
  BY <1>3, <1>4, <1>5

(* s is cut after its first k elements.                                    *)
Cut(s, k, head, rest) ==
  /\ head = SubSeq(s, 1, k)
  /\ rest = SubSeq(s, k + 1, Len(s))

LEMMA CutElements ==
  ASSUME NEW S, NEW s \in Seq(S), NEW k \in 0 .. Len(s), NEW head, NEW rest,
         Cut(s, k, head, rest)
  PROVE  /\ head \in Seq(S) /\ rest \in Seq(S) /\ Len(head) = k /\ Len(rest) = Len(s) - k
         /\ DOMAIN s = 1 .. Len(s) /\ DOMAIN head = 1 .. k /\ DOMAIN rest = 1 .. Len(s) - k
         /\ \A i \in 1 .. k : head[i] = s[i]
         /\ \A i \in 1 .. Len(s) - k : rest[i] = s[k + i]
<1>1. Len(s) \in Nat /\ k \in Nat /\ k <= Len(s) /\ \A i \in 1 .. Len(s) : s[i] \in S
  BY LenProperties
<1>2. head = [i \in 1 .. k |-> s[i]]
  BY <1>1 DEF Cut
<1>3. rest = [i \in 1 .. Len(s) - k |-> s[k + i]]
  BY <1>1 DEF Cut
<1>4. head \in Seq(S) /\ Len(head) = k
  BY <1>1, <1>2
<1>5. \A i \in 1 .. Len(s) - k : s[k + i] \in S
  BY <1>1
<1>6. rest \in Seq(S) /\ Len(rest) = Len(s) - k
  BY <1>1, <1>3, <1>5
<1> QED
  BY <1>2, <1>3, <1>4, <1>6, LenProperties

LEMMA RangeCut ==
  ASSUME NEW S, NEW s \in Seq(S), NEW k \in 0 .. Len(s), NEW head, NEW rest,
         Cut(s, k, head, rest)
  PROVE  Range(s) = Range(head) \cup Range(rest)
<1>1. /\ DOMAIN s = 1 .. Len(s) /\ DOMAIN head = 1 .. k /\ DOMAIN rest = 1 .. Len(s) - k
      /\ \A i \in 1 .. k : head[i] = s[i]
      /\ \A i \in 1 .. Len(s) - k : rest[i] = s[k + i]
      /\ Len(s) \in Nat
  BY CutElements, LenProperties
<1>2. ASSUME NEW c \in Range(s) PROVE c \in Range(head) \cup Range(rest)
  <2>1. PICK i \in 1 .. Len(s) : c = s[i]
    BY <1>1, <1>2 DEF Range
  <2>2. CASE i <= k
    BY <2>1, <2>2, <1>1 DEF Range
  <2>3. CASE ~(i <= k)
    <3>1. i - k \in 1 .. Len(s) - k /\ k + (i - k) = i
      BY <2>3, <1>1
    <3>2. rest[i - k] = c
      BY <3>1, <2>1, <1>1
    <3> QED
      BY <3>1, <3>2, <1>1 DEF Range
  <2> QED
    BY <2>2, <2>3
<1>3. ASSUME NEW i \in 1 .. k PROVE head[i] \in Range(s)
  <2>1. i \in DOMAIN s /\ head[i] = s[i]
    BY <1>1, <1>3
  <2> QED
    BY <2>1 DEF Range
<1>4. ASSUME NEW i \in 1 .. Len(s) - k PROVE rest[i] \in Range(s)
  <2>1. k + i \in 1 .. Len(s)
    BY <1>1, <1>4
  <2> QED
    BY <2>1, <1>1, <1>4 DEF Range
<1> QED
  BY <1>1, <1>2, <1>3, <1>4 DEF Range

(* The pages of a sequence that grows at its end, is joined or is cut.     *)
LEMMA PagesOfAppend ==
  ASSUME NEW s \in Seq(Chunks), NEW c \in Chunks
  PROVE  /\ c # FinalHeader => PagesOf(Append(s, c)) = PagesOf(s) \cup {<<c[1], c[2]>>}
         /\ c = FinalHeader => PagesOf(Append(s, c)) = PagesOf(s)
<1>1. Range(Append(s, c)) = Range(s) \cup {c}
  BY RangeAppend
<1> QED
  BY <1>1 DEF PagesOf

LEMMA PagesOfConcat ==
  ASSUME NEW s \in Seq(Chunks), NEW t \in Seq(Chunks)
  PROVE  PagesOf(s \o t) = PagesOf(s) \cup PagesOf(t)
<1>1. Range(s \o t) = Range(s) \cup Range(t)
  BY RangeConcat
<1> QED
  BY <1>1 DEF PagesOf

LEMMA PagesOfCut ==
  ASSUME NEW s \in Seq(Chunks), NEW k \in 0 .. Len(s), NEW head, NEW rest,
         Cut(s, k, head, rest)
  PROVE  PagesOf(s) = PagesOf(head) \cup PagesOf(rest)
<1>1. Range(s) = Range(head) \cup Range(rest)
  BY RangeCut
<1> QED
  BY <1>1 DEF PagesOf

LEMMA PagesOfEmpty == PagesOf(<<>>) = {}
BY DEF PagesOf, Range

(* The order of such a sequence.                                           *)
LEMMA OrderAppend ==
  ASSUME NEW s \in Seq(Chunks), NEW c \in Chunks, InOrder(s), Precedes(s, <<c>>)
  PROVE  InOrder(Append(s, c))
<1>1. /\ DOMAIN Append(s, c) = 1 .. Len(s) + 1 /\ DOMAIN s = 1 .. Len(s) /\ Len(s) \in Nat
      /\ \A i \in 1 .. Len(s) : Append(s, c)[i] = s[i]
      /\ Append(s, c)[Len(s) + 1] = c
  BY AppendProperties
<1>2. 1 \in DOMAIN <<c>> /\ <<c>>[1] = c
  OBVIOUS
<1>3. \A i \in 1 .. Len(s) : FinalHeader \notin {s[i], c} => Before(s[i], c)
  BY <1>1, <1>2 DEF Precedes
<1> HIDE DEF FinalHeader, Before
<1> QED
  BY <1>1, <1>3 DEF InOrder

LEMMA PrecedesAppend ==
  ASSUME NEW s \in Seq(Chunks), NEW c \in Chunks, NEW t \in Seq(Chunks),
         Precedes(t, s), Precedes(t, <<c>>)
  PROVE  Precedes(t, Append(s, c))
<1>1. /\ DOMAIN Append(s, c) = 1 .. Len(s) + 1 /\ DOMAIN s = 1 .. Len(s) /\ Len(s) \in Nat
      /\ \A i \in 1 .. Len(s) : Append(s, c)[i] = s[i]
      /\ Append(s, c)[Len(s) + 1] = c
  BY AppendProperties
<1>2. 1 \in DOMAIN <<c>> /\ <<c>>[1] = c
  OBVIOUS
<1>3. \A i \in DOMAIN t : FinalHeader \notin {t[i], c} => Before(t[i], c)
  BY <1>2 DEF Precedes
<1> QED
  BY <1>1, <1>3 DEF Precedes

LEMMA AppendPrecedes ==
  ASSUME NEW s \in Seq(Chunks), NEW c \in Chunks, NEW d \in Chunks,
         Precedes(s, <<d>>), c = FinalHeader \/ Before(c, d)
  PROVE  Precedes(Append(s, c), <<d>>)
<1>1. /\ DOMAIN Append(s, c) = 1 .. Len(s) + 1 /\ DOMAIN s = 1 .. Len(s) /\ Len(s) \in Nat
      /\ \A i \in 1 .. Len(s) : Append(s, c)[i] = s[i]
      /\ Append(s, c)[Len(s) + 1] = c
  BY AppendProperties
<1>2. DOMAIN <<d>> = {1} /\ <<d>>[1] = d
  OBVIOUS
<1> QED
  BY <1>1, <1>2 DEF Precedes

(* A page header that ends a fax disturbs nothing.                         *)
LEMMA HeaderFollows ==
  ASSUME NEW s \in Seq(Chunks)
  PROVE  Precedes(s, <<FinalHeader>>)
BY DEF Precedes

(* What precedes a page precedes every later one.                          *)
LEMMA PrecedesLater ==
  ASSUME NEW s \in Seq(Chunks), NEW c \in Chunks, NEW d \in Chunks,
         Precedes(s, <<c>>), Before(c, d), c # FinalHeader
  PROVE  Precedes(s, <<d>>)
<1>1. DOMAIN <<c>> = {1} /\ <<c>>[1] = c /\ DOMAIN <<d>> = {1} /\ <<d>>[1] = d
  OBVIOUS
<1>2. DOMAIN s = 1 .. Len(s) /\ \A i \in DOMAIN s : s[i] \in Chunks
  BY ElementOfSeq, LenProperties
<1>3. ASSUME NEW b \in Chunks, Before(b, c) PROVE Before(b, d)
  BY <1>3 DEF Before, Chunks
<1> QED
  BY <1>1, <1>2, <1>3 DEF Precedes

LEMMA ConcatOrder ==
  ASSUME NEW s \in Seq(Chunks), NEW t \in Seq(Chunks), InOrder(s), InOrder(t),
         Precedes(s, t)
  PROVE  /\ InOrder(s \o t)
         /\ \A u : Precedes(s, u) /\ Precedes(t, u) => Precedes(s \o t, u)
<1>1. /\ DOMAIN (s \o t) = 1 .. Len(s) + Len(t) /\ Len(s) \in Nat /\ Len(t) \in Nat
      /\ DOMAIN s = 1 .. Len(s) /\ DOMAIN t = 1 .. Len(t)
      /\ \A i \in 1 .. Len(s) : (s \o t)[i] = s[i]
      /\ \A i \in 1 .. Len(t) : (s \o t)[Len(s) + i] = t[i]
  BY ConcatProperties
<1>2. ASSUME NEW i \in 1 .. Len(s) + Len(t), ~(i <= Len(s))
      PROVE  i - Len(s) \in 1 .. Len(t) /\ (s \o t)[i] = t[i - Len(s)]
  <2>1. i - Len(s) \in 1 .. Len(t) /\ Len(s) + (i - Len(s)) = i
    BY <1>1, <1>2
  <2> QED
    BY <2>1, <1>1
<1>3. ASSUME NEW i \in 1 .. Len(s) + Len(t), NEW j \in 1 .. Len(s) + Len(t), i < j,
             FinalHeader \notin {(s \o t)[i], (s \o t)[j]}
      PROVE  Before((s \o t)[i], (s \o t)[j])
  <2>1. CASE j <= Len(s)
    <3>1. i \in 1 .. Len(s) /\ j \in 1 .. Len(s)
      BY <2>1, <1>1, <1>3
    <3> QED
      BY <3>1, <1>1, <1>3 DEF InOrder
  <2>2. CASE i <= Len(s) /\ ~(j <= Len(s))
    <3>1. i \in 1 .. Len(s) /\ j - Len(s) \in 1 .. Len(t)
      BY <2>2, <1>1, <1>2
    <3> QED
      BY <3>1, <2>2, <1>1, <1>2, <1>3 DEF Precedes
  <2>3. CASE ~(i <= Len(s)) /\ ~(j <= Len(s))
    <3>1. i - Len(s) \in 1 .. Len(t) /\ j - Len(s) \in 1 .. Len(t) /\ i - Len(s) < j - Len(s)
      BY <2>3, <1>1, <1>2, <1>3
    <3>2. /\ (s \o t)[i] = t[i - Len(s)] /\ (s \o t)[j] = t[j - Len(s)]
          /\ FinalHeader \notin {t[i - Len(s)], t[j - Len(s)]}
      BY <2>3, <1>2, <1>3
    <3>3. Before(t[i - Len(s)], t[j - Len(s)])
      BY <3>1, <3>2, <1>1 DEF InOrder
    <3> QED
      BY <3>2, <3>3
  <2> QED
    BY <2>1, <2>2, <2>3, <1>1
<1>4. ASSUME NEW u, Precedes(s, u), Precedes(t, u),
             NEW i \in 1 .. Len(s) + Len(t), NEW j \in DOMAIN u,
             FinalHeader \notin {(s \o t)[i], u[j]}
      PROVE  Before((s \o t)[i], u[j])
  <2>1. CASE i <= Len(s)
    BY <2>1, <1>1, <1>4 DEF Precedes
  <2>2. CASE ~(i <= Len(s))
    BY <2>2, <1>1, <1>2, <1>4 DEF Precedes
  <2> QED
    BY <2>1, <2>2
<1>5. InOrder(s \o t)
  BY <1>1, <1>3 DEF InOrder
<1>6. ASSUME NEW u, Precedes(s, u), Precedes(t, u) PROVE Precedes(s \o t, u)
  BY <1>1, <1>4, <1>6 DEF Precedes
<1> QED
  BY <1>5, <1>6

LEMMA CutOrder ==
  ASSUME NEW s \in Seq(Chunks), NEW k \in 0 .. Len(s), NEW head, NEW rest,
         Cut(s, k, head, rest), InOrder(s)
  PROVE  /\ InOrder(head) /\ InOrder(rest) /\ Precedes(head, rest)
         /\ \A u : Precedes(u, s) => Precedes(u, head) /\ Precedes(u, rest)
         /\ \A u : Precedes(s, u) => Precedes(head, u) /\ Precedes(rest, u)
<1>1. /\ DOMAIN s = 1 .. Len(s) /\ DOMAIN head = 1 .. k /\ DOMAIN rest = 1 .. Len(s) - k
      /\ \A i \in 1 .. k : head[i] = s[i]
      /\ \A i \in 1 .. Len(s) - k : rest[i] = s[k + i]
      /\ Len(s) \in Nat
  BY CutElements, LenProperties
<1>2. \A i \in 1 .. k : i \in 1 .. Len(s)
  BY <1>1
<1>3. \A i \in 1 .. Len(s) - k : k + i \in 1 .. Len(s)
  BY <1>1
<1>4. \A i \in 1 .. k, j \in 1 .. Len(s) - k : i < k + j
  BY <1>1
<1>5. InOrder(head)
  BY <1>1, <1>2 DEF InOrder
<1>6. InOrder(rest)
  <2> SUFFICES ASSUME NEW i \in 1 .. Len(s) - k, NEW j \in 1 .. Len(s) - k, i < j,
                      FinalHeader \notin {rest[i], rest[j]}
               PROVE  Before(rest[i], rest[j])
    BY <1>1 DEF InOrder
  <2>1. k + i < k + j
    BY <1>1
  <2> QED
    BY <1>1, <1>3, <2>1 DEF InOrder
<1>7. Precedes(head, rest)
  BY <1>1, <1>2, <1>3, <1>4 DEF InOrder, Precedes
<1>8. ASSUME NEW u, Precedes(u, s) PROVE Precedes(u, head) /\ Precedes(u, rest)
  BY <1>1, <1>2, <1>3, <1>8 DEF Precedes
<1>9. ASSUME NEW u, Precedes(s, u) PROVE Precedes(head, u) /\ Precedes(rest, u)
  BY <1>1, <1>2, <1>3, <1>9 DEF Precedes
<1> QED
  BY <1>5, <1>6, <1>7, <1>8, <1>9

-----------------------------------------------------------------------------
(* The conversion, as CFaxSend finds and leaves it                         *)

(* The list of received files and their number are module RecvCall's.      *)
Conversion(c) ==
  c \in [format : Formats, list : Seq(FaxFile), cur : Nat, open : Nat, pos : Nat,
         filter : Seq(Chunks), fine : BOOLEAN, finished : {0, 1, 2}, pages : Nat,
         vres : Nat, err : {"Okay", "NotExist", "OpenFailed", "Crash"},
         recvState : {0, 1, 2, 3}, fd : BOOLEAN, names : {c.names}, nr : {c.nr}]

(* d is c after a step of receiving: what is sent is as it was.            *)
Receives(c, d) ==
  /\ Conversion(d)
  /\ d.format = c.format /\ d.list = c.list /\ d.cur = c.cur /\ d.open = c.open
  /\ d.pos = c.pos /\ d.filter = c.filter /\ d.err = c.err

LEMMA FineIs ==
  ASSUME NEW v \in Nat, NEW f \in FaxFile
  PROVE  FineRes(v, f) \in BOOLEAN
BY DEF FineRes

LEMMA AfterIs ==
  ASSUME NEW c, Conversion(c), NEW i \in Nat
  PROVE  /\ After(c, i) \in Nat
         /\ After(c, i) # 0 => After(c, i) \in DOMAIN c.list /\ After(c, i) = i + 1
         /\ After(c, i) = 0 => i >= Len(c.list)
<1>1. c.list \in Seq(FaxFile)
  BY DEF Conversion
<1>2. Len(c.list) \in Nat /\ DOMAIN c.list = 1 .. Len(c.list)
  BY <1>1, LenProperties
<1> QED
  BY <1>2 DEF After

LEMMA ConnectLogIs ==
  ASSUME NEW c, Conversion(c), NEW h \in BOOLEAN
  PROVE  /\ Conversion(ConnectLog(c, h))
         /\ Receives(c, ConnectLog(c, h))
         /\ ConnectLog(c, h).finished = c.finished /\ ConnectLog(c, h).pages = c.pages
         /\ ConnectLog(c, h).fine = c.fine
         /\ ConnectLog(c, h).recvState = c.recvState
<1> DEFINE v == IF c.vres # 0 THEN c.vres ELSE IF h THEN 196 ELSE 98
<1>1. ConnectLog(c, h) = [c EXCEPT !.vres = v]
  BY DEF ConnectLog, Conversion
<1>2. v \in Nat
  BY DEF Conversion
<1> HIDE DEF v
<1> QED
  BY <1>1, <1>2 DEF Conversion, Receives

LEMMA GetRecvFileIs ==
  ASSUME NEW c, Conversion(c), NEW disk, NEW able \in BOOLEAN
  PROVE  LET d == GetRecvFile(c, disk, able).fx
         IN  Receives(c, d) /\ d.recvState = c.recvState
<1> DEFINE k == FreeNumber(disk)
           d == GetRecvFile(c, disk, able).fx
<1>1. d = IF ~able \/ k = 0 THEN [c EXCEPT !.names = <<>>, !.fd = FALSE]
          ELSE [c EXCEPT !.names = <<<<k, 1>>>>, !.nr = k, !.fd = TRUE]
  BY DEF GetRecvFile, Conversion
<1> HIDE DEF k, d
<1> DEFINE one == <<<<k, 1>>>>
<1>2. d = IF ~able \/ k = 0 THEN [c EXCEPT !.names = <<>>, !.fd = FALSE]
          ELSE [c EXCEPT !.names = one, !.nr = k, !.fd = TRUE]
  BY <1>1
<1> HIDE DEF one
<1>3. Conversion(d)
  BY <1>2 DEF Conversion
<1>4. /\ d.format = c.format /\ d.list = c.list /\ d.cur = c.cur /\ d.open = c.open
      /\ d.pos = c.pos /\ d.filter = c.filter /\ d.err = c.err /\ d.recvState = c.recvState
  BY <1>2 DEF Conversion
<1> QED
  BY <1>3, <1>4 DEF Receives, d

LEMMA OpenRecvIs ==
  ASSUME NEW c, Conversion(c), NEW disk, NEW able \in BOOLEAN
  PROVE  LET d == OpenRecv(c, disk, able, TRUE).fx
         IN  Receives(c, d) /\ d.recvState \in {1, 2}
<1> DEFINE v == IF c.format = "g3" THEN 2 ELSE 1
           f == [c EXCEPT !.recvState = v, !.finished = 0, !.pages = 0]
           d == GetRecvFile(f, disk, able).fx
<1>1. OpenRecv(c, disk, able, TRUE).fx = d
  BY DEF OpenRecv
<1>2. Conversion(f) /\ Receives(c, f) /\ f.recvState \in {1, 2}
  <2>1. v \in {1, 2}
    OBVIOUS
  <2> HIDE DEF v
  <2>2. Conversion(f)
    BY <2>1 DEF Conversion
  <2> QED
    BY <2>1, <2>2 DEF Conversion, Receives
<1> HIDE DEF f
<1>3. Receives(f, d) /\ d.recvState = f.recvState
  BY <1>2, GetRecvFileIs
<1> HIDE DEF d
<1>4. Receives(c, d) /\ d.recvState \in {1, 2}
  BY <1>2, <1>3 DEF Receives
<1> QED
  BY <1>1, <1>4

LEMMA PageEndIs ==
  ASSUME NEW c, Conversion(c), NEW disk, NEW able \in BOOLEAN
  PROVE  LET d == PageEnd(c, disk, able).fx
         IN  Receives(c, d) /\ (c.format # "g3" => d.recvState = c.recvState)
<1> DEFINE page == [c EXCEPT !.pages = @ + 1]
           free == {k \in page.pages + 1 .. page.pages + MaxTry - 1 :
                      <<page.nr, k>> \notin disk.names}
           name == <<page.nr, CHOOSE k \in free : \A j \in free : k <= j>>
           more == Append(page.names, name)
           next == GetNextRecvFile(page, disk, able).fx
           d == PageEnd(c, disk, able).fx
<1>1. Conversion(page) /\ page.format = c.format /\ Receives(c, page) /\ page.recvState = c.recvState
  <2> DEFINE v == c.pages + 1
  <2>1. v \in Nat
    BY DEF Conversion
  <2>2. page = [c EXCEPT !.pages = v]
    BY DEF Conversion
  <2> HIDE DEF v, page
  <2>3. Conversion(page)
    BY <2>1, <2>2 DEF Conversion
  <2> QED
    BY <2>2, <2>3 DEF Conversion, Receives
<1> HIDE DEF page
<1>2. next = IF ~able \/ free = {} THEN [page EXCEPT !.fd = FALSE]
             ELSE [page EXCEPT !.fd = TRUE, !.names = Append(@, name)]
  BY DEF GetNextRecvFile
<1> HIDE DEF free, name
<1>3. next = IF ~able \/ free = {} THEN [page EXCEPT !.fd = FALSE]
             ELSE [page EXCEPT !.fd = TRUE, !.names = more]
  BY <1>1, <1>2 DEF Conversion
<1>4. d = IF c.format # "g3" THEN page
          ELSE IF next.fd THEN next ELSE [next EXCEPT !.recvState = 3]
  BY DEF PageEnd, page
<1> HIDE DEF more, next, d
<1>5. Conversion(next) /\ Receives(c, next)
  <2>1. Conversion(next)
    BY <1>1, <1>3 DEF Conversion
  <2> QED
    BY <1>1, <1>3, <2>1 DEF Conversion, Receives
<1>6. Conversion(d) /\ Receives(c, d)
  <2> DEFINE e == [next EXCEPT !.recvState = 3]
  <2>1. Conversion(e)
    BY <1>5 DEF Conversion
  <2>2. Receives(c, e)
    BY <1>5, <2>1 DEF Conversion, Receives
  <2>3. d \in {page, next, e}
    BY <1>4
  <2> QED
    BY <1>1, <1>5, <2>1, <2>2, <2>3
<1> QED
  BY <1>1, <1>4, <1>6 DEF d

LEMMA RecvSFFIs ==
  ASSUME NEW c, Conversion(c), NEW disk, NEW able \in BOOLEAN,
         NEW what \in {"head", "page", "last"}
  PROVE  LET d == RecvSFF(c, disk, what, able).fx
         IN  /\ Receives(c, d)
             /\ c.format # "g3" /\ d.recvState = 3 => c.recvState = 3 \/ what = "last"
<1> DEFINE last == [c EXCEPT !.pages = @ + 1, !.recvState = 3,
                             !.fd = @ /\ c.format # "g3"]
           head == [c EXCEPT !.recvState = 2]
           end == PageEnd(c, disk, able).fx
           d == RecvSFF(c, disk, what, able).fx
<1>1. \/ d = c
      \/ what = "head" /\ d = head
      \/ what = "last" /\ d = last
      \/ what = "page" /\ d = end
  BY DEF RecvSFF
<1>2. Conversion(c) /\ Receives(c, c)
  BY DEF Receives
<1>3. Receives(c, head) /\ head.recvState = 2
  BY DEF Conversion, Receives
<1>4. Receives(c, last)
  <2> DEFINE b == c.fd /\ c.format # "g3"
  <2>1. b \in BOOLEAN
    BY DEF Conversion
  <2>2. last = [c EXCEPT !.pages = @ + 1, !.recvState = 3, !.fd = b]
    BY DEF Conversion
  <2> DEFINE v == c.pages + 1
  <2>3. v \in Nat
    BY DEF Conversion
  <2>4. last = [c EXCEPT !.pages = v, !.recvState = 3, !.fd = b]
    BY <2>2 DEF Conversion
  <2> HIDE DEF b, v, last
  <2>5. Conversion(last)
    BY <2>1, <2>3, <2>4 DEF Conversion
  <2> QED
    BY <2>4, <2>5 DEF Conversion, Receives
<1>5. Receives(c, end) /\ (c.format # "g3" => end.recvState = c.recvState)
  BY PageEndIs
<1> HIDE DEF d, last, head, end
<1>6. c.format # "g3" /\ d.recvState = 3 => c.recvState = 3 \/ what = "last"
  BY <1>1, <1>3, <1>5
<1>7. Receives(c, d)
  BY <1>1, <1>2, <1>3, <1>4, <1>5
<1> QED
  BY <1>6, <1>7 DEF d

(* OpenSend: the new list, and for Okay its first file, open at its start. *)
Opens(c, files, r) ==
  /\ Conversion(r.fx)
  /\ r.fx.format = c.format /\ r.fx.err = c.err /\ r.fx.recvState = c.recvState
  /\ r.fx.filter = <<>>
  /\ r.ret \in {"Okay", "NotExist", "OpenFailed"}
  /\ r.ret = "Okay" =>
       /\ r.fx.list = files /\ r.fx.finished = 0 /\ r.fx.pages = 0
       /\ r.fx.open = 1 /\ r.fx.pos = 0 /\ r.fx.cur = After(r.fx, 1)
       /\ Tiff(c) => files[1].kind = "ok"

LEMMA OpenSendIs ==
  ASSUME NEW c, Conversion(c), NEW files \in Seq(FaxFile), files # <<>>, NEW res \in Nat
  PROVE  Opens(c, files, OpenSend(c, files, res))
<1> DEFINE file == files[1]
           v == IF c.format = "g3" /\ res = 0 THEN 196 ELSE res
           b == [c EXCEPT !.finished = 0, !.open = 0, !.filter = <<>>, !.fine = FALSE,
                          !.list = files, !.cur = 1, !.vres = v, !.pages = 0]
           o == [b EXCEPT !.open = 1, !.pos = 0]
           a == After(o, 1)
           f == FineRes(v, file)
           r == OpenSend(c, files, res)
<1>1. file \in FaxFile /\ v \in Nat
  BY EmptySeq, LenProperties
<1>2. f \in BOOLEAN
  BY <1>1, FineIs
<1>3. r = IF file.kind = "missing" THEN [fx |-> b, ret |-> "NotExist"]
          ELSE IF file.kind = "other" /\ Tiff(c) THEN [fx |-> o, ret |-> "OpenFailed"]
          ELSE [fx |-> [o EXCEPT !.cur = a, !.fine = f], ret |-> "Okay"]
  <2>1. [CloseSend(c) EXCEPT !.list = files, !.cur = 1, !.vres = v,
                             !.finished = 0, !.pages = 0] = b
    <3> DEFINE none == <<>>
               closed == [c EXCEPT !.finished = 2, !.open = 0, !.filter = none, !.fine = FALSE]
    <3>1. CloseSend(c) = closed
      BY DEF CloseSend, StopSend, Conversion
    <3> HIDE DEF v, none
    <3>2. [closed EXCEPT !.list = files, !.cur = 1, !.vres = v, !.finished = 0, !.pages = 0]
          = [c EXCEPT !.finished = 0, !.open = 0, !.filter = none, !.fine = FALSE,
                      !.list = files, !.cur = 1, !.vres = v, !.pages = 0]
      BY DEF Conversion
    <3> HIDE DEF closed
    <3> QED
      BY <3>1, <3>2 DEF none
  <2> HIDE DEF b
  <2>2. r = CASE file.kind = "missing" -> [fx |-> b, ret |-> "NotExist"]
              [] file.kind = "other" /\ Tiff(c) -> [fx |-> o, ret |-> "OpenFailed"]
              [] OTHER -> [fx |-> [o EXCEPT !.cur = a, !.fine = f], ret |-> "Okay"]
    <3> DEFINE w == [CloseSend(c) EXCEPT !.list = files, !.cur = 1, !.vres = v,
                                         !.finished = 0, !.pages = 0]
               u == [w EXCEPT !.open = 1, !.pos = 0]
    <3>1. r = CASE file.kind = "missing" -> [fx |-> w, ret |-> "NotExist"]
                [] file.kind = "other" /\ Tiff(c) -> [fx |-> u, ret |-> "OpenFailed"]
                [] OTHER -> [fx |-> [u EXCEPT !.cur = After(u, 1), !.fine = f], ret |-> "Okay"]
      BY DEF OpenSend
    <3>2. w = b
      BY <2>1
    <3> HIDE DEF w, v, file, f, r
    <3> QED
      BY <3>1, <3>2
  <2>3. ~(file.kind = "missing" /\ file.kind = "other")
    OBVIOUS
  <2> HIDE DEF o, a, f, r, file
  <2> QED
    BY <2>2, <2>3
<1>4. <<>> \in Seq(Chunks)
  BY EmptySeq
<1> HIDE DEF v, f
<1>5. Conversion(b) /\ b.filter = <<>> /\ b.list = files /\ b.pages = 0 /\ b.finished = 0
      /\ b.format = c.format /\ b.err = c.err /\ b.recvState = c.recvState
  <2> DEFINE none == <<>>
  <2>1. none \in Seq(Chunks)
    BY <1>4
  <2>2. b = [c EXCEPT !.finished = 0, !.open = 0, !.filter = none, !.fine = FALSE,
                      !.list = files, !.cur = 1, !.vres = v, !.pages = 0]
    OBVIOUS
  <2>3. none = <<>>
    OBVIOUS
  <2> HIDE DEF b, none
  <2>4. Conversion(b)
    <3> DEFINE k == [c EXCEPT !.finished = 0, !.open = 0, !.filter = none, !.fine = FALSE]
    <3>1. b = [k EXCEPT !.list = files, !.cur = 1, !.vres = v, !.pages = 0]
      BY <2>2 DEF Conversion
    <3>2. Conversion(k)
      BY <2>1 DEF Conversion
    <3> HIDE DEF k
    <3> QED
      BY <1>1, <3>1, <3>2 DEF Conversion
  <2> QED
    BY <2>2, <2>3, <2>4 DEF Conversion
<1> HIDE DEF b
<1>6. Conversion(o) /\ o.filter = <<>> /\ o.list = files /\ o.pages = 0 /\ o.finished = 0
      /\ o.format = c.format /\ o.err = c.err /\ o.recvState = c.recvState
      /\ o.open = 1 /\ o.pos = 0
  BY <1>5 DEF Conversion
<1> HIDE DEF o
<1>7. a \in Nat
  BY <1>6, AfterIs
<1> HIDE DEF a
<1> DEFINE p == [o EXCEPT !.cur = a, !.fine = f]
<1>8. Conversion(p) /\ p.filter = <<>> /\ p.list = files /\ p.pages = 0 /\ p.finished = 0
      /\ p.format = c.format /\ p.err = c.err /\ p.recvState = c.recvState
      /\ p.open = 1 /\ p.pos = 0 /\ p.cur = a
  BY <1>2, <1>6, <1>7 DEF Conversion
<1>9. After(p, 1) = a
  BY <1>6, <1>8 DEF After, a
<1> HIDE DEF p
<1>10. file.kind # "missing" /\ ~(file.kind = "other") => file.kind = "ok"
  BY <1>1 DEF FaxFile
<1>11. r = IF file.kind = "missing" THEN [fx |-> b, ret |-> "NotExist"]
          ELSE IF file.kind = "other" /\ Tiff(c) THEN [fx |-> o, ret |-> "OpenFailed"]
          ELSE [fx |-> p, ret |-> "Okay"]
  BY <1>3 DEF p
<1> HIDE DEF r
<1>12. CASE file.kind = "missing"
  <2>1. r.fx = b /\ r.ret = "NotExist"
    BY <1>11, <1>12
  <2> QED
    BY <2>1, <1>5 DEF Opens, r
<1>13. CASE file.kind = "other" /\ Tiff(c)
  <2>1. r.fx = o /\ r.ret = "OpenFailed"
    BY <1>11, <1>13
  <2> QED
    BY <2>1, <1>6 DEF Opens, r
<1>14. CASE file.kind # "missing" /\ ~(file.kind = "other" /\ Tiff(c))
  <2>1. r.fx = p /\ r.ret = "Okay"
    BY <1>11, <1>14
  <2>2. Tiff(c) => file.kind = "ok"
    BY <1>10, <1>14
  <2> QED
    BY <2>1, <2>2, <1>8, <1>9 DEF Opens, r
<1> QED
  BY <1>12, <1>13, <1>14

-----------------------------------------------------------------------------
(* A turn of FillSffFilter                                                 *)

(* The file that is read, at a place where it can be read on.              *)
Readable(c) ==
  /\ c.open \in DOMAIN c.list
  /\ c.pos <= c.list[c.open].pages
  /\ Tiff(c) => c.pos < c.list[c.open].pages
  /\ c.cur # 0 => c.cur \in DOMAIN c.list /\ c.open < c.cur
  /\ c.format = "sff" => c.open = 1

(* No TIFF file is empty.                                                  *)
HasPages(c) ==
  Tiff(c) => \A f \in DOMAIN c.list : c.list[f].kind = "ok" => c.list[f].pages > 0

SameFax(c, d) ==
  /\ Conversion(d)
  /\ d.format = c.format /\ d.list = c.list /\ d.recvState = c.recvState

(* The last file has been read, or the next one cannot be opened.          *)
EndsFax(c, d) ==
  /\ SameFax(c, d) /\ d.pages = c.pages
  /\ d.finished = 1 /\ d.filter = Append(c.filter, FinalHeader)
  /\ c.cur = 0 => d.err = "Okay"
  /\ c.cur # 0 => c.list[c.cur].kind # "ok"
  /\ d.err # "Crash"

(* The next file is read; the pointer to the one after it may crash.       *)
GoesOn(c, d) ==
  /\ SameFax(c, d) /\ d.pages = c.pages
  /\ d.finished = 0 /\ d.filter = c.filter
  /\ c.cur # 0 /\ d.open = c.cur /\ d.pos = 0
  /\ d.cur # 0 => d.cur \in DOMAIN d.list /\ d.open < d.cur
  /\ d.err \in {c.err, "Crash"}
  /\ Tiff(c) => /\ d.err = c.err /\ d.cur = After(d, d.open)
                /\ c.list[c.cur].kind = "ok"
  /\ ~Tiff(c) /\ After(c, c.cur) = 0 => d.err = "Crash" /\ d.cur = 0

LEMMA NextFileIs ==
  ASSUME NEW c, Conversion(c), c.finished = 0, c.cur # 0 => c.cur \in DOMAIN c.list
  PROVE  EndsFax(c, NextFile(c)) \/ GoesOn(c, NextFile(c))
<1> DEFINE file == c.list[c.cur]
           a == After(c, c.cur)
           e == After(c, a)
           v == FineRes(c.vres, file)
           f == [c EXCEPT !.open = 0]
           onward == [f EXCEPT !.cur = a]
           open == [onward EXCEPT !.open = c.cur, !.pos = 0]
           last == Append(c.filter, FinalHeader)
           d == NextFile(c)
<1>1. /\ a \in Nat /\ (a # 0 => a \in DOMAIN c.list /\ a = c.cur + 1)
      /\ e \in Nat /\ (e # 0 => e \in DOMAIN c.list /\ e = a + 1)
      /\ c.cur \in Nat
  <2>1. c.cur \in Nat
    BY DEF Conversion
  <2>2. a \in Nat /\ (a # 0 => a \in DOMAIN c.list /\ a = c.cur + 1)
    BY <2>1, AfterIs
  <2> HIDE DEF a
  <2> QED
    BY <2>1, <2>2, AfterIs
<1>2. last \in Seq(Chunks)
  <2>1. FinalHeader \in Chunks /\ c.filter \in Seq(Chunks)
    BY DEF FinalHeader, Chunks, Conversion
  <2> QED
    BY <2>1, AppendProperties
<1>3. \A m : Conversion(m) => Tiff(m) = (m.format \in {"hylafax", "tiff"})
  BY DEF Tiff
<1> DEFINE Ending(m, err) == [m EXCEPT !.filter = last, !.finished = 1, !.err = err]
<1>4. ASSUME NEW m, Conversion(m), m.filter = c.filter, m.finished = 0, NEW err
      PROVE  Finish(m, err) = Ending(m, err)
  BY <1>4 DEF Finish, Conversion
<1>5. Conversion(f) /\ SameFax(c, f) /\ f.pages = c.pages /\ f.filter = c.filter /\ f.finished = 0
  BY DEF Conversion, SameFax
<1>6. /\ Conversion(onward) /\ SameFax(c, onward) /\ onward.pages = c.pages
      /\ onward.filter = c.filter /\ onward.cur = a /\ onward.finished = 0 /\ onward.err = c.err
  <2> HIDE DEF a
  <2> QED
    BY <1>1 DEF Conversion, SameFax
<1>7. ASSUME NEW m, SameFax(c, m), m.pages = c.pages, NEW err \in {"Okay", "NotExist", "OpenFailed"}
      PROVE  /\ SameFax(c, Ending(m, err)) /\ Ending(m, err).pages = c.pages
             /\ Ending(m, err).filter = last /\ Ending(m, err).finished = 1
             /\ Ending(m, err).err = err
  <2> HIDE DEF last
  <2>1. Conversion(m)
    BY <1>7 DEF SameFax
  <2>2. Conversion([m EXCEPT !.filter = last])
    BY <2>1, <1>2 DEF Conversion
  <2>3. Conversion(Ending(m, err))
    <3> DEFINE k == [m EXCEPT !.filter = last]
    <3>1. Ending(m, err) = [k EXCEPT !.finished = 1, !.err = err]
      BY <2>1 DEF Conversion
    <3>a. Conversion(k)
      BY <2>2
    <3> HIDE DEF k, Ending
    <3> DEFINE l == [k EXCEPT !.finished = 1]
    <3>2. Conversion(l)
      BY <3>a DEF Conversion
    <3>3. [k EXCEPT !.finished = 1, !.err = err] = [l EXCEPT !.err = err]
      BY <3>a DEF Conversion
    <3> HIDE DEF l
    <3>4. Conversion([l EXCEPT !.err = err])
      BY <3>2 DEF Conversion
    <3> QED
      BY <3>1, <3>3, <3>4
  <2> QED
    BY <2>1, <2>3, <1>7 DEF Conversion, SameFax
<1>8. CASE c.cur = 0
  <2>1. d = Ending(f, "Okay")
    <3>1. d = Finish(f, "Okay")
      BY <1>8 DEF NextFile
    <3> HIDE DEF f, Ending, d
    <3> QED
      BY <1>4, <1>5, <3>1
  <2>2. SameFax(c, d) /\ d.pages = c.pages /\ d.filter = last /\ d.finished = 1 /\ d.err = "Okay"
    <3> HIDE DEF f, Ending, last, d
    <3> QED
      BY <1>5, <1>7, <2>1
  <2> HIDE DEF d
  <2> QED
    BY <1>8, <2>2 DEF EndsFax, d
<1>9. CASE c.cur # 0 /\ (file.kind = "missing" \/ (file.kind = "other" /\ Tiff(c)))
  <2>1. d = Ending(onward, "NotExist") \/ d = Ending(onward, "OpenFailed")
    <3> HIDE DEF file
    <3> HIDE DEF Ending, onward, f, open
    <3>1. NextFile(c) = Finish(onward, "NotExist") \/ NextFile(c) = Finish(onward, "OpenFailed")
      BY <1>9 DEF NextFile, file, onward, f, open
    <3>2. Finish(onward, "NotExist") = Ending(onward, "NotExist")
      BY <1>4, <1>6
    <3>3. Finish(onward, "OpenFailed") = Ending(onward, "OpenFailed")
      BY <1>4, <1>6
    <3> QED
      BY <3>1, <3>2, <3>3
  <2>2. SameFax(c, d) /\ d.pages = c.pages /\ d.filter = last /\ d.finished = 1
        /\ d.err \in {"NotExist", "OpenFailed"}
    <3> HIDE DEF onward, Ending, last, d
    <3> QED
      BY <1>6, <1>7, <2>1
  <2> HIDE DEF d
  <2> QED
    BY <1>9, <2>2 DEF EndsFax, d
<1>10. CASE c.cur # 0 /\ file.kind # "missing" /\ ~(file.kind = "other" /\ Tiff(c))
  <2>0. file \in FaxFile
    BY <1>10, ElementOfSeq, LenProperties DEF Conversion
  <2>1. /\ Conversion(open) /\ SameFax(c, open) /\ open.pages = c.pages
        /\ open.filter = c.filter /\ open.cur = a /\ open.finished = 0 /\ open.err = c.err
        /\ open.open = c.cur /\ open.pos = 0
    <3> HIDE DEF a, onward
    <3> QED
      BY <1>1, <1>6 DEF Conversion, SameFax
  <2>2. d = IF Tiff(c) THEN [open EXCEPT !.fine = v]
            ELSE IF open.cur = 0 THEN [open EXCEPT !.err = "Crash"]
            ELSE [open EXCEPT !.cur = e]
    <3>1. d = IF Tiff(c) THEN [open EXCEPT !.fine = v]
              ELSE IF open.cur = 0 THEN [open EXCEPT !.err = "Crash"]
              ELSE [open EXCEPT !.cur = After(c, open.cur)]
      BY <1>10 DEF NextFile
    <3> QED
      BY <2>1, <3>1
  <2>3. v \in BOOLEAN
    BY <2>0, FineIs DEF Conversion
  <2>4. CASE Tiff(c)
    <3>1. d = [open EXCEPT !.fine = v]
      BY <2>2, <2>4
    <3>2. file.kind = "ok"
      BY <1>10, <2>0, <2>4 DEF FaxFile
    <3> HIDE DEF open, v, d, a, file
    <3>3. /\ Conversion(d) /\ SameFax(c, d) /\ d.pages = c.pages
          /\ d.filter = c.filter /\ d.cur = a /\ d.finished = 0 /\ d.err = c.err
          /\ d.open = c.cur /\ d.pos = 0
      BY <2>1, <2>3, <3>1 DEF Conversion, SameFax
    <3>4. a = After(d, d.open)
      BY <3>3 DEF After, a, SameFax
    <3>5. d.cur # 0 => d.cur \in DOMAIN d.list /\ d.open < d.cur
      BY <1>1, <3>3 DEF SameFax
    <3> QED
      BY <1>10, <2>4, <3>2, <3>3, <3>4, <3>5 DEF GoesOn, d, file
  <2>5. CASE ~Tiff(c) /\ a = 0
    <3>1. d = [open EXCEPT !.err = "Crash"]
      BY <2>1, <2>2, <2>5
    <3> HIDE DEF open, v, d, a, file
    <3>2. /\ Conversion(d) /\ SameFax(c, d) /\ d.pages = c.pages
          /\ d.filter = c.filter /\ d.cur = a /\ d.finished = 0 /\ d.err = "Crash"
          /\ d.open = c.cur /\ d.pos = 0
      BY <2>1, <3>1 DEF Conversion, SameFax
    <3> QED
      BY <1>10, <2>5, <3>2 DEF GoesOn, d, a
  <2>6. CASE ~Tiff(c) /\ a # 0
    <3>1. d = [open EXCEPT !.cur = e]
      BY <2>1, <2>2, <2>6
    <3>2. e # 0 => c.cur < e
      BY <1>1, <2>6
    <3> HIDE DEF open, v, d, a, e, file
    <3>3. /\ Conversion(d) /\ SameFax(c, d) /\ d.pages = c.pages
          /\ d.filter = c.filter /\ d.cur = e /\ d.finished = 0 /\ d.err = c.err
          /\ d.open = c.cur /\ d.pos = 0
      BY <1>1, <2>1, <3>1 DEF Conversion, SameFax
    <3>4. d.cur # 0 => d.cur \in DOMAIN d.list /\ d.open < d.cur
      BY <1>1, <3>2, <3>3 DEF SameFax
    <3> QED
      BY <1>10, <2>6, <3>3, <3>4 DEF GoesOn, d, a
  <2> QED
    BY <2>4, <2>5, <2>6
<1> QED
  BY <1>8, <1>9, <1>10

(* A page goes into the filter; at the end of a G3 file none does.         *)
AddsChunk(c, m) ==
  /\ SameFax(c, m) /\ m.finished = 0 /\ m.open = c.open /\ m.cur = c.cur /\ m.err = c.err
  /\ m.pos = c.pos + 1 /\ m.filter = Append(c.filter, Chunk(c))
  /\ Tiff(c) => m.pages = c.pages + 1

EndsFile(c, m) ==
  /\ SameFax(c, m) /\ m.finished = 0 /\ m.open = c.open /\ m.cur = c.cur /\ m.err = c.err
  /\ m.pos = c.pos /\ m.filter = c.filter

LEMMA ChunkIs ==
  ASSUME NEW c, Conversion(c)
  PROVE  /\ Chunk(c) \in Chunks
         /\ Chunk(c)[1] = c.open /\ Chunk(c)[2] = c.pos + 1
         /\ c.open # 0 => Chunk(c) # FinalHeader
<1>1. c.open \in Nat /\ c.pos + 1 \in Nat /\ c.fine \in BOOLEAN
  BY DEF Conversion
<1>2. Chunk(c) \in Chunks
  BY <1>1 DEF Chunk, Chunks
<1>3. Chunk(c)[1] = c.open /\ Chunk(c)[2] = c.pos + 1
  BY DEF Chunk
<1>4. FinalHeader[1] = 0
  BY DEF FinalHeader
<1> QED
  BY <1>2, <1>3, <1>4

LEMMA ReadIs ==
  ASSUME NEW c, Conversion(c), c.finished = 0
  PROVE  LET read == [c EXCEPT !.filter = Append(@, Chunk(c)), !.pos = @ + 1]
             counted == [read EXCEPT !.pages = @ + 1]
         IN  /\ AddsChunk(c, counted)
             /\ ~Tiff(c) => AddsChunk(c, read)
<1> DEFINE longer == Append(c.filter, Chunk(c))
           next == c.pos + 1
           more == c.pages + 1
           read == [c EXCEPT !.filter = longer, !.pos = next]
           counted == [c EXCEPT !.filter = longer, !.pos = next, !.pages = more]
<1>1. longer \in Seq(Chunks) /\ next \in Nat /\ more \in Nat
  <2>1. Chunk(c) \in Chunks
    BY ChunkIs
  <2> QED
    BY <2>1, AppendProperties DEF Conversion
<1>2. /\ [c EXCEPT !.filter = Append(@, Chunk(c)), !.pos = @ + 1] = read
      /\ [read EXCEPT !.pages = @ + 1] = counted
  <2> HIDE DEF longer, next
  <2>1. [c EXCEPT !.filter = Append(c.filter, Chunk(c)), !.pos = c.pos + 1] = read
    BY DEF longer, next
  <2>2. [c EXCEPT !.filter = Append(@, Chunk(c)), !.pos = @ + 1] =
        [c EXCEPT !.filter = Append(c.filter, Chunk(c)), !.pos = c.pos + 1]
    BY DEF Conversion
  <2>3. read.pages + 1 = more
    BY DEF Conversion
  <2>4. [read EXCEPT !.pages = @ + 1] = counted
    BY <2>3 DEF Conversion
  <2> QED
    BY <2>1, <2>2, <2>4
<1> HIDE DEF longer, next, more
<1>3. Conversion(read) /\ Conversion(counted)
  <2>1. Conversion(read)
    BY <1>1 DEF Conversion
  <2>2. counted = [read EXCEPT !.pages = more]
    BY DEF Conversion
  <2> HIDE DEF read, counted
  <2>3. Conversion([read EXCEPT !.pages = more])
    BY <1>1, <2>1 DEF Conversion
  <2> QED
    BY <2>1, <2>2, <2>3
<1>4. SameFax(c, read) /\ SameFax(c, counted)
  BY <1>3 DEF SameFax, Conversion
<1>5. AddsChunk(c, counted)
  BY <1>4 DEF AddsChunk, Conversion, longer, next, more
<1>6. ~Tiff(c) => AddsChunk(c, read)
  BY <1>4 DEF AddsChunk, Conversion, longer, next
<1> QED
  BY <1>2, <1>5, <1>6

(* What a turn does, in three cases.                                       *)
Turn(c, d, m) ==
  \/ /\ AddsChunk(c, m) /\ d = m
     /\ Tiff(c) => m.pos # c.list[c.open].pages
     /\ ~Tiff(c) => c.pos # c.list[c.open].pages
  \/ /\ Tiff(c) /\ AddsChunk(c, m) /\ m.pos = c.list[c.open].pages
     /\ EndsFax(m, d) \/ GoesOn(m, d)
  \/ /\ ~Tiff(c) /\ EndsFile(c, m) /\ c.pos = c.list[c.open].pages
     /\ EndsFax(m, d) \/ GoesOn(m, d)

LEMMA FillTurns ==
  ASSUME NEW c, Conversion(c), c.finished = 0, Readable(c), ~ReadFails(c)
  PROVE  \E m : Turn(c, FillSffFilter(c), m)
<1> DEFINE read == [c EXCEPT !.filter = Append(@, Chunk(c)), !.pos = @ + 1]
           counted == [read EXCEPT !.pages = @ + 1]
           passed == [c EXCEPT !.pages = @ + 1]
           d == FillSffFilter(c)
<1>1. AddsChunk(c, counted) /\ (~Tiff(c) => AddsChunk(c, read))
  BY ReadIs
<1>2. EndsFile(c, passed)
  <2> DEFINE v == c.pages + 1
             p == [c EXCEPT !.pages = v]
  <2>1. v \in Nat /\ passed = p
    BY DEF Conversion
  <2> HIDE DEF v
  <2>2. Conversion(p)
    BY <2>1 DEF Conversion
  <2>3. EndsFile(c, p)
    BY <2>1, <2>2 DEF EndsFile, SameFax, Conversion
  <2> QED
    BY <2>1, <2>3
<1>3. d = IF Tiff(c) THEN IF AtEnd(counted) THEN NextFile(counted) ELSE counted
          ELSE IF AtEnd(c) THEN NextFile(passed) ELSE read
  <2>1. d = IF Tiff(c) THEN IF AtEnd(counted) THEN NextFile(counted) ELSE counted
            ELSE IF ReadFails(c) THEN c
            ELSE IF AtEnd(c) THEN NextFile(passed) ELSE read
    BY DEF FillSffFilter
  <2> HIDE DEF read, counted, passed, d
  <2> QED
    BY <2>1
<1> HIDE DEF read, counted, passed, d
<1>4. ASSUME NEW m, SameFax(c, m), m.finished = 0, m.cur = c.cur
      PROVE  EndsFax(m, NextFile(m)) \/ GoesOn(m, NextFile(m))
  <2>1. Conversion(m) /\ (m.cur # 0 => m.cur \in DOMAIN m.list)
    BY <1>4 DEF SameFax, Readable
  <2> QED
    BY <2>1, <1>4, NextFileIs
<1>5. CASE Tiff(c) /\ ~AtEnd(counted)
  <2>1. d = counted
    BY <1>3, <1>5
  <2> QED
    BY <2>1, <1>1, <1>5 DEF Turn, AtEnd, AddsChunk, SameFax, d
<1>6. CASE Tiff(c) /\ AtEnd(counted)
  <2>1. d = NextFile(counted)
    BY <1>3, <1>6
  <2>2. EndsFax(counted, d) \/ GoesOn(counted, d)
    BY <2>1, <1>1, <1>4 DEF AddsChunk
  <2> QED
    BY <2>2, <1>1, <1>6 DEF Turn, AtEnd, AddsChunk, SameFax, d
<1>7. CASE ~Tiff(c) /\ AtEnd(c)
  <2>1. d = NextFile(passed)
    BY <1>3, <1>7
  <2>2. EndsFax(passed, d) \/ GoesOn(passed, d)
    BY <2>1, <1>2, <1>4 DEF EndsFile
  <2> QED
    BY <2>2, <1>2, <1>7 DEF Turn, AtEnd, d
<1>8. CASE ~Tiff(c) /\ ~AtEnd(c)
  <2>1. d = read
    BY <1>3, <1>8
  <2> QED
    BY <2>1, <1>1, <1>8 DEF Turn, AtEnd, d
<1> QED
  BY <1>5, <1>6, <1>7, <1>8

(* Tiff pages are read while there are some, G3 pages too.                 *)
Adds(c) == Tiff(c) \/ c.pos # c.list[c.open].pages

Fills(c, d) ==
  /\ SameFax(c, d)
  /\ d.finished \in {0, 1}
  /\ LET m == IF Adds(c) THEN Append(c.filter, Chunk(c)) ELSE c.filter
     IN  d.filter = IF d.finished = 1 THEN Append(m, FinalHeader) ELSE m
  /\ d.finished = 0 => Readable(d) /\ Before(Chunk(c), Chunk(d))
  /\ Tiff(c) => d.pages = c.pages + 1

LEMMA FillIs ==
  ASSUME NEW c, Conversion(c), c.finished = 0, Readable(c), HasPages(c), c.format # "sff",
         ~ReadFails(c)
  PROVE  Fills(c, FillSffFilter(c))
<1> DEFINE d == FillSffFilter(c)
           pages == c.list[c.open].pages
<1>1. PICK m : Turn(c, d, m)
  BY FillTurns
<1> HIDE DEF d
<1>2. /\ c.pos \in Nat /\ c.open \in Nat /\ c.cur \in Nat /\ pages \in Nat
      /\ c.list \in Seq(FaxFile) /\ c.open > 0
  <2>1. c.list \in Seq(FaxFile) /\ c.open \in DOMAIN c.list /\ DOMAIN c.list = 1 .. Len(c.list)
    BY LenProperties DEF Conversion, Readable
  <2>2. c.list[c.open] \in FaxFile
    BY <2>1, ElementOfSeq
  <2> QED
    BY <2>1, <2>2 DEF Conversion, FaxFile
<1>3. ASSUME AddsChunk(c, m), d = m,
             Tiff(c) => m.pos # pages, ~Tiff(c) => c.pos # pages
      PROVE  Fills(c, d)
  <2>1. /\ SameFax(c, d) /\ d.finished = 0 /\ d.open = c.open /\ d.cur = c.cur
        /\ d.pos = c.pos + 1 /\ d.filter = Append(c.filter, Chunk(c))
        /\ (Tiff(c) => d.pages = c.pages + 1) /\ d.format = c.format /\ d.list = c.list
        /\ Conversion(d)
    BY <1>3 DEF AddsChunk, SameFax
  <2>2. Adds(c)
    BY <1>3 DEF Adds
  <2>3. Before(Chunk(c), Chunk(d))
    <3>1. /\ Chunk(c)[1] = c.open /\ Chunk(c)[2] = c.pos + 1
          /\ Chunk(d)[1] = d.open /\ Chunk(d)[2] = d.pos + 1
      BY <2>1, ChunkIs
    <3> QED
      BY <3>1, <2>1, <1>2 DEF Before
  <2>4. Readable(d)
    <3>1. d.pos <= pages /\ (Tiff(c) => d.pos < pages)
      BY <1>2, <1>3, <2>1 DEF Readable
    <3>2. Tiff(d) = Tiff(c)
      BY <2>1 DEF Tiff
    <3> QED
      BY <2>1, <3>1, <3>2 DEF Readable
  <2> QED
    BY <2>1, <2>2, <2>3, <2>4 DEF Fills
<1>4. ASSUME SameFax(c, m), m.open = c.open, m.cur = c.cur, m.err = c.err,
             m.pos \in {c.pos, c.pos + 1}, Tiff(c) => m.pages = c.pages + 1,
             m.filter = IF Adds(c) THEN Append(c.filter, Chunk(c)) ELSE c.filter,
             EndsFax(m, d) \/ GoesOn(m, d)
      PROVE  Fills(c, d)
  <2>1. /\ SameFax(c, d) /\ d.pages = m.pages /\ Conversion(m) /\ m.list = c.list
        /\ Conversion(d) /\ m.format = c.format /\ d.list = c.list /\ d.format = c.format
    BY <1>4 DEF EndsFax, GoesOn, SameFax
  <2>2. CASE EndsFax(m, d)
    <3>1. d.finished = 1 /\ d.filter = Append(m.filter, FinalHeader)
      BY <2>2 DEF EndsFax
    <3> QED
      BY <1>4, <2>1, <3>1 DEF Fills
  <2>3. CASE GoesOn(m, d)
    <3>1. /\ d.finished = 0 /\ d.filter = m.filter /\ c.cur # 0 /\ d.open = c.cur /\ d.pos = 0
          /\ d.cur # 0 => d.cur \in DOMAIN d.list /\ d.open < d.cur
          /\ Tiff(m) => c.list[c.cur].kind = "ok"
      BY <1>4, <2>1, <2>3 DEF GoesOn
    <3>2. c.cur \in DOMAIN c.list /\ c.open < c.cur
      BY <3>1 DEF Readable
    <3>3. c.list[c.cur] \in FaxFile
      BY <1>2, <3>2, ElementOfSeq, LenProperties
    <3>4. c.list[c.cur].pages \in Nat
      BY <3>3 DEF FaxFile
    <3>5. Tiff(m) = Tiff(c) /\ Tiff(d) = Tiff(c)
      BY <2>1 DEF Tiff
    <3>6. Tiff(c) => c.list[c.cur].pages > 0
      BY <3>1, <3>2, <3>5 DEF HasPages
    <3>7. Readable(d)
      BY <2>1, <3>1, <3>2, <3>4, <3>5, <3>6 DEF Readable
    <3>8. Before(Chunk(c), Chunk(d))
      <4>1. /\ Chunk(c)[1] = c.open /\ Chunk(d)[1] = d.open
        BY <2>1, ChunkIs
      <4> QED
        BY <4>1, <3>1, <3>2 DEF Before
    <3> QED
      BY <1>4, <2>1, <3>1, <3>7, <3>8 DEF Fills
  <2> QED
    BY <1>4, <2>2, <2>3
<1>5. CASE Tiff(c) /\ AddsChunk(c, m) /\ (EndsFax(m, d) \/ GoesOn(m, d))
  <2>1. /\ SameFax(c, m) /\ m.open = c.open /\ m.cur = c.cur /\ m.err = c.err
        /\ m.pos = c.pos + 1 /\ (Tiff(c) => m.pages = c.pages + 1)
        /\ m.filter = Append(c.filter, Chunk(c)) /\ Adds(c)
    BY <1>5 DEF AddsChunk, Adds
  <2>2. m.filter = IF Adds(c) THEN Append(c.filter, Chunk(c)) ELSE c.filter
    BY <2>1
  <2>3. m.pos \in {c.pos, c.pos + 1}
    BY <2>1
  <2>4. Tiff(c) => m.pages = c.pages + 1
    BY <1>5, <2>1
  <2>5. EndsFax(m, d) \/ GoesOn(m, d)
    BY <1>5
  <2> QED
    BY <1>4, <2>1, <2>2, <2>3, <2>4, <2>5 DEF d
<1>6. CASE ~Tiff(c) /\ EndsFile(c, m) /\ c.pos = pages /\ (EndsFax(m, d) \/ GoesOn(m, d))
  <2>1. /\ SameFax(c, m) /\ m.open = c.open /\ m.cur = c.cur /\ m.err = c.err
        /\ m.pos = c.pos /\ m.filter = c.filter /\ ~Adds(c)
    BY <1>6 DEF EndsFile, Adds
  <2>2. m.filter = IF Adds(c) THEN Append(c.filter, Chunk(c)) ELSE c.filter
    BY <2>1
  <2>3. m.pos \in {c.pos, c.pos + 1}
    BY <2>1
  <2>4. Tiff(c) => m.pages = c.pages + 1
    BY <1>6, <2>1
  <2>5. EndsFax(m, d) \/ GoesOn(m, d)
    BY <1>6
  <2> QED
    BY <1>4, <2>1, <2>2, <2>3, <2>4, <2>5 DEF d
<1> QED
  BY <1>1, <1>3, <1>5, <1>6 DEF Turn, d

(* The pages of a job's document that have been read.                      *)
ReadOf(job, c) ==
  {q \in Document(job, c.format) : c.finished # 0 \/ Before(q, Chunk(c))}

LEMMA DocumentIs ==
  ASSUME NEW job, job.files \in Seq(FaxFile), NEW format, NEW q
  PROVE  q \in Document(job, format) <=>
           \E f \in DOMAIN job.files : \E p \in 1 .. job.files[f].pages :
             q = <<f, p>> /\ (format = "sff" => f = 1)
BY DEF Document

LEMMA PageIs ==
  ASSUME NEW job, job.files \in Seq(FaxFile), NEW format, NEW q \in Document(job, format)
  PROVE  /\ q = <<q[1], q[2]>> /\ q[1] \in DOMAIN job.files
         /\ q[1] \in Nat \ {0} /\ q[1] <= Len(job.files)
         /\ q[2] \in Nat \ {0} /\ q[2] <= job.files[q[1]].pages
         /\ format = "sff" => q[1] = 1
<1>1. PICK f \in DOMAIN job.files : \E p \in 1 .. job.files[f].pages :
             q = <<f, p>> /\ (format = "sff" => f = 1)
  BY DocumentIs
<1>2. PICK p \in 1 .. job.files[f].pages : q = <<f, p>> /\ (format = "sff" => f = 1)
  BY <1>1
<1>3. DOMAIN job.files = 1 .. Len(job.files) /\ Len(job.files) \in Nat
  BY LenProperties
<1>4. job.files[f].pages \in Nat
  <2>1. job.files[f] \in FaxFile
    BY ElementOfSeq, <1>3
  <2> QED
    BY <2>1 DEF FaxFile
<1>5. q[1] = f /\ q[2] = p
  BY <1>2
<1> QED
  BY <1>2, <1>3, <1>4, <1>5

(* When every file can be opened, a turn reads exactly the next page.      *)
FillsWell(job, c, d) ==
  /\ d.err \in {c.err, "Okay", "Crash"}
  /\ Adds(c) => /\ ReadOf(job, d) = ReadOf(job, c) \cup {<<c.open, c.pos + 1>>}
                /\ <<c.open, c.pos + 1>> \notin ReadOf(job, c)
  /\ ~Adds(c) => ReadOf(job, d) = ReadOf(job, c)
  /\ d.finished = 0 => /\ d.cur = After(d, d.open)
                       /\ d.format = "g3" /\ d.err # "Crash" => d.open = 1

LEMMA FillReads ==
  ASSUME NEW c, Conversion(c), c.finished = 0, Readable(c), HasPages(c), c.format # "sff",
         c.cur = After(c, c.open), c.format = "g3" => Len(c.list) <= 2 /\ c.open = 1,
         \A f \in DOMAIN c.list : c.list[f].kind = "ok", ~ReadFails(c),
         NEW job, job.files = c.list
  PROVE  FillsWell(job, c, FillSffFilter(c))
<1> DEFINE d == FillSffFilter(c)
           pages == c.list[c.open].pages
           page == <<c.open, c.pos + 1>>
           D == Document(job, c.format)
           Read(q) == q[1] < c.open \/ (q[1] = c.open /\ q[2] < c.pos + 1)
<1>1. PICK m : Turn(c, d, m)
  BY FillTurns
<1> HIDE DEF d
<1>2. /\ c.pos \in Nat /\ c.open \in Nat /\ c.cur \in Nat /\ pages \in Nat
      /\ c.list \in Seq(FaxFile) /\ c.open > 0 /\ c.open <= Len(c.list)
      /\ DOMAIN c.list = 1 .. Len(c.list) /\ Len(c.list) \in Nat
  <2>1. /\ c.list \in Seq(FaxFile) /\ c.open \in DOMAIN c.list
        /\ DOMAIN c.list = 1 .. Len(c.list) /\ Len(c.list) \in Nat
    BY LenProperties DEF Conversion, Readable
  <2>2. c.list[c.open] \in FaxFile
    BY <2>1, ElementOfSeq
  <2> QED
    BY <2>1, <2>2 DEF Conversion, FaxFile
<1>3. /\ c.pos <= pages /\ (Tiff(c) => c.pos < pages)
      /\ Tiff(c) = (c.format \in {"hylafax", "tiff"}) /\ c.format \in Formats
  BY DEF Readable, Tiff, Conversion
<1>4. ASSUME NEW q \in D
      PROVE  /\ q = <<q[1], q[2]>> /\ q[1] \in DOMAIN c.list
             /\ q[1] \in Nat \ {0} /\ q[1] <= Len(c.list)
             /\ q[2] \in Nat \ {0} /\ q[2] <= c.list[q[1]].pages
  BY <1>2, <1>4, PageIs
<1>5. ReadOf(job, c) = {q \in D : Read(q)}
  BY ChunkIs DEF ReadOf, Before
<1>6. page \notin ReadOf(job, c)
  BY <1>2, <1>5
<1>7. Adds(c) => page \in D
  <2>1. Adds(c) => c.pos + 1 \in 1 .. pages
    BY <1>2, <1>3 DEF Adds
  <2> QED
    BY <1>2, <2>1, DocumentIs
<1> HIDE DEF D
<1>8. ASSUME AddsChunk(c, m), d = m, Tiff(c) => m.pos # pages, ~Tiff(c) => c.pos # pages
      PROVE  FillsWell(job, c, d)
  <2>1. /\ Conversion(d) /\ d.finished = 0 /\ d.open = c.open /\ d.cur = c.cur /\ d.err = c.err
        /\ d.pos = c.pos + 1 /\ d.format = c.format /\ d.list = c.list
    BY <1>8 DEF AddsChunk, SameFax
  <2>2. Adds(c)
    BY <1>8 DEF Adds
  <2>3. ReadOf(job, d) = {q \in D : q[1] < c.open \/ (q[1] = c.open /\ q[2] < c.pos + 2)}
    <3>1. Chunk(d)[1] = c.open /\ Chunk(d)[2] = c.pos + 2
      BY <2>1, <1>2, ChunkIs
    <3> QED
      BY <2>1, <3>1 DEF ReadOf, Before, D
  <2>4. ReadOf(job, d) = ReadOf(job, c) \cup {page}
    <3>1. ASSUME NEW q \in D
          PROVE  (q[1] = c.open /\ q[2] < c.pos + 2) <=>
                   (q[1] = c.open /\ q[2] < c.pos + 1) \/ q = page
      <4>1. q = <<q[1], q[2]>> /\ q[1] \in Nat /\ q[2] \in Nat
        BY <1>4, <3>1
      <4>2. q = page <=> q[1] = c.open /\ q[2] = c.pos + 1
        BY <4>1
      <4> QED
        BY <4>1, <4>2, <1>2
    <3>2. page[1] = c.open /\ page[2] = c.pos + 1
      OBVIOUS
    <3> HIDE DEF page
    <3> QED
      BY <1>5, <1>7, <2>2, <2>3, <3>1
  <2>5. d.cur = After(d, d.open)
    BY <2>1 DEF After
  <2> QED
    BY <2>1, <2>2, <2>4, <2>5, <1>6 DEF FillsWell
<1>9. ASSUME SameFax(c, m), m.open = c.open, m.cur = c.cur, m.err = c.err,
             c.pos + (IF Adds(c) THEN 1 ELSE 0) = pages,
             EndsFax(m, d) \/ GoesOn(m, d)
      PROVE  FillsWell(job, c, d)
  <2>1. /\ Conversion(m) /\ m.list = c.list /\ m.format = c.format
        /\ Conversion(d) /\ d.list = c.list /\ d.format = c.format
    BY <1>9 DEF EndsFax, GoesOn, SameFax
  <2> DEFINE read == {q \in D : q[1] <= c.open}
  <2>2. /\ Adds(c) => read = ReadOf(job, c) \cup {page}
        /\ ~Adds(c) => read = ReadOf(job, c)
    <3>1. ASSUME NEW q \in D
          PROVE  q[1] <= c.open <=> Read(q) \/ (Adds(c) /\ q = page)
      <4>1. q = <<q[1], q[2]>> /\ q[1] \in Nat /\ q[2] \in Nat /\ q[2] <= c.list[q[1]].pages
        BY <1>4, <3>1
      <4>2. q = page <=> q[1] = c.open /\ q[2] = c.pos + 1
        BY <4>1
      <4>3. q[1] = c.open => q[2] <= pages
        BY <4>1
      <4> HIDE DEF page, pages
      <4>4. CASE Adds(c)
        BY <4>1, <4>2, <4>3, <4>4, <1>2, <1>9
      <4>5. CASE ~Adds(c)
        BY <4>1, <4>2, <4>3, <4>5, <1>2, <1>9
      <4> QED
        BY <4>4, <4>5
    <3> HIDE DEF page, Read
    <3> QED
      BY <1>5, <1>7, <3>1
  <2>3. CASE EndsFax(m, d)
    <3>1. d.finished = 1 /\ (c.cur = 0 => d.err = "Okay") /\ (c.cur # 0 => c.list[c.cur].kind # "ok")
      BY <1>9, <2>1, <2>3 DEF EndsFax
    <3>2. c.cur = 0 /\ c.open >= Len(c.list)
      <4>1. c.cur # 0 => c.cur \in DOMAIN c.list
        BY DEF Readable
      <4>2. c.cur = 0
        BY <3>1, <4>1
      <4> QED
        BY <4>2, <1>2, AfterIs
    <3>3. ReadOf(job, d) = D
      BY <2>1, <3>1 DEF ReadOf, D
    <3>4. D = read
      BY <1>2, <1>4, <3>2
    <3>5. d.err \in {c.err, "Okay", "Crash"} /\ d.finished # 0
      BY <3>1, <3>2
    <3> HIDE DEF read, page
    <3>6. ReadOf(job, d) = read
      BY <3>3, <3>4
    <3> QED
      BY <1>6, <2>2, <3>5, <3>6 DEF FillsWell, page
  <2>4. CASE GoesOn(m, d)
    <3>1. /\ d.finished = 0 /\ c.cur # 0 /\ d.open = c.cur /\ d.pos = 0
          /\ d.err \in {c.err, "Crash"}
          /\ Tiff(c) => d.cur = After(d, d.open)
          /\ ~Tiff(c) /\ After(m, c.cur) = 0 => d.err = "Crash" /\ d.cur = 0
      <4>1. Tiff(m) = Tiff(c)
        BY <2>1 DEF Tiff
      <4> QED
        BY <1>9, <2>1, <2>4, <4>1 DEF GoesOn
    <3>2. c.cur = c.open + 1
      BY <3>1, <1>2, AfterIs
    <3>3. ReadOf(job, d) = read
      <4>1. Chunk(d)[1] = c.open + 1 /\ Chunk(d)[2] = 1
        BY <2>1, <3>1, <3>2, ChunkIs
      <4>2. ReadOf(job, d) = {q \in D : q[1] < c.open + 1 \/ (q[1] = c.open + 1 /\ q[2] < 1)}
        BY <2>1, <3>1, <4>1 DEF ReadOf, Before, D
      <4> QED
        BY <1>2, <1>4, <4>2
    <3>4. ~Tiff(c) => c.format = "g3" /\ c.cur = 2 /\ Len(c.list) = 2
      <4>1. ~Tiff(c) => c.format = "g3"
        BY <1>3 DEF Formats
      <4>2. c.cur \in DOMAIN c.list
        BY <3>1 DEF Readable
      <4>3. c.cur <= Len(c.list)
        BY <4>2, <1>2
      <4>4. ASSUME c.format = "g3" PROVE c.cur = 2 /\ Len(c.list) = 2
        <5>1. c.open = 1 /\ Len(c.list) <= 2
          BY <4>4
        <5>2. c.cur = 2
          BY <5>1, <3>2
        <5>3. Len(c.list) \in Nat
          BY <1>2
        <5>4. \A k \in Nat : 2 <= k /\ k <= 2 => k = 2
          OBVIOUS
        <5>5. 2 <= Len(c.list)
          BY <5>2, <4>3
        <5> QED
          BY <5>1, <5>2, <5>3, <5>4, <5>5
      <4> QED
        BY <4>1, <4>4
    <3>5. ~Tiff(c) => d.err = "Crash" /\ d.cur = After(d, d.open)
      <4>1. ~Tiff(c) => After(m, c.cur) = 0 /\ After(d, d.open) = 0
        BY <2>1, <3>1, <3>4 DEF After
      <4> QED
        BY <3>1, <4>1
    <3>6. d.format = "g3" => ~Tiff(c)
      BY <1>3, <2>1
    <3> QED
      BY <1>6, <2>2, <3>1, <3>3, <3>5, <3>6 DEF FillsWell
  <2> QED
    BY <1>9, <2>3, <2>4
<1>10. CASE Tiff(c) /\ AddsChunk(c, m) /\ m.pos = pages /\ (EndsFax(m, d) \/ GoesOn(m, d))
  <2>1. /\ SameFax(c, m) /\ m.open = c.open /\ m.cur = c.cur /\ m.err = c.err
        /\ c.pos + 1 = pages /\ Adds(c)
    BY <1>10 DEF AddsChunk, Adds
  <2>2. c.pos + (IF Adds(c) THEN 1 ELSE 0) = pages
    BY <2>1
  <2> QED
    BY <1>9, <1>10, <2>1, <2>2 DEF d
<1>11. CASE ~Tiff(c) /\ EndsFile(c, m) /\ c.pos = pages /\ (EndsFax(m, d) \/ GoesOn(m, d))
  <2>1. /\ SameFax(c, m) /\ m.open = c.open /\ m.cur = c.cur /\ m.err = c.err
        /\ c.pos = pages /\ ~Adds(c)
    BY <1>11 DEF EndsFile, Adds
  <2>2. c.pos + (IF Adds(c) THEN 1 ELSE 0) = pages
    BY <2>1, <1>2
  <2> QED
    BY <1>9, <1>11, <2>1, <2>2 DEF d
<1> QED
  BY <1>1, <1>8, <1>10, <1>11 DEF Turn, d

-----------------------------------------------------------------------------
(* A block                                                                 *)

LEMMA SendSFFIs ==
  ASSUME NEW c, Conversion(c)
  PROVE  LET d == SendSFF(c)
         IN  /\ SameFax(c, d) /\ d.err = "Okay" /\ d.pages = c.pages
             /\ d.fine = c.fine /\ d.open = c.open /\ d.pos = c.pos /\ d.cur = c.cur
             /\ d.finished = IF c.finished = 1 /\ d.filter = <<>> THEN 2 ELSE c.finished
             /\ \E k \in 0 .. Len(c.filter) : Cut(c.filter, k, Out(c), d.filter)
             /\ Out(c) \in Seq(Chunks)
<1> DEFINE k == IF Len(c.filter) < BlockSize THEN Len(c.filter) ELSE BlockSize
           rest == SubSeq(c.filter, k + 1, Len(c.filter))
           ready == IF c.finished = 1 /\ rest = <<>> THEN 2 ELSE c.finished
           d == SendSFF(c)
<1>1. c.filter \in Seq(Chunks) /\ c.finished \in {0, 1, 2} /\ Len(c.filter) \in Nat
  BY LenProperties DEF Conversion
<1>2. k \in 0 .. Len(c.filter)
  BY <1>1, FaxFilesAssumption
<1>3. Out(c) = SubSeq(c.filter, 1, k)
  BY DEF Out
<1> HIDE DEF k
<1>4. Cut(c.filter, k, Out(c), rest)
  BY <1>3 DEF Cut
<1>5. Out(c) \in Seq(Chunks) /\ rest \in Seq(Chunks) /\ Len(Out(c)) = k
  <2> HIDE DEF rest
  <2> QED
    BY <1>1, <1>2, <1>4, CutElements
<1>6. d = [c EXCEPT !.filter = rest, !.err = "Okay", !.finished = ready]
  BY <1>5 DEF SendSFF, Conversion
<1>7. ready \in {0, 1, 2}
  BY <1>1
<1> HIDE DEF rest, ready, d
<1>8. Conversion(d)
  BY <1>5, <1>6, <1>7 DEF Conversion
<1>9. SameFax(c, d) /\ d.err = "Okay" /\ d.pages = c.pages
      /\ d.fine = c.fine /\ d.open = c.open /\ d.pos = c.pos /\ d.cur = c.cur
      /\ d.finished = ready /\ d.filter = rest
  BY <1>6, <1>8 DEF Conversion, SameFax
<1> QED
  BY <1>2, <1>4, <1>5, <1>9 DEF ready, d

LEMMA ReadSFFIs ==
  ASSUME NEW c, Conversion(c), c.finished = 0, ~ReadFails(c)
  PROVE  LET r == ReadSFF(c)
         IN  /\ SameFax(c, r.fx) /\ r.fx.err = c.err /\ r.fx.open = c.open
             /\ r.fx.cur = c.cur /\ r.fx.filter = c.filter /\ r.fx.pages = c.pages
             /\ \/ AtEnd(c) /\ r.fx.finished = 2 /\ r.out = <<>>
                \/ /\ ~AtEnd(c) /\ r.fx.finished = 0 /\ r.fx.pos = c.pos + 1
                   /\ r.out = <<Chunk(c)>>
<1> DEFINE p == c.pos + 1
           ended == [c EXCEPT !.finished = 2]
           on == [c EXCEPT !.pos = p]
           r == ReadSFF(c)
<1>1. r = IF AtEnd(c) THEN [fx |-> ended, out |-> <<>>]
          ELSE [fx |-> on, out |-> <<Chunk(c)>>]
  BY DEF ReadSFF, Conversion
<1>2. p \in Nat
  BY DEF Conversion
<1> HIDE DEF p
<1>5. Conversion(ended)
  BY DEF Conversion
<1>6. Conversion(on)
  BY <1>2 DEF Conversion
<1>3. Conversion(ended) /\ Conversion(on)
  BY <1>5, <1>6
<1>4. /\ SameFax(c, ended) /\ SameFax(c, on)
      /\ ended.err = c.err /\ ended.open = c.open /\ ended.cur = c.cur /\ ended.filter = c.filter
      /\ ended.pages = c.pages /\ ended.finished = 2
      /\ on.err = c.err /\ on.open = c.open /\ on.cur = c.cur /\ on.filter = c.filter
      /\ on.pages = c.pages /\ on.finished = 0 /\ on.pos = p
  BY <1>3 DEF Conversion, SameFax
<1> HIDE DEF ended, on, r
<1>7. CASE AtEnd(c)
  <2>1. r.fx = ended /\ r.out = <<>>
    BY <1>1, <1>7
  <2> QED
    BY <2>1, <1>4, <1>7 DEF r
<1>8. CASE ~AtEnd(c)
  <2>1. r.fx = on /\ r.out = <<Chunk(c)>>
    BY <1>1, <1>8
  <2> QED
    BY <2>1, <1>4, <1>8 DEF r, p
<1> QED
  BY <1>7, <1>8

-----------------------------------------------------------------------------
(* The invariant                                                           *)

Sender ==
  [exitState : 0 .. 13, poll : BOOLEAN, commID : Nat, log : BOOLEAN,
   sending : BOOLEAN, posts : Nat]

QFile == [status : Nat, returned : Nat, dials : Nat, tries : Nat, npages : Nat]

Connection ==
  [queue : Seq(Seq(Chunks)), far : Seq(Chunks), hang : {"no", "normal", "fast"},
   doc : Nat \ {0}, got : Nat, told : BOOLEAN]

Ending ==
  [exitState : 0 .. 13, far : Seq(Chunks), told : BOOLEAN, polled : BOOLEAN]

TypeOK ==
  /\ Conversion(fx)
  /\ fs \in Sender
  /\ pc \in {"next", "wait", "close", "end", "crash"}
  /\ \E r \in Runs : jobs = r.jobs /\ fx.format = r.format
  /\ n \in Nat \ {0}
  /\ pc \in {"wait", "close", "crash"} => n \in DOMAIN jobs
  /\ qfile \in [DOMAIN jobs -> QFile]
  /\ call \in {"idle", "setup", "connected", "closing", "reset"}
  /\ net \in Connection
  /\ done \in Seq(Ending) /\ Len(done) = n - 1 /\ n <= Len(jobs) + 1

(* The main thread and the CAPI thread: who may do what when.              *)
Threads ==
  /\ call # "idle" => pc \in {"wait", "crash"} /\ fs.posts = 0
  /\ pc = "wait" /\ call = "idle" => fs.posts = 1
  /\ pc \in {"next", "close", "end"} => fs.posts = 0
  /\ pc \in {"wait", "crash"} => fs.poll = Job.poll
  /\ fs.sending => call = "connected" /\ ~fs.poll
  /\ net.queue # <<>> => call = "connected" /\ ~fs.poll
  /\ fx.err # "Okay" => /\ fs.sending /\ Len(net.queue) < Window
                        /\ fx.finished < 2 /\ fx.format # "sff"
  /\ fx.err = "Crash" => pc = "crash"
  /\ call \in {"setup", "connected"} => ~net.told
  /\ call = "setup" => fs.exitState = 10 /\ net.hang = "no" /\ net.far = <<>>

(* What is closed when a call is over.                                     *)
Over == \/ call = "reset"
        \/ call = "idle" /\ (pc = "wait" \/ (pc = "close" /\ net.hang # "no"))

Closed ==
  Over => fx.open = 0 /\ ~fx.fd /\ fx.filter = <<>> /\ (fs.poll => fx.names = <<>>)

(* The stream of chunks: the far side, the blocks on their way, the filter *)
(* and, while there is more to read, the next page of the open file.       *)
Ordered ==
  /\ InOrder(net.far) /\ InOrder(fx.filter) /\ Precedes(net.far, fx.filter)
  /\ \A b \in DOMAIN net.queue :
       /\ InOrder(net.queue[b])
       /\ Precedes(net.far, net.queue[b])
       /\ Precedes(net.queue[b], fx.filter)
       /\ \A a \in 1 .. b - 1 : Precedes(net.queue[a], net.queue[b])

Sends == call \in {"setup", "connected"} /\ ~fs.poll

Reading ==
  Sends =>
    /\ fx.list = Job.files
    /\ fx.format = "sff" => fx.filter = <<>> /\ fx.finished # 1
    /\ fx.finished = 0 =>
         /\ Readable(fx)
         /\ Precedes(net.far, <<Chunk(fx)>>) /\ Precedes(fx.filter, <<Chunk(fx)>>)
         /\ \A b \in DOMAIN net.queue : Precedes(net.queue[b], <<Chunk(fx)>>)

(* A job that the known exceptions leave with no excuse.                   *)
Plain ==
  /\ ~Job.poll
  /\ \A f \in DOMAIN Job.files : Job.files[f].kind = "ok"
  /\ fx.format = "g3" => Len(Job.files) <= 2

PagesRead == ReadOf(Job, fx)

QueuePages(queue) == UNION {PagesOf(queue[b]) : b \in DOMAIN queue}

(* Of such a job every page that was read is somewhere in the stream.      *)
NothingLost ==
  Sends /\ Plain =>
    /\ PagesOf(net.far) \cup QueuePages(net.queue) \cup PagesOf(fx.filter) = PagesRead
    /\ fx.finished < 2 => /\ net.hang = "no" /\ fs.exitState # 0
                          /\ fx.err \in {"Okay", "Crash"}
    /\ fx.finished = 2 => net.hang = "normal" /\ fx.filter = <<>>
    /\ fx.finished = 0 => /\ fx.cur = After(fx, fx.open)
                          /\ fx.format = "g3" /\ pc # "crash" => fx.open = 1
    /\ Tiff(fx) => IsFiniteSet(PagesRead) /\ fx.pages = Cardinality(PagesRead)

(* What an okay stands for once CAPI has told the end of the connection.   *)
Told ==
  pc \in {"wait", "close"} /\ net.told /\ fs.exitState = 0 =>
    /\ Plain => /\ PagesOf(net.far) = Document(Job, fx.format)
                /\ Tiff(fx) => fx.pages = Cardinality(Document(Job, fx.format))
    /\ Job.poll => fx.recvState = 3

(* The first job finds no state of an earlier poll.                        *)
FirstPoll ==
  n = 1 =>
    /\ pc = "next" => fx.recvState = 0
    /\ pc \in {"wait", "close"} /\ Job.poll /\ fx.format # "g3" /\ fx.recvState = 3 =>
         net.got > net.doc

Undialled == HylaFAX => \A i \in n .. Len(jobs) : qfile[i].dials = 0

Results == OkayMeansDeliveredElse /\ QFileTellsResult

Inv ==
  /\ TypeOK /\ Threads /\ Closed /\ Ordered /\ Reading /\ NothingLost /\ Told
  /\ FirstPoll /\ Undialled /\ Results

-----------------------------------------------------------------------------
(* The steps of the main thread                                            *)

LEMMA JobIs ==
  ASSUME TypeOK
  PROVE  /\ jobs \in Seq(FaxJob) /\ DOMAIN jobs = 1 .. Len(jobs) /\ Len(jobs) \in Nat
         /\ \A i \in DOMAIN jobs :
              /\ jobs[i] \in FaxJob
              /\ Tiff(fx) => \A f \in DOMAIN jobs[i].files :
                   jobs[i].files[f].kind = "ok" => jobs[i].files[f].pages > 0
<1>1. PICK r \in Runs : jobs = r.jobs /\ fx.format = r.format
  BY DEF TypeOK
<1>2. r \in [format : Formats, jobs : Seq(FaxJob)]
  BY SendJobAssumption
<1>3. jobs \in Seq(FaxJob)
  BY <1>1, <1>2
<1>4. DOMAIN jobs = 1 .. Len(jobs) /\ Len(jobs) \in Nat /\ \A i \in DOMAIN jobs : jobs[i] \in FaxJob
  BY <1>3, ElementOfSeq, LenProperties
<1>5. Tiff(fx) => \A i \in DOMAIN jobs : \A f \in DOMAIN jobs[i].files :
                   jobs[i].files[f].kind = "ok" => jobs[i].files[f].pages > 0
  BY <1>1, SendJobAssumption DEF Tiff
<1> QED
  BY <1>3, <1>4, <1>5

(* What is on record of earlier jobs stays while a job runs.               *)
LEMMA RecordStays ==
  ASSUME Inv, jobs' = jobs, n' = n, qfile' = qfile, done' = done, fx'.format = fx.format
  PROVE  Undialled' /\ Results'
<1>1. Undialled'
  BY DEF Inv, Undialled, HylaFAX
<1>2. \A i : Delivered(i)' = Delivered(i) /\ KnownFalseOkay(i)' = KnownFalseOkay(i)
  BY DEF Delivered, KnownFalseOkay
<1>3. OkayMeansDeliveredElse'
  BY <1>2 DEF Inv, Results, OkayMeansDeliveredElse
<1>4. QFileTellsResult'
  BY <1>2 DEF Inv, Results, QFileTellsResult, HylaFAX
<1> QED
  BY <1>1, <1>3, <1>4 DEF Results

LEMMA TypeStays ==
  ASSUME TypeOK, jobs' = jobs, n' = n, qfile' = qfile, done' = done,
         fx'.format = fx.format, Conversion(fx'), fs' \in Sender, net' \in Connection,
         call' \in {"idle", "setup", "connected", "closing", "reset"},
         pc' \in {"next", "wait", "close", "end", "crash"},
         pc' \in {"wait", "close", "crash"} => n \in DOMAIN jobs
  PROVE  TypeOK'
<1>1. \E r \in Runs : jobs' = r.jobs /\ fx'.format = r.format
  BY DEF TypeOK
<1> QED
  BY <1>1 DEF TypeOK

(* The set of pages that were read does not depend on where they are.      *)
LEMMA SameReading ==
  ASSUME jobs' = jobs, n' = n, fx'.format = fx.format
  PROVE  /\ (fx'.finished = fx.finished /\ fx'.open = fx.open /\ fx'.pos = fx.pos
               => PagesRead' = PagesRead)
         /\ Plain' = Plain
         /\ Job' = Job
<1>1. Plain' = Plain /\ Job' = Job
  BY DEF Plain, Job
<1>2. ASSUME fx'.finished = fx.finished, fx'.open = fx.open, fx'.pos = fx.pos
      PROVE  PagesRead' = PagesRead
  <2>1. ASSUME NEW q PROVE Before(q, Chunk(fx')) <=> Before(q, Chunk(fx))
    BY <1>2 DEF Before, Chunk
  <2> QED
    BY <1>1, <1>2, <2>1 DEF PagesRead, ReadOf
<1> QED
  BY <1>1, <1>2

LEMMA InitKeeps == Init => Inv
<1> SUFFICES ASSUME Init PROVE Inv
  OBVIOUS
<1>1. PICK r \in Runs :
        /\ fx = NewFax(r.format) /\ fs = NewFaxSend /\ pc = "next" /\ jobs = r.jobs
        /\ n = 1 /\ qfile = [i \in DOMAIN r.jobs |-> NewQFile] /\ call = "idle"
        /\ net = Net(1) /\ done = <<>>
  BY DEF Init
<1>2. r \in [format : Formats, jobs : Seq(FaxJob)]
  BY SendJobAssumption
<1>3. Len(jobs) \in Nat /\ DOMAIN jobs = 1 .. Len(jobs)
  BY <1>1, <1>2, LenProperties
<1>4. Conversion(fx) /\ fx.format = r.format /\ fx.filter = <<>> /\ fx.err = "Okay"
      /\ fx.recvState = 0
  <2> DEFINE f == r.format
             none == <<>>
             c == [format |-> f, list |-> none, cur |-> 0, open |-> 0, pos |-> 0,
                   filter |-> none, fine |-> FALSE, finished |-> 0, pages |-> 0, vres |-> 0,
                   err |-> "Okay", recvState |-> 0, fd |-> FALSE, names |-> none, nr |-> 0]
  <2>1. f \in Formats /\ none \in Seq(FaxFile) /\ none \in Seq(Chunks)
    BY <1>2
  <2>2. fx = c
    BY <1>1 DEF NewFax
  <2> HIDE DEF f, none
  <2>3. Conversion(c)
    BY <2>1 DEF Conversion
  <2> QED
    BY <2>2, <2>3 DEF f, none
<1>5. net \in Connection /\ net.queue = <<>> /\ net.far = <<>>
  <2> DEFINE none == <<>>
             c == [queue |-> none, far |-> none, hang |-> "no", doc |-> 1, got |-> 0,
                   told |-> FALSE]
  <2>1. none \in Seq(Seq(Chunks)) /\ none \in Seq(Chunks)
    OBVIOUS
  <2>2. net = c
    BY <1>1 DEF Net
  <2> HIDE DEF none
  <2>3. c \in Connection
    BY <2>1 DEF Connection
  <2> QED
    BY <2>2, <2>3 DEF none
<1>6. fs \in Sender /\ fs.posts = 0 /\ ~fs.sending
  BY <1>1 DEF NewFaxSend, Sender
<1>7. qfile \in [DOMAIN jobs -> QFile] /\ \A i \in DOMAIN jobs : qfile[i].dials = 0
  BY <1>1 DEF NewQFile, QFile
<1>8. done \in Seq(Ending) /\ Len(done) = 0 /\ DOMAIN done = {}
  BY <1>1
<1>9. TypeOK
  BY <1>1, <1>3, <1>4, <1>5, <1>6, <1>7, <1>8 DEF TypeOK
<1>10. Threads
  BY <1>1, <1>4, <1>5, <1>6 DEF Threads
<1>11. Closed /\ Reading /\ NothingLost /\ Told /\ FirstPoll
  BY <1>1, <1>4 DEF Closed, Over, Reading, NothingLost, Sends, Told, FirstPoll
<1>12. Ordered
  BY <1>4, <1>5 DEF Ordered, InOrder, Precedes
<1>13. Undialled /\ Results
  BY <1>1, <1>3, <1>7, <1>8 DEF Undialled, Results, OkayMeansDeliveredElse, QFileTellsResult
<1> QED
  BY <1>9, <1>10, <1>11, <1>12, <1>13 DEF Inv

(* The main thread wakes up once the call has been taken down.             *)
LEMMA AwakesKeeps ==
  ASSUME Inv, Awakes
  PROVE  Inv'
<1>1. /\ pc = "wait" /\ fs.posts > 0 /\ pc' = "close"
      /\ fs' = [fs EXCEPT !.posts = @ - 1]
      /\ UNCHANGED <<fx, jobs, n, qfile, call, net, done>>
  BY DEF Awakes
<1>2. fs \in Sender /\ call = "idle" /\ fs.posts = 1
  BY <1>1 DEF Inv, TypeOK, Threads
<1>3. fs' \in Sender /\ fs'.posts = 0 /\ fs'.exitState = fs.exitState
      /\ fs'.poll = fs.poll /\ fs'.sending = fs.sending
  BY <1>1, <1>2 DEF Sender
<1>4. TypeOK'
  <2>1. n \in DOMAIN jobs /\ TypeOK
    BY <1>1 DEF Inv, TypeOK
  <2> QED
    BY <1>1, <1>3, <2>1, TypeStays DEF TypeOK
<1>5. Threads'
  BY <1>1, <1>2, <1>3 DEF Inv, Threads, Job
<1>6. Closed'
  BY <1>1, <1>2, <1>3 DEF Inv, Closed, Over
<1>7. Ordered' /\ Reading' /\ NothingLost' /\ FirstPoll'
  BY <1>1, <1>2 DEF Inv, Ordered, Reading, NothingLost, Sends, FirstPoll, Job
<1>8. Told'
  BY <1>1, <1>3 DEF Inv, Told, Plain, Job
<1> QED
  BY <1>1, <1>4, <1>5, <1>6, <1>7, <1>8, RecordStays DEF Inv

LEMMA EndsProgramKeeps ==
  ASSUME Inv, EndsProgram
  PROVE  Inv'
<1>1. /\ pc = "next" /\ pc' = "end"
      /\ UNCHANGED <<fx, fs, jobs, n, qfile, call, net, done>>
  BY DEF EndsProgram
<1>2. call = "idle"
  BY <1>1 DEF Inv, TypeOK, Threads
<1>3. TypeOK'
  BY <1>1, TypeStays DEF Inv, TypeOK
<1>4. Threads'
  BY <1>1, <1>2 DEF Inv, Threads, Job
<1>5. Closed' /\ Told' /\ FirstPoll' /\ Reading' /\ NothingLost'
  BY <1>1, <1>2 DEF Closed, Over, Told, FirstPoll, Reading, NothingLost, Sends
<1>6. Ordered'
  BY <1>1 DEF Inv, Ordered
<1> QED
  BY <1>1, <1>3, <1>4, <1>5, <1>6, RecordStays DEF Inv

(* IsReseted: the post that the main thread waits for.                     *)
LEMMA IsResetedKeeps ==
  ASSUME Inv, IsReseted
  PROVE  Inv'
<1>1. /\ call = "reset" /\ call' = "idle" /\ ~fs.sending /\ pc # "crash"
      /\ fs' = [fs EXCEPT !.log = FALSE, !.posts = @ + 1]
      /\ UNCHANGED <<fx, pc, jobs, n, qfile, net, done>>
  BY DEF IsReseted, CapiIdle
<1>2. fs \in Sender /\ pc = "wait" /\ fs.posts = 0
  BY <1>1 DEF Inv, TypeOK, Threads
<1>3. fs' \in Sender /\ fs'.posts = 1 /\ fs'.exitState = fs.exitState
      /\ fs'.poll = fs.poll /\ fs'.sending = fs.sending
  <2>1. fs' = [fs EXCEPT !.log = FALSE, !.posts = 1]
    BY <1>1, <1>2 DEF Sender
  <2> QED
    BY <1>2, <2>1 DEF Sender
<1>4. TypeOK'
  BY <1>1, <1>3, TypeStays DEF Inv, TypeOK
<1>5. Threads'
  BY <1>1, <1>2, <1>3 DEF Inv, Threads, Job
<1>6. Closed'
  BY <1>1, <1>2, <1>3 DEF Inv, Closed, Over
<1>7. Ordered' /\ Reading' /\ NothingLost' /\ FirstPoll'
  BY <1>1, <1>2 DEF Inv, Ordered, Reading, NothingLost, Sends, FirstPoll, Job
<1>8. Told'
  BY <1>1, <1>3 DEF Inv, Told, Plain, Job
<1> QED
  BY <1>1, <1>4, <1>5, <1>6, <1>7, <1>8, RecordStays DEF Inv

(* SendData returns to the CAPI thread.                                    *)
LEMMA LeavesSendDataKeeps ==
  ASSUME Inv, LeavesSendData
  PROVE  Inv'
<1>1. /\ fs.sending /\ pc # "crash"
      /\ fx.finished = 2 \/ Len(net.queue) = Window
      /\ fs' = [fs EXCEPT !.sending = FALSE]
      /\ UNCHANGED <<fx, pc, jobs, n, qfile, call, net, done>>
  BY DEF LeavesSendData
<1>2. fs \in Sender /\ pc = "wait" /\ call = "connected"
  BY <1>1 DEF Inv, TypeOK, Threads
<1>3. fs' \in Sender /\ fs'.posts = fs.posts /\ fs'.exitState = fs.exitState
      /\ fs'.poll = fs.poll /\ ~fs'.sending
  BY <1>1, <1>2 DEF Sender
<1>4. TypeOK'
  BY <1>1, <1>3, TypeStays DEF Inv, TypeOK
<1>5. fx.err = "Okay"
  <2>1. fx.err # "Okay" => Len(net.queue) < Window /\ fx.finished < 2
    BY DEF Inv, Threads
  <2>2. Len(net.queue) \in Nat /\ Window \in Nat
    BY SendJobAssumption, LenProperties DEF Inv, TypeOK, Connection
  <2> QED
    BY <1>1, <2>1, <2>2
<1>6. Threads'
  BY <1>1, <1>2, <1>3, <1>5 DEF Inv, Threads, Job
<1>7. Closed'
  BY <1>1, <1>2 DEF Closed, Over
<1>8. Ordered' /\ FirstPoll'
  BY <1>1 DEF Inv, Ordered, FirstPoll, Job
<1>9. Reading'
  BY <1>1, <1>3 DEF Inv, Reading, Sends, Job
<1>10. NothingLost' /\ Told'
  BY <1>1, <1>3 DEF Inv, NothingLost, Sends, Told, Plain, Job, PagesRead
<1> QED
  BY <1>1, <1>4, <1>6, <1>7, <1>8, <1>9, <1>10, RecordStays DEF Inv

(* StartsJob: a fresh connection, and for a call that is dialled the       *)
(* conversion at the first page of the job's first file.                   *)
LEMMA HylaExitStateIs ==
  ASSUME NEW e \in 0 .. 13
  PROVE  HylaExitState(e) \in {0, 1, 2, 3}
BY DEF HylaExitState

LEMMA SessionIs ==
  ASSUME TypeOK, n \in DOMAIN jobs, NEW commID \in Nat
  PROVE  LET s == OneSendSession(commID)
         IN  /\ Conversion(s.fx) /\ s.fx.format = fx.format
             /\ s.fx.recvState = fx.recvState /\ s.fx.err = fx.err
             /\ InOrder(fx.filter) => InOrder(s.fx.filter)
             /\ s.fs \in Sender /\ s.fs.posts = fs.posts /\ s.fs.sending = fs.sending
             /\ s.fs.exitState \in {0, 1, 10, 13}
             /\ s.fs.exitState = 10 =>
                  /\ s.fs.poll = Job.poll
                  /\ ~Job.poll =>
                       /\ s.fx.list = Job.files /\ Job.files # <<>> /\ s.fx.filter = <<>>
                       /\ s.fx.finished = 0 /\ s.fx.pages = 0 /\ s.fx.open = 1
                       /\ s.fx.pos = 0 /\ s.fx.cur = After(s.fx, 1)
                       /\ Tiff(fx) => Job.files[1].kind = "ok"
<1> DEFINE refused == Job.number = "none" \/ (Job.files = <<>> /\ ~Job.poll)
           send == [fs EXCEPT !.poll = Job.poll, !.commID = commID]
           o == OpenSend(fx, Job.files, Job.res)
           r == IF Job.poll THEN [fx |-> fx, exitState |-> 10] ELSE Opened(o)
           s == OneSendSession(commID)
<1>1. /\ Conversion(fx) /\ fs \in Sender /\ Job \in FaxJob
      /\ Job.files \in Seq(FaxFile) /\ Job.poll \in BOOLEAN /\ Job.res \in Nat
  <2>1. Job \in FaxJob /\ Conversion(fx) /\ fs \in Sender
    BY JobIs DEF TypeOK, Job
  <2> QED
    BY <2>1 DEF FaxJob
<1>2. \/ s = [fx |-> fx, fs |-> [fs EXCEPT !.exitState = 13]]
      \/ s = [fx |-> fx, fs |-> [fs EXCEPT !.exitState = 13, !.poll = TRUE]]
      \/ s = [fx |-> fx, fs |-> [send EXCEPT !.exitState = 0]]
      \/ ~refused /\ s = [fx |-> r.fx, fs |-> [send EXCEPT !.exitState = r.exitState]]
  BY DEF OneSendSession
<1>4. /\ send \in Sender /\ send.posts = fs.posts /\ send.sending = fs.sending
      /\ send.poll = Job.poll
  BY <1>1 DEF Sender
<1>6. CASE s = [fx |-> fx, fs |-> [fs EXCEPT !.exitState = 13]]
  <2>1. s.fx = fx /\ s.fs = [fs EXCEPT !.exitState = 13] /\ 13 \in 0 .. 13
    BY <1>6
  <2> HIDE DEF s
  <2>2. s.fs \in Sender /\ s.fs.posts = fs.posts /\ s.fs.sending = fs.sending
        /\ s.fs.exitState = 13
    BY <1>1, <2>1 DEF Sender
  <2> QED
    BY <1>1, <2>1, <2>2 DEF s
<1>7. CASE s = [fx |-> fx, fs |-> [fs EXCEPT !.exitState = 13, !.poll = TRUE]]
  <2>1. s.fx = fx /\ s.fs = [fs EXCEPT !.exitState = 13, !.poll = TRUE] /\ 13 \in 0 .. 13
    BY <1>7
  <2> HIDE DEF s
  <2>2. s.fs \in Sender /\ s.fs.posts = fs.posts /\ s.fs.sending = fs.sending
        /\ s.fs.exitState = 13
    BY <1>1, <2>1 DEF Sender
  <2> QED
    BY <1>1, <2>1, <2>2 DEF s
<1>8. CASE s = [fx |-> fx, fs |-> [send EXCEPT !.exitState = 0]]
  <2>1. s.fx = fx /\ s.fs = [send EXCEPT !.exitState = 0] /\ 0 \in 0 .. 13
    BY <1>8
  <2> HIDE DEF s, send
  <2>2. s.fs \in Sender /\ s.fs.posts = fs.posts /\ s.fs.sending = fs.sending
        /\ s.fs.exitState = 0
    BY <1>4, <2>1 DEF Sender
  <2> QED
    BY <1>1, <2>1, <2>2 DEF s
<1>9. ASSUME ~refused, s = [fx |-> r.fx, fs |-> [send EXCEPT !.exitState = r.exitState]],
             Job.poll
      PROVE  /\ s.fx = fx /\ s.fs \in Sender /\ s.fs.posts = fs.posts
             /\ s.fs.sending = fs.sending /\ s.fs.exitState = 10 /\ s.fs.poll = Job.poll
  <2>1. s.fx = fx /\ s.fs = [send EXCEPT !.exitState = 10] /\ 10 \in 0 .. 13
    BY <1>9
  <2> HIDE DEF send, s
  <2> QED
    BY <1>4, <2>1 DEF Sender
<1>10. ASSUME ~refused, s = [fx |-> r.fx, fs |-> [send EXCEPT !.exitState = r.exitState]],
              ~Job.poll
       PROVE  /\ s.fx = o.fx /\ s.fs \in Sender /\ s.fs.posts = fs.posts
              /\ s.fs.sending = fs.sending /\ s.fs.exitState \in {0, 1, 10}
              /\ s.fs.exitState = 10 => o.ret = "Okay"
              /\ s.fs.poll = Job.poll
              /\ Opens(fx, Job.files, o) /\ Job.files # <<>>
  <2>1. Job.files # <<>> /\ Opens(fx, Job.files, o)
    BY <1>1, <1>10, OpenSendIs
  <2> DEFINE e == CASE o.ret = "Okay" -> 10 [] o.ret = "NotExist" -> 1 [] OTHER -> 0
  <2>2. e \in {0, 1, 10} /\ (e = 10 => o.ret = "Okay")
    BY <2>1 DEF Opens
  <2> HIDE DEF e
  <2>3. s.fx = o.fx /\ s.fs = [send EXCEPT !.exitState = e]
    <3> HIDE DEF o
    <3> QED
      BY <1>10 DEF Opened, e
  <2>4. e \in 0 .. 13
    BY <2>2
  <2> HIDE DEF send, s, o
  <2>5. s.fs \in Sender /\ s.fs.posts = fs.posts /\ s.fs.sending = fs.sending
        /\ s.fs.exitState = e /\ s.fs.poll = Job.poll
    BY <1>4, <2>3, <2>4 DEF Sender
  <2> QED
    BY <2>1, <2>2, <2>3, <2>5
<1>11. CASE ~refused /\ s = [fx |-> r.fx, fs |-> [send EXCEPT !.exitState = r.exitState]]
  <2>1. CASE Job.poll
    <3>1. /\ s.fx = fx /\ s.fs \in Sender /\ s.fs.posts = fs.posts
          /\ s.fs.sending = fs.sending /\ s.fs.exitState = 10 /\ s.fs.poll = Job.poll
      BY <1>9, <1>11, <2>1
    <3> HIDE DEF s
    <3> QED
      BY <1>1, <2>1, <3>1 DEF s
  <2>2. CASE ~Job.poll
    <3>1. /\ s.fx = o.fx /\ s.fs \in Sender /\ s.fs.posts = fs.posts
          /\ s.fs.sending = fs.sending /\ s.fs.exitState \in {0, 1, 10}
          /\ s.fs.exitState = 10 => o.ret = "Okay"
          /\ s.fs.poll = Job.poll
          /\ Opens(fx, Job.files, o) /\ Job.files # <<>>
      BY <1>10, <1>11, <2>2
    <3> HIDE DEF s, o
    <3>3. InOrder(s.fx.filter)
      BY <3>1 DEF Opens, InOrder
    <3>4. s.fs.exitState = 10 =>
                       /\ s.fx.list = Job.files /\ s.fx.filter = <<>>
                       /\ s.fx.finished = 0 /\ s.fx.pages = 0 /\ s.fx.open = 1
                       /\ s.fx.pos = 0 /\ s.fx.cur = After(s.fx, 1)
                       /\ Tiff(fx) => Job.files[1].kind = "ok"
      BY <3>1 DEF Opens
    <3> QED
      BY <2>2, <3>1, <3>3, <3>4 DEF Opens, s
  <2> QED
    BY <2>1, <2>2
<1> QED
  BY <1>2, <1>6, <1>7, <1>8, <1>11

(* w is the qfile q with a result written into it.                         *)
Written(q, w, e, v) ==
  /\ w \in QFile /\ w.status = e /\ w.returned = v /\ w.npages = fx.pages
  /\ w.dials = q.dials + (IF e = 255 THEN 0 ELSE 1)

LEMMA WriteQFileIs ==
  ASSUME TypeOK, NEW q \in QFile, NEW e \in 0 .. 13 \cup {255}, NEW v \in Nat
  PROVE  Written(q, WriteQFile(q, e, v), e, v)
<1> DEFINE a == IF e = 255 THEN 0 ELSE 1
           b == IF e \in {0, 7, 12} THEN 1 ELSE 0
           d == q.dials + a
           t == q.tries + b
           w == WriteQFile(q, e, v)
<1>1. w = [q EXCEPT !.returned = v, !.status = e, !.npages = fx.pages,
                    !.dials = q.dials + a, !.tries = q.tries + b]
  <2> HIDE DEF a, b
  <2>1. WriteQFile(q, e, v) = [q EXCEPT !.returned = v, !.status = e, !.npages = fx.pages,
                                        !.dials = @ + a, !.tries = @ + b]
    BY DEF WriteQFile, a, b
  <2> QED
    BY <2>1 DEF QFile
<1>2. d \in Nat /\ t \in Nat /\ fx.pages \in Nat /\ e \in Nat
  <2>1. q.dials \in Nat /\ q.tries \in Nat
    BY DEF QFile
  <2>2. fx.pages \in Nat
    BY DEF TypeOK, Conversion
  <2> QED
    BY <2>1, <2>2
<1>3. w = [q EXCEPT !.returned = v, !.status = e, !.npages = fx.pages,
                    !.dials = d, !.tries = t]
  BY <1>1
<1> HIDE DEF t, d, w
<1>4. w \in QFile /\ w.status = e /\ w.returned = v /\ w.npages = fx.pages /\ w.dials = d
  BY <1>2, <1>3 DEF QFile
<1> QED
  BY <1>4 DEF d, w, Written

LEMMA NetIs ==
  ASSUME NEW doc \in Nat \ {0}
  PROVE  /\ Net(doc) \in Connection /\ Net(doc).queue = <<>> /\ Net(doc).far = <<>>
         /\ Net(doc).hang = "no" /\ ~Net(doc).told
<1> DEFINE none == <<>>
           c == [queue |-> none, far |-> none, hang |-> "no", doc |-> doc, got |-> 0,
                 told |-> FALSE]
<1>1. none \in Seq(Seq(Chunks)) /\ none \in Seq(Chunks)
  OBVIOUS
<1>2. Net(doc) = c
  BY DEF Net
<1> HIDE DEF none
<1>3. c \in Connection
  BY <1>1 DEF Connection
<1> QED
  BY <1>2, <1>3 DEF none

(* Nothing has been read at the first page of the first file.              *)
LEMMA NothingRead ==
  ASSUME NEW job, job.files \in Seq(FaxFile), NEW c, Conversion(c),
         c.finished = 0, c.open = 1, c.pos = 0
  PROVE  ReadOf(job, c) = {}
<1>1. Chunk(c)[1] = 1 /\ Chunk(c)[2] = 1
  BY ChunkIs
<1>2. ASSUME NEW q \in Document(job, c.format) PROVE ~Before(q, Chunk(c))
  <2>1. q[1] \in Nat \ {0} /\ q[2] \in Nat \ {0}
    BY PageIs
  <2> QED
    BY <1>1, <2>1 DEF Before
<1> QED
  BY <1>2 DEF ReadOf

LEMMA StartsJobKeeps ==
  ASSUME Inv, StartsJob
  PROVE  Inv'
<1>1. /\ TypeOK /\ pc = "next" /\ call = "idle" /\ fs.posts = 0 /\ ~fs.sending
      /\ fx.err = "Okay" /\ InOrder(fx.filter)
  BY DEF Inv, StartsJob, TypeOK, Threads, Ordered
<1>2. n \in DOMAIN jobs /\ n \in Nat
  BY JobIs DEF StartsJob, Inv, TypeOK
<1>3. PICK commID \in Nat, doc \in Docs :
        LET s == OneSendSession(commID) IN
        /\ fx' = s.fx /\ fs' = s.fs
        /\ pc' = IF s.fs.exitState = 10 THEN "wait" ELSE "close"
        /\ call' = IF s.fs.exitState = 10 THEN "setup" ELSE "idle"
        /\ net' = Net(doc)
  <2>1. (IF HylaFAX THEN {0, n} ELSE {0}) \subseteq Nat
    BY <1>2
  <2> QED
    BY <2>1 DEF StartsJob
<1>4. /\ jobs' = jobs /\ n' = n /\ done' = done
      /\ qfile' = IF HylaFAX THEN [qfile EXCEPT ![n] = WriteQFile(@, 255, 0)] ELSE qfile
  BY DEF StartsJob
<1> DEFINE dials == fs'.exitState = 10
<1>5. /\ Conversion(fx') /\ fx'.format = fx.format /\ fx'.recvState = fx.recvState
      /\ fx'.err = "Okay" /\ InOrder(fx'.filter)
      /\ fs' \in Sender /\ fs'.posts = 0 /\ ~fs'.sending
      /\ dials => fs'.poll = Job.poll
      /\ dials /\ ~Job.poll =>
           /\ fx'.list = Job.files /\ Job.files # <<>> /\ fx'.filter = <<>>
           /\ fx'.finished = 0 /\ fx'.pages = 0 /\ fx'.open = 1
           /\ fx'.pos = 0 /\ fx'.cur = After(fx', 1)
           /\ Tiff(fx) => Job.files[1].kind = "ok"
      /\ pc' = (IF dials THEN "wait" ELSE "close")
      /\ call' = (IF dials THEN "setup" ELSE "idle")
  BY <1>1, <1>2, <1>3, SessionIs
<1>6. /\ net' \in Connection /\ net'.queue = <<>> /\ net'.far = <<>>
      /\ net'.hang = "no" /\ ~net'.told
  BY <1>3, NetIs, SendJobAssumption
<1> HIDE DEF dials
<1>7. Job' = Job /\ Job \in FaxJob /\ Job.files \in Seq(FaxFile)
  <2>1. Job' = Job /\ Job \in FaxJob
    BY <1>1, <1>2, <1>4, JobIs DEF Job
  <2> QED
    BY <2>1 DEF FaxJob
<1>8. /\ qfile' \in [DOMAIN jobs -> QFile]
      /\ \A i \in DOMAIN jobs : i # n => qfile'[i] = qfile[i]
      /\ qfile'[n].dials = qfile[n].dials
  <2>1. qfile \in [DOMAIN jobs -> QFile] /\ qfile[n] \in QFile
    BY <1>1, <1>2 DEF TypeOK
  <2> DEFINE w == WriteQFile(qfile[n], 255, 0)
  <2>2. w \in QFile /\ w.dials = qfile[n].dials
    <3>1. 255 \in 0 .. 13 \cup {255} /\ 0 \in Nat
      OBVIOUS
    <3>2. Written(qfile[n], w, 255, 0)
      BY <1>1, <2>1, <3>1, WriteQFileIs
    <3>3. qfile[n].dials \in Nat
      BY <2>1 DEF QFile
    <3> HIDE DEF w
    <3> QED
      BY <3>2, <3>3 DEF Written
  <2> HIDE DEF w
  <2>3. qfile' = IF HylaFAX THEN [qfile EXCEPT ![n] = w] ELSE qfile
    BY <1>4 DEF w
  <2> QED
    BY <1>2, <2>1, <2>2, <2>3
<1>9. TypeOK'
  <2>1. \E r \in Runs : jobs' = r.jobs /\ fx'.format = r.format
    BY <1>1, <1>4, <1>5 DEF TypeOK
  <2> QED
    BY <1>1, <1>2, <1>4, <1>5, <1>6, <1>8, <2>1 DEF TypeOK
<1>10. Threads'
  BY <1>5, <1>6, <1>7 DEF Threads, dials
<1>11. Closed' /\ Told'
  BY <1>5, <1>6 DEF Closed, Over, Told
<1>12. Ordered'
  BY <1>5, <1>6 DEF Ordered, Precedes, InOrder
<1>13. ASSUME Sends' PROVE dials /\ ~Job.poll
  BY <1>5, <1>13 DEF Sends
<1>14. Reading'
  <2> SUFFICES ASSUME Sends' PROVE Reading'
    BY DEF Reading
  <2>1. /\ fx'.list = Job.files /\ fx'.filter = <<>> /\ fx'.finished = 0 /\ Job.files # <<>>
        /\ fx'.open = 1 /\ fx'.pos = 0 /\ fx'.cur = After(fx', 1)
        /\ Tiff(fx) => Job.files[1].kind = "ok"
    BY <1>5, <1>13
  <2>2. 1 \in DOMAIN Job.files /\ DOMAIN Job.files = 1 .. Len(Job.files)
    BY <1>7, <2>1, EmptySeq, LenProperties
  <2>3. Job.files[1].pages \in Nat
    <3>1. Job.files[1] \in FaxFile
      BY <1>7, <2>2, ElementOfSeq
    <3> QED
      BY <3>1 DEF FaxFile
  <2>4. Tiff(fx) => Job.files[1].pages > 0
    BY <1>1, <1>2, <2>1, <2>2, JobIs DEF Job
  <2>5. fx'.cur # 0 => fx'.cur \in DOMAIN fx'.list /\ fx'.cur = 2
    BY <1>5, <2>1, AfterIs
  <2>6. Tiff(fx') = Tiff(fx)
    BY <1>5 DEF Tiff
  <2>7. Readable(fx')
    BY <2>1, <2>2, <2>3, <2>4, <2>5, <2>6 DEF Readable
  <2> QED
    BY <1>6, <1>7, <2>1, <2>7 DEF Reading, Precedes
<1>15. NothingLost'
  <2> SUFFICES ASSUME Sends' PROVE NothingLost'
    BY DEF NothingLost
  <2>1. /\ fx'.filter = <<>> /\ fx'.finished = 0 /\ fx'.pages = 0
        /\ fx'.open = 1 /\ fx'.pos = 0 /\ fx'.cur = After(fx', 1) /\ fs'.exitState = 10
    BY <1>5, <1>13 DEF dials
  <2>2. PagesRead' = {}
    BY <1>5, <1>7, <2>1, NothingRead DEF PagesRead
  <2>3. PagesOf(net'.far) = {} /\ PagesOf(fx'.filter) = {} /\ QueuePages(net'.queue) = {}
    BY <1>6, <2>1, PagesOfEmpty DEF QueuePages
  <2>4. IsFiniteSet({}) /\ Cardinality({}) = 0
    BY FS_EmptySet
  <2> QED
    BY <1>5, <1>6, <2>1, <2>2, <2>3, <2>4 DEF NothingLost
<1>16. FirstPoll'
  BY <1>1, <1>4, <1>5 DEF Inv, FirstPoll
<1>17. Undialled'
  BY <1>1, <1>2, <1>4, <1>5, <1>8, JobIs DEF Inv, Undialled, HylaFAX
<1>18. Results'
  <2>1. \A i : Delivered(i)' = Delivered(i) /\ KnownFalseOkay(i)' = KnownFalseOkay(i)
    BY <1>4, <1>5 DEF Delivered, KnownFalseOkay
  <2>2. \A i \in DOMAIN done : qfile'[i] = qfile[i]
    <3>1. DOMAIN done = 1 .. n - 1
      BY <1>1, LenProperties DEF TypeOK
    <3>2. DOMAIN jobs = 1 .. Len(jobs) /\ Len(jobs) \in Nat /\ n <= Len(jobs)
      BY <1>1, <1>2, JobIs
    <3> QED
      BY <1>2, <1>8, <3>1, <3>2
  <2>3. OkayMeansDeliveredElse'
    BY <1>4, <2>1 DEF Inv, Results, OkayMeansDeliveredElse
  <2>4. QFileTellsResult'
    BY <1>4, <1>5, <2>1, <2>2 DEF Inv, Results, QFileTellsResult, HylaFAX
  <2> QED
    BY <2>3, <2>4 DEF Results
<1> QED
  BY <1>9, <1>10, <1>11, <1>12, <1>14, <1>15, <1>16, <1>17, <1>18 DEF Inv

(* EndsJob: the job goes on record, with what the qfile says of it.        *)
LEMMA EndsJobKeeps ==
  ASSUME Inv, EndsJob
  PROVE  Inv'
<1> DEFINE returned == HylaExitState(fs.exitState)
           polled == fx.recvState = 3 /\ net.got > net.doc
           d == [exitState |-> fs.exitState, far |-> net.far, told |-> net.told,
                 polled |-> polled]
<1>1. /\ TypeOK /\ pc = "close" /\ call = "idle" /\ fs.posts = 0 /\ ~fs.sending
      /\ fs \in Sender /\ fs.exitState \in 0 .. 13 /\ n \in DOMAIN jobs /\ n \in Nat \ {0}
      /\ net \in Connection /\ net.queue = <<>> /\ fx.err = "Okay"
  BY DEF Inv, EndsJob, TypeOK, Threads, Sender
<1>2. /\ fs' = [fs EXCEPT !.commID = 0, !.exitState = IF HylaFAX THEN returned ELSE @]
      /\ qfile' = IF HylaFAX
                  THEN [qfile EXCEPT ![n] = WriteQFile(@, fs.exitState, returned)]
                  ELSE qfile
      /\ done' = Append(done, d) /\ n' = n + 1 /\ pc' = "next"
      /\ UNCHANGED <<fx, jobs, call, net>>
  BY DEF EndsJob
<1>3. returned \in {0, 1, 2, 3}
  BY <1>1, HylaExitStateIs
<1> HIDE DEF returned
<1>4. fs' \in Sender /\ fs'.posts = 0 /\ ~fs'.sending
  <2> DEFINE e == IF HylaFAX THEN returned ELSE fs.exitState
  <2>1. e \in 0 .. 13 /\ fs' = [fs EXCEPT !.commID = 0, !.exitState = e]
    BY <1>1, <1>2, <1>3 DEF Sender
  <2> HIDE DEF e
  <2> QED
    BY <1>1, <2>1 DEF Sender
<1>5. d \in Ending /\ polled \in BOOLEAN
  <2>1. net.far \in Seq(Chunks) /\ net.told \in BOOLEAN
    BY <1>1 DEF Connection
  <2> HIDE DEF polled
  <2>2. polled \in BOOLEAN
    BY DEF polled
  <2> QED
    BY <1>1, <2>1, <2>2 DEF Ending
<1>6. /\ d.exitState = fs.exitState /\ d.far = net.far /\ d.told = net.told
      /\ d.polled = polled
  OBVIOUS
<1> HIDE DEF d, polled
<1>7. /\ done' \in Seq(Ending) /\ Len(done') = n /\ DOMAIN done = 1 .. n - 1
      /\ DOMAIN done' = 1 .. n /\ \A i \in DOMAIN done : done'[i] = done[i]
      /\ done'[n] = d
  <2>1. done \in Seq(Ending) /\ Len(done) = n - 1
    BY <1>1 DEF TypeOK
  <2> QED
    BY <1>1, <1>2, <1>5, <2>1, AppendProperties, LenProperties
<1>8. /\ qfile' \in [DOMAIN jobs -> QFile]
      /\ \A i \in DOMAIN jobs : i # n => qfile'[i] = qfile[i]
      /\ HylaFAX => /\ qfile'[n].status = fs.exitState /\ qfile'[n].returned = returned
                    /\ qfile'[n].npages = fx.pages /\ qfile'[n].dials = qfile[n].dials + 1
  <2>1. qfile \in [DOMAIN jobs -> QFile] /\ qfile[n] \in QFile
    BY <1>1 DEF TypeOK
  <2> DEFINE w == WriteQFile(qfile[n], fs.exitState, returned)
  <2>2. /\ w \in QFile /\ w.status = fs.exitState /\ w.returned = returned
        /\ w.npages = fx.pages /\ w.dials = qfile[n].dials + 1
    <3>1. fs.exitState # 255 /\ fs.exitState \in 0 .. 13 \cup {255} /\ returned \in Nat
      BY <1>1, <1>3
    <3>2. Written(qfile[n], w, fs.exitState, returned)
      BY <1>1, <2>1, <3>1, WriteQFileIs
    <3> HIDE DEF w
    <3> QED
      BY <3>1, <3>2 DEF Written
  <2> HIDE DEF w
  <2>3. qfile' = IF HylaFAX THEN [qfile EXCEPT ![n] = w] ELSE qfile
    BY <1>2 DEF w
  <2> QED
    BY <1>1, <2>1, <2>2, <2>3
<1>9. n <= Len(jobs) /\ DOMAIN jobs = 1 .. Len(jobs) /\ Len(jobs) \in Nat
  BY <1>1, JobIs
<1>20. PICK k \in Nat \ {0} : k = n
  BY <1>1
<1>10. TypeOK'
  BY <1>1, <1>2, <1>4, <1>7, <1>8, <1>9 DEF TypeOK
<1>11. Threads'
  BY <1>1, <1>2, <1>4 DEF Threads
<1>12. Closed' /\ Reading' /\ NothingLost' /\ Told' /\ FirstPoll'
  BY <1>1, <1>2 DEF Closed, Over, Reading, NothingLost, Sends, Told, FirstPoll
<1>13. Ordered'
  BY <1>2 DEF Inv, Ordered
<1>14. Undialled'
  BY <1>1, <1>2, <1>8, <1>9 DEF Inv, Undialled, HylaFAX
<1>15. ASSUME NEW i \in DOMAIN done
       PROVE  /\ Delivered(i)' = Delivered(i) /\ KnownFalseOkay(i)' = KnownFalseOkay(i)
              /\ qfile'[i] = qfile[i]
  <2>1. done'[i] = done[i] /\ i \in 1 .. n - 1
    BY <1>7
  <2>2. qfile'[i] = qfile[i]
    BY <1>1, <1>8, <1>9, <2>1
  <2> QED
    BY <1>2, <2>1, <2>2 DEF Delivered, KnownFalseOkay
<1>21. done'[k] = d /\ jobs'[k] = Job /\ jobs' = jobs /\ fx' = fx
  BY <1>2, <1>7, <1>20 DEF Job
<1>16. ASSUME fs.exitState = 0, ~KnownFalseOkay(k)'
       PROVE  /\ Delivered(k)'
              /\ ~Job.poll /\ HylaFAX => fx.pages = Cardinality(Document(Job, fx.format))
  <2>1. net.told
    BY <1>6, <1>16, <1>21 DEF KnownFalseOkay
  <2>2. CASE Job.poll
    <3>1. n = 1 /\ fx.format # "g3"
      <4>1. ~(k > 1 \/ fx.format = "g3")
        BY <1>16, <1>21, <2>2 DEF KnownFalseOkay
      <4> QED
        BY <4>1, <1>20
    <3>2. fx.recvState = 3
      BY <1>1, <1>16, <2>1, <2>2 DEF Inv, Told
    <3>3. polled
      BY <1>1, <2>2, <3>1, <3>2 DEF Inv, FirstPoll, polled
    <3> QED
      BY <1>6, <1>21, <2>2, <3>3 DEF Delivered
  <2>3. CASE ~Job.poll
    <3>1. Plain
      <4>1. \A f \in DOMAIN Job.files : Job.files[f].kind = "ok"
        BY <1>16, <1>21 DEF KnownFalseOkay
      <4>2. fx.format = "g3" => Len(Job.files) <= 2
        <5>1. ~(fx.format = "g3" /\ Len(Job.files) > 2)
          BY <1>16, <1>21 DEF KnownFalseOkay
        <5>2. Len(Job.files) \in Nat
          <6>1. Job.files \in Seq(FaxFile)
            BY <1>1, JobIs DEF Job, FaxJob
          <6> QED
            BY <6>1, LenProperties
        <5> QED
          BY <5>1, <5>2
      <4> QED
        BY <2>3, <4>1, <4>2 DEF Plain
    <3>2. /\ PagesOf(net.far) = Document(Job, fx.format)
          /\ Tiff(fx) => fx.pages = Cardinality(Document(Job, fx.format))
      BY <1>1, <1>16, <2>1, <3>1 DEF Inv, Told
    <3>3. InOrder(net.far)
      BY DEF Inv, Ordered
    <3>4. Document(jobs'[k], fx'.format) = Document(Job, fx.format)
      BY <1>21
    <3> QED
      BY <1>6, <1>21, <2>3, <3>2, <3>3, <3>4 DEF Delivered, HylaFAX, Tiff
  <2> QED
    BY <2>2, <2>3
<1>17. DOMAIN done' = DOMAIN done \cup {k}
  BY <1>1, <1>7, <1>20
<1>18. OkayMeansDeliveredElse'
  <2> SUFFICES ASSUME NEW i \in DOMAIN done', done'[i].exitState = 0
               PROVE  Delivered(i)' \/ KnownFalseOkay(i)'
    BY DEF OkayMeansDeliveredElse
  <2>1. CASE i \in DOMAIN done
    <3>1. done[i].exitState = 0
      BY <1>7, <2>1
    <3>2. Delivered(i) \/ KnownFalseOkay(i)
      BY <2>1, <3>1 DEF Inv, Results, OkayMeansDeliveredElse
    <3> QED
      BY <1>15, <2>1, <3>2
  <2>2. CASE i = k
    BY <1>6, <1>16, <1>21, <2>2
  <2> QED
    BY <1>17, <2>1, <2>2
<1>19. QFileTellsResult'
  <2> SUFFICES ASSUME HylaFAX, NEW i \in DOMAIN done'
               PROVE  /\ qfile'[i].status = done'[i].exitState
                      /\ qfile'[i].returned = HylaExitState(done'[i].exitState)
                      /\ qfile'[i].dials = 1
                      /\ done'[i].exitState = 0 /\ ~KnownFalseOkay(i)' /\ ~jobs'[i].poll =>
                           qfile'[i].npages = Cardinality(Document(jobs'[i], "hylafax"))
    BY <1>2 DEF QFileTellsResult, HylaFAX
  <2>1. CASE i \in DOMAIN done
    <3>1. /\ qfile[i].status = done[i].exitState
          /\ qfile[i].returned = HylaExitState(done[i].exitState)
          /\ qfile[i].dials = 1
          /\ done[i].exitState = 0 /\ ~KnownFalseOkay(i) /\ ~jobs[i].poll =>
               qfile[i].npages = Cardinality(Document(jobs[i], "hylafax"))
      BY <2>1 DEF Inv, Results, QFileTellsResult
    <3>2. done'[i] = done[i]
      BY <1>7, <2>1
    <3> QED
      BY <1>2, <1>15, <2>1, <3>1, <3>2
  <2>2. CASE i = k
    <3>1. qfile[n].dials = 0
      BY <1>1, <1>9 DEF Inv, Undialled
    <3>2. qfile'[n].dials = 1
      BY <1>8, <3>1
    <3>3. fx.format = "hylafax"
      BY DEF HylaFAX
    <3>4. /\ qfile'[k].status = fs.exitState /\ qfile'[k].returned = returned
          /\ qfile'[k].npages = fx.pages /\ qfile'[k].dials = 1
      BY <1>8, <1>20, <3>2
    <3> QED
      BY <1>6, <1>16, <1>21, <2>2, <3>3, <3>4 DEF returned
  <2> QED
    BY <1>17, <2>1, <2>2
<1> QED
  BY <1>10, <1>11, <1>12, <1>13, <1>14, <1>18, <1>19 DEF Inv, Results

-----------------------------------------------------------------------------
(* The steps of the CAPI thread                                            *)

LEMMA CapiThread ==
  ASSUME Inv, call # "idle", pc # "crash"
  PROVE  /\ TypeOK /\ Conversion(fx) /\ fs \in Sender /\ net \in Connection
         /\ pc = "wait" /\ fs.posts = 0 /\ n \in DOMAIN jobs
         /\ fs.poll = Job.poll /\ (Plain => ~fs.poll)
         /\ call # "connected" \/ fs.poll => net.queue = <<>> /\ ~fs.sending
         /\ ~fs.sending \/ fx.format = "sff" => fx.err = "Okay"
         /\ Job \in FaxJob /\ Job.files \in Seq(FaxFile)
<1>1. TypeOK /\ Threads
  BY DEF Inv
<1>2. /\ Conversion(fx) /\ fs \in Sender /\ net \in Connection
      /\ pc = "wait" /\ fs.posts = 0 /\ n \in DOMAIN jobs
      /\ fs.poll = Job.poll
      /\ call # "connected" \/ fs.poll => net.queue = <<>> /\ ~fs.sending
      /\ ~fs.sending \/ fx.format = "sff" => fx.err = "Okay"
  BY <1>1 DEF TypeOK, Threads
<1>3. Job \in FaxJob
  BY <1>1, <1>2, JobIs DEF Job
<1>4. Job.files \in Seq(FaxFile)
  BY <1>3 DEF FaxJob
<1> QED
  BY <1>1, <1>2, <1>3, <1>4 DEF Plain

(* A step of a call that polls leaves what is sent alone.                  *)
LEMMA PollKeeps ==
  ASSUME Inv, pc = "wait", fs.poll, call \in {"setup", "connected"},
         UNCHANGED <<pc, jobs, n, qfile, done>>, call' = "connected",
         Receives(fx, fx'), fs' \in Sender, fs'.posts = fs.posts, fs'.poll = fs.poll,
         fs'.sending = fs.sending, net' \in Connection, net'.queue = net.queue,
         net'.far = net.far, net'.told = net.told,
         n = 1 /\ fx.format # "g3" /\ fx'.recvState = 3 => net'.got > net'.doc
  PROVE  Inv'
<1>1. /\ Conversion(fx') /\ fx'.format = fx.format /\ fx'.filter = fx.filter
      /\ fx'.err = fx.err
  BY DEF Receives
<1>2. /\ TypeOK /\ fs.posts = 0 /\ n \in DOMAIN jobs /\ ~fs.sending /\ fx.err = "Okay"
      /\ net.queue = <<>> /\ ~net.told
  BY CapiThread DEF Inv, Threads
<1>3. TypeOK'
  BY <1>1, <1>2, TypeStays
<1>4. Threads'
  BY <1>1, <1>2 DEF Inv, Threads, Job
<1>5. Closed' /\ Reading' /\ NothingLost' /\ Told'
  BY <1>2 DEF Closed, Over, Reading, NothingLost, Sends, Told
<1>6. Ordered'
  BY <1>1, <1>2 DEF Inv, Ordered
<1>7. FirstPoll'
  BY <1>1 DEF FirstPoll
<1> QED
  BY <1>1, <1>3, <1>4, <1>5, <1>6, <1>7, RecordStays DEF Inv

(* A step of a call that sends has to keep the stream whole and in order.  *)
LEMMA SendKeeps ==
  ASSUME Inv, pc = "wait", ~fs.poll, call \in {"setup", "connected"},
         UNCHANGED <<jobs, n, qfile, done>>, call' = "connected",
         pc' \in {"wait", "crash"}, SameFax(fx, fx'),
         fs' \in Sender, fs'.posts = fs.posts, fs'.poll = fs.poll,
         net' \in Connection, net'.told = net.told,
         fx'.err # "Okay" => /\ fs'.sending /\ Len(net'.queue) < Window
                             /\ fx'.finished < 2 /\ fx'.format # "sff",
         fx'.err = "Crash" => pc' = "crash",
         Ordered', Reading', NothingLost'
  PROVE  Inv'
<1>1. Conversion(fx') /\ fx'.format = fx.format
  BY DEF SameFax
<1>2. TypeOK /\ fs.posts = 0 /\ n \in DOMAIN jobs /\ ~net.told /\ fs.poll = Job.poll
  BY CapiThread DEF Inv, Threads
<1>3. TypeOK'
  BY <1>1, <1>2, TypeStays
<1>4. Threads'
  BY <1>1, <1>2 DEF Inv, Threads, Job
<1>5. Closed' /\ Told'
  BY <1>2 DEF Closed, Over, Told
<1>6. FirstPoll'
  BY <1>2 DEF FirstPoll, Job
<1> QED
  BY <1>1, <1>3, <1>4, <1>5, <1>6, RecordStays DEF Inv

LEMMA DisconnectIs ==
  ASSUME NEW c \in Connection, NEW kind \in {"normal", "fast"}
  PROVE  LET d == Disconnect(c, kind)
         IN  /\ d \in Connection /\ d.queue = c.queue /\ d.far = c.far /\ d.doc = c.doc
             /\ d.got = c.got /\ d.told = c.told /\ d.hang # "no"
             /\ c.hang = "no" => d.hang = kind
             /\ kind = "normal" /\ c.hang = "normal" => d.hang = "normal"
<1> DEFINE h == IF c.hang = "no" \/ kind = "fast" THEN kind ELSE c.hang
           d == Disconnect(c, kind)
<1>1. d = [c EXCEPT !.hang = h]
  BY DEF Disconnect, Connection
<1>2. h \in {"normal", "fast"} /\ (c.hang = "no" => h = kind)
      /\ (kind = "normal" /\ c.hang = "normal" => h = "normal")
  BY DEF Connection
<1> HIDE DEF h, d
<1>3. d \in Connection /\ d.queue = c.queue /\ d.far = c.far /\ d.doc = c.doc
      /\ d.got = c.got /\ d.told = c.told /\ d.hang = h
  BY <1>1, <1>2 DEF Connection
<1> QED
  BY <1>2, <1>3 DEF d

LEMMA ExitIs ==
  ASSUME fs \in Sender, NEW e \in 0 .. 13
  PROVE  /\ Exit(e) \in Sender /\ Exit(e).exitState = e /\ Exit(e).poll = fs.poll
         /\ Exit(e).posts = fs.posts /\ Exit(e).sending = fs.sending
BY DEF Exit, Sender

LEMMA IsConnectedKeeps ==
  ASSUME Inv, IsConnected
  PROVE  Inv'
<1>1. /\ ~fs.sending /\ pc # "crash" /\ call = "setup" /\ call' = "connected"
      /\ UNCHANGED <<pc, jobs, n, qfile, done>>
  BY DEF IsConnected, CapiIdle
<1>2. /\ Conversion(fx) /\ fs \in Sender /\ net \in Connection /\ pc = "wait"
      /\ fs.posts = 0 /\ fs.poll = Job.poll /\ net.queue = <<>> /\ fx.err = "Okay"
      /\ (Plain => ~fs.poll)
  BY <1>1, CapiThread
<1>3. PICK ncpi \in BOOLEAN, highres \in BOOLEAN, polls \in BOOLEAN, able \in BOOLEAN :
        LET c == IF ncpi THEN ConnectLog(fx, highres) ELSE fx
            r == OpenRecv(c, [seq |-> 0, names |-> {}], able, TRUE).fx
        IN  CASE ~fs.poll ->
                   /\ fx' = c /\ fs' = [Exit(11) EXCEPT !.sending = TRUE]
                   /\ net' = net
              [] fs.poll /\ ~(ncpi /\ polls) ->
                   /\ fx' = c /\ fs' = Exit(8)
                   /\ net' = Disconnect(net, "fast")
              [] OTHER ->
                   /\ fx' = r /\ fs' = Exit(11)
                   /\ net' = IF r.fd THEN net ELSE Disconnect(net, "fast")
  BY DEF IsConnected
<1> DEFINE c == IF ncpi THEN ConnectLog(fx, highres) ELSE fx
           r == OpenRecv(c, [seq |-> 0, names |-> {}], able, TRUE).fx
<1>4. /\ Conversion(c) /\ Receives(fx, c) /\ c.recvState = fx.recvState
      /\ c.finished = fx.finished /\ c.pages = fx.pages /\ c.fine = fx.fine
  <2>1. CASE ncpi
    BY <1>2, <2>1, ConnectLogIs
  <2>2. CASE ~ncpi
    BY <1>2, <2>2 DEF Receives
  <2> QED
    BY <2>1, <2>2
<1>5. \/ ~fs.poll /\ fx' = c /\ fs' = [Exit(11) EXCEPT !.sending = TRUE] /\ net' = net
      \/ fs.poll /\ fx' = c /\ fs' = Exit(8) /\ net' = Disconnect(net, "fast")
      \/ fs.poll /\ fx' = r /\ fs' = Exit(11) /\ net' \in {net, Disconnect(net, "fast")}
  BY <1>3
<1> HIDE DEF c
<1>6. Receives(c, r) /\ r.recvState \in {1, 2}
  BY <1>4, OpenRecvIs
<1>7. Receives(fx, r)
  <2> HIDE DEF r
  <2> QED
    BY <1>4, <1>6 DEF Receives
<1> HIDE DEF r
<1>8. ASSUME fs.poll PROVE Inv'
  <2>1. Receives(fx, fx') /\ (fx'.recvState = 3 => fx.recvState = 3)
    BY <1>4, <1>5, <1>6, <1>7, <1>8
  <2>2. /\ fs' \in Sender /\ fs'.posts = fs.posts /\ fs'.poll = fs.poll
        /\ fs'.sending = fs.sending
    <3>1. 8 \in 0 .. 13 /\ 11 \in 0 .. 13
      OBVIOUS
    <3>2. fs' \in {Exit(8), Exit(11)}
      BY <1>5, <1>8
    <3> QED
      BY <1>2, <3>1, <3>2, ExitIs
  <2>3. /\ net' \in Connection /\ net'.queue = net.queue /\ net'.far = net.far
        /\ net'.told = net.told /\ net'.got = net.got /\ net'.doc = net.doc
    <3>1. net' \in {net, Disconnect(net, "fast")}
      BY <1>5, <1>8
    <3> QED
      BY <1>2, <3>1, DisconnectIs
  <2>4. n = 1 /\ fx.format # "g3" /\ fx'.recvState = 3 => net'.got > net'.doc
    BY <1>2, <1>8, <2>1, <2>3 DEF Inv, FirstPoll
  <2> QED
    BY <1>1, <1>2, <1>8, <2>1, <2>2, <2>3, <2>4, PollKeeps
<1>9. ASSUME ~fs.poll PROVE Inv'
  <2>1. fx' = c /\ net' = net /\ fs' = [Exit(11) EXCEPT !.sending = TRUE]
    BY <1>5, <1>9
  <2>2. /\ fs' \in Sender /\ fs'.posts = fs.posts /\ fs'.poll = fs.poll
        /\ fs'.sending /\ fs'.exitState = 11
    <3> DEFINE e == Exit(11)
    <3>1. /\ e \in Sender /\ e.posts = fs.posts /\ e.poll = fs.poll /\ e.exitState = 11
          /\ fs' = [e EXCEPT !.sending = TRUE]
      BY <1>2, <2>1, ExitIs
    <3> HIDE DEF e
    <3> QED
      BY <3>1 DEF Sender
  <2>3. /\ fx'.list = fx.list /\ fx'.cur = fx.cur /\ fx'.open = fx.open /\ fx'.pos = fx.pos
        /\ fx'.filter = fx.filter /\ fx'.err = "Okay" /\ fx'.format = fx.format
        /\ fx'.finished = fx.finished /\ fx'.pages = fx.pages /\ fx'.fine = fx.fine
    BY <1>2, <1>4, <2>1 DEF Receives
  <2>4. SameFax(fx, fx')
    BY <1>4, <2>1, <2>3 DEF SameFax
  <2>5. Chunk(fx') = Chunk(fx) /\ (Readable(fx) => Readable(fx'))
        /\ After(fx', fx.open) = After(fx, fx.open) /\ Tiff(fx') = Tiff(fx)
    BY <2>3 DEF Chunk, Readable, Tiff, After
  <2>6. Sends /\ Sends' /\ Job' = Job /\ PagesRead' = PagesRead /\ Plain' = Plain
    BY <1>1, <1>9, <2>2, <2>3, SameReading DEF Sends
  <2>7. Ordered'
    BY <2>1, <2>3 DEF Inv, Ordered
  <2>8. Reading'
    BY <2>1, <2>3, <2>5, <2>6 DEF Inv, Reading
  <2>9. NothingLost'
    BY <1>1, <1>2, <2>1, <2>2, <2>3, <2>5, <2>6 DEF Inv, NothingLost
  <2> QED
    BY <1>1, <1>2, <1>9, <2>1, <2>2, <2>3, <2>4, <2>7, <2>8, <2>9, SendKeeps
<1> QED
  BY <1>8, <1>9

(* A turn of FillSffFilter: the stream is longer by a page or a header.    *)
LEMMA FilterGrows ==
  ASSUME NEW far \in Seq(Chunks), NEW queue \in Seq(Seq(Chunks)), NEW filter \in Seq(Chunks),
         NEW c \in Chunks, InOrder(filter), Precedes(filter, <<c>>),
         Precedes(far, filter), Precedes(far, <<c>>),
         \A b \in DOMAIN queue : Precedes(queue[b], filter) /\ Precedes(queue[b], <<c>>)
  PROVE  /\ Append(filter, c) \in Seq(Chunks) /\ InOrder(Append(filter, c))
         /\ Precedes(far, Append(filter, c))
         /\ \A b \in DOMAIN queue : Precedes(queue[b], Append(filter, c))
<1>1. \A b \in DOMAIN queue : queue[b] \in Seq(Chunks)
  BY ElementOfSeq
<1>2. InOrder(Append(filter, c)) /\ Append(filter, c) \in Seq(Chunks)
  BY OrderAppend, AppendProperties
<1>3. Precedes(far, Append(filter, c))
  BY PrecedesAppend
<1>4. \A b \in DOMAIN queue : Precedes(queue[b], Append(filter, c))
  BY <1>1, PrecedesAppend
<1> QED
  BY <1>2, <1>3, <1>4

LEMMA FillsFilterKeeps ==
  ASSUME Inv, FillsFilter, ~ReadFails(fx)
  PROVE  Inv'
<1>1. /\ fs.sending /\ pc # "crash" /\ Len(net.queue) < Window /\ fx.format # "sff"
      /\ fx.finished = 0 /\ fx' = FillSffFilter(fx)
      /\ pc' = (IF fx'.err = "Crash" THEN "crash" ELSE pc)
      /\ UNCHANGED <<fs, jobs, n, qfile, call, net, done>>
  BY DEF FillsFilter, SendsMore, NeedsFill
<1>2. call = "connected" /\ ~fs.poll
  BY <1>1 DEF Inv, Threads
<1>3. /\ TypeOK /\ Conversion(fx) /\ net \in Connection /\ pc = "wait" /\ n \in DOMAIN jobs
      /\ fs \in Sender /\ Job.files \in Seq(FaxFile)
  BY <1>1, <1>2, CapiThread
<1>4. /\ Sends /\ Sends' /\ fx.list = Job.files /\ Readable(fx)
      /\ Precedes(net.far, <<Chunk(fx)>>) /\ Precedes(fx.filter, <<Chunk(fx)>>)
      /\ \A b \in DOMAIN net.queue : Precedes(net.queue[b], <<Chunk(fx)>>)
  BY <1>1, <1>2 DEF Inv, Reading, Sends
<1>5. HasPages(fx)
  BY <1>3, <1>4, JobIs DEF HasPages, Job
<1>6. Fills(fx, fx')
  BY <1>1, <1>3, <1>4, <1>5, FillIs
<1> DEFINE c == Chunk(fx)
           m == IF Adds(fx) THEN Append(fx.filter, c) ELSE fx.filter
<1>7. /\ SameFax(fx, fx') /\ fx'.finished \in {0, 1}
      /\ fx'.filter = IF fx'.finished = 1 THEN Append(m, FinalHeader) ELSE m
      /\ fx'.finished = 0 => Readable(fx') /\ Before(c, Chunk(fx'))
      /\ Tiff(fx) => fx'.pages = fx.pages + 1
  BY <1>6 DEF Fills
<1>8. /\ c \in Chunks /\ c # FinalHeader /\ c[1] = fx.open /\ c[2] = fx.pos + 1
      /\ fx.filter \in Seq(Chunks) /\ net.far \in Seq(Chunks) /\ net.queue \in Seq(Seq(Chunks))
  <2>1. fx.open # 0
    <3>1. fx.list \in Seq(FaxFile)
      BY <1>3 DEF Conversion
    <3>2. DOMAIN fx.list = 1 .. Len(fx.list) /\ Len(fx.list) \in Nat
      BY <3>1, LenProperties
    <3> QED
      BY <1>4, <3>2 DEF Readable
  <2> QED
    BY <1>3, <2>1, ChunkIs DEF Conversion, Connection
<1> HIDE DEF c
<1>9. /\ InOrder(net.far) /\ InOrder(fx.filter) /\ Precedes(net.far, fx.filter)
      /\ \A b \in DOMAIN net.queue :
           /\ InOrder(net.queue[b])
           /\ Precedes(net.far, net.queue[b])
           /\ Precedes(net.queue[b], fx.filter)
           /\ \A a \in 1 .. b - 1 : Precedes(net.queue[a], net.queue[b])
  BY DEF Inv, Ordered
<1>10. /\ m \in Seq(Chunks) /\ InOrder(m) /\ Precedes(net.far, m)
       /\ \A b \in DOMAIN net.queue : Precedes(net.queue[b], m)
       /\ PagesOf(m) = PagesOf(fx.filter)
                       \cup (IF Adds(fx) THEN {<<fx.open, fx.pos + 1>>} ELSE {})
  <2>1. Precedes(net.far, <<c>>) /\ Precedes(fx.filter, <<c>>)
        /\ \A b \in DOMAIN net.queue : Precedes(net.queue[b], <<c>>)
    BY <1>4 DEF c
  <2>2. CASE Adds(fx)
    <3>1. m = Append(fx.filter, c)
      BY <2>2
    <3>2. PagesOf(m) = PagesOf(fx.filter) \cup {<<fx.open, fx.pos + 1>>}
      BY <1>8, <3>1, PagesOfAppend
    <3>3. /\ m \in Seq(Chunks) /\ InOrder(m) /\ Precedes(net.far, m)
          /\ \A b \in DOMAIN net.queue : Precedes(net.queue[b], m)
      BY <1>8, <1>9, <2>1, <3>1, FilterGrows
    <3> QED
      BY <2>2, <3>2, <3>3
  <2>3. CASE ~Adds(fx)
    BY <1>8, <1>9, <2>3
  <2> QED
    BY <2>2, <2>3
<1>11. fx'.finished = 0 =>
         /\ Precedes(net.far, <<Chunk(fx')>>) /\ Precedes(m, <<Chunk(fx')>>)
         /\ \A b \in DOMAIN net.queue : Precedes(net.queue[b], <<Chunk(fx')>>)
  <2> SUFFICES ASSUME fx'.finished = 0
               PROVE  /\ Precedes(net.far, <<Chunk(fx')>>) /\ Precedes(m, <<Chunk(fx')>>)
                      /\ \A b \in DOMAIN net.queue : Precedes(net.queue[b], <<Chunk(fx')>>)
    OBVIOUS
  <2>1. Chunk(fx') \in Chunks /\ Before(c, Chunk(fx'))
    BY <1>7, ChunkIs DEF SameFax
  <2>2. \A s \in Seq(Chunks) : Precedes(s, <<c>>) => Precedes(s, <<Chunk(fx')>>)
    BY <1>8, <2>1, PrecedesLater
  <2>3. \A b \in DOMAIN net.queue : net.queue[b] \in Seq(Chunks)
    BY <1>8, ElementOfSeq
  <2>4. Precedes(fx.filter, <<Chunk(fx')>>)
    BY <1>4, <1>8, <2>2 DEF c
  <2>5. Precedes(m, <<Chunk(fx')>>)
    <3>1. CASE Adds(fx)
      <4>1. m = Append(fx.filter, c)
        BY <3>1
      <4> QED
        BY <1>8, <2>1, <2>4, <4>1, AppendPrecedes
    <3>2. CASE ~Adds(fx)
      BY <2>4, <3>2
    <3> QED
      BY <3>1, <3>2
  <2> QED
    BY <1>4, <1>8, <2>2, <2>3, <2>5 DEF c
<1> HIDE DEF m
<1>12. /\ InOrder(fx'.filter) /\ Precedes(net.far, fx'.filter)
       /\ \A b \in DOMAIN net.queue : Precedes(net.queue[b], fx'.filter)
       /\ PagesOf(fx'.filter) = PagesOf(m)
  <2>1. FinalHeader \in Chunks
    BY DEF FinalHeader, Chunks
  <2>2. \A s \in Seq(Chunks) : Precedes(s, <<FinalHeader>>)
    BY HeaderFollows
  <2>3. \A b \in DOMAIN net.queue : net.queue[b] \in Seq(Chunks)
    BY <1>8, ElementOfSeq
  <2>4. /\ InOrder(Append(m, FinalHeader)) /\ Precedes(net.far, Append(m, FinalHeader))
        /\ \A b \in DOMAIN net.queue : Precedes(net.queue[b], Append(m, FinalHeader))
    <3>1. /\ Precedes(m, <<FinalHeader>>) /\ Precedes(net.far, <<FinalHeader>>)
          /\ \A b \in DOMAIN net.queue : Precedes(net.queue[b], <<FinalHeader>>)
      BY <1>8, <1>10, <2>2, <2>3
    <3> QED
      BY <1>8, <1>10, <2>1, <3>1, FilterGrows
  <2>5. PagesOf(Append(m, FinalHeader)) = PagesOf(m)
    BY <1>10, <2>1, PagesOfAppend
  <2> QED
    BY <1>7, <1>10, <2>4, <2>5
<1>13. Ordered'
  BY <1>1, <1>9, <1>12 DEF Ordered
<1>14. /\ fx'.list = fx.list /\ fx'.format = fx.format /\ Job' = Job /\ Plain' = Plain
       /\ Tiff(fx') = Tiff(fx)
  BY <1>1, <1>7, SameReading DEF SameFax, Tiff
<1>15. Reading'
  <2>1. fx'.finished = 0 => fx'.filter = m
    BY <1>7
  <2> QED
    BY <1>1, <1>4, <1>7, <1>11, <1>14, <2>1 DEF Reading
<1>16. NothingLost'
  <2> SUFFICES ASSUME Plain PROVE NothingLost'
    BY <1>14 DEF NothingLost
  <2>1. /\ PagesOf(net.far) \cup QueuePages(net.queue) \cup PagesOf(fx.filter) = PagesRead
        /\ net.hang = "no" /\ fs.exitState # 0 /\ fx.err \in {"Okay", "Crash"}
        /\ fx.cur = After(fx, fx.open) /\ (fx.format = "g3" => fx.open = 1)
        /\ Tiff(fx) => IsFiniteSet(PagesRead) /\ fx.pages = Cardinality(PagesRead)
    BY <1>1, <1>4 DEF Inv, NothingLost
  <2>2. FillsWell(Job, fx, fx')
    <3>1. /\ \A f \in DOMAIN fx.list : fx.list[f].kind = "ok"
          /\ fx.format = "g3" => Len(fx.list) <= 2 /\ fx.open = 1
      BY <1>4, <2>1 DEF Plain
    <3>2. fx' = FillSffFilter(fx)
      BY <1>1
    <3> QED
      BY <1>1, <1>3, <1>4, <1>5, <2>1, <3>1, <3>2, FillReads
  <2>3. PagesRead' = ReadOf(Job, fx') /\ PagesRead = ReadOf(Job, fx)
    BY <1>14 DEF PagesRead
  <2> DEFINE page == <<fx.open, fx.pos + 1>>
  <2>4. /\ fx'.err \in {"Okay", "Crash"}
        /\ Adds(fx) => PagesRead' = PagesRead \cup {page} /\ page \notin PagesRead
        /\ ~Adds(fx) => PagesRead' = PagesRead
        /\ fx'.finished = 0 =>
             /\ fx'.cur = After(fx', fx'.open)
             /\ fx'.format = "g3" /\ pc' # "crash" => fx'.open = 1
    BY <1>1, <2>1, <2>2, <2>3 DEF FillsWell
  <2>5. PagesOf(net'.far) \cup QueuePages(net'.queue) \cup PagesOf(fx'.filter) = PagesRead'
    BY <1>1, <1>10, <1>12, <2>1, <2>4
  <2>6. Tiff(fx') => IsFiniteSet(PagesRead') /\ fx'.pages = Cardinality(PagesRead')
    <3> SUFFICES ASSUME Tiff(fx)
                 PROVE  IsFiniteSet(PagesRead') /\ fx'.pages = Cardinality(PagesRead')
      BY <1>14
    <3>1. Adds(fx) /\ fx'.pages = fx.pages + 1
      BY <1>7 DEF Adds
    <3>2. /\ IsFiniteSet(PagesRead \cup {page})
          /\ Cardinality(PagesRead \cup {page}) = Cardinality(PagesRead) + 1
      <4> HIDE DEF page
      <4> QED
        BY <2>1, <2>4, <3>1, FS_AddElement
    <3> QED
      BY <2>1, <2>4, <3>1, <3>2
  <2> QED
    BY <1>1, <1>7, <2>1, <2>4, <2>5, <2>6 DEF NothingLost
<1> QED
  BY <1>1, <1>2, <1>3, <1>7, <1>13, <1>14, <1>15, <1>16, SendKeeps

(* A block: what leaves the filter, or is read, joins the stream.          *)
LEMMA QueueAppend ==
  ASSUME NEW q \in Seq(Seq(Chunks)), NEW b \in Seq(Chunks)
  PROVE  /\ Append(q, b) \in Seq(Seq(Chunks))
         /\ DOMAIN Append(q, b) = 1 .. Len(q) + 1 /\ DOMAIN q = 1 .. Len(q) /\ Len(q) \in Nat
         /\ \A i \in 1 .. Len(q) : Append(q, b)[i] = q[i]
         /\ Append(q, b)[Len(q) + 1] = b
         /\ QueuePages(Append(q, b)) = QueuePages(q) \cup PagesOf(b)
<1>1. /\ Append(q, b) \in Seq(Seq(Chunks))
      /\ DOMAIN Append(q, b) = 1 .. Len(q) + 1 /\ DOMAIN q = 1 .. Len(q) /\ Len(q) \in Nat
      /\ \A i \in 1 .. Len(q) : Append(q, b)[i] = q[i]
      /\ Append(q, b)[Len(q) + 1] = b
  BY AppendProperties
<1>2. 1 .. Len(q) + 1 = (1 .. Len(q)) \cup {Len(q) + 1}
  BY <1>1
<1>3. QueuePages(Append(q, b)) = QueuePages(q) \cup PagesOf(b)
  BY <1>1, <1>2 DEF QueuePages
<1> QED
  BY <1>1, <1>3

LEMMA PutDataIs ==
  ASSUME net \in Connection, call = "connected", NEW b \in Seq(Chunks)
  PROVE  LET d == PutData(b)
         IN  /\ d \in Connection /\ d.far = net.far /\ d.told = net.told /\ d.hang = net.hang
             /\ d.queue \in {net.queue, Append(net.queue, b)}
             /\ net.hang = "no" => QueuePages(d.queue) = QueuePages(net.queue) \cup PagesOf(b)
<1> DEFINE longer == Append(net.queue, b)
           d == PutData(b)
<1>1. d = IF b = <<>> \/ net.hang # "no" THEN net ELSE [net EXCEPT !.queue = longer]
  BY DEF PutData, Connection
<1>2. net.queue \in Seq(Seq(Chunks))
  BY DEF Connection
<1>3. longer \in Seq(Seq(Chunks)) /\ QueuePages(longer) = QueuePages(net.queue) \cup PagesOf(b)
  BY <1>2, QueueAppend
<1> HIDE DEF longer, d
<1>4. /\ d \in Connection /\ d.far = net.far /\ d.told = net.told /\ d.hang = net.hang
      /\ d.queue = IF b = <<>> \/ net.hang # "no" THEN net.queue ELSE longer
  BY <1>1, <1>3 DEF Connection
<1>5. b = <<>> => QueuePages(net.queue) = QueuePages(net.queue) \cup PagesOf(b)
  BY PagesOfEmpty
<1> QED
  BY <1>3, <1>4, <1>5 DEF d, longer

(* What goes out between the stream so far and the filter keeps the order. *)
LEMMA ShipsOrder ==
  ASSUME TypeOK, Ordered, Conversion(fx'), NEW b \in Seq(Chunks),
         net'.far = net.far, net'.queue \in {net.queue, Append(net.queue, b)},
         InOrder(b), InOrder(fx'.filter), Precedes(b, fx'.filter),
         \A u \in Seq(Chunks) : Precedes(u, fx.filter) /\ Precedes(u, <<Chunk(fx)>>) =>
           Precedes(u, b),
         \A u \in Seq(Chunks) : Precedes(u, fx.filter) => Precedes(u, fx'.filter),
         \/ \A u \in Seq(Chunks) : Precedes(u, fx.filter) => Precedes(u, b)
         \/ /\ Precedes(net.far, <<Chunk(fx)>>)
            /\ \A a \in DOMAIN net.queue : Precedes(net.queue[a], <<Chunk(fx)>>)
  PROVE  Ordered'
<1>1. /\ net.queue \in Seq(Seq(Chunks)) /\ net.far \in Seq(Chunks)
      /\ \A a \in DOMAIN net.queue : net.queue[a] \in Seq(Chunks)
  <2>1. net.queue \in Seq(Seq(Chunks)) /\ net.far \in Seq(Chunks)
    BY DEF TypeOK, Connection
  <2> QED
    BY <2>1, ElementOfSeq
<1>2. /\ Precedes(net.far, b) /\ Precedes(net.far, fx'.filter)
      /\ \A a \in DOMAIN net.queue :
           Precedes(net.queue[a], b) /\ Precedes(net.queue[a], fx'.filter)
  BY <1>1 DEF Ordered
<1>3. CASE net'.queue = net.queue
  BY <1>2, <1>3 DEF Ordered
<1>4. CASE net'.queue = Append(net.queue, b)
  <2> DEFINE k == Len(net.queue) + 1
  <2>1. /\ DOMAIN net'.queue = 1 .. k /\ DOMAIN net.queue = 1 .. k - 1 /\ k \in Nat
        /\ \A i \in 1 .. k - 1 : net'.queue[i] = net.queue[i]
        /\ net'.queue[k] = b
    BY <1>1, <1>4, QueueAppend
  <2> HIDE DEF k
  <2>2. ASSUME NEW i \in 1 .. k
        PROVE  /\ InOrder(net'.queue[i]) /\ Precedes(net'.far, net'.queue[i])
               /\ Precedes(net'.queue[i], fx'.filter)
               /\ \A a \in 1 .. i - 1 : Precedes(net'.queue[a], net'.queue[i])
    <3>1. CASE i = k
      BY <1>2, <2>1, <3>1
    <3>2. CASE i # k
      <4>1. i \in 1 .. k - 1 /\ \A a \in 1 .. i - 1 : a \in 1 .. k - 1
        BY <2>1, <3>2
      <4> QED
        BY <1>2, <2>1, <4>1 DEF Ordered
    <3> QED
      BY <3>1, <3>2
  <2> QED
    BY <1>2, <2>1, <2>2 DEF Ordered
<1> QED
  BY <1>3, <1>4

(* The stream stays ahead of the next page that is read.                   *)
LEMMA ShipsAhead ==
  ASSUME TypeOK, NEW b \in Seq(Chunks), NEW c, NEW far, far = net.far,
         NEW queue, queue \in {net.queue, Append(net.queue, b)},
         Precedes(b, c), Precedes(net.far, c),
         \A a \in DOMAIN net.queue : Precedes(net.queue[a], c)
  PROVE  Precedes(far, c) /\ \A a \in DOMAIN queue : Precedes(queue[a], c)
<1>1. net.queue \in Seq(Seq(Chunks))
  BY DEF TypeOK, Connection
<1>2. CASE queue = Append(net.queue, b)
  <2>1. /\ DOMAIN queue = 1 .. Len(net.queue) + 1 /\ DOMAIN net.queue = 1 .. Len(net.queue)
        /\ Len(net.queue) \in Nat
        /\ \A i \in 1 .. Len(net.queue) : queue[i] = net.queue[i]
        /\ queue[Len(net.queue) + 1] = b
    BY <1>1, <1>2, QueueAppend
  <2>2. ASSUME NEW a \in DOMAIN queue PROVE Precedes(queue[a], c)
    <3>1. a \in 1 .. Len(net.queue) \/ a = Len(net.queue) + 1
      BY <2>1
    <3> QED
      BY <2>1, <3>1
  <2> QED
    BY <2>2
<1> QED
  BY <1>2

(* The block, and what is left of the filter and the file.                 *)
Ships(c, d, b) ==
  /\ SameFax(c, d) /\ b \in Seq(Chunks) /\ d.pages = c.pages
  /\ d.open = c.open /\ d.cur = c.cur
  /\ d.err = (IF c.format = "sff" THEN c.err ELSE "Okay")
  /\ InOrder(b) /\ InOrder(d.filter) /\ Precedes(b, d.filter)
  /\ \A u \in Seq(Chunks) : Precedes(u, c.filter) => Precedes(u, d.filter)
  /\ \/ \A u \in Seq(Chunks) : Precedes(u, c.filter) => Precedes(u, b)
     \/ /\ c.format = "sff"
        /\ \A u \in Seq(Chunks) : Precedes(u, <<Chunk(c)>>) => Precedes(u, b)
  /\ d.finished = 0 =>
       /\ c.finished = 0 /\ Readable(d)
       /\ \A u \in Seq(Chunks) : Precedes(u, <<Chunk(c)>>) => Precedes(u, <<Chunk(d)>>)
       /\ Precedes(c.filter, <<Chunk(c)>>) =>
            Precedes(b, <<Chunk(d)>>) /\ Precedes(d.filter, <<Chunk(d)>>)
  /\ d.finished = 2 => d.filter = <<>>
  /\ c.format = "sff" => d.filter = <<>> /\ d.finished # 1
  /\ \A job : job.files = c.list =>
       /\ PagesOf(c.filter) \cup (ReadOf(job, d) \ ReadOf(job, c))
            = PagesOf(b) \cup PagesOf(d.filter)
       /\ ReadOf(job, c) \subseteq ReadOf(job, d)
       /\ c.format # "sff" => ReadOf(job, d) = ReadOf(job, c)

LEMMA SFFShips ==
  ASSUME NEW c, Conversion(c), c.format = "sff", c.finished = 0, c.filter = <<>>, Readable(c),
         ~ReadFails(c)
  PROVE  Ships(c, ReadSFF(c).fx, ReadSFF(c).out)
<1> DEFINE d == ReadSFF(c).fx
           b == ReadSFF(c).out
<1>1. /\ SameFax(c, d) /\ d.err = c.err /\ d.open = c.open
      /\ d.cur = c.cur /\ d.filter = c.filter /\ d.pages = c.pages
      /\ \/ AtEnd(c) /\ d.finished = 2 /\ b = <<>>
         \/ ~AtEnd(c) /\ d.finished = 0 /\ d.pos = c.pos + 1 /\ b = <<Chunk(c)>>
  BY ReadSFFIs
<1> HIDE DEF d, b
<1>2. /\ d.format = "sff" /\ d.list = c.list /\ Conversion(d) /\ d.filter = <<>>
      /\ c.open = 1 /\ 1 \in DOMAIN c.list /\ c.pos <= c.list[1].pages
      /\ (AtEnd(c) <=> c.pos = c.list[1].pages) /\ c.pos \in Nat /\ c.list[1].pages \in Nat
      /\ c.list \in Seq(FaxFile) /\ ~Tiff(c) /\ ~Tiff(d)
  <2>1. c.list \in Seq(FaxFile) /\ 1 \in DOMAIN c.list /\ c.open = 1
        /\ c.pos <= c.list[1].pages /\ c.pos \in Nat
    BY DEF Readable, Conversion
  <2>2. c.list[1] \in FaxFile
    BY <2>1, ElementOfSeq
  <2> QED
    BY <1>1, <2>1, <2>2 DEF SameFax, AtEnd, FaxFile, Tiff
<1>3. /\ Chunk(c) \in Chunks /\ Chunk(c)[1] = 1 /\ Chunk(c)[2] = c.pos + 1
      /\ Chunk(c) # FinalHeader
  BY <1>2, ChunkIs
<1>4. /\ Chunk(d) \in Chunks /\ Chunk(d)[1] = 1 /\ Chunk(d)[2] = d.pos + 1
  BY <1>1, <1>2, ChunkIs
<1>5. b \in Seq(Chunks) /\ InOrder(b) /\ (\A u : Precedes(u, <<>>) /\ Precedes(<<>>, u))
  <2>1. \A u : Precedes(u, <<>>) /\ Precedes(<<>>, u)
    BY DEF Precedes
  <2>2. InOrder(<<>>) /\ <<>> \in Seq(Chunks)
    BY DEF InOrder
  <2>3. <<Chunk(c)>> \in Seq(Chunks) /\ InOrder(<<Chunk(c)>>)
    <3>1. <<Chunk(c)>> \in Seq(Chunks) /\ DOMAIN <<Chunk(c)>> = {1}
      BY <1>3
    <3> QED
      BY <3>1 DEF InOrder
  <2> QED
    BY <1>1, <2>1, <2>2, <2>3
<1>6. \A u \in Seq(Chunks) : Precedes(u, <<Chunk(c)>>) => Precedes(u, b)
  BY <1>1, <1>5
<1>7. d.finished = 0 =>
        /\ Readable(d) /\ Before(Chunk(c), Chunk(d))
        /\ \A u \in Seq(Chunks) : Precedes(u, <<Chunk(c)>>) => Precedes(u, <<Chunk(d)>>)
        /\ Precedes(b, <<Chunk(d)>>)
  <2> SUFFICES ASSUME d.finished = 0
               PROVE  /\ Readable(d) /\ Before(Chunk(c), Chunk(d))
                      /\ \A u \in Seq(Chunks) : Precedes(u, <<Chunk(c)>>) => Precedes(u, <<Chunk(d)>>)
                      /\ Precedes(b, <<Chunk(d)>>)
    OBVIOUS
  <2>1. d.pos = c.pos + 1 /\ b = <<Chunk(c)>> /\ c.pos # c.list[1].pages
    BY <1>1, <1>2
  <2>2. Before(Chunk(c), Chunk(d))
    BY <1>2, <1>3, <1>4, <2>1 DEF Before
  <2>3. Readable(d)
    BY <1>1, <1>2, <2>1 DEF Readable
  <2>4. \A u \in Seq(Chunks) : Precedes(u, <<Chunk(c)>>) => Precedes(u, <<Chunk(d)>>)
    BY <1>3, <1>4, <2>2, PrecedesLater
  <2>5. Precedes(b, <<Chunk(d)>>)
    <3>1. DOMAIN <<Chunk(c)>> = {1} /\ <<Chunk(c)>>[1] = Chunk(c)
          /\ DOMAIN <<Chunk(d)>> = {1} /\ <<Chunk(d)>>[1] = Chunk(d)
      OBVIOUS
    <3> QED
      BY <2>1, <2>2, <3>1 DEF Precedes
  <2> QED
    BY <2>2, <2>3, <2>4, <2>5
<1>8. ASSUME NEW job, job.files = c.list
      PROVE  /\ ReadOf(job, d) = ReadOf(job, c) \cup PagesOf(b)
             /\ PagesOf(c.filter) = {} /\ PagesOf(d.filter) = {}
             /\ PagesOf(b) \cap ReadOf(job, c) = {}
  <2>1. PagesOf(c.filter) = {} /\ PagesOf(d.filter) = {}
    BY <1>2, PagesOfEmpty
  <2>2. \A q \in Document(job, "sff") :
          q = <<q[1], q[2]>> /\ q[1] = 1 /\ q[2] \in Nat /\ q[2] <= c.list[1].pages
    BY <1>2, <1>8, PageIs
  <2>3. \A p \in 1 .. c.list[1].pages : <<1, p>> \in Document(job, "sff")
    BY <1>2, <1>8, DocumentIs
  <2>4. ReadOf(job, c) = {q \in Document(job, "sff") : q[2] < c.pos + 1}
    BY <1>3, <2>2 DEF ReadOf, Before
  <2>5. CASE AtEnd(c)
    <3>1. ReadOf(job, d) = Document(job, "sff") /\ PagesOf(b) = {}
      BY <1>1, <1>2, <2>5, PagesOfEmpty DEF ReadOf
    <3>2. ReadOf(job, c) = Document(job, "sff")
      BY <1>2, <2>2, <2>4, <2>5
    <3> QED
      BY <2>1, <3>1, <3>2
  <2>6. CASE ~AtEnd(c)
    <3>1. ReadOf(job, d) = {q \in Document(job, "sff") : q[2] < c.pos + 2}
      BY <1>1, <1>2, <1>4, <2>2, <2>6 DEF ReadOf, Before
    <3>2. PagesOf(b) = {<<1, c.pos + 1>>}
      <4>1. Range(b) = {Chunk(c)}
        BY <1>1, <2>6 DEF Range
      <4> QED
        BY <1>3, <4>1 DEF PagesOf
    <3>3. <<1, c.pos + 1>> \in Document(job, "sff")
      BY <1>2, <2>3, <2>6
    <3>4. ASSUME NEW q \in Document(job, "sff")
          PROVE  q[2] < c.pos + 2 <=> q[2] < c.pos + 1 \/ q = <<1, c.pos + 1>>
      BY <1>2, <2>2
    <3>5. ~(<<1, c.pos + 1>>[2] < c.pos + 1)
      BY <1>2
    <3> QED
      BY <2>1, <2>4, <3>1, <3>2, <3>3, <3>4, <3>5
  <2> QED
    BY <2>5, <2>6
<1>9. \A job : job.files = c.list =>
        /\ PagesOf(c.filter) \cup (ReadOf(job, d) \ ReadOf(job, c))
           = PagesOf(b) \cup PagesOf(d.filter)
        /\ ReadOf(job, c) \subseteq ReadOf(job, d)
  BY <1>8
<1>10. Precedes(b, d.filter) /\ InOrder(d.filter)
       /\ \A u \in Seq(Chunks) : Precedes(u, d.filter) /\ Precedes(d.filter, u)
  BY <1>2, <1>5 DEF InOrder
<1>11. d.finished \in {0, 2} /\ (d.finished = 0 => <<Chunk(d)>> \in Seq(Chunks))
  BY <1>1, <1>4
<1> QED
  BY <1>1, <1>2, <1>5, <1>6, <1>7, <1>9, <1>10, <1>11 DEF Ships, d, b

LEMMA FilterShips ==
  ASSUME NEW c, Conversion(c), c.format # "sff", c.finished \in {0, 1}, InOrder(c.filter),
         c.finished = 0 => Readable(c)
  PROVE  Ships(c, SendSFF(c), Out(c))
<1> DEFINE d == SendSFF(c)
           b == Out(c)
<1>1. /\ SameFax(c, d) /\ d.err = "Okay" /\ d.pages = c.pages
      /\ d.fine = c.fine /\ d.open = c.open /\ d.pos = c.pos /\ d.cur = c.cur
      /\ d.finished = (IF c.finished = 1 /\ d.filter = <<>> THEN 2 ELSE c.finished)
      /\ b \in Seq(Chunks)
  BY SendSFFIs
<1>2. PICK k \in 0 .. Len(c.filter) : Cut(c.filter, k, b, d.filter)
  BY SendSFFIs
<1> HIDE DEF d, b
<1>3. c.filter \in Seq(Chunks)
  BY DEF Conversion
<1>4. /\ InOrder(b) /\ InOrder(d.filter) /\ Precedes(b, d.filter)
      /\ \A u : Precedes(u, c.filter) => Precedes(u, b) /\ Precedes(u, d.filter)
      /\ \A u : Precedes(c.filter, u) => Precedes(b, u) /\ Precedes(d.filter, u)
  BY <1>2, <1>3, CutOrder
<1>5. PagesOf(c.filter) = PagesOf(b) \cup PagesOf(d.filter)
  BY <1>2, <1>3, PagesOfCut
<1>6. Chunk(d) = Chunk(c) /\ d.format = c.format /\ d.list = c.list
  BY <1>1 DEF Chunk, SameFax
<1>7. d.finished = 0 => c.finished = 0 /\ Readable(d)
  BY <1>1, <1>6 DEF Readable, Tiff
<1>8. \A job : ReadOf(job, d) = ReadOf(job, c)
  BY <1>1, <1>6 DEF ReadOf
<1>9. \A job : /\ PagesOf(c.filter) \cup (ReadOf(job, d) \ ReadOf(job, c))
                  = PagesOf(b) \cup PagesOf(d.filter)
               /\ ReadOf(job, c) \subseteq ReadOf(job, d)
  BY <1>5, <1>8
<1>10. d.finished = 2 => d.filter = <<>>
  BY <1>1
<1> QED
  BY <1>1, <1>4, <1>6, <1>7, <1>8, <1>9, <1>10 DEF Ships, d, b

LEMMA ShipsBlockKeeps ==
  ASSUME Inv, ShipsBlock, fx.format # "sff" \/ ~ReadFails(fx)
  PROVE  Inv'
<1> DEFINE sff == fx.format = "sff"
           b == IF sff THEN ReadSFF(fx).out ELSE Out(fx)
           err == IF sff THEN "Okay" ELSE fx.err
<1>1. /\ fs.sending /\ pc # "crash" /\ fx.finished < 2 /\ Len(net.queue) < Window
      /\ sff \/ ~NeedsFill(fx)
      /\ fx' = IF sff THEN ReadSFF(fx).fx ELSE SendSFF(fx)
      /\ \/ err # "Okay" /\ fs' \in {Exit(1), fs} /\ net' = Disconnect(net, "fast")
         \/ err = "Okay" /\ fx'.finished = 2 /\ fs' = Exit(0) /\ net' = Shipped(b)
         \/ err = "Okay" /\ fx'.finished # 2 /\ fs' = fs /\ net' = PutData(b)
      /\ UNCHANGED <<pc, jobs, n, qfile, call, done>>
  <2> DEFINE r == IF sff THEN ReadSFF(fx) ELSE [fx |-> SendSFF(fx), out |-> Out(fx)]
  <2>1. r.fx = (IF sff THEN ReadSFF(fx).fx ELSE SendSFF(fx)) /\ r.out = b
    OBVIOUS
  <2> HIDE DEF b, err
  <2>2. /\ fx' = r.fx
        /\ CASE err # "Okay" ->
                  /\ fs' = IF err = "NotExist" THEN Exit(1) ELSE fs
                  /\ net' = Disconnect(net, "fast")
             [] err = "Okay" /\ r.fx.finished = 2 ->
                  fs' = Exit(0) /\ net' = Shipped(r.out)
             [] OTHER -> fs' = fs /\ net' = PutData(r.out)
    BY DEF ShipsBlock, err
  <2>3. /\ SendsMore /\ (sff \/ ~NeedsFill(fx))
        /\ UNCHANGED <<pc, jobs, n, qfile, call, done>>
    BY DEF ShipsBlock
  <2> HIDE DEF r
  <2> QED
    BY <2>1, <2>2, <2>3 DEF SendsMore
<1>2. call = "connected" /\ ~fs.poll
  BY <1>1 DEF Inv, Threads
<1>3. /\ TypeOK /\ Conversion(fx) /\ net \in Connection /\ pc = "wait" /\ n \in DOMAIN jobs
      /\ fs \in Sender /\ Job.files \in Seq(FaxFile) /\ (sff => fx.err = "Okay")
  BY <1>1, <1>2, CapiThread
<1>4. /\ Sends /\ Sends' /\ fx.list = Job.files
      /\ fx.finished = 0 =>
           /\ Readable(fx)
           /\ Precedes(net.far, <<Chunk(fx)>>) /\ Precedes(fx.filter, <<Chunk(fx)>>)
           /\ \A a \in DOMAIN net.queue : Precedes(net.queue[a], <<Chunk(fx)>>)
      /\ sff => fx.filter = <<>> /\ fx.finished # 1
  <2>1. Sends
    BY <1>2 DEF Sends
  <2>2. fs'.poll = fs.poll
    <3>1. 0 \in 0 .. 13 /\ 1 \in 0 .. 13
      OBVIOUS
    <3> QED
      BY <1>1, <1>3, <3>1, ExitIs
  <2> QED
    BY <1>1, <1>2, <2>1, <2>2 DEF Inv, Reading, Sends
<1>5. fx.finished \in {0, 1} /\ InOrder(fx.filter) /\ Ordered
  BY <1>1, <1>3 DEF Inv, Ordered, Conversion
<1>6. Ships(fx, fx', b)
  <2>1. CASE sff
    <3>1. fx.finished = 0
      BY <1>4, <1>5, <2>1
    <3>2. Ships(fx, ReadSFF(fx).fx, ReadSFF(fx).out)
      BY <2>1, <1>3, <1>4, <2>1, <3>1, SFFShips
    <3> QED
      BY <1>1, <2>1, <3>2
  <2>2. CASE ~sff
    <3>1. Ships(fx, SendSFF(fx), Out(fx))
      BY <1>3, <1>4, <1>5, <2>2, FilterShips
    <3> QED
      BY <1>1, <2>2, <3>1
  <2> QED
    BY <2>1, <2>2
<1> HIDE DEF b
<1>7. /\ SameFax(fx, fx') /\ Conversion(fx') /\ fx'.format = fx.format /\ fx'.list = fx.list
      /\ b \in Seq(Chunks) /\ fx'.err = "Okay"
  BY <1>3, <1>6 DEF Ships, SameFax
<1>8. /\ fs' \in Sender /\ fs'.posts = fs.posts /\ fs'.poll = fs.poll
      /\ fs'.sending = fs.sending
  <2>1. 0 \in 0 .. 13 /\ 1 \in 0 .. 13
    OBVIOUS
  <2> QED
    BY <1>1, <1>3, <2>1, ExitIs
<1>9. /\ PutData(b) \in Connection /\ PutData(b).far = net.far /\ PutData(b).told = net.told
      /\ PutData(b).hang = net.hang
      /\ PutData(b).queue \in {net.queue, Append(net.queue, b)}
      /\ net.hang = "no" => QueuePages(PutData(b).queue) = QueuePages(net.queue) \cup PagesOf(b)
  BY <1>2, <1>3, <1>7, PutDataIs
<1>10. /\ Shipped(b) \in Connection /\ Shipped(b).far = net.far /\ Shipped(b).told = net.told
       /\ Shipped(b).queue = PutData(b).queue
       /\ net.hang = "no" => Shipped(b).hang = "normal"
  <2> DEFINE d == PutData(b)
  <2>1. d \in Connection /\ d.far = net.far /\ d.told = net.told /\ d.hang = net.hang
    BY <1>9
  <2>2. Shipped(b) = Disconnect(d, "normal")
    BY DEF Shipped
  <2> HIDE DEF d
  <2>3. /\ Shipped(b) \in Connection /\ Shipped(b).far = net.far /\ Shipped(b).told = net.told
        /\ Shipped(b).queue = d.queue
        /\ net.hang = "no" => Shipped(b).hang = "normal"
    BY <2>1, <2>2, DisconnectIs
  <2> QED
    BY <2>3 DEF d
<1>11. /\ net' \in Connection /\ net'.far = net.far /\ net'.told = net.told
       /\ net'.queue \in {net.queue, Append(net.queue, b)}
  <2>1. /\ Disconnect(net, "fast") \in Connection /\ Disconnect(net, "fast").far = net.far
        /\ Disconnect(net, "fast").told = net.told
        /\ Disconnect(net, "fast").queue = net.queue
    BY <1>3, DisconnectIs
  <2> QED
    BY <1>1, <1>9, <1>10, <2>1
<1>12. Ordered'
  <2>1. /\ InOrder(b) /\ InOrder(fx'.filter) /\ Precedes(b, fx'.filter)
        /\ \A u \in Seq(Chunks) : Precedes(u, fx.filter) => Precedes(u, fx'.filter)
        /\ \/ \A u \in Seq(Chunks) : Precedes(u, fx.filter) => Precedes(u, b)
           \/ /\ sff
              /\ \A u \in Seq(Chunks) : Precedes(u, <<Chunk(fx)>>) => Precedes(u, b)
    BY <1>6 DEF Ships
  <2>2. \A u \in Seq(Chunks) : Precedes(u, fx.filter) /\ Precedes(u, <<Chunk(fx)>>) =>
           Precedes(u, b)
    BY <2>1
  <2>3. \/ \A u \in Seq(Chunks) : Precedes(u, fx.filter) => Precedes(u, b)
        \/ /\ Precedes(net.far, <<Chunk(fx)>>)
           /\ \A a \in DOMAIN net.queue : Precedes(net.queue[a], <<Chunk(fx)>>)
    <3>1. sff => fx.finished = 0
      BY <1>4, <1>5
    <3> QED
      BY <1>4, <2>1, <3>1
  <2> QED
    BY <1>3, <1>5, <1>7, <1>11, <2>1, <2>2, <2>3, ShipsOrder
<1>13. Job' = Job /\ Plain' = Plain
  BY <1>1, <1>7, SameReading
<1>14. Reading'
  <2>1. ASSUME fx'.finished = 0
        PROVE  /\ Readable(fx')
               /\ Precedes(net'.far, <<Chunk(fx')>>) /\ Precedes(fx'.filter, <<Chunk(fx')>>)
               /\ \A a \in DOMAIN net'.queue : Precedes(net'.queue[a], <<Chunk(fx')>>)
    <3> DEFINE old == <<Chunk(fx)>>
               c == <<Chunk(fx')>>
    <3>1. /\ fx.finished = 0 /\ Readable(fx')
          /\ \A u \in Seq(Chunks) : Precedes(u, old) => Precedes(u, c)
          /\ Precedes(fx.filter, old) => Precedes(b, c) /\ Precedes(fx'.filter, c)
      BY <1>6, <2>1 DEF Ships
    <3>5. /\ Precedes(net.far, old) /\ Precedes(fx.filter, old)
          /\ \A a \in DOMAIN net.queue : Precedes(net.queue[a], old)
      BY <1>4, <3>1
    <3> HIDE DEF old, c
    <3>2. net.far \in Seq(Chunks) /\ \A a \in DOMAIN net.queue : net.queue[a] \in Seq(Chunks)
      <4>1. net.far \in Seq(Chunks) /\ net.queue \in Seq(Seq(Chunks))
        BY <1>3 DEF Connection
      <4> QED
        BY <4>1, ElementOfSeq
    <3>3. /\ Precedes(net.far, c) /\ Precedes(b, c) /\ Precedes(fx'.filter, c)
          /\ \A a \in DOMAIN net.queue : Precedes(net.queue[a], c)
      BY <3>1, <3>2, <3>5
    <3>4. Precedes(net'.far, c) /\ \A a \in DOMAIN net'.queue : Precedes(net'.queue[a], c)
      BY <1>3, <1>7, <1>11, <3>3, ShipsAhead
    <3> QED
      BY <3>1, <3>3, <3>4 DEF c
  <2>2. fx'.format = "sff" => fx'.filter = <<>> /\ fx'.finished # 1
    BY <1>6, <1>7 DEF Ships
  <2> QED
    BY <1>4, <1>7, <1>13, <2>1, <2>2 DEF Reading
<1>15. NothingLost'
  <2> SUFFICES ASSUME Plain PROVE NothingLost'
    BY <1>13 DEF NothingLost
  <2>1. /\ PagesOf(net.far) \cup QueuePages(net.queue) \cup PagesOf(fx.filter) = PagesRead
        /\ net.hang = "no" /\ fs.exitState # 0 /\ fx.err \in {"Okay", "Crash"}
        /\ fx.finished = 0 => /\ fx.cur = After(fx, fx.open)
                              /\ fx.format = "g3" => fx.open = 1
        /\ Tiff(fx) => IsFiniteSet(PagesRead) /\ fx.pages = Cardinality(PagesRead)
    BY <1>1, <1>4 DEF Inv, NothingLost
  <2>2. err = "Okay"
    BY <1>1, <2>1 DEF Inv, Threads
  <2>3. PagesRead' = ReadOf(Job, fx') /\ PagesRead = ReadOf(Job, fx)
    BY <1>13 DEF PagesRead
  <2>4. /\ PagesOf(fx.filter) \cup (PagesRead' \ PagesRead) = PagesOf(b) \cup PagesOf(fx'.filter)
        /\ PagesRead \subseteq PagesRead'
        /\ ~sff => PagesRead' = PagesRead
        /\ fx'.finished = 2 => fx'.filter = <<>>
        /\ fx'.finished = 0 => fx.finished = 0
        /\ fx'.open = fx.open /\ fx'.cur = fx.cur /\ fx'.pages = fx.pages
    <3>1. /\ PagesOf(fx.filter) \cup (ReadOf(Job, fx') \ ReadOf(Job, fx))
               = PagesOf(b) \cup PagesOf(fx'.filter)
          /\ ReadOf(Job, fx) \subseteq ReadOf(Job, fx')
          /\ ~sff => ReadOf(Job, fx') = ReadOf(Job, fx)
      <4>1. Job.files = fx.list
        BY <1>4
      <4>2. \A job : job.files = fx.list =>
              /\ PagesOf(fx.filter) \cup (ReadOf(job, fx') \ ReadOf(job, fx))
                   = PagesOf(b) \cup PagesOf(fx'.filter)
              /\ ReadOf(job, fx) \subseteq ReadOf(job, fx')
              /\ fx.format # "sff" => ReadOf(job, fx') = ReadOf(job, fx)
        BY <1>6 DEF Ships
      <4> QED
        BY <4>1, <4>2
    <3> QED
      BY <1>6, <2>3, <3>1 DEF Ships
  <2>5. /\ QueuePages(net'.queue) = QueuePages(net.queue) \cup PagesOf(b)
        /\ fx'.finished = 2 => net'.hang = "normal"
        /\ fx'.finished # 2 => net'.hang = "no" /\ fs'.exitState # 0
    BY <1>1, <1>9, <1>10, <2>1, <2>2
  <2>6. PagesOf(net'.far) \cup QueuePages(net'.queue) \cup PagesOf(fx'.filter) = PagesRead'
    BY <1>11, <2>1, <2>4, <2>5
  <2>7. Tiff(fx') => IsFiniteSet(PagesRead') /\ fx'.pages = Cardinality(PagesRead')
    <3>1. Tiff(fx') => Tiff(fx) /\ ~sff
      BY <1>7 DEF Tiff
    <3> QED
      BY <2>1, <2>4, <3>1
  <2>8. fx'.finished = 0 => /\ fx'.cur = After(fx', fx'.open)
                            /\ fx'.format = "g3" /\ pc' # "crash" => fx'.open = 1
    BY <1>7, <2>1, <2>4 DEF After
  <2>9. fx'.finished \in {0, 1, 2}
    BY <1>7 DEF Conversion
  <2> QED
    BY <1>7, <2>4, <2>5, <2>6, <2>7, <2>8, <2>9 DEF NothingLost
<1> QED
  BY <1>1, <1>2, <1>3, <1>7, <1>8, <1>11, <1>12, <1>14, <1>15, SendKeeps

(* The far side has got the first block.                                   *)
LEMMA QueueTail ==
  ASSUME NEW q \in Seq(Seq(Chunks)), q # <<>>
  PROVE  /\ Tail(q) \in Seq(Seq(Chunks)) /\ Head(q) \in Seq(Chunks) /\ Head(q) = q[1]
         /\ DOMAIN q = 1 .. Len(q) /\ DOMAIN Tail(q) = 1 .. Len(q) - 1 /\ Len(q) \in Nat \ {0}
         /\ \A i \in 1 .. Len(q) - 1 : Tail(q)[i] = q[i + 1]
         /\ QueuePages(q) = PagesOf(Head(q)) \cup QueuePages(Tail(q))
<1>1. /\ Tail(q) \in Seq(Seq(Chunks)) /\ Head(q) \in Seq(Chunks) /\ Head(q) = q[1]
      /\ DOMAIN q = 1 .. Len(q) /\ Len(Tail(q)) = Len(q) - 1 /\ Len(q) \in Nat \ {0}
      /\ \A i \in 1 .. Len(q) - 1 : Tail(q)[i] = q[i + 1]
  BY HeadTailProperties, LenProperties, EmptySeq
<1>2. DOMAIN Tail(q) = 1 .. Len(q) - 1
  BY <1>1, LenProperties
<1>3. QueuePages(q) = PagesOf(Head(q)) \cup QueuePages(Tail(q))
  <2>1. ASSUME NEW p \in QueuePages(q) PROVE p \in PagesOf(Head(q)) \cup QueuePages(Tail(q))
    <3>1. PICK i \in 1 .. Len(q) : p \in PagesOf(q[i])
      BY <1>1, <2>1 DEF QueuePages
    <3>2. CASE i = 1
      BY <1>1, <3>1, <3>2
    <3>3. CASE i # 1
      <4>1. i - 1 \in 1 .. Len(q) - 1 /\ i = (i - 1) + 1
        BY <1>1, <3>3
      <4>2. Tail(q)[i - 1] = q[i]
        BY <1>1, <4>1
      <4> QED
        BY <1>2, <3>1, <4>1, <4>2 DEF QueuePages
    <3> QED
      BY <3>2, <3>3
  <2>2. PagesOf(Head(q)) \subseteq QueuePages(q)
    <3>1. 1 \in DOMAIN q
      BY <1>1
    <3> QED
      BY <1>1, <3>1 DEF QueuePages
  <2>3. ASSUME NEW p \in QueuePages(Tail(q)) PROVE p \in QueuePages(q)
    <3>1. PICK i \in 1 .. Len(q) - 1 : p \in PagesOf(Tail(q)[i])
      BY <1>2, <2>3 DEF QueuePages
    <3>2. i + 1 \in DOMAIN q /\ p \in PagesOf(q[i + 1])
      BY <1>1, <3>1
    <3> QED
      BY <3>2 DEF QueuePages
  <2> QED
    BY <2>1, <2>2, <2>3
<1> QED
  BY <1>1, <1>2, <1>3

LEMMA PutDataCompleteKeeps ==
  ASSUME Inv, PutDataComplete
  PROVE  Inv'
<1>1. /\ ~fs.sending /\ pc # "crash" /\ call = "connected" /\ net.queue # <<>>
      /\ net' = [net EXCEPT !.queue = Tail(@), !.far = @ \o Head(net.queue)]
      /\ fs' = [fs EXCEPT !.sending = TRUE]
      /\ UNCHANGED <<fx, pc, jobs, n, qfile, call, done>>
  BY DEF PutDataComplete, CapiIdle
<1>2. /\ TypeOK /\ Conversion(fx) /\ net \in Connection /\ pc = "wait" /\ fs \in Sender
      /\ ~fs.poll /\ fx.err = "Okay"
  BY <1>1, CapiThread
<1>3. net.queue \in Seq(Seq(Chunks)) /\ net.far \in Seq(Chunks)
  BY <1>2 DEF Connection
<1> DEFINE b == Head(net.queue)
           t == Tail(net.queue)
           f == net.far \o b
           k == Len(net.queue)
<1>4. /\ t \in Seq(Seq(Chunks)) /\ b \in Seq(Chunks) /\ b = net.queue[1]
      /\ DOMAIN net.queue = 1 .. k /\ DOMAIN t = 1 .. k - 1 /\ k \in Nat \ {0}
      /\ \A i \in 1 .. k - 1 : t[i] = net.queue[i + 1]
      /\ QueuePages(net.queue) = PagesOf(b) \cup QueuePages(t)
  BY <1>1, <1>3, QueueTail
<1>5. net' = [net EXCEPT !.queue = t, !.far = f]
  BY <1>1, <1>2 DEF Connection
<1>6. f \in Seq(Chunks) /\ PagesOf(f) = PagesOf(net.far) \cup PagesOf(b)
  BY <1>3, <1>4, ConcatProperties, PagesOfConcat
<1>7. /\ InOrder(net.far) /\ InOrder(fx.filter) /\ Precedes(net.far, fx.filter)
      /\ \A i \in 1 .. k :
           /\ InOrder(net.queue[i])
           /\ Precedes(net.far, net.queue[i])
           /\ Precedes(net.queue[i], fx.filter)
           /\ \A a \in 1 .. i - 1 : Precedes(net.queue[a], net.queue[i])
  <2> HIDE DEF k
  <2> QED
    BY <1>4 DEF Inv, Ordered
<1> HIDE DEF b, t, k
<1>8. InOrder(f) /\ \A u : Precedes(net.far, u) /\ Precedes(b, u) => Precedes(f, u)
  <2>1. 1 \in 1 .. k
    BY <1>4
  <2> QED
    BY <1>3, <1>4, <1>7, <2>1, ConcatOrder
<1> HIDE DEF f
<1>9. net' \in Connection /\ net'.queue = t /\ net'.far = f /\ net'.told = net.told
      /\ net'.hang = net.hang
  BY <1>2, <1>4, <1>5, <1>6 DEF Connection
<1>10. /\ fs' \in Sender /\ fs'.posts = fs.posts /\ fs'.poll = fs.poll /\ fs'.sending
       /\ fs'.exitState = fs.exitState
  BY <1>1, <1>2 DEF Sender
<1>11. /\ Precedes(f, fx.filter)
       /\ \A i \in 1 .. k - 1 :
            /\ InOrder(t[i]) /\ Precedes(f, t[i]) /\ Precedes(t[i], fx.filter)
            /\ \A a \in 1 .. i - 1 : Precedes(t[a], t[i])
  <2>1. 1 \in 1 .. k
    BY <1>4
  <2>2. Precedes(f, fx.filter)
    BY <1>4, <1>7, <1>8, <2>1
  <2>3. ASSUME NEW i \in 1 .. k - 1
        PROVE  /\ InOrder(t[i]) /\ Precedes(f, t[i]) /\ Precedes(t[i], fx.filter)
               /\ \A a \in 1 .. i - 1 : Precedes(t[a], t[i])
    <3>1. i + 1 \in 1 .. k /\ 1 \in 1 .. (i + 1) - 1 /\ t[i] = net.queue[i + 1]
      BY <1>4
    <3>2. \A a \in 1 .. i - 1 : a \in 1 .. k - 1 /\ a + 1 \in 1 .. (i + 1) - 1
      BY <1>4
    <3>3. InOrder(t[i]) /\ Precedes(t[i], fx.filter)
      BY <1>7, <3>1
    <3>4. Precedes(f, t[i])
      BY <1>4, <1>7, <1>8, <3>1
    <3>5. \A a \in 1 .. i - 1 : Precedes(t[a], t[i])
      BY <1>4, <1>7, <3>1, <3>2
    <3> QED
      BY <3>3, <3>4, <3>5
  <2> QED
    BY <2>2, <2>3
<1>12. Ordered'
  BY <1>1, <1>4, <1>7, <1>8, <1>9, <1>11 DEF Ordered
<1>13. /\ Job' = Job /\ Plain' = Plain /\ PagesRead' = PagesRead /\ Sends /\ Sends'
  BY <1>1, <1>2, <1>10, SameReading DEF Sends
<1>14. Reading'
  <2>1. ASSUME fx.finished = 0
        PROVE  /\ Precedes(f, <<Chunk(fx)>>)
               /\ \A i \in DOMAIN t : Precedes(t[i], <<Chunk(fx)>>)
    <3> DEFINE c == <<Chunk(fx)>>
    <3>1. Precedes(net.far, c) /\ \A i \in 1 .. k : Precedes(net.queue[i], c)
      BY <1>4, <1>13, <2>1 DEF Inv, Reading
    <3> HIDE DEF c
    <3>2. 1 \in 1 .. k /\ \A i \in 1 .. k - 1 : i + 1 \in 1 .. k
      BY <1>4
    <3>3. Precedes(f, c) /\ \A i \in DOMAIN t : Precedes(t[i], c)
      BY <1>4, <1>8, <3>1, <3>2
    <3> QED
      BY <3>3 DEF c
  <2> QED
    BY <1>1, <1>9, <1>13, <2>1 DEF Inv, Reading
<1>15. NothingLost'
  <2>1. PagesOf(net'.far) \cup QueuePages(net'.queue)
          = PagesOf(net.far) \cup QueuePages(net.queue)
    BY <1>4, <1>6, <1>9
  <2> QED
    BY <1>1, <1>9, <1>10, <1>13, <2>1 DEF Inv, NothingLost
<1>16. SameFax(fx, fx') /\ fx'.err = "Okay" /\ pc' = "wait" /\ call' = "connected"
  BY <1>1, <1>2 DEF SameFax
<1> QED
  BY <1>1, <1>2, <1>9, <1>10, <1>12, <1>14, <1>15, <1>16, SendKeeps

(* A poll gets its last page when the document has no more of them.        *)
LEMMA GetDataKeeps ==
  ASSUME Inv, GetData
  PROVE  Inv'
<1>1. /\ ~fs.sending /\ pc # "crash" /\ call = "connected" /\ fs.poll
      /\ net.got <= net.doc
      /\ UNCHANGED <<fs, pc, jobs, n, qfile, call, done>>
  BY DEF GetData, CapiIdle
<1>2. /\ TypeOK /\ Conversion(fx) /\ net \in Connection /\ pc = "wait" /\ fs \in Sender
      /\ fs.poll = Job.poll
  BY <1>1, CapiThread
<1> DEFINE what == IF net.got = 0 THEN "head"
                   ELSE IF net.got = net.doc THEN "last" ELSE "page"
           more == [net EXCEPT !.got = @ + 1]
<1>3. PICK able \in BOOLEAN :
        LET r == RecvSFF(fx, [seq |-> 0, names |-> {}], what, able)
        IN  /\ fx' = r.fx
            /\ net' = IF r.ret = "Okay" THEN more ELSE Disconnect(more, "fast")
  BY DEF GetData
<1>4. fx' = RecvSFF(fx, [seq |-> 0, names |-> {}], what, able).fx
      /\ net' \in {more, Disconnect(more, "fast")}
  BY <1>3
<1>5. what \in {"head", "page", "last"} /\ (what = "last" => net.got = net.doc)
  OBVIOUS
<1> HIDE DEF what
<1>6. Receives(fx, fx')
      /\ (fx.format # "g3" /\ fx'.recvState = 3 => fx.recvState = 3 \/ what = "last")
  BY <1>2, <1>4, <1>5, RecvSFFIs
<1>7. net.got \in Nat /\ net.doc \in Nat
  BY <1>2 DEF Connection
<1>8. /\ more \in Connection /\ more.queue = net.queue /\ more.far = net.far
      /\ more.told = net.told /\ more.doc = net.doc /\ more.got = net.got + 1
  <2> DEFINE g == net.got + 1
  <2>1. g \in Nat /\ more = [net EXCEPT !.got = g]
    BY <1>2, <1>7 DEF Connection
  <2> HIDE DEF g, more
  <2>2. /\ more \in Connection /\ more.queue = net.queue /\ more.far = net.far
        /\ more.told = net.told /\ more.doc = net.doc /\ more.got = g
    BY <1>2, <2>1 DEF Connection
  <2> QED
    BY <2>2 DEF g
<1> HIDE DEF more
<1>9. /\ net' \in Connection /\ net'.queue = net.queue /\ net'.far = net.far
      /\ net'.told = net.told /\ net'.doc = net.doc /\ net'.got = net.got + 1
  BY <1>4, <1>8, DisconnectIs
<1>10. n = 1 /\ fx.format # "g3" /\ fx'.recvState = 3 => net'.got > net'.doc
  <2> SUFFICES ASSUME n = 1, fx.format # "g3", fx'.recvState = 3 PROVE net'.got > net'.doc
    OBVIOUS
  <2>1. CASE fx.recvState = 3
    BY <1>1, <1>2, <1>7, <2>1 DEF Inv, FirstPoll
  <2>2. CASE what = "last"
    BY <1>5, <1>7, <1>9, <2>2
  <2> QED
    BY <1>6, <2>1, <2>2
<1> QED
  BY <1>1, <1>2, <1>6, <1>9, <1>10, PollKeeps

(* DisconnectInquiry: an okay stands only when everything was sent.        *)
LEMMA PagesSentIs ==
  ASSUME fx.pages \in Nat, net.far \in Seq(Chunks)
  PROVE  PagesSent \in Nat
<1>1. DOMAIN net.far = 1 .. Len(net.far) /\ Len(net.far) \in Nat
  BY LenProperties
<1>2. IsFiniteSet(1 .. Len(net.far))
  BY <1>1, FS_Interval
<1> DEFINE sent == {i \in DOMAIN net.far : net.far[i] # FinalHeader}
<1>3. sent \subseteq 1 .. Len(net.far)
  BY <1>1
<1> HIDE DEF sent
<1>4. Cardinality(sent) \in Nat
  BY <1>2, <1>3, FS_Subset, FS_CardinalityType
<1> QED
  BY <1>4 DEF PagesSent, sent

LEMMA InquiryResultIs ==
  ASSUME fs.poll \in BOOLEAN, fx.finished \in {0, 1, 2}, fx.recvState \in {0, 1, 2, 3},
         NEW e \in 0 .. 13, NEW reason \in {0, 1}
  PROVE  /\ InquiryResult(e, reason) \in 0 .. 13
         /\ InquiryResult(e, reason) = 0 =>
              /\ reason = 0
              /\ ~fs.poll => fx.finished = 2 /\ e = 0
              /\ fs.poll => fx.recvState = 3
BY DEF InquiryResult

LEMMA DisconnectInquiryKeeps ==
  ASSUME Inv, DisconnectInquiry
  PROVE  Inv'
<1>1. /\ ~fs.sending /\ pc # "crash" /\ call \in {"setup", "connected"} /\ call' = "closing"
      /\ net' = [net EXCEPT !.queue = <<>>, !.told = TRUE]
      /\ UNCHANGED <<pc, jobs, n, qfile, done>>
  BY DEF DisconnectInquiry, CapiIdle
<1>2. /\ TypeOK /\ Conversion(fx) /\ net \in Connection /\ pc = "wait" /\ fs \in Sender
      /\ fs.posts = 0 /\ fs.poll = Job.poll /\ fx.err = "Okay" /\ n \in DOMAIN jobs
      /\ (Plain => ~fs.poll)
  BY <1>1, CapiThread
<1> DEFINE differs(ncpi) == ncpi /\ fx.pages # PagesSent
           e(ncpi) == IF differs(ncpi) /\ fx.format # "sff" /\ fs.exitState = 0
                      THEN 12 ELSE fs.exitState
           v(ncpi) == IF ncpi THEN PagesSent ELSE fx.pages
<1>3. PICK reason \in {0, 1}, ncpi \in BOOLEAN :
        /\ reason = 0 /\ net.hang = "normal" => net.queue = <<>>
        /\ fs' = Exit(InquiryResult(e(ncpi), reason))
        /\ fx' = [StopSend(fx) EXCEPT !.pages = IF ncpi THEN PagesSent ELSE @]
  BY DEF DisconnectInquiry
<1> DEFINE p == v(ncpi)
           x == e(ncpi)
<1>4. p \in Nat /\ fx' = [fx EXCEPT !.finished = 2, !.pages = p]
  <2>1. PagesSent \in Nat /\ fx.pages \in Nat
    <3>1. fx.pages \in Nat /\ net.far \in Seq(Chunks)
      BY <1>2 DEF Conversion, Connection
    <3> QED
      BY <3>1, PagesSentIs
  <2>2. p \in Nat
    BY <2>1
  <2> HIDE DEF PagesSent
  <2> QED
    BY <1>2, <1>3, <2>2 DEF StopSend, Conversion
<1>5. x \in 0 .. 13
      /\ (x = 0 => fs.exitState = 0 /\ (fx.format # "sff" => p = fx.pages))
  <2>1. fs.exitState \in 0 .. 13
    BY <1>2 DEF Sender
  <2> HIDE DEF PagesSent
  <2> QED
    BY <2>1
<1>6. fs' = Exit(InquiryResult(x, reason))
  BY <1>3
<1> HIDE DEF p, x
<1>7. /\ Conversion(fx') /\ fx'.format = fx.format /\ fx'.list = fx.list
      /\ fx'.filter = fx.filter /\ fx'.err = "Okay" /\ fx'.recvState = fx.recvState
      /\ fx'.pages = p /\ fx'.finished = 2
  <2>1. /\ fx'.format = fx.format /\ fx'.list = fx.list
        /\ fx'.filter = fx.filter /\ fx'.err = fx.err /\ fx'.recvState = fx.recvState
        /\ fx'.pages = p /\ fx'.finished = 2
    BY <1>2, <1>4 DEF Conversion
  <2>2. Conversion([fx EXCEPT !.finished = 2, !.pages = p])
    BY <1>2, <1>4 DEF Conversion
  <2>3. Conversion(fx')
    BY <1>4, <2>2
  <2> QED
    BY <1>2, <2>1, <2>3
<1> DEFINE y == InquiryResult(x, reason)
<1>8. /\ y \in 0 .. 13
      /\ y = 0 => /\ reason = 0
                  /\ ~fs.poll => fx.finished = 2 /\ x = 0
                  /\ fs.poll => fx.recvState = 3
  <2>1. fs.poll \in BOOLEAN /\ fx.finished \in {0, 1, 2} /\ fx.recvState \in {0, 1, 2, 3}
    BY <1>2 DEF Sender, Conversion
  <2> QED
    BY <1>5, <2>1, InquiryResultIs
<1>9. fs' = Exit(y)
  BY <1>6
<1> HIDE DEF y
<1>10. /\ fs' \in Sender /\ fs'.exitState = y /\ fs'.poll = fs.poll /\ fs'.posts = 0
       /\ ~fs'.sending
  BY <1>1, <1>2, <1>8, <1>9, ExitIs
<1>11. /\ net' \in Connection /\ net'.queue = <<>> /\ net'.far = net.far /\ net'.told
       /\ net'.got = net.got /\ net'.doc = net.doc
  <2> DEFINE none == <<>>
  <2>1. none \in Seq(Seq(Chunks)) /\ net' = [net EXCEPT !.queue = none, !.told = TRUE]
    BY <1>1
  <2> HIDE DEF none
  <2>2. /\ net' \in Connection /\ net'.queue = none /\ net'.far = net.far /\ net'.told
        /\ net'.got = net.got /\ net'.doc = net.doc
    BY <1>2, <2>1 DEF Connection
  <2> QED
    BY <2>2 DEF none
<1>12. TypeOK'
  BY <1>1, <1>2, <1>7, <1>10, <1>11, TypeStays
<1>13. Job' = Job /\ Plain' = Plain /\ Tiff(fx') = Tiff(fx)
  BY <1>1, <1>7, SameReading DEF Tiff
<1>14. Threads'
  BY <1>1, <1>2, <1>7, <1>10, <1>11, <1>13 DEF Threads
<1>15. Closed' /\ Reading' /\ NothingLost'
  BY <1>1, <1>2 DEF Closed, Over, Reading, NothingLost, Sends
<1>16. Ordered'
  BY <1>7, <1>11 DEF Inv, Ordered
<1>17. Told'
  <2>1. ASSUME y = 0, Plain
        PROVE  /\ PagesOf(net.far) = Document(Job, fx.format)
               /\ Tiff(fx) => p = Cardinality(Document(Job, fx.format))
    <3>1. Sends /\ fx.finished = 2 /\ x = 0 /\ reason = 0
      BY <1>1, <1>2, <1>8, <2>1 DEF Sends
    <3>2. /\ PagesOf(net.far) \cup QueuePages(net.queue) \cup PagesOf(fx.filter) = PagesRead
          /\ net.hang = "normal" /\ fx.filter = <<>>
          /\ Tiff(fx) => fx.pages = Cardinality(PagesRead)
      BY <2>1, <3>1 DEF Inv, NothingLost
    <3>3. net.queue = <<>>
      BY <1>3, <3>1, <3>2
    <3>4. QueuePages(net.queue) = {} /\ PagesOf(fx.filter) = {}
      BY <3>2, <3>3, PagesOfEmpty DEF QueuePages
    <3>5. PagesRead = Document(Job, fx.format)
      BY <3>1 DEF PagesRead, ReadOf
    <3>6. Tiff(fx) => fx.format # "sff"
      BY DEF Tiff
    <3> QED
      BY <1>5, <3>1, <3>2, <3>4, <3>5, <3>6
  <2>2. y = 0 /\ Job.poll => fx.recvState = 3
    BY <1>2, <1>8
  <2> QED
    BY <1>7, <1>10, <1>11, <1>13, <2>1, <2>2 DEF Told
<1>18. FirstPoll'
  BY <1>1, <1>2, <1>7, <1>11, <1>13 DEF Inv, FirstPoll
<1> QED
  BY <1>1, <1>7, <1>12, <1>14, <1>15, <1>16, <1>17, <1>18, RecordStays DEF Inv

(* IsDisconnected: everything is closed, and no result becomes an okay.    *)
LEMMA DisconnectResultIs ==
  ASSUME NEW e \in 0 .. 13, NEW reason \in Reasons
  PROVE  /\ DisconnectResult(e, reason) \in 0 .. 13
         /\ DisconnectResult(e, reason) = 0 => e = 0
<1>1. reason # "other" =>
        [info |-> 2, capi |-> 3, busy |-> 4, layer1 |-> 5, layer |-> 10][reason] \in 2 .. 10
  BY DEF Reasons
<1> QED
  BY <1>1 DEF DisconnectResult, Reasons

LEMMA CloseIs ==
  ASSUME NEW c, Conversion(c), NEW poll \in BOOLEAN
  PROVE  LET d == [CloseRecv(CloseSend(c)) EXCEPT !.names = IF poll THEN <<>> ELSE @]
         IN  /\ Conversion(d) /\ d.format = c.format /\ d.list = c.list /\ d.err = c.err
             /\ d.recvState = c.recvState /\ d.pages = c.pages /\ d.open = 0 /\ d.filter = <<>>
             /\ ~d.fd /\ (poll => d.names = <<>>)
<1> DEFINE none == <<>>
           left == IF poll THEN <<>> ELSE c.names
           d == [CloseRecv(CloseSend(c)) EXCEPT !.names = IF poll THEN <<>> ELSE @]
<1>1. none \in Seq(Chunks)
  OBVIOUS
<1>2. d = [c EXCEPT !.finished = 2, !.open = 0, !.filter = none, !.fine = FALSE,
                    !.fd = FALSE, !.names = left]
  BY DEF CloseRecv, StopRecv, CloseSend, StopSend, Conversion
<1>3. poll => left = <<>>
  OBVIOUS
<1> HIDE DEF none, left, d
<1>4. Conversion(d)
  BY <1>1, <1>2 DEF Conversion
<1>5. /\ d.format = c.format /\ d.list = c.list /\ d.err = c.err
      /\ d.recvState = c.recvState /\ d.pages = c.pages /\ d.open = 0 /\ d.filter = none
      /\ ~d.fd /\ d.names = left
  BY <1>2 DEF Conversion
<1> QED
  BY <1>3, <1>4, <1>5 DEF d, none

LEMMA IsDisconnectedKeeps ==
  ASSUME Inv, IsDisconnected
  PROVE  Inv'
<1>1. /\ ~fs.sending /\ pc # "crash" /\ call \in {"setup", "connected", "closing"}
      /\ call' = "reset"
      /\ fx' = [CloseRecv(CloseSend(fx)) EXCEPT !.names = IF fs.poll THEN <<>> ELSE @]
      /\ net' = [net EXCEPT !.queue = <<>>]
      /\ UNCHANGED <<pc, jobs, n, qfile, done>>
  BY DEF IsDisconnected, CapiIdle
<1>2. /\ TypeOK /\ Conversion(fx) /\ net \in Connection /\ pc = "wait" /\ fs \in Sender
      /\ fs.posts = 0 /\ fs.poll = Job.poll /\ fx.err = "Okay" /\ n \in DOMAIN jobs
  BY <1>1, CapiThread
<1>3. PICK reason \in Reasons : fs' = Exit(DisconnectResult(fs.exitState, reason))
  BY DEF IsDisconnected
<1> DEFINE y == DisconnectResult(fs.exitState, reason)
<1>4. y \in 0 .. 13 /\ (y = 0 => fs.exitState = 0)
  <2>1. fs.exitState \in 0 .. 13
    BY <1>2 DEF Sender
  <2> QED
    BY <2>1, DisconnectResultIs
<1>5. fs' = Exit(y)
  BY <1>3
<1> HIDE DEF y
<1>6. /\ fs' \in Sender /\ fs'.exitState = y /\ fs'.poll = fs.poll /\ fs'.posts = 0
      /\ ~fs'.sending /\ fs.poll \in BOOLEAN
  BY <1>1, <1>2, <1>4, <1>5, ExitIs DEF Sender
<1>7. /\ Conversion(fx') /\ fx'.format = fx.format /\ fx'.list = fx.list /\ fx'.err = "Okay"
      /\ fx'.recvState = fx.recvState /\ fx'.pages = fx.pages /\ fx'.open = 0
      /\ fx'.filter = <<>> /\ ~fx'.fd /\ (fs.poll => fx'.names = <<>>)
  BY <1>1, <1>2, <1>6, CloseIs
<1>8. /\ net' \in Connection /\ net'.queue = <<>> /\ net'.far = net.far
      /\ net'.told = net.told /\ net'.got = net.got /\ net'.doc = net.doc
  <2> DEFINE none == <<>>
  <2>1. none \in Seq(Seq(Chunks)) /\ net' = [net EXCEPT !.queue = none]
    BY <1>1
  <2> HIDE DEF none
  <2>2. /\ net' \in Connection /\ net'.queue = none /\ net'.far = net.far
        /\ net'.told = net.told /\ net'.got = net.got /\ net'.doc = net.doc
    BY <1>2, <2>1 DEF Connection
  <2> QED
    BY <2>2 DEF none
<1>9. TypeOK'
  BY <1>1, <1>2, <1>6, <1>7, <1>8, TypeStays
<1>10. Job' = Job /\ Plain' = Plain /\ Tiff(fx') = Tiff(fx)
  BY <1>1, <1>7, SameReading DEF Tiff
<1>11. Threads'
  BY <1>1, <1>2, <1>6, <1>7, <1>8, <1>10 DEF Threads
<1>12. Closed'
  BY <1>6, <1>7 DEF Closed
<1>13. Reading' /\ NothingLost'
  BY <1>1 DEF Reading, NothingLost, Sends
<1>14. Ordered'
  <2>1. InOrder(<<>>) /\ Precedes(net.far, <<>>)
    BY DEF InOrder, Precedes
  <2> QED
    BY <1>7, <1>8, <2>1 DEF Inv, Ordered
<1>15. Told'
  BY <1>1, <1>2, <1>4, <1>6, <1>7, <1>8, <1>10 DEF Inv, Told
<1>16. FirstPoll'
  BY <1>1, <1>2, <1>7, <1>8, <1>10 DEF Inv, FirstPoll
<1> QED
  BY <1>1, <1>7, <1>9, <1>11, <1>12, <1>13, <1>14, <1>15, <1>16, RecordStays DEF Inv

-----------------------------------------------------------------------------
(* The invariant of the program                                            *)

LEMMA StutterKeeps ==
  ASSUME Inv, UNCHANGED vars
  PROVE  Inv'
<1> USE DEF vars
<1>1. TypeOK'
  BY DEF Inv, TypeOK
<1>2. Threads'
  BY DEF Inv, Threads, Job
<1>3. Closed'
  BY DEF Inv, Closed, Over
<1>4. Ordered'
  BY DEF Inv, Ordered
<1>5. Sends' = Sends /\ Plain' = Plain /\ Job' = Job /\ PagesRead' = PagesRead
  BY SameReading DEF Sends
<1>6. Reading' /\ NothingLost'
  BY <1>5 DEF Inv, Reading, NothingLost
<1>7. Told' /\ FirstPoll'
  BY <1>5 DEF Inv, Told, FirstPoll
<1> QED
  BY <1>1, <1>2, <1>3, <1>4, <1>6, <1>7, RecordStays DEF Inv

(* A read that fails changes nothing: the loop of FillSffFilter, or that   *)
(* of SendData, turns once more.                                           *)
LEMMA ReadAgain ==
  ASSUME Inv, ReadFails(fx), FillsFilter \/ (ShipsBlock /\ fx.format = "sff")
  PROVE  UNCHANGED vars
<1>1. CASE FillsFilter
  <2>1. /\ fs.sending /\ pc # "crash" /\ fx' = FillSffFilter(fx) /\ ~Tiff(fx)
        /\ pc' = (IF fx'.err = "Crash" THEN "crash" ELSE pc)
        /\ UNCHANGED <<fs, jobs, n, qfile, call, net, done>>
    BY <1>1 DEF FillsFilter, SendsMore, ReadFails
  <2>2. FillSffFilter(fx) = fx
    BY <2>1 DEF FillSffFilter
  <2>3. fx.err # "Crash"
    BY <2>1 DEF Inv, Threads
  <2> QED
    BY <2>1, <2>2, <2>3 DEF vars
<1>2. CASE ShipsBlock /\ fx.format = "sff"
  <2> DEFINE r == IF fx.format = "sff" THEN ReadSFF(fx)
                  ELSE [fx |-> SendSFF(fx), out |-> Out(fx)]
             err == IF fx.format = "sff" THEN "Okay" ELSE fx.err
  <2>1. r.fx = fx /\ r.out = <<>> /\ err = "Okay"
    BY <1>2 DEF ReadSFF
  <2> HIDE DEF r, err
  <2>2. /\ fx' = r.fx
        /\ CASE err # "Okay" ->
                  /\ fs' = IF err = "NotExist" THEN Exit(1) ELSE fs
                  /\ net' = Disconnect(net, "fast")
             [] err = "Okay" /\ r.fx.finished = 2 ->
                  fs' = Exit(0) /\ net' = Shipped(r.out)
             [] OTHER -> fs' = fs /\ net' = PutData(r.out)
        /\ UNCHANGED <<pc, jobs, n, qfile, call, done>>
    BY <1>2 DEF ShipsBlock, r, err
  <2>3. fx.finished # 2
    BY <1>2 DEF ShipsBlock, SendsMore
  <2>4. fs' = fs /\ net' = PutData(<<>>)
    BY <2>1, <2>2, <2>3
  <2>5. net' = net
    BY <2>4 DEF PutData
  <2> QED
    BY <2>1, <2>2, <2>4, <2>5 DEF vars
<1> QED
  BY <1>1, <1>2

LEMMA NextKeeps ==
  ASSUME Inv, [Next]_vars
  PROVE  Inv'
<1>1. CASE StartsJob
  BY <1>1, StartsJobKeeps
<1>2. CASE Awakes
  BY <1>2, AwakesKeeps
<1>3. CASE EndsJob
  BY <1>3, EndsJobKeeps
<1>4. CASE EndsProgram
  BY <1>4, EndsProgramKeeps
<1>5. CASE IsConnected
  BY <1>5, IsConnectedKeeps
<1>6. CASE FillsFilter
  BY <1>6, FillsFilterKeeps, ReadAgain, StutterKeeps
<1>7. CASE ShipsBlock
  BY <1>7, ShipsBlockKeeps, ReadAgain, StutterKeeps
<1>8. CASE LeavesSendData
  BY <1>8, LeavesSendDataKeeps
<1>9. CASE PutDataComplete
  BY <1>9, PutDataCompleteKeeps
<1>10. CASE GetData
  BY <1>10, GetDataKeeps
<1>11. CASE DisconnectInquiry
  BY <1>11, DisconnectInquiryKeeps
<1>12. CASE IsDisconnected
  BY <1>12, IsDisconnectedKeeps
<1>13. CASE IsReseted
  BY <1>13, IsResetedKeeps
<1>14. CASE UNCHANGED vars
  BY <1>14, StutterKeeps
<1> QED
  BY <1>1, <1>2, <1>3, <1>4, <1>5, <1>6, <1>7, <1>8, <1>9, <1>10, <1>11, <1>12, <1>13,
     <1>14 DEF Next

(* In every state of the program, for any command line: the stream of the  *)
(* fax is whole and in order up to the page that is read next, and what    *)
(* the exitState and the qfile say at the end follows from it.             *)
THEOREM InvHolds == Spec => []Inv
<1>1. Init => Inv
  BY InitKeeps
<1>2. Inv /\ [Next]_vars => Inv'
  BY NextKeeps
<1> QED
  BY <1>1, <1>2, PTL DEF Spec

(* c2faxsend reports "okay" for a job only when the far side has every     *)
(* page of it in order, or of a polled fax every page came, but for the    *)
(* cases that KnownFalseOkay lists: the loops of FillSffFilter, SendSFF    *)
(* and SendData lose no page and DisconnectInquiry takes back an okay that *)
(* was given before the last blocks had gone.                              *)
THEOREM OkayIsDelivered == Spec => []OkayMeansDeliveredElse
<1>1. Inv => OkayMeansDeliveredElse
  BY DEF Inv, Results
<1> QED
  BY <1>1, InvHolds, PTL

(* No page goes twice or ahead of an earlier one, and when the main thread *)
(* learns of the end of a call nothing of it is left for the next.         *)
THEOREM FaxesStayApart == Spec => []FaxesApart
<1>1. Inv => FaxesApart
  <2> SUFFICES ASSUME Inv PROVE FaxesApart
    OBVIOUS
  <2>1. PagesInOrder
    BY DEF Inv, Ordered, PagesInOrder
  <2>2. CleanBetweenCalls
    <3> SUFFICES ASSUME call = "idle", pc = "wait" \/ (pc = "close" /\ net.hang # "no")
                 PROVE  /\ net.queue = <<>> /\ ~fs.sending
                        /\ fx.open = 0 /\ ~fx.fd /\ fx.filter = <<>>
                        /\ (fs.poll => fx.names = <<>>)
                        /\ fs.posts = (IF pc = "wait" THEN 1 ELSE 0)
      BY DEF CleanBetweenCalls
    <3>1. Over
      BY DEF Over
    <3>2. fx.open = 0 /\ ~fx.fd /\ fx.filter = <<>> /\ (fs.poll => fx.names = <<>>)
      BY <3>1 DEF Inv, Closed
    <3>3. /\ net.queue = <<>> /\ ~fs.sending
          /\ fs.posts = (IF pc = "wait" THEN 1 ELSE 0)
      BY DEF Inv, Threads
    <3> QED
      BY <3>2, <3>3
  <2> QED
    BY <2>1, <2>2 DEF FaxesApart
<1> QED
  BY <1>1, InvHolds, PTL

(* OneQFileSend leaves in the qfile what HylaFAX is to know of its job:    *)
(* its exitState, not "Sending job", the return value made of it, one dial *)
(* and, for an okay, the number of pages of the fax.                       *)
THEOREM QFileTells == Spec => []QFileTellsResult
<1>1. Inv => QFileTellsResult
  BY DEF Inv, Results
<1> QED
  BY <1>1, InvHolds, PTL

=============================================================================
