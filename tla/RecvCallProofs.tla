--------------------------- MODULE RecvCallProofs ---------------------------
(***************************************************************************)
(* Proofs about the receivers of a device, for any number of receivers,    *)
(* any spool directory and faxes of any length: the files that are created *)
(* are handed over once each, no two sessions have one log file, and       *)
(* HylaFAX is told the truth.                                              *)
(***************************************************************************)
EXTENDS RecvCall, SequenceTheorems, FiniteSetTheorems, WellFoundedInduction, TLAPS

FileNames == Nat \X Nat

Fax ==
  [format : Formats, list : {<<>>}, cur : {0}, open : {0}, pos : {0}, filter : {<<>>},
   fine : {FALSE}, finished : {0, 2}, pages : Nat, vres : {0}, err : {"Okay"},
   recvState : {0, 1, 2, 3}, fd : BOOLEAN, names : Seq(FileNames), nr : Nat]

Phases == {"idle", "setup", "connected", "closing", "gone"}

Letters == {"I", "B", "S", "P", "R"}

Receiver ==
  [fx : Fax, call : Phases, jobNr : Nat, quit : BOOLEAN, hang : BOOLEAN,
   doc : Documents \cup {1}, got : Nat, fifo : Seq(Letters)]

Spool == [seq : Nat, names : SUBSET FileNames]

-----------------------------------------------------------------------------
(* The operators on files                                                  *)

(* A set of numbers that is not empty has a least one.                     *)
LEMMA LeastNumber ==
  ASSUME NEW T, T \subseteq Nat, T # {}
  PROVE  \E k \in T : \A j \in T : k <= j
<1> DEFINE R == OpToRel(<, Nat)
<1>1. PICK k \in T : \A j \in T : <<j, k>> \notin R
  <2>1. IsWellFoundedOn(R, Nat)
    BY NatLessThanWellFounded
  <2> HIDE DEF R
  <2> QED BY <2>1, WFMin
<1>2. \A j \in T : ~ (j < k)
  BY <1>1 DEF OpToRel
<1> QED
  BY <1>2

(* What GetRecvFile and GetJobFile find is a number that no file has.      *)
LEMMA NumberIsFree ==
  ASSUME NEW d \in Spool
  PROVE  /\ FreeNumber(d) \in Nat
         /\ FreeNumber(d) # 0 => <<FreeNumber(d), 1>> \notin d.names
<1> DEFINE number == Tries(d.seq)
           free == {i \in DOMAIN number : <<number[i], 1>> \notin d.names}
           least == CHOOSE i \in free : \A j \in free : i <= j
<1>1. number \in [1 .. MaxTry -> Nat]
  BY FaxFilesAssumption DEF Tries, Spool
<1>2. free \subseteq Nat
  BY <1>1, FaxFilesAssumption
<1>3. ASSUME free # {} PROVE least \in free
  BY <1>2, <1>3, LeastNumber
<1>4. FreeNumber(d) = IF free = {} THEN 0 ELSE number[least]
  BY DEF FreeNumber
<1>5. ASSUME free # {} PROVE number[least] \in Nat /\ <<number[least], 1>> \notin d.names
  BY <1>1, <1>3, <1>5
<1> QED
  BY <1>4, <1>5

(* A file that is created is new, and it is put into the list.             *)
Lists(fx, d, o) ==
  \E new \in SUBSET FileNames :
    /\ new \cap d.names = {}
    /\ o.disk.names = d.names \cup new
    /\ Range(o.fx.names) = Range(fx.names) \cup new

(* A step that leaves names and directory as they are brings no file.      *)
LEMMA NothingNew ==
  ASSUME NEW fx, NEW d, NEW o, o.fx.names = fx.names, o.disk.names = d.names
  PROVE  Lists(fx, d, o)
<1>1. {} \in SUBSET FileNames /\ {} \cap d.names = {}
  OBVIOUS
<1> QED
  BY <1>1 DEF Lists

LEMMA OnlyNames ==
  ASSUME NEW fx, NEW f, NEW d, NEW o, f.names = fx.names, Lists(f, d, o)
  PROVE  Lists(fx, d, o)
BY DEF Lists

(* GetRecvFile, for a call that has no file yet: it lists the file it      *)
(* creates, or leaves everything as it was.                                *)
LEMMA GetRecvFileLists ==
  ASSUME NEW fx \in Fax, NEW d \in Spool, NEW able \in BOOLEAN, fx.names = <<>>
  PROVE  LET o == GetRecvFile(fx, d, able)
         IN  /\ o.fx \in Fax /\ o.disk \in Spool
             /\ o.fx.names = <<>> => ~o.fx.fd /\ o.disk = d
             /\ o.fx.format = fx.format /\ o.fx.finished = fx.finished
             /\ o.fx.pages = fx.pages /\ o.fx.recvState = fx.recvState
             /\ Lists(fx, d, o)
<1> DEFINE o == GetRecvFile(fx, d, able)
           n == FreeNumber(d)
<1>0. n \in Nat /\ (n # 0 => <<n, 1>> \notin d.names)
  BY NumberIsFree
<1> HIDE DEF n
<1>1. CASE ~able \/ n = 0
  <2>1. /\ o.fx = [fx EXCEPT !.names = <<>>, !.fd = FALSE]
        /\ o.disk = d
    BY <1>1 DEF GetRecvFile, n
  <2> HIDE DEF o
  <2>2. o.fx \in Fax /\ o.fx.names = <<>>
    BY <2>1, EmptySeq DEF Fax
  <2>3. Lists(fx, d, o)
    BY <2>1, <2>2, NothingNew
  <2>4. /\ o.disk = d /\ ~o.fx.fd
        /\ o.fx.format = fx.format /\ o.fx.finished = fx.finished
        /\ o.fx.pages = fx.pages /\ o.fx.recvState = fx.recvState
    BY <2>1 DEF Fax
  <2>5. o.disk \in Spool
    BY <2>4
  <2> QED
    BY <2>2, <2>3, <2>4, <2>5 DEF o
<1>2. CASE able /\ n # 0
  <2>1. /\ o.fx = [fx EXCEPT !.names = <<<<n, 1>>>>, !.nr = n, !.fd = TRUE]
        /\ o.disk = [d EXCEPT !.names = @ \cup {<<n, 1>>}, !.seq = n]
    BY <1>2 DEF GetRecvFile, n, Created, Fax, Spool
  <2> HIDE DEF o
  <2>2. <<n, 1>> \in FileNames
    BY <1>0 DEF FileNames
  <2>3. o.disk \in Spool /\ o.disk.names = d.names \cup {<<n, 1>>}
    <3>1. d.names \cup {<<n, 1>>} \in SUBSET FileNames
      BY <2>2 DEF Spool
    <3>2. o.disk = [seq |-> n, names |-> d.names \cup {<<n, 1>>}]
      BY <2>1 DEF Spool
    <3> DEFINE held == d.names \cup {<<n, 1>>}
    <3> HIDE DEF held
    <3>3. held \in SUBSET FileNames
      BY <3>1 DEF held
    <3>4. [seq |-> n, names |-> held] \in Spool
      BY <3>3, <1>0 DEF Spool
    <3> QED
      BY <3>2, <3>4 DEF held
  <2>4. o.fx \in Fax /\ o.fx.names = <<<<n, 1>>>>
    <3> DEFINE one == <<<<n, 1>>>>
    <3>1. one \in Seq(FileNames)
      BY <2>2
    <3> HIDE DEF one
    <3>2. [fx EXCEPT !.names = one, !.nr = n, !.fd = TRUE] \in Fax
      BY <3>1, <1>0 DEF Fax
    <3>3. [fx EXCEPT !.names = one, !.nr = n, !.fd = TRUE].names = one
      BY DEF Fax
    <3> QED
      BY <2>1, <3>2, <3>3 DEF one
  <2>5. Range(o.fx.names) = {<<n, 1>>} /\ Range(fx.names) = {}
    BY <2>4 DEF Range
  <2>6. Lists(fx, d, o)
    <3>1. {<<n, 1>>} \in SUBSET FileNames /\ {<<n, 1>>} \cap d.names = {}
      BY <2>2, <1>0, <1>2
    <3> DEFINE new == {<<n, 1>>}
    <3> HIDE DEF new
    <3>2. Range(o.fx.names) = Range(fx.names) \cup new
      BY <2>5 DEF new
    <3>3. /\ new \in SUBSET FileNames /\ new \cap d.names = {}
          /\ o.disk.names = d.names \cup new
      BY <2>3, <3>1 DEF new
    <3> QED
      BY <3>2, <3>3 DEF Lists
  <2>7. /\ o.fx.format = fx.format /\ o.fx.finished = fx.finished
        /\ o.fx.pages = fx.pages /\ o.fx.recvState = fx.recvState
    BY <2>1 DEF Fax
  <2>8. o.fx.names # <<>>
    BY <2>4, EmptySeq
  <2> QED
    BY <2>3, <2>4, <2>6, <2>7, <2>8 DEF o
<1> QED
  BY <1>1, <1>2

(* OpenRecv: the same, also when libtiff refuses the file and it is        *)
(* removed.                                                                *)
LEMMA OpenRecvLists ==
  ASSUME NEW fx \in Fax, NEW d \in Spool, NEW able \in BOOLEAN, NEW opens \in BOOLEAN,
         fx.names = <<>>
  PROVE  LET o == OpenRecv(fx, d, able, opens)
         IN  /\ o.fx \in Fax /\ o.disk \in Spool
             /\ o.fx.format = fx.format /\ o.fx.finished = 0 /\ o.fx.pages = 0
             /\ Tiff(fx) => o.fx.recvState = 1
             /\ Lists(fx, d, o)
<1> DEFINE o == OpenRecv(fx, d, able, opens)
           f == [fx EXCEPT !.recvState = IF fx.format = "g3" THEN 2 ELSE 1,
                           !.finished = 0, !.pages = 0]
           r == GetRecvFile(f, d, able)
<1>1. /\ f \in Fax /\ f.names = <<>> /\ f.format = fx.format /\ f.finished = 0
      /\ f.pages = 0 /\ (Tiff(fx) => f.recvState = 1)
  BY DEF Fax, Tiff
<1>2. o = IF r.fx.fd /\ Tiff(fx) /\ ~opens
          THEN [fx |-> [r.fx EXCEPT !.fd = FALSE, !.names = <<>>],
                disk |-> [r.disk EXCEPT !.names = d.names]]
          ELSE r
  BY DEF OpenRecv
<1> HIDE DEF o, f
<1>3. /\ r.fx \in Fax /\ r.disk \in Spool
      /\ r.fx.format = f.format /\ r.fx.finished = f.finished
      /\ r.fx.pages = f.pages /\ r.fx.recvState = f.recvState
      /\ Lists(f, d, r)
  BY <1>1, GetRecvFileLists
<1> HIDE DEF r
<1>4. CASE r.fx.fd /\ Tiff(fx) /\ ~opens
  <2>1. /\ o.fx = [r.fx EXCEPT !.fd = FALSE, !.names = <<>>]
        /\ o.disk = [r.disk EXCEPT !.names = d.names]
    BY <1>2, <1>4
  <2>2. o.fx \in Fax /\ o.fx.names = <<>>
    BY <2>1, <1>3 DEF Fax
  <2>3. o.disk \in Spool /\ o.disk.names = d.names
    <3>1. o.disk = [seq |-> r.disk.seq, names |-> d.names]
      BY <2>1, <1>3 DEF Spool
    <3> QED
      BY <3>1, <1>3 DEF Spool
  <2>4. Lists(fx, d, o)
    BY <2>2, <2>3, NothingNew
  <2> QED
    BY <2>1, <2>2, <2>3, <2>4, <1>1, <1>3 DEF Fax, o
<1>5. CASE ~(r.fx.fd /\ Tiff(fx) /\ ~opens)
  <2>1. o = r
    BY <1>2, <1>5
  <2>2. Lists(fx, d, o)
    BY <2>1, <1>1, <1>3, OnlyNames
  <2> QED
    BY <2>1, <2>2, <1>1, <1>3 DEF o
<1> QED
  BY <1>4, <1>5

(* A name that is appended is the only one that joins the list.            *)
LEMMA RangeAppend ==
  ASSUME NEW S, NEW q \in Seq(S), NEW e
  PROVE  Range(Append(q, e)) = Range(q) \cup {e}
<1>1. /\ DOMAIN Append(q, e) = 1 .. Len(q) + 1 /\ DOMAIN q = 1 .. Len(q)
      /\ Append(q, e)[Len(q) + 1] = e /\ Len(q) \in Nat
      /\ \A i \in 1 .. Len(q) : Append(q, e)[i] = q[i]
  BY AppendProperties
<1>2. \A i \in 1 .. Len(q) + 1 : i \in 1 .. Len(q) \/ i = Len(q) + 1
  BY <1>1
<1>3. \A i \in 1 .. Len(q) : i \in 1 .. Len(q) + 1
  BY <1>1
<1>4. Len(q) + 1 \in 1 .. Len(q) + 1
  BY <1>1
<1> DEFINE a == Append(q, e)
<1> HIDE DEF a
<1>5. Range(a) = {a[i] : i \in 1 .. Len(q) + 1} /\ Range(q) = {q[i] : i \in 1 .. Len(q)}
  BY <1>1 DEF Range, a
<1>6. \A i \in 1 .. Len(q) : a[i] = q[i]
  BY <1>1 DEF a
<1>7. a[Len(q) + 1] = e
  BY <1>1 DEF a
<1> QED
  BY <1>2, <1>3, <1>4, <1>5, <1>6, <1>7 DEF a

(* The file for the next page of a G3 fax.                                 *)
LEMMA GetNextRecvFileLists ==
  ASSUME NEW fx \in Fax, NEW d \in Spool, NEW able \in BOOLEAN
  PROVE  LET o == GetNextRecvFile(fx, d, able)
         IN  /\ o.fx \in Fax /\ o.disk \in Spool
             /\ o.fx.format = fx.format /\ o.fx.finished = fx.finished
             /\ ~o.fx.fd => o.fx.names = fx.names /\ o.disk = d
             /\ fx.names # <<>> => o.fx.names # <<>>
             /\ Lists(fx, d, o)
<1> DEFINE o == GetNextRecvFile(fx, d, able)
           free == {k \in fx.pages + 1 .. fx.pages + MaxTry - 1 : <<fx.nr, k>> \notin d.names}
           k == CHOOSE i \in free : \A j \in free : i <= j
           name == <<fx.nr, k>>
<1>0. fx.pages \in Nat /\ fx.nr \in Nat /\ MaxTry \in Nat /\ fx.names \in Seq(FileNames)
  BY FaxFilesAssumption DEF Fax
<1>1. CASE ~able \/ free = {}
  <2>1. o.fx = [fx EXCEPT !.fd = FALSE] /\ o.disk = d
    BY <1>1 DEF GetNextRecvFile
  <2> HIDE DEF o
  <2>2. /\ o.fx \in Fax /\ o.fx.names = fx.names
        /\ o.fx.format = fx.format /\ o.fx.finished = fx.finished
    BY <2>1 DEF Fax
  <2>3. Lists(fx, d, o)
    BY <2>1, <2>2, NothingNew
  <2> QED
    BY <2>1, <2>2, <2>3 DEF o
<1>2. CASE able /\ free # {}
  <2>1. /\ o.fx = [fx EXCEPT !.fd = TRUE, !.names = Append(@, name)]
        /\ o.disk = [d EXCEPT !.names = @ \cup {name}]
    BY <1>2 DEF GetNextRecvFile, Created
  <2> HIDE DEF o
  <2>2. k \in free
    <3>1. free \subseteq Nat
      BY <1>0
    <3> HIDE DEF free
    <3> QED
      BY <3>1, <1>2, LeastNumber
  <2>3. name \in FileNames /\ name \notin d.names
    <3> HIDE DEF k
    <3>1. k \in fx.pages + 1 .. fx.pages + MaxTry - 1 /\ <<fx.nr, k>> \notin d.names
      BY <2>2
    <3>2. k \in Nat
      BY <3>1, <1>0
    <3> QED
      BY <3>1, <3>2, <1>0 DEF FileNames
  <2> HIDE DEF name
  <2> DEFINE held == d.names \cup {name}
             more == Append(fx.names, name)
             new == {name}
  <2>4. held \in SUBSET FileNames /\ held = d.names \cup new
    BY <2>3 DEF Spool
  <2>5. more \in Seq(FileNames) /\ more # <<>> /\ Range(more) = Range(fx.names) \cup new
    BY <2>3, <1>0, RangeAppend, AppendProperties
  <2>6. new \in SUBSET FileNames /\ new \cap d.names = {}
    BY <2>3
  <2>7. o.fx = [fx EXCEPT !.fd = TRUE, !.names = more]
    BY <2>1
  <2>8. o.disk = [d EXCEPT !.names = held]
    BY <2>1
  <2> HIDE DEF held, more, new
  <2>9. /\ o.fx \in Fax /\ o.fx.names = more /\ o.fx.fd
        /\ o.fx.format = fx.format /\ o.fx.finished = fx.finished
    BY <2>5, <2>7 DEF Fax
  <2>10. o.disk \in Spool /\ o.disk.names = held
    BY <2>4, <2>8 DEF Spool
  <2>11. Lists(fx, d, o)
    BY <2>4, <2>5, <2>6, <2>9, <2>10 DEF Lists
  <2> QED
    BY <2>5, <2>9, <2>10, <2>11 DEF o
<1> QED
  BY <1>1, <1>2

(* A block of data may bring a file more, and drops none.  With TIFF the   *)
(* state tells how far the fax has come.                                   *)
Blocks == {"head", "page", "last"}

LEMMA RecvSFFLists ==
  ASSUME NEW fx \in Fax, NEW d \in Spool, NEW what \in Blocks, NEW able \in BOOLEAN
  PROVE  LET o == RecvSFF(fx, d, what, able)
         IN  /\ o.fx \in Fax /\ o.disk \in Spool
             /\ o.fx.format = fx.format /\ o.fx.finished = fx.finished
             /\ fx.names # <<>> => o.fx.names # <<>>
             /\ Lists(fx, d, o)
<1> DEFINE o == RecvSFF(fx, d, what, able)
           page == [fx EXCEPT !.pages = @ + 1]
           next == GetNextRecvFile(page, d, able)
<1>1. page \in Fax /\ page.names = fx.names /\ page.format = fx.format /\ page.finished = fx.finished
  <2>1. fx.pages + 1 \in Nat
    BY DEF Fax
  <2>2. page \in Fax
    BY <2>1 DEF Fax
  <2>3. page.names = fx.names /\ page.format = fx.format /\ page.finished = fx.finished
    BY DEF Fax
  <2> QED
    BY <2>2, <2>3
<1>2. /\ next.fx \in Fax /\ next.disk \in Spool
      /\ next.fx.format = page.format /\ next.fx.finished = page.finished
      /\ ~next.fx.fd => next.fx.names = page.names /\ next.disk = d
      /\ page.names # <<>> => next.fx.names # <<>>
      /\ Lists(page, d, next)
  <2> HIDE DEF page
  <2> QED BY <1>1, GetNextRecvFileLists
<1> DEFINE last == [fx EXCEPT !.pages = @ + 1, !.recvState = 3, !.fd = @ /\ fx.format # "g3"]
           dropped == [next.fx EXCEPT !.recvState = 3]
<1>3. \/ o = [fx |-> fx, disk |-> d, ret |-> "Okay"]
      \/ o = [fx |-> [fx EXCEPT !.recvState = 2], disk |-> d, ret |-> "Okay"]
      \/ o = [fx |-> last, disk |-> d, ret |-> "Okay"]
      \/ o = PageEnd(fx, d, able)
  BY DEF RecvSFF, Blocks
<1>3a. LET p == PageEnd(fx, d, able)
       IN  \/ p = [fx |-> page, disk |-> d, ret |-> "Okay"]
           \/ next.fx.fd /\ p = [fx |-> next.fx, disk |-> next.disk, ret |-> "Okay"]
           \/ ~next.fx.fd /\ p = [fx |-> dropped, disk |-> d, ret |-> "CreateFailed"]
  BY DEF PageEnd
<1>3b. last \in Fax /\ last.names = fx.names /\ last.format = fx.format /\ last.finished = fx.finished
  <2>1. fx.pages + 1 \in Nat /\ (fx.fd /\ fx.format # "g3") \in BOOLEAN
    BY DEF Fax
  <2>2. last \in Fax
    BY <2>1 DEF Fax
  <2> QED
    BY <2>2 DEF Fax
<1>3c. /\ dropped \in Fax /\ dropped.names = next.fx.names
       /\ dropped.format = next.fx.format /\ dropped.finished = next.fx.finished
  <2> HIDE DEF next
  <2> QED
    BY <1>2 DEF Fax
<1> HIDE DEF o, page, next, last, dropped
<1>4. \/ Lists(fx, d, o) /\ o.fx = next.fx /\ o.disk = next.disk
      \/ /\ o.disk = d
         /\ o.fx \in Fax /\ o.fx.names = fx.names
         /\ o.fx.format = fx.format /\ o.fx.finished = fx.finished
  <2>1. CASE o = [fx |-> fx, disk |-> d, ret |-> "Okay"]
    BY <2>1
  <2>2. CASE o = [fx |-> [fx EXCEPT !.recvState = 2], disk |-> d, ret |-> "Okay"]
    BY <2>2 DEF Fax
  <2>3. CASE o = [fx |-> last, disk |-> d, ret |-> "Okay"]
    BY <2>3, <1>3b
  <2>4. CASE o = [fx |-> page, disk |-> d, ret |-> "Okay"]
    BY <2>4, <1>1
  <2>5. CASE next.fx.fd /\ o = [fx |-> next.fx, disk |-> next.disk, ret |-> "Okay"]
    BY <2>5, <1>1, <1>2 DEF Lists
  <2>6. CASE ~next.fx.fd /\ o = [fx |-> dropped, disk |-> d, ret |-> "CreateFailed"]
    BY <2>6, <1>1, <1>2, <1>3c
  <2> QED
    BY <1>3, <1>3a, <2>1, <2>2, <2>3, <2>4, <2>5, <2>6
<1>5. /\ o.fx \in Fax /\ o.disk \in Spool
      /\ o.fx.format = fx.format /\ o.fx.finished = fx.finished
      /\ fx.names # <<>> => o.fx.names # <<>>
      /\ Lists(fx, d, o)
  BY <1>1, <1>2, <1>4, NothingNew
<1> QED
  BY <1>5 DEF o

(* With TIFF the state of the reception follows the blocks, and a page is  *)
(* counted at each page end.                                               *)
LEMMA RecvSFFCounts ==
  ASSUME NEW fx \in Fax, NEW d \in Spool, NEW what \in Blocks, NEW able \in BOOLEAN,
         Tiff(fx), fx.finished = 0
  PROVE  LET o == RecvSFF(fx, d, what, able)
         IN  /\ o.fx.pages \in {fx.pages, fx.pages + 1} /\ o.ret = "Okay"
             /\ fx.recvState = 1 /\ what = "head" => o.fx.recvState = 2
             /\ fx.recvState = 2 /\ what = "page" => o.fx.recvState = 2
             /\ fx.recvState = 2 /\ what = "last" => o.fx.recvState = 3
<1> DEFINE o == RecvSFF(fx, d, what, able)
           page == [fx EXCEPT !.pages = @ + 1]
<1>1. fx.format # "sff" /\ fx.format # "g3"
  BY DEF Tiff
<1>2. CASE fx.recvState \in {0, 3}
  <2>1. o = [fx |-> fx, disk |-> d, ret |-> "Okay"]
    BY <1>2 DEF RecvSFF
  <2> QED
    BY <2>1, <1>2
<1>3. CASE fx.recvState \notin {0, 3} /\ what = "head"
  <2>1. o = [fx |-> [fx EXCEPT !.recvState = 2], disk |-> d, ret |-> "Okay"]
    BY <1>1, <1>3 DEF RecvSFF
  <2> QED
    BY <2>1, <1>3 DEF Fax
<1>4. CASE fx.recvState \notin {0, 3} /\ what = "last"
  <2>1. o = [fx |-> [fx EXCEPT !.pages = @ + 1, !.recvState = 3,
                             !.fd = @ /\ fx.format # "g3"],
             disk |-> d, ret |-> "Okay"]
    BY <1>1, <1>4 DEF RecvSFF
  <2>2. o.fx.pages = fx.pages + 1 /\ o.fx.recvState = 3 /\ o.ret = "Okay"
    <3> DEFINE g3 == fx.fd /\ fx.format # "g3"
    <3>1. o = [fx |-> [fx EXCEPT !.pages = @ + 1, !.recvState = 3, !.fd = g3],
               disk |-> d, ret |-> "Okay"]
      BY <2>1
    <3>2. fx.pages + 1 \in Nat /\ g3 \in BOOLEAN
      BY DEF Fax
    <3> HIDE DEF o, g3
    <3> QED
      BY <3>1, <3>2 DEF Fax
  <2> HIDE DEF o
  <2>3. what # "head" /\ what # "page"
    BY <1>4
  <2> QED
    BY <2>2, <2>3 DEF o
<1>5. CASE fx.recvState \notin {0, 3} /\ what = "page"
  <2>1. o = [fx |-> page, disk |-> d, ret |-> "Okay"]
    BY <1>1, <1>5 DEF RecvSFF, PageEnd
  <2> QED
    BY <2>1, <1>5 DEF Fax
<1> QED
  BY <1>2, <1>3, <1>4, <1>5 DEF Blocks

-----------------------------------------------------------------------------
(* One receiver                                                            *)

(* What the FIFO holds after a call, and of a fax of n pages.              *)
Ready(call) == IF call \in {"idle", "gone"} THEN <<"I", "R">> ELSE <<>>

Told(n) == <<"I", "B", "S">> \o [i \in 1 .. n |-> "P"]

(* A receiver has files only while a call is up, and has one while it      *)
(* takes data.                                                             *)
HoldsFiles(x) ==
  /\ x.call \notin {"connected", "closing"} => x.fx.names = <<>> /\ ~x.fx.fd
  /\ x.call = "connected" /\ ~x.hang => x.fx.names # <<>> /\ x.fx.finished = 0

(* recvState tells how much of the fax has come.                           *)
KnowsHowFar(x) ==
  /\ x.call = "setup" => x.got = 0
  /\ Tiff(x.fx) /\ x.fx.names # <<>> =>
       \/ x.fx.recvState = 1 /\ x.got = 0
       \/ x.fx.recvState = 2 /\ x.got \in 1 .. x.doc
       \/ x.fx.recvState = 3 /\ x.got = x.doc + 1

(* What HylaFAX was told of this call.                                     *)
TellsSession(x) ==
  /\ x.fifo \in {<<>>, Ready(x.call), Told(x.fx.pages) \o Ready(x.call)}
  /\ x.fx.format # "hylafax" \/ x.call = "setup" => x.fifo = <<>>
  /\ x.fx.format = "hylafax" /\ x.fx.names # <<>> => x.fifo = Told(x.fx.pages)

CallOK(x) == HoldsFiles(x) /\ KnowsHowFar(x) /\ TellsSession(x)

LEMMA ToldTypes ==
  /\ \A n \in Nat : Told(n) \in Seq(Letters)
  /\ \A call : Ready(call) \in Seq(Letters)
  /\ \A n \in Nat : Told(n) # <<>> /\ Told(n) \o <<>> = Told(n)
  /\ Told(0) = <<"I", "B", "S">>
<1>1. \A n \in Nat : [i \in 1 .. n |-> "P"] \in Seq(Letters)
  BY DEF Letters
<1>2. <<"I", "B", "S">> \in Seq(Letters) /\ <<"I", "R">> \in Seq(Letters) /\ <<>> \in Seq(Letters)
  BY DEF Letters
<1>3. \A n \in Nat : Told(n) \in Seq(Letters)
  BY <1>1, <1>2, ConcatProperties DEF Told
<1>4. \A n \in Nat : Len([i \in 1 .. n |-> "P"]) = n
  OBVIOUS
<1>5. \A n \in Nat : Told(n) # <<>>
  <2> SUFFICES ASSUME NEW n \in Nat PROVE Len(Told(n)) = 3 + n
    BY EmptySeq
  <2> QED
    BY <1>1, <1>2, <1>4, ConcatProperties, Len(<<"I", "B", "S">>) = 3 DEF Told
<1>6. \A n \in Nat : Told(n) \o <<>> = Told(n)
  BY <1>3, ConcatEmptySeq
<1>7. Told(0) = <<"I", "B", "S">>
  <2>1. [i \in 1 .. 0 |-> "P"] = <<>>
    OBVIOUS
  <2> QED
    BY <2>1, <1>2, ConcatEmptySeq DEF Told
<1> QED
  BY <1>2, <1>3, <1>5, <1>6, <1>7 DEF Ready

(* A page more.                                                            *)
LEMMA ToldNext ==
  ASSUME NEW n \in Nat
  PROVE  Told(n) \o <<"P">> = Told(n + 1)
<1> DEFINE ps(m) == [i \in 1 .. m |-> "P"]
           head == <<"I", "B", "S">>
<1>1. /\ \A m \in Nat : ps(m) \in Seq(Letters)
      /\ head \in Seq(Letters) /\ <<"P">> \in Seq(Letters)
  BY DEF Letters
<1>2. (head \o ps(n)) \o <<"P">> = head \o (ps(n) \o <<"P">>)
  BY <1>1, ConcatAssociative
<1>3. ps(n) \o <<"P">> = ps(n + 1)
  <2>1. /\ ps(n) \o <<"P">> \in Seq(Letters) /\ Len(ps(n) \o <<"P">>) = n + 1
        /\ \A i \in 1 .. n + 1 : (ps(n) \o <<"P">>)[i] = "P"
    BY <1>1
  <2>2. ps(n + 1) \in Seq(Letters) /\ Len(ps(n + 1)) = n + 1
    BY <1>1
  <2>3. \A i \in 1 .. n + 1 : ps(n + 1)[i] = "P"
    OBVIOUS
  <2> HIDE DEF ps
  <2> QED
    BY <2>1, <2>2, <2>3, SeqEqual
<1> QED
  BY <1>2, <1>3 DEF Told

(* What the FIFO gets, when there is a file to tell of.                    *)
LEMMA Notifies ==
  ASSUME NEW x, NEW letters \in Seq(Letters),
         x.fx.names # <<>> \/ letters = <<"I", "R">>
  PROVE  NotifyFIFO(x, letters) =
           IF x.fx.format # "hylafax" THEN x ELSE [x EXCEPT !.fifo = @ \o letters]
<1> DEFINE said == [i \in DOMAIN letters |->
                      IF letters[i] \in {"S", "P"} /\ x.fx.names = <<>>
                      THEN "assert" ELSE letters[i]]
<1>1. \A i \in DOMAIN letters : ~(letters[i] \in {"S", "P"} /\ x.fx.names = <<>>)
  <2>1. CASE x.fx.names # <<>>
    BY <2>1
  <2>2. CASE letters = <<"I", "R">>
    BY <2>2
  <2> QED
    BY <2>1, <2>2
<1>2. said = [i \in DOMAIN letters |-> letters[i]]
  BY <1>1
<1>3. [i \in DOMAIN letters |-> letters[i]] = letters
  OBVIOUS
<1>4. said = letters
  BY <1>2, <1>3
<1>5. NotifyFIFO(x, letters) =
        IF x.fx.format # "hylafax" THEN x ELSE [x EXCEPT !.fifo = @ \o said]
  BY DEF NotifyFIFO
<1> HIDE DEF said
<1> QED
  BY <1>4, <1>5

(* The receiver after IncomingCall.                                        *)
Answered(x, n, doc) ==
  [x EXCEPT !.call = "setup", !.jobNr = n, !.doc = doc, !.got = 0, !.hang = FALSE,
            !.fifo = <<>>]

LEMMA IncomingCallOK ==
  ASSUME NEW x \in Receiver, CallOK(x), x.call = "idle", NEW n \in Nat, NEW doc \in Documents
  PROVE  LET y == Answered(x, n, doc)
         IN  y \in Receiver /\ CallOK(y) /\ y.fx = x.fx /\ y.jobNr = n
<1> DEFINE y == Answered(x, n, doc)
<1>1. <<>> \in Seq(Letters) /\ "setup" \in Phases
  BY DEF Phases
<1>2. y \in Receiver
  BY <1>1 DEF Receiver, Answered
<1>3. /\ y.fx = x.fx /\ y.call = "setup" /\ y.jobNr = n /\ y.got = 0 /\ ~y.hang
      /\ y.fifo = <<>>
  BY DEF Receiver, Answered
<1> HIDE DEF y
<1>4. x.fx.names = <<>> /\ ~x.fx.fd
  BY DEF CallOK, HoldsFiles
<1>5. CallOK(y)
  BY <1>3, <1>4 DEF CallOK, HoldsFiles, KnowsHowFar, TellsSession
<1> QED
  BY <1>2, <1>3, <1>5 DEF y

(* IsConnected with a fax: with a file the session is announced, without   *)
(* one it hangs up.                                                        *)
LEMMA IsConnectedOK ==
  ASSUME NEW x \in Receiver, CallOK(x), x.call = "setup", ~x.hang,
         NEW fx \in Fax, fx.format = x.fx.format, fx.finished = 0, fx.pages = 0,
         Tiff(x.fx) => fx.recvState = 1
  PROVE  LET up == [x EXCEPT !.call = "connected"]
             y == [up EXCEPT !.fx = fx, !.hang = TRUE]
             z == NotifyFIFO([up EXCEPT !.fx = fx], <<"I", "B", "S">>)
         IN  /\ fx.names = <<>> => y \in Receiver /\ CallOK(y) /\ y.fx = fx /\ y.jobNr = x.jobNr
             /\ fx.names # <<>> => z \in Receiver /\ CallOK(z) /\ z.fx = fx /\ z.jobNr = x.jobNr
<1> DEFINE up == [x EXCEPT !.call = "connected"]
           y == [up EXCEPT !.fx = fx, !.hang = TRUE]
           z0 == [up EXCEPT !.fx = fx]
           z == NotifyFIFO(z0, <<"I", "B", "S">>)
<1>1. "connected" \in Phases /\ Ready("connected") = <<>>
  BY DEF Phases, Ready
<1>2. x.fifo = <<>> /\ x.got = 0 /\ x.call = "setup"
  BY DEF CallOK, TellsSession, KnowsHowFar
<1>3. ASSUME fx.names = <<>>
      PROVE  y \in Receiver /\ CallOK(y) /\ y.fx = fx /\ y.jobNr = x.jobNr
  <2>1. y \in Receiver
    BY <1>1 DEF Receiver
  <2>2. y.fx = fx /\ y.call = "connected" /\ y.hang /\ y.fifo = x.fifo /\ y.jobNr = x.jobNr
    BY DEF Receiver
  <2> HIDE DEF y
  <2>3. CallOK(y)
    BY <1>2, <1>3, <2>2 DEF CallOK, HoldsFiles, KnowsHowFar, TellsSession
  <2> QED
    BY <2>1, <2>2, <2>3
<1>4. ASSUME fx.names # <<>>
      PROVE  z \in Receiver /\ CallOK(z) /\ z.fx = fx /\ z.jobNr = x.jobNr
  <2>1. z0 \in Receiver
    BY <1>1 DEF Receiver
  <2>2. /\ z0.fx = fx /\ z0.call = "connected" /\ z0.fifo = <<>> /\ z0.jobNr = x.jobNr
        /\ z0.got = 0
    BY <1>2 DEF Receiver
  <2> HIDE DEF z0
  <2>3. <<"I", "B", "S">> \in Seq(Letters) /\ <<>> \o <<"I", "B", "S">> = <<"I", "B", "S">>
    BY ConcatEmptySeq DEF Letters
  <2>4. z = IF fx.format # "hylafax" THEN z0 ELSE [z0 EXCEPT !.fifo = @ \o <<"I", "B", "S">>]
    BY <2>2, <2>3, <1>4, Notifies
  <2> HIDE DEF z
  <2>5. CASE fx.format # "hylafax"
    <3>1. z = z0
      BY <2>4, <2>5
    <3>2. CallOK(z)
      BY <1>4, <2>2, <2>5, <3>1 DEF CallOK, HoldsFiles, KnowsHowFar, TellsSession, Tiff
    <3> QED
      BY <2>1, <2>2, <3>1, <3>2
  <2>6. CASE fx.format = "hylafax"
    <3>1. z = [z0 EXCEPT !.fifo = <<"I", "B", "S">>]
      BY <2>2, <2>3, <2>4, <2>6
    <3>2. /\ z \in Receiver /\ z.fx = fx /\ z.call = "connected" /\ z.jobNr = x.jobNr
          /\ z.got = 0 /\ z.fifo = <<"I", "B", "S">>
      BY <2>1, <2>2, <2>3, <3>1 DEF Receiver
    <3>3. z.fifo = Told(0) /\ Told(0) \o <<>> = Told(0)
      BY <3>2, ToldTypes
    <3>4. TellsSession(z)
      BY <3>2, <3>3, <2>6, <1>1 DEF TellsSession
    <3>5. HoldsFiles(z) /\ KnowsHowFar(z)
      BY <3>2, <1>4 DEF HoldsFiles, KnowsHowFar, Tiff
    <3> QED
      BY <3>2, <3>4, <3>5 DEF CallOK
  <2> QED
    BY <2>5, <2>6
<1> QED
  BY <1>3, <1>4

(* The fax is refused, or the file is not there.                           *)
LEMMA HangUpOK ==
  ASSUME NEW x \in Receiver, CallOK(x), x.call = "setup"
  PROVE  LET y == [[x EXCEPT !.call = "connected"] EXCEPT !.hang = TRUE]
         IN  y \in Receiver /\ CallOK(y) /\ y.fx = x.fx /\ y.jobNr = x.jobNr
<1> DEFINE y == [[x EXCEPT !.call = "connected"] EXCEPT !.hang = TRUE]
<1>1. "connected" \in Phases
  BY DEF Phases
<1>2. x.fifo = <<>> /\ x.got = 0 /\ x.fx.names = <<>>
  BY DEF CallOK, TellsSession, KnowsHowFar, HoldsFiles
<1>3. y \in Receiver
  BY <1>1 DEF Receiver
<1>4. /\ y.fx = x.fx /\ y.call = "connected" /\ y.hang /\ y.fifo = x.fifo
      /\ y.jobNr = x.jobNr
  BY DEF Receiver
<1> HIDE DEF y
<1>5. CallOK(y)
  BY <1>2, <1>4 DEF CallOK, HoldsFiles, KnowsHowFar, TellsSession
<1> QED
  BY <1>3, <1>4, <1>5 DEF y

(* The block that comes next.                                              *)
BlockIn(x) == IF x.got = 0 THEN "head" ELSE IF x.got = x.doc THEN "last" ELSE "page"

(* A fax has a page.                                                       *)
LEMMA PagesToCome ==
  \A doc \in Documents \cup {1} : doc \in Nat \ {0}
<1>1. Documents \subseteq Nat \ {0}
  BY RecvCallAssumption
<1> QED
  BY <1>1

(* What RecvSFF has done with a block of data, and what GetData then does. *)
Receives(x, fx, hang) ==
  /\ x \in Receiver /\ CallOK(x) /\ x.call = "connected" /\ ~x.hang /\ x.got <= x.doc
  /\ fx \in Fax /\ hang \in BOOLEAN
  /\ fx.format = x.fx.format /\ fx.finished = 0 /\ fx.names # <<>>
  /\ Tiff(x.fx) =>
       /\ fx.pages \in {x.fx.pages, x.fx.pages + 1}
       /\ x.fx.recvState = 1 /\ BlockIn(x) = "head" => fx.recvState = 2
       /\ x.fx.recvState = 2 /\ BlockIn(x) = "page" => fx.recvState = 2
       /\ x.fx.recvState = 2 /\ BlockIn(x) = "last" => fx.recvState = 3

AfterData(x, fx, hang) ==
  LET y == [x EXCEPT !.fx = fx, !.got = @ + 1, !.hang = hang]
  IN  IF PageEndReached(x.fx, fx) THEN NotifyFIFO(y, <<"P">>) ELSE y

(* A block of data, its page end told over the FIFO.                       *)
LEMMA GetDataOK ==
  ASSUME NEW x, NEW fx, NEW hang, Receives(x, fx, hang)
  PROVE  LET z == AfterData(x, fx, hang)
         IN  z \in Receiver /\ CallOK(z) /\ z.fx = fx /\ z.jobNr = x.jobNr
<1> DEFINE y == [x EXCEPT !.fx = fx, !.got = @ + 1, !.hang = hang]
           z == IF PageEndReached(x.fx, fx) THEN NotifyFIFO(y, <<"P">>) ELSE y
<1>0. /\ x \in Receiver /\ CallOK(x) /\ x.call = "connected" /\ ~x.hang /\ x.got <= x.doc
      /\ fx \in Fax /\ hang \in BOOLEAN
      /\ fx.format = x.fx.format /\ fx.finished = 0 /\ fx.names # <<>>
      /\ Tiff(x.fx) =>
           /\ fx.pages \in {x.fx.pages, x.fx.pages + 1}
           /\ x.fx.recvState = 1 /\ BlockIn(x) = "head" => fx.recvState = 2
           /\ x.fx.recvState = 2 /\ BlockIn(x) = "page" => fx.recvState = 2
           /\ x.fx.recvState = 2 /\ BlockIn(x) = "last" => fx.recvState = 3
  BY DEF Receives
<1> USE <1>0
<1>1. x.got \in Nat /\ x.doc \in Nat \ {0} /\ x.fx.pages \in Nat /\ fx.pages \in Nat
  <2>1. x.got \in Nat /\ x.fx \in Fax /\ x.doc \in Documents \cup {1}
    BY DEF Receiver
  <2>2. x.fx.pages \in Nat /\ fx.pages \in Nat
    BY <2>1 DEF Fax
  <2> QED
    BY <2>1, <2>2, PagesToCome
<1>2. y \in Receiver
  <2>1. x.got + 1 \in Nat
    BY <1>1
  <2> QED
    BY <2>1 DEF Receiver
<1>3. /\ y.fx = fx /\ y.call = "connected" /\ y.got = x.got + 1 /\ y.doc = x.doc
      /\ y.fifo = x.fifo /\ y.jobNr = x.jobNr
  BY DEF Receiver
<1> HIDE DEF y
<1>4. x.fx.names # <<>> /\ KnowsHowFar(x) /\ TellsSession(x)
  BY DEF CallOK, HoldsFiles
<1>5. KnowsHowFar(y)
  BY <1>1, <1>3, <1>4 DEF KnowsHowFar, BlockIn, Tiff
<1>6. HoldsFiles(y)
  BY <1>3 DEF HoldsFiles
<1>7. Ready("connected") = <<>>
  BY DEF Ready
<1>8. ASSUME x.fx.format # "hylafax"
      PROVE  z \in Receiver /\ CallOK(z) /\ z.fx = fx /\ z.jobNr = x.jobNr
  <2>1. x.fifo = <<>>
    BY <1>4, <1>8 DEF TellsSession
  <2>2. z = y
    <3>1. NotifyFIFO(y, <<"P">>) = y
      BY <1>3, <1>8 DEF NotifyFIFO
    <3> QED
      BY <3>1
  <2>3. TellsSession(y)
    BY <1>3, <1>8, <2>1 DEF TellsSession
  <2> QED
    <3> HIDE DEF z
    <3> QED
      BY <1>2, <1>3, <1>5, <1>6, <2>2, <2>3 DEF CallOK
<1>9. ASSUME x.fx.format = "hylafax"
      PROVE  z \in Receiver /\ CallOK(z) /\ z.fx = fx /\ z.jobNr = x.jobNr
  <2>1. Tiff(x.fx) /\ x.fifo = Told(x.fx.pages)
    BY <1>4, <1>9 DEF TellsSession, Tiff
  <2>2. CASE fx.pages = x.fx.pages
    <3>1. ~PageEndReached(x.fx, fx)
      BY <2>2, <1>1 DEF PageEndReached
    <3>2. z = y
      BY <3>1
    <3>3. y.fifo = Told(y.fx.pages) /\ Told(y.fx.pages) \o <<>> = Told(y.fx.pages)
      BY <1>1, <1>3, <2>1, <2>2, ToldTypes
    <3>4. TellsSession(y)
      BY <1>3, <1>7, <1>9, <3>3 DEF TellsSession
    <3> HIDE DEF z
    <3> QED
      BY <1>2, <1>3, <1>5, <1>6, <3>2, <3>4 DEF CallOK
  <2>3. CASE fx.pages = x.fx.pages + 1
    <3>1. PageEndReached(x.fx, fx)
      BY <2>1, <2>3, <1>1 DEF PageEndReached
    <3>2. <<"P">> \in Seq(Letters)
      BY DEF Letters
    <3>3. z = [y EXCEPT !.fifo = @ \o <<"P">>]
      BY <1>3, <1>9, <3>1, <3>2, Notifies
    <3>4. y.fifo \o <<"P">> = Told(fx.pages) /\ Told(fx.pages) \in Seq(Letters)
      BY <1>1, <1>3, <2>1, <2>3, ToldNext, ToldTypes
    <3> HIDE DEF z
    <3>5. z = [y EXCEPT !.fifo = Told(fx.pages)]
      BY <3>3, <3>4
    <3>6. /\ z \in Receiver /\ z.fx = fx /\ z.call = "connected" /\ z.got = y.got
          /\ z.doc = y.doc /\ z.fifo = Told(fx.pages) /\ z.jobNr = x.jobNr
          /\ z.hang = y.hang
      BY <1>2, <1>3, <3>4, <3>5 DEF Receiver
    <3>7. TellsSession(z)
      BY <1>1, <1>7, <3>6, ToldTypes, <1>9 DEF TellsSession
    <3>8. KnowsHowFar(z) /\ HoldsFiles(z)
      BY <1>3, <1>5, <1>6, <3>6 DEF KnowsHowFar, HoldsFiles
    <3> QED
      BY <3>6, <3>7, <3>8 DEF CallOK
  <2> QED
    BY <2>1, <2>2, <2>3
<1> QED
  BY <1>8, <1>9 DEF y, AfterData

(* StopRecv and CloseRecv touch only what they say.                        *)
LEMMA FaxEnds ==
  ASSUME NEW fx \in Fax
  PROVE  /\ StopRecv(fx) \in Fax /\ CloseRecv(fx) \in Fax
         /\ \A e \in {StopRecv(fx), CloseRecv(fx)} :
              /\ e.format = fx.format /\ e.pages = fx.pages /\ e.names = fx.names
              /\ e.recvState = fx.recvState /\ e.finished = 2
         /\ StopRecv(fx).fd = fx.fd /\ ~CloseRecv(fx).fd
BY DEF StopRecv, CloseRecv, Fax

(* StopReceive, at any time.                                               *)
LEMMA StopReceiveOK ==
  ASSUME NEW x \in Receiver, CallOK(x)
  PROVE  LET y == [x EXCEPT !.quit = TRUE, !.hang = TRUE, !.fx = StopRecv(@)]
         IN  /\ y \in Receiver /\ CallOK(y) /\ y.jobNr = x.jobNr
             /\ y.fx.names = x.fx.names /\ y.fx.format = x.fx.format
<1> DEFINE y == [x EXCEPT !.quit = TRUE, !.hang = TRUE, !.fx = StopRecv(@)]
           fx == StopRecv(x.fx)
<1>1. x.fx \in Fax
  BY DEF Receiver
<1>2. /\ fx \in Fax /\ fx.names = x.fx.names /\ fx.format = x.fx.format
      /\ fx.pages = x.fx.pages /\ fx.recvState = x.fx.recvState /\ fx.fd = x.fx.fd
  BY <1>1, FaxEnds
<1>3. y = [x EXCEPT !.quit = TRUE, !.hang = TRUE, !.fx = fx]
  OBVIOUS
<1> HIDE DEF fx, y
<1>4. /\ y \in Receiver /\ y.jobNr = x.jobNr /\ y.fx = fx /\ y.call = x.call /\ y.hang
      /\ y.got = x.got /\ y.doc = x.doc /\ y.fifo = x.fifo
  BY <1>2, <1>3 DEF Receiver
<1>5. CallOK(y)
  BY <1>2, <1>4 DEF CallOK, HoldsFiles, KnowsHowFar, TellsSession, Tiff
<1> QED
  BY <1>2, <1>4, <1>5 DEF y

(* The NCPI counts the pages of an SFF file only.                          *)
LEMMA DisconnectInquiryOK ==
  ASSUME NEW x \in Receiver, CallOK(x), x.call \in {"setup", "connected"},
         NEW p \in Nat, p = x.fx.pages \/ x.fx.format = "sff"
  PROVE  LET y == [x EXCEPT !.call = "closing", !.fx = [@ EXCEPT !.pages = p, !.finished = 2]]
         IN  /\ y \in Receiver /\ CallOK(y) /\ y.jobNr = x.jobNr
             /\ y.fx.names = x.fx.names /\ y.fx.format = x.fx.format
<1> DEFINE y == [x EXCEPT !.call = "closing", !.fx = [@ EXCEPT !.pages = p, !.finished = 2]]
           fx == [x.fx EXCEPT !.pages = p, !.finished = 2]
<1>1. x.fx \in Fax
  BY DEF Receiver
<1>2. /\ fx \in Fax /\ fx.names = x.fx.names /\ fx.format = x.fx.format
      /\ fx.pages = p /\ fx.recvState = x.fx.recvState
  BY <1>1 DEF Fax
<1>3. y = [x EXCEPT !.call = "closing", !.fx = fx]
  OBVIOUS
<1>4. "closing" \in Phases /\ Ready("closing") = <<>> /\ Ready(x.call) = <<>>
  BY DEF Phases, Ready
<1> HIDE DEF fx, y
<1>5. /\ y \in Receiver /\ y.jobNr = x.jobNr /\ y.fx = fx /\ y.call = "closing"
      /\ y.got = x.got /\ y.doc = x.doc /\ y.fifo = x.fifo
  BY <1>2, <1>3, <1>4 DEF Receiver
<1>6. HoldsFiles(y) /\ KnowsHowFar(y)
  BY <1>2, <1>5 DEF CallOK, HoldsFiles, KnowsHowFar, Tiff
<1>7. TellsSession(y)
  BY <1>2, <1>4, <1>5 DEF CallOK, TellsSession
<1> QED
  BY <1>2, <1>5, <1>6, <1>7 DEF y, CallOK

(* After the call the receiver has no file, and HylaFAX knows it is ready. *)
LEMMA IsDisconnectedOK ==
  ASSUME NEW x \in Receiver, CallOK(x), x.call \in {"setup", "connected", "closing"}
  PROVE  LET z == NotifyFIFO([HandOver(x) EXCEPT !.call = "idle", !.jobNr = 0, !.got = 0],
                             <<"I", "R">>)
         IN  /\ z \in Receiver /\ CallOK(z) /\ z.jobNr = 0
             /\ z.fx.names = <<>> /\ z.fx.format = x.fx.format
<1> DEFINE fx == [CloseRecv(x.fx) EXCEPT !.names = <<>>]
           w == [HandOver(x) EXCEPT !.call = "idle", !.jobNr = 0, !.got = 0]
           z == NotifyFIFO(w, <<"I", "R">>)
<1>1. x.fx \in Fax /\ x.fifo \in Seq(Letters)
  BY DEF Receiver
<1>2. /\ fx \in Fax /\ fx.names = <<>> /\ fx.format = x.fx.format
      /\ fx.pages = x.fx.pages /\ ~fx.fd
  <2> DEFINE c == CloseRecv(x.fx)
  <2>1. c \in Fax /\ c.format = x.fx.format /\ c.pages = x.fx.pages /\ ~c.fd
    BY <1>1, FaxEnds
  <2>2. <<>> \in Seq(FileNames)
    OBVIOUS
  <2> HIDE DEF c
  <2>3. [c EXCEPT !.names = <<>>] \in Fax
    BY <2>1, <2>2 DEF Fax
  <2> QED
    BY <2>1, <2>3 DEF c, Fax
<1>3. HandOver(x) = [x EXCEPT !.fx = fx]
  BY DEF HandOver
<1>4. "idle" \in Phases /\ Ready("idle") = <<"I", "R">> /\ Ready(x.call) = <<>>
  BY DEF Phases, Ready
<1> HIDE DEF fx
<1>5. /\ w \in Receiver /\ w.fx = fx /\ w.call = "idle" /\ w.jobNr = 0
      /\ w.fifo = x.fifo
  BY <1>2, <1>3, <1>4 DEF Receiver
<1> HIDE DEF w
<1>6. <<"I", "R">> \in Seq(Letters)
  BY DEF Letters
<1>7. z = IF fx.format # "hylafax" THEN w ELSE [w EXCEPT !.fifo = @ \o <<"I", "R">>]
  BY <1>5, <1>6, Notifies
<1>8. x.fx.pages \in Nat
  BY <1>1 DEF Fax
<1>9. x.fifo = <<>> \/ x.fifo = Told(x.fx.pages)
  BY <1>4, <1>8, ToldTypes DEF CallOK, TellsSession
<1> HIDE DEF z
<1>10. CASE fx.format # "hylafax"
  <2>1. z = w /\ x.fifo = <<>>
    BY <1>2, <1>7, <1>10 DEF CallOK, TellsSession
  <2>2. CallOK(z)
    BY <1>2, <1>5, <1>10, <2>1 DEF CallOK, HoldsFiles, KnowsHowFar, TellsSession
  <2> QED
    BY <1>2, <1>5, <2>1, <2>2 DEF z, w
<1>11. CASE fx.format = "hylafax"
  <2> DEFINE all == x.fifo \o <<"I", "R">>
  <2>1. all \in Seq(Letters) /\ all \in {<<"I", "R">>, Told(x.fx.pages) \o <<"I", "R">>}
    BY <1>1, <1>6, <1>9, ConcatProperties, ConcatEmptySeq
  <2>2. z = [w EXCEPT !.fifo = all]
    BY <1>5, <1>7, <1>11
  <2> HIDE DEF all
  <2>3. /\ z \in Receiver /\ z.fx = fx /\ z.call = "idle" /\ z.jobNr = 0 /\ z.fifo = all
    BY <1>5, <2>1, <2>2 DEF Receiver
  <2>4. TellsSession(z)
    BY <1>2, <1>4, <1>11, <2>1, <2>3 DEF TellsSession
  <2>5. HoldsFiles(z) /\ KnowsHowFar(z)
    BY <1>2, <2>3 DEF HoldsFiles, KnowsHowFar
  <2> QED
    BY <1>2, <2>3, <2>4, <2>5 DEF z, w, CallOK
<1> QED
  BY <1>10, <1>11

(* The end of a call that the receiver was not told of, between calls.     *)
LEMMA UnseenCallEndsOK ==
  ASSUME NEW x \in Receiver, CallOK(x), x.call = "idle"
  PROVE  LET z == NotifyFIFO([HandOver(x) EXCEPT !.fifo = <<>>], <<"I", "R">>)
         IN  /\ z \in Receiver /\ CallOK(z) /\ z.jobNr = x.jobNr
             /\ z.fx.names = x.fx.names /\ z.fx.format = x.fx.format
<1> DEFINE fx == [CloseRecv(x.fx) EXCEPT !.names = <<>>]
           w == [HandOver(x) EXCEPT !.fifo = <<>>]
           z == NotifyFIFO(w, <<"I", "R">>)
<1>1. x.fx \in Fax /\ x.fx.names = <<>>
  BY DEF Receiver, CallOK, HoldsFiles
<1>2. fx \in Fax /\ fx.names = <<>> /\ fx.format = x.fx.format /\ ~fx.fd
  <2> DEFINE c == CloseRecv(x.fx)
  <2>1. c \in Fax /\ c.format = x.fx.format /\ ~c.fd /\ c.names = x.fx.names
    BY <1>1, FaxEnds
  <2> HIDE DEF c
  <2>2. [c EXCEPT !.names = <<>>] = c
    BY <1>1, <2>1 DEF Fax
  <2> QED
    BY <1>1, <2>1, <2>2 DEF c
<1>3. HandOver(x) = [x EXCEPT !.fx = fx]
  BY DEF HandOver
<1>4. <<>> \in Seq(Letters) /\ <<"I", "R">> \in Seq(Letters) /\ Ready("idle") = <<"I", "R">>
  BY DEF Letters, Ready
<1> HIDE DEF fx
<1>5. /\ w \in Receiver /\ w.fx = fx /\ w.call = "idle" /\ w.jobNr = x.jobNr
      /\ w.fifo = <<>>
  BY <1>2, <1>3, <1>4 DEF Receiver
<1> HIDE DEF w
<1>6. z = IF fx.format # "hylafax" THEN w ELSE [w EXCEPT !.fifo = @ \o <<"I", "R">>]
  BY <1>4, <1>5, Notifies
<1>7. <<>> \o <<"I", "R">> = <<"I", "R">>
  BY <1>4, ConcatEmptySeq
<1>8. z \in {w, [w EXCEPT !.fifo = <<"I", "R">>]} /\ (fx.format # "hylafax" => z = w)
  BY <1>5, <1>6, <1>7
<1> HIDE DEF z
<1>9. /\ z \in Receiver /\ z.fx = fx /\ z.call = "idle" /\ z.jobNr = x.jobNr
      /\ z.fifo \in {<<>>, <<"I", "R">>} /\ (fx.format # "hylafax" => z.fifo = <<>>)
  BY <1>4, <1>5, <1>8 DEF Receiver
<1>10. CallOK(z)
  BY <1>2, <1>4, <1>9 DEF CallOK, HoldsFiles, KnowsHowFar, TellsSession
<1> QED
  BY <1>1, <1>2, <1>9, <1>10 DEF z, w

(* IsReseted, between calls.                                               *)
LEMMA IsResetedOK ==
  ASSUME NEW x \in Receiver, CallOK(x), x.call = "idle"
  PROVE  LET y == [x EXCEPT !.call = "gone", !.fx = CloseRecv(@)]
         IN  /\ y \in Receiver /\ CallOK(y) /\ y.jobNr = x.jobNr
             /\ y.fx.names = x.fx.names /\ y.fx.format = x.fx.format
<1> DEFINE y == [x EXCEPT !.call = "gone", !.fx = CloseRecv(@)]
           fx == CloseRecv(x.fx)
<1>1. x.fx \in Fax
  BY DEF Receiver
<1>2. /\ fx \in Fax /\ fx.names = x.fx.names /\ fx.format = x.fx.format
      /\ fx.pages = x.fx.pages /\ fx.recvState = x.fx.recvState /\ ~fx.fd
  BY <1>1, FaxEnds
<1>3. y = [x EXCEPT !.call = "gone", !.fx = fx]
  OBVIOUS
<1>4. "gone" \in Phases /\ Ready("gone") = Ready("idle")
  BY DEF Phases, Ready
<1> HIDE DEF fx, y
<1>5. /\ y \in Receiver /\ y.jobNr = x.jobNr /\ y.fx = fx /\ y.call = "gone"
      /\ y.got = x.got /\ y.doc = x.doc /\ y.fifo = x.fifo
  BY <1>2, <1>3, <1>4 DEF Receiver
<1>6. CallOK(y)
  BY <1>2, <1>4, <1>5 DEF CallOK, HoldsFiles, KnowsHowFar, TellsSession, Tiff
<1> QED
  BY <1>2, <1>5, <1>6 DEF y

(* 6, 7 and 12 for what did not come, 0 for a fax that came as a whole.    *)
LEMMA StatusTellsHowFar ==
  ASSUME NEW x \in Receiver, KnowsHowFar(x), Tiff(x.fx), x.fx.names # <<>>,
         NEW h, h.came = x.got, h.doc = x.doc, h.status = RecvStatus(x.fx.recvState)
  PROVE  StatusIsTrue(h)
<1>1. x.got \in Nat /\ x.doc \in Nat
  BY PagesToCome DEF Receiver
<1>2. CASE x.fx.recvState = 1 /\ x.got = 0
  <2>1. h.status = 7
    BY <1>2 DEF RecvStatus
  <2> QED
    BY <1>1, <1>2, <2>1 DEF StatusIsTrue
<1>3. CASE x.fx.recvState = 2 /\ x.got \in 1 .. x.doc
  <2>1. h.status = 12
    BY <1>3 DEF RecvStatus
  <2> QED
    BY <1>1, <1>3, <2>1 DEF StatusIsTrue
<1>4. CASE x.fx.recvState = 3 /\ x.got = x.doc + 1
  <2>1. h.status = 0
    BY <1>4 DEF RecvStatus
  <2> QED
    BY <1>1, <1>4, <2>1 DEF StatusIsTrue
<1> QED
  BY <1>2, <1>3, <1>4 DEF KnowsHowFar

-----------------------------------------------------------------------------
(* The receivers of the device                                             *)

Report ==
  [names : Seq(FileNames), came : Nat, doc : Documents \cup {1}, status : {0, 6, 7, 12}]

TypeOK ==
  /\ rx \in [Receivers -> Receiver]
  /\ disk \in Spool
  /\ log \in Spool
  /\ handed \in SUBSET Report

CallsOK == \A r \in Receivers : CallOK(rx[r])

(* The device is configured with one format for all its receivers.         *)
SameFormat == \A q, r \in Receivers : rx[q].fx.format = rx[r].fx.format

Reported == \A r \in Receivers : Tiff(rx[r].fx) => \A h \in handed : StatusIsTrue(h)

Held(r) == Range(rx[r].fx.names)

NewFiles == disk.names \ FirstDisk.names

(* No file is with two receivers, handed over twice, or handed over and    *)
(* still being received.                                                   *)
FilesApart ==
  /\ \A q, r \in Receivers : q # r => Held(q) \cap Held(r) = {}
  /\ \A h \in handed, r \in Receivers : Range(h.names) \cap Held(r) = {}
  /\ \A g, h \in handed : g # h => Range(g.names) \cap Range(h.names) = {}

(* Every file created since the start is with a receiver or handed over,   *)
(* and only such files are.                                                *)
FilesKnown ==
  /\ FirstDisk.names \subseteq disk.names
  /\ \A r \in Receivers : Held(r) \subseteq NewFiles
  /\ \A h \in handed : Range(h.names) \subseteq NewFiles
  /\ \A name \in NewFiles :
       (\E r \in Receivers : name \in Held(r)) \/ (\E h \in handed : name \in Range(h.names))

(* The number of a session's log file is taken.                            *)
Logged ==
  \A r \in Receivers : rx[r].jobNr # 0 => <<rx[r].jobNr, 1>> \in log.names

Inv ==
  /\ TypeOK /\ CallsOK /\ SameFormat
  /\ Reported
  /\ FilesApart /\ FilesKnown
  /\ Logged /\ JobFilesDistinct

(* A step of one receiver.                                                 *)
LEMMA OneMoves ==
  ASSUME rx \in [Receivers -> Receiver], CallsOK, SameFormat,
         NEW r \in Receivers, NEW y, y \in Receiver, CallOK(y),
         y.fx.format = rx[r].fx.format, rx' = [rx EXCEPT ![r] = y]
  PROVE  /\ rx' \in [Receivers -> Receiver] /\ CallsOK' /\ SameFormat'
         /\ rx'[r] = y /\ \A q \in Receivers \ {r} : rx'[q] = rx[q]
         /\ \A q \in Receivers : rx'[q].fx.format = rx[q].fx.format
<1>1. rx' \in [Receivers -> Receiver]
  OBVIOUS
<1>2. rx'[r] = y /\ \A q \in Receivers \ {r} : rx'[q] = rx[q]
  OBVIOUS
<1>3. CallsOK'
  BY <1>2 DEF CallsOK
<1>4. \A q \in Receivers : rx'[q].fx.format = rx[q].fx.format
  BY <1>2
<1>5. SameFormat'
  BY <1>4 DEF SameFormat
<1> QED
  BY <1>1, <1>2, <1>3, <1>4, <1>5

(* Nothing is reported.                                                    *)
LEMMA SameReports ==
  ASSUME Reported, handed' = handed,
         \A q \in Receivers : rx'[q].fx.format = rx[q].fx.format
  PROVE  Reported'
BY DEF Reported, Tiff

(* Files that are created go to the receiver that creates them.            *)
LEMMA FilesCreated ==
  ASSUME FilesApart, FilesKnown, NEW r \in Receivers, NEW new,
         new \cap disk.names = {}, disk'.names = disk.names \cup new, handed' = handed,
         Held(r)' = Held(r) \cup new, \A q \in Receivers \ {r} : Held(q)' = Held(q)
  PROVE  FilesApart' /\ FilesKnown'
<1>1. new \cap FirstDisk.names = {}
  BY DEF FilesKnown
<1>2. NewFiles' = NewFiles \cup new /\ new \cap NewFiles = {}
  BY <1>1 DEF NewFiles
<1>3. \A q \in Receivers : Held(q) \subseteq NewFiles
  BY DEF FilesKnown
<1>4. \A h \in handed : Range(h.names) \subseteq NewFiles
  BY DEF FilesKnown
<1>5. \A q \in Receivers : Held(q)' = Held(q) \/ (q = r /\ Held(q)' = Held(q) \cup new)
  <2> TAKE q \in Receivers
  <2>1. CASE q = r
    BY <2>1
  <2>2. CASE q # r
    BY <2>2
  <2> QED
    BY <2>1, <2>2
<1>6. (\A p, q \in Receivers : p # q => Held(p) \cap Held(q) = {})'
  <2> SUFFICES ASSUME NEW p \in Receivers, NEW q \in Receivers, p # q
               PROVE  Held(p)' \cap Held(q)' = {}
    OBVIOUS
  <2>1. Held(p) \cap Held(q) = {}
    BY DEF FilesApart
  <2> QED
    BY <2>1, <1>2, <1>3, <1>5
<1>7. (\A h \in handed, q \in Receivers : Range(h.names) \cap Held(q) = {})'
  <2> SUFFICES ASSUME NEW h \in handed, NEW q \in Receivers
               PROVE  Range(h.names) \cap Held(q)' = {}
    OBVIOUS
  <2>1. Range(h.names) \cap Held(q) = {}
    BY DEF FilesApart
  <2> QED
    BY <2>1, <1>2, <1>4, <1>5
<1>8. FilesApart'
  BY <1>6, <1>7 DEF FilesApart
<1>9. (\A q \in Receivers : Held(q) \subseteq NewFiles)'
  BY <1>2, <1>3, <1>5
<1>10. (\A h \in handed : Range(h.names) \subseteq NewFiles)'
  BY <1>2, <1>4
<1>11. (\A name \in NewFiles :
         (\E q \in Receivers : name \in Held(q)) \/ (\E h \in handed : name \in Range(h.names)))'
  <2> SUFFICES ASSUME NEW name \in NewFiles'
               PROVE  (\E q \in Receivers : name \in Held(q)') \/ (\E h \in handed : name \in Range(h.names))
    OBVIOUS
  <2>1. CASE name \in new
    BY <2>1
  <2>2. CASE name \in NewFiles
    <3>1. (\E q \in Receivers : name \in Held(q)) \/ (\E h \in handed : name \in Range(h.names))
      BY <2>2 DEF FilesKnown
    <3> QED
      BY <3>1, <1>5
  <2> QED
    BY <2>1, <2>2, <1>2
<1>12. FirstDisk.names \subseteq disk'.names
  BY DEF FilesKnown
<1> QED
  BY <1>8, <1>9, <1>10, <1>11, <1>12 DEF FilesKnown

(* Files that are handed over leave the receiver.                          *)
LEMMA FilesHanded ==
  ASSUME FilesApart, FilesKnown, NEW r \in Receivers, NEW h,
         disk' = disk, handed' = handed \cup {h}, Range(h.names) = Held(r),
         Held(r) # {}, Held(r)' = {}, \A q \in Receivers \ {r} : Held(q)' = Held(q)
  PROVE  FilesApart' /\ FilesKnown'
<1>1. NewFiles' = NewFiles
  BY DEF NewFiles
<1>2. \A q \in Receivers : Held(q)' \subseteq Held(q)
  OBVIOUS
<1>3. (\A p, q \in Receivers : p # q => Held(p) \cap Held(q) = {})'
  BY <1>2 DEF FilesApart
<1>4. \A g \in handed' : g \in handed \/ Range(g.names) = Held(r)
  OBVIOUS
<1>5. \A q \in Receivers : (q = r /\ Held(q)' = {}) \/ (q # r /\ Held(q)' = Held(q))
  <2> TAKE q \in Receivers
  <2>1. CASE q = r
    BY <2>1
  <2>2. CASE q # r
    BY <2>2
  <2> QED
    BY <2>1, <2>2
<1>6. (\A g \in handed, q \in Receivers : Range(g.names) \cap Held(q) = {})'
  <2> SUFFICES ASSUME NEW g \in handed', NEW q \in Receivers
               PROVE  Range(g.names) \cap Held(q)' = {}
    OBVIOUS
  <2>1. CASE g \in handed
    BY <2>1, <1>2 DEF FilesApart
  <2>2. CASE Range(g.names) = Held(r)
    BY <2>2, <1>5 DEF FilesApart
  <2> QED
    BY <2>1, <2>2, <1>4
<1>7. \A g \in handed : Range(g.names) \cap Range(h.names) = {}
  BY DEF FilesApart
<1>8. (\A g, k \in handed : g # k => Range(g.names) \cap Range(k.names) = {})'
  <2> SUFFICES ASSUME NEW g \in handed', NEW k \in handed', g # k
               PROVE  Range(g.names) \cap Range(k.names) = {}
    OBVIOUS
  <2>1. (g \in handed \/ g = h) /\ (k \in handed \/ k = h)
    OBVIOUS
  <2>2. CASE g \in handed /\ k \in handed
    BY <2>2 DEF FilesApart
  <2>3. CASE g = h \/ k = h
    BY <2>1, <2>3, <1>7
  <2> QED
    BY <2>1, <2>2, <2>3
<1>9. FilesApart'
  BY <1>3, <1>6, <1>8 DEF FilesApart
<1>10. (\A q \in Receivers : Held(q) \subseteq NewFiles)'
  BY <1>1, <1>2 DEF FilesKnown
<1>11. (\A g \in handed : Range(g.names) \subseteq NewFiles)'
  BY <1>1, <1>4 DEF FilesKnown
<1>12. (\A name \in NewFiles :
         (\E q \in Receivers : name \in Held(q)) \/ (\E g \in handed : name \in Range(g.names)))'
  <2> SUFFICES ASSUME NEW name \in NewFiles
               PROVE  (\E q \in Receivers : name \in Held(q)') \/ (\E g \in handed' : name \in Range(g.names))
    BY <1>1
  <2>1. (\E q \in Receivers : name \in Held(q)) \/ (\E g \in handed : name \in Range(g.names))
    BY DEF FilesKnown
  <2>2. ASSUME NEW q \in Receivers, name \in Held(q)
        PROVE  (\E p \in Receivers : name \in Held(p)') \/ (\E g \in handed' : name \in Range(g.names))
    BY <2>2, <1>5
  <2> QED
    BY <2>1, <2>2
<1>13. FirstDisk.names \subseteq disk'.names
  BY DEF FilesKnown
<1> QED
  BY <1>9, <1>10, <1>11, <1>12, <1>13 DEF FilesKnown

(* Nothing changes for the files.                                          *)
LEMMA FilesStay ==
  ASSUME FilesApart, FilesKnown, disk' = disk, handed' = handed,
         \A q \in Receivers : Held(q)' = Held(q)
  PROVE  FilesApart' /\ FilesKnown'
<1>1. NewFiles' = NewFiles
  BY DEF NewFiles
<1> QED
  BY <1>1 DEF FilesApart, FilesKnown

(* A step that creates no log file.                                        *)
LEMMA JobsStay ==
  ASSUME Logged, JobFilesDistinct, NEW r \in Receivers, log' = log,
         rx'[r].jobNr \in {0, rx[r].jobNr}, \A q \in Receivers \ {r} : rx'[q] = rx[q]
  PROVE  Logged' /\ JobFilesDistinct'
<1>1. \A q \in Receivers : rx'[q].jobNr \in {0, rx[q].jobNr}
  OBVIOUS
<1> QED
  BY <1>1 DEF Logged, JobFilesDistinct

-----------------------------------------------------------------------------
(* The steps                                                               *)

(* The device at the start.                                                *)
LEMMA InvInit == Init => Inv
<1> SUFFICES ASSUME Init PROVE Inv
  OBVIOUS
<1>1. PICK format \in Formats :
        /\ rx = [r \in Receivers |-> NewReceiver(format)]
        /\ disk = FirstDisk
        /\ log = [seq |-> 0, names |-> {}]
        /\ handed = {}
  BY DEF Init
<1> DEFINE x == NewReceiver(format)
<1>2. NewFax(format) \in Fax
  <2>1. <<>> \in Seq(FileNames)
    OBVIOUS
  <2> QED
    BY <2>1 DEF NewFax, Fax
<1>3. /\ x.fx = NewFax(format) /\ x.call = "idle" /\ x.jobNr = 0 /\ x.fifo = <<>>
      /\ x.fx.names = <<>> /\ x.fx.format = format /\ ~x.fx.fd
  BY DEF NewReceiver, NewFax
<1>4. x \in Receiver
  <2>1. <<>> \in Seq(Letters) /\ "idle" \in Phases
    BY DEF Phases
  <2> QED
    BY <1>2, <2>1 DEF NewReceiver, Receiver
<1>5. \A r \in Receivers : rx[r] = x
  BY <1>1
<1> HIDE DEF x
<1>6. CallOK(x)
  BY <1>3 DEF CallOK, HoldsFiles, KnowsHowFar, TellsSession
<1>7. \A r \in Receivers : Held(r) = {}
  BY <1>3, <1>5 DEF Held, Range
<1>8. log \in Spool /\ disk \in Spool
  <2>1. FirstDisk \in Spool
    BY RecvCallAssumption DEF Spool, FileNames
  <2>2. [seq |-> 0, names |-> {}] \in Spool
    BY DEF Spool
  <2> QED
    BY <1>1, <2>1, <2>2
<1>9. TypeOK
  <2>1. rx \in [Receivers -> Receiver]
    BY <1>1, <1>4 DEF x
  <2> QED
    BY <1>1, <1>8, <2>1 DEF TypeOK
<1>10. CallsOK /\ SameFormat
  BY <1>3, <1>5, <1>6 DEF CallsOK, SameFormat
<1>11. Reported
  BY <1>1 DEF Reported
<1>12. NewFiles = {}
  BY <1>1 DEF NewFiles
<1>13. FilesApart /\ FilesKnown
  BY <1>1, <1>7, <1>12 DEF FilesApart, FilesKnown
<1>14. Logged /\ JobFilesDistinct
  BY <1>3, <1>5 DEF Logged, JobFilesDistinct
<1> QED
  BY <1>9, <1>10, <1>11, <1>13, <1>14 DEF Inv

(* IncomingCall: the log file it creates has a number of its own.          *)
LEMMA IncomingCallKeeps ==
  ASSUME Inv, NEW r \in Receivers, IncomingCall(r)
  PROVE  Inv'
<1> DEFINE x == rx[r]
           j == IF x.fx.format = "hylafax" THEN GetJobFile(log) ELSE [nr |-> 0, log |-> log]
<1>1. PICK doc \in Documents :
        /\ rx' = [rx EXCEPT ![r] = [@ EXCEPT !.call = "setup", !.jobNr = j.nr,
                    !.doc = doc, !.got = 0, !.hang = FALSE, !.fifo = <<>>]]
        /\ log' = j.log
  BY DEF IncomingCall
<1>2. x.call = "idle" /\ disk' = disk /\ handed' = handed
  BY DEF IncomingCall, Is
<1>3. x \in Receiver /\ CallOK(x)
  BY DEF Inv, TypeOK, CallsOK
<1>4. /\ j.nr \in Nat /\ j.log \in Spool
      /\ j.nr # 0 => <<j.nr, 1>> \notin log.names /\ <<j.nr, 1>> \in j.log.names
      /\ log.names \subseteq j.log.names
  <2> DEFINE k == FreeNumber(log)
  <2>1. log \in Spool /\ k \in Nat /\ (k # 0 => <<k, 1>> \notin log.names)
    BY NumberIsFree DEF Inv, TypeOK
  <2> HIDE DEF k
  <2>2. j = [nr |-> 0, log |-> log] \/ j = [nr |-> k, log |-> IF k = 0 THEN log ELSE
             [[log EXCEPT !.names = @ \cup {<<k, 1>>}] EXCEPT !.seq = k]]
    BY DEF GetJobFile, Created, k
  <2> HIDE DEF j
  <2>3. CASE j = [nr |-> 0, log |-> log] \/ k = 0
    <3>1. j = [nr |-> 0, log |-> log]
      BY <2>2, <2>3
    <3> QED
      BY <2>1, <3>1
  <2>4. CASE j # [nr |-> 0, log |-> log] /\ k # 0
    <3> DEFINE more == log.names \cup {<<k, 1>>}
    <3>1. more \in SUBSET FileNames /\ log.names \subseteq more /\ <<k, 1>> \in more
      BY <2>1 DEF Spool, FileNames
    <3>2. j = [nr |-> k, log |-> [[log EXCEPT !.names = more] EXCEPT !.seq = k]]
      BY <2>2, <2>4
    <3> HIDE DEF more
    <3>3. j.nr = k /\ j.log \in Spool /\ j.log.names = more
      BY <2>1, <3>1, <3>2 DEF Spool
    <3> QED
      BY <2>1, <2>4, <3>1, <3>3
  <2> QED
    BY <2>3, <2>4
<1> HIDE DEF j
<1> DEFINE y == [x EXCEPT !.call = "setup", !.jobNr = j.nr, !.doc = doc, !.got = 0,
                          !.hang = FALSE, !.fifo = <<>>]
<1>5. y \in Receiver /\ CallOK(y) /\ y.fx = x.fx /\ y.jobNr = j.nr
  <2> DEFINE n == j.nr
  <2>1. n \in Nat /\ x \in Receiver /\ CallOK(x) /\ x.call = "idle" /\ doc \in Documents
    BY <1>1, <1>2, <1>3, <1>4
  <2> HIDE DEF n, x
  <2>2. LET z == Answered(x, n, doc)
        IN  z \in Receiver /\ CallOK(z) /\ z.fx = x.fx /\ z.jobNr = n
    BY <2>1, IncomingCallOK
  <2>3. y = Answered(x, n, doc)
    BY DEF Answered, n
  <2> QED
    BY <2>2, <2>3 DEF n
<1>6. rx' = [rx EXCEPT ![r] = y]
  BY <1>1
<1> HIDE DEF y
<1>7. /\ rx' \in [Receivers -> Receiver] /\ CallsOK' /\ SameFormat'
      /\ rx'[r] = y /\ \A q \in Receivers \ {r} : rx'[q] = rx[q]
      /\ \A q \in Receivers : rx'[q].fx.format = rx[q].fx.format
  BY <1>5, <1>6, OneMoves DEF Inv, TypeOK
<1>8. \A q \in Receivers : Held(q)' = Held(q)
  BY <1>5, <1>7 DEF Held
<1>9. FilesApart' /\ FilesKnown'
  BY <1>2, <1>8, FilesStay DEF Inv
<1>10. Reported'
  BY <1>2, <1>7, SameReports DEF Inv
<1>11. Logged'
  BY <1>1, <1>4, <1>5, <1>7 DEF Inv, Logged
<1>12. JobFilesDistinct'
  <2>1. \A q \in Receivers \ {r} : rx[q].jobNr # 0 => rx[q].jobNr # j.nr
    BY <1>4 DEF Inv, Logged
  <2> QED
    BY <1>5, <1>7, <2>1 DEF Inv, JobFilesDistinct
<1>13. TypeOK'
  BY <1>1, <1>2, <1>4, <1>7 DEF Inv, TypeOK
<1> QED
  BY <1>7, <1>9, <1>10, <1>11, <1>12, <1>13 DEF Inv

(* Steps that leave log and history alone: the files they create are the   *)
(* receiver's.                                                             *)
LEMMA FilesOfCall ==
  ASSUME Inv, NEW r \in Receivers, NEW y, y \in Receiver, CallOK(y),
         y.fx.format = rx[r].fx.format, y.jobNr = rx[r].jobNr,
         rx' = [rx EXCEPT ![r] = y], log' = log, handed' = handed,
         disk' \in Spool,
         NEW new, new \cap disk.names = {}, disk'.names = disk.names \cup new,
         Range(y.fx.names) = Range(rx[r].fx.names) \cup new
  PROVE  Inv'
<1>1. /\ rx' \in [Receivers -> Receiver] /\ CallsOK' /\ SameFormat'
      /\ rx'[r] = y /\ \A q \in Receivers \ {r} : rx'[q] = rx[q]
      /\ \A q \in Receivers : rx'[q].fx.format = rx[q].fx.format
  BY OneMoves DEF Inv, TypeOK
<1>2. Held(r)' = Held(r) \cup new /\ \A q \in Receivers \ {r} : Held(q)' = Held(q)
  BY <1>1 DEF Held
<1>3. FilesApart' /\ FilesKnown'
  BY <1>2, FilesCreated DEF Inv
<1>4. Reported'
  BY <1>1, SameReports DEF Inv
<1>5. Logged' /\ JobFilesDistinct'
  BY <1>1, JobsStay DEF Inv
<1>6. TypeOK'
  BY <1>1 DEF Inv, TypeOK
<1> QED
  BY <1>1, <1>3, <1>4, <1>5, <1>6 DEF Inv

(* The same for a step that creates no file.                               *)
LEMMA NoFiles ==
  ASSUME Inv, NEW r \in Receivers, NEW y, y \in Receiver, CallOK(y),
         y.fx.format = rx[r].fx.format, y.jobNr = rx[r].jobNr, y.fx.names = rx[r].fx.names,
         rx' = [rx EXCEPT ![r] = y], log' = log, handed' = handed, disk' = disk
  PROVE  Inv'
<1>1. disk' \in Spool
  BY DEF Inv, TypeOK
<1>2. {} \cap disk.names = {} /\ disk'.names = disk.names \cup {}
  OBVIOUS
<1>3. Range(y.fx.names) = Range(rx[r].fx.names) \cup {}
  OBVIOUS
<1> QED
  BY <1>1, <1>2, <1>3, FilesOfCall

(* IsConnected: refused, without its file, or receiving.                   *)
LEMMA IsConnectedKeeps ==
  ASSUME Inv, NEW r \in Receivers, IsConnected(r)
  PROVE  Inv'
<1> DEFINE x == rx[r]
           up == [x EXCEPT !.call = "connected"]
           o(able, opens) == OpenRecv(x.fx, disk, able, opens)
<1>1. PICK able \in BOOLEAN, opens \in BOOLEAN :
        \/ /\ rx' = [rx EXCEPT ![r] = [up EXCEPT !.hang = TRUE]]
           /\ disk' = disk
        \/ /\ o(able, opens).fx.names = <<>>
           /\ rx' = [rx EXCEPT ![r] = [up EXCEPT !.fx = o(able, opens).fx, !.hang = TRUE]]
           /\ disk' = o(able, opens).disk
        \/ /\ o(able, opens).fx.names # <<>>
           /\ rx' = [rx EXCEPT ![r] = NotifyFIFO([up EXCEPT !.fx = o(able, opens).fx],
                                                 <<"I", "B", "S">>)]
           /\ disk' = o(able, opens).disk
  <2> SUFFICES ASSUME NEW able \in BOOLEAN, NEW opens \in BOOLEAN, NEW kind \in BOOLEAN,
         CASE ~kind -> /\ rx' = [rx EXCEPT ![r] = [up EXCEPT !.hang = TRUE]]
                       /\ UNCHANGED <<disk, status>>
           [] kind /\ o(able, opens).fx.names = <<>> ->
                /\ rx' = [rx EXCEPT ![r] = [up EXCEPT !.fx = o(able, opens).fx, !.hang = TRUE]]
                /\ disk' = o(able, opens).disk
                /\ UNCHANGED status
           [] OTHER ->
                /\ rx' = [rx EXCEPT ![r] =
                     NotifyFIFO([up EXCEPT !.fx = o(able, opens).fx], <<"I", "B", "S">>)]
                /\ disk' = o(able, opens).disk
                /\ status' = "Receiving facsimile"
       PROVE \/ /\ rx' = [rx EXCEPT ![r] = [up EXCEPT !.hang = TRUE]]
                /\ disk' = disk
             \/ /\ o(able, opens).fx.names = <<>>
                /\ rx' = [rx EXCEPT ![r] = [up EXCEPT !.fx = o(able, opens).fx, !.hang = TRUE]]
                /\ disk' = o(able, opens).disk
             \/ /\ o(able, opens).fx.names # <<>>
                /\ rx' = [rx EXCEPT ![r] = NotifyFIFO([up EXCEPT !.fx = o(able, opens).fx],
                                                      <<"I", "B", "S">>)]
                /\ disk' = o(able, opens).disk
    <3>1. PICK able \in BOOLEAN, opens \in BOOLEAN, kind \in BOOLEAN :
         CASE ~kind -> /\ rx' = [rx EXCEPT ![r] = [up EXCEPT !.hang = TRUE]]
                       /\ UNCHANGED <<disk, status>>
           [] kind /\ o(able, opens).fx.names = <<>> ->
                /\ rx' = [rx EXCEPT ![r] = [up EXCEPT !.fx = o(able, opens).fx, !.hang = TRUE]]
                /\ disk' = o(able, opens).disk
                /\ UNCHANGED status
           [] OTHER ->
                /\ rx' = [rx EXCEPT ![r] =
                     NotifyFIFO([up EXCEPT !.fx = o(able, opens).fx], <<"I", "B", "S">>)]
                /\ disk' = o(able, opens).disk
                /\ status' = "Receiving facsimile"
      BY DEF IsConnected
    <3> HIDE DEF o, up
    <3> QED
      BY <3>1
  <2> HIDE DEF o, up
  <2> QED
    OBVIOUS
<1>2. x.call = "setup" /\ ~x.hang /\ log' = log /\ handed' = handed
  BY DEF IsConnected, Is
<1>3. x \in Receiver /\ CallOK(x) /\ disk \in Spool
  BY DEF Inv, TypeOK, CallsOK
<1>4. x.fx \in Fax /\ x.fx.names = <<>>
  BY <1>2, <1>3 DEF Receiver, CallOK, HoldsFiles
<1> DEFINE opened == o(able, opens)
<1>5. /\ opened.fx \in Fax /\ opened.disk \in Spool
      /\ opened.fx.format = x.fx.format /\ opened.fx.finished = 0 /\ opened.fx.pages = 0
      /\ Tiff(x.fx) => opened.fx.recvState = 1
      /\ Lists(x.fx, disk, opened)
  BY <1>3, <1>4, OpenRecvLists
<1>6. CASE /\ rx' = [rx EXCEPT ![r] = [up EXCEPT !.hang = TRUE]]
           /\ disk' = disk
  <2> DEFINE y == [up EXCEPT !.hang = TRUE]
  <2>1. y \in Receiver /\ CallOK(y) /\ y.fx = x.fx /\ y.jobNr = x.jobNr
    BY <1>2, <1>3, HangUpOK
  <2> HIDE DEF y
  <2>2. rx' = [rx EXCEPT ![r] = y] /\ disk' = disk
    BY <1>6 DEF y
  <2> QED
    BY <1>2, <2>1, <2>2, NoFiles
<1> HIDE DEF o
<1> HIDE DEF opened
<1>7. CASE /\ o(able, opens).fx.names = <<>>
           /\ rx' = [rx EXCEPT ![r] = [up EXCEPT !.fx = o(able, opens).fx, !.hang = TRUE]]
           /\ disk' = o(able, opens).disk
  <2> DEFINE y == [up EXCEPT !.fx = opened.fx, !.hang = TRUE]
  <2>1. opened.fx.names = <<>> /\ disk' = opened.disk /\ rx' = [rx EXCEPT ![r] = y]
    BY <1>7 DEF opened
  <2>2. y \in Receiver /\ CallOK(y) /\ y.fx = opened.fx /\ y.jobNr = x.jobNr
    BY <1>2, <1>3, <1>5, <2>1, IsConnectedOK
  <2> HIDE DEF y
  <2>3. PICK new \in SUBSET FileNames :
          /\ new \cap disk.names = {}
          /\ opened.disk.names = disk.names \cup new
          /\ Range(opened.fx.names) = Range(x.fx.names) \cup new
    BY <1>5 DEF Lists
  <2> QED
    BY <1>2, <1>5, <2>1, <2>2, <2>3, FilesOfCall
<1>8. CASE /\ o(able, opens).fx.names # <<>>
           /\ rx' = [rx EXCEPT ![r] = NotifyFIFO([up EXCEPT !.fx = o(able, opens).fx],
                                                 <<"I", "B", "S">>)]
           /\ disk' = o(able, opens).disk
  <2> DEFINE y == NotifyFIFO([up EXCEPT !.fx = opened.fx], <<"I", "B", "S">>)
  <2>1. opened.fx.names # <<>> /\ disk' = opened.disk /\ rx' = [rx EXCEPT ![r] = y]
    BY <1>8 DEF opened
  <2>2. y \in Receiver /\ CallOK(y) /\ y.fx = opened.fx /\ y.jobNr = x.jobNr
    BY <1>2, <1>3, <1>5, <2>1, IsConnectedOK
  <2> HIDE DEF y
  <2>3. PICK new \in SUBSET FileNames :
          /\ new \cap disk.names = {}
          /\ opened.disk.names = disk.names \cup new
          /\ Range(opened.fx.names) = Range(x.fx.names) \cup new
    BY <1>5 DEF Lists
  <2> QED
    BY <1>2, <1>5, <2>1, <2>2, <2>3, FilesOfCall
<1> QED
  BY <1>1, <1>6, <1>7, <1>8

(* GetData, with the file of a next page or without.                       *)
LEMMA GetDataKeeps ==
  ASSUME Inv, NEW r \in Receivers, GetData(r)
  PROVE  Inv'
<1> DEFINE x == rx[r]
           what == BlockIn(x)
<1>1. x \in Receiver /\ CallOK(x) /\ disk \in Spool
  BY DEF Inv, TypeOK, CallsOK
<1>2. x.call = "connected" /\ ~x.hang /\ x.got <= x.doc /\ log' = log /\ handed' = handed
  BY DEF GetData, Is
<1>3. x.got \in Nat /\ x.doc \in Nat \ {0} /\ x.fx \in Fax
  BY <1>1, PagesToCome DEF Receiver
<1>4. what = CASE x.got = 0 -> "head" [] x.got = x.doc -> "last" [] OTHER -> "page"
  <2>1. ~(x.got = 0 /\ x.got = x.doc)
    BY <1>3
  <2> HIDE DEF x
  <2> QED
    BY <2>1 DEF BlockIn
<1>5. what \in Blocks
  BY DEF BlockIn, Blocks
<1> HIDE DEF what
<1> DEFINE f(able) == RecvSFF(x.fx, disk, what, able)
           y(able) == [x EXCEPT !.fx = f(able).fx, !.got = @ + 1, !.hang = f(able).ret # "Okay"]
<1>6. PICK able \in BOOLEAN :
        /\ rx' = [rx EXCEPT ![r] = IF PageEndReached(x.fx, f(able).fx)
                                   THEN NotifyFIFO(y(able), <<"P">>) ELSE y(able)]
        /\ disk' = f(able).disk
  BY <1>4 DEF GetData
<1> DEFINE got == f(able)
<1>7. /\ got.fx \in Fax /\ got.disk \in Spool
      /\ got.fx.format = x.fx.format /\ got.fx.finished = x.fx.finished
      /\ x.fx.names # <<>> => got.fx.names # <<>>
      /\ Lists(x.fx, disk, got)
  BY <1>1, <1>3, <1>5, RecvSFFLists
<1>8. x.fx.names # <<>> /\ x.fx.finished = 0
  BY <1>1, <1>2 DEF CallOK, HoldsFiles
<1>9. Tiff(x.fx) =>
        /\ got.fx.pages \in {x.fx.pages, x.fx.pages + 1} /\ got.ret = "Okay"
        /\ x.fx.recvState = 1 /\ what = "head" => got.fx.recvState = 2
        /\ x.fx.recvState = 2 /\ what = "page" => got.fx.recvState = 2
        /\ x.fx.recvState = 2 /\ what = "last" => got.fx.recvState = 3
  BY <1>1, <1>3, <1>5, <1>8, RecvSFFCounts
<1> DEFINE hang == got.ret # "Okay"
           z == IF PageEndReached(x.fx, got.fx)
                THEN NotifyFIFO([x EXCEPT !.fx = got.fx, !.got = @ + 1, !.hang = hang], <<"P">>)
                ELSE [x EXCEPT !.fx = got.fx, !.got = @ + 1, !.hang = hang]
<1>10. rx' = [rx EXCEPT ![r] = z] /\ disk' = got.disk
  BY <1>6
<1>11. hang \in BOOLEAN
  OBVIOUS
<1> HIDE DEF f, y, got
<1> HIDE DEF hang
<1>12. z \in Receiver /\ CallOK(z) /\ z.fx = got.fx /\ z.jobNr = x.jobNr
  <2>1. z = AfterData(x, got.fx, hang)
    BY DEF AfterData
  <2> HIDE DEF x, z
  <2>2. /\ x \in Receiver /\ CallOK(x) /\ x.call = "connected" /\ ~x.hang /\ x.got <= x.doc
        /\ got.fx \in Fax /\ hang \in BOOLEAN /\ got.fx.format = x.fx.format
        /\ got.fx.finished = 0 /\ got.fx.names # <<>>
    BY <1>1, <1>2, <1>7, <1>8, <1>11
  <2>3. Tiff(x.fx) =>
           /\ got.fx.pages \in {x.fx.pages, x.fx.pages + 1}
           /\ x.fx.recvState = 1 /\ BlockIn(x) = "head" => got.fx.recvState = 2
           /\ x.fx.recvState = 2 /\ BlockIn(x) = "page" => got.fx.recvState = 2
           /\ x.fx.recvState = 2 /\ BlockIn(x) = "last" => got.fx.recvState = 3
    BY <1>9 DEF what
  <2>4. Receives(x, got.fx, hang)
    BY <2>2, <2>3 DEF Receives
  <2> QED
    BY <2>1, <2>4, GetDataOK
<1> HIDE DEF z
<1>13. PICK new \in SUBSET FileNames :
        /\ new \cap disk.names = {}
        /\ got.disk.names = disk.names \cup new
        /\ Range(got.fx.names) = Range(x.fx.names) \cup new
  BY <1>7 DEF Lists
<1> QED
  BY <1>2, <1>7, <1>10, <1>12, <1>13, FilesOfCall

(* StopReceive, by the main thread.                                        *)
LEMMA StopReceiveKeeps ==
  ASSUME Inv, NEW r \in Receivers, StopReceive(r)
  PROVE  Inv'
<1> DEFINE x == rx[r]
           y == [x EXCEPT !.quit = TRUE, !.hang = TRUE, !.fx = StopRecv(@)]
<1>1. rx \in [Receivers -> Receiver] /\ x \in Receiver /\ CallOK(x)
  BY DEF Inv, TypeOK, CallsOK
<1>2. rx' = [rx EXCEPT ![r] = y] /\ log' = log /\ handed' = handed /\ disk' = disk
  BY <1>1 DEF StopReceive, Receiver
<1>3. /\ y \in Receiver /\ CallOK(y) /\ y.jobNr = x.jobNr
      /\ y.fx.names = x.fx.names /\ y.fx.format = x.fx.format
  BY <1>1, StopReceiveOK
<1> HIDE DEF y
<1> QED
  BY <1>2, <1>3, NoFiles

(* DisconnectInquiry keeps the files where they are.                       *)
LEMMA DisconnectInquiryKeeps ==
  ASSUME Inv, NEW r \in Receivers, DisconnectInquiry(r)
  PROVE  Inv'
<1> DEFINE x == rx[r]
           all == IF x.got = 0 THEN 0 ELSE x.got - 1
           p(ncpi) == IF ncpi /\ x.fx.format = "sff" THEN all ELSE x.fx.pages
           y(ncpi) == [x EXCEPT !.call = "closing", !.fx = [@ EXCEPT !.pages = p(ncpi), !.finished = 2]]
<1>1. rx \in [Receivers -> Receiver] /\ x \in Receiver /\ CallOK(x)
  BY DEF Inv, TypeOK, CallsOK
<1>2. x.call \in {"setup", "connected"} /\ log' = log /\ handed' = handed /\ disk' = disk
  BY DEF DisconnectInquiry, Is
<1>3. x.fx \in Fax /\ x.got \in Nat
  BY <1>1 DEF Receiver
<1>4. x.fx.pages \in Nat /\ all \in Nat
  <2>1. x.fx.pages \in Nat
    BY <1>3 DEF Fax
  <2>2. all \in Nat
    <3> HIDE DEF x
    <3> QED
      BY <1>3
  <2> QED
    BY <2>1, <2>2
<1>5. PICK ncpi \in BOOLEAN :
        rx' = [rx EXCEPT ![r].call = "closing",
                         ![r].fx.pages = IF ncpi /\ x.fx.format = "sff" THEN all ELSE @,
                         ![r].fx.finished = StopRecv(x.fx).finished]
  BY DEF DisconnectInquiry
<1>6. StopRecv(x.fx).finished = 2
  BY <1>3, FaxEnds
<1>7. rx' = [rx EXCEPT ![r] = y(ncpi)]
  <2>1. [rx EXCEPT ![r].call = "closing",
                         ![r].fx.pages = IF ncpi /\ x.fx.format = "sff" THEN all ELSE @,
                         ![r].fx.finished = 2] = [rx EXCEPT ![r] = y(ncpi)]
    BY <1>1
  <2> QED
    BY <1>5, <1>6, <2>1
<1>8. p(ncpi) \in Nat /\ (p(ncpi) = x.fx.pages \/ x.fx.format = "sff")
  BY <1>4
<1> DEFINE pages == p(ncpi)
           z == [x EXCEPT !.call = "closing", !.fx = [@ EXCEPT !.pages = pages, !.finished = 2]]
<1>9. rx' = [rx EXCEPT ![r] = z]
  BY <1>7
<1> HIDE DEF pages, p, y
<1>10. pages \in Nat /\ (pages = x.fx.pages \/ x.fx.format = "sff")
  BY <1>8 DEF pages
<1>11. /\ z \in Receiver /\ CallOK(z) /\ z.jobNr = x.jobNr
       /\ z.fx.names = x.fx.names /\ z.fx.format = x.fx.format
  BY <1>1, <1>2, <1>10, DisconnectInquiryOK
<1> HIDE DEF z
<1> QED
  BY <1>2, <1>9, <1>11, NoFiles

(* IsReseted: the receiver is gone without a file.                         *)
LEMMA IsResetedKeeps ==
  ASSUME Inv, NEW r \in Receivers, IsReseted(r)
  PROVE  Inv'
<1> DEFINE x == rx[r]
           y == [x EXCEPT !.call = "gone", !.fx = CloseRecv(@)]
<1>1. rx \in [Receivers -> Receiver] /\ x \in Receiver /\ CallOK(x)
  BY DEF Inv, TypeOK, CallsOK
<1>2. rx' = [rx EXCEPT ![r] = y] /\ log' = log /\ handed' = handed /\ disk' = disk
  BY <1>1 DEF IsReseted, Receiver
<1>3. x.call = "idle"
  BY DEF IsReseted, Is
<1>4. /\ y \in Receiver /\ CallOK(y) /\ y.jobNr = x.jobNr
      /\ y.fx.names = x.fx.names /\ y.fx.format = x.fx.format
  BY <1>1, <1>3, IsResetedOK
<1> HIDE DEF y
<1> QED
  BY <1>2, <1>4, NoFiles

(* A receiver that hears of the end of an unseen call has no file.         *)
LEMMA UnseenCallEndsKeeps ==
  ASSUME Inv, NEW r \in Receivers, UnseenCallEnds(r)
  PROVE  Inv'
<1> DEFINE x == rx[r]
           z == NotifyFIFO([HandOver(x) EXCEPT !.fifo = <<>>], <<"I", "R">>)
<1>1. rx \in [Receivers -> Receiver] /\ x \in Receiver /\ CallOK(x)
  BY DEF Inv, TypeOK, CallsOK
<1>2. /\ rx' = [rx EXCEPT ![r] = z] /\ log' = log /\ handed' = handed /\ disk' = disk
      /\ x.call = "idle"
  BY <1>1 DEF UnseenCallEnds, Is
<1>3. /\ z \in Receiver /\ CallOK(z) /\ z.jobNr = x.jobNr
      /\ z.fx.names = x.fx.names /\ z.fx.format = x.fx.format
  BY <1>1, <1>2, UnseenCallEndsOK
<1> HIDE DEF z
<1> QED
  BY <1>2, <1>3, NoFiles

(* IsDisconnected: the files leave the receiver for FaxRcvdCmd.            *)
LEMMA IsDisconnectedKeeps ==
  ASSUME Inv, NEW r \in Receivers, IsDisconnected(r)
  PROVE  Inv'
<1> DEFINE x == rx[r]
           z == NotifyFIFO([HandOver(x) EXCEPT !.call = "idle", !.jobNr = 0, !.got = 0],
                           <<"I", "R">>)
           h == [names |-> x.fx.names, came |-> x.got, doc |-> x.doc,
                 status |-> RecvStatus(x.fx.recvState)]
<1>1. x \in Receiver /\ CallOK(x)
  BY DEF Inv, TypeOK, CallsOK
<1>2. /\ x.call \in {"setup", "connected", "closing"}
      /\ rx' = [rx EXCEPT ![r] = z] /\ disk' = disk /\ log' = log
      /\ handed' = IF x.fx.names = <<>> THEN handed ELSE handed \cup {h}
  BY DEF IsDisconnected, Is
<1>3. z \in Receiver /\ CallOK(z) /\ z.jobNr = 0 /\ z.fx.names = <<>> /\ z.fx.format = x.fx.format
  BY <1>1, <1>2, IsDisconnectedOK
<1> HIDE DEF z
<1>4. /\ rx' \in [Receivers -> Receiver] /\ CallsOK' /\ SameFormat'
      /\ rx'[r] = z /\ \A q \in Receivers \ {r} : rx'[q] = rx[q]
      /\ \A q \in Receivers : rx'[q].fx.format = rx[q].fx.format
  BY <1>2, <1>3, OneMoves DEF Inv, TypeOK
<1>5. Held(r)' = {} /\ \A q \in Receivers \ {r} : Held(q)' = Held(q)
  BY <1>3, <1>4 DEF Held, Range
<1>6. Logged' /\ JobFilesDistinct'
  BY <1>2, <1>3, <1>4, JobsStay DEF Inv
<1>7. x.fx \in Fax /\ x.fx.names \in Seq(FileNames) /\ x.fx.recvState \in {0, 1, 2, 3}
  BY <1>1 DEF Receiver, Fax
<1>8. CASE x.fx.names = <<>>
  <2>1. handed' = handed
    BY <1>2, <1>8
  <2>2. \A q \in Receivers : Held(q)' = Held(q)
    <3>1. Held(r) = {}
      BY <1>8 DEF Held, Range
    <3> TAKE q \in Receivers
    <3>2. CASE q = r
      BY <1>5, <3>1, <3>2
    <3>3. CASE q # r
      BY <1>5, <3>3
    <3> QED
      BY <3>2, <3>3
  <2>3. FilesApart' /\ FilesKnown'
    BY <1>2, <2>1, <2>2, FilesStay DEF Inv
  <2>4. Reported'
    BY <1>4, <2>1, SameReports DEF Inv
  <2>5. TypeOK'
    BY <1>2, <1>4, <2>1 DEF Inv, TypeOK
  <2> QED
    BY <1>4, <1>6, <2>3, <2>4, <2>5 DEF Inv
<1>9. CASE x.fx.names # <<>>
  <2>1. handed' = handed \cup {h}
    BY <1>2, <1>9
  <2>2. RecvStatus(x.fx.recvState) \in {0, 6, 7, 12}
    BY <1>7 DEF RecvStatus
  <2>3. h \in Report
    <3>1. x.got \in Nat /\ x.doc \in Documents \cup {1}
      BY <1>1 DEF Receiver
    <3> QED
      BY <1>7, <2>2, <3>1 DEF Report
  <2>4. /\ h.names = x.fx.names /\ h.came = x.got /\ h.doc = x.doc
        /\ h.status = RecvStatus(x.fx.recvState)
    OBVIOUS
  <2>5. Tiff(x.fx) => StatusIsTrue(h)
    <3> HIDE DEF h, x
    <3> QED
      BY <1>1, <1>9, <2>4, StatusTellsHowFar DEF CallOK
  <2> HIDE DEF h
  <2>6. Held(r) # {} /\ Range(h.names) = Held(r)
    <3>1. 1 \in DOMAIN x.fx.names
      BY <1>7, <1>9, EmptySeq
    <3> QED
      BY <2>4, <3>1 DEF Held, Range
  <2>7. FilesApart' /\ FilesKnown'
    BY <1>2, <1>5, <2>1, <2>6, FilesHanded DEF Inv
  <2>8. Reported'
    <3> SUFFICES ASSUME NEW q \in Receivers, Tiff(rx'[q].fx), NEW g \in handed'
                 PROVE  StatusIsTrue(g)
      BY DEF Reported
    <3>1. Tiff(x.fx) /\ Tiff(rx[q].fx)
      BY <1>4 DEF Tiff, Inv, SameFormat
    <3> QED
      BY <2>1, <2>5, <3>1 DEF Inv, Reported
  <2>9. TypeOK'
    BY <1>2, <1>4, <2>1, <2>3 DEF Inv, TypeOK
  <2> QED
    BY <1>4, <1>6, <2>7, <2>8, <2>9 DEF Inv
<1> QED
  BY <1>8, <1>9

(* The invariant, step by step.                                            *)
LEMMA InvHolds == Spec => []Inv
<1>1. Inv /\ [Next]_vars => Inv'
  <2> SUFFICES ASSUME Inv, [Next]_vars PROVE Inv'
    OBVIOUS
  <2>1. ASSUME NEW r \in Receivers, IncomingCall(r) PROVE Inv'
    BY <2>1, IncomingCallKeeps
  <2>2. ASSUME NEW r \in Receivers, IsConnected(r) PROVE Inv'
    BY <2>2, IsConnectedKeeps
  <2>3. ASSUME NEW r \in Receivers, GetData(r) PROVE Inv'
    BY <2>3, GetDataKeeps
  <2>4. ASSUME NEW r \in Receivers, StopReceive(r) PROVE Inv'
    BY <2>4, StopReceiveKeeps
  <2>5. ASSUME NEW r \in Receivers, DisconnectInquiry(r) PROVE Inv'
    BY <2>5, DisconnectInquiryKeeps
  <2>6. ASSUME NEW r \in Receivers, IsDisconnected(r) PROVE Inv'
    BY <2>6, IsDisconnectedKeeps
  <2>7. ASSUME NEW r \in Receivers, IsReseted(r) PROVE Inv'
    BY <2>7, IsResetedKeeps
  <2>8. ASSUME NEW r \in Receivers, UnseenCallEnds(r) PROVE Inv'
    BY <2>8, UnseenCallEndsKeeps
  <2>9. CASE UNCHANGED vars
    BY <2>9 DEF vars, Inv, TypeOK, CallsOK, SameFormat, Reported, FilesApart, FilesKnown,
                NewFiles, Held, Logged, JobFilesDistinct
  <2> QED
    BY <2>1, <2>2, <2>3, <2>4, <2>5, <2>6, <2>7, <2>8, <2>9 DEF Next
<1> QED
  BY InvInit, <1>1, PTL DEF Spec

-----------------------------------------------------------------------------
(* What a reader should know                                               *)

(* Every file that CBasicFaxConversion creates for a fax is with exactly   *)
(* one receiver or was handed to FaxRcvdCmd exactly once, and a receiver   *)
(* without a call has none: for any number of receivers, calls and pages.  *)
THEOREM EveryFileHandedOver == Spec => []FilesAreHandedOver
<1>1. Inv => FilesAreHandedOver
  <2> SUFFICES ASSUME Inv PROVE FilesAreHandedOver
    OBVIOUS
  <2>1. \A r \in Receivers : ~Is(r, {"connected", "closing"}) =>
          rx[r].fx.names = <<>> /\ ~rx[r].fx.fd
    BY DEF Inv, CallsOK, CallOK, HoldsFiles, Is
  <2>2. ASSUME NEW name \in disk.names \ FirstDisk.names
        PROVE  Cardinality(Owners(name)) + Cardinality(Handed(name)) = 1
    <3>1. Owners(name) = {r \in Receivers : name \in Held(r)}
      BY DEF Owners, Held, Range
    <3>2. Handed(name) = {h \in handed : name \in Range(h.names)}
      BY DEF Handed, Range
    <3>3. (\E r \in Receivers : name \in Held(r)) \/ (\E h \in handed : name \in Range(h.names))
      BY DEF Inv, FilesKnown, NewFiles
    <3>4. CASE \E r \in Receivers : name \in Held(r)
      <4>1. PICK r \in Receivers : name \in Held(r)
        BY <3>4
      <4>2. Owners(name) = {r}
        BY <3>1, <4>1 DEF Inv, FilesApart
      <4>3. Handed(name) = {}
        BY <3>2, <4>1 DEF Inv, FilesApart
      <4> QED
        <5>1. Cardinality({}) = 0 /\ \A e : Cardinality({e}) = 1
          BY FS_EmptySet, FS_Singleton
        <5>2. Cardinality(Owners(name)) + Cardinality(Handed(name)) \in {0 + 1, 1 + 0}
          BY <4>2, <4>3, <5>1
        <5> QED
          BY <5>2
    <3>5. CASE \E h \in handed : name \in Range(h.names)
      <4>1. PICK h \in handed : name \in Range(h.names)
        BY <3>5
      <4>2. Handed(name) = {h}
        BY <3>2, <4>1 DEF Inv, FilesApart
      <4>3. Owners(name) = {}
        BY <3>1, <4>1 DEF Inv, FilesApart
      <4> QED
        <5>1. Cardinality({}) = 0 /\ \A e : Cardinality({e}) = 1
          BY FS_EmptySet, FS_Singleton
        <5>2. Cardinality(Owners(name)) + Cardinality(Handed(name)) \in {0 + 1, 1 + 0}
          BY <4>2, <4>3, <5>1
        <5> QED
          BY <5>2
    <3> QED
      BY <3>3, <3>4, <3>5
  <2> QED
    BY <2>1, <2>2 DEF FilesAreHandedOver
<1> QED
  BY InvHolds, <1>1, PTL

(* The result code for FaxRcvdCmd tells how far the fax came, and the FIFO *)
(* carries the session's letters in their order, a P for each page, never  *)
(* without a file.                                                         *)
THEOREM HylaFAXHearsTheTruth == Spec => []HylaFAXIsTold
<1>1. Inv => ResultCodeTrueElse
  BY DEF Inv, Reported, ResultCodeTrueElse, ResultCodeTrue, TypeOK, Receiver, Fax, Formats, Tiff
<1>2. Inv => FifoTellsSession
  BY DEF Inv, CallsOK, CallOK, TellsSession, FifoTellsSession, Told, Ready, Is
<1> QED
  BY InvHolds, <1>1, <1>2, PTL DEF HylaFAXIsTold

(* Sessions of different receivers have log files of different numbers,    *)
(* also when the sequence number wraps.                                    *)
THEOREM OneJobFileEach == Spec => []JobFilesDistinct
<1>1. Inv => JobFilesDistinct
  BY DEF Inv
<1> QED
  BY InvHolds, <1>1, PTL

=============================================================================
