------------------------------ MODULE SffToHuf ------------------------------
(***************************************************************************)
(* Received data on its way into the fax file: the blocks of CAPI, the     *)
(* loops of CBasicFaxConversion::RecvSFF (src/convert/BasicFax.cpp) and    *)
(* CSFilter_Sff2Huf (src/convert/sff2huf.cpp), which takes SFF apart byte  *)
(* by byte into a ring buffer and gives out Huffman coded pages.  What the *)
(* bytes of a line are does not matter here, how many they are does.       *)
(***************************************************************************)
EXTENDS Integers, SequencesExt

CONSTANTS
  MaxLen,        \* MAX_SFF_HUF_BUFFER_LEN, 16384
  ShortLine,     \* longest line with its length in one byte, 216
  EmptyLines,    \* most white lines in one byte, 253 - 216
  EmptyLine,     \* HUF_EMPTY_LINE_CHAR_SIZE, 4
  EndOfLine,     \* HUF_END_OF_LINE_CHAR_SIZE, 2
  EndOfPage,     \* HUF_END_OF_PAGE_CHAR_SIZE, 8
  Margin,        \* the safety margin of HUFF_SFF_ADD_TO_PUT_IN, 40
  IdSize, DocSize,   \* sizes of the headers, 4 and 16
  PageSize,      \* least length in a page header, SFF_PAGE_HEADER_SIZE - 2, 16
  BufferLen,     \* tmpbuf of RecvSFF, 1000
  LongLines,     \* lengths in two bytes in the documents, 0 where it occurs
  Specials,      \* lengths of their special records
  Blocks,        \* bytes of a block, at most 2048 in the code
  MaxPages,      \* bound: pages of a document
  MaxRecords     \* bound: records in a page

AddToPutIn == EmptyLines * (EmptyLine + 3) + Margin

LineSpace(len) == 3 + len + EndOfLine

ASSUME SffToHufAssumption ==
  /\ {MaxLen, ShortLine, EmptyLines, EmptyLine, EndOfLine, EndOfPage, Margin, IdSize,
      DocSize, PageSize, BufferLen, MaxPages, MaxRecords} \subseteq Nat \ {0}
  /\ LongLines \subseteq Nat /\ Specials \subseteq Nat /\ Blocks \subseteq Nat \ {0}
  /\ EndOfLine <= EndOfPage /\ EndOfPage <= Margin /\ 2 <= Margin
  /\ PageSize > 1

(* The rest of the ring is for a record that is not complete yet: no line  *)
(* of a document is longer, or RecvSFF would never come to its end.        *)
ASSUME SffLinesFit ==
  \A len \in LongLines \cup 1 .. ShortLine : LineSpace(len) + AddToPutIn <= MaxLen

Bytes == 0 .. ShortLine + EmptyLines + 2
PageByte == ShortLine + EmptyLines + 1      \* 254
SpecialByte == PageByte + 1                 \* 255

VARIABLES
  rx,      \* RXSFF
  recv,    \* RecvSFF: where it is, the rest of the block, room in tmpbuf, m_recvState
  fax,     \* the document: bytes of lines of its pages, its records, how it goes on
  got      \* what was written, and of it the pages that are at their end

sffVars == <<rx, recv, fax, got>>

(* records: the complete ones in the ring, each with its bytes up to the   *)
(* data and its data for the file; CountDataHeaders of them are known to   *)
(* GetToPageEnd; deq: of what kind the data is that DeqLineLen counts.     *)
rxSFFInit ==
  [Status |-> "Start", count |-> 0, offset |-> 0, OffsetFirstPage |-> 0,
   OffsetPageHeader |-> 0, LineLen |-> 0, records |-> <<>>,
   CountDataHeaders |-> 0, DeqLineLen |-> 0, deq |-> "line", VirtCount |-> 0, info |-> "Normal", PageNumber |-> 0]

NoPage == [lines |-> 0, ends |-> 0]

SffInit ==
  /\ rx = rxSFFInit
  /\ \E g3 \in BOOLEAN :
       recv = [at |-> "idle", len |-> 0, maxLen |-> 0, g3 |-> g3,
               state |-> IF g3 THEN 2 ELSE 1]
  /\ fax = [pages |-> <<>>, records |-> 0, hollow |-> FALSE, spoiled |-> FALSE,
            over |-> FALSE]
  /\ got = [pages |-> <<>>, cur |-> NoPage]

-----------------------------------------------------------------------------
(* PutChar, a byte ch; len is the number that the byte completes, where    *)
(* one of two bytes is read, and ok tells the identification of a fax.     *)

PutQueueData(r, n) == [r EXCEPT !.count = @ + n]

(* GetQueueData and IgnoreQueueData.                                       *)
Taken(r, n) ==
  [r EXCEPT !.count = @ - n, !.offset = IF @ = 0 THEN 0 ELSE @ - n]

Uncounted(r, kind, pre, len) ==
  [r EXCEPT !.records = Append(@, [kind |-> kind, pre |-> pre, len |-> len]),
            !.Status = "RecvDataHeader"]

Complete(r, kind, pre, len) ==
  [Uncounted(r, kind, pre, len) EXCEPT !.CountDataHeaders = @ + 1]

Full(r) == r.count > MaxLen - AddToPutIn

Start(r, ok) ==
  IF r.count < IdSize THEN r
  ELSE IF ok THEN [Taken(r, IdSize) EXCEPT !.Status = "RecvDocHeader"]
  ELSE rxSFFInit

RecvDocHeader(r, len) ==
  IF r.count < DocSize THEN r
  ELSE [Taken(r, DocSize) EXCEPT !.OffsetFirstPage = len, !.Status = "GetDocHeader"]

GetDocHeader(r, ch) ==
  LET i == Taken(r, r.OffsetFirstPage) IN
  IF r.count <= r.OffsetFirstPage THEN r
  ELSE IF ch # PageByte THEN [rxSFFInit EXCEPT !.offset = 0]
  ELSE [i EXCEPT !.offset = i.count, !.Status = "RecvPageHeaderLen"]

(* The end of the document and of each page but the first puts the codes   *)
(* for the end of a page.                                                  *)
PageEnds(r, kind, pre) ==
  LET q == Complete(PutQueueData(r, EndOfPage), kind, pre, EndOfPage)
  IN  [q EXCEPT !.VirtCount = @ + EndOfPage]

RecvPageHeaderLen(r, ch) ==
  CASE ch = 0 -> [PageEnds(r, "last", 2) EXCEPT !.Status = "End"]
    [] ch \in 1 .. PageSize - 1 -> rxSFFInit
    [] OTHER -> [r EXCEPT !.OffsetPageHeader = ch + 1, !.Status = "RecvPageHeader"]

RecvPageHeader(r) ==
  IF r.count - r.offset < r.OffsetPageHeader THEN r
  ELSE IF r.PageNumber = 0
       THEN [Taken([r EXCEPT !.offset = 0], r.OffsetPageHeader + 1)
             EXCEPT !.PageNumber = 1, !.Status = "RecvDataHeader"]
       ELSE PageEnds(r, "page", r.OffsetPageHeader + 1)

RecvSpecialLen(r, ch) ==
  IF ch = 0 THEN Complete(r, "special", 2, 0)
  ELSE [r EXCEPT !.offset = r.count, !.LineLen = ch, !.Status = "GetSpecialLen"]

GetSpecialLen(r) ==
  IF r.count - r.offset < r.LineLen THEN r
  ELSE Complete(r, "special", 2 + r.LineLen, 0)

(* White lines: more bytes come out than went in.                          *)
PutsEmptyLines(r, n) ==
  LET white == [kind |-> "line", pre |-> 3, len |-> EmptyLine]
      size == n * (EmptyLine + 3) - 1
  IN  [PutQueueData(r, size) EXCEPT
        !.VirtCount = @ + size, !.CountDataHeaders = @ + n,
        !.records = @ \o [i \in 1 .. n |-> white]]

RecvDataHeader(r, ch) ==
  LET q == CASE ch = SpecialByte -> [r EXCEPT !.Status = "RecvSpecialLen"]
             [] ch = PageByte -> [r EXCEPT !.Status = "RecvPageHeaderLen"]
             [] ch = 0 -> [r EXCEPT !.Status = "RecvDataHeaderEx"]
             [] ch \in 1 .. ShortLine ->
                  [PutQueueData(r, 2) EXCEPT !.LineLen = ch, !.Status = "RecvData"]
             [] OTHER -> PutsEmptyLines(r, ch - ShortLine)
  IN  [q EXCEPT !.offset = q.count]

(* A line of length 0 stays in the ring and is not counted.                *)
RecvDataHeaderEx(r, len) ==
  IF r.count - r.offset < 2 THEN r
  ELSE IF len = 0
       THEN [Uncounted(r, "line", 3, 0) EXCEPT !.LineLen = 0, !.offset = r.count]
  ELSE [r EXCEPT !.LineLen = len, !.offset = r.count, !.Status = "RecvData"]

RecvData(r) ==
  LET q == [r EXCEPT !.VirtCount = @ + 1] IN
  IF r.count - r.offset < r.LineLen THEN q
  ELSE Complete([PutQueueData(q, EndOfLine) EXCEPT !.VirtCount = @ + EndOfLine],
                "line", 3, r.LineLen + EndOfLine)

PutChar(r, ch, len, ok) ==
  LET q == PutQueueData(r, 1) IN
  CASE r.Status = "Start" -> Start(q, ok)
    [] r.Status = "RecvDocHeader" -> RecvDocHeader(q, len)
    [] r.Status = "GetDocHeader" -> GetDocHeader(q, ch)
    [] r.Status = "RecvPageHeaderLen" -> RecvPageHeaderLen(q, ch)
    [] r.Status = "RecvPageHeader" -> RecvPageHeader(q)
    [] r.Status = "RecvSpecialLen" -> RecvSpecialLen(q, ch)
    [] r.Status = "GetSpecialLen" -> GetSpecialLen(q)
    [] r.Status = "RecvDataHeader" -> RecvDataHeader(q, ch)
    [] r.Status = "RecvDataHeaderEx" -> RecvDataHeaderEx(q, len)
    [] r.Status = "RecvData" -> RecvData(q)

-----------------------------------------------------------------------------
(* The bytes of a document, as far as it has come.                         *)

MoreRecords == fax.records < MaxRecords

Heads ==
  {PageByte} \cup
  IF MoreRecords
  THEN {SpecialByte} \cup 1 .. ShortLine + EmptyLines \cup
       (IF LongLines = {} THEN {} ELSE {0})
  ELSE {}

NextBytes ==
  CASE rx.Status = "GetDocHeader" -> {0, PageByte}
    [] rx.Status = "RecvPageHeaderLen" ->
         {1} \cup (IF Len(fax.pages) < MaxPages THEN {PageSize} ELSE {})
         \cup (IF rx.PageNumber > 0 THEN {0} ELSE {})
    [] rx.Status = "RecvDataHeader" -> Heads
    [] rx.Status = "RecvSpecialLen" -> Specials
    [] OTHER -> {0}

Lengths ==
  CASE rx.Status = "RecvDocHeader" -> {0, 1}
    [] rx.Status = "RecvDataHeaderEx" -> LongLines
    [] OTHER -> {0}

LineBytes(records) ==
  FoldSeq(LAMBDA rec, sum : sum + IF rec.kind = "line" THEN rec.len ELSE 0, 0, records)

(* The records that a byte completes, in the pages of the document.        *)
Counts(old, new) ==
  LET fresh == SubSeq(new.records, Len(old.records) + 1, Len(new.records))
      begins == \/ new.PageNumber > old.PageNumber
                \/ fresh # <<>> /\ fresh[1].kind = "page"
      last == Len(fax.pages)
  IN  fax' =
        [pages |-> IF begins THEN Append(fax.pages, 0)
                   ELSE IF last = 0 THEN <<>>
                   ELSE [fax.pages EXCEPT ![last] = @ + LineBytes(fresh)],
         records |-> IF begins THEN 0
                     ELSE IF old.Status = "RecvDataHeader" THEN fax.records + 1
                     ELSE fax.records,
         hollow |-> \/ fax.hollow
                    \/ old.Status = "RecvDataHeaderEx" /\ new.Status = "RecvDataHeader",
         spoiled |-> fax.spoiled \/ new = rxSFFInit,
         over |-> new.Status = "End"]

-----------------------------------------------------------------------------
(* RecvSFF                                                                 *)

DataArrives ==
  /\ recv.at = "idle" /\ recv.state # 3 /\ ~fax.over
  /\ \E len \in Blocks : recv' = [recv EXCEPT !.at = "put", !.len = len]
  /\ UNCHANGED <<rx, fax, got>>

(* After the bytes: the first page header opens the first page in the file.*)
Drains(s, r) ==
  [s EXCEPT !.at = "get", !.state = IF @ = 1 /\ r.PageNumber > 0 THEN 2 ELSE @]

(* The document ends with its block.  When one is given up, for Start or   *)
(* GetDocHeader finds no fax or a page header is too short, the loop goes  *)
(* on with the bytes after it; bound: no second document is among them.    *)
PutsChar ==
  /\ recv.at = "put" /\ ~Full(rx)
  /\ \E ch \in NextBytes, len \in Lengths, ok \in BOOLEAN :
       /\ IF fax.spoiled THEN ~ok ELSE rx.Status = "Start" \/ ok
       /\ rx' = PutChar(rx, ch, len, ok)
       /\ Counts(rx, rx')
       /\ LET s == [recv EXCEPT !.len = IF fax'.over THEN 0 ELSE @ - 1]
          IN  recv' = IF s.len > 0 THEN s ELSE Drains(s, rx')
  /\ UNCHANGED got

(* Bug: the byte is tried again and nothing is taken out.                  *)
QueueFullRetries ==
  /\ recv.at = "put" /\ Full(rx)
  /\ UNCHANGED sffVars

QueueFull ==
  /\ recv.at = "put" /\ Full(rx)
  /\ recv' = Drains(recv, rx)
  /\ UNCHANGED <<rx, fax, got>>

(* What RecvSFF does with n bytes and the info of GetToPageEnd.            *)
Returned(n, info, r, g) ==
  LET on == info # "LastPage" /\ (n > 0 \/ (~recv.g3 /\ info = "NewPage"))
      len == IF info = "LastPage" THEN 0 ELSE recv.len
  IN  /\ rx' = r
      /\ got' = IF info = "Normal" THEN g
                ELSE [pages |-> Append(g.pages, g.cur), cur |-> NoPage]
      /\ recv' = [recv EXCEPT
                   !.at = IF on THEN "get" ELSE IF len > 0 THEN "put" ELSE "idle",
                   !.len = len, !.maxLen = 0,
                   !.state = IF info = "LastPage" THEN 3 ELSE @]

(* G3: no file for the next page.                                          *)
NoNextFile ==
  /\ recv.at = "idle" /\ recv.g3 /\ recv.state = 2 /\ got.pages # <<>> /\ ~fax.spoiled
  /\ recv' = [recv EXCEPT !.state = 3]
  /\ fax' = [fax EXCEPT !.spoiled = TRUE]
  /\ UNCHANGED <<rx, got>>

(* Bug: tells it again.                                                    *)
CallsGetAgain ==
  /\ recv.at = "get"
  /\ IF rx.VirtCount = 0 \/ rx.info # "Normal"
     THEN Returned(0, rx.info, rx, got)
     ELSE /\ recv' = [recv EXCEPT !.at = "turn", !.maxLen = BufferLen]
          /\ UNCHANGED <<rx, got>>
  /\ UNCHANGED fax

(* GetToPageEnd tells first of a page end that it has met before.          *)
CallsGet ==
  /\ recv.at = "get"
  /\ IF rx.VirtCount = 0 \/ rx.info # "Normal"
     THEN Returned(0, rx.info, [rx EXCEPT !.info = "Normal"], got)
     ELSE /\ recv' = [recv EXCEPT !.at = "turn", !.maxLen = BufferLen]
          /\ UNCHANGED <<rx, got>>
  /\ UNCHANGED fax

Least(a, b) == IF a <= b THEN a ELSE b

Delivered(r, n) ==
  [Taken(r, n) EXCEPT !.VirtCount = @ - n, !.DeqLineLen = @ - n]

Written(g, r, n) ==
  IF r.deq = "line" THEN [g EXCEPT !.cur.lines = @ + n] ELSE [g EXCEPT !.cur.ends = @ + n]

(* The next record of the ring.                                            *)
NextRecord(r) ==
  LET rec == Head(r.records)
      q == [Taken(r, rec.pre) EXCEPT !.records = Tail(@), !.DeqLineLen = rec.len,
                                     !.CountDataHeaders = @ - 1]
  IN  CASE rec.kind = "line" -> [q EXCEPT !.deq = "line"]
        [] rec.kind = "special" -> q
        [] rec.kind = "page" ->
             [q EXCEPT !.deq = "end", !.info = "NewPage", !.PageNumber = @ + 1]
        [] rec.kind = "last" -> [q EXCEPT !.deq = "end", !.info = "LastPage"]

(* A turn of its loop: what is left of a record, then the next header.     *)
GetTurn ==
  LET n == Least(recv.maxLen, rx.DeqLineLen)
      r == Delivered(rx, n)
      g == Written(got, rx, n)
      room == recv.maxLen - n
      sent == BufferLen - room
  IN
  /\ recv.at = "turn"
  /\ IF r.DeqLineLen > 0
     THEN Returned(sent, "Normal", r, g)
     ELSE IF r.info # "Normal" THEN Returned(sent, r.info, [r EXCEPT !.info = "Normal"], g)
     ELSE IF r.CountDataHeaders = 0 THEN Returned(sent, "Normal", r, g)
     ELSE IF room = 0 THEN Returned(sent, "Normal", NextRecord(r), g)
     ELSE /\ rx' = NextRecord(r) /\ got' = g
          /\ recv' = [recv EXCEPT !.maxLen = room]
  /\ UNCHANGED fax

RecvSFF == PutsChar \/ QueueFull \/ CallsGet \/ GetTurn

SffNext == DataArrives \/ NoNextFile \/ RecvSFF

SffSpec == SffInit /\ [][SffNext]_sffVars /\ WF_sffVars(RecvSFF)

-----------------------------------------------------------------------------
RingBytes ==
  FoldSeq(LAMBDA rec, sum : sum + rec.pre + rec.len, rx.DeqLineLen, rx.records)

(* The ring holds what is complete and not yet written, and the bytes of   *)
(* the line that comes in stand where offset says: also when offset was    *)
(* taken down by the reader between two blocks.  Every record is counted,  *)
(* but for lines of length 0.                                              *)
RingInOrder ==
  /\ rx.count <= MaxLen
  /\ rx.CountDataHeaders <= Len(rx.records)
  /\ ~fax.hollow => rx.CountDataHeaders = Len(rx.records)
  /\ rx.Status \in {"RecvDataHeader", "End"} => rx.count = RingBytes
  /\ rx.Status = "RecvData" => rx.offset = RingBytes + 3 /\ rx.count - rx.offset < rx.LineLen

Cut == \E i \in DOMAIN got.pages : got.pages[i].ends # EndOfPage

(* The ring keeps its order, and                                           *)
(* a page that is reported has all its lines and none of another one, in   *)
(* their order; its codes of the end may be cut off and follow in the next *)
(* page (see the README).  When the document has come to its end so has the*)
(* file, with all pages; with two exceptions, a G3 file where the loop has *)
(* stopped at an end that was cut off, and a document with a line of       *)
(* length 0: that one is not counted, and the reader stays behind by it.   *)
FaxWholeElse ==
  /\ RingInOrder
  /\ Len(got.pages) <= Len(fax.pages)
  /\ \A i \in DOMAIN got.pages : got.pages[i].lines = fax.pages[i]
  /\ got.cur.lines > 0 => got.cur.lines <= fax.pages[Len(got.pages) + 1]
  /\ fax.over /\ ~fax.spoiled /\ recv.at = "idle" =>
       \/ recv.state = 3 /\ Len(got.pages) = Len(fax.pages)
       \/ recv.g3 /\ Cut
       \/ fax.hollow

(* As the comment "to continue the inner loop" has it for TIFF files.      *)
FaxComplete ==
  fax.over /\ ~fax.spoiled /\ recv.at = "idle" => recv.state = 3

(* The ring is full and GetToPageEnd takes nothing out of it: there is no  *)
(* data in it but special records, which it looks at only on the way to    *)
(* data, or what there is is lines of length 0, which it does not know of, *)
(* and what came after as many of these.                                   *)
Clogged ==
  /\ Full(rx)
  /\ \/ rx.VirtCount = 0
     \/ fax.hollow /\ rx.CountDataHeaders = 0 /\ rx.DeqLineLen = 0

(* RecvSFF comes to its end with every block: what the full ring refuses   *)
(* is put when something has been taken out.  The exception is a ring that *)
(* is clogged, where it goes round for ever.                               *)
RecvSFFEnds == recv.at # "idle" ~> (recv.at = "idle" \/ Clogged)
=============================================================================
