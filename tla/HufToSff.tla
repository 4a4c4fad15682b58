------------------------------ MODULE HufToSff ------------------------------
(***************************************************************************)
(* A TIFF file on its way to CAPI: CSFilter_fTif2Huf reads its strips      *)
(* (src/convert/ftif2huf.cpp), CSFilter_Huf2Sff looks for the ends of the  *)
(* lines, and puts lines and page headers into a ring (huf2sff.cpp), and   *)
(* SendSFF takes blocks out of it (BasicFax.cpp).  The codes of a line are *)
(* bytes <<page, number>>, an end of line is one code Eol.                 *)
(***************************************************************************)
EXTENDS Integers, SequencesExt, FiniteSetsExt

CONSTANTS
  QueueSize,     \* QUEUESIZE, 4096
  CapiBuffer,    \* CAPI_BUFFER_SIZE, 2048
  FilterBuffer,  \* FAX_FILTER_BUFFER_SIZE, 1000
  MaxShort,     \* longest line with its length in one byte, 216
  HeaderSize,    \* sizeof (SFF_PAGE), 16
  Files          \* bound: TIFF files, sequences of pages, these of strips

Eol == <<0, 0>>
Junk == <<0, 1>>       \* what is in stripBuf when a strip cannot be read
LenByte == <<0, 2>>
HeaderStart == <<0, 3>>   \* the first byte of a page header, 254
HeaderByte == <<0, 4>>
LastByte == <<0, 5>>   \* 254 of the header with length 0

ASSUME HufToSffAssumption ==
  /\ {QueueSize, CapiBuffer, FilterBuffer, MaxShort, HeaderSize} \subseteq Nat \ {0}
  /\ CapiBuffer < QueueSize

VARIABLES
  file,    \* the pages, each a sequence of strips [ok, data]
  tif,     \* the TIFF filter: page, curStrip, stripBuf and how much of it is used
  huf,     \* TXHUF: lineValid, AuxBuff, the ring, whether a byte did not fit
  send,    \* SendSFF and FillSffFilter: where they are, buffer, info, m_finishedFaxFile
  sent     \* the bytes that went to CAPI

hufVars == <<file, tif, huf, send, sent>>

-----------------------------------------------------------------------------
(* CSFilter_fTif2Huf                                                       *)

LastDirectory(f, t) == t.page = Len(f)

(* The strips of the page that are looked at from here: up to the first    *)
(* that can be read, or all of them.                                       *)
Tried(f, t) ==
  LET strips == f[t.page]
      good == {k \in DOMAIN strips : k > t.curStrip /\ strips[k].ok}
  IN  t.curStrip + 1 .. IF good = {} THEN Len(strips) ELSE Min(good)

SetPageInfo(t) == [t EXCEPT !.page = @ + 1, !.curStrip = 0]

(* The next strip, or the end of the page.  The length of a strip that     *)
(* could not be read stays in stripBufLen at the end of a page.            *)
NextStrip(f, t) ==
  LET tried == Tried(f, t)
      k == Max(tried)
      strip == f[t.page][k]
      left == IF tried = {} THEN <<>> ELSE [i \in DOMAIN strip.data |-> Junk]
  IN  IF tried # {} /\ strip.ok
      THEN [t EXCEPT !.curStrip = k, !.buf = strip.data, !.info = "Pending"]
      ELSE IF LastDirectory(f, t)
      THEN [t EXCEPT !.curStrip = Len(f[t.page]), !.buf = left, !.info = "LastPageEnd"]
      ELSE [SetPageInfo(t) EXCEPT !.buf = left, !.info = "PageEnd"]

(* Open reads the first strip, through GetStrip with no room for it.       *)
OpenTif(f) ==
  NextStrip(f, [page |-> 1, curStrip |-> 0, buf |-> <<>>, info |-> "Pending"])

-----------------------------------------------------------------------------
(* CSFilter_Huf2Sff                                                        *)

Free(h) == QueueSize - 1 - Len(h.queue)

(* HUFenq and HUFenq1: what does not fit is left away.                     *)
HUFenq(h, bytes) ==
  LET n == IF Len(bytes) <= Free(h) THEN Len(bytes) ELSE Free(h)
  IN  [h EXCEPT !.queue = @ \o SubSeq(bytes, 1, n), !.lost = @ \/ n < Len(bytes)]

PutPageHeader(h, lastPage) ==
  IF lastPage THEN HUFenq(h, <<LastByte, LenByte>>)
  ELSE HUFenq(h, <<HeaderStart, LenByte>> \o [i \in 1 .. HeaderSize |-> HeaderByte])

(* At the end of a line it goes out with its length before it.             *)
PutsLine(h) ==
  LET size == Len(h.aux) IN
  HUFenq(h, [i \in 1 .. (IF size > MaxShort THEN 3 ELSE 1) |-> LenByte] \o h.aux)

(* HUFtstBit on the bits of a code: before the first end of line nothing   *)
(* counts, and that one puts the header of the first page.                 *)
PutHuf(h, ch) ==
  CASE ch # Eol -> IF h.lineValid THEN [h EXCEPT !.aux = Append(@, ch)] ELSE h
    [] h.lineValid ->
         [PutsLine([h EXCEPT !.aux = Append(@, ch)]) EXCEPT !.aux = <<>>]
    [] OTHER -> PutPageHeader([h EXCEPT !.lineValid = TRUE, !.aux = <<>>], FALSE)

OpenHuf ==
  HUFenq([lineValid |-> FALSE, aux |-> <<>>, queue |-> <<>>, lost |-> FALSE],
         <<HeaderByte>>)

CurSize(h) == Len(h.queue)

-----------------------------------------------------------------------------
(* FillSffFilter and SendSFF                                               *)

HufInit ==
  /\ file \in Files
  /\ tif = OpenTif(file)
  /\ huf = OpenHuf
  /\ send = [at |-> "idle", buffer |-> <<>>, finished |-> 0]
  /\ sent = <<>>

SendSFF ==
  /\ send.at = "idle" /\ send.finished < 2
  /\ send' = [send EXCEPT !.at = "fill"]
  /\ UNCHANGED <<file, tif, huf, sent>>

(* FillSffFilter has done enough, or goes on with GetToPageEnd.            *)
Fills ==
  /\ send.at = "fill" /\ send.finished = 0 /\ CurSize(huf) < CapiBuffer
  /\ send' = [send EXCEPT !.at = "tif", !.buffer = <<>>]
  /\ tif' = [tif EXCEPT !.info = "Pending"]
  /\ UNCHANGED <<file, huf, sent>>

(* A turn of GetToPageEnd.  When the buffer is full the page end that was  *)
(* found before is forgotten.                                              *)
GetToPageEnd ==
  /\ send.at = "tif"
  /\ LET t == IF tif.buf = <<>> THEN NextStrip(file, tif) ELSE tif
         room == FilterBuffer - Len(send.buffer)
         n == IF Len(t.buf) <= room THEN Len(t.buf) ELSE room
         info == IF n < Len(t.buf) THEN "Okay" ELSE t.info
     IN  /\ tif' = [t EXCEPT !.buf = SubSeq(@, n + 1, Len(@)), !.info = info]
         /\ send' = [send EXCEPT !.buffer = @ \o SubSeq(t.buf, 1, n),
                                 !.at = IF info = "Pending" THEN "tif" ELSE "put"]
  /\ UNCHANGED <<file, huf, sent>>

(* Bug: the page header comes before the last lines of the page.           *)
PutsBufferLate ==
  /\ send.at = "put"
  /\ LET h == IF tif.info = "Okay" THEN huf ELSE PutPageHeader(huf, tif.info = "LastPageEnd")
     IN  huf' = FoldLeft(PutHuf, h, send.buffer)
  /\ send' = [send EXCEPT !.at = "fill",
                          !.finished = IF tif.info = "LastPageEnd" THEN 1 ELSE 0]
  /\ UNCHANGED <<file, tif, sent>>

PutsBuffer ==
  /\ send.at = "put"
  /\ LET h == FoldLeft(PutHuf, huf, send.buffer)
     IN  huf' = IF tif.info = "Okay" THEN h ELSE PutPageHeader(h, tif.info = "LastPageEnd")
  /\ send' = [send EXCEPT !.at = "fill",
                          !.finished = IF tif.info = "LastPageEnd" THEN 1 ELSE 0]
  /\ UNCHANGED <<file, tif, sent>>

(* Bug: finished with the last block but one.                              *)
GetFinishes ==
  /\ send.at = "fill" /\ (send.finished # 0 \/ CurSize(huf) >= CapiBuffer)
  /\ LET n == IF CurSize(huf) <= CapiBuffer THEN CurSize(huf) ELSE CapiBuffer
         rest == SubSeq(huf.queue, n + 1, CurSize(huf))
     IN  /\ sent' = sent \o SubSeq(huf.queue, 1, n)
         /\ huf' = [huf EXCEPT !.queue = rest]
         /\ send' = [send EXCEPT
                      !.at = "idle",
                      !.finished = IF @ = 1 THEN 2 ELSE @]
  /\ UNCHANGED <<file, tif>>

(* Get, into the block that SendSFF was called with.                       *)
Get ==
  /\ send.at = "fill" /\ (send.finished # 0 \/ CurSize(huf) >= CapiBuffer)
  /\ LET n == IF CurSize(huf) <= CapiBuffer THEN CurSize(huf) ELSE CapiBuffer
         rest == SubSeq(huf.queue, n + 1, CurSize(huf))
     IN  /\ sent' = sent \o SubSeq(huf.queue, 1, n)
         /\ huf' = [huf EXCEPT !.queue = rest]
         /\ send' = [send EXCEPT
                      !.at = "idle",
                      !.finished = IF @ = 1 /\ rest = <<>> THEN 2 ELSE @]
  /\ UNCHANGED <<file, tif>>

HufNext == SendSFF \/ Fills \/ GetToPageEnd \/ PutsBuffer \/ Get

HufSpec == HufInit /\ [][HufNext]_hufVars

-----------------------------------------------------------------------------
(* The bytes that are on their way or sent, in order.                      *)
Out == sent \o huf.queue

IsLine(b) == b[1] > 0

HeadersBefore(k) == Cardinality({i \in 1 .. k : Out[i] = HeaderStart})

AllReadable == \A p \in DOMAIN file : \A k \in DOMAIN file[p] : file[p][k].ok

Data(p) ==
  FoldLeft(LAMBDA acc, strip : acc \o strip.data, <<>>,
           SelectSeq(file[p], LAMBDA strip : strip.ok))

(* A byte of page p with an end of line behind it in its page.             *)
Ended(b) ==
  LET d == Data(b[1]) IN \E i, j \in DOMAIN d : i < j /\ d[i] = b /\ d[j] = Eol

(* The lines come out in their order, and each behind the header of its    *)
(* page; only a last line without an end of line is sent with the next     *)
(* page.                                                                   *)
LinesInTheirPageElse ==
  /\ \A i, j \in DOMAIN Out :
       i < j /\ IsLine(Out[i]) /\ IsLine(Out[j]) =>
         \/ Out[i][1] < Out[j][1]
         \/ Out[i][1] = Out[j][1] /\ Out[i][2] < Out[j][2]
  /\ AllReadable =>
       \A i \in DOMAIN Out : IsLine(Out[i]) =>
         HeadersBefore(i) = IF Ended(Out[i]) THEN Out[i][1] ELSE Out[i][1] + 1

(* The ring never has to leave a byte away: FillSffFilter stops early      *)
(* enough for what one turn of it may add.  What was read and has an end of*)
(* line is sent when the fax is finished, and after it the header that     *)
(* closes the fax.                                                         *)
AllLinesSent ==
  /\ ~huf.lost
  /\ send.finished = 2 =>
    /\ AllReadable =>
         \A p \in DOMAIN file : \A b \in Range(Data(p)) :
           IsLine(b) /\ Ended(b) => b \in Range(sent)
    /\ Len(sent) > 1 /\ sent[Len(sent) - 1] = LastByte
=============================================================================
