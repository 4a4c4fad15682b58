------------------------------ MODULE FaxFiles ------------------------------
(***************************************************************************)
(* CBasicFaxConversion (src/convert/BasicFax.cpp): fax files into the data *)
(* blocks of a call and back.  Its methods are operators on a record with  *)
(* a field per member; CFaxSend and CFaxReceive (modules SendJob and       *)
(* RecvCall) call them.  Page data is abstract: a page is one chunk, a     *)
(* filter is the sequence of the pages in it.                              *)
(***************************************************************************)
EXTENDS Integers, SequencesExt

CONSTANTS
  BlockSize,   \* pages that fit in CAPI_BUFFER_SIZE
  MaxTry,      \* MAX_TRY_COUNT, 1000 in the code
  MaxSeq       \* MAX_SEQ_NUMBER, 9999999 in the code

ASSUME FaxFilesAssumption ==
  /\ {BlockSize, MaxTry, MaxSeq} \subseteq Nat \ {0}
  /\ MaxTry <= MaxSeq

Formats == {"hylafax", "tiff", "sff", "g3"}

Tiff(fx) == fx.format \in {"hylafax", "tiff"}

(* list, cur: the files to send and m_pCurSendFile, 0 for null; open, pos: *)
(* the file being read and the pages read of it; filter, fine: what is in  *)
(* m_sSffFilter and its default_v_res; fd: m_RecvFile or libtiff's copy of *)
(* it; names: m_RecvFileList; err: what FillSffFilter returns.             *)
NewFax(format) ==
  [format |-> format, list |-> <<>>, cur |-> 0, open |-> 0, pos |-> 0,
   filter |-> <<>>, fine |-> FALSE, finished |-> 0, pages |-> 0, vres |-> 0,
   err |-> "Okay", recvState |-> 0, fd |-> FALSE, names |-> <<>>, nr |-> 0]

(* GetNext of m_pCurSendFile.                                              *)
After(fx, i) == IF i < Len(fx.list) THEN i + 1 ELSE 0

(* The resolution in the page headers: the job's, else the file's, else    *)
(* fine.  ConnectLog counts as the job's once the call is up.              *)
FineRes(vres, file) ==
  (IF vres # 0 THEN vres ELSE IF file.yres # 0 THEN file.yres ELSE 196) >= 196

ConnectLog(fx, highres) ==
  [fx EXCEPT !.vres = IF @ # 0 THEN @ ELSE IF highres THEN 196 ELSE 98]

-----------------------------------------------------------------------------
(* Sending                                                                 *)

StopSend(fx) == [fx EXCEPT !.finished = 2]

CloseSend(fx) ==
  [StopSend(fx) EXCEPT !.open = 0, !.filter = <<>>, !.fine = FALSE]

(* A file of kind "other" opens and is no G3 fax; only TIFF files are      *)
(* looked at.                                                              *)
OpenSend(fx, files, resolution) ==
  LET file == files[1]
      res == IF fx.format = "g3" /\ resolution = 0 THEN 196 ELSE resolution
      c == [CloseSend(fx) EXCEPT !.list = files, !.cur = 1, !.vres = res,
                                 !.finished = 0, !.pages = 0]
      opened == [c EXCEPT !.open = 1, !.pos = 0]
  IN  CASE file.kind = "missing" -> [fx |-> c, ret |-> "NotExist"]
        [] file.kind = "other" /\ Tiff(fx) ->
             [fx |-> opened, ret |-> "OpenFailed"]
        [] OTHER ->
             [fx |-> [opened EXCEPT !.cur = After(opened, 1),
                                    !.fine = FineRes(res, file)],
              ret |-> "Okay"]

AtEnd(fx) == fx.pos = fx.list[fx.open].pages

(* read returns -1: a directory, or a disk that fails.  No error comes of  *)
(* it and no end of the file, so that the same read is made again.         *)
ReadFails(fx) == ~Tiff(fx) /\ fx.list[fx.open].breaks /\ AtEnd(fx)

Chunk(fx) == <<fx.open, fx.pos + 1, fx.fine>>

(* The last page header: PutPageHeader (vTrue).                            *)
FinalHeader == <<0, 0, FALSE>>

Finish(fx, err) ==
  [fx EXCEPT !.filter = Append(@, FinalHeader), !.finished = @ + 1,
             !.err = err]

(* Bug: goes on with the file it has just sent.                            *)
NextFileAgain(fx) ==
  IF fx.cur = 0 THEN Finish([fx EXCEPT !.open = 0], "Okay")
  ELSE [fx EXCEPT !.pos = 0, !.cur = After(fx, @)]

(* After the last page of a file.  With G3 files m_pCurSendFile has been   *)
(* advanced when the next file was opened and is advanced again; the null  *)
(* pointer ends the program.                                               *)
NextFile(fx) ==
  LET c == fx.cur
      file == fx.list[c]
      f == [fx EXCEPT !.open = 0]
      onward == [f EXCEPT !.cur = After(fx, c)]
      open == [onward EXCEPT !.open = c, !.pos = 0]
  IN  IF c = 0 THEN Finish(f, "Okay")
      ELSE CASE file.kind = "missing" -> Finish(onward, "NotExist")
             [] file.kind = "other" /\ Tiff(fx) -> Finish(onward, "OpenFailed")
             [] OTHER ->
                  IF Tiff(fx) THEN [open EXCEPT !.fine = FineRes(fx.vres, file)]
                  ELSE IF open.cur = 0 THEN [open EXCEPT !.err = "Crash"]
                  ELSE [open EXCEPT !.cur = After(fx, open.cur)]

NeedsFill(fx) == fx.finished = 0 /\ Len(fx.filter) < BlockSize

(* One turn of the loop of FillSffFilter.  The end of a G3 file is a turn  *)
(* of its own, and only there a page is counted.                           *)
FillSffFilter(fx) ==
  LET read == [fx EXCEPT !.filter = Append(@, Chunk(fx)), !.pos = @ + 1]
      counted == [read EXCEPT !.pages = @ + 1]
  IN  IF Tiff(fx) THEN IF AtEnd(counted) THEN NextFile(counted) ELSE counted
      ELSE IF ReadFails(fx) THEN fx
      ELSE IF AtEnd(fx) THEN NextFile([fx EXCEPT !.pages = @ + 1])
      ELSE read

(* The rest of SendSFF, with the filter filled: what goes into the buffer  *)
(* and the new state.                                                      *)
Out(fx) == SubSeq(fx.filter, 1, IF Len(fx.filter) < BlockSize
                                THEN Len(fx.filter) ELSE BlockSize)

SendSFF(fx) ==
  LET rest == SubSeq(fx.filter, Len(Out(fx)) + 1, Len(fx.filter))
  IN  [fx EXCEPT !.filter = rest, !.err = "Okay",
                 !.finished = IF @ = 1 /\ rest = <<>> THEN 2 ELSE @]

(* SFF files are sent as they are: a read is a block, an empty one the end.*)
ReadSFF(fx) ==
  IF ReadFails(fx) THEN [fx |-> fx, out |-> <<>>]
  ELSE IF AtEnd(fx) THEN [fx |-> [fx EXCEPT !.finished = 2], out |-> <<>>]
  ELSE [fx |-> [fx EXCEPT !.pos = @ + 1], out |-> <<Chunk(fx)>>]

-----------------------------------------------------------------------------
(* Receiving.  disk.seq is the number in the seqf file, disk.names the     *)
(* files there are; able: the file system and libtiff let us create one.   *)

(* The numbers that are tried, in order; MaxSeq is followed by 1.          *)
Tries(seq) == [i \in 1 .. MaxTry |-> ((seq + i - 1) % MaxSeq) + 1]

(* The first of them whose file does not exist, 0 if there is none.        *)
FreeNumber(disk) ==
  LET number == Tries(disk.seq)
      free == {i \in DOMAIN number : <<number[i], 1>> \notin disk.names}
  IN  IF free = {} THEN 0 ELSE number[CHOOSE i \in free : \A j \in free : i <= j]

Created(disk, name) == [disk EXCEPT !.names = @ \cup {name}]

GetRecvFile(fx, disk, able) ==
  LET n == FreeNumber(disk)
      f == [fx EXCEPT !.names = <<>>, !.fd = FALSE]
  IN  IF ~able \/ n = 0 THEN [fx |-> f, disk |-> disk]
      ELSE [fx |-> [f EXCEPT !.names = <<<<n, 1>>>>, !.nr = n, !.fd = TRUE],
            disk |-> [Created(disk, <<n, 1>>) EXCEPT !.seq = n]]

(* Bug: the state of the last call is kept.                                *)
OpenRecvKeepsState(fx, disk, able, opens) ==
  LET f == [fx EXCEPT !.finished = 0, !.pages = 0,
                      !.recvState = IF @ = 0 THEN 1 ELSE @]
  IN  GetRecvFile(f, disk, able)

(* libtiff may refuse the new file (opens = FALSE): it is removed again.   *)
OpenRecv(fx, disk, able, opens) ==
  LET f == [fx EXCEPT !.recvState = IF fx.format = "g3" THEN 2 ELSE 1,
                      !.finished = 0, !.pages = 0]
      r == GetRecvFile(f, disk, able)
  IN  IF r.fx.fd /\ Tiff(fx) /\ ~opens
      THEN [fx |-> [r.fx EXCEPT !.fd = FALSE, !.names = <<>>],
            disk |-> [r.disk EXCEPT !.names = disk.names]]
      ELSE r

StopRecv(fx) == [fx EXCEPT !.finished = 2]

CloseRecv(fx) == [StopRecv(fx) EXCEPT !.fd = FALSE]

(* Bug: the file of the next page is not put into the list.                *)
GetNextRecvFileUnlisted(fx, disk, able) ==
  IF ~able THEN [fx |-> [fx EXCEPT !.fd = FALSE], disk |-> disk]
  ELSE [fx |-> [fx EXCEPT !.fd = TRUE],
        disk |-> Created(disk, <<fx.nr, fx.pages + 1>>)]

(* One file per page of a G3 fax; a number that is taken is passed over.   *)
GetNextRecvFile(fx, disk, able) ==
  LET free == {k \in fx.pages + 1 .. fx.pages + MaxTry - 1 :
                 <<fx.nr, k>> \notin disk.names}
      name == <<fx.nr, CHOOSE k \in free : \A j \in free : k <= j>>
  IN  IF ~able \/ free = {} THEN [fx |-> [fx EXCEPT !.fd = FALSE], disk |-> disk]
      ELSE [fx |-> [fx EXCEPT !.fd = TRUE, !.names = Append(@, name)],
            disk |-> Created(disk, name)]

(* The end of a page that another one follows.  With G3 that one must have *)
(* its file, else the fax counts as finished.                              *)
PageEnd(fx, disk, able) ==
  LET page == [fx EXCEPT !.pages = @ + 1]
      next == GetNextRecvFile(page, disk, able)
  IN  IF fx.format # "g3" THEN [fx |-> page, disk |-> disk, ret |-> "Okay"]
      ELSE IF next.fx.fd THEN [fx |-> next.fx, disk |-> next.disk, ret |-> "Okay"]
      ELSE [fx |-> [next.fx EXCEPT !.recvState = 3], disk |-> disk, ret |-> "CreateFailed"]

(* RecvSFF for data that brings "head", the first page header, "page", the *)
(* end of a page, or "last", the end of the last one.                      *)
RecvSFF(fx, disk, what, able) ==
  LET last == [fx EXCEPT !.pages = @ + 1, !.recvState = 3,
                         !.fd = @ /\ fx.format # "g3"]
  IN  IF fx.finished = 2 \/ fx.format = "sff" \/ fx.recvState \in {0, 3}
      THEN [fx |-> fx, disk |-> disk, ret |-> "Okay"]
      ELSE CASE what = "head" ->
                  [fx |-> [fx EXCEPT !.recvState = 2], disk |-> disk, ret |-> "Okay"]
             [] what = "last" -> [fx |-> last, disk |-> disk, ret |-> "Okay"]
             [] what = "page" -> PageEnd(fx, disk, able)
=============================================================================
