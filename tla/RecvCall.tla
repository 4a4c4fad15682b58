------------------------------ MODULE RecvCall ------------------------------
(***************************************************************************)
(* c2faxrecv: the receivers of one device at work, CFaxReceive             *)
(* (src/faxrecv/faxrecv.cpp) with its conversion (module FaxFiles).  The   *)
(* callbacks of a receiver run on its own CAPI thread, in the order that   *)
(* module CallLife states; the receivers share the spool directory and the *)
(* status file of their device, and HylaFAX is told over its FIFO.         *)
(***************************************************************************)
EXTENDS FaxFiles, FiniteSets

CONSTANTS
  Receivers,    \* the receivers of the device, MaxConcurrentRecvs of them
  FirstDisk,    \* the spool directory at the start: sequence number and files
  Documents,    \* pages of the faxes that are sent to us
  MaxIncoming   \* bound on the calls

ASSUME RecvCallAssumption ==
  /\ FirstDisk \in [seq : Nat, names : SUBSET (Nat \X Nat)]
  /\ Documents \subseteq Nat \ {0} /\ MaxIncoming \in Nat

VARIABLES
  rx,       \* per receiver: fx and the rest of CFaxReceive, and its call
  disk,     \* the spool directory
  log,      \* HylaFAX's log directory, with a file per session
  status,   \* the device's status file
  handed,   \* history: calls of FaxRcvdCmd
  calls     \* calls that have come in

vars == <<rx, disk, log, status, handed, calls>>

(* hang: Disconnect or ResetChannel was called; doc, got: pages of the fax *)
(* and what has come of it; fifo: what HylaFAX was told in this session.   *)
NewReceiver(format) ==
  [fx |-> NewFax(format), call |-> "idle", jobNr |-> 0, quit |-> FALSE,
   hang |-> FALSE, doc |-> 1, got |-> 0, fifo |-> <<>>]

Init ==
  \E format \in Formats :
    /\ rx = [r \in Receivers |-> NewReceiver(format)]
    /\ disk = FirstDisk
    /\ log = [seq |-> 0, names |-> {}]
    /\ status = "Running and idle"
    /\ handed = {}
    /\ calls = 0

Is(r, phases) == rx[r].call \in phases

(* GetRecvFiles()->GetFirst() is what S and P tell of; without it NotifyFIFO *)
(* asserts.                                                                *)
NotifyFIFO(x, letters) ==
  IF x.fx.format # "hylafax" THEN x
  ELSE [x EXCEPT !.fifo = @ \o [i \in DOMAIN letters |->
          IF letters[i] \in {"S", "P"} /\ x.fx.names = <<>>
          THEN "assert" ELSE letters[i]]]

(* Bug: the number is not written back and the file not created exclusively.*)
GetJobFileShared(l) == [nr |-> (l.seq % MaxSeq) + 1, log |-> l]

(* GetJobFile: a number that nobody uses, 0 if there is none.              *)
GetJobFile(l) ==
  LET k == FreeNumber(l)
  IN  [nr |-> k, log |-> IF k = 0 THEN l ELSE [Created(l, <<k, 1>>) EXCEPT !.seq = k]]

(* IncomingCall: the call is accepted even without a job file.             *)
IncomingCall(r) ==
  /\ Is(r, {"idle"}) /\ ~rx[r].quit /\ calls < MaxIncoming
  /\ calls' = calls + 1
  /\ LET j == IF rx[r].fx.format = "hylafax" THEN GetJobFile(log)
              ELSE [nr |-> 0, log |-> log] IN
     \E doc \in Documents :
       /\ rx' = [rx EXCEPT ![r] = [@ EXCEPT !.call = "setup", !.jobNr = j.nr,
                   !.doc = doc, !.got = 0, !.hang = FALSE, !.fifo = <<>>]]
       /\ log' = j.log
  /\ status' = "Answering the phone"
  /\ UNCHANGED <<disk, handed>>

(* IsConnected: a kind of fax it cannot handle, or a file it cannot create.*)
IsConnected(r) ==
  /\ Is(r, {"setup"}) /\ ~rx[r].hang
  /\ \E able, opens, kind \in BOOLEAN :
       LET up == [rx[r] EXCEPT !.call = "connected"]
           o == OpenRecv(rx[r].fx, disk, able, opens)
       IN  CASE ~kind -> /\ rx' = [rx EXCEPT ![r] = [up EXCEPT !.hang = TRUE]]
                         /\ UNCHANGED <<disk, status>>
             [] kind /\ o.fx.names = <<>> ->
                  /\ rx' = [rx EXCEPT ![r] = [up EXCEPT !.fx = o.fx, !.hang = TRUE]]
                  /\ disk' = o.disk
                  /\ UNCHANGED status
             [] OTHER ->
                  /\ rx' = [rx EXCEPT ![r] =
                       NotifyFIFO([up EXCEPT !.fx = o.fx], <<"I", "B", "S">>)]
                  /\ disk' = o.disk
                  /\ status' = "Receiving facsimile"
  /\ UNCHANGED <<log, handed, calls>>

(* RecvSFF calls PageEndReached for the pages of a TIFF file.              *)
PageEndReached(x, y) == Tiff(x) /\ y.pages > x.pages

(* GetData with a page header, the end of a page or the last end.          *)
GetData(r) ==
  LET x == rx[r]
      what == CASE x.got = 0 -> "head" [] x.got = x.doc -> "last" [] OTHER -> "page"
  IN  /\ Is(r, {"connected"}) /\ ~x.hang /\ x.got <= x.doc
      /\ \E able \in BOOLEAN :
           LET f == RecvSFF(x.fx, disk, what, able)
               y == [x EXCEPT !.fx = f.fx, !.got = @ + 1, !.hang = f.ret # "Okay"]
           IN  /\ rx' = [rx EXCEPT ![r] = IF PageEndReached(x.fx, f.fx) THEN NotifyFIFO(y, <<"P">>) ELSE y]
               /\ disk' = f.disk
      /\ UNCHANGED <<log, status, handed, calls>>

(* StopReceive, by the main thread: also between two blocks of data.       *)
StopReceive(r) ==
  /\ ~Is(r, {"gone"}) /\ ~rx[r].quit
  /\ rx' = [rx EXCEPT ![r].quit = TRUE, ![r].hang = TRUE, ![r].fx = StopRecv(@)]
  /\ UNCHANGED <<disk, log, status, handed, calls>>

(* The NCPI knows the pages of an SFF file, whose data is not looked at.   *)
DisconnectInquiry(r) ==
  LET pages == IF rx[r].got = 0 THEN 0 ELSE rx[r].got - 1 IN
  /\ Is(r, {"setup", "connected"})
  /\ \E ncpi \in BOOLEAN :
       rx' = [rx EXCEPT ![r].call = "closing",
                        ![r].fx.pages = IF ncpi /\ rx[r].fx.format = "sff"
                                        THEN pages ELSE @,
                        ![r].fx.finished = StopRecv(rx[r].fx).finished]
  /\ UNCHANGED <<disk, log, status, handed, calls>>

(* recvStatus of the mgetty formats; HylaFAX has a text for each.          *)
RecvStatus(recvState) == [state \in 0 .. 3 |-> <<6, 7, 12, 0>>[state + 1]][recvState]

HandOver(x) == [x EXCEPT !.fx = [CloseRecv(@) EXCEPT !.names = <<>>]]

(* IsDisconnected: the files go to FaxRcvdCmd.                             *)
IsDisconnected(r) ==
  LET x == rx[r] IN
  /\ Is(r, {"setup", "connected", "closing"})
  /\ rx' = [rx EXCEPT ![r] =
               NotifyFIFO([HandOver(x) EXCEPT !.call = "idle", !.jobNr = 0, !.got = 0],
                          <<"I", "R">>)]
  /\ handed' = IF x.fx.names = <<>> THEN handed
               ELSE handed \cup {[names |-> x.fx.names, came |-> x.got, doc |-> x.doc,
                                  status |-> RecvStatus(x.fx.recvState)]}
  /\ status' = "Running and idle"
  /\ UNCHANGED <<disk, log, calls>>

(* IsDisconnected for a call that the receiver was not told of, see module *)
(* CallLife: a session of nothing but its end.                             *)
UnseenCallEnds(r) ==
  /\ Is(r, {"idle"}) /\ calls < MaxIncoming
  /\ calls' = calls + 1
  /\ rx' = [rx EXCEPT ![r] = NotifyFIFO([HandOver(@) EXCEPT !.fifo = <<>>], <<"I", "R">>)]
  /\ status' = "Running and idle"
  /\ UNCHANGED <<disk, log, handed>>

(* IsReseted, once the channel is idle and was asked to reset.             *)
IsReseted(r) ==
  /\ Is(r, {"idle"}) /\ rx[r].quit
  /\ rx' = [rx EXCEPT ![r].call = "gone", ![r].fx = CloseRecv(@)]
  /\ UNCHANGED <<disk, log, status, handed, calls>>

Next ==
  \E r \in Receivers :
    \/ IncomingCall(r) \/ IsConnected(r) \/ GetData(r) \/ StopReceive(r)
    \/ DisconnectInquiry(r) \/ IsDisconnected(r) \/ UnseenCallEnds(r) \/ IsReseted(r)

Spec == Init /\ [][Next]_vars

-----------------------------------------------------------------------------
(* "6, 7, 12" of misc/sample_faxrcvd: no B-channel, nothing received,      *)
(* received partially; 0: all of it.                                       *)
StatusIsTrue(h) ==
  CASE h.status = 0 -> h.came = h.doc + 1
    [] h.status = 12 -> h.came <= h.doc
    [] OTHER -> h.came <= 1

(* The result code that FaxRcvdCmd gets tells what became of the fax.      *)
ResultCodeTrue == \A h \in handed : StatusIsTrue(h)

(* SFF reception stays in recvState 1 and reports 7; a G3 fax whose next   *)
(* file cannot be created counts as complete.                              *)
ResultCodeTrueElse ==
  \A r \in Receivers : rx[r].fx.format \notin {"sff", "g3"} => ResultCodeTrue

Owners(name) ==
  {r \in Receivers : \E i \in DOMAIN rx[r].fx.names : rx[r].fx.names[i] = name}
Handed(name) ==
  {h \in handed : \E i \in DOMAIN h.names : h.names[i] = name}

(* Every file that is created is either being received by one call or was  *)
(* handed over by one call: no receiver takes the file of another, none is *)
(* forgotten when a call breaks, none is handed over twice.                *)
FilesAreHandedOver ==
  /\ \A name \in disk.names \ FirstDisk.names :
       Cardinality(Owners(name)) + Cardinality(Handed(name)) = 1
  /\ \A r \in Receivers : ~Is(r, {"connected", "closing"}) =>
       rx[r].fx.names = <<>> /\ ~rx[r].fx.fd

(* What HylaFAX is told of a session: that a call is received, each of its *)
(* pages and that the modem is ready again, never a page without a file;   *)
(* and it is told of every call that has a file.                           *)
FifoTellsSession ==
  \A r \in Receivers :
    LET x == rx[r]
        told == <<"I", "B", "S">> \o [i \in 1 .. x.fx.pages |-> "P"]
        ready == IF Is(r, {"idle", "gone"}) THEN <<"I", "R">> ELSE <<>>
    IN  /\ x.fifo \in {<<>>, ready, told \o ready}
        /\ x.fx.format = "hylafax" /\ x.fx.names # <<>> => x.fifo = told

(* What HylaFAX is told of a fax is true: in the arguments of FaxRcvdCmd   *)
(* and over the FIFO.                                                      *)
HylaFAXIsTold == ResultCodeTrueElse /\ FifoTellsSession

(* No two sessions write to one job file.                                  *)
JobFilesDistinct ==
  \A q, r \in Receivers :
    q # r /\ rx[q].jobNr # 0 => rx[q].jobNr # rx[r].jobNr

(* The device says that it is idle when none of its receivers is at work.  *)
IdleStatusMeansIdle ==
  status = "Running and idle" =>
    \A r \in Receivers : ~Is(r, {"connected"}) \/ rx[r].fx.names = <<>>
=============================================================================
