------------------------------ MODULE SendJob -------------------------------
(***************************************************************************)
(* c2faxsend: the main program (src/faxsend/sendmain.cpp), which sends one *)
(* job after the other, and CFaxSend (faxsend.cpp), whose callbacks run on *)
(* the CAPI thread.  Of the channel below only the order of the callbacks  *)
(* is kept, as module CallLife has it and Channel implements it; what the  *)
(* far side gets is kept in full.  A job of HylaFAX is a qfile, a job of   *)
(* the other formats the command line; numbers are the code's exitState.   *)
(***************************************************************************)
EXTENDS FaxFiles, FiniteSets

CONSTANTS
  Runs,       \* command lines: records of a format and a list of jobs
  Window,     \* handles of the send block
  Docs        \* fax documents that can be polled: pages, as in module RecvCall

(* breaks: no more than the pages can be read of it; not looked at in a    *)
(* TIFF file, whose reading errors are left out.                           *)
FaxFile == [kind : {"ok", "missing", "other"}, pages : Nat, yres : Nat,
            breaks : BOOLEAN]

(* A job: its fax files, whether it polls, its number ("ok", "none" or     *)
(* "plus" for a lone '+' with NumberPlusReplacer set), its resolution.     *)
FaxJob == [files : Seq(FaxFile), poll : BOOLEAN,
           number : {"ok", "none", "plus"}, res : Nat]

(* A TIFF file has a page: libtiff opens none without a directory.         *)
ASSUME SendJobAssumption ==
  /\ Window \in Nat \ {0} /\ Docs \subseteq Nat \ {0}
  /\ \A r \in Runs :
       /\ r \in [format : Formats, jobs : Seq(FaxJob)]
       /\ r.format \in {"hylafax", "tiff"} =>
            \A j \in DOMAIN r.jobs : \A f \in DOMAIN r.jobs[j].files :
              r.jobs[j].files[f].kind = "ok" => r.jobs[j].files[f].pages > 0

VARIABLES
  fx,       \* the conversion, module FaxFiles
  fs,       \* CFaxSend: exitState, PollString, m_commID, hLogFile, SendDataInUse
  pc,       \* the main thread
  jobs,     \* what the main program was started with
  n,        \* the job it is at
  qfile,    \* the qfiles of the jobs
  call,     \* the callbacks made for this call
  net,      \* the connection: unconfirmed blocks, pages that came or went
  done      \* history: per finished job its exitState and the pages that went

vars == <<fx, fs, pc, jobs, n, qfile, call, net, done>>

Job == jobs[n]

NewFaxSend ==
  [exitState |-> 0, poll |-> FALSE, commID |-> 0, log |-> TRUE,
   sending |-> FALSE, posts |-> 0]

NewQFile == [status |-> 0, returned |-> 0, dials |-> 0, tries |-> 0, npages |-> 0]

(* hang: the Disconnect that was asked for; far: chunks the far side has   *)
(* got; doc: pages of the document it has for polling, got: of these, sent;*)
(* told: CAPI has reported the end of the data connection.                 *)
Net(doc) == [queue |-> <<>>, far |-> <<>>, hang |-> "no", doc |-> doc, got |-> 0,
             told |-> FALSE]

Init ==
  \E r \in Runs :
    /\ fx = NewFax(r.format)
    /\ fs = NewFaxSend
    /\ pc = "next"
    /\ jobs = r.jobs
    /\ n = 1
    /\ qfile = [i \in DOMAIN r.jobs |-> NewQFile]
    /\ call = "idle"
    /\ net = Net(1)
    /\ done = <<>>

-----------------------------------------------------------------------------
(* The main thread                                                         *)

HylaFAX == fx.format = "hylafax"

(* Bug: the final result leaves "Sending job" in the status.               *)
WriteQFileStatusOnce(q, exitState, returned) ==
  [q EXCEPT !.returned = returned, !.status = IF @ = 255 THEN @ ELSE exitState,
            !.npages = fx.pages]

WriteQFile(q, exitState, returned) ==
  [q EXCEPT !.returned = returned, !.status = exitState, !.npages = fx.pages,
            !.dials = @ + (IF exitState = 255 THEN 0 ELSE 1),
            !.tries = @ + (IF exitState \in {0, 7, 12} THEN 1 ELSE 0)]

(* HylaExitState: retry, error, okay, reformat.                            *)
HylaExitState(exitState) ==
  CASE exitState \in {2, 4, 5, 6, 7, 10, 12} -> 0
    [] exitState = 0 -> 2
    [] exitState \in {1, 3, 11} -> 3
    [] OTHER -> 1

(* The end of Send: OpenFailed has no exitState of its own.                *)
Opened(opened) ==
  [fx |-> opened.fx,
   exitState |-> CASE opened.ret = "Okay" -> 10
                   [] opened.ret = "NotExist" -> 1
                   [] OTHER -> 0]

(* OneSendSession up to sem_wait, with Send, for a commID of GetJobFile.   *)
OneSendSession(commID) ==
  LET refused == Job.number = "none" \/ (Job.files = <<>> /\ ~Job.poll)
      send == [fs EXCEPT !.poll = Job.poll, !.commID = commID]
      r == IF Job.poll THEN [fx |-> fx, exitState |-> 10]
           ELSE Opened(OpenSend(fx, Job.files, Job.res))
  IN  CASE refused -> [fx |-> fx, fs |-> [fs EXCEPT !.exitState = 13]]
        [] ~refused /\ Job.poll /\ Job.files # <<>> ->
             [fx |-> fx, fs |-> [fs EXCEPT !.exitState = 13, !.poll = TRUE]]
        [] ~refused /\ ~(Job.poll /\ Job.files # <<>>) /\ Job.number = "plus" ->
             [fx |-> fx, fs |-> [send EXCEPT !.exitState = 0]]
        [] OTHER -> [fx |-> r.fx, fs |-> [send EXCEPT !.exitState = r.exitState]]

(* MakeCall is reached exactly when Send leaves exitState 10.              *)
StartsJob ==
  /\ pc = "next" /\ n <= Len(jobs) /\ fs.exitState \in {0, 2}
  /\ \E commID \in (IF HylaFAX THEN {0, n} ELSE {0}), doc \in Docs :
       LET s == OneSendSession(commID)
           dials == s.fs.exitState = 10 IN
       /\ fx' = s.fx
       /\ fs' = s.fs
       /\ pc' = IF dials THEN "wait" ELSE "close"
       /\ call' = IF dials THEN "setup" ELSE "idle"
       /\ net' = Net(doc)
  /\ qfile' = IF HylaFAX THEN [qfile EXCEPT ![n] = WriteQFile(@, 255, 0)] ELSE qfile
  /\ UNCHANGED <<jobs, n, done>>

Awakes ==
  /\ pc = "wait" /\ fs.posts > 0
  /\ fs' = [fs EXCEPT !.posts = @ - 1]
  /\ pc' = "close"
  /\ UNCHANGED <<fx, jobs, n, qfile, call, net, done>>

(* CloseJobFile, and in HylaFAX mode the rest of OneQFileSend.             *)
EndsJob ==
  LET returned == HylaExitState(fs.exitState) IN
  /\ pc = "close"
  /\ fs' = [fs EXCEPT !.commID = 0, !.exitState = IF HylaFAX THEN returned ELSE @]
  /\ qfile' = IF HylaFAX
              THEN [qfile EXCEPT ![n] = WriteQFile(@, fs.exitState, returned)]
              ELSE qfile
  /\ done' = Append(done, [exitState |-> fs.exitState, far |-> net.far,
                           told |-> net.told,
                           polled |-> fx.recvState = 3 /\ net.got > net.doc])
  /\ n' = n + 1
  /\ pc' = "next"
  /\ UNCHANGED <<fx, jobs, call, net>>

EndsProgram ==
  /\ pc = "next" /\ (n > Len(jobs) \/ fs.exitState \notin {0, 2})
  /\ pc' = "end"
  /\ UNCHANGED <<fx, fs, jobs, n, qfile, call, net, done>>

-----------------------------------------------------------------------------
(* The callbacks of CFaxSend, on the CAPI thread                           *)

(* A fast Disconnect loses the blocks that are still on their way.         *)
Disconnect(net_, kind) ==
  [net_ EXCEPT !.hang = IF @ = "no" \/ kind = "fast" THEN kind ELSE @]

Exit(exitState) == [fs EXCEPT !.exitState = exitState]

(* The CAPI thread is between two messages.                                *)
CapiIdle == ~fs.sending /\ pc # "crash"

(* IsConnected; the NCPI may be missing and with it what it negotiated.    *)
IsConnected ==
  /\ CapiIdle /\ call = "setup" /\ call' = "connected"
  /\ \E ncpi, highres, polls, able \in BOOLEAN :
       LET c == IF ncpi THEN ConnectLog(fx, highres) ELSE fx
           r == OpenRecv(c, [seq |-> 0, names |-> {}], able, TRUE).fx
       IN  CASE ~fs.poll ->
                  /\ fx' = c /\ fs' = [Exit(11) EXCEPT !.sending = TRUE]
                  /\ net' = net
             [] fs.poll /\ ~(ncpi /\ polls) ->
                  /\ fx' = c /\ fs' = Exit(8)
                  /\ net' = Disconnect(net, "fast")
             [] OTHER ->
                  /\ fx' = r /\ fs' = Exit(11)
                  /\ net' = IF r.fd THEN net ELSE Disconnect(net, "fast")
  /\ UNCHANGED <<pc, jobs, n, qfile, done>>

(* The loop of SendData: a turn of FillSffFilter.                          *)
SendsMore == fs.sending /\ pc # "crash" /\ fx.finished < 2 /\ Len(net.queue) < Window

FillsFilter ==
  /\ SendsMore /\ fx.format # "sff" /\ NeedsFill(fx)
  /\ fx' = FillSffFilter(fx)
  /\ pc' = IF fx'.err = "Crash" THEN "crash" ELSE pc
  /\ UNCHANGED <<fs, jobs, n, qfile, call, net, done>>

(* PutData: without a connection the block is confirmed, and lost, at once.*)
PutData(block) ==
  IF block = <<>> \/ net.hang # "no" \/ call # "connected" THEN net
  ELSE [net EXCEPT !.queue = Append(@, block)]

(* Bug: hangs up before the last block is with CAPI.                       *)
ShippedLast(block) == Disconnect(net, "normal")

Shipped(block) == Disconnect(PutData(block), "normal")

(* The rest of SendSFF and what SendData does with its result.             *)
ShipsBlock ==
  LET r == IF fx.format = "sff" THEN ReadSFF(fx)
           ELSE [fx |-> SendSFF(fx), out |-> Out(fx)]
      err == IF fx.format = "sff" THEN "Okay" ELSE fx.err
  IN  /\ SendsMore /\ (fx.format = "sff" \/ ~NeedsFill(fx))
      /\ fx' = r.fx
      /\ CASE err # "Okay" ->
                /\ fs' = IF err = "NotExist" THEN Exit(1) ELSE fs
                /\ net' = Disconnect(net, "fast")
           [] err = "Okay" /\ r.fx.finished = 2 ->
                fs' = Exit(0) /\ net' = Shipped(r.out)
           [] OTHER -> fs' = fs /\ net' = PutData(r.out)
      /\ UNCHANGED <<pc, jobs, n, qfile, call, done>>

LeavesSendData ==
  /\ fs.sending /\ pc # "crash"
  /\ (fx.finished = 2 \/ Len(net.queue) = Window)
  /\ fs' = [fs EXCEPT !.sending = FALSE]
  /\ UNCHANGED <<fx, pc, jobs, n, qfile, call, net, done>>

(* PutDataComplete for a block that has gone to the far side.              *)
PutDataComplete ==
  /\ CapiIdle /\ call = "connected" /\ net.hang # "fast" /\ net.queue # <<>>
  /\ net' = [net EXCEPT !.queue = Tail(@), !.far = @ \o Head(net.queue)]
  /\ fs' = [fs EXCEPT !.sending = TRUE]
  /\ UNCHANGED <<fx, pc, jobs, n, qfile, call, done>>

(* GetData while polling: a page header, the ends of pages, the last end.  *)
GetData ==
  /\ CapiIdle /\ call = "connected" /\ fs.poll /\ net.hang = "no"
  /\ net.got <= net.doc
  /\ \E able \in BOOLEAN :
       LET what == IF net.got = 0 THEN "head"
                   ELSE IF net.got = net.doc THEN "last" ELSE "page"
           r == RecvSFF(fx, [seq |-> 0, names |-> {}], what, able)
           more == [net EXCEPT !.got = @ + 1]
       IN  /\ fx' = r.fx
           /\ net' = IF r.ret = "Okay" THEN more ELSE Disconnect(more, "fast")
  /\ UNCHANGED <<fs, pc, jobs, n, qfile, call, done>>

(* Pages the far side has got in full, for the NCPI.                       *)
PagesSent ==
  IF fs.poll THEN fx.pages
  ELSE Cardinality({i \in DOMAIN net.far : net.far[i] # FinalHeader})

InquiryResult(exitState, reason) ==
  CASE reason # 0 -> 12
    [] reason = 0 /\ ~fs.poll /\ fx.finished < 2 -> 12
    [] reason = 0 /\ fs.poll /\ fx.recvState < 3 -> 12
    [] OTHER -> IF fs.poll THEN 0 ELSE exitState

(* DisconnectInquiry, with the pages of the NCPI or without one.  After a  *)
(* normal Disconnect CAPI reports success only when everything has gone.   *)
DisconnectInquiry ==
  /\ CapiIdle /\ call \in {"setup", "connected"} /\ call' = "closing"
  /\ \E reason \in {0, 1}, ncpi \in BOOLEAN :
       LET differs == ncpi /\ fx.pages # PagesSent
           exitState == IF /\ differs /\ fx.format # "sff" /\ fs.exitState = 0
                        THEN 12 ELSE fs.exitState
       IN  /\ reason = 0 /\ net.hang = "normal" => net.queue = <<>>
           /\ fs' = Exit(InquiryResult(exitState, reason))
           /\ fx' = [StopSend(fx) EXCEPT !.pages = IF ncpi THEN PagesSent ELSE @]
  /\ net' = [net EXCEPT !.queue = <<>>, !.told = TRUE]
  /\ UNCHANGED <<pc, jobs, n, qfile, done>>

(* Reasons IsDisconnected tells apart: 0x00/0x10, 0x11/0x20/0x30, 0x3301,  *)
(* 0x33.., busy or temporary failure in 0x34.., the rest of them.          *)
Reasons == {"info", "capi", "layer1", "layer", "busy", "other"}

DisconnectResult(exitState, reason) ==
  CASE exitState \notin {10, 11} -> exitState
    [] exitState \in {10, 11} /\ reason = "other" ->
         IF exitState = 11 THEN 12 ELSE 10
    [] OTHER -> [info |-> 2, capi |-> 3, busy |-> 4, layer1 |-> 5, layer |-> 10][reason]

(* IsDisconnected: the files of a poll go to PollRcvdCmd.  A call may end  *)
(* without a connection, and without DisconnectInquiry.                    *)
IsDisconnected ==
  /\ CapiIdle /\ call \in {"setup", "connected", "closing"}
  /\ call' = "reset"
  /\ \E reason \in Reasons : fs' = Exit(DisconnectResult(fs.exitState, reason))
  /\ fx' = [CloseRecv(CloseSend(fx)) EXCEPT !.names = IF fs.poll THEN <<>> ELSE @]
  /\ net' = [net EXCEPT !.queue = <<>>]
  /\ UNCHANGED <<pc, jobs, n, qfile, done>>

(* Bug: the main thread is not told.                                       *)
IsResetedSilent ==
  /\ CapiIdle /\ call = "reset" /\ call' = "idle"
  /\ fs' = [fs EXCEPT !.log = FALSE]
  /\ UNCHANGED <<fx, pc, jobs, n, qfile, net, done>>

IsReseted ==
  /\ CapiIdle /\ call = "reset" /\ call' = "idle"
  /\ fs' = [fs EXCEPT !.log = FALSE, !.posts = @ + 1]
  /\ UNCHANGED <<fx, pc, jobs, n, qfile, net, done>>

Next ==
  \/ StartsJob \/ Awakes \/ EndsJob \/ EndsProgram
  \/ IsConnected \/ FillsFilter \/ ShipsBlock \/ LeavesSendData
  \/ PutDataComplete \/ GetData \/ DisconnectInquiry \/ IsDisconnected
  \/ IsReseted

Spec == Init /\ [][Next]_vars

(* The main thread runs, the CAPI thread runs, and a call ends.            *)
FairSpec == Spec /\ WF_vars(Next)

-----------------------------------------------------------------------------
(* What a job's files are to become on the far side: the pages of all of   *)
(* them, of an SFF job only those of the first.                            *)
Document(job, format) ==
  UNION {{<<f, p>> : p \in 1 .. job.files[f].pages} :
           f \in {g \in DOMAIN job.files : format = "sff" => g = 1}}

(* A page goes before another one.                                         *)
Before(c, d) == c[1] < d[1] \/ (c[1] = d[1] /\ c[2] < d[2])

PagesOf(far) == {<<c[1], c[2]>> : c \in Range(far) \ {FinalHeader}}

InOrder(far) ==
  \A i, j \in DOMAIN far :
    i < j /\ FinalHeader \notin {far[i], far[j]} => Before(far[i], far[j])

Delivered(i) ==
  IF jobs[i].poll THEN done[i].polled
  ELSE /\ InOrder(done[i].far)
       /\ PagesOf(done[i].far) = Document(jobs[i], fx.format)

(* exitState is 0 before the last blocks are confirmed, and stays so when  *)
(* CAPI is lost then; Send returns with exitState 0 for a lone '+' and for *)
(* a file that is no fax; one that cannot be opened later ends the fax;    *)
(* every other G3 file is left out; a poll that is refused after one that  *)
(* succeeded finds the recvState of that one; so does a G3 poll whose next *)
(* file cannot be created.                                                 *)
KnownFalseOkay(i) ==
  \/ ~done[i].told
  \/ \E f \in DOMAIN jobs[i].files : jobs[i].files[f].kind # "ok"
  \/ fx.format = "g3" /\ Len(jobs[i].files) > 2
  \/ jobs[i].poll /\ (i > 1 \/ fx.format = "g3")

(* "Okay" for a job means that the far side has every page of it.          *)
OkayMeansDelivered ==
  \A i \in DOMAIN done : done[i].exitState = 0 => Delivered(i)

(* The same but for the cases above.                                       *)
OkayMeansDeliveredElse ==
  \A i \in DOMAIN done :
    done[i].exitState = 0 => Delivered(i) \/ KnownFalseOkay(i)

(* No page of a job goes twice or ahead of an earlier one, across blocks,  *)
(* files and the half-filled filter at the end of a file.                  *)
PagesInOrder == InOrder(net.far)

(* A qfile that the main thread is done with tells the result of its job   *)
(* and no longer "Sending job"; an okay tells the pages of the fax.        *)
QFileTellsResult ==
  HylaFAX => \A i \in DOMAIN done :
    /\ qfile[i].status = done[i].exitState
    /\ qfile[i].returned = HylaExitState(done[i].exitState)
    /\ qfile[i].dials = 1
    /\ done[i].exitState = 0 /\ ~KnownFalseOkay(i) /\ ~jobs[i].poll =>
         qfile[i].npages = Cardinality(Document(jobs[i], "hylafax"))

(* When the main thread has been told of the end of a call nothing of it   *)
(* is left: no open file, no block, no page in the filter, no second post. *)
CleanBetweenCalls ==
  call = "idle" /\ (pc = "wait" \/ (pc = "close" /\ net.hang # "no")) =>
    /\ net.queue = <<>> /\ ~fs.sending
    /\ fx.open = 0 /\ ~fx.fd /\ fx.filter = <<>> /\ (fs.poll => fx.names = <<>>)
    /\ fs.posts = (IF pc = "wait" THEN 1 ELSE 0)

(* A fax goes out page by page and leaves nothing to the next one.         *)
FaxesApart == PagesInOrder /\ CleanBetweenCalls

(* The CAPI thread reads a file that breaks off, again and again.          *)
ReadsForEver ==
  fs.sending /\ fx.finished = 0 /\ Len(net.queue) < Window
  /\ fx.open # 0 /\ ReadFails(fx)

(* The program comes to an end, by its own return or the crash with two    *)
(* G3 files, and not with a call still up.  The one exception is an SFF or *)
(* G3 file of which a read fails: SendData (SFF) or FillSffFilter (G3)     *)
(* tries it for ever and the call never ends.                              *)
ProgramEnds ==
  <>(pc = "crash" \/ (pc = "end" /\ call = "idle")) \/ <>[]ReadsForEver
=============================================================================
