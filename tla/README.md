# TLA+ models of CAPI4HylaFAX

CAPI4HylaFAX sends (`c2faxsend`) and receives (`c2faxrecv`) faxes over ISDN
cards that speak CAPI 2.0. Both programs are built on one library of channels
(`src/src/capi`). This directory holds TLA+ modules of the parts of that code
that run concurrently or keep state over many calls, the TLC configurations that
check them on small instances, and proofs that TLAPS checks for every instance.
Paths below are relative to `src/src` of the repository unless they start
with `src/`.

## 1. Inventory

| Part | State it keeps | Operations | Interacts with |
|---|---|---|---|
| `CDataHandleAdmin` (`capi/DataHand.cpp`) | array of handles, free list threaded through it, count | InitEntries, New, Free, DelNextEntry | called by the transfer channel for every data block |
| `CCAPI20_MsgBase` (`capi/CapiMsg.cpp`) | put queue, message being put, application id | REGISTER, RELEASE, AllocAndPutMsg, HandleGetMessage, HandleMessageError | CapiBase below, CCAPI20_Channel above |
| `CapiBase` (`linuxdep/CapiBase.cpp`) | per registration: thread, StopThread | Register, Release, PutMessage, the thread loop | libcapi20; calls the message base on its own thread |
| `CCAPI20_Channel` (`capi/CapiChan.cpp`) | `curState`, PLCI, NCCI, initiator, state-change timer | one handler per CAPI message, ConnectReq, DisconnectReq, DataB3Req, Register, Release | messages from the CAPI thread, requests from the application, SIGALRM timer |
| `CTransferChannel` (`capi/Channel.cpp`) | active controller, `m_Reseting`, `m_CheckListenInUse`, MSN list, DDI prefix, send block | MakeCall, AnswerCall, PutData, Disconnect, ResetChannel, CheckListen, SetMSNList and the handlers of its base | virtual callbacks into the application, which call back into the channel |
| PLCI list (`capi/PLCIList.cpp`) | claimed connections of the process | TestAndSet, Unset, its creation and deletion with the layers | all channels of the process |
| MSN list (`capi/MSNList.cpp`) | numbers and ranges per controller, a copy per receiver | FindCallInfo, TestDDINumber, AddMSN | asked by ConnectInd and InfoInd |
| Messages (`capi/CCStruct.cpp`, `CCSMesg.h`, `CCSParam.h`) | nested structures with their sizes, kept by the channel from call to call | CalcStructSize, FillBuffer, ParseBuffer | AllocAndPutMsg, GetMessage |
| `CFaxSend` (`faxsend/faxsend.cpp`), `sendmain.cpp` | exit state, SendData loop flag, semaphore, qfiles | Send, SendData, callbacks, OneSendSession, OneQFileSend, WriteQFile | one channel; main thread waits on the semaphore |
| `CFaxReceive` (`faxrecv/faxrecv.cpp`) | `quitRecv`, job file, received files | StopReceive, ListenError, callbacks; deletes itself in IsReseted | one channel, its device; other receivers through the spool directory |
| `CFaxReceiveDevice`, `CFaxReceiveMain` (`faxrecv/recvdev.cpp`, `recvmain.cpp`) | list of receivers, `Starting`, list of devices | StartReceive, StopReceive, ReceiveStoped, WaitOnFIFOs | receivers report their end to it; it deletes itself |
| `CBasicFaxConversion` (`convert/BasicFax.cpp`) | send and receive state, current file, names of received files | OpenSend, SendSFF, FillSffFilter, OpenRecv, RecvSFF, GetNextRecvFile | the filters, the files |
| Filters (`convert/sff2huf`, `huf2sff`, `ftif2huf`) | rings of records and bytes, page and line in progress | PutChar, GetToPageEnd, PutPageHeader, GetStrip | the conversion |
| Timers (`linuxdep/SecTimer.cpp`, `TimerList.cpp`, `SysTick.cpp`) | ordered list of timers | Add, Cancel, Notify | SIGALRM |
| Library (`standard`) | linked and sorted lists, dynamic strings, formatted printing, line and configuration parser | | everything |

What is hard in this code:

* **Three threads of control per channel.** The main thread (Send,
  ResetChannel), the CAPI thread (all messages, the end of a registration) and
  the SIGALRM handler (state-change timer) call the same methods. The locks
  cover single assignments, not handlers, and the handler takes the lock of
  whatever thread it interrupts.
* **Callbacks that call back.** IsDisconnected resets the channel, resetting
  disconnects, disconnecting ends the call, which checks whether to listen,
  which may register, which may fail, which reports a listen error, which
  resets. The result of a handler is the result of that whole chain.
* **Resets.** A reset is requested at any time and completed by whoever
  releases the registration. It is remembered in one bit of a word that other
  code assigns as a whole.
* **Ownership.** A data block is owned by the send loop, by the handle array or
  by nobody; a call by one of several channels; a job file and a received file
  by one session of several programs; a receiver by its device or by itself.
* **Late messages.** A confirmation can arrive after the channel has moved on;
  a registration can be given up with messages in both directions.
* **Failures.** The driver may refuse, stay silent, or be unloaded in the
  middle of a call; a file may be missing, unreadable or impossible to create;
  a fax may break off anywhere.
* **Boundaries.** Rings, pieces of lines, length bytes, buffers that grow: the
  end of a page, of a buffer and of a block may fall together in every way.

What makes each part correct: a handle belongs to at most one block and none is
lost; the identifiers and the timer fit the state; a call that was begun is
ended exactly once, in order, towards the application; a reset is never
forgotten and completes once; every accepted Send lets the program go on, and
every stopped receiver is deleted; the driver is never left with a call that
the channel has forgotten; a call has one channel that answers it, and it is the
one whose list has the number; messages reach CAPI once and in order, with the
lengths and contents that were set; what HylaFAX is told of a fax is what
became of it; every page arrives with all its lines in its file and every file
is handed over once; the library does what the sequences and texts it stands
for would do.

## 2. Modules

| Module | What it models |
|---|---|
| `HandleSet` | abstract: what the handle array promises, a bounded partial function from handles to pointers |
| `DataHandle` | `CDataHandleAdmin`: the array, its links, New, Free, DelNextEntry |
| `CallLife` | abstract: the order in which a channel tells the application about calls |
| `CapiDriver` | external: the CAPI driver and the network behind it |
| `ChannelOps` | the methods of `CCAPI20_MsgBase`, `CCAPI20_Channel`, `CTransferChannel`, `CFaxSend` and `CFaxReceive` as operators on the state of one channel |
| `Channel` | the actions: main thread, timer, CAPI thread, driver; fairness; properties |
| `RecvDevice` | `CFaxReceiveDevice`, `CFaxReceiveMain` and the lives of their receivers: main thread against the CAPI threads that delete them |
| `PutQueue` | one registration statement by statement: the put queue, its lock, RELEASE, the CAPI thread, the SIGALRM handler |
| `PlciList` | the list of claimed calls with its elements and bits, and the channels that claim and free |
| `MsnList` | the numbers of the configuration, the receivers' copy of them, and what CONNECT_IND and INFO_IND are answered |
| `TimerList` | the linked list of second timers, changed while its handler walks it |
| `FaxFiles` | `CBasicFaxConversion` as operators: the walk over files to send, the creation of received ones |
| `SendJob` | `c2faxsend`: the jobs one after the other, `CFaxSend`'s callbacks, exit states, qfiles |
| `RecvCall` | `c2faxrecv`: `CFaxReceive` of several receivers, job files, FIFO, status file, FaxRcvdCmd |
| `SffToHuf` | received data: RecvSFF and `CSFilter_Sff2Huf` byte by byte |
| `HufToSff` | a TIFF file to send: `CSFilter_fTif2Huf`, `CSFilter_Huf2Sff`, FillSffFilter, SendSFF |
| `CapiStruct`, `CapiMessage` | `CCStruct`: sizes, writing and reading of nested structures; the messages of a channel and the structures it keeps |
| `ListSeq` | abstract: linked lists as sequences |
| `PtrList` | `CPointerList`, `CSortPointerList`: the links |
| `StringText` | abstract: a string object holds a text |
| `DynString` | `CDynamicString`, `CPathName`: buffer, length, terminator |
| `StringPrint` | `CDynamicString::Print`: the state machine over a format |
| `ConfigParser` | the line parser, the grammar of the configuration file, the assignment to variables, `-c` options |
| `ChannelHandlerProofs`, `ChannelProofs` | theorems about `Channel`: lemmas about the operations, about each handler, and the whole |
| `CallsProofs` | theorems about `DataHandle` and `PlciList` |
| `RecvDeviceProofs`, `PutQueueProofs`, `SendJobProofs`, `RecvCallProofs`, `TimerListProofs` | theorems about the module of the name |
| `MC...` | constants for TLC; the composites `MCCalls`, `MCLibrary`, `MCFaxData`, `MCLive` |

Refinements: `DataHandle` implements `HandleSet` (`Refines`, also proved),
`Channel` implements `CallLife` (`CallbackOrder`), `PtrList` implements
`ListSeq` (`IsListSeq`), `DynString` implements `StringText` (`HoldsText`).
The abstract modules are where the larger models take over: `ChannelOps` uses
the send block only through what `HandleSet` promises, `SendJob` and `RecvCall`
use the channel only through what `CallLife` promises, and modules that need
ordered lists (`MsnList`, `PlciList`, `PutQueue`) have sequences and functions
where the code has `CPointerList`s.

`Channel` EXTENDS `ChannelOps`, which EXTENDS `CapiDriver`; `SendJob` and
`RecvCall` EXTEND `FaxFiles`; `CapiMessage` EXTENDS `CapiStruct`. The composites
put small models that have no state in common side by side: a variable `part`
(`way` in `MCFaxData`) that is chosen at the start says which of them runs, the
others rest. What a composite checks is therefore each part alone.

### The channel and its code

The variable `ch` is one record with a field per member that the code keeps
(`cs` is `curState`, `flags` is `m_Reseting`, `block` is `m_SendBlock`, and so
on: the list is at the definition of `Channels`). Methods call one another
inside one handler, so they are operators from record to record with the
source's names (`CheckListen`, `DisconnectInd`, `CheckFinishReset`,
`CONNECT_CONF`, ...), in the order of the calls. The actions of `Channel` pick
who runs:

| Action | Code |
|---|---|
| `StartSend`, `SendReturns` | `OneSendSession`: Send, then `sem_wait` |
| `StartReceive`, `DeviceStops` | `SetMSNList`, `CFaxReceive::StopReceive` |
| `SetupTimer`, `DisconnectTimer` | `StateChangeTimer_CallBack`, by what the timer was started for |
| `ThreadStarts`, `On...`, `ReadFails` | the CAPI thread: RegisterComplete, one handler per message, a failed `capi20_get_message` |
| `SendsFrame`, `SendDataReturns` | the loop of `CFaxSend::SendData`, one block per step |
| `ThreadStops`, `ThreadEnds`, `ReleaseDisconnects`, `ReleaseCompletes` | the end of the thread: `capi20_release`, then the two calls that RELEASE_COMPLETE makes after it has unlocked |
| `DriverTakes`, `NetworkActs`, `DriverCloses` | the driver takes a request, reports what the network does, finishes to hang up |

A handler that returns `vFalse` is followed by the automatic answer in
`capi/CapiMsg.h`; the model joins the two. Acknowledgements that change nothing
are left out. PLCIs and NCCIs are small numbers; a connection has one logical
connection, so the NCCI carries the number of its PLCI. Data blocks are numbers.
`deleted`, `phase` and `begun` are history for the properties. A call of which
digits are awaited has `ddi` set while `m_DDIPrefixLen` is not 0, which is what
DisconnectInd tells it by; with the length 0 (`found` is "bare" in `CONNECT_IND`)
its `phase` is "unseen", because its end will be reported to an application that
was not told of it (section 4). `CallLife` has this as its exception (`Awaits`),
`RecvCall` what the receiver does with it (`UnseenCallEnds`).

`CapiDriver` follows the exchange that `CCAPI20_Channel` expects. It may refuse
any connect or listen request, deliver calls whenever it was asked to listen,
drop either layer at any time, and it sends DISCONNECT_B3_IND before
DISCONNECT_IND. It answers requests in order. Whether it may stay silent after a
hang-up (`DisconnectTimeout`) or refuse a second DISCONNECT_REQ
(`StrictDriver`) are constants.

### Below the channel: puts and timers

`Channel` takes a put as one step and a timer as a flag. `PutQueue` shows what a
put is made of. `stack` holds, per thread, the statements it has still to do;
`Step(t)` does the next one; a statement needs `lock` where the code holds
`m_Protect`. The threads are the application's (`Users`), the CAPI thread and
the SIGALRM handler, which interrupts one of them (`on`) and keeps it from going
on. `OutQueue` and `Completed` are EmptyPutMsgbufferQueue and FreeCurPutMsg,
`StopsThread` is CapiBase_Release, `Registers` REGISTER with CapiBase_Register.
A registration that ends under a thread which has a message in its hands sets
`crash`, where the model stops.

`TimerList` has the list as it is linked (`timers`) and takes Add, Remove and
Notify apart: one step looks at one slot (`RemovePasses`, `RemoveFinds`,
`AddPasses`, `NotifyPasses`, `NotifyFinds`) or writes one pointer
(`RemoveUnlinks`, `AddHolds`, `AddLinks`, `NotifyUnlinks`), with `tmp1`, `tmp2`
and `tmp3` in `op` and `walk`. Between any two of them the handler or the thread
of another channel comes in; the callbacks run inside Notify (`DoCallBack`).
Targets are relative to the present tick. `met` is history: who is under way
while another one has written. `astray` says that somebody wrote where the list
is not any more what he had seen: behind a slot that has left the list, in front
of another than the one he found, or on a slot that another operation has in
hand. From there on the program loses timers, follows links of slots that are
off the list or of deleted ones; what follows is not modelled, the model stops
(`Whole`). `SetNext` is the first of the statements of a write (`s2->link =
s1->link` is read with `temp`), in the order of the source.

### Who takes a call

`PlciList` has the elements of `pPLCIList` with counter and bits, created by the
first layer and deleted by the last. `CONNECT_IND`, `Ignored`,
`AcceptIncomingCall`, `ConnectRespIgnore` and `DISCONNECT_IND` are what happens
to a channel for which a call rings. `undone` collects the calls whose claim was
freed by a channel that did not have it.

`MsnList` builds the list from the sections of a file in their order
(`Config`: SetDDI, Set, AddMSN), copies it as a receiver does (`SetMSNList`),
and answers `ConnectInd` and `InfoInd`. Numbers are sequences of digits. The copy
loses the ends of ranges: `m_End` of a copied entry is read behind the object
(`chance`), with every outcome.

### Jobs and files

`FaxFiles` is one record `fx` per conversion. Page data is one chunk, a filter is
the sequence of the pages in it. `SendJob` has the main thread (`pc`, `qfile`),
the callbacks in the order of `CallLife`, the loop of SendData a turn at a time
(`FillsFilter`, `ShipsBlock`, `LeavesSendData`), and what the far side really
got (`net`, `done`), which is what the exit states are compared with. `RecvCall`
has a record per receiver, the spool directory with its counter file (`disk`),
HylaFAX's log directory (`log`), the status file, and the calls of FaxRcvdCmd
(`handed`).

`SffToHuf` looks at the bytes of a received document only as far as the filter
tells them apart: the start of the document, lengths of one byte or two, runs of
white lines, page headers, special records. `DataArrives` is RecvSFF with a new
block, `RecvSFF` a turn of its loops, `NoNextFile` a G3 page for which no file
can be created. `HufToSff` has the codes of a line as bytes
`<<page, number>>`, and an end of line as one code; a strip may be unreadable.
`SendSFF`, `Fills`, `GetToPageEnd`, `PutsBuffer` and `Get` are the loops of
BasicFax.cpp and of the filter.

`CapiStruct` computes sizes (`CalcStructSize` keeps one that is not 0, as
`m_Len` is), writes (`FillBuffer`) and reads (`ParseBuffer`) structures by their
format string. `CapiMessage` has the messages of the two programs in both
directions and lets the user change the structures between them.

### Devices and receivers

`RecvDevice` keeps of each receiver only its life (`st`: created, stopped,
deleted and about to report, about to delete its device) and of each device
whether it is alive, `Starting`, and `FaxThreads`. `main` is the main thread: the
statement it is before and the pointers it holds. What is one expression in the
code and unlocked is a step: in StopReceive GetFirst (`TakesFirst`), RemoveFirst
(`RemovesFirst`) and the call (`StopsReceiver`), in ReceiveStoped the test
(`ReceiveStoped`) and the deletion (`DeletesDevice`), in StartReceive the test of
the list (`TestsReceivers`) and the reset of `Starting` (`EndsStart`). A receiver
ends on its own CAPI thread (`IsReseted`), after StopReceive or after a
`ListenError` of its own. The three loops of WaitOnFIFOs only read the devices,
except that the last calls FIFOchanged: one walk (`BeginsWalk`, `Visits`) stands
for them, and for the walk of the signal handler. `stale` collects the devices
that are used after their deletion. Reading the successor of a deleted device
follows a null pointer and ends the program (`crash`); its list may still look
empty or not. That a stopped receiver ends is assumed here (fairness of
`ReceiverEnds`) and checked in `Channel` (`StopFinishes`).

### The library

`PtrList` has the two links of every node, Head and Tail included, and one
action per method; a sorted list is searched from either end. `DynString` has a
buffer (a sequence as long as `maxSize`, with `Junk` where nothing was written),
the length, and one action per method; texts are sequences of characters.
`StringPrint` has the variables of `i_vPrintAppend` and one action per kind of
character or placeholder. `ConfigParser` takes a file in pieces (`Gets`), cuts
lines into words (`WordsOf`), words into a tree (`ParseWords`), and assigns
variables (`AssignsConfig`, `TakesOption`). `MCConfigParser` says independently,
line by line, what a file means (`Meant`, `ForDevice`); the shell's and strtol's
reading of what was printed is in `StringPrint`.

## 3. Runs

| Run | Instance | Shows |
|---|---|---|
| `send` | 2 faxes of 3 blocks, 2 handles, 1 CAPI failure, ringing timeout set; 61 134 states | `BufferOwnedOnce`, `DataInFlight`: every block is owned once and confirmed to the fax it belongs to. `CallbackOrder`: the channel implements `CallLife`. `SendFinishes`: every Send returns |
| `send_timeout` | 2 faxes of 2 blocks, the driver may stay silent or refuse, no ringing timeout; 640 892 states | `TimerHasHandler`: a timer never outlives the state it was started for. `SinglePost`: the main thread is woken once per Send |
| `recv` | 2 calls, DDI digits, lost claims, 1 CAPI failure, a stop at any time; 2 677 826 states | `ChannelInv` (types, PLCI, NCCI and state agree, a call has an owner), `NoOrphanCall`, `ResetSticks`, and `CallbackOrder` with the DDI calls |
| `recv_live` | 1 call, DDI digits, 1 CAPI failure, no lost claims; beside it 2 timers of up to 2 s, one operation begun during a walk; 678 209 states | `StopFinishes`: a stopped receiver is deleted. `ListHoldsTimers`: the list keeps every timer until somebody goes astray, and nobody does unless another has written meanwhile (`AstrayTakesTwo`). `TimersFire`: a timer fires or is taken off |
| `recv_device` | 2 devices with 2 receivers and one that is not configured, CAPI may fail at any time; 215 996 states | `DeviceInv` (lists hold what is alive, what listens is listed), `StopEndsDevice`, `SignalEndsProgram` |
| `send_job` | 18 command lines of 1 or 2 jobs; 79 136 states | `OkayMeansDeliveredElse`: exit state 0 only for a fax the far side has, but for the cases of section 4. `FaxesApart`, `QFileTellsResult`, `ProgramEnds` |
| `recv_call` | 2 receivers, 3 calls, 2 pages, a counter about to wrap; 1 288 894 states | `HylaFAXIsTold`, `FilesAreHandedOver`, `JobFilesDistinct` |
| `put_queue` | main thread, CAPI thread, 1 signal, 2 puts, 2 registrations; 488 115 states | `PutsInOrder`, `NothingLeftBehind`, `ReleaseEnds` |
| `fax_data` | received documents of 2 pages, TIFF files of 2 pages; 516 831 states | `FaxWholeElse`, `RecvSFFEnds`, `LinesInTheirPageElse`, `AllLinesSent` |
| `calls` | handle array of 3, 3 channels and 3 calls, 2 controllers' numbers, all messages; 161 526 states | `Refines`, `SoleClaimElse`, `OnlyItsOwn`, `AnswersByList`, `SentAsSetElse`, `UnderstoodAsSaid` |
| `library` | lists of up to 4 elements, texts of up to 3 characters, formats, files of up to 3 lines; 210 344 states | `IsListSeq`, `HoldsText`, `ReadAsPrinted`, `ConfAsWrittenElse` |
| `stop_hangs` | 1 call, lost claims, under fairness | violates `StopFinishes` (section 4) |

A property whose name ends in `Else` says what holds but for cases that are
written down beside it as a definition of its own; section 4 lists them.

**Bounds.**

* `send`, `send_timeout`, `recv`: `MaxFrames`, `Handles`, `MaxJobs`, `MaxCalls`,
  `MaxFaults`. Three blocks over two handles are enough for the array to be
  full, for a handle to be used twice, and for a block to remain when the others
  are confirmed. Two faxes are enough for anything left from the first to meet
  the second, two calls at a time for one to arrive while another is set up or
  torn down. One failure can strike at any point, and CAPI may be gone or back
  afterwards. At most one DATA_B3_IND and one INFO_IND are in flight.
* `recv_device`: `Devices`, `CountThreads`. Two devices are enough for one to end
  while the main thread is at the other, two receivers (the default) for one to
  report while another is still stopping; every receiver may fail at any time.
* `recv_live`: the call as above, with `MaxCalls` = 1. Two timers (`N`) of up to `MaxSecs` = 2 s, so that a timer can be put
  before, behind and onto another and either is due first; `MaxMeets` = 1 bounds the
  operations that channels begin while the handler walks. Those that were begun
  before are under way as well, so two operations and the handler can meet. The
  slots are alike, `TimersFire` is stated of the first. The
  proof of `ListHoldsTimers` is for every value of the three.
* `send_job`: `Runs` has every format, one, two and three files, missing and
  unreadable ones, some that break off in the middle (`breaks`), polls, a lone `+`, and two jobs in a row. A page is a chunk,
  `BlockSize` 2 chunks, so that a block ends at a page and between two;
  `Window` = 2 blocks on their way; `Docs` pages of what is polled.
* `recv_call`: `MaxTry` (the names tried, 1000 and 20 in the code), `MaxSeq`
  (where the counter wraps) and `FirstDisk`, with a file that is there already,
  make both happen at once. `MaxIncoming` = 3 lets the two receivers be in any
  two phases and one of them start again.
* `put_queue`: `MaxPuts`, `MaxRegs`, `MaxSigs`. Two puts, one by each thread or
  both by one, are enough for one to wait in the queue; the second registration
  is there for those who still use the first; one signal may strike at every
  statement.
* `fax_data`: the constants are the code's in the same proportions: `tmpbuf`
  (`BufferLen`) takes less than a line, the ring (`MaxLen`) is nearly full
  with one more line, `Blocks` has a block that ends inside of a record and one
  that fills the ring. `LongLines` has the length 0, `PageSize` one length that
  is illegal, and `Specials` a length of which two records fill the ring, so that it
  can be full of nothing else. A document that is given up (Error_NoFax, illegal
  coding) is followed by the rest of its block, which `PutChar` looks through for a new
  one; no second document begins there. `SffLinesFit` states the precondition
  that no line is longer than the ring. A page header of the length 255, whose
  offset wraps (`sff2huf.cpp:126`), is left out. On the way out the ring (`QueueSize`) takes what
  FillSffFilter may add in one turn beyond `CapiBuffer`, and no more than a
  few bytes beyond that; `Files` has every combination of pages with and without a last
  end of line, in one strip or in two, readable or not.
* `calls`: three channels are the fewest of which two can dispute a call and the
  third claim it again; the three PLCIs are two of one controller and one of another.
  `Configs` has lists of up to three numbers of one and two digits and ranges,
  with and without DDI, with and without a prefix, for one section or two; `Called` has numbers that are
  listed, not listed, shorter and longer than those, and end in a number that
  is. `MaxByte` = 17 is the longest structure with its length in one byte (254
  in the code): the protocol with its headers is longer, its parts are shorter.
  The driver writes short lengths in one byte or in three (`WideWire`), an
  empty structure included.
* `library`: four entries of three keys, so that a place is found at both ends,
  in the middle and at an equal key; texts of `MaxText` = 3 with `DynString`'s
  step of growth `Offset` = 2 grow twice; `ShortBits`, `IntBits`, `LongBits`
  = 3, 4, 6 in the place of 16, 32, 64 and a digit buffer that fits; lines are
  read in pieces of `PieceLen` = 3, which cuts them everywhere.

**Fairness.** Every thread that can go on does; a started ringing or B-channel
timer fires; the driver takes requests and finishes hang-ups it has begun. That
is what the operating system, SIGALRM and CAPI promise. In `PutQueue` a thread
waits for a lock that others take and give back, and gets it some time, hence
strong fairness there and weak fairness everywhere else. In `TimerList`
SIGALRM comes again and its handler goes on, and so does every operation that has begun. Nothing is assumed of
the network, of the application or of failures: no fairness on `NetworkActs`,
`StartSend`, `DeviceStops`, `ReadFails`, `DisconnectTimer`. `SendJob` assumes
that a call ends some time, which `SendFinishes` shows of the channel.
`SendFinishes` needs the ringing timeout: with `RingingDuration` 0, the default,
a call that is never answered keeps the program waiting, as `capi/CapiChan.h:33`
says. In the composites each part has its own fairness, on its own actions.

**Deadlock** is checked in `send`, `send_timeout`, `recv_live` (whose timers
rest once somebody has gone astray) and `recv_device`. The other systems may stop: a receiver after it was deleted, and
for good in the case of section 4 (`recv`, `stop_hangs`), a program that ends
(`send_job`, `recv_call`), a queue after its last registration or at a
self-deadlock (`put_queue`), data and inputs that are used up (`fax_data`,
`calls`, `library`).

## 4. Findings and disagreements

One run of the list exists to show a disagreement:

* **`stop_hangs`.** A receiver stopped between losing the claim for a call and
  the DISCONNECT_IND of that call is never deleted: the comment at
  `capi/Channel.cpp:142` leaves the rest to "someone else", who is not there.

The others are stated by properties that stay in the modules but are in no run,
or by the exceptions of an `...Else` property.

*Channel.*

* `AssertDDIPrefix` (in `MsnList`): `capi/Channel.cpp:1014` asserts that a call
  which waits for DDI digits has a prefix length above 0. FindCallInfo leaves 0 when there is no
  `DDIOffset`, and when CONNECT_IND has not told as many digits as it has yet
  (`capi/MSNList.cpp:412-433`). Without debugging the assertion is empty
  (`standard/DbgInfo.h:105`). When the call hangs up before the number is
  complete, DisconnectInd (`capi/Channel.cpp:1166-1170`) takes it for one that the
  application knows: IsDisconnected of a receiver writes "Running and idle" and
  the letters I and R to the FIFO for a session that never was, and sets the
  status file while another receiver may have a call. `CallbackOrder` and
  `HylaFAXIsTold` hold but for this (phase "unseen", `UnseenCallEnds`).
* `AssertReleaseComplete`: `Release_Complete` asserts that no call is active
  (`capi/Channel.cpp:927`). When the 20 s disconnect timer fires (or a second
  DISCONNECT_REQ is refused) `Release` sets `cs_Releasing`, RELEASE_COMPLETE
  then skips `DisconnectInd`, and the assertion fails. The channel registers
  again and dials the same call a second time. With `DisconnectTimeout`,
  `CallOwner`, `BufferOwnedOnce`, `DataInFlight` and `CallbackOrder` fail for
  the same reason, which is why `send_timeout` does not list them.
* `AssertConfOwned`: in `cs_D_DisconnectPending` a DISCONNECT_B3_IND drains the
  send block and keeps the NCCI, so the confirmation of a drained block reaches
  "Great CAPI Error" and `dassert (0)` (`capi/Channel.cpp:954`).
* `DeletedWhenDone`: when CAPI is lost during a call and cannot be registered
  again, the receiver deletes itself inside the `DisconnectInd` that
  RELEASE_COMPLETE calls, and RELEASE_COMPLETE then calls `Release_Complete` on
  it (`capi/CapiChan.cpp:456-459`), against the rule at `capi/Channel.h:75`.

*Put queue* (`RegistrationThere`, `SelfDeadlock`).

* No lock covers a thread between taking a message and freeing it
  (`capi/CapiMsg.cpp:301-312`), nor CapiBase_Release between reading the
  registration and writing to it (`linuxdep/CapiBase.cpp:86-90`): a registration
  that ends meanwhile is used after its deletion, or the message is put twice.
* The SIGALRM handler runs the callbacks of the timers on the thread that it
  interrupts (`linuxdep/SysTick.cpp:30`) and waits for that thread's own lock
  when it held `m_Protect` (`capi/CapiMsg.cpp:295`).
* The result of `capi20_register` is not looked at (`linuxdep/CapiBase.cpp:59`):
  a registration that failed has a thread and an id that CAPI does not know.

*Timers* (`astray`). Add, Remove and Notify are not locked
(`linuxdep/TimerList.cpp:53-140`), and SIGALRM strikes between their statements.
Add that has passed a slot which Notify then takes off the list hangs the new
timer behind that slot: it never fires. Remove, interrupted before it writes, puts a
slot back that Notify has taken off, or takes off the timer that was put there
meanwhile. A callback runs although its channel cancels the timer at that
moment. `AstrayTakesTwo` says that this takes two who meet; nothing in the code
keeps them from meeting.

*Claims.* The loser of a claim frees the winner's (`FreePLCIEntry` in
ResetValues, `capi/CapiChan.cpp:736`); a third channel can then take the same
call. `SoleClaimElse` leaves out those calls (`undone`). Bit 7 of a PLCI is not
looked at.

*Numbers* (`DDIsAccepted`; `ListsRange`, `MixesLengths`, `PrefixTold`, `chance`).

* A receiver's copy of the list makes entries without an end of ranges; their end
  is read from behind the object (`capi/MSNList.cpp:669`): a range is not found,
  or what happens to lie there decides. Ranges of `IncomingMSNs` and
  `IncomingDDIs` are what `sample_config.faxCAPI:369-372` allows.
* With DDI numbers of several lengths the first digits may decide too early.
* `s_findstring` counts the rest of the string up instead of down
  (`standard/aString.cpp:256`) and looks for a prefix behind the number.
* With `UseDDI`, an empty `DDIPrefix` and `DDILength` 0 the number is taken for an MSN.
* The test of GetMask is the wrong way round (`capi/MSNList.cpp:488`; nobody calls it).
  The copied entry shares the buffer of the prefix (`:664`).

*Messages* (`SizeIsNeeded`, `Stale`). A structure that was put keeps its size
(`capi/CCStruct.cpp:222`, against `capi/CCStruct.h:149-150`); when its contents
change afterwards the next message has the old length. c2faxsend meets it: one
`CFaxSend` sends all qfiles, every job has its own tag line
(`faxsend/sendmain.cpp:320`, `faxsend/faxsend.cpp:217`) and sets the B protocol
anew, but the length that the first CONNECT_REQ computed stays, so a second job
with a tag line of another length sends one with a wrong length. The fifth structure
of additional info is never sent, the format has four (`capi/CCSParam.h:362-409`).

*Sender* (`OkayMeansDelivered`; `KnownFalseOkay`). Exit state 0 ("okay") is
told although the far side has not got the fax when

* CAPI is lost after the last block was handed over: `exitState` 0 is set
  before it is confirmed (`faxsend/faxsend.cpp:674`);
* a lone `+` is dialled with a replacement for `+`, or the file is no fax: Send
  returns with `exitState` 0;
* a later file cannot be opened: the 1 that was set is overwritten
  (`faxsend/faxsend.cpp:671-676`);
* there are three or more G3 files: every other one is skipped; with two
  the program follows a null pointer (`convert/BasicFax.cpp:631` and `:654`);
* a poll is refused after a job whose poll succeeded (`m_recvState` is still 3,
  `faxsend/faxsend.cpp:496`), or the next file of a G3 poll cannot be created
  (`convert/BasicFax.cpp:512`).

A read that fails in the middle of an SFF or G3 file gives length 0, i_Okay and
no end of the file (`convert/BasicFax.cpp:348-351`, `:598-605`): SendData, or the
loop of FillSffFilter, goes round for ever (`ReadsForEver`, the exception of
`ProgramEnds`). What libtiff does with a damaged TIFF file is left out.

Also there: the first WriteQFile of a job writes the pages of the job before;
after results 1 and 3 the other qfiles are left unsent (`faxsend/sendmain.cpp:530`); a
qfile is truncated before it is rewritten; `IsReseted` closes the log before
"SESSION END" is written to it (`faxsend/faxsend.cpp:623`, `sendmain.cpp:356`).

*Receiver* (`ResultCodeTrue`, `IdleStatusMeansIdle`). SFF reception reports 7,
received partially, for complete faxes; a G3 fax whose next file cannot be
created counts as complete; the status file says idle when one of two receivers
has ended its call.

*Devices* (`DeviceNotUsedAfterDelete`). StopReceive empties `FaxThreads` before
the receivers have ended, so the first one to report deletes the device
(`faxrecv/recvdev.cpp:353`) while StopReceive still reads its list and the
others still have to report to it, against "c2faxrecv terminates more cleanly"
(`src/ChangeLog:11`). A device whose receivers all fail at the start is deleted
by the main program and by its last receiver. Two narrower races are excluded by
the history `raced`: a receiver that ends by itself between lines 334 and 336
makes RemoveFirst take another one off the list, which then listens for ever;
one that reports between lines 268 and 325 as the last leaves a device that
nobody deletes.

*Fax data* (`FaxComplete`, `Cut`).

* The codes for the end of a page are cut off when `tmpbuf` fills with them
  (`convert/sff2huf.cpp:338-341`, `:359`); the rest follows in the next page,
  and a G3 fax whose last end is cut off is not finished (`convert/BasicFax.cpp:494-566`).
* White lines are counted too high in `VirtCount` (`sff2huf.cpp:226-231`).
* A line whose two bytes of length are 0 leaves its three bytes in the ring
  without a data header (`sff2huf.cpp:265`): GetToPageEnd stays behind the ring by
  a record for each, and the rest of the fax is not written (`hollow`).
* A ring that is full of special records only, or of such lines, makes RecvSFF
  loop for ever (`sff2huf.cpp:340`, `Clogged`, the exception of `RecvSFFEnds`); so
  does the beginning of one line that is longer than the ring, which
  `SffLinesFit` leaves out.
* The last line of a TIFF page that has no end of line goes to the next page or
  is lost (`convert/huf2sff.cpp:314-324`); an unreadable last strip leaves its
  length in `stripBufLen` (`convert/ftif2huf.cpp:148-168`), so that junk is taken for data.

*Configuration* (`LastLineLost`, `open`).

* A last line without a newline whose length is a multiple of 199 is dropped
  (`standard/FilePars.cpp:75-92`).
* An option `-c` after a file with a section that is not closed goes into
  that section, which has been deleted (`faxsend/faxsend.cpp:166-180`).
* A `-` right behind a brace follows a null pointer (`standard/ConfPars.cpp:252`);
  a backslash with a comment behind it does not continue the line (`:108-113`).

*Strings.* `%d` without `l` prints negative numbers unsigned
(`standard/CString.cpp:485-489`); RemoveChars is right only for the whole
text; a station ID becomes part of a format (`convert/BasicFax.cpp:716`, `:743`,
`:809-811`; the model has IDs without `%`). In parts of the library that no
program uses: `standard/ByteQueu.cpp:89`, `:132`, `:262`,
`StdList.cpp:92-94`, `:147-149`, `PtrList.cpp:90`, `SortList.h:124`.

## 5. Proofs

The first part of `CallsProofs` proves, for every capacity from 1 to 65535 and every set of
pointers without the null pointer (`DataHandleAssumption`: the types of the code
and its documented preconditions):

* `TypeCorrect`, `FreeListCorrect`, `CountCorrect`, `LinksCorrect`: the type
  invariant, `FreeListExact`, `CountExact` and `NoSharedLink`;
* `Implements`: every behaviour of `DataHandle` is one of `HandleSet` (the
  property `Refines` of the run `calls`).

The inductive invariant `IInv` is the conjunction of the four. `FreeListExact`
is not inductive alone: taking the head off the list leaves the rest of the
chain only if no other entry points at the same successor, which is
`NoSharedLink`. `NoSharedLink` in turn needs `FreeListExact` to know that an
entry given back is not already on the chain. Chains are defined as the least
set closed under successor (`Chain`), so no recursion and no induction over
data is needed: `ChainClosed` and `ChainLeast` characterise it, `PopChain` and
`PushChain` say what New and a return do to it. The refinement maps `held` to
the pointers of the entries in use and uses `IInv` on the state before a step.

The second part of `CallsProofs` proves, for any set of channels and any calls:

* `PlciTypeCorrect`: types, and a channel has a PLCI exactly while it has a call;
* `CountersExact`: the counter of an element is the number of its bits, so an
  element is deleted with its last bit and takes no other claim along;
* `ClaimsSole`: `SoleClaimElse` of the run `calls`;
* `ForgetsOnlyItsOwn`: the action property `OnlyItsOwn` of the same run.

Its inductive invariant `PlciInv` adds two facts. `EntryOfSome`: a bit is set
only for a call that some channel has, so a PLCI that CAPI uses again finds no
bit of its earlier call. `CallsHaveLayers`: a channel with a call exists, so the
last layer deletes the list when no bit can be set. The counter is a cardinality
of a finite set of bits; `SetEntrySets` and `UnsetClears` reduce what TestAndSet and
Unset do to one bit more and one bit less.

`RecvDeviceProofs` proves, for any finite set of devices, any number of
receivers of each and any configuration (`RecvDeviceAssumption`):

* `DeviceInvariant`: `DeviceInv` of the run `recv_device`, that is the types, that
  the main program's list holds the devices that are not deleted and a device's
  list receivers of its own that still run, and that a receiver nobody
  stopped has its device to report to.

The lists have no lock, so the invariant needs what the main thread holds while
others delete; the inductive `IInv` adds four conjuncts. `RestIsFresh`: the next
device of StartReceive and all behind it are in the list and untouched, so
nobody deletes the one whose pointer the walk holds (only fresh
devices stay ahead of it, and who deletes a device has had a receiver of it).
`BeingStarted`: `Starting` is set from the first receiver to the last, so that no
report deletes the device meanwhile, and a start that fails has no receivers.
`InHand`: the receiver that StopReceive has found is still the first of its
list, unless `raced` says otherwise. `DeleteIsDue`: between the test of ReceiveStoped and
its deletion no receiver comes to the device and no start begins.
`RemoveFirstFacts`, `AppendFacts` and `TailFacts` say what the list operations do,
`DeleteFacts` and `DeleteKeepsRest` what a deletion leaves as it was. The theorem
does not say that a deleted device is not used: that is false (section 4).

`PutQueueProofs` proves, for any set of threads and any number of messages,
registrations and signals (`PutQueueAssumption`: the threads are different):

* `PutsAreInOrder`: `PutsInOrder` of the run `put_queue`, messages go to CAPI in
  the order in which they were queued and none goes twice;
* `NothingStaysBehind`: `NothingLeftBehind` of the same run, no message waits
  while the id is valid and no thread will come back to the queue.

The inductive invariant is `IInv`: as long as no registration has ended under a
thread that uses it (`crash`), `Sound` holds. Neither property is inductive,
because the queue, the message in hand and what CAPI has are three places and a
message is between two of them while its thread has no lock. `OneHolder`:
`m_CurPutMessage` is taken exactly while one thread has it in its hands, which
is what lets the other threads turn away from the queue. `SentRises` and
`QueueRises`: the numbers rise from what CAPI has, over the message in hand, to
the queue. `PutIsNew`: what is about to be put has not been put. `IdIsGone`: a
thread that will not come back to the queue has seen that the id is gone.
`ComesBack`: otherwise one will. What a thread still has to do is one of finitely many
lists (`Asking`, `Looking`, `Putting`, `AfterPut`, ...; `StackTypeOK`); a lemma per
statement (`OutTurn`, `FreeTurn`, ...) says which list becomes which.

`SendJobProofs` proves, for any command line, any fax files and documents to
poll, any block size and any number of handles (`FaxFilesAssumption`,
`SendJobAssumption`: the sizes are positive, a TIFF file has a page, since libtiff
opens none without a directory):

* `OkayIsDelivered`: `OkayMeansDeliveredElse` of the run `send_job`;
* `FaxesStayApart`: `FaxesApart` of the same run, the order of the pages and
  what is left when a call is over;
* `QFileTells`: `QFileTellsResult` of the same run.

They are theorems of `Spec`, that is, without fairness; the run checks them of
`FairSpec`, which implies it. None of the three is inductive. That an okay means a delivered
fax comes of a stream in four places: pages of the files, the filter, the
blocks without confirmation, the far side. The inductive invariant `Inv` follows it:

* `Threads`, `Closed`: which thread can be where while a call lasts, and that
  what a call opened is closed when it is over.
* `Ordered`: far side, blocks and filter, one behind the other, rise.
  `Reading`: there is a next page, or an end of the file to step over, and
  what is under way goes before it. So a page that is read can be put at the end.
* `NothingLost`: in a job that none of the known exceptions excuses (`Plain`) the
  pages of the three places together are those read so far (`PagesRead`), the
  fax is not hung up before all of them are read, and the page count of a TIFF fax is
  their number. `FillSffFilter` reads more than a block's worth at the end of a
  file and several files in one call when they are short; `FillTurns` is one
  round of its loop, `FillReads` what the whole loop adds.
* `Told`: exit state 0 while CAPI has reported the end stands for a
  delivered fax already when the call ends, before the main thread looks.
  `FirstPoll`: only the first job knows that a finished poll is its own.
* `Undialled`: qfiles of jobs to come have not been touched. `Results`: what is
  done stays done.

The lemmas come in three groups: what cutting a sequence does to the pages in it and to
their order (`CutElements`, `ConcatOrder`, `CutOrder`); what each operation of
`FaxFiles` makes of the conversion (`OpenSendIs`, `NextFileIs`, `FillIs`,
`SendSFFIs`, `OpenRecvIs`, `RecvSFFIs`); and one lemma per action (`...Keeps`), of
which those on the CAPI thread share `PollKeeps` and `SendKeeps`.

`RecvCallProofs` proves, for any set of receivers, any spool directory at the
start, any number of calls and faxes of any length (`FaxFilesAssumption`,
`RecvCallAssumption`: the numbers are positive, a fax has a page):

* `EveryFileHandedOver`: `FilesAreHandedOver` of the run `recv_call`;
* `HylaFAXHearsTheTruth`: `HylaFAXIsTold` of the same run, the result code and
  the letters of the FIFO;
* `OneJobFileEach`: `JobFilesDistinct` of the same run.

The inductive invariant `Inv` has a part per receiver, `CallOK`, and a part for
what they share. `HoldsFiles`: a receiver has files only while a call is up, and
has one while it takes data, which is why opening a file forgets none.
`KnowsHowFar`: `recvState` follows the blocks that came, so that 7, 12 and 0 are
true when the call breaks at any of them. `TellsSession`: the letters of the
FIFO are those of the pages counted. `FilesApart` and `FilesKnown`: the files
created since the start are divided among the receivers and the calls of
FaxRcvdCmd; what they need of the code is that a new file has a name that no file
has (`NumberIsFree`, from the least number that is free) and that a step which
creates a file lists it (`Lists`). A file that libtiff refuses is removed again
before anything else happens. `Logged`: the number of a session's log file is
taken, so the next one gets another.

`TimerListProofs` proves `ListHoldsTimers` (`TheListHoldsTimers`) for any number of
timers, any times and any number of operations begun during a walk, through any
interleaving of the statements of Add, Remove and Notify: the list holds the
timers that are on until somebody writes astray, and nobody does, or looks at a
deleted slot, unless another has written since he began. That this can happen is
not excluded (section 4). The list of a state is the one sequence of slots that the
head and the links lead through: `OneWay`, by the least place at which two of
them differ. `RemoveLinks` and `InsertLinks` say what becomes of it when one link
is written, `Unlinked`, `LinkedIn` and `LinkAlone` what that means for those
under way.

The property is not inductive: that a write finds the right place depends on what
was read statements before. The invariant `TimerInv` says `Fits` of every
state in which nobody has gone astray. Part of that holds whoever has written: the list is a chain in the
order of the targets (`Good`), of the timers that are on but for those in
somebody's hand (`OnIsListed`), and an operation's slot is on the list or off it
as the operation has got on (`OpsHold`, `WalkHolds`). The rest is what each one
knows as long as nobody else has written since he began (he is not in `met`).
`OpFits`: tmp1 comes right behind tmp2 in the list, Remove's slot has not been
passed, and Add's place is where it belongs. `WalkFits`: due slots are the first
of the list, and as long as there are any Notify looks at the head next, with no
predecessor, so that internal_Remove unlinks the right one; this is also what
the handler finds again after a callback that has started or cancelled its timer.

`ChannelProofs` proves, for any set of connections and handles, any number of
calls, faxes (`MaxJobs`), data blocks and failures of CAPI, with and without
ringing timeout, DDI and lost claims, for faxsend and faxrecv:

* `MembersAgree`: `ChannelInv` of the run `recv`: types, the identifiers fit the
  state (`IdsMatchState`), and a call has an owner (`CallOwner`);
* `BuffersAreOwned`: `BufferOwnedOnce` of the run `send`;
* `DataIsInFlight`: `DataInFlight` of the run `send`;
* `CallbacksInOrder`: the refinement `CallbackOrder` of the runs `send` and `recv`, every
  step of the channel is a step of `CallLife` or a stutter; `CallLife` allows the
  end of a call that was not shown only for a DDI call with prefix length 0;
* `PostsPairUp`: `SinglePost` of the run `send_timeout`;
* `TimersAreHandled`: `TimerHasHandler` of the run `send_timeout`;
* `ResetsAreDone`: the action property `ResetSticks` of the run `recv`;
* `NoCallIsForgotten`: `NoOrphanCall` of the run `recv`;
* `IdsAlwaysMatch`: `TypeOK` and `IdsMatchState` alone.

The assumptions on the constants are `DriverAssumption` (identifiers and handles
are not 0), `ChannelAssumption` and `RunAssumption`; a fax to send has at least
one block, as huf2sff.cpp:92 writes a header first. `PostsPairUp`,
`TimersAreHandled`, `ResetsAreDone`, `IdsAlwaysMatch` and `NoCallIsForgotten` hold
for faxsend with any driver of `CapiDriver`, and for faxrecv with one that neither
stays silent after a hang-up nor refuses it (`Covered`); the others need such a driver in faxsend
also (`Prompt`), because DisconnectTimer releases the channel without
DisconnectInd, and the call and its buffers stay.

The inductive invariant `Inv` says of one state of the whole system that it is
`Sound` and of its call that it `Lives`. The parts of `Sound`:

* `Fits`: the members of the channel among themselves. `ThreadFits`: which CAPI
  thread there can be in which state, and that the id is valid until it is told to
  stop. `IdsFit`: `IdsMatchState`, the timer by state, and the converse for the PLCI.
  `AskFits`: what is on its way to CAPI names its connection, and a call is
  dialled once. `CallFits`, `FaxFits`: what the call, a reset and the SendData
  loop have to do with the state.
* `ReportsFit`: what CAPI has reported and the channel has not read. A
  CONNECT_CONF finds the channel dialling: CONNECT_CONF takes the PLCI in any
  state, so that two answers, or an answer to a call that was given up, would
  overwrite it.
* `EndsFit`: the driver ends a connection, and refuses to hang one up, only if
  the channel does not have it any more when it reads that far (`Past`). This is
  what `CallOwner` needs: a refused DISCONNECT_REQ makes DISCONNECT_CONF release
  the channel with its call. It relates the driver's state, the order of the
  unread reports and the channel's PLCI.
* `WaitsFit`, `StartFits`: the main thread waits exactly while its Send is a
  call or a reset (`Busy`) or already answered (`Done`), and faxrecv stops once.
* `TailFits`: what RELEASE_COMPLETE has still to do after it has unlocked.
* `OwnFits`: a call belongs to the channel that is active (`OwnerFits`), and the
  send block and the deletions account for every block read (`BlockFits`).

`Lives` is about the messages of the call at hand. `Held` holds with any driver:

* `TimerFits`: the states in which the timer runs. `LoopFits`: `SendData` is under
  way only while its call lasts.
* `DataFits`: the data blocks on their way and their confirmations. There are none
  before the call is connected, a CONNECT_REQ and a CONNECT_CONF included
  (`DataAfter`); they all name the channel's NCCI, each with a handle of
  its own (`DataApart`), and that handle is in use until the channel hangs up
  (`DataUsed`). Without `DataAfter` the confirmation of a block of the last call
  could meet a handle of the next one.

`Told` needs a prompt driver:

* `BlockWaits`: a handle is in use only in a call that was connected, and then a
  request or a confirmation is on its way for it.
* `PhaseFits`: the application was told nothing out of order (`phase` is not
  "error"), and of a connection only while the channel has one.
* `LogicalFits`: the driver ends a logical connection before the physical one, and
  once. `Quiet` says from where in the unread reports on no second
  DISCONNECT_B3_IND comes; this is why DisconnectInquiry is called once.

The proof has three layers. The first part of `ChannelHandlerProofs` says which
members an operation writes: the record has 23 of them, and the lemmas put them in the groups that
operations leave alone (`SameLine`, `SameCall`, `SameWish`, `SameFax`).
Its second part has a lemma per handler: it makes a turn (`Turn`), that is
it keeps `Fits`, `Answers` the main thread as it must, does not forget a reset
(`Sticks`), and keeps `Owned`; and it says what the handler makes of the call:
goes `Onward`, `Opens` or `Joins` one, `Closes` it, `Confirms` a block, `PutsFrame`.
`ChannelProofs` adds the driver (`Says`, `Silent`: what a step of the driver may
report) and the queues: there is a lemma for each of the six about `Lives`
(`LivesOnward`, `LivesOpens` and so on), and one per action, which also `Tells` the
application no more than `CallLife` allows. TLC checked `Inv` on the instances of
section 3 and on larger ones before.

`NoOrphanCall` speaks of empty queues and is far from inductive. `Minds` says of
each connection of the driver, while the channel is not giving its registration
up, what is on its way for it:

* `Once`: the reports that it is up (CONNECT_CONF, CONNECT_IND) and that it is down
  (DISCONNECT_IND) come once and in this order, before the first is read no
  request accepts the connection or lets go of it, and there is one
  DISCONNECT_RESP, after the answer that accepts it, when the channel has lost the
  PLCI.
* `Attended`, by the driver's state of the connection: one that is ringing or up is
  the channel's, or its report is still unread, or the CONNECT_RESP that refuses it
  is on its way; one that is down waits for a report that is unread or for a
  DISCONNECT_RESP on its way; and no DISCONNECT_RESP finds a connection that is not
  down.

An operation either adds requests that neither accept nor let go (`Minded`, through
all the calls of ResetChannel, CheckListen and DisconnectReq into one another) or
is the handler of a report that `Attends` to the connection it names; a step of the
driver moves each connection along one edge (`Moved`). `Minds` was checked with TLC
on the instances of section 3, and with three calls, before it was proved.

The attempt to prove `CallOwner` showed that it was stated too strongly: in
faxsend a Send can activate the channel while the CAPI thread of the previous
one has yet to end (`Releasing`), or between the two calls of RELEASE_COMPLETE;
the call then registers anew. With two faxes and one failure TLC did not meet
this, with three it does. `CallOwner` now says so.

Only model-checked: liveness under fairness, which is outside TLAPS; the filters and
the modules of the library, which would need induction over lists and texts. `CapiStruct` and `CapiMessage`
have RECURSIVE operators and are for TLC alone.

## 6. What is not modelled

* CapiStart and CapiStop (`m_ManualRegister`), Disconnect Hard and Wait, DTMF,
  suspend and resume, supplementary services, SELECT_B_PROTOCOL, ALERT,
  RESET_B3: neither program uses them, or only as a variant of the modelled path.
* Synchronous errors of `capi20_put_message` other than an unknown id, failure of
  `pthread_create`, running out of memory.
* Interleavings inside one handler of `Channel`, except the ends of
  RELEASE_COMPLETE, the SendData loop and a thread that is already in
  `capi20_get_message` when it is told to stop. The SIGALRM handler interrupts
  between handlers there; at the grain of statements it is in `PutQueue` and
  `TimerList` only, there as the source writes them and not as a compiler may
  reorder them, and not beyond the first step on a changed list. A previous CAPI thread has finished RELEASE_COMPLETE before
  its successor ends.
* In `RecvDevice`: a signal that arrives during a walk, during StartReceive or on
  a CAPI thread; uses of a deleted receiver (StopReceive or StartReceive called on it).
* Crashes of the program between two steps: nothing reads back what a program
  left behind, except qfiles (`QFileTellsResult`) and the counter files.
* The codes of fax lines, TIFF tags, `huf2ftif`; the structure formats ARRAY,
  MULTIPLY, PACKET and MSGLEN, which no message uses; byte queues.
* setitimer, time zones and anything about real time; log texts, usage texts, the daemon,
  permissions, build and packaging.

## 7. What is left

* `SizeIsNeeded`, `DDIsAccepted`, `OkayMeansDelivered`, `DeviceNotUsedAfterDelete`
  and the other properties of section 4 are to become invariants of the runs,
  without `Else`, when the code is changed; so is `AssertDDIPrefix`.
* Theorems: `PtrList` against `ListSeq` with chains as least closed sets, as in
  `CallsProofs`.
* SELECT_B_PROTOCOL and the services, should a program come to use them.
