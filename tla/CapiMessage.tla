----------------------------- MODULE CapiMessage -----------------------------
(***************************************************************************)
(* The messages between a channel and CAPI (src/capi/CCSMesg.h, CCSParam.h)*)
(* and the structures a channel keeps from one call to the next, which its *)
(* user changes in between: B protocol, own number, additional info, NCPI. *)
(* AllocAndPutMsg makes bytes of them, GetMessage reads what CAPI sends.   *)
(***************************************************************************)
EXTENDS CapiStruct

CONSTANTS
  Strings,     \* numbers and header lines, sequences of bytes
  Infos,       \* raw additional info and CAPI's structures
  InfoFields   \* bound: the additional info that is set, of 1 .. 5

VARIABLES
  bprotocol,   \* m_BProtocol
  sMSN,        \* m_sMSN
  addinfo,     \* m_AdditionalInfo
  ncpiOut,     \* m_NCPIout
  last         \* the message last put or read

msgVars == <<bprotocol, sMSN, addinfo, ncpiOut, last>>

-----------------------------------------------------------------------------
(* CCSParam.h                                                              *)
content_string(str) == Of(<<String>>, <<str>>)
callednumber(num) == Of(<<Bytes(1), String>>, <<<<128>>, num>>)
callingnumber(num) == Of(<<Bytes(2), String>>, <<Zeros(2), num>>)

G3Fax == <<4, 0>>
G3FaxExtended == <<5, 0>>

bprotocol_store ==
  Of(<<Word, Word, Word, Struct, Struct, Struct, Struct>>,
     <<Zeros(2), Zeros(2), Zeros(2), To(Raw(<<>>)), To(Raw(<<>>)), To(Raw(<<>>)),
       To(Raw(<<>>))>>)

(* MaximumBitRate .. StopBits, Options and SpeedNegotiation, TransmitLevel *)
b1configuration_all(rate) == Of(<<Bytes(8), Ignore, Bytes(2)>>, <<rate, <<>>, Zeros(2)>>)

b3configuration_faxext(station, head) ==
  Of(<<Bytes(2), Zero(2), Struct, Struct>>,
     <<<<3, 0>>, <<>>, To(content_string(station)), To(content_string(head))>>)

(* Five structures, but the format has four.                               *)
addinfo_store ==
  Of(<<Struct, Struct, Struct, Struct>>, [i \in 1 .. 5 |-> To(Raw(<<>>))])

ncpi_faxext == Of(<<Zero(2), Bytes(2), Zero(5)>>, <<<<>>, <<1, 0>>, <<>>>>)

(* Rate, Options, Resolution or not, Format and Pages, the id.             *)
ncpi_all(prot) ==
  IF prot = G3Fax
  THEN Of(<<Bytes(2), Ignore, Bytes(6), Ignore, Struct>>,
          <<Zeros(2), <<>>, Zeros(6), <<>>, To(Raw(<<>>))>>)
  ELSE Of(<<Bytes(2), Ignore, Bytes(2), Ignore, Bytes(4), Ignore, Struct>>,
          <<Zeros(2), <<>>, Zeros(2), <<>>, Zeros(4), <<>>, To(Raw(<<>>))>>)

-----------------------------------------------------------------------------
(* CCSMesg.h: what is put                                                  *)
connectreq(cip, called, calling, prot, info) ==
  Message(<<Word, Struct, Struct, Struct, Struct, Struct, Zero(3), Struct>>,
          <<cip, called, calling, Null, Null, prot, <<>>, info>>)
connectresp(reject, prot, number, info) ==
  Message(<<Word, Struct, Struct, Struct, ZStruct, Struct>>,
          <<reject, prot, number, Null, <<>>, info>>)
connectb3resp(reject, ncpi) == Message(<<Word, Struct>>, <<reject, ncpi>>)
listenreq(masks, number) == Message(<<Bytes(12), Struct, ZStruct>>, <<masks, number, <<>>>>)
datab3req(handle) == Message(<<Zero(4), Bytes(14)>>, <<<<>>, handle \o Zeros(12)>>)

(* and what is read, each with empty raw structures, as the object on the  *)
(* stack of GetMessage is.                                                 *)
Empty == To(Raw(<<>>))
addinfo_ref == addinfo_store
connectind ==
  Message(<<Word, Struct, Struct, Struct, Struct, ZStruct, ZStruct, ZStruct, Struct>>,
          <<Zeros(2), Empty, Empty, Empty, Empty, <<>>, <<>>, <<>>, To(addinfo_ref)>>)
connectactiveind == Message(<<Struct, Struct>>, <<Empty, Empty>>)
disconnectb3ind == Message(<<Word, Struct>>, <<Zeros(2), Empty>>)
facilityind == Message(<<Word, Struct>>, <<Zeros(2), Empty>>)
infoind == Message(<<Bytes(2), Struct>>, <<Zeros(2), Empty>>)
facilityconf == Message(<<Word, Word, Struct>>, <<Zeros(2), Zeros(2), Empty>>)
datab3conf == Message(<<Bytes(2), Word>>, <<Zeros(2), Zeros(2)>>)
manufacturer == Message(<<Bytes(12), Struct>>, <<Zeros(12), Empty>>)
datab3ind == datab3req(Zeros(2))

Read == {connectind, connectactiveind, disconnectb3ind, facilityind, infoind,
         facilityconf, datab3conf, manufacturer, datab3ind}

-----------------------------------------------------------------------------
Nothing == [way |-> "none"]

MsgInit ==
  /\ bprotocol = bprotocol_store
  /\ sMSN = callingnumber(<<>>)
  /\ addinfo = addinfo_store
  /\ ncpiOut = Raw(<<>>)
  /\ last = Nothing

(* Channel.h: the protocol follows its configuration, which takes the bytes*)
(* of the structure that it is given.                                      *)
SetB1Parameters(prot, config) ==
  /\ bprotocol' = [bprotocol EXCEPT !.data[1] = prot,
                                    !.data[4] = To(ParseStruct(@[1], config).s)]
  /\ last' = Nothing
  /\ UNCHANGED <<sMSN, addinfo, ncpiOut>>

SetB3Parameters(prot, config) ==
  /\ bprotocol' = [bprotocol EXCEPT !.data[3] = prot,
                                    !.data[6] = To(ParseStruct(@[1], config).s)]
  /\ last' = Nothing
  /\ UNCHANGED <<sMSN, addinfo, ncpiOut>>

SetOwnNumber(number) ==
  /\ sMSN' = [sMSN EXCEPT !.data[2] = number]
  /\ last' = Nothing
  /\ UNCHANGED <<bprotocol, addinfo, ncpiOut>>

SetAdditionalInfo(i, info) ==
  /\ addinfo' = [addinfo EXCEPT !.data[i] = To(ParseStruct(@[1], info).s)]
  /\ last' = Nothing
  /\ UNCHANGED <<bprotocol, sMSN, ncpiOut>>

SetNCPI ==
  /\ ncpiOut' = ParseStruct(ncpiOut, ncpi_faxext).s
  /\ last' = Nothing
  /\ UNCHANGED <<bprotocol, sMSN, addinfo>>

(* AllocAndPutMsg: the size goes into the header, then the buffer is filled*)
Puts(sized, params) ==
  last' = [way |-> "put", slen |-> Size(sized), bytes |-> FillBuffer(sized), params |-> params]

ConnectReq(number) ==
  LET params == connectreq(<<17, 0>>, To(callednumber(number)), To(sMSN), To(bprotocol), To(addinfo))
      sized == Sized(params)
  IN  /\ Puts(sized, params)
      /\ sMSN' = sized.data[3][1] /\ bprotocol' = sized.data[6][1]
      /\ addinfo' = sized.data[8][1]
      /\ UNCHANGED ncpiOut

AnswerCall(number) ==
  LET params == connectresp(Zeros(2), To(bprotocol),
                  IF number = <<>> THEN Null ELSE To(callingnumber(number)), To(addinfo))
      sized == Sized(params)
  IN  /\ Puts(sized, params)
      /\ bprotocol' = sized.data[2][1] /\ addinfo' = sized.data[6][1]
      /\ UNCHANGED <<sMSN, ncpiOut>>

(* SELECT_B_PROTOCOL_REQ and CONNECT_B3_REQ: the structure is the message. *)
SelectBProtocolReq ==
  /\ bprotocol' = Sized(bprotocol)
  /\ Puts(bprotocol', bprotocol)
  /\ UNCHANGED <<sMSN, addinfo, ncpiOut>>

ConnectB3 ==
  /\ \/ Puts(ncpiOut, ncpiOut)
     \/ LET params == connectb3resp(Zeros(2), To(ncpiOut)) IN Puts(Sized(params), params)
  /\ UNCHANGED <<bprotocol, sMSN, addinfo, ncpiOut>>

(* LISTEN_REQ, DATA_B3_REQ.                                                *)
PutsOther ==
  /\ \E params \in {listenreq(Zeros(12), Null), datab3req(<<1, 0>>)} : Puts(Sized(params), params)
  /\ UNCHANGED <<bprotocol, sMSN, addinfo, ncpiOut>>

(* What CAPI may say in a message: each structure is empty, short or long, *)
(* those that the program passes over as well.                             *)
Say(m, info) ==
  [m EXCEPT !.data = [i \in DOMAIN @ |->
     CASE m.fmt[i].kind = "bytes" -> [k \in 1 .. m.fmt[i].n |-> k]
       [] m.fmt[i].kind = "struct" ->
            IF m.data[i][1].raw THEN To(Raw(info))
            ELSE To([m.data[i][1] EXCEPT !.data = [k \in DOMAIN @ |-> To(Raw(info))]])
       [] m.fmt[i].kind = "zstruct" -> To(Raw(info))
       [] OTHER -> @[i]]]

Said(m, passed, wide) ==
  LET Spoken(s) == IF wide THEN WideWire(s) ELSE Wire(s)
  IN  FlattenSeq([i \in Fields(m) |->
        IF m.fmt[i].kind = "zstruct" THEN Spoken(Raw(passed))
        ELSE IF IsStruct(m, i) THEN Spoken(m.data[i][1])
        ELSE FillField(m.fmt[i], m.data[i])])

(* GetMessage: the body of the message is read.                            *)
GetMessage(m) ==
  /\ \E info \in Infos, passed \in Infos, wide \in BOOLEAN :
       LET want == Say(m, info)
           bytes == Said(want, passed, wide)
       IN  \E cut \in IF m = datab3ind THEN {Len(bytes)} ELSE 0 .. Len(bytes) :
             LET r == ParseBuffer(m, SubSeq(bytes, 1, cut), cut)
             IN  last' = [way |-> "read", want |-> want, passed |-> passed, wide |-> wide,
                          cut |-> cut, got |-> r.s, fresh |-> m, ok |-> r.ok]
  /\ UNCHANGED <<bprotocol, sMSN, addinfo, ncpiOut>>

(* ConnectB3ActiveInd and DisconnectB3Ind: the NCPI of the B3 protocol.    *)
ReadsNCPI ==
  /\ \E prot \in {G3Fax, G3FaxExtended}, info \in Infos :
       LET want == Say(ncpi_all(prot), info)
           bytes == Body(want)
       IN  \E cut \in 1 .. Len(bytes) :
             LET r == ParseStruct(ncpi_all(prot), Raw(SubSeq(bytes, 1, cut)))
             IN  last' = [way |-> "read", want |-> want, passed |-> <<>>, wide |-> FALSE,
                          cut |-> cut, got |-> r.s, fresh |-> ncpi_all(prot), ok |-> r.ok]
  /\ UNCHANGED <<bprotocol, sMSN, addinfo, ncpiOut>>

Out ==
  \/ \E station \in Strings, head \in Strings :
       SetB3Parameters(G3FaxExtended, b3configuration_faxext(station, head))
  \/ SetB1Parameters(G3Fax, b1configuration_all(Zeros(8)))
  \/ \E number \in Strings : SetOwnNumber(number) \/ ConnectReq(number) \/ AnswerCall(number)
  \/ \E i \in InfoFields, info \in Infos : SetAdditionalInfo(i, Raw(info))
  \/ SetNCPI \/ SelectBProtocolReq \/ ConnectB3 \/ PutsOther

Reads == ReadsNCPI \/ \E m \in Read : GetMessage(m)

MsgNext == Out \/ Reads

MsgSpec == MsgInit /\ [][MsgNext]_msgVars

-----------------------------------------------------------------------------
(* A structure whose size is kept though what is in it has another one now.*)
RECURSIVE Stale(_)
Stale(s) ==
  \/ ~s.raw /\ s.len # 0 /\ s.len # Len(Body(s))
  \/ \E i \in Fields(s) : IsStruct(s, i) /\ Stale(s.data[i][1])

(* A message that is put has the length that its header says and each      *)
(* structure in it the length in front of it, with what the user set last: *)
(* unless a structure was changed after its size had been taken, which     *)
(* nothing makes CCStruct forget (see the README).                         *)
SentAsSetElse ==
  last.way = "put" /\ ~Stale(last.params) =>
    last.bytes = Wire(last.params) /\ last.slen = Len(last.bytes)

(* CalcStructSize "returns the needed size of the Buffer", as CCStruct.h   *)
(* has it.                                                                 *)
SizeIsNeeded == last.way = "put" => last.slen = Len(last.bytes)

(* The bytes of the fields up to i.                                        *)
UpTo(i) ==
  Len(Said([last.want EXCEPT !.fmt = SubSeq(@, 1, i)], last.passed, last.wide))

(* What is in a message is read, however CAPI fills the structures that are*)
(* passed over and in however many bytes it writes a length; a message     *)
(* that ends early gives the fields that it has, and the others as they    *)
(* were.                                                                   *)
UnderstoodAsSaid ==
  last.way = "read" =>
    \A i \in Fields(last.want) : last.want.fmt[i].kind \in {"bytes", "struct"} =>
      LET got == FillField(last.want.fmt[i], last.got.data[i]) IN
      IF UpTo(i) <= last.cut
      THEN Wire([last.got EXCEPT !.fmt = <<@[i]>>, !.data = <<@[i]>>])
           = Wire([last.want EXCEPT !.fmt = <<@[i]>>, !.data = <<@[i]>>])
      ELSE ~last.ok /\ (i > 1 /\ UpTo(i - 1) > last.cut => last.got.data[i] = last.fresh.data[i])
=============================================================================
