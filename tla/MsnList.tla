------------------------------ MODULE MsnList ------------------------------
(***************************************************************************)
(* Which calls a receiver takes: the list that the configuration file makes*)
(* (CFaxReceiveDevice::Config, CCntrlMSNList), the copy that every receiver*)
(* gets of it, and what CONNECT_IND and INFO_IND are answered by it.       *)
(*                                                                         *)
(* The copy has COneMultiStrings for the CMSNRanges of the list: the end of*)
(* a range is read from behind the object there.  That finds no end, ends  *)
(* the program, or finds something (call.chance).                          *)
(***************************************************************************)
EXTENDS Integers, SequencesExt

CONSTANTS
  Configs,   \* the controller sections of configuration files
  Called     \* the numbers that are called

(* An entry of IncomingMSNs or IncomingDDIs: a number, or a range.         *)
NoEnd == <<>>
One(number) == [first |-> number, end |-> NoEnd]
To2(number, end) == [first |-> number, end |-> end]

VARIABLES
  config,      \* the sections of the file
  msnList,     \* CIPMSNList, its CControllerInfos
  globalCall,  \* AllowGlobalCall
  copy,        \* m_pMSNList of a receiver
  listening,   \* the CIP masks of LISTEN_REQ
  call         \* the receiver's call

msnVars == <<config, msnList, globalCall, copy, listening, call>>

-----------------------------------------------------------------------------
(* The order of numbers                                                    *)

a_compare(x, y) == IF x < y THEN "lower" ELSE IF x = y THEN "equal" ELSE "higher"

(* Of numbers that are equally long.                                       *)
s_strncmp(x, y) ==
  IF x = y THEN "equal"
  ELSE LET i == SelectInSeq([k \in DOMAIN x |-> x[k] # y[k]], LAMBDA b : b)
       IN  a_compare(x[i], y[i])

NumComp(x, y) ==
  IF y = NoEnd THEN "higher"
  ELSE IF Len(x) # Len(y) THEN a_compare(Len(x), Len(y)) ELSE s_strncmp(x, y)

EndDigits(x, n) == SubSeq(x, Len(x) - n + 1, Len(x))

(* The end of the called number decides, or the end of the MSN.            *)
MSNComp(x, called) ==
  LET n == IF Len(x) < Len(called) THEN Len(x) ELSE Len(called)
  IN  s_strncmp(EndDigits(x, n), EndDigits(called, n))

DDIComp(x, ddi) ==
  IF Len(x) > Len(ddi) THEN "higher" ELSE s_strncmp(x, SubSeq(ddi, 1, Len(x)))

-----------------------------------------------------------------------------
(* The list.  It is sorted by the controllers.                             *)

ControllerInfo(c) ==
  [controller |-> c, calledParty |-> FALSE, cip |-> {}, ddiLen |-> 0, prefix |-> <<>>,
   msns |-> <<>>]

Knows(list, c) == \E i \in DOMAIN list : list[i].controller = c

(* FindHigher.                                                             *)
At(list, c) == SelectInSeq(list, LAMBDA e : e.controller = c)

(* AddFromLow.                                                             *)
AddController(list, info) ==
  LET i == SelectInSeq(list, LAMBDA e : e.controller > info.controller)
  IN  IF i = 0 THEN Append(list, info) ELSE InsertAt(list, i, info)

Set(list, c, cip) ==
  LET l == IF Knows(list, c) THEN list ELSE AddController(list, ControllerInfo(c))
      e == l[At(l, c)]
  IN  [l EXCEPT ![At(l, c)].cip = cip,
                ![At(l, c)].calledParty = e.ddiLen > 0 \/ e.prefix # <<>>]

SetDDI(list, c, prefix, ddiLen) ==
  [list EXCEPT ![At(list, c)].prefix = prefix,
               ![At(list, c)].ddiLen = ddiLen,
               ![At(list, c)].calledParty = ddiLen > 0 \/ prefix # <<>>]

(* A range that Alloc_CntrlInfo_MSNRange makes an entry of.                *)
IsRange(e) ==
  e.end # NoEnd => Len(e.first) = Len(e.end) /\ NumComp(e.first, e.end) = "lower"

(* ArrayFindFunc_Range.                                                    *)
FindRange(e, new) ==
  CASE NumComp(e.first, new.first) = "equal" -> "error"
    [] NumComp(e.first, new.first) = "higher" ->
         IF NumComp(e.first, new.end) # "higher" THEN "error" ELSE "cancel"
    [] NumComp(e.first, new.first) = "lower" ->
         IF e.end # NoEnd /\ NumComp(e.end, new.first) # "lower" THEN "error" ELSE "no"

(* The new range comes before the first that is higher; equal or overlapping*)
(* ranges are left out.                                                    *)
AddMSN(msns, new) ==
  LET i == SelectInSeq(msns, LAMBDA e : FindRange(e, new) # "no")
  IN  CASE ~IsRange(new) -> msns
        [] IsRange(new) /\ i = 0 -> Append(msns, new)
        [] IsRange(new) /\ i > 0 ->
             IF FindRange(msns[i], new) = "cancel" THEN InsertAt(msns, i, new) ELSE msns

(* A section of the file; another one of the same controller is ignored.   *)
ConfigSection(cf, section) ==
  LET c == section.controller
      set == Set(cf.list, c, section.cip)
      ddi == IF section.useDDI THEN SetDDI(set, c, section.prefix, section.ddiLen) ELSE set
  IN  IF c = 0 \/ Knows(cf.list, c) THEN cf
      ELSE [list |-> [ddi EXCEPT ![At(ddi, c)].msns = FoldLeft(AddMSN, <<>>, section.numbers)],
            global |-> section.global]

-----------------------------------------------------------------------------
(* The copy                                                                *)

NoCall == [at |-> "none", controller |-> 0, number |-> <<>>, told |-> 0, got |-> 0,
           prefixLen |-> 0, chance |-> FALSE]

(* CControllerInfo's copy constructor.                                     *)
CopyInfo(info) == [info EXCEPT !.msns = [i \in DOMAIN @ |-> One(@[i].first)]]

(* What the program makes of m_End of an entry of the copy.                *)
EndRead == {"none", "higher", "crash"}

(* FindFwd with ArrayFindFunc_MSN or ArrayFindFunc_DDI, of which stops says*)
(* whether a higher entry ends the walk; read is what is behind the entries*)
Walk(msns, Comp(_), stops, read) ==
  LET i == SelectInSeq(msns, LAMBDA e :
             \/ Comp(e.first) = "equal" \/ (Comp(e.first) = "higher" /\ stops)
             \/ Comp(e.first) = "lower" /\ read # "none")
  IN  IF i = 0 THEN "no"
      ELSE CASE Comp(msns[i].first) = "equal" -> "yes"
             [] Comp(msns[i].first) = "higher" -> "no"
             [] Comp(msns[i].first) = "lower" -> IF read = "higher" THEN "chance" ELSE "crash"

FindMSNStops(msns, called, read) ==   \* Bug: a higher MSN ends the walk
  Walk(msns, LAMBDA x : MSNComp(x, called), TRUE, read)
FindMSN(msns, called, read) == Walk(msns, LAMBDA x : MSNComp(x, called), FALSE, read)

FindDDI(msns, ddi, read) == Walk(msns, LAMBDA x : DDIComp(x, ddi), TRUE, read)

(* s_findstring counts the rest of the number up: it looks on behind a     *)
(* number that does not have the prefix, until something there has it.     *)
Occurs(prefix, number) == {k \in 0 .. Len(number) - Len(prefix) :
                            SubSeq(number, k + 1, k + Len(prefix)) = prefix}

DDIPrefixLen(prefix, number) ==
  IF number = <<>> \/ prefix = <<>> \/ Len(prefix) > Len(number) THEN 0
  ELSE IF Occurs(prefix, number) = {} THEN Len(number) + 1
  ELSE Len(prefix) + CHOOSE k \in Occurs(prefix, number) :
                       \A j \in Occurs(prefix, number) : k <= j

TestDDINumber(info, ddi, read) ==
  IF info.msns = <<>> THEN IF Len(ddi) >= info.ddiLen THEN "yes" ELSE "no"
  ELSE FindDDI(info.msns, ddi, read)

FindCallInfo(info, called, global, read) ==
  CASE called # <<>> -> IF info.msns = <<>> THEN "yes" ELSE FindMSN(info.msns, called, read)
    [] called = <<>> -> IF global THEN "yes" ELSE "no"

(* GetNextMask: what is not taken, is not listened to.                     *)
GetNextMask(list) ==
  SelectSeq(list, LAMBDA e : ~(e.calledParty /\ e.ddiLen = 0 /\ e.msns = <<>>))

-----------------------------------------------------------------------------
MsnInit ==
  /\ config = <<>> /\ msnList = <<>> /\ globalCall = TRUE
  /\ copy = <<>> /\ listening = <<>> /\ call = NoCall

Config(sections) ==
  LET cf == FoldLeft(ConfigSection, [list |-> msnList, global |-> globalCall], sections)
  IN  /\ config = <<>> /\ config' = sections
      /\ msnList' = cf.list /\ globalCall' = cf.global
      /\ UNCHANGED <<copy, listening, call>>

(* SetMSNList, which makes the receiver listen.                            *)
SetMSNList ==
  /\ config # <<>> /\ copy = <<>>
  /\ copy' = [i \in DOMAIN msnList |-> CopyInfo(msnList[i])]
  /\ listening' = GetNextMask(copy')
  /\ UNCHANGED <<config, msnList, globalCall, call>>

Answered(answer) ==
  CASE answer = "yes" -> [at |-> "accepted", chance |-> FALSE]
    [] answer = "chance" -> [at |-> "accepted", chance |-> TRUE]
    [] answer = "crash" -> [at |-> "crash", chance |-> TRUE]
    [] answer = "no" -> [at |-> "ignored", chance |-> FALSE]

(* ConnectInd; the message may tell a part of the number only.             *)
ConnectInd(i, cip, number, told) ==
  LET info == copy[At(copy, listening[i].controller)]
      called == SubSeq(number, 1, told)
      this == [NoCall EXCEPT !.controller = info.controller, !.number = number, !.told = told]
  IN  /\ call = NoCall /\ cip \in listening[i].cip
      /\ IF info.calledParty
         THEN call' = [this EXCEPT !.at = "waiting", !.prefixLen = DDIPrefixLen(info.prefix, called)]
         ELSE \E read \in EndRead :
                LET a == Answered(FindCallInfo(info, called, globalCall, read))
                IN  call' = [this EXCEPT !.at = a.at, !.chance = a.chance]
      /\ UNCHANGED <<config, msnList, globalCall, copy, listening>>

(* InfoInd: more digits of the number, from its first one on, which        *)
(* ConnectInd did not keep.                                                *)
InfoInd(got) ==
  LET info == copy[At(copy, call.controller)]
  IN  /\ call.at = "waiting"
      /\ IF got <= call.prefixLen THEN call' = [call EXCEPT !.got = got]
         ELSE \E read \in EndRead :
                LET a == Answered(TestDDINumber(info,
                           SubSeq(call.number, call.prefixLen + 1, got), read))
                IN  call' = [call EXCEPT !.got = got, !.chance = a.chance,
                                         !.at = IF a.at = "ignored" THEN @ ELSE a.at]
      /\ UNCHANGED <<config, msnList, globalCall, copy, listening>>

CallEnds ==
  /\ call.at \in {"accepted", "ignored", "waiting"} /\ call' = NoCall
  /\ UNCHANGED <<config, msnList, globalCall, copy, listening>>

MsnNext ==
  \/ \E sections \in Configs : Config(sections)
  \/ SetMSNList
  \/ \E i \in DOMAIN listening, cip \in {"fax", "speech"}, number \in Called :
       \E told \in {0, Len(number) - 1, Len(number)} : ConnectInd(i, cip, number, told)
  \/ \E got \in call.got + 1 .. Len(call.number) : InfoInd(got)
  \/ CallEnds

-----------------------------------------------------------------------------
(* However the entries of the file come, the numbers of a controller are in*)
(* their order and none belongs to two entries: by the comparisons a later *)
(* entry is higher than the end of one before.                             *)
RangesApart ==
  \A i \in DOMAIN msnList : LET m == msnList[i].msns IN
    \A j \in DOMAIN m, k \in DOMAIN m : j < k =>
      /\ NumComp(m[j].first, m[k].first) = "lower"
      /\ m[j].end # NoEnd => NumComp(m[j].end, m[k].first) = "lower"

(* What the section of the call's controller says of a number.             *)
Section == config[SelectInSeq(config, LAMBDA s : s.controller = call.controller)]

Numbers(s) == {s.numbers[i] : i \in DOMAIN s.numbers}

EndOf(x, y) == Len(x) <= Len(y) /\ EndDigits(y, Len(x)) = x

Covers(e, ddi) ==
  /\ IsRange(e)
  /\ \/ IsPrefix(e.first, ddi)
     \/ /\ e.end # NoEnd /\ Len(e.end) <= Len(ddi)
        /\ NumComp(SubSeq(ddi, 1, Len(e.end)), e.first) # "lower"
        /\ NumComp(SubSeq(ddi, 1, Len(e.end)), e.end) # "higher"

TakesMSN(s, number) ==
  \/ s.numbers = <<>>
  \/ \E e \in Numbers(s) : EndOf(e.first, number) \/ EndOf(number, e.first)

TakesDDI(s, ddi) ==
  \/ s.numbers = <<>> /\ Len(ddi) >= s.ddiLen
  \/ \E e \in Numbers(s) : Covers(e, ddi)

(* The digits behind the prefix that are there.                            *)
Extension == SubSeq(call.number, call.prefixLen + 1, call.got)

(* What goes wrong with what a section lists (see the README).             *)
ListsRange(s) == \E e \in Numbers(s) : e.end # NoEnd
UsesDDI(s) == s.useDDI /\ (s.prefix # <<>> \/ s.ddiLen > 0)
MixesLengths(s) == \E e, f \in Numbers(s) : Len(e.first) # Len(f.first)
PrefixTold(s) ==
  s.prefix # <<>> => Occurs(s.prefix, SubSeq(call.number, 1, call.told)) # {}

(* A call is taken if the file lists its number, however the entries come  *)
(* and the list and its copy are made, and only then: with a DDI number as *)
(* soon as the digits that make it one of the list are there.  The section *)
(* lists no range and no DDI numbers of several lengths, the prefix is in  *)
(* what CONNECT_IND tells, and nothing is found behind the entries.        *)
TakesListedElse ==
  call.at \in {"accepted", "ignored", "waiting"} /\ ~call.chance /\ ~ListsRange(Section) =>
    IF UsesDDI(Section)
    THEN MixesLengths(Section) \/ ~PrefixTold(Section) \/
         (call.at = "accepted" <=> Extension # <<>> /\ TakesDDI(Section, Extension))
    ELSE call.told > 0 =>
         (call.at = "accepted" <=> TakesMSN(Section, SubSeq(call.number, 1, call.told)))

(* Numbers that are listed apart are found as they are listed.             *)
AnswersByList == RangesApart /\ TakesListedElse

(* sample_config.faxCAPI: "In IncomingDDIs, all extension numbers (DDIs)   *)
(* for which calls are to be accepted may be listed, separated by commas.  *)
(* It is also possible to specify a range".                                *)
DDIsAccepted ==
  call.at = "waiting" /\ UsesDDI(Section) /\ PrefixTold(Section) /\ Extension # <<>> =>
    ~TakesDDI(Section, Extension)

(* Channel.cpp:1014 says of a call whose DDI digits are awaited:           *)
(* "dassert (m_DDIPrefixLen > 0);".  FindCallInfo leaves 0 where the file  *)
(* has no prefix (DDIOffset) or the call has not told as many digits yet.  *)
AssertDDIPrefix == call.at = "waiting" => call.prefixLen > 0
=============================================================================
