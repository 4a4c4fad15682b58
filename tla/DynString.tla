----------------------------- MODULE DynString ------------------------------
(***************************************************************************)
(* CDynamicString (src/standard/CString.cpp and .h) and the paths of       *)
(* CPathName: a buffer that grows, a length, and a terminator that the C   *)
(* functions which get the pointer rely on.  A character is a string of    *)
(* length 1; positions count from 0, as in the code.                       *)
(***************************************************************************)
EXTENDS Integers, Sequences, FiniteSets

CONSTANTS
  Strings,      \* the texts that callers hand in
  RemoveSets,   \* the sets of characters that callers have removed
  Fillers,      \* the characters that callers fill with
  Slash,        \* CPathName::m_Delimiter
  Terminator,          \* '\0'
  Junk,         \* a character of a new buffer before it is written
  Offset,       \* CSTRING_RESIZE_ALLOCATE_OFFSET
  MaxText       \* bound: no call makes a text longer than this

VARIABLES
  str,          \* pntr's buffer (<<>>: no buffer; its length is maxSize), curLen
  done          \* history: the last call

stringVars == <<str, done>>

Text == SubSeq(str.buf, 1, str.len)

-----------------------------------------------------------------------------
(* The buffer                                                              *)

Empty == [buf |-> <<>>, len |-> 0]

(* s_strncpy, s_strset, s_strmov: the characters of s from position p on.  *)
Put(buf, p, s) ==
  [i \in DOMAIN buf |-> IF i - p \in DOMAIN s THEN s[i - p] ELSE buf[i]]

(* Resize: a new buffer takes the text and its terminator.                 *)
Resize(x, newMaxSize) ==
  LET kept == IF x.buf = <<>> THEN <<Terminator>> ELSE SubSeq(x.buf, 1, x.len + 1)
  IN  [x EXCEPT !.buf = Put([i \in 1 .. newMaxSize |-> Junk], 0, kept)]

(* DynExpand where the text with its terminator does not fit.              *)
Room(x, endPos) ==
  LET more == Len(x.buf) + Offset
  IN  IF endPos >= Len(x.buf)
        THEN Resize(x, IF more > endPos + 1 THEN more ELSE endPos + 1)
        ELSE x

(* The end of Change and Fill: a text that grew has a new end.             *)
Terminate(x, endPos) ==
  IF endPos > x.len THEN [buf |-> Put(x.buf, endPos, <<Terminator>>), len |-> endPos] ELSE x

-----------------------------------------------------------------------------
(* The methods: what each leaves                                           *)

Changed(x, s, at) ==
  LET r == Room(x, at + Len(s))
  IN  Terminate([r EXCEPT !.buf = Put(r.buf, at, s)], at + Len(s))

Appended(x, s) == Changed(x, s, x.len)

RemovedAll(x) ==
  IF x.len > 0 THEN [buf |-> Put(x.buf, 0, <<Terminator>>), len |-> 0] ELSE x

(* Bug: what is behind the place is not moved out of the way.              *)
InsertedOver(x, s, at) ==
  LET r == Room(x, x.len + Len(s))
      end == x.len + Len(s)
  IN  [buf |-> Put(Put(r.buf, at, s), end, <<Terminator>>), len |-> end]

Inserted(x, s, at) ==
  LET end == x.len + Len(s)
      r   == Room(x, end)
      mov == Put(r.buf, at + Len(s), SubSeq(r.buf, at + 1, r.len))
  IN  [buf |-> Put(Put(mov, at, s), end, <<Terminator>>), len |-> end]

Filled(x, ch, n, at) == Changed(x, [i \in 1 .. n |-> ch], at)

CutTo(x, newLen) ==
  IF x.len > newLen THEN [buf |-> Put(x.buf, newLen, <<Terminator>>), len |-> newLen] ELSE x

Cut(x, n) ==
  IF x.len = 0 THEN x ELSE CutTo(x, IF x.len > n THEN x.len - n ELSE 0)

Removed(x, at, n) ==
  IF at + n >= x.len THEN CutTo(x, at)
  ELSE [buf |-> Put(x.buf, at, SubSeq(x.buf, at + n + 1, x.len + 1)), len |-> x.len - n]

(* RemoveChars of the whole text.  The second loop begins behind the first *)
(* character removed and ends with the terminator, which strchr finds in   *)
(* every set: the two make up for each other in curLen.                    *)
CharsRemoved(x, chars) ==
  LET found == {i \in 1 .. x.len : x.buf[i] \in chars}
      first == CHOOSE i \in found : \A j \in found : i <= j
      IsKept(c) == c \notin chars \cup {Terminator}
      behind == SubSeq(x.buf, first + 1, x.len + 1)
      kept == SelectSeq(behind, IsKept)
  IN  IF found = {} THEN x
      ELSE [buf |-> Put(x.buf, first - 1, Append(kept, Terminator)),
            len |-> x.len - (Len(behind) - Len(kept))]

(* CPathName::SetRelative; GetChar of an empty name is '\0'.               *)
Relative(x, name) ==
  LET first == IF name = <<>> THEN Terminator ELSE Head(name)
      dir   == CASE x.len = 0 -> x
                 [] x.len > 0 /\ x.buf[x.len] = Slash ->
                      IF first = Slash THEN Cut(x, 1) ELSE x
                 [] x.len > 0 /\ x.buf[x.len] # Slash ->
                      IF first = Slash THEN x ELSE Appended(x, <<Slash>>)
  IN  IF name = <<>> THEN dir ELSE Appended(dir, name)

(* UpperPath (1): the text up to the last delimiter.                       *)
UpperPath(x) ==
  LET slashes == {i \in 1 .. x.len : x.buf[i] = Slash}
      last    == CHOOSE i \in slashes : \A j \in slashes : j <= i
  IN  IF slashes = {} THEN x ELSE CutTo(x, last - 1)

-----------------------------------------------------------------------------
(* The calls.  The string that hands itself in is not among them: the      *)
(* buffer would be moved under the argument.                               *)

Call(c, x) == str' = x /\ done' = c

StringInit == str = Empty /\ done = [op |-> "Construct"]

Set(s) == Call([op |-> "Set", s |-> s], Appended(RemovedAll(str), s))

Change(s, at) ==
  /\ at + Len(s) <= MaxText
  /\ Call([op |-> "Change", s |-> s, at |-> at], Changed(str, s, at))

Insert(s, at) ==
  /\ str.len + Len(s) <= MaxText
  /\ Call([op |-> "Insert", s |-> s, at |-> at], Inserted(str, s, at))

Fill(ch, n, at) ==
  /\ at + n <= MaxText
  /\ Call([op |-> "Fill", ch |-> ch, n |-> n, at |-> at], Filled(str, ch, n, at))

RemovePart(at, n) ==
  Call([op |-> "Remove", at |-> at, n |-> n], Removed(str, at, n))

(* The program does it to numbers as the configuration has them.           *)
RemoveChars(chars) ==
  /\ \A i \in 1 .. str.len : str.buf[i] # Terminator
  /\ Call([op |-> "RemoveChars", chars |-> chars], CharsRemoved(str, chars))

SetLen(n) == Call([op |-> "SetLen", n |-> n], CutTo(str, n))

CutLen(n) == Call([op |-> "CutLen", n |-> n], Cut(str, n))

SetRelative(name) ==
  /\ str.len + 1 + Len(name) <= MaxText
  /\ Call([op |-> "SetRelative", s |-> name, slash |-> Slash], Relative(str, name))

GoUp == Call([op |-> "UpperPath", slash |-> Slash], UpperPath(str))

StringNext ==
  \/ \E s \in Strings : Set(s) \/ SetRelative(s)
  \/ \E s \in Strings, at \in 0 .. str.len : Change(s, at) \/ Insert(s, at)
  \/ \E ch \in Fillers, n \in 0 .. 2, at \in 0 .. str.len : Fill(ch, n, at)
  \/ \E at \in 0 .. str.len : \E n \in 0 .. str.len - at : RemovePart(at, n)
  \/ \E chars \in RemoveSets : RemoveChars(chars)
  \/ \E n \in 0 .. str.len + 1 : SetLen(n) \/ CutLen(n)
  \/ GoUp

StringSpec == StringInit /\ [][StringNext]_stringVars

-----------------------------------------------------------------------------
(* Properties                                                              *)

(* A buffer has a terminator right behind its text, whatever was cut,      *)
(* moved, overwritten or grown: the C functions that get GetPointer stop   *)
(* there.                                                                  *)
TerminatorThere ==
  str.buf # <<>> => str.len < Len(str.buf) /\ str.buf[str.len + 1] = Terminator

(* In spite of buffers that are too small, have the text of earlier calls  *)
(* behind the terminator or are new and unwritten, the string holds the    *)
(* text that the calls say, and its terminator.                            *)
AsText == INSTANCE StringText WITH text <- Text, did <- done
HoldsText == AsText!TextSpec /\ []TerminatorThere
=============================================================================
