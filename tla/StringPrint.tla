---------------------------- MODULE StringPrint -----------------------------
(***************************************************************************)
(* CDynamicString::Print (src/standard/CString.cpp, i_vPrintAppend and     *)
(* i_Print_ltoa): one pass over a format, character by character, with the *)
(* flags, the width and the precision of the placeholder it is in.  The    *)
(* programs print with it the commands that they hand to the shell and the *)
(* names of their files.  A character is a string of length 1, "bq" is the  *)
(* backquote.                                                              *)
(***************************************************************************)
EXTENDS Integers, Sequences, FiniteSets

CONSTANTS
  Jobs,         \* what is printed into one string: records with the calls
                \* (parts: format, arguments, and again, when the text so far
                \* is the format) and with what the text is to be read as
  NUL,          \* '\0'
  NoString,     \* a null pointer as the argument of a string placeholder
  BufferSize,   \* CSTRING_PRINT_BufferSize
  ShortBits,    \* the bits of tUInt16, tUInt and tUInt64
  IntBits,
  LongBits

VARIABLES
  job,          \* what is printed
  parts,        \* the calls of Print and PrintAppend still to come
  format,       \* the format of this one
  at,           \* format: the place in it
  save,         \* savepos: the first character that is not yet printed
  args,         \* argptr: the arguments not yet taken
  flags,        \* PrtFlags without ACTIVE and READY
  active,       \* PRINTFLAGS_ACTIVE: in a placeholder
  width,        \* PrtWidth
  preci,        \* PrtPreci
  tab,          \* tabsize and tabchar
  text,         \* the text of the string
  over          \* this call has returned

printVars ==
  <<job, parts, format, at, save, args, flags, active, width, preci, tab, text, over>>

Char  == format[at]
Arg   == Head(args)
Times(n, c) == [i \in 1 .. n |-> c]

-----------------------------------------------------------------------------
(* i_Print_ltoa: a number as text                                          *)

LowDigits  == <<"0", "1", "2", "3", "4", "5", "6", "7", "8", "9", "a", "b", "c", "d", "e", "f", "x">>
HighDigits == <<"0", "1", "2", "3", "4", "5", "6", "7", "8", "9", "A", "B", "C", "D", "E", "F", "X">>

Radix == [d |-> 10, i |-> 10, u |-> 10, o |-> 8, x |-> 16, X |-> 16]

DigitsFor(type) == IF type = "X" THEN HighDigits ELSE LowDigits

(* va_arg as its type reads it: 64 bits with l, 16 with h, 32 else, and    *)
(* without the sign: only a number of 64 bits can be negative.             *)
NumberArg(v) ==
  CASE "l" \in flags -> v % 2 ^ LongBits
    [] "l" \notin flags /\ "h" \in flags -> v % 2 ^ ShortBits
    [] OTHER -> v % 2 ^ IntBits

DigitText(v, type) ==
  LET rest[n \in 0 .. v] ==
        LET digit == DigitsFor(type)[(n % Radix[type]) + 1]
        IN  IF n < Radix[type] THEN <<digit>> ELSE Append(rest[n \div Radix[type]], digit)
  IN  rest[v]

IsNegative(v, type) == type \in {"d", "i"} /\ v >= 2 ^ (LongBits - 1)

(* What precedes the digits: the sign, and 0 or 0x with the flag #.        *)
Prefix(v, type) ==
  LET sign == CASE IsNegative(v, type) -> <<"-">>
                [] ~IsNegative(v, type) /\ "+" \in flags -> <<"+">>
                [] ~IsNegative(v, type) /\ "+" \notin flags /\ " " \in flags -> <<" ">>
                [] OTHER -> <<>>
      base == CASE "#" \in flags /\ Radix[type] = 16 -> <<"0", DigitsFor(type)[17]>>
                [] "#" \in flags /\ Radix[type] = 8 -> <<"0">>
                [] OTHER -> <<>>
  IN  sign \o base

Magnitude(v, type) == IF IsNegative(v, type) THEN 2 ^ LongBits - v ELSE v

(* The text of a number; a prefix that zeros would precede goes to the     *)
(* string at once and is taken off the width.                              *)
Ltoa(v, type) ==
  LET prefix == Prefix(v, type)
      digits == DigitText(Magnitude(v, type), type)
      isSplit == /\ prefix # <<>>
                 /\ "0" \in flags /\ "-" \notin flags
                 /\ width > Len(prefix) + Len(digits)
  IN  IF isSplit
        THEN [first |-> prefix, buf |-> digits, width |-> width - Len(prefix)]
        ELSE [first |-> <<>>, buf |-> prefix \o digits, width |-> width]

-----------------------------------------------------------------------------
(* A placeholder is complete                                               *)

(* Bug: only the quotation mark and the backslash are escaped.             *)
EscapedSome(buf) ==
  LET esc[i \in 0 .. Len(buf)] ==
        IF i = 0 THEN <<>>
        ELSE esc[i - 1] \o (CASE buf[i] = NUL -> <<"?">>
                              [] buf[i] \in {"\"", "\\"} -> <<"\\", buf[i]>>
                              [] OTHER -> <<buf[i]>>)
  IN  esc[Len(buf)]

(* The flag e: for a text between quotation marks in a shell command.      *)
Escaped(buf) ==
  LET esc[i \in 0 .. Len(buf)] ==
        IF i = 0 THEN <<>>
        ELSE esc[i - 1] \o (CASE buf[i] = NUL -> <<"?">>
                              [] buf[i] \in {"\"", "\\", "$", "bq"} -> <<"\\", buf[i]>>
                              [] OTHER -> <<buf[i]>>)
  IN  esc[Len(buf)]

(* What the string gets for buf: nothing at all for an empty one, else     *)
(* filled up in front (zeros, blanks) or, with the flag -, behind.         *)
Printed(buf, wide) ==
  LET fill == IF wide > Len(buf) THEN wide - Len(buf) ELSE 0
      out  == IF "e" \in flags THEN Escaped(buf) ELSE buf
  IN  CASE buf = <<>> -> <<>>
        [] buf # <<>> /\ "-" \in flags -> out \o Times(fill, " ")
        [] OTHER -> Times(fill, IF "0" \in flags THEN "0" ELSE " ") \o out

(* The end of every placeholder, READY: all is as before the next one.     *)
Ready(out, taken) ==
  /\ text' = text \o out
  /\ args' = SubSeq(args, taken + 1, Len(args))
  /\ flags' = {} /\ active' = FALSE /\ width' = 0 /\ preci' = -2
  /\ at' = at + 1 /\ save' = at + 1
  /\ UNCHANGED <<job, parts, format, over>>

Stays == UNCHANGED <<job, parts, format, save, text, tab, over>>

-----------------------------------------------------------------------------
(* In a placeholder                                                        *)

InPlaceholder == at <= Len(format) /\ active /\ ~over

FlagChars == {"-", "+", " ", "#", "?", "l", "L", "h", "e"}

Flag ==
  /\ InPlaceholder /\ Char \in FlagChars
  /\ flags' = flags \cup {IF Char = "L" THEN "l" ELSE Char}
  /\ at' = at + 1
  /\ Stays /\ UNCHANGED <<args, active, width, preci>>

DigitChars == {LowDigits[i] : i \in 1 .. 10}

(* a_strtol: the number at i and the place behind it.                      *)
NumberAt(i) ==
  LET scan[j \in i .. Len(format) + 1, n \in Nat] ==
        IF j <= Len(format) /\ format[j] \in DigitChars
          THEN scan[j + 1, 10 * n + (CHOOSE k \in 0 .. 9 : LowDigits[k + 1] = format[j])]
          ELSE [value |-> n, next |-> j]
  IN  scan[i, 0]

Digit ==
  /\ InPlaceholder /\ Char \in DigitChars
  /\ LET n == NumberAt(at)
     IN  /\ at' = n.next
         /\ IF preci = -2 THEN width' = n.value /\ preci' = preci
                          ELSE preci' = n.value /\ width' = width
  /\ flags' = IF Char = "0" /\ preci = -2 THEN flags \cup {"0"} ELSE flags
  /\ Stays /\ UNCHANGED <<args, active>>

Star ==
  /\ InPlaceholder /\ Char = "*"
  /\ IF preci = -2 THEN width' = Arg /\ preci' = preci
                   ELSE preci' = Arg /\ width' = width
  /\ at' = at + 1 /\ args' = Tail(args)
  /\ Stays /\ UNCHANGED <<flags, active>>

Dot ==
  /\ InPlaceholder /\ Char = "." /\ preci = -2
  /\ preci' = -1 /\ at' = at + 1
  /\ Stays /\ UNCHANGED <<args, flags, active, width>>

BoolType ==
  /\ InPlaceholder /\ Char = "b"
  /\ LET word == IF Arg # 0 THEN <<"T", "R", "U", "E">> ELSE <<"F", "A", "L", "S", "E">>
     IN  Ready(Printed(IF preci = 1 THEN <<Head(word)>> ELSE word, width), 1)
  /\ UNCHANGED tab

TabType ==
  /\ InPlaceholder /\ Char = "t"
  /\ tab' = [size |-> width, char |-> Arg]
  /\ Ready(<<>>, 1)

NumberType ==
  /\ InPlaceholder /\ Char \in DOMAIN Radix
  /\ LET n == Ltoa(NumberArg(Arg), Char)
     IN  Ready(n.first \o Printed(n.buf, n.width), 1)
  /\ UNCHANGED tab

(* With ? the size of a character comes before the text.                   *)
StringType ==
  /\ InPlaceholder /\ Char \in {"s", "S", "c", "p"}
  /\ LET n == IF "?" \in flags /\ Char \in {"s", "c"} THEN 2 ELSE 1
         s == IF args[n] = NoString THEN <<"[", "N", "U", "L", "L", "]">> ELSE args[n]
     IN  Ready(Printed(s, width), n)
  /\ UNCHANGED tab

(* Anything else makes a wrong placeholder, printed as it stands.          *)
WrongType ==
  /\ InPlaceholder
  /\ \/ Char \notin FlagChars \cup DigitChars \cup DOMAIN Radix
                    \cup {"*", ".", "b", "t", "s", "S", "c", "p"}
     \/ Char = "." /\ preci # -2
  /\ LET end == IF at - save + 1 > BufferSize THEN save + BufferSize - 1 ELSE at
     IN  Ready(Printed(SubSeq(format, save, end), width), 0)
  /\ UNCHANGED tab

-----------------------------------------------------------------------------
(* Between placeholders                                                    *)

InText == at <= Len(format) /\ ~active /\ ~over

Upto == SubSeq(format, save, at - 1)

(* %% is the second % as text, any other % begins a placeholder.           *)
Percent ==
  /\ InText /\ Char = "%"
  /\ text' = text \o Upto
  /\ IF at < Len(format) /\ format[at + 1] = "%"
       THEN save' = at + 1 /\ at' = at + 2 /\ active' = active
       ELSE save' = at /\ at' = at + 1 /\ active' = TRUE
  /\ UNCHANGED <<job, parts, format, args, flags, width, preci, tab, over>>

NewLine ==
  /\ InText /\ Char = "\n"
  /\ IF tab.size > 0 /\ tab.char # NUL
       THEN text' = text \o Upto \o Times(tab.size, tab.char) /\ save' = at + 1
       ELSE UNCHANGED <<text, save>>
  /\ at' = at + 1
  /\ UNCHANGED <<job, parts, format, args, flags, active, width, preci, tab, over>>

Literal ==
  /\ InText /\ Char \notin {"%", "\n"}
  /\ at' = at + 1
  /\ UNCHANGED <<job, parts, format, save, args, flags, active, width, preci, tab, text, over>>

(* The rest of the format, an incomplete placeholder too.                  *)
Finish ==
  /\ at > Len(format) /\ ~over
  /\ text' = text \o Upto /\ over' = TRUE
  /\ UNCHANGED <<job, parts, format, at, save, args, flags, active, width, preci, tab>>

-----------------------------------------------------------------------------

PrintStart(j) ==
  /\ job = j /\ parts = j.parts
  /\ format = <<>> /\ args = <<>> /\ at = 1 /\ save = 1
  /\ flags = {} /\ active = FALSE /\ width = 0 /\ preci = -2
  /\ tab = [size |-> 0, char |-> NUL] /\ text = <<>> /\ over = TRUE

PrintInit == \E j \in Jobs : PrintStart(j)

(* The next call: PrintAppend, or Print with the string's text as format   *)
(* (into another string, the program's NewName).                           *)
NextCall ==
  /\ over /\ parts # <<>>
  /\ format' = IF Head(parts).again THEN text ELSE Head(parts).format
  /\ text' = IF Head(parts).again THEN <<>> ELSE text
  /\ args' = Head(parts).args /\ parts' = Tail(parts)
  /\ at' = 1 /\ save' = 1 /\ over' = FALSE
  /\ flags' = {} /\ active' = FALSE /\ width' = 0 /\ preci' = -2
  /\ tab' = [size |-> 0, char |-> NUL]
  /\ UNCHANGED job

PrintNext ==
  \/ NextCall \/ Literal \/ Percent \/ NewLine \/ Finish
  \/ Flag \/ Digit \/ Star \/ Dot
  \/ BoolType \/ TabType \/ NumberType \/ StringType \/ WrongType

PrintSpec == PrintInit /\ [][PrintNext]_printVars

-----------------------------------------------------------------------------
(* Properties: how the text is read                                        *)

AllPrinted == over /\ parts = <<>>

Special == {"\"", "\\", "$", "bq"}

(* The words of a command as /bin/sh reads them when all of them stand in  *)
(* quotation marks.  "expands" stands for what the command must not have:  *)
(* a $ or backquote that the shell would expand, or a quotation mark       *)
(* without its partner.                                                    *)
ShellWords(t) ==
  LET read[i \in 1 .. Len(t) + 1, inside \in BOOLEAN, word \in Seq(STRING)] ==
        IF i > Len(t) THEN IF inside THEN <<<<"expands">>>> ELSE <<>>
        ELSE IF ~inside THEN read[i + 1, t[i] = "\"", <<>>]
        ELSE IF t[i] = "\"" THEN <<word>> \o read[i + 1, FALSE, <<>>]
        ELSE IF t[i] \in {"$", "bq"} THEN <<<<"expands">>>>
        ELSE IF t[i] = "\\" /\ i < Len(t) /\ t[i + 1] \in Special
          THEN read[i + 2, TRUE, Append(word, t[i + 1])]
        ELSE read[i + 1, TRUE, Append(word, t[i])]
  IN  read[1, FALSE, <<>>]

(* An argument as wide as its placeholder asks; a '\0' cannot be passed.   *)
Intended(w) ==
  LET s    == [i \in DOMAIN w.s |-> IF w.s[i] = NUL THEN "?" ELSE w.s[i]]
      fill == Times(IF s # <<>> /\ w.wide > Len(s) THEN w.wide - Len(s) ELSE 0, " ")
  IN  IF w.left THEN s \o fill ELSE fill \o s

(* The shell gets, word for word, the names, numbers and identifications   *)
(* that the receivers and the sender print into the command for a fax, of  *)
(* whatever characters they are.                                           *)
ShellReadsArguments ==
  AllPrinted /\ job.kind = "command" =>
    ShellWords(text) = [i \in DOMAIN job.words |-> Intended(job.words[i])]

Blanks(t) == {i \in DOMAIN t : t[i] = " "}

(* The number in t, with blanks around it, a sign and 0x; -1 digits when   *)
(* it is none.                                                             *)
ReadNumber(t, type) ==
  LET solid  == DOMAIN t \ Blanks(t)
      first  == CHOOSE i \in solid : \A j \in solid : i <= j
      last   == CHOOSE i \in solid : \A j \in solid : j <= i
      signed == t[first] \in {"+", "-"}
      from   == IF signed THEN first + 1 ELSE first
      hex    == Radix[type] = 16 /\ from < last /\ t[from + 1] \in {"x", "X"}
      begin  == IF hex THEN from + 2 ELSE from
      all    == {begin + k : k \in 0 .. last - begin}
      Value(c) == CHOOSE k \in 0 .. 15 : DigitsFor(type)[k + 1] = c
      IsDigit(c) == \E k \in 0 .. Radix[type] - 1 : DigitsFor(type)[k + 1] = c
      sum[i \in begin - 1 .. last] ==
        IF i < begin THEN 0 ELSE Radix[type] * sum[i - 1] + Value(t[i])
      needs(i) == i = last \/ t[i] # "0" \/ \E j \in begin .. i : t[j] # "0"
  IN  IF solid = {} \/ begin > last \/ \E i \in all : ~IsDigit(t[i])
        THEN [ok |-> FALSE]
        ELSE [ok |-> TRUE, value |-> IF t[first] = "-" THEN -sum[last] ELSE sum[last],
              sign |-> signed, hex |-> hex,
              needs |-> begin - first + Cardinality({i \in all : needs(i)})]

(* What a number's placeholder asks: the number reads back as the value    *)
(* given, in as many bits as its type has, in a text as long as the width  *)
(* or, when it needs more, as long as it needs.                            *)
NumbersAsGiven ==
  AllPrinted /\ job.kind = "number" =>
    LET ahead == Len(job.before)
        t     == SubSeq(text, ahead + 1, Len(text) - Len(job.behind))
        n     == ReadNumber(t, job.type)
        blank == IF " " \in job.flags /\ "+" \notin job.flags /\ ~n.sign THEN 1 ELSE 0
        octal == IF "#" \in job.flags /\ job.type = "o" THEN 1 ELSE 0
        needs == n.needs + blank + octal
    IN  /\ text = job.before \o t \o job.behind
        /\ n.ok
        /\ (n.value - job.value) % 2 ^ job.bits = 0
        /\ n.hex = ("#" \in job.flags /\ Radix[job.type] = 16)
        /\ Len(t) = IF job.wide > needs THEN job.wide ELSE needs

(* Who reads what is printed, the shell or a reader of numbers, gets what  *)
(* was given to be printed.                                                *)
ReadAsPrinted == ShellReadsArguments /\ NumbersAsGiven
=============================================================================
