---------------------------- MODULE ConfigParser ----------------------------
(***************************************************************************)
(* How the programs read their configuration (src/standard/FilePars,       *)
(* LinePars, ConfPars, ConfAssi; CFaxSend::Config): the file comes in      *)
(* pieces that make up lines, a line is cut into words, the words add      *)
(* values and sections to a tree, and the values of the sections that fit  *)
(* the device are assigned to variables; then come the lines of the -c     *)
(* options.  A character is a string of length 1, a text a sequence.       *)
(***************************************************************************)
EXTENDS Integers, Sequences

CONSTANTS
  Files,        \* files: their text, and what it means by the syntax
  Options,      \* sequences of lines, the arguments of -c
  PieceLen,     \* what fgets reads at most, CONFIGPARSER_MaxLength - 1
  MainItems,    \* the items of the main section: types of the names
  Items,        \* the items of the other sections
  DeviceItem,   \* the name of the item that has the device's name
  Device,       \* that name
  Null

VARIABLES
  file,         \* what is left of the file
  eof,          \* feof
  curLine,      \* the line read so far
  words,        \* WordList: words of lines that go on
  parser,       \* pMainSec, pCurSec and the values that the sections have
  conf,         \* the variables
  options,      \* the -c arguments left
  phase,        \* "file", "assign", "options", "done", "crashed"
  written       \* history: the file as it was

confVars == <<file, eof, curLine, words, parser, conf, options, phase, written>>

LastOf(s) == s[Len(s)]
FromTo(s, i, j) == SubSeq(s, i, j)

-----------------------------------------------------------------------------
(* ParseConfigLine: a line as words                                        *)

Blank == {" ", "\t"}
Stops == Blank \cup {"=", ":", ",", "-", "[", "{", "}", "]"}
Alone == Stops \ Blank

(* The first place from i on with Test, one past the line for none.        *)
FirstFrom(line, i, Test(_)) ==
  CHOOSE j \in i .. Len(line) + 1 :
    /\ j = Len(line) + 1 \/ Test(j)
    /\ \A k \in i .. j - 1 : ~Test(k)

(* Bug: a backslash does not keep a quotation mark in its word.            *)
WordEndUnescaped(line, i) ==
  CASE line[i] \in Alone -> i + 1
    [] line[i] = "#" -> Len(line) + 1
    [] line[i] = "\"" -> LET j == FirstFrom(line, i + 1, LAMBDA k : line[k] = "\"")
                         IN  IF j > Len(line) THEN j ELSE j + 1
    [] OTHER -> FirstFrom(line, i + 1, LAMBDA k : line[k] \in Stops)

(* Where the word that begins at i has its end.                            *)
WordEnd(line, i) ==
  CASE line[i] \in Alone -> i + 1
    [] line[i] = "#" -> Len(line) + 1
    [] line[i] = "\"" ->
         LET j == FirstFrom(line, i + 1, LAMBDA k : line[k] = "\"" /\ line[k - 1] # "\\")
         IN  IF j > Len(line) THEN j ELSE j + 1
    [] OTHER -> FirstFrom(line, i + 1, LAMBDA k : line[k] \in Stops /\ line[k - 1] # "\\")

WordsOf(line) ==
  LET from[i \in 1 .. Len(line) + 1] ==
        LET b == FirstFrom(line, i, LAMBDA k : line[k] \notin Blank)
        IN  IF b > Len(line) THEN <<>>
            ELSE <<FromTo(line, b, WordEnd(line, b) - 1)>> \o from[WordEnd(line, b)]
  IN  from[1]

-----------------------------------------------------------------------------
(* ParseWords: words as values and sections                                *)

Section(upper) == [upper |-> upper, values |-> <<>>, deleted |-> FALSE]
NewParser == [secs |-> <<Section(0)>>, cur |-> 1]

CutQuotes(w) ==
  IF w[1] = "\"" /\ Len(w) >= 2 /\ LastOf(w) = "\"" THEN FromTo(w, 2, Len(w) - 1) ELSE w

(* The state of the loop: the parser, the value that is read, what is      *)
(* expected, whether a range is open and the result so far.                *)
Begin(p) == [p |-> p, val |-> Null, mode |-> "name", range |-> FALSE, res |-> "okay"]

(* A value without data is dropped.                                        *)
CloseValue(s) ==
  IF s.val = Null \/ s.val.data = <<>> THEN s.p
  ELSE [s.p EXCEPT !.secs[s.p.cur].values = Append(@, s.val)]

OpenSection(s) ==
  LET p == CloseValue(s)
  IN  [s EXCEPT !.p = [secs |-> Append(p.secs, Section(p.cur)), cur |-> Len(p.secs) + 1],
                !.val = Null, !.range = FALSE]

CloseSection(s) ==
  LET p == CloseValue(s)
  IN  IF p.secs[p.cur].upper = 0 THEN [s EXCEPT !.p = p, !.val = Null, !.res = "ends"]
      ELSE [s EXCEPT !.p = [p EXCEPT !.cur = p.secs[p.cur].upper], !.val = Null, !.range = FALSE]

AddData(s, w) ==
  IF s.range
  THEN [s EXCEPT !.val.data[Len(s.val.data)] = @ \o w, !.range = FALSE]
  ELSE [s EXCEPT !.val.data = Append(@, w)]

AddName(s, w) == [s EXCEPT !.val = [name |-> w, data |-> <<>>], !.mode = "assign"]

(* ParseState stays when a brace ends the value: a '-' after it finds none *)
(* (see the README).                                                       *)
OpenRange(s) ==
  IF s.val = Null THEN [s EXCEPT !.res = "crash"]
  ELSE IF s.range THEN s
  ELSE [s EXCEPT !.range = TRUE,
                 !.val.data = IF @ = <<>> THEN <<<<"-">>>>
                              ELSE [@ EXCEPT ![Len(@)] = Append(@, "-")]]

Wrong(s) == [s EXCEPT !.val = Null, !.res = "wrong"]

ParseWord(s, w) ==
  CASE w[1] = "{" -> OpenSection(s)
    [] w[1] = "}" -> CloseSection(s)
    [] w[1] \in {"=", ":"} ->
         IF s.mode = "name" THEN Wrong(s) ELSE [s EXCEPT !.mode = "data", !.range = FALSE]
    [] w[1] = "," -> IF s.mode # "data" THEN Wrong(s) ELSE [s EXCEPT !.range = FALSE]
    [] w[1] = "-" -> IF s.mode # "data" THEN Wrong(s) ELSE OpenRange(s)
    [] w[1] = "#" -> [s EXCEPT !.range = FALSE]
    [] OTHER -> IF s.val = Null THEN AddName(s, CutQuotes(w))
                ELSE IF s.mode # "data" THEN Wrong(s) ELSE AddData(s, CutQuotes(w))

(* The last word but for a comment.                                        *)
Comments(ws) == {i \in 1 .. Len(ws) : \A j \in i .. Len(ws) : ws[j][1] = "#"}
LastWord(ws) ==
  CHOOSE i \in 0 .. Len(ws) : i \notin Comments(ws) /\ i + 1 .. Len(ws) \subseteq Comments(ws)

ParseWords(p, ws) ==
  LET after[i \in 0 .. Len(ws)] ==
        IF i = 0 THEN Begin(p)
        ELSE LET s == after[i - 1] IN IF s.res = "okay" THEN ParseWord(s, ws[i]) ELSE s
      last == LastWord(ws)
      end  == after[Len(ws)]
  IN  IF last = 0 THEN [p |-> p, words |-> <<>>, res |-> "okay"]
      ELSE IF ws[last] = <<"\\">>
      THEN [p |-> p, words |-> FromTo(ws, 1, last - 1), res |-> "pending"]
      ELSE [p |-> IF end.res = "okay" THEN CloseValue(end) ELSE end.p, words |-> <<>>, res |-> end.res]

-----------------------------------------------------------------------------
(* ConfigValuesAssignment                                                  *)

Join(data) ==
  LET upTo[i \in 1 .. Len(data)] ==
        IF i = 1 THEN data[1] ELSE upTo[i - 1] \o <<" ">> \o data[i]
  IN  upTo[Len(data)]

DigitOf == [c \in {"0", "1", "8"} |-> CASE c = "0" -> 0 [] c = "1" -> 1 [] OTHER -> 8]

(* strtol with base 0 of the digits used here; Null when something is left *)
(* over.                                                                   *)
Strtol(w) ==
  LET base == IF w # <<>> /\ w[1] = "0" /\ Len(w) > 1 THEN 8 ELSE 10
      upTo[i \in 0 .. Len(w)] == IF i = 0 THEN 0 ELSE upTo[i - 1] * base + DigitOf[w[i]]
  IN  IF w # <<>> /\ \A i \in 1 .. Len(w) : w[i] \in DOMAIN DigitOf /\ DigitOf[w[i]] < base
      THEN upTo[Len(w)] ELSE Null

AssignOne(c, v, type) ==
  CASE type = "String" -> [c EXCEPT ![v.name] = Join(v.data)]
    [] type = "List" -> [c EXCEPT ![v.name] = @ \o v.data]
    [] OTHER -> IF Strtol(v.data[1]) = Null THEN c ELSE [c EXCEPT ![v.name] = Strtol(v.data[1])]

Assign(c, values, items) ==
  LET upTo[i \in 0 .. Len(values)] ==
        IF i = 0 THEN c
        ELSE IF values[i].name \in DOMAIN items
        THEN AssignOne(upTo[i - 1], values[i], items[values[i].name]) ELSE upTo[i - 1]
  IN  upTo[Len(values)]

(* ConfigValuesTestName for the device's item: only its first value counts.*)
OtherDevice(c, values) ==
  LET named == {i \in 1 .. Len(values) : values[i].name = DeviceItem}
  IN  named # {} /\ values[CHOOSE i \in named : \A j \in named : i <= j].data[1] # c[DeviceItem]

-----------------------------------------------------------------------------
(* A file f and -c arguments o that are to be read.                        *)
ConfStart(f, o) ==
  /\ written = f /\ file = f.text /\ options = o
  /\ eof = FALSE /\ curLine = <<>> /\ words = <<>> /\ parser = NewParser
  /\ conf = [n \in DOMAIN MainItems \cup DOMAIN Items |->
              IF n = DeviceItem THEN Device
              ELSE IF (n \in DOMAIN MainItems /\ MainItems[n] = "UInt") \/ (n \in DOMAIN Items /\ Items[n] = "UInt")
              THEN 0 ELSE <<>>]
  /\ phase = "file"

ConfInit == \E f \in Files, o \in Options : ConfStart(f, o)

(* CConfigGrammarParser::ParseLine; its words go with any result but       *)
(* i_Pending.                                                              *)
ParseLine(line) ==
  LET r == ParseWords(parser, words \o WordsOf(line))
  IN  /\ parser' = r.p /\ words' = r.words
      /\ phase' = IF r.res = "crash" THEN "crashed" ELSE phase

(* What fgets gives: up to the end of a line or as much as fits.           *)
Piece ==
  LET end == FirstFrom(file, 1, LAMBDA k : file[k] = "\n" \/ k = PieceLen)
  IN  IF end > Len(file) THEN file ELSE FromTo(file, 1, end)

IsEnd(c) == c \in {"\n", "\r"}

(* More is to be read before the line can be parsed.                       *)
LineDone(line, atEnd) == line # <<>> /\ (IsEnd(LastOf(line)) \/ atEnd)

CutEnds(line) ==
  FromTo(line, 1, CHOOSE n \in 0 .. Len(line) :
    (n = 0 \/ ~IsEnd(line[n])) /\ \A k \in n + 1 .. Len(line) : IsEnd(line[k]))

(* One turn of the loop of ParseFile with a piece, and with none: a line   *)
(* that has had no end by then is given up.                                *)
Gets ==
  /\ phase = "file" /\ ~eof /\ file # <<>>
  /\ LET got   == curLine \o Piece
         atEnd == Len(Piece) < PieceLen /\ LastOf(Piece) # "\n"
         cut   == CutEnds(got)
     IN  /\ eof' = atEnd
         /\ file' = FromTo(file, Len(Piece) + 1, Len(file))
         /\ IF ~LineDone(got, atEnd)
            THEN curLine' = got /\ UNCHANGED <<words, parser, phase>>
            ELSE IF cut = <<>>
            THEN curLine' = <<>> /\ UNCHANGED <<words, parser, phase>>
            ELSE curLine' = <<>> /\ ParseLine(cut)
  /\ UNCHANGED <<conf, options, written>>

GetsNothing ==
  /\ phase = "file" /\ ~eof /\ file = <<>>
  /\ eof' = TRUE /\ curLine' = <<>>
  /\ UNCHANGED <<file, words, parser, conf, options, phase, written>>

(* ParseLine (0): words of a line that goes on at the end of the file.     *)
EndsFile ==
  /\ phase = "file" /\ eof
  /\ LET r == ParseWords(parser, words)
     IN  /\ parser' = r.p /\ words' = r.words
         /\ phase' = IF r.res = "crash" THEN "crashed" ELSE "assign"
  /\ UNCHANGED <<file, eof, curLine, conf, options, written>>

Mains(p) == p.secs[1].values
Upper(i) == parser.secs[i].upper = 1

(* The sections of the main section that fit, one after the other, and the *)
(* deletion of the tree; pCurSec stays.                                    *)
AssignsConfig ==
  /\ phase = "assign"
  /\ conf' = LET upTo[i \in 1 .. Len(parser.secs)] ==
                   IF i = 1 THEN Assign(conf, Mains(parser), MainItems)
                   ELSE IF Upper(i) /\ ~OtherDevice(upTo[i - 1], parser.secs[i].values)
                   THEN Assign(upTo[i - 1], parser.secs[i].values, Items) ELSE upTo[i - 1]
             IN  upTo[Len(parser.secs)]
  /\ parser' = [parser EXCEPT !.secs = [i \in DOMAIN @ |->
                  [@[i] EXCEPT !.values = <<>>, !.deleted = i # 1]]]
  /\ phase' = "options"
  /\ UNCHANGED <<file, eof, curLine, words, options, written>>

(* An option -c: a line of its own.                                        *)
TakesOption ==
  /\ phase = "options" /\ options # <<>>
  /\ LET r == ParseWords(parser, words \o WordsOf(options[1]))
     IN  /\ words' = r.words
         /\ conf' = Assign(Assign(conf, Mains(r.p), MainItems), Mains(r.p), Items)
         /\ parser' = [r.p EXCEPT !.secs[1].values = <<>>]
  /\ options' = Tail(options)
  /\ UNCHANGED <<file, eof, curLine, phase, written>>

Configured ==
  /\ phase = "options" /\ options = <<>> /\ phase' = "done"
  /\ UNCHANGED <<file, eof, curLine, words, parser, conf, options, written>>

ConfNext == Gets \/ GetsNothing \/ EndsFile \/ AssignsConfig \/ TakesOption \/ Configured
ConfSpec == ConfInit /\ [][ConfNext]_confVars /\ WF_confVars(ConfNext)
-----------------------------------------------------------------------------
(* The last line has no end and just fills a piece: it is given up (see    *)
(* the README).                                                            *)
LastLineLost ==
  LET ends == {0} \cup {i \in 1 .. Len(written.text) : written.text[i] = "\n"}
      rest == Len(written.text) - (CHOOSE i \in ends : \A j \in ends : j <= i)
  IN  rest > 0 /\ rest % PieceLen = 0

(* The tree has the values and sections that the file's lines write, in    *)
(* whatever pieces they are read, with comments, quotes, ranges, lines     *)
(* that go on and wrong lines in between.  The variables come from the main*)
(* section and the device's own ones.  An option is then a line of the     *)
(* main section, whatever the file before it: but after one that leaves a  *)
(* section open it goes into that section, that is deleted (see the        *)
(* README).                                                                *)
ConfAsWrittenElse ==
  [][~LastLineLost =>
       /\ phase = "assign" =>
            /\ parser.secs = written.tree
            /\ \A n \in DOMAIN written.conf : conf'[n] = written.conf[n]
       /\ options' # options /\ ~written.open =>
            LET own == Mains(ParseWords(NewParser, WordsOf(options[1])).p)
            IN  conf' = Assign(Assign(conf, own, MainItems), own, Items)]_confVars
=============================================================================
