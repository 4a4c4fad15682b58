------------------------------ MODULE MCPrint -------------------------------
(***************************************************************************)
(* What is printed: commands of the receivers and the sender, numbers with *)
(* every combination of flags, the two-step file names, and formats for    *)
(* the placeholders that the programs have no use for.                     *)
(***************************************************************************)
EXTENDS StringPrint

Part(f, a) == [format |-> f, args |-> a, again |-> FALSE]

Widths == <<"1", "2", "3", "4", "5">>
WidthText(w) == IF w = 0 THEN <<>> ELSE <<Widths[w]>>

-----------------------------------------------------------------------------
(* Commands: two words in quotation marks, printed in one call or in two  *)

Some == {"a", "\"", "\\", "$", "bq", "NUL", " "}
MCArgs == {<<>>} \cup {<<c>> : c \in Some} \cup {<<c, d>> : c, d \in Some}
MCWords == [s : MCArgs, wide : {0}, left : {FALSE}]
             \cup [s : {<<"\"", "a">>, <<"$">>, <<>>}, wide : {1, 3}, left : BOOLEAN]

WordFormat(w, type) ==
  <<" ", "\"", "%">> \o (IF w.left THEN <<"-">> ELSE <<>>)
    \o WidthText(w.wide) \o <<"e", type, "\"">>

Commands ==
  {[kind |-> "command", words |-> <<v, w>>,
    parts |-> <<Part(<<"P">> \o WordFormat(v, "S") \o WordFormat(w, "s"), <<v.s, w.s>>)>>] :
     v \in MCWords, w \in {u \in MCWords : u.wide = 0 => Len(u.s) <= 1}}
  \cup
  {[kind |-> "command", words |-> <<v, v>>,
    parts |-> <<Part(WordFormat(v, "c"), <<v.s>>), Part(WordFormat(v, "S"), <<v.s>>)>>] :
     v \in {u \in MCWords : Len(u.s) = 1}}

-----------------------------------------------------------------------------
(* Numbers and the file names with a number                              *)

FlagSets == SUBSET {"-", "+", " ", "#", "0"}
FlagText(fs) ==
  LET Of(f) == IF f \in fs THEN <<f>> ELSE <<>>
  IN  Of("-") \o Of("+") \o Of(" ") \o Of("#") \o Of("0")
Bits == [h |-> 3, i |-> 4, l |-> 6]
NumberFormat(fs, w, size, type) ==
  <<"%">> \o FlagText(fs) \o WidthText(w) \o (IF size = "i" THEN <<>> ELSE <<size>>) \o <<type>>

NumberJobs ==
  {[kind |-> "number", before |-> <<>>, behind |-> <<>>, value |-> v, bits |-> Bits[size],
    flags |-> fs, wide |-> w, type |-> type,
    parts |-> <<Part(NumberFormat(fs, w, size, type), <<v>>)>>] :
     fs \in FlagSets, w \in {0, 5}, size \in {"h", "i", "l"},
     type \in DOMAIN Radix \ {"i"}, v \in {0, 9, 11, 32, 63}}

FileNames ==
  {[kind |-> "number", before |-> <<"c">>, behind |-> <<"-">> \o id, value |-> v, bits |-> 4,
    flags |-> {"0"}, wide |-> 5, type |-> "u",
    parts |-> <<Part(<<"c", "%">> \o NumberFormat({"0"}, 5, "i", "u"), <<>>),
                Part(<<"-", "%", "S">>, <<id>>),
                [format |-> <<>>, args |-> <<v>>, again |-> TRUE]>>] :
     id \in {<<"+", "4">>, <<"4", " ">>, <<>>}, v \in {0, 7, 13}}

-----------------------------------------------------------------------------
(* The rest of the placeholders                                            *)

OtherJobs ==
  {[kind |-> "other", parts |-> <<Part(f.format, f.args)>>] :
     f \in {[format |-> <<"%", "*", "b", "%", ".", "1", "b", "%", ".", "*", "b">>,
             args |-> <<5, 1, 0, 1, 1>>],
            [format |-> <<"%", "2", "t", "a", "\n", "b">>, args |-> <<"-">>],
            [format |-> <<"a", "\n", "%", "?", "s", "%", "p">>,
             args |-> <<1, <<"a">>, <<"0", "x", "7">>>>],
            [format |-> <<"%", "L", "y", "%", ".", "1", ".", "%", "1">>, args |-> <<>>],
            [format |-> <<"%", "1", "2", "3", "q", "%", "i", "%", "s">>,
             args |-> <<5, "[none]">>]}}

MCJobs == Commands \cup NumberJobs \cup FileNames \cup OtherJobs
=============================================================================
