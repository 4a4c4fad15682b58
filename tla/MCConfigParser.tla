--------------------------- MODULE MCConfigParser ---------------------------
(***************************************************************************)
(* Files of up to MaxLines lines of MCLines, each with what it means: the  *)
(* value v of the section it is in, braces that open and close, and the    *)
(* number that the variable n of the device gets by it.                    *)
(***************************************************************************)
EXTENDS ConfigParser, TLC

CONSTANT MaxLines

m == <<"m">>
n == <<"n">>
s == <<"s">>
d == <<"d">>
MCMainItems == m :> "UInt"
MCItems == n :> "UInt" @@ d :> "String" @@ s :> "List"
MCDevice == <<"x">>

V(name, data) == [name |-> name, data |-> data]
Open == V(<<"{">>, <<>>)
Close == V(<<"}">>, <<>>)
NL == <<"\n">>

(* A line: its text and the values and braces that it writes.              *)
L(t, e) == [text |-> t, events |-> e]
MCLines == {
  L(<<"m", "=", "1", "0">>, <<V(m, <<<<"1", "0">>>>)>>),
  L(<<"m", ":", "0", "8", " ", "#", "x">>, <<V(m, <<<<"0", "8">>>>)>>),
  L(<<"m", "=", "8", "\r">>, <<V(m, <<<<"8">>>>)>>),
  L(<<"{", "d", "=", "y", "}", "{", " ", "n", "=", "8">>,
    <<Open, V(d, <<<<"y">>>>), Close, Open, V(n, <<<<"8">>>>)>>),
  L(<<"}", "{", "n", "=", "1", "}">>, <<Close, Open, V(n, <<<<"1">>>>), Close>>),
  L(<<"d", "=", "y">>, <<V(d, <<<<"y">>>>)>>),
  L(<<"d", "=", "x">>, <<V(d, <<<<"x">>>>)>>),
  L(<<"}">>, <<Close>>),
  L(<<"s", "=", "\"", "a", "{", "\\", "\"", " ", "\"">>,
    <<V(s, <<<<"a", "{", "\\", "\"", " ">>>>)>>),
  L(<<"s", "=", "a", " ", "\\", "\n", "-", "1", ",", "a">>,
    <<V(s, <<<<"a", "-", "1">>, <<"a">>>>)>>),
  L(<<"{", "n", "=", "1", "}", "-">>, <<Open, V(n, <<<<"1">>>>), Close>>),
  L(<<"s", " ", "a">>, <<>>),
  L(<<>>, <<>>),
  L(<<"#", "}">>, <<>>)}

(* What the events of a line make of a tree; a brace too many ends it.     *)
Meant(p, events) ==
  LET upTo[i \in 0 .. Len(events)] ==
        IF i = 0 THEN [p |-> p, on |-> TRUE]
        ELSE LET t == upTo[i - 1]
                 e == events[i]
             IN  IF ~t.on THEN t
                 ELSE IF e = Open
                 THEN [t EXCEPT !.p = [secs |-> Append(@.secs, Section(@.cur)), cur |-> Len(@.secs) + 1]]
                 ELSE IF e = Close
                 THEN IF t.p.cur = 1 THEN [t EXCEPT !.on = FALSE]
                      ELSE [t EXCEPT !.p.cur = t.p.secs[t.p.cur].upper]
                 ELSE [t EXCEPT !.p.secs[t.p.cur].values = Append(@, e)]
  IN  upTo[Len(events)].p

(* The last number among the values of a name, 0 for none.                 *)
Number(name, values) ==
  LET upTo[i \in 0 .. Len(values)] ==
        IF i = 0 THEN 0
        ELSE IF values[i].name # name THEN upTo[i - 1]
        ELSE CASE values[i].data = <<<<"1">>>> -> 1
               [] values[i].data = <<<<"8">>>> -> 8
               [] values[i].data = <<<<"1", "0">>>> -> 10
               [] OTHER -> upTo[i - 1]
  IN  upTo[Len(values)]

(* The values of the sections for the device, in their order.              *)
ForDevice(secs) ==
  LET names(sec) == SelectSeq(sec.values, LAMBDA v : v.name = d)
      upTo[i \in 1 .. Len(secs)] ==
        IF i = 1 THEN <<>>
        ELSE IF secs[i].upper = 1 /\ (names(secs[i]) = <<>> \/ names(secs[i])[1].data = <<MCDevice>>)
        THEN upTo[i - 1] \o secs[i].values ELSE upTo[i - 1]
  IN  upTo[Len(secs)]

FileOf(ls, end) ==
  LET text[i \in 0 .. Len(ls)] ==
        IF i = 0 THEN <<>>
        ELSE text[i - 1] \o ls[i].text \o IF i < Len(ls) \/ end THEN NL ELSE <<>>
      tree[i \in 0 .. Len(ls)] ==
        IF i = 0 THEN NewParser ELSE Meant(tree[i - 1], ls[i].events)
      p == tree[Len(ls)]
  IN  [text |-> text[Len(ls)], tree |-> p.secs, open |-> p.cur # 1,
       conf |-> m :> Number(m, p.secs[1].values) @@ n :> Number(n, ForDevice(p.secs))]

MCFiles == {FileOf(ls, end) : ls \in UNION {[1 .. k -> MCLines] : k \in 0 .. MaxLines}, end \in BOOLEAN}

MCOptions == {<<>>, <<<<"n", "=", "1">>, <<"m", "=", "8">>>>}
=============================================================================
