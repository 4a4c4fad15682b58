------------------------------ MODULE MCFaxData ------------------------------
(* The two directions of a fax file have nothing in common: a behaviour is   *)
(* one of either, the other rests at a state of its own.                     *)
EXTENDS SffToHuf, HufToSff

VARIABLE way    \* "in" for a received fax, "out" for one that is sent

(* In: lines of one byte and of two, and of none; two of the longer special  *)
(* records fill the ring; tmpbuf takes less than a line, the ring is full    *)
(* before the longer block is in.                                            *)
MCLongLines == {0, 2}
MCSpecials == {0, 7}
MCBlocks == {2, 12}

(* Out: a line without an end, two lines, a line and the end of a page, and  *)
(* the page in one strip or in two.                                          *)
Strip(ok, data) == [ok |-> ok, data |-> data]

Shapes(p) ==
  { <<Eol, <<p, 1>>, Eol, <<p, 2>>, <<p, 3>>>>,
    <<Eol, <<p, 1>>, Eol, <<p, 2>>, <<p, 3>>, Eol>>,
    <<Eol, <<p, 1>>, <<p, 2>>, Eol, Eol, Eol>> }

Pages(p) ==
  { <<Strip(TRUE, d)>> : d \in Shapes(p) } \cup
  { <<Strip(a, SubSeq(d, 1, 3)), Strip(b, SubSeq(d, 4, Len(d)))>> :
      a \in BOOLEAN, b \in BOOLEAN, d \in Shapes(p) }

MCFiles == { <<p, q>> : p \in Pages(1), q \in Pages(2) }

MCInit ==
  /\ way \in {"in", "out"}
  /\ SffInit /\ (way = "out" => ~recv.g3)
  /\ HufInit /\ (way = "in" => file = CHOOSE f \in Files : TRUE)

Receives == way = "in" /\ SffNext /\ UNCHANGED <<hufVars, way>>
Sends == way = "out" /\ HufNext /\ UNCHANGED <<sffVars, way>>

MCSpec ==
  /\ MCInit /\ [][Receives \/ Sends]_<<sffVars, hufVars, way>>
  /\ WF_<<sffVars, hufVars, way>>(way = "in" /\ RecvSFF /\ UNCHANGED <<hufVars, way>>)
=============================================================================
