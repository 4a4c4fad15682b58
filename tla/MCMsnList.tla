----------------------------- MODULE MCMsnList -----------------------------
EXTENDS MsnList

(* Numbers of one digit and of two, ranges of both, one that has no numbers  *)
(* and one whose ends are not equally long.                                  *)
Singles == {<<1>>, <<2>>, <<1, 1>>, <<1, 2>>, <<2, 1>>}
Entries == {One(n) : n \in Singles} \cup
  {To2(<<1>>, <<2>>), To2(<<1, 1>>, <<2, 1>>), To2(<<2, 1>>, <<1, 2>>), To2(<<1>>, <<1, 2>>)}

NoSection ==
  [controller |-> 1, cip |-> {"fax"}, global |-> TRUE, useDDI |-> FALSE, prefix |-> <<>>,
   ddiLen |-> 0, numbers |-> <<>>]

Lists(n) == UNION {[1 .. k -> Entries] : k \in 0 .. n}

OneSection ==
  {[NoSection EXCEPT !.numbers = l] : l \in Lists(3)} \cup
  {[NoSection EXCEPT !.useDDI = TRUE, !.prefix = <<2, 2>>, !.numbers = l] : l \in Lists(2)} \cup
  {[NoSection EXCEPT !.useDDI = TRUE, !.prefix = p, !.ddiLen = d, !.global = FALSE,
                     !.cip = {"fax", "speech"}] : p \in {<<>>, <<2, 2>>}, d \in {0, 2}}

(* A second section, of another controller or of the same.                   *)
Second ==
  {[s EXCEPT !.controller = c] : c \in {1, 2}, s \in {t \in OneSection : Len(t.numbers) <= 1}}
MCConfigs ==
  {<<s>> : s \in OneSection} \cup
  {<<[NoSection EXCEPT !.controller = 2], s>> : s \in Second}

MCCalled == {<<1>>, <<2>>, <<1, 2>>, <<2, 1>>, <<2, 2, 1>>, <<2, 2, 1, 1>>, <<2, 2, 1, 2>>, <<1, 2, 2, 2, 1>>}

MCMsnSpec == MsnInit /\ [][MsnNext]_msnVars
=============================================================================
