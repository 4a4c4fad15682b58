----------------------------- MODULE MCLibrary ------------------------------
(* The parts of the library that the programs use, one at a time: lists,     *)
(* string buffers, printing and the configuration.  A behaviour is one of a  *)
(* part, the others rest at a state of their own.                            *)
EXTENDS PtrList, DynString, MCPrint, MCConfigParser, TLC

CONSTANTS e1, e2, e3, e4

VARIABLE part

MCEntries == {e1, e2, e3, e4}
MCKeyOf == e1 :> 1 @@ e2 :> 2 @@ e3 :> 2 @@ e4 :> 3
WordsSymmetry == Permutations(Words) \cup Permutations(Plain)

MCTexts == {<<>>, <<"a">>, <<"/">>, <<"a", "/">>, <<"/", "a">>, <<"a", "b">>}
MCRemoveSets == {{"a"}, {"b", "/"}}

NoFile == FileOf(<<>>, FALSE)

MCInit ==
  /\ PtrInit /\ StringInit
  /\ \/ part = "print" /\ PrintInit /\ ConfStart(NoFile, <<>>)
     \/ part = "config" /\ ConfInit /\ PrintStart([kind |-> "none", parts |-> <<>>])
     \/ /\ part \in {"lists", "strings"}
        /\ ConfStart(NoFile, <<>>) /\ PrintStart([kind |-> "none", parts |-> <<>>])

OfLists   == part = "lists" /\ PtrNext /\ UNCHANGED <<stringVars, printVars, confVars, part>>
OfStrings == part = "strings" /\ StringNext /\ UNCHANGED <<listVars, printVars, confVars, part>>
OfPrint   == part = "print" /\ PrintNext /\ UNCHANGED <<listVars, stringVars, confVars, part>>
OfConfig  == part = "config" /\ ConfNext /\ UNCHANGED <<listVars, stringVars, printVars, part>>

MCSpec ==
  /\ MCInit
  /\ [][OfLists \/ OfStrings \/ OfPrint \/ OfConfig]_<<listVars, stringVars, printVars, confVars, part>>
=============================================================================
