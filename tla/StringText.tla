----------------------------- MODULE StringText -----------------------------
(***************************************************************************)
(* What a string object promises: it holds a text, and each call changes   *)
(* the text as the call says.  A text is a sequence of characters.         *)
(***************************************************************************)
EXTENDS Sequences, SequencesExt

VARIABLES
  text,               \* the text of the string
  did                 \* the last call: a record with the method and its arguments

Before(t, p) == SubSeq(t, 1, p)
After(t, p)  == SubSeq(t, p + 1, Len(t))

(* s written over t from position p on; t grows when s reaches beyond it.  *)
Overwritten(t, s, p) == Before(t, p) \o s \o After(t, p + Len(s))

(* A name below a directory: one delimiter between the two.                *)
Below(dir, name, slash) ==
  LET bare == IF Last(dir) = slash THEN Front(dir) ELSE dir
  IN  IF dir = <<>> THEN name
      ELSE IF name # <<>> /\ Head(name) = slash THEN bare \o name
      ELSE bare \o <<slash>> \o name

Upper(path, slash) ==
  LET slashes == {i \in DOMAIN path : path[i] = slash}
  IN  IF slashes = {} THEN path
      ELSE Before(path, (CHOOSE i \in slashes : \A j \in slashes : j <= i) - 1)

(* The text after call c on a string that holds t.                         *)
Result(c, t) ==
  CASE c.op = "Construct"   -> <<>>
    [] c.op = "Set"         -> c.s
    [] c.op = "Change"      -> Overwritten(t, c.s, c.at)
    [] c.op = "Insert"      -> Before(t, c.at) \o c.s \o After(t, c.at)
    [] c.op = "Fill"        -> Overwritten(t, [i \in 1 .. c.n |-> c.ch], c.at)
    [] c.op = "Remove"      -> Before(t, c.at) \o After(t, c.at + c.n)
    [] c.op = "RemoveChars" -> SelectSeq(t, LAMBDA x : x \notin c.chars)
    [] c.op = "SetLen"      -> IF c.n < Len(t) THEN Before(t, c.n) ELSE t
    [] c.op = "CutLen"      -> IF c.n < Len(t) THEN Before(t, Len(t) - c.n) ELSE <<>>
    [] c.op = "SetRelative" -> Below(t, c.s, c.slash)
    [] c.op = "UpperPath"   -> Upper(t, c.slash)

TextInit == text = <<>> /\ did = [op |-> "Construct"]

TextNext == text' = Result(did', text)

TextSpec == TextInit /\ [][TextNext]_<<text, did>>
=============================================================================
