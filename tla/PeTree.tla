------------------------------- MODULE PeTree -------------------------------
(* Key paths such as http.module[2].name (eris.petree.c): the automaton that  *)
(* reads one, and its printed form.  A path is the chain of its elements,     *)
(* keys and indices; -1 is the index of [*].                                  *)
EXTENDS EString
LOCAL INSTANCE SequencesExt

CONSTANT KeySize      \* ERIS_PETREE_KSIZE

\* The kinds of elements, enum eris_petree_type_e.
KeyStep(key) == [type |-> "STRING", key |-> key, index |-> 0]
IndexStep(n) == [type |-> "INTEGER", key |-> <<>>, index |-> n]

(***************************************************************************)
(* The automaton: the key and the index that are being read, whether a     *)
(* blank has ended the key (back), whether a '*' was seen (star), and the  *)
(* elements made so far.                                                   *)
(***************************************************************************)
PathStart == [st |-> "START", key |-> <<>>, index |-> <<>>, back |-> FALSE,
              star |-> FALSE, path |-> <<>>, rc |-> 0]

KeyChar(c) ==
  \/ IsDigit(c) \/ IsUpper(c) \/ IsLower(c)
  \/ c \in {"_", "-"}
  \/ c \notin DOMAIN CodeOf                     \* a symbol for a word
Blank(c) == c \in {" ", "\t"}
Refused(p) == [p EXCEPT !.rc = EERIS_ERROR, !.st = "FINISH"]
AddToKey(p, c) == IF Len(p.key) < KeySize - 1 THEN [p EXCEPT !.key = Append(@, c)] ELSE p

\* The key is complete; what ends it is the next state.
EndKey(p, next) ==
  [p EXCEPT !.st = next, !.back = FALSE, !.key = <<>>, !.path = Append(@, KeyStep(p.key))]

\* START reports a ']' and goes on: only the state of the others is FINISH.
StartChar(p, c) ==
  CASE c = "." -> [p EXCEPT !.st = "DOT"]
    [] c = "[" -> [p EXCEPT !.st = "BRACKET_L"]
    [] c = "]" -> [p EXCEPT !.rc = EERIS_ERROR]
    [] KeyChar(c) -> [p EXCEPT !.st = "KEY", !.key = <<c>>]
    [] Blank(c) -> p
    [] OTHER -> Refused(p)

InKeyChar(p, c) ==
  CASE c = "." -> EndKey(p, "DOT")
    [] c = "[" -> EndKey(p, "BRACKET_L")
    [] KeyChar(c) -> IF p.back THEN Refused(p) ELSE AddToKey(p, c)
    [] Blank(c) -> [p EXCEPT !.back = TRUE]
    [] OTHER -> Refused(p)

DotChar(p, c) ==
  CASE c = "." \/ Blank(c) -> p
    [] KeyChar(c) -> [AddToKey(p, c) EXCEPT !.st = "KEY"]
    [] OTHER -> Refused(p)

\* '*' and digits may come in any order; a sign only in front.
BracketChar(p, c) ==
  LET done == [p EXCEPT !.st = "BRACKET_R", !.back = FALSE, !.star = FALSE]
  IN CASE IsDigit(c) -> [p EXCEPT !.index = Append(@, c)]
       [] c = "]" /\ p.star /\ p.index = <<>> ->
            [done EXCEPT !.path = Append(@, IndexStep(EERIS_ERROR))]
       [] c = "]" /\ p.star /\ p.index # <<>> -> Refused(p)
       [] c = "]" /\ ~p.star ->
            [done EXCEPT !.path = Append(@, IndexStep(SignedNumber(IntBits, p.index))),
                         !.index = <<>>]
       [] c = "*" -> [p EXCEPT !.star = TRUE]
       [] Blank(c) -> [p EXCEPT !.back = @ \/ p.index # <<>>]
       [] c \in {"-", "+"} /\ p.index = <<>> -> [p EXCEPT !.index = <<c>>]
       [] OTHER -> Refused(p)

BehindChar(p, c) ==
  CASE Blank(c) -> p
    [] c = "." -> [p EXCEPT !.st = "DOT"]
    [] OTHER -> Refused(p)

PathChar(p, c) ==
  CASE p.st = "START" -> StartChar(p, c)
    [] p.st = "KEY" -> InKeyChar(p, c)
    [] p.st = "DOT" -> DotChar(p, c)
    [] p.st = "BRACKET_L" -> BracketChar(p, c)
    [] p.st = "BRACKET_R" -> BehindChar(p, c)
    [] OTHER -> p                                  \* FINISH: the loop is left

\* The last key ends with the string; an index whose bracket is not closed is
\* forgotten.  An error leaves nothing.
ParsePath(s) ==
  LET LastKey(p) == IF p.key # <<>> THEN EndKey(p, p.st) ELSE p
  IN Local(Loop(PathChar, PathStart, s),
           LAMBDA p : IF p.rc # 0 THEN [path |-> <<>>, rc |-> p.rc]
                      ELSE [path |-> LastKey(p).path, rc |-> 0])

(***************************************************************************)
(* The printed form.                                                       *)
(***************************************************************************)
\* Mutant of PrintStep: the dot is written between two keys only.
PrintStepKeysOnly(path, i) ==
  LET text == CASE path[i].type = "STRING" -> path[i].key
                [] path[i].type = "INTEGER" /\ path[i].index >= 0 ->
                     <<"[">> \o StrText(StrIToA(NoString, path[i].index)) \o <<"]">>
                [] OTHER -> <<"[", "*", "]">>
  IN text \o (IF /\ path[i].type = "STRING"
                /\ i < Len(path) /\ path[i + 1].type = "STRING" THEN <<".">> ELSE <<>>)

PrintStep(path, i) ==
  LET text == CASE path[i].type = "STRING" -> path[i].key
                [] path[i].type = "INTEGER" /\ path[i].index >= 0 ->
                     <<"[">> \o StrText(StrIToA(NoString, path[i].index)) \o <<"]">>
                [] OTHER -> <<"[", "*", "]">>
  IN text \o (IF i < Len(path) /\ path[i + 1].type = "STRING" THEN <<".">> ELSE <<>>)

PrintPath(path) == Loop(LAMBDA out, i : out \o PrintStep(path, i), <<>>, [i \in DOMAIN path |-> i])

\* The iterator visits the elements from the head on.
PathIter(path) == [pos |-> 0, left |-> path]
PathNext(it) ==
  IF it.left = <<>> THEN it ELSE [pos |-> it.pos + 1, left |-> Tail(it.left)]
=============================================================================
