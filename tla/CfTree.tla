------------------------------- MODULE CfTree -------------------------------
(* The configuration tree (eris.cftree.c): the text of a file with what it    *)
(* includes, the tree that is made of it, and the calls that walk, change and *)
(* print the tree.                                                            *)
(*                                                                            *)
(* A text is a sequence of characters; a word that does not contain an 'i'    *)
(* may be one symbol.  An absent key or value is empty.  An element is a      *)
(* record [key, value, kids], and a tree a sequence of elements, siblings in  *)
(* the order of their chain.                                                  *)
EXTENDS PeTree
LOCAL INSTANCE SequencesExt

CONSTANT Files        \* the files there are, [name -> text]

Dequote == "dquote"
Message == <<"MESSAGE">>                          \* an error message replaces the text
Trim(s) == StrText(StrStrip(StrCreate(s)))

(***************************************************************************)
(* The text: comments go, tabs become blanks, and the text of the files    *)
(* that are included is put in their place.                                *)
(***************************************************************************)
Reading(out) == [st |-> "START", out |-> out, name |-> <<>>, braces |-> 0, rc |-> 0]
Broken(x) == [x EXCEPT !.rc = EERIS_ERROR, !.out = Message]

Put(x, c) == [x EXCEPT !.out = Append(@, IF c = "\t" THEN " " ELSE c)]
Enter(x, st) == [x EXCEPT !.st = st]

\* c in the state it leads to from plain text; a '}' too many is an error.
Counted(x, c) ==
  LET n == x.braces + (IF c = "{" THEN 1 ELSE IF c = "}" THEN -1 ELSE 0)
      y == [x EXCEPT !.braces = n, !.st = "CONTENT"]
  IN CASE c = "\n" -> Enter(x, "NEWLINE")
       [] c = ";" -> Enter(x, "SEMICOLON")
       [] c = Dequote -> Enter(x, "DQUOT1")
       [] OTHER -> IF n < 0 THEN Broken(y) ELSE y

\* Where a word may begin.
WordBegins(x, c) ==
  CASE c = "#" -> Enter(x, "COMMENT")
    [] c = "i" -> Enter(x, "INC_I")
    [] OTHER -> Counted(Put(x, c), c)

ContentStart(x, c) ==
  CASE c \in {"\n", ";"} -> Counted(x, c)
    [] Blank(c) -> Enter(x, "EMPTY")
    [] OTHER -> WordBegins(x, c)
PlainChar(x, c) == IF c = "#" THEN Enter(x, "COMMENT") ELSE Counted(Put(x, c), c)
QuotedChar(x, c) ==
  CASE c = Dequote -> Enter(Put(x, c), "CONTENT")
    [] c \in {"\n", ";", "{", "}"} -> Broken(Put(x, c))
    [] OTHER -> Put(x, c)
CommentChar(x, c) == IF c = "\n" THEN Enter(Put(x, c), "NEWLINE") ELSE x

\* The letters of include.  What turns out to be another word is appended with
\* the character that shows it, but only after the first two letters: the
\* states behind them drop that character.  A '#' drops the letters.
IncI(x, c) ==
  CASE c = "n" -> Enter(x, "INC_N")
    [] c = "#" -> Enter(x, "COMMENT")
    [] OTHER -> Counted(Put(Put(x, "i"), c), c)
IncN(x, c) ==
  CASE c = "c" -> Enter(x, "INC_C")
    [] c = "#" -> Enter(x, "COMMENT")
    [] OTHER -> LET y == Put(Put(Put(x, "i"), "n"), c)
                IN IF c \in {"{", "}"} THEN Counted(y, c) ELSE Enter(y, "CONTENT")
IncLetter(x, c, letter, next, prefix) ==
  CASE c = letter -> Enter(x, next)
    [] c = "#" -> Enter(x, "COMMENT")
    [] OTHER -> Counted([x EXCEPT !.out = @ \o prefix], c)
IncC(x, c) == IncLetter(x, c, "l", "INC_L", <<"i", "n", "c">>)
IncL(x, c) == IncLetter(x, c, "u", "INC_U", <<"i", "n", "c", "l">>)
IncU(x, c) == IncLetter(x, c, "d", "INC_D", <<"i", "n", "c", "l", "u">>)
IncD(x, c) == IncLetter(x, c, "e", "INC_E", <<"i", "n", "c", "l", "u", "d">>)
IncE(x, c) ==
  CASE Blank(c) -> Enter(x, "BLANK")
    [] c = Dequote -> Enter(x, "MARK1")
    [] OTHER -> IncLetter(x, c, "#", "COMMENT", <<"i", "n", "c", "l", "u", "d", "e">>)

Mark1Char(x, c) ==
  CASE c = Dequote -> Enter(x, "INCLUDE")
    [] c \in {"#", ";", "{", "}", "\n"} -> Broken(x)
    [] OTHER -> [x EXCEPT !.name = Append(@, c)]
BlankChar(x, c) ==
  CASE c = Dequote -> Enter(x, "MARK1")
    [] c = "#" -> Enter(x, "COMMENT")
    [] c = "\n" -> Enter(x, "NEWLINE")
    [] Blank(c) -> x
    [] OTHER -> Broken(x)

SemicolonChar(x, c) ==
  IF Blank(c) THEN Enter(Put(x, c), "EMPTY") ELSE WordBegins(x, c)
NewlineChar(x, c) ==
  IF Blank(c) THEN Enter(Put(x, c), "EMPTY") ELSE WordBegins(x, c)
EmptyChar(x, c) ==
  IF Blank(c) THEN Enter(Put(x, c), "EMPTY") ELSE WordBegins(x, c)

\* The directory of a file, up to its last '/'.
PathOf(file) ==
  LET at == {i \in DOMAIN file : file[i] = "/"}
  IN IF at = {} THEN <<".", "/">>
     ELSE SubSeq(file, 1, CHOOSE i \in at : \A j \in at : j <= i)

RECURSIVE Content(_, _)

\* The file is read with the character behind the name's mark.  What that
\* character is decides whether an error of the file counts.
Behind(x, c) ==
  CASE c = "i" -> Enter(x, "INC_I")
    [] c \in {"#", "\n", ";"} -> Enter(x, IF c = "#" THEN "COMMENT"
                                         ELSE IF c = ";" THEN "SEMICOLON" ELSE "NEWLINE")
    [] OTHER -> Counted(Put([x EXCEPT !.rc = 0], c), c)
IncludeChar(x, c, file) ==
  LET name == Trim(IF x.name[1] = "/" THEN x.name ELSE PathOf(file) \o x.name)
      Back(sub) == [x EXCEPT !.out = sub.out, !.name = <<>>, !.rc = sub.rc]
  IN Local(Content(name, x.out), LAMBDA sub : Behind(Back(sub), c))

ContentChar(x, c, file) ==
  CASE x.rc # 0 -> x
    [] x.rc = 0 /\ x.st = "START" -> ContentStart(x, c)
    [] x.rc = 0 /\ x.st = "CONTENT" -> PlainChar(x, c)
    [] x.rc = 0 /\ x.st = "DQUOT1" -> QuotedChar(x, c)
    [] x.rc = 0 /\ x.st = "COMMENT" -> CommentChar(x, c)
    [] x.rc = 0 /\ x.st = "INC_I" -> IncI(x, c)
    [] x.rc = 0 /\ x.st = "INC_N" -> IncN(x, c)
    [] x.rc = 0 /\ x.st = "INC_C" -> IncC(x, c)
    [] x.rc = 0 /\ x.st = "INC_L" -> IncL(x, c)
    [] x.rc = 0 /\ x.st = "INC_U" -> IncU(x, c)
    [] x.rc = 0 /\ x.st = "INC_D" -> IncD(x, c)
    [] x.rc = 0 /\ x.st = "INC_E" -> IncE(x, c)
    [] x.rc = 0 /\ x.st = "INCLUDE" -> IncludeChar(x, c, file)
    [] x.rc = 0 /\ x.st = "MARK1" -> Mark1Char(x, c)
    [] x.rc = 0 /\ x.st = "BLANK" -> BlankChar(x, c)
    [] x.rc = 0 /\ x.st = "SEMICOLON" -> SemicolonChar(x, c)
    [] x.rc = 0 /\ x.st = "NEWLINE" -> NewlineChar(x, c)
    [] OTHER -> EmptyChar(x, c)

\* Reading to the end, and the braces that are still open then.
ReadText(text, file, out) ==
  Local(Loop(LAMBDA y, c : ContentChar(y, c, file), Reading(out), text),
        LAMBDA x : IF x.rc = 0 /\ x.braces > 0 THEN Broken(x) ELSE x)
Content(file, out) ==
  IF file \in DOMAIN Files THEN ReadText(Files[file], file, out) ELSE Broken(Reading(out))

(***************************************************************************)
(* The tree.  open holds the elements that are still open, the head first. *)
(* A '}' without its '{' would detach what follows from the tree; the text *)
(* that Content returns has none.                                          *)
(***************************************************************************)
Element(key, value) == [key |-> key, value |-> value, kids |-> <<>>]
Making == [st |-> "START", key |-> <<>>, value |-> <<>>, count |-> 0,
           open |-> <<Element(<<>>, <<>>)>>]

Cleared(x) == [x EXCEPT !.key = <<>>, !.value = <<>>]
Trimmed(x) == [x EXCEPT !.key = Trim(@), !.value = Trim(@)]

PushElement(x) ==
  [Cleared(x) EXCEPT !.count = @ + 1, !.open = Append(@, Element(x.key, x.value)), !.st = "LMARK"]
AddElement(x) ==
  [Cleared(x) EXCEPT !.count = @ + 1, !.open[Len(x.open)].kids = Append(@, Element(x.key, x.value)),
                     !.st = "KEY"]
PopElement(x) ==
  LET n == Len(x.open)
  IN IF n = 1 THEN Enter(x, "RMARK")
     ELSE [x EXCEPT !.open = [SubSeq(x.open, 1, n - 1)
                                EXCEPT ![n - 1].kids = Append(@, x.open[n])],
                    !.st = "RMARK"]

\* '{' opens an element, with or without a key; ';', '\n' and '}' end one that
\* has a key, and '}' its parent too.
OpenElement(x) == Local(Trimmed(x), PushElement)
EndElement(x, c) ==
  LET Ended(t) == IF t.key # <<>> THEN AddElement(t) ELSE t
  IN Local(Local(Trimmed(x), Ended), LAMBDA y : IF c = "}" THEN PopElement(y) ELSE y)

StartKey(x, c) ==
  CASE c \in {"\n", ";", " "} -> x
    [] c = "{" -> Enter(x, "LMARK")
    [] c = Dequote -> Enter(x, "KEY_DQUOT1")
    [] OTHER -> [x EXCEPT !.key = Append(@, c), !.st = "KEY"]
QuotedKey(x, c) ==
  IF c = Dequote THEN Enter(x, "KEY_DQUOT2") ELSE [x EXCEPT !.key = Append(@, c)]
BehindKey(x, c) ==
  CASE c = " " -> Enter(x, "EMPTY")
    [] c = Dequote -> Enter(x, "VALUE_DQUOT1")
    [] c = "{" -> OpenElement(x)
    [] c \in {";", "\n", "}"} -> EndElement(x, c)
    [] OTHER -> [x EXCEPT !.key = Append(@, c)]
InKey(x, c) ==
  CASE c = " " -> IF x.key # <<>> THEN Enter(x, "EMPTY") ELSE x
    [] c = Dequote -> Enter(x, IF x.key # <<>> THEN "VALUE_DQUOT1" ELSE "KEY_DQUOT2")
    [] c = "{" -> OpenElement(x)
    [] c \in {";", "\n", "}"} -> EndElement(x, c)
    [] OTHER -> [x EXCEPT !.key = Append(@, c)]
BeforeValue(x, c) ==
  CASE c = " " -> x
    [] c = Dequote -> Enter(x, "VALUE_DQUOT1")
    [] c = "{" -> OpenElement(x)
    [] c \in {";", "\n", "}"} -> EndElement(x, c)
    [] OTHER -> [x EXCEPT !.value = Append(@, c), !.st = "VALUE"]
QuotedValue(x, c) ==
  IF c = Dequote THEN Enter(x, "VALUE_DQUOT2") ELSE [x EXCEPT !.value = Append(@, c)]
\* Whatever is behind a quoted value ends the element.  A character that could
\* begin the next key is put there, and is lost when the key is cleared.
BehindValue(x, c) ==
  LET Added(y) == IF c = "}" THEN PopElement(y) ELSE y
      Ended(t) == IF t.key # <<>> THEN Local(AddElement(t), Added)
                  ELSE Cleared(IF c = "}" THEN PopElement(t) ELSE t)
  IN IF c = "{" THEN OpenElement(x) ELSE Local(Trimmed(x), Ended)
InValue(x, c) ==
  CASE c = "{" -> OpenElement(x)
    [] c \in {";", "\n", "}"} -> EndElement(x, c)
    [] OTHER -> [x EXCEPT !.value = Append(@, c)]
BehindMark(x, c) ==
  CASE c = "{" -> OpenElement(x)
    [] c = "}" -> PopElement(x)
    [] c = Dequote -> Enter(x, "KEY_DQUOT1")
    [] c \in {";", "\n", " "} -> Enter(x, "KEY")
    [] OTHER -> [x EXCEPT !.key = Append(@, c), !.st = "KEY"]

TreeChar(x, c) ==
  CASE x.st = "START" -> StartKey(x, c)
    [] x.st = "KEY_DQUOT1" -> QuotedKey(x, c)
    [] x.st = "KEY_DQUOT2" -> BehindKey(x, c)
    [] x.st = "KEY" -> InKey(x, c)
    [] x.st = "EMPTY" -> BeforeValue(x, c)
    [] x.st = "VALUE_DQUOT1" -> QuotedValue(x, c)
    [] x.st = "VALUE_DQUOT2" -> BehindValue(x, c)
    [] x.st = "VALUE" -> InValue(x, c)
    [] OTHER -> BehindMark(x, c)

\* Elements are linked when they are opened.
RECURSIVE Closed(_)
Closed(open) ==
  IF Len(open) = 1 THEN open[1].kids
  ELSE LET n == Len(open)
       IN Closed([SubSeq(open, 1, n - 1) EXCEPT ![n - 1].kids = Append(@, open[n])])

EmptyTree == [kids |-> <<>>, count |-> 0]

\* A key that nothing ends is forgotten; an error keeps the tree there was.
TreeOf(text) ==
  Local(Loop(TreeChar, Making, text), LAMBDA x : [kids |-> Closed(x.open), count |-> x.count])
ParseTree(tree, file) ==
  Local(Content(file, <<>>),
        LAMBDA text : [tree |-> IF text.rc = 0 THEN TreeOf(text.out) ELSE tree, rc |-> text.rc])
TestFile(file) == Content(file, <<>>)

(***************************************************************************)
(* Walking a path.  A key is that of the first sibling that has it; an     *)
(* index counts the siblings with the key in front of it, and a negative   *)
(* one means the last of them.  An index follows a key.                    *)
(***************************************************************************)
Having(list, from, key) == {i \in from..Len(list) : list[i].key = key}
InOrder(S) == CHOOSE s \in [1..Cardinality(S) -> S] :
                \A i, j \in DOMAIN s : i < j => s[i] < s[j]

\* Where an index leads: a set of one position, or none.
Indexed(list, from, owner, n) ==
  LET all == InOrder(Having(list, from, owner))
  IN CASE n < 0 /\ all # <<>> -> {all[Len(all)]}
       [] n >= 0 /\ n < Len(all) -> {all[n + 1]}
       [] OTHER -> {}

IsKey(path) == path # <<>> /\ path[1].type = "STRING"

RECURSIVE GetE(_, _, _, _), SizeE(_, _, _, _), ExistedE(_, _, _, _)

\* Sequence of the one element that was found, or <<>>.
GetE(list, from, owner, path) ==
  LET step == path[1]
      at == IF IsKey(path) THEN Indexed(list, from, step.key, 0)
            ELSE Indexed(list, from, owner, step.index)
      i == CHOOSE j \in at : TRUE
  IN CASE at = {} -> <<>>
       [] at # {} /\ IsKey(Tail(path)) -> GetE(list[i].kids, 1, step.key, Tail(path))
       [] at # {} /\ Len(path) = 1 -> <<list[i]>>
       [] OTHER -> GetE(list, i, step.key, Tail(path))

\* Mutant of SizeE: the siblings behind the first that has the key are counted.
SizeEBehind(list, from, owner, path) ==
  LET step == path[1]
      at == IF IsKey(path) THEN Indexed(list, from, step.key, 0)
            ELSE Indexed(list, from, owner, step.index)
      i == CHOOSE j \in at : TRUE
  IN CASE at = {} -> 0
       [] at # {} /\ IsKey(Tail(path)) -> SizeE(list[i].kids, 1, step.key, Tail(path))
       [] at # {} /\ Len(path) = 1 -> Cardinality(Having(list, i + 1, step.key))
       [] OTHER -> SizeE(list, i, step.key, Tail(path))

\* How many siblings have the last key, from the first of them on.
SizeE(list, from, owner, path) ==
  LET step == path[1]
      at == IF IsKey(path) THEN Indexed(list, from, step.key, 0)
            ELSE Indexed(list, from, owner, step.index)
      i == CHOOSE j \in at : TRUE
  IN CASE at = {} -> 0
       [] at # {} /\ IsKey(Tail(path)) -> SizeE(list[i].kids, 1, step.key, Tail(path))
       [] at # {} /\ Len(path) = 1 -> IF IsKey(path) THEN Cardinality(Having(list, i, step.key)) ELSE 1
       [] OTHER -> SizeE(list, i, step.key, Tail(path))

\* A path that has been walked to its end exists.
ExistedE(list, from, owner, path) ==
  LET step == path[1]
      at == IF IsKey(path) THEN Indexed(list, from, step.key, 0)
            ELSE Indexed(list, from, owner, step.index)
      i == CHOOSE j \in at : TRUE
  IN CASE path = <<>> -> TRUE
       [] path # <<>> /\ at = {} -> FALSE
       [] path # <<>> /\ at # {} /\ IsKey(Tail(path)) -> ExistedE(list[i].kids, 1, step.key, Tail(path))
       [] OTHER -> ExistedE(list, i, step.key, Tail(path))

\* A tree without elements is not looked at, and neither is the path then.
Get(tree, keys) ==
  Local(ParsePath(keys),
        LAMBDA p : IF tree.kids = <<>> \/ p.rc # 0 \/ p.path = <<>> THEN <<>>
                   ELSE GetE(tree.kids, 1, <<>>, p.path))
GetValue(tree, keys) ==
  Local(Get(tree, keys), LAMBDA found : IF found = <<>> THEN <<>> ELSE found[1].value)
Each(tree, keys) ==
  Local(Get(tree, keys),
        LAMBDA found :
          IF found = <<>> THEN <<>>
          ELSE [i \in DOMAIN found[1].kids |-> <<found[1].kids[i].key, found[1].kids[i].value>>])
ESize(tree, keys) ==
  Local(ParsePath(keys),
        LAMBDA p : CASE tree.kids = <<>> -> 0
                     [] tree.kids # <<>> /\ p.rc # 0 -> EERIS_ERROR
                     [] tree.kids # <<>> /\ p.rc = 0 /\ p.path = <<>> -> 0
                     [] OTHER -> SizeE(tree.kids, 1, <<>>, p.path))
Existed(tree, keys) ==
  Local(ParsePath(keys),
        LAMBDA p : tree.kids # <<>> /\ p.rc = 0 /\ ExistedE(tree.kids, 1, <<>>, p.path))

(***************************************************************************)
(* Setting.  from is the place in list that the code's pointer points to,  *)
(* behind the last element where it is NULL.                               *)
(***************************************************************************)
RECURSIVE SetE(_, _, _, _, _)

\* What is left of the path, from the element at i: a key among its children,
\* an index among its siblings from there on.
Further(list, i, there, path, v) ==
  CASE Tail(path) = <<>> -> [list EXCEPT ![i].value = v]
    [] IsKey(Tail(path)) -> [list EXCEPT ![i].kids = SetE(@, 1, path[1].key, Tail(path), v)]
    [] OTHER -> SetE(list, there, path[1].key, Tail(path), v)

\* A key that is new goes behind the last sibling, and an index behind it
\* makes elements of its own.
SetNew(list, key, path, v) ==
  Further(Append(list, Element(key, <<>>)), Len(list) + 1, Len(list) + 2, path, v)
SetNamed(list, from, path, v) ==
  LET at == Having(list, from, path[1].key)
      i == CHOOSE j \in at : \A k \in at : j <= k
  IN IF at = {} THEN SetNew(list, path[1].key, path, v) ELSE Further(list, i, i, path, v)

\* Mutant of SetIndexed: the index is counted from one.
SetIndexedFromOne(list, from, owner, path, v) ==
  LET at == Indexed(list, from, owner, Greatest(path[1].index, 0) + 1)
      i == CHOOSE j \in at : TRUE
  IN IF at = {} THEN SetNew(list, owner, path, v) ELSE Further(list, i, i + 1, path, v)

\* Here a negative index means the first.
SetIndexed(list, from, owner, path, v) ==
  LET at == Indexed(list, from, owner, Greatest(path[1].index, 0))
      i == CHOOSE j \in at : TRUE
  IN IF at = {} THEN SetNew(list, owner, path, v) ELSE Further(list, i, i + 1, path, v)

\* Nothing is there: as many elements as the index says, and at least one, all
\* with the value.
SetVector(list, owner, path, v) ==
  LET value == IF Len(path) = 1 THEN v ELSE <<>>
      made == [i \in 1..Greatest(path[1].index, 1) |-> Element(owner, value)]
      n == Len(list) + Len(made)
  IN IF Len(path) = 1 THEN list \o made ELSE Further(list \o made, n, n + 1, path, v)

SetE(list, from, owner, path, v) ==
  CASE IsKey(path) -> SetNamed(list, from, path, v)
    [] ~IsKey(path) /\ from <= Len(list) -> SetIndexed(list, from, owner, path, v)
    [] OTHER -> SetVector(list, owner, path, v)

\* The count stays, and so does the 0 that is returned.
Set(tree, keys, v) ==
  Local(ParsePath(keys),
        LAMBDA p : IF p.rc # 0 \/ p.path = <<>> THEN tree
                   ELSE [tree EXCEPT !.kids = SetE(@, 1, <<>>, p.path, v)])

(***************************************************************************)
(* Printing, and the end.                                                  *)
(***************************************************************************)
RECURSIVE DumpE(_, _, _)

\* Mutant of DumpE: nothing is written between key and value.
DumpENoBlank(list, level, mark) ==
  LET Lines(e) == e.key \o e.value \o
                  (IF e.kids = <<>> THEN <<"\n">>
                   ELSE mark \o <<"{", "\n">> \o DumpE(e.kids, level + 1, mark) \o <<"}", "\n">>)
  IN Loop(LAMBDA out, e : out \o Lines(e), <<>>, list)

\* dump writes no blank in front of '{', dumpout does.
DumpE(list, level, mark) ==
  LET indent == [i \in 1..(4 * level) |-> " "]
      Lines(e) == indent \o e.key \o <<" ">> \o e.value \o
                  (IF e.kids = <<>> THEN <<"\n">>
                   ELSE mark \o <<"{", "\n">> \o DumpE(e.kids, level + 1, mark) \o indent \o <<"}", "\n">>)
  IN Loop(LAMBDA out, e : out \o Lines(e), <<>>, list)

CountLine(tree) == <<"#">> \o StrText(StrIToA(NoString, tree.count)) \o <<"\n">>
Dump(tree) == CountLine(tree) \o DumpE(tree.kids, 0, <<>>)
Dumpout(tree) == CountLine(tree) \o DumpE(tree.kids, 0, <<" ">>)

CleanupE(list) == <<>>
CleanupTree(tree) == [kids |-> CleanupE(tree.kids), count |-> 0]
DestroyTree(tree) == [kids |-> CleanupE(tree.kids), count |-> 0]
=============================================================================
