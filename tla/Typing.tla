------------------------------- MODULE Typing -------------------------------
(* Texts that users type, one character after the other: a key path           *)
(* (eris.petree.c), a configuration file (eris.cftree.c), and a text that is  *)
(* URL-encoded (eris.urlencode.c).  Every text is looked at, finished or not. *)
EXTENDS CfTree, UrlCode
LOCAL INSTANCE SequencesExt

CONSTANTS Alphabets,  \* [kind of text -> its characters]
          MaxLength   \* bound on the texts, [kind of text -> length]

VARIABLES kind, typed

Init == kind \in DOMAIN Alphabets /\ typed = <<>>

Type ==
  /\ Len(typed) < MaxLength[kind]
  /\ \E c \in Alphabets[kind] : typed' = Append(typed, c)
  /\ UNCHANGED kind

Starred(path) ==
  [i \in DOMAIN path |-> IF path[i].index < 0 THEN IndexStep(EERIS_ERROR) ELSE path[i]]

\* A path that is read is printed so that it is read as the same path again,
\* with its blanks, signs and unfinished ends (all negative indices mean the
\* same, and are printed as [*]); and what is encoded is decoded
\* to the same text, whatever the string held that it is decoded into.
ReadsBack ==
  /\ kind = "path" =>
       \A p \in {ParsePath(typed)} : ParsePath(PrintPath(p.path)) = [path |-> Starred(p.path), rc |-> 0]
  /\ kind = "url" =>
       \A coded \in {EncodeEris(StrCreate(<<"a">>), StrCreate(typed))} :
          /\ DecodeErisRc(coded) = 0
          /\ StrText(DecodeEris(StrCreate(typed), coded)) = typed

\* The tree that a text makes, and whether a '}' took the parser above its root.
Made(text) ==
  Loop(LAMBDA y, c :
         Local(TreeChar(y.x, c),
               LAMBDA next : [x |-> next,
                              over |-> y.over \/ (c = "}" /\ Len(y.x.open) = 1 /\ next.st = "RMARK")]),
       [x |-> Making, over |-> FALSE], text)

\* A text that eris_cftree_content accepts, eris_cftree_parse reads without ever
\* following a parent that is not there: the two automata agree which braces
\* count, with comments, blanks, empty lines and missing keys in between.  (They
\* do not agree on quoted keys, on a word that begins like include, and on a text
\* that begins with a '{', for which no element is made.)
BeginsWithBrace(text) ==
  \E i \in DOMAIN text : /\ text[i] = "{"
                         /\ \A j \in 1..(i - 1) : text[j] \in {" ", ";", "\n"}
BracesMatch ==
  kind = "config" =>
    \A read \in {ReadText(typed, <<>>, <<>>)} :
      (read.rc = 0 /\ ~BeginsWithBrace(read.out)) =>
         \A made \in {Made(read.out)} : ~made.over /\ Len(made.x.open) = 1
=============================================================================
