------------------------------- MODULE Config -------------------------------
(* The configuration of the server (eris.erishttp.c, eris.util.c): the tree   *)
(* that is read from files and changed by calls, the options taken from it,   *)
(* the media types, and how they are given up.                                *)
EXTENDS CfTree, Options
LOCAL INSTANCE SequencesExt

CONSTANTS Paths,      \* the key paths that are looked at
          NewValues,  \* the values that are set
          MaxCount    \* bound on the elements

VARIABLES tree, mime

cfvars == <<tree, attrs, mime>>

(***************************************************************************)
(* Looking up an option: if there is an http, below it only.               *)
(***************************************************************************)
Http == <<"http">>
Looked(t, path) == IF Existed(t, path) THEN [rc |-> 0, value |-> GetValue(t, path)]
                   ELSE [rc |-> EERIS_NOTFOUND, value |-> <<>>]
ConfigGet(t, key) ==
  IF Existed(t, Http) THEN Looked(t, Http \o <<".">> \o key) ELSE Looked(t, key)

\* g is what the configuration gives for each option.
Configured(t) == [key \in OptionNames |-> ConfigGet(t, <<key>>)]

(***************************************************************************)
(* Media types: pushed in front, and a blank behind what the file says.    *)
(***************************************************************************)
MimeExec(m, key, types) ==
  IF key = <<>> \/ types = <<>> THEN m
  ELSE <<[mime |-> key, types |-> Append(types, " ")]>> \o m
MimeTypes(pairs) == Loop(LAMBDA m, p : MimeExec(m, p[1], p[2]), <<>>, pairs)
MimeInit(t) ==
  LET there == Http \o <<".">> \o <<"mime-types">>
  IN IF Existed(t, there) THEN MimeTypes(Each(t, there)) ELSE MimeTypes(Each(t, <<"mime-types">>))

(***************************************************************************)
(* The life of a configuration.                                            *)
(***************************************************************************)
CfInit == tree = EmptyTree /\ Loading /\ mime = <<>>

\* A file is read and options are set before the server starts.
RECURSIVE Elements(_)
Elements(list) == Loop(LAMBDA n, e : n + 1 + Elements(e.kids), 0, list)

Load ==
  /\ Loading
  /\ \E file \in DOMAIN Files : tree' = ParseTree(tree, file).tree
  /\ UNCHANGED <<attrs, mime>>
SetOption ==
  /\ Loading
  /\ \E p \in Paths, v \in NewValues :
       /\ tree' = Set(tree, p, v)
       /\ Elements(tree'.kids) <= MaxCount
  /\ UNCHANGED <<attrs, mime>>
Start ==
  /\ tree # EmptyTree
  /\ \E g \in {Configured(tree)} : Take(g)
  /\ mime' = MimeInit(tree)
  /\ UNCHANGED tree
Stop ==
  /\ GiveUp /\ mime' = <<>> /\ tree' = CleanupTree(tree)

CfNext == Load \/ SetOption \/ Start \/ Stop
CfSpec == CfInit /\ [][CfNext]_cfvars

(***************************************************************************)
(* Properties.                                                             *)
(***************************************************************************)
\* The three functions that walk a path, each with a copy of the loops, agree on
\* what there is (eris_cftree_get, _esize, _existed).
WalksAgree ==
  \A p \in Paths :
    /\ (Get(tree, p) # <<>>) = Existed(tree, p)
    /\ (ESize(tree, p) > 0) = Existed(tree, p)

\* Dump quotes nothing, so that these mean something else when they are read.
Unquoted == {"#", ";", "{", "}", "\n", "\t", Dequote}
LegibleText(s) ==
  /\ \A i \in DOMAIN s : s[i] \notin Unquoted
  /\ s # <<>> => ~IsSpace(s[1]) /\ ~IsSpace(s[Len(s)])
LegibleKey(s) ==
  /\ s # <<>> /\ LegibleText(s)
  /\ \A i \in DOMAIN s : s[i] # " "
  /\ ~IsPrefix(<<"i", "n", "c">>, s)

RECURSIVE Legible(_)
Legible(list) ==
  \A e \in Range(list) : LegibleKey(e.key) /\ LegibleText(e.value) /\ Legible(e.kids)

\* What eris_cftree_dump and _dumpout print of a tree that was read and set is
\* read again as the same tree, whether values came quoted or not, if they can
\* do without quotes: every element has a key, of one word that does not begin as
\* include does, and no key or value has one of the characters that end it, begin
\* a comment or are changed, nor begins or ends in blanks.
DumpReadsBack ==
  Legible(tree.kids) =>
    \A text \in {Dump(tree), Dumpout(tree)} :
      \A read \in {ReadText(text, <<>>, <<>>)} :
        read.rc = 0 /\ TreeOf(read.out).kids = tree.kids

HasIndex(p) == \E i \in DOMAIN ParsePath(p).path : ~IsKey(SubSeq(ParsePath(p).path, i, i))
Direct(p) == ParsePath(p).rc = 0 /\ (~HasIndex(p) \/ Existed(tree, p)) /\ "-" \notin {p[i] : i \in DOMAIN p}

\* A value that is set is what is got, if the path names keys only or an index
\* that is there; and the value of no path that was there changes, but for a
\* path to the same element.  (A new index and a negative one are set in other
\* places than they are got from.)
SetIsGot ==
  [][SetOption =>
       \A p \in {q \in Paths : Direct(q)}, v \in NewValues :
         tree' = Set(tree, p, v) =>
           /\ GetValue(tree', p) = v
           /\ \A q \in Paths : Existed(tree, q) =>
                \/ GetValue(tree', q) = GetValue(tree, q)
                \/ Get(tree, q) = Get(tree, p)]_cfvars
=============================================================================
