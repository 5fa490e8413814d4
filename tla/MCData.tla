------------------------------- MODULE MCData -------------------------------
(* The parts of the library that run in one thread: list, string, buffer,     *)
(* form, texts that are typed, and the configuration.  A behaviour is that of *)
(* one of them, the subject; the others stay as they are initialised.         *)
EXTENDS Config, EList, Bytes
LOCAL INSTANCE SequencesExt

CONSTANT Subjects

VARIABLES subject, form, rc, kind, typed

MCTexts == {<<>>, <<"a">>, <<"a", "b">>, <<" ">>}
MCNumbers == {-512, -10, 7, 511}
MCPieces == {<<"x">>, <<"x", "x", "x">>}

Frm == INSTANCE XForm WITH
  Queries <- {<<"a", "=", "b", "b">>, <<"a", "=", "b", "b", "&", "a", "b", "=", "%", "2", "b", "b">>,
              <<"a", "=", "b">>, <<"a", "=", "b", "b", "&", "a">>, <<"a", "&", "b", "=", "a", "a">>},
  Keys <- {<<"a">>, <<"a", "b">>}, Values <- {<<"a", "a">>, <<"b", "+", "a">>},
  MaxPairs <- 2

Typ == INSTANCE Typing WITH
  Alphabets <- [path   |-> {"a", ".", "[", "]", "1", "*", "-", " "},
                config |-> {"a", "b", "{", "}", ";", " ", "#", "\n"},
                url    |-> {"a", " ", "%", "+", "2", "\n"}],
  MaxLength <- [path |-> 5, config |-> 5, url |-> 4]

DataInit ==
  /\ subject \in Subjects
  /\ Init /\ (subject # "list" => ~list.enable_prio)
  /\ StringInit /\ BufferInit /\ Frm!Init
  /\ Typ!Init /\ (subject # "typing" => kind = "path")
  /\ CfInit

DataNext ==
  \/ subject = "list" /\ Next /\ UNCHANGED <<subject, es, buf, form, rc, kind, typed, cfvars>>
  \/ subject = "string" /\ StringNext /\ UNCHANGED <<subject, list, buf, form, rc, kind, typed, cfvars>>
  \/ subject = "buffer" /\ BufferNext /\ UNCHANGED <<subject, list, es, form, rc, kind, typed, cfvars>>
  \/ subject = "form" /\ Frm!Next /\ UNCHANGED <<subject, list, es, buf, kind, typed, cfvars>>
  \/ subject = "typing" /\ Typ!Type /\ UNCHANGED <<subject, list, es, buf, form, rc, cfvars>>
  \/ subject = "config" /\ CfNext /\ UNCHANGED <<subject, list, es, buf, form, rc, kind, typed>>

DataSpec ==
  DataInit /\ [][DataNext]_<<subject, list, es, buf, form, rc, kind, typed, cfvars>>

\* The files: one includes the other, which can be read alone too; the values of
\* the third are quoted, and one has a character directly behind the quote.
ConfigFiles ==
  LET conf == <<"m">>
      sub == <<"d", "/", "s">>
      quoted == <<"q">>
  IN [f \in {conf, sub, quoted} |->
       CASE f = conf -> <<"http", "{", "\n", "header_max_size", " ", "2", "k", "\n",
              "send_buffer_size", " ", "1", "k", "\n", "recv_buffer_size", " ", "5", "1", "0", "\n",
              "daemon", " ", "O", "f", "F", "\n",
              "i", "n", "c", "l", "u", "d", "e", " ", "dquote", "d", "/", "s", "dquote", "\n", "}", "\n",
              "cpuset", " ", "1", ":", "3", " ", "2", ":", "1", "\n">>
         [] f = quoted ->
            <<"w", " ", "dquote", "c", " ", "d", "dquote", "e", "\n",
              "module", " ", "dquote", "x", "#", "y", "dquote", ";">>
         [] OTHER ->
            <<"module", "{", "a", " ", "x", "\n", "}", "#", "c", "\n",
              "mime-types", "{", "h", " ", "html", "\n", "}">>]
ConfigPaths ==
  {<<"http", ".", "module", "[", "1", "]", ".", "a">>, <<"module", "[", "-", "1", "]">>,
   <<"http", ".", "worker_n">>, <<"module", "[", "0", "]">>}
ConfigValues == {<<"3">>, <<"i", "n", "c", "#">>, <<"i", "n", "c", " ", "l">>}
ConfigPrefix == <<"/", "opt">>

\* Searching finds the first occurrence, replacing changes just what was found,
\* and the calls that come in several copies agree.
EditsAreTextual ==
  subject = "string" => (SearchFindsFirst /\ ReplacesAreTextual /\ VariantsAgree)
\* A form of plain texts survives being packed and parsed.
PlainFormsRoundTrip == subject = "form" => Frm!PlainFormsRoundTrip
\* Paths, encoded texts and numbers are read as they were written, and the two
\* automata that read a configuration agree which of its braces count.
ReadsBack == /\ subject = "typing" => (Typ!ReadsBack /\ Typ!BracesMatch)
             /\ subject = "string" => NumbersRoundTrip
=============================================================================
