-------------------------------- MODULE XForm --------------------------------
(* Forms, key=value&key=value (eris.xform.c): a list of pairs that is parsed  *)
(* from a query, edited, and packed into a query again.  A form keeps the     *)
(* texts it decoded, but encodes the ones it is given by eris_xfrom_set.      *)
EXTENDS UrlCode
LOCAL INSTANCE SequencesExt

CONSTANTS Queries,    \* query strings handed to eris_xform_parse
          Keys,       \* keys and values handed to eris_xfrom_set
          Values,
          MaxPairs    \* bound on the number of pairs

VARIABLES form,       \* the pairs, [key, value], both eris strings
          rc          \* what the last call returned

Init == form = <<>> /\ rc = 0

(***************************************************************************)
(* Parsing.                                                                *)
(***************************************************************************)
\* A field of one or two parts; a missing value is NULL, which does not decode.
ParseField(x, field) ==
  LET Code(parts) ==
        CASE parts = <<>> -> EERIS_ERROR
          [] Len(parts) > 2 -> 1
          [] \E i \in 0..1 : DecodeErisRc(StrArrayAt(parts, i)) # 0 -> EERIS_ERROR
          [] OTHER -> 0
      Decoding(parts, i) == DecodeEris(NoString, StrArrayAt(parts, i))
      Field(parts) ==
        IF Code(parts) # 0 THEN [x EXCEPT !.rc = Code(parts)]
        ELSE [x EXCEPT !.form = Append(@, [key |-> Decoding(parts, 0), value |-> Decoding(parts, 1)])]
  IN IF x.rc # 0 THEN x ELSE Local(StrSplitEris(field, <<"=">>), Field)

\* An error leaves nothing of the fields before it.
Parsed(query) ==
  LET None(code) == [form |-> <<>>, rc |-> code]
      Fields(fields) ==
        IF fields = <<>> THEN None(EERIS_ERROR)
        ELSE Local(Loop(ParseField, None(0), fields),
                   LAMBDA all : IF all.rc = 0 THEN all ELSE None(all.rc))
  IN IF query = NoString THEN None(0) ELSE Local(StrSplitEris(query, <<"&">>), Fields)

Parse == \E q \in Queries : \E parsed \in {Parsed(StrCreate(q))} :
  /\ Len(parsed.form) <= MaxPairs
  /\ form' = parsed.form /\ rc' = parsed.rc

(***************************************************************************)
(* Looking up, setting, erasing and packing.                               *)
(***************************************************************************)
Places(f, key) == {i \in DOMAIN f : StrIsEqual(f[i].key, key, FALSE)}
Place(f, key) == CHOOSE i \in Places(f, key) : \A j \in Places(f, key) : i <= j

Get(f, key) == IF Places(f, key) = {} THEN NoString ELSE f[Place(f, key)].value

\* A new pair is stored encoded, and as many characters are taken of the value
\* as the key has; a pair that is there gets the value as it is.
SetPair(f, key, value) ==
  IF Places(f, key) # {}
  THEN [f EXCEPT ![Place(f, key)].value = StrSet(@, value)]
  ELSE Append(f, [key   |-> Encode(NoString, key, Len(key)),
                  value |-> Encode(NoString, value \o Zeros(Len(key)), Len(key))])

Set == \E k \in Keys, v \in Values :
  /\ Len(SetPair(form, k, v)) <= MaxPairs
  /\ form' = SetPair(form, k, v)
  /\ rc' = 0

Erase == \E k \in Keys :
  /\ form' = SelectSeq(form, LAMBDA p : ~StrIsEqual(p.key, k, FALSE))
  /\ UNCHANGED rc

Cleanup == form' = <<>> /\ UNCHANGED rc

PackPair(out, p) ==
  StrPrintfAppend(out, << [conv |-> "S", arg |-> p.key], [lit |-> "="],
                          [conv |-> "S", arg |-> p.value], [lit |-> "&"] >>)

\* Pack encodes each text, which it cannot if there is none.
PackRc(f) ==
  IF \E i \in DOMAIN f : EERIS_ERROR \in {EncodeErisRc(f[i].key), EncodeErisRc(f[i].value)}
  THEN EERIS_ERROR ELSE 0

\* Mutant of Pack: the last character of the last value is cut off too.
PackCutsTwo(f) ==
  Local(Loop(PackPair, NoString, f),
        LAMBDA all : IF all = NoString THEN all ELSE StrCleanupAs(all, all.size - 2, all.size))

\* The pairs are encoded into two strings that are then not used: what is
\* written are the texts of the form.  The last '&' is cut off.  An error leaves
\* no string.
Pack(f) ==
  LET Cut(all) == IF all = NoString THEN all ELSE StrCleanupAs(all, all.size - 1, all.size)
  IN IF PackRc(f) # 0 THEN NoString ELSE Local(Loop(PackPair, NoString, f), Cut)

Next == Parse \/ Set \/ Erase \/ Cleanup

(***************************************************************************)
(* Properties.                                                             *)
(***************************************************************************)
PlainText(es) == \A i \in 1..es.size : Plain(StrText(es)[i])

\* A form of plain texts survives being packed and parsed, whatever was parsed,
\* set and erased before, as long as no value is shorter than two characters
\* (the split of the string loses a last field of one character).
PlainFormsRoundTrip ==
  (form # <<>> /\ \A i \in DOMAIN form : /\ PlainText(form[i].key) /\ form[i].key.size > 0
                                         /\ PlainText(form[i].value) /\ form[i].value.size > 1) =>
    \A packed \in {Pack(form)} : \A again \in {Parsed(packed)} :
      /\ PackRc(form) = 0 /\ again.rc = 0
      /\ Len(again.form) = Len(form)
      /\ \A i \in DOMAIN form : /\ StrText(again.form[i].key) = StrText(form[i].key)
                                /\ StrText(again.form[i].value) = StrText(form[i].value)
=============================================================================
