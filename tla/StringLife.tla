----------------------------- MODULE StringLife -----------------------------
(* One string that its owner fills, edits, prints into, grows and frees, in   *)
(* any order of the calls of eris.string.c.  The texts handed in are few and  *)
(* short; what varies is the allocation, what it holds behind the terminator, *)
(* and the type of its header.                                                *)
EXTENDS EString

CONSTANTS Texts,      \* C strings the callers pass
          Letters,    \* characters they pass
          Numbers,    \* numbers they print
          Truncates,  \* some caller sets a NUL into the text
          MaxSize     \* bound on the size of the string

\* What a C string is made of.
Chars == DOMAIN CodeOf \ {NUL}
ASSUME StringLifeAssumption ==
  /\ Texts \subseteq Seq(Chars) /\ Letters \subseteq Chars
  /\ Numbers \subseteq Int /\ Truncates \in BOOLEAN /\ MaxSize \in Nat

VARIABLE es           \* the string, NoString before it is created

StringInit == es = NoString

\* Bounds the growth: a longer string is not followed further.
Becomes(t) == t.size <= MaxSize /\ es' = t

Present == es # NoString

Create == es = NoString /\ \E s \in Texts : Becomes(StrCreate(s)) \/ Becomes(StrClone(s))
SetText == Present /\ \E s \in Texts : Becomes(StrSet(es, s))
AppendText == \E s \in Texts : Becomes(StrAppend(es, s))
AppendChar == \E c \in Letters : Becomes(StrAppendC(es, c))
CopyIn == Present /\ \E s \in Texts : Becomes(StrCopy(es, s))
SetChar == /\ Present
           /\ \E at \in 0..MaxSize, c \in Letters \cup (IF Truncates THEN {NUL} ELSE {}) :
                Becomes(StrSetAtC(es, at, c))
Cleanup == Present /\ Becomes(StrCleanup(es))
EraseText == Present /\ \E s \in Texts : Becomes(StrErase(es, s))
ReplaceOne == Present /\ \E s, r \in Texts : Becomes(StrReplace(es, s, r))
ReplaceEach == Present /\ \E s, r \in Texts : Becomes(StrReplaceAll(es, s, r))
Strip == Present /\ Becomes(StrStrip(es))
Turn == Present /\ (Becomes(StrReverse(es)) \/ \E pos \in 0..MaxSize : Becomes(StrRotation(es, pos)))
ChangeCase == Present /\ (Becomes(StrToLower(es)) \/ Becomes(StrToUpper(es)))
CutOut == Present /\ \E b, e \in 0..MaxSize : Becomes(StrAssign(es, b, e))
Clone == Present /\ Becomes(StrCloneEris(es))
WriteNumber == \E v \in Numbers : Becomes(StrLToA(es, v))
Free == Present /\ Becomes(StrFree(es))

StringNext == \/ Create \/ SetText \/ AppendText \/ AppendChar \/ CopyIn \/ SetChar \/ Cleanup
        \/ EraseText \/ ReplaceOne \/ ReplaceEach \/ Strip \/ Turn \/ ChangeCase \/ CutOut
        \/ Clone \/ WriteNumber \/ Free

(***************************************************************************)
(* What the callers rely on.                                               *)
(***************************************************************************)
\* The text ends where the size says, with a NUL that lies inside the
\* allocation, and no NUL before it; nothing was ever written outside the
\* allocation, whatever calls came before (eris_string_append, realloc, copy_n,
\* replace and the printing functions each compute the room anew).
WellFormed ==
  /\ Len(es.bytes) = es.alloc
  /\ Present => /\ es.size < es.alloc
                /\ Byte(es, es.size) = NUL
                /\ \A i \in 0..(es.size - 1) : Byte(es, i) # NUL

\* Nothing is left behind the terminator: always, unless a NUL was set into the
\* text.
CleanTail == \A i \in es.size..(es.alloc - 1) : Byte(es, i) = NUL

FirstAt(t, from, sub) ==
  LET places == {p \in from..(Len(t) - Len(sub)) : SubSeq(t, p + 1, p + Len(sub)) = sub}
  IN IF places = {} THEN NPOS ELSE CHOOSE p \in places : \A q \in places : p <= q

\* eris_string_find_at never backs up in the text, and still finds the first
\* occurrence in a string without remains behind its end.
SearchFindsFirst ==
  (Present /\ CleanTail) =>
    \A sub \in Texts \ {<<>>}, at \in 0..MaxSize :
      StrFindAt(es, at, sub) = FirstAt(StrText(es), at, sub)

ReplacedFrom(t, from, sub, rep) ==
  LET at[i \in Nat] ==
        CASE i >= Len(t) -> <<>>
          [] i < Len(t) /\ i = FirstAt(t, i, sub) -> rep \o at[i + Len(sub)]
          [] OTHER -> <<t[i + 1]>> \o at[i + 1]
  IN SubSeq(t, 1, from) \o at[from]

\* Replacing, in place or by a new allocation, changes exactly the occurrences,
\* from the first to the last, and the result does not depend on how much room
\* the string has.
ReplacesAreTextual ==
  (Present /\ CleanTail) =>
    \A sub \in Texts \ {<<>>}, rep \in Texts :
      LET t == StrText(es)
          first == FirstAt(t, 0, sub)
      IN /\ StrText(StrReplaceAll(es, sub, rep)) = ReplacedFrom(t, 0, sub, rep)
         /\ StrText(StrReplace(es, sub, rep)) =
              IF first = NPOS THEN t
              ELSE SubSeq(t, 1, first) \o rep \o SubSeq(t, first + Len(sub) + 1, Len(t))

\* The calls come in two or four copies each, for a C string or an eris string,
\* from the beginning or from a position.  On the same text they do the same; but
\* a search from a position does not look for a text as long as the string or as
\* what is left of it.
VariantsAgree ==
  Present =>
    \A sub, rep \in Texts \ {<<>>} :
      LET et == StrCreate(sub)
          er == StrCreate(rep)
          shorter == Len(sub) < es.size
      IN /\ CleanTail => (StrFindEris(es, et) = StrFind(es, sub))
         /\ (CleanTail /\ shorter) => (StrFindAtEris(es, 0, et) = StrFindAt(es, 0, sub))
         /\ CleanTail => (StrReplaceEris(es, et, er) = StrReplace(es, sub, rep))
         /\ (CleanTail /\ StrFind(es, sub) = NPOS) => (StrEraseEris(es, et) = es)
         /\ StrRFindEris(es, et) = StrRFind(es, sub)
         /\ shorter => (StrRFindAtEris(es, 0, et) = StrRFind(es, sub))
         /\ StrStartWithEris(es, et) = StrStartWith(es, sub)
         /\ StrEndWithEris(es, et) = StrEndWith(es, sub)
         /\ StrIsEqualEris(es, et, TRUE) = StrIsEqual(es, sub, TRUE)
         /\ StrIsEqual(es, sub, FALSE) = (StrText(es) = sub)
         /\ StrText(StrAppendEris(es, et)) = StrText(StrAppendN(es, sub, Len(sub)))
         /\ StrText(StrSetEris(es, et)) = StrText(StrSet(es, sub))
         /\ StrToUpperAtN(es, 0, es.size) = StrToUpper(es)
         /\ StrToLowerAt(es, 0) = StrToLowerN(es, es.size)

\* A number printed into a string that was used before reads back as itself,
\* except the least one, whose magnitude does not fit.
NumbersRoundTrip ==
  \A v \in Numbers \ {-2^(LongBits - 1)} : StrAToL(StrLToA(es, v)) = v

=============================================================================
