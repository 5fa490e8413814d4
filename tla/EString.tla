------------------------------ MODULE EString ------------------------------
(* The strings of the server (eris.string.c).  A string is an allocation that *)
(* holds a text, a terminating NUL and, behind it, whatever earlier calls     *)
(* left there, with its size kept in a header in front.  A call returns the   *)
(* string it leaves behind, as the code does through eris_string_t *.         *)
(*                                                                            *)
(* A character is a string of length one, a C string a sequence of them.      *)
(* Positions are those of the code: the first character is at 0.  The header  *)
(* types 8, 16, 32 and 64 differ in the width of their size field: Limit8 is  *)
(* ERIS_STRING_8_MSIZE, and one wider type stands for the others.  Allocation *)
(* never fails.  Bytes written outside the allocation lengthen bytes, so that *)
(* an invariant sees them; a byte read outside of it is NUL.  Three printable  *)
(* characters are named, because TLA+ has no way to write them.               *)
EXTENDS Integers, Sequences, FiniteSets
LOCAL INSTANCE SequencesExt

CONSTANTS Limit8,      \* ERIS_STRING_8_MSIZE: allocations from here on are wide
          IntBits,     \* width of eris_int_t
          LongBits     \* width of eris_long_t and eris_llong_t

ASSUME EStringAssumption ==
  /\ Limit8 \in Nat \ {0}
  /\ IntBits \in 5..30
  /\ LongBits \in 5..30

NUL == "NUL"
NPOS == -1
EERIS_ERROR == -1

(***************************************************************************)
(* Characters.                                                             *)
(***************************************************************************)
Printable ==
  << " ", "!", "dquote", "#", "$", "%", "&", "'", "(", ")", "*", "+", ",", "-", ".",
     "/", "0", "1", "2", "3", "4", "5", "6", "7", "8", "9", ":", ";", "<", "=",
     ">", "?", "@", "A", "B", "C", "D", "E", "F", "G", "H", "I", "J", "K", "L",
     "M", "N", "O", "P", "Q", "R", "S", "T", "U", "V", "W", "X", "Y", "Z", "[",
     "bslash", "]", "^", "_", "grave", "a", "b", "c", "d", "e", "f", "g", "h", "i", "j",
     "k", "l", "m", "n", "o", "p", "q", "r", "s", "t", "u", "v", "w", "x", "y",
     "z", "{", "|", "}", "~" >>

CodeOf ==
  [c \in {Printable[i] : i \in DOMAIN Printable} \cup {NUL, "\t", "\n", "\r"} |->
     CASE c = NUL -> 0 [] c = "\t" -> 9 [] c = "\n" -> 10 [] c = "\r" -> 13
       [] OTHER -> 31 + CHOOSE i \in DOMAIN Printable : Printable[i] = c]

\* Every character is listed once, at the place that tells its code.
ASSUME CodeAssumption == \A i \in DOMAIN Printable : CodeOf[Printable[i]] = 31 + i

Char(n) == Printable[n - 31]
Between(c, lo, hi) ==
  c \in DOMAIN CodeOf /\ CodeOf[lo] <= CodeOf[c] /\ CodeOf[c] <= CodeOf[hi]
IsDigit(c) == Between(c, "0", "9")
IsUpper(c) == Between(c, "A", "Z")
IsLower(c) == Between(c, "a", "z")
IsSpace(c) == c \in {" ", "\t", "\n", "\r"}
ToLower(c) == IF IsUpper(c) THEN Char(CodeOf[c] + 32) ELSE c
ToUpper(c) == IF IsLower(c) THEN Char(CodeOf[c] - 32) ELSE c
IsHex(c) == IsDigit(c) \/ Between(c, "a", "f") \/ Between(c, "A", "F")
HexOf(c) == IF IsDigit(c) THEN CodeOf[c] - 48 ELSE CodeOf[ToLower(c)] - 87

Least(a, b) == IF a <= b THEN a ELSE b
Greatest(a, b) == IF a >= b THEN a ELSE b

\* The result of k rounds of a loop: Step maps what a round finds to what it
\* leaves, and leaves a finished loop as it is.
Rounds(Step(_), start, k) ==
  LET after[n \in 0..k] == IF n = 0 THEN start ELSE Step(after[n - 1])
  IN after[k]

\* A value that is computed once, as into a local variable, and used by Op.
Local(value, Op(_)) == CHOOSE r \in {Op(v) : v \in {value}} : TRUE
\* A loop over a sequence.
Loop(Op(_, _), start, seq) == Local(seq, LAMBDA s : FoldLeft(Op, start, s))

(***************************************************************************)
(* The object.                                                             *)
(***************************************************************************)
NoString == [alloc |-> 0, size |-> 0, bytes |-> <<>>]        \* NULL
Zeros(n) == [i \in 1..n |-> NUL]

StrAlloc(n) == [alloc |-> n + 1, size |-> 0, bytes |-> Zeros(n + 1)]

\* size is a field of the header, as wide as the type of the header.
WithSize(es, n) ==
  [es EXCEPT !.size = IF es.alloc < Limit8 THEN n % (Limit8 + 1) ELSE n]

Byte(es, i) == IF i < Len(es.bytes) THEN es.bytes[i + 1] ELSE NUL

Write(es, at, s) ==
  [es EXCEPT !.bytes = [i \in 1..Greatest(Len(es.bytes), at + Len(s)) |->
     IF i > at /\ i <= at + Len(s) THEN s[i - at] ELSE Byte(es, i - 1)]]

\* What a char * that points at position at sees, up to the first NUL.
CText(es, at) ==
  LET end == CHOOSE i \in at..(Len(es.bytes) + at) :
               Byte(es, i) = NUL /\ \A j \in at..(i - 1) : Byte(es, j) # NUL
  IN SubSeq(es.bytes, at + 1, end)

StrSize(es) == es.size
StrText(es) == SubSeq(es.bytes, 1, es.size)
StrCount(es) == IF es = NoString THEN 0 ELSE es.alloc - 1
StrCapacity(es) == StrCount(es) - StrSize(es)
StrEmpty(es) == StrSize(es) = 0
StrAt(es, at) == IF at < StrSize(es) THEN Byte(es, at) ELSE NUL
StrFree(es) == NoString

StrCleanup(es) ==
  IF es = NoString THEN es
  ELSE WithSize(Write(es, 0, Zeros(StrCount(es))), 0)

(***************************************************************************)
(* Copies and creation.  A copy is appended, as far as there is room.      *)
(***************************************************************************)
StrCopyN(es, s, n) ==
  IF es = NoString \/ n = 0 THEN es
  ELSE LET m == Least(n, StrCapacity(es))
       IN WithSize(Write(es, es.size, SubSeq(s, 1, m) \o <<NUL>>), es.size + m)
StrCopy(es, s) == StrCopyN(es, s, Len(s))
StrCopyEris(es, et) == StrCopyN(es, et.bytes, et.size)
StrCopyNEris(es, et, n) == StrCopyN(es, et.bytes, Least(et.size, n))

StrRealloc(es, n) ==
  IF n = 0 \/ es = NoString \/ StrCount(es) = n THEN es
  ELSE StrCopyEris(StrAlloc(n), es)

StrCreate(s) == StrCopyN(StrAlloc(Len(s)), s, Len(s))
StrCreateN(s, n) == StrCopyN(StrAlloc(n), s, Least(n, Len(s)))
StrClone(s) == StrCopyN(StrAlloc(Len(s) + 1), s, Len(s))
StrCloneN(s, n) == StrCopyN(StrAlloc(Least(n, Len(s)) + 1), s, Least(n, Len(s)))
StrCloneEris(es) ==
  IF es = NoString THEN es ELSE StrCopyEris(StrAlloc(es.size + 1), es)

StrAssign(es, b, e0) ==
  LET e == Least(e0, es.size)
      n == IF b < e THEN e - b ELSE 1
  IN CASE es = NoString -> es
       [] es # NoString /\ b < es.size /\ b <= e ->
            StrCopyN(StrAlloc(n), SubSeq(es.bytes, b + 1, Len(es.bytes)), n)
       [] OTHER -> StrAlloc(8)

(***************************************************************************)
(* Appending and setting.                                                  *)
(***************************************************************************)
\* Mutant of Grown: the NUL is forgotten.
GrownTooLate(es, n) ==
  CASE es = NoString -> StrAlloc(n)
    [] es # NoString /\ n > StrCapacity(es) + 1 -> StrRealloc(es, es.size + n + 1)
    [] OTHER -> es

\* The room every append makes first: only what is missing, plus one.
Grown(es, n) ==
  CASE es = NoString -> StrAlloc(n)
    [] es # NoString /\ n > StrCapacity(es) -> StrRealloc(es, es.size + n + 1)
    [] OTHER -> es

StrAppend(es, s) ==
  LET t == Grown(es, Len(s))
  IN WithSize(Write(t, t.size, s \o <<NUL>>), t.size + Len(s))
StrAppendN(es, s, n) == StrAppend(es, SubSeq(s, 1, Least(n, Len(s))))
StrAppendEris(es, et) == IF et = NoString THEN es ELSE StrAppend(es, StrText(et))
StrAppendC(es, c) ==
  LET t == Grown(es, 1)
  IN WithSize(Write(t, t.size, <<c, NUL>>), IF c = NUL THEN t.size ELSE t.size + 1)

StrSet(es, s) == IF s = <<>> THEN StrCleanup(es) ELSE StrAppend(StrCleanup(es), s)
StrSetEris(es, et) == StrAppendEris(StrCleanup(es), et)
StrSetAtC(es, at, c) ==
  CASE at >= es.size -> es
    [] at < es.size /\ c # NUL -> Write(es, at, <<c>>)
    [] OTHER -> WithSize(Write(es, at, <<NUL>>), at)

\* The characters from b to e are cut out.  clear_size is compared with the
\* size, not with what is left behind b.
StrCleanupAs(es, b, e) ==
  LET clear == IF e - b > es.size THEN es.size - b ELSE e - b
      rest == CText(es, Least(e, es.size))
      cut == IF clear >= es.size THEN Write(es, 0, Zeros(StrCount(es)))
             ELSE Write(es, b, rest \o Zeros(StrCount(es) - b - Len(rest)))
  IN IF es = NoString \/ b > e \/ b >= es.size THEN es
     ELSE WithSize(cut, es.size - clear)

(***************************************************************************)
(* Comparison.  rc is EERIS_ERROR, 0 or 1.                                 *)
(***************************************************************************)
Sign(n) == CASE n < 0 -> EERIS_ERROR [] n = 0 -> 0 [] OTHER -> 1

\* Both texts are read up to index n, and no further than the first NUL or the
\* first difference.
CompareUpTo(es, et, n, nocase) ==
  LET C(c) == CodeOf[IF nocase THEN ToLower(c) ELSE c]
      Stops(i) == \/ Byte(es, i) = NUL \/ Byte(et, i) = NUL
                  \/ C(Byte(es, i)) # C(Byte(et, i))
      stops == {i \in 0..n : Stops(i)}
      at == CHOOSE i \in stops : \A j \in stops : i <= j
  IN IF stops = {} THEN 0 ELSE Sign(C(Byte(es, at)) - C(Byte(et, at)))

CString(s) == [alloc |-> Len(s) + 1, size |-> Len(s), bytes |-> Append(s, NUL)]

StrCompare(es, s, nocase) ==
  IF es = NoString THEN EERIS_ERROR ELSE CompareUpTo(es, CString(s), es.size, nocase)

\* Index n is compared too.
StrCompareN(es, s, n, nocase) ==
  CASE n = 0 -> 0
    [] n > 0 /\ es = NoString -> EERIS_ERROR
    [] OTHER -> CompareUpTo(es, CString(s), n, nocase)

StrCompareEris(es, et, nocase) ==
  CASE es = NoString /\ et = NoString -> 0
    [] es = NoString /\ et # NoString -> EERIS_ERROR
    [] es # NoString /\ et = NoString -> 1
    [] es.size # et.size -> Sign(es.size - et.size)
    [] OTHER -> CompareUpTo(es, et, es.size, nocase)

StrIsEqual(es, s, nocase) == StrCompare(es, s, nocase) = 0
StrIsEqualN(es, s, n, nocase) == StrCompareN(es, s, n, nocase) = 0
StrIsEqualEris(es, et, nocase) == StrCompareEris(es, et, nocase) = 0

(***************************************************************************)
(* Searching.                                                              *)
(***************************************************************************)
\* As many characters of sub as the text has at position at.
Matched(es, at, sub) ==
  CHOOSE m \in 0..Len(sub) : /\ \A i \in 1..m : Byte(es, at + i - 1) = sub[i]
                             /\ m < Len(sub) => Byte(es, at + m) # sub[m + 1]

\* A match that starts at a place fails at the m-th character behind it.  The
\* search goes on to the next place where the character that was missed occurs,
\* and starts a new match so that the character falls into its place.  A mismatch
\* with the NUL itself is passed as well: the bytes behind it are searched.
Search(es, from, sub) ==
  LET match[p \in from..Len(es.bytes)] ==
        LET m == Matched(es, p, sub)
            behind == CText(es, p + m + 1)
            next == {i \in 1..Len(behind) : behind[i] = sub[m + 1]}
        IN CASE Byte(es, p) = NUL -> NPOS
             [] Byte(es, p) # NUL /\ m = Len(sub) -> p
             [] Byte(es, p) # NUL /\ m < Len(sub) /\ next = {} -> NPOS
             [] OTHER -> match[p + CHOOSE i \in next : \A j \in next : i <= j]
  IN match[from]

StrFind(es, sub) == IF sub = <<>> \/ es.size = 0 THEN NPOS ELSE Search(es, 0, sub)
StrFindAt(es, at, sub) ==
  IF sub = <<>> \/ at >= es.size THEN NPOS ELSE Search(es, at, sub)
StrFindEris(es, et) ==
  IF et.size = 0 \/ et.size > es.size THEN NPOS ELSE Search(es, 0, StrText(et))
\* A substring as long as the string is not looked for.
StrFindAtEris(es, at, et) ==
  IF et.size = 0 \/ at >= es.size \/ et.size >= es.size THEN NPOS
  ELSE Search(es, at, StrText(et))

\* Backwards, the ends are tried from the last one down to low.
SearchBack(es, low, sub) ==
  LET places == {p \in low..(es.size - Len(sub)) :
                   SubSeq(es.bytes, p + 1, p + Len(sub)) = sub}
  IN IF places = {} THEN NPOS ELSE CHOOSE p \in places : \A q \in places : q <= p

StrRFind(es, sub) ==
  IF sub = <<>> \/ Len(sub) > es.size THEN NPOS ELSE SearchBack(es, 0, sub)
\* A substring that fills everything from at on is not looked for.
StrRFindAt(es, at, sub) ==
  IF sub = <<>> \/ at >= es.size \/ Len(sub) >= es.size - at THEN NPOS
  ELSE SearchBack(es, at, sub)
StrRFindEris(es, et) == StrRFind(es, StrText(et))
StrRFindAtEris(es, at, et) == StrRFindAt(es, at, StrText(et))

StrStartWith(es, s) ==
  IF s = <<>> THEN es.size = 0 ELSE IsPrefix(s, CText(es, 0))
StrStartWithEris(es, et) == StrStartWith(es, StrText(et))
StrEndWith(es, s) ==
  IF s = <<>> THEN es.size = 0 ELSE IsSuffix(s, StrText(es))
StrEndWithEris(es, et) == StrEndWith(es, StrText(et))

(***************************************************************************)
(* Replacing and erasing.                                                  *)
(***************************************************************************)
\* Mutant of Splice: the size is not adjusted where the new text is longer.
SpliceKeepsSize(es, pos, cut, rep) ==
  LET step == Len(rep) - cut
      rest == CText(es, pos + cut)
      new == rep \o rest
      fill == Greatest(0, es.size - pos - Len(new))
      moved == StrCopy(StrCopy(StrCopyNEris(StrAlloc(es.size + Len(rep)), es, pos), rep), rest)
  IN CASE step <= 0 -> WithSize(Write(es, pos, new \o Zeros(fill)), es.size + step)
       [] step > 0 /\ step <= StrCapacity(es) -> Write(es, pos, new \o <<NUL>>)
       [] OTHER -> moved

\* cut characters at pos give way to rep: in place while there is room for what
\* is added, else in a new string.
Splice(es, pos, cut, rep) ==
  LET step == Len(rep) - cut
      rest == CText(es, pos + cut)
      new == rep \o rest
      fill == Greatest(0, es.size - pos - Len(new))
      moved == StrCopy(StrCopy(StrCopyNEris(StrAlloc(es.size + Len(rep)), es, pos), rep), rest)
  IN CASE step <= 0 -> WithSize(Write(es, pos, new \o Zeros(fill)), es.size + step)
       [] step > 0 /\ step <= StrCapacity(es) ->
            WithSize(Write(es, pos, new \o <<NUL>>), es.size + step)
       [] OTHER -> moved

SpliceIfFound(es, pos, cut, rep) ==
  IF pos = NPOS THEN es ELSE Splice(es, pos, cut, rep)

StrReplace(es, sub, rep) == SpliceIfFound(es, StrFind(es, sub), Len(sub), rep)
StrReplaceAt(es, at, sub, rep) ==
  SpliceIfFound(es, StrFindAt(es, at, sub), Len(sub), rep)
StrReplaceEris(es, sub, rep) ==
  SpliceIfFound(es, StrFindEris(es, sub), sub.size, StrText(rep))
StrReplaceAtEris(es, at, sub, rep) ==
  SpliceIfFound(es, StrFindAtEris(es, at, sub), sub.size, StrText(rep))

\* Every occurrence from at on; the search goes on behind what was put in.
StrReplaceAllAt(es, from, sub, rep) ==
  LET Step(x) == LET pos == StrFindAt(x.es, x.at, sub)
                 IN IF pos = NPOS THEN x
                    ELSE [es |-> StrReplaceAt(x.es, pos, sub, rep), at |-> pos + Len(rep)]
  IN Rounds(Step, [es |-> es, at |-> from], es.size).es
StrReplaceAll(es, sub, rep) == StrReplaceAllAt(es, 0, sub, rep)

StrReplaceAllAtEris(es, from, sub, rep) ==
  LET Step(x) == LET pos == StrFindAtEris(x.es, x.at, sub)
                 IN IF pos = NPOS THEN x
                    ELSE [es |-> StrReplaceAtEris(x.es, pos, sub, rep), at |-> pos + rep.size]
  IN Rounds(Step, [es |-> es, at |-> from], es.size).es
StrReplaceAllEris(es, sub, rep) == StrReplaceAllAtEris(es, 0, sub, rep)

\* The position found is absolute, and is added to at all the same.
StrEraseAt(es, from, sub) ==
  LET Step(x) == LET pos == StrFindAt(x.es, x.at, sub)
                 IN IF pos = NPOS THEN x
                    ELSE [es |-> StrCleanupAs(x.es, pos, pos + Len(sub)), at |-> x.at + pos]
  IN Rounds(Step, [es |-> es, at |-> from], es.size).es
StrErase(es, sub) == StrEraseAt(es, 0, sub)

StrEraseAtEris(es, from, et) ==
  LET Step(x) == LET pos == StrFindAtEris(x.es, x.at, et)
                 IN IF pos = NPOS THEN x
                    ELSE [es |-> StrCleanupAs(x.es, pos, pos + et.size), at |-> x.at + pos]
  IN Rounds(Step, [es |-> es, at |-> from], es.size).es
StrEraseEris(es, et) == StrEraseAtEris(es, 0, et)

(***************************************************************************)
(* Order, blanks and case.                                                 *)
(***************************************************************************)
StrReverse(es) == Write(es, 0, Reverse(StrText(es)))

\* Both parts are turned round, then the whole; position 0 counts as 1.
StrRotation(es, pos) ==
  LET k == IF pos = 0 THEN 1 ELSE pos
      t == StrText(es)
  IN IF es.size <= 1 \/ pos >= es.size THEN es
     ELSE Write(es, 0, Reverse(Reverse(SubSeq(t, 1, k)) \o Reverse(SubSeq(t, k + 1, es.size))))

StrLStrip(es) ==
  LET t == CText(es, 0)
      kept == CHOOSE n \in 0..Len(t) : /\ \A i \in 1..n : IsSpace(t[i])
                                       /\ n < Len(t) => ~IsSpace(t[n + 1])
  IN IF es.size = 0 THEN es
     ELSE WithSize(Write(es, 0, SubSeq(t, kept + 1, Len(t)) \o
                                Zeros(Greatest(0, es.size - (Len(t) - kept)))), es.size - kept)

StrRStrip(es) ==
  LET t == StrText(es)
      left == CHOOSE n \in 0..Len(t) : /\ \A i \in (n + 1)..Len(t) : IsSpace(t[i])
                                       /\ n > 0 => ~IsSpace(t[n])
  IN WithSize(Write(es, left, Zeros(es.size - left)), left)
StrStrip(es) == StrLStrip(StrRStrip(es))

\* F on n characters from at on, as far as the text goes.
MapText(es, at, n, F(_)) ==
  LET t == StrText(es)
  IN Write(es, 0, [i \in DOMAIN t |-> IF i > at /\ i <= at + n THEN F(t[i]) ELSE t[i]])

StrToLower(es) == MapText(es, 0, es.size, ToLower)
StrToLowerAt(es, at) == MapText(es, at, es.size, ToLower)
StrToLowerN(es, n) == MapText(es, 0, n, ToLower)
StrToLowerAtN(es, at, n) == MapText(es, at, n, ToLower)
StrToUpper(es) == MapText(es, 0, es.size, ToUpper)
StrToUpperAt(es, at) == MapText(es, at, es.size, ToUpper)
\* This one tests for capitals, and clears a bit they do not have.
StrToUpperN(es, n) == es
StrToUpperAtN(es, at, n) == MapText(es, at, n, ToUpper)

(***************************************************************************)
(* Numbers.                                                                *)
(***************************************************************************)
Signed(bits, n) == ((n + 2^(bits - 1)) % 2^bits) - 2^(bits - 1)
Unsigned(bits, n) == n % 2^bits

\* An optional sign and digits up to the first other character.  Next adds a
\* digit; Over tells an overflow from the old and the new value, which ends
\* the number with most.
Number(s, Next(_, _), Over(_, _), most) ==
  LET Taken(x, new) == IF Over(x.value, new) THEN [value |-> most, ended |-> TRUE]
                       ELSE [x EXCEPT !.value = new]
      Step(x, c) == CASE x.ended -> x
                      [] ~x.ended /\ IsDigit(c) -> Taken(x, Next(x.value, CodeOf[c] - 48))
                      [] OTHER -> [x EXCEPT !.ended = TRUE]
      start == [value |-> 0, ended |-> FALSE]
      read[i \in 0..Len(s)] ==
        CASE i = 0 -> start
          [] i = 1 /\ s[1] \in {"-", "+"} -> start
          [] OTHER -> Step(read[i - 1], s[i])
      sign == IF s # <<>> /\ s[1] = "-" THEN -1 ELSE 1
  IN sign * read[Len(s)].value

SignedNumber(bits, s) ==
  LET Next(v, d) == Signed(bits, v * 10 + d)
      Over(old, new) == new < 0
  IN Number(s, Next, Over, 2^(bits - 1) - 1)
UnsignedNumber(bits, s) ==
  LET Next(v, d) == Unsigned(bits, v * 10 + d)
      Over(old, new) == old > new
  IN Unsigned(bits, Number(s, Next, Over, 2^bits - 1))

StrAToI(es) == SignedNumber(IntBits, StrText(es))
StrAToU(es) == UnsignedNumber(IntBits, StrText(es))
StrAToL(es) == SignedNumber(LongBits, StrText(es))
StrAToUL(es) == UnsignedNumber(LongBits, StrText(es))
StrAToLL(es) == SignedNumber(LongBits, StrText(es))
StrAToULL(es) == UnsignedNumber(LongBits, StrText(StrStrip(StrCloneEris(es))))

\* The digits of v, the last one first, as / and % of C give them: those of a
\* negative v are counted back from '0'.
Digits(v, base, DigitChar(_)) ==
  LET sign == IF v < 0 THEN -1 ELSE 1
      from[n \in 0..sign * v] ==
        <<DigitChar(sign * (n % base))>> \o (IF n < base THEN <<>> ELSE from[n \div base])
  IN from[sign * v]
DecimalChar(d) == Char(48 + d)

\* Written backwards into a buffer, appended to the cleaned string, turned round.
Printed(es, back) ==
  StrReverse(StrAppend(IF es = NoString THEN StrAlloc(32) ELSE StrCleanup(es), back))

SignOf(v) == IF v < 0 THEN <<"-">> ELSE <<>>
Magnitude(v) == IF v < 0 THEN -v ELSE v
\* The magnitude is unsigned in itoa, and signed in ltoa and lltoa.
StrIToA(es, v) == Printed(es, Digits(Unsigned(IntBits, Magnitude(v)), 10, DecimalChar) \o SignOf(v))
StrUToA(es, v) == Printed(es, Digits(v, 10, DecimalChar))
StrLToA(es, v) == Printed(es, Digits(Signed(LongBits, Magnitude(v)), 10, DecimalChar) \o SignOf(v))
StrULToA(es, v) == Printed(es, Digits(v, 10, DecimalChar))
StrLLToA(es, v) == Printed(es, Digits(Signed(LongBits, Magnitude(v)), 10, DecimalChar) \o SignOf(v))
StrULLToA(es, v) == Printed(es, Digits(v, 10, DecimalChar))

\* A hex digit multiplies what there is by a base that grows with every digit.
HexStep(x, i, c) ==
  LET leading == c = "0" /\ x.v = 0
  IN CASE x.over \/ leading \/ (c \in {"x", "X"} /\ i = 2) -> x
       [] ~x.over /\ ~leading /\ IsHex(c) ->
            [x EXCEPT !.v = @ * x.base + HexOf(c), !.base = @ * 16]
       [] OTHER -> [x EXCEPT !.over = TRUE]
HexToV(s) ==
  LET read[i \in 0..Len(s)] ==
        IF i = 0 THEN [v |-> 0, base |-> 1, over |-> FALSE] ELSE HexStep(read[i - 1], i, s[i])
  IN read[Len(s)].v
StrHexToV(es) == HexToV(StrText(es))

\* Ten is written as 'A' + 10.
HexChar(m) == IF m <= 9 THEN Char(48 + m) ELSE Char(65 + m)
StrVToHex(es, v) == Printed(es, Digits(v, 16, HexChar))

(***************************************************************************)
(* Formatting.  A format is a sequence of literal characters, [lit |-> c], *)
(* and directives with the argument they take, [conv |-> c, arg |-> v].    *)
(***************************************************************************)
Formatted(item) ==
  IF "lit" \in DOMAIN item THEN <<item.lit>>
  ELSE CASE item.conv = "c" -> IF item.arg = NUL THEN <<>> ELSE <<item.arg>>
         [] item.conv = "s" -> item.arg
         [] item.conv = "S" -> StrText(item.arg)
         [] item.conv = "u" -> StrText(StrUToA(NoString, item.arg))
         [] item.conv = "l" -> StrText(StrLToA(NoString, item.arg))
         [] item.conv = "L" -> StrText(StrULToA(NoString, item.arg))
         [] item.conv = "I" -> StrText(StrLLToA(NoString, item.arg))
         [] item.conv = "U" -> StrText(StrULLToA(NoString, item.arg))
         [] item.conv = "%" -> <<"%">>
         [] OTHER -> StrText(StrIToA(NoString, item.arg))   \* %i, %d and anything else

StrVPrintf(es, fmt) ==
  Loop(LAMBDA out, item : StrAppend(out, Formatted(item)), StrCleanup(es), fmt)
StrPrintf(es, fmt) == StrVPrintf(es, fmt)
StrVPrintfAppend(es, fmt) == StrAppendEris(es, StrVPrintf(NoString, fmt))
StrPrintfAppend(es, fmt) == StrAppendEris(es, StrVPrintf(NoString, fmt))

(***************************************************************************)
(* Splitting.  The array is <<>> where the code returns NULL.              *)
(***************************************************************************)
\* Empty fields are left out, and so is a last field of one character at the
\* end of the string: start + 1 is compared with the size.
SplitRanges(es, sp) ==
  LET Field(x, e) == IF x.start < e THEN Append(x.out, <<x.start, e>>) ELSE x.out
      Step(x) ==
        LET pos == StrFindAt(es, x.at, sp)
        IN CASE x.done -> x
             [] ~x.done /\ pos # NPOS ->
                  [x EXCEPT !.at = pos + Len(sp), !.start = pos + Len(sp), !.out = Field(x, pos)]
             [] OTHER ->
                  [x EXCEPT !.done = TRUE,
                            !.out = IF x.start + 1 < es.size
                                    THEN Append(@, <<x.start, es.size>>) ELSE @]
  IN Rounds(Step, [start |-> 0, at |-> 0, out |-> <<>>, done |-> FALSE], es.size + 1).out

StrSplitEris(es, sp) ==
  IF es = NoString THEN <<>>
  ELSE LET ranges == SplitRanges(es, sp)
       IN [i \in DOMAIN ranges |-> StrAssign(es, ranges[i][1], ranges[i][2])]
StrSplit(s, sp) == StrSplitEris(StrCreate(s), sp)
StrArrayAt(array, at) == IF at < Len(array) THEN array[at + 1] ELSE NoString
StrArraySize(array) == Len(array)
StrArrayFree(array) == <<>>
=============================================================================
