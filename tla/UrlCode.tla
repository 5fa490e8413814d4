------------------------------ MODULE UrlCode ------------------------------
(* URL coding (eris.urlencode.c): what the three encoders write for a text    *)
(* and the automaton the three decoders run over one.                         *)
EXTENDS EString
LOCAL INSTANCE SequencesExt

IsAlnum(c) == IsDigit(c) \/ IsUpper(c) \/ IsLower(c)
Plain(c) == IsAlnum(c) \/ c \in {".", "-", "_", "~"}
HexDigit(n) == IF n <= 9 THEN Char(48 + n) ELSE Char(55 + n)
CharOf(n) == CASE n = 0 -> NUL [] n = 9 -> "\t" [] n = 10 -> "\n" [] n = 13 -> "\r"
               [] n \in 32..126 -> Char(n)
               [] OTHER -> "byte"

Encoded(c) == CASE c = " " -> <<"+">>
                [] Plain(c) -> <<c>>
                [] OTHER -> <<"%", HexDigit(CodeOf[c] \div 16), HexDigit(CodeOf[c] % 16)>>

EncodeAll(out, t) == Loop(LAMBDA o, c : StrAppend(o, Encoded(c)), StrCleanup(out), t)

Encode(out, s, n) == EncodeAll(out, SubSeq(s, 1, n))
EncodeEris(out, es) == IF es = NoString THEN out ELSE EncodeAll(out, StrText(es))
EncodeErisRc(es) == IF es = NoString THEN EERIS_ERROR ELSE 0
EncodeBuffer(out, data) == EncodeAll(out, data)

(***************************************************************************)
(* The decoder: st is its state, high the value of the first hex digit, rc *)
(* EERIS_ERROR once a '%' is not followed by two hex digits.  A text that  *)
(* ends inside an escape loses it, with rc 0.                              *)
(***************************************************************************)
DecodeStart == [st |-> "START", high |-> 0, out |-> <<>>, rc |-> 0]

\* START, ALNUM, SIGN and HEX2 treat the next character alike; SIGN stays SIGN.
DecodePlain(d, c) ==
  CASE c = "%" -> [d EXCEPT !.st = "PERCENT"]
    [] c = "+" -> [d EXCEPT !.st = "SIGN", !.out = Append(@, " ")]
    [] OTHER -> [d EXCEPT !.st = "ALNUM", !.out = Append(@, c)]

DecodeChar(d, c) ==
  CASE d.rc # 0 -> d
    [] d.rc = 0 /\ d.st = "PERCENT" ->
         IF IsHex(c) THEN [d EXCEPT !.st = "HEX1", !.high = HexOf(c)]
         ELSE [d EXCEPT !.rc = EERIS_ERROR]
    [] d.rc = 0 /\ d.st = "HEX1" ->
         IF IsHex(c) THEN [d EXCEPT !.st = "HEX2", !.high = 0,
                                    !.out = Append(@, CharOf(16 * d.high + HexOf(c)))]
         ELSE [d EXCEPT !.rc = EERIS_ERROR]
    [] OTHER -> DecodePlain(d, c)

Decoded(t) == Loop(DecodeChar, DecodeStart, t)

\* eris_string_append_c does not count a decoded NUL, so that the next character
\* overwrites it; a buffer keeps it.
DecodeAll(out, t) == Loop(StrAppendC, StrCleanup(out), Decoded(t).out)
Decode(out, s, n) == DecodeAll(out, SubSeq(s, 1, n))
DecodeEris(out, es) == IF es = NoString THEN out ELSE DecodeAll(out, StrText(es))
DecodeErisRc(es) == IF es = NoString THEN EERIS_ERROR ELSE Decoded(StrText(es)).rc
DecodeBuffer(es) == IF es = NoString THEN <<>> ELSE Decoded(StrText(es)).out
=============================================================================
