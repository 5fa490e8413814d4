------------------------------ MODULE HttpChunk ------------------------------
(* The automaton of eris_http_chunk_parse, which reads a chunked body from    *)
(* pieces of any length.  Its state is kept in the context from one piece to  *)
(* the next, but for the digits of a chunk's size, x.digits, which are local  *)
(* to the call.  x.http and x.side are those of HttpHead.                     *)
EXTENDS HttpHead

CONSTANT BodyMax      \* body_max_size

ASSUME ChunkAssumption == BodyMax \in Nat

\* Only a request gets an answer.
ChunkBad(x, status) ==
  [x EXCEPT !.rc = EERIS_DATA,
            !.http = IF x.side = "request" THEN Refusal(@, status, 10) ELSE @]
ChunkGoto(x, st) == [x EXCEPT !.http.chunk.st = st]
ChunkNeeds(x, ok, y) == IF ok THEN y ELSE ChunkBad(x, 400)
Digit(x, c) == [ChunkGoto(x, "CHUNK_SIZE") EXCEPT !.digits = Append(@, c)]
Data(x, c) ==
  [x EXCEPT !.http.chunk.got = @ + 1, !.http[x.side].body = Append(@, c)]

FirstDigit(x, c) == ChunkNeeds(x, IsHex(c), Digit(x, c))

SizeChar(x, c) ==
  CASE IsHex(c) -> Digit(x, c)
    [] c = SEMI -> ChunkGoto(x, "EXT_NAME")
    [] c = "\r" -> ChunkGoto(x, "CR1")
    [] OTHER -> ChunkBad(x, 400)

ExtNameChar(x, c) ==
  IF c = "=" THEN ChunkGoto(x, "EXT_VALUE") ELSE ChunkNeeds(x, IsNameChar(c), x)
ExtValueChar(x, c) ==
  CASE c = SEMI -> ChunkGoto(x, "EXT_NAME")
    [] c = "\r" -> ChunkGoto(x, "CR1")
    [] OTHER -> ChunkNeeds(x, IsNameChar(c), x)

\* The size is what the digits of this call make, 0 if there are none.
SizeEndChar(x, c) ==
  ChunkNeeds(x, c = "\n", [ChunkGoto(x, "LF1") EXCEPT !.http.chunk.size = HexToV(x.digits),
                                                      !.digits = <<>>])

\* A '\r' here ends the body, whatever the size was.
FirstDataChar(x, c) ==
  CASE c = "\r" -> ChunkGoto(x, "CR2")
    [] c # "\r" /\ x.http.chunk.size = 0 -> ChunkGoto(x, "TRAILER_NAME")
    [] OTHER -> ChunkGoto(Data(x, c), "DATA")

EndChar(x, c) ==
  ChunkNeeds(x, c = "\n", [ChunkGoto(x, "LF2") EXCEPT !.http.chunk.end = TRUE])
BehindEndChar(x, c) == [x EXCEPT !.http.chunk.end = TRUE]

TrailerNameChar(x, c) ==
  IF c = ":" THEN ChunkGoto(x, "TRAILER_VALUE") ELSE ChunkNeeds(x, IsNameChar(c), x)
TrailerValueChar(x, c) ==
  IF c = "\r" THEN ChunkGoto(x, "CR1") ELSE ChunkNeeds(x, IsNameChar(c), x)

\* Mutant of DataChar: what was got of a chunk counts for the next one.
DataCharKeepsCount(x, c) ==
  LET ended == [ChunkGoto(x, "DATA_CR") EXCEPT !.http.chunk.size = 0]
      complete == x.http.chunk.got = x.http.chunk.size
  IN CASE c = "\r" -> IF complete THEN ended ELSE ChunkBad(ended, 400)
       [] c # "\r" /\ x.http.chunk.got < x.http.chunk.size -> Data(x, c)
       [] OTHER -> ChunkBad(x, 400)

\* A '\r' ends the chunk, also where it is data.
DataChar(x, c) ==
  LET ended == [ChunkGoto(x, "DATA_CR") EXCEPT !.http.chunk.size = 0, !.http.chunk.got = 0]
      complete == x.http.chunk.got = x.http.chunk.size
  IN CASE c = "\r" -> IF complete THEN ended ELSE ChunkBad(ended, 400)
       [] c # "\r" /\ x.http.chunk.got < x.http.chunk.size -> Data(x, c)
       [] OTHER -> ChunkBad(x, 400)

DataCrChar(x, c) == ChunkNeeds(x, c = "\n", ChunkGoto(x, "DATA_LF"))
NextChunkChar(x, c) ==
  IF c = "\r" THEN ChunkGoto(x, "CR2") ELSE ChunkNeeds(x, IsHex(c), Digit(x, c))

ChunkChar(x, c) ==
  LET st == x.http.chunk.st
  IN CASE st = "CHUNKED" -> FirstDigit(x, c)
       [] st = "CHUNK_SIZE" -> SizeChar(x, c)
       [] st = "EXT_NAME" -> ExtNameChar(x, c)
       [] st = "EXT_VALUE" -> ExtValueChar(x, c)
       [] st = "CR1" -> SizeEndChar(x, c)
       [] st = "LF1" -> FirstDataChar(x, c)
       [] st = "CR2" -> EndChar(x, c)
       [] st = "TRAILER_NAME" -> TrailerNameChar(x, c)
       [] st = "TRAILER_VALUE" -> TrailerValueChar(x, c)
       [] st = "DATA" -> DataChar(x, c)
       [] st = "DATA_CR" -> DataCrChar(x, c)
       [] st = "DATA_LF" -> NextChunkChar(x, c)
       [] OTHER -> BehindEndChar(x, c)

\* Mutant of CheckedChunkChar: only a body with a length is limited.
CheckedChunkCharNoLimit(x, c) == ChunkChar(x, c)

\* The body of a request is compared with its limit before a character is taken.
CheckedChunkChar(x, c) ==
  IF x.side = "request" /\ Len(x.http.request.body) > BodyMax THEN ChunkBad(x, 413)
  ELSE ChunkChar(x, c)

\* One round of the loop.  If the piece ends behind c, the digits are forgotten;
\* an error and the end set the automaton back, all but chunked_end.
ChunkRound(x, c, last) ==
  LET y == CheckedChunkChar(x, c)
      over == y.rc # 0 \/ y.http.chunk.end
  IN [y EXCEPT !.digits = IF last \/ over THEN <<>> ELSE @,
               !.http.chunk = IF over THEN [NoChunks EXCEPT !.end = y.http.chunk.end] ELSE @]
=============================================================================
