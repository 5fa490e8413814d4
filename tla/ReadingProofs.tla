--------------------------- MODULE ReadingProofs ----------------------------
(***************************************************************************)
(* What one side packs is read by the other as it was meant, whatever it   *)
(* is, as long as it can be read back, and wherever it is cut.             *)
(*  - Requests: what a reply's parser leaves alone, and the invariant that *)
(*    takes a request from Ask to where it was read (RInv).                *)
(*  - Replies: what a worker answers, the line with the status, and then   *)
(*    headers and chunks, which a response's parser reads as a request's   *)
(*    does (Twins); and the invariant that takes a reply from Answer to    *)
(*    where it was read (AInv).                                            *)
(***************************************************************************)
EXTENDS HttpProofs
LOCAL INSTANCE SequencesExt

-----------------------------------------------------------------------------
(* The parser of a response does not touch what is known of the request but *)
(* for what it holds.                                                       *)
Client(x) == x.side = "response" /\ {"side", "http"} \subseteq DOMAIN x /\ "request" \in DOMAIN x.http

LEMMA ClientField ==
  ASSUME NEW x, Client(x), NEW f, f \notin {"side", "http"}, NEW v
  PROVE  Client([x EXCEPT ![f] = v])
BY DEF Client

LEMMA ClientHttp ==
  ASSUME NEW x, Client(x), NEW h, "request" \in DOMAIN h
  PROVE  Client([x EXCEPT !.http = h])
BY DEF Client

LEMMA ClientGoto ==
  ASSUME NEW x, Client(x), NEW st, NEW c
  PROVE  Client(Goto(x, st)) /\ Client(Bad(x)) /\ Client(Store(x, c, st))
<1>1. Client(Goto(x, st))
  BY DEF Goto, Client
<1>2. Client(Bad(x))
  BY DEF Bad, Client
<1>3. Client(Store(x, c, st))
  BY DEF Store, Client
<1> QED
  BY <1>1, <1>2, <1>3

LEMMA ClientExpect ==
  ASSUME NEW x, Client(x), NEW ok, NEW y, Client(y)
  PROVE  Client(Expect(x, ok, y))
BY ClientGoto DEF Expect

LEMMA ClientProtocol ==
  ASSUME NEW x, Client(x), NEW c
  PROVE  Client(ProtocolChar(x, c))
<1> DEFINE begun == IF x.st = "H" THEN [x EXCEPT !.tmp = <<>>] ELSE x
           to == Protocol[x.st][2]
           due == Protocol[x.st][1]
<1>1. Client(begun)
  BY ClientField
<1>2. \/ ProtocolChar(x, c) = Expect(x, IsDigit(c), Store(x, c, "DOT"))
      \/ ProtocolChar(x, c) = Expect(x, c = due, Store(begun, c, to))
  <2> HIDE DEF begun, to, due
  <2>1. CASE x.st = "MAJOR"
    BY <2>1, Zenon DEF ProtocolChar
  <2>2. CASE x.st # "MAJOR"
    BY <2>2, Zenon DEF ProtocolChar, begun, to, due
  <2> QED
    BY <2>1, <2>2
<1>3. Client(Expect(x, IsDigit(c), Store(x, c, "DOT")))
  BY ClientGoto, ClientExpect
<1> HIDE DEF begun, to, due
<1>4. Client(Expect(x, c = due, Store(begun, c, to)))
  BY <1>1, ClientGoto, ClientExpect
<1> QED
  BY <1>2, <1>3, <1>4

LEMMA ClientMinor ==
  ASSUME NEW x, Client(x), NEW c
  PROVE  Client(ResponseMinorChar(x, c))
<1> DEFINE known == VersionOf(Append(x.tmp, c))
           v == CHOOSE u \in known : TRUE
           y == [x EXCEPT !.tmp = <<>>, !.st = "SEP1", !.http.response.version = v]
<1>1. ResponseMinorChar(x, c) = Expect(x, IsDigit(c) /\ known # {}, y)
  BY DEF ResponseMinorChar
<1>2. Client(y)
  <2> HIDE DEF v
  <2> QED
    BY DEF Client
<1> HIDE DEF y, known
<1> QED
  BY <1>1, <1>2, ClientExpect

LEMMA ClientStatus ==
  ASSUME NEW x, Client(x), NEW c
  PROVE  Client(StatusChar(x, c))
<1> DEFINE s == {t \in Statuses : StatusText(t) = Append(x.tmp, c)}
           v == CHOOSE t \in s : TRUE
           y == [x EXCEPT !.tmp = <<>>, !.st = "SEP2", !.http.response.status = v]
<1>1. Client(y)
  <2> HIDE DEF v
  <2> QED
    BY DEF Client
<1>2. \/ StatusChar(x, c) = Expect(x, c = SP, Goto(x, "STATUS_1"))
      \/ StatusChar(x, c) = Expect(x, IsDigit(c), Store(x, c, "STATUS_2"))
      \/ StatusChar(x, c) = Expect(x, IsDigit(c), Store(x, c, "STATUS_3"))
      \/ StatusChar(x, c) = Expect(x, s # {}, y)
  <2>1. CASE x.st = "SEP1"
    BY <2>1, Zenon DEF StatusChar
  <2>2. CASE x.st = "STATUS_1"
    BY <2>2, Zenon DEF StatusChar
  <2>3. CASE x.st = "STATUS_2"
    BY <2>3, Zenon DEF StatusChar
  <2>4. CASE x.st \notin {"SEP1", "STATUS_1", "STATUS_2"}
    <3>1. x.st # "SEP1" /\ x.st # "STATUS_1" /\ x.st # "STATUS_2"
      BY <2>4
    <3> QED
      BY <3>1, Zenon DEF StatusChar
  <2> QED
    BY <2>1, <2>2, <2>3, <2>4
<1> HIDE DEF y, s
<1>3. \A ok, st : Client(Expect(x, ok, Goto(x, st))) /\ Client(Expect(x, ok, Store(x, c, st)))
                  /\ Client(Expect(x, ok, y))
  BY <1>1, ClientGoto, ClientExpect
<1> QED
  BY <1>2, <1>3

LEMMA ClientReason ==
  ASSUME NEW x, Client(x), NEW c
  PROVE  Client(ReasonChar(x, c))
<1> DEFINE a == [x EXCEPT !.st = "REASON", !.http.response.reason = <<>>]
           b == [x EXCEPT !.http.response.reason = Append(@, c)]
           d == [x EXCEPT !.st = "HEADER_NAME", !.name = <<c>>, !.value = <<>>]
<1>1. Client(a) /\ Client(b) /\ Client(d)
  <2>1. Client(a)
    BY DEF Client
  <2>2. Client(b)
    BY DEF Client
  <2>3. Client(d)
    BY DEF Client
  <2> QED
    BY <2>1, <2>2, <2>3
<1>2. \/ ReasonChar(x, c) = Expect(x, c = SP, a)
      \/ ReasonChar(x, c) = Goto(x, "TITLE_CR")
      \/ ReasonChar(x, c) = b
      \/ ReasonChar(x, c) = Expect(x, c = "\n", Goto(x, "TITLE_LF"))
      \/ ReasonChar(x, c) = Expect(x, IsNameChar(c), d)
  <2>1. CASE x.st = "SEP2"
    BY <2>1, Zenon DEF ReasonChar
  <2>2. CASE x.st = "REASON" /\ c = "\r"
    BY <2>2, Zenon DEF ReasonChar
  <2>3. CASE x.st = "REASON" /\ c # "\r"
    BY <2>3, Zenon DEF ReasonChar
  <2>4. CASE x.st = "TITLE_CR"
    BY <2>4, Zenon DEF ReasonChar
  <2>5. CASE x.st \notin {"SEP2", "REASON", "TITLE_CR"}
    <3>1. x.st # "SEP2" /\ x.st # "REASON" /\ x.st # "TITLE_CR"
      BY <2>5
    <3> QED
      BY <3>1, Zenon DEF ReasonChar
  <2> QED
    BY <2>1, <2>2, <2>3, <2>4, <2>5
<1> HIDE DEF a, b, d
<1>3. \A ok, st : Client(Goto(x, st)) /\ Client(Expect(x, ok, Goto(x, st)))
                  /\ Client(Expect(x, ok, a)) /\ Client(Expect(x, ok, d))
  BY <1>1, ClientGoto, ClientExpect
<1> QED
  BY <1>1, <1>2, <1>3

-----------------------------------------------------------------------------
LEMMA ClientLf1 ==
  ASSUME NEW x, Client(x), NEW c
  PROVE  Client(Lf1Char(x, c))
<1> DEFINE hs == PushHeader(x.http[x.side].headers, x.name, x.value)
           h == [x.http EXCEPT ![x.side].headers = hs]
           pushed == [x EXCEPT !.name = <<>>, !.value = <<>>,
                               !.http[x.side].headers = PushHeader(@, x.name, x.value)]
           z == [x EXCEPT !.name = <<>>, !.value = <<>>, !.http = h]
           last == [pushed EXCEPT !.st = "HEADER_NAME", !.name = <<c>>]
<1>1. pushed = z
  OBVIOUS
<1>2. "request" \in DOMAIN h
  <2> HIDE DEF hs
  <2> QED
    BY DEF Client
<1> HIDE DEF h
<1>3. Client(z)
  BY <1>2 DEF Client
<1>4. \/ Lf1Char(x, c) = Goto(x, "HEADER_VALUE")
      \/ Lf1Char(x, c) = Goto(pushed, "HEADER_CR2")
      \/ Lf1Char(x, c) = last
  <2>0. SP # "\r"
    BY Marks
  <2>1. CASE c = SP
    <3>1. c # "\r"
      BY <2>0, <2>1
    <3> QED
      BY <2>1, <3>1, Zenon DEF Lf1Char
  <2>2. CASE c = "\r"
    <3>1. c # SP
      BY <2>0, <2>2
    <3> QED
      BY <2>2, <3>1, Zenon DEF Lf1Char
  <2>3. CASE c # SP /\ c # "\r"
    BY <2>3, Zenon DEF Lf1Char
  <2> QED
    BY <2>1, <2>2, <2>3
<1> HIDE DEF z
<1>5. Client(pushed)
  BY <1>1, <1>3
<1> HIDE DEF pushed
<1>6. Client(last)
  BY <1>5 DEF Client
<1> HIDE DEF last
<1> QED
  BY <1>4, <1>5, <1>6, ClientGoto

LEMMA ClientHeader ==
  ASSUME NEW x, Client(x), NEW c
  PROVE  Client(HeaderChar(x, c))
<1> DEFINE a == [x EXCEPT !.name = Append(@, c)]
           b == [x EXCEPT !.value = Append(@, c)]
<1>1. Client(a) /\ Client(b)
  BY ClientField
<1> HIDE DEF a, b
<1>2. \A ok, st : Client(Goto(x, st)) /\ Client(Expect(x, ok, Goto(x, st)))
                  /\ Client(Expect(x, ok, a))
  BY <1>1, ClientGoto, ClientExpect
<1>3. Client(NameChar(x, c))
  <2>1. NameChar(x, c) = Goto(x, "HEADER_COLON") \/ NameChar(x, c) = Expect(x, IsNameChar(c), a)
    BY Zenon DEF NameChar, a
  <2> QED
    BY <1>2, <2>1
<1>4. Client(ColonChar(x, c))
  BY <1>2, Zenon DEF ColonChar
<1>5. Client(ValueChar(x, c))
  <2>1. ValueChar(x, c) = Goto(x, "HEADER_CR1") \/ ValueChar(x, c) = b
    BY Zenon DEF ValueChar, b
  <2> QED
    BY <1>1, <1>2, <2>1
<1>6. Client(Cr1Char(x, c))
  BY <1>2, Zenon DEF Cr1Char
<1>7. Client(Lf1Char(x, c))
  BY ClientLf1
<1>8. HeaderChar(x, c) \in {NameChar(x, c), ColonChar(x, c), ValueChar(x, c), Cr1Char(x, c), Lf1Char(x, c)}
  BY DEF HeaderChar
<1> QED
  BY <1>3, <1>4, <1>5, <1>6, <1>7, <1>8

LEMMA ClientHead ==
  ASSUME NEW x, Client(x), NEW c
  PROVE  Client(HeadChar(x, c))
<1>1. HeadChar(x, c) = ResponseChar(x, c)
  BY DEF HeadChar, Client
<1>2. Client(ResponseCr2Char(x, c))
  <2> DEFINE y == [x EXCEPT !.done = TRUE, !.st = "HEADER_LF2"]
  <2>1. Client(y)
    BY DEF Client
  <2>2. ResponseCr2Char(x, c) = Expect(x, c = "\n", y)
    BY DEF ResponseCr2Char
  <2> HIDE DEF y
  <2> QED
    BY <2>1, <2>2, ClientExpect
<1>3. ResponseChar(x, c) \in {ProtocolChar(x, c), ResponseMinorChar(x, c), StatusChar(x, c),
                              ReasonChar(x, c), ResponseCr2Char(x, c), HeaderChar(x, c)}
  BY DEF ResponseChar, ResponseProtocolChar, ResponseHeaderChar
<1> QED
  BY <1>1, <1>2, <1>3, ClientProtocol, ClientMinor, ClientStatus, ClientReason, ClientHeader

(* The chunks of a response. *)
LEMMA ClientNeeds ==
  ASSUME NEW x, Client(x), NEW ok, NEW y, Client(y)
  PROVE  Client(ChunkNeeds(x, ok, y)) /\ Client(ChunkBad(x, 400))
<1>1. Client(ChunkBad(x, 400))
  BY DEF ChunkBad, Client
<1> QED
  BY <1>1 DEF ChunkNeeds

LEMMA ClientSteps ==
  ASSUME NEW x, Client(x), NEW c, NEW st
  PROVE  Client(ChunkGoto(x, st)) /\ Client(Digit(x, c)) /\ Client(Data(x, c))
<1>1. \A s : Client(ChunkGoto(x, s))
  BY DEF ChunkGoto, Client
<1>2. Client(Digit(x, c))
  <2> DEFINE y == ChunkGoto(x, "CHUNK_SIZE")
  <2>1. Client(y)
    BY <1>1
  <2> DEFINE e == Append(y.digits, c)
  <2>2. Digit(x, c) = [y EXCEPT !.digits = e]
    BY Zenon DEF Digit
  <2> HIDE DEF y, e
  <2>3. Client([y EXCEPT !.digits = e])
    BY <2>1 DEF Client
  <2> QED
    BY <2>2, <2>3, Zenon
<1>3. Client(Data(x, c))
  BY DEF Data, Client
<1> QED
  BY <1>1, <1>2, <1>3

LEMMA ClientChunk ==
  ASSUME NEW x, Client(x), NEW c
  PROVE  Client(ChunkChar(x, c))
<1> DEFINE sized == [ChunkGoto(x, "LF1") EXCEPT !.http.chunk.size = HexToV(x.digits), !.digits = <<>>]
           ended == [ChunkGoto(x, "LF2") EXCEPT !.http.chunk.end = TRUE]
           behind == [x EXCEPT !.http.chunk.end = TRUE]
           full == [ChunkGoto(x, "DATA_CR") EXCEPT !.http.chunk.size = 0, !.http.chunk.got = 0]
           begun == ChunkGoto(Data(x, c), "DATA")
<1>1. \A st : Client(ChunkGoto(x, st))
  BY ClientSteps
<1>2. Client(sized)
  <2>1. Client(ChunkGoto(x, "LF1"))
    BY <1>1
  <2> DEFINE z == ChunkGoto(x, "LF1")
             n == HexToV(x.digits)
  <2> HIDE DEF z, n
  <2>2. Client(z)
    BY <2>1 DEF z
  <2>3. Client([z EXCEPT !.http.chunk.size = n, !.digits = <<>>])
    BY <2>2 DEF Client
  <2> QED
    BY <2>3 DEF z, n
<1>3. Client(ended)
  <2> DEFINE z == ChunkGoto(x, "LF2")
  <2>1. Client(z)
    BY <1>1
  <2> HIDE DEF z
  <2>2. Client([z EXCEPT !.http.chunk.end = TRUE])
    BY <2>1 DEF Client
  <2> QED
    BY <2>2 DEF z
<1>4. Client(behind)
  BY DEF Client
<1>5. Client(full)
  <2> DEFINE z == ChunkGoto(x, "DATA_CR")
  <2>1. Client(z)
    BY <1>1
  <2> HIDE DEF z
  <2>2. Client([z EXCEPT !.http.chunk.size = 0, !.http.chunk.got = 0])
    BY <2>1 DEF Client
  <2> QED
    BY <2>2 DEF z
<1>6. Client(begun) /\ Client(Data(x, c)) /\ Client(Digit(x, c))
  <2>1. Client(Data(x, c)) /\ Client(Digit(x, c))
    BY ClientSteps
  <2> QED
    BY <2>1, ClientSteps
<1> HIDE DEF sized, ended, behind, full, begun
<1>7. \A ok, st : /\ Client(ChunkNeeds(x, ok, ChunkGoto(x, st))) /\ Client(ChunkNeeds(x, ok, x))
                  /\ Client(ChunkNeeds(x, ok, Digit(x, c))) /\ Client(ChunkNeeds(x, ok, sized))
                  /\ Client(ChunkNeeds(x, ok, ended)) /\ Client(ChunkBad(x, 400))
  BY <1>1, <1>2, <1>3, <1>6, ClientNeeds
<1>8. Client(FirstDigit(x, c))
  BY <1>7, Zenon DEF FirstDigit
<1>9. Client(SizeChar(x, c))
  <2>1. SizeChar(x, c) \in {Digit(x, c), ChunkGoto(x, "EXT_NAME"), ChunkGoto(x, "CR1"), ChunkBad(x, 400)}
    <3>0. ~IsHex(SEMI) /\ ~IsHex("\r") /\ SEMI # "\r"
      BY Plain, Marks
    <3>1. CASE IsHex(c)
      <4>1. SizeChar(x, c) = Digit(x, c)
        <5>1. c # SEMI /\ c # "\r"
          BY <3>0, <3>1
        <5> QED
          BY <3>1, <5>1, Zenon DEF SizeChar
      <4> QED
        BY <4>1
    <3>2. CASE c = SEMI
      <4>1. SizeChar(x, c) = ChunkGoto(x, "EXT_NAME")
        <5>1. ~IsHex(c) /\ c # "\r"
          BY <3>0, <3>2
        <5> QED
          BY <3>2, <5>1, Zenon DEF SizeChar
      <4> QED
        BY <4>1
    <3>3. CASE c = "\r"
      <4>1. SizeChar(x, c) = ChunkGoto(x, "CR1")
        <5>1. ~IsHex(c) /\ c # SEMI
          BY <3>0, <3>3
        <5> QED
          BY <3>3, <5>1, Zenon DEF SizeChar
      <4> QED
        BY <4>1
    <3>4. CASE ~IsHex(c) /\ c # SEMI /\ c # "\r"
      <4>1. SizeChar(x, c) = ChunkBad(x, 400)
        BY <3>4, Zenon DEF SizeChar
      <4> QED
        BY <4>1
    <3> QED
      BY <3>1, <3>2, <3>3, <3>4
  <2> QED
    BY <1>1, <1>6, <1>7, <2>1
<1>10. Client(ExtNameChar(x, c))
  <2>1. \/ ExtNameChar(x, c) = ChunkGoto(x, "EXT_VALUE")
        \/ ExtNameChar(x, c) = ChunkNeeds(x, IsNameChar(c), x)
    BY Zenon DEF ExtNameChar
  <2> QED
    BY <1>1, <1>7, <2>1
<1>11. Client(ExtValueChar(x, c))
  <2>1. \/ ExtValueChar(x, c) = ChunkGoto(x, "EXT_NAME") \/ ExtValueChar(x, c) = ChunkGoto(x, "CR1")
        \/ ExtValueChar(x, c) = ChunkNeeds(x, IsNameChar(c), x)
    <3>0. SEMI # "\r"
      BY Marks
    <3>1. CASE c = SEMI
      <4>1. c # "\r"
        BY <3>0, <3>1
      <4> QED
        BY <3>1, <4>1, Zenon DEF ExtValueChar
    <3>2. CASE c = "\r"
      <4>1. c # SEMI
        BY <3>0, <3>2
      <4> QED
        BY <3>2, <4>1, Zenon DEF ExtValueChar
    <3>3. CASE c # SEMI /\ c # "\r"
      BY <3>3, Zenon DEF ExtValueChar
    <3> QED
      BY <3>1, <3>2, <3>3
  <2> QED
    BY <1>1, <1>7, <2>1
<1>12. Client(SizeEndChar(x, c))
  BY <1>7, Zenon DEF SizeEndChar, sized
<1>13. Client(FirstDataChar(x, c))
  <2>1. FirstDataChar(x, c) = ChunkGoto(x, "CR2") \/ FirstDataChar(x, c) = ChunkGoto(x, "TRAILER_NAME")
        \/ FirstDataChar(x, c) = begun
    <3>1. CASE c = "\r"
      BY <3>1, Zenon DEF FirstDataChar
    <3>2. CASE c # "\r" /\ x.http.chunk.size = 0
      BY <3>2, Zenon DEF FirstDataChar
    <3>3. CASE c # "\r" /\ x.http.chunk.size # 0
      BY <3>3, Zenon DEF FirstDataChar, begun
    <3> QED
      BY <3>1, <3>2, <3>3
  <2> QED
    BY <1>1, <1>6, <2>1
<1>14. Client(EndChar(x, c))
  BY <1>7, Zenon DEF EndChar, ended
<1>15. Client(TrailerNameChar(x, c)) /\ Client(TrailerValueChar(x, c))
  <2>1. \/ TrailerNameChar(x, c) = ChunkGoto(x, "TRAILER_VALUE")
        \/ TrailerNameChar(x, c) = ChunkNeeds(x, IsNameChar(c), x)
    BY Zenon DEF TrailerNameChar
  <2>2. \/ TrailerValueChar(x, c) = ChunkGoto(x, "CR1")
        \/ TrailerValueChar(x, c) = ChunkNeeds(x, IsNameChar(c), x)
    BY Zenon DEF TrailerValueChar
  <2> QED
    BY <1>1, <1>7, <2>1, <2>2
<1>16. Client(DataChar(x, c))
  <2>1. DataChar(x, c) = full \/ DataChar(x, c) = ChunkBad(full, 400) \/ DataChar(x, c) = Data(x, c)
        \/ DataChar(x, c) = ChunkBad(x, 400)
    <3>1. CASE c = "\r"
      BY <3>1, Zenon DEF DataChar, full
    <3>2. CASE c # "\r" /\ x.http.chunk.got < x.http.chunk.size
      BY <3>2, Zenon DEF DataChar
    <3>3. CASE c # "\r" /\ ~(x.http.chunk.got < x.http.chunk.size)
      BY <3>3, Zenon DEF DataChar
    <3> QED
      BY <3>1, <3>2, <3>3
  <2>2. Client(ChunkBad(full, 400))
    BY <1>5, ClientNeeds
  <2> QED
    BY <1>5, <1>6, <1>7, <2>1, <2>2
<1>17. Client(DataCrChar(x, c))
  BY <1>7, Zenon DEF DataCrChar
<1>18. Client(NextChunkChar(x, c))
  <2>1. \/ NextChunkChar(x, c) = ChunkGoto(x, "CR2")
        \/ NextChunkChar(x, c) = ChunkNeeds(x, IsHex(c), Digit(x, c))
    BY Zenon DEF NextChunkChar
  <2> QED
    BY <1>1, <1>7, <2>1
<1>19. Client(BehindEndChar(x, c))
  BY <1>4 DEF BehindEndChar, behind
<1>20. ChunkChar(x, c) \in {FirstDigit(x, c), SizeChar(x, c), ExtNameChar(x, c), ExtValueChar(x, c),
         SizeEndChar(x, c), FirstDataChar(x, c), EndChar(x, c), TrailerNameChar(x, c),
         TrailerValueChar(x, c), DataChar(x, c), DataCrChar(x, c), NextChunkChar(x, c), BehindEndChar(x, c)}
  BY DEF ChunkChar
<1> QED
  BY <1>8, <1>9, <1>10, <1>11, <1>12, <1>13, <1>14, <1>15, <1>16, <1>17, <1>18, <1>19, <1>20

-----------------------------------------------------------------------------
LEMMA ClientRound ==
  ASSUME NEW x, Client(x), NEW c, NEW last
  PROVE  Client(ChunkRound(x, c, last)) /\ Client(ChunksOver(ChunkRound(x, c, last)))
<1> DEFINE y == CheckedChunkChar(x, c)
           over == y.rc # 0 \/ y.http.chunk.end
           d == IF last \/ over THEN <<>> ELSE y.digits
           k == IF over THEN [NoChunks EXCEPT !.end = y.http.chunk.end] ELSE y.http.chunk
           z == [y EXCEPT !.digits = d, !.http.chunk = k]
<1>1. Client(y)
  <2>1. x.side # "request"
    BY DEF Client
  <2>2. CheckedChunkChar(x, c) = ChunkChar(x, c)
    BY <2>1, Zenon DEF CheckedChunkChar
  <2> QED
    BY <2>2, ClientChunk
<1>2. ChunkRound(x, c, last) = z
  BY Zenon DEF ChunkRound
<1> HIDE DEF y, over, d, k
<1>3. Client(z)
  BY <1>1 DEF Client
<1> HIDE DEF z
<1>4. Client(ChunksOver(z))
  <2> DEFINE a == [z EXCEPT !.http = Refusal(@, 408, 10)]
             b == [z EXCEPT !.http.response.body = <<>>]
  <2>1. ChunksOver(z) \in {z, b}
    <3>1. z.side # "request"
      BY <1>3 DEF Client
    <3>2. CASE z.http.chunk.end \/ z.rc = 0
      BY <3>2, Zenon DEF ChunksOver
    <3>3. CASE ~(z.http.chunk.end \/ z.rc = 0)
      BY <3>1, <3>3, Zenon DEF ChunksOver
    <3> QED
      BY <3>2, <3>3
  <2>2. Client(b)
    BY <1>3 DEF Client
  <2> HIDE DEF b
  <2> QED
    BY <1>3, <2>1, <2>2
<1> QED
  BY <1>2, <1>3, <1>4

LEMMA ClientStart ==
  ASSUME NEW h, "request" \in DOMAIN h
  PROVE  Client(ParserStart("response", h))
BY DEF Client, ParserStart

(* A step of the parser that runs. *)
LEMMA ClientRuns ==
  ASSUME HInv, Client(call["response"]), NEW x, NEW phase, Becomes(x, phase), ~At("idle"),
         Side = "response" => Client(x)
  PROVE  Client(call["response"])'
<1>1. at[1] \in {"request", "response"}
  BY DEF HInv, At, Idle
<1>2. call' = [call EXCEPT ![at[1]] = x]
  BY DEF Becomes, Side
<1>3. CASE at[1] = "request"
  <2>1. call'["response"] = call["response"]
    BY <1>2, <1>3 DEF HInv
  <2> QED
    BY <2>1
<1>4. CASE at[1] = "response"
  <2>1. call'["response"] = x
    BY <1>2, <1>4 DEF HInv
  <2> QED
    BY <1>4, <2>1 DEF Side
<1> QED
  BY <1>1, <1>3, <1>4

LEMMA ClientDecides ==
  ASSUME HInv, Client(call["response"]), Decide
  PROVE  Client(call["response"])'
<1>1. ~At("idle")
  BY DEF Decide, At
<1>2. CASE Side = "request"
  <2>1. PICK n \in 0 .. Len(wire) : DecideRequest(EndHead(call[Side], n > 0), SubSeq(wire, 1, n))
    BY <1>2 DEF Decide
  <2> DEFINE x == EndHead(call[Side], n > 0)
             plain == LengthRefused([x EXCEPT !.http.request.body = SubSeq(wire, 1, n)])
             go == [x EXCEPT !.http.chunked = TRUE]
             stops == x.rc # 0 \/ ~Carries(x.http.request.command)
             carries == x.rc = 0 /\ Carries(x.http.request.command)
  <2>2. \/ Becomes(x, "parsed") \/ Becomes(Shaken(x), "parsed") \/ Becomes(go, "chunks")
        \/ Becomes(plain, BodyPhase(plain))
    <3>1. CASE stops
      BY <2>1, <3>1, Zenon DEF DecideRequest
    <3>2. CASE carries /\ Shakes(x)
      BY <2>1, <3>2, Zenon DEF DecideRequest
    <3>3. CASE carries /\ ~Shakes(x) /\ Chunked(x)
      BY <2>1, <3>3, Zenon DEF DecideRequest
    <3>4. CASE carries /\ ~Shakes(x) /\ ~Chunked(x)
      BY <2>1, <3>4, Zenon DEF DecideRequest
    <3> QED
      BY <3>1, <3>2, <3>3, <3>4
  <2>3. PICK y, phase : Becomes(y, phase)
    BY <2>2, Zenon
  <2> QED
    BY <1>1, <1>2, <2>3, ClientRuns
<1>3. CASE Side # "request"
  <2>1. Side = "response"
    BY <1>1, <1>3 DEF HInv, At, Side, Idle
  <2> DEFINE x == call["response"]
  <2>2. PICK n \in 0 .. Len(wire) : DecideResponse(x, SubSeq(wire, 1, n))
    BY <2>1 DEF Decide
  <2> DEFINE rest == SubSeq(wire, 1, n)
             full == [x EXCEPT !.http.response.body = rest]
             go == [x EXCEPT !.http.chunked = TRUE]
             measured == /\ HasHeader(x.http.request.headers, <<"Content-Length">>)
                         /\ Length(x.http.request.headers) > 0
  <2>3. \/ Becomes(go, "chunks") \/ Becomes(full, BodyPhase(full)) \/ Becomes(x, "parsed")
    <3>1. CASE Chunked(x)
      BY <2>2, <3>1, Zenon DEF DecideResponse
    <3>2. CASE ~Chunked(x) /\ measured
      BY <2>2, <3>2, Zenon DEF DecideResponse
    <3>3. CASE ~Chunked(x) /\ ~measured
      BY <2>2, <3>3, Zenon DEF DecideResponse
    <3> QED
      BY <3>1, <3>2, <3>3
  <2> HIDE DEF rest
  <2>4. Client(full) /\ Client(go) /\ Client(x)
    <3> HIDE DEF x
    <3>0. Client(x)
      BY DEF x
    <3>1. Client(full)
      BY <3>0 DEF Client
    <3>2. Client(go)
      BY <3>0 DEF Client
    <3> QED
      BY <3>0, <3>1, <3>2
  <2> HIDE DEF full, go, x
  <2>5. PICK y, phase : Becomes(y, phase) /\ Client(y)
    BY <2>3, <2>4, Zenon
  <2> QED
    BY <1>1, <2>5, ClientRuns
<1> QED
  BY <1>2, <1>3

LEMMA ClientBody ==
  ASSUME HInv, Client(call["response"]), TakeBody \/ BodyFails
  PROVE  Client(call["response"])'
<1>1. ~At("idle")
  BY DEF TakeBody, BodyFails, At
<1>2. CASE Side = "request"
  <2>1. PICK y, phase : Becomes(y, phase)
    <3>1. TakeBody => \E y, phase : Becomes(y, phase)
      BY Zenon DEF TakeBody
    <3>2. BodyFails => \E y, phase : Becomes(y, phase)
      BY Zenon DEF BodyFails
    <3> QED
      BY <3>1, <3>2
  <2> QED
    BY <1>1, <1>2, <2>1, ClientRuns
<1>3. CASE Side # "request"
  <2>0. Side = "response"
    BY <1>1, <1>3 DEF HInv, At, Side, Idle
  <2> DEFINE x == call["response"]
             full(b) == [x EXCEPT !.http.response.body = b]
             none == [x EXCEPT !.rc = EERIS_DATA, !.http.response.body = <<>>]
  <2>1. (\E b : Becomes(full(b), BodyPhase(full(b)))) \/ Becomes(none, "parsed")
    <3>1. CASE TakeBody
      <4>1. PICK n \in 1 .. Len(wire) :
              LET z == [x EXCEPT !.http["response"].body = x.http["response"].body \o SubSeq(wire, 1, n)]
              IN Becomes(z, BodyPhase(z))
        BY <2>0, <3>1 DEF TakeBody
      <4> DEFINE b == x.http["response"].body \o SubSeq(wire, 1, n)
      <4>2. Becomes(full(b), BodyPhase(full(b)))
        BY <4>1, Zenon
      <4> QED
        BY <4>2, Zenon
    <3>2. CASE BodyFails
      BY <1>3, <2>0, <3>2 DEF BodyFails
    <3> QED
      BY <3>1, <3>2
  <2>2. (\A b : Client(full(b))) /\ Client(none)
    <3> HIDE DEF x
    <3>0. Client(x)
      BY DEF x
    <3>1. \A b : Client(full(b))
      BY <3>0 DEF Client
    <3>2. Client(none)
      BY <3>0 DEF Client
    <3> QED
      BY <3>1, <3>2
  <2> HIDE DEF full, none, x
  <2>3. PICK y, phase : Becomes(y, phase) /\ Client(y)
    BY <2>1, <2>2, Zenon
  <2> QED
    BY <1>1, <2>3, ClientRuns
<1> QED
  BY <1>2, <1>3

LEMMA ClientTakes ==
  ASSUME HInv, Client(call["response"]), TakeHead \/ HeadEnds \/ HeadFails \/ TakeChunk
  PROVE  Client(call["response"])'
<1>1. ~At("idle")
  BY DEF TakeHead, HeadEnds, HeadFails, TakeChunk, At
<1>2. CASE TakeHead
  <2>1. PICK phase : Becomes(HeadChar(call[Side], Head(wire)), phase)
    BY <1>2, Zenon DEF TakeHead
  <2>2. Side = "response" => Client(HeadChar(call[Side], Head(wire)))
    BY ClientHead
  <2> QED
    BY <1>1, <2>1, <2>2, ClientRuns
<1>3. CASE HeadEnds
  <2>1. Becomes(call[Side], "parsed")
    BY <1>3 DEF HeadEnds
  <2> QED
    BY <1>1, <2>1, ClientRuns
<1>4. CASE HeadFails
  <2> DEFINE x == [call[Side] EXCEPT !.rc = EERIS_ERROR]
             y == IF Side = "request" THEN Refuse(call[Side], EERIS_ERROR, 408, 10) ELSE x
  <2>1. Becomes(y, "parsed")
    BY <1>4, Zenon DEF HeadFails
  <2>2. Side = "response" => Client(y)
    <3> SUFFICES ASSUME Side = "response" PROVE Client(y)
      OBVIOUS
    <3>1. Client([call["response"] EXCEPT !.rc = EERIS_ERROR])
      BY DEF Client
    <3> QED
      BY <3>1
  <2> HIDE DEF y
  <2> QED
    BY <1>1, <2>1, <2>2, ClientRuns
<1>5. CASE TakeChunk
  <2>1. PICK last, phase : Becomes(ChunksOver(ChunkRound(call[Side], Head(wire), last)), phase)
    BY <1>5, Zenon DEF TakeChunk
  <2>2. Side = "response" => Client(ChunksOver(ChunkRound(call[Side], Head(wire), last)))
    BY ClientRound
  <2> QED
    BY <1>1, <2>1, <2>2, ClientRuns
<1> QED
  BY <1>2, <1>3, <1>4, <1>5

LEMMA ClientAsks ==
  ASSUME HInv, Client(call["response"]), Ask \/ Answer
  PROVE  Client(call["response"])'
<1>1. "request" \in DOMAIN call["response"].http
  BY DEF Client
<1>2. CASE Ask
  <2> DEFINE h == call["response"].http
  <2>1. PICK client, m : /\ call' = [request |-> Begin(call["request"].http),
                                     response |-> ParserStart("response", client)]
                         /\ client \in {CleanupHttp(h), RequestPacked(Filled(h, m))}
    BY <1>2 DEF Ask
  <2> HIDE DEF h
  <2>2. ShapedHttp(client)
    BY <1>1, <2>1, CleanParts, PackedParts DEF h
  <2>3. "request" \in DOMAIN client
    BY <2>2 DEF ShapedHttp, HttpFields
  <2>4. Client(ParserStart("response", client))
    BY <2>3, ClientStart
  <2>5. call'["response"] = ParserStart("response", client)
    BY <2>1
  <2> QED
    BY <2>4, <2>5
<1>3. CASE Answer
  <2> DEFINE h == call["response"].http
             client == [CleanupResponse(h) EXCEPT !.chunk = NoChunks, !.chunked = FALSE]
  <2>1. PICK server : call' = [call EXCEPT !["request"].http = ResponsePacked(server),
                                           !["response"] = ParserStart("response", client)]
    BY <1>3, Zenon DEF Answer
  <2>2. "request" \in DOMAIN client
    BY <1>1 DEF CleanupResponse
  <2> HIDE DEF client
  <2>3. Client(ParserStart("response", client))
    BY <2>2, ClientStart
  <2>4. call'["response"] = ParserStart("response", client)
    BY <2>1 DEF HInv
  <2> QED
    BY <2>3, <2>4
<1> QED
  BY <1>2, <1>3

LEMMA ClientNext ==
  ASSUME HInv, Client(call["response"]), Next
  PROVE  Client(call["response"])'
<1>1. HangUp => Client(call["response"])'
  BY DEF HangUp
<1> QED
  BY <1>1, ClientAsks, ClientTakes, ClientDecides, ClientBody DEF Next

-----------------------------------------------------------------------------
(* The parser of a request, from what it has read of one that was sent.     *)
WayHead(x, w, r, m, clean) ==
  \E v : /\ InHead(x, v, r, clean) /\ IsSeq(v) /\ w = v \o Encoded(m)
         /\ x.size + Len(v) = Len(HeadText(r))
WayHeaded(x, w, r, m, clean) ==
  Finished(x, r, clean) /\ w = Encoded(m) /\ x.size = Len(HeadText(r))
WayBody(x, w, r, m, clean) ==
  /\ Shaped(x) /\ x.rc = 0 /\ HeadRead(x, r, clean) /\ Carries(r.command) /\ ~m.chunked
  /\ IsSeq(x.http.request.body) /\ IsSeq(w) /\ x.http.request.body \o w = Content(m)
WayChunks(x, w, r, m, clean) ==
  HeadRead(x, r, clean) /\ Carries(r.command) /\ m.chunked /\ ChunkAt(x, w, m)
WayParsed(x, r, m, clean) ==
  x.rc = 0 /\ HeadRead(x, r, clean) /\ x.http.request.body = Content(m)

(* Nothing in the head looks at the size. *)
LEMMA SizeApart ==
  ASSUME NEW x, NEW w, NEW r, NEW clean, InHead(x, w, r, clean), NEW n
  PROVE  InHead([x EXCEPT !.size = n], w, r, clean)
<1> DEFINE y == [x EXCEPT !.size = n]
<1>1. Shaped(x)
  BY DEF InHead, Waiting
<1>2. Changes(x, y, {"size"}, {}) /\ y.http = x.http
  <2>1. "size" \in ParserFields \ {"http", "side"}
    BY DEF ParserFields
  <2> QED
    BY <1>1 DEF Changes, Shaped, ParserFields
<1>3. /\ Shaped(y) /\ y.http = x.http /\ y.st = x.st /\ y.tmp = x.tmp /\ y.name = x.name
      /\ y.value = x.value /\ y.done = x.done /\ y.rc = x.rc /\ y.digits = x.digits
  BY <1>2 DEF Changes, ParserFields
<1> HIDE DEF y
<1>4. Waiting(y) /\ ~y.done
  BY <1>3 DEF InHead, Waiting
<1>5. /\ \A F : None(x, F) => None(y, F)
      /\ \A F : Got(x, r, F) => Got(y, r, F)
      /\ Unread(x, clean) => Unread(y, clean)
  BY <1>3 DEF None, Got, Unread
<1>6. AtStart(x, w, r, clean) => AtStart(y, w, r, clean)
  BY <1>3, <1>5 DEF AtStart
<1>7. AtCommand(x, w, r, clean) => AtCommand(y, w, r, clean)
  BY <1>3, <1>5 DEF AtCommand
<1>8. AtUrl(x, w, r, clean) => AtUrl(y, w, r, clean)
  BY <1>3, <1>5 DEF AtUrl
<1>9. AtParameters(x, w, r, clean) => AtParameters(y, w, r, clean)
  BY <1>3, <1>5 DEF AtParameters
<1>10. AtQuery(x, w, r, clean) => AtQuery(y, w, r, clean)
  BY <1>3, <1>5 DEF AtQuery
<1>11. AtFragment(x, w, r, clean) => AtFragment(y, w, r, clean)
  BY <1>3, <1>5 DEF AtFragment
<1>12. TargetRead(x, r, clean) => TargetRead(y, r, clean)
  BY <1>5 DEF TargetRead
<1>13. LineRead(x, r, clean) => LineRead(y, r, clean)
  BY <1>5, <1>12 DEF LineRead
<1>14. AtVersion(x, w, r, clean) => AtVersion(y, w, r, clean)
  BY <1>3, <1>5, <1>12 DEF AtVersion
<1>15. AtTitle(x, w, r, clean) => AtTitle(y, w, r, clean)
  BY <1>3, <1>5, <1>13 DEF AtTitle
<1>16. AtHeader(x, w, r, clean) => AtHeader(y, w, r, clean)
  <2>1. \A k : /\ AtName(x, w, r, k) => AtName(y, w, r, k)
               /\ AtColon(x, w, r, k) => AtColon(y, w, r, k)
               /\ AtValue(x, w, r, k) => AtValue(y, w, r, k)
               /\ AtLineEnd(x, w, r, k) => AtLineEnd(y, w, r, k)
    BY <1>3 DEF AtName, AtColon, AtValue, AtLineEnd
  <2> QED
    BY <1>3, <1>13, <2>1 DEF AtHeader
<1>17. AtHeadEnd(x, w, r, clean) => AtHeadEnd(y, w, r, clean)
  BY <1>3, <1>13 DEF AtHeadEnd, HeadRead
<1> QED
  BY <1>4, <1>6, <1>7, <1>8, <1>9, <1>10, <1>11, <1>14, <1>15, <1>16, <1>17 DEF InHead, y

(* What is sent is a sequence. *)
LEMMA EncodedIsSeq ==
  ASSUME NEW r, NEW m, Sent(r, m)
  PROVE  IsSeq(Encoded(m)) /\ IsSeq(Content(m))
<1>1. IsSeq(Content(m))
  BY FlattenIsSeq DEF Content, Sent, BodyReadable
<1>2. CASE m.chunked
  <2>1. ChunksReadable(m)
    BY <1>2 DEF Sent, BodyReadable
  <2>2. Len(m.chunks) \in Nat /\ BehindChunks(m, 0) = ChunkLines(m)
    BY <2>1, ChunksLeft
  <2>3. IsSeq(BehindChunks(m, 0))
    BY <2>1, <2>2, ChunksLeft
  <2>4. Encoded(m) = ChunkLines(m)
    BY <1>2 DEF Encoded
  <2> QED
    BY <1>1, <2>2, <2>3, <2>4
<1>3. CASE ~m.chunked
  BY <1>1, <1>3 DEF Encoded
<1> QED
  BY <1>2, <1>3

LEMMA HeadJoin ==
  ASSUME NEW v, NEW e, IsSeq(v), IsSeq(e), v # <<>>
  PROVE  /\ v \o e # <<>> /\ Head(v \o e) = Head(v) /\ Tail(v \o e) = Tail(v) \o e
         /\ IsSeq(Tail(v)) /\ Len(v) \in Nat \ {0} /\ Len(Tail(v)) = Len(v) - 1
<1>1. Len(v) \in Nat \ {0}
  BY NotNone, LenIsNat
<1>2. /\ IsSeq(Tail(v)) /\ Len(Tail(v)) = Len(v) - 1 /\ Head(v) = v[1]
      /\ \A i \in 1 .. Len(v) - 1 : Tail(v)[i] = v[i + 1]
  BY <1>1, HeadOf
<1> DEFINE w == v \o e
           t == Tail(v)
<1>3. /\ IsSeq(w) /\ Len(e) \in Nat /\ Len(w) = Len(v) + Len(e)
      /\ \A i \in 1 .. Len(v) + Len(e) : w[i] = IF i <= Len(v) THEN v[i] ELSE e[i - Len(v)]
  BY Cat
<1> HIDE DEF w, t
<1>4. /\ w # <<>> /\ Head(w) = w[1] /\ IsSeq(Tail(w)) /\ Len(Tail(w)) = Len(w) - 1
      /\ \A i \in 1 .. Len(w) - 1 : Tail(w)[i] = w[i + 1]
  BY <1>1, <1>3, HeadOf
<1>5. Head(w) = Head(v)
  BY <1>1, <1>2, <1>3, <1>4
<1> DEFINE u == t \o e
<1>6. /\ IsSeq(u) /\ Len(u) = Len(t) + Len(e)
      /\ \A i \in 1 .. Len(t) + Len(e) : u[i] = IF i <= Len(t) THEN t[i] ELSE e[i - Len(t)]
  BY <1>2, Cat DEF t
<1>7. Len(t) = Len(v) - 1 /\ \A i \in 1 .. Len(v) - 1 : t[i] = v[i + 1]
  BY <1>2 DEF t
<1> HIDE DEF u
<1>8. Tail(w) = u
  <2> DEFINE z == Tail(w)
  <2>1. IsSeq(z) /\ Len(z) = Len(w) - 1 /\ \A i \in 1 .. Len(w) - 1 : z[i] = w[i + 1]
    BY <1>4
  <2> HIDE DEF z
  <2>2. Len(z) = Len(u)
    BY <1>1, <1>3, <1>6, <1>7, <2>1
  <2>3. ASSUME NEW i \in 1 .. Len(z) PROVE z[i] = u[i]
    <3>1. i \in 1 .. Len(w) - 1 /\ i + 1 \in 1 .. Len(v) + Len(e) /\ i \in 1 .. Len(t) + Len(e)
      BY <1>1, <1>3, <1>7, <2>1, <2>3
    <3>2. z[i] = w[i + 1]
      BY <2>1, <3>1
    <3>3. CASE i <= Len(v) - 1
      <4>1. w[i + 1] = v[i + 1]
        BY <1>1, <1>3, <3>1, <3>3
      <4>2. u[i] = t[i] /\ t[i] = v[i + 1]
        BY <1>1, <1>6, <1>7, <3>1, <3>3
      <4> QED
        BY <3>2, <4>1, <4>2
    <3>4. CASE ~(i <= Len(v) - 1)
      <4>1. ~(i + 1 <= Len(v)) /\ ~(i <= Len(t)) /\ (i + 1) - Len(v) = i - Len(t)
        BY <1>1, <1>7, <3>1, <3>4
      <4>2. w[i + 1] = e[(i + 1) - Len(v)]
        BY <1>3, <3>1, <4>1
      <4>3. u[i] = e[i - Len(t)]
        BY <1>6, <3>1, <4>1
      <4> QED
        BY <3>2, <4>1, <4>2, <4>3
    <3> QED
      BY <3>3, <3>4
  <2>4. z = u
    BY <1>6, <2>1, <2>2, <2>3, SameSeq
  <2> QED
    BY <2>4 DEF z
<1> QED
  BY <1>1, <1>2, <1>4, <1>5, <1>8 DEF w, u, t

-----------------------------------------------------------------------------
(* A character of the head. *)
LEMMA HeadGoesOn ==
  ASSUME NEW x, NEW w, NEW r, NEW m, NEW clean, Sent(r, m), WayHead(x, w, r, m, clean),
         x.size \in Nat
  PROVE  LET y == RequestHeadChar(x, Head(w))
         IN /\ w # <<>> /\ y.rc = 0
            /\ y.done => WayHeaded(y, Tail(w), r, m, clean)
            /\ ~y.done => WayHead(y, Tail(w), r, m, clean)
<1>1. PICK v : /\ InHead(x, v, r, clean) /\ IsSeq(v) /\ w = v \o Encoded(m)
               /\ x.size + Len(v) = Len(HeadText(r))
  BY DEF WayHead
<1> DEFINE e == Encoded(m)
           n == x.size + 1
           z == [x EXCEPT !.size = n]
           L == Len(HeadText(r))
<1>2. IsSeq(e)
  BY EncodedIsSeq
<1>3. InHead(z, v, r, clean)
  BY <1>1, SizeApart
<1>4. z.size = n
  BY <1>1 DEF InHead, Waiting, Shaped, ParserFields
<1> HIDE DEF z, e
<1>5. \/ \E c, u : LeadsTo(z, v, r, clean, c, u)
      \/ /\ v = <<"\n">> /\ Finished(RequestChar(z, "\n"), r, clean)
         /\ RequestChar(z, "\n").size = z.size
  BY <1>3, HeadReads DEF Sent
<1>6. v # <<>>
  <2>1. v = <<"\n">> => v # <<>>
    OBVIOUS
  <2> QED
    BY <1>5, <2>1 DEF LeadsTo
<1>7. /\ w # <<>> /\ Head(w) = Head(v) /\ Tail(w) = Tail(v) \o e
      /\ IsSeq(Tail(v)) /\ Len(v) \in Nat \ {0} /\ Len(Tail(v)) = Len(v) - 1
  <2>1. w = v \o e
    BY <1>1 DEF e
  <2>2. /\ v \o e # <<>> /\ Head(v \o e) = Head(v) /\ Tail(v \o e) = Tail(v) \o e
        /\ IsSeq(Tail(v)) /\ Len(v) \in Nat \ {0} /\ Len(Tail(v)) = Len(v) - 1
    BY <1>1, <1>2, <1>6, HeadJoin
  <2> QED
    BY <2>1, <2>2, Zenon
<1> DEFINE c == Head(w)
           y == RequestHeadChar(x, c)
<1>8. L <= HeaderMax
  BY DEF Sent
<1>9. ~(n > HeaderMax)
  <2>1. x.size + Len(v) <= HeaderMax
    BY <1>1, <1>8
  <2> QED
    BY <1>7, <2>1, HeadAssumption
<1>10. y = RequestChar(z, c)
  BY <1>9, Zenon DEF RequestHeadChar, z
<1> HIDE DEF y, c
<1>11. c = Head(v)
  BY <1>7 DEF c
<1>12. CASE \E d, u : LeadsTo(z, v, r, clean, d, u)
  <2>1. PICK d, u : LeadsTo(z, v, r, clean, d, u)
    BY <1>12
  <2>2. d = c /\ u = Tail(v)
    BY <1>11, <2>1 DEF LeadsTo
  <2>3. y.size = z.size /\ InHead(y, u, r, clean)
    BY <1>10, <2>1, <2>2 DEF LeadsTo
  <2>4. y.rc = 0 /\ ~y.done
    BY <2>3 DEF InHead, Waiting
  <2>5. y.size + Len(u) = L
    BY <1>1, <1>4, <1>7, <2>2, <2>3
  <2>6. Tail(w) = u \o e /\ IsSeq(u)
    BY <1>7, <2>2
  <2>7. WayHead(y, Tail(w), r, m, clean)
    <3> HIDE DEF L
    <3>1. InHead(y, u, r, clean) /\ IsSeq(u) /\ Tail(w) = u \o Encoded(m) /\ y.size + Len(u) = Len(HeadText(r))
      BY <2>3, <2>5, <2>6 DEF e, L
    <3> QED
      BY <3>1, Zenon DEF WayHead
  <2> QED
    BY <1>7, <2>4, <2>7 DEF y, c
<1>13. CASE /\ v = <<"\n">> /\ Finished(RequestChar(z, "\n"), r, clean)
            /\ RequestChar(z, "\n").size = z.size
  <2>1. \A d : Head(<<d>>) = d /\ Tail(<<d>>) = <<>> /\ Len(<<d>>) = 1
    OBVIOUS
  <2>2. c = "\n" /\ Tail(v) = <<>> /\ Len(v) = 1
    BY <1>11, <1>13, <2>1
  <2>3. Tail(w) = e
    <3>1. <<>> \o e = e
      BY <1>2, Cat
    <3> QED
      BY <1>7, <2>2, <3>1
  <2>4. Finished(y, r, clean) /\ y.size = n
    BY <1>4, <1>10, <1>13, <2>2
  <2>5. y.rc = 0 /\ y.done
    BY <2>4 DEF Finished, Waiting
  <2>6. y.size = L
    BY <1>1, <2>2, <2>4
  <2>7. WayHeaded(y, Tail(w), r, m, clean)
    BY <2>3, <2>4, <2>6 DEF WayHeaded, e
  <2> QED
    BY <1>7, <2>5, <2>7 DEF y, c
<1> QED
  BY <1>5, <1>12, <1>13

(* What follows the head is not taken for more of it. *)
LEMMA EndHeadSame ==
  ASSUME NEW x, NEW w, NEW r, NEW m, NEW clean, Sent(r, m), WayHeaded(x, w, r, m, clean),
         NEW n \in 0 .. Len(w)
  PROVE  EndHead(x, n > 0) = x
<1>1. IsSeq(w) /\ w = Encoded(m) /\ x.size = Len(HeadText(r)) /\ Len(HeadText(r)) \in Nat
  BY EncodedIsSeq, LenIsNat DEF WayHeaded, Sent
<1>2. n > 0 => ~(x.size + 1 > HeaderMax)
  <2> SUFFICES ASSUME n > 0 PROVE ~(x.size + 1 > HeaderMax)
    OBVIOUS
  <2>1. Len(w) # 0
    BY <1>1, LenIsNat
  <2>2. w # <<>>
    BY <1>1, <2>1, NotNone
  <2>3. Len(HeadText(r)) < HeaderMax
    BY <1>1, <2>2 DEF Sent
  <2> QED
    BY <1>1, <2>3, HeadAssumption
<1> QED
  BY <1>2, Zenon DEF EndHead

(* The headers the parser has are found as those that were sent. *)
LEMMA HeadersFound ==
  ASSUME NEW x, NEW r, NEW m, NEW clean, Sent(r, m), HeadRead(x, r, clean),
         Carries(r.command), NEW hs, hs = x.http.request.headers
  PROVE  /\ ~ShakesOn(hs) /\ (ByChunks(hs) <=> m.chunked)
         /\ ~m.chunked => Measured(hs, Len(Content(m)))
<1>1. hs = Newest(r.headers, Len(r.headers))
  BY DEF HeadRead
<1>2. /\ \A n : HasHeader(hs, n) <=> HasHeader(r.headers, n)
      /\ \A n : HasHeader(r.headers, n) => HeaderValue(hs, n) = HeaderValue(r.headers, n)
  BY <1>1, NewestSame DEF Sent
<1>3. \A n, v : HeaderIs(hs, n, v) <=> HeaderIs(r.headers, n, v)
  BY <1>2 DEF HeaderIs
<1>4. ShakesOn(hs) <=> ShakesOn(r.headers)
  BY <1>2, <1>3 DEF ShakesOn
<1>5. ByChunks(hs) <=> ByChunks(r.headers)
  BY <1>3 DEF ByChunks
<1>6. \A n : Measured(r.headers, n) => Measured(hs, n)
  BY <1>2 DEF Measured, Length
<1>7. /\ ~ShakesOn(r.headers) /\ (ByChunks(r.headers) <=> m.chunked)
      /\ (~m.chunked => Measured(r.headers, Len(Content(m))))
  BY DEF Sent, BodyReadable
<1> QED
  BY <1>4, <1>5, <1>6, <1>7

(* A text that makes another one with what follows it, and is not shorter. *)
LEMMA Whole ==
  ASSUME NEW s, NEW t, IsSeq(s), IsSeq(t), ~(Len(s) < Len(s \o t))
  PROVE  s \o t = s
<1>1. Len(s) \in Nat /\ Len(t) \in Nat /\ Len(s \o t) = Len(s) + Len(t) /\ s \o <<>> = s
  BY Cat
<1>2. Len(t) = 0
  BY <1>1
<1>3. t = <<>>
  BY <1>2, NotNone
<1> QED
  BY <1>1, <1>3

(* A piece is cut off. *)
LEMMA CutOff ==
  ASSUME NEW w, IsSeq(w), NEW n \in 0 .. Len(w)
  PROVE  LET a == SubSeq(w, 1, n)
             b == SubSeq(w, n + 1, Len(w))
         IN IsSeq(a) /\ IsSeq(b) /\ a \o b = w
<1> DEFINE a == SubSeq(w, 1, n)
           b == SubSeq(w, n + 1, Len(w))
<1>1. PICK S : w \in Seq(S)
  BY DEF IsSeq
<1>2. a \in Seq(S) /\ Len(a) = n /\ \A i \in 1 .. n : a[i] = w[i]
  BY <1>1
<1>3. b \in Seq(S) /\ Len(b) = Len(w) - n /\ \A i \in 1 .. Len(w) - n : b[i] = w[n + i]
  BY <1>1
<1>4. IsSeq(a) /\ IsSeq(b) /\ Len(w) \in Nat
  <2>1. IsSeq(a)
    BY <1>2 DEF IsSeq
  <2>2. IsSeq(b)
    BY <1>3 DEF IsSeq
  <2> QED
    BY <2>1, <2>2, LenIsNat
<1> HIDE DEF a, b
<1> DEFINE u == a \o b
<1>5. /\ IsSeq(u) /\ Len(u) = Len(a) + Len(b)
      /\ \A i \in 1 .. Len(a) + Len(b) : u[i] = IF i <= Len(a) THEN a[i] ELSE b[i - Len(a)]
  BY <1>4, Cat
<1> HIDE DEF u
<1>6. Len(u) = Len(w)
  BY <1>2, <1>3, <1>4, <1>5
<1>7. ASSUME NEW i \in 1 .. Len(u) PROVE u[i] = w[i]
  <2>1. i \in 1 .. Len(a) + Len(b)
    BY <1>5, <1>7
  <2>2. CASE i <= Len(a)
    <3>1. u[i] = a[i] /\ i \in 1 .. n
      BY <1>2, <1>4, <1>5, <1>7, <2>1, <2>2
    <3> QED
      BY <1>2, <3>1
  <2>3. CASE ~(i <= Len(a))
    <3>1. u[i] = b[i - Len(a)] /\ i - Len(a) \in 1 .. Len(w) - n /\ n + (i - Len(a)) = i
      BY <1>2, <1>3, <1>4, <1>5, <1>7, <2>1, <2>3
    <3> QED
      BY <1>3, <3>1
  <2> QED
    BY <2>2, <2>3
<1>8. u = w
  BY <1>4, <1>5, <1>6, <1>7, SameSeq
<1> QED
  BY <1>4, <1>8 DEF u, a, b

-----------------------------------------------------------------------------
Way(phase, x, w, r, m, clean) ==
  /\ phase = "head" => WayHead(x, w, r, m, clean)
  /\ phase = "headed" => WayHeaded(x, w, r, m, clean)
  /\ phase = "body" => WayBody(x, w, r, m, clean)
  /\ phase = "chunks" => WayChunks(x, w, r, m, clean)
  /\ phase = "parsed" => WayParsed(x, r, m, clean)

(* Behind a head, all the chunks are still to come. *)
LEMMA ChunksStart ==
  ASSUME NEW x, Waiting(x), NEW m, ChunksReadable(m)
  PROVE  LET y == [x EXCEPT !.http.chunked = TRUE]
         IN ChunkAt(y, ChunkLines(m), m) /\ y.http.request = x.http.request
<1> DEFINE t == TRUE
           h == [x.http EXCEPT !.chunked = t]
           y == [x EXCEPT !.http = h]
           w == ChunkLines(m)
<1>1. y = [x EXCEPT !.http.chunked = TRUE]
  OBVIOUS
<1>2. /\ ShapedHttp(h) /\ h.request = x.http.request /\ h.chunked = t /\ h.chunk = x.http.chunk
  <2> HIDE DEF t
  <2> QED
    BY DEF Waiting, Shaped, ShapedHttp, HttpFields
<1> HIDE DEF h
<1>3. /\ Shaped(y) /\ y.http = h /\ y.rc = x.rc /\ y.digits = x.digits
  BY <1>2 DEF Waiting, Shaped, ParserFields
<1> HIDE DEF y
<1>4. y.http.request = x.http.request
  BY <1>2, <1>3
<1>5. NoChunks = State("CHUNKED", 0, 0)
  BY DEF NoChunks, State
<1> DEFINE n == <<>>
<1>6. Stand(y, "CHUNKED", 0, 0, n, n)
  BY <1>2, <1>3, <1>4, <1>5 DEF Stand, Waiting
<1>7. Len(m.chunks) \in Nat /\ 0 \in 0 .. Len(m.chunks) /\ Pieces(m.chunks)
  BY ChunksLeft
<1>8. /\ IsSeq(SizeText(m, 0)) /\ IsSeq(BehindSize(m, 0))
      /\ BehindChunks(m, 0) = SizeText(m, 0) \o BehindSize(m, 0)
      /\ BehindChunks(m, 0) = ChunkLines(m)
  BY <1>7, ChunksLeft
<1>9. w = SizeText(m, 0) \o BehindSize(m, 0)
  BY <1>8
<1> HIDE DEF w
<1>10. Reading(n, w, SizeText(m, 0), BehindSize(m, 0))
  BY <1>8, <1>9, Begins
<1>11. Made(m, 0, n)
  <2>1. Left(m.chunks, 0) = Content(m)
    BY <1>7, LeftSteps DEF Content
  <2>2. IsSeq(n) /\ IsSeq(Content(m))
    BY <1>7, EmptyIsSeq, FlattenIsSeq DEF Content
  <2>3. n \o Content(m) = Content(m)
    BY <2>2, Cat
  <2> QED
    BY <2>1, <2>2, <2>3 DEF Made
<1>12. AtSize("CHUNKED", 0, n, n, w, m, 0, n)
  BY <1>10 DEF AtSize, SizeState
<1> HIDE DEF n
<1>13. Position("CHUNKED", 0, 0, n, n, w, m, 0, n)
  BY <1>12 DEF Position
<1>14. ChunkAt(y, w, m)
  BY <1>6, <1>7, <1>11, <1>13, Zenon DEF ChunkAt
<1> QED
  BY <1>1, <1>4, <1>14 DEF w

LEMMA ChunksBegin ==
  ASSUME NEW x, NEW w, NEW r, NEW m, NEW clean, Sent(r, m), WayHeaded(x, w, r, m, clean),
         m.chunked, Carries(r.command)
  PROVE  WayChunks([x EXCEPT !.http.chunked = TRUE], w, r, m, clean)
<1> DEFINE y == [x EXCEPT !.http.chunked = TRUE]
<1>1. Waiting(x) /\ HeadRead(x, r, clean) /\ w = ChunkLines(m)
  BY DEF WayHeaded, Finished, Encoded
<1>2. ChunksReadable(m)
  BY DEF Sent, BodyReadable
<1>3. ChunkAt(y, ChunkLines(m), m) /\ y.http.request = x.http.request
  BY <1>1, <1>2, ChunksStart
<1> HIDE DEF y
<1>4. HeadRead(y, r, clean)
  BY <1>1, <1>3 DEF HeadRead, LineRead, TargetRead, Got
<1> QED
  BY <1>1, <1>3, <1>4 DEF WayChunks, y

(* The part of a body that came with the head, or later. *)
LEMMA BodyGoesOn ==
  ASSUME NEW x, NEW w, NEW r, NEW m, NEW clean, Sent(r, m), WayBody(x, w, r, m, clean)
  PROVE  /\ BodyPhase(x) \in {"body", "parsed"} /\ x.rc = 0
         /\ Way(BodyPhase(x), x, w, r, m, clean)
<1> DEFINE b == x.http.request.body
<1>1. /\ IsSeq(b) /\ IsSeq(w) /\ b \o w = Content(m) /\ HeadRead(x, r, clean) /\ x.rc = 0
      /\ Carries(r.command) /\ ~m.chunked
  BY DEF WayBody
<1>2. Length(x.http.request.headers) = Len(Content(m))
  BY <1>1, HeadersFound DEF Measured
<1>3. Body(x) = b
  BY DEF Body, WayBody, Shaped
<1>4. CASE Len(b) < Len(Content(m))
  <2>1. BodyPhase(x) = "body"
    BY <1>2, <1>3, <1>4 DEF BodyPhase
  <2> QED
    BY <1>1, <2>1 DEF Way
<1>5. CASE ~(Len(b) < Len(Content(m)))
  <2>1. BodyPhase(x) = "parsed"
    BY <1>2, <1>3, <1>5 DEF BodyPhase
  <2>2. b = Content(m)
    BY <1>1, <1>5, Whole
  <2>3. WayParsed(x, r, m, clean)
    BY <1>1, <2>2 DEF WayParsed
  <2> QED
    BY <1>1, <2>1, <2>3 DEF Way
<1> QED
  BY <1>4, <1>5

LEMMA BodyPut ==
  ASSUME NEW x, Shaped(x), NEW b, NEW y, y = Put(x, "body", b)
  PROVE  /\ Shaped(y) /\ y.rc = x.rc /\ y.http.request.body = b /\ Kept(x, y)
         /\ y.http.request.headers = x.http.request.headers
<1>1. "body" \in RequestFields /\ "headers" \in RequestFields \ {"body"}
  BY DEF RequestFields
<1>2. /\ Shaped(y) /\ y.rc = x.rc /\ y.http.request["body"] = b
      /\ \A g \in RequestFields \ {"body"} : y.http.request[g] = x.http.request[g]
  BY <1>1, RequestField
<1>3. y.http.request["headers"] = x.http.request["headers"]
  BY <1>1, <1>2
<1> QED
  BY <1>2, <1>3 DEF Kept

LEMMA HeadKept ==
  ASSUME NEW x, NEW y, NEW r, NEW clean, Kept(x, y), HeadRead(x, r, clean)
  PROVE  HeadRead(y, r, clean)
<1>1. \A f \in {"command", "url", "query", "parameters", "fragment", "version", "headers"} :
        y.http.request[f] = x.http.request[f]
  BY DEF Kept, RequestFields
<1>2. y.http.request.headers = x.http.request.headers
  BY <1>1
<1>3. Got(y, r, {"command", "url", "query"})
  BY <1>1 DEF HeadRead, LineRead, TargetRead, Got
<1>4. clean => Got(y, r, {"parameters", "fragment"})
  BY <1>1 DEF HeadRead, LineRead, TargetRead, Got
<1>5. Got(y, r, {"version"})
  BY <1>1 DEF HeadRead, LineRead, Got
<1> QED
  BY <1>2, <1>3, <1>4, <1>5 DEF HeadRead, LineRead, TargetRead

LEMMA LengthAccepted ==
  ASSUME NEW x, NEW n \in Nat, n <= BodyMax, Measured(x.http.request.headers, n)
  PROVE  LengthRefused(x) = x
<1> DEFINE hs == x.http.request.headers
           has == HasHeader(hs, <<"Content-Length">>)
           wrong == Length(hs) < 0 \/ Length(hs) > BodyMax
<1>1. has /\ Length(hs) = n
  BY DEF Measured
<1>2. ~wrong
  <2> HIDE DEF hs
  <2> QED
    BY <1>1, ChunkAssumption
<1> HIDE DEF wrong
<1>3. LengthRefused(x) = CASE ~has -> Refuse(x, EERIS_4XX, 411, 10)
                           [] has /\ wrong -> Refuse(x, EERIS_4XX, 413, 10)
                           [] OTHER -> x
  BY Zenon DEF LengthRefused, wrong
<1> HIDE DEF has
<1> QED
  BY <1>1, <1>2, <1>3, Zenon

LEMMA DecideGoesOn ==
  ASSUME NEW x, NEW r, NEW m, NEW clean, Sent(r, m), WayHeaded(x, wire, r, m, clean),
         NEW n \in 0 .. Len(wire), DecideRequest(x, SubSeq(wire, 1, n))
  PROVE  \E y, phase : /\ Becomes(y, phase) /\ y.rc = 0 /\ phase \in {"body", "chunks", "parsed"}
                       /\ Way(phase, y, wire', r, m, clean)
<1>1. Waiting(x) /\ HeadRead(x, r, clean) /\ wire = Encoded(m)
  BY DEF WayHeaded, Finished
<1>2. /\ x.http.request.command = r.command /\ x.rc = 0 /\ Shaped(x) /\ x.http.request.body = <<>>
  BY <1>1 DEF HeadRead, LineRead, TargetRead, Got, Waiting
<1> DEFINE rest == SubSeq(wire, 1, n)
           b == Put(x, "body", rest)
           plain == LengthRefused(b)
           hs == x.http.request.headers
           far == SubSeq(wire, Len(rest) + 1, Len(wire))
<1>3. CASE ~Carries(r.command)
  <2>1. Becomes(x, "parsed")
    BY <1>2, <1>3, Zenon DEF DecideRequest
  <2>2. Content(m) = <<>>
    BY <1>3 DEF Sent, BodyReadable
  <2>3. WayParsed(x, r, m, clean)
    BY <1>1, <1>2, <2>2 DEF WayParsed
  <2>4. Way("parsed", x, wire', r, m, clean)
    BY <2>3 DEF Way
  <2> QED
    BY <1>2, <2>1, <2>4
<1>4. CASE Carries(r.command)
  <2>1. /\ ~ShakesOn(hs) /\ (ByChunks(hs) <=> m.chunked)
        /\ (~m.chunked => Measured(hs, Len(Content(m))))
    BY <1>1, <1>4, HeadersFound
  <2>2. ~Shakes(x)
    BY <2>1 DEF Shakes, ShakesOn
  <2>3. Chunked(x) <=> m.chunked
    BY <1>2, <2>1 DEF Chunked, ByChunks, Shaped
  <2>4. CASE m.chunked
    <3>1. Chunked(x)
      BY <2>3, <2>4
    <3>2. Becomes([x EXCEPT !.http.chunked = TRUE], "chunks") /\ UNCHANGED wire
      BY <1>2, <1>4, <2>2, <3>1, Zenon DEF DecideRequest
    <3>3. WayChunks([x EXCEPT !.http.chunked = TRUE], wire, r, m, clean)
      BY <1>4, <2>4, ChunksBegin
    <3> DEFINE y == [x EXCEPT !.http.chunked = TRUE]
    <3>4. Becomes(y, "chunks") /\ WayChunks(y, wire', r, m, clean)
      BY <3>2, <3>3
    <3> HIDE DEF y
    <3>5. y.rc = 0
      BY <3>4 DEF WayChunks, ChunkAt, Stand
    <3>6. Way("chunks", y, wire', r, m, clean)
      BY <3>4 DEF Way
    <3> QED
      BY <3>4, <3>5, <3>6
  <2>5. CASE ~m.chunked
    <3>1. ~Chunked(x)
      BY <2>3, <2>5
    <3>2. Becomes(plain, BodyPhase(plain)) /\ wire' = far
      BY <1>2, <1>4, <2>2, <3>1, Zenon DEF DecideRequest, Put
    <3>3. IsSeq(wire) /\ wire = Content(m) /\ IsSeq(rest)
      BY <1>1, <2>5, EncodedIsSeq, CutOff DEF Encoded
    <3>4. Len(rest) = n
      <4>1. PICK S : wire \in Seq(S)
        BY <3>3 DEF IsSeq
      <4> QED
        BY <4>1
    <3>5. IsSeq(far) /\ rest \o far = Content(m)
      BY <3>3, <3>4, CutOff
    <3>6. PICK z : z = b
      OBVIOUS
    <3>7. /\ Shaped(z) /\ z.rc = x.rc /\ z.http.request.body = rest /\ Kept(x, z)
          /\ z.http.request.headers = x.http.request.headers
      <4> HIDE DEF rest
      <4> QED
        BY <1>2, <3>6, BodyPut
    <3>8. Len(Content(m)) \in Nat /\ Len(Content(m)) <= BodyMax
      <4>1. Len(Content(m)) \in Nat
        BY EncodedIsSeq, LenIsNat
      <4>2. Len(Content(m)) <= BodyMax
        BY <1>4 DEF Sent, BodyReadable
      <4> QED
        BY <4>1, <4>2
    <3>9. LengthRefused(z) = z
      BY <2>1, <2>5, <3>7, <3>8, LengthAccepted
    <3>10. HeadRead(z, r, clean)
      BY <1>1, <3>7, HeadKept
    <3>11. WayBody(z, far, r, m, clean)
      <4> HIDE DEF rest, far
      <4> QED
        BY <1>2, <1>4, <2>5, <3>3, <3>5, <3>7, <3>10 DEF WayBody
    <3>12. plain = z
      BY <3>6, <3>9
    <3>13. Becomes(z, BodyPhase(z)) /\ wire' = far
      <4> HIDE DEF plain, far
      <4> QED
        BY <3>2, <3>12
    <3> HIDE DEF rest, b, plain, far
    <3>14. /\ BodyPhase(z) \in {"body", "parsed"} /\ z.rc = 0 /\ Way(BodyPhase(z), z, far, r, m, clean)
      BY <3>11, BodyGoesOn
    <3> QED
      BY <3>13, <3>14
  <2> QED
    BY <2>4, <2>5
<1> QED
  BY <1>3, <1>4

-----------------------------------------------------------------------------
(* The body so far is no longer than what was meant. *)
LEMMA BodyBounded ==
  ASSUME NEW x, NEW w, NEW m, ChunksReadable(m), ChunkAt(x, w, m)
  PROVE  Len(x.http.request.body) <= Len(Content(m)) /\ Len(x.http.request.body) \in Nat
<1>1. PICK st, n, g, d, b, p : \E k \in 0 .. Len(m.chunks) :
        Stand(x, st, n, g, d, b) /\ Made(m, k, p) /\ Position(st, n, g, d, b, w, m, k, p)
  BY Zenon DEF ChunkAt
<1>2. PICK k \in 0 .. Len(m.chunks) :
        Stand(x, st, n, g, d, b) /\ Made(m, k, p) /\ Position(st, n, g, d, b, w, m, k, p)
  BY <1>1
<1>3. x.http.request.body = b
  BY <1>2 DEF Stand
<1>4. Pieces(m.chunks) /\ Len(m.chunks) \in Nat
  BY ChunksLeft
<1> DEFINE l == Left(m.chunks, k)
           N == Len(Content(m))
<1>5. IsSeq(l)
  BY <1>4, LeftIsSeq
<1>6. IsSeq(p) /\ p \o l = Content(m)
  BY <1>2 DEF Made
<1>7. Len(p) \in Nat /\ Len(l) \in Nat /\ N = Len(p) + Len(l)
  BY <1>5, <1>6, Cat
<1>8. CASE b = p
  BY <1>3, <1>7, <1>8
<1>9. CASE AtData(st, n, g, d, b, w, m, k, p)
  <2>1. k \in 0 .. Len(m.chunks) - 1
    BY <1>4, <1>9 DEF AtData
  <2> DEFINE c == m.chunks[k + 1]
             t == Left(m.chunks, k + 1)
  <2>2. l = c \o t
    BY <1>4, <2>1, LeftSteps
  <2>3. IsSeq(c) /\ IsSeq(t)
    <3>1. k + 1 \in 1 .. Len(m.chunks) /\ k + 1 \in 0 .. Len(m.chunks)
      BY <1>4, <2>1
    <3>2. IsSeq(c)
      BY <1>4, <3>1 DEF Pieces
    <3>3. IsSeq(t)
      BY <1>4, <3>1, LeftIsSeq
    <3> QED
      BY <3>2, <3>3
  <2>4. PICK s : Reading(s, w, c, Ends(BehindChunks(m, k + 1))) /\ b = p \o s
    BY <1>9 DEF AtData
  <2> HIDE DEF c, t, l
  <2>5. Len(c) \in Nat /\ Len(t) \in Nat /\ Len(l) = Len(c) + Len(t)
    BY <2>2, <2>3, Cat
  <2>6. IsSeq(s) /\ Len(s) <= Len(c) /\ Len(s) \in Nat
    BY <2>4, LenIsNat DEF Reading
  <2>7. Len(b) = Len(p) + Len(s)
    BY <1>6, <2>4, <2>6, Cat
  <2>8. Len(b) <= N
    BY <1>7, <2>5, <2>6, <2>7
  <2> QED
    BY <1>3, <2>8
<1>10. b = p \/ AtData(st, n, g, d, b, w, m, k, p)
  BY <1>2 DEF Position, AtSize, AtExtension, AtSizeEnd, AtFirst, AtDataEnd, AtTrailer
<1> QED
  BY <1>8, <1>9, <1>10

(* Outside of the line with the size there are no digits to lose. *)
LEMMA NoDigits ==
  ASSUME NEW x, NEW w, NEW m, ChunkAt(x, w, m)
  PROVE  /\ Shaped(x) /\ x.rc = 0 /\ x.http.chunk.end = FALSE
         /\ x.http.chunk.st \notin SizeLine => x.digits = <<>>
<1>1. PICK st, n, g, d, b, p : \E k \in 0 .. Len(m.chunks) :
        Stand(x, st, n, g, d, b) /\ Made(m, k, p) /\ Position(st, n, g, d, b, w, m, k, p)
  BY Zenon DEF ChunkAt
<1>2. PICK k \in 0 .. Len(m.chunks) :
        Stand(x, st, n, g, d, b) /\ Made(m, k, p) /\ Position(st, n, g, d, b, w, m, k, p)
  BY <1>1
<1>3. State(st, n, g).st = st /\ State(st, n, g).end = FALSE
  BY StateParts DEF Filling
<1>4. /\ Shaped(x) /\ x.rc = 0 /\ x.http.chunk.end = FALSE /\ x.http.chunk.st = st /\ x.digits = d
  BY <1>2, <1>3 DEF Stand
<1>5. st \notin SizeLine => d = <<>>
  <2>1. Position(st, n, g, d, b, w, m, k, p)
    BY <1>2
  <2>2. AtSize(st, g, d, b, w, m, k, p) => (st \notin SizeLine => d = <<>>)
    BY DEF AtSize, SizeState, SizeLine
  <2>3. AtExtension(st, g, d, b, w, m, k, p) => st \in SizeLine
    BY DEF AtExtension, SizeLine
  <2>4. AtSizeEnd(st, g, d, b, w, m, k, p) => st \in SizeLine
    BY DEF AtSizeEnd, SizeLine
  <2>5. AtFirst(st, n, g, d, b, w, m, k, p) => d = <<>>
    BY DEF AtFirst
  <2>6. AtData(st, n, g, d, b, w, m, k, p) => d = <<>>
    BY DEF AtData
  <2>7. AtDataEnd(st, g, d, b, w, m, k, p) => d = <<>>
    BY DEF AtDataEnd
  <2>8. AtTrailer(st, n, g, d, b, w, m, k, p) => d = <<>>
    BY DEF AtTrailer
  <2> QED
    BY <2>1, <2>2, <2>3, <2>4, <2>5, <2>6, <2>7, <2>8 DEF Position
<1> QED
  BY <1>4, <1>5

(* A character of the chunks. *)
LEMMA ChunksGo ==
  ASSUME NEW x, NEW w, NEW r, NEW m, NEW clean, Sent(r, m), WayChunks(x, w, r, m, clean),
         NEW last \in BOOLEAN
  PROVE  LET y == ChunkRound(x, Head(w), last)
         IN /\ y.rc = 0 /\ ChunksOver(y) = y
            /\ y.http.chunk.end => WayParsed(y, r, m, clean)
            /\ ~y.http.chunk.end => \/ last /\ y.http.chunk.st \in SizeLine
                                    \/ WayChunks(y, Tail(w), r, m, clean)
<1> DEFINE c == Head(w)
           u == ChunkChar(x, c)
           over == u.rc # 0 \/ u.http.chunk.end
           d == IF last \/ over THEN <<>> ELSE u.digits
           k == IF over THEN [NoChunks EXCEPT !.end = u.http.chunk.end] ELSE u.http.chunk
           z == [u EXCEPT !.digits = d, !.http.chunk = k]
           y == ChunkRound(x, c, last)
<1>1. ChunksReadable(m) /\ Len(Content(m)) <= BodyMax /\ Carries(r.command) /\ m.chunked
      /\ HeadRead(x, r, clean) /\ ChunkAt(x, w, m)
  BY DEF WayChunks, Sent, BodyReadable
<1>2. CheckedChunkChar(x, c) = u
  <2>1. Len(x.http.request.body) <= Len(Content(m)) /\ Len(x.http.request.body) \in Nat
    BY <1>1, BodyBounded
  <2>2. Len(Content(m)) \in Nat
    BY EncodedIsSeq, LenIsNat
  <2>3. ~(Len(x.http.request.body) > BodyMax)
    BY <1>1, <2>1, <2>2, ChunkAssumption
  <2> QED
    BY <2>3, Zenon DEF CheckedChunkChar
<1>3. y = z
  BY <1>2, Zenon DEF ChunkRound
<1>4. \/ \E a, v : ChunksGoOn(x, w, m, a, v)
      \/ ChunksOverAt(x, w, m)
  BY <1>1, ChunkReads
<1>5. CASE \E a, v : ChunksGoOn(x, w, m, a, v)
  <2> HIDE DEF u
  <2>1. Kept(x, u) /\ ChunkAt(u, Tail(w), m)
    <3>1. PICK a, v : ChunksGoOn(x, w, m, a, v)
      BY <1>5
    <3> QED
      BY <3>1 DEF ChunksGoOn, u
  <2>2. /\ Shaped(u) /\ u.rc = 0 /\ u.http.chunk.end = FALSE
        /\ u.http.chunk.st \notin SizeLine => u.digits = <<>>
    BY <2>1, NoDigits
  <2>3. ~over /\ k = u.http.chunk
    BY <2>2
  <2> HIDE DEF over
  <2>4. d = u.digits => z = u
    <3> HIDE DEF d, k
    <3> QED
      BY <2>2, <2>3 DEF Shaped, ShapedHttp, ParserFields, HttpFields
  <2>5. z.rc = 0 /\ z.http.chunk = u.http.chunk
    <3> HIDE DEF d, k
    <3> QED
      BY <2>2, <2>3 DEF Shaped, ShapedHttp, ParserFields, HttpFields
  <2>6. ~last \/ u.http.chunk.st \notin SizeLine => d = u.digits
    BY <2>2, <2>3 DEF d
  <2>7. WayChunks(u, Tail(w), r, m, clean)
    BY <1>1, <2>1, HeadKept DEF WayChunks
  <2> HIDE DEF z
  <2>8. ChunksOver(z) = z
    BY <2>5, Zenon DEF ChunksOver
  <2> HIDE DEF d, k
  <2>9. z.http.chunk.end = FALSE /\ z.http.chunk.st = u.http.chunk.st
    BY <2>2, <2>5
  <2>10. (last /\ z.http.chunk.st \in SizeLine) \/ WayChunks(z, Tail(w), r, m, clean)
    BY <2>4, <2>6, <2>7, <2>9
  <2> HIDE DEF y
  <2> QED
    BY <1>3, <2>5, <2>8, <2>9, <2>10 DEF y
<1>6. CASE ChunksOverAt(x, w, m)
  <2>1. \A a : Head(<<a>>) = a
    OBVIOUS
  <2>2. c = "\n"
    BY <1>6, <2>1 DEF ChunksOverAt
  <2>3. /\ Shaped(u) /\ u.rc = 0 /\ u.http.chunk.end = TRUE /\ u.http.request.body = Content(m)
        /\ Kept(x, u)
    BY <1>6, <2>2 DEF ChunksOverAt
  <2> HIDE DEF u
  <2>4. k = [NoChunks EXCEPT !.end = TRUE]
    BY <2>3
  <2>5. k.end = TRUE
    BY <2>4 DEF NoChunks
  <2> HIDE DEF over, d, k
  <2>6. z.rc = 0 /\ z.http.chunk = k /\ z.http.request = u.http.request
    BY <2>3 DEF Shaped, ShapedHttp, ParserFields, HttpFields
  <2> HIDE DEF z
  <2>7. ChunksOver(z) = z
    BY <2>6, Zenon DEF ChunksOver
  <2>8. HeadRead(z, r, clean)
    <3>1. Kept(x, z)
      BY <2>3, <2>6 DEF Kept
    <3> QED
      BY <1>1, <3>1, HeadKept
  <2>9. WayParsed(z, r, m, clean) /\ z.http.chunk.end = TRUE
    BY <2>3, <2>5, <2>6, <2>8 DEF WayParsed
  <2> HIDE DEF y
  <2> QED
    BY <1>3, <2>6, <2>7, <2>9 DEF y
<1> QED
  BY <1>4, <1>5, <1>6

-----------------------------------------------------------------------------
(* The context a request begins with. *)
Blank(h) == h.request.parameters = <<>> /\ h.request.fragment = <<>>

LEMMA BeginReads ==
  ASSUME NEW h, ShapedHttp(h), NEW r, NEW m, Sent(r, m), NEW clean, clean => Blank(h)
  PROVE  WayHead(Begin(h), HeadText(r) \o Encoded(m), r, m, clean)
<1> DEFINE f == CleanupHttp(h)
           g == CleanupRequest(f)
           x == ParserStart("request", g)
           n == FALSE
<1>1. /\ f = [k \in HttpFields |-> f[k]] /\ f.request = [k \in RequestFields |-> f.request[k]]
      /\ f.request.parameters = h.request.parameters /\ f.request.fragment = h.request.fragment
      /\ f.chunked = FALSE /\ f.chunk = NoChunks
  BY DEF CleanupHttp, CleanupRequest, InitHttp, InitRequest, ShapedHttp, HttpFields, RequestFields
<1> HIDE DEF f
<1>2. /\ ShapedHttp(g) /\ g.chunked = FALSE /\ g.chunk = NoChunks
      /\ g.request.parameters = h.request.parameters /\ g.request.fragment = h.request.fragment
      /\ g.request.url = <<>> /\ g.request.query = <<>> /\ g.request.headers = <<>>
      /\ g.request.body = <<>>
  BY <1>1 DEF CleanupRequest, InitRequest, ShapedHttp, HttpFields, RequestFields
<1> HIDE DEF g
<1>3. /\ x = [k \in ParserFields |-> x[k]] /\ x.side = "request" /\ x.http = g /\ x.rc = 0
      /\ x.digits = <<>> /\ x.tmp = <<>> /\ x.st = "START" /\ x.size = 0
  BY DEF ParserStart, ParserFields
<1>4. x.done = n
  BY DEF ParserStart
<1>5. Begin(h) = x
  BY DEF Begin, f, g
<1> HIDE DEF x
<1>6. Waiting(x) /\ ~x.done
  BY <1>2, <1>3, <1>4 DEF Waiting, Shaped
<1>7. AtStart(x, HeadText(r), r, clean)
  BY <1>2, <1>3 DEF AtStart, Unread, None, Blank
<1>8. InHead(x, HeadText(r), r, clean)
  BY <1>6, <1>7 DEF InHead
<1>9. IsSeq(HeadText(r)) /\ Len(HeadText(r)) \in Nat
  BY LenIsNat DEF Sent
<1> DEFINE v == HeadText(r)
           e == Encoded(m)
<1> HIDE DEF v, e
<1>10. InHead(x, v, r, clean) /\ IsSeq(v) /\ x.size + Len(v) = Len(v)
  BY <1>3, <1>8, <1>9 DEF v
<1>11. WayHead(x, v \o e, r, m, clean)
  BY <1>10, Zenon DEF WayHead, v, e
<1> QED
  BY <1>5, <1>11 DEF v, e

(* A piece of a body. *)
LEMMA PieceGoesOn ==
  ASSUME NEW x, NEW w, NEW r, NEW m, NEW clean, Sent(r, m), WayBody(x, w, r, m, clean),
         NEW n \in 1 .. Len(w)
  PROVE  LET y == Put(x, "body", x.http.request.body \o SubSeq(w, 1, n))
             v == SubSeq(w, n + 1, Len(w))
         IN y.rc = 0 /\ Way(BodyPhase(y), y, v, r, m, clean)
<1> DEFINE b == x.http.request.body
           a == SubSeq(w, 1, n)
           v == SubSeq(w, n + 1, Len(w))
           s == b \o a
<1>1. /\ Shaped(x) /\ x.rc = 0 /\ HeadRead(x, r, clean) /\ Carries(r.command) /\ ~m.chunked
      /\ IsSeq(b) /\ IsSeq(w) /\ b \o w = Content(m)
  BY DEF WayBody
<1>2. IsSeq(a) /\ IsSeq(v) /\ a \o v = w
  <2>1. n \in 0 .. Len(w)
    BY <1>1, LenIsNat
  <2> QED
    BY <1>1, <2>1, CutOff
<1> HIDE DEF a, v, b
<1>3. IsSeq(s) /\ s \o v = Content(m)
  <2>1. (b \o a) \o v = b \o (a \o v)
    <3>1. Join(Join(b, a), v) = Join(b, Join(a, v))
      BY <1>1, <1>2, Joins
    <3> QED
      BY <3>1, Zenon DEF Join
  <2>2. IsSeq(s)
    BY <1>1, <1>2, Cat
  <2> QED
    BY <1>1, <1>2, <2>1, <2>2
<1> HIDE DEF s
<1>4. PICK y : y = Put(x, "body", s)
  OBVIOUS
<1>5. Shaped(y) /\ y.rc = x.rc /\ y.http.request.body = s /\ Kept(x, y)
  BY <1>1, <1>4, BodyPut
<1>6. WayBody(y, v, r, m, clean)
  BY <1>1, <1>2, <1>3, <1>5, HeadKept DEF WayBody
<1>7. y.rc = 0 /\ Way(BodyPhase(y), y, v, r, m, clean)
  BY <1>6, BodyGoesOn
<1> QED
  BY <1>4, <1>7, Zenon DEF s, a, v, b

-----------------------------------------------------------------------------
(* The inductive invariant.  clean: the context is new. *)
Reads == at[1] = "request" /\ line = "open" /\ IsRequest
Meaning == call["response"].http.request
OnTheWay(phase, x, w) ==
  Sent(Meaning, asked) /\ Way(phase, x, w, Meaning, asked, round = 1)
RInv ==
  /\ HInv /\ Client(call["response"]) /\ round \in Nat
  /\ round = 0 => at = Idle /\ Blank(call["request"].http)
  /\ Reads => cut \/ OnTheWay(at[2], call["request"], wire)

(* A step of the parser of a request, and one that is none. *)
LEMMA ServerReads ==
  ASSUME RInv, Next, at[1] = "request", NEW y, NEW phase, Becomes(y, phase),
         UNCHANGED <<line, asked, round>>,
         Reads /\ ~cut' => /\ y.rc = 0 /\ Sent(Meaning, asked)
                           /\ Way(phase, y, wire', Meaning, asked, round = 1)
  PROVE  RInv'
<1>1. HInv' /\ Client(call["response"])'
  BY HNext, ClientNext DEF RInv
<1>2. round # 0
  BY DEF RInv, Idle
<1>3. /\ call' = [call EXCEPT !["request"] = y]
      /\ at' = <<"request", IF y.rc # 0 THEN "parsed" ELSE phase>>
  BY DEF Becomes, Side
<1>4. call'["request"] = y /\ call'["response"] = call["response"]
  BY <1>3 DEF RInv, HInv
<1>5. y.rc = 0 => at'[2] = phase
  BY <1>3
<1>6. (Reads => cut \/ OnTheWay(at[2], call["request"], wire))'
  <2> SUFFICES ASSUME Reads', ~cut' PROVE OnTheWay(at[2], call["request"], wire)'
    OBVIOUS
  <2>1. Reads
    BY DEF Reads, IsRequest
  <2>2. y.rc = 0 /\ Sent(Meaning, asked) /\ Way(phase, y, wire', Meaning, asked, round = 1)
    BY <2>1
  <2>3. Meaning' = Meaning
    BY <1>4 DEF Meaning
  <2>4. at'[2] = phase
    BY <1>5, <2>2
  <2>5. Sent(Meaning', asked') /\ Way(at'[2], call'["request"], wire', Meaning', asked', round' = 1)
    BY <1>4, <2>2, <2>3, <2>4
  <2> QED
    BY <2>5 DEF OnTheWay
<1> QED
  BY <1>1, <1>2, <1>6 DEF RInv

LEMMA OtherReads ==
  ASSUME RInv, Next, at # Idle, round' = round, ~Reads'
  PROVE  RInv'
<1>1. HInv' /\ Client(call["response"])'
  BY HNext, ClientNext DEF RInv
<1> QED
  BY <1>1 DEF RInv

LEMMA InitReads == Init => RInv
<1> SUFFICES ASSUME Init PROVE RInv
  OBVIOUS
<1>1. HInv
  BY HInit
<1>2. /\ call["response"] = ParserStart("response", InitHttp)
      /\ call["request"] = ParserStart("request", InitHttp) /\ at = Idle /\ round = 0
  BY DEF Init
<1>3. Client(call["response"])
  BY <1>2, ClientStart DEF InitHttp
<1>4. Blank(call["request"].http)
  BY <1>2 DEF ParserStart, InitHttp, InitRequest, Blank
<1>5. ~Reads
  BY <1>2 DEF Reads, Idle
<1> QED
  BY <1>1, <1>2, <1>3, <1>4, <1>5 DEF RInv

LEMMA AskReads ==
  ASSUME \A m \in Requests \cup Malformed : "bytes" \in DOMAIN m \/ Sendable(m), RInv, Ask
  PROVE  RInv'
<1>1. HInv' /\ Client(call["response"])'
  BY HNext, ClientNext DEF RInv, Next
<1>2. round' = round + 1 /\ round' \in Nat /\ round' # 0
  BY DEF Ask, RInv
<1> DEFINE h == call["response"].http
           q == call["request"].http
           packed(m) == RequestPacked(Filled(h, m))
<1>3. PICK m, client :
        /\ m \in Requests \cup Malformed /\ asked' = m
        /\ "bytes" \notin DOMAIN m => client = packed(m) /\ wire' = RequestPack(client) \o Encoded(m)
        /\ call' = [request |-> Begin(q), response |-> ParserStart("response", client)]
  BY DEF Ask
<1>4. /\ call'["request"] = Begin(q) /\ call'["response"] = ParserStart("response", client)
      /\ at'[2] = "head"
  BY <1>3 DEF Ask
<1>5. Meaning' = client.request
  BY <1>4 DEF Meaning, ParserStart
<1>6. "request" \in DOMAIN h /\ ShapedHttp(q) /\ (round = 0 => Blank(q))
  BY ServerShaped DEF RInv, Client, Shaped
<1> HIDE DEF h, q, packed
<1>7. Reads' => OnTheWay(at[2], call["request"], wire)'
  <2> SUFFICES ASSUME Reads' PROVE OnTheWay(at[2], call["request"], wire)'
    OBVIOUS
  <2>1. "bytes" \notin DOMAIN m
    BY <1>3 DEF Reads, IsRequest
  <2>2. Sendable(m) /\ client = packed(m)
    BY <1>3, <2>1
  <2>3. Sent(client.request, m) /\ RequestPack(client) = HeadText(client.request)
    BY <1>6, <2>2, SentIs DEF packed
  <2>4. wire' = HeadText(client.request) \o Encoded(m)
    BY <1>3, <2>1, <2>3
  <2> DEFINE r == client.request
             clean == round' = 1
  <2>5. clean => Blank(q)
    BY <1>2, <1>6 DEF RInv
  <2> HIDE DEF r, clean
  <2>6. WayHead(Begin(q), HeadText(r) \o Encoded(m), r, m, clean)
    BY <1>6, <2>3, <2>5, BeginReads DEF r
  <2>7. WayHead(call'["request"], wire', r, m, clean)
    BY <1>4, <2>4, <2>6 DEF r
  <2>8. Way(at'[2], call'["request"], wire', r, m, clean)
    BY <1>4, <2>7 DEF Way
  <2>9. Sent(Meaning', asked') /\ Way(at'[2], call'["request"], wire', Meaning', asked', round' = 1)
    BY <1>3, <1>5, <2>3, <2>8 DEF r, clean
  <2> QED
    BY <2>9 DEF OnTheWay
<1> QED
  BY <1>1, <1>2, <1>7 DEF RInv

-----------------------------------------------------------------------------
LEMMA RequestRuns ==
  ASSUME RInv, NEW phase, At(phase), phase # "idle"
  PROVE  /\ at # Idle /\ at[2] = phase
         /\ Side # "request" => at[1] = "response"
         /\ Limits(call["request"]) /\ Shaped(call["request"])
         /\ Reads /\ ~cut => OnTheWay(phase, call["request"], wire)
<1>1. at # Idle /\ at[2] = phase
  BY DEF At, Idle
<1>2. Side # "request" => at[1] = "response"
  BY <1>1 DEF RInv, HInv, Side
<1>3. Limits(call["request"]) /\ Shaped(call["request"])
  BY ServerShaped DEF RInv
<1>4. Reads /\ ~cut => OnTheWay(phase, call["request"], wire)
  BY <1>1 DEF RInv
<1> QED
  BY <1>1, <1>2, <1>3, <1>4

LEMMA ResponseReads ==
  ASSUME RInv, Next, at[1] = "response", NEW y, NEW phase, Becomes(y, phase), round' = round
  PROVE  RInv'
<1>1. at # Idle
  BY DEF Idle
<1>2. at'[1] = "response"
  BY DEF Becomes, Side
<1> QED
  BY <1>1, <1>2, OtherReads DEF Reads

LEMMA TakeHeadReads == RInv /\ TakeHead => RInv'
<1> SUFFICES ASSUME RInv, TakeHead PROVE RInv'
  OBVIOUS
<1> DEFINE x == call["request"]
           y == RequestHeadChar(x, Head(wire))
           phase == IF y.done THEN "headed" ELSE "head"
<1>0. At("head") /\ Next /\ UNCHANGED <<line, asked, round, cut>> /\ wire' = Tail(wire)
  BY DEF TakeHead, Next
<1>1. /\ Side # "request" => at[1] = "response"
      /\ Limits(x) /\ Shaped(x) /\ (Reads /\ ~cut => OnTheWay("head", x, wire))
  BY <1>0, RequestRuns
<1>2. CASE Side = "request"
  <2>1. HeadChar(call[Side], Head(wire)) = y
    BY <1>1, <1>2 DEF HeadChar, Shaped
  <2>2. Becomes(y, phase)
    <3>1. Becomes(HeadChar(call[Side], Head(wire)),
                  IF HeadChar(call[Side], Head(wire)).done THEN "headed" ELSE "head")
      BY Zenon DEF TakeHead
    <3> QED
      BY <2>1, <3>1, Zenon
  <2>3. Reads /\ ~cut' => /\ y.rc = 0 /\ Sent(Meaning, asked)
                          /\ Way(phase, y, wire', Meaning, asked, round = 1)
    <3> SUFFICES ASSUME Reads, ~cut
                 PROVE  /\ y.rc = 0 /\ Sent(Meaning, asked)
                        /\ Way(phase, y, wire', Meaning, asked, round = 1)
      BY <1>0
    <3> DEFINE clean == round = 1
               r == Meaning
    <3>1. Sent(r, asked) /\ WayHead(x, wire, r, asked, clean)
      BY <1>1 DEF OnTheWay, Way
    <3>2. x.size \in Nat
      BY <1>1 DEF Limits
    <3> HIDE DEF clean, r, x
    <3>3. /\ y.rc = 0 /\ (y.done => WayHeaded(y, Tail(wire), r, asked, clean))
          /\ (~y.done => WayHead(y, Tail(wire), r, asked, clean))
      BY <3>1, <3>2, HeadGoesOn
    <3> HIDE DEF y
    <3>4. Way(phase, y, Tail(wire), r, asked, clean)
      BY <3>3 DEF Way
    <3> HIDE DEF phase
    <3> QED
      BY <1>0, <3>1, <3>3, <3>4 DEF clean, r
  <2> HIDE DEF y, phase
  <2> QED
    BY <1>0, <1>2, <2>2, <2>3, ServerReads DEF Side
<1>3. CASE Side # "request"
  <2>1. PICK z, p : Becomes(z, p)
    BY Zenon DEF TakeHead
  <2> QED
    BY <1>0, <1>1, <1>3, <2>1, ResponseReads
<1> QED
  BY <1>2, <1>3

LEMMA DecideReads == RInv /\ Decide => RInv'
<1> SUFFICES ASSUME RInv, Decide PROVE RInv'
  OBVIOUS
<1> DEFINE x == call["request"]
<1>0. At("headed") /\ Next /\ UNCHANGED <<line, asked, round, cut>>
  BY DEF Decide, Next
<1>1. /\ Side # "request" => at[1] = "response"
      /\ Reads /\ ~cut => OnTheWay("headed", x, wire)
  BY <1>0, RequestRuns
<1>2. CASE Side = "request"
  <2>1. PICK n \in 0 .. Len(wire) : DecideRequest(EndHead(x, n > 0), SubSeq(wire, 1, n))
    BY <1>2 DEF Decide
  <2>2. CASE Reads /\ ~cut
    <3> DEFINE clean == round = 1
               r == Meaning
    <3>1. Sent(r, asked) /\ WayHeaded(x, wire, r, asked, clean)
      BY <1>1, <2>2 DEF OnTheWay, Way
    <3> HIDE DEF clean, r, x
    <3>2. EndHead(x, n > 0) = x
      BY <3>1, EndHeadSame
    <3>3. DecideRequest(x, SubSeq(wire, 1, n))
      BY <2>1, <3>2
    <3>4. PICK y, phase : /\ Becomes(y, phase) /\ y.rc = 0
                          /\ phase \in {"body", "chunks", "parsed"}
                          /\ Way(phase, y, wire', r, asked, clean)
      BY <3>1, <3>3, DecideGoesOn
    <3>5. /\ y.rc = 0 /\ Sent(Meaning, asked)
          /\ Way(phase, y, wire', Meaning, asked, round = 1)
      BY <3>1, <3>4 DEF clean, r
    <3> QED
      BY <1>0, <1>2, <3>4, <3>5, ServerReads DEF Side
  <2>3. CASE ~(Reads /\ ~cut)
    <3>1. PICK y, phase : Becomes(y, phase)
      <4> DEFINE z == EndHead(x, n > 0)
                 plain == LengthRefused([z EXCEPT !.http.request.body = SubSeq(wire, 1, n)])
                 go == [z EXCEPT !.http.chunked = TRUE]
                 stops == z.rc # 0 \/ ~Carries(z.http.request.command)
                 carries == z.rc = 0 /\ Carries(z.http.request.command)
      <4>1. CASE stops
        BY <2>1, <4>1, Zenon DEF DecideRequest
      <4>2. CASE carries /\ Shakes(z)
        BY <2>1, <4>2, Zenon DEF DecideRequest
      <4>3. CASE carries /\ ~Shakes(z) /\ Chunked(z)
        BY <2>1, <4>3, Zenon DEF DecideRequest
      <4>4. CASE carries /\ ~Shakes(z) /\ ~Chunked(z)
        BY <2>1, <4>4, Zenon DEF DecideRequest
      <4> QED
        BY <4>1, <4>2, <4>3, <4>4
    <3> QED
      BY <1>0, <1>2, <2>3, <3>1, ServerReads DEF Side
  <2> QED
    BY <2>2, <2>3
<1>3. CASE Side # "request"
  <2>1. at[1] = "response"
    BY <1>1, <1>3
  <2>2. PICK n \in 0 .. Len(wire) : DecideResponse(call["response"], SubSeq(wire, 1, n))
    BY <1>3, <2>1 DEF Decide, Side
  <2>3. at'[1] = "response"
    BY <2>1, <2>2 DEF DecideResponse, Becomes, Side
  <2>4. at # Idle
    BY <2>1 DEF Idle
  <2> QED
    BY <1>0, <2>3, <2>4, OtherReads DEF Reads
<1> QED
  BY <1>2, <1>3

LEMMA TakeBodyReads == RInv /\ TakeBody => RInv'
<1> SUFFICES ASSUME RInv, TakeBody PROVE RInv'
  OBVIOUS
<1> DEFINE x == call["request"]
<1>0. At("body") /\ Next /\ UNCHANGED <<line, asked, round, cut>>
  BY DEF TakeBody, Next
<1>1. /\ Side # "request" => at[1] = "response"
      /\ Reads /\ ~cut => OnTheWay("body", x, wire)
  BY <1>0, RequestRuns
<1>2. CASE Side = "request"
  <2> DEFINE y(n) == Put(x, "body", x.http.request.body \o SubSeq(wire, 1, n))
             v(n) == SubSeq(wire, n + 1, Len(wire))
  <2>1. PICK n \in 1 .. Len(wire) : Becomes(y(n), BodyPhase(y(n))) /\ wire' = v(n)
    BY <1>2 DEF TakeBody, Put
  <2>2. Reads /\ ~cut => /\ y(n).rc = 0 /\ Sent(Meaning, asked)
                         /\ Way(BodyPhase(y(n)), y(n), v(n), Meaning, asked, round = 1)
    <3> SUFFICES ASSUME Reads, ~cut
                 PROVE  /\ y(n).rc = 0 /\ Sent(Meaning, asked)
                        /\ Way(BodyPhase(y(n)), y(n), v(n), Meaning, asked, round = 1)
      OBVIOUS
    <3> DEFINE clean == round = 1
               r == Meaning
    <3>1. Sent(r, asked) /\ WayBody(x, wire, r, asked, clean)
      BY <1>1 DEF OnTheWay, Way
    <3> HIDE DEF clean, r, x
    <3>2. y(n).rc = 0 /\ Way(BodyPhase(y(n)), y(n), v(n), r, asked, clean)
      BY <3>1, PieceGoesOn
    <3> HIDE DEF y, v
    <3> QED
      BY <3>1, <3>2 DEF clean, r
  <2> HIDE DEF y, v
  <2>3. PICK z : z = y(n)
    OBVIOUS
  <2>4. /\ Becomes(z, BodyPhase(z))
        /\ Reads /\ ~cut' => /\ z.rc = 0 /\ Sent(Meaning, asked)
                             /\ Way(BodyPhase(z), z, wire', Meaning, asked, round = 1)
    BY <1>0, <2>1, <2>2, <2>3
  <2> QED
    BY <1>0, <1>2, <2>4, ServerReads DEF Side
<1>3. CASE Side # "request"
  <2>1. PICK z, p : Becomes(z, p)
    BY Zenon DEF TakeBody
  <2> QED
    BY <1>0, <1>1, <1>3, <2>1, ResponseReads
<1> QED
  BY <1>2, <1>3

LEMMA TakeChunkReads == RInv /\ TakeChunk => RInv'
<1> SUFFICES ASSUME RInv, TakeChunk PROVE RInv'
  OBVIOUS
<1> DEFINE x == call["request"]
<1>0. At("chunks") /\ Next /\ UNCHANGED <<line, asked, round>> /\ wire' = Tail(wire)
  BY DEF TakeChunk, Next
<1>1. /\ Side # "request" => at[1] = "response"
      /\ Reads /\ ~cut => OnTheWay("chunks", x, wire)
  BY <1>0, RequestRuns
<1>2. CASE Side = "request"
  <2> DEFINE y(last) == ChunkRound(x, Head(wire), last)
             phase(z) == IF z.http.chunk.end THEN "parsed" ELSE "chunks"
  <2>1. PICK last \in BOOLEAN : /\ Becomes(ChunksOver(y(last)), phase(y(last)))
                                /\ cut' = (cut \/ (last /\ y(last).http.chunk.st \in SizeLine))
    BY <1>2 DEF TakeChunk
  <2>2. PICK z : z = y(last)
    OBVIOUS
  <2>3. Becomes(ChunksOver(z), phase(z)) /\ cut' = (cut \/ (last /\ z.http.chunk.st \in SizeLine))
    BY <2>1, <2>2
  <2>4. Reads /\ ~cut' => /\ ChunksOver(z) = z /\ z.rc = 0 /\ Sent(Meaning, asked)
                          /\ Way(phase(z), z, wire', Meaning, asked, round = 1)
    <3> SUFFICES ASSUME Reads, ~cut'
                 PROVE  /\ ChunksOver(z) = z /\ z.rc = 0 /\ Sent(Meaning, asked)
                        /\ Way(phase(z), z, wire', Meaning, asked, round = 1)
      OBVIOUS
    <3> DEFINE clean == round = 1
               r == Meaning
    <3>1. ~cut /\ ~(last /\ z.http.chunk.st \in SizeLine)
      BY <2>3
    <3>2. Sent(r, asked) /\ WayChunks(x, wire, r, asked, clean)
      BY <1>1, <3>1 DEF OnTheWay, Way
    <3> HIDE DEF clean, r, x
    <3>3. /\ z.rc = 0 /\ ChunksOver(z) = z
          /\ z.http.chunk.end => WayParsed(z, r, asked, clean)
          /\ ~z.http.chunk.end => \/ last /\ z.http.chunk.st \in SizeLine
                                  \/ WayChunks(z, Tail(wire), r, asked, clean)
      BY <2>2, <3>2, ChunksGo
    <3>4. Way(phase(z), z, Tail(wire), r, asked, clean)
      BY <3>1, <3>3 DEF Way
    <3> HIDE DEF phase
    <3> QED
      BY <1>0, <3>2, <3>3, <3>4 DEF clean, r
  <2>5. PICK u : u = ChunksOver(z)
    OBVIOUS
  <2>6. PICK p : p = phase(z)
    OBVIOUS
  <2>7. /\ Becomes(u, p)
        /\ Reads /\ ~cut' => /\ u.rc = 0 /\ Sent(Meaning, asked)
                             /\ Way(p, u, wire', Meaning, asked, round = 1)
    <3> HIDE DEF phase, y, x
    <3> QED
      BY <2>3, <2>4, <2>5, <2>6
  <2> QED
    BY <1>0, <1>2, <2>7, ServerReads DEF Side
<1>3. CASE Side # "request"
  <2>1. PICK z, p : Becomes(z, p)
    BY Zenon DEF TakeChunk
  <2> QED
    BY <1>0, <1>1, <1>3, <2>1, ResponseReads
<1> QED
  BY <1>2, <1>3

(* Where the line is not open, there is nothing to show. *)
LEMMA LineLost == RInv /\ (HangUp \/ HeadEnds \/ HeadFails \/ BodyFails \/ Answer) => RInv'
<1> SUFFICES ASSUME RInv, HangUp \/ HeadEnds \/ HeadFails \/ BodyFails \/ Answer PROVE RInv'
  OBVIOUS
<1>1. Next /\ round' = round
  BY DEF Next, HangUp, HeadEnds, HeadFails, BodyFails, Answer
<1>2. at # Idle
  BY DEF HangUp, HeadEnds, HeadFails, BodyFails, Answer, At, Idle
<1>3. line' # "open" \/ at'[1] = "response"
  BY DEF HangUp, HeadEnds, HeadFails, BodyFails, Answer
<1> QED
  BY <1>1, <1>2, <1>3, OtherReads DEF Reads

(* Every request that can be read back is read by eris_http_request_parse as *)
(* eris_http_request_pack meant it, whatever it is made of, however long it  *)
(* is within the limits, wherever it is cut into pieces, and whatever the    *)
(* two contexts served before.                                               *)
THEOREM RequestsAreReadAsMeant ==
  ASSUME \A m \in Requests \cup Malformed : "bytes" \in DOMAIN m \/ Sendable(m)
  PROVE  Spec => []ReadAsMeant
<1>1. Init => RInv
  BY InitReads
<1>2. RInv /\ [Next]_vars => RInv'
  <2> SUFFICES ASSUME RInv, [Next]_vars PROVE RInv'
    OBVIOUS
  <2>1. CASE UNCHANGED vars
    <3>1. HInv' /\ Client(call["response"])'
      BY <2>1 DEF vars, RInv, HInv
    <3>2. /\ Reads' = Reads /\ Meaning' = Meaning
          /\ at' = at /\ call' = call /\ wire' = wire /\ cut' = cut /\ asked' = asked
          /\ round' = round
      BY <2>1 DEF vars, Reads, IsRequest, Meaning
    <3>3. OnTheWay(at[2], call["request"], wire) => OnTheWay(at[2], call["request"], wire)'
      BY <3>2 DEF OnTheWay
    <3> QED
      BY <3>1, <3>2, <3>3 DEF RInv
  <2>2. Ask => RInv'
    BY AskReads
  <2> QED
    BY <2>1, <2>2, LineLost, TakeHeadReads, DecideReads, TakeBodyReads, TakeChunkReads DEF Next
<1>3. RInv => ReadAsMeant
  <2> SUFFICES ASSUME RInv, Received, IsRequest, ~cut PROVE ReadAsMeant
    BY DEF ReadAsMeant
  <2> DEFINE x == call["request"]
             r == Meaning
             clean == round = 1
             got == x.http.request
  <2>1. Sent(r, asked) /\ WayParsed(x, r, asked, clean)
    BY DEF RInv, Reads, Received, OnTheWay, Way
  <2> HIDE DEF clean
  <2>2. /\ x.rc = 0 /\ got.command = r.command /\ got.version = r.version /\ got.url = r.url
        /\ got.query = r.query /\ got.body = Content(asked)
        /\ (clean => got.parameters = r.parameters /\ got.fragment = r.fragment)
    BY <2>1 DEF WayParsed, HeadRead, LineRead, TargetRead, Got
  <2>3. SameHeaders(got.headers, r.headers)
    <3>1. got.headers = Newest(r.headers, Len(r.headers))
      BY <2>1 DEF WayParsed, HeadRead
    <3>2. SameHeaders(Newest(r.headers, Len(r.headers)), r.headers)
      BY <2>1, NewestSame DEF Sent
    <3> QED
      BY <3>1, <3>2
  <2> QED
    BY <2>2, <2>3 DEF ReadAsMeant, Meaning, clean
<1> QED
  BY <1>1, <1>2, <1>3, PTL DEF Spec

-----------------------------------------------------------------------------
(* The answer that is being made while a request is read: none, as long as   *)
(* nothing is refused, but for a request that shakes; or a status.            *)
Says(x, phase) ==
  \/ x.rc = 0 /\ x.http.response = InitResponse
  \/ x.rc = 0 /\ phase = "parsed" /\ x.http.request.shake = TRUE
  \/ x.rc # 0 /\ Noted(InitResponse, x.http.response)
SInv ==
  /\ HInv /\ Client(call["response"])
  /\ at[1] = "request" =>
       /\ Says(call["request"], at[2]) /\ (call["request"].rc # 0 => at[2] = "parsed")
       /\ ShapedHttp(call["response"].http)

LEMMA SaysOn ==
  ASSUME NEW x, x.rc = 0, x.http.response = InitResponse, NEW y, Speaks(x, y), NEW phase
  PROVE  Says(y, phase)
BY DEF Speaks, Silent, Notes, Says

LEMMA ServerDue ==
  ASSUME SInv, Next, at[1] = "request", NEW y, NEW phase, Becomes(y, phase),
         Says(y, phase) \/ (y.rc # 0 /\ Says(y, "parsed"))
  PROVE  SInv'
<1>1. HInv' /\ Client(call["response"])'
  BY HNext, ClientNext DEF SInv
<1>2. /\ call' = [call EXCEPT !["request"] = y]
      /\ at' = <<"request", IF y.rc # 0 THEN "parsed" ELSE phase>>
  BY DEF Becomes, Side
<1>3. call'["request"] = y /\ call'["response"] = call["response"]
  BY <1>2 DEF SInv, HInv
<1>4. at'[2] = IF y.rc # 0 THEN "parsed" ELSE phase
  BY <1>2
<1>5. ShapedHttp(call["response"].http)
  BY DEF SInv
<1>6. Says(y, at'[2]) /\ (y.rc # 0 => at'[2] = "parsed")
  <2>1. CASE y.rc # 0
    BY <1>4, <2>1 DEF Says
  <2>2. CASE y.rc = 0
    BY <1>4, <2>2
  <2> QED
    BY <2>1, <2>2
<1> QED
  BY <1>1, <1>3, <1>5, <1>6 DEF SInv

LEMMA OtherDue ==
  ASSUME SInv, Next, at'[1] # "request"
  PROVE  SInv'
<1>1. HInv' /\ Client(call["response"])'
  BY HNext, ClientNext DEF SInv
<1> QED
  BY <1>1 DEF SInv

(* Where a parser runs. *)
LEMMA ServerRuns ==
  ASSUME SInv, NEW phase, At(phase), phase \notin {"idle", "parsed"}
  PROVE  /\ Side # "request" => at[1] = "response"
         /\ Side = "request" => /\ Shaped(call["request"]) /\ call["request"].rc = 0
                                /\ call["request"].http.response = InitResponse
<1>1. at # Idle /\ at[2] = phase
  BY DEF At, Idle
<1>2. Side # "request" => at[1] = "response"
  BY <1>1 DEF SInv, HInv, Side
<1>3. Shaped(call["request"])
  BY ServerShaped DEF SInv
<1>4. CASE Side = "request"
  BY <1>1, <1>3, <1>4 DEF SInv, Says, Side
<1> QED
  BY <1>2, <1>4

LEMMA ClientStays ==
  ASSUME SInv, Next, Side # "request", NEW y, NEW phase, Becomes(y, phase)
  PROVE  SInv'
<1>1. at'[1] # "request"
  BY DEF Becomes
<1> QED
  BY <1>1, OtherDue

LEMMA InitDue == Init => SInv
<1> SUFFICES ASSUME Init PROVE SInv
  OBVIOUS
<1>1. HInv
  BY HInit
<1>2. call["response"] = ParserStart("response", InitHttp) /\ at = Idle
  BY DEF Init
<1>3. Client(call["response"])
  BY <1>2, ClientStart DEF InitHttp
<1> QED
  BY <1>1, <1>2, <1>3 DEF SInv, Idle

LEMMA AskDue == SInv /\ Ask => SInv'
<1> SUFFICES ASSUME SInv, Ask PROVE SInv'
  OBVIOUS
<1>1. HInv' /\ Client(call["response"])'
  BY HNext, ClientNext DEF SInv, Next
<1> DEFINE h == call["response"].http
<1>2. PICK client, m : /\ call' = [request |-> Begin(call["request"].http),
                                   response |-> ParserStart("response", client)]
                       /\ client \in {CleanupHttp(h), RequestPacked(Filled(h, m))}
  BY DEF Ask
<1>3. "request" \in DOMAIN h
  BY DEF SInv, Client
<1> HIDE DEF h
<1>4. ShapedHttp(client)
  BY <1>2, <1>3, CleanParts, PackedParts
<1>5. ShapedHttp(call'["response"].http)
  BY <1>2, <1>4 DEF ParserStart
<1>6. call'["request"].rc = 0 /\ call'["request"].http.response = InitResponse
  <2>1. Begin(call["request"].http).rc = 0
    BY DEF Begin, ParserStart
  <2>2. Begin(call["request"].http).http.response = InitResponse
    BY DEF Begin, ParserStart, CleanupRequest, CleanupHttp, InitHttp
  <2> QED
    BY <1>2, <2>1, <2>2
<1> QED
  BY <1>1, <1>5, <1>6 DEF SInv, Says

LEMMA HeadDue == SInv /\ (TakeHead \/ HeadEnds \/ HeadFails) => SInv'
<1> SUFFICES ASSUME SInv, TakeHead \/ HeadEnds \/ HeadFails PROVE SInv'
  OBVIOUS
<1> DEFINE x == call["request"]
<1>0. At("head") /\ Next
  BY DEF TakeHead, HeadEnds, HeadFails, Next
<1>1. /\ Side # "request" => at[1] = "response"
      /\ Side = "request" => Shaped(x) /\ x.rc = 0 /\ x.http.response = InitResponse
  BY <1>0, ServerRuns
<1>2. PICK phase, y :
        /\ Becomes(y, phase)
        /\ Side = "request" =>
             y \in {RequestHeadChar(x, Head(wire)), x, Refuse(x, EERIS_ERROR, 408, 10)}
  <2>1. CASE TakeHead
    <3>1. PICK phase : Becomes(HeadChar(call[Side], Head(wire)), phase)
      BY <2>1, Zenon DEF TakeHead
    <3>2. Side = "request" => HeadChar(call[Side], Head(wire)) = RequestHeadChar(x, Head(wire))
      BY <1>1 DEF HeadChar, Shaped
    <3> QED
      BY <3>1, <3>2
  <2>2. CASE HeadEnds
    BY <2>2 DEF HeadEnds
  <2>3. CASE HeadFails
    <3> DEFINE y == IF Side = "request" THEN Refuse(call[Side], EERIS_ERROR, 408, 10)
                    ELSE [call[Side] EXCEPT !.rc = EERIS_ERROR]
    <3>1. Becomes(y, "parsed")
      BY <2>3, Zenon DEF HeadFails
    <3>2. Side = "request" => y = Refuse(x, EERIS_ERROR, 408, 10)
      OBVIOUS
    <3> HIDE DEF y
    <3> QED
      BY <3>1, <3>2
  <2> QED
    BY <2>1, <2>2, <2>3
<1>3. CASE Side = "request"
  <2>1. /\ Speaks(x, RequestHeadChar(x, Head(wire))) /\ Speaks(x, x)
        /\ Speaks(x, Refuse(x, EERIS_ERROR, 408, 10))
    BY <1>1, <1>3, HeadSpeaks, SilentSelf, RefuseNotes, DueStatuses, Errors DEF Speaks
  <2> HIDE DEF x
  <2>2. Speaks(x, y)
    BY <1>2, <1>3, <2>1
  <2>3. Says(y, phase)
    BY <1>1, <1>3, <2>2, SaysOn
  <2> QED
    BY <1>0, <1>2, <1>3, <2>3, ServerDue DEF Side
<1>4. CASE Side # "request"
  BY <1>0, <1>2, <1>4, ClientStays
<1> QED
  BY <1>3, <1>4

LEMMA DecideDue == SInv /\ Decide => SInv'
<1> SUFFICES ASSUME SInv, Decide PROVE SInv'
  OBVIOUS
<1>0. At("headed") /\ Next
  BY DEF Decide, Next
<1>1. CASE Side = "request"
  <2>1. PICK n \in 0 .. Len(wire) : DecideRequest(EndHead(call[Side], n > 0), SubSeq(wire, 1, n))
    BY <1>1 DEF Decide
  <2> DEFINE z == call["request"]
             x == EndHead(z, n > 0)
             full == [x EXCEPT !.http.request.body = SubSeq(wire, 1, n)]
             plain == LengthRefused(full)
             go == [x EXCEPT !.http.chunked = TRUE]
             stops == x.rc # 0 \/ ~Carries(x.http.request.command)
             carries == x.rc = 0 /\ Carries(x.http.request.command)
  <2>2. \/ Becomes(x, "parsed") \/ (carries /\ Becomes(Shaken(x), "parsed"))
        \/ (carries /\ Becomes(go, "chunks")) \/ (carries /\ Becomes(plain, BodyPhase(plain)))
    <3>1. CASE stops
      BY <1>1, <2>1, <3>1, Zenon DEF DecideRequest
    <3>2. CASE carries /\ Shakes(x)
      BY <1>1, <2>1, <3>2, Zenon DEF DecideRequest
    <3>3. CASE carries /\ ~Shakes(x) /\ Chunked(x)
      BY <1>1, <2>1, <3>3, Zenon DEF DecideRequest
    <3>4. CASE carries /\ ~Shakes(x) /\ ~Chunked(x)
      BY <1>1, <2>1, <3>4, Zenon DEF DecideRequest
    <3> QED
      BY <3>1, <3>2, <3>3, <3>4
  <2>3. Shaped(z) /\ z.rc = 0 /\ z.http.response = InitResponse
    BY <1>0, <1>1, ServerRuns
  <2> HIDE DEF z
  <2>4. Speaks(z, x) /\ Shaped(x)
    BY <2>3, LengthSpeaks DEF Speaks, Silent, Notes
  <2> HIDE DEF x
  <2>5. x.rc = 0 => x.http.response = InitResponse
    BY <2>3, <2>4 DEF Speaks, Silent, Notes
  <2>6. ASSUME NEW y, Speaks(x, y), NEW p, x.rc = 0 PROVE Says(y, p)
    BY <2>5, <2>6, SaysOn
  <2>7. Says(x, "parsed")
    BY <2>3, <2>4, SaysOn
  <2>8. x.rc = 0 => Says(Shaken(x), "parsed")
    <3> SUFFICES ASSUME x.rc = 0 PROVE Says(Shaken(x), "parsed")
      OBVIOUS
    <3>1. PICK y : y = Shaken(x)
      OBVIOUS
    <3>2. Notes(x, y) \/ (y.rc = 0 /\ y.http.request.shake = TRUE)
      BY <2>4, <3>1, ShakenSpeaks
    <3>3. CASE Notes(x, y)
      BY <2>6, <3>1, <3>3 DEF Speaks
    <3>4. CASE y.rc = 0 /\ y.http.request.shake = TRUE
      BY <3>1, <3>4 DEF Says
    <3> QED
      BY <3>2, <3>3, <3>4
  <2>9. Speaks(x, go)
    BY <2>4, ChunkedSilent DEF Speaks
  <2>10. Speaks(x, plain)
    <3>1. full = Put(x, "body", SubSeq(wire, 1, n))
      BY DEF Put
    <3>2. Silent(x, full) /\ Shaped(full)
      BY <2>4, <3>1, SilentPut, SilentThen DEF RequestFields
    <3> HIDE DEF full
    <3> QED
      BY <3>2, LengthSpeaks, SilentThen
  <2> HIDE DEF plain, go
  <2>11. PICK y, phase : Becomes(y, phase) /\ Says(y, phase)
    BY <2>2, <2>6, <2>7, <2>8, <2>9, <2>10
  <2> QED
    BY <1>0, <1>1, <2>11, ServerDue DEF Side
<1>2. CASE Side # "request"
  <2>1. PICK n \in 0 .. Len(wire) : DecideResponse(call[Side], SubSeq(wire, 1, n))
    BY <1>2 DEF Decide
  <2> DEFINE x == call[Side]
             full == [x EXCEPT !.http.response.body = SubSeq(wire, 1, n)]
             measured == /\ HasHeader(x.http.request.headers, <<"Content-Length">>)
                         /\ Length(x.http.request.headers) > 0
  <2>3. \/ Becomes([x EXCEPT !.http.chunked = TRUE], "chunks")
        \/ Becomes(full, BodyPhase(full)) \/ Becomes(x, "parsed")
    <3>1. CASE Chunked(x)
      BY <2>1, <3>1, Zenon DEF DecideResponse
    <3>2. CASE ~Chunked(x) /\ measured
      BY <2>1, <3>2, Zenon DEF DecideResponse
    <3>3. CASE ~Chunked(x) /\ ~measured
      BY <2>1, <3>3, Zenon DEF DecideResponse
    <3> QED
      BY <3>1, <3>2, <3>3
  <2>4. PICK y, phase : Becomes(y, phase)
    BY <2>3
  <2> QED
    BY <1>0, <1>2, <2>4, ClientStays
<1> QED
  BY <1>1, <1>2

LEMMA BodyDue == SInv /\ (TakeBody \/ BodyFails) => SInv'
<1> SUFFICES ASSUME SInv, TakeBody \/ BodyFails PROVE SInv'
  OBVIOUS
<1> DEFINE x == call["request"]
           b(n) == x.http.request.body \o SubSeq(wire, 1, n)
<1>0. At("body") /\ Next
  BY DEF TakeBody, BodyFails, Next
<1>1. CASE Side = "request"
  <2>1. Shaped(x) /\ x.rc = 0 /\ x.http.response = InitResponse
    BY <1>0, <1>1, ServerRuns
  <2>2. PICK y, phase : /\ Becomes(y, phase)
                        /\ (\E n : y = Put(x, "body", b(n))) \/ y = Refuse(x, EERIS_4XX, 408, 10)
    <3>1. CASE TakeBody
      BY <1>1, <3>1 DEF TakeBody, Put
    <3>2. CASE BodyFails
      BY <1>1, <3>2 DEF BodyFails
    <3> QED
      BY <3>1, <3>2
  <2>3. \A n : Speaks(x, Put(x, "body", b(n)))
    BY <2>1, SilentPut DEF Speaks, RequestFields
  <2>4. Speaks(x, Refuse(x, EERIS_4XX, 408, 10))
    BY <2>1, RefuseNotes, DueStatuses, Errors DEF Speaks
  <2>5. Speaks(x, y)
    <3> HIDE DEF b, x
    <3> QED
      BY <2>2, <2>3, <2>4
  <2>6. Says(y, phase)
    BY <2>1, <2>5, SaysOn
  <2> QED
    BY <1>0, <1>1, <2>2, <2>6, ServerDue DEF Side
<1>2. CASE Side # "request"
  <2>1. PICK y, phase : Becomes(y, phase)
    <3>1. TakeBody => \E y, phase : Becomes(y, phase)
      BY Zenon DEF TakeBody
    <3>2. BodyFails => \E y, phase : Becomes(y, phase)
      BY Zenon DEF BodyFails
    <3> QED
      BY <3>1, <3>2
  <2> QED
    BY <1>0, <1>2, <2>1, ClientStays
<1> QED
  BY <1>1, <1>2

LEMMA ChunkDue == SInv /\ TakeChunk => SInv'
<1> SUFFICES ASSUME SInv, TakeChunk PROVE SInv'
  OBVIOUS
<1> DEFINE x == call["request"]
<1>0. At("chunks") /\ Next
  BY DEF TakeChunk, Next
<1>1. CASE Side = "request"
  <2>1. Shaped(x) /\ x.rc = 0 /\ x.http.response = InitResponse
    BY <1>0, <1>1, ServerRuns
  <2>2. PICK last, phase : Becomes(ChunksOver(ChunkRound(x, Head(wire), last)), phase)
    BY <1>1 DEF TakeChunk
  <2>3. Speaks(x, ChunksOver(ChunkRound(x, Head(wire), last)))
    BY <2>1, RoundSpeaks
  <2>4. PICK y : Becomes(y, phase) /\ Says(y, phase)
    BY <2>1, <2>2, <2>3, SaysOn
  <2> QED
    BY <1>0, <1>1, <2>4, ServerDue DEF Side
<1>2. CASE Side # "request"
  <2>1. PICK y, phase : Becomes(y, phase)
    BY DEF TakeChunk
  <2> QED
    BY <1>0, <1>2, <2>1, ClientStays
<1> QED
  BY <1>1, <1>2

(* What the answer of a server is made from. *)
LEMMA SNext == SInv /\ [Next]_vars => SInv'
<1> SUFFICES ASSUME SInv, [Next]_vars PROVE SInv'
  OBVIOUS
<1>1. CASE HangUp
  <2>1. HInv' /\ Client(call["response"])'
    BY <1>1, HNext, ClientNext DEF SInv, Next
  <2> QED
    BY <1>1, <2>1 DEF SInv, HangUp
<1>2. CASE Answer
  <2>1. at'[1] # "request" /\ Next
    BY <1>2 DEF Answer, Next
  <2> QED
    BY <2>1, OtherDue
<1>3. CASE UNCHANGED vars
  <2>1. HInv'
    BY HNext DEF SInv
  <2> QED
    BY <1>3, <2>1 DEF SInv, vars
<1> QED
  BY <1>1, <1>2, <1>3, AskDue, HeadDue, DecideDue, BodyDue, ChunkDue DEF Next

-----------------------------------------------------------------------------
(* The length that is written into a header has no carriage return.        *)
LEMMA DecimalFree ==
  ASSUME NEW d \in 0 .. 9
  PROVE  Char(48 + d) # "\r"
<1>1. 17 + d \in 1 .. 95 /\ 31 + (17 + d) = 48 + d
  OBVIOUS
<1>2. CodeOf[Char(48 + d)] = 48 + d
  BY <1>1, CodeAt
<1> QED
  BY <1>2, Codes

LEMMA DigitSteps ==
  ASSUME NEW v \in Nat
  PROVE  \E from : /\ Digits(v, 10, DecimalChar) = from[v]
                   /\ \A n \in 0 .. v : from[n] = <<Char(48 + (n % 10))>> \o
                                                    (IF n < 10 THEN <<>> ELSE from[n \div 10])
<1> DEFINE From(g, n) == <<DecimalChar(1 * (n % 10))>> \o (IF n < 10 THEN <<>> ELSE g[n \div 10])
           Reached == {n \in Nat : \E g : g = [i \in 0 .. n |-> From(g, i)]}
<1>1. 0 \in Reached
  <2> DEFINE g == [i \in 0 .. 0 |-> <<DecimalChar(1 * (i % 10))>> \o <<>>]
  <2>1. g = [i \in 0 .. 0 |-> From(g, i)]
    OBVIOUS
  <2> QED
    BY <2>1
<1>2. ASSUME NEW n \in Nat, n \in Reached PROVE n + 1 \in Reached
  <2>1. PICK g : g = [i \in 0 .. n |-> From(g, i)]
    BY <1>2
  <2> DEFINE h == [i \in 0 .. n + 1 |-> IF i <= n THEN g[i] ELSE From(g, i)]
  <2>2. ASSUME NEW i \in 0 .. n + 1 PROVE h[i] = From(h, i)
    <3> DEFINE j == i \div 10
    <3>1. ~(i < 10) => j \in 0 .. n + 1 /\ j <= n
      OBVIOUS
    <3> HIDE DEF j
    <3>2. ~(i < 10) => h[j] = g[j]
      BY <3>1
    <3>3. From(h, i) = From(g, i)
      <4> HIDE DEF h
      <4>1. CASE i < 10
        BY <4>1
      <4>2. CASE ~(i < 10)
        BY <3>2, <4>2 DEF j
      <4> QED
        BY <4>1, <4>2
    <3>4. i <= n => g[i] = From(g, i)
      <4>1. i <= n => i \in 0 .. n
        OBVIOUS
      <4> HIDE DEF From
      <4> QED
        BY <2>1, <4>1
    <3>5. h[i] = IF i <= n THEN g[i] ELSE From(g, i)
      OBVIOUS
    <3> HIDE DEF From, h
    <3> QED
      BY <3>3, <3>4, <3>5
  <2>3. h = [i \in 0 .. n + 1 |-> h[i]]
    OBVIOUS
  <2> HIDE DEF h, From
  <2>4. h = [i \in 0 .. n + 1 |-> From(h, i)]
    BY <2>2, <2>3
  <2> QED
    BY <2>4
<1> HIDE DEF Reached
<1>3. v \in Reached
  BY <1>1, <1>2, Induction
<1>4. PICK g : g = [i \in 0 .. v |-> From(g, i)]
  BY <1>3 DEF Reached
<1>5. PICK from : from = [n \in 0 .. v |-> From(from, n)] /\ Digits(v, 10, DecimalChar) = from[v]
  <2>1. 1 * v = v /\ ~(v < 0)
    OBVIOUS
  <2> QED
    BY <1>4, <2>1, Zenon DEF Digits
<1>6. ASSUME NEW n \in 0 .. v
      PROVE  from[n] = <<Char(48 + (n % 10))>> \o (IF n < 10 THEN <<>> ELSE from[n \div 10])
  <2>1. from[n] = From(from, n)
    <3> HIDE DEF From
    <3> QED
      BY <1>5
  <2>2. 1 * (n % 10) = n % 10
    OBVIOUS
  <2> QED
    BY <2>1, <2>2 DEF DecimalChar
<1> QED
  BY <1>5, <1>6

LEMMA DigitsFree ==
  ASSUME NEW v \in Nat
  PROVE  FreeOf(Digits(v, 10, DecimalChar), {"\r"})
<1>1. PICK from : /\ Digits(v, 10, DecimalChar) = from[v]
                  /\ \A n \in 0 .. v : from[n] = <<Char(48 + (n % 10))>> \o
                                                   (IF n < 10 THEN <<>> ELSE from[n \div 10])
  BY DigitSteps
<1> DEFINE Free0 == {n \in Nat : \A m \in 0 .. n : m <= v => FreeOf(from[m], {"\r"})}
<1>2. ASSUME NEW n \in 0 .. v, ~(n < 10) => FreeOf(from[n \div 10], {"\r"})
      PROVE  FreeOf(from[n], {"\r"})
  <2> DEFINE t == IF n < 10 THEN <<>> ELSE from[n \div 10]
             c == Char(48 + (n % 10))
  <2>1. FreeOf(t, {"\r"})
    <3>1. FreeOf(<<>>, {"\r"})
      BY EmptyIsSeq DEF FreeOf
    <3> QED
      BY <1>2, <3>1
  <2>2. n % 10 \in 0 .. 9
    OBVIOUS
  <2>3. c # "\r"
    BY <2>2, DecimalFree
  <2>4. from[n] = <<c>> \o t
    BY <1>1
  <2> HIDE DEF t, c
  <2>5. /\ IsSeq(<<c>> \o t) /\ Len(<<c>> \o t) = 1 + Len(t) /\ Len(t) \in Nat
        /\ \A i \in 1 .. 1 + Len(t) : (<<c>> \o t)[i] = IF i <= 1 THEN <<c>>[i] ELSE t[i - 1]
    BY <2>1, One, Cat DEF FreeOf
  <2>6. ASSUME NEW i \in 1 .. 1 + Len(t) PROVE (<<c>> \o t)[i] \notin {"\r"}
    <3>1. CASE i <= 1
      <4>1. i = 1
        BY <3>1, <2>5
      <4>2. <<c>>[1] = c
        BY One
      <4> QED
        BY <2>3, <2>5, <4>1, <4>2
    <3>2. CASE ~(i <= 1)
      <4>1. i - 1 \in 1 .. Len(t)
        BY <3>2, <2>5
      <4> QED
        BY <2>1, <2>5, <3>2, <4>1 DEF FreeOf
    <3> QED
      BY <3>1, <3>2
  <2> QED
    BY <2>4, <2>5, <2>6 DEF FreeOf
<1>3. 0 \in Free0
  <2>1. FreeOf(from[0], {"\r"})
    BY <1>2
  <2> QED
    BY <2>1
<1>4. ASSUME NEW n \in Nat, n \in Free0 PROVE n + 1 \in Free0
  <2> SUFFICES ASSUME n + 1 <= v PROVE FreeOf(from[n + 1], {"\r"})
    <3>1. \A m \in 0 .. n + 1 : m \in 0 .. n \/ m = n + 1
      OBVIOUS
    <3> QED
      BY <1>4, <3>1
  <2> DEFINE d == (n + 1) \div 10
  <2>1. ~(n + 1 < 10) => d \in 0 .. n /\ d <= v
    OBVIOUS
  <2>2. ~(n + 1 < 10) => FreeOf(from[d], {"\r"})
    <3> HIDE DEF d
    <3> QED
      BY <1>4, <2>1
  <2>3. n + 1 \in 0 .. v
    OBVIOUS
  <2> QED
    BY <1>2, <2>2, <2>3
<1> HIDE DEF Free0
<1>5. v \in Free0
  BY <1>3, <1>4, Induction
<1> QED
  BY <1>1, <1>5 DEF Free0

LEMMA CutFree ==
  ASSUME NEW b, NEW n \in Nat, NEW marks, \A i \in 1 .. n : b[i] \notin marks
  PROVE  FreeOf(SubSeq(b, 1, n), marks)
         /\ Len(SubSeq(b, 1, n)) = n /\ \A i \in 1 .. n : SubSeq(b, 1, n)[i] = b[i]
<1> DEFINE s == SubSeq(b, 1, n)
           f == [i \in 1 .. n |-> b[i]]
<1>1. s = f
  <2>1. s = [i \in 1 .. (1 + n) - 1 |-> b[(i + 1) - 1]]
    OBVIOUS
  <2>2. (1 + n) - 1 = n /\ \A i \in 1 .. n : (i + 1) - 1 = i
    OBVIOUS
  <2> QED
    BY <2>1, <2>2
<1>2. f \in Seq({b[i] : i \in 1 .. n}) /\ Len(f) = n
  OBVIOUS
<1>3. \A i \in 1 .. n : f[i] = b[i]
  OBVIOUS
<1> HIDE DEF f, s
<1> QED
  BY <1>1, <1>2, <1>3 DEF FreeOf, IsSeq, s

LEMMA AppendsText ==
  ASSUME NEW s, IsSeq(s)
  PROVE  \E es : /\ StrAppend(StrAlloc(32), s) = es /\ es.size \in 0 .. Len(s)
                 /\ {"size", "bytes"} \subseteq DOMAIN es
                 /\ \A i \in 1 .. es.size : es.bytes[i] = s[i]
<1>1. Len(s) \in Nat
  BY LenIsNat
<1>2. PICK k \in Nat : Grown(StrAlloc(32), Len(s)) = StrAlloc(k)
  <2> DEFINE t == StrAlloc(32)
             n == Len(s)
  <2>1. t # NoString /\ t.size = 0 /\ t.alloc = 33
    BY DEF StrAlloc, NoString
  <2>2. Grown(t, n) \in {t, StrRealloc(t, t.size + n + 1)}
    <3> HIDE DEF t
    <3>1. CASE n > StrCapacity(t)
      BY <2>1, <3>1, Zenon DEF Grown
    <3>2. CASE ~(n > StrCapacity(t))
      BY <2>1, <3>2, Zenon DEF Grown
    <3> QED
      BY <3>1, <3>2
  <2>3. StrRealloc(t, t.size + n + 1) \in {t, StrCopyEris(StrAlloc(t.size + n + 1), t)}
    BY DEF StrRealloc
  <2>4. StrCopyEris(StrAlloc(t.size + n + 1), t) = StrAlloc(t.size + n + 1)
    BY <2>1 DEF StrCopyEris, StrCopyN
  <2>5. t.size + n + 1 \in Nat
    BY <1>1, <2>1
  <2> QED
    BY <2>2, <2>3, <2>4, <2>5
<1> DEFINE a == StrAlloc(k)
           t == Append(s, NUL)
           b == s \o <<NUL>>
           m == Len(a.bytes)
           bytes == [i \in 1 .. Greatest(m, 0 + Len(b)) |->
                       IF i > 0 /\ i <= 0 + Len(b) THEN b[i - 0] ELSE Byte(a, i - 1)]
           size == IF a.alloc < Limit8 THEN Len(s) % (Limit8 + 1) ELSE Len(s)
           es == [[a EXCEPT !.bytes = bytes] EXCEPT !.size = size]
<1>3. a.size = 0 /\ {"alloc", "size", "bytes"} \subseteq DOMAIN a /\ m \in Nat
  BY DEF StrAlloc, Zeros
<1>4. Len(b) = Len(s) + 1 /\ \A i \in 1 .. Len(s) : b[i] = s[i]
  BY One, Cat
<1>5. StrAppend(StrAlloc(32), s) = es
  <2>1. StrAppend(StrAlloc(32), s) = WithSize(Write(a, a.size, b), a.size + Len(s))
    BY <1>2, Zenon DEF StrAppend
  <2>2. Write(a, 0, b) = [a EXCEPT !.bytes = bytes]
    BY DEF Write
  <2>3. 0 + Len(s) = Len(s)
    BY <1>1
  <2>4. WithSize(Write(a, 0, b), Len(s)) = [[a EXCEPT !.bytes = bytes] EXCEPT !.size = size]
    <3> DEFINE z == Write(a, 0, b)
    <3>1. z.alloc = a.alloc
      <4> HIDE DEF bytes, a
      <4> QED
        BY <1>3, <2>2
    <3>2. WithSize(z, Len(s)) = [z EXCEPT !.size = IF z.alloc < Limit8 THEN Len(s) % (Limit8 + 1) ELSE Len(s)]
      BY DEF WithSize
    <3> HIDE DEF z
    <3>3. WithSize(z, Len(s)) = [z EXCEPT !.size = size]
      BY <3>1, <3>2
    <3> QED
      BY <2>2, <3>3 DEF z
  <2> HIDE DEF es, bytes, size, b
  <2> QED
    BY <1>3, <2>1, <2>3, <2>4 DEF es
<1>6. size \in 0 .. Len(s)
  BY <1>1, EStringAssumption
<1>7. ASSUME NEW i \in 1 .. size PROVE bytes[i] = s[i]
  <2> HIDE DEF size
  <2>1. i \in 1 .. Len(s) /\ i \in Int
    BY <1>1, <1>6
  <2> HIDE DEF a, m, b
  <2>2. i \in 1 .. Greatest(m, 0 + Len(b)) /\ i > 0 /\ i <= 0 + Len(b) /\ i - 0 = i
    BY <1>1, <1>3, <1>4, <2>1 DEF Greatest
  <2>3. bytes[i] = b[i]
    BY <2>2
  <2> QED
    BY <1>4, <2>1, <2>3
<1>8. es.size = size /\ es.bytes = bytes /\ {"size", "bytes"} \subseteq DOMAIN es
  <2> HIDE DEF size, bytes, a
  <2> QED
    BY <1>3
<1> HIDE DEF es, size, bytes
<1> QED
  BY <1>5, <1>6, <1>7, <1>8

LEMMA PrintedFree ==
  ASSUME NEW back, FreeOf(back, {"\r"})
  PROVE  FreeOf(StrText(Printed(NoString, back)), {"\r"})
<1>1. PICK es : /\ StrAppend(StrAlloc(32), back) = es /\ es.size \in 0 .. Len(back)
                /\ {"size", "bytes"} \subseteq DOMAIN es
                /\ \A i \in 1 .. es.size : es.bytes[i] = back[i]
  BY AppendsText DEF FreeOf
<1>2. Len(back) \in Nat
  BY LenIsNat DEF FreeOf
<1> DEFINE n == es.size
           t == StrText(es)
           r == Reverse(t)
           w == Write(es, 0, r)
<1>3. n \in Nat /\ \A i \in 1 .. n : es.bytes[i] # "\r"
  BY <1>1, <1>2 DEF FreeOf
<1>4. Len(t) = n /\ \A i \in 1 .. n : t[i] # "\r"
  <2>1. \A i \in 1 .. n : es.bytes[i] \notin {"\r"}
    BY <1>3
  <2>2. Len(SubSeq(es.bytes, 1, n)) = n /\ \A i \in 1 .. n : SubSeq(es.bytes, 1, n)[i] = es.bytes[i]
    BY <1>3, <2>1, CutFree
  <2> QED
    BY <1>3, <2>2 DEF StrText
<1>5. Len(r) = n /\ \A i \in 1 .. n : r[i] # "\r"
  <2> HIDE DEF t, n
  <2>1. r = [i \in 1 .. n |-> t[(n - i) + 1]]
    BY <1>4 DEF Reverse
  <2>2. Len(r) = n
    BY <1>3, <2>1
  <2>3. ASSUME NEW i \in 1 .. n PROVE r[i] # "\r"
    <3>1. (n - i) + 1 \in 1 .. n
      BY <1>3
    <3>2. r[i] = t[(n - i) + 1]
      BY <2>1
    <3> QED
      BY <1>4, <3>1, <3>2
  <2> QED
    BY <2>2, <2>3
<1>6. Printed(NoString, back) = w
  BY <1>1 DEF Printed, StrReverse
<1>7. w.size = n /\ \A i \in 1 .. n : w.bytes[i] = r[i]
  <2> HIDE DEF t, r
  <2> DEFINE m == Greatest(Len(es.bytes), 0 + Len(r))
             bytes == [i \in 1 .. m |-> IF i > 0 /\ i <= 0 + Len(r) THEN r[i - 0] ELSE Byte(es, i - 1)]
  <2>1. w = [es EXCEPT !.bytes = bytes]
    BY DEF Write
  <2> HIDE DEF bytes, w
  <2>2. w.size = n /\ w.bytes = bytes
    BY <1>1, <2>1
  <2>3. ASSUME NEW i \in 1 .. n PROVE bytes[i] = r[i]
    <3>1. i > 0 /\ i <= 0 + Len(r) /\ i - 0 = i /\ i \in Int
      BY <1>3, <1>5
    <3>2. i \in 1 .. m
      <4>1. m = Len(es.bytes) \/ m = 0 + Len(r)
        BY DEF Greatest
      <4>2. m = Len(es.bytes) => Len(es.bytes) >= 0 + Len(r)
        BY <1>3, <1>5 DEF Greatest
      <4> QED
        BY <1>3, <1>5, <3>1, <4>1, <4>2 DEF Greatest
    <3> QED
      BY <3>1, <3>2 DEF bytes
  <2> QED
    BY <2>2, <2>3
<1> HIDE DEF w, r, t
<1>8. \A i \in 1 .. n : w.bytes[i] \notin {"\r"}
  BY <1>5, <1>7
<1> QED
  BY <1>3, <1>6, <1>7, <1>8, CutFree DEF StrText

LEMMA SizeFree ==
  ASSUME NEW v \in Nat
  PROVE  FreeOf(StrText(StrULToA(NoString, v)), {"\r"})
BY DigitsFree, PrintedFree DEF StrULToA

-----------------------------------------------------------------------------
(* The names of headers that are words are symbols of their own. *)
LEMMA Long ==
  ASSUME NEW c \in {"Transfer-Encoding", "Content-Type", "Connection", "Content-Length"}
  PROVE  c \notin DOMAIN CodeOf
<1> DEFINE P(i) == Printable[i] # c
<1>1. DOMAIN Printable = 1 .. 95
  BY DEF Printable
<1>2. c \notin {NUL, "\t", "\n", "\r"}
  BY DEF NUL
<1>3. P(1) /\ P(2) /\ P(3) /\ P(4) /\ P(5) /\
      P(6) /\ P(7) /\ P(8) /\ P(9) /\ P(10)
  BY DEF Printable
<1>4. P(11) /\ P(12) /\ P(13) /\ P(14) /\ P(15) /\
      P(16) /\ P(17) /\ P(18) /\ P(19) /\ P(20)
  BY DEF Printable
<1>5. P(21) /\ P(22) /\ P(23) /\ P(24) /\ P(25) /\
      P(26) /\ P(27) /\ P(28) /\ P(29) /\ P(30)
  BY DEF Printable
<1>6. P(31) /\ P(32) /\ P(33) /\ P(34) /\ P(35) /\
      P(36) /\ P(37) /\ P(38) /\ P(39) /\ P(40)
  BY DEF Printable
<1>7. P(41) /\ P(42) /\ P(43) /\ P(44) /\ P(45) /\
      P(46) /\ P(47) /\ P(48) /\ P(49) /\ P(50)
  BY DEF Printable
<1>8. P(51) /\ P(52) /\ P(53) /\ P(54) /\ P(55) /\
      P(56) /\ P(57) /\ P(58) /\ P(59) /\ P(60)
  BY DEF Printable
<1>9. P(61) /\ P(62) /\ P(63) /\ P(64) /\ P(65) /\
      P(66) /\ P(67) /\ P(68) /\ P(69) /\ P(70)
  BY DEF Printable
<1>10. P(71) /\ P(72) /\ P(73) /\ P(74) /\ P(75) /\
       P(76) /\ P(77) /\ P(78) /\ P(79) /\ P(80)
  BY DEF Printable
<1>11. P(81) /\ P(82) /\ P(83) /\ P(84) /\ P(85) /\
       P(86) /\ P(87) /\ P(88) /\ P(89) /\ P(90)
  BY DEF Printable
<1>12. P(91) /\ P(92) /\ P(93) /\ P(94) /\ P(95)
  BY DEF Printable
<1>13. ASSUME NEW i \in 1 .. 95 PROVE P(i)
  <2> HIDE DEF P
  <2> QED
    BY <1>3, <1>4, <1>5, <1>6, <1>7, <1>8, <1>9, <1>10, <1>11, <1>12
<1> QED
  BY <1>1, <1>2, <1>13 DEF CodeOf

(* A header that is set leaves those of other names as they are. *)
LEMMA Apart ==
  ASSUME NEW a, NEW b, a # b, a \notin DOMAIN CodeOf, b \notin DOMAIN CodeOf
  PROVE  ~Same(<<a>>, <<b>>)
<1>1. \A c : c \notin DOMAIN CodeOf => Folded(<<c>>) = [i \in 1 .. 1 |-> c]
  <2> TAKE c
  <2> HAVE c \notin DOMAIN CodeOf
  <2>1. DOMAIN <<c>> = 1 .. 1 /\ \A i \in 1 .. 1 : <<c>>[i] = c
    OBVIOUS
  <2>2. \A i \in 1 .. 1 : (IF <<c>>[i] \in DOMAIN CodeOf THEN ToLower(<<c>>[i]) ELSE <<c>>[i]) = c
    BY <2>1
  <2> DEFINE F(i) == IF <<c>>[i] \in DOMAIN CodeOf THEN ToLower(<<c>>[i]) ELSE <<c>>[i]
  <2>3. Folded(<<c>>) = [i \in 1 .. 1 |-> F(i)]
    BY <2>1 DEF Folded
  <2> QED
    BY <2>2, <2>3
<1>2. Folded(<<a>>) = [i \in 1 .. 1 |-> a] /\ Folded(<<b>>) = [i \in 1 .. 1 |-> b]
  BY <1>1, Zenon
<1>3. [i \in 1 .. 1 |-> a] # [i \in 1 .. 1 |-> b]
  <2>1. [i \in 1 .. 1 |-> a][1] = a /\ [i \in 1 .. 1 |-> b][1] = b
    OBVIOUS
  <2> QED
    BY <2>1
<1> QED
  BY <1>2, <1>3, Zenon DEF Same

LEMMA OtherHeader ==
  ASSUME NEW hs, WellSet(hs), NEW n, NEW v, HeaderReadable(Header(n, v)),
         NEW k, ~Same(n, k), NEW w, HeaderIs(SetHeader(hs, n, v), k, w)
  PROVE  HeaderIs(hs, k, w)
<1> DEFINE t == SetHeader(hs, n, v)
<1>1. WellSet(t) /\ IsSeq(t) /\ IsSeq(hs)
  BY SetHeaderKeeps DEF WellSet
<1>2. HasHeader(t, k) /\ Same(HeaderValue(t, k), w)
  BY DEF HeaderIs
<1>3. DOMAIN hs = 1 .. Len(hs) /\ Len(hs) \in Nat
  BY <1>1, LenIsNat DEF IsSeq
<1>4. PICK i \in 1 .. Len(t) : Same(t[i].name, k)
  <2> HIDE DEF t
  <2> QED
    BY <1>1, <1>2, NoHolder
<1>5. HeaderValue(t, k) = t[i].value
  <2>1. \A j \in 1 .. Len(t) : Same(t[j].name, k) => j = i
    BY <1>1, <1>4 DEF WellSet, Same
  <2> HIDE DEF t
  <2> QED
    BY <1>1, <1>4, <2>1, HolderOf
<1>6. \E j \in 1 .. Len(hs) : hs[j] = t[i]
  <2>1. CASE HasHeader(hs, n)
    <3>1. PICK g \in 1 .. Len(hs) : Same(hs[g].name, n)
      BY <1>1, <2>1, NoHolder
    <3>2. FirstHolder(hs, n) = g
      <4>1. \A j \in 1 .. Len(hs) : Same(hs[j].name, n) => j = g
        BY <3>1 DEF WellSet, Same
      <4> QED
        BY <1>1, <3>1, <4>1, HolderOf
    <3> DEFINE h == [hs[g] EXCEPT !.value = v]
    <3>3. t = [hs EXCEPT ![g] = h]
      BY <2>1, <3>2, Zenon DEF SetHeader
    <3>4. h.name = hs[g].name
      <4>1. hs[g] = [name |-> hs[g].name, value |-> hs[g].value]
        BY <3>1 DEF WellSet, HeaderReadable
      <4> QED
        BY <4>1
    <3> HIDE DEF h, t
    <3>5. DOMAIN t = 1 .. Len(hs) /\ \A j \in 1 .. Len(hs) : t[j] = IF j = g THEN h ELSE hs[j]
      BY <1>3, <3>3
    <3>6. Len(t) = Len(hs)
      BY <1>1, <1>3, <3>5, LenIsNat DEF IsSeq
    <3>7. i # g
      BY <1>4, <3>1, <3>4, <3>5, <3>6 DEF Same
    <3> QED
      BY <1>4, <3>5, <3>6, <3>7
  <2>2. CASE ~HasHeader(hs, n)
    <3> DEFINE h == Header(n, v)
               o == <<h>>
    <3>1. t = o \o hs
      BY <2>2, Zenon DEF SetHeader, PushHeader, Header
    <3>2. IsSeq(o) /\ Len(o) = 1 /\ o[1] = h
      BY One
    <3>3. h.name = n
      BY DEF Header
    <3> HIDE DEF h, o, t
    <3> DEFINE q == o \o hs
    <3>4. Len(q) = Len(o) + Len(hs)
          /\ \A j \in 1 .. Len(o) + Len(hs) : q[j] = IF j <= Len(o) THEN o[j] ELSE hs[j - Len(o)]
      BY <1>1, <3>2, Cat
    <3> HIDE DEF q
    <3>5. Len(t) = 1 + Len(hs) /\ t[1] = h /\ \A j \in 2 .. 1 + Len(hs) : t[j] = hs[j - 1]
      BY <1>3, <3>1, <3>2, <3>4 DEF q
    <3>6. i # 1
      BY <1>4, <3>3, <3>5
    <3>7. i - 1 \in 1 .. Len(hs) /\ t[i] = hs[i - 1]
      BY <1>3, <1>4, <3>5, <3>6
    <3> QED
      BY <3>7
  <2> QED
    BY <2>1, <2>2
<1>7. PICK j \in 1 .. Len(hs) : hs[j] = t[i]
  BY <1>6
<1> HIDE DEF t
<1>8. Same(hs[j].name, k)
  BY <1>4, <1>7
<1>9. \A g \in 1 .. Len(hs) : Same(hs[g].name, k) => g = j
  BY <1>8 DEF WellSet, Same
<1>10. HasHeader(hs, k) /\ HeaderValue(hs, k) = t[i].value
  BY <1>1, <1>7, <1>8, <1>9, HolderOf
<1> QED
  BY <1>2, <1>5, <1>10 DEF HeaderIs

-----------------------------------------------------------------------------
(* The answer: one field of the response after the other. *)
ResponseFields == {"version", "status", "reason", "headers", "body"}
ShapedReply(q) == q = [f \in ResponseFields |-> q[f]]
ResponsePut(h, f, v) == [h EXCEPT !.response[f] = v]

LEMMA ResponseField ==
  ASSUME NEW h, ShapedHttp(h), ShapedReply(h.response), NEW f \in ResponseFields, NEW v,
         NEW g, g = ResponsePut(h, f, v)
  PROVE  /\ ShapedHttp(g) /\ ShapedReply(g.response) /\ g.response[f] = v
         /\ g.request = h.request /\ g.chunk = h.chunk /\ g.chunked = h.chunked
         /\ \A e \in ResponseFields \ {f} : g.response[e] = h.response[e]
<1> DEFINE q == [h.response EXCEPT ![f] = v]
<1>1. ShapedReply(q) /\ q[f] = v /\ \A e \in ResponseFields \ {f} : q[e] = h.response[e]
  BY DEF ShapedReply
<1>2. g = [h EXCEPT !.response = q]
  BY DEF ResponsePut
<1> HIDE DEF q
<1>3. /\ g = [e \in HttpFields |-> g[e]] /\ g.response = q /\ g.request = h.request
      /\ g.chunk = h.chunk /\ g.chunked = h.chunked
  BY <1>2 DEF ShapedHttp, HttpFields
<1>4. ShapedHttp(g)
  BY <1>3 DEF ShapedHttp
<1> QED
  BY <1>1, <1>3, <1>4

(* What the reply needs to be read back: its parts do not hold what ends them. *)
Sample(hs) ==
  [shake |-> FALSE, command |-> 1, url |-> <<"/">>, version |-> 11, headers |-> hs,
   parameters |-> <<>>, query |-> <<>>, fragment |-> <<>>, body |-> <<>>]
GoodReply(q, m) ==
  /\ q.status \in Statuses /\ q.reason \in {<<>>, ReasonPhrase(q.status)}
  /\ HeadersReadable(q.headers) /\ WellSet(q.headers) /\ IsSeq(q.body)
  /\ ByChunks(q.headers) => ChunksReadable(m) /\ q.body = ChunkLines(m)

(* What the worker sets of its own has names that are words. *)
LEMMA OwnHeader ==
  ASSUME OwnWords \subseteq Words, NEW c \in OwnWords, NEW v, FreeOf(v, {"\r"})
  PROVE  HeaderReadable(Header(<<c>>, v)) /\ ~Same(<<c>>, <<"Transfer-Encoding">>)
<1>1. HeaderReadable(Header(<<c>>, v))
  <2>1. IsSeq(<<c>>) /\ Len(<<c>>) = 1 /\ <<c>>[1] = c
    BY One
  <2>2. IsNameChar(c)
    BY DEF IsNameChar
  <2> DEFINE n == Header(<<c>>, v)
  <2>3. n = [name |-> n.name, value |-> n.value] /\ n.name = <<c>> /\ n.value = v
    BY DEF Header
  <2>4. \A i \in 1 .. Len(<<c>>) : IsNameChar(<<c>>[i])
    BY <2>1, <2>2
  <2>5. Len(<<c>>) # 0
    BY <2>1
  <2> HIDE DEF n
  <2> QED
    BY <2>1, <2>3, <2>4, <2>5, Zenon DEF n, HeaderReadable
<1>2. c \notin DOMAIN CodeOf /\ "Transfer-Encoding" \notin DOMAIN CodeOf
  BY Long DEF OwnWords
<1>3. c # "Transfer-Encoding"
  BY DEF OwnWords
<1> QED
  BY <1>1, <1>2, <1>3, Apart

(* A header of its own does not make a body one of chunks. *)
LEMMA OwnHeaderSet ==
  ASSUME OwnWords \subseteq Words, NEW c \in OwnWords, NEW v, FreeOf(v, {"\r"}),
         NEW hs, WellSet(hs)
  PROVE  LET t == SetHeader(hs, <<c>>, v)
         IN WellSet(t) /\ HeadersReadable(t) /\ (ByChunks(t) => ByChunks(hs))
<1> DEFINE t == SetHeader(hs, <<c>>, v)
<1>1. HeaderReadable(Header(<<c>>, v)) /\ ~Same(<<c>>, <<"Transfer-Encoding">>)
  BY OwnHeader
<1>2. WellSet(t) /\ Len(t) # 0
  BY <1>1, SetHeaderKeeps
<1>3. ByChunks(t) => ByChunks(hs)
  BY <1>1, OtherHeader DEF ByChunks
<1> QED
  BY <1>2, <1>3 DEF WellSet, HeadersReadable

LEMMA BodySet ==
  ASSUME NEW h, ShapedHttp(h), ShapedReply(h.response), h.response.body = <<>>, NEW s,
         NEW g, g = ResponseSetBody(h, s)
  PROVE  /\ ShapedHttp(g) /\ ShapedReply(g.response) /\ g.response.body = s
         /\ g.request = h.request
         /\ \A e \in ResponseFields \ {"body"} : g.response[e] = h.response[e]
<1>1. CASE s = <<>>
  <2>1. g = h
    BY <1>1 DEF ResponseSetBody
  <2> QED
    BY <1>1, <2>1
<1>2. CASE s # <<>>
  <2>1. g = ResponsePut(h, "body", s) /\ "body" \in ResponseFields
    BY <1>2 DEF ResponseSetBody, ResponsePut, ResponseFields
  <2> QED
    BY <2>1, ResponseField
<1> QED
  BY <1>1, <1>2

LEMMA InitShaped ==
  /\ ShapedReply(InitResponse) /\ InitResponse.body = <<>> /\ InitResponse.headers = <<>>
  /\ InitResponse.reason = <<>>
  /\ \A q : Noted(InitResponse, q) =>
       /\ ShapedReply(q) /\ q.body = <<>> /\ q.headers = <<>> /\ q.status \in Statuses
       /\ q.reason = ReasonPhrase(q.status)
<1>1. ShapedReply(InitResponse) /\ InitResponse.body = <<>> /\ InitResponse.headers = <<>>
      /\ InitResponse.reason = <<>>
  BY DEF ShapedReply, InitResponse, ResponseFields
<1>2. ASSUME NEW q, Noted(InitResponse, q)
      PROVE  /\ ShapedReply(q) /\ q.body = <<>> /\ q.headers = <<>> /\ q.status \in Statuses
             /\ q.reason = ReasonPhrase(q.status)
  <2>1. PICK s \in Statuses :
          \E v : q = [InitResponse EXCEPT !.status = s, !.version = v, !.reason = ReasonPhrase(s)]
    BY <1>2 DEF Noted
  <2>2. PICK v : q = [InitResponse EXCEPT !.status = s, !.version = v, !.reason = ReasonPhrase(s)]
    BY <2>1
  <2> DEFINE p == ReasonPhrase(s)
  <2>3. q = [InitResponse EXCEPT !.status = s, !.version = v, !.reason = p]
    BY <2>2
  <2> HIDE DEF p
  <2>4. /\ q = [f \in ResponseFields |-> q[f]] /\ q.status = s /\ q.reason = p
        /\ q.body = InitResponse.body /\ q.headers = InitResponse.headers
    BY <1>1, <2>3 DEF ShapedReply, ResponseFields
  <2> QED
    BY <1>1, <2>1, <2>4 DEF p, ShapedReply
<1> QED
  BY <1>1, <1>2

(* What the worker makes, before it sets the version, the length and that it closes. *)
Own(h, r) == IF call["request"].rc = 0 THEN Served(h, r) ELSE WithPage(h)
OwnGood(g, h, r) ==
  LET q == g.response
  IN /\ ShapedHttp(g) /\ ShapedReply(q) /\ g.request = h.request
     /\ q.status \in Statuses /\ q.reason \in {<<>>, ReasonPhrase(q.status)}
     /\ WellSet(q.headers) /\ IsSeq(q.body)
     /\ ByChunks(q.headers) => ChunksReadable(r) /\ q.body = ChunkLines(r)

LEMMA EncodedReads ==
  ASSUME NEW r, Answerable(r)
  PROVE  /\ IsSeq(Encoded(r)) /\ WellSet(SetHeaders(<<>>, r.headers))
         /\ ByChunks(SetHeaders(<<>>, r.headers)) => ChunksReadable(r) /\ Encoded(r) = ChunkLines(r)
<1>1. IsSeq(r.chunks) /\ \A i \in 1 .. Len(r.chunks) : IsSeq(r.chunks[i])
  <2>1. r.chunks \in Seq(Free({})) /\ \A s \in Free({}) : IsSeq(s)
    BY FreeIs DEF Answerable, FreeOf
  <2> HIDE DEF Free
  <2>2. IsSeq(r.chunks) /\ \A i \in 1 .. Len(r.chunks) : r.chunks[i] \in Free({})
    BY <2>1 DEF IsSeq
  <2> QED
    BY <2>1, <2>2
<1>2. IsSeq(Content(r))
  BY <1>1, FlattenIsSeq DEF Content, Pieces
<1>3. r.chunked => ChunksReadable(r) /\ IsSeq(ChunkLines(r))
  <2> SUFFICES ASSUME r.chunked PROVE ChunksReadable(r) /\ IsSeq(ChunkLines(r))
    OBVIOUS
  <2>1. ChunksReadable(r)
    BY <1>1, ChunksAre DEF Answerable
  <2>2. Len(r.chunks) \in Nat /\ BehindChunks(r, 0) = ChunkLines(r)
    BY <2>1, ChunksLeft
  <2>3. IsSeq(BehindChunks(r, 0))
    BY <2>1, <2>2, ChunksLeft
  <2> QED
    BY <2>1, <2>2, <2>3
<1>4. WellSet(SetHeaders(<<>>, r.headers))
  <2>1. r.headers \in Fields(Names \ {<<>>}, Free({"\r"}))
    BY DEF Answerable
  <2>2. IsSeq(r.headers) /\ \A i \in 1 .. Len(r.headers) :
          r.headers[i] = [name |-> r.headers[i].name, value |-> r.headers[i].value] /\
          r.headers[i].name \in Names \ {<<>>} /\ r.headers[i].value \in Free({"\r"})
    BY <2>1, FieldsAre
  <2>3. ASSUME NEW i \in 1 .. Len(r.headers) PROVE HeaderReadable(r.headers[i])
    <3>1. IsName(r.headers[i].name) /\ r.headers[i].name # <<>> /\ FreeOf(r.headers[i].value, {"\r"})
      BY <2>2, NamesAre, FreeIs
    <3>2. Len(r.headers[i].name) # 0
      BY <3>1, NotNone DEF IsName
    <3> QED
      BY <2>2, <3>1, <3>2 DEF HeaderReadable, IsName
  <2> QED
    BY <2>2, <2>3, HeadersSet
<1>5. ByChunks(SetHeaders(<<>>, r.headers)) => r.chunked
  BY DEF Answerable, ByChunks
<1> QED
  BY <1>2, <1>3, <1>4, <1>5 DEF Encoded

LEMMA ServedGood ==
  ASSUME NEW h, ShapedHttp(h), h.response = InitResponse, NEW r, Answerable(r),
         call["request"].rc = 0
  PROVE  OwnGood(Own(h, r), h, r)
<1> DEFINE e == Encoded(r)
           a == ResponsePut(h, "status", r.status)
           b == ResponseSetBody(a, e)
           l == SetHeaders(b.response.headers, r.headers)
           g == ResponsePut(b, "headers", l)
<1>1. Own(h, r) = g
  <2>1. SetStatus(h, r.status) = a
    BY DEF SetStatus, ResponsePut
  <2>2. Own(h, r) = Served(h, r)
    BY DEF Own
  <2>3. Served(h, r) = [b EXCEPT !.response.headers = l]
    BY <2>1, Zenon DEF Served
  <2> HIDE DEF b, l
  <2> QED
    BY <2>2, <2>3 DEF ResponsePut
<1>2. /\ ShapedHttp(a) /\ ShapedReply(a.response) /\ a.response.status = r.status
      /\ a.request = h.request /\ a.response.reason = <<>> /\ a.response.headers = <<>>
      /\ a.response.body = <<>>
  <2>1. ShapedReply(h.response) /\ "status" \in ResponseFields
    BY InitShaped DEF ResponseFields
  <2> DEFINE v == r.status
  <2>2. a = ResponsePut(h, "status", v)
    OBVIOUS
  <2> HIDE DEF v, a
  <2>3. /\ ShapedHttp(a) /\ ShapedReply(a.response) /\ a.response.status = v
        /\ a.request = h.request
        /\ \A f \in ResponseFields \ {"status"} : a.response[f] = h.response[f]
    BY <2>1, <2>2, ResponseField
  <2> QED
    BY <2>3, InitShaped DEF v, ResponseFields
<1> HIDE DEF a, e
<1>3. /\ ShapedHttp(b) /\ ShapedReply(b.response) /\ b.response.status = r.status
      /\ b.request = h.request /\ b.response.reason = <<>> /\ b.response.headers = <<>>
      /\ b.response.body = e
  <2> HIDE DEF b
  <2>1. b = ResponseSetBody(a, e)
    BY DEF b
  <2>2. /\ ShapedHttp(b) /\ ShapedReply(b.response) /\ b.response.body = e
        /\ b.request = a.request
        /\ \A f \in ResponseFields \ {"body"} : b.response[f] = a.response[f]
    BY <1>2, <2>1, BodySet
  <2> QED
    BY <1>2, <2>2 DEF ResponseFields
<1>4. l = SetHeaders(<<>>, r.headers)
  <2> HIDE DEF b
  <2> QED
    BY <1>3, Zenon
<1> HIDE DEF b, l
<1>5. /\ ShapedHttp(g) /\ ShapedReply(g.response) /\ g.response.status = r.status
      /\ g.request = h.request /\ g.response.reason = <<>> /\ g.response.headers = l
      /\ g.response.body = e
  <2> HIDE DEF g
  <2>1. g = ResponsePut(b, "headers", l) /\ "headers" \in ResponseFields
    BY DEF g, ResponseFields
  <2>2. /\ ShapedHttp(g) /\ ShapedReply(g.response) /\ g.response.headers = l
        /\ g.request = b.request
        /\ \A f \in ResponseFields \ {"headers"} : g.response[f] = b.response[f]
    BY <1>3, <2>1, ResponseField
  <2> QED
    BY <1>3, <2>2 DEF ResponseFields
<1> HIDE DEF g
<1>6. /\ IsSeq(e) /\ WellSet(l) /\ r.status \in Statuses
      /\ ByChunks(l) => ChunksReadable(r) /\ e = ChunkLines(r)
  BY <1>4, EncodedReads DEF e, Answerable
<1> HIDE DEF Statuses, ReasonPhrase
<1> QED
  BY <1>1, <1>5, <1>6 DEF OwnGood

LEMMA NoHeaders == WellSet(<<>>) /\ ~ByChunks(<<>>)
<1> DEFINE hs == <<>>
<1>1. IsSeq(hs) /\ Len(hs) = 0
  BY EmptyIsSeq
<1> HIDE DEF hs
<1>2. WellSet(hs)
  BY <1>1 DEF WellSet
<1>3. \A i \in 1 .. Len(hs) : FALSE
  BY <1>1
<1>4. ~HasHeader(hs, <<"Transfer-Encoding">>)
  BY <1>1, <1>3, NoHolder
<1>5. ~ByChunks(hs)
  BY <1>4 DEF ByChunks, HeaderIs
<1> QED
  BY <1>2, <1>5 DEF hs

(* A header of the worker's own, set in the context. *)
LEMMA OwnPut ==
  ASSUME OwnWords \subseteq Words, NEW c \in OwnWords, NEW v, FreeOf(v, {"\r"}),
         NEW h, ShapedHttp(h), ShapedReply(h.response), WellSet(h.response.headers),
         NEW g, g = ResponseSetHeader(h, <<c>>, v)
  PROVE  /\ ShapedHttp(g) /\ ShapedReply(g.response) /\ g.request = h.request
         /\ WellSet(g.response.headers) /\ HeadersReadable(g.response.headers)
         /\ ByChunks(g.response.headers) => ByChunks(h.response.headers)
         /\ \A e \in ResponseFields \ {"headers"} : g.response[e] = h.response[e]
<1> DEFINE l == SetHeader(h.response.headers, <<c>>, v)
<1>1. g = ResponsePut(h, "headers", l) /\ "headers" \in ResponseFields
  BY DEF ResponseSetHeader, ResponsePut, ResponseFields
<1>2. WellSet(l) /\ HeadersReadable(l) /\ (ByChunks(l) => ByChunks(h.response.headers))
  BY OwnHeaderSet
<1> HIDE DEF l
<1>3. /\ ShapedHttp(g) /\ ShapedReply(g.response) /\ g.response.headers = l
      /\ g.request = h.request
      /\ \A e \in ResponseFields \ {"headers"} : g.response[e] = h.response[e]
  <2>1. ShapedHttp(h) /\ ShapedReply(h.response)
    OBVIOUS
  <2> QED
    BY ONLY <1>1, <2>1, ResponseField
<1> QED
  BY <1>2, <1>3

LEMMA ShortFree ==
  ASSUME NEW c, c # "\r"
  PROVE  FreeOf(<<c>>, {"\r"})
<1>1. IsSeq(<<c>>) /\ Len(<<c>>) = 1 /\ <<c>>[1] = c
  BY One
<1> DEFINE s == <<c>>
<1>2. \A i \in 1 .. Len(s) : s[i] \notin {"\r"}
  BY <1>1
<1> HIDE DEF s
<1> QED
  BY <1>1, <1>2 DEF FreeOf, s

LEMMA PageGood ==
  ASSUME OwnWords \subseteq Words, NEW h, ShapedHttp(h), Noted(InitResponse, h.response), NEW r,
         call["request"].rc # 0
  PROVE  OwnGood(Own(h, r), h, r)
<1> DEFINE b == ResponseSetBody(h, <<"page">>)
           g == ResponseSetHeader(b, <<"Content-Type">>, <<"text">>)
<1>1. /\ ShapedReply(h.response) /\ h.response.body = <<>> /\ h.response.headers = <<>>
      /\ h.response.status \in Statuses /\ h.response.reason = ReasonPhrase(h.response.status)
  BY InitShaped
<1>2. Own(h, r) = g
  <2>1. Own(h, r) = WithPage(h)
    BY DEF Own
  <2> QED
    BY <1>1, <2>1, Zenon DEF WithPage
<1>3. /\ ShapedHttp(b) /\ ShapedReply(b.response) /\ b.response.body = <<"page">>
      /\ b.request = h.request
      /\ \A e \in ResponseFields \ {"body"} : b.response[e] = h.response[e]
  <2> DEFINE s == <<"page">>
  <2> HIDE DEF s, b
  <2>1. b = ResponseSetBody(h, s)
    BY DEF b, s
  <2> QED
    BY <1>1, <2>1, BodySet DEF s
<1>4. WellSet(b.response.headers) /\ ~ByChunks(b.response.headers)
  BY <1>1, <1>3, NoHeaders DEF ResponseFields
<1> HIDE DEF b
<1>5. /\ ShapedHttp(g) /\ ShapedReply(g.response) /\ g.request = b.request
      /\ WellSet(g.response.headers) /\ ~ByChunks(g.response.headers)
      /\ \A e \in ResponseFields \ {"headers"} : g.response[e] = b.response[e]
  <2> HIDE DEF g
  <2>1. "Content-Type" \in OwnWords /\ FreeOf(<<"text">>, {"\r"})
    BY ShortFree DEF OwnWords
  <2>2. g = ResponseSetHeader(b, <<"Content-Type">>, <<"text">>)
    BY DEF g
  <2> QED
    BY <1>3, <1>4, <2>1, <2>2, OwnPut
<1> HIDE DEF g
<1>6. /\ g.response.status = h.response.status /\ g.response.reason = h.response.reason
      /\ g.response.body = <<"page">>
  BY <1>3, <1>5 DEF ResponseFields
<1>7. IsSeq(<<"page">>)
  BY OneIsSeq
<1>8. g.request = h.request /\ IsSeq(g.response.body)
  BY <1>3, <1>5, <1>6, <1>7
<1> HIDE DEF Statuses, ReasonPhrase
<1> QED
  BY <1>1, <1>2, <1>5, <1>6, <1>8 DEF OwnGood

LEMMA AnswerGood ==
  ASSUME OwnWords \subseteq Words, NEW h, NEW r, OwnGood(Own(h, r), h, r)
  PROVE  LET g == Answered(h, r)
         IN ShapedHttp(g) /\ GoodReply(g.response, r) /\ g.request = h.request
<1> DEFINE a == Own(h, r)
           v == h.request.version
           b == ResponseSetVersion(a, v)
           d == ResponseSetHeader(b, <<"Connection">>, <<"close">>)
           s == StrText(StrULToA(NoString, Len(a.response.body)))
           g == ResponseSetHeader(d, <<"Content-Length">>, s)
<1>1. Answered(h, r) = g
  BY Zenon DEF Answered, Own
<1>2. /\ ShapedHttp(a) /\ ShapedReply(a.response) /\ a.response.status \in Statuses
      /\ a.response.reason \in {<<>>, ReasonPhrase(a.response.status)}
      /\ WellSet(a.response.headers) /\ IsSeq(a.response.body)
      /\ ByChunks(a.response.headers) => ChunksReadable(r) /\ a.response.body = ChunkLines(r)
      /\ a.request = h.request
  BY DEF OwnGood
<1>3. FreeOf(s, {"\r"})
  BY <1>2, LenIsNat, SizeFree
<1> HIDE DEF s, a, v
<1>4. /\ ShapedHttp(b) /\ ShapedReply(b.response) /\ b.request = a.request
      /\ \A e \in ResponseFields \ {"version"} : b.response[e] = a.response[e]
  <2>1. b = ResponsePut(a, "version", v) /\ "version" \in ResponseFields
    BY DEF ResponseSetVersion, ResponsePut, ResponseFields
  <2> HIDE DEF b
  <2> QED
    BY <1>2, <2>1, ResponseField
<1>5. WellSet(b.response.headers)
  BY <1>2, <1>4 DEF ResponseFields
<1> HIDE DEF b
<1>6. /\ ShapedHttp(d) /\ ShapedReply(d.response) /\ WellSet(d.response.headers)
      /\ d.request = b.request
      /\ ByChunks(d.response.headers) => ByChunks(b.response.headers)
      /\ \A e \in ResponseFields \ {"headers"} : d.response[e] = b.response[e]
  <2> HIDE DEF d
  <2>1. "Connection" \in OwnWords /\ FreeOf(<<"close">>, {"\r"})
    BY ShortFree DEF OwnWords
  <2>2. d = ResponseSetHeader(b, <<"Connection">>, <<"close">>)
    BY DEF d
  <2> QED
    BY <1>4, <1>5, <2>1, <2>2, OwnPut
<1> HIDE DEF d
<1>7. /\ ShapedHttp(g) /\ WellSet(g.response.headers) /\ HeadersReadable(g.response.headers)
      /\ g.request = d.request
      /\ ByChunks(g.response.headers) => ByChunks(d.response.headers)
      /\ \A e \in ResponseFields \ {"headers"} : g.response[e] = d.response[e]
  <2> HIDE DEF g
  <2>1. "Content-Length" \in OwnWords
    BY DEF OwnWords
  <2>2. g = ResponseSetHeader(d, <<"Content-Length">>, s)
    BY DEF g
  <2> QED
    BY <1>3, <1>6, <2>1, <2>2, OwnPut
<1> HIDE DEF g
<1>8. /\ g.response.status = a.response.status /\ g.response.reason = a.response.reason
      /\ g.response.body = a.response.body
  BY <1>4, <1>6, <1>7 DEF ResponseFields
<1>9. ByChunks(g.response.headers) => ByChunks(a.response.headers)
  BY <1>4, <1>6, <1>7 DEF ResponseFields
<1>10. g.request = h.request
  BY <1>2, <1>4, <1>6, <1>7
<1> HIDE DEF Statuses, ReasonPhrase
<1> QED
  BY <1>1, <1>2, <1>7, <1>8, <1>9, <1>10 DEF GoodReply

-----------------------------------------------------------------------------
(* The bytes of a reply. *)
KnownVersion(v) == IF v \in {9, 11} THEN v ELSE 10
BehindStatus(q) == <<SP>> \o (ReasonPhrase(q.status) \o LineEnd(Sample(q.headers), 0))
BehindVersion(q) == <<SP>> \o (StatusText(q.status) \o BehindStatus(q))
ReplyHead(q) == VersionText(KnownVersion(q.version)) \o BehindVersion(q)

LEMMA Known ==
  ASSUME NEW v
  PROVE  KnownVersion(v) \in Versions /\ Dotted(KnownVersion(v)) = Dotted(v)
         /\ VersionText(KnownVersion(v)) = VersionText(v)
<1>1. KnownVersion(v) \in Versions
  BY DEF KnownVersion, Versions
<1>2. Dotted(KnownVersion(v)) = Dotted(v)
  <2>1. CASE v = 9
    BY <2>1 DEF KnownVersion, Dotted
  <2>2. CASE v = 11
    BY <2>2 DEF KnownVersion, Dotted
  <2>3. CASE v \notin {9, 11}
    <3>1. KnownVersion(v) = 10
      BY <2>3 DEF KnownVersion
    <3>2. v # 9 /\ v # 11 /\ 10 # 9 /\ 10 # 11
      BY <2>3
    <3>3. Dotted(v) = <<"1", ".", "0">> /\ Dotted(10) = <<"1", ".", "0">>
      BY <3>2, Zenon DEF Dotted
    <3> QED
      BY <3>1, <3>3
  <2> QED
    BY <2>1, <2>2, <2>3
<1> QED
  BY <1>1, <1>2, Zenon DEF VersionText

LEMMA StatusParts ==
  ASSUME NEW s \in Statuses
  PROVE  LET t == StatusText(s)
         IN /\ IsSeq(t) /\ Len(t) = 3 /\ s \in 100 .. 511
            /\ t[1] = Char(48 + (s \div 100)) /\ t[2] = Char(48 + ((s \div 10) % 10))
            /\ t[3] = Char(48 + (s % 10))
<1>1. s \in 100 .. 511
  BY DEF Statuses
<1> DEFINE a == Char(48 + (s \div 100))
           b == Char(48 + ((s \div 10) % 10))
           c == Char(48 + (s % 10))
           t == <<a, b, c>>
<1>2. StatusText(s) = t
  BY DEF StatusText
<1> HIDE DEF a, b, c
<1>3. t \in Seq({a, b, c}) /\ Len(t) = 3 /\ t[1] = a /\ t[2] = b /\ t[3] = c
  OBVIOUS
<1> HIDE DEF t
<1>4. IsSeq(t)
  BY <1>3 DEF IsSeq
<1> QED
  BY <1>1, <1>2, <1>3, <1>4 DEF a, b, c

LEMMA PhraseSeq ==
  ASSUME NEW s \in Statuses
  PROVE  IsSeq(ReasonPhrase(s)) /\ ReasonPhrase(s) # <<>>
<1>1. IsSeq(StatusText(s))
  BY StatusParts
<1> HIDE DEF StatusText
<1> QED
  BY <1>1, Mark DEF ReasonPhrase

LEMMA ReplySeqs ==
  ASSUME NEW q, NEW m, GoodReply(q, m)
  PROVE  /\ IsSeq(BehindLines(Sample(q.headers), 0)) /\ IsSeq(LineEnd(Sample(q.headers), 0))
         /\ IsSeq(<<"\n">> \o BehindLines(Sample(q.headers), 0))
         /\ IsSeq(ReasonPhrase(q.status) \o LineEnd(Sample(q.headers), 0))
         /\ IsSeq(BehindStatus(q)) /\ IsSeq(StatusText(q.status) \o BehindStatus(q))
         /\ IsSeq(BehindVersion(q)) /\ IsSeq(ReplyHead(q)) /\ ReplyHead(q) # <<>>
<1> DEFINE r == Sample(q.headers)
           l == BehindLines(r, 0)
           e == LineEnd(r, 0)
<1>0. r.headers = q.headers
  BY DEF Sample
<1>1. IsSeq(l)
  <2>1. HeadersReadable(r.headers)
    BY <1>0 DEF GoodReply
  <2> HIDE DEF r
  <2>2. Len(r.headers) \in Nat /\ \A k \in 0 .. Len(r.headers) : IsSeq(BehindLines(r, k))
    BY <2>1, LinesLeft
  <2> QED
    BY <2>2
<1>2. IsSeq(<<"\n">> \o l) /\ IsSeq(e)
  <2>1. e = <<"\r">> \o (<<"\n">> \o l)
    BY DEF LineEnd
  <2> HIDE DEF l, e
  <2> QED
    BY <1>1, <2>1, Mark
<1>3. q.status \in Statuses
  BY DEF GoodReply
<1> DEFINE p == ReasonPhrase(q.status)
           t == StatusText(q.status)
           v == VersionText(KnownVersion(q.version))
<1>4. IsSeq(p) /\ IsSeq(t) /\ IsSeq(v) /\ Len(v) = 8
  BY <1>3, PhraseSeq, StatusParts, Known, VersionLetters
<1> HIDE DEF l, e, p, t, v
<1>5. IsSeq(p \o e) /\ IsSeq(<<SP>> \o (p \o e))
  BY <1>2, <1>4, Cat, Mark
<1>6. BehindStatus(q) = <<SP>> \o (p \o e) /\ BehindVersion(q) = <<SP>> \o (t \o BehindStatus(q))
      /\ ReplyHead(q) = v \o BehindVersion(q)
  BY DEF BehindStatus, BehindVersion, ReplyHead, p, e, t, v
<1>7. IsSeq(BehindStatus(q)) /\ IsSeq(t \o BehindStatus(q)) /\ IsSeq(BehindVersion(q))
  <2>1. IsSeq(BehindStatus(q))
    BY <1>5, <1>6
  <2>2. IsSeq(t \o BehindStatus(q))
    BY <1>4, <2>1, Cat
  <2> QED
    BY <1>6, <2>1, <2>2, Mark
<1>8. IsSeq(ReplyHead(q)) /\ Len(ReplyHead(q)) = 8 + Len(BehindVersion(q))
      /\ Len(BehindVersion(q)) \in Nat
  <2> DEFINE u == BehindVersion(q)
  <2>1. IsSeq(u)
    BY <1>7
  <2> HIDE DEF u
  <2>2. IsSeq(v)
    BY <1>4
  <2>3. IsSeq(v \o u) /\ Len(v \o u) = Len(v) + Len(u) /\ Len(u) \in Nat
    BY ONLY <2>1, <2>2, Cat
  <2>4. ReplyHead(q) = v \o u
    BY <1>6, Zenon DEF u
  <2>5. Len(v) + Len(u) = 8 + Len(u)
    BY <1>4
  <2> QED
    BY <2>3, <2>4, <2>5, Zenon DEF u
<1>9. ReplyHead(q) # <<>>
  BY <1>8
<1> QED
  BY <1>1, <1>2, <1>5, <1>7, <1>8, <1>9 DEF l, e, p, t

LEMMA ReplyPacks ==
  ASSUME NEW h, NEW m, GoodReply(h.response, m)
  PROVE  \E b \in {<<>>, h.response.body} : ResponsePack(h) = ReplyHead(h.response) \o b
<1> DEFINE q == h.response
           v == VersionText(q.version)
           sp == <<SP>>
           t == StatusText(q.status)
           p == ReasonPhrase(q.status)
           hl == HeaderLines(q.headers)
           cr == CRLF
           none == <<>>
           b == IF h.request.command = CommandNumber("HEAD") THEN none ELSE q.body
           front == ((v \o sp) \o t) \o sp
           all == (((front \o p) \o cr) \o hl) \o cr
           r == Sample(q.headers)
<1>1. ResponsePack(h) = all \o b
  <2>1. (IF q.reason = <<>> THEN ReasonPhrase(q.status) ELSE q.reason) = p
    BY DEF GoodReply
  <2> QED
    BY <2>1, Zenon DEF ResponsePack
<1>2. IsSeq(v) /\ IsSeq(sp) /\ IsSeq(t) /\ IsSeq(p)
  <2>1. v = VersionText(KnownVersion(q.version)) /\ KnownVersion(q.version) \in Versions
    BY Known
  <2>2. IsSeq(v)
    BY <2>1, VersionLetters
  <2>3. q.status \in Statuses
    BY DEF GoodReply
  <2> QED
    BY <2>2, <2>3, OneIsSeq, StatusParts, PhraseSeq
<1>3. IsSeq(hl) /\ IsSeq(cr) /\ hl \o cr = BehindLines(r, 0)
  <2>1. r.headers = q.headers
    BY DEF Sample
  <2>2. HeadersReadable(r.headers)
    BY <2>1 DEF GoodReply
  <2> HIDE DEF r
  <2> QED
    BY <2>1, <2>2, LinesLeft
<1>4. cr \o BehindLines(r, 0) = LineEnd(r, 0)
  <2>1. IsSeq(BehindLines(r, 0))
    BY ReplySeqs
  <2>2. <<"\r", "\n">> \o BehindLines(r, 0) = <<"\r">> \o (<<"\n">> \o BehindLines(r, 0))
    BY <2>1, Pair
  <2> QED
    BY <2>2 DEF CRLF, LineEnd
<1>5. all = v \o (sp \o (t \o (sp \o (p \o LineEnd(r, 0)))))
  <2> HIDE DEF v, sp, t, p, hl, cr, r
  <2> DEFINE u == p \o (cr \o (hl \o (cr \o none)))
  <2>1. IsSeq(none) /\ IsSeq(front)
    BY <1>2, EmptyIsSeq, Cat
  <2>2. all \o none = front \o u /\ IsSeq(all)
    <3> HIDE DEF front, none
    <3>1. Cat5Of(front, p, cr, hl, cr, none)
      BY <1>2, <1>3, <2>1, Cat5
    <3> QED
      BY <3>1, Zenon DEF Cat5Of
  <2>3. cr \o none = cr /\ all \o none = all
    <3> HIDE DEF all
    <3> QED
      BY <1>3, <2>2, Cat
  <2>4. u = p \o LineEnd(r, 0)
    BY <1>3, <1>4, <2>3, Zenon
  <2>5. IsSeq(u)
    <3>1. IsSeq(LineEnd(r, 0))
      BY ReplySeqs DEF r
    <3> QED
      BY <1>2, <2>4, <3>1, Cat
  <2> HIDE DEF u
  <2>6. front \o u = v \o (sp \o (t \o (sp \o u)))
    <3>1. Cat4Of(v, sp, t, sp, u)
      BY <1>2, <2>5, Cat4
    <3> QED
      BY <3>1, Zenon DEF Cat4Of
  <2> HIDE DEF all, front, none
  <2> QED
    BY <2>2, <2>3, <2>4, <2>6, Zenon
<1>6. all = ReplyHead(q)
  <2>1. v = VersionText(KnownVersion(q.version))
    BY Known
  <2> HIDE DEF all, v
  <2> QED
    BY <1>5, <2>1, Zenon DEF ReplyHead, BehindVersion, BehindStatus
<1> HIDE DEF all
<1> QED
  BY <1>1, <1>6

-----------------------------------------------------------------------------
(* The parser of a response reads headers and chunks as that of a request   *)
(* does: t is the one that would read them for a request.                   *)
Heard(x) ==
  /\ x = [f \in ParserFields |-> x[f]] /\ x.side = "response"
  /\ ShapedHttp(x.http) /\ ShapedReply(x.http.response)
Twins(x, t) ==
  /\ Heard(x) /\ Shaped(t)
  /\ \A f \in ParserFields \ {"side", "http"} : t[f] = x[f]
  /\ t.http.chunked = x.http.chunked /\ t.http.chunk = x.http.chunk
  /\ t.http.request.headers = x.http.response.headers
  /\ t.http.request.body = x.http.response.body
LineFields == {"version", "status", "reason"}
Told(x, y) ==
  /\ \A f \in LineFields : y.http.response[f] = x.http.response[f]
  /\ y.http.request = x.http.request

LEMMA ToldOn ==
  /\ \A x : Told(x, x)
  /\ \A x, y, z : Told(x, y) /\ Told(y, z) => Told(x, z)
BY DEF Told

LEMMA TwinsField ==
  ASSUME NEW x, NEW t, Twins(x, t), NEW f \in ParserFields \ {"side", "http"}, NEW v,
         NEW y, y = [x EXCEPT ![f] = v], NEW u, u = [t EXCEPT ![f] = v]
  PROVE  Twins(y, u) /\ Told(x, y) /\ y[f] = v
<1>1. /\ y = [g \in ParserFields |-> y[g]] /\ y[f] = v
      /\ \A g \in ParserFields \ {f} : y[g] = x[g]
  BY DEF Twins, Heard
<1>2. /\ u = [g \in ParserFields |-> u[g]] /\ u[f] = v
      /\ \A g \in ParserFields \ {f} : u[g] = t[g]
  BY DEF Twins, Shaped
<1>3. y.side = x.side /\ y.http = x.http /\ u.side = t.side /\ u.http = t.http
  BY <1>1, <1>2 DEF ParserFields
<1>4. Heard(y) /\ Shaped(u)
  BY <1>1, <1>2, <1>3 DEF Twins, Heard, Shaped
<1>5. \A g \in ParserFields \ {"side", "http"} : u[g] = y[g]
  BY <1>1, <1>2 DEF Twins
<1> QED
  BY <1>1, <1>3, <1>4, <1>5 DEF Twins, Told

(* Fields of the response, of the chunk and of chunked. *)
Updated(x, f, v) == [x EXCEPT ![f] = v]
Written(x, f, v) == [x EXCEPT !.http.response[f] = v]
Rehttp(x, f, v) == [x EXCEPT !.http[f] = v]

LEMMA HeardPut ==
  ASSUME NEW x, Heard(x), NEW f \in ResponseFields, NEW v,
         NEW y, y = Written(x, f, v)
  PROVE  /\ Heard(y) /\ \A g \in ParserFields \ {"http"} : y[g] = x[g]
         /\ y.http.chunked = x.http.chunked /\ y.http.chunk = x.http.chunk
         /\ y.http.request = x.http.request /\ y.http.response[f] = v
         /\ \A g \in ResponseFields \ {f} : y.http.response[g] = x.http.response[g]
<1> DEFINE h == ResponsePut(x.http, f, v)
<1>1. y = [x EXCEPT !.http = h]
  BY DEF ResponsePut, Written
<1>2. /\ ShapedHttp(h) /\ ShapedReply(h.response) /\ h.response[f] = v
      /\ h.request = x.http.request /\ h.chunk = x.http.chunk /\ h.chunked = x.http.chunked
      /\ \A e \in ResponseFields \ {f} : h.response[e] = x.http.response[e]
  BY ResponseField DEF Heard
<1> HIDE DEF h
<1>3. /\ y = [g \in ParserFields |-> y[g]] /\ y.http = h
      /\ \A g \in ParserFields \ {"http"} : y[g] = x[g]
  BY <1>1 DEF Heard, ParserFields
<1>4. Heard(y)
  BY <1>2, <1>3 DEF Heard, ParserFields
<1> QED
  BY <1>2, <1>3, <1>4

LEMMA TwinsPut ==
  ASSUME NEW x, NEW t, Twins(x, t), NEW f \in {"headers", "body"}, NEW v,
         NEW y, y = [x EXCEPT !.http.response[f] = v], NEW u, u = Put(t, f, v)
  PROVE  Twins(y, u) /\ Told(x, y) /\ y.http.response[f] = v
<1>1. f \in ResponseFields /\ f \in RequestFields /\ Heard(x) /\ Shaped(t) /\ f \notin LineFields
      /\ LineFields \subseteq ResponseFields /\ {"headers", "body"} \subseteq ResponseFields \cap RequestFields
  BY DEF ResponseFields, RequestFields, Twins, LineFields
<1>2. /\ Heard(y) /\ \A g \in ParserFields \ {"http"} : y[g] = x[g]
      /\ y.http.chunked = x.http.chunked /\ y.http.chunk = x.http.chunk
      /\ y.http.request = x.http.request /\ y.http.response[f] = v
      /\ \A g \in ResponseFields \ {f} : y.http.response[g] = x.http.response[g]
  <2>1. f \in ResponseFields /\ Heard(x) /\ y = Written(x, f, v)
    BY <1>1 DEF Written
  <2> QED
    BY ONLY <2>1, HeardPut
<1>3. Changes(t, u, {}, {f}) /\ u.http.request[f] = v
  BY <1>1, ChangeRequest
<1>4. \A g \in ParserFields \ {"side", "http"} : u[g] = y[g]
  BY <1>2, <1>3 DEF Twins, Changes
<1>5. Told(x, y)
  BY <1>1, <1>2 DEF Told
<1>6. u.http.request.headers = y.http.response.headers /\ u.http.request.body = y.http.response.body
  <2>1. CASE f = "headers"
    <3>1. u.http.request.body = t.http.request.body /\ y.http.response.body = x.http.response.body
      BY <1>1, <1>2, <1>3, <2>1 DEF Changes
    <3>2. t.http.request.body = x.http.response.body
      BY DEF Twins
    <3> QED
      BY ONLY <1>2, <1>3, <2>1, <3>1, <3>2
  <2>2. CASE f = "body"
    <3>1. u.http.request.headers = t.http.request.headers
          /\ y.http.response.headers = x.http.response.headers
      BY <1>1, <1>2, <1>3, <2>2 DEF Changes
    <3>2. t.http.request.headers = x.http.response.headers
      BY DEF Twins
    <3> QED
      BY ONLY <1>2, <1>3, <2>2, <3>1, <3>2
  <2> QED
    BY <2>1, <2>2
<1> QED
  BY <1>2, <1>3, <1>4, <1>5, <1>6 DEF Twins, Changes

LEMMA TwinsHttp ==
  ASSUME NEW x, NEW t, Twins(x, t), NEW f \in {"chunk", "chunked"}, NEW v,
         NEW y, y = Rehttp(x, f, v), NEW u, u = Rehttp(t, f, v)
  PROVE  Twins(y, u) /\ Told(x, y) /\ y.http[f] = v
<1> DEFINE h == [x.http EXCEPT ![f] = v]
           k == [t.http EXCEPT ![f] = v]
<1>1. y = [x EXCEPT !.http = h] /\ u = [t EXCEPT !.http = k]
  BY DEF Rehttp
<1>2. /\ ShapedHttp(h) /\ h.request = x.http.request /\ h.response = x.http.response
      /\ h[f] = v /\ \A g \in HttpFields \ {f} : h[g] = x.http[g]
  BY DEF Twins, Heard, ShapedHttp, HttpFields
<1>3. /\ ShapedHttp(k) /\ k.request = t.http.request
      /\ k[f] = v /\ \A g \in HttpFields \ {f} : k[g] = t.http[g]
  BY DEF Twins, Shaped, ShapedHttp, HttpFields
<1>4. k.chunk = h.chunk /\ k.chunked = h.chunked
  <2>1. "chunk" \in HttpFields /\ "chunked" \in HttpFields
    BY DEF HttpFields
  <2> HIDE DEF h, k
  <2> QED
    BY <1>2, <1>3, <2>1 DEF Twins
<1> HIDE DEF h, k
<1>5. /\ y = [g \in ParserFields |-> y[g]] /\ y.http = h
      /\ \A g \in ParserFields \ {"http"} : y[g] = x[g]
  BY <1>1 DEF Twins, Heard, ParserFields
<1>6. /\ u = [g \in ParserFields |-> u[g]] /\ u.http = k
      /\ \A g \in ParserFields \ {"http"} : u[g] = t[g]
  BY <1>1 DEF Twins, Shaped, ParserFields
<1>7. Heard(y) /\ Shaped(u)
  BY <1>2, <1>3, <1>5, <1>6 DEF Twins, Heard, Shaped, ParserFields
<1>8. \A g \in ParserFields \ {"side", "http"} : u[g] = y[g]
  BY <1>5, <1>6 DEF Twins
<1> QED
  BY <1>2, <1>3, <1>4, <1>5, <1>6, <1>7, <1>8 DEF Twins, Told

HeaderStates ==
  {"HEADER_NAME", "HEADER_COLON", "HEADER_VALUE", "HEADER_CR1", "HEADER_LF1", "HEADER_CR2"}

LEMMA ResponseDispatch ==
  ASSUME NEW x, NEW c, x.side = "response"
  PROVE  /\ x.st \in {"H", "HT", "HTT", "HTTP", "SLASH", "MAJOR", "DOT"} =>
              HeadChar(x, c) = ProtocolChar(x, c)
         /\ x.st = "MINOR" => HeadChar(x, c) = ResponseMinorChar(x, c)
         /\ x.st \in {"SEP1", "STATUS_1", "STATUS_2", "STATUS_3"} => HeadChar(x, c) = StatusChar(x, c)
         /\ x.st \in {"SEP2", "REASON", "TITLE_CR", "TITLE_LF"} => HeadChar(x, c) = ReasonChar(x, c)
         /\ x.st = "HEADER_CR2" => HeadChar(x, c) = ResponseCr2Char(x, c)
         /\ x.st \in HeaderStates \ {"HEADER_CR2"} => HeadChar(x, c) = HeaderChar(x, c)
<1> DEFINE V == {"H", "HT", "HTT", "HTTP", "SLASH", "MAJOR", "DOT"}
           S == {"SEP1", "STATUS_1", "STATUS_2", "STATUS_3"}
           R == {"SEP2", "REASON", "TITLE_CR", "TITLE_LF"}
<1>0. DOMAIN Protocol \cup {"MAJOR"} = V
  BY DEF Protocol
<1>1. HeadChar(x, c) = ResponseChar(x, c)
  BY DEF HeadChar
<1>2. x.st \in V => ResponseChar(x, c) = ProtocolChar(x, c)
  <2>1. x.st \in V => x.st \notin S \cup R /\ x.st # "MINOR" /\ x.st # "HEADER_CR2"
    BY Zenon
  <2> HIDE DEF V
  <2> QED
    BY <1>0, <2>1, Zenon DEF ResponseChar, ResponseProtocolChar
<1>3. x.st = "MINOR" => ResponseChar(x, c) = ResponseMinorChar(x, c)
  BY <1>0, Zenon DEF ResponseChar
<1>4. x.st \in S => ResponseChar(x, c) = StatusChar(x, c)
  <2>1. x.st \in S => x.st \notin V \cup R /\ x.st # "MINOR" /\ x.st # "HEADER_CR2"
    BY Zenon
  <2> HIDE DEF V
  <2> QED
    BY <1>0, <2>1, Zenon DEF ResponseChar
<1>5. x.st \in R => ResponseChar(x, c) = ReasonChar(x, c)
  <2>1. x.st \in R => x.st \notin V \cup S /\ x.st # "MINOR" /\ x.st # "HEADER_CR2"
    BY Zenon
  <2> HIDE DEF V
  <2> QED
    BY <1>0, <2>1, Zenon DEF ResponseChar
<1>6. x.st = "HEADER_CR2" => ResponseChar(x, c) = ResponseCr2Char(x, c)
  BY <1>0, Zenon DEF ResponseChar
<1>7. x.st \in HeaderStates \ {"HEADER_CR2"} => ResponseChar(x, c) = HeaderChar(x, c)
  <2>1. x.st \in HeaderStates \ {"HEADER_CR2"} =>
          x.st \notin V \cup S \cup R /\ x.st # "MINOR" /\ x.st # "HEADER_CR2"
    BY Zenon DEF HeaderStates
  <2> HIDE DEF V
  <2> QED
    BY <1>0, <2>1, Zenon DEF ResponseChar, ResponseHeaderChar
<1> QED
  BY <1>1, <1>2, <1>3, <1>4, <1>5, <1>6, <1>7

(* Both go on together, as long as that of the request has no error. *)
Together(x, y, u) == Twins(y, u) /\ Told(x, y)

LEMMA TogetherOn ==
  ASSUME NEW x, NEW y, NEW u, Together(x, y, u),
         NEW f \in ParserFields \ {"side", "http"}, NEW v,
         NEW z, z = [y EXCEPT ![f] = v], NEW w, w = [u EXCEPT ![f] = v]
  PROVE  Together(x, z, w)
<1>1. Twins(y, u) /\ Told(x, y)
  BY DEF Together
<1>2. Twins(z, w) /\ Told(y, z)
  BY <1>1, TwinsField
<1> QED
  BY <1>1, <1>2, ToldOn DEF Together

LEMMA TogetherSelf ==
  ASSUME NEW x, NEW t, Twins(x, t)
  PROVE  Together(x, x, t)
BY ToldOn DEF Together

LEMMA BothExpect ==
  ASSUME NEW x, NEW t, Twins(x, t), NEW ok, NEW y, NEW u, ok => Together(x, y, u),
         Expect(t, ok, u).rc = 0
  PROVE  Together(x, Expect(x, ok, y), Expect(t, ok, u))
<1>1. CASE ok
  <2>1. Expect(x, ok, y) = y /\ Expect(t, ok, u) = u
    BY <1>1 DEF Expect
  <2> QED
    BY <1>1, <2>1
<1>2. CASE ~ok
  <2>1. Expect(t, ok, u) = Bad(t)
    BY <1>2 DEF Expect
  <2>2. Bad(t).rc # 0
    BY BadNotes DEF Twins, Notes
  <2> QED
    BY <2>1, <2>2
<1> QED
  BY <1>1, <1>2

LEMMA BothGoto ==
  ASSUME NEW x, NEW t, Twins(x, t), NEW st
  PROVE  Together(x, Goto(x, st), Goto(t, st))
<1> DEFINE y == Goto(x, st)
           u == Goto(t, st)
<1>1. y = [x EXCEPT !["st"] = st] /\ u = [t EXCEPT !["st"] = st] /\ "st" \in ParserFields \ {"side", "http"}
  BY DEF Goto, ParserFields
<1> HIDE DEF y, u
<1>2. Together(x, y, u)
  BY <1>1, TogetherSelf, TogetherOn
<1> QED
  BY <1>2 DEF y, u

LEMMA BothName ==
  ASSUME NEW x, NEW t, Twins(x, t), NEW c, NameChar(t, c).rc = 0
  PROVE  Together(x, NameChar(x, c), NameChar(t, c))
<1>1. CASE c = ":"
  <2>1. NameChar(x, c) = Goto(x, "HEADER_COLON") /\ NameChar(t, c) = Goto(t, "HEADER_COLON")
    BY <1>1, Zenon DEF NameChar
  <2> QED
    BY <2>1, BothGoto
<1>2. CASE c # ":"
  <2> DEFINE n == Append(x.name, c)
             y == [x EXCEPT !.name = Append(@, c)]
             u == [t EXCEPT !.name = Append(@, c)]
             ok == IsNameChar(c)
  <2>1. NameChar(x, c) = Expect(x, ok, y) /\ NameChar(t, c) = Expect(t, ok, u)
    BY <1>2, Zenon DEF NameChar
  <2>2. y = [x EXCEPT !["name"] = n] /\ u = [t EXCEPT !["name"] = n]
        /\ "name" \in ParserFields \ {"side", "http"}
    BY DEF Twins, ParserFields
  <2> HIDE DEF y, u, n, ok
  <2>3. Together(x, y, u)
    BY <2>2, TogetherSelf, TogetherOn
  <2> QED
    BY <2>1, <2>3, BothExpect
<1> QED
  BY <1>1, <1>2

LEMMA BothColon ==
  ASSUME NEW x, NEW t, Twins(x, t), NEW c
  PROVE  /\ ColonChar(t, c).rc = 0 => Together(x, ColonChar(x, c), ColonChar(t, c))
         /\ Cr1Char(t, c).rc = 0 => Together(x, Cr1Char(x, c), Cr1Char(t, c))
<1>1. ASSUME NEW st, NEW ok, Expect(t, ok, Goto(t, st)).rc = 0
      PROVE  Together(x, Expect(x, ok, Goto(x, st)), Expect(t, ok, Goto(t, st)))
  BY <1>1, BothGoto, BothExpect
<1> DEFINE a == c = SP
           b == c = "\n"
<1>2. ColonChar(t, c) = Expect(t, a, Goto(t, "HEADER_VALUE"))
      /\ ColonChar(x, c) = Expect(x, a, Goto(x, "HEADER_VALUE"))
  BY Zenon DEF ColonChar
<1>3. Cr1Char(t, c) = Expect(t, b, Goto(t, "HEADER_LF1"))
      /\ Cr1Char(x, c) = Expect(x, b, Goto(x, "HEADER_LF1"))
  BY Zenon DEF Cr1Char
<1> HIDE DEF a, b
<1> QED
  BY <1>1, <1>2, <1>3

LEMMA BothValue ==
  ASSUME NEW x, NEW t, Twins(x, t), NEW c
  PROVE  Together(x, ValueChar(x, c), ValueChar(t, c))
<1>1. CASE c = "\r"
  <2>1. ValueChar(x, c) = Goto(x, "HEADER_CR1") /\ ValueChar(t, c) = Goto(t, "HEADER_CR1")
    BY <1>1, Zenon DEF ValueChar
  <2> QED
    BY <2>1, BothGoto
<1>2. CASE c # "\r"
  <2> DEFINE n == Append(x.value, c)
             y == [x EXCEPT !.value = Append(@, c)]
             u == [t EXCEPT !.value = Append(@, c)]
  <2>1. ValueChar(x, c) = y /\ ValueChar(t, c) = u
    BY <1>2, Zenon DEF ValueChar
  <2>2. y = [x EXCEPT !["value"] = n] /\ u = [t EXCEPT !["value"] = n]
        /\ "value" \in ParserFields \ {"side", "http"}
    BY DEF Twins, ParserFields
  <2> HIDE DEF y, u, n
  <2>3. Together(x, y, u)
    BY <2>2, TogetherSelf, TogetherOn
  <2> QED
    BY <2>1, <2>3
<1> QED
  BY <1>1, <1>2

LEMMA BothLf1 ==
  ASSUME NEW x, NEW t, Twins(x, t), NEW c
  PROVE  Together(x, Lf1Char(x, c), Lf1Char(t, c))
<1> DEFINE hs == PushHeader(x.http.response.headers, x.name, x.value)
           none == <<>>
           y1 == [x EXCEPT !["name"] = none]
           u1 == [t EXCEPT !["name"] = none]
           y2 == [y1 EXCEPT !["value"] = none]
           u2 == [u1 EXCEPT !["value"] = none]
           y3 == [y2 EXCEPT !.http.response["headers"] = hs]
           u3 == Put(u2, "headers", hs)
           y == [x EXCEPT !.name = <<>>, !.value = <<>>,
                          !.http[x.side].headers = PushHeader(@, x.name, x.value)]
           u == [t EXCEPT !.name = <<>>, !.value = <<>>,
                          !.http[t.side].headers = PushHeader(@, t.name, t.value)]
<1>1. x.side = "response" /\ t.side = "request" /\ t.name = x.name /\ t.value = x.value
      /\ t.http.request.headers = x.http.response.headers
      /\ {"name", "value", "st"} \subseteq ParserFields \ {"side", "http"}
  BY DEF Twins, Heard, Shaped, ParserFields
<1>2. y = y3
  <2>1. y = [x EXCEPT !.name = <<>>, !.value = <<>>, !.http["response"].headers = PushHeader(@, x.name, x.value)]
    BY <1>1, Zenon
  <2>2. x = [f \in ParserFields |-> x[f]]
    BY DEF Twins, Heard
  <2> HIDE DEF y
  <2> QED
    BY <2>1, <2>2 DEF ParserFields
<1>3. u = u3
  <2>1. u = [t EXCEPT !.name = <<>>, !.value = <<>>, !.http["request"].headers = PushHeader(@, x.name, x.value)]
    BY <1>1, Zenon
  <2>2. t = [f \in ParserFields |-> t[f]]
    BY DEF Twins, Shaped
  <2> HIDE DEF u
  <2> QED
    BY <1>1, <2>1, <2>2 DEF ParserFields, Put
<1> HIDE DEF hs, none
<1>4. Together(x, y1, u1)
  <2> HIDE DEF y1, u1
  <2>1. y1 = [x EXCEPT !["name"] = none] /\ u1 = [t EXCEPT !["name"] = none]
    BY DEF y1, u1
  <2> QED
    BY <1>1, <2>1, TogetherSelf, TogetherOn
<1> HIDE DEF y1, u1
<1>5. Together(x, y2, u2)
  <2> HIDE DEF y2, u2
  <2>1. y2 = [y1 EXCEPT !["value"] = none] /\ u2 = [u1 EXCEPT !["value"] = none]
    BY DEF y2, u2
  <2> QED
    BY <1>1, <1>4, <2>1, TogetherOn
<1> HIDE DEF y2, u2
<1>6. Together(x, y3, u3)
  <2> HIDE DEF y3, u3
  <2>1. y3 = [y2 EXCEPT !.http.response["headers"] = hs] /\ u3 = Put(u2, "headers", hs)
    BY DEF y3, u3
  <2>2. Twins(y2, u2) /\ Told(x, y2)
    BY <1>5 DEF Together
  <2>3. Twins(y3, u3) /\ Told(y2, y3)
    BY ONLY <2>1, <2>2, TwinsPut
  <2> QED
    BY <2>2, <2>3, ToldOn DEF Together
<1> HIDE DEF y3, u3
<1>7. Together(x, y, u)
  BY <1>2, <1>3, <1>6
<1>8. \A st : Together(x, Goto(y, st), Goto(u, st))
  <2> TAKE st
  <2> HIDE DEF y, u
  <2>1. Twins(y, u) /\ Told(x, y)
    BY <1>7 DEF Together
  <2>2. Together(y, Goto(y, st), Goto(u, st))
    BY <2>1, BothGoto
  <2> QED
    BY <2>1, <2>2, ToldOn DEF Together
<1>9. CASE c = SP
  <2>1. Lf1Char(x, c) = Goto(x, "HEADER_VALUE") /\ Lf1Char(t, c) = Goto(t, "HEADER_VALUE")
    <3>1. c # "\r"
      BY <1>9, Marks
    <3> QED
      BY <1>9, <3>1, Zenon DEF Lf1Char
  <2> QED
    BY <2>1, BothGoto
<1>10. CASE c # SP /\ c = "\r"
  <2>1. Lf1Char(x, c) = Goto(y, "HEADER_CR2") /\ Lf1Char(t, c) = Goto(u, "HEADER_CR2")
    BY <1>10, Zenon DEF Lf1Char
  <2> QED
    BY <1>8, <2>1
<1>11. CASE c # SP /\ c # "\r"
  <2> DEFINE n == <<c>>
             z == Goto(y, "HEADER_NAME")
             w == Goto(u, "HEADER_NAME")
             z2 == [z EXCEPT !["name"] = n]
             w2 == [w EXCEPT !["name"] = n]
  <2>1. Lf1Char(x, c) = z2 /\ Lf1Char(t, c) = w2
    <3>1. Lf1Char(x, c) = [y EXCEPT !.st = "HEADER_NAME", !.name = <<c>>]
      BY <1>11, Zenon DEF Lf1Char
    <3>2. Lf1Char(t, c) = [u EXCEPT !.st = "HEADER_NAME", !.name = <<c>>]
      BY <1>11, Zenon DEF Lf1Char
    <3> HIDE DEF y, u
    <3> QED
      BY <3>1, <3>2 DEF Goto
  <2>2. Together(x, z, w)
    BY <1>8
  <2> HIDE DEF z, w, n, y, u
  <2>3. Together(x, z2, w2)
    <3> HIDE DEF z2, w2
    <3>1. z2 = [z EXCEPT !["name"] = n] /\ w2 = [w EXCEPT !["name"] = n]
      BY DEF z2, w2
    <3> QED
      BY <1>1, <2>2, <3>1, TogetherOn
  <2> QED
    BY <2>1, <2>3
<1> QED
  BY <1>9, <1>10, <1>11

LEMMA BothCr2 ==
  ASSUME NEW x, NEW t, Twins(x, t), NEW c, Cr2Char(t, c).rc = 0, t.rc = 0
  PROVE  Together(x, ResponseCr2Char(x, c), Cr2Char(t, c))
<1> DEFINE y1 == [x EXCEPT !["done"] = TRUE]
           u1 == [t EXCEPT !["done"] = TRUE]
           y == Goto(y1, "HEADER_LF2")
           u == Goto(u1, "HEADER_LF2")
           ok == c = "\n"
<1>1. Together(x, y1, u1)
  <2> HIDE DEF y1, u1
  <2>1. y1 = [x EXCEPT !["done"] = TRUE] /\ u1 = [t EXCEPT !["done"] = TRUE]
        /\ "done" \in ParserFields \ {"side", "http"}
    BY DEF y1, u1, ParserFields
  <2> QED
    BY <2>1, TogetherSelf, TogetherOn
<1>2. ResponseCr2Char(x, c) = Expect(x, ok, y)
  BY DEF ResponseCr2Char, Goto
<1>3. Cr2Char(t, c) = Expect(u1, ok, u)
  BY DEF Cr2Char
<1> HIDE DEF y1, u1
<1>4. Together(x, y, u)
  <2>1. Twins(y1, u1) /\ Told(x, y1)
    BY <1>1 DEF Together
  <2>2. Together(y1, y, u)
    BY <2>1, BothGoto
  <2> QED
    BY <2>1, <2>2, ToldOn DEF Together
<1> HIDE DEF y, u
<1>5. ok
  <2> SUFFICES ASSUME ~ok PROVE FALSE
    OBVIOUS
  <2>1. Cr2Char(t, c) = Bad(u1)
    BY <1>3 DEF Expect
  <2>2. Bad(u1).rc # 0
    <3>1. Shaped(u1)
      BY <1>1 DEF Together, Twins
    <3> QED
      BY <3>1, BadNotes DEF Notes
  <2> QED
    BY <2>1, <2>2
<1> QED
  BY <1>2, <1>3, <1>4, <1>5 DEF Expect

(* A character of the headers. *)
LEMMA BothHeaders ==
  ASSUME NEW x, NEW t, Twins(x, t), x.st \in HeaderStates, NEW c, t.rc = 0,
         RequestChar(t, c).rc = 0
  PROVE  Together(x, HeadChar(x, c), RequestChar(t, c))
<1>0. x.side = "response" /\ t.st = x.st
  BY DEF Twins, Heard, ParserFields
<1>1. CASE x.st = "HEADER_CR2"
  <2>1. HeadChar(x, c) = ResponseCr2Char(x, c) /\ RequestChar(t, c) = Cr2Char(t, c)
    BY <1>0, <1>1, Dispatch, ResponseDispatch
  <2> QED
    BY <2>1, BothCr2
<1>2. ASSUME x.st \in HeaderStates \ {"HEADER_CR2"}
      PROVE  HeadChar(x, c) = HeaderChar(x, c)
  BY <1>0, <1>2, ResponseDispatch
<1>3. CASE x.st = "HEADER_NAME"
  <2>1. HeaderChar(x, c) = NameChar(x, c)
    BY <1>3, Zenon DEF HeaderChar
  <2>2. RequestChar(t, c) = NameChar(t, c) /\ HeadChar(x, c) = NameChar(x, c)
    BY <1>0, <1>2, <1>3, <2>1, Dispatch
  <2> QED
    BY <2>2, BothName
<1>4. CASE x.st = "HEADER_COLON"
  <2>1. HeaderChar(x, c) = ColonChar(x, c)
    BY <1>4, Zenon DEF HeaderChar
  <2>2. RequestChar(t, c) = ColonChar(t, c) /\ HeadChar(x, c) = ColonChar(x, c)
    BY <1>0, <1>2, <1>4, <2>1, Dispatch
  <2> QED
    BY <2>2, BothColon
<1>5. CASE x.st = "HEADER_VALUE"
  <2>1. HeaderChar(x, c) = ValueChar(x, c)
    BY <1>5, Zenon DEF HeaderChar
  <2>2. RequestChar(t, c) = ValueChar(t, c) /\ HeadChar(x, c) = ValueChar(x, c)
    BY <1>0, <1>2, <1>5, <2>1, Dispatch
  <2> QED
    BY <2>2, BothValue
<1>6. CASE x.st = "HEADER_CR1"
  <2>1. HeaderChar(x, c) = Cr1Char(x, c)
    BY <1>6, Zenon DEF HeaderChar
  <2>2. RequestChar(t, c) = Cr1Char(t, c) /\ HeadChar(x, c) = Cr1Char(x, c)
    BY <1>0, <1>2, <1>6, <2>1, Dispatch
  <2> QED
    BY <2>2, BothColon
<1>7. CASE x.st = "HEADER_LF1"
  <2>1. HeaderChar(x, c) = Lf1Char(x, c)
    BY <1>7, Zenon DEF HeaderChar
  <2>2. RequestChar(t, c) = Lf1Char(t, c) /\ HeadChar(x, c) = Lf1Char(x, c)
    BY <1>0, <1>2, <1>7, <2>1, Dispatch
  <2> QED
    BY <2>2, BothLf1
<1> QED
  BY <1>1, <1>3, <1>4, <1>5, <1>6, <1>7 DEF HeaderStates

(* The states of the headers are left with the head. *)
LEMMA HeaderStay ==
  ASSUME NEW t, Shaped(t), t.st \in HeaderStates, NEW c, t.rc = 0,
         RequestChar(t, c).rc = 0, ~RequestChar(t, c).done
  PROVE  RequestChar(t, c).st \in HeaderStates
<1>1. \A st : Goto(t, st).st = st
  BY GotoAlike
<1>2. Bad(t).rc # 0
  BY BadNotes DEF Notes
<1>3. \A f \in {"name", "value"} : \A v : [t EXCEPT ![f] = v].st = t.st
  BY DEF Shaped, ParserFields
<1>4. CASE t.st = "HEADER_NAME"
  <2> DEFINE n == Append(t.name, c)
             u == [t EXCEPT !["name"] = n]
  <2>1. RequestChar(t, c) = NameChar(t, c)
    BY <1>4, Dispatch
  <2>2. NameChar(t, c) \in {Goto(t, "HEADER_COLON"), u, Bad(t)}
    BY DEF NameChar, Expect
  <2>3. u.st = t.st
    <3> HIDE DEF n, u
    <3>1. u = [t EXCEPT !["name"] = n]
      BY DEF u
    <3> QED
      BY <1>3, <3>1
  <2> HIDE DEF u
  <2> QED
    BY <1>1, <1>2, <2>1, <2>2, <2>3 DEF HeaderStates
<1>5. CASE t.st = "HEADER_COLON"
  <2>1. RequestChar(t, c) = ColonChar(t, c)
    BY <1>5, Dispatch
  <2>2. ColonChar(t, c) \in {Goto(t, "HEADER_VALUE"), Bad(t)}
    BY DEF ColonChar, Expect
  <2> QED
    BY <1>1, <1>2, <2>1, <2>2 DEF HeaderStates
<1>6. CASE t.st = "HEADER_VALUE"
  <2> DEFINE n == Append(t.value, c)
             u == [t EXCEPT !["value"] = n]
  <2>1. RequestChar(t, c) = ValueChar(t, c)
    BY <1>6, Dispatch
  <2>2. ValueChar(t, c) \in {Goto(t, "HEADER_CR1"), u}
    BY DEF ValueChar
  <2>3. u.st = t.st
    <3> HIDE DEF n, u
    <3>1. u = [t EXCEPT !["value"] = n]
      BY DEF u
    <3> QED
      BY <1>3, <3>1
  <2> HIDE DEF u
  <2> QED
    BY <1>1, <2>1, <2>2, <2>3 DEF HeaderStates
<1>7. CASE t.st = "HEADER_CR1"
  <2>1. RequestChar(t, c) = Cr1Char(t, c)
    BY <1>7, Dispatch
  <2>2. Cr1Char(t, c) \in {Goto(t, "HEADER_LF1"), Bad(t)}
    BY DEF Cr1Char, Expect
  <2> QED
    BY <1>1, <1>2, <2>1, <2>2 DEF HeaderStates
<1>8. CASE t.st = "HEADER_LF1"
  <2> DEFINE p == [t EXCEPT !.name = <<>>, !.value = <<>>,
                            !.http[t.side].headers = PushHeader(@, t.name, t.value)]
             u == Goto(p, "HEADER_CR2")
             w == [p EXCEPT !.st = "HEADER_NAME", !.name = <<c>>]
  <2>1. RequestChar(t, c) = Lf1Char(t, c)
    BY <1>8, Dispatch
  <2>2. Lf1Char(t, c) \in {Goto(t, "HEADER_VALUE"), u, w}
    <3>1. SP # "\r"
      BY Marks
    <3> HIDE DEF p
    <3>2. c = SP => Lf1Char(t, c) = Goto(t, "HEADER_VALUE")
      BY <3>1, Zenon DEF Lf1Char, p
    <3>3. c = "\r" => Lf1Char(t, c) = Goto(p, "HEADER_CR2")
      BY <3>1, Zenon DEF Lf1Char, p
    <3>4. c # SP /\ c # "\r" => Lf1Char(t, c) = w
      BY Zenon DEF Lf1Char, p
    <3> HIDE DEF w, u
    <3> QED
      BY <3>2, <3>3, <3>4 DEF u
  <2>3. p = [f \in ParserFields |-> p[f]]
    <3>1. t = [f \in ParserFields |-> t[f]]
      BY DEF Shaped
    <3> QED
      BY <3>1
  <2> HIDE DEF p
  <2>4. u.st = "HEADER_CR2" /\ w.st = "HEADER_NAME"
    BY <2>3 DEF Goto, ParserFields
  <2> HIDE DEF u, w
  <2> QED
    BY <1>1, <2>1, <2>2, <2>4 DEF HeaderStates
<1>9. CASE t.st = "HEADER_CR2"
  <2> DEFINE e == [t EXCEPT !.done = TRUE]
  <2>1. RequestChar(t, c) = Cr2Char(t, c)
    BY <1>9, Dispatch
  <2>2. Cr2Char(t, c) = Expect(e, c = "\n", Goto(e, "HEADER_LF2"))
    BY DEF Cr2Char
  <2>3. Shaped(e) /\ e.done = TRUE
    BY DEF Shaped, ParserFields
  <2> HIDE DEF e
  <2>4. Goto(e, "HEADER_LF2").done = TRUE
    BY <2>3, GotoChanges DEF Changes, ParserFields
  <2>5. Bad(e).rc # 0
    BY <2>3, BadNotes DEF Notes
  <2> DEFINE a == Goto(e, "HEADER_LF2")
             b == Bad(e)
  <2>6. Cr2Char(t, c) \in {a, b}
    <3> HIDE DEF a, b
    <3> QED
      BY <2>2 DEF Expect, a, b
  <2> HIDE DEF a, b
  <2> QED
    BY <2>1, <2>4, <2>5, <2>6 DEF a, b
<1> QED
  BY <1>4, <1>5, <1>6, <1>7, <1>8, <1>9 DEF HeaderStates

LEMMA SampleReads ==
  ASSUME NEW hs, HeadersReadable(hs)
  PROVE  Readable(Sample(hs)) /\ Sample(hs).headers = hs
<1> DEFINE r == Sample(hs)
<1>1. /\ r.command = 1 /\ r.url = <<"/">> /\ r.version = 11 /\ r.headers = hs
      /\ r.parameters = <<>> /\ r.query = <<>> /\ r.fragment = <<>>
  BY DEF Sample
<1> HIDE DEF r
<1>2. Word(r) \in Recognised /\ CommandNumber(Word(r)) = r.command
  <2>1. Word(r) = "GET" /\ CommandArrs[2] = "GET"
    BY <1>1 DEF Word, CommandArrs
  <2> QED
    BY <1>1, <2>1, CommandNumbers DEF Recognised
<1>3. \A marks : FreeOf(<<>>, marks)
  <2> DEFINE none == <<>>
  <2>1. IsSeq(none) /\ Len(none) = 0
    BY EmptyIsSeq
  <2> HIDE DEF none
  <2>2. \A marks : FreeOf(none, marks)
    BY <2>1 DEF FreeOf
  <2> QED
    BY <2>2 DEF none
<1>4. FreeOf(r.url, {SP, SEMI, "?", "#", "\r"}) /\ Len(r.url) \in 1 .. UrlMax /\ r.url[1] = "/"
  <2> DEFINE s == <<"/">>
  <2>1. IsSeq(s) /\ Len(s) = 1 /\ s[1] = "/"
    BY One
  <2> HIDE DEF s
  <2>2. "/" \notin {SP, SEMI, "?", "#", "\r"}
    BY Marks
  <2>3. FreeOf(s, {SP, SEMI, "?", "#", "\r"})
    BY <2>1, <2>2 DEF FreeOf
  <2>4. Len(s) \in 1 .. UrlMax
    BY <2>1, HeadAssumption
  <2> QED
    BY <1>1, <2>1, <2>3, <2>4 DEF s
<1>5. 11 \in Versions
  BY DEF Versions
<1>6. Readable(r)
  BY <1>1, <1>2, <1>3, <1>4, <1>5 DEF Readable, LineReadable
<1> QED
  BY <1>1, <1>6 DEF r

ReplyHeaders(x, u, hs) ==
  \E t : Twins(x, t) /\ x.st \in HeaderStates /\ InHead(t, u, Sample(hs), FALSE)
HeadersHeard(x, hs) == \E t : Twins(x, t) /\ Finished(t, Sample(hs), FALSE)

LEMMA HeadersGoOn ==
  ASSUME NEW hs, HeadersReadable(hs), NEW x, NEW u, ReplyHeaders(x, u, hs)
  PROVE  LET y == HeadChar(x, Head(u))
         IN /\ u # <<>> /\ y.rc = 0 /\ Told(x, y)
            /\ y.done => Tail(u) = <<>> /\ HeadersHeard(y, hs)
            /\ ~y.done => ReplyHeaders(y, Tail(u), hs)
<1>1. PICK t : Twins(x, t) /\ x.st \in HeaderStates /\ InHead(t, u, Sample(hs), FALSE)
  BY DEF ReplyHeaders
<1> DEFINE r == Sample(hs)
<1>2. Readable(r) /\ InHead(t, u, r, FALSE)
  BY <1>1, SampleReads
<1> HIDE DEF r
<1>3. Waiting(t) /\ t.rc = 0 /\ t.st = x.st
  BY <1>1 DEF InHead, Waiting, Twins, ParserFields
<1>4. CASE \E c, v : LeadsTo(t, u, r, FALSE, c, v)
  <2>1. PICK c, v : LeadsTo(t, u, r, FALSE, c, v)
    BY <1>4
  <2> DEFINE y == HeadChar(x, c)
             w == RequestChar(t, c)
  <2>2. u # <<>> /\ Head(u) = c /\ Tail(u) = v /\ InHead(w, v, r, FALSE)
    BY <2>1 DEF LeadsTo
  <2>3. w.rc = 0 /\ ~w.done /\ Shaped(w)
    BY <2>2 DEF InHead, Waiting
  <2>4. Together(x, y, w)
    BY <1>1, <1>3, <2>3, BothHeaders
  <2>5. w.st \in HeaderStates
    BY <1>1, <1>3, <2>3, HeaderStay DEF Waiting
  <2> HIDE DEF y, w
  <2>6. Twins(y, w) /\ Told(x, y)
    BY <2>4 DEF Together
  <2>7. y.rc = w.rc /\ y.done = w.done /\ y.st = w.st
    BY <2>6 DEF Twins, ParserFields
  <2>8. ReplyHeaders(y, v, hs)
    BY <2>2, <2>5, <2>6, <2>7 DEF ReplyHeaders, r
  <2> QED
    BY <2>2, <2>3, <2>6, <2>7, <2>8 DEF y
<1>5. CASE u = <<"\n">> /\ Finished(RequestChar(t, "\n"), r, FALSE)
  <2> DEFINE y == HeadChar(x, "\n")
             w == RequestChar(t, "\n")
  <2>1. w.rc = 0 /\ w.done /\ Shaped(w)
    BY <1>5 DEF Finished, Waiting
  <2>2. Together(x, y, w)
    BY <1>1, <1>3, <2>1, BothHeaders
  <2> HIDE DEF y, w
  <2>3. Twins(y, w) /\ Told(x, y)
    BY <2>2 DEF Together
  <2>4. y.rc = w.rc /\ y.done = w.done
    BY <2>3 DEF Twins, ParserFields
  <2>5. HeadersHeard(y, hs)
    BY <1>5, <2>3 DEF HeadersHeard, r, w
  <2>6. u # <<>> /\ Head(u) = "\n" /\ Tail(u) = <<>>
    BY <1>5
  <2> QED
    BY <2>1, <2>3, <2>4, <2>5, <2>6 DEF y
<1>6. \/ \E c, v : LeadsTo(t, u, r, FALSE, c, v)
      \/ /\ u = <<"\n">> /\ Finished(RequestChar(t, "\n"), r, FALSE)
         /\ RequestChar(t, "\n").size = t.size
  BY <1>2, HeadReads, Zenon
<1> QED
  BY <1>4, <1>5, <1>6, Zenon

-----------------------------------------------------------------------------
(* The status line: what the parser has read of it, and what is to come. *)
Begun(x) ==
  /\ Heard(x) /\ x.rc = 0 /\ ~x.done /\ x.digits = <<>>
  /\ x.http.chunked = FALSE /\ x.http.chunk = NoChunks
  /\ x.http.response.headers = <<>> /\ x.http.response.body = <<>>
Onto(x, y, P, R) ==
  /\ Begun(y) /\ y.http.request = x.http.request
  /\ \A f \in {"st", "tmp", "name", "value"} \ P : y[f] = x[f]
  /\ \A f \in LineFields \ R : y.http.response[f] = x.http.response[f]

LEMMA OntoBoth ==
  ASSUME NEW x, NEW y, NEW z, NEW P, NEW R, NEW Q, NEW S, Onto(x, y, P, R), Onto(y, z, Q, S)
  PROVE  Onto(x, z, P \cup Q, R \cup S)
BY DEF Onto

LEMMA BegunField ==
  ASSUME NEW x, Begun(x), NEW f \in {"st", "tmp", "name", "value"}, NEW v
  PROVE  Onto(x, Updated(x, f, v), {f}, {}) /\ Updated(x, f, v)[f] = v
<1> DEFINE y == Updated(x, f, v)
<1>0. y = [x EXCEPT ![f] = v]
  BY DEF Updated
<1> HIDE DEF y
<1>1. /\ y = [g \in ParserFields |-> y[g]] /\ y[f] = v
      /\ \A g \in ParserFields \ {f} : y[g] = x[g]
  BY <1>0 DEF Begun, Heard, ParserFields
<1>2. f \notin {"side", "rc", "done", "digits", "http"}
  OBVIOUS
<1>3. y.side = x.side /\ y.http = x.http /\ y.rc = x.rc /\ y.done = x.done /\ y.digits = x.digits
  BY <1>1, <1>2 DEF ParserFields
<1>4. Begun(y)
  BY <1>1, <1>3 DEF Begun, Heard
<1> QED
  BY <1>1, <1>3, <1>4 DEF Onto, ParserFields, y

LEMMA BegunPut ==
  ASSUME NEW x, Begun(x), NEW f \in {"version", "status", "reason"}, NEW v
  PROVE  Onto(x, Written(x, f, v), {}, {f}) /\ Written(x, f, v).http.response[f] = v
<1> DEFINE y == Written(x, f, v)
<1> HIDE DEF y
<1>1. f \in ResponseFields /\ Heard(x) /\ f \notin {"headers", "body"}
  BY DEF Begun, LineFields, ResponseFields
<1>2. /\ Heard(y) /\ \A g \in ParserFields \ {"http"} : y[g] = x[g]
      /\ y.http.chunked = x.http.chunked /\ y.http.chunk = x.http.chunk
      /\ y.http.request = x.http.request /\ y.http.response[f] = v
      /\ \A g \in ResponseFields \ {f} : y.http.response[g] = x.http.response[g]
  <2>1. f \in ResponseFields /\ Heard(x) /\ y = Written(x, f, v)
    BY <1>1 DEF y
  <2> QED
    BY ONLY <2>1, HeardPut
<1>3. Begun(y)
  <2>1. {"headers", "body"} \subseteq ResponseFields \ {f}
        /\ {"rc", "done", "digits"} \subseteq ParserFields \ {"http"}
    BY <1>1 DEF ResponseFields, ParserFields
  <2> QED
    BY <1>2, <2>1 DEF Begun
<1>4. LineFields \subseteq ResponseFields
      /\ {"st", "tmp", "name", "value"} \subseteq ParserFields \ {"http"}
  BY DEF LineFields, ResponseFields, ParserFields
<1> QED
  BY <1>2, <1>3, <1>4 DEF Onto, y

LEMMA BegunGoto ==
  ASSUME NEW x, Begun(x), NEW st
  PROVE  Onto(x, Goto(x, st), {"st"}, {}) /\ Goto(x, st).st = st
<1>1. Goto(x, st) = Updated(x, "st", st)
  BY DEF Goto, Updated
<1> QED
  BY <1>1, BegunField

LEMMA BegunStore ==
  ASSUME NEW x, Begun(x), NEW c, NEW st
  PROVE  LET y == Store(x, c, st)
         IN Onto(x, y, {"st", "tmp"}, {}) /\ y.st = st /\ y.tmp = Append(x.tmp, c)
<1> DEFINE n == Append(x.tmp, c)
           z == Updated(x, "tmp", n)
           y == Goto(z, st)
<1>1. Store(x, c, st) = y
  BY DEF Store, Goto, Updated, Begun, Heard, ParserFields
<1> HIDE DEF n
<1>2. Onto(x, z, {"tmp"}, {}) /\ z.tmp = n
  BY BegunField
<1> HIDE DEF z
<1>3. Onto(z, y, {"st"}, {}) /\ y.st = st
  BY <1>2, BegunGoto DEF Onto
<1> HIDE DEF y
<1>4. Onto(x, y, {"tmp"} \cup {"st"}, {} \cup {})
  BY <1>2, <1>3, OntoBoth
<1>5. y.tmp = n
  BY <1>2, <1>3 DEF Onto
<1>6. {"tmp"} \cup {"st"} = {"st", "tmp"} /\ {} \cup {} = {}
  OBVIOUS
<1> QED
  BY <1>1, <1>3, <1>4, <1>5, <1>6 DEF n

VersionHeard(x, q) == Dotted(x.http.response.version) = Dotted(q.version)
StatusHeard(x, q) == VersionHeard(x, q) /\ x.http.response.status = q.status
LineHeard(x, q) == StatusHeard(x, q) /\ x.http.response.reason = ReasonPhrase(q.status)
StatusStates == <<"STATUS_1", "STATUS_2", "STATUS_3">>

ToVersion(x, u, q) ==
  /\ Len(x.tmp) \in 0 .. 7 /\ x.st = VersionStates[Len(x.tmp) + 1]
  /\ Reading(x.tmp, u, VersionText(KnownVersion(q.version)), BehindVersion(q))
ToBlank(x, u, q) ==
  x.st = "SEP1" /\ x.tmp = <<>> /\ u = BehindVersion(q) /\ VersionHeard(x, q)
ToStatus(x, u, q) ==
  /\ Len(x.tmp) \in 0 .. 2 /\ x.st = StatusStates[Len(x.tmp) + 1] /\ VersionHeard(x, q)
  /\ Reading(x.tmp, u, StatusText(q.status), BehindStatus(q))
ToReason(x, u, q) ==
  /\ StatusHeard(x, q)
  /\ \/ x.st = "SEP2" /\ u = BehindStatus(q)
     \/ /\ x.st = "REASON"
        /\ Reading(x.http.response.reason, u, ReasonPhrase(q.status), LineEnd(Sample(q.headers), 0))
ToHeaders(x, u, q) ==
  /\ LineHeard(x, q)
  /\ \/ x.st = "TITLE_CR" /\ u = <<"\n">> \o BehindLines(Sample(q.headers), 0)
     \/ x.st = "TITLE_LF" /\ u = BehindLines(Sample(q.headers), 0)
InReply(x, u, q) ==
  \/ /\ Begun(x)
     /\ \/ ToVersion(x, u, q) \/ ToBlank(x, u, q) \/ ToStatus(x, u, q)
        \/ ToReason(x, u, q) \/ ToHeaders(x, u, q)
  \/ LineHeard(x, q) /\ ReplyHeaders(x, u, q.headers)

Proceeds(x, u, q) ==
  /\ u # <<>> /\ HeadChar(x, Head(u)).rc = 0 /\ ~HeadChar(x, Head(u)).done
  /\ InReply(HeadChar(x, Head(u)), Tail(u), q)
  /\ HeadChar(x, Head(u)).http.request = x.http.request

LEMMA MarkOff ==
  ASSUME NEW c, NEW v, IsSeq(v), NEW u, u = <<c>> \o v
  PROVE  u # <<>> /\ Head(u) = c /\ Tail(u) = v
BY Mark

LEMMA VersionProceeds ==
  ASSUME NEW q, NEW m, GoodReply(q, m), NEW x, Begun(x), NEW u, ToVersion(x, u, q)
  PROVE  Proceeds(x, u, q)
<1> DEFINE k == KnownVersion(q.version)
           t == VersionText(k)
           b == BehindVersion(q)
           s == x.tmp
           n == Len(s)
<1>1. /\ Reading(s, u, t, b) /\ n \in 0 .. 7 /\ x.st = VersionStates[n + 1]
      /\ k \in Versions /\ IsSeq(s) /\ x.side = "response"
  <2>1. k \in Versions
    BY Known
  <2> QED
    BY <2>1 DEF ToVersion, Begun, Heard, Reading
<1>2. /\ Len(t) = 8 /\ IsDigit(t[8]) /\ IsDigit(t[6])
      /\ t[1] = "H" /\ t[2] = "T" /\ t[3] = "T" /\ t[4] = "P" /\ t[5] = "/" /\ t[7] = "."
  BY <1>1, VersionLetters
<1>3. PICK c, s2, v : More(s, u, t, b, c, s2, v)
  <2> HIDE DEF s, t, b
  <2>1. s # t
    <3>1. n # 8
      <4>1. n \in 0 .. 7
        BY <1>1
      <4> HIDE DEF n
      <4> QED
        BY ONLY <4>1
    <3>2. Len(t) = 8
      BY <1>2
    <3> QED
      BY ONLY <3>1, <3>2
  <2> QED
    BY <1>1, <2>1, ReadMore
<1>4. Reading(s2, v, t, b) /\ Len(s2) = n + 1 /\ c = t[n + 1]
  BY <1>3, MoreIs
<1>5. s2 = Append(s, c) /\ u # <<>> /\ Head(u) = c /\ Tail(u) = v
  BY <1>3, Zenon DEF More
<1> HIDE DEF s, t, b
<1>6. CASE n # 7
  <2> DEFINE y == Store(x, c, VersionStates[n + 2])
  <2>1. n \in 0 .. 6 /\ (n = 0 => s = <<>>)
    BY <1>1, <1>6, EmptySeq DEF IsSeq
  <2>2. HeadChar(x, c) = y
    <3>1. x.st \in {"H", "HT", "HTT", "HTTP", "SLASH", "MAJOR", "DOT"}
      BY <1>1, <2>1, VersionNext
    <3>2. HeadChar(x, c) = ProtocolChar(x, c)
      BY <1>1, <3>1, ResponseDispatch
    <3>3. CASE n = 5
      <4>1. x.st = "MAJOR" /\ VersionStates[n + 2] = "DOT" /\ IsDigit(c)
        BY <1>1, <1>2, <1>4, <3>3, VersionNext
      <4>2. ProtocolChar(x, c) = Store(x, c, "DOT")
        BY <4>1, Zenon DEF ProtocolChar, Expect
      <4> QED
        BY <3>2, <4>1, <4>2
    <3>4. CASE n # 5
      <4> DEFINE begun == IF x.st = "H" THEN [x EXCEPT !.tmp = <<>>] ELSE x
      <4>1. n \in {0, 1, 2, 3, 4, 6}
        BY <2>1, <3>4
      <4>2. Protocol[x.st][2] = VersionStates[n + 2] /\ x.st # "MAJOR"
        <5>1. n \in {0, 1, 2, 3, 4, 6} /\ x.st = VersionStates[n + 1]
          BY <1>1, <4>1
        <5> HIDE DEF n
        <5> QED
          BY ONLY <5>1, VersionNext
      <4>3. c = Protocol[x.st][1]
        <5>1. n + 1 \in {1, 2, 3, 4, 5, 7}
          <6> HIDE DEF n
          <6> QED
            BY <4>1
        <5> QED
          BY <1>1, <1>2, <1>4, <5>1, VersionNext
      <4>4. begun = x
        <5>1. CASE x.st = "H"
          <6>1. n = 0
            <7>1. VersionStates[n + 1] = "H" /\ n \in 0 .. 7
              BY <1>1, <5>1
            <7> HIDE DEF n
            <7> QED
              BY <7>1 DEF VersionStates
          <6>2. x.tmp = <<>>
            BY <2>1, <6>1 DEF s
          <6>3. [x EXCEPT !.tmp = <<>>] = x
            BY <6>2 DEF Begun, Heard, ParserFields
          <6> QED
            BY <5>1, <6>3
        <5>2. CASE x.st # "H"
          BY <5>2
        <5> QED
          BY <5>1, <5>2
      <4> HIDE DEF begun
      <4>5. ProtocolChar(x, c) = Store(begun, c, Protocol[x.st][2])
        BY <4>2, <4>3, Zenon DEF ProtocolChar, Expect, begun
      <4> QED
        BY <3>2, <4>2, <4>4, <4>5
    <3> QED
      BY <3>3, <3>4
  <2>3. Onto(x, y, {"st", "tmp"}, {}) /\ y.st = VersionStates[n + 2] /\ y.tmp = s2
    <3>1. y.tmp = Append(x.tmp, c)
      BY BegunStore
    <3>2. Onto(x, y, {"st", "tmp"}, {}) /\ y.st = VersionStates[n + 2]
      BY BegunStore
    <3> QED
      BY <1>5, <3>1, <3>2, Zenon DEF s
  <2> HIDE DEF y
  <2>4. ToVersion(y, v, q)
    <3>1. Len(s2) \in 0 .. 7 /\ n + 2 = Len(s2) + 1
      <4> HIDE DEF n
      <4> QED
        BY <1>4, <2>1
    <3> QED
      BY <1>4, <2>3, <3>1, Zenon DEF ToVersion, t, b
  <2>5. Begun(y) /\ y.rc = 0 /\ ~y.done /\ y.http.request = x.http.request
    BY <2>3 DEF Onto, Begun
  <2>6. InReply(y, v, q)
    BY <2>4, <2>5 DEF InReply
  <2> QED
    BY <1>5, <2>2, <2>5, <2>6, Zenon DEF Proceeds
<1>7. CASE n = 7
  <2> DEFINE none == <<>>
             w == Updated(x, "tmp", none)
             z == Goto(w, "SEP1")
             y == Written(z, "version", k)
  <2>1. s2 = t /\ v = b /\ c = t[8]
    <3>1. Len(s2) = Len(t)
      BY <1>2, <1>4, <1>7
    <3> QED
      BY <1>4, <1>7, <3>1, Ended
  <2>2. VersionOf(Append(x.tmp, c)) = {k}
    <3> HIDE DEF k
    <3>1. Append(x.tmp, c) = VersionText(k)
      BY <1>5, <2>1, Zenon DEF s, t
    <3>2. \A j \in Versions : VersionText(j) = VersionText(k) <=> j = k
      BY <1>1, VersionLetters
    <3>3. VersionOf(VersionText(k)) = {k}
      BY <1>1, <3>2 DEF VersionOf
    <3> QED
      BY <3>1, <3>3, Zenon
  <2> HIDE DEF k
  <2>3. HeadChar(x, c) = y
    <3> DEFINE known == VersionOf(Append(x.tmp, c))
               got == [x EXCEPT !.tmp = <<>>, !.st = "SEP1",
                                !.http.response.version = CHOOSE j \in known : TRUE]
               ok == IsDigit(c) /\ known # {}
    <3>1. x.st = "MINOR"
      BY <1>1, <1>7, VersionNext
    <3>2. HeadChar(x, c) = ResponseMinorChar(x, c)
      BY <1>1, <3>1, ResponseDispatch
    <3>3. (CHOOSE j \in {k} : TRUE) = k /\ {k} # {}
      OBVIOUS
    <3>4. known # {} /\ (CHOOSE j \in known : TRUE) = k
      <4> HIDE DEF known
      <4>1. known = {k}
        BY <2>2 DEF known
      <4> QED
        BY <3>3, <4>1
    <3>5. ok
      BY <1>2, <2>1, <3>4
    <3>6. ResponseMinorChar(x, c) = Expect(x, ok, got)
      BY DEF ResponseMinorChar
    <3> HIDE DEF known
    <3>7. got = y
      BY <3>4 DEF Goto, Updated, Written, Begun, Heard, ParserFields
    <3> HIDE DEF got, ok, y
    <3> QED
      BY <3>2, <3>5, <3>6, <3>7, Zenon DEF Expect
  <2> HIDE DEF none
  <2>4. Onto(x, w, {"tmp"}, {}) /\ w.tmp = none
    BY BegunField
  <2> HIDE DEF w
  <2>5. Onto(w, z, {"st"}, {}) /\ z.st = "SEP1"
    BY <2>4, BegunGoto DEF Onto
  <2> HIDE DEF z
  <2>6. Onto(z, y, {}, {"version"}) /\ y.http.response["version"] = k
    <3>1. Begun(z)
      BY <2>5 DEF Onto
    <3> QED
      BY <3>1, BegunPut
  <2> HIDE DEF y
  <2>7. y.tmp = none /\ y.st = "SEP1" /\ y.http.request = x.http.request /\ Begun(y)
        /\ y.rc = 0 /\ ~y.done
    BY <2>4, <2>5, <2>6 DEF Onto, Begun
  <2>8. ToBlank(y, v, q)
    <3>1. VersionHeard(y, q)
      BY <2>6, Known DEF VersionHeard, k
    <3> QED
      BY <2>1, <2>7, <3>1, Zenon DEF ToBlank, none, b
  <2>9. InReply(y, v, q)
    BY <2>7, <2>8 DEF InReply
  <2> QED
    BY <1>5, <2>3, <2>7, <2>9, Zenon DEF Proceeds
<1> QED
  BY <1>6, <1>7

LEMMA DigitChars ==
  ASSUME NEW d \in 0 .. 9
  PROVE  IsDigit(Char(48 + d)) /\ CodeOf[Char(48 + d)] = 48 + d
<1>1. 17 + d \in 1 .. 95 /\ 31 + (17 + d) = 48 + d
  OBVIOUS
<1>2. CodeOf[Char(48 + d)] = 48 + d /\ Char(48 + d) \in DOMAIN CodeOf
  BY <1>1, CodeAt
<1>3. "0" \in DOMAIN CodeOf /\ "9" \in DOMAIN CodeOf
  <2>1. Printable[17] = "0" /\ Printable[26] = "9"
    BY DEF Printable
  <2> QED
    BY <2>1, CodeAt
<1> QED
  BY <1>2, <1>3, Codes DEF IsDigit, Between

LEMMA StatusDigits ==
  ASSUME NEW s \in Statuses
  PROVE  /\ \A i \in 1 .. 3 : IsDigit(StatusText(s)[i]) /\ StatusText(s)[i] # "\r"
         /\ {t \in Statuses : StatusText(t) = StatusText(s)} = {s}
<1> DEFINE p(t) == t \div 100
           m(t) == (t \div 10) % 10
           l(t) == t % 10
<1>1. ASSUME NEW t \in Statuses
      PROVE  /\ p(t) \in 0 .. 9 /\ m(t) \in 0 .. 9 /\ l(t) \in 0 .. 9
             /\ t = 100 * p(t) + 10 * m(t) + l(t)
  <2>1. t \in 100 .. 511
    BY StatusParts
  <2> QED
    BY <2>1
<1>2. ASSUME NEW t \in Statuses
      PROVE  /\ StatusText(t)[1] = Char(48 + p(t)) /\ StatusText(t)[2] = Char(48 + m(t))
             /\ StatusText(t)[3] = Char(48 + l(t))
  BY StatusParts
<1> HIDE DEF p, m, l
<1>3. \A i \in 1 .. 3 : IsDigit(StatusText(s)[i]) /\ StatusText(s)[i] # "\r"
  <2>1. \A d \in 0 .. 9 : IsDigit(Char(48 + d)) /\ Char(48 + d) # "\r"
    BY DigitChars, DecimalFree
  <2>2. p(s) \in 0 .. 9 /\ m(s) \in 0 .. 9 /\ l(s) \in 0 .. 9
    BY <1>1
  <2> HIDE DEF StatusText
  <2> QED
    BY <1>2, <2>1, <2>2
<1>4. ASSUME NEW t \in Statuses, StatusText(t) = StatusText(s) PROVE t = s
  <2>1. \A d \in 0 .. 9 : CodeOf[Char(48 + d)] = 48 + d
    BY DigitChars
  <2>2. Char(48 + p(t)) = Char(48 + p(s)) /\ Char(48 + m(t)) = Char(48 + m(s))
        /\ Char(48 + l(t)) = Char(48 + l(s))
    BY <1>2, <1>4
  <2>3. \A d, e \in 0 .. 9 : Char(48 + d) = Char(48 + e) => d = e
    <3> SUFFICES ASSUME NEW d \in 0 .. 9, NEW e \in 0 .. 9, Char(48 + d) = Char(48 + e)
                 PROVE  d = e
      OBVIOUS
    <3>1. 48 + d = 48 + e
      BY <2>1
    <3> QED
      BY <3>1
  <2>4. p(t) = p(s) /\ m(t) = m(s) /\ l(t) = l(s)
    BY <1>1, <2>2, <2>3
  <2>5. t = 100 * p(t) + 10 * m(t) + l(t) /\ s = 100 * p(s) + 10 * m(s) + l(s)
    BY <1>1
  <2> QED
    BY <2>4, <2>5
<1>5. {t \in Statuses : StatusText(t) = StatusText(s)} = {s}
  <2> HIDE DEF Statuses, StatusText
  <2> QED
    BY <1>4
<1> QED
  BY <1>3, <1>5

LEMMA PhraseFree ==
  ASSUME NEW s \in Statuses
  PROVE  FreeOf(ReasonPhrase(s), {"\r"})
<1> DEFINE t == StatusText(s)
           o == <<"R">>
           p == o \o t
<1>1. IsSeq(t) /\ Len(t) = 3 /\ \A i \in 1 .. 3 : t[i] # "\r"
  BY StatusParts, StatusDigits
<1>2. IsSeq(o) /\ Len(o) = 1 /\ o[1] = "R"
  BY One
<1> HIDE DEF t, o
<1>3. /\ IsSeq(p) /\ Len(p) = Len(o) + Len(t)
      /\ \A i \in 1 .. Len(o) + Len(t) : p[i] = IF i <= Len(o) THEN o[i] ELSE t[i - Len(o)]
  BY <1>1, <1>2, Cat
<1> HIDE DEF p
<1>4. \A i \in 1 .. Len(p) : p[i] \notin {"\r"}
  BY <1>1, <1>2, <1>3
<1>5. ReasonPhrase(s) = p
  BY DEF ReasonPhrase, p, o, t
<1> QED
  BY <1>3, <1>4, <1>5 DEF FreeOf

LEMMA BlankProceeds ==
  ASSUME NEW q, NEW m, GoodReply(q, m), NEW x, Begun(x), NEW u, ToBlank(x, u, q)
  PROVE  Proceeds(x, u, q)
<1> DEFINE t == StatusText(q.status)
           b == BehindStatus(q)
           v == t \o b
           y == Goto(x, "STATUS_1")
<1>1. x.st = "SEP1" /\ x.tmp = <<>> /\ u = <<SP>> \o v /\ VersionHeard(x, q) /\ x.side = "response"
  BY DEF ToBlank, BehindVersion, Begun, Heard
<1>2. IsSeq(t) /\ IsSeq(b) /\ IsSeq(v)
  <2>1. q.status \in Statuses
    BY DEF GoodReply
  <2>2. IsSeq(t)
    BY <2>1, StatusParts
  <2>3. IsSeq(b) /\ IsSeq(v)
    BY ReplySeqs
  <2> QED
    BY <2>2, <2>3
<1>3. HeadChar(x, SP) = y
  <2>1. HeadChar(x, SP) = StatusChar(x, SP)
    BY <1>1, ResponseDispatch
  <2>2. StatusChar(x, SP) = Expect(x, SP = SP, y)
    BY <1>1, Zenon DEF StatusChar
  <2> QED
    BY <2>1, <2>2 DEF Expect
<1>4. Onto(x, y, {"st"}, {}) /\ y.st = "STATUS_1"
  BY BegunGoto
<1> HIDE DEF y
<1>5. y.tmp = <<>> /\ y.http.request = x.http.request /\ Begun(y) /\ y.rc = 0 /\ ~y.done
      /\ VersionHeard(y, q)
  BY <1>1, <1>4 DEF Onto, Begun, VersionHeard, LineFields
<1>6. Reading(<<>>, v, t, b)
  <2> HIDE DEF t, b
  <2> QED
    BY <1>2, Begins
<1> HIDE DEF v, t, b
<1>7. ToStatus(y, v, q)
  <2>1. Len(y.tmp) = 0
    BY <1>5
  <2>2. Len(y.tmp) \in 0 .. 2 /\ y.st = StatusStates[Len(y.tmp) + 1]
    BY <1>4, <2>1 DEF StatusStates
  <2> QED
    BY <1>5, <1>6, <2>2, Zenon DEF ToStatus, t, b
<1>8. InReply(y, v, q)
  BY <1>5, <1>7 DEF InReply
<1>9. u # <<>> /\ Head(u) = SP /\ Tail(u) = v
  BY <1>1, <1>2, MarkOff
<1> QED
  BY <1>3, <1>5, <1>8, <1>9, Zenon DEF Proceeds

LEMMA StatusProceeds ==
  ASSUME NEW q, NEW m, GoodReply(q, m), NEW x, Begun(x), NEW u, ToStatus(x, u, q)
  PROVE  Proceeds(x, u, q)
<1> DEFINE t == StatusText(q.status)
           b == BehindStatus(q)
           s == x.tmp
           n == Len(s)
<1>1. /\ Reading(s, u, t, b) /\ n \in 0 .. 2 /\ x.st = StatusStates[n + 1] /\ VersionHeard(x, q)
      /\ q.status \in Statuses /\ x.side = "response"
  BY DEF ToStatus, Begun, Heard, GoodReply
<1>2. IsSeq(t) /\ Len(t) = 3 /\ \A i \in 1 .. 3 : IsDigit(t[i])
  BY <1>1, StatusParts, StatusDigits
<1>3. PICK c, s2, v : More(s, u, t, b, c, s2, v)
  <2>1. ~(s = t /\ u = b)
    BY <1>1, <1>2
  <2> HIDE DEF s, t, b
  <2> QED
    BY <1>1, <2>1, ReadMore
<1>4. Reading(s2, v, t, b) /\ Len(s2) = n + 1 /\ c = t[n + 1]
  BY <1>3, MoreIs
<1>5. s2 = Append(s, c) /\ u # <<>> /\ Head(u) = c /\ Tail(u) = v
  BY <1>3, Zenon DEF More
<1>6. IsDigit(c)
  <2> HIDE DEF t, n
  <2>1. n + 1 \in 1 .. 3
    BY <1>1
  <2> QED
    BY <1>2, <1>4, <2>1
<1>7. HeadChar(x, c) = StatusChar(x, c)
  <2> HIDE DEF n
  <2>1. \A i \in 0 .. 2 : StatusStates[i + 1] \in {"STATUS_1", "STATUS_2", "STATUS_3"}
    BY DEF StatusStates
  <2>2. x.st \in {"STATUS_1", "STATUS_2", "STATUS_3"}
    BY <1>1, <2>1
  <2> QED
    BY <1>1, <2>2, ResponseDispatch
<1> HIDE DEF s, t, b
<1>8. CASE n # 2
  <2> DEFINE y == Store(x, c, StatusStates[n + 2])
  <2>1. StatusChar(x, c) = y
    <3>1. CASE n = 0
      <4>1. x.st = "STATUS_1" /\ StatusStates[n + 2] = "STATUS_2"
        BY <1>1, <3>1 DEF StatusStates
      <4>2. StatusChar(x, c) = Expect(x, IsDigit(c), Store(x, c, "STATUS_2"))
        BY <4>1, Zenon DEF StatusChar
      <4> QED
        BY <1>6, <4>1, <4>2 DEF Expect
    <3>2. CASE n = 1
      <4>1. x.st = "STATUS_2" /\ StatusStates[n + 2] = "STATUS_3"
        BY <1>1, <3>2 DEF StatusStates
      <4>2. StatusChar(x, c) = Expect(x, IsDigit(c), Store(x, c, "STATUS_3"))
        BY <4>1, Zenon DEF StatusChar
      <4> QED
        BY <1>6, <4>1, <4>2 DEF Expect
    <3>3. n = 0 \/ n = 1
      <4> HIDE DEF n
      <4> QED
        BY <1>1, <1>8
    <3> QED
      BY <3>1, <3>2, <3>3
  <2>2. Onto(x, y, {"st", "tmp"}, {}) /\ y.st = StatusStates[n + 2] /\ y.tmp = s2
    <3>1. y.tmp = Append(x.tmp, c)
      BY BegunStore
    <3>2. Onto(x, y, {"st", "tmp"}, {}) /\ y.st = StatusStates[n + 2]
      BY BegunStore
    <3> QED
      BY <1>5, <3>1, <3>2, Zenon DEF s
  <2> HIDE DEF y
  <2>3. VersionHeard(y, q) /\ Begun(y) /\ y.rc = 0 /\ ~y.done /\ y.http.request = x.http.request
    BY <1>1, <2>2 DEF Onto, Begun, VersionHeard, LineFields
  <2>4. ToStatus(y, v, q)
    <3>1. Len(s2) \in 0 .. 2 /\ n + 2 = Len(s2) + 1
      <4> HIDE DEF n
      <4> QED
        BY <1>1, <1>4, <1>8
    <3> QED
      BY <1>4, <2>2, <2>3, <3>1, Zenon DEF ToStatus, t, b
  <2>5. InReply(y, v, q)
    BY <2>3, <2>4 DEF InReply
  <2> QED
    BY <1>5, <1>7, <2>1, <2>3, <2>5, Zenon DEF Proceeds
<1>9. CASE n = 2
  <2> DEFINE none == <<>>
             k == q.status
             w == Updated(x, "tmp", none)
             z == Goto(w, "SEP2")
             y == Written(z, "status", k)
  <2>1. s2 = t /\ v = b
    <3>1. Len(s2) = Len(t)
      BY <1>2, <1>4, <1>9
    <3> QED
      BY <1>4, <3>1, Ended
  <2>2. StatusChar(x, c) = y
    <3> DEFINE known == {j \in Statuses : StatusText(j) = Append(x.tmp, c)}
               ok == known # {}
               got == [x EXCEPT !.tmp = <<>>, !.st = "SEP2",
                                !.http.response.status = CHOOSE j \in known : TRUE]
    <3>1. known = {k}
      <4>1. Append(x.tmp, c) = StatusText(k)
        BY <1>5, <2>1, Zenon DEF s, t
      <4>2. {j \in Statuses : StatusText(j) = StatusText(k)} = {k}
        BY <1>1, StatusDigits
      <4> HIDE DEF Statuses, StatusText
      <4> QED
        BY <4>1, <4>2
    <3>2. x.st = "STATUS_3"
      BY <1>1, <1>9 DEF StatusStates
    <3>3. StatusChar(x, c) = Expect(x, ok, got)
      <4>1. "STATUS_3" # "SEP1" /\ "STATUS_3" # "STATUS_1" /\ "STATUS_3" # "STATUS_2"
        OBVIOUS
      <4> QED
        BY <3>2, <4>1, Zenon DEF StatusChar
    <3> HIDE DEF known, k
    <3>4. (CHOOSE j \in {k} : TRUE) = k /\ {k} # {}
      OBVIOUS
    <3>5. (CHOOSE j \in known : TRUE) = k /\ ok
      BY <3>1, <3>4
    <3>6. got = y
      BY <3>5 DEF Goto, Updated, Written, Begun, Heard, ParserFields
    <3> HIDE DEF got, ok, y
    <3> QED
      BY <3>3, <3>5, <3>6, Zenon DEF Expect
  <2> HIDE DEF none, k
  <2>3. Onto(x, w, {"tmp"}, {})
    BY BegunField
  <2> HIDE DEF w
  <2>4. Onto(w, z, {"st"}, {}) /\ z.st = "SEP2"
    BY <2>3, BegunGoto DEF Onto
  <2> HIDE DEF z
  <2>5. Onto(z, y, {}, {"status"}) /\ y.http.response["status"] = k
    <3>1. Begun(z)
      BY <2>4 DEF Onto
    <3> QED
      BY <3>1, BegunPut
  <2> HIDE DEF y
  <2>6. y.st = "SEP2" /\ y.http.request = x.http.request /\ Begun(y) /\ y.rc = 0 /\ ~y.done
        /\ y.http.response.version = x.http.response.version
    BY <2>3, <2>4, <2>5 DEF Onto, Begun, LineFields
  <2>7. ToReason(y, v, q)
    <3>1. StatusHeard(y, q)
      BY <1>1, <2>5, <2>6 DEF StatusHeard, VersionHeard, k
    <3> QED
      BY <2>1, <2>6, <3>1, Zenon DEF ToReason, b
  <2>8. InReply(y, v, q)
    BY <2>6, <2>7 DEF InReply
  <2> QED
    BY <1>5, <1>7, <2>2, <2>6, <2>8, Zenon DEF Proceeds
<1> QED
  BY <1>8, <1>9

LEMMA ReasonProceeds ==
  ASSUME NEW q, NEW m, GoodReply(q, m), NEW x, Begun(x), NEW u, ToReason(x, u, q)
  PROVE  Proceeds(x, u, q)
<1> DEFINE r == Sample(q.headers)
           t == ReasonPhrase(q.status)
           b == LineEnd(r, 0)
           f == <<"\n">> \o BehindLines(r, 0)
           s == x.http.response.reason
           none == <<>>
<1>1. StatusHeard(x, q) /\ x.side = "response" /\ q.status \in Statuses
  BY DEF ToReason, Begun, Heard, GoodReply
<1>2. IsSeq(t) /\ FreeOf(t, {"\r"})
  BY <1>1, PhraseSeq, PhraseFree
<1>3. IsSeq(b) /\ IsSeq(f) /\ IsSeq(t \o b)
  BY ReplySeqs
<1>4. b = <<"\r">> \o f
  BY Zenon DEF LineEnd
<1>5. CASE x.st = "SEP2" /\ u = BehindStatus(q)
  <2> DEFINE z == Goto(x, "REASON")
             y == Written(z, "reason", none)
             v == t \o b
  <2>1. HeadChar(x, SP) = y
    <3> DEFINE got == [x EXCEPT !.st = "REASON", !.http.response.reason = <<>>]
    <3>1. HeadChar(x, SP) = ReasonChar(x, SP)
      BY <1>1, <1>5, ResponseDispatch
    <3>2. ReasonChar(x, SP) = Expect(x, SP = SP, got)
      BY <1>5, Zenon DEF ReasonChar
    <3>3. got = y
      BY DEF Goto, Written, Begun, Heard, ParserFields
    <3> HIDE DEF got, y
    <3> QED
      BY <3>1, <3>2, <3>3 DEF Expect
  <2> HIDE DEF none
  <2>2. Onto(x, z, {"st"}, {}) /\ z.st = "REASON"
    BY BegunGoto
  <2> HIDE DEF z
  <2>3. Onto(z, y, {}, {"reason"}) /\ y.http.response["reason"] = none
    <3>1. Begun(z)
      BY <2>2 DEF Onto
    <3> QED
      BY <3>1, BegunPut
  <2> HIDE DEF y
  <2>4. y.st = "REASON" /\ y.http.request = x.http.request /\ Begun(y) /\ y.rc = 0 /\ ~y.done
        /\ y.http.response.reason = none
    BY <2>2, <2>3 DEF Onto, Begun
  <2>5. StatusHeard(y, q)
    BY <1>1, <2>2, <2>3 DEF Onto, StatusHeard, VersionHeard, LineFields
  <2>6. Reading(none, v, t, b)
    <3> HIDE DEF t, b
    <3> QED
      BY <1>2, <1>3, Begins DEF none
  <2>7. ToReason(y, v, q)
    <3> HIDE DEF v, none
    <3> QED
      BY <2>4, <2>5, <2>6, Zenon DEF ToReason, t, b, r
  <2>8. InReply(y, v, q)
    BY <2>4, <2>7 DEF InReply
  <2>9. u # <<>> /\ Head(u) = SP /\ Tail(u) = v
    <3>1. u = <<SP>> \o v
      BY <1>5, Zenon DEF BehindStatus
    <3>2. IsSeq(v)
      BY <1>3
    <3> HIDE DEF v
    <3> QED
      BY <3>1, <3>2, MarkOff
  <2> QED
    BY <2>1, <2>4, <2>8, <2>9, Zenon DEF Proceeds
<1>6. CASE x.st = "REASON" /\ Reading(s, u, t, b)
  <2>1. CASE s = t /\ u = b
    <3> DEFINE y == Goto(x, "TITLE_CR")
    <3>1. HeadChar(x, "\r") = y
      <4>1. HeadChar(x, "\r") = ReasonChar(x, "\r")
        BY <1>1, <1>6, ResponseDispatch
      <4>2. ReasonChar(x, "\r") = y
        <5>1. "REASON" # "SEP2"
          OBVIOUS
        <5> QED
          BY <1>6, <5>1, Zenon DEF ReasonChar
      <4> QED
        BY <4>1, <4>2
    <3>2. Onto(x, y, {"st"}, {}) /\ y.st = "TITLE_CR"
      BY BegunGoto
    <3> HIDE DEF y
    <3>3. y.http.request = x.http.request /\ Begun(y) /\ y.rc = 0 /\ ~y.done
          /\ y.http.response.reason = s
      BY <3>2 DEF Onto, Begun, LineFields
    <3>4. StatusHeard(y, q)
      BY <1>1, <3>2 DEF Onto, StatusHeard, VersionHeard, LineFields
    <3>5. LineHeard(y, q)
      BY <2>1, <3>3, <3>4 DEF LineHeard
    <3> HIDE DEF s
    <3>6. ToHeaders(y, f, q)
      BY <3>2, <3>5, Zenon DEF ToHeaders, f, r
    <3>7. InReply(y, f, q)
      BY <3>3, <3>6 DEF InReply
    <3>8. u # <<>> /\ Head(u) = "\r" /\ Tail(u) = f
      <4>1. u = <<"\r">> \o f
        BY <1>4, <2>1
      <4> HIDE DEF f
      <4> QED
        BY <1>3, <4>1, MarkOff
    <3> QED
      BY <3>1, <3>3, <3>7, <3>8, Zenon DEF Proceeds
  <2>2. CASE \E c, s2, v : More(s, u, t, b, c, s2, v)
    <3>1. PICK c, s2, v : More(s, u, t, b, c, s2, v)
      BY <2>2
    <3>2. Reading(s2, v, t, b) /\ s2 = Append(s, c) /\ u # <<>> /\ Head(u) = c /\ Tail(u) = v
      BY <3>1, Zenon DEF More
    <3>3. c # "\r"
      <4> HIDE DEF t, b, s
      <4>1. c \notin {"\r"}
        BY <1>2, <3>1, MoreIsNot
      <4> QED
        BY <4>1
    <3> DEFINE y == Written(x, "reason", s2)
    <3>4. HeadChar(x, c) = y
      <4> DEFINE got == [x EXCEPT !.http.response.reason = Append(@, c)]
      <4>1. HeadChar(x, c) = ReasonChar(x, c)
        BY <1>1, <1>6, ResponseDispatch
      <4>2. ReasonChar(x, c) = got
        <5>1. "REASON" # "SEP2"
          OBVIOUS
        <5> QED
          BY <1>6, <3>3, <5>1, Zenon DEF ReasonChar
      <4>3. got = y
        BY <3>2, Zenon DEF Written
      <4> QED
        BY <4>1, <4>2, <4>3
    <3>5. Onto(x, y, {}, {"reason"}) /\ y.http.response["reason"] = s2
      BY BegunPut
    <3> HIDE DEF y
    <3>6. y.http.request = x.http.request /\ Begun(y) /\ y.rc = 0 /\ ~y.done
          /\ y.http.response.reason = s2 /\ y.st = x.st
      BY <3>5 DEF Onto, Begun
    <3>7. StatusHeard(y, q)
      BY <1>1, <3>5 DEF Onto, StatusHeard, VersionHeard, LineFields
    <3>8. ToReason(y, v, q)
      <4>1. y.st = "REASON" /\ Reading(y.http.response.reason, v, t, b)
        BY <1>6, <3>2, <3>6
      <4> QED
        BY <3>7, <4>1, Zenon DEF ToReason, t, b, r
    <3>9. InReply(y, v, q)
      BY <3>6, <3>8 DEF InReply
    <3> QED
      BY <3>2, <3>4, <3>6, <3>9, Zenon DEF Proceeds
  <2> HIDE DEF s, t, b
  <2> QED
    BY <1>6, <2>1, <2>2, ReadMore
<1>7. \/ x.st = "SEP2" /\ u = BehindStatus(q)
      \/ x.st = "REASON" /\ Reading(s, u, t, b)
  BY Zenon DEF ToReason
<1> QED
  BY <1>5, <1>6, <1>7

(* The first character of the first header: from here on the parser of a    *)
(* request would read the same.                                             *)
LEMMA FirstName ==
  ASSUME NEW q, NEW m, GoodReply(q, m), NEW x, Begun(x), NEW u, x.st = "TITLE_LF",
         u = BehindLines(Sample(q.headers), 0)
  PROVE  LET y == HeadChar(x, Head(u))
         IN /\ u # <<>> /\ Onto(x, y, {"st", "name", "value"}, {})
            /\ ReplyHeaders(y, Tail(u), q.headers)
<1> DEFINE r == Sample(q.headers)
           h == r.headers[0 + 1]
           t == h.name
           b == <<":">> \o (<<SP>> \o (h.value \o LineEnd(r, 0 + 1)))
<1>1. r.headers = q.headers /\ Readable(r) /\ x.side = "response"
  BY SampleReads DEF GoodReply, Begun, Heard
<1>2. 0 \in 0 .. Len(r.headers) - 1
  <2> HIDE DEF r
  <2>1. HeadersReadable(r.headers)
    BY <1>1, Zenon DEF Readable
  <2> DEFINE n == Len(r.headers)
  <2>2. n \in Nat
    BY <2>1, LinesLeft
  <2>3. n # 0
    BY <2>1 DEF HeadersReadable
  <2> HIDE DEF n
  <2>4. 0 \in 0 .. n - 1
    BY <2>2, <2>3
  <2> QED
    BY <2>4 DEF n
<1>3. HeaderReadable(h) /\ IsSeq(t) /\ IsSeq(b) /\ u = t \o b
  <2> HIDE DEF r
  <2> QED
    BY <1>1, <1>2, HeaderParts DEF r
<1>4. Reading(<<>>, u, t, b)
  <2> HIDE DEF t, b, h, r
  <2>1. IsSeq(t) /\ IsSeq(b)
    BY <1>3
  <2> QED
    BY <1>3, <2>1, Begins
<1>5. Len(t) # 0 /\ \A i \in 1 .. Len(t) : IsNameChar(t[i])
  BY <1>3 DEF HeaderReadable
<1> HIDE DEF b, t, h, r
<1>6. PICK c, s2, v : More(<<>>, u, t, b, c, s2, v)
  <2> DEFINE none == <<>>
  <2>1. Len(none) = 0
    BY EmptyIsSeq
  <2> HIDE DEF none
  <2>2. none # t
    BY <1>5, <2>1
  <2>3. Reading(none, u, t, b)
    BY <1>4 DEF none
  <2>4. \E c, s2, v : More(none, u, t, b, c, s2, v)
    BY <2>2, <2>3, ReadMore
  <2> QED
    BY <2>4 DEF none
<1>7. /\ Reading(s2, v, t, b) /\ s2 = Append(<<>>, c) /\ u # <<>> /\ Head(u) = c /\ Tail(u) = v
      /\ IsNameChar(c)
  <2>1. Reading(s2, v, t, b) /\ s2 = Append(<<>>, c) /\ u # <<>> /\ Head(u) = c /\ Tail(u) = v
    BY <1>6, Zenon DEF More
  <2> DEFINE none == <<>>
  <2>2. c = t[Len(none) + 1] /\ Len(none) + 1 \in 1 .. Len(t)
    BY <1>6, MoreIs
  <2> QED
    BY <1>5, <2>1, <2>2
<1>8. s2 = <<c>>
  BY <1>7
<1> DEFINE none == <<>>
           z == Goto(x, "HEADER_NAME")
           w == Updated(z, "name", s2)
           y == Updated(w, "value", none)
<1>9. HeadChar(x, c) = y
  <2> DEFINE got == [x EXCEPT !.st = "HEADER_NAME", !.name = <<c>>, !.value = <<>>]
             ok == IsNameChar(c)
  <2>1. HeadChar(x, c) = ReasonChar(x, c)
    BY <1>1, ResponseDispatch
  <2>2. ReasonChar(x, c) = Expect(x, ok, got)
    <3>1. "TITLE_LF" # "SEP2" /\ "TITLE_LF" # "REASON" /\ "TITLE_LF" # "TITLE_CR"
      OBVIOUS
    <3> QED
      BY <3>1, Zenon DEF ReasonChar
  <2>3. got = y
    <3>1. x = [g \in ParserFields |-> x[g]]
      BY DEF Begun, Heard
    <3> QED
      BY <1>8, <3>1 DEF Goto, Updated, ParserFields
  <2>4. ok
    BY <1>7
  <2> HIDE DEF got, ok, y
  <2> QED
    BY <2>1, <2>2, <2>3, <2>4 DEF Expect
<1> HIDE DEF none
<1>10. Onto(x, z, {"st"}, {}) /\ z.st = "HEADER_NAME"
  BY BegunGoto
<1> HIDE DEF z
<1>11. Onto(z, w, {"name"}, {}) /\ w["name"] = s2
  <2>1. Begun(z)
    BY <1>10 DEF Onto
  <2> QED
    BY <2>1, BegunField
<1> HIDE DEF w
<1>12. Onto(w, y, {"value"}, {}) /\ y["value"] = none
  <2>1. Begun(w)
    BY <1>11 DEF Onto
  <2> QED
    BY <2>1, BegunField
<1> HIDE DEF y
<1>13. Onto(x, y, {"st", "name", "value"}, {})
  BY <1>10, <1>11, <1>12 DEF Onto
<1>14. y.st = "HEADER_NAME" /\ y.name = s2 /\ y.value = none
  BY <1>10, <1>11, <1>12 DEF Onto
<1> DEFINE p == Sample(none)
           k == [g \in HttpFields |-> IF g = "request" THEN p ELSE y.http[g]]
           d == [g \in ParserFields |-> IF g = "side" THEN "request" ELSE IF g = "http" THEN k ELSE y[g]]
<1>15. Begun(y)
  BY <1>13 DEF Onto
<1>16. /\ p = [g \in RequestFields |-> p[g]] /\ p.headers = none /\ p.body = none
       /\ p.command = r.command /\ p.url = r.url /\ p.version = r.version
       /\ p.query = r.query
  BY DEF Sample, RequestFields, none, r
<1> HIDE DEF p
<1>17. /\ ShapedHttp(k) /\ k.request = p /\ k.chunked = y.http.chunked /\ k.chunk = y.http.chunk
  <2>0. {"request", "chunked", "chunk"} \subseteq HttpFields
    BY DEF HttpFields
  <2>1. k.request = p /\ k.chunked = y.http.chunked /\ k.chunk = y.http.chunk
        /\ k = [g \in HttpFields |-> k[g]]
    BY <2>0
  <2> HIDE DEF k
  <2> QED
    BY <1>16, <2>1 DEF ShapedHttp
<1> HIDE DEF k
<1>18. /\ d = [g \in ParserFields |-> d[g]] /\ d.side = "request" /\ d.http = k
       /\ \A g \in ParserFields \ {"side", "http"} : d[g] = y[g]
  BY DEF ParserFields
<1> HIDE DEF d
<1>19. Twins(y, d)
  <2>1. Shaped(d)
    BY <1>17, <1>18 DEF Shaped
  <2>2. /\ d.http.request.headers = y.http.response.headers
        /\ d.http.request.body = y.http.response.body
    BY <1>15, <1>16, <1>17, <1>18 DEF Begun, none
  <2> QED
    BY <1>15, <1>17, <1>18, <2>1, <2>2 DEF Twins, Begun
<1>20. /\ d.rc = 0 /\ ~d.done /\ d.digits = <<>> /\ d.st = "HEADER_NAME" /\ d.name = s2
       /\ d.value = none
  BY <1>14, <1>15, <1>18 DEF Begun, ParserFields
<1>21. Waiting(d) /\ ~d.done
  <2>1. d.http.chunked = FALSE /\ d.http.chunk = NoChunks /\ d.http.request.body = <<>>
    BY <1>15, <1>16, <1>17, <1>18 DEF Begun, none
  <2> QED
    BY <1>19, <1>20, <2>1 DEF Twins, Waiting
<1>22. AtHeader(d, v, r, FALSE)
  <2>1. LineRead(d, r, FALSE)
    BY <1>16, <1>17, <1>18 DEF LineRead, TargetRead, Got
  <2>2. d.http.request.headers = Newest(r.headers, 0)
    BY <1>16, <1>17, <1>18, NewestNone DEF none
  <2>3. AtName(d, v, r, 0)
    BY <1>7, <1>20, Zenon DEF AtName, none, t, b, h
  <2> QED
    BY <1>2, <2>1, <2>2, <2>3 DEF AtHeader
<1>23. InHead(d, v, r, FALSE)
  BY <1>21, <1>22 DEF InHead
<1>24. ReplyHeaders(y, v, q.headers)
  <2>1. y.st \in HeaderStates
    BY <1>14 DEF HeaderStates
  <2> QED
    BY <1>19, <1>23, <2>1 DEF ReplyHeaders, r
<1> QED
  BY <1>7, <1>9, <1>13, <1>24

LEMMA HeadersProceed ==
  ASSUME NEW q, NEW m, GoodReply(q, m), NEW x, Begun(x), NEW u, ToHeaders(x, u, q)
  PROVE  Proceeds(x, u, q)
<1> DEFINE l == BehindLines(Sample(q.headers), 0)
<1>1. LineHeard(x, q) /\ x.side = "response"
  BY DEF ToHeaders, Begun, Heard
<1>2. \A y, P : Onto(x, y, P, {}) => /\ LineHeard(y, q) /\ y.http.request = x.http.request
                                     /\ y.rc = 0 /\ ~y.done
  BY <1>1 DEF Onto, Begun, LineHeard, StatusHeard, VersionHeard, LineFields
<1>3. IsSeq(l)
  BY ReplySeqs
<1>4. CASE x.st = "TITLE_CR" /\ u = <<"\n">> \o l
  <2> DEFINE y == Goto(x, "TITLE_LF")
  <2>1. HeadChar(x, "\n") = y
    <3>1. HeadChar(x, "\n") = ReasonChar(x, "\n")
      BY <1>1, <1>4, ResponseDispatch
    <3>2. ReasonChar(x, "\n") = Expect(x, "\n" = "\n", y)
      <4>1. "TITLE_CR" # "SEP2" /\ "TITLE_CR" # "REASON"
        OBVIOUS
      <4> QED
        BY <1>4, <4>1, Zenon DEF ReasonChar
    <3> QED
      BY <3>1, <3>2 DEF Expect
  <2>2. Onto(x, y, {"st"}, {}) /\ y.st = "TITLE_LF"
    BY BegunGoto
  <2> HIDE DEF y
  <2>3. LineHeard(y, q) /\ y.http.request = x.http.request /\ y.rc = 0 /\ ~y.done /\ Begun(y)
    BY <1>2, <2>2 DEF Onto
  <2>4. InReply(y, l, q)
    BY <2>2, <2>3 DEF InReply, ToHeaders
  <2> HIDE DEF l
  <2>5. u # <<>> /\ Head(u) = "\n" /\ Tail(u) = l
    BY <1>3, <1>4, MarkOff
  <2> QED
    BY <2>1, <2>3, <2>4, <2>5, Zenon DEF Proceeds
<1>5. CASE x.st = "TITLE_LF" /\ u = l
  <2> DEFINE y == HeadChar(x, Head(u))
  <2>1. /\ u # <<>> /\ Onto(x, y, {"st", "name", "value"}, {})
        /\ ReplyHeaders(y, Tail(u), q.headers)
    BY <1>5, FirstName
  <2> HIDE DEF y
  <2>2. LineHeard(y, q) /\ y.http.request = x.http.request /\ y.rc = 0 /\ ~y.done
    BY <1>2, <2>1
  <2>3. InReply(y, Tail(u), q)
    BY <2>1, <2>2 DEF InReply
  <2> QED
    BY <2>1, <2>2, <2>3 DEF Proceeds, y
<1>6. (x.st = "TITLE_CR" /\ u = <<"\n">> \o l) \/ (x.st = "TITLE_LF" /\ u = l)
  BY DEF ToHeaders
<1> QED
  BY <1>4, <1>5, <1>6

(* A character of the head of a reply. *)
LEMMA ReplyGoesOn ==
  ASSUME NEW q, NEW m, GoodReply(q, m), NEW x, NEW u, InReply(x, u, q)
  PROVE  LET y == HeadChar(x, Head(u))
         IN /\ u # <<>> /\ y.rc = 0 /\ y.http.request = x.http.request
            /\ ~y.done => InReply(y, Tail(u), q)
            /\ y.done => Tail(u) = <<>> /\ LineHeard(y, q) /\ HeadersHeard(y, q.headers)
<1> DEFINE y == HeadChar(x, Head(u))
<1>1. CASE Begun(x) /\ \/ ToVersion(x, u, q) \/ ToBlank(x, u, q) \/ ToStatus(x, u, q)
                       \/ ToReason(x, u, q) \/ ToHeaders(x, u, q)
  <2>1. Proceeds(x, u, q)
    BY <1>1, VersionProceeds, BlankProceeds, StatusProceeds, ReasonProceeds, HeadersProceed
  <2> QED
    BY <2>1 DEF Proceeds
<1>2. CASE LineHeard(x, q) /\ ReplyHeaders(x, u, q.headers)
  <2>1. /\ u # <<>> /\ y.rc = 0 /\ Told(x, y)
        /\ y.done => Tail(u) = <<>> /\ HeadersHeard(y, q.headers)
        /\ ~y.done => ReplyHeaders(y, Tail(u), q.headers)
    <3>1. HeadersReadable(q.headers)
      BY DEF GoodReply
    <3> QED
      BY <1>2, <3>1, HeadersGoOn
  <2> HIDE DEF y
  <2>2. LineHeard(y, q) /\ y.http.request = x.http.request
    BY <1>2, <2>1 DEF Told, LineFields, LineHeard, StatusHeard, VersionHeard
  <2> QED
    BY <2>1, <2>2 DEF InReply, y
<1> QED
  BY <1>1, <1>2 DEF InReply

-----------------------------------------------------------------------------
(* The chunks of a response, read as those of a request. *)
Rechunk(x, k) == [x EXCEPT !.http.chunk = k]

LEMMA TogetherThen ==
  ASSUME NEW x, NEW y, NEW u, NEW z, NEW w, Together(x, y, u), Together(y, z, w)
  PROVE  Together(x, z, w)
BY ToldOn DEF Together

LEMMA BothRechunk ==
  ASSUME NEW x, NEW t, Twins(x, t), NEW k
  PROVE  Together(x, Rechunk(x, k), Rechunk(t, k)) /\ Rechunk(x, k).http.chunk = k
<1> DEFINE y == Rehttp(x, "chunk", k)
           u == Rehttp(t, "chunk", k)
<1>1. Rechunk(x, k) = y /\ Rechunk(t, k) = u
  BY DEF Rechunk, Rehttp
<1>2. Twins(y, u) /\ Told(x, y) /\ y.http["chunk"] = k
  <2>1. Twins(x, t) /\ "chunk" \in {"chunk", "chunked"}
    OBVIOUS
  <2> HIDE DEF y, u
  <2>2. y = Rehttp(x, "chunk", k) /\ u = Rehttp(t, "chunk", k)
    BY DEF y, u
  <2> QED
    BY ONLY <2>1, <2>2, TwinsHttp
<1> HIDE DEF y, u
<1>3. Together(x, y, u) /\ y.http.chunk = k
  BY <1>2 DEF Together
<1> QED
  BY <1>1, <1>3, Zenon

LEMMA BothChunkGoto ==
  ASSUME NEW x, NEW t, Twins(x, t), NEW st
  PROVE  Together(x, ChunkGoto(x, st), ChunkGoto(t, st))
<1> DEFINE k == [x.http.chunk EXCEPT !.st = st]
<1>1. t.http.chunk = x.http.chunk
  BY DEF Twins
<1>2. ChunkGoto(x, st) = [x EXCEPT !.http.chunk = k]
  BY Zenon DEF ChunkGoto
<1>3. ChunkGoto(t, st) = [t EXCEPT !.http.chunk = k]
  <2>1. ChunkGoto(t, st) = [t EXCEPT !.http.chunk = [t.http.chunk EXCEPT !.st = st]]
    BY Zenon DEF ChunkGoto
  <2> QED
    BY <1>1, <2>1, Zenon
<1> HIDE DEF k
<1>4. Together(x, Rechunk(x, k), Rechunk(t, k))
  BY BothRechunk
<1> QED
  BY <1>2, <1>3, <1>4, Zenon DEF Rechunk

LEMMA BothDigits ==
  ASSUME NEW x, NEW y, NEW u, Together(x, y, u), NEW v
  PROVE  Together(x, Updated(y, "digits", v), Updated(u, "digits", v))
<1> DEFINE z == Updated(y, "digits", v)
           w == Updated(u, "digits", v)
<1>1. z = [y EXCEPT !["digits"] = v] /\ w = [u EXCEPT !["digits"] = v]
      /\ "digits" \in ParserFields \ {"side", "http"}
  BY DEF Updated, ParserFields
<1> HIDE DEF z, w
<1>2. Together(x, z, w)
  BY <1>1, TogetherOn
<1> QED
  BY <1>2 DEF z, w

LEMMA BothDigit ==
  ASSUME NEW x, NEW t, Twins(x, t), NEW c
  PROVE  Together(x, Digit(x, c), Digit(t, c))
<1> DEFINE y == ChunkGoto(x, "CHUNK_SIZE")
           u == ChunkGoto(t, "CHUNK_SIZE")
<1>1. Together(x, y, u)
  BY BothChunkGoto
<1>2. Digit(x, c) = [y EXCEPT !.digits = Append(y.digits, c)]
      /\ Digit(t, c) = [u EXCEPT !.digits = Append(u.digits, c)]
  BY Zenon DEF Digit
<1> HIDE DEF y, u
<1>3. u.digits = y.digits
  BY <1>1 DEF Together, Twins, ParserFields
<1> DEFINE v == Append(y.digits, c)
<1>4. Digit(x, c) = Updated(y, "digits", v) /\ Digit(t, c) = Updated(u, "digits", v)
  BY <1>2, <1>3, Zenon DEF Updated
<1> HIDE DEF v
<1>5. Together(x, Updated(y, "digits", v), Updated(u, "digits", v))
  BY <1>1, BothDigits
<1> QED
  BY <1>4, <1>5, Zenon

LEMMA BothData ==
  ASSUME NEW x, NEW t, Twins(x, t), NEW c
  PROVE  Together(x, Data(x, c), Data(t, c))
<1> DEFINE k == [x.http.chunk EXCEPT !.got = @ + 1]
           y == Rechunk(x, k)
           u == Rechunk(t, k)
<1>1. x.side = "response" /\ t.side = "request" /\ t.http.chunk = x.http.chunk
  BY DEF Twins, Heard, Shaped
<1>2. Together(x, y, u)
  BY BothRechunk
<1>3. Data(x, c) = [y EXCEPT !.http.response.body = Append(@, c)]
  <2>1. Data(x, c) = [x EXCEPT !.http.chunk.got = @ + 1, !.http["response"].body = Append(@, c)]
    BY <1>1, Zenon DEF Data
  <2>2. @ = [[x EXCEPT !.http.chunk.got = @ + 1] EXCEPT !.http["response"].body = Append(@, c)]
    OBVIOUS
  <2>3. [x EXCEPT !.http.chunk.got = @ + 1] = y
    BY Zenon DEF Rechunk
  <2> HIDE DEF y
  <2> QED
    BY <2>1, <2>2, <2>3, Zenon
<1>4. Data(t, c) = [u EXCEPT !.http.request.body = Append(@, c)]
  <2>1. Data(t, c) = [t EXCEPT !.http.chunk.got = @ + 1, !.http["request"].body = Append(@, c)]
    BY <1>1, Zenon DEF Data
  <2>2. @ = [[t EXCEPT !.http.chunk.got = @ + 1] EXCEPT !.http["request"].body = Append(@, c)]
    OBVIOUS
  <2>3. [t EXCEPT !.http.chunk.got = @ + 1] = u
    BY <1>1, Zenon DEF Rechunk
  <2> HIDE DEF u
  <2> QED
    BY <2>1, <2>2, <2>3, Zenon
<1> HIDE DEF y, u
<1>5. Twins(y, u) /\ u.http.request.body = y.http.response.body
  BY <1>2 DEF Together, Twins
<1> DEFINE v == Append(y.http.response.body, c)
           z == [y EXCEPT !.http.response["body"] = v]
           w == Put(u, "body", v)
<1>6. Data(x, c) = z
  BY <1>3, Zenon
<1>7. Data(t, c) = w
  <2>1. Data(t, c) = [u EXCEPT !.http.request.body = Append(u.http.request.body, c)]
    BY <1>4, Zenon
  <2> QED
    BY <1>5, <2>1, Zenon DEF Put
<1> HIDE DEF v
<1>8. Twins(z, w) /\ Told(y, z)
  <2>1. "body" \in {"headers", "body"}
    OBVIOUS
  <2> HIDE DEF z, w
  <2>2. z = [y EXCEPT !.http.response["body"] = v] /\ w = Put(u, "body", v)
    BY DEF z, w
  <2> QED
    BY ONLY <1>5, <2>1, <2>2, TwinsPut
<1> HIDE DEF z, w
<1>9. Together(x, z, w)
  BY <1>2, <1>8, TogetherThen DEF Together
<1> QED
  BY <1>6, <1>7, <1>9, Zenon

LEMMA BadChunk ==
  ASSUME NEW t, Shaped(t), NEW n
  PROVE  ChunkBad(t, n).rc # 0
<1> DEFINE h == IF t.side = "request" THEN Refusal(t.http, n, 10) ELSE t.http
<1>1. ChunkBad(t, n) = [t EXCEPT !.rc = EERIS_DATA, !.http = h]
  BY Zenon DEF ChunkBad
<1> HIDE DEF h
<1>2. t = [f \in ParserFields |-> t[f]] /\ "rc" \in ParserFields
  BY DEF Shaped, ParserFields
<1>3. [t EXCEPT !.rc = EERIS_DATA, !.http = h].rc = EERIS_DATA
  BY <1>2
<1>4. EERIS_DATA # 0
  BY DEF EERIS_DATA
<1> QED
  BY <1>1, <1>3, <1>4

LEMMA BothNeeds ==
  ASSUME NEW x, NEW t, Twins(x, t), NEW ok, NEW y, NEW u, ok => Together(x, y, u),
         ChunkNeeds(t, ok, u).rc = 0
  PROVE  Together(x, ChunkNeeds(x, ok, y), ChunkNeeds(t, ok, u))
<1>0. ASSUME NEW n PROVE ChunkBad(t, n).rc # 0
  BY BadChunk DEF Twins
<1>1. CASE ok
  <2>1. ChunkNeeds(x, ok, y) = y /\ ChunkNeeds(t, ok, u) = u
    BY <1>1 DEF ChunkNeeds
  <2> QED
    BY <1>1, <2>1
<1>2. CASE ~ok
  <2>1. ChunkNeeds(t, ok, u) = ChunkBad(t, 400)
    BY <1>2 DEF ChunkNeeds
  <2> QED
    BY <1>0, <2>1
<1> QED
  BY <1>1, <1>2

ChunkStates ==
  {"CHUNKED", "CHUNK_SIZE", "EXT_NAME", "EXT_VALUE", "CR1", "LF1", "CR2", "TRAILER_NAME",
   "TRAILER_VALUE", "DATA", "DATA_CR", "DATA_LF"}

LEMMA ChunkPicks ==
  ASSUME NEW x, NEW st, x.http.chunk.st = st, NEW c
  PROVE  /\ st = "CHUNKED" => ChunkChar(x, c) = FirstDigit(x, c)
         /\ st = "CHUNK_SIZE" => ChunkChar(x, c) = SizeChar(x, c)
         /\ st = "EXT_NAME" => ChunkChar(x, c) = ExtNameChar(x, c)
         /\ st = "EXT_VALUE" => ChunkChar(x, c) = ExtValueChar(x, c)
         /\ st = "CR1" => ChunkChar(x, c) = SizeEndChar(x, c)
         /\ st = "LF1" => ChunkChar(x, c) = FirstDataChar(x, c)
         /\ st = "CR2" => ChunkChar(x, c) = EndChar(x, c)
         /\ st = "TRAILER_NAME" => ChunkChar(x, c) = TrailerNameChar(x, c)
         /\ st = "TRAILER_VALUE" => ChunkChar(x, c) = TrailerValueChar(x, c)
         /\ st = "DATA" => ChunkChar(x, c) = DataChar(x, c)
         /\ st = "DATA_CR" => ChunkChar(x, c) = DataCrChar(x, c)
         /\ st = "DATA_LF" => ChunkChar(x, c) = NextChunkChar(x, c)
         /\ st \notin ChunkStates => ChunkChar(x, c) = BehindEndChar(x, c)
<1>1. st = "CHUNKED" => ChunkChar(x, c) = FirstDigit(x, c)
  BY Zenon DEF ChunkChar
<1>2. st = "CHUNK_SIZE" => ChunkChar(x, c) = SizeChar(x, c)
  BY Zenon DEF ChunkChar
<1>3. st = "EXT_NAME" => ChunkChar(x, c) = ExtNameChar(x, c)
  BY Zenon DEF ChunkChar
<1>4. st = "EXT_VALUE" => ChunkChar(x, c) = ExtValueChar(x, c)
  BY Zenon DEF ChunkChar
<1>5. st = "CR1" => ChunkChar(x, c) = SizeEndChar(x, c)
  BY Zenon DEF ChunkChar
<1>6. st = "LF1" => ChunkChar(x, c) = FirstDataChar(x, c)
  BY Zenon DEF ChunkChar
<1>7. st = "CR2" => ChunkChar(x, c) = EndChar(x, c)
  BY Zenon DEF ChunkChar
<1>8. st = "TRAILER_NAME" => ChunkChar(x, c) = TrailerNameChar(x, c)
  BY Zenon DEF ChunkChar
<1>9. st = "TRAILER_VALUE" => ChunkChar(x, c) = TrailerValueChar(x, c)
  BY Zenon DEF ChunkChar
<1>10. st = "DATA" => ChunkChar(x, c) = DataChar(x, c)
  BY Zenon DEF ChunkChar
<1>11. st = "DATA_CR" => ChunkChar(x, c) = DataCrChar(x, c)
  BY Zenon DEF ChunkChar
<1>12. st = "DATA_LF" => ChunkChar(x, c) = NextChunkChar(x, c)
  BY Zenon DEF ChunkChar
<1>13. st \notin ChunkStates => ChunkChar(x, c) = BehindEndChar(x, c)
  <2> SUFFICES ASSUME st \notin ChunkStates PROVE ChunkChar(x, c) = BehindEndChar(x, c)
    OBVIOUS
  <2>1. /\ st # "CHUNKED" /\ st # "CHUNK_SIZE" /\ st # "EXT_NAME" /\ st # "EXT_VALUE"
        /\ st # "CR1" /\ st # "LF1" /\ st # "CR2" /\ st # "TRAILER_NAME"
        /\ st # "TRAILER_VALUE" /\ st # "DATA" /\ st # "DATA_CR" /\ st # "DATA_LF"
    BY DEF ChunkStates
  <2> QED
    BY <2>1, Zenon DEF ChunkChar
<1> QED
  BY <1>1, <1>2, <1>3, <1>4, <1>5, <1>6, <1>7, <1>8, <1>9, <1>10, <1>11, <1>12, <1>13

(* The characters of the size, its extensions and its end. *)
LEMMA BothSize ==
  ASSUME NEW x, NEW t, Twins(x, t), NEW c
  PROVE  /\ FirstDigit(t, c).rc = 0 => Together(x, FirstDigit(x, c), FirstDigit(t, c))
         /\ SizeChar(t, c).rc = 0 => Together(x, SizeChar(x, c), SizeChar(t, c))
         /\ NextChunkChar(t, c).rc = 0 => Together(x, NextChunkChar(x, c), NextChunkChar(t, c))
<1>0. /\ Together(x, Digit(x, c), Digit(t, c))
      /\ \A st : Together(x, ChunkGoto(x, st), ChunkGoto(t, st))
      /\ ChunkBad(t, 400).rc # 0
  <2>1. ChunkBad(t, 400).rc # 0
    BY BadChunk DEF Twins
  <2> QED
    BY <2>1, BothDigit, BothChunkGoto
<1>1. FirstDigit(t, c).rc = 0 => Together(x, FirstDigit(x, c), FirstDigit(t, c))
  BY <1>0, BothNeeds DEF FirstDigit
<1>2. SizeChar(t, c).rc = 0 => Together(x, SizeChar(x, c), SizeChar(t, c))
  <2>0. ~IsHex(SEMI) /\ ~IsHex("\r") /\ SEMI # "\r"
    BY Plain, Marks
  <2>1. CASE IsHex(c)
    <3>1. c # SEMI /\ c # "\r"
      BY <2>0, <2>1
    <3>2. SizeChar(x, c) = Digit(x, c) /\ SizeChar(t, c) = Digit(t, c)
      BY <2>1, <3>1, Zenon DEF SizeChar
    <3> QED
      BY <1>0, <3>2, Zenon
  <2>2. CASE c = SEMI
    <3>1. ~IsHex(c) /\ c # "\r"
      BY <2>0, <2>2
    <3>2. SizeChar(x, c) = ChunkGoto(x, "EXT_NAME") /\ SizeChar(t, c) = ChunkGoto(t, "EXT_NAME")
      BY <2>2, <3>1, Zenon DEF SizeChar
    <3> QED
      BY <1>0, <3>2
  <2>3. CASE c = "\r"
    <3>1. ~IsHex(c) /\ c # SEMI
      BY <2>0, <2>3
    <3>2. SizeChar(x, c) = ChunkGoto(x, "CR1") /\ SizeChar(t, c) = ChunkGoto(t, "CR1")
      BY <2>3, <3>1, Zenon DEF SizeChar
    <3> QED
      BY <1>0, <3>2
  <2>4. CASE ~IsHex(c) /\ c # SEMI /\ c # "\r"
    <3>1. SizeChar(t, c) = ChunkBad(t, 400)
      BY <2>4, Zenon DEF SizeChar
    <3> QED
      BY <1>0, <3>1
  <2> QED
    BY <2>1, <2>2, <2>3, <2>4
<1>3. NextChunkChar(t, c).rc = 0 => Together(x, NextChunkChar(x, c), NextChunkChar(t, c))
  <2>1. CASE c = "\r"
    <3>1. NextChunkChar(x, c) = ChunkGoto(x, "CR2") /\ NextChunkChar(t, c) = ChunkGoto(t, "CR2")
      BY <2>1, Zenon DEF NextChunkChar
    <3> QED
      BY <1>0, <3>1
  <2>2. CASE c # "\r"
    <3>1. /\ NextChunkChar(x, c) = ChunkNeeds(x, IsHex(c), Digit(x, c))
          /\ NextChunkChar(t, c) = ChunkNeeds(t, IsHex(c), Digit(t, c))
      BY <2>2, Zenon DEF NextChunkChar
    <3> QED
      BY <1>0, <3>1, BothNeeds
  <2> QED
    BY <2>1, <2>2
<1> QED
  BY <1>1, <1>2, <1>3

LEMMA BothNames ==
  ASSUME NEW x, NEW t, Twins(x, t), NEW c
  PROVE  /\ ExtNameChar(t, c).rc = 0 => Together(x, ExtNameChar(x, c), ExtNameChar(t, c))
         /\ ExtValueChar(t, c).rc = 0 => Together(x, ExtValueChar(x, c), ExtValueChar(t, c))
         /\ TrailerNameChar(t, c).rc = 0 => Together(x, TrailerNameChar(x, c), TrailerNameChar(t, c))
         /\ TrailerValueChar(t, c).rc = 0 => Together(x, TrailerValueChar(x, c), TrailerValueChar(t, c))
<1> DEFINE stay(z) == ChunkNeeds(z, IsNameChar(c), z)
<1>0. /\ stay(t).rc = 0 => Together(x, stay(x), stay(t))
      /\ \A st : Together(x, ChunkGoto(x, st), ChunkGoto(t, st))
  BY BothChunkGoto, BothNeeds, TogetherSelf
<1>1. ExtNameChar(t, c).rc = 0 => Together(x, ExtNameChar(x, c), ExtNameChar(t, c))
  <2>1. \A z : /\ c = "=" => ExtNameChar(z, c) = ChunkGoto(z, "EXT_VALUE")
               /\ c # "=" => ExtNameChar(z, c) = stay(z)
    BY Zenon DEF ExtNameChar
  <2> HIDE DEF stay
  <2>2. CASE c = "="
    BY <1>0, <2>1, <2>2, Zenon
  <2>3. CASE c # "="
    <3>1. ExtNameChar(x, c) = stay(x) /\ ExtNameChar(t, c) = stay(t)
      BY <2>1, <2>3
    <3> QED
      BY <1>0, <3>1
  <2> QED
    BY <2>2, <2>3
<1>2. ExtValueChar(t, c).rc = 0 => Together(x, ExtValueChar(x, c), ExtValueChar(t, c))
  <2>0. SEMI # "\r"
    BY Marks
  <2>1. \A z : /\ c = SEMI => ExtValueChar(z, c) = ChunkGoto(z, "EXT_NAME")
               /\ c = "\r" => ExtValueChar(z, c) = ChunkGoto(z, "CR1")
               /\ c # SEMI /\ c # "\r" => ExtValueChar(z, c) = stay(z)
    <3> TAKE z
    <3>1. CASE c = SEMI
      <4>1. c # "\r"
        BY <2>0, <3>1
      <4> QED
        BY <3>1, <4>1, Zenon DEF ExtValueChar
    <3>2. CASE c = "\r"
      <4>1. c # SEMI
        BY <2>0, <3>2
      <4> QED
        BY <3>2, <4>1, Zenon DEF ExtValueChar
    <3>3. CASE c # SEMI /\ c # "\r"
      BY <3>3, Zenon DEF ExtValueChar
    <3> QED
      BY <3>1, <3>2, <3>3
  <2> HIDE DEF stay
  <2>2. CASE c = SEMI
    BY <1>0, <2>1, <2>2, Zenon
  <2>3. CASE c = "\r"
    BY <1>0, <2>1, <2>3, Zenon
  <2>4. CASE c # SEMI /\ c # "\r"
    <3>1. ExtValueChar(x, c) = stay(x) /\ ExtValueChar(t, c) = stay(t)
      BY <2>1, <2>4
    <3> QED
      BY <1>0, <3>1
  <2> QED
    BY <2>2, <2>3, <2>4
<1>3. TrailerNameChar(t, c).rc = 0 => Together(x, TrailerNameChar(x, c), TrailerNameChar(t, c))
  <2>1. \A z : /\ c = ":" => TrailerNameChar(z, c) = ChunkGoto(z, "TRAILER_VALUE")
               /\ c # ":" => TrailerNameChar(z, c) = stay(z)
    BY Zenon DEF TrailerNameChar
  <2> HIDE DEF stay
  <2>2. CASE c = ":"
    BY <1>0, <2>1, <2>2, Zenon
  <2>3. CASE c # ":"
    <3>1. TrailerNameChar(x, c) = stay(x) /\ TrailerNameChar(t, c) = stay(t)
      BY <2>1, <2>3
    <3> QED
      BY <1>0, <3>1
  <2> QED
    BY <2>2, <2>3
<1>4. TrailerValueChar(t, c).rc = 0 => Together(x, TrailerValueChar(x, c), TrailerValueChar(t, c))
  <2>1. \A z : /\ c = "\r" => TrailerValueChar(z, c) = ChunkGoto(z, "CR1")
               /\ c # "\r" => TrailerValueChar(z, c) = stay(z)
    BY Zenon DEF TrailerValueChar
  <2> HIDE DEF stay
  <2>2. CASE c = "\r"
    BY <1>0, <2>1, <2>2, Zenon
  <2>3. CASE c # "\r"
    <3>1. TrailerValueChar(x, c) = stay(x) /\ TrailerValueChar(t, c) = stay(t)
      BY <2>1, <2>3
    <3> QED
      BY <1>0, <3>1
  <2> QED
    BY <2>2, <2>3
<1> QED
  BY <1>1, <1>2, <1>3, <1>4

(* The end of a size line, and of the body. *)
LEMMA BothEnds ==
  ASSUME NEW x, NEW t, Twins(x, t), NEW c
  PROVE  /\ SizeEndChar(t, c).rc = 0 => Together(x, SizeEndChar(x, c), SizeEndChar(t, c))
         /\ EndChar(t, c).rc = 0 => Together(x, EndChar(x, c), EndChar(t, c))
         /\ Together(x, BehindEndChar(x, c), BehindEndChar(t, c))
<1> DEFINE ended(z) == [ChunkGoto(z, "LF2") EXCEPT !.http.chunk.end = TRUE]
           sized(z) == [ChunkGoto(z, "LF1") EXCEPT !.http.chunk.size = HexToV(z.digits), !.digits = <<>>]
<1>0. /\ \A st : Together(x, ChunkGoto(x, st), ChunkGoto(t, st))
      /\ \A y, u : Together(x, y, u) => Twins(y, u) /\ u.http.chunk = y.http.chunk /\ u.digits = y.digits
      /\ t.digits = x.digits /\ t.http.chunk = x.http.chunk
  <2>1. "digits" \in ParserFields \ {"side", "http"}
    BY DEF ParserFields
  <2> QED
    BY <2>1, BothChunkGoto DEF Together, Twins
<1>1. Together(x, ended(x), ended(t))
  <2> DEFINE y == ChunkGoto(x, "LF2")
             u == ChunkGoto(t, "LF2")
             k == [y.http.chunk EXCEPT !.end = TRUE]
  <2>1. Together(x, y, u) /\ Twins(y, u) /\ u.http.chunk = y.http.chunk
    BY <1>0
  <2> HIDE DEF y, u
  <2>2. [y EXCEPT !.http.chunk.end = TRUE] = Rechunk(y, k)
    BY Zenon DEF Rechunk
  <2>3. [u EXCEPT !.http.chunk.end = TRUE] = Rechunk(u, k)
    BY <2>1, Zenon DEF Rechunk
  <2> HIDE DEF k
  <2>4. Together(x, Rechunk(y, k), Rechunk(u, k))
    BY <2>1, BothRechunk, TogetherThen
  <2> QED
    BY <2>2, <2>3, <2>4, Zenon DEF y, u
<1>2. Together(x, sized(x), sized(t))
  <2> DEFINE y == ChunkGoto(x, "LF1")
             u == ChunkGoto(t, "LF1")
             n == HexToV(x.digits)
             e == <<>>
             k == [y.http.chunk EXCEPT !.size = n]
  <2>1. Together(x, y, u) /\ Twins(y, u) /\ u.http.chunk = y.http.chunk
    BY <1>0
  <2> HIDE DEF y, u, n, e
  <2>2. [y EXCEPT !.http.chunk.size = n, !.digits = e] = Updated(Rechunk(y, k), "digits", e)
    <3>1. [y EXCEPT !.http.chunk.size = n, !.digits = e] = [[y EXCEPT !.http.chunk.size = n] EXCEPT !.digits = e]
      OBVIOUS
    <3>2. [y EXCEPT !.http.chunk.size = n] = Rechunk(y, k)
      BY Zenon DEF Rechunk
    <3> QED
      BY <3>1, <3>2, Zenon DEF Updated
  <2>3. [u EXCEPT !.http.chunk.size = n, !.digits = e] = Updated(Rechunk(u, k), "digits", e)
    <3>1. [u EXCEPT !.http.chunk.size = n, !.digits = e] = [[u EXCEPT !.http.chunk.size = n] EXCEPT !.digits = e]
      OBVIOUS
    <3>2. [u EXCEPT !.http.chunk.size = n] = Rechunk(u, k)
      BY <2>1, Zenon DEF Rechunk
    <3> QED
      BY <3>1, <3>2, Zenon DEF Updated
  <2> HIDE DEF k
  <2>4. Together(x, Rechunk(y, k), Rechunk(u, k))
    BY <2>1, BothRechunk, TogetherThen
  <2>5. Together(x, Updated(Rechunk(y, k), "digits", e), Updated(Rechunk(u, k), "digits", e))
    BY <2>4, BothDigits
  <2>6. sized(x) = [y EXCEPT !.http.chunk.size = n, !.digits = e]
        /\ sized(t) = [u EXCEPT !.http.chunk.size = n, !.digits = e]
    BY <1>0, Zenon DEF y, u, n, e
  <2> HIDE DEF sized
  <2> QED
    BY <2>2, <2>3, <2>5, <2>6, Zenon
<1>3. Together(x, BehindEndChar(x, c), BehindEndChar(t, c))
  <2> DEFINE k == [x.http.chunk EXCEPT !.end = TRUE]
  <2>1. BehindEndChar(x, c) = Rechunk(x, k)
    BY Zenon DEF Rechunk, BehindEndChar
  <2>2. BehindEndChar(t, c) = Rechunk(t, k)
    BY <1>0, Zenon DEF Rechunk, BehindEndChar
  <2> HIDE DEF k
  <2>3. Together(x, Rechunk(x, k), Rechunk(t, k))
    BY BothRechunk
  <2> QED
    BY <2>1, <2>2, <2>3, Zenon
<1>4. /\ SizeEndChar(x, c) = ChunkNeeds(x, c = "\n", sized(x))
      /\ SizeEndChar(t, c) = ChunkNeeds(t, c = "\n", sized(t))
      /\ EndChar(x, c) = ChunkNeeds(x, c = "\n", ended(x))
      /\ EndChar(t, c) = ChunkNeeds(t, c = "\n", ended(t))
  BY Zenon DEF SizeEndChar, EndChar
<1> HIDE DEF sized, ended
<1>5. SizeEndChar(t, c).rc = 0 => Together(x, SizeEndChar(x, c), SizeEndChar(t, c))
  BY <1>2, <1>4, BothNeeds
<1>6. EndChar(t, c).rc = 0 => Together(x, EndChar(x, c), EndChar(t, c))
  BY <1>1, <1>4, BothNeeds
<1> QED
  BY <1>3, <1>5, <1>6

(* The data of a chunk. *)
LEMMA BothDatas ==
  ASSUME NEW x, NEW t, Twins(x, t), NEW c
  PROVE  /\ Together(x, FirstDataChar(x, c), FirstDataChar(t, c))
         /\ DataChar(t, c).rc = 0 => Together(x, DataChar(x, c), DataChar(t, c))
         /\ DataCrChar(t, c).rc = 0 => Together(x, DataCrChar(x, c), DataCrChar(t, c))
<1> DEFINE full(z) == [ChunkGoto(z, "DATA_CR") EXCEPT !.http.chunk.size = 0, !.http.chunk.got = 0]
           begun(z) == ChunkGoto(Data(z, c), "DATA")
           got == x.http.chunk.got
           size == x.http.chunk.size
<1>0. /\ \A st : Together(x, ChunkGoto(x, st), ChunkGoto(t, st))
      /\ Together(x, Data(x, c), Data(t, c))
      /\ t.http.chunk = x.http.chunk /\ Shaped(t)
  BY BothChunkGoto, BothData DEF Twins
<1>1. Together(x, begun(x), begun(t))
  <2> DEFINE y == Data(x, c)
             u == Data(t, c)
  <2>1. Together(x, y, u) /\ Twins(y, u)
    BY <1>0 DEF Together
  <2> HIDE DEF y, u
  <2>2. Together(y, ChunkGoto(y, "DATA"), ChunkGoto(u, "DATA"))
    BY <2>1, BothChunkGoto
  <2>3. Together(x, ChunkGoto(y, "DATA"), ChunkGoto(u, "DATA"))
    BY ONLY <2>1, <2>2, TogetherThen
  <2> QED
    BY <2>3 DEF y, u
<1>2. Together(x, full(x), full(t)) /\ Shaped(full(t))
  <2> DEFINE y == ChunkGoto(x, "DATA_CR")
             u == ChunkGoto(t, "DATA_CR")
             k == [y.http.chunk EXCEPT !.size = 0, !.got = 0]
  <2>1. Together(x, y, u) /\ Twins(y, u) /\ u.http.chunk = y.http.chunk
    BY <1>0 DEF Together, Twins
  <2> HIDE DEF y, u
  <2>2. [y EXCEPT !.http.chunk.size = 0, !.http.chunk.got = 0] = Rechunk(y, k)
    BY DEF Rechunk
  <2>3. [u EXCEPT !.http.chunk.size = 0, !.http.chunk.got = 0] = Rechunk(u, k)
    <3>1. [u EXCEPT !.http.chunk.size = 0, !.http.chunk.got = 0]
          = [u EXCEPT !.http.chunk = [u.http.chunk EXCEPT !.size = 0, !.got = 0]]
      OBVIOUS
    <3> QED
      BY <2>1, <3>1, Zenon DEF Rechunk
  <2> HIDE DEF k
  <2>4. Together(x, Rechunk(y, k), Rechunk(u, k))
    BY <2>1, BothRechunk, TogetherThen
  <2>5. Together(x, full(x), full(t))
    BY <2>2, <2>3, <2>4, Zenon DEF y, u
  <2> QED
    BY <2>5 DEF Together, Twins
<1>3. Together(x, FirstDataChar(x, c), FirstDataChar(t, c))
  <2>1. CASE c = "\r"
    <3>1. FirstDataChar(x, c) = ChunkGoto(x, "CR2") /\ FirstDataChar(t, c) = ChunkGoto(t, "CR2")
      BY <2>1, Zenon DEF FirstDataChar
    <3> QED
      BY <1>0, <3>1, Zenon
  <2>2. CASE c # "\r" /\ size = 0
    <3>1. /\ FirstDataChar(x, c) = ChunkGoto(x, "TRAILER_NAME")
          /\ FirstDataChar(t, c) = ChunkGoto(t, "TRAILER_NAME")
      BY <1>0, <2>2, Zenon DEF FirstDataChar
    <3> QED
      BY <1>0, <3>1, Zenon
  <2>3. CASE c # "\r" /\ size # 0
    <3>1. FirstDataChar(x, c) = begun(x) /\ FirstDataChar(t, c) = begun(t)
      BY <1>0, <2>3, Zenon DEF FirstDataChar
    <3> HIDE DEF begun
    <3> QED
      BY <1>1, <3>1, Zenon
  <2> QED
    BY <2>1, <2>2, <2>3
<1>4. DataChar(t, c).rc = 0 => Together(x, DataChar(x, c), DataChar(t, c))
  <2>1. CASE c = "\r" /\ got = size
    <3>1. DataChar(x, c) = full(x) /\ DataChar(t, c) = full(t)
      BY <1>0, <2>1, Zenon DEF DataChar
    <3> HIDE DEF full
    <3> QED
      BY <1>2, <3>1, Zenon
  <2>2. CASE c = "\r" /\ got # size
    <3>1. DataChar(t, c) = ChunkBad(full(t), 400)
      BY <1>0, <2>2, Zenon DEF DataChar
    <3> HIDE DEF full
    <3> QED
      BY <1>2, <3>1, BadChunk
  <2>3. CASE c # "\r" /\ got < size
    <3>1. DataChar(x, c) = Data(x, c) /\ DataChar(t, c) = Data(t, c)
      BY <1>0, <2>3, Zenon DEF DataChar
    <3> QED
      BY <1>0, <3>1, Zenon
  <2>4. CASE c # "\r" /\ ~(got < size)
    <3>1. DataChar(t, c) = ChunkBad(t, 400)
      BY <1>0, <2>4, Zenon DEF DataChar
    <3> QED
      BY <1>0, <3>1, BadChunk
  <2> QED
    BY <2>1, <2>2, <2>3, <2>4
<1>5. DataCrChar(t, c).rc = 0 => Together(x, DataCrChar(x, c), DataCrChar(t, c))
  BY <1>0, BothNeeds DEF DataCrChar
<1> QED
  BY <1>3, <1>4, <1>5

LEMMA BothChunkChar ==
  ASSUME NEW x, NEW t, Twins(x, t), NEW c, ChunkChar(t, c).rc = 0
  PROVE  Together(x, ChunkChar(x, c), ChunkChar(t, c))
<1> DEFINE st == x.http.chunk.st
           b(z) == ChunkChar(z, c)
<1>0. x.http.chunk.st = st /\ t.http.chunk.st = st
  BY DEF Twins
<1> HIDE DEF st
<1>1. CASE st = "CHUNKED"
  <2>1. b(x) = FirstDigit(x, c) /\ b(t) = FirstDigit(t, c)
    BY <1>0, <1>1, ChunkPicks
  <2> QED
    BY <2>1, BothSize
<1>2. CASE st = "CHUNK_SIZE"
  <2>1. b(x) = SizeChar(x, c) /\ b(t) = SizeChar(t, c)
    BY <1>0, <1>2, ChunkPicks
  <2> QED
    BY <2>1, BothSize
<1>3. CASE st = "EXT_NAME"
  <2>1. b(x) = ExtNameChar(x, c) /\ b(t) = ExtNameChar(t, c)
    BY <1>0, <1>3, ChunkPicks
  <2> QED
    BY <2>1, BothNames
<1>4. CASE st = "EXT_VALUE"
  <2>1. b(x) = ExtValueChar(x, c) /\ b(t) = ExtValueChar(t, c)
    BY <1>0, <1>4, ChunkPicks
  <2> QED
    BY <2>1, BothNames
<1>5. CASE st = "CR1"
  <2>1. b(x) = SizeEndChar(x, c) /\ b(t) = SizeEndChar(t, c)
    BY <1>0, <1>5, ChunkPicks
  <2> QED
    BY <2>1, BothEnds
<1>6. CASE st = "LF1"
  <2>1. b(x) = FirstDataChar(x, c) /\ b(t) = FirstDataChar(t, c)
    BY <1>0, <1>6, ChunkPicks
  <2> QED
    BY <2>1, BothDatas
<1>7. CASE st = "CR2"
  <2>1. b(x) = EndChar(x, c) /\ b(t) = EndChar(t, c)
    BY <1>0, <1>7, ChunkPicks
  <2> QED
    BY <2>1, BothEnds
<1>8. CASE st = "TRAILER_NAME"
  <2>1. b(x) = TrailerNameChar(x, c) /\ b(t) = TrailerNameChar(t, c)
    BY <1>0, <1>8, ChunkPicks
  <2> QED
    BY <2>1, BothNames
<1>9. CASE st = "TRAILER_VALUE"
  <2>1. b(x) = TrailerValueChar(x, c) /\ b(t) = TrailerValueChar(t, c)
    BY <1>0, <1>9, ChunkPicks
  <2> QED
    BY <2>1, BothNames
<1>10. CASE st = "DATA"
  <2>1. b(x) = DataChar(x, c) /\ b(t) = DataChar(t, c)
    BY <1>0, <1>10, ChunkPicks
  <2> QED
    BY <2>1, BothDatas
<1>11. CASE st = "DATA_CR"
  <2>1. b(x) = DataCrChar(x, c) /\ b(t) = DataCrChar(t, c)
    BY <1>0, <1>11, ChunkPicks
  <2> QED
    BY <2>1, BothDatas
<1>12. CASE st = "DATA_LF"
  <2>1. b(x) = NextChunkChar(x, c) /\ b(t) = NextChunkChar(t, c)
    BY <1>0, <1>12, ChunkPicks
  <2> QED
    BY <2>1, BothSize
<1>13. CASE st \notin ChunkStates
  <2>1. b(x) = BehindEndChar(x, c) /\ b(t) = BehindEndChar(t, c)
    BY <1>0, <1>13, ChunkPicks
  <2> QED
    BY <2>1, BothEnds
<1> QED
  BY <1>1, <1>2, <1>3, <1>4, <1>5, <1>6, <1>7, <1>8, <1>9, <1>10, <1>11, <1>12, <1>13
     DEF ChunkStates

-----------------------------------------------------------------------------
(* The parser of a response, from what it has read of a reply q that was made *)
(* from m.                                                                    *)
HeadHeard(x, q) ==
  /\ Heard(x) /\ x.rc = 0 /\ LineHeard(x, q)
  /\ x.http.response.headers = Newest(q.headers, Len(q.headers))
ReplyOnWay(x, w, q) ==
  \E u, b : InReply(x, u, q) /\ IsSeq(u) /\ b \in {<<>>, q.body} /\ w = u \o b
ReplyHeaded(x, w, q) ==
  LineHeard(x, q) /\ HeadersHeard(x, q.headers) /\ w \in {<<>>, q.body}
ReplyChunks(x, w, q, m) ==
  /\ HeadHeard(x, q) /\ ByChunks(q.headers)
  /\ w = <<>> \/ \E t : Twins(x, t) /\ ChunkAt(t, w, m)
ReplyBody(x, q) == HeadHeard(x, q) /\ ~ByChunks(q.headers)
ReplyParsed(x, q, m) ==
  HeadHeard(x, q) /\ (ByChunks(q.headers) => x.http.response.body = Content(m))
ReplyWay(phase, x, w, q, m) ==
  /\ phase = "head" => ReplyOnWay(x, w, q)
  /\ phase = "headed" => ReplyHeaded(x, w, q)
  /\ phase = "body" => ReplyBody(x, q)
  /\ phase = "chunks" => ReplyChunks(x, w, q, m)
  /\ phase = "parsed" => ReplyParsed(x, q, m)

LEMMA LineUntouched ==
  ASSUME NEW x, NEW y, NEW q, Told(x, y), LineHeard(x, q)
  PROVE  LineHeard(y, q)
<1>1. "version" \in LineFields /\ "status" \in LineFields /\ "reason" \in LineFields
  BY DEF LineFields
<1>2. /\ y.http.response.version = x.http.response.version
      /\ y.http.response.status = x.http.response.status
      /\ y.http.response.reason = x.http.response.reason
  BY <1>1 DEF Told
<1> QED
  BY <1>2 DEF LineHeard, StatusHeard, VersionHeard

(* The headers that were heard are found as those that were sent. *)
LEMMA HeardFound ==
  ASSUME NEW x, NEW q, NEW m, GoodReply(q, m), HeadHeard(x, q)
  PROVE  /\ Chunked(x) <=> ByChunks(q.headers)
         /\ SameHeaders(x.http.response.headers, q.headers)
<1> DEFINE g == x.http.response.headers
           hs == q.headers
<1>1. /\ \A n : HasHeader(g, n) <=> HasHeader(hs, n)
      /\ \A n : HasHeader(hs, n) => HeaderValue(g, n) = HeaderValue(hs, n)
      /\ SameHeaders(g, hs)
  BY NewestSame DEF HeadHeard, GoodReply
<1>2. Chunked(x) <=> ByChunks(g)
  BY DEF Chunked, ByChunks, HeadHeard, Heard
<1> HIDE DEF g, hs
<1>3. ByChunks(g) <=> ByChunks(hs)
  BY <1>1 DEF ByChunks, HeaderIs
<1> QED
  BY <1>1, <1>2, <1>3 DEF g, hs

(* A character of the head. *)
LEMMA ReplyHeadGoes ==
  ASSUME NEW x, NEW w, NEW q, NEW m, GoodReply(q, m), ReplyOnWay(x, w, q)
  PROVE  LET y == HeadChar(x, Head(w))
         IN /\ w # <<>> /\ y.rc = 0 /\ y.http.request = x.http.request
            /\ ReplyWay(IF y.done THEN "headed" ELSE "head", y, Tail(w), q, m)
<1>1. PICK u, b : InReply(x, u, q) /\ IsSeq(u) /\ b \in {<<>>, q.body} /\ w = u \o b
  BY DEF ReplyOnWay
<1> DEFINE y == HeadChar(x, Head(u))
<1>2. /\ u # <<>> /\ y.rc = 0 /\ y.http.request = x.http.request
      /\ ~y.done => InReply(y, Tail(u), q)
      /\ y.done => Tail(u) = <<>> /\ LineHeard(y, q) /\ HeadersHeard(y, q.headers)
  BY <1>1, ReplyGoesOn
<1>3. IsSeq(b)
  <2>1. IsSeq(q.body) /\ IsSeq(<<>>)
    BY EmptyIsSeq DEF GoodReply
  <2> QED
    BY <1>1, <2>1
<1>4. /\ w # <<>> /\ Head(w) = Head(u) /\ Tail(w) = Tail(u) \o b /\ IsSeq(Tail(u))
  BY <1>1, <1>2, <1>3, HeadJoin
<1> HIDE DEF y
<1>5. CASE y.done
  <2>1. Tail(w) = b
    <3>1. <<>> \o b = b
      BY <1>3, Cat
    <3> QED
      BY <1>2, <1>4, <1>5, <3>1
  <2>2. ReplyHeaded(y, Tail(w), q)
    BY <1>1, <1>2, <1>5, <2>1 DEF ReplyHeaded
  <2>3. ReplyWay("headed", y, Tail(w), q, m)
    BY <2>2 DEF ReplyWay
  <2> QED
    BY <1>2, <1>4, <1>5, <2>3 DEF y
<1>6. CASE ~y.done
  <2>1. ReplyOnWay(y, Tail(w), q)
    BY <1>1, <1>2, <1>4, <1>6 DEF ReplyOnWay
  <2>2. ReplyWay("head", y, Tail(w), q, m)
    BY <2>1 DEF ReplyWay
  <2> QED
    BY <1>2, <1>4, <1>6, <2>2 DEF y
<1> QED
  BY <1>5, <1>6

(* What was heard when the head is over. *)
LEMMA HeadedIs ==
  ASSUME NEW x, NEW w, NEW q, ReplyHeaded(x, w, q)
  PROVE  HeadHeard(x, q)
<1>1. PICK t : Twins(x, t) /\ Finished(t, Sample(q.headers), FALSE)
  BY DEF ReplyHeaded, HeadersHeard
<1> DEFINE hs == q.headers
<1>2. Sample(hs).headers = hs
  BY DEF Sample
<1>3. t.http.request.headers = Newest(hs, Len(hs)) /\ t.rc = 0
  BY <1>1, <1>2 DEF Finished, HeadRead, Waiting
<1>4. x.rc = t.rc /\ Heard(x) /\ x.http.response.headers = t.http.request.headers
  BY <1>1 DEF Twins, ParserFields
<1> QED
  BY <1>3, <1>4 DEF HeadHeard, ReplyHeaded

(* A body, or a part of it, is none of the head. *)
LEMMA HeadStays ==
  ASSUME NEW x, NEW q, HeadHeard(x, q), NEW v, NEW y, y = Written(x, "body", v)
  PROVE  /\ HeadHeard(y, q) /\ y.http.request = x.http.request /\ y.http.response.body = v
<1>1. Heard(x) /\ "body" \in ResponseFields /\ {"version", "status", "reason", "headers"} \subseteq ResponseFields \ {"body"}
  BY DEF HeadHeard, ResponseFields
<1>2. /\ Heard(y) /\ \A g \in ParserFields \ {"http"} : y[g] = x[g]
      /\ y.http.request = x.http.request /\ y.http.response["body"] = v
      /\ \A g \in ResponseFields \ {"body"} : y.http.response[g] = x.http.response[g]
  <2>1. y = Written(x, "body", v)
    OBVIOUS
  <2> QED
    BY ONLY <1>1, <2>1, HeardPut
<1>3. /\ y.http.response.version = x.http.response.version
      /\ y.http.response.status = x.http.response.status
      /\ y.http.response.reason = x.http.response.reason
      /\ y.http.response.headers = x.http.response.headers
  BY <1>1, <1>2
<1>4. y.rc = x.rc
  BY <1>2 DEF ParserFields
<1> QED
  BY <1>2, <1>3, <1>4 DEF HeadHeard, LineHeard, StatusHeard, VersionHeard

LEMMA BodyPhases == \A x : BodyPhase(x) \in {"body", "parsed"}
BY DEF BodyPhase

LEMMA PlainBody ==
  ASSUME NEW x, NEW q, ReplyBody(x, q), NEW v, NEW y, y = Written(x, "body", v), NEW w, NEW m
  PROVE  y.rc = 0 /\ y.http.request = x.http.request /\ ReplyWay(BodyPhase(y), y, w, q, m)
<1>1. HeadHeard(y, q) /\ y.http.request = x.http.request
  BY HeadStays DEF ReplyBody
<1>2. ReplyBody(y, q) /\ ReplyParsed(y, q, m) /\ y.rc = 0
  BY <1>1 DEF ReplyBody, ReplyParsed, HeadHeard
<1>3. BodyPhase(y) \in {"body", "parsed"}
  BY BodyPhases
<1> QED
  BY <1>1, <1>2, <1>3 DEF ReplyWay

(* The chunks begin. *)
LEMMA ReplyChunksBegin ==
  ASSUME NEW x, NEW w, NEW q, NEW m, GoodReply(q, m), ReplyHeaded(x, w, q), ByChunks(q.headers)
  PROVE  LET y == [x EXCEPT !.http.chunked = TRUE]
         IN y.rc = 0 /\ y.http.request = x.http.request /\ ReplyChunks(y, w, q, m)
<1>1. PICK t : Twins(x, t) /\ Finished(t, Sample(q.headers), FALSE)
  BY DEF ReplyHeaded, HeadersHeard
<1>2. Waiting(t) /\ ChunksReadable(m) /\ q.body = ChunkLines(m) /\ HeadHeard(x, q)
  BY <1>1, HeadedIs DEF Finished, GoodReply
<1> DEFINE v == TRUE
           y == Rehttp(x, "chunked", v)
           u == Rehttp(t, "chunked", v)
<1>3. y = [x EXCEPT !.http.chunked = TRUE] /\ u = [t EXCEPT !.http.chunked = TRUE]
  BY DEF Rehttp
<1>4. Twins(y, u) /\ Told(x, y)
  <2>1. Twins(x, t) /\ "chunked" \in {"chunk", "chunked"}
    BY <1>1
  <2> HIDE DEF y, u
  <2>2. y = Rehttp(x, "chunked", v) /\ u = Rehttp(t, "chunked", v)
    BY DEF y, u
  <2> HIDE DEF v
  <2> QED
    BY ONLY <2>1, <2>2, TwinsHttp
<1>5. ChunkAt(u, ChunkLines(m), m) /\ u.http.request = t.http.request
  BY <1>2, <1>3, ChunksStart
<1> HIDE DEF y, u
<1>6. y.http.request = x.http.request /\ LineHeard(y, q)
  <2>1. LineHeard(x, q)
    BY <1>2 DEF HeadHeard
  <2>2. LineHeard(y, q)
    BY <1>4, <2>1, LineUntouched
  <2> QED
    BY <1>4, <2>2 DEF Told
<1>7. y.http.response.headers = x.http.response.headers
  <2>1. y.http.response.headers = u.http.request.headers /\ x.http.response.headers = t.http.request.headers
    BY <1>1, <1>4 DEF Twins
  <2> QED
    BY <1>5, <2>1
<1>8. y.rc = 0 /\ Heard(y)
  <2>1. u.rc = y.rc /\ Heard(y) /\ u.rc = 0
    BY <1>4, <1>5, NoDigits DEF Twins, ParserFields
  <2> QED
    BY <2>1
<1>9. HeadHeard(y, q)
  BY <1>2, <1>6, <1>7, <1>8 DEF HeadHeard
<1>10. w = <<>> \/ \E z : Twins(y, z) /\ ChunkAt(z, w, m)
  <2>1. w \in {<<>>, ChunkLines(m)}
    BY <1>2 DEF ReplyHeaded
  <2> QED
    BY <1>4, <1>5, <2>1
<1>11. ReplyChunks(y, w, q, m)
  BY <1>9, <1>10 DEF ReplyChunks
<1> QED
  BY <1>3, <1>6, <1>8, <1>11

(* The head that was heard stays with what its twin keeps. *)
LEMMA TwinsKeep ==
  ASSUME NEW x, NEW t, Twins(x, t), NEW q, HeadHeard(x, q), NEW y, NEW u, Together(x, y, u),
         Kept(t, u), u.rc = 0
  PROVE  HeadHeard(y, q)
<1>1. Twins(y, u) /\ Told(x, y) /\ LineHeard(x, q)
  BY DEF Together, HeadHeard
<1>2. LineHeard(y, q)
  <2> QED
    BY ONLY <1>1, LineUntouched
<1>3. y.http.response.headers = x.http.response.headers
  <2>1. "headers" \in RequestFields \ {"body"}
    BY DEF RequestFields
  <2>2. u.http.request.headers = t.http.request.headers
    BY <2>1 DEF Kept
  <2> QED
    BY <1>1, <2>2 DEF Twins
<1>4. y.rc = 0 /\ Heard(y)
  BY <1>1 DEF Twins, ParserFields
<1> QED
  BY <1>2, <1>3, <1>4 DEF HeadHeard

(* One round of the loop, for a chunk's character that leads to u. *)
LEMMA BothRound ==
  ASSUME NEW x, NEW t, Twins(x, t), NEW c, NEW last, ChunkChar(t, c).rc = 0
  PROVE  LET u == ChunkChar(t, c)
             over == u.rc # 0 \/ u.http.chunk.end
             d == IF last \/ over THEN <<>> ELSE u.digits
             k == IF over THEN [NoChunks EXCEPT !.end = u.http.chunk.end] ELSE u.http.chunk
             v == Rechunk(Updated(u, "digits", d), k)
         IN /\ Together(x, ChunkRound(x, c, last), v)
            /\ ChunkRound(x, c, last).http.chunk = k /\ v.rc = u.rc
            /\ v.http.request = u.http.request
<1> DEFINE y == ChunkChar(x, c)
           u == ChunkChar(t, c)
           over == u.rc # 0 \/ u.http.chunk.end
           d == IF last \/ over THEN <<>> ELSE u.digits
           k == IF over THEN [NoChunks EXCEPT !.end = u.http.chunk.end] ELSE u.http.chunk
           v == Rechunk(Updated(u, "digits", d), k)
           z == Rechunk(Updated(y, "digits", d), k)
<1>1. Together(x, y, u)
  BY BothChunkChar
<1>2. CheckedChunkChar(x, c) = y
  <2>1. x.side # "request"
    BY DEF Twins, Heard
  <2> QED
    BY <2>1, Zenon DEF CheckedChunkChar
<1>3. ChunkRound(x, c, last) = z
  <2> DEFINE o == y.rc # 0 \/ y.http.chunk.end
             e == IF last \/ o THEN <<>> ELSE y.digits
             h == IF o THEN [NoChunks EXCEPT !.end = y.http.chunk.end] ELSE y.http.chunk
  <2>1. ChunkRound(x, c, last) = [y EXCEPT !.digits = e, !.http.chunk = h]
    BY <1>2, Zenon DEF ChunkRound
  <2> HIDE DEF y, u
  <2>2. y.rc = u.rc /\ y.http.chunk = u.http.chunk /\ y.digits = u.digits
    BY <1>1 DEF Together, Twins, ParserFields
  <2>3. e = d /\ h = k
    BY <2>2, Zenon
  <2> HIDE DEF o, e, h, over, d, k
  <2>4. [y EXCEPT !.digits = d, !.http.chunk = k] = [[y EXCEPT !.digits = d] EXCEPT !.http.chunk = k]
    OBVIOUS
  <2> QED
    BY <2>1, <2>3, <2>4, Zenon DEF Rechunk, Updated
<1> HIDE DEF y, u, over, d, k
<1>4. Together(x, Updated(y, "digits", d), Updated(u, "digits", d))
  BY <1>1, BothDigits
<1>5. Together(x, z, v) /\ z.http.chunk = k
  BY <1>4, BothRechunk, TogetherThen DEF Together
<1>6. v.rc = u.rc /\ v.http.request = u.http.request
  <2>1. Shaped(u)
    BY <1>1 DEF Together, Twins
  <2> QED
    BY <2>1 DEF Rechunk, Updated, Shaped, ShapedHttp, ParserFields, HttpFields
<1> HIDE DEF z, v
<1> QED
  BY <1>3, <1>5, <1>6 DEF v, u, d, k, over

(* A character of the chunks. *)
LEMMA ReplyChunkGoes ==
  ASSUME NEW x, NEW w, NEW q, NEW m, GoodReply(q, m), ReplyChunks(x, w, q, m), w # <<>>,
         NEW last \in BOOLEAN
  PROVE  LET y == ChunkRound(x, Head(w), last)
         IN /\ y.rc = 0 /\ ChunksOver(y) = y /\ y.http.request = x.http.request
            /\ y.http.chunk.end => ReplyParsed(y, q, m)
            /\ ~y.http.chunk.end => \/ last /\ y.http.chunk.st \in SizeLine
                                    \/ ReplyChunks(y, Tail(w), q, m)
<1>1. PICK t : Twins(x, t) /\ ChunkAt(t, w, m)
  BY DEF ReplyChunks
<1>2. ChunksReadable(m) /\ HeadHeard(x, q) /\ ByChunks(q.headers)
  BY DEF GoodReply, ReplyChunks
<1> DEFINE c == Head(w)
           u == ChunkChar(t, c)
           over == u.rc # 0 \/ u.http.chunk.end
           d == IF last \/ over THEN <<>> ELSE u.digits
           k == IF over THEN [NoChunks EXCEPT !.end = u.http.chunk.end] ELSE u.http.chunk
           v == Rechunk(Updated(u, "digits", d), k)
           y == ChunkRound(x, c, last)
<1>3. \/ \E a, b : ChunksGoOn(t, w, m, a, b)
      \/ ChunksOverAt(t, w, m)
  BY <1>1, <1>2, ChunkReads
<1>4. \/ u.http.chunk.end = FALSE /\ Kept(t, u) /\ ChunkAt(u, Tail(w), m)
      \/ u.http.chunk.end = TRUE /\ u.rc = 0 /\ Kept(t, u) /\ u.http.request.body = Content(m)
  <2>1. CASE \E a, b : ChunksGoOn(t, w, m, a, b)
    <3>1. PICK a, b : ChunksGoOn(t, w, m, a, b)
      BY <2>1
    <3>2. Kept(t, u) /\ ChunkAt(u, Tail(w), m)
      BY <3>1 DEF ChunksGoOn
    <3> HIDE DEF u
    <3> QED
      BY <3>2, NoDigits
  <2>2. CASE ChunksOverAt(t, w, m)
    <3>1. \A a : Head(<<a>>) = a
      OBVIOUS
    <3>2. c = "\n"
      BY <2>2, <3>1 DEF ChunksOverAt
    <3> QED
      BY <2>2, <3>2 DEF ChunksOverAt
  <2> QED
    BY <1>3, <2>1, <2>2
<1>5. u.rc = 0
  <2> HIDE DEF u
  <2> QED
    BY <1>4, NoDigits
<1>6. /\ Together(x, y, v) /\ y.http.chunk = k /\ v.rc = u.rc /\ v.http.request = u.http.request
  BY <1>1, <1>5, BothRound
<1> HIDE DEF y, u, c
<1>7. k.end = u.http.chunk.end
  <2>1. [NoChunks EXCEPT !.end = u.http.chunk.end].end = u.http.chunk.end
    BY DEF NoChunks
  <2> QED
    BY <2>1
<1>8. Kept(t, v) /\ v.rc = 0
  <2> HIDE DEF v
  <2> QED
    BY <1>4, <1>5, <1>6 DEF Kept
<1>9. HeadHeard(y, q)
  <2> HIDE DEF v
  <2>1. Twins(x, t) /\ HeadHeard(x, q) /\ Together(x, y, v) /\ Kept(t, v) /\ v.rc = 0
    BY <1>1, <1>2, <1>6, <1>8
  <2> QED
    BY ONLY <2>1, TwinsKeep
<1>10. y.rc = 0 /\ y.http.request = x.http.request
  BY <1>6, <1>9 DEF HeadHeard, Together, Told
<1>11. ChunksOver(y) = y
  BY <1>10, Zenon DEF ChunksOver
<1>12. y.http.chunk.end = u.http.chunk.end
  BY <1>6, <1>7
<1>13. CASE u.http.chunk.end = TRUE
  <2>1. y.http.response.body = Content(m)
    <3>1. y.http.response.body = v.http.request.body
      BY <1>6 DEF Together, Twins
    <3>2. u.http.request.body = Content(m)
      BY <1>4, <1>13
    <3>3. v.http.request = u.http.request
      BY <1>6
    <3> HIDE DEF v
    <3> QED
      BY ONLY <3>1, <3>2, <3>3
  <2>2. ReplyParsed(y, q, m) /\ y.http.chunk.end
    BY <1>9, <1>12, <1>13, <2>1 DEF ReplyParsed
  <2> QED
    BY <1>10, <1>11, <2>2 DEF y, c
<1>14. CASE u.http.chunk.end = FALSE
  <2>1. ChunkAt(u, Tail(w), m) /\ ~over
    BY <1>4, <1>5, <1>14
  <2>2. Shaped(u) /\ (u.http.chunk.st \notin SizeLine => u.digits = <<>>)
    BY <2>1, NoDigits
  <2>3. k = u.http.chunk /\ (~last => d = u.digits)
    BY <2>1
  <2>4. CASE last /\ u.http.chunk.st \in SizeLine
    <3>1. y.http.chunk.st = u.http.chunk.st /\ ~y.http.chunk.end
      BY <1>6, <1>12, <1>14, <2>3
    <3> QED
      BY <1>10, <1>11, <2>4, <3>1 DEF y, c
  <2>5. CASE ~(last /\ u.http.chunk.st \in SizeLine)
    <3>1. d = u.digits
      BY <2>1, <2>2, <2>5
    <3> HIDE DEF d, k, over
    <3>2. v = u
      BY <2>2, <2>3, <3>1 DEF Rechunk, Updated, Shaped, ShapedHttp, ParserFields, HttpFields
    <3> HIDE DEF v
    <3>3. Twins(y, u) /\ ChunkAt(u, Tail(w), m)
      BY <1>6, <2>1, <3>2 DEF Together
    <3>4. ReplyChunks(y, Tail(w), q, m) /\ ~y.http.chunk.end
      BY <1>2, <1>9, <1>12, <1>14, <3>3 DEF ReplyChunks
    <3> QED
      BY <1>10, <1>11, <3>4 DEF y, c
  <2> QED
    BY <2>4, <2>5
<1> QED
  BY <1>4, <1>13, <1>14

-----------------------------------------------------------------------------
(* The answer that begins, and the inductive invariant. *)
LEMMA ReplyBegins ==
  ASSUME NEW h, ShapedHttp(h), NEW g, NEW m, GoodReply(g.response, m)
  PROVE  LET f == [CleanupResponse(h) EXCEPT !.chunk = NoChunks, !.chunked = FALSE]
         IN ReplyOnWay(ParserStart("response", f), ResponsePack(g), g.response)
<1> DEFINE f == [CleanupResponse(h) EXCEPT !.chunk = NoChunks, !.chunked = FALSE]
           x == ParserStart("response", f)
           q == g.response
           u == ReplyHead(q)
<1>1. /\ ShapedHttp(f) /\ f.chunk = NoChunks /\ f.chunked = FALSE /\ f.response = InitResponse
  BY DEF CleanupResponse, ShapedHttp, HttpFields
<1> HIDE DEF f
<1>2. /\ x = [k \in ParserFields |-> x[k]] /\ x.side = "response" /\ x.http = f /\ x.rc = 0
      /\ x.digits = <<>> /\ x.tmp = <<>> /\ x.st = "H"
  BY DEF ParserStart, ParserFields
<1>3. x.done = FALSE
  BY DEF ParserStart
<1> HIDE DEF x
<1>4. ShapedReply(InitResponse) /\ InitResponse.headers = <<>> /\ InitResponse.body = <<>>
  BY InitShaped
<1>5. Begun(x)
  BY <1>1, <1>2, <1>3, <1>4 DEF Begun, Heard
<1>6. PICK b : b \in {<<>>, q.body} /\ ResponsePack(g) = u \o b
  BY ReplyPacks
<1>7. IsSeq(u) /\ IsSeq(BehindVersion(q))
  BY ReplySeqs
<1>8. IsSeq(VersionText(KnownVersion(q.version)))
  BY Known, VersionLetters
<1>9. Reading(<<>>, u, VersionText(KnownVersion(q.version)), BehindVersion(q))
  BY <1>7, <1>8, Begins DEF ReplyHead
<1> HIDE DEF u, q
<1>10. ToVersion(x, u, q)
  <2>1. Len(<<>>) = 0 /\ VersionStates[1] = "H"
    BY DEF VersionStates
  <2> QED
    BY <1>2, <1>9, <2>1 DEF ToVersion
<1>11. InReply(x, u, q)
  BY <1>5, <1>10 DEF InReply
<1> QED
  BY <1>6, <1>7, <1>11 DEF ReplyOnWay, x, f, q

Replying == at[1] = "response" /\ line = "open" /\ ~cut /\ ~call["request"].http.request.shake
Sending == call["request"].http.response
ReplyComes(phase, x, w) == GoodReply(Sending, replied) /\ ReplyWay(phase, x, w, Sending, replied)
AInv == SInv /\ (Replying => ReplyComes(at[2], call["response"], wire))

(* A step of the parser of a response, and one that is none. *)
LEMMA ClientReads ==
  ASSUME AInv, Next, at[1] = "response", NEW y, NEW phase, Becomes(y, phase),
         UNCHANGED <<line, replied>>, cut => cut',
         Replying /\ ~cut' => y.rc = 0 /\ ReplyWay(phase, y, wire', Sending, replied)
  PROVE  AInv'
<1>1. SInv'
  BY SNext DEF AInv
<1>2. /\ call' = [call EXCEPT !["response"] = y]
      /\ at' = <<"response", IF y.rc # 0 THEN "parsed" ELSE phase>>
  BY DEF Becomes, Side
<1>3. call'["response"] = y /\ call'["request"] = call["request"]
  BY <1>2 DEF AInv, SInv, HInv
<1>4. y.rc = 0 => at'[2] = phase
  BY <1>2
<1>5. (Replying => ReplyComes(at[2], call["response"], wire))'
  <2> SUFFICES ASSUME Replying' PROVE ReplyComes(at[2], call["response"], wire)'
    OBVIOUS
  <2>1. Replying /\ ~cut'
    BY <1>3 DEF Replying
  <2>2. GoodReply(Sending, replied)
    BY <2>1 DEF AInv, ReplyComes
  <2>3. Sending' = Sending /\ replied' = replied
    BY <1>3 DEF Sending
  <2>4. y.rc = 0 /\ ReplyWay(phase, y, wire', Sending, replied)
    BY <2>1
  <2>5. GoodReply(Sending', replied') /\ ReplyWay(at'[2], call'["response"], wire', Sending', replied')
    BY <1>3, <1>4, <2>2, <2>3, <2>4
  <2> QED
    BY <2>5 DEF ReplyComes
<1> QED
  BY <1>1, <1>5 DEF AInv

LEMMA NoReply ==
  ASSUME AInv, Next, at'[1] # "response" \/ line' # "open"
  PROVE  AInv'
<1>1. SInv'
  BY SNext DEF AInv
<1> QED
  BY <1>1 DEF AInv, Replying

(* Where the parser of a response runs, and not that of a request. *)
LEMMA ClientAt ==
  ASSUME AInv, NEW phase, At(phase), phase # "idle"
  PROVE  /\ Side # "request" => at[1] = "response" /\ Side = "response"
         /\ Replying => ReplyComes(phase, call["response"], wire)
<1>1. at # Idle /\ at[2] = phase
  BY DEF At, Idle
<1>2. Side # "request" => at[1] = "response"
  BY <1>1 DEF AInv, SInv, HInv, Side
<1> QED
  BY <1>1, <1>2 DEF AInv, Side

LEMMA ServerHere ==
  ASSUME AInv, Next, Side = "request", NEW y, NEW phase, Becomes(y, phase)
  PROVE  AInv'
<1>1. at'[1] # "response"
  BY DEF Becomes
<1> QED
  BY <1>1, NoReply

(* Whatever is answered, the request is left as it is. *)
Asking(h, g) == ShapedHttp(g) /\ g.request = h.request

LEMMA SettersAsk ==
  ASSUME NEW h, ShapedHttp(h), NEW v, NEW n
  PROVE  /\ Asking(h, [h EXCEPT !.response.headers = v]) /\ Asking(h, ResponseSetBody(h, v))
         /\ Asking(h, SetStatus(h, v)) /\ Asking(h, ResponseSetVersion(h, v))
         /\ Asking(h, ResponseSetHeader(h, n, v))
<1>1. \A u : Asking(h, [h EXCEPT !.response = u])
  BY DEF Asking, ShapedHttp, HttpFields
<1>2. \A f : Asking(h, [h EXCEPT !.response[f] = v])
  BY DEF Asking, ShapedHttp, HttpFields
<1>3. Asking(h, h)
  BY DEF Asking
<1>4. Asking(h, ResponseSetBody(h, v))
  <2>1. CASE v = <<>>
    BY <1>3, <2>1 DEF ResponseSetBody
  <2>2. CASE v # <<>>
    <3>1. ResponseSetBody(h, v) = [h EXCEPT !.response.body = v]
      BY <2>2, Zenon DEF ResponseSetBody
    <3> QED
      BY <1>2, <3>1
  <2> QED
    BY <2>1, <2>2
<1>5. Asking(h, ResponseSetHeader(h, n, v))
  BY DEF Asking, ShapedHttp, HttpFields, ResponseSetHeader
<1> QED
  BY <1>2, <1>4, <1>5 DEF SetStatus, ResponseSetVersion

LEMMA AnswerAsks ==
  ASSUME NEW h, ShapedHttp(h), NEW r
  PROVE  Asking(h, Answered(h, r))
<1> DEFINE s == SetStatus(h, r.status)
           b == ResponseSetBody(s, Encoded(r))
           d == [b EXCEPT !.response.headers = SetHeaders(b.response.headers, r.headers)]
           e == ResponseSetBody(h, <<"page">>)
           p == ResponseSetHeader(e, <<"Content-Type">>, <<"text">>)
           o == IF call["request"].rc = 0 THEN Served(h, r) ELSE WithPage(h)
           v == ResponseSetVersion(o, h.request.version)
           c == ResponseSetHeader(v, <<"Connection">>, <<"close">>)
           l == StrText(StrULToA(NoString, Len(o.response.body)))
           g == ResponseSetHeader(c, <<"Content-Length">>, l)
<1>1. \A x, y : Asking(h, x) /\ Asking(x, y) => Asking(h, y)
  BY DEF Asking
<1>2. \A x : Asking(h, x) => ShapedHttp(x)
  BY DEF Asking
<1>3. Asking(h, Served(h, r))
  <2>1. Served(h, r) = d
    BY Zenon DEF Served
  <2>2. Asking(h, s)
    BY SettersAsk
  <2> HIDE DEF s
  <2>3. Asking(h, b)
    BY <1>1, <1>2, <2>2, SettersAsk
  <2> HIDE DEF b
  <2>4. Asking(h, d)
    BY <1>1, <1>2, <2>3, SettersAsk
  <2> QED
    BY <2>1, <2>4
<1>4. Asking(h, WithPage(h))
  <2>1. Asking(h, e)
    BY SettersAsk
  <2> HIDE DEF e
  <2>2. Asking(h, p)
    BY <1>1, <1>2, <2>1, SettersAsk
  <2>3. WithPage(h) = IF h.response.body # <<>> THEN h ELSE p
    BY Zenon DEF WithPage, e
  <2>4. Asking(h, h)
    BY DEF Asking
  <2> HIDE DEF p
  <2> QED
    BY <2>2, <2>3, <2>4
<1>5. Asking(h, o)
  BY <1>3, <1>4
<1>6. Answered(h, r) = g
  BY Zenon DEF Answered
<1> HIDE DEF o
<1>7. Asking(h, v)
  BY <1>1, <1>2, <1>5, SettersAsk
<1> HIDE DEF v
<1>8. Asking(h, c)
  BY <1>1, <1>2, <1>7, SettersAsk
<1> HIDE DEF c, l
<1>9. Asking(h, g)
  BY <1>1, <1>2, <1>8, SettersAsk
<1> QED
  BY <1>6, <1>9

LEMMA AnswerComes ==
  ASSUME \A r \in Replies : Answerable(r), OwnWords \subseteq Words, AInv, Answer
  PROVE  AInv'
<1>1. SInv'
  BY SNext DEF AInv, Next
<1> DEFINE h == call["request"].http
           k == call["response"].http
           client == [CleanupResponse(k) EXCEPT !.chunk = NoChunks, !.chunked = FALSE]
<1>2. PICK r \in Replies :
        /\ replied' = r /\ wire' = ResponsePack(Answered(h, r))
        /\ call' = [call EXCEPT !["request"].http = ResponsePacked(Answered(h, r)),
                                !["response"] = ParserStart("response", client)]
  BY DEF Answer
<1>3. /\ at[1] = "request" /\ at[2] = "parsed" /\ at'[2] = "head"
  BY DEF Answer
<1>4. /\ ShapedHttp(h) /\ ShapedHttp(k) /\ Says(call["request"], "parsed")
      /\ call = [side \in {"request", "response"} |-> call[side]]
      /\ call["request"] = [f \in ParserFields |-> call["request"][f]]
  BY <1>3, ServerShaped DEF AInv, SInv, HInv, Shaped
<1> DEFINE g == Answered(h, r)
           x == ParserStart("response", client)
           p == ResponsePacked(g)
<1>5. call'["response"] = x /\ call'["request"].http = p
  <2> HIDE DEF x, p
  <2>1. "http" \in ParserFields
    BY DEF ParserFields
  <2> QED
    BY <1>2, <1>4, <2>1 DEF x, p, g
<1>6. Asking(h, g)
  BY <1>4, AnswerAsks
<1>7. p.response = g.response /\ p.request.shake = h.request.shake
  <2>1. ShapedHttp(g) /\ g.request = h.request
    BY <1>6 DEF Asking
  <2> HIDE DEF g, h
  <2>2. CASE g.response.version \in {9, 11}
    BY <2>1, <2>2 DEF ResponsePacked
  <2>3. CASE g.response.version \notin {9, 11}
    <3>1. p = [g EXCEPT !.request.version = 10]
      BY <2>3, Zenon DEF ResponsePacked
    <3> HIDE DEF p
    <3> QED
      BY <2>1, <3>1 DEF ShapedHttp, HttpFields, RequestFields
  <2> QED
    BY <2>2, <2>3
<1>8. ~h.request.shake => OwnGood(Own(h, r), h, r)
  <2> SUFFICES ASSUME ~h.request.shake PROVE OwnGood(Own(h, r), h, r)
    OBVIOUS
  <2>1. CASE call["request"].rc = 0
    <3>1. h.response = InitResponse
      BY <1>4, <2>1, Errors DEF Says
    <3>2. ShapedHttp(h) /\ Answerable(r) /\ call["request"].rc = 0
      BY <1>4, <2>1
    <3> HIDE DEF h
    <3> QED
      BY ONLY <3>1, <3>2, ServedGood
  <2>2. CASE call["request"].rc # 0
    <3>1. Noted(InitResponse, h.response)
      BY <1>4, <2>2 DEF Says
    <3>2. OwnWords \subseteq Words /\ ShapedHttp(h) /\ call["request"].rc # 0
      BY <1>4, <2>2
    <3> HIDE DEF h
    <3> QED
      BY ONLY <3>1, <3>2, PageGood
  <2> QED
    BY <2>1, <2>2
<1>9. (Replying => ReplyComes(at[2], call["response"], wire))'
  <2> SUFFICES ASSUME Replying' PROVE ReplyComes(at[2], call["response"], wire)'
    OBVIOUS
  <2>1. ~p.request.shake
    BY <1>5 DEF Replying
  <2>2. OwnGood(Own(h, r), h, r)
    BY <1>7, <1>8, <2>1
  <2>3. GoodReply(g.response, r)
    <3>1. OwnWords \subseteq Words /\ OwnGood(Own(h, r), h, r)
      BY <2>2
    <3> HIDE DEF g, h
    <3>2. GoodReply(Answered(h, r).response, r)
      BY ONLY <3>1, AnswerGood
    <3> QED
      BY <3>2 DEF g
  <2>4. ReplyOnWay(x, ResponsePack(g), g.response)
    <3>1. ShapedHttp(k) /\ GoodReply(g.response, r)
      BY <1>4, <2>3
    <3> HIDE DEF g, k
    <3> QED
      BY ONLY <3>1, ReplyBegins DEF x, client
  <2>5. /\ Sending' = g.response /\ replied' = r /\ wire' = ResponsePack(g)
        /\ call'["response"] = x /\ at'[2] = "head"
    BY <1>2, <1>3, <1>5, <1>7 DEF Sending
  <2> HIDE DEF g, x
  <2>6. ReplyWay("head", x, wire', g.response, r)
    BY <2>4, <2>5 DEF ReplyWay
  <2>7. GoodReply(Sending', replied') /\ ReplyWay(at'[2], call'["response"], wire', Sending', replied')
    BY <2>3, <2>5, <2>6
  <2> QED
    BY <2>7 DEF ReplyComes
<1> QED
  BY <1>1, <1>9 DEF AInv

LEMMA TakeHeadComes == AInv /\ TakeHead => AInv'
<1> SUFFICES ASSUME AInv, TakeHead PROVE AInv'
  OBVIOUS
<1> DEFINE x == call["response"]
           y == HeadChar(x, Head(wire))
           phase == IF y.done THEN "headed" ELSE "head"
<1>0. At("head") /\ Next /\ UNCHANGED <<line, replied, cut>> /\ wire' = Tail(wire)
  BY DEF TakeHead, Next
<1>1. /\ Side # "request" => at[1] = "response" /\ Side = "response"
      /\ Replying => ReplyComes("head", x, wire)
  BY <1>0, ClientAt
<1>2. CASE Side = "request"
  <2>1. PICK z, p : Becomes(z, p)
    BY Zenon DEF TakeHead
  <2> QED
    BY <1>0, <1>2, <2>1, ServerHere
<1>3. CASE Side # "request"
  <2>1. Becomes(y, phase)
    <3>1. Becomes(HeadChar(call[Side], Head(wire)),
                  IF HeadChar(call[Side], Head(wire)).done THEN "headed" ELSE "head")
      BY Zenon DEF TakeHead
    <3> QED
      BY <1>1, <1>3, <3>1, Zenon
  <2>2. Replying => y.rc = 0 /\ ReplyWay(phase, y, wire', Sending, replied)
    <3> SUFFICES ASSUME Replying
                 PROVE  y.rc = 0 /\ ReplyWay(phase, y, wire', Sending, replied)
      OBVIOUS
    <3> DEFINE q == Sending
               m == replied
    <3>1. GoodReply(q, m) /\ ReplyOnWay(x, wire, q)
      BY <1>1 DEF ReplyComes, ReplyWay
    <3> HIDE DEF q, m, x
    <3>2. y.rc = 0 /\ ReplyWay(phase, y, Tail(wire), q, m)
      BY ONLY <3>1, ReplyHeadGoes
    <3> HIDE DEF y, phase
    <3> QED
      BY <1>0, <3>2 DEF q, m
  <2> HIDE DEF y, phase
  <2>3. UNCHANGED <<line, replied>> /\ (cut => cut') /\ at[1] = "response"
    BY <1>0, <1>1, <1>3
  <2> QED
    BY <1>0, <2>1, <2>2, <2>3, ClientReads
<1> QED
  BY <1>2, <1>3

(* What follows the head of a response. *)
LEMMA ReplyDecides ==
  ASSUME NEW x, NEW q, NEW m, GoodReply(q, m), ReplyHeaded(x, wire, q), NEW rest,
         DecideResponse(x, rest)
  PROVE  \E y, phase : Becomes(y, phase) /\ y.rc = 0 /\ ReplyWay(phase, y, wire', q, m)
<1> DEFINE go == [x EXCEPT !.http.chunked = TRUE]
           full == [x EXCEPT !.http.response.body = rest]
           measured == /\ HasHeader(x.http.request.headers, <<"Content-Length">>)
                       /\ Length(x.http.request.headers) > 0
<1>1. HeadHeard(x, q)
  BY HeadedIs
<1>2. Chunked(x) <=> ByChunks(q.headers)
  BY <1>1, HeardFound
<1>3. CASE Chunked(x)
  <2>1. Becomes(go, "chunks") /\ wire' = wire
    BY <1>3, Zenon DEF DecideResponse
  <2>2. go.rc = 0 /\ ReplyChunks(go, wire, q, m)
    <3>1. GoodReply(q, m) /\ ReplyHeaded(x, wire, q) /\ ByChunks(q.headers)
      BY <1>2, <1>3
    <3> QED
      BY ONLY <3>1, ReplyChunksBegin
  <2> HIDE DEF go
  <2>3. ReplyWay("chunks", go, wire', q, m)
    BY <2>1, <2>2 DEF ReplyWay
  <2> QED
    BY <2>1, <2>2, <2>3
<1>4. CASE ~Chunked(x) /\ measured
  <2>1. Becomes(full, BodyPhase(full))
    BY <1>4, Zenon DEF DecideResponse
  <2>2. full = Written(x, "body", rest)
    BY DEF Written
  <2> HIDE DEF full, measured
  <2>3. ReplyBody(x, q)
    BY <1>1, <1>2, <1>4 DEF ReplyBody
  <2>4. full.rc = 0 /\ ReplyWay(BodyPhase(full), full, wire', q, m)
    BY <2>2, <2>3, PlainBody
  <2> QED
    BY <2>1, <2>4
<1>5. CASE ~Chunked(x) /\ ~measured
  <2>1. Becomes(x, "parsed")
    BY <1>5, Zenon DEF DecideResponse
  <2>2. ReplyParsed(x, q, m)
    BY <1>1, <1>2, <1>5 DEF ReplyParsed
  <2>3. x.rc = 0 /\ ReplyWay("parsed", x, wire', q, m)
    BY <1>1, <2>2 DEF ReplyWay, HeadHeard
  <2> QED
    BY <2>1, <2>3
<1> QED
  BY <1>3, <1>4, <1>5

LEMMA DecideComes == AInv /\ Decide => AInv'
<1> SUFFICES ASSUME AInv, Decide PROVE AInv'
  OBVIOUS
<1> DEFINE x == call["response"]
<1>0. At("headed") /\ Next /\ UNCHANGED <<line, replied, cut>>
  BY DEF Decide, Next
<1>1. /\ Side # "request" => at[1] = "response" /\ Side = "response"
      /\ Replying => ReplyComes("headed", x, wire)
  BY <1>0, ClientAt
<1>2. CASE Side = "request"
  <2>1. PICK n \in 0 .. Len(wire) :
          DecideRequest(EndHead(call["request"], n > 0), SubSeq(wire, 1, n))
    BY <1>2 DEF Decide
  <2>2. at'[1] = "request"
    BY <1>2, <2>1 DEF DecideRequest, Becomes
  <2> QED
    BY <1>0, <2>2, NoReply
<1>3. CASE Side # "request"
  <2>1. PICK n \in 0 .. Len(wire) : DecideResponse(x, SubSeq(wire, 1, n))
    BY <1>1, <1>3 DEF Decide
  <2> DEFINE rest == SubSeq(wire, 1, n)
  <2>2. DecideResponse(x, rest)
    BY <2>1
  <2> HIDE DEF rest
  <2>3. UNCHANGED <<line, replied>> /\ (cut => cut') /\ at[1] = "response"
    BY <1>0, <1>1, <1>3
  <2>4. CASE Replying
    <3>1. GoodReply(Sending, replied) /\ ReplyHeaded(x, wire, Sending)
      BY <1>1, <2>4 DEF ReplyComes, ReplyWay
    <3> HIDE DEF x
    <3>2. PICK y, phase : Becomes(y, phase) /\ y.rc = 0 /\ ReplyWay(phase, y, wire', Sending, replied)
      BY <2>2, <3>1, ReplyDecides
    <3> QED
      BY <1>0, <2>3, <3>2, ClientReads
  <2>5. CASE ~Replying
    <3>1. ~Replying'
      <4>1. call'["request"] = call["request"]
        <5>1. PICK y, phase : Becomes(y, phase)
          <6> DEFINE go == [x EXCEPT !.http.chunked = TRUE]
                     full == [x EXCEPT !.http.response.body = rest]
                     measured == /\ HasHeader(x.http.request.headers, <<"Content-Length">>)
                                 /\ Length(x.http.request.headers) > 0
          <6>1. CASE Chunked(x)
            BY <2>2, <6>1, Zenon DEF DecideResponse
          <6>2. CASE ~Chunked(x) /\ measured
            BY <2>2, <6>2, Zenon DEF DecideResponse
          <6>3. CASE ~Chunked(x) /\ ~measured
            BY <2>2, <6>3, Zenon DEF DecideResponse
          <6> QED
            BY <6>1, <6>2, <6>3
        <5> QED
          BY <1>1, <1>3, <5>1 DEF Becomes, AInv, SInv, HInv
      <4> QED
        BY <1>0, <2>3, <2>5, <4>1 DEF Replying
    <3>2. SInv'
      BY <1>0, SNext DEF AInv
    <3> QED
      BY <3>1, <3>2 DEF AInv
  <2> QED
    BY <2>4, <2>5
<1> QED
  BY <1>2, <1>3

LEMMA TakeBodyComes == AInv /\ TakeBody => AInv'
<1> SUFFICES ASSUME AInv, TakeBody PROVE AInv'
  OBVIOUS
<1> DEFINE x == call["response"]
           y(n) == Written(x, "body", x.http.response.body \o SubSeq(wire, 1, n))
<1>0. At("body") /\ Next /\ UNCHANGED <<line, replied, cut>>
  BY DEF TakeBody, Next
<1>1. /\ Side # "request" => at[1] = "response" /\ Side = "response"
      /\ Replying => ReplyComes("body", x, wire)
  BY <1>0, ClientAt
<1>2. CASE Side = "request"
  <2>1. PICK z, p : Becomes(z, p)
    BY Zenon DEF TakeBody
  <2> QED
    BY <1>0, <1>2, <2>1, ServerHere
<1>3. CASE Side # "request"
  <2>1. PICK n \in 1 .. Len(wire) : Becomes(y(n), BodyPhase(y(n)))
    BY <1>1, <1>3 DEF TakeBody, Written
  <2>2. PICK b : y(n) = Written(x, "body", b)
    OBVIOUS
  <2>3. PICK z : z = y(n)
    OBVIOUS
  <2> HIDE DEF y
  <2>4. Becomes(z, BodyPhase(z)) /\ z = Written(x, "body", b)
    BY <2>1, <2>2, <2>3
  <2>5. Replying => z.rc = 0 /\ ReplyWay(BodyPhase(z), z, wire', Sending, replied)
    <3> SUFFICES ASSUME Replying
                 PROVE  z.rc = 0 /\ ReplyWay(BodyPhase(z), z, wire', Sending, replied)
      OBVIOUS
    <3>1. ReplyBody(x, Sending)
      BY <1>1 DEF ReplyComes, ReplyWay
    <3> QED
      BY <2>4, <3>1, PlainBody
  <2>6. UNCHANGED <<line, replied>> /\ (cut => cut') /\ at[1] = "response"
    BY <1>0, <1>1, <1>3
  <2> QED
    BY <1>0, <2>4, <2>5, <2>6, ClientReads
<1> QED
  BY <1>2, <1>3

(* Nothing is sent while the end of the chunks of a reply is waited for. *)
LEMMA TakeChunkComes == AInv /\ TakeChunk => AInv'
<1> SUFFICES ASSUME AInv, TakeChunk PROVE AInv'
  OBVIOUS
<1> DEFINE x == call["response"]
           y(last) == ChunkRound(x, Head(wire), last)
           phase(z) == IF z.http.chunk.end THEN "parsed" ELSE "chunks"
<1>0. At("chunks") /\ Next /\ UNCHANGED <<line, replied>> /\ wire' = Tail(wire) /\ wire # <<>>
  BY DEF TakeChunk, Next
<1>1. /\ Side # "request" => at[1] = "response" /\ Side = "response"
      /\ Replying => ReplyComes("chunks", x, wire)
  BY <1>0, ClientAt
<1>2. CASE Side = "request"
  <2>1. PICK z, p : Becomes(z, p)
    BY Zenon DEF TakeChunk
  <2> QED
    BY <1>0, <1>2, <2>1, ServerHere
<1>3. CASE Side # "request"
  <2>1. PICK last \in BOOLEAN : /\ Becomes(ChunksOver(y(last)), phase(y(last)))
                                /\ cut' = (cut \/ (last /\ y(last).http.chunk.st \in SizeLine))
    BY <1>1, <1>3 DEF TakeChunk
  <2>2. PICK z : z = y(last)
    OBVIOUS
  <2>3. Becomes(ChunksOver(z), phase(z)) /\ cut' = (cut \/ (last /\ z.http.chunk.st \in SizeLine))
    BY <2>1, <2>2
  <2>4. Replying /\ ~cut' => /\ ChunksOver(z) = z /\ z.rc = 0
                             /\ ReplyWay(phase(z), z, wire', Sending, replied)
    <3> SUFFICES ASSUME Replying, ~cut'
                 PROVE  /\ ChunksOver(z) = z /\ z.rc = 0
                        /\ ReplyWay(phase(z), z, wire', Sending, replied)
      OBVIOUS
    <3> DEFINE q == Sending
               m == replied
    <3>1. ~(last /\ z.http.chunk.st \in SizeLine)
      BY <2>3
    <3>2. GoodReply(q, m) /\ ReplyChunks(x, wire, q, m) /\ wire # <<>> /\ last \in BOOLEAN
      BY <1>0, <1>1, <2>1 DEF ReplyComes, ReplyWay
    <3> HIDE DEF q, m, x
    <3>3. z = ChunkRound(x, Head(wire), last)
      BY <2>2
    <3>4. /\ z.rc = 0 /\ ChunksOver(z) = z
          /\ z.http.chunk.end => ReplyParsed(z, q, m)
          /\ ~z.http.chunk.end => \/ last /\ z.http.chunk.st \in SizeLine
                                  \/ ReplyChunks(z, Tail(wire), q, m)
      BY ONLY <3>2, <3>3, ReplyChunkGoes
    <3>5. ReplyWay(phase(z), z, Tail(wire), q, m)
      BY <3>1, <3>4 DEF ReplyWay
    <3> HIDE DEF phase
    <3> QED
      BY <1>0, <3>4, <3>5 DEF q, m
  <2>5. PICK u : u = ChunksOver(z)
    OBVIOUS
  <2>6. PICK p : p = phase(z)
    OBVIOUS
  <2> HIDE DEF phase, y, x
  <2>7. Becomes(u, p) /\ (Replying /\ ~cut' => u.rc = 0 /\ ReplyWay(p, u, wire', Sending, replied))
    BY <2>3, <2>4, <2>5, <2>6
  <2>8. UNCHANGED <<line, replied>> /\ (cut => cut') /\ at[1] = "response"
    BY <1>0, <1>1, <1>3, <2>3
  <2> QED
    BY <1>0, <2>7, <2>8, ClientReads
<1> QED
  BY <1>2, <1>3

LEMMA NothingComes == AInv /\ (Ask \/ HangUp \/ HeadEnds \/ HeadFails \/ BodyFails) => AInv'
<1> SUFFICES ASSUME AInv, Ask \/ HangUp \/ HeadEnds \/ HeadFails \/ BodyFails PROVE AInv'
  OBVIOUS
<1>1. Next
  BY DEF Next
<1>2. line' # "open" \/ at'[1] # "response"
  BY DEF Ask, HangUp, HeadEnds, HeadFails, BodyFails
<1> QED
  BY <1>1, <1>2, NoReply

(* Every answer that can be read back arrives, whatever service or page it   *)
(* is, wherever it is cut into pieces, and whatever the two contexts served  *)
(* before.  The answer to a request that shakes is not among them: the       *)
(* parser has left the reason of a 100 in the context, and the worker writes *)
(* it behind the status of the service.                                      *)
THEOREM RepliesArrive ==
  ASSUME \A r \in Replies : Answerable(r), OwnWords \subseteq Words
  PROVE  Spec => [](~call["request"].http.request.shake => ReplyArrives)
<1>1. Init => AInv
  <2>1. Init => SInv
    BY InitDue
  <2>2. Init => ~Replying
    BY DEF Init, Idle, Replying
  <2> QED
    BY <2>1, <2>2 DEF AInv
<1>2. AInv /\ [Next]_vars => AInv'
  <2> SUFFICES ASSUME AInv, [Next]_vars PROVE AInv'
    OBVIOUS
  <2>1. CASE UNCHANGED vars
    <3>1. SInv'
      BY SNext DEF AInv
    <3>2. /\ Replying' = Replying /\ Sending' = Sending
          /\ at' = at /\ call' = call /\ wire' = wire /\ replied' = replied
      BY <2>1 DEF vars, Replying, Sending
    <3>3. ReplyComes(at[2], call["response"], wire) => ReplyComes(at[2], call["response"], wire)'
      BY <3>2 DEF ReplyComes
    <3> QED
      BY <3>1, <3>2, <3>3 DEF AInv
  <2>2. Answer => AInv'
    BY AnswerComes
  <2> QED
    BY <2>1, <2>2, NothingComes, TakeHeadComes, DecideComes, TakeBodyComes, TakeChunkComes DEF Next
<1>3. AInv => (~call["request"].http.request.shake => ReplyArrives)
  <2> SUFFICES ASSUME AInv, ~call["request"].http.request.shake, Returned, ~cut
               PROVE  ReplyArrives
    BY DEF ReplyArrives
  <2> DEFINE x == call["response"]
             got == x.http.response
  <2>1. Replying /\ at[2] = "parsed"
    BY DEF Replying, Returned
  <2>2. GoodReply(Sending, replied) /\ ReplyParsed(x, Sending, replied)
    BY <2>1 DEF AInv, ReplyComes, ReplyWay
  <2>3. HeadHeard(x, Sending)
    BY <2>2 DEF ReplyParsed
  <2>4. /\ x.rc = 0 /\ got.status = Sending.status
        /\ Dotted(got.version) = Dotted(Sending.version)
        /\ got.reason = ReasonPhrase(Sending.status)
    BY <2>3 DEF HeadHeard, LineHeard, StatusHeard, VersionHeard
  <2>5. /\ Chunked(x) <=> ByChunks(Sending.headers)
        /\ SameHeaders(got.headers, Sending.headers)
    BY <2>2, <2>3, HeardFound
  <2>6. Chunked(x) => got.body = Content(replied)
    BY <2>2, <2>5 DEF ReplyParsed
  <2> QED
    BY <2>4, <2>5, <2>6 DEF ReplyArrives, Sending
<1> QED
  BY <1>1, <1>2, <1>3, PTL DEF Spec
=============================================================================
