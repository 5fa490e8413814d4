---------------------------- MODULE HttpExchange ----------------------------
(* Requests and replies between a client that uses eris.http.c (or sends      *)
(* bytes of its own) and a server's worker, whose HTTP context serves one     *)
(* exchange after the other.  Both parsers read what the callback hands them  *)
(* piece by piece.  Nothing is fixed about the pieces but that they are not   *)
(* empty: an action takes one character, and says, where it matters, whether  *)
(* a piece ends behind it.                                                    *)
EXTENDS HttpChunk
LOCAL INSTANCE SequencesExt

CONSTANTS
  Requests,   \* what clients ask: see Filled and Encoded for the fields
  Malformed,  \* bytes that are no request, [bytes, status]
  Replies,    \* what services answer: [status, headers, chunks]
  MaxRound      \* bound on the exchanges of one context

VARIABLES
  at,         \* <<whose parser runs, "request" or "response", and where it is>>
  call,       \* call[side]: the parser with the context of that side
  wire,       \* the bytes on the way to the parser that runs
  line,       \* "open", "fin" (shut down by the peer) or "fails" (reset, timeout)
  asked, replied, round,
  cut         \* a chunk's size line was cut into two pieces

vars == <<at, call, wire, line, asked, replied, round, cut>>

Side == at[1]
At(phase) == at[2] = phase
Idle == <<"idle", "idle">>

Init ==
  /\ at = Idle /\ wire = <<>> /\ line = "open" /\ round = 0 /\ cut = FALSE
  /\ call = [side \in {"request", "response"} |-> ParserStart(side, InitHttp)]
  /\ asked = <<>> /\ replied = <<>>

(***************************************************************************)
(* What is sent.                                                           *)
(***************************************************************************)
SetHeaders(headers, fields) ==
  LET first[i \in 0..Len(fields)] ==
        IF i = 0 THEN headers ELSE SetHeader(first[i - 1], fields[i].name, fields[i].value)
  IN first[Len(fields)]

Filled(h, m) ==
  LET line0 == RequestSetVersion(SetCommand(CleanupHttp(h), CommandNumber(m.command)), m.version)
      target == SetFragment(SetQuery(SetParameters(SetUrl(line0, m.url), m.parameters),
                                     m.query), m.fragment)
  IN [target EXCEPT !.request.headers = SetHeaders(@, m.headers)]

\* The size of a chunk has its extensions on its line, the trailer lines of its own.
HexSize(n) == IF n < 16 THEN <<HexDigitChar(n)>>
              ELSE <<HexDigitChar(n \div 16), HexDigitChar(n % 16)>>
Extensions(m) ==
  FlattenSeq([i \in DOMAIN m.extension |->
                <<SEMI>> \o m.extension[i].name \o <<"=">> \o m.extension[i].value])
Chunk(m, s) == HexSize(Len(s)) \o Extensions(m) \o CRLF \o s \o CRLF
TrailerLine(n) == n.name \o <<":">> \o n.value \o CRLF
Trailer(m) == FlattenSeq([i \in DOMAIN m.trailer |-> TrailerLine(m.trailer[i])])
ChunkLines(m) ==
  FlattenSeq([i \in DOMAIN m.chunks |-> Chunk(m, m.chunks[i])])
    \o <<"0">> \o CRLF \o Trailer(m) \o CRLF
Content(m) == FlattenSeq(m.chunks)
Encoded(m) == IF m.chunked THEN ChunkLines(m) ELSE Content(m)

IsRequest == asked # <<>> /\ "bytes" \notin DOMAIN asked

\* eris_slave_handler cleans the context, and begins to parse.
Begin(h) == ParserStart("request", CleanupRequest(CleanupHttp(h)))

Ask ==
  /\ \/ at = Idle
     \/ At("parsed") /\ Side = "response"
     \/ At("parsed") /\ line # "open"
  /\ round < MaxRound /\ round' = round + 1
  /\ \E m \in Requests \cup Malformed :
       LET raw == "bytes" \in DOMAIN m
           client == IF raw THEN CleanupHttp(call["response"].http)
                     ELSE RequestPacked(Filled(call["response"].http, m))
       IN /\ asked' = m
          /\ wire' = IF raw THEN m.bytes ELSE RequestPack(client) \o Encoded(m)
          /\ call' = [request |-> Begin(call["request"].http),
                      response |-> ParserStart("response", client)]
  /\ at' = <<"request", "head">> /\ line' = "open" /\ cut' = FALSE /\ replied' = <<>>

\* What was not received yet is lost.
HangUp ==
  /\ at # Idle /\ ~At("parsed") /\ line = "open"
  /\ line' \in {"fin", "fails"} /\ wire' = <<>>
  /\ UNCHANGED <<at, call, asked, replied, round, cut>>

(***************************************************************************)
(* The head.                                                               *)
(***************************************************************************)
Becomes(x, phase) ==
  /\ call' = [call EXCEPT ![Side] = x]
  /\ at' = <<Side, IF x.rc # 0 THEN "parsed" ELSE phase>>

TakeHead ==
  /\ At("head") /\ wire # <<>>
  /\ LET x == HeadChar(call[Side], Head(wire))
     IN Becomes(x, IF x.done THEN "headed" ELSE "head")
  /\ wire' = Tail(wire)
  /\ UNCHANGED <<line, asked, replied, round, cut>>

\* The end of the stream ends the call with what there is, and 0.
HeadEnds ==
  /\ At("head") /\ wire = <<>> /\ line = "fin"
  /\ Becomes(call[Side], "parsed")
  /\ UNCHANGED <<wire, line, asked, replied, round, cut>>

HeadFails ==
  /\ At("head") /\ wire = <<>> /\ line = "fails"
  /\ Becomes(IF Side = "request" THEN Refuse(call[Side], EERIS_ERROR, 408, 10)
             ELSE [call[Side] EXCEPT !.rc = EERIS_ERROR], "parsed")
  /\ UNCHANGED <<wire, line, asked, replied, round, cut>>

(***************************************************************************)
(* What follows the head.  rest came with its last piece.                  *)
(***************************************************************************)
Length(headers) == SignedNumber(LongBits, HeaderValue(headers, <<"Content-Length">>))

\* Mutant of LengthRefused: the number is compared with its sign.
LengthRefusedSigned(x) ==
  LET headers == x.http.request.headers
  IN CASE ~HasHeader(headers, <<"Content-Length">>) -> Refuse(x, EERIS_4XX, 411, 10)
       [] HasHeader(headers, <<"Content-Length">>) /\ Length(headers) > BodyMax ->
            Refuse(x, EERIS_4XX, 413, 10)
       [] OTHER -> x

\* A negative length is compared as an unsigned one.
LengthRefused(x) ==
  LET headers == x.http.request.headers
  IN CASE ~HasHeader(headers, <<"Content-Length">>) -> Refuse(x, EERIS_4XX, 411, 10)
       [] HasHeader(headers, <<"Content-Length">>) /\
            (Length(headers) < 0 \/ Length(headers) > BodyMax) -> Refuse(x, EERIS_4XX, 413, 10)
       [] OTHER -> x

\* Expect is looked for, and the value of Transfer-Encoding compared.
Shakes(x) ==
  /\ HasHeader(x.http.request.headers, <<"Expect">>)
  /\ HeaderIs(x.http.request.headers, <<"Transfer-Encoding">>, <<"100-continue">>)
Shaken(x) ==
  LengthRefused([x EXCEPT !.http = Refusal([@ EXCEPT !.request.shake = TRUE], 100, 11)])

\* All that came is the body, also what exceeds the length.
Body(x) == x.http[x.side].body
\* Mutant of BodyPhase: a complete body is waited for.
BodyPhaseOneMore(x) ==
  IF Len(Body(x)) <= Length(x.http.request.headers) THEN "body" ELSE "parsed"

BodyPhase(x) ==
  IF Len(Body(x)) < Length(x.http.request.headers) THEN "body" ELSE "parsed"

Chunked(x) == HeaderIs(x.http[x.side].headers, <<"Transfer-Encoding">>, <<"chunked">>)

DecideRequest(x, rest) ==
  LET plain == LengthRefused([x EXCEPT !.http.request.body = rest])
  IN CASE x.rc # 0 \/ ~Carries(x.http.request.command) -> Becomes(x, "parsed") /\ wire' = <<>>
       [] x.rc = 0 /\ Carries(x.http.request.command) /\ Shakes(x) ->
            Becomes(Shaken(x), "parsed") /\ wire' = <<>>
       [] x.rc = 0 /\ Carries(x.http.request.command) /\ ~Shakes(x) /\ Chunked(x) ->
            Becomes([x EXCEPT !.http.chunked = TRUE], "chunks") /\ UNCHANGED wire
       [] OTHER -> /\ Becomes(plain, BodyPhase(plain))
                   /\ wire' = SubSeq(wire, Len(rest) + 1, Len(wire))

\* The length of a response is taken from the headers of the request.
DecideResponse(x, rest) ==
  LET full == [x EXCEPT !.http.response.body = rest]
      measured == /\ HasHeader(x.http.request.headers, <<"Content-Length">>)
                  /\ Length(x.http.request.headers) > 0
  IN CASE Chunked(x) -> Becomes([x EXCEPT !.http.chunked = TRUE], "chunks") /\ UNCHANGED wire
       [] ~Chunked(x) /\ measured -> /\ Becomes(full, BodyPhase(full))
                                     /\ wire' = SubSeq(wire, Len(rest) + 1, Len(wire))
       [] OTHER -> Becomes(x, "parsed") /\ wire' = <<>>

Decide ==
  /\ At("headed")
  /\ \E n \in 0..Len(wire) :
       IF Side = "request" THEN DecideRequest(EndHead(call[Side], n > 0), SubSeq(wire, 1, n))
       ELSE DecideResponse(call[Side], SubSeq(wire, 1, n))
  /\ UNCHANGED <<line, asked, replied, round, cut>>

(***************************************************************************)
(* The body.  A stream that has ended, or fails while chunks are read, is  *)
(* asked again and again: no action of the model.                          *)
(***************************************************************************)
TakeBody ==
  /\ At("body") /\ wire # <<>>
  /\ \E n \in 1..Len(wire) :
       LET x == [call[Side] EXCEPT !.http[Side].body = @ \o SubSeq(wire, 1, n)]
       IN Becomes(x, BodyPhase(x)) /\ wire' = SubSeq(wire, n + 1, Len(wire))
  /\ UNCHANGED <<line, asked, replied, round, cut>>

BodyFails ==
  /\ At("body") /\ wire = <<>> /\ line = "fails"
  /\ Becomes(IF Side = "request" THEN Refuse(call[Side], EERIS_4XX, 408, 10)
             ELSE [call[Side] EXCEPT !.rc = EERIS_DATA, !.http.response.body = <<>>], "parsed")
  /\ UNCHANGED <<wire, line, asked, replied, round, cut>>

SizeLine == {"CHUNK_SIZE", "EXT_NAME", "EXT_VALUE", "CR1"}

\* Whatever is wrong with the chunks of a request, 408 is noted in the end.
ChunksOver(x) ==
  CASE x.http.chunk.end \/ x.rc = 0 -> x
    [] ~x.http.chunk.end /\ x.rc # 0 /\ x.side = "request" -> [x EXCEPT !.http = Refusal(@, 408, 10)]
    [] OTHER -> [x EXCEPT !.http.response.body = <<>>]

TakeChunk ==
  /\ At("chunks") /\ wire # <<>>
  /\ \E last \in BOOLEAN :
       LET x == ChunkRound(call[Side], Head(wire), last)
       IN /\ Becomes(ChunksOver(x), IF x.http.chunk.end THEN "parsed" ELSE "chunks")
          /\ cut' = (cut \/ (last /\ x.http.chunk.st \in SizeLine))
  /\ wire' = Tail(wire)
  /\ UNCHANGED <<line, asked, replied, round>>

(***************************************************************************)
(* The answer: a service's, or the status the parser noted.                *)
(***************************************************************************)
\* The worker makes a page for an error that has no text, and sets the version
\* of the request, the length and that it closes.
WithPage(h) ==
  IF h.response.body # <<>> THEN h
  ELSE ResponseSetHeader(ResponseSetBody(h, <<"page">>), <<"Content-Type">>, <<"text">>)
Served(h, r) ==
  [ResponseSetBody(SetStatus(h, r.status), Encoded(r)) EXCEPT
     !.response.headers = SetHeaders(@, r.headers)]
Answered(h, r) ==
  LET own == IF call["request"].rc = 0 THEN Served(h, r) ELSE WithPage(h)
      closing == ResponseSetHeader(ResponseSetVersion(own, h.request.version),
                                   <<"Connection">>, <<"close">>)
      size == StrULToA(NoString, Len(own.response.body))
  IN ResponseSetHeader(closing, <<"Content-Length">>, StrText(size))

Answer ==
  /\ at = <<"request", "parsed">> /\ line = "open"
  /\ \E r \in Replies :
       LET server == Answered(call["request"].http, r)
           client == [CleanupResponse(call["response"].http) EXCEPT !.chunk = NoChunks, !.chunked = FALSE]
       IN /\ replied' = r
          /\ wire' = ResponsePack(server)
          /\ call' = [call EXCEPT !["request"].http = ResponsePacked(server),
                                  !["response"] = ParserStart("response", client)]
  /\ at' = <<"response", "head">> /\ cut' = FALSE
  /\ UNCHANGED <<line, asked, round>>

Next == \/ Ask \/ HangUp \/ TakeHead \/ HeadEnds \/ HeadFails \/ Decide \/ TakeBody
        \/ BodyFails \/ TakeChunk \/ Answer

Spec == Init /\ [][Next]_vars

\* The thread that parses runs on, as long as it gets bytes or an end of them.
Parses == TakeHead \/ HeadEnds \/ HeadFails \/ Decide \/ TakeBody \/ BodyFails \/ TakeChunk
FairSpec == Spec /\ WF_vars(Parses)

(***************************************************************************)
(* Properties.                                                             *)
(***************************************************************************)
Received == at = <<"request", "parsed">> /\ line = "open"
Returned == at = <<"response", "parsed">> /\ line = "open"

SameHeaders(got, meant) ==
  \A i \in DOMAIN meant : HeaderIs(got, meant[i].name, meant[i].value)

\* A request that can be read back: its number is the one of the name it is
\* written as, which ends at 15; no part holds what ends it; a header is there,
\* the head is within its limits, and a body comes with the command, headers
\* and chunks it is read by.
Symbols == DOMAIN CodeOf \cup Words
Free(marks) == Seq(Symbols \ marks)
Names == Seq({c \in Symbols : IsNameChar(c)})
Fields(names, values) == Seq([name : names, value : values])

LineSendable(r) ==
  /\ \E w \in Recognised : w = CommandArrs[r.command + 1] /\ CommandNumber(w) = r.command
  /\ r.url \in Free({SP, SEMI, "?", "#", "\r"}) \ {<<>>}
  /\ r.url[1] = "/" /\ Len(r.url) <= UrlMax
  /\ r.parameters \in Free({SP, "?", "#", "\r"})
  /\ r.query \in Free({SP, SEMI, "#", "\r"})
  /\ r.fragment \in Free({SP, "\r"})

ChunksSendable(m) ==
  /\ \A i \in DOMAIN m.chunks :
       m.chunks[i] \in Free({"\r"}) /\ Len(m.chunks[i]) \in 1..255
  /\ m.extension \in Fields(Names, Names)
  /\ m.trailer \in Fields(Names \ {<<>>}, Names)

Sendable(m) ==
  LET client == RequestPacked(Filled(InitHttp, m))
      x == ParserStart("request", client)
      head == Len(RequestPack(client))
      size == Len(Content(m))
  IN /\ "bytes" \notin DOMAIN m /\ LineSendable(client.request)
     /\ m.headers \in Fields(Names \ {<<>>}, Free({"\r"})) \ {<<>>}
     /\ head <= HeaderMax /\ (Encoded(m) # <<>> => head < HeaderMax)
     /\ m.chunks \in Seq(Free({})) /\ m.chunked \in BOOLEAN
     /\ m.chunked => ChunksSendable(m)
     /\ IF Carries(client.request.command)
        THEN /\ ~Shakes(x) /\ size <= BodyMax /\ (Chunked(x) <=> m.chunked)
             /\ m.chunked \/ (HasHeader(client.request.headers, <<"Content-Length">>) /\
                              Length(client.request.headers) = size)
        ELSE size = 0

\* An answer that can be read back: the body is in chunks if its headers say so.
Answerable(r) ==
  /\ r.status \in Statuses /\ r.headers \in Fields(Names \ {<<>>}, Free({"\r"}))
  /\ r.chunks \in Seq(Free({})) /\ r.chunked \in BOOLEAN
  /\ r.chunked => ChunksSendable(r)
  /\ HeaderIs(SetHeaders(<<>>, r.headers), <<"Transfer-Encoding">>, <<"chunked">>) => r.chunked
\* The names of the headers that the worker sets of its own.
OwnWords == {"Content-Type", "Connection", "Content-Length"}

\* A request that eris_http_request_pack wrote is read by
\* eris_http_request_parse as it was meant, wherever it is cut into pieces and
\* whatever the context served before, but for what
\*  - a cut in the line with a chunk's size loses (the digits are a local
\*    variable), and
\*  - a context that was used before still has of parameters and fragment.
ReadAsMeant ==
  (Received /\ IsRequest /\ ~cut) =>
    LET got == call["request"].http.request
        meant == call["response"].http.request
    IN /\ call["request"].rc = 0
       /\ got.command = meant.command /\ got.version = meant.version
       /\ got.url = meant.url /\ got.query = meant.query
       /\ SameHeaders(got.headers, meant.headers)
       /\ got.body = Content(asked)
       /\ round = 1 => (got.parameters = meant.parameters /\ got.fragment = meant.fragment)

\* Bytes that are no request are refused with the status that is due, wherever
\* they are cut.
RefusedAsDue ==
  (Received /\ asked # <<>> /\ ~IsRequest) =>
    /\ call["request"].rc # 0
    /\ call["request"].http.response.status = asked.status

\* No request, however long, makes the context hold more than the limits allow:
\* one byte over them is stored before each of them is noticed.  A body with a
\* length is not bounded by it: what came with the head is kept.
Bounded ==
  LET h == call["request"].http
      inHead(s) == Len(s) <= HeaderMax
  IN /\ Len(h.request.url) <= UrlMax + 1
     /\ inHead(h.request.query) /\ call["request"].size <= HeaderMax
     /\ h.chunked => Len(h.request.body) <= BodyMax + 1

\* The client reads the status, the reason and the headers the server sent, and
\* a chunked body; a body with a length only if the request had one.
ReplyArrives ==
  (Returned /\ ~cut) =>
    LET got == call["response"].http.response
        sent == call["request"].http.response
    IN /\ call["response"].rc = 0
       /\ got.status = sent.status /\ Dotted(got.version) = Dotted(sent.version)
       /\ SameHeaders(got.headers, sent.headers)
       /\ got.reason = ReasonPhrase(sent.status)
       /\ Chunked(call["response"]) => got.body = Content(replied)

\* A parser that has begun comes to an end, unless the body it reads stops
\* coming: the loop then goes round for ever, but where a body with a length
\* fails.  The parser of a response also waits for what nobody sends: a body of
\* the length the request had, and the chunks of the answer to a HEAD; and that
\* of a request for what is behind a chunk whose size was lost.
Waits ==
  /\ wire = <<>>
  /\ \/ At("chunks") /\ line # "open"
     \/ At("body") /\ line = "fin"
     \/ Side = "response" /\ line = "open" /\ (At("body") \/ At("chunks"))
     \/ cut /\ line = "open" /\ At("chunks")
ParseEnds == At("head") ~> (At("parsed") \/ Waits)
=============================================================================
