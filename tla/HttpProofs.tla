----------------------------- MODULE HttpProofs -----------------------------
(***************************************************************************)
(* What HttpExchange holds for any limits, any requests, malformed or not, *)
(* and any pieces they come in.                                            *)
(*  - The context of the server stays within the limits.                   *)
(*  - Where a request that eris_http_request_pack wrote begins to be read, *)
(*    its head is read to the end, character by character, and means what  *)
(*    was meant (HeadReads, SentIs and NewestSame), and so are the chunks  *)
(*    of a body (ChunkReads).                                              *)
(*  - Of the answer, the parser of a request leaves nothing while it goes  *)
(*    on, and a status with its phrase where it refuses (HeadSpeaks,       *)
(*    RoundSpeaks).                                                        *)
(* ReadingProofs is built on the last two.                                 *)
(***************************************************************************)
EXTENDS HttpExchange, SequenceTheorems, FiniteSetTheorems, TLAPS
LOCAL INSTANCE SequencesExt

(* The records as they are, whatever is in their fields. *)
ParserFields == {"side", "st", "tmp", "name", "value", "size", "digits", "done", "rc", "http"}
HttpFields == {"request", "response", "chunked", "chunk"}
RequestFields == {"shake", "command", "url", "version", "headers", "parameters", "query",
                  "fragment", "body"}

ShapedHttp(h) == /\ h = [f \in HttpFields |-> h[f]]
                 /\ h.request = [f \in RequestFields |-> h.request[f]]
Shaped(x) == /\ x = [f \in ParserFields |-> x[f]]
             /\ ShapedHttp(x.http)
             /\ x.side = "request"

IsSeq(s) == \E S : s \in Seq(S)

(* A step that touches nothing of what the limits are about. *)
SameHttp(h, g) == /\ ShapedHttp(g)
                  /\ g.chunked = h.chunked /\ g.request.url = h.request.url
                  /\ g.request.query = h.request.query /\ g.request.body = h.request.body
Alike(x, y) == /\ Shaped(y) /\ SameHttp(x.http, y.http)
               /\ y.size = x.size

(* The states before the first byte of the URL. *)
Early == {"START", "COMMAND", "URL_START"}
Quiet(x, y) == Alike(x, y) /\ y.st \notin Early

-----------------------------------------------------------------------------
(* The marks differ. *)
LEMMA Marks ==
  /\ SP \notin {SEMI, "\r", "\n", "?", "#", "/", ":", "=", "H", "0"}
  /\ SEMI \notin {SP, "\r", "\n", "?", "#", "/", ":", "=", "H", "0"}
BY Zenon DEF SP, SEMI

LEMMA AppendSeq ==
  ASSUME NEW s, IsSeq(s), NEW c
  PROVE  IsSeq(Append(s, c)) /\ Len(Append(s, c)) = Len(s) + 1 /\ Len(s) \in Nat
<1>1. PICK S : s \in Seq(S)
  BY DEF IsSeq
<1>2. s \in Seq(S \cup {c}) /\ c \in S \cup {c}
  BY <1>1
<1>3. Append(s, c) \in Seq(S \cup {c}) /\ Len(Append(s, c)) = Len(s) + 1 /\ Len(s) \in Nat
  BY <1>2
<1> QED
  BY <1>3 DEF IsSeq

LEMMA EmptyIsSeq == \A s : s = <<>> => IsSeq(s) /\ Len(s) = 0
BY DEF IsSeq

LEMMA OneIsSeq == \A c : IsSeq(<<c>>) /\ Len(<<c>>) = 1
<1>1. \A c : <<c>> \in Seq({c}) /\ Len(<<c>>) = 1
  OBVIOUS
<1> QED
  BY <1>1 DEF IsSeq

LEMMA AlikeTrans ==
  ASSUME NEW x, NEW y, NEW z, Alike(x, y), Alike(y, z)
  PROVE  Alike(x, z)
BY DEF Alike, SameHttp

LEMMA RefusalSame ==
  ASSUME NEW h, ShapedHttp(h), NEW status, NEW version
  PROVE  SameHttp(h, Refusal(h, status, version))
<1> DEFINE g == Refusal(h, status, version)
<1> SUFFICES SameHttp(h, g)
  OBVIOUS
<1>1. g = [h EXCEPT !.response = g.response]
  BY DEF Refusal, ShapedHttp, HttpFields
<1> HIDE DEF g
<1>2. g.request = h.request /\ g.chunked = h.chunked /\ g = [f \in HttpFields |-> g[f]]
  BY <1>1 DEF ShapedHttp, HttpFields
<1> QED
  BY <1>2 DEF SameHttp, ShapedHttp

(* Every field of the parser but the context and the size. *)
LEMMA FieldAlike ==
  ASSUME NEW x, Shaped(x), NEW f \in ParserFields \ {"http", "size", "side"}, NEW v
  PROVE  Alike(x, [x EXCEPT ![f] = v]) /\ [x EXCEPT ![f] = v][f] = v
         /\ \A g \in ParserFields \ {f} : [x EXCEPT ![f] = v][g] = x[g]
BY DEF Alike, Shaped, SameHttp, ParserFields

LEMMA HttpAlike ==
  ASSUME NEW x, Shaped(x), NEW h, SameHttp(x.http, h)
  PROVE  Alike(x, [x EXCEPT !.http = h]) /\ [x EXCEPT !.http = h].http = h
         /\ \A g \in ParserFields \ {"http"} : [x EXCEPT !.http = h][g] = x[g]
BY DEF Alike, Shaped, SameHttp, ParserFields

-----------------------------------------------------------------------------
(* What the steps of the automata are made of. *)
LEMMA GotoAlike ==
  ASSUME NEW x, Shaped(x), NEW st
  PROVE  Alike(x, Goto(x, st)) /\ Goto(x, st).st = st /\ Goto(x, st).rc = x.rc
BY FieldAlike DEF Goto, ParserFields

LEMMA StoreAlike ==
  ASSUME NEW x, Shaped(x), NEW c, NEW st
  PROVE  Alike(x, Store(x, c, st)) /\ Store(x, c, st).st = st
BY DEF Store, Alike, Shaped, SameHttp, ParserFields

LEMMA RefuseAlike ==
  ASSUME NEW x, Shaped(x), NEW rc, NEW status, NEW version
  PROVE  /\ Alike(x, Refuse(x, rc, status, version))
         /\ Refuse(x, rc, status, version).st = "FINISH"
<1> DEFINE h == Refusal(x.http, status, version)
           y == Refuse(x, rc, status, version)
<1> SUFFICES Alike(x, y) /\ y.st = "FINISH"
  OBVIOUS
<1>1. y = [x EXCEPT !.st = "FINISH", !.rc = rc, !.http = h]
  BY DEF Refuse
<1>2. SameHttp(x.http, h)
  BY RefusalSame DEF Shaped
<1> HIDE DEF h, y
<1>3. y = [f \in ParserFields |-> y[f]] /\ y.http = h /\ y.st = "FINISH"
      /\ y.side = x.side /\ y.size = x.size
  BY <1>1 DEF Shaped, ParserFields
<1> QED
  BY <1>2, <1>3 DEF Alike, Shaped, SameHttp

LEMMA BadAlike ==
  ASSUME NEW x, Shaped(x)
  PROVE  Alike(x, Bad(x)) /\ Bad(x).st = "FINISH"
BY RefuseAlike DEF Bad, Shaped

(* One field of the request is changed. *)
Put(x, f, v) == [x EXCEPT !.http.request[f] = v]

LEMMA RequestField ==
  ASSUME NEW x, Shaped(x), NEW f \in RequestFields, NEW v,
         NEW y, y = Put(x, f, v)
  PROVE  /\ Shaped(y) /\ y.size = x.size /\ y.st = x.st /\ y.rc = x.rc
         /\ y.http.chunked = x.http.chunked /\ y.http.request[f] = v
         /\ \A g \in RequestFields \ {f} : y.http.request[g] = x.http.request[g]
<1> DEFINE r == [x.http.request EXCEPT ![f] = v]
           h == [x.http EXCEPT !.request = r]
<1>0. y = [x EXCEPT !.http = h]
  BY DEF Put
<1>1. /\ r = [g \in RequestFields |-> r[g]] /\ r[f] = v
      /\ \A g \in RequestFields \ {f} : r[g] = x.http.request[g]
  BY DEF Shaped, ShapedHttp
<1> HIDE DEF r
<1>2. h = [g \in HttpFields |-> h[g]] /\ h.request = r /\ h.chunked = x.http.chunked
  BY DEF Shaped, ShapedHttp, HttpFields
<1> HIDE DEF h
<1>3. y = [g \in ParserFields |-> y[g]] /\ y.http = h
      /\ y.size = x.size /\ y.st = x.st /\ y.rc = x.rc /\ y.side = x.side
  BY <1>0 DEF Shaped, ParserFields
<1>4. Shaped(y) /\ y.size = x.size /\ y.st = x.st /\ y.rc = x.rc /\ y.http.chunked = x.http.chunked
      /\ y.http.request = r
  BY <1>1, <1>2, <1>3 DEF Shaped, ShapedHttp
<1> QED
  BY <1>1, <1>4

LEMMA RequestAlike ==
  ASSUME NEW x, Shaped(x), NEW f \in RequestFields \ {"url", "query", "body"}, NEW v,
         NEW y, y = Put(x, f, v)
  PROVE  Alike(x, y) /\ y.st = x.st /\ y.rc = x.rc
<1>1. /\ Shaped(y) /\ y.size = x.size /\ y.st = x.st /\ y.rc = x.rc
      /\ y.http.chunked = x.http.chunked
      /\ \A g \in RequestFields \ {f} : y.http.request[g] = x.http.request[g]
  BY RequestField
<1>2. /\ y.http.request["url"] = x.http.request["url"]
      /\ y.http.request["query"] = x.http.request["query"]
      /\ y.http.request["body"] = x.http.request["body"]
  BY <1>1 DEF RequestFields
<1> QED
  BY <1>1, <1>2 DEF Alike, SameHttp, Shaped

-----------------------------------------------------------------------------
(* The request line. *)
LEMMA StartCharAlike ==
  ASSUME NEW x, Shaped(x), NEW c
  PROVE  Alike(x, StartChar(x, c)) /\ StartChar(x, c).st = "COMMAND"
BY StoreAlike DEF StartChar

LEMMA CommandCharAlike ==
  ASSUME NEW x, Shaped(x), NEW c
  PROVE  Alike(x, CommandChar(x, c))
<1> DEFINE y == CommandChar(x, c)
           cleared == [x EXCEPT !.tmp = <<>>]
           begun == [cleared EXCEPT !.st = "URL_START"]
<1> SUFFICES Alike(x, y)
  OBVIOUS
<1>1. \/ y = Store(x, c, "COMMAND")
      \/ y = Put(begun, "command", CommandNumber(x.tmp[1]))
      \/ y = Refuse(cleared, EERIS_DATA, 405, 10)
  <2>1. CASE c # SP
    BY <2>1, Zenon DEF CommandChar
  <2>2. CASE c = SP /\ \E w \in Recognised : x.tmp = <<w>>
    <3>1. y = [x EXCEPT !.st = "URL_START", !.tmp = <<>>,
                        !.http.request.command = CommandNumber(x.tmp[1])]
      BY <2>2, Zenon DEF CommandChar
    <3> QED
      BY <3>1 DEF Shaped, ParserFields, Put
  <2>3. CASE c = SP /\ ~(\E w \in Recognised : x.tmp = <<w>>)
    BY <2>3, Zenon DEF CommandChar
  <2> QED
    BY <2>1, <2>2, <2>3
<1>2. Alike(x, cleared) /\ Shaped(cleared)
  <2>1. Alike(x, cleared)
    BY FieldAlike DEF ParserFields
  <2> QED
    BY <2>1 DEF Alike
<1> HIDE DEF cleared
<1>3. Alike(x, begun) /\ Shaped(begun)
  <2>1. Alike(cleared, begun)
    BY <1>2, FieldAlike DEF ParserFields
  <2>2. Alike(x, begun)
    BY <1>2, <2>1, AlikeTrans
  <2> QED
    BY <2>2 DEF Alike
<1> HIDE DEF begun, y
<1>4. CASE y = Store(x, c, "COMMAND")
  BY <1>4, StoreAlike
<1>5. CASE y = Put(begun, "command", CommandNumber(x.tmp[1]))
  BY <1>3, <1>5, RequestAlike, AlikeTrans DEF RequestFields
<1>6. CASE y = Refuse(cleared, EERIS_DATA, 405, 10)
  BY <1>2, <1>6, RefuseAlike, AlikeTrans
<1> QED
  BY <1>1, <1>4, <1>5, <1>6

LEMMA AlikeShaped == \A x, y : Alike(x, y) => Shaped(y)
BY DEF Alike

(* A part of the target grows by a character, or the automaton goes on. *)
Parts == {"url", "parameters", "query", "fragment"}
LEMMA TargetCharSteps ==
  ASSUME NEW x, Shaped(x), NEW c, NEW part, NEW marks, "\r" \notin marks
  PROVE  \/ Quiet(x, TargetChar(x, c, part, marks))
         \/ TargetChar(x, c, part, marks) = Put(x, part, Append(x.http.request[part], c))
<1> DEFINE y == TargetChar(x, c, part, marks)
           ended == Goto(x, "TITLE_CR")
           v == IF part = "url" THEN 9 ELSE x.http.request.version
<1> SUFFICES Quiet(x, y) \/ y = Put(x, part, Append(x.http.request[part], c))
  OBVIOUS
<1>1. \/ y = Goto(x, Behind(c))
      \/ y = Put(ended, "version", v)
      \/ y = Refuse(x, EERIS_4XX, 405, 9)
      \/ y = Put(x, part, Append(x.http.request[part], c))
  <2>1. CASE c \in marks
    <3>0. c # "\r"
      BY <2>1
    <3>1. y = Goto(x, Behind(c))
      BY <2>1, <3>0, Zenon DEF TargetChar
    <3> HIDE DEF y
    <3> QED
      BY <3>1
  <2>2. CASE c \notin marks /\ c = "\r" /\ x.http.request.command = CommandNumber("GET")
    <3>1. y = [x EXCEPT !.st = "TITLE_CR", !.http.request.version = v]
      BY <2>2, Zenon DEF TargetChar
    <3> HIDE DEF y, v
    <3> QED
      BY <3>1 DEF Shaped, ParserFields, Goto, Put
  <2>3. CASE c \notin marks /\ c = "\r" /\ x.http.request.command # CommandNumber("GET")
    BY <2>3, Zenon DEF TargetChar
  <2>4. CASE c \notin marks /\ c # "\r"
    BY <2>4, Zenon DEF TargetChar, Put
  <2> QED
    BY <2>1, <2>2, <2>3, <2>4
<1>2. Behind(c) \in {"H", "PARAMETERS", "QUERY", "FRAGMENT"}
  BY Zenon DEF Behind
<1>3. Alike(x, ended) /\ Shaped(ended) /\ ended.st = "TITLE_CR"
  BY GotoAlike, AlikeShaped
<1> HIDE DEF ended, y, v
<1>4. CASE y = Goto(x, Behind(c))
  BY <1>2, <1>4, GotoAlike DEF Quiet, Early
<1>5. CASE y = Put(ended, "version", v)
  <2>1. Alike(ended, y) /\ y.st = "TITLE_CR"
    BY <1>3, <1>5, RequestAlike DEF RequestFields
  <2> QED
    BY <1>3, <2>1, AlikeTrans DEF Quiet, Early
<1>6. CASE y = Refuse(x, EERIS_4XX, 405, 9)
  BY <1>6, RefuseAlike DEF Quiet, Early
<1> QED
  BY <1>1, <1>4, <1>5, <1>6

(* The version. *)
LEMMA ProtocolCharQuiet ==
  ASSUME NEW x, Shaped(x), NEW c, x.st \in DOMAIN Protocol \cup {"MAJOR"}
  PROVE  Quiet(x, ProtocolChar(x, c))
<1> DEFINE y == ProtocolChar(x, c)
           begun == [x EXCEPT !.tmp = <<>>]
<1> SUFFICES Quiet(x, y)
  OBVIOUS
<1>1. CASE x.st = "MAJOR"
  <2>1. y = Store(x, c, "DOT") \/ y = Bad(x)
    BY <1>1, Zenon DEF ProtocolChar, Expect
  <2> HIDE DEF y
  <2> QED
    BY <2>1, StoreAlike, BadAlike DEF Quiet, Early
<1>2. CASE x.st # "MAJOR"
  <2>1. Protocol[x.st][2] \notin Early
    BY <1>2 DEF Protocol, Early
  <2> HIDE DEF Protocol
  <2>2. y = Bad(x) \/ y = Store(begun, c, Protocol[x.st][2]) \/ y = Store(x, c, Protocol[x.st][2])
    BY <1>2, Zenon DEF ProtocolChar, Expect
  <2>3. Alike(x, begun) /\ Shaped(begun)
    BY FieldAlike, AlikeShaped DEF ParserFields
  <2> HIDE DEF y, begun
  <2>4. CASE y = Bad(x)
    BY <2>4, BadAlike DEF Quiet, Early
  <2>5. CASE y = Store(begun, c, Protocol[x.st][2])
    BY <2>1, <2>3, <2>5, StoreAlike, AlikeTrans DEF Quiet
  <2>6. CASE y = Store(x, c, Protocol[x.st][2])
    BY <2>1, <2>6, StoreAlike DEF Quiet
  <2> QED
    BY <2>2, <2>4, <2>5, <2>6
<1> QED
  BY <1>1, <1>2

LEMMA MinorCharQuiet ==
  ASSUME NEW x, Shaped(x), NEW c
  PROVE  Quiet(x, MinorChar(x, c))
<1> DEFINE y == MinorChar(x, c)
           known == VersionOf(Append(x.tmp, c))
           v == CHOOSE n \in known : TRUE
           read == [x EXCEPT !.tmp = <<>>]
           titled == [read EXCEPT !.st = "TITLE_CR"]
           unknown == Put(read, "version", 0)
<1> SUFFICES Quiet(x, y)
  OBVIOUS
<1>1. \/ y = Bad(x)
      \/ y = Put(titled, "version", v)
      \/ y = Refuse(unknown, EERIS_5XX, 505, 10)
  <2>1. CASE ~IsDigit(c)
    BY <2>1, Zenon DEF MinorChar
  <2>2. CASE IsDigit(c) /\ known # {}
    <3>1. y = [read EXCEPT !.st = "TITLE_CR", !.http.request.version = v]
      BY <2>2, Zenon DEF MinorChar
    <3> HIDE DEF v
    <3> QED
      BY <3>1 DEF Shaped, ParserFields, Put
  <2>3. CASE IsDigit(c) /\ known = {}
    BY <2>3, Zenon DEF MinorChar, Put
  <2> QED
    BY <2>1, <2>2, <2>3
<1>2. Alike(x, read) /\ Shaped(read)
  BY FieldAlike, AlikeShaped DEF ParserFields
<1> HIDE DEF y, v, read
<1>3. Alike(read, titled) /\ titled.st = "TITLE_CR"
  BY <1>2, FieldAlike DEF ParserFields
<1>4. Alike(read, unknown)
  BY <1>2, RequestAlike DEF RequestFields
<1> HIDE DEF titled, unknown
<1>5. CASE y = Bad(x)
  BY <1>5, BadAlike DEF Quiet, Early
<1>6. CASE y = Put(titled, "version", v)
  <2>1. Alike(titled, y) /\ y.st = "TITLE_CR"
    BY <1>3, <1>6, AlikeShaped, RequestAlike DEF RequestFields
  <2> QED
    BY <1>2, <1>3, <2>1, AlikeTrans DEF Quiet, Early
<1>7. CASE y = Refuse(unknown, EERIS_5XX, 505, 10)
  <2>1. Alike(unknown, y) /\ y.st = "FINISH"
    BY <1>4, <1>7, AlikeShaped, RefuseAlike
  <2> QED
    BY <1>2, <1>4, <2>1, AlikeTrans DEF Quiet, Early
<1> QED
  BY <1>1, <1>5, <1>6, <1>7

LEMMA TitleCharQuiet ==
  ASSUME NEW x, Shaped(x), NEW c
  PROVE  Quiet(x, TitleChar(x, c))
<1> DEFINE y == TitleChar(x, c)
           named == [x EXCEPT !.name = <<>>]
           valued == [named EXCEPT !.value = <<>>]
<1> SUFFICES Quiet(x, y)
  OBVIOUS
<1>1. y = Bad(x) \/ y = Goto(x, "TITLE_LF") \/ y = Goto(valued, "HEADER_NAME")
  <2>1. CASE x.st = "TITLE_CR"
    BY <2>1, Zenon DEF TitleChar, Expect
  <2>2. CASE x.st # "TITLE_CR"
    <3>1. y = Bad(x) \/ y = [x EXCEPT !.st = "HEADER_NAME", !.name = <<>>, !.value = <<>>]
      BY <2>2, Zenon DEF TitleChar, Expect
    <3> HIDE DEF y
    <3>2. [x EXCEPT !.st = "HEADER_NAME", !.name = <<>>, !.value = <<>>] = Goto(valued, "HEADER_NAME")
      BY DEF Shaped, ParserFields, Goto
    <3> QED
      BY <3>1, <3>2
  <2> QED
    BY <2>1, <2>2
<1>2. Alike(x, named) /\ Shaped(named)
  BY FieldAlike, AlikeShaped DEF ParserFields
<1>3. Alike(x, valued) /\ Shaped(valued)
  BY <1>2, FieldAlike, AlikeShaped, AlikeTrans DEF ParserFields
<1> HIDE DEF y, named, valued
<1>4. CASE y = Bad(x)
  BY <1>4, BadAlike DEF Quiet, Early
<1>5. CASE y = Goto(x, "TITLE_LF")
  BY <1>5, GotoAlike DEF Quiet, Early
<1>6. CASE y = Goto(valued, "HEADER_NAME")
  BY <1>3, <1>6, GotoAlike, AlikeTrans DEF Quiet, Early
<1> QED
  BY <1>1, <1>4, <1>5, <1>6

(* The headers. *)
LEMMA Lf1CharQuiet ==
  ASSUME NEW x, Shaped(x), NEW c
  PROVE  Quiet(x, Lf1Char(x, c))
<1> DEFINE y == Lf1Char(x, c)
           pushed == [x EXCEPT !.name = <<>>, !.value = <<>>,
                               !.http[x.side].headers = PushHeader(@, x.name, x.value)]
           named == [x EXCEPT !.name = <<>>]
           valued == [named EXCEPT !.value = <<>>]
           more == PushHeader(x.http.request.headers, x.name, x.value)
<1> SUFFICES Quiet(x, y)
  OBVIOUS
<1>1. \/ y = Goto(x, "HEADER_VALUE")
      \/ y = Goto(pushed, "HEADER_CR2")
      \/ y = [Goto(pushed, "HEADER_NAME") EXCEPT !.name = <<c>>]
  <2>1. CASE c = SP
    <3>1. c # "\r"
      BY <2>1, Marks
    <3> QED
      BY <2>1, <3>1, Zenon DEF Lf1Char
  <2>2. CASE c = "\r"
    <3>1. c # SP
      BY <2>2, Marks
    <3> QED
      BY <2>2, <3>1, Zenon DEF Lf1Char
  <2>3. CASE c # SP /\ c # "\r"
    <3>1. y = [pushed EXCEPT !.st = "HEADER_NAME", !.name = <<c>>]
      BY <2>3, Zenon DEF Lf1Char
    <3> HIDE DEF pushed
    <3> QED
      BY <3>1, Zenon DEF Goto
  <2> QED
    BY <2>1, <2>2, <2>3
<1>2. Alike(x, named) /\ Shaped(named)
  BY FieldAlike, AlikeShaped DEF ParserFields
<1>3. Alike(x, valued) /\ Shaped(valued) /\ valued.http = x.http
  <2>1. named.http = x.http
    BY FieldAlike DEF ParserFields
  <2> HIDE DEF named
  <2>2. Alike(named, valued) /\ valued.http = named.http
    BY <1>2, FieldAlike DEF ParserFields
  <2> QED
    BY <1>2, <2>1, <2>2, AlikeShaped, AlikeTrans
<1>4. pushed = Put(valued, "headers", more)
  BY DEF Put, Shaped, ParserFields
<1>5. Alike(x, pushed) /\ Shaped(pushed)
  <2> HIDE DEF y, pushed, valued, more
  <2>1. Alike(valued, pushed)
    BY <1>3, <1>4, RequestAlike DEF RequestFields
  <2> QED
    BY <1>3, <2>1, AlikeShaped, AlikeTrans
<1> HIDE DEF y, pushed
<1>6. CASE y = Goto(x, "HEADER_VALUE")
  BY <1>6, GotoAlike DEF Quiet, Early
<1>7. CASE y = Goto(pushed, "HEADER_CR2")
  BY <1>5, <1>7, GotoAlike, AlikeTrans DEF Quiet, Early
<1>8. CASE y = [Goto(pushed, "HEADER_NAME") EXCEPT !.name = <<c>>]
  <2> DEFINE z == Goto(pushed, "HEADER_NAME")
  <2>1. Alike(x, z) /\ Shaped(z) /\ z.st = "HEADER_NAME"
    BY <1>5, GotoAlike, AlikeTrans, AlikeShaped
  <2> HIDE DEF z
  <2>2. Alike(z, y) /\ y.st = "HEADER_NAME"
    BY <1>8, <2>1, FieldAlike DEF ParserFields, z
  <2> QED
    BY <2>1, <2>2, AlikeTrans DEF Quiet, Early
<1> QED
  BY <1>1, <1>6, <1>7, <1>8

LEMMA HeaderCharQuiet ==
  ASSUME NEW x, Shaped(x), NEW c, x.st \notin Early
  PROVE  Quiet(x, HeaderChar(x, c))
<1> DEFINE y == HeaderChar(x, c)
<1> SUFFICES Quiet(x, y)
  OBVIOUS
<1>1. \/ y = Bad(x) \/ \E st \in {"HEADER_COLON", "HEADER_VALUE", "HEADER_CR1", "HEADER_LF1"} : y = Goto(x, st)
      \/ y = [x EXCEPT !.name = Append(@, c)]
      \/ y = [x EXCEPT !.value = Append(@, c)]
      \/ y = Lf1Char(x, c)
  <2>1. CASE x.st = "HEADER_NAME"
    <3>1. y = NameChar(x, c)
      BY <2>1, Zenon DEF HeaderChar
    <3> HIDE DEF y
    <3> QED
      BY <3>1 DEF NameChar, Expect
  <2>2. CASE x.st = "HEADER_COLON"
    <3>1. y = ColonChar(x, c)
      BY <2>2, Zenon DEF HeaderChar
    <3> HIDE DEF y
    <3> QED
      BY <3>1 DEF ColonChar, Expect
  <2>3. CASE x.st = "HEADER_VALUE"
    <3>1. y = ValueChar(x, c)
      BY <2>3, Zenon DEF HeaderChar
    <3> HIDE DEF y
    <3> QED
      BY <3>1 DEF ValueChar
  <2>4. CASE x.st = "HEADER_CR1"
    <3>1. y = Cr1Char(x, c)
      BY <2>4, Zenon DEF HeaderChar
    <3> HIDE DEF y
    <3> QED
      BY <3>1 DEF Cr1Char, Expect
  <2>5. CASE x.st \notin {"HEADER_NAME", "HEADER_COLON", "HEADER_VALUE", "HEADER_CR1"}
    <3>1. y = Lf1Char(x, c)
      BY <2>5, Zenon DEF HeaderChar
    <3> HIDE DEF y
    <3> QED
      BY <3>1
  <2> QED
    BY <2>1, <2>2, <2>3, <2>4, <2>5
<1> HIDE DEF y
<1>2. CASE y = Bad(x)
  BY <1>2, BadAlike DEF Quiet, Early
<1>3. ASSUME NEW st \in {"HEADER_COLON", "HEADER_VALUE", "HEADER_CR1", "HEADER_LF1"}, y = Goto(x, st)
      PROVE  Quiet(x, y)
  BY <1>3, GotoAlike DEF Quiet, Early
<1>4. CASE y = [x EXCEPT !.name = Append(@, c)]
  <2>0. PICK v : v = Append(x.name, c)
    OBVIOUS
  <2>1. y = [x EXCEPT !.name = v]
    BY <1>4, <2>0
  <2>2. Alike(x, y) /\ y.st = x.st
    BY <2>1, FieldAlike DEF ParserFields
  <2> QED
    BY <2>2 DEF Quiet
<1>5. CASE y = [x EXCEPT !.value = Append(@, c)]
  <2>0. PICK v : v = Append(x.value, c)
    OBVIOUS
  <2>1. y = [x EXCEPT !.value = v]
    BY <1>5, <2>0
  <2>2. Alike(x, y) /\ y.st = x.st
    BY <2>1, FieldAlike DEF ParserFields
  <2> QED
    BY <2>2 DEF Quiet
<1>6. CASE y = Lf1Char(x, c)
  BY <1>6, Lf1CharQuiet
<1> QED
  BY <1>1, <1>2, <1>3, <1>4, <1>5, <1>6

LEMMA Cr2CharQuiet ==
  ASSUME NEW x, Shaped(x), NEW c
  PROVE  Quiet(x, Cr2Char(x, c))
<1> DEFINE ended == [x EXCEPT !.done = TRUE]
<1>1. Alike(x, ended) /\ Shaped(ended)
  BY FieldAlike, AlikeShaped DEF ParserFields
<1>2. Cr2Char(x, c) = Bad(ended) \/ Cr2Char(x, c) = Goto(ended, "HEADER_LF2")
  BY DEF Cr2Char, Expect
<1> HIDE DEF ended
<1> QED
  BY <1>1, <1>2, BadAlike, GotoAlike, AlikeTrans DEF Quiet, Early

-----------------------------------------------------------------------------
(* The limits, and what is more while the head is read: the URL is not over *)
(* its limit yet, there is no body, and nothing of the URL before its state. *)
Limits(x) ==
  /\ Shaped(x)
  /\ IsSeq(x.http.request.url) /\ Len(x.http.request.url) <= UrlMax + 1
  /\ IsSeq(x.http.request.query) /\ Len(x.http.request.query) <= x.size
  /\ x.size \in Nat /\ x.size <= HeaderMax
  /\ x.http.chunked \in BOOLEAN
  /\ x.http.chunked = TRUE => IsSeq(x.http.request.body) /\ Len(x.http.request.body) <= BodyMax + 1

Fresh(x) ==
  /\ x.rc = 0 /\ x.http.chunked = FALSE /\ x.http.request.body = <<>>
  /\ Len(x.http.request.url) <= UrlMax
  /\ x.st \in Early => x.http.request.url = <<>>

Fits(x) == Limits(x) /\ (x.rc = 0 => Fresh(x))

LEMMA AlikeLimits ==
  ASSUME NEW x, NEW y, Limits(x), Alike(x, y)
  PROVE  Limits(y)
BY DEF Limits, Alike, SameHttp

LEMMA AlikeFits ==
  ASSUME NEW x, NEW y, Limits(x), Fresh(x), Alike(x, y), y.st \in Early => x.st \in Early
  PROVE  Fits(y)
BY AlikeLimits DEF Fits, Fresh, Alike, SameHttp

LEMMA QuietFits ==
  ASSUME NEW x, NEW y, Limits(x), Fresh(x), Quiet(x, y)
  PROVE  Fits(y)
BY AlikeFits DEF Quiet

(* A character is put behind what there is of the URL or of the query. *)
LEMMA UrlGrows ==
  ASSUME NEW x, Limits(x), Fresh(x), NEW c
  PROVE  LET y == Put(x, "url", Append(x.http.request.url, c))
         IN /\ Limits(y) /\ Len(y.http.request.url) = Len(x.http.request.url) + 1
            /\ Len(x.http.request.url) \in Nat /\ y.st = x.st /\ y.rc = 0
            /\ y.http.chunked = FALSE /\ y.http.request.body = <<>>
<1> DEFINE u == Append(x.http.request.url, c)
           y == Put(x, "url", u)
<1>0. y = Put(x, "url", u)
  OBVIOUS
<1>1. IsSeq(u) /\ Len(u) = Len(x.http.request.url) + 1 /\ Len(x.http.request.url) \in Nat
  BY AppendSeq DEF Limits
<1> HIDE DEF u, y
<1>2. /\ Shaped(y) /\ y.size = x.size /\ y.st = x.st /\ y.rc = x.rc
      /\ y.http.chunked = x.http.chunked /\ y.http.request["url"] = u
      /\ y.http.request["query"] = x.http.request["query"]
      /\ y.http.request["body"] = x.http.request["body"]
  <2>1. Shaped(x) /\ {"url", "query", "body"} \subseteq RequestFields
    BY DEF Limits, RequestFields
  <2>2. /\ Shaped(y) /\ y.size = x.size /\ y.st = x.st /\ y.rc = x.rc
        /\ y.http.chunked = x.http.chunked /\ y.http.request["url"] = u
        /\ \A g \in RequestFields \ {"url"} : y.http.request[g] = x.http.request[g]
    BY <1>0, <2>1, RequestField
  <2> QED
    BY <2>1, <2>2
<1>3. /\ Limits(y) /\ Len(y.http.request.url) = Len(x.http.request.url) + 1
      /\ Len(x.http.request.url) \in Nat /\ y.st = x.st /\ y.rc = 0
      /\ y.http.chunked = FALSE /\ y.http.request.body = <<>>
  <2>1. Len(u) <= UrlMax + 1
    BY <1>1, HeadAssumption DEF Fresh
  <2>2. Limits(y)
    BY <1>1, <1>2, <2>1 DEF Limits
  <2> QED
    BY <1>1, <1>2, <2>2 DEF Fresh
<1> QED
  BY <1>3 DEF y, u

LEMMA QueryGrows ==
  ASSUME NEW x, Limits(x), Fresh(x), NEW c, x.st \notin Early,
         Len(x.http.request.query) < x.size
  PROVE  Fits(Put(x, "query", Append(x.http.request.query, c)))
<1> DEFINE q == Append(x.http.request.query, c)
           y == Put(x, "query", q)
<1>0. y = Put(x, "query", q)
  OBVIOUS
<1>1. IsSeq(q) /\ Len(q) = Len(x.http.request.query) + 1 /\ Len(x.http.request.query) \in Nat
  BY AppendSeq DEF Limits
<1> HIDE DEF q, y
<1>2. /\ Shaped(y) /\ y.size = x.size /\ y.st = x.st /\ y.rc = x.rc
      /\ y.http.chunked = x.http.chunked /\ y.http.request["query"] = q
      /\ y.http.request["url"] = x.http.request["url"]
      /\ y.http.request["body"] = x.http.request["body"]
  <2>1. Shaped(x) /\ {"url", "query", "body"} \subseteq RequestFields
    BY DEF Limits, RequestFields
  <2>2. /\ Shaped(y) /\ y.size = x.size /\ y.st = x.st /\ y.rc = x.rc
        /\ y.http.chunked = x.http.chunked /\ y.http.request["query"] = q
        /\ \A g \in RequestFields \ {"query"} : y.http.request[g] = x.http.request[g]
    BY <1>0, <2>1, RequestField
  <2> QED
    BY <2>1, <2>2
<1>3. Fits(y)
  BY <1>1, <1>2 DEF Fits, Limits, Fresh
<1> QED
  BY <1>3 DEF y, q

LEMMA UrlStartCharFits ==
  ASSUME NEW x, Limits(x), Fresh(x), NEW c, x.st = "URL_START"
  PROVE  Fits(UrlStartChar(x, c))
<1> DEFINE y == UrlStartChar(x, c)
           z == Put(x, "url", Append(x.http.request.url, c))
<1> SUFFICES Fits(y)
  OBVIOUS
<1>1. y = Bad(x) \/ y = Goto(z, "URL")
  <2>1. y = Bad(x) \/ y = [x EXCEPT !.st = "URL", !.http.request.url = Append(@, c)]
    BY DEF UrlStartChar, Expect
  <2> HIDE DEF y
  <2>2. [x EXCEPT !.st = "URL", !.http.request.url = Append(@, c)] = Goto(z, "URL")
    BY DEF Goto, Limits, Shaped, ParserFields, Put
  <2> QED
    BY <2>1, <2>2
<1>2. Limits(z) /\ Len(z.http.request.url) = 1 /\ z.http.chunked = FALSE /\ z.http.request.body = <<>> /\ z.rc = 0
  <2>1. Len(x.http.request.url) = 0
    BY EmptyIsSeq DEF Fresh, Early
  <2>2. Limits(z) /\ Len(z.http.request.url) = Len(x.http.request.url) + 1
        /\ z.http.chunked = FALSE /\ z.http.request.body = <<>> /\ z.rc = 0
    BY UrlGrows
  <2> HIDE DEF z
  <2> QED
    BY <2>1, <2>2
<1> HIDE DEF y, z
<1>3. CASE y = Bad(x)
  BY <1>3, BadAlike, QuietFits DEF Quiet, Early, Limits
<1>4. CASE y = Goto(z, "URL")
  <2>1. Alike(z, y) /\ y.st = "URL" /\ y.rc = 0
    BY <1>2, <1>4, GotoAlike DEF Limits
  <2>2. Limits(y)
    BY <1>2, <2>1, AlikeLimits
  <2>3. Len(y.http.request.url) = 1 /\ y.http.chunked = FALSE /\ y.http.request.body = <<>>
    BY <1>2, <2>1 DEF Alike, SameHttp
  <2> QED
    BY <2>1, <2>2, <2>3, HeadAssumption DEF Fits, Fresh, Early
<1> QED
  BY <1>1, <1>3, <1>4

LEMMA UrlCharFits ==
  ASSUME NEW x, Limits(x), Fresh(x), NEW c, x.st = "URL"
  PROVE  Fits(UrlChar(x, c))
<1> DEFINE y == TargetChar(x, c, "url", {SP, SEMI, "?", "#"})
           r == Refuse(y, EERIS_4XX, 414, 10)
<1> SUFFICES Fits(IF y.rc = 0 /\ Len(y.http.request.url) > UrlMax THEN r ELSE y)
  BY DEF UrlChar
<1>1. Quiet(x, y) \/ y = Put(x, "url", Append(x.http.request.url, c))
  <2> DEFINE marks == {SP, SEMI, "?", "#"}
  <2>1. Shaped(x) /\ "\r" \notin marks
    BY Marks DEF Limits
  <2> HIDE DEF marks
  <2>2. \/ Quiet(x, TargetChar(x, c, "url", marks))
        \/ TargetChar(x, c, "url", marks) = Put(x, "url", Append(x.http.request.url, c))
    BY <2>1, TargetCharSteps
  <2> QED
    BY <2>2 DEF marks
<1> HIDE DEF y
<1>2. CASE Quiet(x, y)
  <2>1. Fits(y)
    BY <1>2, QuietFits
  <2>2. ~(y.rc = 0 /\ Len(y.http.request.url) > UrlMax)
    BY <2>1, HeadAssumption, AppendSeq DEF Fits, Fresh, Limits
  <2> QED
    BY <2>1, <2>2
<1>3. CASE y = Put(x, "url", Append(x.http.request.url, c))
  <2>1. /\ Limits(y) /\ Len(y.http.request.url) \in Nat /\ y.st = "URL" /\ y.rc = 0
        /\ y.http.chunked = FALSE /\ y.http.request.body = <<>>
    <3> DEFINE z == Put(x, "url", Append(x.http.request.url, c))
    <3>1. /\ Limits(z) /\ Len(z.http.request.url) = Len(x.http.request.url) + 1
          /\ Len(x.http.request.url) \in Nat /\ z.st = x.st /\ z.rc = 0
          /\ z.http.chunked = FALSE /\ z.http.request.body = <<>>
      BY UrlGrows
    <3>2. y = z
      BY <1>3
    <3> HIDE DEF z
    <3> QED
      BY <3>1, <3>2
  <2>2. CASE Len(y.http.request.url) > UrlMax
    <3>1. Shaped(y) /\ r.rc = EERIS_4XX
      BY <2>1 DEF Limits, Refuse, Shaped, ParserFields
    <3>2. r.rc # 0
      BY <3>1 DEF EERIS_4XX
    <3>3. Limits(r)
      BY <2>1, <3>1, RefuseAlike, AlikeLimits
    <3> HIDE DEF r
    <3> QED
      BY <2>1, <2>2, <3>2, <3>3 DEF Fits
  <2>3. CASE ~(Len(y.http.request.url) > UrlMax)
    BY <2>1, <2>3, HeadAssumption DEF Fits, Fresh, Early
  <2> QED
    BY <2>2, <2>3
<1> QED
  BY <1>1, <1>2, <1>3

LEMMA OtherPartsFit ==
  ASSUME NEW x, Limits(x), Fresh(x), NEW c, x.st \notin Early,
         NEW part \in {"parameters", "fragment"}, NEW marks, "\r" \notin marks
  PROVE  Fits(TargetChar(x, c, part, marks))
<1> DEFINE y == TargetChar(x, c, part, marks)
<1> SUFFICES Fits(y)
  OBVIOUS
<1>1. Shaped(x) /\ part \in RequestFields \ {"url", "query", "body"}
  BY DEF Limits, RequestFields
<1>2. Quiet(x, y) \/ y = Put(x, part, Append(x.http.request[part], c))
  BY <1>1, TargetCharSteps
<1> HIDE DEF y
<1>3. CASE y = Put(x, part, Append(x.http.request[part], c))
  <2>0. PICK v : y = Put(x, part, v)
    BY <1>3
  <2>1. Alike(x, y) /\ y.st = x.st
    BY <1>1, <2>0, RequestAlike
  <2>2. Quiet(x, y)
    BY <2>1 DEF Quiet
  <2> QED
    BY <2>2, QuietFits
<1> QED
  BY <1>2, <1>3, QuietFits

LEMMA QueryCharFits ==
  ASSUME NEW x, Limits(x), Fresh(x), NEW c, x.st \notin Early, Len(x.http.request.query) < x.size
  PROVE  Fits(QueryChar(x, c))
<1> DEFINE marks == {SP, SEMI, "#"}
<1>1. Shaped(x) /\ "\r" \notin marks /\ QueryChar(x, c) = TargetChar(x, c, "query", marks)
  BY Marks DEF Limits, QueryChar
<1> HIDE DEF marks
<1>2. \/ Quiet(x, TargetChar(x, c, "query", marks))
      \/ TargetChar(x, c, "query", marks) = Put(x, "query", Append(x.http.request.query, c))
  BY <1>1, TargetCharSteps
<1> QED
  BY <1>1, <1>2, QuietFits, QueryGrows

(* Every character of the head, after it was counted. *)
LEMMA RequestCharFits ==
  ASSUME NEW x, Limits(x), Fresh(x), NEW c, Len(x.http.request.query) < x.size
  PROVE  Fits(RequestChar(x, c))
<1> DEFINE y == RequestChar(x, c)
<1> SUFFICES Fits(y)
  OBVIOUS
<1>0. Shaped(x) /\ DOMAIN Protocol = {"H", "HT", "HTT", "HTTP", "SLASH", "DOT"}
  BY DEF Limits, Protocol
<1>1. CASE x.st = "START"
  <2>1. y = StartChar(x, c)
    BY <1>0, <1>1, Zenon DEF RequestChar
  <2> HIDE DEF y
  <2> QED
    BY <1>0, <1>1, <2>1, StartCharAlike, AlikeFits DEF Early
<1>2. CASE x.st = "COMMAND"
  <2>1. y = CommandChar(x, c)
    BY <1>0, <1>2, Zenon DEF RequestChar
  <2> HIDE DEF y
  <2> QED
    BY <1>0, <1>2, <2>1, CommandCharAlike, AlikeFits DEF Early
<1>3. CASE x.st = "URL_START"
  <2>1. y = UrlStartChar(x, c)
    BY <1>0, <1>3, Zenon DEF RequestChar
  <2> HIDE DEF y
  <2> QED
    BY <1>3, <2>1, UrlStartCharFits
<1>4. CASE x.st = "URL"
  <2>1. y = UrlChar(x, c)
    BY <1>0, <1>4, Zenon DEF RequestChar
  <2> HIDE DEF y
  <2> QED
    BY <1>4, <2>1, UrlCharFits
<1>5. CASE x.st = "PARAMETERS"
  <2>1. y = TargetChar(x, c, "parameters", {SP, "?", "#"})
    <3>1. y = ParametersChar(x, c)
      BY <1>0, <1>5, Zenon DEF RequestChar
    <3> HIDE DEF y
    <3> QED
      BY <3>1 DEF ParametersChar
  <2> HIDE DEF y
  <2> QED
    BY <1>5, <2>1, Marks, OtherPartsFit DEF Early
<1>6. CASE x.st = "QUERY"
  <2>1. y = QueryChar(x, c)
    BY <1>0, <1>6, Zenon DEF RequestChar
  <2> HIDE DEF y
  <2> QED
    BY <1>6, <2>1, QueryCharFits DEF Early
<1>7. CASE x.st = "FRAGMENT"
  <2>1. y = TargetChar(x, c, "fragment", {SP})
    <3>1. y = FragmentChar(x, c)
      BY <1>0, <1>7, Zenon DEF RequestChar
    <3> HIDE DEF y
    <3> QED
      BY <3>1 DEF FragmentChar
  <2> HIDE DEF y
  <2> QED
    BY <1>7, <2>1, Marks, OtherPartsFit DEF Early
<1>8. CASE x.st \in DOMAIN Protocol \cup {"MAJOR"}
  <2>1. y = ProtocolChar(x, c)
    BY <1>0, <1>8, Zenon DEF RequestChar
  <2> HIDE DEF y
  <2> QED
    BY <1>0, <1>8, <2>1, ProtocolCharQuiet, QuietFits
<1>9. CASE x.st = "MINOR"
  <2>1. y = MinorChar(x, c)
    BY <1>0, <1>9, Zenon DEF RequestChar
  <2> HIDE DEF y
  <2> QED
    BY <1>0, <2>1, MinorCharQuiet, QuietFits
<1>10. CASE x.st \in {"TITLE_CR", "TITLE_LF"}
  <2>1. y = TitleChar(x, c)
    BY <1>0, <1>10, Zenon DEF RequestChar
  <2> HIDE DEF y
  <2> QED
    BY <1>0, <2>1, TitleCharQuiet, QuietFits
<1>11. CASE x.st = "HEADER_CR2"
  <2>1. y = Cr2Char(x, c)
    BY <1>0, <1>11, Zenon DEF RequestChar
  <2> HIDE DEF y
  <2> QED
    BY <1>0, <2>1, Cr2CharQuiet, QuietFits
<1>12. CASE x.st \notin {"START", "COMMAND", "URL_START", "URL", "PARAMETERS", "QUERY", "FRAGMENT",
                         "MINOR", "TITLE_CR", "TITLE_LF", "HEADER_CR2"}
             /\ x.st \notin DOMAIN Protocol \cup {"MAJOR"}
  <2>1. y = HeaderChar(x, c)
    BY <1>12, Zenon DEF RequestChar
  <2> HIDE DEF y
  <2> QED
    BY <1>0, <1>12, <2>1, HeaderCharQuiet, QuietFits DEF Early
<1> HIDE DEF y
<1> QED
  BY <1>1, <1>2, <1>3, <1>4, <1>5, <1>6, <1>7, <1>8, <1>9, <1>10, <1>11, <1>12

LEMMA RequestHeadCharFits ==
  ASSUME NEW x, Limits(x), Fresh(x), NEW c
  PROVE  Fits(RequestHeadChar(x, c))
<1> DEFINE z == [x EXCEPT !.size = @ + 1]
<1>1. CASE x.size + 1 > HeaderMax
  <2> DEFINE r == Refuse(x, EERIS_4XX, 431, 10)
  <2>1. RequestHeadChar(x, c) = r
    BY <1>1 DEF RequestHeadChar
  <2>2. Alike(x, r) /\ r.st = "FINISH"
    BY RefuseAlike DEF Limits
  <2> HIDE DEF r
  <2>3. Quiet(x, r)
    BY <2>2 DEF Quiet, Early
  <2> QED
    BY <2>1, <2>3, QuietFits
<1>2. CASE ~(x.size + 1 > HeaderMax)
  <2>1. z = [f \in ParserFields |-> z[f]] /\ z.size = x.size + 1
        /\ z.http = x.http /\ z.st = x.st /\ z.rc = x.rc /\ z.side = x.side
    BY DEF Limits, Shaped, ParserFields
  <2> HIDE DEF z
  <2>2. Len(x.http.request.query) \in Nat
    BY AppendSeq DEF Limits
  <2>3. Limits(z) /\ Fresh(z) /\ Len(z.http.request.query) < z.size
    BY <1>2, <2>1, <2>2, HeadAssumption DEF Limits, Fresh, Shaped
  <2>4. RequestHeadChar(x, c) = RequestChar(z, c)
    BY <1>2 DEF RequestHeadChar, z
  <2> QED
    BY <2>3, <2>4, RequestCharFits
<1> QED
  BY <1>1, <1>2

-----------------------------------------------------------------------------
(* Chunks.  The automaton's own state is no part of what is limited. *)
PutHttp(x, f, v) == [x EXCEPT !.http[f] = v]

LEMMA HttpField ==
  ASSUME NEW x, Shaped(x), NEW f \in {"chunk", "response"}, NEW v,
         NEW y, y = PutHttp(x, f, v)
  PROVE  Alike(x, y) /\ Shaped(y) /\ y.rc = x.rc /\ y.http[f] = v
<1> DEFINE h == [x.http EXCEPT ![f] = v]
<1>0. y = [x EXCEPT !.http = h]
  BY DEF PutHttp
<1>1. h = [g \in HttpFields |-> h[g]] /\ h.request = x.http.request /\ h.chunked = x.http.chunked
      /\ h[f] = v
  BY DEF Shaped, ShapedHttp, HttpFields
<1> HIDE DEF h
<1>2. y = [g \in ParserFields |-> y[g]] /\ y.http = h
      /\ y.size = x.size /\ y.rc = x.rc /\ y.side = x.side
  BY <1>0 DEF Shaped, ParserFields
<1> QED
  BY <1>1, <1>2 DEF Alike, SameHttp, Shaped, ShapedHttp

LEMMA AlikeSelf == \A x : Shaped(x) => Alike(x, x)
BY DEF Alike, SameHttp, Shaped

LEMMA ChunkGotoAlike ==
  ASSUME NEW x, Shaped(x), NEW st
  PROVE  Alike(x, ChunkGoto(x, st)) /\ Shaped(ChunkGoto(x, st))
<1> PICK v : v = [x.http.chunk EXCEPT !.st = st]
  OBVIOUS
<1>1. ChunkGoto(x, st) = PutHttp(x, "chunk", v)
  BY DEF ChunkGoto, PutHttp
<1> QED
  BY <1>1, HttpField

LEMMA ChunkBadAlike ==
  ASSUME NEW x, Shaped(x), NEW status
  PROVE  Alike(x, ChunkBad(x, status))
<1> DEFINE h == Refusal(x.http, status, 10)
           z == [x EXCEPT !.rc = EERIS_DATA]
<1>1. ChunkBad(x, status) = [z EXCEPT !.http = h]
  BY DEF ChunkBad, Shaped, ParserFields
<1>2. Alike(x, z) /\ Shaped(z) /\ z.http = x.http
  BY FieldAlike, AlikeShaped DEF ParserFields
<1>3. SameHttp(x.http, h)
  BY RefusalSame DEF Shaped
<1> HIDE DEF h, z
<1>4. Alike(z, [z EXCEPT !.http = h])
  BY <1>2, <1>3, HttpAlike
<1> QED
  BY <1>1, <1>2, <1>4, AlikeTrans

LEMMA NeedsAlike ==
  ASSUME NEW x, NEW ok, NEW y, Shaped(x), Alike(x, y)
  PROVE  Alike(x, ChunkNeeds(x, ok, y))
BY ChunkBadAlike DEF ChunkNeeds

LEMMA DigitAlike ==
  ASSUME NEW x, Shaped(x), NEW c
  PROVE  Alike(x, Digit(x, c))
<1> DEFINE z == ChunkGoto(x, "CHUNK_SIZE")
<1>1. Alike(x, z) /\ Shaped(z)
  BY ChunkGotoAlike
<1>2. Digit(x, c) = [z EXCEPT !.digits = Append(z.digits, c)]
  BY DEF Digit
<1> HIDE DEF z
<1> PICK v : v = Append(z.digits, c)
  OBVIOUS
<1>3. Alike(z, [z EXCEPT !.digits = v])
  BY <1>1, FieldAlike DEF ParserFields
<1> QED
  BY <1>1, <1>2, <1>3, AlikeTrans

(* A byte of data: the body is one longer. *)
LEMMA DataFits ==
  ASSUME NEW x, Limits(x), NEW c, x.http.chunked = TRUE => Len(x.http.request.body) <= BodyMax
  PROVE  Limits(Data(x, c))
<1>a. PICK k : k = [x.http.chunk EXCEPT !.got = @ + 1]
  OBVIOUS
<1>b. PICK b : b = Append(x.http.request.body, c)
  OBVIOUS
<1>c. PICK z : z = PutHttp(x, "chunk", k)
  OBVIOUS
<1>0. PICK y : y = Put(z, "body", b)
  OBVIOUS
<1>1. Data(x, c) = y
  BY <1>a, <1>b, <1>c, <1>0 DEF Data, Put, PutHttp, Limits, Shaped, ShapedHttp, ParserFields, HttpFields
<1>2. Alike(x, z) /\ Shaped(z)
  BY <1>c, HttpField DEF Limits
<1>3. Limits(z) /\ z.http.request.body = x.http.request.body
  BY <1>2, AlikeLimits DEF Alike, SameHttp
<1>4. /\ Shaped(y) /\ y.size = z.size /\ y.http.chunked = z.http.chunked
      /\ y.http.request["body"] = b
      /\ y.http.request["url"] = z.http.request["url"]
      /\ y.http.request["query"] = z.http.request["query"]
  <2>1. "body" \in RequestFields /\ {"url", "query"} \subseteq RequestFields \ {"body"}
    BY DEF RequestFields
  <2>2. /\ Shaped(y) /\ y.size = z.size /\ y.http.chunked = z.http.chunked
        /\ y.http.request["body"] = b
        /\ \A g \in RequestFields \ {"body"} : y.http.request[g] = z.http.request[g]
    BY <1>0, <1>2, <2>1, RequestField
  <2> QED
    BY <2>1, <2>2
<1>5. y.http.chunked = TRUE => IsSeq(b) /\ Len(b) <= BodyMax + 1
  <2> SUFFICES ASSUME x.http.chunked = TRUE PROVE IsSeq(b) /\ Len(b) <= BodyMax + 1
    BY <1>2, <1>4 DEF Alike, SameHttp
  <2>1. IsSeq(x.http.request.body)
    BY DEF Limits
  <2>2. IsSeq(b) /\ Len(b) = Len(x.http.request.body) + 1 /\ Len(x.http.request.body) \in Nat
    BY <1>b, <2>1, AppendSeq
  <2> QED
    BY <2>2, ChunkAssumption
<1>6. Limits(y)
  BY <1>3, <1>4, <1>5 DEF Limits
<1> QED
  BY <1>1, <1>6

(* A character of a chunked body leaves alone what is limited, or is data. *)
LEMMA ChunkCharSteps ==
  ASSUME NEW x, Shaped(x), NEW c
  PROVE  \/ Alike(x, ChunkChar(x, c))
         \/ \E st : ChunkChar(x, c) = ChunkGoto(Data(x, c), st)
         \/ ChunkChar(x, c) = Data(x, c)
<1> DEFINE y == ChunkChar(x, c)
           st == x.http.chunk.st
<1> SUFFICES Alike(x, y) \/ (\E s : y = ChunkGoto(Data(x, c), s)) \/ y = Data(x, c)
  OBVIOUS
<1>0. Alike(x, x) /\ Alike(x, Digit(x, c)) /\ \A s : Alike(x, ChunkGoto(x, s))
      /\ \A n : Alike(x, ChunkBad(x, n))
  BY AlikeSelf, DigitAlike, ChunkGotoAlike, ChunkBadAlike
<1>1. CASE st = "CHUNKED"
  <2>1. y = ChunkNeeds(x, IsHex(c), Digit(x, c))
    BY <1>1, Zenon DEF ChunkChar, FirstDigit
  <2> HIDE DEF y
  <2> QED
    BY <1>0, <2>1, NeedsAlike
<1>2. CASE st = "CHUNK_SIZE"
  <2>1. y = SizeChar(x, c)
    BY <1>2, Zenon DEF ChunkChar
  <2>2. SizeChar(x, c) \in {Digit(x, c), ChunkGoto(x, "EXT_NAME"), ChunkGoto(x, "CR1"), ChunkBad(x, 400)}
    BY Zenon DEF SizeChar
  <2> HIDE DEF y
  <2> QED
    BY <1>0, <2>1, <2>2
<1>3. CASE st = "EXT_NAME"
  <2>1. y = ExtNameChar(x, c)
    BY <1>3, Zenon DEF ChunkChar
  <2> HIDE DEF y
  <2> QED
    BY <1>0, <2>1, NeedsAlike DEF ExtNameChar
<1>4. CASE st = "EXT_VALUE"
  <2>1. y = ExtValueChar(x, c)
    BY <1>4, Zenon DEF ChunkChar
  <2>2. ExtValueChar(x, c) \in {ChunkGoto(x, "EXT_NAME"), ChunkGoto(x, "CR1"), ChunkNeeds(x, IsNameChar(c), x)}
    BY Zenon DEF ExtValueChar
  <2> HIDE DEF y
  <2> QED
    BY <1>0, <2>1, <2>2, NeedsAlike
<1>5. CASE st = "CR1"
  <2> DEFINE a == ChunkGoto(x, "LF1")
             b == PutHttp(a, "chunk", [a.http.chunk EXCEPT !.size = HexToV(x.digits)])
             z == [b EXCEPT !.digits = <<>>]
  <2>1. y = SizeEndChar(x, c)
    BY <1>5, Zenon DEF ChunkChar
  <2>2. Alike(x, a) /\ Shaped(a)
    BY ChunkGotoAlike
  <2> HIDE DEF y
  <2>3. y = ChunkNeeds(x, c = "\n", z)
    <3> HIDE DEF a
    <3>1. [a EXCEPT !.http.chunk.size = HexToV(x.digits), !.digits = <<>>] = z
      BY <2>2 DEF PutHttp, Shaped, ShapedHttp, ParserFields, HttpFields
    <3> QED
      BY <2>1, <3>1 DEF SizeEndChar, a
  <2> HIDE DEF a
  <2>4. Alike(a, b) /\ Shaped(b)
    BY <2>2, HttpField
  <2> HIDE DEF b
  <2>5. Alike(b, z)
    BY <2>4, FieldAlike DEF ParserFields
  <2>6. Alike(x, z)
    BY <2>2, <2>4, <2>5, AlikeTrans
  <2> HIDE DEF z
  <2> QED
    BY <2>3, <2>6, NeedsAlike
<1>6. CASE st = "LF1"
  <2>1. y = FirstDataChar(x, c)
    BY <1>6, Zenon DEF ChunkChar
  <2>2. FirstDataChar(x, c) \in {ChunkGoto(x, "CR2"), ChunkGoto(x, "TRAILER_NAME"), ChunkGoto(Data(x, c), "DATA")}
    BY Zenon DEF FirstDataChar
  <2> HIDE DEF y
  <2> QED
    BY <1>0, <2>1, <2>2
<1>7. CASE st = "CR2"
  <2> DEFINE a == ChunkGoto(x, "LF2")
             z == PutHttp(a, "chunk", [a.http.chunk EXCEPT !.end = TRUE])
  <2>1. y = ChunkNeeds(x, c = "\n", z)
    <3>1. y = EndChar(x, c)
      BY <1>7, Zenon DEF ChunkChar
    <3> HIDE DEF y, a
    <3> QED
      BY <3>1 DEF EndChar, PutHttp, a
  <2>2. Alike(x, a) /\ Shaped(a)
    BY ChunkGotoAlike
  <2> HIDE DEF a, y
  <2>3. Alike(x, z)
    BY <2>2, HttpField, AlikeTrans
  <2> HIDE DEF z
  <2> QED
    BY <2>1, <2>3, NeedsAlike
<1>8. CASE st = "TRAILER_NAME"
  <2>1. y = TrailerNameChar(x, c)
    BY <1>8, Zenon DEF ChunkChar
  <2> HIDE DEF y
  <2> QED
    BY <1>0, <2>1, NeedsAlike DEF TrailerNameChar
<1>9. CASE st = "TRAILER_VALUE"
  <2>1. y = TrailerValueChar(x, c)
    BY <1>9, Zenon DEF ChunkChar
  <2> HIDE DEF y
  <2> QED
    BY <1>0, <2>1, NeedsAlike DEF TrailerValueChar
<1>10. CASE st = "DATA"
  <2> DEFINE a == ChunkGoto(x, "DATA_CR")
             b == PutHttp(a, "chunk", [a.http.chunk EXCEPT !.size = 0])
             z == PutHttp(b, "chunk", [b.http.chunk EXCEPT !.got = 0])
  <2>1. y = DataChar(x, c)
    BY <1>10, Zenon DEF ChunkChar
  <2>2. Alike(x, a) /\ Shaped(a)
    BY ChunkGotoAlike
  <2>3. z = [a EXCEPT !.http.chunk.size = 0, !.http.chunk.got = 0]
    <3> HIDE DEF a
    <3> QED
      BY <2>2 DEF PutHttp, Shaped, ShapedHttp, ParserFields, HttpFields
  <2>4. y \in {z, ChunkBad(z, 400), Data(x, c), ChunkBad(x, 400)}
    <3>1. DataChar(x, c) \in {[a EXCEPT !.http.chunk.size = 0, !.http.chunk.got = 0],
                              ChunkBad([a EXCEPT !.http.chunk.size = 0, !.http.chunk.got = 0], 400),
                              Data(x, c), ChunkBad(x, 400)}
      BY Zenon DEF DataChar
    <3> HIDE DEF z, a, y
    <3> QED
      BY <2>1, <2>3, <3>1
  <2> HIDE DEF a, y
  <2>5. Alike(a, b) /\ Shaped(b)
    BY <2>2, HttpField
  <2> HIDE DEF b
  <2>6. Alike(b, z) /\ Shaped(z)
    BY <2>5, HttpField
  <2> HIDE DEF z
  <2>7. Alike(x, z) /\ Alike(x, ChunkBad(z, 400))
    BY <2>2, <2>5, <2>6, ChunkBadAlike, AlikeTrans
  <2> QED
    BY <1>0, <2>4, <2>7
<1>11. CASE st = "DATA_CR"
  <2>1. y = DataCrChar(x, c)
    BY <1>11, Zenon DEF ChunkChar
  <2> HIDE DEF y
  <2> QED
    BY <1>0, <2>1, NeedsAlike DEF DataCrChar
<1>12. CASE st = "DATA_LF"
  <2>1. y = NextChunkChar(x, c)
    BY <1>12, Zenon DEF ChunkChar
  <2> HIDE DEF y
  <2> QED
    BY <1>0, <2>1, NeedsAlike DEF NextChunkChar
<1>13. CASE st \notin {"CHUNKED", "CHUNK_SIZE", "EXT_NAME", "EXT_VALUE", "CR1", "LF1", "CR2",
                       "TRAILER_NAME", "TRAILER_VALUE", "DATA", "DATA_CR", "DATA_LF"}
  <2>1. y = BehindEndChar(x, c)
    BY <1>13, Zenon DEF ChunkChar
  <2> PICK v : v = [x.http.chunk EXCEPT !.end = TRUE]
    OBVIOUS
  <2>2. BehindEndChar(x, c) = PutHttp(x, "chunk", v)
    BY DEF BehindEndChar, PutHttp
  <2> HIDE DEF y
  <2> QED
    BY <2>1, <2>2, HttpField
<1> HIDE DEF y
<1> QED
  BY <1>1, <1>2, <1>3, <1>4, <1>5, <1>6, <1>7, <1>8, <1>9, <1>10, <1>11, <1>12, <1>13

LEMMA CheckedChunkCharFits ==
  ASSUME NEW x, Limits(x), NEW c
  PROVE  Limits(CheckedChunkChar(x, c))
<1>0. Shaped(x) /\ x.side = "request"
  BY DEF Limits, Shaped
<1>1. CASE Len(x.http.request.body) > BodyMax
  BY <1>0, <1>1, ChunkBadAlike, AlikeLimits DEF CheckedChunkChar
<1>2. CASE ~(Len(x.http.request.body) > BodyMax)
  <2>1. CheckedChunkChar(x, c) = ChunkChar(x, c)
    BY <1>0, <1>2 DEF CheckedChunkChar
  <2>2. x.http.chunked = TRUE => Len(x.http.request.body) <= BodyMax
    <3>1. x.http.chunked = TRUE => Len(x.http.request.body) \in Nat
      BY AppendSeq DEF Limits
    <3> QED
      BY <1>2, <3>1, ChunkAssumption
  <2>3. Limits(Data(x, c)) /\ Shaped(Data(x, c))
    <3>1. Limits(Data(x, c))
      BY <2>2, DataFits
    <3> QED
      BY <3>1 DEF Limits
  <2>4. \A st : Limits(ChunkGoto(Data(x, c), st))
    BY <2>3, ChunkGotoAlike, AlikeLimits
  <2> QED
    BY <1>0, <2>1, <2>3, <2>4, ChunkCharSteps, AlikeLimits
<1> QED
  BY <1>1, <1>2

LEMMA ChunkRoundFits ==
  ASSUME NEW x, Limits(x), NEW c, NEW last
  PROVE  Limits(ChunkRound(x, c, last)) /\ Limits(ChunksOver(ChunkRound(x, c, last)))
<1> DEFINE y == CheckedChunkChar(x, c)
           over == y.rc # 0 \/ y.http.chunk.end
           d == IF last \/ over THEN <<>> ELSE y.digits
           k == IF over THEN [NoChunks EXCEPT !.end = y.http.chunk.end] ELSE y.http.chunk
           a == [y EXCEPT !.digits = d]
           z == PutHttp(a, "chunk", k)
<1>1. Limits(y) /\ Shaped(y)
  <2>1. Limits(y)
    BY CheckedChunkCharFits
  <2> HIDE DEF y
  <2> QED
    BY <2>1 DEF Limits
<1>2. ChunkRound(x, c, last) = z
  <2>1. ChunkRound(x, c, last) = [y EXCEPT !.digits = d, !.http.chunk = k]
    BY DEF ChunkRound
  <2> HIDE DEF y, d, k
  <2> QED
    BY <1>1, <2>1 DEF PutHttp, Shaped, ParserFields
<1> HIDE DEF y, d, k
<1>3. Alike(y, a) /\ Shaped(a)
  BY <1>1, FieldAlike, AlikeShaped DEF ParserFields
<1> HIDE DEF a
<1>4. Limits(z) /\ Shaped(z)
  <2>1. Alike(a, z) /\ Shaped(z)
    BY <1>3, HttpField
  <2> QED
    BY <1>1, <1>3, <2>1, AlikeLimits
<1> HIDE DEF z
<1>5. Limits(ChunksOver(z))
  <2> DEFINE refused == [z EXCEPT !.http = Refusal(@, 408, 10)]
             dropped == [z EXCEPT !.http.response.body = <<>>]
  <2>1. ChunksOver(z) \in {z, refused, dropped}
    BY Zenon DEF ChunksOver
  <2>2. Alike(z, refused)
    <3>1. SameHttp(z.http, Refusal(z.http, 408, 10))
      BY <1>4, RefusalSame DEF Shaped
    <3> QED
      BY <1>4, <3>1, HttpAlike
  <2>3. Alike(z, dropped)
    <3>1. PICK v : v = [z.http.response EXCEPT !.body = <<>>]
      OBVIOUS
    <3>2. dropped = PutHttp(z, "response", v)
      BY <3>1 DEF PutHttp
    <3> QED
      BY <1>4, <3>2, HttpField
  <2> HIDE DEF refused, dropped
  <2> QED
    BY <1>4, <2>1, <2>2, <2>3, AlikeLimits
<1> QED
  BY <1>2, <1>4, <1>5

-----------------------------------------------------------------------------
(* The length. *)
LEMMA LengthRefusedAlike ==
  ASSUME NEW x, Shaped(x)
  PROVE  Alike(x, LengthRefused(x))
<1>1. LengthRefused(x) \in {Refuse(x, EERIS_4XX, 411, 10), Refuse(x, EERIS_4XX, 413, 10), x}
  <2> DEFINE hs == x.http.request.headers
             has == HasHeader(hs, <<"Content-Length">>)
             wrong == Length(hs) < 0 \/ Length(hs) > BodyMax
  <2>1. CASE ~has
    BY <2>1, Zenon DEF LengthRefused
  <2>2. CASE has /\ wrong
    <3>1. LengthRefused(x) = Refuse(x, EERIS_4XX, 413, 10)
      BY <2>2, Zenon DEF LengthRefused
    <3> QED
      BY <3>1
  <2>3. CASE has /\ ~wrong
    BY <2>3, Zenon DEF LengthRefused
  <2> QED
    BY <2>1, <2>2, <2>3
<1> QED
  BY <1>1, RefuseAlike, AlikeSelf

LEMMA ShakenAlike ==
  ASSUME NEW x, Shaped(x)
  PROVE  Alike(x, Shaken(x))
<1> DEFINE h == [x.http EXCEPT !.request.shake = TRUE]
           g == Refusal(h, 100, 11)
           b == [x EXCEPT !.http = g]
<1>1. Shaken(x) = LengthRefused(b)
  BY DEF Shaken
<1>2. SameHttp(x.http, h) /\ ShapedHttp(h)
  BY DEF Shaped, ShapedHttp, SameHttp, HttpFields, RequestFields
<1> HIDE DEF h
<1>3. SameHttp(h, g)
  BY <1>2, RefusalSame
<1> HIDE DEF g
<1>4. SameHttp(x.http, g)
  BY <1>2, <1>3 DEF SameHttp
<1>5. Alike(x, b) /\ Shaped(b)
  BY <1>4, HttpAlike, AlikeShaped
<1> HIDE DEF b
<1> QED
  BY <1>1, <1>5, LengthRefusedAlike, AlikeTrans

(* What the server begins a request with, whatever the context held. *)
LEMMA BeginFits ==
  ASSUME NEW h, ShapedHttp(h)
  PROVE  Limits(Begin(h)) /\ Fresh(Begin(h))
<1> DEFINE g == CleanupRequest(CleanupHttp(h))
<1>1. g = [f \in HttpFields |-> g[f]] /\ g.chunked = FALSE
      /\ g.request = [f \in RequestFields |-> g.request[f]]
      /\ g.request.url = <<>> /\ g.request.query = <<>> /\ g.request.body = <<>>
  BY DEF CleanupHttp, CleanupRequest, InitHttp, InitRequest, ShapedHttp, HttpFields, RequestFields
<1> HIDE DEF g
<1> DEFINE x == ParserStart("request", g)
<1>2. Begin(h) = x
  BY DEF Begin, g
<1>3. Shaped(x) /\ x.http = g /\ x.size = 0 /\ x.rc = 0
  BY <1>1 DEF ParserStart, Shaped, ShapedHttp, ParserFields
<1> HIDE DEF x
<1>4. IsSeq(g.request.url) /\ Len(g.request.url) = 0 /\ IsSeq(g.request.query) /\ Len(g.request.query) = 0
  BY <1>1, EmptyIsSeq
<1> QED
  <2>0. g.chunked = FALSE
    BY <1>1
  <2>1. Limits(x)
    <3>1. x.http.chunked \in BOOLEAN /\ x.http.chunked # TRUE
      BY <1>3, <2>0
    <3>2. IsSeq(x.http.request.url) /\ Len(x.http.request.url) <= UrlMax + 1
      BY <1>3, <1>4, HeadAssumption
    <3>3. IsSeq(x.http.request.query) /\ Len(x.http.request.query) <= x.size
      BY <1>3, <1>4
    <3>4. x.size \in Nat /\ x.size <= HeaderMax
      BY <1>3, HeadAssumption
    <3> QED
      BY <1>3, <3>1, <3>2, <3>3, <3>4 DEF Limits
  <2>2. Fresh(x)
    BY <1>1, <1>3, <1>4, HeadAssumption DEF Fresh
  <2> QED
    BY <1>2, <2>1, <2>2

-----------------------------------------------------------------------------
(* The inductive invariant: what is more than the limits holds while the    *)
(* head is read, and a body with a length is read outside of the limit of   *)
(* chunks.                                                                  *)
HInv ==
  /\ at = <<at[1], at[2]>> /\ at[1] \in {"idle", "request", "response"}
  /\ at[1] = "idle" => at = Idle
  /\ call = [side \in {"request", "response"} |-> call[side]]
  /\ Limits(call["request"])
  /\ at[1] = "request" /\ at[2] \in {"head", "headed"} => Fresh(call["request"])
  /\ at[1] = "request" /\ at[2] = "body" => call["request"].http.chunked = FALSE

LEMMA HInit == Init => HInv
<1> SUFFICES ASSUME Init PROVE HInv
  OBVIOUS
<1> DEFINE x == ParserStart("request", InitHttp)
<1>1. /\ at = Idle /\ Idle = <<"idle", "idle">>
      /\ call = [side \in {"request", "response"} |-> ParserStart(side, InitHttp)]
  BY DEF Init, Idle
<1>2. call = [side \in {"request", "response"} |-> call[side]] /\ call["request"] = x
  BY <1>1
<1>3. Shaped(x) /\ x.size = 0 /\ x.http.chunked = FALSE
      /\ x.http.request.url = <<>> /\ x.http.request.query = <<>>
  BY DEF ParserStart, InitHttp, InitRequest, Shaped, ShapedHttp, ParserFields, HttpFields, RequestFields
<1> HIDE DEF x
<1>4. /\ IsSeq(x.http.request.url) /\ Len(x.http.request.url) = 0
      /\ IsSeq(x.http.request.query) /\ Len(x.http.request.query) = 0
  BY <1>3, EmptyIsSeq
<1>5. Limits(x)
  <2>1. x.http.chunked \in BOOLEAN /\ x.http.chunked # TRUE
    BY <1>3
  <2>2. Len(x.http.request.url) <= UrlMax + 1 /\ Len(x.http.request.query) <= x.size
        /\ x.size \in Nat /\ x.size <= HeaderMax
    BY <1>3, <1>4, HeadAssumption
  <2>3. Shaped(x)
    BY <1>3
  <2> QED
    BY <1>4, <2>1, <2>2, <2>3 DEF Limits
<1> QED
  BY <1>1, <1>2, <1>5 DEF HInv

(* What a step makes of the parser that runs. *)
LEMMA ServerBecomes ==
  ASSUME HInv, Side = "request", NEW x, Limits(x), NEW phase, Becomes(x, phase),
         x.rc = 0 /\ phase \in {"head", "headed"} => Fresh(x),
         x.rc = 0 /\ phase = "body" => x.http.chunked = FALSE
  PROVE  HInv'
<1>1. /\ call' = [call EXCEPT !["request"] = x]
      /\ at' = <<"request", IF x.rc # 0 THEN "parsed" ELSE phase>>
  BY DEF Becomes, Side
<1>2. call' = [side \in {"request", "response"} |-> call'[side]] /\ call'["request"] = x
  BY <1>1 DEF HInv
<1>3. at' = <<at'[1], at'[2]>> /\ at'[1] = "request" /\ at'[2] = IF x.rc # 0 THEN "parsed" ELSE phase
  BY <1>1
<1>4. Limits(call["request"])'
  BY <1>2
<1>5. (at[1] = "request" /\ at[2] \in {"head", "headed"} => Fresh(call["request"]))'
  BY <1>2, <1>3
<1>6. (at[1] = "request" /\ at[2] = "body" => call["request"].http.chunked = FALSE)'
  BY <1>2, <1>3
<1> QED
  BY <1>2, <1>3, <1>4, <1>5, <1>6 DEF HInv

LEMMA ClientBecomes ==
  ASSUME HInv, Side # "request", ~At("idle"), NEW x, NEW phase, Becomes(x, phase)
  PROVE  HInv'
<1>1. at[1] = "response"
  BY DEF HInv, Side, At, Idle
<1>2. /\ call' = [call EXCEPT !["response"] = x] /\ at'[1] = "response" /\ at' = <<at'[1], at'[2]>>
  BY <1>1 DEF Becomes, Side
<1>3. call' = [side \in {"request", "response"} |-> call'[side]] /\ call'["request"] = call["request"]
  BY <1>2 DEF HInv
<1>4. Limits(call["request"])'
  BY <1>3 DEF HInv
<1> QED
  BY <1>2, <1>3, <1>4 DEF HInv

LEMMA ServerShaped == HInv => Shaped(call["request"]) /\ Limits(call["request"])
BY DEF HInv, Limits

LEMMA AskInv == HInv /\ Ask => HInv'
<1> SUFFICES ASSUME HInv, Ask PROVE HInv'
  OBVIOUS
<1> DEFINE x == Begin(call["request"].http)
<1>1. PICK client : call' = [request |-> x, response |-> ParserStart("response", client)]
  BY DEF Ask
<1>2. Limits(x) /\ Fresh(x)
  BY ServerShaped, BeginFits DEF Shaped
<1> HIDE DEF x
<1>3. call' = [side \in {"request", "response"} |-> call'[side]] /\ call'["request"] = x
  BY <1>1
<1>4. at' = <<"request", "head">>
  BY DEF Ask
<1>5. Limits(call["request"])' /\ Fresh(call["request"])'
  BY <1>2, <1>3
<1> QED
  BY <1>3, <1>4, <1>5 DEF HInv

LEMMA HangUpInv == HInv /\ HangUp => HInv'
<1> SUFFICES ASSUME HInv, HangUp PROVE HInv'
  OBVIOUS
<1>1. UNCHANGED <<at, call>>
  BY DEF HangUp
<1> QED
  BY <1>1 DEF HInv

LEMMA TakeHeadInv == HInv /\ TakeHead => HInv'
<1> SUFFICES ASSUME HInv, TakeHead PROVE HInv'
  OBVIOUS
<1> DEFINE x == HeadChar(call[Side], Head(wire))
<1>1. At("head") /\ ~At("idle") /\ Becomes(x, IF x.done THEN "headed" ELSE "head")
  BY DEF TakeHead, At
<1>2. PICK phase \in {"head", "headed"} : Becomes(x, phase)
  BY <1>1
<1>3. CASE Side = "request"
  <2>1. Limits(call["request"]) /\ Fresh(call["request"]) /\ call["request"].side = "request"
    BY <1>1, <1>3, ServerShaped DEF HInv, At, Side, Shaped
  <2>2. Fits(x)
    BY <1>3, <2>1, RequestHeadCharFits DEF HeadChar
  <2> HIDE DEF x
  <2> QED
    BY <1>2, <1>3, <2>2, ServerBecomes DEF Fits
<1>4. CASE Side # "request"
  BY <1>1, <1>2, <1>4, ClientBecomes
<1> QED
  BY <1>3, <1>4

LEMMA HeadEndsInv == HInv /\ HeadEnds => HInv'
<1> SUFFICES ASSUME HInv, HeadEnds PROVE HInv'
  OBVIOUS
<1>1. ~At("idle") /\ Becomes(call[Side], "parsed")
  BY DEF HeadEnds, At
<1>2. CASE Side = "request"
  BY <1>1, <1>2, ServerShaped, ServerBecomes
<1>3. CASE Side # "request"
  BY <1>1, <1>3, ClientBecomes
<1> QED
  BY <1>2, <1>3

LEMMA HeadFailsInv == HInv /\ HeadFails => HInv'
<1> SUFFICES ASSUME HInv, HeadFails PROVE HInv'
  OBVIOUS
<1> DEFINE x == Refuse(call["request"], EERIS_ERROR, 408, 10)
<1>1. ~At("idle")
  BY DEF HeadFails, At
<1>2. CASE Side = "request"
  <2>1. Becomes(x, "parsed")
    BY <1>2 DEF HeadFails
  <2>2. Limits(x)
    BY ServerShaped, RefuseAlike, AlikeLimits
  <2> HIDE DEF x
  <2> QED
    BY <1>2, <2>1, <2>2, ServerBecomes
<1>3. CASE Side # "request"
  <2>1. PICK y : Becomes(y, "parsed")
    BY <1>3 DEF HeadFails
  <2> QED
    BY <1>1, <1>3, <2>1, ClientBecomes
<1> QED
  BY <1>2, <1>3

(* Behind the head of a request. *)
LEMMA EndHeadFits ==
  ASSUME NEW x, Limits(x), Fresh(x), NEW more
  PROVE  Fits(EndHead(x, more))
<1> DEFINE r == Refuse(x, EERIS_4XX, 431, 10)
<1>1. EndHead(x, more) = r \/ EndHead(x, more) = x
  BY DEF EndHead
<1>2. Quiet(x, r)
  BY RefuseAlike DEF Quiet, Early, Limits
<1> HIDE DEF r
<1> QED
  BY <1>1, <1>2, QuietFits DEF Fits

LEMMA DecideRequestInv ==
  ASSUME HInv, Side = "request", NEW x, Fits(x), NEW rest, DecideRequest(x, rest)
  PROVE  HInv'
<1>0. Limits(x) /\ Shaped(x)
  BY DEF Fits, Limits
<1> DEFINE stops == x.rc # 0 \/ ~Carries(x.http.request.command)
<1>1. CASE stops
  <2>1. Becomes(x, "parsed")
    BY <1>1, Zenon DEF DecideRequest
  <2> QED
    BY <1>0, <2>1, ServerBecomes
<1> DEFINE carries == x.rc = 0 /\ Carries(x.http.request.command)
<1>2. CASE carries /\ Shakes(x)
  <2>1. Becomes(Shaken(x), "parsed")
    BY <1>2, Zenon DEF DecideRequest
  <2>2. Limits(Shaken(x))
    BY <1>0, ShakenAlike, AlikeLimits
  <2> QED
    BY <2>1, <2>2, ServerBecomes
<1>3. CASE carries /\ ~Shakes(x) /\ Chunked(x)
  <2> DEFINE h == [x.http EXCEPT !.chunked = TRUE]
             y == [x EXCEPT !.http = h]
  <2>1. Becomes(y, "chunks")
    <3>1. Becomes([x EXCEPT !.http.chunked = TRUE], "chunks")
      BY <1>3, Zenon DEF DecideRequest
    <3> QED
      BY <3>1
  <2>2. Fresh(x)
    BY <1>3 DEF Fits
  <2>3. ShapedHttp(h) /\ h.request = x.http.request /\ h.chunked = TRUE
    BY <1>0 DEF Shaped, ShapedHttp, HttpFields
  <2> HIDE DEF h
  <2>4. Shaped(y) /\ y.http = h /\ y.size = x.size
    BY <1>0, <2>3 DEF Shaped, ParserFields
  <2> HIDE DEF y
  <2>5. IsSeq(y.http.request.body) /\ Len(y.http.request.body) <= BodyMax + 1
    <3>1. y.http.request.body = <<>>
      BY <2>2, <2>3, <2>4 DEF Fresh
    <3>2. IsSeq(y.http.request.body) /\ Len(y.http.request.body) = 0
      BY <3>1, EmptyIsSeq
    <3> QED
      BY <3>2, ChunkAssumption
  <2>6. Limits(y)
    BY <1>0, <2>3, <2>4, <2>5 DEF Limits
  <2> QED
    BY <2>1, <2>6, ServerBecomes
<1>4. CASE carries /\ ~Shakes(x) /\ ~Chunked(x)
  <2> DEFINE b == Put(x, "body", rest)
             plain == LengthRefused(b)
  <2>1. Becomes(plain, BodyPhase(plain))
    BY <1>4, Zenon DEF DecideRequest, Put
  <2>2. Fresh(x)
    BY <1>4 DEF Fits
  <2>3. Limits(b) /\ b.http.chunked = FALSE /\ Shaped(b)
    <3>1. "body" \in RequestFields /\ {"url", "query"} \subseteq RequestFields \ {"body"}
      BY DEF RequestFields
    <3>2. /\ Shaped(b) /\ b.size = x.size /\ b.http.chunked = x.http.chunked
          /\ \A g \in RequestFields \ {"body"} : b.http.request[g] = x.http.request[g]
      BY <1>0, <3>1, RequestField
    <3> HIDE DEF b
    <3>3. b.http.request["url"] = x.http.request["url"] /\ b.http.request["query"] = x.http.request["query"]
      BY <3>1, <3>2
    <3>4. b.http.chunked = FALSE
      BY <2>2, <3>2 DEF Fresh
    <3> QED
      BY <1>0, <3>2, <3>3, <3>4 DEF Limits
  <2> HIDE DEF b
  <2>4. Limits(plain) /\ plain.http.chunked = FALSE
    <3>1. Alike(b, plain)
      BY <2>3, LengthRefusedAlike
    <3> HIDE DEF plain
    <3> QED
      BY <2>3, <3>1, AlikeLimits DEF Alike, SameHttp
  <2>5. BodyPhase(plain) \in {"body", "parsed"}
    BY DEF BodyPhase
  <2> HIDE DEF plain
  <2> QED
    BY <2>1, <2>4, <2>5, ServerBecomes
<1> QED
  BY <1>1, <1>2, <1>3, <1>4

LEMMA DecideInv == HInv /\ Decide => HInv'
<1> SUFFICES ASSUME HInv, Decide PROVE HInv'
  OBVIOUS
<1>1. At("headed") /\ ~At("idle")
  BY DEF Decide, At
<1>2. CASE Side = "request"
  <2> DEFINE x == call["request"]
  <2>1. PICK n \in 0 .. Len(wire) : DecideRequest(EndHead(x, n > 0), SubSeq(wire, 1, n))
    BY <1>2 DEF Decide
  <2>2. Limits(x) /\ Fresh(x)
    BY <1>1, <1>2 DEF HInv, At, Side
  <2>3. Fits(EndHead(x, n > 0))
    BY <2>2, EndHeadFits
  <2> HIDE DEF x
  <2> QED
    BY <1>2, <2>1, <2>3, DecideRequestInv
<1>3. CASE Side # "request"
  <2> DEFINE x == call[Side]
  <2>1. PICK n \in 0 .. Len(wire) : DecideResponse(x, SubSeq(wire, 1, n))
    BY <1>3 DEF Decide
  <2> DEFINE rest == SubSeq(wire, 1, n)
             full == [x EXCEPT !.http.response.body = rest]
             measured == /\ HasHeader(x.http.request.headers, <<"Content-Length">>)
                         /\ Length(x.http.request.headers) > 0
  <2>2. \/ Becomes([x EXCEPT !.http.chunked = TRUE], "chunks")
        \/ Becomes(full, BodyPhase(full))
        \/ Becomes(x, "parsed")
    <3>1. CASE Chunked(x)
      BY <2>1, <3>1, Zenon DEF DecideResponse
    <3>2. CASE ~Chunked(x) /\ measured
      BY <2>1, <3>2, Zenon DEF DecideResponse
    <3>3. CASE ~Chunked(x) /\ ~measured
      BY <2>1, <3>3, Zenon DEF DecideResponse
    <3> QED
      BY <3>1, <3>2, <3>3
  <2>3. PICK y, phase : Becomes(y, phase)
    BY <2>2
  <2> QED
    BY <1>1, <1>3, <2>3, ClientBecomes
<1> QED
  BY <1>2, <1>3

(* The body. *)
LEMMA TakeBodyInv == HInv /\ TakeBody => HInv'
<1> SUFFICES ASSUME HInv, TakeBody PROVE HInv'
  OBVIOUS
<1>1. At("body") /\ ~At("idle")
  BY DEF TakeBody, At
<1>2. CASE Side = "request"
  <2> DEFINE x == call["request"]
             b(n) == x.http.request.body \o SubSeq(wire, 1, n)
  <2>1. PICK n \in 1 .. Len(wire) : Becomes(Put(x, "body", b(n)), BodyPhase(Put(x, "body", b(n))))
    BY <1>2 DEF TakeBody, Put
  <2>2. Limits(x) /\ Shaped(x) /\ x.http.chunked = FALSE
    BY <1>1, <1>2, ServerShaped DEF HInv, At, Side
  <2>3. PICK y : y = Put(x, "body", b(n))
    OBVIOUS
  <2> HIDE DEF x, b
  <2>4. Limits(y) /\ y.http.chunked = FALSE
    <3>1. "body" \in RequestFields /\ {"url", "query"} \subseteq RequestFields \ {"body"}
      BY DEF RequestFields
    <3>2. /\ Shaped(y) /\ y.size = x.size /\ y.http.chunked = x.http.chunked
          /\ \A g \in RequestFields \ {"body"} : y.http.request[g] = x.http.request[g]
      BY <2>2, <2>3, <3>1, RequestField
    <3>3. y.http.request["url"] = x.http.request["url"] /\ y.http.request["query"] = x.http.request["query"]
      BY <3>1, <3>2
    <3> QED
      BY <2>2, <3>2, <3>3 DEF Limits
  <2>5. Becomes(y, BodyPhase(y)) /\ BodyPhase(y) \in {"body", "parsed"}
    BY <2>1, <2>3 DEF BodyPhase
  <2> QED
    BY <1>2, <2>4, <2>5, ServerBecomes
<1>3. CASE Side # "request"
  <2>1. PICK y, phase : Becomes(y, phase)
    BY DEF TakeBody
  <2> QED
    BY <1>1, <1>3, <2>1, ClientBecomes
<1> QED
  BY <1>2, <1>3

LEMMA BodyFailsInv == HInv /\ BodyFails => HInv'
<1> SUFFICES ASSUME HInv, BodyFails PROVE HInv'
  OBVIOUS
<1> DEFINE x == Refuse(call["request"], EERIS_4XX, 408, 10)
<1>1. ~At("idle")
  BY DEF BodyFails, At
<1>2. CASE Side = "request"
  <2>1. Becomes(x, "parsed")
    BY <1>2 DEF BodyFails
  <2>2. Limits(x)
    BY ServerShaped, RefuseAlike, AlikeLimits
  <2> HIDE DEF x
  <2> QED
    BY <1>2, <2>1, <2>2, ServerBecomes
<1>3. CASE Side # "request"
  <2>1. PICK y : Becomes(y, "parsed")
    BY <1>3 DEF BodyFails
  <2> QED
    BY <1>1, <1>3, <2>1, ClientBecomes
<1> QED
  BY <1>2, <1>3

LEMMA TakeChunkInv == HInv /\ TakeChunk => HInv'
<1> SUFFICES ASSUME HInv, TakeChunk PROVE HInv'
  OBVIOUS
<1>1. ~At("idle")
  BY DEF TakeChunk, At
<1>2. CASE Side = "request"
  <2>1. PICK last \in BOOLEAN, phase \in {"parsed", "chunks"} :
          Becomes(ChunksOver(ChunkRound(call["request"], Head(wire), last)), phase)
    BY <1>2 DEF TakeChunk
  <2>2. PICK y : y = ChunksOver(ChunkRound(call["request"], Head(wire), last))
    OBVIOUS
  <2>3. Limits(y)
    BY <2>2, ServerShaped, ChunkRoundFits
  <2> QED
    BY <1>2, <2>1, <2>2, <2>3, ServerBecomes
<1>3. CASE Side # "request"
  <2>1. PICK y, phase : Becomes(y, phase)
    BY DEF TakeChunk
  <2> QED
    BY <1>1, <1>3, <2>1, ClientBecomes
<1> QED
  BY <1>2, <1>3

(* The answer changes nothing that is limited. *)
LEMMA SetHeaderSame ==
  ASSUME NEW h, NEW g, SameHttp(h, g), NEW name, NEW value
  PROVE  SameHttp(h, ResponseSetHeader(g, name, value))
BY DEF SameHttp, ShapedHttp, ResponseSetHeader, HttpFields

LEMMA SetVersionSame ==
  ASSUME NEW h, NEW g, SameHttp(h, g), NEW version
  PROVE  SameHttp(h, ResponseSetVersion(g, version))
BY DEF SameHttp, ShapedHttp, ResponseSetVersion, HttpFields

LEMMA SetBodySame ==
  ASSUME NEW h, NEW g, SameHttp(h, g), NEW s
  PROVE  SameHttp(h, ResponseSetBody(g, s))
BY DEF SameHttp, ShapedHttp, ResponseSetBody, HttpFields

LEMMA AnsweredSame ==
  ASSUME NEW h, ShapedHttp(h), NEW r
  PROVE  SameHttp(h, Answered(h, r))
<1>0. SameHttp(h, h)
  BY DEF SameHttp
<1>1. SameHttp(h, Served(h, r))
  <2> DEFINE s == SetStatus(h, r.status)
             b == ResponseSetBody(s, Encoded(r))
  <2>1. SameHttp(h, s)
    BY <1>0 DEF SameHttp, ShapedHttp, SetStatus, HttpFields
  <2> HIDE DEF s
  <2>2. SameHttp(h, b)
    BY <2>1, SetBodySame
  <2> HIDE DEF b
  <2>3. Served(h, r) = [b EXCEPT !.response.headers = SetHeaders(@, r.headers)]
    BY DEF Served, b, s
  <2> QED
    BY <2>2, <2>3 DEF SameHttp, ShapedHttp, HttpFields
<1>2. SameHttp(h, WithPage(h))
  BY <1>0, SetBodySame, SetHeaderSame DEF WithPage
<1> DEFINE own == IF call["request"].rc = 0 THEN Served(h, r) ELSE WithPage(h)
           closing == ResponseSetHeader(ResponseSetVersion(own, h.request.version),
                                        <<"Connection">>, <<"close">>)
<1>3. SameHttp(h, own)
  BY <1>1, <1>2
<1>4. \E s : Answered(h, r) = ResponseSetHeader(closing, <<"Content-Length">>, s)
  BY DEF Answered
<1> HIDE DEF own
<1>5. SameHttp(h, closing)
  BY <1>3, SetVersionSame, SetHeaderSame
<1> HIDE DEF closing
<1> QED
  BY <1>4, <1>5, SetHeaderSame

LEMMA AnswerInv == HInv /\ Answer => HInv'
<1> SUFFICES ASSUME HInv, Answer PROVE HInv'
  OBVIOUS
<1> DEFINE x == call["request"]
<1>1. at' = <<"response", "head">>
  BY DEF Answer
<1>2. PICK r, client : call' = [call EXCEPT !["request"].http = ResponsePacked(Answered(x.http, r)),
                                            !["response"] = ParserStart("response", client)]
  BY DEF Answer
<1> DEFINE g == Answered(x.http, r)
           h == ResponsePacked(g)
           y == [x EXCEPT !.http = h]
<1>3. Limits(x) /\ Shaped(x)
  BY ServerShaped
<1>4. SameHttp(x.http, g)
  BY <1>3, AnsweredSame DEF Shaped
<1> HIDE DEF g, x
<1>5. SameHttp(x.http, h)
  BY <1>4 DEF ResponsePacked, SameHttp, ShapedHttp, HttpFields, RequestFields
<1>6. call' = [side \in {"request", "response"} |-> call'[side]] /\ call'["request"] = y
  BY <1>2 DEF HInv, x, g
<1> HIDE DEF h
<1>7. Limits(y)
  BY <1>3, <1>5, HttpAlike, AlikeLimits
<1> HIDE DEF y
<1>8. Limits(call["request"])'
  BY <1>6, <1>7
<1> QED
  BY <1>1, <1>6, <1>8 DEF HInv

LEMMA HNext == HInv /\ [Next]_vars => HInv'
<1> SUFFICES ASSUME HInv, [Next]_vars PROVE HInv'
  OBVIOUS
<1>1. CASE UNCHANGED vars
  BY <1>1 DEF vars, HInv
<1> QED
  BY <1>1, AskInv, HangUpInv, TakeHeadInv, HeadEndsInv, HeadFailsInv, DecideInv, TakeBodyInv,
     BodyFailsInv, TakeChunkInv, AnswerInv DEF Next

(* Whatever the limits are and whatever is sent, the context of a worker    *)
(* holds no more of a request than a byte over them (the checks of          *)
(* eris_http_request_parse and eris_http_chunk_parse).                      *)
THEOREM RequestsAreBounded == Spec => []Bounded
<1>1. HInv => Bounded
  <2> SUFFICES ASSUME HInv PROVE Bounded
    OBVIOUS
  <2> DEFINE x == call["request"]
  <2>1. Limits(x)
    BY ServerShaped
  <2>2. Len(x.http.request.query) \in Nat
    BY <2>1, AppendSeq DEF Limits
  <2> HIDE DEF x
  <2>3. Len(x.http.request.query) <= HeaderMax
    BY <2>1, <2>2, HeadAssumption DEF Limits
  <2> QED
    BY <2>1, <2>3 DEF Bounded, Limits, x
<1> QED
  BY <1>1, HInit, HNext, PTL DEF Spec

(***************************************************************************)
(* A request that eris_http_request_pack wrote is read as it was meant,    *)
(* whatever it is, as long as it can be read back, and wherever it is cut. *)
(***************************************************************************)

-----------------------------------------------------------------------------
(* Texts that follow one another. *)
(* A set of numbers that 0 is in, and with every number the next: were n not *)
(* in it, adding 1 would map those up to n into those that are not 0.        *)
LEMMA Induction ==
  ASSUME NEW S, 0 \in S, \A n \in Nat : n \in S => n + 1 \in S
  PROVE  Nat \subseteq S
<1> SUFFICES ASSUME NEW n \in Nat, n \notin S PROVE FALSE
  OBVIOUS
<1> DEFINE T == {k \in 0 .. n : k \in S}
           U == T \ {0}
           f == [k \in T |-> k + 1]
<1>1. IsFiniteSet(T) /\ Cardinality(T) \in Nat
  <2>1. IsFiniteSet(0 .. n) /\ T \subseteq 0 .. n
    BY FS_Interval
  <2> QED
    BY <2>1, FS_Subset, FS_CardinalityType
<1>2. 0 \in T /\ \A k \in T : k \in Nat /\ k + 1 \in U
  OBVIOUS
<1> HIDE DEF T
<1>3. IsFiniteSet(U) /\ Cardinality(U) < Cardinality(T)
  <2>1. IsFiniteSet(U) /\ Cardinality(U) = Cardinality(T) - 1
    BY <1>1, <1>2, FS_RemoveElement
  <2> QED
    BY <1>1, <2>1
<1>4. f \in [T -> U]
  BY <1>2
<1>5. PICK x, y \in T : x # y /\ f[x] = f[y]
  <2> HIDE DEF f, U
  <2> QED
    BY <1>1, <1>3, <1>4, FS_PigeonHole
<1> QED
  BY <1>2, <1>5

LEMMA Common ==
  ASSUME NEW s, NEW t, IsSeq(s), IsSeq(t)
  PROVE  \E S : s \in Seq(S) /\ t \in Seq(S)
<1>1. PICK S, T : s \in Seq(S) /\ t \in Seq(T)
  BY DEF IsSeq
<1>2. s \in Seq(S \cup T) /\ t \in Seq(S \cup T)
  BY <1>1, SeqMonotonic
<1> QED
  BY <1>2

LEMMA Cat ==
  ASSUME NEW s, NEW t, IsSeq(s), IsSeq(t)
  PROVE  /\ IsSeq(s \o t) /\ Len(s) \in Nat /\ Len(t) \in Nat
         /\ Len(s \o t) = Len(s) + Len(t)
         /\ \A i \in 1 .. Len(s) + Len(t) : (s \o t)[i] =
              IF i <= Len(s) THEN s[i] ELSE t[i - Len(s)]
         /\ s \o <<>> = s /\ <<>> \o s = s
<1>1. PICK S : s \in Seq(S) /\ t \in Seq(S)
  BY Common
<1> QED
  BY <1>1, ConcatProperties, ConcatEmptySeq, LenProperties DEF IsSeq

LEMMA Assoc ==
  ASSUME NEW s, NEW t, NEW u, IsSeq(s), IsSeq(t), IsSeq(u)
  PROVE  (s \o t) \o u = s \o (t \o u)
<1>1. PICK S : s \in Seq(S) /\ t \in Seq(S)
  BY Common
<1>2. PICK U : u \in Seq(U)
  BY DEF IsSeq
<1>3. s \in Seq(S \cup U) /\ t \in Seq(S \cup U) /\ u \in Seq(S \cup U)
  BY <1>1, <1>2, SeqMonotonic
<1> QED
  BY <1>3, ConcatAssociative

(* For the provers, which take a \o apart: the same under a name. *)
Join(s, t) == s \o t

LEMMA Joins ==
  /\ \A s, t : IsSeq(s) /\ IsSeq(t) => IsSeq(Join(s, t))
  /\ \A s, t, u : IsSeq(s) /\ IsSeq(t) /\ IsSeq(u) => Join(Join(s, t), u) = Join(s, Join(t, u))
  /\ \A s : IsSeq(s) => Join(<<>>, s) = s /\ Join(s, <<>>) = s
  /\ \A s, t : Join(s, t) = s \o t
<1>1. ASSUME NEW s, NEW t, IsSeq(s), IsSeq(t) PROVE IsSeq(Join(s, t))
  BY <1>1, Cat DEF Join
<1>2. ASSUME NEW s, NEW t, NEW u, IsSeq(s), IsSeq(t), IsSeq(u)
      PROVE  Join(Join(s, t), u) = Join(s, Join(t, u))
  <2>1. (s \o t) \o u = s \o (t \o u)
    BY <1>2, Assoc
  <2> QED
    BY <2>1, Zenon DEF Join
<1>3. ASSUME NEW s, IsSeq(s) PROVE Join(<<>>, s) = s /\ Join(s, <<>>) = s
  BY <1>3, Cat DEF Join
<1>4. \A s, t : Join(s, t) = s \o t
  BY Zenon DEF Join
<1> QED
  BY <1>1, <1>2, <1>3, <1>4

LEMMA LenIsNat == \A s : IsSeq(s) => Len(s) \in Nat
BY LenProperties DEF IsSeq

LEMMA SameSeq ==
  ASSUME NEW s, NEW t, IsSeq(s), IsSeq(t), Len(s) = Len(t),
         \A i \in 1 .. Len(s) : s[i] = t[i]
  PROVE  s = t
<1>1. PICK S : s \in Seq(S) /\ t \in Seq(S)
  BY Common
<1> QED
  BY <1>1, SeqEqual

LEMMA One ==
  ASSUME NEW c
  PROVE  IsSeq(<<c>>) /\ Len(<<c>>) = 1 /\ <<c>>[1] = c
<1>1. <<c>> \in Seq({c}) /\ Len(<<c>>) = 1 /\ <<c>>[1] = c
  OBVIOUS
<1> QED
  BY <1>1 DEF IsSeq

LEMMA HeadOf ==
  ASSUME NEW w, IsSeq(w), Len(w) # 0
  PROVE  /\ w # <<>> /\ Head(w) = w[1] /\ IsSeq(Tail(w)) /\ Len(Tail(w)) = Len(w) - 1
         /\ \A i \in 1 .. Len(w) - 1 : Tail(w)[i] = w[i + 1]
<1>1. PICK S : w \in Seq(S)
  BY DEF IsSeq
<1>2. w # <<>>
  BY EmptyIsSeq
<1>3. Head(w) = w[1]
  BY <1>1, <1>2
<1> QED
  BY <1>1, <1>2, <1>3, HeadTailProperties DEF IsSeq

LEMMA Mark ==
  ASSUME NEW c, NEW u, IsSeq(u)
  PROVE  /\ <<c>> \o u # <<>> /\ Head(<<c>> \o u) = c /\ Tail(<<c>> \o u) = u
         /\ Len(<<c>> \o u) = 1 + Len(u) /\ IsSeq(<<c>> \o u) /\ Len(u) \in Nat
<1> DEFINE w == <<c>> \o u
<1>1. IsSeq(<<c>>) /\ Len(<<c>>) = 1 /\ <<c>>[1] = c
  BY One
<1>2. /\ IsSeq(w) /\ Len(w) = 1 + Len(u) /\ Len(u) \in Nat
      /\ \A i \in 1 .. 1 + Len(u) : w[i] = IF i <= 1 THEN <<c>>[i] ELSE u[i - 1]
  BY <1>1, Cat
<1> HIDE DEF w
<1>3. w[1] = c /\ \A i \in 1 .. Len(u) : w[i + 1] = u[i]
  <2>1. 1 \in 1 .. 1 + Len(u)
    BY <1>2
  <2>2. ASSUME NEW i \in 1 .. Len(u) PROVE w[i + 1] = u[i]
    <3>1. i + 1 \in 1 .. 1 + Len(u) /\ ~(i + 1 <= 1) /\ (i + 1) - 1 = i
      BY <1>2
    <3> QED
      BY <1>2, <3>1
  <2> QED
    BY <1>1, <1>2, <2>1, <2>2
<1>4. w # <<>> /\ Head(w) = w[1] /\ IsSeq(Tail(w)) /\ Len(Tail(w)) = Len(u)
      /\ \A i \in 1 .. Len(u) : Tail(w)[i] = w[i + 1]
  <2>1. Len(w) # 0 /\ Len(w) - 1 = Len(u)
    BY <1>2
  <2> QED
    BY <1>2, <2>1, HeadOf
<1>5. Tail(w) = u
  BY <1>2, <1>3, <1>4, SameSeq
<1> QED
  BY <1>2, <1>3, <1>4, <1>5 DEF w

-----------------------------------------------------------------------------
(* s is what was read of t, and w is still to come: the rest of t, and u. *)
Reading(s, w, t, u) ==
  /\ IsSeq(s) /\ IsSeq(w) /\ IsSeq(t) /\ IsSeq(u)
  /\ Len(s) <= Len(t) /\ s \o w = t \o u

LEMMA Begins ==
  ASSUME NEW t, NEW u, IsSeq(t), IsSeq(u)
  PROVE  Reading(<<>>, t \o u, t, u)
<1>1. IsSeq(<<>>) /\ Len(<<>>) = 0
  BY EmptyIsSeq
<1> QED
  BY <1>1, Cat DEF Reading

LEMMA Ended ==
  ASSUME NEW s, NEW w, NEW t, NEW u, Reading(s, w, t, u), Len(s) = Len(t)
  PROVE  s = t /\ w = u
<1>1. IsSeq(s) /\ IsSeq(w) /\ IsSeq(t) /\ IsSeq(u) /\ s \o w = t \o u
  BY DEF Reading
<1>2. /\ Len(s) \in Nat /\ Len(w) \in Nat /\ Len(u) \in Nat
      /\ Len(s \o w) = Len(s) + Len(w)
      /\ \A i \in 1 .. Len(s) + Len(w) : (s \o w)[i] =
           IF i <= Len(s) THEN s[i] ELSE w[i - Len(s)]
  BY <1>1, Cat
<1>3. /\ Len(t \o u) = Len(s) + Len(u)
      /\ \A i \in 1 .. Len(s) + Len(u) : (t \o u)[i] =
           IF i <= Len(s) THEN t[i] ELSE u[i - Len(s)]
  BY <1>1, Cat
<1>4. Len(w) = Len(u)
  BY <1>1, <1>2, <1>3
<1>5. \A i \in 1 .. Len(s) : s[i] = t[i]
  <2> TAKE i \in 1 .. Len(s)
  <2>1. i \in 1 .. Len(s) + Len(w) /\ i <= Len(s)
    BY <1>2
  <2> QED
    BY <1>1, <1>2, <1>3, <1>4, <2>1
<1>6. \A i \in 1 .. Len(w) : w[i] = u[i]
  <2> TAKE i \in 1 .. Len(w)
  <2>1. /\ Len(s) + i \in 1 .. Len(s) + Len(w) /\ ~(Len(s) + i <= Len(s))
        /\ (Len(s) + i) - Len(s) = i
    BY <1>2
  <2> QED
    BY <1>1, <1>2, <1>3, <1>4, <2>1
<1> QED
  BY <1>1, <1>4, <1>5, <1>6, SameSeq

LEMMA ReadOn ==
  ASSUME NEW s, NEW w, NEW t, NEW u, Reading(s, w, t, u)
  PROVE  \/ /\ Len(s) < Len(t) /\ w # <<>> /\ Len(s) + 1 \in 1 .. Len(t)
            /\ Head(w) = t[Len(s) + 1] /\ Reading(Append(s, Head(w)), Tail(w), t, u)
            /\ Len(Append(s, Head(w))) = Len(s) + 1
         \/ s = t /\ w = u
<1>1. IsSeq(s) /\ IsSeq(w) /\ IsSeq(t) /\ IsSeq(u) /\ s \o w = t \o u /\ Len(s) <= Len(t)
  BY DEF Reading
<1>2. /\ Len(s) \in Nat /\ Len(w) \in Nat /\ IsSeq(s \o w)
      /\ Len(s \o w) = Len(s) + Len(w)
      /\ \A i \in 1 .. Len(s) + Len(w) : (s \o w)[i] =
           IF i <= Len(s) THEN s[i] ELSE w[i - Len(s)]
  BY <1>1, Cat
<1>3. /\ Len(t) \in Nat /\ Len(u) \in Nat
      /\ Len(t \o u) = Len(t) + Len(u)
      /\ \A i \in 1 .. Len(t) + Len(u) : (t \o u)[i] =
           IF i <= Len(t) THEN t[i] ELSE u[i - Len(t)]
  BY <1>1, Cat
<1>4. CASE Len(s) < Len(t)
  <2>1. Len(w) # 0 /\ Len(s) + 1 \in 1 .. Len(t) /\ Len(s) + 1 \in 1 .. Len(s) + Len(w)
    BY <1>1, <1>2, <1>3, <1>4
  <2>2. /\ w # <<>> /\ Head(w) = w[1] /\ IsSeq(Tail(w)) /\ Len(Tail(w)) = Len(w) - 1
        /\ \A i \in 1 .. Len(w) - 1 : Tail(w)[i] = w[i + 1]
    BY <1>1, <2>1, HeadOf
  <2>3. Head(w) = t[Len(s) + 1]
    <3>1. (s \o w)[Len(s) + 1] = w[1]
      <4>1. (Len(s) + 1) - Len(s) = 1 /\ ~(Len(s) + 1 <= Len(s))
        BY <1>2
      <4> QED
        BY <1>2, <2>1, <4>1
    <3>2. (t \o u)[Len(s) + 1] = t[Len(s) + 1]
      BY <1>3, <2>1
    <3> QED
      BY <1>1, <2>2, <3>1, <3>2
  <2> DEFINE c == Head(w)
             v == Tail(w)
  <2> HIDE DEF c, v
  <2>4. w = <<c>> \o v
    <3>1. PICK S : w \in Seq(S)
      BY <1>1 DEF IsSeq
    <3>2. /\ IsSeq(<<c>> \o v) /\ Len(<<c>> \o v) = 1 + Len(v)
          /\ \A i \in 1 .. 1 + Len(v) : (<<c>> \o v)[i] = IF i <= 1 THEN <<c>>[i] ELSE v[i - 1]
      <4>1. IsSeq(<<c>>) /\ Len(<<c>>) = 1 /\ IsSeq(v)
        BY <2>2, One DEF v
      <4> QED
        BY <4>1, Cat
    <3>3. Len(<<c>> \o v) = Len(w)
      BY <1>2, <2>2, <3>2 DEF v
    <3>4. ASSUME NEW i \in 1 .. Len(w) PROVE w[i] = (<<c>> \o v)[i]
      <4>1. i \in 1 .. 1 + Len(v)
        BY <1>2, <2>2 DEF v
      <4>2. CASE i = 1
        BY <2>2, <3>2, <4>1, <4>2, One DEF c
      <4>3. CASE i # 1
        <5>1. i - 1 \in 1 .. Len(w) - 1 /\ (i - 1) + 1 = i /\ ~(i <= 1)
          BY <1>2, <4>3
        <5> QED
          BY <2>2, <3>2, <4>1, <5>1 DEF v
      <4> QED
        BY <4>2, <4>3
    <3> QED
      BY <1>1, <3>2, <3>3, <3>4, SameSeq
  <2>5. Append(s, c) = s \o <<c>>
    <3>1. PICK S : s \in Seq(S)
      BY <1>1 DEF IsSeq
    <3>2. s \in Seq(S \cup {c}) /\ c \in S \cup {c}
      BY <3>1, SeqMonotonic
    <3> QED
      BY <3>2, AppendIsConcat
  <2>6. IsSeq(v) /\ IsSeq(<<c>>) /\ IsSeq(Append(s, c)) /\ Len(Append(s, c)) = Len(s) + 1
    BY <1>1, <2>2, One, AppendSeq DEF v
  <2>7. Append(s, c) \o v = t \o u
    <3>1. (s \o <<c>>) \o v = s \o (<<c>> \o v)
      <4>1. IsSeq(s) /\ IsSeq(<<c>>) /\ IsSeq(v)
        BY <1>1, <2>6
      <4> HIDE <1>1, <1>2, <1>3, <2>1, <2>2, <2>3
      <4> QED
        BY <4>1, Assoc
    <3> QED
      BY <1>1, <2>4, <2>5, <3>1
  <2>8. Reading(Append(s, c), v, t, u)
    BY <1>1, <1>2, <1>3, <1>4, <2>6, <2>7 DEF Reading
  <2> QED
    BY <1>4, <2>1, <2>2, <2>3, <2>6, <2>8 DEF c, v
<1>5. CASE Len(s) = Len(t)
  BY <1>5, Ended
<1> QED
  BY <1>1, <1>2, <1>3, <1>4, <1>5

-----------------------------------------------------------------------------
(* Pieces laid one behind the other, and what is left of them behind the   *)
(* first k.                                                                *)
Pieces(ss) == IsSeq(ss) /\ \A i \in 1 .. Len(ss) : IsSeq(ss[i])
Left(ss, k) == FlattenSeq(SubSeq(ss, k + 1, Len(ss)))

LEMMA FlattenSteps ==
  ASSUME NEW ss, NEW N \in Nat, Len(ss) = N, N # 0
  PROVE  \E l : /\ FlattenSeq(ss) = l[N] /\ l[1] = ss[1]
                /\ \A i \in 2 .. N : l[i] = l[i - 1] \o ss[i]
<1> DEFINE From(g, i) == IF i = 1 THEN ss[i] ELSE g[i - 1] \o ss[i]
           Reached == {n \in Nat : \E g : g = [i \in 1 .. n |-> From(g, i)]}
<1>1. 0 \in Reached
  <2> DEFINE g == [i \in 1 .. 0 |-> ss[i]]
  <2>1. g = [i \in 1 .. 0 |-> From(g, i)]
    OBVIOUS
  <2> QED
    BY <2>1
<1>2. ASSUME NEW n \in Nat, n \in Reached PROVE n + 1 \in Reached
  <2>1. PICK g : g = [i \in 1 .. n |-> From(g, i)]
    BY <1>2
  <2> DEFINE h == [i \in 1 .. n + 1 |-> IF i <= n THEN g[i] ELSE From(g, i)]
  <2>2. ASSUME NEW i \in 1 .. n + 1 PROVE h[i] = From(h, i)
    <3>1. i # 1 => i - 1 \in 1 .. n + 1 /\ i - 1 <= n
      OBVIOUS
    <3>2. i # 1 => h[i - 1] = g[i - 1]
      BY <3>1
    <3>3. From(h, i) = From(g, i)
      <4> HIDE DEF h
      <4>1. CASE i = 1
        BY <4>1
      <4>2. CASE i # 1
        BY <3>2, <4>2
      <4> QED
        BY <4>1, <4>2
    <3>4. i <= n => g[i] = From(g, i)
      <4>1. i <= n => i \in 1 .. n
        OBVIOUS
      <4> HIDE DEF From
      <4> QED
        BY <2>1, <4>1
    <3>5. h[i] = IF i <= n THEN g[i] ELSE From(g, i)
      OBVIOUS
    <3> HIDE DEF From, h
    <3> QED
      BY <3>3, <3>4, <3>5
  <2>3. h = [i \in 1 .. n + 1 |-> h[i]]
    OBVIOUS
  <2> HIDE DEF h, From
  <2>4. h = [i \in 1 .. n + 1 |-> From(h, i)]
    BY <2>2, <2>3
  <2> QED
    BY <2>4
<1> HIDE DEF Reached
<1>3. N \in Reached
  BY <1>1, <1>2, Induction
<1>4. PICK g : g = [i \in 1 .. N |-> From(g, i)]
  BY <1>3 DEF Reached
<1>5. PICK l : l = [i \in 1 .. N |-> From(l, i)] /\ FlattenSeq(ss) = l[N]
  BY <1>4 DEF FlattenSeq
<1>6. l[1] = ss[1]
  BY <1>5
<1>7. ASSUME NEW i \in 2 .. N PROVE l[i] = l[i - 1] \o ss[i]
  <2>1. i \in 1 .. N /\ i # 1
    OBVIOUS
  <2> QED
    BY <1>5, <2>1
<1> QED
  BY <1>5, <1>6, <1>7

LEMMA FlattenIsSeq ==
  ASSUME NEW ss, Pieces(ss)
  PROVE  IsSeq(FlattenSeq(ss))
<1>1. Len(ss) \in Nat
  BY LenIsNat DEF Pieces
<1>2. CASE Len(ss) = 0
  BY <1>2 DEF FlattenSeq, Pieces
<1>3. CASE Len(ss) # 0
  <2>1. PICK l : /\ FlattenSeq(ss) = l[Len(ss)] /\ l[1] = ss[1]
                 /\ \A i \in 2 .. Len(ss) : l[i] = l[i - 1] \o ss[i]
    BY <1>1, <1>3, FlattenSteps
  <2> DEFINE S == {i \in Nat : i + 1 <= Len(ss) => IsSeq(l[i + 1])}
  <2>2. 0 \in S
    BY <1>1, <1>3, <2>1 DEF Pieces
  <2>3. ASSUME NEW i \in Nat, i \in S PROVE i + 1 \in S
    <3> SUFFICES ASSUME i + 2 <= Len(ss) PROVE IsSeq(l[i + 2])
      OBVIOUS
    <3>1. i + 2 \in 2 .. Len(ss) /\ i + 2 \in 1 .. Len(ss) /\ (i + 2) - 1 = i + 1 /\ i + 1 <= Len(ss)
      BY <1>1
    <3>2. l[i + 2] = l[i + 1] \o ss[i + 2]
      BY <2>1, <3>1
    <3>3. IsSeq(l[i + 1]) /\ IsSeq(ss[i + 2])
      BY <2>3, <3>1 DEF Pieces
    <3> QED
      BY <3>2, <3>3, Cat
  <2> HIDE DEF S
  <2>4. Len(ss) - 1 \in S
    <3>1. Len(ss) - 1 \in Nat
      BY <1>1, <1>3
    <3> QED
      BY <2>2, <2>3, <3>1, Induction
  <2> QED
    BY <1>1, <2>1, <2>4 DEF S
<1> QED
  BY <1>2, <1>3

LEMMA Peel ==
  ASSUME NEW ss, NEW tt, Pieces(ss), Pieces(tt), Len(ss) = Len(tt) + 1,
         \A i \in 1 .. Len(tt) : tt[i] = ss[i + 1]
  PROVE  FlattenSeq(ss) = ss[1] \o FlattenSeq(tt)
<1> DEFINE N == Len(tt)
<1>1. N \in Nat /\ IsSeq(ss[1])
  <2>1. N \in Nat
    BY LenIsNat DEF Pieces
  <2>2. 1 \in 1 .. Len(ss)
    BY <2>1
  <2> QED
    BY <2>1, <2>2 DEF Pieces
<1>2. PICK l : /\ FlattenSeq(ss) = l[N + 1] /\ l[1] = ss[1]
               /\ \A i \in 2 .. N + 1 : l[i] = l[i - 1] \o ss[i]
  <2>1. N + 1 \in Nat /\ N + 1 # 0
    BY <1>1
  <2> QED
    BY <2>1, FlattenSteps
<1>3. CASE N = 0
  <2>1. FlattenSeq(tt) = <<>>
    <3>1. FlattenSeq(tt) = tt
      BY <1>3 DEF FlattenSeq
    <3>2. IsSeq(tt) /\ IsSeq(<<>>) /\ Len(<<>>) = 0
      BY EmptyIsSeq DEF Pieces
    <3>3. tt = <<>>
      BY <1>3, <3>2, SameSeq
    <3> QED
      BY <3>1, <3>3
  <2>2. FlattenSeq(ss) = ss[1]
    BY <1>2, <1>3
  <2> QED
    BY <1>1, <2>1, <2>2, Cat
<1>4. CASE N # 0
  <2>1. PICK m : /\ FlattenSeq(tt) = m[N] /\ m[1] = tt[1]
                 /\ \A i \in 2 .. N : m[i] = m[i - 1] \o tt[i]
    BY <1>1, <1>4, FlattenSteps
  <2> DEFINE P(i) == i + 1 <= N => IsSeq(m[i + 1]) /\ l[i + 2] = ss[1] \o m[i + 1]
             S == {i \in Nat : P(i)}
  <2>2. 0 \in S
    <3>1. 1 \in 1 .. N /\ 2 \in 2 .. N + 1
      BY <1>1, <1>4
    <3>2. tt[1] = ss[1 + 1] /\ IsSeq(tt[1]) /\ 1 \in 1 .. N
      BY <3>1 DEF Pieces
    <3>0. 2 - 1 = 1 /\ 1 + 1 = 2 /\ 0 + 1 = 1 /\ 0 + 2 = 2
      OBVIOUS
    <3>3. l[2] = l[1] \o ss[2]
      <4>1. l[2] = l[2 - 1] \o ss[2]
        BY <1>2, <3>1, Zenon
      <4> QED
        BY <3>0, <4>1
    <3>4. IsSeq(m[1]) /\ l[2] = ss[1] \o m[1]
      BY <1>2, <2>1, <3>0, <3>2, <3>3
    <3> QED
      BY <3>0, <3>4
  <2>3. ASSUME NEW i \in Nat, i \in S PROVE i + 1 \in S
    <3>0. (i + 1) + 1 = i + 2 /\ (i + 1) + 2 = i + 3
      OBVIOUS
    <3> SUFFICES P(i + 1)
      <4> HIDE DEF P
      <4> QED
        OBVIOUS
    <3> SUFFICES ASSUME (i + 1) + 1 <= N
                 PROVE  IsSeq(m[(i + 1) + 1]) /\ l[(i + 1) + 2] = ss[1] \o m[(i + 1) + 1]
      OBVIOUS
    <3>1. /\ i + 2 \in 2 .. N /\ i + 2 \in 1 .. N /\ (i + 2) - 1 = i + 1 /\ i + 1 <= N
          /\ i + 3 \in 2 .. N + 1 /\ (i + 3) - 1 = i + 2 /\ (i + 2) + 1 = i + 3
      BY <1>1
    <3>2. m[i + 2] = m[i + 1] \o tt[i + 2] /\ l[i + 3] = l[i + 2] \o ss[i + 3]
          /\ tt[i + 2] = ss[i + 3] /\ IsSeq(tt[i + 2])
      BY <1>2, <2>1, <3>1 DEF Pieces
    <3>3. IsSeq(m[i + 1]) /\ l[i + 2] = ss[1] \o m[i + 1]
      BY <2>3, <3>1
    <3>4. (ss[1] \o m[i + 1]) \o tt[i + 2] = ss[1] \o (m[i + 1] \o tt[i + 2])
      <4> DEFINE a == ss[1]
                 b == m[i + 1]
                 c == tt[i + 2]
      <4>1. IsSeq(a) /\ IsSeq(b) /\ IsSeq(c)
        BY <1>1, <3>2, <3>3
      <4> HIDE DEF a, b, c
      <4>2. (a \o b) \o c = a \o (b \o c)
        BY ONLY <4>1, Assoc
      <4> QED
        BY <4>2 DEF a, b, c
    <3>5. IsSeq(m[i + 1] \o tt[i + 2])
      BY <3>2, <3>3, Cat
    <3> QED
      BY <3>0, <3>2, <3>3, <3>4, <3>5
  <2> HIDE DEF S
  <2>4. N - 1 \in S
    <3>1. N - 1 \in Nat
      BY <1>1, <1>4
    <3> QED
      BY <2>2, <2>3, <3>1, Induction
  <2>5. (N - 1) + 1 = N /\ (N - 1) + 2 = N + 1 /\ N <= N
    BY <1>1
  <2>6. (N - 1) + 1 <= N => l[(N - 1) + 2] = ss[1] \o m[(N - 1) + 1]
    BY <2>4 DEF S
  <2>7. l[N + 1] = ss[1] \o m[N]
    BY <2>5, <2>6
  <2> QED
    BY <1>2, <2>1, <2>7
<1> QED
  BY <1>3, <1>4

(* What the proofs use: what is left begins with the next piece. *)
LEMMA LeftIsSeq ==
  ASSUME NEW ss, Pieces(ss), NEW k \in 0 .. Len(ss)
  PROVE  /\ IsSeq(Left(ss, k)) /\ Pieces(SubSeq(ss, k + 1, Len(ss)))
         /\ Len(SubSeq(ss, k + 1, Len(ss))) = Len(ss) - k
         /\ \A i \in 1 .. Len(ss) - k : SubSeq(ss, k + 1, Len(ss))[i] = ss[i + k]
<1> DEFINE tt == SubSeq(ss, k + 1, Len(ss))
<1>1. PICK S : ss \in Seq(S)
  BY DEF Pieces, IsSeq
<1>2. Len(ss) \in Nat /\ \A i \in 1 .. Len(ss) : ss[i] \in S
  BY <1>1, ElementOfSeq, LenProperties
<1>3. /\ tt \in Seq(S) /\ Len(tt) = Len(ss) - k
      /\ \A i \in 1 .. Len(ss) - k : tt[i] = ss[i + k]
  <2>1. k + 1 \in Int /\ Len(ss) \in Int /\ \A i \in k + 1 .. Len(ss) : ss[i] \in S
    BY <1>2
  <2>2. /\ tt \in Seq(S)
        /\ Len(tt) = IF k + 1 <= Len(ss) THEN Len(ss) - (k + 1) + 1 ELSE 0
        /\ \A i \in 1 .. Len(ss) - (k + 1) + 1 : tt[i] = ss[(k + 1) + i - 1]
    BY <2>1, SubSeqProperties
  <2> HIDE DEF tt
  <2>3. Len(tt) = Len(ss) - k
    BY <1>2, <2>2
  <2>4. ASSUME NEW i \in 1 .. Len(ss) - k PROVE tt[i] = ss[i + k]
    <3>1. i \in 1 .. Len(ss) - (k + 1) + 1 /\ (k + 1) + i - 1 = i + k
      BY <1>2
    <3>2. tt[i] = ss[(k + 1) + i - 1]
      BY <2>2, <3>1
    <3> QED
      BY <3>1, <3>2
  <2> QED
    BY <2>2, <2>3, <2>4
<1> HIDE DEF tt
<1>4. Pieces(tt)
  <2>1. \A i \in 1 .. Len(tt) : i + k \in 1 .. Len(ss)
    BY <1>2, <1>3
  <2> QED
    BY <1>3, <2>1 DEF Pieces, IsSeq
<1>5. IsSeq(Left(ss, k))
  BY <1>4, FlattenIsSeq DEF Left, tt
<1> QED
  BY <1>3, <1>4, <1>5 DEF tt

LEMMA LeftSteps ==
  ASSUME NEW ss, Pieces(ss)
  PROVE  /\ Len(ss) \in Nat /\ Left(ss, 0) = FlattenSeq(ss) /\ Left(ss, Len(ss)) = <<>>
         /\ \A k \in 0 .. Len(ss) - 1 : Left(ss, k) = ss[k + 1] \o Left(ss, k + 1)
<1>1. Len(ss) \in Nat
  BY LenIsNat DEF Pieces
<1>2. Left(ss, 0) = FlattenSeq(ss)
  <2>1. PICK S : ss \in Seq(S)
    BY DEF Pieces, IsSeq
  <2>2. SubSeq(ss, 1, Len(ss)) = ss
    BY <2>1, SubSeqFull
  <2>3. 0 + 1 = 1
    OBVIOUS
  <2>4. Left(ss, 0) = FlattenSeq(SubSeq(ss, 0 + 1, Len(ss)))
    BY DEF Left
  <2> HIDE DEF Left
  <2> QED
    BY <2>2, <2>3, <2>4
<1>3. Left(ss, Len(ss)) = <<>>
  <2>1. SubSeq(ss, Len(ss) + 1, Len(ss)) = <<>>
    BY <1>1, SubSeqEmpty
  <2>2. Len(<<>>) = 0
    BY EmptyIsSeq
  <2>3. FlattenSeq(<<>>) = <<>>
    BY <2>2 DEF FlattenSeq
  <2> QED
    BY <2>1, <2>3 DEF Left
<1>4. ASSUME NEW k \in 0 .. Len(ss) - 1 PROVE Left(ss, k) = ss[k + 1] \o Left(ss, k + 1)
  <2> DEFINE s == SubSeq(ss, k + 1, Len(ss))
             t == SubSeq(ss, k + 2, Len(ss))
  <2>1. k \in 0 .. Len(ss) /\ k + 1 \in 0 .. Len(ss) /\ (k + 1) + 1 = k + 2
    BY <1>1
  <2>2. Pieces(s) /\ Len(s) = Len(ss) - k /\ \A i \in 1 .. Len(ss) - k : s[i] = ss[i + k]
    BY <2>1, LeftIsSeq
  <2>3. /\ Pieces(t) /\ Len(t) = Len(ss) - (k + 1)
        /\ \A i \in 1 .. Len(ss) - (k + 1) : t[i] = ss[i + (k + 1)]
    BY <2>1, LeftIsSeq
  <2>4. Left(ss, k) = FlattenSeq(s) /\ Left(ss, k + 1) = FlattenSeq(t)
    BY <2>1 DEF Left
  <2> HIDE DEF s, t
  <2>5. Len(s) = Len(t) + 1
    BY <1>1, <2>2, <2>3
  <2>6. ASSUME NEW i \in 1 .. Len(t) PROVE t[i] = s[i + 1]
    <3>1. i + 1 \in 1 .. Len(ss) - k /\ i \in 1 .. Len(ss) - (k + 1) /\ (i + 1) + k = i + (k + 1)
      BY <1>1, <2>3
    <3> QED
      BY <2>2, <2>3, <3>1
  <2>7. s[1] = ss[k + 1]
    <3>1. 1 \in 1 .. Len(ss) - k /\ 1 + k = k + 1
      BY <1>1
    <3> QED
      BY <2>2, <3>1
  <2> QED
    BY <2>2, <2>3, <2>4, <2>5, <2>6, <2>7, Peel
<1> QED
  BY <1>1, <1>2, <1>3, <1>4

-----------------------------------------------------------------------------
(* Characters by their codes. *)
LEMMA CodeAt ==
  ASSUME NEW i \in 1 .. 95
  PROVE  /\ Printable[i] \in DOMAIN CodeOf /\ CodeOf[Printable[i]] = 31 + i
         /\ Char(31 + i) = Printable[i]
<1>1. DOMAIN Printable = 1 .. 95
  BY DEF Printable
<1>2. Printable[i] \in DOMAIN CodeOf
  BY <1>1 DEF CodeOf
<1>3. (31 + i) - 31 = i
  OBVIOUS
<1> QED
  BY <1>1, <1>2, <1>3, CodeAssumption DEF Char

LEMMA Glyphs ==
  /\ Printable[1] = SP /\ Printable[17] = "0" /\ Printable[26] = "9" /\ Printable[27] = ":"
  /\ Printable[28] = SEMI /\ Printable[30] = "=" /\ Printable[34] = "A" /\ Printable[39] = "F"
  /\ Printable[59] = "Z" /\ Printable[66] = "a" /\ Printable[71] = "f" /\ Printable[91] = "z"
  /\ Printable[57] = "X" /\ Printable[89] = "x"
BY DEF Printable, SP, SEMI

LEMMA Codes ==
  /\ CodeOf[SP] = 32 /\ CodeOf["0"] = 48 /\ CodeOf["9"] = 57 /\ CodeOf[":"] = 58
  /\ CodeOf[SEMI] = 59 /\ CodeOf["="] = 61 /\ CodeOf["A"] = 65 /\ CodeOf["F"] = 70
  /\ CodeOf["Z"] = 90 /\ CodeOf["a"] = 97 /\ CodeOf["f"] = 102 /\ CodeOf["z"] = 122
  /\ CodeOf["\r"] = 13 /\ CodeOf["\n"] = 10 /\ CodeOf["X"] = 88 /\ CodeOf["x"] = 120
<1>1. CodeOf["\r"] = 13 /\ CodeOf["\n"] = 10
  <2>1. \A c \in {"\r", "\n"} : c \in DOMAIN CodeOf /\ c # NUL /\ c # "\t"
    BY DEF CodeOf, NUL
  <2> QED
    BY <2>1 DEF CodeOf
<1>2. \A i \in 1 .. 95 : CodeOf[Printable[i]] = 31 + i
  BY CodeAt
<1>3. /\ CodeOf[Printable[1]] = 32 /\ CodeOf[Printable[17]] = 48 /\ CodeOf[Printable[26]] = 57
      /\ CodeOf[Printable[27]] = 58 /\ CodeOf[Printable[28]] = 59 /\ CodeOf[Printable[30]] = 61
      /\ CodeOf[Printable[34]] = 65 /\ CodeOf[Printable[39]] = 70 /\ CodeOf[Printable[59]] = 90
      /\ CodeOf[Printable[66]] = 97 /\ CodeOf[Printable[71]] = 102 /\ CodeOf[Printable[91]] = 122
      /\ CodeOf[Printable[57]] = 88 /\ CodeOf[Printable[89]] = 120
  BY <1>2
<1> QED
  BY <1>1, <1>3, Glyphs

LEMMA NoMarks ==
  ASSUME NEW c, c \in {SP, ":", SEMI, "=", "\r", "\n"}
  PROVE  ~IsNameChar(c)
<1>1. c \notin Words
  BY WordsAssumption
<1>2. c \notin {"-", "_"}
  BY Zenon DEF SP, SEMI
<1>3. CodeOf[c] \in {32, 58, 59, 61, 13, 10}
  BY Codes
<1>4. ~IsDigit(c) /\ ~IsUpper(c) /\ ~IsLower(c)
  BY <1>3, Codes DEF IsDigit, IsUpper, IsLower, Between
<1> QED
  BY <1>1, <1>2, <1>4, Zenon DEF IsNameChar

LEMMA HexDigit ==
  ASSUME NEW n \in 0 .. 15
  PROVE  /\ IsHex(HexDigitChar(n)) /\ HexOf(HexDigitChar(n)) = n
         /\ HexDigitChar(n) \notin {SEMI, "\r", "x", "X"} /\ (HexDigitChar(n) = "0" <=> n = 0)
<1> DEFINE c == HexDigitChar(n)
<1>1. CASE n <= 9
  <2>1. 17 + n \in 1 .. 95 /\ 31 + (17 + n) = 48 + n
    BY <1>1
  <2>2. c \in DOMAIN CodeOf /\ CodeOf[c] = 48 + n
    BY <1>1, <2>1, CodeAt DEF HexDigitChar
  <2>3. n = 0 => c = "0"
    BY <2>1, Glyphs, CodeAt DEF HexDigitChar
  <2> HIDE DEF c
  <2>4. IsDigit(c)
    BY <1>1, <2>2, Codes DEF IsDigit, Between
  <2>5. HexOf(c) = n
    BY <2>2, <2>4 DEF HexOf
  <2>6. c \notin {SEMI, "\r", "x", "X"} /\ (c = "0" => n = 0)
    BY <1>1, <2>2, Codes
  <2> QED
    BY <2>3, <2>4, <2>5, <2>6 DEF IsHex, c
<1>2. CASE n > 9
  <2>1. 56 + n \in 1 .. 95 /\ 31 + (56 + n) = 87 + n
    BY <1>2
  <2>2. c \in DOMAIN CodeOf /\ CodeOf[c] = 87 + n
    BY <1>2, <2>1, CodeAt DEF HexDigitChar
  <2> HIDE DEF c
  <2>3. ~IsDigit(c) /\ ~IsUpper(c) /\ Between(c, "a", "f")
    BY <1>2, <2>2, Codes DEF IsDigit, IsUpper, Between
  <2>4. HexOf(c) = n
    BY <2>2, <2>3 DEF HexOf, ToLower
  <2>5. c \notin {SEMI, "\r", "x", "X"} /\ c # "0"
    BY <1>2, <2>2, Codes
  <2> QED
    BY <1>2, <2>3, <2>4, <2>5 DEF IsHex, c
<1> QED
  BY <1>1, <1>2

(* What the digits of a size make. *)
LEMMA HexReads ==
  ASSUME NEW s, NEW N \in Nat, Len(s) = N
  PROVE  \E read : /\ HexToV(s) = read[N].v /\ read[0] = [v |-> 0, base |-> 1, over |-> FALSE]
                   /\ \A i \in 1 .. N : read[i] = HexStep(read[i - 1], i, s[i])
<1> DEFINE start == [v |-> 0, base |-> 1, over |-> FALSE]
           From(g, i) == IF i = 0 THEN start ELSE HexStep(g[i - 1], i, s[i])
           Reached == {n \in Nat : \E g : g = [i \in 0 .. n |-> From(g, i)]}
<1> HIDE DEF start
<1>1. 0 \in Reached
  <2> DEFINE g == [i \in 0 .. 0 |-> start]
  <2>1. g = [i \in 0 .. 0 |-> From(g, i)]
    OBVIOUS
  <2> QED
    BY <2>1
<1>2. ASSUME NEW n \in Nat, n \in Reached PROVE n + 1 \in Reached
  <2>1. PICK g : g = [i \in 0 .. n |-> From(g, i)]
    BY <1>2
  <2> DEFINE h == [i \in 0 .. n + 1 |-> IF i <= n THEN g[i] ELSE From(g, i)]
  <2>2. ASSUME NEW i \in 0 .. n + 1 PROVE h[i] = From(h, i)
    <3>1. i # 0 => i - 1 \in 0 .. n + 1 /\ i - 1 <= n
      OBVIOUS
    <3>2. i # 0 => h[i - 1] = g[i - 1]
      BY <3>1
    <3>3. From(h, i) = From(g, i)
      <4> HIDE DEF h
      <4>1. CASE i = 0
        BY <4>1
      <4>2. CASE i # 0
        BY <3>2, <4>2
      <4> QED
        BY <4>1, <4>2
    <3>4. i <= n => g[i] = From(g, i)
      <4>1. i <= n => i \in 0 .. n
        OBVIOUS
      <4> HIDE DEF From
      <4> QED
        BY <2>1, <4>1
    <3>5. h[i] = IF i <= n THEN g[i] ELSE From(g, i)
      OBVIOUS
    <3> HIDE DEF From, h
    <3> QED
      BY <3>3, <3>4, <3>5
  <2>3. h = [i \in 0 .. n + 1 |-> h[i]]
    OBVIOUS
  <2> HIDE DEF h, From
  <2>4. h = [i \in 0 .. n + 1 |-> From(h, i)]
    BY <2>2, <2>3
  <2> QED
    BY <2>4
<1> HIDE DEF Reached
<1>3. N \in Reached
  BY <1>1, <1>2, Induction
<1>4. PICK g : g = [i \in 0 .. N |-> From(g, i)]
  BY <1>3 DEF Reached
<1>5. PICK read : read = [i \in 0 .. N |-> From(read, i)] /\ HexToV(s) = read[N].v
  BY <1>4 DEF HexToV, start
<1>6. read[0] = start
  BY <1>5
<1>7. ASSUME NEW i \in 1 .. N PROVE read[i] = HexStep(read[i - 1], i, s[i])
  <2>1. i \in 0 .. N /\ i # 0
    OBVIOUS
  <2> QED
    BY <1>5, <2>1
<1> QED
  BY <1>5, <1>6, <1>7 DEF start

LEMMA HexNone ==
  /\ \A s : Len(s) = 0 => HexToV(s) = 0
  /\ HexToV(<<"0">>) = 0 /\ IsHex("0") /\ "0" \notin {SEMI, "\r"}
<1>1. ASSUME NEW s, Len(s) = 0 PROVE HexToV(s) = 0
  <2>1. PICK read : /\ HexToV(s) = read[0].v /\ read[0] = [v |-> 0, base |-> 1, over |-> FALSE]
    BY <1>1, HexReads
  <2> QED
    BY <2>1
<1>2. HexToV(<<"0">>) = 0
  <2>1. PICK read : /\ HexToV(<<"0">>) = read[1].v /\ read[0] = [v |-> 0, base |-> 1, over |-> FALSE]
                    /\ \A i \in 1 .. 1 : read[i] = HexStep(read[i - 1], i, <<"0">>[i])
    <3>1. Len(<<"0">>) = 1 /\ 1 \in Nat
      BY One
    <3> QED
      BY <3>1, HexReads
  <2>2. read[1] = HexStep(read[0], 1, "0")
    <3>1. 1 \in 1 .. 1 /\ 1 - 1 = 0 /\ <<"0">>[1] = "0"
      OBVIOUS
    <3> QED
      BY <2>1, <3>1
  <2>3. read[0].v = 0
    BY <2>1
  <2>4. read[1] = read[0]
    BY <2>2, <2>3, Zenon DEF HexStep
  <2> QED
    BY <2>1, <2>3, <2>4
<1>3. IsHex("0")
  <2>1. "0" \in DOMAIN CodeOf
    BY CodeAt, Glyphs
  <2> QED
    BY <2>1, Codes DEF IsHex, IsDigit, Between
<1> QED
  BY <1>1, <1>2, <1>3, Marks

LEMMA HexSizeReads ==
  ASSUME NEW n \in 1 .. 255
  PROVE  LET t == HexSize(n)
         IN /\ IsSeq(t) /\ Len(t) \in 1 .. 2 /\ HexToV(t) = n
            /\ \A i \in 1 .. Len(t) : IsHex(t[i]) /\ t[i] \notin {SEMI, "\r"}
<1> DEFINE t == HexSize(n)
           start == [v |-> 0, base |-> 1, over |-> FALSE]
           Good(c, d) == /\ IsHex(c) /\ HexOf(c) = d /\ c \notin {SEMI, "\r", "x", "X"}
                         /\ (c = "0" <=> d = 0)
<1>0. \A d \in 0 .. 15 : Good(HexDigitChar(d), d)
  BY HexDigit
<1>1. \A c, d : Good(c, d) /\ d \in 1 .. 15 =>
        HexStep(start, 1, c) = [v |-> d, base |-> 16, over |-> FALSE]
  <2> SUFFICES ASSUME NEW c, NEW d \in 1 .. 15, Good(c, d)
               PROVE  HexStep(start, 1, c) = [v |-> d, base |-> 16, over |-> FALSE]
    OBVIOUS
  <2>1. HexStep(start, 1, c) = [start EXCEPT !.v = @ * start.base + HexOf(c), !.base = @ * 16]
    BY DEF HexStep
  <2>2. 0 * 1 + d = d /\ 1 * 16 = 16
    OBVIOUS
  <2> QED
    BY <2>1, <2>2
<1>2. CASE n < 16
  <2> DEFINE c == HexDigitChar(n)
  <2>1. t = <<c>> /\ Good(c, n)
    BY <1>0, <1>2 DEF HexSize
  <2> HIDE DEF c, t
  <2>2. IsSeq(t) /\ Len(t) = 1 /\ t[1] = c
    BY <2>1, One
  <2>3. PICK read : /\ HexToV(t) = read[1].v /\ read[0] = start
                    /\ \A i \in 1 .. 1 : read[i] = HexStep(read[i - 1], i, t[i])
    <3>1. 1 \in Nat
      OBVIOUS
    <3> QED
      BY <2>2, <3>1, HexReads
  <2>4. read[1] = HexStep(start, 1, c)
    <3>1. 1 \in 1 .. 1 /\ 1 - 1 = 0
      OBVIOUS
    <3> HIDE DEF start
    <3> QED
      BY <2>2, <2>3, <3>1
  <2>5. HexToV(t) = n
    <3>1. n \in 1 .. 15
      BY <1>2
    <3>2. read[1] = [v |-> n, base |-> 16, over |-> FALSE]
      <4> HIDE DEF start, Good
      <4> QED
        BY <1>1, <2>1, <2>4, <3>1
    <3> QED
      BY <2>3, <3>2
  <2> QED
    BY <2>1, <2>2, <2>5 DEF t
<1>3. CASE n >= 16
  <2> DEFINE p == n \div 16
             q == n % 16
             c == HexDigitChar(p)
             d == HexDigitChar(q)
  <2>1. p \in 1 .. 15 /\ q \in 0 .. 15 /\ p * 16 + q = n
    BY <1>3
  <2>2. t = <<c, d>>
    BY <1>3 DEF HexSize
  <2> HIDE DEF p, q
  <2>3. Good(c, p) /\ Good(d, q)
    BY <1>0, <2>1
  <2> HIDE DEF c, d, t
  <2>4. IsSeq(t) /\ Len(t) = 2 /\ t[1] = c /\ t[2] = d
    <3>1. <<c, d>> \in Seq({c, d}) /\ Len(<<c, d>>) = 2 /\ <<c, d>>[1] = c /\ <<c, d>>[2] = d
      OBVIOUS
    <3> QED
      BY <2>2, <3>1 DEF IsSeq
  <2>5. PICK read : /\ HexToV(t) = read[2].v /\ read[0] = start
                    /\ \A i \in 1 .. 2 : read[i] = HexStep(read[i - 1], i, t[i])
    <3>1. 2 \in Nat
      OBVIOUS
    <3> QED
      BY <2>4, <3>1, HexReads
  <2>6. read[1] = HexStep(start, 1, c) /\ read[2] = HexStep(read[1], 2, d)
    <3>1. 1 \in 1 .. 2 /\ 2 \in 1 .. 2 /\ 1 - 1 = 0 /\ 2 - 1 = 1
      OBVIOUS
    <3> HIDE DEF start
    <3> QED
      BY <2>4, <2>5, <3>1
  <2> DEFINE y == [v |-> p, base |-> 16, over |-> FALSE]
  <2>7. read[1] = y
    BY <1>1, <2>1, <2>3, <2>6
  <2>8. HexStep(y, 2, d) = [y EXCEPT !.v = @ * y.base + HexOf(d), !.base = @ * 16]
    <3>1. y.v # 0 /\ ~y.over
      BY <2>1
    <3> HIDE DEF y
    <3> QED
      BY <2>3, <3>1, Zenon DEF HexStep
  <2>9. read[2].v = p * 16 + q
    <3>1. read[2] = [y EXCEPT !.v = @ * y.base + HexOf(d), !.base = @ * 16]
      BY <2>6, <2>7, <2>8, Zenon
    <3> QED
      BY <2>1, <2>3, <3>1
  <2> QED
    BY <2>1, <2>3, <2>4, <2>5, <2>9 DEF t
<1> QED
  BY <1>2, <1>3

-----------------------------------------------------------------------------
(* The head, from what is behind one part of it to what is behind the next. *)
Word(r) == CommandArrs[r.command + 1]
Lines(hs) == [i \in DOMAIN hs |-> HeaderLine(hs[i])]
BehindLines(r, k) == Left(Lines(r.headers), k) \o CRLF
LineEnd(r, k) == <<"\r">> \o (<<"\n">> \o BehindLines(r, k))
BehindTarget(r) == <<SP>> \o (VersionText(r.version) \o LineEnd(r, 0))
BehindQuery(r) == Marked("#", r.fragment) \o BehindTarget(r)
BehindParameters(r) == Marked("?", r.query) \o BehindQuery(r)
BehindUrl(r) == Marked(SEMI, r.parameters) \o BehindParameters(r)
HeadText(r) == <<Word(r)>> \o (<<SP>> \o (r.url \o BehindUrl(r)))

FreeOf(s, marks) == IsSeq(s) /\ \A i \in 1 .. Len(s) : s[i] \notin marks

(* What makes a request readable. *)
HeaderReadable(n) ==
  /\ n = [name |-> n.name, value |-> n.value]
  /\ IsSeq(n.name) /\ Len(n.name) # 0 /\ \A i \in 1 .. Len(n.name) : IsNameChar(n.name[i])
  /\ FreeOf(n.value, {"\r"})
HeadersReadable(hs) ==
  IsSeq(hs) /\ Len(hs) # 0 /\ \A i \in 1 .. Len(hs) : HeaderReadable(hs[i])
LineReadable(r) ==
  /\ Word(r) \in Recognised /\ CommandNumber(Word(r)) = r.command
  /\ r.version \in Versions
  /\ FreeOf(r.url, {SP, SEMI, "?", "#", "\r"}) /\ Len(r.url) \in 1 .. UrlMax /\ r.url[1] = "/"
  /\ FreeOf(r.parameters, {SP, "?", "#", "\r"})
  /\ FreeOf(r.query, {SP, SEMI, "#", "\r"})
  /\ FreeOf(r.fragment, {SP, "\r"})
Readable(r) == LineReadable(r) /\ HeadersReadable(r.headers)

LEMMA Pair ==
  ASSUME NEW a, NEW b, NEW u, IsSeq(u)
  PROVE  <<a, b>> \o u = <<a>> \o (<<b>> \o u) /\ IsSeq(<<a, b>> \o u)
<1>1. <<a, b>> = <<a>> \o <<b>>
  <2> DEFINE s == <<a>>
             z == <<b>>
             p == <<a, b>>
             q == s \o z
  <2>1. IsSeq(s) /\ Len(s) = 1 /\ s[1] = a /\ IsSeq(z) /\ Len(z) = 1 /\ z[1] = b
    BY One
  <2>2. p \in Seq({a, b}) /\ Len(p) = 2 /\ p[1] = a /\ p[2] = b
    OBVIOUS
  <2> HIDE DEF s, z, p
  <2>3. IsSeq(q) /\ Len(q) = 2 /\ \A i \in 1 .. 2 : q[i] = IF i <= 1 THEN s[i] ELSE z[i - 1]
    <3>1. /\ IsSeq(q) /\ Len(q) = Len(s) + Len(z)
          /\ \A i \in 1 .. Len(s) + Len(z) : q[i] = IF i <= Len(s) THEN s[i] ELSE z[i - Len(s)]
      BY <2>1, Cat
    <3> HIDE DEF q
    <3> QED
      BY <2>1, <3>1
  <2> HIDE DEF q
  <2>4. q[1] = a /\ q[2] = b
    BY <2>1, <2>3
  <2>5. IsSeq(p)
    BY <2>2 DEF IsSeq
  <2>6. p = q
    <3>1. \A i \in 1 .. Len(p) : p[i] = q[i]
      BY <2>2, <2>4
    <3> QED
      BY <2>2, <2>3, <2>5, <3>1, SameSeq
  <2> QED
    BY <2>6 DEF p, q, s, z
<1>2. IsSeq(<<a>>) /\ IsSeq(<<b>>)
  BY One
<1> DEFINE s == <<a>>
           z == <<b>>
<1>3. (s \o z) \o u = s \o (z \o u) /\ IsSeq(s \o (z \o u))
  <2>1. IsSeq(s) /\ IsSeq(z)
    BY <1>2
  <2> HIDE DEF s, z
  <2>2. Join(Join(s, z), u) = Join(s, Join(z, u)) /\ IsSeq(Join(s, Join(z, u)))
    BY <2>1, Joins
  <2> QED
    BY <2>2, Zenon DEF Join
<1> QED
  BY <1>1, <1>3, Zenon

LEMMA HeaderLineReads ==
  ASSUME NEW n, IsSeq(n.name), IsSeq(n.value), NEW u, IsSeq(u)
  PROVE  /\ HeaderLine(n) \o u = n.name \o (<<":">> \o (<<SP>> \o (n.value \o
                                            (<<"\r">> \o (<<"\n">> \o u)))))
         /\ IsSeq(HeaderLine(n)) /\ IsSeq(<<"\r">> \o (<<"\n">> \o u))
<1> DEFINE a == n.name
           b == <<":", SP>>
           v == n.value
           e == <<"\r">> \o (<<"\n">> \o u)
           w == v \o e
<1>1. IsSeq(a) /\ IsSeq(v) /\ IsSeq(b) /\ IsSeq(CRLF)
  <2>1. \A x, y : <<x, y>> \in Seq({x, y})
    OBVIOUS
  <2>2. \A x, y : IsSeq(<<x, y>>)
    BY <2>1 DEF IsSeq
  <2> QED
    BY <2>2 DEF CRLF
<1>2. CRLF \o u = e /\ IsSeq(e)
  <2>1. <<"\r", "\n">> \o u = e /\ IsSeq(<<"\r", "\n">> \o u)
    BY Pair
  <2> QED
    BY <2>1 DEF CRLF
<1>3. b \o w = <<":">> \o (<<SP>> \o w)
  <2>1. IsSeq(w)
    BY <1>1, <1>2, Cat
  <2> HIDE DEF w
  <2> QED
    BY <2>1, Pair
<1>4. HeaderLine(n) = ((a \o b) \o v) \o CRLF
  BY DEF HeaderLine
<1> HIDE DEF a, b, v, e
<1>5. Join(Join(Join(Join(a, b), v), CRLF), u) = Join(a, Join(b, Join(v, Join(CRLF, u))))
      /\ IsSeq(Join(Join(Join(a, b), v), CRLF))
  BY <1>1, Joins
<1>6. HeaderLine(n) \o u = a \o (b \o (v \o e)) /\ IsSeq(HeaderLine(n))
  BY <1>2, <1>4, <1>5, Zenon DEF Join
<1> QED
  BY <1>2, <1>3, <1>6, Zenon DEF a, v, e

LEMMA LinesLeft ==
  ASSUME NEW r, HeadersReadable(r.headers)
  PROVE  /\ Len(r.headers) \in Nat /\ \A k \in 0 .. Len(r.headers) : IsSeq(BehindLines(r, k))
         /\ \A k \in 0 .. Len(r.headers) - 1 : BehindLines(r, k) =
              r.headers[k + 1].name \o (<<":">> \o (<<SP>> \o
                (r.headers[k + 1].value \o LineEnd(r, k + 1))))
         /\ BehindLines(r, Len(r.headers)) = <<"\r">> \o <<"\n">>
         /\ BehindLines(r, 0) = HeaderLines(r.headers) \o CRLF
         /\ IsSeq(HeaderLines(r.headers)) /\ IsSeq(CRLF)
<1> DEFINE hs == r.headers
           ls == Lines(hs)
<1>1. IsSeq(hs) /\ Len(hs) \in Nat /\ \A i \in 1 .. Len(hs) : HeaderReadable(hs[i])
  BY LenIsNat DEF HeadersReadable
<1>2. CRLF = <<"\r">> \o <<"\n">> /\ IsSeq(CRLF)
  <2>1. IsSeq(<<>>) /\ <<"\r", "\n">> \o <<>> = <<"\r", "\n">> /\ <<"\n">> \o <<>> = <<"\n">>
    BY EmptyIsSeq
  <2> QED
    BY <2>1, Pair DEF CRLF
<1>3. /\ Len(ls) = Len(hs) /\ Pieces(ls)
      /\ \A i \in 1 .. Len(hs) : ls[i] = HeaderLine(hs[i])
  <2>1. PICK S : hs \in Seq(S)
    BY <1>1 DEF IsSeq
  <2>2. DOMAIN hs = 1 .. Len(hs)
    BY <2>1
  <2>3. \A i \in 1 .. Len(hs) : IsSeq(HeaderLine(hs[i]))
    <3>1. IsSeq(<<>>)
      BY EmptyIsSeq
    <3> QED
      BY <1>1, <3>1, HeaderLineReads DEF HeaderReadable, FreeOf
  <2> DEFINE T == {HeaderLine(hs[i]) : i \in 1 .. Len(hs)}
  <2>4. ls = [i \in 1 .. Len(hs) |-> HeaderLine(hs[i])]
    BY <2>2 DEF Lines
  <2>5. ls \in [1 .. Len(hs) -> T]
    BY <2>4
  <2>6. ls \in Seq(T) /\ Len(ls) = Len(hs)
    <3> HIDE DEF ls, T
    <3> QED
      BY <1>1, <2>5
  <2> QED
    BY <2>3, <2>4, <2>6 DEF Pieces, IsSeq
<1> HIDE DEF ls
<1>4. /\ Left(ls, 0) = FlattenSeq(ls) /\ Left(ls, Len(hs)) = <<>>
      /\ \A k \in 0 .. Len(hs) - 1 : Left(ls, k) = ls[k + 1] \o Left(ls, k + 1)
      /\ \A k \in 0 .. Len(hs) : IsSeq(Left(ls, k))
  BY <1>3, LeftSteps, LeftIsSeq
<1>5. HeaderLines(hs) = FlattenSeq(ls)
  BY DEF HeaderLines, ls, Lines
<1>6. \A k \in 0 .. Len(hs) : IsSeq(Left(ls, k) \o CRLF)
  BY <1>2, <1>4, Cat
<1>7. ASSUME NEW k \in 0 .. Len(hs) - 1
      PROVE  BehindLines(r, k) = hs[k + 1].name \o (<<":">> \o (<<SP>> \o
                                   (hs[k + 1].value \o LineEnd(r, k + 1))))
  <2> DEFINE n == hs[k + 1]
             l == Left(ls, k + 1)
             h == HeaderLine(n)
  <2>1. k + 1 \in 1 .. Len(hs) /\ k + 1 \in 0 .. Len(hs)
    BY <1>1
  <2>2. HeaderReadable(n) /\ IsSeq(l) /\ IsSeq(l \o CRLF) /\ ls[k + 1] = h
    BY <1>1, <1>3, <1>4, <1>6, <2>1
  <2>3. Left(ls, k) = h \o l
    BY <1>4, <2>2
  <2>4. IsSeq(n.name) /\ IsSeq(n.value)
    BY <2>2 DEF HeaderReadable, FreeOf
  <2>5. IsSeq(h)
    BY <2>2, <2>4, HeaderLineReads
  <2>6. (h \o l) \o CRLF = h \o (l \o CRLF)
    <3> HIDE DEF h, l
    <3> QED
      <4>1. Join(Join(h, l), CRLF) = Join(h, Join(l, CRLF))
        BY <1>2, <2>2, <2>5, Joins
      <4> QED
        BY <4>1, Zenon DEF Join
  <2>7. h \o (l \o CRLF) = n.name \o (<<":">> \o (<<SP>> \o (n.value \o
                                            (<<"\r">> \o (<<"\n">> \o (l \o CRLF))))))
    <3> HIDE DEF l, n
    <3> QED
      <4> DEFINE u == l \o CRLF
      <4>1. IsSeq(u) /\ IsSeq(n.name) /\ IsSeq(n.value)
        BY <2>2, <2>4
      <4> HIDE DEF u
      <4>2. HeaderLine(n) \o u = n.name \o (<<":">> \o (<<SP>> \o (n.value \o
                                            (<<"\r">> \o (<<"\n">> \o u)))))
        BY ONLY <4>1, HeaderLineReads
      <4> QED
        BY <4>2, Zenon DEF u
  <2>8. LineEnd(r, k + 1) = <<"\r">> \o (<<"\n">> \o (l \o CRLF))
    BY DEF LineEnd, BehindLines, ls
  <2>9. BehindLines(r, k) = (h \o l) \o CRLF
    BY <2>3 DEF BehindLines, ls
  <2> HIDE DEF n, l, h
  <2> QED
    BY <2>6, <2>7, <2>8, <2>9 DEF n
<1>8. <<>> \o CRLF = CRLF
  BY <1>2, Cat
<1>9. BehindLines(r, Len(hs)) = CRLF /\ BehindLines(r, 0) = HeaderLines(hs) \o CRLF
      /\ \A k \in 0 .. Len(hs) : BehindLines(r, k) = Left(ls, k) \o CRLF
  BY <1>4, <1>5, <1>8 DEF BehindLines, ls
<1>10. IsSeq(HeaderLines(hs))
  BY <1>1, <1>4, <1>5
<1> QED
  BY <1>1, <1>2, <1>6, <1>7, <1>9, <1>10

LEMMA CommandNumbers ==
  /\ CommandNumber("GET") = 1 /\ CommandNumber("UNKNOW") = 0 /\ CommandNumber("CMAX") = 19
  /\ \A c : PackedCommand(PackedCommand(c)) = PackedCommand(c)
<1>1. /\ DOMAIN CommandArrs = 1 .. 19 /\ CommandArrs[1] = "UNKNOW" /\ CommandArrs[2] = "GET"
      /\ CommandArrs[19] = "CMAX"
      /\ \A i \in 1 .. 19 : /\ CommandArrs[i] = "UNKNOW" => i = 1
                            /\ CommandArrs[i] = "GET" => i = 2
                            /\ CommandArrs[i] = "CMAX" => i = 19
  BY DEF CommandArrs
<1>2. /\ (CHOOSE i \in DOMAIN CommandArrs : CommandArrs[i] = "GET") = 2
      /\ (CHOOSE i \in DOMAIN CommandArrs : CommandArrs[i] = "UNKNOW") = 1
      /\ (CHOOSE i \in DOMAIN CommandArrs : CommandArrs[i] = "CMAX") = 19
  BY <1>1
<1>3. /\ CommandNumber("GET") = 1 /\ CommandNumber("UNKNOW") = 0 /\ CommandNumber("CMAX") = 19
  <2> DEFINE place(name) == CHOOSE i \in DOMAIN CommandArrs : CommandArrs[i] = name
  <2>1. \A name : CommandNumber(name) = IF place(name) <= 16 THEN place(name) - 1 ELSE place(name)
    BY Zenon DEF CommandNumber
  <2>2. place("GET") = 2 /\ place("UNKNOW") = 1 /\ place("CMAX") = 19
    BY <1>2
  <2> HIDE DEF place
  <2> QED
    BY <2>1, <2>2
<1>4. ASSUME NEW c PROVE PackedCommand(PackedCommand(c)) = PackedCommand(c)
  BY <1>3 DEF PackedCommand, UNKNOW, CMAX
<1> QED
  BY <1>3, <1>4

LEMMA MarkedReads ==
  ASSUME NEW mark, NEW s, IsSeq(s), NEW u, IsSeq(u)
  PROVE  IsSeq(Marked(mark, s)) /\ IsSeq(Marked(mark, s) \o u)
<1>1. IsSeq(<<mark>>) /\ IsSeq(<<>>)
  BY One, EmptyIsSeq
<1>2. IsSeq(Marked(mark, s))
  BY <1>1, Cat DEF Marked
<1> QED
  BY <1>2, Cat

LEMMA MarkedNone ==
  ASSUME NEW mark, NEW u, IsSeq(u)
  PROVE  Marked(mark, <<>>) \o u = u
<1>1. Marked(mark, <<>>) = <<>>
  BY DEF Marked
<1> QED
  BY <1>1, Cat, EmptyIsSeq

LEMMA MarkedSome ==
  ASSUME NEW mark, NEW s, IsSeq(s), NEW u, IsSeq(u), s # <<>>
  PROVE  Marked(mark, s) \o u = <<mark>> \o (s \o u)
<1> DEFINE a == <<mark>>
<1>1. Marked(mark, s) = a \o s
  BY DEF Marked
<1>2. IsSeq(a)
  BY One
<1> HIDE DEF a
<1>3. Join(Join(a, s), u) = Join(a, Join(s, u))
  BY <1>2, Joins
<1>4. Marked(mark, s) \o u = a \o (s \o u)
  BY <1>1, <1>3, Zenon DEF Join
<1> QED
  BY <1>4, Zenon DEF a

(* The texts are sequences, and the packer writes the first of them. *)
LEMMA Behinds ==
  ASSUME NEW r, Readable(r)
  PROVE  /\ IsSeq(BehindLines(r, 0)) /\ IsSeq(LineEnd(r, 0)) /\ IsSeq(BehindTarget(r))
         /\ IsSeq(BehindQuery(r)) /\ IsSeq(BehindParameters(r)) /\ IsSeq(BehindUrl(r))
         /\ IsSeq(VersionText(r.version))
         /\ IsSeq(r.url) /\ IsSeq(r.parameters) /\ IsSeq(r.query) /\ IsSeq(r.fragment)
         /\ IsSeq(<<SP>> \o (r.url \o BehindUrl(r)))
<1>1. IsSeq(r.url) /\ IsSeq(r.parameters) /\ IsSeq(r.query) /\ IsSeq(r.fragment)
  BY DEF Readable, LineReadable, FreeOf
<1>2. IsSeq(BehindLines(r, 0))
  <2>1. Len(r.headers) \in Nat => 0 \in 0 .. Len(r.headers)
    OBVIOUS
  <2> QED
    BY <2>1, LinesLeft DEF Readable
<1>3. IsSeq(VersionText(r.version))
  <2>1. \A a, b, c, d, e : <<a, b, c>> \in Seq({a, b, c}) /\ <<a, b, c, d, e>> \in Seq({a, b, c, d, e})
    OBVIOUS
  <2>2. \A a, b, c, d, e : IsSeq(<<a, b, c>>) /\ IsSeq(<<a, b, c, d, e>>)
    BY <2>1 DEF IsSeq
  <2>3. IsSeq(<<"H", "T", "T", "P", "/">>) /\ IsSeq(Dotted(r.version))
    BY <2>2 DEF Dotted
  <2> QED
    BY <2>3, Cat DEF VersionText
<1>4. \A c, u : IsSeq(u) => IsSeq(<<c>> \o u)
  BY Mark
<1>5. IsSeq(LineEnd(r, 0))
  BY <1>2, <1>4 DEF LineEnd
<1>6. IsSeq(VersionText(r.version) \o LineEnd(r, 0))
  BY <1>3, <1>5, Cat
<1>7. IsSeq(BehindTarget(r))
  BY <1>4, <1>6 DEF BehindTarget
<1>8. IsSeq(BehindQuery(r))
  BY <1>1, <1>7, MarkedReads DEF BehindQuery
<1>9. IsSeq(BehindParameters(r))
  BY <1>1, <1>8, MarkedReads DEF BehindParameters
<1>10. IsSeq(BehindUrl(r))
  BY <1>1, <1>9, MarkedReads DEF BehindUrl
<1>11. IsSeq(r.url \o BehindUrl(r))
  BY <1>1, <1>10, Cat
<1> QED
  BY <1>1, <1>2, <1>3, <1>4, <1>5, <1>7, <1>8, <1>9, <1>10, <1>11

LEMMA Packed ==
  ASSUME NEW h, Readable(h.request), h.request.body = <<>>,
         PackedCommand(h.request.command) = h.request.command
  PROVE  RequestPack(h) = HeadText(h.request) /\ IsSeq(HeadText(h.request))
<1> DEFINE r == h.request
           w == <<Word(r), SP>>
           m1 == Marked(SEMI, r.parameters)
           m2 == Marked("?", r.query)
           m3 == Marked("#", r.fragment)
           sp == <<SP>>
           v == VersionText(r.version)
           hl == HeaderLines(r.headers)
           url == r.url
           none == <<>>
<1>1. RequestPack(h) = w \o url \o m1 \o m2 \o m3 \o sp \o v \o CRLF \o hl \o CRLF \o none
  <2>1. (IF Carries(r.command) THEN r.body ELSE <<>>) = none
    OBVIOUS
  <2> QED
    BY <2>1 DEF RequestPack, Word
<1>2. /\ IsSeq(m1) /\ IsSeq(m2) /\ IsSeq(m3) /\ IsSeq(sp) /\ IsSeq(v) /\ IsSeq(hl) /\ IsSeq(CRLF)
      /\ IsSeq(none) /\ IsSeq(url) /\ hl \o CRLF = BehindLines(r, 0)
  <2>1. IsSeq(hl) /\ IsSeq(CRLF) /\ hl \o CRLF = BehindLines(r, 0)
    BY LinesLeft DEF Readable
  <2> QED
    BY <2>1, Behinds, MarkedReads, EmptyIsSeq, One
<1>3. IsSeq(w)
  <2>1. w \in Seq({Word(r), SP})
    OBVIOUS
  <2> QED
    BY <2>1 DEF IsSeq
<1> DEFINE rest == Join(url, Join(m1, Join(m2, Join(m3, Join(sp, Join(v, Join(CRLF, Join(hl, CRLF))))))))
<1>4. Join(Join(Join(Join(Join(Join(Join(Join(Join(Join(w, url), m1), m2), m3), sp), v), CRLF), hl),
             CRLF), none) = Join(w, rest) /\ IsSeq(rest) /\ IsSeq(Join(w, rest))
  <2> HIDE DEF w, m1, m2, m3, sp, v, hl, url, none
  <2>1. \A s, a, b, c : IsSeq(s) /\ IsSeq(a) /\ IsSeq(b) /\ IsSeq(c) =>
          /\ Join(Join(Join(s, a), b), c) = Join(s, Join(a, Join(b, c)))
          /\ IsSeq(Join(Join(Join(s, a), b), c)) /\ IsSeq(Join(a, Join(b, c)))
    BY Joins
  <2> DEFINE p == Join(Join(Join(w, url), m1), m2)
             q == Join(Join(Join(p, m3), sp), v)
             a == Join(url, Join(m1, m2))
             b == Join(m3, Join(sp, v))
             c == Join(CRLF, Join(hl, CRLF))
  <2>2. p = Join(w, a) /\ IsSeq(p) /\ IsSeq(a)
    BY <1>2, <1>3, <2>1
  <2>3. q = Join(p, b) /\ IsSeq(q) /\ IsSeq(b)
    <3> HIDE DEF p
    <3> QED
      BY <1>2, <2>1, <2>2
  <2>4. Join(Join(Join(q, CRLF), hl), CRLF) = Join(q, c) /\ IsSeq(c) /\ IsSeq(Join(q, c))
    <3> HIDE DEF q
    <3> QED
      BY <1>2, <2>1, <2>3
  <2>5. Join(Join(q, c), none) = Join(q, c) /\ Join(q, c) = Join(w, Join(a, Join(b, c)))
        /\ IsSeq(Join(a, Join(b, c)))
    <3> HIDE DEF p, q, a, b, c
    <3>1. Join(Join(q, c), none) = Join(q, c)
      BY <2>4, Joins DEF none
    <3> QED
      BY <1>3, <2>1, <2>2, <2>3, <2>4, <3>1
  <2>6. Join(a, Join(b, c)) = rest
    <3>1. IsSeq(c) /\ Join(b, c) = Join(m3, Join(sp, Join(v, c))) /\ IsSeq(Join(b, c))
      <4>1. IsSeq(c)
        BY <2>4
      <4> HIDE DEF c
      <4>2. IsSeq(Join(sp, v)) /\ Join(Join(sp, v), c) = Join(sp, Join(v, c))
        BY <1>2, <4>1, Joins
      <4>3. Join(Join(m3, Join(sp, v)), c) = Join(m3, Join(Join(sp, v), c))
        BY <1>2, <4>1, <4>2, Joins
      <4>4. IsSeq(Join(b, c))
        BY <2>3, <4>1, Joins
      <4> QED
        BY <4>1, <4>2, <4>3, <4>4, Zenon
    <3> DEFINE d == Join(m3, Join(sp, Join(v, c)))
    <3>2. Join(a, d) = Join(url, Join(m1, Join(m2, d)))
      <4>1. IsSeq(d)
        BY <3>1
      <4> HIDE DEF d
      <4> QED
        BY <1>2, <4>1, Joins
    <3> QED
      BY <3>1, <3>2, Zenon
  <2> QED
    BY <2>4, <2>5, <2>6, Joins, <1>3
<1>5. RequestPack(h) = w \o (url \o (m1 \o (m2 \o (m3 \o (sp \o (v \o (CRLF \o (hl \o CRLF))))))))
      /\ IsSeq(RequestPack(h))
  <2> HIDE DEF w, m1, m2, m3, sp, v, hl, url, none
  <2> QED
    BY <1>1, <1>4, Zenon DEF Join
<1>6. CRLF \o BehindLines(r, 0) = LineEnd(r, 0)
  <2>1. IsSeq(BehindLines(r, 0))
    BY Behinds
  <2>2. <<"\r", "\n">> \o BehindLines(r, 0) = <<"\r">> \o (<<"\n">> \o BehindLines(r, 0))
    BY <2>1, Pair
  <2> QED
    BY <2>2 DEF CRLF, LineEnd
<1>7. RequestPack(h) = w \o (url \o BehindUrl(r))
  <2> HIDE DEF w, m1, m2, m3, sp, v, hl, url
  <2> QED
    BY <1>2, <1>5, <1>6, Zenon DEF BehindUrl, BehindParameters, BehindQuery, BehindTarget,
       m1, m2, m3, sp, v
<1>8. w \o (url \o BehindUrl(r)) = HeadText(r)
  <2> DEFINE u == url \o BehindUrl(r)
  <2>1. IsSeq(u)
    BY Behinds, Cat
  <2> HIDE DEF u
  <2>2. <<Word(r), SP>> \o u = <<Word(r)>> \o (<<SP>> \o u)
    BY <2>1, Pair
  <2> QED
    BY <2>2 DEF u, HeadText
<1> QED
  BY <1>5, <1>7, <1>8

-----------------------------------------------------------------------------
(* A step that changes fields P of the parser and R of the request.        *)
Changes(x, y, P, R) ==
  /\ Shaped(y) /\ \A f \in ParserFields \ (P \cup {"http"}) : y[f] = x[f]
  /\ y.http.chunked = x.http.chunked /\ y.http.chunk = x.http.chunk
  /\ \A f \in RequestFields \ R : y.http.request[f] = x.http.request[f]

LEMMA ChangeNone ==
  ASSUME NEW x, Shaped(x)
  PROVE  Changes(x, x, {}, {})
BY DEF Changes

LEMMA ChangeField ==
  ASSUME NEW x, Shaped(x), NEW f \in ParserFields \ {"http", "side"}, NEW v
  PROVE  Changes(x, [x EXCEPT ![f] = v], {f}, {}) /\ [x EXCEPT ![f] = v][f] = v
         /\ [x EXCEPT ![f] = v].http = x.http
BY DEF Changes, Shaped, ParserFields

LEMMA ChangeRequest ==
  ASSUME NEW x, Shaped(x), NEW f \in RequestFields, NEW v
  PROVE  Changes(x, Put(x, f, v), {}, {f}) /\ Put(x, f, v).http.request[f] = v
<1> DEFINE r == [x.http.request EXCEPT ![f] = v]
           h == [x.http EXCEPT !.request = r]
           y == [x EXCEPT !.http = h]
<1>0. y = Put(x, f, v)
  BY DEF Put
<1>1. /\ r = [g \in RequestFields |-> r[g]] /\ r[f] = v
      /\ \A g \in RequestFields \ {f} : r[g] = x.http.request[g]
  BY DEF Shaped, ShapedHttp
<1> HIDE DEF r
<1>2. /\ h = [g \in HttpFields |-> h[g]] /\ h.request = r
      /\ h.chunked = x.http.chunked /\ h.chunk = x.http.chunk
  BY DEF Shaped, ShapedHttp, HttpFields
<1> HIDE DEF h
<1>3. /\ y = [g \in ParserFields |-> y[g]] /\ y.http = h
      /\ \A g \in ParserFields \ {"http"} : y[g] = x[g]
  BY DEF Shaped, ParserFields
<1>4. y.side = "request"
  BY <1>3 DEF Shaped, ParserFields
<1> HIDE DEF y
<1>5. Shaped(y)
  BY <1>1, <1>2, <1>3, <1>4 DEF Shaped, ShapedHttp
<1> QED
  BY <1>0, <1>1, <1>2, <1>3, <1>5 DEF Changes

LEMMA ChangeTrans ==
  ASSUME NEW x, NEW y, NEW z, NEW P, NEW Q, NEW R, NEW S,
         Changes(x, y, P, R), Changes(y, z, Q, S)
  PROVE  Changes(x, z, P \cup Q, R \cup S)
BY DEF Changes

-----------------------------------------------------------------------------
(* Where the head is read, with w of it still to come.  clean: the context *)
(* had no parameters and no fragment of an earlier request.                *)
Waiting(x) ==
  /\ Shaped(x) /\ x.rc = 0 /\ x.digits = <<>>
  /\ x.http.chunked = FALSE /\ x.http.chunk = NoChunks /\ x.http.request.body = <<>>
Got(x, r, F) == \A f \in F : x.http.request[f] = r[f]
None(x, F) == \A f \in F : x.http.request[f] = <<>>
Unread(x, clean) ==
  /\ x.tmp = <<>> /\ None(x, {"query", "headers"})
  /\ clean => None(x, {"parameters", "fragment"})

AtStart(x, w, r, clean) ==
  x.st = "START" /\ Unread(x, clean) /\ None(x, {"url"}) /\ w = HeadText(r)
AtCommand(x, w, r, clean) ==
  /\ x.st = "COMMAND" /\ x.tmp = <<Word(r)>> /\ None(x, {"url", "query", "headers"})
  /\ clean => None(x, {"parameters", "fragment"})
  /\ w = <<SP>> \o (r.url \o BehindUrl(r))
AtUrl(x, w, r, clean) ==
  /\ x.st \in {"URL_START", "URL"} /\ (x.st = "URL_START" <=> x.http.request.url = <<>>)
  /\ Unread(x, clean) /\ Got(x, r, {"command"})
  /\ Reading(x.http.request.url, w, r.url, BehindUrl(r))
AtParameters(x, w, r, clean) ==
  /\ x.st = "PARAMETERS" /\ x.tmp = <<>> /\ None(x, {"query", "headers"})
  /\ Got(x, r, {"command", "url"}) /\ (clean => None(x, {"fragment"}))
  /\ \E s : /\ Reading(s, w, r.parameters, BehindParameters(r))
            /\ clean => x.http.request.parameters = s
AtQuery(x, w, r, clean) ==
  /\ x.st = "QUERY" /\ x.tmp = <<>> /\ None(x, {"headers"})
  /\ Got(x, r, {"command", "url"})
  /\ clean => Got(x, r, {"parameters"}) /\ None(x, {"fragment"})
  /\ Reading(x.http.request.query, w, r.query, BehindQuery(r))
AtFragment(x, w, r, clean) ==
  /\ x.st = "FRAGMENT" /\ x.tmp = <<>> /\ None(x, {"headers"})
  /\ Got(x, r, {"command", "url", "query"}) /\ (clean => Got(x, r, {"parameters"}))
  /\ \E s : /\ Reading(s, w, r.fragment, BehindTarget(r))
            /\ clean => x.http.request.fragment = s

TargetRead(x, r, clean) ==
  Got(x, r, {"command", "url", "query"}) /\ (clean => Got(x, r, {"parameters", "fragment"}))
VersionStates == <<"H", "HT", "HTT", "HTTP", "SLASH", "MAJOR", "DOT", "MINOR">>
AtVersion(x, w, r, clean) ==
  /\ TargetRead(x, r, clean) /\ None(x, {"headers"})
  /\ Len(x.tmp) \in 0 .. 7 /\ x.st = VersionStates[Len(x.tmp) + 1]
  /\ Reading(x.tmp, w, VersionText(r.version), LineEnd(r, 0))

LineRead(x, r, clean) == TargetRead(x, r, clean) /\ Got(x, r, {"version"})
AtTitle(x, w, r, clean) ==
  /\ LineRead(x, r, clean) /\ None(x, {"headers"})
  /\ \/ x.st = "TITLE_CR" /\ w = LineEnd(r, 0)
     \/ x.st = "TITLE_LF" /\ w = <<"\n">> \o BehindLines(r, 0)

(* k headers were put in front of each other. *)
Newest(hs, k) == [i \in 1 .. k |-> hs[k + 1 - i]]
AtName(x, w, r, k) ==
  /\ x.st = "HEADER_NAME" /\ x.value = <<>>
  /\ Reading(x.name, w, r.headers[k + 1].name,
             <<":">> \o (<<SP>> \o (r.headers[k + 1].value \o LineEnd(r, k + 1))))
AtColon(x, w, r, k) ==
  /\ x.st = "HEADER_COLON" /\ x.name = r.headers[k + 1].name /\ x.value = <<>>
  /\ w = <<SP>> \o (r.headers[k + 1].value \o LineEnd(r, k + 1))
AtValue(x, w, r, k) ==
  /\ x.st = "HEADER_VALUE" /\ x.name = r.headers[k + 1].name
  /\ Reading(x.value, w, r.headers[k + 1].value, LineEnd(r, k + 1))
AtLineEnd(x, w, r, k) ==
  /\ x.name = r.headers[k + 1].name /\ x.value = r.headers[k + 1].value
  /\ \/ x.st = "HEADER_CR1" /\ w = <<"\n">> \o BehindLines(r, k + 1)
     \/ x.st = "HEADER_LF1" /\ w = BehindLines(r, k + 1)
AtHeader(x, w, r, clean) ==
  /\ LineRead(x, r, clean)
  /\ \E k \in 0 .. Len(r.headers) - 1 :
       /\ x.http.request.headers = Newest(r.headers, k)
       /\ AtName(x, w, r, k) \/ AtColon(x, w, r, k) \/ AtValue(x, w, r, k) \/ AtLineEnd(x, w, r, k)

HeadRead(x, r, clean) ==
  LineRead(x, r, clean) /\ x.http.request.headers = Newest(r.headers, Len(r.headers))
AtHeadEnd(x, w, r, clean) ==
  HeadRead(x, r, clean) /\ x.st = "HEADER_CR2" /\ w = <<"\n">>

InHead(x, w, r, clean) ==
  /\ Waiting(x) /\ ~x.done
  /\ \/ AtStart(x, w, r, clean) \/ AtCommand(x, w, r, clean) \/ AtUrl(x, w, r, clean)
     \/ AtParameters(x, w, r, clean) \/ AtQuery(x, w, r, clean) \/ AtFragment(x, w, r, clean)
     \/ AtVersion(x, w, r, clean) \/ AtTitle(x, w, r, clean) \/ AtHeader(x, w, r, clean)
     \/ AtHeadEnd(x, w, r, clean)

(* What a step leads to. *)
LeadsTo(x, w, r, clean, c, v) ==
  /\ w # <<>> /\ Head(w) = c /\ Tail(w) = v /\ RequestChar(x, c).size = x.size
  /\ InHead(RequestChar(x, c), v, r, clean)

(* Only the state changes, or the text that is kept. *)
LEMMA Onward ==
  ASSUME NEW x, Waiting(x), ~x.done, NEW y, NEW P, NEW R, Changes(x, y, P, R),
         P \subseteq {"st", "tmp", "name", "value"}, "body" \notin R
  PROVE  Waiting(y) /\ ~y.done /\ y.size = x.size
BY DEF Waiting, Changes, ParserFields, RequestFields

LEMMA Dispatch ==
  ASSUME NEW x, NEW c
  PROVE  /\ x.st = "START" => RequestChar(x, c) = StartChar(x, c)
         /\ x.st = "COMMAND" => RequestChar(x, c) = CommandChar(x, c)
         /\ x.st = "URL_START" => RequestChar(x, c) = UrlStartChar(x, c)
         /\ x.st = "URL" => RequestChar(x, c) = UrlChar(x, c)
         /\ x.st = "PARAMETERS" => RequestChar(x, c) = ParametersChar(x, c)
         /\ x.st = "QUERY" => RequestChar(x, c) = QueryChar(x, c)
         /\ x.st = "FRAGMENT" => RequestChar(x, c) = FragmentChar(x, c)
         /\ x.st \in {"H", "HT", "HTT", "HTTP", "SLASH", "MAJOR", "DOT"} =>
              RequestChar(x, c) = ProtocolChar(x, c)
         /\ x.st = "MINOR" => RequestChar(x, c) = MinorChar(x, c)
         /\ x.st \in {"TITLE_CR", "TITLE_LF"} => RequestChar(x, c) = TitleChar(x, c)
         /\ x.st = "HEADER_CR2" => RequestChar(x, c) = Cr2Char(x, c)
         /\ x.st = "HEADER_NAME" => RequestChar(x, c) = NameChar(x, c)
         /\ x.st = "HEADER_COLON" => RequestChar(x, c) = ColonChar(x, c)
         /\ x.st = "HEADER_VALUE" => RequestChar(x, c) = ValueChar(x, c)
         /\ x.st = "HEADER_CR1" => RequestChar(x, c) = Cr1Char(x, c)
         /\ x.st = "HEADER_LF1" => RequestChar(x, c) = Lf1Char(x, c)
<1>0. DOMAIN Protocol \cup {"MAJOR"} = {"H", "HT", "HTT", "HTTP", "SLASH", "MAJOR", "DOT"}
  BY DEF Protocol
<1>1. x.st = "START" => RequestChar(x, c) = StartChar(x, c)
  BY <1>0, Zenon DEF RequestChar
<1>2. x.st = "COMMAND" => RequestChar(x, c) = CommandChar(x, c)
  BY <1>0, Zenon DEF RequestChar
<1>3. x.st = "URL_START" => RequestChar(x, c) = UrlStartChar(x, c)
  BY <1>0, Zenon DEF RequestChar
<1>4. x.st = "URL" => RequestChar(x, c) = UrlChar(x, c)
  BY <1>0, Zenon DEF RequestChar
<1>5. x.st = "PARAMETERS" => RequestChar(x, c) = ParametersChar(x, c)
  BY <1>0, Zenon DEF RequestChar
<1>6. x.st = "QUERY" => RequestChar(x, c) = QueryChar(x, c)
  BY <1>0, Zenon DEF RequestChar
<1>7. x.st = "FRAGMENT" => RequestChar(x, c) = FragmentChar(x, c)
  BY <1>0, Zenon DEF RequestChar
<1>8. x.st \in {"H", "HT", "HTT", "HTTP", "SLASH", "MAJOR", "DOT"} =>
        RequestChar(x, c) = ProtocolChar(x, c)
  <2>1. x.st \in {"H", "HT", "HTT", "HTTP", "SLASH", "MAJOR", "DOT"} =>
          x.st \notin {"START", "COMMAND", "URL_START", "URL", "PARAMETERS", "QUERY", "FRAGMENT",
                       "MINOR", "TITLE_CR", "TITLE_LF", "HEADER_CR2"}
    BY Zenon
  <2> QED
    BY <1>0, <2>1, Zenon DEF RequestChar
<1>9. x.st = "MINOR" => RequestChar(x, c) = MinorChar(x, c)
  BY <1>0, Zenon DEF RequestChar
<1>10. x.st \in {"TITLE_CR", "TITLE_LF"} => RequestChar(x, c) = TitleChar(x, c)
  <2>1. x.st \in {"TITLE_CR", "TITLE_LF"} =>
          x.st \notin {"START", "COMMAND", "URL_START", "URL", "PARAMETERS", "QUERY", "FRAGMENT",
                       "MINOR", "HEADER_CR2"} \cup (DOMAIN Protocol \cup {"MAJOR"})
    BY <1>0, Zenon
  <2> QED
    BY <2>1, Zenon DEF RequestChar
<1>11. x.st = "HEADER_CR2" => RequestChar(x, c) = Cr2Char(x, c)
  BY <1>0, Zenon DEF RequestChar
<1>12. /\ x.st = "HEADER_NAME" => RequestChar(x, c) = NameChar(x, c)
       /\ x.st = "HEADER_COLON" => RequestChar(x, c) = ColonChar(x, c)
       /\ x.st = "HEADER_VALUE" => RequestChar(x, c) = ValueChar(x, c)
       /\ x.st = "HEADER_CR1" => RequestChar(x, c) = Cr1Char(x, c)
       /\ x.st = "HEADER_LF1" => RequestChar(x, c) = Lf1Char(x, c)
  <2> DEFINE S == {"HEADER_NAME", "HEADER_COLON", "HEADER_VALUE", "HEADER_CR1", "HEADER_LF1"}
  <2>1. x.st \in S =>
          x.st \notin {"START", "COMMAND", "URL_START", "URL", "PARAMETERS", "QUERY", "FRAGMENT",
                       "MINOR", "TITLE_CR", "TITLE_LF", "HEADER_CR2"} \cup (DOMAIN Protocol \cup {"MAJOR"})
    BY <1>0, Zenon
  <2>2. x.st \in S => RequestChar(x, c) = HeaderChar(x, c)
    <3> HIDE DEF S
    <3> QED
      BY <2>1, Zenon DEF RequestChar
  <2>3. x.st = "HEADER_NAME" => HeaderChar(x, c) = NameChar(x, c)
    BY Zenon DEF HeaderChar
  <2>4. x.st = "HEADER_COLON" => HeaderChar(x, c) = ColonChar(x, c)
    BY Zenon DEF HeaderChar
  <2>5. x.st = "HEADER_VALUE" => HeaderChar(x, c) = ValueChar(x, c)
    BY Zenon DEF HeaderChar
  <2>6. x.st = "HEADER_CR1" => HeaderChar(x, c) = Cr1Char(x, c)
    BY Zenon DEF HeaderChar
  <2>7. x.st = "HEADER_LF1" => HeaderChar(x, c) = Lf1Char(x, c)
    BY Zenon DEF HeaderChar
  <2> QED
    BY <2>2, <2>3, <2>4, <2>5, <2>6, <2>7
<1> QED
  BY <1>1, <1>2, <1>3, <1>4, <1>5, <1>6, <1>7, <1>8, <1>9, <1>10, <1>11, <1>12

LEMMA Twice ==
  ASSUME NEW x, NEW y, NEW z, NEW P, NEW R, Changes(x, y, P, R), Changes(y, z, P, R)
  PROVE  Changes(x, z, P, R)
BY DEF Changes

LEMMA Widen ==
  ASSUME NEW x, NEW y, NEW P, NEW R, NEW Q, NEW S, Changes(x, y, P, R), P \subseteq Q, R \subseteq S
  PROVE  Changes(x, y, Q, S)
BY DEF Changes

LEMMA GotoChanges ==
  ASSUME NEW x, Shaped(x), NEW st
  PROVE  Changes(x, Goto(x, st), {"st"}, {}) /\ Goto(x, st).st = st
<1>1. "st" \in ParserFields \ {"http", "side"}
  BY DEF ParserFields
<1>2. Changes(x, [x EXCEPT !.st = st], {"st"}, {})
  BY <1>1, ChangeField
<1>3. [x EXCEPT !.st = st].st = st
  BY <1>1, ChangeField
<1> QED
  BY <1>2, <1>3 DEF Goto

LEMMA StoreChanges ==
  ASSUME NEW x, Shaped(x), NEW c, NEW st
  PROVE  /\ Changes(x, Store(x, c, st), {"tmp", "st"}, {})
         /\ Store(x, c, st).st = st /\ Store(x, c, st).tmp = Append(x.tmp, c)
<1> DEFINE z == [x EXCEPT !.tmp = Append(x.tmp, c)]
           y == [z EXCEPT !.st = st]
<1>1. Store(x, c, st) = y
  BY DEF Store, Shaped, ParserFields
<1>2. Changes(x, z, {"tmp"}, {}) /\ z.tmp = Append(x.tmp, c)
  <2>1. "tmp" \in ParserFields \ {"http", "side"}
    BY DEF ParserFields
  <2>2. Changes(x, z, {"tmp"}, {})
    BY <2>1, ChangeField
  <2>3. z.tmp = Append(x.tmp, c)
    BY <2>1, ChangeField
  <2> QED
    BY <2>2, <2>3
<1> HIDE DEF z
<1>3. Shaped(z) /\ "st" \in ParserFields \ {"http", "side"}
  BY <1>2 DEF Changes, ParserFields
<1>4. Changes(z, y, {"st"}, {}) /\ y.st = st
  BY <1>3, ChangeField
<1> HIDE DEF y
<1>5. y.tmp = z.tmp
  BY <1>4 DEF Changes, ParserFields
<1>6. Changes(x, z, {"tmp", "st"}, {}) /\ Changes(z, y, {"tmp", "st"}, {})
  BY <1>2, <1>4, Widen
<1>7. Changes(x, y, {"tmp", "st"}, {})
  BY <1>6, Twice
<1> QED
  BY <1>1, <1>2, <1>4, <1>5, <1>7

(* x goes on to y, which has got the first character of w. *)
LEMMA StartReads ==
  ASSUME NEW x, NEW w, NEW r, NEW clean, Readable(r), Waiting(x), ~x.done,
         AtStart(x, w, r, clean)
  PROVE  \E c, v : LeadsTo(x, w, r, clean, c, v)
<1> DEFINE c == Word(r)
           v == <<SP>> \o (r.url \o BehindUrl(r))
           y == RequestChar(x, c)
<1>1. w # <<>> /\ Head(w) = c /\ Tail(w) = v
  BY Behinds, Mark DEF AtStart, HeadText
<1>2. y = Store(x, c, "COMMAND")
  BY Dispatch DEF AtStart, StartChar
<1>3. Changes(x, y, {"tmp", "st"}, {}) /\ y.st = "COMMAND" /\ y.tmp = Append(x.tmp, c)
  BY <1>2, StoreChanges DEF Waiting
<1> HIDE DEF y, c, v
<1>4. y.tmp = <<c>>
  <2>1. Append(<<>>, c) = <<c>>
    OBVIOUS
  <2> QED
    BY <1>3, <2>1 DEF AtStart, Unread
<1>5. Waiting(y) /\ ~y.done /\ y.size = x.size
  BY <1>3, Onward
<1>6. AtCommand(y, v, r, clean)
  BY <1>3, <1>4 DEF AtCommand, AtStart, Unread, None, Changes, RequestFields, v, c
<1> QED
  BY <1>1, <1>5, <1>6 DEF LeadsTo, InHead, y

LEMMA CommandReads ==
  ASSUME NEW x, NEW w, NEW r, NEW clean, Readable(r), Waiting(x), ~x.done,
         AtCommand(x, w, r, clean)
  PROVE  \E c, v : LeadsTo(x, w, r, clean, c, v)
<1> DEFINE c == SP
           v == r.url \o BehindUrl(r)
           y == RequestChar(x, c)
           z == Goto(x, "URL_START")
           u == [z EXCEPT !.tmp = <<>>]
<1>1. w # <<>> /\ Head(w) = c /\ Tail(w) = v
  <2>1. IsSeq(v)
    BY Behinds, Cat
  <2> QED
    BY <2>1, Mark DEF AtCommand
<1>2. y = Put(u, "command", r.command)
  <2>1. y = CommandChar(x, c)
    BY Dispatch DEF AtCommand
  <2>2. \E d \in Recognised : x.tmp = <<d>>
    BY DEF AtCommand, Readable, LineReadable
  <2>3. CommandChar(x, SP) = [x EXCEPT !.st = "URL_START", !.tmp = <<>>,
                                      !.http.request.command = CommandNumber(x.tmp[1])]
    BY <2>2, Zenon DEF CommandChar
  <2>4. CommandNumber(x.tmp[1]) = r.command
    <3>1. <<Word(r)>>[1] = Word(r)
      OBVIOUS
    <3> QED
      BY <3>1, Zenon DEF AtCommand, Readable, LineReadable
  <2>5. [x EXCEPT !.st = "URL_START", !.tmp = <<>>, !.http.request.command = r.command]
          = Put(u, "command", r.command)
    BY DEF Put, Goto, Waiting, Shaped, ParserFields
  <2> QED
    BY <2>1, <2>3, <2>4, <2>5
<1>3. Changes(x, z, {"st"}, {}) /\ z.st = "URL_START"
  BY GotoChanges DEF Waiting
<1> HIDE DEF z
<1>4. Changes(z, u, {"tmp"}, {}) /\ u.tmp = <<>>
  <2>1. Shaped(z) /\ "tmp" \in ParserFields \ {"http", "side"}
    BY <1>3 DEF Changes, ParserFields
  <2> QED
    BY <2>1 DEF Changes, Shaped, ParserFields
<1> HIDE DEF u
<1>5. Changes(u, y, {}, {"command"}) /\ y.http.request.command = r.command
  <2>1. Shaped(u) /\ "command" \in RequestFields
    BY <1>4 DEF Changes, RequestFields
  <2> QED
    BY <1>2, <2>1, ChangeRequest
<1> HIDE DEF y, c, v
<1>6. Changes(x, y, {"st", "tmp"}, {"command"}) /\ y.st = "URL_START" /\ y.tmp = <<>>
  <2>1. Changes(x, z, {"st", "tmp"}, {"command"}) /\ Changes(z, u, {"st", "tmp"}, {"command"})
        /\ Changes(u, y, {"st", "tmp"}, {"command"})
    BY <1>3, <1>4, <1>5, Widen
  <2>2. Changes(x, y, {"st", "tmp"}, {"command"})
    BY <2>1, Twice
  <2>3. y.st = z.st /\ y.tmp = u.tmp
    BY <1>4, <1>5 DEF Changes, ParserFields
  <2> QED
    BY <1>3, <1>4, <2>2, <2>3
<1>7. Waiting(y) /\ ~y.done /\ y.size = x.size
  <2>1. "body" \notin {"command"}
    OBVIOUS
  <2> QED
    BY <1>6, <2>1, Onward
<1>8. AtUrl(y, v, r, clean)
  <2>1. y.http.request.url = <<>>
    BY <1>6 DEF AtCommand, None, Changes, RequestFields
  <2>2. Unread(y, clean) /\ Got(y, r, {"command"})
    BY <1>5, <1>6 DEF AtCommand, Unread, None, Got, Changes, RequestFields
  <2>3. Reading(<<>>, v, r.url, BehindUrl(r))
    BY Behinds, Begins DEF v
  <2> QED
    BY <1>6, <2>1, <2>2, <2>3 DEF AtUrl
<1> QED
  BY <1>1, <1>7, <1>8 DEF LeadsTo, InHead, y

-----------------------------------------------------------------------------
(* What is behind a part of the target, and where its first mark leads. *)
LEMMA BehindMarks ==
  /\ Behind(SP) = "H" /\ Behind(SEMI) = "PARAMETERS"
  /\ Behind("?") = "QUERY" /\ Behind("#") = "FRAGMENT"
  /\ SP # SEMI /\ SP # "?" /\ SP # "#" /\ SEMI # "?" /\ SEMI # "#"
<1>1. SP # SEMI /\ SP # "?" /\ SP # "#" /\ SEMI # "?" /\ SEMI # "#"
  BY Zenon DEF SP, SEMI
<1>2. Behind(SP) = "H"
  BY <1>1, Zenon DEF Behind
<1>3. Behind(SEMI) = "PARAMETERS"
  BY <1>1, Zenon DEF Behind
<1>4. Behind("?") = "QUERY"
  BY <1>1, Zenon DEF Behind
<1>5. Behind("#") = "FRAGMENT"
  BY <1>1, Zenon DEF Behind
<1> QED
  BY <1>1, <1>2, <1>3, <1>4, <1>5

LEMMA IntoVersion ==
  ASSUME NEW x, NEW w, NEW r, NEW clean, Readable(r), Waiting(x), ~x.done,
         x.tmp = <<>>, None(x, {"headers"}), TargetRead(x, r, clean), w = BehindTarget(r)
  PROVE  /\ w # <<>> /\ Head(w) = SP
         /\ \A y : Changes(x, y, {"st"}, {}) /\ y.st = Behind(SP) => InHead(y, Tail(w), r, clean)
<1> DEFINE v == VersionText(r.version) \o LineEnd(r, 0)
<1>1. w # <<>> /\ Head(w) = SP /\ Tail(w) = v
  <2>1. IsSeq(v)
    BY Behinds, Cat
  <2> QED
    BY <2>1, Mark DEF BehindTarget
<1>2. ASSUME NEW y, Changes(x, y, {"st"}, {}), y.st = Behind(SP)
      PROVE  InHead(y, v, r, clean)
  <2>1. y.st = "H"
    BY <1>2, BehindMarks
  <2>2. Waiting(y) /\ ~y.done
    BY <1>2, Onward
  <2>3. y.tmp = <<>> /\ None(y, {"headers"}) /\ TargetRead(y, r, clean)
    BY <1>2 DEF Changes, ParserFields, RequestFields, None, TargetRead, Got
  <2>4. Len(<<>>) = 0 /\ VersionStates[1] = "H"
    BY DEF VersionStates
  <2>5. Reading(<<>>, v, VersionText(r.version), LineEnd(r, 0))
    BY Behinds, Begins
  <2>6. AtVersion(y, v, r, clean)
    BY <2>1, <2>3, <2>4, <2>5 DEF AtVersion
  <2> QED
    BY <2>2, <2>6 DEF InHead
<1> QED
  BY <1>1, <1>2

LEMMA IntoFragment ==
  ASSUME NEW x, NEW w, NEW r, NEW clean, Readable(r), Waiting(x), ~x.done,
         x.tmp = <<>>, None(x, {"headers"}), Got(x, r, {"command", "url", "query"}),
         clean => Got(x, r, {"parameters"}) /\ None(x, {"fragment"}), w = BehindQuery(r)
  PROVE  /\ w # <<>> /\ Head(w) \in {SP, "#"}
         /\ \A y : Changes(x, y, {"st"}, {}) /\ y.st = Behind(Head(w)) => InHead(y, Tail(w), r, clean)
<1>0. IsSeq(r.fragment) /\ IsSeq(BehindTarget(r))
  BY Behinds
<1>1. CASE r.fragment = <<>>
  <2>1. w = BehindTarget(r)
    <3>1. Marked("#", r.fragment) \o BehindTarget(r) = BehindTarget(r)
      BY <1>0, <1>1, MarkedNone
    <3> QED
      BY <3>1 DEF BehindQuery
  <2>2. TargetRead(x, r, clean)
    BY <1>1 DEF TargetRead, Got, None
  <2> QED
    BY <2>1, <2>2, IntoVersion
<1>2. CASE r.fragment # <<>>
  <2> DEFINE v == r.fragment \o BehindTarget(r)
  <2>1. w = <<"#">> \o v
    <3>1. Marked("#", r.fragment) \o BehindTarget(r) = <<"#">> \o (r.fragment \o BehindTarget(r))
      <4> DEFINE s == r.fragment
                 u == BehindTarget(r)
      <4>1. IsSeq(s) /\ IsSeq(u) /\ s # <<>>
        BY <1>0, <1>2
      <4> HIDE DEF s, u
      <4>2. Marked("#", s) \o u = <<"#">> \o (s \o u)
        <5> DEFINE a == <<"#">>
        <5>1. Marked("#", s) = a \o s
          BY <4>1, Zenon DEF Marked
        <5>2. IsSeq(a)
          BY One
        <5> HIDE DEF a
        <5>3. Join(Join(a, s), u) = Join(a, Join(s, u))
          BY ONLY <4>1, <5>2, Joins
        <5>4. Marked("#", s) \o u = a \o (s \o u)
          BY <5>1, <5>3, Zenon DEF Join
        <5> QED
          BY <5>4, Zenon DEF a
      <4> QED
        BY <4>2, Zenon DEF s, u
    <3> QED
      BY <3>1, Zenon DEF BehindQuery
  <2>2. w # <<>> /\ Head(w) = "#" /\ Tail(w) = v
    <3>1. IsSeq(v)
      BY <1>0, Cat
    <3> QED
      BY <2>1, <3>1, Mark
  <2>3. ASSUME NEW y, Changes(x, y, {"st"}, {}), y.st = Behind("#")
        PROVE  InHead(y, v, r, clean)
    <3>1. y.st = "FRAGMENT"
      BY <2>3, BehindMarks
    <3>2. Waiting(y) /\ ~y.done
      BY <2>3, Onward
    <3>3. /\ y.tmp = <<>> /\ None(y, {"headers"}) /\ Got(y, r, {"command", "url", "query"})
          /\ clean => Got(y, r, {"parameters"}) /\ y.http.request.fragment = <<>>
      BY <2>3 DEF Changes, ParserFields, RequestFields, None, Got
    <3>4. Reading(<<>>, v, r.fragment, BehindTarget(r))
      BY <1>0, Begins
    <3>5. AtFragment(y, v, r, clean)
      BY <3>1, <3>3, <3>4 DEF AtFragment
    <3> QED
      BY <3>2, <3>5 DEF InHead
  <2> HIDE DEF v
  <2> QED
    BY <2>2, <2>3
<1> QED
  BY <1>1, <1>2

LEMMA IntoQuery ==
  ASSUME NEW x, NEW w, NEW r, NEW clean, Readable(r), Waiting(x), ~x.done,
         x.tmp = <<>>, None(x, {"query", "headers"}), Got(x, r, {"command", "url"}),
         clean => Got(x, r, {"parameters"}) /\ None(x, {"fragment"}), w = BehindParameters(r)
  PROVE  /\ w # <<>> /\ Head(w) \in {SP, "?", "#"}
         /\ \A y : Changes(x, y, {"st"}, {}) /\ y.st = Behind(Head(w)) => InHead(y, Tail(w), r, clean)
<1>0. IsSeq(r.query) /\ IsSeq(BehindQuery(r))
  BY Behinds
<1>1. CASE r.query = <<>>
  <2>1. w = BehindQuery(r)
    <3>1. Marked("?", r.query) \o BehindQuery(r) = BehindQuery(r)
      BY <1>0, <1>1, MarkedNone
    <3> QED
      BY <3>1 DEF BehindParameters
  <2>2. Got(x, r, {"command", "url", "query"}) /\ None(x, {"headers"})
    BY <1>1 DEF Got, None
  <2> QED
    BY <2>1, <2>2, IntoFragment
<1>2. CASE r.query # <<>>
  <2> DEFINE v == r.query \o BehindQuery(r)
  <2>1. w = <<"?">> \o v
    <3>1. Marked("?", r.query) \o BehindQuery(r) = <<"?">> \o (r.query \o BehindQuery(r))
      <4> DEFINE s == r.query
                 u == BehindQuery(r)
      <4>1. IsSeq(s) /\ IsSeq(u) /\ s # <<>>
        BY <1>0, <1>2
      <4> HIDE DEF s, u
      <4>2. Marked("?", s) \o u = <<"?">> \o (s \o u)
        BY <4>1, MarkedSome
      <4> QED
        BY <4>2, Zenon DEF s, u
    <3> QED
      BY <3>1, Zenon DEF BehindParameters
  <2>2. w # <<>> /\ Head(w) = "?" /\ Tail(w) = v
    <3>1. IsSeq(v)
      BY <1>0, Cat
    <3> QED
      BY <2>1, <3>1, Mark
  <2>3. ASSUME NEW y, Changes(x, y, {"st"}, {}), y.st = Behind("?")
        PROVE  InHead(y, v, r, clean)
    <3>1. y.st = "QUERY"
      BY <2>3, BehindMarks
    <3>2. Waiting(y) /\ ~y.done
      BY <2>3, Onward
    <3>3. /\ y.tmp = <<>> /\ None(y, {"headers"}) /\ Got(y, r, {"command", "url"})
          /\ (clean => Got(y, r, {"parameters"}) /\ None(y, {"fragment"}))
          /\ y.http.request.query = <<>>
      BY <2>3 DEF Changes, ParserFields, RequestFields, None, Got
    <3>4. Reading(<<>>, v, r.query, BehindQuery(r))
      BY <1>0, Begins
    <3>5. AtQuery(y, v, r, clean)
      BY <3>1, <3>3, <3>4 DEF AtQuery
    <3> QED
      BY <3>2, <3>5 DEF InHead
  <2> HIDE DEF v
  <2> QED
    BY <2>2, <2>3
<1> QED
  BY <1>1, <1>2

LEMMA IntoParameters ==
  ASSUME NEW x, NEW w, NEW r, NEW clean, Readable(r), Waiting(x), ~x.done,
         Unread(x, clean), Got(x, r, {"command", "url"}), w = BehindUrl(r)
  PROVE  /\ w # <<>> /\ Head(w) \in {SP, SEMI, "?", "#"}
         /\ \A y : Changes(x, y, {"st"}, {}) /\ y.st = Behind(Head(w)) => InHead(y, Tail(w), r, clean)
<1>0. IsSeq(r.parameters) /\ IsSeq(BehindParameters(r))
  BY Behinds
<1>1. CASE r.parameters = <<>>
  <2>1. w = BehindParameters(r)
    <3>1. Marked(SEMI, r.parameters) \o BehindParameters(r) = BehindParameters(r)
      BY <1>0, <1>1, MarkedNone
    <3> QED
      BY <3>1 DEF BehindUrl
  <2>2. /\ x.tmp = <<>> /\ None(x, {"query", "headers"})
        /\ clean => Got(x, r, {"parameters"}) /\ None(x, {"fragment"})
    BY <1>1 DEF Got, None, Unread
  <2> QED
    BY <2>1, <2>2, IntoQuery
<1>2. CASE r.parameters # <<>>
  <2> DEFINE v == r.parameters \o BehindParameters(r)
  <2>1. w = <<SEMI>> \o v
    <3>1. Marked(SEMI, r.parameters) \o BehindParameters(r) = <<SEMI>> \o (r.parameters \o BehindParameters(r))
      <4> DEFINE s == r.parameters
                 u == BehindParameters(r)
      <4>1. IsSeq(s) /\ IsSeq(u) /\ s # <<>>
        BY <1>0, <1>2
      <4> HIDE DEF s, u
      <4>2. Marked(SEMI, s) \o u = <<SEMI>> \o (s \o u)
        BY <4>1, MarkedSome
      <4> QED
        BY <4>2, Zenon DEF s, u
    <3> QED
      BY <3>1, Zenon DEF BehindUrl
  <2>2. w # <<>> /\ Head(w) = SEMI /\ Tail(w) = v
    <3>1. IsSeq(v)
      BY <1>0, Cat
    <3> QED
      BY <2>1, <3>1, Mark
  <2>3. ASSUME NEW y, Changes(x, y, {"st"}, {}), y.st = Behind(SEMI)
        PROVE  InHead(y, v, r, clean)
    <3>1. y.st = "PARAMETERS"
      BY <2>3, BehindMarks
    <3>2. Waiting(y) /\ ~y.done
      BY <2>3, Onward
    <3>3. /\ y.tmp = <<>> /\ None(y, {"query", "headers"}) /\ Got(y, r, {"command", "url"})
          /\ clean => None(y, {"fragment"}) /\ y.http.request.parameters = <<>>
      BY <2>3 DEF Changes, ParserFields, RequestFields, None, Got, Unread
    <3>4. Reading(<<>>, v, r.parameters, BehindParameters(r))
      BY <1>0, Begins
    <3>5. AtParameters(y, v, r, clean)
      BY <3>1, <3>3, <3>4 DEF AtParameters
    <3> QED
      BY <3>2, <3>5 DEF InHead
  <2> HIDE DEF v
  <2> QED
    BY <2>2, <2>3
<1> QED
  BY <1>1, <1>2

-----------------------------------------------------------------------------
(* t, of which s was read, is not at its end: c is next, and makes it s2. *)
More(s, w, t, u, c, s2, v) ==
  /\ w # <<>> /\ Head(w) = c /\ Tail(w) = v /\ s2 = Append(s, c)
  /\ Len(s) < Len(t) /\ Len(s) + 1 \in 1 .. Len(t) /\ c = t[Len(s) + 1]
  /\ Reading(s2, v, t, u) /\ Len(s2) = Len(s) + 1

LEMMA ReadMore ==
  ASSUME NEW s, NEW w, NEW t, NEW u, Reading(s, w, t, u)
  PROVE  (s = t /\ w = u) \/ \E c, s2, v : More(s, w, t, u, c, s2, v)
<1>1. SUFFICES ASSUME ~(s = t /\ w = u)
               PROVE  More(s, w, t, u, Head(w), Append(s, Head(w)), Tail(w))
  BY Zenon
<1>2. /\ Len(s) < Len(t) /\ w # <<>> /\ Len(s) + 1 \in 1 .. Len(t)
      /\ Head(w) = t[Len(s) + 1] /\ Reading(Append(s, Head(w)), Tail(w), t, u)
      /\ Len(Append(s, Head(w))) = Len(s) + 1
  BY <1>1, ReadOn
<1> QED
  BY <1>2, Zenon DEF More

LEMMA MoreIs ==
  ASSUME NEW s, NEW w, NEW t, NEW u, NEW c, NEW s2, NEW v, More(s, w, t, u, c, s2, v)
  PROVE  /\ Reading(s2, v, t, u) /\ Len(s2) = Len(s) + 1 /\ Len(s) < Len(t)
         /\ c = t[Len(s) + 1] /\ Len(s) + 1 \in 1 .. Len(t)
BY Zenon DEF More

LEMMA MoreIsNot ==
  ASSUME NEW s, NEW w, NEW t, NEW u, NEW c, NEW s2, NEW v, More(s, w, t, u, c, s2, v),
         NEW marks, FreeOf(t, marks)
  PROVE  c \notin marks
<1>1. c = t[Len(s) + 1] /\ Len(s) + 1 \in 1 .. Len(t)
  BY MoreIs
<1> QED
  BY <1>1 DEF FreeOf

LEMMA MoreLeads ==
  ASSUME NEW s, NEW w, NEW t, NEW u, NEW c, NEW s2, NEW v, More(s, w, t, u, c, s2, v),
         NEW x, NEW r, NEW clean, RequestChar(x, c).size = x.size,
         InHead(RequestChar(x, c), v, r, clean)
  PROVE  LeadsTo(x, w, r, clean, c, v)
<1>1. w # <<>> /\ Head(w) = c /\ Tail(w) = v
  BY Zenon DEF More
<1> QED
  BY <1>1, Zenon DEF LeadsTo

(* One more character of a part of the target, and the mark behind it. *)
Field(x, f) == x.http.request[f]

LEMMA FieldPut ==
  ASSUME NEW x, Shaped(x), NEW f \in RequestFields, NEW v
  PROVE  Field(Put(x, f, v), f) = v
<1>1. Put(x, f, v).http.request[f] = v
  <2> DEFINE r == [x.http.request EXCEPT ![f] = v]
             h == [x.http EXCEPT !.request = r]
  <2>1. r[f] = v
    BY DEF Shaped, ShapedHttp
  <2> HIDE DEF r
  <2>2. h.request = r
    BY DEF Shaped, ShapedHttp, HttpFields
  <2> HIDE DEF h
  <2>3. [x EXCEPT !.http = h].http = h
    BY DEF Shaped, ParserFields
  <2>4. Put(x, f, v) = [x EXCEPT !.http = h]
    BY DEF Put, h, r
  <2> QED
    BY <2>1, <2>2, <2>3, <2>4, Zenon
<1> QED
  BY <1>1, Zenon DEF Field

LEMMA PartGoesOn ==
  ASSUME NEW x, Waiting(x), NEW part \in Parts, NEW marks, NEW c, c \notin marks, c # "\r"
  PROVE  /\ Changes(x, TargetChar(x, c, part, marks), {}, {part})
         /\ \A s, w, t, u, s2, v : More(s, w, t, u, c, s2, v) /\ Field(x, part) = s =>
              Field(TargetChar(x, c, part, marks), part) = s2
<1> DEFINE y == TargetChar(x, c, part, marks)
           z == Append(Field(x, part), c)
<1>1. y = Put(x, part, z)
  <2>1. y = [x EXCEPT !.http.request[part] = Append(x.http.request[part], c)]
    BY Zenon DEF TargetChar
  <2> HIDE DEF y
  <2> QED
    BY <2>1, Zenon DEF Put, Field
<1>2. part \in RequestFields /\ Shaped(x)
  BY DEF Parts, RequestFields, Waiting
<1> HIDE DEF y, z
<1>3. Changes(x, y, {}, {part})
  BY <1>1, <1>2, ChangeRequest
<1>4. Field(y, part) = z
  BY <1>1, <1>2, FieldPut
<1>5. \A s, w, t, u, s2, v : More(s, w, t, u, c, s2, v) /\ Field(x, part) = s => z = s2
  BY Zenon DEF More, z
<1> QED
  BY <1>3, <1>4, <1>5, Zenon DEF y

LEMMA PartEnds ==
  ASSUME NEW x, Waiting(x), NEW part, NEW marks, NEW c \in marks, c # "\r"
  PROVE  /\ Changes(x, TargetChar(x, c, part, marks), {"st"}, {})
         /\ TargetChar(x, c, part, marks).st = Behind(c)
<1>1. TargetChar(x, c, part, marks) = Goto(x, Behind(c))
  BY Zenon DEF TargetChar
<1> QED
  BY <1>1, GotoChanges DEF Waiting

LEMMA FragmentReads ==
  ASSUME NEW x, NEW w, NEW r, NEW clean, Readable(r), Waiting(x), ~x.done,
         AtFragment(x, w, r, clean)
  PROVE  \E c, v : LeadsTo(x, w, r, clean, c, v)
<1> DEFINE t == r.fragment
           u == BehindTarget(r)
           read(c) == TargetChar(x, c, "fragment", {SP})
<1>1. PICK s : Reading(s, w, t, u) /\ (clean => Field(x, "fragment") = s)
  BY Zenon DEF AtFragment, Field
<1>2. \A c : RequestChar(x, c) = read(c)
  BY Dispatch DEF AtFragment, FragmentChar
<1>3. FreeOf(t, {SP, "\r"})
  BY DEF Readable, LineReadable
<1>4. CASE \E c, s2, v : More(s, w, t, u, c, s2, v)
  <2>1. PICK c, s2, v : More(s, w, t, u, c, s2, v)
    BY <1>4
  <2> DEFINE y == read(c)
  <2>2. c \notin {SP} /\ c # "\r" /\ "fragment" \in Parts
    BY <1>3, <2>1, MoreIsNot DEF Parts
  <2>3. Changes(x, y, {}, {"fragment"}) /\ (clean => Field(y, "fragment") = s2)
    BY <1>1, <2>1, <2>2, PartGoesOn
  <2>4. RequestChar(x, c) = y
    BY <1>2
  <2> HIDE DEF y, read, t, u
  <2>5. Waiting(y) /\ ~y.done /\ y.size = x.size
    BY <2>3, Onward
  <2>6. Reading(s2, v, t, u)
    BY <2>1, MoreIs
  <2>7. AtFragment(y, v, r, clean)
    <3>1. /\ y.st = "FRAGMENT" /\ y.tmp = <<>> /\ None(y, {"headers"})
          /\ Got(y, r, {"command", "url", "query"}) /\ (clean => Got(y, r, {"parameters"}))
      BY <2>3 DEF AtFragment, Changes, ParserFields, RequestFields, None, Got
    <3> QED
      BY <2>3, <2>6, <3>1, Zenon DEF AtFragment, Field, t, u
  <2>8. InHead(RequestChar(x, c), v, r, clean) /\ RequestChar(x, c).size = x.size
    BY <2>4, <2>5, <2>7 DEF InHead
  <2> QED
    BY <2>1, <2>8, MoreLeads
<1>5. CASE s = t /\ w = u
  <2>1. TargetRead(x, r, clean) /\ x.tmp = <<>> /\ None(x, {"headers"})
    BY <1>1, <1>5 DEF AtFragment, TargetRead, Got, Field
  <2>2. PICK c, v : c = Head(w) /\ v = Tail(w)
    OBVIOUS
  <2>3. /\ w # <<>> /\ c = SP
        /\ \A z : Changes(x, z, {"st"}, {}) /\ z.st = Behind(SP) => InHead(z, v, r, clean)
    BY <1>5, <2>1, <2>2, IntoVersion
  <2> DEFINE y == read(c)
  <2>4. Changes(x, y, {"st"}, {}) /\ y.st = Behind(c)
    BY <2>3, PartEnds, Marks
  <2>5. RequestChar(x, c) = y
    BY <1>2
  <2> HIDE DEF y
  <2>6. y.size = x.size /\ InHead(y, v, r, clean)
    BY <2>3, <2>4, Onward
  <2> QED
    BY <2>2, <2>3, <2>5, <2>6, Zenon DEF LeadsTo
<1> QED
  BY <1>1, <1>4, <1>5, ReadMore

LEMMA QueryReads ==
  ASSUME NEW x, NEW w, NEW r, NEW clean, Readable(r), Waiting(x), ~x.done,
         AtQuery(x, w, r, clean)
  PROVE  \E c, v : LeadsTo(x, w, r, clean, c, v)
<1> DEFINE t == r.query
           u == BehindQuery(r)
           read(c) == TargetChar(x, c, "query", {SP, SEMI, "#"})
<1>1. PICK s : Reading(s, w, t, u) /\ (Field(x, "query") = s)
  BY Zenon DEF AtQuery, Field
<1>2. \A c : RequestChar(x, c) = read(c)
  BY Dispatch DEF AtQuery, QueryChar
<1>3. FreeOf(t, {SP, SEMI, "#"} \cup {"\r"})
  BY DEF Readable, LineReadable, FreeOf
<1>4. CASE \E c, s2, v : More(s, w, t, u, c, s2, v)
  <2>1. PICK c, s2, v : More(s, w, t, u, c, s2, v)
    BY <1>4
  <2> DEFINE y == read(c)
  <2>2. c \notin {SP, SEMI, "#"} /\ c # "\r" /\ "query" \in Parts
    <3>1. c \notin {SP, SEMI, "#"} \cup {"\r"}
      BY <1>3, <2>1, MoreIsNot
    <3> QED
      BY <3>1 DEF Parts
  <2>3. Changes(x, y, {}, {"query"}) /\ Field(y, "query") = s2
    BY <1>1, <2>1, <2>2, PartGoesOn
  <2>4. RequestChar(x, c) = y
    BY <1>2
  <2> HIDE DEF y, read, t, u
  <2>5. Waiting(y) /\ ~y.done /\ y.size = x.size
    BY <2>3, Onward
  <2>6. Reading(s2, v, t, u)
    BY <2>1, MoreIs
  <2>7. AtQuery(y, v, r, clean)
    <3>1. /\ y.st = "QUERY" /\ y.tmp = <<>> /\ None(y, {"headers"}) /\ Got(y, r, {"command", "url"})
          /\ clean => Got(y, r, {"parameters"}) /\ None(y, {"fragment"})
      BY <2>3 DEF AtQuery, Changes, ParserFields, RequestFields, None, Got
    <3> QED
      BY <2>3, <2>6, <3>1, Zenon DEF AtQuery, Field, t, u
  <2>8. InHead(RequestChar(x, c), v, r, clean) /\ RequestChar(x, c).size = x.size
    BY <2>4, <2>5, <2>7 DEF InHead
  <2> QED
    BY <2>1, <2>8, MoreLeads
<1>5. CASE s = t /\ w = u
  <2>1. /\ x.tmp = <<>> /\ None(x, {"headers"}) /\ Got(x, r, {"command", "url", "query"})
        /\ clean => Got(x, r, {"parameters"}) /\ None(x, {"fragment"})
    BY <1>1, <1>5 DEF AtQuery, Got, None, Field
  <2>2. PICK c, v : c = Head(w) /\ v = Tail(w)
    OBVIOUS
  <2>3. /\ w # <<>> /\ c \in {SP, "#"}
        /\ \A z : Changes(x, z, {"st"}, {}) /\ z.st = Behind(c) => InHead(z, v, r, clean)
    BY <1>5, <2>1, <2>2, IntoFragment
  <2> DEFINE y == read(c)
  <2>4. Changes(x, y, {"st"}, {}) /\ y.st = Behind(c)
    <3>1. c \in {SP, SEMI, "#"} /\ c # "\r"
      BY <2>3, Marks, Zenon
    <3> QED
      BY <3>1, PartEnds
  <2>5. RequestChar(x, c) = y
    BY <1>2
  <2> HIDE DEF y
  <2>6. y.size = x.size /\ InHead(y, v, r, clean)
    BY <2>3, <2>4, Onward
  <2> QED
    BY <2>2, <2>3, <2>5, <2>6, Zenon DEF LeadsTo
<1> QED
  BY <1>1, <1>4, <1>5, ReadMore

LEMMA ParametersReads ==
  ASSUME NEW x, NEW w, NEW r, NEW clean, Readable(r), Waiting(x), ~x.done,
         AtParameters(x, w, r, clean)
  PROVE  \E c, v : LeadsTo(x, w, r, clean, c, v)
<1> DEFINE t == r.parameters
           u == BehindParameters(r)
           read(c) == TargetChar(x, c, "parameters", {SP, "?", "#"})
<1>1. PICK s : Reading(s, w, t, u) /\ (clean => Field(x, "parameters") = s)
  BY Zenon DEF AtParameters, Field
<1>2. \A c : RequestChar(x, c) = read(c)
  BY Dispatch DEF AtParameters, ParametersChar
<1>3. FreeOf(t, {SP, "?", "#"} \cup {"\r"})
  BY DEF Readable, LineReadable, FreeOf
<1>4. CASE \E c, s2, v : More(s, w, t, u, c, s2, v)
  <2>1. PICK c, s2, v : More(s, w, t, u, c, s2, v)
    BY <1>4
  <2> DEFINE y == read(c)
  <2>2. c \notin {SP, "?", "#"} /\ c # "\r" /\ "parameters" \in Parts
    <3>1. c \notin {SP, "?", "#"} \cup {"\r"}
      BY <1>3, <2>1, MoreIsNot
    <3> QED
      BY <3>1 DEF Parts
  <2>3. Changes(x, y, {}, {"parameters"}) /\ (clean => Field(y, "parameters") = s2)
    BY <1>1, <2>1, <2>2, PartGoesOn
  <2>4. RequestChar(x, c) = y
    BY <1>2
  <2> HIDE DEF y, read, t, u
  <2>5. Waiting(y) /\ ~y.done /\ y.size = x.size
    BY <2>3, Onward
  <2>6. Reading(s2, v, t, u)
    BY <2>1, MoreIs
  <2>7. AtParameters(y, v, r, clean)
    <3>1. /\ y.st = "PARAMETERS" /\ y.tmp = <<>> /\ None(y, {"query", "headers"})
          /\ Got(y, r, {"command", "url"}) /\ (clean => None(y, {"fragment"}))
      BY <2>3 DEF AtParameters, Changes, ParserFields, RequestFields, None, Got
    <3> QED
      BY <2>3, <2>6, <3>1, Zenon DEF AtParameters, Field, t, u
  <2>8. InHead(RequestChar(x, c), v, r, clean) /\ RequestChar(x, c).size = x.size
    BY <2>4, <2>5, <2>7 DEF InHead
  <2> QED
    BY <2>1, <2>8, MoreLeads
<1>5. CASE s = t /\ w = u
  <2>1. /\ x.tmp = <<>> /\ None(x, {"query", "headers"}) /\ Got(x, r, {"command", "url"})
        /\ clean => Got(x, r, {"parameters"}) /\ None(x, {"fragment"})
    BY <1>1, <1>5 DEF AtParameters, Got, None, Field
  <2>2. PICK c, v : c = Head(w) /\ v = Tail(w)
    OBVIOUS
  <2>3. /\ w # <<>> /\ c \in {SP, "?", "#"}
        /\ \A z : Changes(x, z, {"st"}, {}) /\ z.st = Behind(c) => InHead(z, v, r, clean)
    BY <1>5, <2>1, <2>2, IntoQuery
  <2> DEFINE y == read(c)
  <2>4. Changes(x, y, {"st"}, {}) /\ y.st = Behind(c)
    <3>1. c \in {SP, "?", "#"} /\ c # "\r"
      BY <2>3, Marks, Zenon
    <3> QED
      BY <3>1, PartEnds
  <2>5. RequestChar(x, c) = y
    BY <1>2
  <2> HIDE DEF y
  <2>6. y.size = x.size /\ InHead(y, v, r, clean)
    BY <2>3, <2>4, Onward
  <2> QED
    BY <2>2, <2>3, <2>5, <2>6, Zenon DEF LeadsTo
<1> QED
  BY <1>1, <1>4, <1>5, ReadMore

-----------------------------------------------------------------------------
LEMMA MarkLeads ==
  ASSUME NEW w, NEW c, NEW v, IsSeq(v), w = <<c>> \o v, NEW x, NEW r, NEW clean,
         RequestChar(x, c).size = x.size, InHead(RequestChar(x, c), v, r, clean)
  PROVE  LeadsTo(x, w, r, clean, c, v)
<1>1. w # <<>> /\ Head(w) = c /\ Tail(w) = v
  BY Mark
<1> QED
  BY <1>1, Zenon DEF LeadsTo

LEMMA FieldChanges ==
  ASSUME NEW x, Shaped(x), NEW f \in {"st", "tmp", "name", "value", "done", "digits"}, NEW v
  PROVE  Changes(x, [x EXCEPT ![f] = v], {f}, {}) /\ [x EXCEPT ![f] = v][f] = v
BY DEF Changes, Shaped, ParserFields

LEMMA UrlReads ==
  ASSUME NEW x, NEW w, NEW r, NEW clean, Readable(r), Waiting(x), ~x.done,
         AtUrl(x, w, r, clean)
  PROVE  \E c, v : LeadsTo(x, w, r, clean, c, v)
<1> DEFINE t == r.url
           u == BehindUrl(r)
           s == Field(x, "url")
           marks == {SP, SEMI, "?", "#"}
           read(c) == TargetChar(x, c, "url", marks)
<1>1. Reading(s, w, t, u) /\ (x.st = "URL_START" <=> s = <<>>)
  BY Zenon DEF AtUrl, Field
<1>2. /\ FreeOf(t, marks \cup {"\r"}) /\ Len(t) \in 1 .. UrlMax /\ t[1] = "/"
  BY DEF Readable, LineReadable, FreeOf
<1>3. "url" \in Parts /\ "url" \in RequestFields /\ Shaped(x) /\ UrlMax \in Nat
  BY HeadAssumption DEF Parts, RequestFields, Waiting
<1>4. \A z, s2, v : /\ Waiting(z) /\ ~z.done /\ z.st = "URL" /\ Reading(s2, v, t, u) /\ Len(s2) # 0
                    /\ Field(z, "url") = s2 /\ Changes(x, z, {"st"}, {"url"})
                    => InHead(z, v, r, clean)
  <2> SUFFICES ASSUME NEW z, NEW s2, NEW v, Waiting(z), ~z.done, z.st = "URL",
                      Reading(s2, v, t, u), Len(s2) # 0, Field(z, "url") = s2,
                      Changes(x, z, {"st"}, {"url"})
               PROVE  InHead(z, v, r, clean)
    BY Zenon
  <2>1. Unread(z, clean) /\ Got(z, r, {"command"})
    BY DEF AtUrl, Unread, None, Got, Changes, ParserFields, RequestFields
  <2>2. s2 # <<>>
    BY EmptySeq
  <2>3. z.st \in {"URL_START", "URL"} /\ z.st # "URL_START"
    OBVIOUS
  <2>4. AtUrl(z, v, r, clean)
    BY <2>1, <2>2, <2>3, Zenon DEF AtUrl, Field
  <2> QED
    BY <2>4 DEF InHead
<1>5. CASE x.st = "URL_START"
  <2>1. s = <<>> /\ Len(s) = 0
    BY <1>1, <1>5, EmptySeq
  <2>2. ~(s = t /\ w = u)
    BY <1>2, <2>1
  <2>3. PICK c, s2, v : More(s, w, t, u, c, s2, v)
    BY <1>1, <2>2, ReadMore
  <2>4. Reading(s2, v, t, u) /\ Len(s2) = 1 /\ c = "/" /\ s2 = Append(s, c)
    <3>1. /\ Reading(s2, v, t, u) /\ Len(s2) = Len(s) + 1 /\ c = t[Len(s) + 1]
      BY <2>3, MoreIs
    <3>2. s2 = Append(s, c)
      BY <2>3, Zenon DEF More
    <3> HIDE DEF s, t, u
    <3> QED
      BY <1>2, <2>1, <3>1, <3>2
  <2> DEFINE z == Goto(x, "URL")
             y == Put(z, "url", s2)
  <2>5. RequestChar(x, c) = y
    <3>1. RequestChar(x, c) = UrlStartChar(x, c)
      BY <1>5, Dispatch
    <3>2. UrlStartChar(x, c) = [x EXCEPT !.st = "URL", !.http.request.url = Append(@, c)]
      BY <2>4, Zenon DEF UrlStartChar, Expect
    <3>3. [x EXCEPT !.st = "URL", !.http.request.url = Append(s, c)] = Put(z, "url", Append(s, c))
      <4> HIDE DEF s
      <4> DEFINE a == Append(s, c)
      <4> HIDE DEF a
      <4>1. [x EXCEPT !.st = "URL", !.http.request.url = a] = Put(z, "url", a)
        BY <1>3 DEF Put, Goto, Shaped, ParserFields
      <4> QED
        BY <4>1 DEF a
    <3> QED
      BY <2>4, <3>1, <3>2, <3>3, Zenon DEF Field
  <2>6. Changes(x, z, {"st"}, {}) /\ z.st = "URL"
    BY <1>3, GotoChanges
  <2> HIDE DEF z, s, t, u
  <2>7. Changes(z, y, {}, {"url"}) /\ Field(y, "url") = s2
    <3>1. Shaped(z)
      BY <2>6 DEF Changes
    <3>2. Changes(z, y, {}, {"url"})
      BY <1>3, <3>1, ChangeRequest
    <3> QED
      BY <1>3, <3>1, <3>2, FieldPut
  <2> HIDE DEF y
  <2>8. Changes(x, y, {"st"}, {"url"}) /\ y.st = "URL"
    <3>1. Changes(x, z, {"st"}, {"url"}) /\ Changes(z, y, {"st"}, {"url"})
      BY <2>6, <2>7, Widen
    <3>2. y.st = z.st
      BY <2>7 DEF Changes, ParserFields
    <3> QED
      BY <2>6, <3>1, <3>2, Twice
  <2>9. Waiting(y) /\ ~y.done /\ y.size = x.size
    <3>1. "body" \notin {"url"}
      OBVIOUS
    <3> QED
      BY <2>8, <3>1, Onward
  <2>10. InHead(y, v, r, clean)
    <3>1. Len(s2) # 0
      BY <2>4
    <3> QED
      BY <1>4, <2>4, <2>7, <2>8, <2>9, <3>1, Zenon
  <2> QED
    BY <2>3, <2>5, <2>9, <2>10, MoreLeads
<1>6. CASE x.st = "URL" /\ \E c, s2, v : More(s, w, t, u, c, s2, v)
  <2>1. PICK c, s2, v : More(s, w, t, u, c, s2, v)
    BY <1>6
  <2> DEFINE y == read(c)
  <2>2. c \notin marks /\ c # "\r"
    <3>1. c \notin marks \cup {"\r"}
      BY <1>2, <2>1, MoreIsNot
    <3> QED
      BY <3>1
  <2>3. Changes(x, y, {}, {"url"}) /\ Field(y, "url") = s2
    BY <1>3, <2>1, <2>2, PartGoesOn
  <2>4. RequestChar(x, c) = UrlChar(x, c)
    BY <1>6, Dispatch
  <2>5. UrlChar(x, c) = IF y.rc = 0 /\ Len(Field(y, "url")) > UrlMax
                        THEN Refuse(y, EERIS_4XX, 414, 10) ELSE y
    BY Zenon DEF UrlChar, Field
  <2> HIDE DEF y, read, marks, s, t, u
  <2>6. Reading(s2, v, t, u) /\ Len(s2) # 0 /\ Len(s2) <= UrlMax
    <3>1. Reading(s2, v, t, u) /\ Len(s2) = Len(s) + 1 /\ Len(s) < Len(t)
      BY <2>1, MoreIs
    <3>2. Len(s) \in Nat
      BY <1>1, LenIsNat DEF Reading
    <3> QED
      BY <1>2, <1>3, <3>1, <3>2
  <2>7. UrlChar(x, c) = y
    <3>1. ~(Len(s2) > UrlMax)
      <4>1. Len(s2) \in Nat
        BY <2>6, LenIsNat DEF Reading
      <4> QED
        BY <1>3, <2>6, <4>1
    <3> QED
      BY <2>3, <2>5, <3>1, Zenon
  <2>8. Waiting(y) /\ ~y.done /\ y.size = x.size
    <3>1. "body" \notin {"url"}
      OBVIOUS
    <3> QED
      BY <2>3, <3>1, Onward
  <2>9. InHead(y, v, r, clean)
    <3>1. Changes(x, y, {"st"}, {"url"}) /\ y.st = "URL"
      <4>1. Changes(x, y, {"st"}, {"url"})
        BY <2>3, Widen
      <4> QED
        BY <1>6, <2>3, <4>1 DEF Changes, ParserFields
    <3> QED
      BY <1>4, <2>3, <2>6, <2>8, <3>1, Zenon
  <2> QED
    BY <2>1, <2>4, <2>7, <2>8, <2>9, MoreLeads
<1>7. CASE x.st = "URL" /\ s = t /\ w = u
  <2>1. Unread(x, clean) /\ Got(x, r, {"command", "url"})
    BY <1>7 DEF AtUrl, Got, Field
  <2>2. PICK c, v : c = Head(w) /\ v = Tail(w)
    OBVIOUS
  <2>3. /\ w # <<>> /\ c \in marks
        /\ \A z : Changes(x, z, {"st"}, {}) /\ z.st = Behind(c) => InHead(z, v, r, clean)
    BY <1>7, <2>1, <2>2, IntoParameters
  <2> DEFINE y == read(c)
  <2>4. Changes(x, y, {"st"}, {}) /\ y.st = Behind(c)
    <3>1. c # "\r"
      BY <2>3, Marks, Zenon
    <3> QED
      BY <2>3, <3>1, PartEnds
  <2>5. RequestChar(x, c) = UrlChar(x, c)
    BY <1>7, Dispatch
  <2>6. UrlChar(x, c) = IF y.rc = 0 /\ Len(Field(y, "url")) > UrlMax
                        THEN Refuse(y, EERIS_4XX, 414, 10) ELSE y
    BY Zenon DEF UrlChar, Field
  <2> HIDE DEF y, marks, read
  <2>7. Field(y, "url") = t
    <3>1. Field(y, "url") = s
      BY <1>3, <2>4 DEF Changes, Field
    <3> QED
      BY <1>7, <3>1
  <2>8. UrlChar(x, c) = y
    <3>1. ~(Len(t) > UrlMax)
      BY <1>2, <1>3
    <3> QED
      BY <2>6, <2>7, <3>1, Zenon
  <2>9. y.size = x.size /\ InHead(y, v, r, clean)
    BY <2>3, <2>4, Onward
  <2> QED
    BY <2>2, <2>3, <2>5, <2>8, <2>9, Zenon DEF LeadsTo
<1>8. x.st = "URL_START" \/ x.st = "URL"
  BY DEF AtUrl
<1> QED
  BY <1>1, <1>5, <1>6, <1>7, <1>8, ReadMore

-----------------------------------------------------------------------------
(* The version: eight characters, of which no two versions have the same. *)
LEMMA VersionLetters ==
  ASSUME NEW n \in Versions
  PROVE  LET t == VersionText(n)
         IN /\ IsSeq(t) /\ Len(t) = 8
            /\ t[1] = "H" /\ t[2] = "T" /\ t[3] = "T" /\ t[4] = "P" /\ t[5] = "/" /\ t[7] = "."
            /\ IsDigit(t[6]) /\ IsDigit(t[8])
            /\ \A m \in Versions : VersionText(m) = t => m = n
<1> DEFINE p == <<"H", "T", "T", "P", "/">>
<1>1. IsSeq(p) /\ Len(p) = 5 /\ p[1] = "H" /\ p[2] = "T" /\ p[3] = "T" /\ p[4] = "P" /\ p[5] = "/"
  <2>1. p \in Seq({"H", "T", "P", "/"})
    OBVIOUS
  <2>2. Len(p) = 5 /\ p[1] = "H" /\ p[2] = "T" /\ p[3] = "T" /\ p[4] = "P" /\ p[5] = "/"
    OBVIOUS
  <2> HIDE DEF p
  <2> QED
    BY <2>1, <2>2 DEF IsSeq
<1>2. ASSUME NEW m \in Versions
      PROVE  /\ IsSeq(Dotted(m)) /\ Len(Dotted(m)) = 3 /\ Dotted(m)[2] = "."
             /\ m = 9 => Dotted(m)[1] = "0" /\ Dotted(m)[3] = "9"
             /\ m = 11 => Dotted(m)[1] = "1" /\ Dotted(m)[3] = "1"
             /\ m = 10 => Dotted(m)[1] = "1" /\ Dotted(m)[3] = "0"
  <2>0. m \in {9, 10, 11}
    BY DEF Versions
  <2>1. \A a, b, c : <<a, b, c>> \in Seq({a, b, c}) /\ Len(<<a, b, c>>) = 3
    OBVIOUS
  <2>2. \A a, b, c : <<a, b, c>>[1] = a /\ <<a, b, c>>[2] = b /\ <<a, b, c>>[3] = c
    OBVIOUS
  <2>3. \A a, b, c : IsSeq(<<a, b, c>>)
    BY <2>1 DEF IsSeq
  <2>4. CASE m = 9
    <3>1. Dotted(m) = <<"0", ".", "9">>
      BY <2>4 DEF Dotted
    <3> QED
      BY <2>1, <2>2, <2>3, <2>4, <3>1
  <2>5. CASE m = 11
    <3>1. Dotted(m) = <<"1", ".", "1">>
      BY <2>5 DEF Dotted
    <3> QED
      BY <2>1, <2>2, <2>3, <2>5, <3>1
  <2>6. CASE m = 10
    <3>1. Dotted(m) = <<"1", ".", "0">>
      BY <2>6 DEF Dotted
    <3> QED
      BY <2>1, <2>2, <2>3, <2>6, <3>1
  <2> QED
    BY <2>0, <2>4, <2>5, <2>6
<1> HIDE DEF p
<1>3. ASSUME NEW m \in Versions
      PROVE  /\ IsSeq(VersionText(m)) /\ Len(VersionText(m)) = 8
             /\ \A i \in 1 .. 5 : VersionText(m)[i] = p[i]
             /\ \A i \in 6 .. 8 : VersionText(m)[i] = Dotted(m)[i - 5]
  <2> DEFINE q == Dotted(m)
             t == p \o q
  <2>1. IsSeq(q) /\ Len(q) = 3
    BY <1>2
  <2> HIDE DEF q
  <2>2. IsSeq(t) /\ Len(t) = 8 /\ \A i \in 1 .. 8 : t[i] = IF i <= 5 THEN p[i] ELSE q[i - 5]
    <3>1. /\ IsSeq(t) /\ Len(t) = Len(p) + Len(q)
          /\ \A i \in 1 .. Len(p) + Len(q) : t[i] = IF i <= Len(p) THEN p[i] ELSE q[i - Len(p)]
      BY <1>1, <2>1, Cat
    <3> HIDE DEF t
    <3> QED
      BY <1>1, <2>1, <3>1
  <2>3. VersionText(m) = t
    BY DEF VersionText, p, q
  <2> HIDE DEF t
  <2> QED
    BY <2>2, <2>3 DEF q
<1>4. IsDigit("0") /\ IsDigit("1") /\ IsDigit("9")
  <2>1. CodeOf["1"] = 49 /\ "1" \in DOMAIN CodeOf /\ "0" \in DOMAIN CodeOf /\ "9" \in DOMAIN CodeOf
    <3>1. Printable[18] = "1" /\ Printable[17] = "0" /\ Printable[26] = "9"
      BY DEF Printable
    <3> QED
      BY <3>1, CodeAt
  <2> QED
    BY <2>1, Codes DEF IsDigit, Between
<1>5. ASSUME NEW m \in Versions
      PROVE  LET t == VersionText(m) IN
             /\ t[1] = "H" /\ t[2] = "T" /\ t[3] = "T" /\ t[4] = "P" /\ t[5] = "/" /\ t[7] = "."
             /\ t[6] = Dotted(m)[1] /\ t[8] = Dotted(m)[3]
  <2>1. 6 - 5 = 1 /\ 7 - 5 = 2 /\ 8 - 5 = 3
    OBVIOUS
  <2> QED
    BY <1>1, <1>2, <1>3, <2>1
<1>6. ASSUME NEW m \in Versions
      PROVE  IsDigit(VersionText(m)[6]) /\ IsDigit(VersionText(m)[8])
  <2>1. Dotted(m)[1] \in {"0", "1"} /\ Dotted(m)[3] \in {"0", "1", "9"}
    BY <1>2 DEF Versions
  <2> QED
    BY <1>4, <1>5, <2>1
<1>7. ASSUME NEW m \in Versions, VersionText(m) = VersionText(n) PROVE m = n
  <2>1. Dotted(m)[1] = Dotted(n)[1] /\ Dotted(m)[3] = Dotted(n)[3]
    BY <1>5, <1>7
  <2>2. "0" # "1" /\ "1" # "9" /\ "0" # "9"
    OBVIOUS
  <2> QED
    BY <1>2, <2>1, <2>2 DEF Versions
<1> QED
  BY <1>3, <1>5, <1>6, <1>7

LEMMA VersionNext ==
  /\ \A n \in {0, 1, 2, 3, 4, 6} : VersionStates[n + 1] \in DOMAIN Protocol
  /\ \A n \in {0, 1, 2, 3, 4, 6} : Protocol[VersionStates[n + 1]][2] = VersionStates[n + 2]
  /\ VersionStates[6] = "MAJOR" /\ VersionStates[7] = "DOT" /\ VersionStates[8] = "MINOR"
  /\ VersionStates[1] = "H" /\ "MAJOR" \notin DOMAIN Protocol
  /\ \A n \in 0 .. 6 : VersionStates[n + 1] \in {"H", "HT", "HTT", "HTTP", "SLASH", "MAJOR", "DOT"}
  /\ Protocol[VersionStates[1]][1] = "H" /\ Protocol[VersionStates[2]][1] = "T"
  /\ Protocol[VersionStates[3]][1] = "T" /\ Protocol[VersionStates[4]][1] = "P"
  /\ Protocol[VersionStates[5]][1] = "/" /\ Protocol[VersionStates[7]][1] = "."
BY DEF VersionStates, Protocol

LEMMA ProtocolReads ==
  ASSUME NEW x, NEW n \in 0 .. 6, x.st = VersionStates[n + 1], Waiting(x),
         n = 0 => x.tmp = <<>>, NEW v \in Versions
  PROVE  RequestChar(x, VersionText(v)[n + 1]) = Store(x, VersionText(v)[n + 1], VersionStates[n + 2])
<1> DEFINE c == VersionText(v)[n + 1]
           begun == IF x.st = "H" THEN [x EXCEPT !.tmp = <<>>] ELSE x
<1>1. RequestChar(x, c) = ProtocolChar(x, c)
  <2>1. x.st \in {"H", "HT", "HTT", "HTTP", "SLASH", "MAJOR", "DOT"}
    BY VersionNext
  <2> HIDE DEF c
  <2> QED
    BY <2>1, Dispatch
<1>2. begun = x
  <2>1. CASE x.st = "H"
    <3>1. n = 0
      BY <2>1 DEF VersionStates
    <3>2. [x EXCEPT !.tmp = <<>>] = x
      BY <3>1 DEF Waiting, Shaped, ParserFields
    <3> QED
      BY <2>1, <3>2
  <2>2. CASE x.st # "H"
    BY <2>2
  <2> QED
    BY <2>1, <2>2
<1>3. CASE n = 5
  <2>1. x.st = "MAJOR" /\ VersionStates[n + 2] = "DOT"
    BY <1>3, VersionNext
  <2>2. IsDigit(c)
    BY <1>3, VersionLetters
  <2> HIDE DEF c
  <2>3. ProtocolChar(x, c) = Store(x, c, "DOT")
    BY <2>1, <2>2, Zenon DEF ProtocolChar, Expect
  <2> QED
    BY <1>1, <2>1, <2>3 DEF c
<1>4. CASE n # 5
  <2>1. n \in {0, 1, 2, 3, 4, 6}
    BY <1>4
  <2>2. Protocol[x.st][2] = VersionStates[n + 2] /\ x.st # "MAJOR"
    BY <2>1, VersionNext
  <2>3. c = Protocol[x.st][1]
    <3>1. n + 1 \in {1, 2, 3, 4, 5, 7}
      BY <2>1
    <3>2. /\ VersionText(v)[1] = "H" /\ VersionText(v)[2] = "T" /\ VersionText(v)[3] = "T"
          /\ VersionText(v)[4] = "P" /\ VersionText(v)[5] = "/" /\ VersionText(v)[7] = "."
      BY VersionLetters
    <3> QED
      BY <3>1, <3>2, VersionNext
  <2> HIDE DEF c, begun
  <2>4. ProtocolChar(x, c) = Store(begun, c, Protocol[x.st][2])
    BY <2>2, <2>3, Zenon DEF ProtocolChar, Expect, begun
  <2> QED
    BY <1>1, <1>2, <2>2, <2>4 DEF c
<1> QED
  BY <1>3, <1>4

-----------------------------------------------------------------------------
LEMMA VersionReads ==
  ASSUME NEW x, NEW w, NEW r, NEW clean, Readable(r), Waiting(x), ~x.done,
         AtVersion(x, w, r, clean)
  PROVE  \E c, v : LeadsTo(x, w, r, clean, c, v)
<1> DEFINE t == VersionText(r.version)
           u == LineEnd(r, 0)
           s == x.tmp
           n == Len(s)
<1>1. /\ Reading(s, w, t, u) /\ n \in 0 .. 7 /\ x.st = VersionStates[n + 1]
      /\ r.version \in Versions /\ Shaped(x) /\ IsSeq(s)
  BY DEF AtVersion, Readable, LineReadable, Waiting, Reading
<1>2. Len(t) = 8 /\ IsDigit(t[8])
  BY <1>1, VersionLetters
<1>3. PICK c, s2, v : More(s, w, t, u, c, s2, v)
  <2>1. ~(s = t /\ w = u)
    BY <1>1, <1>2
  <2> HIDE DEF s, t, u
  <2> QED
    BY <1>1, <2>1, ReadMore
<1>4. Reading(s2, v, t, u) /\ Len(s2) = n + 1 /\ c = t[n + 1]
  BY <1>3, MoreIs
<1>5. s2 = Append(s, c)
  BY <1>3, Zenon DEF More
<1> HIDE DEF s, t, u
<1>6. CASE n # 7
  <2> DEFINE y == Store(x, c, VersionStates[n + 2])
  <2>1. n \in 0 .. 6 /\ (n = 0 => s = <<>>)
    BY <1>1, <1>6, EmptySeq DEF IsSeq
  <2>2. RequestChar(x, c) = y
    BY <1>1, <1>4, <2>1, ProtocolReads DEF s, t
  <2>3. Changes(x, y, {"tmp", "st"}, {}) /\ y.st = VersionStates[n + 2] /\ y.tmp = s2
    <3>1. Changes(x, y, {"tmp", "st"}, {})
      BY <1>1, StoreChanges
    <3>2. y.st = VersionStates[n + 2]
      BY <1>1, StoreChanges
    <3>3. y.tmp = Append(x.tmp, c)
      BY <1>1, StoreChanges
    <3> QED
      BY <1>5, <3>1, <3>2, <3>3, Zenon DEF s
  <2> HIDE DEF y
  <2>4. Waiting(y) /\ ~y.done /\ y.size = x.size
    BY <2>3, Onward
  <2>5. AtVersion(y, v, r, clean)
    <3>1. TargetRead(y, r, clean) /\ None(y, {"headers"})
      BY <2>3 DEF AtVersion, TargetRead, None, Got, Changes, RequestFields
    <3>2. Len(s2) \in 0 .. 7 /\ n + 2 = Len(s2) + 1
      <4> HIDE DEF n
      <4> QED
        BY <1>4, <2>1
    <3> QED
      BY <1>4, <2>3, <3>1, <3>2, Zenon DEF AtVersion, t, u
  <2>6. InHead(RequestChar(x, c), v, r, clean) /\ RequestChar(x, c).size = x.size
    BY <2>2, <2>4, <2>5 DEF InHead
  <2> QED
    BY <1>3, <2>6, MoreLeads
<1>7. CASE n = 7
  <2> DEFINE z == Goto(x, "TITLE_CR")
             q == [z EXCEPT !.tmp = <<>>]
             y == Put(q, "version", r.version)
  <2>1. s2 = t /\ v = u /\ c = t[8]
    <3>1. Len(s2) = Len(t)
      BY <1>2, <1>4, <1>7
    <3> QED
      BY <1>4, <1>7, <3>1, Ended
  <2>2. VersionOf(Append(x.tmp, c)) = {r.version}
    <3>1. Append(x.tmp, c) = VersionText(r.version)
      BY <1>5, <2>1, Zenon DEF s, t
    <3>2. \A m \in Versions : VersionText(m) = VersionText(r.version) <=> m = r.version
      BY <1>1, VersionLetters
    <3>3. VersionOf(VersionText(r.version)) = {r.version}
      BY <1>1, <3>2 DEF VersionOf
    <3> QED
      BY <3>1, <3>3, Zenon
  <2>3. RequestChar(x, c) = y
    <3>1. x.st = "MINOR"
      BY <1>1, <1>7, VersionNext
    <3>2. RequestChar(x, c) = MinorChar(x, c)
      BY <3>1, Dispatch
    <3>3. (CHOOSE m \in {r.version} : TRUE) = r.version /\ {r.version} # {}
      OBVIOUS
    <3>4. MinorChar(x, c) = [x EXCEPT !.tmp = <<>>, !.st = "TITLE_CR",
                                      !.http.request.version = r.version]
      <4> DEFINE known == VersionOf(Append(x.tmp, c))
                 read == [x EXCEPT !.tmp = <<>>]
                 got == [read EXCEPT !.st = "TITLE_CR",
                                     !.http.request.version = CHOOSE m \in known : TRUE]
      <4>1. known # {} /\ (CHOOSE m \in known : TRUE) = r.version
        <5> HIDE DEF known
        <5>1. known = {r.version}
          BY <2>2 DEF known
        <5> QED
          BY <3>3, <5>1
      <4>2. IsDigit(c)
        BY <1>2, <2>1
      <4>3. MinorChar(x, c) = got
        <5> HIDE DEF got, known, read
        <5>1. known # {}
          BY <4>1
        <5> QED
          BY <4>2, <5>1, Zenon DEF MinorChar, got, known, read
      <4> HIDE DEF known
      <4>4. got = [x EXCEPT !.tmp = <<>>, !.st = "TITLE_CR", !.http.request.version = r.version]
        BY <1>1, <4>1 DEF Shaped, ParserFields
      <4> QED
        BY <4>3, <4>4
    <3>5. [x EXCEPT !.tmp = <<>>, !.st = "TITLE_CR", !.http.request.version = r.version] = y
      BY <1>1 DEF Put, Goto, Shaped, ParserFields
    <3> QED
      BY <3>2, <3>4, <3>5
  <2>4. Changes(x, z, {"st"}, {}) /\ z.st = "TITLE_CR"
    BY <1>1, GotoChanges
  <2> HIDE DEF z
  <2>5. Changes(z, q, {"tmp"}, {})
    <3>1. Shaped(z)
      BY <2>4 DEF Changes
    <3> QED
      BY <3>1, FieldChanges
  <2> HIDE DEF q
  <2>6. Changes(q, y, {}, {"version"}) /\ Field(y, "version") = r.version
    <3>1. Shaped(q) /\ "version" \in RequestFields
      BY <2>5 DEF Changes, RequestFields
    <3>2. Changes(q, y, {}, {"version"})
      BY <3>1, ChangeRequest
    <3> QED
      BY <3>1, <3>2, FieldPut
  <2> HIDE DEF y
  <2>7. Changes(x, y, {"st", "tmp"}, {"version"}) /\ y.st = "TITLE_CR"
    <3>1. Changes(x, z, {"st", "tmp"}, {"version"}) /\ Changes(z, q, {"st", "tmp"}, {"version"})
          /\ Changes(q, y, {"st", "tmp"}, {"version"})
      BY <2>4, <2>5, <2>6, Widen
    <3>2. Changes(x, y, {"st", "tmp"}, {"version"})
      BY <3>1, Twice
    <3>3. y.st = z.st
      BY <2>5, <2>6 DEF Changes, ParserFields
    <3> QED
      BY <2>4, <3>2, <3>3
  <2>8. Waiting(y) /\ ~y.done /\ y.size = x.size
    <3>1. "body" \notin {"version"}
      OBVIOUS
    <3> QED
      BY <2>7, <3>1, Onward
  <2>9. AtTitle(y, v, r, clean)
    <3>1. TargetRead(y, r, clean) /\ None(y, {"headers"})
      BY <2>7 DEF AtVersion, TargetRead, None, Got, Changes, RequestFields
    <3>2. LineRead(y, r, clean)
      BY <2>6, <3>1, Zenon DEF LineRead, Got, Field
    <3> QED
      BY <2>1, <2>7, <3>1, <3>2, Zenon DEF AtTitle, u
  <2>10. InHead(RequestChar(x, c), v, r, clean) /\ RequestChar(x, c).size = x.size
    BY <2>3, <2>8, <2>9 DEF InHead
  <2> QED
    BY <1>3, <2>10, MoreLeads
<1> QED
  BY <1>6, <1>7

-----------------------------------------------------------------------------
(* Fields of the parser that a step changes, of a request that it leaves. *)
LEMMA LineStays ==
  ASSUME NEW x, NEW y, NEW r, NEW clean, NEW P, P \subseteq {"st", "tmp", "name", "value", "done"}, NEW R,
         R \subseteq {"headers"}, Changes(x, y, P, R), LineRead(x, r, clean)
  PROVE  LineRead(y, r, clean)
BY DEF LineRead, TargetRead, Got, Changes, RequestFields

LEMMA NewestNone ==
  /\ \A hs : Newest(hs, 0) = <<>>
  /\ \A hs, k : k \in Nat => IsSeq(Newest(hs, k)) /\ Len(Newest(hs, k)) = k
<1>1. ASSUME NEW hs, NEW k \in Nat PROVE IsSeq(Newest(hs, k)) /\ Len(Newest(hs, k)) = k
  <2> DEFINE S == {hs[i] : i \in 1 .. k}
             n == Newest(hs, k)
  <2>1. n \in [1 .. k -> S]
    <3>1. \A i \in 1 .. k : k + 1 - i \in 1 .. k
      OBVIOUS
    <3>2. \A i \in 1 .. k : hs[k + 1 - i] \in S
      BY <3>1
    <3> HIDE DEF S
    <3> QED
      BY <3>2 DEF Newest
  <2> HIDE DEF n, S
  <2>2. n \in Seq(S) /\ Len(n) = k
    BY <2>1
  <2> QED
    BY <2>2 DEF IsSeq, n
<1>2. ASSUME NEW hs PROVE Newest(hs, 0) = <<>>
  <2> DEFINE n == Newest(hs, 0)
  <2>1. IsSeq(n) /\ Len(n) = 0
    BY <1>1
  <2> HIDE DEF n
  <2>2. n = <<>>
    BY <2>1, EmptySeq DEF IsSeq
  <2> QED
    BY <2>2 DEF n
<1> QED
  BY <1>1, <1>2

LEMMA NewestPushed ==
  ASSUME NEW hs, NEW k \in Nat, hs[k + 1] = [name |-> hs[k + 1].name, value |-> hs[k + 1].value]
  PROVE  PushHeader(Newest(hs, k), hs[k + 1].name, hs[k + 1].value) = Newest(hs, k + 1)
<1> DEFINE h == hs[k + 1]
           s == <<h>>
           n == Newest(hs, k)
           m == Newest(hs, k + 1)
           p == s \o n
<1>1. PushHeader(n, h.name, h.value) = p
  <2>1. [name |-> h.name, value |-> h.value] = h
    OBVIOUS
  <2> HIDE DEF h, n
  <2> QED
    BY <2>1, Zenon DEF PushHeader
<1>2. /\ IsSeq(n) /\ Len(n) = k /\ \A i \in 1 .. k : n[i] = hs[k + 1 - i]
  BY NewestNone DEF Newest
<1>3. /\ IsSeq(m) /\ Len(m) = k + 1 /\ \A i \in 1 .. k + 1 : m[i] = hs[(k + 1) + 1 - i]
  <2>1. k + 1 \in Nat
    OBVIOUS
  <2>2. IsSeq(m) /\ Len(m) = k + 1
    BY <2>1, NewestNone
  <2>3. m = [i \in 1 .. k + 1 |-> hs[(k + 1) + 1 - i]]
    BY Zenon DEF Newest
  <2> HIDE DEF m
  <2> QED
    BY <2>2, <2>3
<1>4. IsSeq(s) /\ Len(s) = 1 /\ s[1] = h
  BY One
<1> HIDE DEF s, n, m
<1>5. IsSeq(p) /\ Len(p) = 1 + k /\ \A i \in 1 .. 1 + k : p[i] = IF i <= 1 THEN s[i] ELSE n[i - 1]
  <2>1. /\ IsSeq(p) /\ Len(p) = Len(s) + Len(n)
        /\ \A i \in 1 .. Len(s) + Len(n) : p[i] = IF i <= Len(s) THEN s[i] ELSE n[i - Len(s)]
    BY <1>2, <1>4, Cat
  <2> HIDE DEF p
  <2> QED
    BY <1>2, <1>4, <2>1
<1> HIDE DEF p
<1>6. \A i \in 1 .. k + 1 : p[i] = m[i]
  <2> SUFFICES ASSUME NEW i \in 1 .. k + 1 PROVE p[i] = m[i]
    OBVIOUS
  <2>1. CASE i = 1
    <3>1. (k + 1) + 1 - i = k + 1
      BY <2>1
    <3>2. m[i] = h
      BY <1>3, <3>1 DEF h
    <3>3. p[i] = h
      BY <1>4, <1>5, <2>1
    <3> QED
      BY <3>2, <3>3
  <2>2. CASE i # 1
    <3>1. i - 1 \in 1 .. k /\ k + 1 - (i - 1) = (k + 1) + 1 - i
      BY <2>2
    <3>2. p[i] = n[i - 1]
      BY <1>5, <2>2
    <3>3. n[i - 1] = hs[(k + 1) + 1 - i]
      BY <1>2, <3>1
    <3> QED
      BY <1>3, <3>2, <3>3
  <2> QED
    BY <2>1, <2>2
<1>7. p = m
  <2>1. Len(p) = Len(m) /\ \A i \in 1 .. Len(p) : p[i] = m[i]
    BY <1>3, <1>5, <1>6
  <2> QED
    BY <1>3, <1>5, <2>1, SameSeq
<1> QED
  BY <1>1, <1>7 DEF m, n, h

(* The head's lines: what a header is, and what is behind it. *)
LEMMA HeaderParts ==
  ASSUME NEW r, Readable(r), NEW k \in 0 .. Len(r.headers) - 1
  PROVE  LET h == r.headers[k + 1]
             u == <<":">> \o (<<SP>> \o (h.value \o LineEnd(r, k + 1)))
         IN /\ HeaderReadable(h) /\ IsSeq(h.name) /\ IsSeq(h.value) /\ IsSeq(u)
            /\ IsSeq(<<SP>> \o (h.value \o LineEnd(r, k + 1)))
            /\ IsSeq(h.value \o LineEnd(r, k + 1)) /\ IsSeq(LineEnd(r, k + 1))
            /\ IsSeq(<<"\n">> \o BehindLines(r, k + 1)) /\ IsSeq(BehindLines(r, k + 1))
            /\ BehindLines(r, k) = h.name \o u
            /\ k + 1 \in 0 .. Len(r.headers) /\ k \in Nat
<1> DEFINE h == r.headers[k + 1]
<1>0. Len(r.headers) \in Nat /\ k + 1 \in 1 .. Len(r.headers) /\ k + 1 \in 0 .. Len(r.headers) /\ k \in Nat
  BY LinesLeft DEF Readable
<1>1. HeaderReadable(h) /\ IsSeq(h.name) /\ IsSeq(h.value)
  BY <1>0 DEF Readable, HeadersReadable, HeaderReadable, FreeOf
<1>2. IsSeq(BehindLines(r, k + 1))
  BY <1>0, LinesLeft DEF Readable
<1>3. \A c, v : IsSeq(v) => IsSeq(<<c>> \o v)
  BY Mark
<1>4. IsSeq(<<"\n">> \o BehindLines(r, k + 1)) /\ IsSeq(LineEnd(r, k + 1))
  BY <1>2, <1>3 DEF LineEnd
<1> HIDE DEF h
<1>5. IsSeq(h.value \o LineEnd(r, k + 1))
  BY <1>1, <1>4, Cat
<1>6. IsSeq(<<SP>> \o (h.value \o LineEnd(r, k + 1)))
  <2> DEFINE v == h.value \o LineEnd(r, k + 1)
  <2>1. IsSeq(v)
    BY <1>5
  <2> HIDE DEF v
  <2>2. IsSeq(<<SP>> \o v)
    BY <1>3, <2>1
  <2> QED
    BY <2>2 DEF v
<1>7. IsSeq(<<":">> \o (<<SP>> \o (h.value \o LineEnd(r, k + 1))))
  <2> DEFINE v == <<SP>> \o (h.value \o LineEnd(r, k + 1))
  <2>1. IsSeq(v)
    BY <1>6
  <2> HIDE DEF v
  <2>2. IsSeq(<<":">> \o v)
    BY <1>3, <2>1
  <2> QED
    BY <2>2 DEF v
<1>8. BehindLines(r, k) = h.name \o (<<":">> \o (<<SP>> \o (h.value \o LineEnd(r, k + 1))))
  BY LinesLeft DEF Readable, h
<1> QED
  BY <1>0, <1>1, <1>2, <1>4, <1>5, <1>6, <1>7, <1>8 DEF h

LEMMA TitleReads ==
  ASSUME NEW x, NEW w, NEW r, NEW clean, Readable(r), Waiting(x), ~x.done,
         AtTitle(x, w, r, clean)
  PROVE  \E c, v : LeadsTo(x, w, r, clean, c, v)
<1>1. IsSeq(BehindLines(r, 0)) /\ IsSeq(<<"\n">> \o BehindLines(r, 0)) /\ Shaped(x)
  BY Behinds, Mark DEF Waiting
<1>2. CASE x.st = "TITLE_CR" /\ w = LineEnd(r, 0)
  <2> DEFINE v == <<"\n">> \o BehindLines(r, 0)
             y == Goto(x, "TITLE_LF")
  <2>1. w = <<"\r">> \o v
    BY <1>2, Zenon DEF LineEnd
  <2>2. RequestChar(x, "\r") = y
    <3>1. RequestChar(x, "\r") = TitleChar(x, "\r")
      BY <1>2, Dispatch
    <3>2. TitleChar(x, "\r") = y
      BY <1>2, Zenon DEF TitleChar, Expect
    <3> QED
      BY <3>1, <3>2
  <2>3. Changes(x, y, {"st"}, {}) /\ y.st = "TITLE_LF"
    BY <1>1, GotoChanges
  <2> HIDE DEF y
  <2>4. Waiting(y) /\ ~y.done /\ y.size = x.size
    BY <2>3, Onward
  <2>5. AtTitle(y, v, r, clean)
    <3>1. None(y, {"headers"}) /\ LineRead(y, r, clean)
      BY <2>3 DEF AtTitle, LineRead, TargetRead, None, Got, Changes, RequestFields
    <3> QED
      BY <2>3, <3>1, Zenon DEF AtTitle
  <2>6. InHead(RequestChar(x, "\r"), v, r, clean) /\ RequestChar(x, "\r").size = x.size
    BY <2>2, <2>4, <2>5 DEF InHead
  <2>7. IsSeq(v)
    BY <1>1
  <2> HIDE DEF v
  <2>8. LeadsTo(x, w, r, clean, "\r", v)
    BY <2>1, <2>6, <2>7, MarkLeads
  <2> QED
    BY <2>8
<1>3. CASE x.st = "TITLE_LF" /\ w = <<"\n">> \o BehindLines(r, 0)
  <2> DEFINE v == BehindLines(r, 0)
             z == Goto(x, "HEADER_NAME")
             q == [z EXCEPT !.name = <<>>]
             y == [q EXCEPT !.value = <<>>]
  <2>1. RequestChar(x, "\n") = y
    <3>1. RequestChar(x, "\n") = TitleChar(x, "\n")
      BY <1>3, Dispatch
    <3>2. TitleChar(x, "\n") = [x EXCEPT !.st = "HEADER_NAME", !.name = <<>>, !.value = <<>>]
      BY <1>3, Zenon DEF TitleChar, Expect
    <3>3. [x EXCEPT !.st = "HEADER_NAME", !.name = <<>>, !.value = <<>>] = y
      BY <1>1 DEF Goto, Shaped, ParserFields
    <3> QED
      BY <3>1, <3>2, <3>3
  <2>2. Changes(x, z, {"st"}, {}) /\ z.st = "HEADER_NAME"
    BY <1>1, GotoChanges
  <2> HIDE DEF z
  <2>3. Changes(z, q, {"name"}, {}) /\ q.name = <<>>
    <3>1. Shaped(z)
      BY <2>2 DEF Changes
    <3> QED
      BY <3>1, FieldChanges
  <2> HIDE DEF q
  <2>4. Changes(q, y, {"value"}, {}) /\ y.value = <<>>
    <3>1. Shaped(q)
      BY <2>3 DEF Changes
    <3> QED
      BY <3>1, FieldChanges
  <2> HIDE DEF y
  <2>5. Changes(x, y, {"st", "name", "value"}, {}) /\ y.st = "HEADER_NAME" /\ y.name = <<>>
    <3>1. Changes(x, z, {"st", "name", "value"}, {}) /\ Changes(z, q, {"st", "name", "value"}, {})
          /\ Changes(q, y, {"st", "name", "value"}, {})
      BY <2>2, <2>3, <2>4, Widen
    <3>2. Changes(x, y, {"st", "name", "value"}, {})
      BY <3>1, Twice
    <3>3. y.st = z.st /\ y.name = q.name
      BY <2>3, <2>4 DEF Changes, ParserFields
    <3> QED
      BY <2>2, <2>3, <3>2, <3>3
  <2>6. Waiting(y) /\ ~y.done /\ y.size = x.size
    BY <2>5, Onward
  <2>7. AtHeader(y, v, r, clean)
    <3>1. LineRead(y, r, clean) /\ y.http.request.headers = <<>>
      BY <2>5 DEF AtTitle, LineRead, TargetRead, None, Got, Changes, RequestFields
    <3>2. 0 \in 0 .. Len(r.headers) - 1
      <4>1. Len(r.headers) \in Nat /\ Len(r.headers) # 0
        BY LinesLeft DEF Readable, HeadersReadable
      <4> QED
        BY <4>1
    <3>3. AtName(y, v, r, 0)
      <4> DEFINE h == r.headers[0 + 1]
                 u == <<":">> \o (<<SP>> \o (h.value \o LineEnd(r, 0 + 1)))
      <4>1. IsSeq(h.name) /\ IsSeq(u) /\ v = h.name \o u
        BY <3>2, HeaderParts
      <4> HIDE DEF u
      <4>2. Reading(<<>>, v, h.name, u)
        <5> DEFINE n == h.name
        <5>1. IsSeq(n) /\ v = n \o u
          BY <4>1
        <5> HIDE DEF n, v
        <5>2. Reading(<<>>, n \o u, n, u)
          BY <4>1, <5>1, Begins
        <5> QED
          BY <5>1, <5>2, Zenon DEF n
      <4> QED
        BY <2>4, <2>5, <4>2, Zenon DEF AtName, u, h
    <3>4. Newest(r.headers, 0) = <<>>
      BY NewestNone
    <3> HIDE DEF v
    <3> QED
      BY <3>1, <3>2, <3>3, <3>4 DEF AtHeader
  <2>8. InHead(RequestChar(x, "\n"), v, r, clean) /\ RequestChar(x, "\n").size = x.size
    BY <2>1, <2>6, <2>7 DEF InHead
  <2>9. LeadsTo(x, w, r, clean, "\n", v)
    <3>1. w = <<"\n">> \o v /\ IsSeq(v)
      BY <1>1, <1>3
    <3> HIDE DEF v
    <3> QED
      BY <2>8, <3>1, MarkLeads
  <2> QED
    BY <2>9
<1> QED
  BY <1>2, <1>3 DEF AtTitle

-----------------------------------------------------------------------------
(* One header, from its name to what follows its line. *)
LEMMA HeaderStays ==
  ASSUME NEW x, NEW w, NEW r, NEW clean, NEW k \in 0 .. Len(r.headers) - 1, NEW y, NEW v,
         Waiting(x), ~x.done, LineRead(x, r, clean), x.http.request.headers = Newest(r.headers, k),
         NEW P, P \subseteq {"st", "tmp", "name", "value"}, Changes(x, y, P, {}),
         AtName(y, v, r, k) \/ AtColon(y, v, r, k) \/ AtValue(y, v, r, k) \/ AtLineEnd(y, v, r, k)
  PROVE  InHead(y, v, r, clean) /\ y.size = x.size
<1>1. Waiting(y) /\ ~y.done /\ y.size = x.size
  BY Onward
<1>2. LineRead(y, r, clean)
  BY LineStays
<1>3. y.http.request.headers = Newest(r.headers, k)
  BY DEF Changes, RequestFields
<1>4. AtHeader(y, v, r, clean)
  BY <1>2, <1>3 DEF AtHeader
<1> QED
  BY <1>1, <1>4 DEF InHead

LEMMA NameReads ==
  ASSUME NEW x, NEW w, NEW r, NEW clean, Readable(r), Waiting(x), ~x.done,
         NEW k \in 0 .. Len(r.headers) - 1, LineRead(x, r, clean),
         x.http.request.headers = Newest(r.headers, k), AtName(x, w, r, k)
  PROVE  \E c, v : LeadsTo(x, w, r, clean, c, v)
<1> DEFINE h == r.headers[k + 1]
           t == h.name
           b == <<SP>> \o (h.value \o LineEnd(r, k + 1))
           u == <<":">> \o b
           s == x.name
<1>1. Reading(s, w, t, u) /\ x.st = "HEADER_NAME" /\ x.value = <<>> /\ Shaped(x)
  BY Zenon DEF AtName, Waiting
<1>2. HeaderReadable(h) /\ IsSeq(b)
  BY HeaderParts
<1>3. \A c : RequestChar(x, c) = NameChar(x, c)
  BY <1>1, Dispatch
<1>4. CASE \E c, s2, v : More(s, w, t, u, c, s2, v)
  <2>1. PICK c, s2, v : More(s, w, t, u, c, s2, v)
    BY <1>4
  <2> DEFINE y == [x EXCEPT !.name = Append(@, c)]
  <2>2. IsNameChar(c) /\ c # ":"
    <3>1. c = t[Len(s) + 1] /\ Len(s) + 1 \in 1 .. Len(t)
      BY <2>1, MoreIs
    <3>2. IsNameChar(c)
      BY <1>2, <3>1 DEF HeaderReadable
    <3> QED
      BY <3>2, NoMarks
  <2>3. NameChar(x, c) = y
    BY <2>2, Zenon DEF NameChar, Expect
  <2> HIDE DEF h, t, b, u
  <2>4. Changes(x, y, {"name"}, {}) /\ y.name = s2
    <3> DEFINE z == [x EXCEPT !.name = s2]
    <3>1. y = z
      BY <2>1, Zenon DEF More, y, s
    <3>2. Changes(x, z, {"name"}, {}) /\ z.name = s2
      BY <1>1, FieldChanges
    <3> QED
      BY <3>1, <3>2, Zenon
  <2> HIDE DEF y
  <2>5. AtName(y, v, r, k)
    <3>1. Reading(s2, v, t, u)
      BY <2>1, MoreIs
    <3>2. y.st = "HEADER_NAME" /\ y.value = <<>>
      BY <1>1, <2>4 DEF Changes, ParserFields
    <3> QED
      BY <2>4, <3>1, <3>2, Zenon DEF AtName, h, t, b, u
  <2>6. InHead(y, v, r, clean) /\ y.size = x.size
    BY <2>4, <2>5, HeaderStays
  <2>7. RequestChar(x, c) = y
    BY <1>3, <2>3
  <2> QED
    BY <2>1, <2>6, <2>7, MoreLeads
<1>5. CASE s = t /\ w = u
  <2> DEFINE y == Goto(x, "HEADER_COLON")
  <2>1. RequestChar(x, ":") = y
    <3>1. NameChar(x, ":") = y
      BY Zenon DEF NameChar
    <3> QED
      BY <1>3, <3>1
  <2>2. Changes(x, y, {"st"}, {}) /\ y.st = "HEADER_COLON"
    BY <1>1, GotoChanges
  <2> HIDE DEF y
  <2>3. AtColon(y, b, r, k)
    <3>1. y.name = t /\ y.value = <<>>
      BY <1>1, <1>5, <2>2 DEF Changes, ParserFields
    <3> QED
      BY <2>2, <3>1, Zenon DEF AtColon
  <2>4. InHead(y, b, r, clean) /\ y.size = x.size
    <3> HIDE DEF b
    <3> QED
      BY <2>2, <2>3, HeaderStays
  <2>5. LeadsTo(x, w, r, clean, ":", b)
    <3>1. w = <<":">> \o b
      BY <1>5
    <3> HIDE DEF b
    <3> QED
      BY <1>2, <2>1, <2>4, <3>1, MarkLeads
  <2> QED
    BY <2>5
<1> QED
  BY <1>1, <1>4, <1>5, ReadMore

LEMMA ColonReads ==
  ASSUME NEW x, NEW w, NEW r, NEW clean, Readable(r), Waiting(x), ~x.done,
         NEW k \in 0 .. Len(r.headers) - 1, LineRead(x, r, clean),
         x.http.request.headers = Newest(r.headers, k), AtColon(x, w, r, k)
  PROVE  \E c, v : LeadsTo(x, w, r, clean, c, v)
<1> DEFINE h == r.headers[k + 1]
           t == h.value
           u == LineEnd(r, k + 1)
           b == t \o u
           y == Goto(x, "HEADER_VALUE")
<1>1. w = <<SP>> \o b /\ x.st = "HEADER_COLON" /\ x.name = h.name /\ x.value = <<>> /\ Shaped(x)
  BY Zenon DEF AtColon, Waiting
<1>2. IsSeq(t) /\ IsSeq(u) /\ IsSeq(b)
  BY HeaderParts
<1>3. RequestChar(x, SP) = y
  <2>1. RequestChar(x, SP) = ColonChar(x, SP)
    BY <1>1, Dispatch
  <2>2. ColonChar(x, SP) = y
    BY Zenon DEF ColonChar, Expect
  <2> QED
    BY <2>1, <2>2
<1>4. Changes(x, y, {"st"}, {}) /\ y.st = "HEADER_VALUE"
  BY <1>1, GotoChanges
<1> HIDE DEF y
<1>5. y.name = h.name /\ y.value = <<>>
  <2> HIDE DEF h
  <2> QED
    BY <1>1, <1>4 DEF Changes, ParserFields
<1>6. AtValue(y, b, r, k)
  <2>1. Reading(<<>>, b, t, u)
    <3> HIDE DEF t, u
    <3> QED
      BY <1>2, Begins
  <2> QED
    BY <1>4, <1>5, <2>1, Zenon DEF AtValue
<1> HIDE DEF b
<1>7. InHead(y, b, r, clean) /\ y.size = x.size
  BY <1>4, <1>6, HeaderStays
<1>8. LeadsTo(x, w, r, clean, SP, b)
  BY <1>1, <1>2, <1>3, <1>7, MarkLeads
<1> QED
  BY <1>8

LEMMA ValueReads ==
  ASSUME NEW x, NEW w, NEW r, NEW clean, Readable(r), Waiting(x), ~x.done,
         NEW k \in 0 .. Len(r.headers) - 1, LineRead(x, r, clean),
         x.http.request.headers = Newest(r.headers, k), AtValue(x, w, r, k)
  PROVE  \E c, v : LeadsTo(x, w, r, clean, c, v)
<1> DEFINE h == r.headers[k + 1]
           t == h.value
           u == LineEnd(r, k + 1)
           b == <<"\n">> \o BehindLines(r, k + 1)
           s == x.value
<1>1. Reading(s, w, t, u) /\ x.st = "HEADER_VALUE" /\ x.name = h.name /\ Shaped(x)
  BY Zenon DEF AtValue, Waiting
<1>2. FreeOf(t, {"\r"}) /\ IsSeq(b)
  BY HeaderParts DEF HeaderReadable
<1>3. \A c : RequestChar(x, c) = ValueChar(x, c)
  BY <1>1, Dispatch
<1>4. CASE \E c, s2, v : More(s, w, t, u, c, s2, v)
  <2>1. PICK c, s2, v : More(s, w, t, u, c, s2, v)
    BY <1>4
  <2> DEFINE y == [x EXCEPT !.value = Append(@, c)]
  <2>2. c # "\r"
    <3>1. c \notin {"\r"}
      BY <1>2, <2>1, MoreIsNot
    <3> QED
      BY <3>1
  <2>3. ValueChar(x, c) = y
    BY <2>2, Zenon DEF ValueChar
  <2> HIDE DEF h, t, b, u
  <2>4. Changes(x, y, {"value"}, {}) /\ y.value = s2
    <3> DEFINE z == [x EXCEPT !.value = s2]
    <3>1. y = z
      BY <2>1, Zenon DEF More, y, s
    <3>2. Changes(x, z, {"value"}, {}) /\ z.value = s2
      BY <1>1, FieldChanges
    <3> QED
      BY <3>1, <3>2, Zenon
  <2> HIDE DEF y
  <2>5. AtValue(y, v, r, k)
    <3>1. Reading(s2, v, t, u)
      BY <2>1, MoreIs
    <3>2. y.st = "HEADER_VALUE" /\ y.name = h.name
      BY <1>1, <2>4 DEF Changes, ParserFields
    <3> QED
      BY <2>4, <3>1, <3>2, Zenon DEF AtValue, h, t, u
  <2>6. InHead(y, v, r, clean) /\ y.size = x.size
    BY <2>4, <2>5, HeaderStays
  <2>7. RequestChar(x, c) = y
    BY <1>3, <2>3
  <2> QED
    BY <2>1, <2>6, <2>7, MoreLeads
<1>5. CASE s = t /\ w = u
  <2> DEFINE y == Goto(x, "HEADER_CR1")
  <2>1. RequestChar(x, "\r") = y
    <3>1. ValueChar(x, "\r") = y
      BY Zenon DEF ValueChar
    <3> QED
      BY <1>3, <3>1
  <2>2. Changes(x, y, {"st"}, {}) /\ y.st = "HEADER_CR1"
    BY <1>1, GotoChanges
  <2> HIDE DEF y
  <2>3. AtLineEnd(y, b, r, k)
    <3>1. y.name = h.name /\ y.value = t
      <4> HIDE DEF h, t
      <4> QED
        BY <1>1, <1>5, <2>2 DEF Changes, ParserFields
    <3> QED
      BY <2>2, <3>1, Zenon DEF AtLineEnd
  <2>4. InHead(y, b, r, clean) /\ y.size = x.size
    <3> HIDE DEF b
    <3> QED
      BY <2>2, <2>3, HeaderStays
  <2>5. LeadsTo(x, w, r, clean, "\r", b)
    <3>1. w = <<"\r">> \o b
      BY <1>5, Zenon DEF LineEnd
    <3> HIDE DEF b
    <3> QED
      BY <1>2, <2>1, <2>4, <3>1, MarkLeads
  <2> QED
    BY <2>5
<1> QED
  BY <1>1, <1>4, <1>5, ReadMore

-----------------------------------------------------------------------------
(* The line of a header ends: another one follows, or the head is over. *)
Pushed(x, st, name, hs) ==
  [x EXCEPT !.name = name, !.value = <<>>, !.http.request.headers = hs, !.st = st]

LEMMA PutHeaders ==
  ASSUME NEW x, Waiting(x), ~x.done, NEW hs, NEW st, NEW name,
         NEW y, y = Pushed(x, st, name, hs)
  PROVE  /\ Changes(x, y, {"st", "name", "value"}, {"headers"})
         /\ y.st = st /\ y.name = name /\ y.value = <<>> /\ y.http.request.headers = hs
         /\ Waiting(y) /\ ~y.done /\ y.size = x.size
<1> DEFINE p == Goto(x, st)
           q == [p EXCEPT !.name = name]
           z == [q EXCEPT !.value = <<>>]
           e == Put(z, "headers", hs)
<1>0. Shaped(x) /\ "headers" \in RequestFields
  BY DEF Waiting, RequestFields
<1>1. y = e
  BY <1>0 DEF Pushed, Put, Goto, Shaped, ParserFields
<1>2. Changes(x, p, {"st"}, {}) /\ p.st = st
  BY <1>0, GotoChanges
<1> HIDE DEF p
<1>3. Changes(p, q, {"name"}, {}) /\ q.name = name
  <2>1. Shaped(p)
    BY <1>2 DEF Changes
  <2> QED
    BY <2>1, FieldChanges
<1> HIDE DEF q
<1>4. Changes(q, z, {"value"}, {}) /\ z.value = <<>>
  <2>1. Shaped(q)
    BY <1>3 DEF Changes
  <2> QED
    BY <2>1, FieldChanges
<1> HIDE DEF z
<1>5. Changes(z, e, {}, {"headers"}) /\ Field(e, "headers") = hs
  <2>1. Shaped(z)
    BY <1>4 DEF Changes
  <2>2. Changes(z, e, {}, {"headers"})
    BY <1>0, <2>1, ChangeRequest
  <2> QED
    BY <1>0, <2>1, <2>2, FieldPut
<1> HIDE DEF e
<1> DEFINE P == {"st", "name", "value"}
           R == {"headers"}
<1>6. Changes(x, e, P, R)
  <2>1. Changes(x, p, P, R) /\ Changes(p, q, P, R) /\ Changes(q, z, P, R) /\ Changes(z, e, P, R)
    BY <1>2, <1>3, <1>4, <1>5, Widen
  <2> HIDE DEF P, R
  <2> QED
    BY <2>1, Twice
<1>7. e.st = st /\ e.name = name /\ e.value = <<>>
  BY <1>2, <1>3, <1>4, <1>5 DEF Changes, ParserFields
<1>8. e.http.request.headers = hs
  BY <1>5, Zenon DEF Field
<1>9. Waiting(e) /\ ~e.done /\ e.size = x.size
  <2>1. "body" \notin R
    OBVIOUS
  <2> QED
    BY <1>6, <2>1, Onward
<1> QED
  BY <1>1, <1>6, <1>7, <1>8, <1>9

LEMMA LineEndReads ==
  ASSUME NEW x, NEW w, NEW r, NEW clean, Readable(r), Waiting(x), ~x.done,
         NEW k \in 0 .. Len(r.headers) - 1, LineRead(x, r, clean),
         x.http.request.headers = Newest(r.headers, k), AtLineEnd(x, w, r, k)
  PROVE  \E c, v : LeadsTo(x, w, r, clean, c, v)
<1> DEFINE h == r.headers[k + 1]
           b == BehindLines(r, k + 1)
<1>1. x.name = h.name /\ x.value = h.value /\ Shaped(x) /\ x.side = "request"
  BY Zenon DEF AtLineEnd, Waiting, Shaped
<1>2. /\ HeaderReadable(h) /\ IsSeq(b) /\ IsSeq(<<"\n">> \o b) /\ k \in Nat
      /\ k + 1 \in 0 .. Len(r.headers) /\ Len(r.headers) \in Nat
  <2>1. Len(r.headers) \in Nat
    BY LinesLeft DEF Readable
  <2> QED
    BY <2>1, HeaderParts
<1>3. CASE x.st = "HEADER_CR1" /\ w = <<"\n">> \o b
  <2> DEFINE y == Goto(x, "HEADER_LF1")
  <2>1. RequestChar(x, "\n") = y
    <3>1. RequestChar(x, "\n") = Cr1Char(x, "\n")
      BY <1>3, Dispatch
    <3>2. Cr1Char(x, "\n") = y
      BY Zenon DEF Cr1Char, Expect
    <3> QED
      BY <3>1, <3>2
  <2>2. Changes(x, y, {"st"}, {}) /\ y.st = "HEADER_LF1"
    BY <1>1, GotoChanges
  <2> HIDE DEF y
  <2>3. AtLineEnd(y, b, r, k)
    <3>1. y.name = h.name /\ y.value = h.value
      <4> HIDE DEF h
      <4> QED
        BY <1>1, <2>2 DEF Changes, ParserFields
    <3> QED
      BY <2>2, <3>1, Zenon DEF AtLineEnd
  <2>4. InHead(y, b, r, clean) /\ y.size = x.size
    <3> HIDE DEF b
    <3> QED
      BY <2>2, <2>3, HeaderStays
  <2>5. LeadsTo(x, w, r, clean, "\n", b)
    <3>1. w = <<"\n">> \o b
      BY <1>3
    <3> HIDE DEF b
    <3> QED
      BY <1>2, <2>1, <2>4, <3>1, MarkLeads
  <2> QED
    BY <2>5
<1> DEFINE hs == PushHeader(x.http.request.headers, x.name, x.value)
           pushed == [x EXCEPT !.name = <<>>, !.value = <<>>, !.http[x.side].headers =
                                                               PushHeader(@, x.name, x.value)]
<1>4. hs = Newest(r.headers, k + 1)
  <2>1. h = [name |-> h.name, value |-> h.value]
    BY <1>2 DEF HeaderReadable
  <2>2. PushHeader(Newest(r.headers, k), h.name, h.value) = Newest(r.headers, k + 1)
    BY <1>2, <2>1, NewestPushed
  <2> QED
    BY <1>1, <2>2, Zenon
<1>5. pushed = [x EXCEPT !.name = <<>>, !.value = <<>>, !.http.request.headers = hs]
  <2>1. pushed = [x EXCEPT !.name = <<>>, !.value = <<>>, !.http["request"].headers =
                                                           PushHeader(@, x.name, x.value)]
    BY <1>1, Zenon
  <2> QED
    BY <2>1, Zenon
<1>6. CASE x.st = "HEADER_LF1" /\ w = b /\ k + 1 # Len(r.headers)
  <2> DEFINE n == r.headers[(k + 1) + 1]
             t == n.name
             u == <<":">> \o (<<SP>> \o (n.value \o LineEnd(r, (k + 1) + 1)))
  <2>1. k + 1 \in 0 .. Len(r.headers) - 1
    BY <1>2, <1>6
  <2>2. HeaderReadable(n) /\ IsSeq(t) /\ IsSeq(u) /\ b = t \o u
    BY <2>1, HeaderParts
  <2>3. Len(t) # 0 /\ \A i \in 1 .. Len(t) : IsNameChar(t[i])
    BY <2>2 DEF HeaderReadable
  <2> HIDE DEF n, t, u, b, h
  <2>4. Reading(<<>>, w, t, u)
    BY <1>6, <2>2, Begins, Zenon
  <2>5. PICK c, s2, v : More(<<>>, w, t, u, c, s2, v)
    <3>1. t # <<>>
      BY <2>3, EmptySeq
    <3> QED
      BY <2>4, <3>1, ReadMore
  <2>6. Reading(s2, v, t, u) /\ s2 = <<c>> /\ IsNameChar(c)
    <3>1. Reading(s2, v, t, u) /\ c = t[Len(<<>>) + 1] /\ Len(<<>>) + 1 \in 1 .. Len(t)
      BY <2>5, MoreIs
    <3>2. s2 = Append(<<>>, c)
      BY <2>5, Zenon DEF More
    <3>3. Append(<<>>, c) = <<c>>
      OBVIOUS
    <3>4. s2 = <<c>>
      BY <3>2, <3>3, Zenon
    <3> QED
      BY <2>3, <3>1, <3>4
  <2>7. c # SP /\ c # "\r"
    BY <2>6, NoMarks
  <2> DEFINE y == [pushed EXCEPT !.st = "HEADER_NAME", !.name = <<c>>]
  <2>8. RequestChar(x, c) = y
    <3>1. RequestChar(x, c) = Lf1Char(x, c)
      BY <1>6, Dispatch
    <3>2. Lf1Char(x, c) = y
      BY <2>7, Zenon DEF Lf1Char
    <3> QED
      BY <3>1, <3>2
  <2>9. y = Pushed(x, "HEADER_NAME", s2, hs)
    <3> HIDE DEF hs, pushed
    <3>1. [[x EXCEPT !.name = <<>>, !.value = <<>>, !.http.request.headers = hs] EXCEPT
             !.st = "HEADER_NAME", !.name = s2]
            = [x EXCEPT !.name = s2, !.value = <<>>, !.http.request.headers = hs, !.st = "HEADER_NAME"]
      BY <1>1 DEF Shaped, ParserFields
    <3> QED
      BY <1>5, <2>6, <3>1, Zenon DEF Pushed
  <2> HIDE DEF y, hs, pushed
  <2>10. /\ Changes(x, y, {"st", "name", "value"}, {"headers"})
         /\ y.st = "HEADER_NAME" /\ y.name = s2 /\ y.value = <<>> /\ y.http.request.headers = hs
         /\ Waiting(y) /\ ~y.done /\ y.size = x.size
    BY <2>9, PutHeaders
  <2>11. AtHeader(y, v, r, clean)
    <3>1. LineRead(y, r, clean)
      BY <2>10, LineStays
    <3>2. AtName(y, v, r, k + 1)
      BY <2>6, <2>10, Zenon DEF AtName, n, t, u
    <3> QED
      BY <1>4, <2>1, <2>10, <3>1, <3>2, Zenon DEF AtHeader
  <2>12. InHead(RequestChar(x, c), v, r, clean) /\ RequestChar(x, c).size = x.size
    BY <2>8, <2>10, <2>11 DEF InHead
  <2> QED
    BY <2>5, <2>12, MoreLeads
<1>7. CASE x.st = "HEADER_LF1" /\ w = b /\ k + 1 = Len(r.headers)
  <2> DEFINE v == <<"\n">>
             y == [pushed EXCEPT !.st = "HEADER_CR2"]
  <2>1. w = <<"\r">> \o v /\ IsSeq(v)
    <3>1. BehindLines(r, Len(r.headers)) = <<"\r">> \o v
      BY LinesLeft DEF Readable
    <3>2. w = <<"\r">> \o v
      BY <1>7, <3>1, Zenon
    <3> QED
      BY <3>2, One
  <2>2. RequestChar(x, "\r") = y
    <3>1. RequestChar(x, "\r") = Lf1Char(x, "\r")
      BY <1>7, Dispatch
    <3>2. SP # "\r"
      BY Marks
    <3>3. Lf1Char(x, "\r") = Goto(pushed, "HEADER_CR2")
      BY <3>2, Zenon DEF Lf1Char
    <3> QED
      BY <3>1, <3>3, Zenon DEF Goto
  <2>3. y = Pushed(x, "HEADER_CR2", <<>>, hs)
    <3> HIDE DEF hs, pushed
    <3>1. [[x EXCEPT !.name = <<>>, !.value = <<>>, !.http.request.headers = hs] EXCEPT !.st = "HEADER_CR2"]
            = [x EXCEPT !.name = <<>>, !.value = <<>>, !.http.request.headers = hs, !.st = "HEADER_CR2"]
      BY <1>1 DEF Shaped, ParserFields
    <3> QED
      BY <1>5, <3>1, Zenon DEF Pushed
  <2> HIDE DEF y, hs, pushed
  <2>4. /\ Changes(x, y, {"st", "name", "value"}, {"headers"})
        /\ y.st = "HEADER_CR2" /\ y.http.request.headers = hs
        /\ Waiting(y) /\ ~y.done /\ y.size = x.size
    BY <2>3, PutHeaders
  <2>5. AtHeadEnd(y, v, r, clean)
    <3>1. LineRead(y, r, clean)
      BY <2>4, LineStays
    <3> QED
      BY <1>4, <1>7, <2>4, <3>1, Zenon DEF AtHeadEnd, HeadRead
  <2>6. InHead(RequestChar(x, "\r"), v, r, clean) /\ RequestChar(x, "\r").size = x.size
    BY <2>2, <2>4, <2>5 DEF InHead
  <2>7. LeadsTo(x, w, r, clean, "\r", v)
    <3> HIDE DEF v
    <3> QED
      BY <2>1, <2>6, MarkLeads
  <2> QED
    BY <2>7
<1>8. (x.st = "HEADER_CR1" /\ w = <<"\n">> \o b) \/ (x.st = "HEADER_LF1" /\ w = b)
  BY Zenon DEF AtLineEnd
<1> QED
  BY <1>3, <1>6, <1>7, <1>8

-----------------------------------------------------------------------------
(* Where the head was read, the context holds it. *)
Finished(x, r, clean) == Waiting(x) /\ x.done /\ HeadRead(x, r, clean)

LEMMA HeadEndReads ==
  ASSUME NEW x, NEW w, NEW r, NEW clean, Waiting(x), ~x.done, AtHeadEnd(x, w, r, clean)
  PROVE  /\ w = <<"\n">> /\ Finished(RequestChar(x, "\n"), r, clean)
         /\ RequestChar(x, "\n").size = x.size
<1> DEFINE z == [x EXCEPT !.done = TRUE]
           y == Goto(z, "HEADER_LF2")
<1>1. RequestChar(x, "\n") = y
  <2>1. RequestChar(x, "\n") = Cr2Char(x, "\n")
    BY Dispatch DEF AtHeadEnd
  <2>2. Cr2Char(x, "\n") = y
    BY Zenon DEF Cr2Char, Expect
  <2> QED
    BY <2>1, <2>2
<1>2. Shaped(x)
  BY DEF Waiting
<1>3. Changes(x, z, {"done"}, {}) /\ z.done = TRUE
  BY <1>2, FieldChanges
<1> HIDE DEF z
<1>4. Changes(z, y, {"st"}, {})
  BY <1>3, GotoChanges DEF Changes
<1> HIDE DEF y
<1>5. Changes(x, y, {"st", "done"}, {}) /\ y.done = TRUE
  <2>1. Changes(x, z, {"st", "done"}, {}) /\ Changes(z, y, {"st", "done"}, {})
    BY <1>3, <1>4, Widen
  <2>2. Changes(x, y, {"st", "done"}, {})
    BY <2>1, Twice
  <2> QED
    BY <1>3, <1>4, <2>2 DEF Changes, ParserFields
<1>6. Waiting(y) /\ y.size = x.size
  BY <1>5 DEF Waiting, Changes, ParserFields, RequestFields
<1>7. HeadRead(y, r, clean)
  <2>1. LineRead(y, r, clean)
    BY <1>5, LineStays DEF AtHeadEnd, HeadRead
  <2>2. y.http.request.headers = x.http.request.headers
    BY <1>5 DEF Changes, RequestFields
  <2> QED
    BY <2>1, <2>2 DEF AtHeadEnd, HeadRead
<1> QED
  BY <1>1, <1>5, <1>6, <1>7 DEF Finished, AtHeadEnd

LEMMA HeaderReads ==
  ASSUME NEW x, NEW w, NEW r, NEW clean, Readable(r), Waiting(x), ~x.done,
         AtHeader(x, w, r, clean)
  PROVE  \E c, v : LeadsTo(x, w, r, clean, c, v)
<1>1. LineRead(x, r, clean)
  BY DEF AtHeader
<1>2. PICK k \in 0 .. Len(r.headers) - 1 :
        /\ x.http.request.headers = Newest(r.headers, k)
        /\ AtName(x, w, r, k) \/ AtColon(x, w, r, k) \/ AtValue(x, w, r, k) \/ AtLineEnd(x, w, r, k)
  BY DEF AtHeader
<1>3. CASE AtName(x, w, r, k)
  BY <1>1, <1>2, <1>3, NameReads
<1>4. CASE AtColon(x, w, r, k)
  BY <1>1, <1>2, <1>4, ColonReads
<1>5. CASE AtValue(x, w, r, k)
  BY <1>1, <1>2, <1>5, ValueReads
<1>6. CASE AtLineEnd(x, w, r, k)
  BY <1>1, <1>2, <1>6, LineEndReads
<1> QED
  BY <1>2, <1>3, <1>4, <1>5, <1>6

(* Wherever the parser is in the head: the next character takes it on. *)
LEMMA HeadReads ==
  ASSUME NEW x, NEW w, NEW r, NEW clean, Readable(r), InHead(x, w, r, clean)
  PROVE  \/ \E c, v : LeadsTo(x, w, r, clean, c, v)
         \/ /\ w = <<"\n">> /\ Finished(RequestChar(x, "\n"), r, clean)
            /\ RequestChar(x, "\n").size = x.size
<1>1. Waiting(x) /\ ~x.done
  BY DEF InHead
<1>2. CASE AtStart(x, w, r, clean)
  BY <1>1, <1>2, StartReads
<1>3. CASE AtCommand(x, w, r, clean)
  BY <1>1, <1>3, CommandReads
<1>4. CASE AtUrl(x, w, r, clean)
  BY <1>1, <1>4, UrlReads
<1>5. CASE AtParameters(x, w, r, clean)
  BY <1>1, <1>5, ParametersReads
<1>6. CASE AtQuery(x, w, r, clean)
  BY <1>1, <1>6, QueryReads
<1>7. CASE AtFragment(x, w, r, clean)
  BY <1>1, <1>7, FragmentReads
<1>8. CASE AtVersion(x, w, r, clean)
  BY <1>1, <1>8, VersionReads
<1>9. CASE AtTitle(x, w, r, clean)
  BY <1>1, <1>9, TitleReads
<1>10. CASE AtHeader(x, w, r, clean)
  BY <1>1, <1>10, HeaderReads
<1>11. CASE AtHeadEnd(x, w, r, clean)
  <2> HIDE DEF LeadsTo
  <2> QED
    BY <1>1, <1>11, HeadEndReads
<1> QED
  BY <1>2, <1>3, <1>4, <1>5, <1>6, <1>7, <1>8, <1>9, <1>10, <1>11 DEF InHead

-----------------------------------------------------------------------------
(* The request that is sent: its headers. *)
SetOneByOne(l, hs, fs, N) ==
  /\ SetHeaders(hs, fs) = l[N] /\ l[0] = hs
  /\ \A i \in 1 .. N : l[i] = SetHeader(l[i - 1], fs[i].name, fs[i].value)

LEMMA SetSteps ==
  ASSUME NEW hs, NEW fs, NEW N \in Nat, Len(fs) = N
  PROVE  \E l : SetOneByOne(l, hs, fs, N)
<1> DEFINE From(g, i) == IF i = 0 THEN hs ELSE SetHeader(g[i - 1], fs[i].name, fs[i].value)
           Reached == {n \in Nat : \E g : g = [i \in 0 .. n |-> From(g, i)]}
<1>1. 0 \in Reached
  <2> DEFINE g == [i \in 0 .. 0 |-> hs]
  <2>1. g = [i \in 0 .. 0 |-> From(g, i)]
    OBVIOUS
  <2> QED
    BY <2>1
<1>2. ASSUME NEW n \in Nat, n \in Reached PROVE n + 1 \in Reached
  <2>1. PICK g : g = [i \in 0 .. n |-> From(g, i)]
    BY <1>2
  <2> DEFINE h == [i \in 0 .. n + 1 |-> IF i <= n THEN g[i] ELSE From(g, i)]
  <2>2. ASSUME NEW i \in 0 .. n + 1 PROVE h[i] = From(h, i)
    <3>1. i # 0 => i - 1 \in 0 .. n + 1 /\ i - 1 <= n
      OBVIOUS
    <3>2. i # 0 => h[i - 1] = g[i - 1]
      BY <3>1
    <3>3. From(h, i) = From(g, i)
      <4> HIDE DEF h
      <4>1. CASE i = 0
        BY <4>1
      <4>2. CASE i # 0
        BY <3>2, <4>2
      <4> QED
        BY <4>1, <4>2
    <3>4. i <= n => g[i] = From(g, i)
      <4>1. i <= n => i \in 0 .. n
        OBVIOUS
      <4> HIDE DEF From
      <4> QED
        BY <2>1, <4>1
    <3>5. h[i] = IF i <= n THEN g[i] ELSE From(g, i)
      OBVIOUS
    <3> HIDE DEF From, h
    <3> QED
      BY <3>3, <3>4, <3>5
  <2>3. h = [i \in 0 .. n + 1 |-> h[i]]
    OBVIOUS
  <2> HIDE DEF h, From
  <2>4. h = [i \in 0 .. n + 1 |-> From(h, i)]
    BY <2>2, <2>3
  <2> QED
    BY <2>4
<1> HIDE DEF Reached
<1>3. N \in Reached
  BY <1>1, <1>2, Induction
<1>4. PICK g : g = [i \in 0 .. N |-> From(g, i)]
  BY <1>3 DEF Reached
<1>5. PICK l : l = [i \in 0 .. N |-> From(l, i)] /\ SetHeaders(hs, fs) = l[N]
  BY <1>4 DEF SetHeaders
<1>6. l[0] = hs
  BY <1>5
<1>7. ASSUME NEW i \in 1 .. N PROVE l[i] = SetHeader(l[i - 1], fs[i].name, fs[i].value)
  <2>1. i \in 0 .. N /\ i # 0
    OBVIOUS
  <2> QED
    BY <1>5, <2>1
<1> QED
  BY <1>5, <1>6, <1>7 DEF SetOneByOne

(* The list of a context that SetHeader alone fills: no name is in it twice. *)
Header(n, v) == [name |-> n, value |-> v]
WellSet(hs) ==
  /\ IsSeq(hs) /\ \A i \in 1 .. Len(hs) : HeaderReadable(hs[i])
  /\ \A i, j \in 1 .. Len(hs) : Same(hs[i].name, hs[j].name) => i = j

LEMMA HolderOf ==
  ASSUME NEW hs, IsSeq(hs), NEW i \in 1 .. Len(hs), NEW name, Same(hs[i].name, name),
         \A j \in 1 .. Len(hs) : Same(hs[j].name, name) => j = i
  PROVE  HasHeader(hs, name) /\ FirstHolder(hs, name) = i /\ HeaderValue(hs, name) = hs[i].value
<1>1. DOMAIN hs = 1 .. Len(hs) /\ Len(hs) \in Nat
  BY LenIsNat DEF IsSeq
<1>2. Holders(hs, name) = {i}
  BY <1>1 DEF Holders
<1>3. FirstHolder(hs, name) = i
  BY <1>2 DEF FirstHolder
<1> QED
  BY <1>2, <1>3 DEF HasHeader, HeaderValue

LEMMA NoHolder ==
  ASSUME NEW hs, IsSeq(hs), NEW name
  PROVE  HasHeader(hs, name) <=> \E i \in 1 .. Len(hs) : Same(hs[i].name, name)
<1>1. DOMAIN hs = 1 .. Len(hs)
  BY DEF IsSeq
<1> QED
  BY <1>1 DEF HasHeader, Holders

LEMMA SetHeaderKeeps ==
  ASSUME NEW hs, WellSet(hs), NEW n, NEW v, HeaderReadable(Header(n, v))
  PROVE  WellSet(SetHeader(hs, n, v)) /\ Len(SetHeader(hs, n, v)) # 0
<1> DEFINE t == SetHeader(hs, n, v)
<1>0. IsSeq(hs) /\ Len(hs) \in Nat /\ DOMAIN hs = 1 .. Len(hs)
  BY LenIsNat DEF WellSet, IsSeq
<1>1. CASE HasHeader(hs, n)
  <2>1. PICK i \in 1 .. Len(hs) : Same(hs[i].name, n)
    BY <1>0, <1>1, NoHolder
  <2>2. \A j \in 1 .. Len(hs) : Same(hs[j].name, n) => j = i
    BY <2>1 DEF WellSet, Same
  <2>3. FirstHolder(hs, n) = i
    BY <1>0, <2>1, <2>2, HolderOf
  <2> DEFINE h == [hs[i] EXCEPT !.value = v]
  <2>4. t = [hs EXCEPT ![i] = h]
    BY <1>1, <2>3, Zenon DEF SetHeader
  <2>5. h.name = hs[i].name /\ HeaderReadable(h)
    <3>1. HeaderReadable(hs[i]) /\ hs[i] = [name |-> hs[i].name, value |-> hs[i].value]
      BY DEF WellSet, HeaderReadable
    <3>2. h = [name |-> hs[i].name, value |-> v]
      BY <3>1
    <3>3. h.name = hs[i].name /\ h.value = v
      BY <3>2
    <3>4. FreeOf(v, {"\r"})
      <4>1. Header(n, v).value = v
        BY DEF Header
      <4> QED
        BY <4>1 DEF HeaderReadable
    <3> HIDE DEF h
    <3> QED
      BY <3>1, <3>2, <3>3, <3>4 DEF HeaderReadable
  <2> HIDE DEF h, t
  <2>6. DOMAIN t = 1 .. Len(hs) /\ \A j \in 1 .. Len(hs) : t[j] = IF j = i THEN h ELSE hs[j]
    BY <1>0, <2>4
  <2>7. IsSeq(t) /\ Len(t) = Len(hs)
    <3>1. PICK S : hs \in Seq(S)
      BY <1>0 DEF IsSeq
    <3>2. t \in Seq(S \cup {h}) /\ Len(t) = Len(hs)
      BY <2>4, <3>1
    <3> QED
      BY <3>2 DEF IsSeq
  <2>8. \A j \in 1 .. Len(hs) : t[j].name = hs[j].name /\ HeaderReadable(t[j])
    BY <2>5, <2>6 DEF WellSet
  <2>9. WellSet(t)
    BY <2>7, <2>8 DEF WellSet
  <2> QED
    BY <2>7, <2>9, <1>0 DEF t
<1>2. CASE ~HasHeader(hs, n)
  <2> DEFINE h == Header(n, v)
             o == <<h>>
  <2>1. t = o \o hs
    BY <1>2, Zenon DEF SetHeader, PushHeader, Header
  <2>2. IsSeq(o) /\ Len(o) = 1 /\ o[1] = h
    BY One
  <2>3. h.name = n
    BY DEF Header
  <2>4. \A i \in 1 .. Len(hs) : ~Same(hs[i].name, n)
    BY <1>0, <1>2, NoHolder
  <2> HIDE DEF h, o, t
  <2>5. IsSeq(t) /\ Len(t) = 1 + Len(hs)
        /\ \A i \in 1 .. 1 + Len(hs) : t[i] = IF i <= 1 THEN o[i] ELSE hs[i - 1]
    <3> DEFINE q == o \o hs
    <3>1. IsSeq(q) /\ Len(q) = Len(o) + Len(hs)
          /\ \A i \in 1 .. Len(o) + Len(hs) : q[i] = IF i <= Len(o) THEN o[i] ELSE hs[i - Len(o)]
      BY <1>0, <2>2, Cat
    <3> HIDE DEF q
    <3> QED
      BY <2>1, <2>2, <3>1 DEF q
  <2>6. t[1] = h /\ \A i \in 2 .. 1 + Len(hs) : i - 1 \in 1 .. Len(hs) /\ t[i] = hs[i - 1]
    BY <1>0, <2>2, <2>5
  <2>7. \A i \in 1 .. 1 + Len(hs) : HeaderReadable(t[i])
    <3>1. HeaderReadable(h)
      BY DEF h
    <3>2. \A i \in 1 .. Len(hs) : HeaderReadable(hs[i])
      BY DEF WellSet
    <3>3. \A i \in 1 .. 1 + Len(hs) : i = 1 \/ i \in 2 .. 1 + Len(hs)
      BY <1>0
    <3> QED
      BY <2>6, <3>1, <3>2, <3>3
  <2>8. ASSUME NEW i \in 1 .. 1 + Len(hs), NEW j \in 1 .. 1 + Len(hs), Same(t[i].name, t[j].name)
        PROVE  i = j
    <3>1. i \in 2 .. 1 + Len(hs) /\ j \in 2 .. 1 + Len(hs) => i = j
      <4>1. i \in 2 .. 1 + Len(hs) /\ j \in 2 .. 1 + Len(hs) =>
              i - 1 \in 1 .. Len(hs) /\ j - 1 \in 1 .. Len(hs) /\ Same(hs[i - 1].name, hs[j - 1].name)
        BY <2>6, <2>8
      <4>2. i \in 2 .. 1 + Len(hs) /\ j \in 2 .. 1 + Len(hs) => i - 1 = j - 1
        BY <4>1 DEF WellSet
      <4> QED
        BY <1>0, <4>2
    <3>2. i = 1 => j = 1
      <4>1. i = 1 /\ j \in 2 .. 1 + Len(hs) => Same(hs[j - 1].name, n) /\ j - 1 \in 1 .. Len(hs)
        BY <2>3, <2>6, <2>8 DEF Same
      <4> QED
        BY <1>0, <2>4, <4>1
    <3>3. j = 1 => i = 1
      <4>1. j = 1 /\ i \in 2 .. 1 + Len(hs) => Same(hs[i - 1].name, n) /\ i - 1 \in 1 .. Len(hs)
        BY <2>3, <2>6, <2>8
      <4> QED
        BY <1>0, <2>4, <4>1
    <3>4. (i = 1 \/ i \in 2 .. 1 + Len(hs)) /\ (j = 1 \/ j \in 2 .. 1 + Len(hs))
      BY <1>0
    <3> QED
      BY <3>1, <3>2, <3>3, <3>4
  <2>9. WellSet(t)
    BY <2>5, <2>7, <2>8 DEF WellSet
  <2> QED
    BY <2>5, <2>9, <1>0 DEF t
<1> QED
  BY <1>1, <1>2

LEMMA HeadersSet ==
  ASSUME NEW fs, IsSeq(fs), \A i \in 1 .. Len(fs) : HeaderReadable(fs[i])
  PROVE  LET hs == SetHeaders(<<>>, fs) IN WellSet(hs) /\ (Len(fs) # 0 => Len(hs) # 0)
<1>1. Len(fs) \in Nat
  BY LenIsNat
<1>2. PICK l : /\ SetHeaders(<<>>, fs) = l[Len(fs)] /\ l[0] = <<>>
               /\ \A i \in 1 .. Len(fs) : l[i] = SetHeader(l[i - 1], fs[i].name, fs[i].value)
  <2>1. \E l : SetOneByOne(l, <<>>, fs, Len(fs))
    BY <1>1, SetSteps
  <2> QED
    BY <2>1 DEF SetOneByOne
<1> DEFINE Good(k) == WellSet(l[k]) /\ (k # 0 => Len(l[k]) # 0)
           S == {k \in Nat : k <= Len(fs) => Good(k)}
<1>3. 0 \in S
  <2>1. IsSeq(l[0]) /\ Len(l[0]) = 0
    BY <1>2, EmptyIsSeq
  <2>2. WellSet(l[0])
    BY <2>1 DEF WellSet
  <2> QED
    BY <2>2
<1>4. ASSUME NEW k \in Nat, k \in S PROVE k + 1 \in S
  <2> SUFFICES ASSUME k + 1 <= Len(fs) PROVE Good(k + 1)
    OBVIOUS
  <2>1. WellSet(l[k]) /\ k + 1 \in 1 .. Len(fs) /\ (k + 1) - 1 = k
    BY <1>1, <1>4
  <2>2. l[k + 1] = SetHeader(l[k], fs[k + 1].name, fs[k + 1].value)
    BY <1>2, <2>1
  <2>3. HeaderReadable(Header(fs[k + 1].name, fs[k + 1].value))
    <3>1. HeaderReadable(fs[k + 1])
      BY <2>1
    <3>2. fs[k + 1] = Header(fs[k + 1].name, fs[k + 1].value)
      BY <3>1 DEF HeaderReadable, Header
    <3> QED
      BY <3>1, <3>2, Zenon
  <2>4. WellSet(l[k + 1]) /\ Len(l[k + 1]) # 0
    BY <2>1, <2>2, <2>3, SetHeaderKeeps
  <2> QED
    BY <2>4
<1> HIDE DEF Good
<1>5. Good(Len(fs))
  <2>1. Nat \subseteq S
    <3> HIDE DEF S
    <3> QED
      BY <1>3, <1>4, Induction
  <2> QED
    BY <1>1, <2>1
<1> QED
  BY <1>2, <1>5 DEF Good

(* Read in the order they were written, they are found under the same names. *)
LEMMA NewestSame ==
  ASSUME NEW hs, WellSet(hs)
  PROVE  LET g == Newest(hs, Len(hs))
         IN /\ \A n : HasHeader(g, n) <=> HasHeader(hs, n)
            /\ \A n : HasHeader(hs, n) => HeaderValue(g, n) = HeaderValue(hs, n)
            /\ SameHeaders(g, hs)
<1> DEFINE N == Len(hs)
           g == Newest(hs, N)
<1>1. IsSeq(hs) /\ N \in Nat /\ DOMAIN hs = 1 .. N
  BY LenIsNat DEF WellSet, IsSeq
<1>2. IsSeq(g) /\ Len(g) = N /\ \A i \in 1 .. N : g[i] = hs[N + 1 - i]
  <2>1. IsSeq(g) /\ Len(g) = N
    BY <1>1, NewestNone
  <2>2. g = [i \in 1 .. N |-> hs[N + 1 - i]]
    BY Zenon DEF Newest
  <2> HIDE DEF g
  <2> QED
    BY <2>1, <2>2
<1>3. \A i, j \in 1 .. N : Same(hs[i].name, hs[j].name) => i = j
  BY DEF WellSet
<1> HIDE DEF N, g
<1>4. \A i \in 1 .. N : N + 1 - i \in 1 .. N /\ N + 1 - (N + 1 - i) = i /\ hs[i] = g[N + 1 - i]
  <2>1. \A i \in 1 .. N : N + 1 - i \in 1 .. N /\ N + 1 - (N + 1 - i) = i
    BY <1>1
  <2> QED
    BY <1>2, <2>1
<1>5. ASSUME NEW n PROVE HasHeader(g, n) <=> HasHeader(hs, n)
  <2>1. HasHeader(g, n) <=> \E i \in 1 .. N : Same(g[i].name, n)
    BY <1>2, NoHolder
  <2>2. HasHeader(hs, n) <=> \E i \in 1 .. N : Same(hs[i].name, n)
    BY <1>1, NoHolder DEF N
  <2> QED
    BY <1>2, <1>4, <2>1, <2>2
<1>6. ASSUME NEW n, HasHeader(hs, n)
      PROVE  \E i \in 1 .. N : /\ Same(hs[i].name, n) /\ HeaderValue(hs, n) = hs[i].value
                               /\ HeaderValue(g, n) = hs[i].value
  <2>1. PICK i \in 1 .. N : Same(hs[i].name, n)
    BY <1>1, <1>6, NoHolder DEF N
  <2>2. \A j \in 1 .. N : Same(hs[j].name, n) => j = i
    BY <1>3, <2>1 DEF Same
  <2>3. HeaderValue(hs, n) = hs[i].value
    BY <1>1, <2>1, <2>2, HolderOf DEF N
  <2> DEFINE k == N + 1 - i
  <2>4. k \in 1 .. N /\ g[k] = hs[i]
    BY <1>4
  <2>5. \A j \in 1 .. N : Same(g[j].name, n) => j = k
    <3> SUFFICES ASSUME NEW j \in 1 .. N, Same(g[j].name, n) PROVE j = k
      OBVIOUS
    <3>1. N + 1 - j = i
      BY <1>2, <1>4, <2>2
    <3> QED
      BY <1>1, <3>1
  <2> HIDE DEF k
  <2>6. HeaderValue(g, n) = g[k].value
    BY <1>2, <2>1, <2>4, <2>5, HolderOf
  <2> QED
    BY <2>1, <2>3, <2>4, <2>6
<1>7. ASSUME NEW n, HasHeader(hs, n) PROVE HeaderValue(g, n) = HeaderValue(hs, n)
  BY <1>6, <1>7
<1>8. SameHeaders(g, hs)
  <2> SUFFICES ASSUME NEW i \in 1 .. N PROVE HeaderIs(g, hs[i].name, hs[i].value)
    BY <1>1 DEF SameHeaders
  <2>1. Same(hs[i].name, hs[i].name)
    BY DEF Same
  <2>2. HasHeader(hs, hs[i].name)
    BY <1>1, <2>1, NoHolder DEF N
  <2>3. PICK j \in 1 .. N : Same(hs[j].name, hs[i].name) /\ HeaderValue(g, hs[i].name) = hs[j].value
    BY <1>6, <2>2
  <2>4. j = i
    BY <1>3, <2>3
  <2>5. Same(HeaderValue(g, hs[i].name), hs[i].value)
    BY <2>3, <2>4 DEF Same
  <2> QED
    BY <1>5, <2>2, <2>5 DEF HeaderIs
<1> QED
  BY <1>5, <1>7, <1>8 DEF g, N

-----------------------------------------------------------------------------
(* What a request that can be read back is, for the parser. *)
IsName(s) == IsSeq(s) /\ \A i \in 1 .. Len(s) : IsNameChar(s[i])
ChunksReadable(m) ==
  /\ IsSeq(m.chunks)
  /\ \A i \in 1 .. Len(m.chunks) : FreeOf(m.chunks[i], {"\r"}) /\ Len(m.chunks[i]) \in 1 .. 255
  /\ IsSeq(m.extension)
  /\ \A i \in 1 .. Len(m.extension) : IsName(m.extension[i].name) /\ IsName(m.extension[i].value)
  /\ IsSeq(m.trailer)
  /\ \A i \in 1 .. Len(m.trailer) : /\ IsName(m.trailer[i].name) /\ Len(m.trailer[i].name) # 0
                                    /\ IsName(m.trailer[i].value)

\* The same of the fields alone.
ShakesOn(hs) ==
  HasHeader(hs, <<"Expect">>) /\ HeaderIs(hs, <<"Transfer-Encoding">>, <<"100-continue">>)
ByChunks(hs) == HeaderIs(hs, <<"Transfer-Encoding">>, <<"chunked">>)
Measured(hs, n) == HasHeader(hs, <<"Content-Length">>) /\ Length(hs) = n

BodyReadable(r, m) ==
  /\ m.chunked \in BOOLEAN /\ (m.chunked => ChunksReadable(m)) /\ Pieces(m.chunks)
  /\ IF Carries(r.command)
     THEN /\ ~ShakesOn(r.headers) /\ Len(Content(m)) <= BodyMax
          /\ (ByChunks(r.headers) <=> m.chunked)
          /\ (~m.chunked => Measured(r.headers, Len(Content(m))))
     ELSE Content(m) = <<>>

Sent(r, m) ==
  /\ Readable(r) /\ WellSet(r.headers) /\ IsSeq(HeadText(r)) /\ Len(HeadText(r)) <= HeaderMax
  /\ Encoded(m) # <<>> => Len(HeadText(r)) < HeaderMax
  /\ BodyReadable(r, m)

-----------------------------------------------------------------------------
(* The calls that fill the context change a field of the request each. *)
HttpPut(h, f, v) == [h EXCEPT !.request[f] = v]

LEMMA HttpPutParts ==
  ASSUME NEW h, ShapedHttp(h), NEW f \in RequestFields, NEW v
  PROVE  /\ ShapedHttp(HttpPut(h, f, v)) /\ HttpPut(h, f, v).request[f] = v
         /\ \A g \in RequestFields \ {f} : HttpPut(h, f, v).request[g] = h.request[g]
<1> DEFINE r == [h.request EXCEPT ![f] = v]
           y == [h EXCEPT !.request = r]
<1>1. y = HttpPut(h, f, v)
  BY DEF HttpPut
<1>2. /\ r = [g \in RequestFields |-> r[g]] /\ r[f] = v
      /\ \A g \in RequestFields \ {f} : r[g] = h.request[g]
  BY DEF ShapedHttp
<1> HIDE DEF r
<1>3. y = [g \in HttpFields |-> y[g]] /\ y.request = r
  BY DEF ShapedHttp, HttpFields
<1> HIDE DEF y
<1>4. ShapedHttp(y)
  BY <1>2, <1>3 DEF ShapedHttp
<1> QED
  BY <1>1, <1>2, <1>3, <1>4

LEMMA CleanParts ==
  ASSUME NEW h, "request" \in DOMAIN h
  PROVE  /\ ShapedHttp(CleanupHttp(h)) /\ CleanupHttp(h).request.headers = <<>>
         /\ CleanupHttp(h).request.body = <<>>
<1> DEFINE p == h.request.parameters
           g == h.request.fragment
           s == h.request.shake
           a == [InitRequest EXCEPT !.parameters = p, !.fragment = g]
           b == [a EXCEPT !.shake = s]
           y == [InitHttp EXCEPT !.request = b]
<1>1. CleanupRequest(h).request = a
  <2> HIDE DEF a
  <2>1. [h EXCEPT !.request = a].request = a
    OBVIOUS
  <2> QED
    BY <2>1, Zenon DEF CleanupRequest, a, p, g
<1>2. CleanupHttp(h) = y
  BY <1>1, Zenon DEF CleanupHttp
<1> HIDE DEF p, g, s
<1>3. b = [f \in RequestFields |-> b[f]] /\ b.headers = <<>> /\ b.body = <<>>
  BY DEF InitRequest, RequestFields
<1> HIDE DEF b
<1>4. y.request = b /\ y = [f \in HttpFields |-> y[f]]
  BY DEF InitHttp, HttpFields
<1> HIDE DEF y
<1> QED
  BY <1>2, <1>3, <1>4 DEF ShapedHttp

MeantVersion(m) == IF m.version \in Versions THEN m.version ELSE 10
Meant(r, m) ==
  /\ r.command = PackedCommand(CommandNumber(m.command)) /\ r.version = MeantVersion(m)
  /\ r.url = m.url /\ r.parameters = m.parameters /\ r.query = m.query
  /\ r.fragment = m.fragment /\ r.headers = SetHeaders(<<>>, m.headers) /\ r.body = <<>>

LEMMA PackedParts ==
  ASSUME NEW h, "request" \in DOMAIN h, NEW m
  PROVE  Meant(RequestPacked(Filled(h, m)).request, m)
         /\ ShapedHttp(RequestPacked(Filled(h, m)))
<1> DEFINE c0 == CommandNumber(m.command)
           h0 == CleanupHttp(h)
           h1 == HttpPut(h0, "command", c0)
           h2 == HttpPut(h1, "version", m.version)
           h3 == HttpPut(h2, "url", m.url)
           h4 == HttpPut(h3, "parameters", m.parameters)
           h5 == HttpPut(h4, "query", m.query)
           h6 == HttpPut(h5, "fragment", m.fragment)
           h7 == HttpPut(h6, "headers", SetHeaders(h6.request.headers, m.headers))
           h8 == HttpPut(h7, "command", PackedCommand(h7.request.command))
           h9 == HttpPut(h8, "version",
                   IF h8.request.version \in Versions THEN h8.request.version ELSE 10)
<1>1. Filled(h, m) = h7
  BY Zenon DEF Filled, SetCommand, RequestSetVersion, SetUrl, SetParameters, SetQuery, SetFragment, HttpPut
<1> HIDE DEF h0, h1, h2, h3, h4, h5, h6, h7, h8, h9, c0
<1>a. ShapedHttp(h0) /\ h0.request.headers = <<>> /\ h0.request.body = <<>>
  BY CleanParts DEF h0
<1>b. /\ ShapedHttp(h1) /\ h1.request.command = c0
      /\ h1.request.headers = <<>> /\ h1.request.body = <<>>
  BY <1>a, HttpPutParts DEF h1, RequestFields
<1>c. /\ ShapedHttp(h2) /\ h2.request.command = c0 /\ h2.request.version = m.version
      /\ h2.request.headers = <<>> /\ h2.request.body = <<>>
  BY <1>b, HttpPutParts DEF h2, RequestFields
<1>d. /\ ShapedHttp(h3) /\ h3.request.command = c0 /\ h3.request.version = m.version
      /\ h3.request.url = m.url
      /\ h3.request.headers = <<>> /\ h3.request.body = <<>>
  BY <1>c, HttpPutParts DEF h3, RequestFields
<1>e. /\ ShapedHttp(h4) /\ h4.request.command = c0 /\ h4.request.version = m.version
      /\ h4.request.url = m.url /\ h4.request.parameters = m.parameters
      /\ h4.request.headers = <<>> /\ h4.request.body = <<>>
  BY <1>d, HttpPutParts DEF h4, RequestFields
<1>f. /\ ShapedHttp(h5) /\ h5.request.command = c0 /\ h5.request.version = m.version
      /\ h5.request.url = m.url /\ h5.request.parameters = m.parameters
      /\ h5.request.query = m.query
      /\ h5.request.headers = <<>> /\ h5.request.body = <<>>
  BY <1>e, HttpPutParts DEF h5, RequestFields
<1>g. /\ ShapedHttp(h6) /\ h6.request.command = c0 /\ h6.request.version = m.version
      /\ h6.request.url = m.url /\ h6.request.parameters = m.parameters
      /\ h6.request.query = m.query /\ h6.request.fragment = m.fragment
      /\ h6.request.headers = <<>> /\ h6.request.body = <<>>
  BY <1>f, HttpPutParts DEF h6, RequestFields
<1> DEFINE hs == SetHeaders(<<>>, m.headers)
<1>h. h7 = HttpPut(h6, "headers", hs)
  BY <1>g, Zenon DEF h7
<1> HIDE DEF hs
<1>i. /\ ShapedHttp(h7) /\ h7.request.command = c0 /\ h7.request.version = m.version
      /\ h7.request.url = m.url /\ h7.request.parameters = m.parameters
      /\ h7.request.query = m.query /\ h7.request.fragment = m.fragment
      /\ h7.request.headers = hs /\ h7.request.body = <<>>
  BY <1>g, <1>h, HttpPutParts DEF RequestFields
<1> DEFINE c == PackedCommand(c0)
           v == MeantVersion(m)
<1>j. h8 = HttpPut(h7, "command", c)
  BY <1>i, Zenon DEF h8
<1> HIDE DEF c
<1>k. /\ ShapedHttp(h8) /\ h8.request.command = c /\ h8.request.version = m.version
      /\ h8.request.url = m.url /\ h8.request.parameters = m.parameters
      /\ h8.request.query = m.query /\ h8.request.fragment = m.fragment
      /\ h8.request.headers = hs /\ h8.request.body = <<>>
  BY <1>i, <1>j, HttpPutParts DEF RequestFields
<1>2. RequestPacked(h7) = h9
  <2>1. h8.request.version = h7.request.version
    BY <1>i, <1>k
  <2> DEFINE r == h7.request
             p == PackedCommand(r.command)
             w == IF r.version \in Versions THEN r.version ELSE 10
             q == [r EXCEPT !.command = p]
             z == [q EXCEPT !.version = w]
             y == [h7 EXCEPT !.request = z]
  <2>2. RequestPacked(h7) = y
    BY <1>i DEF RequestPacked, ShapedHttp, RequestFields, HttpFields
  <2>3. h9 = y
    BY <1>i, <2>1 DEF h9, h8, HttpPut, ShapedHttp, RequestFields, HttpFields
  <2> QED
    BY <2>2, <2>3
<1>3. RequestPacked(Filled(h, m)) = h9
  BY <1>1, <1>2, Zenon
<1>l. h9 = HttpPut(h8, "version", v)
  BY <1>k, Zenon DEF h9, MeantVersion
<1> HIDE DEF v
<1>m. /\ ShapedHttp(h9) /\ h9.request.command = c /\ h9.request.version = v
      /\ h9.request.url = m.url /\ h9.request.parameters = m.parameters
      /\ h9.request.query = m.query /\ h9.request.fragment = m.fragment
      /\ h9.request.headers = hs /\ h9.request.body = <<>>
  BY <1>k, <1>l, HttpPutParts DEF RequestFields
<1> QED
  BY <1>3, <1>m DEF Meant, c, v, hs, c0

-----------------------------------------------------------------------------
(* Two requests that are meant alike are written alike. *)
TextOf(c, url, p, q, f, v, hs) ==
  LET r == [command |-> c, url |-> url, parameters |-> p, query |-> q, fragment |-> f,
            version |-> v, headers |-> hs]
  IN HeadText(r)

LEMMA TextIs ==
  ASSUME NEW r
  PROVE  HeadText(r) = TextOf(r.command, r.url, r.parameters, r.query, r.fragment, r.version,
                              r.headers)
<1> DEFINE z == [command |-> r.command, url |-> r.url, parameters |-> r.parameters,
                 query |-> r.query, fragment |-> r.fragment, version |-> r.version,
                 headers |-> r.headers]
<1>1. /\ z.command = r.command /\ z.url = r.url /\ z.parameters = r.parameters
      /\ z.query = r.query /\ z.fragment = r.fragment /\ z.version = r.version
      /\ z.headers = r.headers
  OBVIOUS
<1>2. TextOf(r.command, r.url, r.parameters, r.query, r.fragment, r.version, r.headers) = HeadText(z)
  BY Zenon DEF TextOf
<1> HIDE DEF z
<1>3. /\ Word(z) = Word(r) /\ \A k : LineEnd(z, k) = LineEnd(r, k)
  BY <1>1, Zenon DEF Word, LineEnd, BehindLines, Lines
<1>4. BehindTarget(z) = BehindTarget(r)
  BY <1>1, <1>3, Zenon DEF BehindTarget
<1>5. BehindQuery(z) = BehindQuery(r)
  BY <1>1, <1>4, Zenon DEF BehindQuery
<1>6. BehindParameters(z) = BehindParameters(r)
  BY <1>1, <1>5, Zenon DEF BehindParameters
<1>7. BehindUrl(z) = BehindUrl(r)
  BY <1>1, <1>6, Zenon DEF BehindUrl
<1>8. HeadText(z) = HeadText(r)
  BY <1>1, <1>3, <1>7, Zenon DEF HeadText
<1> QED
  BY <1>2, <1>8

LEMMA FreeIs ==
  ASSUME NEW marks, NEW s, s \in Free(marks)
  PROVE  FreeOf(s, marks)
<1>1. s \in Seq(Symbols \ marks)
  BY DEF Free
<1>2. \A i \in 1 .. Len(s) : s[i] \in Symbols \ marks
  BY <1>1
<1> QED
  BY <1>1, <1>2 DEF FreeOf, IsSeq

LEMMA NamesAre ==
  ASSUME NEW s, s \in Names
  PROVE  IsName(s)
<1> DEFINE S == {c \in Symbols : IsNameChar(c)}
<1>1. s \in Seq(S)
  BY DEF Names
<1>2. \A i \in 1 .. Len(s) : s[i] \in S
  <2> HIDE DEF S
  <2> QED
    BY <1>1
<1> QED
  BY <1>1, <1>2 DEF IsName, IsSeq

LEMMA FieldsAre ==
  ASSUME NEW N, NEW V, NEW fs, fs \in Fields(N, V)
  PROVE  IsSeq(fs) /\ \A i \in 1 .. Len(fs) :
           fs[i] = [name |-> fs[i].name, value |-> fs[i].value] /\ fs[i].name \in N /\ fs[i].value \in V
<1> DEFINE R == [name : N, value : V]
<1>1. fs \in Seq(R)
  BY DEF Fields
<1>2. \A i \in 1 .. Len(fs) : fs[i] \in R
  <2> HIDE DEF R
  <2> QED
    BY <1>1
<1>3. \A z \in R : z = [name |-> z.name, value |-> z.value] /\ z.name \in N /\ z.value \in V
  OBVIOUS
<1> HIDE DEF R
<1> QED
  BY <1>1, <1>2, <1>3 DEF IsSeq

LEMMA NotNone ==
  ASSUME NEW s, IsSeq(s)
  PROVE  s # <<>> <=> Len(s) # 0
BY DEF IsSeq

LEMMA ChunksAre ==
  ASSUME NEW m, ChunksSendable(m), IsSeq(m.chunks)
  PROVE  ChunksReadable(m)
<1>1. ASSUME NEW i \in 1 .. Len(m.chunks)
      PROVE  FreeOf(m.chunks[i], {"\r"}) /\ Len(m.chunks[i]) \in 1 .. 255
  <2>1. i \in DOMAIN m.chunks
    BY DEF IsSeq
  <2> QED
    BY <2>1, FreeIs DEF ChunksSendable
<1>2. IsSeq(m.extension) /\ \A i \in 1 .. Len(m.extension) :
        IsName(m.extension[i].name) /\ IsName(m.extension[i].value)
  BY FieldsAre, NamesAre DEF ChunksSendable
<1>3. IsSeq(m.trailer) /\ \A i \in 1 .. Len(m.trailer) :
        /\ IsName(m.trailer[i].name) /\ Len(m.trailer[i].name) # 0 /\ IsName(m.trailer[i].value)
  <2>1. m.trailer \in Fields(Names \ {<<>>}, Names)
    BY DEF ChunksSendable
  <2>2. IsSeq(m.trailer) /\ \A i \in 1 .. Len(m.trailer) :
          m.trailer[i].name \in Names \ {<<>>} /\ m.trailer[i].value \in Names
    BY <2>1, FieldsAre
  <2>3. \A s \in Names \ {<<>>} : IsName(s) /\ Len(s) # 0
    BY NamesAre, NotNone DEF IsName
  <2> QED
    BY <2>2, <2>3, NamesAre
<1> QED
  BY <1>1, <1>2, <1>3 DEF ChunksReadable

LEMMA LineIs ==
  ASSUME NEW r, LineSendable(r), r.version \in Versions
  PROVE  LineReadable(r)
<1>1. Word(r) \in Recognised /\ CommandNumber(Word(r)) = r.command
  BY DEF LineSendable, Word
<1>2. r.url \in Free({SP, SEMI, "?", "#", "\r"}) /\ r.url # <<>> /\ r.url[1] = "/" /\ Len(r.url) <= UrlMax
  BY DEF LineSendable
<1>3. FreeOf(r.url, {SP, SEMI, "?", "#", "\r"})
  BY <1>2, FreeIs
<1>4. Len(r.url) \in 1 .. UrlMax
  <2>1. IsSeq(r.url) /\ Len(r.url) \in Nat /\ Len(r.url) # 0
    BY <1>2, <1>3, NotNone, LenIsNat DEF FreeOf
  <2> QED
    BY <1>2, <2>1, HeadAssumption
<1>5. /\ FreeOf(r.parameters, {SP, "?", "#", "\r"}) /\ FreeOf(r.query, {SP, SEMI, "#", "\r"})
      /\ FreeOf(r.fragment, {SP, "\r"})
  BY FreeIs DEF LineSendable
<1> QED
  BY <1>1, <1>2, <1>3, <1>4, <1>5 DEF LineReadable

LEMMA HeadersAre ==
  ASSUME NEW fs, fs \in Fields(Names \ {<<>>}, Free({"\r"})) \ {<<>>}
  PROVE  WellSet(SetHeaders(<<>>, fs)) /\ HeadersReadable(SetHeaders(<<>>, fs))
<1>1. IsSeq(fs) /\ \A i \in 1 .. Len(fs) :
        fs[i] = [name |-> fs[i].name, value |-> fs[i].value] /\ fs[i].name \in Names \ {<<>>}
        /\ fs[i].value \in Free({"\r"})
  BY FieldsAre
<1>2. ASSUME NEW i \in 1 .. Len(fs) PROVE HeaderReadable(fs[i])
  <2>1. IsName(fs[i].name) /\ fs[i].name # <<>> /\ FreeOf(fs[i].value, {"\r"})
    BY <1>1, NamesAre, FreeIs
  <2>2. Len(fs[i].name) # 0
    BY <2>1, NotNone DEF IsName
  <2> QED
    BY <1>1, <2>1, <2>2 DEF HeaderReadable, IsName
<1>3. Len(fs) # 0
  BY <1>1, NotNone
<1>4. WellSet(SetHeaders(<<>>, fs)) /\ Len(SetHeaders(<<>>, fs)) # 0
  BY <1>1, <1>2, <1>3, HeadersSet
<1> QED
  BY <1>4 DEF WellSet, HeadersReadable

LEMMA MeantIs ==
  ASSUME NEW r, NEW z, NEW m, Meant(r, m), Meant(z, m), LineSendable(z),
         m.headers \in Fields(Names \ {<<>>}, Free({"\r"})) \ {<<>>}
  PROVE  Readable(r) /\ WellSet(r.headers) /\ HeadText(r) = HeadText(z)
         /\ PackedCommand(r.command) = r.command
<1>1. /\ r.command = z.command /\ r.version = z.version /\ r.url = z.url
      /\ r.parameters = z.parameters /\ r.query = z.query /\ r.fragment = z.fragment
      /\ r.headers = z.headers
  BY DEF Meant
<1>2. r.version \in Versions
  BY DEF Meant, MeantVersion, Versions
<1>3. LineSendable(r)
  BY <1>1, Zenon DEF LineSendable
<1>4. WellSet(r.headers) /\ HeadersReadable(r.headers)
  BY HeadersAre DEF Meant
<1>5. HeadText(r) = HeadText(z)
  BY <1>1, TextIs, Zenon
<1>6. PackedCommand(r.command) = r.command
  BY CommandNumbers DEF Meant
<1> QED
  BY <1>2, <1>3, <1>4, <1>5, <1>6, LineIs DEF Readable

(* What is sent is readable, and begins with the text of the head. *)
LEMMA SentIs ==
  ASSUME NEW h, "request" \in DOMAIN h, NEW m, Sendable(m)
  PROVE  LET client == RequestPacked(Filled(h, m))
         IN /\ Sent(client.request, m) /\ client.request.body = <<>> /\ ShapedHttp(client)
            /\ RequestPack(client) = HeadText(client.request)
<1> DEFINE client == RequestPacked(Filled(h, m))
           r == client.request
           own == RequestPacked(Filled(InitHttp, m))
           z == own.request
           x == ParserStart("request", own)
<1>1. Meant(r, m) /\ ShapedHttp(client)
  BY PackedParts
<1>2. Meant(z, m)
  <2>1. "request" \in DOMAIN InitHttp
    BY DEF InitHttp
  <2> QED
    BY <2>1, PackedParts
<1>3. /\ LineSendable(z) /\ m.headers \in Fields(Names \ {<<>>}, Free({"\r"})) \ {<<>>}
      /\ Len(RequestPack(own)) <= HeaderMax /\ (Encoded(m) # <<>> => Len(RequestPack(own)) < HeaderMax)
      /\ m.chunks \in Seq(Free({})) /\ m.chunked \in BOOLEAN /\ (m.chunked => ChunksSendable(m))
      /\ IF Carries(z.command)
         THEN /\ ~Shakes(x) /\ Len(Content(m)) <= BodyMax /\ (Chunked(x) <=> m.chunked)
              /\ m.chunked \/ Measured(z.headers, Len(Content(m)))
         ELSE Len(Content(m)) = 0
  BY Zenon DEF Sendable, Measured
<1>4. x.http = own /\ x.side = "request"
  <2> HIDE DEF own
  <2> QED
    BY DEF ParserStart
<1>5. (Shakes(x) <=> ShakesOn(z.headers)) /\ (Chunked(x) <=> ByChunks(z.headers))
  <2> HIDE DEF x, own
  <2> QED
    BY <1>4, Zenon DEF Shakes, ShakesOn, Chunked, ByChunks
<1> HIDE DEF x, client, own
<1>6. Readable(r) /\ WellSet(r.headers) /\ HeadText(r) = HeadText(z) /\ PackedCommand(r.command) = r.command
  BY <1>1, <1>2, <1>3, MeantIs
<1>7. RequestPack(client) = HeadText(r) /\ IsSeq(HeadText(r)) /\ r.body = <<>>
  BY <1>1, <1>6, Packed DEF Meant
<1>8. RequestPack(own) = HeadText(z)
  <2>1. Readable(z) /\ PackedCommand(z.command) = z.command /\ z.body = <<>>
    BY <1>2, <1>3, MeantIs DEF Meant
  <2> QED
    BY <2>1, Packed
<1>9. r.headers = z.headers /\ r.command = z.command
  BY <1>1, <1>2 DEF Meant
<1>10. Pieces(m.chunks)
  <2>1. IsSeq(m.chunks) /\ \A i \in 1 .. Len(m.chunks) : m.chunks[i] \in Free({})
    <3> DEFINE S == Free({})
    <3>1. m.chunks \in Seq(S)
      BY <1>3
    <3> HIDE DEF S
    <3>2. IsSeq(m.chunks) /\ \A i \in 1 .. Len(m.chunks) : m.chunks[i] \in S
      BY <3>1 DEF IsSeq
    <3> QED
      BY <3>2 DEF S
  <2> QED
    BY <2>1, FreeIs DEF Pieces, FreeOf
<1>11. Len(Content(m)) = 0 => Content(m) = <<>>
  BY <1>10, FlattenIsSeq, NotNone DEF Content
<1>12. m.chunked => ChunksReadable(m)
  BY <1>3, <1>10, ChunksAre DEF Pieces
<1>13. BodyReadable(r, m)
  <2>1. CASE Carries(r.command)
    BY <1>3, <1>5, <1>9, <1>10, <1>12, <2>1 DEF BodyReadable
  <2>2. CASE ~Carries(r.command)
    BY <1>3, <1>9, <1>10, <1>11, <1>12, <2>2 DEF BodyReadable
  <2> QED
    BY <2>1, <2>2
<1>14. Sent(r, m)
  BY <1>3, <1>6, <1>7, <1>8, <1>13 DEF Sent
<1> QED
  BY <1>1, <1>7, <1>14 DEF client

-----------------------------------------------------------------------------
(* A chunked body, from what is behind one part of it to what is behind the *)
(* next.  k of the chunks, j extensions of a chunk or lines of the trailer  *)
(* were read.                                                               *)
Extension(n) == <<SEMI>> \o n.name \o <<"=">> \o n.value
ExtensionPieces(m) == [i \in DOMAIN m.extension |-> Extension(m.extension[i])]
TrailerPieces(m) == [i \in DOMAIN m.trailer |-> TrailerLine(m.trailer[i])]
ChunkPieces(m) == [i \in DOMAIN m.chunks |-> Chunk(m, m.chunks[i])]
Ends(u) == <<"\r">> \o (<<"\n">> \o u)

BehindTrailer(m, j) == Left(TrailerPieces(m), j) \o CRLF
BehindChunks(m, k) == Left(ChunkPieces(m), k) \o (<<"0">> \o Ends(BehindTrailer(m, 0)))
SizeText(m, k) == IF k < Len(m.chunks) THEN HexSize(Len(m.chunks[k + 1])) ELSE <<"0">>
DataText(m, k) == IF k < Len(m.chunks) THEN m.chunks[k + 1] \o Ends(BehindChunks(m, k + 1))
                  ELSE BehindTrailer(m, 0)
BehindExtensions(m, k, j) == Left(ExtensionPieces(m), j) \o Ends(DataText(m, k))
\* The chunk that ends the body has no extensions.
FirstExtension(m, k) == IF k < Len(m.chunks) THEN 0 ELSE Len(m.extension)
BehindSize(m, k) == BehindExtensions(m, k, FirstExtension(m, k))

LEMMA EndsIsSeq ==
  ASSUME NEW u, IsSeq(u)
  PROVE  IsSeq(Ends(u)) /\ IsSeq(<<"\n">> \o u) /\ CRLF \o u = Ends(u) /\ IsSeq(CRLF)
<1>1. \A c, v : IsSeq(v) => IsSeq(<<c>> \o v)
  BY Mark
<1>2. IsSeq(<<"\n">> \o u) /\ IsSeq(Ends(u))
  BY <1>1 DEF Ends
<1>3. CRLF \o u = Ends(u)
  <2>1. <<"\r", "\n">> \o u = <<"\r">> \o (<<"\n">> \o u)
    BY Pair
  <2> QED
    BY <2>1 DEF CRLF, Ends
<1>4. IsSeq(CRLF)
  <2>1. <<"\r", "\n">> \in Seq({"\r", "\n"})
    OBVIOUS
  <2> QED
    BY <2>1 DEF CRLF, IsSeq
<1> QED
  BY <1>2, <1>3, <1>4

(* Pieces that are made of the entries of a list. *)
LEMMA PiecesOf ==
  ASSUME NEW s, IsSeq(s), NEW ss, NEW D, D = DOMAIN s, DOMAIN ss = D, ss = [i \in D |-> ss[i]],
         \A i \in 1 .. Len(s) : IsSeq(ss[i])
  PROVE  Pieces(ss) /\ Len(ss) = Len(s) /\ Len(s) \in Nat
<1>1. PICK S : s \in Seq(S)
  BY DEF IsSeq
<1>2. DOMAIN s = 1 .. Len(s) /\ Len(s) \in Nat
  BY <1>1
<1> DEFINE T == {ss[i] : i \in 1 .. Len(s)}
<1>3. ss \in [1 .. Len(s) -> T]
  BY <1>2
<1>4. ss \in Seq(T) /\ Len(ss) = Len(s)
  <2> HIDE DEF T
  <2> QED
    BY <1>2, <1>3
<1> QED
  BY <1>2, <1>4 DEF Pieces, IsSeq

Cat4Of(a, b, c, d, u) ==
  /\ (((a \o b) \o c) \o d) \o u = a \o (b \o (c \o (d \o u)))
  /\ IsSeq(((a \o b) \o c) \o d) /\ IsSeq(a \o (b \o (c \o (d \o u))))
  /\ IsSeq(b \o (c \o (d \o u))) /\ IsSeq(c \o (d \o u)) /\ IsSeq(d \o u)

LEMMA Cat4 ==
  ASSUME NEW a, NEW b, NEW c, NEW d, NEW u, IsSeq(a), IsSeq(b), IsSeq(c), IsSeq(d), IsSeq(u)
  PROVE  Cat4Of(a, b, c, d, u)
<1>1. IsSeq(Join(d, u)) /\ IsSeq(Join(a, b)) /\ IsSeq(Join(c, Join(d, u)))
  BY Joins
<1>2. IsSeq(Join(b, Join(c, Join(d, u)))) /\ IsSeq(Join(Join(a, b), c))
  BY <1>1, Joins
<1>3. IsSeq(Join(a, Join(b, Join(c, Join(d, u))))) /\ IsSeq(Join(Join(Join(a, b), c), d))
  BY <1>1, <1>2, Joins
<1>4. Join(Join(Join(Join(a, b), c), d), u) = Join(Join(Join(a, b), c), Join(d, u))
  BY <1>2, Joins
<1>5. Join(Join(Join(a, b), c), Join(d, u)) = Join(Join(a, b), Join(c, Join(d, u)))
  BY <1>1, Joins
<1>6. Join(Join(a, b), Join(c, Join(d, u))) = Join(a, Join(b, Join(c, Join(d, u))))
  BY <1>1, Joins
<1> QED
  BY <1>1, <1>2, <1>3, <1>4, <1>5, <1>6, Zenon DEF Join, Cat4Of

LEMMA TrailerLeft ==
  ASSUME NEW m, ChunksReadable(m)
  PROVE  /\ Len(m.trailer) \in Nat /\ \A j \in 0 .. Len(m.trailer) : IsSeq(BehindTrailer(m, j))
         /\ \A j \in 0 .. Len(m.trailer) - 1 :
              BehindTrailer(m, j) = m.trailer[j + 1].name \o (<<":">> \o
                (m.trailer[j + 1].value \o Ends(BehindTrailer(m, j + 1))))
         /\ BehindTrailer(m, Len(m.trailer)) = <<"\r">> \o <<"\n">>
         /\ BehindTrailer(m, 0) = Trailer(m) \o CRLF /\ IsSeq(Trailer(m))
<1> DEFINE ss == TrailerPieces(m)
           N == Len(m.trailer)
<1>1. IsSeq(m.trailer) /\ \A i \in 1 .. N : IsSeq(m.trailer[i].name) /\ IsSeq(m.trailer[i].value)
  BY DEF ChunksReadable, IsName
<1>2. IsSeq(CRLF) /\ IsSeq(<<":">>) /\ CRLF = <<"\r">> \o <<"\n">> /\ IsSeq(<<>>)
  <2>1. IsSeq(<<>>) /\ <<"\n">> \o <<>> = <<"\n">> /\ CRLF \o <<>> = CRLF
    BY EmptyIsSeq, EndsIsSeq, One, Cat
  <2> QED
    BY <2>1, One, EndsIsSeq DEF Ends
<1>3. \A i \in 1 .. N : ss[i] = TrailerLine(m.trailer[i])
  <2>1. DOMAIN m.trailer = 1 .. N
    BY <1>1 DEF IsSeq
  <2> QED
    BY <2>1 DEF TrailerPieces
<1>4. ASSUME NEW i \in 1 .. N, NEW u, IsSeq(u)
      PROVE  /\ ss[i] \o u = m.trailer[i].name \o (<<":">> \o (m.trailer[i].value \o Ends(u)))
             /\ IsSeq(ss[i])
  <2> DEFINE a == m.trailer[i].name
             b == <<":">>
             c == m.trailer[i].value
             e == CRLF
  <2>1. IsSeq(a) /\ IsSeq(b) /\ IsSeq(c) /\ IsSeq(e) /\ IsSeq(u)
    BY <1>1, <1>2, <1>4
  <2>2. ss[i] = ((a \o b) \o c) \o e
    BY <1>3 DEF TrailerLine
  <2>3. e \o u = Ends(u)
    BY <1>4, EndsIsSeq
  <2> HIDE DEF a, b, c, e, ss
  <2>4. (((a \o b) \o c) \o e) \o u = a \o (b \o (c \o (e \o u))) /\ IsSeq(((a \o b) \o c) \o e)
    <3>1. Cat4Of(a, b, c, e, u)
      BY ONLY <2>1, Cat4
    <3> QED
      BY <3>1, Zenon DEF Cat4Of
  <2>6. ss[i] \o u = a \o (b \o (c \o Ends(u))) /\ IsSeq(ss[i])
    BY <2>2, <2>3, <2>4, Zenon
  <2> QED
    BY <2>6 DEF a, b, c
<1>5. Pieces(ss) /\ Len(ss) = N /\ N \in Nat
  <2>1. \A i \in 1 .. N : IsSeq(ss[i])
    BY <1>2, <1>4
  <2>2. DOMAIN ss = DOMAIN m.trailer /\ ss = [i \in DOMAIN m.trailer |-> ss[i]]
    BY DEF TrailerPieces
  <2> HIDE DEF ss
  <2> QED
    BY <1>1, <2>1, <2>2, PiecesOf
<1>6. Trailer(m) = FlattenSeq(ss)
  BY DEF Trailer, TrailerPieces
<1> HIDE DEF ss
<1>7. /\ Left(ss, 0) = FlattenSeq(ss) /\ Left(ss, N) = <<>>
      /\ \A j \in 0 .. N - 1 : Left(ss, j) = ss[j + 1] \o Left(ss, j + 1)
      /\ \A j \in 0 .. N : IsSeq(Left(ss, j))
  BY <1>5, LeftSteps, LeftIsSeq
<1>8. \A j : BehindTrailer(m, j) = Left(ss, j) \o CRLF
  BY DEF BehindTrailer, ss
<1>9. \A j \in 0 .. N : IsSeq(BehindTrailer(m, j))
  <2> SUFFICES ASSUME NEW j \in 0 .. N PROVE IsSeq(BehindTrailer(m, j))
    OBVIOUS
  <2> DEFINE l == Left(ss, j)
             e == CRLF
  <2>1. IsSeq(l) /\ IsSeq(e) /\ BehindTrailer(m, j) = l \o e
    BY <1>2, <1>7, <1>8
  <2> HIDE DEF l, e
  <2> QED
    BY <2>1, Cat
<1>10. ASSUME NEW j \in 0 .. N - 1
       PROVE  BehindTrailer(m, j) = m.trailer[j + 1].name \o (<<":">> \o
                (m.trailer[j + 1].value \o Ends(BehindTrailer(m, j + 1))))
  <2>1. j + 1 \in 1 .. N /\ j + 1 \in 0 .. N
    BY <1>5
  <2> DEFINE a == ss[j + 1]
             l == Left(ss, j + 1)
             u == BehindTrailer(m, j + 1)
             e == CRLF
  <2>2. /\ IsSeq(a) /\ IsSeq(l) /\ IsSeq(u) /\ IsSeq(e)
        /\ u = l \o e /\ BehindTrailer(m, j) = (a \o l) \o e
    BY <1>2, <1>4, <1>7, <1>8, <1>9, <2>1
  <2>3. a \o u = m.trailer[j + 1].name \o (<<":">> \o (m.trailer[j + 1].value \o Ends(u)))
    BY <1>4, <2>1, <2>2
  <2> HIDE DEF a, l, u, e
  <2>4. (a \o l) \o e = a \o (l \o e)
    <3>1. Join(Join(a, l), e) = Join(a, Join(l, e))
      BY ONLY <2>2, Joins
    <3> QED
      BY <3>1, Zenon DEF Join
  <2>5. BehindTrailer(m, j) = a \o u
    BY <2>2, <2>4, Zenon
  <2> QED
    BY <2>3, <2>5, Zenon DEF u
<1>11. BehindTrailer(m, N) = CRLF
  <2>1. BehindTrailer(m, N) = <<>> \o CRLF
    BY <1>7, <1>8
  <2> QED
    BY <1>2, <2>1, Cat
<1>12. 0 \in 0 .. N
  BY <1>5
<1> QED
  BY <1>2, <1>5, <1>6, <1>7, <1>8, <1>9, <1>10, <1>11, <1>12

-----------------------------------------------------------------------------
LEMMA ExtensionsLeft ==
  ASSUME NEW m, ChunksReadable(m), NEW k, IsSeq(DataText(m, k))
  PROVE  /\ Len(m.extension) \in Nat
         /\ \A j \in 0 .. Len(m.extension) : IsSeq(BehindExtensions(m, k, j))
         /\ \A j \in 0 .. Len(m.extension) - 1 :
              BehindExtensions(m, k, j) = <<SEMI>> \o (m.extension[j + 1].name \o (<<"=">> \o
                (m.extension[j + 1].value \o BehindExtensions(m, k, j + 1))))
         /\ BehindExtensions(m, k, Len(m.extension)) = Ends(DataText(m, k))
         /\ BehindExtensions(m, k, 0) = Extensions(m) \o Ends(DataText(m, k))
         /\ IsSeq(Extensions(m))
<1> DEFINE ss == ExtensionPieces(m)
           N == Len(m.extension)
           t == Ends(DataText(m, k))
<1>1. IsSeq(m.extension) /\ \A i \in 1 .. N : IsSeq(m.extension[i].name) /\ IsSeq(m.extension[i].value)
  BY DEF ChunksReadable, IsName
<1>2. IsSeq(t) /\ IsSeq(<<SEMI>>) /\ IsSeq(<<"=">>)
  BY EndsIsSeq, One
<1> HIDE DEF t
<1>3. \A i \in 1 .. N : ss[i] = Extension(m.extension[i])
  <2>1. DOMAIN m.extension = 1 .. N
    BY <1>1 DEF IsSeq
  <2> QED
    BY <2>1 DEF ExtensionPieces
<1>4. ASSUME NEW i \in 1 .. N, NEW u, IsSeq(u)
      PROVE  /\ ss[i] \o u = <<SEMI>> \o (m.extension[i].name \o (<<"=">> \o (m.extension[i].value \o u)))
             /\ IsSeq(ss[i])
  <2> DEFINE a == <<SEMI>>
             b == m.extension[i].name
             c == <<"=">>
             d == m.extension[i].value
  <2>1. IsSeq(a) /\ IsSeq(b) /\ IsSeq(c) /\ IsSeq(d) /\ IsSeq(u)
    BY <1>1, <1>2, <1>4
  <2>2. ss[i] = ((a \o b) \o c) \o d
    BY <1>3 DEF Extension
  <2> HIDE DEF a, b, c, d, ss
  <2>3. (((a \o b) \o c) \o d) \o u = a \o (b \o (c \o (d \o u))) /\ IsSeq(((a \o b) \o c) \o d)
    <3>1. Cat4Of(a, b, c, d, u)
      BY ONLY <2>1, Cat4
    <3> QED
      BY <3>1, Zenon DEF Cat4Of
  <2>4. ss[i] \o u = a \o (b \o (c \o (d \o u))) /\ IsSeq(ss[i])
    BY <2>2, <2>3, Zenon
  <2> QED
    BY <2>4 DEF a, b, c, d
<1>5. Pieces(ss) /\ Len(ss) = N /\ N \in Nat
  <2>1. \A i \in 1 .. N : IsSeq(ss[i])
    BY <1>2, <1>4
  <2>2. DOMAIN ss = DOMAIN m.extension /\ ss = [i \in DOMAIN m.extension |-> ss[i]]
    BY DEF ExtensionPieces
  <2> HIDE DEF ss
  <2> QED
    BY <1>1, <2>1, <2>2, PiecesOf
<1>6. Extensions(m) = FlattenSeq(ss)
  BY Zenon DEF Extensions, ExtensionPieces, Extension
<1> HIDE DEF ss
<1>7. /\ Left(ss, 0) = FlattenSeq(ss) /\ Left(ss, N) = <<>>
      /\ \A j \in 0 .. N - 1 : Left(ss, j) = ss[j + 1] \o Left(ss, j + 1)
      /\ \A j \in 0 .. N : IsSeq(Left(ss, j))
  BY <1>5, LeftSteps, LeftIsSeq
<1>8. \A j : BehindExtensions(m, k, j) = Left(ss, j) \o t
  BY DEF BehindExtensions, ss, t
<1>9. \A j \in 0 .. N : IsSeq(BehindExtensions(m, k, j))
  <2> SUFFICES ASSUME NEW j \in 0 .. N PROVE IsSeq(BehindExtensions(m, k, j))
    OBVIOUS
  <2> DEFINE l == Left(ss, j)
  <2>1. IsSeq(l) /\ BehindExtensions(m, k, j) = l \o t
    BY <1>7, <1>8
  <2> HIDE DEF l
  <2> QED
    BY <1>2, <2>1, Cat
<1>10. ASSUME NEW j \in 0 .. N - 1
       PROVE  BehindExtensions(m, k, j) = <<SEMI>> \o (m.extension[j + 1].name \o (<<"=">> \o
                (m.extension[j + 1].value \o BehindExtensions(m, k, j + 1))))
  <2>1. j + 1 \in 1 .. N /\ j + 1 \in 0 .. N
    BY <1>5
  <2> DEFINE a == ss[j + 1]
             l == Left(ss, j + 1)
             u == BehindExtensions(m, k, j + 1)
  <2>2. /\ IsSeq(a) /\ IsSeq(l) /\ IsSeq(u) /\ IsSeq(t)
        /\ u = l \o t /\ BehindExtensions(m, k, j) = (a \o l) \o t
    BY <1>2, <1>4, <1>7, <1>8, <1>9, <2>1
  <2>3. a \o u = <<SEMI>> \o (m.extension[j + 1].name \o (<<"=">> \o (m.extension[j + 1].value \o u)))
    BY <1>4, <2>1, <2>2
  <2> HIDE DEF a, l, u
  <2>4. (a \o l) \o t = a \o (l \o t)
    <3>1. Join(Join(a, l), t) = Join(a, Join(l, t))
      BY ONLY <2>2, Joins
    <3> QED
      BY <3>1, Zenon DEF Join
  <2>5. BehindExtensions(m, k, j) = a \o u
    BY <2>2, <2>4, Zenon
  <2> QED
    BY <2>3, <2>5, Zenon DEF u
<1>11. BehindExtensions(m, k, N) = t
  <2>1. BehindExtensions(m, k, N) = <<>> \o t
    BY <1>7, <1>8
  <2> QED
    BY <1>2, <2>1, Cat
<1>12. BehindExtensions(m, k, 0) = Extensions(m) \o t
  BY <1>6, <1>7, <1>8, Zenon
<1>13. IsSeq(Extensions(m))
  <2>1. 0 \in 0 .. N
    BY <1>5
  <2> QED
    BY <1>6, <1>7, <2>1
<1> HIDE DEF N
<1> QED
  BY <1>5, <1>9, <1>10, <1>11, <1>12, <1>13, Zenon DEF t, N

Cat5Of(a, b, c, d, f, u) ==
  /\ ((((a \o b) \o c) \o d) \o f) \o u = a \o (b \o (c \o (d \o (f \o u))))
  /\ IsSeq((((a \o b) \o c) \o d) \o f) /\ IsSeq(d \o (f \o u))

LEMMA Cat5 ==
  ASSUME NEW a, NEW b, NEW c, NEW d, NEW f, NEW u,
         IsSeq(a), IsSeq(b), IsSeq(c), IsSeq(d), IsSeq(f), IsSeq(u)
  PROVE  Cat5Of(a, b, c, d, f, u)
<1> DEFINE z == f \o u
           p == ((a \o b) \o c) \o d
<1>1. IsSeq(z)
  BY Cat
<1> HIDE DEF z
<1>2. Cat4Of(a, b, c, d, z)
  BY <1>1, Cat4
<1>3. IsSeq(p) /\ p \o z = a \o (b \o (c \o (d \o z))) /\ IsSeq(d \o z)
  BY <1>2, Zenon DEF Cat4Of
<1> HIDE DEF p
<1>4. (p \o f) \o u = p \o z /\ IsSeq(p \o f)
  <2>1. Join(Join(p, f), u) = Join(p, Join(f, u)) /\ IsSeq(Join(p, f))
    BY <1>3, Joins
  <2> QED
    BY <2>1, Zenon DEF Join, z
<1>5. (p \o f) \o u = a \o (b \o (c \o (d \o z))) /\ IsSeq(p \o f) /\ IsSeq(d \o z)
  BY <1>3, <1>4, Zenon
<1> QED
  BY <1>5, Zenon DEF Cat5Of, p, z

LEMMA ChunksLeft ==
  ASSUME NEW m, ChunksReadable(m)
  PROVE  /\ Len(m.chunks) \in Nat
         /\ \A k \in 0 .. Len(m.chunks) :
              IsSeq(BehindChunks(m, k)) /\ IsSeq(DataText(m, k)) /\ IsSeq(SizeText(m, k))
         /\ \A k \in 0 .. Len(m.chunks) :
              BehindChunks(m, k) = SizeText(m, k) \o BehindSize(m, k) /\ IsSeq(BehindSize(m, k))
         /\ BehindChunks(m, 0) = ChunkLines(m)
         /\ Pieces(m.chunks)
<1> DEFINE ss == ChunkPieces(m)
           N == Len(m.chunks)
           zero == <<"0">>
           tr == BehindTrailer(m, 0)
           t == zero \o Ends(tr)
           e == CRLF
<1>1. IsSeq(m.chunks) /\ N \in Nat /\ \A i \in 1 .. N : IsSeq(m.chunks[i]) /\ Len(m.chunks[i]) \in 1 .. 255
  BY LenIsNat DEF ChunksReadable, FreeOf
<1>2. IsSeq(tr) /\ IsSeq(zero) /\ IsSeq(e) /\ tr = Trailer(m) \o e /\ IsSeq(Trailer(m)) /\ IsSeq(Ends(tr))
  <2>1. IsSeq(tr) /\ tr = Trailer(m) \o e /\ IsSeq(Trailer(m))
    <3>1. Len(m.trailer) \in Nat => 0 \in 0 .. Len(m.trailer)
      OBVIOUS
    <3> QED
      BY <3>1, TrailerLeft
  <2> HIDE DEF tr
  <2> QED
    BY <2>1, EndsIsSeq, One
<1>3. IsSeq(t)
  <2> DEFINE v == Ends(tr)
  <2>1. IsSeq(v)
    BY <1>2
  <2> HIDE DEF v, zero
  <2> QED
    BY <1>2, <2>1, Cat
<1>4. \A i \in 1 .. N : ss[i] = Chunk(m, m.chunks[i])
  <2>1. DOMAIN m.chunks = 1 .. N
    BY <1>1 DEF IsSeq
  <2> QED
    BY <2>1 DEF ChunkPieces
<1>5. IsSeq(Extensions(m))
  <2>0. ~(N < Len(m.chunks))
    BY <1>1
  <2>1. DataText(m, N) = tr
    BY <2>0, Zenon DEF DataText
  <2> QED
    BY <1>2, <2>1, ExtensionsLeft
<1>6. ASSUME NEW i \in 1 .. N, NEW u, IsSeq(u)
      PROVE  /\ ss[i] \o u = HexSize(Len(m.chunks[i])) \o (Extensions(m) \o Ends(m.chunks[i] \o Ends(u)))
             /\ IsSeq(ss[i]) /\ IsSeq(HexSize(Len(m.chunks[i]))) /\ IsSeq(m.chunks[i] \o Ends(u))
  <2> DEFINE a == HexSize(Len(m.chunks[i]))
             b == Extensions(m)
             d == m.chunks[i]
  <2>1. IsSeq(a) /\ IsSeq(b) /\ IsSeq(d) /\ IsSeq(e) /\ IsSeq(u)
    BY <1>1, <1>2, <1>5, <1>6, HexSizeReads
  <2>2. ss[i] = (((a \o b) \o e) \o d) \o e
    BY <1>4 DEF Chunk
  <2>3. e \o u = Ends(u)
    BY <1>6, EndsIsSeq
  <2> HIDE DEF a, b, d, e, ss
  <2>4. Cat5Of(a, b, e, d, e, u)
    BY ONLY <2>1, Cat5
  <2>5. ss[i] \o u = a \o (b \o (e \o (d \o Ends(u)))) /\ IsSeq(ss[i]) /\ IsSeq(d \o Ends(u))
    BY <2>2, <2>3, <2>4, Zenon DEF Cat5Of
  <2>6. e \o (d \o Ends(u)) = Ends(d \o Ends(u))
    <3> DEFINE v == d \o Ends(u)
    <3>1. IsSeq(v)
      BY <2>5
    <3> HIDE DEF v
    <3> QED
      BY <3>1, EndsIsSeq DEF v, e
  <2>7. ss[i] \o u = a \o (b \o Ends(d \o Ends(u)))
    BY <2>5, <2>6, Zenon
  <2> QED
    BY <2>1, <2>5, <2>7, Zenon DEF a, b, d
<1>7. Pieces(ss) /\ Len(ss) = N
  <2>1. \A i \in 1 .. N : IsSeq(ss[i])
    BY <1>2, <1>6
  <2>2. DOMAIN ss = DOMAIN m.chunks /\ ss = [i \in DOMAIN m.chunks |-> ss[i]]
    BY DEF ChunkPieces
  <2> HIDE DEF ss
  <2> QED
    BY <1>1, <2>1, <2>2, PiecesOf
<1>8. ChunkLines(m) = (((FlattenSeq(ss) \o zero) \o e) \o Trailer(m)) \o e
  BY Zenon DEF ChunkLines, ChunkPieces
<1>9. \A k : BehindChunks(m, k) = Left(ss, k) \o t
  BY DEF BehindChunks, ss, t, zero, tr
<1> HIDE DEF ss
<1>10. /\ Left(ss, 0) = FlattenSeq(ss) /\ Left(ss, N) = <<>>
       /\ \A k \in 0 .. N - 1 : Left(ss, k) = ss[k + 1] \o Left(ss, k + 1)
       /\ \A k \in 0 .. N : IsSeq(Left(ss, k))
  BY <1>7, LeftSteps, LeftIsSeq
<1>11. \A k \in 0 .. N : IsSeq(BehindChunks(m, k))
  <2> SUFFICES ASSUME NEW k \in 0 .. N PROVE IsSeq(BehindChunks(m, k))
    OBVIOUS
  <2> DEFINE l == Left(ss, k)
  <2>1. IsSeq(l) /\ BehindChunks(m, k) = l \o t
    BY <1>9, <1>10
  <2> HIDE DEF l, t
  <2> QED
    BY <1>3, <2>1, Cat
<1>12. ASSUME NEW k \in 0 .. N - 1
       PROVE  /\ BehindChunks(m, k) = SizeText(m, k) \o BehindSize(m, k)
              /\ IsSeq(DataText(m, k)) /\ IsSeq(SizeText(m, k)) /\ IsSeq(BehindSize(m, k))
  <2>1. k + 1 \in 1 .. N /\ k + 1 \in 0 .. N /\ k < N
    BY <1>1
  <2> DEFINE a == ss[k + 1]
             l == Left(ss, k + 1)
             u == BehindChunks(m, k + 1)
             d == DataText(m, k)
             x == Extensions(m)
  <2>2. /\ IsSeq(a) /\ IsSeq(l) /\ IsSeq(u) /\ IsSeq(t) /\ u = l \o t /\ BehindChunks(m, k) = (a \o l) \o t
    <3> HIDE DEF t
    <3> QED
      BY <1>3, <1>7, <1>9, <1>10, <1>11, <2>1 DEF Pieces
  <2>3. SizeText(m, k) = HexSize(Len(m.chunks[k + 1])) /\ d = m.chunks[k + 1] \o Ends(u)
        /\ FirstExtension(m, k) = 0
    BY <2>1 DEF SizeText, DataText, FirstExtension
  <2>4. a \o u = SizeText(m, k) \o (x \o Ends(d)) /\ IsSeq(d) /\ IsSeq(SizeText(m, k))
    <3> HIDE DEF a, u, d
    <3> QED
      <4>1. /\ ss[k + 1] \o u = HexSize(Len(m.chunks[k + 1])) \o
                 (Extensions(m) \o Ends(m.chunks[k + 1] \o Ends(u)))
            /\ IsSeq(HexSize(Len(m.chunks[k + 1]))) /\ IsSeq(m.chunks[k + 1] \o Ends(u))
        BY ONLY <1>6, <2>1, <2>2
      <4> QED
        BY <2>3, <4>1, Zenon DEF a
  <2> HIDE DEF a, l, u, d, x, t
  <2>5. (a \o l) \o t = a \o (l \o t)
    <3>1. Join(Join(a, l), t) = Join(a, Join(l, t))
      BY ONLY <2>2, Joins
    <3> QED
      BY <3>1, Zenon DEF Join
  <2>6. BehindChunks(m, k) = a \o u
    BY <2>2, <2>5, Zenon
  <2>7. BehindExtensions(m, k, 0) = x \o Ends(d) /\ IsSeq(BehindExtensions(m, k, 0))
    <3>1. IsSeq(DataText(m, k))
      BY <2>4 DEF d
    <3>2. Len(m.extension) \in Nat => 0 \in 0 .. Len(m.extension)
      OBVIOUS
    <3> QED
      BY <3>1, <3>2, ExtensionsLeft DEF x, d
  <2>8. BehindSize(m, k) = BehindExtensions(m, k, 0)
    BY <2>3 DEF BehindSize
  <2> QED
    BY <2>4, <2>6, <2>7, <2>8, Zenon DEF d
<1>13. /\ BehindChunks(m, N) = SizeText(m, N) \o BehindSize(m, N)
       /\ IsSeq(DataText(m, N)) /\ IsSeq(SizeText(m, N)) /\ IsSeq(BehindSize(m, N))
  <2>1. SizeText(m, N) = zero /\ DataText(m, N) = tr /\ FirstExtension(m, N) = Len(m.extension)
    <3>1. ~(N < Len(m.chunks))
      BY <1>1
    <3> QED
      BY <3>1, Zenon DEF SizeText, DataText, FirstExtension
  <2>2. BehindSize(m, N) = Ends(tr)
    <3>1. IsSeq(DataText(m, N))
      BY <1>2, <2>1
    <3> QED
      BY <2>1, <3>1, ExtensionsLeft DEF BehindSize
  <2>3. BehindChunks(m, N) = t
    <3>1. BehindChunks(m, N) = <<>> \o t
      BY <1>9, <1>10
    <3> HIDE DEF t
    <3> QED
      BY <1>3, <3>1, Cat
  <2> QED
    BY <1>2, <2>1, <2>2, <2>3
<1>14. ASSUME NEW k \in 0 .. N
       PROVE  /\ BehindChunks(m, k) = SizeText(m, k) \o BehindSize(m, k)
              /\ IsSeq(DataText(m, k)) /\ IsSeq(SizeText(m, k)) /\ IsSeq(BehindSize(m, k))
  <2>1. k = N \/ k \in 0 .. N - 1
    BY <1>1
  <2> QED
    BY <1>12, <1>13, <2>1
<1>15. BehindChunks(m, 0) = ChunkLines(m)
  <2> DEFINE f == FlattenSeq(ss)
             r == Trailer(m)
  <2>1. IsSeq(f) /\ IsSeq(r) /\ IsSeq(e) /\ IsSeq(zero)
    BY <1>2, <1>7, FlattenIsSeq
  <2>2. ChunkLines(m) = (((f \o zero) \o e) \o r) \o e
    BY <1>8
  <2>3. e \o tr = Ends(tr)
    BY <1>2, EndsIsSeq
  <2>4. BehindChunks(m, 0) = f \o (zero \o Ends(tr)) /\ tr = r \o e
    BY <1>2, <1>9, <1>10
  <2> HIDE DEF f, r, e, zero, tr, t
  <2>5. Cat4Of(f, zero, e, r, e)
    BY ONLY <2>1, Cat4
  <2> QED
    BY <2>2, <2>3, <2>4, <2>5, Zenon DEF Cat4Of
<1>16. Pieces(m.chunks)
  BY <1>1 DEF Pieces
<1> QED
  BY <1>1, <1>11, <1>14, <1>15, <1>16

-----------------------------------------------------------------------------
(* Where the parser of the chunks stands: its state, the size of the chunk and *)
(* what it got of it, the digits of the size, and the body so far.          *)
State(st, n, g) == [st |-> st, end |-> FALSE, size |-> n, got |-> g]
Stand(x, st, n, g, d, b) ==
  /\ Shaped(x) /\ x.rc = 0 /\ x.http.chunked = TRUE /\ x.http.chunk = State(st, n, g)
  /\ x.digits = d /\ x.http.request.body = b
Kept(x, y) == \A f \in RequestFields \ {"body"} : y.http.request[f] = x.http.request[f]

LEMMA ChunkPut ==
  ASSUME NEW x, Shaped(x), NEW v
  PROVE  LET y == [x EXCEPT !.http.chunk = v]
         IN /\ Shaped(y) /\ y.rc = x.rc /\ y.digits = x.digits /\ y.http.chunk = v
            /\ y.http.chunked = x.http.chunked /\ y.http.request = x.http.request
<1> DEFINE h == [x.http EXCEPT !.chunk = v]
           y == [x EXCEPT !.http = h]
<1>1. [x EXCEPT !.http.chunk = v] = y
  OBVIOUS
<1>2. /\ h = [f \in HttpFields |-> h[f]] /\ h.chunk = v
      /\ h.chunked = x.http.chunked /\ h.request = x.http.request
  BY DEF Shaped, ShapedHttp, HttpFields
<1> HIDE DEF h
<1>3. /\ y = [f \in ParserFields |-> y[f]] /\ y.http = h
      /\ y.rc = x.rc /\ y.digits = x.digits /\ y.side = x.side
  BY DEF Shaped, ParserFields
<1> HIDE DEF y
<1>4. Shaped(y)
  BY <1>2, <1>3 DEF Shaped, ShapedHttp
<1> QED
  BY <1>1, <1>2, <1>3, <1>4

LEMMA StandChunk ==
  ASSUME NEW x, NEW st, NEW n, NEW g, NEW d, NEW b, Stand(x, st, n, g, d, b),
         NEW st2, NEW n2, NEW g2, NEW y, y = [x EXCEPT !.http.chunk = State(st2, n2, g2)]
  PROVE  Stand(y, st2, n2, g2, d, b) /\ Kept(x, y)
<1> DEFINE v == State(st2, n2, g2)
<1> HIDE DEF v
<1>1. /\ Shaped(y) /\ y.rc = x.rc /\ y.digits = x.digits /\ y.http.chunk = v
      /\ y.http.chunked = x.http.chunked /\ y.http.request = x.http.request
  BY ChunkPut DEF Stand, v
<1> QED
  BY <1>1 DEF Stand, Kept, v

Filling(st, n, g, t) ==
  /\ State(st, n, g).st = st /\ State(st, n, g).size = n /\ State(st, n, g).got = g
  /\ State(st, n, g).end = FALSE
  /\ [State(st, n, g) EXCEPT !.st = t] = State(t, n, g)
  /\ [State(st, n, g) EXCEPT !.size = t] = State(st, t, g)
  /\ [State(st, n, g) EXCEPT !.got = t] = State(st, n, t)

LEMMA StateParts == \A st, n, g, t : Filling(st, n, g, t)
<1> SUFFICES ASSUME NEW st, NEW n, NEW g, NEW t PROVE Filling(st, n, g, t)
  OBVIOUS
<1> DEFINE e == FALSE
<1>1. \A s, k, h : State(s, k, h) = [st |-> s, end |-> e, size |-> k, got |-> h]
  BY DEF State
<1>2. State(st, n, g).st = st /\ State(st, n, g).size = n /\ State(st, n, g).got = g
      /\ State(st, n, g).end = FALSE
  BY DEF State
<1> HIDE DEF e
<1>3. [State(st, n, g) EXCEPT !.st = t] = State(t, n, g)
  BY <1>1
<1>4. [State(st, n, g) EXCEPT !.size = t] = State(st, t, g)
  BY <1>1
<1>5. [State(st, n, g) EXCEPT !.got = t] = State(st, n, t)
  BY <1>1
<1> QED
  BY <1>2, <1>3, <1>4, <1>5 DEF Filling

LEMMA StandGoto ==
  ASSUME NEW x, NEW st, NEW n, NEW g, NEW d, NEW b, Stand(x, st, n, g, d, b), NEW st2
  PROVE  Stand(ChunkGoto(x, st2), st2, n, g, d, b) /\ Kept(x, ChunkGoto(x, st2))
<1>1. [State(st, n, g) EXCEPT !.st = st2] = State(st2, n, g)
  <2>1. Filling(st, n, g, st2)
    BY StateParts
  <2> QED
    BY <2>1 DEF Filling
<1>2. ChunkGoto(x, st2) = [x EXCEPT !.http.chunk = State(st2, n, g)]
  BY <1>1, Zenon DEF ChunkGoto, Stand
<1> QED
  BY <1>2, StandChunk

LEMMA StandDigits ==
  ASSUME NEW x, NEW st, NEW n, NEW g, NEW d, NEW b, Stand(x, st, n, g, d, b), NEW d2
  PROVE  LET y == [x EXCEPT !.digits = d2] IN Stand(y, st, n, g, d2, b) /\ Kept(x, y)
<1> DEFINE y == [x EXCEPT !.digits = d2]
<1>1. Shaped(x)
  BY DEF Stand
<1>2. /\ y = [f \in ParserFields |-> y[f]] /\ y.http = x.http /\ y.digits = d2
      /\ y.rc = x.rc /\ y.side = x.side
  BY <1>1 DEF Shaped, ParserFields
<1> HIDE DEF y
<1>3. Shaped(y)
  BY <1>1, <1>2 DEF Shaped
<1>4. Stand(y, st, n, g, d2, b)
  BY <1>2, <1>3 DEF Stand
<1>5. Kept(x, y)
  BY <1>2 DEF Kept
<1> QED
  BY <1>4, <1>5 DEF y

LEMMA StandBody ==
  ASSUME NEW x, NEW st, NEW n, NEW g, NEW d, NEW b, Stand(x, st, n, g, d, b), NEW b2
  PROVE  LET y == Put(x, "body", b2) IN Stand(y, st, n, g, d, b2) /\ Kept(x, y)
<1> DEFINE y == Put(x, "body", b2)
<1>1. Shaped(x)
  BY DEF Stand
<1>2. Changes(x, y, {}, {"body"}) /\ y.http.request["body"] = b2
  BY <1>1, ChangeRequest DEF RequestFields
<1> HIDE DEF y
<1>3. Shaped(y) /\ y.rc = x.rc /\ y.digits = x.digits /\ y.http.chunk = x.http.chunk
      /\ y.http.chunked = x.http.chunked
  BY <1>2 DEF Changes, ParserFields
<1>4. Kept(x, y)
  BY <1>2 DEF Changes, Kept
<1> QED
  BY <1>2, <1>3, <1>4 DEF Stand, y

LEMMA KeptOn ==
  ASSUME NEW x, NEW y, NEW z, Kept(x, y), Kept(y, z)
  PROVE  Kept(x, z)
BY DEF Kept

LEMMA StandDigit ==
  ASSUME NEW x, NEW st, NEW n, NEW g, NEW d, NEW b, Stand(x, st, n, g, d, b), NEW c
  PROVE  Stand(Digit(x, c), "CHUNK_SIZE", n, g, Append(d, c), b) /\ Kept(x, Digit(x, c))
<1> DEFINE y == ChunkGoto(x, "CHUNK_SIZE")
           z == [y EXCEPT !.digits = Append(d, c)]
<1>1. Stand(y, "CHUNK_SIZE", n, g, d, b) /\ Kept(x, y)
  BY StandGoto
<1>2. Digit(x, c) = z
  <2>1. y.digits = d
    BY <1>1 DEF Stand
  <2> QED
    BY <2>1, Zenon DEF Digit
<1> HIDE DEF y
<1>3. Stand(z, "CHUNK_SIZE", n, g, Append(d, c), b) /\ Kept(y, z)
  <2> DEFINE e == Append(d, c)
  <2> HIDE DEF e
  <2>1. Stand([y EXCEPT !.digits = e], "CHUNK_SIZE", n, g, e, b) /\ Kept(y, [y EXCEPT !.digits = e])
    BY <1>1, StandDigits
  <2> QED
    BY <2>1, Zenon DEF e
<1> HIDE DEF z
<1> QED
  BY <1>1, <1>2, <1>3, KeptOn, Zenon

LEMMA StandData ==
  ASSUME NEW x, NEW st, NEW n, NEW g, NEW d, NEW b, Stand(x, st, n, g, d, b), NEW c
  PROVE  Stand(Data(x, c), st, n, g + 1, d, Append(b, c)) /\ Kept(x, Data(x, c))
<1> DEFINE v == State(st, n, g + 1)
           y == [x EXCEPT !.http.chunk = v]
           z == Put(y, "body", Append(b, c))
<1>1. Stand(y, st, n, g + 1, d, b) /\ Kept(x, y)
  BY StandChunk
<1>2. Data(x, c) = z
  <2>1. [State(st, n, g) EXCEPT !.got = @ + 1] = v
    <3> DEFINE t == g + 1
    <3>1. Filling(st, n, g, t)
      BY StateParts
    <3>2. State(st, n, g).got + 1 = t
      BY <3>1, Zenon DEF Filling
    <3> HIDE DEF t
    <3>3. [State(st, n, g) EXCEPT !.got = t] = State(st, n, t)
      BY <3>1, Zenon DEF Filling
    <3> QED
      BY <3>2, <3>3, Zenon DEF t
  <2>2. [x EXCEPT !.http.chunk.got = @ + 1] = y
    <3> HIDE DEF v
    <3> QED
      BY <2>1, Zenon DEF Stand
  <2>3. x.side = "request" /\ y.side = "request" /\ y.http.request.body = b /\ Shaped(x)
    BY <1>1 DEF Stand, Shaped
  <2>4. Data(x, c) = [y EXCEPT !.http.request.body = Append(y.http.request.body, c)]
    <3> HIDE DEF v
    <3>1. Data(x, c) = [x EXCEPT !.http.chunk.got = @ + 1, !.http["request"].body = Append(@, c)]
      BY <2>3, Zenon DEF Data
    <3>2. @ = [[x EXCEPT !.http.chunk.got = @ + 1] EXCEPT !.http["request"].body = Append(@, c)]
      OBVIOUS
    <3> QED
      BY <2>2, <3>1, <3>2, Zenon
  <2> HIDE DEF y
  <2> QED
    BY <2>3, <2>4, Zenon DEF Put
<1> HIDE DEF y
<1>3. Stand(z, st, n, g + 1, d, Append(b, c)) /\ Kept(y, z)
  <2> DEFINE e == Append(b, c)
  <2> HIDE DEF e
  <2>1. Stand(Put(y, "body", e), st, n, g + 1, d, e) /\ Kept(y, Put(y, "body", e))
    BY <1>1, StandBody
  <2> QED
    BY <2>1, Zenon DEF e
<1> HIDE DEF z
<1> QED
  BY <1>1, <1>2, <1>3, KeptOn, Zenon

LEMMA ChunkDispatch ==
  ASSUME NEW x, NEW st, NEW n, NEW g, NEW d, NEW b, Stand(x, st, n, g, d, b), NEW c
  PROVE  /\ st = "CHUNKED" => ChunkChar(x, c) = FirstDigit(x, c)
         /\ st = "CHUNK_SIZE" => ChunkChar(x, c) = SizeChar(x, c)
         /\ st = "EXT_NAME" => ChunkChar(x, c) = ExtNameChar(x, c)
         /\ st = "EXT_VALUE" => ChunkChar(x, c) = ExtValueChar(x, c)
         /\ st = "CR1" => ChunkChar(x, c) = SizeEndChar(x, c)
         /\ st = "LF1" => ChunkChar(x, c) = FirstDataChar(x, c)
         /\ st = "CR2" => ChunkChar(x, c) = EndChar(x, c)
         /\ st = "TRAILER_NAME" => ChunkChar(x, c) = TrailerNameChar(x, c)
         /\ st = "TRAILER_VALUE" => ChunkChar(x, c) = TrailerValueChar(x, c)
         /\ st = "DATA" => ChunkChar(x, c) = DataChar(x, c)
         /\ st = "DATA_CR" => ChunkChar(x, c) = DataCrChar(x, c)
         /\ st = "DATA_LF" => ChunkChar(x, c) = NextChunkChar(x, c)
<1>0. x.http.chunk.st = st
  <2>1. State(st, n, g).st = st
    <3>1. Filling(st, n, g, st)
      BY StateParts
    <3> QED
      BY <3>1, Zenon DEF Filling
  <2> QED
    BY <2>1 DEF Stand
<1>1. st = "CHUNKED" => ChunkChar(x, c) = FirstDigit(x, c)
  BY <1>0, Zenon DEF ChunkChar
<1>2. st = "CHUNK_SIZE" => ChunkChar(x, c) = SizeChar(x, c)
  BY <1>0, Zenon DEF ChunkChar
<1>3. st = "EXT_NAME" => ChunkChar(x, c) = ExtNameChar(x, c)
  BY <1>0, Zenon DEF ChunkChar
<1>4. st = "EXT_VALUE" => ChunkChar(x, c) = ExtValueChar(x, c)
  BY <1>0, Zenon DEF ChunkChar
<1>5. st = "CR1" => ChunkChar(x, c) = SizeEndChar(x, c)
  BY <1>0, Zenon DEF ChunkChar
<1>6. st = "LF1" => ChunkChar(x, c) = FirstDataChar(x, c)
  BY <1>0, Zenon DEF ChunkChar
<1>7. st = "CR2" => ChunkChar(x, c) = EndChar(x, c)
  BY <1>0, Zenon DEF ChunkChar
<1>8. st = "TRAILER_NAME" => ChunkChar(x, c) = TrailerNameChar(x, c)
  BY <1>0, Zenon DEF ChunkChar
<1>9. st = "TRAILER_VALUE" => ChunkChar(x, c) = TrailerValueChar(x, c)
  BY <1>0, Zenon DEF ChunkChar
<1>10. st = "DATA" => ChunkChar(x, c) = DataChar(x, c)
  BY <1>0, Zenon DEF ChunkChar
<1>11. st = "DATA_CR" => ChunkChar(x, c) = DataCrChar(x, c)
  BY <1>0, Zenon DEF ChunkChar
<1>12. st = "DATA_LF" => ChunkChar(x, c) = NextChunkChar(x, c)
  BY <1>0, Zenon DEF ChunkChar
<1> QED
  BY <1>1, <1>2, <1>3, <1>4, <1>5, <1>6, <1>7, <1>8, <1>9, <1>10, <1>11, <1>12

-----------------------------------------------------------------------------
(* p is what the first k of the chunks make. *)
Made(m, k, p) == IsSeq(p) /\ p \o Left(m.chunks, k) = Content(m)
SizeOf(m, k) == IF k < Len(m.chunks) THEN Len(m.chunks[k + 1]) ELSE 0

SizeState(st, d) ==
  \/ st \in {"CHUNKED", "DATA_LF"} /\ d = <<>>
  \/ st = "CHUNK_SIZE" /\ Len(d) # 0
AtSize(st, g, d, b, w, m, k, p) ==
  /\ g = 0 /\ b = p /\ Reading(d, w, SizeText(m, k), BehindSize(m, k)) /\ SizeState(st, d)
BehindName(m, k, j) == <<"=">> \o (m.extension[j + 1].value \o BehindExtensions(m, k, j + 1))
AtExtension(st, g, d, b, w, m, k, p) ==
  /\ g = 0 /\ b = p /\ d = SizeText(m, k)
  /\ \E s : \E j \in 0 .. Len(m.extension) - 1 :
       \/ st = "EXT_NAME" /\ Reading(s, w, m.extension[j + 1].name, BehindName(m, k, j))
       \/ st = "EXT_VALUE" /\ Reading(s, w, m.extension[j + 1].value, BehindExtensions(m, k, j + 1))
AtSizeEnd(st, g, d, b, w, m, k, p) ==
  st = "CR1" /\ g = 0 /\ b = p /\ d = SizeText(m, k) /\ w = <<"\n">> \o DataText(m, k)
AtFirst(st, n, g, d, b, w, m, k, p) ==
  /\ st = "LF1" /\ g = 0 /\ d = <<>> /\ b = p /\ k < Len(m.chunks)
  /\ n = SizeOf(m, k) /\ w = DataText(m, k)
AtData(st, n, g, d, b, w, m, k, p) ==
  /\ st = "DATA" /\ d = <<>> /\ k < Len(m.chunks) /\ n = SizeOf(m, k)
  /\ \E s : /\ Reading(s, w, m.chunks[k + 1], Ends(BehindChunks(m, k + 1)))
            /\ g = Len(s) /\ b = p \o s
AtDataEnd(st, g, d, b, w, m, k, p) ==
  st = "DATA_CR" /\ g = 0 /\ d = <<>> /\ b = p /\ w = <<"\n">> \o BehindChunks(m, k)

(* The lines behind the last chunk: \r\n, and those of the trailer. *)
TrailerRest(m, j) == m.trailer[j + 1].value \o Ends(BehindTrailer(m, j + 1))
AtTrailer(st, n, g, d, b, w, m, k, p) ==
  /\ k = Len(m.chunks) /\ n = 0 /\ g = 0 /\ d = <<>> /\ b = p
  /\ \/ \E j \in 0 .. Len(m.trailer) :
          \/ st = "CR1" /\ w = <<"\n">> \o BehindTrailer(m, j)
          \/ st = "LF1" /\ w = BehindTrailer(m, j)
     \/ \E s : \E j \in 0 .. Len(m.trailer) - 1 :
          \/ st = "TRAILER_NAME" /\ Reading(s, w, m.trailer[j + 1].name, <<":">> \o TrailerRest(m, j))
          \/ st = "TRAILER_VALUE" /\ Reading(s, w, m.trailer[j + 1].value, Ends(BehindTrailer(m, j + 1)))
     \/ st = "CR2" /\ w = <<"\n">>

Position(st, n, g, d, b, w, m, k, p) ==
  \/ AtSize(st, g, d, b, w, m, k, p) \/ AtExtension(st, g, d, b, w, m, k, p)
  \/ AtSizeEnd(st, g, d, b, w, m, k, p) \/ AtFirst(st, n, g, d, b, w, m, k, p)
  \/ AtData(st, n, g, d, b, w, m, k, p) \/ AtDataEnd(st, g, d, b, w, m, k, p)
  \/ AtTrailer(st, n, g, d, b, w, m, k, p)

ChunkAt(x, w, m) ==
  \E st, n, g, d, b, p : \E k \in 0 .. Len(m.chunks) :
    Stand(x, st, n, g, d, b) /\ Made(m, k, p) /\ Position(st, n, g, d, b, w, m, k, p)

(* Where a character leads. *)
ChunksGoOn(x, w, m, c, v) ==
  w # <<>> /\ Head(w) = c /\ Tail(w) = v /\ Kept(x, ChunkChar(x, c)) /\ ChunkAt(ChunkChar(x, c), v, m)

LEMMA GoesOn ==
  ASSUME NEW x, NEW w, NEW m, NEW c, NEW v, w # <<>>, Head(w) = c, Tail(w) = v,
         NEW y, y = ChunkChar(x, c), Kept(x, y),
         NEW st, NEW n, NEW g, NEW d, NEW b, NEW p, NEW k \in 0 .. Len(m.chunks),
         Stand(y, st, n, g, d, b), Made(m, k, p), Position(st, n, g, d, b, v, m, k, p)
  PROVE  ChunksGoOn(x, w, m, c, v)
BY DEF ChunksGoOn, ChunkAt

(* The characters that are looked for are no part of a name. *)
LEMMA Plain ==
  /\ \A c : IsNameChar(c) => c \notin {"\r", "\n", ":", "=", SEMI, SP}
  /\ ~IsHex(SEMI) /\ ~IsHex("\r")
<1>1. \A c : IsNameChar(c) => c \notin {"\r", "\n", ":", "=", SEMI, SP}
  BY NoMarks
<1>2. ~IsHex(SEMI) /\ ~IsHex("\r")
  BY Codes DEF IsHex, IsDigit, Between
<1> QED
  BY <1>1, <1>2

LEMMA SizeTextReads ==
  ASSUME NEW m, ChunksReadable(m), NEW k \in 0 .. Len(m.chunks)
  PROVE  /\ IsSeq(SizeText(m, k)) /\ Len(SizeText(m, k)) # 0 /\ HexToV(SizeText(m, k)) = SizeOf(m, k)
         /\ \A i \in 1 .. Len(SizeText(m, k)) :
              IsHex(SizeText(m, k)[i]) /\ SizeText(m, k)[i] \notin {SEMI, "\r"}
<1>1. CASE k < Len(m.chunks)
  <2> DEFINE n == Len(m.chunks[k + 1])
  <2>1. n \in 1 .. 255
    <3>1. k + 1 \in 1 .. Len(m.chunks)
      BY <1>1, ChunksLeft
    <3> QED
      BY <3>1 DEF ChunksReadable
  <2>2. SizeText(m, k) = HexSize(n) /\ SizeOf(m, k) = n
    BY <1>1 DEF SizeText, SizeOf
  <2> HIDE DEF n
  <2>3. /\ IsSeq(HexSize(n)) /\ Len(HexSize(n)) \in 1 .. 2 /\ HexToV(HexSize(n)) = n
        /\ \A i \in 1 .. Len(HexSize(n)) : IsHex(HexSize(n)[i]) /\ HexSize(n)[i] \notin {SEMI, "\r"}
    BY <2>1, HexSizeReads
  <2> QED
    BY <2>2, <2>3
<1>2. CASE ~(k < Len(m.chunks))
  <2>1. SizeText(m, k) = <<"0">> /\ SizeOf(m, k) = 0
    BY <1>2, Zenon DEF SizeText, SizeOf
  <2>2. HexToV(<<"0">>) = 0 /\ IsHex("0") /\ "0" \notin {SEMI, "\r"}
    BY HexNone
  <2> DEFINE z == <<"0">>
  <2>3. IsSeq(z) /\ Len(z) = 1 /\ z[1] = "0"
    BY One
  <2>4. SizeText(m, k) = z /\ HexToV(z) = 0
    BY <2>1, <2>2
  <2> HIDE DEF z
  <2>5. \A i \in 1 .. Len(z) : z[i] = "0"
    BY <2>3
  <2> QED
    BY <2>1, <2>2, <2>3, <2>4, <2>5
<1> QED
  BY <1>1, <1>2

(* What is behind the size of a chunk. *)
LEMMA BehindSizeReads ==
  ASSUME NEW m, ChunksReadable(m), NEW k \in 0 .. Len(m.chunks), NEW j \in 0 .. Len(m.extension)
  PROVE  LET w == BehindExtensions(m, k, j)
         IN \/ j < Len(m.extension) /\ w = <<SEMI>> \o (m.extension[j + 1].name \o BehindName(m, k, j))
            \/ w = Ends(DataText(m, k))
<1>1. IsSeq(DataText(m, k)) /\ Len(m.extension) \in Nat
  BY ChunksLeft, LenIsNat DEF ChunksReadable
<1>2. CASE j = Len(m.extension)
  BY <1>1, <1>2, ExtensionsLeft
<1>3. CASE j # Len(m.extension)
  <2>1. j \in 0 .. Len(m.extension) - 1 /\ j < Len(m.extension)
    BY <1>1, <1>3
  <2> QED
    BY <1>1, <2>1, ExtensionsLeft DEF BehindName
<1> QED
  BY <1>2, <1>3

LEMMA ExtensionParts ==
  ASSUME NEW m, ChunksReadable(m), NEW k \in 0 .. Len(m.chunks), NEW j \in 0 .. Len(m.extension) - 1
  PROVE  /\ j + 1 \in 0 .. Len(m.extension) /\ IsName(m.extension[j + 1].name)
         /\ IsName(m.extension[j + 1].value) /\ IsSeq(BehindName(m, k, j))
         /\ IsSeq(BehindExtensions(m, k, j + 1))
         /\ IsSeq(m.extension[j + 1].value \o BehindExtensions(m, k, j + 1))
<1>1. IsSeq(DataText(m, k)) /\ Len(m.extension) \in Nat
  BY ChunksLeft, LenIsNat DEF ChunksReadable
<1>2. j + 1 \in 1 .. Len(m.extension) /\ j + 1 \in 0 .. Len(m.extension)
  BY <1>1
<1>3. IsSeq(BehindExtensions(m, k, j + 1))
  BY <1>1, <1>2, ExtensionsLeft
<1>4. IsName(m.extension[j + 1].name) /\ IsName(m.extension[j + 1].value)
  BY <1>2 DEF ChunksReadable
<1> DEFINE a == m.extension[j + 1].value
           u == BehindExtensions(m, k, j + 1)
           z == a \o u
<1>5. IsSeq(z)
  <2>1. IsSeq(a) /\ IsSeq(u)
    BY <1>3, <1>4 DEF IsName
  <2> HIDE DEF a, u
  <2> QED
    BY <2>1, Cat
<1>6. IsSeq(BehindName(m, k, j))
  <2>1. BehindName(m, k, j) = <<"=">> \o z
    BY Zenon DEF BehindName
  <2> HIDE DEF z
  <2> QED
    BY <1>5, <2>1, Mark
<1> QED
  BY <1>2, <1>3, <1>4, <1>5, <1>6

-----------------------------------------------------------------------------
(* The line of a chunk's size. *)
LEMMA NoReading ==
  ASSUME NEW t, NEW u, IsSeq(t), IsSeq(u), NEW w, w = t \o u
  PROVE  Reading(<<>>, w, t, u)
BY Begins

LEMMA PositionOf ==
  ASSUME NEW st, NEW n, NEW g, NEW d, NEW b, NEW w, NEW m, NEW k, NEW p,
         \/ AtSize(st, g, d, b, w, m, k, p) \/ AtExtension(st, g, d, b, w, m, k, p)
         \/ AtSizeEnd(st, g, d, b, w, m, k, p) \/ AtFirst(st, n, g, d, b, w, m, k, p)
         \/ AtData(st, n, g, d, b, w, m, k, p) \/ AtDataEnd(st, g, d, b, w, m, k, p)
         \/ AtTrailer(st, n, g, d, b, w, m, k, p)
  PROVE  Position(st, n, g, d, b, w, m, k, p)
BY DEF Position

LEMMA LineGoesOn ==
  ASSUME NEW m, ChunksReadable(m), NEW k \in 0 .. Len(m.chunks), NEW p, Made(m, k, p),
         NEW j \in 0 .. Len(m.extension),
         NEW x, NEW st, NEW n, Stand(x, st, n, 0, SizeText(m, k), p),
         ChunkChar(x, SEMI) = ChunkGoto(x, "EXT_NAME"), ChunkChar(x, "\r") = ChunkGoto(x, "CR1"),
         NEW w, w = BehindExtensions(m, k, j)
  PROVE  \E c, v : ChunksGoOn(x, w, m, c, v)
<1> DEFINE d == SizeText(m, k)
<1>1. CASE j < Len(m.extension) /\ w = <<SEMI>> \o (m.extension[j + 1].name \o BehindName(m, k, j))
  <2> DEFINE y == ChunkGoto(x, "EXT_NAME")
             a == m.extension[j + 1].name
             u == BehindName(m, k, j)
             v == a \o u
  <2>1. j \in 0 .. Len(m.extension) - 1
    <3>1. Len(m.extension) \in Nat
      BY LenIsNat DEF ChunksReadable
    <3> QED
      BY <1>1, <3>1
  <2>2. IsSeq(a) /\ IsSeq(u)
    BY <2>1, ExtensionParts DEF IsName
  <2>3. Stand(y, "EXT_NAME", n, 0, d, p) /\ Kept(x, y)
    BY StandGoto
  <2> HIDE DEF y, a, u
  <2>4. IsSeq(v) /\ Reading(<<>>, v, a, u)
    BY <2>2, Cat, NoReading
  <2> HIDE DEF v
  <2>5. w # <<>> /\ Head(w) = SEMI /\ Tail(w) = v
    <3>1. w = <<SEMI>> \o v
      BY <1>1, Zenon DEF v, a, u
    <3> QED
      BY <2>4, <3>1, Mark
  <2>6. AtExtension("EXT_NAME", 0, d, p, v, m, k, p)
    BY <2>1, <2>4 DEF AtExtension, a, u
  <2>7. Position("EXT_NAME", n, 0, d, p, v, m, k, p)
    BY <2>6, PositionOf
  <2>8. y = ChunkChar(x, SEMI)
    BY DEF y
  <2> HIDE DEF d
  <2> QED
    BY <2>3, <2>5, <2>7, <2>8, GoesOn
<1>2. CASE w = Ends(DataText(m, k))
  <2> DEFINE y == ChunkGoto(x, "CR1")
             t == DataText(m, k)
             v == <<"\n">> \o t
  <2>1. IsSeq(t)
    BY ChunksLeft
  <2>2. Stand(y, "CR1", n, 0, d, p) /\ Kept(x, y)
    BY StandGoto
  <2> HIDE DEF y, t
  <2>3. IsSeq(v)
    BY <2>1, EndsIsSeq
  <2>4. w = <<"\r">> \o v
    BY <1>2 DEF Ends, t
  <2>5. AtSizeEnd("CR1", 0, d, p, v, m, k, p)
    BY DEF AtSizeEnd, t
  <2> HIDE DEF v
  <2>6. w # <<>> /\ Head(w) = "\r" /\ Tail(w) = v
    BY <2>3, <2>4, Mark
  <2>7. Position("CR1", n, 0, d, p, v, m, k, p)
    BY <2>5, PositionOf
  <2>8. y = ChunkChar(x, "\r")
    BY DEF y
  <2> HIDE DEF d
  <2> QED
    BY <2>2, <2>6, <2>7, <2>8, GoesOn
<1> QED
  BY <1>1, <1>2, BehindSizeReads

LEMMA FirstExtensionIs ==
  ASSUME NEW m, ChunksReadable(m), NEW k
  PROVE  FirstExtension(m, k) \in 0 .. Len(m.extension)
<1>1. Len(m.extension) \in Nat
  BY LenIsNat DEF ChunksReadable
<1> QED
  BY <1>1 DEF FirstExtension

LEMMA SizeReads ==
  ASSUME NEW m, ChunksReadable(m), NEW k \in 0 .. Len(m.chunks), NEW p, Made(m, k, p),
         NEW x, NEW st, NEW n, NEW g, NEW d, NEW b, Stand(x, st, n, g, d, b),
         NEW w, AtSize(st, g, d, b, w, m, k, p)
  PROVE  \E c, v : ChunksGoOn(x, w, m, c, v)
<1> DEFINE t == SizeText(m, k)
           u == BehindSize(m, k)
<1>1. Reading(d, w, t, u) /\ g = 0 /\ b = p
  BY DEF AtSize
<1>2. /\ IsSeq(t) /\ Len(t) # 0 /\ \A i \in 1 .. Len(t) : IsHex(t[i]) /\ t[i] \notin {SEMI, "\r"}
  BY SizeTextReads
<1>3. \/ st \in {"CHUNKED", "DATA_LF"} /\ Len(d) = 0
      \/ st = "CHUNK_SIZE" /\ Len(d) # 0
  <2>1. \/ st \in {"CHUNKED", "DATA_LF"} /\ d = <<>>
        \/ st = "CHUNK_SIZE" /\ Len(d) # 0
    BY DEF AtSize, SizeState
  <2>2. d = <<>> => Len(d) = 0
    BY EmptyIsSeq
  <2> QED
    BY <2>1, <2>2, Zenon
<1> HIDE DEF t, u
<1>4. CASE /\ Len(d) < Len(t) /\ w # <<>> /\ Len(d) + 1 \in 1 .. Len(t)
           /\ Head(w) = t[Len(d) + 1] /\ Reading(Append(d, Head(w)), Tail(w), t, u)
           /\ Len(Append(d, Head(w))) = Len(d) + 1
  <2> DEFINE c == Head(w)
             v == Tail(w)
             e == Append(d, c)
             y == Digit(x, c)
  <2>1. IsHex(c) /\ c # "\r" /\ c # SEMI
    BY <1>2, <1>4
  <2>2. Stand(y, "CHUNK_SIZE", n, g, e, b) /\ Kept(x, y)
    BY StandDigit
  <2>3. Reading(e, v, t, u) /\ Len(e) # 0
    <3>1. Len(d) \in Nat
      BY <1>1, LenIsNat DEF Reading
    <3> QED
      BY <1>4, <3>1
  <2> HIDE DEF c, v, e, y
  <2>4. y = ChunkChar(x, c)
    <3>1. ChunkNeeds(x, IsHex(c), Digit(x, c)) = y
      BY <2>1, Zenon DEF ChunkNeeds, y
    <3>2. CASE st = "CHUNKED"
      BY <3>1, <3>2, ChunkDispatch DEF FirstDigit
    <3>3. CASE st = "CHUNK_SIZE"
      <4>1. ChunkChar(x, c) = SizeChar(x, c)
        BY <3>3, ChunkDispatch
      <4>2. SizeChar(x, c) = y
        BY <2>1, Zenon DEF SizeChar, y
      <4> QED
        BY <4>1, <4>2
    <3>4. CASE st = "DATA_LF"
      <4>1. ChunkChar(x, c) = NextChunkChar(x, c)
        BY <3>4, ChunkDispatch
      <4>2. NextChunkChar(x, c) = y
        BY <2>1, <3>1, Zenon DEF NextChunkChar
      <4> QED
        BY <4>1, <4>2
    <3> QED
      BY <1>3, <3>2, <3>3, <3>4
  <2>5. AtSize("CHUNK_SIZE", g, e, b, v, m, k, p)
    BY <1>1, <2>3 DEF AtSize, SizeState, t, u
  <2>6. Position("CHUNK_SIZE", n, g, e, b, v, m, k, p)
    BY <2>5, PositionOf
  <2>7. w # <<>> /\ Head(w) = c /\ Tail(w) = v
    BY <1>4 DEF c, v
  <2> QED
    BY <2>2, <2>4, <2>6, <2>7, GoesOn
<1>5. CASE d = t /\ w = u
  <2>1. st = "CHUNK_SIZE"
    BY <1>2, <1>3, <1>5
  <2>2. ChunkChar(x, SEMI) = ChunkGoto(x, "EXT_NAME")
    <3>1. ChunkChar(x, SEMI) = SizeChar(x, SEMI)
      BY <2>1, ChunkDispatch
    <3>2. SizeChar(x, SEMI) = ChunkGoto(x, "EXT_NAME")
      <4>1. ~IsHex(SEMI) /\ SEMI # "\r"
        BY Plain, Marks
      <4> QED
        BY <4>1, Zenon DEF SizeChar
    <3> QED
      BY <3>1, <3>2
  <2>3. ChunkChar(x, "\r") = ChunkGoto(x, "CR1")
    <3>1. ChunkChar(x, "\r") = SizeChar(x, "\r")
      BY <2>1, ChunkDispatch
    <3>2. "\r" # SEMI
      BY Marks
    <3>3. SizeChar(x, "\r") = ChunkGoto(x, "CR1")
      BY Plain, <3>2, Zenon DEF SizeChar
    <3> QED
      BY <3>1, <3>3
  <2>4. FirstExtension(m, k) \in 0 .. Len(m.extension)
        /\ w = BehindExtensions(m, k, FirstExtension(m, k))
    BY <1>5, FirstExtensionIs DEF u, BehindSize
  <2>5. Stand(x, st, n, 0, SizeText(m, k), p)
    BY <1>1, <1>5 DEF t
  <2> QED
    BY <2>2, <2>3, <2>4, <2>5, LineGoesOn
<1> QED
  BY <1>1, <1>4, <1>5, ReadOn

LEMMA ExtensionNameReads ==
  ASSUME NEW m, ChunksReadable(m), NEW k \in 0 .. Len(m.chunks), NEW p, Made(m, k, p),
         NEW x, NEW n, Stand(x, "EXT_NAME", n, 0, SizeText(m, k), p),
         NEW j \in 0 .. Len(m.extension) - 1, NEW s, NEW w,
         Reading(s, w, m.extension[j + 1].name, BehindName(m, k, j))
  PROVE  \E c, v : ChunksGoOn(x, w, m, c, v)
<1> DEFINE t == m.extension[j + 1].name
           u == BehindName(m, k, j)
           d == SizeText(m, k)
           z == m.extension[j + 1].value
           r == BehindExtensions(m, k, j + 1)
           q == z \o r
<1>1. IsName(t) /\ IsName(z) /\ IsSeq(u) /\ IsSeq(r) /\ IsSeq(q)
  BY ExtensionParts
<1>2. u = <<"=">> \o q
  BY Zenon DEF BehindName
<1>3. \A c : ChunkChar(x, c) = ExtNameChar(x, c)
  BY ChunkDispatch
<1> HIDE DEF t, u, z, r
<1>4. CASE /\ Len(s) < Len(t) /\ w # <<>> /\ Len(s) + 1 \in 1 .. Len(t)
           /\ Head(w) = t[Len(s) + 1] /\ Reading(Append(s, Head(w)), Tail(w), t, u)
           /\ Len(Append(s, Head(w))) = Len(s) + 1
  <2> DEFINE c == Head(w)
             v == Tail(w)
             e == Append(s, c)
  <2>1. IsNameChar(c)
    BY <1>1, <1>4 DEF IsName
  <2>2. Reading(e, v, t, u) /\ w # <<>> /\ Head(w) = c /\ Tail(w) = v
    BY <1>4
  <2> HIDE DEF c, v, e, q
  <2>3. x = ChunkChar(x, c)
    <3>1. ExtNameChar(x, c) = x
      BY <2>1, Plain, Zenon DEF ExtNameChar, ChunkNeeds
    <3> QED
      BY <1>3, <3>1
  <2>4. AtExtension("EXT_NAME", 0, d, p, v, m, k, p)
    BY <2>2 DEF AtExtension, t, u
  <2>5. Position("EXT_NAME", n, 0, d, p, v, m, k, p)
    BY <2>4, PositionOf
  <2>6. Kept(x, x)
    BY DEF Kept
  <2> HIDE DEF d
  <2>7. Stand(x, "EXT_NAME", n, 0, d, p)
    BY DEF d
  <2> QED
    BY <2>2, <2>3, <2>5, <2>6, <2>7, GoesOn
<1>5. CASE s = t /\ w = u
  <2> DEFINE y == ChunkGoto(x, "EXT_VALUE")
  <2>1. y = ChunkChar(x, "=")
    <3>1. ExtNameChar(x, "=") = y
      BY Zenon DEF ExtNameChar
    <3> QED
      BY <1>3, <3>1
  <2>2. Stand(y, "EXT_VALUE", n, 0, d, p) /\ Kept(x, y)
    BY StandGoto
  <2> HIDE DEF y, d
  <2>3. Reading(<<>>, q, z, r)
    BY <1>1, NoReading DEF IsName
  <2> HIDE DEF q
  <2>4. w # <<>> /\ Head(w) = "=" /\ Tail(w) = q
    BY <1>1, <1>2, <1>5, Mark
  <2>5. AtExtension("EXT_VALUE", 0, d, p, q, m, k, p)
    BY <2>3 DEF AtExtension, z, r, d
  <2>6. Position("EXT_VALUE", n, 0, d, p, q, m, k, p)
    BY <2>5, PositionOf
  <2> QED
    BY <2>1, <2>2, <2>4, <2>6, GoesOn
<1> QED
  BY <1>4, <1>5, ReadOn DEF t, u

LEMMA ExtensionValueReads ==
  ASSUME NEW m, ChunksReadable(m), NEW k \in 0 .. Len(m.chunks), NEW p, Made(m, k, p),
         NEW x, NEW n, Stand(x, "EXT_VALUE", n, 0, SizeText(m, k), p),
         NEW j \in 0 .. Len(m.extension) - 1, NEW s, NEW w,
         Reading(s, w, m.extension[j + 1].value, BehindExtensions(m, k, j + 1))
  PROVE  \E c, v : ChunksGoOn(x, w, m, c, v)
<1> DEFINE t == m.extension[j + 1].value
           u == BehindExtensions(m, k, j + 1)
           d == SizeText(m, k)
<1>1. IsName(t) /\ IsSeq(u) /\ j + 1 \in 0 .. Len(m.extension)
  BY ExtensionParts
<1>3. \A c : ChunkChar(x, c) = ExtValueChar(x, c)
  BY ChunkDispatch
<1> HIDE DEF t, u
<1>4. CASE /\ Len(s) < Len(t) /\ w # <<>> /\ Len(s) + 1 \in 1 .. Len(t)
           /\ Head(w) = t[Len(s) + 1] /\ Reading(Append(s, Head(w)), Tail(w), t, u)
           /\ Len(Append(s, Head(w))) = Len(s) + 1
  <2> DEFINE c == Head(w)
             v == Tail(w)
             e == Append(s, c)
  <2>1. IsNameChar(c)
    BY <1>1, <1>4 DEF IsName
  <2>2. Reading(e, v, t, u) /\ w # <<>> /\ Head(w) = c /\ Tail(w) = v
    BY <1>4
  <2> HIDE DEF c, v, e
  <2>3. x = ChunkChar(x, c)
    <3>0. c # SEMI /\ c # "\r"
      BY <2>1, Plain
    <3>1. ExtValueChar(x, c) = x
      BY <2>1, <3>0, Zenon DEF ExtValueChar, ChunkNeeds
    <3> QED
      BY <1>3, <3>1
  <2>4. AtExtension("EXT_VALUE", 0, d, p, v, m, k, p)
    BY <2>2 DEF AtExtension, t, u
  <2>5. Position("EXT_VALUE", n, 0, d, p, v, m, k, p)
    BY <2>4, PositionOf
  <2>6. Kept(x, x)
    BY DEF Kept
  <2> HIDE DEF d
  <2>7. Stand(x, "EXT_VALUE", n, 0, d, p)
    BY DEF d
  <2> QED
    BY <2>2, <2>3, <2>5, <2>6, <2>7, GoesOn
<1>5. CASE s = t /\ w = u
  <2>1. ChunkChar(x, SEMI) = ChunkGoto(x, "EXT_NAME")
    <3>1. ExtValueChar(x, SEMI) = ChunkGoto(x, "EXT_NAME")
      <4>1. SEMI # "\r"
        BY Marks
      <4> QED
        BY <4>1, Zenon DEF ExtValueChar
    <3> QED
      BY <1>3, <3>1
  <2>2. ChunkChar(x, "\r") = ChunkGoto(x, "CR1")
    <3>1. "\r" # SEMI
      BY Marks
    <3>2. ExtValueChar(x, "\r") = ChunkGoto(x, "CR1")
      BY <3>1, Zenon DEF ExtValueChar
    <3> QED
      BY <1>3, <3>2
  <2>3. w = BehindExtensions(m, k, j + 1)
    BY <1>5 DEF u
  <2> QED
    BY <1>1, <2>1, <2>2, <2>3, LineGoesOn
<1> QED
  BY <1>4, <1>5, ReadOn DEF t, u

-----------------------------------------------------------------------------
LEMMA AppendCat ==
  ASSUME NEW p, NEW s, NEW c, IsSeq(p), IsSeq(s)
  PROVE  Append(p \o s, c) = p \o Append(s, c)
<1>1. \A t : IsSeq(t) => Append(t, c) = Join(t, <<c>>)
  <2> SUFFICES ASSUME NEW t, IsSeq(t) PROVE Append(t, c) = t \o <<c>>
    BY Joins
  <2>1. PICK S : t \in Seq(S)
    BY DEF IsSeq
  <2> QED
    BY <2>1
<1>2. IsSeq(<<c>>)
  BY One
<1> DEFINE z == <<c>>
<1> HIDE DEF z
<1>3. Join(Join(p, s), z) = Join(p, Join(s, z)) /\ IsSeq(Join(p, s))
  BY <1>2, Joins DEF z
<1>4. Append(Join(p, s), c) = Join(p, Append(s, c))
  BY <1>1, <1>3, Zenon DEF z
<1> QED
  BY <1>4, Zenon DEF Join

(* The end of a line with a size: what was told of the size is kept. *)
LEMMA SizeEndStands ==
  ASSUME NEW x, NEW n, NEW g, NEW d, NEW b, Stand(x, "CR1", n, g, d, b)
  PROVE  Stand(ChunkChar(x, "\n"), "LF1", HexToV(d), g, <<>>, b) /\ Kept(x, ChunkChar(x, "\n"))
<1> DEFINE y == ChunkGoto(x, "LF1")
           q == [y EXCEPT !.http.chunk = State("LF1", HexToV(d), g)]
           z == [q EXCEPT !.digits = <<>>]
           v == State("LF1", n, g)
<1>1. Stand(y, "LF1", n, g, d, b) /\ Kept(x, y)
  BY StandGoto
<1>2. Stand(q, "LF1", HexToV(d), g, d, b) /\ Kept(y, q)
  <2> HIDE DEF y
  <2> QED
    BY <1>1, StandChunk
<1>3. Stand(z, "LF1", HexToV(d), g, <<>>, b) /\ Kept(q, z)
  <2> HIDE DEF q
  <2> QED
    BY <1>2, StandDigits
<1>4. ChunkChar(x, "\n") = z
  <2>1. ChunkChar(x, "\n") = SizeEndChar(x, "\n")
    BY ChunkDispatch
  <2>2. SizeEndChar(x, "\n") = [y EXCEPT !.http.chunk.size = HexToV(x.digits), !.digits = <<>>]
    BY Zenon DEF SizeEndChar, ChunkNeeds
  <2>3. x.digits = d /\ y.http.chunk = v
    BY <1>1 DEF Stand
  <2> DEFINE a == HexToV(d)
  <2> HIDE DEF y, a
  <2>4. [v EXCEPT !.size = a] = State("LF1", a, g)
    <3>1. Filling("LF1", n, g, a)
      BY StateParts
    <3> QED
      BY <3>1, Zenon DEF Filling, v
  <2> HIDE DEF v
  <2>5. [y EXCEPT !.http.chunk.size = a] = [y EXCEPT !.http.chunk = [v EXCEPT !.size = a]]
    BY <2>3
  <2>6. [y EXCEPT !.http.chunk.size = a] = q
    BY <2>4, <2>5, Zenon DEF a
  <2>7. [y EXCEPT !.http.chunk.size = a, !.digits = <<>>] = [[y EXCEPT !.http.chunk.size = a] EXCEPT !.digits = <<>>]
    OBVIOUS
  <2> HIDE DEF q
  <2> QED
    BY <2>1, <2>2, <2>3, <2>6, <2>7, Zenon DEF a
<1> HIDE DEF y, q, z
<1>5. Kept(x, z)
  BY <1>1, <1>2, <1>3, KeptOn, Zenon
<1> QED
  BY <1>3, <1>4, <1>5

LEMMA SizeEndReads ==
  ASSUME NEW m, ChunksReadable(m), NEW k \in 0 .. Len(m.chunks), NEW p, Made(m, k, p),
         NEW x, NEW st, NEW n, NEW g, NEW d, NEW b, Stand(x, st, n, g, d, b),
         NEW w, AtSizeEnd(st, g, d, b, w, m, k, p)
  PROVE  \E c, v : ChunksGoOn(x, w, m, c, v)
<1> DEFINE y == ChunkChar(x, "\n")
           v == DataText(m, k)
           a == SizeOf(m, k)
<1>1. st = "CR1" /\ g = 0 /\ b = p /\ d = SizeText(m, k) /\ w = <<"\n">> \o v
  BY DEF AtSizeEnd
<1>2. HexToV(d) = a
  BY <1>1, SizeTextReads
<1>3. Stand(y, "LF1", a, g, <<>>, b) /\ Kept(x, y)
  BY <1>1, <1>2, SizeEndStands
<1>4. w # <<>> /\ Head(w) = "\n" /\ Tail(w) = v
  <2>1. IsSeq(v)
    BY ChunksLeft
  <2> HIDE DEF v
  <2> QED
    BY <1>1, <2>1, Mark
<1>5. Position("LF1", a, g, <<>>, b, v, m, k, p)
  <2>1. CASE k < Len(m.chunks)
    <3>1. AtFirst("LF1", a, g, <<>>, b, v, m, k, p)
      BY <1>1, <2>1 DEF AtFirst
    <3> QED
      BY <3>1, PositionOf
  <2>2. CASE ~(k < Len(m.chunks))
    <3>1. a = 0 /\ v = BehindTrailer(m, 0)
      BY <2>2, Zenon DEF SizeOf, DataText
    <3>2. k = Len(m.chunks) /\ 0 \in 0 .. Len(m.trailer)
      BY <2>2, ChunksLeft, TrailerLeft
    <3> HIDE DEF a, v
    <3>3. AtTrailer("LF1", a, g, <<>>, b, v, m, k, p)
      BY <1>1, <3>1, <3>2 DEF AtTrailer
    <3> QED
      BY <3>3, PositionOf
  <2> QED
    BY <2>1, <2>2
<1> HIDE DEF y, v, a
<1> QED
  BY <1>3, <1>4, <1>5, GoesOn DEF y

-----------------------------------------------------------------------------
(* A chunk. *)
LEMMA ChunkParts ==
  ASSUME NEW m, ChunksReadable(m), NEW k \in 0 .. Len(m.chunks), k < Len(m.chunks)
  PROVE  LET t == m.chunks[k + 1]
             u == Ends(BehindChunks(m, k + 1))
         IN /\ k + 1 \in 0 .. Len(m.chunks) /\ IsSeq(t) /\ IsSeq(u)
            /\ \A i \in 1 .. Len(t) : t[i] # "\r"
            /\ Len(t) \in Nat \ {0} /\ SizeOf(m, k) = Len(t) /\ DataText(m, k) = t \o u
            /\ u = <<"\r">> \o (<<"\n">> \o BehindChunks(m, k + 1))
            /\ IsSeq(<<"\n">> \o BehindChunks(m, k + 1))
<1>1. k + 1 \in 1 .. Len(m.chunks) /\ k + 1 \in 0 .. Len(m.chunks)
  BY ChunksLeft
<1> DEFINE t == m.chunks[k + 1]
           l == BehindChunks(m, k + 1)
<1>2. FreeOf(t, {"\r"}) /\ Len(t) \in 1 .. 255
  BY <1>1 DEF ChunksReadable
<1>3. IsSeq(l)
  BY <1>1, ChunksLeft
<1>4. SizeOf(m, k) = Len(t) /\ DataText(m, k) = t \o Ends(l)
  BY Zenon DEF SizeOf, DataText
<1> HIDE DEF t, l
<1>5. IsSeq(Ends(l)) /\ IsSeq(<<"\n">> \o l) /\ Ends(l) = <<"\r">> \o (<<"\n">> \o l)
  BY <1>3, EndsIsSeq DEF Ends
<1>6. IsSeq(t) /\ (\A i \in 1 .. Len(t) : t[i] # "\r") /\ Len(t) \in Nat \ {0}
  <2>1. IsSeq(t) /\ \A i \in 1 .. Len(t) : t[i] \notin {"\r"}
    BY <1>2, Zenon DEF FreeOf
  <2>2. \A i \in 1 .. Len(t) : t[i] # "\r"
    BY ONLY <2>1
  <2>3. Len(t) \in Nat \ {0}
    <3>1. \A i \in 1 .. 255 : i \in Nat \ {0}
      OBVIOUS
    <3> QED
      BY <1>2, <3>1, Zenon
  <2> QED
    BY <2>1, <2>2, <2>3
<1> QED
  BY <1>1, <1>4, <1>5, <1>6, Zenon DEF t, l

LEMMA InChunk ==
  ASSUME NEW m, ChunksReadable(m), NEW k \in 0 .. Len(m.chunks), k < Len(m.chunks),
         NEW p, Made(m, k, p), NEW x, NEW s, NEW w,
         Reading(s, w, m.chunks[k + 1], Ends(BehindChunks(m, k + 1))),
         Len(s) < Len(m.chunks[k + 1]), w # <<>>, Head(w) # "\r",
         Reading(Append(s, Head(w)), Tail(w), m.chunks[k + 1], Ends(BehindChunks(m, k + 1))),
         Len(Append(s, Head(w))) = Len(s) + 1,
         Stand(ChunkChar(x, Head(w)), "DATA", SizeOf(m, k), Len(s) + 1, <<>>, Append(p \o s, Head(w))),
         Kept(x, ChunkChar(x, Head(w)))
  PROVE  \E c, v : ChunksGoOn(x, w, m, c, v)
<1> DEFINE c == Head(w)
           v == Tail(w)
           y == ChunkChar(x, c)
           e == Append(s, c)
           n == SizeOf(m, k)
           g == Len(e)
           b == p \o e
<1>1. Append(p \o s, c) = b
  <2>1. IsSeq(p) /\ IsSeq(s)
    BY DEF Made, Reading
  <2> QED
    BY <2>1, AppendCat
<1>2. Stand(y, "DATA", n, g, <<>>, b)
  BY <1>1
<1> HIDE DEF c, v, y, n, b
<1>3. AtData("DATA", n, g, <<>>, b, v, m, k, p)
  <2>1. Reading(e, v, m.chunks[k + 1], Ends(BehindChunks(m, k + 1)))
    BY DEF c, v
  <2> HIDE DEF e
  <2>2. \E q : /\ Reading(q, v, m.chunks[k + 1], Ends(BehindChunks(m, k + 1)))
               /\ g = Len(q) /\ b = p \o q
    BY <2>1 DEF b
  <2> QED
    BY <2>2, Zenon DEF AtData, n
<1> HIDE DEF e, g
<1>4. Position("DATA", n, g, <<>>, b, v, m, k, p)
  BY <1>3, PositionOf
<1>5. Head(w) = c /\ Tail(w) = v /\ y = ChunkChar(x, c) /\ Kept(x, y)
  BY DEF c, v, y
<1> QED
  BY <1>2, <1>4, <1>5, GoesOn

LEMMA FirstReads ==
  ASSUME NEW m, ChunksReadable(m), NEW k \in 0 .. Len(m.chunks), NEW p, Made(m, k, p),
         NEW x, NEW st, NEW n, NEW g, NEW d, NEW b, Stand(x, st, n, g, d, b),
         NEW w, AtFirst(st, n, g, d, b, w, m, k, p)
  PROVE  \E c, v : ChunksGoOn(x, w, m, c, v)
<1>1. /\ st = "LF1" /\ g = 0 /\ d = <<>> /\ b = p /\ k < Len(m.chunks)
      /\ n = SizeOf(m, k) /\ w = DataText(m, k)
  BY DEF AtFirst
<1> DEFINE t == m.chunks[k + 1]
           u == Ends(BehindChunks(m, k + 1))
           s == <<>>
           c == Head(w)
           z == Data(x, c)
           y == ChunkGoto(z, "DATA")
<1>2. /\ IsSeq(t) /\ IsSeq(u) /\ (\A i \in 1 .. Len(t) : t[i] # "\r") /\ Len(t) \in Nat \ {0}
      /\ n = Len(t) /\ w = t \o u
  BY <1>1, ChunkParts
<1>3. Reading(s, w, t, u) /\ Len(s) = 0 /\ IsSeq(p) /\ p \o s = p
  <2>1. IsSeq(p)
    BY DEF Made
  <2> HIDE DEF t, u
  <2> QED
    BY <1>2, <2>1, NoReading, EmptyIsSeq, Cat
<1>4. /\ Len(s) < Len(t) /\ w # <<>> /\ Len(s) + 1 \in 1 .. Len(t)
      /\ Head(w) = t[Len(s) + 1] /\ Reading(Append(s, Head(w)), Tail(w), t, u)
      /\ Len(Append(s, Head(w))) = Len(s) + 1
  <2>1. s # t
    BY <1>2, <1>3
  <2> HIDE DEF t, u, s
  <2> QED
    BY <1>3, <2>1, ReadOn
<1>5. c # "\r"
  BY <1>2, <1>4
<1>6. Stand(z, st, n, 0 + 1, d, Append(b, c)) /\ Kept(x, z)
  <2> HIDE DEF c, z
  <2> QED
    BY <1>1, StandData DEF z
<1>7. Stand(y, "DATA", n, 0 + 1, d, Append(b, c)) /\ Kept(z, y)
  <2> HIDE DEF z
  <2> DEFINE q == Append(b, c)
             i == 0 + 1
  <2> HIDE DEF q, i
  <2>1. Stand(z, st, n, i, d, q)
    BY <1>6 DEF q, i
  <2>2. Stand(y, "DATA", n, i, d, q) /\ Kept(z, y)
    BY <2>1, StandGoto
  <2> QED
    BY <2>2, Zenon DEF q, i
<1>8. ChunkChar(x, c) = y
  <2>1. ChunkChar(x, c) = FirstDataChar(x, c)
    BY <1>1, ChunkDispatch
  <2>2. x.http.chunk.size = n /\ n # 0
    <3>1. State(st, n, g).size = n
      <4>1. Filling(st, n, g, st)
        BY StateParts
      <4> QED
        BY <4>1, Zenon DEF Filling
    <3> QED
      BY <1>2, <3>1 DEF Stand
  <2>3. FirstDataChar(x, c) = y
    <3> HIDE DEF c
    <3> QED
      BY <1>5, <2>2, Zenon DEF FirstDataChar
  <2> QED
    BY <2>1, <2>3
<1>9. Kept(x, ChunkChar(x, c))
  <2> HIDE DEF y, z, c
  <2> QED
    BY <1>6, <1>7, <1>8, KeptOn
<1>10. Stand(ChunkChar(x, c), "DATA", SizeOf(m, k), Len(s) + 1, <<>>, Append(p \o s, c))
  <2> HIDE DEF y, c
  <2>1. n = SizeOf(m, k) /\ Len(s) + 1 = 0 + 1 /\ p \o s = b /\ d = <<>>
    BY <1>1, <1>3
  <2> HIDE DEF s
  <2> QED
    BY <1>7, <1>8, <2>1, Zenon
<1> HIDE DEF t, u, s, c, y, z
<1>11. Len(s) < Len(m.chunks[k + 1]) /\ Reading(s, w, m.chunks[k + 1], Ends(BehindChunks(m, k + 1)))
       /\ Reading(Append(s, Head(w)), Tail(w), m.chunks[k + 1], Ends(BehindChunks(m, k + 1)))
  BY <1>3, <1>4 DEF t, u
<1>12. c = Head(w)
  BY DEF c
<1> QED
  BY <1>1, <1>4, <1>5, <1>9, <1>10, <1>11, <1>12, InChunk

LEMMA DataEnded ==
  ASSUME NEW x, NEW n, NEW d, NEW b, Stand(x, "DATA", n, n, d, b)
  PROVE  Stand(ChunkChar(x, "\r"), "DATA_CR", 0, 0, d, b) /\ Kept(x, ChunkChar(x, "\r"))
<1> DEFINE y == ChunkGoto(x, "DATA_CR")
           v == State("DATA_CR", n, n)
           o == State("DATA_CR", 0, n)
           q == [y EXCEPT !.http.chunk = o]
           z == [q EXCEPT !.http.chunk = State("DATA_CR", 0, 0)]
           ended == [y EXCEPT !.http.chunk.size = 0, !.http.chunk.got = 0]
<1>1. Stand(y, "DATA_CR", n, n, d, b) /\ Kept(x, y)
  BY StandGoto
<1>2. Stand(q, "DATA_CR", 0, n, d, b) /\ Kept(y, q)
  <2> HIDE DEF y
  <2> QED
    BY <1>1, StandChunk
<1>3. Stand(z, "DATA_CR", 0, 0, d, b) /\ Kept(q, z)
  <2> HIDE DEF q
  <2> QED
    BY <1>2, StandChunk
<1>4. ended = z
  <2>1. y.http.chunk = v /\ q.http.chunk = o
    BY <1>1, <1>2 DEF Stand
  <2>2. [v EXCEPT !.size = 0] = o
    <3>1. Filling("DATA_CR", n, n, 0)
      BY StateParts
    <3> QED
      BY <3>1, Zenon DEF Filling
  <2>3. [o EXCEPT !.got = 0] = State("DATA_CR", 0, 0)
    <3>1. Filling("DATA_CR", 0, n, 0)
      BY StateParts
    <3> QED
      BY <3>1, Zenon DEF Filling
  <2> HIDE DEF y
  <2>4. ended = [[y EXCEPT !.http.chunk.size = 0] EXCEPT !.http.chunk.got = 0]
    OBVIOUS
  <2> HIDE DEF v, ended
  <2>5. [y EXCEPT !.http.chunk.size = 0] = [y EXCEPT !.http.chunk = [v EXCEPT !.size = 0]]
    BY <2>1
  <2>6. [y EXCEPT !.http.chunk.size = 0] = q
    BY <2>2, <2>5, Zenon
  <2> HIDE DEF o, q
  <2>7. [q EXCEPT !.http.chunk.got = 0] = [q EXCEPT !.http.chunk = [o EXCEPT !.got = 0]]
    BY <2>1
  <2> HIDE DEF z
  <2> QED
    BY <2>3, <2>4, <2>6, <2>7, Zenon DEF z
<1>5. ChunkChar(x, "\r") = ended
  <2>1. ChunkChar(x, "\r") = DataChar(x, "\r")
    BY ChunkDispatch
  <2>2. x.http.chunk.got = x.http.chunk.size
    <3>1. State("DATA", n, n).size = n /\ State("DATA", n, n).got = n
      <4>1. Filling("DATA", n, n, n)
        BY StateParts
      <4> QED
        BY <4>1, Zenon DEF Filling
    <3> QED
      BY <3>1 DEF Stand
  <2>3. DataChar(x, "\r") = ended
    BY <2>2, Zenon DEF DataChar
  <2> QED
    BY <2>1, <2>3
<1> HIDE DEF y, q, z, ended
<1>6. Kept(x, z)
  BY <1>1, <1>2, <1>3, KeptOn, Zenon
<1> QED
  BY <1>3, <1>4, <1>5, <1>6

-----------------------------------------------------------------------------
LEMMA NextMade ==
  ASSUME NEW m, ChunksReadable(m), NEW k \in 0 .. Len(m.chunks), k < Len(m.chunks),
         NEW p, Made(m, k, p)
  PROVE  Made(m, k + 1, p \o m.chunks[k + 1])
<1> DEFINE t == m.chunks[k + 1]
           l == Left(m.chunks, k + 1)
<1>1. k \in 0 .. Len(m.chunks) - 1 /\ k + 1 \in 0 .. Len(m.chunks)
  BY ChunksLeft
<1>2. IsSeq(p) /\ p \o Left(m.chunks, k) = Content(m)
  BY DEF Made
<1>3. Left(m.chunks, k) = t \o l /\ IsSeq(l)
  BY <1>1, ChunksLeft, LeftSteps, LeftIsSeq
<1>4. IsSeq(t)
  BY ChunkParts
<1> HIDE DEF t, l
<1>5. (p \o t) \o l = p \o (t \o l) /\ IsSeq(p \o t)
  BY ONLY <1>2, <1>3, <1>4, Assoc, Cat
<1>6. (p \o t) \o l = Content(m)
  BY <1>2, <1>3, <1>5, Zenon
<1> QED
  BY <1>5, <1>6, Zenon DEF Made, t, l

LEMMA DataReads ==
  ASSUME NEW m, ChunksReadable(m), NEW k \in 0 .. Len(m.chunks), NEW p, Made(m, k, p),
         NEW x, NEW st, NEW n, NEW g, NEW d, NEW b, Stand(x, st, n, g, d, b),
         NEW w, AtData(st, n, g, d, b, w, m, k, p)
  PROVE  \E c, v : ChunksGoOn(x, w, m, c, v)
<1> DEFINE t == m.chunks[k + 1]
           u == Ends(BehindChunks(m, k + 1))
<1>1. st = "DATA" /\ d = <<>> /\ k < Len(m.chunks) /\ n = SizeOf(m, k)
  BY DEF AtData
<1>2. PICK s : Reading(s, w, t, u) /\ g = Len(s) /\ b = p \o s
  BY DEF AtData
<1>3. \A i \in 1 .. Len(t) : t[i] # "\r"
  BY <1>1, ChunkParts
<1>4. n = Len(t) /\ u = <<"\r">> \o (<<"\n">> \o BehindChunks(m, k + 1))
      /\ IsSeq(<<"\n">> \o BehindChunks(m, k + 1)) /\ k + 1 \in 0 .. Len(m.chunks)
  BY <1>1, ChunkParts
<1>5. \A c : ChunkChar(x, c) = DataChar(x, c)
  BY <1>1, ChunkDispatch
<1>6. CASE /\ Len(s) < Len(t) /\ w # <<>> /\ Len(s) + 1 \in 1 .. Len(t)
           /\ Head(w) = t[Len(s) + 1] /\ Reading(Append(s, Head(w)), Tail(w), t, u)
           /\ Len(Append(s, Head(w))) = Len(s) + 1
  <2> DEFINE c == Head(w)
             y == Data(x, c)
  <2>1. c # "\r"
    BY <1>3, <1>6
  <2>2. x.http.chunk.got = Len(s) /\ x.http.chunk.size = Len(t)
    <3>1. State(st, n, g).size = n /\ State(st, n, g).got = g
      <4>1. Filling(st, n, g, st)
        BY StateParts
      <4> QED
        BY <4>1, Zenon DEF Filling
    <3>2. x.http.chunk = State(st, n, g)
      BY DEF Stand
    <3> QED
      BY <1>2, <1>4, <3>1, <3>2, Zenon
  <2>3. ChunkChar(x, c) = y
    <3>1. x.http.chunk.got < x.http.chunk.size
      BY <1>6, <2>2, Zenon
    <3>2. DataChar(x, c) = y
      <4> HIDE DEF c
      <4> QED
        BY <2>1, <3>1, Zenon DEF DataChar
    <3> QED
      BY <1>5, <3>2, Zenon
  <2>4. Stand(y, st, n, g + 1, d, Append(b, c)) /\ Kept(x, y)
    <3> HIDE DEF c, y
    <3> QED
      BY StandData DEF y
  <2>5. Stand(ChunkChar(x, c), "DATA", SizeOf(m, k), Len(s) + 1, <<>>, Append(p \o s, c))
    <3> HIDE DEF c, y
    <3> QED
      BY <1>1, <1>2, <2>3, <2>4, Zenon
  <2>6. Kept(x, ChunkChar(x, c))
    BY <2>3, <2>4, Zenon
  <2> HIDE DEF y
  <2>7. c = Head(w)
    OBVIOUS
  <2> HIDE DEF c
  <2>8. Len(s) < Len(m.chunks[k + 1]) /\ Reading(s, w, m.chunks[k + 1], Ends(BehindChunks(m, k + 1)))
        /\ Reading(Append(s, Head(w)), Tail(w), m.chunks[k + 1], Ends(BehindChunks(m, k + 1)))
    BY <1>2, <1>6, Zenon
  <2> HIDE DEF t, u
  <2> QED
    BY <1>1, <1>6, <2>1, <2>5, <2>6, <2>7, <2>8, InChunk
<1>7. CASE s = t /\ w = u
  <2> DEFINE v == <<"\n">> \o BehindChunks(m, k + 1)
             q == p \o t
             y == ChunkChar(x, "\r")
             i == k + 1
  <2>1. Stand(y, "DATA_CR", 0, 0, d, b) /\ Kept(x, y)
    <3>1. Stand(x, "DATA", n, n, d, b)
      BY <1>1, <1>2, <1>4, <1>7
    <3> QED
      BY <3>1, DataEnded
  <2>2. w # <<>> /\ Head(w) = "\r" /\ Tail(w) = v
    <3>1. w = <<"\r">> \o v /\ IsSeq(v)
      BY <1>4, <1>7
    <3> HIDE DEF v
    <3> QED
      BY <3>1, Mark
  <2>3. Made(m, i, q) /\ b = q /\ i \in 0 .. Len(m.chunks)
    BY <1>1, <1>2, <1>4, <1>7, NextMade
  <2>4. AtDataEnd("DATA_CR", 0, d, b, v, m, i, q)
    BY <1>1, <2>3, Zenon DEF AtDataEnd
  <2> HIDE DEF v, q, y, i
  <2>5. Position("DATA_CR", 0, 0, d, b, v, m, i, q)
    BY <2>4, PositionOf
  <2> QED
    BY <2>1, <2>2, <2>3, <2>5, GoesOn DEF y
<1> HIDE DEF t, u
<1> QED
  BY <1>2, <1>6, <1>7, ReadOn

LEMMA DataEndReads ==
  ASSUME NEW m, ChunksReadable(m), NEW k \in 0 .. Len(m.chunks), NEW p, Made(m, k, p),
         NEW x, NEW st, NEW n, NEW g, NEW d, NEW b, Stand(x, st, n, g, d, b),
         NEW w, AtDataEnd(st, g, d, b, w, m, k, p)
  PROVE  \E c, v : ChunksGoOn(x, w, m, c, v)
<1> DEFINE v == BehindChunks(m, k)
           y == ChunkGoto(x, "DATA_LF")
<1>1. st = "DATA_CR" /\ g = 0 /\ d = <<>> /\ b = p /\ w = <<"\n">> \o v
  BY DEF AtDataEnd
<1>2. IsSeq(v) /\ v = SizeText(m, k) \o BehindSize(m, k) /\ IsSeq(SizeText(m, k)) /\ IsSeq(BehindSize(m, k))
  BY ChunksLeft
<1> HIDE DEF v
<1>3. w # <<>> /\ Head(w) = "\n" /\ Tail(w) = v
  BY <1>1, <1>2, Mark
<1>4. ChunkChar(x, "\n") = y
  <2>1. ChunkChar(x, "\n") = DataCrChar(x, "\n")
    BY <1>1, ChunkDispatch
  <2>2. DataCrChar(x, "\n") = y
    BY Zenon DEF DataCrChar, ChunkNeeds
  <2> QED
    BY <2>1, <2>2
<1>5. Stand(y, "DATA_LF", n, g, d, b) /\ Kept(x, y)
  BY StandGoto
<1> HIDE DEF y
<1>6. Reading(d, v, SizeText(m, k), BehindSize(m, k))
  BY <1>1, <1>2, NoReading
<1>7. AtSize("DATA_LF", g, d, b, v, m, k, p)
  BY <1>1, <1>6 DEF AtSize, SizeState
<1>8. Position("DATA_LF", n, g, d, b, v, m, k, p)
  BY <1>7, PositionOf
<1> QED
  BY <1>3, <1>4, <1>5, <1>8, GoesOn

-----------------------------------------------------------------------------
(* The lines behind the last chunk. *)
LEMMA TrailerParts ==
  ASSUME NEW m, ChunksReadable(m), NEW j \in 0 .. Len(m.trailer) - 1
  PROVE  LET t == m.trailer[j + 1].name
             z == m.trailer[j + 1].value
             l == BehindTrailer(m, j + 1)
         IN /\ j + 1 \in 0 .. Len(m.trailer) /\ j \in 0 .. Len(m.trailer)
            /\ IsName(t) /\ Len(t) \in Nat \ {0} /\ IsName(z)
            /\ IsSeq(TrailerRest(m, j)) /\ IsSeq(<<":">> \o TrailerRest(m, j))
            /\ IsSeq(Ends(l)) /\ IsSeq(<<"\n">> \o l)
            /\ BehindTrailer(m, j) = t \o (<<":">> \o TrailerRest(m, j))
<1> DEFINE t == m.trailer[j + 1].name
           z == m.trailer[j + 1].value
           l == BehindTrailer(m, j + 1)
           q == TrailerRest(m, j)
<1>1. j + 1 \in 1 .. Len(m.trailer) /\ j + 1 \in 0 .. Len(m.trailer) /\ j \in 0 .. Len(m.trailer)
  BY TrailerLeft
<1>2. IsName(t) /\ Len(t) # 0 /\ IsName(z)
  BY <1>1 DEF ChunksReadable
<1>3. IsSeq(l)
  BY <1>1, TrailerLeft
<1>4. q = z \o Ends(l) /\ BehindTrailer(m, j) = t \o (<<":">> \o q)
  <2>1. q = z \o Ends(l)
    BY Zenon DEF TrailerRest
  <2>2. BehindTrailer(m, j) = t \o (<<":">> \o (z \o Ends(l)))
    BY TrailerLeft
  <2> HIDE DEF t, z, l, q
  <2> QED
    BY <2>1, <2>2, Zenon
<1> HIDE DEF t, z, l, q
<1>5. IsSeq(Ends(l)) /\ IsSeq(<<"\n">> \o l)
  BY <1>3, EndsIsSeq
<1>6. IsSeq(q)
  <2> DEFINE r == Ends(l)
  <2> HIDE DEF r
  <2>1. IsSeq(z) /\ IsSeq(r) /\ q = z \o r
    BY <1>2, <1>4, <1>5 DEF IsName, r
  <2> QED
    BY <2>1, Cat
<1>7. IsSeq(<<":">> \o q)
  BY <1>6, Mark
<1>8. Len(t) \in Nat \ {0}
  BY <1>2, LenIsNat DEF IsName
<1> QED
  BY <1>1, <1>2, <1>4, <1>5, <1>6, <1>7, <1>8, Zenon DEF t, z, l, q

LEMMA TrailerLineReads ==
  ASSUME NEW m, ChunksReadable(m), NEW p, Made(m, Len(m.chunks), p), NEW x,
         NEW j \in 0 .. Len(m.trailer), Stand(x, "LF1", 0, 0, <<>>, p)
  PROVE  \E c, v : ChunksGoOn(x, BehindTrailer(m, j), m, c, v)
<1> DEFINE w == BehindTrailer(m, j)
           k == Len(m.chunks)
           o == 0
           e == <<>>
<1>0. k \in 0 .. Len(m.chunks)
  BY ChunksLeft
<1>1. \A c : ChunkChar(x, c) = FirstDataChar(x, c)
  BY ChunkDispatch
<1>2. CASE j = Len(m.trailer)
  <2> DEFINE v == <<"\n">>
             y == ChunkGoto(x, "CR2")
  <2>1. w = <<"\r">> \o v /\ IsSeq(v)
    BY <1>2, TrailerLeft, One
  <2> HIDE DEF v
  <2>2. w # <<>> /\ Head(w) = "\r" /\ Tail(w) = v
    BY <2>1, Mark
  <2>3. ChunkChar(x, "\r") = y
    <3>1. FirstDataChar(x, "\r") = y
      BY Zenon DEF FirstDataChar
    <3> QED
      BY <1>1, <3>1
  <2>4. Stand(y, "CR2", o, o, e, p) /\ Kept(x, y)
    BY StandGoto
  <2> HIDE DEF w, y, e
  <2>5. AtTrailer("CR2", o, o, e, p, v, m, k, p)
    BY DEF AtTrailer, v, e
  <2> HIDE DEF o
  <2>6. Position("CR2", o, o, e, p, v, m, k, p)
    BY <2>5, PositionOf
  <2> HIDE DEF k
  <2>7. Made(m, k, p)
    BY DEF k
  <2> QED
    BY <1>0, <2>2, <2>3, <2>4, <2>6, <2>7, GoesOn DEF w
<1>3. CASE j # Len(m.trailer)
  <2> DEFINE t == m.trailer[j + 1].name
             u == <<":">> \o TrailerRest(m, j)
             c == Head(w)
             v == Tail(w)
             s == Append(e, c)
             y == ChunkGoto(x, "TRAILER_NAME")
  <2>1. j \in 0 .. Len(m.trailer) - 1
    BY <1>3, TrailerLeft
  <2>2. IsName(t) /\ Len(t) \in Nat \ {0} /\ IsSeq(t) /\ IsSeq(u) /\ w = t \o u
    BY <2>1, TrailerParts DEF IsName
  <2>3. Reading(e, w, t, u) /\ e # t
    <3> HIDE DEF t, u, w
    <3>1. e # t
      BY <2>2, EmptyIsSeq
    <3> HIDE DEF e
    <3> QED
      BY <2>2, <3>1, NoReading DEF e
  <2> HIDE DEF t, u, w, e
  <2>4. /\ w # <<>> /\ Len(e) + 1 \in 1 .. Len(t)
        /\ Head(w) = t[Len(e) + 1] /\ Reading(s, v, t, u)
    BY <2>3, ReadOn
  <2>5. IsNameChar(c)
    BY <2>2, <2>4 DEF IsName
  <2> HIDE DEF c, v, s
  <2>6. ChunkChar(x, c) = y
    <3>1. c # "\r"
      BY <2>5, Plain
    <3>2. x.http.chunk.size = 0
      <4>1. State("LF1", 0, 0).size = 0
        <5>1. Filling("LF1", 0, 0, 0)
          BY StateParts
        <5> QED
          BY <5>1, Zenon DEF Filling
      <4> QED
        BY <4>1 DEF Stand
    <3>3. FirstDataChar(x, c) = y
      BY <3>1, <3>2, Zenon DEF FirstDataChar
    <3> QED
      BY <1>1, <3>3
  <2>7. Stand(y, "TRAILER_NAME", o, o, e, p) /\ Kept(x, y)
    BY StandGoto DEF e
  <2> HIDE DEF y
  <2>8. AtTrailer("TRAILER_NAME", o, o, e, p, v, m, k, p)
    BY <2>1, <2>4 DEF AtTrailer, t, u, e
  <2> HIDE DEF o
  <2>9. Position("TRAILER_NAME", o, o, e, p, v, m, k, p)
    BY <2>8, PositionOf
  <2> HIDE DEF k
  <2>10. Made(m, k, p) /\ Head(w) = c /\ Tail(w) = v
    BY DEF k, c, v
  <2> QED
    BY <1>0, <2>4, <2>6, <2>7, <2>9, <2>10, GoesOn DEF w
<1> QED
  BY <1>2, <1>3

LEMMA TrailerNameReads ==
  ASSUME NEW m, ChunksReadable(m), NEW p, Made(m, Len(m.chunks), p), NEW x,
         Stand(x, "TRAILER_NAME", 0, 0, <<>>, p),
         NEW j \in 0 .. Len(m.trailer) - 1, NEW s, NEW w,
         Reading(s, w, m.trailer[j + 1].name, <<":">> \o TrailerRest(m, j))
  PROVE  \E c, v : ChunksGoOn(x, w, m, c, v)
<1> DEFINE t == m.trailer[j + 1].name
           q == TrailerRest(m, j)
           u == <<":">> \o q
           z == m.trailer[j + 1].value
           r == Ends(BehindTrailer(m, j + 1))
           k == Len(m.chunks)
           o == 0
           n == <<>>
<1>0. k \in 0 .. Len(m.chunks) /\ Made(m, k, p)
  BY ChunksLeft
<1>1. IsName(t) /\ IsName(z) /\ IsSeq(u) /\ IsSeq(r) /\ IsSeq(q)
  BY TrailerParts
<1>2. q = z \o r
  BY Zenon DEF TrailerRest
<1>3. \A c : ChunkChar(x, c) = TrailerNameChar(x, c)
  BY ChunkDispatch
<1> HIDE DEF t, u, z, r, q
<1>4. CASE /\ Len(s) < Len(t) /\ w # <<>> /\ Len(s) + 1 \in 1 .. Len(t)
           /\ Head(w) = t[Len(s) + 1] /\ Reading(Append(s, Head(w)), Tail(w), t, u)
           /\ Len(Append(s, Head(w))) = Len(s) + 1
  <2> DEFINE c == Head(w)
             v == Tail(w)
             e == Append(s, c)
  <2>1. IsNameChar(c)
    BY <1>1, <1>4 DEF IsName
  <2>2. Reading(e, v, t, u) /\ w # <<>> /\ Head(w) = c /\ Tail(w) = v
    BY <1>4
  <2> HIDE DEF c, v, e
  <2>3. x = ChunkChar(x, c)
    <3>1. TrailerNameChar(x, c) = x
      BY <2>1, Plain, Zenon DEF TrailerNameChar, ChunkNeeds
    <3> QED
      BY <1>3, <3>1
  <2>4. AtTrailer("TRAILER_NAME", o, o, n, p, v, m, k, p)
    BY <2>2 DEF AtTrailer, t, u, q
  <2> HIDE DEF o, n, k
  <2>5. Position("TRAILER_NAME", o, o, n, p, v, m, k, p)
    BY <2>4, PositionOf
  <2>6. Kept(x, x)
    BY DEF Kept
  <2>7. Stand(x, "TRAILER_NAME", o, o, n, p)
    BY DEF o, n
  <2> QED
    BY <1>0, <2>2, <2>3, <2>5, <2>6, <2>7, GoesOn
<1>5. CASE s = t /\ w = u
  <2> DEFINE y == ChunkGoto(x, "TRAILER_VALUE")
  <2>1. y = ChunkChar(x, ":")
    <3>1. TrailerNameChar(x, ":") = y
      BY Zenon DEF TrailerNameChar
    <3> QED
      BY <1>3, <3>1
  <2>2. Stand(y, "TRAILER_VALUE", o, o, n, p) /\ Kept(x, y)
    BY StandGoto
  <2> HIDE DEF y
  <2>3. Reading(<<>>, q, z, r)
    BY <1>1, <1>2, NoReading DEF IsName
  <2>4. w # <<>> /\ Head(w) = ":" /\ Tail(w) = q
    <3>1. w = <<":">> \o q
      BY <1>5, Zenon DEF u
    <3> QED
      BY <1>1, <3>1, Mark
  <2>5. AtTrailer("TRAILER_VALUE", o, o, n, p, q, m, k, p)
    BY <2>3 DEF AtTrailer, z, r
  <2> HIDE DEF o, n, k
  <2>6. Position("TRAILER_VALUE", o, o, n, p, q, m, k, p)
    BY <2>5, PositionOf
  <2> QED
    BY <1>0, <2>1, <2>2, <2>4, <2>6, GoesOn
<1>6. Reading(s, w, t, u)
  BY DEF t, u, q
<1> QED
  BY <1>4, <1>5, <1>6, ReadOn

LEMMA TrailerValueReads ==
  ASSUME NEW m, ChunksReadable(m), NEW p, Made(m, Len(m.chunks), p), NEW x,
         Stand(x, "TRAILER_VALUE", 0, 0, <<>>, p),
         NEW j \in 0 .. Len(m.trailer) - 1, NEW s, NEW w,
         Reading(s, w, m.trailer[j + 1].value, Ends(BehindTrailer(m, j + 1)))
  PROVE  \E c, v : ChunksGoOn(x, w, m, c, v)
<1> DEFINE t == m.trailer[j + 1].value
           l == BehindTrailer(m, j + 1)
           u == Ends(l)
           k == Len(m.chunks)
           o == 0
           n == <<>>
<1>0. k \in 0 .. Len(m.chunks) /\ Made(m, k, p)
  BY ChunksLeft
<1>1. IsName(t) /\ IsSeq(u) /\ IsSeq(<<"\n">> \o l) /\ j + 1 \in 0 .. Len(m.trailer)
  BY TrailerParts
<1>2. u = <<"\r">> \o (<<"\n">> \o l)
  BY Zenon DEF Ends
<1>3. \A c : ChunkChar(x, c) = TrailerValueChar(x, c)
  BY ChunkDispatch
<1> HIDE DEF t, u, l
<1>4. CASE /\ Len(s) < Len(t) /\ w # <<>> /\ Len(s) + 1 \in 1 .. Len(t)
           /\ Head(w) = t[Len(s) + 1] /\ Reading(Append(s, Head(w)), Tail(w), t, u)
           /\ Len(Append(s, Head(w))) = Len(s) + 1
  <2> DEFINE c == Head(w)
             v == Tail(w)
             e == Append(s, c)
  <2>1. IsNameChar(c)
    BY <1>1, <1>4 DEF IsName
  <2>2. Reading(e, v, t, u) /\ w # <<>> /\ Head(w) = c /\ Tail(w) = v
    BY <1>4
  <2> HIDE DEF c, v, e
  <2>3. x = ChunkChar(x, c)
    <3>1. TrailerValueChar(x, c) = x
      BY <2>1, Plain, Zenon DEF TrailerValueChar, ChunkNeeds
    <3> QED
      BY <1>3, <3>1
  <2>4. AtTrailer("TRAILER_VALUE", o, o, n, p, v, m, k, p)
    BY <2>2 DEF AtTrailer, t, u, l
  <2> HIDE DEF o, n, k
  <2>5. Position("TRAILER_VALUE", o, o, n, p, v, m, k, p)
    BY <2>4, PositionOf
  <2>6. Kept(x, x)
    BY DEF Kept
  <2>7. Stand(x, "TRAILER_VALUE", o, o, n, p)
    BY DEF o, n
  <2> QED
    BY <1>0, <2>2, <2>3, <2>5, <2>6, <2>7, GoesOn
<1>5. CASE s = t /\ w = u
  <2> DEFINE y == ChunkGoto(x, "CR1")
             v == <<"\n">> \o l
  <2>1. y = ChunkChar(x, "\r")
    <3>1. TrailerValueChar(x, "\r") = y
      BY Zenon DEF TrailerValueChar
    <3> QED
      BY <1>3, <3>1
  <2>2. Stand(y, "CR1", o, o, n, p) /\ Kept(x, y)
    BY StandGoto
  <2>3. w # <<>> /\ Head(w) = "\r" /\ Tail(w) = v
    <3>1. w = <<"\r">> \o v /\ IsSeq(v)
      BY <1>1, <1>2, <1>5, Zenon
    <3> HIDE DEF v
    <3> QED
      BY <3>1, Mark
  <2> HIDE DEF y
  <2>4. AtTrailer("CR1", o, o, n, p, v, m, k, p)
    BY <1>1 DEF AtTrailer, l
  <2> HIDE DEF o, n, k, v
  <2>5. Position("CR1", o, o, n, p, v, m, k, p)
    BY <2>4, PositionOf
  <2> QED
    BY <1>0, <2>1, <2>2, <2>3, <2>5, GoesOn
<1>6. Reading(s, w, t, u)
  BY DEF t, u, l
<1> QED
  BY <1>4, <1>5, <1>6, ReadOn

-----------------------------------------------------------------------------
(* The last character is read, and the body is what was meant. *)
ChunksOverAt(x, w, m) ==
  LET y == ChunkChar(x, "\n")
  IN /\ w = <<"\n">> /\ Shaped(y) /\ y.rc = 0 /\ y.http.chunked = TRUE
     /\ y.http.chunk.end = TRUE /\ y.http.request.body = Content(m) /\ Kept(x, y)

LEMMA AllMade ==
  ASSUME NEW m, ChunksReadable(m), NEW p, Made(m, Len(m.chunks), p)
  PROVE  p = Content(m)
<1> DEFINE l == Left(m.chunks, Len(m.chunks))
<1>1. l = <<>>
  BY ChunksLeft, LeftSteps
<1>2. IsSeq(p) /\ p \o l = Content(m)
  BY DEF Made
<1> HIDE DEF l
<1>3. p \o <<>> = Content(m)
  BY <1>1, <1>2
<1>4. p \o <<>> = p
  BY <1>2, Cat, EmptyIsSeq
<1> QED
  BY <1>3, <1>4

LEMMA EndReads ==
  ASSUME NEW m, ChunksReadable(m), NEW p, Made(m, Len(m.chunks), p), NEW x,
         NEW n, NEW g, NEW d, Stand(x, "CR2", n, g, d, p), NEW w, w = <<"\n">>
  PROVE  ChunksOverAt(x, w, m)
<1> DEFINE y == ChunkGoto(x, "LF2")
           v == [State("LF2", n, g) EXCEPT !.end = TRUE]
           z == [y EXCEPT !.http.chunk = v]
<1>1. Stand(y, "LF2", n, g, d, p) /\ Kept(x, y)
  BY StandGoto
<1>2. ChunkChar(x, "\n") = z
  <2>1. ChunkChar(x, "\n") = EndChar(x, "\n")
    BY ChunkDispatch
  <2>2. EndChar(x, "\n") = [y EXCEPT !.http.chunk.end = TRUE]
    BY Zenon DEF EndChar, ChunkNeeds
  <2>3. y.http.chunk = State("LF2", n, g)
    BY <1>1 DEF Stand
  <2> HIDE DEF y
  <2>4. [y EXCEPT !.http.chunk.end = TRUE] = z
    BY <2>3
  <2> QED
    BY <2>1, <2>2, <2>4
<1>3. v.end = TRUE
  BY DEF State
<1> HIDE DEF v, y
<1>4. /\ Shaped(z) /\ z.rc = y.rc /\ z.http.chunk = v
      /\ z.http.chunked = y.http.chunked /\ z.http.request = y.http.request
  <2>1. Shaped(y)
    BY <1>1 DEF Stand
  <2> QED
    BY <2>1, ChunkPut
<1> HIDE DEF z
<1>5. Kept(x, z)
  BY <1>1, <1>4 DEF Kept
<1>6. z.http.request.body = Content(m) /\ z.rc = 0 /\ z.http.chunked = TRUE
  BY <1>1, <1>4, AllMade DEF Stand
<1>7. z.http.chunk.end = TRUE
  BY <1>3, <1>4
<1> QED
  BY <1>2, <1>4, <1>5, <1>6, <1>7, Zenon DEF ChunksOverAt

LEMMA TrailerCrReads ==
  ASSUME NEW m, ChunksReadable(m), NEW p, Made(m, Len(m.chunks), p), NEW x,
         Stand(x, "CR1", 0, 0, <<>>, p), NEW j \in 0 .. Len(m.trailer),
         NEW w, w = <<"\n">> \o BehindTrailer(m, j)
  PROVE  \E c, v : ChunksGoOn(x, w, m, c, v)
<1> DEFINE y == ChunkChar(x, "\n")
           v == BehindTrailer(m, j)
           k == Len(m.chunks)
           o == 0
           n == <<>>
<1>0. k \in 0 .. Len(m.chunks) /\ Made(m, k, p)
  BY ChunksLeft
<1>1. HexToV(<<>>) = 0
  BY HexNone, EmptyIsSeq
<1>2. Stand(y, "LF1", o, o, n, p) /\ Kept(x, y)
  BY <1>1, SizeEndStands
<1>3. w # <<>> /\ Head(w) = "\n" /\ Tail(w) = v
  <2>1. IsSeq(v)
    BY TrailerLeft
  <2> HIDE DEF v
  <2> QED
    BY <2>1, Mark DEF v
<1>4. AtTrailer("LF1", o, o, n, p, v, m, k, p)
  BY DEF AtTrailer
<1> HIDE DEF y, v, k, o, n
<1>5. Position("LF1", o, o, n, p, v, m, k, p)
  BY <1>4, PositionOf
<1> QED
  BY <1>0, <1>2, <1>3, <1>5, GoesOn DEF y

LEMMA TrailerReads ==
  ASSUME NEW m, ChunksReadable(m), NEW k \in 0 .. Len(m.chunks), NEW p, Made(m, k, p),
         NEW x, NEW st, NEW n, NEW g, NEW d, NEW b, Stand(x, st, n, g, d, b),
         NEW w, AtTrailer(st, n, g, d, b, w, m, k, p)
  PROVE  \/ \E c, v : ChunksGoOn(x, w, m, c, v)
         \/ ChunksOverAt(x, w, m)
<1>1. k = Len(m.chunks) /\ n = 0 /\ g = 0 /\ d = <<>> /\ b = p
  BY DEF AtTrailer
<1>2. Made(m, Len(m.chunks), p) /\ Stand(x, st, 0, 0, <<>>, p)
  BY <1>1
<1>3. \/ \E j \in 0 .. Len(m.trailer) :
           \/ st = "CR1" /\ w = <<"\n">> \o BehindTrailer(m, j)
           \/ st = "LF1" /\ w = BehindTrailer(m, j)
      \/ \E s : \E j \in 0 .. Len(m.trailer) - 1 :
           \/ st = "TRAILER_NAME" /\ Reading(s, w, m.trailer[j + 1].name, <<":">> \o TrailerRest(m, j))
           \/ st = "TRAILER_VALUE" /\ Reading(s, w, m.trailer[j + 1].value, Ends(BehindTrailer(m, j + 1)))
      \/ st = "CR2" /\ w = <<"\n">>
  BY Zenon DEF AtTrailer
<1>4. ASSUME NEW j \in 0 .. Len(m.trailer), st = "CR1", w = <<"\n">> \o BehindTrailer(m, j)
      PROVE  \E c, v : ChunksGoOn(x, w, m, c, v)
  BY <1>2, <1>4, TrailerCrReads
<1>5. ASSUME NEW j \in 0 .. Len(m.trailer), st = "LF1", w = BehindTrailer(m, j)
      PROVE  \E c, v : ChunksGoOn(x, w, m, c, v)
  BY <1>2, <1>5, TrailerLineReads
<1>6. ASSUME NEW s, NEW j \in 0 .. Len(m.trailer) - 1, st = "TRAILER_NAME",
             Reading(s, w, m.trailer[j + 1].name, <<":">> \o TrailerRest(m, j))
      PROVE  \E c, v : ChunksGoOn(x, w, m, c, v)
  BY <1>2, <1>6, TrailerNameReads
<1>7. ASSUME NEW s, NEW j \in 0 .. Len(m.trailer) - 1, st = "TRAILER_VALUE",
             Reading(s, w, m.trailer[j + 1].value, Ends(BehindTrailer(m, j + 1)))
      PROVE  \E c, v : ChunksGoOn(x, w, m, c, v)
  BY <1>2, <1>7, TrailerValueReads
<1>8. CASE st = "CR2" /\ w = <<"\n">>
  BY <1>2, <1>8, EndReads
<1> QED
  BY <1>3, <1>4, <1>5, <1>6, <1>7, <1>8, Zenon

LEMMA ExtensionReads ==
  ASSUME NEW m, ChunksReadable(m), NEW k \in 0 .. Len(m.chunks), NEW p, Made(m, k, p),
         NEW x, NEW st, NEW n, NEW g, NEW d, NEW b, Stand(x, st, n, g, d, b),
         NEW w, AtExtension(st, g, d, b, w, m, k, p)
  PROVE  \E c, v : ChunksGoOn(x, w, m, c, v)
<1>1. Stand(x, st, n, 0, SizeText(m, k), p)
  BY DEF AtExtension
<1>2. PICK s : \E j \in 0 .. Len(m.extension) - 1 :
       \/ st = "EXT_NAME" /\ Reading(s, w, m.extension[j + 1].name, BehindName(m, k, j))
       \/ st = "EXT_VALUE" /\ Reading(s, w, m.extension[j + 1].value, BehindExtensions(m, k, j + 1))
  BY Zenon DEF AtExtension
<1>3. PICK j \in 0 .. Len(m.extension) - 1 :
       \/ st = "EXT_NAME" /\ Reading(s, w, m.extension[j + 1].name, BehindName(m, k, j))
       \/ st = "EXT_VALUE" /\ Reading(s, w, m.extension[j + 1].value, BehindExtensions(m, k, j + 1))
  BY <1>2
<1>4. CASE st = "EXT_NAME" /\ Reading(s, w, m.extension[j + 1].name, BehindName(m, k, j))
  BY <1>1, <1>4, ExtensionNameReads
<1>5. CASE st = "EXT_VALUE" /\ Reading(s, w, m.extension[j + 1].value, BehindExtensions(m, k, j + 1))
  BY <1>1, <1>5, ExtensionValueReads
<1> QED
  BY <1>3, <1>4, <1>5

(* One character of a chunked body. *)
LEMMA ChunkReads ==
  ASSUME NEW x, NEW w, NEW m, ChunksReadable(m), ChunkAt(x, w, m)
  PROVE  \/ \E c, v : ChunksGoOn(x, w, m, c, v)
         \/ ChunksOverAt(x, w, m)
<1>1. PICK st, n, g, d, b, p : \E k \in 0 .. Len(m.chunks) :
        Stand(x, st, n, g, d, b) /\ Made(m, k, p) /\ Position(st, n, g, d, b, w, m, k, p)
  BY Zenon DEF ChunkAt
<1>2. PICK k \in 0 .. Len(m.chunks) :
        Stand(x, st, n, g, d, b) /\ Made(m, k, p) /\ Position(st, n, g, d, b, w, m, k, p)
  BY <1>1
<1>3. CASE AtSize(st, g, d, b, w, m, k, p)
  BY <1>2, <1>3, SizeReads
<1>4. CASE AtExtension(st, g, d, b, w, m, k, p)
  BY <1>2, <1>4, ExtensionReads
<1>5. CASE AtSizeEnd(st, g, d, b, w, m, k, p)
  BY <1>2, <1>5, SizeEndReads
<1>6. CASE AtFirst(st, n, g, d, b, w, m, k, p)
  BY <1>2, <1>6, FirstReads
<1>7. CASE AtData(st, n, g, d, b, w, m, k, p)
  BY <1>2, <1>7, DataReads
<1>8. CASE AtDataEnd(st, g, d, b, w, m, k, p)
  BY <1>2, <1>8, DataEndReads
<1>9. CASE AtTrailer(st, n, g, d, b, w, m, k, p)
  BY <1>2, <1>9, TrailerReads
<1> QED
  BY <1>2, <1>3, <1>4, <1>5, <1>6, <1>7, <1>8, <1>9 DEF Position

-----------------------------------------------------------------------------
(* What the parser of a request leaves of the answer: nothing, while it goes  *)
(* on; a status with its phrase, where it refuses.                            *)
Silent(x, y) == Shaped(y) /\ y.rc = x.rc /\ y.http.response = x.http.response
Noted(a, b) ==
  \E s \in Statuses : \E v : b = [a EXCEPT !.status = s, !.version = v, !.reason = ReasonPhrase(s)]
Notes(x, y) == Shaped(y) /\ y.rc # 0 /\ Noted(x.http.response, y.http.response)
Speaks(x, y) == Silent(x, y) \/ Notes(x, y)

LEMMA SilentField ==
  ASSUME NEW x, Shaped(x), NEW f \in ParserFields \ {"http", "rc", "side"}, NEW v
  PROVE  Silent(x, [x EXCEPT ![f] = v])
BY DEF Silent, Shaped, ParserFields

LEMMA SilentPut ==
  ASSUME NEW x, Shaped(x), NEW f \in RequestFields, NEW v
  PROVE  Silent(x, Put(x, f, v))
<1> DEFINE y == Put(x, f, v)
<1>1. Shaped(y) /\ y.rc = x.rc
  BY RequestField
<1>2. y.http.response = x.http.response
  BY DEF Put, Shaped, ShapedHttp, ParserFields, HttpFields
<1> HIDE DEF y
<1> QED
  BY <1>1, <1>2 DEF Silent, y

LEMMA SilentSelf == \A x : Shaped(x) => Silent(x, x)
BY DEF Silent

LEMMA SilentThen ==
  ASSUME NEW x, NEW y, NEW z, Silent(x, y)
  PROVE  /\ Silent(y, z) => Silent(x, z)
         /\ Notes(y, z) => Notes(x, z)
         /\ Speaks(y, z) => Speaks(x, z)
         /\ Shaped(y)
BY DEF Silent, Notes, Speaks

LEMMA DueStatuses == {100, 400, 405, 408, 411, 413, 414, 431, 505} \subseteq Statuses
BY DEF Statuses

LEMMA Errors == EERIS_ERROR # 0 /\ EERIS_DATA # 0 /\ EERIS_4XX # 0 /\ EERIS_5XX # 0
BY DEF EERIS_ERROR, EERIS_DATA, EERIS_4XX, EERIS_5XX

LEMMA RefuseNotes ==
  ASSUME NEW x, Shaped(x), NEW rc, rc # 0, NEW status \in Statuses, NEW version
  PROVE  Notes(x, Refuse(x, rc, status, version))
<1> DEFINE h == Refusal(x.http, status, version)
           y == Refuse(x, rc, status, version)
<1>1. y = [x EXCEPT !.st = "FINISH", !.rc = rc, !.http = h]
  BY DEF Refuse
<1>2. Shaped(y)
  BY RefuseAlike DEF Alike
<1>3. h.response = [x.http.response EXCEPT !.status = status, !.version = version,
                                            !.reason = ReasonPhrase(status)]
  <2>1. h = [x.http EXCEPT !.response.status = status, !.response.version = version,
                           !.response.reason = ReasonPhrase(status)]
    BY DEF Refusal
  <2> QED
    BY <2>1 DEF Shaped, ShapedHttp, HttpFields
<1> HIDE DEF h, y
<1>4. y.http = h /\ y.rc = rc
  BY <1>1 DEF Shaped, ParserFields
<1>5. Noted(x.http.response, y.http.response)
  BY <1>3, <1>4, Zenon DEF Noted
<1> QED
  BY <1>2, <1>4, <1>5 DEF Notes, y

LEMMA BadNotes ==
  ASSUME NEW x, Shaped(x)
  PROVE  Notes(x, Bad(x))
<1>1. Bad(x) = Refuse(x, EERIS_4XX, 400, 10)
  BY DEF Bad, Shaped
<1> QED
  BY <1>1, RefuseNotes, DueStatuses, Errors

LEMMA CommandSpeaks ==
  ASSUME NEW x, Shaped(x), NEW c
  PROVE  Speaks(x, StartChar(x, c)) /\ Speaks(x, CommandChar(x, c)) /\ Speaks(x, UrlStartChar(x, c))
<1> DEFINE cleared == [x EXCEPT !.tmp = <<>>]
           y == CommandChar(x, c)
           z == UrlStartChar(x, c)
<1>1. Silent(x, Store(x, c, "COMMAND"))
  BY DEF Silent, Store, Shaped, ParserFields
<1>2. Silent(x, cleared)
  BY SilentField DEF ParserFields
<1>3. Speaks(x, y)
  <2>1. CASE c # SP
    <3>1. y = Store(x, c, "COMMAND")
      BY <2>1, Zenon DEF CommandChar
    <3> QED
      BY <1>1, <3>1, Zenon DEF Speaks
  <2>2. CASE c = SP /\ \E w \in Recognised : x.tmp = <<w>>
    <3> DEFINE n == CommandNumber(x.tmp[1])
               begun == Goto(cleared, "URL_START")
    <3>1. y = [x EXCEPT !.st = "URL_START", !.tmp = <<>>, !.http.request.command = n]
      BY <2>2, Zenon DEF CommandChar
    <3> HIDE DEF n, y
    <3>2. y = Put(begun, "command", n)
      BY <3>1 DEF Shaped, ParserFields, Put, Goto
    <3> HIDE DEF cleared
    <3>3. Silent(cleared, begun)
      BY <1>2, SilentThen, SilentField DEF ParserFields, Goto
    <3> HIDE DEF begun
    <3>4. Silent(begun, y)
      BY <3>2, <3>3, SilentThen, SilentPut DEF RequestFields
    <3> QED
      BY <1>2, <3>3, <3>4, SilentThen DEF Speaks
  <2>3. CASE c = SP /\ ~(\E w \in Recognised : x.tmp = <<w>>)
    <3>1. y = Refuse(cleared, EERIS_DATA, 405, 10)
      BY <2>3, Zenon DEF CommandChar
    <3> HIDE DEF cleared, y
    <3>2. Notes(cleared, y)
      BY <1>2, <3>1, SilentThen, RefuseNotes, DueStatuses, Errors
    <3> QED
      BY <1>2, <3>2, SilentThen DEF Speaks
  <2> QED
    BY <2>1, <2>2, <2>3
<1>4. Speaks(x, z)
  <2> DEFINE u == Append(x.http.request.url, c)
             begun == Goto(x, "URL")
  <2>1. z = Bad(x) \/ z = [x EXCEPT !.st = "URL", !.http.request.url = u]
    BY Zenon DEF UrlStartChar, Expect
  <2> HIDE DEF z, u
  <2>2. [x EXCEPT !.st = "URL", !.http.request.url = u] = Put(begun, "url", u)
    BY DEF Shaped, ParserFields, Put, Goto
  <2>3. Silent(x, begun)
    BY SilentField DEF ParserFields, Goto
  <2> HIDE DEF begun
  <2>4. Silent(x, Put(begun, "url", u))
    BY <2>3, SilentThen, SilentPut DEF RequestFields
  <2> QED
    BY <2>1, <2>2, <2>4, BadNotes DEF Speaks
<1> QED
  BY <1>1, <1>3, <1>4, Zenon DEF Speaks, StartChar

LEMMA TargetSpeaks ==
  ASSUME NEW x, Shaped(x), NEW c, NEW part \in Parts, NEW marks, "\r" \notin marks
  PROVE  Speaks(x, TargetChar(x, c, part, marks))
<1> DEFINE y == TargetChar(x, c, part, marks)
           ended == Goto(x, "TITLE_CR")
           v == IF part = "url" THEN 9 ELSE x.http.request.version
<1>1. Silent(x, ended) /\ \A st : Silent(x, Goto(x, st))
  BY SilentField DEF ParserFields, Goto
<1>2. CASE c \in marks
  <2>0. c # "\r"
    BY <1>2
  <2>1. y = Goto(x, Behind(c))
    BY <1>2, <2>0, Zenon DEF TargetChar
  <2> QED
    BY <1>1, <2>1, Zenon DEF Speaks
<1>3. CASE c \notin marks /\ c = "\r" /\ x.http.request.command = CommandNumber("GET")
  <2>1. y = [x EXCEPT !.st = "TITLE_CR", !.http.request.version = v]
    BY <1>3, Zenon DEF TargetChar
  <2> HIDE DEF y, v
  <2>2. y = Put(ended, "version", v)
    BY <2>1 DEF Shaped, ParserFields, Goto, Put
  <2> HIDE DEF ended
  <2> QED
    BY <1>1, <2>2, SilentThen, SilentPut DEF RequestFields, Speaks, y
<1>4. CASE c \notin marks /\ c = "\r" /\ x.http.request.command # CommandNumber("GET")
  <2>1. y = Refuse(x, EERIS_4XX, 405, 9)
    BY <1>4, Zenon DEF TargetChar
  <2> QED
    BY <2>1, RefuseNotes, DueStatuses, Errors DEF Speaks
<1>5. CASE c \notin marks /\ c # "\r"
  <2>1. y = Put(x, part, Append(x.http.request[part], c))
    BY <1>5, Zenon DEF TargetChar, Put
  <2> QED
    BY <2>1, SilentPut DEF Speaks, Parts, RequestFields
<1> QED
  BY <1>2, <1>3, <1>4, <1>5

LEMMA UrlSpeaks ==
  ASSUME NEW x, Shaped(x), NEW c
  PROVE  /\ Speaks(x, UrlChar(x, c)) /\ Speaks(x, ParametersChar(x, c))
         /\ Speaks(x, QueryChar(x, c)) /\ Speaks(x, FragmentChar(x, c))
<1> DEFINE y == TargetChar(x, c, "url", {SP, SEMI, "?", "#"})
<1>0. "\r" \notin {SP, SEMI, "?", "#"}
  BY Marks
<1>1. Speaks(x, y)
  BY <1>0, TargetSpeaks DEF Parts
<1> HIDE DEF y
<1>2. UrlChar(x, c) = IF y.rc = 0 /\ Len(y.http.request.url) > UrlMax
                      THEN Refuse(y, EERIS_4XX, 414, 10) ELSE y
  BY DEF UrlChar, y
<1>3. CASE Silent(x, y)
  <2>1. Notes(y, Refuse(y, EERIS_4XX, 414, 10))
    BY <1>3, SilentThen, RefuseNotes, DueStatuses, Errors
  <2> QED
    BY <1>0, <1>2, <1>3, <2>1, SilentThen, TargetSpeaks
       DEF Speaks, ParametersChar, QueryChar, FragmentChar, Parts
<1>4. CASE Notes(x, y)
  <2>1. UrlChar(x, c) = y
    BY <1>2, <1>4 DEF Notes
  <2> QED
    BY <1>0, <1>4, <2>1, TargetSpeaks
       DEF Speaks, ParametersChar, QueryChar, FragmentChar, Parts
<1> QED
  BY <1>1, <1>3, <1>4 DEF Speaks

LEMMA LineSpeaks ==
  ASSUME NEW x, Shaped(x), NEW c
  PROVE  Speaks(x, ProtocolChar(x, c)) /\ Speaks(x, MinorChar(x, c)) /\ Speaks(x, TitleChar(x, c))
<1> DEFINE begun == [x EXCEPT !.tmp = <<>>]
           p == ProtocolChar(x, c)
           y == MinorChar(x, c)
           z == TitleChar(x, c)
<1>1. Silent(x, begun) /\ Shaped(begun)
  BY SilentField, SilentThen DEF ParserFields
<1>2. \A u, st : Shaped(u) => Silent(u, Store(u, c, st))
  BY DEF Silent, Store, Shaped, ParserFields
<1>3. Speaks(x, p)
  <2>1. \/ p = Bad(x) \/ p = Store(x, c, "DOT")
        \/ p = Store(begun, c, Protocol[x.st][2]) \/ p = Store(x, c, Protocol[x.st][2])
    <3> HIDE DEF Protocol
    <3> QED
      BY Zenon DEF ProtocolChar, Expect
  <2> HIDE DEF p, begun
  <2> QED
    BY <1>1, <1>2, <2>1, BadNotes, SilentThen DEF Speaks
<1>4. Speaks(x, y)
  <2> DEFINE known == VersionOf(Append(x.tmp, c))
             v == CHOOSE n \in known : TRUE
             titled == [begun EXCEPT !.st = "TITLE_CR"]
             unknown == Put(begun, "version", 0)
  <2>1. y = Bad(x) \/ y = Put(titled, "version", v) \/ y = Refuse(unknown, EERIS_5XX, 505, 10)
    <3>1. CASE ~IsDigit(c)
      BY <3>1, Zenon DEF MinorChar
    <3>2. CASE IsDigit(c) /\ known # {}
      <4>1. y = [begun EXCEPT !.st = "TITLE_CR", !.http.request.version = v]
        BY <3>2, Zenon DEF MinorChar
      <4> HIDE DEF v
      <4> QED
        BY <4>1 DEF Shaped, ParserFields, Put
    <3>3. CASE IsDigit(c) /\ known = {}
      BY <3>3, Zenon DEF MinorChar, Put
    <3> QED
      BY <3>1, <3>2, <3>3
  <2> HIDE DEF y, v, begun
  <2>2. Silent(begun, titled) /\ Silent(begun, unknown)
    BY <1>1, SilentField, SilentPut DEF ParserFields, RequestFields
  <2> HIDE DEF titled, unknown
  <2>3. Silent(titled, Put(titled, "version", v))
    BY <2>2, SilentThen, SilentPut DEF RequestFields
  <2>4. Notes(unknown, Refuse(unknown, EERIS_5XX, 505, 10))
    BY <2>2, SilentThen, RefuseNotes, DueStatuses, Errors
  <2> QED
    BY <1>1, <2>1, <2>2, <2>3, <2>4, BadNotes, SilentThen DEF Speaks
<1>5. Speaks(x, z)
  <2> DEFINE w == [x EXCEPT !.st = "HEADER_NAME", !.name = <<>>, !.value = <<>>]
  <2>1. z = Bad(x) \/ z = Goto(x, "TITLE_LF") \/ z = w
    BY Zenon DEF TitleChar, Expect
  <2>2. Silent(x, Goto(x, "TITLE_LF")) /\ Silent(x, w)
    BY DEF Silent, Goto, Shaped, ParserFields
  <2> HIDE DEF z, w
  <2> QED
    BY <2>1, <2>2, BadNotes DEF Speaks
<1> QED
  BY <1>3, <1>4, <1>5

LEMMA HeaderSpeaks ==
  ASSUME NEW x, Shaped(x), NEW c
  PROVE  Speaks(x, HeaderChar(x, c)) /\ Speaks(x, Cr2Char(x, c))
<1> DEFINE y == HeaderChar(x, c)
           more == PushHeader(x.http.request.headers, x.name, x.value)
           ended == [x EXCEPT !.done = TRUE]
<1>0. \A st : Silent(x, Goto(x, st))
  BY SilentField DEF ParserFields, Goto
<1>1. Speaks(x, Lf1Char(x, c))
  <2> DEFINE z == Lf1Char(x, c)
             pushed == [x EXCEPT !.name = <<>>, !.value = <<>>, !.http[x.side].headers = more]
             valued == [x EXCEPT !.name = <<>>, !.value = <<>>]
  <2>1. \/ z = Goto(x, "HEADER_VALUE") \/ z = Goto(pushed, "HEADER_CR2")
        \/ z = [pushed EXCEPT !.st = "HEADER_NAME", !.name = <<c>>]
    <3>1. x.side = "request"
      BY DEF Shaped
    <3>2. \/ z = Goto(x, "HEADER_VALUE")
          \/ z = Goto([x EXCEPT !.name = <<>>, !.value = <<>>,
                        !.http[x.side].headers = PushHeader(@, x.name, x.value)], "HEADER_CR2")
          \/ z = [[x EXCEPT !.name = <<>>, !.value = <<>>,
                     !.http[x.side].headers = PushHeader(@, x.name, x.value)]
                    EXCEPT !.st = "HEADER_NAME", !.name = <<c>>]
      <4>0. SP # "\r"
        BY Marks
      <4>1. CASE c = SP
        BY <4>0, <4>1, Zenon DEF Lf1Char
      <4>2. CASE c = "\r"
        BY <4>0, <4>2, Zenon DEF Lf1Char
      <4>3. CASE c # SP /\ c # "\r"
        BY <4>3, Zenon DEF Lf1Char
      <4> QED
        BY <4>1, <4>2, <4>3
    <3>3. [x EXCEPT !.name = <<>>, !.value = <<>>,
             !.http[x.side].headers = PushHeader(@, x.name, x.value)] = pushed
      BY <3>1 DEF Shaped, ParserFields
    <3> HIDE DEF pushed, z
    <3> QED
      BY <3>2, <3>3
  <2>2. pushed = Put(valued, "headers", more)
    BY DEF Shaped, ParserFields, Put
  <2>3. Silent(x, valued)
    BY DEF Silent, Shaped, ParserFields
  <2> HIDE DEF z, valued, more
  <2>4. Silent(x, pushed) /\ Shaped(pushed)
    BY <2>2, <2>3, SilentThen, SilentPut DEF RequestFields
  <2> HIDE DEF pushed
  <2>5. Silent(pushed, Goto(pushed, "HEADER_CR2"))
        /\ Silent(pushed, [pushed EXCEPT !.st = "HEADER_NAME", !.name = <<c>>])
    BY <2>4 DEF Silent, Goto, Shaped, ParserFields
  <2>6. Silent(x, z)
    BY ONLY <1>0, <2>1, <2>4, <2>5, SilentThen
  <2> QED
    BY <2>6, Zenon DEF Speaks, z
<1>2. \/ y = Bad(x) \/ \E st : y = Goto(x, st)
      \/ y = [x EXCEPT !.name = Append(@, c)] \/ y = [x EXCEPT !.value = Append(@, c)]
      \/ y = Lf1Char(x, c)
  BY Zenon DEF HeaderChar, NameChar, ColonChar, ValueChar, Cr1Char, Expect
<1>3. Silent(x, [x EXCEPT !.name = Append(@, c)]) /\ Silent(x, [x EXCEPT !.value = Append(@, c)])
  BY DEF Silent, Shaped, ParserFields
<1>4. Speaks(x, Cr2Char(x, c))
  <2>1. Cr2Char(x, c) = Bad(ended) \/ Cr2Char(x, c) = Goto(ended, "HEADER_LF2")
    BY DEF Cr2Char, Expect
  <2>2. Silent(x, ended)
    BY SilentField DEF ParserFields
  <2> HIDE DEF ended
  <2>3. Silent(ended, Goto(ended, "HEADER_LF2"))
    BY <2>2, SilentThen, SilentField DEF ParserFields, Goto
  <2> QED
    BY <2>1, <2>2, <2>3, SilentThen, BadNotes DEF Speaks
<1> HIDE DEF y
<1> QED
  BY <1>0, <1>1, <1>2, <1>3, <1>4, BadNotes DEF Speaks, y

LEMMA HeadSpeaks ==
  ASSUME NEW x, Shaped(x), NEW c
  PROVE  Speaks(x, RequestHeadChar(x, c))
<1>1. ASSUME NEW z, Shaped(z) PROVE Speaks(z, RequestChar(z, c))
  <2>1. RequestChar(z, c) \in
          {StartChar(z, c), CommandChar(z, c), UrlStartChar(z, c), UrlChar(z, c), ParametersChar(z, c),
           QueryChar(z, c), FragmentChar(z, c), ProtocolChar(z, c), MinorChar(z, c), TitleChar(z, c),
           Cr2Char(z, c), HeaderChar(z, c)}
    BY Zenon DEF RequestChar
  <2> QED
    BY <1>1, <2>1, CommandSpeaks, UrlSpeaks, LineSpeaks, HeaderSpeaks
<1> DEFINE z == [x EXCEPT !.size = @ + 1]
<1>2. Silent(x, z)
  BY DEF Silent, Shaped, ParserFields
<1>3. RequestHeadChar(x, c) = Refuse(x, EERIS_4XX, 431, 10) \/ RequestHeadChar(x, c) = RequestChar(z, c)
  BY DEF RequestHeadChar
<1> HIDE DEF z
<1>4. Speaks(x, RequestChar(z, c))
  BY <1>1, <1>2, SilentThen
<1> QED
  BY <1>3, <1>4, RefuseNotes, DueStatuses, Errors DEF Speaks

LEMMA LengthSpeaks ==
  ASSUME NEW x, Shaped(x), NEW more
  PROVE  Speaks(x, LengthRefused(x)) /\ Speaks(x, EndHead(x, more))
<1>1. LengthRefused(x) \in {Refuse(x, EERIS_4XX, 411, 10), Refuse(x, EERIS_4XX, 413, 10), x}
  <2> DEFINE hs == x.http.request.headers
             has == HasHeader(hs, <<"Content-Length">>)
             wrong == Length(hs) < 0 \/ Length(hs) > BodyMax
  <2>1. CASE ~has
    BY <2>1, Zenon DEF LengthRefused
  <2>2. CASE has /\ wrong
    <3>1. LengthRefused(x) = Refuse(x, EERIS_4XX, 413, 10)
      BY <2>2, Zenon DEF LengthRefused
    <3> QED
      BY <3>1
  <2>3. CASE has /\ ~wrong
    BY <2>3, Zenon DEF LengthRefused
  <2> QED
    BY <2>1, <2>2, <2>3
<1>2. EndHead(x, more) \in {Refuse(x, EERIS_4XX, 431, 10), x}
  BY DEF EndHead
<1> QED
  BY <1>1, <1>2, RefuseNotes, DueStatuses, Errors, SilentSelf DEF Speaks

LEMMA NotedAgain ==
  ASSUME NEW a, NEW b, NEW d, Noted(a, b), Noted(b, d)
  PROVE  Noted(a, d)
<1>1. PICK s \in Statuses : \E v : b = [a EXCEPT !.status = s, !.version = v, !.reason = ReasonPhrase(s)]
  BY Zenon DEF Noted
<1>2. PICK v : b = [a EXCEPT !.status = s, !.version = v, !.reason = ReasonPhrase(s)]
  BY <1>1
<1>3. PICK t \in Statuses : \E w : d = [b EXCEPT !.status = t, !.version = w, !.reason = ReasonPhrase(t)]
  BY Zenon DEF Noted
<1>4. PICK w : d = [b EXCEPT !.status = t, !.version = w, !.reason = ReasonPhrase(t)]
  BY <1>3
<1>5. d = [a EXCEPT !.status = t, !.version = w, !.reason = ReasonPhrase(t)]
  BY <1>2, <1>4
<1> QED
  BY <1>5, Zenon DEF Noted

LEMMA NotesAgain ==
  ASSUME NEW x, NEW y, NEW z, Notes(x, y), Notes(y, z) \/ Silent(y, z)
  PROVE  Notes(x, z)
BY NotedAgain DEF Notes, Silent

LEMMA ShakenSpeaks ==
  ASSUME NEW x, Shaped(x), x.rc = 0
  PROVE  LET y == Shaken(x) IN Notes(x, y) \/ (Shaped(y) /\ y.rc = 0 /\ y.http.request.shake = TRUE)
<1> DEFINE h == [x.http EXCEPT !.request.shake = TRUE]
           g == Refusal(h, 100, 11)
           b == [x EXCEPT !.http = g]
           r == LengthRefused(b)
<1>1. Shaken(x) = r
  BY DEF Shaken
<1>2. ShapedHttp(h) /\ h.request.shake = TRUE /\ h.response = x.http.response
  BY DEF Shaped, ShapedHttp, HttpFields, RequestFields
<1> HIDE DEF h
<1>3. g = [h EXCEPT !.response.status = 100, !.response.version = 11, !.response.reason = ReasonPhrase(100)]
  BY DEF Refusal
<1>4. ShapedHttp(g)
  BY <1>2, RefusalSame DEF SameHttp
<1> HIDE DEF g
<1>5. g.request = h.request /\ g.response = [h.response EXCEPT !.status = 100, !.version = 11,
                                                               !.reason = ReasonPhrase(100)]
  BY <1>2, <1>3 DEF ShapedHttp, HttpFields
<1>6. Noted(x.http.response, g.response)
  <2>1. 100 \in Statuses
    BY DueStatuses
  <2>2. g.response = [x.http.response EXCEPT !.status = 100, !.version = 11, !.reason = ReasonPhrase(100)]
    BY <1>2, <1>5
  <2> QED
    BY ONLY <2>1, <2>2, Zenon DEF Noted
<1>7. Shaped(b) /\ b.rc = 0 /\ b.http = g
  BY <1>4 DEF Shaped, ParserFields
<1> HIDE DEF b
<1>8. r = b \/ Notes(b, r)
  <2>1. r \in {Refuse(b, EERIS_4XX, 411, 10), Refuse(b, EERIS_4XX, 413, 10), b}
    <3> DEFINE hs == b.http.request.headers
               has == HasHeader(hs, <<"Content-Length">>)
               wrong == Length(hs) < 0 \/ Length(hs) > BodyMax
    <3>1. CASE ~has
      BY <3>1, Zenon DEF LengthRefused
    <3>2. CASE has /\ wrong
      <4>1. r = Refuse(b, EERIS_4XX, 413, 10)
        BY <3>2, Zenon DEF LengthRefused
      <4> QED
        BY <4>1
    <3>3. CASE has /\ ~wrong
      BY <3>3, Zenon DEF LengthRefused
    <3> QED
      BY <3>1, <3>2, <3>3
  <2> QED
    BY <1>7, <2>1, RefuseNotes, DueStatuses, Errors
<1> HIDE DEF r
<1>9. CASE r = b
  BY <1>1, <1>2, <1>5, <1>7, <1>9
<1>10. CASE Notes(b, r)
  <2>1. Notes(x, r)
    BY <1>6, <1>7, <1>10, NotedAgain DEF Notes
  <2> QED
    BY <1>1, <2>1
<1> QED
  BY <1>8, <1>9, <1>10

LEMMA RefusalNotes ==
  ASSUME NEW x, Shaped(x), x.rc # 0, NEW s \in Statuses, NEW v
  PROVE  Notes(x, [x EXCEPT !.http = Refusal(x.http, s, v)])
<1> DEFINE h == Refusal(x.http, s, v)
           y == [x EXCEPT !.http = h]
<1>1. ShapedHttp(h)
  BY RefusalSame DEF Shaped, SameHttp
<1>2. h.response = [x.http.response EXCEPT !.status = s, !.version = v, !.reason = ReasonPhrase(s)]
  <2>1. h = [x.http EXCEPT !.response.status = s, !.response.version = v,
                           !.response.reason = ReasonPhrase(s)]
    BY DEF Refusal
  <2> QED
    BY <2>1 DEF Shaped, ShapedHttp, HttpFields
<1> HIDE DEF h
<1>3. y.http = h /\ y.rc = x.rc /\ Shaped(y)
  BY <1>1 DEF Shaped, ParserFields
<1> HIDE DEF y
<1>4. Noted(x.http.response, y.http.response)
  BY <1>2, <1>3, Zenon DEF Noted
<1> QED
  BY <1>3, <1>4 DEF Notes, y, h

LEMMA ChunkBadNotes ==
  ASSUME NEW x, Shaped(x), NEW s, s \in Statuses
  PROVE  Notes(x, ChunkBad(x, s))
<1> DEFINE y == [x EXCEPT !.rc = EERIS_DATA]
           h == Refusal(x.http, s, 10)
<1>1. Shaped(y) /\ y.rc # 0 /\ y.http = x.http
  BY Errors DEF Shaped, ParserFields
<1>2. x.side = "request"
  BY DEF Shaped
<1>3. ChunkBad(x, s) = [x EXCEPT !.rc = EERIS_DATA, !.http = h]
  BY <1>2 DEF ChunkBad
<1> HIDE DEF h
<1>4. ChunkBad(x, s) = [y EXCEPT !.http = h]
  BY <1>3
<1> HIDE DEF y
<1>5. Notes(y, [y EXCEPT !.http = h])
  BY <1>1, RefusalNotes DEF h
<1> QED
  BY <1>1, <1>4, <1>5 DEF Notes

LEMMA ChunkSilent ==
  ASSUME NEW x, Shaped(x), NEW k
  PROVE  Silent(x, [x EXCEPT !.http.chunk = k])
<1> DEFINE z == [x EXCEPT !.http.chunk = k]
<1>1. z.http.response = x.http.response /\ z.rc = x.rc
  BY DEF Shaped, ShapedHttp, ParserFields, HttpFields
<1>2. Shaped(z)
  BY HttpField DEF PutHttp
<1> QED
  BY <1>1, <1>2 DEF Silent

LEMMA ChunkedSilent ==
  ASSUME NEW x, Shaped(x), NEW v
  PROVE  Silent(x, [x EXCEPT !.http.chunked = v])
BY DEF Silent, Shaped, ShapedHttp, ParserFields, HttpFields

LEMMA ChunkStepSilent ==
  ASSUME NEW x, Shaped(x), NEW c
  PROVE  /\ \A st : Silent(x, ChunkGoto(x, st))
         /\ Silent(x, Digit(x, c)) /\ Silent(x, Data(x, c))
<1>1. ASSUME NEW s PROVE Silent(x, ChunkGoto(x, s))
  <2>1. PICK k : k = [x.http.chunk EXCEPT !.st = s]
    OBVIOUS
  <2>2. ChunkGoto(x, s) = [x EXCEPT !.http.chunk = k]
    BY <2>1 DEF ChunkGoto
  <2> QED
    BY <2>2, ChunkSilent
<1>2. Silent(x, Digit(x, c))
  <2> DEFINE y == ChunkGoto(x, "CHUNK_SIZE")
  <2>1. Silent(x, y) /\ Shaped(y)
    BY <1>1, SilentThen
  <2>2. PICK d : d = Append(y.digits, c)
    OBVIOUS
  <2>3. Digit(x, c) = [y EXCEPT !.digits = d]
    BY <2>2 DEF Digit
  <2> HIDE DEF y
  <2> QED
    BY <2>1, <2>3, SilentThen, SilentField DEF ParserFields
<1>3. Silent(x, Data(x, c))
  <2>1. PICK k : k = [x.http.chunk EXCEPT !.got = x.http.chunk.got + 1]
    OBVIOUS
  <2>2. PICK b : b = Append(x.http.request.body, c)
    OBVIOUS
  <2> DEFINE y == [x EXCEPT !.http.chunk = k]
  <2>3. x.side = "request"
    BY DEF Shaped
  <2>4. Data(x, c) = Put(y, "body", b)
    BY <2>1, <2>2, <2>3 DEF Data, Put, Shaped, ShapedHttp, ParserFields, HttpFields
  <2>5. Silent(x, y) /\ Shaped(y)
    BY ChunkSilent, SilentThen
  <2> HIDE DEF y
  <2> QED
    BY <2>4, <2>5, SilentThen, SilentPut DEF RequestFields
<1> QED
  BY <1>1, <1>2, <1>3

LEMMA ChunkSpeaks ==
  ASSUME NEW x, Shaped(x), x.rc = 0, NEW c
  PROVE  Speaks(x, CheckedChunkChar(x, c))
<1> DEFINE y == ChunkChar(x, c)
           st == x.http.chunk.st
<1>0. /\ \A s : Silent(x, ChunkGoto(x, s))
      /\ Silent(x, Digit(x, c)) /\ Silent(x, Data(x, c)) /\ Silent(x, x)
      /\ Notes(x, ChunkBad(x, 400)) /\ Notes(x, ChunkBad(x, 413))
  BY ChunkStepSilent, ChunkBadNotes, DueStatuses, SilentSelf
<1> SUFFICES Speaks(x, y)
  BY <1>0 DEF CheckedChunkChar, Speaks
<1>1. ASSUME NEW ok, NEW z, Silent(x, z) PROVE Speaks(x, ChunkNeeds(x, ok, z))
  BY <1>0, <1>1 DEF ChunkNeeds, Speaks
<1>2. CASE st = "CR1"
  <2> DEFINE a == ChunkGoto(x, "LF1")
             k == [a.http.chunk EXCEPT !.size = HexToV(x.digits)]
             b == [a EXCEPT !.http.chunk = k]
             z == [a EXCEPT !.http.chunk.size = HexToV(x.digits), !.digits = <<>>]
  <2>1. y = ChunkNeeds(x, c = "\n", z)
    BY <1>2, Zenon DEF ChunkChar, SizeEndChar
  <2>2. Shaped(a) /\ Silent(x, a)
    BY <1>0, SilentThen
  <2> HIDE DEF a, y
  <2>3. z = [b EXCEPT !.digits = <<>>]
    BY <2>2 DEF Shaped, ShapedHttp, ParserFields, HttpFields
  <2>4. Shaped(b) /\ Silent(a, b)
    BY <2>2, ChunkSilent, SilentThen
  <2> HIDE DEF b, z
  <2>5. Silent(b, z)
    BY <2>3, <2>4, SilentField DEF ParserFields
  <2>6. Silent(x, z)
    BY <2>2, <2>4, <2>5, SilentThen
  <2> QED
    BY <1>1, <2>1, <2>6
<1>3. CASE st = "CR2"
  <2> DEFINE a == ChunkGoto(x, "LF2")
             k == [a.http.chunk EXCEPT !.end = TRUE]
             z == [a EXCEPT !.http.chunk = k]
  <2>1. y = ChunkNeeds(x, c = "\n", z)
    BY <1>3, Zenon DEF ChunkChar, EndChar
  <2>2. Shaped(a) /\ Silent(x, a)
    BY <1>0, SilentThen
  <2> HIDE DEF a, y
  <2> HIDE DEF k
  <2>3. Silent(a, z)
    BY ONLY <2>2, ChunkSilent
  <2> HIDE DEF z
  <2> QED
    BY <1>1, <2>1, <2>2, <2>3, SilentThen
<1>4. CASE st = "DATA"
  <2> DEFINE a == ChunkGoto(x, "DATA_CR")
             b == [a EXCEPT !.http.chunk = [a.http.chunk EXCEPT !.size = 0]]
             z == [b EXCEPT !.http.chunk = [b.http.chunk EXCEPT !.got = 0]]
             e == [a EXCEPT !.http.chunk.size = 0, !.http.chunk.got = 0]
  <2>1. y \in {e, ChunkBad(e, 400), Data(x, c), ChunkBad(x, 400)}
    BY <1>4, Zenon DEF ChunkChar, DataChar
  <2>2. Shaped(a) /\ Silent(x, a)
    BY <1>0, SilentThen
  <2> HIDE DEF a, y
  <2>3. e = z
    BY <2>2 DEF Shaped, ShapedHttp, ParserFields, HttpFields
  <2>4. Shaped(b) /\ Silent(a, b)
    BY <2>2, ChunkSilent, SilentThen
  <2> HIDE DEF b, e
  <2>5. Shaped(z) /\ Silent(b, z)
    BY <2>4, ChunkSilent, SilentThen
  <2> HIDE DEF z
  <2>6. Silent(x, z) /\ Notes(z, ChunkBad(z, 400))
    BY <2>2, <2>4, <2>5, SilentThen, ChunkBadNotes, DueStatuses
  <2> QED
    BY <1>0, <2>1, <2>3, <2>6, SilentThen DEF Speaks
<1>5. CASE st \notin {"CR1", "CR2", "DATA"}
  <2> DEFINE b == [x EXCEPT !.http.chunk.end = TRUE]
  <2>1. y \in {Digit(x, c), ChunkBad(x, 400), x, ChunkGoto(Data(x, c), "DATA"),
               b,
               ChunkGoto(x, "EXT_NAME"), ChunkGoto(x, "EXT_VALUE"), ChunkGoto(x, "CR1"),
               ChunkGoto(x, "CR2"), ChunkGoto(x, "TRAILER_NAME"), ChunkGoto(x, "TRAILER_VALUE"),
               ChunkGoto(x, "DATA_LF")}
    <3>1. y \in {FirstDigit(x, c), SizeChar(x, c), ExtNameChar(x, c), ExtValueChar(x, c),
                 FirstDataChar(x, c), TrailerNameChar(x, c), TrailerValueChar(x, c),
                 DataCrChar(x, c), NextChunkChar(x, c), BehindEndChar(x, c)}
      BY <1>5, Zenon DEF ChunkChar
    <3>2. /\ FirstDigit(x, c) \in {Digit(x, c), ChunkBad(x, 400)}
          /\ ExtNameChar(x, c) \in {ChunkGoto(x, "EXT_VALUE"), ChunkBad(x, 400), x}
          /\ TrailerNameChar(x, c) \in {ChunkGoto(x, "TRAILER_VALUE"), ChunkBad(x, 400), x}
          /\ TrailerValueChar(x, c) \in {ChunkGoto(x, "CR1"), ChunkBad(x, 400), x}
          /\ DataCrChar(x, c) \in {ChunkGoto(x, "DATA_LF"), ChunkBad(x, 400)}
          /\ NextChunkChar(x, c) \in {ChunkGoto(x, "CR2"), Digit(x, c), ChunkBad(x, 400)}
      BY Zenon DEF FirstDigit, ExtNameChar, TrailerNameChar, TrailerValueChar, DataCrChar,
                   NextChunkChar, ChunkNeeds
    <3>3. /\ SizeChar(x, c) \in {Digit(x, c), ChunkGoto(x, "EXT_NAME"), ChunkGoto(x, "CR1"), ChunkBad(x, 400)}
          /\ ExtValueChar(x, c) \in {ChunkGoto(x, "EXT_NAME"), ChunkGoto(x, "CR1"), ChunkBad(x, 400), x}
          /\ FirstDataChar(x, c) \in {ChunkGoto(x, "CR2"), ChunkGoto(x, "TRAILER_NAME"), ChunkGoto(Data(x, c), "DATA")}
      BY Zenon DEF SizeChar, ExtValueChar, FirstDataChar, ChunkNeeds
    <3>4. BehindEndChar(x, c) = b
      BY DEF BehindEndChar
    <3> HIDE DEF y, b
    <3> QED
      BY ONLY <3>1, <3>2, <3>3, <3>4
  <2>2. Silent(x, ChunkGoto(Data(x, c), "DATA"))
    BY <1>0, ChunkStepSilent, SilentThen
  <2>3. Silent(x, b)
    <3> DEFINE k == [x.http.chunk EXCEPT !.end = TRUE]
    <3>1. [x EXCEPT !.http.chunk.end = TRUE] = [x EXCEPT !.http.chunk = k]
      OBVIOUS
    <3> HIDE DEF k
    <3>2. Silent(x, [x EXCEPT !.http.chunk = k])
      BY ChunkSilent
    <3> QED
      BY <3>1, <3>2
  <2>4. /\ \A s : Speaks(x, ChunkGoto(x, s))
        /\ Speaks(x, Digit(x, c)) /\ Speaks(x, ChunkBad(x, 400)) /\ Speaks(x, x)
        /\ Speaks(x, ChunkGoto(Data(x, c), "DATA")) /\ Speaks(x, b)
    BY ONLY <1>0, <2>2, <2>3 DEF Speaks
  <2> HIDE DEF y, b
  <2> QED
    BY ONLY <2>1, <2>4
<1> QED
  BY <1>2, <1>3, <1>4, <1>5

(* A round ends the call with what it noted, or goes on. *)
LEMMA RoundSpeaks ==
  ASSUME NEW x, Shaped(x), x.rc = 0, NEW c, NEW last
  PROVE  Speaks(x, ChunksOver(ChunkRound(x, c, last)))
<1> DEFINE y == CheckedChunkChar(x, c)
           over == y.rc # 0 \/ y.http.chunk.end
           d == IF last \/ over THEN <<>> ELSE y.digits
           k == IF over THEN [NoChunks EXCEPT !.end = y.http.chunk.end] ELSE y.http.chunk
           a == [y EXCEPT !.digits = d]
           z == [a EXCEPT !.http.chunk = k]
           w == ChunksOver(z)
<1>1. Speaks(x, y) /\ Shaped(y)
  BY ChunkSpeaks DEF Speaks, Silent, Notes
<1>2. ChunkRound(x, c, last) = z
  <2>1. ChunkRound(x, c, last) = [y EXCEPT !.digits = d, !.http.chunk = k]
    BY DEF ChunkRound
  <2> HIDE DEF y, d, k
  <2> QED
    BY <1>1, <2>1 DEF Shaped, ParserFields
<1> HIDE DEF y, d, k
<1>3. Silent(y, a) /\ Shaped(a)
  BY <1>1, SilentField, SilentThen DEF ParserFields
<1> HIDE DEF a
<1>4. Silent(a, z) /\ Shaped(z)
  BY <1>3, ChunkSilent, SilentThen
<1> HIDE DEF z
<1>5. Speaks(x, z)
  BY <1>1, <1>3, <1>4, SilentThen, NotesAgain DEF Speaks
<1>6. CASE Silent(x, z)
  <2>1. z.rc = 0
    BY <1>6 DEF Silent
  <2>2. w = z
    BY <2>1, Zenon DEF ChunksOver
  <2> QED
    BY <1>2, <1>6, <2>2 DEF Speaks
<1>7. CASE Notes(x, z)
  <2> DEFINE b == [z EXCEPT !.http = Refusal(z.http, 408, 10)]
  <2>1. w = z \/ w = b
    <3>0. z.side = "request"
      BY <1>4 DEF Shaped
    <3>1. CASE z.http.chunk.end \/ z.rc = 0
      BY <3>1, Zenon DEF ChunksOver
    <3>2. CASE ~z.http.chunk.end /\ z.rc # 0
      BY <3>0, <3>2, Zenon DEF ChunksOver
    <3> QED
      BY <3>1, <3>2
  <2>6. Notes(z, b)
    BY <1>4, <1>7, RefusalNotes, DueStatuses DEF Notes
  <2> HIDE DEF b, w
  <2>7. Notes(x, w)
    BY <1>7, <2>1, <2>6, NotesAgain
  <2> QED
    BY <1>2, <2>7 DEF Speaks, w
<1> QED
  BY <1>5, <1>6, <1>7 DEF Speaks

=============================================================================
