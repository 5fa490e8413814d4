---------------------------- MODULE HttpMessage ----------------------------
(* The HTTP context (eris.http.h, eris.http.c): a request and a response with  *)
(* their headers and bodies, the calls that fill, read and clean them, and    *)
(* the two functions that pack them into the bytes that are sent.             *)
(*                                                                            *)
(* Texts are sequences of characters.  A word of letters, digits, '-' and '_' *)
(* may be one symbol instead of its characters: the parsers only append them. *)
(* Such symbols are compared as they are, so that they stand for a word in    *)
(* either case.  An absent text is empty.  Allocation does not fail.          *)
EXTENDS EString
LOCAL INSTANCE SequencesExt

CONSTANT Words        \* the symbols that stand for words

\* Two of the characters the parsers look for, by name.
SP == " "
SEMI == ";"

\* No word holds a character the parsers look for.
ASSUME WordsAssumption == Words \cap {SP, ":", SEMI, "=", "\r", "\n"} = {}

EERIS_DATA == 10002
EERIS_4XX == 10013
EERIS_5XX == 10014

IsNameChar(c) == c \in Words \/ IsDigit(c) \/ IsUpper(c) \/ IsLower(c) \/ c \in {"-", "_"}

HexDigitChar(n) == IF n <= 9 THEN Char(48 + n) ELSE Char(87 + n)

Folded(s) == [i \in DOMAIN s |-> IF s[i] \in DOMAIN CodeOf THEN ToLower(s[i]) ELSE s[i]]
Same(s, t) == Folded(s) = Folded(t)

(***************************************************************************)
(* Commands, versions and statuses.                                        *)
(***************************************************************************)
\* eris_http_command_arrs, indexed from 0.
CommandArrs ==
  <<"UNKNOW", "GET", "HEAD", "POST", "PUT", "DELETE", "OPTIONS", "TRACE", "PATCH", "MOVE",
    "COPY", "LINK", "UNLINK", "PURGE", "LOCK", "UNLOCK", "PROPFIND", "VIEW", "CMAX">>

\* ERIS_HTTP_COMMAND leaves out 16: PROPFIND is 17, VIEW 18 and CMAX 19.
CommandNumber(name) ==
  LET at == CHOOSE i \in DOMAIN CommandArrs : CommandArrs[i] = name
  IN IF at <= 16 THEN at - 1 ELSE at
UNKNOW == CommandNumber("UNKNOW")
CMAX == CommandNumber("CMAX")

\* The commands the parser knows by name.
Recognised == {CommandArrs[i] : i \in 2..18}
Carries(command) == command \in {CommandNumber(n) : n \in {"PUT", "POST", "PATCH"}}

Dotted(v) == CASE v = 9 -> <<"0", ".", "9">> [] v = 11 -> <<"1", ".", "1">>
               [] OTHER -> <<"1", ".", "0">>
VersionText(v) == <<"H", "T", "T", "P", "/">> \o Dotted(v)
Versions == {9, 10, 11}

Statuses == {100, 101} \cup 200..206 \cup 300..307 \cup 400..431 \cup {449} \cup 500..511
StatusText(s) == <<Char(48 + (s \div 100)), Char(48 + ((s \div 10) % 10)), Char(48 + (s % 10))>>
ReasonPhrase(s) == <<"R">> \o StatusText(s)       \* a phrase of its own for every status

StatusValid(s) == s \in Statuses \cup {0}

(***************************************************************************)
(* The context.                                                            *)
(***************************************************************************)
InitRequest == [shake |-> FALSE, command |-> UNKNOW, url |-> <<>>, version |-> 0,
                headers |-> <<>>, parameters |-> <<>>, query |-> <<>>, fragment |-> <<>>,
                body |-> <<>>]
InitResponse == [version |-> 0, status |-> 0, reason |-> <<>>, headers |-> <<>>, body |-> <<>>]
NoChunks == [st |-> "CHUNKED", end |-> FALSE, size |-> 0, got |-> 0]

InitHttp == [request |-> InitRequest, response |-> InitResponse,
             chunked |-> FALSE, chunk |-> NoChunks]

\* The parameters, the fragment and, in a cleanup of everything, the shake stay.
CleanupRequest(h) ==
  [h EXCEPT !.request = [InitRequest EXCEPT !.parameters = h.request.parameters,
                                            !.fragment = h.request.fragment]]
CleanupResponse(h) == [h EXCEPT !.response = InitResponse]
CleanupHttp(h) ==
  [InitHttp EXCEPT !.request = [CleanupRequest(h).request EXCEPT !.shake = h.request.shake]]

(***************************************************************************)
(* Headers: a list with the newest in front; names are compared without    *)
(* regard to case, and the first that matches counts.                      *)
(***************************************************************************)
Holders(headers, name) == {i \in DOMAIN headers : Same(headers[i].name, name)}
FirstHolder(headers, name) ==
  CHOOSE i \in Holders(headers, name) : \A j \in Holders(headers, name) : i <= j
HasHeader(headers, name) == Holders(headers, name) # {}
HeaderValue(headers, name) == headers[FirstHolder(headers, name)].value
HeaderIs(headers, name, value) ==
  HasHeader(headers, name) /\ Same(HeaderValue(headers, name), value)

PushHeader(headers, name, value) == <<[name |-> name, value |-> value]>> \o headers
SetHeader(headers, name, value) ==
  IF HasHeader(headers, name)
  THEN [headers EXCEPT ![FirstHolder(headers, name)].value = value]
  ELSE PushHeader(headers, name, value)

RequestSetHeader(h, name, value) ==
  [h EXCEPT !.request.headers = SetHeader(@, name, value)]
ResponseSetHeader(h, name, value) ==
  [h EXCEPT !.response.headers = SetHeader(@, name, value)]
RequestGetHeader(h, name) ==
  IF HasHeader(h.request.headers, name) THEN HeaderValue(h.request.headers, name) ELSE <<>>
ResponseGetHeader(h, name) ==
  IF HasHeader(h.response.headers, name) THEN HeaderValue(h.response.headers, name) ELSE <<>>

KeepsAlive(headers) ==
  IF HasHeader(headers, <<"Proxy-Connection">>)
  THEN HeaderIs(headers, <<"Proxy-Connection">>, <<"keep-alive">>)
  ELSE HeaderIs(headers, <<"Connection">>, <<"keep-alive">>)
RequestKeepAlive(h) == KeepsAlive(h.request.headers)
ResponseKeepAlive(h) == KeepsAlive(h.response.headers)

TypeMentions(headers, type) ==
  HasHeader(headers, <<"Content-Type">>) /\
  \E i \in DOMAIN HeaderValue(headers, <<"Content-Type">>) :
    HeaderValue(headers, <<"Content-Type">>)[i] = type
RequestIsForm(h) == TypeMentions(h.request.headers, "application/x-www-form-urlencoded")
ResponseIsForm(h) == TypeMentions(h.response.headers, "application/x-www-form-urlencoded")
RequestIsJson(h) == TypeMentions(h.request.headers, "application/json")
ResponseIsJson(h) == TypeMentions(h.response.headers, "application/json")

(***************************************************************************)
(* The other fields.                                                       *)
(***************************************************************************)
SetCommand(h, c) == [h EXCEPT !.request.command = c]
RequestSetVersion(h, v) == [h EXCEPT !.request.version = v]
SetUrl(h, s) == [h EXCEPT !.request.url = s]
SetParameters(h, s) == [h EXCEPT !.request.parameters = s]
SetQuery(h, s) == [h EXCEPT !.request.query = s]
SetFragment(h, s) == [h EXCEPT !.request.fragment = s]
\* Both set the body of the response.
RequestSetBody(h, s) == IF s = <<>> THEN h ELSE [h EXCEPT !.response.body = s]
RequestAppendBody(h, s) == IF s = <<>> THEN h ELSE [h EXCEPT !.response.body = @ \o s]

ResponseSetVersion(h, v) == [h EXCEPT !.response.version = v]
SetStatus(h, s) == [h EXCEPT !.response.status = s]
SetReason(h, s) == [h EXCEPT !.response.reason = s]
ResponseSetBody(h, s) == IF s = <<>> THEN h ELSE [h EXCEPT !.response.body = s]
ResponseAppendBody(h, s) == IF s = <<>> THEN h ELSE [h EXCEPT !.response.body = @ \o s]

\* What a parser notes for the answer when it refuses a request.
Refusal(h, status, version) ==
  [h EXCEPT !.response.status = status, !.response.version = version,
            !.response.reason = ReasonPhrase(status)]

(***************************************************************************)
(* Packing.                                                                *)
(***************************************************************************)
CRLF == <<"\r", "\n">>
HeaderLine(n) == n.name \o <<":", SP>> \o n.value \o CRLF
HeaderLines(headers) == FlattenSeq([i \in DOMAIN headers |-> HeaderLine(headers[i])])
Marked(mark, s) == IF s = <<>> THEN <<>> ELSE <<mark>> \o s

\* A number outside of the table is packed as GET; the table is indexed by the
\* number, although it does not leave out 16.
PackedCommand(c) ==
  IF c <= UNKNOW \/ c >= CMAX THEN CommandNumber("GET") ELSE c

RequestPack(h) ==
  LET r == h.request
      c == PackedCommand(r.command)
  IN <<CommandArrs[c + 1], SP>> \o r.url \o Marked(SEMI, r.parameters) \o
     Marked("?", r.query) \o Marked("#", r.fragment) \o <<SP>> \o VersionText(r.version) \o
     CRLF \o HeaderLines(r.headers) \o CRLF \o (IF Carries(c) THEN r.body ELSE <<>>)

\* A reason that was set is written with whatever the status is; without one
\* the status must be in the table.
ResponsePackRc(h) ==
  IF h.response.reason = <<>> /\ h.response.status \notin Statuses THEN EERIS_ERROR ELSE 0
\* Packing notes the version that stands for none, for an answer in the request.
RequestPacked(h) ==
  [h EXCEPT !.request.command = PackedCommand(@),
            !.request.version = IF @ \in Versions THEN @ ELSE 10]
ResponsePacked(h) ==
  IF h.response.version \in {9, 11} THEN h ELSE [h EXCEPT !.request.version = 10]

ResponsePack(h) ==
  LET r == h.response
      reason == IF r.reason = <<>> THEN ReasonPhrase(r.status) ELSE r.reason
  IN VersionText(r.version) \o <<SP>> \o StatusText(r.status) \o <<SP>> \o reason \o CRLF \o
     HeaderLines(r.headers) \o CRLF \o
     (IF h.request.command = CommandNumber("HEAD") THEN <<>> ELSE r.body)
=============================================================================
