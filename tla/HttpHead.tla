------------------------------ MODULE HttpHead ------------------------------
(* The automata that read the head of a request and of a response             *)
(* (eris_http_request_parse, eris_http_response_parse), one character at a    *)
(* time, as pieces of any length come in.  x holds the local variables of the *)
(* call, and in x.http the context it fills; x.side is the field of the       *)
(* context, "request" or "response".                                          *)
EXTENDS HttpMessage

CONSTANTS UrlMax,     \* url_max_size
          HeaderMax   \* header_max_size

\* The options leave no other (OptionsUsable of Options).
ASSUME HeadAssumption == UrlMax \in Nat \ {0} /\ HeaderMax \in Nat

ParserStart(side, http) ==
  [side |-> side, st |-> IF side = "request" THEN "START" ELSE "H",
   tmp |-> <<>>, name |-> <<>>, value |-> <<>>, size |-> 0, digits |-> <<>>,
   done |-> FALSE, rc |-> 0,
   http |-> http]

Refuse(x, rc, status, version) ==
  [x EXCEPT !.st = "FINISH", !.rc = rc, !.http = Refusal(@, status, version)]

\* A request gets an answer; for a response there is none to give.
Bad(x) ==
  IF x.side = "request" THEN Refuse(x, EERIS_4XX, 400, 10)
  ELSE [x EXCEPT !.st = "FINISH", !.rc = EERIS_DATA]

Goto(x, st) == [x EXCEPT !.st = st]
Store(x, c, st) == [x EXCEPT !.tmp = Append(@, c), !.st = st]
Expect(x, ok, y) == IF ok THEN y ELSE Bad(x)

(***************************************************************************)
(* The request line.                                                       *)
(***************************************************************************)
StartChar(x, c) == Store(x, c, "COMMAND")

CommandChar(x, c) ==
  CASE c # SP -> Store(x, c, "COMMAND")
    [] c = SP /\ \E w \in Recognised : x.tmp = <<w>> ->
         [x EXCEPT !.st = "URL_START", !.tmp = <<>>,
                   !.http.request.command = CommandNumber(x.tmp[1])]
    [] OTHER -> Refuse([x EXCEPT !.tmp = <<>>], EERIS_DATA, 405, 10)

UrlStartChar(x, c) ==
  Expect(x, c = "/", [x EXCEPT !.st = "URL", !.http.request.url = Append(@, c)])

\* What begins behind a mark.
Behind(mark) == CASE mark = SP -> "H" [] mark = SEMI -> "PARAMETERS"
                  [] mark = "?" -> "QUERY" [] OTHER -> "FRAGMENT"

\* A part of the target, up to one of its marks; a line that ends here is
\* HTTP/0.9, whose '\r' TITLE_CR then waits for again.  Only behind the url the
\* version is set.
TargetChar(x, c, part, marks) ==
  CASE c \in marks -> Goto(x, Behind(c))
    [] c = "\r" /\ x.http.request.command = CommandNumber("GET") ->
         [x EXCEPT !.st = "TITLE_CR", !.http.request.version = IF part = "url" THEN 9 ELSE @]
    [] c = "\r" /\ x.http.request.command # CommandNumber("GET") ->
         Refuse(x, EERIS_4XX, 405, 9)
    [] OTHER -> [x EXCEPT !.http.request[part] = Append(@, c)]

UrlChar(x, c) ==
  LET y == TargetChar(x, c, "url", {SP, SEMI, "?", "#"})
  IN IF y.rc = 0 /\ Len(y.http.request.url) > UrlMax
     THEN Refuse(y, EERIS_4XX, 414, 10) ELSE y
ParametersChar(x, c) == TargetChar(x, c, "parameters", {SP, "?", "#"})
QueryChar(x, c) == TargetChar(x, c, "query", {SP, SEMI, "#"})
FragmentChar(x, c) == TargetChar(x, c, "fragment", {SP})

(***************************************************************************)
(* The version, H to MINOR, alike in both.                                 *)
(***************************************************************************)
Protocol == [H |-> <<"H", "HT">>, HT |-> <<"T", "HTT">>, HTT |-> <<"T", "HTTP">>,
             HTTP |-> <<"P", "SLASH">>, SLASH |-> <<"/", "MAJOR">>, DOT |-> <<".", "MINOR">>]

ProtocolChar(x, c) ==
  LET begun == IF x.st = "H" THEN [x EXCEPT !.tmp = <<>>] ELSE x
  IN CASE x.st = "MAJOR" -> Expect(x, IsDigit(c), Store(x, c, "DOT"))
       [] OTHER -> Expect(x, c = Protocol[x.st][1], Store(begun, c, Protocol[x.st][2]))

VersionOf(text) == {v \in Versions : VersionText(v) = text}

MinorChar(x, c) ==
  LET known == VersionOf(Append(x.tmp, c))
      read == [x EXCEPT !.tmp = <<>>]
  IN CASE ~IsDigit(c) -> Bad(x)
       [] IsDigit(c) /\ known # {} ->
            [read EXCEPT !.st = "TITLE_CR", !.http.request.version = CHOOSE v \in known : TRUE]
       [] OTHER -> Refuse([read EXCEPT !.http.request.version = 0], EERIS_5XX, 505, 10)

TitleChar(x, c) ==
  CASE x.st = "TITLE_CR" -> Expect(x, c = "\r", Goto(x, "TITLE_LF"))
    [] OTHER -> Expect(x, c = "\n", [x EXCEPT !.st = "HEADER_NAME", !.name = <<>>, !.value = <<>>])

(***************************************************************************)
(* The headers, alike in both.  A name is needed: a head without headers   *)
(* is bad.                                                                 *)
(***************************************************************************)
NameChar(x, c) ==
  IF c = ":" THEN Goto(x, "HEADER_COLON")
  ELSE Expect(x, IsNameChar(c), [x EXCEPT !.name = Append(@, c)])
ColonChar(x, c) == Expect(x, c = SP, Goto(x, "HEADER_VALUE"))
ValueChar(x, c) ==
  IF c = "\r" THEN Goto(x, "HEADER_CR1") ELSE [x EXCEPT !.value = Append(@, c)]
Cr1Char(x, c) == Expect(x, c = "\n", Goto(x, "HEADER_LF1"))

\* A blank goes on with the value; anything else ends the header, and begins
\* the next name without being looked at.
Lf1Char(x, c) ==
  LET pushed == [x EXCEPT !.name = <<>>, !.value = <<>>,
                          !.http[x.side].headers = PushHeader(@, x.name, x.value)]
  IN CASE c = SP -> Goto(x, "HEADER_VALUE")
       [] c = "\r" -> Goto(pushed, "HEADER_CR2")
       [] OTHER -> [pushed EXCEPT !.st = "HEADER_NAME", !.name = <<c>>]

Cr2Char(x, c) ==
  LET ended == [x EXCEPT !.done = TRUE]
  IN Expect(ended, c = "\n", Goto(ended, "HEADER_LF2"))

HeaderChar(x, c) ==
  CASE x.st = "HEADER_NAME" -> NameChar(x, c)
    [] x.st = "HEADER_COLON" -> ColonChar(x, c)
    [] x.st = "HEADER_VALUE" -> ValueChar(x, c)
    [] x.st = "HEADER_CR1" -> Cr1Char(x, c)
    [] OTHER -> Lf1Char(x, c)

RequestChar(x, c) ==
  CASE x.st = "START" -> StartChar(x, c)
    [] x.st = "COMMAND" -> CommandChar(x, c)
    [] x.st = "URL_START" -> UrlStartChar(x, c)
    [] x.st = "URL" -> UrlChar(x, c)
    [] x.st = "PARAMETERS" -> ParametersChar(x, c)
    [] x.st = "QUERY" -> QueryChar(x, c)
    [] x.st = "FRAGMENT" -> FragmentChar(x, c)
    [] x.st \in DOMAIN Protocol \cup {"MAJOR"} -> ProtocolChar(x, c)
    [] x.st = "MINOR" -> MinorChar(x, c)
    [] x.st \in {"TITLE_CR", "TITLE_LF"} -> TitleChar(x, c)
    [] x.st = "HEADER_CR2" -> Cr2Char(x, c)
    [] OTHER -> HeaderChar(x, c)

(***************************************************************************)
(* The status line.                                                        *)
(***************************************************************************)
ResponseProtocolChar(x, c) == ProtocolChar(x, c)

\* Mutant of ResponseMinorChar: the version goes to the request.
ResponseMinorCharInRequest(x, c) ==
  LET known == VersionOf(Append(x.tmp, c))
  IN Expect(x, IsDigit(c) /\ known # {},
            [x EXCEPT !.tmp = <<>>, !.st = "SEP1",
                      !.http.request.version = CHOOSE v \in known : TRUE])

ResponseMinorChar(x, c) ==
  LET known == VersionOf(Append(x.tmp, c))
  IN Expect(x, IsDigit(c) /\ known # {},
            [x EXCEPT !.tmp = <<>>, !.st = "SEP1",
                      !.http.response.version = CHOOSE v \in known : TRUE])

\* A status that is not in the table is refused.
StatusChar(x, c) ==
  LET s == {t \in Statuses : StatusText(t) = Append(x.tmp, c)}
  IN CASE x.st = "SEP1" -> Expect(x, c = SP, Goto(x, "STATUS_1"))
       [] x.st = "STATUS_1" -> Expect(x, IsDigit(c), Store(x, c, "STATUS_2"))
       [] x.st = "STATUS_2" -> Expect(x, IsDigit(c), Store(x, c, "STATUS_3"))
       [] OTHER -> Expect(x, s # {}, [x EXCEPT !.tmp = <<>>, !.st = "SEP2",
                                              !.http.response.status = CHOOSE t \in s : TRUE])

ReasonChar(x, c) ==
  CASE x.st = "SEP2" -> Expect(x, c = SP, [x EXCEPT !.st = "REASON", !.http.response.reason = <<>>])
    [] x.st = "REASON" /\ c = "\r" -> Goto(x, "TITLE_CR")
    [] x.st = "REASON" /\ c # "\r" -> [x EXCEPT !.http.response.reason = Append(@, c)]
    [] x.st = "TITLE_CR" -> Expect(x, c = "\n", Goto(x, "TITLE_LF"))
    [] OTHER -> Expect(x, IsNameChar(c), [x EXCEPT !.st = "HEADER_NAME", !.name = <<c>>, !.value = <<>>])

ResponseHeaderChar(x, c) == HeaderChar(x, c)
ResponseCr2Char(x, c) ==
  Expect(x, c = "\n", [x EXCEPT !.done = TRUE, !.st = "HEADER_LF2"])

ResponseChar(x, c) ==
  CASE x.st \in DOMAIN Protocol \cup {"MAJOR"} -> ResponseProtocolChar(x, c)
    [] x.st = "MINOR" -> ResponseMinorChar(x, c)
    [] x.st \in {"SEP1", "STATUS_1", "STATUS_2", "STATUS_3"} -> StatusChar(x, c)
    [] x.st \in {"SEP2", "REASON", "TITLE_CR", "TITLE_LF"} -> ReasonChar(x, c)
    [] x.st = "HEADER_CR2" -> ResponseCr2Char(x, c)
    [] OTHER -> ResponseHeaderChar(x, c)

(***************************************************************************)
(* One round of the loop over the characters that were received.           *)
(***************************************************************************)
RequestHeadChar(x, c) ==
  IF x.size + 1 > HeaderMax THEN Refuse(x, EERIS_4XX, 431, 10)
  ELSE RequestChar([x EXCEPT !.size = @ + 1], c)

HeadChar(x, c) ==
  IF x.side = "request" THEN RequestHeadChar(x, c) ELSE ResponseChar(x, c)

\* If more came with the last character of the head of a request, it goes to
\* bbuffer; but its first byte is counted before the end is noticed.
EndHead(x, more) ==
  IF x.side = "request" /\ more /\ x.size + 1 > HeaderMax
  THEN Refuse(x, EERIS_4XX, 431, 10) ELSE x
=============================================================================
