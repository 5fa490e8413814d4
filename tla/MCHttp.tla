-------------------------------- MODULE MCHttp --------------------------------
EXTENDS HttpExchange

HeaderWords == {"Content-Length", "Transfer-Encoding", "Content-Type", "Connection", "Expect", "Host"}
Values == {"chunked", "keep-alive", "100-continue", "text", "page", "close"}
AllWords == {CommandArrs[i] : i \in DOMAIN CommandArrs} \cup HeaderWords \cup Values \cup {"R"}

Field(name, value) == [name |-> <<name>>, value |-> value]
Host == Field("Host", <<"page">>)
ByChunks == Field("Transfer-Encoding", <<"chunked">>)
Sized(digits) == Field("Content-Length", digits)

Plain == [command |-> "GET", url |-> <<"/", "page">>, parameters |-> <<>>, query |-> <<>>,
          fragment |-> <<>>, version |-> 11, headers |-> <<Host>>,
          chunked |-> FALSE, chunks |-> <<>>, extension |-> <<>>, trailer |-> <<>>]
Get == [Plain EXCEPT !.parameters = <<"p">>, !.query = <<"q">>, !.fragment = <<"f">>]
GetAgain == [Plain EXCEPT !.version = 10, !.query = <<"k", "=", "v">>,
                          !.headers = <<Host, Field("Connection", <<"keep-alive">>)>>]
Ask0 == [Plain EXCEPT !.command = "HEAD", !.version = 9]
Post == [Plain EXCEPT !.command = "POST", !.headers = <<Host, Sized(<<"2">>)>>,
                      !.chunks = <<<<"x", "y">>>>]
Chunks == [Plain EXCEPT !.command = "PUT", !.headers = <<ByChunks>>, !.chunked = TRUE,
             !.chunks = <<<<"x">>, [i \in 1..17 |-> "y"]>>]
Extended == [Plain EXCEPT !.command = "PATCH", !.headers = <<ByChunks>>, !.chunked = TRUE,
               !.chunks = <<<<"x">>>>, !.extension = <<Field("e", <<"v">>)>>,
               !.trailer = <<Field("t", <<"v">>)>>]

Line(target) == <<"GET", " ">> \o target \o <<" ">> \o VersionText(11) \o CRLF
Post0 == <<"POST", " ", "/", " ">> \o VersionText(11) \o CRLF
Lines(fields) == HeaderLines(fields) \o CRLF
Bad0(bytes, status) == [bytes |-> bytes, status |-> status]

AllMalformed ==
  { Bad0(<<"text", " ">>, 405),
    Bad0(<<"GET", " ", "page">>, 400),
    Bad0(<<"HEAD", " ", "/", "page", "\r">>, 405),
    Bad0(<<"GET", " ", "/", " ", "H", "T", "T", "P", "/", "2", ".", "0">>, 505),
    Bad0(<<"GET", " ", "/", " ", "H", "T", "T", "P", "\r">>, 400),
    Bad0(Line(<<"/", "page", "page", "page", "page">>), 414),
    Bad0(Line(<<"/">>) \o CRLF, 400),
    Bad0(Line(<<"/">>) \o <<"Host", ":", "page">>, 400),
    Bad0(Line(<<"/">>) \o [i \in 1..40 |-> "page"], 431),
    Bad0(Post0 \o Lines(<<Host>>), 411),
    Bad0(Post0 \o Lines(<<Sized(<<"9", "9">>)>>), 413),
    Bad0(Post0 \o Lines(<<Field("Expect", <<"100-continue">>),
                          Field("Transfer-Encoding", <<"100-continue">>)>>), 411),
    Bad0(Post0 \o Lines(<<Sized(<<"-", "1">>)>>), 413),
    Bad0(Post0 \o Lines(<<ByChunks>>) \o <<"text">>, 408),
    Bad0(Post0 \o Lines(<<ByChunks>>) \o <<"1", ";">>  \o CRLF \o <<"x", "y">>, 408),
    Bad0(Post0 \o Lines(<<ByChunks>>) \o <<"1", "f">> \o CRLF \o [i \in 1..31 |-> "x"], 408) }

Reply == [status |-> 200, headers |-> <<Field("Content-Type", <<"text">>)>>,
          chunked |-> FALSE, chunks |-> <<<<"x", "y">>>>, extension |-> <<>>, trailer |-> <<>>]
Streamed == [status |-> 404, headers |-> <<ByChunks>>, chunked |-> TRUE,
             chunks |-> <<<<"x">>, <<"y", "z">>>>, extension |-> <<>>, trailer |-> <<>>]

\* What the theorem on reading asks of the requests holds for these.
ASSUME RequestsAreSendable ==
  \A m \in Requests \cup Malformed : "bytes" \in DOMAIN m \/ Sendable(m)
\* And what the theorem on replies asks of the answers.
ASSUME RepliesAreAnswerable ==
  (\A r \in Replies : Answerable(r)) /\ OwnWords \subseteq Words

AllRequests == {Get, GetAgain, Ask0, Post, Chunks, Extended}
TwoReplies == {Reply, Streamed}
================================================================================
