---------------------------- MODULE MCConnection ----------------------------
(* Conversations of one or two messages, one of each kind of framing and    *)
(* of ending, with bodies that look like heads and line ends.               *)
EXTENDS Connection

MCDigits     == {"0", "2"}
MCDigitValue == [d \in MCDigits |-> IF d = "0" THEN 0 ELSE 2]
MCWords ==
  Names \cup MCDigits \cup {"GET", "POST", "CONNECT", "chunked", "close", "100-continue",
                        "101", "204", "200"}
MCMaxHeaders(m) == 4

M(s, v, fs, bytes, payload, f) ==
  [start |-> <<s>>, version |-> v, fields |-> fs, coded |-> bytes, body |-> payload, fate |-> f]

Is(name, value) == << <<name>>, <<value>> >>
Host     == Is("host", "t")
Chunked  == Is("transfer-encoding", "chunked")
Length2  == Is("content-length", "2")
Length0  == Is("content-length", "0")
Closing  == Is("connection", "close")

Chunk(payload) == <<"2", "CR", "LF">> \o payload \o <<"CR", "LF">>
LastChunk      == <<"0", "CR", "LF">>
Trailers       == <<"t", ":", "t", "CR", "LF", "CR", "LF">>

WithTrailer ==
  M("POST", "V11", <<Host, Chunked, Is("expect", "100-continue"), Is("trailer", "t")>>,
    Chunk(<<"LF", "t">>) \o LastChunk \o Trailers, <<"LF", "t">>, "next")

Requests ==
  { M("GET", "V11", <<Host>>, <<>>, <<>>, "next"),
    M("POST", "V11", <<Host, Length2>>, <<"CR", "LF">>, <<"CR", "LF">>, "next"),
    M("POST", "V11", <<Length0, Host>>, <<>>, <<>>, "next"),
    WithTrailer,
    M("GET", "V11", <<Host, Closing>>, <<>>, <<>>, "close"),
    M("GET", "V10", <<>>, <<>>, <<>>, "close"),
    M("CONNECT", "V11", <<Host>>, <<>>, <<>>, "handed"),
    M("GET", "V11", <<Is("t", "t")>>, <<>>, <<>>, "refused"),
    M("POST", "V11", <<Host, Chunked, Length2>>, LastChunk \o <<"CR", "LF">>, <<>>, "refused"),
    M("POST", "V11", <<Host, Chunked>>, Chunk(<<"t">>), <<"t", "CR">>, "refused"),
    M("CTL", "V11", <<Host>>, <<>>, <<>>, "refused") }

(* Without a trailer section: not for a consumer that skips it by itself.   *)
PlainChunked ==
  M("POST", "V11", <<Host, Chunked>>, Chunk(<<"GET", "SP">>) \o LastChunk \o <<"CR", "LF">>,
    <<"GET", "SP">>, "next")

Responses ==
  { M("200", "V11", <<Length2>>, <<"V11", "SP">>, <<"V11", "SP">>, "next"),
    M("204", "V11", <<>>, <<>>, <<>>, "next"),
    M("200", "V11", <<Chunked>>, Chunk(<<"CR", "LF">>) \o LastChunk \o <<"CR", "LF">>,
      <<"CR", "LF">>, "next"),
    M("200", "V11", <<Length2, Closing>>, <<"t", "t">>, <<"t", "t">>, "close"),
    M("101", "V11", <<Is("connection", "upgrade"), Is("upgrade", "t")>>, <<>>, <<>>, "handed") }

ToTheEnd == M("200", "V11", <<>>, <<"t", "CR">>, <<"t", "CR">>, "close")

Talk(k, own, first, last) ==
  {[kind |-> k, consume_trailer |-> own, sent |-> <<m>>] : m \in last}
    \cup {[kind |-> k, consume_trailer |-> own, sent |-> <<m, n>>] : m \in first, n \in last}

MCWires ==
  Talk(REQUEST, TRUE, Requests \cup {PlainChunked}, Requests \cup {PlainChunked})
    \cup Talk(REQUEST, FALSE, {WithTrailer}, Requests)
    \cup Talk(RESPONSE, TRUE, Responses, Responses \cup {ToTheEnd})
=============================================================================
