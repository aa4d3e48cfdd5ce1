----------------------------- MODULE MCSemantics -----------------------------
(* Instances of the semantics layer: all messages of a few header lines.   *)
EXTENDS SemanticsReference

F(name, value) == [name |-> name, value |-> value]

HostLine == F("host", <<"x">>)

(* The lines that decide the body.                                         *)
FramingLines ==
  {F("transfer-encoding", v) :
     v \in {<<"chunked">>, <<"x">>, <<"x", "chunked">>, <<"chunked", "x">>,
            <<"chunked", "">>, <<"chunked;p">>, <<>>}}
  \cup {F("content-length", v) : v \in {<<"5">>, <<"7">>, <<"bad">>, <<"5", "5">>}}
  \cup {F("trailer", v) : v \in {<<"x">>, <<"bad">>}}

(* The lines that decide what becomes of the connection.                   *)
ConnectionLines ==
  {F("connection", v) :
     v \in {<<"close">>, <<"keep-alive">>, <<"upgrade">>, <<"keep-alive", "close">>, <<"x", "">>}}
  \cup {F("upgrade", v) : v \in {<<"x">>, <<>>, <<"x", "x">>}}
  \cup {F("expect", v) : v \in {<<"100-continue">>, <<"x">>, <<>>}}
  \cup {HostLine, F("host", <<>>), F("x", <<"x">>)}

AtMost(n, S) == UNION {[1..k -> S] : k \in 0..n}
Hosted(S)    == S \cup {<<HostLine>> \o hs : hs \in S}

MessageHeads ==
  Hosted(AtMost(2, FramingLines \cup ConnectionLines) \cup AtMost(3, FramingLines)
           \cup AtMost(3, ConnectionLines))

(* One line of each kind, for structs that serve one message after another.*)
ReuseHeads ==
  Hosted(AtMost(2, {F("transfer-encoding", <<"chunked">>), F("content-length", <<"5">>),
                    F("connection", <<"close">>), F("connection", <<"keep-alive", "upgrade">>),
                    F("upgrade", <<"x">>), F("expect", <<"100-continue">>), F("expect", <<"x">>),
                    F("trailer", <<"x">>)}))

(* The response's keep_alive may keep what the struct held (EofImpliesClose *)
(* and the README), so only requests are parsed into an uncleared struct.   *)
MCHeads(c) == IF c THEN MessageHeads ELSE ReuseHeads
MCKinds(c) == IF c THEN {REQUEST, RESPONSE} ELSE {REQUEST}
EofKinds(c) == {RESPONSE}
=============================================================================
