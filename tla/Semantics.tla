------------------------------ MODULE Semantics ------------------------------
(***************************************************************************)
(* The semantics layer, src/ihtp_semantics.c: from the header fields of a  *)
(* parsed message to its body framing and connection decision.  Apply      *)
(* begins ihtp_request_apply_semantics() or ihtp_response_apply_           *)
(* semantics() on a message; every iteration of its loop over the headers  *)
(* is one action, and Conclude is what follows the loop.  Reuse is the     *)
(* caller moving on to the next message with the same struct.              *)
(*                                                                         *)
(* A field is a lower-case name and a value: the parts between the commas, *)
(* blanks trimmed, <<>> for an empty value.  A part is a token the code    *)
(* looks for, "x" for any other token, "" when there is nothing between    *)
(* two commas, "bad" when it is not a token, "chunked;p" for chunked with  *)
(* parameters.  A Content-Length is one part, "bad" when it is not a       *)
(* number of the word (FixedBody models the conversion).                   *)
(***************************************************************************)
EXTENDS Naturals, Sequences, FiniteSets

CONSTANTS
  ClearsOutputs, \* callers: whether they clear the message struct in between
  Kinds(_),      \* messages such a caller parses: REQUEST, RESPONSE
  Heads(_),      \* and the sequences of header fields they have
  StatusCodes,   \* classes of status codes: "101", "1xx", "204", "304", "200"
  RejectTeCl     \* values of policy->reject_te_cl

REQUEST  == "REQUEST"
RESPONSE == "RESPONSE"

IHTP_BODY_NONE    == "NONE"
IHTP_BODY_FIXED   == "FIXED"
IHTP_BODY_CHUNKED == "CHUNKED"
IHTP_BODY_EOF     == "EOF"

Field == [name : STRING, value : Seq(STRING)]

ASSUME SemanticsAssumption ==
  /\ ClearsOutputs \subseteq BOOLEAN /\ RejectTeCl \subseteq BOOLEAN
  /\ \A c \in ClearsOutputs : Kinds(c) \subseteq {REQUEST, RESPONSE}
  /\ \A c \in ClearsOutputs : Heads(c) \subseteq Seq(Field)

VARIABLES
  message, \* kind, version, status_code, headers; the policy
  out,     \* the fields of the message struct this layer writes
  pc, i,   \* where the call is (ready, fields, done); the header it is at
  loc,     \* its local variables
  status,  \* what the last call returned
  clears   \* the caller's habit

vars == <<message, out, pc, i, loc, status, clears>>

(* The local booleans that are true are the members of loc.set: has_te,    *)
(* has_cl, chunked, has_host, has_upgrade, has_expect, has_trailer,        *)
(* connection_close, connection_keep_alive, connection_upgrade.            *)
NoLocals == [set |-> {}, chunked_count |-> 0, content_length |-> "0"]

Fresh == [body_mode |-> IHTP_BODY_NONE, content_length |-> "0", keep_alive |-> FALSE,
          protocol_upgrade |-> FALSE, expects_continue |-> FALSE, has_trailer_fields |-> FALSE]

Message(k, v, code, hs, strict) ==
  [kind |-> k, version |-> v, status_code |-> code, headers |-> hs, reject_te_cl |-> strict]

NoMessage == Message("NONE", "1.1", "none", <<>>, TRUE)

-----------------------------------------------------------------------------
Has(part, value) == \E j \in 1..Len(value) : value[j] = part

(* A comma-separated list of tokens, none of them empty.                   *)
ValidList(value) == value # <<>> /\ ~Has("", value) /\ ~Has("bad", value)

ValidCodings(value)      == ValidList(value) /\ ~Has("chunked;p", value)
ends_with_chunked(value) == value[Len(value)] = "chunked"
chunked_count(value)     == Cardinality({j \in 1..Len(value) : value[j] = "chunked"})

(* is_token on a whole value: no comma, and an empty one passes.           *)
IsToken(value) == Len(value) <= 1 /\ ~Has("bad", value)

Set(flags) == [loc EXCEPT !.set = @ \cup flags]

Refuse == /\ pc' = "done" /\ status' = "IHTP_ERROR"
          /\ UNCHANGED <<message, out, i, loc, clears>>

(* The header is taken; the loop moves on.                                 *)
Take(locals) == /\ loc' = locals
                /\ i' = i + 1
                /\ UNCHANGED <<message, out, pc, status, clears>>

field == message.headers[i]

At(name) == pc = "fields" /\ i <= Len(message.headers) /\ field.name = name

-----------------------------------------------------------------------------
Apply(m) ==
  /\ message' = m
  /\ pc' = "fields" /\ i' = 1 /\ loc' = NoLocals
  /\ UNCHANGED <<out, status, clears>>

(* An earlier line's chunked is not taken back by a later line.            *)
TransferEncodingSticky ==
  [set |-> loc.set \cup {"has_te"}
             \cup (IF ends_with_chunked(field.value) THEN {"chunked"} ELSE {}),
   chunked_count |-> loc.chunked_count + chunked_count(field.value),
   content_length |-> loc.content_length]

(* The last Transfer-Encoding line decides whether chunked is final.       *)
TransferEncodingLocals ==
  [set |-> (loc.set \ {"chunked"}) \cup {"has_te"}
             \cup (IF ends_with_chunked(field.value) THEN {"chunked"} ELSE {}),
   chunked_count |-> loc.chunked_count + chunked_count(field.value),
   content_length |-> loc.content_length]

TransferEncoding ==
  /\ At("transfer-encoding")
  /\ \/ ~ValidCodings(field.value) /\ Refuse
     \/ ValidCodings(field.value) /\ Take(TransferEncodingLocals)

(* A second Content-Length line is not compared with the first.            *)
ConflictsNever == FALSE

Conflicts == "has_cl" \in loc.set /\ field.value[1] # loc.content_length

ContentLength ==
  /\ At("content-length")
  /\ \/ (Len(field.value) # 1 \/ field.value = <<"bad">>) /\ Refuse
     \/ /\ Len(field.value) = 1 /\ field.value # <<"bad">>
        /\ \/ Conflicts /\ Refuse
           \/ ~Conflicts /\ Take([Set({"has_cl"}) EXCEPT !.content_length = field.value[1]])

ConnectionFlags ==
  {f \in {"connection_close", "connection_keep_alive", "connection_upgrade"} :
     \/ f = "connection_close" /\ Has("close", field.value)
     \/ f = "connection_keep_alive" /\ Has("keep-alive", field.value)
     \/ f = "connection_upgrade" /\ Has("upgrade", field.value)}

Connection ==
  /\ At("connection")
  /\ \/ ~ValidList(field.value) /\ Refuse
     \/ ValidList(field.value) /\ Take(Set(ConnectionFlags))

Upgrade ==
  /\ At("upgrade")
  /\ \/ ~IsToken(field.value) /\ Refuse
     \/ IsToken(field.value) /\ Take(Set({"has_upgrade"}))

Host ==
  /\ At("host") /\ message.kind = REQUEST
  /\ \/ ("has_host" \in loc.set \/ field.value = <<>>) /\ Refuse
     \/ "has_host" \notin loc.set /\ field.value # <<>> /\ Take(Set({"has_host"}))

expects_continue(value) == value = <<"100-continue">>

(* The last Expect line decides; it is written to the struct at once.      *)
Expect ==
  /\ At("expect") /\ message.kind = REQUEST
  /\ \/ field.value = <<>> /\ Refuse
     \/ /\ field.value # <<>>
        /\ out' = [out EXCEPT !.expects_continue = expects_continue(field.value)]
        /\ loc' = Set({"has_expect"})
        /\ i' = i + 1
        /\ UNCHANGED <<message, pc, status, clears>>

Trailer ==
  /\ At("trailer")
  /\ \/ ~ValidList(field.value) /\ Refuse
     \/ ValidList(field.value) /\ Take(Set({"has_trailer"}))

OtherField ==
  /\ \/ At("x")
     \/ message.kind = RESPONSE /\ (At("host") \/ At("expect"))
  /\ Take(loc)

-----------------------------------------------------------------------------
In(flag) == flag \in loc.set

Request == message.kind = REQUEST

(* The checks between the loop and the first write to the struct.          *)
FramingRefused ==
  \/ In("has_te") /\ In("has_cl") /\ message.reject_te_cl
  \/ Request /\ message.version = "1.1" /\ ~In("has_host")
  \/ loc.chunked_count > 1
  \/ Request /\ In("has_te") /\ ~In("chunked")

NoBodyStatus == message.status_code \in {"101", "1xx", "204", "304"}

body_mode ==
  CASE ~Request /\ NoBodyStatus                            -> IHTP_BODY_NONE
    [] (Request \/ ~NoBodyStatus) /\ In("has_te") /\ In("chunked") -> IHTP_BODY_CHUNKED
    [] (Request \/ ~NoBodyStatus) /\ ~(In("has_te") /\ In("chunked")) /\ In("has_cl")
                                                           -> IHTP_BODY_FIXED
    [] OTHER -> IF Request THEN IHTP_BODY_NONE ELSE IHTP_BODY_EOF

has_connection == In("connection_close") \/ In("connection_keep_alive")

(* What is written before the trailer check: the explicit connection       *)
(* decision, the body mode, and the length of a fixed body.                *)
Framed ==
  [out EXCEPT
     !.keep_alive     = IF has_connection THEN ~In("connection_close") ELSE @,
     !.body_mode      = body_mode,
     !.content_length = IF body_mode = IHTP_BODY_FIXED THEN loc.content_length ELSE @]

TrailerRefused == In("has_trailer") /\ body_mode # IHTP_BODY_CHUNKED

(* A default that only ever sets keep_alive, as the response's does.       *)
RequestConcludedNoDefault ==
  [Framed EXCEPT
     !.protocol_upgrade   = In("has_upgrade") /\ In("connection_upgrade"),
     !.has_trailer_fields = In("has_trailer"),
     !.expects_continue   = In("has_expect") /\ @,
     !.keep_alive         = @ \/ (~has_connection /\ message.version = "1.1")]

(* expects_continue of an earlier message is not cleared.                  *)
RequestConcludedKeepsExpect ==
  [Framed EXCEPT
     !.protocol_upgrade   = In("has_upgrade") /\ In("connection_upgrade"),
     !.has_trailer_fields = In("has_trailer"),
     !.keep_alive         = IF has_connection THEN @ ELSE message.version = "1.1"]

RequestConcluded ==
  [Framed EXCEPT
     !.protocol_upgrade   = In("has_upgrade") /\ In("connection_upgrade"),
     !.has_trailer_fields = In("has_trailer"),
     !.expects_continue   = In("has_expect") /\ @,
     !.keep_alive         = IF has_connection THEN @ ELSE message.version = "1.1"]

Switches ==
  /\ message.status_code = "101"
  /\ In("has_upgrade") /\ In("connection_upgrade") /\ ~In("connection_close")

(* A response without a connection decision keeps what the struct held     *)
(* unless it is an HTTP/1.1 message with a body of its own length.         *)
ResponseConcluded ==
  [Framed EXCEPT
     !.protocol_upgrade   = Switches,
     !.has_trailer_fields = In("has_trailer"),
     !.keep_alive         =
       /\ ~Switches
       /\ \/ @
          \/ ~has_connection /\ message.version = "1.1" /\ body_mode # IHTP_BODY_EOF]

Returns(s, o) == /\ pc' = "done" /\ status' = s /\ out' = o
                 /\ UNCHANGED <<message, i, loc, clears>>

Conclude ==
  /\ pc = "fields" /\ i > Len(message.headers)
  /\ \/ FramingRefused /\ Refuse
     \/ ~FramingRefused /\ TrailerRefused /\ Returns("IHTP_ERROR", Framed)
     \/ ~FramingRefused /\ ~TrailerRefused /\ Request /\ Returns("IHTP_OK", RequestConcluded)
     \/ ~FramingRefused /\ ~TrailerRefused /\ ~Request /\ Returns("IHTP_OK", ResponseConcluded)

(* The caller is done with the message and keeps the struct for the next.  *)
Reuse ==
  /\ pc = "done"
  /\ message' = NoMessage
  /\ out' = IF clears THEN Fresh ELSE out
  /\ pc' = "ready" /\ i' = 1 /\ loc' = NoLocals
  /\ UNCHANGED <<status, clears>>

Codes(k) == IF k = REQUEST THEN {"none"} ELSE StatusCodes

Init ==
  /\ message = NoMessage /\ out = Fresh
  /\ pc = "ready" /\ i = 1 /\ loc = NoLocals /\ status = "IHTP_OK"
  /\ clears \in ClearsOutputs

ApplyAny ==
  pc = "ready" /\
  \E k \in Kinds(clears), v \in {"1.0", "1.1"}, hs \in Heads(clears), strict \in RejectTeCl :
    \E code \in Codes(k) : Apply(Message(k, v, code, hs, strict))

Next ==
  \/ ApplyAny
  \/ TransferEncoding \/ ContentLength \/ Connection \/ Upgrade
  \/ Host \/ Expect \/ Trailer \/ OtherField
  \/ Conclude
  \/ Reuse

Spec == Init /\ [][Next]_vars

=============================================================================
