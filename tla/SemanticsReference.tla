-------------------------- MODULE SemanticsReference --------------------------
(***************************************************************************)
(* What RFC 9112 says of a message, stated on its header lines as a whole  *)
(* (docs/rfc/rfc9112.txt sections 3.2, 6.1, 6.3, 7.1 and 9.3), against     *)
(* which the decisions of the semantics layer are compared.                *)
(***************************************************************************)
EXTENDS Semantics

ValueOf(j) == message.headers[j].value

(* The lines of a field, whether one of them lists a part, and which of    *)
(* them is the last.                                                       *)
Lines(name)       == {j \in 1..Len(message.headers) : message.headers[j].name = name}
Present(name)     == Lines(name) # {}
Lists(name, part) == \E j \in Lines(name) : Has(part, ValueOf(j))
IsLast(j, name)   == j \in Lines(name) /\ \A k \in Lines(name) : k <= j

Answered == pc = "done"
Accepted == Answered /\ status = "IHTP_OK"

(* The last part of the last Transfer-Encoding line is chunked.            *)
FinalChunked ==
  \E j \in Lines("transfer-encoding") :
    /\ IsLast(j, "transfer-encoding")
    /\ ValueOf(j) # <<>> /\ ValueOf(j)[Len(ValueOf(j))] = "chunked"

(* Section 6.3: which rule decides the length of the body.                 *)
RFCBody ==
  CASE message.kind = RESPONSE /\ message.status_code \in {"101", "1xx", "204", "304"} -> "NONE"
    [] OTHER -> IF FinalChunked THEN "CHUNKED"
                ELSE IF Present("transfer-encoding") THEN "EOF"
                ELSE IF Present("content-length") THEN "FIXED"
                ELSE IF message.kind = REQUEST THEN "NONE" ELSE "EOF"

(* Where the code parts from section 6.3: with reject_te_cl off, a         *)
(* response that has both fields and does not end in chunked is framed by  *)
(* its Content-Length.                                                     *)
LenientBoth ==
  /\ message.kind = RESPONSE /\ ~message.reject_te_cl /\ ~FinalChunked
  /\ Present("transfer-encoding") /\ Present("content-length")

(* What the semantics layer asks of the header lines.  It is stricter than *)
(* the RFC in two places: an empty list member is refused, and so is an    *)
(* Upgrade of more than one protocol.                                      *)
WellFormed ==
  /\ \A name \in {"connection", "trailer", "transfer-encoding"} :
       \A j \in Lines(name) : ValidList(ValueOf(j))
  /\ ~Lists("transfer-encoding", "chunked;p")
  /\ \A j, k \in Lines("transfer-encoding") :
       \A n \in 1..Len(ValueOf(j)), m \in 1..Len(ValueOf(k)) :
         ValueOf(j)[n] = "chunked" /\ ValueOf(k)[m] = "chunked" => j = k /\ n = m
  /\ \A j \in Lines("content-length") : Len(ValueOf(j)) = 1 /\ ValueOf(j) # <<"bad">>
  /\ \A j, k \in Lines("content-length") : ValueOf(j) = ValueOf(k)
  /\ message.reject_te_cl => ~(Present("transfer-encoding") /\ Present("content-length"))
  /\ Present("trailer") => RFCBody = "CHUNKED"
  /\ message.kind = REQUEST =>
       /\ \A j, k \in Lines("host") : j = k /\ ValueOf(j) # <<>>
       /\ message.version = "1.1" => Present("host")
       /\ Present("transfer-encoding") => FinalChunked
       /\ \A j \in Lines("expect") : ValueOf(j) # <<>>
  /\ \A j \in Lines("upgrade") : Len(ValueOf(j)) <= 1 /\ ValueOf(j) # <<"bad">>

-----------------------------------------------------------------------------
(* A message is accepted exactly when its header lines, taken together and *)
(* in any order, are well formed: the flags the loop of ihtp_request_      *)
(* apply_semantics() and ihtp_response_apply_semantics() carries from one  *)
(* header to the next lose no conflict between two lines.                  *)
AcceptedIffWellFormed == Answered => (status = "IHTP_OK" <=> WellFormed)

(* An accepted message has the body RFC 9112 section 6.3 gives it: chunked *)
(* only when it is the final coding of all Transfer-Encoding lines         *)
(* together, a fixed length only without Transfer-Encoding, and then the   *)
(* length its Content-Length lines agree on (but see LenientBoth).         *)
FramingFollowsRFC ==
  Accepted /\ ~LenientBoth =>
    /\ out.body_mode = RFCBody
    /\ RFCBody = "FIXED" => \A j \in Lines("content-length") : ValueOf(j) = <<out.content_length>>

(* Section 9.3: close wins over keep-alive whatever their order, HTTP/1.1  *)
(* persists by default and HTTP/1.0 does not; a 101 that switches          *)
(* protocols ends persistence.  A body that lasts until the connection     *)
(* closes is left to EofImpliesClose.                                      *)
PersistenceFollowsRFC ==
  Accepted /\ out.body_mode # IHTP_BODY_EOF =>
    (out.keep_alive <=>
       /\ ~Lists("connection", "close")
       /\ message.version = "1.1" \/ Lists("connection", "keep-alive")
       /\ message.kind = RESPONSE => ~out.protocol_upgrade)

(* protocol_upgrade, expects_continue and has_trailer_fields speak of this *)
(* message alone, also in a struct that has served earlier ones: Upgrade   *)
(* needs the connection option beside it, the last Expect line decides,    *)
(* and a response upgrades only as a 101 that does not close.              *)
SignalsFollowMessage ==
  Accepted =>
    /\ out.protocol_upgrade <=>
         /\ Present("upgrade") /\ Lists("connection", "upgrade")
         /\ message.kind = RESPONSE =>
              message.status_code = "101" /\ ~Lists("connection", "close")
    /\ out.has_trailer_fields <=> Present("trailer")
    /\ message.kind = REQUEST =>
         (out.expects_continue <=>
            \E j \in Lines("expect") : IsLast(j, "expect") /\ ValueOf(j) = <<"100-continue">>)

-----------------------------------------------------------------------------
(* src/ihtp_semantics.c:509: "HTTP/1.1 defaults to keep-alive unless EOF   *)
(* framing requires connection close."  A response whose body ends with    *)
(* the connection is never reported persistent.                            *)
EofImpliesClose == Accepted /\ out.body_mode = IHTP_BODY_EOF => ~out.keep_alive
=============================================================================
