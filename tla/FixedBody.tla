------------------------------ MODULE FixedBody ------------------------------
(***************************************************************************)
(* A body of fixed length, from the digits of its Content-Length to its    *)
(* last byte: parse_content_length() of src/ihtp_semantics.c converts the  *)
(* value in an unsigned word, byte by byte; ihtp_fixed_decoder_init() is   *)
(* given the result; ihtp_decode_fixed() counts the bytes the caller has   *)
(* read, in pieces of any length, and a piece that was refused may be      *)
(* followed by a shorter one.  One decoder serves message after message    *)
(* and holds the counters of the last until it is initialised again.       *)
(***************************************************************************)
EXTENDS Integers

CONSTANTS UINT64_MAX,  \* the largest value of uint64_t
          MaxDigits,   \* bound on the length of a Content-Length value
          Pieces       \* lengths of pieces the caller may report

ASSUME WordAssumption ==
  /\ UINT64_MAX \in Nat /\ UINT64_MAX >= 9
  /\ MaxDigits \in Nat
  /\ Pieces \subseteq 0..UINT64_MAX

Digits == 0..9

VARIABLES
  result, i,                 \* parse_content_length(): accumulator, bytes read
  exact,                     \* history: the number those bytes write, unbounded
  stage,                     \* "reading" the value, which was "taken" or
                             \* "refused", or counting the "body"
  remaining, total_decoded,  \* ihtp_fixed_decoder_t
  status,                    \* what the last ihtp_decode_fixed() returned
  counted                    \* history: bytes of this body accepted so far

number  == <<result, i, exact>>
decoder == <<remaining, total_decoded>>
vars    == <<number, stage, decoder, status, counted>>

(* Unsigned arithmetic wraps.                                              *)
Wrapped(n) == n % (UINT64_MAX + 1)

-----------------------------------------------------------------------------
(* Slips: the test without the digit; the test that refuses the largest    *)
(* value too.                                                              *)
OverflowsNoDigit(digit) == result > UINT64_MAX \div 10
OverflowsEarly(digit)   == result >= (UINT64_MAX - digit) \div 10

Overflows(digit) == result > (UINT64_MAX - digit) \div 10

(* The next byte of the value is a digit.                                  *)
Digit(digit) ==
  /\ stage = "reading" /\ i < MaxDigits
  /\ i' = i + 1
  /\ exact' = exact * 10 + digit
  /\ \/ Overflows(digit) /\ stage' = "refused" /\ UNCHANGED result
     \/ ~Overflows(digit) /\ result' = Wrapped(result * 10 + digit) /\ UNCHANGED stage
  /\ UNCHANGED <<decoder, status, counted>>

(* The next byte is no digit.                                              *)
OtherByte ==
  /\ stage = "reading" /\ i < MaxDigits
  /\ i' = i + 1
  /\ stage' = "refused"
  /\ UNCHANGED <<result, exact, decoder, status, counted>>

(* The end of the value: an empty one is refused, any other is a number.   *)
End ==
  /\ stage = "reading"
  /\ stage' = IF i = 0 THEN "refused" ELSE "taken"
  /\ UNCHANGED <<number, decoder, status, counted>>

-----------------------------------------------------------------------------
(* Slip: the count of the message before is kept.                          *)
fixed_decoder_initKeepsTotal ==
  /\ remaining' = result
  /\ UNCHANGED total_decoded

(* ihtp_fixed_decoder_init(dec, content_length)                            *)
fixed_decoder_init ==
  /\ remaining' = result
  /\ total_decoded' = 0

Body ==
  /\ stage = "taken" /\ stage' = "body"
  /\ fixed_decoder_init
  /\ status' = "none" /\ counted' = 0
  /\ UNCHANGED number

Overruns(n) == n > remaining

(* Slip: complete one byte early.                                          *)
WholeEarly == remaining' <= 1

Whole == remaining' = 0

(* ihtp_decode_fixed(dec, n)                                               *)
Refused(n) ==
  /\ Overruns(n)
  /\ status' = "IHTP_ERROR"
  /\ UNCHANGED <<decoder, counted>>

Counted(n) ==
  /\ ~Overruns(n)
  /\ remaining' = Wrapped(remaining - n)
  /\ total_decoded' = Wrapped(total_decoded + n)
  /\ counted' = counted + n
  /\ status' = IF Whole THEN "IHTP_OK" ELSE "IHTP_INCOMPLETE"

decode_fixed(n) ==
  /\ stage = "body"
  /\ Refused(n) \/ Counted(n)
  /\ UNCHANGED <<number, stage>>

(* The caller turns to the next message, with the same decoder.            *)
NextMessage ==
  /\ stage \in {"refused", "body"} /\ stage' = "reading"
  /\ result' = 0 /\ i' = 0 /\ exact' = 0
  /\ UNCHANGED <<decoder, status, counted>>

Init ==
  /\ stage = "reading" /\ result = 0 /\ i = 0 /\ exact = 0
  /\ remaining = 0 /\ total_decoded = 0 /\ status = "none" /\ counted = 0

Next ==
  \/ \E digit \in Digits : Digit(digit)
  \/ OtherByte \/ End
  \/ Body
  \/ \E n \in Pieces : decode_fixed(n)
  \/ NextMessage

Spec == Init /\ [][Next]_vars

-----------------------------------------------------------------------------
(* Every word is a value of uint64_t.                                      *)
TypeOK ==
  /\ result \in 0..UINT64_MAX /\ i \in Nat /\ exact \in Nat
  /\ stage \in {"reading", "taken", "refused", "body"}
  /\ remaining \in 0..UINT64_MAX /\ total_decoded \in 0..UINT64_MAX
  /\ status \in {"none", "IHTP_OK", "IHTP_ERROR", "IHTP_INCOMPLETE"}
  /\ counted \in Nat

(* parse_content_length() never returns a wrapped value: what it has       *)
(* accumulated is the number written, at every byte and in the result      *)
(* (src/ihtp_semantics.c:72-86).                                           *)
LengthExact == stage # "refused" => result = exact

(* The refusal is exact: a digit is refused only if the number with it     *)
(* does not fit the word, and the largest number that fits is taken        *)
(* (src/ihtp_semantics.c:79).                                              *)
RefusedOnlyTooLarge ==
  [][\A digit \in Digits : Digit(digit) => (stage' = "refused" <=> exact' > UINT64_MAX)]_vars

(* In whatever pieces a body comes, whatever was refused, and whatever     *)
(* message the decoder served before: neither counter wraps, and together  *)
(* they are the number its Content-Length wrote                            *)
(* (src/ihtp_body_decoder.c:231-246).                                      *)
FixedAccounting ==
  stage = "body" => total_decoded = counted /\ remaining + counted = exact

(* A body is reported complete exactly when as many bytes as its           *)
(* Content-Length wrote have been counted                                  *)
(* (src/ihtp_body_decoder.c:248-251).                                      *)
OkMeansWhole ==
  stage = "body" =>
    /\ status = "IHTP_OK" => counted = exact
    /\ status = "IHTP_INCOMPLETE" => counted < exact

(* The inductive invariant.                                                *)
IInv == TypeOK /\ LengthExact /\ FixedAccounting /\ OkMeansWhole
=============================================================================
