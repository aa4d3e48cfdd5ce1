--------------------------- MODULE FixedBodyProofs ---------------------------
(* The conversion of a Content-Length and the count of the body it         *)
(* declares are exact for every word size.                                 *)
EXTENDS FixedBody, TLAPS

(* The division in the test of src/ihtp_semantics.c:79 decides exactly     *)
(* whether the next value leaves the word.                                 *)
LEMMA OverflowTestExact ==
  ASSUME TypeOK, NEW digit \in Digits
  PROVE  Overflows(digit) <=> result * 10 + digit > UINT64_MAX
  BY WordAssumption DEF TypeOK, Digits, Overflows

(* A value that does not leave the word is stored as it is.                *)
LEMMA WordKeeps ==
  ASSUME NEW n \in 0..UINT64_MAX
  PROVE  Wrapped(n) = n
  BY WordAssumption DEF Wrapped

LEMMA InitEstablishes == Init => IInv
  BY WordAssumption DEF Init, IInv, TypeOK, LengthExact, FixedAccounting, OkMeansWhole

(* Reading one more digit.                                                 *)
LEMMA DigitPreserves ==
  ASSUME IInv, NEW digit \in Digits, Digit(digit)
  PROVE  IInv'
<1> USE WordAssumption DEF IInv, TypeOK, LengthExact, FixedAccounting, OkMeansWhole, decoder
<1>1. CASE Overflows(digit)
  BY <1>1 DEF Digit, Digits
<1>2. CASE ~Overflows(digit)
  <2>1. result * 10 + digit \in 0..UINT64_MAX
    BY <1>2, OverflowTestExact DEF Digits
  <2>2. result' = result * 10 + digit
    BY <1>2, <2>1, WordKeeps DEF Digit
  <2> QED
    BY <1>2, <2>1, <2>2 DEF Digit, Digits
<1> QED
  BY <1>1, <1>2

(* Counting a piece: neither the subtraction nor the addition wraps.       *)
LEMMA CountPreserves ==
  ASSUME IInv, NEW n \in Pieces, decode_fixed(n)
  PROVE  IInv'
<1>1. stage = "body" /\ stage' = stage /\ UNCHANGED number
  BY DEF decode_fixed
<1>2. CASE Refused(n)
  BY <1>1, <1>2 DEF Refused, number, decoder, IInv, TypeOK, LengthExact, FixedAccounting,
     OkMeansWhole
<1>3. CASE Counted(n)
  <2>1. /\ n \in Nat /\ n <= remaining /\ remaining \in Nat /\ counted \in Nat
        /\ total_decoded = counted /\ remaining + counted = exact
        /\ exact = result /\ result \in 0..UINT64_MAX
    BY <1>1, <1>3, WordAssumption
       DEF Counted, Overruns, IInv, TypeOK, LengthExact, FixedAccounting
  <2>2. remaining - n \in 0..UINT64_MAX /\ total_decoded + n \in 0..UINT64_MAX
    BY <2>1, WordAssumption
  <2>3. remaining' = remaining - n /\ total_decoded' = total_decoded + n
    BY <1>3, <2>2, WordKeeps DEF Counted
  <2> QED
    BY <1>1, <1>3, <2>1, <2>2, <2>3
       DEF Counted, Whole, number, IInv, TypeOK, LengthExact, FixedAccounting, OkMeansWhole
<1> QED
  BY <1>2, <1>3 DEF decode_fixed

LEMMA StepPreserves == IInv /\ [Next]_vars => IInv'
<1> SUFFICES ASSUME IInv, [Next]_vars PROVE IInv'
  OBVIOUS
<1> USE WordAssumption DEF IInv, TypeOK, LengthExact, FixedAccounting, OkMeansWhole,
        number, decoder
<1>1. ASSUME NEW digit \in Digits, Digit(digit) PROVE IInv'
  BY <1>1, DigitPreserves
<1>2. CASE OtherByte
  BY <1>2 DEF OtherByte
<1>3. CASE End
  BY <1>3 DEF End
<1>4. CASE Body
  BY <1>4 DEF Body, fixed_decoder_init
<1>5. ASSUME NEW n \in Pieces, decode_fixed(n) PROVE IInv'
  BY <1>5, CountPreserves
<1>6. CASE NextMessage
  BY <1>6 DEF NextMessage
<1>7. CASE UNCHANGED vars
  BY <1>7 DEF vars
<1> QED
  BY <1>1, <1>2, <1>3, <1>4, <1>5, <1>6, <1>7 DEF Next

LEMMA Inductive == Spec => []IInv
  BY InitEstablishes, StepPreserves, PTL DEF Spec

(* The accumulated word is the number written: parse_content_length()      *)
(* never returns a wrapped value.                                          *)
THEOREM LengthNeverWraps == Spec => []LengthExact
<1>1. IInv => LengthExact
  BY DEF IInv
<1> QED
  BY <1>1, Inductive, PTL

(* A digit is refused exactly when the number with it leaves the word: the *)
(* test of parse_content_length() is neither late nor early.               *)
THEOREM RefusalExact == Spec => RefusedOnlyTooLarge
<1> DEFINE Exact ==
      \A digit \in Digits : Digit(digit) => (stage' = "refused" <=> exact' > UINT64_MAX)
<1>1. IInv /\ [Next]_vars => [Exact]_vars
  <2> SUFFICES ASSUME IInv, NEW digit \in Digits, Digit(digit)
               PROVE  stage' = "refused" <=> exact' > UINT64_MAX
    OBVIOUS
  <2>1. exact = result /\ exact' = result * 10 + digit
    BY DEF IInv, LengthExact, Digit
  <2>2. Overflows(digit) <=> exact' > UINT64_MAX
    BY <2>1, OverflowTestExact DEF IInv
  <2> QED
    BY <2>2 DEF Digit
<1> HIDE DEF Exact
<1>2. Spec => [][Exact]_vars
  BY <1>1, Inductive, PTL DEF Spec
<1> QED
  BY <1>2 DEF Exact, RefusedOnlyTooLarge

(* The counters of ihtp_decode_fixed() never wrap and always add up to the *)
(* number the Content-Length wrote.                                        *)
THEOREM FixedExact == Spec => []FixedAccounting
<1>1. IInv => FixedAccounting
  BY DEF IInv
<1> QED
  BY <1>1, Inductive, PTL

(* ihtp_decode_fixed() reports completion exactly when the declared number *)
(* of bytes has been counted.                                              *)
THEOREM FixedComplete == Spec => []OkMeansWhole
<1>1. IInv => OkMeansWhole
  BY DEF IInv
<1> QED
  BY <1>1, Inductive, PTL
=============================================================================
